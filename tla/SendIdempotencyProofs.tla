----------------------- MODULE SendIdempotencyProofs -----------------------
(***************************************************************************)
(* What module SendIdempotency promises of a key, for any number of        *)
(* requests and fingerprints, any times and any number of faults.          *)
(*                                                                         *)
(* The argument: a request that runs owns the key, unless it was overtaken *)
(* or its key expired.  So only one running request may still send, and    *)
(* from its acceptance on the key is completed, which nothing takes over.  *)
(***************************************************************************)
EXTENDS SendIdempotency, FiniteSetTheorems, TLAPS

Points == {"new", "again", "reads", "runs", "sending", "accepted", "queued",
           "rejected", "resolving", "answering", "releasing", "done"}

KeyType == [status : {"none", "pending", "completed"}, owner : Tries \cup {"none"},
            print : Prints \cup {"none"}, age : 0..(TTL + 1), answer : Tries \cup {"none"}]

TryType == [pc : Points, print : Prints \cup {"none"}, out : BOOLEAN,
            answer : Tries \cup {"none", "busy", "reused", "error"}]

RowType == [status : {"none", "pending", "failed"}, wait : 0..Lease]

-----------------------------------------------------------------------------
(* Types.                                                                  *)

LEMMA InitType == Init => TypeOK
BY KeyAssumption DEF Init, TypeOK, NoKey, NoRow

LEMMA GoesType ==
    ASSUME TypeOK, NEW q \in Tries, NEW pc \in Points, Goes(q, pc)
    PROVE  try' \in [Tries -> TryType]
BY DEF TypeOK, Goes, TryType, Points

LEMMA EndsType ==
    ASSUME TypeOK, NEW q \in Tries, NEW a \in Tries \cup {"none", "busy", "reused", "error"},
           Ends(q, a)
    PROVE  try' \in [Tries -> TryType]
BY DEF TypeOK, Ends, TryType, Points

LEMMA FaultType == TypeOK /\ (Fault \/ UNCHANGED faults) => faults' \in 0..MaxFaults
BY KeyAssumption DEF TypeOK, Fault

LEMMA KeyForms ==
    ASSUME TypeOK, NEW q \in Tries
    PROVE  /\ Completed(q, q) \in KeyType
           /\ Completed(q, q).status = "none" <=> Completed(q, q).owner = "none"
           /\ Released(q) \in KeyType
           /\ Released(q).status = "none" <=> Released(q).owner = "none"
<1>1. /\ key \in KeyType
      /\ key.status = "none" <=> key.owner = "none"
      /\ q # "none"
  BY KeyAssumption DEF TypeOK, KeyType
<1>2. Completed(q, q) \in KeyType
  BY <1>1 DEF KeyType, Completed
<1>3. Completed(q, q).status = "none" <=> Completed(q, q).owner = "none"
  BY <1>1 DEF KeyType, Completed, Ours
<1>4. /\ Released(q) \in KeyType
      /\ Released(q).status = "none" <=> Released(q).owner = "none"
  BY <1>1, KeyAssumption DEF KeyType, Released, NoKey
<1>. QED
  BY <1>2, <1>3, <1>4

LEMMA TypeStep == TypeOK /\ [Next]_vars => TypeOK'
<1>. SUFFICES ASSUME TypeOK, [Next]_vars PROVE TypeOK'
  OBVIOUS
<1>. DEFINE Typed == /\ key' \in KeyType
                     /\ key'.status = "none" <=> key'.owner = "none"
                     /\ try' \in [Tries -> TryType]
                     /\ row' \in [Tries -> RowType]
                     /\ delivered' \subseteq Tries
                     /\ past' \subseteq Tries
                     /\ lost' \subseteq Tries
                     /\ faults' \in 0..MaxFaults
<1>0. Typed => TypeOK'
  BY DEF TypeOK, KeyType, TryType, RowType, Points
<1>u. /\ key \in KeyType
      /\ key.status = "none" <=> key.owner = "none"
      /\ try \in [Tries -> TryType]
      /\ row \in [Tries -> RowType]
      /\ delivered \subseteq Tries
      /\ past \subseteq Tries
      /\ lost \subseteq Tries
      /\ faults \in 0..MaxFaults
  BY DEF TypeOK, KeyType, TryType, RowType, Points
<1>1. ASSUME NEW q \in Tries, Claim(q) PROVE Typed
  <2>1. PICK print \in IF try[q].pc = "new" THEN Prints ELSE {try[q].print} :
          IF key.status = "none" \/ Expired \/ Abandoned
          THEN /\ key' = [status |-> "pending", owner |-> q, print |-> print, age |-> 0,
                          answer |-> "none"]
               /\ try' = [try EXCEPT ![q].pc = "runs", ![q].print = print]
               /\ past' = IF Expired THEN past \cup Begun ELSE past
               /\ lost' = IF ~Expired /\ key.status = "pending" THEN lost \cup {key.owner} ELSE lost
          ELSE /\ try' = [try EXCEPT ![q].pc = "reads", ![q].print = print]
               /\ UNCHANGED <<key, past, lost>>
    BY <1>1 DEF Claim
  <2>2. print \in Prints \cup {"none"}
    BY <1>u DEF TryType
  <2>3. key' \in KeyType /\ (key'.status = "none" <=> key'.owner = "none")
    BY <1>u, <2>1, <2>2, KeyAssumption DEF KeyType
  <2>4. try' \in [Tries -> TryType]
    BY <1>u, <2>1, <2>2 DEF TryType, Points
  <2>5. past' \subseteq Tries /\ lost' \subseteq Tries
    BY <1>u, <2>1 DEF Begun, KeyType
  <2>. QED
    BY <1>1, <1>u, <2>3, <2>4, <2>5 DEF Claim
<1>2. ASSUME NEW q \in Tries, Read(q) PROVE Typed
  <2>1. try' \in [Tries -> TryType]
    <3>1. CASE key.status = "none"
      BY <1>2, <3>1, GoesType DEF Read, Points
    <3>2. CASE key.status # "none"
      BY <1>2, <3>2, <1>u, EndsType DEF Read, KeyType
    <3>. QED
      BY <3>1, <3>2
  <2>. QED
    BY <1>2, <1>u, <2>1 DEF Read
<1>3. ASSUME NEW q \in Tries, Refuse(q) PROVE Typed
  BY <1>3, <1>u, GoesType DEF Refuse, Points
<1>4. ASSUME NEW q \in Tries, WriteAhead(q) PROVE Typed
  <2>1. row' \in [Tries -> RowType]
    BY <1>4, <1>u, KeyAssumption DEF WriteAhead, RowType
  <2>. QED
    BY <1>4, <1>u, <2>1, GoesType DEF WriteAhead, Points
<1>5. ASSUME NEW q \in Tries, Attempt(q) PROVE Typed
  <2>1. try' \in [Tries -> TryType]
    BY <1>5, GoesType DEF Attempt, Points
  <2>2. row' \in [Tries -> RowType]
    BY <1>5, <1>u, KeyAssumption DEF Attempt, RowType, NoRow
  <2>. QED
    BY <1>5, <1>u, <2>1, <2>2 DEF Attempt
<1>6. ASSUME NEW q \in Tries, Accept(q) PROVE Typed
  <2>1. try' \in [Tries -> TryType]
    <3>1. Notified(q) \in BOOLEAN
      BY DEF Notified
    <3>. QED
      BY <1>6, <1>u, <3>1 DEF Accept, TryType, Points
  <2>2. key' \in KeyType /\ (key'.status = "none" <=> key'.owner = "none")
    BY <1>6, <1>u, KeyForms DEF Accept
  <2>3. lost' \subseteq Tries
    BY <1>6, <1>u DEF Accept
  <2>4. faults' \in 0..MaxFaults
    BY <1>6, FaultType DEF Accept
  <2>. QED
    BY <1>6, <1>u, <2>1, <2>2, <2>3, <2>4 DEF Accept
<1>7. ASSUME NEW q \in Tries, Resolve(q) PROVE Typed
  <2>1. row' \in [Tries -> RowType]
    BY <1>7, <1>u, KeyAssumption DEF Resolve, RowType, NoRow
  <2>. QED
    BY <1>7, <1>u, <2>1, GoesType DEF Resolve, Points
<1>8. ASSUME NEW q \in Tries, Answer(q) PROVE Typed
  BY <1>8, <1>u, KeyForms, EndsType DEF Answer
<1>9. ASSUME NEW q \in Tries, Fail(q) PROVE Typed
  <2>1. try' \in [Tries -> TryType]
    BY <1>9, GoesType, EndsType DEF Fail, Points
  <2>. QED
    BY <1>9, <1>u, <2>1, FaultType DEF Fail
<1>10. ASSUME NEW q \in Tries, Release(q) PROVE Typed
  <2>1. key' \in KeyType /\ (key'.status = "none" <=> key'.owner = "none")
    BY <1>10, <1>u, KeyForms DEF Release
  <2>2. faults' \in 0..MaxFaults
    BY <1>10, FaultType DEF Release
  <2>. QED
    BY <1>10, <1>u, <2>1, <2>2, EndsType DEF Release
<1>11. ASSUME NEW q \in Tries, Die(q) PROVE Typed
  BY <1>11, <1>u, EndsType, FaultType DEF Die
<1>12. ASSUME NEW q \in Tries, Deliver(q) PROVE Typed
  <2>1. row' \in [Tries -> RowType]
    BY <1>12, <1>u, KeyAssumption DEF Deliver, RowType, NoRow
  <2>. QED
    BY <1>12, <1>u, <2>1 DEF Deliver
<1>13. ASSUME Prune PROVE Typed
  BY <1>13, <1>u, KeyAssumption DEF Prune, KeyType, NoKey, Begun
<1>14. ASSUME Tick PROVE Typed
  <2>1. key' \in KeyType /\ (key'.status = "none" <=> key'.owner = "none")
    BY <1>14, <1>u, KeyAssumption DEF Tick, KeyType, Expired
  <2>2. row' \in [Tries -> RowType]
    BY <1>14, <1>u, KeyAssumption DEF Tick, RowType
  <2>. QED
    BY <1>14, <1>u, <2>1, <2>2 DEF Tick
<1>15. ASSUME UNCHANGED vars PROVE Typed
  BY <1>15, <1>u DEF vars
<1>. HIDE DEF Typed
<1>16. ASSUME NEW q \in Tries, Run(q) PROVE Typed
  BY <1>16, <1>3, <1>4, <1>5, <1>6, <1>7, <1>8, <1>9, <1>10 DEF Run
<1>17. Next => Typed
  BY <1>1, <1>2, <1>11, <1>12, <1>13, <1>14, <1>16 DEF Next
<1>. QED
  BY <1>0, <1>15, <1>17

\* The key, its requests and their rows are well-formed throughout.
THEOREM TypeCorrect == Spec => []TypeOK
<1>. QED
  BY InitType, TypeStep, PTL DEF Spec

-----------------------------------------------------------------------------
(* The invariant.  A request whose claim was overtaken, whose key expired  *)
(* or that died while it sent is exempt: the key is no longer about it.    *)

Exempt(q) == q \in past \cup lost

Told(q) == try[q].pc \in {"resolving", "answering", "done"}

\* The owner has begun; what is stored is the owner's.
KeyInv ==
    /\ key.status # "none" => key.owner \in Begun /\ key.print = try[key.owner].print
    /\ key.answer = IF key.status = "completed" THEN key.owner ELSE "none"

\* A request answers once, and "out" is about the time it records its send.
TryInv ==
    \A q \in Tries :
        /\ try[q].pc # "done" => try[q].answer = "none"
        /\ try[q].out => try[q].pc \in {"resolving", "answering"}
        /\ try[q].pc = "resolving" => try[q].out

NotOut(q) == row[q].status # "pending" /\ q \notin delivered

\* Where a request leaves its row: none before the write-ahead, none or failed
\* once it gives up, and one that nobody else takes while it sends.
RowInv ==
    \A q \in Tries :
        /\ try[q].pc \in {"new", "again", "reads", "runs", "releasing"} => NotOut(q)
        /\ try[q].pc = "answering" /\ ~try[q].out => NotOut(q)
        /\ q \in Attempting => row[q].status = "pending" /\ row[q].wait > 0
        /\ try[q].pc \in {"sending", "queued", "rejected"} => q \notin delivered

\* A request that runs owns the key, unless it was overtaken.
RunInv == \A q \in Begun : try[q].pc # "done" => Exempt(q) \/ key.owner = q

\* So does one whose message is out; and once the outbox has told it so, the
\* key is completed.
OutInv ==
    \A q \in Out :
        \/ Exempt(q)
        \/ key.owner = q /\ (Told(q) => key.status = "completed")

\* An answer that is a send's comes from a request like the one answered, and
\* it is what the key stores.
AnswerInv ==
    \A r \in Tries : \A a \in Tries :
        try[r].answer = a =>
            /\ a \in Begun
            /\ try[a].print = try[r].print
            /\ Exempt(a) \/ (key.status = "completed" /\ key.owner = a)

IInv == KeyInv /\ TryInv /\ RowInv /\ RunInv /\ OutInv /\ AnswerInv

LEMMA InitInv == Init => IInv
BY KeyAssumption DEF Init, IInv, KeyInv, TryInv, RowInv, RunInv, OutInv, AnswerInv, NoKey, NoRow,
   NotOut, Begun, Out, Attempting

\* What the invariant is for.
LEMMA Consequences == TypeOK /\ IInv => OneMessage /\ OneAnswer /\ KeptOnceOut
<1>. SUFFICES ASSUME TypeOK, IInv PROVE OneMessage /\ OneAnswer /\ KeptOnceOut
  OBVIOUS
<1>1. OneMessage
  <2>1. Out \ (past \cup lost) \subseteq {key.owner}
    BY DEF IInv, OutInv, Exempt
  <2>2. IsFiniteSet({key.owner}) /\ Cardinality({key.owner}) = 1
    BY FS_Singleton
  <2>3. /\ IsFiniteSet(Out \ (past \cup lost))
        /\ Cardinality(Out \ (past \cup lost)) <= Cardinality({key.owner})
    BY <2>1, <2>2, FS_Subset
  <2>. QED
    BY <2>2, <2>3 DEF OneMessage
<1>2. OneAnswer
  BY DEF OneAnswer, IInv, AnswerInv, Exempt
<1>3. KeptOnceOut
  BY DEF KeptOnceOut, IInv, OutInv, KeyInv, Exempt, Told
<1>. QED
  BY <1>1, <1>2, <1>3

-----------------------------------------------------------------------------
(* Each action keeps the invariant.                                        *)

LEMMA GoesTry ==
    ASSUME TypeOK, NEW q \in Tries, NEW pc \in Points, Goes(q, pc)
    PROVE  /\ \A r \in Tries \ {q} : try'[r] = try[r]
           /\ try'[q].pc = pc /\ try'[q].print = try[q].print
           /\ try'[q].out = try[q].out /\ try'[q].answer = try[q].answer
BY DEF TypeOK, Goes

LEMMA EndsTry ==
    ASSUME TypeOK, NEW q \in Tries, NEW a, Ends(q, a)
    PROVE  /\ \A r \in Tries \ {q} : try'[r] = try[r]
           /\ try'[q].pc = "done" /\ try'[q].print = try[q].print
           /\ try'[q].out = FALSE /\ try'[q].answer = a
BY DEF TypeOK, Ends

\* A claim takes a key that is free, or makes exempt whoever had it.
LEMMA ClaimKeeps ==
    ASSUME TypeOK, IInv, NEW q \in Tries, Claim(q)
    PROVE  IInv'
<1>1. KeyInv'
  BY KeyAssumption DEF TypeOK, IInv, Claim, Expired, Abandoned, KeyInv, Begun
<1>2. TryInv'
  BY KeyAssumption DEF TypeOK, IInv, Claim, Expired, Abandoned, TryInv
<1>3. RowInv'
  BY KeyAssumption DEF TypeOK, IInv, Claim, Expired, Abandoned, RowInv, NotOut, Attempting
<1>4. RunInv'
  BY KeyAssumption DEF TypeOK, IInv, Claim, Expired, Abandoned, RunInv, Begun, Exempt
<1>5. OutInv'
  BY KeyAssumption DEF TypeOK, IInv, Claim, Expired, Abandoned, OutInv, Out, Exempt, Told,
     RunInv, Begun, RowInv, NotOut, Attempting
<1>6. AnswerInv'
  BY KeyAssumption DEF TypeOK, IInv, Claim, Expired, Abandoned, AnswerInv, Begun, Exempt
<1>. QED
  BY <1>1, <1>2, <1>3, <1>4, <1>5, <1>6 DEF IInv

\* Reading changes no more than the request that reads.
LEMMA ReadKeeps ==
    ASSUME TypeOK, IInv, NEW q \in Tries, Read(q)
    PROVE  IInv'
<1>1. /\ UNCHANGED <<key, row, delivered, past, lost>>
      /\ try[q].pc = "reads"
      /\ \A r \in Tries \ {q} : try'[r] = try[r]
      /\ try'[q].pc \in {"again", "done"}
      /\ try'[q].print = try[q].print
      /\ ~try'[q].out
      /\ try'[q].pc = "again" => try'[q].answer = "none"
      /\ \/ try'[q].answer \notin Tries
         \/ try'[q].answer = key.answer /\ key.status = "completed" /\ key.print = try[q].print
  <2>1. CASE key.status = "none"
    BY <2>1, GoesTry, KeyAssumption DEF Read, IInv, TryInv, Points
  <2>2. CASE key.status # "none"
    <3>. DEFINE given == IF key.status = "pending" THEN "busy"
                         ELSE IF ~Matches(q) THEN "reused" ELSE key.answer
    <3>1. Ends(q, given)
      BY <2>2 DEF Read
    <3>2. \/ given \notin Tries
          \/ given = key.answer /\ key.status = "completed" /\ key.print = try[q].print
      BY <2>2, KeyAssumption DEF TypeOK, Matches
    <3>. HIDE DEF given
    <3>. QED
      BY <3>1, <3>2, EndsTry DEF Read
  <2>. QED
    BY <2>1, <2>2
<1>2. KeyInv'
  BY <1>1, KeyAssumption DEF TypeOK, IInv, KeyInv, Begun
<1>3. TryInv'
  BY <1>1 DEF IInv, TryInv
<1>4. RowInv'
  BY <1>1 DEF IInv, RowInv, NotOut, Attempting
<1>5. RunInv'
  BY <1>1 DEF IInv, RunInv, Begun, Exempt
<1>6. OutInv'
  BY <1>1 DEF TypeOK, IInv, OutInv, RowInv, NotOut, Out, Exempt, Told
<1>7. AnswerInv'
  <2>1. Begun \subseteq Begun' /\ (\A r \in Tries : try'[r].print = try[r].print)
    BY <1>1 DEF Begun
  <2>2. ASSUME NEW a \in Tries, try'[q].answer = a
        PROVE  a \in Begun /\ try[a].print = try[q].print /\ key.status = "completed" /\ key.owner = a
    BY <1>1, <2>2 DEF IInv, KeyInv
  <2>3. ASSUME NEW r \in Tries, NEW a \in Tries, try'[r].answer = a
        PROVE  /\ a \in Begun /\ try[a].print = try[r].print
               /\ Exempt(a) \/ (key.status = "completed" /\ key.owner = a)
    BY <1>1, <2>2, <2>3 DEF IInv, AnswerInv
  <2>. QED
    BY <1>1, <2>1, <2>3 DEF AnswerInv, Exempt
<1>. QED
  BY <1>2, <1>3, <1>4, <1>5, <1>6, <1>7 DEF IInv

\* Nothing is written yet.
LEMMA RefuseKeeps ==
    ASSUME TypeOK, IInv, NEW q \in Tries, Refuse(q)
    PROVE  IInv'
<1>1. KeyInv'
  BY KeyAssumption DEF TypeOK, IInv, Refuse, Goes, KeyInv, Begun
<1>2. TryInv'
  BY KeyAssumption DEF TypeOK, IInv, Refuse, Goes, TryInv
<1>3. RowInv'
  BY KeyAssumption DEF TypeOK, IInv, Refuse, Goes, RowInv, NotOut, Attempting
<1>4. RunInv'
  BY KeyAssumption DEF TypeOK, IInv, Refuse, Goes, RunInv, Begun, Exempt
<1>5. OutInv'
  BY KeyAssumption DEF TypeOK, IInv, Refuse, Goes, OutInv, Out, Exempt, Told
<1>6. AnswerInv'
  BY KeyAssumption DEF TypeOK, IInv, Refuse, Goes, AnswerInv, Begun, Exempt
<1>. QED
  BY <1>1, <1>2, <1>3, <1>4, <1>5, <1>6 DEF IInv

\* The row of the request that owns the key.
LEMMA WriteAheadKeeps ==
    ASSUME TypeOK, IInv, NEW q \in Tries, WriteAhead(q)
    PROVE  IInv'
<1>1. KeyInv'
  BY KeyAssumption DEF TypeOK, IInv, WriteAhead, Goes, KeyInv, Begun
<1>2. TryInv'
  BY KeyAssumption DEF TypeOK, IInv, WriteAhead, Goes, TryInv
<1>3. RowInv'
  BY KeyAssumption DEF TypeOK, IInv, WriteAhead, Goes, RowInv, NotOut, Attempting
<1>4. RunInv'
  BY KeyAssumption DEF TypeOK, IInv, WriteAhead, Goes, RunInv, Begun, Exempt
<1>5. OutInv'
  BY KeyAssumption DEF TypeOK, IInv, WriteAhead, Goes, OutInv, Out, Exempt, Told, RunInv, Begun
<1>6. AnswerInv'
  BY KeyAssumption DEF TypeOK, IInv, WriteAhead, Goes, AnswerInv, Begun, Exempt
<1>. QED
  BY <1>1, <1>2, <1>3, <1>4, <1>5, <1>6 DEF IInv

\* The provider's answer; the row is this request's until it is resolved.
LEMMA AttemptKeeps ==
    ASSUME TypeOK, IInv, NEW q \in Tries, Attempt(q)
    PROVE  IInv'
<1>1. KeyInv'
  BY KeyAssumption DEF TypeOK, IInv, Attempt, Goes, NoRow, KeyInv, Begun
<1>2. TryInv'
  BY KeyAssumption DEF TypeOK, IInv, Attempt, Goes, NoRow, TryInv
<1>3. RowInv'
  BY KeyAssumption DEF TypeOK, IInv, Attempt, Goes, NoRow, RowInv, NotOut, Attempting
<1>4. RunInv'
  BY KeyAssumption DEF TypeOK, IInv, Attempt, Goes, NoRow, RunInv, Begun, Exempt
<1>5. OutInv'
  BY KeyAssumption DEF TypeOK, IInv, Attempt, Goes, NoRow, OutInv, Out, Exempt, Told, RunInv,
     Begun, RowInv, NotOut, Attempting
<1>6. AnswerInv'
  BY KeyAssumption DEF TypeOK, IInv, Attempt, Goes, NoRow, AnswerInv, Begun, Exempt
<1>. QED
  BY <1>1, <1>2, <1>3, <1>4, <1>5, <1>6 DEF IInv

\* The key is completed, or the request is exempt.
LEMMA AcceptKeeps ==
    ASSUME TypeOK, IInv, NEW q \in Tries, Accept(q)
    PROVE  IInv'
<1>1. KeyInv'
  <2>1. /\ key' \in {key, Completed(q, q)}
        /\ \A r \in Tries : r \in Begun => r \in Begun' /\ try'[r].print = try[r].print
    BY DEF TypeOK, Accept, Begun
  <2>. QED
    BY <2>1, KeyAssumption DEF TypeOK, IInv, KeyInv, Completed, Ours
<1>2. TryInv'
  BY KeyAssumption DEF TypeOK, IInv, Accept, Completed, Notified, Ours, TryInv
<1>3. RowInv'
  BY KeyAssumption DEF TypeOK, IInv, Accept, Completed, Notified, Ours, RowInv, NotOut,
     Attempting
<1>4. RunInv'
  BY KeyAssumption DEF TypeOK, IInv, Accept, Completed, Notified, Ours, RunInv, Begun, Exempt
<1>5. OutInv'
  BY KeyAssumption DEF TypeOK, IInv, Accept, Completed, Notified, Ours, OutInv, Out, Exempt,
     Told, RunInv, Begun, RowInv, NotOut, Attempting, TryInv, KeyInv
<1>6. AnswerInv'
  BY KeyAssumption DEF TypeOK, IInv, Accept, Completed, Notified, Ours, AnswerInv, Begun,
     Exempt, TryInv
<1>. QED
  BY <1>1, <1>2, <1>3, <1>4, <1>5, <1>6 DEF IInv

\* The row is deleted, due, or failed.
LEMMA ResolveKeeps ==
    ASSUME TypeOK, IInv, NEW q \in Tries, Resolve(q)
    PROVE  IInv'
<1>1. KeyInv'
  BY KeyAssumption DEF TypeOK, IInv, Resolve, Goes, NoRow, KeyInv, Begun
<1>2. TryInv'
  BY KeyAssumption DEF TypeOK, IInv, Resolve, Goes, NoRow, TryInv
<1>3. RowInv'
  BY KeyAssumption DEF TypeOK, IInv, Resolve, Goes, NoRow, RowInv, NotOut, Attempting, TryInv
<1>4. RunInv'
  BY KeyAssumption DEF TypeOK, IInv, Resolve, Goes, NoRow, RunInv, Begun, Exempt
<1>5. OutInv'
  BY KeyAssumption DEF TypeOK, IInv, Resolve, Goes, NoRow, OutInv, Out, Exempt, Told, RunInv,
     Begun, RowInv, NotOut, Attempting
<1>6. AnswerInv'
  BY KeyAssumption DEF TypeOK, IInv, Resolve, Goes, NoRow, AnswerInv, Begun, Exempt
<1>. QED
  BY <1>1, <1>2, <1>3, <1>4, <1>5, <1>6 DEF IInv

\* The answer is stored if the key is still this request's.
LEMMA AnswerKeeps ==
    ASSUME TypeOK, IInv, NEW q \in Tries, Answer(q)
    PROVE  IInv'
<1>1. KeyInv'
  BY KeyAssumption DEF TypeOK, IInv, Answer, Ends, Completed, Ours, KeyInv, Begun
<1>2. TryInv'
  BY KeyAssumption DEF TypeOK, IInv, Answer, Ends, Completed, Ours, TryInv
<1>3. RowInv'
  BY KeyAssumption DEF TypeOK, IInv, Answer, Ends, Completed, Ours, RowInv, NotOut, Attempting
<1>4. RunInv'
  BY KeyAssumption DEF TypeOK, IInv, Answer, Ends, Completed, Ours, RunInv, Begun, Exempt
<1>5. OutInv'
  BY KeyAssumption DEF TypeOK, IInv, Answer, Ends, Completed, Ours, OutInv, Out, Exempt, Told
<1>6. AnswerInv'
  BY KeyAssumption DEF TypeOK, IInv, Answer, Ends, Completed, Ours, AnswerInv, Begun, Exempt,
     KeyInv, TryInv, RunInv
<1>. QED
  BY <1>1, <1>2, <1>3, <1>4, <1>5, <1>6 DEF IInv

\* The key is kept when the message is known to be out.
LEMMA FailKeeps ==
    ASSUME TypeOK, IInv, NEW q \in Tries, Fail(q)
    PROVE  IInv'
<1>1. /\ UNCHANGED <<key, row, delivered, past, lost>>
      /\ try[q].pc = "answering"
      /\ \A r \in Tries \ {q} : try'[r] = try[r]
      /\ try'[q].pc = IF try[q].out THEN "done" ELSE "releasing"
      /\ try'[q].print = try[q].print
      /\ ~try'[q].out
      /\ try'[q].answer \notin Tries
      /\ try'[q].pc # "done" => try'[q].answer = "none"
  <2>1. CASE ~try[q].out
    BY <2>1, GoesTry, KeyAssumption DEF Fail, IInv, TryInv, Points
  <2>2. CASE try[q].out
    BY <2>2, EndsTry, KeyAssumption DEF Fail
  <2>. QED
    BY <2>1, <2>2
<1>2. KeyInv'
  BY <1>1, KeyAssumption DEF TypeOK, IInv, KeyInv, Begun
<1>3. TryInv'
  BY <1>1 DEF IInv, TryInv
<1>4. RowInv'
  BY <1>1 DEF IInv, RowInv, NotOut, Attempting
<1>5. RunInv'
  BY <1>1 DEF IInv, RunInv, Begun, Exempt
<1>6. OutInv'
  BY <1>1 DEF TypeOK, IInv, OutInv, Out, Exempt, Told
<1>7. AnswerInv'
  <2>1. Begun \subseteq Begun' /\ (\A r \in Tries : try'[r].print = try[r].print)
    BY <1>1 DEF Begun
  <2>2. ASSUME NEW r \in Tries, NEW a \in Tries, try'[r].answer = a
        PROVE  /\ a \in Begun /\ try[a].print = try[r].print
               /\ Exempt(a) \/ (key.status = "completed" /\ key.owner = a)
    BY <1>1, <2>2 DEF IInv, AnswerInv
  <2>. QED
    BY <1>1, <2>1, <2>2 DEF AnswerInv, Exempt
<1>. QED
  BY <1>2, <1>3, <1>4, <1>5, <1>6, <1>7 DEF IInv

\* Only a request without a message releases, and only its own claim.
LEMMA ReleaseKeeps ==
    ASSUME TypeOK, IInv, NEW q \in Tries, Release(q)
    PROVE  IInv'
<1>1. KeyInv'
  BY KeyAssumption DEF TypeOK, IInv, Release, Ends, Released, Ours, NoKey, KeyInv, Begun
<1>2. TryInv'
  BY KeyAssumption DEF TypeOK, IInv, Release, Ends, Released, Ours, NoKey, TryInv
<1>3. RowInv'
  BY KeyAssumption DEF TypeOK, IInv, Release, Ends, Released, Ours, NoKey, RowInv, NotOut,
     Attempting
<1>4. RunInv'
  BY KeyAssumption DEF TypeOK, IInv, Release, Ends, Released, Ours, NoKey, RunInv, Begun, Exempt
<1>5. OutInv'
  BY KeyAssumption DEF TypeOK, IInv, Release, Ends, Released, Ours, NoKey, OutInv, Out, Exempt,
     Told, RowInv, NotOut
<1>6. AnswerInv'
  BY KeyAssumption DEF TypeOK, IInv, Release, Ends, Released, Ours, NoKey, AnswerInv, Begun,
     Exempt
<1>. QED
  BY <1>1, <1>2, <1>3, <1>4, <1>5, <1>6 DEF IInv

\* A request that dies with its message in doubt is exempt.
LEMMA DieKeeps ==
    ASSUME TypeOK, IInv, NEW q \in Tries, Die(q)
    PROVE  IInv'
<1>1. KeyInv'
  BY KeyAssumption DEF TypeOK, IInv, Die, Ends, KeyInv, Begun
<1>2. TryInv'
  BY KeyAssumption DEF TypeOK, IInv, Die, Ends, TryInv
<1>3. RowInv'
  BY KeyAssumption DEF TypeOK, IInv, Die, Ends, RowInv, NotOut, Attempting
<1>4. RunInv'
  BY KeyAssumption DEF TypeOK, IInv, Die, Ends, RunInv, Begun, Exempt
<1>5. OutInv'
  BY KeyAssumption DEF TypeOK, IInv, Die, Ends, OutInv, Out, Exempt, Told, RowInv, NotOut
<1>6. AnswerInv'
  BY KeyAssumption DEF TypeOK, IInv, Die, Ends, AnswerInv, Begun, Exempt
<1>. QED
  BY <1>1, <1>2, <1>3, <1>4, <1>5, <1>6 DEF IInv

\* The hourly pass takes rows that no request still holds.
LEMMA DeliverKeeps ==
    ASSUME TypeOK, IInv, NEW q \in Tries, Deliver(q)
    PROVE  IInv'
<1>1. KeyInv'
  BY KeyAssumption DEF TypeOK, IInv, Deliver, NoRow, KeyInv, Begun
<1>2. TryInv'
  BY KeyAssumption DEF TypeOK, IInv, Deliver, NoRow, TryInv
<1>3. RowInv'
  BY KeyAssumption DEF TypeOK, IInv, Deliver, NoRow, RowInv, NotOut, Attempting
<1>4. RunInv'
  BY KeyAssumption DEF TypeOK, IInv, Deliver, NoRow, RunInv, Begun, Exempt
<1>5. OutInv'
  BY KeyAssumption DEF TypeOK, IInv, Deliver, NoRow, OutInv, Out, Exempt, Told
<1>6. AnswerInv'
  BY KeyAssumption DEF TypeOK, IInv, Deliver, NoRow, AnswerInv, Begun, Exempt
<1>. QED
  BY <1>1, <1>2, <1>3, <1>4, <1>5, <1>6 DEF IInv

\* All that began under the key are exempt.
LEMMA PruneKeeps ==
    ASSUME TypeOK, IInv, Prune
    PROVE  IInv'
<1>1. KeyInv'
  BY KeyAssumption DEF TypeOK, IInv, Prune, NoKey, KeyInv, Begun
<1>2. TryInv'
  BY KeyAssumption DEF TypeOK, IInv, Prune, NoKey, TryInv
<1>3. RowInv'
  BY KeyAssumption DEF TypeOK, IInv, Prune, NoKey, RowInv, NotOut, Attempting
<1>4. RunInv'
  BY KeyAssumption DEF TypeOK, IInv, Prune, NoKey, RunInv, Begun, Exempt
<1>5. OutInv'
  BY KeyAssumption DEF TypeOK, IInv, Prune, NoKey, OutInv, Out, Exempt, Told, RunInv, Begun,
     RowInv, NotOut, Attempting
<1>6. AnswerInv'
  BY KeyAssumption DEF TypeOK, IInv, Prune, NoKey, AnswerInv, Begun, Exempt
<1>. QED
  BY <1>1, <1>2, <1>3, <1>4, <1>5, <1>6 DEF IInv

\* A lease is longer than an attempt.
LEMMA TickKeeps ==
    ASSUME TypeOK, IInv, Tick
    PROVE  IInv'
<1>1. KeyInv'
  BY KeyAssumption DEF TypeOK, IInv, Tick, Expired, KeyInv, Begun
<1>2. TryInv'
  BY KeyAssumption DEF TypeOK, IInv, Tick, Expired, TryInv
<1>3. RowInv'
  BY KeyAssumption DEF TypeOK, IInv, Tick, Expired, RowInv, NotOut, Attempting
<1>4. RunInv'
  BY KeyAssumption DEF TypeOK, IInv, Tick, Expired, RunInv, Begun, Exempt
<1>5. OutInv'
  BY KeyAssumption DEF TypeOK, IInv, Tick, Expired, OutInv, Out, Exempt, Told
<1>6. AnswerInv'
  BY KeyAssumption DEF TypeOK, IInv, Tick, Expired, AnswerInv, Begun, Exempt
<1>. QED
  BY <1>1, <1>2, <1>3, <1>4, <1>5, <1>6 DEF IInv

LEMMA InvStep == TypeOK /\ IInv /\ [Next]_vars => IInv'
<1>. SUFFICES ASSUME TypeOK, IInv, [Next]_vars PROVE IInv'
  OBVIOUS
<1>1. ASSUME NEW q \in Tries, Run(q) PROVE IInv'
  BY <1>1, RefuseKeeps, WriteAheadKeeps, AttemptKeeps, AcceptKeeps, ResolveKeeps, AnswerKeeps,
     FailKeeps, ReleaseKeeps DEF Run
<1>2. CASE Next
  BY <1>1, <1>2, ClaimKeeps, ReadKeeps, DieKeeps, DeliverKeeps, PruneKeeps, TickKeeps DEF Next
<1>3. CASE UNCHANGED vars
  BY <1>3 DEF vars, IInv, KeyInv, TryInv, RowInv, RunInv, OutInv, AnswerInv, Begun, NotOut,
     Attempting, Out, Exempt, Told
<1>. QED
  BY <1>2, <1>3

LEMMA Invariant == Spec => [](TypeOK /\ IInv)
<1>. QED
  BY InitType, TypeStep, InitInv, InvStep, PTL DEF Spec

\* One key, one message, for any number of requests, however slow they are and
\* however many of them die, as long as an attempt is over within its lease.
THEOREM OneMessagePerKey == Spec => []OneMessage
<1>. QED
  BY Invariant, Consequences, PTL

\* A replayed answer is that of the one send the key stands for, and of a
\* request with the same fingerprint.
THEOREM OneAnswerPerKey == Spec => []OneAnswer
<1>. QED
  BY Invariant, Consequences, PTL

\* A send that is out keeps its key: what fails after the acceptance, and what
\* late requests do, never frees it.
THEOREM KeptForGood == Spec => []KeptOnceOut
<1>. QED
  BY Invariant, Consequences, PTL
=============================================================================
