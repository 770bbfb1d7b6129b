-------------------------- MODULE SendIdempotency ---------------------------
(***************************************************************************)
(* One idempotency key of the send routes (send-idempotency.ts) and the    *)
(* tries of a client that use it, each a request that sends through the    *)
(* outbox.  Of the outbox (module Outbox) a try has its own row: written   *)
(* ahead, held for the Lease, then resolved; the hourly pass delivers what *)
(* is left pending.  A claim is told by its created_at, here by its try.   *)
(* Keys expire, claims go stale and leases end by the same clock.          *)
(***************************************************************************)
EXTENDS Naturals, FiniteSets

CONSTANTS
    Tries,      \* the requests made with the key
    Prints,     \* their possible fingerprints
    Stale,      \* IDEMPOTENCY_STALE_SECONDS
    Lease,      \* how long a row written ahead is left to its request
    TTL,        \* IDEMPOTENCY_TTL_SECONDS
    Slow,       \* whether a request may run for longer than Stale
    MaxFaults   \* bound of the model: requests that die, statements that fail

ASSUME KeyAssumption ==
    /\ {Stale, Lease, TTL, MaxFaults} \subseteq Nat
    /\ Stale < Lease /\ Stale < TTL
    /\ Slow \in BOOLEAN
    /\ Tries \cap {"none", "busy", "reused", "error"} = {}
    /\ "none" \notin Prints

VARIABLES
    key,        \* the row of send_idempotency, if any
    try,        \* what each request is doing
    row,        \* the outbox row of each request
    delivered,  \* requests whose message was delivered
    past,       \* history: requests of a key that has since expired
    lost,       \* history: requests that stopped, or were overtaken, midway
    faults

vars == <<key, try, row, delivered, past, lost, faults>>

NoKey == [status |-> "none", owner |-> "none", print |-> "none", age |-> 0, answer |-> "none"]
NoRow == [status |-> "none", wait |-> 0]

TypeOK ==
    /\ key \in [status : {"none", "pending", "completed"}, owner : Tries \cup {"none"},
                print : Prints \cup {"none"}, age : 0..(TTL + 1),
                answer : Tries \cup {"none"}]
    /\ key.status = "none" <=> key.owner = "none"
    /\ try \in [Tries -> [pc : {"new", "again", "reads", "runs", "sending", "accepted", "queued",
                                "rejected", "resolving", "answering", "releasing", "done"},
                          print : Prints \cup {"none"}, out : BOOLEAN,
                          answer : Tries \cup {"none", "busy", "reused", "error"}]]
    /\ row \in [Tries -> [status : {"none", "pending", "failed"}, wait : 0..Lease]]
    /\ delivered \subseteq Tries
    /\ past \subseteq Tries
    /\ lost \subseteq Tries
    /\ faults \in 0..MaxFaults

Init ==
    /\ key = NoKey
    /\ try = [q \in Tries |-> [pc |-> "new", print |-> "none", out |-> FALSE, answer |-> "none"]]
    /\ row = [q \in Tries |-> NoRow]
    /\ delivered = {}
    /\ past = {}
    /\ lost = {}
    /\ faults = 0

Fault == faults < MaxFaults /\ faults' = faults + 1

Goes(q, pc) == try' = [try EXCEPT ![q].pc = pc]

Ends(q, answer) == try' = [try EXCEPT ![q] = [@ EXCEPT !.pc = "done", !.answer = answer, !.out = FALSE]]

\* Requests that have run, or run now, under the key.
Begun == {q \in Tries : try[q].pc \notin {"new", "again", "reads"}}

-----------------------------------------------------------------------------
(* The claim: withIdempotency up to the run.                               *)

Expired == key.age > TTL

\* Faulty: a completed key is taken over as well.
AbandonedAny == key.age > Stale

Abandoned == key.status = "pending" /\ key.age > Stale

\* One statement claims a free key, an expired one or an abandoned one.
Claim(q) ==
    /\ try[q].pc \in {"new", "again"}
    /\ \E print \in IF try[q].pc = "new" THEN Prints ELSE {try[q].print} :
         IF key.status = "none" \/ Expired \/ Abandoned
         THEN /\ key' = [status |-> "pending", owner |-> q, print |-> print, age |-> 0,
                         answer |-> "none"]
              /\ try' = [try EXCEPT ![q].pc = "runs", ![q].print = print]
              /\ past' = IF Expired THEN past \cup Begun ELSE past
              /\ lost' = IF ~Expired /\ key.status = "pending" THEN lost \cup {key.owner} ELSE lost
         ELSE /\ try' = [try EXCEPT ![q].pc = "reads", ![q].print = print]
              /\ UNCHANGED <<key, past, lost>>
    /\ UNCHANGED <<row, delivered, faults>>

\* Faulty: the stored answer is given whatever was asked.
MatchesAny(q) == TRUE

Matches(q) == key.print = try[q].print

\* What is stored is read by a statement of its own.  A key released meanwhile
\* is tried once more.
Read(q) ==
    /\ try[q].pc = "reads"
    /\ IF key.status = "none" THEN Goes(q, "again")
       ELSE Ends(q, IF key.status = "pending" THEN "busy"
                    ELSE IF ~Matches(q) THEN "reused" ELSE key.answer)
    /\ UNCHANGED <<key, row, delivered, past, lost, faults>>

-----------------------------------------------------------------------------
(* The run: a send route, and sendViaOutbox within it.                     *)

\* Refused by a rule, a limit or a missing template before anything is sent.
Refuse(q) ==
    /\ try[q].pc = "runs"
    /\ Goes(q, "releasing")
    /\ UNCHANGED <<key, row, delivered, past, lost, faults>>

WriteAhead(q) ==
    /\ try[q].pc = "runs"
    /\ row' = [row EXCEPT ![q] = [status |-> "pending", wait |-> Lease]]
    /\ Goes(q, "sending")
    /\ UNCHANGED <<key, delivered, past, lost, faults>>

\* The attempt: accepted, left to the outbox (a transient answer or a pause),
\* or rejected; suppressed, or a throw, deletes the row.
Attempt(q) ==
    /\ try[q].pc = "sending"
    /\ \E end \in {"accepted", "queued", "rejected", "answering", "releasing"} :
         /\ Goes(q, end)
         /\ delivered' = IF end = "accepted" THEN delivered \cup {q} ELSE delivered
         /\ row' = IF end \in {"answering", "releasing"} THEN [row EXCEPT ![q] = NoRow] ELSE row
    /\ UNCHANGED <<key, past, lost, faults>>

\* The claim is still this request's: a takeover has a later created_at.
Ours(q) == key.owner = q

\* Faulty: the answer is stored whoever holds the key.
CompletedAny(q, answer) == [key EXCEPT !.status = "completed", !.answer = answer]

Completed(q, answer) ==
    IF Ours(q) THEN [key EXCEPT !.status = "completed", !.answer = answer] ELSE key

\* Faulty: a message left to the outbox does not count as accepted.
AcceptedOnly(q) == try[q].pc = "accepted"

Notified(q) == try[q].pc \in {"accepted", "queued"}

\* notifySendAccepted completes the key at once; the write may fail, twice.
Accept(q) ==
    /\ try[q].pc \in {"accepted", "queued"}
    /\ try' = [try EXCEPT ![q].pc = "resolving", ![q].out = Notified(q)]
    /\ \/ key' = (IF Notified(q) THEN Completed(q, q) ELSE key) /\ UNCHANGED <<faults, lost>>
       \/ Fault /\ lost' = lost \cup {q} /\ UNCHANGED key
    /\ UNCHANGED <<row, delivered, past>>

\* The row: deleted, left pending and due, or failed.
Resolve(q) ==
    /\ try[q].pc \in {"resolving", "rejected"}
    /\ row' = [row EXCEPT ![q] =
                 IF try[q].pc = "rejected" THEN [status |-> "failed", wait |-> 0]
                 ELSE IF q \in delivered THEN NoRow
                 ELSE [status |-> "pending", wait |-> 0]]
    /\ Goes(q, "answering")
    /\ UNCHANGED <<key, delivered, past, lost, faults>>

\* The request is answered, and the answer stored ...
Answer(q) ==
    /\ try[q].pc = "answering"
    /\ key' = Completed(q, q)
    /\ Ends(q, q)
    /\ UNCHANGED <<row, delivered, past, lost, faults>>

\* ... or fails while it records the send: the key is released unless the
\* message is known to be out.
Fail(q) ==
    /\ try[q].pc = "answering"
    /\ Fault
    /\ IF try[q].out THEN Ends(q, "error") ELSE Goes(q, "releasing")
    /\ UNCHANGED <<key, row, delivered, past, lost>>

\* Faulty: whatever claim is pending is released.
ReleasedAny(q) == IF key.status = "pending" THEN NoKey ELSE key

Released(q) == IF Ours(q) /\ key.status = "pending" THEN NoKey ELSE key

Release(q) ==
    /\ try[q].pc = "releasing"
    /\ \/ key' = Released(q) /\ UNCHANGED faults
       \/ Fault /\ UNCHANGED key
    /\ Ends(q, "error")
    /\ UNCHANGED <<row, delivered, past, lost>>

-----------------------------------------------------------------------------
(* The environment.                                                        *)

\* The worker dies.  From the write-ahead to the notification the message may
\* be out, or yet go out, without the key knowing.
Die(q) ==
    /\ q \in Begun
    /\ try[q].pc # "done"
    /\ Fault
    /\ Ends(q, "error")
    /\ lost' = IF try[q].pc \in {"sending", "accepted", "queued", "rejected"}
               THEN lost \cup {q} ELSE lost
    /\ UNCHANGED <<key, row, delivered, past>>

\* The hourly pass takes a row that is due, and delivers it or gives it up.
Deliver(q) ==
    /\ row[q].status = "pending" /\ row[q].wait = 0
    /\ \/ delivered' = delivered \cup {q} /\ row' = [row EXCEPT ![q] = NoRow]
       \/ row' = [row EXCEPT ![q] = [status |-> "failed", wait |-> 0]] /\ UNCHANGED delivered
    /\ UNCHANGED <<key, try, past, lost, faults>>

\* pruneSendIdempotency
Prune ==
    /\ key.status # "none"
    /\ Expired
    /\ key' = NoKey
    /\ past' = past \cup Begun
    /\ UNCHANGED <<try, row, delivered, lost, faults>>

\* The requests that are with the provider, or about to write what it said.
Attempting == {q \in Tries : try[q].pc \in {"sending", "accepted", "queued", "rejected", "resolving"}}

\* A unit of time, while something waits for it.  An attempt never outlives its
\* Lease; a request may outlive Stale, where Slow.
Tick ==
    /\ \/ key.status # "none" /\ ~Expired
       \/ \E q \in Tries : row[q].wait > 0
    /\ \A q \in Attempting : row[q].wait > 1
    /\ ~Slow => \A q \in Tries : key.owner = q /\ key.age >= Stale => try[q].pc = "done"
    /\ key' = IF key.status = "none" \/ Expired THEN key ELSE [key EXCEPT !.age = @ + 1]
    /\ row' = [q \in Tries |-> [row[q] EXCEPT !.wait = IF @ > 0 THEN @ - 1 ELSE 0]]
    /\ UNCHANGED <<try, delivered, past, lost, faults>>

-----------------------------------------------------------------------------
Run(q) ==
    \/ Refuse(q) \/ WriteAhead(q) \/ Attempt(q) \/ Accept(q) \/ Resolve(q)
    \/ Answer(q) \/ Fail(q) \/ Release(q)

Next ==
    \/ \E q \in Tries : Claim(q) \/ Read(q) \/ Run(q) \/ Die(q) \/ Deliver(q)
    \/ Prune \/ Tick

Spec == Init /\ [][Next]_vars

-----------------------------------------------------------------------------
(* What the key promises.                                                  *)

\* The requests whose message was delivered, or is the outbox's to deliver.
Out == delivered \cup {q \in Tries : row[q].status = "pending"}

\* One key, one message: of the requests that neither died nor were overtaken
\* while they sent, at most one sends, whatever the others do to the key late.
OneMessage == Cardinality(Out \ (past \cup lost)) <= 1

\* An answer given to two requests is the same send, and a request is never
\* answered with the outcome of a different one.
OneAnswer ==
    \A q, r \in Tries :
        /\ try[q].answer \in Tries => try[q].print = try[try[q].answer].print
        /\ {try[q].answer, try[r].answer} \subseteq Tries \ (past \cup lost) =>
              try[q].answer = try[r].answer

\* From the moment the provider, or the outbox, has the message the key belongs
\* to that send for good: a failure or a crash after it cannot free it.
KeptOnceOut ==
    \A q \in Tries :
        try[q].pc \in {"resolving", "answering", "done"} /\ q \in Out \ (past \cup lost) =>
            key.status = "completed" /\ key.answer = q
=============================================================================
