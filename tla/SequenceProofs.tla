--------------------------- MODULE SequenceProofs ---------------------------
(***************************************************************************)
(* What holds of an enrollment for every number of steps and of queue      *)
(* consumers, every budget of attempts, and any number of handlers that    *)
(* die, messages doubled, throws, and sends canceled or retried by hand:   *)
(* each step goes out once and shows what became of it, a completed        *)
(* enrollment has nothing left to send, and an active one has something    *)
(* that will move it.                                                      *)
(***************************************************************************)
EXTENDS Sequence, FiniteSetTheorems, TLAPS

-----------------------------------------------------------------------------
(* Types, and who can stand where.                                         *)

\* Where a consumer has yet to decide whether it sends, and where an agent has
\* marked its step.
Early == {"enrollment", "drop", "guard", "repair", "hand over", "prepare"}
Late == {"check", "complete"}

\* What an agent can hold at each point p of its run.
FitsAt(a, p, s, i, e) ==
    /\ a \in Consumers => p \in {"idle", "send", "resolve", "insert", "mark"} \cup Early \cup Late
    /\ a = Outbox => p \in {"idle", "try", "settle", "mark", "delete"} \cup Late
    /\ a = User => p \in {"idle", "mark"} \cup Late
    /\ IF p = "idle" THEN s = 0 /\ i = 0 /\ e = "none" ELSE s \in Steps
    /\ p \in Early \cup {"send", "try"} => e = "none"
    /\ p \in {"resolve", "insert", "settle", "mark"} \cup Late => e \in Ends
    /\ p = "insert" => e # "suppressed"
    /\ p \in Late => e # "retrying"
    /\ p = "delete" => e = "sent"
    /\ p \in {"repair", "hand over", "send", "resolve", "insert"} => i # 0
    /\ a = Outbox /\ p # "idle" => i # 0
    /\ a \in Consumers /\ p = "mark" /\ e # "failed" => i # 0
    /\ a = User => i = 0 /\ e \in {"none", "failed"}

Fits(a) == /\ FitsAt(a, job[a].pc, job[a].step, job[a].id, job[a].end)
           /\ job[a].pc = "drop" => enr # "active"

\* Everyone is where it can be; only a cancelled enrollment has its steps cancelled
\* or dropped; a row names its step.
Shape ==
    /\ \A a \in Agents : Fits(a)
    /\ cancel = "steps" => enr # "active"
    /\ cron.at # 0 => cron.at \in cron.todo /\ step[cron.at] # "pending"
    /\ \A i \in Sends : /\ row[i].status = "none" => row[i] = NoRow
                        /\ row[i].status # "none" => row[i].step \in Steps

Types == TypeOK /\ Shape

\* A consumer that found its step in the outbox works on a row that is not its own.
Guest(a) == job[a].pc \in {"repair", "hand over"}

\* An agent the row of which nobody else takes.
Keeps(a) ==
    \/ job[a].pc \in {"send", "resolve", "try", "settle"}
    \/ job[a].pc \in {"insert", "mark"} /\ job[a].end = "retrying"
    \/ a = Outbox /\ job[a].end = "sent"

\* Each send is one agent's, guests apart, and its row is of the agent's step.
Ids ==
    /\ \A a, b \in Agents : job[a].id # 0 /\ job[a].id = job[b].id =>
         job[a].step = job[b].step /\ (a = b \/ Guest(a) \/ Guest(b))
    /\ \A a \in Agents : Keeps(a) => row[job[a].id].status = "pending"
    /\ \A a \in Agents : job[a].id # 0 /\ row[job[a].id].status # "none" =>
         row[job[a].id].step = job[a].step

\* What the assumptions say of the constants.
LEMMA Consts ==
    /\ 0 \notin Steps /\ 1 \in Steps /\ 0 \notin Sends
    /\ Outbox # User /\ Outbox \notin Consumers /\ User \notin Consumers
    /\ Consumers \subseteq Agents /\ Outbox \in Agents /\ User \in Agents
    /\ Free \in JobType /\ NoRow \in RowType
<1>1. Cardinality(Steps) \in Nat
  BY SequenceAssumption, FS_CardinalityType
<1>2. Steps = 1..Cardinality(Steps) /\ Steps # {}
  BY SequenceAssumption
<1>3. Sends \subseteq Nat \ {0}
  BY <1>1, SequenceAssumption DEF Sends
<1>4. 1 \in Steps
  BY <1>1, <1>2
<1>5. Free \in JobType /\ NoRow \in RowType
  BY SequenceAssumption DEF Free, JobType, NoRow, RowType
<1>. QED
  BY <1>1, <1>2, <1>3, <1>4, <1>5, SequenceAssumption DEF Agents

\* The domains of the state, and the members of its functions.
LEMMA Dom ==
    ASSUME TypeOK
    PROVE  /\ DOMAIN job = Agents /\ DOMAIN row = Sends /\ DOMAIN sent = Sends
           /\ DOMAIN step = Steps /\ DOMAIN msgs = Steps /\ DOMAIN delivered = Steps
           /\ job \in [Agents -> JobType]
           /\ \A a \in Agents : /\ job[a] \in JobType /\ job[a].step \in Steps \cup {0}
                                /\ job[a].id \in Sends \cup {0}
           /\ \A i \in Sends : row[i] \in RowType
BY DEF TypeOK, JobType

\* An agent that is not idle works on a step.
LEMMA Works ==
    ASSUME Types, NEW a \in Agents, ~At(a, "idle")
    PROVE  job[a].step \in Steps
BY DEF Types, Shape, Fits, FitsAt, At

\* The points of a run.
Pcs == {"idle", "enrollment", "drop", "guard", "repair", "hand over", "prepare", "send", "resolve",
        "insert", "try", "settle", "mark", "check", "complete", "delete"}

\* One agent's run moves, and nobody else's.
Becomes(a, p, s, i, e) ==
    /\ job' \in [Agents -> JobType]
    /\ job'[a].pc = p /\ job'[a].step = s /\ job'[a].id = i /\ job'[a].end = e
    /\ \A b \in Agents \ {a} : job'[b] = job[b]

\* Every way the model writes a run moves that run alone.
LEMMA JobMoves ==
    ASSUME TypeOK, NEW a \in Agents
    PROVE  /\ \A j \in JobType : job' = [job EXCEPT ![a] = j] => Becomes(a, j.pc, j.step, j.id, j.end)
           /\ \A p \in Pcs : Goes(a, p) => Becomes(a, p, job[a].step, job[a].id, job[a].end)
           /\ Rests(a) => Becomes(a, "idle", 0, 0, "none")
           /\ \A p \in Pcs, i \in Sends :
                job' = [job EXCEPT ![a].pc = p, ![a].id = i] => Becomes(a, p, job[a].step, i, job[a].end)
           /\ \A p \in Pcs, e \in Ends :
                job' = [job EXCEPT ![a].pc = p, ![a].end = e] => Becomes(a, p, job[a].step, job[a].id, e)
           /\ \A p \in Pcs : job' = [job EXCEPT ![a] = [job[a] EXCEPT !.pc = p]] =>
                Becomes(a, p, job[a].step, job[a].id, job[a].end)
           /\ job' = job => Becomes(a, job[a].pc, job[a].step, job[a].id, job[a].end)
<1>1. job \in [Agents -> JobType] /\ job[a] \in JobType
  BY DEF TypeOK
<1>2. ASSUME NEW j \in JobType, job' = [job EXCEPT ![a] = j] PROVE Becomes(a, j.pc, j.step, j.id, j.end)
  BY <1>1, <1>2 DEF Becomes
<1>3. ASSUME NEW p \in Pcs
      PROVE  LET j == [job[a] EXCEPT !.pc = p] IN
             j \in JobType /\ j.pc = p /\ j.step = job[a].step /\ j.id = job[a].id /\ j.end = job[a].end
  BY <1>1 DEF JobType, Pcs
<1>4. ASSUME NEW p \in Pcs, NEW i \in Sends
      PROVE  LET j == [job[a] EXCEPT !.pc = p, !.id = i] IN
             j \in JobType /\ j.pc = p /\ j.step = job[a].step /\ j.id = i /\ j.end = job[a].end
  BY <1>1 DEF JobType, Pcs
<1>5. ASSUME NEW p \in Pcs, NEW e \in Ends
      PROVE  LET j == [job[a] EXCEPT !.pc = p, !.end = e] IN
             j \in JobType /\ j.pc = p /\ j.step = job[a].step /\ j.id = job[a].id /\ j.end = e
  BY <1>1 DEF JobType, Pcs
<1>6. ASSUME NEW p \in Pcs, Goes(a, p) PROVE Becomes(a, p, job[a].step, job[a].id, job[a].end)
  <2>1. job' = [job EXCEPT ![a] = [job[a] EXCEPT !.pc = p]]
    BY <1>1, <1>6 DEF Goes
  <2>. QED
    BY <1>2, <1>3, <2>1
<1>7. ASSUME NEW p \in Pcs, NEW i \in Sends, job' = [job EXCEPT ![a].pc = p, ![a].id = i]
      PROVE  Becomes(a, p, job[a].step, i, job[a].end)
  <2>1. job' = [job EXCEPT ![a] = [job[a] EXCEPT !.pc = p, !.id = i]]
    BY <1>1, <1>7
  <2>. QED
    BY <1>2, <1>4, <2>1
<1>8. ASSUME NEW p \in Pcs, NEW e \in Ends, job' = [job EXCEPT ![a].pc = p, ![a].end = e]
      PROVE  Becomes(a, p, job[a].step, job[a].id, e)
  <2>1. job' = [job EXCEPT ![a] = [job[a] EXCEPT !.pc = p, !.end = e]]
    BY <1>1, <1>8
  <2>. QED
    BY <1>2, <1>5, <2>1
<1>9. Rests(a) => Becomes(a, "idle", 0, 0, "none")
  BY <1>2, Consts DEF Rests, Free
<1>10. job' = job => Becomes(a, job[a].pc, job[a].step, job[a].id, job[a].end)
  BY <1>1 DEF Becomes
<1>11. ASSUME NEW p \in Pcs, job' = [job EXCEPT ![a] = [job[a] EXCEPT !.pc = p]]
       PROVE  Becomes(a, p, job[a].step, job[a].id, job[a].end)
  BY <1>2, <1>3, <1>11
<1>. QED
  BY <1>2, <1>6, <1>7, <1>8, <1>9, <1>10, <1>11

\* A step of one agent that leaves it where it can be.
LEMMA Joins ==
    ASSUME Types, NEW a \in Agents, NEW p, NEW s, NEW i, NEW e, Becomes(a, p, s, i, e),
           FitsAt(a, p, s, i, e), p = "drop" => enr' # "active",
           enr' = enr \/ enr' # "active"
    PROVE  job' \in [Agents -> JobType] /\ \A b \in Agents : Fits(b)'
<1>1. \A b \in Agents : Fits(b)
  BY DEF Types, Shape
<1>2. ASSUME NEW b \in Agents PROVE Fits(b)'
  <2>1. CASE b = a
    BY <2>1 DEF Fits, Becomes
  <2>2. CASE b # a
    BY <1>1, <2>2 DEF Fits, Becomes
  <2>. QED
    BY <2>1, <2>2
<1>. QED
  BY <1>2 DEF Becomes

\* The state is typed, and fits, at the start.
LEMMA TypesInit == Init => Types
<1> SUFFICES ASSUME Init PROVE Types
  OBVIOUS
<1>. USE Consts, SequenceAssumption
<1>1. TypeOK
  <2>1. row \in [Sends -> RowType] /\ job \in [Agents -> JobType]
    BY DEF Init
  <2>2. cron \in [todo : SUBSET Steps, at : Steps \cup {0}]
    BY DEF Init
  <2>3. disturbed \in 0..MaxDisturbed
    BY DEF Init
  <2>. QED
    BY <2>1, <2>2, <2>3 DEF Init, TypeOK, Ends
<1>2. \A a \in Agents : Fits(a)
  BY DEF Init, Fits, FitsAt, Free, Early, Late
<1>3. \A i \in Sends : row[i] = NoRow
  BY DEF Init
<1>. QED
  BY <1>1, <1>2, <1>3 DEF Types, Shape, Init, NoRow

\* An agent goes on at p with the same step and the same send.
Same(a, p, e) == Becomes(a, p, job[a].step, job[a].id, e)

\* Where the steps of a consumer, of any agent and of the outbox leave it.
LEMMA ConsumerMoves ==
    ASSUME Types, NEW a \in Consumers
    PROVE  /\ \A s \in Steps : Take(a, s) =>
                IF step[s] = "queued" THEN Becomes(a, "enrollment", s, 0, "none")
                ELSE Becomes(a, job[a].pc, job[a].step, job[a].id, job[a].end)
           /\ ReadEnrollment(a) => Same(a, IF enr = "active" THEN "guard" ELSE "drop", "none")
           /\ Drop(a) \/ HandOver(a) \/ Throw(a) => Becomes(a, "idle", 0, 0, "none")
           /\ Guard(a) =>
                \/ \E i \in RowsOf(job[a].step) : Becomes(a, "repair", job[a].step, i, "none")
                \/ RowsOf(job[a].step) = {} /\ Same(a, "prepare", "none")
           /\ Repair(a) => Same(a, "hand over", "none")
           /\ Unsendable(a) => Same(a, "mark", "failed")
           /\ WriteAhead(a) => \E i \in Sends :
                /\ Unused(i) /\ Becomes(a, "send", job[a].step, i, "none")
                /\ row' = [row EXCEPT ![i] = [status |-> "pending", step |-> job[a].step, attempts |-> 0]]
           /\ Send(a) => \E e \in Ends : Same(a, "resolve", e) /\ Delivering(a, e)
           /\ Resolve(a) => Same(a, IF job[a].end = "suppressed" THEN "mark" ELSE "insert", job[a].end)
           /\ Insert(a) => IF sent[job[a].id] = "none" THEN Same(a, "mark", job[a].end)
                           ELSE Becomes(a, "idle", 0, 0, "none")
<1>0. a \in Agents /\ TypeOK /\ FitsAt(a, job[a].pc, job[a].step, job[a].id, job[a].end)
  BY Consts DEF Types, Shape, Fits
<1>. USE <1>0
<1>. DEFINE j == job[a]
<1>1. ASSUME NEW s \in Steps, Take(a, s)
      PROVE  IF step[s] = "queued" THEN Becomes(a, "enrollment", s, 0, "none")
             ELSE Becomes(a, j.pc, j.step, j.id, j.end)
  <2>1. CASE step[s] = "queued"
    <3>1. job' = [job EXCEPT ![a] = [Free EXCEPT !.pc = "enrollment", !.step = s]]
      BY <1>1, <2>1 DEF Take
    <3>2. LET f == [Free EXCEPT !.pc = "enrollment", !.step = s] IN
          f \in JobType /\ f.pc = "enrollment" /\ f.step = s /\ f.id = 0 /\ f.end = "none"
      BY Consts DEF Free, JobType
    <3>. QED
      BY <2>1, <3>1, <3>2, JobMoves
  <2>2. CASE step[s] # "queued"
    BY <1>1, <2>2, JobMoves DEF Take
  <2>. QED
    BY <2>1, <2>2
<1>2. ASSUME ReadEnrollment(a) PROVE Same(a, IF enr = "active" THEN "guard" ELSE "drop", "none")
  <2>1. j.end = "none"
    BY <1>2 DEF ReadEnrollment, At, FitsAt, Early
  <2>. QED
    BY <1>2, <2>1, JobMoves DEF ReadEnrollment, Same, Pcs
<1>3. ASSUME Drop(a) \/ HandOver(a) \/ Throw(a) PROVE Becomes(a, "idle", 0, 0, "none")
  BY <1>3, JobMoves DEF Drop, HandOver, Throw
<1>4. ASSUME Guard(a)
      PROVE  \/ \E i \in RowsOf(j.step) : Becomes(a, "repair", j.step, i, "none")
             \/ RowsOf(j.step) = {} /\ Same(a, "prepare", "none")
  <2>1. j.end = "none"
    BY <1>4 DEF Guard, At, FitsAt, Early
  <2>2. ASSUME NEW i \in RowsOf(j.step), job' = [job EXCEPT ![a].pc = "repair", ![a].id = i]
        PROVE  Becomes(a, "repair", j.step, i, "none")
    BY <2>1, <2>2, JobMoves DEF Pcs, RowsOf
  <2>3. ASSUME Goes(a, "prepare") PROVE Same(a, "prepare", "none")
    BY <2>1, <2>3, JobMoves DEF Pcs, Same
  <2>. QED
    BY <1>4, <2>2, <2>3 DEF Guard, Existing
<1>5. ASSUME Repair(a) PROVE Same(a, "hand over", "none")
  <2>1. j.end = "none"
    BY <1>5 DEF Repair, At, FitsAt, Early
  <2>. QED
    BY <1>5, <2>1, JobMoves DEF Repair, Same, Pcs
<1>6. ASSUME Unsendable(a) PROVE Same(a, "mark", "failed")
  BY <1>6, JobMoves DEF Unsendable, Same, Pcs, Ends
<1>7. ASSUME WriteAhead(a)
      PROVE  \E i \in Sends :
                /\ Unused(i) /\ Becomes(a, "send", j.step, i, "none")
                /\ row' = [row EXCEPT ![i] = [status |-> "pending", step |-> job[a].step, attempts |-> 0]]
  <2>1. j.end = "none"
    BY <1>7 DEF WriteAhead, At, FitsAt, Early
  <2>2. ASSUME NEW i \in Sends, job' = [job EXCEPT ![a].pc = "send", ![a].id = i]
        PROVE  Becomes(a, "send", j.step, i, "none")
    BY <2>1, <2>2, JobMoves DEF Pcs
  <2>. QED
    BY <1>7, <2>2 DEF WriteAhead
<1>8. ASSUME Send(a) PROVE \E e \in Ends : Same(a, "resolve", e) /\ Delivering(a, e)
  <2>1. ASSUME NEW e \in Ends, job' = [job EXCEPT ![a].pc = "resolve", ![a].end = e]
        PROVE  Same(a, "resolve", e)
    BY <2>1, JobMoves DEF Pcs, Same
  <2>. QED
    BY <1>8, <2>1 DEF Send
<1>9. ASSUME Resolve(a) PROVE Same(a, IF j.end = "suppressed" THEN "mark" ELSE "insert", j.end)
  BY <1>9, JobMoves DEF Resolve, Same, Pcs
<1>10. ASSUME Insert(a)
       PROVE  IF sent[j.id] = "none" THEN Same(a, "mark", j.end) ELSE Becomes(a, "idle", 0, 0, "none")
  BY <1>10, JobMoves DEF Insert, Same, Pcs
<1>. QED
  BY <1>1, <1>2, <1>3, <1>4, <1>5, <1>6, <1>7, <1>8, <1>9, <1>10

\* What an agent is left to do after a step's end was marked, and after it looked
\* at the enrollment.
LEMMA AgentMoves ==
    ASSUME Types, NEW a \in Agents
    PROVE  /\ Mark(a) => IF job[a].end = "retrying" THEN Becomes(a, "idle", 0, 0, "none")
                         ELSE Same(a, "check", job[a].end)
           /\ Check(a) \/ Complete(a) =>
                \/ Check(a) /\ Outstanding = {} /\ Same(a, "complete", job[a].end)
                \/ a = Outbox /\ job[a].end = "sent" /\ Same(a, "delete", "sent")
                \/ ~(a = Outbox /\ job[a].end = "sent") /\ Becomes(a, "idle", 0, 0, "none")
           /\ Check(a) /\ Outstanding = {} => Same(a, "complete", job[a].end)
           /\ Die(a) => Becomes(a, "idle", 0, 0, "none")
<1>. USE DEF Types
<1>. DEFINE j == job[a]
<1>1. ASSUME Mark(a)
      PROVE  IF j.end = "retrying" THEN Becomes(a, "idle", 0, 0, "none") ELSE Same(a, "check", j.end)
  <2>1. CASE j.end = "retrying"
    BY <1>1, <2>1, JobMoves DEF Mark, Marking, Rests
  <2>2. CASE j.end # "retrying"
    <3>1. job' = [job EXCEPT ![a] = [job[a] EXCEPT !.pc = "check"]]
      BY <1>1, <2>2 DEF Mark, Marking
    <3>. QED
      BY <2>2, <3>1, JobMoves DEF Same, Pcs
  <2>. QED
    BY <2>1, <2>2
<1>2. ASSUME job' = [job EXCEPT ![a] = Left(a)]
      PROVE  \/ a = Outbox /\ j.end = "sent" /\ Same(a, "delete", "sent")
             \/ ~(a = Outbox /\ j.end = "sent") /\ Becomes(a, "idle", 0, 0, "none")
  <2>1. CASE a = Outbox /\ j.end = "sent"
    <3>1. job' = [job EXCEPT ![a] = [job[a] EXCEPT !.pc = "delete"]]
      BY <1>2, <2>1 DEF Left
    <3>. QED
      BY <2>1, <3>1, JobMoves DEF Same, Pcs
  <2>2. CASE ~(a = Outbox /\ j.end = "sent")
    BY <1>2, <2>2, JobMoves DEF Left, Rests
  <2>. QED
    BY <2>1, <2>2
<1>3. ASSUME Check(a), Outstanding = {} PROVE Same(a, "complete", j.end)
  <2>1. job' = [job EXCEPT ![a] = [job[a] EXCEPT !.pc = "complete"]]
    BY <1>3 DEF Check
  <2>. QED
    BY <2>1, JobMoves DEF Same, Pcs
<1>4. ASSUME Check(a), Outstanding # {} PROVE job' = [job EXCEPT ![a] = Left(a)]
  BY <1>4 DEF Check
<1>5. ASSUME Die(a) PROVE Becomes(a, "idle", 0, 0, "none")
  BY <1>5, JobMoves DEF Die
<1>. QED
  BY <1>1, <1>2, <1>3, <1>4, <1>5 DEF Complete

\* Where the outbox's steps and a cancellation of a send leave their agent.
LEMMA OutboxMoves ==
    ASSUME Types
    PROVE  /\ \A i \in Sends : Claim(i) => Becomes(Outbox, "try", row[i].step, i, "none")
           /\ Try => \E e \in Ends : Same(Outbox, "settle", e) /\ Delivering(Outbox, e)
           /\ Settle => Same(Outbox, "mark", job[Outbox].end)
           /\ Delete => Becomes(Outbox, "idle", 0, 0, "none")
           /\ \A i \in Sends : CancelSend(i) => Becomes(User, "mark", row[i].step, 0, "failed")
<1>. USE Consts DEF Types
<1>1. ASSUME NEW i \in Sends, Claim(i) PROVE Becomes(Outbox, "try", row[i].step, i, "none")
  <2>1. [pc |-> "try", step |-> row[i].step, id |-> i, end |-> "none"] \in JobType
    BY DEF JobType, TypeOK, RowType
  <2>. QED
    BY <1>1, <2>1, JobMoves DEF Claim
<1>2. ASSUME NEW i \in Sends, CancelSend(i) PROVE Becomes(User, "mark", row[i].step, 0, "failed")
  <2>1. [pc |-> "mark", step |-> row[i].step, id |-> 0, end |-> "failed"] \in JobType
    BY DEF JobType, TypeOK, RowType, Ends
  <2>. QED
    BY <1>2, <2>1, JobMoves DEF CancelSend
<1>3. ASSUME NEW e \in Ends, job' = [job EXCEPT ![Outbox].pc = "settle", ![Outbox].end = e]
      PROVE  Same(Outbox, "settle", e)
  BY <1>3, JobMoves DEF Pcs, Same
<1>4. Settle => Same(Outbox, "mark", job[Outbox].end)
  BY JobMoves DEF Settle, Same, Pcs
<1>5. Delete => Becomes(Outbox, "idle", 0, 0, "none")
  BY JobMoves DEF Delete
<1>. QED
  BY <1>1, <1>2, <1>3, <1>4, <1>5 DEF Try

-----------------------------------------------------------------------------
(* The types.                                                              *)

\* A fault is counted within its bound.
LEMMA DisturbedBound == TypeOK /\ Disturbs => disturbed' \in 0..MaxDisturbed
BY SequenceAssumption DEF TypeOK, Disturbs

\* Types: a consumer takes a message and decides.
LEMMA TypesRead ==
    ASSUME Types, NEW a \in Consumers, NEW s \in Steps,
           Take(a, s) \/ ReadEnrollment(a) \/ Drop(a) \/ Guard(a) \/ Repair(a) \/ HandOver(a)
    PROVE  Types'
<1>. USE Consts, Dom DEF Types
<1>0. a \in Agents /\ Fits(a) /\ a # Outbox /\ a # User
  BY DEF Shape
<1>. USE <1>0
<1>1. CASE Take(a, s)
  <2>1. job' \in [Agents -> JobType] /\ \A b \in Agents : Fits(b)'
    <3>1. CASE step[s] = "queued"
      <4>1. FitsAt(a, "enrollment", s, 0, "none")
        BY DEF FitsAt, Early, Late
      <4>. QED
        BY <1>1, <3>1, <4>1, ConsumerMoves, Joins DEF Take
    <3>2. CASE step[s] # "queued"
      BY <1>1, <3>2, ConsumerMoves, Joins DEF Take, Fits
    <3>. QED
      BY <3>1, <3>2
  <2>2. msgs' \in [Steps -> Nat]
    BY <1>1 DEF Take, TypeOK
  <2>. QED
    BY <1>1, <2>1, <2>2 DEF Take, UnchangedHistory, TypeOK, Shape
<1>2. CASE ReadEnrollment(a)
  <2>1. \A p \in {"guard", "drop"} : FitsAt(a, p, job[a].step, job[a].id, "none")
    BY <1>2 DEF ReadEnrollment, At, Fits, FitsAt, Early, Late
  <2>2. job' \in [Agents -> JobType] /\ \A b \in Agents : Fits(b)'
    BY <1>2, <2>1, ConsumerMoves, Joins DEF ReadEnrollment, Same
  <2>. QED
    BY <1>2, <2>2 DEF ReadEnrollment, UnchangedHistory, TypeOK, Shape
<1>3. CASE Drop(a)
  <2>1. FitsAt(a, "idle", 0, 0, "none")
    BY DEF FitsAt, Early, Late
  <2>2. job' \in [Agents -> JobType] /\ \A b \in Agents : Fits(b)'
    BY <1>3, <2>1, ConsumerMoves, Joins DEF Drop
  <2>3. job[a].step \in Steps
    BY <1>3, Works DEF Drop, At
  <2>4. step' \in [Steps -> Ends \cup {"pending", "queued", "cancelled"}]
    BY <1>3 DEF Drop, TypeOK
  <2>5. cron.at # 0 => step'[cron.at] # "pending"
    BY <1>3, <2>3 DEF Drop, Shape, TypeOK
  <2>. QED
    BY <1>3, <2>2, <2>4, <2>5 DEF Drop, UnchangedHistory, TypeOK, Shape
<1>4. CASE Guard(a)
  <2>1. /\ FitsAt(a, "prepare", job[a].step, job[a].id, "none")
        /\ \A i \in Sends : FitsAt(a, "repair", job[a].step, i, "none")
    BY <1>4 DEF Guard, At, Fits, FitsAt, Early, Late
  <2>2. RowsOf(job[a].step) \subseteq Sends
    BY DEF RowsOf
  <2>3. job' \in [Agents -> JobType] /\ \A b \in Agents : Fits(b)'
    BY <1>4, <2>1, <2>2, ConsumerMoves, Joins DEF Guard, Same
  <2>. QED
    BY <1>4, <2>3 DEF Guard, UnchangedHistory, TypeOK, Shape
<1>5. CASE Repair(a)
  <2>1. FitsAt(a, "hand over", job[a].step, job[a].id, "none")
    BY <1>5 DEF Repair, At, Fits, FitsAt, Early, Late
  <2>2. job' \in [Agents -> JobType] /\ \A b \in Agents : Fits(b)'
    BY <1>5, <2>1, ConsumerMoves, Joins DEF Repair, Same
  <2>3. sent' \in [Sends -> {"none", "sent", "retrying", "failed"}]
    BY <1>5 DEF Repair, TypeOK
  <2>. QED
    BY <1>5, <2>2, <2>3 DEF Repair, UnchangedHistory, TypeOK, Shape
<1>6. CASE HandOver(a)
  <2>1. FitsAt(a, "idle", 0, 0, "none")
    BY DEF FitsAt, Early, Late
  <2>2. job' \in [Agents -> JobType] /\ \A b \in Agents : Fits(b)'
    BY <1>6, <2>1, ConsumerMoves, Joins DEF HandOver
  <2>3. job[a].step \in Steps
    BY <1>6, Works DEF HandOver, At
  <2>4. step' \in [Steps -> Ends \cup {"pending", "queued", "cancelled"}]
    BY <1>6 DEF HandOver, TypeOK, Ends
  <2>5. cron.at # 0 => step'[cron.at] # "pending"
    BY <1>6, <2>3 DEF HandOver, Shape, TypeOK
  <2>6. cut' \in BOOLEAN /\ revived' \subseteq Steps
    BY <1>6, <2>3 DEF HandOver, TypeOK
  <2>. QED
    BY <1>6, <2>2, <2>4, <2>5, <2>6 DEF HandOver, TypeOK, Shape
<1>. QED
  BY <1>1, <1>2, <1>3, <1>4, <1>5, <1>6

\* Types: a consumer sends and records.
LEMMA TypesSend ==
    ASSUME Types, Ids, NEW a \in Consumers,
           Unsendable(a) \/ WriteAhead(a) \/ Send(a) \/ Throw(a) \/ Resolve(a) \/ Insert(a)
    PROVE  Types'
<1>. USE Consts, Dom DEF Types
<1>0. a \in Agents /\ Fits(a) /\ a # Outbox /\ a # User /\ FitsAt(a, "idle", 0, 0, "none")
  BY DEF Shape, FitsAt, Early, Late
<1>a. job[a].step \in Steps
  BY Works, <1>0 DEF Unsendable, WriteAhead, Send, Throw, Resolve, Insert, At
<1>. USE <1>0, <1>a
<1>1. CASE Unsendable(a)
  <2>1. FitsAt(a, "mark", job[a].step, job[a].id, "failed")
    BY <1>1 DEF Unsendable, At, Fits, FitsAt, Early, Late, Ends
  <2>2. job' \in [Agents -> JobType] /\ \A b \in Agents : Fits(b)'
    BY <1>1, <2>1, ConsumerMoves, Joins DEF Unsendable, Same
  <2>. QED
    BY <1>1, <2>2 DEF Unsendable, UnchangedHistory, TypeOK, Shape
<1>2. CASE WriteAhead(a)
  <2>1. PICK i \in Sends :
          /\ Becomes(a, "send", job[a].step, i, "none")
          /\ row' = [row EXCEPT ![i] = [status |-> "pending", step |-> job[a].step, attempts |-> 0]]
    BY <1>2, ConsumerMoves
  <2>2. FitsAt(a, "send", job[a].step, i, "none")
    BY DEF FitsAt, Early, Late
  <2>3. job' \in [Agents -> JobType] /\ \A b \in Agents : Fits(b)'
    BY <1>2, <2>1, <2>2, Joins DEF WriteAhead
  <2>4. [status |-> "pending", step |-> job[a].step, attempts |-> 0] \in RowType
    BY SequenceAssumption DEF RowType
  <2>5. row' \in [Sends -> RowType]
    BY <2>1, <2>4 DEF TypeOK
  <2>6. \A k \in Sends : (row'[k].status = "none" => row'[k] = NoRow)
                         /\ (row'[k].status # "none" => row'[k].step \in Steps)
    BY <2>1 DEF Shape, TypeOK
  <2>. QED
    BY <1>2, <2>3, <2>5, <2>6 DEF WriteAhead, UnchangedHistory, TypeOK, Shape
<1>3. CASE Send(a)
  <2>1. PICK e \in Ends : Same(a, "resolve", e) /\ Delivering(a, e)
    BY <1>3, ConsumerMoves
  <2>2. FitsAt(a, "resolve", job[a].step, job[a].id, e)
    BY <1>3 DEF Send, At, Fits, FitsAt, Early, Late
  <2>3. job' \in [Agents -> JobType] /\ \A b \in Agents : Fits(b)'
    BY <1>3, <2>1, <2>2, Joins DEF Send, Same
  <2>4. delivered' \in [Steps -> Nat]
    BY <2>1 DEF Delivering, TypeOK
  <2>. QED
    BY <1>3, <2>3, <2>4 DEF Send, TypeOK, Shape
<1>4. CASE Throw(a)
  <2>1. job' \in [Agents -> JobType] /\ \A b \in Agents : Fits(b)'
    BY <1>4, ConsumerMoves, Joins DEF Throw
  <2>2. msgs' \in [Steps -> Nat]
    BY <1>4 DEF Throw, TypeOK, Redelivered
  <2>5. row' \in [Sends -> RowType]
    BY <1>4 DEF Throw, TypeOK
  <2>4. disturbed' \in 0..MaxDisturbed
    BY <1>4, DisturbedBound DEF Throw
  <2>3. \A k \in Sends : (row'[k].status = "none" => row'[k] = NoRow)
                         /\ (row'[k].status # "none" => row'[k].step \in Steps)
    BY <1>4 DEF Throw, Shape, TypeOK, NoRow
  <2>. QED
    BY <1>4, <2>1, <2>2, <2>3, <2>4, <2>5 DEF Throw, TypeOK, Shape
<1>5. CASE Resolve(a)
  <2>0. job[a].end \in Ends /\ job[a].id # 0
    BY <1>5 DEF Resolve, At, Fits, FitsAt
  <2>1. PICK p \in {"mark", "insert"} : p = IF job[a].end = "suppressed" THEN "mark" ELSE "insert"
    OBVIOUS
  <2>a. FitsAt(a, p, job[a].step, job[a].id, job[a].end)
    BY <2>0, <2>1 DEF FitsAt, Early, Late
  <2>b. Same(a, p, job[a].end)
    BY <1>5, <2>1, ConsumerMoves
  <2>2. job' \in [Agents -> JobType] /\ \A b \in Agents : Fits(b)'
    BY <1>5, <2>1, <2>a, <2>b, Joins DEF Resolve, Same
  <2>3. PICK n : n = Resolved(a)
    OBVIOUS
  <2>4. n \in RowType /\ (n.status = "none" => n = NoRow) /\ (n.status # "none" => n.step \in Steps)
    <3>1. row[job[a].id] \in RowType /\ row[job[a].id].step \in Steps /\ row[job[a].id].status = "pending"
      BY <2>0, <1>5 DEF Ids, Keeps, Resolve, At
    <3>2. CASE job[a].end \in {"sent", "suppressed"}
      BY <2>3, <3>2 DEF Resolved, NoRow
    <3>3. CASE job[a].end = "retrying"
      <4>1. n = [row[job[a].id] EXCEPT !.attempts = 1]
        BY <2>3, <3>3 DEF Resolved
      <4>. QED
        BY <3>1, <4>1, SequenceAssumption DEF RowType
    <3>4. CASE job[a].end = "failed"
      <4>1. n = [row[job[a].id] EXCEPT !.status = "failed", !.attempts = 1]
        BY <2>3, <3>4 DEF Resolved
      <4>a. 1 \in 0..MaxAttempts
        BY SequenceAssumption
      <4>b. LET r == row[job[a].id]
                q == [r EXCEPT !.status = "failed"]
            IN  q \in RowType /\ [q EXCEPT !.attempts = 1] \in RowType
        BY <3>1, <4>a DEF RowType
      <4>2. n \in RowType
        BY <4>1, <4>b
      <4>3. n.status = "failed" /\ n.step = row[job[a].id].step
        BY <3>1, <4>1 DEF RowType
      <4>. QED
        BY <3>1, <4>2, <4>3
    <3>. QED
      BY <2>0, <3>2, <3>3, <3>4 DEF Ends
  <2>5. row' = [row EXCEPT ![job[a].id] = n]
    BY <1>5, <2>3 DEF Resolve
  <2>6. row' \in [Sends -> RowType]
    BY <2>4, <2>5 DEF TypeOK
  <2>7. \A k \in Sends : (row'[k].status = "none" => row'[k] = NoRow)
                         /\ (row'[k].status # "none" => row'[k].step \in Steps)
    BY <2>4, <2>5 DEF Shape, TypeOK
  <2>. QED
    BY <1>5, <2>2, <2>6, <2>7 DEF Resolve, UnchangedHistory, TypeOK, Shape
<1>6. CASE Insert(a)
  <2>0. job[a].end \in {"sent", "retrying", "failed"} /\ job[a].id # 0
    BY <1>6 DEF Insert, At, Fits, FitsAt, Ends
  <2>1. FitsAt(a, "mark", job[a].step, job[a].id, job[a].end)
    BY <2>0 DEF FitsAt, Early, Late, Ends
  <2>2. job' \in [Agents -> JobType] /\ \A b \in Agents : Fits(b)'
    <3>1. CASE Same(a, "mark", job[a].end)
      BY <1>6, <2>1, <3>1, Joins DEF Insert, Same
    <3>2. CASE Becomes(a, "idle", 0, 0, "none")
      BY <1>6, <3>2, Joins DEF Insert
    <3>. QED
      BY <1>6, <3>1, <3>2, ConsumerMoves
  <2>3. sent' \in [Sends -> {"none", "sent", "retrying", "failed"}] /\ msgs' \in [Steps -> Nat]
    BY <1>6, <2>0 DEF Insert, TypeOK, Redelivered
  <2>. QED
    BY <1>6, <2>2, <2>3 DEF Insert, UnchangedHistory, TypeOK, Shape
<1>. QED
  BY <1>1, <1>2, <1>3, <1>4, <1>5, <1>6

\* The count of deliveries is a number.
LEMMA DeliveringType ==
    ASSUME TypeOK, NEW a \in Agents, NEW e, Delivering(a, e)
    PROVE  delivered' \in [Steps -> Nat]
<1>1. delivered \in [Steps -> Nat]
  BY DEF TypeOK
<1>2. \A s \in Steps : delivered[s] \in Nat
  BY <1>1
<1>3. ASSUME NEW s, delivered' = [delivered EXCEPT ![s] = delivered[s] + 1]
      PROVE  delivered' \in [Steps -> Nat]
  <2>1. CASE s \in Steps
    <3>1. PICK n : n = delivered[s] + 1
      OBVIOUS
    <3>2. n \in Nat
      BY <1>2, <2>1, <3>1
    <3>. QED
      BY <1>1, <1>3, <2>1, <3>1, <3>2
  <2>2. CASE s \notin Steps
    BY <1>1, <1>3, <2>2
  <2>. QED
    BY <2>1, <2>2
<1>4. delivered' = delivered \/ delivered' = [delivered EXCEPT ![job[a].step] = delivered[job[a].step] + 1]
  BY DEF Delivering
<1>. QED
  BY <1>1, <1>3, <1>4

\* Types: the end of a step, the look at the enrollment, and a handler's death.
LEMMA TypesFinish ==
    ASSUME Types, NEW a \in Agents, Mark(a) \/ Check(a) \/ Complete(a) \/ Die(a)
    PROVE  Types'
<1>. USE Consts, Dom DEF Types
<1>0. Fits(a) /\ job[a].step \in Steps /\ FitsAt(a, "idle", 0, 0, "none")
  BY Works DEF Shape, Mark, Check, Complete, Die, At, FitsAt, Early, Late
<1>. USE <1>0
<1>1. CASE Mark(a)
  <2>0. job[a].end \in Ends /\ (a = Outbox => job[a].id # 0)
    BY <1>1 DEF Mark, At, Fits, FitsAt
  <2>1. job' \in [Agents -> JobType] /\ \A b \in Agents : Fits(b)'
    <3>1. CASE job[a].end = "retrying"
      BY <1>1, <3>1, AgentMoves, Joins DEF Mark
    <3>2. CASE job[a].end # "retrying"
      <4>1. FitsAt(a, "check", job[a].step, job[a].id, job[a].end)
        BY <1>1, <2>0, <3>2 DEF Mark, At, Fits, FitsAt, Early, Late
      <4>2. Same(a, "check", job[a].end)
        BY <1>1, <3>2, AgentMoves
      <4>3. enr' = enr
        BY <1>1 DEF Mark
      <4>. QED
        BY <4>1, <4>2, <4>3, Joins DEF Same
    <3>. QED
      BY <3>1, <3>2
  <2>2. step' \in [Steps -> Ends \cup {"pending", "queued", "cancelled"}]
    BY <1>1, <2>0 DEF Mark, Marked, TypeOK
  <2>3. cron.at # 0 => step'[cron.at] # "pending"
    BY <1>1, <2>0 DEF Mark, Marked, Shape, TypeOK, Ends
  <2>4. cut' \in BOOLEAN /\ revived' \subseteq Steps /\ doubt' \subseteq Steps
    BY <1>1 DEF Mark, TypeOK
  <2>. QED
    BY <1>1, <2>1, <2>2, <2>3, <2>4 DEF Mark, TypeOK, Shape
<1>2. CASE Check(a) \/ Complete(a)
  <2>0. job[a].end \in Ends \ {"retrying"} /\ (a = Outbox => job[a].id # 0)
    BY <1>2 DEF Check, Complete, At, Fits, FitsAt, Late
  <2>1. /\ FitsAt(a, "complete", job[a].step, job[a].id, job[a].end)
        /\ a = Outbox => FitsAt(a, "delete", job[a].step, job[a].id, "sent")
    BY <1>2, <2>0 DEF Check, Complete, At, Fits, FitsAt, Early, Late
  <2>2. enr' = enr \/ enr' = "completed"
    BY <1>2 DEF Check, Complete
  <2>3. job' \in [Agents -> JobType] /\ \A b \in Agents : Fits(b)'
    <3>1. CASE Same(a, "complete", job[a].end)
      BY <2>1, <2>2, <3>1, Joins DEF Same
    <3>2. CASE a = Outbox /\ Same(a, "delete", "sent")
      BY <2>1, <2>2, <3>2, Joins DEF Same
    <3>3. CASE Becomes(a, "idle", 0, 0, "none")
      BY <2>2, <3>3, Joins
    <3>. QED
      BY <1>2, <3>1, <3>2, <3>3, AgentMoves
  <2>. QED
    BY <1>2, <2>2, <2>3 DEF Check, Complete, UnchangedHistory, TypeOK, Shape
<1>3. CASE Die(a)
  <2>1. job' \in [Agents -> JobType] /\ \A b \in Agents : Fits(b)'
    BY <1>3, AgentMoves, Joins DEF Die
  <2>2. msgs' \in [Steps -> Nat] /\ doubt' \subseteq Steps /\ cut' \in BOOLEAN
    BY <1>3 DEF Die, Redelivered, TypeOK
  <2>3. disturbed' \in 0..MaxDisturbed
    BY <1>3, DisturbedBound DEF Die
  <2>. QED
    BY <1>3, <2>1, <2>2, <2>3 DEF Die, TypeOK, Shape
<1>. QED
  BY <1>1, <1>2, <1>3

\* The rows are typed, and name their step.
RowsOK ==
    /\ row \in [Sends -> RowType]
    /\ \A i \in Sends : /\ row[i].status = "none" => row[i] = NoRow
                        /\ row[i].status # "none" => row[i].step \in Steps

\* The writes that delete a row or fail it.
LEMMA RowWrites ==
    ASSUME TypeOK, RowsOK, NEW i \in Sends \cup {0},
           \/ row' = row \/ row' = [row EXCEPT ![i] = NoRow]
           \/ row' = [row EXCEPT ![i].status = "failed"] /\ i # 0 /\ row[i].status = "pending"
    PROVE  RowsOK'
<1>. USE Consts
<1>1. CASE row' = row
  BY <1>1 DEF RowsOK
<1>2. CASE row' = [row EXCEPT ![i] = NoRow]
  BY <1>2 DEF RowsOK, NoRow
<1>3. CASE row' = [row EXCEPT ![i].status = "failed"] /\ i # 0 /\ row[i].status = "pending"
  <2>1. row' \in [Sends -> RowType]
    BY <1>3 DEF RowsOK, RowType
  <2>2. row'[i].status = "failed" /\ row'[i].step = row[i].step /\ \A k \in Sends \ {i} : row'[k] = row[k]
    BY <1>3 DEF RowsOK, RowType
  <2>. QED
    BY <1>3, <2>1, <2>2 DEF RowsOK
<1>. QED
  BY <1>1, <1>2, <1>3

\* A row taken up by hand is a row, of the same step.
LEMMA Revivable ==
    ASSUME NEW r \in RowType
    PROVE  LET q == [r EXCEPT !.status = "pending", !.attempts = 0] IN
           q \in RowType /\ q.status = "pending" /\ q.step = r.step
<1>1. 0 \in 0..MaxAttempts
  BY SequenceAssumption
<1>2. [r EXCEPT !.status = "pending"] \in RowType
  BY DEF RowType
<1>. QED
  BY <1>1, <1>2 DEF RowType

\* The steps up to one of them are steps.
LEMMA Firsts == ASSUME NEW n \in Steps PROVE 1..n \subseteq Steps
<1>1. Cardinality(Steps) \in Nat
  BY SequenceAssumption, FS_CardinalityType
<1>2. PICK N \in Nat : Steps = 1..N
  BY <1>1, SequenceAssumption
<1>. QED
  BY <1>2

\* Types: the outbox's attempt, and sends canceled or retried by hand.
LEMMA TypesOutbox ==
    ASSUME Types, Ids, NEW i \in Sends,
           Claim(i) \/ Try \/ Settle \/ Delete \/ CancelSend(i) \/ Retry(i)
    PROVE  Types'
<1>. USE Consts, Dom DEF Types
<1>0. Fits(Outbox) /\ Fits(User) /\ FitsAt(Outbox, "idle", 0, 0, "none")
  BY DEF Shape, FitsAt, Early, Late
<1>a. row[i] \in RowType /\ i # 0
  BY DEF TypeOK
<1>b. RowsOK
  BY DEF TypeOK, Shape, RowsOK
<1>. USE <1>0, <1>a
<1>1. CASE Claim(i)
  <2>1. row[i].step \in Steps
    BY <1>1 DEF Claim, Due, Shape
  <2>2. FitsAt(Outbox, "try", row[i].step, i, "none")
    BY <2>1 DEF FitsAt, Early, Late
  <2>3. job' \in [Agents -> JobType] /\ \A b \in Agents : Fits(b)'
    BY <1>1, <2>2, OutboxMoves, Joins DEF Claim
  <2>4. PICK n : n = IF row[i].attempts < MaxAttempts THEN row[i].attempts + 1 ELSE row[i].attempts
    OBVIOUS
  <2>5. n \in 0..MaxAttempts
    BY <2>4, SequenceAssumption DEF RowType
  <2>6. row' = [row EXCEPT ![i].attempts = n]
    BY <1>1, <2>4 DEF Claim
  <2>7. row' \in [Sends -> RowType]
    BY <2>5, <2>6 DEF TypeOK, RowType
  <2>8. \A k \in Sends : row'[k].status = row[k].status /\ row'[k].step = row[k].step
    BY <2>6 DEF TypeOK, RowType
  <2>9. row[i].status # "none" /\ \A k \in Sends \ {i} : row'[k] = row[k]
    BY <1>1, <2>6 DEF TypeOK, Claim, Due
  <2>. QED
    BY <1>1, <2>3, <2>7, <2>8, <2>9 DEF Claim, UnchangedHistory, TypeOK, Shape
<1>2. CASE Try
  <2>1. PICK e \in Ends : Same(Outbox, "settle", e) /\ Delivering(Outbox, e)
    BY <1>2, OutboxMoves
  <2>2. FitsAt(Outbox, "settle", job[Outbox].step, job[Outbox].id, e)
    BY <1>2 DEF Try, At, Fits, FitsAt, Early, Late
  <2>3. job' \in [Agents -> JobType] /\ \A b \in Agents : Fits(b)'
    BY <1>2, <2>1, <2>2, Joins DEF Try, Same
  <2>4. delivered' \in [Steps -> Nat]
    BY <2>1, DeliveringType
  <2>. QED
    BY <1>2, <2>3, <2>4 DEF Try, TypeOK, Shape
<1>3. CASE Settle
  <2>0. job[Outbox].end \in Ends /\ job[Outbox].id \in Sends
    BY <1>3 DEF Settle, At, Fits, FitsAt
  <2>1. FitsAt(Outbox, "mark", job[Outbox].step, job[Outbox].id, job[Outbox].end)
    BY <1>3, <2>0 DEF Settle, At, Fits, FitsAt, Early, Late
  <2>2. job' \in [Agents -> JobType] /\ \A b \in Agents : Fits(b)'
    BY <1>3, <2>1, OutboxMoves, Joins DEF Settle, Same
  <2>3. sent' \in [Sends -> {"none", "sent", "retrying", "failed"}]
    BY <1>3, <2>0 DEF Settle, Shown, SentAs, TypeOK, Ends
  <2>4. row[job[Outbox].id].status = "pending" /\ row[job[Outbox].id].step \in Steps
    BY <1>3, <2>0 DEF Ids, Keeps, Settle, At, Shape
  <2>5. \/ row' = row \/ row' = [row EXCEPT ![job[Outbox].id] = NoRow]
        \/ row' = [row EXCEPT ![job[Outbox].id].status = "failed"]
    BY <1>3, <2>0 DEF Settle, Ends
  <2>6. RowsOK'
    BY <1>b, <2>0, <2>4, <2>5, RowWrites
  <2>. QED
    BY <1>3, <2>2, <2>3, <2>6 DEF Settle, UnchangedHistory, TypeOK, Shape, RowsOK
<1>4. CASE Delete
  <2>1. job' \in [Agents -> JobType] /\ \A b \in Agents : Fits(b)'
    BY <1>4, OutboxMoves, Joins DEF Delete
  <2>2. RowsOK'
    BY <1>b, <1>4, RowWrites DEF Delete
  <2>. QED
    BY <1>4, <2>1, <2>2 DEF Delete, UnchangedHistory, TypeOK, Shape, RowsOK
<1>5. CASE CancelSend(i)
  <2>1. row[i].step \in Steps
    BY <1>5 DEF CancelSend, Due, Shape
  <2>2. FitsAt(User, "mark", row[i].step, 0, "failed")
    BY <2>1 DEF FitsAt, Early, Late, Ends
  <2>3. job' \in [Agents -> JobType] /\ \A b \in Agents : Fits(b)'
    BY <1>5, <2>2, OutboxMoves, Joins DEF CancelSend
  <2>4. RowsOK'
    BY <1>b, <1>5, RowWrites DEF CancelSend
  <2>5. disturbed' \in 0..MaxDisturbed
    BY <1>5, DisturbedBound DEF CancelSend
  <2>6. sent' \in [Sends -> {"none", "sent", "retrying", "failed"}]
    BY <1>5 DEF CancelSend, Shown, TypeOK
  <2>. QED
    BY <1>5, <2>3, <2>4, <2>5, <2>6 DEF CancelSend, TypeOK, Shape, RowsOK
<1>6. CASE Retry(i)
  <2>1. row[i].step \in Steps
    BY <1>6 DEF Retry, Shape
  <2>2. row' = [row EXCEPT ![i] = [row[i] EXCEPT !.status = "pending", !.attempts = 0]]
    BY <1>6 DEF Retry
  <2>3. /\ [row[i] EXCEPT !.status = "pending", !.attempts = 0] \in RowType
        /\ [row[i] EXCEPT !.status = "pending", !.attempts = 0].status = "pending"
        /\ [row[i] EXCEPT !.status = "pending", !.attempts = 0].step = row[i].step
    BY SequenceAssumption, Revivable
  <2>4. row' \in [Sends -> RowType]
    BY <2>2, <2>3 DEF TypeOK
  <2>5. \A k \in Sends : (row'[k].status = "none" => row'[k] = NoRow)
                         /\ (row'[k].status # "none" => row'[k].step \in Steps)
    BY <2>1, <2>2, <2>3 DEF Shape, TypeOK
  <2>6. disturbed' \in 0..MaxDisturbed
    BY <1>6, DisturbedBound DEF Retry
  <2>7. revived' \subseteq Steps
    BY <1>6, <2>1 DEF Retry, TypeOK
  <2>. QED
    BY <1>6, <2>4, <2>5, <2>6, <2>7 DEF Retry, TypeOK, Shape, Fits
<1>. QED
  BY <1>1, <1>2, <1>3, <1>4, <1>5, <1>6

\* Types: the cron, the cancellation, and the queue.
LEMMA TypesWorld ==
    ASSUME Types, NEW s \in Steps,
           Dispatch \/ MarkQueued \/ Publish \/ StartCancel \/ Cancel \/ Duplicate(s) \/ CronDies
    PROVE  Types'
<1>. USE Consts, Dom DEF Types
<1>1. CASE Dispatch
  <2>1. cron' \in [todo : SUBSET Steps, at : Steps \cup {0}] /\ cron'.at = cron.at /\ cron.todo = {}
    <3>1. PICK n \in Steps : cron' = [cron EXCEPT !.todo = {q \in 1..n : step[q] = "pending"}]
      BY <1>1 DEF Dispatch
    <3>2. 1..n \subseteq Steps
      BY Firsts
    <3>. QED
      BY <1>1, <3>1, <3>2 DEF Dispatch, TypeOK
  <2>. QED
    BY <1>1, <2>1 DEF Dispatch, UnchangedHistory, TypeOK, Shape, Fits
<1>2. CASE MarkQueued
  <2>1. PICK q \in cron.todo : /\ step' = [step EXCEPT ![q] = "queued"] /\ cron' = [cron EXCEPT !.at = q]
                               /\ revived' = IF step[q] = "pending" THEN revived ELSE revived \cup {q}
    BY <1>2 DEF MarkQueued
  <2>2. cron.todo \subseteq Steps
    BY DEF TypeOK
  <2>3. cron' \in [todo : SUBSET Steps, at : Steps \cup {0}] /\ cron'.at = q /\ cron'.todo = cron.todo
    BY <2>1, <2>2 DEF TypeOK
  <2>4. step' \in [Steps -> Ends \cup {"pending", "queued", "cancelled"}] /\ step'[q] = "queued"
    BY <2>1, <2>2 DEF TypeOK
  <2>5. revived' \subseteq Steps
    BY <2>1, <2>2 DEF TypeOK
  <2>. QED
    BY <1>2, <2>1, <2>3, <2>4, <2>5 DEF MarkQueued, TypeOK, Shape, Fits
<1>3. CASE Publish
  <2>1. cron' \in [todo : SUBSET Steps, at : Steps \cup {0}] /\ cron'.at = 0
    BY <1>3 DEF Publish, TypeOK
  <2>2. msgs' \in [Steps -> Nat]
    BY <1>3 DEF Publish, TypeOK
  <2>. QED
    BY <1>3, <2>1, <2>2 DEF Publish, UnchangedHistory, TypeOK, Shape, Fits
<1>4. CASE StartCancel
  BY <1>4 DEF StartCancel, UnchangedHistory, TypeOK, Shape, Fits
<1>5. CASE CancelEnrollment
  BY <1>5 DEF CancelEnrollment, UnchangedHistory, TypeOK, Shape, Fits
<1>6. CASE CancelSteps
  <2>1. step' \in [Steps -> Ends \cup {"pending", "queued", "cancelled"}]
    BY <1>6 DEF CancelSteps, TypeOK
  <2>2. cron.at # 0 => step'[cron.at] # "pending"
    BY <1>6 DEF CancelSteps, TypeOK
  <2>. QED
    BY <1>6, <2>1, <2>2 DEF CancelSteps, UnchangedHistory, TypeOK, Shape, Fits
<1>7. CASE Duplicate(s)
  <2>1. msgs' \in [Steps -> Nat] /\ doubt' \subseteq Steps
    BY <1>7 DEF Duplicate, TypeOK
  <2>2. disturbed' \in 0..MaxDisturbed
    BY <1>7, DisturbedBound DEF Duplicate
  <2>. QED
    BY <1>7, <2>1, <2>2 DEF Duplicate, TypeOK, Shape, Fits
<1>8. CASE CronDies
  <2>1. cron' \in [todo : SUBSET Steps, at : Steps \cup {0}] /\ cron'.at = 0 /\ cut' \in BOOLEAN
    BY <1>8 DEF CronDies, TypeOK
  <2>2. disturbed' \in 0..MaxDisturbed
    BY <1>8, DisturbedBound DEF CronDies
  <2>. QED
    BY <1>8, <2>1, <2>2 DEF CronDies, TypeOK, Shape, Fits
<1>. QED
  BY <1>1, <1>2, <1>3, <1>4, <1>5, <1>6, <1>7, <1>8 DEF Cancel

\* No step leaves the types.
LEMMA TypesStep == ASSUME Types, Ids, Next PROVE Types'
<1>1. ASSUME NEW a \in Consumers, Process(a) \/ Throw(a) PROVE Types'
  BY <1>1, TypesRead, TypesSend, Consts DEF Process
<1>2. ASSUME NEW a \in Agents, Finish(a) \/ Die(a) PROVE Types'
  BY <1>2, TypesFinish DEF Finish
<1>3. 1 \in Sends
  BY SequenceAssumption, FS_CardinalityType, FS_EmptySet DEF Sends
<1>4. ASSUME Attempt \/ \E i \in Sends : CancelSend(i) \/ Retry(i) PROVE Types'
  BY <1>3, <1>4, TypesOutbox DEF Attempt
<1>5. ASSUME Dispatch \/ MarkQueued \/ Publish \/ StartCancel \/ Cancel \/ CronDies
             \/ \E s \in Steps : Duplicate(s)
      PROVE  Types'
  BY <1>5, TypesWorld, Consts
<1>. QED
  BY <1>1, <1>2, <1>4, <1>5 DEF Next

-----------------------------------------------------------------------------
(* Whose send is whose.                                                    *)

\* Nobody has a send at the start.
LEMMA IdsInit == Init => Ids
BY Consts DEF Init, Ids, Keeps, Free

\* Who keeps a row has a send.
LEMMA KeepsOne == ASSUME Types, NEW a \in Agents, Keeps(a) PROVE job[a].id \in Sends
<1>1. FitsAt(a, job[a].pc, job[a].step, job[a].id, job[a].end) /\ job[a].id \in Sends \cup {0}
  BY Dom DEF Types, Shape, Fits
<1>2. a \in Consumers \/ a = Outbox \/ a = User
  BY DEF Agents
<1>3. job[a].id # 0
  BY <1>1, <1>2 DEF Keeps, FitsAt, Early, Late
<1>. QED
  BY <1>1, <1>3

\* A step of one agent that goes on with its send, or has none, and writes no row.
LEMMA IdsGoOn ==
    ASSUME Types, Ids, NEW a \in Agents, NEW p, NEW s, NEW i, NEW e, Becomes(a, p, s, i, e), row' = row,
           \/ i = 0
           \/ i = job[a].id /\ s = job[a].step /\ (Guest(a) => Guest(a)'),
           Keeps(a)' => Keeps(a) /\ i = job[a].id
    PROVE  Ids'
<1>. USE DEF Becomes
<1>1. ASSUME NEW b \in Agents, Keeps(b)' PROVE row'[job'[b].id].status = "pending"
  <2>1. Keeps(b) /\ job'[b].id = job[b].id
    BY <1>1 DEF Keeps
  <2>. QED
    BY <2>1 DEF Ids
<1>2. ASSUME NEW b \in Agents, job'[b].id # 0, row'[job'[b].id].status # "none"
      PROVE  row'[job'[b].id].step = job'[b].step
  BY <1>2 DEF Ids
<1>3. ASSUME NEW b \in Agents, NEW c \in Agents, job'[b].id # 0, job'[b].id = job'[c].id
      PROVE  job'[b].step = job'[c].step /\ (b = c \/ Guest(b)' \/ Guest(c)')
  <2>1. ASSUME NEW d \in Agents, job'[d].id # 0
        PROVE  job'[d].id = job[d].id /\ job'[d].step = job[d].step /\ (Guest(d) => Guest(d)')
    BY <2>1 DEF Guest
  <2>2. job[b].id # 0 /\ job[b].id = job[c].id
    BY <1>3, <2>1
  <2>3. job[b].step = job[c].step /\ (b = c \/ Guest(b) \/ Guest(c))
    BY <2>2 DEF Ids
  <2>. QED
    BY <1>3, <2>1, <2>3
<1>. QED
  BY <1>1, <1>2, <1>3 DEF Ids

\* A step of one agent that writes the row of its send, which it keeps alone, and
\* goes on or is done with it.
LEMMA IdsOwn ==
    ASSUME Types, Ids, NEW a \in Agents, NEW p, NEW s, NEW i, NEW e, Becomes(a, p, s, i, e),
           Keeps(a), ~Guest(a), job[a].id # 0,
           \A k \in Sends \ {job[a].id} : row'[k] = row[k],
           i = 0 \/ (i = job[a].id /\ s = job[a].step),
           Keeps(a)' => i = job[a].id /\ row'[i].status = "pending",
           row'[job[a].id].status # "none" => row'[job[a].id].step = job[a].step
    PROVE  Ids'
<1>. USE Dom DEF Becomes
<1>0. \A b \in Agents \ {a} : job[b].id = job[a].id => Guest(b) /\ ~Keeps(b) /\ job[b].step = job[a].step
  <2> SUFFICES ASSUME NEW b \in Agents \ {a}, job[b].id = job[a].id
               PROVE  Guest(b) /\ ~Keeps(b) /\ job[b].step = job[a].step
    OBVIOUS
  <2>1. Guest(b) /\ job[b].step = job[a].step
    BY DEF Ids
  <2>2. b # Outbox
    BY <2>1 DEF Types, Shape, Fits, FitsAt, Guest, Late
  <2>. QED
    BY <2>1, <2>2 DEF Guest, Keeps
<1>a. \A b \in Agents \ {a} : (Keeps(b)' <=> Keeps(b)) /\ (Guest(b)' <=> Guest(b))
  BY DEF Keeps, Guest
<1>1. ASSUME NEW b \in Agents, Keeps(b)' PROVE row'[job'[b].id].status = "pending"
  <2>1. CASE b = a
    BY <1>1, <2>1
  <2>2. CASE b # a
    <3>1. Keeps(b) /\ job[b].id # job[a].id
      BY <1>0, <1>1, <1>a, <2>2
    <3>2. job[b].id \in Sends
      BY <3>1, KeepsOne DEF Types
    <3>. QED
      BY <2>2, <3>1, <3>2 DEF Ids
  <2>. QED
    BY <2>1, <2>2
<1>2. ASSUME NEW b \in Agents, job'[b].id # 0, row'[job'[b].id].status # "none"
      PROVE  row'[job'[b].id].step = job'[b].step
  <2>1. CASE b = a
    BY <1>2, <2>1
  <2>2. CASE b # a /\ job[b].id = job[a].id
    BY <1>0, <1>2, <2>2
  <2>3. CASE b # a /\ job[b].id # job[a].id
    <3>1. job[b].id \in Sends
      BY <1>2, <2>3 DEF Types
    <3>. QED
      BY <1>2, <2>3, <3>1 DEF Ids
  <2>. QED
    BY <2>1, <2>2, <2>3
<1>3. ASSUME NEW b \in Agents, NEW c \in Agents, job'[b].id # 0, job'[b].id = job'[c].id
      PROVE  job'[b].step = job'[c].step /\ (b = c \/ Guest(b)' \/ Guest(c)')
  <2>1. CASE b = a \/ c = a
    BY <1>0, <1>3, <1>a, <2>1
  <2>2. CASE b # a /\ c # a
    BY <1>3, <1>a, <2>2 DEF Ids
  <2>. QED
    BY <2>1, <2>2
<1>. QED
  BY <1>1, <1>2, <1>3 DEF Ids

\* Ids: a consumer before it has a row of its own, and after it recorded it.
LEMMA IdsRead ==
    ASSUME Types, Ids, NEW a \in Consumers, NEW t \in Steps,
           \/ Take(a, t) \/ ReadEnrollment(a) \/ Drop(a) \/ Guard(a) \/ Repair(a) \/ HandOver(a)
           \/ Unsendable(a) \/ Send(a) \/ Insert(a)
    PROVE  Ids'
<1>0. a \in Agents /\ Fits(a) /\ a # Outbox
  BY Consts DEF Types, Shape
<1>. USE <1>0
<1>1. CASE Take(a, t)
  <2>1. row' = row /\ At(a, "idle")
    BY <1>1 DEF Take
  <2>2. CASE step[t] = "queued"
    <3>1. Becomes(a, "enrollment", t, 0, "none")
      BY <1>1, <2>2, ConsumerMoves
    <3>. QED
      BY <2>1, <3>1, IdsGoOn DEF Becomes, Keeps
  <2>3. CASE step[t] # "queued"
    <3>1. Becomes(a, job[a].pc, job[a].step, job[a].id, job[a].end)
      BY <1>1, <2>3, ConsumerMoves
    <3>. QED
      BY <2>1, <3>1, IdsGoOn DEF Becomes, Keeps, Guest
  <2>. QED
    BY <2>2, <2>3
<1>2. CASE ReadEnrollment(a)
  <2>1. row' = row /\ At(a, "enrollment")
    BY <1>2 DEF ReadEnrollment
  <2>2. PICK p \in {"guard", "drop"} : Same(a, p, "none")
    BY <1>2, ConsumerMoves
  <2>. QED
    BY <2>1, <2>2, IdsGoOn DEF Same, Becomes, Keeps, Guest, At
<1>3. CASE Drop(a) \/ HandOver(a)
  <2>1. row' = row
    BY <1>3 DEF Drop, HandOver
  <2>2. Becomes(a, "idle", 0, 0, "none")
    BY <1>3, ConsumerMoves
  <2>. QED
    BY <2>1, <2>2, IdsGoOn DEF Becomes, Keeps
<1>4. CASE Guard(a)
  <2>1. row' = row /\ At(a, "guard")
    BY <1>4 DEF Guard
  <2>2. CASE Same(a, "prepare", "none")
    BY <2>1, <2>2, IdsGoOn DEF Same, Becomes, Keeps, Guest, At
  <2>3. CASE \E i \in RowsOf(job[a].step) : Becomes(a, "repair", job[a].step, i, "none")
    <3>1. PICK i \in RowsOf(job[a].step) : Becomes(a, "repair", job[a].step, i, "none")
      BY <2>3
    <3>2. i \in Sends /\ row[i].status # "none" /\ row[i].step = job[a].step
      BY <3>1 DEF RowsOf
    <3>3. ASSUME NEW b \in Agents, Keeps(b)' PROVE row'[job'[b].id].status = "pending"
      <4>1. Keeps(b) /\ job'[b].id = job[b].id
        BY <3>1, <3>3 DEF Keeps, Becomes
      <4>. QED
        BY <2>1, <4>1 DEF Ids
    <3>4. ASSUME NEW b \in Agents, job'[b].id # 0, row'[job'[b].id].status # "none"
          PROVE  row'[job'[b].id].step = job'[b].step
      BY <2>1, <3>1, <3>2, <3>4 DEF Ids, Becomes
    <3>5. Guest(a)' /\ \A b \in Agents \ {a} : Guest(b)' <=> Guest(b)
      BY <3>1 DEF Becomes, Guest
    <3>6. ASSUME NEW b \in Agents \ {a}, job'[b].id = i PROVE job'[b].step = job'[a].step
      BY <3>1, <3>2, <3>6, Consts DEF Ids, Becomes
    <3>7. ASSUME NEW b \in Agents, NEW c \in Agents, job'[b].id # 0, job'[b].id = job'[c].id
          PROVE  job'[b].step = job'[c].step /\ (b = c \/ Guest(b)' \/ Guest(c)')
      <4>1. CASE b = a \/ c = a
        BY <3>1, <3>5, <3>6, <3>7, <4>1 DEF Becomes
      <4>2. CASE b # a /\ c # a
        BY <3>1, <3>5, <3>7, <4>2 DEF Ids, Becomes
      <4>. QED
        BY <4>1, <4>2
    <3>. QED
      BY <3>3, <3>4, <3>7 DEF Ids
  <2>. QED
    BY <1>4, <2>2, <2>3, ConsumerMoves
<1>5. CASE Repair(a)
  <2>1. row' = row
    BY <1>5 DEF Repair
  <2>2. Same(a, "hand over", "none")
    BY <1>5, ConsumerMoves
  <2>. QED
    BY <2>1, <2>2, IdsGoOn DEF Same, Becomes, Keeps, Guest
<1>6. CASE Unsendable(a)
  <2>1. row' = row /\ At(a, "prepare")
    BY <1>6 DEF Unsendable
  <2>2. Same(a, "mark", "failed")
    BY <1>6, ConsumerMoves
  <2>. QED
    BY <2>1, <2>2, IdsGoOn DEF Same, Becomes, Keeps, Guest, At
<1>7. CASE Send(a)
  <2>1. row' = row /\ At(a, "send")
    BY <1>7 DEF Send
  <2>2. PICK e \in Ends : Same(a, "resolve", e)
    BY <1>7, ConsumerMoves
  <2>. QED
    BY <2>1, <2>2, IdsGoOn DEF Same, Becomes, Keeps, Guest, At
<1>8. CASE Insert(a)
  <2>1. row' = row /\ At(a, "insert")
    BY <1>8 DEF Insert
  <2>2. CASE Same(a, "mark", job[a].end)
    BY <2>1, <2>2, IdsGoOn DEF Same, Becomes, Keeps, Guest, At
  <2>3. CASE Becomes(a, "idle", 0, 0, "none")
    BY <2>1, <2>3, IdsGoOn DEF Becomes, Keeps
  <2>. QED
    BY <1>8, <2>2, <2>3, ConsumerMoves
<1>. QED
  BY <1>1, <1>2, <1>3, <1>4, <1>5, <1>6, <1>7, <1>8

\* Ids: a consumer writes its row, deletes it after a throw, and resolves it.
LEMMA IdsSend ==
    ASSUME Types, Types', Ids, NEW a \in Consumers, WriteAhead(a) \/ Throw(a) \/ Resolve(a)
    PROVE  Ids'
<1>. USE Dom DEF Types
<1>0. a \in Agents /\ Fits(a) /\ a # Outbox
  BY Consts DEF Shape
<1>. USE <1>0
<1>1. CASE WriteAhead(a)
  <2>1. PICK i \in Sends :
          /\ Unused(i) /\ Becomes(a, "send", job[a].step, i, "none")
          /\ row' = [row EXCEPT ![i] = [status |-> "pending", step |-> job[a].step, attempts |-> 0]]
    BY <1>1, ConsumerMoves
  <2>2. /\ row'[i].status = "pending" /\ row'[i].step = job[a].step
        /\ \A k \in Sends \ {i} : row'[k] = row[k]
    BY <2>1
  <2>3. /\ job'[a].id = i /\ job'[a].step = job[a].step
        /\ \A b \in Agents \ {a} : job'[b] = job[b] /\ job[b].id # i
    BY <2>1 DEF Becomes, Unused
  <2>4. \A b \in Agents \ {a} : (Keeps(b)' <=> Keeps(b)) /\ (Guest(b)' <=> Guest(b))
    BY <2>3 DEF Keeps, Guest
  <2>5. ASSUME NEW b \in Agents, Keeps(b)' PROVE row'[job'[b].id].status = "pending"
    <3>1. CASE b = a
      BY <2>2, <2>3, <3>1
    <3>2. CASE b # a
      BY <2>2, <2>3, <2>4, <2>5, <3>2, KeepsOne DEF Ids
    <3>. QED
      BY <3>1, <3>2
  <2>6. ASSUME NEW b \in Agents, job'[b].id # 0, row'[job'[b].id].status # "none"
        PROVE  row'[job'[b].id].step = job'[b].step
    BY <2>2, <2>3, <2>6 DEF Ids
  <2>7. ASSUME NEW b \in Agents, NEW c \in Agents, job'[b].id # 0, job'[b].id = job'[c].id
        PROVE  job'[b].step = job'[c].step /\ (b = c \/ Guest(b)' \/ Guest(c)')
    BY <2>3, <2>4, <2>7 DEF Ids
  <2>. QED
    BY <2>5, <2>6, <2>7 DEF Ids
<1>2. CASE Throw(a)
  <2>1. At(a, "send") /\ job[a].id \in Sends
    BY <1>2 DEF Throw, At, Fits, FitsAt
  <2>2. row'[job[a].id] = NoRow /\ \A k \in Sends \ {job[a].id} : row'[k] = row[k]
    BY <1>2, <2>1 DEF Throw
  <2>3. Becomes(a, "idle", 0, 0, "none")
    BY <1>2, ConsumerMoves
  <2>4. Keeps(a) /\ ~Guest(a) /\ ~Keeps(a)'
    BY <2>1, <2>3 DEF Becomes, Keeps, Guest, At
  <2>5. job[a].id # 0 /\ row'[job[a].id].status = "none"
    BY <2>1, <2>2, Consts DEF NoRow
  <2>. QED
    BY <2>2, <2>3, <2>4, <2>5, IdsOwn DEF Types
<1>3. CASE Resolve(a)
  <2>1. At(a, "resolve") /\ job[a].id \in Sends /\ job[a].id # 0 /\ job[a].end \in Ends
    BY <1>3 DEF Resolve, At, Fits, FitsAt
  <2>2. row[job[a].id].status = "pending" /\ row[job[a].id].step = job[a].step /\ row[job[a].id] \in RowType
    BY <2>1 DEF Ids, Keeps, At
  <2>3. PICK n : n = Resolved(a)
    OBVIOUS
  <2>4. /\ n.status # "none" => n.step = job[a].step
        /\ job[a].end = "retrying" => n.status = "pending"
    BY <2>1, <2>2, <2>3 DEF Resolved, NoRow, RowType, Ends
  <2>5. row'[job[a].id] = n /\ \A k \in Sends \ {job[a].id} : row'[k] = row[k]
    BY <1>3, <2>1, <2>3 DEF Resolve
  <2>6. PICK p \in {"mark", "insert"} : p = IF job[a].end = "suppressed" THEN "mark" ELSE "insert"
    OBVIOUS
  <2>7. Becomes(a, p, job[a].step, job[a].id, job[a].end)
    BY <1>3, <2>6, ConsumerMoves DEF Same
  <2>. QED
    BY <2>1, <2>4, <2>5, <2>6, <2>7, IdsOwn DEF Becomes, Keeps, Guest, At
<1>. QED
  BY <1>1, <1>2, <1>3

\* Who marks a step is no guest.
LEMMA MarkAt == ASSUME NEW a, Mark(a) PROVE ~At(a, "repair") /\ ~At(a, "hand over")
BY DEF Mark, At

\* Ids: the end of a step, the look at the enrollment, and a handler's death.
LEMMA IdsFinish ==
    ASSUME Types, Ids, NEW a \in Agents, Mark(a) \/ Check(a) \/ Complete(a) \/ Die(a)
    PROVE  Ids'
<1>1. row' = row
  BY DEF Mark, Check, Complete, Die, UnchangedHistory
<1>2. CASE Becomes(a, "idle", 0, 0, "none")
  BY <1>1, <1>2, Consts, IdsGoOn DEF Becomes, Keeps, Types, Shape, Fits, FitsAt
<1>3. ASSUME NEW p \in {"check", "complete", "delete"}, Same(a, p, job[a].end),
             ~At(a, "repair"), ~At(a, "hand over")
      PROVE  Ids'
  BY <1>1, <1>3, IdsGoOn DEF Same, Becomes, Keeps, Guest, At
<1>4. CASE Mark(a)
  BY <1>2, <1>3, <1>4, AgentMoves, MarkAt
<1>5. CASE Check(a) \/ Complete(a)
  <2>1. ~At(a, "repair") /\ ~At(a, "hand over")
    BY <1>5 DEF Check, Complete, At
  <2>. QED
    BY <1>2, <1>3, <1>5, <2>1, AgentMoves
<1>6. CASE Die(a)
  BY <1>2, <1>6, AgentMoves
<1>. QED
  BY <1>4, <1>5, <1>6

\* Ids: the outbox's attempt, and sends canceled or retried by hand.
LEMMA IdsOutbox ==
    ASSUME Types, Types', Ids, NEW i \in Sends,
           Claim(i) \/ Try \/ Settle \/ Delete \/ CancelSend(i) \/ Retry(i)
    PROVE  Ids'
<1>. USE Dom, Consts DEF Types
<1>0. Fits(Outbox) /\ Fits(User)
  BY DEF Shape
<1>. USE <1>0
<1>1. CASE Claim(i)
  <2>1. Becomes(Outbox, "try", row[i].step, i, "none")
    BY <1>1, OutboxMoves
  <2>2. /\ row[i].status = "pending" /\ At(Outbox, "idle")
        /\ \A b \in Agents : job[b].id = i => Guest(b)
    BY <1>1 DEF Claim, Due, Guest
  <2>3. \A k \in Sends : row'[k].status = row[k].status /\ row'[k].step = row[k].step
    <3>1. PICK n : row' = [row EXCEPT ![i].attempts = n]
      BY <1>1 DEF Claim
    <3>. QED
      BY <3>1 DEF RowType
  <2>4. /\ job'[Outbox].id = i /\ job'[Outbox].step = row[i].step
        /\ \A b \in Agents \ {Outbox} : job'[b] = job[b]
    BY <2>1 DEF Becomes
  <2>5. \A b \in Agents \ {Outbox} : (Keeps(b)' <=> Keeps(b)) /\ (Guest(b)' <=> Guest(b))
    BY <2>4 DEF Keeps, Guest
  <2>6. ASSUME NEW b \in Agents, Keeps(b)' PROVE row'[job'[b].id].status = "pending"
    <3>1. CASE b = Outbox
      BY <2>2, <2>3, <2>4, <3>1
    <3>2. CASE b # Outbox
      BY <2>3, <2>4, <2>5, <2>6, <3>2, KeepsOne DEF Ids
    <3>. QED
      BY <3>1, <3>2
  <2>7. ASSUME NEW b \in Agents, job'[b].id # 0, row'[job'[b].id].status # "none"
        PROVE  row'[job'[b].id].step = job'[b].step
    <3>1. job'[b].id \in Sends
      BY <2>4, <2>7
    <3>. QED
      BY <2>3, <2>4, <2>7, <3>1 DEF Ids
  <2>8. ASSUME NEW b \in Agents, NEW c \in Agents, job'[b].id # 0, job'[b].id = job'[c].id
        PROVE  job'[b].step = job'[c].step /\ (b = c \/ Guest(b)' \/ Guest(c)')
    <3>1. ASSUME NEW d \in Agents \ {Outbox}, job'[d].id = i PROVE job'[d].step = row[i].step /\ Guest(d)'
      BY <2>2, <2>4, <2>5, <3>1 DEF Ids
    <3>2. CASE b = Outbox \/ c = Outbox
      BY <2>4, <2>8, <3>1, <3>2
    <3>3. CASE b # Outbox /\ c # Outbox
      BY <2>4, <2>5, <2>8, <3>3 DEF Ids
    <3>. QED
      BY <3>2, <3>3
  <2>. QED
    BY <2>6, <2>7, <2>8 DEF Ids
<1>2. CASE Try
  <2>1. row' = row /\ At(Outbox, "try")
    BY <1>2 DEF Try
  <2>2. PICK e \in Ends : Same(Outbox, "settle", e)
    BY <1>2, OutboxMoves
  <2>. QED
    BY <2>1, <2>2, IdsGoOn DEF Same, Becomes, Keeps, Guest, At
<1>3. CASE Settle
  <2>1. At(Outbox, "settle") /\ job[Outbox].id \in Sends /\ job[Outbox].id # 0 /\ job[Outbox].end \in Ends
    BY <1>3 DEF Settle, At, Fits, FitsAt
  <2>2. row[job[Outbox].id].status = "pending" /\ row[job[Outbox].id].step = job[Outbox].step
    BY <2>1 DEF Ids, Keeps, At
  <2>3. Becomes(Outbox, "mark", job[Outbox].step, job[Outbox].id, job[Outbox].end)
    BY <1>3, OutboxMoves DEF Same
  <2>4. /\ \A k \in Sends \ {job[Outbox].id} : row'[k] = row[k]
        /\ row'[job[Outbox].id].status # "none" => row'[job[Outbox].id].step = job[Outbox].step
        /\ job[Outbox].end \in {"sent", "retrying"} => row' = row
    <3>1. CASE job[Outbox].end = "suppressed"
      BY <1>3, <2>1, <3>1 DEF Settle, NoRow
    <3>2. CASE job[Outbox].end = "failed"
      <4>1. row' = [row EXCEPT ![job[Outbox].id].status = "failed"]
        BY <1>3, <3>2 DEF Settle
      <4>. QED
        BY <2>1, <2>2, <3>2, <4>1 DEF RowType
    <3>3. CASE job[Outbox].end \in {"sent", "retrying"}
      BY <1>3, <2>2, <3>3 DEF Settle
    <3>. QED
      BY <2>1, <3>1, <3>2, <3>3 DEF Ends
  <2>. QED
    BY <2>1, <2>2, <2>3, <2>4, IdsOwn DEF Becomes, Keeps, Guest, At
<1>4. CASE Delete
  <2>1. At(Outbox, "delete") /\ job[Outbox].id \in Sends /\ job[Outbox].id # 0 /\ job[Outbox].end = "sent"
    BY <1>4 DEF Delete, At, Fits, FitsAt
  <2>2. row'[job[Outbox].id] = NoRow /\ \A k \in Sends \ {job[Outbox].id} : row'[k] = row[k]
    BY <1>4, <2>1 DEF Delete
  <2>3. Becomes(Outbox, "idle", 0, 0, "none")
    BY <1>4, OutboxMoves
  <2>4. Keeps(Outbox) /\ ~Guest(Outbox) /\ ~Keeps(Outbox)'
    BY <2>1, <2>3 DEF Becomes, Keeps, Guest, At
  <2>5. row'[job[Outbox].id].status = "none"
    BY <2>2 DEF NoRow
  <2>. QED
    BY <2>1, <2>2, <2>3, <2>4, <2>5, IdsOwn DEF Types
<1>5. CASE CancelSend(i)
  <2>1. Becomes(User, "mark", row[i].step, 0, "failed")
    BY <1>5, OutboxMoves
  <2>2. row'[i] = NoRow /\ \A k \in Sends \ {i} : row'[k] = row[k]
    BY <1>5 DEF CancelSend
  <2>3. ASSUME NEW b \in Agents, Keeps(b) PROVE job[b].id # i
    <3>1. CASE row[i].status = "failed"
      BY <2>3, <3>1 DEF Ids
    <3>2. CASE Due(i)
      <4>1. job[b].id = i => Guest(b)
        BY <3>2 DEF Due, Guest
      <4>2. Guest(b) => b # Outbox
        BY DEF Guest, Fits, FitsAt, Late
      <4>. QED
        BY <2>3, <4>1, <4>2 DEF Guest, Keeps
    <3>. QED
      BY <1>5, <3>1, <3>2 DEF CancelSend
  <2>4. job'[User].id = 0 /\ ~Keeps(User)' /\ \A b \in Agents \ {User} : job'[b] = job[b]
    BY <2>1 DEF Becomes, Keeps
  <2>5. \A b \in Agents \ {User} : (Keeps(b)' <=> Keeps(b)) /\ (Guest(b)' <=> Guest(b))
    BY <2>4 DEF Keeps, Guest
  <2>6. ASSUME NEW b \in Agents, Keeps(b)' PROVE row'[job'[b].id].status = "pending"
    BY <2>2, <2>3, <2>4, <2>5, <2>6, KeepsOne DEF Ids
  <2>7. ASSUME NEW b \in Agents, job'[b].id # 0, row'[job'[b].id].status # "none"
        PROVE  row'[job'[b].id].step = job'[b].step
    <3>1. job[b].id \in Sends \ {i}
      BY <2>2, <2>4, <2>7 DEF NoRow
    <3>. QED
      BY <2>2, <2>4, <2>7, <3>1 DEF Ids
  <2>8. ASSUME NEW b \in Agents, NEW c \in Agents, job'[b].id # 0, job'[b].id = job'[c].id
        PROVE  job'[b].step = job'[c].step /\ (b = c \/ Guest(b)' \/ Guest(c)')
    BY <2>4, <2>5, <2>8 DEF Ids
  <2>. QED
    BY <2>6, <2>7, <2>8 DEF Ids
<1>6. CASE Retry(i)
  <2>1. job' = job /\ row[i].status = "failed"
    BY <1>6 DEF Retry
  <2>2. \A k \in Sends : /\ row'[k].step = row[k].step
                         /\ row'[k].status = IF k = i THEN "pending" ELSE row[k].status
    <3>1. row' = [row EXCEPT ![i] = [row[i] EXCEPT !.status = "pending", !.attempts = 0]]
      BY <1>6 DEF Retry
    <3>2. row[i] \in RowType
      OBVIOUS
    <3>. QED
      BY <3>1, <3>2, Revivable
  <2>3. \A b \in Agents : (Keeps(b)' <=> Keeps(b)) /\ (Guest(b)' <=> Guest(b))
    BY <2>1 DEF Keeps, Guest
  <2>4. \A b \in Agents : Keeps(b) => job[b].id \in Sends
    BY KeepsOne
  <2>5. ASSUME NEW b \in Agents, Keeps(b)' PROVE row'[job'[b].id].status = "pending"
    BY <2>1, <2>2, <2>3, <2>4, <2>5 DEF Ids
  <2>6. ASSUME NEW b \in Agents, job'[b].id # 0, row'[job'[b].id].status # "none"
        PROVE  row'[job'[b].id].step = job'[b].step
    <3>1. job[b].id \in Sends
      BY <2>1, <2>6
    <3>. QED
      BY <2>1, <2>2, <2>6, <3>1 DEF Ids
  <2>. QED
    BY <2>1, <2>3, <2>5, <2>6 DEF Ids
<1>. QED
  BY <1>1, <1>2, <1>3, <1>4, <1>5, <1>6

\* No step makes two agents share a send.
LEMMA IdsStep == ASSUME Types, Types', Ids, Next PROVE Ids'
<1>1. ASSUME NEW a \in Consumers, Process(a) \/ Throw(a) PROVE Ids'
  BY <1>1, IdsRead, IdsSend, Consts DEF Process
<1>2. ASSUME NEW a \in Agents, Finish(a) \/ Die(a) PROVE Ids'
  BY <1>2, IdsFinish DEF Finish
<1>3. 1 \in Sends
  BY SequenceAssumption, FS_CardinalityType, FS_EmptySet DEF Sends
<1>4. ASSUME Attempt \/ \E i \in Sends : CancelSend(i) \/ Retry(i) PROVE Ids'
  BY <1>3, <1>4, IdsOutbox DEF Attempt
<1>5. ASSUME Dispatch \/ MarkQueued \/ Publish \/ StartCancel \/ Cancel \/ CronDies
             \/ \E s \in Steps : Duplicate(s)
      PROVE  Ids'
  <2>1. UNCHANGED <<job, row>>
    BY <1>5 DEF Dispatch, MarkQueued, Publish, StartCancel, Cancel, CancelEnrollment, CancelSteps,
       CronDies, Duplicate
  <2>. QED
    BY <2>1 DEF Ids, Keeps, Guest
<1>. QED
  BY <1>1, <1>2, <1>4, <1>5 DEF Next

-----------------------------------------------------------------------------
(* What holds of each step.                                                *)

\* Neither doubled nor settled by two, or no fault has left work behind.
Calm(s) == s \notin doubt \/ ~cut

On(a, s) == job[a].step = s

\* The cron has yet to push the step's message.
Unpublished(s) == step[s] = "pending" \/ s \in cron.todo

\* Nobody has heard of the step.
Fresh(s) == msgs[s] = 0 /\ RowsOf(s) = {} /\ delivered[s] = 0 /\ \A a \in Agents : ~On(a, s)

\* A step has one message, then one handler, then one row.
Solo(s) ==
    Calm(s) =>
    /\ Unpublished(s) => Fresh(s)
    /\ msgs[s] = 0 \/ msgs[s] = 1
    /\ \A a, b \in Consumers : On(a, s) => msgs[s] = 0 /\ (On(b, s) => a = b)
    /\ \A i, k \in RowsOf(s) : i = k
    /\ \A a \in Consumers : On(a, s) =>
         /\ job[a].pc = "prepare" => RowsOf(s) = {}
         /\ job[a].pc \in {"send", "resolve", "insert"} => sent[job[a].id] = "none"
         /\ job[a].pc \in {"insert", "mark"} /\ job[a].end = "sent" => RowsOf(s) = {}

\* An agent that has the provider's acceptance and has yet to record it.
Knows(a) == job[a].end = "sent" /\ job[a].pc \in {"resolve", "insert", "settle", "mark"}

\* The outbox has recorded the acceptance, and still has the row.
Leaving(s) == On(Outbox, s) /\ job[Outbox].end = "sent"

\* What was delivered is known to someone, or recorded for good.
Told(s) ==
    s \notin doubt =>
    /\ step[s] = "sent" \/ (\E a \in Agents : On(a, s) /\ job[a].end = "sent") => delivered[s] = 1
    /\ delivered[s] \in {0, 1}
    /\ delivered[s] = 1 =>
         \/ \E a \in Agents : On(a, s) /\ Knows(a) /\ RowsOf(s) \subseteq {job[a].id}
         \/ /\ step[s] = "sent"
            /\ \A a \in Agents : On(a, s) => job[a].pc \in Late \cup {"delete"}
            /\ \A i \in RowsOf(s) : Leaving(s) /\ job[Outbox].id = i

\* An agent whose step is not marked yet.
Working(c, s) == On(c, s) /\ job[c].pc \notin Late

\* A step that is not over has something that will move it.
Moved(s) ==
    ~cut =>
    /\ \A c \in Consumers : Working(c, s) => step[s] \in {"queued", "cancelled"}
    /\ Leaving(s) /\ job[Outbox].pc \in Late \cup {"delete"} =>
         /\ step[s] = "sent"
         /\ \A b \in Agents \ {Outbox} : On(b, s) => job[b].pc \in Late
    /\ step[s] = "retrying" =>
         \/ \E i \in RowsOf(s) : row[i].status = "pending"
         \/ On(Outbox, s) /\ job[Outbox].pc = "mark" /\ job[Outbox].end \in {"failed", "suppressed"}
         \/ On(User, s) /\ job[User].pc = "mark"
    /\ step[s] = "queued" =>
         msgs[s] > 0 \/ cron.at = s \/ \E c \in Consumers : Working(c, s)

Sound(s) == Solo(s) /\ Told(s) /\ Moved(s)

\* Every step is sound at the start.
LEMMA SoundInit == ASSUME Init, NEW s \in Steps PROVE Sound(s)
<1>1. /\ step[s] = (IF s = 1 THEN "queued" ELSE "pending")
      /\ msgs[s] = (IF s = 1 THEN 1 ELSE 0) /\ delivered[s] = 0 /\ RowsOf(s) = {}
      /\ \A a \in Agents : ~On(a, s) /\ job[a] = Free
  BY Consts DEF Init, NoRow, RowsOf, Free, On
<1>. QED
  BY <1>1, Consts DEF Init, Sound, Solo, Told, Moved, Unpublished, Fresh, Leaving, Working, Free

\* Nothing happens that a step depends on.
Away(s) ==
    /\ \A a \in Agents : On(a, s) \/ job'[a].step = s => job'[a] = job[a]
    /\ msgs'[s] = msgs[s] /\ delivered'[s] = delivered[s]
    /\ step'[s] = step[s] \/ (step[s] \in {"pending", "queued"} /\ step'[s] = "cancelled")
    /\ step'[s] = "pending" \/ s \in cron'.todo => Unpublished(s)
    /\ cut' \/ (cron.at = s => cron'.at = s)
    /\ \A i \in Sends :
         /\ (row'[i].status # "none" /\ row'[i].step = s) <=> (row[i].status # "none" /\ row[i].step = s)
         /\ row[i].status = "pending" /\ row[i].step = s => row'[i].status = "pending"
    /\ \A a \in Consumers :
         On(a, s) /\ job[a].pc \in {"send", "resolve", "insert"} /\ sent[job[a].id] = "none"
           => sent'[job[a].id] = "none"
    /\ (s \in doubt => s \in doubt') /\ (cut => cut')

\* What happens elsewhere leaves a step sound.
LEMMA AwaySound == ASSUME NEW s \in Steps, Sound(s), Away(s) PROVE Sound(s)'
<1>. USE Consts
<1>1. \A a \in Agents : (On(a, s)' <=> On(a, s)) /\ (On(a, s) => job'[a] = job[a])
  BY DEF Away, On
<1>2. RowsOf(s)' = RowsOf(s)
  BY DEF Away, RowsOf
<1>3. (Calm(s)' => Calm(s)) /\ (Unpublished(s)' => Unpublished(s))
  BY DEF Away, Calm, Unpublished
<1>4. Solo(s)'
  <2>1. Fresh(s) => Fresh(s)'
    BY <1>1, <1>2 DEF Away, Fresh
  <2>. QED
    BY <1>1, <1>2, <1>3, <2>1 DEF Away, Sound, Solo
<1>5. Told(s)'
  <2>1. Leaving(s)' <=> Leaving(s)
    BY <1>1 DEF Leaving
  <2>. QED
    BY <1>1, <1>2, <2>1 DEF Away, Sound, Told, Knows, Leaving
<1>6. Moved(s)'
  <2>1. Leaving(s)' <=> Leaving(s)
    BY <1>1 DEF Leaving
  <2>2. \A a \in Agents : Working(a, s)' <=> Working(a, s)
    BY <1>1 DEF Working
  <2>3. \A i \in RowsOf(s) : row[i].status = "pending" => row'[i].status = "pending"
    BY DEF Away, RowsOf
  <2>4. cut' \/ (cron.at = s => cron'.at = s)
    BY DEF Away
  <2>. QED
    BY <1>1, <1>2, <2>1, <2>2, <2>3, <2>4 DEF Away, Sound, Moved, Leaving
<1>. QED
  BY <1>4, <1>5, <1>6 DEF Sound

\* An agent's step about the step t alone.
Local(a, t) ==
    /\ job[a].step \in {0, t} /\ job'[a].step \in {0, t}
    /\ \A b \in Agents \ {a} : job'[b] = job[b]
    /\ \A s \in Steps \ {t} : step'[s] = step[s] /\ msgs'[s] = msgs[s] /\ delivered'[s] = delivered[s]
    /\ \A i \in Sends : row'[i] # row[i] =>
         (row[i].status # "none" => row[i].step = t) /\ (row'[i].status # "none" => row'[i].step = t)
    /\ \A i \in Sends : sent[i] = "none" => sent'[i] = "none" \/ (i = job[a].id /\ job[a].step = t)
    /\ cron' = cron /\ doubt \ {t} \subseteq doubt' /\ (cut => cut')

\* An agent's step about t is elsewhere for every other step: by Ids its send is t's.
LEMMA LocalAway ==
    ASSUME Types, Ids, NEW a \in Agents, NEW t \in Steps, Local(a, t), NEW s \in Steps, s # t
    PROVE  Away(s)
<1>. USE Consts
<1>1. \A b \in Agents : On(b, s) \/ job'[b].step = s => b # a
  BY DEF Local, On
<1>2. \A i \in Sends :
         /\ (row'[i].status # "none" /\ row'[i].step = s) <=> (row[i].status # "none" /\ row[i].step = s)
         /\ row[i].status = "pending" /\ row[i].step = s => row'[i].status = "pending"
  <2> TAKE i \in Sends
  <2>1. CASE row'[i] = row[i]
    BY <2>1
  <2>2. CASE row'[i] # row[i]
    BY <2>2 DEF Local
  <2>. QED
    BY <2>1, <2>2
<1>3. ASSUME NEW b \in Consumers, On(b, s), job[b].pc \in {"send", "resolve", "insert"},
             sent[job[b].id] = "none"
      PROVE  sent'[job[b].id] = "none"
  <2>1. job[b].id \in Sends /\ job[b].id # 0
    BY <1>3, Dom DEF Types, Shape, Fits, FitsAt
  <2>2. job[b].id = job[a].id => job[b].step = job[a].step
    BY <2>1 DEF Ids
  <2>. QED
    BY <1>3, <2>1, <2>2 DEF Local, On
<1>4. /\ \A b \in Agents : On(b, s) \/ job'[b].step = s => job'[b] = job[b]
      /\ msgs'[s] = msgs[s] /\ delivered'[s] = delivered[s] /\ step'[s] = step[s]
      /\ cron' = cron /\ (s \in doubt => s \in doubt') /\ (cut => cut')
  BY <1>1 DEF Local
<1>. QED
  BY <1>2, <1>3, <1>4 DEF Away, Unpublished

\* Of an agent's step about t, only t has to be looked at.
LEMMA LocalSound ==
    ASSUME Types, Ids, \A s \in Steps : Sound(s), NEW a \in Agents, NEW t \in Steps, Local(a, t), Sound(t)'
    PROVE  \A s \in Steps : Sound(s)'
<1> SUFFICES ASSUME NEW s \in Steps PROVE Sound(s)'
  OBVIOUS
<1>1. CASE s = t
  BY <1>1
<1>2. CASE s # t
  BY <1>2, LocalAway, AwaySound
<1>. QED
  BY <1>1, <1>2

\* The cron, the cancellation of the enrollment, and a doubled message: a step the
\* cron has yet to publish is fresh, so its message is the first.
LEMMA SoundCron ==
    ASSUME Types, \A s \in Steps : Sound(s),
           \/ Dispatch \/ MarkQueued \/ Publish \/ CronDies
           \/ StartCancel \/ CancelEnrollment \/ CancelSteps \/ \E t \in Steps : Duplicate(t)
    PROVE  \A s \in Steps : Sound(s)'
<1> SUFFICES ASSUME NEW s \in Steps PROVE Sound(s)'
  OBVIOUS
<1>. USE Dom DEF Types
<1>0. Sound(s) /\ cron \in [todo : SUBSET Steps, at : Steps \cup {0}] /\ s # 0
  BY Consts DEF TypeOK
<1>. USE <1>0
<1>1. CASE Dispatch
  <2>1. /\ cron' = [cron EXCEPT !.todo = cron'.todo]
        /\ \A t \in cron'.todo : step[t] = "pending"
    BY <1>1 DEF Dispatch
  <2>2. cron'.at = cron.at
    BY <2>1
  <2>. QED
    BY <1>1, <2>1, <2>2, AwaySound DEF Dispatch, UnchangedHistory, Away, Unpublished
<1>2. CASE MarkQueued
  <2>1. PICK t \in cron.todo : step' = [step EXCEPT ![t] = "queued"] /\ cron' = [cron EXCEPT !.at = t]
    BY <1>2 DEF MarkQueued
  <2>2. cron'.todo = cron.todo /\ cron'.at = t /\ cron.at = 0 /\ t \in Steps
    BY <1>2, <2>1 DEF MarkQueued
  <2>3. UNCHANGED <<row, sent, msgs, job, delivered, doubt, cut>>
    BY <1>2 DEF MarkQueued
  <2>4. CASE s = t
    <3>1. step'[s] = "queued" /\ cron'.at = s /\ Unpublished(s)
      BY <2>1, <2>2, <2>4 DEF Unpublished
    <3>2. Calm(s) => Fresh(s)
      BY <3>1 DEF Sound, Solo
    <3>3. (Calm(s)' <=> Calm(s)) /\ (Fresh(s)' <=> Fresh(s)) /\ RowsOf(s)' = RowsOf(s)
      BY <2>3 DEF Calm, Fresh, RowsOf, On
    <3>4. Solo(s)'
      BY <2>3, <3>2, <3>3 DEF Sound, Solo, Fresh, On
    <3>5. Told(s)'
      BY <2>3, <3>1, <3>2 DEF Told, Fresh, Calm, On
    <3>6. Moved(s)'
      BY <2>3, <3>1, <3>2, Consts DEF Moved, Fresh, Calm, Working, Leaving, On
    <3>. QED
      BY <3>4, <3>5, <3>6 DEF Sound
  <2>5. CASE s # t
    BY <2>1, <2>2, <2>3, <2>5, AwaySound DEF Away, Unpublished
  <2>. QED
    BY <2>4, <2>5
<1>3. CASE Publish
  <2>1. PICK t \in Steps : t = cron.at
    BY <1>3 DEF Publish
  <2>2. t \in cron.todo /\ step[t] # "pending"
    BY <1>3, <2>1 DEF Publish, Shape
  <2>3. cron'.todo = cron.todo \ {t} /\ cron'.at = 0
    BY <1>3, <2>1 DEF Publish
  <2>4. UNCHANGED <<step, row, sent, job, delivered, doubt, cut>>
    BY <1>3 DEF Publish, UnchangedHistory
  <2>5. msgs'[t] = msgs[t] + 1 /\ \A r \in Steps \ {t} : msgs'[r] = msgs[r]
    BY <1>3, <2>1 DEF Publish
  <2>6. CASE s = t
    <3>1. Unpublished(s) /\ ~Unpublished(s)'
      BY <2>2, <2>3, <2>4, <2>6 DEF Unpublished
    <3>2. Calm(s) => Fresh(s)
      BY <3>1 DEF Sound, Solo
    <3>3. (Calm(s)' <=> Calm(s)) /\ RowsOf(s)' = RowsOf(s) /\ \A a \in Agents : On(a, s)' <=> On(a, s)
      BY <2>4 DEF Calm, RowsOf, On
    <3>4. Calm(s) => msgs'[s] = 1
      BY <2>5, <2>6, <3>2 DEF Fresh
    <3>5. Solo(s)'
      BY <2>4, <3>1, <3>2, <3>3, <3>4, Consts DEF Solo, Fresh
    <3>6. Told(s)'
      BY <2>4, <3>2, <3>3 DEF Told, Fresh, Calm, Sound
    <3>7. Moved(s)'
      BY <2>4, <3>2, <3>3, <3>4, Consts DEF Moved, Fresh, Calm, Sound, Working, Leaving
    <3>. QED
      BY <3>5, <3>6, <3>7 DEF Sound
  <2>7. CASE s # t
    BY <2>1, <2>3, <2>4, <2>5, <2>7, AwaySound DEF Away, Unpublished
  <2>. QED
    BY <2>6, <2>7
<1>4. CASE CronDies
  BY <1>4, AwaySound DEF CronDies, Away, Unpublished
<1>5. CASE StartCancel \/ CancelEnrollment
  BY <1>5, AwaySound DEF StartCancel, CancelEnrollment, UnchangedHistory, Away, Unpublished
<1>6. CASE CancelSteps
  <2>1. step'[s] = IF step[s] \in {"pending", "queued"} THEN "cancelled" ELSE step[s]
    BY <1>6 DEF CancelSteps
  <2>. QED
    BY <1>6, <2>1, AwaySound DEF CancelSteps, UnchangedHistory, Away, Unpublished
<1>7. ASSUME NEW t \in Steps, Duplicate(t) PROVE Sound(s)'
  <2>1. CASE s = t
    BY <1>7, <2>1 DEF Duplicate, Sound, Solo, Told, Moved, Calm
  <2>2. CASE s # t
    BY <1>7, <2>2, AwaySound DEF Duplicate, Away, Unpublished
  <2>. QED
    BY <2>1, <2>2
<1>. QED
  BY <1>1, <1>2, <1>3, <1>4, <1>5, <1>6, <1>7

\* A consumer on a calm step is the only one, and took the step's only message.
LEMMA Alone ==
    ASSUME Types, NEW s \in Steps, Sound(s), Calm(s), NEW a \in Consumers, On(a, s)
    PROVE  /\ ~Unpublished(s) /\ msgs[s] = 0
           /\ \A b \in Consumers : On(b, s) => b = a
           /\ \A i, k \in RowsOf(s) : i = k
BY Consts DEF Sound, Solo, Fresh

\* A consumer that has not sent yet goes on.
LEMMA SoundEarly ==
    ASSUME Types, Ids, \A s \in Steps : Sound(s), NEW a \in Consumers, NEW p, NEW i, NEW e,
           job[a].pc \in Early, Becomes(a, p, job[a].step, i, e),
           (p \in Early /\ e = "none") \/ (p = "mark" /\ e = "failed"),
           p = "prepare" => RowsOf(job[a].step) = {},
           UNCHANGED <<step, row, msgs, cron, delivered, doubt, cut>>,
           \A k \in Sends \ {job[a].id} : sent'[k] = sent[k]
    PROVE  \A s \in Steps : Sound(s)'
<1>. USE Consts
<1>t. PICK t \in Steps : job[a].step = t
  BY DEF Types, Shape, Fits, FitsAt, Early
<1>. USE <1>t
<1>1. t \in Steps /\ a \in Agents /\ On(a, t) /\ job[a].end = "none" /\ job[a].pc \notin Late
  BY DEF Types, Shape, Fits, FitsAt, Early, Late, On
<1>2. Sound(t)
  BY <1>1
<1>3. Local(a, t)
  BY <1>1 DEF Local, Becomes
<1>4. /\ \A b \in Agents : On(b, t)' <=> On(b, t)
      /\ \A b \in Agents \ {a} : job'[b] = job[b]
      /\ job'[a].pc = p /\ job'[a].end = e
  BY <1>1 DEF Becomes, On
<1>5. RowsOf(t)' = RowsOf(t) /\ (Calm(t)' <=> Calm(t)) /\ (Unpublished(t)' <=> Unpublished(t))
  BY DEF RowsOf, Calm, Unpublished
<1>6. p \notin Late /\ p # "delete" /\ p \notin {"send", "resolve", "insert"} /\ e # "sent"
  BY DEF Early, Late
<1>7. Solo(t)'
  <2> SUFFICES ASSUME Calm(t) PROVE Solo(t)'
    BY <1>5 DEF Solo
  <2>1. /\ ~Unpublished(t) /\ msgs[t] = 0
        /\ \A b \in Consumers : On(b, t) => b = a
        /\ \A k, l \in RowsOf(t) : k = l
    BY <1>1, <1>2, Alone
  <2>. QED
    BY <1>4, <1>5, <1>6, <2>1 DEF Solo
<1>8. Told(t)'
  <2>1. \A b \in Agents : On(b, t) /\ Knows(b) => b # a /\ Knows(b)'
    BY <1>1, <1>4 DEF Knows
  <2>2. ~\A b \in Agents : On(b, t) => job[b].pc \in Late \cup {"delete"}
    BY <1>1 DEF Early, Late
  <2>3. \A b \in Agents : On(b, t) /\ job'[b].end = "sent" => job[b].end = "sent"
    BY <1>4, <1>6
  <2>. QED
    BY <1>2, <1>4, <1>5, <2>1, <2>2, <2>3 DEF Sound, Told
<1>9. Moved(t)'
  <2>1. \A b \in Agents : Working(b, t)' <=> Working(b, t)
    BY <1>1, <1>4, <1>6 DEF Working
  <2>2. Leaving(t)' <=> Leaving(t)
    BY <1>4 DEF Leaving
  <2>. QED
    BY <1>1, <1>2, <1>4, <1>5, <2>1, <2>2 DEF Sound, Moved
<1>. QED
  BY <1>1, <1>3, <1>7, <1>8, <1>9, LocalSound DEF Sound

\* A consumer takes the one message of its step.
LEMMA SoundTake ==
    ASSUME Types, Ids, \A s \in Steps : Sound(s), NEW a \in Consumers, NEW t \in Steps, Take(a, t)
    PROVE  \A s \in Steps : Sound(s)'
<1>. USE Consts
<1>1. a \in Agents /\ Sound(t) /\ ~On(a, t) /\ job[a].step = 0 /\ job[a].end = "none" /\ t # 0
  BY DEF Take, At, Types, Shape, Fits, FitsAt, On
<1>2. msgs[t] > 0 /\ msgs' = [msgs EXCEPT ![t] = msgs[t] - 1] /\ msgs[t] \in Nat
  BY DEF Take, Types, TypeOK
<1>3. UNCHANGED <<step, row, sent, cron, delivered, doubt, cut>>
  BY DEF Take, UnchangedHistory
<1>4. IF step[t] = "queued" THEN Becomes(a, "enrollment", t, 0, "none")
      ELSE Becomes(a, job[a].pc, job[a].step, job[a].id, job[a].end)
  BY ConsumerMoves
<1>5. /\ \A b \in Agents \ {a} : job'[b] = job[b] /\ (On(b, t)' <=> On(b, t))
      /\ On(a, t)' <=> step[t] = "queued"
      /\ On(a, t)' => job'[a].pc = "enrollment" /\ job'[a].end = "none"
      /\ job'[a].step \in {0, t}
  BY <1>1, <1>4 DEF Becomes, On
<1>6. msgs'[t] = msgs[t] - 1 /\ \A r \in Steps \ {t} : msgs'[r] = msgs[r]
  BY <1>2, Dom DEF Types
<1>7. Local(a, t)
  BY <1>1, <1>3, <1>5, <1>6 DEF Local
<1>8. RowsOf(t)' = RowsOf(t) /\ (Calm(t)' <=> Calm(t)) /\ (Unpublished(t)' <=> Unpublished(t))
  BY <1>3 DEF RowsOf, Calm, Unpublished
<1>9. Solo(t)'
  <2> SUFFICES ASSUME Calm(t) PROVE Solo(t)'
    BY <1>8 DEF Solo
  <2>1. msgs[t] = 1 /\ ~Unpublished(t) /\ (\A b \in Consumers : ~On(b, t)) /\ \A i, k \in RowsOf(t) : i = k
    BY <1>1, <1>2 DEF Sound, Solo, Fresh
  <2>2. msgs'[t] = 0 /\ \A b \in Consumers : On(b, t)' => b = a /\ job'[b].pc = "enrollment"
    BY <1>5, <1>6, <2>1
  <2>. QED
    BY <1>8, <2>1, <2>2 DEF Solo
<1>10. Told(t)'
  <2>1. \A b \in Agents : On(b, t) => b # a
    BY <1>1
  <2>2. ~step[t] = "sent" \/ job'[a].step # t
    BY <1>5 DEF On
  <2>. QED
    BY <1>1, <1>3, <1>5, <1>8, <2>1, <2>2 DEF Sound, Told, Knows, Leaving
<1>11. Moved(t)'
  <2>1. \A b \in Agents \ {a} : Working(b, t)' <=> Working(b, t)
    BY <1>5 DEF Working
  <2>2. Leaving(t)' <=> Leaving(t)
    BY <1>5 DEF Leaving
  <2>3. Working(a, t)' <=> step[t] = "queued"
    BY <1>5 DEF Working, Late
  <2>4. ~Working(a, t)
    BY <1>1 DEF Working
  <2>5. step[t] = "queued" => Working(a, t)'
    BY <2>3
  <2>. QED
    BY <1>1, <1>3, <1>5, <1>8, <2>1, <2>2, <2>3, <2>5 DEF Sound, Moved
<1>. QED
  BY <1>1, <1>7, <1>9, <1>10, <1>11, LocalSound DEF Sound

\* A consumer that gives its step up: nobody will take it, or the outbox has it.
LEMMA SoundDrop ==
    ASSUME Types, Ids, \A s \in Steps : Sound(s), NEW a \in Consumers, Drop(a) \/ HandOver(a)
    PROVE  \A s \in Steps : Sound(s)'
<1>. USE Consts
<1>0. job[a].pc \in {"drop", "hand over"}
  BY DEF Drop, HandOver, At
<1>t. PICK t \in Steps : job[a].step = t
  BY <1>0 DEF Types, Shape, Fits, FitsAt, Early
<1>. USE <1>t
<1>1. t \in Steps /\ a \in Agents /\ On(a, t) /\ job[a].end = "none" /\ job[a].pc \notin Late
  BY <1>0 DEF Types, Shape, Fits, FitsAt, Early, Late, On
<1>2. Sound(t)
  BY <1>1
<1>3. UNCHANGED <<row, sent, msgs, cron, delivered, doubt>>
  BY DEF Drop, HandOver, UnchangedHistory
<1>4. /\ Becomes(a, "idle", 0, 0, "none")
      /\ \A b \in Agents \ {a} : job'[b] = job[b] /\ (On(b, t)' <=> On(b, t))
      /\ ~On(a, t)'
  BY <1>1, ConsumerMoves DEF Becomes, On
<1>5. /\ step'[t] = (IF Drop(a) THEN "cancelled" ELSE "retrying")
      /\ \A r \in Steps \ {t} : step'[r] = step[r]
      /\ cut => cut'
      /\ ~Drop(a) => cut' \/ row[job[a].id].status = "pending"
  <2>1. CASE Drop(a)
    BY <1>1, <2>1, Dom DEF Drop, UnchangedHistory, Types
  <2>2. CASE HandOver(a) /\ ~Drop(a)
    BY <1>1, <2>2, Dom DEF HandOver, Types
  <2>. QED
    BY <2>1, <2>2
<1>6. Local(a, t)
  BY <1>1, <1>3, <1>4, <1>5 DEF Local, Becomes
<1>7. RowsOf(t)' = RowsOf(t) /\ (Calm(t)' => Calm(t))
  BY <1>3, <1>5 DEF RowsOf, Calm
<1>8. Solo(t)'
  <2> SUFFICES ASSUME Calm(t) PROVE Solo(t)'
    BY <1>7 DEF Solo
  <2>1. /\ ~Unpublished(t) /\ msgs[t] = 0
        /\ \A b \in Consumers : On(b, t) => b = a
        /\ \A k, l \in RowsOf(t) : k = l
    BY <1>1, <1>2, Alone
  <2>2. ~Unpublished(t)'
    BY <1>3, <1>5, <2>1 DEF Unpublished
  <2>. QED
    BY <1>3, <1>4, <1>7, <2>1, <2>2 DEF Solo
<1>9. Told(t)'
  <2>1. \A b \in Agents : On(b, t) /\ Knows(b) => b # a /\ Knows(b)'
    BY <1>1, <1>4 DEF Knows
  <2>2. ~\A b \in Agents : On(b, t) => job[b].pc \in Late \cup {"delete"}
    BY <1>0, <1>1 DEF Late
  <2>3. step'[t] # "sent"
    BY <1>5
  <2>. QED
    BY <1>2, <1>3, <1>4, <1>7, <2>1, <2>2, <2>3 DEF Sound, Told
<1>10. Moved(t)'
  <2> SUFFICES ASSUME ~cut' PROVE Moved(t)'
    BY DEF Moved
  <2>1. ~cut /\ Calm(t)
    BY <1>5 DEF Calm
  <2>2. \A b \in Consumers : ~Working(b, t)'
    BY <1>1, <1>2, <1>4, <2>1, Alone DEF Working
  <2>3. ~(Leaving(t)' /\ job'[Outbox].pc \in Late \cup {"delete"})
    BY <1>1, <1>2, <1>4, <2>1 DEF Sound, Moved, Leaving
  <2>4. step'[t] = "retrying" => \E i \in RowsOf(t)' : row'[i].status = "pending"
    <3>1. ASSUME ~Drop(a) PROVE \E i \in RowsOf(t) : row[i].status = "pending"
      <4>1. row[job[a].id].status = "pending" /\ At(a, "hand over")
        BY <1>5, <3>1 DEF HandOver
      <4>2. job[a].id \in Sends /\ job[a].id # 0
        BY <1>1, <4>1, Dom DEF Types, Shape, Fits, FitsAt, At
      <4>3. row[job[a].id].step = t
        BY <1>1, <4>1, <4>2 DEF Ids
      <4>. QED
        BY <4>1, <4>2, <4>3 DEF RowsOf
    <3>. QED
      BY <1>3, <1>5, <1>7, <3>1
  <2>5. step'[t] # "queued"
    BY <1>5
  <2>. QED
    BY <2>2, <2>3, <2>4, <2>5 DEF Moved
<1>. QED
  BY <1>1, <1>6, <1>8, <1>9, <1>10, LocalSound DEF Sound

\* A consumer decides: for the outbox, for a send, or for a failure.
LEMMA SoundRead ==
    ASSUME Types, Ids, \A s \in Steps : Sound(s), NEW a \in Consumers,
           ReadEnrollment(a) \/ Guard(a) \/ Repair(a) \/ Unsendable(a)
    PROVE  \A s \in Steps : Sound(s)'
<1>1. UNCHANGED <<step, row, msgs, cron, delivered, doubt, cut>>
  BY DEF ReadEnrollment, Guard, Repair, Unsendable, UnchangedHistory
<1>2. \A k \in Sends \ {job[a].id} : sent'[k] = sent[k]
  BY Dom DEF ReadEnrollment, Guard, Repair, Unsendable, Types
<1>3. job[a].pc \in Early
  BY DEF ReadEnrollment, Guard, Repair, Unsendable, At, Early
<1>4. CASE ReadEnrollment(a)
  <2>1. PICK p \in {"guard", "drop"} : Same(a, p, "none")
    BY <1>4, ConsumerMoves
  <2>2. p \in Early /\ p # "prepare"
    BY DEF Early
  <2>. QED
    BY <1>1, <1>2, <1>3, <2>1, <2>2, SoundEarly DEF Same
<1>5. CASE Guard(a)
  <2>1. CASE \E i \in RowsOf(job[a].step) : Becomes(a, "repair", job[a].step, i, "none")
    <3>1. PICK i : Becomes(a, "repair", job[a].step, i, "none")
      BY <2>1
    <3>2. "repair" \in Early
      BY DEF Early
    <3>. QED
      BY <1>1, <1>2, <1>3, <3>1, <3>2, SoundEarly
  <2>2. CASE RowsOf(job[a].step) = {} /\ Same(a, "prepare", "none")
    <3>1. "prepare" \in Early
      BY DEF Early
    <3>. QED
      BY <1>1, <1>2, <1>3, <2>2, <3>1, SoundEarly DEF Same
  <2>. QED
    BY <1>5, <2>1, <2>2, ConsumerMoves
<1>6. CASE Repair(a)
  <2>1. Same(a, "hand over", "none") /\ "hand over" \in Early
    BY <1>6, ConsumerMoves DEF Early
  <2>. QED
    BY <1>1, <1>2, <1>3, <2>1, SoundEarly DEF Same
<1>7. CASE Unsendable(a)
  <2>1. Same(a, "mark", "failed")
    BY <1>7, ConsumerMoves
  <2>. QED
    BY <1>1, <1>2, <1>3, <2>1, SoundEarly DEF Same
<1>. QED
  BY <1>4, <1>5, <1>6, <1>7

\* Who keeps a row has it among the rows of its step, and nobody else that knows
\* of a delivery has the same.
LEMMA Holds ==
    ASSUME Types, Ids, NEW a \in Agents, Keeps(a)
    PROVE  /\ job[a].id \in RowsOf(job[a].step) /\ row[job[a].id].status = "pending"
           /\ \A b \in Agents : Knows(b) /\ RowsOf(job[a].step) \subseteq {job[b].id} => b = a
<1>1. job[a].id \in Sends /\ job[a].id # 0
  BY KeepsOne, Consts
<1>2. row[job[a].id].status = "pending" /\ row[job[a].id].step = job[a].step
  BY <1>1 DEF Ids
<1>3. job[a].id \in RowsOf(job[a].step)
  BY <1>1, <1>2 DEF RowsOf
<1>4. ~Guest(a)
  BY DEF Types, Shape, Fits, FitsAt, Keeps, Guest, Late, Early
<1>5. ASSUME NEW b \in Agents, Knows(b), RowsOf(job[a].step) \subseteq {job[b].id} PROVE b = a
  <2>1. job[b].id = job[a].id /\ ~Guest(b)
    BY <1>3, <1>5 DEF Knows, Guest
  <2>. QED
    BY <1>1, <1>4, <2>1 DEF Ids
<1>. QED
  BY <1>2, <1>3, <1>5

\* While someone has yet to call the provider with its row, nothing was delivered.
LEMMA NotYet ==
    ASSUME Types, Ids, NEW t \in Steps, Sound(t), t \notin doubt,
           NEW a \in Agents, On(a, t), job[a].pc \in {"send", "try"}
    PROVE  /\ delivered[t] = 0 /\ step[t] # "sent"
           /\ \A b \in Agents : On(b, t) => job[b].end # "sent"
<1>1. ~\E b \in Agents : On(b, t) /\ Knows(b) /\ RowsOf(t) \subseteq {job[b].id}
  BY Holds DEF Keeps, Knows, On
<1>2. ~\A b \in Agents : On(b, t) => job[b].pc \in Late \cup {"delete"}
  BY DEF Late
<1>. QED
  BY <1>1, <1>2 DEF Sound, Told

\* A consumer writes its row ahead: no other row of the step is there, so nobody
\* else can know of a delivery.
LEMMA SoundWriteAhead ==
    ASSUME Types, Ids, \A s \in Steps : Sound(s), NEW a \in Consumers, WriteAhead(a)
    PROVE  \A s \in Steps : Sound(s)'
<1>. USE Consts
<1>0. job[a].pc = "prepare"
  BY DEF WriteAhead, At
<1>t. PICK t \in Steps : job[a].step = t
  BY <1>0 DEF Types, Shape, Fits, FitsAt, Early
<1>. USE <1>t
<1>1. a \in Agents /\ On(a, t) /\ job[a].end = "none" /\ job[a].pc \notin Late
  BY <1>0 DEF Types, Shape, Fits, FitsAt, Early, Late, On
<1>2. Sound(t)
  OBVIOUS
<1>3. UNCHANGED <<step, sent, msgs, cron, delivered, doubt, cut>>
  BY DEF WriteAhead, UnchangedHistory
<1>4. PICK i \in Sends :
         /\ Unused(i) /\ Becomes(a, "send", t, i, "none")
         /\ row' = [row EXCEPT ![i] = [status |-> "pending", step |-> t, attempts |-> 0]]
  BY ConsumerMoves
<1>5. /\ \A b \in Agents \ {a} : job'[b] = job[b]
      /\ \A b \in Agents : On(b, t)' <=> On(b, t)
      /\ job'[a].pc = "send" /\ job'[a].id = i /\ job'[a].end = "none"
  BY <1>1, <1>4 DEF Becomes, On
<1>6. /\ \A k \in Sends \ {i} : row'[k] = row[k]
      /\ row'[i].status = "pending" /\ row'[i].step = t /\ row[i].status = "none" /\ sent[i] = "none"
  BY <1>4, Dom DEF Types, Unused
<1>7. Local(a, t)
  BY <1>1, <1>3, <1>4, <1>5, <1>6 DEF Local, Becomes
<1>8. RowsOf(t)' = RowsOf(t) \cup {i} /\ (Calm(t)' <=> Calm(t)) /\ (Unpublished(t)' <=> Unpublished(t))
  BY <1>3, <1>6 DEF RowsOf, Calm, Unpublished
<1>9. Calm(t) => RowsOf(t) = {}
  BY <1>0, <1>1, <1>2 DEF Sound, Solo
<1>10. Solo(t)'
  <2> SUFFICES ASSUME Calm(t) PROVE Solo(t)'
    BY <1>8 DEF Solo
  <2>1. ~Unpublished(t) /\ msgs[t] = 0 /\ \A b \in Consumers : On(b, t) => b = a
    BY <1>1, <1>2, Alone
  <2>2. RowsOf(t)' = {i}
    BY <1>8, <1>9
  <2>. QED
    BY <1>3, <1>5, <1>6, <1>8, <2>1, <2>2 DEF Solo
<1>11. Told(t)'
  <2> SUFFICES ASSUME t \notin doubt PROVE Told(t)'
    BY <1>3 DEF Told
  <2>1. RowsOf(t) = {}
    BY <1>9 DEF Calm
  <2>2. ~Leaving(t)
    BY <2>1, Holds DEF Leaving, Keeps, On
  <2>3. ~\E b \in Agents : On(b, t) /\ Knows(b) /\ RowsOf(t) \subseteq {job[b].id}
    <3> SUFFICES ASSUME NEW b \in Agents, On(b, t), Knows(b) PROVE FALSE
      OBVIOUS
    <3>1. b # a
      BY <1>1 DEF Knows
    <3>2. b \notin Consumers
      BY <1>1, <1>2, <3>1, Alone DEF Calm
    <3>3. b # Outbox
      BY <2>2 DEF Leaving, Knows
    <3>4. b # User
      BY DEF Knows, Types, Shape, Fits, FitsAt
    <3>. QED
      BY <3>2, <3>3, <3>4 DEF Agents
  <2>4. ~\A b \in Agents : On(b, t) => job[b].pc \in Late \cup {"delete"}
    BY <1>0, <1>1 DEF Late
  <2>5. delivered[t] = 0 /\ step[t] # "sent" /\ \A b \in Agents : On(b, t) => job[b].end # "sent"
    BY <1>2, <2>3, <2>4 DEF Sound, Told
  <2>. QED
    BY <1>3, <1>5, <2>5 DEF Told
<1>12. Moved(t)'
  <2>1. \A b \in Agents : Working(b, t)' <=> Working(b, t)
    BY <1>1, <1>5 DEF Working, Late
  <2>2. Leaving(t)' <=> Leaving(t)
    BY <1>5 DEF Leaving
  <2>3. \A k \in RowsOf(t) : row'[k] = row[k]
    BY <1>6 DEF RowsOf
  <2>. QED
    BY <1>1, <1>2, <1>3, <1>5, <1>8, <2>1, <2>2, <2>3 DEF Sound, Moved
<1>. QED
  BY <1>1, <1>7, <1>10, <1>11, <1>12, LocalSound DEF Sound

\* The provider answers a consumer or the outbox.
LEMMA SoundAnswer ==
    ASSUME Types, Ids, \A s \in Steps : Sound(s), NEW a \in Agents, NEW p, NEW e \in Ends,
           \/ a \in Consumers /\ job[a].pc = "send" /\ p = "resolve"
           \/ a = Outbox /\ job[a].pc = "try" /\ p = "settle",
           Same(a, p, e), Delivering(a, e),
           UNCHANGED <<step, row, sent, msgs, cron, doubt, cut>>
    PROVE  \A s \in Steps : Sound(s)'
<1>. USE Consts
<1>t. PICK t \in Steps : job[a].step = t
  BY DEF Types, Shape, Fits, FitsAt, Early
<1>. USE <1>t
<1>1. On(a, t) /\ job[a].pc \notin Late /\ Keeps(a) /\ Sound(t) /\ job[a].pc \in {"send", "try"}
  BY DEF On, Late, Keeps
<1>2. /\ \A b \in Agents \ {a} : job'[b] = job[b]
      /\ \A b \in Agents : On(b, t)' <=> On(b, t)
      /\ job'[a].pc = p /\ job'[a].id = job[a].id /\ job'[a].end = e /\ job'[a].step = t
  BY <1>1 DEF Same, Becomes, On
<1>3. /\ \A s \in Steps \ {t} : delivered'[s] = delivered[s]
      /\ delivered'[t] = IF e = "sent" THEN delivered[t] + 1 ELSE delivered[t]
  BY Dom DEF Delivering, Types
<1>4. Local(a, t)
  BY <1>2, <1>3 DEF Local
<1>5. RowsOf(t)' = RowsOf(t) /\ (Calm(t)' <=> Calm(t)) /\ (Unpublished(t)' <=> Unpublished(t))
  BY DEF RowsOf, Calm, Unpublished
<1>6. Solo(t)'
  <2> SUFFICES ASSUME Calm(t) PROVE Solo(t)'
    BY <1>5 DEF Solo
  <2>1. ~Unpublished(t)
    BY <1>1 DEF Sound, Solo, Fresh
  <2>2. \A b \in Consumers : job'[b] = job[b] \/ (b = a /\ job[b].pc = "send" /\ job'[b].pc = "resolve")
    BY <1>2
  <2>. QED
    BY <1>1, <1>2, <1>5, <2>1, <2>2 DEF Sound, Solo
<1>7. Told(t)'
  <2> SUFFICES ASSUME t \notin doubt PROVE Told(t)'
    BY DEF Told
  <2>1. /\ delivered[t] = 0 /\ step[t] # "sent"
        /\ \A b \in Agents : On(b, t) => job[b].end # "sent"
    BY <1>1, NotYet
  <2>2. RowsOf(t) \subseteq {job[a].id}
    BY <1>1, Holds DEF Calm, Sound, Solo
  <2>3. CASE e = "sent"
    <3>1. delivered'[t] = 1
      BY <1>3, <2>1, <2>3
    <3>2. On(a, t)' /\ Knows(a)' /\ RowsOf(t)' \subseteq {job'[a].id}
      BY <1>1, <1>2, <1>5, <2>2, <2>3 DEF Knows
    <3>. QED
      BY <3>1, <3>2 DEF Told
  <2>4. CASE e # "sent"
    BY <1>2, <1>3, <2>1, <2>4 DEF Told
  <2>. QED
    BY <2>3, <2>4
<1>8. Moved(t)'
  <2>1. \A b \in Agents : Working(b, t)' <=> Working(b, t)
    BY <1>1, <1>2 DEF Working, Late
  <2>2. a # Outbox => (Leaving(t)' <=> Leaving(t)) /\ job'[Outbox] = job[Outbox]
    BY <1>2 DEF Leaving
  <2>3. a = Outbox => job'[Outbox].pc = "settle" /\ job[Outbox].pc = "try"
    BY <1>2
  <2>4. a # User
    BY DEF Types
  <2>. QED
    BY <1>1, <1>2, <1>5, <2>1, <2>2, <2>3, <2>4 DEF Sound, Moved, Late
<1>. QED
  BY <1>4, <1>6, <1>7, <1>8, LocalSound DEF Sound

\* A throw before the provider was called.
LEMMA SoundThrow ==
    ASSUME Types, Ids, \A s \in Steps : Sound(s), NEW a \in Consumers, Throw(a)
    PROVE  \A s \in Steps : Sound(s)'
<1>. USE Consts
<1>0. job[a].pc = "send"
  BY DEF Throw, At
<1>t. PICK t \in Steps : job[a].step = t
  BY <1>0 DEF Types, Shape, Fits, FitsAt, Early
<1>. USE <1>t
<1>1. a \in Agents /\ On(a, t) /\ job[a].pc \notin Late /\ Keeps(a) /\ Sound(t)
  BY <1>0 DEF On, Late, Keeps
<1>2. UNCHANGED <<step, sent, cron, delivered, doubt, cut>>
  BY DEF Throw
<1>3. /\ Becomes(a, "idle", 0, 0, "none")
      /\ \A b \in Agents \ {a} : job'[b] = job[b] /\ (On(b, t)' <=> On(b, t))
      /\ ~On(a, t)'
  BY <1>1, ConsumerMoves DEF Becomes, On
<1>4. /\ \A s \in Steps \ {t} : msgs'[s] = msgs[s]
      /\ msgs'[t] = msgs[t] + 1 /\ msgs[t] \in Nat
  BY Dom DEF Throw, Redelivered, Types, TypeOK
<1>5. job[a].id \in RowsOf(t) /\ job[a].id \in Sends
  BY <1>1, Holds DEF RowsOf
<1>6. \A i \in Sends : row'[i] = row[i] \/ (i = job[a].id /\ row'[i].status = "none")
  BY Dom DEF Throw, Types, NoRow
<1>7. RowsOf(t)' \subseteq RowsOf(t) /\ (Calm(t)' <=> Calm(t)) /\ (Unpublished(t)' <=> Unpublished(t))
  BY <1>2, <1>6 DEF RowsOf, Calm, Unpublished
<1>8. Local(a, t)
  BY <1>2, <1>3, <1>4, <1>5, <1>6 DEF Local, Becomes, RowsOf
<1>9. Solo(t)'
  <2> SUFFICES ASSUME Calm(t) PROVE Solo(t)'
    BY <1>7 DEF Solo
  <2>1. /\ ~Unpublished(t) /\ msgs[t] = 0
        /\ \A b \in Consumers : On(b, t) => b = a
        /\ \A k, l \in RowsOf(t) : k = l
    BY <1>1, Alone
  <2>. QED
    BY <1>3, <1>4, <1>7, <2>1 DEF Solo
<1>10. Told(t)'
  BY <1>1, <1>0, <1>2, <1>3, NotYet DEF Told
<1>11. Moved(t)'
  <2> SUFFICES ASSUME ~cut PROVE Moved(t)'
    BY <1>2 DEF Moved
  <2>1. step[t] \in {"queued", "cancelled"}
    BY <1>1 DEF Sound, Moved, Working
  <2>2. \A b \in Consumers : ~Working(b, t)'
    BY <1>1, <1>3, Alone DEF Working, Calm
  <2>3. ~(Leaving(t)' /\ job'[Outbox].pc \in Late \cup {"delete"})
    BY <1>1, <1>3 DEF Sound, Moved, Leaving
  <2>4. msgs'[t] > 0
    BY <1>4
  <2>. QED
    BY <1>2, <2>1, <2>2, <2>3, <2>4 DEF Moved
<1>. QED
  BY <1>1, <1>8, <1>9, <1>10, <1>11, LocalSound DEF Sound

\* A consumer records the provider's answer in its row.
LEMMA SoundResolve ==
    ASSUME Types, Ids, \A s \in Steps : Sound(s), NEW a \in Consumers, Resolve(a)
    PROVE  \A s \in Steps : Sound(s)'
<1>. USE Consts
<1>0. job[a].pc = "resolve"
  BY DEF Resolve, At
<1>t. PICK t \in Steps : job[a].step = t
  BY <1>0 DEF Types, Shape, Fits, FitsAt, Early
<1>. USE <1>t
<1>1. /\ a \in Agents /\ On(a, t) /\ job[a].pc \notin Late /\ Keeps(a) /\ Sound(t)
      /\ job[a].end \in Ends
  BY <1>0 DEF On, Late, Keeps, Types, Shape, Fits, FitsAt
<1>2. UNCHANGED <<step, sent, msgs, cron, delivered, doubt, cut>>
  BY DEF Resolve, UnchangedHistory
<1>p. PICK p \in {"mark", "insert"} : p = IF job[a].end = "suppressed" THEN "mark" ELSE "insert"
  OBVIOUS
<1>3. /\ \A b \in Agents \ {a} : job'[b] = job[b]
      /\ \A b \in Agents : On(b, t)' <=> On(b, t)
      /\ job'[a].pc = p /\ job'[a].id = job[a].id /\ job'[a].end = job[a].end /\ job'[a].step = t
  <2>1. Becomes(a, p, t, job[a].id, job[a].end)
    BY <1>p, ConsumerMoves DEF Same
  <2>. QED
    BY <1>1, <2>1 DEF Becomes, On
<1>5. job[a].id \in RowsOf(t) /\ job[a].id \in Sends /\ row[job[a].id].step = t
  BY <1>1, Holds DEF RowsOf
<1>6. /\ \A i \in Sends \ {job[a].id} : row'[i] = row[i]
      /\ row'[job[a].id].status # "none" => row'[job[a].id].step = t
      /\ job[a].end = "sent" => row'[job[a].id].status = "none"
  <2>1. row' = [row EXCEPT ![job[a].id] = Resolved(a)]
    BY DEF Resolve
  <2>2. /\ Resolved(a).status # "none" => Resolved(a).step = t
        /\ job[a].end = "sent" => Resolved(a).status = "none"
    <3>1. row[job[a].id] \in RowType
      BY <1>5, Dom DEF Types
    <3>. QED
      BY <1>1, <1>5, <3>1 DEF Resolved, NoRow, RowType, Ends
  <2>. QED
    BY <1>5, <2>1, <2>2, Dom DEF Types
<1>7. RowsOf(t)' \subseteq RowsOf(t) /\ (Calm(t)' <=> Calm(t)) /\ (Unpublished(t)' <=> Unpublished(t))
  BY <1>2, <1>5, <1>6 DEF RowsOf, Calm, Unpublished
<1>8. Local(a, t)
  BY <1>2, <1>3, <1>5, <1>6 DEF Local
<1>9. Calm(t) /\ job[a].end = "sent" => RowsOf(t)' = {}
  <2>1. Calm(t) => RowsOf(t) \subseteq {job[a].id}
    BY <1>1, <1>5, Alone
  <2>2. job[a].end = "sent" => job[a].id \notin RowsOf(t)'
    BY <1>6 DEF RowsOf
  <2>. QED
    BY <1>7, <2>1, <2>2
<1>10. Solo(t)'
  <2> SUFFICES ASSUME Calm(t) PROVE Solo(t)'
    BY <1>7 DEF Solo
  <2>1. /\ ~Unpublished(t) /\ msgs[t] = 0
        /\ \A b \in Consumers : On(b, t) => b = a
        /\ \A k, l \in RowsOf(t) : k = l
    BY <1>1, Alone
  <2>2. sent'[job'[a].id] = "none"
    BY <1>0, <1>1, <1>2, <1>3 DEF Sound, Solo
  <2>. QED
    BY <1>2, <1>3, <1>7, <1>9, <2>1, <2>2 DEF Solo
<1>11. Told(t)'
  <2> SUFFICES ASSUME t \notin doubt PROVE Told(t)'
    BY <1>2 DEF Told
  <2>1. ~\A b \in Agents : On(b, t) => job[b].pc \in Late \cup {"delete"}
    BY <1>0, <1>1 DEF Late
  <2>2. delivered[t] = 1 => Knows(a)
    <3>1. delivered[t] = 1 => \E b \in Agents : On(b, t) /\ Knows(b) /\ RowsOf(t) \subseteq {job[b].id}
      BY <1>1, <2>1 DEF Sound, Told
    <3>. QED
      BY <1>1, <3>1, Holds
  <2>3. Knows(a) => Knows(a)' /\ RowsOf(t)' = {}
    BY <1>3, <1>9, <1>p DEF Knows, Calm
  <2>4. \A b \in Agents : job'[b].end = job[b].end
    BY <1>3
  <2>5. delivered[t] = 1 => \E b \in Agents : On(b, t)' /\ Knows(b)' /\ RowsOf(t)' \subseteq {job'[b].id}
    BY <1>1, <1>3, <2>2, <2>3
  <2>. QED
    BY <1>1, <1>2, <1>3, <2>4, <2>5 DEF Sound, Told
<1>12. Moved(t)'
  <2> SUFFICES ASSUME ~cut PROVE Moved(t)'
    BY <1>2 DEF Moved
  <2>1. step[t] \in {"queued", "cancelled"}
    BY <1>1 DEF Sound, Moved, Working
  <2>2. ~(Leaving(t)' /\ job'[Outbox].pc \in Late \cup {"delete"})
    BY <1>1, <1>3 DEF Sound, Moved, Leaving
  <2>3. Working(a, t)'
    BY <1>1, <1>3 DEF Working, Late
  <2>. QED
    BY <1>2, <2>1, <2>2, <2>3 DEF Moved
<1>. QED
  BY <1>1, <1>8, <1>10, <1>11, <1>12, LocalSound DEF Sound

\* A consumer records the answer for the reader; it finds a repaired row only when
\* the message was doubled.
LEMMA SoundInsert ==
    ASSUME Types, Ids, \A s \in Steps : Sound(s), NEW a \in Consumers, Insert(a)
    PROVE  \A s \in Steps : Sound(s)'
<1>. USE Consts
<1>0. job[a].pc = "insert"
  BY DEF Insert, At
<1>t. PICK t \in Steps : job[a].step = t
  BY <1>0 DEF Types, Shape, Fits, FitsAt, Early
<1>. USE <1>t
<1>1. /\ a \in Agents /\ On(a, t) /\ job[a].pc \notin Late /\ Sound(t)
      /\ job[a].id \in Sends /\ job[a].id # 0
  BY <1>0, Dom DEF On, Late, Types, Shape, Fits, FitsAt
<1>2. UNCHANGED <<step, row, cron, delivered, doubt, cut>>
  BY DEF Insert, UnchangedHistory
<1>3. RowsOf(t)' = RowsOf(t) /\ (Calm(t)' <=> Calm(t)) /\ (Unpublished(t)' <=> Unpublished(t))
  BY <1>2 DEF RowsOf, Calm, Unpublished
<1>4. CASE sent[job[a].id] # "none"
  <2>1. ~Calm(t)
    BY <1>0, <1>1, <1>4 DEF Sound, Solo
  <2>2. Sound(t)'
    BY <1>2, <1>3, <2>1 DEF Calm, Sound, Solo, Told, Moved
  <2>3. Becomes(a, "idle", 0, 0, "none")
    BY <1>4, ConsumerMoves
  <2>4. sent' = sent /\ \A s \in Steps \ {t} : msgs'[s] = msgs[s]
    BY <1>4, Dom DEF Insert, Redelivered, Types
  <2>5. Local(a, t)
    BY <1>2, <2>3, <2>4 DEF Local, Becomes
  <2>. QED
    BY <1>1, <2>2, <2>5, LocalSound
<1>5. CASE sent[job[a].id] = "none"
  <2>1. /\ \A b \in Agents \ {a} : job'[b] = job[b]
        /\ \A b \in Agents : On(b, t)' <=> On(b, t)
        /\ job'[a].pc = "mark" /\ job'[a].id = job[a].id /\ job'[a].end = job[a].end /\ job'[a].step = t
    <3>1. Becomes(a, "mark", t, job[a].id, job[a].end)
      BY <1>5, ConsumerMoves DEF Same
    <3>. QED
      BY <1>1, <3>1 DEF Becomes, On
  <2>2. msgs' = msgs /\ \A i \in Sends \ {job[a].id} : sent'[i] = sent[i]
    BY <1>5, Dom DEF Insert, Types
  <2>3. Local(a, t)
    BY <1>1, <1>2, <2>1, <2>2 DEF Local
  <2>4. Solo(t)'
    <3> SUFFICES ASSUME Calm(t) PROVE Solo(t)'
      BY <1>3 DEF Solo
    <3>1. /\ ~Unpublished(t) /\ msgs[t] = 0
          /\ \A b \in Consumers : On(b, t) => b = a
          /\ \A k, l \in RowsOf(t) : k = l
      BY <1>1, Alone
    <3>2. job[a].end = "sent" => RowsOf(t) = {}
      BY <1>0, <1>1 DEF Sound, Solo
    <3>. QED
      BY <1>2, <1>3, <2>1, <2>2, <3>1, <3>2 DEF Solo
  <2>5. Told(t)'
    <3>1. \A b \in Agents : job'[b].end = job[b].end /\ job'[b].id = job[b].id /\ (Knows(b) => Knows(b)')
      BY <2>1 DEF Knows
    <3>2. ~\A b \in Agents : On(b, t) => job[b].pc \in Late \cup {"delete"}
      BY <1>0, <1>1 DEF Late
    <3>. QED
      BY <1>1, <1>2, <1>3, <2>1, <3>1, <3>2 DEF Sound, Told
  <2>6. Moved(t)'
    <3>1. \A b \in Agents : Working(b, t)' <=> Working(b, t)
      BY <1>1, <2>1 DEF Working, Late
    <3>2. Leaving(t)' <=> Leaving(t)
      BY <2>1 DEF Leaving
    <3>. QED
      BY <1>1, <1>2, <1>3, <2>1, <2>2, <3>1, <3>2 DEF Sound, Moved
  <2>. QED
    BY <1>1, <2>3, <2>4, <2>5, <2>6, LocalSound DEF Sound
<1>. QED
  BY <1>4, <1>5

\* A step is marked with its end, alone or in doubt.
LEMMA SoundMark ==
    ASSUME Types, Ids, \A s \in Steps : Sound(s), NEW a \in Agents, Mark(a)
    PROVE  \A s \in Steps : Sound(s)'
<1>. USE Consts
<1>0. job[a].pc = "mark"
  BY DEF Mark, At
<1>t. PICK t \in Steps : job[a].step = t
  BY <1>0 DEF Types, Shape, Fits, FitsAt
<1>. USE <1>t
<1>1. /\ On(a, t) /\ job[a].pc \notin Late \cup {"delete"} /\ Sound(t) /\ job[a].end \in Ends
      /\ a = User => job[a].end = "failed"
  BY <1>0 DEF On, Late, Types, Shape, Fits, FitsAt, Ends
<1>2. UNCHANGED <<row, sent, msgs, cron, delivered>>
  BY DEF Mark
<1>3. /\ \A b \in Agents \ {a} : job'[b] = job[b] /\ (On(b, t)' <=> On(b, t))
      /\ IF job[a].end = "retrying" THEN ~On(a, t)' /\ job'[a].step = 0
         ELSE /\ job'[a].pc = "check" /\ job'[a].id = job[a].id /\ job'[a].end = job[a].end
              /\ job'[a].step = t
  BY <1>1, AgentMoves DEF Same, Becomes, On
<1>4. /\ \A s \in Steps \ {t} : step'[s] = step[s]
      /\ step'[t] = job[a].end
  BY Dom DEF Mark, Marked, Types
<1>5. /\ doubt \subseteq doubt' /\ (cut => cut')
      /\ Crossed(a) => t \in doubt' /\ cut'
  BY DEF Mark
<1>6. Local(a, t)
  BY <1>2, <1>3, <1>4, <1>5 DEF Local
<1>7. RowsOf(t)' = RowsOf(t)
  BY <1>2 DEF RowsOf
<1>8. CASE Crossed(a)
  <2>1. Sound(t)'
    BY <1>5, <1>8 DEF Sound, Solo, Told, Moved, Calm
  <2>. QED
    BY <1>6, <2>1, LocalSound
<1>9. CASE ~Crossed(a)
  <2>1. \A b \in Agents \ {a} : On(b, t) => job[b].pc \in Late \cup {"delete"}
    BY <1>9 DEF Crossed, On, Late
  <2>2. Calm(t)' => Calm(t)
    BY <1>5 DEF Calm
  <2>3. Solo(t)'
    <3> SUFFICES ASSUME Calm(t) PROVE Solo(t)'
      BY <2>2 DEF Solo
    <3>1. ~Unpublished(t)'
      <4>1. ~Unpublished(t)
        BY <1>1 DEF Sound, Solo, Fresh
      <4>. QED
        BY <1>1, <1>2, <1>4, <4>1 DEF Unpublished, Ends
    <3>2. \A b \in Consumers : On(b, t)' => On(b, t)
      BY <1>1, <1>3
    <3>3. \A b \in Consumers : On(b, t)' =>
             job'[b] = job[b] \/ (job'[b].pc = "check" /\ job'[b].id = job[b].id /\ job'[b].end = job[b].end)
      BY <1>3
    <3>. QED
      BY <1>1, <1>2, <1>7, <3>1, <3>2, <3>3 DEF Sound, Solo
  <2>4. Told(t)'
    <3> SUFFICES ASSUME t \notin doubt PROVE Told(t)'
      BY <1>5 DEF Told
    <3>1. \A b \in Agents : On(b, t) /\ Knows(b) => b = a
      BY <2>1 DEF Knows, Late
    <3>2. CASE job[a].end = "sent"
      <4>1. delivered[t] = 1
        BY <1>1, <3>2 DEF Sound, Told
      <4>2. RowsOf(t) \subseteq {job[a].id}
        BY <1>1, <3>1, <4>1 DEF Sound, Told
      <4>3. \A i \in RowsOf(t) : Leaving(t)' /\ job'[Outbox].id = i
        <5>1. CASE a = Outbox
          BY <1>3, <3>2, <4>2, <5>1 DEF Leaving, On
        <5>2. CASE a \in Consumers
          BY <1>0, <1>1, <3>2, <5>2 DEF Sound, Solo, Calm
        <5>. QED
          BY <1>1, <3>2, <5>1, <5>2 DEF Agents
      <4>4. \A b \in Agents : On(b, t)' => job'[b].pc \in Late \cup {"delete"}
        BY <1>3, <2>1, <3>2 DEF Late
      <4>. QED
        BY <1>2, <1>4, <1>7, <3>2, <4>1, <4>3, <4>4 DEF Told
    <3>3. CASE job[a].end # "sent"
      <4>1. /\ delivered[t] = 0
            /\ \A b \in Agents : On(b, t) => job[b].end # "sent"
        BY <1>1, <3>1, <3>3 DEF Sound, Told, Knows
      <4>2. \A b \in Agents : On(b, t)' => job'[b].end # "sent"
        BY <1>3, <3>3, <4>1
      <4>. QED
        BY <1>2, <1>4, <3>3, <4>1, <4>2 DEF Told
    <3>. QED
      BY <3>2, <3>3
  <2>5. Moved(t)'
    <3> SUFFICES ASSUME ~cut PROVE Moved(t)'
      BY <1>5 DEF Moved
    <3>1. \A c \in Consumers : ~Working(c, t)'
      <4> SUFFICES ASSUME NEW c \in Consumers, On(c, t)' PROVE job'[c].pc \in Late
        BY DEF Working
      <4>1. CASE c = a
        BY <1>3, <4>1 DEF Late
      <4>2. CASE c # a
        BY <1>3, <2>1, <4>2 DEF Types, Shape, Fits, FitsAt, Early, Late
      <4>. QED
        BY <4>1, <4>2
    <3>2. Leaving(t)' /\ job'[Outbox].pc \in Late \cup {"delete"} =>
            /\ step'[t] = "sent"
            /\ \A b \in Agents \ {Outbox} : On(b, t)' => job'[b].pc \in Late
      <4>1. CASE a = Outbox
        <5>1. Leaving(t)' => job[a].end = "sent"
          BY <1>3, <4>1 DEF Leaving
        <5>2. ASSUME NEW b \in Agents \ {Outbox}, On(b, t)' PROVE job'[b].pc \in Late
          <6>1. job'[b] = job[b] /\ job[b].pc \in Late \cup {"delete"}
            BY <1>3, <2>1, <4>1, <5>2
          <6>. QED
            BY <6>1 DEF Types, Shape, Fits, FitsAt, Agents, Early, Late
        <5>. QED
          BY <1>4, <5>1, <5>2
      <4>2. CASE a # Outbox
        BY <1>1, <1>3, <4>2 DEF Sound, Moved, Leaving
      <4>. QED
        BY <4>1, <4>2
    <3>3. step'[t] = "retrying" => \E i \in RowsOf(t) : row[i].status = "pending"
      <4>1. job[a].end = "retrying" => Keeps(a)
        BY <1>0 DEF Keeps
      <4>. QED
        BY <1>4, <4>1, Holds
    <3>4. step'[t] # "queued"
      BY <1>1, <1>4 DEF Ends
    <3>. QED
      BY <1>2, <1>7, <3>1, <3>2, <3>3, <3>4 DEF Moved
  <2>. QED
    BY <1>6, <2>3, <2>4, <2>5, LocalSound DEF Sound
<1>. QED
  BY <1>8, <1>9

\* The look at the enrollment changes nothing of a step.
LEMMA SoundLate ==
    ASSUME Types, Ids, \A s \in Steps : Sound(s), NEW a \in Agents, Check(a) \/ Complete(a)
    PROVE  \A s \in Steps : Sound(s)'
<1>. USE Consts
<1>0. job[a].pc \in Late
  BY DEF Check, Complete, At, Late
<1>t. PICK t \in Steps : job[a].step = t
  BY <1>0 DEF Types, Shape, Fits, FitsAt, Late
<1>. USE <1>t
<1>1. On(a, t) /\ Sound(t)
  BY DEF On
<1>2. UNCHANGED <<step, row, sent, msgs, cron, delivered, doubt, cut>>
  BY DEF Check, Complete, UnchangedHistory
<1>3. /\ \A b \in Agents \ {a} : job'[b] = job[b] /\ (On(b, t)' <=> On(b, t))
      /\ \/ ~On(a, t)' /\ job'[a].step = 0 /\ ~(a = Outbox /\ job[a].end = "sent")
         \/ /\ job'[a].pc = "complete" \/ (a = Outbox /\ job'[a].pc = "delete")
            /\ job'[a].id = job[a].id /\ job'[a].end = job[a].end /\ job'[a].step = t
  BY <1>1, AgentMoves DEF Same, Becomes, On
<1>4. Local(a, t)
  BY <1>2, <1>3 DEF Local
<1>5. RowsOf(t)' = RowsOf(t) /\ (Calm(t)' <=> Calm(t)) /\ (Unpublished(t)' <=> Unpublished(t))
  BY <1>2 DEF RowsOf, Calm, Unpublished
<1>6. Solo(t)'
  <2>1. \A b \in Agents : On(b, t)' => On(b, t)
    BY <1>1, <1>3
  <2>2. Fresh(t) => Fresh(t)'
    BY <1>2, <1>5, <2>1 DEF Fresh
  <2>3. \A b \in Consumers : On(b, t)' => job'[b] = job[b] \/ job'[b].pc = "complete"
    BY <1>3
  <2>. QED
    BY <1>1, <1>2, <1>5, <2>1, <2>2, <2>3 DEF Sound, Solo
<1>7. Leaving(t)' <=> Leaving(t)
  BY <1>1, <1>3 DEF Leaving, On
<1>8. Told(t)'
  <2>1. \A b \in Agents : On(b, t)' => On(b, t) /\ job'[b].end = job[b].end /\ job'[b].id = job[b].id
    BY <1>1, <1>3
  <2>2. \A b \in Agents : Knows(b) => b # a /\ Knows(b)' /\ job'[b] = job[b]
    BY <1>0, <1>3 DEF Knows, Late
  <2>3. \A b \in Agents : On(b, t)' => job'[b] = job[b] \/ job'[b].pc \in Late \cup {"delete"}
    BY <1>3 DEF Late
  <2>4. Leaving(t) => job'[Outbox].id = job[Outbox].id
    BY <1>3 DEF Leaving
  <2>. QED
    BY <1>1, <1>2, <1>3, <1>5, <1>7, <2>1, <2>2, <2>3, <2>4 DEF Sound, Told
<1>9. Moved(t)'
  <2> SUFFICES ASSUME ~cut PROVE Moved(t)'
    BY <1>2 DEF Moved
  <2>1. \A c \in Consumers : Working(c, t)' <=> Working(c, t)
    BY <1>0, <1>3 DEF Working, Late
  <2>2. Leaving(t)' /\ job'[Outbox].pc \in Late \cup {"delete"} =>
          /\ step[t] = "sent"
          /\ \A b \in Agents \ {Outbox} : On(b, t)' => job'[b].pc \in Late
    <3> SUFFICES ASSUME Leaving(t), job'[Outbox].pc \in Late \cup {"delete"}
                 PROVE  /\ step[t] = "sent"
                        /\ \A b \in Agents \ {Outbox} : On(b, t)' => job'[b].pc \in Late
      BY <1>7
    <3>1. job[Outbox].pc \in Late \cup {"delete"}
      BY <1>0, <1>3
    <3>2. step[t] = "sent" /\ \A b \in Agents \ {Outbox} : On(b, t) => job[b].pc \in Late
      BY <1>1, <3>1 DEF Sound, Moved
    <3>. QED
      BY <1>1, <1>3, <3>2 DEF Late
  <2>3. /\ job[Outbox].pc = "mark" => job'[Outbox] = job[Outbox]
        /\ job[User].pc = "mark" => job'[User] = job[User]
    BY <1>0, <1>3 DEF Late
  <2>. QED
    BY <1>1, <1>2, <1>3, <1>5, <2>1, <2>2, <2>3 DEF Sound, Moved, On
<1>. QED
  BY <1>4, <1>6, <1>8, <1>9, LocalSound DEF Sound

\* A handler dies: its message is back or its row due again, but for what it knew.
LEMMA SoundDie ==
    ASSUME Types, Ids, \A s \in Steps : Sound(s), NEW a \in Agents, Die(a)
    PROVE  \A s \in Steps : Sound(s)'
<1>. USE Consts
<1>0. job[a].pc # "idle"
  BY DEF Die, At
<1>t. PICK t \in Steps : job[a].step = t
  BY <1>0, Works DEF At
<1>. USE <1>t
<1>1. On(a, t) /\ Sound(t)
  BY DEF On
<1>2. UNCHANGED <<step, row, sent, cron, delivered>>
  BY DEF Die
<1>3. /\ Becomes(a, "idle", 0, 0, "none")
      /\ \A b \in Agents \ {a} : job'[b] = job[b] /\ (On(b, t)' <=> On(b, t))
      /\ ~On(a, t)'
  BY <1>1, AgentMoves DEF Becomes, On
<1>4. /\ \A s \in Steps \ {t} : msgs'[s] = msgs[s]
      /\ msgs'[t] = IF a \in Consumers THEN msgs[t] + 1 ELSE msgs[t]
      /\ msgs[t] \in Nat
  BY Dom DEF Die, Redelivered, Types, TypeOK
<1>5. /\ doubt \subseteq doubt' /\ (cut => cut')
      /\ t \notin doubt' => job[a].end # "sent"
      /\ ~cut' => job[a].pc \notin Late /\ job[a].end \notin {"failed", "suppressed"}
  BY DEF Die, Late, At
<1>6. Local(a, t)
  BY <1>2, <1>3, <1>4, <1>5 DEF Local, Becomes
<1>7. RowsOf(t)' = RowsOf(t) /\ (Calm(t)' => Calm(t)) /\ (Unpublished(t)' <=> Unpublished(t))
  BY <1>2, <1>5 DEF RowsOf, Calm, Unpublished
<1>8. Solo(t)'
  <2> SUFFICES ASSUME Calm(t) PROVE Solo(t)'
    BY <1>7 DEF Solo
  <2>1. ~Unpublished(t)
    BY <1>1 DEF Sound, Solo, Fresh
  <2>2. a \in Consumers => msgs[t] = 0 /\ \A b \in Consumers : ~On(b, t)'
    BY <1>1, <1>3, Alone
  <2>3. msgs'[t] = 0 \/ msgs'[t] = 1
    BY <1>1, <1>4, <2>2 DEF Sound, Solo
  <2>. QED
    BY <1>1, <1>2, <1>3, <1>4, <1>7, <2>1, <2>2, <2>3 DEF Sound, Solo
<1>9. Told(t)'
  <2> SUFFICES ASSUME t \notin doubt' PROVE Told(t)'
    BY DEF Told
  <2>1. t \notin doubt /\ job[a].end # "sent"
    BY <1>5
  <2>2. \A b \in Agents : Knows(b) => b # a /\ Knows(b)' /\ job'[b] = job[b]
    BY <1>3, <2>1 DEF Knows
  <2>3. Leaving(t) => Leaving(t)' /\ job'[Outbox] = job[Outbox]
    BY <1>3, <2>1 DEF Leaving
  <2>. QED
    BY <1>1, <1>2, <1>3, <1>7, <2>1, <2>2, <2>3 DEF Sound, Told
<1>10. Moved(t)'
  <2> SUFFICES ASSUME ~cut' PROVE Moved(t)'
    BY DEF Moved
  <2>1. ~cut /\ job[a].pc \notin Late /\ job[a].end \notin {"failed", "suppressed"}
    BY <1>5
  <2>2. \A c \in Consumers : Working(c, t)' <=> Working(c, t) /\ c # a
    BY <1>3 DEF Working
  <2>3. Leaving(t)' => Leaving(t) /\ job'[Outbox] = job[Outbox]
    BY <1>3 DEF Leaving
  <2>4. /\ On(Outbox, t) /\ job[Outbox].end \in {"failed", "suppressed"} =>
             On(Outbox, t)' /\ job'[Outbox] = job[Outbox]
        /\ On(User, t) /\ job[User].pc = "mark" => On(User, t)' /\ job'[User] = job[User]
    BY <1>3, <2>1 DEF Types, Shape, Fits, FitsAt, Ends
  <2>5. Working(a, t) /\ a \in Consumers => msgs'[t] > 0
    BY <1>4
  <2>. QED
    BY <1>1, <1>2, <1>3, <1>4, <1>7, <2>1, <2>2, <2>3, <2>4, <2>5 DEF Sound, Moved
<1>. QED
  BY <1>6, <1>8, <1>9, <1>10, LocalSound DEF Sound

\* The outbox takes a row: whoever kept it would hold it still, so nothing was
\* delivered with it.
LEMMA SoundClaim ==
    ASSUME Types, Ids, \A s \in Steps : Sound(s), NEW i \in Sends, Claim(i)
    PROVE  \A s \in Steps : Sound(s)'
<1>. USE Consts
<1>0. job[Outbox].pc = "idle" /\ row[i].status = "pending" /\ \A b \in Agents : job[b].id = i => Guest(b)
  BY DEF Claim, At, Due, Guest
<1>t. PICK t \in Steps : row[i].step = t
  BY <1>0 DEF Types, Shape
<1>. USE <1>t
<1>1. Sound(t) /\ i \in RowsOf(t) /\ ~On(Outbox, t) /\ job[Outbox].step = 0
  BY <1>0 DEF RowsOf, On, Types, Shape, Fits, FitsAt
<1>2. UNCHANGED <<step, sent, msgs, cron, delivered, doubt, cut>>
  BY DEF Claim, UnchangedHistory
<1>3. /\ \A b \in Agents \ {Outbox} : job'[b] = job[b] /\ (On(b, t)' <=> On(b, t))
      /\ job'[Outbox].pc = "try" /\ job'[Outbox].step = t /\ job'[Outbox].end = "none"
  BY OutboxMoves DEF Becomes, On
<1>4. /\ \A k \in Sends \ {i} : row'[k] = row[k]
      /\ row'[i].status = row[i].status /\ row'[i].step = row[i].step
  <2>1. PICK n : row' = [row EXCEPT ![i] = [row[i] EXCEPT !.attempts = n]]
    BY Dom DEF Claim, Types
  <2>2. row[i] \in RowType
    BY Dom DEF Types
  <2>. QED
    BY <2>1, <2>2, Dom DEF RowType, Types
<1>5. Local(Outbox, t)
  BY <1>1, <1>2, <1>3, <1>4 DEF Local
<1>6. /\ RowsOf(t)' = RowsOf(t) /\ (Calm(t)' <=> Calm(t)) /\ (Unpublished(t)' <=> Unpublished(t))
      /\ \A k \in RowsOf(t) : row'[k].status = row[k].status
  BY <1>2, <1>4 DEF RowsOf, Calm, Unpublished
<1>7. Solo(t)'
  <2>1. Calm(t) => ~Unpublished(t)
    BY <1>1 DEF Sound, Solo, Fresh
  <2>2. \A b \in Consumers : job'[b] = job[b]
    BY <1>3
  <2>. QED
    BY <1>1, <1>2, <1>3, <1>6, <2>1, <2>2 DEF Sound, Solo
<1>8. Told(t)'
  <2> SUFFICES ASSUME t \notin doubt PROVE Told(t)'
    BY <1>2 DEF Told
  <2>1. ~\E b \in Agents : On(b, t) /\ Knows(b) /\ RowsOf(t) \subseteq {job[b].id}
    BY <1>0, <1>1 DEF Knows, Guest
  <2>2. ~Leaving(t)
    BY <1>1 DEF Leaving
  <2>3. delivered[t] = 0 /\ step[t] # "sent" /\ \A b \in Agents : On(b, t) => job[b].end # "sent"
    BY <1>1, <2>1, <2>2 DEF Sound, Told
  <2>. QED
    BY <1>2, <1>3, <2>3 DEF Told
<1>9. Moved(t)'
  <2>1. \A c \in Consumers : Working(c, t)' <=> Working(c, t)
    BY <1>3 DEF Working
  <2>2. ~(Leaving(t)' /\ job'[Outbox].pc \in Late \cup {"delete"})
    BY <1>3 DEF Late
  <2>. QED
    BY <1>1, <1>2, <1>3, <1>6, <2>1, <2>2 DEF Sound, Moved
<1>. QED
  BY <1>5, <1>7, <1>8, <1>9, LocalSound DEF Sound

\* The outbox records the provider's answer.
LEMMA SoundSettle ==
    ASSUME Types, Ids, \A s \in Steps : Sound(s), Settle
    PROVE  \A s \in Steps : Sound(s)'
<1>. USE Consts
<1>0. job[Outbox].pc = "settle"
  BY DEF Settle, At
<1>t. PICK t \in Steps : job[Outbox].step = t
  BY <1>0 DEF Types, Shape, Fits, FitsAt
<1>. USE <1>t
<1>1. On(Outbox, t) /\ Sound(t) /\ Keeps(Outbox) /\ job[Outbox].end \in Ends
  BY <1>0 DEF On, Keeps, Types, Shape, Fits, FitsAt
<1>2. UNCHANGED <<step, msgs, cron, delivered, doubt, cut>>
  BY DEF Settle, UnchangedHistory
<1>3. /\ \A b \in Agents \ {Outbox} : job'[b] = job[b]
      /\ \A b \in Agents : On(b, t)' <=> On(b, t)
      /\ job'[Outbox].pc = "mark" /\ job'[Outbox].id = job[Outbox].id
      /\ job'[Outbox].end = job[Outbox].end /\ job'[Outbox].step = t
  BY <1>1, OutboxMoves DEF Same, Becomes, On
<1>4. job[Outbox].id \in RowsOf(t) /\ job[Outbox].id \in Sends /\ row[job[Outbox].id].step = t
  BY <1>1, Holds DEF RowsOf
<1>5. /\ \A k \in Sends \ {job[Outbox].id} : row'[k] = row[k]
      /\ row'[job[Outbox].id].status # "none" => row'[job[Outbox].id].step = t
      /\ job[Outbox].end \in {"sent", "retrying"} => row' = row
  <2>1. CASE job[Outbox].end = "suppressed"
    BY <1>4, <2>1, Dom DEF Settle, NoRow, Types
  <2>2. CASE job[Outbox].end = "failed"
    <3>1. row' = [row EXCEPT ![job[Outbox].id] = [row[job[Outbox].id] EXCEPT !.status = "failed"]]
      BY <1>4, <2>2, Dom DEF Settle, Types
    <3>2. row[job[Outbox].id] \in RowType
      BY <1>4, Dom DEF Types
    <3>. QED
      BY <1>4, <2>2, <3>1, <3>2, Dom DEF RowType, Types
  <2>3. CASE job[Outbox].end \in {"sent", "retrying"}
    BY <1>4, <2>3 DEF Settle
  <2>. QED
    BY <1>1, <2>1, <2>2, <2>3 DEF Ends
<1>6. \A k \in Sends : sent[k] = "none" => sent'[k] = "none"
  BY <1>4, Dom DEF Settle, Shown, Types
<1>7. Local(Outbox, t)
  BY <1>2, <1>3, <1>4, <1>5, <1>6 DEF Local
<1>8. RowsOf(t)' \subseteq RowsOf(t) /\ (Calm(t)' <=> Calm(t)) /\ (Unpublished(t)' <=> Unpublished(t))
  BY <1>2, <1>4, <1>5 DEF RowsOf, Calm, Unpublished
<1>9. Solo(t)'
  <2>1. Calm(t) => ~Unpublished(t)
    BY <1>1 DEF Sound, Solo, Fresh
  <2>2. \A b \in Consumers : job'[b] = job[b]
    BY <1>3
  <2>3. \A b \in Consumers : job[b].pc \in {"send", "resolve", "insert"} => job[b].id \in Sends
    BY Dom DEF Types, Shape, Fits, FitsAt
  <2>. QED
    BY <1>1, <1>2, <1>3, <1>6, <1>8, <2>1, <2>2, <2>3 DEF Sound, Solo
<1>10. Told(t)'
  <2> SUFFICES ASSUME t \notin doubt PROVE Told(t)'
    BY <1>2 DEF Told
  <2>1. ~\A b \in Agents : On(b, t) => job[b].pc \in Late \cup {"delete"}
    BY <1>0, <1>1 DEF Late
  <2>2. delivered[t] = 1 => Knows(Outbox) /\ RowsOf(t) \subseteq {job[Outbox].id}
    <3>1. delivered[t] = 1 => \E b \in Agents : On(b, t) /\ Knows(b) /\ RowsOf(t) \subseteq {job[b].id}
      BY <1>1, <2>1 DEF Sound, Told
    <3>. QED
      BY <1>1, <3>1, Holds
  <2>3. Knows(Outbox) => Knows(Outbox)'
    BY <1>3 DEF Knows
  <2>4. \A b \in Agents : job'[b].end = job[b].end
    BY <1>3
  <2>5. delivered[t] = 1 => \E b \in Agents : On(b, t)' /\ Knows(b)' /\ RowsOf(t)' \subseteq {job'[b].id}
    BY <1>1, <1>3, <1>8, <2>2, <2>3
  <2>. QED
    BY <1>1, <1>2, <1>3, <2>4, <2>5 DEF Sound, Told
<1>11. Moved(t)'
  <2> SUFFICES ASSUME ~cut PROVE Moved(t)'
    BY <1>2 DEF Moved
  <2>1. \A c \in Consumers : Working(c, t)' <=> Working(c, t)
    BY <1>3 DEF Working
  <2>2. ~(Leaving(t)' /\ job'[Outbox].pc \in Late \cup {"delete"})
    BY <1>3 DEF Late
  <2>3. CASE job[Outbox].end \in {"failed", "suppressed"}
    BY <1>1, <1>2, <1>3, <2>1, <2>2, <2>3 DEF Sound, Moved
  <2>4. CASE job[Outbox].end \in {"sent", "retrying"}
    <3>1. row' = row /\ RowsOf(t)' = RowsOf(t)
      BY <1>5, <2>4 DEF RowsOf
    <3>. QED
      BY <1>0, <1>1, <1>2, <1>3, <2>1, <2>2, <3>1 DEF Sound, Moved
  <2>. QED
    BY <1>1, <2>3, <2>4 DEF Ends
<1>. QED
  BY <1>7, <1>9, <1>10, <1>11, LocalSound DEF Sound

\* The outbox deletes the row of a message it delivered, after the step shows it.
LEMMA SoundDelete ==
    ASSUME Types, Ids, \A s \in Steps : Sound(s), Delete
    PROVE  \A s \in Steps : Sound(s)'
<1>. USE Consts
<1>0. job[Outbox].pc = "delete"
  BY DEF Delete, At
<1>t. PICK t \in Steps : job[Outbox].step = t
  BY <1>0 DEF Types, Shape, Fits, FitsAt
<1>. USE <1>t
<1>1. On(Outbox, t) /\ Sound(t) /\ Keeps(Outbox) /\ job[Outbox].end = "sent" /\ Leaving(t)
  BY <1>0 DEF On, Keeps, Leaving, Types, Shape, Fits, FitsAt
<1>2. UNCHANGED <<step, sent, msgs, cron, delivered, doubt, cut>>
  BY DEF Delete, UnchangedHistory
<1>3. /\ Becomes(Outbox, "idle", 0, 0, "none")
      /\ \A b \in Agents \ {Outbox} : job'[b] = job[b] /\ (On(b, t)' <=> On(b, t))
      /\ ~On(Outbox, t)'
  BY <1>1, OutboxMoves DEF Becomes, On
<1>4. job[Outbox].id \in RowsOf(t) /\ job[Outbox].id \in Sends /\ row[job[Outbox].id].step = t
  BY <1>1, Holds DEF RowsOf
<1>5. /\ \A k \in Sends \ {job[Outbox].id} : row'[k] = row[k]
      /\ row'[job[Outbox].id].status = "none"
  BY <1>4, Dom DEF Delete, NoRow, Types
<1>6. Local(Outbox, t)
  BY <1>2, <1>3, <1>4, <1>5 DEF Local, Becomes
<1>7. /\ RowsOf(t)' = RowsOf(t) \ {job[Outbox].id}
      /\ (Calm(t)' <=> Calm(t)) /\ (Unpublished(t)' <=> Unpublished(t))
  BY <1>2, <1>4, <1>5 DEF RowsOf, Calm, Unpublished
<1>8. Solo(t)'
  <2>1. Calm(t) => ~Unpublished(t)
    BY <1>1 DEF Sound, Solo, Fresh
  <2>2. \A b \in Consumers : job'[b] = job[b]
    BY <1>3
  <2>. QED
    BY <1>1, <1>2, <1>3, <1>7, <2>1, <2>2 DEF Sound, Solo
<1>9. Told(t)'
  <2> SUFFICES ASSUME t \notin doubt PROVE Told(t)'
    BY <1>2 DEF Told
  <2>1. ~\E b \in Agents : On(b, t) /\ Knows(b) /\ RowsOf(t) \subseteq {job[b].id}
    BY <1>0, <1>1, Holds DEF Knows
  <2>2. /\ delivered[t] = 1 /\ step[t] = "sent"
        /\ \A b \in Agents : On(b, t) => job[b].pc \in Late \cup {"delete"}
        /\ RowsOf(t) \subseteq {job[Outbox].id}
    BY <1>1, <2>1 DEF Sound, Told
  <2>3. RowsOf(t)' = {}
    BY <1>7, <2>2
  <2>. QED
    BY <1>2, <1>3, <2>2, <2>3 DEF Told
<1>10. Moved(t)'
  <2> SUFFICES ASSUME ~cut PROVE Moved(t)'
    BY <1>2 DEF Moved
  <2>1. step[t] = "sent"
    BY <1>0, <1>1 DEF Sound, Moved
  <2>2. \A c \in Consumers : Working(c, t)' <=> Working(c, t)
    BY <1>3 DEF Working
  <2>3. ~Leaving(t)'
    BY <1>3 DEF Leaving
  <2>. QED
    BY <1>1, <1>2, <2>1, <2>2, <2>3 DEF Sound, Moved
<1>. QED
  BY <1>6, <1>8, <1>9, <1>10, LocalSound DEF Sound

\* A send is canceled by hand: its row is nobody's, so its step was not delivered
\* by the outbox.
LEMMA SoundCancelSend ==
    ASSUME Types, Ids, \A s \in Steps : Sound(s), NEW i \in Sends, CancelSend(i)
    PROVE  \A s \in Steps : Sound(s)'
<1>. USE Consts
<1>0. /\ job[User].pc = "idle" /\ job[User].step = 0 /\ row[i].status # "none"
      /\ \/ row[i].status = "pending" /\ \A b \in Agents : job[b].id = i => Guest(b)
         \/ row[i].status = "failed"
  BY DEF CancelSend, At, Due, Guest, Types, Shape, Fits, FitsAt
<1>t. PICK t \in Steps : row[i].step = t
  BY <1>0 DEF Types, Shape
<1>. USE <1>t
<1>1. Sound(t) /\ i \in RowsOf(t) /\ ~On(User, t)
  BY <1>0 DEF RowsOf, On
<1>2. UNCHANGED <<step, msgs, cron, delivered, doubt, cut>>
  BY DEF CancelSend
<1>3. /\ \A b \in Agents \ {User} : job'[b] = job[b] /\ (On(b, t)' <=> On(b, t))
      /\ job'[User].pc = "mark" /\ job'[User].step = t /\ job'[User].end = "failed" /\ On(User, t)'
  BY OutboxMoves DEF Becomes, On
<1>4. /\ \A k \in Sends \ {i} : row'[k] = row[k]
      /\ row'[i].status = "none"
  BY Dom DEF CancelSend, NoRow, Types
<1>5. \A k \in Sends : sent[k] = "none" => sent'[k] = "none"
  BY Dom DEF CancelSend, Shown, Types
<1>6. Local(User, t)
  BY <1>0, <1>2, <1>3, <1>4, <1>5 DEF Local
<1>7. RowsOf(t)' \subseteq RowsOf(t) /\ (Calm(t)' <=> Calm(t)) /\ (Unpublished(t)' <=> Unpublished(t))
  BY <1>2, <1>4 DEF RowsOf, Calm, Unpublished
<1>8. \A b \in Agents : Keeps(b) => job[b].id # i
  <2> SUFFICES ASSUME NEW b \in Agents, Keeps(b), job[b].id = i PROVE FALSE
    OBVIOUS
  <2>1. row[i].status = "pending"
    BY DEF Ids
  <2>2. Guest(b)
    BY <1>0, <2>1
  <2>. QED
    BY <2>2 DEF Guest, Keeps, Types, Shape, Fits, FitsAt, Late
<1>9. Solo(t)'
  <2>1. Calm(t) => ~Unpublished(t)
    BY <1>1 DEF Sound, Solo, Fresh
  <2>2. \A b \in Consumers : job'[b] = job[b]
    BY <1>3
  <2>3. \A b \in Consumers : job[b].pc \in {"send", "resolve", "insert"} => job[b].id \in Sends
    BY Dom DEF Types, Shape, Fits, FitsAt
  <2>. QED
    BY <1>1, <1>2, <1>3, <1>5, <1>7, <2>1, <2>2, <2>3 DEF Sound, Solo
<1>10. Leaving(t) => ~(\A k, l \in RowsOf(t) : k = l)
  <2> SUFFICES ASSUME Leaving(t) PROVE job[Outbox].id \in RowsOf(t) /\ job[Outbox].id # i
    BY <1>1
  <2>1. Keeps(Outbox)
    BY DEF Keeps, Leaving
  <2>. QED
    BY <1>8, <2>1, Holds DEF Leaving, On
<1>11. Told(t)'
  <2> SUFFICES ASSUME t \notin doubt PROVE Told(t)'
    BY <1>2 DEF Told
  <2>1. ~Leaving(t)
    BY <1>1, <1>10 DEF Sound, Solo, Calm
  <2>2. delivered[t] = 1 => \E b \in Agents : On(b, t) /\ Knows(b) /\ RowsOf(t) \subseteq {job[b].id}
    BY <1>1, <2>1 DEF Sound, Told
  <2>3. \A b \in Agents : On(b, t) /\ Knows(b) => b # User
    BY <1>1
  <2>4. \A b \in Agents : On(b, t) /\ Knows(b) => job'[b] = job[b] /\ Knows(b)' /\ On(b, t)'
    BY <1>3, <2>3 DEF Knows
  <2>5. delivered[t] = 1 => \E b \in Agents : On(b, t)' /\ Knows(b)' /\ RowsOf(t)' \subseteq {job'[b].id}
    BY <1>7, <2>2, <2>4
  <2>. QED
    BY <1>1, <1>2, <1>3, <2>5 DEF Sound, Told
<1>12. Moved(t)'
  <2> SUFFICES ASSUME ~cut PROVE Moved(t)'
    BY <1>2 DEF Moved
  <2>1. \A c \in Consumers : Working(c, t)' <=> Working(c, t)
    BY <1>3 DEF Working
  <2>2. ~Leaving(t)'
    BY <1>1, <1>3, <1>10 DEF Sound, Solo, Calm, Leaving
  <2>. QED
    BY <1>1, <1>2, <1>3, <2>1, <2>2 DEF Sound, Moved
<1>. QED
  BY <1>6, <1>9, <1>11, <1>12, LocalSound DEF Sound

\* A send is retried by hand: its row was there all along.
LEMMA SoundRetry ==
    ASSUME Types, \A s \in Steps : Sound(s), NEW i \in Sends, Retry(i)
    PROVE  \A s \in Steps : Sound(s)'
<1> SUFFICES ASSUME NEW s \in Steps PROVE Sound(s)'
  OBVIOUS
<1>1. \A k \in Sends : /\ row'[k].step = row[k].step
                       /\ row'[k].status = (IF k = i THEN "pending" ELSE row[k].status)
  <2>1. row' = [row EXCEPT ![i] = [row[i] EXCEPT !.status = "pending", !.attempts = 0]]
    BY Dom DEF Retry, Types
  <2>2. row[i] \in RowType
    BY Dom DEF Types
  <2>. QED
    BY <2>1, <2>2, Revivable, Dom DEF Types
<1>2. row[i].status = "failed" /\ UNCHANGED <<step, sent, msgs, cron, job, delivered, doubt, cut>>
  BY DEF Retry
<1>. QED
  BY <1>1, <1>2, AwaySound DEF Away, Unpublished

\* No step leaves a step unsound.
LEMMA SoundStep ==
    ASSUME Types, Ids, \A s \in Steps : Sound(s), Next
    PROVE  \A s \in Steps : Sound(s)'
<1>1. ASSUME NEW a \in Consumers, Process(a) \/ Throw(a) PROVE \A s \in Steps : Sound(s)'
  <2>1. CASE Send(a)
    <3>1. PICK e \in Ends : Same(a, "resolve", e) /\ Delivering(a, e)
      BY <2>1, ConsumerMoves
    <3>2. job[a].pc = "send" /\ UNCHANGED <<step, row, sent, msgs, cron, doubt, cut>>
      BY <2>1 DEF Send, At
    <3>. QED
      BY <3>1, <3>2, SoundAnswer, Consts
  <2>. QED
    BY <1>1, <2>1, SoundTake, SoundRead, SoundDrop, SoundWriteAhead, SoundThrow, SoundResolve, SoundInsert
       DEF Process
<1>2. ASSUME NEW a \in Agents, Finish(a) \/ Die(a) PROVE \A s \in Steps : Sound(s)'
  BY <1>2, SoundMark, SoundLate, SoundDie DEF Finish
<1>3. ASSUME Attempt PROVE \A s \in Steps : Sound(s)'
  <2>1. CASE Try
    <3>1. PICK e \in Ends : Same(Outbox, "settle", e) /\ Delivering(Outbox, e)
      BY <2>1, OutboxMoves
    <3>2. job[Outbox].pc = "try" /\ UNCHANGED <<step, row, sent, msgs, cron, doubt, cut>>
      BY <2>1 DEF Try, At
    <3>. QED
      BY <3>1, <3>2, SoundAnswer, Consts
  <2>. QED
    BY <1>3, <2>1, SoundClaim, SoundSettle, SoundDelete DEF Attempt
<1>4. ASSUME NEW i \in Sends, CancelSend(i) \/ Retry(i) PROVE \A s \in Steps : Sound(s)'
  BY <1>4, SoundCancelSend, SoundRetry
<1>. QED
  BY <1>1, <1>2, <1>3, <1>4, SoundCron DEF Next, Cancel

-----------------------------------------------------------------------------
(* What holds of the enrollment.                                           *)

\* A completion is in order, and an active enrollment has a step to come or
\* somebody about to look.
Counted ==
    ~cut =>
    /\ enr = "completed" \/ (\E a \in Agents : At(a, "complete")) =>
         \A s \in Steps \ revived : step[s] \in Settled
    /\ enr = "active" => Outstanding # {} \/ \E a \in Agents : At(a, "check") \/ At(a, "complete")

\* The enrollment starts active, its first step under way.
LEMMA CountedInit == Init => Counted
<1> SUFFICES ASSUME Init PROVE Counted
  OBVIOUS
<1>1. enr = "active" /\ \A a \in Agents : job[a].pc = "idle"
  BY DEF Init, Free
<1>2. 1 \in Outstanding
  BY Consts DEF Init, Outstanding
<1>. QED
  BY <1>1, <1>2 DEF Counted, At

\* The actions that write the enrollment, its steps or the history of them.
LEMMA Writers ==
    ASSUME Next
    PROVE  \/ UNCHANGED <<enr, step, revived>>
           \/ MarkQueued \/ CancelEnrollment \/ CancelSteps
           \/ \E a \in Consumers : Drop(a) \/ HandOver(a)
           \/ \E a \in Agents : Mark(a) \/ Complete(a)
           \/ \E i \in Sends : Retry(i)
<1>1. ASSUME NEW a \in Consumers, Process(a) \/ Throw(a)
      PROVE  UNCHANGED <<enr, step, revived>> \/ Drop(a) \/ HandOver(a)
  BY <1>1 DEF Process, Take, ReadEnrollment, Guard, Repair, Unsendable, WriteAhead, Send, Throw, Resolve,
     Insert, UnchangedHistory
<1>2. ASSUME NEW a \in Agents, Finish(a) \/ Die(a)
      PROVE  UNCHANGED <<enr, step, revived>> \/ Mark(a) \/ Complete(a)
  BY <1>2 DEF Finish, Check, Die, UnchangedHistory
<1>3. ASSUME Attempt \/ \E i \in Sends : CancelSend(i)
      PROVE  UNCHANGED <<enr, step, revived>>
  BY <1>3 DEF Attempt, Claim, Try, Settle, Delete, CancelSend, UnchangedHistory
<1>4. ASSUME Dispatch \/ Publish \/ StartCancel \/ CronDies \/ \E s \in Steps : Duplicate(s)
      PROVE  UNCHANGED <<enr, step, revived>>
  BY <1>4 DEF Dispatch, Publish, StartCancel, CronDies, Duplicate, UnchangedHistory
<1>. QED
  BY <1>1, <1>2, <1>3, <1>4 DEF Next, Cancel

\* A step that was over stays so, or is one taken up again.
LEMMA StaysSettled ==
    ASSUME Types, Next, NEW s \in Steps, s \notin revived', step[s] \in Settled
    PROVE  s \notin revived /\ step'[s] \in Settled
<1>. USE Consts, Dom DEF Types
<1>1. CASE UNCHANGED <<step, revived>>
  BY <1>1
<1>2. CASE MarkQueued
  <2>1. PICK t \in cron.todo : /\ step' = [step EXCEPT ![t] = "queued"]
                               /\ revived' = IF step[t] = "pending" THEN revived ELSE revived \cup {t}
    BY <1>2 DEF MarkQueued
  <2>2. s # t
    BY <2>1 DEF Settled
  <2>. QED
    BY <2>1, <2>2
<1>3. ASSUME NEW a \in Consumers, Drop(a) PROVE s \notin revived /\ step'[s] \in Settled
  <2>1. revived' = revived /\ step'[s] \in {step[s], "cancelled"}
    BY <1>3 DEF Drop, UnchangedHistory
  <2>. QED
    BY <2>1 DEF Settled
<1>4. ASSUME NEW a \in Consumers, HandOver(a) PROVE s \notin revived /\ step'[s] \in Settled
  <2>1. /\ step' = [step EXCEPT ![job[a].step] = "retrying"]
        /\ revived' = IF step[job[a].step] = "queued" THEN revived ELSE revived \cup {job[a].step}
    BY <1>4 DEF HandOver
  <2>2. s # job[a].step
    BY <2>1 DEF Settled
  <2>. QED
    BY <2>1, <2>2
<1>5. ASSUME NEW a \in Agents, Mark(a) PROVE s \notin revived /\ step'[s] \in Settled
  <2>1. /\ step' = [step EXCEPT ![job[a].step] = job[a].end]
        /\ revived' = IF job[a].end = "retrying" /\ step[job[a].step] \in Settled
                      THEN revived \cup {job[a].step} ELSE revived
    BY <1>5 DEF Mark, Marked
  <2>2. job[a].end \in Ends
    BY <1>5 DEF Mark, At, Shape, Fits, FitsAt
  <2>3. s = job[a].step => job[a].end # "retrying"
    BY <2>1
  <2>. QED
    BY <2>1, <2>2, <2>3 DEF Settled, Ends
<1>6. CASE CancelSteps
  <2>1. revived' = revived /\ step'[s] \in {step[s], "cancelled"}
    BY <1>6 DEF CancelSteps, UnchangedHistory
  <2>. QED
    BY <2>1 DEF Settled
<1>7. CASE CancelEnrollment \/ \E a \in Agents : Complete(a)
  BY <1>7 DEF CancelEnrollment, Complete, UnchangedHistory
<1>8. CASE \E i \in Sends : Retry(i)
  BY <1>8 DEF Retry
<1>. QED
  BY <1>1, <1>2, <1>3, <1>4, <1>5, <1>6, <1>7, <1>8, Writers

\* Only a count that finds nothing outstanding takes an agent to the completion,
\* and only its own actions and death take it from the look at the enrollment.
LEMMA LateMoves ==
    ASSUME Types, Next, NEW a \in Agents
    PROVE  /\ At(a, "complete")' => At(a, "complete") \/ Outstanding = {}
           /\ job[a].pc \in Late => job'[a] = job[a] \/ Check(a) \/ Complete(a) \/ Die(a)
<1>. DEFINE Goal == /\ At(a, "complete")' => At(a, "complete") \/ Outstanding = {}
                    /\ job[a].pc \in Late => job'[a] = job[a] \/ Check(a) \/ Complete(a) \/ Die(a)
<1>. USE Consts
<1>0. ASSUME NEW c \in Agents, NEW p, NEW s, NEW i, NEW e, Becomes(c, p, s, i, e), p # "complete",
             job[c].pc \notin Late
      PROVE  Goal
  BY <1>0 DEF Becomes, At
<1>1. CASE job' = job
  BY <1>1 DEF At
<1>2. ASSUME NEW c \in Consumers, Process(c) \/ Throw(c) PROVE Goal
  <2>1. ASSUME NEW s \in Steps, Take(c, s) PROVE Goal
    <3>1. job[c].pc = "idle"
      BY <2>1 DEF Take, At
    <3>. QED
      BY <1>0, <2>1, <3>1, ConsumerMoves DEF Late
  <2>2. CASE ReadEnrollment(c)
    <3>1. job[c].pc = "enrollment"
      BY <2>2 DEF ReadEnrollment, At
    <3>. QED
      BY <1>0, <2>2, <3>1, ConsumerMoves DEF Late, Same
  <2>3. CASE Drop(c) \/ HandOver(c) \/ Throw(c)
    <3>1. job[c].pc \in {"drop", "hand over", "send"}
      BY <2>3 DEF Drop, HandOver, Throw, At
    <3>. QED
      BY <1>0, <2>3, <3>1, ConsumerMoves DEF Late
  <2>4. CASE Guard(c)
    <3>1. job[c].pc = "guard"
      BY <2>4 DEF Guard, At
    <3>. QED
      BY <1>0, <2>4, <3>1, ConsumerMoves DEF Late, Same
  <2>5. CASE Repair(c)
    <3>1. job[c].pc = "repair"
      BY <2>5 DEF Repair, At
    <3>. QED
      BY <1>0, <2>5, <3>1, ConsumerMoves DEF Late, Same
  <2>6. CASE Unsendable(c)
    <3>1. job[c].pc = "prepare"
      BY <2>6 DEF Unsendable, At
    <3>. QED
      BY <1>0, <2>6, <3>1, ConsumerMoves DEF Late, Same
  <2>7. CASE WriteAhead(c)
    <3>1. job[c].pc = "prepare"
      BY <2>7 DEF WriteAhead, At
    <3>. QED
      BY <1>0, <2>7, <3>1, ConsumerMoves DEF Late
  <2>8. CASE Send(c)
    <3>1. job[c].pc = "send"
      BY <2>8 DEF Send, At
    <3>. QED
      BY <1>0, <2>8, <3>1, ConsumerMoves DEF Late, Same
  <2>9. CASE Resolve(c)
    <3>1. job[c].pc = "resolve"
      BY <2>9 DEF Resolve, At
    <3>2. PICK p \in {"mark", "insert"} : Same(c, p, job[c].end)
      BY <2>9, ConsumerMoves
    <3>. QED
      BY <1>0, <3>1, <3>2 DEF Late, Same
  <2>10. CASE Insert(c)
    <3>1. job[c].pc = "insert"
      BY <2>10 DEF Insert, At
    <3>2. Same(c, "mark", job[c].end) \/ Becomes(c, "idle", 0, 0, "none")
      BY <2>10, ConsumerMoves
    <3>. QED
      BY <1>0, <3>1, <3>2 DEF Late, Same
  <2>. QED
    BY <1>2, <2>1, <2>2, <2>3, <2>4, <2>5, <2>6, <2>7, <2>8, <2>9, <2>10 DEF Process
<1>3. ASSUME NEW c \in Agents, Finish(c) \/ Die(c) PROVE Goal
  <2>1. CASE Mark(c)
    <3>1. job[c].pc = "mark"
      BY <2>1 DEF Mark, At
    <3>. QED
      BY <1>0, <2>1, <3>1, AgentMoves DEF Late, Same
  <2>2. CASE Check(c) \/ Complete(c)
    BY <2>2, AgentMoves DEF Same, Becomes, At
  <2>3. CASE Die(c)
    BY <2>3, AgentMoves DEF Becomes, At
  <2>. QED
    BY <1>3, <2>1, <2>2, <2>3 DEF Finish
<1>4. ASSUME Attempt PROVE Goal
  <2>1. ASSUME NEW i \in Sends, Claim(i) PROVE Goal
    <3>1. job[Outbox].pc = "idle"
      BY <2>1 DEF Claim, At
    <3>. QED
      BY <1>0, <2>1, <3>1, OutboxMoves DEF Late
  <2>2. CASE Try
    <3>1. job[Outbox].pc = "try"
      BY <2>2 DEF Try, At
    <3>. QED
      BY <1>0, <2>2, <3>1, OutboxMoves DEF Late, Same
  <2>3. CASE Settle
    <3>1. job[Outbox].pc = "settle"
      BY <2>3 DEF Settle, At
    <3>. QED
      BY <1>0, <2>3, <3>1, OutboxMoves DEF Late, Same
  <2>4. CASE Delete
    <3>1. job[Outbox].pc = "delete"
      BY <2>4 DEF Delete, At
    <3>. QED
      BY <1>0, <2>4, <3>1, OutboxMoves DEF Late
  <2>. QED
    BY <1>4, <2>1, <2>2, <2>3, <2>4 DEF Attempt
<1>5. ASSUME NEW i \in Sends, CancelSend(i) PROVE Goal
  <2>1. job[User].pc = "idle"
    BY <1>5 DEF CancelSend, At
  <2>. QED
    BY <1>0, <1>5, <2>1, OutboxMoves DEF Late
<1>6. ASSUME Dispatch \/ MarkQueued \/ Publish \/ StartCancel \/ Cancel \/ CronDies
             \/ (\E i \in Sends : Retry(i)) \/ \E s \in Steps : Duplicate(s)
      PROVE  job' = job
  BY <1>6 DEF Dispatch, MarkQueued, Publish, StartCancel, Cancel, CancelEnrollment, CancelSteps,
     CronDies, Retry, Duplicate
<1>. QED
  BY <1>1, <1>2, <1>3, <1>4, <1>5, <1>6 DEF Next

\* No step completes an enrollment too early, or leaves it with nothing to do.
LEMMA CountedStep == ASSUME Types, Counted, Next PROVE Counted'
<1>. USE Consts, Dom DEF Types
<1>1. SUFFICES ASSUME ~cut' PROVE Counted'
  BY DEF Counted
<1>2. ~cut
  <2>1. ASSUME NEW a \in Consumers, Process(a) \/ Throw(a), cut PROVE cut'
    BY <2>1 DEF Process, Take, ReadEnrollment, Drop, Guard, Repair, HandOver, Unsendable, WriteAhead, Send,
       Resolve, Insert, Throw, UnchangedHistory
  <2>2. ASSUME NEW a \in Agents, Finish(a) \/ Die(a), cut PROVE cut'
    BY <2>2 DEF Finish, Mark, Check, Complete, Die, UnchangedHistory
  <2>3. ASSUME Attempt \/ \E i \in Sends : CancelSend(i) \/ Retry(i), cut PROVE cut'
    BY <2>3 DEF Attempt, Claim, Try, Settle, Delete, CancelSend, Retry, UnchangedHistory
  <2>4. ASSUME Dispatch \/ MarkQueued \/ Publish \/ StartCancel \/ Cancel \/ CronDies
               \/ \E s \in Steps : Duplicate(s),
               cut
        PROVE  cut'
    BY <2>4 DEF Dispatch, MarkQueued, Publish, StartCancel, Cancel, CancelEnrollment, CancelSteps, CronDies,
       Duplicate, UnchangedHistory
  <2>. QED
    BY <1>1, <2>1, <2>2, <2>3, <2>4 DEF Next
<1>3. ASSUME enr' = "completed" \/ \E a \in Agents : At(a, "complete")',
             NEW s \in Steps \ revived'
      PROVE  step'[s] \in Settled
  <2>1. enr' = "completed" => enr = "completed" \/ \E a \in Agents : Complete(a)
    BY Writers DEF MarkQueued, CancelEnrollment, CancelSteps, Drop, HandOver, Mark, Retry
  <2>2. enr = "completed" \/ (\E a \in Agents : At(a, "complete")) \/ Outstanding = {}
    BY <1>3, <2>1, LateMoves DEF Complete
  <2>3. Outstanding = {} => step[s] \in Settled
    BY DEF Outstanding, Settled, TypeOK, Ends
  <2>4. s \in revived \/ step[s] \in Settled
    BY <1>2, <2>2, <2>3 DEF Counted
  <2>5. revived \subseteq revived'
    BY Writers DEF MarkQueued, CancelEnrollment, CancelSteps, Drop, HandOver, Mark, Complete, Retry,
       UnchangedHistory
  <2>. QED
    BY <2>4, <2>5, StaysSettled
<1>4. ASSUME enr' = "active"
      PROVE  Outstanding' # {} \/ \E a \in Agents : At(a, "check")' \/ At(a, "complete")'
  <2>1. enr = "active"
    BY <1>4, Writers DEF MarkQueued, CancelEnrollment, CancelSteps, Drop, HandOver, Mark, Complete, Retry
  <2>2. CASE step' = step /\ \A a \in Agents : ~Complete(a)
    <3>1. Outstanding' = Outstanding
      BY <2>2 DEF Outstanding
    <3>2. ASSUME NEW a \in Agents, job[a].pc \in Late PROVE Outstanding # {} \/ job'[a].pc \in Late
      <4>1. CASE Check(a)
        <5>1. Outstanding = {} => Same(a, "complete", job[a].end)
          BY <4>1, AgentMoves
        <5>. QED
          BY <5>1 DEF Same, Becomes, Late
      <4>2. ~Die(a)
        BY <1>1, <3>2 DEF Die, At, Late
      <4>. QED
        BY <2>2, <3>2, <4>1, <4>2, LateMoves
    <3>. QED
      BY <1>2, <2>1, <3>1, <3>2 DEF Counted, At, Late
  <2>3. CASE MarkQueued
    <3>1. PICK t \in Steps : step' = [step EXCEPT ![t] = "queued"]
      BY <2>3 DEF MarkQueued, TypeOK
    <3>. QED
      BY <3>1 DEF Outstanding
  <2>4. ASSUME NEW a \in Consumers, HandOver(a) PROVE Outstanding' # {}
    <3>1. job[a].step \in Steps
      BY <2>4, Works DEF HandOver, At
    <3>2. step'[job[a].step] = "retrying"
      BY <2>4, <3>1 DEF HandOver
    <3>. QED
      BY <3>1, <3>2 DEF Outstanding
  <2>5. ASSUME NEW a \in Agents, Mark(a) PROVE Outstanding' # {} \/ At(a, "check")'
    <3>1. job[a].step \in Steps
      BY <2>5, Works DEF Mark, At
    <3>2. CASE job[a].end = "retrying"
      <4>1. step'[job[a].step] = "retrying"
        BY <2>5, <3>1, <3>2 DEF Mark, Marked
      <4>. QED
        BY <3>1, <4>1 DEF Outstanding
    <3>3. CASE job[a].end # "retrying"
      BY <2>5, <3>3, AgentMoves DEF Same, Becomes, At
    <3>. QED
      BY <3>2, <3>3
  <2>6. ~CancelSteps /\ \A a \in Consumers : ~Drop(a)
    BY <2>1 DEF CancelSteps, Drop, At, Shape, Fits
  <2>7. \A a \in Agents : ~Complete(a)
    BY <1>4 DEF Complete
  <2>8. CancelEnrollment \/ (\E i \in Sends : Retry(i)) => step' = step
    BY DEF CancelEnrollment, Retry
  <2>. QED
    BY <2>2, <2>3, <2>4, <2>5, <2>6, <2>7, <2>8, Writers
<1>. QED
  BY <1>3, <1>4 DEF Counted

-----------------------------------------------------------------------------
(* The theorems.                                                           *)

\* The inductive invariant.
IInv == Types /\ Ids /\ (\A s \in Steps : Sound(s)) /\ Counted

\* The invariant at the start.
LEMMA IInvInit == Init => IInv
BY TypesInit, IdsInit, SoundInit, CountedInit DEF IInv

\* Every step keeps the invariant.
LEMMA IInvStep == IInv /\ [Next]_vars => IInv'
<1> SUFFICES ASSUME IInv, [Next]_vars PROVE IInv'
  OBVIOUS
<1>1. CASE Next
  <2>1. Types'
    BY <1>1, TypesStep DEF IInv
  <2>2. Ids'
    BY <1>1, <2>1, IdsStep DEF IInv
  <2>3. \A s \in Steps : Sound(s)'
    BY <1>1, SoundStep DEF IInv
  <2>4. Counted'
    BY <1>1, CountedStep DEF IInv
  <2>. QED
    BY <2>1, <2>2, <2>3, <2>4 DEF IInv
<1>2. CASE UNCHANGED vars
  <2>1. Types' /\ Ids' /\ Counted'
    BY <1>2 DEF IInv, vars, Types, TypeOK, Shape, Fits, Ids, Keeps, Guest, Counted, Outstanding, At
  <2>2. ASSUME NEW s \in Steps PROVE Sound(s)'
    <3>1. Sound(s)
      BY DEF IInv
    <3>. QED
      BY <1>2, <3>1, AwaySound DEF vars, Away, Unpublished
  <2>. QED
    BY <2>1, <2>2 DEF IInv
<1>. QED
  BY <1>1, <1>2

\* The inductive invariant holds in every behavior of a drip.
THEOREM IInvAlways == Spec => []IInv
BY IInvInit, IInvStep, PTL DEF Spec

\* Each step goes out once, shows what became of it, and is in the outbox while it
\* shows as retrying.
THEOREM StepsTellAlways == Spec => []StepsTell
<1>1. IInv => StepsTell
  <2> SUFFICES ASSUME IInv PROVE StepsTell
    OBVIOUS
  <2>1. TypeOK /\ \A s \in Steps : Sound(s)
    BY DEF IInv, Types
  <2>2. OncePerStep
    BY <2>1 DEF OncePerStep, Sound, Told
  <2>3. OutcomeShown
    <3> SUFFICES ASSUME NEW s \in Steps \ doubt, ~Busy(s), RowsOf(s) = {}
                 PROVE  step[s] = "sent" <=> delivered[s] = 1
      BY DEF OutcomeShown
    <3>. QED
      BY <2>1 DEF Busy, Sound, Told, On
  <2>4. RetryingOwned
    <3> SUFFICES ASSUME NEW s \in Steps, ~cut, step[s] = "retrying", ~Busy(s)
                 PROVE  RowsOf(s) # {}
      BY DEF RetryingOwned
    <3>. QED
      BY <2>1, Consts DEF Busy, Sound, Moved, On
  <2>. QED
    BY <2>1, <2>2, <2>3, <2>4 DEF StepsTell
<1>. QED
  BY <1>1, IInvAlways, PTL

\* A completed enrollment has no step left that could still go out, but for those
\* taken up again after they had ended.
THEOREM CompletedSoundly == Spec => []CompletionSound
<1>1. IInv => CompletionSound
  BY DEF IInv, Counted, CompletionSound
<1>. QED
  BY <1>1, IInvAlways, PTL

\* An active enrollment always has something left that will move it, unless a fault
\* left work that nothing resumes.
THEOREM AlwaysMoving == Spec => []KeepsMoving
<1>1. IInv => KeepsMoving
  <2> SUFFICES ASSUME IInv, ~cut, enr = "active" PROVE Moving
    BY DEF KeepsMoving, Moving
  <2>1. ASSUME NEW a \in Agents, NEW s \in Steps, On(a, s) PROVE Moving
    BY <2>1, Consts DEF IInv, Types, Shape, Fits, FitsAt, On, Moving, At
  <2>2. ASSUME NEW a \in Agents, At(a, "check") \/ At(a, "complete") PROVE Moving
    BY <2>2 DEF Moving, At
  <2>3. ASSUME NEW s \in Outstanding PROVE Moving
    <3>1. s \in Steps /\ step[s] \in {"pending", "queued", "retrying"} /\ Moved(s) /\ s # 0
      BY <2>3, Consts DEF Outstanding, IInv, Sound
    <3>2. CASE step[s] = "pending"
      BY <3>1, <3>2 DEF Moving
    <3>3. CASE step[s] = "queued"
      <4>1. msgs[s] > 0 \/ cron.at = s \/ \E c \in Consumers : On(c, s)
        BY <3>1, <3>3 DEF Moved, Working
      <4>2. cron.at = s => cron.todo # {}
        BY <3>1 DEF IInv, Types, Shape
      <4>. QED
        BY <2>1, <3>1, <4>1, <4>2, Consts DEF Moving
    <3>4. CASE step[s] = "retrying"
      <4>1. (\E i \in RowsOf(s) : row[i].status = "pending") \/ \E a \in Agents : On(a, s)
        BY <3>1, <3>4, Consts DEF Moved
      <4>. QED
        BY <2>1, <3>1, <4>1 DEF Moving, RowsOf
    <3>. QED
      BY <3>1, <3>2, <3>3, <3>4
  <2>. QED
    BY <2>2, <2>3 DEF IInv, Counted
<1>. QED
  BY <1>1, IInvAlways, PTL
=============================================================================
