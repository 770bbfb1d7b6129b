---------------------------- MODULE OutboxProofs ----------------------------
(***************************************************************************)
(* What holds of the outbox for every set of messages and passes and every *)
(* choice of lease, cool-down and budget that satisfies the assumptions.   *)
(***************************************************************************)
EXTENDS Outbox, TLAPS

-----------------------------------------------------------------------------
(* Types.                                                                  *)

\* An agent in an attempt has a message; inline attempts are on their own.
JobShape ==
    /\ \A a \in Agents : Busy(a) => job[a].mail \in Mail
    /\ \A m \in Mail : Busy(m) => job[m].mail = m
    /\ \A p \in Passes : job[p].pc # "new"

\* The row written after an inline answer, or after a retry, is a row.
LEMMA RowShapes ==
    ASSUME TypeOK, NEW m \in Mail
    PROVE  /\ NoRow \in RowType
           /\ WrittenAhead(m) \in RowType
           /\ Accepted(m) \in RowType
           /\ Failed(m) \in RowType
           /\ Later(m) \in RowType
           /\ Revived(m) \in RowType
           /\ \A ans \in Answers : Resolved(m, ans) \in RowType
           /\ \A p \in Passes : Rearmed(p, m) \in RowType
<1>0. /\ row[m] \in RowType
      /\ Lease \in Nat /\ CoolDown \in Nat /\ CoolDown < Lease
  BY TimeAssumption DEF TypeOK, RowType
<1>1. NoRow \in RowType
  BY <1>0 DEF RowType, NoRow, Statuses
<1>2. WrittenAhead(m) \in RowType
  BY <1>0 DEF RowType, WrittenAhead, Statuses
<1>3. Accepted(m) \in RowType
  BY <1>0, <1>1 DEF RowType, Accepted, Statuses
<1>4. Failed(m) \in RowType
  BY <1>0 DEF RowType, Failed, Statuses
<1>5. Later(m) \in RowType
  BY <1>0 DEF RowType, Later
<1>6. ASSUME NEW ans \in Answers PROVE Resolved(m, ans) \in RowType
  <2>1. m \in Owned => [Accepted(m) EXCEPT !.attempts = 1] \in RowType
    BY <1>3 DEF RowType
  <2>2. [Failed(m) EXCEPT !.attempts = 1] \in RowType
    BY <1>4 DEF RowType
  <2>3. [status |-> "pending", attempts |-> FirstCount(ans), wait |-> CoolDown,
         held |-> ans = "held"] \in RowType
    BY <1>0 DEF RowType, FirstCount, Statuses
  <2>. QED
    BY <1>1, <2>1, <2>2, <2>3 DEF Resolved
<1>7. ASSUME NEW p \in Passes PROVE Rearmed(p, m) \in RowType
  BY <1>0 DEF RowType, Rearmed
<1>8. Revived(m) \in RowType
  BY <1>0 DEF RowType, Revived, Statuses
<1>. QED
  BY <1>1, <1>2, <1>3, <1>4, <1>5, <1>6, <1>7, <1>8

\* The jobs that are over, and those that begin.
LEMMA JobShapes ==
    /\ Idle \in JobType /\ Fresh \in JobType /\ Done \in JobType
    /\ ~(Idle.pc \in {"new", "claimed", "calling", "answered", "written"})
    /\ ~(Done.pc \in {"new", "claimed", "calling", "answered", "written"})
    /\ Fresh.pc = "new"
<1>1. 0 \in 0..RunLimit
  BY TimeAssumption
<1>2. Idle \in JobType
  BY <1>1 DEF JobType, Idle, Points, Answers
<1>3. Fresh \in JobType
  BY <1>2 DEF JobType, Fresh, Points
<1>4. Done \in JobType
  BY <1>2 DEF JobType, Done, Points
<1>. QED
  BY <1>2, <1>3, <1>4 DEF Idle, Fresh, Done

\* Nothing is queued at the start.
LEMMA TypeInit == Init => TypeOK /\ JobShape
<1> SUFFICES ASSUME Init PROVE TypeOK /\ JobShape
  OBVIOUS
<1>1. row \in [Mail -> RowType]
  BY TimeAssumption DEF Init, NoRow, RowType, Statuses
<1>2. job \in [Agents -> JobType]
  BY JobShapes DEF Init
<1>3. hist \in [Mail -> HistType]
  BY DEF Init, HistType
<1>4. sent \in [Mail -> {"none", "sent", "retrying", "failed"}] /\ faults \in 0..MaxFaults
  BY TimeAssumption DEF Init
<1>5. JobShape
  BY JobShapes, MailAssumption DEF Init, JobShape, Busy, Agents
<1>. QED
  BY <1>1, <1>2, <1>3, <1>4, <1>5 DEF Init, TypeOK

\* One agent moves to a well-formed state.
LEMMA JobStep ==
    ASSUME TypeOK, JobShape, NEW a \in Agents, NEW j \in JobType,
           job' = [job EXCEPT ![a] = j],
           j.pc \in {"claimed", "calling", "answered", "written"} =>
               j.mail \in Mail /\ (a \in Mail => j.mail = a),
           a \in Passes => j.pc # "new"
    PROVE  job' \in [Agents -> JobType] /\ JobShape'
<1>1. job' \in [Agents -> JobType]
  BY DEF TypeOK
<1>2. \A b \in Agents : job'[b] = IF b = a THEN j ELSE job[b]
  BY DEF TypeOK
<1>3. \A b \in Agents : Busy(b)' => job'[b].mail \in Mail
  BY <1>2 DEF JobShape, Busy
<1>4. \A m \in Mail : Busy(m)' => job'[m].mail = m
  BY <1>2 DEF JobShape, Busy, Agents
<1>5. \A p \in Passes : job'[p].pc # "new"
  BY <1>2 DEF JobShape, Agents
<1>. QED
  BY <1>1, <1>3, <1>4, <1>5 DEF JobShape

\* The states an agent moves to.
LEMMA JobMoves ==
    ASSUME TypeOK, JobShape, NEW a \in Agents
    PROVE  /\ \A m \in Mail, l \in BOOLEAN :
                 [pc |-> "claimed", mail |-> m, answer |-> "none", last |-> l, age |-> 0] \in JobType
           /\ \A m \in Mail :
                 [pc |-> "written", mail |-> m, answer |-> "canceled", last |-> FALSE, age |-> 0]
                   \in JobType
           /\ \A ans \in Answers : [job[a] EXCEPT !.pc = "answered", !.answer = ans] \in JobType
           /\ [job[a] EXCEPT !.pc = "calling"] \in JobType
           /\ [job[a] EXCEPT !.pc = "written"] \in JobType
           /\ [job[a] EXCEPT !.pc = "written", !.age = 0] \in JobType
<1>0. job[a] \in JobType /\ 0 \in 0..RunLimit
  BY TimeAssumption DEF TypeOK
<1>. QED
  BY <1>0 DEF JobType, Points, Answers

\* Every action keeps the types and the shape of the agents.
LEMMA TypeStep == TypeOK /\ JobShape /\ [Next]_vars => TypeOK' /\ JobShape'
<1> SUFFICES ASSUME TypeOK, JobShape, [Next]_vars
             PROVE  TypeOK' /\ JobShape'
  OBVIOUS
<1>0. /\ Mail \cap Passes = {} /\ "none" \notin Mail
      /\ Mail \subseteq Agents /\ Passes \subseteq Agents
      /\ Lease \in Nat /\ RunLimit \in Nat /\ MaxFaults \in Nat /\ 0 \in 0..RunLimit
  <2>1. Mail \cap Passes = {} /\ "none" \notin Mail
    BY MailAssumption
  <2>. QED
    BY <2>1, TimeAssumption DEF Agents
<1>1. ASSUME NEW m \in Mail, Submit(m) PROVE TypeOK' /\ JobShape'
  <2>1. row' \in [Mail -> RowType]
    BY <1>1, RowShapes DEF Submit, TypeOK
  <2>2. job' \in [Agents -> JobType] /\ JobShape'
    BY <1>0, <1>1, JobMoves, JobStep DEF Submit, Start
  <2>. QED
    BY <1>1, <2>1, <2>2 DEF Submit, TypeOK
<1>2. ASSUME NEW m \in Mail, Throw(m) PROVE TypeOK' /\ JobShape'
  <2>1. row' \in [Mail -> RowType]
    BY <1>2, RowShapes DEF Throw, Deleted, TypeOK
  <2>2. job' \in [Agents -> JobType] /\ JobShape'
    BY <1>0, <1>2, JobShapes, JobStep DEF Throw
  <2>. QED
    BY <1>2, <2>1, <2>2 DEF Throw, TypeOK
<1>3. ASSUME NEW m \in Mail, Resolve(m) PROVE TypeOK' /\ JobShape'
  <2>0. job[m].answer \in Answers /\ job[m].mail = m
    BY <1>0, <1>3 DEF Resolve, TypeOK, JobType, JobShape, Busy
  <2>1. row' \in [Mail -> RowType]
    BY <1>3, <2>0, RowShapes DEF Resolve, Updated, TypeOK
  <2>2. job' \in [Agents -> JobType] /\ JobShape'
    <3>1. CASE job[m].answer = "suppressed"
      BY <1>0, <1>3, <3>1, JobShapes, JobStep DEF Resolve
    <3>2. CASE job[m].answer # "suppressed"
      <4> DEFINE j == [job[m] EXCEPT !.pc = "written", !.age = 0]
      <4>1. j \in JobType /\ j.pc = "written" /\ j.mail = m
        BY <1>0, <2>0, JobMoves DEF TypeOK, JobType
      <4>2. job' = [job EXCEPT ![m] = j]
        BY <1>3, <3>2 DEF Resolve
      <4>. QED
        BY <1>0, <4>1, <4>2, JobStep
    <3>. QED
      BY <3>1, <3>2
  <2>. QED
    BY <1>3, <2>1, <2>2 DEF Resolve, TypeOK
<1>4. ASSUME NEW m \in Mail, Record(m) PROVE TypeOK' /\ JobShape'
  <2>1. sent' \in [Mail -> {"none", "sent", "retrying", "failed"}]
    <3>1. Outcome(m, job[m].answer) \in {"sent", "failed", "retrying"}
      BY DEF Outcome
    <3>. QED
      BY <1>4, <3>1 DEF Record, TypeOK
  <2>2. job' \in [Agents -> JobType] /\ JobShape'
    BY <1>0, <1>4, JobShapes, JobStep DEF Record
  <2>. QED
    BY <1>4, <2>1, <2>2 DEF Record, TypeOK
<1>5. ASSUME NEW m \in Mail, Confirm(m) PROVE TypeOK' /\ JobShape'
  <2>1. row' \in [Mail -> RowType]
    BY <1>5, RowShapes DEF Confirm, Deleted, TypeOK
  <2>2. sent' \in [Mail -> {"none", "sent", "retrying", "failed"}]
    BY <1>5 DEF Confirm, TypeOK
  <2>. QED
    BY <1>5, <2>1, <2>2 DEF Confirm, TypeOK, JobShape, Busy
<1>6. ASSUME NEW m \in Mail, Retry(m) PROVE TypeOK' /\ JobShape'
  <2>1. row' \in [Mail -> RowType]
    BY <1>6, RowShapes DEF Retry, TypeOK
  <2>2. hist' \in [Mail -> HistType]
    <3>1. Raced(m) \in BOOLEAN
      BY DEF Raced, TypeOK, HistType
    <3>2. PICK n \in Nat, b \in BOOLEAN :
            hist' = [hist EXCEPT ![m].calls = n, ![m].raced = b]
      <4>1. hist[m].calls \in Nat
        BY DEF TypeOK, HistType
      <4>. QED
        BY <1>6, <3>1, <4>1 DEF Retry
    <3>. QED
      BY <3>2 DEF TypeOK, HistType
  <2>3. todo' \in [Passes -> SUBSET Mail]
    BY <1>6 DEF Retry, TypeOK
  <2>. QED
    BY <1>6, <2>1, <2>2, <2>3 DEF Retry, TypeOK, JobShape, Busy
<1>7. ASSUME NEW m \in Mail, Cancel(m) PROVE TypeOK' /\ JobShape'
  <2>1. row' \in [Mail -> RowType]
    BY <1>7, RowShapes DEF Cancel, Deleted, TypeOK
  <2>2. hist' \in [Mail -> HistType]
    <3>1. Raced(m) \in BOOLEAN
      BY DEF Raced, TypeOK, HistType
    <3>. QED
      BY <1>7, <3>1 DEF Cancel, TypeOK, HistType
  <2>3. job' \in [Agents -> JobType] /\ JobShape'
    BY <1>0, <1>7, JobMoves, JobStep DEF Cancel, Free
  <2>. QED
    BY <1>7, <2>1, <2>2, <2>3 DEF Cancel, TypeOK
<1>8. ASSUME NEW m \in Mail, Suppress(m) PROVE TypeOK' /\ JobShape'
  BY <1>8 DEF Suppress, TypeOK, JobShape, Busy
<1>9. ASSUME NEW p \in Passes, NEW m \in Mail, Claim(p, m) PROVE TypeOK' /\ JobShape'
  <2>1. todo' \in [Passes -> SUBSET Mail]
    BY <1>9 DEF Claim, TypeOK
  <2>2. CASE Due(m)
    <3>1. row' \in [Mail -> RowType]
      BY <1>0, <1>9, <2>2 DEF Claim, TypeOK, RowType
    <3>2. hist' \in [Mail -> HistType]
      <4>1. Raced(m) \in BOOLEAN
        BY DEF Raced, TypeOK, HistType
      <4>. QED
        BY <1>9, <2>2, <4>1 DEF Claim, TypeOK, HistType
    <3>3. job' \in [Agents -> JobType] /\ JobShape'
      <4> DEFINE j == [pc |-> "claimed", mail |-> m, answer |-> "none",
                       last |-> row[m].attempts + 1 >= MaxAttempts, age |-> 0]
      <4>1. (row[m].attempts + 1 >= MaxAttempts) \in BOOLEAN
        OBVIOUS
      <4>2. j \in JobType /\ j.pc = "claimed" /\ j.mail = m
        BY <1>0, <4>1, JobMoves
      <4>3. job' = [job EXCEPT ![p] = j]
        BY <1>9, <2>2 DEF Claim, Start
      <4>. QED
        BY <1>0, <4>2, <4>3, JobStep
    <3>. QED
      BY <1>9, <2>1, <3>1, <3>2, <3>3 DEF Claim, TypeOK
  <2>3. CASE ~Due(m)
    BY <1>9, <2>1, <2>3 DEF Claim, TypeOK, JobShape, Busy
  <2>. QED
    BY <2>2, <2>3
<1>10. ASSUME NEW p \in Passes, FirstWrite(p) PROVE TypeOK' /\ JobShape'
  <2> DEFINE m == job[p].mail
  <2>0. m \in Mail
    BY <1>0, <1>10 DEF FirstWrite, JobShape, Busy
  <2>1. row' \in [Mail -> RowType]
    <3>1. /\ Deleted(m) \in [Mail -> RowType]
          /\ Updated(m, Rearmed(p, m)) \in [Mail -> RowType]
          /\ Updated(m, Failed(m)) \in [Mail -> RowType]
      BY <2>0, RowShapes DEF Deleted, Updated, TypeOK
    <3>. QED
      BY <1>10, <3>1 DEF FirstWrite, TypeOK
  <2>2. sent' \in [Mail -> {"none", "sent", "retrying", "failed"}]
    BY <1>10 DEF FirstWrite, Marked, TypeOK
  <2>3. job' \in [Agents -> JobType] /\ JobShape'
    <3> DEFINE j == [job[p] EXCEPT !.pc = "written"]
    <3>1. j \in JobType /\ j.pc = "written" /\ j.mail = m
      BY <1>0, JobMoves DEF TypeOK, JobType
    <3>2. job' = [job EXCEPT ![p] = j]
      BY <1>10 DEF FirstWrite
    <3>. QED
      BY <1>0, <2>0, <3>1, <3>2, JobStep
  <2>. QED
    BY <1>10, <2>1, <2>2, <2>3 DEF FirstWrite, TypeOK
<1>11. ASSUME NEW p \in Passes, SecondWrite(p) PROVE TypeOK' /\ JobShape'
  <2> DEFINE m == job[p].mail
  <2>0. m \in Mail
    BY <1>0, <1>11 DEF SecondWrite, JobShape, Busy
  <2>1. row' \in [Mail -> RowType]
    <3>1. Deleted(m) \in [Mail -> RowType] /\ Updated(m, Accepted(m)) \in [Mail -> RowType]
      BY <2>0, RowShapes DEF Deleted, Updated, TypeOK
    <3>. QED
      BY <1>11, <3>1 DEF SecondWrite, TypeOK
  <2>2. sent' \in [Mail -> {"none", "sent", "retrying", "failed"}]
    BY <1>11 DEF SecondWrite, Marked, TypeOK
  <2>3. job' \in [Agents -> JobType] /\ JobShape'
    BY <1>0, <1>11, JobShapes, JobStep DEF SecondWrite
  <2>. QED
    BY <1>11, <2>1, <2>2, <2>3 DEF SecondWrite, TypeOK
<1>12. ASSUME NEW p \in Passes, Abandon(p) PROVE TypeOK' /\ JobShape'
  <2>1. hist' \in [Mail -> HistType]
    BY <1>12 DEF Abandon, TypeOK, HistType
  <2>2. todo' \in [Passes -> SUBSET Mail]
    BY <1>12 DEF Abandon, DropList, TypeOK
  <2>3. faults' \in 0..MaxFaults
    BY <1>0, <1>12 DEF Abandon, TypeOK
  <2>4. queued' \in BOOLEAN /\ draining' \in BOOLEAN
    BY <1>12 DEF Abandon, DropList, TypeOK
  <2>. QED
    BY <1>12, <2>1, <2>2, <2>3, <2>4 DEF Abandon, TypeOK, JobShape, Busy
<1>13. ASSUME NEW a \in Agents, Admit(a) PROVE TypeOK' /\ JobShape'
  <2>0. job[a].mail \in Mail /\ (a \in Mail => job[a].mail = a) /\ job[a] \in JobType
    BY <1>13 DEF Admit, JobShape, Busy, TypeOK
  <2>1. PICK j \in JobType : /\ job' = [job EXCEPT ![a] = j]
                             /\ j.pc \in {"answered", "calling"}
                             /\ j.mail = job[a].mail
    <3> DEFINE s == [job[a] EXCEPT !.pc = "answered", !.answer = "suppressed"]
               h == [job[a] EXCEPT !.pc = "answered", !.answer = "held"]
               c == [job[a] EXCEPT !.pc = "calling"]
    <3>1. s \in JobType /\ h \in JobType /\ c \in JobType
      BY JobMoves DEF Answers
    <3>2. /\ s.mail = job[a].mail /\ h.mail = job[a].mail /\ c.mail = job[a].mail
          /\ s.pc = "answered" /\ h.pc = "answered" /\ c.pc = "calling"
      BY <2>0 DEF JobType
    <3>3. \E j \in {s, h, c} : job' = [job EXCEPT ![a] = j]
      BY <1>13 DEF Admit
    <3>. QED
      BY <3>1, <3>2, <3>3
  <2>2. job' \in [Agents -> JobType] /\ JobShape'
    BY <1>0, <2>0, <2>1, JobStep
  <2>. QED
    BY <1>13, <2>2 DEF Admit, TypeOK
<1>14. ASSUME NEW a \in Agents, Transport(a) PROVE TypeOK' /\ JobShape'
  <2> DEFINE m == job[a].mail
  <2>0. m \in Mail /\ (a \in Mail => m = a) /\ job[a] \in JobType
    BY <1>14 DEF Transport, JobShape, Busy, TypeOK
  <2>1. PICK ans \in {"accepted", "transient", "permanent"}, arrived \in BOOLEAN :
          TransportAnswer(a, ans, arrived)
    BY <1>14 DEF Transport
  <2>2. job' \in [Agents -> JobType] /\ JobShape'
    <3> DEFINE j == [job[a] EXCEPT !.pc = "answered", !.answer = ans]
    <3>1. j \in JobType /\ j.pc = "answered" /\ j.mail = m
      <4>1. j \in JobType
        BY JobMoves DEF Answers
      <4>. QED
        BY <2>0, <4>1 DEF JobType
    <3>2. job' = [job EXCEPT ![a] = j]
      BY <2>1 DEF TransportAnswer
    <3>. QED
      BY <2>0, <3>1, <3>2, JobStep
  <2>3. hist' \in [Mail -> HistType]
    <3> DEFINE c == hist[m].calls + 1
               b == (ans = "permanent")
               d == IF arrived
                    THEN hist[m].delivered + IF Keyed /\ hist[m].delivered > 0 THEN 0 ELSE 1
                    ELSE hist[m].delivered
               l == IF arrived /\ ans # "accepted" THEN hist[m].lost + 1 ELSE hist[m].lost
    <3>1. hist' = [hist EXCEPT ![m].calls = c, ![m].refused = b,
                               ![m].delivered = d, ![m].lost = l]
      BY <2>1 DEF TransportAnswer
    <3>2. c \in Nat /\ b \in BOOLEAN /\ d \in Nat /\ l \in Nat
      BY <2>0 DEF TypeOK, HistType
    <3> HIDE DEF c, b, d, l
    <3>. QED
      BY <2>0, <3>1, <3>2 DEF TypeOK, HistType
  <2>4. faults' \in 0..MaxFaults
    BY <1>0, <2>1 DEF TransportAnswer, TypeOK
  <2>. QED
    BY <1>14, <2>2, <2>3, <2>4 DEF Transport, TypeOK
<1>15. ASSUME NEW a \in Agents, Die(a) PROVE TypeOK' /\ JobShape'
  <2>1. job' \in [Agents -> JobType] /\ JobShape'
    BY <1>0, <1>15, JobShapes, JobStep DEF Die
  <2>2. hist' \in [Mail -> HistType]
    <3>1. job[a].mail \in Mail
      BY <1>15 DEF Die, JobShape
    <3>2. hist[job[a].mail].died \in Nat /\ hist[job[a].mail].lost \in Nat
      BY <3>1 DEF TypeOK, HistType
    <3> DEFINE l == IF job[a].answer = "accepted" /\ row[job[a].mail].status = "pending"
                    THEN hist[job[a].mail].lost + 1 ELSE hist[job[a].mail].lost
    <3>3. hist' = [hist EXCEPT ![job[a].mail].died = @ + 1, ![job[a].mail].lost = l]
      BY <1>15 DEF Die
    <3>4. l \in Nat
      BY <3>2
    <3> HIDE DEF l
    <3>. QED
      BY <3>1, <3>2, <3>3, <3>4 DEF TypeOK, HistType
  <2>3. faults' \in 0..MaxFaults
    BY <1>0, <1>15 DEF Die, TypeOK
  <2>4. todo' \in [Passes -> SUBSET Mail] /\ queued' \in BOOLEAN /\ draining' \in BOOLEAN
    BY <1>15 DEF Die, DropList, TypeOK
  <2>. QED
    BY <1>15, <2>1, <2>2, <2>3, <2>4 DEF Die, TypeOK
<1>16. CASE StartCron \/ StartDrain \/ FinishDrain \/ Pause \/ Resume
  <2>1. todo' \in [Passes -> SUBSET Mail]
    BY <1>16 DEF StartCron, StartDrain, FinishDrain, Pause, Resume, TypeOK
  <2>2. paused' \in BOOLEAN /\ queued' \in BOOLEAN /\ draining' \in BOOLEAN
    BY <1>16 DEF StartCron, StartDrain, FinishDrain, Pause, Resume, TypeOK
  <2>3. UNCHANGED <<row, sent, job, suppressed, hist, faults>>
    BY <1>16 DEF StartCron, StartDrain, FinishDrain, Pause, Resume
  <2>. QED
    BY <2>1, <2>2, <2>3 DEF TypeOK, JobShape, Busy
<1>17. CASE Tick
  <2>1. row' \in [Mail -> RowType]
    BY <1>17, RowShapes DEF Tick, TypeOK
  <2>2. \A a \in Agents : /\ job'[a] \in JobType /\ job'[a].pc = job[a].pc
                          /\ job'[a].mail = job[a].mail
    <3> SUFFICES ASSUME NEW a \in Agents
                 PROVE  /\ job'[a] \in JobType /\ job'[a].pc = job[a].pc
                        /\ job'[a].mail = job[a].mail
      OBVIOUS
    <3>1. CASE Busy(a)
      <4>1. job'[a] = [job[a] EXCEPT !.age = @ + 1]
        BY <1>17, <3>1 DEF Tick
      <4>2. job[a].age + 1 \in 0..RunLimit
        BY <1>0, <1>17, <3>1 DEF Tick, TypeOK, JobType
      <4>. QED
        BY <4>1, <4>2 DEF TypeOK, JobType
    <3>2. CASE ~Busy(a)
      BY <1>17, <3>2 DEF Tick, TypeOK
    <3>. QED
      BY <3>1, <3>2
  <2>3. job' \in [Agents -> JobType]
    BY <1>17, <2>2 DEF Tick
  <2>4. JobShape'
    BY <1>0, <2>2 DEF JobShape, Busy
  <2>. QED
    BY <1>17, <2>1, <2>3, <2>4 DEF Tick, TypeOK
<1>18. CASE UNCHANGED vars
  BY <1>18 DEF vars, TypeOK, JobShape, Busy
<1>. QED
  BY <1>1, <1>2, <1>3, <1>4, <1>5, <1>6, <1>7, <1>8, <1>9, <1>10, <1>11, <1>12, <1>13,
     <1>14, <1>15, <1>16, <1>17, <1>18 DEF Next, Inline, Attempt, Call

\* The state of the outbox, of its passes and of its callers is well-formed,
\* and an agent in an attempt works on one message, its own if it is inline.
THEOREM TypeCorrect == Spec => [](TypeOK /\ JobShape)
<1>. QED
  BY TypeInit, TypeStep, PTL DEF Spec

-----------------------------------------------------------------------------
(* Who may touch a row.  An agent owns a row from the statement that claims *)
(* it to the one that resolves it: a pass whose message was accepted still  *)
(* has to delete it.  The row of an owner is pending, and its lease outlasts*)
(* the attempt, so that no other agent finds it due or cancelable.          *)

Owns(a, m) ==
    /\ job[a].mail = m
    /\ \/ job[a].pc \in {"claimed", "calling", "answered"}
       \/ a \in Passes /\ job[a].pc = "written" /\ job[a].answer = "accepted"

Leased ==
    \A a \in Agents, m \in Mail :
        Owns(a, m) => row[m].status = "pending" /\ row[m].wait + job[a].age >= Lease

Unsent == \A m \in Mail : job[m].pc = "new" => row[m].status = "none"

Unanswered == \A a \in Agents : job[a].pc \in {"claimed", "calling"} => job[a].answer = "none"

OneOwner == \A m \in Mail : \A a, b \in Agents : Owns(a, m) /\ Owns(b, m) => a = b

LockInv == Leased /\ Unsent /\ Unanswered /\ OneOwner

\* What an owner keeps others from doing.
LEMMA OwnedRow ==
    ASSUME TypeOK, LockInv, NEW a \in Agents, NEW m \in Mail, Owns(a, m)
    PROVE  /\ row[m].status = "pending"
           /\ ~Due(m)
           /\ ~Cancelable(m)
<1>1. /\ row[m].wait \in Nat /\ job[a].age \in 0..RunLimit
      /\ row[m].status = "pending" /\ row[m].wait + job[a].age >= Lease
  BY TimeAssumption DEF LockInv, Leased, TypeOK, RowType, JobType
<1>2. /\ row[m].wait > CoolDown /\ CoolDown > 0
  BY <1>1, TimeAssumption
<1>. QED
  BY <1>1, <1>2, TimeAssumption DEF Due, Cancelable

\* A step in which no agent gains a row, and no row changes but one that no
\* agent owns afterwards.
LEMMA LockFrame ==
    ASSUME TypeOK, LockInv,
           \A b \in Agents :
               \/ job'[b] = job[b]
               \/ /\ job'[b].pc # "new"
                  /\ job'[b].pc \in {"claimed", "calling"} => job'[b].answer = "none"
                  /\ \A n \in Mail : Owns(b, n)' => Owns(b, n) /\ job'[b].age = job[b].age,
           \A n \in Mail :
               \/ row'[n] = row[n]
               \/ /\ \A b \in Agents : ~Owns(b, n)'
                  /\ row[n].status = "none" => row'[n].status = "none"
    PROVE  LockInv'
<1>1. \A b \in Agents, n \in Mail : Owns(b, n)' => Owns(b, n) /\ job'[b].age = job[b].age
  BY DEF Owns
<1>2. Leased'
  BY <1>1 DEF LockInv, Leased
<1>3. Unsent'
  BY DEF LockInv, Unsent, Agents
<1>4. Unanswered'
  BY DEF LockInv, Unanswered
<1>5. OneOwner'
  BY <1>1 DEF LockInv, OneOwner
<1>. QED
  BY <1>2, <1>3, <1>4, <1>5 DEF LockInv

\* A step in which one agent takes a row that nobody owns, for a whole lease.
LEMMA LockTake ==
    ASSUME TypeOK, LockInv, NEW a \in Agents, NEW m \in Mail,
           \A b \in Agents : ~Owns(b, m),
           \A b \in Agents \ {a} : job'[b] = job[b],
           job'[a].pc = "claimed", job'[a].answer = "none",
           job'[a].mail = m, job'[a].age = 0,
           \A n \in Mail \ {m} : row'[n] = row[n],
           row'[m].status = "pending", row'[m].wait = Lease,
           job[m].pc # "new" \/ m = a
    PROVE  LockInv'
<1>1. \A b \in Agents, n \in Mail :
        Owns(b, n)' => IF b = a THEN n = m ELSE n # m /\ Owns(b, n)
  BY DEF Owns
<1>2. Leased'
  BY <1>1, TimeAssumption DEF LockInv, Leased
<1>3. Unsent'
  BY DEF LockInv, Unsent, Agents
<1>4. Unanswered'
  BY DEF LockInv, Unanswered
<1>5. OneOwner'
  BY <1>1 DEF LockInv, OneOwner
<1>. QED
  BY <1>2, <1>3, <1>4, <1>5 DEF LockInv

\* Nobody holds a lock at the start.
LEMMA LockInit == Init => LockInv
<1> SUFFICES ASSUME Init PROVE LockInv
  OBVIOUS
<1>1. \A a \in Agents : job[a].pc \in {"new", "idle"}
  BY DEF Init, Idle, Fresh
<1>2. \A m \in Mail : row[m].status = "none"
  BY DEF Init, NoRow
<1>. QED
  BY <1>1, <1>2 DEF LockInv, Leased, Unsent, Unanswered, OneOwner, Owns

\* Every step keeps the locks apart.
LEMMA LockStep == TypeOK /\ JobShape /\ LockInv /\ [Next]_vars => LockInv'
<1> SUFFICES ASSUME TypeOK, JobShape, LockInv, [Next]_vars
             PROVE  LockInv'
  OBVIOUS
<1>0. /\ Mail \cap Passes = {} /\ Mail \subseteq Agents /\ Passes \subseteq Agents
      /\ job \in [Agents -> JobType] /\ row \in [Mail -> RowType]
  BY MailAssumption DEF Agents, TypeOK
<1>1. ASSUME NEW m \in Mail, Submit(m) PROVE LockInv'
  <2>1. \A b \in Agents : ~Owns(b, m)
    BY <1>0, <1>1, OwnedRow DEF Submit, LockInv, Unsent
  <2>. QED
    BY <1>0, <1>1, <2>1, LockTake DEF Submit, Start, WrittenAhead
<1>2. ASSUME NEW m \in Mail, Throw(m) PROVE LockInv'
  <2>1. Owns(m, m)
    BY <1>2 DEF Throw, Owns, JobShape, Busy
  <2>2. \A b \in Agents : ~Owns(b, m)'
    BY <1>0, <1>2, <2>1 DEF Throw, Owns, LockInv, OneOwner, Done, Idle
  <2>3. \A n \in Mail : ~Owns(m, n)'
    BY <1>0, <1>2 DEF Throw, Owns, Done, Idle
  <2>. QED
    BY <1>0, <1>2, <2>2, <2>3, LockFrame, JobShapes DEF Throw, Deleted, NoRow
<1>3. ASSUME NEW m \in Mail, Resolve(m) PROVE LockInv'
  <2>0. Owns(m, m)
    BY <1>3 DEF Resolve, Owns, JobShape, Busy
  <2>1. /\ job'[m].pc \in {"done", "written"}
        /\ \A b \in Agents \ {m} : job'[b] = job[b]
    BY <1>0, <1>3, JobShapes DEF Resolve, Done, Idle, JobType
  <2>2. \A n \in Mail : ~Owns(m, n)'
    BY <1>0, <2>1 DEF Owns
  <2>3. \A b \in Agents : ~Owns(b, m)'
    BY <1>0, <2>0, <2>1, <2>2 DEF Owns, LockInv, OneOwner
  <2>4. \A n \in Mail : n # m => row'[n] = row[n]
    BY <1>0, <1>3 DEF Resolve, Updated
  <2>5. row[m].status # "none"
    BY <1>0, <2>0, OwnedRow
  <2>. QED
    BY <1>0, <2>1, <2>2, <2>3, <2>4, <2>5, LockFrame
<1>4. ASSUME NEW m \in Mail, Record(m) PROVE LockInv'
  <2>1. \A n \in Mail : ~Owns(m, n)'
    BY <1>0, <1>4 DEF Record, Owns, Done, Idle
  <2>. QED
    BY <1>0, <1>4, <2>1, LockFrame, JobShapes DEF Record
<1>5. ASSUME NEW m \in Mail, Confirm(m) PROVE LockInv'
  <2>1. \A b \in Agents : ~Owns(b, m)'
    BY <1>0, <1>5, OwnedRow DEF Confirm, Owns
  <2>. QED
    BY <1>0, <1>5, <2>1, LockFrame DEF Confirm, Deleted
<1>6. ASSUME NEW m \in Mail, Retry(m) PROVE LockInv'
  <2>1. \A b \in Agents : ~Owns(b, m)'
    BY <1>0, <1>6, OwnedRow DEF Retry, Owns
  <2>. QED
    BY <1>0, <1>6, <2>1, LockFrame DEF Retry, Due
<1>7. ASSUME NEW m \in Mail, Cancel(m) PROVE LockInv'
  <2>1. \A n \in Mail : ~Owns("user", n)'
    BY <1>0, <1>7 DEF Cancel, Free, Owns
  <2>2. \A b \in Agents : ~Owns(b, m)'
    BY <1>0, <1>7, <2>1, OwnedRow DEF Cancel, Free, Owns
  <2>. QED
    BY <1>0, <1>7, <2>1, <2>2, LockFrame DEF Cancel, Free, Deleted, NoRow
<1>8. ASSUME NEW m \in Mail, Suppress(m) PROVE LockInv'
  BY <1>8, LockFrame DEF Suppress
<1>9. ASSUME NEW p \in Passes, NEW m \in Mail, Claim(p, m) PROVE LockInv'
  <2>1. CASE Due(m)
    <3>1. \A b \in Agents : ~Owns(b, m)
      BY <2>1, OwnedRow
    <3>2. job[m].pc # "new"
      BY <1>0, <2>1 DEF LockInv, Unsent, Due
    <3>3. row'[m].status = "pending" /\ row'[m].wait = Lease
      BY <1>0, <1>9, <2>1 DEF Claim, Due, RowType
    <3>. QED
      BY <1>0, <1>9, <2>1, <3>1, <3>2, <3>3, LockTake DEF Claim, Start
  <2>2. CASE ~Due(m)
    BY <1>9, <2>2, LockFrame DEF Claim
  <2>. QED
    BY <2>1, <2>2
<1>10. ASSUME NEW p \in Passes, FirstWrite(p) PROVE LockInv'
  <2>9. PICK m \in Mail : m = job[p].mail
    BY <1>0, <1>10 DEF FirstWrite, JobShape, Busy
  <2>0. m = job[p].mail /\ Owns(p, m) /\ row[m].status # "none"
    BY <1>0, <1>10, <2>9, OwnedRow DEF FirstWrite, Owns
  <2>1. /\ job'[p] = [job[p] EXCEPT !.pc = "written"]
        /\ \A b \in Agents \ {p} : job'[b] = job[b]
    BY <1>0, <1>10 DEF FirstWrite
  <2>2. /\ job'[p].pc = "written" /\ job'[p].age = job[p].age /\ job'[p].mail = m
        /\ job'[p].answer = job[p].answer
    BY <1>0, <2>0, <2>1 DEF JobType
  <2>3. \A n \in Mail : Owns(p, n)' => Owns(p, n)
    BY <1>10, <2>2 DEF FirstWrite, Owns
  <2>4. CASE job[p].answer = "accepted"
    <3>1. row' = row
      BY <1>10, <2>4 DEF FirstWrite, Retries
    <3>. QED
      BY <1>0, <2>1, <2>2, <2>3, <3>1, LockFrame
  <2>5. CASE job[p].answer # "accepted"
    <3>1. \A b \in Agents : ~Owns(b, m)'
      <4>1. ~Owns(p, m)'
        BY <2>2, <2>5 DEF Owns
      <4>2. \A b \in Agents \ {p} : Owns(b, m)' => Owns(b, m)
        BY <2>1 DEF Owns
      <4>. QED
        BY <1>0, <2>0, <4>1, <4>2 DEF LockInv, OneOwner
    <3>2. \A n \in Mail : n # m => row'[n] = row[n]
      BY <1>0, <1>10, <2>0, <2>5 DEF FirstWrite, Updated, Deleted
    <3>. QED
      BY <1>0, <2>0, <2>1, <2>2, <2>3, <3>1, <3>2, LockFrame
  <2>. QED
    BY <2>4, <2>5
<1>11. ASSUME NEW p \in Passes, SecondWrite(p) PROVE LockInv'
  <2>0. PICK m \in Mail : m = job[p].mail
    BY <1>0, <1>11 DEF SecondWrite, JobShape, Busy
  <2>1. \A n \in Mail : ~Owns(p, n)'
    BY <1>0, <1>11, JobShapes DEF SecondWrite, Owns
  <2>2. CASE job[p].answer = "accepted"
    <3>1. Owns(p, m) /\ row[m].status # "none"
      BY <1>0, <1>11, <2>0, <2>2, OwnedRow DEF SecondWrite, Owns
    <3>2. \A b \in Agents : ~Owns(b, m)'
      BY <1>0, <1>11, <2>0, <2>1, <3>1 DEF SecondWrite, Owns, LockInv, OneOwner
    <3>3. \A n \in Mail : n # m => row'[n] = row[n]
      BY <1>0, <1>11, <2>0, <2>2 DEF SecondWrite, Updated, Deleted
    <3>. QED
      BY <1>0, <1>11, <2>1, <3>1, <3>2, <3>3, LockFrame, JobShapes DEF SecondWrite
  <2>3. CASE job[p].answer # "accepted"
    BY <1>0, <1>11, <2>1, <2>3, LockFrame, JobShapes DEF SecondWrite
  <2>. QED
    BY <2>2, <2>3
<1>12. ASSUME NEW p \in Passes, Abandon(p) PROVE LockInv'
  BY <1>12, LockFrame DEF Abandon
<1>13. ASSUME NEW a \in Agents, Admit(a) PROVE LockInv'
  <2>1. /\ job'[a].pc \in {"answered", "calling"}
        /\ job'[a].mail = job[a].mail /\ job'[a].age = job[a].age
        /\ job'[a].pc = "calling" => job'[a].answer = "none"
        /\ \A b \in Agents \ {a} : job'[b] = job[b]
    BY <1>0, <1>13 DEF Admit, JobType, LockInv, Unanswered
  <2>2. \A n \in Mail : Owns(a, n)' => Owns(a, n)
    BY <1>13, <2>1 DEF Admit, Owns
  <2>. QED
    BY <1>13, <2>1, <2>2, LockFrame DEF Admit
<1>14. ASSUME NEW a \in Agents, Transport(a) PROVE LockInv'
  <2>1. /\ job'[a].pc = "answered"
        /\ job'[a].mail = job[a].mail /\ job'[a].age = job[a].age
        /\ \A b \in Agents \ {a} : job'[b] = job[b]
    BY <1>0, <1>14 DEF Transport, TransportAnswer, JobType
  <2>2. \A n \in Mail : Owns(a, n)' => Owns(a, n)
    BY <1>14, <2>1 DEF Transport, Owns
  <2>. QED
    BY <1>14, <2>1, <2>2, LockFrame DEF Transport
<1>15. ASSUME NEW a \in Agents, Die(a) PROVE LockInv'
  <2>1. /\ job'[a].pc \in {"done", "idle"}
        /\ \A b \in Agents \ {a} : job'[b] = job[b]
    BY <1>0, <1>15 DEF Die, Done, Idle
  <2>2. \A n \in Mail : ~Owns(a, n)'
    BY <2>1 DEF Owns
  <2>. QED
    BY <1>15, <2>1, <2>2, LockFrame DEF Die
<1>16. CASE StartCron \/ StartDrain \/ FinishDrain \/ Pause \/ Resume
  <2>1. UNCHANGED <<row, job>>
    BY <1>16 DEF StartCron, StartDrain, FinishDrain, Pause, Resume
  <2>. QED
    BY <2>1, LockFrame
<1>17. CASE Tick
  <2>1. \A n \in Mail : /\ row'[n].status = row[n].status
                        /\ row'[n].wait \in Nat /\ row[n].wait \in Nat
                        /\ row'[n].wait + 1 >= row[n].wait
    BY <1>0, <1>17, TimeAssumption DEF Tick, Later, RowType
  <2>2. \A b \in Agents : /\ job'[b].pc = job[b].pc /\ job'[b].mail = job[b].mail
                          /\ job'[b].answer = job[b].answer
                          /\ job[b].age \in Nat
                          /\ job[b].pc \in {"claimed", "calling", "answered", "written"} =>
                                job'[b].age = job[b].age + 1
    BY <1>0, <1>17, TimeAssumption DEF Tick, Busy, JobType
  <2>3. \A b \in Agents, n \in Mail :
          /\ Owns(b, n)' => Owns(b, n)
          /\ Owns(b, n) => job'[b].age = job[b].age + 1
    BY <2>2 DEF Owns
  <2>4. Leased'
    <3> SUFFICES ASSUME NEW b \in Agents, NEW n \in Mail, Owns(b, n)'
                 PROVE  row'[n].status = "pending" /\ row'[n].wait + job'[b].age >= Lease
      BY DEF Leased
    <3>1. row[n].status = "pending" /\ row[n].wait + job[b].age >= Lease
      BY <2>3 DEF LockInv, Leased
    <3>. QED
      BY <2>1, <2>2, <2>3, <3>1, TimeAssumption
  <2>5. Unsent' /\ Unanswered'
    BY <1>0, <2>1, <2>2 DEF LockInv, Unsent, Unanswered
  <2>6. OneOwner'
    BY <2>3 DEF LockInv, OneOwner
  <2>. QED
    BY <2>4, <2>5, <2>6 DEF LockInv
<1>18. CASE UNCHANGED vars
  BY <1>18, LockFrame DEF vars
<1>. QED
  BY <1>1, <1>2, <1>3, <1>4, <1>5, <1>6, <1>7, <1>8, <1>9, <1>10, <1>11, <1>12, <1>13,
     <1>14, <1>15, <1>16, <1>17, <1>18 DEF Next, Inline, Attempt, Call

\* The claim's conditional UPDATE and the lease keep every two agents apart, for
\* any number of messages and however long an attempt takes within RunLimit.
THEOREM MutualExclusion == Spec => []OneAttemptPerRow
<1>1. LockInv => OneAttemptPerRow
  BY DEF LockInv, OneOwner, OneAttemptPerRow, Owns, Holding
<1>. QED
  BY <1>1, TypeInit, TypeStep, LockInit, LockStep, PTL DEF Spec

-----------------------------------------------------------------------------
(* What a message may cost.  One that is out, delivered more often than its *)
(* answers were lost, is beyond the reach of another attempt: its row is    *)
(* gone, or its owner's, or still owned by the agent that was told.         *)

Out(m) == hist[m].delivered > hist[m].lost

Told(m) == \E a \in Agents : Owns(a, m) /\ job[a].answer = "accepted"

Counted(m) ==
    /\ Keyed => hist[m].delivered <= 1
    /\ hist[m].delivered <= 1 + hist[m].lost
    /\ Out(m) => /\ row[m].status # "failed"
                 /\ job[m].pc # "new"
                 /\ row[m].status = "pending" => Told(m)

OutInv == \A m \in Mail : Counted(m)

\* An attempt that has not been told of an acceptance is on a message that is
\* not out, and so is a row that is due.
LEMMA NotOut ==
    ASSUME TypeOK, LockInv, OutInv, NEW m \in Mail,
           \/ Due(m)
           \/ \E a \in Agents : Owns(a, m) /\ job[a].answer # "accepted"
    PROVE  ~Out(m)
<1>1. CASE Due(m)
  <2>1. ~Told(m)
    BY <1>1, OwnedRow DEF Told
  <2>. QED
    BY <1>1, <2>1 DEF Due, OutInv, Counted
<1>2. ASSUME NEW a \in Agents, Owns(a, m), job[a].answer # "accepted" PROVE ~Out(m)
  <2>1. ~Told(m)
    BY <1>2 DEF Told, LockInv, OneOwner
  <2>. QED
    BY <1>2, <2>1, OwnedRow DEF OutInv, Counted
<1>. QED
  BY <1>1, <1>2

\* A step that delivers nothing of m, and tries nothing of it that is out.
LEMMA OutFrame ==
    ASSUME OutInv, NEW m \in Mail,
           hist'[m].delivered = hist[m].delivered, hist'[m].lost = hist[m].lost,
           job'[m].pc = "new" => job[m].pc = "new",
           \/ ~Out(m)
           \/ row'[m].status \in {"none", "bookkeeping_pending"}
           \/ /\ row'[m].status = row[m].status
              /\ Told(m) => Told(m)'
    PROVE  Counted(m)'
BY DEF OutInv, Counted, Out

\* The agents that were told of an acceptance still are, but for a.
LEMMA ToldFrame ==
    ASSUME NEW a \in Agents, NEW m \in Mail,
           \A b \in Agents \ {a} : job'[b] = job[b],
           \/ job'[a] = job[a]
           \/ ~Owns(a, m)
           \/ job[a].answer # "accepted"
    PROVE  Told(m) => Told(m)'
BY DEF Told, Owns

\* Nothing is out at the start.
LEMMA OutInit == Init => OutInv
BY DEF Init, OutInv, Counted, Out

\* One answer of a provider: what arrives counts, and who is told owns the row.
LEMMA OutTransport ==
    ASSUME TypeOK, JobShape, LockInv, OutInv, NEW a \in Agents, Transport(a)
    PROVE  OutInv'
<1>0. PICK m \in Mail : m = job[a].mail
  BY DEF Transport, JobShape, Busy
<1>1. m = job[a].mail /\ Owns(a, m) /\ job[a].answer = "none" /\ job[a] \in JobType
  BY <1>0 DEF Transport, Owns, LockInv, Unanswered, TypeOK
<1>2. ~Out(m)
  BY <1>1, NotOut
<1>3. PICK ans \in {"accepted", "transient", "permanent"}, arrived \in BOOLEAN :
        TransportAnswer(a, ans, arrived)
  BY DEF Transport
<1>4. /\ job'[a].pc = "answered" /\ job'[a].mail = m /\ job'[a].answer = ans
      /\ \A b \in Agents \ {a} : job'[b] = job[b]
  BY <1>1, <1>3 DEF TransportAnswer, TypeOK, JobType
<1>5. row' = row
  BY DEF Transport
<1>6. /\ hist[m].delivered \in Nat /\ hist[m].lost \in Nat /\ hist[m] \in HistType
      /\ hist[m].delivered <= hist[m].lost
  BY <1>1, <1>2 DEF TypeOK, HistType, Out
<1>7. Counted(m)'
  <2>1. /\ hist'[m].delivered = IF arrived
                                THEN hist[m].delivered + (IF Keyed /\ hist[m].delivered > 0 THEN 0 ELSE 1)
                                ELSE hist[m].delivered
        /\ hist'[m].lost = IF arrived /\ ans # "accepted" THEN hist[m].lost + 1 ELSE hist[m].lost
    BY <1>1, <1>3, <1>6 DEF TransportAnswer, TypeOK, HistType
  <2>2. Keyed \in BOOLEAN /\ (Keyed => hist[m].delivered <= 1)
    BY <1>1, KeyedAssumption DEF OutInv, Counted
  <2>3. hist'[m].delivered <= 1 + hist'[m].lost /\ (Keyed => hist'[m].delivered <= 1)
    BY <1>6, <2>1, <2>2
  <2>4. CASE ans # "accepted"
    <3>1. hist'[m].delivered <= hist'[m].lost
      BY <1>6, <2>1, <2>4
    <3>. QED
      BY <1>6, <2>1, <2>3, <3>1 DEF Counted, Out
  <2>5. CASE ans = "accepted"
    <3>1. Told(m)'
      BY <1>1, <1>4, <2>5 DEF Told, Owns
    <3>2. row'[m].status = "pending"
      BY <1>1, <1>5, OwnedRow
    <3>3. job'[m].pc # "new"
      BY <1>1, <1>4, OwnedRow DEF LockInv, Unsent, Agents
    <3>. QED
      BY <2>3, <3>1, <3>2, <3>3 DEF Counted
  <2>. QED
    BY <2>4, <2>5
<1>8. ASSUME NEW n \in Mail, n # m PROVE Counted(n)'
  <2>1. hist'[n] = hist[n]
    BY <1>1, <1>3, <1>8 DEF TransportAnswer, TypeOK
  <2>2. Told(n) => Told(n)'
    BY <1>1, <1>4, ToldFrame
  <2>3. job'[n].pc = "new" => job[n].pc = "new"
    BY <1>4 DEF Agents
  <2>. QED
    BY <1>5, <2>1, <2>2, <2>3, OutFrame
<1>. QED
  BY <1>7, <1>8 DEF OutInv

\* An agent that dies takes its answer with it.
LEMMA OutDie ==
    ASSUME TypeOK, JobShape, LockInv, OutInv, NEW a \in Agents, Die(a)
    PROVE  OutInv'
<1>1. PICK m \in Mail : m = job[a].mail
  BY DEF Die, JobShape
<1>2. /\ row' = row
      /\ job'[a].pc \in {"done", "idle"}
      /\ \A b \in Agents \ {a} : job'[b] = job[b]
  BY DEF Die, Done, Idle, TypeOK
<1>3. \A n \in Mail : job'[n].pc = "new" => job[n].pc = "new"
  BY <1>2 DEF Agents
<1>4. /\ \A n \in Mail : hist'[n].delivered = hist[n].delivered
      /\ \A n \in Mail : n # m => hist'[n].lost = hist[n].lost
      /\ hist'[m].lost = IF job[a].answer = "accepted" /\ row[m].status = "pending"
                         THEN hist[m].lost + 1 ELSE hist[m].lost
      /\ \A n \in Mail : hist[n].lost \in Nat /\ hist[n].delivered \in Nat
  BY <1>1 DEF Die, TypeOK, HistType
<1>5. CASE job[a].answer = "accepted" /\ row[m].status = "pending"
  <2>1. Counted(m)'
    <3>1. hist[m].delivered <= 1 + hist[m].lost /\ (Keyed => hist[m].delivered <= 1)
      BY <1>1 DEF OutInv, Counted
    <3>. QED
      BY <1>1, <1>4, <1>5, <3>1 DEF Counted, Out
  <2>2. ASSUME NEW n \in Mail, n # m PROVE Counted(n)'
    <3>0. ~Owns(a, n)
      BY <1>1, <2>2 DEF Owns
    <3>1. Told(n) => Told(n)'
      BY <1>2, <3>0, ToldFrame
    <3>. QED
      BY <1>2, <1>3, <1>4, <2>2, <3>1, OutFrame
  <2>. QED
    BY <2>1, <2>2 DEF OutInv
<1>6. CASE ~(job[a].answer = "accepted" /\ row[m].status = "pending")
  <2> SUFFICES ASSUME NEW n \in Mail PROVE Counted(n)'
    BY DEF OutInv
  <2>1. hist'[n].lost = hist[n].lost
    BY <1>1, <1>4, <1>6
  <2>2. ~Owns(a, n) \/ job[a].answer # "accepted"
    <3>1. Owns(a, n) => n = m /\ row[n].status = "pending"
      BY <1>1, OwnedRow DEF Owns
    <3>. QED
      BY <1>6, <3>1
  <2>3. Told(n) => Told(n)'
    BY <1>2, <2>2, ToldFrame
  <2>. QED
    BY <1>2, <1>3, <1>4, <2>1, <2>3, OutFrame
<1>. QED
  BY <1>5, <1>6

\* Every step keeps what is out accounted for.
LEMMA OutStep == TypeOK /\ JobShape /\ LockInv /\ OutInv /\ [Next]_vars => OutInv'
<1> SUFFICES ASSUME TypeOK, JobShape, LockInv, OutInv, [Next]_vars
             PROVE  OutInv'
  OBVIOUS
<1>0. /\ Mail \cap Passes = {} /\ Mail \subseteq Agents /\ Passes \subseteq Agents
      /\ job \in [Agents -> JobType] /\ row \in [Mail -> RowType] /\ hist \in [Mail -> HistType]
  BY MailAssumption DEF Agents, TypeOK
<1>1. ASSUME NEW m \in Mail, Submit(m) PROVE OutInv'
  <2> SUFFICES ASSUME NEW n \in Mail PROVE Counted(n)'
    BY DEF OutInv
  <2>1. CASE n = m
    <3>1. ~Out(m)
      BY <1>1 DEF Submit, OutInv, Counted
    <3>2. job'[m].pc # "new"
      BY <1>0, <1>1 DEF Submit, Start
    <3>. QED
      BY <1>1, <2>1, <3>1, <3>2, OutFrame DEF Submit
  <2>2. CASE n # m
    <3>1. /\ \A b \in Agents \ {m} : job'[b] = job[b]
          /\ job'[n] = job[n] /\ row'[n] = row[n]
      BY <1>0, <1>1, <2>2 DEF Submit, Start
    <3>2. ~Owns(m, n)
      BY <1>0, <1>1 DEF Submit, Owns
    <3>3. Told(n) => Told(n)'
      BY <1>0, <3>1, <3>2, ToldFrame
    <3>. QED
      BY <1>1, <3>1, <3>3, OutFrame DEF Submit
  <2>. QED
    BY <2>1, <2>2
<1>2. ASSUME NEW m \in Mail, Throw(m) \/ Resolve(m) \/ Record(m) PROVE OutInv'
  <2> SUFFICES ASSUME NEW n \in Mail PROVE Counted(n)'
    BY DEF OutInv
  <2>1. /\ \A b \in Agents \ {m} : job'[b] = job[b]
        /\ \A b \in Mail : job'[b].pc = "new" => job[b].pc = "new"
        /\ hist' = hist
        /\ n # m => row'[n] = row[n]
    <3>1. ASSUME NEW b \in Agents \ {m} PROVE job'[b] = job[b]
      BY <1>0, <1>2, <3>1 DEF Throw, Resolve, Record
    <3>2. job'[m].pc # "new"
      <4>1. job' = [job EXCEPT ![m] = Done] \/ job'[m].pc = "written"
        BY <1>0, <1>2 DEF Throw, Resolve, Record, JobType
      <4>2. job' = [job EXCEPT ![m] = Done] => job'[m] = Done
        BY <1>0
      <4>. QED
        BY <4>1, <4>2, JobShapes
    <3>3. hist' = hist
      BY <1>2 DEF Throw, Resolve, Record
    <3>4. n # m => row'[n] = row[n]
      BY <1>0, <1>2 DEF Throw, Resolve, Record, Deleted, Updated
    <3>. QED
      BY <1>0, <3>1, <3>2, <3>3, <3>4
  <2>2. CASE n # m
    <3>1. ~Owns(m, n)
      BY <1>0, <2>2 DEF JobShape, Busy, Owns
    <3>2. Told(n) => Told(n)'
      BY <1>0, <2>1, <3>1, ToldFrame
    <3>. QED
      BY <2>1, <2>2, <3>2, OutFrame
  <2>3. CASE n = m /\ Throw(m)
    <3>1. row'[m].status = "none"
      BY <1>0, <2>3 DEF Throw, Deleted, NoRow
    <3>. QED
      BY <2>1, <2>3, <3>1, OutFrame
  <2>4. CASE n = m /\ Resolve(m)
    <3>1. Owns(m, m)
      BY <1>0, <2>4 DEF Resolve, JobShape, Busy, Owns
    <3>2. CASE job[m].answer # "accepted"
      <4>1. ~Out(m)
        BY <1>0, <3>1, <3>2, NotOut
      <4>. QED
        BY <2>1, <2>4, <4>1, OutFrame
    <3>3. CASE job[m].answer = "accepted"
      <4>1. row'[m] = Resolved(m, "accepted") \/ row'[m].status = "none"
        BY <1>0, <2>4, <3>3 DEF Resolve, Updated
      <4>2. Resolved(m, "accepted").status \in {"none", "bookkeeping_pending"}
        BY DEF Resolved, Accepted, NoRow
      <4>. QED
        BY <2>1, <2>4, <4>1, <4>2, OutFrame
    <3>. QED
      BY <3>2, <3>3
  <2>5. CASE n = m /\ Record(m)
    <3>1. ~Owns(m, m)
      BY <1>0, <2>5 DEF Record, Owns
    <3>2. Told(m) => Told(m)'
      BY <1>0, <2>1, <3>1, ToldFrame
    <3>. QED
      BY <2>1, <2>5, <3>2, OutFrame DEF Record
  <2>. QED
    BY <1>2, <2>2, <2>3, <2>4, <2>5
<1>3. ASSUME NEW m \in Mail, Confirm(m) \/ Suppress(m) PROVE OutInv'
  <2> SUFFICES ASSUME NEW n \in Mail PROVE Counted(n)'
    BY DEF OutInv
  <2>1. /\ job' = job /\ hist' = hist
        /\ row'[n] = row[n] \/ row'[n].status = "none"
    BY <1>0, <1>3 DEF Confirm, Suppress, Deleted, NoRow
  <2>2. Told(n) => Told(n)'
    BY <2>1 DEF Told, Owns
  <2>. QED
    BY <2>1, <2>2, OutFrame
<1>4. ASSUME NEW m \in Mail, Retry(m) PROVE OutInv'
  <2> SUFFICES ASSUME NEW n \in Mail PROVE Counted(n)'
    BY DEF OutInv
  <2>1. /\ job' = job
        /\ n # m => row'[n] = row[n]
        /\ hist'[n].delivered = hist[n].delivered /\ hist'[n].lost = hist[n].lost
    BY <1>0, <1>4 DEF Retry, HistType
  <2>2. Told(n) => Told(n)'
    BY <2>1 DEF Told, Owns
  <2>3. ~Out(m)
    <3>1. CASE row[m].status = "failed"
      BY <3>1 DEF OutInv, Counted
    <3>2. CASE Due(m)
      BY <3>2, NotOut
    <3>. QED
      BY <1>4, <3>1, <3>2 DEF Retry
  <2>4. CASE n = m
    BY <2>1, <2>3, <2>4, OutFrame
  <2>5. CASE n # m
    BY <2>1, <2>2, <2>5, OutFrame
  <2>. QED
    BY <2>4, <2>5
<1>5. ASSUME NEW m \in Mail, Cancel(m) PROVE OutInv'
  <2> SUFFICES ASSUME NEW n \in Mail PROVE Counted(n)'
    BY DEF OutInv
  <2>0. "user" \in Agents /\ "user" \in Passes
    BY <1>0, <1>5 DEF Cancel, Free
  <2>1. /\ \A b \in Agents \ {"user"} : job'[b] = job[b]
        /\ job'["user"].pc = "written" /\ job["user"].pc = "idle"
        /\ row'[n] = row[n] \/ row'[n].status = "none"
        /\ hist'[n].delivered = hist[n].delivered /\ hist'[n].lost = hist[n].lost
    BY <1>0, <1>5, <2>0 DEF Cancel, Free, Deleted, NoRow, HistType
  <2>2. Told(n) => Told(n)'
    <3>1. ~Owns("user", n)
      BY <2>1 DEF Owns
    <3>. QED
      BY <2>0, <2>1, <3>1, ToldFrame
  <2>3. job'[n].pc = "new" => job[n].pc = "new"
    BY <1>0, <2>0, <2>1
  <2>. QED
    BY <2>1, <2>2, <2>3, OutFrame
<1>6. ASSUME NEW p \in Passes, NEW m \in Mail, Claim(p, m) PROVE OutInv'
  <2> SUFFICES ASSUME NEW n \in Mail PROVE Counted(n)'
    BY DEF OutInv
  <2>1. /\ \A b \in Agents \ {p} : job'[b] = job[b]
        /\ job[p].pc = "idle"
        /\ n # m => row'[n] = row[n]
        /\ ~Due(m) => row' = row
        /\ hist'[n].delivered = hist[n].delivered /\ hist'[n].lost = hist[n].lost
    BY <1>0, <1>6 DEF Claim, Start, HistType
  <2>2. ~Owns(p, n)
    BY <2>1 DEF Owns
  <2>3. Told(n) => Told(n)'
    BY <1>0, <2>1, <2>2, ToldFrame
  <2>4. job'[n].pc = "new" => job[n].pc = "new"
    BY <1>0, <2>1
  <2>5. n = m /\ Due(m) => ~Out(n)
    BY NotOut
  <2>. QED
    BY <2>1, <2>3, <2>4, <2>5, OutFrame
<1>7. ASSUME NEW p \in Passes, FirstWrite(p) PROVE OutInv'
  <2> SUFFICES ASSUME NEW n \in Mail PROVE Counted(n)'
    BY DEF OutInv
  <2>0. PICK m \in Mail : m = job[p].mail
    BY <1>0, <1>7 DEF FirstWrite, JobShape, Busy
  <2>1. /\ \A b \in Agents \ {p} : job'[b] = job[b]
        /\ job'[p].pc = "written" /\ job'[p].mail = m /\ job'[p].answer = job[p].answer
        /\ n # m => row'[n] = row[n]
        /\ job[p].answer = "accepted" => row' = row
        /\ hist' = hist
    BY <1>0, <1>7, <2>0 DEF FirstWrite, Retries, Deleted, Updated, JobType
  <2>2. job'[n].pc = "new" => job[n].pc = "new"
    BY <1>0, <2>1
  <2>3. Owns(p, m)
    BY <1>7, <2>0 DEF FirstWrite, Owns
  <2>4. CASE job[p].answer = "accepted"
    <3>1. Told(n) => Told(n)'
      BY <1>0, <2>0, <2>1, <2>4 DEF Told, Owns
    <3>. QED
      BY <2>1, <2>2, <2>4, <3>1, OutFrame
  <2>5. CASE job[p].answer # "accepted"
    <3>1. ~Out(m)
      BY <1>0, <2>3, <2>5, NotOut
    <3>2. Told(n) => Told(n)'
      BY <1>0, <2>1, <2>5, ToldFrame
    <3>. QED
      BY <2>1, <2>2, <3>1, <3>2, OutFrame
  <2>. QED
    BY <2>4, <2>5
<1>8. ASSUME NEW p \in Passes, SecondWrite(p) PROVE OutInv'
  <2> SUFFICES ASSUME NEW n \in Mail PROVE Counted(n)'
    BY DEF OutInv
  <2>0. PICK m \in Mail : m = job[p].mail
    BY <1>0, <1>8 DEF SecondWrite, JobShape, Busy
  <2>1. /\ \A b \in Agents \ {p} : job'[b] = job[b]
        /\ n # m => row'[n] = row[n]
        /\ job[p].answer # "accepted" => row' = row
        /\ hist' = hist
    BY <1>0, <1>8, <2>0 DEF SecondWrite, Deleted, Updated
  <2>2. job'[n].pc = "new" => job[n].pc = "new"
    BY <1>0, <2>1
  <2>3. CASE n = m /\ job[p].answer = "accepted"
    <3>1. row'[m].status \in {"none", "bookkeeping_pending"}
      BY <1>0, <1>8, <2>0, <2>3 DEF SecondWrite, Deleted, Updated, Accepted, NoRow
    <3>. QED
      BY <2>1, <2>2, <2>3, <3>1, OutFrame
  <2>4. CASE ~(n = m /\ job[p].answer = "accepted")
    <3>1. ~Owns(p, n) \/ job[p].answer # "accepted"
      BY <2>0, <2>4 DEF Owns
    <3>2. Told(n) => Told(n)'
      BY <1>0, <2>1, <3>1, ToldFrame
    <3>. QED
      BY <2>1, <2>2, <2>4, <3>2, OutFrame
  <2>. QED
    BY <2>3, <2>4
<1>9. ASSUME NEW p \in Passes, Abandon(p) PROVE OutInv'
  <2> SUFFICES ASSUME NEW n \in Mail PROVE Counted(n)'
    BY DEF OutInv
  <2>1. /\ job' = job /\ row' = row
        /\ hist'[n].delivered = hist[n].delivered /\ hist'[n].lost = hist[n].lost
    BY <1>0, <1>9 DEF Abandon, HistType
  <2>2. Told(n) => Told(n)'
    BY <2>1 DEF Told, Owns
  <2>. QED
    BY <2>1, <2>2, OutFrame
<1>10. ASSUME NEW a \in Agents, Admit(a) PROVE OutInv'
  <2> SUFFICES ASSUME NEW n \in Mail PROVE Counted(n)'
    BY DEF OutInv
  <2>1. /\ \A b \in Agents \ {a} : job'[b] = job[b]
        /\ job'[a].pc \in {"answered", "calling"}
        /\ row' = row /\ hist' = hist
        /\ job[a].answer = "none"
    BY <1>0, <1>10 DEF Admit, JobType, LockInv, Unanswered
  <2>2. Told(n) => Told(n)'
    BY <2>1, ToldFrame
  <2>3. job'[n].pc = "new" => job[n].pc = "new"
    BY <1>0, <2>1
  <2>. QED
    BY <2>1, <2>2, <2>3, OutFrame
<1>11. CASE StartCron \/ StartDrain \/ FinishDrain \/ Pause \/ Resume \/ UNCHANGED vars
  <2>1. row' = row /\ job' = job /\ hist' = hist
    BY <1>11 DEF StartCron, StartDrain, FinishDrain, Pause, Resume, vars
  <2>. QED
    BY <2>1 DEF OutInv, Counted, Out, Told, Owns
<1>12. CASE Tick
  <2> SUFFICES ASSUME NEW n \in Mail PROVE Counted(n)'
    BY DEF OutInv
  <2>1. /\ hist' = hist /\ row'[n].status = row[n].status
        /\ \A b \in Agents : /\ job'[b].pc = job[b].pc /\ job'[b].mail = job[b].mail
                             /\ job'[b].answer = job[b].answer
    BY <1>0, <1>12 DEF Tick, Later, Busy, JobType, RowType
  <2>2. Told(n) => Told(n)'
    BY <2>1 DEF Told, Owns
  <2>. QED
    BY <1>0, <2>1, <2>2, OutFrame
<1>. QED
  BY <1>1, <1>2, <1>3, <1>4, <1>5, <1>6, <1>7, <1>8, <1>9, <1>10, <1>11, <1>12,
     OutTransport, OutDie DEF Next, Inline, Attempt, Call

\* Whatever dies, is lost, paused, cancelled or retried by hand, a recipient gets
\* a message once and once more for each acceptance nobody was told of, and no
\* more than once from a provider that honours the row's key.
THEOREM SentOnce == Spec => []NoDuplicate
<1>1. OutInv => NoDuplicate
  BY KeyedAssumption DEF OutInv, Counted, NoDuplicate
<1>. QED
  BY <1>1, TypeInit, TypeStep, LockInit, LockStep, OutInit, OutStep, PTL DEF Spec

-----------------------------------------------------------------------------
(* What waits for its owner's books.  Every statement that writes a row     *)
(* first finds it new, due, cancelable or its own; none of these is a row   *)
(* that was accepted and handed to its owner.                               *)

KeptOrBooked(m) ==
    row[m].status = "bookkeeping_pending" =>
        \/ row'[m].status = "bookkeeping_pending"
        \/ row'[m].status = "none" /\ sent'[m] # "none"

\* Every step keeps the row of an accepted message, or has it booked.
LEMMA HeldStep == TypeOK /\ JobShape /\ LockInv /\ [Next]_vars => \A n \in Mail : KeptOrBooked(n)
<1> SUFFICES ASSUME TypeOK, JobShape, LockInv, [Next]_vars,
                    NEW n \in Mail, row[n].status = "bookkeeping_pending"
             PROVE  \/ row'[n].status = "bookkeeping_pending"
                    \/ row'[n].status = "none" /\ sent'[n] # "none"
  BY DEF KeptOrBooked
<1>0. /\ Mail \subseteq Agents /\ Passes \subseteq Agents
      /\ row \in [Mail -> RowType]
      /\ sent \in [Mail -> {"none", "sent", "retrying", "failed"}]
  BY DEF Agents, TypeOK
<1>1. /\ \A a \in Agents : ~Owns(a, n)
      /\ job[n].pc # "new" /\ ~Due(n) /\ ~Cancelable(n)
  BY OwnedRow DEF LockInv, Leased, Unsent, Due, Cancelable
<1>2. ASSUME NEW m \in Mail, Inline(m) PROVE row'[n] = row[n]
  <2>1. CASE Submit(m)
    BY <1>0, <1>1, <2>1 DEF Submit
  <2>2. CASE Throw(m) \/ Resolve(m)
    <3>1. n # m
      BY <1>0, <1>1, <2>2 DEF Throw, Resolve, JobShape, Busy, Owns
    <3>. QED
      BY <1>0, <2>2, <3>1 DEF Throw, Resolve, Deleted, Updated
  <2>3. CASE Record(m)
    BY <2>3 DEF Record
  <2>. QED
    BY <1>2, <2>1, <2>2, <2>3 DEF Inline
<1>3. ASSUME NEW m \in Mail, Confirm(m)
      PROVE  \/ row'[n] = row[n]
             \/ row'[n].status = "none" /\ sent'[n] # "none"
  <2>1. CASE n = m
    <3>1. row'[m] = NoRow
      BY <1>0, <1>3 DEF Confirm, Deleted
    <3>2. sent'[m] = IF sent[m] = "none" THEN "sent" ELSE sent[m]
      BY <1>0, <1>3 DEF Confirm
    <3>. QED
      BY <2>1, <3>1, <3>2 DEF NoRow
  <2>2. CASE n # m
    BY <1>0, <1>3, <2>2 DEF Confirm, Deleted
  <2>. QED
    BY <2>1, <2>2
<1>4. ASSUME NEW m \in Mail, Retry(m) \/ Cancel(m) \/ Suppress(m) PROVE row'[n] = row[n]
  <2>1. CASE Retry(m)
    <3>1. n # m
      BY <1>1, <2>1 DEF Retry
    <3>. QED
      BY <1>0, <2>1, <3>1 DEF Retry
  <2>2. CASE Cancel(m)
    <3>1. n # m
      BY <1>1, <2>2 DEF Cancel
    <3>. QED
      BY <1>0, <2>2, <3>1 DEF Cancel, Deleted
  <2>3. CASE Suppress(m)
    BY <2>3 DEF Suppress
  <2>. QED
    BY <1>4, <2>1, <2>2, <2>3
<1>5. ASSUME NEW p \in Passes, Attempt(p) PROVE row'[n] = row[n]
  <2>1. CASE FirstWrite(p)
    <3>1. n # job[p].mail
      BY <1>0, <1>1, <2>1 DEF FirstWrite, Owns
    <3>. QED
      BY <1>0, <2>1, <3>1 DEF FirstWrite, Deleted, Updated
  <2>2. CASE SecondWrite(p)
    <3>1. job[p].answer = "accepted" => n # job[p].mail
      BY <1>0, <1>1, <2>2 DEF SecondWrite, Owns
    <3>. QED
      BY <1>0, <2>2, <3>1 DEF SecondWrite, Deleted, Updated
  <2>3. ASSUME NEW m \in Mail, Claim(p, m) PROVE row'[n] = row[n]
    BY <1>0, <1>1, <2>3 DEF Claim
  <2>. QED
    BY <1>5, <2>1, <2>2, <2>3 DEF Attempt
<1>6. ASSUME NEW a \in Agents, Call(a) \/ Die(a) PROVE row'[n] = row[n]
  BY <1>6 DEF Call, Admit, Transport, Die
<1>7. ASSUME NEW p \in Passes, Abandon(p) PROVE row'[n] = row[n]
  BY <1>7 DEF Abandon
<1>8. CASE StartCron \/ StartDrain \/ FinishDrain \/ Pause \/ Resume \/ UNCHANGED vars
  BY <1>8 DEF StartCron, StartDrain, FinishDrain, Pause, Resume, vars
<1>9. CASE Tick
  <2>1. row'[n].status = row[n].status
    BY <1>0, <1>9 DEF Tick, Later, RowType
  <2>. QED
    BY <2>1
<1>. QED
  BY <1>2, <1>3, <1>4, <1>5, <1>6, <1>7, <1>8, <1>9 DEF Next

\* Nothing but the owner's bookkeeping removes, cancels or re-sends a row that
\* was accepted for an owner, and it leaves a sent_emails row behind.
THEOREM OwnersRowKept == Spec => HeldForOwner
<1>1. TypeOK /\ JobShape /\ LockInv /\ [Next]_vars
         => [\A m \in Mail : row[m].status = "bookkeeping_pending" =>
                \/ row'[m].status = "bookkeeping_pending"
                \/ row'[m].status = "none" /\ sent'[m] # "none"]_vars
  BY HeldStep DEF KeptOrBooked
<1>. QED
  BY <1>1, TypeInit, TypeStep, LockInit, LockStep, PTL DEF Spec, HeldForOwner
-----------------------------------------------------------------------------
(* What a message has been charged.  The attempt count of a row at rest is  *)
(* the number of provider calls made, give or take the attempts that died.  *)
(* A pass counts its attempt when it claims the row, before the call; a     *)
(* first attempt counts itself when it resolves the row, after the call.    *)

Ledger(m, n) ==
    /\ n <= hist[m].calls + hist[m].died
    /\ hist[m].calls <= n + hist[m].died

\* The attempt of a has had an answer from a provider.
Called(a) ==
    /\ job[a].pc \in {"answered", "written"}
    /\ job[a].answer \in {"accepted", "transient", "permanent"}

FirstBooked(m) ==
    Owns(m, m) => row[m].attempts = 0 /\ Ledger(m, IF Called(m) THEN 1 ELSE 0)

PassBooked(p, m) ==
    Owns(p, m) =>
        /\ row[m].attempts > 0
        /\ Ledger(m, IF Called(p) THEN row[m].attempts ELSE row[m].attempts - 1)
        /\ job[p].last => row[m].attempts >= MaxAttempts

Heard(a, m) ==
    Owns(a, m) /\ job[a].pc = "answered" =>
        /\ job[a].answer \in {"accepted", "transient", "permanent", "held", "suppressed"}
        /\ job[a].answer = "permanent" => hist[m].refused

RestBooked(m) ==
    row[m].status = "pending" /\ (\A a \in Agents : ~Owns(a, m)) => Ledger(m, row[m].attempts)

GivenUp(m) ==
    row[m].status = "failed" => \/ hist[m].refused
                                \/ hist[m].calls + hist[m].died >= MaxAttempts

Booked(m) ==
    /\ job[m].pc = "new" => hist[m].calls = 0
    /\ RestBooked(m)
    /\ FirstBooked(m)
    /\ \A p \in Passes : PassBooked(p, m)
    /\ \A a \in Agents : Heard(a, m)
    /\ GivenUp(m)

BookInv == \A m \in Mail : Booked(m)

\* No attempt is booked at the start.
LEMMA BookInit == Init => BookInv
<1> SUFFICES ASSUME Init, NEW m \in Mail PROVE Booked(m)
  BY DEF BookInv
<1>1. \A a \in Agents : ~Owns(a, m)
  BY DEF Init, Owns, Idle, Fresh
<1>2. row[m].status = "none" /\ hist[m].calls = 0
  BY DEF Init, NoRow
<1>3. Mail \subseteq Agents /\ Passes \subseteq Agents
  BY DEF Agents
<1>. QED
  BY <1>1, <1>2, <1>3 DEF Booked, RestBooked, FirstBooked, PassBooked, Heard, GivenUp

\* A step that leaves a message's owner, row and calls as they are, and at most
\* loses an attempt of it.
LEMMA BookFrame ==
    ASSUME TypeOK, BookInv, NEW m \in Mail,
           job'[m].pc = "new" => job[m].pc = "new",
           row'[m].status = row[m].status, row'[m].attempts = row[m].attempts,
           hist'[m].calls = hist[m].calls, hist'[m].refused = hist[m].refused,
           hist'[m].died \in Nat, hist'[m].died >= hist[m].died,
           \A b \in Agents : Owns(b, m)' <=> Owns(b, m),
           \A b \in Agents : Owns(b, m) =>
               /\ job'[b].pc = job[b].pc
               /\ job'[b].answer = job[b].answer /\ job'[b].last = job[b].last
    PROVE  Booked(m)'
<1>0. /\ Mail \subseteq Agents /\ Passes \subseteq Agents
      /\ hist[m].calls \in Nat /\ hist[m].died \in Nat /\ row[m].attempts \in Nat
      /\ MaxAttempts \in Nat
  BY TimeAssumption DEF Agents, TypeOK, HistType, RowType
<1>1. \A n \in {0, 1, row[m].attempts, row[m].attempts - 1} : Ledger(m, n) => Ledger(m, n)'
  BY <1>0 DEF Ledger
<1>2. \A b \in Agents : Owns(b, m) => (Called(b)' <=> Called(b))
  BY DEF Called
<1>3. /\ job[m].pc = "new" => hist[m].calls = 0
      /\ RestBooked(m) /\ FirstBooked(m)
      /\ \A p \in Passes : PassBooked(p, m)
      /\ \A a \in Agents : Heard(a, m)
      /\ GivenUp(m)
  BY DEF BookInv, Booked
<1>4. RestBooked(m)'
  BY <1>1, <1>3 DEF RestBooked, Ledger
<1>5. FirstBooked(m)'
  BY <1>0, <1>1, <1>2, <1>3 DEF FirstBooked, Ledger
<1>6. ASSUME NEW p \in Passes PROVE PassBooked(p, m)'
  <2>1. PassBooked(p, m) /\ p \in Agents
    BY <1>0, <1>3
  <2>. QED
    BY <1>0, <1>1, <1>2, <2>1 DEF PassBooked, Ledger
<1>7. ASSUME NEW a \in Agents PROVE Heard(a, m)'
  BY <1>3 DEF Heard
<1>8. GivenUp(m)'
  BY <1>0, <1>3 DEF GivenUp
<1>. QED
  BY <1>3, <1>4, <1>5, <1>6, <1>7, <1>8 DEF Booked

\* A step of one agent that neither owned nor owns the message.
LEMMA BookOther ==
    ASSUME TypeOK, BookInv, NEW a \in Agents, NEW m \in Mail,
           ~Owns(a, m), ~Owns(a, m)',
           \A b \in Agents \ {a} : job'[b] = job[b],
           job'[a].pc # "new",
           row'[m].status = row[m].status, row'[m].attempts = row[m].attempts,
           hist'[m].calls = hist[m].calls, hist'[m].refused = hist[m].refused,
           hist'[m].died \in Nat, hist'[m].died >= hist[m].died
    PROVE  Booked(m)'
<1>1. \A b \in Agents : Owns(b, m)' <=> Owns(b, m)
  BY DEF Owns
<1>2. \A b \in Agents : Owns(b, m) => job'[b] = job[b]
  OBVIOUS
<1>3. job'[m].pc = "new" => job[m].pc = "new"
  BY DEF Agents
<1>. QED
  BY <1>1, <1>2, <1>3, BookFrame

\* A step after which nobody owns the message.
LEMMA BookRest ==
    ASSUME NEW m \in Mail, \A b \in Agents : ~Owns(b, m)', job'[m].pc # "new",
           row'[m].status = "pending" => Ledger(m, row[m].attempts)',
           GivenUp(m)'
    PROVE  Booked(m)'
<1>1. Mail \subseteq Agents /\ Passes \subseteq Agents
  BY DEF Agents
<1>. QED
  BY <1>1 DEF Booked, RestBooked, FirstBooked, PassBooked, Heard

\* A step after which the message's row is gone, or its owner's.
LEMMA BookGone ==
    ASSUME LockInv', NEW m \in Mail,
           row'[m].status \in {"none", "bookkeeping_pending"}, job'[m].pc # "new"
    PROVE  Booked(m)'
<1>1. \A b \in Agents : ~Owns(b, m)'
  BY DEF LockInv, Leased
<1>. QED
  BY <1>1, BookRest DEF GivenUp

\* A step after which a pass owns the message.
LEMMA BookPass ==
    ASSUME LockInv', NEW p \in Passes, NEW m \in Mail, Owns(p, m)', job'[m].pc # "new",
           PassBooked(p, m)', Heard(p, m)'
    PROVE  Booked(m)'
<1>1. /\ \A b \in Agents : Owns(b, m)' => b = p
      /\ row'[m].status = "pending"
      /\ Passes \subseteq Agents /\ p \notin Mail /\ m \in Agents
  BY MailAssumption DEF LockInv, Leased, OneOwner, Agents
<1>2. RestBooked(m)' /\ GivenUp(m)'
  BY <1>1 DEF RestBooked, GivenUp
<1>3. FirstBooked(m)'
  BY <1>1 DEF FirstBooked
<1>4. \A q \in Passes : PassBooked(q, m)'
  BY <1>1 DEF PassBooked
<1>5. \A b \in Agents : Heard(b, m)'
  BY <1>1 DEF Heard
<1>. QED
  BY <1>2, <1>3, <1>4, <1>5 DEF Booked

\* A step after which the message's own first attempt owns it.
LEMMA BookFirst ==
    ASSUME LockInv', NEW m \in Mail, Owns(m, m)', job'[m].pc # "new",
           FirstBooked(m)', Heard(m, m)'
    PROVE  Booked(m)'
<1>1. /\ \A b \in Agents : Owns(b, m)' => b = m
      /\ row'[m].status = "pending"
      /\ Passes \subseteq Agents /\ m \notin Passes /\ m \in Agents
  BY MailAssumption DEF LockInv, Leased, OneOwner, Agents
<1>2. RestBooked(m)' /\ GivenUp(m)'
  BY <1>1 DEF RestBooked, GivenUp
<1>4. \A q \in Passes : PassBooked(q, m)'
  BY <1>1 DEF PassBooked
<1>5. \A b \in Agents : Heard(b, m)'
  BY <1>1 DEF Heard
<1>. QED
  BY <1>2, <1>4, <1>5 DEF Booked

\* A claim counts the attempt before it is made.
LEMMA BookClaim ==
    ASSUME TypeOK, JobShape, LockInv, LockInv', BookInv,
           NEW p \in Passes, NEW m \in Mail, Claim(p, m)
    PROVE  BookInv'
<1> SUFFICES ASSUME NEW n \in Mail PROVE Booked(n)'
  BY DEF BookInv
<1>0. /\ Mail \subseteq Agents /\ p \in Agents /\ p \notin Mail
      /\ job \in [Agents -> JobType] /\ row \in [Mail -> RowType] /\ hist \in [Mail -> HistType]
      /\ MaxAttempts \in Nat
  BY MailAssumption, TimeAssumption DEF Agents, TypeOK
<1>1. /\ \A b \in Agents \ {p} : job'[b] = job[b]
      /\ ~Owns(p, n)
      /\ hist'[n].calls = hist[n].calls /\ hist'[n].died = hist[n].died
      /\ hist'[n].refused = hist[n].refused
      /\ n # m => row'[n] = row[n]
      /\ hist[n].died \in Nat
  BY <1>0 DEF Claim, Start, Owns, HistType
<1>2. CASE Due(m)
  <2>1. /\ job'[p].pc = "claimed" /\ job'[p].mail = m /\ job'[p].answer = "none"
        /\ job'[p].last => row[m].attempts + 1 >= MaxAttempts
        /\ row'[m].attempts = row[m].attempts + 1
    <3>1. /\ row' = [row EXCEPT ![m].attempts = @ + 1, ![m].wait = Lease]
          /\ Start(p, m, row[m].attempts + 1 >= MaxAttempts)
      BY <1>2 DEF Claim
    <3>2. row[m] \in RowType
      BY <1>0
    <3>. QED
      BY <1>0, <3>1, <3>2 DEF Start, RowType
  <2>2. CASE n # m
    <3>1. ~Owns(p, n)' /\ job'[p].pc # "new"
      BY <2>1, <2>2 DEF Owns
    <3>. QED
      BY <1>0, <1>1, <2>2, <3>1, BookOther
  <2>3. CASE n = m
    <3>1. \A b \in Agents : ~Owns(b, m)
      BY <1>2, OwnedRow
    <3>2. Ledger(m, row[m].attempts)
      BY <1>2, <3>1 DEF BookInv, Booked, RestBooked, Due
    <3>3. row[m].attempts \in Nat
      BY <1>0 DEF RowType
    <3>4. ~Called(p)' /\ Owns(p, m)' /\ ~(job'[p].pc = "answered")
      BY <2>1 DEF Called, Owns
    <3>5. PassBooked(p, m)'
      <4>1. Ledger(m, row[m].attempts - 1)'
        BY <1>1, <2>1, <2>3, <3>2, <3>3 DEF Ledger
      <4>2. row'[m].attempts > 0 /\ (job'[p].last => row'[m].attempts >= MaxAttempts)
        BY <1>0, <2>1, <3>3
      <4>. QED
        BY <3>4, <4>1, <4>2 DEF PassBooked
    <3>6. job'[m].pc # "new"
      BY <1>0, <1>1, <1>2 DEF LockInv, Unsent, Due
    <3>. QED
      BY <2>3, <3>4, <3>5, <3>6, BookPass DEF Heard
  <2>. QED
    BY <2>2, <2>3
<1>3. CASE ~Due(m)
  <2>1. row' = row /\ job' = job
    BY <1>3 DEF Claim
  <2>2. job'[p].pc # "new" /\ ~Owns(p, n)'
    BY <1>0, <1>1, <2>1 DEF JobShape, Owns
  <2>. QED
    BY <1>0, <1>1, <2>1, <2>2, BookOther
<1>. QED
  BY <1>2, <1>3

\* The pause and the suppression list answer without a call.
LEMMA BookAdmit ==
    ASSUME TypeOK, JobShape, LockInv, LockInv', BookInv, NEW a \in Agents, Admit(a)
    PROVE  BookInv'
<1>0. PICK m \in Mail : m = job[a].mail
  BY DEF Admit, JobShape, Busy
<1> SUFFICES ASSUME NEW n \in Mail PROVE Booked(n)'
  BY DEF BookInv
<1>1. /\ Mail \subseteq Agents /\ Mail \cap Passes = {} /\ a \in Mail \cup Passes
      /\ job \in [Agents -> JobType] /\ hist \in [Mail -> HistType]
  BY MailAssumption DEF Agents, TypeOK
<1>2. /\ row' = row /\ hist' = hist
      /\ \A b \in Agents \ {a} : job'[b] = job[b]
      /\ job'[a].pc \in {"answered", "calling"}
      /\ job'[a].pc = "answered" => job'[a].answer \in {"held", "suppressed"}
      /\ job'[a].mail = m /\ job'[a].last = job[a].last
      /\ job[a].pc = "claimed"
  BY <1>0, <1>1 DEF Admit, JobType
<1>3. CASE n # m
  <2>1. ~Owns(a, n) /\ ~Owns(a, n)'
    BY <1>0, <1>2, <1>3 DEF Owns
  <2>. QED
    BY <1>1, <1>2, <2>1, BookOther DEF HistType
<1>4. CASE n = m
  <2>1. Owns(a, m) /\ Owns(a, m)' /\ ~Called(a) /\ Heard(a, m)'
    BY <1>0, <1>2 DEF Owns, Called, Heard
  <2>2. job'[a].pc = "answered" => job'[a].answer \notin {"accepted", "transient", "permanent"}
    BY <1>2
  <2>3. ~Called(a)'
    BY <1>2, <2>2 DEF Called
  <2>4. job'[m].pc # "new"
    BY <1>1, <1>2, <2>1, OwnedRow DEF LockInv, Unsent
  <2>5. CASE a \in Mail
    <3>1. a = m
      BY <1>0, <1>2, <2>5 DEF JobShape, Busy
    <3>2. FirstBooked(m)'
      BY <1>2, <2>1, <2>3, <3>1 DEF BookInv, Booked, FirstBooked, Ledger
    <3>. QED
      BY <1>4, <2>1, <2>4, <3>1, <3>2, BookFirst
  <2>6. CASE a \in Passes
    <3>1. PassBooked(a, m)
      BY <2>6 DEF BookInv, Booked
    <3>2. PassBooked(a, m)'
      BY <1>2, <2>1, <2>3, <3>1 DEF PassBooked, Ledger
    <3>. QED
      BY <1>4, <2>1, <2>4, <2>6, <3>2, BookPass
  <2>. QED
    BY <1>1, <2>5, <2>6
<1>. QED
  BY <1>3, <1>4

\* A call is counted when it is answered.
LEMMA BookTransport ==
    ASSUME TypeOK, JobShape, LockInv, LockInv', BookInv, NEW a \in Agents, Transport(a)
    PROVE  BookInv'
<1>0. PICK m \in Mail : m = job[a].mail
  BY DEF Transport, JobShape, Busy
<1> SUFFICES ASSUME NEW n \in Mail PROVE Booked(n)'
  BY DEF BookInv
<1>1. /\ Mail \subseteq Agents /\ Mail \cap Passes = {} /\ a \in Mail \cup Passes
      /\ job \in [Agents -> JobType] /\ hist \in [Mail -> HistType] /\ row \in [Mail -> RowType]
  BY MailAssumption DEF Agents, TypeOK
<1>2. PICK ans \in {"accepted", "transient", "permanent"}, arrived \in BOOLEAN :
        TransportAnswer(a, ans, arrived)
  BY DEF Transport
<1>3. /\ row' = row
      /\ \A b \in Agents \ {a} : job'[b] = job[b]
      /\ job'[a].pc = "answered" /\ job'[a].answer = ans
      /\ job'[a].mail = m /\ job'[a].last = job[a].last
      /\ job[a].pc = "calling"
  <2>1. job' = [job EXCEPT ![a] = [@ EXCEPT !.pc = "answered", !.answer = ans]]
    BY <1>2 DEF TransportAnswer
  <2>2. job[a] \in JobType /\ a \in Agents
    BY <1>1
  <2>3. row' = row /\ job[a].pc = "calling"
    BY DEF Transport
  <2>. QED
    BY <1>0, <1>1, <2>1, <2>2, <2>3 DEF JobType
<1>4. /\ hist'[m].calls = hist[m].calls + 1 /\ hist'[m].died = hist[m].died
      /\ hist'[m].refused = (ans = "permanent")
      /\ n # m => hist'[n] = hist[n]
      /\ hist[m].calls \in Nat /\ hist[m].died \in Nat /\ hist[n].died \in Nat
      /\ row[m].attempts \in Nat
  <2>1. hist[m] \in HistType /\ hist[n] \in HistType /\ row[m] \in RowType
    BY <1>1
  <2>2. /\ hist'[m].calls = hist[m].calls + 1 /\ hist'[m].died = hist[m].died
        /\ hist'[m].refused = (ans = "permanent")
        /\ n # m => hist'[n] = hist[n]
    BY <1>0, <1>1, <1>2, <2>1 DEF TransportAnswer, HistType
  <2>. QED
    BY <2>1, <2>2 DEF HistType, RowType
<1>5. CASE n # m
  <2>1. ~Owns(a, n) /\ ~Owns(a, n)'
    BY <1>0, <1>3, <1>5 DEF Owns
  <2>. QED
    BY <1>1, <1>3, <1>4, <1>5, <2>1, BookOther
<1>6. CASE n = m
  <2>1. Owns(a, m) /\ Owns(a, m)' /\ ~Called(a) /\ Called(a)' /\ Heard(a, m)'
    BY <1>0, <1>3, <1>4 DEF Owns, Called, Heard
  <2>4. job'[m].pc # "new"
    BY <1>1, <1>3, <2>1, OwnedRow DEF LockInv, Unsent
  <2>5. CASE a \in Mail
    <3>1. a = m
      BY <1>0, <1>3, <2>5 DEF JobShape, Busy
    <3>2. row[m].attempts = 0 /\ Ledger(m, 0)
      BY <2>1, <3>1 DEF BookInv, Booked, FirstBooked
    <3>3. FirstBooked(m)'
      BY <1>3, <1>4, <2>1, <3>1, <3>2 DEF FirstBooked, Ledger
    <3>. QED
      BY <1>6, <2>1, <2>4, <3>1, <3>3, BookFirst
  <2>6. CASE a \in Passes
    <3>1. /\ row[m].attempts > 0 /\ Ledger(m, row[m].attempts - 1)
          /\ job[a].last => row[m].attempts >= MaxAttempts
      BY <2>1, <2>6 DEF BookInv, Booked, PassBooked
    <3>2. PassBooked(a, m)'
      BY <1>3, <1>4, <2>1, <3>1 DEF PassBooked, Ledger
    <3>. QED
      BY <1>6, <2>1, <2>4, <2>6, <3>2, BookPass
  <2>. QED
    BY <1>1, <2>5, <2>6
<1>. QED
  BY <1>5, <1>6

\* An attempt that dies is one call more or one less than the row says.
LEMMA BookDie ==
    ASSUME TypeOK, JobShape, LockInv, LockInv', BookInv, NEW a \in Agents, Die(a)
    PROVE  BookInv'
<1>0. PICK m \in Mail : m = job[a].mail
  BY DEF Die, JobShape
<1> SUFFICES ASSUME NEW n \in Mail PROVE Booked(n)'
  BY DEF BookInv
<1>1. /\ Mail \subseteq Agents /\ Mail \cap Passes = {} /\ a \in Mail \cup Passes
      /\ job \in [Agents -> JobType] /\ hist \in [Mail -> HistType] /\ row \in [Mail -> RowType]
  BY MailAssumption DEF Agents, TypeOK
<1>2. /\ row' = row
      /\ \A b \in Agents \ {a} : job'[b] = job[b]
      /\ job'[a].pc \in {"done", "idle"}
  BY <1>1 DEF Die, Done, Idle
<1>3. /\ hist'[m].calls = hist[m].calls /\ hist'[m].died = hist[m].died + 1
      /\ hist'[m].refused = hist[m].refused
      /\ n # m => hist'[n] = hist[n]
      /\ hist[m].calls \in Nat /\ hist[m].died \in Nat /\ hist[n].died \in Nat
      /\ row[m].attempts \in Nat
  BY <1>0, <1>1 DEF Die, HistType, RowType
<1>4. \A k \in Mail : ~Owns(a, k)'
  BY <1>2 DEF Owns
<1>5. CASE ~Owns(a, n)
  <2>1. /\ hist'[n].calls = hist[n].calls /\ hist'[n].refused = hist[n].refused
        /\ hist'[n].died \in Nat /\ hist'[n].died >= hist[n].died
    BY <1>3
  <2>. QED
    BY <1>1, <1>2, <1>4, <1>5, <2>1, BookOther
<1>6. CASE Owns(a, n)
  <2>0. n = m
    BY <1>0, <1>6 DEF Owns
  <2>1. \A b \in Agents : ~Owns(b, m)'
    <3>1. \A b \in Agents \ {a} : ~Owns(b, m)
      BY <1>1, <1>6, <2>0 DEF LockInv, OneOwner
    <3>. QED
      BY <1>2, <1>4, <3>1 DEF Owns
  <2>2. row[m].status = "pending"
    BY <1>6, <2>0, OwnedRow
  <2>3. job'[m].pc # "new"
    BY <1>1, <1>2, <2>2 DEF LockInv, Unsent
  <2>4. Ledger(m, row[m].attempts)'
    <3>1. CASE a \in Mail
      <4>1. a = m
        BY <1>0, <3>1 DEF Die, JobShape
      <4>2. row[m].attempts = 0 /\ (Ledger(m, 1) \/ Ledger(m, 0))
        BY <1>6, <2>0, <4>1 DEF BookInv, Booked, FirstBooked
      <4>. QED
        BY <1>2, <1>3, <4>2 DEF Ledger
    <3>2. CASE a \in Passes
      <4>1. \/ Ledger(m, row[m].attempts)
            \/ Ledger(m, row[m].attempts - 1)
        BY <1>6, <2>0, <3>2 DEF BookInv, Booked, PassBooked
      <4>. QED
        BY <1>2, <1>3, <4>1 DEF Ledger
    <3>. QED
      BY <1>1, <3>1, <3>2
  <2>. QED
    BY <1>2, <2>0, <2>1, <2>2, <2>3, <2>4, BookRest DEF GivenUp
<1>. QED
  BY <1>5, <1>6

\* The first attempt counts itself, unless the pause held it.
LEMMA BookResolve ==
    ASSUME TypeOK, JobShape, LockInv, LockInv', BookInv, NEW m \in Mail, Resolve(m)
    PROVE  BookInv'
<1> SUFFICES ASSUME NEW n \in Mail PROVE Booked(n)'
  BY DEF BookInv
<1>1. /\ Mail \subseteq Agents /\ m \notin Passes
      /\ job \in [Agents -> JobType] /\ hist \in [Mail -> HistType] /\ row \in [Mail -> RowType]
  BY MailAssumption DEF Agents, TypeOK
<1>2. /\ hist' = hist
      /\ \A b \in Agents \ {m} : job'[b] = job[b]
      /\ job'[m].pc \in {"done", "written"}
      /\ n # m => row'[n] = row[n]
      /\ hist[n].died \in Nat
      /\ job[m].mail = m /\ job[m].pc = "answered"
  BY <1>1 DEF Resolve, Done, Idle, JobType, Updated, HistType, JobShape, Busy
<1>3. \A b \in Mail : ~Owns(m, b)'
  BY <1>1, <1>2 DEF Owns
<1>4. CASE n # m
  <2>1. ~Owns(m, n)
    BY <1>2, <1>4 DEF Owns
  <2>. QED
    BY <1>1, <1>2, <1>3, <1>4, <2>1, BookOther
<1>5. CASE n = m
  <2>1. Owns(m, m)
    BY <1>2 DEF Owns
  <2>2. \A b \in Agents : ~Owns(b, m)'
    <3>1. \A b \in Agents \ {m} : ~Owns(b, m)
      BY <1>1, <2>1 DEF LockInv, OneOwner
    <3>. QED
      BY <1>2, <1>3, <3>1 DEF Owns
  <2>3. /\ row'[m] = Resolved(m, job[m].answer)
        /\ job[m].answer \in {"accepted", "transient", "permanent", "held", "suppressed"}
        /\ job[m].answer = "permanent" => hist[m].refused
        /\ Ledger(m, IF Called(m) THEN 1 ELSE 0)
    <3>1. row[m].status = "pending"
      BY <1>1, <2>1, OwnedRow
    <3>2. Heard(m, m) /\ FirstBooked(m)
      BY <1>1 DEF BookInv, Booked
    <3>3. row'[m] = Resolved(m, job[m].answer)
      BY <1>1, <3>1 DEF Resolve, Updated
    <3>4. job[m].pc = "answered"
      BY <1>2
    <3>5. Ledger(m, IF Called(m) THEN 1 ELSE 0)
      BY <2>1, <3>2 DEF FirstBooked
    <3>6. /\ job[m].answer \in {"accepted", "transient", "permanent", "held", "suppressed"}
          /\ job[m].answer = "permanent" => hist[m].refused
      BY <2>1, <3>2, <3>4 DEF Heard
    <3>. QED
      BY <3>3, <3>5, <3>6
  <2>4. job'[m].pc # "new"
    BY <1>2
  <2>5. CASE job[m].answer \in {"suppressed", "accepted"} \/ Dropped(m, job[m].answer)
    <3>1. row'[m].status \in {"none", "bookkeeping_pending"}
      <4>1. NoRow.status = "none"
        BY DEF NoRow
      <4>2. [Accepted(m) EXCEPT !.attempts = 1].status \in {"none", "bookkeeping_pending"}
        BY <4>1 DEF Accepted
      <4>3. Resolved(m, job[m].answer) \in {NoRow, [Accepted(m) EXCEPT !.attempts = 1]}
        BY <2>5 DEF Resolved
      <4>. QED
        BY <2>3, <4>1, <4>2, <4>3
    <3>. QED
      BY <1>5, <2>4, <3>1, BookGone
  <2>6. CASE job[m].answer \in {"transient", "held"} /\ ~Dropped(m, job[m].answer)
    <3>1. /\ row'[m].status = "pending"
          /\ row'[m].attempts = IF job[m].answer = "held" THEN 0 ELSE 1
      BY <2>3, <2>6 DEF Resolved, FirstCount
    <3>2. Called(m) <=> job[m].answer # "held"
      BY <1>2, <2>6 DEF Called
    <3>3. Ledger(m, row[m].attempts)'
      BY <1>2, <2>3, <3>1, <3>2 DEF Ledger
    <3>. QED
      BY <1>5, <2>2, <2>4, <3>1, <3>3, BookRest DEF GivenUp
  <2>7. CASE job[m].answer = "permanent" /\ ~Dropped(m, job[m].answer)
    <3>1. row'[m].status = "failed"
      BY <2>3, <2>7 DEF Resolved, Failed
    <3>2. hist'[m].refused
      BY <1>2, <2>3, <2>7
    <3>. QED
      BY <1>5, <2>2, <2>4, <3>1, <3>2, BookRest DEF GivenUp
  <2>. QED
    BY <2>3, <2>5, <2>6, <2>7
<1>. QED
  BY <1>4, <1>5

\* A pass keeps the count it took, gives it back when the pause held it, and
\* gives the message up when the count was its last.
LEMMA BookFirstWrite ==
    ASSUME TypeOK, JobShape, LockInv, LockInv', BookInv, NEW p \in Passes, FirstWrite(p)
    PROVE  BookInv'
<1>0. PICK m \in Mail : m = job[p].mail
  BY DEF FirstWrite, JobShape, Busy, Agents
<1> SUFFICES ASSUME NEW n \in Mail PROVE Booked(n)'
  BY DEF BookInv
<1>1. /\ Mail \subseteq Agents /\ p \in Agents /\ p \notin Mail
      /\ job \in [Agents -> JobType] /\ hist \in [Mail -> HistType] /\ row \in [Mail -> RowType]
      /\ MaxAttempts \in Nat
  BY MailAssumption, TimeAssumption DEF Agents, TypeOK
<1>2. /\ hist' = hist
      /\ \A b \in Agents \ {p} : job'[b] = job[b]
      /\ job'[p].pc = "written" /\ job'[p].mail = m
      /\ job'[p].answer = job[p].answer /\ job'[p].last = job[p].last
      /\ job[p].pc = "answered"
  BY <1>0, <1>1 DEF FirstWrite, JobType
<1>3. /\ n # m => row'[n] = row[n]
      /\ hist[n].died \in Nat /\ hist[m].died \in Nat /\ hist[m].calls \in Nat
      /\ row[m].attempts \in Nat
  BY <1>0, <1>1 DEF FirstWrite, Updated, Deleted, HistType, RowType
<1>4. CASE n # m
  <2>1. ~Owns(p, n) /\ ~Owns(p, n)'
    BY <1>0, <1>2, <1>4 DEF Owns
  <2>. QED
    BY <1>1, <1>2, <1>3, <1>4, <2>1, BookOther
<1>5. CASE n = m
  <2>1. Owns(p, m) /\ row[m].status = "pending"
    BY <1>0, <1>1, <1>2, OwnedRow DEF Owns
  <2>2. /\ job[p].answer \in {"accepted", "transient", "permanent", "held", "suppressed"}
        /\ job[p].answer = "permanent" => hist[m].refused
        /\ row[m].attempts > 0
        /\ Ledger(m, IF Called(p) THEN row[m].attempts ELSE row[m].attempts - 1)
        /\ job[p].last => row[m].attempts >= MaxAttempts
    BY <1>1, <1>2, <2>1 DEF BookInv, Booked, Heard, PassBooked
  <2>3. job'[m].pc # "new"
    BY <1>1, <1>2, <2>1 DEF LockInv, Unsent
  <2>4. CASE job[p].answer = "accepted"
    <3>1. row' = row
      BY <2>4 DEF FirstWrite, Retries
    <3>2. Owns(p, m)' /\ (Called(p)' <=> Called(p)) /\ Heard(p, m)'
      BY <1>2, <2>4 DEF Owns, Called, Heard
    <3>3. PassBooked(p, m)'
      BY <1>2, <2>2, <3>1, <3>2 DEF PassBooked, Ledger
    <3>. QED
      BY <1>5, <2>3, <3>2, <3>3, BookPass
  <2>5. CASE job[p].answer = "suppressed"
    <3>1. row'[m].status = "none"
      BY <1>0, <1>1, <2>5 DEF FirstWrite, Retries, Deleted, NoRow
    <3>. QED
      BY <1>5, <2>3, <3>1, BookGone
  <2>6. \A b \in Agents : job[p].answer # "accepted" => ~Owns(b, m)'
    <3>1. \A b \in Agents \ {p} : ~Owns(b, m)
      BY <1>1, <2>1 DEF LockInv, OneOwner
    <3>. QED
      BY <1>2, <3>1 DEF Owns
  <2>7. CASE Retries(p)
    <3>1. row'[m] = Rearmed(p, m) /\ job[p].answer \in {"held", "transient"}
      BY <1>0, <1>1, <2>1, <2>7 DEF FirstWrite, Updated, Retries
    <3>2. row'[m].attempts = IF job[p].answer = "held" THEN row[m].attempts - 1
                             ELSE row[m].attempts
      BY <2>2, <3>1 DEF Rearmed
    <3>3. row'[m].status = "pending"
      BY <2>1, <3>1 DEF Rearmed
    <3>4. Called(p) <=> job[p].answer # "held"
      BY <1>2, <3>1 DEF Called
    <3>5. Ledger(m, row[m].attempts)'
      BY <1>2, <2>2, <3>2, <3>4 DEF Ledger
    <3>. QED
      BY <1>5, <2>3, <2>6, <3>1, <3>3, <3>5, BookRest DEF GivenUp
  <2>8. CASE job[p].answer \in {"transient", "permanent"} /\ ~Retries(p)
    <3>1. row'[m].status = "failed"
      BY <1>0, <1>1, <2>1, <2>8 DEF FirstWrite, Updated, Failed
    <3>2. hist[m].refused \/ hist[m].calls + hist[m].died >= MaxAttempts
      <4>1. CASE job[p].answer = "permanent"
        BY <2>2, <4>1
      <4>2. CASE job[p].answer = "transient"
        <5>1. job[p].last /\ Called(p)
          BY <1>2, <2>8, <4>2 DEF Retries, Called
        <5>. QED
          BY <1>1, <1>3, <2>2, <5>1 DEF Ledger
      <4>. QED
        BY <2>8, <4>1, <4>2
    <3>. QED
      BY <1>2, <1>5, <2>3, <2>6, <2>8, <3>1, <3>2, BookRest DEF GivenUp
  <2>. QED
    BY <2>2, <2>4, <2>5, <2>7, <2>8 DEF Retries
<1>. QED
  BY <1>4, <1>5

\* Every step keeps the attempts in the books.
LEMMA BookStep ==
    ASSUME TypeOK, JobShape, LockInv, TypeOK', LockInv', BookInv, [Next]_vars
    PROVE  BookInv'
<1>0. /\ Mail \cap Passes = {} /\ Mail \subseteq Agents /\ Passes \subseteq Agents
      /\ job \in [Agents -> JobType] /\ row \in [Mail -> RowType] /\ hist \in [Mail -> HistType]
      /\ \A n \in Mail : hist'[n].died \in Nat /\ hist[n].died \in Nat
  BY MailAssumption DEF Agents, TypeOK, HistType
<1>1. ASSUME NEW m \in Mail, Submit(m) PROVE BookInv'
  <2> SUFFICES ASSUME NEW n \in Mail PROVE Booked(n)'
    BY DEF BookInv
  <2>1. /\ \A b \in Agents \ {m} : job'[b] = job[b]
        /\ job'[m].pc = "claimed" /\ job'[m].mail = m /\ job[m].pc = "new"
        /\ n # m => row'[n] = row[n]
        /\ row'[m].attempts = 0
        /\ hist' = hist
    BY <1>0, <1>1 DEF Submit, Start, WrittenAhead
  <2>2. CASE n # m
    <3>1. ~Owns(m, n) /\ ~Owns(m, n)'
      BY <1>0, <2>1, <2>2 DEF Owns
    <3>. QED
      BY <1>0, <2>1, <2>2, <3>1, BookOther
  <2>3. CASE n = m
    <3>1. Owns(m, m)' /\ ~Called(m)' /\ Heard(m, m)'
      BY <2>1 DEF Owns, Called, Heard
    <3>2. hist[m].calls = 0
      BY <2>1 DEF BookInv, Booked
    <3>3. FirstBooked(m)'
      BY <1>0, <2>1, <3>1, <3>2 DEF FirstBooked, Ledger
    <3>. QED
      BY <2>1, <2>3, <3>1, <3>3, BookFirst
  <2>. QED
    BY <2>2, <2>3
<1>2. ASSUME NEW m \in Mail, Throw(m) \/ Record(m) PROVE BookInv'
  <2> SUFFICES ASSUME NEW n \in Mail PROVE Booked(n)'
    BY DEF BookInv
  <2>1. /\ \A b \in Agents \ {m} : job'[b] = job[b]
        /\ job'[m].pc = "done" /\ (Busy(m) => job[m].mail = m)
        /\ hist' = hist
        /\ n # m \/ Record(m) => row'[n] = row[n]
        /\ Throw(m) => row'[m].status = "none" /\ Busy(m)
    BY <1>0, <1>2 DEF Throw, Record, Done, Idle, Deleted, NoRow, JobShape, Busy
  <2>2. CASE n # m \/ Record(m)
    <3>1. ~Owns(m, n) /\ ~Owns(m, n)'
      BY <1>0, <1>2, <2>1, <2>2 DEF Owns, Record, Busy
    <3>. QED
      BY <1>0, <2>1, <2>2, <3>1, BookOther
  <2>3. CASE n = m /\ Throw(m)
    BY <2>1, <2>3, BookGone
  <2>. QED
    BY <1>2, <2>2, <2>3
<1>3. ASSUME NEW m \in Mail, Confirm(m) \/ Suppress(m) PROVE BookInv'
  <2> SUFFICES ASSUME NEW n \in Mail PROVE Booked(n)'
    BY DEF BookInv
  <2>1. /\ job' = job /\ hist' = hist
        /\ \/ row'[n] = row[n]
           \/ row[n].status # "none" /\ row'[n].status = "none"
    <3>1. CASE Confirm(m)
      BY <1>0, <3>1 DEF Confirm, Deleted, NoRow
    <3>2. CASE Suppress(m)
      BY <3>2 DEF Suppress
    <3>. QED
      BY <1>3, <3>1, <3>2
  <2>2. CASE row'[n] = row[n]
    BY <1>0, <2>1, <2>2, BookFrame DEF Owns
  <2>3. CASE row'[n] # row[n]
    <3>1. job[n].pc # "new"
      BY <2>1, <2>3 DEF LockInv, Unsent
    <3>. QED
      BY <2>1, <2>3, <3>1, BookGone
  <2>. QED
    BY <2>2, <2>3
<1>4. ASSUME NEW m \in Mail, Retry(m) PROVE BookInv'
  <2> SUFFICES ASSUME NEW n \in Mail PROVE Booked(n)'
    BY DEF BookInv
  <2>1. /\ job' = job
        /\ n # m => row'[n] = row[n] /\ hist'[n] = hist[n]
        /\ row'[m] = Revived(m)
        /\ hist'[m].died = hist[m].died /\ hist'[m].refused = hist[m].refused
        /\ hist'[m].calls = IF row[m].status = "failed" THEN 0 ELSE hist[m].calls
    BY <1>0, <1>4 DEF Retry, HistType
  <2>2. CASE n # m
    BY <1>0, <2>1, <2>2, BookFrame DEF Owns
  <2>3. CASE n = m /\ row[m].status = "failed"
    <3>1. row'[m].attempts = 0 /\ row'[m].status = "pending"
      BY <2>1, <2>3 DEF Revived
    <3>2. Ledger(m, row[m].attempts)'
      BY <1>0, <2>1, <2>3, <3>1 DEF Ledger
    <3>3. (\A b \in Agents : ~Owns(b, m)') /\ job'[m].pc # "new"
      <4>1. \A b \in Agents : ~Owns(b, m)
        BY <2>3 DEF LockInv, Leased
      <4>2. job[m].pc # "new"
        BY <2>3 DEF LockInv, Unsent
      <4>. QED
        BY <2>1, <4>1, <4>2 DEF Owns
    <3>. QED
      BY <2>3, <3>1, <3>2, <3>3, BookRest DEF GivenUp
  <2>4. CASE n = m /\ row[m].status # "failed"
    <3>1. row[m].status = "pending"
      BY <1>4, <2>4 DEF Retry, Due
    <3>2. row'[m].attempts = row[m].attempts /\ row'[m].status = row[m].status
      BY <2>1, <2>4, <3>1 DEF Revived
    <3>. QED
      BY <1>0, <2>1, <2>4, <3>2, BookFrame DEF Owns
  <2>. QED
    BY <2>2, <2>3, <2>4
<1>5. ASSUME NEW m \in Mail, Cancel(m) PROVE BookInv'
  <2> SUFFICES ASSUME NEW n \in Mail PROVE Booked(n)'
    BY DEF BookInv
  <2>0. "user" \in Agents /\ "user" \notin Mail
    BY <1>0, <1>5 DEF Cancel, Free
  <2>1. /\ \A b \in Agents \ {"user"} : job'[b] = job[b]
        /\ job'["user"].pc = "written" /\ job'["user"].answer = "canceled"
        /\ job["user"].pc = "idle"
        /\ n # m => row'[n] = row[n]
        /\ row'[m].status = "none" /\ row[m].status # "none"
        /\ hist'[n].died = hist[n].died /\ hist'[n].calls = hist[n].calls
        /\ hist'[n].refused = hist[n].refused
    BY <1>0, <1>5, <2>0 DEF Cancel, Cancelable, Due, Free, Deleted, NoRow, HistType
  <2>2. CASE n # m
    <3>1. ~Owns("user", n) /\ ~Owns("user", n)'
      BY <2>1 DEF Owns
    <3>. QED
      BY <1>0, <2>0, <2>1, <2>2, <3>1, BookOther
  <2>3. CASE n = m
    <3>1. job'[m].pc # "new"
      BY <1>0, <2>0, <2>1 DEF LockInv, Unsent
    <3>. QED
      BY <2>1, <2>3, <3>1, BookGone
  <2>. QED
    BY <2>2, <2>3
<1>6. ASSUME NEW p \in Passes, SecondWrite(p) PROVE BookInv'
  <2> SUFFICES ASSUME NEW n \in Mail PROVE Booked(n)'
    BY DEF BookInv
  <2>0. PICK m \in Mail : m = job[p].mail
    BY <1>0, <1>6 DEF SecondWrite, JobShape, Busy
  <2>1. /\ \A b \in Agents \ {p} : job'[b] = job[b]
        /\ job'[p].pc = "idle" /\ job[p].pc = "written"
        /\ n # m \/ job[p].answer # "accepted" => row'[n] = row[n]
        /\ job[p].answer = "accepted" => row'[m].status \in {"none", "bookkeeping_pending"}
        /\ hist' = hist
    BY <1>0, <1>6, <2>0 DEF SecondWrite, Idle, Deleted, Updated, Accepted, NoRow
  <2>2. CASE n # m \/ job[p].answer # "accepted"
    <3>1. ~Owns(p, n) /\ ~Owns(p, n)'
      BY <2>0, <2>1, <2>2 DEF Owns
    <3>. QED
      BY <1>0, <2>1, <2>2, <3>1, BookOther
  <2>3. CASE n = m /\ job[p].answer = "accepted"
    <3>1. Owns(p, m)
      BY <2>0, <2>1, <2>3 DEF Owns
    <3>2. job'[m].pc # "new"
      BY <1>0, <2>1, <3>1, OwnedRow DEF LockInv, Unsent
    <3>. QED
      BY <2>1, <2>3, <3>2, BookGone
  <2>. QED
    BY <2>2, <2>3
<1>7. ASSUME NEW p \in Passes, Abandon(p) PROVE BookInv'
  <2> SUFFICES ASSUME NEW n \in Mail PROVE Booked(n)'
    BY DEF BookInv
  <2>1. /\ job' = job /\ row' = row
        /\ hist'[n].calls = hist[n].calls /\ hist'[n].refused = hist[n].refused
        /\ hist'[n].died >= hist[n].died
    BY <1>0, <1>7 DEF Abandon, HistType
  <2>. QED
    BY <1>0, <2>1, BookFrame DEF Owns
<1>8. CASE StartCron \/ StartDrain \/ FinishDrain \/ Pause \/ Resume \/ UNCHANGED vars
  <2> SUFFICES ASSUME NEW n \in Mail PROVE Booked(n)'
    BY DEF BookInv
  <2>1. row' = row /\ job' = job /\ hist' = hist
    BY <1>8 DEF StartCron, StartDrain, FinishDrain, Pause, Resume, vars
  <2>. QED
    BY <1>0, <2>1, BookFrame DEF Owns
<1>9. CASE Tick
  <2> SUFFICES ASSUME NEW n \in Mail PROVE Booked(n)'
    BY DEF BookInv
  <2>1. /\ hist' = hist
        /\ row'[n].status = row[n].status /\ row'[n].attempts = row[n].attempts
        /\ \A b \in Agents : /\ job'[b].pc = job[b].pc /\ job'[b].mail = job[b].mail
                             /\ job'[b].answer = job[b].answer /\ job'[b].last = job[b].last
    BY <1>0, <1>9 DEF Tick, Later, Busy, JobType, RowType
  <2>. QED
    BY <1>0, <2>1, BookFrame DEF Owns
<1>. QED
  BY <1>1, <1>2, <1>3, <1>4, <1>5, <1>6, <1>7, <1>8, <1>9, BookClaim, BookAdmit,
     BookTransport, BookDie, BookResolve, BookFirstWrite DEF Next, Inline, Attempt, Call

\* A message is charged for the calls made of it and given up only for a refusal
\* or a whole budget of them, however often it is paused, resumed and retried by
\* hand, for every budget and any number of messages and attempts that die.
THEOREM BudgetAlways == Spec => []BudgetKept
<1>1. ASSUME TypeOK, JobShape, LockInv, BookInv PROVE BudgetKept
  <2>1. BudgetAccounting
    <3> SUFFICES ASSUME NEW m \in Mail, row[m].status = "pending",
                        \A a \in Agents : ~Holding(a, m)
                 PROVE  Ledger(m, row[m].attempts)
      BY DEF BudgetAccounting, Ledger
    <3>1. CASE \A a \in Agents : ~Owns(a, m)
      BY <1>1, <3>1 DEF BookInv, Booked, RestBooked
    <3>2. ASSUME NEW p \in Agents, Owns(p, m) PROVE Ledger(m, row[m].attempts)
      <4>1. p \in Passes /\ Called(p)
        BY <3>2 DEF Owns, Holding, Called
      <4>. QED
        BY <1>1, <3>2, <4>1 DEF BookInv, Booked, PassBooked
    <3>. QED
      BY <3>1, <3>2
  <2>2. FailedForCause
    BY <1>1 DEF FailedForCause, BookInv, Booked, GivenUp
  <2>. QED
    BY <2>1, <2>2 DEF BudgetKept
<1>. QED
  BY <1>1, TypeInit, TypeStep, LockInit, LockStep, BookInit, BookStep, PTL DEF Spec

-----------------------------------------------------------------------------
(* What a thread shows of a message.  One agent at a time works on it, from *)
(* its claim, or its first attempt, to the last of its two writes, unless   *)
(* another acted between the two: such a message, and one an attempt of     *)
(* which died, is left out.                                                 *)

Worker(a, m) == job[a].mail = m /\ Busy(a)

Apart(m) == m \notin Owned /\ hist[m].died = 0 /\ ~hist[m].raced

OneWorker(m) == \A a, b \in Agents : Worker(a, m) /\ Worker(b, m) => a = b

\* What the outbox holds of a message whose caller is still to insert its sent row.
RowFits(m) ==
    LET ans == job[m].answer IN
    CASE Dropped(m, ans) \/ ans = "accepted" -> row[m].status = "none"
      [] ans \in {"transient", "held"} /\ ~Dropped(m, ans) ->
           /\ row[m].status = "pending"
           /\ row[m].wait + job[m].age >= CoolDown
      [] OTHER -> row[m].status = "failed"

\* A first attempt: nothing is shown before the caller's insert.
FirstTells(m) ==
    Worker(m, m) =>
        /\ sent[m] = "none"
        /\ job[m].pc \in {"answered", "written"} /\ job[m].answer = "accepted"
               => hist[m].delivered > 0
        /\ job[m].pc = "written" =>
               /\ job[m].answer \in {"accepted", "transient", "permanent", "held"}
               /\ job[m].answer # "accepted" => ~Out(m)
               /\ job[m].age < CoolDown
               /\ RowFits(m)

\* A pass: what is shown is from before, until it writes the sent row.
PassTells(p, m) ==
    Worker(p, m) =>
        /\ job[m].pc = "done"
        /\ job[p].answer = "accepted" /\ job[p].pc \in {"answered", "written"}
               => hist[m].delivered > 0
        /\ IF job[p].pc = "written" /\ job[p].answer = "accepted" THEN sent[m] = "sent"
           ELSE sent[m] \in {"retrying", "failed"}
        /\ job[p].pc = "written" /\ job[p].answer # "accepted" =>
               /\ ~Out(m)
               /\ row[m].status \in IF Retries(p) THEN {"pending"} ELSE {"none", "failed"}

\* Revived by hand, and due until the retry, or another pass, claims it.
Awaited(m) ==
    /\ "user" \in Passes /\ m \in todo["user"]
    /\ Due(m) /\ sent[m] = "failed" /\ ~Out(m)

RestTells(m) ==
    (\A a \in Agents : ~Worker(a, m)) =>
        \/ job[m].pc = "new" /\ sent[m] = "none"
        \/ job[m].pc = "done" /\ (Agrees(m) \/ Awaited(m))

Tells(m) ==
    Apart(m) => /\ OneWorker(m)
                /\ row[m].status # "bookkeeping_pending"
                /\ FirstTells(m)
                /\ \A p \in Passes : PassTells(p, m)
                /\ RestTells(m)

\* A retry by hand claims the one row it listed before it does anything else.
UserTurn ==
    "user" \in Passes => /\ Busy("user") => todo["user"] = {}
                         /\ \A k, l \in todo["user"] : k = l

TellInv == UserTurn /\ \A m \in Mail : Tells(m)

\* There is nothing to tell at the start.
LEMMA TellInit == Init => TellInv
<1> SUFFICES ASSUME Init PROVE TellInv
  OBVIOUS
<1>1. /\ \A a \in Agents : ~Busy(a)
      /\ \A m \in Mail : job[m].pc = "new" /\ sent[m] = "none" /\ row[m].status = "none"
      /\ Mail \subseteq Agents /\ Passes \subseteq Agents
  BY JobShapes DEF Init, Busy, NoRow, Agents
<1>2. UserTurn
  BY <1>1 DEF Init, UserTurn
<1>3. ASSUME NEW m \in Mail PROVE Tells(m)
  BY <1>1 DEF Tells, OneWorker, FirstTells, PassTells, RestTells, Worker
<1>. QED
  BY <1>2, <1>3 DEF TellInv

\* The agents that work on a message own it or are between its two writes.
LEMMA Workers ==
    ASSUME NEW a \in Agents, NEW m \in Mail
    PROVE  Worker(a, m) <=> Owns(a, m) \/ Writing(a, m)
BY DEF Worker, Busy, Owns, Writing

\* A row that another agent may act on, and does without a race, is at rest.
LEMMA Untouched ==
    ASSUME TypeOK, LockInv, NEW m \in Mail, ~Raced(m),
           row[m].status # "pending" \/ Due(m) \/ Cancelable(m)
    PROVE  \A a \in Agents : ~Worker(a, m)
<1> SUFFICES ASSUME NEW a \in Agents PROVE ~Worker(a, m)
  OBVIOUS
<1>1. ~Writing(a, m)
  BY DEF Raced
<1>2. ~Owns(a, m)
  BY OwnedRow
<1>. QED
  BY <1>1, <1>2, Workers

\* A step after which a pass alone works on the message.
LEMMA TellPass ==
    ASSUME NEW p \in Passes, NEW m \in Mail,
           \A b \in Agents \ {p} : ~Worker(b, m)',
           PassTells(p, m)', row'[m].status # "bookkeeping_pending", Worker(p, m)'
    PROVE  Tells(m)'
<1>1. p \in Agents /\ m \in Agents /\ m # p /\ Passes \subseteq Agents
  BY MailAssumption DEF Agents
<1>2. OneWorker(m)'
  BY <1>1 DEF OneWorker
<1>3. FirstTells(m)' /\ RestTells(m)'
  BY <1>1 DEF FirstTells, RestTells
<1>4. \A q \in Passes : PassTells(q, m)'
  BY <1>1 DEF PassTells
<1>. QED
  BY <1>2, <1>3, <1>4 DEF Tells

\* A step after which the message's first attempt alone works on it.
LEMMA TellFirst ==
    ASSUME NEW m \in Mail, \A b \in Agents \ {m} : ~Worker(b, m)',
           FirstTells(m)', row'[m].status # "bookkeeping_pending", Worker(m, m)'
    PROVE  Tells(m)'
<1>1. m \in Agents /\ m \notin Passes /\ Passes \subseteq Agents
  BY MailAssumption DEF Agents
<1>2. OneWorker(m)' /\ RestTells(m)'
  BY <1>1 DEF OneWorker, RestTells
<1>3. \A q \in Passes : PassTells(q, m)'
  BY <1>1 DEF PassTells
<1>. QED
  BY <1>2, <1>3 DEF Tells

\* A step after which nobody works on the message.
LEMMA TellRest ==
    ASSUME NEW m \in Mail, \A b \in Agents : ~Worker(b, m)',
           row'[m].status # "bookkeeping_pending", job'[m].pc = "done",
           Agrees(m)' \/ Awaited(m)'
    PROVE  Tells(m)'
<1>1. m \in Agents /\ Passes \subseteq Agents
  BY DEF Agents
<1>. QED
  BY <1>1 DEF Tells, OneWorker, FirstTells, PassTells, RestTells

\* A step that leaves a message, its rows and the agent that works on it alone.
LEMMA TellFrame ==
    ASSUME NEW m \in Mail, Tells(m), Apart(m)' => Apart(m),
           row'[m] = row[m], sent'[m] = sent[m],
           hist'[m].delivered = hist[m].delivered, hist'[m].lost = hist[m].lost,
           \A b \in Agents : Worker(b, m)' <=> Worker(b, m),
           \A b \in Agents : Worker(b, m) => job'[b] = job[b],
           job'[m].pc = job[m].pc,
           Apart(m)' /\ "user" \in Passes /\ m \in todo["user"] => m \in todo'["user"]
    PROVE  Tells(m)'
<1> SUFFICES ASSUME Apart(m)'
             PROVE  /\ OneWorker(m)'
                    /\ row'[m].status # "bookkeeping_pending"
                    /\ FirstTells(m)'
                    /\ \A p \in Passes : PassTells(p, m)'
                    /\ RestTells(m)'
  BY DEF Tells
<1>0. /\ OneWorker(m) /\ row[m].status # "bookkeeping_pending" /\ FirstTells(m)
      /\ \A p \in Passes : PassTells(p, m)
      /\ RestTells(m)
      /\ Passes \subseteq Agents /\ m \in Agents
  BY DEF Tells, Agents
<1>1. OneWorker(m)'
  BY <1>0 DEF OneWorker
<1>2. (Out(m)' <=> Out(m)) /\ (Agrees(m)' <=> Agrees(m)) /\ (Due(m)' <=> Due(m))
  BY DEF Out, Agrees, Due
<1>3. FirstTells(m)'
  BY <1>0, <1>2 DEF FirstTells, RowFits, Dropped
<1>4. ASSUME NEW p \in Passes PROVE PassTells(p, m)'
  BY <1>0, <1>2 DEF PassTells, Retries
<1>5. RestTells(m)'
  BY <1>0, <1>2 DEF RestTells, Awaited
<1>. QED
  BY <1>0, <1>1, <1>3, <1>4, <1>5

\* A step of one agent that works on another message, or on none.
LEMMA TellOther ==
    ASSUME NEW a \in Agents, NEW m \in Mail, Tells(m), Apart(m)' => Apart(m),
           row'[m] = row[m], sent'[m] = sent[m],
           hist'[m].delivered = hist[m].delivered, hist'[m].lost = hist[m].lost,
           ~Worker(a, m), ~Worker(a, m)', a # m,
           \A b \in Agents \ {a} : job'[b] = job[b],
           Apart(m)' /\ "user" \in Passes /\ m \in todo["user"] => m \in todo'["user"]
    PROVE  Tells(m)'
<1>1. \A b \in Agents : Worker(b, m)' <=> Worker(b, m)
  BY DEF Worker, Busy
<1>2. m \in Agents
  BY DEF Agents
<1>. QED
  BY <1>1, <1>2, TellFrame

\* The first attempt and its caller.
LEMMA TellInline ==
    ASSUME TypeOK, JobShape, LockInv, OutInv, BookInv, NEW m \in Mail, NEW n \in Mail,
           Tells(n), Inline(m)
    PROVE  Tells(n)'
<1>0. /\ Mail \subseteq Agents /\ Mail \cap Passes = {} /\ m \in Agents
      /\ job \in [Agents -> JobType] /\ hist \in [Mail -> HistType] /\ row \in [Mail -> RowType]
      /\ sent \in [Mail -> {"none", "sent", "retrying", "failed"}]
  BY MailAssumption DEF Agents, TypeOK
<1>1. /\ hist' = hist /\ todo' = todo
      /\ \A b \in Agents \ {m} : job'[b] = job[b]
      /\ n # m => row'[n] = row[n] /\ sent'[n] = sent[n]
      /\ Busy(m) => job[m].mail = m
      /\ Busy(m)' => job'[m].mail = m
  <2>1. CASE Submit(m)
    BY <1>0, <2>1 DEF Submit, Start, JobShape, Busy
  <2>2. CASE Throw(m)
    BY <1>0, <2>2 DEF Throw, Deleted, JobShape, Busy, Done, Idle
  <2>3. CASE Record(m)
    BY <1>0, <2>3 DEF Record, JobShape, Busy, Done, Idle
  <2>4. CASE Resolve(m)
    <3>1. job'[m] = Done \/ job'[m] = [job[m] EXCEPT !.pc = "written", !.age = 0]
      BY <1>0, <2>4 DEF Resolve
    <3>2. job[m].mail = m
      BY <2>4 DEF Resolve, JobShape, Busy
    <3>3. Busy(m)' => job'[m].mail = m
      BY <1>0, <3>1, <3>2 DEF Busy, Done, Idle, JobType
    <3>. QED
      BY <1>0, <2>4, <3>2, <3>3 DEF Resolve, Updated
  <2>. QED
    BY <2>1, <2>2, <2>3, <2>4 DEF Inline
<1>2. Apart(n)' <=> Apart(n)
  BY <1>1 DEF Apart
<1>3. CASE n # m
  <2>1. ~Worker(m, n) /\ ~Worker(m, n)'
    BY <1>1, <1>3 DEF Worker
  <2>. QED
    BY <1>0, <1>1, <1>2, <1>3, <2>1, TellOther
<1>4. CASE n = m /\ ~Apart(m)
  BY <1>2, <1>4 DEF Tells
<1>5. CASE n = m /\ Apart(m)
  <2>0. /\ OneWorker(m) /\ row[m].status # "bookkeeping_pending" /\ FirstTells(m)
        /\ RestTells(m) /\ (\A p \in Passes : PassTells(p, m)) /\ m \notin Owned
    BY <1>5 DEF Tells, Apart
  <2>1. \A b \in Agents \ {m} : ~Worker(b, m) /\ ~Worker(b, m)'
    <3> SUFFICES ASSUME NEW b \in Agents \ {m} PROVE ~Worker(b, m)
      BY <1>1 DEF Worker, Busy
    <3>1. CASE b \in Mail
      BY <3>1 DEF JobShape, Worker
    <3>2. CASE b \in Passes
      <4>1. job[m].pc # "done"
        BY DEF Inline, Submit, Throw, Resolve, Record
      <4>. QED
        BY <2>0, <3>2, <4>1 DEF PassTells
    <3>. QED
      BY <3>1, <3>2 DEF Agents
  <2>2. CASE Submit(m)
    <3>1. /\ job[m].pc = "new"
          /\ job'[m].pc = "claimed" /\ job'[m].mail = m
          /\ row'[m].status = "pending" /\ sent' = sent
      BY <1>0, <2>2 DEF Submit, Start, WrittenAhead
    <3>2. sent[m] = "none"
      <4>1. \A b \in Agents : ~Worker(b, m)
        BY <2>1, <3>1 DEF Worker, Busy
      <4>. QED
        BY <2>0, <3>1, <4>1 DEF RestTells
    <3>3. FirstTells(m)' /\ Worker(m, m)'
      BY <3>1, <3>2 DEF FirstTells, Worker, Busy
    <3>. QED
      BY <1>5, <2>1, <3>1, <3>3, TellFirst
  <2>3. CASE Throw(m)
    <3>1. /\ job[m].answer = "none" /\ Owns(m, m) /\ Worker(m, m)
          /\ job'[m].pc = "done" /\ row'[m].status = "none" /\ sent' = sent
      BY <1>0, <1>1, <2>3 DEF Throw, LockInv, Unanswered, Owns, Worker, Busy, Done, Idle,
                              Deleted, NoRow
    <3>2. ~Out(m) /\ sent[m] = "none"
      BY <1>0, <2>0, <3>1, NotOut DEF FirstTells
    <3>3. Agrees(m)'
      BY <1>1, <3>1, <3>2 DEF Agrees, Out
    <3>4. ~Worker(m, m)'
      BY <3>1 DEF Worker, Busy
    <3>. QED
      BY <1>5, <2>1, <3>1, <3>3, <3>4, TellRest
  <2>4. CASE Resolve(m)
    <3>1. /\ job[m].pc = "answered" /\ Owns(m, m) /\ Worker(m, m)
          /\ row'[m] = Resolved(m, job[m].answer) /\ sent' = sent
      <4>1. row[m].status = "pending" /\ Owns(m, m)
        BY <1>0, <1>1, <2>4, OwnedRow DEF Resolve, Owns, Busy
      <4>. QED
        BY <1>0, <1>1, <2>4, <4>1 DEF Resolve, Updated, Worker, Busy
    <3>2. /\ sent[m] = "none"
          /\ job[m].answer = "accepted" => hist[m].delivered > 0
          /\ job[m].answer # "accepted" => ~Out(m)
      BY <1>0, <2>0, <3>1, NotOut DEF FirstTells
    <3>3. CASE job[m].answer = "suppressed"
      <4>1. job'[m].pc = "done" /\ row'[m].status = "none"
        BY <1>0, <2>4, <3>1, <3>3 DEF Resolve, Resolved, NoRow, Done, Idle
      <4>2. Agrees(m)' /\ ~Worker(m, m)'
        BY <1>1, <3>1, <3>2, <3>3, <4>1 DEF Agrees, Out, Worker, Busy
      <4>. QED
        BY <1>5, <2>1, <4>1, <4>2, TellRest
    <3>4. CASE job[m].answer # "suppressed"
      <4>1. /\ job'[m].pc = "written" /\ job'[m].age = 0 /\ job'[m].mail = m
            /\ job'[m].answer = job[m].answer /\ job'[m].last = job[m].last
        BY <1>0, <1>1, <2>4, <3>1, <3>4 DEF Resolve, JobType, Busy
      <4>2. job[m].answer \in {"accepted", "transient", "permanent", "held"}
        BY <1>0, <3>1, <3>4 DEF Heard, BookInv, Booked
      <4>3. Dropped(m, job[m].answer)' <=> Dropped(m, job[m].answer)
        BY <4>1 DEF Dropped
      <4>4. RowFits(m)' /\ row'[m].status # "bookkeeping_pending"
        <5>1. CASE Dropped(m, job[m].answer) \/ job[m].answer = "accepted"
          <6>1. row'[m].status = "none"
            BY <2>0, <3>1, <5>1 DEF Resolved, NoRow
          <6>. QED
            BY <4>1, <4>3, <5>1, <6>1 DEF RowFits, Dropped
        <5>2. CASE job[m].answer \in {"transient", "held"} /\ ~Dropped(m, job[m].answer)
          <6>1. row'[m].status = "pending" /\ row'[m].wait = CoolDown
            BY <3>1, <5>2 DEF Resolved
          <6>. QED
            BY <4>1, <4>3, <5>2, <6>1, TimeAssumption DEF RowFits, Dropped
        <5>3. CASE job[m].answer = "permanent" /\ ~Dropped(m, job[m].answer)
          <6>1. row'[m].status = "failed"
            BY <3>1, <5>3 DEF Resolved, Failed
          <6>. QED
            BY <4>1, <4>3, <5>3, <6>1 DEF RowFits, Dropped
        <5>. QED
          BY <4>2, <5>1, <5>2, <5>3
      <4>5. FirstTells(m)'
        BY <1>1, <3>1, <3>2, <4>1, <4>2, <4>4, TimeAssumption DEF FirstTells, Out
      <4>6. Worker(m, m)'
        BY <4>1 DEF Worker, Busy
      <4>. QED
        BY <1>5, <2>1, <4>4, <4>5, <4>6, TellFirst
    <3>. QED
      BY <3>3, <3>4
  <2>5. CASE Record(m)
    <3>1. /\ job[m].pc = "written" /\ Worker(m, m)
          /\ job'[m].pc = "done" /\ row' = row /\ sent'[m] = Outcome(m, job[m].answer)
      BY <1>0, <1>1, <2>0, <2>5 DEF Record, Worker, Busy, Done, Idle
    <3>2. /\ job[m].answer \in {"accepted", "transient", "permanent", "held"}
          /\ job[m].answer = "accepted" => hist[m].delivered > 0
          /\ job[m].answer # "accepted" => ~Out(m)
          /\ RowFits(m)
      BY <2>0, <3>1 DEF FirstTells
    <3>3. Agrees(m)'
      <4>1. CASE job[m].answer = "accepted"
        <5>1. row[m].status = "none" /\ sent'[m] = "sent"
          BY <3>1, <3>2, <4>1 DEF RowFits, Outcome, Dropped
        <5>. QED
          BY <1>1, <3>1, <3>2, <4>1, <5>1 DEF Agrees
      <4>2. CASE job[m].answer \in {"transient", "held"} /\ ~Dropped(m, job[m].answer)
        <5>1. row[m].status = "pending" /\ sent'[m] = "retrying"
          BY <3>1, <3>2, <4>2 DEF RowFits, Outcome
        <5>. QED
          BY <1>1, <3>1, <3>2, <4>2, <5>1 DEF Agrees, Out
      <4>3. CASE job[m].answer = "permanent" \/ Dropped(m, job[m].answer)
        <5>1. row[m].status \in {"none", "failed"}
          BY <3>1, <3>2, <4>3 DEF RowFits, Dropped
        <5>2. sent'[m] = "failed"
          BY <3>1, <3>2, <4>3 DEF Outcome, Dropped
        <5>3. job[m].answer # "accepted"
          BY <4>3 DEF Dropped
        <5>. QED
          BY <1>1, <3>1, <3>2, <5>1, <5>2, <5>3 DEF Agrees, Out
      <4>. QED
        BY <3>2, <4>1, <4>2, <4>3
    <3>4. ~Worker(m, m)' /\ row'[m].status # "bookkeeping_pending"
      BY <2>0, <3>1 DEF Worker, Busy
    <3>. QED
      BY <1>5, <2>1, <3>1, <3>3, <3>4, TellRest
  <2>. QED
    BY <2>2, <2>3, <2>4, <2>5 DEF Inline
<1>. QED
  BY <1>3, <1>4, <1>5

\* A pass that claims a row in time works on it alone.
LEMMA TellClaim ==
    ASSUME TypeOK, JobShape, LockInv, UserTurn,
           NEW p \in Passes, NEW m \in Mail, NEW n \in Mail, Tells(n), Claim(p, m)
    PROVE  Tells(n)'
<1>0. /\ Mail \subseteq Agents /\ p \in Agents /\ p \notin Mail
      /\ job \in [Agents -> JobType] /\ hist \in [Mail -> HistType] /\ row \in [Mail -> RowType]
      /\ todo \in [Passes -> SUBSET Mail]
  BY MailAssumption DEF Agents, TypeOK
<1>1. /\ \A b \in Agents \ {p} : job'[b] = job[b]
      /\ job[p].pc = "idle" /\ m \in todo[p]
      /\ todo' = [todo EXCEPT ![p] = @ \ {m}]
      /\ sent' = sent
      /\ n # m => row'[n] = row[n] /\ hist'[n] = hist[n]
      /\ hist'[n].delivered = hist[n].delivered /\ hist'[n].lost = hist[n].lost
      /\ hist'[n].died = hist[n].died
      /\ ~Worker(p, n)
  BY <1>0 DEF Claim, Start, HistType, Worker, Busy
<1>2. n # m => ("user" \in Passes /\ n \in todo["user"] => n \in todo'["user"])
  BY <1>0, <1>1
<1>3. CASE ~Due(m)
  <2>1. row' = row /\ job' = job /\ hist' = hist
    BY <1>3 DEF Claim
  <2>2. CASE n # m
    BY <1>0, <1>1, <1>2, <2>1, <2>2, TellOther DEF Apart, Worker, Busy
  <2>3. CASE n = m
    <3> SUFFICES ASSUME Apart(m)' PROVE Tells(m)'
      BY <2>3 DEF Tells
    <3>1. OneWorker(m) /\ row[m].status # "bookkeeping_pending" /\ FirstTells(m)
      BY <2>1, <2>3 DEF Tells, Apart
    <3>2. (\A q \in Passes : PassTells(q, m)) /\ RestTells(m)
      BY <2>1, <2>3 DEF Tells, Apart
    <3>3. OneWorker(m)' /\ FirstTells(m)' /\ \A q \in Passes : PassTells(q, m)'
      BY <1>1, <2>1, <3>1, <3>2 DEF OneWorker, Worker, Busy, FirstTells, PassTells, RowFits,
                                    Dropped, Retries, Out
    <3>4. RestTells(m)'
      BY <1>1, <1>3, <2>1, <3>2 DEF RestTells, Worker, Busy, Agrees, Awaited
    <3>. QED
      BY <2>1, <3>1, <3>3, <3>4 DEF Tells
  <2>. QED
    BY <2>2, <2>3
<1>4. CASE Due(m)
  <2>1. /\ job'[p].pc = "claimed" /\ job'[p].mail = m
        /\ hist'[m].raced = Raced(m)
        /\ row'[m].status = "pending"
    <3>1. /\ row' = [row EXCEPT ![m].attempts = @ + 1, ![m].wait = Lease]
          /\ Start(p, m, row[m].attempts + 1 >= MaxAttempts)
          /\ hist' = [hist EXCEPT ![m].raced = Raced(m)]
      BY <1>4 DEF Claim
    <3>2. row[m] \in RowType /\ row[m].status = "pending"
      BY <1>0, <1>4 DEF Due
    <3>. QED
      BY <1>0, <3>1, <3>2 DEF Start, RowType, HistType
  <2>2. CASE n # m
    <3>1. ~Worker(p, n)'
      BY <2>1, <2>2 DEF Worker
    <3>. QED
      BY <1>0, <1>1, <1>2, <2>2, <3>1, TellOther DEF Apart
  <2>3. CASE n = m
    <3> SUFFICES ASSUME Apart(m)' PROVE Tells(m)'
      BY <2>3 DEF Tells
    <3>1. ~Raced(m)
      BY <2>1 DEF Apart
    <3>2. Apart(m)
      BY <1>1, <2>3, <3>1 DEF Apart, Raced
    <3>3. \A b \in Agents : ~Worker(b, m)
      BY <1>4, <3>1, Untouched
    <3>4. row[m].status = "pending" /\ job[m].pc # "new"
      BY <1>4 DEF Due, LockInv, Unsent
    <3>5. job[m].pc = "done" /\ sent[m] \in {"retrying", "failed"}
      BY <2>3, <3>2, <3>3, <3>4 DEF Tells, RestTells, Agrees, Awaited
    <3>6. PassTells(p, m)' /\ Worker(p, m)'
      BY <1>0, <1>1, <2>1, <3>5 DEF PassTells, Worker, Busy
    <3>7. \A b \in Agents \ {p} : ~Worker(b, m)'
      BY <1>1, <3>3 DEF Worker, Busy
    <3>. QED
      BY <2>1, <3>6, <3>7, TellPass
  <2>. QED
    BY <2>2, <2>3
<1>. QED
  BY <1>3, <1>4

\* The pause, the suppression list and the provider write nothing that is shown.
LEMMA TellCall ==
    ASSUME TypeOK, JobShape, LockInv, OutInv,
           NEW a \in Agents, NEW n \in Mail, Tells(n), Call(a)
    PROVE  Tells(n)'
<1>0. PICK m \in Mail : m = job[a].mail
  BY DEF Call, Admit, Transport, JobShape, Busy
<1>1. /\ Mail \subseteq Agents /\ Mail \cap Passes = {} /\ a \in Mail \cup Passes
      /\ job \in [Agents -> JobType] /\ hist \in [Mail -> HistType]
  BY MailAssumption DEF Agents, TypeOK
<1>2. /\ row' = row /\ sent' = sent /\ todo' = todo
      /\ \A b \in Agents \ {a} : job'[b] = job[b]
      /\ job'[a].pc \in {"calling", "answered"} /\ job'[a].mail = m
      /\ job'[a].last = job[a].last
      /\ job[a].pc \in {"claimed", "calling"}
      /\ n # m => hist'[n] = hist[n]
      /\ hist'[m].died = hist[m].died /\ hist'[m].raced = hist[m].raced
      /\ job'[a].pc = "answered" /\ job'[a].answer = "accepted" => hist'[m].delivered > 0
  <2>0. job[a] \in JobType /\ hist[m] \in HistType
    BY <1>0, <1>1
  <2>1. CASE Admit(a)
    BY <1>0, <1>1, <2>0, <2>1 DEF Admit, JobType
  <2>2. CASE Transport(a)
    <3>1. PICK ans \in {"accepted", "transient", "permanent"}, arrived \in BOOLEAN :
            TransportAnswer(a, ans, arrived)
      BY <2>2 DEF Transport
    <3>2. /\ job' = [job EXCEPT ![a] = [@ EXCEPT !.pc = "answered", !.answer = ans]]
          /\ ans = "accepted" => arrived
      BY <3>1 DEF TransportAnswer
    <3>3. /\ hist'[m].delivered = IF arrived
                                  THEN hist[m].delivered + (IF Keyed /\ hist[m].delivered > 0 THEN 0 ELSE 1)
                                  ELSE hist[m].delivered
          /\ n # m => hist'[n] = hist[n]
          /\ hist'[m].died = hist[m].died /\ hist'[m].raced = hist[m].raced
      BY <1>0, <1>1, <2>0, <3>1 DEF TransportAnswer, HistType
    <3>4. ans = "accepted" => hist'[m].delivered > 0
      <4>1. hist[m].delivered \in Nat
        BY <2>0 DEF HistType
      <4>. QED
        BY <3>2, <3>3, <4>1
    <3>5. /\ job'[a].pc = "answered" /\ job'[a].mail = m /\ job'[a].answer = ans
          /\ job'[a].last = job[a].last
      BY <1>0, <1>1, <2>0, <3>2 DEF JobType
    <3>6. /\ row' = row /\ sent' = sent /\ todo' = todo /\ job[a].pc = "calling"
          /\ \A b \in Agents \ {a} : job'[b] = job[b]
      BY <1>1, <2>2, <3>2 DEF Transport
    <3>. QED
      BY <3>3, <3>4, <3>5, <3>6
  <2>. QED
    BY <2>1, <2>2 DEF Call
<1>3. Apart(n)' <=> Apart(n)
  BY <1>2 DEF Apart
<1>4. CASE n # m
  <2>1. ~Worker(a, n) /\ ~Worker(a, n)'
    BY <1>0, <1>2, <1>4 DEF Worker
  <2>2. a # n
    BY <1>0, <1>2, <1>4 DEF JobShape, Busy
  <2>. QED
    BY <1>2, <1>3, <1>4, <2>1, <2>2, TellOther
<1>5. CASE n = m /\ ~Apart(m)
  BY <1>3, <1>5 DEF Tells
<1>6. CASE n = m /\ Apart(m)
  <2>0. OneWorker(m) /\ row[m].status # "bookkeeping_pending" /\ Worker(a, m)
    BY <1>0, <1>2, <1>6 DEF Tells, Worker, Busy
  <2>1. /\ \A b \in Agents \ {a} : ~Worker(b, m)'
        /\ Worker(a, m)'
    BY <1>2, <2>0 DEF OneWorker, Worker, Busy
  <2>2. CASE a \in Mail
    <3>1. a = m /\ sent[m] = "none"
      BY <1>0, <1>2, <1>6, <2>0, <2>2 DEF JobShape, Busy, Tells, FirstTells
    <3>2. FirstTells(m)'
      BY <1>2, <3>1 DEF FirstTells
    <3>. QED
      BY <1>2, <1>6, <2>0, <2>1, <3>1, <3>2, TellFirst
  <2>3. CASE a \in Passes
    <3>1. /\ job[m].pc = "done" /\ m # a
          /\ sent[m] \in {"retrying", "failed"}
      BY <1>1, <1>2, <1>6, <2>0, <2>3 DEF Tells, PassTells
    <3>2. PassTells(a, m)'
      BY <1>1, <1>2, <3>1 DEF PassTells
    <3>. QED
      BY <1>2, <1>6, <2>0, <2>1, <2>3, <3>2, TellPass
  <2>. QED
    BY <1>1, <2>2, <2>3
<1>. QED
  BY <1>4, <1>5, <1>6

\* The first of a pass's two writes.
LEMMA TellFirstWrite ==
    ASSUME TypeOK, JobShape, LockInv, OutInv, BookInv,
           NEW p \in Passes, NEW n \in Mail, Tells(n), FirstWrite(p)
    PROVE  Tells(n)'
<1>0. PICK m \in Mail : m = job[p].mail
  BY DEF FirstWrite, JobShape, Busy, Agents
<1>1. /\ Mail \subseteq Agents /\ p \in Agents /\ p \notin Mail
      /\ job \in [Agents -> JobType] /\ row \in [Mail -> RowType]
      /\ sent \in [Mail -> {"none", "sent", "retrying", "failed"}]
  BY MailAssumption DEF Agents, TypeOK
<1>2. /\ hist' = hist /\ todo' = todo
      /\ \A b \in Agents \ {p} : job'[b] = job[b]
      /\ job'[p].pc = "written" /\ job'[p].mail = m
      /\ job'[p].answer = job[p].answer /\ job'[p].last = job[p].last
      /\ job[p].pc = "answered"
  BY <1>0, <1>1 DEF FirstWrite, JobType
<1>3. n # m => row'[n] = row[n] /\ sent'[n] = sent[n]
  BY <1>0, <1>1 DEF FirstWrite, Updated, Deleted, Marked
<1>4. Apart(n)' <=> Apart(n)
  BY <1>2 DEF Apart
<1>5. CASE n # m
  <2>1. ~Worker(p, n) /\ ~Worker(p, n)'
    BY <1>0, <1>2, <1>5 DEF Worker
  <2>. QED
    BY <1>1, <1>2, <1>3, <1>4, <1>5, <2>1, TellOther
<1>6. CASE n = m /\ ~Apart(m)
  BY <1>4, <1>6 DEF Tells
<1>7. CASE n = m /\ Apart(m)
  <2>0. /\ Worker(p, m) /\ Owns(p, m)
        /\ row[m].status = "pending"
    BY <1>0, <1>1, <1>2, OwnedRow DEF Owns, Worker, Busy
  <2>1. /\ OneWorker(m)
        /\ job[m].pc = "done" /\ sent[m] \in {"retrying", "failed"}
        /\ job[p].answer = "accepted" => hist[m].delivered > 0
    BY <1>2, <1>7, <2>0 DEF Tells, PassTells
  <2>2. /\ \A b \in Agents \ {p} : ~Worker(b, m)'
        /\ Worker(p, m)'
    BY <1>1, <1>2, <2>0, <2>1 DEF OneWorker, Worker, Busy
  <2>3. job[p].answer # "accepted" => ~Out(m)
    BY <1>1, <2>0, NotOut
  <2>4. job[p].answer \in {"accepted", "transient", "permanent", "held", "suppressed"}
    BY <1>1, <1>2, <2>0 DEF BookInv, Booked, Heard
  <2>5. job'[m].pc = "done" /\ (Retries(p)' <=> Retries(p)) /\ (Out(m)' <=> Out(m))
    BY <1>1, <1>2, <2>1 DEF Retries, Out
  <2>6. CASE job[p].answer = "accepted"
    <3>1. row' = row /\ sent'[m] = "sent"
      BY <1>0, <1>1, <2>1, <2>6 DEF FirstWrite, Retries, Marked
    <3>2. PassTells(p, m)'
      BY <1>2, <2>1, <2>5, <2>6, <3>1 DEF PassTells
    <3>. QED
      BY <1>7, <2>0, <2>2, <3>1, <3>2, TellPass
  <2>7. CASE job[p].answer # "accepted"
    <3>1. sent' = sent
      BY <2>7 DEF FirstWrite
    <3>2. row'[m].status \in IF Retries(p) THEN {"pending"} ELSE {"none", "failed"}
      <4>1. CASE Retries(p)
        <5>1. row'[m] = Rearmed(p, m)
          BY <1>0, <1>1, <2>0, <4>1 DEF FirstWrite, Updated, Retries
        <5>. QED
          BY <2>0, <4>1, <5>1 DEF Rearmed
      <4>2. CASE ~Retries(p)
        <5>1. row' = Deleted(m) \/ row' = Updated(m, Failed(m))
          BY <1>0, <2>7, <4>2 DEF FirstWrite
        <5>2. row'[m] = NoRow \/ row'[m] = Failed(m)
          BY <1>1, <2>0, <5>1 DEF Deleted, Updated
        <5>. QED
          BY <4>2, <5>2 DEF NoRow, Failed
      <4>. QED
        BY <4>1, <4>2
    <3>3. PassTells(p, m)'
      BY <1>2, <2>1, <2>3, <2>5, <2>7, <3>1, <3>2 DEF PassTells
    <3>4. row'[m].status # "bookkeeping_pending"
      BY <3>2
    <3>. QED
      BY <1>7, <2>2, <3>3, <3>4, TellPass
  <2>. QED
    BY <2>6, <2>7
<1>. QED
  BY <1>5, <1>6, <1>7

\* The second: the two rows then say the same.
LEMMA TellSecondWrite ==
    ASSUME TypeOK, JobShape, NEW p \in Passes, NEW n \in Mail, Tells(n), SecondWrite(p)
    PROVE  Tells(n)'
<1>0. PICK m \in Mail : m = job[p].mail
  BY DEF SecondWrite, JobShape, Busy, Agents
<1>1. /\ Mail \subseteq Agents /\ p \in Agents /\ p \notin Mail
      /\ job \in [Agents -> JobType] /\ row \in [Mail -> RowType]
      /\ sent \in [Mail -> {"none", "sent", "retrying", "failed"}]
  BY MailAssumption DEF Agents, TypeOK
<1>2. /\ hist' = hist /\ todo' = todo
      /\ \A b \in Agents \ {p} : job'[b] = job[b]
      /\ job'[p].pc = "idle" /\ job[p].pc = "written"
  BY <1>0, <1>1 DEF SecondWrite, Idle
<1>3. n # m => row'[n] = row[n] /\ sent'[n] = sent[n]
  BY <1>0, <1>1 DEF SecondWrite, Updated, Deleted, Marked
<1>4. Apart(n)' <=> Apart(n)
  BY <1>2 DEF Apart
<1>5. CASE n # m
  <2>1. ~Worker(p, n) /\ ~Worker(p, n)'
    BY <1>0, <1>2, <1>5 DEF Worker, Busy
  <2>. QED
    BY <1>1, <1>2, <1>3, <1>4, <1>5, <2>1, TellOther
<1>6. CASE n = m /\ ~Apart(m)
  BY <1>4, <1>6 DEF Tells
<1>7. CASE n = m /\ Apart(m)
  <2>0. Worker(p, m) /\ m \notin Owned
    BY <1>0, <1>2, <1>7 DEF Worker, Busy, Apart
  <2>1. OneWorker(m) /\ PassTells(p, m)
    BY <1>7 DEF Tells
  <2>2. \A b \in Agents : ~Worker(b, m)'
    BY <1>1, <1>2, <2>0, <2>1 DEF OneWorker, Worker, Busy
  <2>3. job'[m].pc = "done"
    BY <1>1, <1>2, <2>0, <2>1 DEF PassTells
  <2>4. CASE job[p].answer = "accepted"
    <3>1. row'[m].status = "none" /\ sent'[m] = "sent" /\ hist'[m].delivered > 0
      BY <1>0, <1>1, <1>2, <2>0, <2>1, <2>4 DEF SecondWrite, Deleted, NoRow, PassTells
    <3>2. Agrees(m)'
      BY <3>1 DEF Agrees
    <3>. QED
      BY <1>7, <2>2, <2>3, <3>1, <3>2, TellRest
  <2>5. CASE job[p].answer # "accepted"
    <3>1. /\ ~Out(m) /\ sent[m] \in {"retrying", "failed"}
          /\ row[m].status \in IF Retries(p) THEN {"pending"} ELSE {"none", "failed"}
      BY <1>2, <2>0, <2>1, <2>5 DEF PassTells
    <3>2. row' = row /\ sent'[m] = IF Retries(p) THEN "retrying" ELSE "failed"
      BY <1>0, <1>1, <2>5, <3>1 DEF SecondWrite, Marked
    <3>3. Agrees(m)' /\ row'[m].status # "bookkeeping_pending"
      BY <1>2, <3>1, <3>2 DEF Agrees, Out
    <3>. QED
      BY <1>7, <2>2, <2>3, <3>3, TellRest
  <2>. QED
    BY <2>4, <2>5
<1>. QED
  BY <1>5, <1>6, <1>7

\* A retry by hand revives a row at rest; a cancel deletes one.
LEMMA TellRetry ==
    ASSUME TypeOK, JobShape, LockInv, OutInv,
           NEW m \in Mail, NEW n \in Mail, Tells(n), Retry(m)
    PROVE  Tells(n)'
<1>1. /\ job' = job /\ sent' = sent /\ "user" \in Passes /\ todo["user"] = {}
      /\ todo'["user"] = {m}
      /\ n # m => row'[n] = row[n] /\ hist'[n] = hist[n]
      /\ row'[m] = Revived(m)
      /\ hist'[m].died = hist[m].died /\ hist'[m].raced = Raced(m)
      /\ hist'[m].delivered = hist[m].delivered /\ hist'[m].lost = hist[m].lost
  BY DEF Retry, Free, TypeOK, HistType
<1>2. CASE n # m
  BY <1>1, <1>2, TellFrame DEF Apart, Worker, Busy
<1>3. CASE n = m
  <2> SUFFICES ASSUME Apart(m)' PROVE Tells(m)'
    BY <1>3 DEF Tells
  <2>1. ~Raced(m) /\ Apart(m)
    BY <1>1 DEF Apart, Raced
  <2>2. \A b \in Agents : ~Worker(b, m) /\ ~Worker(b, m)'
    <3>1. \A b \in Agents : ~Worker(b, m)
      BY <2>1, Untouched DEF Retry
    <3>. QED
      BY <1>1, <3>1 DEF Worker, Busy
  <2>3. /\ row[m].status \in {"failed", "pending"}
        /\ row'[m].status = "pending" /\ row'[m].wait = 0
    BY <1>1 DEF Retry, Due, Revived
  <2>4. /\ job[m].pc = "done" /\ (Agrees(m) \/ Awaited(m))
    <3>1. job[m].pc # "new"
      BY <2>3 DEF LockInv, Unsent
    <3>. QED
      BY <1>3, <2>1, <2>2, <3>1 DEF Tells, RestTells
  <2>5. ~Out(m)
    BY NotOut DEF Retry, OutInv, Counted
  <2>6. Agrees(m)' \/ Awaited(m)'
    <3>1. CASE row[m].status = "failed"
      <4>1. sent[m] = "failed"
        BY <2>4, <3>1 DEF Agrees, Awaited
      <4>. QED
        BY <1>1, <2>3, <2>5, <4>1 DEF Awaited, Due, Out
    <3>2. CASE row[m].status = "pending"
      BY <1>1, <2>3, <2>4, <2>5, <3>2 DEF Awaited, Agrees, Due, Out
    <3>. QED
      BY <2>3, <3>1, <3>2
  <2>. QED
    BY <1>1, <2>2, <2>3, <2>4, <2>6, TellRest
<1>. QED
  BY <1>2, <1>3

\* The owner starts to cancel a message.
LEMMA TellCancel ==
    ASSUME TypeOK, JobShape, LockInv, OutInv,
           NEW m \in Mail, NEW n \in Mail, Tells(n), Cancel(m)
    PROVE  Tells(n)'
<1>0. "user" \in Passes /\ "user" \in Agents /\ "user" \notin Mail /\ todo["user"] = {}
  BY MailAssumption DEF Cancel, Free, Agents
<1>1. /\ \A b \in Agents \ {"user"} : job'[b] = job[b]
      /\ job'["user"].pc = "written" /\ job'["user"].mail = m
      /\ job'["user"].answer = "canceled" /\ job["user"].pc = "idle"
      /\ sent' = sent /\ todo' = todo
      /\ n # m => row'[n] = row[n] /\ hist'[n] = hist[n]
      /\ row'[m].status = "none"
      /\ hist'[m].died = hist[m].died /\ hist'[m].raced = Raced(m)
      /\ hist'[m].delivered = hist[m].delivered /\ hist'[m].lost = hist[m].lost
  BY <1>0 DEF Cancel, Free, Deleted, NoRow, TypeOK, HistType
<1>2. CASE n # m
  <2>1. ~Worker("user", n) /\ ~Worker("user", n)'
    BY <1>1, <1>2 DEF Worker, Busy
  <2>2. "user" # n
    BY <1>0
  <2>. QED
    BY <1>0, <1>1, <1>2, <2>1, <2>2, TellOther DEF Apart
<1>3. CASE n = m
  <2> SUFFICES ASSUME Apart(m)' PROVE Tells(m)'
    BY <1>3 DEF Tells
  <2>1. ~Raced(m) /\ Apart(m) /\ Cancelable(m)
    BY <1>1 DEF Apart, Raced, Cancel
  <2>2. \A b \in Agents : ~Worker(b, m)
    BY <2>1, Untouched
  <2>3. row[m].status \in {"failed", "pending"}
    BY <2>1 DEF Cancelable, Due
  <2>4. job[m].pc = "done" /\ (Agrees(m) \/ Awaited(m)) /\ m \in Agents
    <3>1. job[m].pc # "new"
      BY <2>3 DEF LockInv, Unsent
    <3>. QED
      BY <1>3, <2>1, <2>2, <3>1 DEF Tells, RestTells, Agents
  <2>5. ~Out(m)
    <3>1. ~Told(m)
      BY <2>1, OwnedRow DEF Told
    <3>. QED
      BY <2>3, <3>1 DEF OutInv, Counted
  <2>6. sent[m] \in {"retrying", "failed"}
    BY <2>3, <2>4 DEF Agrees, Awaited
  <2>7. job'[m].pc = "done" /\ ~Out(m)'
    BY <1>0, <1>1, <2>4, <2>5 DEF Out
  <2>8. ~Retries("user")'
    BY <1>1 DEF Retries
  <2>9. PassTells("user", m)' /\ Worker("user", m)'
    BY <1>1, <2>6, <2>7, <2>8 DEF PassTells, Worker, Busy
  <2>10. \A b \in Agents \ {"user"} : ~Worker(b, m)'
    BY <1>1, <2>2 DEF Worker, Busy
  <2>. QED
    BY <1>0, <1>1, <2>9, <2>10, TellPass
<1>. QED
  BY <1>2, <1>3

\* An attempt that dies takes its message out of the account, and no other.
LEMMA TellDie ==
    ASSUME TypeOK, JobShape, UserTurn, NEW a \in Agents, NEW n \in Mail, Tells(n), Die(a)
    PROVE  Tells(n)'
<1>0. PICK m \in Mail : m = job[a].mail
  BY DEF Die, JobShape
<1>1. /\ row' = row /\ sent' = sent
      /\ \A b \in Agents \ {a} : job'[b] = job[b]
      /\ job'[a].pc \in {"done", "idle"}
  BY DEF Die, Done, Idle, TypeOK
<1>2. CASE n = m
  <2>1. hist'[m].died = hist[m].died + 1 /\ hist[m].died \in Nat
    BY <1>0 DEF Die, TypeOK, HistType
  <2>2. ~Apart(m)'
    BY <2>1 DEF Apart
  <2>. QED
    BY <1>2, <2>2 DEF Tells
<1>3. CASE n # m
  <2>1. hist'[n] = hist[n]
    BY <1>0, <1>3 DEF Die, TypeOK
  <2>2. ~Worker(a, n) /\ ~Worker(a, n)'
    BY <1>0, <1>1, <1>3 DEF Worker, Busy
  <2>3. a # n
    BY <1>0, <1>3 DEF Die, JobShape
  <2>4. "user" \in Passes /\ n \in todo["user"] => n \in todo'["user"]
    <3>1. a = "user" /\ "user" \in Passes => todo["user"] = {}
      BY DEF Die, UserTurn
    <3>. QED
      BY <3>1 DEF Die, DropList, TypeOK
  <2>. QED
    BY <1>1, <2>1, <2>2, <2>3, <2>4, TellOther DEF Apart
<1>. QED
  BY <1>2, <1>3

\* A pass abandons the rest of its list.
LEMMA TellAbandon ==
    ASSUME TypeOK, NEW p \in Passes, NEW n \in Mail, Tells(n), Abandon(p)
    PROVE  Tells(n)'
<1>1. /\ row' = row /\ sent' = sent /\ job' = job
      /\ hist'[n] = [hist[n] EXCEPT !.died = IF n \in todo[p] THEN @ + 1 ELSE @]
      /\ hist[n] \in HistType
      /\ "user" \in Passes => todo'["user"] = IF p = "user" THEN {} ELSE todo["user"]
  BY DEF Abandon, DropList, TypeOK
<1>2. CASE n \in todo[p]
  <2>1. hist'[n].died = hist[n].died + 1 /\ hist[n].died \in Nat
    BY <1>1, <1>2 DEF HistType
  <2>2. ~Apart(n)'
    BY <2>1 DEF Apart
  <2>. QED
    BY <2>2 DEF Tells
<1>3. CASE n \notin todo[p]
  <2>1. hist'[n] = hist[n]
    BY <1>1, <1>3 DEF HistType
  <2>. QED
    BY <1>1, <1>3, <2>1, TellFrame DEF Apart, Worker, Busy
<1>. QED
  BY <1>2, <1>3

\* Time moves no row out of the state its writer left it in: a new row cools
\* down until its caller has inserted the sent row.
LEMMA TellTick ==
    ASSUME TypeOK, NEW n \in Mail, Tells(n), Tick
    PROVE  Tells(n)'
<1> SUFFICES ASSUME Apart(n)'
             PROVE  /\ OneWorker(n)' /\ row'[n].status # "bookkeeping_pending"
                    /\ FirstTells(n)'
                    /\ \A p \in Passes : PassTells(p, n)'
                    /\ RestTells(n)'
  BY DEF Tells
<1>0. /\ sent' = sent /\ hist' = hist /\ todo' = todo
      /\ row'[n].status = row[n].status
      /\ row'[n].wait = IF row[n].wait > 0 THEN row[n].wait - 1 ELSE 0
      /\ row[n].wait \in Nat
  BY TimeAssumption DEF Tick, Later, TypeOK, RowType
<1>1. \A b \in Agents :
        /\ job'[b].pc = job[b].pc /\ job'[b].mail = job[b].mail
        /\ job'[b].answer = job[b].answer /\ job'[b].last = job[b].last
        /\ Busy(b) => job'[b].age = job[b].age + 1
        /\ job[b].age \in Nat
  BY TimeAssumption DEF Tick, TypeOK, JobType
<1>2. /\ \A b \in Agents : Worker(b, n)' <=> Worker(b, n)
      /\ Passes \subseteq Agents /\ n \in Agents
  BY <1>1 DEF Worker, Busy, Agents
<1>3. Apart(n)
  BY <1>0 DEF Apart
<1>4. /\ OneWorker(n) /\ row[n].status # "bookkeeping_pending"
      /\ FirstTells(n) /\ RestTells(n) /\ \A p \in Passes : PassTells(p, n)
  BY <1>3 DEF Tells
<1>5. (Out(n)' <=> Out(n)) /\ (Due(n) => Due(n)') /\ (Agrees(n) => Agrees(n)')
  <2>1. Out(n)' <=> Out(n)
    BY <1>0 DEF Out
  <2>2. Due(n) => Due(n)'
    BY <1>0 DEF Due
  <2>3. Agrees(n) => Agrees(n)'
    BY <1>0 DEF Agrees
  <2>. QED
    BY <2>1, <2>2, <2>3
<1>6. OneWorker(n)'
  BY <1>2, <1>4 DEF OneWorker
<1>7. FirstTells(n)'
  <2> SUFFICES ASSUME Worker(n, n) PROVE FirstTells(n)'
    BY <1>2 DEF FirstTells
  <2>1. job[n].pc = "written" => job'[n].age < CoolDown /\ RowFits(n)'
    <3> SUFFICES ASSUME job[n].pc = "written" PROVE job'[n].age < CoolDown /\ RowFits(n)'
      OBVIOUS
    <3>1. job'[n].age = job[n].age + 1 /\ job'[n].age < CoolDown
      BY <1>1, <1>2 DEF Tick, Busy
    <3>2. RowFits(n)
      BY <1>4 DEF FirstTells
    <3>3. row[n].wait + job[n].age >= CoolDown => row'[n].wait + job'[n].age >= CoolDown
      BY <1>0, <1>1, <1>2, <3>1, TimeAssumption
    <3>. QED
      BY <1>0, <1>1, <1>2, <3>1, <3>2, <3>3 DEF RowFits, Dropped
  <2>. QED
    BY <1>0, <1>1, <1>2, <1>4, <1>5, <2>1 DEF FirstTells
<1>8. ASSUME NEW p \in Passes PROVE PassTells(p, n)'
  BY <1>0, <1>1, <1>2, <1>4, <1>5 DEF PassTells, Retries
<1>9. RestTells(n)'
  BY <1>0, <1>1, <1>2, <1>4, <1>5 DEF RestTells, Awaited
<1>. QED
  BY <1>0, <1>4, <1>6, <1>7, <1>8, <1>9

\* Only Retry gives the manual retry a list, and its claim takes it.
LEMMA UserStep ==
    ASSUME TypeOK, JobShape, UserTurn, [Next]_vars
    PROVE  UserTurn'
<1> SUFFICES ASSUME "user" \in Passes
             PROVE  /\ Busy("user")' => todo'["user"] = {}
                    /\ \A k, l \in todo'["user"] : k = l
  BY DEF UserTurn
<1>0. /\ "user" \in Agents /\ "user" \notin Mail
      /\ job \in [Agents -> JobType] /\ todo \in [Passes -> SUBSET Mail]
      /\ Busy("user") => todo["user"] = {}
      /\ \A k, l \in todo["user"] : k = l
  BY MailAssumption DEF Agents, TypeOK, UserTurn
<1>1. ASSUME NEW p \in Passes, NEW m \in Mail, Claim(p, m)
      PROVE  (Busy("user")' => todo'["user"] = {}) /\ \A k, l \in todo'["user"] : k = l
  <2>1. CASE p = "user"
    <3>1. todo'["user"] = todo["user"] \ {m} /\ m \in todo["user"]
      BY <1>0, <1>1, <2>1 DEF Claim
    <3>. QED
      BY <1>0, <3>1
  <2>2. CASE p # "user"
    <3>1. todo'["user"] = todo["user"] /\ job'["user"] = job["user"]
      BY <1>0, <1>1, <2>2 DEF Claim, Start
    <3>. QED
      BY <1>0, <3>1 DEF Busy
  <2>. QED
    BY <2>1, <2>2
<1>2. ASSUME NEW m \in Mail, Retry(m) \/ Cancel(m)
      PROVE  (Busy("user")' => todo'["user"] = {}) /\ \A k, l \in todo'["user"] : k = l
  <2>1. CASE Retry(m)
    <3>1. todo'["user"] = {m} /\ job' = job /\ job["user"].pc = "idle"
      BY <1>0, <2>1 DEF Retry, Free
    <3>. QED
      BY <3>1 DEF Busy
  <2>2. CASE Cancel(m)
    <3>1. todo'["user"] = {}
      BY <2>2 DEF Cancel, Free
    <3>. QED
      BY <3>1
  <2>. QED
    BY <1>2, <2>1, <2>2
<1>3. CASE /\ todo'["user"] \subseteq todo["user"]
           /\ Busy("user")' => Busy("user") \/ todo'["user"] = {}
  BY <1>0, <1>3
<1>4. ASSUME NEW m \in Mail, Inline(m) \/ Confirm(m) \/ Suppress(m)
      PROVE  todo'["user"] = todo["user"] /\ (Busy("user")' => Busy("user"))
  <2>1. todo' = todo /\ (job' = job \/ \A b \in Agents \ {m} : job'[b] = job[b])
    BY <1>0, <1>4 DEF Inline, Submit, Start, Throw, Resolve, Record, Confirm, Suppress
  <2>. QED
    BY <1>0, <2>1 DEF Busy
<1>5. ASSUME NEW p \in Passes, FirstWrite(p) \/ SecondWrite(p)
      PROVE  todo'["user"] = todo["user"] /\ (Busy("user")' => Busy("user"))
  <2>1. /\ todo' = todo /\ (\A b \in Agents \ {p} : job'[b] = job[b])
        /\ Busy(p)
    BY <1>0, <1>5 DEF FirstWrite, SecondWrite, Busy
  <2>. QED
    BY <1>0, <2>1 DEF Busy
<1>6. ASSUME NEW a \in Agents, Call(a)
      PROVE  todo'["user"] = todo["user"] /\ (Busy("user")' => Busy("user"))
  <2>1. todo' = todo /\ (\A b \in Agents \ {a} : job'[b] = job[b]) /\ Busy(a)
    BY <1>0, <1>6 DEF Call, Admit, Transport, TransportAnswer, Busy
  <2>. QED
    BY <1>0, <2>1 DEF Busy
<1>7. ASSUME NEW a \in Agents, Die(a)
      PROVE  todo'["user"] \subseteq todo["user"] /\ (Busy("user")' => Busy("user"))
  <2>1. (\A b \in Agents \ {a} : job'[b] = job[b]) /\ Busy(a)
    BY <1>0, <1>7 DEF Die
  <2>2. todo'["user"] \subseteq todo["user"]
    BY <1>0, <1>7 DEF Die, DropList
  <2>. QED
    BY <1>0, <2>1, <2>2 DEF Busy
<1>8. ASSUME NEW p \in Passes, Abandon(p)
      PROVE  todo'["user"] \subseteq todo["user"] /\ (Busy("user")' => Busy("user"))
  BY <1>0, <1>8 DEF Abandon, DropList, Busy
<1>9. CASE StartCron \/ StartDrain \/ FinishDrain \/ Pause \/ Resume \/ UNCHANGED vars
  <2>1. todo'["user"] = todo["user"] /\ job' = job
    BY <1>0, <1>9 DEF StartCron, StartDrain, FinishDrain, Pause, Resume, vars
  <2>. QED
    BY <1>3, <2>1 DEF Busy
<1>10. CASE Tick
  <2>1. todo' = todo /\ job'["user"].pc = job["user"].pc
    BY <1>0, <1>10 DEF Tick, JobType
  <2>. QED
    BY <1>3, <2>1 DEF Busy
<1>11. ASSUME NEW p \in Passes, Attempt(p)
       PROVE  (Busy("user")' => todo'["user"] = {}) /\ \A k, l \in todo'["user"] : k = l
  BY <1>1, <1>3, <1>5, <1>11 DEF Attempt
<1>. QED
  BY <1>2, <1>3, <1>4, <1>6, <1>7, <1>8, <1>9, <1>10, <1>11 DEF Next

\* Every step keeps the story.
LEMMA TellStep ==
    ASSUME TypeOK, JobShape, LockInv, OutInv, BookInv, TellInv, [Next]_vars
    PROVE  TellInv'
<1>0. UserTurn /\ UserTurn'
  BY UserStep DEF TellInv
<1> SUFFICES ASSUME NEW n \in Mail PROVE Tells(n)'
  BY <1>0 DEF TellInv
<1>1. Tells(n) /\ n \in Agents
  BY DEF TellInv, Agents
<1>2. ASSUME NEW m \in Mail, Confirm(m) PROVE Tells(n)'
  <2>1. /\ job' = job /\ hist' = hist /\ todo' = todo
        /\ row[m].status = "bookkeeping_pending"
        /\ n # m => row'[n] = row[n] /\ sent'[n] = sent[n]
    BY <1>2 DEF Confirm, Deleted, TypeOK
  <2>2. CASE n = m
    BY <1>1, <2>1, <2>2 DEF Tells, Apart
  <2>3. CASE n # m
    BY <1>1, <2>1, <2>3, TellFrame DEF Apart, Worker, Busy
  <2>. QED
    BY <2>2, <2>3
<1>3. ASSUME NEW m \in Mail, Suppress(m) PROVE Tells(n)'
  BY <1>1, <1>3, TellFrame DEF Suppress, Apart, Worker, Busy
<1>4. CASE StartCron \/ StartDrain \/ FinishDrain \/ Pause \/ Resume \/ UNCHANGED vars
  <2>1. /\ row' = row /\ job' = job /\ hist' = hist /\ sent' = sent
        /\ "user" \in Passes => todo'["user"] = todo["user"]
    BY <1>4 DEF StartCron, StartDrain, FinishDrain, Pause, Resume, vars, TypeOK
  <2>. QED
    BY <1>1, <2>1, TellFrame DEF Apart, Worker, Busy
<1>5. ASSUME NEW p \in Passes, Attempt(p) PROVE Tells(n)'
  BY <1>0, <1>1, <1>5, TellClaim, TellFirstWrite, TellSecondWrite DEF Attempt
<1>. QED
  BY <1>0, <1>1, <1>2, <1>3, <1>4, <1>5, TellInline, TellRetry, TellCancel, TellCall, TellDie,
     TellAbandon, TellTick DEF Next

\* Once nothing is under way on a message, the outbox, what its thread shows and
\* what was delivered tell one story, for any number of messages and passes: the
\* two rows are written one after the other, and only an attempt that dies
\* between them or another agent's act in that gap makes them differ.
THEOREM StoryAgrees == Spec => []SentAgrees
<1>1. ASSUME TypeOK, TellInv PROVE SentAgrees
  <2> SUFFICES ASSUME NEW m \in Mail \ Owned, Quiet(m), hist[m].died = 0, ~hist[m].raced
               PROVE  Agrees(m)
    BY DEF SentAgrees
  <2>1. \A a \in Agents : ~Worker(a, m)
    BY DEF Quiet, Worker
  <2>2. Agrees(m) \/ Awaited(m)
    BY <1>1, <2>1 DEF TellInv, Tells, Apart, RestTells, Quiet
  <2>3. ~Awaited(m)
    BY DEF Awaited, Quiet
  <2>. QED
    BY <2>2, <2>3
<1>. QED
  BY <1>1, TypeInit, TypeStep, LockInit, LockStep, OutInit, OutStep, BookInit, BookStep,
     TellInit, TellStep, PTL DEF Spec

=============================================================================
