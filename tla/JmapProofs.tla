----------------------------- MODULE JmapProofs -----------------------------
(***************************************************************************)
(* What holds of the two parts of JMAP that are modelled.                  *)
(*                                                                         *)
(* Submission: for every form of a submission, every choice of times and   *)
(* of the attempts' budget that satisfies the assumptions, and any number  *)
(* of runs that die, statements that throw and answers that are lost, it   *)
(* goes out once, its Email is never lost, the draft and the Sent row say  *)
(* what became of it, and its rows implement the promise of UndoableSend.  *)
(*                                                                         *)
(* ChangeLog: for any number of writes, days, changes of the grant and of  *)
(* the epoch, and any page sizes, windows and limits, a client that        *)
(* follows the log passes over nothing but what ChangeLog.tla exempts      *)
(* (ghosts), and is told that an Email is destroyed only when it cannot    *)
(* see it.                                                                 *)
(***************************************************************************)
EXTENDS Submission, ChangeLog, FiniteSetTheorems, WellFoundedInduction, TLAPS

-----------------------------------------------------------------------------
(* Submissions: the inductive invariant.                                   *)

SendPoints == {"claimed", "calling", "answered", "threw", "resolved"}

\* Which agent takes up which task, and where in it a run can stand.
Fits(a, t, p) ==
    /\ t = "none" <=> p \in {"new", "idle"}
    /\ t = "send" => p \in SendPoints
    /\ t = "schedule" => p \in {"claimed", "undo", "abandon"}
    /\ t = "release" => p \in SendPoints \cup {"missing", "found"}
    /\ t = "retry" => p \in {"claimed", "calling", "answered", "written"}
    /\ t = "step" => p \in {"ready", "selected", "deleted", "missing", "found", "filed"}
    /\ t = "recover" => p \in {"read", "recorded", "accepted", "erased", "dropped", "abandon"}
    /\ t = "settle" => p = "read"
    /\ t = "restore" => p \in {"move", "check"}
    /\ t = "delete" => p = "erased"
    /\ p = "new" => a = "request"
    /\ a = "request" => t \in {"none", "send", "schedule", "step"}
    /\ a = "queue" => t \in {"none", "release"}
    /\ a = "cron" => t \in {"none", "release", "retry", "step", "recover", "settle", "restore"}
    /\ a = "user" => t \in {"none", "retry", "restore", "delete"}

Shape == \A a \in Agents : Fits(a, job[a].task, job[a].pc)

\* The request works on a submission no tick has aged, a release on one it has
\* claimed alone, the recovery on one that is older than any run.
Stages ==
    /\ job["request"].pc = "new" => sub.state = "none"
    /\ job["request"].pc # "idle" => sub.age = 0 /\ (form.delayed => due > 0)
    /\ job["request"].task = "send" => ~form.delayed /\ sub.state = "claimed"
    /\ job["request"].task = "schedule" =>
         form.delayed /\ sub.state \in {"claimed", "scheduled"}
    /\ At("request", "schedule", "claimed") => sub.state = "claimed"
    /\ \A a \in Agents : job[a].task = "release" => sub.state = "releasing" /\ sub.since = 0
    /\ \A a, b \in Agents : job[a].task = "release" /\ job[b].task = "release" => a = b
    /\ At("cron", "recover", "accepted") => sub.state = "accepted"
    /\ At("cron", "recover", "abandon") => sub.state = "gone"
    /\ job["cron"].task = "recover" /\ job["cron"].pc \notin {"accepted", "abandon"} =>
         sub.state = "claimed" /\ sub.age = RecoveryAge
    /\ job["cron"].task = "settle" => sub.state = "releasing" /\ sub.since = RecoveryAge
    /\ job["cron"].task = "settle" /\ job["cron"].seen = "none" => row.status = "none"
    /\ sub.undo = "canceled" => form.delayed /\ sub.state \in {"scheduled", "gone"}
    /\ sub.state \in {"scheduled", "releasing"} => form.delayed
    /\ sub.state = "releasing" => sub.undo = "pending"
    /\ sub.state = "claimed" /\ form.delayed => sub.undo = "pending"

\* As many deliveries as lost answers: another attempt may still be made.
Clean == hist.delivered <= hist.lost

\* An agent that was told of a delivery and has yet to write it to the outbox.
Told(a) == job[a].pc \in {"answered", "written"} /\ job[a].answer = "accepted"

\* An agent that counts on nobody else being at the row.
Holder(a) == job[a].pc \in {"calling", "answered", "threw"} \/ Told(a)

\* A send or a release before its first write to the outbox.
Starting(a) == job[a].task \in {"send", "release"} /\ job[a].pc \in {"claimed", "missing", "found"}

\* Nothing was sent of the submission yet, or ever.
Unsent ==
    sub.state \in {"none", "scheduled"} \/ (form.delayed /\ sub.state \in {"claimed", "gone"})

\* No run will send it again but a retry of its row.
Over ==
    sub.state \in {"claimed", "accepted", "gone"} /\ job["request"].task \notin {"send", "schedule"}

\* The row's lease keeps its holder alone; only a retry outlives its row, of a
\* submission that is over.
Leases ==
    /\ \A a \in Agents : Holder(a) =>
         \/ row.status = "pending" /\ row.wait = Lease
         \/ row.status = "none" /\ (job[a].pc = "threw" \/ (job[a].task = "retry" /\ Over))
    /\ \A a, b \in Agents : Holder(a) /\ Holder(b) => a = b
    /\ Unsent \/ (\E a \in Agents : Starting(a)) =>
         row.status = "none" /\ Clean /\ \A a \in Agents : ~Holder(a)

\* After a delivery nobody has lost, the agent that knows of it holds the row, or
\* the row shows it, or there is no row.
Counts ==
    /\ hist.delivered <= 1 + hist.lost
    /\ \A a \in Agents : job[a].pc \in {"calling", "threw"} => Clean
    /\ ~Clean => row.status \in {"none", "bookkeeping_pending"} \/ \E a \in Agents : Told(a)
    /\ ~Clean /\ sub.state = "releasing" => row.status # "none"

\* The Email is filed only under a submission that is past its claim, and its
\* draft goes only by being filed or destroyed.
Places ==
    /\ filed => draft = "gone" /\ sent # "none" /\ sub.state \notin {"none", "claimed"}
                /\ job["request"].task # "schedule"
    /\ draft = "gone" => filed \/ form.mode = "destroy" \/ hist.erased = "email"
    /\ \A a \in Agents : job[a].task = "step" => sub.state \notin {"none", "claimed"}
    /\ job["cron"].task = "step" => job["request"].task # "schedule"
    /\ job["user"].task = "delete" => hist.erased = "no"
    /\ form.delayed /\ sub.state \in {"none", "claimed"} => sent = "none"
    /\ form.delayed /\ job["cron"].task = "recover" =>
         job["cron"].seen = "none" /\ job["cron"].pc \notin {"recorded", "accepted"}
    /\ \A a \in Agents : At(a, "step", "missing") => job[a].seen \in SentStatuses

IInv == TypeOK /\ Shape /\ Stages /\ Leases /\ Counts /\ Places

-----------------------------------------------------------------------------
(* The updates the actions make.                                           *)

\* The bounds of the model, as the leaves below need them.
LEMMA Bounds ==
    /\ MaxAttempts \in Nat /\ Delay \in Nat /\ Grace \in Nat /\ RecoveryAge \in Nat
    /\ Lease \in Nat /\ CoolDown \in Nat /\ MaxFaults \in Nat
    /\ Delay > 0 /\ RecoveryAge > 0 /\ CoolDown > 0 /\ CoolDown < Lease /\ RecoveryAge < Lease
    /\ Forms \subseteq FormType
BY TimeAssumption, FormAssumption

\* The submission comes to the given state, undo status and age of its claim.
SubBecomes(s, u, n) ==
    /\ sub' \in SubType
    /\ sub'.state = s /\ sub'.undo = u /\ sub'.since = n /\ sub'.age = sub.age

Undos == {"pending", "canceled", "final"}

\* What every update of the submission's row makes of it.
LEMMA SubMoves ==
    ASSUME sub \in SubType
    PROVE  /\ \A s \in States :
                sub' = [sub EXCEPT !.state = s] => SubBecomes(s, sub.undo, sub.since)
           /\ \A s \in States, u \in Undos :
                sub' = [sub EXCEPT !.state = s, !.undo = u] => SubBecomes(s, u, sub.since)
           /\ \A u \in Undos : sub' = [sub EXCEPT !.undo = u] => SubBecomes(sub.state, u, sub.since)
           /\ sub' = [sub EXCEPT !.state = "releasing", !.since = 0]
              => SubBecomes("releasing", sub.undo, 0)
           /\ sub' = [sub EXCEPT !.step = "applied"] => SubBecomes(sub.state, sub.undo, sub.since)
           /\ \A u \in Undos, s \in {"pending", "applied"} :
                sub' = [sub EXCEPT !.undo = u, !.step = s] => SubBecomes(sub.state, u, sub.since)
           /\ \A u \in Undos, r \in BOOLEAN :
                sub' = [sub EXCEPT !.undo = u, !.restore = r] => SubBecomes(sub.state, u, sub.since)
           /\ \A r \in BOOLEAN :
                sub' = [sub EXCEPT !.restore = r] => SubBecomes(sub.state, sub.undo, sub.since)
           /\ sub' = Dropped => SubBecomes("gone", sub.undo, sub.since)
           /\ sub.state = "releasing" /\ sub' = Accepted => SubBecomes("accepted", "final", sub.since)
           /\ sub.state = "releasing" /\ sub' = Unclaimed => SubBecomes("scheduled", sub.undo, 0)
           /\ \A u \in Undos :
                sub.state = "releasing" /\ sub' = [Unclaimed EXCEPT !.undo = u]
                => SubBecomes("scheduled", u, 0)
           /\ sub' = sub => SubBecomes(sub.state, sub.undo, sub.since)
<1>1. sub \in SubType /\ 0 \in 0..RecoveryAge
  BY Bounds
<1>2. /\ \A s \in States :
           sub' = [sub EXCEPT !.state = s] => SubBecomes(s, sub.undo, sub.since)
      /\ \A s \in States, u \in Undos :
           sub' = [sub EXCEPT !.state = s, !.undo = u] => SubBecomes(s, u, sub.since)
      /\ \A u \in Undos : sub' = [sub EXCEPT !.undo = u] => SubBecomes(sub.state, u, sub.since)
  BY DEF SubType, SubBecomes, Undos
<1>3. /\ sub' = [sub EXCEPT !.state = "releasing", !.since = 0]
         => SubBecomes("releasing", sub.undo, 0)
      /\ sub' = [sub EXCEPT !.step = "applied"] => SubBecomes(sub.state, sub.undo, sub.since)
      /\ \A u \in Undos, s \in {"pending", "applied"} :
           sub' = [sub EXCEPT !.undo = u, !.step = s] => SubBecomes(sub.state, u, sub.since)
  BY <1>1 DEF SubType, SubBecomes, Undos, States
<1>4. /\ \A u \in Undos, r \in BOOLEAN :
           sub' = [sub EXCEPT !.undo = u, !.restore = r] => SubBecomes(sub.state, u, sub.since)
      /\ \A r \in BOOLEAN :
           sub' = [sub EXCEPT !.restore = r] => SubBecomes(sub.state, sub.undo, sub.since)
      /\ sub' = Dropped => SubBecomes("gone", sub.undo, sub.since)
  BY DEF SubType, SubBecomes, Undos, States, Dropped
<1>5. sub.state = "releasing" /\ sub' = Accepted => SubBecomes("accepted", "final", sub.since)
  BY DEF SubType, SubBecomes, States, Accepted
<1>6. sub.state = "releasing" /\ sub' = Unclaimed => SubBecomes("scheduled", sub.undo, 0)
  BY <1>1 DEF SubType, SubBecomes, States, Unclaimed
<1>7. ASSUME NEW u \in Undos, sub.state = "releasing", sub' = [Unclaimed EXCEPT !.undo = u]
      PROVE  SubBecomes("scheduled", u, 0)
  BY <1>1, <1>7 DEF SubType, SubBecomes, States, Unclaimed, Undos
<1>. QED
  BY <1>1, <1>2, <1>3, <1>4, <1>5, <1>6, <1>7 DEF SubBecomes

\* The rows the outbox writes are rows.
LEMMA RowMoves ==
    ASSUME TypeOK
    PROVE  /\ NoRow \in RowType /\ FailedRow \in RowType /\ ConfirmedRow \in RowType
           /\ [status |-> "pending", attempts |-> 0, wait |-> Lease, held |-> FALSE] \in RowType
           /\ \A ans \in Answers : Resolved(ans) \in RowType
           /\ \A a \in Agents : Rearmed(a) \in RowType
           /\ [row EXCEPT !.status = "bookkeeping_pending"] \in RowType
           /\ [row EXCEPT !.attempts = @ + 1, !.wait = Lease] \in RowType
           /\ [row EXCEPT !.status = "pending", !.wait = 0,
                          !.attempts = IF row.status = "failed" THEN 0 ELSE @] \in RowType
           /\ Later(row) \in RowType
           /\ \A r \in RowType : RowSet(r) \in RowType
<1>1. row \in RowType /\ 0 \in 0..Lease /\ Lease \in 0..Lease /\ CoolDown \in 0..Lease
  BY Bounds DEF TypeOK
<1>2. NoRow \in RowType
  BY <1>1 DEF RowType, RowStatuses, NoRow
<1>3. FailedRow \in RowType /\ ConfirmedRow \in RowType
  BY <1>1, <1>2 DEF RowType, RowStatuses, FailedRow, ConfirmedRow
<1>4. [status |-> "pending", attempts |-> 0, wait |-> Lease, held |-> FALSE] \in RowType
  BY <1>1 DEF RowType, RowStatuses
<1>5. \A ans \in Answers : Resolved(ans) \in RowType
  BY <1>1 DEF RowType, RowStatuses, Resolved
<1>6. ASSUME NEW a \in Agents PROVE Rearmed(a) \in RowType
  <2>1. \A h \in BOOLEAN, n \in Nat :
           [row EXCEPT !.wait = 0, !.held = h, !.attempts = n] \in RowType
    BY <1>1 DEF RowType
  <2>2. /\ (job[a].answer = "held") \in BOOLEAN
        /\ (IF job[a].answer = "held" /\ row.attempts > 0 THEN row.attempts - 1 ELSE row.attempts) \in Nat
    BY <1>1 DEF RowType
  <2>. QED
    BY <2>1, <2>2 DEF Rearmed
<1>7. /\ [row EXCEPT !.status = "bookkeeping_pending"] \in RowType
      /\ [row EXCEPT !.attempts = @ + 1, !.wait = Lease] \in RowType
  <2>1. [row EXCEPT !.status = "bookkeeping_pending"] \in RowType
    BY <1>1 DEF RowType, RowStatuses
  <2>2. row.attempts + 1 \in Nat
    BY <1>1 DEF RowType
  <2>3. \A n \in Nat : [row EXCEPT !.attempts = n, !.wait = Lease] \in RowType
    BY <1>1 DEF RowType
  <2>. QED
    BY <2>1, <2>2, <2>3
<1>8. [row EXCEPT !.status = "pending", !.wait = 0,
                  !.attempts = IF row.status = "failed" THEN 0 ELSE @] \in RowType
  <2>1. \A n \in Nat : [row EXCEPT !.status = "pending", !.wait = 0, !.attempts = n] \in RowType
    BY <1>1 DEF RowType, RowStatuses
  <2>2. /\ row.attempts \in Nat
        /\ [row EXCEPT !.status = "pending", !.wait = 0].attempts = row.attempts
    BY <1>1 DEF RowType
  <2>. QED
    BY <2>1, <2>2
<1>9. Later(row) \in RowType
  BY <1>1, Bounds DEF RowType, Later
<1>10. \A r \in RowType : RowSet(r) \in RowType
  BY <1>2 DEF RowSet
<1>. QED
  BY <1>2, <1>3, <1>4, <1>5, <1>6, <1>7, <1>8, <1>9, <1>10

\* What is delivered, and what is lost; the erasure is the delete's own.
HistBecomes(d, l) ==
    /\ hist' \in HistType
    /\ hist'.delivered = d /\ hist'.lost = l /\ hist'.erased = hist.erased

\* What happened is counted.
LEMMA HistMoves ==
    ASSUME hist \in HistType
    PROVE  /\ \A d, l \in Nat : hist' = [hist EXCEPT !.delivered = d, !.lost = l] => HistBecomes(d, l)
           /\ \A l \in Nat : hist' = [hist EXCEPT !.lost = l] => HistBecomes(hist.delivered, l)
           /\ \A l \in Nat, r, u \in BOOLEAN :
                hist' = [hist EXCEPT !.lost = l, !.raced = r, !.unlocked = u]
                => HistBecomes(hist.delivered, l)
           /\ \A r \in BOOLEAN :
                hist' = [hist EXCEPT !.raced = r] => HistBecomes(hist.delivered, hist.lost)
           /\ \A a \in Agents :
                \/ hist' = Raced(a)
                \/ hist' = [Raced(a) EXCEPT !.revived = TRUE]
                \/ hist' = [Raced(a) EXCEPT !.discarded = TRUE]
                => HistBecomes(hist.delivered, hist.lost)
           /\ hist' = hist => HistBecomes(hist.delivered, hist.lost)
           /\ hist.delivered \in Nat /\ hist.lost \in Nat /\ hist.raced \in BOOLEAN
<1>1. hist \in HistType /\ hist.raced \in BOOLEAN
  BY DEF HistType
<1>2. /\ \A d, l \in Nat : hist' = [hist EXCEPT !.delivered = d, !.lost = l] => HistBecomes(d, l)
      /\ \A l \in Nat : hist' = [hist EXCEPT !.lost = l] => HistBecomes(hist.delivered, l)
      /\ \A l \in Nat, r, u \in BOOLEAN :
           hist' = [hist EXCEPT !.lost = l, !.raced = r, !.unlocked = u]
           => HistBecomes(hist.delivered, l)
      /\ \A r \in BOOLEAN :
           hist' = [hist EXCEPT !.raced = r] => HistBecomes(hist.delivered, hist.lost)
      /\ hist.delivered \in Nat /\ hist.lost \in Nat
  BY <1>1 DEF HistType, HistBecomes
<1>3. ASSUME NEW a \in Agents
      PROVE  /\ hist' = Raced(a) => HistBecomes(hist.delivered, hist.lost)
             /\ hist' = [Raced(a) EXCEPT !.revived = TRUE] => HistBecomes(hist.delivered, hist.lost)
             /\ hist' = [Raced(a) EXCEPT !.discarded = TRUE] => HistBecomes(hist.delivered, hist.lost)
  <2>1. PICK r \in BOOLEAN : r = (hist.raced \/ Pending(a))
    BY <1>1
  <2>2. Raced(a) = [hist EXCEPT !.raced = r]
    BY <2>1 DEF Raced
  <2>. QED
    BY <1>1, <2>2 DEF HistType, HistBecomes
<1>. QED
  BY <1>1, <1>2, <1>3 DEF HistBecomes

\* One agent, and no other, comes to the given point.
Becomes(a, t, p, ans, s) ==
    /\ job' \in [Agents -> JobType]
    /\ job'[a].task = t /\ job'[a].pc = p /\ job'[a].answer = ans /\ job'[a].seen = s
    /\ \A b \in Agents \ {a} : job'[b] = job[b]

\* A run that moves on is still one of the runs there are.
LEMMA JobMoves ==
    ASSUME job \in [Agents -> JobType], NEW a \in Agents
    PROVE  /\ \A p \in Points :
                Go(a, p) => Becomes(a, job[a].task, p, job[a].answer, job[a].seen)
           /\ \A t \in Tasks, p \in Points : Begin(a, t, p) => Becomes(a, t, p, "none", "none")
           /\ End(a) => Becomes(a, "none", "idle", "none", "none")
           /\ \A ans \in Answers :
                Answer(a, ans) => Becomes(a, job[a].task, "answered", ans, job[a].seen)
           /\ \A p \in Points, ans \in Answers :
                job' = [job EXCEPT ![a].pc = p, ![a].answer = ans]
                => Becomes(a, job[a].task, p, ans, job[a].seen)
           /\ \A t \in Tasks, p \in Points, s \in States \cup RowStatuses \cup SentStatuses :
                job' = [job EXCEPT ![a] = [Idle EXCEPT !.task = t, !.pc = p, !.seen = s]]
                => Becomes(a, t, p, "none", s)
           /\ \A t \in Tasks, p \in Points, ans \in Answers :
                job' = [job EXCEPT ![a] = [task |-> t, pc |-> p, answer |-> ans, seen |-> "none"]]
                => Becomes(a, t, p, ans, "none")
           /\ \A p \in Points, s \in States \cup RowStatuses \cup SentStatuses :
                job' = [job EXCEPT ![a] = [job[a] EXCEPT !.pc = p, !.seen = s]]
                => Becomes(a, job[a].task, p, job[a].answer, s)
           /\ job[a] \in JobType
<1>1. ASSUME NEW j \in JobType, job' = [job EXCEPT ![a] = j]
      PROVE  Becomes(a, j.task, j.pc, j.answer, j.seen)
  BY <1>1 DEF Becomes
<1>2. job[a] \in JobType /\ Idle \in JobType
  BY DEF JobType, Idle, Tasks, Points, Answers, RowStatuses
<1>3. ASSUME NEW t \in Tasks, NEW p \in Points, NEW ans \in Answers,
             NEW s \in States \cup RowStatuses \cup SentStatuses
      PROVE  /\ [job[a] EXCEPT !.pc = p] \in JobType
             /\ [job[a] EXCEPT !.pc = p, !.answer = ans] \in JobType
             /\ [job[a] EXCEPT !.pc = p, !.seen = s] \in JobType
             /\ [Idle EXCEPT !.task = t, !.pc = p] \in JobType
             /\ [Idle EXCEPT !.task = t, !.pc = p, !.seen = s] \in JobType
             /\ [task |-> t, pc |-> p, answer |-> ans, seen |-> s] \in JobType
  BY <1>2 DEF JobType
<1>4. /\ "answered" \in Points /\ "none" \in Answers /\ "none" \in Tasks
      /\ "none" \in States \cup RowStatuses \cup SentStatuses
  BY DEF Points, Answers, Tasks, States
<1>5. ASSUME NEW p \in Points, Go(a, p)
      PROVE  Becomes(a, job[a].task, p, job[a].answer, job[a].seen)
  <2>. DEFINE j == [job[a] EXCEPT !.pc = p]
  <2>1. job' = [job EXCEPT ![a] = j]
    BY <1>5 DEF Go
  <2>2. j \in JobType
    BY <1>3, <1>4
  <2>3. Becomes(a, j.task, j.pc, j.answer, j.seen)
    BY <1>1, <2>1, <2>2
  <2>4. j.task = job[a].task /\ j.pc = p /\ j.answer = job[a].answer /\ j.seen = job[a].seen
    BY <1>2 DEF JobType
  <2>. QED
    BY <2>3, <2>4
<1>6. ASSUME NEW p \in Points, NEW ans \in Answers,
             job' = [job EXCEPT ![a].pc = p, ![a].answer = ans]
      PROVE  Becomes(a, job[a].task, p, ans, job[a].seen)
  <2>. DEFINE j == [job[a] EXCEPT !.pc = p, !.answer = ans]
  <2>1. job' = [job EXCEPT ![a] = j]
    BY <1>6
  <2>2. j \in JobType
    BY <1>3, <1>4
  <2>3. Becomes(a, j.task, j.pc, j.answer, j.seen)
    BY <1>1, <2>1, <2>2
  <2>4. j.task = job[a].task /\ j.pc = p /\ j.answer = ans /\ j.seen = job[a].seen
    BY <1>2 DEF JobType
  <2>. QED
    BY <2>3, <2>4
<1>7. ASSUME NEW ans \in Answers, Answer(a, ans)
      PROVE  Becomes(a, job[a].task, "answered", ans, job[a].seen)
  BY <1>4, <1>6, <1>7 DEF Answer
<1>8. ASSUME NEW t \in Tasks, NEW p \in Points, NEW s \in States \cup RowStatuses \cup SentStatuses,
             job' = [job EXCEPT ![a] = [Idle EXCEPT !.task = t, !.pc = p, !.seen = s]]
      PROVE  Becomes(a, t, p, "none", s)
  BY <1>1, <1>3, <1>4, <1>8 DEF Idle
<1>9. ASSUME NEW t \in Tasks, NEW p \in Points, Begin(a, t, p)
      PROVE  Becomes(a, t, p, "none", "none")
  BY <1>1, <1>3, <1>4, <1>9 DEF Idle, Begin
<1>10. ASSUME NEW t \in Tasks, NEW p \in Points, NEW ans \in Answers,
             job' = [job EXCEPT ![a] = [task |-> t, pc |-> p, answer |-> ans, seen |-> "none"]]
       PROVE Becomes(a, t, p, ans, "none")
  BY <1>1, <1>3, <1>4, <1>10
<1>11. ASSUME NEW p \in Points, NEW s \in States \cup RowStatuses \cup SentStatuses,
              job' = [job EXCEPT ![a] = [job[a] EXCEPT !.pc = p, !.seen = s]]
       PROVE  Becomes(a, job[a].task, p, job[a].answer, s)
  <2>. DEFINE j == [job[a] EXCEPT !.pc = p, !.seen = s]
  <2>1. job' = [job EXCEPT ![a] = j]
    BY <1>11
  <2>2. j \in JobType
    BY <1>3, <1>4
  <2>3. Becomes(a, j.task, j.pc, j.answer, j.seen)
    BY <1>1, <2>1, <2>2
  <2>4. j.task = job[a].task /\ j.pc = p /\ j.answer = job[a].answer /\ j.seen = s
    BY <1>2 DEF JobType
  <2>. QED
    BY <2>3, <2>4
<1>12. End(a) => Becomes(a, "none", "idle", "none", "none")
  BY <1>1, <1>2 DEF End, Idle
<1>. QED
  BY <1>2, <1>5, <1>6, <1>7, <1>8, <1>9, <1>10, <1>11, <1>12

-----------------------------------------------------------------------------
(* Every action keeps the invariant: a lemma for each, named for it, and   *)
(* one for each shape that several actions share.                          *)

\* What the leaves below need of the types.
LEMMA Fields ==
    ASSUME TypeOK
    PROVE  /\ sub \in SubType /\ row \in RowType /\ hist \in HistType
           /\ job \in [Agents -> JobType] /\ form \in FormType
           /\ sub.state \in States /\ sub.undo \in Undos
           /\ sub.age \in Int /\ sub.since \in Int
           /\ row.status \in RowStatuses /\ row.wait \in Int /\ due \in Int
           /\ hist.delivered \in Nat /\ hist.lost \in Nat
           /\ form.delayed \in BOOLEAN
           /\ \A a \in Agents : job[a] \in JobType /\ job[a].answer \in Answers
<1>1. sub \in SubType /\ row \in RowType /\ hist \in HistType
      /\ job \in [Agents -> JobType] /\ form \in FormType
  BY DEF TypeOK
<1>2. /\ sub.state \in States /\ sub.undo \in Undos /\ sub.age \in Int /\ sub.since \in Int
  BY <1>1, Bounds DEF SubType, Undos
<1>3. row.status \in RowStatuses /\ row.wait \in Int /\ due \in Int
  BY <1>1, Bounds DEF RowType, TypeOK
<1>4. hist.delivered \in Nat /\ hist.lost \in Nat /\ form.delayed \in BOOLEAN
  BY <1>1 DEF HistType, FormType
<1>5. \A a \in Agents : job[a] \in JobType /\ job[a].answer \in Answers
  BY <1>1 DEF JobType
<1>. QED
  BY <1>1, <1>2, <1>3, <1>4, <1>5

\* A run that moves to a point of its task keeps the shape of them all.
LEMMA ShapeKept ==
    ASSUME Shape, NEW a \in Agents, NEW t, NEW p, NEW ans, NEW s,
           Becomes(a, t, p, ans, s), Fits(a, t, p)
    PROVE  Shape'
BY DEF Shape, Becomes

\* No agent but one moves, to a point that neither sends nor holds the row.
Aside(a) ==
    /\ \A b \in Agents \ {a} : job'[b] = job[b]
    /\ \/ job'[a].task \in {"step", "restore", "delete"}
       \/ job'[a].task = "none" /\ job'[a].pc = "idle"
       \/ job'[a].task = "retry" /\ job'[a].pc = "claimed"
       \/ /\ job'[a].task = "recover" /\ job'[a].pc \notin {"accepted", "abandon"}
          /\ sub.state = "claimed" /\ sub.age = RecoveryAge
    /\ a = "request" => job'[a].pc = "idle" \/ job[a].pc # "idle"
    /\ Told(a) => row.status # "pending" \/ hist'.delivered <= hist'.lost

\* A held message may be taken back, and answers may be lost.
Calm ==
    /\ sub'.state = sub.state /\ sub'.since = sub.since /\ sub'.age = sub.age
    /\ sub'.undo = sub.undo \/ (Waiting /\ sub'.undo = "canceled")
    /\ hist'.delivered = hist.delivered /\ hist'.lost >= hist.lost /\ hist'.lost \in Nat
    /\ row' = row /\ form' = form /\ due' = due

\* Such a step disturbs nothing of what was sent, and by whom.
LEMMA AsideStep ==
    ASSUME IInv, Shape', Calm, NEW a \in Agents, Aside(a)
    PROVE  Stages' /\ Leases' /\ Counts'
<1>. USE Fields DEF IInv
<1>0. Fits(a, job'[a].task, job'[a].pc)
  BY DEF Shape
<1>1. Stages'
  BY <1>0 DEF Stages, Aside, Calm, Fits, At, Waiting, Agents
<1>2. \A b \in Agents : Holder(b)' => Holder(b) /\ b # a /\ job'[b] = job[b]
  BY <1>0 DEF Holder, Told, Aside, Fits
<1>3. \A b \in Agents : Starting(b)' => Starting(b)
  BY DEF Starting, Aside
<1>4. (Unsent' <=> Unsent) /\ (Over => Over') /\ (Clean => Clean')
  BY DEF Unsent, Over, Clean, Aside, Calm, Agents
<1>5. Leases'
  BY <1>2, <1>3, <1>4 DEF Leases, Calm
<1>6. Counts'
  BY <1>2 DEF Counts, Leases, Holder, Told, Clean, Aside, Calm
<1>. QED
  BY <1>1, <1>5, <1>6

\* Nor does a step of no run at all.
LEMMA StillStep ==
    ASSUME IInv, Calm, job' = job
    PROVE  Shape' /\ Stages' /\ Leases' /\ Counts'
<1>. USE Fields DEF IInv
<1>0. Shape'
  BY DEF Shape
<1>1. Stages'
  BY DEF Stages, Calm, At, Waiting
<1>2. Leases'
  BY DEF Leases, Unsent, Over, Clean, Holder, Told, Starting, Calm
<1>3. Counts'
  BY DEF Counts, Clean, Told, Calm
<1>. QED
  BY <1>0, <1>1, <1>2, <1>3

\* A due row is taken up.
LEMMA ListDueKept ==
    ASSUME IInv, ListDue
    PROVE  IInv'
<1>. USE Fields DEF IInv
<1>1. SubBecomes(sub.state, sub.undo, sub.since) /\ HistBecomes(hist.delivered, hist.lost)
  BY SubMoves, HistMoves, Zenon DEF ListDue
<1>2. Calm
  BY DEF ListDue, Calm
<1>3. CASE TRUE
  <2>1. Becomes("cron", "retry", "claimed", "none", "none") /\ "cron" \in Agents
    BY <1>3, JobMoves, Zenon DEF ListDue, IsIdle, Agents, Tasks, Points, Answers, States
  <2>2. Fits("cron", "retry", "claimed")
    BY DEF Fits
  <2>3. Shape'
    BY <2>1, <2>2, ShapeKept
  <2>4. Aside("cron")
    BY <2>1 DEF ListDue, IsIdle, Becomes, Aside, Told
  <2>5. TypeOK'
    BY <2>1 DEF ListDue, TypeOK, Becomes
  <2>6. Places'
    BY <2>1 DEF ListDue, Places, At, Becomes, Agents
  <2>. QED
    BY <1>2, <2>1, <2>3, <2>4, <2>5, <2>6, AsideStep
<1>. QED
  BY <1>3 DEF ListDue

\* A claimed submission is read.
LEMMA ReadClaimedKept ==
    ASSUME IInv, ReadClaimed
    PROVE  IInv'
<1>. USE Fields DEF IInv
<1>1. SubBecomes(sub.state, sub.undo, sub.since) /\ HistBecomes(hist.delivered, hist.lost)
  BY SubMoves, HistMoves DEF ReadClaimed
<1>2. Calm
  BY DEF ReadClaimed, Calm
<1>3. CASE TRUE
  <2>0. job' = [job EXCEPT !["cron"] = [Idle EXCEPT !.task = "recover", !.pc = "read", !.seen = row.status]]
    BY <1>3 DEF ReadClaimed, IsIdle
  <2>9. Becomes("cron", "recover", "read", "none", row.status)
    BY <2>0, JobMoves, Zenon DEF Agents, Tasks, Points, Answers, States, RowStatuses, SentStatuses
  <2>1. Becomes("cron", "recover", "read", "none", row.status) /\ "cron" \in Agents
    BY <2>0, <2>9 DEF Becomes, Agents
  <2>2. Fits("cron", "recover", "read")
    BY DEF Fits
  <2>3. Shape'
    BY <2>1, <2>2, ShapeKept
  <2>4. Aside("cron")
    BY <2>1 DEF ReadClaimed, IsIdle, Aside, Told
  <2>5. TypeOK'
    BY <1>1, <2>1 DEF ReadClaimed, TypeOK, Becomes, HistBecomes
  <2>6. Places'
    BY DEF ReadClaimed, Leases, Unsent, Places, At
  <2>. QED
    BY <1>2, <2>1, <2>3, <2>4, <2>5, <2>6, AsideStep
<1>. QED
  BY <1>3 DEF ReadClaimed

LEMMA RecordClaimedKept ==
    ASSUME IInv, RecordClaimed
    PROVE  IInv'
<1>. USE Fields DEF IInv
<1>1. SubBecomes(sub.state, sub.undo, sub.since) /\ HistBecomes(hist.delivered, hist.lost)
  BY SubMoves, HistMoves, Zenon DEF RecordClaimed
<1>2. Calm
  BY DEF RecordClaimed, Calm
<1>3. CASE TRUE
  <2>1. /\ Becomes("cron", "recover", "recorded", job["cron"].answer, job["cron"].seen)
        /\ "cron" \in Agents
    BY <1>3, JobMoves, Zenon DEF RecordClaimed, At, Seen, Agents, Tasks, Points, Answers, States
  <2>2. Fits("cron", "recover", "recorded")
    BY DEF Fits
  <2>3. Shape'
    BY <2>1, <2>2, ShapeKept
  <2>4. Aside("cron")
    BY <2>1 DEF RecordClaimed, At, Becomes, Aside, Told, Stages
  <2>5. TypeOK'
    BY <2>1 DEF RecordClaimed, TypeOK, SentStatuses, Becomes
  <2>6. Places'
    BY <2>1 DEF RecordClaimed, At, Seen, Places, Becomes, Agents
  <2>. QED
    BY <1>2, <2>1, <2>3, <2>4, <2>5, <2>6, AsideStep
<1>. QED
  BY <1>3 DEF RecordClaimed

LEMMA AbandonSentKept ==
    ASSUME IInv, AbandonSent
    PROVE  IInv'
<1>. USE Fields DEF IInv
<1>1. SubBecomes(sub.state, sub.undo, sub.since) /\ HistBecomes(hist.delivered, hist.lost)
  BY SubMoves, HistMoves, Zenon DEF AbandonSent
<1>2. Calm
  BY DEF AbandonSent, Calm
<1>3. CASE TRUE
  <2>1. /\ Becomes("cron", "recover", "erased", job["cron"].answer, job["cron"].seen)
        /\ "cron" \in Agents
    BY <1>3, JobMoves, Zenon DEF AbandonSent, At, Agents, Tasks, Points, Answers, States
  <2>2. Fits("cron", "recover", "erased")
    BY DEF Fits
  <2>3. Shape'
    BY <2>1, <2>2, ShapeKept
  <2>4. Aside("cron")
    BY <2>1 DEF AbandonSent, At, Becomes, Aside, Told, Stages
  <2>5. TypeOK'
    BY <2>1 DEF AbandonSent, TypeOK, SentStatuses, Becomes
  <2>6. Places'
    BY <2>1 DEF AbandonSent, At, Places, Stages, Becomes, Agents
  <2>. QED
    BY <1>2, <2>1, <2>3, <2>4, <2>5, <2>6, AsideStep
<1>. QED
  BY <1>3 DEF AbandonSent

LEMMA ReleaseClaimKept ==
    ASSUME IInv, ReleaseClaim
    PROVE  IInv'
<1>. USE Fields DEF IInv
<1>1. SubBecomes(sub.state, sub.undo, sub.since) /\ HistBecomes(hist.delivered, hist.lost)
  BY SubMoves, HistMoves, Zenon DEF ReleaseClaim
<1>2. Calm
  BY DEF ReleaseClaim, Calm
<1>3. CASE TRUE
  <2>1. Becomes("cron", "none", "idle", "none", "none") /\ "cron" \in Agents
    BY JobMoves, Zenon DEF ReleaseClaim, Agents
  <2>2. Fits("cron", "none", "idle")
    BY DEF Fits
  <2>3. Shape'
    BY <2>1, <2>2, ShapeKept
  <2>4. Aside("cron")
    BY <2>1 DEF ReleaseClaim, At, Becomes, Aside, Told
  <2>5. TypeOK'
    BY <2>1 DEF ReleaseClaim, Unlocked, TypeOK, Becomes
  <2>6. Places'
    BY <2>1 DEF ReleaseClaim, At, Unlocked, Places, Becomes, Agents
  <2>. QED
    BY <1>2, <2>1, <2>3, <2>4, <2>5, <2>6, AsideStep
<1>. QED
  BY <1>3 DEF ReleaseClaim

LEMMA RestoreOwedKept ==
    ASSUME IInv, RestoreOwed
    PROVE  IInv'
<1>. USE Fields DEF IInv
<1>1. SubBecomes(sub.state, sub.undo, sub.since) /\ HistBecomes(hist.delivered, hist.lost)
  BY SubMoves, HistMoves, Zenon DEF RestoreOwed
<1>2. Calm
  BY DEF RestoreOwed, Calm
<1>3. CASE TRUE
  <2>1. Becomes("cron", "restore", "move", "none", "none") /\ "cron" \in Agents
    BY <1>3, JobMoves, Zenon DEF RestoreOwed, IsIdle, Agents, Tasks, Points, Answers, States
  <2>2. Fits("cron", "restore", "move")
    BY DEF Fits
  <2>3. Shape'
    BY <2>1, <2>2, ShapeKept
  <2>4. Aside("cron")
    BY <2>1 DEF RestoreOwed, IsIdle, Becomes, Aside, Told
  <2>5. TypeOK'
    BY <2>1 DEF RestoreOwed, TypeOK, Becomes
  <2>6. Places'
    BY <2>1 DEF RestoreOwed, Places, At, Becomes, Agents
  <2>. QED
    BY <1>2, <2>1, <2>3, <2>4, <2>5, <2>6, AsideStep
<1>. QED
  BY <1>3 DEF RestoreOwed

\* The on-success step.
LEMMA SelectStepKept ==
    ASSUME IInv, NEW a \in Agents, SelectStep(a)
    PROVE  IInv'
<1>. USE Fields DEF IInv
<1>1. SubBecomes(sub.state, sub.undo, sub.since) /\ HistBecomes(hist.delivered, hist.lost)
  BY SubMoves, HistMoves, Zenon DEF SelectStep
<1>2. Calm
  BY DEF SelectStep, Calm
<1>3. CASE StepOwed
  <2>1. Becomes(a, "step", "selected", "none", sub.state) /\ a \in Agents
    BY <1>3, JobMoves, Zenon DEF SelectStep, IsIdle, At, StepOwed, End, Agents, Tasks, Points,
       Answers, States
  <2>2. Fits(a, "step", "selected")
    BY DEF SelectStep, At, Fits, Shape
  <2>3. Shape'
    BY <2>1, <2>2, ShapeKept
  <2>4. Aside(a)
    BY <1>3 DEF SelectStep, IsIdle, At, Aside, Told
  <2>5. TypeOK'
    BY <2>1 DEF SelectStep, TypeOK, Becomes
  <2>6. Places'
    BY <1>3, Bounds DEF SelectStep, At, StepOwed, Places, Stages, Agents, Fits, Shape
  <2>. QED
    BY <1>2, <2>1, <2>3, <2>4, <2>5, <2>6, AsideStep
<1>4. CASE ~StepOwed
  <2>0. End(a)
    BY <1>4 DEF SelectStep, End
  <2>9. Becomes(a, "none", "idle", "none", "none")
    BY <2>0, JobMoves, Zenon DEF Agents, Tasks, Points, Answers, States, RowStatuses, SentStatuses
  <2>1. Becomes(a, "none", "idle", "none", "none") /\ a \in Agents
    BY <2>0, <2>9 DEF Becomes, Agents
  <2>2. Fits(a, "none", "idle")
    BY DEF Fits
  <2>3. Shape'
    BY <2>1, <2>2, ShapeKept
  <2>4. Aside(a)
    BY <2>1 DEF SelectStep, At, Becomes, Aside, Told
  <2>5. TypeOK'
    BY <2>1 DEF SelectStep, TypeOK, Becomes
  <2>6. Places'
    BY <2>1 DEF SelectStep, At, Places, Becomes
  <2>. QED
    BY <1>2, <2>1, <2>3, <2>4, <2>5, <2>6, AsideStep
<1>. QED
  BY <1>3, <1>4 DEF SelectStep

LEMMA EnsureKept ==
    ASSUME IInv, NEW a \in Agents, Ensure(a)
    PROVE  IInv'
<1>. USE Fields DEF IInv
<1>1. SubBecomes(sub.state, sub.undo, sub.since) /\ HistBecomes(hist.delivered, hist.lost)
  BY SubMoves, HistMoves, Zenon DEF Ensure
<1>2. Calm
  BY DEF Ensure, Calm
<1>3. CASE sent # "none"
  <2>0. Go(a, "found") /\ job[a].task = "step"
    BY <1>3 DEF Ensure, At, Go
  <2>9. Becomes(a, job[a].task, "found", job[a].answer, job[a].seen)
    BY <2>0, JobMoves, Zenon DEF Agents, Tasks, Points, Answers, States, RowStatuses, SentStatuses
  <2>1. Becomes(a, "step", "found", job[a].answer, job[a].seen) /\ a \in Agents
    BY <2>0, <2>9 DEF Becomes, Agents
  <2>2. Fits(a, "step", "found")
    BY DEF Ensure, At, Fits, Shape
  <2>3. Shape'
    BY <2>1, <2>2, ShapeKept
  <2>4. Aside(a)
    BY <2>1 DEF Ensure, Becomes, Aside, Told, Fits, Shape
  <2>5. TypeOK'
    BY <2>1 DEF Ensure, TypeOK, Becomes
  <2>6. Places'
    BY <1>3 DEF Ensure, At, Places
  <2>. QED
    BY <1>2, <2>1, <2>3, <2>4, <2>5, <2>6, AsideStep
<1>4. CASE sent = "none" /\ job[a].seen = "scheduled"
  <2>0. Go(a, "deleted") /\ job[a].task = "step"
    BY <1>4 DEF Ensure, At, Go
  <2>9. Becomes(a, job[a].task, "deleted", job[a].answer, job[a].seen)
    BY <2>0, JobMoves, Zenon DEF Agents, Tasks, Points, Answers, States, RowStatuses, SentStatuses
  <2>1. Becomes(a, "step", "deleted", job[a].answer, job[a].seen) /\ a \in Agents
    BY <2>0, <2>9 DEF Becomes, Agents
  <2>2. Fits(a, "step", "deleted")
    BY DEF Ensure, At, Fits, Shape
  <2>3. Shape'
    BY <2>1, <2>2, ShapeKept
  <2>4. Aside(a)
    BY <2>1 DEF Ensure, Becomes, Aside, Told, Fits, Shape
  <2>5. TypeOK'
    BY <2>1 DEF Ensure, TypeOK, Becomes
  <2>6. Places'
    BY <1>4 DEF Ensure, At, Places
  <2>. QED
    BY <1>2, <2>1, <2>3, <2>4, <2>5, <2>6, AsideStep
<1>5. CASE sent = "none" /\ job[a].seen # "scheduled"
  <2>0. /\ job' = [job EXCEPT ![a] = [job[a] EXCEPT !.pc = "missing", !.seen = Repaired(job[a].seen)]]
        /\ job[a].task = "step"
    BY <1>5 DEF Ensure, At
  <2>9. Becomes(a, job[a].task, "missing", job[a].answer, Repaired(job[a].seen))
    <3>1. Repaired(job[a].seen) \in SentStatuses
      BY DEF Repaired, SentStatuses
    <3>. QED
      BY <2>0, <3>1, JobMoves DEF Points
  <2>1. Becomes(a, "step", "missing", job[a].answer, Repaired(job[a].seen)) /\ a \in Agents
    BY <2>0, <2>9 DEF Becomes, Agents
  <2>2. Fits(a, "step", "missing")
    BY DEF Ensure, At, Fits, Shape
  <2>3. Shape'
    BY <2>1, <2>2, ShapeKept
  <2>4. Aside(a)
    BY <2>1 DEF Ensure, Becomes, Aside, Told, Fits, Shape
  <2>5. TypeOK'
    BY <2>1 DEF Ensure, TypeOK, Becomes
  <2>6. Places'
    BY DEF Ensure, At, Repaired, SentStatuses, Places
  <2>. QED
    BY <1>2, <2>1, <2>3, <2>4, <2>5, <2>6, AsideStep
<1>. QED
  BY <1>3, <1>4, <1>5 DEF Ensure

LEMMA RecreateKept ==
    ASSUME IInv, NEW a \in Agents, Recreate(a)
    PROVE  IInv'
<1>. USE Fields DEF IInv
<1>1. SubBecomes(sub.state, sub.undo, sub.since) /\ HistBecomes(hist.delivered, hist.lost)
  BY SubMoves, HistMoves, Zenon DEF Recreate
<1>2. Calm
  BY DEF Recreate, Calm
<1>3. CASE TRUE
  <2>0. Go(a, "found") /\ job[a].task = "step"
    BY <1>3 DEF Recreate, At
  <2>9. Becomes(a, job[a].task, "found", job[a].answer, job[a].seen)
    BY <2>0, JobMoves DEF Agents, Tasks, Points, Answers, States, RowStatuses, SentStatuses
  <2>1. Becomes(a, "step", "found", job[a].answer, job[a].seen) /\ a \in Agents
    BY <2>0, <2>9 DEF Becomes, Agents
  <2>2. Fits(a, "step", "found")
    BY DEF Recreate, At, Fits, Shape
  <2>3. Shape'
    BY <2>1, <2>2, ShapeKept
  <2>4. Aside(a)
    BY <2>1 DEF Recreate, At, Becomes, Aside, Told
  <2>5. TypeOK'
    BY <2>1 DEF Recreate, Places, TypeOK, Becomes
  <2>6. Places'
    BY <2>1 DEF Recreate, At, Places, Becomes, Agents
  <2>. QED
    BY <1>2, <2>1, <2>3, <2>4, <2>5, <2>6, AsideStep
<1>. QED
  BY <1>3 DEF Recreate

LEMMA SettleDeletedKept ==
    ASSUME IInv, NEW a \in Agents, SettleDeleted(a)
    PROVE  IInv'
<1>. USE Fields DEF IInv
<1>1. /\ SubBecomes(sub.state, IF Waiting THEN "canceled" ELSE sub.undo, sub.since)
      /\ HistBecomes(hist.delivered, hist.lost)
  BY SubMoves, HistMoves DEF SettleDeleted, Undos
<1>2. Calm
  BY DEF SettleDeleted, Calm
<1>3. CASE TRUE
  <2>1. Becomes(a, "none", "idle", "none", "none") /\ a \in Agents
    BY <1>3, JobMoves, Zenon DEF SettleDeleted, At, Unlocked, Agents, Tasks, Points, Answers,
       States
  <2>2. Fits(a, "none", "idle")
    BY DEF Fits
  <2>3. Shape'
    BY <2>1, <2>2, ShapeKept
  <2>4. Aside(a)
    BY <2>1 DEF SettleDeleted, At, Becomes, Aside, Told
  <2>5. TypeOK'
    BY <1>1, <2>1 DEF SettleDeleted, Unlocked, TypeOK, Becomes, SubBecomes
  <2>6. Places'
    BY <2>1 DEF SettleDeleted, At, Unlocked, Places, Becomes, Agents
  <2>. QED
    BY <1>2, <2>1, <2>3, <2>4, <2>5, <2>6, AsideStep
<1>. QED
  BY <1>3 DEF SettleDeleted

LEMMA FileKept ==
    ASSUME IInv, NEW a \in Agents, File(a)
    PROVE  IInv'
<1>. USE Fields DEF IInv
<1>1. SubBecomes(sub.state, sub.undo, sub.since) /\ HistBecomes(hist.delivered, hist.lost)
  BY SubMoves, HistMoves, Zenon DEF File
<1>2. Calm
  BY <1>1 DEF File, Calm, SubBecomes
<1>3. CASE TRUE
  <2>0. Go(a, "filed") /\ job[a].task = "step"
    BY DEF File, At
  <2>9. Becomes(a, job[a].task, "filed", job[a].answer, job[a].seen)
    BY <2>0, JobMoves, Zenon DEF Agents, Tasks, Points, Answers, States, RowStatuses, SentStatuses
  <2>1. Becomes(a, "step", "filed", job[a].answer, job[a].seen) /\ a \in Agents
    BY <2>0, <2>9 DEF Becomes, Agents
  <2>2. Fits(a, "step", "filed")
    BY DEF File, At, Fits, Shape
  <2>3. Shape'
    BY <2>1, <2>2, ShapeKept
  <2>4. Aside(a)
    BY <2>1 DEF File, At, Becomes, Aside, Told
  <2>5. TypeOK'
    BY <1>1, <2>1 DEF File, TypeOK, Becomes, SubBecomes
  <2>6. Places'
    BY <1>1, <2>1 DEF File, At, StepOpen, Places, Becomes, SubBecomes, Agents, Fits, Shape
  <2>. QED
    BY <1>2, <2>1, <2>3, <2>4, <2>5, <2>6, AsideStep
<1>. QED
  BY <1>3 DEF File

LEMMA RevealKept ==
    ASSUME IInv, NEW a \in Agents, Reveal(a)
    PROVE  IInv'
<1>. USE Fields DEF IInv
<1>1. SubBecomes(sub.state, sub.undo, sub.since) /\ HistBecomes(hist.delivered, hist.lost)
  BY SubMoves, HistMoves, Zenon DEF Reveal
<1>2. Calm
  BY <1>1 DEF Reveal, Calm, SubBecomes
<1>3. CASE TRUE
  <2>1. Becomes(a, "none", "idle", "none", "none") /\ a \in Agents
    BY <1>3, JobMoves, Zenon DEF Reveal, At, StepOpen, Agents, Tasks, Points, Answers, States
  <2>2. Fits(a, "none", "idle")
    BY DEF Fits
  <2>3. Shape'
    BY <2>1, <2>2, ShapeKept
  <2>4. Aside(a)
    BY <2>1 DEF Reveal, At, Becomes, Aside, Told
  <2>5. TypeOK'
    BY <1>1, <2>1 DEF Reveal, TypeOK, Becomes, SubBecomes
  <2>6. Places'
    BY <1>1, <2>1 DEF Reveal, At, Places, Becomes, SubBecomes, Agents
  <2>. QED
    BY <1>2, <2>1, <2>3, <2>4, <2>5, <2>6, AsideStep
<1>. QED
  BY <1>3 DEF Reveal

LEMMA MoveKept ==
    ASSUME IInv, NEW a \in Agents, Move(a)
    PROVE  IInv'
<1>. USE Fields DEF IInv
<1>1. SubBecomes(sub.state, sub.undo, sub.since) /\ HistBecomes(hist.delivered, hist.lost)
  BY SubMoves, HistMoves, Zenon DEF Move, Moved
<1>2. Calm
  BY <1>1 DEF Move, Calm, SubBecomes
<1>3. CASE Movable
  <2>1. Becomes(a, "none", "idle", "none", "none") /\ a \in Agents
    BY <1>3, JobMoves, Zenon DEF Move, At, Agents, Tasks, Points, Answers, States
  <2>2. Fits(a, "none", "idle")
    BY DEF Fits
  <2>3. Shape'
    BY <2>1, <2>2, ShapeKept
  <2>4. Aside(a)
    BY <2>1 DEF Move, At, Becomes, Aside, Told
  <2>5. TypeOK'
    BY <1>1, <2>1 DEF Move, Moved, TypeOK, SentStatuses, Becomes, SubBecomes
  <2>6. Places'
    BY <1>1, <2>1 DEF Move, Moved, At, Places, Becomes, SubBecomes, Agents
  <2>. QED
    BY <1>2, <2>1, <2>3, <2>4, <2>5, <2>6, AsideStep
<1>4. CASE ~Movable
  <2>0. Go(a, "check") /\ job[a].task = "restore"
    BY <1>4 DEF Move, At
  <2>9. Becomes(a, job[a].task, "check", job[a].answer, job[a].seen)
    BY <2>0, JobMoves, Zenon DEF Agents, Tasks, Points, Answers, States, RowStatuses, SentStatuses
  <2>1. Becomes(a, "restore", "check", job[a].answer, job[a].seen) /\ a \in Agents
    BY <2>0, <2>9 DEF Becomes, Agents
  <2>2. Fits(a, "restore", "check")
    BY DEF Move, At, Fits, Shape
  <2>3. Shape'
    BY <2>1, <2>2, ShapeKept
  <2>4. Aside(a)
    BY <2>1 DEF Move, At, Becomes, Aside, Told
  <2>5. TypeOK'
    BY <1>1, <2>1 DEF Move, Moved, TypeOK, SentStatuses, Becomes, SubBecomes
  <2>6. Places'
    BY <1>4, <2>1 DEF Move, At, Places, Becomes, Agents
  <2>. QED
    BY <1>2, <2>1, <2>3, <2>4, <2>5, <2>6, AsideStep
<1>. QED
  BY <1>3, <1>4 DEF Move

LEMMA CheckMoveKept ==
    ASSUME IInv, NEW a \in Agents, CheckMove(a)
    PROVE  IInv'
<1>. USE Fields DEF IInv
<1>1. SubBecomes(sub.state, sub.undo, sub.since) /\ HistBecomes(hist.delivered, hist.lost)
  BY SubMoves, HistMoves DEF CheckMove
<1>2. Calm
  BY DEF CheckMove, Calm
<1>3. CASE TRUE
  <2>1. Becomes(a, "none", "idle", "none", "none") /\ a \in Agents
    BY <1>3, JobMoves, Zenon DEF CheckMove, At, Agents, Tasks, Points, Answers, States
  <2>2. Fits(a, "none", "idle")
    BY DEF Fits
  <2>3. Shape'
    BY <2>1, <2>2, ShapeKept
  <2>4. Aside(a)
    BY <2>1 DEF CheckMove, At, Becomes, Aside, Told
  <2>5. TypeOK'
    BY <1>1, <2>1 DEF CheckMove, TypeOK, Becomes, SubBecomes
  <2>6. Places'
    BY <2>1 DEF CheckMove, At, Places, Becomes, Agents
  <2>. QED
    BY <1>2, <2>1, <2>3, <2>4, <2>5, <2>6, AsideStep
<1>. QED
  BY <1>3 DEF CheckMove

LEMMA EraseKept ==
    ASSUME IInv, Erase
    PROVE  IInv'
<1>. USE Fields DEF IInv
<1>1. /\ SubBecomes(sub.state, sub.undo, sub.since) /\ hist' \in HistType
      /\ hist'.delivered = hist.delivered /\ hist'.lost = hist.lost
      /\ hist'.erased = IF filed THEN "email" ELSE "copy"
  BY SubMoves DEF Erase, HistType
<1>2. Calm
  BY DEF Erase, Calm
<1>3. CASE TRUE
  <2>1. Becomes("user", "none", "idle", "none", "none") /\ "user" \in Agents
    BY JobMoves, Zenon DEF Erase, Agents
  <2>2. Fits("user", "none", "idle")
    BY DEF Fits
  <2>3. Shape'
    BY <2>1, <2>2, ShapeKept
  <2>4. Aside("user")
    BY <2>1 DEF Erase, At, Becomes, Aside, Told
  <2>5. TypeOK'
    BY <1>1, <2>1 DEF Erase, TypeOK, SentStatuses, Becomes
  <2>6. Places'
    BY <2>1 DEF Erase, At, Places, Becomes, Agents
  <2>. QED
    BY <1>2, <2>1, <2>3, <2>4, <2>5, <2>6, AsideStep
<1>. QED
  BY <1>3 DEF Erase

LEMMA DeleteKept ==
    ASSUME IInv, Delete
    PROVE  IInv'
<1>. USE Fields DEF IInv
<1>1. /\ SubBecomes(sub.state, IF Waiting THEN "canceled" ELSE sub.undo, sub.since)
      /\ HistBecomes(hist.delivered, hist.lost)
  BY SubMoves, HistMoves DEF Delete, Undos
<1>2. Calm
  BY DEF Delete, Calm
<1>3. CASE TRUE
  <2>1. Becomes("user", "delete", "erased", "none", "none") /\ "user" \in Agents
    BY JobMoves, Zenon DEF Delete, Agents, Tasks, Points
  <2>2. Fits("user", "delete", "erased")
    BY DEF Fits
  <2>3. Shape'
    BY <2>1, <2>2, ShapeKept
  <2>4. Aside("user")
    BY <2>1 DEF Delete, IsIdle, Becomes, Aside, Told
  <2>5. TypeOK'
    BY <1>1, <2>1 DEF Delete, TypeOK, Becomes, SubBecomes
  <2>6. Places'
    BY <2>1 DEF Delete, Places, At, Becomes, Agents
  <2>. QED
    BY <1>2, <2>1, <2>3, <2>4, <2>5, <2>6, AsideStep
<1>. QED
  BY <1>3 DEF Delete

LEMMA CancelKept ==
    ASSUME IInv, Cancel
    PROVE  IInv'
<1>. USE Fields DEF IInv
<1>1. SubBecomes(sub.state, "canceled", sub.since) /\ HistBecomes(hist.delivered, hist.lost)
  BY SubMoves, HistMoves DEF Cancel, Undos
<1>2. Calm
  BY DEF Cancel, Cancelable, Calm
<1>3. CASE Begin("user", "restore", "move")
  <2>1. Becomes("user", "restore", "move", "none", "none") /\ "user" \in Agents
    BY <1>3, JobMoves, Zenon DEF Agents, Tasks, Points
  <2>2. Fits("user", "restore", "move")
    BY DEF Fits
  <2>3. Shape'
    BY <2>1, <2>2, ShapeKept
  <2>4. Aside("user")
    BY <2>1 DEF Cancel, IsIdle, Becomes, Aside, Told
  <2>5. TypeOK'
    BY <1>1, <2>1 DEF Cancel, TypeOK, SentStatuses, Becomes, SubBecomes
  <2>6. Places'
    BY <2>1 DEF Cancel, Places, At, Becomes, Agents
  <2>. QED
    BY <1>2, <2>1, <2>3, <2>4, <2>5, <2>6, AsideStep
<1>4. CASE UNCHANGED job
  <2>1. job' = job
    BY <1>4 DEF Cancel
  <2>2. TypeOK'
    BY <1>1, <2>1 DEF Cancel, TypeOK, SentStatuses, SubBecomes
  <2>3. Places'
    BY <2>1 DEF Cancel, Places, At
  <2>. QED
    BY <1>2, <2>1, <2>2, <2>3, StillStep
<1>. QED
  BY <1>3, <1>4 DEF Cancel

LEMMA ClientMoveKept ==
    ASSUME IInv, ClientMove
    PROVE  IInv'
<1>. USE Fields DEF IInv
<1>1. SubBecomes(sub.state, sub.undo, sub.since) /\ HistBecomes(hist.delivered, hist.lost)
  BY SubMoves, HistMoves DEF ClientMove, Moved
<1>2. Calm
  BY <1>1 DEF ClientMove, Calm, SubBecomes
<1>3. CASE TRUE
  <2>1. job' = job
    BY <1>3 DEF ClientMove
  <2>2. TypeOK'
    BY <1>1 DEF ClientMove, Moved, TypeOK, SentStatuses, SubBecomes
  <2>3. Places'
    BY DEF ClientMove, Moved, Places, At
  <2>. QED
    BY <1>2, <2>1, <2>2, <2>3, StillStep
<1>. QED
  BY <1>3 DEF ClientMove

LEMMA UnlockQueuedKept ==
    ASSUME IInv, UnlockQueued
    PROVE  IInv'
<1>. USE Fields DEF IInv
<1>1. SubBecomes(sub.state, sub.undo, sub.since) /\ HistBecomes(hist.delivered, hist.lost)
  BY SubMoves, HistMoves, Zenon DEF UnlockQueued
<1>2. Calm
  BY DEF UnlockQueued, Calm
<1>3. CASE TRUE
  <2>1. job' = job
    BY <1>3 DEF UnlockQueued
  <2>2. TypeOK'
    BY DEF UnlockQueued, TypeOK
  <2>3. Places'
    BY DEF UnlockQueued, Places, At
  <2>. QED
    BY <1>2, <2>1, <2>2, <2>3, StillStep
<1>. QED
  BY <1>3 DEF UnlockQueued

LEMMA SetPauseKept ==
    ASSUME IInv, SetPause
    PROVE  IInv'
<1>. USE Fields DEF IInv
<1>1. SubBecomes(sub.state, sub.undo, sub.since) /\ HistBecomes(hist.delivered, hist.lost)
  BY SubMoves, HistMoves, Zenon DEF SetPause
<1>2. Calm
  BY DEF SetPause, Calm
<1>3. CASE TRUE
  <2>1. job' = job
    BY <1>3 DEF SetPause
  <2>2. TypeOK'
    BY DEF SetPause, TypeOK
  <2>3. Places'
    BY DEF SetPause, Places, At
  <2>. QED
    BY <1>2, <2>1, <2>2, <2>3, StillStep
<1>. QED
  BY <1>3 DEF SetPause

LEMMA DieKept ==
    ASSUME IInv, NEW a \in Agents, Die(a)
    PROVE  IInv'
<1>. USE Fields DEF IInv
<1>1. /\ SubBecomes(sub.state, sub.undo, sub.since)
      /\ HistBecomes(hist.delivered, hist.lost + LostWith(a))
  <2>0. LostWith(a) \in {0, 1} /\ hist.raced \in BOOLEAN /\ hist.unlocked \in BOOLEAN
    BY DEF LostWith, HistType
  <2>1. hist.lost + LostWith(a) \in Nat /\ hist.raced \in BOOLEAN /\ hist.unlocked \in BOOLEAN
    BY <2>0
  <2>2. PICK r \in BOOLEAN : r = (hist.raced \/ At(a, "retry", "written"))
    BY <2>1
  <2>3. PICK u \in BOOLEAN :
          u = (hist.unlocked \/ (At(a, "recover", "accepted") /\ Seen("pending")))
    BY <2>1
  <2>4. hist' = [hist EXCEPT !.lost = hist.lost + LostWith(a), !.raced = r, !.unlocked = u]
    BY <2>2, <2>3 DEF Die, HistType
  <2>. QED
    BY <2>1, <2>4, SubMoves, HistMoves DEF Die
<1>2. Calm
  BY DEF Die, LostWith, Calm
<1>3. CASE TRUE
  <2>1. Becomes(a, "none", "idle", "none", "none") /\ a \in Agents
    BY <1>3, JobMoves, Zenon DEF Die, LostWith, Agents, Tasks, Points, Answers, States
  <2>2. Fits(a, "none", "idle")
    BY DEF Fits
  <2>3. Shape'
    BY <2>1, <2>2, ShapeKept
  <2>4. Aside(a)
    BY <1>1, <2>1 DEF LostWith, Becomes, HistBecomes, Aside, Told, Counts
  <2>5. TypeOK'
    BY <1>1, <2>1, Bounds DEF Die, TypeOK, Fault, Becomes, HistBecomes
  <2>6. Places'
    BY <2>1 DEF Die, Places, At, Becomes, Agents
  <2>. QED
    BY <1>2, <2>1, <2>3, <2>4, <2>5, <2>6, AsideStep
<1>. QED
  BY <1>3 DEF Die
\* What the move of one agent makes of the others, and of itself.
LEMMA OneMoves ==
    ASSUME NEW a \in Agents, NEW t, NEW p, NEW ans, NEW s, Becomes(a, t, p, ans, s)
    PROVE  /\ \A b \in Agents \ {a} :
                /\ job'[b] = job[b] /\ (Holder(b)' <=> Holder(b)) /\ (Told(b)' <=> Told(b))
                /\ (Starting(b)' <=> Starting(b))
           /\ Told(a) <=> job[a].pc \in {"answered", "written"} /\ job[a].answer = "accepted"
           /\ Holder(a) <=> job[a].pc \in {"calling", "answered", "threw"} \/ Told(a)
           /\ Starting(a) <=>
                job[a].task \in {"send", "release"} /\ job[a].pc \in {"claimed", "missing", "found"}
           /\ Told(a)' <=> p \in {"answered", "written"} /\ ans = "accepted"
           /\ Holder(a)' <=> p \in {"calling", "answered", "threw"} \/ Told(a)'
           /\ Starting(a)' <=> t \in {"send", "release"} /\ p \in {"claimed", "missing", "found"}
           /\ job'[a].task = t /\ job'[a].pc = p /\ job'[a].answer = ans /\ job'[a].seen = s
BY DEF Becomes, Holder, Told, Starting

\* Who can be where.
LEMMA Whereabouts ==
    ASSUME Shape
    PROVE  \A b \in Agents :
             /\ job[b].pc = "threw" => job[b].task \in {"send", "release"}
             /\ job[b].pc = "written" => job[b].task = "retry"
             /\ job[b].task \in {"send", "schedule"} => b = "request"
             /\ job[b].task = "release" => b \in {"queue", "cron"}
             /\ job[b].task = "retry" => b \in {"cron", "user"}
             /\ Told(b) => Holder(b)
             /\ Holder(b) => job[b].task \in {"send", "release", "retry"}
<1> SUFFICES ASSUME NEW b \in Agents
             PROVE  /\ job[b].pc = "threw" => job[b].task \in {"send", "release"}
                    /\ job[b].pc = "written" => job[b].task = "retry"
                    /\ job[b].task \in {"send", "schedule"} => b = "request"
                    /\ job[b].task = "release" => b \in {"queue", "cron"}
                    /\ job[b].task = "retry" => b \in {"cron", "user"}
                    /\ Told(b) => Holder(b)
                    /\ Holder(b) => job[b].task \in {"send", "release", "retry"}
  OBVIOUS
<1>1. Fits(b, job[b].task, job[b].pc)
  BY DEF Shape
<1>2. job[b].task \in Tasks
  BY <1>1 DEF Fits, Agents, Tasks
<1>. QED
  BY <1>1 DEF Fits, Holder, Told, Agents, SendPoints

\* The outbox row comes to the given status and wait.
RowBecomes(s, w) == row' \in RowType /\ row'.status = s /\ row'.wait = w

\* What the outbox may do to the row, in the two terms the invariant is about.
LEMMA RowSteps ==
    ASSUME TypeOK
    PROVE  /\ row' = row => RowBecomes(row.status, row.wait)
           /\ row' = NoRow => RowBecomes("none", 0)
           /\ row' = ConfirmedRow =>
                IF row.status = "bookkeeping_pending" THEN RowBecomes("none", 0)
                ELSE RowBecomes(row.status, row.wait)
           /\ row' = [status |-> "pending", attempts |-> 0, wait |-> Lease, held |-> FALSE]
              => RowBecomes("pending", Lease)
           /\ row' = Resolved("accepted") => RowBecomes("bookkeeping_pending", 0)
           /\ row' = Resolved("permanent") => RowBecomes("failed", 0)
           /\ \A ans \in Answers \ {"accepted", "permanent"} :
                row' = Resolved(ans) => RowBecomes("pending", CoolDown)
           /\ \A a \in Agents : row' = RowSet(Rearmed(a)) => RowBecomes(row.status, 0)
           /\ row' = RowSet(FailedRow) =>
                RowBecomes(IF row.status = "none" THEN "none" ELSE "failed", 0)
           /\ row' = RowSet([row EXCEPT !.status = "bookkeeping_pending"]) =>
                IF row.status = "none" THEN RowBecomes("none", 0)
                ELSE RowBecomes("bookkeeping_pending", row.wait)
           /\ row' = [row EXCEPT !.attempts = @ + 1, !.wait = Lease] => RowBecomes(row.status, Lease)
           /\ row' = [row EXCEPT !.status = "pending", !.wait = 0,
                                 !.attempts = IF row.status = "failed" THEN 0 ELSE @]
              => RowBecomes("pending", 0)
           /\ row' = Later(row) => RowBecomes(row.status, IF row.wait > 0 THEN row.wait - 1 ELSE 0)
<1>1. row \in RowType
  BY DEF TypeOK
<1>2. row' = row => RowBecomes(row.status, row.wait)
  BY <1>1 DEF RowBecomes
<1>3. NoRow \in RowType /\ NoRow.status = "none" /\ NoRow.wait = 0
  BY RowMoves DEF NoRow
<1>4. row' = NoRow => RowBecomes("none", 0)
  BY <1>3 DEF RowBecomes
<1>5. row' = ConfirmedRow =>
        IF row.status = "bookkeeping_pending" THEN RowBecomes("none", 0)
        ELSE RowBecomes(row.status, row.wait)
  BY <1>2, <1>4 DEF ConfirmedRow
<1>6. row' = [status |-> "pending", attempts |-> 0, wait |-> Lease, held |-> FALSE]
      => RowBecomes("pending", Lease)
  BY RowMoves DEF RowBecomes
<1>7. /\ row' = Resolved("accepted") => RowBecomes("bookkeeping_pending", 0)
      /\ row' = Resolved("permanent") => RowBecomes("failed", 0)
      /\ \A ans \in Answers \ {"accepted", "permanent"} :
           row' = Resolved(ans) => RowBecomes("pending", CoolDown)
  <2>1. \A ans \in Answers : Resolved(ans) \in RowType
    BY RowMoves
  <2>2. /\ Resolved("accepted").status = "bookkeeping_pending" /\ Resolved("accepted").wait = 0
        /\ Resolved("permanent").status = "failed" /\ Resolved("permanent").wait = 0
        /\ \A ans \in Answers \ {"accepted", "permanent"} :
             Resolved(ans).status = "pending" /\ Resolved(ans).wait = CoolDown
    BY DEF Resolved
  <2>. QED
    BY <2>1, <2>2 DEF RowBecomes, Answers
<1>8. ASSUME NEW a \in Agents, row' = RowSet(Rearmed(a)) PROVE RowBecomes(row.status, 0)
  <2>1. Rearmed(a) \in RowType
    BY RowMoves
  <2>2. Rearmed(a).status = row.status /\ Rearmed(a).wait = 0
    BY <1>1 DEF Rearmed, RowType
  <2>. QED
    BY <1>3, <1>8, <2>1, <2>2 DEF RowSet, RowBecomes
<1>9. row' = RowSet(FailedRow) => RowBecomes(IF row.status = "none" THEN "none" ELSE "failed", 0)
  <2>1. FailedRow \in RowType
    BY RowMoves
  <2>2. FailedRow.status = "failed" /\ FailedRow.wait = 0
    BY <1>1 DEF FailedRow, RowType
  <2>. QED
    BY <1>3, <2>1, <2>2 DEF RowSet, RowBecomes
<1>10. row' = RowSet([row EXCEPT !.status = "bookkeeping_pending"]) =>
         IF row.status = "none" THEN RowBecomes("none", 0)
         ELSE RowBecomes("bookkeeping_pending", row.wait)
  <2>1. [row EXCEPT !.status = "bookkeeping_pending"] \in RowType
    BY RowMoves
  <2>2. /\ [row EXCEPT !.status = "bookkeeping_pending"].status = "bookkeeping_pending"
        /\ [row EXCEPT !.status = "bookkeeping_pending"].wait = row.wait
    BY <1>1 DEF RowType
  <2>. QED
    BY <1>3, <2>1, <2>2 DEF RowSet, RowBecomes
<1>11. row' = [row EXCEPT !.attempts = @ + 1, !.wait = Lease] => RowBecomes(row.status, Lease)
  <2>1. [row EXCEPT !.attempts = @ + 1, !.wait = Lease] \in RowType
    BY RowMoves
  <2>. QED
    BY <1>1, <2>1 DEF RowType, RowBecomes
<1>12. row' = [row EXCEPT !.status = "pending", !.wait = 0,
                          !.attempts = IF row.status = "failed" THEN 0 ELSE @]
       => RowBecomes("pending", 0)
  <2>1. [row EXCEPT !.status = "pending", !.wait = 0,
                    !.attempts = IF row.status = "failed" THEN 0 ELSE @] \in RowType
    BY RowMoves
  <2>. QED
    BY <1>1, <2>1 DEF RowType, RowBecomes
<1>13. row' = Later(row) => RowBecomes(row.status, IF row.wait > 0 THEN row.wait - 1 ELSE 0)
  <2>1. Later(row) \in RowType
    BY RowMoves
  <2>. QED
    BY <2>1 DEF RowBecomes, Later
<1>. QED
  BY <1>2, <1>4, <1>5, <1>6, <1>7, <1>8, <1>9, <1>10, <1>11, <1>12, <1>13

LEMMA CreateKept ==
    ASSUME IInv, Create
    PROVE  IInv'
<1>. USE Fields DEF IInv
<1>1. /\ Becomes("request", IF form.delayed THEN "schedule" ELSE "send", "claimed", "none", "none")
      /\ "request" \in Agents
  BY JobMoves, Zenon DEF Create, Idle, Agents, Tasks, Points, Answers, States
<1>2. Fits("request", IF form.delayed THEN "schedule" ELSE "send", "claimed")
  BY DEF Fits, SendPoints
<1>3. SubBecomes("claimed", IF form.delayed THEN "pending" ELSE "final", sub.since)
  BY SubMoves DEF Create, Undos, States
<1>4. HistBecomes(hist.delivered, hist.lost)
  BY HistMoves DEF Create
<1>5. RowBecomes(row.status, row.wait)
  BY RowSteps DEF Create
<1>6. Shape'
  BY <1>1, <1>2, ShapeKept
<1>7. TypeOK'
  BY <1>1, <1>3 DEF Create, TypeOK, Becomes, SubBecomes
<1>8. Stages'
  BY <1>1, OneMoves DEF Create, Stages, At, Agents
<1>9. Leases'
  BY <1>1, OneMoves DEF Create, Leases, Unsent, Clean, Stages
<1>10. Counts'
  BY <1>1, OneMoves DEF Create, Counts, Clean
<1>11. Places'
  BY <1>1, OneMoves DEF Create, Places, Stages, At, Agents
<1>. QED
  BY <1>6, <1>7, <1>8, <1>9, <1>10, <1>11

LEMMA ScheduleKept ==
    ASSUME IInv, Schedule
    PROVE  IInv'
<1>. USE Fields DEF IInv
<1>1. Becomes("request", "step", "ready", "none", "none") /\ "request" \in Agents
  BY JobMoves, Zenon DEF Schedule, At, Agents, Tasks, Points, Answers, States
<1>2. Fits("request", "step", "ready")
  BY DEF Fits
<1>3. SubBecomes("scheduled", sub.undo, sub.since)
  BY SubMoves DEF Schedule, States
<1>4. HistBecomes(hist.delivered, hist.lost)
  BY HistMoves DEF Schedule
<1>5. RowBecomes(row.status, row.wait)
  BY RowSteps DEF Schedule
<1>6. Shape'
  BY <1>1, <1>2, ShapeKept
<1>7. TypeOK'
  BY <1>1, <1>3 DEF Schedule, TypeOK, SentStatuses, Becomes, SubBecomes
<1>8. Stages'
  BY <1>1, OneMoves, Bounds DEF Schedule, At, Stages, Agents
<1>9. Leases'
  BY <1>1, OneMoves DEF Schedule, At, Leases, Unsent, Clean, Stages
<1>10. Counts'
  BY <1>1, OneMoves DEF Schedule, At, Counts, Clean
<1>11. Places'
  BY <1>1, OneMoves DEF Schedule, At, Places, Agents
<1>. QED
  BY <1>6, <1>7, <1>8, <1>9, <1>10, <1>11

LEMMA UndoScheduleKept ==
    ASSUME IInv, UndoSchedule
    PROVE  IInv'
<1>. USE Fields DEF IInv
<1>0. Go("request", "abandon") /\ job["request"].task = "schedule"
  BY DEF UndoSchedule, At
<1>1. /\ Becomes("request", "schedule", "abandon", job["request"].answer, job["request"].seen)
      /\ "request" \in Agents
  <2>1. "request" \in Agents
    BY DEF Agents
  <2>2. Becomes("request", job["request"].task, "abandon", job["request"].answer, job["request"].seen)
    BY <1>0, <2>1, JobMoves, Zenon DEF Points, Answers
  <2>. QED
    BY <1>0, <2>1, <2>2 DEF Becomes
<1>2. Fits("request", "schedule", "abandon")
  BY DEF Fits
<1>3. SubBecomes(sub.state, sub.undo, sub.since)
  BY SubMoves, Zenon DEF UndoSchedule
<1>4. HistBecomes(hist.delivered, hist.lost)
  BY HistMoves DEF UndoSchedule
<1>5. RowBecomes(row.status, row.wait)
  BY RowSteps DEF UndoSchedule
<1>6. Shape'
  BY <1>1, <1>2, ShapeKept
<1>7. TypeOK'
  BY <1>1 DEF UndoSchedule, TypeOK, SentStatuses, Becomes
<1>8. Stages'
  BY <1>1, OneMoves DEF UndoSchedule, At, Stages, Agents
<1>9. Leases'
  BY <1>1, OneMoves DEF UndoSchedule, At, Leases, Unsent, Clean, Stages
<1>10. Counts'
  BY <1>1, OneMoves DEF UndoSchedule, At, Counts, Clean
<1>11. Places'
  BY <1>1, OneMoves DEF UndoSchedule, At, Places, Agents
<1>. QED
  BY <1>6, <1>7, <1>8, <1>9, <1>10, <1>11

LEMMA RecordAcceptedKept ==
    ASSUME IInv, RecordAccepted
    PROVE  IInv'
<1>. USE Fields DEF IInv
<1>1. Becomes("request", "step", "ready", "none", "none") /\ "request" \in Agents
  BY JobMoves, Zenon DEF RecordAccepted, At, Agents, Tasks, Points, Answers, States
<1>2. Fits("request", "step", "ready")
  BY DEF Fits
<1>3. SubBecomes("accepted", sub.undo, sub.since)
  BY SubMoves DEF RecordAccepted, States
<1>4. HistBecomes(hist.delivered, hist.lost)
  BY HistMoves DEF RecordAccepted
<1>5. RowBecomes(IF row.status = "bookkeeping_pending" THEN "none" ELSE row.status,
                 IF row.status = "bookkeeping_pending" THEN 0 ELSE row.wait)
  BY RowSteps DEF RecordAccepted
<1>6. Shape'
  BY <1>1, <1>2, ShapeKept
<1>7. TypeOK'
  BY <1>1, <1>3, <1>5 DEF RecordAccepted, TypeOK, SentStatuses, Becomes, SubBecomes, RowBecomes,
     Outcome
<1>8. Stages'
  BY <1>1, OneMoves, Bounds DEF RecordAccepted, At, Stages, Agents
<1>9. Leases'
  BY <1>1, <1>3, <1>4, <1>5, OneMoves DEF Leases, RowBecomes, Unsent, Over, Clean, SubBecomes,
     HistBecomes
<1>10. Counts'
  BY <1>1, <1>5, OneMoves DEF RecordAccepted, At, Counts, RowBecomes, Clean
<1>11. Places'
  BY <1>1, OneMoves DEF RecordAccepted, At, Places, Stages, Agents
<1>. QED
  BY <1>6, <1>7, <1>8, <1>9, <1>10, <1>11

LEMMA ScheduleThrowsKept ==
    ASSUME IInv, ScheduleThrows
    PROVE  IInv'
<1>. USE Fields DEF IInv
<1>0. Go("request", "undo") /\ job["request"].task = "schedule"
  BY DEF ScheduleThrows, At
<1>1. /\ Becomes("request", "schedule", "undo", job["request"].answer, job["request"].seen)
      /\ "request" \in Agents
  <2>1. "request" \in Agents
    BY DEF Agents
  <2>2. Becomes("request", job["request"].task, "undo", job["request"].answer, job["request"].seen)
    BY <1>0, <2>1, JobMoves, Zenon DEF Points, Answers
  <2>. QED
    BY <1>0, <2>1, <2>2 DEF Becomes
<1>2. Fits("request", "schedule", "undo")
  BY DEF Fits
<1>3. /\ SubBecomes(sub'.state, sub.undo, sub.since)
      /\ (sub'.state = sub.state /\ sent' = sent) \/ sub'.state = "scheduled"
  BY SubMoves, Zenon DEF ScheduleThrows, States, SubBecomes
<1>4. HistBecomes(hist.delivered, hist.lost)
  BY HistMoves DEF ScheduleThrows
<1>5. RowBecomes(row.status, row.wait)
  BY RowSteps DEF ScheduleThrows
<1>6. Shape'
  BY <1>1, <1>2, ShapeKept
<1>7. TypeOK'
  BY <1>1, <1>3, Bounds DEF ScheduleThrows, TypeOK, SentStatuses, Becomes, SubBecomes, Fault
<1>8. Stages'
  BY <1>1, <1>3, OneMoves, Bounds DEF ScheduleThrows, At, Stages, SubBecomes, Agents
<1>9. Leases'
  BY <1>1, OneMoves DEF ScheduleThrows, At, Leases, Unsent, Clean, Stages
<1>10. Counts'
  BY <1>1, <1>3, OneMoves DEF ScheduleThrows, At, Counts, Clean
<1>11. Places'
  BY <1>1, <1>3, OneMoves DEF ScheduleThrows, At, Places, Agents
<1>. QED
  BY <1>6, <1>7, <1>8, <1>9, <1>10, <1>11

LEMMA AbandonIntentionKept ==
    ASSUME IInv, job["request"].task \in {"send", "schedule"},
           job["request"].pc \in {"claimed", "resolved", "threw", "abandon"}, AbandonIntention("request")
    PROVE  IInv'
<1>. USE Fields DEF IInv
<1>1. Becomes("request", "none", "idle", "none", "none") /\ "request" \in Agents
  BY JobMoves, Zenon DEF AbandonIntention, Unlocked, Agents, Tasks, Points, Answers, States
<1>2. Fits("request", "none", "idle")
  BY DEF Fits
<1>3. SubBecomes("gone", sub.undo, sub.since)
  BY SubMoves, Zenon DEF AbandonIntention
<1>4. HistBecomes(hist.delivered, hist.lost)
  BY HistMoves DEF AbandonIntention
<1>5. RowBecomes("none", 0)
  BY RowSteps DEF AbandonIntention
<1>6. Shape'
  BY <1>1, <1>2, ShapeKept
<1>7. TypeOK'
  BY <1>1, <1>3, <1>5 DEF AbandonIntention, Unlocked, TypeOK, Becomes, SubBecomes, RowBecomes
<1>8. Stages'
  BY <1>1, <1>3, OneMoves, Bounds DEF AbandonIntention, Stages, At, SubBecomes, Agents
<1>9. Leases'
  BY <1>1, <1>3, <1>5, OneMoves, Whereabouts DEF AbandonIntention, Leases, RowBecomes, Unsent,
     Over, Clean, Stages, SubBecomes
<1>10. Counts'
  BY <1>1, <1>3, <1>4, <1>5, OneMoves DEF Counts, RowBecomes, Clean, SubBecomes, HistBecomes
<1>11. Places'
  BY <1>1, <1>3, OneMoves DEF AbandonIntention, Unlocked, Places, At, SubBecomes, Agents
<1>. QED
  BY <1>6, <1>7, <1>8, <1>9, <1>10, <1>11

LEMMA ClaimKept ==
    ASSUME IInv, NEW a \in {"queue", "cron"}, IsIdle(a), Claimable, Claim(a),
           wake' \in BOOLEAN, UNCHANGED <<form, due, sent, filed, draft, row, paused, hist, faults>>
    PROVE  IInv'
<1>. USE Fields DEF IInv
<1>1. Becomes(a, "release", "claimed", "none", "none") /\ a \in Agents
  BY JobMoves, Zenon DEF Claim, IsIdle, Claimable, Waiting, Agents, Tasks, Points, Answers, States
<1>2. Fits(a, "release", "claimed")
  BY DEF Fits, SendPoints
<1>3. SubBecomes("releasing", sub.undo, 0)
  BY SubMoves DEF Claim
<1>4. HistBecomes(hist.delivered, hist.lost)
  BY HistMoves DEF Claim
<1>5. RowBecomes(row.status, row.wait)
  BY RowSteps DEF Claim
<1>6. Shape'
  BY <1>1, <1>2, ShapeKept
<1>7. TypeOK'
  BY <1>1, <1>3 DEF TypeOK, Becomes, SubBecomes
<1>8. Stages'
  BY <1>1, <1>3, OneMoves DEF Claimable, Waiting, Stages, Fits, At, SubBecomes, Agents, Shape
<1>9. Leases'
  BY <1>1, OneMoves DEF Claimable, Waiting, Leases, Unsent, Clean
<1>10. Counts'
  BY DEF Claimable, Waiting, Counts, Leases, Clean, Unsent
<1>11. Places'
  BY <1>1, <1>3, OneMoves DEF Places, At, SubBecomes, Agents
<1>. QED
  BY <1>6, <1>7, <1>8, <1>9, <1>10, <1>11

LEMMA LookForSentKept ==
    ASSUME IInv, NEW a \in Agents, LookForSent(a)
    PROVE  IInv'
<1>. USE Fields DEF IInv
<1>0. Go(a, IF sent = "none" THEN "missing" ELSE "found") /\ job[a].task = "release"
  BY DEF LookForSent, At
<1>1. /\ Becomes(a, "release", IF sent = "none" THEN "missing" ELSE "found", job[a].answer, job[a].seen)
      /\ a \in Agents
  <2>1. a \in Agents
    BY DEF Agents
  <2>2. Becomes(a, job[a].task, IF sent = "none" THEN "missing" ELSE "found", job[a].answer, job[a].seen)
    BY <1>0, <2>1, JobMoves, Zenon DEF Points, Answers
  <2>. QED
    BY <1>0, <2>1, <2>2 DEF Becomes
<1>2. Fits(a, "release", IF sent = "none" THEN "missing" ELSE "found")
  BY DEF LookForSent, At, Fits, Shape
<1>3. SubBecomes(sub.state, sub.undo, sub.since)
  BY SubMoves, Zenon DEF LookForSent
<1>4. HistBecomes(hist.delivered, hist.lost)
  BY HistMoves DEF LookForSent
<1>5. RowBecomes(row.status, row.wait)
  BY RowSteps DEF LookForSent
<1>6. Shape'
  BY <1>1, <1>2, ShapeKept
<1>7. TypeOK'
  BY <1>1 DEF LookForSent, TypeOK, Becomes
<1>8. Stages'
  BY <1>1, OneMoves DEF LookForSent, At, Stages, Agents
<1>9. Leases'
  BY <1>1, OneMoves DEF LookForSent, At, Leases, Clean
<1>10. Counts'
  BY <1>1, OneMoves DEF LookForSent, At, Counts, Clean
<1>11. Places'
  BY <1>1, OneMoves DEF LookForSent, At, Places, Agents
<1>. QED
  BY <1>6, <1>7, <1>8, <1>9, <1>10, <1>11

LEMMA CancelMissingKept ==
    ASSUME IInv, NEW a \in Agents, CancelMissing(a)
    PROVE  IInv'
<1>. USE Fields DEF IInv
<1>1. Becomes(a, "none", "idle", "none", "none") /\ a \in Agents
  BY JobMoves, Zenon DEF CancelMissing, At, Agents, Tasks, Points, Answers, States
<1>2. Fits(a, "none", "idle")
  BY DEF Fits
<1>3. SubBecomes("scheduled", "canceled", 0)
  BY SubMoves DEF CancelMissing, At, Undos, Stages
<1>4. HistBecomes(hist.delivered, hist.lost)
  BY HistMoves DEF CancelMissing
<1>5. RowBecomes(row.status, row.wait)
  BY RowSteps DEF CancelMissing
<1>6. Shape'
  BY <1>1, <1>2, ShapeKept
<1>7. TypeOK'
  BY <1>1, <1>3 DEF CancelMissing, TypeOK, Becomes, SubBecomes
<1>8. Stages'
  BY <1>1, <1>3, OneMoves, Bounds DEF CancelMissing, At, Stages, SubBecomes, Agents
<1>9. Leases'
  BY <1>1, OneMoves DEF CancelMissing, At, Leases, Clean
<1>10. Counts'
  BY <1>1, <1>3, OneMoves DEF CancelMissing, At, Counts, Clean, SubBecomes
<1>11. Places'
  BY <1>1, <1>3, OneMoves DEF CancelMissing, At, Places, SubBecomes, Agents
<1>. QED
  BY <1>6, <1>7, <1>8, <1>9, <1>10, <1>11

LEMMA FailReleaseKept ==
    ASSUME IInv, NEW a \in Agents, job[a].task = "release", job[a].pc \in {"found", "resolved"},
           FailRelease(a)
    PROVE  IInv'
<1>. USE Fields DEF IInv
<1>1. Becomes(a, "none", "idle", "none", "none") /\ a \in Agents
  BY JobMoves, Zenon DEF FailRelease, SentSet, Agents, Tasks, Points, Answers, States
<1>2. Fits(a, "none", "idle")
  BY DEF Fits
<1>3. SubBecomes("accepted", "final", sub.since)
  BY SubMoves, Zenon DEF FailRelease, Stages
<1>4. HistBecomes(hist.delivered, hist.lost)
  BY HistMoves DEF FailRelease
<1>5. RowBecomes(row.status, row.wait)
  BY RowSteps DEF FailRelease
<1>6. Shape'
  BY <1>1, <1>2, ShapeKept
<1>7. TypeOK'
  BY <1>1, <1>3 DEF FailRelease, SentSet, TypeOK, SentStatuses, Becomes, SubBecomes
<1>8. Stages'
  BY <1>1, <1>3, OneMoves, Bounds DEF FailRelease, Stages, At, SubBecomes, Agents
<1>9. Leases'
  BY <1>1, <1>3, <1>4, <1>5, OneMoves DEF Leases, RowBecomes, Unsent, Over, Clean, SubBecomes,
     HistBecomes, Agents
<1>10. Counts'
  BY <1>1, <1>3, <1>4, <1>5, OneMoves DEF Counts, RowBecomes, Clean, SubBecomes, HistBecomes
<1>11. Places'
  BY <1>1, <1>3, OneMoves DEF FailRelease, SentSet, Places, At, SubBecomes, Agents
<1>. QED
  BY <1>6, <1>7, <1>8, <1>9, <1>10, <1>11

LEMMA WriteAheadKept ==
    ASSUME IInv, NEW a \in Agents, WriteAhead(a)
    PROVE  IInv'
<1>. USE Fields DEF IInv
<1>1. Becomes(a, job[a].task, "calling", job[a].answer, job[a].seen) /\ a \in Agents
  BY JobMoves, Zenon DEF WriteAhead, At, Agents, Tasks, Points, Answers, States
<1>2. Fits(a, job[a].task, "calling")
  BY DEF WriteAhead, At, Fits, Shape, SendPoints
<1>3. SubBecomes(sub.state, sub.undo, sub.since)
  BY SubMoves, Zenon DEF WriteAhead
<1>4. HistBecomes(hist.delivered, hist.lost)
  BY HistMoves DEF WriteAhead
<1>5. RowBecomes("pending", Lease)
  BY RowSteps DEF WriteAhead
<1>6. Shape'
  BY <1>1, <1>2, ShapeKept
<1>7. TypeOK'
  BY <1>1, <1>5 DEF WriteAhead, TypeOK, Becomes, RowBecomes
<1>8. Stages'
  BY <1>1, <1>2, OneMoves, Bounds DEF WriteAhead, At, Stages, Fits, Agents
<1>9. Leases'
  <2>1. Starting(a) /\ (job[a].task = "send" \/ job[a].task = "release")
    BY DEF WriteAhead, At, Starting
  <2>2. row.status = "none" /\ Clean /\ \A b \in Agents : ~Holder(b)
    BY <2>1 DEF Leases
  <2>3. \A b \in Agents : Holder(b)' => b = a
    BY <1>1, <2>2, OneMoves
  <2>4. ~Unsent'
    BY <2>1, Whereabouts DEF WriteAhead, Stages, Unsent
  <2>5. \A b \in Agents : ~Starting(b)'
    BY <1>1, <2>1, OneMoves, Whereabouts DEF Stages, Starting
  <2>. QED
    BY <1>5, <2>3, <2>4, <2>5 DEF Leases, RowBecomes
<1>10. Counts'
  BY <1>1, OneMoves DEF WriteAhead, At, Counts, Leases, Clean
<1>11. Places'
  BY <1>1, OneMoves DEF WriteAhead, At, Places, Agents
<1>. QED
  BY <1>6, <1>7, <1>8, <1>9, <1>10, <1>11

LEMMA ResolveKept ==
    ASSUME IInv, NEW a \in Agents, Resolve(a)
    PROVE  IInv'
<1>. USE Fields DEF IInv
<1>1. Becomes(a, job[a].task, "resolved", job[a].answer, job[a].seen) /\ a \in Agents
  BY JobMoves, Zenon DEF Resolve, Sends, Agents, Tasks, Points, Answers, States
<1>2. Fits(a, job[a].task, "resolved")
  BY DEF Resolve, Sends, Fits, Shape, SendPoints
<1>3. SubBecomes(sub.state, sub.undo, sub.since)
  BY SubMoves, Zenon DEF Resolve
<1>4. HistBecomes(hist.delivered, hist.lost)
  BY HistMoves DEF Resolve
<1>5. RowBecomes(CASE job[a].answer = "accepted" -> "bookkeeping_pending"
                    [] job[a].answer = "permanent" -> "failed"
                    [] OTHER -> "pending",
                  IF job[a].answer \in {"accepted", "permanent"} THEN 0 ELSE CoolDown)
  BY RowSteps DEF Resolve
<1>6. Shape'
  BY <1>1, <1>2, ShapeKept
<1>7. TypeOK'
  BY <1>1, <1>5 DEF Resolve, TypeOK, Becomes, RowBecomes
<1>8. Stages'
  BY <1>1, <1>2, OneMoves, Bounds DEF Resolve, Stages, Fits, At, Agents
<1>9. Leases'
  BY <1>1, OneMoves DEF Resolve, Leases, Unsent, Clean
<1>10. Counts'
  BY <1>1, <1>2, <1>5, OneMoves DEF Resolve, Counts, RowBecomes, Leases, Clean, Fits
<1>11. Places'
  BY <1>1, OneMoves DEF Resolve, Places, At, Agents
<1>. QED
  BY <1>6, <1>7, <1>8, <1>9, <1>10, <1>11

LEMMA CallThrowsKept ==
    ASSUME IInv, NEW a \in Agents, CallThrows(a)
    PROVE  IInv'
<1>. USE Fields DEF IInv
<1>1. Becomes(a, job[a].task, "threw", job[a].answer, job[a].seen) /\ a \in Agents
  BY JobMoves, Zenon DEF CallThrows, Sends, Agents, Tasks, Points, Answers, States
<1>2. Fits(a, job[a].task, "threw")
  BY DEF CallThrows, Sends, Fits, Shape, SendPoints
<1>3. SubBecomes(sub.state, sub.undo, sub.since)
  BY SubMoves, Zenon DEF CallThrows
<1>4. HistBecomes(hist.delivered, hist.lost)
  BY HistMoves DEF CallThrows
<1>5. RowBecomes("none", 0)
  BY RowSteps DEF CallThrows
<1>6. Shape'
  BY <1>1, <1>2, ShapeKept
<1>7. TypeOK'
  BY <1>1, <1>5, Bounds DEF CallThrows, TypeOK, Becomes, RowBecomes, Fault
<1>8. Stages'
  BY <1>1, <1>5, OneMoves DEF CallThrows, Stages, RowBecomes, At, Agents
<1>9. Leases'
  BY <1>1, <1>5, OneMoves DEF CallThrows, Leases, RowBecomes, Unsent
<1>10. Counts'
  BY DEF CallThrows, Counts, Clean
<1>11. Places'
  BY <1>1, OneMoves DEF CallThrows, Places, At, Agents
<1>. QED
  BY <1>6, <1>7, <1>8, <1>9, <1>10, <1>11

LEMMA ResolveThrowsKept ==
    ASSUME IInv, NEW a \in Agents, ResolveThrows(a)
    PROVE  IInv'
<1>. USE Fields DEF IInv
<1>1. Becomes(a, job[a].task, "threw", "none", job[a].seen) /\ a \in Agents
  BY JobMoves, Zenon DEF ResolveThrows, Sends, Agents, Tasks, Points, Answers, States
<1>2. Fits(a, job[a].task, "threw")
  BY DEF ResolveThrows, Sends, Fits, Shape, SendPoints
<1>3. SubBecomes(sub.state, sub.undo, sub.since)
  BY SubMoves, Zenon DEF ResolveThrows
<1>4. HistBecomes(hist.delivered, hist.lost + LostWith(a))
  <2>1. LostWith(a) \in {0, 1}
    BY DEF LostWith
  <2>2. hist.lost + LostWith(a) \in Nat
    BY <2>1
  <2>. QED
    BY <2>2, HistMoves DEF ResolveThrows
<1>5. RowBecomes(row.status, row.wait)
  BY RowSteps DEF ResolveThrows
<1>6. Shape'
  BY <1>1, <1>2, ShapeKept
<1>7. TypeOK'
  BY <1>1, <1>4, Bounds DEF ResolveThrows, TypeOK, Becomes, HistBecomes, Fault
<1>8. Stages'
  BY <1>1, <1>2, <1>3, <1>5, OneMoves, Bounds DEF ResolveThrows, Sends, Stages, Fits, RowBecomes,
     At, SubBecomes, Agents
<1>9. Leases'
  BY <1>1, <1>2, <1>3, <1>4, <1>5, OneMoves, Whereabouts, Bounds DEF ResolveThrows, Sends, Leases,
     RowBecomes, Unsent, Over, Clean, Stages, Fits, SubBecomes, HistBecomes, Agents, LostWith
<1>10. Counts'
  BY <1>1, <1>2, OneMoves, Whereabouts DEF ResolveThrows, Counts, Leases, Clean, Fits, LostWith
<1>11. Places'
  BY <1>1, <1>2, <1>3, <1>4, OneMoves DEF ResolveThrows, Sends, Places, Stages, Fits, At,
     SubBecomes, HistBecomes, Agents
<1>. QED
  BY <1>6, <1>7, <1>8, <1>9, <1>10, <1>11

LEMMA ReviveKept ==
    ASSUME IInv, Revive
    PROVE  IInv'
<1>. USE Fields DEF IInv
<1>1. Becomes("user", "retry", "claimed", "none", "none") /\ "user" \in Agents
  BY JobMoves, Zenon DEF Revive, Agents, Tasks, Points
<1>2. Fits("user", "retry", "claimed")
  BY DEF Fits
<1>3. SubBecomes(sub.state, sub.undo, sub.since)
  BY SubMoves, Zenon DEF Revive
<1>4. HistBecomes(hist.delivered, hist.lost)
  BY HistMoves DEF Revive, Agents
<1>5. RowBecomes("pending", 0)
  BY RowSteps DEF Revive
<1>6. Shape'
  BY <1>1, <1>2, ShapeKept
<1>7. TypeOK'
  BY <1>1, <1>4, <1>5 DEF Revive, TypeOK, Becomes, HistBecomes, RowBecomes
<1>8. Stages'
  BY <1>1, OneMoves DEF Revive, Due, Stages, At, Agents
<1>9. Leases'
  BY <1>1, OneMoves DEF Revive, Due, Leases, Unsent
<1>10. Counts'
  BY <1>1, <1>4, OneMoves DEF Revive, IsIdle, Due, Counts, Clean, HistBecomes
<1>11. Places'
  BY <1>1, <1>4, OneMoves DEF Revive, Places, At, HistBecomes, Agents
<1>. QED
  BY <1>6, <1>7, <1>8, <1>9, <1>10, <1>11

LEMMA DiscardKept ==
    ASSUME IInv, Discard
    PROVE  IInv'
<1>. USE Fields DEF IInv
<1>1. Becomes("user", "retry", "written", "canceled", "none") /\ "user" \in Agents
  BY JobMoves, Zenon DEF Discard, Agents, Tasks, Points, Answers
<1>2. Fits("user", "retry", "written")
  BY DEF Fits
<1>3. SubBecomes(sub.state, sub.undo, sub.since)
  BY SubMoves DEF Discard, IsIdle, Due, Stages
<1>4. HistBecomes(hist.delivered, hist.lost)
  BY HistMoves DEF Discard, Agents
<1>5. RowBecomes("none", 0)
  BY RowSteps DEF Discard
<1>6. Shape'
  BY <1>1, <1>2, ShapeKept
<1>7. TypeOK'
  BY <1>1, <1>4, <1>5 DEF Discard, TypeOK, Becomes, HistBecomes, RowBecomes
<1>8. Stages'
  BY <1>5 DEF Discard, Stages, RowBecomes, At
<1>9. Leases'
  BY <1>1, OneMoves, Bounds DEF Discard, Due, Leases, Unsent
<1>10. Counts'
  BY <1>4, Whereabouts, Bounds DEF Discard, Due, Counts, Leases, Clean, HistBecomes
<1>11. Places'
  BY <1>4 DEF Discard, Places, At, HistBecomes
<1>. QED
  BY <1>6, <1>7, <1>8, <1>9, <1>10, <1>11

LEMMA SecondWriteKept ==
    ASSUME IInv, NEW a \in Agents, SecondWrite(a)
    PROVE  IInv'
<1>. USE Fields DEF IInv
<1>1. Becomes(a, "none", "idle", "none", "none") /\ a \in Agents
  BY JobMoves, Zenon DEF SecondWrite, At, SentSet, Agents, Tasks, Points, Answers, States
<1>2. Fits(a, "none", "idle")
  BY DEF Fits
<1>3. SubBecomes(sub.state, sub.undo, sub.since)
  BY SubMoves, Zenon DEF SecondWrite
<1>4. HistBecomes(hist.delivered, hist.lost)
  BY HistMoves DEF SecondWrite
<1>5. /\ RowBecomes(row'.status, row'.wait)
      /\ \/ job[a].answer # "accepted" /\ row' = row
         \/ /\ job[a].answer = "accepted" /\ row'.status \in {"none", "bookkeeping_pending"}
            /\ row'.status = "none" <=> row.status = "none"
  <2>1. CASE job[a].answer = "accepted"
    <3>1. row' = RowSet([row EXCEPT !.status = "bookkeeping_pending"])
      BY <2>1 DEF SecondWrite
    <3>. QED
      BY <2>1, <3>1, RowSteps DEF RowBecomes
  <2>2. CASE job[a].answer # "accepted"
    <3>1. row' = row
      BY <2>2 DEF SecondWrite
    <3>. QED
      BY <2>2, <3>1, RowSteps DEF RowBecomes
  <2>. QED
    BY <2>1, <2>2
<1>6. Shape'
  BY <1>1, <1>2, ShapeKept
<1>7. TypeOK'
  BY <1>1, <1>5 DEF SecondWrite, SentSet, TypeOK, SentStatuses, Becomes, RowBecomes
<1>8. Stages'
  BY <1>1, <1>5, OneMoves DEF SecondWrite, At, Stages, Agents
<1>9. Leases'
  BY <1>1, OneMoves DEF SecondWrite, At, Leases, Unsent, Over, Clean, Agents
<1>10. Counts'
  <2>2. CASE job[a].answer = "accepted"
    <3>1. row'.status \in {"none", "bookkeeping_pending"}
      BY <1>5, <2>2
    <3>. QED
      BY <1>1, <1>3, <1>4, <1>5, OneMoves DEF Counts, Clean, SubBecomes, HistBecomes
  <2>3. CASE job[a].answer # "accepted"
    <3>1. row' = row /\ ~Told(a)
      BY <1>5, <2>3 DEF Told
    <3>. QED
      BY <1>1, <1>3, <1>4, <3>1, OneMoves DEF Counts, Clean, SubBecomes, HistBecomes
  <2>. QED
    BY <2>2, <2>3
<1>11. Places'
  BY <1>1, OneMoves DEF SecondWrite, At, SentSet, Places, Agents
<1>. QED
  BY <1>6, <1>7, <1>8, <1>9, <1>10, <1>11

LEMMA ConfirmClaimedKept ==
    ASSUME IInv, ConfirmClaimed
    PROVE  IInv'
<1>. USE Fields DEF IInv
<1>1. Becomes("cron", "none", "idle", "none", "none") /\ "cron" \in Agents
  BY JobMoves, Zenon DEF ConfirmClaimed, Agents
<1>2. Fits("cron", "none", "idle")
  BY DEF Fits
<1>3. SubBecomes(sub.state, sub.undo, sub.since)
  BY SubMoves, Zenon DEF ConfirmClaimed
<1>4. HistBecomes(hist.delivered, hist.lost)
  BY HistMoves DEF ConfirmClaimed
<1>5. /\ RowBecomes(row'.status, row'.wait)
      /\ row' = row \/ (row.status = "bookkeeping_pending" /\ row'.status = "none")
  <2>1. row' = row \/ row' = ConfirmedRow
    BY DEF ConfirmClaimed
  <2>. QED
    BY <2>1, RowSteps DEF RowBecomes, ConfirmedRow
<1>6. Shape'
  BY <1>1, <1>2, ShapeKept
<1>7. TypeOK'
  BY <1>1, <1>5 DEF ConfirmClaimed, TypeOK, Becomes, RowBecomes
<1>8. Stages'
  BY <1>1, OneMoves DEF ConfirmClaimed, At, Stages, Agents
<1>9. Leases'
  BY <1>1, <1>5, OneMoves DEF ConfirmClaimed, Leases, Unsent, Over, Clean, Agents
<1>10. Counts'
  BY <1>1, <1>5, OneMoves DEF ConfirmClaimed, At, Stages, Counts, Clean
<1>11. Places'
  BY <1>1, OneMoves DEF ConfirmClaimed, At, Places, Agents
<1>. QED
  BY <1>6, <1>7, <1>8, <1>9, <1>10, <1>11

LEMMA AbandonRowKept ==
    ASSUME IInv, AbandonRow
    PROVE  IInv'
<1>. USE Fields DEF IInv
<1>0. Go("cron", "dropped") /\ job["cron"].task = "recover"
  BY DEF AbandonRow, At
<1>1. /\ Becomes("cron", "recover", "dropped", job["cron"].answer, job["cron"].seen)
      /\ "cron" \in Agents
  <2>1. "cron" \in Agents
    BY DEF Agents
  <2>2. Becomes("cron", job["cron"].task, "dropped", job["cron"].answer, job["cron"].seen)
    BY <1>0, <2>1, JobMoves, Zenon DEF Points, Answers
  <2>. QED
    BY <1>0, <2>1, <2>2 DEF Becomes
<1>2. Fits("cron", "recover", "dropped")
  BY DEF Fits
<1>3. SubBecomes(sub.state, sub.undo, sub.since)
  BY SubMoves, Zenon DEF AbandonRow
<1>4. HistBecomes(hist.delivered, hist.lost)
  BY HistMoves DEF AbandonRow
<1>5. RowBecomes("none", 0)
  BY RowSteps DEF AbandonRow
<1>6. Shape'
  BY <1>1, <1>2, ShapeKept
<1>7. TypeOK'
  BY <1>1, <1>5 DEF AbandonRow, TypeOK, Becomes, RowBecomes
<1>8. Stages'
  BY <1>1, OneMoves DEF AbandonRow, At, Stages, Agents
<1>9. Leases'
  BY <1>1, <1>5, OneMoves, Whereabouts, Bounds DEF AbandonRow, At, Leases, RowBecomes, Unsent,
     Over, Clean, Stages, Fits, Agents, Shape
<1>10. Counts'
  BY <1>1, <1>5, OneMoves DEF AbandonRow, At, Counts, RowBecomes, Clean, Stages
<1>11. Places'
  BY <1>1, OneMoves DEF AbandonRow, At, Places, Agents
<1>. QED
  BY <1>6, <1>7, <1>8, <1>9, <1>10, <1>11

LEMMA AbandonSubmissionKept ==
    ASSUME IInv, AbandonSubmission
    PROVE  IInv'
<1>. USE Fields DEF IInv
<1>0. Go("cron", "abandon") /\ job["cron"].task = "recover"
  BY DEF AbandonSubmission, At
<1>1. /\ Becomes("cron", "recover", "abandon", job["cron"].answer, job["cron"].seen)
      /\ "cron" \in Agents
  <2>1. "cron" \in Agents
    BY DEF Agents
  <2>2. Becomes("cron", job["cron"].task, "abandon", job["cron"].answer, job["cron"].seen)
    BY <1>0, <2>1, JobMoves, Zenon DEF Points, Answers
  <2>. QED
    BY <1>0, <2>1, <2>2 DEF Becomes
<1>2. Fits("cron", "recover", "abandon")
  BY DEF Fits
<1>3. SubBecomes("gone", sub.undo, sub.since)
  BY SubMoves, Zenon DEF AbandonSubmission
<1>4. HistBecomes(hist.delivered, hist.lost)
  BY HistMoves DEF AbandonSubmission
<1>5. RowBecomes(row.status, row.wait)
  BY RowSteps DEF AbandonSubmission
<1>6. Shape'
  BY <1>1, <1>2, ShapeKept
<1>7. TypeOK'
  BY <1>1, <1>3 DEF AbandonSubmission, TypeOK, Becomes, SubBecomes
<1>8. Stages'
  BY <1>1, <1>3, OneMoves, Bounds DEF AbandonSubmission, At, Stages, Fits, SubBecomes, Agents,
     Shape
<1>9. Leases'
  BY <1>1, <1>3, OneMoves DEF AbandonSubmission, At, Leases, Unsent, Over, Clean, Stages,
     SubBecomes, Agents
<1>10. Counts'
  BY <1>1, <1>3, OneMoves DEF AbandonSubmission, At, Counts, Clean, SubBecomes
<1>11. Places'
  BY <1>1, <1>3, OneMoves DEF AbandonSubmission, At, Places, SubBecomes, Agents
<1>. QED
  BY <1>6, <1>7, <1>8, <1>9, <1>10, <1>11

LEMMA ReadReleasingKept ==
    ASSUME IInv, ReadReleasing
    PROVE  IInv'
<1>. USE Fields DEF IInv
<1>1. Becomes("cron", "settle", "read", "none", row.status) /\ "cron" \in Agents
  <2>1. "cron" \in Agents /\ "settle" \in Tasks /\ "read" \in Points
    BY DEF Agents, Tasks, Points
  <2>. QED
    BY <2>1, JobMoves DEF ReadReleasing
<1>2. Fits("cron", "settle", "read")
  BY DEF Fits
<1>3. SubBecomes(sub.state, sub.undo, sub.since)
  BY SubMoves DEF ReadReleasing, IsIdle, Stages
<1>4. HistBecomes(hist.delivered, hist.lost)
  BY HistMoves DEF ReadReleasing
<1>5. RowBecomes(row.status, row.wait)
  BY RowSteps DEF ReadReleasing
<1>6. Shape'
  BY <1>1, <1>2, ShapeKept
<1>7. TypeOK'
  BY <1>1, <1>4 DEF ReadReleasing, TypeOK, Becomes, HistBecomes
<1>8. Stages'
  BY DEF ReadReleasing, Stages, At
<1>9. Leases'
  BY <1>1, OneMoves DEF ReadReleasing, Leases, Unsent, Over, Clean
<1>10. Counts'
  BY <1>1, OneMoves DEF ReadReleasing, IsIdle, Counts, Clean
<1>11. Places'
  BY DEF ReadReleasing, Places, At
<1>. QED
  BY <1>6, <1>7, <1>8, <1>9, <1>10, <1>11
LEMMA RecordSentKept ==
    ASSUME IInv, NEW a \in Agents,
           \/ job[a].task = "release" /\ job[a].pc = "resolved"
           \/ a = "cron" /\ job[a].task = "settle",
           sub' = Accepted, row' = ConfirmedRow, End(a),
           sent' \in SentStatuses, sent' = "none" <=> sent = "none",
           UNCHANGED <<form, due, filed, draft, wake, paused, hist, faults>>
    PROVE  IInv'
<1>. USE Fields DEF IInv
<1>1. Becomes(a, "none", "idle", "none", "none") /\ a \in Agents
  BY JobMoves, Zenon DEF End, Agents, Tasks, Points, Answers, States
<1>2. Fits(a, "none", "idle")
  BY DEF Fits
<1>3. SubBecomes("accepted", "final", sub.since)
  BY SubMoves DEF End, At, Stages
<1>4. HistBecomes(hist.delivered, hist.lost)
  BY HistMoves DEF End
<1>5. RowBecomes(IF row.status = "bookkeeping_pending" THEN "none" ELSE row.status,
                 IF row.status = "bookkeeping_pending" THEN 0 ELSE row.wait)
  BY RowSteps DEF End
<1>6. Shape'
  BY <1>1, <1>2, ShapeKept
<1>7. TypeOK'
  BY <1>1, <1>3, <1>5 DEF TypeOK, Becomes, SubBecomes, RowBecomes
<1>8. Stages'
  BY <1>1, <1>3, OneMoves, Bounds DEF At, Stages, SubBecomes, Agents
<1>9. Leases'
  BY <1>1, <1>3, <1>5, OneMoves DEF Leases, RowBecomes, Unsent, Over, Clean, SubBecomes, Agents
<1>10. Counts'
  BY <1>1, <1>3, <1>5, OneMoves, Whereabouts DEF Counts, RowBecomes, Clean, SubBecomes
<1>11. Places'
  BY <1>1, <1>3, OneMoves DEF At, Places, SubBecomes, Agents
<1>. QED
  BY <1>6, <1>7, <1>8, <1>9, <1>10, <1>11

LEMMA UnclaimKept ==
    ASSUME IInv, NEW a \in Agents,
           \/ job[a].task = "release" /\ job[a].pc \in {"found", "threw"}
           \/ a = "cron" /\ job[a].task = "settle",
           sub' = Unclaimed, row.status = "none", End(a),
           wake' \in BOOLEAN, faults' \in 0..MaxFaults,
           UNCHANGED <<form, due, sent, filed, draft, row, paused, hist>>
    PROVE  IInv'
<1>. USE Fields DEF IInv
<1>1. Becomes(a, "none", "idle", "none", "none") /\ a \in Agents
  BY JobMoves, Zenon DEF End, Agents, Tasks, Points, Answers, States
<1>2. Fits(a, "none", "idle")
  BY DEF Fits
<1>3. SubBecomes("scheduled", sub.undo, 0)
  BY SubMoves, Zenon DEF Stages
<1>4. HistBecomes(hist.delivered, hist.lost)
  BY HistMoves DEF End
<1>5. RowBecomes(row.status, row.wait)
  BY RowSteps DEF End
<1>6. Shape'
  BY <1>1, <1>2, ShapeKept
<1>7. TypeOK'
  BY <1>1, <1>3 DEF TypeOK, Becomes, SubBecomes
<1>8. Stages'
  BY <1>1, <1>3, OneMoves, Bounds DEF At, Stages, SubBecomes, Agents
<1>9. Leases'
  <2>1. sub.state = "releasing" /\ Clean
    BY DEF Stages, Counts
  <2>2. ASSUME NEW b \in Agents, b # a PROVE ~Holder(b)
    <3>1. CASE job[b].pc = "threw"
      <4>1. job[b].task = "release"
        BY <2>1, <3>1, Whereabouts DEF Stages, Agents
      <4>. QED
        BY <2>2, <4>1, Bounds DEF Stages
    <3>2. CASE job[b].pc # "threw"
      BY <2>1, <3>2 DEF Leases, Over
    <3>. QED
      BY <3>1, <3>2
  <2>3. ~Holder(a)'
    BY <1>1, OneMoves
  <2>. QED
    BY <1>1, <2>1, <2>2, OneMoves DEF Leases, Clean
<1>10. Counts'
  BY <1>1, <1>3, OneMoves DEF Counts, Clean, SubBecomes
<1>11. Places'
  BY <1>1, <1>3, OneMoves DEF At, Places, SubBecomes, Agents
<1>. QED
  BY <1>6, <1>7, <1>8, <1>9, <1>10, <1>11

\* The shape of a send that calls nobody: the address is suppressed, or the outbox paused.
LEMMA WithheldKept ==
    ASSUME IInv, NEW a \in Agents, NEW ans \in {"held", "suppressed"}, Answer(a, ans),
           job[a].pc = "calling",
           UNCHANGED <<form, sub, due, sent, filed, draft, row, wake, paused, hist, faults>>
    PROVE  IInv'
<1>. USE Fields DEF IInv
<1>1. Becomes(a, job[a].task, "answered", ans, job[a].seen) /\ a \in Agents
  <2>1. ans \in Answers
    BY DEF Answers
  <2>. QED
    BY <2>1, JobMoves
<1>2. Fits(a, job[a].task, "answered")
  BY DEF Fits, Shape, SendPoints
<1>3. SubBecomes(sub.state, sub.undo, sub.since)
  BY SubMoves, Zenon
<1>4. HistBecomes(hist.delivered, hist.lost)
  BY HistMoves DEF Answers
<1>5. RowBecomes(row.status, row.wait)
  BY RowSteps DEF Answers
<1>6. Shape'
  BY <1>1, <1>2, ShapeKept
<1>7. TypeOK'
  BY <1>1 DEF TypeOK, Becomes
<1>8. Stages'
  BY <1>1, OneMoves DEF At, Stages, Agents
<1>9. Leases'
  BY <1>1, OneMoves DEF Leases, Unsent, Over, Agents
<1>10. Counts'
  BY DEF Counts, Clean
<1>11. Places'
  BY <1>1, OneMoves DEF At, Places, Agents
<1>. QED
  BY <1>6, <1>7, <1>8, <1>9, <1>10, <1>11

\* The shape of a call: a message delivered or not, its answer heard or lost.
LEMMA TransportedKept ==
    ASSUME IInv, NEW a \in Agents, NEW ans \in {"accepted", "transient", "permanent"},
           NEW d \in {0, 1}, NEW l \in {0, 1},
           job[a].pc = "calling", Answer(a, ans), l <= d, ans = "accepted" <=> d > l,
           hist' = [hist EXCEPT !.delivered = @ + d, !.lost = @ + l],
           faults' \in 0..MaxFaults,
           UNCHANGED <<form, sub, due, sent, filed, draft, row, wake, paused>>
    PROVE  IInv'
<1>. USE Fields DEF IInv
<1>1. Becomes(a, job[a].task, "answered", ans, job[a].seen) /\ a \in Agents
  <2>1. ans \in Answers
    BY DEF Answers
  <2>. QED
    BY <2>1, JobMoves
<1>2. Fits(a, job[a].task, "answered")
  BY DEF Fits, Shape, SendPoints
<1>3. SubBecomes(sub.state, sub.undo, sub.since)
  BY SubMoves DEF Answers, At, Stages
<1>4. HistBecomes(hist.delivered + d, hist.lost + l)
  <2>1. hist.delivered + d \in Nat /\ hist.lost + l \in Nat
    OBVIOUS
  <2>2. hist' = [hist EXCEPT !.delivered = hist.delivered + d, !.lost = hist.lost + l]
    BY DEF HistType
  <2>. QED
    BY <2>1, <2>2, HistMoves
<1>5. RowBecomes(row.status, row.wait)
  BY RowSteps DEF Answers
<1>6. Shape'
  BY <1>1, <1>2, ShapeKept
<1>7. TypeOK'
  BY <1>1, <1>4 DEF TypeOK, Becomes, HistBecomes
<1>8. Stages'
  BY <1>1, OneMoves DEF At, Stages, Agents
<1>9. Leases'
  BY <1>1, OneMoves DEF Leases, Unsent, Over, Agents
<1>10. Counts'
  <2>1. Clean /\ Holder(a)
    BY DEF Counts, Holder
  <2>2. sub.state = "releasing" => row.status # "none"
    BY <2>1 DEF Leases, Over
  <2>3. ~Clean' => Told(a)'
    BY <1>1, <1>4, <2>1, OneMoves DEF Clean, HistBecomes
  <2>4. \A b \in Agents : job'[b].pc \in {"calling", "threw"} => FALSE
    BY <1>1, <2>1, OneMoves DEF Leases, Holder
  <2>5. hist'.delivered <= 1 + hist'.lost
    BY <1>4, <2>1 DEF Clean, HistBecomes
  <2>. QED
    BY <2>2, <2>3, <2>4, <2>5 DEF Counts
<1>11. Places'
  BY <1>1, OneMoves DEF At, Places, Agents
<1>. QED
  BY <1>6, <1>7, <1>8, <1>9, <1>10, <1>11

\* The shape of a recovery that records what went out.
LEMMA ClaimedAcceptedKept ==
    ASSUME IInv, NEW t \in {"none", "recover"}, NEW p \in Points,
           At("cron", "recover", "recorded") \/ (At("cron", "recover", "read") /\ Known),
           \/ t = "none" /\ p = "idle" /\ End("cron")
           \/ t = "recover" /\ p = "accepted" /\ Go("cron", p),
           sub' = [sub EXCEPT !.state = "accepted"],
           UNCHANGED <<form, due, sent, filed, draft, row, wake, paused, hist, faults>>
    PROVE  IInv'
<1>. USE Fields DEF IInv
<1>1. Becomes("cron", t, p, job'["cron"].answer, job'["cron"].seen) /\ "cron" \in Agents
  <2>1. "cron" \in Agents
    BY DEF Agents
  <2>2. CASE t = "none"
    <3>1. Becomes("cron", "none", "idle", "none", "none")
      BY <2>1, <2>2, JobMoves
    <3>. QED
      BY <2>1, <2>2, <3>1 DEF Becomes
  <2>3. CASE t = "recover"
    <3>1. Becomes("cron", job["cron"].task, p, job["cron"].answer, job["cron"].seen)
      BY <2>1, <2>3, JobMoves
    <3>. QED
      BY <2>1, <2>3, <3>1 DEF Becomes, At
  <2>. QED
    BY <2>2, <2>3
<1>2. Fits("cron", t, p)
  BY DEF Fits
<1>3. SubBecomes("accepted", sub.undo, sub.since)
  BY SubMoves DEF States
<1>4. HistBecomes(hist.delivered, hist.lost)
  BY HistMoves DEF At
<1>5. RowBecomes(row.status, row.wait)
  BY RowSteps DEF At
<1>6. Shape'
  BY <1>1, <1>2, ShapeKept
<1>7. TypeOK'
  BY <1>1, <1>3 DEF TypeOK, Becomes, SubBecomes
<1>8. Stages'
  BY <1>1, OneMoves, Bounds DEF At, Shape, Stages, Fits, Agents
<1>9. Leases'
  BY <1>1, OneMoves DEF Leases, Unsent, Over, Clean, Agents
<1>10. Counts'
  BY <1>1, OneMoves DEF At, Counts, Clean
<1>11. Places'
  BY <1>1, OneMoves DEF At, Known, Places, Stages, Agents
<1>. QED
  BY <1>6, <1>7, <1>8, <1>9, <1>10, <1>11

\* The shape of a claim of the row.
LEMMA ClaimedRowKept ==
    ASSUME IInv, NEW a \in Agents, At(a, "retry", "claimed"), Due,
           row' = [row EXCEPT !.attempts = @ + 1, !.wait = Lease],
           hist' = Raced(a), Go(a, "calling"),
           UNCHANGED <<form, sub, due, sent, filed, draft, wake, paused, faults>>
    PROVE  IInv'
<1>. USE Fields DEF IInv
<1>0. Go(a, "calling") /\ job[a].task = "retry"
  BY DEF Due, At
<1>1. Becomes(a, "retry", "calling", job[a].answer, job[a].seen) /\ a \in Agents
  <2>1. a \in Agents
    BY DEF Agents
  <2>2. Becomes(a, job[a].task, "calling", job[a].answer, job[a].seen)
    BY <1>0, <2>1, JobMoves, Zenon DEF Points, Answers
  <2>. QED
    BY <1>0, <2>1, <2>2 DEF Becomes
<1>2. Fits(a, "retry", "calling")
  BY DEF At, Fits, Shape
<1>3. SubBecomes(sub.state, sub.undo, sub.since)
  BY SubMoves, Zenon
<1>4. HistBecomes(hist.delivered, hist.lost)
  BY HistMoves DEF Due
<1>5. RowBecomes("pending", Lease)
  BY RowSteps DEF Due
<1>6. Shape'
  BY <1>1, <1>2, ShapeKept
<1>7. TypeOK'
  BY <1>1, <1>4, <1>5 DEF TypeOK, Becomes, HistBecomes, RowBecomes
<1>8. Stages'
  BY <1>1, OneMoves DEF At, Stages, Agents
<1>9. Leases'
  BY <1>1, OneMoves, Bounds DEF Due, Leases, Unsent
<1>10. Counts'
  BY <1>4, Whereabouts, Bounds DEF Due, Counts, Leases, Clean, HistBecomes
<1>11. Places'
  BY <1>1, <1>4, OneMoves DEF At, Places, HistBecomes, Agents
<1>. QED
  BY <1>6, <1>7, <1>8, <1>9, <1>10, <1>11

\* The shape of the write of an answer to the row.
LEMMA RowWrittenKept ==
    ASSUME IInv, NEW a \in Agents, NEW ans \in Answers, NEW w \in {0, row.wait},
           NEW r \in {row.status, "none", "failed"},
           At(a, "retry", "answered"),
           job' = [job EXCEPT ![a].pc = "written", ![a].answer = ans],
           ans = "accepted" <=> job[a].answer = "accepted",
           IF ans = "accepted" THEN row' = row /\ w = row.wait /\ r = row.status ELSE w = 0,
           row.status = "none" => r = "none", RowBecomes(r, w),
           sent' \in SentStatuses, sent' = "none" <=> sent = "none",
           UNCHANGED <<form, sub, due, filed, draft, wake, paused, hist, faults>>
    PROVE  IInv'
<1>. USE Fields DEF IInv
<1>0. job' = [job EXCEPT ![a].pc = "written", ![a].answer = ans] /\ job[a].task = "retry"
  BY DEF RowBecomes, At
<1>1. Becomes(a, "retry", "written", ans, job[a].seen) /\ a \in Agents
  <2>1. a \in Agents
    BY DEF Agents
  <2>2. Becomes(a, job[a].task, "written", ans, job[a].seen)
    BY <1>0, <2>1, JobMoves, Zenon DEF Points, Answers
  <2>. QED
    BY <1>0, <2>1, <2>2 DEF Becomes
<1>2. Fits(a, "retry", "written")
  BY DEF At, Fits, Shape
<1>3. SubBecomes(sub.state, sub.undo, sub.since)
  BY SubMoves, Zenon
<1>4. HistBecomes(hist.delivered, hist.lost)
  BY HistMoves DEF RowBecomes
<1>5. RowBecomes(r, w)
  BY RowSteps DEF RowBecomes
<1>6. Shape'
  BY <1>1, <1>2, ShapeKept
<1>7. TypeOK'
  BY <1>1 DEF RowBecomes, TypeOK, Becomes
<1>8. Stages'
  BY <1>1, <1>2, <1>3, <1>5, OneMoves, Bounds DEF RowBecomes, At, Stages, Fits, SubBecomes, Agents
<1>9. Leases'
  BY <1>1, <1>2, <1>3, <1>4, <1>5, OneMoves, Whereabouts, Bounds DEF RowBecomes, At, Leases,
     Unsent, Over, Clean, Stages, Fits, SubBecomes, HistBecomes, Agents
<1>10. Counts'
  BY <1>1, OneMoves, Whereabouts DEF RowBecomes, At, Counts, Leases, Clean
<1>11. Places'
  BY <1>1, <1>2, <1>3, <1>4, OneMoves DEF RowBecomes, At, Places, Stages, Fits, SubBecomes,
     HistBecomes, Agents
<1>. QED
  BY <1>6, <1>7, <1>8, <1>9, <1>10, <1>11
LEMMA ReleaseAppliedKept ==
    ASSUME IInv, ReleaseApplied
    PROVE  IInv'
<1>. USE Fields DEF IInv
<1>1. job' = job /\ RowBecomes("none", 0) /\ row.status = "bookkeeping_pending"
      /\ sub.state = "accepted" /\ UNCHANGED <<form, sub, due, sent, filed, draft, hist>>
  BY RowSteps DEF ReleaseApplied
<1>2. TypeOK'
  BY <1>1 DEF ReleaseApplied, TypeOK, RowBecomes
<1>3. Shape'
  BY <1>1 DEF Shape
<1>4. Stages'
  BY <1>1 DEF Stages, At
<1>5. \A a \in Agents : ~Holder(a)
  BY <1>1 DEF Leases
<1>6. \A a \in Agents : (Holder(a)' <=> Holder(a)) /\ (Told(a)' <=> Told(a))
                        /\ (Starting(a)' <=> Starting(a))
  BY <1>1 DEF Holder, Told, Starting
<1>7. Leases'
  BY <1>1, <1>6 DEF Leases, Unsent
<1>8. Counts'
  BY <1>1 DEF Counts, Clean, RowBecomes
<1>9. Places'
  BY <1>1 DEF Places, At
<1>. QED
  BY <1>2, <1>3, <1>4, <1>7, <1>8, <1>9

\* Time passes while nobody runs.
LEMMA TickKept ==
    ASSUME IInv, Tick
    PROVE  IInv'
<1>. USE Fields DEF IInv
<1>1. \A a \in Agents : job[a].pc = "idle" /\ job[a].task = "none"
  BY DEF Tick, IsIdle, Shape, Fits
<1>2. \A a \in Agents : ~Holder(a) /\ ~Told(a) /\ ~Starting(a)
  BY <1>1 DEF Holder, Told, Starting
<1>3. /\ job' = job /\ RowBecomes(row.status, IF row.wait > 0 THEN row.wait - 1 ELSE 0)
      /\ UNCHANGED <<form, sent, filed, draft, wake, paused, hist, faults>>
  BY RowSteps DEF Tick
<1>4. /\ sub' \in SubType /\ sub'.state = sub.state /\ sub'.undo = sub.undo
  <2>1. \A n, m \in 0..RecoveryAge :
          sub' = [sub EXCEPT !.age = n, !.since = m] =>
             sub' \in SubType /\ sub'.state = sub.state /\ sub'.undo = sub.undo
    BY DEF SubType
  <2>2. sub.age \in 0..RecoveryAge /\ sub.since \in 0..RecoveryAge
    BY DEF SubType
  <2>3. \A n \in 0..RecoveryAge : Older(n) \in 0..RecoveryAge
    BY Bounds DEF Older
  <2>4. [sub EXCEPT !.age = Older(sub.age)].since = sub.since
    BY DEF SubType
  <2>. QED
    BY <2>1, <2>2, <2>3, <2>4 DEF Tick
<1>5. due' \in -Grace..Delay
  BY Bounds DEF Tick, TypeOK
<1>6. TypeOK'
  BY <1>3, <1>4, <1>5 DEF TypeOK, RowBecomes
<1>7. Shape'
  BY <1>3 DEF Shape
<1>8. Stages'
  BY <1>1, <1>3, <1>4 DEF Stages, At, Agents
<1>9. \A a \in Agents : ~Holder(a)' /\ ~Told(a)' /\ ~Starting(a)'
  BY <1>2, <1>3 DEF Holder, Told, Starting
<1>10. Leases'
  BY <1>3, <1>4, <1>9 DEF Leases, Unsent, Clean, RowBecomes
<1>11. Counts'
  BY <1>2, <1>3, <1>4 DEF Counts, Clean, RowBecomes
<1>12. Places'
  BY <1>3, <1>4 DEF Places, At
<1>. QED
  BY <1>6, <1>7, <1>8, <1>10, <1>11, <1>12

\* The actions that end in one of the steps above.
LEMMA GiveUpKept ==
    ASSUME IInv, GiveUp \/ RecordRefused \/ \E a \in Agents : Threw(a) /\ job[a].task = "send"
                                                              /\ row.status = "none"
    PROVE  IInv'
<1>1. AbandonIntention("request") /\ job["request"].task \in {"send", "schedule"}
      /\ job["request"].pc \in {"claimed", "resolved", "threw", "abandon"}
  <2>1. CASE GiveUp
    BY <2>1 DEF GiveUp, At
  <2>2. CASE RecordRefused
    BY <2>2 DEF RecordRefused, At
  <2>3. ASSUME NEW a \in Agents, Threw(a), job[a].task = "send", row.status = "none"
        PROVE  AbandonIntention("request") /\ job["request"].task \in {"send", "schedule"}
               /\ job["request"].pc \in {"claimed", "resolved", "threw", "abandon"}
    <3>1. a = "request"
      BY <2>3, Whereabouts DEF IInv
    <3>. QED
      BY <2>3, <3>1 DEF Threw
  <2>. QED
    BY <2>1, <2>2, <2>3
<1>. QED
  BY <1>1, AbandonIntentionKept

\* A send that threw finds its row, or that it never had one.
LEMMA ThrewKept ==
    ASSUME IInv, NEW a \in Agents, Threw(a)
    PROVE  IInv'
<1>. USE Fields DEF IInv
<1>1. CASE row.status = "none" /\ job[a].task = "send"
  BY <1>1, GiveUpKept
<1>2. CASE row.status = "none" /\ job[a].task # "send"
  <2>1. job[a].task = "release" /\ sub' = Unclaimed /\ wake' = (wake \/ a = "queue") /\ End(a)
        /\ UNCHANGED <<form, due, sent, filed, draft, row, paused, hist, faults>>
        /\ job[a].pc = "threw"
    BY <1>2 DEF Threw
  <2>2. wake' \in BOOLEAN /\ faults' \in 0..MaxFaults
    BY <2>1 DEF TypeOK
  <2>. HIDE Fields DEF IInv
  <2>. QED
    BY <1>2, <2>1, <2>2, UnclaimKept
<1>3. CASE row.status # "none"
  <2>1. /\ job[a].pc = "threw" /\ sub' = sub /\ wake' \in BOOLEAN /\ End(a)
        /\ UNCHANGED <<form, due, sent, filed, draft, row, paused, hist, faults>>
    BY <1>3 DEF Threw
  <2>2. Becomes(a, "none", "idle", "none", "none")
    BY <2>1, JobMoves
  <2>3. Fits(a, "none", "idle")
    BY DEF Fits, Agents
  <2>4. Shape'
    BY <2>2, <2>3, ShapeKept
  <2>5. Calm /\ Aside(a)
    BY <2>1, <2>2 DEF Calm, Aside, Becomes, Told
  <2>6. TypeOK'
    BY <2>1, <2>2 DEF TypeOK, Becomes
  <2>7. Places'
    BY <2>1, <2>2, OneMoves DEF Places, At, Agents
  <2>. QED
    BY <2>4, <2>5, <2>6, <2>7, AsideStep
<1>. QED
  BY <1>1, <1>2, <1>3

\* A release starts, by the queue's message or by the hourly pass.
LEMMA ReleaseKept ==
    ASSUME IInv, ReleaseByQueue \/ ReleaseBySweep
    PROVE  IInv'
<1>. USE Fields DEF IInv
<1>1. CASE ReleaseBySweep
  <2>1. IsIdle("cron") /\ Claimable /\ Claim("cron") /\ wake' \in BOOLEAN
        /\ UNCHANGED <<form, due, sent, filed, draft, row, paused, hist, faults>>
    BY <1>1 DEF ReleaseBySweep, TypeOK
  <2>. QED
    BY <2>1, ClaimKept
<1>2. CASE ReleaseByQueue /\ Claim("queue")
  <2>1. IsIdle("queue") /\ wake' \in BOOLEAN
        /\ UNCHANGED <<form, due, sent, filed, draft, row, paused, hist, faults>>
    BY <1>2 DEF ReleaseByQueue
  <2>2. CASE Claimable
    BY <1>2, <2>1, <2>2, ClaimKept
  <2>3. CASE UNCHANGED <<sub, job>>
    <3>1. FALSE
      BY <1>2, <2>1, <2>3 DEF Claim, IsIdle, Begin, Idle, Agents
    <3>. QED
      BY <3>1
  <2>. QED
    BY <1>2, <2>2, <2>3 DEF ReleaseByQueue
<1>3. CASE ReleaseByQueue /\ UNCHANGED <<sub, job>>
  <2>1. Calm
    BY <1>3 DEF Calm, ReleaseByQueue
  <2>2. TypeOK' /\ Places'
    BY <1>3 DEF ReleaseByQueue, TypeOK, Places, At
  <2>. QED
    BY <1>3, <2>1, <2>2, StillStep
<1>. QED
  BY <1>1, <1>2, <1>3 DEF ReleaseByQueue

LEMMA RecordReleaseKept ==
    ASSUME IInv, NEW a \in Agents, RecordRelease(a)
    PROVE  IInv'
<1>. USE Fields DEF IInv
<1>1. job[a].task = "release" /\ job[a].pc = "resolved"
  BY DEF RecordRelease, At
<1>2. CASE FailRelease(a)
  BY <1>1, <1>2, FailReleaseKept
<1>3. CASE ~FailRelease(a)
  <2>1. /\ sent' = SentSet(Outcome(a)) /\ sub' = Accepted /\ row' = ConfirmedRow /\ End(a)
        /\ UNCHANGED <<form, due, filed, draft, wake, paused, hist, faults>>
    BY <1>3 DEF RecordRelease
  <2>2. sent' \in SentStatuses /\ (sent' = "none" <=> sent = "none")
    BY <2>1 DEF SentSet, Outcome, SentStatuses
  <2>. HIDE Fields DEF IInv
  <2>. QED
    BY <1>1, <2>1, <2>2, RecordSentKept
<1>. QED
  BY <1>2, <1>3

LEMMA FailChecksKept ==
    ASSUME IInv, NEW a \in Agents, FailChecks(a)
    PROVE  IInv'
<1>1. job[a].task = "release" /\ job[a].pc = "found" /\ FailRelease(a)
  BY DEF FailChecks, At
<1>. QED
  BY <1>1, FailReleaseKept

LEMMA StagingThrowsKept ==
    ASSUME IInv, NEW a \in Agents, StagingThrows(a)
    PROVE  IInv'
<1>. USE Fields DEF IInv
<1>1. job[a].task = "release" /\ job[a].pc = "found" /\ sub' = Unclaimed /\ End(a)
      /\ wake' \in BOOLEAN
      /\ UNCHANGED <<form, due, sent, filed, draft, row, paused, hist>>
  BY DEF StagingThrows, At
<1>2. faults' \in 0..MaxFaults
  BY Bounds DEF StagingThrows, Fault, TypeOK
<1>3. row.status = "none"
  BY <1>1 DEF Leases, Starting
<1>. HIDE Fields DEF IInv
<1>. QED
  BY <1>1, <1>2, <1>3, UnclaimKept

\* A release that stopped is settled by what its row says.
LEMMA SettleReleasingKept ==
    ASSUME IInv, SettleReleasing
    PROVE  IInv'
<1>. USE Fields DEF IInv
<1>1. job["cron"].task = "settle" /\ End("cron") /\ "cron" \in Agents
      /\ UNCHANGED <<form, due, filed, draft, wake, paused, hist, faults>>
  BY DEF SettleReleasing, At, Agents
<1>2. CASE Seen("none")
  <2>1. sub' = Unclaimed /\ UNCHANGED <<sent, row>> /\ row.status = "none"
    BY <1>1, <1>2 DEF SettleReleasing, Stages, Seen
  <2>2. wake' \in BOOLEAN /\ faults' \in 0..MaxFaults
    BY <1>1 DEF TypeOK
  <2>. QED
    BY <1>1, <2>1, <2>2, UnclaimKept
<1>3. CASE ~Seen("none")
  <2>1. sent' = SentSet(Settled) /\ sub' = Accepted /\ row' = ConfirmedRow
    BY <1>3 DEF SettleReleasing
  <2>2. sent' \in SentStatuses /\ (sent' = "none" <=> sent = "none")
    BY <2>1 DEF SentSet, Settled, SentStatuses
  <2>. QED
    BY <1>1, <2>1, <2>2, RecordSentKept
<1>. QED
  BY <1>2, <1>3

\* The pause, or a bounced address, answers an attempt.
LEMMA WithholdKept ==
    ASSUME IInv, NEW a \in Agents, Withhold(a)
    PROVE  IInv'
<1>1. PICK ans \in {"held", "suppressed"} : Answer(a, ans)
  BY DEF Withhold
<1>. QED
  BY <1>1, WithheldKept DEF Withhold

\* The provider's answer, or none.
LEMMA TransportKept ==
    ASSUME IInv, NEW a \in Agents, Transport(a)
    PROVE  IInv'
<1>1. PICK ans \in {"accepted", "transient", "permanent"}, lost \in BOOLEAN :
        /\ lost => ans = "transient" /\ Fault
        /\ ~lost => UNCHANGED faults
        /\ Answer(a, ans)
        /\ hist' = [hist EXCEPT
             !.delivered = IF ans = "accepted" \/ lost THEN @ + 1 ELSE @,
             !.lost = IF lost THEN @ + 1 ELSE @]
  BY DEF Transport
<1>. DEFINE d == IF ans = "accepted" \/ lost THEN 1 ELSE 0
            l == IF lost THEN 1 ELSE 0
<1>2. d \in {0, 1} /\ l \in {0, 1} /\ l <= d /\ (ans = "accepted" <=> d > l)
  BY <1>1
<1>3. hist' = [hist EXCEPT !.delivered = @ + d, !.lost = @ + l]
  <2>1. hist \in HistType
    BY DEF IInv, TypeOK
  <2>2. hist.delivered \in Nat /\ hist.lost \in Nat
    BY <2>1 DEF HistType
  <2>3. /\ hist.delivered + d = IF ans = "accepted" \/ lost THEN hist.delivered + 1 ELSE hist.delivered
        /\ hist.lost + l = IF lost THEN hist.lost + 1 ELSE hist.lost
    BY <2>2
  <2>4. hist' = [hist EXCEPT
          !.delivered = IF ans = "accepted" \/ lost THEN hist.delivered + 1 ELSE hist.delivered,
          !.lost = IF lost THEN hist.lost + 1 ELSE hist.lost]
    BY <1>1, <2>1 DEF HistType
  <2>5. hist' = [hist EXCEPT !.delivered = hist.delivered + d, !.lost = hist.lost + l]
    BY <2>3, <2>4
  <2>. HIDE DEF d, l
  <2>. QED
    BY <2>1, <2>5 DEF HistType
<1>4. faults' \in 0..MaxFaults
  BY <1>1, Bounds DEF Fault, IInv, TypeOK
<1>5. /\ job[a].pc = "calling" /\ Answer(a, ans)
      /\ UNCHANGED <<form, sub, due, sent, filed, draft, row, wake, paused>>
  BY <1>1 DEF Transport
<1>. HIDE DEF d, l
<1>. QED
  BY <1>2, <1>3, <1>4, <1>5, TransportedKept

\* The recovery accepts what the outbox, or the Sent row, tells it of.
LEMMA AcceptClaimedKept ==
    ASSUME IInv, AcceptClaimed
    PROVE  IInv'
<1>1. sub.state = "claimed" /\ sub \in SubType
  BY DEF AcceptClaimed, At, IInv, Stages, TypeOK
<1>2. sub' = [sub EXCEPT !.state = "accepted"]
  BY <1>1 DEF AcceptClaimed, SubType
<1>3. At("cron", "recover", "recorded") \/ (At("cron", "recover", "read") /\ Known)
  BY DEF AcceptClaimed
<1>4. UNCHANGED <<form, due, sent, filed, draft, row, wake, paused, hist, faults>>
  BY DEF AcceptClaimed
<1>5. CASE Known
  <2>1. End("cron")
    BY <1>5 DEF AcceptClaimed
  <2>2. "none" \in {"none", "recover"} /\ "idle" \in Points
    BY DEF Points
  <2>. QED
    BY <1>2, <1>3, <1>4, <2>1, <2>2, ClaimedAcceptedKept
<1>6. CASE ~Known
  <2>1. Go("cron", "accepted")
    BY <1>6 DEF AcceptClaimed
  <2>2. "recover" \in {"none", "recover"} /\ "accepted" \in Points
    BY DEF Points
  <2>. QED
    BY <1>2, <1>3, <1>4, <2>1, <2>2, ClaimedAcceptedKept
<1>. QED
  BY <1>5, <1>6

\* A retry claims its row, or finds that it is no longer due.
LEMMA ClaimRowKept ==
    ASSUME IInv, NEW a \in Agents, ClaimRow(a)
    PROVE  IInv'
<1>1. CASE Due
  BY <1>1, ClaimedRowKept DEF ClaimRow
<1>2. CASE ~Due
  <2>. USE Fields DEF IInv
  <2>1. /\ job[a].pc = "claimed" /\ job[a].task = "retry" /\ End(a)
        /\ UNCHANGED <<form, sub, due, sent, filed, draft, row, wake, paused, hist, faults>>
    BY <1>2 DEF ClaimRow, At
  <2>2. Becomes(a, "none", "idle", "none", "none")
    BY <2>1, JobMoves
  <2>3. Fits(a, "none", "idle")
    BY DEF Fits, Agents
  <2>4. Shape'
    BY <2>2, <2>3, ShapeKept
  <2>5. Calm /\ Aside(a)
    BY <2>1, <2>2 DEF Calm, Aside, Becomes, Told
  <2>6. TypeOK'
    BY <2>1, <2>2 DEF TypeOK, Becomes
  <2>7. Places'
    BY <2>1, <2>2, OneMoves DEF Places, At, Agents
  <2>. QED
    BY <2>4, <2>5, <2>6, <2>7, AsideStep
<1>. QED
  BY <1>1, <1>2

\* A retry writes what came of its attempt.
LEMMA FirstWriteKept ==
    ASSUME IInv, NEW a \in Agents, FirstWrite(a)
    PROVE  IInv'
<1>. DEFINE ans == IF job[a].answer = "transient" /\ ~Retries(a) THEN "permanent" ELSE job[a].answer
<1>1. /\ TypeOK
      /\ At(a, "retry", "answered")
      /\ job \in [Agents -> JobType]
      /\ job[a].answer \in Answers
  BY Fields DEF IInv, FirstWrite
<1>2. ans \in Answers /\ (ans = "accepted" <=> job[a].answer = "accepted")
  BY <1>1 DEF Answers
<1>3. job' = [job EXCEPT ![a].pc = "written", ![a].answer = ans]
  <2>1. job' = [job EXCEPT ![a] = [job[a] EXCEPT !.pc = "written", !.answer = ans]]
    BY <1>1 DEF FirstWrite, JobType
  <2>. HIDE DEF ans
  <2>. QED
    BY <1>1, <2>1 DEF JobType
<1>4. UNCHANGED <<form, sub, due, filed, draft, wake, paused, hist, faults>>
  BY DEF FirstWrite
<1>5. CASE job[a].answer = "accepted"
  <2>1. sent' = SentSet("sent") /\ row' = row
    BY <1>5 DEF FirstWrite, Retries
  <2>2. sent' \in SentStatuses /\ (sent' = "none" <=> sent = "none")
    BY <2>1 DEF SentSet, SentStatuses
  <2>3. RowBecomes(row.status, row.wait)
    BY <1>1, <2>1, RowSteps
  <2>4. row.wait \in {0, row.wait} /\ row.status \in {row.status, "none", "failed"}
    OBVIOUS
  <2>. HIDE DEF ans
  <2>. QED
    BY <1>1, <1>2, <1>3, <1>4, <1>5, <2>1, <2>2, <2>3, <2>4, RowWrittenKept
<1>6. CASE job[a].answer # "accepted"
  <2>1. PICK r \in {row.status, "none", "failed"} :
          RowBecomes(r, 0) /\ sent' = sent /\ (row.status = "none" => r = "none")
    <3>1. CASE job[a].answer = "suppressed"
      <4>1. row' = NoRow /\ sent' = sent
        BY <3>1 DEF FirstWrite, Retries
      <4>. QED
        BY <1>1, <4>1, RowSteps
    <3>2. CASE job[a].answer # "suppressed" /\ Retries(a)
      <4>1. row' = RowSet(Rearmed(a)) /\ sent' = sent
        BY <1>6, <3>2 DEF FirstWrite
      <4>. QED
        BY <1>1, <4>1, RowSteps
    <3>3. CASE job[a].answer # "suppressed" /\ ~Retries(a)
      <4>1. row' = RowSet(FailedRow) /\ sent' = sent
        BY <1>6, <3>3 DEF FirstWrite
      <4>. QED
        BY <1>1, <4>1, RowSteps
    <3>. QED
      BY <3>1, <3>2, <3>3
  <2>2. sent' \in SentStatuses /\ (sent' = "none" <=> sent = "none")
    BY <1>1, <2>1 DEF TypeOK
  <2>3. 0 \in {0, row.wait}
    OBVIOUS
  <2>. HIDE DEF ans
  <2>. QED
    BY <1>1, <1>2, <1>3, <1>4, <1>6, <2>1, <2>2, <2>3, RowWrittenKept
<1>. QED
  BY <1>5, <1>6

-----------------------------------------------------------------------------
(* The invariant.                                                          *)

\* Nothing has been asked for at the start.
LEMMA InitIInv ==
    ASSUME Init
    PROVE  IInv
<1>1. /\ form \in FormType /\ sub \in SubType /\ row \in RowType /\ hist \in HistType
      /\ due \in -Grace..Delay /\ faults \in 0..MaxFaults
  BY Bounds DEF Init, SubType, States, RowType, RowStatuses, NoRow, HistType
<1>2. job \in [Agents -> JobType]
  BY DEF Init, Idle, JobType, Tasks, Points, Answers, States
<1>3. TypeOK
  BY <1>1, <1>2 DEF Init, TypeOK, SentStatuses
<1>4. \A a \in Agents : /\ job[a].task = "none" /\ job[a].answer = "none"
                        /\ job[a].pc = IF a = "request" THEN "new" ELSE "idle"
  BY DEF Init, Idle
<1>5. Shape
  BY <1>4 DEF Shape, Fits
<1>6. \A a \in Agents : ~Holder(a) /\ ~Told(a) /\ ~Starting(a)
  BY <1>4 DEF Holder, Told, Starting
<1>7. sub.state = "none" /\ sub.undo = "final" /\ sub.age = 0 /\ (form.delayed => due > 0)
      /\ row.status = "none" /\ Clean /\ hist.delivered = 0 /\ hist.lost = 0
      /\ sent = "none" /\ ~filed /\ draft = "free"
  BY Bounds DEF Init, NoRow, Clean
<1>8. Stages
  BY <1>4, <1>7 DEF Stages, At, Agents
<1>9. Leases /\ Counts
  BY <1>4, <1>6, <1>7 DEF Leases, Counts
<1>10. Places
  BY <1>4, <1>7 DEF Places, At, Agents
<1>. QED
  BY <1>3, <1>5, <1>8, <1>9, <1>10 DEF IInv

\* Every step of every agent keeps the invariant.
LEMMA NextIInv ==
    ASSUME IInv, [Next]_vars
    PROVE  IInv'
<1>1. ASSUME Request PROVE IInv'
  BY <1>1, CreateKept, ScheduleKept, ScheduleThrowsKept, UndoScheduleKept, GiveUpKept,
     RecordAcceptedKept DEF Request
<1>2. ASSUME Recover PROVE IInv'
  BY <1>2, ReadClaimedKept, RecordClaimedKept, AcceptClaimedKept, ConfirmClaimedKept,
     AbandonSentKept, AbandonRowKept, AbandonSubmissionKept, ReleaseClaimKept, ReadReleasingKept,
     SettleReleasingKept DEF Recover
<1>3. ASSUME Hourly PROVE IInv'
  BY <1>2, <1>3, ReleaseKept, ListDueKept, ReleaseAppliedKept, UnlockQueuedKept DEF Hourly
<1>4. ASSUME User PROVE IInv'
  BY <1>4, ReviveKept, DiscardKept, CancelKept, ClientMoveKept, DeleteKept, EraseKept DEF User
<1>5. ASSUME NEW a \in Agents, Send(a) \/ SendThrows(a) PROVE IInv'
  BY <1>5, WriteAheadKept, WithholdKept, TransportKept, ResolveKept, ThrewKept, CallThrowsKept,
     ResolveThrowsKept, StagingThrowsKept DEF Send, SendThrows
<1>6. ASSUME NEW a \in Agents, Die(a) \/ Release(a) \/ FailChecks(a) PROVE IInv'
  BY <1>6, DieKept, LookForSentKept, CancelMissingKept, RecordReleaseKept, FailChecksKept DEF
     Release
<1>7. ASSUME NEW a \in Agents, Retry(a) \/ Restore(a) PROVE IInv'
  BY <1>7, ClaimRowKept, FirstWriteKept, SecondWriteKept, MoveKept, CheckMoveKept DEF Retry,
     Restore
<1>8. ASSUME NEW a \in Agents, Step(a) PROVE IInv'
  BY <1>8, SelectStepKept, EnsureKept, RecreateKept, SettleDeletedKept, FileKept, RevealKept DEF
     Step
<1>9. ASSUME UNCHANGED vars PROVE IInv'
  <2>. USE <1>9 DEF vars
  <2>1. TypeOK' /\ Shape' /\ Stages'
    BY DEF IInv, TypeOK, Shape, Stages, At
  <2>2. \A a \in Agents : (Holder(a)' <=> Holder(a)) /\ (Told(a)' <=> Told(a))
                          /\ (Starting(a)' <=> Starting(a))
    BY DEF Holder, Told, Starting
  <2>3. Leases' /\ Counts'
    BY <2>2 DEF IInv, Leases, Counts, Unsent, Over, Clean
  <2>4. Places'
    BY DEF IInv, Places, At
  <2>. QED
    BY <2>1, <2>3, <2>4 DEF IInv
<1>. QED
  BY <1>1, <1>3, <1>4, <1>5, <1>6, <1>7, <1>8, <1>9, ReleaseKept, RestoreOwedKept, SetPauseKept,
     TickKept DEF Next

\* Every step keeps the invariant.
LEMMA Invariance == Spec => []IInv
BY InitIInv, NextIInv, PTL DEF Spec

-----------------------------------------------------------------------------
(* What a run sends.                                                       *)

\* A submission goes out once, and once canceled not at all: the row's lease,
\* the claim of a release and the age the recovery waits for keep the senders
\* apart (lib/outbox.ts, jmap/lib/submissions.ts).
THEOREM SentOnceAlways == Spec => []SentOnce
<1>1. ASSUME IInv PROVE SentOnce
  <2>. USE <1>1, Fields DEF IInv
  <2>1. \A a \in Agents : Sending(a) => Holder(a)
    BY DEF Sending, Holder
  <2>2. OneSender
    BY <2>1 DEF OneSender, Leases
  <2>3. NoDuplicate
    BY DEF NoDuplicate, Counts
  <2>4. sub.undo = "canceled" => Unsent
    BY DEF Stages, Unsent
  <2>5. CanceledStaysHome
    BY <2>1, <2>4 DEF CanceledStaysHome, Leases, Clean
  <2>. QED
    BY <2>2, <2>3, <2>5 DEF SentOnce
<1>. QED
  BY <1>1, Invariance, PTL

\* The Email is in Drafts or in Sent, and never in neither: the draft goes in the
\* batch that files it, and comes back in the one that deletes the Sent row
\* (jmap/lib/submissions.ts, jmap/methods/email-set.ts).
THEOREM EmailKeptAlways == Spec => []EmailKept
<1>1. ASSUME IInv PROVE EmailKept
  BY <1>1 DEF IInv, Places, EmailKept
<1>. QED
  BY <1>1, Invariance, PTL

-----------------------------------------------------------------------------
(* Submissions: what the draft and the Sent row say, an invariant of its   *)
(* own over the one above.  The first four parts hold always; Calls, of a  *)
(* submission that no two runs worked on at once and nobody deleted.       *)

\* What a provider has said, and that an acceptance is a delivery.
Heard ==
    /\ \A a \in Agents :
         /\ job[a].pc \in {"answered", "resolved"} =>
              \/ job[a].answer \in {"accepted", "transient", "permanent", "held"}
              \/ job[a].task = "retry" /\ job[a].answer = "suppressed"
         /\ job[a].pc = "written" => job[a].answer # "none"
         /\ job[a].pc \in {"answered", "resolved", "written"} /\ job[a].answer = "accepted" =>
              hist.delivered > 0
    /\ row.status = "bookkeeping_pending" => hist.delivered > 0

\* What the recovery read of the outbox row and may still count on.
Recovers ==
    job["cron"].task = "recover" =>
        /\ job["cron"].pc \in {"recorded", "accepted"} =>
             Seen("pending") \/ Seen("bookkeeping_pending")
        /\ job["cron"].pc = "accepted" => sub.age = RecoveryAge
        /\ job["cron"].pc \in {"read", "recorded", "accepted"} /\ Seen("bookkeeping_pending") =>
             row.status = "bookkeeping_pending"
        /\ job["cron"].pc = "read" /\ Seen("none") => row.status = "none"
        /\ job["cron"].pc \in {"erased", "dropped"} => sent = "none"

\* While nobody revived the row by hand: who is at the provider has a row, and
\* a submission that is dropped or refused has none to try.
ByItself ==
    ~hist.revived =>
        /\ job["user"].task = "retry" => job["user"].pc = "written"
        /\ \A a \in Agents : Sending(a) => row.status = "pending"
        /\ At("cron", "recover", "dropped") \/ sub.state = "gone" => row.status # "pending"
        /\ At("request", "send", "resolved") /\ ~OnItsWay("request") =>
             row.status \in {"failed", "none"}

\* A draft is locked for as long as its send has a row to try: by its request,
\* by the recovery that is about to queue it, or queued.
Locks ==
    /\ sub.state = "claimed" => draft = "submitting"
    /\ At("request", "send", "resolved") /\ job["request"].answer = "accepted" =>
         row.status = "bookkeeping_pending"
    /\ ~form.delayed /\ ~hist.revived /\ ~hist.unlocked /\ row.status = "pending" =>
         /\ draft # "free"
         /\ sub.state = "accepted" /\ draft = "submitting" =>
              At("cron", "recover", "accepted") /\ Seen("pending")

\* Only the recovery writes the Sent row of a submission before its state.
Early ==
    /\ sub.state = "none" => sent = "none"
    /\ sub.state = "claimed" /\ sent # "none" => sub.age = RecoveryAge

\* Nobody deleted the message, and no two runs were at its row at once.
Undisturbed == ~hist.raced /\ hist.erased = "no"

\* A retry that has taken the row.
Mid(a) == job[a].task = "retry" /\ job[a].pc \in {"calling", "answered", "written"}

\* A run that settles the submission by what it read of the row.
Busy(a) ==
    \/ job[a].task \in {"send", "schedule", "release", "settle"}
    \/ job[a].task = "recover" /\ job[a].pc \in {"read", "recorded", "erased", "dropped"}

\* Retries and such runs are apart.
Apart ==
    /\ \A a, b \in Agents : Mid(a) /\ Mid(b) => a = b
    /\ \A a, b \in Agents : Mid(a) => ~Busy(b)
    /\ \A a \in Agents : Mid(a) => job[a].pc = "written" \/ row.status = "pending"
    /\ Unsent => \A a \in Agents : ~Mid(a)

\* What such a run read of the row, or wrote to it, is what it says.
Reads ==
    /\ \/ job["cron"].task = "settle"
       \/ job["cron"].task = "recover" /\ job["cron"].pc \in {"read", "recorded"}
       => Seen(row.status)
    /\ \A a \in Agents : job[a].pc = "resolved" => row.status = Resolved(job[a].answer).status

\* What the first write of a retry left.
WrittenTells(a) ==
    job[a].pc = "written" =>
        CASE job[a].answer = "accepted" ->
               /\ row.status = "pending"
               /\ sub.state \in {"claimed", "accepted"} /\ sent # "none" => sent = "sent"
          [] job[a].answer \in {"transient", "held"} -> row.status = "pending"
          [] OTHER -> row.status \in {"none", "failed"} /\ Clean

\* The Sent row says what the outbox has.
Tells ==
    CASE sent = "retrying" -> row.status = "pending"
      [] sent = "failed" -> \/ row.status \in {"none", "failed"} /\ Clean
                            \/ row.status = "pending" /\ hist.revived
      [] sent = "sent" -> row.status \in {"none", "bookkeeping_pending"} /\ hist.delivered > 0
      [] OTHER -> FALSE

\* And does so once the message is accepted, but between the two writes of a
\* retry.
Story ==
    /\ sub.state \in {"claimed", "accepted"} /\ sent # "none"
    /\ \A a \in Agents : job[a].pc # "written"
    => Tells

\* A message without its Sent row was not accepted, and a release of it has
\* sent nothing.
Shown ==
    sent = "none" =>
        /\ sub.state # "accepted"
        /\ ~At("cron", "recover", "recorded")
        /\ sub.state = "releasing" =>
             /\ row.status = "none"
             /\ \A a \in Agents : job[a].task = "release" => job[a].pc \in {"claimed", "missing"}

Calls == Undisturbed => Apart /\ Reads /\ (\A a \in Agents : WrittenTells(a)) /\ Story /\ Shown

TInv == IInv /\ Heard /\ Recovers /\ ByItself /\ Locks /\ Early /\ Calls

\* It is what the author is promised.
LEMMA TInvTells == ASSUME TInv PROVE StatesTell
<1>. USE Fields DEF TInv, IInv
<1>1. FreeMeansSettled
  BY DEF FreeMeansSettled, InFlightLocked, Locks, ByItself
<1>2. SentTells
  <2>1. SUFFICES ASSUME sub.state = "accepted", sent # "none", Undisturbed,
                        \A a \in Agents : IsIdle(a)
                 PROVE  Tells /\ (row.status = "pending" => Clean)
    BY DEF SentTells, Undisturbed, Tells, Clean
  <2>2. Story /\ \A a \in Agents : job[a].pc # "written" /\ ~Told(a)
    BY <2>1 DEF Calls, IsIdle, Told
  <2>. QED
    BY <2>1, <2>2 DEF Story, Counts
<1>. QED
  BY <1>1, <1>2 DEF StatesTell

\* The flags of the history, but for the race and the revival.
FlagsStay == (hist'.unlocked <=> hist.unlocked) /\ hist'.erased = hist.erased

\* What becomes of the flags of the history.
LEMMA FlagMoves ==
    ASSUME hist \in HistType
    PROVE  /\ \/ hist' = hist
              \/ \E d, l : hist' = [hist EXCEPT !.delivered = d, !.lost = l]
              \/ \E l : hist' = [hist EXCEPT !.lost = l]
              => FlagsStay /\ (hist'.raced <=> hist.raced) /\ (hist'.revived <=> hist.revived)
           /\ \A a \in Agents :
                /\ hist' = Raced(a) \/ hist' = [Raced(a) EXCEPT !.discarded = TRUE] =>
                     /\ FlagsStay /\ (hist'.revived <=> hist.revived)
                     /\ hist'.raced <=> (hist.raced \/ Pending(a))
                /\ hist' = [Raced(a) EXCEPT !.revived = TRUE] =>
                     FlagsStay /\ hist'.revived /\ (hist'.raced <=> (hist.raced \/ Pending(a)))
           /\ hist' = [hist EXCEPT !.raced = @ \/ Attempting] =>
                /\ FlagsStay /\ (hist'.revived <=> hist.revived)
                /\ hist'.raced <=> (hist.raced \/ Attempting)
<1>1. \/ hist' = hist
      \/ \E d, l : hist' = [hist EXCEPT !.delivered = d, !.lost = l]
      \/ \E l : hist' = [hist EXCEPT !.lost = l]
      => FlagsStay /\ (hist'.raced <=> hist.raced) /\ (hist'.revived <=> hist.revived)
  BY DEF FlagsStay, HistType
<1>2. ASSUME NEW r \in BOOLEAN
      PROVE  /\ hist' = [hist EXCEPT !.raced = r]
                \/ hist' = [[hist EXCEPT !.raced = r] EXCEPT !.discarded = TRUE]
                => FlagsStay /\ (hist'.revived <=> hist.revived) /\ (hist'.raced <=> r)
             /\ hist' = [[hist EXCEPT !.raced = r] EXCEPT !.revived = TRUE]
                => FlagsStay /\ hist'.revived /\ (hist'.raced <=> r)
  BY DEF FlagsStay, HistType
<1>3. ASSUME NEW a \in Agents
      PROVE  \E r \in BOOLEAN : /\ r <=> (hist.raced \/ Pending(a))
                              /\ Raced(a) = [hist EXCEPT !.raced = r]
  <2>. DEFINE r == hist.raced \/ Pending(a)
  <2>1. r \in BOOLEAN /\ Raced(a) = [hist EXCEPT !.raced = r]
    BY DEF Raced
  <2>. QED
    BY <2>1
<1>4. \E r \in BOOLEAN : (r <=> (hist.raced \/ Attempting))
                         /\ [hist EXCEPT !.raced = @ \/ Attempting] = [hist EXCEPT !.raced = r]
  <2>. DEFINE r == hist.raced \/ Attempting
  <2>1. r \in BOOLEAN /\ [hist EXCEPT !.raced = @ \/ Attempting] = [hist EXCEPT !.raced = r]
    OBVIOUS
  <2>. QED
    BY <2>1
<1>5. ASSUME NEW a \in Agents
      PROVE  /\ hist' = Raced(a) \/ hist' = [Raced(a) EXCEPT !.discarded = TRUE] =>
                  /\ FlagsStay /\ (hist'.revived <=> hist.revived)
                  /\ hist'.raced <=> (hist.raced \/ Pending(a))
             /\ hist' = [Raced(a) EXCEPT !.revived = TRUE] =>
                  FlagsStay /\ hist'.revived /\ (hist'.raced <=> (hist.raced \/ Pending(a)))
  BY <1>2, <1>3
<1>6. hist' = [hist EXCEPT !.raced = @ \/ Attempting] =>
        /\ FlagsStay /\ (hist'.revived <=> hist.revived)
        /\ hist'.raced <=> (hist.raced \/ Attempting)
  BY <1>2, <1>4
<1>. QED
  BY <1>1, <1>5, <1>6

\* A run that has nothing to do with the send, or has yet to take its row up.
Outside(a) ==
    \/ job[a].task \in {"none", "step", "restore", "delete"}
    \/ At(a, "retry", "claimed") /\ (a = "cron" \/ hist.revived)
    \/ At(a, "recover", "abandon")

\* A step of such a run, that leaves the send as it is.
Quiet(a) ==
    /\ Outside(a) /\ Outside(a)'
    /\ \A b \in Agents \ {a} : job'[b] = job[b]
    /\ sub'.state = sub.state /\ sub'.age = sub.age /\ row' = row /\ form' = form
    /\ hist'.delivered = hist.delivered /\ hist'.lost = hist.lost
    /\ (hist'.revived <=> hist.revived) /\ (hist.raced => hist'.raced)
    /\ hist.erased # "no" => hist'.erased # "no"
    /\ \/ sent' = sent
       \/ sent' = "none" /\ (hist'.erased # "no" \/ sub.state \in {"scheduled", "gone"})
       \/ /\ sent' # "none" /\ sub.state \notin {"none", "claimed"}
          /\ Undisturbed => sub.state # "accepted"

\* Such a step keeps the invariant, if it leaves the draft's lock right.
LEMMA QuietStep ==
    ASSUME TInv, IInv', NEW a \in Agents, Quiet(a), Locks'
    PROVE  TInv'
<1>. USE Fields DEF TInv, IInv
<1>0. Shape /\ Shape' /\ {"cron", "user", "request", "queue"} \subseteq Agents
  BY DEF Agents
<1>1. /\ Fits(a, job[a].task, job[a].pc) /\ Fits(a, job'[a].task, job'[a].pc)
  BY <1>0 DEF Shape
<1>2. /\ job[a].pc \notin {"answered", "resolved", "written", "calling"}
      /\ job'[a].pc \notin {"answered", "resolved", "written", "calling"}
  BY <1>1 DEF Outside, Fits, Quiet, At
<1>3. Heard'
  BY <1>2 DEF Heard, Quiet
<1>4. Recovers'
  BY <1>0, <1>2 DEF Recovers, Quiet, Outside, At, Seen, Stages
<1>5. ByItself'
  BY <1>0, <1>1, <1>2 DEF ByItself, Quiet, Outside, At, Sending, OnItsWay, Fits
<1>6. Early'
  BY DEF Early, Quiet
<1>7. ASSUME Undisturbed'
      PROVE  Apart' /\ Reads' /\ (\A b \in Agents : WrittenTells(b)') /\ Story' /\ Shown'
  <2>1. Undisturbed /\ Apart /\ Reads /\ (\A b \in Agents : WrittenTells(b)) /\ Story /\ Shown
    BY <1>7 DEF Undisturbed, Quiet, Calls
  <2>2. ~Mid(a) /\ ~Mid(a)' /\ ~Busy(a) /\ ~Busy(a)'
    BY <1>2 DEF Mid, Busy, Quiet, Outside, At
  <2>3. Apart'
    BY <2>1, <2>2 DEF Apart, Quiet, Mid, Busy, Unsent
  <2>4. Reads'
    BY <2>1, <1>0, <1>2 DEF Reads, Quiet, Outside, At, Seen
  <2>5. \/ sent' = sent
        \/ sent' = "none" /\ sub.state \in {"scheduled", "gone"}
        \/ sent' # "none" /\ sub.state \notin {"none", "claimed", "accepted"}
    BY <2>1, <1>7 DEF Quiet, Undisturbed
  <2>6. \A b \in Agents : WrittenTells(b)'
    BY <2>1, <2>5, <1>2 DEF WrittenTells, Quiet, Clean
  <2>7. Story'
    BY <2>1, <2>5, <1>2 DEF Story, Tells, Quiet, Clean
  <2>8. Shown'
    BY <2>1, <2>5, <1>0, <1>2 DEF Shown, Quiet, Outside, At, Stages
  <2>. QED
    BY <2>3, <2>4, <2>6, <2>7, <2>8
<1>8. Calls'
  BY <1>7 DEF Calls
<1>. QED
  BY <1>3, <1>4, <1>5, <1>6, <1>8

\* A run on its own side stays there when it moves within such a task, or ends.
Strolls(a) ==
    /\ \A b \in Agents \ {a} : job'[b] = job[b]
    /\ job'[a].task \in {"none", "step", "restore", "delete"}

\* The moves of a run within such a task.
LEMMA StrollMoves ==
    ASSUME job \in [Agents -> JobType], NEW a \in Agents
    PROVE  /\ \A p \in Points :
                Go(a, p) /\ job[a].task \in {"none", "step", "restore", "delete"} => Strolls(a)
           /\ \A t \in {"none", "step", "restore", "delete"}, p \in Points :
                Begin(a, t, p) => Strolls(a)
           /\ End(a) => Strolls(a)
           /\ \A j \in JobType :
                job' = [job EXCEPT ![a] = j] /\ j.task \in {"none", "step"} => Strolls(a)
<1>1. \A p \in Points :
         Go(a, p) /\ job[a].task \in {"none", "step", "restore", "delete"} => Strolls(a)
  BY JobMoves DEF Becomes, Strolls
<1>2. ASSUME NEW t \in {"none", "step", "restore", "delete"}, NEW p \in Points, Begin(a, t, p)
      PROVE  Strolls(a)
  <2>1. Becomes(a, t, p, "none", "none")
    BY <1>2, JobMoves DEF Tasks
  <2>. QED
    BY <2>1 DEF Becomes, Strolls
<1>3. End(a) => Strolls(a)
  BY JobMoves DEF Becomes, Strolls
<1>4. \A j \in JobType : job' = [job EXCEPT ![a] = j] /\ j.task \in {"none", "step"} => Strolls(a)
  BY DEF Strolls
<1>. QED
  BY <1>1, <1>2, <1>3, <1>4

\* The on-success step and what its owner does.
LEMMA StepsTell ==
    ASSUME TInv, NEW a \in Agents,
           SelectStep(a) \/ Ensure(a) \/ Recreate(a) \/ SettleDeleted(a) \/ File(a)
    PROVE  TInv'
<1>. USE Fields DEF TInv, IInv
<1>1. IInv'
  BY SelectStepKept, EnsureKept, RecreateKept, SettleDeletedKept, FileKept
<1>2. Shape /\ {"cron", "user", "request", "queue"} \subseteq Agents /\ hist' = hist
  BY DEF Agents, SelectStep, Ensure, Recreate, SettleDeleted, File
<1>3. /\ Outside(a)
      /\ (job[a].task = "step" \/ SelectStep(a))
      /\ (At(a, "step", "ready") \/ a = "cron" \/ ~SelectStep(a))
  BY <1>2 DEF Outside, SelectStep, Ensure, Recreate, SettleDeleted, File, At, IsIdle, Shape, Fits
<1>4. Strolls(a)
  <2>1. CASE SelectStep(a)
    <3>. DEFINE j == IF StepOwed
                     THEN [Idle EXCEPT !.task = "step", !.pc = "selected", !.seen = sub.state]
                     ELSE Idle
    <3>1. job' = [job EXCEPT ![a] = j]
      BY <2>1 DEF SelectStep
    <3>2. j \in JobType /\ j.task \in {"none", "step"}
      BY DEF Idle, JobType, Tasks, Points, Answers, States
    <3>. HIDE DEF j
    <3>. QED
      BY <3>1, <3>2, StrollMoves
  <2>2. CASE Ensure(a)
    <3>1. job[a].task = "step" /\ job[a] \in JobType /\ Repaired(job[a].seen) \in SentStatuses
      BY <2>2 DEF Ensure, At, Repaired, SentStatuses
    <3>2. \A p \in Points, s \in SentStatuses :
             /\ [job[a] EXCEPT !.pc = p] \in JobType /\ [job[a] EXCEPT !.pc = p].task = "step"
             /\ [job[a] EXCEPT !.pc = p, !.seen = s] \in JobType
             /\ [job[a] EXCEPT !.pc = p, !.seen = s].task = "step"
      BY <3>1 DEF JobType
    <3>3. \E j \in JobType : job' = [job EXCEPT ![a] = j] /\ j.task = "step"
      BY <2>2, <3>1, <3>2 DEF Ensure, Points
    <3>. QED
      BY <3>3, StrollMoves
  <2>3. CASE Recreate(a) \/ SettleDeleted(a) \/ File(a)
    BY <2>3, StrollMoves DEF Recreate, SettleDeleted, File, At, Points
  <2>. QED
    BY <2>1, <2>2, <2>3
<1>5. /\ sub'.state = sub.state /\ sub'.age = sub.age /\ row' = row /\ form' = form
      /\ sub.state \notin {"claimed", "none"} \/ draft' = draft
  BY DEF SelectStep, Ensure, Recreate, SettleDeleted, File, SubType, Places, At
<1>6. \/ sent' = sent
      \/ /\ sent' # "none" /\ sub.state \notin {"none", "claimed"}
         /\ Undisturbed => sub.state # "accepted"
  BY DEF SelectStep, Ensure, Recreate, SettleDeleted, File, Places, Calls, Shown, At
<1>7. Quiet(a)
  BY <1>2, <1>3, <1>4, <1>5, <1>6 DEF Quiet, Strolls, Outside
<1>8. Locks'
  <2>1. draft' = draft \/ (draft' \in {"gone", Unlocked} /\ sub.state # "claimed")
    BY DEF SelectStep, Ensure, Recreate, SettleDeleted, File, Places, At
  <2>2. draft' \in {draft, "gone"} \/ form.delayed
    BY DEF SelectStep, Ensure, Recreate, SettleDeleted, File, Stages, Waiting
  <2>. QED
    BY <1>2, <1>3, <1>4, <1>5, <2>1, <2>2 DEF Locks, Strolls, At, Seen, Outside
<1>. QED
  BY <1>1, <1>7, <1>8, QuietStep

\* Time of the reveal: a request is done before the recovery's age, and the pass
\* that may still have to queue the draft is busy.
LEMMA RevealTells ==
    ASSUME TInv, NEW a \in Agents, Reveal(a)
    PROVE  TInv'
<1>. USE Fields DEF TInv, IInv
<1>1. IInv'
  BY RevealKept
<1>2. Shape /\ {"cron", "user", "request", "queue"} \subseteq Agents
  BY DEF Agents
<1>3. Outside(a) /\ Strolls(a) /\ At(a, "step", "filed") /\ (a = "request" \/ a = "cron")
  BY <1>2, StrollMoves DEF Outside, Reveal, At, Shape, Fits, Agents
<1>4. /\ sub'.state = sub.state /\ sub'.age = sub.age
      /\ UNCHANGED <<row, form, hist, sent>>
      /\ draft' \in {draft, "free"}
      /\ sub.state \notin {"none", "claimed"}
      /\ draft' # draft => draft = "submitting"
  BY DEF Reveal, SubType, Places, At
<1>5. Quiet(a)
  BY <1>2, <1>3, <1>4 DEF Quiet, Strolls, Outside
<1>6. ASSUME ~form.delayed, ~hist.revived, ~hist.unlocked, row.status = "pending"
      PROVE  draft' = draft
  <2>1. sub.state = "accepted"
    BY <1>4, <1>6 DEF ByItself, Stages, States
  <2>2. ~(At("cron", "recover", "accepted"))
    BY <1>2, <1>3, Bounds DEF Recovers, Stages, At
  <2>. QED
    BY <1>4, <1>6, <2>1, <2>2 DEF Locks
<1>7. Locks'
  BY <1>2, <1>3, <1>4, <1>6 DEF Locks, Strolls, At, Seen, Outside
<1>. QED
  BY <1>1, <1>5, <1>7, QuietStep

\* Taking the message back, moving it, deleting it.
LEMMA OwnerTells ==
    ASSUME TInv, NEW a \in Agents,
           \/ a = "user" /\ (Cancel \/ ClientMove \/ Delete \/ Erase)
           \/ a = "cron" /\ (RestoreOwed \/ UnlockQueued)
           \/ Move(a) \/ CheckMove(a)
    PROVE  TInv'
<1>. USE Fields DEF TInv, IInv
<1>1. IInv'
  BY CancelKept, ClientMoveKept, DeleteKept, EraseKept, RestoreOwedKept, UnlockQueuedKept, MoveKept,
     CheckMoveKept
<1>2. Shape /\ {"cron", "user", "request", "queue"} \subseteq Agents
  BY DEF Agents
<1>3. Outside(a) /\ job[a].task \in {"none", "restore", "delete"}
  BY <1>2 DEF Outside, Cancel, ClientMove, Delete, Erase, RestoreOwed, UnlockQueued, Move,
     CheckMove, At, IsIdle, Shape, Fits
<1>4. Strolls(a)
  <2>1. CASE job' = job
    BY <1>3, <2>1 DEF Strolls
  <2>2. CASE job' # job
    BY <1>3, <2>2, StrollMoves
       DEF Cancel, ClientMove, Delete, Erase, RestoreOwed, UnlockQueued, Move,
       CheckMove, At, Points
  <2>. QED
    BY <2>1, <2>2
<1>5. /\ sub'.state = sub.state /\ sub'.age = sub.age /\ row' = row /\ form' = form
      /\ hist'.delivered = hist.delivered /\ hist'.lost = hist.lost
      /\ (hist'.revived <=> hist.revived) /\ (hist.raced <=> hist'.raced)
      /\ (hist'.unlocked <=> hist.unlocked)
      /\ hist.erased # "no" => hist'.erased # "no"
  BY DEF Cancel, ClientMove, Delete, Erase, RestoreOwed, UnlockQueued, Move, Moved, CheckMove,
     SubType, HistType
<1>6. \/ sent' = sent
      \/ sent' = "none" /\ (hist'.erased # "no" \/ sub.state \in {"scheduled", "gone"})
      \/ sent' # "none" /\ sub.state = "scheduled"
  BY DEF Cancel, Cancelable, Waiting, ClientMove, Delete, Erase, RestoreOwed, UnlockQueued, Move,
     Moved, Movable,
     CheckMove, HistType, Stages
<1>7. Quiet(a)
  BY <1>2, <1>3, <1>4, <1>5, <1>6 DEF Quiet, Strolls, Outside
<1>8. Locks'
  <2>1. \/ draft' = draft
        \/ form.delayed /\ sub.state \in {"scheduled", "gone"}
        \/ UnlockQueued
    BY DEF Cancel, ClientMove, Delete, Erase, RestoreOwed, Move, Moved, Movable, CheckMove, Stages
  <2>2. UnlockQueued =>
          (hist.revived \/ row.status # "pending") /\ sub.state # "claimed" /\ draft' = "free"
    BY DEF UnlockQueued, StillLocked, Locks, Leases, Unsent, ByItself
  <2>. QED
    BY <1>2, <1>3, <1>4, <1>5, <2>1, <2>2 DEF Locks, Strolls, At, Seen, Outside
<1>. QED
  BY <1>1, <1>7, <1>8, QuietStep

\* A due row is listed; the draft of a dropped submission is unlocked.
LEMMA PassTells ==
    ASSUME TInv, ListDue \/ ReleaseClaim
    PROVE  TInv'
<1>. USE Fields DEF TInv, IInv
<1>1. IInv'
  BY ListDueKept, ReleaseClaimKept
<1>2. Shape /\ {"cron", "user", "request", "queue"} \subseteq Agents
  BY DEF Agents
<1>3. /\ \A b \in Agents \ {"cron"} : job'[b] = job[b]
      /\ job'["cron"].task = "none" \/ (job'["cron"].task = "retry" /\ job'["cron"].pc = "claimed")
  <2>1. \/ Becomes("cron", "retry", "claimed", "none", "none")
        \/ Becomes("cron", "none", "idle", "none", "none")
    BY <1>2, JobMoves DEF ListDue, ReleaseClaim, Tasks, Points
  <2>. QED
    BY <2>1 DEF Becomes
<1>4. Outside("cron") /\ Outside("cron")'
  BY <1>2, <1>3 DEF Outside, ListDue, ReleaseClaim, At, IsIdle, Shape, Fits
<1>5. UNCHANGED <<sub, row, form, hist, sent>>
  BY DEF ListDue, ReleaseClaim
<1>6. Quiet("cron")
  BY <1>3, <1>4, <1>5 DEF Quiet
<1>7. Locks'
  <2>1. draft' = draft \/ sub.state = "gone"
    BY DEF ListDue, ReleaseClaim, Stages
  <2>. QED
    BY <1>2, <1>3, <1>4, <1>5, <2>1 DEF Locks, At, Seen, Outside, ByItself
<1>. QED
  BY <1>1, <1>2, <1>6, <1>7, QuietStep

\* A step that touches nothing of this.
LEMMA IdleTells ==
    ASSUME TInv, IInv', UNCHANGED <<form, sub, sent, draft, row, job, hist>>
    PROVE  TInv'
<1>1. Heard' /\ Recovers' /\ ByItself' /\ Locks' /\ Early'
  BY DEF TInv, Heard, Recovers, ByItself, Locks, Early, Seen, At, Sending, OnItsWay
<1>2. \A a \in Agents : /\ (Mid(a)' <=> Mid(a)) /\ (Busy(a)' <=> Busy(a))
                        /\ (WrittenTells(a)' <=> WrittenTells(a))
  BY DEF Mid, Busy, WrittenTells, Clean
<1>3. (Undisturbed' <=> Undisturbed) /\ (Unsent' <=> Unsent) /\ (Reads' <=> Reads)
      /\ (Story' <=> Story) /\ (Shown' <=> Shown)
  BY DEF Undisturbed, Unsent, Reads, Seen, Story, Tells, Clean, Shown, At
<1>4. Calls'
  BY <1>2, <1>3 DEF TInv, Calls, Apart
<1>. QED
  BY <1>1, <1>4 DEF TInv

\* A run that dies leaves the rows, and the others, as they are; the next run
\* finds what it had not written, unless it was a retry or a recovery between
\* its two writes.
LEMMA DieTells ==
    ASSUME TInv, NEW a \in Agents, Die(a)
    PROVE  TInv'
<1>. USE Fields DEF TInv, IInv
<1>1. IInv'
  BY DieKept
<1>2. Shape /\ {"cron", "user", "request", "queue"} \subseteq Agents
  BY DEF Agents
<1>3. Becomes(a, "none", "idle", "none", "none")
  BY JobMoves DEF Die
<1>4. /\ hist'.delivered = hist.delivered /\ hist'.lost = hist.lost + LostWith(a)
      /\ hist'.erased = hist.erased /\ (hist'.revived <=> hist.revived)
      /\ hist'.raced <=> (hist.raced \/ At(a, "retry", "written"))
      /\ hist'.unlocked <=> (hist.unlocked \/ (At(a, "recover", "accepted") /\ Seen("pending")))
  <2>1. \E r, u \in BOOLEAN :
          /\ r <=> (hist.raced \/ At(a, "retry", "written"))
          /\ u <=> (hist.unlocked \/ (At(a, "recover", "accepted") /\ Seen("pending")))
          /\ hist' = [hist EXCEPT !.lost = hist.lost + LostWith(a), !.raced = r, !.unlocked = u]
    <3>. DEFINE r == hist.raced \/ At(a, "retry", "written")
                u == hist.unlocked \/ (At(a, "recover", "accepted") /\ Seen("pending"))
    <3>1. r \in BOOLEAN /\ u \in BOOLEAN
      BY DEF HistType
    <3>2. hist' = [hist EXCEPT !.lost = hist.lost + LostWith(a), !.raced = r, !.unlocked = u]
      BY DEF Die, HistType
    <3>. QED
      BY <3>1, <3>2
  <2>. QED
    BY <2>1 DEF HistType
<1>5. UNCHANGED <<form, sub, sent, draft, row>> /\ LostWith(a) \in {0, 1}
  BY DEF Die, LostWith
<1>6. Clean => Clean'
  BY <1>4, <1>5 DEF Clean
<1>7. Heard' /\ Recovers'
  BY <1>2, <1>3, <1>4, <1>5 DEF Heard, Recovers, Becomes, Seen
<1>8. ByItself' /\ Early'
  BY <1>2, <1>3, <1>4, <1>5 DEF ByItself, Early, Becomes, At, Sending, OnItsWay
<1>9. Locks'
  BY <1>2, <1>3, <1>4, <1>5 DEF Locks, Becomes, At, Seen
<1>10. ASSUME Undisturbed'
       PROVE  Apart' /\ Reads' /\ (\A b \in Agents : WrittenTells(b)') /\ Story' /\ Shown'
  <2>1. Undisturbed /\ Apart /\ Reads /\ (\A b \in Agents : WrittenTells(b)) /\ Story /\ Shown
        /\ job[a].pc # "written"
    BY <1>4, <1>10, Whereabouts DEF Undisturbed, Calls, At
  <2>2. \A b \in Agents : (Mid(b)' => Mid(b)) /\ (Busy(b)' => Busy(b))
    BY <1>3 DEF Becomes, Mid, Busy
  <2>3. Apart' /\ Reads'
    BY <2>1, <2>2, <1>2, <1>3, <1>5 DEF Apart, Unsent, Reads, Seen, Becomes
  <2>4. \A b \in Agents : WrittenTells(b)'
    BY <2>1, <1>3, <1>5, <1>6 DEF WrittenTells, Becomes
  <2>5. Story'
    BY <2>1, <1>3, <1>4, <1>5, <1>6 DEF Story, Tells, Becomes
  <2>6. Shown'
    BY <2>1, <1>2, <1>3, <1>5 DEF Shown, At, Becomes
  <2>. QED
    BY <2>3, <2>4, <2>5, <2>6
<1>11. Calls'
  BY <1>10 DEF Calls
<1>. QED
  BY <1>1, <1>7, <1>8, <1>9, <1>11

\* Time passes when nobody is at work.
LEMMA TickTells ==
    ASSUME TInv, Tick
    PROVE  TInv'
<1>. USE Fields DEF TInv, IInv
<1>1. IInv'
  BY TickKept
<1>2. Shape /\ {"cron", "user", "request", "queue"} \subseteq Agents
  BY DEF Agents
<1>3. \A b \in Agents : job[b].pc = "idle" /\ job[b].task = "none"
  BY DEF Tick, IsIdle, Shape, Fits
<1>4. /\ UNCHANGED <<form, sent, draft, job, hist>>
      /\ row'.status = row.status
      /\ sub'.state = sub.state
      /\ sub'.age = Older(sub.age)
  BY DEF Tick, Later, RowType, SubType
<1>5. Heard' /\ Recovers' /\ ByItself' /\ Locks'
  BY <1>2, <1>3, <1>4 DEF Heard, Recovers, ByItself, Locks, At, Sending
<1>6. Early'
  BY <1>4, Bounds DEF Early, Older
<1>7. \A b \in Agents : ~Mid(b)' /\ WrittenTells(b)'
  BY <1>3, <1>4 DEF Mid, WrittenTells
<1>8. Calls'
  BY <1>2, <1>3, <1>4, <1>7 DEF Calls, Undisturbed, Apart, Reads, Story, Tells, Clean, Shown, At
<1>. QED
  BY <1>1, <1>5, <1>6, <1>8

\* A row nobody needs any more goes.
LEMMA ReleaseAppliedTells ==
    ASSUME TInv, ReleaseApplied
    PROVE  TInv'
<1>. USE Fields DEF TInv, IInv
<1>1. IInv'
  BY ReleaseAppliedKept
<1>2. Shape /\ {"cron", "user", "request", "queue"} \subseteq Agents
  BY DEF Agents
<1>3. UNCHANGED <<form, sub, sent, draft, job, hist>> /\ row'.status = "none"
      /\ row.status = "bookkeeping_pending" /\ sub.state = "accepted"
      /\ job["cron"].pc = "idle" /\ job["cron"].task = "none"
  BY <1>2 DEF ReleaseApplied, NoRow, IsIdle, Shape, Fits
<1>4. \A b \in Agents : job[b].pc # "resolved" /\ job[b].task \notin {"send", "release"}
  BY <1>2, <1>3 DEF Stages, Shape, Fits, Agents
<1>5. Heard' /\ Recovers' /\ Locks' /\ Early'
  BY <1>2, <1>3, <1>4 DEF Heard, Recovers, Locks, Early, At, Seen
<1>6. ByItself'
  BY <1>2, <1>3, <1>4 DEF ByItself, At, Sending
<1>7. ASSUME Undisturbed
      PROVE  Apart' /\ Reads' /\ (\A b \in Agents : WrittenTells(b)') /\ Story' /\ Shown'
  <2>1. Apart /\ Reads /\ (\A b \in Agents : WrittenTells(b)) /\ Story /\ Shown
    BY <1>7 DEF Calls
  <2>2. \A b \in Agents : (Mid(b)' <=> Mid(b)) /\ (Busy(b)' <=> Busy(b)) /\ job[b].pc # "written"
    BY <1>3, <2>1 DEF Mid, Busy, WrittenTells
  <2>. QED
    BY <1>2, <1>3, <1>4, <2>1, <2>2 DEF Apart, Unsent, Reads, WrittenTells, Story, Tells, Shown, At
<1>8. Calls'
  BY <1>3, <1>7 DEF Calls, Undisturbed
<1>. QED
  BY <1>1, <1>5, <1>6, <1>8

-----------------------------------------------------------------------------
\* A request is at work before the recovery's age, so that neither the recovery
\* nor a release works on its submission.
LEMMA Requesting ==
    ASSUME IInv, job["request"].task \in {"send", "schedule"} \/ job["request"].pc = "new"
    PROVE  /\ sub.age # RecoveryAge
           /\ \A b \in Agents : job[b].task \notin {"release", "settle"}
           /\ job["cron"].task = "recover" => FALSE
<1>. USE Fields DEF IInv
<1>1. /\ {"cron", "user", "request", "queue"} \subseteq Agents
      /\ \A b \in Agents : Fits(b, job[b].task, job[b].pc)
  BY DEF Agents, Shape
<1>2. job["request"].pc # "idle"
  BY <1>1 DEF Fits
<1>3. sub.age = 0 /\ sub.state \in {"none", "claimed", "scheduled"}
  BY <1>2 DEF Stages
<1>4. sub.age # RecoveryAge
  BY <1>3, Bounds
<1>5. job["cron"].task # "recover"
  BY <1>1, <1>3, <1>4 DEF Stages, Fits, At
<1>6. \A b \in Agents : job[b].task \notin {"release", "settle"}
  BY <1>1, <1>3 DEF Stages, Fits, Agents
<1>. QED
  BY <1>4, <1>5, <1>6

\* Nor does anybody work on a submission that a release has claimed.
LEMMA Releasing ==
    ASSUME IInv, NEW a \in Agents, job[a].task = "release"
    PROVE  /\ sub.state = "releasing" /\ form.delayed
           /\ job["request"].task \notin {"send", "schedule"}
           /\ \A b \in Agents \ {a} : job[b].task # "release"
           /\ job["cron"].task \notin {"settle", "recover"}
<1>. USE Fields DEF IInv
<1>1. /\ {"cron", "user", "request", "queue"} \subseteq Agents
      /\ \A b \in Agents : Fits(b, job[b].task, job[b].pc)
  BY DEF Agents, Shape
<1>2. sub.state = "releasing" /\ sub.since = 0 /\ form.delayed
      /\ \A b \in Agents \ {a} : job[b].task # "release"
  BY DEF Stages
<1>3. sub.since # RecoveryAge
  BY <1>2, Bounds
<1>4. job["cron"].task \notin {"settle", "recover"}
  BY <1>1, <1>2, <1>3 DEF Stages, Fits, At
<1>. QED
  BY <1>2, <1>4 DEF Stages

\* A send or a release that ran into trouble, or has yet to begin, has no row, or
\* holds it alone.
LEMMA NobodySends ==
    ASSUME IInv, Unsent \/ (\E a \in Agents : Starting(a))
    PROVE  row.status = "none" /\ Clean /\ \A b \in Agents : ~Sending(b) /\ job[b].pc # "threw"
BY DEF IInv, Leases, Holder, Sending

\* A submission begins: nothing of it has been sent, and its draft is locked.
LEMMA CreateTells ==
    ASSUME TInv, Create
    PROVE  TInv'
<1>. USE Fields DEF TInv, IInv
<1>1. IInv'
  BY CreateKept
<1>2. /\ {"cron", "user", "request", "queue"} \subseteq Agents
      /\ \A b \in Agents : Fits(b, job[b].task, job[b].pc)
  BY DEF Agents, Shape
<1>3. Becomes("request", IF form.delayed THEN "schedule" ELSE "send", "claimed", "none", "none")
  BY <1>2, JobMoves DEF Create, Tasks, Points
<1>4. /\ UNCHANGED <<form, sent, row, hist>> /\ draft' = "submitting"
      /\ sub'.state = "claimed" /\ sub'.age = sub.age
      /\ sub.state = "none" /\ sent = "none" /\ row.status = "none"
      /\ \A b \in Agents : ~Sending(b)
  BY NobodySends DEF Create, SubType, Stages, Early, Unsent
<1>5. job["cron"].task # "recover" /\ \A b \in Agents : job[b].task \notin {"release", "settle"}
  BY <1>4, Requesting DEF Create
<1>6. Heard' /\ Recovers'
  BY <1>2, <1>3, <1>4, <1>5 DEF Heard, Recovers, Becomes
<1>7. ByItself' /\ Early'
  BY <1>2, <1>3, <1>4, <1>5 DEF ByItself, Early, Becomes, At, Sending
<1>8. Locks'
  BY <1>2, <1>3, <1>4 DEF Locks, Becomes, At
<1>9. ASSUME Undisturbed
      PROVE  Apart' /\ Reads' /\ (\A b \in Agents : WrittenTells(b)') /\ Story' /\ Shown'
  <2>1. \A b \in Agents : ~Mid(b) /\ ~Mid(b)'
    BY <1>2, <1>3, <1>4, <1>9 DEF Calls, Apart, Unsent, Becomes, Mid
  <2>2. \A b \in Agents : job'[b].pc # "written" /\ job'[b].pc # "resolved"
    BY <1>1, <1>2, <1>3, <1>5, <2>1 DEF Becomes, Mid, Fits, Agents
  <2>. QED
    BY <1>2, <1>3, <1>4, <1>5, <2>1, <2>2 DEF Apart, Reads, WrittenTells, Story, Shown, Becomes, At
<1>10. Calls'
  BY <1>4, <1>9 DEF Calls, Undisturbed
<1>. QED
  BY <1>1, <1>6, <1>7, <1>8, <1>10

\* The request of a held message: nothing of it has been sent.
LEMMA ScheduleTells ==
    ASSUME TInv, Schedule \/ ScheduleThrows \/ UndoSchedule
    PROVE  TInv'
<1>. USE Fields DEF TInv, IInv
<1>1. IInv'
  BY ScheduleKept, ScheduleThrowsKept, UndoScheduleKept
<1>2. /\ {"cron", "user", "request", "queue"} \subseteq Agents
      /\ \A b \in Agents : Fits(b, job[b].task, job[b].pc)
  BY DEF Agents, Shape
<1>3. /\ \A b \in Agents \ {"request"} : job'[b] = job[b]
      /\ job'["request"].task \in {"schedule", "step"}
      /\ job'["request"].pc \in {"ready", "undo", "abandon"}
  <2>1. \/ Becomes("request", "step", "ready", "none", "none")
        \/ Becomes("request", "schedule", "undo", job["request"].answer, job["request"].seen)
        \/ Becomes("request", "schedule", "abandon", job["request"].answer, job["request"].seen)
    BY <1>2, JobMoves DEF Schedule, ScheduleThrows, UndoSchedule, At, Tasks, Points
  <2>. QED
    BY <2>1 DEF Becomes
<1>4. /\ UNCHANGED <<form, row, hist, draft>> /\ form.delayed
      /\ job["request"].task = "schedule" /\ sub.state \in {"claimed", "scheduled"}
      /\ sub'.age = sub.age
      /\ \/ sub'.state = "scheduled"
         \/ sub' = sub /\ sent' \in {sent, "none"}
  BY DEF Schedule, ScheduleThrows, UndoSchedule, SubType, Stages, At
<1>5. /\ job["cron"].task # "recover" /\ \A b \in Agents : job[b].task \notin {"release", "settle"}
      /\ row.status = "none" /\ \A b \in Agents : ~Sending(b)
      /\ sub'.state \in {"claimed", "scheduled"}
      /\ (sub'.state = "claimed" => sub.state = "claimed" /\ sent' = "none")
  BY <1>4, Requesting, NobodySends DEF Unsent, Places
<1>6. Heard' /\ Recovers'
  BY <1>2, <1>3, <1>4, <1>5 DEF Heard, Recovers
<1>7. ByItself' /\ Early'
  BY <1>2, <1>3, <1>4, <1>5 DEF ByItself, Early, At, Sending
<1>8. Locks'
  BY <1>2, <1>3, <1>4, <1>5 DEF Locks, At
<1>9. ASSUME Undisturbed
      PROVE  Apart' /\ Reads' /\ (\A b \in Agents : WrittenTells(b)') /\ Story' /\ Shown'
  <2>1. \A b \in Agents : ~Mid(b) /\ ~Mid(b)'
    BY <1>2, <1>3, <1>4, <1>9 DEF Calls, Apart, Unsent, Mid
  <2>2. \A b \in Agents : job'[b].pc # "written" /\ job'[b].pc # "resolved"
    BY <1>2, <1>3, <1>5, <2>1 DEF Mid, Fits, Agents
  <2>. QED
    BY <1>2, <1>3, <1>4, <1>5, <2>1, <2>2 DEF Apart, Reads, WrittenTells, Story, Shown, At
<1>10. Calls'
  BY <1>4, <1>9 DEF Calls, Undisturbed
<1>. QED
  BY <1>1, <1>6, <1>7, <1>8, <1>10

\* Nothing of the submission is left.
LEMMA AbandonIntentionTells ==
    ASSUME TInv, IInv', job["request"].task \in {"send", "schedule"}, AbandonIntention("request"),
           ~hist.revived => \A b \in Agents \ {"request"} : ~Sending(b)
    PROVE  TInv'
<1>. USE Fields DEF TInv, IInv
<1>2. /\ {"cron", "user", "request", "queue"} \subseteq Agents
      /\ \A b \in Agents : Fits(b, job[b].task, job[b].pc)
  BY DEF Agents, Shape
<1>3. Becomes("request", "none", "idle", "none", "none")
  BY <1>2, JobMoves DEF AbandonIntention
<1>4. /\ UNCHANGED <<form, sent, hist>>
      /\ row'.status = "none"
      /\ sub'.state = "gone"
      /\ sub'.age = sub.age
  BY DEF AbandonIntention, SubType, Dropped, NoRow
<1>5. /\ job["cron"].task # "recover" /\ \A b \in Agents : job[b].task \notin {"release", "settle"}
  BY Requesting
<1>6. Heard' /\ Recovers'
  BY <1>2, <1>3, <1>4, <1>5 DEF Heard, Recovers, Becomes
<1>7. ByItself' /\ Early'
  BY <1>2, <1>3, <1>4, <1>5 DEF ByItself, Early, At, Sending, Becomes
<1>8. Locks'
  BY <1>2, <1>3, <1>4, <1>5 DEF Locks, At, Becomes
<1>9. ASSUME Undisturbed
      PROVE  Apart' /\ Reads' /\ (\A b \in Agents : WrittenTells(b)') /\ Story' /\ Shown'
  <2>1. \A b \in Agents : ~Mid(b) /\ ~Mid(b)'
    BY <1>2, <1>3, <1>4, <1>9 DEF Calls, Apart, Busy, Mid, Becomes
  <2>2. \A b \in Agents : job'[b].pc # "written" /\ job'[b].pc # "resolved"
    BY <1>2, <1>3, <1>5, <2>1 DEF Mid, Fits, Agents, Becomes
  <2>. QED
    BY <1>2, <1>3, <1>4, <1>5, <2>1, <2>2 DEF Apart, Reads, WrittenTells, Story, Shown, At, Becomes
<1>10. Calls'
  BY <1>4, <1>9 DEF Calls, Undisturbed
<1>. QED
  BY <1>6, <1>7, <1>8, <1>10

\* The request records that its message was accepted, or will be tried again.
LEMMA RecordAcceptedTells ==
    ASSUME TInv, RecordAccepted
    PROVE  TInv'
<1>. USE Fields DEF TInv, IInv
<1>1. IInv'
  BY RecordAcceptedKept
<1>2. /\ {"cron", "user", "request", "queue"} \subseteq Agents
      /\ \A b \in Agents : Fits(b, job[b].task, job[b].pc)
  BY DEF Agents, Shape
<1>3. Becomes("request", "step", "ready", "none", "none")
  BY <1>2, JobMoves DEF RecordAccepted, Tasks, Points
<1>4. /\ UNCHANGED <<form, hist>> /\ sub'.state = "accepted" /\ sub'.age = sub.age
      /\ sent' \in {"sent", "retrying"}
      /\ row'.status = IF row.status = "bookkeeping_pending" THEN "none" ELSE row.status
      /\ At("request", "send", "resolved") /\ OnItsWay("request") /\ sub.state = "claimed"
  BY DEF RecordAccepted, SubType, Outcome, ConfirmedRow, NoRow, Stages, At
<1>5. /\ job["cron"].task # "recover" /\ \A b \in Agents : job[b].task \notin {"release", "settle"}
  BY <1>4, Requesting DEF At
<1>6. Heard' /\ Recovers'
  BY <1>2, <1>3, <1>4, <1>5 DEF Heard, Recovers, Becomes
<1>7. ByItself' /\ Early'
  BY <1>2, <1>3, <1>4, <1>5 DEF ByItself, Early, At, Sending, Becomes
<1>8. Locks'
  <2>1. job["request"].answer = "accepted" => row'.status = "none"
    BY <1>4 DEF Locks
  <2>2. job["request"].answer # "accepted" => draft' \in {"gone", "queued"}
    BY DEF RecordAccepted, Outcome
  <2>. QED
    BY <1>2, <1>3, <1>4, <2>1, <2>2 DEF Locks, At, Becomes
<1>9. ASSUME Undisturbed
      PROVE  Apart' /\ Reads' /\ (\A b \in Agents : WrittenTells(b)') /\ Story' /\ Shown'
  <2>1. \A b \in Agents : ~Mid(b) /\ ~Mid(b)'
    BY <1>2, <1>3, <1>4, <1>9 DEF Calls, Apart, Busy, Mid, At, Becomes
  <2>2. \A b \in Agents : job'[b].pc # "written" /\ job'[b].pc # "resolved"
    BY <1>2, <1>3, <1>5, <2>1 DEF Mid, Fits, Agents, Becomes
  <2>3. CASE job["request"].answer = "accepted"
    <3>1. row'.status = "none" /\ hist.delivered > 0 /\ sent' = "sent"
      BY <1>2, <1>4, <2>3 DEF Locks, Heard, At, RecordAccepted, Outcome
    <3>. QED
      BY <1>2, <1>3, <1>4, <1>5, <2>1, <2>2, <3>1
         DEF Apart, Reads, WrittenTells, Story, Tells, Shown, At, Becomes
  <2>4. CASE job["request"].answer # "accepted"
    <3>1. row'.status = "pending" /\ sent' = "retrying"
      BY <1>2, <1>4, <1>9, <2>4 DEF Calls, Reads, At, OnItsWay, Resolved, RecordAccepted, Outcome
    <3>. QED
      BY <1>2, <1>3, <1>4, <1>5, <2>1, <2>2, <3>1
         DEF Apart, Reads, WrittenTells, Story, Tells, Shown, At, Becomes
  <2>. QED
    BY <2>3, <2>4
<1>10. Calls'
  BY <1>4, <1>9 DEF Calls, Undisturbed
<1>. QED
  BY <1>1, <1>6, <1>7, <1>8, <1>10

\* A request that gives up, is refused or never reached the provider leaves nothing.
LEMMA GiveUpTells ==
    ASSUME TInv, GiveUp \/ RecordRefused \/ \E a \in Agents : Threw(a) /\ job[a].task = "send"
                                                              /\ row.status = "none"
    PROVE  TInv'
<1>. USE Fields DEF TInv, IInv
<1>1. IInv'
  BY GiveUpKept
<1>2. CASE GiveUp
  <2>1. AbandonIntention("request") /\ job["request"].task \in {"send", "schedule"}
    BY <1>2 DEF GiveUp, At
  <2>2. Unsent \/ \E b \in Agents : Starting(b)
    BY <1>2 DEF GiveUp, At, Stages, Unsent, Starting, Agents
  <2>. QED
    BY <1>1, <2>1, <2>2, NobodySends, AbandonIntentionTells
<1>3. CASE RecordRefused
  <2>1. AbandonIntention("request") /\ job["request"].task \in {"send", "schedule"}
    BY <1>3 DEF RecordRefused, At
  <2>2. ~hist.revived => \A b \in Agents : ~Sending(b)
    BY <1>3 DEF RecordRefused, ByItself
  <2>. QED
    BY <1>1, <2>1, <2>2, AbandonIntentionTells
<1>4. ASSUME NEW a \in Agents, Threw(a), job[a].task = "send", row.status = "none" PROVE TInv'
  <2>1. a = "request"
    BY <1>4, Whereabouts
  <2>2. AbandonIntention("request") /\ job["request"].task \in {"send", "schedule"}
    BY <1>4, <2>1 DEF Threw
  <2>3. ~hist.revived => \A b \in Agents : ~Sending(b)
    BY <1>4 DEF ByItself
  <2>. QED
    BY <1>1, <2>2, <2>3, AbandonIntentionTells
<1>. QED
  BY <1>2, <1>3, <1>4

-----------------------------------------------------------------------------
(* The releases.                                                           *)

\* A release claims its submission, of which nothing has been sent.
LEMMA ClaimTells ==
    ASSUME TInv, IInv', NEW a \in {"queue", "cron"}, IsIdle(a), Claimable, Claim(a),
           UNCHANGED <<form, sent, draft, row, hist>>
    PROVE  TInv'
<1>. USE Fields DEF TInv, IInv
<1>2. /\ {"cron", "user", "request", "queue"} \subseteq Agents
      /\ \A b \in Agents : Fits(b, job[b].task, job[b].pc)
  BY DEF Agents, Shape
<1>3. Becomes(a, "release", "claimed", "none", "none")
  BY <1>2, JobMoves DEF Claim, Tasks, Points
<1>4. /\ sub'.state = "releasing" /\ sub'.age = sub.age /\ sub.state = "scheduled" /\ form.delayed
      /\ row.status = "none" /\ \A b \in Agents : ~Sending(b)
  BY NobodySends DEF Claim, Claimable, Waiting, SubType, Stages, Unsent
<1>5. /\ job["cron"].task = "recover" => job["cron"].pc = "abandon"
      /\ \A b \in Agents : job[b].task \notin {"release", "settle", "send"}
  BY <1>2, <1>4 DEF Stages, Fits, At, Agents
<1>6. Heard' /\ Recovers'
  BY <1>2, <1>3, <1>4, <1>5 DEF Heard, Recovers, Becomes, Seen
<1>7. ByItself' /\ Early'
  BY <1>2, <1>3, <1>4, <1>5 DEF ByItself, Early, At, Sending, Becomes
<1>8. Locks'
  BY <1>2, <1>3, <1>4, <1>5 DEF Locks, At, Becomes
<1>9. ASSUME Undisturbed
      PROVE  Apart' /\ Reads' /\ (\A b \in Agents : WrittenTells(b)') /\ Story' /\ Shown'
  <2>1. \A b \in Agents : ~Mid(b) /\ ~Mid(b)'
    BY <1>2, <1>3, <1>4, <1>9 DEF Calls, Apart, Unsent, Mid, Becomes
  <2>2. \A b \in Agents : job'[b].pc # "written" /\ job'[b].pc # "resolved"
    BY <1>2, <1>3, <1>5, <2>1 DEF Mid, Fits, Agents, Becomes
  <2>. QED
    BY <1>2, <1>3, <1>4, <1>5, <2>1, <2>2
       DEF Apart, Unsent, Reads, WrittenTells, Story, Shown, At, Becomes
<1>10. Calls'
  BY <1>4, <1>9 DEF Calls, Undisturbed
<1>. QED
  BY <1>6, <1>7, <1>8, <1>10

\* A release that starts, or finds that it may not.
LEMMA ReleaseTells ==
    ASSUME TInv, ReleaseByQueue \/ ReleaseBySweep
    PROVE  TInv'
<1>1. IInv'
  BY ReleaseKept DEF TInv
<1>2. UNCHANGED <<form, sent, draft, row, hist>>
  BY DEF ReleaseByQueue, ReleaseBySweep
<1>3. CASE UNCHANGED <<sub, job>>
  BY <1>1, <1>2, <1>3, IdleTells
<1>4. CASE ~UNCHANGED <<sub, job>>
  <2>1. \E a \in {"queue", "cron"} : IsIdle(a) /\ Claimable /\ Claim(a)
    BY <1>4 DEF ReleaseByQueue, ReleaseBySweep
  <2>. QED
    BY <1>1, <1>2, <2>1, ClaimTells
<1>. QED
  BY <1>3, <1>4

\* A step of a release: no other agent is near the message.
LEMMA ReleaseMoves ==
    ASSUME TInv, IInv', NEW a \in Agents, job[a].task = "release", NEW p, NEW ans, NEW s,
           Becomes(a, "release", p, ans, s), UNCHANGED <<form, sub, sent, draft, row, hist>>,
           p \in {"missing", "found"}, p = "missing" <=> sent = "none",
           job[a].pc \notin {"calling", "answered", "resolved", "written"}
    PROVE  TInv'
<1>. USE Fields DEF TInv, IInv
<1>2. /\ {"cron", "user", "request", "queue"} \subseteq Agents
      /\ \A b \in Agents : Fits(b, job[b].task, job[b].pc)
  BY DEF Agents, Shape
<1>3. /\ sub.state = "releasing" /\ job["cron"].task # "recover" /\ job["request"].task # "send"
      /\ \A b \in Agents \ {a} : job[b].task # "release"
      /\ job["cron"].task # "settle"
  BY Releasing
<1>4. Heard' /\ Recovers' /\ Early' /\ Locks'
  BY <1>2, <1>3 DEF Heard, Recovers, Becomes, Early, Locks, At
<1>5. ByItself'
  BY <1>2, <1>3 DEF ByItself, Becomes, At, Sending
<1>6. ASSUME Undisturbed
      PROVE  Apart' /\ Reads' /\ (\A b \in Agents : WrittenTells(b)') /\ Story' /\ Shown'
  <2>1. \A b \in Agents : ~Mid(b) /\ ~Mid(b)'
    BY <1>2, <1>6 DEF Calls, Apart, Busy, Mid, Becomes
  <2>2. \A b \in Agents : job'[b].pc # "written" /\ job'[b].pc # "resolved"
    BY <1>2, <1>3, <2>1 DEF Mid, Fits, Agents, Becomes
  <2>. QED
    BY <1>2, <1>3, <1>6, <2>1, <2>2 DEF Calls, Apart, Reads, WrittenTells, Story, Shown, At, Becomes
<1>7. Calls'
  BY <1>6 DEF Calls, Undisturbed
<1>. QED
  BY <1>4, <1>5, <1>7

\* It looks for the Sent row.
LEMMA LookForSentTells ==
    ASSUME TInv, NEW a \in Agents, LookForSent(a)
    PROVE  TInv'
<1>. DEFINE p == IF sent = "none" THEN "missing" ELSE "found"
<1>1. TypeOK /\ Go(a, p) /\ p \in Points /\ IInv' /\ At(a, "release", "claimed")
  BY LookForSentKept DEF LookForSent, Points, TInv, IInv
<1>2. Becomes(a, "release", p, job[a].answer, job[a].seen)
  <2>. HIDE DEF p
  <2>. QED
    BY <1>1, Fields, JobMoves DEF At
<1>3. p \in {"missing", "found"} /\ (p = "missing" <=> sent = "none")
  OBVIOUS
<1>. HIDE DEF p
<1>. QED
  BY <1>1, <1>2, <1>3, ReleaseMoves DEF At, LookForSent

\* A release that gives its claim back, by itself or by the recovery, has sent
\* nothing.
LEMMA UnclaimTells ==
    ASSUME TInv, IInv', NEW a \in Agents,
           job[a].task = "release" \/ (a = "cron" /\ job[a].task = "settle"),
           End(a), sub'.state = "scheduled", sub'.age = sub.age, row.status = "none",
           UNCHANGED <<form, sent, draft, row, hist>>
    PROVE  TInv'
<1>. USE Fields DEF TInv, IInv
<1>2. /\ {"cron", "user", "request", "queue"} \subseteq Agents
      /\ \A b \in Agents : Fits(b, job[b].task, job[b].pc)
  BY DEF Agents, Shape
<1>3. Becomes(a, "none", "idle", "none", "none") /\ sub.state = "releasing" /\ form.delayed
  BY <1>2, JobMoves DEF Stages
<1>4. /\ job["cron"].task = "recover" => job["cron"].pc = "abandon"
      /\ \A b \in Agents : job[b].task # "send"
      /\ \A b \in Agents \ {a} : job[b].task # "release"
      /\ a # "cron" => job["cron"].task # "settle"
  BY <1>2, <1>3, Releasing, Bounds DEF Stages, Fits, At, Agents
<1>6. Heard' /\ Recovers'
  BY <1>2, <1>3, <1>4 DEF Heard, Recovers, Becomes
<1>7. ByItself' /\ Early'
  BY <1>2, <1>3, <1>4 DEF ByItself, Early, At, Sending, Becomes
<1>8. Locks'
  BY <1>2, <1>3, <1>4 DEF Locks, At, Becomes
<1>9. ASSUME Undisturbed
      PROVE  Apart' /\ Reads' /\ (\A b \in Agents : WrittenTells(b)') /\ Story' /\ Shown'
  <2>1. \A b \in Agents : ~Mid(b) /\ ~Mid(b)'
    BY <1>2, <1>3, <1>4, <1>9 DEF Calls, Apart, Busy, Mid, Becomes
  <2>2. \A b \in Agents : job'[b].pc # "written" /\ job'[b].pc # "resolved"
    BY <1>2, <1>3, <1>4, <2>1 DEF Mid, Fits, Agents, Becomes
  <2>. QED
    BY <1>2, <1>3, <1>4, <2>1, <2>2
       DEF Apart, Unsent, Reads, WrittenTells, Story, Shown, At, Becomes
<1>10. Calls'
  BY <1>9 DEF Calls, Undisturbed
<1>. QED
  BY <1>6, <1>7, <1>8, <1>10

\* A release that is recorded, by itself or by the recovery: the Sent row says
\* what the outbox has.
LEMMA RecordTells ==
    ASSUME TInv, IInv', NEW a \in Agents,
           job[a].task = "release" \/ (a = "cron" /\ job[a].task = "settle"),
           End(a), sub'.state = "accepted", sub'.age = sub.age,
           UNCHANGED <<form, draft, hist>>,
           NEW o \in {"sent", "retrying", "failed"}, sent' = SentSet(o),
           row' = row \/ row' = ConfirmedRow,
           Undisturbed => /\ sent # "none"
                          /\ o = "retrying" => row.status = "pending"
                          /\ o = "failed" => row.status \in {"none", "failed"} /\ Clean
                          /\ o = "sent" => row.status = "bookkeeping_pending"
    PROVE  TInv'
<1>. USE Fields DEF TInv, IInv
<1>2. /\ {"cron", "user", "request", "queue"} \subseteq Agents
      /\ \A b \in Agents : Fits(b, job[b].task, job[b].pc)
  BY DEF Agents, Shape
<1>3. Becomes(a, "none", "idle", "none", "none") /\ sub.state = "releasing" /\ form.delayed
  BY <1>2, JobMoves DEF Stages
<1>4. /\ job["cron"].task # "recover" \/ job["cron"].pc = "abandon"
      /\ \A b \in Agents : job[b].task # "send"
      /\ \A b \in Agents \ {a} : job[b].task # "release"
      /\ a # "cron" => job["cron"].task # "settle"
  BY <1>2, <1>3, Releasing, Bounds DEF Stages, Fits, At, Agents
<1>5. row'.status = row.status \/ (row.status = "bookkeeping_pending" /\ row'.status = "none")
  BY DEF ConfirmedRow, NoRow
<1>6. Heard' /\ Recovers'
  BY <1>2, <1>3, <1>4, <1>5 DEF Heard, Recovers, Becomes
<1>7. ByItself' /\ Early'
  BY <1>2, <1>3, <1>4, <1>5 DEF ByItself, Early, At, Sending, Becomes
<1>8. Locks'
  BY <1>2, <1>3, <1>4 DEF Locks, At, Becomes
<1>9. ASSUME Undisturbed
      PROVE  Apart' /\ Reads' /\ (\A b \in Agents : WrittenTells(b)') /\ Story' /\ Shown'
  <2>1. \A b \in Agents : ~Mid(b) /\ ~Mid(b)'
    BY <1>2, <1>3, <1>4, <1>9 DEF Calls, Apart, Busy, Mid, Becomes
  <2>2. \A b \in Agents : job'[b].pc # "written" /\ job'[b].pc # "resolved"
    BY <1>2, <1>3, <1>4, <2>1 DEF Mid, Fits, Agents, Becomes
  <2>3. sent' = o /\ sent' # "none"
    BY <1>9 DEF SentSet
  <2>4. Tells'
    BY <1>5, <1>9, <2>3 DEF Tells, Heard, Clean, ConfirmedRow
  <2>. QED
    BY <1>2, <1>3, <1>4, <2>1, <2>2, <2>3, <2>4
       DEF Apart, Unsent, Reads, WrittenTells, Story, Shown, At, Becomes
<1>10. Calls'
  BY <1>9 DEF Calls, Undisturbed
<1>. QED
  BY <1>6, <1>7, <1>8, <1>10

\* What a release that is over leaves.
LEMMA ReleasesTell ==
    ASSUME TInv, NEW a \in Agents,
           \/ CancelMissing(a) \/ StagingThrows(a)
           \/ Threw(a) /\ job[a].task = "release" /\ row.status = "none"
    PROVE  TInv'
<1>. USE Fields DEF TInv, IInv
<1>1. IInv'
  BY CancelMissingKept, StagingThrowsKept, ThrewKept
<1>2. job[a].task = "release" /\ End(a) /\ UNCHANGED <<form, sent, draft, row, hist>>
  BY DEF CancelMissing, StagingThrows, Threw, At
<1>3. row.status = "none"
  BY NobodySends DEF CancelMissing, StagingThrows, At, Starting
<1>4. sub'.state = "scheduled" /\ sub'.age = sub.age
  BY <1>2 DEF CancelMissing, StagingThrows, Threw, Unclaimed, SubType, Stages
<1>. QED
  BY <1>1, <1>2, <1>3, <1>4, UnclaimTells

\* A send that threw while its row stayed leaves everything to the recovery.
LEMMA ThrewTells ==
    ASSUME TInv, NEW a \in Agents, Threw(a)
    PROVE  TInv'
<1>. USE Fields DEF TInv, IInv
<1>1. CASE row.status = "none" /\ job[a].task = "send"
  BY <1>1, GiveUpTells
<1>2. CASE row.status = "none" /\ job[a].task # "send"
  BY <1>2, ReleasesTell DEF Threw
<1>3. CASE row.status # "none"
  <2>1. IInv' /\ job[a].pc = "threw" /\ job[a].task \in {"send", "release"}
        /\ UNCHANGED <<form, sub, sent, draft, row, hist>>
    BY <1>3, ThrewKept, Whereabouts DEF Threw
  <2>2. /\ {"cron", "user", "request", "queue"} \subseteq Agents
        /\ Becomes(a, "none", "idle", "none", "none")
    BY <1>3, JobMoves DEF Threw, Agents
  <2>3. Heard' /\ Recovers' /\ Early'
    BY <2>1, <2>2 DEF Heard, Recovers, Early, Becomes, Seen
  <2>4. ByItself' /\ Locks'
    BY <2>1, <2>2 DEF ByItself, Locks, Becomes, At, Seen, Sending, OnItsWay
  <2>5. ASSUME Undisturbed
        PROVE  Apart' /\ Reads' /\ (\A b \in Agents : WrittenTells(b)') /\ Story' /\ Shown'
    <3>1. \A b \in Agents : /\ (Mid(b)' => Mid(b)) /\ (Busy(b)' => Busy(b))
                            /\ WrittenTells(b) => WrittenTells(b)'
      BY <2>1, <2>2 DEF Becomes, Mid, Busy, WrittenTells, Clean
    <3>. QED
      BY <2>1, <2>2, <2>5, <3>1
         DEF Calls, Becomes, Apart, Unsent, Reads, Seen, Story, Tells, Clean, Shown, At
  <2>6. Calls'
    BY <2>1, <2>5 DEF Calls, Undisturbed
  <2>. QED
    BY <2>1, <2>3, <2>4, <2>6
<1>. QED
  BY <1>1, <1>2, <1>3

\* A refused message has a failed row, and nobody knows it to be delivered.
LEMMA FailedIsClean ==
    ASSUME IInv, row.status = "failed"
    PROVE  Clean
BY Whereabouts DEF IInv, Counts, Leases

\* A release that may not be sent leaves a failed Sent row.
LEMMA FailChecksTells ==
    ASSUME TInv, NEW a \in Agents, FailChecks(a)
    PROVE  TInv'
<1>. USE DEF TInv
<1>1. IInv' /\ At(a, "release", "found") /\ UNCHANGED <<form, draft, hist, row>> /\ End(a)
  BY FailChecksKept DEF FailChecks, FailRelease
<1>2. sent' = SentSet("failed") /\ sub'.state = "accepted" /\ sub'.age = sub.age
  BY Fields, <1>1 DEF FailChecks, FailRelease, At, Accepted, SubType, IInv, Stages
<1>3. row.status = "none" /\ Clean
  BY <1>1, NobodySends DEF At, Starting
<1>4. Undisturbed => sent # "none"
  BY <1>1, Fields DEF Calls, Shown, At, IInv, Stages
<1>5. "failed" \in {"sent", "retrying", "failed"}
  OBVIOUS
<1>. HIDE DEF TInv
<1>. QED
  BY <1>1, <1>2, <1>3, <1>4, <1>5, RecordTells DEF At

\* A release writes the Sent row from the provider's answer.
LEMMA RecordReleaseTells ==
    ASSUME TInv, NEW a \in Agents, RecordRelease(a)
    PROVE  TInv'
<1>. DEFINE o == IF OnItsWay(a) THEN Outcome(a) ELSE "failed"
<1>. USE DEF TInv
<1>1. IInv' /\ At(a, "release", "resolved") /\ UNCHANGED <<form, draft, hist>> /\ End(a)
  BY RecordReleaseKept DEF RecordRelease, FailRelease
<1>2. sub'.state = "accepted" /\ sub'.age = sub.age
  BY Fields, <1>1 DEF RecordRelease, FailRelease, At, Accepted, SubType, IInv, Stages
<1>3. o \in {"sent", "retrying", "failed"} /\ sent' = SentSet(o)
      /\ (row' = row \/ row' = ConfirmedRow)
  BY DEF RecordRelease, FailRelease, Outcome
<1>4. ASSUME Undisturbed
      PROVE  /\ sent # "none"
             /\ o = "retrying" => row.status = "pending"
             /\ o = "failed" => row.status \in {"none", "failed"} /\ Clean
             /\ o = "sent" => row.status = "bookkeeping_pending"
  <2>1. sent # "none" /\ row.status = Resolved(job[a].answer).status
    BY <1>1, <1>4, Fields DEF Calls, Shown, Reads, At, IInv, Stages
  <2>2. job[a].answer \in {"accepted", "transient", "permanent", "held"}
    BY <1>1 DEF Heard, At
  <2>3. /\ job[a].answer = "accepted" => row.status = "bookkeeping_pending"
        /\ job[a].answer \in {"transient", "held"} => row.status = "pending"
        /\ job[a].answer = "permanent" => row.status = "failed"
    BY <2>1 DEF Resolved
  <2>4. row.status = "failed" => Clean
    BY FailedIsClean
  <2>. QED
    BY <2>1, <2>2, <2>3, <2>4 DEF OnItsWay, Outcome
<1>. HIDE DEF TInv, o
<1>. QED
  BY <1>1, <1>2, <1>3, <1>4, RecordTells DEF At

\* A release that stopped is settled by what its row says.
LEMMA SettleReleasingTells ==
    ASSUME TInv, SettleReleasing
    PROVE  TInv'
<1>. USE DEF TInv
<1>1. IInv' /\ job["cron"].task = "settle" /\ UNCHANGED <<form, draft, hist>> /\ End("cron")
      /\ "cron" \in Agents
  BY SettleReleasingKept DEF SettleReleasing, At, Agents
<1>2. sub.state = "releasing" /\ (Seen("none") => row.status = "none")
  BY <1>1 DEF IInv, Stages, Seen
<1>3. CASE Seen("none")
  <2>1. sub'.state = "scheduled" /\ sub'.age = sub.age /\ UNCHANGED <<sent, row>>
    BY Fields, <1>2, <1>3 DEF SettleReleasing, Unclaimed, SubType, IInv
  <2>. HIDE DEF TInv
  <2>. QED
    BY <1>1, <1>2, <1>3, <2>1, UnclaimTells
<1>4. CASE ~Seen("none")
  <2>1. /\ sub'.state = "accepted"
        /\ sub'.age = sub.age
        /\ sent' = SentSet(Settled)
        /\ row' = ConfirmedRow
    BY Fields, <1>2, <1>4 DEF SettleReleasing, Accepted, SubType, IInv
  <2>2. Settled \in {"sent", "retrying", "failed"}
    BY DEF Settled
  <2>3. ASSUME Undisturbed
        PROVE  /\ sent # "none"
               /\ Settled = "retrying" => row.status = "pending"
               /\ Settled = "failed" => row.status \in {"none", "failed"} /\ Clean
               /\ Settled = "sent" => row.status = "bookkeeping_pending"
    <3>1. Seen(row.status) /\ row.status \in RowStatuses
      BY <1>1, <2>3, Fields DEF Calls, Reads, IInv
    <3>2. sent # "none"
      BY <1>2, <1>4, <2>3, <3>1 DEF Calls, Shown, Seen
    <3>3. row.status = "failed" => Clean
      BY FailedIsClean
    <3>. QED
      BY <1>4, <3>1, <3>2, <3>3 DEF Settled, Seen, RowStatuses
  <2>. HIDE DEF TInv
  <2>. QED
    BY <1>1, <2>1, <2>2, <2>3, RecordTells
<1>. QED
  BY <1>3, <1>4

\* The recovery reads the outbox row; a retry that is under way races with it.
LEMMA ReadTells ==
    ASSUME TInv, ReadClaimed \/ ReadReleasing
    PROVE  TInv'
<1>. USE Fields DEF TInv, IInv
<1>1. IInv'
  BY ReadClaimedKept, ReadReleasingKept
<1>2. /\ {"cron", "user", "request", "queue"} \subseteq Agents
      /\ \A b \in Agents : Fits(b, job[b].task, job[b].pc)
  BY DEF Agents, Shape
<1>3. \E t \in {"recover", "settle"} : Becomes("cron", t, "read", "none", row.status)
  <2>1. PICK t \in {"recover", "settle"} :
          job' = [job EXCEPT !["cron"] =
                    [Idle EXCEPT !.task = t, !.pc = "read", !.seen = row.status]]
    BY DEF ReadClaimed, ReadReleasing
  <2>. QED
    BY <1>2, <2>1, JobMoves DEF Tasks, Points
<1>4. /\ UNCHANGED <<form, sub, sent, draft, row>>
      /\ hist'.delivered = hist.delivered
      /\ hist'.lost = hist.lost
      /\ FlagsStay
      /\ (hist'.revived <=> hist.revived)
      /\ (hist'.raced <=> (hist.raced \/ Attempting))
      /\ job["cron"].pc = "idle"
      /\ job["cron"].task = "none"
      /\ sub.state \in {"claimed", "releasing"}
  BY <1>2, FlagMoves DEF ReadClaimed, ReadReleasing, HistType, IsIdle, Fits
<1>5. Heard' /\ Recovers' /\ Early'
  BY <1>2, <1>3, <1>4 DEF Heard, Recovers, Early, Becomes, Seen
<1>6. ByItself'
  BY <1>2, <1>3, <1>4 DEF ByItself, Becomes, At, Sending, OnItsWay
<1>7. Locks'
  BY <1>2, <1>3, <1>4 DEF Locks, Becomes, At, FlagsStay
<1>8. ASSUME Undisturbed'
      PROVE  Apart' /\ Reads' /\ (\A b \in Agents : WrittenTells(b)') /\ Story' /\ Shown'
  <2>1. Undisturbed /\ Apart /\ Reads /\ (\A b \in Agents : WrittenTells(b)) /\ Story /\ Shown
    BY <1>4, <1>8 DEF Calls, Undisturbed, FlagsStay
  <2>2. \A b \in Agents : ~Mid(b) /\ ~Mid(b)'
    BY <1>2, <1>3, <1>4, <1>8 DEF Undisturbed, Attempting, Mid, Becomes
  <2>3. \A b \in Agents : job[b].pc # "written" /\ job'[b].pc # "written"
    BY <1>3, <2>2, Whereabouts DEF Mid, Becomes
  <2>. QED
    BY <1>2, <1>3, <1>4, <2>1, <2>2, <2>3
       DEF Apart, Reads, Seen, WrittenTells, Story, Tells, Clean, Shown, At, Becomes
<1>9. Calls'
  BY <1>8 DEF Calls
<1>. QED
  BY <1>1, <1>5, <1>6, <1>7, <1>9

-----------------------------------------------------------------------------
(* The send.                                                               *)

\* The outbox row is written ahead of the call.
LEMMA WriteAheadTells ==
    ASSUME TInv, NEW a \in Agents, WriteAhead(a)
    PROVE  TInv'
<1>. USE Fields DEF TInv, IInv
<1>1. IInv'
  BY WriteAheadKept
<1>2. /\ {"cron", "user", "request", "queue"} \subseteq Agents
      /\ \A b \in Agents : Fits(b, job[b].task, job[b].pc)
  BY DEF Agents, Shape
<1>3. /\ Becomes(a, job[a].task, "calling", job[a].answer, job[a].seen)
      /\ job[a].task \in {"send", "release"}
      /\ (job[a].task = "send" => a = "request")
  BY JobMoves, Whereabouts DEF WriteAhead, At, Points
<1>4. /\ UNCHANGED <<form, sub, sent, draft, hist>>
      /\ row'.status = "pending"
      /\ row.status = "none"
      /\ At(a, "send", "claimed") \/ At(a, "release", "found")
  BY DEF WriteAhead
<1>5. /\ job["cron"].task # "recover" /\ job["cron"].task # "settle"
      /\ \A b \in Agents \ {a} : job[b].task \notin {"send", "release"}
      /\ sub.state \in {"claimed", "releasing"}
      /\ (sub.state = "claimed" => sent = "none" /\ a = "request")
      /\ (form.delayed \/ sub.state = "claimed")
      /\ (sub.state = "releasing" => job[a].task = "release")
  BY <1>2, <1>3, Requesting, Releasing, Whereabouts DEF Stages, Early
<1>6. Heard' /\ Recovers' /\ Early'
  BY <1>2, <1>3, <1>4, <1>5 DEF Heard, Recovers, Early, Becomes
<1>7. ByItself'
  BY <1>2, <1>3, <1>4, <1>5 DEF ByItself, Becomes, At, Sending
<1>8. Locks'
  BY <1>2, <1>3, <1>4, <1>5 DEF Locks, Becomes, At
<1>9. ASSUME Undisturbed
      PROVE  Apart' /\ Reads' /\ (\A b \in Agents : WrittenTells(b)') /\ Story' /\ Shown'
  <2>1. \A b \in Agents : ~Mid(b) /\ ~Mid(b)'
    BY <1>3, <1>9 DEF Calls, Apart, Busy, Mid, Becomes
  <2>2. \A b \in Agents : job'[b].pc # "written" /\ job'[b].pc # "resolved"
    BY <1>2, <1>3, <1>5, <2>1 DEF Mid, Fits, Becomes, Agents
  <2>3. Apart' /\ Reads'
    BY <1>2, <1>3, <1>5, <2>1, <2>2 DEF Apart, Reads, Becomes
  <2>4. (\A b \in Agents : WrittenTells(b)') /\ Story'
    BY <1>4, <1>5, <2>2 DEF WrittenTells, Story
  <2>5. Shown'
    BY <1>2, <1>3, <1>4, <1>5, <1>9 DEF Calls, Shown, At, Becomes
  <2>. QED
    BY <2>3, <2>4, <2>5
<1>10. Calls'
  BY <1>4, <1>9 DEF Calls, Undisturbed
<1>. QED
  BY <1>1, <1>6, <1>7, <1>8, <1>10

\* The provider answers, or the pause does: the rows say what they said.
LEMMA AnswerTells ==
    ASSUME TInv, IInv', NEW a \in Agents, job[a].pc = "calling", NEW ans, Answer(a, ans),
           \/ ans \in {"accepted", "transient", "permanent", "held"}
           \/ job[a].task = "retry" /\ ans = "suppressed",
           UNCHANGED <<form, sub, sent, draft, row>>,
           hist'.delivered >= hist.delivered, hist'.delivered \in Nat,
           ans = "accepted" => hist'.delivered > 0,
           FlagsStay, hist'.raced <=> hist.raced, hist'.revived <=> hist.revived
    PROVE  TInv'
<1>. USE Fields DEF TInv, IInv
<1>1. ans \in Answers
  BY DEF Answers
<1>2. /\ {"cron", "user", "request", "queue"} \subseteq Agents
      /\ \A b \in Agents : Fits(b, job[b].task, job[b].pc)
  BY DEF Agents, Shape
<1>3. /\ Becomes(a, job[a].task, "answered", ans, job[a].seen)
      /\ job[a].task \in {"send", "release", "retry"}
  BY <1>1, JobMoves, Whereabouts DEF Holder
<1>4. row.status = "pending" \/ (row.status = "none" /\ job[a].task = "retry")
  BY DEF Leases, Holder
<1>5. Heard'
  BY <1>2, <1>3 DEF Heard, Becomes
<1>6. Recovers' /\ Early'
  BY <1>2, <1>3 DEF Recovers, Early, Becomes, Seen
<1>7. ByItself'
  BY <1>2, <1>3 DEF ByItself, Becomes, At, Sending, OnItsWay
<1>8. Locks'
  BY <1>2, <1>3 DEF Locks, Becomes, At, Seen, FlagsStay
<1>9. ASSUME Undisturbed
      PROVE  Apart' /\ Reads' /\ (\A b \in Agents : WrittenTells(b)') /\ Story' /\ Shown'
  <2>1. Apart /\ Reads /\ (\A b \in Agents : WrittenTells(b)) /\ Story /\ Shown
    BY <1>9 DEF Calls
  <2>2. \A b \in Agents : (Mid(b)' <=> Mid(b)) /\ (Busy(b)' <=> Busy(b))
    BY <1>2, <1>3 DEF Becomes, Mid, Busy
  <2>3. Mid(a) \/ Busy(a)
    BY <1>3 DEF Mid, Busy
  <2>4. \A b \in Agents : job[b].pc # "written" /\ job'[b].pc # "written"
    BY <1>3, <2>1, <2>3, Whereabouts DEF Apart, Mid, Becomes
  <2>5. row.status = "pending"
    BY <1>4, <2>1 DEF Apart, Mid
  <2>. QED
    BY <1>2, <1>3, <2>1, <2>2, <2>4, <2>5
       DEF Apart, Unsent, Reads, Seen, WrittenTells, Story, Tells, Shown, At, Becomes
<1>10. Calls'
  BY <1>9 DEF Calls, Undisturbed, FlagsStay
<1>. QED
  BY <1>5, <1>6, <1>7, <1>8, <1>10

\* The pause, or a suppression, answers in the provider's place.
LEMMA WithholdTells ==
    ASSUME TInv, NEW a \in Agents, Withhold(a)
    PROVE  TInv'
<1>1. IInv' /\ hist' = hist /\ hist.delivered \in Nat /\ FlagsStay
  BY WithholdKept, Fields, FlagMoves DEF Withhold, TInv, IInv
<1>2. hist.delivered >= hist.delivered
  BY <1>1
<1>3. UNCHANGED <<form, sub, sent, draft, row>> /\ job[a].pc = "calling"
      /\ (Answer(a, "held") \/ (job[a].task = "retry" /\ Answer(a, "suppressed")))
  BY DEF Withhold
<1>. QED
  BY <1>1, <1>2, <1>3, AnswerTells

\* The provider answers.
LEMMA TransportTells ==
    ASSUME TInv, NEW a \in Agents, Transport(a)
    PROVE  TInv'
<1>1. IInv' /\ hist \in HistType /\ hist.delivered \in Nat
  BY TransportKept, Fields DEF TInv, IInv
<1>2. PICK ans \in {"accepted", "transient", "permanent"}, lost \in BOOLEAN :
        /\ Answer(a, ans)
        /\ hist' = [hist EXCEPT
             !.delivered = IF ans = "accepted" \/ lost THEN @ + 1 ELSE @,
             !.lost = IF lost THEN @ + 1 ELSE @]
  BY DEF Transport
<1>3. \E d, l : hist' = [hist EXCEPT !.delivered = d, !.lost = l]
  BY <1>2
<1>4. FlagsStay /\ (hist'.raced <=> hist.raced) /\ (hist'.revived <=> hist.revived)
  BY <1>1, <1>3, FlagMoves
<1>5. hist'.delivered = IF ans = "accepted" \/ lost THEN hist.delivered + 1 ELSE hist.delivered
  BY <1>1, <1>2 DEF HistType
<1>6. /\ hist'.delivered >= hist.delivered
      /\ hist'.delivered \in Nat
      /\ (ans = "accepted" => hist'.delivered > 0)
  BY <1>1, <1>5
<1>7. UNCHANGED <<form, sub, sent, draft, row>> /\ job[a].pc = "calling"
  BY DEF Transport
<1>. QED
  BY <1>1, <1>2, <1>4, <1>6, <1>7, AnswerTells

\* A send whose call or whose bookkeeping failed.
LEMMA SendThrowsTells ==
    ASSUME TInv, NEW a \in Agents, CallThrows(a) \/ ResolveThrows(a)
    PROVE  TInv'
<1>. USE Fields DEF TInv, IInv
<1>1. IInv'
  BY CallThrowsKept, ResolveThrowsKept
<1>2. /\ {"cron", "user", "request", "queue"} \subseteq Agents
      /\ \A b \in Agents : Fits(b, job[b].task, job[b].pc)
  BY DEF Agents, Shape
<1>3. /\ \E ans : Becomes(a, job[a].task, "threw", ans, job[a].seen)
      /\ job[a].task \in {"send", "release"}
      /\ (job[a].task = "send" => a = "request") /\ Sending(a)
  BY JobMoves, Whereabouts DEF CallThrows, ResolveThrows, Sends, Sending, Points, Answers
<1>4. /\ UNCHANGED <<form, sub, sent, draft>> /\ row'.status \in {row.status, "none"}
      /\ hist'.delivered = hist.delivered /\ hist'.lost >= hist.lost
      /\ FlagsStay /\ (hist'.raced <=> hist.raced) /\ (hist'.revived <=> hist.revived)
      /\ row.status = "pending"
  <2>1. /\ LostWith(a) \in {0, 1}
        /\ FlagsStay
        /\ (hist'.raced <=> hist.raced)
        /\ (hist'.revived <=> hist.revived)
    BY FlagMoves DEF CallThrows, ResolveThrows, LostWith
  <2>2. row.status = "pending"
    BY <1>3 DEF Leases, Holder, Sending
  <2>. QED
    BY <2>1, <2>2 DEF CallThrows, ResolveThrows, NoRow, HistType
<1>5. /\ job["cron"].task # "recover" /\ job["cron"].task # "settle"
      /\ \A b \in Agents \ {a} : job[b].task \notin {"send", "release"} /\ ~Sending(b)
      /\ sub.state \in {"claimed", "releasing"} /\ (sub.state = "claimed" => sent = "none")
      /\ (sub.state = "releasing" => job[a].task = "release")
  BY <1>2, <1>3, Requesting, Releasing, Whereabouts DEF Stages, Early, Leases, Holder, Sending
<1>6. Heard' /\ Recovers' /\ Early'
  BY <1>2, <1>3, <1>4, <1>5 DEF Heard, Recovers, Early, Becomes
<1>7. ByItself'
  BY <1>2, <1>3, <1>4, <1>5 DEF ByItself, Becomes, At, Sending
<1>8. Locks'
  BY <1>2, <1>3, <1>4, <1>5 DEF Locks, Becomes, At, FlagsStay
<1>9. ASSUME Undisturbed
      PROVE  Apart' /\ Reads' /\ (\A b \in Agents : WrittenTells(b)') /\ Story' /\ Shown'
  <2>1. \A b \in Agents : ~Mid(b) /\ ~Mid(b)'
    BY <1>3, <1>9 DEF Calls, Apart, Busy, Mid, Becomes
  <2>2. \A b \in Agents : job'[b].pc # "written" /\ job'[b].pc # "resolved"
    BY <1>2, <1>3, <1>5, <2>1 DEF Mid, Fits, Becomes, Agents
  <2>3. Apart' /\ Reads'
    BY <1>2, <1>3, <1>5, <2>1, <2>2 DEF Apart, Reads, Becomes
  <2>4. (\A b \in Agents : WrittenTells(b)') /\ Story'
    BY <1>4, <1>5, <2>2 DEF WrittenTells, Story
  <2>5. Shown'
    BY <1>2, <1>3, <1>4, <1>5, <1>9 DEF Calls, Shown, At, Becomes, Sending
  <2>. QED
    BY <2>3, <2>4, <2>5
<1>10. Calls'
  BY <1>4, <1>9 DEF Calls, Undisturbed, FlagsStay
<1>. QED
  BY <1>1, <1>6, <1>7, <1>8, <1>10

\* The outbox row says what the provider answered.
LEMMA ResolveTells ==
    ASSUME TInv, NEW a \in Agents, Resolve(a)
    PROVE  TInv'
<1>. USE Fields DEF TInv, IInv
<1>1. IInv'
  BY ResolveKept
<1>2. /\ {"cron", "user", "request", "queue"} \subseteq Agents
      /\ \A b \in Agents : Fits(b, job[b].task, job[b].pc)
  BY DEF Agents, Shape
<1>3. /\ Becomes(a, job[a].task, "resolved", job[a].answer, job[a].seen)
      /\ job[a].task \in {"send", "release"} /\ job[a].pc = "answered"
      /\ (job[a].task = "send" => a = "request") /\ Sending(a)
  BY JobMoves, Whereabouts DEF Resolve, Sends, Sending, Points
<1>4. /\ UNCHANGED <<form, sub, sent, draft, hist>> /\ row'.status = Resolved(job[a].answer).status
      /\ job[a].answer \in {"accepted", "transient", "permanent", "held"}
      /\ (job[a].answer = "accepted" => hist.delivered > 0)
      /\ row'.status = CASE job[a].answer = "accepted" -> "bookkeeping_pending"
                          [] job[a].answer = "permanent" -> "failed"
                          [] OTHER -> "pending"
  BY <1>3 DEF Resolve, Heard, Resolved
<1>5. /\ job["cron"].task # "recover" /\ job["cron"].task # "settle"
      /\ \A b \in Agents \ {a} : job[b].task \notin {"send", "release"} /\ ~Sending(b)
      /\ sub.state \in {"claimed", "releasing"} /\ (sub.state = "claimed" => sent = "none")
      /\ (sub.state = "releasing" => job[a].task = "release" /\ form.delayed)
  BY <1>2, <1>3, Requesting, Releasing, Whereabouts DEF Stages, Early, Leases, Holder, Sending
<1>6. Heard' /\ Recovers' /\ Early'
  BY <1>2, <1>3, <1>4, <1>5 DEF Heard, Recovers, Early, Becomes
<1>7. ByItself'
  BY <1>2, <1>3, <1>4, <1>5 DEF ByItself, Becomes, At, Sending, OnItsWay
<1>8. Locks'
  BY <1>2, <1>3, <1>4, <1>5 DEF Locks, Becomes, At
<1>9. ASSUME Undisturbed
      PROVE  Apart' /\ Reads' /\ (\A b \in Agents : WrittenTells(b)') /\ Story' /\ Shown'
  <2>1. \A b \in Agents : ~Mid(b) /\ ~Mid(b)'
    BY <1>3, <1>9 DEF Calls, Apart, Busy, Mid, Becomes
  <2>2. \A b \in Agents : job'[b].pc # "written" /\ (b # a => job'[b].pc # "resolved")
    BY <1>2, <1>3, <1>5, <2>1 DEF Mid, Fits, Becomes, Agents
  <2>3. Apart' /\ Reads'
    BY <1>2, <1>3, <1>4, <1>5, <2>1, <2>2 DEF Apart, Reads, Becomes
  <2>4. (\A b \in Agents : WrittenTells(b)') /\ Story'
    BY <1>4, <1>5, <2>2 DEF WrittenTells, Story
  <2>5. Shown'
    BY <1>2, <1>3, <1>4, <1>5, <1>9 DEF Calls, Shown, At, Becomes
  <2>. QED
    BY <2>3, <2>4, <2>5
<1>10. Calls'
  BY <1>4, <1>9 DEF Calls, Undisturbed
<1>. QED
  BY <1>1, <1>6, <1>7, <1>8, <1>10

-----------------------------------------------------------------------------
(* The retries.                                                            *)

\* A row that may be tried, or was refused, has no holder.
Free == row.status = "failed" \/ (row.status = "pending" /\ row.wait # Lease)

\* Nobody holds such a row, and no delivery is known of it.
LEMMA FreeRow ==
    ASSUME IInv
    PROVE  /\ Free => Clean /\ ~Unsent /\ \A b \in Agents : ~Holder(b) /\ ~Starting(b)
           /\ Due => Free
           /\ row.status = "pending" /\ row.wait <= CoolDown => Free
<1>. USE Fields DEF IInv
<1>1. Free => ~Unsent /\ \A b \in Agents : ~Holder(b) /\ ~Starting(b)
  BY DEF Free, Leases
<1>2. Free => Clean
  BY <1>1, Whereabouts DEF Free, Counts
<1>3. Due => Free
  BY Bounds DEF Due, Free
<1>4. row.status = "pending" /\ row.wait <= CoolDown => Free
  BY Bounds DEF Free
<1>. QED
  BY <1>1, <1>2, <1>3, <1>4

\* Who takes such a row while no other run has read it is alone with the message.
LEMMA Alone ==
    ASSUME IInv, Free, NEW a \in Agents, ~Pending(a)
    PROVE  \A b \in Agents \ {a} : ~Mid(b) /\ ~Busy(b) /\ job[b].pc \notin {"written", "resolved"}
<1>. SUFFICES ASSUME NEW b \in Agents \ {a}
              PROVE  ~Mid(b) /\ ~Busy(b) /\ job[b].pc \notin {"written", "resolved"}
  OBVIOUS
<1>1. Fits(b, job[b].task, job[b].pc) /\ b \in Agents
  BY DEF IInv, Shape
<1>2. job[b].pc \notin {"answered", "resolved", "written", "read", "recorded", "missing", "dropped",
                        "erased", "calling", "threw"}
  BY FreeRow DEF Pending, Holder
<1>3. ~Mid(b)
  BY <1>2 DEF Mid
<1>4. ~Starting(b) /\ ~Unsent
  BY FreeRow
<1>5. job[b].task # "schedule"
  BY <1>1, <1>4 DEF IInv, Stages, Unsent, Fits, Agents
<1>6. ~Busy(b)
  BY <1>1, <1>2, <1>4, <1>5 DEF Busy, Starting, Fits, SendPoints
<1>. QED
  BY <1>2, <1>3, <1>6

\* A row is revived by hand.
LEMMA ReviveTells ==
    ASSUME TInv, Revive
    PROVE  TInv'
<1>. USE Fields DEF TInv, IInv
<1>1. IInv'
  BY ReviveKept
<1>2. /\ {"cron", "user", "request", "queue"} \subseteq Agents
      /\ \A b \in Agents : Fits(b, job[b].task, job[b].pc)
  BY DEF Agents, Shape
<1>3. /\ Becomes("user", "retry", "claimed", "none", "none")
      /\ job["user"].pc = "idle"
      /\ job["user"].task = "none"
  BY <1>2, JobMoves DEF Revive, Tasks, Points, IsIdle, Fits
<1>4. /\ UNCHANGED <<form, sub, sent, draft>>
      /\ row'.status = "pending"
      /\ row.status \in {"pending", "failed"}
      /\ Free
  BY FreeRow DEF Revive, Due, RowType, Free
<1>5. /\ FlagsStay /\ hist'.revived /\ (hist'.raced <=> (hist.raced \/ Pending("user")))
      /\ hist'.delivered = hist.delivered /\ hist'.lost = hist.lost
  BY <1>2, FlagMoves, HistMoves DEF Revive, HistBecomes
<1>6. Heard' /\ Recovers' /\ Early'
  BY <1>2, <1>3, <1>4, <1>5 DEF Heard, Recovers, Early, Becomes, Seen
<1>7. ByItself'
  BY <1>5 DEF ByItself
<1>8. Locks'
  BY <1>2, <1>3, <1>4, <1>5 DEF Locks, Becomes, At, Seen, FlagsStay
<1>9. ASSUME Undisturbed'
      PROVE  Apart' /\ Reads' /\ (\A b \in Agents : WrittenTells(b)') /\ Story' /\ Shown'
  <2>1. Undisturbed /\ ~Pending("user")
    BY <1>5, <1>9 DEF Undisturbed, FlagsStay
  <2>2. \A b \in Agents \ {"user"} : ~Mid(b) /\ ~Busy(b) /\ job[b].pc \notin {"written", "resolved"}
    BY <1>2, <1>4, <2>1, Alone
  <2>3. \A b \in Agents : ~Mid(b)' /\ ~Busy(b)' /\ job'[b].pc \notin {"written", "resolved"}
    BY <1>3, <2>2 DEF Mid, Busy, Becomes
  <2>4. Apart' /\ Reads' /\ \A b \in Agents : WrittenTells(b)'
    BY <1>2, <2>3 DEF Apart, Reads, WrittenTells, Busy
  <2>5. Story'
    BY <1>3, <1>4, <1>5, <2>1, <2>2 DEF Calls, Story, Tells
  <2>6. Shown'
    BY <1>2, <1>3, <1>4, <2>1 DEF Calls, Shown, At, Becomes
  <2>. QED
    BY <2>4, <2>5, <2>6
<1>10. Calls'
  BY <1>9 DEF Calls
<1>. QED
  BY <1>1, <1>6, <1>7, <1>8, <1>10

\* A retry claims its row.
LEMMA ClaimRowTells ==
    ASSUME TInv, NEW a \in Agents, ClaimRow(a)
    PROVE  TInv'
<1>. USE Fields DEF TInv, IInv
<1>1. IInv' /\ At(a, "retry", "claimed")
  BY ClaimRowKept DEF ClaimRow
<1>2. /\ {"cron", "user", "request", "queue"} \subseteq Agents
      /\ \A b \in Agents : Fits(b, job[b].task, job[b].pc)
  BY DEF Agents, Shape
<1>3. a = "cron" \/ (a = "user" /\ hist.revived)
  BY <1>1, <1>2 DEF ByItself, At, Fits, Agents
<1>4. CASE ~Due
  <2>1. Strolls(a) /\ UNCHANGED <<form, sub, sent, draft, row, hist>>
    BY <1>4, StrollMoves DEF ClaimRow
  <2>2. Quiet(a)
    BY <1>1, <1>3, <2>1 DEF Quiet, Outside, Strolls
  <2>3. Locks'
    BY <1>1, <1>2, <2>1 DEF Locks, At, Seen, Strolls
  <2>. QED
    BY <1>1, <2>2, <2>3, QuietStep
<1>5. CASE Due
  <2>3. /\ Becomes(a, "retry", "calling", job[a].answer, job[a].seen)
        /\ job[a].pc = "claimed"
        /\ job[a].task = "retry"
    BY <1>1, <1>5, JobMoves DEF ClaimRow, Points, At
  <2>4. /\ UNCHANGED <<form, sub, sent, draft>>
        /\ row'.status = "pending"
        /\ row.status = "pending"
        /\ Free
    BY <1>5, FreeRow DEF ClaimRow, Due, RowType
  <2>5. /\ FlagsStay
        /\ (hist'.revived <=> hist.revived)
        /\ (hist'.raced <=> (hist.raced \/ Pending(a)))
        /\ hist'.delivered = hist.delivered /\ hist'.lost = hist.lost
    BY <1>5, FlagMoves, HistMoves DEF ClaimRow, HistBecomes
  <2>6. Heard' /\ Recovers' /\ Early'
    BY <1>2, <2>3, <2>4, <2>5 DEF Heard, Recovers, Early, Becomes, Seen
  <2>7. ByItself'
    BY <1>2, <1>3, <2>3, <2>4, <2>5 DEF ByItself, Becomes, At, Sending, OnItsWay
  <2>8. Locks'
    BY <1>2, <2>3, <2>4, <2>5 DEF Locks, Becomes, At, Seen, FlagsStay
  <2>9. ASSUME Undisturbed'
        PROVE  Apart' /\ Reads' /\ (\A b \in Agents : WrittenTells(b)') /\ Story' /\ Shown'
    <3>1. Undisturbed /\ ~Pending(a)
      BY <2>5, <2>9 DEF Undisturbed, FlagsStay
    <3>2. \A b \in Agents \ {a} : ~Mid(b) /\ ~Busy(b) /\ job[b].pc \notin {"written", "resolved"}
      BY <2>4, <3>1, Alone
    <3>3. \A b \in Agents :
            (Mid(b)' => b = a) /\ ~Busy(b)' /\ job'[b].pc \notin {"written", "resolved"}
      BY <2>3, <3>2 DEF Mid, Busy, Becomes
    <3>4. ~Unsent'
      BY <2>4, FreeRow DEF Unsent
    <3>5. Apart' /\ Reads' /\ \A b \in Agents : WrittenTells(b)'
      BY <1>2, <2>4, <3>3, <3>4 DEF Apart, Reads, WrittenTells, Busy
    <3>6. Story'
      BY <2>3, <2>4, <2>5, <3>1, <3>2 DEF Calls, Story, Tells, Clean
    <3>7. Shown'
      BY <1>2, <2>3, <2>4, <3>1 DEF Calls, Shown, At, Becomes
    <3>. QED
      BY <3>5, <3>6, <3>7
  <2>10. Calls'
    BY <2>9 DEF Calls
  <2>. QED
    BY <1>1, <2>6, <2>7, <2>8, <2>10
<1>. QED
  BY <1>4, <1>5

\* A row is deleted by hand.
LEMMA DiscardTells ==
    ASSUME TInv, Discard
    PROVE  TInv'
<1>. USE Fields DEF TInv, IInv
<1>1. IInv'
  BY DiscardKept
<1>2. /\ {"cron", "user", "request", "queue"} \subseteq Agents
      /\ \A b \in Agents : Fits(b, job[b].task, job[b].pc)
  BY DEF Agents, Shape
<1>3. /\ Becomes("user", "retry", "written", "canceled", "none")
      /\ job["user"].pc = "idle"
      /\ job["user"].task = "none"
  BY <1>2, JobMoves DEF Discard, Tasks, Points, Answers, IsIdle, Fits
<1>4. /\ UNCHANGED <<form, sub, sent, draft>>
      /\ row'.status = "none"
      /\ row.status \in {"pending", "failed"}
      /\ Free
  BY FreeRow DEF Discard, Due, NoRow, Free
<1>5. /\ FlagsStay
      /\ (hist'.revived <=> hist.revived)
      /\ (hist'.raced <=> (hist.raced \/ Pending("user")))
      /\ hist'.delivered = hist.delivered /\ hist'.lost = hist.lost
  BY <1>2, FlagMoves, HistMoves DEF Discard, HistBecomes
<1>6. \A b \in Agents : ~Sending(b)
  BY <1>4, FreeRow DEF Sending, Holder
<1>7. Heard' /\ Recovers' /\ Early'
  BY <1>2, <1>3, <1>4, <1>5 DEF Heard, Recovers, Early, Becomes, Seen
<1>8. ByItself'
  BY <1>2, <1>3, <1>4, <1>5, <1>6 DEF ByItself, Becomes, At, Sending
<1>9. Locks'
  BY <1>2, <1>3, <1>4, <1>5 DEF Locks, Becomes, At, Seen, FlagsStay
<1>10. ASSUME Undisturbed'
       PROVE  Apart' /\ Reads' /\ (\A b \in Agents : WrittenTells(b)') /\ Story' /\ Shown'
  <2>1. Undisturbed /\ ~Pending("user")
    BY <1>5, <1>10 DEF Undisturbed, FlagsStay
  <2>2. \A b \in Agents \ {"user"} : ~Mid(b) /\ ~Busy(b) /\ job[b].pc \notin {"written", "resolved"}
    BY <1>2, <1>4, <2>1, Alone
  <2>3. \A b \in Agents : /\ (Mid(b)' => b = "user") /\ ~Busy(b)'
                          /\ b # "user" => job'[b].pc \notin {"written", "resolved"}
    BY <1>3, <2>2 DEF Mid, Busy, Becomes
  <2>4. ~Unsent' /\ Clean'
    BY <1>4, <1>5, FreeRow DEF Unsent, Clean
  <2>5. Apart' /\ Reads' /\ \A b \in Agents : WrittenTells(b)'
    BY <1>2, <1>3, <1>4, <2>3, <2>4 DEF Apart, Reads, WrittenTells, Busy, Becomes
  <2>6. Story'
    BY <1>2, <1>3 DEF Story, Becomes
  <2>7. Shown'
    BY <1>2, <1>3, <1>4, <2>1 DEF Calls, Shown, At, Becomes
  <2>. QED
    BY <2>5, <2>6, <2>7
<1>11. Calls'
  BY <1>10 DEF Calls
<1>. QED
  BY <1>1, <1>7, <1>8, <1>9, <1>11


\* A retry writes what came of its attempt: the Sent row when the message was
\* accepted, else the outbox row.
LEMMA FirstWriteTells ==
    ASSUME TInv, NEW a \in Agents, FirstWrite(a)
    PROVE  TInv'
<1>. DEFINE ans == IF job[a].answer = "transient" /\ ~Retries(a) THEN "permanent" ELSE job[a].answer
<1>. USE Fields DEF TInv, IInv
<1>1. IInv' /\ TypeOK
  BY FirstWriteKept
<1>2. /\ {"cron", "user", "request", "queue"} \subseteq Agents
      /\ \A b \in Agents : Fits(b, job[b].task, job[b].pc)
  BY DEF Agents, Shape
<1>3. /\ Becomes(a, "retry", "written", ans, job[a].seen)
      /\ job[a].task = "retry"
      /\ job[a].pc = "answered"
  <2>1. ans \in Answers
    BY DEF JobType, Answers
  <2>2. job' = [job EXCEPT ![a] = [job[a] EXCEPT !.pc = "written", !.answer = ans]]
    BY DEF FirstWrite, JobType
  <2>. HIDE DEF ans
  <2>3. job' = [job EXCEPT ![a].pc = "written", ![a].answer = ans]
    BY <2>2 DEF JobType
  <2>4. Becomes(a, job[a].task, "written", ans, job[a].seen)
    BY <2>1, <2>3, JobMoves, Zenon DEF Points, Answers
  <2>. QED
    BY <2>4 DEF FirstWrite, At, Becomes
<1>4. /\ job[a].answer \in {"accepted", "transient", "permanent", "held", "suppressed"}
      /\ job[a].answer = "accepted" => hist.delivered > 0
      /\ (ans = "accepted" <=> job[a].answer = "accepted") /\ ans # "none"
  BY <1>3 DEF Heard
<1>5. /\ UNCHANGED <<form, sub, draft, hist>>
      /\ job[a].answer = "accepted" => row' = row /\ sent' = SentSet("sent")
      /\ job[a].answer # "accepted" => sent' = sent
      /\ ans \in {"transient", "held"} => row'.status = row.status
      /\ ans \notin {"accepted", "transient", "held"} => row'.status \in {"none", "failed"}
      /\ row.status = "none" => row'.status = "none"
  <2>1. CASE job[a].answer \in {"accepted", "suppressed"}
    BY <1>1, <2>1, RowSteps DEF FirstWrite, RowBecomes, Retries
  <2>2. CASE job[a].answer \notin {"accepted", "suppressed"} /\ Retries(a)
    <3>1. RowBecomes(row.status, 0)
      BY <1>1, <2>2, RowSteps DEF FirstWrite
    <3>. QED
      BY <1>4, <2>2, <3>1 DEF FirstWrite, RowBecomes, Retries
  <2>3. CASE job[a].answer \notin {"accepted", "suppressed"} /\ ~Retries(a)
    <3>1. RowBecomes(IF row.status = "none" THEN "none" ELSE "failed", 0)
      BY <1>1, <2>3, RowSteps DEF FirstWrite
    <3>. QED
      BY <1>4, <2>3, <3>1 DEF FirstWrite, RowBecomes, Retries
  <2>. QED
    BY <2>1, <2>2, <2>3
<1>. HIDE DEF ans
<1>6. /\ sent' = "none" <=> sent = "none"
      /\ row.status \in {"pending", "none"} /\ row'.status \in {row.status, "none", "failed"}
      /\ \A b \in Agents : Sending(b) => b = a
      /\ ~Clean /\ row.status = "pending" => job[a].answer = "accepted"
  <2>1. Holder(a) /\ \A b \in Agents : Holder(b) => b = a
    BY <1>3 DEF Holder, Leases
  <2>2. row.status \in {"pending", "none"}
    BY <2>1 DEF Leases
  <2>3. ~Clean /\ row.status = "pending" => Told(a)
    BY <2>1, Whereabouts DEF Counts
  <2>4. \A b \in Agents : Sending(b) => Holder(b)
    BY DEF Sending, Holder
  <2>5. sent' = "none" <=> sent = "none"
    BY <1>5, "sent" # "none" DEF SentSet
  <2>6. row'.status \in {row.status, "none", "failed"}
    BY <1>4, <1>5
  <2>. QED
    BY <2>1, <2>2, <2>3, <2>4, <2>5, <2>6 DEF Told
<1>7. Heard' /\ Recovers' /\ Early'
  BY <1>2, <1>3, <1>4, <1>5, <1>6 DEF Heard, Recovers, Early, Becomes, Seen
<1>8. ByItself'
  BY <1>2, <1>3, <1>5, <1>6 DEF ByItself, Becomes, At, Sending, OnItsWay
<1>9. Locks'
  BY <1>2, <1>3, <1>5, <1>6 DEF Locks, Becomes, At, Seen
<1>10. ASSUME Undisturbed
       PROVE  Apart' /\ Reads' /\ (\A b \in Agents : WrittenTells(b)') /\ Story' /\ Shown'
  <2>1. Mid(a) /\ row.status = "pending" /\ \A b \in Agents : ~Busy(b) /\ (Mid(b) => b = a)
    BY <1>3, <1>10 DEF Calls, Apart, Mid
  <2>2. \A b \in Agents : (Mid(b)' <=> Mid(b)) /\ (Busy(b)' <=> Busy(b))
    BY <1>3 DEF Mid, Busy, Becomes
  <2>3. \A b \in Agents : (job'[b].pc = "written" => b = a) /\ job'[b].pc # "resolved"
    BY <1>2, <1>3, <2>1, <2>2, Whereabouts DEF Mid, Busy, Becomes, Fits, Agents
  <2>4. Apart' /\ Reads'
    BY <1>2, <1>3, <1>5, <1>10, <2>1, <2>2, <2>3 DEF Calls, Apart, Unsent, Reads, Busy, Becomes
  <2>5. \A b \in Agents : WrittenTells(b)'
    BY <1>3, <1>4, <1>5, <1>6, <2>1, <2>3 DEF WrittenTells, Becomes, SentSet, Clean
  <2>6. Story' /\ Shown'
    BY <1>2, <1>3, <1>5, <1>6, <1>10, <2>1 DEF Calls, Story, Shown, At, Becomes
  <2>. QED
    BY <2>4, <2>5, <2>6
<1>11. Calls'
  BY <1>5, <1>10 DEF Calls, Undisturbed
<1>. QED
  BY <1>1, <1>7, <1>8, <1>9, <1>11

\* And then the other row, so that the two agree.
LEMMA SecondWriteTells ==
    ASSUME TInv, NEW a \in Agents, SecondWrite(a)
    PROVE  TInv'
<1>. USE Fields DEF TInv, IInv
<1>1. IInv' /\ TypeOK
  BY SecondWriteKept
<1>2. /\ {"cron", "user", "request", "queue"} \subseteq Agents
      /\ \A b \in Agents : Fits(b, job[b].task, job[b].pc)
  BY DEF Agents, Shape
<1>3. Becomes(a, "none", "idle", "none", "none") /\ job[a].task = "retry" /\ job[a].pc = "written"
  BY JobMoves DEF SecondWrite, At
<1>4. /\ UNCHANGED <<form, sub, draft, hist>>
      /\ job[a].answer = "accepted" =>
           /\ sent' = sent
           /\ row'.status = IF row.status = "none" THEN "none" ELSE "bookkeeping_pending"
      /\ job[a].answer # "accepted" => row' = row
      /\ job[a].answer \in {"transient", "held"} => sent' = SentSet("retrying")
      /\ job[a].answer \notin {"accepted", "transient", "held"} => sent' = SentSet("failed")
  BY <1>1, RowSteps DEF SecondWrite, RowBecomes
<1>5. /\ sent' = "none" <=> sent = "none"
      /\ job[a].answer = "accepted" =>
           hist.delivered > 0 /\ row.status \in {"pending", "none"} /\ \A b \in Agents : ~Sending(b)
  BY <1>3, <1>4, Whereabouts DEF SentSet, Heard, Told, Holder, Leases, Sending
<1>6. Heard' /\ Recovers' /\ Early'
  BY <1>2, <1>3, <1>4, <1>5 DEF Heard, Recovers, Early, Becomes, Seen
<1>7. ByItself'
  BY <1>2, <1>3, <1>4, <1>5 DEF ByItself, Becomes, At, Sending, OnItsWay
<1>8. Locks'
  BY <1>2, <1>3, <1>4, <1>5 DEF Locks, Becomes, At, Seen
<1>9. ASSUME Undisturbed
      PROVE  Apart' /\ Reads' /\ (\A b \in Agents : WrittenTells(b)') /\ Story' /\ Shown'
  <2>1. Mid(a) /\ WrittenTells(a) /\ \A b \in Agents : ~Busy(b) /\ (Mid(b) => b = a)
    BY <1>3, <1>9 DEF Calls, Apart, Mid
  <2>2. \A b \in Agents : ~Mid(b)' /\ ~Busy(b)' /\ job'[b].pc \notin {"written", "resolved"}
    BY <1>2, <1>3, <2>1, Whereabouts DEF Mid, Busy, Becomes, Fits, Agents
  <2>3. Apart' /\ Reads' /\ \A b \in Agents : WrittenTells(b)'
    BY <1>2, <2>2 DEF Apart, Reads, WrittenTells, Busy
  <2>4. Story'
    <3>1. ASSUME sub.state \in {"claimed", "accepted"}, sent # "none" PROVE Tells'
      <4>1. CASE job[a].answer = "accepted"
        BY <1>3, <1>4, <1>5, <2>1, <3>1, <4>1 DEF WrittenTells, Tells
      <4>2. CASE job[a].answer # "accepted"
        BY <1>3, <1>4, <2>1, <3>1, <4>2 DEF WrittenTells, Tells, SentSet, Clean
      <4>. QED
        BY <4>1, <4>2
    <3>. QED
      BY <1>4, <1>5, <3>1 DEF Story
  <2>5. Shown'
    <3>1. CASE sub.state # "releasing"
      BY <1>2, <1>3, <1>4, <1>5, <1>9, <3>1 DEF Calls, Shown, At, Becomes
    <3>2. CASE sub.state = "releasing" /\ sent = "none"
      BY <1>2, <1>3, <1>4, <1>5, <1>9, <2>1, <3>2 DEF Calls, Shown, At, Becomes
    <3>. QED
      BY <1>5, <3>1, <3>2, <1>4 DEF Shown
  <2>. QED
    BY <2>3, <2>4, <2>5
<1>10. Calls'
  BY <1>4, <1>9 DEF Calls, Undisturbed
<1>. QED
  BY <1>1, <1>6, <1>7, <1>8, <1>10


-----------------------------------------------------------------------------
(* The recovery.                                                           *)

\* While the recovery works on a claimed submission, its request is over and
\* nobody releases it.
LEMMA Recovering ==
    ASSUME IInv, job["cron"].task = "recover", job["cron"].pc \notin {"accepted", "abandon"}
    PROVE  /\ sub.state = "claimed" /\ sub.age = RecoveryAge
           /\ \A b \in Agents : job[b].task \notin {"send", "schedule", "release", "settle"}
           /\ \A b \in Agents : Sending(b) => b = "user" /\ job[b].task = "retry"
           /\ \A b \in Agents : job[b].pc # "resolved"
<1>. USE Fields DEF IInv
<1>1. /\ {"cron", "user", "request", "queue"} \subseteq Agents
      /\ \A b \in Agents : Fits(b, job[b].task, job[b].pc)
  BY DEF Agents, Shape
<1>2. sub.state = "claimed" /\ sub.age = RecoveryAge
  BY DEF Stages
<1>3. job["request"].pc = "idle" /\ job["request"].task = "none"
  BY <1>1, <1>2, Bounds DEF Stages, Fits
<1>4. \A b \in Agents : job[b].task \notin {"send", "schedule", "release", "settle"}
  BY <1>1, <1>2, <1>3 DEF Stages, Fits, Agents
<1>5. \A b \in Agents : job[b].task = "retry" /\ b # "user" => FALSE
  BY <1>1, <1>3 DEF Fits, Agents
<1>6. \A b \in Agents : Sending(b) => job[b].task \in {"send", "release", "retry"}
  BY Whereabouts DEF Sending, Holder
<1>7. \A b \in Agents : job[b].pc # "resolved"
  BY <1>1, <1>4 DEF Fits, Agents
<1>. QED
  BY <1>2, <1>4, <1>5, <1>6, <1>7

\* The Sent row of a message the outbox has.
LEMMA RecordClaimedTells ==
    ASSUME TInv, RecordClaimed
    PROVE  TInv'
<1>. USE Fields DEF TInv, IInv
<1>1. IInv'
  BY RecordClaimedKept
<1>2. /\ {"cron", "user", "request", "queue"} \subseteq Agents
      /\ \A b \in Agents : Fits(b, job[b].task, job[b].pc)
  BY DEF Agents, Shape
<1>3. Becomes("cron", "recover", "recorded", job["cron"].answer, job["cron"].seen)
      /\ job["cron"].task = "recover" /\ job["cron"].pc = "read"
  BY <1>2, JobMoves DEF RecordClaimed, At, Points
<1>4. /\ UNCHANGED <<form, sub, draft, row, hist>> /\ sent' # "none"
      /\ \/ Seen("bookkeeping_pending") /\ sent' = "sent"
         \/ Seen("pending") /\ sent' = IF sent = "none" THEN "retrying" ELSE sent
  BY DEF RecordClaimed
<1>5. sub.state = "claimed" /\ sub.age = RecoveryAge
      /\ \A b \in Agents : job[b].task \notin {"send", "schedule", "release", "settle"}
  BY <1>3, Recovering
<1>6. Heard' /\ Recovers' /\ Early'
  BY <1>2, <1>3, <1>4, <1>5 DEF Heard, Recovers, Early, Becomes, Seen
<1>7. ByItself'
  BY <1>2, <1>3, <1>4, <1>5 DEF ByItself, Becomes, At, Sending, OnItsWay
<1>8. Locks'
  BY <1>2, <1>3, <1>4, <1>5 DEF Locks, Becomes, At, Seen
<1>9. ASSUME Undisturbed
      PROVE  Apart' /\ Reads' /\ (\A b \in Agents : WrittenTells(b)') /\ Story' /\ Shown'
  <2>1. \A b \in Agents : ~Mid(b) /\ ~Mid(b)'
    BY <1>2, <1>3, <1>9 DEF Calls, Apart, Busy, Mid, Becomes
  <2>2. \A b \in Agents : job[b].pc # "written" /\ job'[b].pc # "written"
    BY <1>3, <2>1, Whereabouts DEF Mid, Becomes
  <2>3. Apart' /\ Reads' /\ \A b \in Agents : WrittenTells(b)'
    BY <1>2, <1>3, <1>4, <1>9, <2>1, <2>2 DEF Calls, Apart, Reads, Seen, WrittenTells, Becomes
  <2>4. Tells'
    <3>1. CASE Seen("bookkeeping_pending")
      BY <1>2, <1>3, <1>4, <3>1 DEF Recovers, Heard, Seen, Tells
    <3>2. CASE Seen("pending")
      <4>1. row.status = "pending"
        BY <1>3, <1>9, <3>2 DEF Calls, Reads, Seen
      <4>. QED
        BY <1>4, <1>5, <1>9, <2>2, <3>2, <4>1 DEF Calls, Story, Tells, Clean, Seen
    <3>. QED
      BY <1>4, <3>1, <3>2
  <2>. QED
    BY <1>4, <2>3, <2>4 DEF Story, Shown
<1>10. Calls'
  BY <1>4, <1>9 DEF Calls, Undisturbed
<1>. QED
  BY <1>1, <1>6, <1>7, <1>8, <1>10

\* The submission of such a message is accepted; its draft comes next.
LEMMA AcceptClaimedTells ==
    ASSUME TInv, AcceptClaimed
    PROVE  TInv'
<1>. USE Fields DEF TInv, IInv
<1>1. IInv'
  BY AcceptClaimedKept
<1>2. /\ {"cron", "user", "request", "queue"} \subseteq Agents
      /\ \A b \in Agents : Fits(b, job[b].task, job[b].pc)
  BY DEF Agents, Shape
<1>3. job["cron"].task = "recover" /\ job["cron"].pc \in {"read", "recorded"}
  BY DEF AcceptClaimed, At
<1>4. sub.state = "claimed" /\ sub.age = RecoveryAge
      /\ \A b \in Agents : job[b].task \notin {"send", "schedule", "release", "settle"}
  BY <1>3, Recovering
<1>5. /\ UNCHANGED <<form, sent, draft, row, hist>> /\ sub'.state = "accepted" /\ sub'.age = sub.age
  BY <1>4 DEF AcceptClaimed, SubType
<1>6. \/ /\ Becomes("cron", "recover", "accepted", job["cron"].answer, job["cron"].seen)
         /\ job["cron"].pc = "recorded" /\ (Seen("pending") \/ Seen("bookkeeping_pending"))
      \/ /\ Becomes("cron", "none", "idle", "none", "none")
         /\ job["cron"].pc = "read" /\ Known
  <2>1. job["cron"].pc = "recorded" => Seen("pending") \/ Seen("bookkeeping_pending")
    BY <1>3 DEF Recovers
  <2>2. Known => job["cron"].pc = "read"
    BY <1>3, <2>1 DEF Known, Seen
  <2>3. CASE Known
    BY <1>2, <2>2, <2>3, JobMoves DEF AcceptClaimed
  <2>4. CASE ~Known
    <3>1. Go("cron", "accepted") /\ job["cron"].pc = "recorded"
      BY <2>4 DEF AcceptClaimed, At
    <3>2. Becomes("cron", job["cron"].task, "accepted", job["cron"].answer, job["cron"].seen)
      BY <1>2, <3>1, JobMoves DEF Points
    <3>. QED
      BY <1>3, <2>1, <3>1, <3>2 DEF Becomes
  <2>. QED
    BY <2>3, <2>4
<1>7. Heard' /\ Recovers' /\ Early'
  BY <1>2, <1>3, <1>4, <1>5, <1>6 DEF Heard, Recovers, Early, Becomes, Seen
<1>8. ByItself'
  BY <1>2, <1>3, <1>4, <1>5, <1>6 DEF ByItself, Becomes, At, Sending, OnItsWay
<1>9. Locks'
  BY <1>2, <1>3, <1>4, <1>5, <1>6 DEF Locks, Recovers, Known, Becomes, At, Seen
<1>10. ASSUME Undisturbed
       PROVE  Apart' /\ Reads' /\ (\A b \in Agents : WrittenTells(b)') /\ Story' /\ Shown'
  <2>1. \A b \in Agents : ~Mid(b) /\ ~Mid(b)'
    BY <1>2, <1>3, <1>6, <1>10 DEF Calls, Apart, Busy, Mid, Becomes
  <2>2. \A b \in Agents : job[b].pc # "written" /\ job'[b].pc # "written"
    BY <1>3, <1>6, <2>1, Whereabouts DEF Mid, Becomes
  <2>3. sent # "none"
    BY <1>3, <1>6, <1>10 DEF Calls, Shown, At, Known
  <2>4. Apart' /\ Reads' /\ \A b \in Agents : WrittenTells(b)'
    BY <1>2, <1>5, <1>6, <1>10, <2>1, <2>2 DEF Calls, Apart, Reads, WrittenTells, Becomes
  <2>5. Tells'
    BY <1>4, <1>5, <1>10, <2>2, <2>3 DEF Calls, Story, Tells, Clean
  <2>. QED
    BY <1>5, <2>3, <2>4, <2>5 DEF Story, Shown
<1>11. Calls'
  BY <1>5, <1>10 DEF Calls, Undisturbed
<1>. QED
  BY <1>1, <1>7, <1>8, <1>9, <1>11

\* A message that will be tried again keeps its draft queued, one that went out
\* needs its outbox row no more.
LEMMA ConfirmClaimedTells ==
    ASSUME TInv, ConfirmClaimed
    PROVE  TInv'
<1>. USE Fields DEF TInv, IInv
<1>1. IInv'
  BY ConfirmClaimedKept
<1>2. /\ {"cron", "user", "request", "queue"} \subseteq Agents
      /\ \A b \in Agents : Fits(b, job[b].task, job[b].pc)
  BY DEF Agents, Shape
<1>3. Becomes("cron", "none", "idle", "none", "none") /\ At("cron", "recover", "accepted")
  BY <1>2, JobMoves DEF ConfirmClaimed
<1>4. /\ UNCHANGED <<form, sub, sent, hist>> /\ sub.state = "accepted"
      /\ \/ Seen("pending") /\ row' = row
            /\ draft' = IF draft \in {"submitting", "queued"} THEN "queued" ELSE draft
         \/ Seen("bookkeeping_pending") /\ draft' = draft /\ row'.status = "none"
            /\ row.status = "bookkeeping_pending"
  BY <1>3 DEF ConfirmClaimed, Stages, Recovers, At, Seen, ConfirmedRow, NoRow
<1>5. \A b \in Agents : /\ job[b].task \notin {"send", "schedule", "release", "settle"}
                        /\ job[b].pc # "resolved"
  BY <1>2, <1>3, <1>4 DEF Stages, Fits, Agents, At
<1>6. Heard' /\ Recovers' /\ Early'
  BY <1>2, <1>3, <1>4, <1>5 DEF Heard, Recovers, Early, Becomes, Seen
<1>7. ByItself'
  BY <1>2, <1>3, <1>4, <1>5 DEF ByItself, Becomes, At, Sending, OnItsWay
<1>8. Locks'
  BY <1>2, <1>3, <1>4, <1>5 DEF Locks, Becomes, At, Seen
<1>9. ASSUME Undisturbed
      PROVE  Apart' /\ Reads' /\ (\A b \in Agents : WrittenTells(b)') /\ Story' /\ Shown'
  <2>1. Apart /\ Reads /\ (\A b \in Agents : WrittenTells(b)) /\ Story /\ Shown
    BY <1>9 DEF Calls
  <2>2. \A b \in Agents : (Mid(b)' <=> Mid(b)) /\ (Busy(b)' <=> Busy(b))
                          /\ (job'[b].pc = "written" <=> job[b].pc = "written")
    BY <1>3 DEF Mid, Busy, Becomes, At
  <2>3. row.status = "bookkeeping_pending" => \A b \in Agents : ~Mid(b) /\ job[b].pc # "written"
    BY <2>1, Whereabouts DEF Apart, Mid, WrittenTells
  <2>4. Apart' /\ Reads'
    BY <1>2, <1>3, <1>4, <1>5, <2>1, <2>2, <2>3 DEF Apart, Unsent, Reads, Becomes
  <2>5. \A b \in Agents : WrittenTells(b)'
    BY <1>3, <1>4, <2>1, <2>3 DEF WrittenTells, Clean, Becomes
  <2>6. Story'
    BY <1>3, <1>4, <2>1, <2>2 DEF Story, Tells, Clean
  <2>. QED
    BY <1>3, <1>4, <2>1, <2>4, <2>5, <2>6 DEF Shown
<1>10. Calls'
  BY <1>4, <1>9 DEF Calls, Undisturbed
<1>. QED
  BY <1>1, <1>6, <1>7, <1>8, <1>10

\* A message that did not go out leaves nothing: the Sent row goes first, the
\* submission last.
LEMMA AbandonTells ==
    ASSUME TInv, AbandonSent \/ AbandonRow \/ AbandonSubmission
    PROVE  TInv'
<1>. USE Fields DEF TInv, IInv
<1>1. IInv'
  BY AbandonSentKept, AbandonRowKept, AbandonSubmissionKept
<1>2. /\ {"cron", "user", "request", "queue"} \subseteq Agents
      /\ \A b \in Agents : Fits(b, job[b].task, job[b].pc)
  BY DEF Agents, Shape
<1>3. /\ \A b \in Agents \ {"cron"} : job'[b] = job[b]
      /\ job["cron"].task = "recover" /\ job["cron"].pc \in {"read", "erased", "dropped"}
      /\ job'["cron"].task = "recover" /\ job'["cron"].pc \in {"erased", "dropped", "abandon"}
      /\ job["cron"].pc = "dropped" <=> job'["cron"].pc = "abandon"
      /\ job'["cron"].pc = "dropped" => row'.status = "none"
      /\ job'["cron"].pc # "dropped" => row' = row
  <2>1. job["cron"].task = "recover" /\ job["cron"].pc \in {"read", "erased", "dropped"}
    BY DEF AbandonSent, AbandonRow, AbandonSubmission, At
  <2>2. \E p \in {"erased", "dropped", "abandon"} :
          /\ Becomes("cron", job["cron"].task, p, job["cron"].answer, job["cron"].seen)
          /\ job["cron"].pc = "dropped" <=> p = "abandon"
          /\ p = "dropped" => row' = NoRow
          /\ p # "dropped" => row' = row
    BY <1>2, JobMoves DEF AbandonSent, AbandonRow, AbandonSubmission, At, Points
  <2>. QED
    BY <2>1, <2>2 DEF Becomes, NoRow
<1>4. /\ sub.state = "claimed" /\ sub.age = RecoveryAge
      /\ \A b \in Agents : /\ job[b].task \notin {"send", "schedule", "release", "settle"}
                           /\ job[b].pc # "resolved"
      /\ \A b \in Agents : Sending(b) => b = "user" /\ job[b].task = "retry"
  BY <1>3, Recovering
<1>5. /\ UNCHANGED <<form, draft, hist>> /\ sent' = "none" /\ sub'.age = sub.age
      /\ sub'.state = IF job["cron"].pc = "dropped" THEN "gone" ELSE "claimed"
  BY <1>3, <1>4 DEF AbandonSent, AbandonRow, AbandonSubmission, At, Dropped, SubType, Recovers
<1>6. Heard' /\ Recovers' /\ Early'
  BY <1>2, <1>3, <1>4, <1>5 DEF Heard, Recovers, Early, Seen
<1>7. ~hist.revived => \A b \in Agents : ~Sending(b)
  BY <1>2, <1>4 DEF ByItself, Sending
<1>8. ByItself'
  BY <1>2, <1>3, <1>4, <1>5, <1>7 DEF ByItself, At, Sending
<1>9. Locks'
  BY <1>2, <1>3, <1>4, <1>5 DEF Locks, ByItself, At
<1>10. ASSUME Undisturbed
       PROVE  Apart' /\ Reads' /\ (\A b \in Agents : WrittenTells(b)') /\ Story' /\ Shown'
  <2>1. \A b \in Agents : ~Mid(b) /\ ~Mid(b)'
    BY <1>2, <1>3, <1>10 DEF Calls, Apart, Busy, Mid
  <2>2. \A b \in Agents : job'[b].pc # "written" /\ job'[b].pc # "resolved"
    BY <1>3, <1>4, <2>1, Whereabouts DEF Mid
  <2>. QED
    BY <1>2, <1>3, <1>5, <2>1, <2>2 DEF Apart, Reads, WrittenTells, Story, Shown, At
<1>11. Calls'
  BY <1>5, <1>10 DEF Calls, Undisturbed
<1>. QED
  BY <1>1, <1>6, <1>8, <1>9, <1>11


-----------------------------------------------------------------------------
(* What the author sees.                                                   *)

\* Nothing has been asked for at the start.
LEMMA InitTells ==
    ASSUME Init
    PROVE  TInv
<1>1. IInv
  BY InitIInv
<1>2. \A a \in Agents : job[a].task = "none" /\ job[a].pc \in {"new", "idle"}
  BY DEF Init, Idle
<1>3. /\ {"cron", "user", "request", "queue"} \subseteq Agents
      /\ sub.state = "none"
      /\ row.status = "none"
      /\ sent = "none"
  BY DEF Agents, Init, NoRow
<1>4. Heard /\ Recovers /\ Early
  BY <1>2, <1>3 DEF Heard, Recovers, Early
<1>5. ByItself /\ Locks
  BY <1>2, <1>3 DEF ByItself, Locks, At, Sending
<1>6. Calls
  BY <1>2, <1>3 DEF Calls, Apart, Mid, Reads, WrittenTells, Story, Shown, At
<1>. QED
  BY <1>1, <1>4, <1>5, <1>6 DEF TInv

\* Every step of every agent keeps it.
LEMMA NextTells ==
    ASSUME TInv, [Next]_vars
    PROVE  TInv'
<1>0. "user" \in Agents /\ "cron" \in Agents
  BY DEF Agents
<1>1. ASSUME Request PROVE TInv'
  BY <1>1, CreateTells, ScheduleTells, GiveUpTells, RecordAcceptedTells DEF Request
<1>2. ASSUME Recover PROVE TInv'
  BY <1>2, ReadTells, RecordClaimedTells, AcceptClaimedTells, ConfirmClaimedTells, AbandonTells,
     PassTells, SettleReleasingTells DEF Recover
<1>3. ASSUME Hourly \/ RestoreOwed PROVE TInv'
  BY <1>0, <1>2, <1>3, ReleaseTells, PassTells, ReleaseAppliedTells, OwnerTells DEF Hourly
<1>4. ASSUME User PROVE TInv'
  BY <1>0, <1>4, ReviveTells, DiscardTells, OwnerTells DEF User
<1>5. ASSUME NEW a \in Agents, Send(a) \/ SendThrows(a) PROVE TInv'
  BY <1>5, WriteAheadTells, WithholdTells, TransportTells, ResolveTells, ThrewTells,
     SendThrowsTells, ReleasesTell DEF Send, SendThrows
<1>6. ASSUME NEW a \in Agents, Die(a) \/ Release(a) \/ FailChecks(a) PROVE TInv'
  BY <1>6, DieTells, LookForSentTells, ReleasesTell, RecordReleaseTells, FailChecksTells DEF Release
<1>7. ASSUME NEW a \in Agents, Retry(a) \/ Restore(a) PROVE TInv'
  BY <1>7, ClaimRowTells, FirstWriteTells, SecondWriteTells, OwnerTells DEF Retry, Restore
<1>8. ASSUME NEW a \in Agents, Step(a) PROVE TInv'
  BY <1>8, StepsTell, RevealTells DEF Step
<1>9. ASSUME SetPause \/ UNCHANGED vars PROVE TInv'
  <2>1. IInv'
    BY NextIInv DEF TInv
  <2>2. UNCHANGED <<form, sub, sent, draft, row, job, hist>>
    BY <1>9 DEF SetPause, vars
  <2>. QED
    BY <2>1, <2>2, IdleTells
<1>. QED
  BY <1>1, <1>3, <1>4, <1>5, <1>6, <1>7, <1>8, <1>9, ReleaseTells, TickTells DEF Next

\* What the author sees of the draft and of the Sent row is so: a draft that may
\* be submitted again has no send of it under way, and the Sent row of a
\* submission nobody works on says what the outbox has.  The rows are written by
\* the request, the release, the retry and the recovery, in statements of their
\* own (jmap/lib/submissions.ts, jmap/lib/recovery.ts, lib/outbox.ts).
THEOREM StatesTellAlways == Spec => []StatesTell
<1>1. Init => TInv
  BY InitTells
<1>2. TInv /\ [Next]_vars => TInv'
  BY NextTells
<1>3. TInv => StatesTell
  BY TInvTells
<1>. QED
  BY <1>1, <1>2, <1>3, PTL DEF Spec

-----------------------------------------------------------------------------
(* The refinement of UndoableSend.                                         *)

UndoStep == [Undo!Next]_Undo!vars

\* The steps of the promise that the actions below map to.
LEMMA UndoMoves ==
    ASSUME hist.delivered \in Nat, hist'.delivered \in Nat
    PROVE  /\ Fate' = Fate /\ hist'.delivered = hist.delivered /\ (Armed' => Armed) => UndoStep
           /\ /\ hist'.delivered = hist.delivered /\ (Armed' <=> Armed)
              /\ \/ Fate = "none" /\ Fate' \in {"waiting", "going"}
                 \/ Fate = "waiting" /\ Fate' \in {"canceled", "going"}
                 \/ Fate \in {"none", "waiting", "canceled"} /\ Fate' = "dropped" /\ ~Armed
                 \/ Fate = "going" /\ Fate' \in {"waiting", "canceled", "dropped"} /\ ~Armed
              => UndoStep
           /\ /\ hist'.delivered = hist.delivered /\ (Armed' => Armed)
              /\ Fate = "going" /\ Fate' \in {"dropped", "final"}
              => UndoStep
           /\ /\ hist'.delivered = hist.delivered /\ Armed'
              /\ Fate = "going" /\ Fate' = Fate
              => UndoStep
           /\ hist'.delivered >= hist.delivered /\ Armed /\ Armed' /\ Fate' = Fate => UndoStep
<1>1. Armed \in BOOLEAN /\ Armed' \in BOOLEAN
  BY DEF Armed
<1>2. (Armed' => Armed) => (Armed' = Armed \/ (Armed /\ Armed' = FALSE))
  BY <1>1
<1>3. (Armed' <=> Armed) => Armed' = Armed
  BY <1>1
<1>4. hist'.delivered = hist.delivered => (hist'.delivered > 0) = (hist.delivered > 0)
  OBVIOUS
<1>5. Armed' => Armed' = TRUE
  BY <1>1
<1>6. hist'.delivered >= hist.delivered =>
        \/ (hist'.delivered > 0) = (hist.delivered > 0)
        \/ (hist'.delivered > 0) = TRUE
  OBVIOUS
<1>. HIDE DEF Fate, Armed
<1>7. Fate' = Fate /\ hist'.delivered = hist.delivered /\ (Armed' => Armed) => UndoStep
  BY <1>2, <1>4 DEF UndoStep, Undo!Next, Undo!vars, Undo!Disarm
<1>8. /\ hist'.delivered = hist.delivered /\ (Armed' <=> Armed)
      /\ \/ Fate = "none" /\ Fate' \in {"waiting", "going"}
         \/ Fate = "waiting" /\ Fate' \in {"canceled", "going"}
         \/ Fate \in {"none", "waiting", "canceled"} /\ Fate' = "dropped" /\ ~Armed
         \/ Fate = "going" /\ Fate' \in {"waiting", "canceled", "dropped"} /\ ~Armed
      => UndoStep
  BY <1>3, <1>4 DEF UndoStep, Undo!Next, Undo!Accept, Undo!TakeBack, Undo!Start, Undo!Reject,
     Undo!Undo
<1>9. /\ hist'.delivered = hist.delivered /\ (Armed' => Armed)
      /\ Fate = "going" /\ Fate' \in {"dropped", "final"}
      => UndoStep
  BY <1>2, <1>4 DEF UndoStep, Undo!Next, Undo!Refuse, Undo!Finish
<1>10. hist'.delivered = hist.delivered /\ Armed' /\ Fate = "going" /\ Fate' = Fate => UndoStep
  BY <1>4, <1>5 DEF UndoStep, Undo!Next, Undo!Arm
<1>11. hist'.delivered >= hist.delivered /\ Armed /\ Armed' /\ Fate' = Fate => UndoStep
  BY <1>1, <1>3, <1>6 DEF UndoStep, Undo!Next, Undo!vars, Undo!Leave
<1>. QED
  BY <1>7, <1>8, <1>9, <1>10, <1>11

\* One agent moves to the given point.
Stands(a, p) == job'[a].pc = p /\ \A b \in Agents \ {a} : job'[b] = job[b]

\* A run that moves stands where it moved to.
LEMMA StandMoves ==
    ASSUME TypeOK, NEW a \in Agents
    PROVE  /\ \A j : job' = [job EXCEPT ![a] = j] => Stands(a, j.pc)
           /\ \A p : Go(a, p) => Stands(a, p)
           /\ \A t, p : Begin(a, t, p) => Stands(a, p)
           /\ End(a) => Stands(a, "idle")
           /\ \A p, ans : job' = [job EXCEPT ![a].pc = p, ![a].answer = ans] => Stands(a, p)
           /\ \A ans : Answer(a, ans) => Stands(a, "answered")
           /\ job' = job => Stands(a, job[a].pc)
<1>1. job \in [Agents -> JobType] /\ job[a] \in JobType
  BY DEF TypeOK
<1>2. \A j : job' = [job EXCEPT ![a] = j] => Stands(a, j.pc)
  BY <1>1 DEF Stands
<1>3. \A p, ans : /\ [job[a] EXCEPT !.pc = p].pc = p
                  /\ [job[a] EXCEPT !.pc = p, !.answer = ans].pc = p
  BY <1>1 DEF JobType
<1>4. ASSUME NEW p, Go(a, p) PROVE Stands(a, p)
  BY <1>1, <1>3, <1>4 DEF Go, Stands
<1>5. ASSUME NEW t, NEW p, Begin(a, t, p) PROVE Stands(a, p)
  BY <1>1, <1>5 DEF Begin, Stands
<1>6. End(a) => Stands(a, "idle")
  BY <1>1 DEF End, Idle, Stands
<1>7. ASSUME NEW p, NEW ans, job' = [job EXCEPT ![a].pc = p, ![a].answer = ans] PROVE Stands(a, p)
  <2>. DEFINE j == [job[a] EXCEPT !.pc = p, !.answer = ans]
  <2>1. job' = [job EXCEPT ![a] = j]
    BY <1>1, <1>7
  <2>2. j.pc = p
    BY <1>3
  <2>. HIDE DEF j
  <2>3. Stands(a, j.pc)
    BY <1>2, <2>1
  <2>. QED
    BY <2>2, <2>3
<1>8. \A ans : Answer(a, ans) => Stands(a, "answered")
  BY <1>7 DEF Answer
<1>9. job' = job => Stands(a, job[a].pc)
  BY DEF Stands
<1>. QED
  BY <1>2, <1>4, <1>5, <1>6, <1>7, <1>8, <1>9

\* Nothing new can send the message.
LEMMA NoArming ==
    ASSUME NEW a \in Agents, NEW p, Stands(a, p), p \in {"calling", "answered"} => Armed,
           row'.status \in {"pending", "failed"} => Armed
    PROVE  Armed' => Armed
<1>1. \A b \in Agents : Sending(b)' => Armed
  BY DEF Stands, Sending, Armed
<1>. QED
  BY <1>1 DEF Armed

\* A step that leaves the submission's fate alone.
LEMMA StillMove ==
    ASSUME IInv, NEW a \in Agents, NEW p, Stands(a, p), p \in {"calling", "answered"} => Armed,
           row'.status \in {"pending", "failed"} => Armed,
           sub'.state = sub.state, sub'.undo = sub.undo, form' = form,
           hist'.delivered = hist.delivered
    PROVE  UndoStep
<1>1. Armed' => Armed
  BY NoArming
<1>2. Fate' = Fate
  BY DEF Fate
<1>3. hist.delivered \in Nat
  BY Fields DEF IInv
<1>. QED
  BY <1>1, <1>2, <1>3, UndoMoves

\* The steps that touch neither the outbox row nor the submission's state.
LEMMA RowsStill ==
    ASSUME IInv, NEW a \in Agents, NEW p, Stands(a, p),
           p \notin {"calling", "answered"} \/ p = job[a].pc,
           UNCHANGED <<row, form>>, sub'.state = sub.state, sub'.undo = sub.undo,
           hist'.delivered = hist.delivered
    PROVE  UndoStep
<1>1. p \in {"calling", "answered"} => Armed
  BY DEF Armed, Sending
<1>2. row'.status \in {"pending", "failed"} => Armed
  BY DEF Armed
<1>. QED
  BY <1>1, <1>2, StillMove

\* Reading, and claiming a submission that stays claimed, change no promise.
LEMMA ReadSteps ==
    ASSUME IInv, \/ ListDue \/ ReadClaimed \/ ReadReleasing \/ RecordClaimed \/ AbandonSent
                 \/ ReleaseClaim \/ RestoreOwed
    PROVE  UndoStep
<1>. DEFINE quiet == UNCHANGED <<row, form, sub>> /\ hist'.delivered = hist.delivered
<1>1. TypeOK /\ "cron" \in Agents /\ hist \in HistType
  BY Fields DEF IInv, Agents
<1>2. ASSUME ListDue \/ RestoreOwed \/ RecordClaimed \/ AbandonSent \/ ReleaseClaim
      PROVE  quiet /\ \E p \in {"claimed", "move", "recorded", "erased", "idle"} : Stands("cron", p)
  BY <1>1, <1>2, StandMoves DEF ListDue, RestoreOwed, RecordClaimed, AbandonSent, ReleaseClaim
<1>3. ASSUME ReadClaimed \/ ReadReleasing PROVE quiet /\ Stands("cron", "read")
  <2>1. PICK t, s : job' = [job EXCEPT !["cron"] = [Idle EXCEPT !.task = t, !.pc = "read", !.seen = s]]
    BY <1>3 DEF ReadClaimed, ReadReleasing
  <2>2. [Idle EXCEPT !.task = t, !.pc = "read", !.seen = s].pc = "read"
    BY DEF Idle
  <2>3. Stands("cron", "read")
    BY <1>1, <2>1, <2>2, StandMoves
  <2>4. quiet
    BY <1>1, <1>3 DEF ReadClaimed, ReadReleasing, HistType
  <2>. QED
    BY <2>3, <2>4
<1>4. quiet /\ \E p \in {"claimed", "move", "recorded", "erased", "idle", "read"} : Stands("cron", p)
  BY <1>2, <1>3
<1>. QED
  BY <1>1, <1>4, RowsStill

\* Nor do the steps that put the Email in its place,
LEMMA StepSteps ==
    ASSUME IInv, NEW a \in Agents, SelectStep(a) \/ Ensure(a) \/ Recreate(a) \/ File(a) \/ Reveal(a)
    PROVE  UndoStep
<1>1. TypeOK /\ sub \in SubType /\ job \in [Agents -> JobType] /\ job[a] \in JobType
  BY Fields DEF IInv
<1>2. UNCHANGED <<row, form, hist>>
  BY DEF SelectStep, Ensure, Recreate, File, Reveal
<1>3. sub'.state = sub.state /\ sub'.undo = sub.undo
  BY <1>1 DEF SelectStep, Ensure, Recreate, File, Reveal, SubType
<1>4. CASE SelectStep(a)
  <2>. DEFINE j == IF StepOwed THEN [Idle EXCEPT !.task = "step", !.pc = "selected", !.seen = sub.state]
                   ELSE Idle
  <2>1. job' = [job EXCEPT ![a] = j]
    BY <1>4 DEF SelectStep
  <2>2. j.pc \in {"selected", "idle"}
    BY DEF Idle
  <2>. HIDE DEF j
  <2>. QED
    BY <1>1, <1>2, <1>3, <2>1, <2>2, StandMoves, RowsStill
<1>5. CASE Ensure(a)
  <2>1. \A s : [job[a] EXCEPT !.pc = "missing", !.seen = s].pc = "missing"
    BY <1>1 DEF JobType
  <2>2. /\ [job[a] EXCEPT !.pc = "found"].pc = "found"
        /\ [job[a] EXCEPT !.pc = "deleted"].pc = "deleted"
    BY <1>1 DEF JobType
  <2>3. PICK j : job' = [job EXCEPT ![a] = j] /\ j.pc \in {"missing", "found", "deleted"}
    BY <1>5, <2>1, <2>2 DEF Ensure
  <2>. QED
    BY <1>1, <1>2, <1>3, <2>3, StandMoves, RowsStill
<1>6. CASE Recreate(a) \/ File(a) \/ Reveal(a)
  <2>1. \E p \in {"found", "filed", "idle"} : Stands(a, p)
    BY <1>1, <1>6, StandMoves DEF Recreate, File, Reveal
  <2>. QED
    BY <1>1, <1>2, <1>3, <2>1, RowsStill
<1>. QED
  BY <1>4, <1>5, <1>6

\* the moves of its owner,
LEMMA MoveSteps ==
    ASSUME IInv, NEW a \in Agents, Move(a) \/ CheckMove(a) \/ LookForSent(a) \/ (a = "user" /\ Erase)
                                   \/ (a = "user" /\ ClientMove) \/ (a = "request" /\ UndoSchedule)
    PROVE  UndoStep
<1>1. TypeOK /\ sub \in SubType /\ hist \in HistType
  BY Fields DEF IInv
<1>2. UNCHANGED <<row, form>> /\ hist'.delivered = hist.delivered
  BY <1>1 DEF Move, CheckMove, LookForSent, Erase, ClientMove, UndoSchedule, HistType
<1>3. sub'.state = sub.state /\ sub'.undo = sub.undo
  BY <1>1 DEF Move, Moved, CheckMove, LookForSent, Erase, ClientMove, UndoSchedule, SubType
<1>4. \E p \in {"idle", "check", "missing", "found", "abandon", job[a].pc} : Stands(a, p)
  BY <1>1, StandMoves DEF Move, CheckMove, LookForSent, Erase, ClientMove, UndoSchedule
<1>. QED
  BY <1>2, <1>3, <1>4, RowsStill

\* the outbox's own upkeep and the clock,
LEMMA WorldSteps ==
    ASSUME IInv, UnlockQueued \/ SetPause \/ Tick \/ ReleaseApplied
    PROVE  UndoStep
<1>1. TypeOK /\ sub \in SubType /\ row \in RowType /\ "cron" \in Agents
  BY Fields DEF IInv, Agents
<1>2. UNCHANGED <<form, hist, job>> /\ Stands("cron", job["cron"].pc)
  BY <1>1, StandMoves DEF UnlockQueued, SetPause, Tick, ReleaseApplied
<1>3. sub'.state = sub.state /\ sub'.undo = sub.undo
  BY <1>1 DEF UnlockQueued, SetPause, Tick, ReleaseApplied, SubType
<1>4. row'.status \in {row.status, "none"}
  BY <1>1 DEF UnlockQueued, SetPause, Tick, ReleaseApplied, Later, NoRow, RowType
<1>5. row'.status \in {"pending", "failed"} => Armed
  BY <1>4 DEF Armed
<1>6. job["cron"].pc \in {"calling", "answered"} => Armed
  BY <1>1 DEF Armed, Sending
<1>. QED
  BY <1>1, <1>2, <1>3, <1>5, <1>6, StillMove

\* or the death of a run, or of its last statement.
LEMMA DieSteps ==
    ASSUME IInv, NEW a \in Agents, Die(a) \/ ResolveThrows(a) \/ Withhold(a)
    PROVE  UndoStep
<1>1. TypeOK /\ hist \in HistType
  BY Fields DEF IInv
<1>2. UNCHANGED <<row, form, sub>> /\ hist'.delivered = hist.delivered
  BY <1>1 DEF Die, ResolveThrows, Withhold, HistType
<1>3. \E p \in {"idle", "threw"} : Stands(a, p) \/ (Stands(a, "answered") /\ job[a].pc = "calling")
  BY <1>1, StandMoves DEF Die, ResolveThrows, Withhold
<1>4. job[a].pc = "calling" => Armed
  BY DEF Armed, Sending
<1>5. row'.status \in {"pending", "failed"} => Armed
  BY <1>2 DEF Armed
<1>. QED
  BY <1>2, <1>3, <1>4, <1>5, StillMove

\* The steps that write the outbox row.
LEMMA RowWrites ==
    ASSUME IInv, NEW a \in Agents,
           \/ CallThrows(a) \/ Resolve(a) \/ ClaimRow(a) \/ FirstWrite(a) \/ SecondWrite(a)
           \/ a = "user" /\ (Revive \/ Discard)
           \/ a = "cron" /\ (ConfirmClaimed \/ AbandonRow)
    PROVE  UndoStep
<1>1. TypeOK /\ hist \in HistType /\ row \in RowType /\ sub \in SubType
  BY Fields DEF IInv
<1>2. UNCHANGED <<form, sub>>
  BY DEF CallThrows, Resolve, ClaimRow, FirstWrite, SecondWrite, Revive, Discard, ConfirmClaimed,
     AbandonRow
<1>3. hist'.delivered = hist.delivered
  BY <1>1 DEF CallThrows, Resolve, ClaimRow, FirstWrite, SecondWrite, Revive, Discard,
     ConfirmClaimed, AbandonRow, Raced, HistType
<1>4. CASE job[a].pc \in {"calling", "answered"}
  <2>1. Armed
    BY <1>4 DEF Armed, Sending
  <2>2. \E p : Stands(a, p)
    BY <1>1, StandMoves DEF CallThrows, Resolve, ClaimRow, FirstWrite, SecondWrite, Revive,
       Discard, ConfirmClaimed, AbandonRow
  <2>. QED
    BY <1>2, <1>3, <2>1, <2>2, StillMove
<1>5. CASE row.status \in {"pending", "failed"}
  <2>1. Armed
    BY <1>5 DEF Armed
  <2>2. \E p : Stands(a, p)
    BY <1>1, StandMoves DEF CallThrows, Resolve, ClaimRow, FirstWrite, SecondWrite, Revive,
       Discard, ConfirmClaimed, AbandonRow
  <2>. QED
    BY <1>2, <1>3, <2>1, <2>2, StillMove
<1>6. CASE row.status \notin {"pending", "failed"} /\ job[a].pc \notin {"calling", "answered"}
  <2>1. row'.status \notin {"pending", "failed"}
    BY <1>1, <1>6 DEF CallThrows, Resolve, ClaimRow, FirstWrite, SecondWrite, Revive, Discard,
       ConfirmClaimed, AbandonRow, At, Due, RowSet, NoRow, ConfirmedRow, RowType
  <2>2. \E p \in {"idle", "written", "dropped"} : Stands(a, p)
    <3>1. CASE a = "user" /\ Discard
      <4>. DEFINE j == [task |-> "retry", pc |-> "written", answer |-> "canceled", seen |-> "none"]
      <4>1. job' = [job EXCEPT ![a] = j] /\ j.pc = "written"
        BY <3>1 DEF Discard
      <4>. HIDE DEF j
      <4>2. Stands(a, j.pc)
        BY <1>1, <4>1, StandMoves
      <4>. QED
        BY <4>1, <4>2
    <3>2. CASE ~(a = "user" /\ Discard)
      BY <1>1, <1>6, <3>2, StandMoves DEF CallThrows, Resolve, ClaimRow, FirstWrite, SecondWrite,
         Revive, ConfirmClaimed, AbandonRow, Due
    <3>. QED
      BY <3>1, <3>2
  <2>. QED
    BY <1>2, <1>3, <2>1, <2>2, StillMove
<1>. QED
  BY <1>4, <1>5, <1>6

\* While a submission waits, or a release finds no row, nothing can send it.
LEMMA Disarmed ==
    ASSUME IInv, Unsent \/ (sub.state = "releasing" /\ row.status = "none")
    PROVE  ~Armed
<1>. USE Fields DEF IInv
<1>1. row.status = "none"
  BY DEF Leases
<1>2. \A a \in Agents : Sending(a) => Holder(a) /\ job[a].pc # "threw"
  BY DEF Sending, Holder
<1>3. \A a \in Agents : ~Sending(a)
  BY <1>1, <1>2 DEF Leases, Over
<1>. QED
  BY <1>1, <1>3 DEF Armed

\* A step that turns the fate of a submission nothing can send.
LEMMA DisarmedMove ==
    ASSUME IInv, NEW a \in Agents, NEW p, Stands(a, p), p \notin {"calling", "answered"},
           Unsent \/ (sub.state = "releasing" /\ row.status = "none"), row'.status \in {row.status, "none"},
           hist'.delivered = hist.delivered,
           \/ Fate = "none" /\ Fate' \in {"waiting", "going"}
           \/ Fate = "waiting" /\ Fate' \in {"canceled", "going"}
           \/ Fate \in {"none", "waiting", "canceled"} /\ Fate' = "dropped"
           \/ Fate = "going" /\ Fate' \in {"waiting", "canceled", "dropped"}
           \/ Fate' = Fate
    PROVE  UndoStep
<1>1. ~Armed
  BY Disarmed
<1>2. ~Armed'
  BY <1>1, NoArming DEF Armed
<1>3. hist.delivered \in Nat
  BY Fields DEF IInv
<1>. QED
  BY <1>1, <1>2, <1>3, UndoMoves

\* A step that ends a submission that goes.
LEMMA EndMove ==
    ASSUME IInv, NEW a \in Agents, NEW p, Stands(a, p), p \notin {"calling", "answered"},
           row'.status \in {row.status, "none"}, hist'.delivered = hist.delivered,
           Fate = "going", Fate' \in {"dropped", "final"}
    PROVE  UndoStep
<1>1. Armed' => Armed
  BY NoArming DEF Armed
<1>2. hist.delivered \in Nat
  BY Fields DEF IInv
<1>. QED
  BY <1>1, <1>2, UndoMoves

\* A submission is asked for, or scheduled.
LEMMA CreateSteps ==
    ASSUME IInv, Create \/ Schedule \/ ScheduleThrows
    PROVE  UndoStep
<1>. USE Fields DEF IInv
<1>1. "request" \in Agents /\ UNCHANGED <<row, hist, form>>
  BY DEF Agents, Create, Schedule, ScheduleThrows
<1>2. CASE Create
  <2>1. sub.state = "none"
    BY <1>2 DEF Create, Stages
  <2>2. sub'.state = "claimed"
    BY <1>2 DEF Create, SubType
  <2>3. \E p \in {"claimed"} : Stands("request", p)
    BY <1>1, <1>2, StandMoves DEF Create
  <2>4. Fate = "none" /\ Fate' \in {"none", "going"}
    BY <1>1, <2>1, <2>2 DEF Fate
  <2>. QED
    BY <1>1, <2>1, <2>3, <2>4, DisarmedMove DEF Unsent
<1>3. CASE Schedule \/ ScheduleThrows
  <2>1. sub.state = "claimed" /\ form.delayed /\ sub.undo = "pending"
    BY <1>3 DEF Schedule, ScheduleThrows, Stages, At
  <2>2. sub' = sub \/ (sub'.state = "scheduled" /\ sub'.undo = "pending")
    BY <1>3, <2>1 DEF Schedule, ScheduleThrows, SubType
  <2>3. \E p \in {"ready", "undo"} : Stands("request", p)
    BY <1>1, <1>3, StandMoves DEF Schedule, ScheduleThrows
  <2>4. Fate = "none" /\ Fate' \in {"none", "waiting"}
    BY <1>1, <2>1, <2>2 DEF Fate
  <2>. QED
    BY <1>1, <2>1, <2>3, <2>4, DisarmedMove DEF Unsent
<1>. QED
  BY <1>2, <1>3

\* The request, or the recovery, drops the submission.
LEMMA DropSteps ==
    ASSUME IInv, NEW a \in Agents, NEW p, Stands(a, p), p \notin {"calling", "answered"},
           sub.state = "claimed" \/ (form.delayed /\ sub.state = "scheduled"), sub' = Dropped,
           row'.status \in {row.status, "none"}, UNCHANGED <<hist, form>>
    PROVE  UndoStep
<1>1. sub'.state = "gone"
  BY DEF Dropped
<1>2. Fate' = "dropped"
  BY <1>1 DEF Fate
<1>3. CASE form.delayed
  <2>1. Fate \in {"none", "waiting", "canceled"} /\ Unsent
    BY <1>3 DEF Fate, Unsent
  <2>. QED
    BY <1>2, <2>1, DisarmedMove
<1>4. CASE ~form.delayed
  <2>1. Fate = "going"
    BY <1>4 DEF Fate
  <2>. QED
    BY <1>2, <2>1, EndMove
<1>. QED
  BY <1>3, <1>4

\* A request gives up before anything went out.
LEMMA GiveUpSteps ==
    ASSUME IInv, GiveUp \/ RecordRefused \/ (Threw("request") /\ row.status = "none")
    PROVE  UndoStep
<1>. USE Fields DEF IInv
<1>1. "request" \in Agents
  BY DEF Agents
<1>2. AbandonIntention("request") /\ job["request"].task \in {"send", "schedule"}
  <2>1. CASE GiveUp \/ RecordRefused
    BY <2>1 DEF GiveUp, RecordRefused, At
  <2>2. CASE Threw("request") /\ row.status = "none"
    <3>1. job["request"].task = "send"
      BY <1>1, <2>2, Whereabouts DEF Threw
    <3>. QED
      BY <2>2, <3>1 DEF Threw
  <2>. QED
    BY <2>1, <2>2
<1>3. sub.state = "claimed" \/ (form.delayed /\ sub.state = "scheduled")
  BY <1>2 DEF Stages
<1>4. /\ Stands("request", "idle")
      /\ sub' = Dropped
      /\ row'.status = "none"
      /\ UNCHANGED <<hist, form>>
  BY <1>1, <1>2, StandMoves DEF AbandonIntention, NoRow
<1>. QED
  BY <1>1, <1>3, <1>4, DropSteps

\* So does the recovery of a request that died.
LEMMA AbandonSteps ==
    ASSUME IInv, AbandonSubmission
    PROVE  UndoStep
<1>1. "cron" \in Agents /\ TypeOK
  BY Fields DEF IInv, Agents
<1>2. sub.state = "claimed"
  BY DEF IInv, AbandonSubmission, Stages, At
<1>3. Stands("cron", "abandon") /\ sub' = Dropped /\ UNCHANGED <<row, hist, form>>
  BY <1>1, StandMoves DEF AbandonSubmission
<1>. QED
  BY <1>1, <1>2, <1>3, DropSteps

\* The claim of a release is given back.
LEMMA UnclaimSteps ==
    ASSUME IInv, NEW a \in Agents, Stands(a, "idle"), sub.state = "releasing", row.status = "none",
           sub' = Unclaimed \/ \E u \in Undos : sub' = [Unclaimed EXCEPT !.undo = u],
           UNCHANGED <<row, hist, form>>
    PROVE  UndoStep
<1>1. sub'.state = "scheduled"
  BY Fields DEF IInv, Unclaimed, SubType
<1>2. Fate = "going" /\ Fate' \in {"waiting", "canceled"}
  BY <1>1 DEF Fate
<1>. QED
  BY <1>2, DisarmedMove

\* A release without a row gives the submission back.
LEMMA BackSteps ==
    ASSUME IInv, NEW a \in Agents,
           \/ CancelMissing(a) \/ StagingThrows(a)
           \/ Threw(a) /\ job[a].task # "send" /\ row.status = "none"
           \/ a = "cron" /\ SettleReleasing /\ Seen("none")
    PROVE  UndoStep
<1>. USE Fields DEF IInv
<1>1. sub.state = "releasing" /\ row.status = "none"
  BY DEF CancelMissing, StagingThrows, Threw, SettleReleasing, Seen, Stages, Leases, Starting, At
<1>2. Stands(a, "idle")
  BY StandMoves DEF CancelMissing, StagingThrows, Threw, SettleReleasing
<1>3. sub' = Unclaimed \/ \E u \in Undos : sub' = [Unclaimed EXCEPT !.undo = u]
  <2>1. CASE CancelMissing(a)
    BY <1>1, <2>1 DEF CancelMissing, Undos
  <2>2. CASE ~CancelMissing(a)
    BY <2>2 DEF StagingThrows, Threw, SettleReleasing
  <2>. QED
    BY <2>1, <2>2
<1>4. UNCHANGED <<row, hist, form>>
  BY DEF CancelMissing, StagingThrows, Threw, SettleReleasing
<1>. QED
  BY <1>1, <1>2, <1>3, <1>4, UnclaimSteps

\* A row that survived the error: the agent lets go of it.
LEMMA LetGoSteps ==
    ASSUME IInv, NEW a \in Agents, Threw(a), row.status # "none"
    PROVE  UndoStep
<1>1. TypeOK
  BY Fields DEF IInv
<1>2. Stands(a, "idle") /\ UNCHANGED <<row, form, sub, hist>>
  BY <1>1, StandMoves DEF Threw
<1>. QED
  BY <1>2, RowsStill

\* The author takes the message back.
LEMMA TakeBackSteps ==
    ASSUME IInv, NEW a \in Agents, (a = "user" /\ (Cancel \/ Delete)) \/ SettleDeleted(a)
    PROVE  UndoStep
<1>. USE Fields DEF IInv
<1>1. UNCHANGED <<row, hist, form>>
  BY DEF Cancel, Delete, SettleDeleted
<1>2. sub'.state = sub.state
  BY DEF Cancel, Delete, SettleDeleted, SubType
<1>3. sub'.undo = sub.undo \/ (Waiting /\ sub'.undo = "canceled")
  BY DEF Cancel, Cancelable, Delete, SettleDeleted, SubType
<1>4. \E p \in {"idle", "move", "erased", job[a].pc} : Stands(a, p)
  BY StandMoves DEF Cancel, Delete, SettleDeleted
<1>5. CASE sub'.undo = sub.undo
  BY <1>1, <1>2, <1>4, <1>5, RowsStill
<1>6. CASE Waiting /\ sub'.undo = "canceled"
  <2>1. Unsent /\ Fate = "waiting" /\ Fate' = "canceled"
    BY <1>2, <1>6 DEF Waiting, Unsent, Fate
  <2>2. ~(job[a].pc \in {"calling", "answered"})
    BY <2>1 DEF Leases, Holder
  <2>. QED
    BY <1>1, <1>4, <2>1, <2>2, DisarmedMove
<1>. QED
  BY <1>3, <1>5, <1>6

\* A release claims the message.
LEMMA ReleaseSteps ==
    ASSUME IInv, ReleaseByQueue \/ ReleaseBySweep
    PROVE  UndoStep
<1>. USE Fields DEF IInv
<1>1. UNCHANGED <<row, hist, form>> /\ "cron" \in Agents /\ "queue" \in Agents
  BY DEF ReleaseByQueue, ReleaseBySweep, Agents
<1>2. ASSUME NEW a \in {"cron", "queue"}, Claimable, Claim(a) PROVE UndoStep
  <2>1. Unsent /\ sub.state = "scheduled" /\ sub.undo = "pending"
    BY <1>2 DEF Claimable, Waiting, Unsent
  <2>2. sub'.state = "releasing"
    BY <1>2 DEF Claim, SubType
  <2>3. Fate = "waiting" /\ Fate' = "going"
    BY <2>1, <2>2 DEF Fate
  <2>4. Stands(a, "claimed") /\ a \in Agents
    BY <1>1, <1>2, StandMoves DEF Claim
  <2>. QED
    BY <1>1, <2>1, <2>3, <2>4, DisarmedMove
<1>3. ASSUME UNCHANGED <<sub, job>> PROVE UndoStep
  <2>1. Stands("cron", job["cron"].pc)
    BY <1>1, <1>3, StandMoves
  <2>. QED
    BY <1>1, <1>3, <2>1, RowsStill
<1>. QED
  BY <1>2, <1>3 DEF ReleaseByQueue, ReleaseBySweep

\* The submission turns final.
LEMMA FinishSteps ==
    ASSUME IInv, NEW a \in Agents,
           \/ a = "request" /\ RecordAccepted
           \/ FailChecks(a) \/ RecordRelease(a)
           \/ a = "cron" /\ ((SettleReleasing /\ ~Seen("none")) \/ AcceptClaimed)
    PROVE  UndoStep
<1>. USE Fields DEF IInv
<1>1. UNCHANGED <<hist, form>>
  BY DEF RecordAccepted, FailChecks, RecordRelease, FailRelease, SettleReleasing, AcceptClaimed
<1>2. row'.status \in {row.status, "none"}
  BY DEF RecordAccepted, FailChecks, RecordRelease, FailRelease, SettleReleasing, AcceptClaimed,
     ConfirmedRow, NoRow
<1>3. \E p \in {"ready", "idle", "accepted"} : Stands(a, p)
  BY StandMoves DEF RecordAccepted, FailChecks, RecordRelease, FailRelease, SettleReleasing,
     AcceptClaimed
<1>4. CASE (a = "request" /\ RecordAccepted) \/ (a = "cron" /\ AcceptClaimed)
  <2>1. sub.state = "claimed" /\ ~form.delayed
    <3>1. CASE RecordAccepted
      BY <3>1 DEF RecordAccepted, At, Stages
    <3>2. CASE AcceptClaimed
      <4>1. sub.state = "claimed"
        BY <3>2 DEF AcceptClaimed, At, Stages
      <4>. QED
        BY <3>2, <4>1 DEF AcceptClaimed, At, Places, Known
    <3>. QED
      BY <1>4, <3>1, <3>2
  <2>2. sub'.state = "accepted"
    BY <1>4, <2>1 DEF RecordAccepted, AcceptClaimed, SubType
  <2>3. Fate = "going" /\ Fate' = "final"
    BY <2>1, <2>2 DEF Fate
  <2>. QED
    BY <1>1, <1>2, <1>3, <2>3, EndMove
<1>5. CASE FailChecks(a) \/ RecordRelease(a) \/ (a = "cron" /\ SettleReleasing /\ ~Seen("none"))
  <2>1. sub.state = "releasing" /\ sub' = Accepted
    BY <1>5 DEF FailChecks, RecordRelease, FailRelease, SettleReleasing, At, Stages
  <2>2. sub'.state = "accepted"
    BY <2>1 DEF Accepted, SubType
  <2>3. Fate = "going" /\ Fate' = "final"
    BY <2>1, <2>2 DEF Fate
  <2>. QED
    BY <1>1, <1>2, <1>3, <2>3, EndMove
<1>. QED
  BY <1>4, <1>5

\* The row is written ahead, and the message handed over.
LEMMA SendSteps ==
    ASSUME IInv, NEW a \in Agents, WriteAhead(a) \/ Transport(a)
    PROVE  UndoStep
<1>. USE Fields DEF IInv
<1>1. CASE WriteAhead(a)
  <2>1. UNCHANGED <<hist, form, sub>> /\ row'.status = "pending"
    BY <1>1 DEF WriteAhead
  <2>2. Armed'
    BY <2>1 DEF Armed
  <2>3. Fate = "going" /\ Fate' = Fate
    <3>1. sub.state = "releasing" \/ (sub.state = "claimed" /\ ~form.delayed)
      BY <1>1, Whereabouts DEF WriteAhead, At, Stages
    <3>. QED
      BY <2>1, <3>1 DEF Fate
  <2>. QED
    BY <2>1, <2>2, <2>3, UndoMoves
<1>2. CASE Transport(a)
  <2>1. UNCHANGED <<form, sub, row>> /\ job[a].pc = "calling"
    BY <1>2 DEF Transport
  <2>2. Stands(a, "answered")
    BY <1>2, StandMoves DEF Transport
  <2>3. Armed /\ Armed'
    BY <2>1, <2>2 DEF Armed, Sending, Stands
  <2>4. hist'.delivered \in {hist.delivered, hist.delivered + 1}
    BY <1>2 DEF Transport, HistType
  <2>5. Fate' = Fate
    BY <2>1 DEF Fate
  <2>. QED
    BY <2>3, <2>4, <2>5, UndoMoves
<1>. QED
  BY <1>1, <1>2

\* Every step is one of the promise, or a stutter.
LEMMA NextUndo ==
    ASSUME IInv, [Next]_vars
    PROVE  UndoStep
<1>. USE DEF Agents
<1>1. ASSUME Request PROVE UndoStep
  BY <1>1, CreateSteps, MoveSteps, GiveUpSteps, FinishSteps DEF Request
<1>2. ASSUME Recover PROVE UndoStep
  BY <1>2, ReadSteps, FinishSteps, BackSteps, RowWrites, AbandonSteps DEF Recover
<1>3. ASSUME Hourly PROVE UndoStep
  BY <1>2, <1>3, ReleaseSteps, ReadSteps, WorldSteps DEF Hourly
<1>4. ASSUME User PROVE UndoStep
  BY <1>4, RowWrites, TakeBackSteps, MoveSteps DEF User
<1>5. ASSUME NEW a \in Agents, Threw(a) PROVE UndoStep
  <2>1. CASE row.status = "none" /\ job[a].task = "send"
    <3>1. a = "request"
      BY <2>1, Whereabouts DEF IInv
    <3>. QED
      BY <1>5, <2>1, <3>1, GiveUpSteps
  <2>2. CASE row.status = "none" /\ job[a].task # "send"
    BY <1>5, <2>2, BackSteps
  <2>3. CASE row.status # "none"
    BY <1>5, <2>3, LetGoSteps
  <2>. QED
    BY <2>1, <2>2, <2>3
<1>6. ASSUME NEW a \in Agents, Send(a) \/ SendThrows(a) PROVE UndoStep
  BY <1>5, <1>6, SendSteps, DieSteps, RowWrites, BackSteps DEF Send, SendThrows
<1>7. ASSUME NEW a \in Agents, Die(a) \/ Release(a) \/ FailChecks(a) PROVE UndoStep
  BY <1>7, DieSteps, MoveSteps, BackSteps, FinishSteps DEF Release
<1>8. ASSUME NEW a \in Agents, Retry(a) \/ Restore(a) \/ Step(a) PROVE UndoStep
  BY <1>8, RowWrites, MoveSteps, StepSteps, TakeBackSteps DEF Retry, Restore, Step
<1>9. ASSUME UNCHANGED vars PROVE UndoStep
  <2>1. "cron" \in Agents /\ Stands("cron", job["cron"].pc)
    BY <1>9 DEF vars, Stands
  <2>. QED
    BY <1>9, <2>1, RowsStill DEF vars
<1>. QED
  BY <1>1, <1>3, <1>4, <1>6, <1>7, <1>8, <1>9, ReleaseSteps, ReadSteps, WorldSteps DEF Next

\* A held send can be taken back until it goes, waits again only when nothing of
\* it can still leave, and nothing leaves while it waits or after it was taken
\* back: the claims of jmap/lib/submissions.ts and the outbox row implement that.
THEOREM Implements == Spec => Undoable
<1>1. ASSUME Init PROVE Undo!Init
  <2>1. \A a \in Agents : ~Sending(a)
    BY <1>1 DEF Init, Sending, Idle
  <2>2. row.status = "none" /\ sub.state = "none" /\ hist.delivered = 0
    BY <1>1 DEF Init, NoRow
  <2>. QED
    BY <2>1, <2>2 DEF Undo!Init, Fate, Armed
<1>2. ASSUME IInv, [Next]_vars PROVE [Undo!Next]_Undo!vars
  BY <1>2, NextUndo DEF UndoStep
<1>. QED
  BY <1>1, <1>2, Invariance, PTL DEF Spec, Undoable, Undo!Spec

-----------------------------------------------------------------------------
(***************************************************************************)
(* The change log and a client that follows it.                            *)
(***************************************************************************)
-----------------------------------------------------------------------------
(* The inductive invariant.                                                *)

\* The rows me may be told of.
Concerns(r) == r.owner = me \/ (r.owner = Nobody /\ r.exclude # me)

\* Rows are numbered in the order they are written, none twice.
LogShape ==
    /\ IsFiniteSet(log)
    /\ \A r \in log : r.seq <= lastSeq /\ r.at <= now
    /\ \A r, o \in log : r.seq = o.seq => r = o
    /\ \A r, o \in log : r.seq < o.seq => r.at <= o.at

\* me sees what it has a content of; a draft filed into Sent is no draft.
StoreShape ==
    /\ \A i \in Ids : (shown[i] = 0) = ~Visible(store, me, i)
    /\ store.sent = "filed" => ~store.draft
    /\ store.draft \/ store.sent # "none" => "draft" \in store.used

\* The last row about an id says whether me sees it.
Latest(r) == Concerns(r) /\ \A o \in log : Concerns(o) /\ o.id = r.id => o.seq <= r.seq
LogTells == \A r \in log : Latest(r) => (r.op = "d") = ~Visible(store, me, r.id)

\* A row past a position about an id.
Reported(i, seq) ==
    \E r \in log : Concerns(r) /\ r.seq > seq /\ (scene.view = "mailbox" \/ r.id = i)

\* A position has its rows ahead of it, and those are no older than its day.
Follows(s, scope) ==
    /\ s.seq <= lastSeq /\ s.issuedAt <= now
    /\ scope => \A r \in log : Concerns(r) /\ r.seq > s.seq => r.at >= s.issuedAt

InDate(s) == s.issuedAt + StateMaxAge >= now

\* What the client holds of an id is right, or will be reported, or a ghost.
Good(i, s, scope) ==
    \/ client.held[i] = Content(scope, i)
    \/ scope /\ Reported(i, s.seq)
    \/ i \in client.ghosts

ScopeOf(s) == s.fp[2]

ClientShape ==
    /\ scene.view = "query" => \A i \in Ids : client.held[i] \in {0, 1}
    /\ client.state # NoState =>
         /\ client.state.fp \in Fingerprints
         /\ Follows(client.state, ScopeOf(client.state))
         /\ InDate(client.state) => \A i \in Ids : Good(i, client.state, ScopeOf(client.state))

RequestShape ==
    /\ request.step # "none" => Follows(request.current, request.scope)
    /\ request.step # "objects" => request.created = {}
    /\ request.step = "rows" =>
         /\ client.state # NoState /\ InDate(client.state)
         /\ request.current.fp = client.state.fp /\ ScopeOf(client.state) = request.scope
    /\ request.step = "objects" =>
         /\ request.current.fp \in Fingerprints /\ ScopeOf(request.current) = request.scope
         /\ request.created \subseteq request.fetch
         /\ request.created # {} => request.scope /\ scene.view = "query"
         /\ InDate(request.current) =>
              /\ \A i \in Ids \ request.fetch : Good(i, request.current, request.scope)
              /\ \A i \in request.created : shown[i] = 0 => Reported(i, request.current.seq)

LogInv == LogTypeOK /\ LogShape /\ StoreShape /\ LogTells /\ ClientShape /\ RequestShape

-----------------------------------------------------------------------------
(* What the transactions of the writers add to the log.                    *)

\* What the code says of a row; the log adds its number and its time.
Parts == [id : Ids, op : Ops, owner : Users \cup {Nobody}, exclude : Users \cup {Nobody}]

\* The rows of a transaction, as the log has them.
NewRow(n, a) == [seq |-> NextSeq(n), id |-> a.id, op |-> a.op,
                 owner |-> a.owner, exclude |-> a.exclude, at |-> now]

\* news are rows added behind the log, now.
Adds(news) ==
    /\ log' = log \cup news
    /\ IsFiniteSet(news) /\ news \subseteq LogRowType
    /\ lastSeq' \in Nat /\ lastSeq' >= lastSeq
    /\ \A r \in news : r.seq > lastSeq /\ r.seq <= lastSeq' /\ r.at = now
    /\ \A r, o \in news : r.seq = o.seq => r = o

\* news say of the rows what the code says of them.
Says(news, rows) ==
    /\ \A r \in news : \E n \in DOMAIN rows : /\ r.id = rows[n].id /\ r.op = rows[n].op
                                              /\ r.owner = rows[n].owner /\ r.exclude = rows[n].exclude
    /\ \A n \in DOMAIN rows : \E r \in news : /\ r.id = rows[n].id /\ r.op = rows[n].op
                                              /\ r.owner = rows[n].owner /\ r.exclude = rows[n].exclude

\* A transaction adds at most two rows, and numbers them on.
LEMMA WriteAdds ==
    ASSUME LogTypeOK, NEW s, NEW touched, NEW users, NEW k \in 0..2, NEW rows,
           DOMAIN rows = 1..k, \A n \in 1..k : rows[n] \in Parts, Write(s, touched, users, rows)
    PROVE  \E news : Adds(news) /\ Says(news, rows)
<1> DEFINE news == {NewRow(n, rows[n]) : n \in 1..k}
<1>1. lastSeq \in Nat /\ now \in Nat
  BY DEF LogTypeOK
<1>2. log' = log \cup news
  BY DEF Write, NewRow
<1>3. \A n \in 1..k : NewRow(n, rows[n]).seq = lastSeq + n /\ NewRow(n, rows[n]).at = now
  BY DEF NewRow, NextSeq
<1>4. \A n \in 1..k : NewRow(n, rows[n]) \in LogRowType
  <2>1. ASSUME NEW n \in 1..k PROVE NewRow(n, rows[n]) \in LogRowType
    <3>1. lastSeq + n \in Nat \ {0} /\ rows[n] \in Parts
      BY <1>1
    <3>. QED
      BY <1>1, <3>1 DEF NewRow, NextSeq, LogRowType, Parts
  <2>. QED
    BY <2>1
<1>5. lastSeq' = lastSeq + k
  <2>1. Cardinality(DOMAIN rows) = k
    <3>1. 1 \in Int /\ k \in Int /\ (IF 1 > k THEN 0 ELSE k - 1 + 1) = k
      OBVIOUS
    <3>2. Cardinality(1..k) = k
      BY ONLY <3>1, FS_Interval
    <3>. QED
      BY <3>2
  <2>2. CASE rows = <<>>
    <3>1. k = 0
      <4>1. 1..k = {}
        BY <2>2
      <4>. QED
        BY <4>1
    <3>. QED
      BY <1>1, <2>2, <3>1 DEF Write
  <2>3. CASE rows # <<>>
    <3>1. lastSeq' = NextSeq(Cardinality(DOMAIN rows))
      BY <2>3, Zenon DEF Write
    <3>. QED
      BY <2>1, <3>1 DEF NextSeq
  <2>. QED
    BY <2>2, <2>3
<1>6. IsFiniteSet(news)
  <2>1. news \subseteq {NewRow(1, rows[1])} \cup {NewRow(2, rows[2])}
    BY DEF news
  <2>2. IsFiniteSet({NewRow(1, rows[1])} \cup {NewRow(2, rows[2])})
    <3>1. \A x, y : IsFiniteSet({x} \cup {y})
      BY FS_Singleton, FS_AddElement, Zenon
    <3>. QED
      BY <3>1
  <2>. HIDE DEF news
  <2>. QED
    BY <2>1, <2>2, FS_Subset
<1>7. \A r \in news : \E n \in 1..k : r = NewRow(n, rows[n])
  OBVIOUS
<1>8. \A n \in 1..k : NewRow(n, rows[n]) \in news
  OBVIOUS
<1>. HIDE DEF news
<1>9. Adds(news)
  <2>1. lastSeq' \in Nat /\ lastSeq' >= lastSeq
    BY <1>1, <1>5
  <2>2. news \subseteq LogRowType
    BY <1>4, <1>7
  <2>3. ASSUME NEW r \in news PROVE r.seq > lastSeq /\ r.seq <= lastSeq' /\ r.at = now
    <3>1. PICK n \in 1..k : r = NewRow(n, rows[n])
      BY <1>7
    <3>2. r.seq = lastSeq + n /\ r.at = now
      BY <1>3, <3>1
    <3>. QED
      BY <1>1, <1>5, <3>2
  <2>4. ASSUME NEW r \in news, NEW o \in news, r.seq = o.seq PROVE r = o
    <3>1. PICK n \in 1..k : r = NewRow(n, rows[n])
      BY <1>7
    <3>2. PICK p \in 1..k : o = NewRow(p, rows[p])
      BY <1>7
    <3>3. n = p
      BY <1>1, <1>3, <2>4, <3>1, <3>2
    <3>. QED
      BY <3>1, <3>2, <3>3
  <2>. QED
    BY <1>2, <1>6, <2>1, <2>2, <2>3, <2>4 DEF Adds
<1>10. Says(news, rows)
  <2>1. \A n \in 1..k : LET r == NewRow(n, rows[n]) IN
           r.id = rows[n].id /\ r.op = rows[n].op /\ r.owner = rows[n].owner /\ r.exclude = rows[n].exclude
    BY DEF NewRow
  <2>. QED
    BY <1>7, <1>8, <2>1 DEF Says
<1>. QED
  BY <1>9, <1>10

\* The log keeps its shape.
LEMMA AddsShape ==
    ASSUME LogTypeOK, LogShape, NEW news, Adds(news), now' = now
    PROVE  LogShape'
<1>1. log \subseteq LogRowType /\ lastSeq \in Nat /\ now \in Nat /\ lastSeq' \in Nat /\ lastSeq' >= lastSeq
  BY DEF LogTypeOK, Adds
<1>2. /\ \A r \in log : r.seq \in Nat /\ r.at \in Nat /\ r.seq <= lastSeq /\ r.at <= now
      /\ \A r \in news : r.seq \in Nat /\ r.at \in Nat /\ r.seq > lastSeq /\ r.seq <= lastSeq' /\ r.at = now
  BY <1>1 DEF LogShape, Adds, LogRowType
<1>3. IsFiniteSet(log')
  BY FS_Union DEF LogShape, Adds
<1>4. \A r \in log' : r \in log \/ r \in news
  BY DEF Adds
<1>5. ASSUME NEW r \in log' PROVE r.seq <= lastSeq' /\ r.at <= now'
  BY <1>1, <1>2, <1>4
<1>6. ASSUME NEW r \in log', NEW o \in log', r.seq = o.seq PROVE r = o
  <2>1. CASE r \in log /\ o \in log
    BY <1>6, <2>1 DEF LogShape
  <2>2. CASE r \in news /\ o \in news
    BY <1>6, <2>2 DEF Adds
  <2>3. CASE (r \in log /\ o \in news) \/ (r \in news /\ o \in log)
    BY <1>1, <1>2, <1>6, <2>3
  <2>. QED
    BY <1>4, <2>1, <2>2, <2>3
<1>7. ASSUME NEW r \in log', NEW o \in log', r.seq < o.seq PROVE r.at <= o.at
  <2>1. CASE r \in log /\ o \in log
    BY <1>7, <2>1 DEF LogShape
  <2>2. CASE o \in news
    BY <1>1, <1>2, <1>4, <2>2
  <2>3. CASE r \in news /\ o \in log
    BY <1>1, <1>2, <1>7, <2>3
  <2>. QED
    BY <1>4, <2>1, <2>2, <2>3
<1>. QED
  BY <1>3, <1>5, <1>6, <1>7 DEF LogShape

\* What a writer may do: what me sees changes with a row me is told of, and
\* such a row says whether me sees it.
Honest(s, touched, users, rows) ==
    /\ \A i \in Ids : Visible(s, me, i) /\ ~Visible(store, me, i) => i \in touched /\ me \in users
    /\ \A i \in Ids :
          (Visible(s, me, i) # Visible(store, me, i)) \/ (Visible(s, me, i) /\ i \in touched /\ me \in users)
             => \E n \in DOMAIN rows : Concerns(rows[n]) /\ rows[n].id = i
    /\ \A n \in DOMAIN rows : Concerns(rows[n]) => (rows[n].op = "d") = ~Visible(s, me, rows[n].id)

\* The rows a writer leaves in the tables of mail.
Stores == [received : BOOLEAN, draft : BOOLEAN,
           sent : {"none", "hidden", "filed", "own"}, used : SUBSET Ids]
Sound(s) ==
    /\ s \in Stores
    /\ s.sent = "filed" => ~s.draft
    /\ s.draft \/ s.sent # "none" => "draft" \in s.used

\* Whether an id can be seen is a matter of truth and falsehood.
LEMMA VisibleBoolean ==
    ASSUME NEW s \in Stores, NEW user, NEW i \in Ids
    PROVE  Visible(s, user, i) \in BOOLEAN
BY DEF Stores, Visible, Ids

\* What me sees of an honest write has a row that tells it so.
LEMMA WriteShows ==
    ASSUME LogTypeOK, StoreShape, NEW s, Sound(s), NEW touched, NEW users, NEW rows,
           Honest(s, touched, users, rows), Write(s, touched, users, rows)
    PROVE  /\ shown' \in [Ids -> Nat]
           /\ \A i \in Ids : (shown'[i] = 0) = ~Visible(s, me, i)
           /\ \A i \in Ids : shown'[i] # shown[i] =>
                 \E n \in DOMAIN rows : Concerns(rows[n]) /\ rows[n].id = i
<1>1. /\ shown \in [Ids -> Nat] /\ writes \in Nat /\ store \in Stores
      /\ \A i \in Ids : (shown[i] = 0) = ~Visible(store, me, i)
  BY DEF LogTypeOK, StoreShape, Stores
<1>2. \A i \in Ids : Visible(s, me, i) \in BOOLEAN /\ Visible(store, me, i) \in BOOLEAN
  BY <1>1, VisibleBoolean DEF Sound
<1>3. \A i \in Ids : shown'[i] = IF ~Visible(s, me, i) THEN 0
                                 ELSE IF i \in touched /\ me \in users THEN writes + 1
                                 ELSE shown[i]
  BY DEF Write
<1>4. shown' \in [Ids -> Nat]
  <2>1. \A i \in Ids : shown'[i] \in Nat
    BY <1>1, <1>3
  <2>2. shown' = [i \in Ids |-> shown'[i]]
    BY Zenon DEF Write
  <2>. QED
    BY <2>1, <2>2
<1>5. ASSUME NEW i \in Ids
      PROVE  /\ (shown'[i] = 0) = ~Visible(s, me, i)
             /\ shown'[i] # shown[i] => \E n \in DOMAIN rows : Concerns(rows[n]) /\ rows[n].id = i
  <2>1. /\ Visible(s, me, i) /\ ~Visible(store, me, i) => i \in touched /\ me \in users
        /\ (Visible(s, me, i) # Visible(store, me, i)) \/ (Visible(s, me, i) /\ i \in touched /\ me \in users)
              => \E n \in DOMAIN rows : Concerns(rows[n]) /\ rows[n].id = i
    BY DEF Honest
  <2>2. CASE ~Visible(s, me, i)
    BY <1>1, <1>2, <1>3, <2>1, <2>2
  <2>3. CASE Visible(s, me, i) /\ i \in touched /\ me \in users
    <3>1. shown'[i] = writes + 1
      BY <1>3, <2>3
    <3>2. shown'[i] # 0
      BY <1>1, <3>1
    <3>3. \E n \in DOMAIN rows : Concerns(rows[n]) /\ rows[n].id = i
      BY <2>1, <2>3
    <3>. QED
      BY <2>3, <3>2, <3>3
  <2>4. CASE Visible(s, me, i) /\ ~(i \in touched /\ me \in users)
    BY <1>1, <1>2, <1>3, <2>1, <2>4
  <2>. QED
    BY <2>2, <2>3, <2>4
<1>. QED
  BY <1>4, <1>5

\* The log tells of what has become of the mail: news are rows that say
\* whether me sees it, and there are some for what has changed.
News(news) ==
    /\ Adds(news)
    /\ \A i \in Ids : shown'[i] # shown[i] => \E r \in news : Concerns(r) /\ r.id = i
    /\ \A r \in news : Concerns(r) => (r.op = "d") = ~Visible(store', me, r.id)
    /\ now' = now /\ scene' = scene /\ me' = me

\* A write is news.
LEMMA WriteIsNews ==
    ASSUME LogTypeOK, StoreShape, NEW s, Sound(s), NEW touched, NEW users, NEW k \in 0..2, NEW rows,
           DOMAIN rows = 1..k, \A n \in 1..k : rows[n] \in Parts,
           Honest(s, touched, users, rows), Write(s, touched, users, rows)
    PROVE  \E news : News(news)
<1>1. PICK news : Adds(news) /\ Says(news, rows)
  BY WriteAdds
<1>2. now' = now /\ scene' = scene /\ me' = me /\ store' = s
  BY DEF Write
<1>3. ASSUME NEW i \in Ids, shown'[i] # shown[i]
      PROVE  \E r \in news : Concerns(r) /\ r.id = i
  <2>1. PICK n \in DOMAIN rows : Concerns(rows[n]) /\ rows[n].id = i
    BY <1>3, WriteShows
  <2>2. PICK r \in news : r.id = rows[n].id /\ r.owner = rows[n].owner /\ r.exclude = rows[n].exclude
    BY <1>1 DEF Says
  <2>. QED
    BY <2>1, <2>2 DEF Concerns
<1>4. ASSUME NEW r \in news, Concerns(r)
      PROVE  (r.op = "d") = ~Visible(store', me, r.id)
  <2>1. PICK n \in DOMAIN rows : /\ r.id = rows[n].id /\ r.op = rows[n].op
                                 /\ r.owner = rows[n].owner /\ r.exclude = rows[n].exclude
    BY <1>1 DEF Says
  <2>2. Concerns(rows[n])
    BY <1>4, <2>1 DEF Concerns
  <2>3. (rows[n].op = "d") = ~Visible(s, me, rows[n].id)
    BY <2>2 DEF Honest
  <2>. QED
    BY <1>2, <2>1, <2>3
<1>. QED
  BY <1>1, <1>2, <1>3, <1>4 DEF News

\* The last row about an id goes on telling whether me sees it.
LEMMA NewsTells ==
    ASSUME LogTypeOK, StoreShape, StoreShape', LogShape, LogTells, NEW news, News(news)
    PROVE  LogTells'
<1>1. SUFFICES ASSUME NEW r \in log', Latest(r)'
               PROVE  (r.op = "d") = ~Visible(store', me, r.id)
  BY DEF LogTells, News
<1>2. me' = me /\ log' = log \cup news
  BY DEF News, Adds
<1>3. Concerns(r) /\ \A o \in log' : Concerns(o) /\ o.id = r.id => o.seq <= r.seq
  BY <1>1, <1>2 DEF Latest, Concerns
<1>4. CASE r \in news
  BY <1>3, <1>4 DEF News
<1>5. CASE r \in log /\ r \notin news
  <2>1. r.id \in Ids /\ r.seq \in Nat /\ r.seq <= lastSeq /\ lastSeq \in Nat
    BY <1>5 DEF LogTypeOK, LogRowType, LogShape
  <2>2. ~ \E o \in news : Concerns(o) /\ o.id = r.id
    <3>1. SUFFICES ASSUME NEW o \in news, Concerns(o), o.id = r.id PROVE FALSE
      OBVIOUS
    <3>2. o.seq > lastSeq /\ o.seq \in Nat
      BY DEF News, Adds, LogRowType
    <3>3. o.seq <= r.seq
      BY <1>2, <1>3, <3>1
    <3>. QED
      BY <2>1, <3>2, <3>3
  <2>3. shown'[r.id] = shown[r.id]
    BY <2>1, <2>2 DEF News
  <2>4. (shown[r.id] = 0) = ~Visible(store, me, r.id) /\ (shown'[r.id] = 0) = ~Visible(store', me, r.id)
    BY <1>2, <2>1 DEF StoreShape
  <2>5. Latest(r)
    BY <1>2, <1>3 DEF Latest
  <2>6. (r.op = "d") = ~Visible(store, me, r.id)
    BY <1>5, <2>5 DEF LogTells
  <2>7. (shown'[r.id] = 0) = (shown[r.id] = 0)
    BY <2>3
  <2>. QED
    BY <2>4, <2>6, <2>7
<1>. QED
  BY <1>1, <1>2, <1>4, <1>5

-----------------------------------------------------------------------------
(* What a position has ahead of it.                                        *)

\* A row that is reported stays so when more come.
LEMMA ReportedStays ==
    ASSUME NEW news, Adds(news), scene' = scene, me' = me, NEW i, NEW q, Reported(i, q)
    PROVE  Reported(i, q)'
BY DEF Reported, Concerns, Adds

\* What changes for me is reported past every position of before.
LEMMA NewsReported ==
    ASSUME LogTypeOK, NEW news, News(news), NEW i \in Ids, shown'[i] # shown[i],
           NEW q \in Nat, q <= lastSeq
    PROVE  Reported(i, q)'
<1>1. PICK r \in news : Concerns(r) /\ r.id = i
  BY DEF News
<1>2. r.seq \in Nat /\ lastSeq \in Nat /\ r.seq > lastSeq /\ r \in log'
  BY DEF News, Adds, LogRowType, LogTypeOK
<1>3. r.seq > q
  BY <1>2
<1>4. me' = me
  BY DEF News
<1>. QED
  BY <1>1, <1>2, <1>3, <1>4 DEF Reported, Concerns

\* A position goes on having its rows ahead of it.
LEMMA FollowsNews ==
    ASSUME LogTypeOK, LogShape, NEW news, News(news), NEW s \in StateStrings, NEW scope, Follows(s, scope)
    PROVE  Follows(s, scope)'
<1>1. /\ s.seq \in Nat /\ s.issuedAt \in Nat /\ lastSeq \in Nat /\ now \in Nat
      /\ s.seq <= lastSeq /\ s.issuedAt <= now
  BY DEF LogTypeOK, StateStrings, Follows
<1>2. lastSeq' \in Nat /\ lastSeq' >= lastSeq /\ now' = now /\ me' = me /\ log' = log \cup news
  BY DEF News, Adds
<1>3. s.seq <= lastSeq' /\ s.issuedAt <= now'
  BY <1>1, <1>2
<1>4. ASSUME scope, NEW r \in log', Concerns(r), r.seq > s.seq PROVE r.at >= s.issuedAt
  <2>1. CASE r \in log
    BY <1>4, <2>1 DEF Follows
  <2>2. CASE r \in news
    <3>1. r.at = now
      BY <2>2 DEF News, Adds
    <3>. QED
      BY <1>1, <3>1
  <2>. QED
    BY <1>2, <2>1, <2>2
<1>5. scope => \A r \in log' : Concerns(r)' /\ r.seq > s.seq => r.at >= s.issuedAt
  BY <1>2, <1>4 DEF Concerns
<1>. QED
  BY <1>3, <1>5 DEF Follows

\* What is right stays right or is reported.
LEMMA GoodNews ==
    ASSUME LogTypeOK, NEW news, News(news), client' = client, NEW i \in Ids, NEW s \in StateStrings,
           NEW scope \in BOOLEAN, s.seq <= lastSeq, Good(i, s, scope)
    PROVE  Good(i, s, scope)'
<1>1. s.seq \in Nat /\ scene' = scene /\ me' = me /\ Adds(news)
  BY DEF StateStrings, News
<1>2. CASE i \in client.ghosts
  BY <1>2 DEF Good
<1>3. CASE scope /\ Reported(i, s.seq)
  <2>1. Reported(i, s.seq)'
    BY <1>1, <1>3, ReportedStays
  <2>. QED
    BY <1>3, <2>1 DEF Good
<1>4. CASE client.held[i] = Content(scope, i) /\ ~scope
  BY <1>4 DEF Good, Content
<1>5. CASE client.held[i] = Content(scope, i) /\ scope /\ shown'[i] = shown[i]
  BY <1>1, <1>5 DEF Good, Content
<1>6. CASE scope /\ shown'[i] # shown[i]
  <2>1. Reported(i, s.seq)'
    BY <1>1, <1>6, NewsReported
  <2>. QED
    BY <1>6, <2>1 DEF Good
<1>. QED
  BY <1>2, <1>3, <1>4, <1>5, <1>6 DEF Good

\* The client keeps what it has through news.
LEMMA ClientNews ==
    ASSUME LogTypeOK, LogShape, ClientShape, NEW news, News(news), client' = client
    PROVE  ClientShape'
<1>1. scene' = scene /\ now' = now
  BY DEF News
<1>2. scene'.view = "query" => \A i \in Ids : client'.held[i] \in {0, 1}
  BY <1>1 DEF ClientShape
<1>3. PICK s \in StateStrings : s = client.state
  BY DEF LogTypeOK
<1>4. CASE s # NoState
  <2>1. s.fp \in Fingerprints /\ Follows(s, ScopeOf(s))
    BY <1>3, <1>4 DEF ClientShape
  <2>2. PICK scope \in BOOLEAN : scope = ScopeOf(s)
    BY <2>1 DEF Fingerprints, ScopeOf
  <2>3. Follows(s, scope)'
    BY <2>1, <2>2, FollowsNews
  <2>4. ASSUME InDate(s), NEW i \in Ids PROVE Good(i, s, scope)'
    <3>1. Good(i, s, scope)
      BY <1>3, <1>4, <2>2, <2>4 DEF ClientShape
    <3>2. s.seq <= lastSeq
      BY <2>1 DEF Follows
    <3>. QED
      BY <3>1, <3>2, GoodNews
  <2>5. InDate(s)' <=> InDate(s)
    BY <1>1 DEF InDate
  <2>6. ScopeOf(s)' = scope
    BY <2>2 DEF ScopeOf
  <2>7. client'.state = s
    BY <1>3
  <2>. QED
    BY <1>2, <2>1, <2>2, <2>3, <2>4, <2>5, <2>6, <2>7 DEF ClientShape, ScopeOf
<1>5. CASE s = NoState
  BY <1>2, <1>3, <1>5 DEF ClientShape
<1>. QED
  BY <1>4, <1>5

\* So does its request.
LEMMA RequestNews ==
    ASSUME LogTypeOK, LogShape, RequestShape, NEW news, News(news), client' = client,
           request' = request
    PROVE  RequestShape'
<1>1. scene' = scene /\ now' = now /\ me' = me /\ Adds(news)
  BY DEF News
<1>2. PICK s \in StateStrings, scope \in BOOLEAN : s = request.current /\ scope = request.scope
  BY DEF LogTypeOK
<1>3. request.step # "none" => Follows(s, scope) /\ Follows(s, scope)'
  BY <1>2, FollowsNews DEF RequestShape
<1>4. request.step = "rows" => InDate(client.state)'
  BY <1>1 DEF RequestShape, InDate
<1>5. InDate(s)' <=> InDate(s)
  BY <1>1 DEF InDate
<1>6. ASSUME request.step = "objects", InDate(s)
      PROVE  /\ \A i \in Ids \ request.fetch : Good(i, s, scope)'
             /\ \A i \in request.created : shown'[i] = 0 => Reported(i, s.seq)'
  <2>1. s.seq <= lastSeq /\ s.seq \in Nat
    BY <1>3, <1>6 DEF Follows, StateStrings
  <2>2. ASSUME NEW i \in Ids \ request.fetch PROVE Good(i, s, scope)'
    <3>1. Good(i, s, scope)
      BY <1>2, <1>6 DEF RequestShape
    <3>. QED
      BY <2>1, <3>1, GoodNews
  <2>3. ASSUME NEW i \in request.created, shown'[i] = 0 PROVE Reported(i, s.seq)'
    <3>1. i \in Ids
      BY DEF LogTypeOK
    <3>2. CASE shown[i] = 0
      <4>1. Reported(i, s.seq)
        BY <1>2, <1>6, <3>2 DEF RequestShape
      <4>. QED
        BY <1>1, <4>1, ReportedStays
    <3>3. CASE shown[i] # 0
      BY <2>1, <2>3, <3>1, <3>3, NewsReported
    <3>. QED
      BY <3>2, <3>3
  <2>. QED
    BY <2>2, <2>3
<1>7. request'.current = s /\ request'.scope = scope
  BY <1>2
<1>. QED
  BY <1>1, <1>2, <1>3, <1>4, <1>5, <1>6, <1>7 DEF RequestShape, ScopeOf

\* Writes keep the invariant.
LEMMA NewsStep ==
    ASSUME LogInv, NEW news, News(news), LogTypeOK', StoreShape', client' = client, request' = request
    PROVE  LogInv'
<1>1. LogTypeOK /\ LogShape /\ StoreShape /\ LogTells /\ ClientShape /\ RequestShape
  BY DEF LogInv
<1>2. LogShape'
  BY <1>1, AddsShape DEF News
<1>3. LogTells'
  BY <1>1, NewsTells
<1>4. ClientShape' /\ RequestShape'
  BY <1>1, ClientNews, RequestNews
<1>. QED
  BY <1>2, <1>3, <1>4 DEF LogInv

-----------------------------------------------------------------------------
(* The writers.                                                            *)

\* An honest write keeps the invariant.
LEMMA WriteStep ==
    ASSUME LogInv, NEW s, Sound(s), NEW touched, NEW users, NEW k \in 0..2, NEW rows,
           DOMAIN rows = 1..k, \A n \in 1..k : rows[n] \in Parts,
           Honest(s, touched, users, rows), Write(s, touched, users, rows)
    PROVE  LogInv'
<1>1. LogTypeOK /\ StoreShape
  BY DEF LogInv
<1>2. PICK news : News(news)
  BY <1>1, WriteIsNews
<1>3. /\ shown' \in [Ids -> Nat] /\ \A i \in Ids : (shown'[i] = 0) = ~Visible(s, me, i)
      /\ store' = s /\ me' = me /\ client' = client /\ request' = request
  BY <1>1, WriteShows DEF Write
<1>4. StoreShape'
  BY <1>3 DEF StoreShape, Sound
<1>5. LogTypeOK'
  <2>1. log' \subseteq LogRowType /\ lastSeq' \in Nat
    BY <1>1, <1>2 DEF News, Adds, LogTypeOK
  <2>2. writes' \in Nat
    BY <1>1 DEF LogTypeOK, Write
  <2>3. UNCHANGED <<scene, me, now, granted, grants, epoch, client, request, push>>
    BY DEF Write, account
  <2>. QED
    BY <1>1, <1>3, <2>1, <2>2, <2>3 DEF LogTypeOK, Sound, Stores
<1>. QED
  BY <1>2, <1>3, <1>4, <1>5, NewsStep

\* The mail as it is.
LEMMA StoreSound ==
    ASSUME LogInv
    PROVE  Sound(store) /\ me \in Users /\ Users = {Author, Other} /\ Author # Other /\ Nobody \notin Users
BY UserAssumption DEF LogInv, LogTypeOK, StoreShape, Sound, Stores, Users

\* A write of one row.
LEMMA OneRow ==
    ASSUME NEW id \in Ids, NEW op \in Ops, NEW owner \in Users \cup {Nobody},
           NEW exclude \in Users \cup {Nobody}
    PROVE  LET rows == <<Row(id, op, owner, exclude)>>
           IN  /\ DOMAIN rows = 1..1 /\ \A n \in 1..1 : rows[n] \in Parts
               /\ \A n \in DOMAIN rows : /\ rows[n].id = id /\ rows[n].op = op
                                         /\ rows[n].owner = owner /\ rows[n].exclude = exclude
BY DEF Row, Parts

\* A write of one row keeps the invariant if it is honest.
LEMMA OneRowStep ==
    ASSUME LogInv, NEW s, Sound(s), NEW touched, NEW users, NEW id \in Ids, NEW op \in Ops,
           NEW owner \in Users \cup {Nobody}, NEW exclude \in Users \cup {Nobody},
           Write(s, touched, users, <<Row(id, op, owner, exclude)>>),
           \A i \in Ids : Visible(s, me, i) /\ ~Visible(store, me, i) => i \in touched /\ me \in users,
           \A i \in Ids :
              (Visible(s, me, i) # Visible(store, me, i))
                 \/ (Visible(s, me, i) /\ i \in touched /\ me \in users)
                 => (owner = me \/ (owner = Nobody /\ exclude # me)) /\ id = i,
           (owner = me \/ (owner = Nobody /\ exclude # me)) => (op = "d") = ~Visible(s, me, id)
    PROVE  LogInv'
<1>1. PICK rows : rows = <<Row(id, op, owner, exclude)>> /\ Write(s, touched, users, rows)
  OBVIOUS
<1>2. /\ DOMAIN rows = 1..1 /\ \A n \in 1..1 : rows[n] \in Parts
      /\ \A n \in DOMAIN rows : /\ rows[n].id = id /\ rows[n].op = op
                                /\ rows[n].owner = owner /\ rows[n].exclude = exclude
  BY <1>1, OneRow
<1>3. 1 \in DOMAIN rows
  BY <1>2
<1>4. Honest(s, touched, users, rows)
  BY <1>2, <1>3 DEF Honest, Concerns
<1>5. 1 \in 0..2
  OBVIOUS
<1>. QED
  BY <1>1, <1>2, <1>4, <1>5, WriteStep, Zenon

\* A write of two rows, of which me is told of one at most.
LEMMA TwoRowsStep ==
    ASSUME LogInv, NEW s, Sound(s), NEW touched, NEW users, NEW id \in Ids,
           NEW op \in Ops, NEW other \in Ops,
           Write(s, touched, users, <<Row(id, op, Author, Nobody), Row(id, other, Nobody, Author)>>),
           \A i \in Ids : Visible(s, me, i) /\ ~Visible(store, me, i) => i \in touched /\ me \in users,
           \A i \in Ids :
              (Visible(s, me, i) # Visible(store, me, i))
                 \/ (Visible(s, me, i) /\ i \in touched /\ me \in users)
                 => id = i,
           me = Author => (op = "d") = ~Visible(s, me, id),
           me # Author => (other = "d") = ~Visible(s, me, id)
    PROVE  LogInv'
<1>1. PICK rows : /\ rows = <<Row(id, op, Author, Nobody), Row(id, other, Nobody, Author)>>
                  /\ Write(s, touched, users, rows)
  OBVIOUS
<1>2. DOMAIN rows = 1..2 /\ rows[1] = Row(id, op, Author, Nobody) /\ rows[2] = Row(id, other, Nobody, Author)
  BY <1>1
<1>3. /\ rows[1].id = id /\ rows[1].op = op /\ rows[1].owner = Author /\ rows[1].exclude = Nobody
      /\ rows[2].id = id /\ rows[2].op = other /\ rows[2].owner = Nobody /\ rows[2].exclude = Author
  BY <1>2 DEF Row
<1>4. \A n \in 1..2 : rows[n] \in Parts
  <2>1. rows[1] \in Parts /\ rows[2] \in Parts
    BY <1>2 DEF Row, Parts, Users
  <2>2. \A n \in 1..2 : n = 1 \/ n = 2
    OBVIOUS
  <2>. QED
    BY <2>1, <2>2
<1>5. me \in {Author, Other} /\ Author # Other /\ Nobody # Author /\ Nobody # Other
  BY StoreSound DEF Users
<1>6. Concerns(rows[1]) <=> me = Author
  BY <1>3, <1>5 DEF Concerns
<1>7. Concerns(rows[2]) <=> me # Author
  BY <1>3, <1>5 DEF Concerns
<1>8. \A n \in DOMAIN rows : n = 1 \/ n = 2
  BY <1>2
<1>9. 1 \in DOMAIN rows /\ 2 \in DOMAIN rows
  BY <1>2
<1>10. Honest(s, touched, users, rows)
  <2>1. ASSUME NEW i \in Ids, id = i PROVE \E n \in DOMAIN rows : Concerns(rows[n]) /\ rows[n].id = i
    BY <1>3, <1>6, <1>7, <1>9, <2>1
  <2>2. ASSUME NEW n \in DOMAIN rows, Concerns(rows[n])
        PROVE  (rows[n].op = "d") = ~Visible(s, me, rows[n].id)
    <3>1. CASE n = 1
      BY <1>3, <1>6, <2>2, <3>1
    <3>2. CASE n = 2
      BY <1>3, <1>7, <2>2, <3>2
    <3>. QED
      BY <1>8, <3>1, <3>2
  <2>. QED
    BY <2>1, <2>2 DEF Honest
<1>11. 2 \in 0..2 /\ DOMAIN rows = 1..2
  BY <1>2
<1>. QED
  BY <1>1, <1>4, <1>10, <1>11, WriteStep, Zenon

\* A write the triggers are silent about, of something nobody sees.
LEMMA SilentStep ==
    ASSUME LogInv, NEW s, Sound(s), Write(s, {}, Users, <<>>),
           \A i \in Ids : Visible(s, me, i) = Visible(store, me, i)
    PROVE  LogInv'
<1>1. PICK rows : rows = <<>>
  OBVIOUS
<1>2. DOMAIN rows = 1..0 /\ \A n \in 1..0 : rows[n] \in Parts
  BY <1>1
<1>3. Honest(s, {}, Users, rows)
  BY <1>2 DEF Honest
<1>. QED
  BY <1>1, <1>2, <1>3, WriteStep

\* A write about one id with a row for every member.
LEMMA SharedStep ==
    ASSUME LogInv, NEW s, Sound(s), NEW touched, NEW id \in Ids, NEW op \in Ops,
           Write(s, touched, Users, <<Shared(id, op)>>), touched \subseteq {id},
           \A i \in Ids \ {id} : Visible(s, me, i) = Visible(store, me, i),
           op = "d" => ~Visible(s, me, id), op # "d" => Visible(s, me, id) /\ id \in touched
    PROVE  LogInv'
<1>1. me \in Users /\ Nobody \notin Users
  BY StoreSound
<1>2. Write(s, touched, Users, <<Row(id, op, Nobody, Nobody)>>)
  BY DEF Shared
<1>3. Nobody # me /\ Nobody \in Users \cup {Nobody}
  BY <1>1
<1>4. (op = "d") = ~Visible(s, me, id)
  BY VisibleBoolean DEF Sound
<1>5. \A i \in Ids : Visible(s, me, i) /\ ~Visible(store, me, i) => i \in touched /\ me \in Users
  BY <1>1
<1>6. \A i \in Ids :
         (Visible(s, me, i) # Visible(store, me, i)) \/ (Visible(s, me, i) /\ i \in touched /\ me \in Users)
            => id = i
  OBVIOUS
<1>. QED
  BY <1>2, <1>3, <1>4, <1>5, <1>6, OneRowStep

\* A write about one id with a row for one member.
LEMMA PersonalStep ==
    ASSUME LogInv, NEW s, Sound(s), NEW touched, NEW users, NEW id \in Ids, NEW op \in Ops,
           NEW user \in Users,
           Write(s, touched, users, <<Personal(id, op, user)>>), touched \subseteq {id},
           \A i \in Ids \ {id} : Visible(s, me, i) = Visible(store, me, i),
           me # user => /\ Visible(s, me, id) = Visible(store, me, id)
                        /\ ~(Visible(s, me, id) /\ me \in users),
           me = user => /\ op = "d" => ~Visible(s, me, id)
                        /\ op # "d" => Visible(s, me, id) /\ id \in touched /\ me \in users
    PROVE  LogInv'
<1>1. me \in Users /\ Nobody \notin Users
  BY StoreSound
<1>2. Write(s, touched, users, <<Row(id, op, user, Nobody)>>)
  BY DEF Personal
<1>3. Nobody # me /\ user # Nobody /\ user \in Users \cup {Nobody} /\ Nobody \in Users \cup {Nobody}
  BY <1>1
<1>4. user = me => (op = "d") = ~Visible(s, me, id)
  BY <1>3, VisibleBoolean DEF Sound
<1>5. \A i \in Ids : Visible(s, me, i) /\ ~Visible(store, me, i) => i \in touched /\ me \in users
  <2>1. ASSUME NEW i \in Ids, Visible(s, me, i), ~Visible(store, me, i)
        PROVE  i \in touched /\ me \in users
    <3>1. CASE i # id
      BY <2>1, <3>1
    <3>2. CASE i = id /\ me # user
      BY <2>1, <3>2
    <3>3. CASE i = id /\ me = user
      BY <2>1, <3>3
    <3>. QED
      BY <3>1, <3>2, <3>3
  <2>. QED
    BY <2>1
<1>6. \A i \in Ids :
         (Visible(s, me, i) # Visible(store, me, i)) \/ (Visible(s, me, i) /\ i \in touched /\ me \in users)
            => user = me /\ id = i
  <2>1. ASSUME NEW i \in Ids,
               \/ Visible(s, me, i) # Visible(store, me, i)
               \/ Visible(s, me, i) /\ i \in touched /\ me \in users
        PROVE  me = user /\ id = i
    <3>1. i = id
      BY <2>1
    <3>2. ~ (me # user)
      BY <2>1, <3>1
    <3>. QED
      BY <3>1, <3>2
  <2>. QED
    BY <2>1, <1>3
<1>. QED
  BY <1>2, <1>3, <1>4, <1>5, <1>6, OneRowStep

\* What me sees follows from three things about the mail.
LEMMA Sights ==
    ASSUME NEW s, NEW user
    PROVE  /\ Visible(s, user, "received") = s.received
           /\ Visible(s, user, "draft") = (s.sent = "filed" \/ (s.draft /\ user = Author))
           /\ Visible(s, user, "sent") = (s.sent = "own")
BY DEF Visible

LEMMA IdsAre == Ids = {"received", "draft", "sent"} /\ "received" \in Ids /\ "draft" \in Ids /\ "sent" \in Ids
BY DEF Ids

\* The rows about a received Email.
LEMMA ReceiveStep ==
    ASSUME LogInv, Receive
    PROVE  LogInv'
<1>1. PICK s : /\ s = [store EXCEPT !.received = TRUE, !.used = @ \cup {"received"}]
               /\ Write(s, {"received"}, Users, <<Shared("received", "c")>>)
  BY DEF Receive
<1>2. s.received /\ s.draft = store.draft /\ s.sent = store.sent /\ Sound(s)
  BY <1>1, StoreSound DEF Sound, Stores, Ids
<1>3. Visible(s, me, "received") /\ \A i \in Ids \ {"received"} : Visible(s, me, i) = Visible(store, me, i)
  BY <1>2, Sights, IdsAre
<1>. QED
  BY <1>1, <1>2, <1>3, IdsAre, SharedStep DEF Ops

LEMMA UpdateReceivedStep ==
    ASSUME LogInv, UpdateReceived
    PROVE  LogInv'
<1>1. Write(store, {"received"}, Users, <<Shared("received", "u")>>) /\ Sound(store)
  BY StoreSound DEF UpdateReceived
<1>2. Visible(store, me, "received")
  BY Sights DEF UpdateReceived
<1>. QED
  BY <1>1, <1>2, IdsAre, SharedStep DEF Ops

LEMMA DeleteReceivedStep ==
    ASSUME LogInv, DeleteReceived
    PROVE  LogInv'
<1>1. PICK s : /\ s = [store EXCEPT !.received = FALSE]
               /\ Write(s, {}, Users, <<Shared("received", "d")>>)
  BY DEF DeleteReceived
<1>0. PICK touched : touched = {} /\ Write(s, touched, Users, <<Shared("received", "d")>>)
  BY <1>1
<1>2. ~s.received /\ s.draft = store.draft /\ s.sent = store.sent /\ Sound(s)
  BY <1>1, StoreSound DEF Sound, Stores
<1>3. ~Visible(s, me, "received") /\ \A i \in Ids \ {"received"} : Visible(s, me, i) = Visible(store, me, i)
  BY <1>2, Sights, IdsAre
<1>4. "d" \in Ops /\ touched \subseteq {"received"}
  BY <1>0 DEF Ops
<1>. QED
  BY <1>0, <1>2, <1>3, <1>4, IdsAre, SharedStep

LEMMA MarkReceivedStep ==
    ASSUME LogInv, NEW user \in Users, MarkReceived(user)
    PROVE  LogInv'
<1>1. Write(store, {"received"}, {user}, <<Personal("received", "u", user)>>) /\ Sound(store)
  BY StoreSound DEF MarkReceived
<1>2. Visible(store, me, "received")
  BY Sights DEF MarkReceived
<1>3. me # user => ~(Visible(store, me, "received") /\ me \in {user})
  OBVIOUS
<1>4. me = user => Visible(store, me, "received") /\ "received" \in {"received"} /\ me \in {user}
  BY <1>2
<1>5. "u" \in Ops /\ "u" # "d" /\ {"received"} \subseteq {"received"}
  BY DEF Ops
<1>. QED
  BY <1>1, <1>3, <1>4, <1>5, IdsAre, PersonalStep, Zenon

\* The rows about a draft are its author's.
LEMMA CreateDraftStep ==
    ASSUME LogInv, CreateDraft
    PROVE  LogInv'
<1>1. PICK s : /\ s = [store EXCEPT !.draft = TRUE, !.used = @ \cup {"draft"}]
               /\ Write(s, {"draft"}, Users, <<Personal("draft", "c", Author)>>)
  BY DEF CreateDraft
<1>2. store.sent = "none"
  BY StoreSound DEF CreateDraft, Sound, Stores
<1>3. s.draft /\ s.received = store.received /\ s.sent = store.sent /\ Sound(s)
  BY <1>1, <1>2, StoreSound DEF Sound, Stores, Ids
<1>4. \A i \in Ids \ {"draft"} : Visible(s, me, i) = Visible(store, me, i)
  BY <1>3, Sights, IdsAre
<1>5. me # Author => ~Visible(s, me, "draft") /\ ~Visible(store, me, "draft")
  BY <1>2, <1>3, Sights
<1>6. me = Author => Visible(s, me, "draft")
  BY <1>3, Sights
<1>7. Author \in Users /\ me \in Users
  BY StoreSound
<1>8. Visible(s, me, "draft") \in BOOLEAN /\ Visible(store, me, "draft") \in BOOLEAN
  BY <1>3, StoreSound, IdsAre, VisibleBoolean DEF Sound
<1>9. me # Author => Visible(s, me, "draft") = Visible(store, me, "draft")
  BY <1>5, <1>8
<1>10. "c" \in Ops /\ "c" # "d" /\ {"draft"} \subseteq {"draft"} /\ "draft" \in {"draft"}
  BY DEF Ops
<1>. QED
  BY <1>1, <1>3, <1>4, <1>5, <1>6, <1>7, <1>9, <1>10, IdsAre, PersonalStep, Zenon

LEMMA UpdateDraftStep ==
    ASSUME LogInv, UpdateDraft
    PROVE  LogInv'
<1>1. Write(store, {"draft"}, Users, <<Personal("draft", "u", Author)>>) /\ store.draft
  BY DEF UpdateDraft
<1>2. Sound(store) /\ store.sent # "filed"
  BY <1>1, StoreSound DEF Sound
<1>3. Visible(store, me, "draft") <=> me = Author
  BY <1>1, <1>2, Sights
<1>4. Author \in Users /\ me \in Users
  BY StoreSound
<1>5. "u" \in Ops /\ "u" # "d" /\ {"draft"} \subseteq {"draft"} /\ "draft" \in {"draft"}
  BY DEF Ops
<1>. QED
  BY <1>1, <1>2, <1>3, <1>4, <1>5, IdsAre, PersonalStep, Zenon

LEMMA DestroyDraftStep ==
    ASSUME LogInv, DestroyDraft
    PROVE  LogInv'
<1>1. PICK s : /\ s = [store EXCEPT !.draft = FALSE]
               /\ Write(s, {}, Users, <<Personal("draft", "d", Author)>>)
  BY DEF DestroyDraft
<1>0. PICK touched : touched = {} /\ Write(s, touched, Users, <<Personal("draft", "d", Author)>>)
  BY <1>1
<1>2. store.sent # "filed"
  BY StoreSound DEF DestroyDraft, Sound
<1>3. ~s.draft /\ s.received = store.received /\ s.sent = store.sent /\ Sound(s)
  BY <1>1, StoreSound DEF Sound, Stores
<1>4. \A i \in Ids \ {"draft"} : Visible(s, me, i) = Visible(store, me, i)
  BY <1>3, Sights, IdsAre
<1>5. me # Author => ~Visible(store, me, "draft")
  BY <1>2, <1>3, Sights
<1>6. ~Visible(s, me, "draft")
  BY <1>2, <1>3, Sights
<1>7. Author \in Users /\ me \in Users
  BY StoreSound
<1>8. Visible(s, me, "draft") \in BOOLEAN /\ Visible(store, me, "draft") \in BOOLEAN
  BY <1>3, StoreSound, IdsAre, VisibleBoolean DEF Sound
<1>9. me # Author => Visible(s, me, "draft") = Visible(store, me, "draft")
  BY <1>5, <1>6, <1>8
<1>10. "d" \in Ops /\ touched \subseteq {"draft"}
  BY <1>0 DEF Ops
<1>. QED
  BY <1>0, <1>3, <1>4, <1>6, <1>7, <1>9, <1>10, IdsAre, PersonalStep

\* A submission, and what becomes of it.
LEMMA SubmitStep ==
    ASSUME LogInv, Submit
    PROVE  LogInv'
<1>1. PICK s : s = [store EXCEPT !.sent = "hidden"] /\ Write(s, {}, Users, <<>>)
  BY DEF Submit
<1>2. store.sent = "none"
  BY DEF Submit
<1>3. "draft" \in store.used
  BY StoreSound DEF Sound, Submit
<1>4. s.draft = store.draft /\ s.received = store.received /\ s.sent = "hidden" /\ Sound(s)
  BY <1>1, <1>3, StoreSound DEF Sound, Stores
<1>5. \A i \in Ids : Visible(s, me, i) = Visible(store, me, i)
  BY <1>2, <1>4, Sights, IdsAre
<1>. QED
  BY <1>1, <1>4, <1>5, SilentStep

LEMMA AliasDraftToSentStep ==
    ASSUME LogInv, AliasDraftToSent
    PROVE  LogInv'
<1>1. PICK s : /\ s = [store EXCEPT !.draft = FALSE, !.sent = "filed"]
               /\ Write(s, {"draft"}, Users,
                        <<Row("draft", "u", Author, Nobody), Row("draft", "c", Nobody, Author)>>)
  BY DEF AliasDraftToSent, Personal
<1>2. s.received = store.received /\ s.sent = "filed" /\ Sound(s)
  BY <1>1, StoreSound DEF Sound, Stores, AliasDraftToSent
<1>3. Visible(s, me, "draft")
  BY <1>2, Sights
<1>4. \A i \in Ids \ {"draft"} : Visible(s, me, i) = Visible(store, me, i)
  BY <1>2, Sights, IdsAre DEF AliasDraftToSent
<1>a. PICK id \in Ids : id = "draft"
  BY IdsAre
<1>b. PICK op \in Ops : op = "u"
  BY DEF Ops
<1>c. PICK other \in Ops : other = "c"
  BY DEF Ops
<1>d. PICK touched : touched = {id}
  OBVIOUS
<1>5. /\ id = "draft" /\ touched = {id} /\ op = "u" /\ other = "c"
      /\ Write(s, touched, Users, <<Row(id, op, Author, Nobody), Row(id, other, Nobody, Author)>>)
  BY <1>1, <1>a, <1>b, <1>c, <1>d
<1>6. \A i \in Ids : Visible(s, me, i) /\ ~Visible(store, me, i) => i \in touched /\ me \in Users
  BY <1>4, <1>5, StoreSound
<1>7. \A i \in Ids :
         (Visible(s, me, i) # Visible(store, me, i)) \/ (Visible(s, me, i) /\ i \in touched /\ me \in Users)
            => id = i
  BY <1>4, <1>5
<1>8. /\ me = Author => (op = "d") = ~Visible(s, me, id)
      /\ me # Author => (other = "d") = ~Visible(s, me, id)
  BY <1>3, <1>5
<1>. QED
  BY <1>2, <1>5, <1>6, <1>7, <1>8, TwoRowsStep

LEMMA RevealSubmissionStep ==
    ASSUME LogInv, RevealSubmission
    PROVE  LogInv'
<1>1. PICK s : /\ s = [store EXCEPT !.sent = "own", !.used = @ \cup {"sent"}]
               /\ Write(s, {"sent"}, Users, <<Shared("sent", "c")>>)
  BY DEF RevealSubmission
<1>2. s.received = store.received /\ s.draft = store.draft /\ s.sent = "own" /\ Sound(s)
  BY <1>1, StoreSound DEF Sound, Stores, Ids, RevealSubmission
<1>3. Visible(s, me, "sent")
  BY <1>2, Sights
<1>4. Visible(s, me, "received") = Visible(store, me, "received")
  BY <1>2, Sights
<1>5. (s.sent = "filed" \/ (s.draft /\ me = Author)) = (store.sent = "filed" \/ (store.draft /\ me = Author))
  BY <1>2 DEF RevealSubmission
<1>6. Visible(s, me, "draft") = Visible(store, me, "draft")
  BY <1>5, Sights
<1>7. \A i \in Ids \ {"sent"} : Visible(s, me, i) = Visible(store, me, i)
  BY <1>4, <1>6, IdsAre
<1>. QED
  BY <1>1, <1>2, <1>3, <1>7, IdsAre, SharedStep DEF Ops

LEMMA RestoreCanceledToDraftsStep ==
    ASSUME LogInv, RestoreCanceledToDrafts
    PROVE  LogInv'
<1>1. PICK s : /\ s = [store EXCEPT !.draft = TRUE, !.sent = "none"]
               /\ Write(s, {"draft"}, Users,
                        <<Row("draft", "u", Author, Nobody), Row("draft", "d", Nobody, Author)>>)
  BY DEF RestoreCanceledToDrafts, Personal
<1>2. s.received = store.received /\ s.sent = "none" /\ s.draft /\ Sound(s)
  <2>1. store.sent = "filed"
    BY DEF RestoreCanceledToDrafts
  <2>2. store \in Stores /\ "draft" \in store.used
    BY <2>1, StoreSound DEF Sound
  <2>3. s \in Stores /\ s.used = store.used /\ s.sent = "none" /\ s.draft /\ s.received = store.received
    BY <1>1, <2>2 DEF Stores
  <2>. QED
    BY <2>2, <2>3 DEF Sound
<1>3. Visible(s, me, "draft") <=> me = Author
  BY <1>2, Sights
<1>4. \A i \in Ids \ {"draft"} : Visible(s, me, i) = Visible(store, me, i)
  BY <1>2, Sights, IdsAre DEF RestoreCanceledToDrafts
<1>a. PICK id \in Ids : id = "draft"
  BY IdsAre
<1>b. PICK op \in Ops : op = "u"
  BY DEF Ops
<1>c. PICK other \in Ops : other = "d"
  BY DEF Ops
<1>d. PICK touched : touched = {id}
  OBVIOUS
<1>5. /\ id = "draft" /\ touched = {id} /\ op = "u" /\ other = "d"
      /\ Write(s, touched, Users, <<Row(id, op, Author, Nobody), Row(id, other, Nobody, Author)>>)
  BY <1>1, <1>a, <1>b, <1>c, <1>d
<1>6. \A i \in Ids : Visible(s, me, i) /\ ~Visible(store, me, i) => i \in touched /\ me \in Users
  BY <1>4, <1>5, StoreSound
<1>7. \A i \in Ids :
         (Visible(s, me, i) # Visible(store, me, i)) \/ (Visible(s, me, i) /\ i \in touched /\ me \in Users)
            => id = i
  BY <1>4, <1>5
<1>8. /\ me = Author => (op = "d") = ~Visible(s, me, id)
      /\ me # Author => (other = "d") = ~Visible(s, me, id)
  BY <1>3, <1>5
<1>. QED
  BY <1>2, <1>5, <1>6, <1>7, <1>8, TwoRowsStep

\* The Sent Email under the id it has, if it has one.
LEMMA SentSeen ==
    ASSUME LogInv, store.sent # "none", store.sent # "hidden"
    PROVE  SentId \in Ids /\ Visible(store, me, SentId)
<1>1. store.sent \in {"none", "hidden", "filed", "own"}
  BY StoreSound DEF Sound, Stores
<1>. QED
  BY <1>1, Sights, IdsAre DEF SentId

LEMMA UpdateSentStep ==
    ASSUME LogInv, UpdateSent
    PROVE  LogInv'
<1>1. CASE store.sent = "hidden"
  <2>1. Write(store, {}, Users, <<>>) /\ Sound(store)
    BY <1>1, StoreSound DEF UpdateSent
  <2>. QED
    BY <2>1, SilentStep
<1>2. CASE store.sent # "hidden"
  <2>1. Write(store, {SentId}, Users, <<Shared(SentId, "u")>>) /\ Sound(store)
    BY <1>2, StoreSound DEF UpdateSent
  <2>2. SentId \in Ids /\ Visible(store, me, SentId)
    BY <1>2, SentSeen DEF UpdateSent
  <2>3. PICK id \in Ids : id = SentId
    BY <2>2
  <2>4. Write(store, {id}, Users, <<Shared(id, "u")>>) /\ Visible(store, me, id)
    BY <2>1, <2>2, <2>3
  <2>. QED
    BY <2>1, <2>4, SharedStep DEF Ops
<1>. QED
  BY <1>1, <1>2

LEMMA DeleteSentStep ==
    ASSUME LogInv, DeleteSent
    PROVE  LogInv'
<1>1. PICK s : /\ s = [store EXCEPT !.sent = "none"]
               /\ Write(s, {}, Users, IF store.sent = "hidden" THEN <<>> ELSE <<Shared(SentId, "d")>>)
  BY DEF DeleteSent
<1>2. s.received = store.received /\ s.draft = store.draft /\ s.sent = "none" /\ Sound(s)
  BY <1>1, StoreSound DEF Sound, Stores
<1>3. CASE store.sent = "hidden"
  <2>1. Write(s, {}, Users, <<>>)
    BY <1>1, <1>3
  <2>2. \A i \in Ids : Visible(s, me, i) = Visible(store, me, i)
    BY <1>2, <1>3, Sights, IdsAre
  <2>. QED
    BY <1>2, <2>1, <2>2, SilentStep
<1>4. CASE store.sent # "hidden"
  <2>1. Write(s, {}, Users, <<Shared(SentId, "d")>>)
    BY <1>1, <1>4
  <2>2. SentId \in Ids
    BY <1>4, SentSeen DEF DeleteSent
  <2>3. PICK id \in Ids : id = SentId
    BY <2>2
  <2>4. Write(s, {}, Users, <<Shared(id, "d")>>)
    BY <2>1, <2>3
  <2>5. store.sent = "filed" => ~store.draft
    BY StoreSound DEF Sound
  <2>6. store.sent \in {"none", "hidden", "filed", "own"}
    BY StoreSound DEF Sound, Stores
  <2>7. ~Visible(s, me, id) /\ \A i \in Ids \ {id} : Visible(s, me, i) = Visible(store, me, i)
    <3>1. CASE store.sent = "filed"
      <4>1. id = "draft"
        BY <2>3, <3>1 DEF SentId
      <4>. QED
        BY <1>2, <2>5, <3>1, <4>1, Sights, IdsAre
    <3>2. CASE store.sent # "filed"
      <4>1. id = "sent" /\ store.sent = "own"
        BY <1>4, <2>3, <2>6, <3>2 DEF SentId, DeleteSent
      <4>2. Visible(s, me, "received") = Visible(store, me, "received") /\ ~Visible(s, me, "sent")
        BY <1>2, Sights
      <4>3. (s.sent = "filed" \/ (s.draft /\ me = Author))
              = (store.sent = "filed" \/ (store.draft /\ me = Author))
        BY <1>2, <4>1
      <4>4. Visible(s, me, "draft") = Visible(store, me, "draft")
        BY <4>3, Sights
      <4>. QED
        BY <4>1, <4>2, <4>4, IdsAre
    <3>. QED
      BY <3>1, <3>2
  <2>8. PICK touched : touched = {} /\ Write(s, touched, Users, <<Shared(id, "d")>>)
    BY <2>4
  <2>9. "d" \in Ops /\ touched \subseteq {id}
    BY <2>8 DEF Ops
  <2>. QED
    BY <1>2, <2>7, <2>8, <2>9, SharedStep
<1>. QED
  BY <1>3, <1>4

\* Whatever is written, the invariant stands.
LEMMA WriterStep ==
    ASSUME LogInv, Writer
    PROVE  LogInv'
BY ReceiveStep, UpdateReceivedStep, DeleteReceivedStep, MarkReceivedStep, CreateDraftStep,
   UpdateDraftStep, DestroyDraftStep, SubmitStep, AliasDraftToSentStep, RevealSubmissionStep,
   RestoreCanceledToDraftsStep, UpdateSentStep, DeleteSentStep DEF Writer

-----------------------------------------------------------------------------
(* Least and greatest.                                                     *)

\* A set of numbers has a least one.
LEMMA LeastNumber ==
    ASSUME NEW S \in SUBSET Nat, S # {}
    PROVE  \E x \in S : \A y \in S : x <= y
<1> DEFINE Less == {ss \in Nat \X Nat : ss[1] < ss[2]}
<1>1. IsWellFoundedOn(Less, Nat)
  BY NatLessThanWellFounded, Zenon DEF OpToRel
<1>. HIDE DEF Less
<1>2. PICK x \in S : \A y \in S : ~(<<y, x>> \in Less)
  BY <1>1, WFMin
<1>3. ASSUME NEW y \in S PROVE x <= y
  <2>1. <<y, x>> \in Nat \X Nat /\ <<y, x>>[1] = y /\ <<y, x>>[2] = x
    OBVIOUS
  <2>2. ~(y < x)
    BY <1>2, <2>1 DEF Less
  <2>. QED
    BY <2>2
<1>. QED
  BY <1>3

\* A bounded set of numbers has a greatest one, its Max.
LEMMA GreatestNumber ==
    ASSUME NEW S \in SUBSET Nat, S # {}, NEW b \in Nat, \A x \in S : x <= b
    PROVE  Max(S) \in S /\ \A y \in S : Max(S) >= y
<1> DEFINE T == {b - x : x \in S}
<1>1. T \in SUBSET Nat /\ T # {}
  <2>1. \A x \in S : b - x \in Nat
    OBVIOUS
  <2>2. T \subseteq Nat
    BY <2>1
  <2>3. T # {}
    OBVIOUS
  <2>. QED
    BY <2>2, <2>3
<1>2. PICK z \in T : \A y \in T : z <= y
  BY <1>1, LeastNumber
<1>3. PICK x \in S : z = b - x
  BY <1>2
<1>4. \A y \in S : x >= y
  <2>1. ASSUME NEW y \in S PROVE x >= y
    <3>1. b - y \in T
      OBVIOUS
    <3>2. b - x <= b - y
      BY <1>2, <1>3, <3>1
    <3>. QED
      BY <3>2
  <2>. QED
    BY <2>1
<1>5. \E w \in S : \A y \in S : w >= y
  BY <1>4
<1>. QED
  BY <1>5 DEF Max

\* The day begins before now.
LEMMA DayStarts ==
    ASSUME now \in Nat
    PROVE  Day \in Nat /\ Day <= now
<1>1. DayLength \in Nat \ {0}
  BY ClockAssumption
<1>2. \A n \in Nat, d \in Nat \ {0} : (n \div d) * d \in Nat /\ (n \div d) * d <= n
  OBVIOUS
<1>. QED
  BY <1>1, <1>2 DEF Day

\* No row that me may be told of is past the head.
LEMMA HeadIsLast ==
    ASSUME LogTypeOK, LogShape, NEW scope \in BOOLEAN
    PROVE  /\ Head(scope) \in Nat /\ Head(scope) <= lastSeq
           /\ scope => \A r \in log : Concerns(r) => r.seq <= Head(scope)
<1> DEFINE rows == {l \in log : l.owner = me \/ (scope /\ l.owner = Nobody)}
           S == {r.seq : r \in rows} \cup {0}
<1>1. lastSeq \in Nat /\ \A r \in log : r.seq \in Nat /\ r.seq <= lastSeq
  BY DEF LogTypeOK, LogShape, LogRowType
<1>2. S \in SUBSET Nat /\ S # {} /\ \A x \in S : x <= lastSeq
  BY <1>1
<1>3. Head(scope) = Max(S)
  BY DEF Head
<1>4. scope => \A r \in log : Concerns(r) => r.seq \in S
  BY DEF Concerns
<1>. HIDE DEF S
<1>5. Max(S) \in S /\ \A y \in S : Max(S) >= y
  BY <1>1, <1>2, GreatestNumber
<1>6. Max(S) \in Nat /\ Max(S) <= lastSeq
  BY <1>2, <1>5
<1>7. ASSUME scope, NEW r \in log, Concerns(r) PROVE r.seq <= Max(S)
  <2>1. Max(S) >= r.seq
    BY <1>4, <1>5, <1>7
  <2>. QED
    BY <1>1, <1>6, <2>1
<1>. QED
  BY <1>3, <1>6, <1>7

-----------------------------------------------------------------------------
(* Pruning, the administrator and the clock.                               *)

\* What goes is the oldest rows, and they are out of every date.
Prunes(gone) ==
    /\ log' = log \ gone
    /\ \A r \in gone : r \in log /\ r.at < now - Retention
    /\ \A r \in gone : \A o \in log : o.seq < r.seq => o \in gone
    /\ UNCHANGED <<scene, me, now, store, shown, writes, lastSeq, granted, grants, epoch,
                   client, request, push>>

LEMMA PruneIsOldest ==
    ASSUME LogTypeOK, LogShape, PruneJmapChanges
    PROVE  \E gone : Prunes(gone)
<1> DEFINE below(r) == {o \in log : o.seq < r.seq}
           gone == {r \in log : Expired(r) /\ Cardinality(below(r)) < PruneLimit}
<1>1. log' = log \ gone
  BY DEF PruneJmapChanges
<1>2. UNCHANGED <<scene, me, now, store, shown, writes, lastSeq, granted, grants, epoch,
                  client, request, push>>
  BY DEF PruneJmapChanges, account
<1>3. \A r \in gone : r \in log /\ r.at < now - Retention
  BY DEF Expired
<1>4. ASSUME NEW r \in gone, NEW o \in log, o.seq < r.seq PROVE o \in gone
  <2>1. r \in log /\ Expired(r) /\ Cardinality(below(r)) < PruneLimit
    OBVIOUS
  <2>2. /\ o.seq \in Nat /\ o.at \in Nat /\ r.seq \in Nat /\ r.at \in Nat
        /\ now \in Nat /\ Retention \in Nat /\ PruneLimit \in Nat
        /\ \A p \in log : p.seq \in Nat
    BY <2>1, ClockAssumption DEF LogTypeOK, LogRowType
  <2>3. o.at <= r.at
    BY <1>4, <2>1 DEF LogShape
  <2>4. Expired(o)
    BY <2>1, <2>2, <2>3 DEF Expired
  <2>5. below(o) \subseteq below(r)
    BY <1>4, <2>2
  <2>6. IsFiniteSet(below(r))
    <3>1. IsFiniteSet(log) /\ below(r) \subseteq log
      BY DEF LogShape
    <3>. HIDE DEF below
    <3>. QED
      BY <3>1, FS_Subset
  <2>. HIDE DEF below
  <2>7. /\ Cardinality(below(o)) <= Cardinality(below(r))
        /\ Cardinality(below(o)) \in Nat /\ Cardinality(below(r)) \in Nat
    <3>1. IsFiniteSet(below(o)) /\ Cardinality(below(o)) <= Cardinality(below(r))
      BY <2>5, <2>6, FS_Subset
    <3>. QED
      BY <2>6, <3>1, FS_CardinalityType
  <2>8. Cardinality(below(o)) < PruneLimit
    BY <2>1, <2>2, <2>7
  <2>. QED
    BY <2>4, <2>8
<1>. QED
  BY <1>1, <1>2, <1>3, <1>4 DEF Prunes

\* A position in date keeps its rows.
LEMMA PruneKeeps ==
    ASSUME LogTypeOK, NEW gone, Prunes(gone), NEW s \in StateStrings, NEW scope, Follows(s, scope)
    PROVE  /\ Follows(s, scope)'
           /\ scope /\ InDate(s) => \A i : Reported(i, s.seq) => Reported(i, s.seq)'
<1>1. Follows(s, scope)'
  BY DEF Follows, Prunes, Concerns
<1>2. ASSUME scope, InDate(s), NEW i, Reported(i, s.seq) PROVE Reported(i, s.seq)'
  <2>1. PICK r \in log : Concerns(r) /\ r.seq > s.seq /\ (scene.view = "mailbox" \/ r.id = i)
    BY <1>2 DEF Reported
  <2>2. r.at >= s.issuedAt
    BY <1>2, <2>1 DEF Follows
  <2>3. /\ r.at \in Nat /\ s.issuedAt \in Nat /\ now \in Nat
        /\ StateMaxAge \in Nat /\ Retention \in Nat /\ StateMaxAge <= Retention
    BY ClockAssumption DEF LogTypeOK, LogRowType, StateStrings
  <2>4. ~(r.at < now - Retention)
    BY <1>2, <2>2, <2>3 DEF InDate
  <2>5. r \in log'
    BY <2>4 DEF Prunes
  <2>. QED
    BY <2>1, <2>5 DEF Reported, Concerns, Prunes
<1>. QED
  BY <1>1, <1>2

\* What is good stays good, for a position in date.
LEMMA PruneGood ==
    ASSUME LogTypeOK, NEW gone, Prunes(gone), NEW s \in StateStrings, NEW scope, Follows(s, scope),
           InDate(s), NEW i \in Ids, Good(i, s, scope)
    PROVE  Good(i, s, scope)'
<1>1. client' = client /\ scene' = scene /\ shown' = shown
  BY DEF Prunes
<1>2. Content(scope, i)' = Content(scope, i)
  BY <1>1 DEF Content
<1>3. scope /\ Reported(i, s.seq) => Reported(i, s.seq)'
  BY PruneKeeps
<1>. QED
  BY <1>1, <1>2, <1>3 DEF Good

\* The last row about an id is gone only if every row about it is.
LEMMA PruneTells ==
    ASSUME LogTypeOK, LogTells, NEW gone, Prunes(gone)
    PROVE  LogTells'
<1>1. SUFFICES ASSUME NEW r \in log', Latest(r)'
               PROVE  (r.op = "d") = ~Visible(store, me, r.id)
  BY DEF LogTells, Prunes
<1>2. me' = me /\ r \in log /\ r \notin gone
  BY DEF Prunes
<1>3. Concerns(r)
  BY <1>1, <1>2 DEF Latest, Concerns
<1>4. ASSUME NEW o \in log, Concerns(o), o.id = r.id PROVE o.seq <= r.seq
  <2>1. o.seq \in Nat /\ r.seq \in Nat
    BY <1>2 DEF LogTypeOK, LogRowType
  <2>2. CASE o \in gone
    BY <1>2, <2>1, <2>2 DEF Prunes
  <2>3. CASE o \notin gone
    BY <1>1, <1>2, <1>4, <2>3 DEF Latest, Concerns, Prunes
  <2>. QED
    BY <2>2, <2>3
<1>. QED
  BY <1>2, <1>3, <1>4 DEF LogTells, Latest

LEMMA PruneStep ==
    ASSUME LogInv, PruneJmapChanges
    PROVE  LogInv'
<1>1. LogTypeOK /\ LogShape /\ StoreShape /\ LogTells /\ ClientShape /\ RequestShape
  BY DEF LogInv
<1>2. PICK gone : Prunes(gone)
  BY <1>1, PruneIsOldest
<1>3. /\ log' \subseteq log /\ now' = now /\ me' = me /\ scene' = scene /\ shown' = shown
      /\ client' = client /\ request' = request /\ store' = store /\ lastSeq' = lastSeq
  BY <1>2 DEF Prunes
<1>4. LogTypeOK'
  BY <1>1, <1>2 DEF LogTypeOK, Prunes
<1>5. LogShape'
  <2>1. IsFiniteSet(log')
    BY <1>1, <1>3, FS_Subset DEF LogShape
  <2>. QED
    BY <1>1, <1>3, <2>1 DEF LogShape
<1>6. StoreShape'
  BY <1>1, <1>3 DEF StoreShape
<1>7. LogTells'
  BY <1>1, <1>2, PruneTells
<1>8. ClientShape'
  <2>1. PICK s \in StateStrings : s = client.state
    BY <1>1 DEF LogTypeOK
  <2>2. CASE s # NoState
    <3>1. s.fp \in Fingerprints /\ Follows(s, ScopeOf(s))
      BY <1>1, <2>1, <2>2 DEF ClientShape
    <3>2. PICK scope : scope = ScopeOf(s)
      OBVIOUS
    <3>3. Follows(s, scope)'
      BY <1>1, <1>2, <3>1, <3>2, PruneKeeps
    <3>4. ASSUME InDate(s), NEW i \in Ids PROVE Good(i, s, scope)'
      BY <1>1, <1>2, <2>1, <2>2, <3>1, <3>2, <3>4, PruneGood DEF ClientShape
    <3>5. InDate(s)' <=> InDate(s)
      BY <1>3 DEF InDate
    <3>. QED
      BY <1>1, <1>3, <2>1, <3>1, <3>2, <3>3, <3>4, <3>5 DEF ClientShape, ScopeOf
  <2>3. CASE s = NoState
    BY <1>1, <1>3, <2>1, <2>3 DEF ClientShape
  <2>. QED
    BY <2>2, <2>3
<1>9. RequestShape'
  <2>1. PICK s \in StateStrings, scope \in BOOLEAN : s = request.current /\ scope = request.scope
    BY <1>1 DEF LogTypeOK
  <2>2. request.step # "none" => Follows(s, scope) /\ Follows(s, scope)'
    BY <1>1, <1>2, <2>1, PruneKeeps DEF RequestShape
  <2>3. InDate(s)' <=> InDate(s)
    BY <1>3 DEF InDate
  <2>4. InDate(client.state)' <=> InDate(client.state)
    BY <1>3 DEF InDate
  <2>5. ASSUME request.step = "objects", InDate(s)
        PROVE  /\ \A i \in Ids \ request.fetch : Good(i, s, scope)'
               /\ \A i \in request.created : shown[i] = 0 => Reported(i, s.seq)'
    <3>1. Follows(s, scope)
      BY <2>2, <2>5
    <3>2. ASSUME NEW i \in Ids \ request.fetch PROVE Good(i, s, scope)'
      BY <1>1, <1>2, <2>1, <2>5, <3>1, PruneGood DEF RequestShape
    <3>3. ASSUME NEW i \in request.created, shown[i] = 0 PROVE Reported(i, s.seq)'
      <4>1. scope /\ Reported(i, s.seq)
        BY <1>1, <2>1, <2>5, <3>3 DEF RequestShape
      <4>. QED
        BY <1>1, <1>2, <2>5, <3>1, <4>1, PruneKeeps
    <3>. QED
      BY <3>2, <3>3
  <2>. QED
    BY <1>1, <1>3, <2>1, <2>2, <2>3, <2>4, <2>5 DEF RequestShape, ScopeOf
<1>. QED
  BY <1>4, <1>5, <1>6, <1>7, <1>8, <1>9 DEF LogInv

\* Nothing of the mail moves, nor the clock.
Still == UNCHANGED <<scene, me, now, store, shown, writes, log, lastSeq>>

\* What the log and the mail say stays as it is.
LEMMA StillSays ==
    ASSUME Still
    PROVE  /\ LogShape => LogShape'
           /\ StoreShape => StoreShape'
           /\ LogTells => LogTells'
           /\ \A s, scope : Follows(s, scope)' = Follows(s, scope)
           /\ \A s : InDate(s)' = InDate(s) /\ ScopeOf(s)' = ScopeOf(s)
           /\ \A i, q : Reported(i, q)' = Reported(i, q)
           /\ \A i, scope : Content(scope, i)' = Content(scope, i)
<1>1. LogShape => LogShape'
  BY DEF Still, LogShape
<1>2. StoreShape => StoreShape'
  BY DEF Still, StoreShape
<1>3. LogTells => LogTells'
  BY DEF Still, LogTells, Latest, Concerns
<1>4. \A s, scope : Follows(s, scope)' = Follows(s, scope)
  BY DEF Still, Follows, Concerns
<1>5. \A s : InDate(s)' = InDate(s) /\ ScopeOf(s)' = ScopeOf(s)
  BY DEF Still, InDate, ScopeOf
<1>6. \A i, q : Reported(i, q)' = Reported(i, q)
  BY DEF Still, Reported, Concerns
<1>7. \A i, scope : Content(scope, i)' = Content(scope, i)
  BY DEF Still, Content
<1>. QED
  BY <1>1, <1>2, <1>3, <1>4, <1>5, <1>6, <1>7

\* The client keeps what it holds and where it stands; it may be told.
SameClient ==
    /\ client'.held = client.held /\ client'.ghosts = client.ghosts /\ client'.state = client.state

\* So what was good is.
LEMMA StillGood ==
    ASSUME Still, client'.held = client.held, client.ghosts \subseteq client'.ghosts
    PROVE  \A i, s, scope : Good(i, s, scope) => Good(i, s, scope)'
<1>1. /\ \A i, q : Reported(i, q)' = Reported(i, q)
      /\ \A i, scope : Content(scope, i)' = Content(scope, i)
  BY StillSays
<1>. QED
  BY <1>1 DEF Good

\* The client stays in shape.
LEMMA StillClient ==
    ASSUME Still, SameClient, ClientShape
    PROVE  ClientShape'
<1>1. PICK s : s = client.state
  OBVIOUS
<1>2. client'.state = s /\ client'.held = client.held /\ client'.ghosts = client.ghosts /\ scene' = scene
  BY <1>1 DEF SameClient, Still
<1>3. CASE s # NoState
  <2>1. PICK scope : scope = ScopeOf(s)
    OBVIOUS
  <2>2. /\ s.fp \in Fingerprints /\ Follows(s, scope)
        /\ InDate(s) => \A i \in Ids : Good(i, s, scope)
    BY <1>1, <1>3, <2>1 DEF ClientShape
  <2>3. Follows(s, scope)' /\ ScopeOf(s)' = scope /\ InDate(s)' = InDate(s)
    BY <2>1, <2>2, StillSays
  <2>4. InDate(s) => \A i \in Ids : Good(i, s, scope)'
    BY <1>2, <2>2, StillGood
  <2>5. InDate(s)' => \A i \in Ids : Good(i, s, scope)'
    BY <2>3, <2>4
  <2>. QED
    BY <1>1, <1>2, <2>2, <2>3, <2>5 DEF ClientShape, ScopeOf
<1>4. CASE s = NoState
  BY <1>1, <1>2, <1>4 DEF ClientShape
<1>. QED
  BY <1>3, <1>4

\* A request under way stays in shape.
LEMMA StillRequest ==
    ASSUME Still, SameClient, RequestShape, request' = request
    PROVE  RequestShape'
<1>1. PICK s, scope, c : s = request.current /\ scope = request.scope /\ c = client.state
  OBVIOUS
<1>2. client'.state = c /\ client'.held = client.held /\ client'.ghosts = client.ghosts /\ scene' = scene
  BY <1>1 DEF SameClient, Still
<1>3. request.step # "none" => Follows(s, scope)'
  BY <1>1, StillSays DEF RequestShape
<1>4. request.step = "rows" => c # NoState /\ InDate(c)' /\ s.fp = c.fp /\ ScopeOf(c) = scope
  BY <1>1, StillSays DEF RequestShape
<1>5. InDate(s)' = InDate(s)
  BY StillSays
<1>6. ASSUME request.step = "objects", InDate(s)
      PROVE  /\ \A i \in Ids \ request.fetch : Good(i, s, scope)'
             /\ \A i \in request.created : shown'[i] = 0 => Reported(i, s.seq)'
  <2>1. /\ \A i \in Ids \ request.fetch : Good(i, s, scope)
        /\ \A i \in request.created : shown[i] = 0 => Reported(i, s.seq)
    BY <1>1, <1>6 DEF RequestShape
  <2>2. \A i \in Ids \ request.fetch : Good(i, s, scope)'
    BY <1>2, <2>1, StillGood
  <2>3. shown' = shown /\ \A i, q : Reported(i, q)' = Reported(i, q)
    BY StillSays DEF Still
  <2>. QED
    BY <2>1, <2>2, <2>3
<1>7. request'.current = s /\ request'.scope = scope
  BY <1>1
<1>. QED
  BY <1>1, <1>2, <1>3, <1>4, <1>5, <1>6, <1>7 DEF RequestShape, ScopeOf

\* A step of the administrator or of the event stream.
LEMMA LogStillStep ==
    ASSUME LogInv, Still, SameClient, request' = request, LogTypeOK'
    PROVE  LogInv'
BY StillSays, StillClient, StillRequest DEF LogInv

LEMMA ChangeGrantStep ==
    ASSUME LogInv, ChangeGrant
    PROVE  LogInv'
<1>1. Still /\ SameClient /\ request' = request
  BY DEF ChangeGrant, Still, SameClient, mail
<1>2. LogTypeOK'
  BY DEF ChangeGrant, mail, LogInv, LogTypeOK
<1>. QED
  BY <1>1, <1>2, LogStillStep

LEMMA BumpJmapEpochStep ==
    ASSUME LogInv, BumpJmapEpoch
    PROVE  LogInv'
<1>1. Still /\ SameClient /\ request' = request
  BY DEF BumpJmapEpoch, Still, SameClient, mail
<1>2. LogTypeOK'
  BY DEF BumpJmapEpoch, mail, LogInv, LogTypeOK
<1>. QED
  BY <1>1, <1>2, LogStillStep

\* The state a stream reports.
LEMMA HeadState ==
    ASSUME LogTypeOK, LogShape, NEW scope \in BOOLEAN
    PROVE  [seq |-> Head(scope), issuedAt |-> Day, fp |-> Fingerprint(scope)] \in StateStrings
<1>1. Head(scope) \in Nat /\ Day \in Nat /\ epoch \in Nat
  BY HeadIsLast, DayStarts DEF LogTypeOK
<1>2. Fingerprint(scope) \in Fingerprints
  BY <1>1 DEF Fingerprint, Fingerprints
<1>. QED
  BY <1>1, <1>2 DEF StateStrings

\* To be told leaves the client as it is.
LEMMA ToldSame ==
    ASSUME LogTypeOK, NEW state, Tell(state)
    PROVE  /\ SameClient
           /\ client' \in [held : [Ids -> Nat], state : StateStrings, told : BOOLEAN, ghosts : SUBSET Ids]
BY DEF LogTypeOK, Tell, SameClient

LEMMA OpenStreamStep ==
    ASSUME LogInv, OpenStream
    PROVE  LogInv'
<1>1. LogTypeOK /\ LogShape
  BY DEF LogInv
<1>2. PICK state : /\ state = [seq |-> Head(granted), issuedAt |-> Day, fp |-> Fingerprint(granted)]
                   /\ push' = [on |-> TRUE, scope |-> granted, last |-> state] /\ Tell(state)
  BY DEF OpenStream
<1>3. granted \in BOOLEAN /\ state \in StateStrings
  BY <1>1, <1>2, HeadState DEF LogTypeOK
<1>4. /\ SameClient
      /\ client' \in [held : [Ids -> Nat], state : StateStrings, told : BOOLEAN, ghosts : SUBSET Ids]
  BY <1>1, <1>2, ToldSame
<1>5. Still /\ request' = request /\ UNCHANGED <<granted, grants, epoch>>
  BY DEF OpenStream, Still, mail, account
<1>6. LogTypeOK'
  BY <1>1, <1>2, <1>3, <1>4, <1>5 DEF LogTypeOK, Still
<1>. QED
  BY <1>4, <1>5, <1>6, LogStillStep

LEMMA CheckStreamStep ==
    ASSUME LogInv, CheckStream
    PROVE  LogInv'
<1>1. LogTypeOK /\ LogShape
  BY DEF LogInv
<1>2. PICK state : state = [push.last EXCEPT !.seq = Head(push.scope), !.issuedAt = Day]
  OBVIOUS
<1>3. push.scope \in BOOLEAN /\ push.last \in StateStrings
  BY <1>1 DEF LogTypeOK
<1>4. state \in StateStrings
  <2>1. Head(push.scope) \in Nat /\ Day \in Nat
    BY <1>1, <1>3, HeadIsLast, DayStarts DEF LogTypeOK
  <2>. QED
    BY <1>2, <1>3, <2>1 DEF StateStrings
<1>5. Still /\ request' = request /\ UNCHANGED <<granted, grants, epoch>>
  BY DEF CheckStream, Still, mail, account
<1>6. CASE push' = [push EXCEPT !.last = state] /\ Tell(state)
  <2>1. /\ SameClient
        /\ client' \in [held : [Ids -> Nat], state : StateStrings, told : BOOLEAN, ghosts : SUBSET Ids]
    BY <1>1, <1>6, ToldSame
  <2>2. push' \in [on : BOOLEAN, scope : BOOLEAN, last : StateStrings]
    BY <1>1, <1>4, <1>6 DEF LogTypeOK
  <2>3. LogTypeOK'
    BY <1>1, <1>5, <2>1, <2>2 DEF LogTypeOK, Still
  <2>. QED
    BY <1>5, <2>1, <2>3, LogStillStep
<1>7. CASE push' = NoStream /\ UNCHANGED client
  <2>1. push' \in [on : BOOLEAN, scope : BOOLEAN, last : StateStrings]
    BY <1>7 DEF NoStream, NoState, StateStrings
  <2>2. LogTypeOK'
    BY <1>1, <1>5, <1>7, <2>1 DEF LogTypeOK, Still
  <2>. QED
    BY <1>5, <1>7, <2>2, LogStillStep DEF SameClient
<1>. QED
  BY <1>2, <1>6, <1>7 DEF CheckStream

LEMMA EndStreamStep ==
    ASSUME LogInv, EndStream
    PROVE  LogInv'
<1>1. Still /\ SameClient /\ request' = request /\ UNCHANGED <<client, granted, grants, epoch>>
  BY DEF EndStream, Still, SameClient, mail, account
<1>2. push' \in [on : BOOLEAN, scope : BOOLEAN, last : StateStrings]
  BY DEF EndStream, NoStream, NoState, StateStrings
<1>3. LogTypeOK'
  BY <1>1, <1>2 DEF LogInv, LogTypeOK, Still
<1>. QED
  BY <1>1, <1>3, LogStillStep

\* Time passes between requests; what is out of date stays so.
LEMMA TickStep ==
    ASSUME LogInv, LogTick
    PROVE  LogInv'
<1>1. /\ LogTypeOK /\ LogShape /\ StoreShape /\ LogTells /\ ClientShape /\ RequestShape
      /\ now \in Nat /\ request.step = "none"
  BY DEF LogInv, LogTypeOK, LogTick
<1>2. /\ now' = now + 1 /\ request' = request /\ client' = client
      /\ UNCHANGED <<scene, me, store, shown, log, lastSeq>>
  BY DEF LogTick, mail
<1>3. LogTypeOK'
  BY <1>1 DEF LogTypeOK, LogTick, mail, account
<1>4. LogShape'
  <2>1. \A r \in log : r.at \in Nat /\ r.at <= now
    BY <1>1 DEF LogTypeOK, LogRowType, LogShape
  <2>2. \A r \in log : r.at <= now'
    BY <1>1, <1>2, <2>1
  <2>. QED
    BY <1>1, <1>2, <2>2 DEF LogShape
<1>5. StoreShape' /\ LogTells'
  BY <1>1, <1>2 DEF StoreShape, LogTells, Latest, Concerns
<1>6. ClientShape'
  <2>1. PICK s \in StateStrings : s = client.state
    BY <1>1 DEF LogTypeOK
  <2>2. CASE s # NoState
    <3>1. PICK scope : scope = ScopeOf(s)
      OBVIOUS
    <3>2. s.fp \in Fingerprints /\ Follows(s, scope) /\ (InDate(s) => \A i \in Ids : Good(i, s, scope))
      BY <1>1, <2>1, <2>2, <3>1 DEF ClientShape
    <3>3. s.issuedAt \in Nat /\ StateMaxAge \in Nat
      BY ClockAssumption DEF StateStrings
    <3>4. Follows(s, scope)'
      <4>1. s.issuedAt <= now'
        BY <1>1, <1>2, <3>2, <3>3 DEF Follows
      <4>. QED
        BY <1>2, <3>2, <4>1 DEF Follows, Concerns
    <3>5. InDate(s)' => InDate(s)
      BY <1>1, <1>2, <3>3 DEF InDate
    <3>6. \A i \in Ids : Good(i, s, scope) => Good(i, s, scope)'
      BY <1>2 DEF Good, Content, Reported, Concerns
    <3>. QED
      BY <1>1, <1>2, <2>1, <3>1, <3>2, <3>4, <3>5, <3>6 DEF ClientShape, ScopeOf
  <2>3. CASE s = NoState
    BY <1>1, <1>2, <2>1, <2>3 DEF ClientShape
  <2>. QED
    BY <2>2, <2>3
<1>7. RequestShape'
  BY <1>1, <1>2 DEF RequestShape
<1>. QED
  BY <1>3, <1>4, <1>5, <1>6, <1>7 DEF LogInv

-----------------------------------------------------------------------------
(* The client's requests.                                                  *)

Requests == [step : {"none", "fingerprint", "rows", "objects"}, scope : BOOLEAN,
             current : StateStrings, fetch : SUBSET Ids, created : SUBSET Ids, more : BOOLEAN]
Clients == [held : [Ids -> Nat], state : StateStrings, told : BOOLEAN, ghosts : SUBSET Ids]

\* A step of the client, and what is left to see of it.
LEMMA ClientStep ==
    ASSUME LogInv, Still, UNCHANGED <<granted, grants, epoch, push>>,
           client' \in Clients, request' \in Requests, ClientShape', RequestShape'
    PROVE  LogInv'
<1>1. LogTypeOK'
  BY DEF LogInv, LogTypeOK, Still, Clients, Requests
<1>. QED
  BY <1>1, StillSays DEF LogInv

LEMMA NoRequestShape ==
    ASSUME request' = NoRequest
    PROVE  request' \in Requests /\ RequestShape'
<1>1. request' \in Requests
  BY DEF NoRequest, Requests, NoState, StateStrings
<1>2. request'.step = "none" /\ request'.created = {}
  BY DEF NoRequest
<1>. QED
  BY <1>1, <1>2 DEF RequestShape

\* A request begins at the head of what its member may be told of.
LEMMA StartStep ==
    ASSUME LogInv, Start
    PROVE  LogInv'
<1>1. LogTypeOK /\ LogShape /\ ClientShape
  BY DEF LogInv
<1>2. PICK s : /\ s = [seq |-> Head(granted), issuedAt |-> Day, fp |-> <<>>]
               /\ request' = [NoRequest EXCEPT !.step = "fingerprint", !.scope = granted, !.current = s]
  BY DEF Start
<1>3. /\ Still /\ SameClient /\ UNCHANGED <<granted, grants, epoch, push>>
      /\ client' = [client EXCEPT !.told = FALSE]
  BY <1>1 DEF Start, Still, SameClient, mail, account, LogTypeOK
<1>4. granted \in BOOLEAN /\ now \in Nat
  BY <1>1 DEF LogTypeOK
<1>5. /\ Head(granted) \in Nat /\ Head(granted) <= lastSeq
      /\ granted => \A r \in log : Concerns(r) => r.seq <= Head(granted)
  BY <1>1, <1>4, HeadIsLast
<1>6. Day \in Nat /\ Day <= now
  BY <1>4, DayStarts
<1>7. s \in StateStrings
  BY <1>2, <1>5, <1>6 DEF StateStrings
<1>8. Follows(s, granted)
  <2>1. \A r \in log : r.seq \in Nat
    BY <1>1 DEF LogTypeOK, LogRowType
  <2>2. ASSUME granted, NEW r \in log, Concerns(r), r.seq > s.seq PROVE FALSE
    <3>0. PICK h \in Nat : h = Head(granted)
      BY <1>5, Zenon
    <3>1. s.seq = h /\ r.seq \in Nat
      BY <1>2, <2>1, <3>0
    <3>2. r.seq <= h
      BY <1>5, <2>2, <3>0
    <3>3. r.seq > s.seq
      BY <2>2
    <3>. QED
      BY <3>1, <3>2, <3>3
  <2>. QED
    BY <1>2, <1>5, <1>6, <2>2 DEF Follows
<1>9. Follows(s, granted)'
  BY <1>3, <1>8, StillSays
<1>10. /\ request'.step = "fingerprint" /\ request'.current = s
       /\ request'.scope = granted /\ request'.created = {}
  BY <1>2 DEF NoRequest
<1>11. request' \in Requests
  BY <1>2, <1>4, <1>7 DEF NoRequest, Requests
<1>12. RequestShape'
  <2>1. request'.step # "rows" /\ request'.step # "objects"
    BY <1>10
  <2>2. Follows(request.current, request.scope)'
    BY <1>3, <1>9, <1>10 DEF Follows, Concerns, Still
  <2>. QED
    BY <1>10, <2>1, <2>2 DEF RequestShape
<1>13. ClientShape'
  BY <1>1, <1>3, StillClient
<1>14. client' \in Clients
  BY <1>1, <1>3 DEF LogTypeOK, Clients
<1>. QED
  BY <1>3, <1>11, <1>12, <1>13, <1>14, ClientStep

\* The fingerprint of a request is that of its scope.
LEMMA FingerprintRead ==
    ASSUME LogTypeOK, NEW q, q = [request EXCEPT !.current.fp = Fingerprint(request.scope)]
    PROVE  /\ q \in Requests /\ q.scope = request.scope /\ q.created = request.created
           /\ q.current.seq = request.current.seq /\ q.current.issuedAt = request.current.issuedAt
           /\ q.current.fp = Fingerprint(request.scope) /\ q.current.fp \in Fingerprints
           /\ ScopeOf(q.current) = request.scope
<1>1. request \in Requests /\ epoch \in Nat
  BY DEF LogTypeOK, Requests
<1>2. PICK s \in StateStrings : s = request.current
  BY <1>1 DEF Requests
<1>3. PICK fp \in Fingerprints : fp = Fingerprint(request.scope) /\ fp[2] = request.scope
  <2>1. request.scope \in BOOLEAN
    BY <1>1 DEF Requests
  <2>2. <<epoch, request.scope>> \in Nat \X BOOLEAN /\ <<epoch, request.scope>>[2] = request.scope
    BY <1>1, <2>1
  <2>. QED
    BY <2>2 DEF Fingerprint, Fingerprints
<1>4. PICK t : t = [s EXCEPT !.fp = fp]
  OBVIOUS
<1>5. q = [request EXCEPT !.current = t]
  BY <1>1, <1>2, <1>3, <1>4 DEF Requests
<1>6. t \in StateStrings /\ t.seq = s.seq /\ t.issuedAt = s.issuedAt /\ t.fp = fp
  BY <1>4 DEF StateStrings
<1>7. q \in Requests /\ q.current = t /\ q.scope = request.scope /\ q.created = request.created
  BY <1>1, <1>5, <1>6 DEF Requests
<1>. QED
  BY <1>2, <1>3, <1>6, <1>7 DEF ScopeOf

LEMMA ReadFingerprintStep ==
    ASSUME LogInv, ReadFingerprint
    PROVE  LogInv'
<1>1. LogTypeOK /\ LogShape /\ ClientShape /\ RequestShape
  BY DEF LogInv
<1>2. PICK fp : fp = Fingerprint(request.scope)
  OBVIOUS
<1>3. PICK q : q = [request EXCEPT !.current.fp = Fingerprint(request.scope)]
  OBVIOUS
<1>4. /\ q \in Requests /\ q.scope = request.scope /\ q.created = request.created
      /\ q.current.seq = request.current.seq /\ q.current.issuedAt = request.current.issuedAt
      /\ q.current.fp = fp /\ fp \in Fingerprints /\ ScopeOf(q.current) = request.scope
  BY <1>1, <1>2, <1>3, FingerprintRead
<1>5. request.step = "fingerprint" /\ request.created = {} /\ Follows(request.current, request.scope)
  BY <1>1 DEF ReadFingerprint, RequestShape
<1>6. Still /\ UNCHANGED <<granted, grants, epoch, push>>
  BY DEF ReadFingerprint, Still, mail, account
<1>7. Follows(q.current, q.scope)
  BY <1>4, <1>5 DEF Follows
<1>8. CASE /\ client.state = NoState
           /\ request' = [q EXCEPT !.step = "objects", !.fetch = Ids]
           /\ UNCHANGED client
  <2>1. /\ request' \in Requests /\ request'.step = "objects" /\ request'.fetch = Ids
        /\ request'.scope = q.scope
        /\ request'.current = q.current /\ request'.created = {}
    BY <1>4, <1>5, <1>8 DEF Requests
  <2>2. SameClient /\ client' \in Clients
    BY <1>1, <1>8 DEF SameClient, LogTypeOK, Clients
  <2>3. ClientShape'
    BY <1>1, <1>6, <2>2, StillClient
  <2>4. Follows(request.current, request.scope)'
    BY <1>6, <1>7, <2>1 DEF Follows, Concerns, Still
  <2>5. ScopeOf(request.current)' = request'.scope /\ request'.current.fp \in Fingerprints
    BY <1>4, <2>1 DEF ScopeOf
  <2>6. RequestShape'
    BY <2>1, <2>4, <2>5 DEF RequestShape
  <2>. QED
    BY <1>6, <2>1, <2>2, <2>3, <2>6, ClientStep
<1>9. CASE request' = NoRequest /\ client' = [client EXCEPT !.state = NoState]
  <2>1. client \in Clients
    BY <1>1 DEF LogTypeOK, Clients
  <2>2. client' \in Clients /\ client'.state = NoState /\ client'.held = client.held
    BY <1>9, <2>1 DEF Clients, NoState, StateStrings
  <2>3. ClientShape'
    BY <1>1, <1>6, <2>2 DEF ClientShape, Still
  <2>. QED
    BY <1>6, <1>9, <2>2, <2>3, NoRequestShape, ClientStep
<1>10. CASE /\ client.state # NoState /\ ~Refused(client.state, fp, request.scope)
            /\ request' = [q EXCEPT !.step = "rows"] /\ UNCHANGED client
  <2>1. /\ request' \in Requests /\ request'.step = "rows" /\ request'.scope = q.scope
        /\ request'.current = q.current /\ request'.created = {}
    BY <1>4, <1>5, <1>10 DEF Requests
  <2>2. SameClient /\ client' \in Clients
    BY <1>1, <1>10 DEF SameClient, LogTypeOK, Clients
  <2>3. ClientShape'
    BY <1>1, <1>6, <2>2, StillClient
  <2>4. Follows(request.current, request.scope)'
    BY <1>6, <1>7, <2>1 DEF Follows, Concerns, Still
  <2>5. client.state.fp = fp /\ InDate(client.state)
    <3>1. client.state.fp = fp /\ ~(client.state.issuedAt < now - StateMaxAge)
      BY <1>10 DEF Refused
    <3>2. client.state.issuedAt \in Nat /\ now \in Nat /\ StateMaxAge \in Nat
      BY <1>1, ClockAssumption DEF LogTypeOK, StateStrings
    <3>. QED
      BY <3>1, <3>2 DEF InDate
  <2>6. client'.state # NoState /\ InDate(client.state)'
    BY <1>6, <1>10, <2>5 DEF Still, InDate
  <2>7. request'.current.fp = client'.state.fp /\ ScopeOf(client.state)' = request'.scope
    BY <1>4, <1>10, <2>1, <2>5 DEF ScopeOf
  <2>8. RequestShape'
    BY <2>1, <2>4, <2>6, <2>7 DEF RequestShape
  <2>. QED
    BY <1>6, <2>1, <2>2, <2>3, <2>8, ClientStep
<1>. QED
  BY <1>2, <1>3, <1>8, <1>9, <1>10 DEF ReadFingerprint

-----------------------------------------------------------------------------
(* What the rows past a position say, and a page of them.                  *)

LEMMA RowsAre ==
    ASSUME NEW scope \in BOOLEAN, NEW q
    PROVE  \A r : r \in ScopedRows(scope, q) <=> r \in log /\ scope /\ r.seq > q /\ Concerns(r)
BY DEF ScopedRows, Concerns

\* The last of some rows about an id.
LEMMA LastRow ==
    ASSUME LogTypeOK, LogShape, NEW rows \in SUBSET log, NEW i \in {r.id : r \in rows}
    PROVE  /\ LastOf(rows, i) \in rows /\ LastOf(rows, i).id = i
           /\ \A o \in rows : o.id = i => LastOf(rows, i).seq >= o.seq
<1> DEFINE mine == {r \in rows : r.id = i}
           S == {r.seq : r \in mine}
<1>1. lastSeq \in Nat /\ \A r \in rows : r.seq \in Nat /\ r.seq <= lastSeq
  BY DEF LogTypeOK, LogShape, LogRowType
<1>2. S \in SUBSET Nat /\ S # {} /\ \A x \in S : x <= lastSeq
  <2>1. S \subseteq Nat /\ \A x \in S : x <= lastSeq
    BY <1>1
  <2>2. PICK r \in rows : r.id = i
    OBVIOUS
  <2>3. r.seq \in S
    BY <2>2
  <2>. QED
    BY <2>1, <2>3
<1>3. \A r \in mine : r.seq \in S
  OBVIOUS
<1>4. \A x \in S : \E r \in mine : r.seq = x
  OBVIOUS
<1>. HIDE DEF S
<1>5. Max(S) \in S /\ \A y \in S : Max(S) >= y
  BY <1>1, <1>2, GreatestNumber
<1>6. PICK r \in mine : r.seq = Max(S)
  BY <1>4, <1>5
<1>7. r \in rows /\ r.id = i /\ \A o \in rows : o.id = i => r.seq >= o.seq
  BY <1>3, <1>5, <1>6
<1>8. \E l \in rows : l.id = i /\ \A o \in rows : o.id = i => l.seq >= o.seq
  BY <1>7
<1>. QED
  BY <1>8 DEF LastOf

\* It says whether there is something to see.
LEMMA LastTells ==
    ASSUME LogTypeOK, LogShape, StoreShape, LogTells, NEW scope \in BOOLEAN, NEW q \in Nat,
           NEW i \in {r.id : r \in ScopedRows(scope, q)}
    PROVE  i \in Ids /\ (LastOf(ScopedRows(scope, q), i).op = "d" <=> shown[i] = 0)
<1>1. PICK rows \in SUBSET log : rows = ScopedRows(scope, q)
  BY DEF ScopedRows
<1>2. PICK l \in rows : l = LastOf(rows, i) /\ l.id = i /\ \A o \in rows : o.id = i => l.seq >= o.seq
  BY <1>1, LastRow
<1>3. /\ l \in log /\ scope /\ l.seq > q /\ Concerns(l)
      /\ \A o \in log : Concerns(o) /\ o.seq > q => o \in rows
  BY <1>1, <1>2, RowsAre
<1>4. \A o \in log : o.seq \in Nat /\ o.id \in Ids
  BY DEF LogTypeOK, LogRowType
<1>5. ASSUME NEW o \in log, Concerns(o), o.id = l.id PROVE o.seq <= l.seq
  <2>1. o.seq \in Nat /\ l.seq \in Nat /\ l.seq > q
    BY <1>3, <1>4
  <2>2. CASE o.seq > q
    BY <1>2, <1>3, <1>5, <2>1, <2>2
  <2>3. CASE ~(o.seq > q)
    BY <2>1, <2>3
  <2>. QED
    BY <2>2, <2>3
<1>6. (l.op = "d") = ~Visible(store, me, l.id)
  BY <1>3, <1>5 DEF LogTells, Latest
<1>7. (shown[l.id] = 0) = ~Visible(store, me, l.id)
  BY <1>3, <1>4 DEF StoreShape
<1>8. (l.op = "d") = (shown[l.id] = 0)
  BY <1>6, <1>7
<1>9. l.id = i /\ i \in Ids /\ LastOf(ScopedRows(scope, q), i) = l
  BY <1>1, <1>2, <1>3, <1>4
<1>. QED
  BY <1>8, <1>9

\* The ids a page leaves out have rows past all of the page's.
LEMMA PageOrder ==
    ASSUME LogTypeOK, LogShape, NEW rows \in SUBSET log, NEW size \in Nat \ {0}
    PROVE  LET ids == {r.id : r \in rows}
               page == Page(rows, size)
           IN  /\ page \subseteq ids
               /\ ids # {} => page # {}
               /\ \A i \in ids \ page, k \in page : LastOf(rows, k).seq < LastOf(rows, i).seq
<1> DEFINE ids == {r.id : r \in rows}
           last(i) == LastOf(rows, i).seq
           below(i) == {j \in ids : last(j) < last(i)}
           page == Page(rows, size)
<1>1. \A i \in ids : last(i) \in Nat
  <2>1. \A r \in rows : r.seq \in Nat
    BY DEF LogTypeOK, LogRowType
  <2>. QED
    BY <2>1, LastRow
<1>2. IsFiniteSet(ids)
  <2>1. ids \subseteq Ids
    BY DEF LogTypeOK, LogRowType
  <2>2. IsFiniteSet(Ids)
    <3>1. Ids = (({} \cup {"received"}) \cup {"draft"}) \cup {"sent"}
      BY DEF Ids
    <3>2. \A S, x : IsFiniteSet(S) => IsFiniteSet(S \cup {x})
      BY FS_AddElement, Zenon
    <3>3. IsFiniteSet({})
      BY FS_EmptySet, Zenon
    <3>. QED
      BY <3>1, <3>2, <3>3
  <2>. HIDE DEF ids
  <2>. QED
    BY <2>1, <2>2, FS_Subset
<1>3. \A i : i \in page <=> i \in ids /\ Cardinality(below(i)) < size
  BY DEF Page
<1>4. \A i : below(i) \subseteq ids
  OBVIOUS
<1>5. \A i : IsFiniteSet(below(i)) /\ Cardinality(below(i)) \in Nat
  <2>1. \A S : S \subseteq ids => IsFiniteSet(S)
    <3>. HIDE DEF ids
    <3>. QED
      BY <1>2, FS_Subset
  <2>2. \A S : IsFiniteSet(S) => Cardinality(S) \in Nat
    BY FS_CardinalityType
  <2>. HIDE DEF below, ids
  <2>. QED
    BY <1>4, <2>1, <2>2
<1>6. ASSUME ids # {} PROVE page # {}
  <2> DEFINE S == {last(i) : i \in ids}
  <2>1. S \in SUBSET Nat /\ S # {}
    <3>1. PICK i \in ids : TRUE
      BY <1>6
    <3>2. last(i) \in S
      OBVIOUS
    <3>3. S \subseteq Nat
      BY <1>1
    <3>. QED
      BY <3>2, <3>3
  <2>2. PICK x \in S : \A y \in S : x <= y
    BY <2>1, LeastNumber
  <2>3. PICK i \in ids : last(i) = x
    BY <2>2
  <2>4. \A j \in ids : last(j) \in S /\ last(j) \in Nat /\ last(i) \in Nat
    BY <1>1
  <2>5. \A j \in ids : ~(last(j) < last(i))
    <3>. HIDE DEF S, last, ids
    <3>. QED
      BY <2>2, <2>3, <2>4
  <2>6. below(i) = {}
    BY <2>5
  <2>7. Cardinality(below(i)) = 0
    <3>1. Cardinality({}) = 0
      BY FS_EmptySet, Zenon
    <3>. QED
      BY <2>6, <3>1
  <2>. HIDE DEF page, below, ids
  <2>8. Cardinality(below(i)) < size
    BY <2>7
  <2>. QED
    BY <1>3, <2>3, <2>8
<1>7. ASSUME NEW i \in ids \ page, NEW k \in page PROVE last(k) < last(i)
  <2>1. i \in ids /\ k \in ids /\ Cardinality(below(k)) < size /\ ~(Cardinality(below(i)) < size)
    BY <1>3
  <2>2. last(i) \in Nat /\ last(k) \in Nat /\ \A j \in ids : last(j) \in Nat
    BY <1>1, <2>1
  <2>3. SUFFICES ASSUME last(i) <= last(k) PROVE FALSE
    <3>. HIDE DEF last
    <3>. QED
      BY <2>2
  <2>4. below(i) \subseteq below(k)
    <3>1. ASSUME NEW j \in below(i) PROVE j \in below(k)
      <4>1. j \in ids /\ last(j) < last(i)
        OBVIOUS
      <4>2. last(j) < last(k)
        <5>. HIDE DEF last, ids
        <5>. QED
          BY <2>2, <2>3, <4>1
      <4>. QED
        BY <4>1, <4>2
    <3>. QED
      BY <3>1
  <2>5. Cardinality(below(i)) <= Cardinality(below(k))
    <3>1. IsFiniteSet(below(k))
      BY <1>5
    <3>. HIDE DEF below
    <3>. QED
      BY <2>4, <3>1, FS_Subset
  <2>6. Cardinality(below(i)) \in Nat /\ Cardinality(below(k)) \in Nat
    BY <1>5
  <2>. HIDE DEF below
  <2>. QED
    BY <2>1, <2>5, <2>6
<1>8. page \subseteq ids
  BY <1>3
<1>. QED
  BY <1>6, <1>7, <1>8

\* The ids of some rows, and the end of a page of them.
IdsOf(rows) == {r.id : r \in rows}
EndOf(rows, page) == Max({LastOf(rows, i).seq : i \in page})

\* The end of a page that leaves ids out is a position past all of it, and
\* what is left out is reported past that.
LEMMA PageEnds ==
    ASSUME LogTypeOK, LogShape, NEW scope \in BOOLEAN, NEW q \in Nat, NEW size \in Nat \ {0},
           NEW rows, rows = ScopedRows(scope, q), Page(rows, size) # IdsOf(rows)
    PROVE  /\ EndOf(rows, Page(rows, size)) \in Nat
           /\ EndOf(rows, Page(rows, size)) >= q /\ EndOf(rows, Page(rows, size)) <= lastSeq
           /\ \A i \in IdsOf(rows) \ Page(rows, size) :
                 scope /\ \E r \in log : Concerns(r) /\ r.seq > EndOf(rows, Page(rows, size)) /\ r.id = i
<1>0. PICK page, ids : page = Page(rows, size) /\ ids = {r.id : r \in rows} /\ page # ids
  BY DEF IdsOf
<1> DEFINE ends == {LastOf(rows, i).seq : i \in page}
<1>1. rows \in SUBSET log /\ \A r \in rows : scope /\ r.seq > q /\ Concerns(r)
  BY RowsAre DEF ScopedRows
<1>2. /\ page \subseteq ids /\ (ids # {} => page # {})
      /\ \A i \in ids \ page, k \in page : LastOf(rows, k).seq < LastOf(rows, i).seq
  BY <1>0, <1>1, PageOrder
<1>3. ids # {} /\ page # {}
  BY <1>0, <1>2
<1>4. \A i \in ids : LastOf(rows, i) \in rows /\ LastOf(rows, i).id = i
  BY <1>0, <1>1, LastRow
<1>5. lastSeq \in Nat /\ \A r \in rows : r.seq \in Nat /\ r.seq <= lastSeq
  BY <1>1 DEF LogTypeOK, LogShape, LogRowType
<1>6. ends \in SUBSET Nat /\ ends # {} /\ \A x \in ends : x <= lastSeq
  <2>1. \A x \in ends : x \in Nat /\ x <= lastSeq
    BY <1>2, <1>4, <1>5
  <2>2. PICK k \in page : TRUE
    BY <1>3
  <2>3. LastOf(rows, k).seq \in ends
    OBVIOUS
  <2>. QED
    BY <2>1, <2>3
<1>7. \A x \in ends : \E k \in page : x = LastOf(rows, k).seq
  OBVIOUS
<1>8. PICK end : end = EndOf(rows, Page(rows, size)) /\ end = Max(ends)
  BY <1>0 DEF EndOf
<1>. HIDE DEF ends
<1>9. end \in ends
  BY <1>5, <1>6, <1>8, GreatestNumber
<1>10. PICK k \in page : end = LastOf(rows, k).seq
  BY <1>7, <1>9
<1>11. PICK l \in rows : l = LastOf(rows, k)
  BY <1>2, <1>4
<1>12. end \in Nat /\ end >= q /\ end <= lastSeq
  BY <1>1, <1>5, <1>10, <1>11
<1>13. ASSUME NEW i \in ids \ page
       PROVE  scope /\ \E r \in log : Concerns(r) /\ r.seq > end /\ r.id = i
  <2>1. PICK r \in rows : r = LastOf(rows, i) /\ r.id = i
    BY <1>4
  <2>2. LastOf(rows, k).seq < r.seq
    BY <1>2, <2>1
  <2>3. r.seq > end
    BY <1>5, <1>10, <1>12, <2>2
  <2>. QED
    BY <1>1, <2>1, <2>3
<1>14. \A i \in ids \ page : scope /\ \E r \in log : Concerns(r) /\ r.seq > end /\ r.id = i
  BY <1>13
<1>15. ids = IdsOf(rows)
  BY <1>0 DEF IdsOf
<1>. QED
  BY <1>0, <1>8, <1>12, <1>14, <1>15

-----------------------------------------------------------------------------
(* The answers.                                                            *)

\* Before rows past the position of s are classified: what the client holds
\* wrongly is in them, and what they say was destroyed is not there.
RowsTold(s, scope, rows, ids) ==
    /\ ids \subseteq Ids /\ (ids # {} => scope)
    /\ s # NoState /\ InDate(s) /\ ScopeOf(s) = scope /\ s.fp \in Fingerprints /\ Follows(s, scope)
    /\ \A i \in Ids : Good(i, s, scope)
    /\ \A i \in Ids : i \notin ids /\ (scene.view = "mailbox" => rows = {}) =>
          client.held[i] = Content(scope, i) \/ i \in client.ghosts
    /\ \A i \in ids : LastOf(rows, i).op = "d" <=> shown[i] = 0

LEMMA RowsTell ==
    ASSUME LogInv, request.step = "rows"
    PROVE  LET rows == ScopedRows(request.scope, client.state.seq)
           IN  RowsTold(client.state, request.scope, rows, IdsOf(rows))
<1>0. PICK s \in StateStrings, scope \in BOOLEAN : s = client.state /\ scope = request.scope
  BY DEF LogInv, LogTypeOK
<1>a. PICK rows : rows = ScopedRows(scope, s.seq)
  OBVIOUS
<1>b. PICK ids : ids = IdsOf(rows)
  OBVIOUS
<1>1. LogTypeOK /\ LogShape /\ StoreShape /\ LogTells /\ ClientShape /\ RequestShape
  BY DEF LogInv
<1>2. s # NoState /\ InDate(s) /\ ScopeOf(s) = scope
  BY <1>0, <1>1 DEF RequestShape
<1>3. s.fp \in Fingerprints /\ Follows(s, scope) /\ \A i \in Ids : Good(i, s, scope)
  BY <1>0, <1>1, <1>2 DEF ClientShape
<1>4. \A r : r \in rows <=> r \in log /\ scope /\ r.seq > s.seq /\ Concerns(r)
  BY <1>a, RowsAre
<1>5. ids \subseteq Ids /\ (ids # {} => scope)
  BY <1>b, <1>1, <1>4 DEF LogTypeOK, LogRowType, IdsOf
<1>6. ASSUME NEW i \in Ids, i \notin ids, scene.view = "mailbox" => rows = {}
      PROVE  client.held[i] = Content(scope, i) \/ i \in client.ghosts
  <2>1. ~(scope /\ Reported(i, s.seq))
    <3>1. SUFFICES ASSUME scope, NEW r \in log, Concerns(r), r.seq > s.seq,
                          scene.view = "mailbox" \/ r.id = i
                   PROVE  FALSE
      BY DEF Reported
    <3>2. r \in rows
      BY <1>4, <3>1
    <3>. QED
      BY <1>b, <1>6, <3>1, <3>2 DEF IdsOf
  <2>2. Good(i, s, scope)
    BY <1>3
  <2>. QED
    BY <2>1, <2>2 DEF Good
<1>7. s.seq \in Nat
  BY DEF StateStrings
<1>8. \A i \in ids : LastOf(rows, i).op = "d" <=> shown[i] = 0
  BY <1>a, <1>b, <1>1, <1>7, LastTells DEF IdsOf
<1>9. RowsTold(s, scope, rows, ids)
  BY <1>2, <1>3, <1>5, <1>6, <1>8 DEF RowsTold
<1>. QED
  BY <1>0, <1>a, <1>b, <1>9

\* A page of Email/changes: what it says was destroyed goes, and what it
\* leaves out is reported past its state.
LEMMA EmailChangesStep ==
    ASSUME LogInv, Still, UNCHANGED <<granted, grants, epoch, push>>, request.step = "rows",
           scene.view = "email", EmailChanges(ScopedRows(request.scope, client.state.seq))
    PROVE  LogInv'
<1>1. LogTypeOK /\ LogShape /\ RequestShape
  BY DEF LogInv
<1>2. PICK s \in StateStrings, scope \in BOOLEAN : s = client.state /\ scope = request.scope
  BY <1>1 DEF LogTypeOK
<1>3. PICK rows : rows = ScopedRows(scope, s.seq)
  OBVIOUS
<1>4. PICK ids : ids = IdsOf(rows)
  OBVIOUS
<1>0. EmailChanges(rows)
  BY <1>2, <1>3
<1>5. PICK size \in PageSizes :
         LET page == Page(rows, size)
             more == page # IdsOf(rows)
             gone == {i \in page : Destroyed(rows, i)}
             over == {i \in page : Skipped(rows, i)} IN
         /\ request' = [request EXCEPT !.step = "objects", !.more = more,
                          !.fetch = page \ (gone \cup over),
                          !.current = IF more
                                      THEN [client.state EXCEPT
                                              !.seq = EndOf(rows, page)]
                                      ELSE @]
         /\ client' = [client EXCEPT
                          !.held = [i \in Ids |-> IF i \in gone THEN 0 ELSE @[i]],
                          !.ghosts = @ \cup {i \in over : client.held[i] # 0}]
  BY <1>0 DEF EmailChanges, IdsOf, EndOf
<1>6. PICK page : page = Page(rows, size)
  OBVIOUS
<1>7. PICK gone, over : /\ gone = {i \in page : Destroyed(rows, i)}
                        /\ over = {i \in page : Skipped(rows, i)}
  OBVIOUS
<1>8. PICK c : c = IF page # ids THEN [s EXCEPT !.seq = EndOf(rows, page)]
                   ELSE request.current
  OBVIOUS
<1>9. /\ request' = [request EXCEPT !.step = "objects", !.more = (page # ids),
                                    !.fetch = page \ (gone \cup over), !.current = c]
      /\ client' = [client EXCEPT !.held = [i \in Ids |-> IF i \in gone THEN 0 ELSE @[i]],
                                  !.ghosts = @ \cup {i \in over : client.held[i] # 0}]
  <2>1. c = IF page # ids THEN [client.state EXCEPT !.seq = EndOf(rows, page)]
            ELSE request.current
    BY <1>2, <1>8
  <2>. QED
    BY <1>4, <1>5, <1>6, <1>7, <2>1
<1>10. /\ ids \subseteq Ids /\ (ids # {} => scope)
       /\ s # NoState /\ InDate(s) /\ ScopeOf(s) = scope /\ s.fp \in Fingerprints /\ Follows(s, scope)
       /\ \A i \in Ids : Good(i, s, scope)
       /\ \A i \in Ids : i \notin ids => client.held[i] = Content(scope, i) \/ i \in client.ghosts
       /\ \A i \in ids : LastOf(rows, i).op = "d" <=> shown[i] = 0
  <2>1. RowsTold(s, scope, rows, ids)
    BY <1>2, <1>3, <1>4, RowsTell
  <2>. QED
    BY <2>1 DEF RowsTold
<1>11. size \in Nat \ {0} /\ s.seq \in Nat
  BY ClockAssumption DEF StateStrings
<1>12. page \subseteq ids
  <2>1. rows \in SUBSET log
    BY <1>3 DEF ScopedRows
  <2>. QED
    BY <1>1, <1>4, <1>6, <1>11, <2>1, PageOrder DEF IdsOf
<1>13. \A i \in gone \cup over : i \in ids /\ Content(scope, i) = 0
  BY <1>7, <1>10, <1>12 DEF Destroyed, Skipped, Content
<1>14. /\ c \in StateStrings /\ c.fp = s.fp /\ Follows(c, scope) /\ (InDate(c) => InDate(s))
       /\ \A i \in ids \ page : scope /\ Reported(i, c.seq)
  <2>1. CASE page # ids
    <3>1. PICK end : end = EndOf(rows, page)
      OBVIOUS
    <3>0. Page(rows, size) # IdsOf(rows)
      BY <1>4, <1>6, <2>1
    <3>a. /\ EndOf(rows, Page(rows, size)) \in Nat
          /\ EndOf(rows, Page(rows, size)) >= s.seq /\ EndOf(rows, Page(rows, size)) <= lastSeq
          /\ \A i \in IdsOf(rows) \ Page(rows, size) :
                scope /\ \E r \in log : Concerns(r) /\ r.seq > EndOf(rows, Page(rows, size)) /\ r.id = i
      BY <1>1, <1>3, <1>11, <3>0, PageEnds
    <3>b. ids = IdsOf(rows) /\ end = EndOf(rows, Page(rows, size)) /\ page = Page(rows, size)
      BY <1>4, <1>6, <3>1
    <3>2. /\ end \in Nat /\ end >= s.seq /\ end <= lastSeq
          /\ \A i \in ids \ page : scope /\ \E r \in log : Concerns(r) /\ r.seq > end /\ r.id = i
      BY ONLY <3>a, <3>b
    <3>3. c = [s EXCEPT !.seq = end]
      BY <1>8, <2>1, <3>1
    <3>4. c \in StateStrings /\ c.seq = end /\ c.issuedAt = s.issuedAt /\ c.fp = s.fp
      BY <3>2, <3>3 DEF StateStrings
    <3>5. Follows(c, scope)
      <4>1. \A r \in log : r.seq \in Nat
        BY <1>1 DEF LogTypeOK, LogRowType
      <4>2. \A r \in log : r.seq > end => r.seq > s.seq
        BY <1>11, <3>2, <4>1
      <4>. QED
        BY <1>10, <3>2, <3>4, <4>2 DEF Follows
    <3>. QED
      BY <1>10, <3>2, <3>4, <3>5 DEF Reported, InDate
  <2>2. CASE page = ids
    BY <1>1, <1>2, <1>8, <1>10, <2>2 DEF RequestShape, LogTypeOK
  <2>. QED
    BY <2>1, <2>2
<1>15. /\ request' \in Requests /\ request'.step = "objects" /\ request'.current = c
       /\ request'.scope = scope /\ request'.fetch = page \ (gone \cup over) /\ request'.created = {}
  <2>1. request \in Requests /\ request.created = {}
    BY <1>1 DEF LogTypeOK, Requests, RequestShape
  <2>2. page \ (gone \cup over) \in SUBSET Ids /\ (page # ids) \in BOOLEAN
    BY <1>10, <1>12
  <2>. QED
    BY <1>2, <1>9, <1>14, <2>1, <2>2 DEF Requests
<1>16. /\ client' \in Clients /\ client'.state = s
       /\ \A i \in Ids : client'.held[i] = IF i \in gone THEN 0 ELSE client.held[i]
       /\ client'.ghosts = client.ghosts \cup {i \in over : client.held[i] # 0}
  <2>1. client \in Clients
    BY <1>1 DEF LogTypeOK, Clients
  <2>2. over \subseteq Ids
    BY <1>7, <1>10, <1>12
  <2>3. \A i \in Ids : (IF i \in gone THEN 0 ELSE client.held[i]) \in Nat
    BY <2>1 DEF Clients
  <2>. QED
    BY <1>2, <1>9, <2>1, <2>2, <2>3 DEF Clients
<1>17. /\ \A i, q : Reported(i, q)' = Reported(i, q)
       /\ \A i : Content(scope, i)' = Content(scope, i)
       /\ Follows(s, scope)' /\ Follows(c, scope)'
       /\ InDate(c)' = InDate(c) /\ InDate(s)' = InDate(s) /\ ScopeOf(s)' = scope
  BY <1>10, <1>14, StillSays
<1>18. \A i \in gone \cup over : Good(i, s, scope)' /\ Good(i, c, scope)'
  <2>1. ASSUME NEW i \in gone \cup over PROVE client'.held[i] = 0 \/ i \in client'.ghosts
    BY <1>10, <1>13, <1>16
  <2>. QED
    BY <1>13, <1>17, <2>1 DEF Good
<1>19. \A i \in Ids : i \notin gone => client'.held[i] = client.held[i]
  BY <1>16
<1>20. \A i \in Ids : Good(i, s, scope)'
  <2>1. ASSUME NEW i \in Ids, i \notin gone \cup over PROVE Good(i, s, scope)'
    BY <1>10, <1>16, <1>17, <1>19, <2>1 DEF Good
  <2>. QED
    BY <1>18, <2>1
<1>21. \A i \in Ids \ (page \ (gone \cup over)) : Good(i, c, scope)'
  <2>1. ASSUME NEW i \in ids \ page PROVE Good(i, c, scope)'
    <3>1. scope /\ Reported(i, c.seq)
      BY <1>14
    <3>2. Reported(i, c.seq)'
      BY <1>17, <3>1
    <3>. QED
      BY <3>1, <3>2 DEF Good
  <2>2. ASSUME NEW i \in Ids, i \notin ids PROVE Good(i, c, scope)'
    <3>1. i \notin gone
      BY <1>13, <2>2
    <3>2. client.held[i] = Content(scope, i) \/ i \in client.ghosts
      BY <1>10, <2>2
    <3>. QED
      BY <1>16, <1>17, <1>19, <3>1, <3>2 DEF Good
  <2>. QED
    BY <1>18, <2>1, <2>2
<1>22. ClientShape'
  <2>1. scene'.view = "email"
    BY DEF Still
  <2>. QED
    BY <1>10, <1>16, <1>17, <1>20, <2>1 DEF ClientShape, ScopeOf
<1>23. RequestShape'
  <2>1. ScopeOf(request.current)' = scope /\ c.fp \in Fingerprints
    BY <1>10, <1>14, <1>15 DEF ScopeOf
  <2>. QED
    BY <1>15, <1>17, <1>21, <2>1 DEF RequestShape
<1>. QED
  BY <1>15, <1>16, <1>22, <1>23, ClientStep

\* The objects of an answer without pages are to be read.
LEMMA AnswerStep ==
    ASSUME LogInv, Still, UNCHANGED <<granted, grants, epoch, push>>, request.step = "rows",
           NEW fetch \in SUBSET Ids, NEW created \in SUBSET fetch, NEW ghosts \in SUBSET Ids,
           request' = [request EXCEPT !.step = "objects", !.fetch = fetch, !.created = created],
           client' = [client EXCEPT !.ghosts = @ \cup ghosts],
           created # {} => request.scope /\ scene.view = "query",
           \A i \in created : shown[i] # 0,
           \A i \in Ids \ fetch :
              client.held[i] = Content(request.scope, i) \/ i \in client.ghosts \cup ghosts
    PROVE  LogInv'
<1>1. LogTypeOK /\ LogShape /\ ClientShape /\ RequestShape
  BY DEF LogInv
<1>2. PICK s \in StateStrings, scope \in BOOLEAN, c \in StateStrings :
         s = client.state /\ scope = request.scope /\ c = request.current
  BY <1>1 DEF LogTypeOK
<1>3. s # NoState /\ ScopeOf(s) = scope /\ c.fp = s.fp /\ Follows(c, scope)
  BY <1>1, <1>2 DEF RequestShape
<1>4. s.fp \in Fingerprints /\ Follows(s, scope) /\ (InDate(s) => \A i \in Ids : Good(i, s, scope))
  BY <1>1, <1>2, <1>3 DEF ClientShape
<1>5. /\ client' \in Clients /\ client'.state = s /\ client'.held = client.held
      /\ client'.ghosts = client.ghosts \cup ghosts
  <2>1. client \in Clients
    BY <1>1 DEF LogTypeOK, Clients
  <2>. QED
    BY <1>2, <2>1 DEF Clients
<1>6. /\ request' \in Requests /\ request'.step = "objects" /\ request'.current = c
      /\ request'.scope = scope /\ request'.fetch = fetch /\ request'.created = created
  <2>1. request \in Requests
    BY <1>1 DEF LogTypeOK, Requests
  <2>2. created \in SUBSET Ids
    OBVIOUS
  <2>. QED
    BY <1>2, <2>1, <2>2 DEF Requests
<1>7. /\ \A i : Content(scope, i)' = Content(scope, i)
      /\ Follows(s, scope)' /\ Follows(c, scope)'
      /\ InDate(s)' = InDate(s) /\ ScopeOf(s)' = scope
  BY <1>3, <1>4, StillSays
<1>8. InDate(s) => \A i \in Ids : Good(i, s, scope)'
  <2>1. client.ghosts \subseteq client'.ghosts
    BY <1>5
  <2>. QED
    BY <1>4, <1>5, <2>1, StillGood
<1>9. ClientShape'
  <2>1. scene' = scene
    BY DEF Still
  <2>2. scene.view = "query" => \A i \in Ids : client'.held[i] \in {0, 1}
    BY <1>1, <1>5 DEF ClientShape
  <2>. QED
    BY <1>3, <1>4, <1>5, <1>7, <1>8, <2>1, <2>2 DEF ClientShape, ScopeOf
<1>10. \A i \in Ids \ fetch : Good(i, c, scope)'
  BY <1>2, <1>5, <1>7 DEF Good
<1>11. RequestShape'
  <2>1. ScopeOf(request.current)' = scope /\ c.fp \in Fingerprints
    BY <1>3, <1>4, <1>6 DEF ScopeOf
  <2>2. scene' = scene /\ shown' = shown
    BY DEF Still
  <2>. QED
    BY <1>2, <1>6, <1>7, <1>10, <2>1, <2>2 DEF RequestShape
<1>. QED
  BY <1>5, <1>6, <1>9, <1>11, ClientStep

\* Email/queryChanges: an id that was created and is not gone is there.
LEMMA EmailQueryChangesStep ==
    ASSUME LogInv, Still, UNCHANGED <<granted, grants, epoch, push>>, request.step = "rows",
           scene.view = "query", EmailQueryChanges(ScopedRows(request.scope, client.state.seq))
    PROVE  LogInv'
<1>1. PICK rows : rows = ScopedRows(request.scope, client.state.seq)
  OBVIOUS
<1>2. PICK ids : ids = IdsOf(rows)
  OBVIOUS
<1>3. PICK over, created, ghosts : /\ over = {i \in ids : Skipped(rows, i)}
                                   /\ created = {i \in ids : Created(rows, i)}
                                   /\ ghosts = {i \in over : client.held[i] # 0}
  OBVIOUS
<1>4. /\ request' = [request EXCEPT !.step = "objects", !.fetch = ids \ over, !.created = created]
      /\ client' = [client EXCEPT !.ghosts = @ \cup ghosts]
  <2>1. EmailQueryChanges(rows)
    BY <1>1
  <2>. QED
    BY <1>2, <1>3, <2>1 DEF EmailQueryChanges, IdsOf
<1>5. RowsTold(client.state, request.scope, rows, ids)
  BY <1>1, <1>2, RowsTell
<1>6. /\ ids \subseteq Ids /\ (ids # {} => request.scope)
      /\ \A i \in Ids : i \notin ids => client.held[i] = Content(request.scope, i) \/ i \in client.ghosts
      /\ \A i \in ids : LastOf(rows, i).op = "d" <=> shown[i] = 0
  BY <1>5 DEF RowsTold
<1>7. created \in SUBSET (ids \ over) /\ ids \ over \in SUBSET Ids /\ ghosts \in SUBSET Ids
  BY <1>3, <1>6 DEF Created, Skipped
<1>8. \A i \in created : shown[i] # 0
  BY <1>3, <1>6 DEF Created
<1>9. created # {} => request.scope /\ scene.view = "query"
  BY <1>3, <1>6
<1>10. \A i \in Ids \ (ids \ over) :
          client.held[i] = Content(request.scope, i) \/ i \in client.ghosts \cup ghosts
  <2>1. ASSUME NEW i \in over, i \notin ghosts PROVE client.held[i] = Content(request.scope, i)
    <3>1. client.held[i] = 0
      BY <1>3, <2>1
    <3>2. shown[i] = 0
      BY <1>3, <1>6 DEF Skipped
    <3>. QED
      BY <3>1, <3>2 DEF Content
  <2>. QED
    BY <1>6, <2>1
<1>. QED
  BY <1>4, <1>7, <1>8, <1>9, <1>10, AnswerStep

\* Mailbox/changes: no row, no change.
LEMMA MailboxChangesStep ==
    ASSUME LogInv, Still, UNCHANGED <<granted, grants, epoch, push>>, request.step = "rows",
           scene.view = "mailbox", MailboxChanges(ScopedRows(request.scope, client.state.seq))
    PROVE  LogInv'
<1>1. PICK rows : rows = ScopedRows(request.scope, client.state.seq)
  OBVIOUS
<1>2. PICK fetch : fetch = IF rows = {} THEN {} ELSE Ids
  OBVIOUS
<1>3. request.created = {} /\ client \in Clients /\ request \in Requests
  BY DEF LogInv, RequestShape, LogTypeOK, Clients, Requests
<1>4. request' = [request EXCEPT !.step = "objects", !.fetch = fetch] /\ client' = client
  <2>1. MailboxChanges(rows)
    BY <1>1
  <2>. QED
    BY <1>2, <2>1 DEF MailboxChanges
<1>5. /\ request' = [request EXCEPT !.step = "objects", !.fetch = fetch, !.created = {}]
      /\ client' = [client EXCEPT !.ghosts = @ \cup {}]
  BY <1>3, <1>4 DEF Clients, Requests
<1>6. RowsTold(client.state, request.scope, rows, IdsOf(rows))
  BY <1>1, RowsTell
<1>7. \A i \in Ids \ fetch : client.held[i] = Content(request.scope, i) \/ i \in client.ghosts \cup {}
  <2>1. CASE rows = {}
    <3>1. \A i \in Ids : i \notin IdsOf(rows)
      BY <2>1 DEF IdsOf
    <3>. QED
      BY <1>6, <2>1, <3>1 DEF RowsTold
  <2>2. CASE rows # {}
    BY <1>2, <2>2
  <2>. QED
    BY <2>1, <2>2
<1>8. fetch \in SUBSET Ids
  BY <1>2
<1>9. PICK created, ghosts : created = {} /\ ghosts = {}
  OBVIOUS
<1>10. /\ created \in SUBSET fetch /\ ghosts \in SUBSET Ids
       /\ request' = [request EXCEPT !.step = "objects", !.fetch = fetch, !.created = created]
       /\ client' = [client EXCEPT !.ghosts = @ \cup ghosts]
       /\ created # {} => request.scope /\ scene.view = "query"
       /\ \A i \in created : shown[i] # 0
       /\ \A i \in Ids \ fetch : client.held[i] = Content(request.scope, i) \/ i \in client.ghosts \cup ghosts
  BY <1>5, <1>7, <1>9
<1>. QED
  BY <1>8, <1>10, AnswerStep

LEMMA ReadRowsStep ==
    ASSUME LogInv, ReadRows
    PROVE  LogInv'
<1>1. Still /\ UNCHANGED <<granted, grants, epoch, push>> /\ request.step = "rows"
  BY DEF ReadRows, Still, mail, account
<1>2. scene.view \in {"email", "query", "mailbox"}
  BY SceneAssumption DEF LogInv, LogTypeOK, ViewType
<1>3. PICK rows : rows = ScopedRows(request.scope, client.state.seq)
  OBVIOUS
<1>4. /\ scene.view = "email" => EmailChanges(rows)
      /\ scene.view = "query" => EmailQueryChanges(rows)
      /\ scene.view = "mailbox" => MailboxChanges(rows)
  BY <1>3 DEF ReadRows
<1>5. CASE scene.view = "email"
  BY <1>1, <1>3, <1>4, <1>5, EmailChangesStep
<1>6. CASE scene.view = "query"
  BY <1>1, <1>3, <1>4, <1>6, EmailQueryChangesStep
<1>7. CASE scene.view = "mailbox"
  BY <1>1, <1>3, <1>4, <1>7, MailboxChangesStep
<1>. QED
  BY <1>2, <1>5, <1>6, <1>7

\* What the client takes for an id it reads.
LEMMA UpdatedIs ==
    ASSUME LogTypeOK, NEW i \in Ids
    PROVE  /\ Content(request.scope, i) \in Nat
           /\ scene.view = "query" => Content(request.scope, i) \in {0, 1}
           /\ i \notin request.created => Updated(i) = Content(request.scope, i)
           /\ i \in request.created =>
                 /\ Updated(i) \in {client.held[i], Content(request.scope, i)}
                 /\ Updated(i) >= client.held[i] /\ Updated(i) >= Content(request.scope, i)
<1>1. shown[i] \in Nat /\ client.held[i] \in Nat
  BY DEF LogTypeOK
<1>2. Content(request.scope, i) \in Nat /\ (scene.view = "query" => Content(request.scope, i) \in {0, 1})
  BY <1>1 DEF Content
<1>3. PICK h \in Nat, c \in Nat : h = client.held[i] /\ c = Content(request.scope, i)
  BY <1>1, <1>2
<1>4. Max({h, c}) \in {h, c} /\ \A y \in {h, c} : Max({h, c}) >= y
  <2>1. h + c \in Nat /\ \A x \in {h, c} : x <= h + c
    OBVIOUS
  <2>2. {h, c} \in SUBSET Nat /\ {h, c} # {}
    OBVIOUS
  <2>. QED
    BY <2>1, <2>2, GreatestNumber
<1>5. Updated(i) = IF i \in request.created THEN Max({h, c}) ELSE c
  BY <1>3 DEF Updated
<1>. QED
  BY <1>2, <1>3, <1>4, <1>5

\* The client has what the answer says and stands where it was issued.
LEMMA ReadObjectsStep ==
    ASSUME LogInv, ReadObjects
    PROVE  LogInv'
<1>1. LogTypeOK /\ ClientShape /\ RequestShape
  BY DEF LogInv
<1>2. Still /\ UNCHANGED <<granted, grants, epoch, push>> /\ request' = NoRequest /\ request.step = "objects"
  BY DEF ReadObjects, Still, mail, account
<1>3. PICK c \in StateStrings, scope \in BOOLEAN : c = request.current /\ scope = request.scope
  BY <1>1 DEF LogTypeOK
<1>4. /\ Follows(c, scope) /\ c.fp \in Fingerprints /\ ScopeOf(c) = scope
      /\ request.created \subseteq request.fetch
      /\ request.created # {} => scope /\ scene.view = "query"
      /\ InDate(c) => /\ \A i \in Ids \ request.fetch : Good(i, c, scope)
                      /\ \A i \in request.created : shown[i] = 0 => Reported(i, c.seq)
  BY <1>1, <1>2, <1>3 DEF RequestShape
<1>5. \A i \in Ids : Updated(i) \in Nat
  <2>1. \A i \in Ids : client.held[i] \in Nat
    BY <1>1 DEF LogTypeOK
  <2>. QED
    BY <1>1, <2>1, UpdatedIs
<1>6. /\ client' \in Clients /\ client'.state = c
      /\ \A i \in Ids : client'.held[i] = IF i \in request.fetch THEN Updated(i) ELSE client.held[i]
      /\ client'.ghosts = client.ghosts \ (request.fetch \ request.created)
  <2>1. client \in Clients /\ request.more \in BOOLEAN
    BY <1>1 DEF LogTypeOK, Clients
  <2>2. \A i \in Ids : (IF i \in request.fetch THEN Updated(i) ELSE client.held[i]) \in Nat
    BY <1>5, <2>1 DEF Clients
  <2>3. client' = [client EXCEPT
                     !.held = [i \in Ids |-> IF i \in request.fetch THEN Updated(i) ELSE @[i]],
                     !.ghosts = @ \ (request.fetch \ request.created),
                     !.state = c,
                     !.told = @ \/ request.more]
    BY <1>3 DEF ReadObjects
  <2>. QED
    BY <2>1, <2>2, <2>3 DEF Clients
<1>7. /\ \A i, q : Reported(i, q)' = Reported(i, q)
      /\ \A i : Content(scope, i)' = Content(scope, i)
      /\ Follows(c, scope)' /\ InDate(c)' = InDate(c) /\ ScopeOf(c)' = scope
  <2>1. \A i, q : Reported(i, q)' = Reported(i, q)
    BY <1>2, StillSays
  <2>2. \A i : Content(scope, i)' = Content(scope, i)
    BY <1>2, StillSays
  <2>3. Follows(c, scope)' /\ InDate(c)' = InDate(c) /\ ScopeOf(c)' = scope
    BY <1>2, <1>4, StillSays
  <2>. QED
    BY <2>1, <2>2, <2>3
<1>8. scene.view = "query" => \A i \in Ids : client'.held[i] \in {0, 1}
  <2>1. ASSUME scene.view = "query", NEW i \in Ids PROVE client'.held[i] \in {0, 1}
    <3>1. client.held[i] \in {0, 1}
      BY <1>1, <2>1 DEF ClientShape
    <3>2. Updated(i) \in {0, 1}
      BY <1>1, <2>1, <3>1, UpdatedIs
    <3>. QED
      BY <1>6, <3>1, <3>2
  <2>. QED
    BY <2>1
<1>9. ASSUME InDate(c), NEW i \in Ids PROVE Good(i, c, scope)'
  <2>1. CASE i \notin request.fetch
    <3>1. Good(i, c, scope)
      BY <1>4, <1>9, <2>1
    <3>2. client'.held[i] = client.held[i] /\ (i \in client.ghosts => i \in client'.ghosts)
      BY <1>6, <2>1
    <3>. QED
      BY <1>7, <3>1, <3>2 DEF Good
  <2>2. CASE i \in request.fetch /\ i \notin request.created
    <3>1. client'.held[i] = Content(scope, i)
      BY <1>1, <1>3, <1>6, <2>2, UpdatedIs
    <3>. QED
      BY <1>7, <3>1 DEF Good
  <2>3. CASE i \in request.created /\ shown[i] = 0
    <3>1. scope /\ Reported(i, c.seq)
      BY <1>4, <1>9, <2>3
    <3>2. Reported(i, c.seq)'
      BY <1>7, <3>1
    <3>. QED
      BY <3>1, <3>2 DEF Good
  <2>4. CASE i \in request.created /\ shown[i] # 0
    <3>1. scope /\ scene.view = "query" /\ i \in request.fetch
      BY <1>4, <2>4
    <3>2. Content(scope, i) = 1
      BY <2>4, <3>1 DEF Content
    <3>3. client.held[i] \in {0, 1}
      BY <1>1, <3>1 DEF ClientShape
    <3>4. Updated(i) \in {client.held[i], 1} /\ Updated(i) >= 1
      <4>1. i \in Ids /\ i \in request.created
        BY <2>4
      <4>2. /\ Updated(i) \in {client.held[i], Content(request.scope, i)}
            /\ Updated(i) >= Content(request.scope, i)
        BY <1>1, <4>1, UpdatedIs, Zenon
      <4>3. Content(request.scope, i) = 1
        BY <1>3, <3>2, Zenon
      <4>. QED
        BY <4>2, <4>3
    <3>a. Updated(i) = 1
      BY <3>3, <3>4
    <3>b. client'.held[i] = Updated(i)
      BY <1>6, <3>1
    <3>5. client'.held[i] = Content(scope, i)
      BY <3>2, <3>a, <3>b, Zenon
    <3>. QED
      BY <1>7, <3>5 DEF Good
  <2>. QED
    BY <2>1, <2>2, <2>3, <2>4
<1>10. ClientShape'
  <2>1. scene' = scene
    BY <1>2 DEF Still
  <2>2. InDate(c)' => \A i \in Ids : Good(i, c, scope)'
    BY <1>7, <1>9
  <2>. QED
    BY <1>4, <1>6, <1>7, <1>8, <2>1, <2>2 DEF ClientShape, ScopeOf
<1>. QED
  BY <1>2, <1>6, <1>10, NoRequestShape, ClientStep

-----------------------------------------------------------------------------
(* The invariant.                                                          *)

LEMMA LogInvInit ==
    ASSUME LogInit
    PROVE  LogInv
<1>1. LogTypeOK
  BY DEF LogInit, LogTypeOK, NoState, NoRequest, NoStream, StateStrings
<1>2. LogShape
  <2>1. IsFiniteSet({})
    BY FS_EmptySet, Zenon
  <2>. QED
    BY <2>1 DEF LogInit, LogShape
<1>3. StoreShape
  <2>1. \A i \in Ids : ~Visible(store, me, i)
    <3>1. store.received = FALSE /\ store.draft = FALSE /\ store.sent = "none"
      BY DEF LogInit
    <3>. QED
      BY <3>1, IdsAre DEF Visible
  <2>2. \A i \in Ids : shown[i] = 0
    BY DEF LogInit
  <2>3. \A i \in Ids : Visible(store, me, i) \in BOOLEAN
    BY <1>1, VisibleBoolean DEF LogTypeOK, Stores
  <2>4. \A i \in Ids : (shown[i] = 0) = ~Visible(store, me, i)
    BY <2>1, <2>2, <2>3
  <2>. QED
    BY <2>4 DEF LogInit, StoreShape
<1>4. LogTells
  BY DEF LogInit, LogTells
<1>5. ClientShape
  BY DEF LogInit, ClientShape
<1>6. RequestShape
  BY DEF LogInit, RequestShape, NoRequest
<1>. QED
  BY <1>1, <1>2, <1>3, <1>4, <1>5, <1>6 DEF LogInv

LEMMA LogInvStep ==
    ASSUME LogInv, [LogNext]_logVars
    PROVE  LogInv'
<1>1. CASE LogNext
  BY <1>1, WriterStep, PruneStep, ChangeGrantStep, BumpJmapEpochStep, TickStep, StartStep,
     ReadFingerprintStep, ReadRowsStep, ReadObjectsStep, OpenStreamStep, CheckStreamStep,
     EndStreamStep DEF LogNext, Follow
<1>2. CASE UNCHANGED logVars
  <2>1. Still /\ SameClient /\ request' = request
    BY <1>2 DEF logVars, Still, SameClient
  <2>2. LogTypeOK'
    BY <1>2 DEF logVars, LogInv, LogTypeOK
  <2>. QED
    BY <2>1, <2>2, LogStillStep
<1>. QED
  BY <1>1, <1>2

\* The log has its rows in order, its last row about an Email says whether the
\* member sees it, every position a client or a request stands at has its rows
\* ahead of it, and what a client in date holds wrongly is past its position:
\* so in every reachable state, with requests under way at any of their steps.
THEOREM LogInvariant == LogSpec => []LogInv
<1>1. LogInit => LogInv
  BY LogInvInit
<1>2. LogInv /\ [LogNext]_logVars => LogInv'
  BY LogInvStep
<1>. QED
  BY <1>1, <1>2, PTL DEF LogSpec

\* What the client holds wrongly is still reported, if its state is in date.
LEMMA IInvMissesNothing ==
    ASSUME LogInv
    PROVE  NothingMissed
<1>1. LogTypeOK /\ ClientShape
  BY DEF LogInv
<1>2. SUFFICES ASSUME client.state # NoState, ~OutOfDate, NEW i \in Ids, Wrong(i), i \notin client.ghosts
               PROVE  StillReported(i)
  BY <1>1 DEF NothingMissed
<1>3. PICK s \in StateStrings : s = client.state
  BY <1>1 DEF LogTypeOK
<1>4. s.fp = <<epoch, granted>> /\ ~(s.issuedAt + StateMaxAge < now)
  BY <1>2, <1>3 DEF OutOfDate
<1>5. InDate(s)
  <2>1. s.issuedAt \in Nat /\ now \in Nat /\ StateMaxAge \in Nat
    BY <1>1, ClockAssumption DEF LogTypeOK, StateStrings
  <2>. QED
    BY <1>4, <2>1 DEF InDate
<1>6. ScopeOf(s) = granted
  BY <1>4 DEF ScopeOf
<1>7. Good(i, s, ScopeOf(s))
  BY <1>1, <1>2, <1>3, <1>5 DEF ClientShape
<1>8. Good(i, s, granted)
  BY <1>6, <1>7
<1>9. client.held[i] # Content(granted, i)
  <2>1. CASE ~granted
    BY <1>2, <2>1 DEF Wrong, Content
  <2>2. CASE granted
    BY <1>2, <2>2 DEF Wrong, Content
  <2>. QED
    BY <2>1, <2>2
<1>10. Reported(i, s.seq)
  BY <1>2, <1>8, <1>9 DEF Good
<1>. QED
  BY <1>3, <1>10 DEF Reported, Concerns, StillReported

\* NothingMissed, of the log, its writers, its pruning and a client that
\* follows it (emailChanges, emailQueryChanges, mailboxChanges): however the
\* steps of a request interleave with writes, with a draft that is filed into
\* Sent and taken back, with pruning and with changes of the grant, whatever
\* a client whose state is still valid holds wrongly has a row past its
\* position, or was destroyed before it asked.  For any number of them, any
\* page size and any limits of the pruning and of the window.
THEOREM NothingMissedHolds == LogSpec => []NothingMissed
<1>1. LogInv => NothingMissed
  BY IInvMissesNothing
<1>. QED
  BY <1>1, LogInvariant, PTL

\* An answer says destroyed of what the log says so last.
LEMMA DestroyedStep ==
    ASSUME LogInv, [LogNext]_logVars, request.step = "rows", scene.view = "email",
           NEW i \in Ids, client.held[i] # 0, client'.held[i] = 0
    PROVE  ~Visible(store, me, i)
<1>1. LogTypeOK /\ StoreShape
  BY DEF LogInv
<1>2. client'.held # client.held
  OBVIOUS
<1>3. ReadRows
  <2>1. SUFFICES ASSUME ~ReadRows PROVE client'.held = client.held
    BY <1>2
  <2>2. CASE UNCHANGED logVars
    BY <2>2 DEF logVars
  <2>3. CASE Writer
    BY <2>3 DEF Writer, Receive, UpdateReceived, DeleteReceived, MarkReceived, CreateDraft, UpdateDraft,
       DestroyDraft, Submit, AliasDraftToSent, RevealSubmission, RestoreCanceledToDrafts, UpdateSent,
       DeleteSent, Write
  <2>4. CASE PruneJmapChanges \/ ChangeGrant \/ BumpJmapEpoch \/ LogTick \/ EndStream
    BY <2>4 DEF PruneJmapChanges, ChangeGrant, BumpJmapEpoch, LogTick, EndStream
  <2>5. CASE OpenStream
    BY <1>1, <2>5, ToldSame DEF OpenStream, SameClient
  <2>6. CASE CheckStream
    BY <1>1, <2>6, ToldSame DEF CheckStream, SameClient
  <2>7. CASE Start \/ ReadFingerprint \/ ReadObjects
    BY <2>7 DEF Start, ReadFingerprint, ReadObjects
  <2>. QED
    BY <2>1, <2>2, <2>3, <2>4, <2>5, <2>6, <2>7 DEF LogNext, Follow
<1>4. PICK rows : rows = ScopedRows(request.scope, client.state.seq)
  OBVIOUS
<1>5. EmailChanges(rows)
  BY <1>3, <1>4 DEF ReadRows
<1>6. PICK size \in PageSizes :
         client'.held = [j \in Ids |->
            IF j \in {k \in Page(rows, size) : Destroyed(rows, k)} THEN 0 ELSE client.held[j]]
  <2>1. client \in Clients
    BY <1>1 DEF LogTypeOK, Clients
  <2>. QED
    BY <1>5, <2>1 DEF EmailChanges, Clients
<1>7. i \in Page(rows, size) /\ Destroyed(rows, i)
  BY <1>6
<1>8. i \in IdsOf(rows) /\ LastOf(rows, i).op = "d"
  BY <1>7 DEF Page, Destroyed, IdsOf
<1>9. RowsTold(client.state, request.scope, rows, IdsOf(rows))
  BY <1>4, RowsTell
<1>10. shown[i] = 0
  BY <1>8, <1>9 DEF RowsTold
<1>. QED
  BY <1>1, <1>10 DEF StoreShape

\* DestroyedIsGone, of emailChanges: an Email an answer calls destroyed cannot
\* be seen by the client at that moment.  The author of a draft is not told
\* that it is gone when it is filed into Sent, nor when it is taken back.
THEOREM DestroyedIsGoneHolds == LogSpec => DestroyedIsGone
<1>1. LogInv /\ [LogNext]_logVars =>
         [request.step = "rows" /\ scene.view = "email" =>
             \A i \in Ids : client.held[i] # 0 /\ client'.held[i] = 0 => ~Visible(store, me, i)]_logVars
  BY DestroyedStep
<1>. QED
  BY <1>1, LogInvariant, PTL DEF LogSpec, DestroyedIsGone
=============================================================================
