------------------------------- MODULE Outbox -------------------------------
(***************************************************************************)
(* The transactional outbox of the worker (worker/src/lib/outbox.ts), the  *)
(* pause switch (sending-controls.ts), the outbox routes (outbox-router)   *)
(* and the hourly and queue-driven passes that retry what is left in it.   *)
(*                                                                         *)
(* An outbox row and a sent_emails row are separate D1 rows, written by    *)
(* separate statements: each action below is one awaited statement or one  *)
(* provider call, so that everything the runtime can interleave with it    *)
(* does.  Clock times are kept relative: row[m].wait is next_retry_at      *)
(* minus now, floored at zero, and Tick lets one unit of time pass.        *)
(***************************************************************************)
EXTENDS Naturals, FiniteSets

CONSTANTS
    Mail,           \* the messages sent through the outbox
    Owned,          \* those with a bookkeeping owner (campaign recipients)
    Passes,         \* the passes that run, among "cron", "drain" and "user"
    Transactional,  \* those that skip the suppression list on the first try
    Keyed,          \* whether the provider honours the idempotency key
    MaxAttempts,    \* MAX_OUTBOX_ATTEMPTS
    Lease,          \* the hour a claim, or an inline attempt, holds its row
    CoolDown,       \* the minute before a retry may claim a new row
    DrainWait,      \* OUTBOX_DRAIN_MAX_WAIT
    RunLimit,       \* the longest an attempt runs before the runtime ends it
    MaxFaults       \* bound of the model: attempts that die, answers that are lost

ASSUME MailAssumption ==
    /\ Owned \subseteq Mail
    /\ Transactional \subseteq Mail
    /\ Passes \subseteq {"cron", "drain", "user"}
    /\ Mail \cap {"cron", "drain", "user", "none"} = {}

\* An attempt ends before its claim can be taken, or canceled, by another.
ASSUME TimeAssumption ==
    /\ {MaxAttempts, Lease, CoolDown, DrainWait, RunLimit, MaxFaults} \subseteq Nat
    /\ MaxAttempts > 0
    /\ CoolDown > 0
    /\ RunLimit + CoolDown < Lease
    /\ CoolDown <= DrainWait

ASSUME KeyedAssumption == Keyed \in BOOLEAN

\* The hourly processOutbox, the outbox_drain consumer and the outbox routes are
\* passes; a message's own first attempt runs under the message's name.
Agents == Mail \cup Passes

VARIABLES
    row,        \* outbox_emails: the row of each message
    sent,       \* sent_emails.status of each message, "none" before the insert
    job,        \* what each agent is in the middle of
    todo,       \* the rows a pass has listed and not yet tried
    paused,     \* the outbound_paused setting
    queued,     \* an outbox_drain message is in the queue
    draining,   \* the consumer is handling one
    suppressed, \* messages whose recipient is suppressed or hard-bounced
    hist,       \* history: what really happened to each message
    faults      \* attempts that died and answers that were lost so far

vars == <<row, sent, job, todo, paused, queued, draining, suppressed, hist, faults>>

Statuses == {"none", "pending", "bookkeeping_pending", "failed"}
Answers == {"none", "accepted", "transient", "permanent", "held", "suppressed", "canceled"}
Points == {"new", "idle", "claimed", "calling", "answered", "written", "done"}

NoRow == [status |-> "none", attempts |-> 0, wait |-> 0, held |-> FALSE]

\* The state of an agent between attempts; an inline agent is "new" only once.
Idle == [pc |-> "idle", mail |-> "none", answer |-> "none", last |-> FALSE, age |-> 0]
Fresh == [Idle EXCEPT !.pc = "new"]
Done == [Idle EXCEPT !.pc = "done"]

RowType == [status : Statuses, attempts : Nat, wait : 0..Lease, held : BOOLEAN]
JobType == [pc : Points, mail : Mail \cup {"none"}, answer : Answers,
            last : BOOLEAN, age : 0..RunLimit]
HistType == [calls : Nat, died : Nat, refused : BOOLEAN, delivered : Nat, lost : Nat,
             raced : BOOLEAN]

TypeOK ==
    /\ row \in [Mail -> RowType]
    /\ sent \in [Mail -> {"none", "sent", "retrying", "failed"}]
    /\ job \in [Agents -> JobType]
    /\ todo \in [Passes -> SUBSET Mail]
    /\ paused \in BOOLEAN
    /\ queued \in BOOLEAN
    /\ draining \in BOOLEAN
    /\ suppressed \subseteq Mail
    /\ hist \in [Mail -> HistType]
    /\ faults \in 0..MaxFaults

Init ==
    /\ row = [m \in Mail |-> NoRow]
    /\ sent = [m \in Mail |-> "none"]
    /\ job = [a \in Agents |-> IF a \in Mail THEN Fresh ELSE Idle]
    /\ todo = [p \in Passes |-> {}]
    /\ paused = FALSE
    /\ queued = FALSE
    /\ draining = FALSE
    /\ suppressed = {}
    /\ hist = [m \in Mail |-> [calls |-> 0, died |-> 0, refused |-> FALSE, delivered |-> 0,
                               lost |-> 0, raced |-> FALSE]]
    /\ faults = 0

-----------------------------------------------------------------------------
(* Rows, claims and what an UPDATE does to a row that is gone.             *)

\* Faulty: a claim that looks at the status only.
DueByStatus(m) == row[m].status = "pending"

\* Faulty: a claim that looks at the time only.
DueByTime(m) == row[m].status # "none" /\ row[m].wait = 0

\* Faulty: a claim only within the budget, which an attempt that died has used.
DueInBudget(m) ==
    row[m].status = "pending" /\ row[m].wait = 0 /\ row[m].attempts < MaxAttempts

Due(m) == row[m].status = "pending" /\ row[m].wait = 0

Holding(a, m) == job[a].mail = m /\ job[a].pc \in {"claimed", "calling", "answered"}

\* An agent that has still to write the sent_emails row of m.
Writing(a, m) == job[a].mail = m /\ job[a].pc = "written"

Busy(a) == job[a].pc \in {"claimed", "calling", "answered", "written"}

\* UPDATE ... WHERE id = m: no row, no effect.
Updated(m, r) == [row EXCEPT ![m] = IF @.status = "none" THEN @ ELSE r]
Deleted(m) == [row EXCEPT ![m] = NoRow]
Marked(m, s) == [sent EXCEPT ![m] = IF @ = "none" THEN @ ELSE s]

\* An accepted row is deleted, or held until its owner has done its books.
Accepted(m) ==
    IF m \in Owned
    THEN [status |-> "bookkeeping_pending", attempts |-> row[m].attempts, wait |-> 0,
          held |-> row[m].held]
    ELSE NoRow

\* next_retry_at and the pause marker mean something on a pending row only.
Failed(m) ==
    [status |-> "failed", attempts |-> row[m].attempts, wait |-> 0, held |-> FALSE]

\* Records that another agent acts on m while a write to its sent row is due.
Raced(m) == hist[m].raced \/ \E a \in Agents : Writing(a, m)

\* A pass may start only between two attempts.
Free(p) == p \in Passes /\ job[p].pc = "idle" /\ todo[p] = {}

\* An attempt begins; one that is the last is not followed by a retry.
Start(a, m, last) ==
    job' = [job EXCEPT ![a] = [pc |-> "claimed", mail |-> m, answer |-> "none",
                               last |-> last, age |-> 0]]

-----------------------------------------------------------------------------
(* sendViaOutbox: write ahead, attempt, resolve the row; the caller then   *)
(* inserts the sent_emails row from the outcome.                           *)

\* Faulty: the row is written as due at once.
DueAtOnce(m) == [status |-> "pending", attempts |-> 0, wait |-> 0, held |-> FALSE]

\* Not claimable while the inline attempt is in flight.
WrittenAhead(m) == [status |-> "pending", attempts |-> 0, wait |-> Lease, held |-> FALSE]

\* An auto-reply is sent with retryOnFailure = false.
Submit(m) ==
    /\ job[m].pc = "new"
    /\ row' = [row EXCEPT ![m] = WrittenAhead(m)]
    /\ \E oneShot \in BOOLEAN : (oneShot => m \notin Owned) /\ Start(m, m, oneShot)
    /\ UNCHANGED <<sent, todo, paused, queued, draining, suppressed, hist, faults>>

\* The suppression list, for this attempt.  A retry of transactional mail also
\* looks for a hard bounce; its first attempt looks at neither.
Blocked(a, m) == m \in suppressed /\ ~(a \in Mail /\ m \in Transactional)

\* sendWithSuppressionCheck up to the transport: the pause picks the sender,
\* the suppression list decides whether any sender is called.
Admit(a) ==
    LET m == job[a].mail IN
    /\ job[a].pc = "claimed"
    /\ job' = [job EXCEPT ![a] =
                 IF Blocked(a, m) THEN [@ EXCEPT !.pc = "answered", !.answer = "suppressed"]
                 ELSE IF paused THEN [@ EXCEPT !.pc = "answered", !.answer = "held"]
                 ELSE [@ EXCEPT !.pc = "calling"]]
    /\ UNCHANGED <<row, sent, todo, paused, queued, draining, suppressed, hist, faults>>

\* The answer of a provider call.  A network failure is reported as transient
\* whether or not the message got through; a provider that honours the row's
\* key answers a repeated call without delivering again.
TransportAnswer(a, ans, arrived) ==
    LET m == job[a].mail
        new == IF Keyed /\ hist[m].delivered > 0 THEN 0 ELSE 1
        lost == arrived /\ ans # "accepted" IN
    /\ ans = "accepted" => arrived
    /\ ans = "permanent" => ~arrived
    /\ lost => faults < MaxFaults
    /\ faults' = IF lost THEN faults + 1 ELSE faults
    /\ job' = [job EXCEPT ![a] = [@ EXCEPT !.pc = "answered", !.answer = ans]]
    /\ hist' = [hist EXCEPT ![m].calls = @ + 1,
                            ![m].refused = (ans = "permanent"),
                            ![m].delivered = IF arrived THEN @ + new ELSE @,
                            ![m].lost = IF lost THEN @ + 1 ELSE @]

Transport(a) ==
    /\ job[a].pc = "calling"
    /\ \E ans \in {"accepted", "transient", "permanent"}, arrived \in BOOLEAN :
         TransportAnswer(a, ans, arrived)
    /\ UNCHANGED <<row, sent, todo, paused, queued, draining, suppressed>>

\* A throw in the attempt: the row is deleted and the error goes to the caller.
Throw(m) ==
    /\ job[m].pc \in {"claimed", "calling"}
    /\ row' = Deleted(m)
    /\ job' = [job EXCEPT ![m] = Done]
    /\ UNCHANGED <<sent, todo, paused, queued, draining, suppressed, hist, faults>>

\* Faulty: an attempt is given back that was never counted.
GiveBack(ans) == IF ans = "held" THEN 0 - 1 ELSE 1

\* What the inline attempt counts for: nothing when the pause held it.
FirstCount(ans) == IF ans = "held" THEN 0 ELSE 1

\* A one-shot send fails at once, but a pause holds it like any other.
Dropped(m, ans) == job[m].last /\ ans \in {"transient", "permanent"}

\* The row after the inline attempt was answered.
Resolved(m, ans) ==
    CASE ans = "suppressed" \/ Dropped(m, ans) -> NoRow
      [] ans = "accepted" -> IF m \in Owned THEN [Accepted(m) EXCEPT !.attempts = 1] ELSE NoRow
      [] ans \in {"transient", "held"} /\ ~Dropped(m, ans) ->
           [status |-> "pending", attempts |-> FirstCount(ans), wait |-> CoolDown,
            held |-> ans = "held"]
      [] OTHER -> [Failed(m) EXCEPT !.attempts = 1]

Resolve(m) ==
    /\ job[m].pc = "answered"
    /\ row' = Updated(m, Resolved(m, job[m].answer))
    /\ job' = [job EXCEPT ![m] =
                 IF job[m].answer = "suppressed" THEN Done
                 ELSE [@ EXCEPT !.pc = "written", !.age = 0]]
    /\ UNCHANGED <<sent, todo, paused, queued, draining, suppressed, hist, faults>>

\* Faulty: a held send is recorded as failed.
FailWhenHeld(m, ans) ==
    IF ans = "accepted" THEN "sent" ELSE IF ans = "transient" THEN "retrying" ELSE "failed"

\* The status the caller gives the sent_emails row it inserts.
Outcome(m, ans) ==
    CASE ans = "accepted" -> "sent"
      [] ans \in {"transient", "held"} /\ ~Dropped(m, ans) -> "retrying"
      [] OTHER -> "failed"

\* The caller's insert.  A campaign writes no sent row here (see Confirm).
Record(m) ==
    /\ job[m].pc = "written"
    /\ sent' = IF m \in Owned THEN sent ELSE [sent EXCEPT ![m] = Outcome(m, job[m].answer)]
    /\ job' = [job EXCEPT ![m] = Done]
    /\ UNCHANGED <<row, todo, paused, queued, draining, suppressed, hist, faults>>

\* The owner's bookkeeping of an accepted row, right after the send or by the
\* hourly reconciliation: insert the sent row unless it exists, drop the row.
Confirm(m) ==
    /\ row[m].status = "bookkeeping_pending"
    /\ sent' = [sent EXCEPT ![m] = IF @ = "none" THEN "sent" ELSE @]
    /\ row' = Deleted(m)
    /\ UNCHANGED <<job, todo, paused, queued, draining, suppressed, hist, faults>>

-----------------------------------------------------------------------------
(* attemptOutboxRow, shared by the cron, the drain and a manual retry.     *)

\* The conditional UPDATE that claims a listed row; no match, nothing done.
Claim(p, m) ==
    /\ job[p].pc = "idle"
    /\ m \in todo[p]
    /\ todo' = [todo EXCEPT ![p] = @ \ {m}]
    /\ IF Due(m)
       THEN /\ row' = [row EXCEPT ![m].attempts = @ + 1, ![m].wait = Lease]
            /\ Start(p, m, row[m].attempts + 1 >= MaxAttempts)
            /\ hist' = [hist EXCEPT ![m].raced = Raced(m)]
       ELSE UNCHANGED <<row, job, hist>>
    /\ UNCHANGED <<sent, paused, queued, draining, suppressed, faults>>

\* Faulty: a held attempt stays counted.
RearmedCounted(p, m) ==
    [status |-> row[m].status, attempts |-> row[m].attempts, wait |-> 0,
     held |-> job[p].answer = "held"]

\* The row stays due, and a held attempt gives its count back.
Rearmed(p, m) ==
    [status |-> row[m].status,
     attempts |-> IF job[p].answer = "held" /\ row[m].attempts > 0
                  THEN row[m].attempts - 1 ELSE row[m].attempts,
     wait |-> 0, held |-> job[p].answer = "held"]

Retries(p) == job[p].answer = "held" \/ (job[p].answer = "transient" /\ ~job[p].last)

\* The first statement after the answer: the sent row when it was accepted,
\* the outbox row otherwise.
FirstWrite(p) ==
    LET m == job[p].mail IN
    /\ job[p].pc = "answered"
    /\ \/ /\ job[p].answer = "accepted"
          /\ sent' = Marked(m, "sent")
          /\ UNCHANGED row
       \/ /\ job[p].answer = "suppressed"
          /\ row' = Deleted(m)
          /\ UNCHANGED sent
       \/ /\ Retries(p)
          /\ row' = Updated(m, Rearmed(p, m))
          /\ UNCHANGED sent
       \/ /\ job[p].answer \in {"transient", "permanent"} /\ ~Retries(p)
          /\ row' = Updated(m, Failed(m))
          /\ UNCHANGED sent
    /\ job' = [job EXCEPT ![p] = [@ EXCEPT !.pc = "written"]]
    /\ UNCHANGED <<todo, paused, queued, draining, suppressed, hist, faults>>

\* The second statement: the other row of the two.  Ends the attempt.
SecondWrite(p) ==
    LET m == job[p].mail IN
    /\ job[p].pc = "written"
    /\ IF job[p].answer = "accepted"
       THEN /\ row' = IF m \in Owned THEN Updated(m, Accepted(m)) ELSE Deleted(m)
            /\ UNCHANGED sent
       ELSE /\ sent' = Marked(m, IF Retries(p) THEN "retrying" ELSE "failed")
            /\ UNCHANGED row
    /\ job' = [job EXCEPT ![p] = Idle]
    /\ UNCHANGED <<todo, paused, queued, draining, suppressed, hist, faults>>

-----------------------------------------------------------------------------
(* The passes and the routes.                                              *)

\* processOutbox: nothing while paused, else every due row.
StartCron ==
    /\ Free("cron")
    /\ ~paused
    /\ \E m \in Mail : Due(m)
    /\ todo' = [todo EXCEPT !["cron"] = {m \in Mail : Due(m)}]
    /\ UNCHANGED <<row, sent, job, paused, queued, draining, suppressed, hist, faults>>

\* drainHeldOutbox: the due rows that carry the pause marker.
StartDrain ==
    /\ queued /\ ~draining
    /\ Free("drain")
    /\ queued' = FALSE
    /\ draining' = ~paused
    /\ todo' = [todo EXCEPT !["drain"] = IF paused THEN {}
                                         ELSE {m \in Mail : Due(m) /\ row[m].held}]
    /\ UNCHANGED <<row, sent, job, paused, suppressed, hist, faults>>

\* The batch is done: another message while a held row comes due soon enough.
FinishDrain ==
    /\ draining
    /\ Free("drain")
    /\ draining' = FALSE
    /\ queued' = (queued \/ \E m \in Mail :
                    row[m].status = "pending" /\ row[m].held /\ row[m].wait <= DrainWait)
    /\ UNCHANGED <<row, sent, job, todo, paused, suppressed, hist, faults>>

Revived(m) ==
    [status |-> "pending",
     attempts |-> IF row[m].status = "failed" THEN 0 ELSE row[m].attempts,
     wait |-> 0, held |-> row[m].held]

\* POST /outbox/{id}/retry: a failed row is revived with a fresh budget, a
\* pending one is retried only when due; either way the attempt then claims it.
Retry(m) ==
    /\ Free("user")
    /\ row[m].status = "failed" \/ Due(m)
    /\ row' = [row EXCEPT ![m] = Revived(m)]
    /\ hist' = [hist EXCEPT ![m].calls = IF row[m].status = "failed" THEN 0 ELSE @,
                            ![m].raced = Raced(m)]
    /\ todo' = [todo EXCEPT !["user"] = {m}]
    /\ UNCHANGED <<sent, job, paused, queued, draining, suppressed, faults>>

\* What DELETE /outbox/{id} may delete: a failed row, a due one, or one the
\* pause holds that is still in its first minute.
Cancelable(m) ==
    \/ row[m].status = "failed"
    \/ Due(m)
    \/ row[m].status = "pending" /\ row[m].held /\ row[m].wait <= CoolDown

\* DELETE /outbox/{id}; its second statement is SecondWrite.
Cancel(m) ==
    /\ Free("user")
    /\ Cancelable(m)
    /\ row' = Deleted(m)
    /\ job' = [job EXCEPT !["user"] = [pc |-> "written", mail |-> m, answer |-> "canceled",
                                       last |-> FALSE, age |-> 0]]
    /\ hist' = [hist EXCEPT ![m].raced = Raced(m)]
    /\ UNCHANGED <<sent, todo, paused, queued, draining, suppressed, faults>>

Pause ==
    /\ ~paused
    /\ paused' = TRUE
    /\ UNCHANGED <<row, sent, job, todo, queued, draining, suppressed, hist, faults>>

\* The resume; the message that starts the drain may fail to be queued.
Resume ==
    /\ paused
    /\ paused' = FALSE
    /\ \E b \in BOOLEAN : queued' = (queued \/ b)
    /\ UNCHANGED <<row, sent, job, todo, draining, suppressed, hist, faults>>

-----------------------------------------------------------------------------
(* The environment.                                                        *)

\* The recipient of m bounces, complains or unsubscribes.
Suppress(m) ==
    /\ m \notin suppressed
    /\ suppressed' = suppressed \cup {m}
    /\ UNCHANGED <<row, sent, job, todo, paused, queued, draining, hist, faults>>

\* The rest of a pass's list goes with it.
DropList(p) ==
    /\ p \in Passes
    /\ todo' = [todo EXCEPT ![p] = {}]
    /\ queued' = (queued \/ (p = "drain" /\ draining))
    /\ draining' = (draining /\ p # "drain")

\* A statement throws, or the isolate is gone: the attempt ends where it is.
\* A pass goes on with its list or dies with it; the queue redelivers a
\* message whose consumer died.  An acceptance the row does not show is lost.
Die(a) ==
    LET m == job[a].mail IN
    /\ Busy(a)
    /\ faults < MaxFaults
    /\ faults' = faults + 1
    /\ job' = [job EXCEPT ![a] = IF a \in Mail THEN Done ELSE Idle]
    /\ hist' = [hist EXCEPT ![m].died = @ + 1,
                            ![m].lost = IF job[a].answer = "accepted" /\ row[m].status = "pending"
                                         THEN @ + 1 ELSE @]
    /\ UNCHANGED <<todo, queued, draining>> \/ DropList(a)
    /\ UNCHANGED <<row, sent, paused, suppressed>>

\* A pass dies between two of its rows, or a retry between its two statements.
Abandon(p) ==
    /\ job[p].pc = "idle"
    /\ todo[p] # {}
    /\ faults < MaxFaults
    /\ faults' = faults + 1
    /\ DropList(p)
    /\ hist' = [m \in Mail |-> [hist[m] EXCEPT !.died = IF m \in todo[p] THEN @ + 1 ELSE @]]
    /\ UNCHANGED <<row, sent, job, paused, suppressed>>

Later(m) == [row[m] EXCEPT !.wait = IF @ > 0 THEN @ - 1 ELSE 0]

\* One unit of time.  An attempt does not outlive RunLimit, nor a caller's
\* insert the cool-down.
Tick ==
    /\ \A a \in Agents : Busy(a) => job[a].age < RunLimit
    /\ \A m \in Mail : job[m].pc = "written" => job[m].age + 1 < CoolDown
    /\ \E m \in Mail : row[m].wait > 0
    /\ row' = [m \in Mail |-> Later(m)]
    /\ job' = [a \in Agents |-> IF Busy(a) THEN [job[a] EXCEPT !.age = @ + 1] ELSE job[a]]
    /\ UNCHANGED <<sent, todo, paused, queued, draining, suppressed, hist, faults>>

-----------------------------------------------------------------------------
Inline(m) == Submit(m) \/ Throw(m) \/ Resolve(m) \/ Record(m)

Attempt(p) == FirstWrite(p) \/ SecondWrite(p) \/ \E m \in Mail : Claim(p, m)

Call(a) == Admit(a) \/ Transport(a)

Next ==
    \/ \E m \in Mail : Inline(m) \/ Confirm(m) \/ Retry(m) \/ Cancel(m) \/ Suppress(m)
    \/ \E p \in Passes : Attempt(p) \/ Abandon(p)
    \/ \E a \in Agents : Call(a) \/ Die(a)
    \/ StartCron \/ StartDrain \/ FinishDrain
    \/ Pause \/ Resume
    \/ Tick

Spec == Init /\ [][Next]_vars

\* Code that runs goes on until it ends or dies, time passes, the cron fires
\* and the queue delivers.  Users, administrators and providers owe nothing.
Fairness ==
    /\ \A m \in Mail : WF_vars(Resolve(m) \/ Record(m))
    /\ \A p \in Passes : WF_vars(Attempt(p))
    /\ \A a \in Agents : WF_vars(Call(a))
    /\ WF_vars(StartCron)
    /\ WF_vars(StartDrain \/ FinishDrain)
    /\ WF_vars(Tick)

FairSpec == Spec /\ Fairness

-----------------------------------------------------------------------------
(* What the outbox promises.                                               *)

\* At most one attempt is under way on a row: the claim's conditional UPDATE
\* and the lease keep the cron, the drain, a manual retry and the message's
\* own first attempt apart (outbox.ts, the comment on attemptOutboxRow).
OneAttemptPerRow ==
    \A m \in Mail : \A a, b \in Agents : Holding(a, m) /\ Holding(b, m) => a = b

\* A recipient gets a message once, plus once per acceptance the worker never
\* learned of (a network failure, an attempt that died); a provider that
\* honours the row's idempotency key never delivers a message twice.
NoDuplicate ==
    \A m \in Mail : hist[m].delivered <= 1 + IF Keyed THEN 0 ELSE hist[m].lost

\* Between attempts the attempt count is the number of provider calls made,
\* give or take the attempts that died: a pause costs a message nothing.
BudgetAccounting ==
    \A m \in Mail :
        row[m].status = "pending" /\ (\A a \in Agents : ~Holding(a, m)) =>
            /\ row[m].attempts <= hist[m].calls + hist[m].died
            /\ hist[m].calls <= row[m].attempts + hist[m].died

\* A row is given up only after a permanent rejection or a whole budget of
\* attempts, however often it was paused, resumed and retried by hand.
FailedForCause ==
    \A m \in Mail :
        row[m].status = "failed" => \/ hist[m].refused
                                   \/ hist[m].calls + hist[m].died >= MaxAttempts

\* A message is charged for the calls that were made of it, and given up only
\* when they were: a pause, a resume and a retry by hand neither cost nor grant any.
BudgetKept == BudgetAccounting /\ FailedForCause

\* Nothing is under way on m, and its sender has finished.
Quiet(m) ==
    /\ job[m].pc = "done"
    /\ \A a \in Agents : job[a].mail = m => ~Busy(a)
    /\ \A p \in Passes \ {"cron", "drain"} : m \notin todo[p]

\* What a thread shows of a message matches the outbox and the wire.
Agrees(m) ==
    /\ sent[m] = "retrying" <=> row[m].status = "pending"
    /\ row[m].status = "failed" => sent[m] = "failed"
    /\ sent[m] = "sent" => row[m].status = "none" /\ hist[m].delivered > 0
    /\ hist[m].delivered > hist[m].lost => sent[m] = "sent"

\* Once nothing is under way, sent_emails, the outbox and what was delivered
\* tell one story, for a message no attempt of which died or was overtaken
\* between its two writes.
SentAgrees ==
    \A m \in Mail \ Owned :
        Quiet(m) /\ hist[m].died = 0 /\ ~hist[m].raced => Agrees(m)

\* An accepted message whose owner has not confirmed keeps its row: nothing
\* but the owner removes, cancels or re-sends it.
HeldForOwner ==
    [][\A m \in Mail : row[m].status = "bookkeeping_pending" =>
            \/ row'[m].status = "bookkeeping_pending"
            \/ row'[m].status = "none" /\ sent'[m] # "none"]_vars

\* Unless sending stays paused, no message waits in the outbox for ever: it
\* is delivered, given up, suppressed or canceled.
EventuallySettled ==
    <>[]~paused =>
        \A m \in Mail : [](row[m].status = "pending" => <>(row[m].status # "pending"))

\* outbox.ts:314-319 keeps a retry off a new row so that the caller's sent row
\* is never left "retrying" with no outbox row to move it on.
NoStuckRetrying ==
    \A m \in Mail \ Owned :
        Quiet(m) /\ hist[m].died = 0 /\ sent[m] = "retrying" => row[m].status = "pending"
=============================================================================
