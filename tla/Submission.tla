----------------------------- MODULE Submission -----------------------------
(***************************************************************************)
(* One EmailSubmission of the JMAP server (worker/src/jmap): sent at once  *)
(* or held until its release time, cancelled, deleted, released by the     *)
(* queue or the hourly sweep, filed into Sent by its on-success step, and  *)
(* settled by the hourly recovery when any of this stopped halfway.  The   *)
(* outbox row it is sent through (lib/outbox.ts) has the owner "jmap".     *)
(*                                                                         *)
(* The submission, the draft, the Sent row and the outbox row are D1 rows; *)
(* each action is one awaited statement, one batch or one provider call.   *)
(* Time passes between runs only: one tick is the recovery age, which no   *)
(* run of the Worker outlives.                                             *)
(***************************************************************************)
EXTENDS Integers

CONSTANTS
    Forms,        \* the submissions a client may create
    MaxAttempts,  \* MAX_OUTBOX_ATTEMPTS
    Delay,        \* ticks a held message waits for its release
    Grace,        \* OVERDUE_GRACE_SECONDS, before the sweep takes a release
    RecoveryAge,  \* JMAP_RECOVERY_AGE_SECONDS and RELEASE_RECOVERY_AGE_SECONDS
    Lease,        \* the hour an attempt holds its outbox row
    CoolDown,     \* the minute before a retry may claim a new row
    MaxFaults     \* bound of the model: runs that die, statements that throw,
                  \* answers that are lost

\* delayed: held by FUTURERELEASE; mode: what the on-success step does with the
\* draft (it stays, becomes the Sent Email, or is destroyed).
FormType == [delayed : BOOLEAN, mode : {"none", "file", "destroy"}]

ASSUME FormAssumption == Forms \subseteq FormType

ASSUME TimeAssumption ==
    /\ {MaxAttempts, Delay, Grace, RecoveryAge, Lease, CoolDown, MaxFaults} \subseteq Nat
    /\ MaxAttempts > 0 /\ Delay > 0 /\ RecoveryAge > 0 /\ CoolDown > 0
    /\ RecoveryAge < Lease /\ CoolDown < Lease

\* The request that creates the submission, the consumer of its release
\* message, the hourly pass, and the author's other requests.
Agents == {"request", "queue", "cron", "user"}

VARIABLES
    form,    \* what the client asked for
    sub,     \* the jmap_submissions row
    due,     \* ticks until send_at; below zero once it has passed
    sent,    \* sent_emails.status, "none" without a row
    filed,   \* sent_emails.jmap_email_id is set: the Sent row is the draft's Email
    draft,   \* jmap_drafts.submit_state, "free" unlocked, "gone" without a row
    row,     \* the outbox_emails row
    wake,    \* a release message is in the queue
    job,     \* what each agent is in the middle of
    paused,  \* the outbound_paused setting
    hist,    \* history: what really happened to the message
    faults

vars == <<form, sub, due, sent, filed, draft, row, wake, job, paused, hist, faults>>

States == {"none", "claimed", "scheduled", "releasing", "accepted", "gone"}
RowStatuses == {"none", "pending", "bookkeeping_pending", "failed"}
SentStatuses == {"none", "scheduled", "canceled", "sent", "retrying", "failed"}
Answers == {"none", "accepted", "transient", "permanent", "held", "suppressed", "canceled"}
Tasks == {"none", "send", "schedule", "release", "retry", "step", "recover", "settle",
          "restore", "delete"}
Points == {"new", "idle", "claimed", "missing", "found", "calling", "answered", "threw",
           "resolved", "written", "undo", "abandon", "read", "recorded", "accepted",
           "erased", "dropped", "selected", "deleted", "ready", "filed", "move", "check"}

NoRow == [status |-> "none", attempts |-> 0, wait |-> 0, held |-> FALSE]
Idle == [task |-> "none", pc |-> "idle", answer |-> "none", seen |-> "none"]

SubType == [state : States, undo : {"pending", "canceled", "final"},
            step : {"pending", "applied"}, restore : BOOLEAN,
            age : 0..RecoveryAge, since : 0..RecoveryAge]
RowType == [status : RowStatuses, attempts : Nat, wait : 0..Lease, held : BOOLEAN]
JobType == [task : Tasks, pc : Points, answer : Answers,
            seen : States \cup RowStatuses \cup SentStatuses]
HistType == [delivered : Nat, lost : Nat, raced : BOOLEAN, discarded : BOOLEAN,
             revived : BOOLEAN, unlocked : BOOLEAN, erased : {"no", "copy", "email"}]

TypeOK ==
    /\ form \in FormType
    /\ sub \in SubType
    /\ due \in -Grace..Delay
    /\ sent \in SentStatuses
    /\ filed \in BOOLEAN
    /\ draft \in {"free", "submitting", "queued", "gone"}
    /\ row \in RowType
    /\ wake \in BOOLEAN
    /\ job \in [Agents -> JobType]
    /\ paused \in BOOLEAN
    /\ hist \in HistType
    /\ faults \in 0..MaxFaults

Init ==
    /\ form \in Forms
    /\ sub = [state |-> "none", undo |-> "final", step |-> "pending", restore |-> FALSE,
              age |-> 0, since |-> 0]
    /\ due = IF form.delayed THEN Delay ELSE 0
    /\ sent = "none"
    /\ filed = FALSE
    /\ draft = "free"
    /\ row = NoRow
    /\ wake = FALSE
    /\ job = [a \in Agents |-> IF a = "request" THEN [Idle EXCEPT !.pc = "new"] ELSE Idle]
    /\ paused = FALSE
    /\ hist = [delivered |-> 0, lost |-> 0, raced |-> FALSE, discarded |-> FALSE,
               revived |-> FALSE, unlocked |-> FALSE, erased |-> "no"]
    /\ faults = 0

-----------------------------------------------------------------------------
(* Rows, and who is doing what.                                            *)

At(a, task, pc) == job[a].task = task /\ job[a].pc = pc
IsIdle(a) == job[a].pc = "idle"
Begin(a, task, pc) == job' = [job EXCEPT ![a] = [Idle EXCEPT !.task = task, !.pc = pc]]
Go(a, pc) == job' = [job EXCEPT ![a].pc = pc]
End(a) == job' = [job EXCEPT ![a] = Idle]

\* UPDATE of a row that may be gone.
SentSet(s) == IF sent = "none" THEN "none" ELSE s
Unlocked == IF draft = "gone" THEN "gone" ELSE "free"
ConfirmedRow == IF row.status = "bookkeeping_pending" THEN NoRow ELSE row

\* The submission turns final, if its claim still stands.
Accepted == IF sub.state = "releasing" THEN [sub EXCEPT !.state = "accepted", !.undo = "final"]
            ELSE sub

\* The submission's row is deleted.
Dropped == [sub EXCEPT !.state = "gone", !.restore = FALSE]

Fault == faults < MaxFaults /\ faults' = faults + 1

\* Another agent has read the rows and has yet to write what it made of them.
Pending(a) ==
    \E b \in Agents \ {a} : job[b].pc \in {"answered", "resolved", "written", "read", "recorded",
                                           "missing", "dropped", "erased"}

-----------------------------------------------------------------------------
(* EmailSubmission/set create.                                             *)

\* claimAndRecordIntention, one batch: the draft is locked by this submission.
Create ==
    /\ job["request"].pc = "new"
    /\ draft = "free"
    /\ draft' = "submitting"
    /\ sub' = [sub EXCEPT !.state = "claimed",
                          !.undo = IF form.delayed THEN "pending" ELSE "final"]
    /\ Begin("request", IF form.delayed THEN "schedule" ELSE "send", "claimed")
    /\ UNCHANGED <<form, due, sent, filed, row, wake, paused, hist, faults>>

\* scheduleSubmission: the Sent row and the state in one batch, then the release
\* message, which may fail to be queued.
Schedule ==
    /\ At("request", "schedule", "claimed")
    /\ sent' = "scheduled"
    /\ sub' = [sub EXCEPT !.state = "scheduled"]
    /\ wake' \in BOOLEAN
    /\ Begin("request", "step", "ready")
    /\ UNCHANGED <<form, due, filed, draft, row, paused, hist, faults>>

\* The batch reports an error, whether or not it was committed.
ScheduleThrows ==
    /\ At("request", "schedule", "claimed")
    /\ Fault
    /\ \/ sent' = "scheduled" /\ sub' = [sub EXCEPT !.state = "scheduled"]
       \/ UNCHANGED <<sent, sub>>
    /\ Go("request", "undo")
    /\ UNCHANGED <<form, due, filed, draft, row, wake, paused, hist>>

UndoSchedule ==
    /\ At("request", "schedule", "undo")
    /\ sent' = "none"
    /\ Go("request", "abandon")
    /\ UNCHANGED <<form, sub, due, filed, draft, row, wake, paused, hist, faults>>

\* abandonIntention, one batch: nothing of the submission remains.
AbandonIntention(a) ==
    /\ row' = NoRow
    /\ sub' = Dropped
    /\ draft' = Unlocked
    /\ End(a)
    /\ UNCHANGED <<form, due, sent, filed, wake, paused, hist, faults>>

\* After a failed batch, or when an attachment could not be staged.
GiveUp ==
    /\ At("request", "schedule", "abandon") \/ At("request", "send", "claimed")
    /\ AbandonIntention("request")

-----------------------------------------------------------------------------
(* The send itself, of the request or of a release (sendViaOutbox).        *)

Sends(a) == job[a].task \in {"send", "release"}

WriteAhead(a) ==
    /\ At(a, "send", "claimed") \/ At(a, "release", "found")
    /\ row.status = "none"
    /\ row' = [status |-> "pending", attempts |-> 0, wait |-> Lease, held |-> FALSE]
    /\ Go(a, "calling")
    /\ UNCHANGED <<form, sub, due, sent, filed, draft, wake, paused, hist, faults>>

Answer(a, ans) == job' = [job EXCEPT ![a].pc = "answered", ![a].answer = ans]

\* The pause holds the message; a retry to an address that hard-bounced stops.
Withhold(a) ==
    /\ job[a].pc = "calling"
    /\ \/ paused /\ Answer(a, "held")
       \/ job[a].task = "retry" /\ Answer(a, "suppressed")
    /\ UNCHANGED <<form, sub, due, sent, filed, draft, row, wake, paused, hist, faults>>

\* A network failure is reported as transient whether or not the message got
\* through; a provider that ignores the row's key delivers it each time.
Transport(a) ==
    /\ job[a].pc = "calling" /\ ~paused
    /\ \E ans \in {"accepted", "transient", "permanent"}, lost \in BOOLEAN :
         /\ lost => ans = "transient" /\ Fault
         /\ ~lost => UNCHANGED faults
         /\ Answer(a, ans)
         /\ hist' = [hist EXCEPT
              !.delivered = IF ans = "accepted" \/ lost THEN @ + 1 ELSE @,
              !.lost = IF lost THEN @ + 1 ELSE @]
    /\ UNCHANGED <<form, sub, due, sent, filed, draft, row, wake, paused>>

\* An error before the provider is called: the row is deleted, the error thrown.
CallThrows(a) ==
    /\ Sends(a) /\ job[a].pc = "calling"
    /\ Fault
    /\ row' = NoRow
    /\ Go(a, "threw")
    /\ UNCHANGED <<form, sub, due, sent, filed, draft, wake, paused, hist>>

\* An accepted row is held for its owner's bookkeeping.
Resolved(ans) ==
    CASE ans = "accepted" ->
           [status |-> "bookkeeping_pending", attempts |-> 1, wait |-> 0, held |-> FALSE]
      [] ans = "permanent" -> [status |-> "failed", attempts |-> 1, wait |-> 0, held |-> FALSE]
      [] OTHER -> [status |-> "pending", attempts |-> IF ans = "held" THEN 0 ELSE 1,
                   wait |-> CoolDown, held |-> ans = "held"]

Resolve(a) ==
    /\ Sends(a) /\ job[a].pc = "answered"
    /\ row' = Resolved(job[a].answer)
    /\ Go(a, "resolved")
    /\ UNCHANGED <<form, sub, due, sent, filed, draft, wake, paused, hist, faults>>

\* An acceptance the row does not show is lost with the run.
LostWith(a) == IF job[a].answer = "accepted" /\ row.status = "pending" THEN 1 ELSE 0

ResolveThrows(a) ==
    /\ Sends(a) /\ job[a].pc = "answered"
    /\ Fault
    /\ job' = [job EXCEPT ![a].pc = "threw", ![a].answer = "none"]
    /\ hist' = [hist EXCEPT !.lost = @ + LostWith(a)]
    /\ UNCHANGED <<form, sub, due, sent, filed, draft, row, wake, paused>>

\* Faulty: the claim is looked for under the state of an immediate send.
UnclaimedImmediate ==
    IF sub.state = "claimed" THEN [sub EXCEPT !.state = "scheduled", !.since = 0] ELSE sub

\* unclaim: a later release sends it.
Unclaimed ==
    IF sub.state = "releasing" THEN [sub EXCEPT !.state = "scheduled", !.since = 0] ELSE sub

\* A row that survived may have reached the provider: everything stays for the
\* recovery.  Otherwise the request gives up and a release gives its claim back.
Threw(a) ==
    /\ job[a].pc = "threw"
    /\ \/ /\ row.status = "none" /\ job[a].task = "send"
          /\ AbandonIntention(a)
       \/ /\ row.status # "none" \/ job[a].task = "release"
          /\ sub' = IF row.status = "none" THEN Unclaimed ELSE sub
          /\ wake' = (wake \/ a = "queue")
          /\ End(a)
          /\ UNCHANGED <<form, due, sent, filed, draft, row, paused, hist, faults>>

OnItsWay(a) == job[a].answer \in {"accepted", "transient", "held"}
Outcome(a) == IF job[a].answer = "accepted" THEN "sent" ELSE "retrying"

\* recordAcceptedSubmission, one batch; the on-success step comes next.
RecordAccepted ==
    /\ At("request", "send", "resolved") /\ OnItsWay("request")
    /\ sent' = Outcome("request")
    /\ sub' = [sub EXCEPT !.state = "accepted"]
    /\ draft' = IF draft = "gone" THEN "gone"
                ELSE IF Outcome("request") = "sent" THEN "submitting" ELSE "queued"
    /\ row' = ConfirmedRow
    /\ Begin("request", "step", "ready")
    /\ UNCHANGED <<form, due, filed, wake, paused, hist, faults>>

RecordRefused ==
    /\ At("request", "send", "resolved") /\ ~OnItsWay("request")
    /\ AbandonIntention("request")

\* failRelease: the Email stays in Sent, failed.
FailRelease(a) ==
    /\ sent' = SentSet("failed")
    /\ sub' = Accepted
    /\ End(a)
    /\ UNCHANGED <<form, due, filed, draft, row, wake, paused, hist, faults>>

\* The result of a release, one batch.
RecordRelease(a) ==
    /\ At(a, "release", "resolved")
    /\ \/ ~OnItsWay(a) /\ FailRelease(a)
       \/ /\ OnItsWay(a)
          /\ sent' = SentSet(Outcome(a))
          /\ sub' = Accepted
          /\ row' = ConfirmedRow
          /\ End(a)
          /\ UNCHANGED <<form, due, filed, draft, wake, paused, hist, faults>>

-----------------------------------------------------------------------------
(* The release of a held message, by the queue or the hourly sweep.        *)

Waiting == sub.state = "scheduled" /\ sub.undo = "pending"

\* Faulty: a claim that does not look at undo_status.
ScheduledOnly == sub.state = "scheduled" /\ due <= 0

Claimable == Waiting /\ due <= 0

Claim(a) ==
    /\ sub' = [sub EXCEPT !.state = "releasing", !.since = 0]
    /\ Begin(a, "release", "claimed")

\* The message may be delivered again; one that comes early is put back.
ReleaseByQueue ==
    /\ IsIdle("queue") /\ wake
    /\ wake' \in BOOLEAN
    /\ \/ ~paused /\ Claimable /\ Claim("queue")
       \/ (paused \/ ~Waiting) /\ UNCHANGED <<sub, job>>
    /\ UNCHANGED <<form, due, sent, filed, draft, row, paused, hist, faults>>

ReleaseBySweep ==
    /\ IsIdle("cron") /\ ~paused
    /\ Claimable /\ due = -Grace
    /\ Claim("cron")
    /\ UNCHANGED <<form, due, sent, filed, draft, row, wake, paused, hist, faults>>

LookForSent(a) ==
    /\ At(a, "release", "claimed")
    /\ Go(a, IF sent = "none" THEN "missing" ELSE "found")
    /\ UNCHANGED <<form, sub, due, sent, filed, draft, row, wake, paused, hist, faults>>

\* Deleting a scheduled message cancels it.
CancelMissing(a) ==
    /\ At(a, "release", "missing")
    /\ sub' = [Unclaimed EXCEPT !.undo = IF sub.state = "releasing" THEN "canceled" ELSE @]
    /\ End(a)
    /\ UNCHANGED <<form, due, sent, filed, draft, row, wake, paused, hist, faults>>

\* Its content, an attachment or the right to send is gone, or it would bounce.
FailChecks(a) == At(a, "release", "found") /\ FailRelease(a)

StagingThrows(a) ==
    /\ At(a, "release", "found")
    /\ Fault
    /\ sub' = Unclaimed
    /\ wake' = (wake \/ a = "queue")
    /\ End(a)
    /\ UNCHANGED <<form, due, sent, filed, draft, row, paused, hist>>

-----------------------------------------------------------------------------
(* The outbox: the hourly retry, the Outbox page's Retry and Cancel.       *)

\* Faulty: a pending row may be taken while another run holds it.
DueAnyTime == row.status = "pending"

Due == row.status = "pending" /\ row.wait = 0

Raced(a) == [hist EXCEPT !.raced = @ \/ Pending(a)]

ListDue ==
    /\ IsIdle("cron") /\ ~paused /\ Due
    /\ Begin("cron", "retry", "claimed")
    /\ UNCHANGED <<form, sub, due, sent, filed, draft, row, wake, paused, hist, faults>>

\* A failed row is revived with a fresh budget.  Once by hand: a bound of the
\* model.
Revive ==
    /\ IsIdle("user") /\ ~hist.revived
    /\ row.status = "failed" \/ Due
    /\ row' = [row EXCEPT !.status = "pending", !.wait = 0,
                          !.attempts = IF row.status = "failed" THEN 0 ELSE @]
    /\ hist' = [Raced("user") EXCEPT !.revived = TRUE]
    /\ Begin("user", "retry", "claimed")
    /\ UNCHANGED <<form, sub, due, sent, filed, draft, wake, paused, faults>>

ClaimRow(a) ==
    /\ At(a, "retry", "claimed")
    /\ IF Due
       THEN /\ row' = [row EXCEPT !.attempts = @ + 1, !.wait = Lease]
            /\ hist' = Raced(a)
            /\ Go(a, "calling")
       ELSE End(a) /\ UNCHANGED <<row, hist>>
    /\ UNCHANGED <<form, sub, due, sent, filed, draft, wake, paused, faults>>

Retries(a) ==
    job[a].answer = "held" \/ (job[a].answer = "transient" /\ row.attempts < MaxAttempts)

Rearmed(a) ==
    [row EXCEPT !.wait = 0, !.held = job[a].answer = "held",
                !.attempts = IF job[a].answer = "held" /\ @ > 0 THEN @ - 1 ELSE @]

FailedRow == [row EXCEPT !.status = "failed", !.wait = 0, !.held = FALSE]

RowSet(r) == IF row.status = "none" THEN NoRow ELSE r

\* The sent row first when the message was accepted, else the outbox row.
FirstWrite(a) ==
    /\ At(a, "retry", "answered")
    /\ CASE job[a].answer = "accepted" -> sent' = SentSet("sent") /\ UNCHANGED row
         [] job[a].answer = "suppressed" -> row' = NoRow /\ UNCHANGED sent
         [] Retries(a) -> row' = RowSet(Rearmed(a)) /\ UNCHANGED sent
         [] OTHER -> row' = RowSet(FailedRow) /\ UNCHANGED sent
    /\ job' = [job EXCEPT ![a].pc = "written",
                          ![a].answer = IF @ = "transient" /\ ~Retries(a) THEN "permanent" ELSE @]
    /\ UNCHANGED <<form, sub, due, filed, draft, wake, paused, hist, faults>>

SecondWrite(a) ==
    /\ At(a, "retry", "written")
    /\ IF job[a].answer = "accepted"
       THEN row' = RowSet([row EXCEPT !.status = "bookkeeping_pending"]) /\ UNCHANGED sent
       ELSE /\ sent' = SentSet(IF job[a].answer \in {"held", "transient"} THEN "retrying"
                               ELSE "failed")
            /\ UNCHANGED row
    /\ End(a)
    /\ UNCHANGED <<form, sub, due, filed, draft, wake, paused, hist, faults>>

\* DELETE /outbox/{id}; its second statement is SecondWrite.
Discard ==
    /\ IsIdle("user")
    /\ row.status = "failed" \/ Due \/ (row.status = "pending" /\ row.held /\ row.wait <= CoolDown)
    /\ row' = NoRow
    /\ hist' = [Raced("user") EXCEPT !.discarded = TRUE]
    /\ job' = [job EXCEPT !["user"] = [task |-> "retry", pc |-> "written", answer |-> "canceled",
                                       seen |-> "none"]]
    /\ UNCHANGED <<form, sub, due, sent, filed, draft, wake, paused, faults>>

\* releaseAppliedJmapOutboxRows
ReleaseApplied ==
    /\ IsIdle("cron")
    /\ row.status = "bookkeeping_pending" /\ sub.state = "accepted" /\ sub.step = "applied"
    /\ row' = NoRow
    /\ UNCHANGED <<form, sub, due, sent, filed, draft, wake, job, paused, hist, faults>>

-----------------------------------------------------------------------------
(* The on-success step, by the request or the hourly pass.                 *)

StepOwed == sub.step = "pending" /\ sub.state \in {"scheduled", "releasing", "accepted"}

SelectStep(a) ==
    /\ \/ At(a, "step", "ready")
       \/ a = "cron" /\ IsIdle(a) /\ StepOwed /\ sub.age = RecoveryAge
    /\ job' = [job EXCEPT ![a] =
                 IF StepOwed THEN [Idle EXCEPT !.task = "step", !.pc = "selected", !.seen = sub.state]
                 ELSE Idle]
    /\ UNCHANGED <<form, sub, due, sent, filed, draft, row, wake, paused, hist, faults>>

\* The status of a Sent row that has to be written again.
Repaired(seen) ==
    IF row.status = "pending" THEN "retrying"
    ELSE IF seen = "releasing" /\ row.status = "none" THEN "scheduled" ELSE "sent"

\* ensureSubmissionSentRow: a held message whose Sent row is gone was deleted,
\* any other row is written again.
Ensure(a) ==
    /\ At(a, "step", "selected")
    /\ job' = [job EXCEPT ![a] =
                 CASE sent # "none" -> [@ EXCEPT !.pc = "found"]
                   [] sent = "none" /\ @.seen = "scheduled" -> [@ EXCEPT !.pc = "deleted"]
                   [] OTHER -> [job[a] EXCEPT !.pc = "missing", !.seen = Repaired(job[a].seen)]]
    /\ UNCHANGED <<form, sub, due, sent, filed, draft, row, wake, paused, hist, faults>>

Recreate(a) ==
    /\ At(a, "step", "missing")
    /\ sent' = IF sent = "none" THEN job[a].seen ELSE sent
    /\ Go(a, "found")
    /\ UNCHANGED <<form, sub, due, filed, draft, row, wake, paused, hist, faults>>

\* settleDeletedScheduled, one batch, with the cancel's own rule.
SettleDeleted(a) ==
    LET undo == IF Waiting THEN "canceled" ELSE sub.undo
        settled == undo = "canceled" /\ sent = "none" IN
    /\ At(a, "step", "deleted")
    /\ sub' = [sub EXCEPT !.undo = undo, !.step = IF settled THEN "applied" ELSE @]
    /\ draft' = IF settled THEN Unlocked ELSE draft
    /\ End(a)
    /\ UNCHANGED <<form, due, sent, filed, row, wake, paused, hist, faults>>

\* Faulty: filing does not look whether the Sent row is still there.
FileBlind == sub.step = "pending"

\* The guard every statement of the step's batches carries.
StepOpen == sub.step = "pending" /\ sent # "none"

\* The implicit Email/set: the alias, one guarded batch, or the destroy.
File(a) ==
    /\ At(a, "step", "found")
    /\ CASE form.mode = "file" /\ draft # "gone" /\ StepOpen ->
              /\ filed' = TRUE
              /\ draft' = "gone"
              /\ sub' = [sub EXCEPT !.step = "applied"]
         [] form.mode = "destroy" -> draft' = "gone" /\ UNCHANGED <<filed, sub>>
         [] OTHER -> UNCHANGED <<filed, draft, sub>>
    /\ Go(a, "filed")
    /\ UNCHANGED <<form, due, sent, row, wake, paused, hist, faults>>

\* revealSubmission, one guarded batch; a retrying send keeps its draft locked.
Reveal(a) ==
    /\ At(a, "step", "filed")
    /\ IF StepOpen
       THEN /\ draft' = IF draft = "submitting" THEN "free" ELSE draft
            /\ sub' = [sub EXCEPT !.step = "applied"]
       ELSE UNCHANGED <<draft, sub>>
    /\ End(a)
    /\ UNCHANGED <<form, due, sent, filed, row, wake, paused, hist, faults>>

-----------------------------------------------------------------------------
(* The hourly recovery.                                                    *)

\* A retry by another run has read the row and has yet to write what came of it.
Attempting ==
    \E a \in Agents : job[a].task = "retry" /\ job[a].pc \in {"calling", "answered", "written"}

ReadClaimed ==
    /\ IsIdle("cron")
    /\ sub.state = "claimed" /\ sub.age = RecoveryAge
    /\ job' = [job EXCEPT !["cron"] = [Idle EXCEPT !.task = "recover", !.pc = "read",
                                                   !.seen = row.status]]
    /\ hist' = [hist EXCEPT !.raced = @ \/ Attempting]
    /\ UNCHANGED <<form, sub, due, sent, filed, draft, row, wake, paused, faults>>

Seen(s) == job["cron"].seen = s

\* The outbox has the message, or had it accepted: the Sent row says so.
RecordClaimed ==
    /\ At("cron", "recover", "read")
    /\ \/ Seen("bookkeeping_pending") /\ sent' = "sent"
       \/ Seen("pending") /\ sent' = IF sent = "none" THEN "retrying" ELSE sent
    /\ Go("cron", "recorded")
    /\ UNCHANGED <<form, sub, due, filed, draft, row, wake, paused, hist, faults>>

\* The Sent row alone tells that the message was accepted.
Known == Seen("none") /\ sent \in {"sent", "retrying"}

AcceptClaimed ==
    /\ \/ At("cron", "recover", "recorded")
       \/ At("cron", "recover", "read") /\ Known
    /\ sub' = [sub EXCEPT !.state = IF @ = "claimed" THEN "accepted" ELSE @]
    /\ IF Known THEN End("cron") ELSE Go("cron", "accepted")
    /\ UNCHANGED <<form, due, sent, filed, draft, row, wake, paused, hist, faults>>

ConfirmClaimed ==
    /\ At("cron", "recover", "accepted")
    /\ IF Seen("pending")
       THEN draft' = (IF draft \in {"submitting", "queued"} THEN "queued" ELSE draft) /\ UNCHANGED row
       ELSE row' = ConfirmedRow /\ UNCHANGED draft
    /\ End("cron")
    /\ UNCHANGED <<form, sub, due, sent, filed, wake, paused, hist, faults>>

\* Nothing reached the provider, or it refused the message for good.
Hopeless == Seen("failed") \/ (Seen("none") /\ ~Known)

\* abandon: four statements, in this order.
AbandonSent ==
    /\ At("cron", "recover", "read") /\ Hopeless
    /\ sent' = "none"
    /\ filed' = FALSE
    /\ Go("cron", "erased")
    /\ UNCHANGED <<form, sub, due, draft, row, wake, paused, hist, faults>>

AbandonRow ==
    /\ At("cron", "recover", "erased")
    /\ row' = NoRow
    /\ Go("cron", "dropped")
    /\ UNCHANGED <<form, sub, due, sent, filed, draft, wake, paused, hist, faults>>

AbandonSubmission ==
    /\ At("cron", "recover", "dropped")
    /\ sub' = Dropped
    /\ Go("cron", "abandon")
    /\ UNCHANGED <<form, due, sent, filed, draft, row, wake, paused, hist, faults>>

ReleaseClaim ==
    /\ At("cron", "recover", "abandon")
    /\ draft' = Unlocked
    /\ End("cron")
    /\ UNCHANGED <<form, sub, due, sent, filed, row, wake, paused, hist, faults>>

ReadReleasing ==
    /\ IsIdle("cron")
    /\ sub.state = "releasing" /\ sub.since = RecoveryAge
    /\ job' = [job EXCEPT !["cron"] = [Idle EXCEPT !.task = "settle", !.pc = "read",
                                                   !.seen = row.status]]
    /\ hist' = [hist EXCEPT !.raced = @ \/ Attempting]
    /\ UNCHANGED <<form, sub, due, sent, filed, draft, row, wake, paused, faults>>

\* The Sent status the outbox row stands for.
Settled ==
    IF Seen("bookkeeping_pending") THEN "sent" ELSE IF Seen("pending") THEN "retrying" ELSE "failed"

\* Without an outbox row nothing went out, and the claim is given back.
SettleReleasing ==
    /\ At("cron", "settle", "read")
    /\ IF Seen("none")
       THEN sub' = Unclaimed /\ UNCHANGED <<sent, row>>
       ELSE sent' = SentSet(Settled) /\ sub' = Accepted /\ row' = ConfirmedRow
    /\ End("cron")
    /\ UNCHANGED <<form, due, filed, draft, wake, paused, hist, faults>>

\* Faulty: a queued draft is unlocked whatever the outbox still has.
LockedByStep == sub.state \notin {"none", "gone"} /\ sub.step = "pending"

\* queuedLockReleasableSql, negated: the message is on its way, or accepted
\* with work still owed.
StillLocked ==
    /\ sub.state \notin {"none", "gone"}
    /\ \/ row.status \in {"pending", "bookkeeping_pending"}
       \/ sub.step = "pending" /\ row.status # "failed" /\ sent # "failed"

UnlockQueued ==
    /\ IsIdle("cron")
    /\ draft = "queued" /\ ~StillLocked
    /\ draft' = "free"
    /\ UNCHANGED <<form, sub, due, sent, filed, row, wake, job, paused, hist, faults>>

-----------------------------------------------------------------------------
(* Cancelling, deleting, and the way back to Drafts.                       *)

Cancelable == Waiting

\* cancelScheduledSubmission, one batch; the web Outbox also asks for the move.
Cancel ==
    /\ IsIdle("user")
    /\ Cancelable
    /\ \E back \in BOOLEAN :
         /\ sub' = [sub EXCEPT !.undo = "canceled", !.restore = back]
         /\ IF back THEN Begin("user", "restore", "move") ELSE UNCHANGED job
    /\ sent' = IF sent = "scheduled" THEN "canceled" ELSE sent
    /\ UNCHANGED <<form, due, filed, draft, row, wake, paused, hist, faults>>

Movable == sub.undo = "canceled" /\ filed /\ sent # "none"

\* restoreCanceledToDrafts, one guarded batch: the draft comes back under its
\* id and the Sent row goes.
Moved ==
    /\ sent' = "none"
    /\ filed' = FALSE
    /\ draft' = "free"
    /\ sub' = [sub EXCEPT !.restore = FALSE]

Move(a) ==
    /\ At(a, "restore", "move")
    /\ IF Movable THEN Moved /\ End(a)
       ELSE UNCHANGED <<sent, filed, draft, sub>> /\ Go(a, "check")
    /\ UNCHANGED <<form, due, row, wake, paused, hist, faults>>

\* A client files the Email back itself.
ClientMove ==
    /\ IsIdle("user") /\ Movable
    /\ Moved
    /\ UNCHANGED <<form, due, row, wake, job, paused, hist, faults>>

\* restoreStillPossible
StillPossible == sub.step = "pending" \/ (filed /\ sent # "none")

CheckMove(a) ==
    /\ At(a, "restore", "check")
    /\ sub' = [sub EXCEPT !.restore = @ /\ StillPossible]
    /\ End(a)
    /\ UNCHANGED <<form, due, sent, filed, draft, row, wake, paused, hist, faults>>

RestoreOwed ==
    /\ IsIdle("cron")
    /\ sub.undo = "canceled" /\ sub.restore
    /\ Begin("cron", "restore", "move")
    /\ UNCHANGED <<form, sub, due, sent, filed, draft, row, wake, paused, hist, faults>>

\* Deleting the Sent message, or its person: cancel first, then the row.  Once:
\* a bound of the model.
Delete ==
    /\ IsIdle("user") /\ sent # "none" /\ hist.erased = "no"
    /\ sub' = [sub EXCEPT !.undo = IF Waiting THEN "canceled" ELSE @]
    /\ Begin("user", "delete", "erased")
    /\ UNCHANGED <<form, due, sent, filed, draft, row, wake, paused, hist, faults>>

Erase ==
    /\ At("user", "delete", "erased")
    /\ sent' = "none"
    /\ filed' = FALSE
    /\ hist' = [hist EXCEPT !.erased = IF filed THEN "email" ELSE "copy"]
    /\ End("user")
    /\ UNCHANGED <<form, sub, due, draft, row, wake, paused, faults>>

-----------------------------------------------------------------------------
(* The environment.                                                        *)

SetPause ==
    /\ paused' = ~paused
    /\ UNCHANGED <<form, sub, due, sent, filed, draft, row, wake, job, hist, faults>>

\* A statement throws, or the isolate is gone.  The queue redelivers.  A retry
\* that stops between its two writes leaves the second one undone, and a recovery
\* a draft that the on-success step will unlock although its send is tried again.
Die(a) ==
    /\ job[a].pc \notin {"new", "idle"}
    /\ Fault
    /\ End(a)
    /\ wake' = (wake \/ a = "queue")
    /\ hist' = [hist EXCEPT !.lost = @ + LostWith(a),
                            !.raced = @ \/ At(a, "retry", "written"),
                            !.unlocked = @ \/ (At(a, "recover", "accepted") /\ Seen("pending"))]
    /\ UNCHANGED <<form, sub, due, sent, filed, draft, row, paused>>

Older(n) == IF n < RecoveryAge THEN n + 1 ELSE n
Later(r) == [r EXCEPT !.wait = IF @ > 0 THEN @ - 1 ELSE 0]

Tick ==
    /\ \A a \in Agents : IsIdle(a)
    /\ due > -Grace \/ sub.age < RecoveryAge \/ row.wait > 0
       \/ (sub.state = "releasing" /\ sub.since < RecoveryAge)
    /\ due' = IF due > -Grace THEN due - 1 ELSE due
    /\ sub' = [sub EXCEPT !.age = Older(@), !.since = IF sub.state = "releasing" THEN Older(@) ELSE @]
    /\ row' = Later(row)
    /\ UNCHANGED <<form, sent, filed, draft, wake, job, paused, hist, faults>>

-----------------------------------------------------------------------------
Request == Create \/ Schedule \/ ScheduleThrows \/ UndoSchedule \/ GiveUp
           \/ RecordAccepted \/ RecordRefused

Send(a) == WriteAhead(a) \/ Withhold(a) \/ Transport(a) \/ Resolve(a) \/ Threw(a)

SendThrows(a) == CallThrows(a) \/ ResolveThrows(a) \/ StagingThrows(a)

Release(a) == LookForSent(a) \/ CancelMissing(a) \/ RecordRelease(a)

Retry(a) == ClaimRow(a) \/ FirstWrite(a) \/ SecondWrite(a)

Step(a) == SelectStep(a) \/ Ensure(a) \/ Recreate(a) \/ SettleDeleted(a) \/ File(a) \/ Reveal(a)

Restore(a) == Move(a) \/ CheckMove(a)

Recover ==
    \/ ReadClaimed \/ RecordClaimed \/ AcceptClaimed \/ ConfirmClaimed
    \/ AbandonSent \/ AbandonRow \/ AbandonSubmission \/ ReleaseClaim
    \/ ReadReleasing \/ SettleReleasing

Hourly == ReleaseBySweep \/ ListDue \/ ReleaseApplied \/ UnlockQueued \/ Recover

User == Revive \/ Discard \/ Cancel \/ ClientMove \/ Delete \/ Erase

Next ==
    \/ Request
    \/ ReleaseByQueue
    \/ Hourly \/ RestoreOwed
    \/ User
    \/ SetPause
    \/ Tick
    \/ \E a \in Agents : Send(a) \/ SendThrows(a) \/ Die(a) \/ Release(a) \/ FailChecks(a)
                         \/ Retry(a) \/ Step(a) \/ Restore(a)

Spec == Init /\ [][Next]_vars

Run(a) == Send(a) \/ Release(a) \/ Retry(a) \/ Restore(a) \/ (~IsIdle(a) /\ Step(a))

\* A run goes on until it ends or dies, time passes, and the hourly pass takes
\* up every kind of work that stays due.  The queue, the author, the
\* administrator and the provider owe nothing.
Fairness ==
    /\ WF_vars(Request \/ Run("request"))
    /\ WF_vars(Run("queue"))
    /\ WF_vars(Erase \/ Run("user"))
    /\ WF_vars(Run("cron") \/ (~IsIdle("cron") /\ Recover))
    /\ SF_vars(IsIdle("cron") /\ (ReleaseBySweep \/ Recover \/ Step("cron")))
    /\ SF_vars(RestoreOwed)
    /\ SF_vars(Tick)

FairSpec == Spec /\ Fairness

-----------------------------------------------------------------------------
(* What has to hold.                                                       *)

Sending(a) == job[a].pc \in {"calling", "answered"}

\* No two of the request, the queue, the hourly pass and the author are ever at
\* the provider with the same message: the row's lease, the claim of the
\* release and the recovery's age keep them apart.
OneSender == \A a, b \in Agents : Sending(a) /\ Sending(b) => a = b

\* Through crashes, recovery, a second release and a retry, the message reaches
\* the provider once, plus once for each answer that was lost.
NoDuplicate == hist.delivered <= 1 + hist.lost

\* Once EmailSubmission/set, the web Outbox or a delete has answered "canceled",
\* nothing is left that could send the message, nobody is sending it, and it
\* has not gone out, but for a delivery nobody was told of.
CanceledStaysHome ==
    sub.undo = "canceled" =>
        /\ row.status = "none"
        /\ \A a \in Agents : ~Sending(a)
        /\ hist.delivered <= hist.lost

\* A message goes out once, and once canceled not at all.
SentOnce == TypeOK /\ OneSender /\ NoDuplicate /\ CanceledStaysHome

\* The Email is always in one place: in Drafts, or filed as the Sent row.
\* Unless its own on-success step destroys it or its author erases it from Sent it
\* is never in neither, whatever stopped halfway.
EmailKept ==
    /\ ~(filed /\ draft # "gone")
    /\ form.mode # "destroy" /\ hist.erased # "email" => draft # "gone" \/ (filed /\ sent # "none")

\* "A draft whose send is still in flight is locked" (docs/jmap.md:209): none
\* that the client may submit again has a row the outbox will try or an agent at
\* the provider.
InFlightLocked ==
    draft = "free" /\ ~form.delayed /\ sub.state # "none" /\ ~hist.revived =>
        row.status # "pending" /\ \A a \in Agents : ~Sending(a)

\* It is so unless the recovery stopped before it queued the draft.
FreeMeansSettled == hist.unlocked \/ InFlightLocked

\* When nothing is going on, the Sent row of an accepted submission says what
\* the outbox has: retrying means a row that will be tried, failed one that will
\* not and a message nobody knows to be delivered, sent a delivery.
SentTells ==
    /\ sub.state = "accepted" /\ sent # "none" /\ ~hist.raced /\ hist.erased = "no"
    /\ \A a \in Agents : IsIdle(a)
    => CASE sent = "retrying" -> row.status = "pending"
         [] sent = "failed" -> (row.status \in {"none", "failed"} \/ hist.revived)
                               /\ hist.delivered <= hist.lost
         [] sent = "sent" -> row.status \in {"none", "bookkeeping_pending"} /\ hist.delivered > 0
         [] OTHER -> FALSE

\* What the author sees of the draft and of the Sent row is so.
StatesTell == FreeMeansSettled /\ SentTells

\* A claim or a release that stopped anywhere is settled by the hourly recovery,
\* the draft it marks submitting is unlocked, and the on-success step of every
\* accepted or scheduled submission is applied.
Unfinished == sub.state \in {"claimed", "releasing"} \/ draft = "submitting" \/ StepOwed
WorkEnds == Unfinished ~> ~Unfinished

\* While sending is not paused for good, a held message is released for good or
\* taken back: neither a lost release message nor a crash keeps it waiting.
HeldEnds == <>[](~paused) => (Waiting ~> sub.state \in {"accepted", "gone"} \/ sub.undo = "canceled")

\* The move back to Drafts the web Outbox asked for is made or found impossible,
\* and never too early: no later on-success step files the Email into Sent.
MoveEnds == sub.restore ~> [](~sub.restore /\ ~filed)

\* Whatever stopped halfway, the hourly passes bring a submission, a held
\* message and a move back to Drafts to their end, and only to one end.
Settles == WorkEnds /\ HeldEnds /\ MoveEnds

\* The fate a client reads in undoStatus and in the draft.
Fate ==
    CASE sub.state = "none" \/ (sub.state = "claimed" /\ form.delayed) -> "none"
      [] sub.state = "gone" -> "dropped"
      [] sub.state = "accepted" -> "final"
      [] sub.state = "scheduled" -> IF sub.undo = "canceled" THEN "canceled" ELSE "waiting"
      [] OTHER -> "going"

\* A row the outbox or its administrator may try, or an agent at the provider.
Armed == row.status \in {"pending", "failed"} \/ \E a \in Agents : Sending(a)

Undo == INSTANCE UndoableSend WITH fate <- Fate, armed <- Armed, out <- hist.delivered > 0

\* The rows, the claims and the recovery implement the promise of UndoableSend:
\* a held send can be taken back, it waits again only when nothing of it can
\* still leave, and nothing leaves while it waits or after it was taken back.
Undoable == Undo!Spec
=============================================================================
