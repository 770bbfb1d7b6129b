------------------------------ MODULE Sequence ------------------------------
(***************************************************************************)
(* One enrollment in a drip sequence: its steps, dispatched by the hourly  *)
(* cron, processed by queue consumers, retried by the outbox, and canceled *)
(* with the enrollment or one by one.  Of the outbox (module Outbox) this  *)
(* module keeps what it does to the steps: a row left pending by a step is *)
(* tried again until it is delivered, refused or out of attempts.          *)
(* Sending is never paused here, and a step's time comes when it may.      *)
(***************************************************************************)
EXTENDS Naturals, FiniteSets

CONSTANTS
    Steps,        \* the steps, 1..n in their order
    Consumers,    \* handlers of queue messages
    Outbox, User, \* the hourly retry pass; someone canceling sends
    MaxAttempts,  \* MAX_OUTBOX_ATTEMPTS
    MaxDisturbed  \* bound of the model: handlers that die, messages doubled, throws,
                  \* and sends canceled or retried by hand

ASSUME SequenceAssumption ==
    /\ IsFiniteSet(Steps) /\ Steps = 1..Cardinality(Steps) /\ Steps # {}
    /\ MaxAttempts \in Nat \ {0}
    /\ MaxDisturbed \in Nat
    /\ Outbox # User /\ {Outbox, User} \cap Consumers = {}

Agents == Consumers \cup {Outbox, User}

\* Each fault costs at most one more send of a step.
Sends == 1..(Cardinality(Steps) + MaxDisturbed)

VARIABLES
    enr,        \* sequence_enrollments.status
    step,       \* sequence_emails.status
    row,        \* outbox rows, by send
    sent,       \* sent_emails.status, by send
    msgs,       \* queue messages of each step
    cron,       \* the dispatch under way
    cancel,     \* the cancellation under way
    job,        \* what each agent is doing
    delivered,  \* history: how often each step's message was delivered
    doubt,      \* history: steps that may have been sent twice
    revived,    \* history: steps taken up again after they had ended
    cut,        \* history: a fault left work that nothing resumes
    disturbed

vars == <<enr, step, row, sent, msgs, cron, cancel, job, delivered, doubt, revived, cut, disturbed>>

Ends == {"sent", "retrying", "failed", "suppressed"}

\* A step that is over.
Settled == {"sent", "failed", "suppressed", "cancelled"}

NoRow == [status |-> "none", step |-> 0, attempts |-> 0]

Free == [pc |-> "idle", step |-> 0, id |-> 0, end |-> "none"]

RowType == [status : {"none", "pending", "failed"}, step : Steps \cup {0}, attempts : 0..MaxAttempts]

JobType ==
    [pc : {"idle", "enrollment", "drop", "guard", "repair", "hand over", "prepare", "send", "resolve",
           "insert", "try", "settle", "mark", "check", "complete", "delete"},
     step : Steps \cup {0}, id : Sends \cup {0}, end : Ends \cup {"none"}]

TypeOK ==
    /\ enr \in {"active", "cancelled", "completed"}
    /\ step \in [Steps -> Ends \cup {"pending", "queued", "cancelled"}]
    /\ row \in [Sends -> RowType]
    /\ sent \in [Sends -> {"none", "sent", "retrying", "failed"}]
    /\ msgs \in [Steps -> Nat]
    /\ cron \in [todo : SUBSET Steps, at : Steps \cup {0}]
    /\ cancel \in {"idle", "enrollment", "steps"}
    /\ job \in [Agents -> JobType]
    /\ delivered \in [Steps -> Nat]
    /\ doubt \subseteq Steps
    /\ revived \subseteq Steps
    /\ cut \in BOOLEAN
    /\ disturbed \in 0..MaxDisturbed

\* enrollPersonInSequence: the first step goes out at once.
Init ==
    /\ enr = "active"
    /\ step = [s \in Steps |-> IF s = 1 THEN "queued" ELSE "pending"]
    /\ row = [i \in Sends |-> NoRow]
    /\ sent = [i \in Sends |-> "none"]
    /\ msgs = [s \in Steps |-> IF s = 1 THEN 1 ELSE 0]
    /\ cron = [todo |-> {}, at |-> 0]
    /\ cancel = "idle"
    /\ job = [a \in Agents |-> Free]
    /\ delivered = [s \in Steps |-> 0]
    /\ doubt = {}
    /\ revived = {}
    /\ cut = FALSE
    /\ disturbed = 0

At(a, pc) == job[a].pc = pc

Goes(a, pc) == job' = [job EXCEPT ![a].pc = pc]

Rests(a) == job' = [job EXCEPT ![a] = Free]

Disturbs == disturbed < MaxDisturbed /\ disturbed' = disturbed + 1

UnchangedHistory == UNCHANGED <<delivered, doubt, revived, cut, disturbed>>

-----------------------------------------------------------------------------
(* handleScheduled                                                         *)

\* Steps fall due in their order.
Dispatch ==
    /\ cron.todo = {}
    /\ \E n \in Steps :
         LET due == {s \in 1..n : step[s] = "pending"}
         IN due # {} /\ cron' = [cron EXCEPT !.todo = due]
    /\ UNCHANGED <<enr, step, row, sent, msgs, cancel, job>> /\ UnchangedHistory

\* Marked as queued first, whatever became of the step since it was listed ...
MarkQueued ==
    /\ cron.at = 0
    /\ \E s \in cron.todo :
         /\ step' = [step EXCEPT ![s] = "queued"]
         /\ cron' = [cron EXCEPT !.at = s]
         /\ revived' = IF step[s] = "pending" THEN revived ELSE revived \cup {s}
    /\ UNCHANGED <<enr, row, sent, msgs, cancel, job, delivered, doubt, cut, disturbed>>

\* ... then pushed to the queue.
Publish ==
    /\ cron.at # 0
    /\ msgs' = [msgs EXCEPT ![cron.at] = @ + 1]
    /\ cron' = [todo |-> cron.todo \ {cron.at}, at |-> 0]
    /\ UNCHANGED <<enr, step, row, sent, cancel, job>> /\ UnchangedHistory

-----------------------------------------------------------------------------
(* processSequenceEmail                                                    *)

Take(a, s) ==
    /\ At(a, "idle")
    /\ msgs[s] > 0
    /\ msgs' = [msgs EXCEPT ![s] = @ - 1]
    /\ job' = IF step[s] = "queued"
              THEN [job EXCEPT ![a] = [Free EXCEPT !.pc = "enrollment", !.step = s]]
              ELSE job
    /\ UNCHANGED <<enr, step, row, sent, cron, cancel>> /\ UnchangedHistory

ReadEnrollment(a) ==
    /\ At(a, "enrollment")
    /\ Goes(a, IF enr = "active" THEN "guard" ELSE "drop")
    /\ UNCHANGED <<enr, step, row, sent, msgs, cron, cancel>> /\ UnchangedHistory

Drop(a) ==
    /\ At(a, "drop")
    /\ step' = [step EXCEPT ![job[a].step] = "cancelled"]
    /\ Rests(a)
    /\ UNCHANGED <<enr, row, sent, msgs, cron, cancel>> /\ UnchangedHistory

RowsOf(s) == {i \in Sends : row[i].status # "none" /\ row[i].step = s}

\* Faulty: a redelivered step is sent again whatever its first send left.
NoneExisting(s) == {}

Existing(s) == RowsOf(s)

\* The crash-redelivery guard: a step with an outbox row is the outbox's.
Guard(a) ==
    /\ At(a, "guard")
    /\ \/ \E i \in Existing(job[a].step) :
            job' = [job EXCEPT ![a].pc = "repair", ![a].id = i]
       \/ Existing(job[a].step) = {} /\ Goes(a, "prepare")
    /\ UNCHANGED <<enr, step, row, sent, msgs, cron, cancel>> /\ UnchangedHistory

Repair(a) ==
    /\ At(a, "repair")
    /\ sent' = [sent EXCEPT ![job[a].id] = IF @ = "none" THEN "retrying" ELSE @]
    /\ Goes(a, "hand over")
    /\ UNCHANGED <<enr, step, row, msgs, cron, cancel>> /\ UnchangedHistory

\* The step is the outbox's, though the row may be gone or given up by now.
HandOver(a) ==
    /\ At(a, "hand over")
    /\ step' = [step EXCEPT ![job[a].step] = "retrying"]
    /\ cut' = (cut \/ row[job[a].id].status # "pending")
    /\ revived' = IF step[job[a].step] = "queued" THEN revived ELSE revived \cup {job[a].step}
    /\ Rests(a)
    /\ UNCHANGED <<enr, row, sent, msgs, cron, cancel, delivered, doubt, disturbed>>

\* No template, no contact, or a template that does not parse: failStep.
Unsendable(a) ==
    /\ At(a, "prepare")
    /\ job' = [job EXCEPT ![a].pc = "mark", ![a].end = "failed"]
    /\ UNCHANGED <<enr, step, row, sent, msgs, cron, cancel>> /\ UnchangedHistory

\* Each send has an outbox id and a sent id of its own.
Unused(i) == row[i].status = "none" /\ sent[i] = "none" /\ \A a \in Agents : job[a].id # i

WriteAhead(a) ==
    /\ At(a, "prepare")
    /\ \E i \in Sends :
         /\ Unused(i) /\ \A j \in 1..(i - 1) : ~Unused(j)
         /\ row' = [row EXCEPT ![i] = [status |-> "pending", step |-> job[a].step, attempts |-> 0]]
         /\ job' = [job EXCEPT ![a].pc = "send", ![a].id = i]
    /\ UNCHANGED <<enr, step, sent, msgs, cron, cancel>> /\ UnchangedHistory

Delivering(a, end) ==
    delivered' = IF end = "sent" THEN [delivered EXCEPT ![job[a].step] = @ + 1] ELSE delivered

Send(a) ==
    /\ At(a, "send")
    /\ \E end \in Ends :
         /\ job' = [job EXCEPT ![a].pc = "resolve", ![a].end = end]
         /\ Delivering(a, end)
    /\ UNCHANGED <<enr, step, row, sent, msgs, cron, cancel, doubt, revived, cut, disturbed>>

\* The message goes back to the queue.
Redelivered(a) == msgs' = [msgs EXCEPT ![job[a].step] = @ + 1]

\* A throw before the provider's answer deletes the row, and the message is
\* retried.
Throw(a) ==
    /\ At(a, "send")
    /\ Disturbs
    /\ row' = [row EXCEPT ![job[a].id] = NoRow]
    /\ Redelivered(a)
    /\ Rests(a)
    /\ UNCHANGED <<enr, step, sent, cron, cancel, delivered, doubt, revived, cut>>

Resolved(a) ==
    CASE job[a].end = "retrying" -> [row[job[a].id] EXCEPT !.attempts = 1]
      [] job[a].end = "failed" -> [row[job[a].id] EXCEPT !.status = "failed", !.attempts = 1]
      [] OTHER -> NoRow

Resolve(a) ==
    /\ At(a, "resolve")
    /\ row' = [row EXCEPT ![job[a].id] = Resolved(a)]
    /\ Goes(a, IF job[a].end = "suppressed" THEN "mark" ELSE "insert")
    /\ UNCHANGED <<enr, step, sent, msgs, cron, cancel>> /\ UnchangedHistory

\* The insert of the sent row throws when a repair was there first.
Insert(a) ==
    /\ At(a, "insert")
    /\ IF sent[job[a].id] = "none"
       THEN /\ sent' = [sent EXCEPT ![job[a].id] = job[a].end]
            /\ Goes(a, "mark")
            /\ UNCHANGED msgs
       ELSE /\ Redelivered(a)
            /\ Rests(a)
            /\ UNCHANGED sent
    /\ UNCHANGED <<enr, step, row, cron, cancel>> /\ UnchangedHistory

-----------------------------------------------------------------------------
(* The step and its enrollment: the end of processSequenceEmail, failStep  *)
(* and resolveSequenceStep.                                                *)

Marked(a) == job[a].end

\* After its step the outbox deletes the row of a message it delivered.
Left(a) == IF a = Outbox /\ job[a].end = "sent" THEN [job[a] EXCEPT !.pc = "delete"] ELSE Free

\* Another handler has yet to settle the same step.
Crossed(a) ==
    \E b \in Agents \ {a} :
        job[b].step = job[a].step /\ job[b].pc \notin {"check", "complete", "delete"}

\* Faulty: a step that failed returns early, without a look at the enrollment.
MarkingEarly(a) ==
    IF job[a].end \in {"retrying", "failed"} THEN Free ELSE [job[a] EXCEPT !.pc = "check"]

Marking(a) == IF job[a].end = "retrying" THEN Free ELSE [job[a] EXCEPT !.pc = "check"]

Mark(a) ==
    /\ At(a, "mark")
    /\ step' = [step EXCEPT ![job[a].step] = Marked(a)]
    /\ job' = [job EXCEPT ![a] = Marking(a)]
    /\ doubt' = IF Crossed(a) THEN doubt \cup {job[a].step} ELSE doubt
    /\ cut' = (cut \/ Crossed(a))
    /\ revived' = IF job[a].end = "retrying" /\ step[job[a].step] \in Settled
                  THEN revived \cup {job[a].step} ELSE revived
    /\ UNCHANGED <<enr, row, sent, msgs, cron, cancel, delivered, disturbed>>

\* Faulty: a step the outbox has is not waited for.
OutstandingQueued == {s \in Steps : step[s] \in {"pending", "queued"}}

Outstanding == {s \in Steps : step[s] \in {"pending", "queued", "retrying"}}

\* completeEnrollmentIfDone counts ...
Check(a) ==
    /\ At(a, "check")
    /\ job' = [job EXCEPT ![a] = IF Outstanding = {} THEN [job[a] EXCEPT !.pc = "complete"] ELSE Left(a)]
    /\ UNCHANGED <<enr, step, row, sent, msgs, cron, cancel>> /\ UnchangedHistory

\* ... then completes, whatever the enrollment's status.
Complete(a) ==
    /\ At(a, "complete")
    /\ enr' = "completed"
    /\ job' = [job EXCEPT ![a] = Left(a)]
    /\ UNCHANGED <<step, row, sent, msgs, cron, cancel>> /\ UnchangedHistory

-----------------------------------------------------------------------------
(* The outbox: attemptOutboxRow, its cancel and its retry.                 *)

\* A row cools down while its first attempt is being recorded, and is held an
\* hour by an attempt of the outbox.
Due(i) == row[i].status = "pending" /\ \A a \in Agents : job[a].id = i => job[a].pc \in {"repair", "hand over"}

Claim(i) ==
    /\ At(Outbox, "idle")
    /\ Due(i)
    /\ row' = [row EXCEPT ![i].attempts = IF @ < MaxAttempts THEN @ + 1 ELSE @]
    /\ job' = [job EXCEPT ![Outbox] = [pc |-> "try", step |-> row[i].step, id |-> i, end |-> "none"]]
    /\ UNCHANGED <<enr, step, sent, msgs, cron, cancel>> /\ UnchangedHistory

\* A transient answer is an end once the budget is spent.
Try ==
    /\ At(Outbox, "try")
    /\ \E end \in Ends :
         /\ end = "retrying" => row[job[Outbox].id].attempts < MaxAttempts
         /\ job' = [job EXCEPT ![Outbox].pc = "settle", ![Outbox].end = end]
         /\ Delivering(Outbox, end)
    /\ UNCHANGED <<enr, step, row, sent, msgs, cron, cancel, doubt, revived, cut, disturbed>>

\* The outbox row and the sent row; an UPDATE of a sent row not yet there does
\* nothing.
Shown(i, status) == [sent EXCEPT ![i] = IF @ = "none" THEN @ ELSE status]

SentAs(end) == IF end = "suppressed" THEN "failed" ELSE end

Settle ==
    /\ At(Outbox, "settle")
    /\ LET i == job[Outbox].id
           end == job[Outbox].end
       IN /\ row' = CASE end = "suppressed" -> [row EXCEPT ![i] = NoRow]
                      [] end = "failed" -> [row EXCEPT ![i].status = "failed"]
                      [] OTHER -> row
          /\ sent' = Shown(i, SentAs(end))
    /\ Goes(Outbox, "mark")
    /\ UNCHANGED <<enr, step, msgs, cron, cancel>> /\ UnchangedHistory

Delete ==
    /\ At(Outbox, "delete")
    /\ row' = [row EXCEPT ![job[Outbox].id] = NoRow]
    /\ Rests(Outbox)
    /\ UNCHANGED <<enr, step, sent, msgs, cron, cancel>> /\ UnchangedHistory

CancelSend(i) ==
    /\ At(User, "idle")
    /\ Due(i) \/ row[i].status = "failed"
    /\ Disturbs
    /\ row' = [row EXCEPT ![i] = NoRow]
    /\ sent' = Shown(i, "failed")
    /\ job' = [job EXCEPT ![User] = [pc |-> "mark", step |-> row[i].step, id |-> 0, end |-> "failed"]]
    /\ UNCHANGED <<enr, step, msgs, cron, cancel, delivered, doubt, revived, cut>>

Retry(i) ==
    /\ row[i].status = "failed"
    /\ Disturbs
    /\ row' = [row EXCEPT ![i].status = "pending", ![i].attempts = 0]
    /\ revived' = revived \cup {row[i].step}
    /\ UNCHANGED <<enr, step, sent, msgs, cron, cancel, job, delivered, doubt, cut>>

-----------------------------------------------------------------------------
(* Cancellation of the enrollment, by an admin or by the contact's reply.  *)

StartCancel ==
    /\ cancel = "idle" /\ enr = "active"
    /\ cancel' = "enrollment"
    /\ UNCHANGED <<enr, step, row, sent, msgs, cron, job>> /\ UnchangedHistory

CancelEnrollment ==
    /\ cancel = "enrollment"
    /\ enr' = "cancelled"
    /\ cancel' = "steps"
    /\ UNCHANGED <<step, row, sent, msgs, cron, job>> /\ UnchangedHistory

CancelSteps ==
    /\ cancel = "steps"
    /\ step' = [s \in Steps |-> IF step[s] \in {"pending", "queued"} THEN "cancelled" ELSE step[s]]
    /\ cancel' = "idle"
    /\ UNCHANGED <<enr, row, sent, msgs, cron, job>> /\ UnchangedHistory

-----------------------------------------------------------------------------
(* The environment.                                                        *)

\* The queue delivers a message a second time.
Duplicate(s) ==
    /\ Disturbs
    /\ msgs[s] > 0
    /\ msgs' = [msgs EXCEPT ![s] = @ + 1]
    /\ doubt' = doubt \cup {s}
    /\ cut' = TRUE
    /\ UNCHANGED <<enr, step, row, sent, cron, cancel, job, delivered, revived>>

\* A handler stops.  Its message is redelivered, its row is due again; but for
\* a step already settled nothing will look at the enrollment again.
Die(a) ==
    /\ ~At(a, "idle")
    /\ Disturbs
    /\ Rests(a)
    /\ IF a \in Consumers THEN Redelivered(a) ELSE UNCHANGED msgs
    /\ doubt' = IF job[a].end = "sent" THEN doubt \cup {job[a].step} ELSE doubt
    /\ cut' = (cut \/ At(a, "check") \/ At(a, "complete") \/ job[a].end \in {"failed", "suppressed"})
    /\ UNCHANGED <<enr, step, row, sent, cron, cancel, delivered, revived>>

CronDies ==
    /\ cron.todo # {}
    /\ Disturbs
    /\ cron' = [todo |-> {}, at |-> 0]
    /\ cut' = (cut \/ cron.at # 0)
    /\ UNCHANGED <<enr, step, row, sent, msgs, cancel, job, delivered, doubt, revived>>

-----------------------------------------------------------------------------
Process(a) ==
    \/ \E s \in Steps : Take(a, s)
    \/ ReadEnrollment(a) \/ Drop(a) \/ Guard(a) \/ Repair(a) \/ HandOver(a) \/ Unsendable(a) \/ WriteAhead(a)
    \/ Send(a) \/ Resolve(a) \/ Insert(a)

Finish(a) == Mark(a) \/ Check(a) \/ Complete(a)

Attempt == (\E i \in Sends : Claim(i)) \/ Try \/ Settle \/ Delete

Cancel == CancelEnrollment \/ CancelSteps

Next ==
    \/ Dispatch \/ MarkQueued \/ Publish
    \/ \E a \in Consumers : Process(a) \/ Throw(a)
    \/ \E a \in Agents : Finish(a) \/ Die(a)
    \/ Attempt
    \/ \E i \in Sends : CancelSend(i) \/ Retry(i)
    \/ StartCancel \/ Cancel
    \/ \E s \in Steps : Duplicate(s)
    \/ CronDies

Spec == Init /\ [][Next]_vars

-----------------------------------------------------------------------------
(* What a drip promises.                                                   *)

\* A step's message is delivered at most once, whoever cancels, retries or
\* redelivers, unless a handler stopped between the provider's acceptance and
\* the record of it, the queue doubled the step's message, or the outbox settled
\* the step while a redelivered message of it was being handled.
OncePerStep == \A s \in Steps \ doubt : delivered[s] <= 1

Busy(s) == \E a \in Agents : job[a].step = s

\* Once nothing works on a step, it shows as sent just when its message was
\* delivered, also when it was canceled while it was being sent.
OutcomeShown ==
    \A s \in Steps \ doubt :
        ~cut /\ ~Busy(s) /\ RowsOf(s) = {} => (step[s] = "sent" <=> delivered[s] = 1)

\* A step shown as retrying is in the outbox.
RetryingOwned ==
    \A s \in Steps : ~cut /\ step[s] = "retrying" /\ ~Busy(s) => RowsOf(s) # {}

\* A step goes out once, shows what became of it, and if it still can go out,
\* what it shows is what will move it.
StepsTell == TypeOK /\ OncePerStep /\ OutcomeShown /\ RetryingOwned

\* A completed enrollment has no step left that could still go out, but for
\* those taken up again after they had ended: retried by hand, dispatched
\* from a list drawn up before they were canceled, or canceled while being sent.
CompletionSound ==
    ~cut /\ enr = "completed" =>
        \A s \in Steps \ revived : step[s] \in Settled

\* Something will still move an active enrollment.
Moving ==
    \/ enr # "active"
    \/ cancel # "idle" \/ cron.todo # {}
    \/ \E s \in Steps : step[s] = "pending" \/ msgs[s] > 0
    \/ \E a \in Agents : ~At(a, "idle")
    \/ \E i \in Sends : row[i].status = "pending"

\* An active enrollment always has something left that will move it, unless a
\* fault left work that nothing resumes: no step's end, and no order of the
\* steps' ends, leaves it active with nothing outstanding.
KeepsMoving == cut \/ Moving
=============================================================================
