----------------------------- MODULE MailExport -----------------------------
(***************************************************************************)
(* One export of an inbox to an mbox file, as a sliced job: each queue     *)
(* message runs one slice, which claims the job, renders the next          *)
(* messages, uploads the parts they fill, carries the rest in an object of *)
(* its own, commits, and queues the next slice.  Messages come twice, runs *)
(* die, the hourly pass queues an idle job again, and its user may delete  *)
(* it at any point.                                                        *)
(*                                                                         *)
(* A message of the inbox is its position; its mbox entry is one unit of   *)
(* the file.  One action is one D1 statement or one round of R2 calls.     *)
(***************************************************************************)
EXTENDS Integers, Sequences, SequencesExt

CONSTANTS
    Totals,         \* how many messages the inbox may have
    SliceSize,      \* SLICE_MESSAGES
    PartSize,       \* PART_BYTES
    Slots,          \* places in the queue, 1 the first: MaxFaults + MaxRecoveries + 1 do
    MaxAttempts,    \* MAIL_EXPORT_MAX_ATTEMPTS
    MaxRecoveries,  \* MAX_RECOVERIES
    Idle,           \* IDLE_SECONDS, in lengths of a claim (LEASE_MS)
    MaxFaults,      \* bound of the model: deaths, failed statements, doubled messages
    None

ASSUME ExportAssumption ==
    /\ Totals \cup {MaxRecoveries, MaxFaults} \subseteq Nat
    /\ \A n \in {SliceSize, PartSize, MaxAttempts, Idle} : n \in Nat /\ n > 0
    /\ 1 \in Slots /\ Slots \subseteq Nat

VARIABLES
    job,     \* the async_jobs row; status "gone" without one
    r2,      \* the multipart upload, the objects carried between slices, the file
    queue,   \* each queue message, and the run that has it
    cron,    \* reapMailExports, when it works on the job
    user,    \* the request that deletes the export
    lost,    \* history: a commit was made and its answer lost
    torn,    \* history: work of tidying up that nobody was left to do
    faults

vars == <<job, r2, queue, cron, user, torn, lost, faults>>

Delivered == MaxAttempts + 1   \* deliveries of one message (wrangler: max_retries)
Keys == Slots \X Nat \X (1 .. Delivered)

ASSUME NoneAssumption == None \notin Keys \cup Seq(Nat)

Params == [slice : Nat, lease : Keys \cup {None}, live : BOOLEAN,
           parts : Seq(Seq(Nat)), pending : Keys \cup {None},
           finishing : BOOLEAN, recoveries : Nat]

InRun == {"read", "claimed", "rendered", "put", "clean", "undo", "publish",
          "looked", "built", "tidy", "threw", "failing", "abort", "purge"}

Empty == [at |-> "free", slice |-> 0, tries |-> 0, seen |-> None, made |-> None, threw |-> FALSE]
Message(slice) == [Empty EXCEPT !.at = "waiting", !.slice = slice]
Free == {m \in Slots : queue[m].at = "free"}
FirstFree == CHOOSE m \in Free : \A n \in Free : m <= n

Running == job.status = "running"
Whole == [i \in 1 .. job.total |-> i]
Token(m) == <<m, queue[m].slice, queue[m].tries>>

\* The row is as it was read, or as this run wrote it: the job still running,
\* its params the same text.
StillClaimed(seen) == Running /\ job.params = seen.params

Carried(key) == {p \in r2.pending : p.key = key}
Bytes(key) == IF key = None THEN <<>> ELSE (CHOOSE p \in Carried(key) : TRUE).bytes
Missing(key) == key # None /\ Carried(key) = {}

Step(m, at) == queue' = [queue EXCEPT ![m].at = at]
Acknowledge(m) == queue' = [queue EXCEPT ![m] = Empty]

Init ==
    /\ \E n \in Totals : job = [status |-> "running", total |-> n, cursor |-> 0, idle |-> 0,
           params |-> [slice |-> 0, lease |-> None, live |-> FALSE, parts |-> <<>>,
                       pending |-> None, finishing |-> FALSE, recoveries |-> 0]]
    /\ r2 = [upload |-> "open", parts |-> <<>>, pending |-> {}, file |-> None]
    \* the request that starts the export may stop before it queues slice 0
    /\ \E first \in {Empty, Message(0)} : queue = [m \in Slots |-> IF m = 1 THEN first ELSE Empty]
    /\ cron = [at |-> "idle", seen |-> None]
    /\ user = [at |-> "idle", saw |-> None]
    /\ torn = FALSE /\ lost = FALSE
    /\ faults = 0

-----------------------------------------------------------------------------
(* A run: runMailExportSlice for one delivery of a message. *)

Read(m) ==
    /\ queue[m].at = "waiting"
    /\ queue' = IF Running
                  THEN [queue EXCEPT ![m].at = "read", ![m].tries = @ + 1,
                            ![m].seen = [params |-> job.params, cursor |-> job.cursor]]
                  ELSE [queue EXCEPT ![m] = Empty]
    /\ UNCHANGED <<job, r2, cron, user, torn, lost, faults>>

\* Faulty: a claim that another run holds is taken over.
NeverBusy(seen) == FALSE
Busy(seen) == seen.params.live

Claimed(m) == [queue[m].seen.params EXCEPT !.lease = Token(m), !.live = TRUE]

\* A stale message is done.  A busy one comes back once the claim has run out,
\* until the queue drops it.
Claim(m) ==
    LET seen == queue[m].seen IN
    /\ queue[m].at = "read"
    /\ IF seen.params.slice # queue[m].slice
         THEN Acknowledge(m) /\ UNCHANGED job
       ELSE IF Busy(seen) \/ ~StillClaimed(seen)
         THEN /\ IF queue[m].tries < Delivered
                   THEN queue' = [queue EXCEPT ![m].at = "held", ![m].seen = None]
                   ELSE Acknowledge(m)
              /\ UNCHANGED job
       ELSE /\ job' = [job EXCEPT !.params = Claimed(m), !.idle = 0]
            /\ queue' = [queue EXCEPT ![m].at = "claimed", ![m].seen.params = Claimed(m)]
    /\ UNCHANGED <<r2, cron, user, torn, lost, faults>>

\* What fills a part, and what does not.
WholeParts(bytes) ==
    [i \in 1 .. Len(bytes) \div PartSize |-> SubSeq(bytes, (i - 1) * PartSize + 1, i * PartSize)]
Leftover(bytes) == SubSeq(bytes, (Len(bytes) \div PartSize) * PartSize + 1, Len(bytes))

LastOf(seen) == IF seen.cursor + SliceSize < job.total THEN seen.cursor + SliceSize ELSE job.total
Written(seen) == Bytes(seen.params.pending) \o [i \in 1 .. LastOf(seen) - seen.cursor |-> seen.cursor + i]

\* The parts of the upload, from number 1, after a run has uploaded its own.
Uploaded(parts) == parts \o SubSeq(r2.parts, Len(parts) + 1, Len(r2.parts))

Made(m) ==
    LET seen == queue[m].seen
        parts == seen.params.parts \o WholeParts(Written(seen))
    IN  [parts |-> parts, rest |-> Leftover(Written(seen)), cursor |-> LastOf(seen),
         finishing |-> LastOf(seen) = job.total]

\* Renders the messages and uploads the parts they fill.  Parts of an upload
\* that was aborted are refused.
Render(m) ==
    LET seen == queue[m].seen IN
    /\ queue[m].at = "claimed" /\ ~seen.params.finishing
    /\ IF \/ Missing(seen.params.pending)
          \/ r2.upload # "open" /\ Len(Written(seen)) >= PartSize
         THEN Step(m, "threw") /\ UNCHANGED r2
         ELSE /\ queue' = [queue EXCEPT ![m].at = "rendered", ![m].made = Made(m)]
              /\ r2' = [r2 EXCEPT !.parts = Uploaded(Made(m).parts)]
    /\ UNCHANGED <<job, cron, user, torn, lost, faults>>

PendingOf(m) == IF queue[m].made.rest = <<>> THEN None ELSE Token(m)

Put(m) ==
    /\ queue[m].at = "rendered"
    /\ r2' = IF PendingOf(m) = None THEN r2
             ELSE [r2 EXCEPT !.pending = (@ \ Carried(Token(m)))
                                           \cup {[key |-> Token(m), bytes |-> queue[m].made.rest]}]
    /\ Step(m, "put")
    /\ UNCHANGED <<job, cron, user, torn, lost, faults>>

Committed(m) ==
    LET made == queue[m].made IN
    [job EXCEPT !.cursor = made.cursor, !.idle = 0,
        !.params = [queue[m].seen.params EXCEPT !.slice = @ + 1, !.parts = made.parts,
            !.pending = PendingOf(m), !.finishing = made.finishing, !.lease = None, !.live = FALSE]]

Commit(m) ==
    /\ queue[m].at = "put"
    /\ IF StillClaimed(queue[m].seen)
         THEN job' = Committed(m) /\ Step(m, "clean")
         ELSE UNCHANGED job /\ Step(m, "undo")
    /\ UNCHANGED <<r2, cron, user, torn, lost, faults>>

Drop(key) == r2' = [r2 EXCEPT !.pending = @ \ Carried(key)]

Outdated(m) == queue[m].seen.params.pending

\* Committed: what the last slice carried is no longer needed.
Clean(m) ==
    /\ queue[m].at = "clean"
    /\ Drop(Outdated(m))
    /\ Step(m, "publish")
    /\ UNCHANGED <<job, cron, user, torn, lost, faults>>

Undone(m) == IF queue[m].threw THEN Step(m, "threw") ELSE Acknowledge(m)

\* Not committed: leave nothing behind.
Undo(m) ==
    /\ queue[m].at = "undo"
    /\ Drop(PendingOf(m))
    /\ Undone(m)
    /\ UNCHANGED <<job, cron, user, torn, lost, faults>>

\* The next slice's message takes this one's place.
Publish(m) ==
    /\ queue[m].at = "publish"
    /\ queue' = [queue EXCEPT ![m] = Message(queue[m].slice + 1)]
    /\ UNCHANGED <<job, r2, cron, user, torn, lost, faults>>

-----------------------------------------------------------------------------
(* The last slice: completeExport. *)

\* A file that is there was written by a run that did not get to mark the job.
Look(m) ==
    LET pending == queue[m].seen.params.pending IN
    /\ queue[m].at = "claimed" /\ queue[m].seen.params.finishing
    /\ IF r2.file # None THEN Step(m, "built")
       ELSE IF Missing(pending) THEN Step(m, "threw")
       ELSE queue' = [queue EXCEPT ![m].at = "looked", ![m].made = [rest |-> Bytes(pending)]]
    /\ UNCHANGED <<job, r2, cron, user, torn, lost, faults>>

\* Smaller than a part: one put, and the upload is given up.
PutWhole(m) == [r2 EXCEPT !.file = queue[m].made.rest,
                          !.upload = IF @ = "open" THEN "aborted" ELSE @]

AllParts(m) == LET rest == queue[m].made.rest IN
               queue[m].seen.params.parts \o (IF rest = <<>> THEN <<>> ELSE <<rest>>)

Assembled(m) == [r2 EXCEPT !.parts = Uploaded(AllParts(m)), !.file = FlattenSeq(AllParts(m)),
                           !.upload = "completed"]

Build(m) ==
    LET parts == queue[m].seen.params.parts IN
    /\ queue[m].at = "looked"
    /\ IF parts = <<>> THEN r2' = PutWhole(m) /\ Step(m, "built")
       ELSE IF r2.upload = "open" THEN r2' = Assembled(m) /\ Step(m, "built")
       ELSE UNCHANGED r2 /\ Step(m, "threw")
    /\ UNCHANGED <<job, cron, user, torn, lost, faults>>

Completed(m) ==
    [job EXCEPT !.status = "completed", !.idle = 0,
        !.params = [queue[m].seen.params EXCEPT !.pending = None, !.lease = None, !.live = FALSE]]

\* Faulty: a job that was canceled or failed meanwhile keeps the file.
LostCloseKept(m) == Step(m, "tidy")
LostClose(m) == Step(m, "purge")

Close(m) ==
    /\ queue[m].at = "built"
    /\ IF StillClaimed(queue[m].seen)
         THEN job' = Completed(m) /\ Step(m, "tidy")
         ELSE UNCHANGED job /\ LostClose(m)
    /\ UNCHANGED <<r2, cron, user, torn, lost, faults>>

\* deleteExportObjects, but for the file, and without exception.
Tidied == [r2 EXCEPT !.pending = {}]
Purged == [r2 EXCEPT !.pending = {}, !.file = None]

Tidy(m) ==
    /\ queue[m].at = "tidy"
    /\ r2' = Tidied
    /\ Acknowledge(m)
    /\ UNCHANGED <<job, cron, user, torn, lost, faults>>

Purge(m) ==
    /\ queue[m].at = "purge"
    /\ r2' = Purged
    /\ Acknowledge(m)
    /\ UNCHANGED <<job, cron, user, torn, lost, faults>>

-----------------------------------------------------------------------------
(* What becomes of a run that threw. *)

\* The message is retried, or its last attempt fails the job.
Thrown(m) ==
    queue' = [queue EXCEPT ![m] = IF @.tries >= MaxAttempts
                THEN [@ EXCEPT !.at = "failing"]
                ELSE [Message(@.slice) EXCEPT !.tries = queue[m].tries]]

Released(params) == [params EXCEPT !.lease = None, !.live = FALSE]

\* What throws within a slice gives its claim back first.
Release(m) ==
    /\ queue[m].at = "threw"
    /\ job' = IF StillClaimed(queue[m].seen)
                THEN [job EXCEPT !.params = Released(@)] ELSE job
    /\ Thrown(m)
    /\ UNCHANGED <<r2, cron, user, torn, lost, faults>>

FailedJob == [job EXCEPT !.status = "failed", !.idle = 0]
AbortedUpload == [r2 EXCEPT !.upload = IF @ = "open" THEN "aborted" ELSE @]

\* failMailExport: only a running job fails.
Fail(m) ==
    /\ queue[m].at = "failing"
    /\ IF Running THEN job' = FailedJob /\ Step(m, "abort")
       ELSE UNCHANGED job /\ Acknowledge(m)
    /\ UNCHANGED <<r2, cron, user, torn, lost, faults>>

Abort(m) ==
    /\ queue[m].at = "abort"
    /\ r2' = AbortedUpload
    /\ Step(m, "purge")
    /\ UNCHANGED <<job, cron, user, torn, lost, faults>>

Run(m) ==
    \/ Read(m) \/ Claim(m) \/ Render(m) \/ Put(m) \/ Commit(m) \/ Clean(m) \/ Undo(m)
    \/ Publish(m) \/ Look(m) \/ Build(m) \/ Close(m) \/ Tidy(m) \/ Purge(m) \/ Release(m)
    \/ Fail(m) \/ Abort(m)

-----------------------------------------------------------------------------
(* The hourly pass. *)

\* Faulty: only a claim that ran out shows that a job stopped.
IdleClaim == Running /\ job.idle >= Idle /\ job.params.lease # None
\* A running job not touched for this long has lost its message, claimed or not.
IdleJob == Running /\ job.idle >= Idle

CronList ==
    /\ cron.at = "idle" /\ IdleJob
    /\ cron' = [at |-> "read", seen |-> [params |-> job.params, cursor |-> job.cursor]]
    /\ UNCHANGED <<job, r2, queue, user, torn, lost, faults>>

Recovered(params) == [params EXCEPT !.lease = None, !.live = FALSE, !.recoveries = @ + 1]

\* recoverIdleJob: skip, fail or resume.
CronRecover ==
    LET params == cron.seen.params
        to(at) == cron' = [cron EXCEPT !.at = at]
    IN
    /\ cron.at = "read"
    /\ IF params.live THEN UNCHANGED job /\ to("idle")
       ELSE IF params.recoveries >= MaxRecoveries THEN UNCHANGED job /\ to("failing")
       ELSE IF ~StillClaimed(cron.seen) THEN UNCHANGED job /\ to("idle")
       ELSE job' = [job EXCEPT !.params = Recovered(@), !.idle = 0] /\ to("resume")
    /\ UNCHANGED <<r2, queue, user, torn, lost, faults>>

CronResume ==
    /\ cron.at = "resume"
    /\ Free # {}
    /\ queue' = [queue EXCEPT ![FirstFree] = Message(cron.seen.params.slice)]
    /\ cron' = [cron EXCEPT !.at = "idle", !.seen = None]
    /\ UNCHANGED <<job, r2, user, torn, lost, faults>>

CronFail ==
    /\ cron.at = "failing"
    /\ IF Running THEN job' = FailedJob /\ cron' = [cron EXCEPT !.at = "abort"]
       ELSE UNCHANGED job /\ cron' = [cron EXCEPT !.at = "idle"]
    /\ UNCHANGED <<r2, queue, user, torn, lost, faults>>

CronAbort ==
    /\ cron.at = "abort"
    /\ r2' = AbortedUpload
    /\ cron' = [cron EXCEPT !.at = "purge"]
    /\ UNCHANGED <<job, queue, user, torn, lost, faults>>

\* The file of a finished export goes after EXPORT_TTL_SECONDS, here Idle.
CronExpire ==
    /\ cron.at = "idle" /\ job.status = "completed" /\ job.idle >= Idle
    /\ job' = [job EXCEPT !.status = "expired", !.idle = 0]
    /\ cron' = [cron EXCEPT !.at = "purge"]
    /\ UNCHANGED <<r2, queue, user, torn, lost, faults>>

CronPurge ==
    /\ cron.at = "purge"
    /\ r2' = Purged
    /\ cron' = [at |-> "idle", seen |-> None]
    /\ UNCHANGED <<job, queue, user, torn, lost, faults>>

Cron == CronList \/ CronRecover \/ CronResume \/ CronFail \/ CronAbort \/ CronExpire \/ CronPurge

-----------------------------------------------------------------------------
(* deleteMailExport: cancels a running export or deletes one that ended. *)

AskDelete ==
    /\ user.at = "idle" /\ job.status # "gone"
    /\ user' = [at |-> "asked", saw |-> job.status]
    /\ UNCHANGED <<job, r2, queue, cron, torn, lost, faults>>

DeleteRow ==
    /\ user.at = "asked"
    /\ job' = [job EXCEPT !.status = "gone"]
    /\ user' = [user EXCEPT !.at = IF user.saw = "running" THEN "abort" ELSE "purge"]
    /\ UNCHANGED <<r2, queue, cron, torn, lost, faults>>

DeleteUpload ==
    /\ user.at = "abort"
    /\ r2' = AbortedUpload
    /\ user' = [user EXCEPT !.at = "purge"]
    /\ UNCHANGED <<job, queue, cron, torn, lost, faults>>

DeleteObjects ==
    /\ user.at = "purge"
    /\ r2' = Purged
    /\ user' = [user EXCEPT !.at = "done"]
    /\ UNCHANGED <<job, queue, cron, torn, lost, faults>>

Delete == DeleteRow \/ DeleteUpload \/ DeleteObjects

-----------------------------------------------------------------------------
(* Time, and what goes wrong. *)

\* The length of a claim passes: it runs out and busy messages come back.  A
\* run, a pass and a request are over within it, and the queue delivers what
\* is not delayed.
Tick ==
    /\ \A m \in Slots : queue[m].at \notin InRun \cup {"waiting"}
    /\ cron.at = "idle" /\ user.at \in {"idle", "done"}
    /\ job.idle < Idle \/ job.params.live \/ \E m \in Slots : queue[m].at = "held"
    /\ job' = [job EXCEPT !.idle = IF @ < Idle THEN @ + 1 ELSE @, !.params.live = FALSE]
    /\ queue' = [m \in Slots |-> IF queue[m].at = "held" THEN [queue[m] EXCEPT !.at = "waiting"]
                                 ELSE queue[m]]
    /\ UNCHANGED <<r2, cron, user, torn, lost, faults>>

Fault == faults < MaxFaults /\ faults' = faults + 1

\* A message that was being handled is delivered again, up to the queue's limit.
\* So much for a run whose tidying up R2 refuses, too.
Die(m) ==
    /\ Fault
    /\ queue[m].at \in InRun
    /\ queue' = [queue EXCEPT ![m] =
           IF @.tries < Delivered THEN [Message(@.slice) EXCEPT !.tries = queue[m].tries] ELSE Empty]
    /\ torn' = (torn \/ ~Running)
    /\ UNCHANGED <<job, r2, cron, user, lost>>

DieCron ==
    /\ Fault
    /\ cron.at # "idle"
    /\ cron' = [at |-> "idle", seen |-> None]
    /\ torn' = (torn \/ ~Running)
    /\ UNCHANGED <<job, r2, queue, user, lost>>

\* The user's request stops, or R2 refuses it: what it was to delete stays.
DieUser ==
    /\ Fault
    /\ user.at \in {"asked", "abort", "purge"}
    /\ user' = [at |-> "idle", saw |-> None]
    /\ torn' = (torn \/ ~Running)
    /\ UNCHANGED <<job, r2, queue, cron, lost>>

\* The queue keeps a message for as long as it likes.
Delay(m) ==
    /\ Fault
    /\ queue[m].at = "waiting"
    /\ Step(m, "late")
    /\ UNCHANGED <<job, r2, cron, user, torn, lost>>

Arrive(m) ==
    /\ queue[m].at = "late"
    /\ Step(m, "waiting")
    /\ UNCHANGED <<job, r2, cron, user, torn, lost, faults>>

Duplicate(m) ==
    /\ Fault
    /\ queue[m].at = "waiting" /\ Free # {}
    /\ queue' = [queue EXCEPT ![FirstFree] = Message(queue[m].slice)]
    /\ UNCHANGED <<job, r2, cron, user, torn, lost>>

\* Rendering, an upload or R2 fails for this once.
Throw(m) ==
    /\ Fault
    /\ queue[m].at \in {"claimed", "rendered", "looked"}
    /\ Step(m, "threw")
    /\ UNCHANGED <<job, r2, cron, user, torn, lost>>

\* The read, the claim (made or not) or the next slice's message fails, outside
\* the slice's own handler: the claim is not given back.
Interrupt(m) ==
    /\ Fault
    /\ queue[m].at \in {"read", "claimed", "publish"}
    /\ Thrown(m)
    /\ UNCHANGED <<job, r2, cron, user, torn, lost>>

\* R2 does not delete what a run carried; the run goes on without.
DeleteFails(m) ==
    /\ Fault
    /\ \/ queue[m].at = "clean" /\ Step(m, "publish") /\ UNCHANGED torn
       \/ queue[m].at = "undo" /\ Undone(m) /\ torn' = (torn \/ ~Running)
    /\ UNCHANGED <<job, r2, cron, user, lost>>

\* The commit fails, or is made and its answer lost: the run takes it for not made.
CommitThrows(m) ==
    /\ Fault
    /\ queue[m].at = "put"
    /\ job' \in {job, IF StillClaimed(queue[m].seen) THEN Committed(m) ELSE job}
    /\ lost' = (lost \/ job' # job)
    /\ queue' = [queue EXCEPT ![m].at = "undo", ![m].threw = TRUE]
    /\ UNCHANGED <<r2, cron, user, torn>>

\* So may the last update: if it was made, nobody is left to tidy up.
CloseThrows(m) ==
    /\ Fault
    /\ queue[m].at = "built"
    /\ job' \in {job, IF StillClaimed(queue[m].seen) THEN Completed(m) ELSE job}
    /\ torn' = (torn \/ job'.status # "running")
    /\ Step(m, "threw")
    /\ UNCHANGED <<r2, cron, user, lost>>

Next ==
    \/ \E m \in Slots : Run(m) \/ Arrive(m) \/ Delay(m) \/ Die(m) \/ Duplicate(m) \/ Throw(m)
                          \/ CommitThrows(m) \/ CloseThrows(m) \/ Interrupt(m) \/ DeleteFails(m)
    \/ Cron \/ DieCron
    \/ AskDelete \/ Delete \/ DieUser
    \/ Tick

Spec == Init /\ [][Next]_vars

\* Runs, the pass and requests go on, the queue delivers, time passes.
FairSpec ==
    /\ Spec
    /\ WF_vars(\E m \in Slots : Run(m))
    /\ WF_vars(\E m \in Slots : Arrive(m))
    /\ WF_vars(Cron)
    /\ WF_vars(Delete)
    /\ WF_vars(Tick)

-----------------------------------------------------------------------------
(* Properties *)

Statuses == {"running", "completed", "failed", "expired", "gone"}
SeenType == [params : Params, cursor : Nat]
MadeType == [parts : Seq(Seq(Nat)), rest : Seq(Nat), cursor : Nat, finishing : BOOLEAN]
RunType ==
    [at : InRun \cup {"free", "waiting", "held", "late"}, slice : Nat, tries : 0 .. Delivered,
     seen : SeenType \cup {None}, made : [rest : Seq(Nat)] \cup MadeType \cup {None}, threw : BOOLEAN]

\* Every variable has its type.
TypeOK ==
    /\ job \in [status : Statuses, total : Totals, cursor : Nat, idle : 0 .. Idle, params : Params]
    /\ job.cursor <= job.total /\ job.params.recoveries <= MaxRecoveries
    /\ r2 \in [upload : {"open", "aborted", "completed"}, parts : Seq(Seq(Nat)),
               pending : SUBSET [key : Keys, bytes : Seq(Nat)], file : Seq(Nat) \cup {None}]
    /\ \A p \in r2.pending : Len(p.bytes) \in 1 .. PartSize - 1
    /\ queue \in [Slots -> RunType]
    /\ cron \in [at : {"idle", "read", "resume", "failing", "abort", "purge"}, seen : SeenType \cup {None}]
    /\ user \in [at : {"idle", "asked", "abort", "purge", "done"}, saw : Statuses \cup {None}]
    /\ {torn, lost} \subseteq BOOLEAN /\ faults \in 0 .. MaxFaults

\* An export shown as completed has its file, with every message of the inbox
\* once and in order, whatever runs stopped, were doubled or were queued again:
\* completeExport joins what slices committed, and nothing later takes it away.
FileWhole == job.status = "completed" => r2.file = Whole

\* While an export runs, what its row says was uploaded and carried is in R2 and
\* is exactly what the cursor has passed: a retry of a slice goes on from there.
\* Only a run that took a commit it had made for lost has deleted bytes the row
\* names (renderSlice, finally), and then the slices after it all fail.
RowAgrees ==
    Running /\ ~lost =>
        /\ ~Missing(job.params.pending)
        /\ FlattenSeq(job.params.parts) \o Bytes(job.params.pending)
             = [i \in 1 .. job.cursor |-> i]
        /\ IsPrefix(job.params.parts, r2.parts)

\* Two deliveries of one slice cannot both hold it (claimSlice): of the runs
\* that are between their claim and their commit, at most one has the row's.
OneRunner ==
    \A m, n \in Slots :
        /\ {queue[m].at, queue[n].at} \subseteq {"claimed", "rendered", "put", "looked", "built"}
        /\ queue[m].slice = queue[n].slice
        => m = n

\* A slice can always be run again from the row: one run at a time has it, and
\* what it goes on from is there.
Resumable == TypeOK /\ RowAgrees /\ OneRunner

AtRest ==
    /\ \A m \in Slots : queue[m].at \notin InRun
    /\ cron.at = "idle" /\ user.at \in {"idle", "done"}

\* An export that ended leaves nothing in R2 but the file of a completed one:
\* no open upload, no carried bytes, whichever of the run, the hourly pass and
\* the user's delete came last (deleteExportObjects, abortUpload).  Handlers
\* that stopped after the end were to tidy up, and nothing does it for them.
NothingLeft ==
    AtRest /\ ~Running /\ ~torn =>
        /\ r2.upload # "open" /\ r2.pending = {}
        /\ job.status # "completed" => r2.file = None

\* An ended export leaves its file if it is completed, and only that.
EndsClean == FileWhole /\ NothingLeft

\* Every export ends: its messages may be lost or dropped, for the hourly pass
\* queues the slice again a bounded number of times and then fails it.
ExportEnds == <>(~Running)

=============================================================================
