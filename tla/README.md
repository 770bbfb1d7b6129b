# TLA+ models of saasmail

saasmail is a self-hosted mail application that runs on Cloudflare Workers: one
D1 (SQLite) database, R2 for blobs, one queue, an hourly cron, and a mail
provider behind a small interface. Its difficulty is not in any one function. Every
piece of work (a message, a newsletter, a drip, a webhook call, a retried
request) is spread over rows of that database, queue messages that may come
twice or never, an hourly pass that repairs what stopped midway, and requests
that interleave with all of them at every `await`. No transaction spans a
provider call, and few span two tables. The models in this directory are about
that: who may take a row, what is left when a handler stops between two
statements, and which later pass makes it good.

* [The system](#the-system): its parts, and what is hard about each
* [The modules](#the-modules): what each one models and how it maps to the code
* [The runs](#the-runs): what TLC checks, with which bounds and why they suffice
* [The disagreements](#the-disagreements): where the code does not do what it says
* [The proofs](#the-proofs)
* [What is not modelled](#what-is-not-modelled), and [the plan](#the-plan)

All paths are relative to the repository. To run something, in this directory:
`tlc -workers 2 -config MCOutbox.cfg MCOutbox`, `tlapm OutboxProofs.tla`,
`tlapm SendIdempotencyProofs.tla`, `tlapm CampaignProofs.tla`,
`tlapm DeliveryProofs.tla`, `tlapm JmapProofs.tla`, `tlapm SequenceProofs.tla`,
`tlapm GmailSyncProofs.tla`, `tlapm MailExportProofs.tla`.
`PROJECT.json` lists the components, the runs, for every property a mutant of
the code's definitions that breaks it, the source lines of each definition, the
hazards and the theorems.

## The system

### Inventory

| Part | State | Operations | Works with |
|---|---|---|---|
| **Outbox** (`worker/src/lib/outbox.ts`, `sending-controls.ts`, `routers/outbox-router.ts`, `outbox-router-schemas.ts`) | `outbox_emails` (status, attempts, `next_retry_at`, `pause_held`), `sent_emails.status`, the setting `outbound_paused` | `sendViaOutbox` (write ahead, attempt, resolve), `attemptOutboxRow`, `processOutbox` (hourly), `drainHeldOutbox` (queue), the retry, cancel and pause routes | every sender below; the provider; the suppression list |
| **Campaigns** (`lib/campaign-sender.ts`, `newsletter-cron.ts`, `routers/campaigns-router.ts`) | `campaigns.status`, `campaign_recipients`, the fan-out job in `async_jobs`, `campaign_fan_out` and `campaign_send` messages | start, schedule, cancel, retry; page-by-page fan-out; claim, send and record one recipient; completion; hourly reconciliation and stall sweep | the outbox (its rows are *owned*: kept after acceptance until the campaign has done its books), the queue, the cron |
| **Sequences** (`lib/sequence-processor.ts`, `enrollment-completion.ts`, `enroll-sequence.ts`, `cancel-sequence.ts`) | `sequence_enrollments.status`, `sequence_emails.status`, `sequence_email` messages | enroll, dispatch due steps (cron), process a step (queue), complete, cancel | the outbox, which settles a step it retried |
| **Delivery webhooks** (`lib/webhook-delivery.ts`, `webhook-config.ts`) | `webhook_deliveries` (claim, attempts, frozen body, generation), the settings row of the endpoint (URL, generation, run of failures, pause) | record an event, claim, freeze, POST, settle, retry, sweep, prune; save, clear, re-enable | senders and provider events (recording), the queue, the cron |
| **Send idempotency** (`lib/send-idempotency.ts`) | `send_idempotency` (status, fingerprint, created_at, stored answer) | claim, replay, take over, complete on acceptance, complete on answer, release, prune | the send routes and, through `notifySendAccepted`, the outbox |
| **One-to-one sending** (`lib/send.ts`, `send-limits.ts`, `routers/send-router.ts`, `lib/transport.ts`) | daily counters | compose, address checks, limits, provider choice | outbox, idempotency |
| **JMAP submissions** (`worker/src/jmap/submission.ts`, `release.ts`, `recovery.ts`, `on-success.ts`) | `jmap_submissions` (state, undo status, the on-success step), `jmap_drafts.submit_state`, the Sent row | create, hold, release (queue and sweep), cancel, delete, file into Sent, recover | the outbox (rows owned by `jmap`), queue, cron, the web Outbox |
| **JMAP changes and push** (`jmap/changes.ts`, `state.ts`, `event-source.ts`, the triggers) | `jmap_changes`, epochs, grants | `Email/changes`, `Email/queryChanges`, `Mailbox/changes`, event stream, prune | every writer of mail state |
| **Delivery events** (`lib/delivery/`, `lib/list-unsubscribe.ts`, `routers/unsubscribe-router.ts`) | `delivery_events`, `suppressions`, `list_members`, attributions of unsubscriptions | record an event, wait for its sent row, links of both generations and their undo, administrator's edits | outbox (suppression list), webhooks, campaigns |
| **Mail sync** (`lib/gmail/`, Outlook's) | account rows (cursor, resume point, the instance that imports), Workflow instances | hourly history sync, chunks, hand-off, giving the turn away, connect, disconnect, map, unmap | cron, Workflows, the message store |
| **Sliced jobs** (`lib/jobs/`, `lib/export/`; import, backup) | `async_jobs`, multipart uploads and carried bytes in R2 | claim, render, carry, commit and publish a slice; assemble; delete, fail, recover, expire | queue, cron |
| **Inbound, messages, contacts, notifications, agent/MCP, auth, web UI, CLI** | rows of their own | mostly one request, one row | all of the above |

Everything runs from three entry points of `worker/src/index.ts`: HTTP requests,
the queue consumer (at least once, retried when a handler throws, dead-lettered
after its last try) and the hourly `scheduled` handler, which runs its passes
one after another.

### What is hard in it

* **A row and the world.** An outbox row is written *before* the provider is
  called (so that a crash loses nothing) and deleted *after*. Between the two, the
  provider may have accepted what the database believes pending.
* **Several retriers.** A pending row may be tried by the request that wrote
  it, the hourly pass, the drain after a pause, and an administrator's retry. A conditional
  UPDATE and a lease (`next_retry_at` an hour on) decide who does.
* **Two tables, two statements.** `outbox_emails` and `sent_emails`,
  `sequence_emails` and `sequence_enrollments`, `campaign_recipients` and `campaigns`
  are written one after the other; another actor may stand between.
* **Queue messages** are delivered twice, redelivered after a crash at any
  point, or lost; the hourly sweeps and crash-redelivery guards exist for them.
* **Events without order.** A provider's bounces come twice, late, in any order and before the
  row of the message they are about.
* **Positions.** A change log's state, a history cursor, a page token: each says "I have all
  that came before", and mail, deletions, pruning and reconnections move what it stands on.
* **Bytes and rows.** An export's bytes are in R2 and their description is in D1; no
  transaction covers both, so each order of writes leaves something behind when it stops.
* **Read, then write.** Status checks of routes, completion counts and the
  cancellation of an enrollment are not in the statement that acts on them.
* **Configuration that moves.** A webhook's endpoint is replaced while deliveries
  for the former one are in flight; a campaign is cancelled while its recipients
  are queued; sending is paused in the middle of an attempt.

`PROJECT.json` lists each of these hazards at its line, with the properties
that would catch it going wrong.

### What makes each part correct

* Outbox: at most one attempt on a row at a time; nothing is sent twice except
  where the code accepts it (an attempt that died, an answer that was lost); a row
  fails only for a reason; the sent row agrees with the outbox once both are quiet;
  an owned row outlives the acceptance until its owner is done; every row
  leaves the outbox in the end unless sending stays paused.
* Campaigns: one consumer per recipient; one message per claim, and per acceptance that was lost; fan-out
  strands nobody; what was delivered is recorded; a closed campaign is really over.
* Sequences: one message per step; the step shows what happened; *retrying* means
  the outbox has it; an enrollment completes only when no step is outstanding, and
  never stops short of it.
* Webhooks: one POST at a time and a bounded number of them; the same body each
  time; the right endpoint; the run of failures counts each ended delivery once;
  every delivery ends.
* Idempotency: one key, one message; one answer; a key whose send is out is
  never free again.
* Submissions: sent once and, once taken back, not at all; the Email is always somewhere; what
  the author sees of draft and Sent row is so; everything that stops halfway is settled.
* Change log: a client that follows it misses nothing, is told of no destruction that did not
  happen, and catches up.
* Delivery events: the provider's decisions stand against links and late events, whatever the order;
  each event reaches its message and the webhook, once.
* Exports: a slice can always be run again from the row; a completed export has its file, whole;
  one that ended has nothing else.
* Sync: one import at a time; no mail is passed over; every import ends.

## The modules

Each protocol module models whole handlers, broken at the `await`s where others can
interleave: one action is one D1 statement (or batch) or one provider call.
Identifiers follow the source where TLA+ allows it. Operators whose comment begins
with "Faulty:" are not part of any specification: they are the wrong versions of
the operator below them, with which a property is shown to fail.

### Outbox.tla

One row per message, one `sent_emails` status per message, and *agents*: a
message's own inline attempt (`sendViaOutbox`), the hourly pass, the drain and a
user's retry. `Submit` writes ahead with a lease, `Admit` is the gate of an attempt
(pause, suppression, the row's own cancellation), `Transport` the provider's
answer (accepted, transient, permanent, or accepted and the answer lost), `Resolve`,
`Record` and `Confirm` what the inline sender does with it, `FirstWrite` and
`SecondWrite` the two writes of a retry; `Claim` is the conditional UPDATE that every
retry begins with. `StartCron`, `StartDrain` and `FinishDrain` run the passes; `Retry`,
`Cancel`, `Pause`, `Resume` and `Suppress` are the routes. `Die` stops an attempt at
any point.

Time is relative: `row[m].wait` is `next_retry_at` minus now. `Tick` lets a unit
pass, and does not let an attempt run longer than `RunLimit`. The assumption
`RunLimit + CoolDown < Lease` states what the code relies on without saying:
the runtime ends an attempt within minutes while its lease is an hour.
`Keyed` says whether the provider honours the idempotency key the code sends.
`Owned` messages are a campaign's.

History: `hist` keeps what really happened (provider calls, deliveries, deaths,
lost answers, refusals), which is what the properties compare the rows with.

### Campaign.tla

A campaign from draft to done. Its members are `1..Last` in the order of their
ids; the fan-out reads a page after the cursor, inserts recipients, publishes
their messages, moves the cursor and publishes the next page, as separate steps
that a replay repeats. A consumer claims its recipient (`queued`, `retrying` or
`retryable_failed` to `processing`), writes the outbox row ahead (`WriteAhead`), calls the provider (`Call`),
turns the row (`Resolve`), records the recipient (`Settle`), drops an accepted row (`Finalize`), and checks for
completion in two statements. It may stop between any two of these (`Die`; `Returned` says what becomes of its message), throw at the
provider (`Throw`), or give its message up before it has claimed anybody (`GiveUp`).

Every claim has an outbox row of its own, `row[r][k]`, and what the outbox makes of it, in steps: `OutboxTry` is the claim and
the call of the cron, the drain or a user's retry, with the answer in `try[r][k]` until `OutboxWrite` turns the row; `OutboxDie` stops in
between. `CancelRow` and `ReviveRow` are the web Outbox's cancel and retry. Any transient answer may be the last one allowed,
so attempts are not counted. A lease is modelled by what it is for: a row is not due while its first attempt runs (`Leased`), nor for the minute in
which a transient answer is recorded (`Cooling`), so that a consumer that outlasts its lease is not in the model.

The hourly pass starts scheduled campaigns, does the bookkeeping of accepted rows with the consumers' code, one row after another (`Held`, `Reconcile`;
`RowFails` when one throws), and marks stalled and overdue campaigns. A launch is the job's row with its id on the campaign, one step, and then the coordinator's
first message (`Announce`).

History: `hist[r].lost` counts acceptances that nobody lived to write down or whose answer was lost, `dropped` says that the recipient's message was given up
before the claim, `overtaken` that a user's retry of the refused row came before the refusal was recorded.

### WebhookDelivery.tla

One event's way from recording to its end. `Claim` counts an attempt and marks
the row in one statement; the result is written only while the row still bears that claim.
A claim is told from another by its time, here by its attempt number, and
`live` says whether the time is still to come. `Freeze` writes the body of the first POST, with
the message's ids if the sent row is there by then; retries use the frozen one.
The settings row carries the *generation*: a save raises it above the stored one
and every logged delivery's, and a delivery of an older generation neither is POSTed
nor counts. An *era* is the history counterpart: one period between two saves.

A save with the delivery events unticked stops them as a clear does but keeps the generation;
the model has the clear only. A recording that races a clear and a save may find
its generation in use again; its era is then taken at the insert, for it is then
the new endpoint's delivery in all the code can tell. The branch for a row without a
payload is unreachable and left out.

### SendIdempotency.tla

One key and the requests that bear it. `Claim` is the one conditional upsert
(free, expired or abandoned); `Read` the separate read of what is stored; `Accept` the
completion at once when the provider or the outbox has the message; `Answer`, `Fail` and
`Release` what happens afterwards. The claim is told by its `created_at`, here by its request.
Of the outbox a request has its own row: written ahead, leased, then
resolved or left to the hourly pass. `Slow` says whether a request may go
on for longer than the five minutes after which its key is up for takeover.

Answers kept after an unknown Gmail or Outlook outcome (`remember`) and the
fingerprint's computation are left out. A rejected send is answered 201 with status
"failed" and stored, as in the code.

### Sequence.tla

One enrollment: steps dispatched by the cron in two statements (mark queued, publish), processed
by consumers (read the step, the enrollment, the outbox; write ahead, send,
resolve, insert the sent row, mark the step, count, complete), retried by the outbox, which
settles them with the same code, and cancelled. The history variables explain the
exemptions of the properties:

* `doubt`: steps that may have been sent twice. The handler stopped
  after the provider accepted, the queue doubled the message, or two handlers settled one step;
* `revived`: steps taken up again after they ended (retried by hand, dispatched
  from a list made before a cancellation, cancelled while being sent, marked retrying by an attempt that was made again);
* `cut`: a fault left work that nothing resumes (see the disagreements).

Not modelled: the pause, two enrollments of one person, and a crash within
`enrollPersonInSequence`.

### UndoableSend.tla and Submission.tla

`UndoableSend` is the promise a submission makes: a send waits, is taken back, goes, is final or dropped
(`fate`); something that could still hand the message over may exist (`armed`); the provider has it (`out`). A send is
taken back only while it waits, and comes back to waiting only when nothing of it can leave.

`Submission` is how the rows keep it. The request (`Create`, `Schedule`, then the send), the consumer of the
release message, the hourly pass (sweep, the outbox's retry, on-success steps, unlocking, recovery) and the
author's other requests are agents, each at a point of its handler. `WriteAhead`, `Withhold`, `Transport`,
`Resolve`, the `Record...` and `FailRelease` actions are one send; `SelectStep`, `Ensure`, `Recreate`, `SettleDeleted`,
`File` and `Reveal` what onSuccessUpdateEmail does to the draft (it stays, becomes the Sent Email, or is destroyed);
`ReadClaimed` to `ReleaseClaim` and `ReadReleasing` to `SettleReleasing` the recovery. The statements that throw are actions beside
those that succeed, and `Die` stops any agent.

`Undo == INSTANCE UndoableSend WITH fate <- Fate, armed <- Armed, out <- hist.delivered > 0` is the
refinement, and `Undoable == Undo!Spec` is checked as a property of the run: `Fate` is what a client reads,
`Armed` says that a row may be tried or an agent is at the provider.

### DeliveryEvents.tla

One address, its suppression row, its membership of one list, the provider's events about it and the queue messages that bear them
(two messages may bear one event). `Deliver`, `Correlate` and `RecordEvent` are the consumer, `DelayEnds` the end of a retry's minute; `RecordEvent` is one batch: the
event's row, the suppression rule, the membership, the webhook row. `Leave`, `Return`, `LeaveList` and `RestoreMember` are
the links of both generations and their undo, `Suppress` to `RemoveMember` the administrator's edits; those that read first and write
by id do so in two steps. Scenes limit which messages and requests one behaviour has.

History: `decided` are the events whose effect an administrator has not taken back since. The exemptions the code
makes on purpose are named: an event that finds an `unsubscribe` row leaves it (`masked`), so the undo link may delete it;
a bounce that finds a membership already left leaves its reason (`missed`), so the undo link may restore it. A second
campaign's credit for an unsubscription stays when the first one's undo restores the membership.

### MailExport.tla

An export's job row, its queue messages, R2 (upload, carried objects, file), the hourly pass and the user's delete. A message of the inbox
is a position and its mbox entry one unit, so that parts and leftovers can be compared as sequences with the file there should be. `Read`,
`Claim`, `Render`, `Put`, `Commit`, `Clean` and `Publish` are a slice, `Look`, `Build` and `Close` the last one, `Tidy` and `Purge` what a
run does that finds itself overtaken, `Release`, `Fail` and `Abort` the error path. An R2 object's key (`Keys`, `Token`) is the claim that
writes it; `Put` overwrites an object of the same key. `CommitThrows` and `CloseThrows` fail a write, or make it and lose the answer. A
slice's uploads are one step. `Interrupt` is what throws outside the slice's own handler (read, claim, the next message), on the last attempt of which the job fails;
`DeleteFails` an R2 delete that fails within a run, `Die`, `DieCron` and `DieUser` one that fails, or is not reached, at the end.
A run lasts no longer than a claim, and the inbox does not change meanwhile. `torn` and
`lost` are history: a handler that was to tidy up died; a commit that was made was taken for failed.

### ChangeLog.tla

The rows of three Emails (one received, a draft that keeps its id when filed into Sent, the Sent Email shown
under its own id), the triggers' rows in `jmap_changes` (`seq`, owner or shared, whom they exclude), and one member's client. Each write of
mail state is an action with the rows its triggers write: `Receive` to `DestroyDraft`, `Submit`, `AliasDraftToSent`, `RevealSubmission`,
the two restores of a cancelled message, `UpdateSent`, `DeleteSent`. A request of the client is
`Start` (read the head of the log), `ReadFingerprint`, `ReadRows` (one page) and `ReadObjects`, with writes between any two. `OpenStream`, `CheckStream` and
`EndStream` are the event stream; `PruneJmapChanges`, `ChangeGrant`, `BumpJmapEpoch` and `LogTick` move what a state
rests on. `shown` is history: the last write that changed what the client would see.

### GmailSync.tla

Connected mailboxes with a history cursor and an import each. A mailbox's messages are numbered as they arrive; the resume point of the import is the number
of messages passed, downwards from the pinned window. `CronStart`, `ListHistory`, `SyncHistory`, `HistoryGone` and `SyncFails` are the hourly pass
over mailboxes; `Look`, `Check`, `Release`, `Claim` and `Create` are `ensureBackfillJobs`, run by the
cron, by a finishing job and by administrators' requests at once; `ReadChunk`, `FinishChunk`, `ThrowChunk`, `HandOff` and `CreateSuccessor` the Workflow job;
`Connect`, `Disconnect`, `StopJob`, `MapInbox` and `UnmapInbox` the routes. Jobs, starts, requests and passes may die. A *poison* message throws
whenever it is handled. `lost` is history: mail passed over for a reason the code accepts (an expired cursor) or overlooks (two saves over a reconnection, below).

Modules whose proofs share a module (`Submission` and `ChangeLog`, `WebhookDelivery` and `DeliveryEvents`) have no name in common,
hence `LogSpec`, `EventSpec` and the like.

### How the modules fit

`Outbox` is the detailed model of a send. `Campaign`, `Sequence`, `SendIdempotency` and `Submission` each
contain the part of it they see: the row's status, the attempts on it with the provider's answers (accepted, transient,
permanent, excluded, and an acceptance reported as transient), and what stops between its statements. Time and the budget of attempts
they leave to it: an attempt has the row to itself while it runs, and any transient answer may be the last. What they rely on is what `Outbox`
checks, and but for the last `OutboxProofs` proves: one attempt per row at a time
(`OneAttemptPerRow`), an owned row held until its owner has done its books
(`HeldForOwner`), a row charged for its calls and failed for a cause (`BudgetKept`), and every row leaving the outbox (`EventuallySettled`). The
webhooks share with the others only the sent row, whose insert is `RecordSent`; `DeliveryEvents`' `hooked` rows are the deliveries that
`WebhookDelivery` begins with, and its suppressions are `Suppress` in `Outbox`. The writes by which `Submission` files and restores a draft
are the ones whose log rows `ChangeLog` has.

## The runs

| Run | Config | Instance | States | Properties, and what they show |
|---|---|---|---|---|
| `outbox` | MCOutbox.cfg | one unkeyed transactional message; cron, drain, user; one fault | 2,693,780 | `OneAttemptPerRow`; `NoDuplicate`, but for answers that were lost; `BudgetKept`: a row is charged for its calls and fails for a cause; `SentAgrees`: sent row, outbox and wire tell one story; `TypeOK` |
| `outbox_owned` | MCOutboxOwned.cfg | one owned message; cron, user; fair | 136,112 | `HeldForOwner`: only its owner takes an accepted row away; `EventuallySettled` |
| `campaign` | MCCampaign.cfg | 2 members, pages of 1, 2 consumers, one claim each, the outbox; one fault | 2,569,489 | `OneClaimOneMessage`: one consumer for a recipient, one message for each claim and each lost acceptance; `NobodyLost`: fan-out strands nobody, nothing delivered is forgotten, a closed campaign is over |
| `campaign_ops` | MCCampaignOps.cfg | 1 member, up to two claims, 1 consumer, the outbox; one request to schedule or cancel, or one fault; retries; fair | 1,352,247 | `SentAndBooked`: both of these when a recipient whose message waits in the outbox is claimed again, and under a double start; `EventuallyRecorded`: an accepted row is recorded with its recipient, whoever stopped |
| `webhook` | MCWebhook.cfg | 1 delivery, 2 consumers, 2 endpoints, one fault; fair | 632,678 | `PostsSettled`: one POST at a time, bounded, the same body, the right endpoint; `StreakFollows`; `EventuallyEnded` |
| `idempotency` | MCIdempotency.cfg | 3 requests, 2 fingerprints, slow requests, one fault | 3,040,640 | `OneMessage`, `OneAnswer`, `KeptOnceOut`; `TypeOK` |
| `sequence` | MCSequence.cfg | 2 steps, 2 consumers, the outbox, a user; three attempts; one disturbance | 5,187,504 | `StepsTell`: once, true outcomes, *retrying* is in the outbox; `CompletionSound`; `KeepsMoving` |
| `submission` | MCSubmission.cfg | sent at once, the draft left or destroyed, or held and filed; four agents, one fault; fair | 318,158 | `SentOnce`, `EmailKept`, `StatesTell`, `Settles`; `Undoable`, the refinement |
| `delivery` | MCDeliveryEvents.cfg | scenes of events, messages and three requests; fair | 602,962 | `ProviderDecides`, `OffTheList`, `EventsReach`, `UndoIsWhole`, `EventsRecorded` |
| `export` | MCMailExport.cfg | inboxes of 1, 3 and 4 messages, two faults; fair | 975,165 | `Resumable`: one run has a slice, and what it goes on from is there; `EndsClean`; `ExportEnds` |
| `changelog` | MCChangeLog.cfg | six scenes, three views; fair | 849,318 | `NothingMissed`, `DestroyedIsGone`, `CatchesUp` |
| `gmail` | MCGmailSync.cfg | 2 mailboxes, 3 instances, seven scenes; fair | 1,122,975 | `OneTurn`, `NothingSkipped`, `ImportsEnd` |

*States* are distinct states found. Several properties are conjunctions of parts that a reader of the module will want apart
(`StepsTell` of four, `ProviderDecides` of four); but for two modules the type invariant is such a part. For each property of each run, `PROJECT.json` has a mutant: a
definition of the model replaced as a bug in the code would replace it, with which TLC finds the property violated.

### Bounds, and why they are enough

* **One message, one delivery, one enrollment, one key.** Their rows are
  independent in the code: nothing reads two of them in one statement except the
  lists of the passes, and for the outbox the theorem below covers any number. A
  campaign needs two members, so that pages, the cursor and completion
  can disagree, with pages of one so that there is a next page.
* **Two consumers** are the least that race. The claims are conditional UPDATEs of one
  row, for which a third contender is like the second.
* **Two attempts** (`MaxAttempts`): a first, a last one and what happens in
  between; more repeat the middle. Sequences have three: an attempt that delivered and stopped before it deleted its row is made again and may then be
  told to wait, which needs one more. Two failures pause a webhook, so that there is a
  failure that does not.
* **One fault** (`MaxFaults`, `MaxRepeats`, `MaxDisturbed`): one death, lost answer, failed statement or
  duplicate at any point; in `Campaign` a request to schedule or cancel counts as one. Exports have two, because the second strikes while the hourly pass makes good the first. A second fault elsewhere is
  outside the runs, but for two instances of the campaign checked apart from them, without liveness: `MCCampaignOps.cfg` with two disturbances
  (16,476,194 states) and `MCCampaignAgain.cfg`, two consumers, retries and second claims (7,051,679 states), with the same invariants.
* **`Lease` 3, `CoolDown` 1, `DrainWait` 1, `RunLimit` 1** are the smallest times with the
  order of the real ones: a minute, then a run, then an hour. In SendIdempotency `Stale` < `Lease`
  as five minutes < an hour; its real TTL of a day is shortened to the least above them. In Submission a
  tick is the recovery age, which is below the `Lease` of 2.
* **`MaxSends`** is 2 in `campaign_ops`, a claim and one after it, and 1 in `campaign`, which has two members; the
  proof is for any. **`Given`**, the answers of the provider, leaves out *permanent* in `campaign` and *excluded* (the suppression list) in `campaign_ops`,
  each of which the other has. **`MaxCopies`** stops manual retries and the sweep from adding
  messages without end. **`Day` 1** makes a stalled or overdue campaign one pass old.
* **DeliveryEvents**: a threshold of 3 soft bounces in a window of 4, so that bounces in another order than they occurred in may or may not be
  close enough; an undo window of 1.
* **MailExport**: `SliceSize` 2 and `PartSize` 3 share no multiple below 6, so slices end inside parts and parts inside
  slices; totals of 1 (no part), 3 (exactly one) and 4. One recovery and two attempts: a job can be brought back, and can exhaust both. `EXPORT_TTL` is shortened to `Idle`.
* **ChangeLog**: a day of 2 ticks, states good for 2, retention 4 (the assumption `StateMaxAge + DayLength <= Retention`
  is what the code's constants satisfy); pages of 1 and 3; a window of 3 rows. A scene bounds the writes and says which of them; the six
  together have every write, both kinds of page, a grant taken and given, an epoch, pruning, and each of the three views.
* **GmailSync**: chunks of one message, two chunks to a job and a cap of one make every boundary happen with three messages. Each scene has one kind
  of trouble: a fault with a long mailbox beside a short one; a poison message with a gap in the history; mapping and unmapping; a disconnection; a
  reconnection; a disconnection and a connection; a disconnection whose request dies. A pass that finds no instance id free gives up.
  MCGmailReconnect.cfg, beside the runs, has the one scene with a gap, a reconnection, and a chunk and a sync of before it (1,191,610 states).
* Symmetry is used over consumers and over requests, in runs without temporal properties only.

`CHECK_DEADLOCK FALSE` in every config but Gmail's: each of these systems comes to rest when its message, campaign,
delivery, enrollment or export is over. Gmail's cron never does, so there deadlock is checked.

### Fairness

* `Outbox!FairSpec`: code that runs goes on or dies (the runtime ends it), the cron fires, the queue
  delivers, time passes. Nothing is assumed of users, administrators or the provider:
  every call gets *an* answer, which may be transient each time. `EventuallySettled` is
  therefore about the budget, and excludes only sending that stays paused.
* `Campaign!FairSpec`: the hourly pass fires again and again (strong fairness, since it is enabled only between
  two of its runs) and goes on once it runs. Consumers are owed nothing: the reconciliation is there for those that stop.
* `WebhookDelivery!FairSpec`: some consumer takes a waiting message; attempts go on; claims end, rows
  ripen and fall due; the sweep runs. No fairness of saves, re-enables or the endpoint.
* `Submission!FairSpec`: the request, the queue, the user's restore and the cron's run go on once begun (weak); the cron begins its sweep and
  its recovery again and again, an owed restore is made, and time passes (strong: other agents' runs disable them for a while). Not the author's cancel or the
  administrator's retry, nor that sending is ever resumed: `HeldEnds` supposes it is.
* `DeliveryEvents!EventFairSpec`: the queue hands its messages over. Requests are never owed.
* `MailExport!FairSpec`: runs go on or die, messages arrive, the hourly pass fires, a delete once asked goes on or stops, time passes.
  Nothing says a message is not lost or a run does not die, the fault bound apart.
* `ChangeLog!LogFairSpec`: the client goes on with its request, opens a stream again after it ended ("retry:" in the stream), and a
  stream ends (it lives five minutes at most). `CatchesUp` holds when writers and administrator have stopped, which the scenes' bounds make them do.
* `GmailSync`: the cron fires hourly, its syncs go on, the Workflow runtime drives its instances, and each kind of run of `ensureBackfillJobs` goes on
  unless it dies. Administrators owe nothing.
* `Sequence` and `SendIdempotency` state no liveness. `Sequence!KeepsMoving` is the safety half of it:
  in no reachable state is an active enrollment without anything that would move it.

## The disagreements

Where the code does not do what its comments or documents say, or what one would expect of it. The properties of
the runs name each as an exemption. Four have a config of their own beside the runs, with the property as the comment has
it; TLC finds it violated:

* **MCOutboxStuck.cfg, `NoStuckRetrying`.** `outbox.ts:314-319` keeps retries off a new row so that no sent row is left
  retrying. A message held by the pause may be cancelled (`outbox-router.ts:548`)
  before its sender has inserted the sent row; the sender then inserts it as `retrying`, and
  nothing will ever change that.
* **MCCampaignStall.cfg, `StallSurfaced`.** The stall sweep (`newsletter-cron.ts:43`, `:96`) goes by `updated_at`, which the
  hourly refresh of statistics itself renews (`campaign-sender.ts:788`): a campaign that stopped moving is not surfaced.
* **MCGmailStarved.cfg, `OthersImport`.** `backfill-job.ts:328` says a mailbox stuck on a bad message is retried only when nothing
  else is waiting. It is told apart by its error, which the sync earlier in the same hourly pass has cleared
  (`sync.ts:1152-1160`): it is the oldest again and gets the turn each hour, and the others' imports wait for good.

* **MCSubmissionUnlocked.cfg, `InFlightLocked`.** A draft whose send is still in flight is locked (`docs/jmap.md:209`). The hourly recovery
  accepts a submission whose outbox row is pending and queues its draft in two statements (`recovery.ts:180-184`). When the second one fails the
  error is caught, and the on-success step of the same pass finds the submission accepted and its draft *submitting*, and unlocks it
  (`on-success.ts:396`), while the outbox still tries the message: it can be submitted again. It takes two faults, one to need the recovery
  (`hist.unlocked`, which `StatesTell` exempts).

The others are exemptions of properties, or said in comments of the modules:

* A duplicated `campaign_send` message for a recipient whose row the outbox has claims it again, since
  `retrying` is claimable, and sends a second message (`OnePerClaim` counts claims; `NothingForgotten` is about the first).
* A handler that stops between the provider's acceptance and the row's update (`outbox.ts:288`, `:604`), or whose answer is lost, leaves a pending
  row, which is sent again under the same claim, cancelled or dropped as suppressed (`hist.lost`, which both `OnePerClaim` and `NothingForgotten` count).
  As long as it is not, the recipient is *processing* although it has its message.
* "Every step is safe to repeat" (`campaign-sender.ts:379`) is not so of the claim: a handler that stops between it and the write-ahead, or whose row is then cancelled, refused in the
  outbox or dropped as suppressed, leaves a recipient *processing* (or *retrying* without a row). Redelivery skips a *processing* one (`campaign-sender.ts:345`), the retry route
  does not list it (`campaigns-router.ts:909`), and no pass looks for it: the campaign does not complete.
* A `campaign_send` message whose last try fails before the claim (`queue-router.ts:204`) leaves a *queued* recipient without a message (`dropped`). POST /retry would
  queue it again, but is allowed only once the campaign is stalled, which the stall sweep (above) can put off for good.
* A refusal is in the row (`outbox.ts:333`) before it is with the recipient (`campaign-sender.ts:489`). A user who retries the row in between
  may have it delivered, and the refusal is recorded over it (`overtaken`).
* A retry by the outbox re-arms its row before it marks the sent row (`outbox.ts:626`): a second attempt that ends between the two is overwritten, and
  an attempt that stops between them leaves the two rows apart (`raced` and `died`, which `SentAgrees` exempts).
* A send request that dies between its write-ahead and its acceptance leaves a pending outbox row; its key is taken over after five
  minutes and the message is sent again, while the hourly pass still delivers the first (`Exempt` in `SendIdempotency`).
* A fault between a step's end and the completion of its enrollment leaves the enrollment active with nothing outstanding: the
  redelivered message finds the step settled and returns early (`cut` in `Sequence`).
* An attempt of the outbox that delivers a step's message, completes the enrollment and stops before it deletes its row (`outbox.ts:612`) is
  made again; on a transient answer it marks the step *retrying* (`outbox.ts:640`) under an enrollment that is completed (`revived`).
* The undo link restores a membership whatever removed it, a bounce and a complaint apart: also one the
  administrator removed (`list-unsubscribe.ts:168`).
* `emailQueryChanges` (`emails.ts:1138`) and `docs/jmap.md:275` say a write during the answer is never missed. An Email
  created after the head was read and before the rows are is reported, under a state that precedes it; if it is destroyed before the client asks again,
  its create and destroy cancel out (`changes.ts:264-266`) and the client keeps it (`ghosts`; `NeverMissed` states the promise).
* A chunk under way when its mailbox is reconnected saves its old resume point by account id alone (`backfill.ts:69-83`) over the import that
  the reconnection has just reset (`admin-gmail-router.ts:288-290`): the messages between are never imported (`lost` in `GmailSync`).
* A sync under way at a reconnection saves its cursor by account id alone, too (`sync.ts:1192-1195`), over the one the reconnection read earlier
  and writes later (`admin-gmail-router.ts:264-304`). That mail is ahead of the restarted import, unless a chunk of before finishes that. The proof asked for this case;
  it needs an expired cursor besides, or the mail would have been synced, and MCGmailReconnect.cfg has it.
* An instance that is claimed and not yet created is taken for dead by another pass, since its status cannot be read: for a short time two jobs may walk one
  mailbox. `OneTurn` is about the claims.
* Abandoning a submission (`recovery.ts:105`, `:106`) that stops between its two statements leaves the draft locked with no
  submission by which a later pass would find it. It takes two faults, one to need the recovery and one within it; the runs have one.
* A last slice that outlasts its claim of two minutes may take the file of a run that replaced it for an orphan and delete it
  (`mail-export.ts:494`). `MailExport` supposes that a run does not.
* The last attempt of a doubled slice message that fails at its read or its claim fails the whole export (`queue-router.ts:326`), also when another run has the slice and is
  getting on with it. `EndsClean` holds nevertheless.

## The proofs

`OutboxProofs.tla` holds, for every set of messages, every set of passes, every bound and every
length of the lease that satisfy the assumptions of `Outbox.tla`:

* `TypeCorrect`: `Spec => [](TypeOK /\ JobShape)`. `TypeOK` is the type invariant the runs check.
  `JobShape` says that an agent in an attempt works on a message, and an inline one on its own.
* `MutualExclusion`: `Spec => []OneAttemptPerRow`.
* `SentOnce`: `Spec => []NoDuplicate`.
* `OwnersRowKept`: `Spec => HeldForOwner`, an action property.

`OneAttemptPerRow` is not inductive: nothing in it stops a retry from claiming
a row whose holder is still calling the provider. The strengthening, `LockInv`, says why that
cannot happen. Its main part is `Leased`: while an agent owns `m`, its row is pending and `row[m].wait + job[a].age >= Lease`,
where `age` is how long its attempt has run. `Tick` takes a unit off the one and adds it to the
other, and lets no attempt grow older than `RunLimit`; so by `RunLimit + CoolDown < Lease` the
row of an owner (lemma `OwnedRow`) is neither due, which a claim needs, nor cancelable.
`Unsent` and `Unanswered` say where a new message and a fresh claim stand, and `OneOwner` is the
property over owners. `LockTake` and `LockFrame` are the two kinds of step: one that takes a free
row for a whole lease, and one that gains nobody a row. There is one step of the proof per action.

`NoDuplicate` needs a second invariant on top of `LockInv`. A message is `Out` when it was delivered more often than its
answers were lost: somebody was told. `OutInv` says that such a message is beyond the reach of a further attempt: its
row is gone, or held for its owner, or still owned by the agent that was told (`Told`). Its lemma `NotOut` turns this around:
what is due, or in the hands of an agent that has not been told, is not out, so that one more delivery is within the bound.
`OwnersRowKept` goes over the same actions: a row held for its owner is neither new, due, cancelable nor owned, so only
the owner's `Confirm` writes it, and that leaves a `sent_emails` row.

* `BudgetAlways`: `Spec => []BudgetKept`. What a row at rest was charged is no invariant while attempts run, because the two kinds
  of attempt count at different moments: a pass when it claims the row, before the call, and a first attempt when it resolves it,
  after the call. `BookInv` says for each where it stands: `Ledger` compares a number with the calls made, give or take the attempts that died;
  `FirstBooked` and `PassBooked` say which number that is before and after the provider's answer (`Called`), `RestBooked` that it is the row's own
  when nobody owns it. `job[p].last`, by which a pass gives a row up, was computed from the count it wrote (`PassBooked`), and a refusal is heard
  before it is acted on (`Heard`); `GivenUp` follows.
* `StoryAgrees`: `Spec => []SentAgrees`. A message's row and its sent row are written one after the other, so nothing can be said of either
  alone while an agent is between its two writes. `Worker` is an agent from its claim to its second write; `OneWorker` holds of every message `Apart` from those the
  property exempts (owned ones, deaths, races), and `FirstTells`, `PassTells` and `RestTells` say what the two rows show under a first attempt, under a pass
  and under nobody. A retry by hand puts a failed message back among the pending before it claims it; `Awaited` and `UserTurn` are about that moment. The
  first attempt relies on time once more: between its two writes it is younger than `CoolDown`, so that the row it leaves pending is not yet due
  for another agent when it inserts the sent row.

Assumptions: `MailAssumption` (names are distinct), `TimeAssumption` (above), `KeyedAssumption`.

`SendIdempotencyProofs.tla` holds, for any number of requests and fingerprints, with slow requests or without, any
times with `Stale < Lease` and `Stale < TTL`, and any number of faults (`KeyAssumption`):

* `TypeCorrect`: `Spec => []TypeOK`
* `OneMessagePerKey`: `Spec => []OneMessage`
* `OneAnswerPerKey`: `Spec => []OneAnswer`
* `KeptForGood`: `Spec => []KeptOnceOut`

One inductive invariant, `IInv`, carries all of them. None of the three is inductive, because none says anything of the
requests that are still on their way. `RunInv` does: *a request that runs owns the key, unless it
was overtaken, expired or stopped in doubt* (`Exempt`). So two requests that are both not exempt cannot both be
running, and a late one fails the `Ours` test of its completion or release. `OutInv` says the same of messages that are out, and that
the key is completed once the request was told; a completed key is never up for takeover (`Abandoned`
looks at pending ones). `RowInv` is what a request that answers without a message relies on to release its key:
its row is gone or failed, and while it sends nobody else takes the row, because its lease runs. `AnswerInv` ties every answer given
to the stored one, `KeyInv` and `TryInv` are the bookkeeping. `Consequences` derives the properties; one lemma
per action, one step per conjunct, keeps the invariant. TLC also finds `IInv` to hold on the `idempotency` instance.

The theorems say how far the takeover of a key can go wrong: requests overtaken or stopped between write-ahead and
acceptance are, expiry apart, the only exemption.

`DeliveryProofs.tla`, first part, holds, for any deliveries and consumers and any bounds that satisfy `WebhookAssumption`:

* `SettledOnce`: `Spec => []PostsSettled`: the types, one POST at a time, no more POSTs than
  the row counted attempts, one body for all of them, and one endpoint.
* `StreakCounts`: `Spec => StreakFollows`, an action property.

The invariant is `IInv == Types /\ PostsInv /\ GenInv`. `Distinct` keeps the attempt numbers of consumers on one
delivery apart, and `LiveInv` ties a claim that still runs to the row that bears its number; from the two follows that a POST
in hand is the only one. `PostInv` counts the POSTs made against the attempts, `BodyInv` ties every body sent to the
one frozen in the row, `EraInv` every endpoint reached to the row's. `GenInv` is about the configuration's generation, which the code computes as one more than
the greatest of the stored one and those of the logged deliveries (`webhook-config.ts`): a generation is never greater than the number of
endpoints there have been, and a logged row of another endpoint never has the one in force. That step needs the maximum of a bounded set (`BoundedMax`, by
well-founded induction on the naturals), hence `NextGenerationAbove`. Two frames (`PostsFrame`, `GenFrame`) dispose of the
steps that POST nothing; recording, claiming, reading the settings, freezing, POSTing and saving have a lemma each. `StreakCounts`
uses that a delivery's end and the run of failures are written in one step, by at most one consumer. TLC finds `Types`, `PostsInv` and
`GenInv` to hold on the `webhook` instance as well.

`DeliveryProofs.tla`, second part, is about `DeliveryEvents`: any finite set of events, any messages, campaigns and requests, any threshold and windows, and any
number of repeats (`EventAssumption`, `SceneAssumption`, `BoundAssumption`):

* `ProviderDecidesHolds`: `EventSpec => []ProviderDecides`; `OffTheListHolds`: `EventSpec => []OffTheList`; `EventsReachHolds`: `EventSpec => []EventsReach`.
* `UndoIsWholeHolds`: `EventSpec => UndoIsWhole`, an action property.

The invariant is `EventIInv == EventTypeOK /\ SuppressionInv /\ StruckOff /\ EventsInv`. That the address is suppressed is not inductive,
for an undo link deletes some rows: what a decision needs is a row that is *firm*, neither absent nor `unsubscribe` (`DecisionsFirm`), and
the same of any full window of soft bounces of which an event still counts and none met an `unsubscribe` row (`WindowFirm`). The step that
matters is the last event of a window: `SoftBounceRule` looks from the anchors of the event that arrives, whichever of the window's events
that is, so a full window that holds it has its earliest member among them (an argument by the least of a set of numbers, and the
cardinality of a subset), and conversely a rule that fires has a full window (`WindowCaused`). `StruckOff` says of a struck membership also
*why* it ended, since that is what the undo's two statements test. `EventsReach` rests on the handlers: one that found no sent row is at its
second attempt (`LateHandler`), so its event is none of those whose row came in time (`LateAlone`, `NoneEarly`).

`CampaignProofs.tla` holds, for any list, page size, consumers and bounds that satisfy `CampaignAssumption`:

* `SentPerClaim`: `Spec => []OneClaimOneMessage`: the types, one sender per recipient, and no more messages than claims and lost acceptances.

The invariant is `IInv == Types /\ Remembered /\ SendInv`. `OneSender` alone is not inductive: `Claimed` adds that the recipient
somebody sends to is *processing*, or *sent* when the hourly pass recorded it meanwhile, neither of which can be claimed, that
the sender's number is the last one counted, and that the row of that number is yet to be written, or pending with nobody else trying it. `Rows` says that
a number not yet claimed has no row, and that who tries a row finds it pending until it writes. A recipient's claim is `Done` when its row is gone or
held for the bookkeeping and no consumer is before its outcome; `Spent(r)` are those claims and the ones whose acceptance is in somebody's hands (`Accepts`), which
can deliver nothing more unless that somebody stops. `Delivered` bounds the messages by their number and by `hist.lost`, and `Counts` lists the four ways a step may keep it: nothing is delivered;
a delivery spends a claim; it is lost at once; an acceptance is lost and its claim may deliver again. `Listed` is about the hourly pass: what it has read, and what
a worker is recording, is done. `SendStill` disposes of the steps that touch no send; for the others there is one frame for steps about one row (`OnlyRow`, `Leaves`) and a lemma
each for claiming, attempting, the outbox's steps and settling. TLC finds the three parts to hold on the campaign's instances.

* `NobodyEverLost`: `Spec => []NobodyLost`, and `ClosedSoundly`: `Spec => []CompletionSound`.

On top of `IInv` these need `LostInv == Enumerated /\ TellInv /\ Closing`. `Enumerated` is what makes the enumeration
crash-safe: whoever is behind a cursor, be it in the job's row or in a consumer's memory, is a recipient and, if nothing was sent to it, has
a message in the queue, or was given up. Its proof goes by `NobodyDrops` (whoever is in stays in, at any step) and `ShortPage` (a page shorter than
`PageSize` leaves nobody after it, hence `completed` means everybody). `TellInv` is `Refused` and `Told`. `Refused` says that a consumer on
a first claim, before any acceptance, has the message to itself: nobody accepts, lists or records it, and an outcome other than a wait has left no row to try. `Told` says
that a message that was delivered, and not lost, is told by its recipient or by its row, and that a row is finalized only behind a recipient that says *sent*.
Both are about a recipient's first claim, as the
property is: a second claim, which a duplicated message makes of a recipient that the outbox is retrying, is one of the disagreements above.
`Closing` says that a campaign is closed, or a worker is about to close it, over settled recipients; between the count and the close other
workers run, and `SoundStays` says that none of them unsettles anybody but by a further claim or by a row revived before its refusal was recorded. TLC finds `LostInv` to hold on the campaign's instances.

`JmapProofs.tla`, first part, holds for every form of a submission, any times and budget that satisfy `FormAssumption` and `TimeAssumption`, and any number of runs that die, statements that throw and
answers that are lost :

* `SentOnceAlways`: `Spec => []SentOnce`: one sender at a time, no more deliveries than one and the lost answers, and none of what was taken back.
* `EmailKeptAlways`: `Spec => []EmailKept`: the Email is in Drafts or in Sent.
* `StatesTellAlways`: `Spec => []StatesTell`: a draft that may be submitted again has no send under way, and the Sent row says what the outbox has.
* `Implements`: `Spec => Undoable`: the rows implement `UndoableSend`, initial states to an initial state and every step to one of its steps or a stutter.

The four agents are kept apart by four different means, none of which shows in the properties, and the invariant `IInv == TypeOK /\ Shape /\ Stages /\ Leases /\ Counts /\ Places` states each:
the row's lease (`Leases`: whoever is at the provider, or was told by it, has a pending row leased for long, and no other is there), the claim of a release (`Stages`: at most one run of
it, under a *releasing* submission), the age the recovery waits for (`Stages`: it works on a submission that no request can still be working on), and a retry by hand,
which may outlive its row, of a submission that is over (`Over`). `Counts` is about messages: an attempt begins only when none is out (`Clean`), and one that is out is told by a row held
for its owner, by the absence of a row, or by an agent that is about to write. `Places` follows the Email through filing, destroying and restoring. `Shape` says which agent may be at which point of
which task; most steps change one agent and one row, and `Calm` and the lemmas for each kind of write dispose of what they leave alone.

The refinement is proved from the same invariant: `UndoMoves` lists the ways in which a change of `Fate`, `Armed` and the deliveries is a step of the promise, and every action is shown to be one of them.
That a send comes back to waiting only when nothing of it can leave is `Armed` being false then, which is `Leases` and `Counts` for the agent that puts it back.

`StatesTell` has an invariant of its own over `IInv` (`TInv`), because the rows agree only between the statements of whoever is changing
them. `Locks` and `ByItself` are about the draft: as long as there is a row to try, the draft is locked by its request, queued, or about to
be queued by the recovery, and without a revival by hand a dropped or refused submission has no such row. `Recovers` is what the recovery has
read and may still rely on, since nobody else can move an accepted row of a claimed submission, or make a row where there was none. `Calls`
is about the Sent row of a submission that no two runs worked on at once (`Undisturbed`): a retry that has taken the row and a run that
settles the submission by what it read are apart (`Apart`), so what each read or wrote first still stands when it writes the other row
(`Reads`, `WrittenTells`), and between such pairs the two rows agree (`Story`). That `hist.raced` is raised whenever an agent takes a row
another has read (`Alone`) is what keeps `Apart`. Most steps are `Quiet`: they touch nothing of this but the draft.

`JmapProofs.tla`, second part, is about `ChangeLog`, for any numbers of writes, days and pages, any window, and any times with `StateMaxAge + DayLength <= Retention`:

* `NothingMissedHolds`: `LogSpec => []NothingMissed`: what a client holds wrongly under a state that would be accepted is reported past its position, ghosts apart.
* `DestroyedIsGoneHolds`: `LogSpec => DestroyedIsGone`, an action property: what an answer says is destroyed the client cannot see.

The invariant `LogInv` says what a state stands for at any moment between two requests. `LogShape`: rows are numbered as they are written,
and later ones are no older. `StoreShape` ties `shown` to the rows. `LogTells`: the last row about an Email that concerns the client says
whether it sees it. `ClientShape`: the rows past a position are no older than the day the position was issued (`Follows`), and while it is
in date every Email is *Good*: the client's copy is right, or a row past the position reports it, or it is a ghost. `RequestShape` says the
same of a request between its statements, over the Emails it has not yet to fetch. Pruning takes rows older than `Retention` only, and those
are no position's that is still in date. A writer's rows (`News`) report what they change to everyone who sees a change; a page's end is
past every row of the ids it reports; and what was created and destroyed within a page cancels out, which is where ghosts come from.

`SequenceProofs.tla` holds for any number of steps and of consumers, any budget of attempts and any number of disturbances (`SequenceAssumption`):

* `StepsTellAlways`: `Spec => []StepsTell`: a step goes out once, at rest it shows as sent just when it was, and *retrying* is in the outbox.
* `CompletedSoundly`: `Spec => []CompletionSound`, and `AlwaysMoving`: `Spec => []KeepsMoving`.

The invariant is `IInv == Types /\ Ids /\ (\A s \in Steps : Sound(s)) /\ Counted` (`IInvAlways`). `Types` says who can stand where, and
`Ids` whose send is whose: a send has one agent, apart from *guests*, consumers that found their step in the outbox, and its row stands
while that agent counts on it. `Sound(s)` is three parts about one step, each for as long as no disturbance has exempted it. `Solo`: a step
is in one place, a message, a handler or a row, which is why the guard against redelivery suffices. `Told`: what was delivered is known, to
the agent that is about to record it or by the step. `Moved`: an unfinished step has something that will move it. `Counted` is about the
enrollment: between the count and the completion, and after it, no step is outstanding but the revived ones, and while it is active a step
is outstanding or somebody is about to look.

Two frames carry the proof from one step to the others: what an agent does to its own step leaves another's `Sound` alone (`AwaySound`), and what happens outside
a step's messages, handlers and rows leaves that step's alone (`LocalAway`, `LocalSound`). `Writers` lists who changes a step's status, `LateMoves` and `StaysSettled` say that nobody but a revival takes a
settled step back. The proof found a case the run had missed with two attempts, an outbox attempt made again after it delivered, now in `revived` and in the instance.

`GmailSyncProofs.tla` holds for any finite number of mailboxes and of instance ids, any sizes of chunk, job and cap, any mail, and any number of faults, gaps and requests
(`SceneAssumption`, `SizeAssumption`):

* `OneTurnAlways`: `Spec => []OneTurn`: no two unfinished imports are claimed, and the types.
* `NothingSkippedAlways`: `Spec => []NothingSkipped`: mail of a connected mailbox is stored, ahead of the cursor or of the import, or `lost`.

The invariant is `IInv == Types /\ OneHolder /\ Within /\ Covered` (`Invariant`). `OneHolder` needs nothing of the others but the types:
what a run of `ensureBackfillJobs` has seen may be as old as it likes, because the claim's own statement looks at every row (`TurnIsFree`),
and a hand-off replaces the instance of the row that has the turn already. `NoNewHolder` is said of every other step. `Covered` is why
nothing is skipped: mail that is behind the cursor and neither stored nor lost (`Unread`) is ahead of the import, and also below the top of
a chunk that is in the hands of the row's own job (`Imports`). The second half is what makes a chunk's save sound, since it moves the resume
point by what the job read some steps ago. A row's claim given to a dead instance (`FreshJobIn`) is in nobody's hands yet. `Within` keeps
cursors, heads and windows within the mail there is. Nearly all steps are `Calm`: they leave the import where it stands and move the cursor
only over mail that is stored or given up (`Keeps`). The exceptions have a proof each: a chunk that begins, a chunk that ends, and a row
that is written anew. `Newest` and `OldestFirst` say which messages a chunk and a sync handle, down to or up to the one that throws, and how
many they are.

`MailExportProofs.tla` holds for inboxes of any size, slices and parts of any size, any places in the queue, and any number of attempts, recoveries and faults (`ExportAssumption`, `NoneAssumption`):

* `ResumableHolds`: `Spec => []Resumable`: one run has a slice, and what the row names is in R2 and makes up the messages before the cursor.
* `EndsCleanHolds`: `Spec => []EndsClean`: a completed export's file is the whole inbox, and an ended one leaves nothing else.

The invariant is `IInv == TypeOK /\ RowShape /\ RunsInv /\ BytesInv /\ EndInv` (`Invariant`). The protocol hangs on the claim's name,
`Token(m)`: message, slice and delivery, which no two runs share (`TokensApart`). `HoldingOf`: a run between its claim and its commit has
the row's params exactly as it wrote them, name included, hence it is alone (`Alone`, `OneHolds`), and `StillClaimed` in its last statement
fails only when the job has ended. `OlderOf` is for the others: what they have read is no newer than the row, and a slice number never comes
back. Carried bytes are named after the slice that left them (`Numbered`), so that a run which deletes the bytes of the slice before does
not delete those the row names now.

`RowHolds` and `RunHolds` are about content: the parts joined, and the carried bytes after them, are `1 .. cursor`; a run's own go on from
there, and are in R2 before the commit that names them. The lemmas for it (`WholeAndLeftover`, `FlattenAppend`, `UploadedHolds`) are about
cutting and joining sequences. `FlattenSeq` is defined by a recursive function, of which the prover knows nothing until it is shown to
exist; the least length without one would be a contradiction (`JoinedExists`), and the same argument takes the place of induction in
`JoinedSteps` and `JoinedAlike`.

`NothingLeft` speaks of rest only. `Tidying` says it of every moment after the end: each thing left in R2 has somebody who is on the way to
take it away, a run, the hourly pass or the user's request, unless one of them stopped (`torn`). It is stated for kinds of step: work on a
running job (`WorkKeeps`), writes to R2 (`ObjectsKeep`), steps that pass the duty on (`TidiersKeep`) and the steps that end the job
(`EndedKeeps`). TLC finds `IInv` to hold on the `export` instance.

All assumptions are named ASSUMEs that TLC evaluates in the runs. `TimeAssumption` of `Submission` includes `CoolDown < Lease`, a minute against an hour in
the code: a row that is put back after a transient answer would otherwise look like one still leased.

Model-checked only, on the instances above:

* The liveness properties (`EventuallySettled`, `EventuallyRecorded`, `EventuallyEnded`, `Settles`, `EventsRecorded`, `ExportEnds`, `CatchesUp`, `ImportsEnd`): fairness
  and ENABLED are beyond the prover.

No module here declares a recursive operator.

## What is not modelled

* Rendering, parsing, addresses, attachments, MIME and wording, throughout.
* The provider itself: an answer is a free choice among the code's four classes.
* The suppression list's contents: a message's recipient may become suppressed at any time.
* Marketing sends to several recipients in one call (`send.ts`), one transport call per recipient.
* The five-second cache of the pause: the model reads the setting itself. The lag is documented
  in the code and bounded.
* Throws without end in the hourly pass (`outbox.ts:374`), the cancel of a campaign against its queued sends
  (`campaign-sender.ts:387`) and the unconditional *sending* of its first page (`:192`), the per-recipient keys of a marketing send whose recipients change
  (`send.ts:302`), a cancelled enrollment shown completed (`enrollment-completion.ts:33`), two requests enrolling one contact (`enroll-sequence.ts:165`).
* Of JMAP submissions: a second submission of a draft, pruning, the drain. Of the change log: `Thread/changes` and
  `EmailSubmission/changes`, custom mailboxes and the folder-delete trigger, `Mailbox/changes` over more than `maxChanges`, `closeafter=state`, the conditional writes on a state
  (`email-set.ts:589`, `:735`) and `ifInState`, and which ids a client reads again.
* Of delivery events: which events an endpoint wants, the erasure of a contact, importing a list, copies' ids, and dropping a message after its retries.
* Of sync: Outlook's delta sync (its imports share the job's code), the import without a Workflow binding, deletions that shift pages, history records of
  several messages, the mirroring of sent mail, two hourly passes at once, a step that runs on after its timeout.
* Import and backup, which use the slices' protocol with other data; the guard of one export per inbox.
* Inbound mail, messages and threads, contacts and lists, notifications, authentication, the agent and MCP tools, the web
  application and the command line: requests over single rows, user interface, or libraries. These are most of the repository's lines.

## The plan

The safety properties of the runs are proved. Next are modules:

1. `SendLimits`: the daily counters, reserved before a send and given back after it.
2. `AgentApproval`: a proposed action, its approval by a member, and its execution once.
3. `ListImport`: pages of a list as a sliced job; with it an abstract `SlicedJob` that it and `MailExport` implement.
4. `Inbound`: one message through matching, rules and insertion, with the redelivery of its event.
