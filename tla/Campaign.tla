------------------------------ MODULE Campaign ------------------------------
(***************************************************************************)
(* A newsletter campaign from draft to done: the routes and the hourly     *)
(* pass that start, cancel, sweep and retry it (campaigns-router.ts,       *)
(* newsletter-cron.ts), the coordinator that enumerates the list a page at *)
(* a time and the consumers that send to one recipient each                *)
(* (campaign-sender.ts).                                                   *)
(*                                                                         *)
(* A handler that reads a status and then writes one takes two steps, and  *)
(* so does one that writes two tables.  Of the outbox, the subject of      *)
(* module Outbox, each send has its row, the attempt on it and what may    *)
(* stop in between; attempts are not counted, so any of them may be the    *)
(* last, and leases are the absence of whoever took them.                  *)
(***************************************************************************)
EXTENDS Integers, FiniteSets

CONSTANTS
    Last,          \* the members of the list are 1..Last, in the order of their ids
    PageSize,      \* FAN_OUT_PAGE_SIZE
    Consumers,     \* the queue consumers that can run at once
    Ops,           \* the requests administrators make besides sending
    Given,         \* the answers the provider gives
    Day,           \* STALL_SECONDS and OVERDUE_SECONDS, in hourly passes
    MaxSends,      \* bound of the model: sends to one recipient
    MaxCopies,     \* bound of the model: messages of one recipient a retry may add to
    MaxDisturbed   \* bound of the model: handlers that die, answers that are lost,
                   \* messages that are lost or duplicated, requests to schedule or cancel

\* What sendWithSuppressionCheck tells its caller.  "transient" stands for
\* mail held by a pause as well, "excluded" for a suppressed recipient.
Answers == {"accepted", "transient", "permanent", "excluded"}

ASSUME CampaignAssumption ==
    /\ {Last, PageSize, Day, MaxSends, MaxCopies} \subseteq Nat \ {0}
    /\ MaxDisturbed \in Nat
    /\ Ops \subseteq {"schedule", "cancel", "retry"}
    /\ Given \subseteq Answers
    /\ "cron" \notin Consumers

Members == 1..Last

\* Who starts a campaign; each start has a fan-out job of its own.
Starters == {"admin", "cron"}

\* The hourly pass does the bookkeeping of a row with the consumers' code.
Workers == Consumers \cup {"cron"}

VARIABLES
    status,     \* campaigns.status
    age,        \* hours since campaigns.updated_at
    due,        \* hours until campaigns.scheduled_at
    job,        \* async_jobs: the fan-out job of each starter
    rcpt,       \* campaign_recipients
    row,        \* outbox_emails: status of the row of each send to each recipient
    try,        \* the answer an attempt of the outbox on that row has and not yet written
    delivered,  \* messages each recipient got
    fanq,       \* campaign_fan_out messages in the queue, by job
    sendq,      \* campaign_send messages in the queue, by recipient
    held,       \* the accepted rows the hourly pass has listed and not yet reconciled
    act,        \* what the administrator and the hourly pass are doing
    con,        \* what each consumer, and the hourly pass on one of its rows, is doing
    hist,       \* history of each recipient: acceptances nobody lived to write down,
                \* its message given up before the claim, its refusal overtaken
    disturbed   \* handlers that died, and so on, so far

mail == <<row, try, delivered>>
books == <<rcpt, mail>>
queues == <<fanq, sendq>>
past == <<hist, disturbed>>
vars == <<status, age, due, job, books, queues, held, act, con, past>>

Open == {"preparing", "sending"}
Closed == {"sent", "completed_with_failures"}
Statuses == Open \cup Closed \cup {"draft", "scheduled", "overdue", "stalled", "cancelled"}

\* ALLOWED_TRANSITIONS
Allowed == [send     |-> {"draft", "scheduled", "overdue"},
            schedule |-> {"draft", "scheduled"},
            cancel   |-> {"draft", "scheduled", "overdue", "preparing", "sending"},
            retry    |-> {"stalled", "completed_with_failures"}]

Claimable == {"queued", "retrying", "retryable_failed"}
Settled == {"sent", "suppressed", "permanent_failed"}

Idle == [pc |-> "idle", seen |-> "none", todo |-> {}]
Free == [pc |-> "free", of |-> "none", r |-> 1, k |-> 1, cursor |-> 0, seen |-> "none"]

Sends == 1..MaxSends

TypeOK ==
    /\ status \in Statuses
    /\ age \in 0..(2 * Day + 1)
    /\ due \in (0 - Day)..1
    /\ job \in [Starters -> [status : {"none", "running", "completed", "cancelled"},
                             cursor : 0..Last]]
    /\ rcpt \in [Members -> [status : Settled \cup Claimable \cup {"none", "processing"},
                             attempts : 0..MaxSends]]
    /\ row \in [Members -> [Sends -> {"none", "pending", "bookkeeping_pending", "failed"}]]
    /\ try \in [Members -> [Sends -> Answers \cup {"none"}]]
    /\ delivered \in [Members -> Nat]
    /\ hist \in [Members -> [lost : Nat, dropped : BOOLEAN, overtaken : BOOLEAN]]
    /\ fanq \in [Starters -> Nat]
    /\ sendq \in [Members -> Nat]
    /\ held \subseteq Members \X Sends
    /\ act \in [Starters -> [pc : {"idle", "send", "prepared", "launched", "schedule",
                                   "cancel", "jobs", "retry", "requeue", "reconcile",
                                   "fire", "sweep", "refresh"},
                             seen : Statuses \cup {"none"}, todo : SUBSET Members]]
    /\ con \in [Workers -> [pc : {"free", "mark", "page", "publish", "advance", "next",
                                    "claimed", "written", "suppressed", "retrying",
                                    "failed", "sent", "finalize", "check", "close"}
                                   \cup Answers,
                              of : Starters \cup {"none"}, r : Members, k : Sends,
                              cursor : 0..Last, seen : Statuses \cup {"none"}]]
    /\ disturbed \in 0..MaxDisturbed

Init ==
    /\ status = "draft" /\ age = 0 /\ due = 0
    /\ job = [s \in Starters |-> [status |-> "none", cursor |-> 0]]
    /\ rcpt = [r \in Members |-> [status |-> "none", attempts |-> 0]]
    /\ row = [r \in Members |-> [k \in Sends |-> "none"]]
    /\ try = [r \in Members |-> [k \in Sends |-> "none"]]
    /\ delivered = [r \in Members |-> 0]
    /\ hist = [r \in Members |-> [lost |-> 0, dropped |-> FALSE, overtaken |-> FALSE]]
    /\ fanq = [s \in Starters |-> 0]
    /\ sendq = [r \in Members |-> 0]
    /\ held = {}
    /\ act = [s \in Starters |-> Idle]
    /\ con = [c \in Workers |-> Free]
    /\ disturbed = 0

\* UPDATE campaigns SET status, updated_at = now
Becomes(s) == status' = s /\ age' = 0

Disturbs == disturbed < MaxDisturbed /\ disturbed' = disturbed + 1

Goes(s, pc) == act' = [act EXCEPT ![s] = [@ EXCEPT !.pc = pc]]

\* A handler of the administrator ends; the hourly pass goes on to its sweeps.
Ends(s) == act' = [act EXCEPT ![s] = IF s = "cron" THEN [Idle EXCEPT !.pc = "sweep"] ELSE Idle]

-----------------------------------------------------------------------------
(* Starting: beginCampaignSend, shared by the route and the hourly pass.   *)

\* A scheduled campaign whose time has come, less than a day ago.  The model
\* lets each starter start it once.
Fires == status = "scheduled" /\ due <= 0 /\ due > 0 - Day /\ job["cron"].status = "none"

\* The status is read and checked ...
Begin(s) ==
    /\ job[s].status = "none"
    /\ \/ s = "admin" /\ act[s].pc = "idle" /\ status \in Allowed.send
       \/ s = "cron" /\ act[s].pc = "fire" /\ Fires
    /\ act' = [act EXCEPT ![s] = [pc |-> "send", seen |-> status, todo |-> {}]]
    /\ UNCHANGED <<status, age, due, job, books, queues, held, con, past>>

\* ... and then set, whatever it has become.
Prepare(s) ==
    /\ act[s].pc = "send"
    /\ Becomes("preparing")
    /\ Goes(s, "prepared")
    /\ UNCHANGED <<due, job, books, queues, held, con, past>>

\* The content is frozen and the coordinator's job written; an empty body puts
\* the status back.
Launch(s) ==
    /\ act[s].pc = "prepared"
    /\ \/ /\ job' = [job EXCEPT ![s] = [status |-> "running", cursor |-> 0]]
          /\ Becomes(status)
          /\ Goes(s, "launched")
       \/ /\ Becomes(act[s].seen)
          /\ Ends(s)
          /\ UNCHANGED job
    /\ UNCHANGED <<due, books, queues, held, con, past>>

\* The coordinator's first message.
Announce(s) ==
    /\ act[s].pc = "launched"
    /\ fanq' = [fanq EXCEPT ![s] = @ + 1]
    /\ Ends(s)
    /\ UNCHANGED <<status, age, due, job, books, sendq, held, con, past>>

-----------------------------------------------------------------------------
(* The other routes.                                                       *)

Request(op) ==
    /\ act["admin"].pc = "idle"
    /\ status \in Allowed[op]
    /\ \/ op = "retry" /\ (\A r \in Members : sendq[r] < MaxCopies) /\ UNCHANGED disturbed
       \/ op # "retry" /\ Disturbs
    /\ act' = [act EXCEPT !["admin"] = [pc |-> op, seen |-> "none", todo |->
                  IF op = "retry" THEN {r \in Members : rcpt[r].status \in Claimable} ELSE {}]]
    /\ UNCHANGED <<status, age, due, job, books, queues, held, con, hist>>

Schedule ==
    /\ act["admin"].pc = "schedule"
    /\ Becomes("scheduled")
    /\ due' = 1
    /\ Ends("admin")
    /\ UNCHANGED <<job, books, queues, held, con, past>>

Cancel ==
    /\ act["admin"].pc = "cancel"
    /\ Becomes("cancelled")
    /\ Goes("admin", "jobs")
    /\ UNCHANGED <<due, job, books, queues, held, con, past>>

\* The running fan-out jobs are cancelled with it.
CancelJobs ==
    /\ act["admin"].pc = "jobs"
    /\ job' = [s \in Starters |->
                 IF job[s].status = "running" THEN [job[s] EXCEPT !.status = "cancelled"]
                 ELSE job[s]]
    /\ Ends("admin")
    /\ UNCHANGED <<status, age, due, books, queues, held, con, past>>

Retry ==
    /\ act["admin"].pc = "retry"
    /\ IF act["admin"].todo = {}
       THEN Ends("admin") /\ UNCHANGED <<status, age>>
       ELSE Goes("admin", "requeue") /\ Becomes("sending")
    /\ UNCHANGED <<due, job, books, queues, held, con, past>>

Requeue ==
    /\ act["admin"].pc = "requeue"
    /\ sendq' = [r \in Members |-> IF r \in act["admin"].todo THEN sendq[r] + 1 ELSE sendq[r]]
    /\ hist' = [r \in Members |-> IF r \in act["admin"].todo
                                  THEN [hist[r] EXCEPT !.dropped = FALSE] ELSE hist[r]]
    /\ Ends("admin")
    /\ UNCHANGED <<status, age, due, job, books, fanq, held, con, disturbed>>

-----------------------------------------------------------------------------
(* The coordinator: runCampaignFanOutPage, one page per message.           *)

\* The members after the cursor, at most a page of them.
Page(cursor) == {r \in Members : r > cursor /\ r <= cursor + PageSize}

\* The job and the campaign are read.
TakeFanOut(c, s) ==
    /\ con[c].pc = "free"
    /\ fanq[s] > 0
    /\ fanq' = [fanq EXCEPT ![s] = @ - 1]
    /\ con' = IF job[s].status # "running" \/ status = "cancelled" THEN con
              ELSE [con EXCEPT ![c] = [Free EXCEPT !.pc = IF status = "preparing" THEN "mark"
                                                          ELSE "page",
                                                   !.of = s, !.cursor = job[s].cursor]]
    /\ UNCHANGED <<status, age, due, job, books, sendq, held, act, past>>

\* The first page turns the campaign it read as preparing into a sending one.
MarkSending(c) ==
    /\ con[c].pc = "mark"
    /\ Becomes("sending")
    /\ con' = [con EXCEPT ![c] = [@ EXCEPT !.pc = "page"]]
    /\ UNCHANGED <<due, job, books, queues, held, act, past>>

\* Faulty: the cursor moves before the page is published.
MovesFirst(c) == "advance"

AfterInsert(c) == "publish"

\* Recipients are inserted unless they exist.
InsertPage(c) ==
    /\ con[c].pc = "page"
    /\ rcpt' = [r \in Members |->
                  IF r \in Page(con[c].cursor) /\ rcpt[r].status = "none"
                  THEN [status |-> "queued", attempts |-> 0] ELSE rcpt[r]]
    /\ con' = [con EXCEPT ![c] = [@ EXCEPT !.pc =
                  IF Page(con[c].cursor) = {} THEN "next" ELSE AfterInsert(c)]]
    /\ UNCHANGED <<status, age, due, job, mail, queues, held, act, past>>

PublishPage(c) ==
    /\ con[c].pc = "publish"
    /\ sendq' = [r \in Members |-> IF r \in Page(con[c].cursor) THEN sendq[r] + 1 ELSE sendq[r]]
    /\ con' = [con EXCEPT ![c] = [@ EXCEPT !.pc = "advance"]]
    /\ UNCHANGED <<status, age, due, job, books, fanq, held, act, past>>

AdvanceCursor(c) ==
    /\ con[c].pc = "advance"
    /\ job' = [job EXCEPT ![con[c].of].cursor =
                 IF con[c].cursor + PageSize > Last THEN Last ELSE con[c].cursor + PageSize]
    /\ con' = [con EXCEPT ![c] = [@ EXCEPT !.pc = "next"]]
    /\ UNCHANGED <<status, age, due, books, queues, held, act, past>>

\* A short page was the last one: the job is done.  A full one queues the next.
NextPage(c) ==
    /\ con[c].pc = "next"
    /\ IF Cardinality(Page(con[c].cursor)) < PageSize
       THEN /\ job' = [job EXCEPT ![con[c].of].status = "completed"]
            /\ con' = [con EXCEPT ![c] = [@ EXCEPT !.pc = "check"]]
            /\ UNCHANGED fanq
       ELSE /\ fanq' = [fanq EXCEPT ![con[c].of] = @ + 1]
            /\ con' = [con EXCEPT ![c] = Free]
            /\ UNCHANGED job
    /\ UNCHANGED <<status, age, due, books, sendq, held, act, past>>

-----------------------------------------------------------------------------
(* One recipient: sendCampaignRecipient.                                   *)

\* Faulty: a recipient is claimed in any state but a settled one.
ClaimsUnsettled(r) == rcpt[r].status \in Claimable \cup {"processing"}

Claims(r) == rcpt[r].status \in Claimable

\* The message is taken and its recipient claimed in one UPDATE, or skipped.
Claim(c, r) ==
    /\ con[c].pc = "free"
    /\ sendq[r] > 0
    /\ sendq' = [sendq EXCEPT ![r] = @ - 1]
    /\ IF Claims(r)
       THEN /\ rcpt[r].status = "retrying" => rcpt[r].attempts < MaxSends
            /\ rcpt' = [rcpt EXCEPT ![r] = [status |-> "processing", attempts |-> @.attempts + 1]]
            /\ con' = [con EXCEPT ![c] = [Free EXCEPT !.pc = "claimed", !.r = r,
                                                      !.k = rcpt[r].attempts + 1]]
       ELSE UNCHANGED <<rcpt, con>>
    /\ UNCHANGED <<status, age, due, job, mail, fanq, held, act, past>>

SetRow(r, k, s) == row' = [row EXCEPT ![r] = [@ EXCEPT ![k] = s]]
SetTry(r, k, s) == try' = [try EXCEPT ![r] = [@ EXCEPT ![k] = s]]
SetRcpt(r, s) == rcpt' = [rcpt EXCEPT ![r] = [@ EXCEPT !.status = s]]
At(c, pc) == con' = [con EXCEPT ![c] = [@ EXCEPT !.pc = pc]]

\* sendViaOutbox writes the row ahead, leased to this attempt ...
WriteAhead(c) ==
    /\ con[c].pc = "claimed"
    /\ SetRow(con[c].r, con[c].k, "pending")
    /\ At(c, "written")
    /\ UNCHANGED <<status, age, due, job, rcpt, try, delivered, queues, held, act, past>>

\* One call of the provider, of which the suppression list may be the end.  A
\* network failure is reported as transient although the message arrived.
Answer(r, ans) ==
    \/ /\ delivered' = [delivered EXCEPT ![r] = IF ans = "accepted" THEN @ + 1 ELSE @]
       /\ UNCHANGED past
    \/ /\ ans = "transient"
       /\ Disturbs
       /\ delivered' = [delivered EXCEPT ![r] = @ + 1]
       /\ hist' = [hist EXCEPT ![r].lost = @ + 1]

\* ... calls the provider ...
Call(c) ==
    /\ con[c].pc = "written"
    /\ \E ans \in Given : Answer(con[c].r, ans) /\ At(c, ans)
    /\ UNCHANGED <<status, age, due, job, rcpt, row, try, queues, held, act>>

\* The row each answer of the first attempt leaves; its owner is the campaign.
RowOf(ans) ==
    CASE ans = "accepted" -> "bookkeeping_pending"
      [] ans = "transient" -> "pending"
      [] ans = "permanent" -> "failed"
      [] OTHER -> "none"

OutcomeOf(ans) ==
    CASE ans = "accepted" -> "sent"
      [] ans = "transient" -> "retrying"
      [] ans = "permanent" -> "failed"
      [] OTHER -> "suppressed"

\* ... and writes down what it said.
Resolve(c) ==
    /\ con[c].pc \in Answers
    /\ SetRow(con[c].r, con[c].k, RowOf(con[c].pc))
    /\ At(c, OutcomeOf(con[c].pc))
    /\ UNCHANGED <<status, age, due, job, rcpt, try, delivered, queues, held, act, past>>

\* The recipient status of an outcome.  A "failed" row was refused for good:
\* a transient answer is always retried, so "retryable_failed" is never written.
Recorded(outcome) == IF outcome = "failed" THEN "permanent_failed" ELSE outcome

Settle(c) ==
    /\ con[c].pc \in {"suppressed", "retrying", "failed", "sent"}
    /\ SetRcpt(con[c].r, Recorded(con[c].pc))
    /\ con' = [con EXCEPT ![c] =
                 IF @.pc = "retrying" THEN Free
                 ELSE [@ EXCEPT !.pc = IF con[c].pc = "sent" THEN "finalize" ELSE "check"]]
    /\ UNCHANGED <<status, age, due, job, mail, queues, held, act, past>>

Finalize(c) ==
    /\ con[c].pc = "finalize"
    /\ SetRow(con[c].r, con[c].k, "none")
    /\ At(c, "check")
    /\ UNCHANGED <<status, age, due, job, rcpt, try, delivered, queues, held, act, past>>

\* Faulty: recipients that were refused are not counted.
OutcomeSent == "sent"

\* checkCampaignCompletion: a fan-out job is done (of two, either may be the
\* one looked at) and no recipient is outstanding ...
Outcome == IF \E r \in Members : rcpt[r].status = "permanent_failed"
           THEN "completed_with_failures" ELSE "sent"

Outstanding == {r \in Members : rcpt[r].status \notin Settled \cup {"none"}}

Check(c) ==
    /\ con[c].pc = "check"
    /\ \E s \in Starters :
         /\ job[s].status # "none"
         /\ con' = [con EXCEPT ![c] = IF job[s].status = "completed" /\ Outstanding = {}
                                      THEN [@ EXCEPT !.pc = "close", !.seen = Outcome]
                                      ELSE Free]
    /\ UNCHANGED <<status, age, due, job, books, queues, held, act, past>>

\* ... then the campaign is closed, if it is still sending.
Close(c) ==
    /\ con[c].pc = "close"
    /\ IF status = "sending" THEN Becomes(con[c].seen) ELSE UNCHANGED <<status, age>>
    /\ con' = [con EXCEPT ![c] = Free]
    /\ UNCHANGED <<due, job, books, queues, held, act, past>>

-----------------------------------------------------------------------------
(* The outbox on a row of the campaign; none of it touches its recipient.  *)

\* Faulty: the row is written ahead as due at once.
LeasedLate(c, r, k) == con[c].r = r /\ con[c].k = k /\ con[c].pc \in Answers

\* The first attempt on the row is under way, and the row not due.
Leased(c, r, k) == con[c].r = r /\ con[c].k = k /\ con[c].pc \in Answers \cup {"written"}

\* A transient answer leaves its consumer a minute to record it.
Cooling(c, r, k) == con[c].r = r /\ con[c].k = k /\ con[c].pc = "retrying"

\* Nobody is trying the row.
Idling(r, k) ==
    /\ row[r][k] = "pending"
    /\ try[r][k] = "none"
    /\ \A c \in Consumers : ~Leased(c, r, k)

\* The cron, the drain or a user's retry claims a due row and has its answer;
\* until that is written the row is theirs.
OutboxTry(r, k) ==
    /\ Idling(r, k)
    /\ \A c \in Consumers : ~Cooling(c, r, k)
    /\ \E ans \in Given : Answer(r, ans) /\ SetTry(r, k, ans)
    /\ UNCHANGED <<status, age, due, job, rcpt, row, queues, held, act, con>>

\* The row of an answer: as after a first attempt, but for a last one.
OutboxWrite(r, k) ==
    /\ try[r][k] # "none"
    /\ \/ SetRow(r, k, RowOf(try[r][k]))
       \/ try[r][k] = "transient" /\ SetRow(r, k, "failed")
    /\ SetTry(r, k, "none")
    /\ UNCHANGED <<status, age, due, job, rcpt, delivered, queues, held, act, con, past>>

\* The attempt stops before it has written; the row falls due again.
OutboxDie(r, k) ==
    /\ try[r][k] # "none"
    /\ Disturbs
    /\ SetTry(r, k, "none")
    /\ hist' = [hist EXCEPT ![r].lost = IF try[r][k] = "accepted" THEN @ + 1 ELSE @]
    /\ UNCHANGED <<status, age, due, job, rcpt, row, delivered, queues, held, act, con>>

\* Faulty: a row held for its campaign is cancelled like any other.
CancelableHeld(r, k) == row[r][k] \in {"failed", "bookkeeping_pending"} \/ Idling(r, k)

\* A failed row, a due one, or one held by a pause that is still cooling down.
Cancelable(r, k) == row[r][k] = "failed" \/ Idling(r, k)

CancelRow(r, k) ==
    /\ Cancelable(r, k)
    /\ SetRow(r, k, "none")
    /\ UNCHANGED <<status, age, due, job, rcpt, try, delivered, queues, held, act, con, past>>

\* A user's retry makes a failed row due.  It may come before the consumer
\* that was refused has recorded the refusal.
ReviveRow(r, k) ==
    /\ row[r][k] = "failed"
    /\ SetRow(r, k, "pending")
    /\ hist' = [hist EXCEPT ![r].overtaken =
                  @ \/ \E c \in Consumers : con[c].r = r /\ con[c].k = k /\ con[c].pc = "failed"]
    /\ UNCHANGED <<status, age, due, job, rcpt, try, delivered, queues, held, act, con, disturbed>>

-----------------------------------------------------------------------------
(* The hourly pass: runCampaignPass.                                       *)

\* Faulty: only the rows that the outbox delivered are listed.
HeldRetrying == {m \in Members \X Sends : /\ row[m[1]][m[2]] = "bookkeeping_pending"
                                         /\ rcpt[m[1]].status = "retrying"}

\* reconcileCampaignBookkeeping lists the accepted rows ...
Held == {m \in Members \X Sends : row[m[1]][m[2]] = "bookkeeping_pending"}

\* ... and for each finishes the bookkeeping its consumer did not; a recipient
\* already recorded as sent has its row dropped and nothing else.
Reconcile(r, k) ==
    /\ act["cron"].pc = "reconcile"
    /\ con["cron"].pc = "free"
    /\ <<r, k>> \in held
    /\ held' = held \ {<<r, k>>}
    /\ IF rcpt[r].status = "sent"
       THEN SetRow(r, k, "none") /\ UNCHANGED con
       ELSE /\ con' = [con EXCEPT !["cron"] = [Free EXCEPT !.pc = "sent", !.r = r, !.k = k]]
            /\ UNCHANGED row
    /\ UNCHANGED <<status, age, due, job, rcpt, try, delivered, queues, act, past>>

Reconciled ==
    /\ act["cron"].pc = "reconcile"
    /\ con["cron"].pc = "free"
    /\ held = {}
    /\ Goes("cron", "fire")
    /\ UNCHANGED <<status, age, due, job, books, queues, held, con, past>>

\* What is left of the pass once nothing is to be fired: one UPDATE makes a
\* scheduled campaign a day late overdue, another one that has not moved for
\* a day stalled.
Sweep ==
    /\ \/ act["cron"].pc = "sweep"
       \/ act["cron"].pc = "fire" /\ ~Fires
    /\ CASE status = "scheduled" /\ due <= 0 - Day -> Becomes("overdue")
         [] status \in Open /\ age > Day -> Becomes("stalled")
         [] OTHER -> UNCHANGED <<status, age>>
    /\ Goes("cron", "refresh")
    /\ UNCHANGED <<due, job, books, queues, held, con, past>>

\* refreshCampaignStats: the counts are data; updated_at is not.
Refresh ==
    /\ act["cron"].pc = "refresh"
    /\ age' = IF age <= 2 * Day THEN 0 ELSE age
    /\ Goes("cron", "idle")
    /\ UNCHANGED <<status, due, job, books, queues, held, con, past>>

-----------------------------------------------------------------------------
(* The environment.                                                        *)

\* An hour passes; the pass of that hour runs, or is missed.  The two clocks
\* are counted while something reads them.
Hour ==
    /\ act["cron"].pc = "idle"
    /\ age' = IF status \in Open /\ age <= 2 * Day THEN age + 1 ELSE age
    /\ due' = IF status = "scheduled" /\ due > 0 - Day THEN due - 1 ELSE due
    /\ \/ act' = [act EXCEPT !["cron"] = [Idle EXCEPT !.pc = "reconcile"]] /\ held' = Held
       \/ UNCHANGED <<act, held>>
    /\ UNCHANGED <<status, job, books, queues, con, past>>

\* The queue delivers at least once.
Duplicate ==
    /\ Disturbs
    /\ \/ \E r \in Members : sendq[r] > 0 /\ sendq' = [sendq EXCEPT ![r] = @ + 1] /\ UNCHANGED fanq
       \/ \E s \in Starters : fanq[s] > 0 /\ fanq' = [fanq EXCEPT ![s] = @ + 1] /\ UNCHANGED sendq
    /\ UNCHANGED <<status, age, due, job, books, held, act, con, hist>>

\* The message of a handler that throws comes back, unless that was its last try.
Returned(c) ==
    \/ con[c].of = "none" /\ sendq' = [sendq EXCEPT ![con[c].r] = @ + 1] /\ UNCHANGED fanq
    \/ con[c].of # "none" /\ fanq' = [fanq EXCEPT ![con[c].of] = @ + 1] /\ UNCHANGED sendq
    \/ UNCHANGED queues

\* A consumer's handler throws between two of its statements.
Die(c) ==
    /\ con[c].pc # "free"
    /\ Disturbs
    /\ con' = [con EXCEPT ![c] = Free]
    /\ hist' = [hist EXCEPT ![con[c].r].lost = IF con[c].pc = "accepted" THEN @ + 1 ELSE @]
    /\ Returned(c)
    /\ UNCHANGED <<status, age, due, job, books, held, act>>

\* sendWithSuppressionCheck throws: the row is deleted and the error passed on.
Throw(c) ==
    /\ con[c].pc = "written"
    /\ Disturbs
    /\ SetRow(con[c].r, con[c].k, "none")
    /\ con' = [con EXCEPT ![c] = Free]
    /\ Returned(c)
    /\ UNCHANGED <<status, age, due, job, rcpt, try, delivered, held, act, hist>>

\* The last try of a message fails before its recipient is claimed.
GiveUp(r) ==
    /\ sendq[r] > 0
    /\ Disturbs
    /\ sendq' = [sendq EXCEPT ![r] = @ - 1]
    /\ hist' = [hist EXCEPT ![r].dropped = TRUE]
    /\ UNCHANGED <<status, age, due, job, books, fanq, held, act, con>>

\* The bookkeeping of one row throws; the hourly pass goes on to the next.
RowFails ==
    /\ con["cron"].pc # "free"
    /\ Disturbs
    /\ con' = [con EXCEPT !["cron"] = Free]
    /\ UNCHANGED <<status, age, due, job, books, queues, held, act, hist>>

\* A request, or the hourly pass, dies between two of its statements.
Abort(s) ==
    /\ act[s].pc # "idle"
    /\ Disturbs
    /\ act' = [act EXCEPT ![s] = Idle]
    /\ IF s = "cron" THEN held' = {} /\ con' = [con EXCEPT !["cron"] = Free]
       ELSE UNCHANGED <<held, con>>
    /\ UNCHANGED <<status, age, due, job, books, queues, hist>>

-----------------------------------------------------------------------------
Routes ==
    \/ \E op \in Ops : Request(op)
    \/ Schedule \/ Cancel \/ CancelJobs \/ Retry \/ Requeue

Start(s) == Begin(s) \/ Prepare(s) \/ Launch(s) \/ Announce(s)

FanOut(c) ==
    \/ \E s \in Starters : TakeFanOut(c, s)
    \/ MarkSending(c) \/ InsertPage(c) \/ PublishPage(c) \/ AdvanceCursor(c) \/ NextPage(c)

SendOne(c) ==
    \/ \E r \in Members : Claim(c, r)
    \/ WriteAhead(c) \/ Call(c) \/ Resolve(c)

Bookkeep(c) == Settle(c) \/ Finalize(c) \/ Check(c) \/ Close(c)

RowStep(r, k) ==
    OutboxTry(r, k) \/ OutboxWrite(r, k) \/ OutboxDie(r, k) \/ CancelRow(r, k) \/ ReviveRow(r, k)

Pass ==
    \/ \E r \in Members, k \in Sends : Reconcile(r, k)
    \/ Reconciled \/ Sweep \/ Refresh

Next ==
    \/ Routes
    \/ \E s \in Starters : Start(s) \/ Abort(s)
    \/ \E c \in Consumers : FanOut(c) \/ SendOne(c) \/ Die(c) \/ Throw(c)
    \/ \E c \in Workers : Bookkeep(c)
    \/ \E r \in Members : GiveUp(r)
    \/ \E r \in Members, k \in Sends : RowStep(r, k)
    \/ Pass \/ RowFails \/ Hour \/ Duplicate

Spec == Init /\ [][Next]_vars

\* The hourly pass runs again and again, and goes on once it runs.  Nothing is
\* owed by the consumers, which may have stopped for good.
Fairness ==
    /\ WF_vars(Bookkeep("cron"))
    /\ WF_vars(Start("cron") \/ Pass)
    /\ SF_vars(Hour /\ act' # act)

FairSpec == Spec /\ Fairness

-----------------------------------------------------------------------------
(* What a campaign promises.                                               *)

\* A consumer between the claim of r and the record of its outcome.
Sending(c, r) ==
    /\ con[c].r = r
    /\ con[c].pc \in Answers \cup {"claimed", "written", "suppressed", "retrying", "failed", "sent"}

\* However often a message is delivered and a campaign retried, at most one
\* consumer sends to a recipient (the claim is one conditional UPDATE).
OneSender ==
    \A r \in Members : \A c, d \in Consumers : Sending(c, r) /\ Sending(d, r) => c = d

\* A recipient gets one message for each time it was claimed, and one more for
\* each acceptance that stopped before its row was written (outbox.ts:288,
\* :604) or whose answer was lost: replayed pages, duplicated messages, the
\* outbox's attempts and the reconciliation add none.
OnePerClaim == \A r \in Members : delivered[r] <= rcpt[r].attempts + hist[r].lost

\* One consumer, one message and one row of the right shape for each claim.
OneClaimOneMessage == TypeOK /\ OneSender /\ OnePerClaim

\* The enumeration is complete when its job says so: every member is a
\* recipient, and one not yet sent to has its message in the queue, whatever
\* died or was replayed on the way; but for a message that failed its last try
\* before the claim, which is for POST /retry to send again.
NobodyStranded ==
    (\E s \in Starters : job[s].status = "completed") =>
        \A r \in Members : /\ rcpt[r].status # "none"
                          /\ rcpt[r].status = "queued" => sendq[r] > 0 \/ hist[r].dropped

\* The row says that a message was accepted, or is about to.
InBooks(r, k) ==
    \/ row[r][k] = "bookkeeping_pending"
    \/ try[r][k] = "accepted"
    \/ \E c \in Consumers : con[c].r = r /\ con[c].k = k /\ con[c].pc = "accepted"

\* Nothing that was delivered is forgotten: the recipient says so, or the row
\* is there, or about to be, for the hourly pass to say so.  It is about the
\* first claim; not about acceptances that stopped before the row was written,
\* whose row is tried again and may be cancelled, nor about a refusal that a
\* user's retry of the row overtook before it was recorded.
NothingForgotten ==
    \A r \in Members :
        delivered[r] > hist[r].lost /\ rcpt[r].attempts = 1 /\ ~hist[r].overtaken =>
            rcpt[r].status = "sent" \/ \E k \in Sends : InBooks(r, k)

\* A closed campaign has no recipient left to send to, and one that ended as
\* sent has none that was refused, second claims and overtaken refusals apart.
CompletionSound ==
    status \in Closed =>
        \A r \in Members :
            \/ rcpt[r].attempts > 1 \/ hist[r].overtaken
            \/ rcpt[r].status \in Settled \ (IF status = "sent" THEN {"permanent_failed"} ELSE {})

\* Nobody falls out between the fan-out, the queue, the provider and the
\* books, and a campaign is closed over all of them.
NobodyLost == NobodyStranded /\ NothingForgotten /\ CompletionSound

\* Nobody twice and nobody lost: the two together, where second claims, a
\* double start and the routes can disturb either.
SentAndBooked == OneClaimOneMessage /\ NobodyLost

\* What a row says was accepted is recorded with its recipient in the end,
\* whoever died between the acceptance and the bookkeeping: the consumer, the
\* hourly pass, or the pass on that row.
EventuallyRecorded ==
    \A r \in Members, k \in Sends :
        row[r][k] = "bookkeeping_pending" ~>
            /\ row[r][k] = "none"
            /\ rcpt[r].status = "sent" \/ rcpt[r].attempts > 1 \/ hist[r].overtaken

\* newsletter-cron.ts:43, 96: a campaign that stops moving is surfaced as
\* stalled, rather than left looking like it is still working.
StallSurfaced == status \in Open ~> status \notin Open
=============================================================================
