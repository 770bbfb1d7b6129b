-------------------------- MODULE WebhookDelivery ---------------------------
(***************************************************************************)
(* The delivery events an administrator's endpoint is told of              *)
(* (webhook-delivery.ts) and the settings row that names the endpoint,     *)
(* counts the failures in a row and pauses it (webhook-config.ts).         *)
(*                                                                         *)
(* A delivery is a row; a queue message only points at it.  Each consumer  *)
(* claims the row for CLAIM_SECONDS before it POSTs, and writes its result *)
(* only while the row still bears its claim.  A claim is written as a time *)
(* and is told from the others by it; here it is the number of the attempt *)
(* that made it, and "live" says whether that time is still to come.       *)
(***************************************************************************)
EXTENDS Naturals, FiniteSets, FiniteSetsExt

CONSTANTS
    Deliveries,     \* the events that are recorded
    Consumers,      \* the queue consumers that can run at once
    MaxAttempts,    \* WEBHOOK_MAX_ATTEMPTS
    Threshold,      \* AUTO_DISABLE_AFTER
    MaxEras,        \* bound of the model: endpoints saved or re-enabled
    MaxCopies,      \* bound of the model: messages of a delivery before the sweep adds one
    MaxFaults       \* bound of the model: statements that fail, messages lost or doubled

ASSUME WebhookAssumption ==
    /\ {MaxAttempts, Threshold, MaxEras, MaxCopies} \subseteq Nat \ {0}
    /\ MaxFaults \in Nat
    /\ "none" \notin Deliveries

VARIABLES
    config,     \* the webhook's settings row
    rec,        \* the code that records each event
    row,        \* webhook_deliveries
    sentRow,    \* deliveries whose sent_emails row is there
    queue,      \* webhook_delivery messages in the queue, by delivery
    con,        \* what each consumer is doing
    todo,       \* the overdue rows the hourly sweep has listed
    hist,       \* history: the POSTs made of each delivery
    faults

vars == <<config, rec, row, sentRow, queue, con, todo, hist, faults>>

Ends == {"delivered", "failed", "cancelled"}
Bodies == {"plain", "ids"}

NoRow == [status |-> "none", gen |-> 0, era |-> 0, attempts |-> 0, holder |-> 0,
          live |-> FALSE, young |-> FALSE, late |-> FALSE, frozen |-> FALSE, body |-> "plain"]

Unread == [pc |-> "new", gen |-> 0, era |-> 0]

Free == [pc |-> "free", of |-> "none", attempt |-> 0, era |-> 0, body |-> "plain"]

TypeOK ==
    /\ config \in [on : BOOLEAN, gen : Nat, era : 0..MaxEras,
                   streak : 0..Threshold, paused : BOOLEAN]
    /\ rec \in [Deliveries -> [pc : {"new", "read", "inserted", "done"}, gen : Nat,
                               era : 0..MaxEras]]
    /\ row \in [Deliveries -> [status : Ends \cup {"none", "pending", "pruned"}, gen : Nat,
                               era : 0..MaxEras, attempts : 0..MaxAttempts,
                               holder : 0..MaxAttempts, live : BOOLEAN, young : BOOLEAN,
                               late : BOOLEAN, frozen : BOOLEAN, body : Bodies]]
    /\ sentRow \subseteq Deliveries
    /\ queue \in [Deliveries -> Nat]
    /\ con \in [Consumers -> [pc : {"free", "claim", "spent", "config", "cancel", "freeze",
                                    "post", "ok", "retryable", "refused"},
                              of : Deliveries \cup {"none"}, attempt : 0..MaxAttempts,
                              era : 0..MaxEras, body : Bodies]]
    /\ todo \subseteq Deliveries
    /\ hist \in [Deliveries -> [posts : Nat, bodies : SUBSET Bodies, eras : SUBSET (0..MaxEras)]]
    /\ faults \in 0..MaxFaults

Init ==
    /\ config = [on |-> FALSE, gen |-> 0, era |-> 0, streak |-> 0, paused |-> FALSE]
    /\ rec = [d \in Deliveries |-> Unread]
    /\ row = [d \in Deliveries |-> NoRow]
    /\ sentRow = {}
    /\ queue = [d \in Deliveries |-> 0]
    /\ con = [c \in Consumers |-> Free]
    /\ todo = {}
    /\ hist = [d \in Deliveries |-> [posts |-> 0, bodies |-> {}, eras |-> {}]]
    /\ faults = 0

Pending(d) == row[d].status = "pending"

Fault == faults < MaxFaults /\ faults' = faults + 1

\* One more message, or none if the queue refuses it: a refusal is logged only.
Dispatched(d) ==
    \/ queue' = [queue EXCEPT ![d] = @ + 1] /\ UNCHANGED faults
    \/ Fault /\ UNCHANGED queue

-----------------------------------------------------------------------------
(* The settings row.                                                       *)

Logged == {row[d].gen : d \in {e \in Deliveries : row[e].status \notin {"none", "pruned"}}}

\* Faulty: the next generation looks at the stored one only.
StoredPlusOne == config.gen + 1

\* Above the stored one and every logged delivery's.
NextGeneration == Max({config.gen} \cup Logged) + 1

\* setWebhookConfig with a URL and the delivery events ticked, or enableWebhook.
\* An era is the time one of them stands.
Save ==
    /\ config.era < MaxEras
    /\ config' = [on |-> TRUE, gen |-> NextGeneration, era |-> config.era + 1, streak |-> 0,
                  paused |-> FALSE]
    /\ UNCHANGED <<rec, row, sentRow, queue, con, todo, hist, faults>>

\* ... without a URL: nothing of the row is kept.  (A save with the events
\* unticked stops them as well, and keeps the generation.)
TurnOff ==
    /\ config.on
    /\ config' = [config EXCEPT !.on = FALSE, !.gen = 0, !.streak = 0, !.paused = FALSE]
    /\ UNCHANGED <<rec, row, sentRow, queue, con, todo, hist, faults>>

Wants == config.on /\ ~config.paused

Counts(d) == config.on /\ config.gen = row[d].gen /\ ~config.paused
Counted == [config EXCEPT !.streak = @ + 1, !.paused = (config.streak + 1 >= Threshold)]
Restarted == [config EXCEPT !.streak = 0]

\* failureStatement, in the transaction of a delivery's own end.
Failing(d) == IF Counts(d) THEN Counted ELSE config

\* successStatement, likewise.
Succeeding(d) == IF Counts(d) THEN Restarted ELSE config

-----------------------------------------------------------------------------
(* Recording: recordWebhook.                                               *)

\* An event happens: the settings are read, and unless they want it that is all.
ReadSettings(d) ==
    /\ rec[d].pc = "new"
    /\ rec' = [rec EXCEPT ![d] =
                 IF Wants THEN [pc |-> "read", gen |-> config.gen, era |-> config.era]
                 ELSE [Unread EXCEPT !.pc = "done"]]
    /\ UNCHANGED <<config, row, sentRow, queue, con, todo, hist, faults>>

\* The row is inserted, frozen when the event is a provider's report and not
\* the send's own.  Its era is that of the settings it was recorded under.
Insert(d) ==
    /\ rec[d].pc = "read"
    /\ rec' = [rec EXCEPT ![d] = [Unread EXCEPT !.pc = "inserted"]]
    /\ \E report \in BOOLEAN :
         row' = [row EXCEPT ![d] = [NoRow EXCEPT
                   !.status = "pending", !.gen = rec[d].gen, !.frozen = report, !.young = ~report,
                   !.era = IF config.gen = rec[d].gen THEN config.era ELSE rec[d].era]]
    /\ UNCHANGED <<config, sentRow, queue, con, todo, hist, faults>>

Dispatch(d) ==
    /\ rec[d].pc = "inserted"
    /\ rec' = [rec EXCEPT ![d].pc = "done"]
    /\ Dispatched(d)
    /\ UNCHANGED <<config, row, sentRow, con, todo, hist>>

\* The insert fails: the event is not recorded, and the send is none the worse.
InsertFails(d) ==
    /\ rec[d].pc = "read"
    /\ Fault
    /\ rec' = [rec EXCEPT ![d] = [Unread EXCEPT !.pc = "done"]]
    /\ UNCHANGED <<config, row, sentRow, queue, con, todo, hist>>

\* The sender inserts its sent_emails row, after the event was recorded.
RecordSent(d) ==
    /\ Pending(d) /\ ~row[d].frozen
    /\ d \notin sentRow
    /\ sentRow' = sentRow \cup {d}
    /\ UNCHANGED <<config, rec, row, queue, con, todo, hist, faults>>

-----------------------------------------------------------------------------
(* One message: runWebhookDelivery.                                        *)

Unclaimed(d) == ~row[d].live

\* Faulty: one attempt too many.
SpentLater(d) == row[d].attempts > MaxAttempts

Spent(d) == row[d].attempts >= MaxAttempts

\* The row still bears the claim of c.
Holds(c) == Pending(con[c].of) /\ row[con[c].of].holder = con[c].attempt

\* A finished row has no payload, keeps a marker no claim is like, and is never
\* looked at for its times again.
Ended(d, end) ==
    row' = [row EXCEPT ![d].status = end, ![d].holder = 0, ![d].live = FALSE,
                       ![d].young = FALSE, ![d].late = FALSE, ![d].body = "plain"]

\* Faulty: the run of failures grows whether or not this call ended the row.
FailAlways(d, guard) ==
    /\ IF guard THEN Ended(d, "failed") ELSE UNCHANGED row
    /\ config' = Failing(d)

\* failDelivery: the end of the row and the run of failures, or neither.
Fail(d, guard) ==
    IF guard THEN Ended(d, "failed") /\ config' = Failing(d) ELSE UNCHANGED <<row, config>>

Goes(c, pc) == con' = [con EXCEPT ![c].pc = pc]
Acks(c) == con' = [con EXCEPT ![c] = Free]

\* The row is read.  A finished one is left alone; a send's event waits for
\* the sent row, by a message of its own, while the row is young.
Take(c, d) ==
    /\ con[c].pc = "free"
    /\ queue[d] > 0
    /\ IF Pending(d) /\ ~row[d].frozen /\ row[d].young /\ d \notin sentRow
       THEN /\ UNCHANGED con
            /\ \/ UNCHANGED <<queue, faults>>
               \/ Fault /\ queue' = [queue EXCEPT ![d] = @ - 1]
       ELSE /\ con' = IF Pending(d) THEN [con EXCEPT ![c] = [Free EXCEPT !.pc = "claim", !.of = d]]
                      ELSE con
            /\ queue' = [queue EXCEPT ![d] = @ - 1]
            /\ UNCHANGED faults
    /\ UNCHANGED <<config, rec, row, sentRow, todo, hist>>

Claimable(d) == Pending(d) /\ Unclaimed(d) /\ row[d].attempts < MaxAttempts

Claim(c) ==
    LET d == con[c].of IN
    /\ con[c].pc = "claim"
    /\ IF Claimable(d)
       THEN /\ row' = [row EXCEPT ![d].attempts = @ + 1, ![d].holder = row[d].attempts + 1,
                                  ![d].live = TRUE]
            /\ con' = [con EXCEPT ![c].pc = "config", ![c].attempt = row[d].attempts + 1]
       ELSE Goes(c, "spent") /\ UNCHANGED row
    /\ UNCHANGED <<config, rec, sentRow, queue, todo, hist, faults>>

\* No claim: end the row if its attempts are spent, and leave it otherwise.
FinishSpent(c) ==
    LET d == con[c].of IN
    /\ con[c].pc = "spent"
    /\ Fail(d, Pending(d) /\ Spent(d) /\ Unclaimed(d))
    /\ Acks(c)
    /\ UNCHANGED <<rec, sentRow, queue, todo, hist, faults>>

\* The settings are read again; the rest of the attempt uses what was read.
ReadConfig(c) ==
    /\ con[c].pc = "config"
    /\ con' = [con EXCEPT ![c].pc = IF ~Wants \/ config.gen # row[con[c].of].gen THEN "cancel"
                                    ELSE IF row[con[c].of].frozen THEN "post" ELSE "freeze",
                          ![c].era = config.era, ![c].body = row[con[c].of].body]
    /\ UNCHANGED <<config, rec, row, sentRow, queue, todo, hist, faults>>

CancelDelivery(c) ==
    /\ con[c].pc = "cancel"
    /\ IF Holds(c) THEN Ended(con[c].of, "cancelled") ELSE UNCHANGED row
    /\ Acks(c)
    /\ UNCHANGED <<config, rec, sentRow, queue, todo, hist, faults>>

Ids(d) == IF d \in sentRow THEN "ids" ELSE "plain"

Kept(d) == [row EXCEPT ![d].frozen = TRUE, ![d].body = Ids(d)]

\* The body is made final, and stored, before the first POST.
Freeze(c) ==
    LET d == con[c].of IN
    /\ con[c].pc = "freeze"
    /\ IF Holds(c) /\ ~row[d].frozen
       THEN /\ row' = Kept(d)
            /\ con' = [con EXCEPT ![c].pc = "post", ![c].body = Ids(d)]
       ELSE Acks(c) /\ UNCHANGED row
    /\ UNCHANGED <<config, rec, sentRow, queue, todo, hist, faults>>

\* The POST is answered, or is given up after ten seconds.
Post(c) ==
    LET d == con[c].of IN
    /\ con[c].pc = "post"
    /\ \E result \in {"ok", "retryable", "refused"} : Goes(c, result)
    /\ hist' = [hist EXCEPT ![d].posts = @ + 1, ![d].bodies = @ \cup {con[c].body},
                            ![d].eras = @ \cup {con[c].era}]
    /\ UNCHANGED <<config, rec, row, sentRow, queue, todo, faults>>

Delivered(c) ==
    LET d == con[c].of IN
    /\ con[c].pc = "ok"
    /\ IF Holds(c) THEN Ended(d, "delivered") /\ config' = Succeeding(d)
       ELSE UNCHANGED <<row, config>>
    /\ Acks(c)
    /\ UNCHANGED <<rec, sentRow, queue, todo, hist, faults>>

\* A claim is given back, with the time of the next attempt.
Freed(d) == row' = [row EXCEPT ![d].holder = 0, ![d].live = FALSE, ![d].late = FALSE]

\* The message of c comes back, unless the queue has delivered it max_retries
\* times already.
Returns(c) == queue' \in {queue, [queue EXCEPT ![con[c].of] = @ + 1]}

\* The attempt is left to the message.
Retry(c) ==
    /\ con[c].pc = "retryable"
    /\ con[c].attempt < MaxAttempts
    /\ IF Holds(c) THEN Freed(con[c].of) ELSE UNCHANGED row
    /\ Returns(c)
    /\ Acks(c)
    /\ UNCHANGED <<config, rec, sentRow, todo, hist, faults>>

GiveUp(c) ==
    /\ \/ con[c].pc = "refused"
       \/ con[c].pc = "retryable" /\ con[c].attempt = MaxAttempts
    /\ Fail(con[c].of, Holds(c))
    /\ Acks(c)
    /\ UNCHANGED <<rec, sentRow, queue, todo, hist, faults>>

\* A statement of c throws.  Without a claim the message comes back; with one
\* the attempt is freed, or, the last one, failed, unless that throws as well.
Throw(c) ==
    LET d == con[c].of IN
    /\ con[c].pc \notin {"free", "post"}
    /\ Fault
    /\ Acks(c)
    /\ \/ /\ con[c].attempt = 0
          /\ Returns(c)
          /\ UNCHANGED <<row, config>>
       \/ /\ con[c].attempt \in 1..(MaxAttempts - 1)
          /\ Returns(c)
          /\ (Holds(c) /\ Freed(d)) \/ UNCHANGED row
          /\ UNCHANGED config
       \/ /\ con[c].attempt = MaxAttempts
          /\ Fail(d, Holds(c)) \/ UNCHANGED <<row, config>>
          /\ UNCHANGED queue
    /\ UNCHANGED <<rec, sentRow, todo, hist>>

\* The isolate of c is gone.
Die(c) ==
    /\ con[c].pc # "free"
    /\ Fault
    /\ Returns(c)
    /\ Acks(c)
    /\ UNCHANGED <<config, rec, row, sentRow, todo, hist>>

\* A delivery the model does not follow ends failed, or delivered, under the
\* settings as they are.
OtherEnds ==
    /\ config.on /\ ~config.paused
    /\ config' \in {Counted, Restarted}
    /\ UNCHANGED <<rec, row, sentRow, queue, con, todo, hist, faults>>

-----------------------------------------------------------------------------
(* The hourly sweep: sweepWebhookDeliveries.                               *)

Overdue(d) == Pending(d) /\ row[d].late /\ Unclaimed(d)

StartSweep ==
    /\ todo = {}
    /\ \E d \in Deliveries : Overdue(d)
    /\ todo' = {d \in Deliveries : Overdue(d)}
    /\ UNCHANGED <<config, rec, row, sentRow, queue, con, hist, faults>>

\* A row listed with its attempts spent is failed, any other is resent.
SweepRow(d) ==
    /\ d \in todo
    /\ todo' = todo \ {d}
    /\ IF Spent(d)
       THEN /\ Fail(d, Pending(d) /\ Unclaimed(d))
            /\ UNCHANGED <<queue, faults>>
       ELSE /\ row' = IF Pending(d) THEN [row EXCEPT ![d].late = FALSE] ELSE row
            /\ Dispatched(d)
            /\ UNCHANGED config
    /\ UNCHANGED <<rec, sentRow, con, hist>>

\* A finished row is deleted a week later.
Prune(d) ==
    /\ row[d].status \in Ends
    /\ row' = [row EXCEPT ![d] = [NoRow EXCEPT !.status = "pruned"]]
    /\ UNCHANGED <<config, rec, sentRow, queue, con, todo, hist, faults>>

-----------------------------------------------------------------------------
(* Time and the queue.                                                     *)

\* Two minutes: longer than any attempt takes to have its POST answered.
ClaimEnds(d) ==
    /\ row[d].live
    /\ \A c \in Consumers :
         con[c].of = d /\ con[c].attempt = row[d].holder =>
            con[c].pc \notin {"config", "freeze", "post"}
    /\ row' = [row EXCEPT ![d].live = FALSE]
    /\ UNCHANGED <<config, rec, sentRow, queue, con, todo, hist, faults>>

\* Five minutes from the event: no more waiting for the sent row.
Ripen(d) ==
    /\ row[d].young /\ ~row[d].frozen
    /\ row' = [row EXCEPT ![d].young = FALSE]
    /\ UNCHANGED <<config, rec, sentRow, queue, con, todo, hist, faults>>

\* More than an hour past the time of the next attempt.
FallDue(d) ==
    /\ Pending(d)
    /\ ~row[d].late
    /\ queue[d] < MaxCopies
    /\ row' = [row EXCEPT ![d].late = TRUE]
    /\ UNCHANGED <<config, rec, sentRow, queue, con, todo, hist, faults>>

Duplicate(d) ==
    /\ queue[d] > 0
    /\ Fault
    /\ queue' = [queue EXCEPT ![d] = @ + 1]
    /\ UNCHANGED <<config, rec, row, sentRow, con, todo, hist>>

-----------------------------------------------------------------------------
Settings == Save \/ TurnOff

Record(d) == ReadSettings(d) \/ Insert(d) \/ Dispatch(d) \/ InsertFails(d)

Attempt(c) ==
    \/ Claim(c) \/ FinishSpent(c) \/ ReadConfig(c) \/ CancelDelivery(c) \/ Freeze(c)
    \/ Post(c) \/ Delivered(c) \/ Retry(c) \/ GiveUp(c)

Sweep == StartSweep \/ \E d \in Deliveries : SweepRow(d)

Time(d) == ClaimEnds(d) \/ Ripen(d) \/ FallDue(d)

Next ==
    \/ Settings
    \/ \E d \in Deliveries : Record(d) \/ RecordSent(d) \/ Prune(d) \/ Time(d) \/ Duplicate(d)
    \/ \E c \in Consumers : Attempt(c) \/ Throw(c) \/ Die(c)
    \/ \E c \in Consumers, d \in Deliveries : Take(c, d)
    \/ Sweep \/ OtherEnds

Spec == Init /\ [][Next]_vars

\* The queue delivers, what runs goes on, time passes and the sweep is hourly.
Fairness ==
    /\ \A d \in Deliveries : WF_vars(\E c \in Consumers : Take(c, d))
    /\ \A c \in Consumers : WF_vars(Attempt(c))
    /\ \A d \in Deliveries : WF_vars(ClaimEnds(d)) /\ WF_vars(Ripen(d)) /\ WF_vars(FallDue(d))
    /\ WF_vars(Sweep)

FairSpec == Spec /\ Fairness

-----------------------------------------------------------------------------
(* What the delivery events promise.                                       *)

Posting(c, d) == con[c].of = d /\ con[c].pc = "post"

\* Two consumers of one delivery never POST at once, however its message was
\* doubled, redelivered or resent by the sweep (runWebhookDelivery's claim).
OnePost ==
    \A d \in Deliveries : \A c, e \in Consumers : Posting(c, d) /\ Posting(e, d) => c = e

\* The row counts the attempts: at most WEBHOOK_MAX_ATTEMPTS POSTs are made of
\* a delivery, and a row is failed for want of attempts only when they were made.
PostsBounded == \A d \in Deliveries : hist[d].posts <= MaxAttempts

\* The claim in the row keeps the POSTs of a delivery apart and counts them.
PostsClaimed == TypeOK /\ OnePost /\ PostsBounded

\* Every attempt sends exactly the same body, whether or not the sent row was
\* there for the first of them.
SameBody == \A d \in Deliveries : Cardinality(hist[d].bodies) <= 1

\* A delivery is POSTed only to the endpoint it was recorded for: no save, no
\* clearing and saving again, hands a pending one to another endpoint.
RightEndpoint ==
    \A d \in Deliveries : row[d].status # "pruned" => hist[d].eras \subseteq {row[d].era}

\* What is POSTed, and where to, is settled once for all of the attempts, and
\* they are kept apart and counted.
PostsSettled == PostsClaimed /\ SameBody /\ RightEndpoint

Turned(d, end) == Pending(d) /\ row'[d].status = end /\ row[d].gen = config.gen

\* The run of failures moves with the end of a delivery of this generation and
\* in the same step, once for each, and the pause comes exactly at the bound;
\* a late answer, a crash and a stale delivery leave both alone.
StreakFollows ==
    [][config.on /\ config'.on /\ config'.era = config.era
         /\ ~OtherEnds =>
         /\ config'.streak =
              IF config.paused THEN config.streak
              ELSE IF \E d \in Deliveries : Turned(d, "failed") THEN config.streak + 1
              ELSE IF \E d \in Deliveries : Turned(d, "delivered") THEN 0
              ELSE config.streak
         /\ config'.paused <=> config'.streak >= Threshold]_vars

\* Every recorded delivery ends: lost messages, dead consumers and failed
\* statements are made good by the claim's end and the hourly sweep.
EventuallyEnded == \A d \in Deliveries : Pending(d) ~> ~Pending(d)
=============================================================================
