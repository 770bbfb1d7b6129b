----------------------------- MODULE GmailSync -----------------------------
(***************************************************************************)
(* Connected Gmail mailboxes: the hourly sync, which follows each one's    *)
(* history from a cursor, and the import of its last year, which a         *)
(* Workflow job pages through newest first, one mailbox at a time, while   *)
(* administrators connect, disconnect and map mailboxes.                   *)
(*                                                                         *)
(* A mailbox's messages are numbered as they arrive, and a number is also  *)
(* a position of its history.  The import's window is pinned at its first  *)
(* chunk (until) and its resume point, a page token and an offset, is the  *)
(* number of messages it has passed, from until downwards.                 *)
(***************************************************************************)
EXTENDS Integers, FiniteSets, FiniteSetsExt

CONSTANTS
    Mailboxes,
    Scenes,          \* what a behaviour starts with and what may happen in it
    Jobs,            \* ids of Workflow instances; those nobody names are used again
    ChunkSize,       \* CHUNK_SIZE
    ChunksPerJob,    \* CHUNKS_PER_JOB
    Cap              \* MAX_MESSAGES_PER_RUN

None == 0
OutOf(set) == set \cup {None}

\* The name a finished import keeps: an instance that is over, whichever it was.
Ended == -3

\* A mailbox has its first messages when it is connected, and mail in the end; poison is a
\* message of the first mailbox that throws whenever it is handled.
ASSUME SceneAssumption ==
    /\ Mailboxes \subseteq Nat \ {0} /\ IsFiniteSet(Mailboxes)
    /\ Scenes \subseteq [first : [Mailboxes -> Nat], mail : [Mailboxes -> Nat], poison : Nat,
                         connected : SUBSET Mailboxes, faults : Nat, gaps : Nat, ops : Nat,
                         kinds : SUBSET {"connect", "disconnect", "map", "unmap"}]
    /\ \A s \in Scenes : \A m \in Mailboxes : s.first[m] <= s.mail[m]

ASSUME SizeAssumption ==
    /\ Jobs \subseteq Nat \ {0} /\ IsFiniteSet(Jobs)
    /\ {ChunkSize, ChunksPerJob, Cap} \subseteq Nat \ {0}

VARIABLES
    scene,
    arrived,   \* messages in each mailbox
    stored,    \* those in saasmail
    row,       \* gmail_accounts
    mapped,    \* an inbox reads from the mailbox
    job,       \* the Workflow instances
    sync,      \* the hourly sync of each mailbox
    run,       \* ensureBackfillJobs, of each agent that calls it
    cron,      \* the hourly pass
    admin,     \* an administrator's request
    rows,      \* rows made so far: their ids, in the order of createdAt
    lost,      \* history: mail passed over for a reason the code accepts or overlooks
    faults, gaps, ops

vars == <<scene, arrived, stored, row, mapped, job, sync, run, cron, admin, rows, lost,
          faults, gaps, ops>>

Cron == -1
Admin == -2
Agents == Jobs \cup {Cron, Admin}
NotPinned == -1

NoRow == [id |-> 0, cursor |-> 0, until |-> NotPinned, passed |-> 0, done |-> FALSE,
          job |-> None, error |-> "none"]
NewRow(id, head) == [NoRow EXCEPT !.id = id, !.cursor = head]
NoJob == [pc |-> "dead", of |-> None, id |-> 0, chunks |-> 0, until |-> 0, passed |-> 0, next |-> None]
NewJob(m, id) == [NoJob EXCEPT !.pc = "ready", !.of = m, !.id = id]
NoSync == [pc |-> "off", id |-> 0, cursor |-> 0, head |-> 0]
NoRun == [pc |-> "off", seen |-> {}, of |-> None, id |-> 0, job |-> None]
NoRequest == [pc |-> "idle", op |-> "none", of |-> None, head |-> 0, prev |-> None]

Errors == {"none", "failed", "no_inbox"}
Messages == Nat \ {0}
RowType == [id : Nat, cursor : Nat, until : Nat \cup {NotPinned}, passed : Nat, done : BOOLEAN,
            job : OutOf(Jobs) \cup {Ended}, error : Errors]
JobType == [pc : {"dead", "ready", "chunk", "hand off", "create"}, of : OutOf(Mailboxes), id : Nat,
            chunks : 0..ChunksPerJob, until : Nat, passed : Nat, next : OutOf(Jobs)]
SyncType == [pc : {"off", "read", "listed"}, id : Nat, cursor : Nat, head : Nat]
Seen == [of : Mailboxes, id : Nat, job : OutOf(Jobs), error : Errors, just : BOOLEAN]
RunType == [pc : {"off", "look", "check", "claim", "create", "release"}, seen : SUBSET Seen,
            of : OutOf(Mailboxes), id : Nat, job : OutOf(Jobs)]
RequestType == [pc : {"idle", "asked", "stop"}, op : {"none", "connect", "disconnect"},
                of : OutOf(Mailboxes), head : Nat, prev : OutOf(Jobs) \cup {Ended}]

TypeOK ==
    /\ scene \in Scenes
    /\ arrived \in [Mailboxes -> Nat]
    /\ stored \in [Mailboxes -> SUBSET Messages]
    /\ row \in [Mailboxes -> RowType]
    /\ mapped \in [Mailboxes -> BOOLEAN]
    /\ job \in [Jobs -> JobType]
    /\ sync \in [Mailboxes -> SyncType]
    /\ run \in [Agents -> RunType]
    /\ cron \in {"idle", "sync"}
    /\ admin \in RequestType
    /\ rows \in Nat
    /\ lost \in [Mailboxes -> SUBSET Messages]
    /\ {faults, gaps, ops} \subseteq Nat

Init ==
    /\ scene \in Scenes
    /\ arrived = scene.first
    /\ stored = [m \in Mailboxes |-> {}]
    /\ row = [m \in Mailboxes |-> IF m \in scene.connected THEN NewRow(m, scene.first[m]) ELSE NoRow]
    /\ mapped = [m \in Mailboxes |-> m \in scene.connected]
    /\ job = [j \in Jobs |-> NoJob]
    /\ sync = [m \in Mailboxes |-> NoSync]
    /\ run = [a \in Agents |-> NoRun]
    /\ cron = "idle"
    /\ admin = NoRequest
    /\ rows = Cardinality(Mailboxes)
    /\ lost = [m \in Mailboxes |-> {}]
    /\ faults = 0 /\ gaps = 0 /\ ops = 0

Connected(m) == row[m].id # 0

\* UPDATE gmail_accounts SET new WHERE id: nothing when that row is gone.
Save(m, id, new) ==
    row' = [row EXCEPT ![m] = IF row[m].id = id THEN new ELSE row[m]]

\* What the import has still to read: a window not pinned yet reaches the present.
Ahead(m, r) == IF r.done THEN {}
               ELSE IF r.until = NotPinned THEN 1..arrived[m] ELSE 1..(r.until - r.passed)
Reachable(m, r) == Ahead(m, r) \cup {n \in 1..arrived[m] : n > r.cursor}

Throws(m, n) == m = Min(Mailboxes) /\ n = scene.poison

\* Another fault than the scene's would be one too many.
Faulty == faults < scene.faults /\ faults' = faults + 1

Named == {row[m].job : m \in Mailboxes} \cup {run[a].job : a \in Agents} \cup {admin.prev}
         \cup {job[j].next : j \in Jobs} \cup {s.job : s \in UNION {run[a].seen : a \in Agents}}
FreeJobs == {j \in Jobs : job[j].pc = "dead" /\ run[j].pc = "off"} \ Named
FreshJob == CHOOSE j \in FreeJobs : TRUE

-----------------------------------------------------------------------------
(* The mailboxes.                                                          *)

Arrive(m) ==
    /\ arrived[m] < scene.mail[m]
    /\ arrived' = [arrived EXCEPT ![m] = @ + 1]
    /\ UNCHANGED <<scene, stored, row, mapped, job, sync, run, cron, admin, rows, lost, faults, gaps, ops>>

-----------------------------------------------------------------------------
(* ensureBackfillJobs: release the claims of dead jobs, then give the turn *)
(* to the next mailbox.  It decides over rows it read at its start.        *)

runUnchanged == UNCHANGED <<scene, arrived, stored, mapped, sync, cron, admin, rows, lost, gaps, ops>>

\* It starts; just is the mailbox that an inbox was mapped to a moment ago.
Ensure(just) == [NoRun EXCEPT !.pc = "look", !.of = just, !.id = IF just = None THEN 0 ELSE row[just].id]

Waiting(seen) == {s \in seen : s.just \/ s.error # "no_inbox"}

\* Claims are looked at first; with none left, the turn is given to one that waits.
GoOn(seen) == IF \E s \in seen : s.job # None THEN [NoRun EXCEPT !.pc = "check", !.seen = seen]
              ELSE IF Waiting(seen) = {} THEN NoRun
              ELSE [NoRun EXCEPT !.pc = "claim", !.seen = Waiting(seen)]

Pending(id) ==
    {[of |-> m, id |-> row[m].id, job |-> row[m].job, error |-> row[m].error, just |-> row[m].id = id] :
     m \in {n \in Mailboxes : Connected(n) /\ ~row[n].done}}

Look(a) ==
    /\ run[a].pc = "look"
    /\ run' = [run EXCEPT ![a] = GoOn(Pending(run[a].id))]
    /\ runUnchanged /\ UNCHANGED <<row, job, faults>>

\* Faulty: a claim is taken for a live job's.
IsLiveIfNamed(j) == j # None

IsLive(j) == job[j].pc # "dead"

Oldest(set) == CHOOSE s \in set : \A t \in set : s.id <= t.id

\* One claim after the other, the oldest mailbox's first; a live job has the turn.
Check(a) ==
    /\ run[a].pc = "check"
    /\ LET s == Oldest({t \in run[a].seen : t.job # None})
       IN run' = [run EXCEPT ![a] =
                    IF IsLive(s.job) THEN NoRun
                    ELSE [pc |-> "release", of |-> s.of, id |-> s.id, job |-> s.job,
                          seen |-> (run[a].seen \ {s}) \cup {[s EXCEPT !.job = None]}]]
    /\ runUnchanged /\ UNCHANGED <<row, job, faults>>

\* Of a dead job's claim, or of its own after the instance could not be made.
Release(a) ==
    /\ run[a].pc = "release"
    /\ LET r == run[a] IN
       /\ row' = [row EXCEPT ![r.of] =
                    IF row[r.of].id = r.id /\ row[r.of].job = r.job
                                     THEN [row[r.of] EXCEPT !.job = None] ELSE row[r.of]]
       /\ run' = [run EXCEPT ![a] = GoOn(r.seen)]
    /\ runUnchanged /\ UNCHANGED <<job, faults>>

Rank(s) == IF s.just THEN 0 ELSE IF s.error = "none" THEN 1 ELSE 2
Foremost(set) ==
    CHOOSE s \in set : \A t \in set : Rank(s) < Rank(t) \/ (Rank(s) = Rank(t) /\ s.id <= t.id)

\* Faulty: the claim does not look at the other mailboxes.
TurnIsAnyones == TRUE

TurnIsFree == \A m \in Mailboxes : row[m].job = None \/ row[m].done

\* A pass that finds no id left gives up, as when the update throws.
Claim(a) ==
    /\ run[a].pc = "claim"
    /\ LET s == Foremost(run[a].seen)
           wins == /\ row[s.of].id = s.id /\ row[s.of].job = None /\ ~row[s.of].done
                   /\ TurnIsFree
       IN IF wins /\ FreeJobs # {}
          THEN /\ row' = [row EXCEPT ![s.of].job = FreshJob]
               /\ run' = [run EXCEPT ![a] = [pc |-> "create", seen |-> run[a].seen \ {s}, of |-> s.of,
                                             id |-> s.id, job |-> FreshJob]]
          ELSE /\ run' = [run EXCEPT ![a] = NoRun]
               /\ UNCHANGED row
    /\ runUnchanged /\ UNCHANGED <<job, faults>>

Create(a) ==
    /\ run[a].pc = "create"
    /\ job' = [job EXCEPT ![run[a].job] = NewJob(run[a].of, run[a].id)]
    /\ run' = [run EXCEPT ![a] = NoRun]
    /\ runUnchanged /\ UNCHANGED <<row, faults>>

\* The next mailbox's turn, then.
CreateFails(a) ==
    /\ run[a].pc = "create" /\ Faulty
    /\ run' = [run EXCEPT ![a].pc = "release"]
    /\ runUnchanged /\ UNCHANGED <<row, job>>

-----------------------------------------------------------------------------
(* The import's jobs: chunks, then the next mailbox's turn or a successor. *)

jobUnchanged == UNCHANGED <<scene, arrived, mapped, sync, cron, admin, rows, gaps, ops>>

Window(r, m) == IF r.until = NotPinned THEN arrived[m] ELSE r.until

\* A job works only while the row names it, unfinished, and an inbox reads the mailbox.
ReadChunk(j) ==
    /\ job[j].pc = "ready"
    /\ LET m == job[j].of
           r == row[m]
           owns == r.id = job[j].id /\ r.job = j /\ ~r.done
       IN \/ /\ owns /\ mapped[m]
             /\ job' = [job EXCEPT ![j].pc = "chunk", ![j].until = Window(r, m), ![j].passed = r.passed]
             /\ UNCHANGED row
          \/ /\ owns /\ ~mapped[m]
             /\ Save(m, job[j].id, [r EXCEPT !.error = "no_inbox"])
             /\ job' = [job EXCEPT ![j] = NoJob]
          \/ /\ ~owns
             /\ job' = [job EXCEPT ![j] = NoJob]
             /\ UNCHANGED row
    /\ jobUnchanged /\ UNCHANGED <<stored, run, lost, faults>>

\* Newest first; the resume point is saved by the account's id alone.
FinishChunk(j) ==
    /\ job[j].pc = "chunk"
    /\ LET m == job[j].of
           w == job[j]
           top == w.until - w.passed
           chunk == {n \in 1..top : n > top - ChunkSize}
           bad == {n \in chunk : Throws(m, n)}
           handled == {n \in chunk : \A b \in bad : n > b}
           passed == w.passed + Cardinality(handled)
           complete == bad = {} /\ passed = w.until
           progress == [row[m] EXCEPT !.until = w.until, !.passed = passed]
           chunks == w.chunks + 1
       IN /\ stored' = [stored EXCEPT ![m] = @ \cup handled]
          /\ Save(m, w.id, IF bad # {} THEN [progress EXCEPT !.error = "failed"]
                           ELSE IF ~complete THEN progress
                           ELSE [progress EXCEPT !.done = TRUE, !.job = Ended])
          /\ job' = [job EXCEPT ![j] =
                       IF bad # {} \/ complete THEN NoJob
                       ELSE [w EXCEPT !.pc = IF chunks = ChunksPerJob THEN "hand off" ELSE "ready",
                                      !.chunks = chunks, !.until = 0, !.passed = 0]]
          /\ run' = IF complete THEN [run EXCEPT ![j] = Ensure(None)] ELSE run
          /\ lost' = IF row[m].id = w.id /\ row[m].job # j
                     THEN [lost EXCEPT ![m] = @ \cup ((1..arrived[m])
                             \ (stored'[m] \cup Reachable(m, row'[m])))]
                     ELSE lost
    /\ jobUnchanged /\ UNCHANGED faults

\* A throw is retried by the step.
ThrowChunk(j) ==
    /\ job[j].pc = "chunk" /\ Faulty
    /\ job' = [job EXCEPT ![j].pc = "ready", ![j].until = 0, ![j].passed = 0]
    /\ jobUnchanged /\ UNCHANGED <<stored, row, run, lost>>

\* An outage past the step's retries; or the next mailbox's turn is not given.
DieJob(j) ==
    /\ job[j].pc # "dead" \/ run[j].pc # "off"
    /\ Faulty
    /\ job' = [job EXCEPT ![j] = NoJob]
    /\ run' = [run EXCEPT ![j] = NoRun]
    /\ jobUnchanged /\ UNCHANGED <<stored, row, lost>>

HandOff(j) ==
    /\ job[j].pc = "hand off"
    /\ LET m == job[j].of IN
       IF row[m].id = job[j].id /\ row[m].job = j /\ ~row[m].done
       THEN /\ FreeJobs # {}
            /\ row' = [row EXCEPT ![m].job = FreshJob]
            /\ job' = [job EXCEPT ![j].pc = "create", ![j].next = FreshJob]
       ELSE /\ job' = [job EXCEPT ![j] = NoJob]
            /\ UNCHANGED row
    /\ jobUnchanged /\ UNCHANGED <<stored, run, lost, faults>>

\* Or not, and the row names an instance that never was.
CreateSuccessor(j) ==
    /\ job[j].pc = "create"
    /\ \/ /\ job' = [job EXCEPT ![j] = NoJob, ![job[j].next] = NewJob(job[j].of, job[j].id)]
          /\ UNCHANGED faults
       \/ /\ Faulty
          /\ job' = [job EXCEPT ![j] = NoJob]
    /\ jobUnchanged /\ UNCHANGED <<stored, row, run, lost>>

-----------------------------------------------------------------------------
(* The hourly pass: every mailbox's history since its cursor, then         *)
(* ensureBackfillJobs.                                                     *)

syncUnchanged == UNCHANGED <<scene, arrived, mapped, job, cron, admin, rows, ops>>

CronStart ==
    /\ cron = "idle" /\ run[Cron].pc = "off"
    /\ cron' = "sync"
    /\ sync' = [m \in Mailboxes |-> IF Connected(m)
                                    THEN [NoSync EXCEPT !.pc = "read", !.id = row[m].id,
                                                        !.cursor = row[m].cursor]
                                    ELSE NoSync]
    /\ UNCHANGED <<scene, arrived, stored, row, mapped, job, run, admin, rows, lost, faults, gaps, ops>>

EndSync(m) == sync' = [sync EXCEPT ![m] = NoSync]

\* The first page, and the position it reports.
ListHistory(m) ==
    /\ sync[m].pc = "read" /\ row[m].id = sync[m].id
    /\ \/ /\ mapped[m]
          /\ sync' = [sync EXCEPT ![m].pc = "listed", ![m].head = arrived[m]]
          /\ UNCHANGED row
       \/ /\ ~mapped[m]
          /\ Save(m, sync[m].id, [row[m] EXCEPT !.error = "no_inbox"])
          /\ EndSync(m)
    /\ syncUnchanged /\ UNCHANGED <<stored, run, lost, faults, gaps>>

\* The cursor is older than what Gmail keeps: start again from the present.
HistoryGone(m) ==
    /\ sync[m].pc = "read" /\ row[m].id = sync[m].id /\ mapped[m] /\ gaps < scene.gaps
    /\ gaps' = gaps + 1
    /\ Save(m, sync[m].id, [row[m] EXCEPT !.cursor = arrived[m], !.error = "failed"])
    /\ lost' = [lost EXCEPT ![m] = @ \cup ((row[m].cursor + 1)..arrived[m])]
    /\ EndSync(m)
    /\ syncUnchanged /\ UNCHANGED <<stored, run, faults>>

\* Faulty: the head the last page reports.
DrainedLast(m) == arrived[m]

\* After a full drain: the later pages may show, and their head include, mail that came since.
Drained(m) == sync[m].head

\* The cursor is saved by the account's id alone, over one that a reconnection may have written
\* from an older reading: mail between the two is passed over unread.
SyncHistory(m) ==
    /\ sync[m].pc = "listed"
    /\ \E last \in sync[m].head..arrived[m] :
         LET from == sync[m].cursor
             shown == {n \in (from + 1)..last : n <= from + Cap}
             bad == {n \in shown : Throws(m, n)}
             handled == {n \in shown : \A b \in bad : n < b}
             truncated == last > from + Cap
         IN /\ stored' = [stored EXCEPT ![m] = @ \cup handled]
            /\ Save(m, sync[m].id,
                    [row[m] EXCEPT !.error = IF bad = {} THEN "none" ELSE "failed",
                                   !.cursor = IF bad # {} /\ handled = {} THEN row[m].cursor
                                              ELSE IF bad # {} \/ truncated
                                              THEN from + Cardinality(handled)
                                              ELSE Drained(m)])
    /\ lost' = [lost EXCEPT ![m] = @ \cup {n \in 1..sync[m].cursor :
                                             row[m].cursor < n /\ n <= row'[m].cursor}]
    /\ EndSync(m)
    /\ syncUnchanged /\ UNCHANGED <<run, faults, gaps>>

\* A revoked grant, an outage; or the account has been disconnected.
SyncFails(m) ==
    /\ sync[m].pc # "off"
    /\ \/ Faulty
       \/ row[m].id # sync[m].id /\ UNCHANGED faults
    /\ Save(m, sync[m].id, [row[m] EXCEPT !.error = "failed"])
    /\ EndSync(m)
    /\ syncUnchanged /\ UNCHANGED <<stored, run, lost, gaps>>

CronEnsure ==
    /\ cron = "sync" /\ \A m \in Mailboxes : sync[m].pc = "off"
    /\ cron' = "idle"
    /\ run' = [run EXCEPT ![Cron] = GoOn(Pending(None))]
    /\ UNCHANGED <<scene, arrived, stored, row, mapped, job, sync, admin, rows, lost, faults, gaps, ops>>

CronDies ==
    /\ cron # "idle" \/ run[Cron].pc # "off"
    /\ Faulty
    /\ cron' = "idle"
    /\ sync' = [m \in Mailboxes |-> NoSync]
    /\ run' = [run EXCEPT ![Cron] = NoRun]
    /\ UNCHANGED <<scene, arrived, stored, row, mapped, job, admin, rows, lost, gaps, ops>>

-----------------------------------------------------------------------------
(* The administrator.                                                      *)

adminUnchanged == UNCHANGED <<scene, arrived, stored, sync, cron, faults, gaps>>

AdminIsFree == admin.pc = "idle" /\ run[Admin].pc = "off"

\* The request reads the mailbox's head and the job its row names before it writes the row.
Ask(kind, m) ==
    /\ AdminIsFree /\ ops < scene.ops /\ kind \in scene.kinds \cap {"connect", "disconnect"}
    /\ kind = "disconnect" => Connected(m)
    /\ admin' = [pc |-> "asked", op |-> kind, of |-> m, head |-> arrived[m], prev |-> row[m].job]
    /\ ops' = ops + 1
    /\ adminUnchanged /\ UNCHANGED <<row, mapped, job, run, rows, lost>>

\* The job it read has to stop, and frees the turn for another.
Written(prev) == IF prev = None THEN NoRequest ELSE [NoRequest EXCEPT !.pc = "stop", !.prev = prev]

\* An upsert by address: a known mailbox imports its year again, over the gap this makes.
Connect ==
    /\ admin.pc = "asked" /\ admin.op = "connect"
    /\ LET m == admin.of IN
       /\ row' = [row EXCEPT ![m] = NewRow(IF Connected(m) THEN row[m].id ELSE rows + 1, admin.head)]
       /\ rows' = IF Connected(m) THEN rows ELSE rows + 1
       /\ lost' = [lost EXCEPT ![m] = {}]
    /\ admin' = Written(admin.prev)
    /\ adminUnchanged /\ UNCHANGED <<mapped, job, run, ops>>

Disconnect ==
    /\ admin.pc = "asked" /\ admin.op = "disconnect"
    /\ row' = [row EXCEPT ![admin.of] = NoRow]
    /\ mapped' = [mapped EXCEPT ![admin.of] = FALSE]
    /\ admin' = Written(admin.prev)
    /\ adminUnchanged /\ UNCHANGED <<job, run, rows, lost, ops>>

\* Best effort: a job that outlives this stops at its next chunk.
StopJob ==
    /\ admin.pc = "stop"
    /\ \/ /\ admin.prev \in Jobs
          /\ job' = [job EXCEPT ![admin.prev] = NoJob]
          /\ run' = [run EXCEPT ![admin.prev] = NoRun, ![Admin] = Ensure(None)]
       \/ /\ run' = [run EXCEPT ![Admin] = Ensure(None)]
          /\ UNCHANGED job
    /\ admin' = NoRequest
    /\ adminUnchanged /\ UNCHANGED <<row, mapped, rows, lost, ops>>

\* An inbox comes to read the mailbox: its import can run now.
MapInbox(m) ==
    /\ AdminIsFree /\ ops < scene.ops /\ "map" \in scene.kinds
    /\ Connected(m) /\ ~mapped[m]
    /\ mapped' = [mapped EXCEPT ![m] = TRUE]
    /\ run' = [run EXCEPT ![Admin] = Ensure(m)]
    /\ ops' = ops + 1
    /\ adminUnchanged /\ UNCHANGED <<row, job, admin, rows, lost>>

UnmapInbox(m) ==
    /\ AdminIsFree /\ ops < scene.ops /\ "unmap" \in scene.kinds
    /\ mapped[m]
    /\ mapped' = [mapped EXCEPT ![m] = FALSE]
    /\ ops' = ops + 1
    /\ adminUnchanged /\ UNCHANGED <<row, job, run, admin, rows, lost>>

\* The request ends where it is.
AdminDies ==
    /\ ~AdminIsFree /\ Faulty
    /\ admin' = NoRequest
    /\ run' = [run EXCEPT ![Admin] = NoRun]
    /\ UNCHANGED <<scene, arrived, stored, row, mapped, job, sync, cron, rows, lost, gaps, ops>>

-----------------------------------------------------------------------------
RunStep(a) == Look(a) \/ Check(a) \/ Release(a) \/ Claim(a) \/ Create(a)
JobStep == \E j \in Jobs : ReadChunk(j) \/ FinishChunk(j) \/ HandOff(j) \/ CreateSuccessor(j)
SyncStep == \E m \in Mailboxes : ListHistory(m) \/ SyncHistory(m) \/ SyncFails(m)
CronStep == CronStart \/ CronEnsure

Next ==
    \/ \E m \in Mailboxes : Arrive(m) \/ HistoryGone(m) \/ MapInbox(m) \/ UnmapInbox(m)
    \/ \E a \in Agents : RunStep(a) \/ CreateFails(a)
    \/ JobStep \/ SyncStep \/ CronStep
    \/ \E j \in Jobs : ThrowChunk(j) \/ DieJob(j)
    \/ \E kind \in {"connect", "disconnect"}, m \in Mailboxes : Ask(kind, m)
    \/ Connect \/ Disconnect \/ StopJob
    \/ CronDies \/ AdminDies

\* Cron comes again every hour, what it and a request have started of ensureBackfillJobs goes on
\* unless they die, and a Workflow drives its instances.  Nothing obliges mail to arrive or an
\* administrator to ask, and a request may stop before that.
Spec == /\ Init /\ [][Next]_vars
        /\ WF_vars(CronStep) /\ WF_vars(SyncStep) /\ WF_vars(JobStep)
        /\ WF_vars(RunStep(Cron)) /\ WF_vars(RunStep(Admin)) /\ WF_vars(\E j \in Jobs : RunStep(j))

-----------------------------------------------------------------------------
(* One import at a time, over every mailbox: whatever passes, requests,    *)
(* hand-offs and finished jobs race to give the turn away, and over rows   *)
(* they read before others wrote them, no two unfinished imports are       *)
(* claimed (NO_IMPORT_HOLDS_THE_TURN).                                     *)
OneTurn ==
    /\ TypeOK
    /\ Cardinality({m \in Mailboxes : row[m].job # None /\ ~row[m].done}) <= 1

(* No mail is passed over: a message of a connected mailbox is stored, or  *)
(* the history cursor stands before it, or the import has still to reach   *)
(* it, through capped passes, pages that grow while they are read, a       *)
(* message that throws, dead jobs, hand-offs and reconnections; but for    *)
(* what an expired cursor skips and what a chunk already under way at a    *)
(* reconnection saves over the import it restarted.                        *)
NothingSkipped ==
    \A m \in Mailboxes : Connected(m) =>
        (1..arrived[m]) \subseteq stored[m] \cup Reachable(m, row[m]) \cup lost[m]

(* When no message throws, every mailbox that stays connected and mapped   *)
(* has its year imported in the end, whichever jobs die, instances cannot  *)
(* be made or requests end half-way while the turn is taken: a claim       *)
(* nobody works on is found and released.                                  *)
ImportsEnd ==
    scene.poison = 0 =>
        <>[](\A m \in Mailboxes : Connected(m) /\ mapped[m] => row[m].done)

(* backfill-job.ts:328, "a mailbox stuck on a bad message is retried only  *)
(* when nothing else is waiting": the imports of the others end.  The code *)
(* does not keep this (MCGmailStarved.cfg): the sync of the same pass has  *)
(* cleared the error by which the stuck one is told apart.                 *)
OthersImport ==
    <>[](\A m \in Mailboxes \ {Min(Mailboxes)} : Connected(m) /\ mapped[m] => row[m].done)
=============================================================================
