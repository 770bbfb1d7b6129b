--------------------------- MODULE GmailSyncProofs ---------------------------
(***************************************************************************)
(* What holds of any number of connected mailboxes, whatever arrives in    *)
(* them, and any number of jobs that die, syncs that fail, cursors that    *)
(* expire and requests of administrators: one import has the turn, and no  *)
(* mail is passed over but where GmailSync.tla says so (lost).             *)
(***************************************************************************)
EXTENDS GmailSync, FiniteSetTheorems, WellFoundedInduction, TLAPS

-----------------------------------------------------------------------------
(* Whose turn it is.                                                       *)

\* An import that has the turn.
Holds(m) == row[m].job # None /\ ~row[m].done

\* What a row, a job, a run and a request hold at each point.
RowFits(r) == r.done <=> r.job = Ended

JobFits(w) == /\ w.pc # "dead" => w.of \in Mailboxes
              /\ w.pc = "create" => w.next \in Jobs
              /\ w.pc \in {"ready", "chunk"} => w.chunks < ChunksPerJob

RunFits(r) == /\ r.pc \in {"create", "release"} => r.of \in Mailboxes
              /\ r.pc = "create" => r.job \in Jobs
              /\ r.pc = "check" => \E s \in r.seen : s.job # None
              /\ r.pc = "claim" => r.seen # {}

Shape ==
    /\ \A m \in Mailboxes : RowFits(row[m])
    /\ \A j \in Jobs : JobFits(job[j])
    /\ \A a \in Agents : RunFits(run[a])
    /\ admin.pc = "asked" => admin.of \in Mailboxes

\* No two unfinished imports are claimed.
OneHolder == \A m, n \in Mailboxes : Holds(m) /\ Holds(n) => m = n

-----------------------------------------------------------------------------
(* Where the mail is.                                                      *)

\* Nothing reads beyond the mail there is.
Within ==
    /\ \A m \in Mailboxes : /\ row[m].cursor <= arrived[m]
                            /\ sync[m].cursor <= arrived[m] /\ sync[m].head <= arrived[m]
                            /\ IF row[m].until = NotPinned THEN row[m].passed = 0
                               ELSE row[m].passed <= row[m].until
    /\ \A j \in Jobs : job[j].passed <= job[j].until
    /\ admin.pc = "asked" => admin.head <= arrived[admin.of]

\* Mail behind the cursor that is not there.
Unread(m) == (1..row[m].cursor) \ (stored[m] \cup lost[m])

\* The import of the mailbox's row is in the hands of the job.
Imports(j, m) == job[j].pc = "chunk" /\ job[j].of = m /\ row[m].id = job[j].id /\ row[m].job = j

\* It is all ahead of the import, and of the chunk under way.
Covered ==
    \A m \in Mailboxes :
        /\ Unread(m) \subseteq Ahead(m, row[m])
        /\ \A j \in Jobs : Imports(j, m) => Unread(m) \subseteq 1..(job[j].until - job[j].passed)

Types == TypeOK /\ Shape

\* The inductive invariant.
IInv == Types /\ OneHolder /\ Within /\ Covered

-----------------------------------------------------------------------------
(* The constants, the records, and the least of a set.                     *)

\* What the assumptions say of the constants.
LEMMA Consts ==
    /\ None \notin Jobs /\ None \notin Mailboxes /\ Jobs \subseteq Nat /\ Mailboxes \subseteq Nat
    /\ Ended \notin OutOf(Jobs) /\ NotPinned \notin Nat
    /\ ChunkSize \in Nat \ {0} /\ ChunksPerJob \in Nat \ {0} /\ Cap \in Nat \ {0}
    /\ Jobs \subseteq Agents /\ Cron \in Agents /\ Admin \in Agents /\ IsFiniteSet(Mailboxes)
BY SizeAssumption, SceneAssumption DEF None, Ended, OutOf, NotPinned, Agents, Cron, Admin

\* The records that begin and end things have their types.
LEMMA Records ==
    /\ NoRow \in RowType /\ NoJob \in JobType /\ NoSync \in SyncType /\ NoRun \in RunType
    /\ NoRequest \in RequestType
    /\ \A i, h \in Nat : NewRow(i, h) \in RowType
    /\ \A m \in OutOf(Mailboxes), i \in Nat : NewJob(m, i) \in JobType
<1>. USE Consts DEF OutOf
<1>1. NoRow \in RowType /\ \A i, h \in Nat : NewRow(i, h) \in RowType
  BY DEF NoRow, NewRow, RowType, Errors
<1>2. NoJob \in JobType
  BY DEF NoJob, JobType
<1>5. ASSUME NEW m \in OutOf(Mailboxes), NEW i \in Nat PROVE NewJob(m, i) \in JobType
  BY <1>2, <1>5 DEF NewJob, JobType
<1>3. NoSync \in SyncType /\ NoRequest \in RequestType
  BY DEF NoSync, SyncType, NoRequest, RequestType
<1>4. NoRun \in RunType
  BY DEF NoRun, RunType
<1>. QED
  BY <1>1, <1>2, <1>3, <1>4, <1>5

\* A set of naturals that has a member has a least one.
LEMMA Least ==
    ASSUME NEW S \in SUBSET Nat, S # {}
    PROVE  \E x \in S : \A y \in S : x <= y
<1> DEFINE Less == {ss \in Nat \X Nat : ss[1] < ss[2]}
<1>1. IsWellFoundedOn(Less, Nat)
  BY NatLessThanWellFounded, Zenon DEF OpToRel
<1>. HIDE DEF Less
<1>2. PICK x \in S : \A y \in S : ~(<<y, x>> \in Less)
  BY <1>1, WFMin
<1>3. ASSUME NEW y \in S PROVE x <= y
  <2>1. <<y, x>> \in Nat \X Nat /\ <<y, x>>[1] = y /\ <<y, x>>[2] = x
    OBVIOUS
  <2>2. ~(y < x)
    BY <1>2, <2>1 DEF Less
  <2>. QED
    BY <2>2
<1>. QED
  BY <1>3

\* The oldest claim is one of them.
LEMMA OldestIn ==
    ASSUME NEW set \in SUBSET Seen, set # {}
    PROVE  Oldest(set) \in set
<1>1. {s.id : s \in set} \in SUBSET Nat /\ {s.id : s \in set} # {}
  BY DEF Seen
<1>2. PICK i \in {s.id : s \in set} : \A k \in {s.id : s \in set} : i <= k
  BY <1>1, Least
<1>. QED
  BY <1>2 DEF Oldest

\* So is the candidate that comes first.
LEMMA ForemostIn ==
    ASSUME NEW set \in SUBSET Seen, set # {}
    PROVE  Foremost(set) \in set
<1>1. {Rank(s) : s \in set} \in SUBSET Nat /\ {Rank(s) : s \in set} # {}
  BY DEF Rank
<1>2. PICK r \in {Rank(s) : s \in set} : \A k \in {Rank(s) : s \in set} : r <= k
  BY <1>1, Least
<1> DEFINE best == {s \in set : Rank(s) = r}
<1>3. {s.id : s \in best} \in SUBSET Nat /\ {s.id : s \in best} # {}
  BY <1>2 DEF Seen
<1>4. PICK i \in {s.id : s \in best} : \A k \in {s.id : s \in best} : i <= k
  BY <1>3, Least
<1>5. PICK s \in best : s.id = i
  BY <1>4
<1>6. ASSUME NEW t \in set PROVE Rank(s) < Rank(t) \/ (Rank(s) = Rank(t) /\ s.id <= t.id)
  <2>1. Rank(s) = r /\ r \in Nat /\ Rank(t) \in Nat /\ r <= Rank(t)
    BY <1>1, <1>2, <1>5
  <2>2. Rank(t) = r => t \in best
    OBVIOUS
  <2>3. Rank(t) = r => i <= t.id
    BY <2>2, <1>4
  <2>. QED
    BY <2>1, <2>3, <1>5
<1>. QED
  BY <1>5, <1>6 DEF Foremost

-----------------------------------------------------------------------------
(* One write at a time.                                                    *)

\* One row, one job's record or one agent's run is written, and no other.
RowIs(m, new) ==
    /\ row' \in [Mailboxes -> RowType]
    /\ row'[m] = new
    /\ \A n \in Mailboxes \ {m} : row'[n] = row[n]

JobIs(j, new) ==
    /\ job' \in [Jobs -> JobType]
    /\ job'[j] = new
    /\ \A k \in Jobs \ {j} : job'[k] = job[k]

RunIs(a, new) ==
    /\ run' \in [Agents -> RunType]
    /\ run'[a] = new
    /\ \A b \in Agents \ {a} : run'[b] = run[b]

\* The ways in which the actions write a row.
LEMMA RowWrites ==
    ASSUME TypeOK, NEW m \in Mailboxes, NEW new \in RowType
    PROVE  /\ row' = [row EXCEPT ![m] = new] => RowIs(m, new)
           /\ \A id : Save(m, id, new) => RowIs(m, IF row[m].id = id THEN new ELSE row[m])
BY DEF TypeOK, RowIs, Save

\* A job's record is written.
LEMMA JobWrites ==
    ASSUME TypeOK, NEW j \in Jobs, NEW new \in JobType, job' = [job EXCEPT ![j] = new]
    PROVE  JobIs(j, new)
BY DEF TypeOK, JobIs

\* An agent's run is written.
LEMMA RunWrites ==
    ASSUME TypeOK, NEW a \in Agents, NEW new \in RunType, run' = [run EXCEPT ![a] = new]
    PROVE  RunIs(a, new)
BY DEF TypeOK, RunIs

\* A row of which only the error, or only the claim, is new.
LEMMA RowErrors ==
    ASSUME NEW r \in RowType, NEW e \in Errors
    PROVE  LET x == [r EXCEPT !.error = e] IN
           /\ x \in RowType /\ x.id = r.id /\ x.cursor = r.cursor /\ x.until = r.until
           /\ x.passed = r.passed /\ x.done = r.done /\ x.job = r.job
BY DEF RowType

\* Of a row only the claim is new.
LEMMA RowClaims ==
    ASSUME NEW r \in RowType, NEW j \in OutOf(Jobs)
    PROVE  LET x == [r EXCEPT !.job = j] IN
           /\ x \in RowType /\ x.id = r.id /\ x.cursor = r.cursor /\ x.until = r.until
           /\ x.passed = r.passed /\ x.done = r.done /\ x.job = j
BY DEF RowType

\* What a row, a job's record and a run are made of.
LEMMA Fields ==
    /\ \A r \in RowType : /\ r.id \in Nat /\ r.cursor \in Nat /\ r.until \in Nat \cup {NotPinned}
                          /\ r.passed \in Nat /\ r.done \in BOOLEAN /\ r.job \in OutOf(Jobs) \cup {Ended}
                          /\ r.error \in Errors
    /\ \A w \in JobType : /\ w.of \in OutOf(Mailboxes) /\ w.id \in Nat /\ w.chunks \in 0..ChunksPerJob
                          /\ w.until \in Nat /\ w.passed \in Nat /\ w.next \in OutOf(Jobs)
    /\ \A s \in SyncType : s.id \in Nat /\ s.cursor \in Nat /\ s.head \in Nat
    /\ \A r \in RunType : /\ r.seen \in SUBSET Seen /\ r.of \in OutOf(Mailboxes) /\ r.id \in Nat
                          /\ r.job \in OutOf(Jobs)
    /\ \A s \in Seen : s.of \in Mailboxes /\ s.id \in Nat /\ s.job \in OutOf(Jobs)
    /\ \A r \in RequestType :
         r.of \in OutOf(Mailboxes) /\ r.head \in Nat /\ r.prev \in OutOf(Jobs) \cup {Ended}
<1>1. \A r \in RowType : /\ r.id \in Nat /\ r.cursor \in Nat /\ r.until \in Nat \cup {NotPinned}
                         /\ r.passed \in Nat /\ r.done \in BOOLEAN /\ r.job \in OutOf(Jobs) \cup {Ended}
                         /\ r.error \in Errors
  BY DEF RowType
<1>2. \A w \in JobType : /\ w.of \in OutOf(Mailboxes) /\ w.id \in Nat /\ w.chunks \in 0..ChunksPerJob
                         /\ w.until \in Nat /\ w.passed \in Nat /\ w.next \in OutOf(Jobs)
  BY DEF JobType
<1>3. \A s \in SyncType : s.id \in Nat /\ s.cursor \in Nat /\ s.head \in Nat
  BY DEF SyncType
<1>4. \A r \in RunType : /\ r.seen \in SUBSET Seen /\ r.of \in OutOf(Mailboxes) /\ r.id \in Nat
                         /\ r.job \in OutOf(Jobs)
  BY DEF RunType
<1>5. \A s \in Seen : s.of \in Mailboxes /\ s.id \in Nat /\ s.job \in OutOf(Jobs)
  BY DEF Seen
<1>6. \A r \in RequestType :
        r.of \in OutOf(Mailboxes) /\ r.head \in Nat /\ r.prev \in OutOf(Jobs) \cup {Ended}
  BY DEF RequestType
<1>. QED
  BY <1>1, <1>2, <1>3, <1>4, <1>5, <1>6

\* Resting, a run and a job stand where they may.
LEMMA AtRest ==
    /\ RunFits(NoRun) /\ JobFits(NoJob) /\ RowFits(NoRow)
    /\ \A i, h \in Nat : RowFits(NewRow(i, h))
    /\ \A m \in Mailboxes, i \in Nat : JobFits(NewJob(m, i))
BY Consts DEF RunFits, NoRun, JobFits, NoJob, RowFits, NoRow, NewRow, NewJob, OutOf, None, Ended

\* The mailboxes an agent has seen become its next step.
LEMMA GoOnFits ==
    ASSUME NEW seen \in SUBSET Seen
    PROVE  GoOn(seen) \in RunType /\ RunFits(GoOn(seen))
<1>1. Waiting(seen) \in SUBSET Seen
  BY DEF Waiting
<1>2. ASSUME NEW p \in {"check", "claim"}, NEW S \in SUBSET Seen
      PROVE  LET x == [NoRun EXCEPT !.pc = p, !.seen = S] IN x \in RunType /\ x.pc = p /\ x.seen = S
  BY Records, Consts DEF NoRun, RunType, OutOf
<1>3. CASE \E s \in seen : s.job # None
  BY <1>2, <1>3 DEF GoOn, RunFits
<1>4. CASE ~(\E s \in seen : s.job # None)
  BY <1>1, <1>2, <1>4, Records, AtRest DEF GoOn, RunFits
<1>. QED
  BY <1>3, <1>4

\* A start of ensureBackfillJobs.
LEMMA EnsureFits ==
    ASSUME TypeOK, NEW m \in OutOf(Mailboxes)
    PROVE  Ensure(m) \in RunType /\ RunFits(Ensure(m))
<1>1. m = None \/ row[m].id \in Nat
  BY Fields DEF TypeOK, OutOf
<1>2. ASSUME NEW i \in Nat
      PROVE  LET x == [NoRun EXCEPT !.pc = "look", !.of = m, !.id = i] IN x \in RunType /\ RunFits(x)
  BY Records, Consts DEF NoRun, RunType, RunFits
<1>. QED
  BY <1>1, <1>2 DEF Ensure

\* What is read of the unfinished imports.
LEMMA PendingSeen ==
    ASSUME Types, NEW i
    PROVE  Pending(i) \in SUBSET Seen
<1>1. ASSUME NEW m \in Mailboxes, ~row[m].done
      PROVE  [of |-> m, id |-> row[m].id, job |-> row[m].job, error |-> row[m].error,
              just |-> row[m].id = i] \in Seen
  <2>1. row[m] \in RowType /\ row[m].job # Ended
    BY <1>1 DEF Types, TypeOK, Shape, RowFits
  <2>2. row[m].job \in OutOf(Jobs) /\ row[m].id \in Nat /\ row[m].error \in Errors
    BY <2>1, Fields
  <2>. QED
    BY <2>2 DEF Seen
<1>. QED
  BY <1>1 DEF Pending

-----------------------------------------------------------------------------
(* What the actions of ensureBackfillJobs write.                           *)

\* An agent goes on to some point of a run, or rests.
Runs(a) == \E new \in RunType : RunFits(new) /\ RunIs(a, new)

\* The run goes on from what it read of the rows.
LEMMA LookMoves ==
    ASSUME Types, NEW a \in Agents, Look(a)
    PROVE  Runs(a)
<1>1. run' = [run EXCEPT ![a] = GoOn(Pending(run[a].id))]
  BY DEF Look
<1>2. GoOn(Pending(run[a].id)) \in RunType /\ RunFits(GoOn(Pending(run[a].id)))
  BY PendingSeen, GoOnFits
<1>. QED
  BY <1>1, <1>2, RunWrites DEF Types, Runs

\* It rests before a live job, or goes on to release a dead one's claim.
LEMMA CheckMoves ==
    ASSUME Types, NEW a \in Agents, Check(a)
    PROVE  Runs(a)
<1> DEFINE claims == {t \in run[a].seen : t.job # None}
           s == Oldest(claims)
           rel == [pc |-> "release", of |-> s.of, id |-> s.id, job |-> s.job,
                   seen |-> (run[a].seen \ {s}) \cup {[s EXCEPT !.job = None]}]
<1>1. run[a].pc = "check" /\ run' = [run EXCEPT ![a] = IF IsLive(s.job) THEN NoRun ELSE rel]
  BY DEF Check
<1>2. run[a].seen \in SUBSET Seen /\ claims # {}
  BY <1>1, Fields DEF Types, TypeOK, Shape, RunFits
<1>3. s \in claims
  BY <1>2, OldestIn
<1>. HIDE DEF s
<1>4. s \in Seen
  BY <1>2, <1>3
<1>5. [s EXCEPT !.job = None] \in Seen
  BY <1>4, Consts DEF Seen, OutOf
<1>6. rel \in RunType /\ RunFits(rel)
  <2>1. s.of \in Mailboxes /\ s.id \in Nat /\ s.job \in OutOf(Jobs)
    BY <1>4, Fields
  <2>2. (run[a].seen \ {s}) \cup {[s EXCEPT !.job = None]} \in SUBSET Seen
    BY <1>2, <1>5
  <2>. QED
    BY <2>1, <2>2 DEF RunType, RunFits, OutOf
<1>7. RunIs(a, IF IsLive(s.job) THEN NoRun ELSE rel)
  BY <1>1, <1>6, Records, RunWrites DEF Types
<1>. QED
  BY <1>6, <1>7, Records, AtRest DEF Runs

\* It writes the row it names only while that names the same job.
LEMMA ReleaseMoves ==
    ASSUME Types, NEW a \in Agents, Release(a)
    PROVE  LET r == run[a] IN
           /\ r.of \in Mailboxes /\ Runs(a)
           /\ RowIs(r.of, IF row[r.of].id = r.id /\ row[r.of].job = r.job
                          THEN [row[r.of] EXCEPT !.job = None] ELSE row[r.of])
           /\ [row[r.of] EXCEPT !.job = None] \in RowType
<1>1. run[a].of \in Mailboxes /\ run[a] \in RunType /\ run[a].seen \in SUBSET Seen
  BY Fields DEF Release, Types, TypeOK, Shape, RunFits
<1>2. GoOn(run[a].seen) \in RunType /\ RunFits(GoOn(run[a].seen))
  BY <1>1, GoOnFits
<1>3. Runs(a)
  BY <1>2, RunWrites DEF Release, Types, Runs
<1>4. row[run[a].of] \in RowType
  BY <1>1 DEF Types, TypeOK
<1>5. [row[run[a].of] EXCEPT !.job = None] \in RowType
  BY <1>4, RowClaims, Consts DEF OutOf
<1>. QED
  BY <1>1, <1>3, <1>4, <1>5, RowWrites DEF Release, Types

\* An id that nobody names is a dead job's.
LEMMA FreshJobIn == FreeJobs # {} => FreshJob \in Jobs /\ job[FreshJob].pc = "dead"
<1>1. FreeJobs # {} => FreshJob \in FreeJobs
  BY DEF FreshJob
<1>. QED
  BY <1>1 DEF FreeJobs

\* The claim gives the turn to a dead job's id if nobody has it.
Claims(m, j) ==
    /\ job[j].pc = "dead" /\ row[m].job = None /\ ~row[m].done
    /\ TurnIsFree /\ RowIs(m, [row[m] EXCEPT !.job = j])

\* It claims a row only when no row has the turn, and rests otherwise.
LEMMA ClaimMoves ==
    ASSUME Types, NEW a \in Agents, Claim(a)
    PROVE  /\ Runs(a)
           /\ UNCHANGED row \/ \E m \in Mailboxes, j \in Jobs : Claims(m, j)
<1> DEFINE s == Foremost(run[a].seen)
           wins == row[s.of].id = s.id /\ row[s.of].job = None /\ ~row[s.of].done /\ TurnIsFree
           made == [pc |-> "create", seen |-> run[a].seen \ {s}, of |-> s.of, id |-> s.id, job |-> FreshJob]
<1>1. run[a].pc = "claim" /\ run[a].seen \in SUBSET Seen /\ run[a].seen # {}
  BY Fields DEF Claim, Types, TypeOK, Shape, RunFits
<1>2. s \in Seen
  BY <1>1, ForemostIn
<1>3. \/ /\ wins /\ FreeJobs # {} /\ row' = [row EXCEPT ![s.of].job = FreshJob]
         /\ run' = [run EXCEPT ![a] = made]
      \/ run' = [run EXCEPT ![a] = NoRun] /\ UNCHANGED row
  BY DEF Claim
<1>. HIDE DEF s
<1>4. s.of \in Mailboxes /\ s.id \in Nat
  BY <1>2, Fields
<1>5. CASE run' = [run EXCEPT ![a] = NoRun] /\ UNCHANGED row
  BY <1>5, Records, AtRest, RunWrites DEF Types, Runs
<1>6. CASE /\ wins /\ FreeJobs # {} /\ row' = [row EXCEPT ![s.of].job = FreshJob]
           /\ run' = [run EXCEPT ![a] = made]
  <2>1. FreshJob \in Jobs /\ job[FreshJob].pc = "dead"
    BY <1>6, FreshJobIn
  <2>2. made \in RunType /\ RunFits(made)
    BY <1>1, <1>4, <2>1 DEF RunType, RunFits, OutOf
  <2>3. Runs(a)
    BY <1>6, <2>2, RunWrites DEF Types, Runs
  <2>4. row[s.of] \in RowType
    BY <1>4 DEF Types, TypeOK
  <2>5. [row[s.of] EXCEPT !.job = FreshJob] \in RowType
    BY <2>1, <2>4, RowClaims DEF OutOf
  <2>6. row' = [row EXCEPT ![s.of] = [row[s.of] EXCEPT !.job = FreshJob]]
    BY <1>6
  <2>7. RowIs(s.of, [row[s.of] EXCEPT !.job = FreshJob])
    BY <1>4, <2>5, <2>6, RowWrites DEF Types
  <2>. QED
    BY <1>4, <1>6, <2>1, <2>3, <2>7 DEF Claims
<1>. QED
  BY <1>3, <1>5, <1>6

\* An instance of its own is made of the run's job, if any.
LEMMA CreateMoves ==
    ASSUME Types, NEW a \in Agents, Create(a)
    PROVE  Runs(a) /\ \E j \in Jobs : \E new \in JobType :
                        JobIs(j, new) /\ JobFits(new) /\ new.pc # "chunk" /\ new.passed <= new.until
<1>1. run[a].of \in Mailboxes /\ run[a].job \in Jobs /\ run[a].id \in Nat
  BY Fields DEF Create, Types, TypeOK, Shape, RunFits
<1>2. Runs(a)
  BY Records, AtRest, RunWrites DEF Create, Types, Runs
<1>3. NewJob(run[a].of, run[a].id) \in JobType /\ JobFits(NewJob(run[a].of, run[a].id))
  BY <1>1, Records, AtRest DEF OutOf
<1>4. LET new == NewJob(run[a].of, run[a].id) IN new.pc # "chunk" /\ new.passed = 0 /\ new.until = 0
  BY DEF NewJob, NoJob
<1>5. JobIs(run[a].job, NewJob(run[a].of, run[a].id))
  BY <1>1, <1>3, JobWrites DEF Create, Types
<1>. QED
  BY <1>1, <1>2, <1>3, <1>4, <1>5

\* It goes on to release the claim of the instance that was not made.
LEMMA CreateFailsMoves ==
    ASSUME Types, NEW a \in Agents, CreateFails(a)
    PROVE  Runs(a)
<1>1. run[a] \in RunType /\ run[a].of \in Mailboxes
  BY DEF CreateFails, Types, TypeOK, Shape, RunFits
<1>2. [run[a] EXCEPT !.pc = "release"] \in RunType /\ RunFits([run[a] EXCEPT !.pc = "release"])
  BY <1>1 DEF RunType, RunFits
<1>3. run' = [run EXCEPT ![a] = [run[a] EXCEPT !.pc = "release"]]
  BY DEF CreateFails
<1>. QED
  BY <1>2, <1>3, RunWrites DEF Types, Runs

-----------------------------------------------------------------------------
(* What the import's jobs write.                                           *)

\* A job ends or goes on, without a chunk.
Leaves(j) ==
    \E new \in JobType : /\ JobFits(new) /\ JobIs(j, new) /\ new.pc # "chunk"
                         /\ (job[j].passed <= job[j].until => new.passed <= new.until)

\* A job that ends leaves its chunk.
LEMMA NoJobLeaves ==
    ASSUME TypeOK, NEW j \in Jobs, job' = [job EXCEPT ![j] = NoJob]
    PROVE  Leaves(j)
<1>1. NoJob.pc # "chunk" /\ NoJob.passed <= NoJob.until
  BY DEF NoJob
<1>. QED
  BY <1>1, Records, AtRest, JobWrites DEF Leaves

\* A chunk begins on the row that names the job.
Begins(j) ==
    LET m == job[j].of
        r == row[m] IN
    /\ r.id = job[j].id /\ r.job = j /\ ~r.done
    /\ \E new \in JobType :
         /\ JobFits(new) /\ JobIs(j, new) /\ new.pc = "chunk" /\ new.of = m /\ new.id = job[j].id
         /\ new.until = Window(r, m) /\ new.passed = r.passed

\* A row's error is written, or the row is gone.
Errs(m) ==
    \E new \in RowType :
        /\ RowIs(m, new) /\ new.id = row[m].id /\ new.cursor = row[m].cursor /\ new.until = row[m].until
        /\ new.passed = row[m].passed /\ new.done = row[m].done /\ new.job = row[m].job

\* A save of an error by the row's id.
LEMMA ErrorSaved ==
    ASSUME TypeOK, NEW m \in Mailboxes, NEW id, NEW e \in Errors,
           Save(m, id, [row[m] EXCEPT !.error = e])
    PROVE  Errs(m)
<1>1. row[m] \in RowType
  BY DEF TypeOK
<1> DEFINE x == [row[m] EXCEPT !.error = e]
<1>2. x \in RowType /\ x.id = row[m].id /\ x.cursor = row[m].cursor /\ x.until = row[m].until
      /\ x.passed = row[m].passed /\ x.done = row[m].done /\ x.job = row[m].job
  BY <1>1, RowErrors
<1>3. RowIs(m, IF row[m].id = id THEN x ELSE row[m])
  BY <1>2, RowWrites
<1>. HIDE DEF x
<1>. QED
  BY <1>1, <1>2, <1>3 DEF Errs

\* A job begins a chunk on the row that names it, or ends.
LEMMA ReadChunkMoves ==
    ASSUME Types, NEW j \in Jobs, ReadChunk(j)
    PROVE  /\ job[j].of \in Mailboxes
           /\ \/ Begins(j) /\ UNCHANGED row
              \/ Leaves(j) /\ (UNCHANGED row \/ Errs(job[j].of))
<1> DEFINE m == job[j].of
           r == row[m]
           owns == r.id = job[j].id /\ r.job = j /\ ~r.done
           w == [job[j] EXCEPT !.pc = "chunk", !.until = Window(r, m), !.passed = r.passed]
<1>1. job[j] \in JobType /\ m \in Mailboxes /\ job[j].chunks < ChunksPerJob
  BY DEF ReadChunk, Types, TypeOK, Shape, JobFits
<1>2. r \in RowType /\ arrived[m] \in Nat
  BY <1>1 DEF Types, TypeOK
<1>3. \/ /\ owns /\ UNCHANGED row
         /\ job' = [job EXCEPT ![j].pc = "chunk", ![j].until = Window(r, m), ![j].passed = r.passed]
      \/ Save(m, job[j].id, [r EXCEPT !.error = "no_inbox"]) /\ job' = [job EXCEPT ![j] = NoJob]
      \/ UNCHANGED row /\ job' = [job EXCEPT ![j] = NoJob]
  BY DEF ReadChunk
<1>4. CASE /\ owns /\ UNCHANGED row
           /\ job' = [job EXCEPT ![j].pc = "chunk", ![j].until = Window(r, m), ![j].passed = r.passed]
  <2>1. Window(r, m) \in Nat /\ r.passed \in Nat
    BY <1>2, Fields DEF Window
  <2>2. /\ w \in JobType /\ w.pc = "chunk" /\ w.of = m /\ w.id = job[j].id
        /\ w.until = Window(r, m) /\ w.passed = r.passed /\ w.chunks = job[j].chunks
    BY <1>1, <2>1 DEF JobType
  <2>3. job' = [job EXCEPT ![j] = w]
    BY <1>4
  <2>4. JobIs(j, w)
    BY <2>2, <2>3, JobWrites DEF Types
  <2>5. JobFits(w)
    BY <1>1, <2>2 DEF JobFits
  <2>. HIDE DEF w
  <2>. QED
    BY <1>1, <1>4, <2>2, <2>4, <2>5 DEF Begins
<1>5. CASE Save(m, job[j].id, [r EXCEPT !.error = "no_inbox"]) /\ job' = [job EXCEPT ![j] = NoJob]
  <2>1. "no_inbox" \in Errors
    BY DEF Errors
  <2>2. Errs(m)
    BY <1>1, <1>5, <2>1, ErrorSaved DEF Types
  <2>. QED
    BY <1>1, <1>5, <2>2, NoJobLeaves DEF Types
<1>6. CASE UNCHANGED row /\ job' = [job EXCEPT ![j] = NoJob]
  BY <1>1, <1>6, NoJobLeaves DEF Types
<1>. QED
  BY <1>3, <1>4, <1>5, <1>6

\* An interval, as a set and as a number.
LEMMA Between ==
    ASSUME NEW low \in Nat, NEW high \in Nat, low <= high
    PROVE  Cardinality((low + 1)..high) = high - low
<1>1. low + 1 \in Int /\ high \in Int
  OBVIOUS
<1>2. Cardinality((low + 1)..high) = IF low + 1 > high THEN 0 ELSE high - (low + 1) + 1
  BY <1>1, FS_Interval
<1>. QED
  BY <1>2

\* A chunk handles the newest messages left, down to one that throws if there is one.
LEMMA Newest ==
    ASSUME NEW top \in Nat, NEW bad, NEW poison \in Nat,
           bad \subseteq {i \in 1..top : i > top - ChunkSize}, bad \subseteq {poison}
    PROVE  LET chunk == {i \in 1..top : i > top - ChunkSize}
               handled == {n \in chunk : \A b \in bad : n > b} IN
           \E low \in 0..top : handled = (low + 1)..top /\ Cardinality(handled) = top - low
<1> DEFINE chunk == {i \in 1..top : i > top - ChunkSize}
           handled == {n \in chunk : \A b \in bad : n > b}
           low == IF bad # {} THEN poison ELSE IF top > ChunkSize THEN top - ChunkSize ELSE 0
<1>1. ChunkSize \in Nat \ {0}
  BY Consts
<1>2. bad \subseteq chunk
  OBVIOUS
<1>3. low \in 0..top /\ handled = (low + 1)..top
  <2>1. CASE bad = {}
    BY <1>1, <2>1
  <2>2. CASE bad # {}
    <3>1. bad = {poison} /\ poison \in chunk /\ low = poison
      BY <1>2, <2>2
    <3>2. low \in 0..top
      BY <3>1
    <3>3. ASSUME NEW n \in (low + 1)..top PROVE n \in handled
      BY <1>1, <3>1, <3>3
    <3>4. ASSUME NEW n \in handled PROVE n \in (low + 1)..top
      BY <1>1, <3>1, <3>4
    <3>. QED
      BY <3>2, <3>3, <3>4
  <2>. QED
    BY <2>1, <2>2
<1>4. Cardinality((low + 1)..top) = top - low
  BY <1>3, Between
<1>. QED
  BY <1>3, <1>4

\* What a chunk saves.
Saved(m, j, low) ==
    \E new \in RowType :
        /\ RowIs(m, IF row[m].id = job[j].id THEN new ELSE row[m])
        /\ new.id = row[m].id /\ new.cursor = row[m].cursor
        /\ new.until = job[j].until /\ new.passed = job[j].until - low
        /\ \/ new.done = row[m].done /\ new.job = row[m].job
           \/ new.done /\ new.job = Ended /\ low = 0

\* A chunk handles the top of what is left and saves how far it has got.
LEMMA FinishChunkMoves ==
    ASSUME Types, Within, NEW j \in Jobs, FinishChunk(j)
    PROVE  LET m == job[j].of
               top == job[j].until - job[j].passed IN
           /\ m \in Mailboxes /\ Leaves(j) /\ (UNCHANGED run \/ Runs(j))
           /\ top \in Nat
           /\ \E low \in 0..top :
                /\ Saved(m, j, low)
                /\ stored' = [stored EXCEPT ![m] = @ \cup ((low + 1)..top)]
           /\ lost' = IF row[m].id = job[j].id /\ row[m].job # j
                      THEN [lost EXCEPT ![m] = @ \cup ((1..arrived[m])
                                                    \ (stored'[m] \cup Reachable(m, row'[m])))]
                      ELSE lost
<1> DEFINE m == job[j].of
           w == job[j]
           top == w.until - w.passed
           chunk == {n \in 1..top : n > top - ChunkSize}
           bad == {n \in chunk : Throws(m, n)}
           handled == {n \in chunk : \A b \in bad : n > b}
           passed == w.passed + Cardinality(handled)
           complete == bad = {} /\ passed = w.until
           progress == [row[m] EXCEPT !.until = w.until, !.passed = passed]
           new == IF bad # {} THEN [progress EXCEPT !.error = "failed"]
                  ELSE IF ~complete THEN progress
                  ELSE [progress EXCEPT !.done = TRUE, !.job = Ended]
           chunks == w.chunks + 1
           next == [w EXCEPT !.pc = IF chunks = ChunksPerJob THEN "hand off" ELSE "ready",
                             !.chunks = chunks, !.until = 0, !.passed = 0]
<1>1. /\ w.pc = "chunk"
      /\ stored' = [stored EXCEPT ![m] = @ \cup handled]
      /\ Save(m, w.id, new)
      /\ job' = [job EXCEPT ![j] = IF bad # {} \/ complete THEN NoJob ELSE next]
      /\ run' = (IF complete THEN [run EXCEPT ![j] = Ensure(None)] ELSE run)
      /\ lost' = IF row[m].id = w.id /\ row[m].job # j
                 THEN [lost EXCEPT ![m] = @ \cup ((1..arrived[m]) \ (stored'[m] \cup Reachable(m, row'[m])))]
                 ELSE lost
  BY DEF FinishChunk
<1>2. m \in Mailboxes /\ w \in JobType /\ row[m] \in RowType /\ w.chunks < ChunksPerJob
  BY <1>1 DEF Types, TypeOK, Shape, JobFits
<1>3. w.until \in Nat /\ w.passed \in Nat /\ w.passed <= w.until /\ w.chunks \in 0..ChunksPerJob
  BY <1>2, Fields DEF Within
<1>4. top \in Nat
  BY <1>3
<1>5. bad \subseteq {scene.poison} /\ scene.poison \in Nat
  BY SceneAssumption DEF Throws, Types, TypeOK
<1>6. bad \subseteq chunk
  OBVIOUS
<1>. HIDE DEF bad
<1>7. PICK low \in 0..top : handled = (low + 1)..top /\ Cardinality(handled) = top - low
  BY <1>4, <1>5, <1>6, Newest
<1>8. passed = w.until - low /\ passed \in Nat
  BY <1>3, <1>7
<1>. HIDE DEF handled, passed
<1>9. /\ progress \in RowType /\ progress.id = row[m].id /\ progress.cursor = row[m].cursor
      /\ progress.until = w.until /\ progress.passed = passed
      /\ progress.done = row[m].done /\ progress.job = row[m].job
  BY <1>2, <1>3, <1>8 DEF RowType
<1>. HIDE DEF progress
<1>10. /\ new \in RowType /\ new.id = row[m].id /\ new.cursor = row[m].cursor
       /\ new.until = w.until /\ new.passed = w.until - low
       /\ \/ new.done = row[m].done /\ new.job = row[m].job
          \/ new.done /\ new.job = Ended /\ low = 0
  <2>1. CASE bad # {}
    <3>1. LET x == [progress EXCEPT !.error = "failed"] IN
          /\ x \in RowType /\ x.id = progress.id /\ x.cursor = progress.cursor /\ x.until = progress.until
          /\ x.passed = progress.passed /\ x.done = progress.done /\ x.job = progress.job
      BY <1>9, RowErrors DEF Errors
    <3>. QED
      BY <1>8, <1>9, <2>1, <3>1
  <2>2. CASE bad = {} /\ ~complete
    BY <1>8, <1>9, <2>2
  <2>3. CASE complete
    <3>1. LET x == [progress EXCEPT !.done = TRUE, !.job = Ended] IN
          /\ x \in RowType /\ x.id = progress.id /\ x.cursor = progress.cursor /\ x.until = progress.until
          /\ x.passed = progress.passed /\ x.done /\ x.job = Ended
      BY <1>9 DEF RowType
    <3>2. low = 0
      BY <1>3, <1>7, <1>8, <2>3
    <3>. QED
      BY <1>8, <1>9, <2>3, <3>1, <3>2
  <2>. QED
    BY <2>1, <2>2, <2>3
<1>. HIDE DEF new
<1>11. Saved(m, j, low)
  BY <1>1, <1>2, <1>10, RowWrites DEF Types, Saved
<1>12. Leaves(j)
  <2>1. CASE bad # {} \/ complete
    BY <1>1, <2>1, NoJobLeaves DEF Types
  <2>2. CASE ~(bad # {} \/ complete)
    <3>. HIDE DEF complete
    <3>1. job' = [job EXCEPT ![j] = next]
      BY <1>1, <2>2
    <3>2. chunks \in 0..ChunksPerJob /\ (chunks = ChunksPerJob \/ chunks < ChunksPerJob)
      <4>1. ASSUME NEW c \in Nat, NEW n \in Nat, c < n PROVE c + 1 \in 0..n /\ (c + 1 = n \/ c + 1 < n)
        BY <4>1
      <4>2. w.chunks \in Nat /\ ChunksPerJob \in Nat
        BY <1>3, Consts
      <4>. QED
        BY <1>2, <4>1, <4>2
    <3>3. ASSUME NEW p \in {"hand off", "ready"}
          PROVE  LET x == [w EXCEPT !.pc = p, !.chunks = chunks, !.until = 0, !.passed = 0] IN
                 x \in JobType /\ x.of = m /\ x.pc = p /\ x.passed = 0 /\ x.until = 0 /\ x.chunks = chunks
      BY <1>2, <3>2 DEF JobType
    <3>4. /\ next \in JobType /\ next.of = m /\ next.pc \in {"hand off", "ready"} /\ next.passed <= next.until
          /\ next.chunks = chunks /\ (next.pc = "ready" => chunks < ChunksPerJob)
      <4>1. CASE chunks = ChunksPerJob
        <5>1. next = [w EXCEPT !.pc = "hand off", !.chunks = chunks, !.until = 0, !.passed = 0]
          BY <4>1
        <5>. HIDE DEF next, chunks
        <5>. QED
          BY <3>3, <5>1
      <4>2. CASE chunks # ChunksPerJob
        <5>1. next = [w EXCEPT !.pc = "ready", !.chunks = chunks, !.until = 0, !.passed = 0]
          BY <4>2
        <5>. HIDE DEF next, chunks
        <5>. QED
          BY <3>2, <3>3, <4>2, <5>1
      <4>. QED
        BY <4>1, <4>2
    <3>. HIDE DEF next
    <3>6. JobFits(next)
      BY <1>2, <3>4 DEF JobFits
    <3>. QED
      BY <3>1, <3>4, <3>6, JobWrites DEF Types, Leaves
  <2>. QED
    BY <2>1, <2>2
<1>13. UNCHANGED run \/ Runs(j)
  <2>1. run' = run \/ run' = [run EXCEPT ![j] = Ensure(None)]
    BY <1>1
  <2>2. None \in OutOf(Mailboxes) /\ j \in Agents
    BY Consts DEF OutOf
  <2>3. Ensure(None) \in RunType /\ RunFits(Ensure(None))
    BY <2>2, EnsureFits DEF Types
  <2>. QED
    BY <2>1, <2>2, <2>3, RunWrites DEF Types, Runs
<1>. QED
  BY <1>1, <1>2, <1>4, <1>7, <1>11, <1>12, <1>13

-----------------------------------------------------------------------------
(* What the hourly sync and the administrator write.                       *)

\* A mailbox's sync goes on to some point, or ends.
Syncs(m) ==
    \E new \in SyncType :
        /\ sync' \in [Mailboxes -> SyncType] /\ sync'[m] = new
        /\ \A n \in Mailboxes \ {m} : sync'[n] = sync[n]
        /\ new.cursor \in {0, sync[m].cursor} /\ new.head \in {0, sync[m].head, arrived[m]}

\* A sync is written.
LEMMA SyncGoes ==
    ASSUME TypeOK, NEW m \in Mailboxes, NEW new \in SyncType, sync' = [sync EXCEPT ![m] = new],
           new.cursor \in {0, sync[m].cursor}, new.head \in {0, sync[m].head, arrived[m]}
    PROVE  Syncs(m)
BY DEF TypeOK, Syncs

\* A sync that ends has read nothing.
LEMMA SyncEnds ==
    ASSUME TypeOK, NEW m \in Mailboxes, EndSync(m)
    PROVE  Syncs(m)
<1>1. NoSync.cursor = 0 /\ NoSync.head = 0
  BY DEF NoSync
<1>. QED
  BY <1>1, Records, SyncGoes DEF EndSync

\* The cursor moves only over mail that is there, or given up.
Advances(m) ==
    \E new \in RowType :
        /\ RowIs(m, new) /\ new.id = row[m].id /\ new.until = row[m].until
        /\ new.passed = row[m].passed /\ new.done = row[m].done /\ new.job = row[m].job
        /\ new.cursor <= arrived[m]
        /\ (1..new.cursor) \ (stored'[m] \cup lost'[m]) \subseteq Unread(m)

\* A listing takes the head of what has arrived, or writes an error.
LEMMA ListHistoryMoves ==
    ASSUME Types, NEW m \in Mailboxes, ListHistory(m)
    PROVE  Syncs(m) /\ (UNCHANGED row \/ Errs(m))
<1>1. CASE UNCHANGED row /\ sync' = [sync EXCEPT ![m].pc = "listed", ![m].head = arrived[m]]
  <2>1. sync[m] \in SyncType /\ arrived[m] \in Nat
    BY DEF Types, TypeOK
  <2> DEFINE new == [sync[m] EXCEPT !.pc = "listed", !.head = arrived[m]]
  <2>2. new \in SyncType /\ new.cursor = sync[m].cursor /\ new.head = arrived[m]
    BY <2>1 DEF SyncType
  <2>3. sync' = [sync EXCEPT ![m] = new]
    BY <1>1
  <2>. HIDE DEF new
  <2>. QED
    BY <1>1, <2>2, <2>3, SyncGoes DEF Types
<1>2. CASE Save(m, sync[m].id, [row[m] EXCEPT !.error = "no_inbox"]) /\ EndSync(m)
  <2>1. "no_inbox" \in Errors
    BY DEF Errors
  <2>. QED
    BY <1>2, <2>1, ErrorSaved, SyncEnds DEF Types
<1>. QED
  BY <1>1, <1>2 DEF ListHistory

\* What an expired cursor skips is given up.
LEMMA HistoryGoneMoves ==
    ASSUME Types, NEW m \in Mailboxes, HistoryGone(m)
    PROVE  Syncs(m) /\ Advances(m) /\ lost' \in [Mailboxes -> SUBSET Messages]
           /\ (\A n \in Mailboxes \ {m} : lost'[n] = lost[n])
<1>1. row[m] \in RowType /\ arrived[m] \in Nat /\ row[m].cursor \in Nat
  BY Fields DEF Types, TypeOK
<1> DEFINE new == [row[m] EXCEPT !.cursor = arrived[m], !.error = "failed"]
<1>2. /\ new \in RowType /\ new.id = row[m].id /\ new.cursor = arrived[m] /\ new.until = row[m].until
      /\ new.passed = row[m].passed /\ new.done = row[m].done /\ new.job = row[m].job
  BY <1>1 DEF RowType, Errors
<1>3. row[m].id = sync[m].id /\ Save(m, sync[m].id, new)
  BY DEF HistoryGone
<1>. HIDE DEF new
<1>4. RowIs(m, new)
  BY <1>2, <1>3, RowWrites DEF Types
<1>5. /\ lost' = [lost EXCEPT ![m] = @ \cup ((row[m].cursor + 1)..arrived[m])] /\ stored' = stored
      /\ lost \in [Mailboxes -> SUBSET Messages]
  BY DEF HistoryGone, Types, TypeOK
<1>6. (row[m].cursor + 1)..arrived[m] \subseteq Messages
  BY <1>1 DEF Messages
<1>7. lost' \in [Mailboxes -> SUBSET Messages] /\ \A n \in Mailboxes \ {m} : lost'[n] = lost[n]
  BY <1>5, <1>6
<1>8. (1..new.cursor) \ (stored'[m] \cup lost'[m]) \subseteq Unread(m)
  BY <1>1, <1>2, <1>5 DEF Unread
<1>. QED
  BY <1>1, <1>2, <1>4, <1>7, <1>8, SyncEnds DEF HistoryGone, Types, Advances

\* Of the pages of a history the oldest messages are handled, up to the cap or one that throws.
Shown(from, last) == {n \in (from + 1)..last : n <= from + Cap}
Before(shown, bad) == {n \in shown : \A b \in bad : n < b}

\* They follow the cursor without a gap.
LEMMA OldestFirst ==
    ASSUME NEW from \in Nat, NEW last \in Nat, NEW bad, NEW poison \in Nat,
           bad \subseteq Shown(from, last), bad \subseteq {poison}
    PROVE  /\ \E k \in Nat : /\ Before(Shown(from, last), bad) = (from + 1)..(from + k)
                            /\ Cardinality(Before(Shown(from, last), bad)) = k
           /\ bad = {} /\ last <= from + Cap => Before(Shown(from, last), bad) = (from + 1)..last
<1> DEFINE shown == Shown(from, last)
           handled == Before(shown, bad)
<1>1. Cap \in Nat \ {0}
  BY Consts
<1>2. bad = {} \/ (bad = {poison} /\ poison \in shown)
  OBVIOUS
<1>3. ASSUME NEW high \in Nat, from <= high, handled = (from + 1)..high
      PROVE  \E k \in Nat : handled = (from + 1)..(from + k) /\ Cardinality(handled) = k
  <2>1. Cardinality((from + 1)..high) = high - from
    BY <1>3, Between
  <2>2. high - from \in Nat /\ high = from + (high - from)
    BY <1>3
  <2>. HIDE DEF handled
  <2>. QED
    BY <1>3, <2>1, <2>2
<1>4. \E high \in Nat : from <= high /\ handled = (from + 1)..high
  <2>1. CASE bad = {} /\ last <= from
    <3>1. handled = (from + 1)..from
      BY <1>1, <2>1 DEF Shown, Before
    <3>. QED
      BY <3>1
  <2>2. CASE bad = {} /\ from < last /\ last <= from + Cap
    <3>1. handled = (from + 1)..last
      BY <1>1, <2>2 DEF Shown, Before
    <3>. QED
      BY <2>2, <3>1
  <2>3. CASE bad = {} /\ last > from + Cap
    <3>1. handled = (from + 1)..(from + Cap) /\ from + Cap \in Nat /\ from <= from + Cap
      BY <1>1, <2>3 DEF Shown, Before
    <3>. QED
      BY <3>1
  <2>4. CASE bad = {poison} /\ poison \in shown
    <3>1. handled = (from + 1)..(poison - 1) /\ poison - 1 \in Nat /\ from <= poison - 1
      BY <1>1, <2>4 DEF Shown, Before
    <3>. QED
      BY <3>1
  <2>. QED
    BY <1>1, <1>2, <2>1, <2>2, <2>3, <2>4
<1>5. bad = {} /\ last <= from + Cap => handled = (from + 1)..last
  BY <1>1 DEF Shown, Before
<1>. HIDE DEF handled
<1>6. \E k \in Nat : handled = (from + 1)..(from + k) /\ Cardinality(handled) = k
  BY <1>3, <1>4
<1>. QED
  BY <1>5, <1>6 DEF handled

\* A sync's cursor passes over what it has stored, and what lost says.
LEMMA SyncHistoryMoves ==
    ASSUME Types, Within, NEW m \in Mailboxes, SyncHistory(m)
    PROVE  /\ Syncs(m) /\ Advances(m)
           /\ lost' \in [Mailboxes -> SUBSET Messages] /\ stored' \in [Mailboxes -> SUBSET Messages]
           /\ \A n \in Mailboxes \ {m} : lost'[n] = lost[n] /\ stored'[n] = stored[n]
<1>1. PICK last \in sync[m].head..arrived[m] :
        LET from == sync[m].cursor
            shown == {n \in (from + 1)..last : n <= from + Cap}
            bad == {n \in shown : Throws(m, n)}
            handled == {n \in shown : \A b \in bad : n < b}
            truncated == last > from + Cap
        IN /\ stored' = [stored EXCEPT ![m] = @ \cup handled]
           /\ Save(m, sync[m].id,
                   [row[m] EXCEPT !.error = IF bad = {} THEN "none" ELSE "failed",
                                  !.cursor = IF bad # {} /\ handled = {} THEN row[m].cursor
                                             ELSE IF bad # {} \/ truncated
                                             THEN from + Cardinality(handled)
                                             ELSE Drained(m)])
  BY DEF SyncHistory
<1> DEFINE from == sync[m].cursor
           bad == {n \in Shown(from, last) : Throws(m, n)}
           handled == Before(Shown(from, last), bad)
           truncated == last > from + Cap
           cursor == IF bad # {} /\ handled = {} THEN row[m].cursor
                     ELSE IF bad # {} \/ truncated THEN from + Cardinality(handled) ELSE Drained(m)
           error == IF bad = {} THEN "none" ELSE "failed"
           new == [row[m] EXCEPT !.error = error, !.cursor = cursor]
<1>2. stored' = [stored EXCEPT ![m] = @ \cup handled] /\ Save(m, sync[m].id, new)
  BY <1>1 DEF Shown, Before
<1>3. /\ lost' = [lost EXCEPT ![m] = @ \cup {n \in 1..from : row[m].cursor < n /\ n <= row'[m].cursor}]
      /\ EndSync(m)
  BY DEF SyncHistory
<1>4. /\ row[m] \in RowType /\ arrived[m] \in Nat /\ row[m].cursor \in Nat /\ row[m].cursor <= arrived[m]
      /\ from \in Nat /\ from <= arrived[m] /\ sync[m].head \in Nat
      /\ lost \in [Mailboxes -> SUBSET Messages] /\ stored \in [Mailboxes -> SUBSET Messages]
  BY Fields DEF Types, TypeOK, Within
<1>5. last \in Nat /\ sync[m].head <= last /\ last <= arrived[m]
  BY <1>4
<1>6. bad \subseteq {scene.poison} /\ scene.poison \in Nat /\ bad \subseteq Shown(from, last) /\ Cap \in Nat
  BY SceneAssumption, Consts DEF Throws, Types, TypeOK
<1>. HIDE DEF bad
<1>7. bad = {} /\ ~truncated => handled = (from + 1)..last
  BY <1>4, <1>5, <1>6, OldestFirst
<1>8. PICK k \in Nat : handled = (from + 1)..(from + k) /\ Cardinality(handled) = k
  BY <1>4, <1>5, <1>6, OldestFirst
<1>9. handled \subseteq 1..arrived[m]
  BY <1>4, <1>5 DEF Shown, Before
<1>. HIDE DEF handled
<1>10. /\ cursor \in Nat /\ cursor <= arrived[m]
       /\ cursor = row[m].cursor \/ \A n \in (from + 1)..cursor : n \in handled
  <2>1. CASE bad # {} /\ handled = {}
    BY <1>4, <2>1
  <2>2. CASE ~(bad # {} /\ handled = {}) /\ (bad # {} \/ truncated)
    <3>1. cursor = from + k
      BY <1>8, <2>2
    <3>2. k = 0 \/ from + k \in handled
      BY <1>4, <1>8
    <3>3. from + k <= arrived[m]
      BY <1>4, <1>9, <3>2
    <3>. QED
      BY <1>4, <1>8, <3>1, <3>3
  <2>3. CASE bad = {} /\ ~truncated
    <3>1. cursor = sync[m].head
      BY <2>3 DEF Drained
    <3>. QED
      BY <1>4, <1>5, <1>7, <2>3, <3>1
  <2>. QED
    BY <2>1, <2>2, <2>3
<1>. HIDE DEF cursor, truncated
<1>11. error \in Errors
  BY DEF Errors
<1>. HIDE DEF error
<1>12. /\ new \in RowType /\ new.id = row[m].id /\ new.cursor = cursor /\ new.until = row[m].until
       /\ new.passed = row[m].passed /\ new.done = row[m].done /\ new.job = row[m].job
  BY <1>4, <1>10, <1>11 DEF RowType
<1>. HIDE DEF new
<1>13. RowIs(m, IF row[m].id = sync[m].id THEN new ELSE row[m])
  BY <1>2, <1>12, RowWrites DEF Types
<1>14. stored[m] \cup handled \in SUBSET Messages
  <2>1. arrived[m] \in Nat /\ stored[m] \in SUBSET Messages
    BY <1>4
  <2>2. 1..arrived[m] \subseteq Messages
    BY <2>1 DEF Messages
  <2>. QED
    BY <1>9, <2>1, <2>2
<1>15. /\ stored' \in [Mailboxes -> SUBSET Messages] /\ stored'[m] = stored[m] \cup handled
       /\ \A n \in Mailboxes \ {m} : stored'[n] = stored[n]
  BY <1>2, <1>4, <1>14
<1>16. /\ lost' \in [Mailboxes -> SUBSET Messages]
       /\ lost'[m] = lost[m] \cup {n \in 1..from : row[m].cursor < n /\ n <= row'[m].cursor}
       /\ \A n \in Mailboxes \ {m} : lost'[n] = lost[n]
  <2> DEFINE over == {n \in 1..from : row[m].cursor < n /\ n <= row'[m].cursor}
  <2>1. over \subseteq Messages
    BY <1>4 DEF Messages
  <2>2. lost' = [lost EXCEPT ![m] = @ \cup over]
    BY <1>3
  <2>. HIDE DEF over
  <2>3. lost[m] \cup over \in SUBSET Messages
    BY <1>4, <2>1
  <2>4. /\ lost' \in [Mailboxes -> SUBSET Messages] /\ lost'[m] = lost[m] \cup over
        /\ \A n \in Mailboxes \ {m} : lost'[n] = lost[n]
    BY <1>4, <2>2, <2>3
  <2>. QED
    BY <2>4 DEF over
<1>17. ASSUME NEW n \in (1..row'[m].cursor) \ (stored'[m] \cup lost'[m]) PROVE n \in Unread(m)
  <2>1. row'[m].cursor \in {cursor, row[m].cursor}
    BY <1>12, <1>13 DEF RowIs
  <2>2. n \in 1..row'[m].cursor /\ n \notin stored[m] /\ n \notin handled /\ n \notin lost[m]
    BY <1>15, <1>16, <1>17
  <2>3. n <= row[m].cursor \/ n > from
    BY <1>4, <1>10, <1>16, <1>17, <2>1, <2>2
  <2>4. n <= row[m].cursor
    BY <1>4, <1>10, <2>1, <2>2, <2>3
  <2>. QED
    BY <1>4, <1>10, <2>1, <2>2, <2>4 DEF Unread
<1>18. Advances(m)
  <2>1. CASE row[m].id = sync[m].id
    BY <1>10, <1>12, <1>13, <1>17, <2>1 DEF Advances, RowIs
  <2>2. CASE row[m].id # sync[m].id
    BY <1>4, <1>13, <1>17, <2>2 DEF Advances, RowIs
  <2>. QED
    BY <2>1, <2>2
<1>. QED
  BY <1>3, <1>15, <1>16, <1>18, SyncEnds DEF Types

-----------------------------------------------------------------------------
(* What a step has to keep.                                                *)

\* The rows, the jobs, the runs and the rest are what they may be.
RowsFit == row \in [Mailboxes -> RowType] /\ \A m \in Mailboxes : RowFits(row[m])
JobsFit == job \in [Jobs -> JobType] /\ \A j \in Jobs : JobFits(job[j])
RunsFit == run \in [Agents -> RunType] /\ \A a \in Agents : RunFits(run[a])
RestFits ==
    /\ scene \in Scenes
    /\ arrived \in [Mailboxes -> Nat]
    /\ stored \in [Mailboxes -> SUBSET Messages] /\ lost \in [Mailboxes -> SUBSET Messages]
    /\ mapped \in [Mailboxes -> BOOLEAN]
    /\ sync \in [Mailboxes -> SyncType]
    /\ cron \in {"idle", "sync"}
    /\ admin \in RequestType /\ (admin.pc = "asked" => admin.of \in Mailboxes)
    /\ rows \in Nat /\ {faults, gaps, ops} \subseteq Nat

\* Together they are what Types says.
LEMMA Parts ==
    /\ Types <=> RowsFit /\ JobsFit /\ RunsFit /\ RestFits
    /\ Types' <=> RowsFit' /\ JobsFit' /\ RunsFit' /\ RestFits'
<1>1. Types <=> RowsFit /\ JobsFit /\ RunsFit /\ RestFits
  BY DEF Types, TypeOK, Shape, RowsFit, JobsFit, RunsFit, RestFits
<1>2. Types' <=> RowsFit' /\ JobsFit' /\ RunsFit' /\ RestFits'
  BY DEF Types, TypeOK, Shape, RowsFit, JobsFit, RunsFit, RestFits
<1>. QED
  BY <1>1, <1>2

\* A sync and a request have read nothing that is not there.
Reads ==
    /\ \A m \in Mailboxes : sync[m].cursor <= arrived[m] /\ sync[m].head <= arrived[m]
    /\ admin.pc = "asked" => admin.head <= arrived[admin.of]

\* No job begins a chunk.
Idles ==
    /\ JobsFit'
    /\ \A k \in Jobs : \/ job'[k] = job[k]
                       \/ job'[k].pc # "chunk" /\ job'[k].passed <= job'[k].until

\* The import of a mailbox stands where it stood, in the same hands or in nobody's yet, and its
\* cursor has not passed over mail.
Keeps(m) ==
    /\ row'[m].id = row[m].id /\ row'[m].until = row[m].until
    /\ row'[m].passed = row[m].passed /\ row'[m].done = row[m].done
    /\ row'[m].job = row[m].job \/ \A k \in Jobs : row'[m].job = k => job'[k].pc # "chunk"
    /\ row'[m].cursor <= arrived'[m]
    /\ Unread(m)' \subseteq Unread(m)

Calm == RowsFit' /\ Idles /\ \A m \in Mailboxes : Keeps(m)

\* No import gets the turn that did not have it.
NoNewHolder == \A m \in Mailboxes : Holds(m)' => Holds(m)

\* Mail may arrive, and none goes.
Grows == \A m \in Mailboxes : arrived[m] <= arrived'[m]

\* A calm step keeps the import of every mailbox ahead of its unread mail.
LEMMA CalmStep ==
    ASSUME IInv, Calm, RunsFit', RestFits', Reads', Grows
    PROVE  Types' /\ Within' /\ Covered'
<1>1. Types'
  BY Parts DEF Calm, Idles
<1>2. RowsFit /\ JobsFit /\ RestFits
  BY Parts DEF IInv
<1>3. ASSUME NEW m \in Mailboxes
      PROVE  /\ row'[m].cursor <= arrived'[m]
             /\ IF row'[m].until = NotPinned THEN row'[m].passed = 0 ELSE row'[m].passed <= row'[m].until
  BY DEF IInv, Within, Calm, Keeps
<1>4. ASSUME NEW k \in Jobs PROVE job'[k].passed <= job'[k].until
  BY DEF IInv, Within, Calm, Idles
<1>5. Within'
  BY <1>3, <1>4 DEF Within, Reads
<1>6. ASSUME NEW m \in Mailboxes
      PROVE  /\ Unread(m)' \subseteq Ahead(m, row[m])'
             /\ \A j \in Jobs : Imports(j, m)' => Unread(m)' \subseteq 1..(job'[j].until - job'[j].passed)
  <2>1. /\ Unread(m) \subseteq Ahead(m, row[m])
        /\ \A j \in Jobs : Imports(j, m) => Unread(m) \subseteq 1..(job[j].until - job[j].passed)
    BY DEF IInv, Covered
  <2>2. Keeps(m)
    BY DEF Calm
  <2>3. Ahead(m, row[m]) \subseteq Ahead(m, row[m])'
    <3>1. arrived[m] \in Nat /\ arrived'[m] \in Nat /\ arrived[m] <= arrived'[m]
      BY <1>2 DEF RestFits, Grows
    <3>2. 1..arrived[m] \subseteq 1..arrived'[m]
      BY <3>1
    <3>. QED
      BY <2>2, <3>2 DEF Keeps, Ahead
  <2>4. ASSUME NEW j \in Jobs, Imports(j, m)' PROVE Imports(j, m) /\ job'[j] = job[j]
    BY <2>2, <2>4 DEF Keeps, Imports, Calm, Idles
  <2>. QED
    BY <2>1, <2>2, <2>3, <2>4 DEF Keeps
<1>7. Covered'
  BY <1>6 DEF Covered
<1>. QED
  BY <1>1, <1>5, <1>7

\* A step that gives no turn leaves one holder.
LEMMA HolderStep ==
    ASSUME OneHolder, NoNewHolder
    PROVE  OneHolder'
BY DEF OneHolder, NoNewHolder

-----------------------------------------------------------------------------
(* The rows, the jobs and the runs after a step.                           *)

\* The runs after a step of one agent.
LEMMA RunsAfter ==
    ASSUME Types, UNCHANGED run \/ \E a \in Agents : Runs(a)
    PROVE  RunsFit'
<1>1. RunsFit
  BY Parts
<1>. QED
  BY <1>1 DEF RunsFit, Runs, RunIs

\* The jobs after a step of one job.
LEMMA JobsAfter ==
    ASSUME Types, Within, UNCHANGED job \/ \E j \in Jobs : Leaves(j)
    PROVE  Idles
<1>1. JobsFit
  BY Parts
<1>2. CASE UNCHANGED job
  BY <1>1, <1>2 DEF Idles, JobsFit
<1>3. ASSUME NEW j \in Jobs, Leaves(j) PROVE Idles
  <2>1. PICK new \in JobType : /\ JobFits(new) /\ JobIs(j, new) /\ new.pc # "chunk"
                               /\ (job[j].passed <= job[j].until => new.passed <= new.until)
    BY <1>3 DEF Leaves
  <2>. QED
    BY <1>1, <2>1 DEF Idles, JobsFit, JobIs, Within
<1>. QED
  BY <1>2, <1>3

\* What a step does to the rows it does not write.
LEMMA KeepsRow ==
    ASSUME Types, Within, Grows, RestFits', NEW m \in Mailboxes, row'[m] = row[m],
           stored[m] \subseteq stored'[m], lost[m] \subseteq lost'[m]
    PROVE  Keeps(m) /\ (Holds(m)' => Holds(m))
<1>1. RowsFit /\ RestFits
  BY Parts
<1>2. row[m].cursor \in Nat /\ arrived[m] \in Nat /\ arrived'[m] \in Nat
  BY <1>1, Fields DEF RowsFit, RestFits
<1>3. row[m].cursor <= arrived'[m]
  BY <1>2 DEF Within, Grows
<1>4. Unread(m)' \subseteq Unread(m)
  BY DEF Unread
<1>. QED
  BY <1>3, <1>4 DEF Keeps, Holds

\* The rows after a step that writes none.
LEMMA RowsRest ==
    ASSUME Types, Within, Grows, RestFits', UNCHANGED <<row, stored, lost>>
    PROVE  RowsFit' /\ NoNewHolder /\ \A m \in Mailboxes : Keeps(m)
<1>1. RowsFit'
  BY Parts DEF RowsFit
<1>2. ASSUME NEW m \in Mailboxes PROVE Keeps(m) /\ (Holds(m)' => Holds(m))
  BY KeepsRow
<1>. QED
  BY <1>1, <1>2 DEF NoNewHolder

\* A row of which only the error is written, or the claim.
LEMMA RowWritten ==
    ASSUME Types, Within, Grows, RestFits', UNCHANGED <<stored, lost>>,
           NEW m \in Mailboxes, NEW new \in RowType, RowIs(m, new),
           new.id = row[m].id, new.cursor = row[m].cursor, new.until = row[m].until,
           new.passed = row[m].passed, new.done = row[m].done, RowFits(new),
           new.job = row[m].job \/ \A k \in Jobs : new.job = k => job'[k].pc # "chunk"
    PROVE  /\ RowsFit' /\ (\A n \in Mailboxes : Keeps(n))
           /\ \A n \in Mailboxes \ {m} : Holds(n)' => Holds(n)
<1>1. RowsFit /\ RestFits
  BY Parts
<1>2. RowsFit'
  BY <1>1 DEF RowsFit, RowIs
<1>3. ASSUME NEW n \in Mailboxes \ {m} PROVE Keeps(n) /\ (Holds(n)' => Holds(n))
  BY <1>3, KeepsRow DEF RowIs
<1>4. Keeps(m)
  <2>1. row[m].cursor \in Nat /\ arrived[m] \in Nat /\ arrived'[m] \in Nat
    BY <1>1, Fields DEF RowsFit, RestFits
  <2>2. row[m].cursor <= arrived'[m]
    BY <2>1 DEF Within, Grows
  <2>3. row'[m] = new
    BY DEF RowIs
  <2>4. Unread(m)' \subseteq Unread(m)
    BY <2>3 DEF Unread
  <2>. QED
    BY <2>2, <2>3, <2>4 DEF Keeps
<1>. QED
  BY <1>2, <1>3, <1>4

\* The rows after an error is written.
LEMMA ErrsKeeps ==
    ASSUME Types, Within, Grows, RestFits', UNCHANGED <<stored, lost>>,
           NEW m \in Mailboxes, Errs(m)
    PROVE  RowsFit' /\ NoNewHolder /\ \A n \in Mailboxes : Keeps(n)
<1>1. PICK new \in RowType :
        /\ RowIs(m, new) /\ new.id = row[m].id /\ new.cursor = row[m].cursor /\ new.until = row[m].until
        /\ new.passed = row[m].passed /\ new.done = row[m].done /\ new.job = row[m].job
  BY DEF Errs
<1>2. RowFits(new)
  BY <1>1 DEF Types, Shape, RowFits
<1>3. /\ RowsFit' /\ (\A n \in Mailboxes : Keeps(n))
      /\ \A n \in Mailboxes \ {m} : Holds(n)' => Holds(n)
  BY <1>1, <1>2, RowWritten
<1>4. Holds(m)' => Holds(m)
  BY <1>1 DEF Holds, RowIs
<1>. QED
  BY <1>3, <1>4 DEF NoNewHolder

-----------------------------------------------------------------------------
(* The steps of ensureBackfillJobs.                                        *)

\* A step that keeps every mailbox's import and gives no turn.
LEMMA QuietStep ==
    ASSUME IInv, Calm, NoNewHolder, RunsFit', RestFits', Reads', Grows
    PROVE  IInv'
<1>1. Types' /\ Within' /\ Covered'
  BY CalmStep
<1>2. OneHolder'
  BY HolderStep DEF IInv
<1>. QED
  BY <1>1, <1>2 DEF IInv

\* What a step leaves alone, but for a fault.
LEMMA RestSame ==
    ASSUME IInv, faults' = faults \/ Faulty,
           UNCHANGED <<scene, arrived, stored, lost, mapped, sync, cron, admin, rows, gaps, ops>>
    PROVE  RestFits' /\ Reads' /\ Grows
<1>1. RestFits
  BY Parts DEF IInv
<1>2. RestFits'
  BY <1>1 DEF RestFits, Faulty
<1>3. Reads'
  BY DEF IInv, Within, Reads
<1>4. Grows
  BY <1>1 DEF Grows, RestFits
<1>. QED
  BY <1>2, <1>3, <1>4

\* The steps of a run that write no row.
LEMMA LookCheckStep ==
    ASSUME IInv, NEW a \in Agents, Look(a) \/ Check(a) \/ Create(a) \/ CreateFails(a)
    PROVE  IInv'
<1>1. Runs(a)
  BY LookMoves, CheckMoves, CreateMoves, CreateFailsMoves DEF IInv
<1>2. RunsFit'
  BY <1>1, RunsAfter DEF IInv
<1>3. RestFits' /\ Reads' /\ Grows
  BY RestSame DEF Look, Check, Create, CreateFails, runUnchanged
<1>4. UNCHANGED <<row, stored, lost>>
  BY DEF Look, Check, Create, CreateFails, runUnchanged
<1>5. RowsFit' /\ NoNewHolder /\ \A m \in Mailboxes : Keeps(m)
  BY <1>3, <1>4, RowsRest DEF IInv
<1>6. Idles
  <2>1. CASE UNCHANGED job
    BY <2>1, JobsAfter DEF IInv
  <2>2. CASE Create(a)
    <3>1. PICK j \in Jobs : \E new \in JobType :
                              JobIs(j, new) /\ JobFits(new) /\ new.pc # "chunk" /\ new.passed <= new.until
      BY <2>2, CreateMoves DEF IInv
    <3>2. Leaves(j)
      BY <3>1 DEF Leaves
    <3>. QED
      BY <3>2, JobsAfter DEF IInv
  <2>. QED
    BY <2>1, <2>2 DEF Look, Check, CreateFails
<1>. QED
  BY <1>2, <1>3, <1>5, <1>6, QuietStep DEF Calm

\* A claim released takes the turn from its row.
LEMMA ReleaseStep ==
    ASSUME IInv, NEW a \in Agents, Release(a)
    PROVE  IInv'
<1>0. PICK m \in Mailboxes : m = run[a].of
  BY ReleaseMoves DEF IInv
<1> DEFINE r == run[a]
           free == [row[m] EXCEPT !.job = None]
<1>1. /\ Runs(a) /\ free \in RowType
      /\ RowIs(m, IF row[m].id = r.id /\ row[m].job = r.job THEN free ELSE row[m])
  BY <1>0, ReleaseMoves DEF IInv
<1>2. RunsFit'
  BY <1>1, RunsAfter DEF IInv
<1>3. RestFits' /\ Reads' /\ Grows
  BY RestSame DEF Release, runUnchanged
<1>4. UNCHANGED <<stored, lost, job>>
  BY DEF Release, runUnchanged
<1>5. Idles
  BY <1>4, JobsAfter DEF IInv
<1>6. row[m] \in RowType /\ RowFits(row[m]) /\ r.job \in OutOf(Jobs)
  BY <1>1, Parts, Fields DEF IInv, RowsFit, RunsFit
<1>7. CASE row[m].id = r.id /\ row[m].job = r.job
  <2>1. /\ free.id = row[m].id /\ free.cursor = row[m].cursor /\ free.until = row[m].until
        /\ free.passed = row[m].passed /\ free.done = row[m].done /\ free.job = None
    BY <1>6, RowClaims DEF OutOf
  <2>2. RowIs(m, free)
    BY <1>1, <1>7
  <2>. HIDE DEF free
  <2>3. RowFits(free)
    BY <1>6, <1>7, <2>1, Consts DEF RowFits, OutOf
  <2>4. \A k \in Jobs : free.job # k
    BY <2>1, Consts
  <2>5. /\ RowsFit' /\ (\A n \in Mailboxes : Keeps(n))
        /\ \A n \in Mailboxes \ {m} : Holds(n)' => Holds(n)
    BY <1>1, <1>3, <1>4, <2>1, <2>2, <2>3, <2>4, RowWritten DEF IInv
  <2>6. ~Holds(m)'
    BY <2>1, <2>2 DEF Holds, RowIs
  <2>7. NoNewHolder
    BY <2>5, <2>6 DEF NoNewHolder
  <2>. QED
    BY <1>2, <1>3, <1>5, <2>5, <2>7, QuietStep DEF Calm
<1>8. CASE ~(row[m].id = r.id /\ row[m].job = r.job)
  <2>1. RowIs(m, row[m])
    BY <1>1, <1>8
  <2>. HIDE DEF free
  <2>2. /\ RowsFit' /\ (\A n \in Mailboxes : Keeps(n))
        /\ \A n \in Mailboxes \ {m} : Holds(n)' => Holds(n)
    BY <1>1, <1>3, <1>4, <1>6, <2>1, RowWritten DEF IInv
  <2>3. NoNewHolder
    BY <2>1, <2>2 DEF NoNewHolder, Holds, RowIs
  <2>. QED
    BY <1>2, <1>3, <1>5, <2>2, <2>3, QuietStep DEF Calm
<1>. QED
  BY <1>7, <1>8

\* The claim looks at every mailbox's row, whatever the run read of them before.
LEMMA ClaimStep ==
    ASSUME IInv, NEW a \in Agents, Claim(a)
    PROVE  IInv'
<1>1. Runs(a) /\ (UNCHANGED row \/ \E m \in Mailboxes, j \in Jobs : Claims(m, j))
  BY ClaimMoves DEF IInv
<1>2. RunsFit'
  BY <1>1, RunsAfter DEF IInv
<1>3. RestFits' /\ Reads' /\ Grows
  BY RestSame DEF Claim, runUnchanged
<1>4. UNCHANGED <<stored, lost, job>>
  BY DEF Claim, runUnchanged
<1>5. Idles
  BY <1>4, JobsAfter DEF IInv
<1>6. CASE UNCHANGED row
  <2>1. RowsFit' /\ NoNewHolder /\ \A m \in Mailboxes : Keeps(m)
    BY <1>3, <1>4, <1>6, RowsRest DEF IInv
  <2>. QED
    BY <1>2, <1>3, <1>5, <2>1, QuietStep DEF Calm
<1>7. ASSUME NEW m \in Mailboxes, NEW j \in Jobs, Claims(m, j) PROVE IInv'
  <2> DEFINE claimed == [row[m] EXCEPT !.job = j]
  <2>1. row[m] \in RowType /\ RowFits(row[m])
    BY Parts DEF IInv, RowsFit
  <2>2. /\ claimed \in RowType /\ claimed.id = row[m].id /\ claimed.cursor = row[m].cursor
        /\ claimed.until = row[m].until /\ claimed.passed = row[m].passed
        /\ claimed.done = row[m].done /\ claimed.job = j
    BY <2>1, RowClaims DEF OutOf
  <2>3. RowIs(m, claimed) /\ job[j].pc = "dead" /\ ~row[m].done /\ TurnIsFree
    BY <1>7 DEF Claims
  <2>. HIDE DEF claimed
  <2>4. RowFits(claimed)
    BY <2>2, <2>3, Consts DEF RowFits, OutOf
  <2>5. \A k \in Jobs : claimed.job = k => job'[k].pc # "chunk"
    BY <1>4, <2>2, <2>3
  <2>6. /\ RowsFit' /\ (\A n \in Mailboxes : Keeps(n))
        /\ \A n \in Mailboxes \ {m} : Holds(n)' => Holds(n)
    BY <1>3, <1>4, <2>2, <2>3, <2>4, <2>5, RowWritten DEF IInv
  <2>7. \A n \in Mailboxes : ~Holds(n)
    BY <2>3 DEF TurnIsFree, Holds
  <2>8. OneHolder'
    BY <2>6, <2>7 DEF OneHolder
  <2>9. Types' /\ Within' /\ Covered'
    BY <1>2, <1>3, <1>5, <2>6, CalmStep DEF Calm
  <2>. QED
    BY <2>8, <2>9 DEF IInv
<1>. QED
  BY <1>1, <1>6, <1>7

-----------------------------------------------------------------------------
(* The steps of the import's jobs.                                         *)

\* A chunk begins at the import's resume point, above all that is still unread.
LEMMA BeginsStep ==
    ASSUME IInv, NEW j \in Jobs, ReadChunk(j), Begins(j), UNCHANGED row
    PROVE  IInv'
<1>0. PICK m \in Mailboxes : m = job[j].of
  BY ReadChunkMoves DEF IInv
<1>1. PICK new \in JobType :
        /\ JobFits(new) /\ JobIs(j, new) /\ new.pc = "chunk" /\ new.of = m /\ new.id = job[j].id
        /\ new.until = Window(row[m], m) /\ new.passed = row[m].passed
  BY <1>0 DEF Begins
<1>2. row[m].job = j /\ ~row[m].done
  BY <1>0 DEF Begins
<1>3. RestFits' /\ Reads' /\ Grows
  BY RestSame DEF ReadChunk, jobUnchanged
<1>4. UNCHANGED <<row, stored, lost, arrived, run>>
  BY DEF ReadChunk, jobUnchanged
<1>5. RowsFit' /\ NoNewHolder /\ \A n \in Mailboxes : Keeps(n)
  BY <1>3, <1>4, RowsRest DEF IInv
<1>6. JobsFit'
  BY <1>1, Parts DEF IInv, JobsFit, JobIs
<1>7. RunsFit'
  BY <1>4, RunsAfter DEF IInv
<1>8. Types'
  BY <1>3, <1>5, <1>6, <1>7, Parts
<1>9. /\ arrived[m] \in Nat /\ row[m].until \in Nat \cup {NotPinned} /\ row[m].passed \in Nat
      /\ IF row[m].until = NotPinned THEN row[m].passed = 0 ELSE row[m].passed <= row[m].until
  BY Parts, Fields DEF IInv, RowsFit, RestFits, Within
<1>10. new.passed <= new.until
  BY <1>1, <1>9 DEF Window
<1>11. Ahead(m, row[m]) = 1..(new.until - new.passed)
  BY <1>1, <1>2, <1>9 DEF Ahead, Window
<1>12. Within'
  <2>1. ASSUME NEW n \in Mailboxes
        PROVE  /\ row'[n].cursor <= arrived'[n]
               /\ IF row'[n].until = NotPinned THEN row'[n].passed = 0 ELSE row'[n].passed <= row'[n].until
    BY <1>4 DEF IInv, Within
  <2>2. ASSUME NEW k \in Jobs PROVE job'[k].passed <= job'[k].until
    BY <1>1, <1>10 DEF IInv, Within, JobIs
  <2>. QED
    BY <1>3, <2>1, <2>2 DEF Within, Reads
<1>13. Covered'
  <2>1. ASSUME NEW n \in Mailboxes
        PROVE  /\ Unread(n)' = Unread(n) /\ Ahead(n, row[n])' = Ahead(n, row[n])
               /\ Unread(n) \subseteq Ahead(n, row[n])
    BY <1>4 DEF Unread, Ahead, IInv, Covered
  <2>2. ASSUME NEW n \in Mailboxes, NEW k \in Jobs, Imports(k, n)'
        PROVE  Unread(n)' \subseteq 1..(job'[k].until - job'[k].passed)
    <3>1. CASE k = j
      <4>1. job'[k] = new /\ n = m
        BY <1>1, <2>2, <3>1 DEF Imports, JobIs
      <4>. QED
        BY <1>11, <2>1, <4>1
    <3>2. CASE k # j
      <4>1. job'[k] = job[k] /\ Imports(k, n)
        BY <1>1, <1>4, <2>2, <3>2 DEF Imports, JobIs
      <4>. QED
        BY <2>1, <4>1 DEF IInv, Covered
    <3>. QED
      BY <3>1, <3>2
  <2>. QED
    BY <2>1, <2>2 DEF Covered
<1>14. OneHolder'
  BY <1>5, HolderStep DEF IInv
<1>. QED
  BY <1>8, <1>12, <1>13, <1>14 DEF IInv

\* A job begins a chunk or ends.
LEMMA ReadChunkStep ==
    ASSUME IInv, NEW j \in Jobs, ReadChunk(j)
    PROVE  IInv'
<1>0. PICK m \in Mailboxes : m = job[j].of
  BY ReadChunkMoves DEF IInv
<1>1. \/ Begins(j) /\ UNCHANGED row
      \/ Leaves(j) /\ (UNCHANGED row \/ Errs(m))
  BY <1>0, ReadChunkMoves DEF IInv
<1>2. CASE Begins(j) /\ UNCHANGED row
  BY <1>2, BeginsStep
<1>3. CASE Leaves(j) /\ (UNCHANGED row \/ Errs(m))
  <2>1. Idles
    BY <1>3, JobsAfter DEF IInv
  <2>2. RestFits' /\ Reads' /\ Grows
    BY RestSame DEF ReadChunk, jobUnchanged
  <2>3. UNCHANGED <<stored, lost, run>>
    BY DEF ReadChunk
  <2>4. RunsFit'
    BY <2>3, RunsAfter DEF IInv
  <2>5. RowsFit' /\ NoNewHolder /\ \A n \in Mailboxes : Keeps(n)
    BY <1>3, <2>2, <2>3, RowsRest, ErrsKeeps DEF IInv
  <2>. QED
    BY <2>1, <2>2, <2>4, <2>5, QuietStep DEF Calm
<1>. QED
  BY <1>1, <1>2, <1>3

\* A chunk that throws, a job that dies, and a successor that is made or not.
LEMMA ThrowChunkMoves ==
    ASSUME Types, NEW j \in Jobs, ThrowChunk(j)
    PROVE  Leaves(j)
<1> DEFINE new == [job[j] EXCEPT !.pc = "ready", !.until = 0, !.passed = 0]
<1>1. job[j] \in JobType /\ JobFits(job[j]) /\ job[j].pc = "chunk"
  BY Parts DEF JobsFit, ThrowChunk
<1>2. /\ new \in JobType /\ new.pc = "ready" /\ new.of = job[j].of /\ new.chunks = job[j].chunks
      /\ new.passed = 0 /\ new.until = 0
  BY <1>1 DEF JobType
<1>3. job' = [job EXCEPT ![j] = new]
  BY DEF ThrowChunk
<1>. HIDE DEF new
<1>4. JobFits(new)
  BY <1>1, <1>2 DEF JobFits
<1>5. JobIs(j, new)
  BY <1>2, <1>3, JobWrites DEF Types
<1>6. new.pc # "chunk" /\ new.passed <= new.until
  BY <1>2
<1>. QED
  BY <1>2, <1>4, <1>5, <1>6 DEF Leaves

\* A successor that is made has no chunk under way.
LEMMA SuccessorMoves ==
    ASSUME Types, Within, NEW j \in Jobs, CreateSuccessor(j)
    PROVE  Idles
<1>1. job[j].next \in Jobs /\ job[j].of \in Mailboxes /\ job[j].id \in Nat
  BY Parts, Fields DEF JobsFit, CreateSuccessor, JobFits
<1>2. CASE job' = [job EXCEPT ![j] = NoJob]
  BY <1>2, NoJobLeaves, JobsAfter DEF Types
<1>3. CASE job' = [job EXCEPT ![j] = NoJob, ![job[j].next] = NewJob(job[j].of, job[j].id)]
  <2> DEFINE new == NewJob(job[j].of, job[j].id)
  <2>1. new \in JobType /\ JobFits(new) /\ NoJob \in JobType /\ JobFits(NoJob)
    BY <1>1, Records, AtRest DEF OutOf
  <2>2. new.pc = "ready" /\ new.passed = 0 /\ new.until = 0
    BY DEF NewJob, NoJob
  <2>3. NoJob.pc = "dead" /\ NoJob.passed = 0 /\ NoJob.until = 0
    BY DEF NoJob
  <2>. HIDE DEF new
  <2>4. job \in [Jobs -> JobType] /\ \A k \in Jobs : JobFits(job[k])
    BY Parts DEF JobsFit
  <2>5. job' \in [Jobs -> JobType] /\ \A k \in Jobs : job'[k] \in {job[k], new, NoJob}
    BY <1>1, <1>3, <2>1, <2>4 DEF new
  <2>. QED
    BY <2>1, <2>2, <2>3, <2>4, <2>5 DEF Idles, JobsFit
<1>. QED
  BY <1>2, <1>3 DEF CreateSuccessor

\* A chunk, a job or a successor comes to nothing, or a successor starts.
LEMMA JobEndsStep ==
    ASSUME IInv, NEW j \in Jobs, ThrowChunk(j) \/ DieJob(j) \/ CreateSuccessor(j)
    PROVE  IInv'
<1>1. Idles
  <2>1. CASE ThrowChunk(j)
    BY <2>1, ThrowChunkMoves, JobsAfter DEF IInv
  <2>2. CASE DieJob(j)
    BY <2>2, NoJobLeaves, JobsAfter DEF IInv, Types, DieJob
  <2>3. CASE CreateSuccessor(j)
    BY <2>3, SuccessorMoves DEF IInv
  <2>. QED
    BY <2>1, <2>2, <2>3
<1>2. RestFits' /\ Reads' /\ Grows
  BY RestSame DEF ThrowChunk, DieJob, CreateSuccessor, jobUnchanged
<1>3. UNCHANGED <<row, stored, lost>>
  BY DEF ThrowChunk, DieJob, CreateSuccessor
<1>4. RowsFit' /\ NoNewHolder /\ \A m \in Mailboxes : Keeps(m)
  BY <1>2, <1>3, RowsRest DEF IInv
<1>5. RunsFit'
  <2>1. CASE UNCHANGED run
    BY <2>1, RunsAfter DEF IInv
  <2>2. CASE run' = [run EXCEPT ![j] = NoRun]
    <3>1. j \in Agents
      BY Consts
    <3>2. Runs(j)
      BY <2>2, <3>1, Records, AtRest, RunWrites DEF IInv, Types, Runs
    <3>. QED
      BY <3>1, <3>2, RunsAfter DEF IInv
  <2>. QED
    BY <2>1, <2>2 DEF ThrowChunk, DieJob, CreateSuccessor
<1>. QED
  BY <1>1, <1>2, <1>4, <1>5, QuietStep DEF Calm

\* The turn passes to a job that has not begun.
LEMMA HandOffStep ==
    ASSUME IInv, NEW j \in Jobs, HandOff(j)
    PROVE  IInv'
<1>0. PICK m \in Mailboxes : m = job[j].of
  BY DEF HandOff, IInv, Types, Shape, JobFits
<1>1. job[j] \in JobType /\ row[m] \in RowType /\ RowFits(row[m])
  BY Parts DEF IInv, JobsFit, RowsFit
<1>2. RestFits' /\ Reads' /\ Grows
  BY RestSame DEF HandOff, jobUnchanged
<1>3. UNCHANGED <<stored, lost, run>>
  BY DEF HandOff
<1>4. RunsFit'
  BY <1>3, RunsAfter DEF IInv
<1>5. \/ /\ row[m].job = j /\ ~row[m].done /\ FreeJobs # {}
         /\ row' = [row EXCEPT ![m].job = FreshJob]
         /\ job' = [job EXCEPT ![j].pc = "create", ![j].next = FreshJob]
      \/ UNCHANGED row /\ job' = [job EXCEPT ![j] = NoJob]
  BY <1>0 DEF HandOff
<1>6. CASE UNCHANGED row /\ job' = [job EXCEPT ![j] = NoJob]
  <2>1. Idles
    BY <1>6, NoJobLeaves, JobsAfter DEF IInv, Types
  <2>2. RowsFit' /\ NoNewHolder /\ \A n \in Mailboxes : Keeps(n)
    BY <1>2, <1>3, <1>6, RowsRest DEF IInv
  <2>. QED
    BY <1>2, <1>4, <2>1, <2>2, QuietStep DEF Calm
<1>7. CASE /\ row[m].job = j /\ ~row[m].done /\ FreeJobs # {}
           /\ row' = [row EXCEPT ![m].job = FreshJob]
           /\ job' = [job EXCEPT ![j].pc = "create", ![j].next = FreshJob]
  <2>1. PICK f \in Jobs : f = FreshJob /\ job[f].pc = "dead"
    BY <1>7, FreshJobIn
  <2> DEFINE made == [job[j] EXCEPT !.pc = "create", !.next = f]
             handed == [row[m] EXCEPT !.job = f]
  <2>2. /\ made \in JobType /\ made.pc = "create" /\ made.of = job[j].of /\ made.next = f
        /\ made.passed = job[j].passed /\ made.until = job[j].until
    BY <1>1 DEF JobType, OutOf
  <2>3. job' = [job EXCEPT ![j] = made] /\ row' = [row EXCEPT ![m] = handed]
    BY <1>7, <2>1
  <2>. HIDE DEF made
  <2>4. JobIs(j, made) /\ JobFits(made)
    BY <1>0, <2>2, <2>3, JobWrites DEF IInv, Types, JobFits
  <2>5. Idles
    <3>1. Leaves(j)
      BY <2>2, <2>4 DEF Leaves
    <3>. QED
      BY <3>1, JobsAfter DEF IInv
  <2>6. /\ handed \in RowType /\ handed.id = row[m].id /\ handed.cursor = row[m].cursor
        /\ handed.until = row[m].until /\ handed.passed = row[m].passed
        /\ handed.done = row[m].done /\ handed.job = f
    BY <1>1, RowClaims DEF OutOf
  <2>. HIDE DEF handed
  <2>7. RowIs(m, handed) /\ RowFits(handed)
    BY <1>7, <2>3, <2>6, RowWrites, Consts DEF IInv, Types, RowFits, OutOf
  <2>8. \A k \in Jobs : handed.job = k => job'[k].pc # "chunk"
    BY <2>1, <2>2, <2>4, <2>6 DEF JobIs
  <2>9. /\ RowsFit' /\ (\A n \in Mailboxes : Keeps(n))
        /\ \A n \in Mailboxes \ {m} : Holds(n)' => Holds(n)
    BY <1>2, <1>3, <2>6, <2>7, <2>8, RowWritten DEF IInv
  <2>10. Holds(m)
    BY <1>7, Consts DEF Holds
  <2>11. NoNewHolder
    BY <2>9, <2>10 DEF NoNewHolder
  <2>. QED
    BY <1>2, <1>4, <2>5, <2>9, <2>11, QuietStep DEF Calm
<1>. QED
  BY <1>5, <1>6, <1>7

\* A chunk brings the import down to where it has got, and all that is unread is below; a chunk of
\* a job that is no longer the row's may save a point below it, which is what lost takes.
LEMMA FinishChunkStep ==
    ASSUME IInv, NEW j \in Jobs, FinishChunk(j)
    PROVE  IInv'
<1>0. PICK m \in Mailboxes : m = job[j].of
  BY FinishChunkMoves DEF IInv
<1> DEFINE top == job[j].until - job[j].passed
           mine == row[m].id = job[j].id
<1>1. /\ Leaves(j) /\ (UNCHANGED run \/ Runs(j)) /\ job[j].pc = "chunk"
      /\ lost' = IF mine /\ row[m].job # j
                 THEN [lost EXCEPT ![m] = @ \cup ((1..arrived[m]) \ (stored'[m] \cup Reachable(m, row'[m])))]
                 ELSE lost
  BY <1>0, FinishChunkMoves DEF IInv, FinishChunk
<1>2. PICK low \in 0..top : /\ Saved(m, j, low)
                            /\ stored' = [stored EXCEPT ![m] = @ \cup ((low + 1)..top)]
  BY <1>0, FinishChunkMoves DEF IInv
<1>3. PICK new \in RowType :
        /\ RowIs(m, IF mine THEN new ELSE row[m])
        /\ new.id = row[m].id /\ new.cursor = row[m].cursor
        /\ new.until = job[j].until /\ new.passed = job[j].until - low
        /\ \/ new.done = row[m].done /\ new.job = row[m].job
           \/ new.done /\ new.job = Ended /\ low = 0
  BY <1>2 DEF Saved
<1>4. /\ RowsFit /\ JobsFit /\ RunsFit /\ RestFits
      /\ job[j].until \in Nat /\ job[j].passed \in Nat /\ job[j].passed <= job[j].until
      /\ row[m].cursor \in Nat /\ arrived[m] \in Nat /\ row[m].cursor <= arrived[m]
      /\ RowFits(row[m])
  BY Parts, Fields DEF IInv, Within, RowsFit, JobsFit, RestFits
<1>5. UNCHANGED <<arrived, scene, mapped, sync, cron, admin, rows, gaps, ops, faults>>
  BY DEF FinishChunk, jobUnchanged
<1>6. Idles /\ RunsFit'
  <2>1. j \in Agents
    BY Consts
  <2>. QED
    BY <1>1, <2>1, JobsAfter, RunsAfter DEF IInv
<1>7. RowsFit'
  <2>1. RowFits(new)
    BY <1>3, <1>4 DEF RowFits
  <2>. QED
    BY <1>3, <1>4, <2>1 DEF RowsFit, RowIs
<1>8. /\ stored' \in [Mailboxes -> SUBSET Messages]
      /\ stored'[m] = stored[m] \cup ((low + 1)..top)
      /\ \A n \in Mailboxes \ {m} : stored'[n] = stored[n]
  <2>1. (low + 1)..top \subseteq Messages
    BY <1>4 DEF Messages
  <2>2. stored[m] \cup ((low + 1)..top) \in SUBSET Messages
    BY <1>4, <2>1 DEF RestFits
  <2>. QED
    BY <1>2, <1>4, <2>2 DEF RestFits
<1>9. /\ lost' \in [Mailboxes -> SUBSET Messages] /\ lost[m] \subseteq lost'[m]
      /\ \A n \in Mailboxes \ {m} : lost'[n] = lost[n]
      /\ mine /\ row[m].job # j =>
           1..arrived[m] \subseteq stored'[m] \cup Reachable(m, row'[m]) \cup lost'[m]
  <2> DEFINE over == (1..arrived[m]) \ (stored'[m] \cup Reachable(m, row'[m]))
  <2>1. 1..arrived[m] \subseteq Messages
    BY <1>4 DEF Messages
  <2>2. over \subseteq Messages /\ 1..arrived[m] \subseteq stored'[m] \cup Reachable(m, row'[m]) \cup over
    BY <2>1
  <2>3. lost' = IF mine /\ row[m].job # j THEN [lost EXCEPT ![m] = @ \cup over] ELSE lost
    BY <1>1
  <2>4. lost \in [Mailboxes -> SUBSET Messages]
    BY <1>4 DEF RestFits
  <2>. HIDE DEF over
  <2>5. lost[m] \cup over \in SUBSET Messages
    BY <2>2, <2>4
  <2>6. CASE mine /\ row[m].job # j
    BY <2>2, <2>3, <2>4, <2>5, <2>6
  <2>7. CASE ~(mine /\ row[m].job # j)
    BY <2>3, <2>4, <2>7
  <2>. QED
    BY <2>6, <2>7
<1>10. RestFits'
  BY <1>4, <1>5, <1>8, <1>9 DEF RestFits
<1>11. Types'
  BY <1>6, <1>7, <1>10, Parts DEF Idles
<1>12. ASSUME NEW n \in Mailboxes \ {m} PROVE row'[n] = row[n] /\ Unread(n)' = Unread(n)
  <2>1. row'[n] = row[n] /\ stored'[n] = stored[n] /\ lost'[n] = lost[n]
    BY <1>3, <1>8, <1>9, <1>12 DEF RowIs
  <2>. QED
    BY <2>1 DEF Unread
<1>13. row'[m].cursor = row[m].cursor /\ Unread(m)' \subseteq Unread(m) \ ((low + 1)..top)
  <2>1. row'[m].cursor = row[m].cursor
    BY <1>3 DEF RowIs
  <2>. QED
    BY <1>8, <1>9, <2>1 DEF Unread
<1>14. Within'
  <2>1. ASSUME NEW n \in Mailboxes
        PROVE  /\ row'[n].cursor <= arrived'[n]
               /\ IF row'[n].until = NotPinned THEN row'[n].passed = 0 ELSE row'[n].passed <= row'[n].until
    <3>1. CASE n # m \/ ~mine
      <4>1. row'[n] = row[n]
        BY <1>3, <1>12, <3>1 DEF RowIs
      <4>. QED
        BY <1>5, <4>1 DEF IInv, Within
    <3>2. CASE n = m /\ mine
      <4>1. row'[n] = new
        BY <1>3, <3>2 DEF RowIs
      <4>2. new.until # NotPinned /\ new.passed <= new.until
        BY <1>3, <1>4 DEF NotPinned
      <4>. QED
        BY <1>3, <1>4, <1>5, <3>2, <4>1, <4>2
    <3>. QED
      BY <3>1, <3>2
  <2>2. ASSUME NEW k \in Jobs PROVE job'[k].passed <= job'[k].until
    BY <1>6 DEF IInv, Within, Idles
  <2>. QED
    BY <1>5, <2>1, <2>2 DEF IInv, Within
<1>15. ASSUME NEW k \in Jobs, NEW n \in Mailboxes, Imports(k, n)' PROVE Imports(k, n) /\ job'[k] = job[k]
  <2>1. job'[k] = job[k]
    BY <1>6, <1>15 DEF Imports, Idles
  <2>2. row'[n].id = row[n].id /\ (row'[n].job = row[n].job \/ row'[n].job = Ended)
    BY <1>3, <1>12 DEF RowIs
  <2>3. row'[n].job # Ended
    BY <1>15, Consts DEF Imports, OutOf
  <2>. QED
    BY <1>15, <2>1, <2>2, <2>3 DEF Imports
<1>16. Unread(m)' \subseteq Ahead(m, row[m])'
  <2>1. CASE ~mine
    <3>1. row'[m] = row[m]
      BY <1>3, <2>1 DEF RowIs
    <3>. QED
      BY <1>5, <1>13, <3>1 DEF Ahead, IInv, Covered
  <2>2. CASE mine /\ row[m].job = j
    <3>1. Unread(m) \subseteq 1..top
      BY <1>0, <1>1, <2>2 DEF Imports, IInv, Covered
    <3>2. Unread(m)' \subseteq 1..low
      BY <1>4, <1>13, <3>1
    <3>3. row'[m] = new
      BY <1>3, <2>2 DEF RowIs
    <3>4. new.until # NotPinned /\ new.until - new.passed = low
      BY <1>3, <1>4 DEF NotPinned
    <3>5. CASE new.done /\ low = 0
      BY <3>2, <3>5
    <3>6. CASE new.done = row[m].done
      <4>1. ~new.done
        BY <1>4, <2>2, <3>6, Consts DEF RowFits, OutOf
      <4>. QED
        BY <3>2, <3>3, <3>4, <4>1 DEF Ahead
    <3>. QED
      BY <1>3, <3>5, <3>6
  <2>3. CASE mine /\ row[m].job # j
    <3>1. ASSUME NEW i \in Unread(m)' PROVE i \in Ahead(m, row[m])'
      <4>1. i \in 1..row[m].cursor /\ i \notin stored'[m] /\ i \notin lost'[m]
        BY <1>13, <3>1 DEF Unread
      <4>2. i \in 1..arrived[m] /\ ~(i > row'[m].cursor)
        BY <1>4, <1>13, <4>1
      <4>3. i \in Reachable(m, row'[m])
        BY <1>9, <2>3, <4>1, <4>2
      <4>4. i \in Ahead(m, row'[m])
        BY <4>2, <4>3 DEF Reachable
      <4>. QED
        BY <1>5, <4>4 DEF Ahead
    <3>. QED
      BY <3>1
  <2>. QED
    BY <2>1, <2>2, <2>3
<1>17. Covered'
  <2>1. ASSUME NEW n \in Mailboxes PROVE Unread(n)' \subseteq Ahead(n, row[n])'
    <3>1. CASE n = m
      BY <1>16, <3>1
    <3>2. CASE n # m
      BY <1>5, <1>12, <3>2 DEF Ahead, IInv, Covered
    <3>. QED
      BY <3>1, <3>2
  <2>2. ASSUME NEW n \in Mailboxes, NEW k \in Jobs, Imports(k, n)'
        PROVE  Unread(n)' \subseteq 1..(job'[k].until - job'[k].passed)
    <3>1. Imports(k, n) /\ job'[k] = job[k]
      BY <1>15, <2>2
    <3>2. Unread(n)' \subseteq Unread(n)
      BY <1>12, <1>13
    <3>. QED
      BY <3>1, <3>2 DEF IInv, Covered
  <2>. QED
    BY <2>1, <2>2 DEF Covered
<1>18. NoNewHolder
  <2>1. ASSUME NEW n \in Mailboxes, Holds(n)' PROVE Holds(n)
    <3>1. row'[n].done \/ (row'[n].done = row[n].done /\ row'[n].job = row[n].job)
      BY <1>3, <1>12 DEF RowIs
    <3>. QED
      BY <2>1, <3>1 DEF Holds
  <2>. QED
    BY <2>1 DEF NoNewHolder
<1>. QED
  BY <1>11, <1>14, <1>17, <1>18, HolderStep DEF IInv

-----------------------------------------------------------------------------
(* The steps of the mailboxes and of the hourly pass.                      *)

\* Mail that arrives is beyond every cursor and window.
LEMMA ArriveStep ==
    ASSUME IInv, NEW m \in Mailboxes, Arrive(m)
    PROVE  IInv'
<1>1. /\ arrived' = [arrived EXCEPT ![m] = @ + 1]
      /\ UNCHANGED <<scene, stored, row, mapped, job, sync, run, cron, admin, rows, lost, faults, gaps, ops>>
  BY DEF Arrive
<1>2. RestFits
  BY Parts DEF IInv
<1>3. arrived' \in [Mailboxes -> Nat]
  BY <1>1, <1>2 DEF RestFits
<1>4. RestFits'
  BY <1>1, <1>2, <1>3 DEF RestFits
<1>5. Grows
  BY <1>1, <1>2 DEF RestFits, Grows
<1>6. Reads'
  <2>1. ASSUME NEW n \in Mailboxes
        PROVE  sync[n].cursor \in Nat /\ sync[n].head \in Nat /\ arrived[n] \in Nat /\ arrived'[n] \in Nat
    BY <1>2, <1>3, Fields DEF RestFits
  <2>2. admin.head \in Nat
    BY <1>2, Fields DEF RestFits
  <2>3. ASSUME NEW n \in Mailboxes PROVE sync'[n].cursor <= arrived'[n] /\ sync'[n].head <= arrived'[n]
    BY <1>1, <1>5, <2>1 DEF IInv, Within, Grows
  <2>4. ASSUME admin'.pc = "asked" PROVE admin'.head <= arrived'[admin'.of]
    BY <1>1, <1>2, <1>5, <2>1, <2>2, <2>4 DEF IInv, Within, Grows, RestFits
  <2>. QED
    BY <2>3, <2>4 DEF Reads
<1>7. RowsFit' /\ NoNewHolder /\ \A n \in Mailboxes : Keeps(n)
  BY <1>1, <1>4, <1>5, RowsRest DEF IInv
<1>8. Idles /\ RunsFit'
  BY <1>1, JobsAfter, RunsAfter DEF IInv
<1>. QED
  BY <1>4, <1>5, <1>6, <1>7, <1>8, QuietStep DEF Calm

\* What a sync leaves alone.
LEMMA SyncRest ==
    ASSUME IInv, NEW m \in Mailboxes, Syncs(m), syncUnchanged, UNCHANGED run,
           stored' \in [Mailboxes -> SUBSET Messages], lost' \in [Mailboxes -> SUBSET Messages],
           {faults', gaps'} \subseteq Nat
    PROVE  RestFits' /\ Reads' /\ Grows /\ Idles /\ RunsFit'
<1>1. RestFits /\ UNCHANGED <<scene, arrived, mapped, job, cron, admin, rows, ops>>
  BY Parts DEF IInv, syncUnchanged
<1>2. PICK new \in SyncType :
        /\ sync' \in [Mailboxes -> SyncType] /\ sync'[m] = new
        /\ \A n \in Mailboxes \ {m} : sync'[n] = sync[n]
        /\ new.cursor \in {0, sync[m].cursor} /\ new.head \in {0, sync[m].head, arrived[m]}
  BY DEF Syncs
<1>3. RestFits'
  BY <1>1, <1>2 DEF RestFits
<1>4. Grows
  BY <1>1 DEF RestFits, Grows
<1>5. ASSUME NEW n \in Mailboxes PROVE sync'[n].cursor <= arrived[n] /\ sync'[n].head <= arrived[n]
  <2>1. arrived[n] \in Nat /\ sync[n].cursor <= arrived[n] /\ sync[n].head <= arrived[n]
    BY <1>1 DEF RestFits, IInv, Within
  <2>2. CASE n = m
    BY <1>2, <2>1, <2>2
  <2>3. CASE n # m
    BY <1>2, <2>1, <2>3
  <2>. QED
    BY <2>2, <2>3
<1>6. Reads'
  BY <1>1, <1>5 DEF Reads, IInv, Within
<1>7. Idles /\ RunsFit'
  BY <1>1, JobsAfter, RunsAfter DEF IInv
<1>. QED
  BY <1>3, <1>4, <1>6, <1>7

\* A cursor that goes over mail that is stored or given up leaves the import where it is.
LEMMA AdvancesKeeps ==
    ASSUME Types, Within, Grows, RestFits', UNCHANGED <<arrived, job>>, NEW m \in Mailboxes, Advances(m),
           \A n \in Mailboxes \ {m} : lost'[n] = lost[n] /\ stored'[n] = stored[n]
    PROVE  RowsFit' /\ NoNewHolder /\ \A n \in Mailboxes : Keeps(n)
<1>1. PICK new \in RowType :
        /\ RowIs(m, new) /\ new.id = row[m].id /\ new.until = row[m].until
        /\ new.passed = row[m].passed /\ new.done = row[m].done /\ new.job = row[m].job
        /\ new.cursor <= arrived[m]
        /\ (1..new.cursor) \ (stored'[m] \cup lost'[m]) \subseteq Unread(m)
  BY DEF Advances
<1>2. row'[m] = new
  BY <1>1 DEF RowIs
<1>3. RowsFit
  BY Parts
<1>4. RowFits(new)
  BY <1>1, <1>3 DEF RowsFit, RowFits
<1>5. RowsFit'
  BY <1>1, <1>3, <1>4 DEF RowsFit, RowIs
<1>6. Keeps(m)
  <2>1. Unread(m)' \subseteq Unread(m)
    BY <1>1, <1>2 DEF Unread
  <2>. QED
    BY <1>1, <1>2, <2>1 DEF Keeps
<1>7. Holds(m)' => Holds(m)
  BY <1>1, <1>2 DEF Holds
<1>8. ASSUME NEW n \in Mailboxes \ {m} PROVE Keeps(n) /\ (Holds(n)' => Holds(n))
  <2>1. row'[n] = row[n] /\ stored'[n] = stored[n] /\ lost'[n] = lost[n]
    BY <1>1, <1>8 DEF RowIs
  <2>. QED
    BY <1>8, <2>1, KeepsRow
<1>. QED
  BY <1>5, <1>6, <1>7, <1>8 DEF NoNewHolder

\* The first page of a history is read.
LEMMA ListHistoryStep ==
    ASSUME IInv, NEW m \in Mailboxes, ListHistory(m)
    PROVE  IInv'
<1>1. Syncs(m) /\ (UNCHANGED row \/ Errs(m))
  BY ListHistoryMoves DEF IInv
<1>2. UNCHANGED <<stored, run, lost, faults, gaps>> /\ syncUnchanged
  BY DEF ListHistory
<1>3. RestFits' /\ Reads' /\ Grows /\ Idles /\ RunsFit'
  <2>1. RestFits
    BY Parts DEF IInv
  <2>. QED
    BY <1>1, <1>2, <2>1, SyncRest DEF RestFits
<1>4. RowsFit' /\ NoNewHolder /\ \A n \in Mailboxes : Keeps(n)
  BY <1>1, <1>2, <1>3, RowsRest, ErrsKeeps DEF IInv
<1>. QED
  BY <1>3, <1>4, QuietStep DEF Calm

\* A sync ends in an error.
LEMMA SyncFailsStep ==
    ASSUME IInv, NEW m \in Mailboxes, SyncFails(m)
    PROVE  IInv'
<1>1. /\ Save(m, sync[m].id, [row[m] EXCEPT !.error = "failed"]) /\ EndSync(m)
      /\ UNCHANGED <<stored, run, lost, gaps>> /\ syncUnchanged
      /\ faults' = faults \/ Faulty
  BY DEF SyncFails
<1>2. Syncs(m)
  BY <1>1, SyncEnds DEF IInv, Types
<1>3. Errs(m)
  <2>1. "failed" \in Errors
    BY DEF Errors
  <2>. QED
    BY <1>1, <2>1, ErrorSaved DEF IInv, Types
<1>4. RestFits' /\ Reads' /\ Grows /\ Idles /\ RunsFit'
  <2>1. RestFits
    BY Parts DEF IInv
  <2>2. {faults', gaps'} \subseteq Nat
    BY <1>1, <2>1 DEF RestFits, Faulty
  <2>. QED
    BY <1>1, <1>2, <2>1, <2>2, SyncRest DEF RestFits
<1>5. RowsFit' /\ NoNewHolder /\ \A n \in Mailboxes : Keeps(n)
  BY <1>1, <1>3, <1>4, ErrsKeeps DEF IInv
<1>. QED
  BY <1>4, <1>5, QuietStep DEF Calm

\* A cursor is moved.
LEMMA HistoryStep ==
    ASSUME IInv, NEW m \in Mailboxes, HistoryGone(m) \/ SyncHistory(m)
    PROVE  IInv'
<1>1. RestFits
  BY Parts DEF IInv
<1>2. /\ Syncs(m) /\ Advances(m)
      /\ lost' \in [Mailboxes -> SUBSET Messages] /\ stored' \in [Mailboxes -> SUBSET Messages]
      /\ \A n \in Mailboxes \ {m} : lost'[n] = lost[n] /\ stored'[n] = stored[n]
  <2>1. CASE HistoryGone(m)
    BY <1>1, <2>1, HistoryGoneMoves DEF IInv, HistoryGone, RestFits
  <2>2. CASE SyncHistory(m)
    BY <2>2, SyncHistoryMoves DEF IInv
  <2>. QED
    BY <2>1, <2>2
<1>3. syncUnchanged /\ UNCHANGED <<run, faults>> /\ gaps' \in {gaps, gaps + 1}
  BY DEF HistoryGone, SyncHistory
<1>4. {faults', gaps'} \subseteq Nat
  BY <1>1, <1>3 DEF RestFits
<1>5. RestFits' /\ Reads' /\ Grows /\ Idles /\ RunsFit'
  BY <1>2, <1>3, <1>4, SyncRest
<1>6. RowsFit' /\ NoNewHolder /\ \A n \in Mailboxes : Keeps(n)
  BY <1>2, <1>3, <1>5, AdvancesKeeps DEF IInv, syncUnchanged
<1>. QED
  BY <1>5, <1>6, QuietStep DEF Calm

\* The pass begins on what the rows say, and its run of ensureBackfillJobs on what they say later.
LEMMA CronStartStep ==
    ASSUME IInv, CronStart
    PROVE  IInv'
<1> DEFINE begun(m) == IF Connected(m)
                       THEN [NoSync EXCEPT !.pc = "read", !.id = row[m].id, !.cursor = row[m].cursor]
                       ELSE NoSync
<1>1. /\ cron' = "sync" /\ sync' = [m \in Mailboxes |-> begun(m)]
      /\ UNCHANGED <<scene, arrived, stored, row, mapped, job, run, admin, rows, lost, faults, gaps, ops>>
  BY DEF CronStart
<1>2. RestFits /\ RowsFit
  BY Parts DEF IInv
<1>3. ASSUME NEW m \in Mailboxes
      PROVE  begun(m) \in SyncType /\ begun(m).cursor <= arrived[m] /\ begun(m).head <= arrived[m]
  <2>1. row[m].id \in Nat /\ row[m].cursor \in Nat /\ row[m].cursor <= arrived[m] /\ arrived[m] \in Nat
    BY <1>2, Fields DEF RowsFit, RestFits, IInv, Within
  <2>2. LET x == [NoSync EXCEPT !.pc = "read", !.id = row[m].id, !.cursor = row[m].cursor] IN
        x \in SyncType /\ x.cursor = row[m].cursor /\ x.head = 0
    BY <2>1 DEF NoSync, SyncType
  <2>3. NoSync \in SyncType /\ NoSync.cursor = 0 /\ NoSync.head = 0
    BY Records DEF NoSync
  <2>4. CASE Connected(m)
    BY <2>1, <2>2, <2>4
  <2>5. CASE ~Connected(m)
    BY <2>1, <2>3, <2>5
  <2>. QED
    BY <2>4, <2>5
<1>. HIDE DEF begun
<1>4. /\ sync' \in [Mailboxes -> SyncType]
      /\ \A m \in Mailboxes : sync'[m].cursor <= arrived[m] /\ sync'[m].head <= arrived[m]
  BY <1>1, <1>3
<1>5. RestFits'
  BY <1>1, <1>2, <1>4 DEF RestFits
<1>6. Grows
  BY <1>1, <1>2 DEF RestFits, Grows
<1>7. Reads'
  BY <1>1, <1>4 DEF Reads, IInv, Within
<1>8. RowsFit' /\ NoNewHolder /\ \A n \in Mailboxes : Keeps(n)
  BY <1>1, <1>5, <1>6, RowsRest DEF IInv
<1>9. Idles /\ RunsFit'
  BY <1>1, JobsAfter, RunsAfter DEF IInv
<1>. QED
  BY <1>5, <1>6, <1>7, <1>8, <1>9, QuietStep DEF Calm

\* The pass ends.
LEMMA CronEndStep ==
    ASSUME IInv, CronEnsure \/ CronDies
    PROVE  IInv'
<1>1. /\ cron' = "idle" /\ (faults' = faults \/ Faulty)
      /\ sync' \in {sync, [m \in Mailboxes |-> NoSync]}
      /\ run' \in {[run EXCEPT ![Cron] = GoOn(Pending(None))], [run EXCEPT ![Cron] = NoRun]}
      /\ UNCHANGED <<scene, arrived, stored, row, mapped, job, admin, rows, lost, gaps, ops>>
  BY DEF CronEnsure, CronDies
<1>2. RestFits
  BY Parts DEF IInv
<1>3. sync' \in [Mailboxes -> SyncType] /\ \A m \in Mailboxes : sync'[m] \in {sync[m], NoSync}
  BY <1>1, <1>2, Records DEF RestFits
<1>4. RestFits'
  BY <1>1, <1>2, <1>3 DEF RestFits, Faulty
<1>5. Grows
  BY <1>1, <1>2 DEF RestFits, Grows
<1>6. Reads'
  <2>1. NoSync.cursor = 0 /\ NoSync.head = 0
    BY DEF NoSync
  <2>2. ASSUME NEW m \in Mailboxes PROVE sync'[m].cursor <= arrived[m] /\ sync'[m].head <= arrived[m]
    BY <1>2, <1>3, <2>1 DEF RestFits, IInv, Within
  <2>. QED
    BY <1>1, <2>2 DEF Reads, IInv, Within
<1>7. RowsFit' /\ NoNewHolder /\ \A n \in Mailboxes : Keeps(n)
  BY <1>1, <1>4, <1>5, RowsRest DEF IInv
<1>8. Idles
  BY <1>1, JobsAfter DEF IInv
<1>9. RunsFit'
  <2>1. GoOn(Pending(None)) \in RunType /\ RunFits(GoOn(Pending(None))) /\ Cron \in Agents
    BY PendingSeen, GoOnFits, Consts DEF IInv
  <2>2. Runs(Cron)
    BY <1>1, <2>1, Records, AtRest, RunWrites DEF IInv, Types, Runs
  <2>. QED
    BY <2>1, <2>2, RunsAfter DEF IInv
<1>. QED
  BY <1>4, <1>5, <1>6, <1>7, <1>8, <1>9, QuietStep DEF Calm

-----------------------------------------------------------------------------
(* The steps of the administrator.                                         *)

\* What a request may change beside the rows.
LEMMA AdminRest ==
    ASSUME IInv, adminUnchanged \/ (UNCHANGED <<scene, arrived, stored, sync, cron, gaps>> /\ Faulty),
           lost' \in [Mailboxes -> SUBSET Messages], mapped' \in [Mailboxes -> BOOLEAN],
           admin' \in RequestType, rows' \in Nat, ops' \in Nat,
           admin'.pc = "asked" => admin'.of \in Mailboxes /\ admin'.head <= arrived[admin'.of]
    PROVE  RestFits' /\ Reads' /\ Grows
<1>1. RestFits
  BY Parts DEF IInv
<1>2. RestFits'
  BY <1>1 DEF RestFits, adminUnchanged, Faulty
<1>3. Reads'
  BY DEF Reads, IInv, Within, adminUnchanged
<1>4. Grows
  BY <1>1 DEF RestFits, Grows, adminUnchanged
<1>. QED
  BY <1>2, <1>3, <1>4

\* Where a request is after its write.
LEMMA WrittenFits ==
    ASSUME NEW prev \in OutOf(Jobs) \cup {Ended}
    PROVE  Written(prev) \in RequestType /\ Written(prev).pc # "asked"
<1>1. NoRequest \in RequestType /\ NoRequest.pc = "idle"
  BY Records DEF NoRequest
<1>2. LET x == [NoRequest EXCEPT !.pc = "stop", !.prev = prev] IN x \in RequestType /\ x.pc = "stop"
  BY <1>1 DEF NoRequest, RequestType
<1>. QED
  BY <1>1, <1>2 DEF Written

\* A request reads a mailbox's head.
LEMMA AskStep ==
    ASSUME IInv, NEW kind \in {"connect", "disconnect"}, NEW m \in Mailboxes, Ask(kind, m)
    PROVE  IInv'
<1> DEFINE new == [pc |-> "asked", op |-> kind, of |-> m, head |-> arrived[m], prev |-> row[m].job]
<1>1. /\ admin' = new /\ ops' = ops + 1 /\ adminUnchanged
      /\ UNCHANGED <<row, mapped, job, run, rows, lost, stored>>
  BY DEF Ask, adminUnchanged
<1>2. RestFits /\ row[m].job \in OutOf(Jobs) \cup {Ended} /\ arrived[m] \in Nat
  BY Parts, Fields DEF IInv, RowsFit, RestFits
<1>3. new \in RequestType /\ new.of = m /\ new.head = arrived[m] /\ arrived[m] <= arrived[m]
  BY <1>2 DEF RequestType, OutOf
<1>. HIDE DEF new
<1>4. RestFits' /\ Reads' /\ Grows
  BY <1>1, <1>2, <1>3, AdminRest DEF RestFits
<1>5. RowsFit' /\ NoNewHolder /\ \A n \in Mailboxes : Keeps(n)
  BY <1>1, <1>4, RowsRest DEF IInv
<1>6. Idles /\ RunsFit'
  BY <1>1, JobsAfter, RunsAfter DEF IInv
<1>. QED
  BY <1>4, <1>5, <1>6, QuietStep DEF Calm

\* A row that is new, or gone, has all there is ahead of its import, and gives nobody the turn.
LEMMA RowReset ==
    ASSUME IInv, NEW m \in Mailboxes, NEW new \in RowType, RowIs(m, new), RowFits(new),
           new.job = None, ~new.done, new.until = NotPinned, new.passed = 0, new.cursor <= arrived[m],
           UNCHANGED <<arrived, stored, job, run>>, \A n \in Mailboxes \ {m} : lost'[n] = lost[n],
           RestFits', Reads'
    PROVE  IInv'
<1>1. row'[m] = new /\ \A n \in Mailboxes \ {m} : row'[n] = row[n]
  BY DEF RowIs
<1>2. RowsFit /\ RestFits
  BY Parts DEF IInv
<1>3. RowsFit'
  BY <1>2 DEF RowsFit, RowIs
<1>4. Idles /\ RunsFit'
  BY JobsAfter, RunsAfter DEF IInv
<1>5. Types'
  BY <1>3, <1>4, Parts DEF Idles
<1>6. ASSUME NEW n \in Mailboxes
      PROVE  /\ row'[n].cursor <= arrived'[n]
             /\ IF row'[n].until = NotPinned THEN row'[n].passed = 0 ELSE row'[n].passed <= row'[n].until
  BY <1>1 DEF IInv, Within
<1>7. Within'
  BY <1>6 DEF Within, Reads, IInv
<1>8. ~Holds(m)' /\ \A n \in Mailboxes \ {m} : Holds(n)' => Holds(n)
  BY <1>1 DEF Holds
<1>9. OneHolder'
  BY <1>8, HolderStep DEF NoNewHolder, IInv
<1>10. Unread(m)' \subseteq Ahead(m, row[m])'
  <2>1. new.cursor \in Nat /\ arrived[m] \in Nat
    BY <1>2, Fields DEF RestFits
  <2>2. 1..new.cursor \subseteq 1..arrived[m]
    BY <2>1
  <2>. QED
    BY <1>1, <2>2 DEF Unread, Ahead
<1>11. ASSUME NEW n \in Mailboxes \ {m}
       PROVE  /\ Unread(n)' \subseteq Ahead(n, row[n])'
              /\ \A j \in Jobs : Imports(j, n)' => Unread(n)' \subseteq 1..(job'[j].until - job'[j].passed)
  <2>1. row'[n] = row[n] /\ lost'[n] = lost[n]
    BY <1>1, <1>11
  <2>2. Unread(n)' = Unread(n) /\ Ahead(n, row[n])' = Ahead(n, row[n])
    BY <2>1 DEF Unread, Ahead
  <2>3. \A j \in Jobs : Imports(j, n)' => Imports(j, n)
    BY <2>1 DEF Imports
  <2>. QED
    BY <2>2, <2>3 DEF IInv, Covered
<1>12. \A j \in Jobs : ~Imports(j, m)'
  BY <1>1, Consts DEF Imports
<1>13. Covered'
  BY <1>10, <1>11, <1>12 DEF Covered
<1>. QED
  BY <1>5, <1>7, <1>9, <1>13 DEF IInv

\* A connection writes a row anew.
LEMMA ConnectStep ==
    ASSUME IInv, Connect
    PROVE  IInv'
<1>1. PICK m \in Mailboxes : m = admin.of
  BY Parts DEF IInv, RestFits, Connect
<1> DEFINE id == IF Connected(m) THEN row[m].id ELSE rows + 1
           new == NewRow(id, admin.head)
<1>2. /\ row' = [row EXCEPT ![m] = new] /\ lost' = [lost EXCEPT ![m] = {}]
      /\ rows' = (IF Connected(m) THEN rows ELSE rows + 1) /\ admin' = Written(admin.prev)
      /\ admin.pc = "asked"
      /\ adminUnchanged /\ UNCHANGED <<mapped, job, run, ops, arrived, stored>>
  BY <1>1 DEF Connect, adminUnchanged
<1>3. /\ RestFits /\ row[m].id \in Nat /\ rows \in Nat /\ admin.head \in Nat
      /\ admin.prev \in OutOf(Jobs) \cup {Ended} /\ admin.head <= arrived[m]
  BY <1>1, <1>2, Parts, Fields DEF IInv, RowsFit, RestFits, Within
<1>4. id \in Nat
  BY <1>3
<1>. HIDE DEF id
<1>5. new \in RowType /\ RowFits(new)
  BY <1>3, <1>4, Records, AtRest
<1>6. /\ new.job = None /\ ~new.done /\ new.until = NotPinned /\ new.passed = 0
      /\ new.cursor = admin.head
  BY DEF NewRow, NoRow
<1>. HIDE DEF new
<1>7. RowIs(m, new)
  BY <1>2, <1>5, RowWrites DEF IInv, Types
<1>8. lost' \in [Mailboxes -> SUBSET Messages] /\ \A n \in Mailboxes \ {m} : lost'[n] = lost[n]
  BY <1>2, <1>3 DEF RestFits
<1>9. rows' \in Nat
  BY <1>2, <1>3
<1>10. RestFits' /\ Reads'
  BY <1>2, <1>3, <1>8, <1>9, WrittenFits, AdminRest DEF RestFits
<1>. QED
  BY <1>2, <1>3, <1>5, <1>6, <1>7, <1>8, <1>10, RowReset

\* A disconnection removes it.
LEMMA DisconnectStep ==
    ASSUME IInv, Disconnect
    PROVE  IInv'
<1>1. PICK m \in Mailboxes : m = admin.of
  BY Parts DEF IInv, RestFits, Disconnect
<1>2. /\ row' = [row EXCEPT ![m] = NoRow] /\ mapped' = [mapped EXCEPT ![m] = FALSE]
      /\ admin' = Written(admin.prev)
      /\ adminUnchanged /\ UNCHANGED <<job, run, rows, lost, ops, arrived, stored>>
  BY <1>1 DEF Disconnect, adminUnchanged
<1>3. RestFits /\ admin.prev \in OutOf(Jobs) \cup {Ended} /\ arrived[m] \in Nat
  BY Parts, Fields DEF IInv, RestFits
<1>4. /\ NoRow \in RowType /\ RowFits(NoRow) /\ NoRow.job = None /\ ~NoRow.done
      /\ NoRow.until = NotPinned /\ NoRow.passed = 0 /\ NoRow.cursor = 0
  BY Records, AtRest DEF NoRow
<1>5. RowIs(m, NoRow)
  BY <1>2, <1>4, RowWrites DEF IInv, Types
<1>6. mapped' \in [Mailboxes -> BOOLEAN]
  BY <1>2, <1>3 DEF RestFits
<1>7. RestFits' /\ Reads'
  BY <1>2, <1>3, <1>6, WrittenFits, AdminRest DEF RestFits
<1>8. NoRow.cursor <= arrived[m]
  BY <1>3, <1>4
<1>. QED
  BY <1>2, <1>4, <1>5, <1>7, <1>8, RowReset

\* A job is stopped, and the next turn given.
LEMMA StopJobStep ==
    ASSUME IInv, StopJob
    PROVE  IInv'
<1>1. /\ \/ /\ admin.prev \in Jobs /\ job' = [job EXCEPT ![admin.prev] = NoJob]
            /\ run' = [run EXCEPT ![admin.prev] = NoRun, ![Admin] = Ensure(None)]
         \/ run' = [run EXCEPT ![Admin] = Ensure(None)] /\ UNCHANGED job
      /\ admin' = NoRequest /\ adminUnchanged /\ UNCHANGED <<row, mapped, rows, lost, ops, stored>>
  BY DEF StopJob, adminUnchanged
<1>2. RestFits /\ RunsFit
  BY Parts DEF IInv
<1>3. NoRequest \in RequestType /\ NoRequest.pc # "asked"
  BY Records DEF NoRequest
<1>4. RestFits' /\ Reads' /\ Grows
  BY <1>1, <1>2, <1>3, AdminRest DEF RestFits
<1>5. RowsFit' /\ NoNewHolder /\ \A n \in Mailboxes : Keeps(n)
  BY <1>1, <1>4, RowsRest DEF IInv
<1>6. Idles
  BY <1>1, NoJobLeaves, JobsAfter DEF IInv, Types
<1>7. RunsFit'
  <2>1. Ensure(None) \in RunType /\ RunFits(Ensure(None)) /\ NoRun \in RunType /\ RunFits(NoRun)
    BY EnsureFits, Records, AtRest DEF IInv, Types, OutOf
  <2> DEFINE ensure == Ensure(None)
  <2>. HIDE DEF ensure
  <2>2. run' \in [Agents -> RunType] /\ \A a \in Agents : run'[a] \in {run[a], ensure, NoRun}
    <3>1. \/ run' = [run EXCEPT ![admin.prev] = NoRun, ![Admin] = ensure]
          \/ run' = [run EXCEPT ![Admin] = ensure]
      BY <1>1 DEF ensure
    <3>2. run \in [Agents -> RunType] /\ ensure \in RunType /\ NoRun \in RunType
      BY <1>2, <2>1 DEF RunsFit, ensure
    <3>. QED
      BY <3>1, <3>2
  <2>. QED
    BY <1>2, <2>1, <2>2 DEF RunsFit, ensure
<1>. QED
  BY <1>4, <1>5, <1>6, <1>7, QuietStep DEF Calm

\* A mailbox comes to be read, or no longer is.
LEMMA MapStep ==
    ASSUME IInv, NEW m \in Mailboxes, MapInbox(m) \/ UnmapInbox(m)
    PROVE  IInv'
<1>1. /\ mapped' \in {[mapped EXCEPT ![m] = TRUE], [mapped EXCEPT ![m] = FALSE]} /\ ops' = ops + 1
      /\ run' = [run EXCEPT ![Admin] = Ensure(m)] \/ UNCHANGED run
      /\ adminUnchanged /\ UNCHANGED <<row, job, admin, rows, lost, stored>>
  BY DEF MapInbox, UnmapInbox, adminUnchanged
<1>2. RestFits
  BY Parts DEF IInv
<1>3. mapped' \in [Mailboxes -> BOOLEAN] /\ ops' \in Nat
  <2>1. mapped \in [Mailboxes -> BOOLEAN] /\ ops \in Nat
    BY <1>2 DEF RestFits
  <2>2. /\ [mapped EXCEPT ![m] = TRUE] \in [Mailboxes -> BOOLEAN]
        /\ [mapped EXCEPT ![m] = FALSE] \in [Mailboxes -> BOOLEAN]
    BY <2>1
  <2>3. mapped' \in [Mailboxes -> BOOLEAN]
    BY <1>1, <2>2, Zenon
  <2>. QED
    BY <1>1, <2>1, <2>3
<1>4. admin'.pc = "asked" => admin'.of \in Mailboxes /\ admin'.head <= arrived[admin'.of]
  BY <1>1, <1>2 DEF RestFits, IInv, Within
<1>5. RestFits' /\ Reads' /\ Grows
  BY <1>1, <1>2, <1>3, <1>4, AdminRest DEF RestFits
<1>6. RowsFit' /\ NoNewHolder /\ \A n \in Mailboxes : Keeps(n)
  BY <1>1, <1>5, RowsRest DEF IInv
<1>7. Idles
  BY <1>1, JobsAfter DEF IInv
<1>8. RunsFit'
  <2>1. Ensure(m) \in RunType /\ RunFits(Ensure(m)) /\ Admin \in Agents
    BY EnsureFits, Consts DEF IInv, Types, OutOf
  <2>2. UNCHANGED run \/ Runs(Admin)
    BY <1>1, <2>1, RunWrites DEF IInv, Types, Runs
  <2>. QED
    BY <2>1, <2>2, RunsAfter DEF IInv
<1>. QED
  BY <1>5, <1>6, <1>7, <1>8, QuietStep DEF Calm

\* A request ends half-way.
LEMMA AdminDiesStep ==
    ASSUME IInv, AdminDies
    PROVE  IInv'
<1>1. /\ admin' = NoRequest /\ run' = [run EXCEPT ![Admin] = NoRun] /\ Faulty
      /\ UNCHANGED <<scene, arrived, stored, row, mapped, job, sync, cron, rows, lost, gaps, ops>>
  BY DEF AdminDies
<1>2. RestFits
  BY Parts DEF IInv
<1>3. NoRequest \in RequestType /\ NoRequest.pc # "asked"
  BY Records DEF NoRequest
<1>4. RestFits' /\ Reads' /\ Grows
  BY <1>1, <1>2, <1>3, AdminRest DEF RestFits
<1>5. RowsFit' /\ NoNewHolder /\ \A n \in Mailboxes : Keeps(n)
  BY <1>1, <1>4, RowsRest DEF IInv
<1>6. Idles
  BY <1>1, JobsAfter DEF IInv
<1>7. RunsFit'
  <2>1. Runs(Admin) /\ Admin \in Agents
    BY <1>1, Consts, Records, AtRest, RunWrites DEF IInv, Types, Runs
  <2>. QED
    BY <2>1, RunsAfter DEF IInv
<1>. QED
  BY <1>4, <1>5, <1>6, <1>7, QuietStep DEF Calm

-----------------------------------------------------------------------------
(* The invariant, and what it means.                                       *)

\* It holds at the start.
LEMMA IInvInit == Init => IInv
<1>. SUFFICES ASSUME Init PROVE IInv
  OBVIOUS
<1>1. /\ scene \in Scenes /\ scene.first \in [Mailboxes -> Nat]
      /\ \A m \in Mailboxes : scene.first[m] \in Nat
  BY SceneAssumption DEF Init
<1>2. Cardinality(Mailboxes) \in Nat
  BY Consts, FS_CardinalityType
<1>3. ASSUME NEW m \in Mailboxes
      PROVE  /\ NewRow(m, scene.first[m]) \in RowType /\ RowFits(NewRow(m, scene.first[m]))
             /\ NewRow(m, scene.first[m]).cursor = scene.first[m]
             /\ NewRow(m, scene.first[m]).until = NotPinned /\ NewRow(m, scene.first[m]).passed = 0
             /\ NewRow(m, scene.first[m]).job = None /\ ~NewRow(m, scene.first[m]).done
  <2>1. m \in Nat /\ scene.first[m] \in Nat
    BY <1>1, Consts
  <2>2. NewRow(m, scene.first[m]) \in RowType /\ RowFits(NewRow(m, scene.first[m]))
    BY <2>1, Records, AtRest
  <2>. QED
    BY <2>2 DEF NewRow, NoRow
<1>4. /\ NoRow \in RowType /\ RowFits(NoRow) /\ NoRow.cursor = 0 /\ NoRow.until = NotPinned
      /\ NoRow.passed = 0 /\ NoRow.job = None /\ ~NoRow.done
  BY Records, AtRest DEF NoRow
<1>5. ASSUME NEW m \in Mailboxes
      PROVE  /\ row[m] \in RowType /\ RowFits(row[m]) /\ row[m].cursor <= arrived[m]
             /\ row[m].until = NotPinned /\ row[m].passed = 0 /\ row[m].job = None /\ ~row[m].done
  <2>1. row[m] = NewRow(m, scene.first[m]) \/ row[m] = NoRow
    BY DEF Init
  <2>2. arrived[m] = scene.first[m]
    BY DEF Init
  <2>. QED
    BY <1>1, <1>3, <1>4, <2>1, <2>2
<1>6. row \in [Mailboxes -> RowType]
  <2>1. row = [m \in Mailboxes |-> row[m]]
    BY DEF Init
  <2>. QED
    BY <1>5, <2>1
<1>7. RowsFit
  BY <1>5, <1>6 DEF RowsFit
<1>8. JobsFit /\ \A j \in Jobs : job[j] = NoJob
  BY Records, AtRest DEF Init, JobsFit
<1>9. RunsFit
  BY Records, AtRest DEF Init, RunsFit
<1>10. NoRequest.pc = "idle" /\ NoSync.cursor = 0 /\ NoSync.head = 0 /\ NoJob.pc = "dead"
       /\ NoJob.passed = 0 /\ NoJob.until = 0
  BY DEF NoRequest, NoSync, NoJob
<1>11. RestFits
  <2>1. arrived \in [Mailboxes -> Nat]
    BY <1>1 DEF Init
  <2>2. /\ stored \in [Mailboxes -> SUBSET Messages] /\ lost \in [Mailboxes -> SUBSET Messages]
        /\ mapped \in [Mailboxes -> BOOLEAN]
    BY DEF Init
  <2>3. sync \in [Mailboxes -> SyncType] /\ admin \in RequestType /\ admin.pc # "asked"
    BY <1>10, Records DEF Init
  <2>. QED
    BY <1>1, <1>2, <2>1, <2>2, <2>3 DEF Init, RestFits
<1>12. Types
  BY <1>7, <1>8, <1>9, <1>11, Parts
<1>13. Within
  <2>1. \A m \in Mailboxes : sync[m] = NoSync /\ arrived[m] \in Nat
    BY <1>11 DEF Init, RestFits
  <2>2. admin.pc # "asked"
    BY <1>10 DEF Init
  <2>. QED
    BY <1>5, <1>8, <1>10, <2>1, <2>2 DEF Within
<1>14. OneHolder
  BY <1>5 DEF OneHolder, Holds
<1>15. Covered
  <2>1. ASSUME NEW m \in Mailboxes PROVE Unread(m) \subseteq Ahead(m, row[m])
    <3>1. row[m].cursor \in Nat /\ arrived[m] \in Nat
      BY <1>5, <1>11, Fields DEF RestFits
    <3>2. 1..row[m].cursor \subseteq 1..arrived[m]
      BY <1>5, <3>1
    <3>. QED
      BY <1>5, <3>2 DEF Unread, Ahead
  <2>2. \A j \in Jobs, m \in Mailboxes : ~Imports(j, m)
    BY <1>8, <1>10 DEF Imports
  <2>. QED
    BY <2>1, <2>2 DEF Covered
<1>. QED
  BY <1>12, <1>13, <1>14, <1>15 DEF IInv

\* Every step keeps it.
LEMMA IInvStep == IInv /\ [Next]_vars => IInv'
<1>. SUFFICES ASSUME IInv, [Next]_vars PROVE IInv'
  OBVIOUS
<1>1. ASSUME NEW m \in Mailboxes, Arrive(m) PROVE IInv'
  BY <1>1, ArriveStep
<1>2. ASSUME NEW m \in Mailboxes, HistoryGone(m) \/ SyncHistory(m) PROVE IInv'
  BY <1>2, HistoryStep
<1>3. ASSUME NEW m \in Mailboxes, MapInbox(m) \/ UnmapInbox(m) PROVE IInv'
  BY <1>3, MapStep
<1>4. ASSUME NEW a \in Agents, RunStep(a) \/ CreateFails(a) PROVE IInv'
  BY <1>4, LookCheckStep, ReleaseStep, ClaimStep DEF RunStep
<1>5. CASE JobStep
  BY <1>5, ReadChunkStep, FinishChunkStep, HandOffStep, JobEndsStep DEF JobStep
<1>6. CASE SyncStep
  BY <1>6, ListHistoryStep, SyncFailsStep, HistoryStep DEF SyncStep
<1>7. CASE CronStep \/ CronDies
  BY <1>7, CronStartStep, CronEndStep DEF CronStep
<1>8. ASSUME NEW j \in Jobs, ThrowChunk(j) \/ DieJob(j) PROVE IInv'
  BY <1>8, JobEndsStep
<1>9. ASSUME NEW kind \in {"connect", "disconnect"}, NEW m \in Mailboxes, Ask(kind, m) PROVE IInv'
  BY <1>9, AskStep
<1>10. CASE Connect \/ Disconnect \/ StopJob \/ AdminDies
  BY <1>10, ConnectStep, DisconnectStep, StopJobStep, AdminDiesStep
<1>11. CASE UNCHANGED vars
  <2>1. UNCHANGED <<scene, arrived, stored, row, mapped, job, sync, run, cron, admin, rows, lost, faults,
                    gaps, ops>>
    BY <1>11 DEF vars
  <2>2. RestFits' /\ Reads' /\ Grows
    BY <2>1, RestSame
  <2>3. RowsFit' /\ NoNewHolder /\ \A n \in Mailboxes : Keeps(n)
    BY <2>1, <2>2, RowsRest DEF IInv
  <2>4. Idles /\ RunsFit'
    BY <2>1, JobsAfter, RunsAfter DEF IInv
  <2>. QED
    BY <2>2, <2>3, <2>4, QuietStep DEF Calm
<1>. QED
  BY <1>1, <1>2, <1>3, <1>4, <1>5, <1>6, <1>7, <1>8, <1>9, <1>10, <1>11 DEF Next

\* One holder at most is one mailbox at most.
LEMMA OneTurnFollows == IInv => OneTurn
<1>. SUFFICES ASSUME IInv PROVE OneTurn
  OBVIOUS
<1> DEFINE S == {m \in Mailboxes : row[m].job # None /\ ~row[m].done}
<1>1. S = {m \in Mailboxes : Holds(m)}
  BY DEF Holds
<1>2. \A m, n \in S : m = n
  BY <1>1 DEF IInv, OneHolder
<1>. HIDE DEF S
<1>3. Cardinality(S) <= 1
  <2>1. CASE S = {}
    BY <2>1, FS_EmptySet
  <2>2. CASE S # {}
    <3>1. PICK m : S = {m}
      BY <1>2, <2>2
    <3>. QED
      BY <3>1, FS_Singleton
  <2>. QED
    BY <2>1, <2>2
<1>. QED
  BY <1>3 DEF S, OneTurn, IInv, Types

\* What is neither stored nor lost is behind the cursor, and then ahead of the import, or beyond it.
LEMMA NothingSkippedFollows == IInv => NothingSkipped
<1>. SUFFICES ASSUME IInv, NEW m \in Mailboxes, NEW n \in 1..arrived[m],
                     n \notin stored[m], n \notin lost[m]
              PROVE  n \in Reachable(m, row[m])
  BY DEF NothingSkipped
<1>1. arrived[m] \in Nat /\ row[m].cursor \in Nat
  BY Parts, Fields DEF IInv, RowsFit, RestFits
<1>2. n > row[m].cursor \/ n \in 1..row[m].cursor
  BY <1>1
<1>. QED
  BY <1>2 DEF IInv, Covered, Unread, Reachable

\* It holds always.
LEMMA Invariant == Spec => []IInv
BY IInvInit, IInvStep, PTL DEF Spec

(* One import has the turn (OneTurn), whoever gives it away and however    *)
(* old the rows are that they have read: the claim looks at every row as   *)
(* it is written (backfill-job.ts).                                        *)
THEOREM OneTurnAlways == Spec => []OneTurn
BY Invariant, OneTurnFollows, PTL

(* No mail of a connected mailbox is passed over (NothingSkipped), whatever *)
(* arrives, throws, dies, expires or is connected again meanwhile: what is  *)
(* behind the cursor and not stored is ahead of the import and of the chunk *)
(* under way, but for what lost says.                                       *)
THEOREM NothingSkippedAlways == Spec => []NothingSkipped
BY Invariant, NothingSkippedFollows, PTL
=============================================================================
