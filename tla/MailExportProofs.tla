------------------------- MODULE MailExportProofs -------------------------
(***************************************************************************)
(* Proofs about MailExport, for inboxes of any size, slices and parts of   *)
(* any size, any places in the queue and any number of attempts,           *)
(* recoveries and faults: a slice can be run again from the row, one run   *)
(* at a time has it, a completed export has the whole file, and one that   *)
(* ended leaves nothing else.                                              *)
(***************************************************************************)
EXTENDS MailExport, SequenceTheorems, WellFoundedInduction, TLAPS

-----------------------------------------------------------------------------
(* The inductive invariant.                                                *)

Seen(m) == queue[m].seen.params

\* A run between its claim and the update that ends it.
Holds(m) == queue[m].at \in {"claimed", "rendered", "put", "looked", "built"}

\* Points of a run at which the claim it has read need not be its own.
Unclaimed == {"read", "failing", "abort", "purge"}

\* What a run has in hand at each of its points.
ShapeOf(m) ==
    /\ queue[m].at \in InRun => queue[m].seen \in SeenType /\ queue[m].tries >= 1
    /\ queue[m].at \in {"waiting", "held", "late"} => queue[m].tries < Delivered
    /\ queue[m].at \in InRun \ Unclaimed =>
         Seen(m).lease = Token(m) /\ Seen(m).live /\ Seen(m).slice = queue[m].slice
    /\ queue[m].at = "looked" => queue[m].made \in [rest : Seq(Nat)]
    /\ queue[m].at \in {"rendered", "put", "undo"} =>
         queue[m].made \in MadeType /\ Len(queue[m].made.rest) < PartSize

\* Carried bytes are named after the slice that left them.
Numbered(params) == params.pending # None => params.pending[2] + 1 = params.slice

RowShape ==
    /\ Numbered(job.params)
    /\ job.params.finishing => job.cursor = job.total
    /\ cron.at \in {"read", "resume"} => cron.seen \in SeenType

\* What a run has read is no newer than the row.
OlderOf(m) ==
    queue[m].at \in InRun =>
        /\ Numbered(Seen(m))
        /\ Seen(m).slice <= job.params.slice
        /\ Seen(m).slice = job.params.slice => queue[m].seen.cursor = job.cursor
        /\ queue[m].at = "clean" => Seen(m).slice < job.params.slice

\* The row is as the run that has claimed it wrote it.
HoldingOf(m) == Holds(m) => job.params = Seen(m) /\ job.status # "completed"

\* One object has a key.
OneObject == \A p, q \in r2.pending : p.key = q.key => p = q

Count(n) == [i \in 1 .. n |-> i]

\* The row's parts and carried bytes are what its cursor has passed.
RowHolds ==
    /\ ~lost => ~Missing(job.params.pending)
    /\ ~Missing(job.params.pending) =>
         FlattenSeq(job.params.parts) \o Bytes(job.params.pending) = Count(job.cursor)
    /\ IsPrefix(job.params.parts, r2.parts)

\* What a run has made goes further than that ...
MadeOf(m) ==
    /\ FlattenSeq(queue[m].made.parts) \o queue[m].made.rest = Count(queue[m].made.cursor)
    /\ queue[m].made.cursor <= job.total
    /\ queue[m].made.finishing => queue[m].made.cursor = job.total
    /\ IsPrefix(queue[m].made.parts, r2.parts)

\* ... and what it carries is there before it commits.  A run that tidies up
\* does not take what the row names.
RunHolds(m) ==
    /\ queue[m].at \in {"rendered", "put"} => MadeOf(m)
    /\ queue[m].at = "put" /\ queue[m].made.rest # <<>> =>
         [key |-> Token(m), bytes |-> queue[m].made.rest] \in r2.pending
    /\ queue[m].at = "looked" => FlattenSeq(Seen(m).parts) \o queue[m].made.rest = Whole
    /\ queue[m].at = "undo" /\ ~lost => job.params.pending # Token(m)
    /\ queue[m].at = "built" => r2.file # None

\* The file is whole from when it is there.
FileHolds ==
    /\ r2.file # None => r2.file = Whole /\ r2.upload # "open"
    /\ job.status = "completed" => r2.file # None

\* Who tidies up, and after what.
EndingOf(m) ==
    /\ queue[m].at \in {"tidy", "purge", "abort"} => ~Running
    /\ queue[m].at \in {"purge", "abort"} => job.status # "completed"
Ending ==
    /\ cron.at \in {"abort", "purge"} => job.status \notin {"running", "completed"}
    /\ user.at \in {"abort", "purge", "done"} => job.status = "gone"
    /\ user.at = "asked" /\ user.saw # "running" => ~Running

Tidier(steps) ==
    (\E m \in Slots : queue[m].at \in steps) \/ cron.at \in steps \/ user.at \in steps

\* After the end, what is left has somebody who takes it away.
Tidying ==
    /\ r2.upload = "open" => Tidier({"abort"})
    /\ job.status # "completed" /\ r2.file # None => Tidier({"abort", "purge", "built"})
    /\ \A p \in r2.pending :
         \/ Tidier({"abort", "purge", "tidy"})
         \/ \E m \in Slots : queue[m].at \in {"put", "undo"} /\ p.key = PendingOf(m)

RunsInv == \A m \in Slots : ShapeOf(m) /\ OlderOf(m) /\ HoldingOf(m) /\ EndingOf(m)
BytesInv ==
    /\ OneObject
    /\ Running => RowHolds /\ \A m \in Slots : RunHolds(m)
    /\ job.status \in {"running", "completed"} => FileHolds
EndInv == Ending /\ (~Running /\ ~torn => Tidying)

IInv == TypeOK /\ RowShape /\ RunsInv /\ BytesInv /\ EndInv

-----------------------------------------------------------------------------
(* Numbers, and sequences that are joined.                                 *)

\* A set of numbers has a least one.
LEMMA LeastNumber ==
    ASSUME NEW S \in SUBSET Nat, S # {}
    PROVE  \E x \in S : \A y \in S : x <= y
<1> DEFINE Less == {ss \in Nat \X Nat : ss[1] < ss[2]}
<1>1. IsWellFoundedOn(Less, Nat)
  BY NatLessThanWellFounded, Zenon DEF OpToRel
<1>. HIDE DEF Less
<1>2. PICK x \in S : \A y \in S : ~(<<y, x>> \in Less)
  BY <1>1, WFMin
<1>3. ASSUME NEW y \in S PROVE x <= y
  <2>1. <<y, x>> \in Nat \X Nat /\ <<y, x>>[1] = y /\ <<y, x>>[2] = x
    OBVIOUS
  <2>2. ~(y < x)
    BY <1>2, <2>1 DEF Less
  <2>. QED
    BY <2>2
<1>. QED
  BY <1>3

\* FlattenSeq with its function named: the sequences joined up to each.
JoinsTo(f, s, n) == f = [i \in 1..n |-> IF i = 1 THEN s[i] ELSE f[i-1] \o s[i]]
Joined(s) == CHOOSE f : f = [i \in 1..Len(s) |-> IF i = 1 THEN s[i] ELSE f[i-1] \o s[i]]

LEMMA FlattenIsJoined ==
    ASSUME NEW s, Len(s) # 0
    PROVE  FlattenSeq(s) = Joined(s)[Len(s)]
BY DEF FlattenSeq, Joined

\* The function exists, for no length is the least without one.
LEMMA JoinedExists ==
    ASSUME NEW s, NEW n \in Nat
    PROVE  \E f : JoinsTo(f, s, n)
<1> DEFINE without == {k \in Nat : ~\E f : JoinsTo(f, s, k)}
<1> SUFFICES ASSUME without # {} PROVE FALSE
  OBVIOUS
<1>1. without \in SUBSET Nat
  OBVIOUS
<1>2. PICK x \in without : \A y \in without : x <= y
  <2>. HIDE DEF without
  <2>. QED
    BY <1>1, LeastNumber
<1>3. x # 0
  <2> DEFINE f == [i \in 1..0 |-> s]
  <2>1. 1..0 = {}
    OBVIOUS
  <2>2. JoinsTo(f, s, 0)
    BY <2>1 DEF JoinsTo
  <2>. QED
    BY <2>2
<1>4. x - 1 \in Nat /\ x - 1 \notin without
  BY <1>2, <1>3
<1>5. PICK f : JoinsTo(f, s, x - 1)
  BY <1>4
<1> DEFINE g == [i \in 1..x |-> IF i = x THEN (IF i = 1 THEN s[i] ELSE f[i-1] \o s[i]) ELSE f[i]]
<1>6. JoinsTo(g, s, x)
  <2> DEFINE h == [i \in 1..x |-> IF i = 1 THEN s[i] ELSE g[i-1] \o s[i]]
  <2>1. ASSUME NEW i \in 1..x PROVE g[i] = h[i]
    <3>1. CASE i = 1 /\ i = x
      BY <3>1
    <3>2. CASE i = 1 /\ i # x
      <4>1. i \in 1..(x-1) /\ f[i] = s[i]
        BY <1>5, <1>4, <3>2 DEF JoinsTo
      <4>. QED
        BY <4>1, <3>2
    <3>3. CASE i # 1
      <4>1. i - 1 \in 1..(x-1) /\ i - 1 \in 1..x /\ i - 1 # x
        BY <3>3
      <4>2. g[i-1] = f[i-1]
        BY <4>1
      <4>3. CASE i = x
        BY <4>2, <4>3, <3>3
      <4>4. CASE i # x
        <5>1. i \in 1..(x-1)
          BY <4>4
        <5>2. f[i] = f[i-1] \o s[i]
          BY <5>1, <1>5, <3>3 DEF JoinsTo
        <5>. QED
          BY <5>2, <4>2, <4>4, <3>3
      <4>. QED
        BY <4>3, <4>4
    <3>. QED
      BY <3>1, <3>2, <3>3
  <2>2. g = h
    BY <2>1
  <2>. QED
    BY <2>2 DEF JoinsTo
<1>. QED
  BY <1>6

LEMMA JoinedSteps ==
    ASSUME NEW s \in Seq(Seq(Nat)), NEW i \in 1..Len(s)
    PROVE  Joined(s)[i] = IF i = 1 THEN s[i] ELSE Joined(s)[i-1] \o s[i]
<1>1. Len(s) \in Nat
  OBVIOUS
<1>2. \E f : JoinsTo(f, s, Len(s))
  BY <1>1, JoinedExists
<1>3. JoinsTo(Joined(s), s, Len(s))
  BY <1>2 DEF Joined, JoinsTo
<1>. QED
  BY <1>3 DEF JoinsTo

\* Two sequences that begin alike are joined alike.
LEMMA JoinedAlike ==
    ASSUME NEW s \in Seq(Seq(Nat)), NEW t \in Seq(Seq(Nat)), NEW n \in Nat,
           n <= Len(s), n <= Len(t), \A i \in 1..n : s[i] = t[i]
    PROVE  \A i \in 1..n : Joined(s)[i] = Joined(t)[i] /\ Joined(s)[i] \in Seq(Nat)
<1> DEFINE apart == {k \in 1..n : ~(Joined(s)[k] = Joined(t)[k] /\ Joined(s)[k] \in Seq(Nat))}
<1> SUFFICES ASSUME apart # {} PROVE FALSE
  OBVIOUS
<1>1. apart \in SUBSET Nat
  OBVIOUS
<1>2. PICK x \in apart : \A y \in apart : x <= y
  <2>. HIDE DEF apart
  <2>. QED
    BY <1>1, LeastNumber
<1>3. x \in 1..Len(s) /\ x \in 1..Len(t) /\ s[x] = t[x] /\ s[x] \in Seq(Nat)
  OBVIOUS
<1>4. CASE x = 1
  BY <1>3, <1>4, JoinedSteps
<1>5. CASE x # 1
  <2>1. x - 1 \in 1..n /\ x - 1 \notin apart
    BY <1>2, <1>5
  <2>2. Joined(s)[x-1] = Joined(t)[x-1] /\ Joined(s)[x-1] \in Seq(Nat)
    BY <2>1
  <2>3. Joined(s)[x] = Joined(s)[x-1] \o s[x] /\ Joined(t)[x] = Joined(t)[x-1] \o t[x]
    BY <1>3, <1>5, JoinedSteps
  <2>4. Joined(s)[x] \in Seq(Nat)
    BY <1>3, <2>2, <2>3, ConcatProperties
  <2>. QED
    BY <2>2, <2>3, <2>4, <1>3
<1>. QED
  BY <1>4, <1>5

LEMMA BytesAssociate ==
    ASSUME NEW s \in Seq(Nat), NEW t \in Seq(Nat), NEW u \in Seq(Nat)
    PROVE  s \o t \in Seq(Nat) /\ (s \o t) \o u = s \o (t \o u)
<1>1. s \o t \in Seq(Nat)
  BY ConcatProperties
<1>2. (s \o t) \o u = s \o (t \o u)
  <2>1. s \o t \in Seq(Nat) /\ t \o u \in Seq(Nat)
    BY ConcatProperties
  <2>2. (s \o t) \o u \in Seq(Nat) /\ s \o (t \o u) \in Seq(Nat)
    BY <2>1, ConcatProperties
  <2>. QED
    BY <2>1, <2>2
<1>. QED
  BY <1>1, <1>2, Zenon

LEMMA FlattenEmpty == FlattenSeq(<<>>) = <<>>
  BY DEF FlattenSeq

LEMMA FlattenType ==
    ASSUME NEW s \in Seq(Seq(Nat))
    PROVE  FlattenSeq(s) \in Seq(Nat)
<1>1. CASE Len(s) = 0
  <2>1. s = <<>> /\ <<>> \in Seq(Nat)
    BY <1>1, EmptySeq
  <2>. QED
    BY <2>1, FlattenEmpty
<1>2. CASE Len(s) # 0
  <2>1. Len(s) \in Nat /\ Len(s) \in 1..Len(s) /\ Len(s) <= Len(s)
    BY <1>2, LenProperties
  <2>2. \A i \in 1..Len(s) : Joined(s)[i] = Joined(s)[i] /\ Joined(s)[i] \in Seq(Nat)
    BY <2>1, JoinedAlike
  <2>3. FlattenSeq(s) = Joined(s)[Len(s)]
    BY <1>2, FlattenIsJoined
  <2>. QED
    BY <2>1, <2>2, <2>3
<1>. QED
  BY <1>1, <1>2

\* One more part is joined behind the others.
LEMMA FlattenAppend ==
    ASSUME NEW s \in Seq(Seq(Nat)), NEW x \in Seq(Nat)
    PROVE  FlattenSeq(Append(s, x)) = FlattenSeq(s) \o x
<1> DEFINE t == Append(s, x)
<1>1. t \in Seq(Seq(Nat)) /\ Len(t) = Len(s) + 1 /\ Len(s) \in Nat /\ t[Len(t)] = x
  BY AppendProperties, LenProperties
<1>2. \A i \in 1..Len(s) : s[i] = t[i]
  OBVIOUS
<1>. HIDE DEF t
<1>3. FlattenSeq(t) = Joined(t)[Len(t)]
  BY <1>1, FlattenIsJoined
<1>4. CASE Len(s) = 0
  <2>1. s = <<>> /\ Len(t) = 1
    BY <1>1, <1>4, EmptySeq
  <2>2. Joined(t)[1] = x
    BY <1>1, <2>1, JoinedSteps
  <2>3. FlattenSeq(s) \o x = x
    BY <2>1, FlattenEmpty, ConcatEmptySeq
  <2>. QED
    BY <1>3, <2>1, <2>2, <2>3 DEF t
<1>5. CASE Len(s) # 0
  <2>1. Len(t) \in 1..Len(t) /\ Len(t) # 1 /\ Len(t) - 1 = Len(s)
    BY <1>1, <1>5
  <2>2. Joined(t)[Len(t)] = Joined(t)[Len(s)] \o x
    BY <1>1, <2>1, JoinedSteps
  <2>3. Joined(t)[Len(s)] = Joined(s)[Len(s)]
    <3>1. Len(s) \in 1..Len(s) /\ Len(s) <= Len(s) /\ Len(s) <= Len(t)
      BY <1>1, <1>5
    <3>. QED
      BY <1>1, <1>2, <3>1, JoinedAlike
  <2>4. FlattenSeq(s) = Joined(s)[Len(s)]
    BY <1>5, FlattenIsJoined
  <2>. QED
    BY <1>3, <2>2, <2>3, <2>4 DEF t
<1>. QED
  BY <1>4, <1>5

LEMMA PartsFit ==
    ASSUME NEW n \in Nat
    PROVE  /\ n \div PartSize \in Nat
           /\ (n \div PartSize) * PartSize \in 0..n
           /\ n - (n \div PartSize) * PartSize < PartSize
<1> DEFINE q == n \div PartSize
<1>1. PartSize \in Nat \ {0}
  BY ExportAssumption
<1>2. q \in Nat /\ n = PartSize * q + (n % PartSize) /\ n % PartSize \in 0..PartSize-1
  BY <1>1, Z3
<1>3. PartSize * q = q * PartSize /\ q * PartSize \in Int
  BY <1>1, <1>2
<1>. QED
  BY <1>1, <1>2, <1>3

\* The first k parts of what was written.
Parts(w, k) == [i \in 1..k |-> SubSeq(w, (i - 1) * PartSize + 1, i * PartSize)]

LEMMA PartsTyped ==
    ASSUME NEW w \in Seq(Nat), NEW k \in Nat, k * PartSize <= Len(w)
    PROVE  Parts(w, k) \in Seq(Seq(Nat)) /\ Len(Parts(w, k)) = k
<1>1. Len(w) \in Nat /\ PartSize \in Nat
  BY ExportAssumption, LenProperties
<1>2. ASSUME NEW i \in 1..k PROVE SubSeq(w, (i - 1) * PartSize + 1, i * PartSize) \in Seq(Nat)
  <2>1. (i - 1) * PartSize + 1 \in Int /\ i * PartSize \in Int /\ (i - 1) * PartSize >= 0
    BY <1>1
  <2>2. i * PartSize <= k * PartSize
    BY <1>1
  <2>3. \A j \in (i - 1) * PartSize + 1 .. i * PartSize : w[j] \in Nat
    BY <1>1, <2>1, <2>2
  <2>. QED
    BY <2>1, <2>3, SubSeqProperties
<1>. QED
  BY <1>2 DEF Parts

LEMMA PartsJoin ==
    ASSUME NEW s \in Seq(Seq(Nat)), NEW w \in Seq(Nat), NEW k \in Nat, k * PartSize <= Len(w)
    PROVE  FlattenSeq(s \o Parts(w, k)) = FlattenSeq(s) \o SubSeq(w, 1, k * PartSize)
<1>1. Len(w) \in Nat /\ PartSize \in Nat /\ PartSize > 0
  BY ExportAssumption, LenProperties
<1> DEFINE wrong == {n \in 0..k : FlattenSeq(s \o Parts(w, n)) # FlattenSeq(s) \o SubSeq(w, 1, n * PartSize)}
<1> SUFFICES ASSUME wrong # {} PROVE FALSE
  <2>1. k \in 0..k
    OBVIOUS
  <2>. QED
    BY <2>1
<1>2. wrong \in SUBSET Nat
  OBVIOUS
<1>3. PICK x \in wrong : \A y \in wrong : x <= y
  <2>. HIDE DEF wrong
  <2>. QED
    BY <1>2, LeastNumber
<1>6. x \in 0..k /\ FlattenSeq(s \o Parts(w, x)) # FlattenSeq(s) \o SubSeq(w, 1, x * PartSize)
  OBVIOUS
<1>7. \A y \in 0..k : y < x => FlattenSeq(s \o Parts(w, y)) = FlattenSeq(s) \o SubSeq(w, 1, y * PartSize)
  <2>1. ASSUME NEW y \in 0..k, y < x PROVE y \notin wrong
    <3>1. x \in Int /\ y \in Int
      BY <1>6
    <3>. HIDE DEF wrong
    <3>. QED
      BY <1>3, <2>1, <3>1
  <2>. QED
    BY <2>1
<1>. HIDE DEF wrong
<1>4. CASE x = 0
  <2>1. Parts(w, 0) = <<>>
    BY DEF Parts
  <2>2. SubSeq(w, 1, 0 * PartSize) = <<>>
    <3>1. 0 * PartSize = 0
      BY <1>1
    <3>. QED
      BY <3>1, SubSeqEmpty
  <2>3. FlattenSeq(s) \in Seq(Nat)
    BY FlattenType
  <2>4. s \o <<>> = s /\ FlattenSeq(s) \o <<>> = FlattenSeq(s)
    BY <2>3, ConcatEmptySeq
  <2>. QED
    BY <1>4, <1>6, <2>1, <2>2, <2>4
<1>5. CASE x # 0
  <2>1. x \in Nat \ {0} /\ x - 1 \in Nat /\ x - 1 \in 0..k /\ x - 1 < x /\ x <= k
    BY <1>5, <1>6
  <2> DEFINE a == (x - 1) * PartSize
             b == x * PartSize
             part == SubSeq(w, a + 1, b)
  <2>2. a \in Nat /\ b \in Nat /\ b = a + PartSize
    BY <1>1, <2>1
  <2>3. b <= k * PartSize /\ k * PartSize \in Nat
    <3>1. \A c, d, e \in Nat : c <= d => c * e <= d * e
      OBVIOUS
    <3>. QED
      BY <1>1, <2>1, <3>1
  <2>4. b <= Len(w) /\ a <= Len(w)
    <3>. HIDE DEF a, b
    <3>. QED
      BY <1>1, <2>2, <2>3
  <2>5. Parts(w, x - 1) \in Seq(Seq(Nat)) /\ Len(Parts(w, x - 1)) = x - 1
    BY <2>1, <2>4, PartsTyped
  <2>6. Parts(w, x) \in Seq(Seq(Nat)) /\ Len(Parts(w, x)) = x
    BY <2>1, <2>4, PartsTyped
  <2>7. part \in Seq(Nat)
    <3>. HIDE DEF a, b
    <3>1. \A j \in a + 1 .. b : w[j] \in Nat
      <4>1. ASSUME NEW j \in a + 1 .. b PROVE j \in 1..Len(w)
        BY <2>2, <2>4, <1>1
      <4>. QED
        BY <4>1, ElementOfSeq
    <3>. QED
      BY <3>1, <2>2, SubSeqProperties
  <2>8. Parts(w, x) = Append(Parts(w, x - 1), part)
    <3>1. Append(Parts(w, x - 1), part) \in Seq(Seq(Nat)) /\ Len(Append(Parts(w, x - 1), part)) = x
      <4>. HIDE DEF part
      <4>1. Append(Parts(w, x - 1), part) \in Seq(Seq(Nat))
            /\ Len(Append(Parts(w, x - 1), part)) = Len(Parts(w, x - 1)) + 1
        BY <2>5, <2>7, AppendProperties
      <4>. QED
        BY <2>1, <2>5, <4>1
    <3>3. /\ Append(Parts(w, x - 1), part)[x] = part
          /\ \A i \in 1..(x-1) : Append(Parts(w, x - 1), part)[i] = Parts(w, x - 1)[i]
      <4>. HIDE DEF part
      <4>. QED
        BY <2>1, <2>5, <2>7, AppendProperties
    <3>2. ASSUME NEW i \in 1..x PROVE Parts(w, x)[i] = Append(Parts(w, x - 1), part)[i]
      <4>1. CASE i = x
        <5>1. Parts(w, x)[x] = part
          <6>1. x \in 1..x
            BY <2>1
          <6>. QED
            BY <6>1, Zenon DEF Parts
        <5>. QED
          BY <4>1, <5>1, <3>3
      <4>2. CASE i # x
        <5>1. i \in 1..(x-1)
          BY <2>1, <4>2
        <5>2. Parts(w, x)[i] = Parts(w, x - 1)[i]
          BY <5>1 DEF Parts
        <5>. QED
          BY <5>1, <5>2, <3>3
      <4>. QED
        BY <4>1, <4>2
    <3>. QED
      BY <2>6, <3>1, <3>2, SeqEqual
  <2>. HIDE DEF part
  <2>9. s \o Parts(w, x) = Append(s \o Parts(w, x - 1), part)
    <3> DEFINE p == Parts(w, x - 1)
    <3>. HIDE DEF p
    <3>1. p \in Seq(Seq(Nat)) /\ <<part>> \in Seq(Seq(Nat)) /\ s \o p \in Seq(Seq(Nat))
      BY <2>5, <2>7, ConcatProperties DEF p
    <3>2. Append(p, part) = p \o <<part>> /\ Append(s \o p, part) = (s \o p) \o <<part>>
      BY <2>7, <3>1, AppendIsConcat
    <3>3. (s \o p) \o <<part>> = s \o (p \o <<part>>)
      BY <3>1, ConcatAssociative
    <3>. QED
      BY <2>8, <3>2, <3>3 DEF p
  <2>10. FlattenSeq(s \o Parts(w, x)) = FlattenSeq(s \o Parts(w, x - 1)) \o part
    <3>1. s \o Parts(w, x - 1) \in Seq(Seq(Nat))
      BY <2>5, ConcatProperties
    <3>. QED
      BY <2>7, <2>9, <3>1, FlattenAppend
  <2>11. FlattenSeq(s \o Parts(w, x - 1)) = FlattenSeq(s) \o SubSeq(w, 1, a)
    BY <1>7, <2>1
  <2>12. SubSeq(w, 1, a) \o part = SubSeq(w, 1, b)
    <3>. HIDE DEF a, b
    <3>1. a \in 0..Len(w) /\ b \in a..Len(w)
      BY <1>1, <2>2, <2>4
    <3>2. 1 \in 1..Len(w)+1 /\ 1 - 1 = 0
      BY <1>1
    <3>. QED
      BY <3>1, <3>2, ConcatAdjacentSubSeq DEF part
  <2>13. SubSeq(w, 1, a) \in Seq(Nat) /\ FlattenSeq(s) \in Seq(Nat)
    <3>. HIDE DEF a
    <3>1. \A j \in 1 .. a : w[j] \in Nat
      BY <2>2, <2>4, <1>1
    <3>. QED
      BY <2>2, <3>1, SubSeqProperties, FlattenType
  <2>14. (FlattenSeq(s) \o SubSeq(w, 1, a)) \o part = FlattenSeq(s) \o SubSeq(w, 1, b)
    <3>. HIDE DEF a, b
    <3>1. (FlattenSeq(s) \o SubSeq(w, 1, a)) \o part = FlattenSeq(s) \o (SubSeq(w, 1, a) \o part)
      BY <2>7, <2>13, BytesAssociate, Zenon
    <3>. QED
      BY <2>12, <3>1, Zenon
  <2>. QED
    BY <1>6, <2>10, <2>11, <2>14
<1>. QED
  BY <1>4, <1>5

LEMMA WholeAndLeftover ==
    ASSUME NEW s \in Seq(Seq(Nat)), NEW w \in Seq(Nat)
    PROVE  /\ WholeParts(w) \in Seq(Seq(Nat))
           /\ Leftover(w) \in Seq(Nat) /\ Len(Leftover(w)) < PartSize
           /\ FlattenSeq(s \o WholeParts(w)) \o Leftover(w) = FlattenSeq(s) \o w
<1> DEFINE k == Len(w) \div PartSize
           n == k * PartSize
<1>1. Len(w) \in Nat /\ PartSize \in Nat /\ PartSize > 0
  BY ExportAssumption, LenProperties
<1>2. k \in Nat /\ n \in 0..Len(w) /\ Len(w) - n < PartSize
  BY <1>1, PartsFit
<1>3. WholeParts(w) = Parts(w, k) /\ Leftover(w) = SubSeq(w, n + 1, Len(w))
  BY DEF WholeParts, Parts, Leftover
<1>. HIDE DEF k
<1>4. Parts(w, k) \in Seq(Seq(Nat)) /\ FlattenSeq(s \o Parts(w, k)) = FlattenSeq(s) \o SubSeq(w, 1, n)
  BY <1>2, PartsTyped, PartsJoin
<1>. HIDE DEF n
<1>5. SubSeq(w, n + 1, Len(w)) \in Seq(Nat) /\ Len(SubSeq(w, n + 1, Len(w))) < PartSize
  <2>1. \A j \in n + 1..Len(w) : w[j] \in Nat
    BY <1>2
  <2>2. n + 1 \in Int /\ Len(w) \in Int
    BY <1>1, <1>2
  <2>. QED
    BY <1>1, <1>2, <2>1, <2>2, SubSeqProperties
<1>6. SubSeq(w, 1, n) \in Seq(Nat) /\ FlattenSeq(s) \in Seq(Nat)
  <2>1. \A j \in 1..n : w[j] \in Nat
    BY <1>2
  <2>. QED
    BY <1>2, <2>1, SubSeqProperties, FlattenType
<1>7. SubSeq(w, 1, n) \o SubSeq(w, n + 1, Len(w)) = w
  <2>1. 1 \in 1..Len(w)+1 /\ n \in 1 - 1..Len(w) /\ Len(w) \in n..Len(w)
    BY <1>1, <1>2
  <2>. QED
    BY <2>1, ConcatAdjacentSubSeq, SubSeqFull
<1>8. (FlattenSeq(s) \o SubSeq(w, 1, n)) \o SubSeq(w, n + 1, Len(w)) = FlattenSeq(s) \o w
  <2>1. (FlattenSeq(s) \o SubSeq(w, 1, n)) \o SubSeq(w, n + 1, Len(w))
           = FlattenSeq(s) \o (SubSeq(w, 1, n) \o SubSeq(w, n + 1, Len(w)))
    BY <1>5, <1>6, BytesAssociate, Zenon
  <2>. QED
    BY <1>7, <2>1, Zenon
<1>. QED
  BY <1>3, <1>4, <1>5, <1>8

-----------------------------------------------------------------------------
(* Prefixes, and what a slice makes of what the last one left.             *)

LEMMA PrefixIs ==
    ASSUME NEW s \in Seq(Seq(Nat)), NEW t \in Seq(Seq(Nat))
    PROVE  IsPrefix(s, t) <=> Len(s) <= Len(t) /\ \A i \in 1..Len(s) : s[i] = t[i]
<1>1. Len(s) \in Nat /\ Len(t) \in Nat
  BY LenProperties
<1>2. SubSeq(s, 1, Len(s)) = s
  BY SubSeqFull
<1>3. ASSUME Len(s) <= Len(t)
      PROVE  /\ SubSeq(t, 1, Len(s)) \in Seq(Seq(Nat)) /\ Len(SubSeq(t, 1, Len(s))) = Len(s)
             /\ \A i \in 1..Len(s) : SubSeq(t, 1, Len(s))[i] = t[i]
  <2>1. \A j \in 1..Len(s) : t[j] \in Seq(Nat)
    BY <1>1, <1>3
  <2>2. /\ SubSeq(t, 1, Len(s)) \in Seq(Seq(Nat))
        /\ Len(SubSeq(t, 1, Len(s))) = IF 1 <= Len(s) THEN Len(s) - 1 + 1 ELSE 0
        /\ \A i \in 1..Len(s) - 1 + 1 : SubSeq(t, 1, Len(s))[i] = t[1 + i - 1]
    BY <1>1, <2>1, SubSeqProperties
  <2>. QED
    BY <1>1, <2>2
<1>4. ASSUME Len(s) <= Len(t), \A i \in 1..Len(s) : s[i] = t[i]
      PROVE  s = SubSeq(t, 1, Len(s))
  BY <1>3, <1>4, SeqEqual
<1>. QED
  BY <1>2, <1>3, <1>4 DEF IsPrefix

LEMMA PrefixOfConcat ==
    ASSUME NEW s \in Seq(Seq(Nat)), NEW t \in Seq(Seq(Nat))
    PROVE  s \o t \in Seq(Seq(Nat)) /\ IsPrefix(s, s \o t)
<1>1. Len(s) \in Nat /\ Len(t) \in Nat
  BY LenProperties
<1>2. s \o t \in Seq(Seq(Nat)) /\ Len(s \o t) = Len(s) + Len(t) /\ \A i \in 1..Len(s) : (s \o t)[i] = s[i]
  <2>1. /\ s \o t \in Seq(Seq(Nat)) /\ Len(s \o t) = Len(s) + Len(t)
        /\ \A i \in 1..Len(s) + Len(t) : (s \o t)[i] = IF i <= Len(s) THEN s[i] ELSE t[i - Len(s)]
    BY ConcatProperties
  <2>. QED
    BY <1>1, <2>1
<1> DEFINE u == s \o t
<1>3. u \in Seq(Seq(Nat)) /\ Len(s) <= Len(u) /\ \A i \in 1..Len(s) : s[i] = u[i]
  BY <1>1, <1>2
<1>. HIDE DEF u
<1>4. IsPrefix(s, u)
  BY <1>3, PrefixIs
<1>. QED
  BY <1>3, <1>4 DEF u

LEMMA PrefixTrans ==
    ASSUME NEW s \in Seq(Seq(Nat)), NEW t \in Seq(Seq(Nat)), NEW u \in Seq(Seq(Nat)),
           IsPrefix(s, t), IsPrefix(t, u)
    PROVE  IsPrefix(s, u)
<1>1. Len(s) \in Nat /\ Len(t) \in Nat /\ Len(u) \in Nat
  BY LenProperties
<1>2. Len(s) <= Len(t) /\ \A i \in 1..Len(s) : s[i] = t[i]
  BY PrefixIs
<1>3. Len(t) <= Len(u) /\ \A i \in 1..Len(t) : t[i] = u[i]
  BY PrefixIs
<1>4. Len(s) <= Len(u) /\ \A i \in 1..Len(s) : s[i] = u[i]
  BY <1>1, <1>2, <1>3
<1>. QED
  BY <1>4, PrefixIs

\* The upload has what a run has uploaded.
LEMMA UploadedHolds ==
    ASSUME r2.parts \in Seq(Seq(Nat)), NEW parts \in Seq(Seq(Nat))
    PROVE  Uploaded(parts) \in Seq(Seq(Nat)) /\ IsPrefix(parts, Uploaded(parts))
<1> DEFINE others == SubSeq(r2.parts, Len(parts) + 1, Len(r2.parts))
<1>1. Len(parts) \in Nat /\ Len(r2.parts) \in Nat
  BY LenProperties
<1>2. \A j \in Len(parts) + 1..Len(r2.parts) : r2.parts[j] \in Seq(Nat)
  BY <1>1
<1>3. others \in Seq(Seq(Nat))
  BY <1>1, <1>2, SubSeqProperties
<1>. HIDE DEF others
<1>4. parts \o others \in Seq(Seq(Nat)) /\ IsPrefix(parts, parts \o others)
  BY <1>3, PrefixOfConcat
<1>. QED
  BY <1>4 DEF Uploaded, others

LEMMA CountIs ==
    ASSUME NEW n \in Nat
    PROVE  Count(n) \in Seq(Nat) /\ Len(Count(n)) = n /\ \A i \in 1..n : Count(n)[i] = i
BY DEF Count

\* The next messages follow those before.
LEMMA CountOn ==
    ASSUME NEW a \in Nat, NEW b \in Nat, a <= b
    PROVE  /\ [i \in 1 .. b - a |-> a + i] \in Seq(Nat)
           /\ Count(a) \o [i \in 1 .. b - a |-> a + i] = Count(b)
<1> DEFINE more == [i \in 1 .. b - a |-> a + i]
<1>1. b - a \in Nat
  OBVIOUS
<1>2. more \in Seq(Nat) /\ Len(more) = b - a /\ \A i \in 1..(b - a) : more[i] = a + i
  BY <1>1
<1>3. Count(a) \in Seq(Nat) /\ Len(Count(a)) = a /\ \A i \in 1..a : Count(a)[i] = i
  BY CountIs
<1>4. Count(b) \in Seq(Nat) /\ Len(Count(b)) = b /\ \A i \in 1..b : Count(b)[i] = i
  BY CountIs
<1>. HIDE DEF more
<1>5. /\ Count(a) \o more \in Seq(Nat) /\ Len(Count(a) \o more) = a + (b - a)
      /\ \A i \in 1..a + (b - a) : (Count(a) \o more)[i] = IF i <= a THEN Count(a)[i] ELSE more[i - a]
  <2> DEFINE s == Count(a)
  <2>. HIDE DEF s
  <2>1. s \in Seq(Nat) /\ Len(s) = a
    BY <1>3 DEF s
  <2>2. /\ s \o more \in Seq(Nat) /\ Len(s \o more) = Len(s) + Len(more)
        /\ \A i \in 1..Len(s) + Len(more) : (s \o more)[i] = IF i <= Len(s) THEN s[i] ELSE more[i - Len(s)]
    BY <1>2, <2>1, ConcatProperties
  <2>. QED
    BY <1>2, <2>1, <2>2 DEF s
<1>6. Len(Count(a) \o more) = b /\ a + (b - a) = b
  BY <1>5
<1>7. \A i \in 1..b : (Count(a) \o more)[i] = Count(b)[i]
  <2>1. ASSUME NEW i \in 1..b PROVE (Count(a) \o more)[i] = i
    <3>1. CASE i <= a
      <4>1. i \in 1..a /\ i \in 1..a + (b - a)
        BY <3>1
      <4>. QED
        BY <1>3, <1>5, <3>1, <4>1
    <3>2. CASE ~(i <= a)
      <4>1. i - a \in 1..(b - a) /\ i \in 1..a + (b - a)
        BY <3>2
      <4>2. more[i - a] = i
        BY <1>2, <4>1
      <4>. QED
        BY <1>5, <3>2, <4>1, <4>2
    <3>. QED
      BY <3>1, <3>2
  <2>. QED
    BY <1>4, <2>1
<1>8. Count(a) \o more = Count(b)
  BY <1>4, <1>5, <1>6, <1>7, SeqEqual
<1>. QED
  BY <1>2, <1>8 DEF more

-----------------------------------------------------------------------------
(* Who has the row, and what it names.                                     *)

LEMMA Sizes ==
    /\ SliceSize \in Nat /\ SliceSize > 0 /\ PartSize \in Nat /\ PartSize > 0
    /\ MaxAttempts \in Nat /\ MaxAttempts > 0 /\ Delivered = MaxAttempts + 1
    /\ Idle \in Nat /\ Idle > 0 /\ MaxRecoveries \in Nat /\ MaxFaults \in Nat
    /\ Totals \subseteq Nat /\ Slots \subseteq Nat
BY ExportAssumption DEF Delivered

\* A run's token is a key of its own.
LEMMA TokenIsKey ==
    ASSUME TypeOK, NEW m \in Slots, ShapeOf(m), queue[m].at \in InRun
    PROVE  /\ Token(m) \in Keys /\ Token(m) # None
           /\ Token(m)[1] = m /\ Token(m)[2] = queue[m].slice
<1>1. queue[m] \in RunType
  BY DEF TypeOK
<1>2. queue[m].slice \in Nat /\ queue[m].tries \in 1..Delivered
  BY <1>1, Sizes DEF RunType, ShapeOf
<1>3. Token(m) \in Keys
  BY <1>2 DEF Token, Keys
<1>. QED
  BY <1>3, NoneAssumption DEF Token

\* At most one run has the row.
LEMMA Alone ==
    ASSUME TypeOK, RunsInv, NEW m \in Slots, NEW n \in Slots, Holds(m),
           queue[n].at \in InRun \ Unclaimed, job.params = Seen(n)
    PROVE  n = m
<1>1. queue[m].at \in InRun \ Unclaimed
  BY DEF Holds, InRun, Unclaimed
<1>2. job.params = Seen(m)
  BY DEF RunsInv, HoldingOf
<1>3. Seen(m).lease = Token(m) /\ Seen(n).lease = Token(n)
  BY <1>1 DEF RunsInv, ShapeOf
<1>4. Token(m) = Token(n)
  BY <1>2, <1>3
<1>. QED
  BY <1>1, <1>4, TokenIsKey DEF RunsInv

LEMMA OneHolds ==
    ASSUME TypeOK, RunsInv, NEW m \in Slots, NEW n \in Slots, Holds(m), Holds(n)
    PROVE  n = m
<1>1. queue[n].at \in InRun \ Unclaimed /\ job.params = Seen(n)
  BY DEF RunsInv, HoldingOf, Holds, InRun, Unclaimed
<1>. QED
  BY <1>1, Alone

\* What the run that has the row has read is the row.
LEMMA HeldRow ==
    ASSUME TypeOK, RunsInv, NEW m \in Slots, Holds(m)
    PROVE  /\ queue[m].at \in InRun /\ queue[m].seen \in SeenType
           /\ job.params = Seen(m) /\ queue[m].seen.cursor = job.cursor
           /\ Seen(m).lease = Token(m) /\ Seen(m).live /\ Seen(m).slice = queue[m].slice
           /\ job.status # "completed"
           /\ queue[m].slice \in Nat
<1>1. queue[m].at \in InRun \ Unclaimed
  BY DEF Holds, InRun, Unclaimed
<1>2. queue[m] \in RunType
  BY DEF TypeOK
<1>. QED
  BY <1>1, <1>2 DEF RunsInv, ShapeOf, OlderOf, HoldingOf, RunType

\* Carried bytes are less than a part.
LEMMA CarriedBytes ==
    ASSUME TypeOK, NEW key \in Keys \cup {None}, ~Missing(key)
    PROVE  Bytes(key) \in Seq(Nat)
<1>1. CASE key = None
  BY <1>1, EmptySeq DEF Bytes
<1>2. CASE key # None
  <2>1. Carried(key) # {}
    BY <1>2 DEF Missing
  <2>2. (CHOOSE p \in Carried(key) : TRUE) \in Carried(key)
    BY <2>1
  <2>3. \A p \in Carried(key) : p.bytes \in Seq(Nat)
    BY DEF Carried, TypeOK
  <2>. QED
    BY <1>2, <2>2, <2>3 DEF Bytes
<1>. QED
  BY <1>1, <1>2

\* An object's key names its bytes.
LEMMA BytesOf ==
    ASSUME OneObject, NEW p \in r2.pending, p.key # None
    PROVE  ~Missing(p.key) /\ Bytes(p.key) = p.bytes
<1>1. p \in Carried(p.key)
  BY DEF Carried
<1>2. \A q \in Carried(p.key) : q = p
  BY DEF Carried, OneObject
<1>3. (CHOOSE q \in Carried(p.key) : TRUE) = p
  BY <1>1, <1>2
<1>. QED
  BY <1>1, <1>3 DEF Missing, Bytes

-----------------------------------------------------------------------------
(* What a slice makes.                                                     *)

LEMMA WrittenTyped ==
    ASSUME TypeOK, RunsInv, NEW m \in Slots, Holds(m), ~Missing(Seen(m).pending)
    PROVE  /\ Bytes(Seen(m).pending) \in Seq(Nat)
           /\ Written(queue[m].seen) \in Seq(Nat)
           /\ LastOf(queue[m].seen) \in Nat /\ job.cursor <= LastOf(queue[m].seen)
           /\ LastOf(queue[m].seen) <= job.total
           /\ Written(queue[m].seen) = Bytes(Seen(m).pending)
                \o [i \in 1 .. LastOf(queue[m].seen) - job.cursor |-> job.cursor + i]
<1>1. queue[m].seen.cursor = job.cursor /\ queue[m].seen \in SeenType
  BY HeldRow
<1>2. job.cursor \in Nat /\ job.total \in Nat /\ job.cursor <= job.total
  BY Sizes DEF TypeOK
<1>3. /\ LastOf(queue[m].seen) \in Nat /\ job.cursor <= LastOf(queue[m].seen)
      /\ LastOf(queue[m].seen) <= job.total
  BY <1>1, <1>2, Sizes DEF LastOf
<1>4. Seen(m).pending \in Keys \cup {None}
  BY <1>1 DEF SeenType, Params, Seen
<1>5. Bytes(Seen(m).pending) \in Seq(Nat)
  BY <1>4, CarriedBytes
<1>6. Written(queue[m].seen) = Bytes(Seen(m).pending)
        \o [i \in 1 .. LastOf(queue[m].seen) - job.cursor |-> job.cursor + i]
  BY <1>1 DEF Written, Seen
<1>7. Written(queue[m].seen) \in Seq(Nat)
  <2> DEFINE more == [i \in 1 .. LastOf(queue[m].seen) - job.cursor |-> job.cursor + i]
  <2>1. more \in Seq(Nat)
    BY <1>2, <1>3, CountOn
  <2>. HIDE DEF more
  <2>2. Bytes(Seen(m).pending) \o more \in Seq(Nat)
    BY <1>5, <2>1, ConcatProperties
  <2>. QED
    BY <1>6, <2>2 DEF more
<1>. QED
  BY <1>3, <1>5, <1>6, <1>7

\* Parts that are full, a rest that is less than one.
LEMMA MadeTyped ==
    ASSUME TypeOK, RunsInv, NEW m \in Slots, Holds(m), ~Missing(Seen(m).pending)
    PROVE  /\ Made(m) \in MadeType /\ Len(Made(m).rest) < PartSize
           /\ Made(m).cursor = LastOf(queue[m].seen) /\ Made(m).cursor <= job.total
           /\ Made(m).finishing => Made(m).cursor = job.total
           /\ IsPrefix(Seen(m).parts, Made(m).parts)
           /\ FlattenSeq(Made(m).parts) \o Made(m).rest
                = FlattenSeq(Seen(m).parts) \o Written(queue[m].seen)
<1> DEFINE w == Written(queue[m].seen)
           s == Seen(m).parts
           parts == s \o WholeParts(w)
           rest == Leftover(w)
           last == LastOf(queue[m].seen)
<1>1. w \in Seq(Nat) /\ last \in Nat /\ last <= job.total
  BY WrittenTyped
<1>2. s \in Seq(Seq(Nat))
  BY HeldRow DEF SeenType, Params, Seen
<1>3. Made(m) = [parts |-> parts, rest |-> rest, cursor |-> last, finishing |-> last = job.total]
  BY DEF Made, Seen
<1>. HIDE DEF w, s, last
<1>4. WholeParts(w) \in Seq(Seq(Nat)) /\ rest \in Seq(Nat) /\ Len(rest) < PartSize
  BY <1>1, <1>2, WholeAndLeftover
<1>5. FlattenSeq(parts) \o rest = FlattenSeq(s) \o w
  BY <1>1, <1>2, WholeAndLeftover
<1>6. parts \in Seq(Seq(Nat)) /\ IsPrefix(s, parts)
  BY <1>2, <1>4, PrefixOfConcat
<1>. HIDE DEF parts, rest
<1>7. Made(m) \in MadeType
  BY <1>1, <1>3, <1>4, <1>6 DEF MadeType
<1>8. /\ Made(m).parts = parts /\ Made(m).rest = rest
      /\ Made(m).cursor = last /\ Made(m).finishing = (last = job.total)
  BY <1>3
<1>. QED
  BY <1>1, <1>4, <1>5, <1>6, <1>7, <1>8 DEF w, s, last

\* What a slice makes from a row that is right is right.
LEMMA MadeRight ==
    ASSUME TypeOK, RunsInv, NEW m \in Slots, Holds(m), ~Missing(job.params.pending), RowHolds
    PROVE  FlattenSeq(Made(m).parts) \o Made(m).rest = Count(Made(m).cursor)
<1> DEFINE s == job.params.parts
           b == Bytes(job.params.pending)
           last == LastOf(queue[m].seen)
           more == [i \in 1 .. last - job.cursor |-> job.cursor + i]
<1>1. job.params = Seen(m)
  BY HeldRow
<1>2. /\ b \in Seq(Nat) /\ last \in Nat /\ job.cursor <= last
      /\ Written(queue[m].seen) = b \o more
  BY <1>1, WrittenTyped
<1>3. job.cursor \in Nat /\ s \in Seq(Seq(Nat))
  BY DEF TypeOK, Params
<1>4. FlattenSeq(s) \o b = Count(job.cursor)
  BY DEF RowHolds
<1>5. Made(m).cursor = last /\ FlattenSeq(Made(m).parts) \o Made(m).rest = FlattenSeq(s) \o (b \o more)
  BY <1>1, <1>2, MadeTyped
<1>. HIDE DEF s, b, last
<1>6. more \in Seq(Nat) /\ Count(job.cursor) \o more = Count(last)
  BY <1>2, <1>3, CountOn
<1>7. FlattenSeq(s) \in Seq(Nat)
  BY <1>3, FlattenType
<1>. HIDE DEF more
<1>8. FlattenSeq(s) \o (b \o more) = (FlattenSeq(s) \o b) \o more
  BY <1>2, <1>6, <1>7, BytesAssociate, Zenon
<1>. QED
  BY <1>4, <1>5, <1>6, <1>8

-----------------------------------------------------------------------------
(* What the steps of one run leave to the others.                          *)

Points == InRun \cup {"free", "waiting", "held", "late"}

\* Nothing happens to the messages but some.
OnlyIn(M) == queue' \in [Slots -> RunType] /\ \A n \in Slots \ M : queue'[n] = queue[n]
OnlyAt(m) == OnlyIn({m})

LEMMA SlotSet ==
    ASSUME TypeOK, NEW m \in Slots, NEW x \in RunType, queue' = [queue EXCEPT ![m] = x]
    PROVE  OnlyAt(m) /\ queue'[m] = x
BY DEF TypeOK, OnlyAt, OnlyIn

LEMMA StepIs ==
    ASSUME TypeOK, NEW m \in Slots, NEW at \in Points, Step(m, at)
    PROVE  /\ OnlyAt(m) /\ queue'[m] = [queue[m] EXCEPT !.at = at]
           /\ queue'[m].at = at /\ queue'[m].slice = queue[m].slice /\ queue'[m].tries = queue[m].tries
           /\ queue'[m].seen = queue[m].seen /\ queue'[m].made = queue[m].made
           /\ queue'[m].threw = queue[m].threw
           /\ Token(m)' = Token(m) /\ Seen(m)' = Seen(m)
<1>1. queue[m] \in RunType
  BY DEF TypeOK
<1> DEFINE x == [queue[m] EXCEPT !.at = at]
<1>2. x \in RunType
  BY <1>1 DEF RunType, Points
<1>3. queue' = [queue EXCEPT ![m] = x]
  BY DEF Step
<1>4. OnlyAt(m) /\ queue'[m] = x
  BY <1>2, <1>3, SlotSet
<1>5. /\ x.at = at /\ x.slice = queue[m].slice /\ x.tries = queue[m].tries
      /\ x.seen = queue[m].seen /\ x.made = queue[m].made /\ x.threw = queue[m].threw
  BY <1>1 DEF RunType
<1>. HIDE DEF x
<1>6. Token(m)' = Token(m) /\ Seen(m)' = Seen(m)
  BY <1>4, <1>5 DEF Token, Seen
<1>7. queue'[m] = [queue[m] EXCEPT !.at = at]
  BY <1>4 DEF x
<1>. QED
  BY <1>4, <1>5, <1>6, <1>7

LEMMA EmptyTyped == Empty \in RunType
<1>1. 0 \in 0..Delivered /\ 0 \in Nat
  BY Sizes
<1>. QED
  BY <1>1 DEF Empty, RunType

LEMMA MessageTyped ==
    ASSUME NEW s \in Nat, NEW tries \in 0..Delivered
    PROVE  /\ Message(s) \in RunType /\ Message(s).at = "waiting" /\ Message(s).tries = 0
           /\ [Message(s) EXCEPT !.tries = tries] \in RunType
           /\ [Message(s) EXCEPT !.tries = tries].at = "waiting"
           /\ [Message(s) EXCEPT !.tries = tries].tries = tries
<1> DEFINE x == [Empty EXCEPT !.at = "waiting"]
<1>1. x \in RunType /\ x.at = "waiting" /\ x.tries = 0
  <2>1. Empty \in RunType /\ Empty.tries = 0
    BY EmptyTyped DEF Empty
  <2>. QED
    BY <2>1 DEF RunType
<1>2. Message(s) = [x EXCEPT !.slice = s]
  BY DEF Message
<1>. HIDE DEF x
<1>3. Message(s) \in RunType /\ Message(s).at = "waiting" /\ Message(s).tries = 0
  BY <1>1, <1>2 DEF RunType
<1>4. /\ [Message(s) EXCEPT !.tries = tries] \in RunType
      /\ [Message(s) EXCEPT !.tries = tries].at = "waiting"
      /\ [Message(s) EXCEPT !.tries = tries].tries = tries
  BY <1>3 DEF RunType
<1>. QED
  BY <1>3, <1>4

\* A message that is over leaves its place.
LEMMA Acknowledged ==
    ASSUME TypeOK, NEW m \in Slots, Acknowledge(m)
    PROVE  OnlyAt(m) /\ queue'[m].at = "free"
<1>1. OnlyAt(m) /\ queue'[m] = Empty
  BY EmptyTyped, SlotSet DEF Acknowledge
<1>. QED
  BY <1>1 DEF Empty

\* A place that holds no run satisfies all that is said of runs.
LEMMA NoRun ==
    ASSUME NEW m \in Slots, queue'[m].at \notin InRun,
           queue'[m].at \in {"waiting", "held", "late"} => queue'[m].tries < Delivered
    PROVE  ShapeOf(m)' /\ OlderOf(m)' /\ HoldingOf(m)' /\ EndingOf(m)' /\ RunHolds(m)'
BY DEF ShapeOf, OlderOf, HoldingOf, EndingOf, RunHolds, Holds, InRun

\* The row goes on: it counts its slices up, and what is over stays over.
JobOn ==
    /\ job'.total = job.total
    /\ job.params.slice <= job'.params.slice
    /\ job'.params.slice = job.params.slice => job'.cursor = job.cursor
    /\ ~Running => job'.status # "running"
    /\ job.status \notin {"running", "completed"} => job'.status \notin {"running", "completed"}

LEMMA RunsGoOn ==
    ASSUME TypeOK, TypeOK', RunsInv, NEW M \in SUBSET Slots, OnlyIn(M), JobOn,
           \A n \in Slots \ M : Holds(n) => job'.params = job.params /\ job'.status # "completed",
           \A n \in M : ShapeOf(n)' /\ OlderOf(n)' /\ HoldingOf(n)' /\ EndingOf(n)'
    PROVE  RunsInv'
<1>1. ASSUME NEW n \in Slots \ M
      PROVE  ShapeOf(n)' /\ OlderOf(n)' /\ HoldingOf(n)' /\ EndingOf(n)'
  <2>1. queue'[n] = queue[n] /\ Seen(n)' = Seen(n) /\ Token(n)' = Token(n)
    BY DEF OnlyIn, Seen, Token
  <2>2. ShapeOf(n) /\ OlderOf(n) /\ HoldingOf(n) /\ EndingOf(n)
    BY DEF RunsInv
  <2>3. ShapeOf(n)'
    BY <2>1, <2>2 DEF ShapeOf
  <2>4. OlderOf(n)'
    <3>1. SUFFICES ASSUME queue[n].at \in InRun
                   PROVE  /\ Seen(n).slice <= job'.params.slice
                          /\ Seen(n).slice = job'.params.slice => queue[n].seen.cursor = job'.cursor
                          /\ queue[n].at = "clean" => Seen(n).slice < job'.params.slice
      BY <2>1, <2>2 DEF OlderOf, Numbered
    <3>2. Seen(n).slice \in Nat /\ job.params.slice \in Nat /\ job'.params.slice \in Nat
      BY <2>2, <3>1 DEF ShapeOf, SeenType, Params, Seen, TypeOK
    <3>. QED
      BY <2>2, <3>1, <3>2 DEF OlderOf, JobOn
  <2>5. HoldingOf(n)'
    BY <2>1, <2>2 DEF HoldingOf, Holds
  <2>6. EndingOf(n)'
    BY <2>1, <2>2 DEF EndingOf, JobOn, Running
  <2>. QED
    BY <2>3, <2>4, <2>5, <2>6
<1>. QED
  BY <1>1 DEF RunsInv

\* What is said of another run's bytes.
LEMMA RunHoldsOn ==
    ASSUME NEW n \in Slots, RunHolds(n), queue'[n] = queue[n], job'.total = job.total,
           lost \in BOOLEAN, lost' \in BOOLEAN, lost => lost',
           queue[n].at \in {"rendered", "put"} => r2'.parts = r2.parts,
           queue[n].at = "put" => \A p \in r2.pending : p.key = Token(n) => p \in r2'.pending,
           queue[n].at = "undo" /\ ~lost' =>
             job'.params.pending # Token(n) \/ job'.params.pending = job.params.pending,
           queue[n].at = "built" /\ r2.file # None => r2'.file # None
    PROVE  RunHolds(n)'
<1>1. Seen(n)' = Seen(n) /\ Token(n)' = Token(n)
  BY DEF Seen, Token
<1>2. queue[n].at \in {"rendered", "put"} => MadeOf(n)'
  BY DEF RunHolds, MadeOf
<1>3. queue[n].at = "put" /\ queue[n].made.rest # <<>> =>
        [key |-> Token(n), bytes |-> queue[n].made.rest] \in r2'.pending
  BY DEF RunHolds
<1>4. queue[n].at = "looked" => FlattenSeq(Seen(n).parts) \o queue[n].made.rest = Whole'
  BY DEF RunHolds, Whole
<1>5. queue[n].at = "undo" /\ ~lost' => job'.params.pending # Token(n)
  BY DEF RunHolds
<1>6. queue[n].at = "built" => r2'.file # None
  BY DEF RunHolds
<1>. QED
  BY <1>1, <1>2, <1>3, <1>4, <1>5, <1>6 DEF RunHolds

LEMMA RowHoldsOn ==
    ASSUME RowHolds, job'.params.pending = job.params.pending, job'.params.parts = job.params.parts,
           job'.cursor = job.cursor, r2'.parts = r2.parts,
           {p \in r2'.pending : p.key = job.params.pending} = {p \in r2.pending : p.key = job.params.pending},
           lost \in BOOLEAN, lost' \in BOOLEAN, lost => lost'
    PROVE  RowHolds'
<1>1. /\ Missing(job.params.pending)' = Missing(job.params.pending)
      /\ Bytes(job.params.pending)' = Bytes(job.params.pending)
  <2>1. Carried(job.params.pending)' = Carried(job.params.pending)
    BY DEF Carried
  <2>. QED
    BY <2>1 DEF Missing, Bytes
<1>. QED
  BY <1>1 DEF RowHolds

-----------------------------------------------------------------------------
(* Steps that write no row and no object.                                  *)

\* A run that owes some tidying does not leave it.
Hands(m) ==
    /\ queue[m].at \notin {"abort", "purge", "tidy", "undo"}
    /\ queue[m].at = "built" => queue'[m].at = "purge"
    /\ queue[m].at = "put" => queue'[m].at = "undo" /\ PendingOf(m)' = PendingOf(m)

\* The row stays what it is but for its claim and its times.
SameWork ==
    /\ job'.total = job.total /\ job'.status = job.status /\ job'.cursor = job.cursor
    /\ job'.params.slice = job.params.slice /\ job'.params.parts = job.params.parts
    /\ job'.params.pending = job.params.pending /\ job'.params.finishing = job.params.finishing

LEMMA WorkKeeps ==
    ASSUME IInv, TypeOK', NEW M \in SUBSET Slots, OnlyIn(M), SameWork, UNCHANGED <<r2, lost>>,
           torn => torn', Ending', cron'.at \in {"read", "resume"} => cron'.seen \in SeenType,
           \A n \in Slots \ M : Holds(n) => job'.params = job.params,
           \A n \in M : ShapeOf(n)' /\ OlderOf(n)' /\ HoldingOf(n)' /\ EndingOf(n)',
           Running => \A n \in M : RunHolds(n)',
           ~Running /\ ~torn' =>
             /\ \A n \in M : Hands(n)
             /\ cron.at \in {"abort", "purge"} => cron'.at = cron.at
             /\ user.at \in {"abort", "purge"} => user'.at = user.at
    PROVE  IInv'
<1>1. TypeOK /\ RowShape /\ RunsInv /\ BytesInv /\ EndInv
  BY DEF IInv
<1>2. Running' = Running
  BY DEF Running, SameWork
<1>3. RowShape'
  BY <1>1 DEF RowShape, Numbered, SameWork
<1>4. RunsInv'
  <2>1. JobOn
    BY <1>1, Sizes DEF JobOn, SameWork, Running, TypeOK, Params
  <2>2. \A n \in Slots \ M : Holds(n) => job'.params = job.params /\ job'.status # "completed"
    BY <1>1 DEF RunsInv, HoldingOf, SameWork
  <2>. QED
    BY <1>1, <2>1, <2>2, RunsGoOn
<1>5. BytesInv'
  <2>1. OneObject'
    BY <1>1 DEF BytesInv, OneObject
  <2>2. ASSUME Running PROVE RowHolds' /\ \A n \in Slots : RunHolds(n)'
    <3>1. RowHolds'
      BY <1>1, <2>2, RowHoldsOn DEF BytesInv, SameWork, TypeOK
    <3>2. ASSUME NEW n \in Slots \ M PROVE RunHolds(n)'
      <4>1. RunHolds(n) /\ queue'[n] = queue[n] /\ lost \in BOOLEAN
        BY <1>1, <2>2 DEF BytesInv, OnlyIn, TypeOK
      <4>. QED
        BY <4>1, RunHoldsOn DEF SameWork
    <3>. QED
      BY <2>2, <3>1, <3>2
  <2>3. FileHolds' = FileHolds
    BY DEF FileHolds, Whole, SameWork
  <2>. QED
    BY <1>1, <1>2, <2>1, <2>2, <2>3 DEF BytesInv, SameWork
<1>6. ASSUME ~Running, ~torn' PROVE Tidying'
  <2>1. /\ Tidying /\ \A n \in M : Hands(n)
        /\ cron.at \in {"abort", "purge"} => cron'.at = cron.at
        /\ user.at \in {"abort", "purge"} => user'.at = user.at
    BY <1>1, <1>6 DEF EndInv, TypeOK
  <2>2. \A n \in Slots \ M : queue'[n] = queue[n] /\ PendingOf(n)' = PendingOf(n)
    BY DEF OnlyIn, Token, PendingOf
  <2>3. cron.at \notin {"tidy", "built"} /\ user.at \notin {"tidy", "built"}
    BY <1>1 DEF TypeOK
  <2>4. Tidier({"abort"}) => Tidier({"abort"})'
    BY <2>1, <2>2 DEF Tidier, Hands
  <2>5. Tidier({"abort", "purge", "tidy"}) => Tidier({"abort", "purge", "tidy"})'
    BY <2>1, <2>2, <2>3 DEF Tidier, Hands
  <2>6. Tidier({"abort", "purge", "built"}) => Tidier({"abort", "purge", "built"})'
    BY <2>1, <2>2, <2>3 DEF Tidier, Hands
  <2>7. ASSUME NEW p \in r2.pending,
               \E n \in Slots : queue[n].at \in {"put", "undo"} /\ p.key = PendingOf(n)
        PROVE  \E n \in Slots : queue'[n].at \in {"put", "undo"} /\ p.key = PendingOf(n)'
    <3>1. PICK n \in Slots : queue[n].at \in {"put", "undo"} /\ p.key = PendingOf(n)
      BY <2>7
    <3>. QED
      BY <2>1, <2>2, <3>1 DEF Hands
  <2>. QED
    BY <2>1, <2>4, <2>5, <2>6, <2>7 DEF Tidying, SameWork
<1>. QED
  BY <1>1, <1>2, <1>3, <1>4, <1>5, <1>6 DEF IInv, EndInv

LEMMA QuietMove ==
    ASSUME IInv, NEW m \in Slots, OnlyAt(m), UNCHANGED <<job, r2, cron, user, lost>>,
           torn' \in BOOLEAN, torn => torn', faults' \in 0..MaxFaults,
           ShapeOf(m)', OlderOf(m)', HoldingOf(m)', EndingOf(m)',
           Running => RunHolds(m)',
           ~Running /\ ~torn' => Hands(m)
    PROVE  IInv'
<1>1. TypeOK'
  BY DEF IInv, TypeOK, OnlyAt, OnlyIn
<1>2. SameWork
  BY DEF SameWork
<1>3. Ending' /\ (cron'.at \in {"read", "resume"} => cron'.seen \in SeenType)
  BY DEF IInv, EndInv, Ending, RowShape, Running
<1>. QED
  BY <1>1, <1>2, <1>3, WorkKeeps DEF OnlyAt

\* A place that holds no run afterwards, and whose run owed nothing.
LEMMA RunGone ==
    ASSUME IInv, NEW m \in Slots, OnlyAt(m), UNCHANGED <<job, r2, cron, user, lost>>,
           torn' \in BOOLEAN, torn => torn', faults' \in 0..MaxFaults,
           queue'[m].at \notin InRun,
           queue'[m].at \in {"waiting", "held", "late"} => queue'[m].tries < Delivered,
           ~Running /\ ~torn' => Hands(m)
    PROVE  IInv'
BY QuietMove, NoRun

\* What holds at every step but a fault.
LEMMA Unhurt ==
    ASSUME IInv, UNCHANGED <<torn, lost, faults>>
    PROVE  /\ torn' \in BOOLEAN /\ (torn => torn') /\ lost \in BOOLEAN /\ lost' \in BOOLEAN
           /\ faults' \in 0..MaxFaults
BY DEF IInv, TypeOK

LEMMA Hurt ==
    ASSUME IInv, Fault
    PROVE  faults' \in 0..MaxFaults /\ torn \in BOOLEAN /\ lost \in BOOLEAN
<1>1. faults \in 0..MaxFaults /\ {torn, lost} \subseteq BOOLEAN
  BY DEF IInv, TypeOK
<1>2. faults + 1 \in 0..MaxFaults
  BY <1>1, Sizes DEF Fault
<1>. QED
  BY <1>1, <1>2 DEF Fault

LEMMA ReadKeeps ==
    ASSUME IInv, NEW m \in Slots, Read(m)
    PROVE  IInv'
<1>1. TypeOK /\ RowShape /\ ShapeOf(m) /\ queue[m] \in RunType
  BY DEF IInv, RunsInv, TypeOK
<1>2. queue[m].at = "waiting" /\ UNCHANGED <<job, r2, cron, user, torn, lost, faults>>
  BY DEF Read
<1>3. Hands(m)
  BY <1>2 DEF Hands
<1>4. CASE Running
  <2> DEFINE x == [queue[m] EXCEPT !.at = "read", !.tries = @ + 1,
                                   !.seen = [params |-> job.params, cursor |-> job.cursor]]
  <2>1. queue[m].tries \in Nat /\ queue[m].tries < Delivered
    BY <1>1, <1>2, Sizes DEF ShapeOf, RunType
  <2>2. [params |-> job.params, cursor |-> job.cursor] \in SeenType
    BY <1>1 DEF TypeOK, SeenType
  <2>3. x \in RunType
    <3>1. queue[m].tries + 1 \in 0..Delivered
      BY <2>1, Sizes
    <3>. QED
      BY <1>1, <2>2, <3>1 DEF RunType, InRun
  <2>4. queue' = [queue EXCEPT ![m] = x]
    BY <1>4 DEF Read
  <2>5. OnlyAt(m) /\ queue'[m] = x
    BY <1>1, <2>3, <2>4, SlotSet
  <2>6. /\ x.at = "read" /\ x.tries = queue[m].tries + 1
        /\ x.seen = [params |-> job.params, cursor |-> job.cursor]
    BY <1>1 DEF RunType
  <2>. HIDE DEF x
  <2>7. ShapeOf(m)'
    BY <2>1, <2>2, <2>5, <2>6 DEF ShapeOf, Unclaimed
  <2>8. OlderOf(m)'
    <3>1. Seen(m)' = job.params /\ queue'[m].seen.cursor = job.cursor
      BY <2>5, <2>6 DEF Seen
    <3>. QED
      BY <1>1, <1>2, <2>5, <2>6, <3>1, Sizes DEF OlderOf, RowShape, Numbered, TypeOK, Params
  <2>9. HoldingOf(m)' /\ EndingOf(m)' /\ RunHolds(m)'
    BY <2>5, <2>6 DEF HoldingOf, Holds, EndingOf, RunHolds
  <2>. QED
    BY <1>2, <1>3, <2>5, <2>7, <2>8, <2>9, QuietMove, Unhurt
<1>5. CASE ~Running
  <2>1. Acknowledge(m)
    BY <1>5 DEF Read, Acknowledge
  <2>. QED
    BY <1>1, <1>2, <1>3, <2>1, Acknowledged, RunGone, Unhurt DEF InRun
<1>. QED
  BY <1>4, <1>5

\* The message is over, or comes back once the claim has run out.
LEMMA NotClaimedKeeps ==
    ASSUME IInv, NEW m \in Slots, queue[m].at = "read",
           UNCHANGED <<job, r2, cron, user, torn, lost, faults>>,
           \/ Acknowledge(m)
           \/ /\ queue[m].tries < Delivered
              /\ queue' = [queue EXCEPT ![m].at = "held", ![m].seen = None]
    PROVE  IInv'
<1>1. TypeOK /\ queue[m] \in RunType
  BY DEF IInv, TypeOK
<1>2. Hands(m)
  BY DEF Hands
<1>3. CASE Acknowledge(m)
  BY <1>1, <1>2, <1>3, Acknowledged, RunGone, Unhurt DEF InRun
<1>4. CASE /\ queue[m].tries < Delivered
           /\ queue' = [queue EXCEPT ![m].at = "held", ![m].seen = None]
  <2> DEFINE x == [queue[m] EXCEPT !.at = "held", !.seen = None]
  <2>1. x \in RunType
    BY <1>1 DEF RunType
  <2>2. OnlyAt(m) /\ queue'[m] = x
    <3>1. queue' = [queue EXCEPT ![m] = x]
      BY <1>4
    <3>. QED
      BY <1>1, <2>1, <3>1, SlotSet
  <2>3. x.at = "held" /\ x.tries = queue[m].tries
    BY <1>1 DEF RunType
  <2>. QED
    BY <1>2, <1>4, <2>2, <2>3, RunGone, Unhurt DEF InRun
<1>. QED
  BY <1>3, <1>4

LEMMA PublishKeeps ==
    ASSUME IInv, NEW m \in Slots, Publish(m)
    PROVE  IInv'
<1>1. TypeOK /\ queue[m] \in RunType
  BY DEF IInv, TypeOK
<1>2. queue[m].slice + 1 \in Nat /\ 0 \in 0..Delivered /\ 0 < Delivered
  BY <1>1, Sizes DEF RunType
<1>3. Message(queue[m].slice + 1) \in RunType
  BY <1>2, MessageTyped
<1>4. OnlyAt(m) /\ queue'[m] = Message(queue[m].slice + 1)
  BY <1>1, <1>3, SlotSet DEF Publish
<1>5. queue'[m].at = "waiting" /\ queue'[m].tries = 0
  BY <1>2, <1>4, MessageTyped
<1>6. Hands(m) /\ UNCHANGED <<job, r2, cron, user, torn, lost, faults>>
  BY DEF Hands, Publish
<1>. QED
  BY <1>2, <1>4, <1>5, <1>6, RunGone, Unhurt DEF InRun

\* A step of a run that goes on with what it has.
LEMMA StepKeeps ==
    ASSUME IInv, NEW m \in Slots, NEW at \in InRun, queue[m].at \in InRun \ Unclaimed, Step(m, at),
           UNCHANGED <<job, r2, cron, user, lost>>,
           torn' \in BOOLEAN, torn => torn', faults' \in 0..MaxFaults,
           at \notin {"read", "claimed", "rendered", "put", "looked", "clean"},
           at = "built" => Holds(m) /\ r2.file # None,
           at = "undo" => queue[m].at = "put" /\ ~Running,
           at \in {"tidy", "purge", "abort"} => ~Running,
           at \in {"purge", "abort"} => job.status # "completed",
           ~Running /\ ~torn' => Hands(m)
    PROVE  IInv'
<1>1. TypeOK /\ ShapeOf(m) /\ OlderOf(m) /\ HoldingOf(m) /\ EndingOf(m)
  BY DEF IInv, RunsInv
<1>2. /\ OnlyAt(m) /\ queue'[m].at = at /\ queue'[m].slice = queue[m].slice
      /\ queue'[m].tries = queue[m].tries /\ queue'[m].seen = queue[m].seen
      /\ queue'[m].made = queue[m].made /\ Token(m)' = Token(m) /\ Seen(m)' = Seen(m)
  BY <1>1, StepIs DEF Points
<1>3. ShapeOf(m)'
  <2>1. queue[m].seen \in SeenType /\ queue[m].tries >= 1
    BY <1>1 DEF ShapeOf
  <2>2. Seen(m).lease = Token(m) /\ Seen(m).live /\ Seen(m).slice = queue[m].slice
    BY <1>1 DEF ShapeOf
  <2>3. at = "undo" => queue[m].made \in MadeType /\ Len(queue[m].made.rest) < PartSize
    BY <1>1 DEF ShapeOf
  <2>. QED
    BY <1>2, <2>1, <2>2, <2>3 DEF ShapeOf, InRun
<1>4. OlderOf(m)'
  BY <1>1, <1>2 DEF OlderOf, Numbered
<1>5. HoldingOf(m)'
  BY <1>1, <1>2 DEF HoldingOf, Holds
<1>6. EndingOf(m)'
  BY <1>2 DEF EndingOf, Running
<1>7. Running => RunHolds(m)'
  BY <1>2 DEF RunHolds
<1>. QED
  BY <1>2, <1>3, <1>4, <1>5, <1>6, <1>7, QuietMove

-----------------------------------------------------------------------------
(* The steps of the queue, and those of a run that change its claim only.  *)

LEMMA FirstFreeIsFree ==
    ASSUME Free # {}
    PROVE  FirstFree \in Slots /\ queue[FirstFree].at = "free"
<1>1. Free \in SUBSET Nat
  BY Sizes DEF Free
<1>2. \E m \in Free : \A n \in Free : m <= n
  BY <1>1, LeastNumber
<1>3. FirstFree \in Free
  BY <1>2 DEF FirstFree
<1>. QED
  BY <1>3 DEF Free

\* A new message in a free place.
LEMMA QueuedKeeps ==
    ASSUME TypeOK, Free # {}, NEW s \in Nat, queue' = [queue EXCEPT ![FirstFree] = Message(s)]
    PROVE  /\ FirstFree \in Slots /\ queue[FirstFree].at = "free" /\ OnlyAt(FirstFree)
           /\ queue'[FirstFree].at = "waiting" /\ queue'[FirstFree].tries = 0 /\ 0 < Delivered
<1>1. FirstFree \in Slots /\ queue[FirstFree].at = "free"
  BY FirstFreeIsFree
<1>2. 0 \in 0..Delivered /\ 0 < Delivered
  BY Sizes
<1>3. Message(s) \in RunType /\ Message(s).at = "waiting" /\ Message(s).tries = 0
  BY <1>2, MessageTyped
<1>4. OnlyAt(FirstFree) /\ queue'[FirstFree] = Message(s)
  BY <1>1, <1>3, SlotSet
<1>. QED
  BY <1>1, <1>2, <1>3, <1>4

LEMMA DelaySteps ==
    ASSUME IInv, NEW m \in Slots, Delay(m) \/ Arrive(m)
    PROVE  IInv'
<1>1. TypeOK /\ queue[m].at \in {"waiting", "late"} /\ queue[m].tries < Delivered
  BY DEF IInv, RunsInv, ShapeOf, Delay, Arrive
<1>2. PICK at \in {"waiting", "late"} : Step(m, at)
  BY DEF Delay, Arrive
<1>3. OnlyAt(m) /\ queue'[m].at = at /\ queue'[m].tries = queue[m].tries
  BY <1>1, <1>2, StepIs DEF Points
<1>4. Hands(m)
  BY <1>1 DEF Hands
<1>5. UNCHANGED <<job, r2, cron, user, torn, lost>>
  BY DEF Delay, Arrive
<1>6. faults' \in 0..MaxFaults /\ torn' \in BOOLEAN /\ (torn => torn')
  BY <1>5, Hurt, Unhurt DEF Delay, Arrive
<1>. QED
  BY <1>1, <1>3, <1>4, <1>5, <1>6, RunGone DEF InRun

LEMMA DieSteps ==
    ASSUME IInv, NEW m \in Slots, Die(m)
    PROVE  IInv'
<1>1. TypeOK /\ queue[m] \in RunType
  BY DEF IInv, TypeOK
<1>2. /\ UNCHANGED <<job, r2, cron, user, lost>> /\ torn' = (torn \/ ~Running)
      /\ faults' \in 0..MaxFaults
  BY Hurt DEF Die
<1>3. torn' \in BOOLEAN /\ (torn => torn') /\ (~torn' => Running)
  BY <1>2, Hurt DEF Die
<1>4. /\ OnlyAt(m) /\ queue'[m].at \in {"waiting", "free"}
      /\ queue'[m].at = "waiting" => queue'[m].tries < Delivered
  <2>1. CASE queue[m].tries < Delivered
    <3> DEFINE x == [Message(queue[m].slice) EXCEPT !.tries = queue[m].tries]
    <3>1. x \in RunType /\ x.at = "waiting" /\ x.tries = queue[m].tries
      <4>1. queue[m].slice \in Nat /\ queue[m].tries \in 0..Delivered
        BY <1>1 DEF RunType
      <4>. QED
        BY <4>1, MessageTyped
    <3>2. queue' = [queue EXCEPT ![m] = x]
      BY <2>1 DEF Die
    <3>. HIDE DEF x
    <3>. QED
      BY <1>1, <2>1, <3>1, <3>2, SlotSet
  <2>2. CASE ~(queue[m].tries < Delivered)
    <3>1. queue' = [queue EXCEPT ![m] = Empty]
      BY <2>2 DEF Die
    <3>2. OnlyAt(m) /\ queue'[m].at = "free"
      BY <1>1, <3>1, Acknowledged DEF Acknowledge
    <3>. QED
      BY <3>2
  <2>. QED
    BY <2>1, <2>2
<1>. QED
  BY <1>2, <1>3, <1>4, RunGone DEF InRun

LEMMA DuplicateSteps ==
    ASSUME IInv, NEW m \in Slots, Duplicate(m)
    PROVE  IInv'
<1>1. TypeOK /\ queue[m].slice \in Nat
  BY DEF IInv, TypeOK, RunType
<1>2. /\ Free # {} /\ queue' = [queue EXCEPT ![FirstFree] = Message(queue[m].slice)]
      /\ UNCHANGED <<job, r2, cron, user, torn, lost>>
  BY DEF Duplicate
<1>3. faults' \in 0..MaxFaults /\ torn' \in BOOLEAN /\ (torn => torn')
  BY <1>2, Hurt DEF Duplicate
<1>4. PICK n \in Slots : /\ queue[n].at = "free" /\ OnlyAt(n) /\ queue'[n].at = "waiting"
                        /\ queue'[n].tries < Delivered
  BY <1>1, <1>2, QueuedKeeps
<1>5. Hands(n)
  BY <1>4 DEF Hands
<1>. QED
  BY <1>2, <1>3, <1>4, <1>5, RunGone DEF InRun

LEMMA ThrowSteps ==
    ASSUME IInv, NEW m \in Slots, Throw(m)
    PROVE  IInv'
<1>1. queue[m].at \in {"claimed", "rendered", "looked"} /\ Step(m, "threw")
  BY DEF Throw
<1>2. UNCHANGED <<job, r2, cron, user, torn, lost>>
  BY DEF Throw
<1>3. faults' \in 0..MaxFaults /\ torn' \in BOOLEAN /\ (torn => torn')
  BY <1>2, Hurt DEF Throw
<1>4. Hands(m)
  BY <1>1 DEF Hands
<1>. QED
  BY <1>1, <1>2, <1>3, <1>4, StepKeeps DEF InRun, Unclaimed

\* The claim of a run is one that nobody else has.
LEMMA ClaimKeeps ==
    ASSUME IInv, NEW m \in Slots, Claim(m)
    PROVE  IInv'
<1>1. /\ TypeOK /\ RowShape /\ RunsInv /\ queue[m] \in RunType
      /\ ShapeOf(m) /\ OlderOf(m)
  BY DEF IInv, RunsInv, TypeOK
<1>2. queue[m].at = "read" /\ UNCHANGED <<r2, cron, user, torn, lost, faults>>
  BY DEF Claim
<1>3. CASE UNCHANGED job /\ \/ Acknowledge(m)
                            \/ /\ queue[m].tries < Delivered
                               /\ queue' = [queue EXCEPT ![m].at = "held", ![m].seen = None]
  BY <1>2, <1>3, NotClaimedKeeps
<1>4. CASE /\ Seen(m).slice = queue[m].slice /\ ~Busy(queue[m].seen) /\ StillClaimed(queue[m].seen)
           /\ job' = [job EXCEPT !.params = Claimed(m), !.idle = 0]
           /\ queue' = [queue EXCEPT ![m].at = "claimed", ![m].seen.params = Claimed(m)]
  <2>1. queue[m].seen \in SeenType /\ queue[m].tries >= 1 /\ queue[m].at \in InRun
    BY <1>1, <1>2 DEF ShapeOf, InRun
  <2>2. Token(m) \in Keys
    BY <1>1, <2>1, TokenIsKey
  <2>3. Running /\ job.params = Seen(m) /\ Seen(m) \in Params /\ Seen(m).live = FALSE
    BY <1>4, <2>1 DEF StillClaimed, Busy, Seen, SeenType, Params
  <2>4. \A n \in Slots : ~Holds(n)
    BY <1>1, <2>3, HeldRow
  <2> DEFINE c == Claimed(m)
  <2>5. /\ c \in Params /\ c.lease = Token(m) /\ c.live = TRUE
        /\ c.slice = Seen(m).slice /\ c.parts = Seen(m).parts /\ c.pending = Seen(m).pending
        /\ c.finishing = Seen(m).finishing /\ c.recoveries = Seen(m).recoveries
    BY <2>2, <2>3 DEF Claimed, Params, Seen
  <2>. HIDE DEF c
  <2> DEFINE s == [queue[m].seen EXCEPT !.params = c]
             x == [queue[m] EXCEPT !.at = "claimed", !.seen = s]
  <2>6. s \in SeenType /\ s.params = c /\ s.cursor = queue[m].seen.cursor
    BY <2>1, <2>5 DEF SeenType
  <2>7. queue' = [queue EXCEPT ![m] = x]
    BY <1>4 DEF c
  <2>. HIDE DEF s
  <2>8. /\ x \in RunType /\ x.at = "claimed" /\ x.seen = s
        /\ x.slice = queue[m].slice /\ x.tries = queue[m].tries
    BY <1>1, <2>6 DEF RunType, InRun
  <2>. HIDE DEF x
  <2>9. OnlyAt(m) /\ queue'[m] = x /\ Token(m)' = Token(m) /\ Seen(m)' = c
    <3>1. OnlyAt(m) /\ queue'[m] = x
      BY <1>1, <2>7, <2>8, SlotSet
    <3>. QED
      BY <2>6, <2>8, <3>1 DEF Token, Seen
  <2>10. /\ job'.params = c /\ job'.total = job.total /\ job'.status = job.status
         /\ job'.cursor = job.cursor /\ SameWork
         /\ job' \in [status : Statuses, total : Totals, cursor : Nat, idle : 0 .. Idle, params : Params]
    <3>1. job' = [job EXCEPT !.params = c, !.idle = 0] /\ 0 \in 0..Idle
      BY <1>4, Sizes DEF c
    <3>. QED
      BY <1>1, <2>3, <2>5, <3>1 DEF TypeOK, SameWork
  <2>11. TypeOK'
    <3>1. job'.params.recoveries <= MaxRecoveries /\ job'.cursor <= job'.total
      BY <1>1, <2>3, <2>5, <2>10 DEF TypeOK
    <3>. QED
      BY <1>1, <1>2, <2>9, <2>10, <3>1 DEF TypeOK, OnlyAt, OnlyIn
  <2>12. ShapeOf(m)'
    BY <1>4, <2>1, <2>5, <2>6, <2>8, <2>9 DEF ShapeOf
  <2>13. OlderOf(m)'
    <3>1. Seen(m).slice \in Nat /\ Numbered(Seen(m)) /\ queue[m].seen.cursor = job.cursor
      BY <1>1, <2>1, <2>3 DEF OlderOf, Params
    <3>. QED
      BY <2>5, <2>6, <2>8, <2>9, <2>10, <3>1 DEF OlderOf, Numbered
  <2>14. HoldingOf(m)' /\ EndingOf(m)' /\ RunHolds(m)'
    BY <2>3, <2>8, <2>9, <2>10 DEF HoldingOf, EndingOf, RunHolds, Running
  <2>15. Ending' /\ (cron'.at \in {"read", "resume"} => cron'.seen \in SeenType)
    BY <1>2, <2>10 DEF IInv, EndInv, Ending, RowShape, Running
  <2>. QED
    BY <1>2, <2>3, <2>4, <2>9, <2>10, <2>11, <2>12, <2>13, <2>14, <2>15, WorkKeeps DEF OnlyAt
<1>. QED
  <2>1. CASE queue[m].seen.params.slice # queue[m].slice
    BY <1>3, <2>1 DEF Claim
  <2>2. CASE queue[m].seen.params.slice = queue[m].slice
             /\ (Busy(queue[m].seen) \/ ~StillClaimed(queue[m].seen))
    BY <1>3, <2>2 DEF Claim
  <2>3. CASE /\ queue[m].seen.params.slice = queue[m].slice
             /\ ~(Busy(queue[m].seen) \/ ~StillClaimed(queue[m].seen))
    BY <1>4, <2>3 DEF Claim, Seen
  <2>. QED
    BY <2>1, <2>2, <2>3

\* A message whose run threw.
LEMMA ThrownIs ==
    ASSUME TypeOK, NEW m \in Slots, Thrown(m)
    PROVE  /\ OnlyAt(m)
           /\ \/ /\ queue'[m].at = "failing" /\ queue'[m].tries = queue[m].tries
                 /\ queue'[m].slice = queue[m].slice /\ queue'[m].seen = queue[m].seen
              \/ queue'[m].at = "waiting" /\ queue'[m].tries < Delivered
<1>0. queue[m] \in RunType
  BY DEF TypeOK
<1>1. CASE queue[m].tries >= MaxAttempts
  <2> DEFINE x == [queue[m] EXCEPT !.at = "failing"]
  <2>1. /\ x \in RunType /\ x.at = "failing" /\ x.tries = queue[m].tries /\ x.slice = queue[m].slice
        /\ x.seen = queue[m].seen
    BY <1>0 DEF RunType, InRun
  <2>2. queue' = [queue EXCEPT ![m] = x]
    BY <1>1 DEF Thrown
  <2>. HIDE DEF x
  <2>. QED
    BY <1>0, <2>1, <2>2, SlotSet
<1>2. CASE ~(queue[m].tries >= MaxAttempts)
  <2> DEFINE x == [Message(queue[m].slice) EXCEPT !.tries = queue[m].tries]
  <2>1. x \in RunType /\ x.at = "waiting" /\ x.tries = queue[m].tries
    <3>1. queue[m].slice \in Nat /\ queue[m].tries \in 0..Delivered
      BY <1>0 DEF RunType
    <3>. QED
      BY <3>1, MessageTyped
  <2>2. queue' = [queue EXCEPT ![m] = x]
    BY <1>2 DEF Thrown
  <2>3. queue[m].tries < Delivered
    BY <1>0, <1>2, Sizes DEF RunType
  <2>. HIDE DEF x
  <2>. QED
    BY <1>0, <2>1, <2>2, <2>3, SlotSet
<1>. QED
  BY <1>1, <1>2

\* A run that threw gives its own claim back, and no other.
LEMMA ReleaseKeeps ==
    ASSUME IInv, NEW m \in Slots, Release(m)
    PROVE  IInv'
<1>1. /\ TypeOK /\ RowShape /\ RunsInv /\ queue[m] \in RunType
      /\ ShapeOf(m) /\ OlderOf(m)
  BY DEF IInv, RunsInv, TypeOK
<1>2. /\ queue[m].at = "threw" /\ queue[m].at \in InRun \ Unclaimed
      /\ UNCHANGED <<r2, cron, user, torn, lost, faults>>
  BY DEF Release, InRun, Unclaimed
<1>3. /\ OnlyAt(m)
      /\ \/ /\ queue'[m].at = "failing" /\ queue'[m].tries = queue[m].tries
            /\ queue'[m].slice = queue[m].slice /\ queue'[m].seen = queue[m].seen
         \/ queue'[m].at = "waiting" /\ queue'[m].tries < Delivered
  BY <1>1, ThrownIs DEF Release
<1>4. /\ SameWork /\ job'.params.recoveries = job.params.recoveries
      /\ job' \in [status : Statuses, total : Totals, cursor : Nat, idle : 0 .. Idle, params : Params]
      /\ job' # job => job.params = Seen(m)
  <2>1. CASE StillClaimed(queue[m].seen)
    <3> DEFINE c == Released(job.params)
    <3>1. job' = [job EXCEPT !.params = c] /\ job.params = Seen(m)
      BY <2>1 DEF Release, StillClaimed, Seen
    <3>2. /\ c \in Params /\ c.slice = job.params.slice /\ c.parts = job.params.parts
          /\ c.pending = job.params.pending /\ c.finishing = job.params.finishing
          /\ c.recoveries = job.params.recoveries
      BY <1>1 DEF Released, Params, TypeOK
    <3>. HIDE DEF c
    <3>. QED
      BY <1>1, <3>1, <3>2 DEF TypeOK, SameWork
  <2>2. CASE ~StillClaimed(queue[m].seen)
    BY <1>1, <2>2 DEF Release, TypeOK, SameWork
  <2>. QED
    BY <2>1, <2>2
<1>5. TypeOK'
  BY <1>1, <1>2, <1>3, <1>4 DEF TypeOK, OnlyAt, OnlyIn, SameWork
<1>6. \A n \in Slots \ {m} : Holds(n) => job'.params = job.params
  BY <1>1, <1>2, <1>4, Alone
<1>7. ShapeOf(m)' /\ OlderOf(m)' /\ HoldingOf(m)' /\ EndingOf(m)' /\ RunHolds(m)'
  <2>1. CASE queue'[m].at = "waiting" /\ queue'[m].tries < Delivered
    BY <2>1, NoRun DEF InRun
  <2>2. CASE /\ queue'[m].at = "failing" /\ queue'[m].tries = queue[m].tries
             /\ queue'[m].slice = queue[m].slice /\ queue'[m].seen = queue[m].seen
    <3>1. Token(m)' = Token(m) /\ Seen(m)' = Seen(m)
      BY <2>2 DEF Token, Seen
    <3>2. ShapeOf(m)'
      BY <1>1, <1>2, <2>2, <3>1 DEF ShapeOf, InRun
    <3>3. OlderOf(m)'
      BY <1>1, <1>2, <1>4, <2>2, <3>1 DEF OlderOf, SameWork
    <3>. QED
      BY <2>2, <3>2, <3>3 DEF HoldingOf, Holds, EndingOf, RunHolds
  <2>. QED
    BY <1>3, <2>1, <2>2
<1>8. Ending' /\ (cron'.at \in {"read", "resume"} => cron'.seen \in SeenType)
  BY <1>2, <1>4 DEF IInv, EndInv, Ending, RowShape, Running, SameWork
<1>9. Hands(m)
  BY <1>2 DEF Hands
<1>. QED
  BY <1>2, <1>3, <1>4, <1>5, <1>6, <1>7, <1>8, <1>9, WorkKeeps DEF OnlyAt

\* What throws outside the slice's own handler leaves the row as it is.
LEMMA InterruptKeeps ==
    ASSUME IInv, NEW m \in Slots, Interrupt(m)
    PROVE  IInv'
<1>1. TypeOK /\ ShapeOf(m) /\ OlderOf(m) /\ queue[m].at \in {"read", "claimed", "publish"}
  BY DEF IInv, RunsInv, Interrupt
<1>2. UNCHANGED <<job, r2, cron, user, torn, lost>>
  BY DEF Interrupt
<1>3. faults' \in 0..MaxFaults /\ torn' \in BOOLEAN /\ (torn => torn')
  BY <1>2, Hurt DEF Interrupt
<1>4. Hands(m)
  BY <1>1 DEF Hands
<1>5. /\ OnlyAt(m)
      /\ \/ /\ queue'[m].at = "failing" /\ queue'[m].tries = queue[m].tries
            /\ queue'[m].slice = queue[m].slice /\ queue'[m].seen = queue[m].seen
         \/ queue'[m].at = "waiting" /\ queue'[m].tries < Delivered
  BY <1>1, ThrownIs DEF Interrupt
<1>6. CASE queue'[m].at = "waiting" /\ queue'[m].tries < Delivered
  BY <1>2, <1>3, <1>4, <1>5, <1>6, RunGone DEF InRun
<1>7. CASE /\ queue'[m].at = "failing" /\ queue'[m].tries = queue[m].tries
           /\ queue'[m].slice = queue[m].slice /\ queue'[m].seen = queue[m].seen
  <2>1. Token(m)' = Token(m) /\ Seen(m)' = Seen(m)
    BY <1>7 DEF Token, Seen
  <2>2. ShapeOf(m)'
    BY <1>1, <1>7, <2>1 DEF ShapeOf, InRun, Unclaimed
  <2>3. OlderOf(m)'
    BY <1>1, <1>2, <1>7, <2>1 DEF OlderOf, InRun
  <2>4. HoldingOf(m)' /\ EndingOf(m)' /\ RunHolds(m)'
    BY <1>7 DEF HoldingOf, Holds, EndingOf, RunHolds
  <2>. QED
    BY <1>2, <1>3, <1>4, <1>5, <2>2, <2>3, <2>4, QuietMove
<1>. QED
  BY <1>5, <1>6, <1>7

\* What was not deleted while the job runs is the end's to tidy up.
LEMMA DeleteFailsKeeps ==
    ASSUME IInv, NEW m \in Slots, DeleteFails(m)
    PROVE  IInv'
<1>1. TypeOK /\ torn \in BOOLEAN /\ UNCHANGED <<job, r2, cron, user, lost>> /\ faults' \in 0..MaxFaults
  BY Hurt DEF IInv, DeleteFails
<1>2. CASE queue[m].at = "clean" /\ Step(m, "publish") /\ UNCHANGED torn
  <2>1. Hands(m)
    BY <1>2 DEF Hands
  <2>. QED
    BY <1>1, <1>2, <2>1, StepKeeps DEF InRun, Unclaimed
<1>3. CASE queue[m].at = "undo" /\ Undone(m) /\ torn' = (torn \/ ~Running)
  <2>1. torn' \in BOOLEAN /\ (torn => torn') /\ (~torn' => Running)
    BY <1>1, <1>3
  <2>2. CASE Step(m, "threw")
    BY <1>1, <1>3, <2>1, <2>2, StepKeeps DEF InRun, Unclaimed
  <2>3. CASE Acknowledge(m)
    BY <1>1, <2>1, <2>3, Acknowledged, RunGone DEF InRun
  <2>. QED
    BY <1>3, <2>2, <2>3 DEF Undone
<1>. QED
  BY <1>2, <1>3 DEF DeleteFails

-----------------------------------------------------------------------------
(* Steps that write objects.                                               *)

LEMMA ObjectsKeep ==
    ASSUME IInv, TypeOK', NEW M \in SUBSET Slots, OnlyIn(M), UNCHANGED <<job, torn, lost>>,
           cron'.at \in {"read", "resume"} => cron'.seen \in SeenType, Ending',
           \A n \in M : ShapeOf(n)' /\ OlderOf(n)' /\ HoldingOf(n)' /\ EndingOf(n)',
           BytesInv', ~Running /\ ~torn => Tidying'
    PROVE  IInv'
<1>1. TypeOK /\ RowShape /\ RunsInv
  BY DEF IInv
<1>2. JobOn
  BY <1>1 DEF JobOn, Running, TypeOK, Params
<1>3. \A n \in Slots \ M : Holds(n) => job'.params = job.params /\ job'.status # "completed"
  BY <1>1 DEF RunsInv, HoldingOf
<1>4. RunsInv'
  BY <1>1, <1>2, <1>3, RunsGoOn
<1>5. RowShape' /\ Running' = Running
  BY <1>1 DEF RowShape, Numbered, Running
<1>. QED
  BY <1>4, <1>5 DEF IInv, EndInv

\* A step of one run that is not tidying up, on the objects.
LEMMA RunTidying ==
    ASSUME TypeOK, Tidying, NEW m \in Slots, OnlyAt(m), UNCHANGED <<cron, user>>,
           job'.status = job.status,
           queue[m].at \notin {"abort", "purge", "tidy", "built"},
           r2'.upload = "open" => r2.upload = "open",
           r2'.file # None => r2.file # None \/ queue'[m].at = "built",
           \A p \in r2'.pending :
             \/ p \in r2.pending /\ (queue[m].at \in {"put", "undo"} => p.key # PendingOf(m))
             \/ queue'[m].at \in {"put", "undo"} /\ p.key = PendingOf(m)'
    PROVE  Tidying'
<1>1. \A n \in Slots \ {m} : queue'[n] = queue[n] /\ PendingOf(n)' = PendingOf(n)
  BY DEF OnlyAt, OnlyIn, PendingOf, Token
<1>2. cron.at \notin {"tidy", "built"} /\ user.at \notin {"tidy", "built"}
  BY DEF TypeOK
<1>3. Tidier({"abort"}) => Tidier({"abort"})'
  BY <1>1 DEF Tidier
<1>4. Tidier({"abort", "purge", "tidy"}) => Tidier({"abort", "purge", "tidy"})'
  BY <1>1 DEF Tidier
<1>5. Tidier({"abort", "purge", "built"}) => Tidier({"abort", "purge", "built"})'
  BY <1>1 DEF Tidier
<1>6. queue'[m].at = "built" => Tidier({"abort", "purge", "built"})'
  BY DEF Tidier
<1>7. ASSUME NEW p \in r2'.pending
      PROVE  \/ Tidier({"abort", "purge", "tidy"})'
             \/ \E n \in Slots : queue'[n].at \in {"put", "undo"} /\ p.key = PendingOf(n)'
  <2>1. CASE queue'[m].at \in {"put", "undo"} /\ p.key = PendingOf(m)'
    BY <2>1
  <2>2. CASE p \in r2.pending /\ (queue[m].at \in {"put", "undo"} => p.key # PendingOf(m))
    <3>1. CASE Tidier({"abort", "purge", "tidy"})
      BY <1>4, <3>1
    <3>2. CASE ~Tidier({"abort", "purge", "tidy"})
      <4>1. PICK n \in Slots : queue[n].at \in {"put", "undo"} /\ p.key = PendingOf(n)
        BY <2>2, <3>2 DEF Tidying
      <4>2. n # m
        BY <2>2, <4>1
      <4>. QED
        BY <1>1, <4>1, <4>2
    <3>. QED
      BY <3>1, <3>2
  <2>. QED
    BY <2>1, <2>2
<1>. QED
  BY <1>3, <1>5, <1>6, <1>7 DEF Tidying

\* Objects that are taken away leave those that stay apart.
LEMMA FewerApart ==
    ASSUME OneObject, r2'.pending \subseteq r2.pending
    PROVE  OneObject'
BY DEF OneObject

LEMMA DropIs ==
    ASSUME TypeOK, NEW key \in Keys \cup {None}, Drop(key)
    PROVE  /\ r2'.pending = {p \in r2.pending : p.key # key}
           /\ r2'.parts = r2.parts /\ r2'.file = r2.file /\ r2'.upload = r2.upload
           /\ r2' \in [upload : {"open", "aborted", "completed"}, parts : Seq(Seq(Nat)),
                       pending : SUBSET [key : Keys, bytes : Seq(Nat)], file : Seq(Nat) \cup {None}]
           /\ \A p \in r2'.pending : Len(p.bytes) \in 1 .. PartSize - 1
<1> DEFINE left == {p \in r2.pending : p.key # key}
<1>1. r2.pending \ Carried(key) = left
  BY DEF Carried
<1>2. r2' = [r2 EXCEPT !.pending = left]
  BY <1>1 DEF Drop
<1>3. left \in SUBSET [key : Keys, bytes : Seq(Nat)] /\ \A p \in left : Len(p.bytes) \in 1 .. PartSize - 1
  BY DEF TypeOK
<1>. HIDE DEF left
<1>4. r2'.pending = left
  BY <1>2 DEF TypeOK
<1>5. /\ r2'.parts = r2.parts /\ r2'.file = r2.file /\ r2'.upload = r2.upload
      /\ r2' \in [upload : {"open", "aborted", "completed"}, parts : Seq(Seq(Nat)),
                       pending : SUBSET [key : Keys, bytes : Seq(Nat)], file : Seq(Nat) \cup {None}]
  BY <1>2, <1>3 DEF TypeOK
<1>. QED
  BY <1>3, <1>4, <1>5 DEF left

\* What one run makes is not yet what the row names.
LEMMA TokensApart ==
    ASSUME TypeOK, RowShape, RunsInv, NEW m \in Slots, Holds(m)
    PROVE  /\ job.params.pending # Token(m) /\ Token(m) \in Keys
           /\ \A n \in Slots \ {m} : queue[n].at \in InRun => Token(n) # Token(m)
<1>1. /\ queue[m].at \in InRun /\ job.params = Seen(m) /\ Seen(m).slice = queue[m].slice
      /\ queue[m].slice \in Nat
  BY HeldRow
<1>2. /\ Token(m) \in Keys /\ Token(m) # None /\ Token(m)[1] = m
      /\ Token(m)[2] = queue[m].slice
  BY <1>1, TokenIsKey DEF RunsInv
<1>3. job.params.pending # Token(m)
  BY <1>1, <1>2 DEF RowShape, Numbered
<1>4. \A n \in Slots \ {m} : queue[n].at \in InRun => Token(n) # Token(m)
  BY <1>2, TokenIsKey DEF RunsInv
<1>. QED
  BY <1>2, <1>3, <1>4

\* Nobody else has the row, so nobody else has made anything of it.
LEMMA OthersIdle ==
    ASSUME TypeOK, RunsInv, NEW m \in Slots, Holds(m), NEW n \in Slots \ {m}
    PROVE  queue[n].at \notin {"claimed", "rendered", "put", "looked", "built"}
<1>1. ~Holds(n)
  BY OneHolds
<1>. QED
  BY <1>1 DEF Holds

LEMMA RenderKeeps ==
    ASSUME IInv, NEW m \in Slots, Render(m)
    PROVE  IInv'
<1>1. /\ TypeOK /\ RowShape /\ RunsInv /\ BytesInv /\ EndInv /\ queue[m] \in RunType
      /\ ShapeOf(m) /\ OlderOf(m) /\ HoldingOf(m)
  BY DEF IInv, RunsInv, TypeOK
<1>2. /\ queue[m].at = "claimed" /\ Holds(m) /\ queue[m].at \in InRun \ Unclaimed
      /\ UNCHANGED <<job, cron, user, torn, lost, faults>>
  BY DEF Render, Holds, InRun, Unclaimed
<1>3. CASE Step(m, "threw") /\ UNCHANGED r2
  BY <1>1, <1>2, <1>3, StepKeeps, Unhurt DEF Hands, InRun
<1>4. CASE /\ ~Missing(Seen(m).pending)
           /\ queue' = [queue EXCEPT ![m].at = "rendered", ![m].made = Made(m)]
           /\ r2' = [r2 EXCEPT !.parts = Uploaded(Made(m).parts)]
  <2> DEFINE made == Made(m)
             x == [queue[m] EXCEPT !.at = "rendered", !.made = made]
             up == Uploaded(made.parts)
  <2>1. /\ made \in MadeType /\ Len(made.rest) < PartSize
        /\ made.cursor <= job.total
        /\ made.finishing => made.cursor = job.total
        /\ IsPrefix(Seen(m).parts, made.parts)
    BY <1>1, <1>2, <1>4, MadeTyped
  <2>2. Running => FlattenSeq(made.parts) \o made.rest = Count(made.cursor)
    <3>1. job.params = Seen(m)
      BY <1>1, <1>2, HeldRow
    <3>. QED
      BY <1>1, <1>2, <1>4, <3>1, MadeRight DEF BytesInv
  <2>. HIDE DEF made
  <2>3. queue' = [queue EXCEPT ![m] = x]
    BY <1>4 DEF made
  <2>4. /\ x \in RunType /\ x.at = "rendered" /\ x.made = made /\ x.slice = queue[m].slice
        /\ x.tries = queue[m].tries /\ x.seen = queue[m].seen
    BY <1>1, <2>1 DEF RunType, InRun
  <2>. HIDE DEF x
  <2>5. OnlyAt(m) /\ queue'[m] = x
    BY <1>1, <2>3, <2>4, SlotSet
  <2>6. Token(m)' = Token(m) /\ Seen(m)' = Seen(m)
    BY <2>4, <2>5 DEF Token, Seen
  <2>7. made.parts \in Seq(Seq(Nat)) /\ r2.parts \in Seq(Seq(Nat)) /\ job.params = Seen(m)
    BY <1>1, <1>2, <2>1, HeldRow DEF MadeType, TypeOK
  <2>8. up \in Seq(Seq(Nat)) /\ IsPrefix(made.parts, up)
    BY <2>7, UploadedHolds
  <2>. HIDE DEF up
  <2>9. r2' = [r2 EXCEPT !.parts = up]
    BY <1>4 DEF up, made
  <2>10. /\ r2'.parts = up /\ r2'.pending = r2.pending /\ r2'.file = r2.file /\ r2'.upload = r2.upload
         /\ r2' \in [upload : {"open", "aborted", "completed"}, parts : Seq(Seq(Nat)),
                     pending : SUBSET [key : Keys, bytes : Seq(Nat)], file : Seq(Nat) \cup {None}]
    BY <1>1, <2>8, <2>9 DEF TypeOK
  <2>11. TypeOK'
    BY <1>1, <1>2, <2>5, <2>10 DEF TypeOK, OnlyAt, OnlyIn
  <2>12. ShapeOf(m)'
    BY <1>1, <1>2, <2>1, <2>4, <2>5, <2>6 DEF ShapeOf, InRun
  <2>13. OlderOf(m)'
    BY <1>1, <1>2, <2>4, <2>5, <2>6 DEF OlderOf
  <2>14. HoldingOf(m)' /\ EndingOf(m)'
    BY <1>1, <1>2, <2>4, <2>5, <2>6 DEF HoldingOf, EndingOf
  <2>15. Ending' /\ (cron'.at \in {"read", "resume"} => cron'.seen \in SeenType)
    BY <1>1, <1>2 DEF EndInv, Ending, RowShape, Running
  <2>16. BytesInv'
    <3>1. OneObject' /\ FileHolds' = FileHolds
      BY <1>1, <1>2, <2>10 DEF BytesInv, OneObject, FileHolds, Whole
    <3>2. ASSUME Running PROVE RowHolds'
      <4>1. /\ Missing(job.params.pending)' = Missing(job.params.pending)
            /\ Bytes(job.params.pending)' = Bytes(job.params.pending)
        BY <1>2, <2>10 DEF Missing, Bytes, Carried
      <4>2. IsPrefix(job.params.parts, up)
        BY <1>1, <2>1, <2>7, <2>8, PrefixTrans DEF TypeOK, Params
      <4>. QED
        BY <1>1, <1>2, <2>10, <3>2, <4>1, <4>2 DEF BytesInv, RowHolds
    <3>3. ASSUME Running PROVE RunHolds(m)'
      <4>1. MadeOf(m)'
        BY <1>2, <2>1, <2>2, <2>4, <2>5, <2>8, <2>10, <3>3 DEF MadeOf
      <4>. QED
        BY <2>4, <2>5, <4>1 DEF RunHolds
    <3>4. ASSUME Running, NEW n \in Slots \ {m} PROVE RunHolds(n)'
      <4>1. RunHolds(n) /\ queue'[n] = queue[n] /\ lost \in BOOLEAN
        BY <1>1, <2>5, <3>4 DEF BytesInv, OnlyAt, OnlyIn, TypeOK
      <4>. QED
        BY <1>1, <1>2, <4>1, OthersIdle, RunHoldsOn
    <3>. QED
      BY <1>1, <1>2, <3>1, <3>2, <3>3, <3>4 DEF BytesInv, Running
  <2>17. ~Running /\ ~torn => Tidying'
    BY <1>1, <1>2, <2>4, <2>5, <2>10, RunTidying DEF EndInv
  <2>. QED
    BY <1>2, <2>5, <2>11, <2>12, <2>13, <2>14, <2>15, <2>16, <2>17, ObjectsKeep DEF OnlyAt
<1>. QED
  BY <1>3, <1>4 DEF Render, Seen

LEMMA PutKeeps ==
    ASSUME IInv, NEW m \in Slots, Put(m)
    PROVE  IInv'
<1>1. /\ TypeOK /\ RowShape /\ RunsInv /\ BytesInv /\ EndInv /\ queue[m] \in RunType
      /\ ShapeOf(m) /\ OlderOf(m) /\ HoldingOf(m)
  BY DEF IInv, RunsInv, TypeOK
<1>2. /\ queue[m].at = "rendered" /\ Holds(m) /\ queue[m].at \in InRun \ Unclaimed
      /\ UNCHANGED <<job, cron, user, torn, lost, faults>>
  BY DEF Put, Holds, InRun, Unclaimed
<1>3. /\ OnlyAt(m) /\ queue'[m].at = "put" /\ queue'[m].slice = queue[m].slice
      /\ queue'[m].tries = queue[m].tries /\ queue'[m].seen = queue[m].seen
      /\ queue'[m].made = queue[m].made /\ Token(m)' = Token(m) /\ Seen(m)' = Seen(m)
  BY <1>1, StepIs DEF Put, Points, InRun
<1> DEFINE rest == queue[m].made.rest
           new == [key |-> Token(m), bytes |-> rest]
           kept == {p \in r2.pending : p.key # Token(m)}
<1>4. rest \in Seq(Nat) /\ Len(rest) < PartSize
  BY <1>1, <1>2 DEF ShapeOf, MadeType
<1>5. /\ Token(m) \in Keys /\ Token(m) # None /\ job.params.pending # Token(m)
      /\ \A n \in Slots \ {m} : queue[n].at \in InRun => Token(n) # Token(m)
  BY <1>1, <1>2, TokensApart, TokenIsKey
<1>6. PendingOf(m)' = PendingOf(m) /\ (PendingOf(m) = None <=> rest = <<>>)
      /\ (rest # <<>> => PendingOf(m) = Token(m))
  BY <1>3, <1>5 DEF PendingOf
<1>. HIDE DEF rest
<1>7. new \in [key : Keys, bytes : Seq(Nat)] /\ new.key = Token(m) /\ new.bytes = rest
  BY <1>4, <1>5
<1>8. rest # <<>> => Len(rest) \in 1 .. PartSize - 1
  <2>1. Len(rest) \in Nat /\ (Len(rest) = 0 => rest = <<>>)
    BY <1>4, LenProperties, EmptySeq
  <2>. QED
    BY <1>4, <2>1, Sizes
<1>. HIDE DEF new
<1>9. /\ r2'.parts = r2.parts /\ r2'.file = r2.file /\ r2'.upload = r2.upload
      /\ r2'.pending = IF rest = <<>> THEN r2.pending ELSE kept \cup {new}
      /\ r2' \in [upload : {"open", "aborted", "completed"}, parts : Seq(Seq(Nat)),
                  pending : SUBSET [key : Keys, bytes : Seq(Nat)], file : Seq(Nat) \cup {None}]
      /\ \A p \in r2'.pending : Len(p.bytes) \in 1 .. PartSize - 1
  <2>1. CASE rest = <<>>
    <3>1. r2' = r2
      BY <1>6, <2>1 DEF Put
    <3>. QED
      BY <1>1, <2>1, <3>1 DEF TypeOK
  <2>2. CASE rest # <<>>
    <3> DEFINE pending == kept \cup {new}
    <3>1. r2.pending \ Carried(Token(m)) = kept
      BY DEF Carried
    <3>2. r2' = [r2 EXCEPT !.pending = pending]
      BY <1>6, <2>2, <3>1 DEF Put, new, rest
    <3>3. /\ pending \in SUBSET [key : Keys, bytes : Seq(Nat)]
          /\ \A p \in pending : Len(p.bytes) \in 1 .. PartSize - 1
      BY <1>1, <1>7, <1>8, <2>2 DEF TypeOK
    <3>. HIDE DEF pending
    <3>4. r2'.pending = pending
      BY <1>1, <3>2 DEF TypeOK
    <3>5. /\ r2'.parts = r2.parts /\ r2'.file = r2.file /\ r2'.upload = r2.upload
          /\ r2' \in [upload : {"open", "aborted", "completed"}, parts : Seq(Seq(Nat)),
                  pending : SUBSET [key : Keys, bytes : Seq(Nat)], file : Seq(Nat) \cup {None}]
      BY <1>1, <3>2, <3>3 DEF TypeOK
    <3>. QED
      BY <2>2, <3>3, <3>4, <3>5 DEF pending
  <2>. QED
    BY <2>1, <2>2
<1>10. TypeOK'
  BY <1>1, <1>2, <1>3, <1>9 DEF TypeOK, OnlyAt, OnlyIn
<1>11. ShapeOf(m)' /\ OlderOf(m)' /\ HoldingOf(m)' /\ EndingOf(m)'
  <2>1. ShapeOf(m)'
    BY <1>1, <1>2, <1>3 DEF ShapeOf, InRun
  <2>2. OlderOf(m)'
    BY <1>1, <1>2, <1>3 DEF OlderOf
  <2>. QED
    BY <1>1, <1>2, <1>3, <2>1, <2>2 DEF HoldingOf, EndingOf
<1>12. Ending' /\ (cron'.at \in {"read", "resume"} => cron'.seen \in SeenType)
  BY <1>1, <1>2 DEF EndInv, Ending, RowShape, Running
<1>13. BytesInv'
  <2>1. OneObject'
    <3>1. OneObject
      BY <1>1 DEF BytesInv
    <3>. QED
      BY <1>7, <1>9, <3>1 DEF OneObject
  <2>2. FileHolds' = FileHolds
    BY <1>2, <1>9 DEF FileHolds, Whole
  <2>3. ASSUME Running PROVE RowHolds'
    <3>1. {p \in r2'.pending : p.key = job.params.pending} = {p \in r2.pending : p.key = job.params.pending}
      BY <1>5, <1>7, <1>9
    <3>. QED
      BY <1>1, <1>2, <1>9, <2>3, <3>1, RowHoldsOn DEF BytesInv, TypeOK
  <2>4. ASSUME Running PROVE RunHolds(m)'
    <3>1. MadeOf(m)
      BY <1>1, <1>2, <2>4 DEF BytesInv, RunHolds
    <3>2. MadeOf(m)'
      BY <1>2, <1>3, <1>9, <3>1 DEF MadeOf
    <3>3. rest # <<>> => [key |-> Token(m)', bytes |-> queue'[m].made.rest] \in r2'.pending
      BY <1>3, <1>9 DEF new, rest
    <3>. QED
      BY <1>3, <3>2, <3>3 DEF RunHolds, rest
  <2>5. ASSUME Running, NEW n \in Slots \ {m} PROVE RunHolds(n)'
    <3>1. RunHolds(n) /\ queue'[n] = queue[n] /\ lost \in BOOLEAN
      BY <1>1, <1>3, <2>5 DEF BytesInv, OnlyAt, OnlyIn, TypeOK
    <3>. QED
      BY <1>1, <1>2, <3>1, OthersIdle, RunHoldsOn
  <2>. QED
    BY <1>1, <1>2, <2>1, <2>2, <2>3, <2>4, <2>5 DEF BytesInv, Running
<1>14. ~Running /\ ~torn => Tidying'
  <2>1. \A p \in r2'.pending :
             \/ p \in r2.pending /\ (queue[m].at \in {"put", "undo"} => p.key # PendingOf(m))
             \/ queue'[m].at \in {"put", "undo"} /\ p.key = PendingOf(m)'
    BY <1>2, <1>3, <1>6, <1>7, <1>9
  <2>. QED
    BY <1>1, <1>2, <1>3, <1>9, <2>1, RunTidying DEF EndInv
<1>. QED
  BY <1>2, <1>3, <1>10, <1>11, <1>12, <1>13, <1>14, ObjectsKeep DEF OnlyAt

-----------------------------------------------------------------------------
(* The commit of a slice.                                                  *)

LEMMA CommittedRow ==
    ASSUME TypeOK, RowShape, RunsInv, NEW m \in Slots, queue[m].at = "put",
           StillClaimed(queue[m].seen), RunHolds(m), job' = Committed(m)
    PROVE  /\ job' \in [status : Statuses, total : Totals, cursor : Nat, idle : 0 .. Idle, params : Params]
           /\ job'.cursor <= job'.total /\ job'.params.recoveries <= MaxRecoveries
           /\ job'.status = "running" /\ job'.total = job.total
           /\ job'.cursor = queue[m].made.cursor /\ job'.params.parts = queue[m].made.parts
           /\ job'.params.pending = PendingOf(m) /\ job'.params.slice = job.params.slice + 1
           /\ job.params.slice \in Nat
           /\ Numbered(job'.params) /\ (job'.params.finishing => job'.cursor = job'.total)
<1> DEFINE made == queue[m].made
           s == Seen(m)
           pend == PendingOf(m)
           b == [s EXCEPT !.slice = @ + 1, !.parts = made.parts, !.pending = pend]
           c == [b EXCEPT !.finishing = made.finishing, !.lease = None, !.live = FALSE]
<1>1. /\ Running /\ job.params = s /\ s \in Params /\ s.slice \in Nat /\ s.slice = queue[m].slice
      /\ Holds(m) /\ queue[m].at \in InRun
  <2>1. Holds(m)
    BY DEF Holds
  <2>2. job.params = s /\ job.params \in Params /\ s.slice = queue[m].slice /\ queue[m].at \in InRun
    BY <2>1, HeldRow DEF TypeOK
  <2>. QED
    BY <2>1, <2>2 DEF StillClaimed, Params
<1>2. made \in MadeType /\ MadeOf(m)
  BY DEF RunsInv, ShapeOf, RunHolds
<1>3. Token(m) \in Keys /\ Token(m)[2] = queue[m].slice
  BY <1>1, TokenIsKey DEF RunsInv
<1>4. pend \in Keys \cup {None} /\ (pend # None => pend[2] = s.slice)
  BY <1>1, <1>3 DEF PendingOf
<1>5. job' = [job EXCEPT !.cursor = made.cursor, !.idle = 0, !.params = c]
  BY DEF Committed, Seen
<1>. HIDE DEF pend
<1>6. /\ made.parts \in Seq(Seq(Nat)) /\ made.finishing \in BOOLEAN /\ made.cursor \in Nat
  BY <1>2 DEF MadeType
<1>7. /\ made.cursor <= job.total /\ (made.finishing => made.cursor = job.total)
  BY <1>2 DEF MadeOf
<1>. HIDE DEF made, s
<1>8. /\ c \in Params /\ c.slice = s.slice + 1 /\ c.parts = made.parts /\ c.pending = pend
      /\ c.finishing = made.finishing /\ c.recoveries = s.recoveries
  <2>1. /\ b \in Params /\ b.slice = s.slice + 1 /\ b.parts = made.parts /\ b.pending = pend
        /\ b.recoveries = s.recoveries
    <3>1. s.slice + 1 \in Nat
      BY <1>1
    <3>. QED
      BY <1>1, <1>4, <1>6, <3>1 DEF Params
  <2>. HIDE DEF b
  <2>. QED
    BY <1>6, <2>1 DEF Params
<1>. HIDE DEF c
<1>9. /\ job' \in [status : Statuses, total : Totals, cursor : Nat, idle : 0 .. Idle, params : Params]
      /\ job'.params = c /\ job'.cursor = made.cursor /\ job'.status = "running"
      /\ job'.total = job.total
  <2>1. 0 \in 0..Idle
    BY Sizes
  <2>. QED
    BY <1>1, <1>5, <1>6, <1>8, <2>1 DEF TypeOK, Running
<1>10. job.params.recoveries <= MaxRecoveries
  BY DEF TypeOK
<1>11. Numbered(c)
  BY <1>1, <1>4, <1>8 DEF Numbered
<1>. QED
  BY <1>1, <1>7, <1>8, <1>9, <1>10, <1>11 DEF made, pend

\* The next slice goes on from a row that is right, and from nobody else's bytes.
LEMMA CommitMade ==
    ASSUME IInv, NEW m \in Slots, queue[m].at = "put", StillClaimed(queue[m].seen),
           job' = Committed(m), UNCHANGED <<r2, cron, user, torn>>,
           lost' \in BOOLEAN, lost => lost', faults' \in 0..MaxFaults,
           OnlyAt(m), queue'[m].at \in {"clean", "undo"}, queue'[m].slice = queue[m].slice,
           queue'[m].tries = queue[m].tries, queue'[m].seen = queue[m].seen,
           queue'[m].made = queue[m].made, queue'[m].at = "undo" => lost'
    PROVE  IInv'
<1>1. /\ TypeOK /\ RowShape /\ RunsInv /\ BytesInv /\ EndInv /\ queue[m] \in RunType
      /\ ShapeOf(m) /\ OlderOf(m)
  BY DEF IInv, RunsInv, TypeOK
<1>2. /\ Running /\ Holds(m) /\ queue[m].at \in InRun \ Unclaimed
      /\ Seen(m)' = Seen(m) /\ Token(m)' = Token(m) /\ job.params = Seen(m)
  BY DEF StillClaimed, Holds, InRun, Unclaimed, Seen, Token
<1>3. RunHolds(m) /\ MadeOf(m) /\ RowHolds /\ FileHolds /\ OneObject
  <2>1. RunHolds(m) /\ RowHolds /\ FileHolds /\ OneObject
    BY <1>1, <1>2 DEF BytesInv, Running
  <2>. QED
    BY <2>1 DEF RunHolds
<1>4. /\ job' \in [status : Statuses, total : Totals, cursor : Nat, idle : 0 .. Idle, params : Params]
      /\ job'.cursor <= job'.total /\ job'.params.recoveries <= MaxRecoveries
      /\ job'.status = "running" /\ job'.total = job.total
      /\ job'.cursor = queue[m].made.cursor /\ job'.params.parts = queue[m].made.parts
      /\ job'.params.pending = PendingOf(m) /\ job'.params.slice = job.params.slice + 1
      /\ job.params.slice \in Nat
      /\ Numbered(job'.params) /\ (job'.params.finishing => job'.cursor = job'.total)
  BY <1>1, <1>3, CommittedRow
<1>5. /\ Token(m) \in Keys /\ Token(m) # None
      /\ \A n \in Slots \ {m} : queue[n].at \in InRun => Token(n) # Token(m) /\ Token(n) # None
  BY <1>1, <1>2, TokensApart, TokenIsKey DEF RunsInv
<1>6. TypeOK'
  BY <1>1, <1>4 DEF TypeOK, OnlyAt, OnlyIn
<1>7. RowShape'
  BY <1>1, <1>4 DEF RowShape
<1>8. RunsInv'
  <2>1. JobOn
    BY <1>2, <1>4 DEF JobOn, Running
  <2>2. \A n \in Slots \ {m} : ~Holds(n)
    BY <1>1, <1>2, OneHolds
  <2>3. ShapeOf(m)'
    BY <1>1, <1>2 DEF ShapeOf, InRun
  <2>4. OlderOf(m)'
    BY <1>1, <1>2, <1>4 DEF OlderOf
  <2>5. HoldingOf(m)' /\ EndingOf(m)'
    BY DEF HoldingOf, Holds, EndingOf
  <2>. QED
    BY <1>1, <1>6, <2>1, <2>2, <2>3, <2>4, <2>5, RunsGoOn DEF OnlyAt
<1>9. BytesInv'
  <2>1. RowHolds'
    <3>1. /\ FlattenSeq(queue[m].made.parts) \o queue[m].made.rest = Count(queue[m].made.cursor)
          /\ IsPrefix(queue[m].made.parts, r2.parts)
      BY <1>3 DEF MadeOf
    <3>2. ~Missing(PendingOf(m)) /\ Bytes(PendingOf(m)) = queue[m].made.rest
      <4>1. CASE queue[m].made.rest = <<>>
        BY <4>1 DEF PendingOf, Missing, Bytes
      <4>2. CASE queue[m].made.rest # <<>>
        <5> DEFINE p == [key |-> Token(m), bytes |-> queue[m].made.rest]
        <5>1. p \in r2.pending
          BY <1>3, <4>2 DEF RunHolds
        <5>2. p.key = Token(m) /\ p.bytes = queue[m].made.rest
          OBVIOUS
        <5>. HIDE DEF p
        <5>3. ~Missing(Token(m)) /\ Bytes(Token(m)) = queue[m].made.rest
          BY <1>3, <1>5, <5>1, <5>2, BytesOf
        <5>. QED
          BY <4>2, <5>3 DEF PendingOf
      <4>. QED
        BY <4>1, <4>2
    <3>3. /\ Missing(job.params.pending)' = Missing(PendingOf(m))
          /\ Bytes(job.params.pending)' = Bytes(PendingOf(m))
      BY <1>4 DEF Missing, Bytes, Carried
    <3>. QED
      BY <1>4, <3>1, <3>2, <3>3 DEF RowHolds
  <2>2. RunHolds(m)'
    BY DEF RunHolds
  <2>3. ASSUME NEW n \in Slots \ {m} PROVE RunHolds(n)'
    <3>1. RunHolds(n) /\ queue'[n] = queue[n] /\ lost \in BOOLEAN
      BY <1>1, <1>2 DEF BytesInv, OnlyAt, OnlyIn, TypeOK
    <3>2. queue[n].at = "undo" => job'.params.pending # Token(n)
      BY <1>4, <1>5 DEF PendingOf, InRun
    <3>. QED
      BY <1>1, <1>2, <1>4, <3>1, <3>2, OthersIdle, RunHoldsOn
  <2>4. FileHolds'
    BY <1>3, <1>4 DEF FileHolds, Whole
  <2>5. OneObject'
    BY <1>3 DEF OneObject
  <2>. QED
    BY <2>1, <2>2, <2>3, <2>4, <2>5 DEF BytesInv
<1>10. EndInv'
  BY <1>1, <1>2, <1>4 DEF EndInv, Ending, Running
<1>. QED
  BY <1>6, <1>7, <1>8, <1>9, <1>10 DEF IInv

LEMMA CommitKeeps ==
    ASSUME IInv, NEW m \in Slots, Commit(m)
    PROVE  IInv'
<1>1. TypeOK /\ RunsInv /\ queue[m].at = "put" /\ queue[m].at \in InRun \ Unclaimed
  BY DEF IInv, Commit, InRun, Unclaimed
<1>2. UNCHANGED <<r2, cron, user, torn, lost, faults>>
  BY DEF Commit
<1>3. CASE StillClaimed(queue[m].seen)
  <2>1. job' = Committed(m) /\ Step(m, "clean")
    BY <1>3 DEF Commit
  <2>2. /\ OnlyAt(m) /\ queue'[m].at = "clean" /\ queue'[m].slice = queue[m].slice
        /\ queue'[m].tries = queue[m].tries /\ queue'[m].seen = queue[m].seen
        /\ queue'[m].made = queue[m].made
    BY <1>1, <2>1, StepIs DEF Points, InRun
  <2>. QED
    BY <1>1, <1>2, <1>3, <2>1, <2>2, CommitMade, Unhurt
<1>4. CASE ~StillClaimed(queue[m].seen)
  <2>1. UNCHANGED job /\ Step(m, "undo")
    BY <1>4 DEF Commit
  <2>2. ~Running
    <3>1. job.params = Seen(m)
      BY <1>1, HeldRow DEF Holds
    <3>. QED
      BY <1>4, <3>1 DEF StillClaimed, Seen
  <2>3. Hands(m)
    <3>1. queue'[m].at = "undo" /\ PendingOf(m)' = PendingOf(m)
      BY <1>1, <2>1, StepIs DEF Points, InRun, PendingOf
    <3>. QED
      BY <1>1, <3>1 DEF Hands
  <2>. QED
    BY <1>1, <1>2, <2>1, <2>2, <2>3, StepKeeps, Unhurt DEF InRun
<1>. QED
  BY <1>3, <1>4

\* A commit that was made, or was not, and which the run takes for not made.
LEMMA CommitThrowsKeeps ==
    ASSUME IInv, NEW m \in Slots, CommitThrows(m)
    PROVE  IInv'
<1>1. /\ TypeOK /\ RunsInv /\ RowShape /\ queue[m].at = "put" /\ queue[m].at \in InRun \ Unclaimed
      /\ queue[m] \in RunType /\ ShapeOf(m) /\ OlderOf(m) /\ HoldingOf(m)
  BY DEF IInv, RunsInv, TypeOK, CommitThrows, InRun, Unclaimed
<1>2. UNCHANGED <<r2, cron, user, torn>> /\ faults' \in 0..MaxFaults /\ torn \in BOOLEAN /\ lost \in BOOLEAN
  BY Hurt DEF CommitThrows, IInv, TypeOK
<1> DEFINE x == [queue[m] EXCEPT !.at = "undo", !.threw = TRUE]
<1>3. /\ x \in RunType /\ x.at = "undo" /\ x.slice = queue[m].slice /\ x.tries = queue[m].tries
      /\ x.seen = queue[m].seen /\ x.made = queue[m].made
  BY <1>1 DEF RunType, InRun
<1>4. queue' = [queue EXCEPT ![m] = x]
  BY DEF CommitThrows
<1>. HIDE DEF x
<1>5. OnlyAt(m) /\ queue'[m] = x
  BY <1>1, <1>3, <1>4, SlotSet
<1>6. /\ job' = job \/ (StillClaimed(queue[m].seen) /\ job' = Committed(m))
      /\ lost' = (lost \/ job' # job)
  BY DEF CommitThrows
<1>7. CASE job' # job
  <2>1. StillClaimed(queue[m].seen) /\ job' = Committed(m) /\ lost'
    BY <1>6, <1>7
  <2>2. lost' \in BOOLEAN
    BY <1>2, <1>6
  <2>. QED
    BY <1>1, <1>2, <1>3, <1>5, <2>1, <2>2, CommitMade
<1>8. CASE job' = job
  <2>1. lost' = lost
    BY <1>2, <1>6, <1>8
  <2>2. /\ Token(m)' = Token(m) /\ Seen(m)' = Seen(m) /\ PendingOf(m)' = PendingOf(m)
    BY <1>3, <1>5 DEF Token, Seen, PendingOf
  <2>3. ShapeOf(m)'
    BY <1>1, <1>3, <1>5, <2>2 DEF ShapeOf, InRun
  <2>4. OlderOf(m)'
    BY <1>1, <1>3, <1>5, <1>8, <2>2 DEF OlderOf
  <2>5. HoldingOf(m)' /\ EndingOf(m)'
    BY <1>3, <1>5 DEF HoldingOf, Holds, EndingOf
  <2>6. RunHolds(m)'
    <3>1. job.params.pending # Token(m)
      BY <1>1, TokensApart DEF Holds
    <3>. QED
      BY <1>3, <1>5, <1>8, <2>2, <3>1 DEF RunHolds
  <2>7. Hands(m)
    BY <1>1, <1>3, <1>5, <2>2 DEF Hands
  <2>. QED
    BY <1>2, <1>5, <1>8, <2>1, <2>3, <2>4, <2>5, <2>6, <2>7, QuietMove
<1>. QED
  BY <1>7, <1>8

-----------------------------------------------------------------------------
(* What is carried goes when it is no longer needed.                       *)

\* Dropping one object that no run and no row still names.
LEMMA DropKeeps ==
    ASSUME IInv, NEW m \in Slots, NEW key \in Keys \cup {None}, Drop(key),
           UNCHANGED <<job, cron, user, torn, lost, faults>>, OnlyAt(m),
           ShapeOf(m)', OlderOf(m)', HoldingOf(m)', EndingOf(m)', Running => RunHolds(m)',
           queue[m].at \in {"clean", "undo"}, queue'[m].at \notin {"put", "undo", "built"},
           queue[m].at = "undo" => key = PendingOf(m),
           Running /\ ~lost => key = None \/ job.params.pending # key,
           Running => \A n \in Slots \ {m} : Holds(n) => Token(n) # key
    PROVE  IInv'
<1>1. TypeOK /\ RowShape /\ RunsInv /\ BytesInv /\ EndInv
  BY DEF IInv
<1>2. /\ r2'.pending = {p \in r2.pending : p.key # key}
      /\ r2'.parts = r2.parts /\ r2'.file = r2.file /\ r2'.upload = r2.upload
      /\ r2' \in [upload : {"open", "aborted", "completed"}, parts : Seq(Seq(Nat)),
                  pending : SUBSET [key : Keys, bytes : Seq(Nat)], file : Seq(Nat) \cup {None}]
      /\ \A p \in r2'.pending : Len(p.bytes) \in 1 .. PartSize - 1
  BY <1>1, DropIs
<1>3. TypeOK'
  BY <1>1, <1>2 DEF TypeOK, OnlyAt, OnlyIn
<1>4. Ending' /\ (cron'.at \in {"read", "resume"} => cron'.seen \in SeenType)
  BY <1>1 DEF EndInv, Ending, RowShape, Running
<1>5. BytesInv'
  <2>1. OneObject' /\ FileHolds' = FileHolds
    BY <1>1, <1>2, FewerApart DEF BytesInv, FileHolds, Whole
  <2>2. ASSUME Running PROVE RowHolds'
    <3>1. RowHolds /\ lost \in BOOLEAN /\ r2.pending \in SUBSET [key : Keys, bytes : Seq(Nat)]
      BY <1>1, <2>2 DEF BytesInv, TypeOK
    <3>2. CASE key = None \/ job.params.pending # key
      <4>1. {p \in r2'.pending : p.key = job.params.pending} = {p \in r2.pending : p.key = job.params.pending}
        <5>1. \A p \in r2.pending : p.key # None
          BY <3>1, NoneAssumption
        <5>. QED
          BY <1>2, <3>2, <5>1
      <4>. QED
        BY <1>2, <3>1, <4>1, RowHoldsOn
    <3>3. CASE key # None /\ job.params.pending = key
      <4>1. Missing(job.params.pending)'
        BY <1>2, <3>3 DEF Missing, Carried
      <4>. QED
        BY <1>2, <2>2, <3>1, <3>3, <4>1 DEF RowHolds
    <3>. QED
      BY <3>2, <3>3
  <2>3. ASSUME Running, NEW n \in Slots \ {m} PROVE RunHolds(n)'
    <3>1. RunHolds(n) /\ queue'[n] = queue[n] /\ lost \in BOOLEAN
      BY <1>1, <2>3 DEF BytesInv, OnlyAt, OnlyIn, TypeOK
    <3>2. queue[n].at = "put" => \A p \in r2.pending : p.key = Token(n) => p \in r2'.pending
      BY <1>2, <2>3 DEF Holds
    <3>. QED
      BY <1>2, <3>1, <3>2, RunHoldsOn
  <2>. QED
    BY <1>1, <2>1, <2>2, <2>3 DEF BytesInv, Running
<1>6. ~Running /\ ~torn => Tidying'
  <2>1. \A p \in r2'.pending : p \in r2.pending /\ (queue[m].at \in {"put", "undo"} => p.key # PendingOf(m))
    BY <1>2
  <2>. QED
    BY <1>1, <1>2, <2>1, RunTidying DEF EndInv
<1>. QED
  BY <1>3, <1>4, <1>5, <1>6, ObjectsKeep DEF OnlyAt

LEMMA CleanKeeps ==
    ASSUME IInv, NEW m \in Slots, Clean(m)
    PROVE  IInv'
<1>1. /\ TypeOK /\ RowShape /\ RunsInv /\ queue[m].at = "clean" /\ queue[m].at \in InRun \ Unclaimed
      /\ ShapeOf(m) /\ OlderOf(m) /\ queue[m].seen \in SeenType
  BY DEF IInv, RunsInv, ShapeOf, Clean, InRun, Unclaimed
<1>2. /\ Step(m, "publish") /\ UNCHANGED <<job, cron, user, torn, lost, faults>>
  BY DEF Clean
<1>3. /\ OnlyAt(m) /\ queue'[m].at = "publish" /\ queue'[m].slice = queue[m].slice
      /\ queue'[m].tries = queue[m].tries /\ queue'[m].seen = queue[m].seen
      /\ Token(m)' = Token(m) /\ Seen(m)' = Seen(m)
  BY <1>1, <1>2, StepIs DEF Points, InRun
<1> DEFINE key == Seen(m).pending
<1>4. /\ key \in Keys \cup {None} /\ (key # None => key[2] + 1 = Seen(m).slice)
      /\ Seen(m).slice \in Nat /\ Seen(m).slice < job.params.slice /\ job.params.slice \in Nat
  BY <1>1 DEF SeenType, Params, Seen, OlderOf, Numbered, TypeOK
<1>5. Drop(key)
  BY DEF Clean, Outdated, Seen
<1>. HIDE DEF key
<1>6. key = None \/ job.params.pending # key
  BY <1>1, <1>4 DEF RowShape, Numbered
<1>7. ASSUME NEW n \in Slots \ {m}, Holds(n) PROVE Token(n) # key
  <2>1. Token(n)[2] = job.params.slice /\ Token(n) # None
    BY <1>1, <1>7, HeldRow, TokenIsKey DEF RunsInv
  <2>2. key # None => key[2] \in Int
    BY <1>4 DEF Keys
  <2>. QED
    BY <1>4, <2>1, <2>2
<1>8. ShapeOf(m)' /\ OlderOf(m)' /\ HoldingOf(m)' /\ EndingOf(m)' /\ RunHolds(m)'
  <2>1. ShapeOf(m)'
    BY <1>1, <1>3 DEF ShapeOf, InRun
  <2>2. OlderOf(m)'
    BY <1>1, <1>2, <1>3 DEF OlderOf
  <2>. QED
    BY <1>3, <2>1, <2>2 DEF HoldingOf, Holds, EndingOf, RunHolds
<1>. QED
  BY <1>1, <1>2, <1>3, <1>4, <1>5, <1>6, <1>7, <1>8, DropKeeps

LEMMA UndoKeeps ==
    ASSUME IInv, NEW m \in Slots, Undo(m)
    PROVE  IInv'
<1>1. /\ TypeOK /\ RowShape /\ RunsInv /\ BytesInv /\ queue[m].at = "undo" /\ queue[m].at \in InRun \ Unclaimed
      /\ ShapeOf(m) /\ OlderOf(m) /\ queue[m].seen \in SeenType
  BY DEF IInv, RunsInv, ShapeOf, Undo, InRun, Unclaimed
<1>2. UNCHANGED <<job, cron, user, torn, lost, faults>> /\ Drop(PendingOf(m))
  BY DEF Undo
<1>3. /\ Token(m) \in Keys /\ Token(m) # None
      /\ \A n \in Slots \ {m} :
           queue[n].at \in InRun => Token(n) # Token(m) /\ Token(n) # None
  <2>1. Token(m) \in Keys /\ Token(m) # None /\ Token(m)[1] = m
    BY <1>1, TokenIsKey
  <2>2. \A n \in Slots : queue[n].at \in InRun => Token(n)[1] = n /\ Token(n) # None
    BY <1>1, TokenIsKey DEF RunsInv
  <2>. QED
    BY <2>1, <2>2
<1>4. PendingOf(m) \in Keys \cup {None} /\ PendingOf(m) \in {Token(m), None}
  BY <1>3 DEF PendingOf
<1>5. Running /\ ~lost => PendingOf(m) = None \/ job.params.pending # PendingOf(m)
  BY <1>1, <1>4 DEF BytesInv, RunHolds
<1>6. \A n \in Slots \ {m} : Holds(n) => Token(n) # PendingOf(m)
  BY <1>3, <1>4 DEF Holds, InRun
<1>7. CASE Step(m, "threw")
  <2>1. /\ OnlyAt(m) /\ queue'[m].at = "threw" /\ queue'[m].slice = queue[m].slice
        /\ queue'[m].tries = queue[m].tries /\ queue'[m].seen = queue[m].seen
        /\ Token(m)' = Token(m) /\ Seen(m)' = Seen(m)
    BY <1>1, <1>7, StepIs DEF Points, InRun
  <2>2. ShapeOf(m)'
    BY <1>1, <2>1 DEF ShapeOf, InRun
  <2>3. OlderOf(m)'
    BY <1>1, <1>2, <2>1 DEF OlderOf
  <2>4. HoldingOf(m)' /\ EndingOf(m)' /\ RunHolds(m)'
    BY <2>1 DEF HoldingOf, Holds, EndingOf, RunHolds
  <2>. QED
    BY <1>1, <1>2, <1>4, <1>5, <1>6, <2>1, <2>2, <2>3, <2>4, DropKeeps
<1>8. CASE Acknowledge(m)
  <2>1. OnlyAt(m) /\ queue'[m].at = "free"
    BY <1>1, <1>8, Acknowledged
  <2>2. ShapeOf(m)' /\ OlderOf(m)' /\ HoldingOf(m)' /\ EndingOf(m)' /\ RunHolds(m)'
    BY <2>1, NoRun DEF InRun
  <2>. QED
    BY <1>1, <1>2, <1>4, <1>5, <1>6, <2>1, <2>2, DropKeeps
<1>. QED
  BY <1>7, <1>8 DEF Undo, Undone

-----------------------------------------------------------------------------
(* The file.                                                               *)

LEMMA LookKeeps ==
    ASSUME IInv, NEW m \in Slots, Look(m)
    PROVE  IInv'
<1>1. /\ TypeOK /\ RowShape /\ RunsInv /\ BytesInv /\ queue[m].at = "claimed"
      /\ queue[m].at \in InRun \ Unclaimed
      /\ ShapeOf(m) /\ OlderOf(m) /\ HoldingOf(m) /\ queue[m] \in RunType /\ Holds(m)
  BY DEF IInv, RunsInv, TypeOK, Look, InRun, Unclaimed, Holds
<1>2. UNCHANGED <<job, r2, cron, user, torn, lost, faults>> /\ Seen(m).finishing
  BY DEF Look, Seen
<1>3. Hands(m)
  BY <1>1 DEF Hands
<1>4. CASE r2.file # None /\ Step(m, "built")
  BY <1>1, <1>2, <1>3, <1>4, StepKeeps, Unhurt DEF InRun
<1>5. CASE Step(m, "threw")
  BY <1>1, <1>2, <1>3, <1>5, StepKeeps, Unhurt DEF InRun
<1>6. CASE /\ ~Missing(Seen(m).pending)
           /\ queue' = [queue EXCEPT ![m].at = "looked", ![m].made = [rest |-> Bytes(Seen(m).pending)]]
  <2> DEFINE b == Bytes(Seen(m).pending)
             x == [queue[m] EXCEPT !.at = "looked", !.made = [rest |-> b]]
  <2>1. b \in Seq(Nat)
    BY <1>1, <1>6, WrittenTyped
  <2>. HIDE DEF b
  <2>2. /\ x \in RunType /\ x.at = "looked" /\ x.slice = queue[m].slice /\ x.tries = queue[m].tries
        /\ x.seen = queue[m].seen /\ x.made = [rest |-> b]
    BY <1>1, <2>1 DEF RunType, InRun
  <2>3. queue' = [queue EXCEPT ![m] = x]
    BY <1>6 DEF b
  <2>. HIDE DEF x
  <2>4. OnlyAt(m) /\ queue'[m] = x
    BY <1>1, <2>2, <2>3, SlotSet
  <2>5. Token(m)' = Token(m) /\ Seen(m)' = Seen(m)
    BY <2>2, <2>4 DEF Token, Seen
  <2>6. ShapeOf(m)'
    BY <1>1, <2>1, <2>2, <2>4, <2>5 DEF ShapeOf, InRun
  <2>7. OlderOf(m)'
    BY <1>1, <1>2, <2>2, <2>4, <2>5 DEF OlderOf
  <2>8. HoldingOf(m)' /\ EndingOf(m)'
    BY <1>1, <1>2, <2>2, <2>4, <2>5 DEF HoldingOf, EndingOf
  <2>9. ASSUME Running PROVE RunHolds(m)'
    <3>1. RowHolds /\ job.params = Seen(m)
      BY <1>1, <2>9, HeldRow DEF BytesInv
    <3>2. FlattenSeq(Seen(m).parts) \o b = Whole
      BY <1>1, <1>2, <1>6, <3>1 DEF RowHolds, b, RowShape, Whole, Count
    <3>3. Whole' = Whole
      BY <1>2 DEF Whole
    <3>4. queue'[m].at = "looked" /\ queue'[m].made.rest = b
      BY <2>2, <2>4
    <3>5. FlattenSeq(Seen(m)'.parts) \o queue'[m].made.rest = Whole'
      BY <2>5, <3>2, <3>3, <3>4
    <3>. QED
      BY <3>4, <3>5 DEF RunHolds
  <2>. QED
    BY <1>2, <1>3, <2>4, <2>6, <2>7, <2>8, <2>9, QuietMove, Unhurt
<1>. QED
  BY <1>4, <1>5, <1>6 DEF Look, Seen

\* The file is there, whole if the job still runs, and no part can be added.
LEMMA FileMade ==
    ASSUME IInv, NEW m \in Slots, queue[m].at = "looked", Step(m, "built"),
           UNCHANGED <<job, cron, user, torn, lost, faults>>,
           r2' \in [upload : {"open", "aborted", "completed"}, parts : Seq(Seq(Nat)),
                    pending : SUBSET [key : Keys, bytes : Seq(Nat)], file : Seq(Nat) \cup {None}],
           r2'.pending = r2.pending, r2'.upload # "open", r2'.file # None,
           IsPrefix(job.params.parts, r2.parts) => IsPrefix(job.params.parts, r2'.parts),
           Running => r2'.file = Whole
    PROVE  IInv'
<1>1. /\ TypeOK /\ RowShape /\ RunsInv /\ BytesInv /\ EndInv /\ Holds(m) /\ queue[m].at \in InRun \ Unclaimed
      /\ ShapeOf(m) /\ OlderOf(m) /\ HoldingOf(m)
  BY DEF IInv, RunsInv, Holds, InRun, Unclaimed
<1>2. /\ OnlyAt(m) /\ queue'[m].at = "built" /\ queue'[m].slice = queue[m].slice
      /\ queue'[m].tries = queue[m].tries /\ queue'[m].seen = queue[m].seen
      /\ Token(m)' = Token(m) /\ Seen(m)' = Seen(m)
  BY <1>1, StepIs DEF Points, InRun
<1>3. TypeOK'
  BY <1>1, <1>2 DEF TypeOK, OnlyAt, OnlyIn
<1>4. ShapeOf(m)'
  BY <1>1, <1>2 DEF ShapeOf, InRun
<1>5. OlderOf(m)'
  BY <1>1, <1>2 DEF OlderOf
<1>6. HoldingOf(m)' /\ EndingOf(m)' /\ RunHolds(m)'
  BY <1>1, <1>2 DEF HoldingOf, EndingOf, RunHolds
<1>7. Ending' /\ (cron'.at \in {"read", "resume"} => cron'.seen \in SeenType)
  BY <1>1 DEF EndInv, Ending, RowShape, Running
<1>8. BytesInv'
  <2>1. OneObject'
    BY <1>1 DEF BytesInv, OneObject
  <2>2. ASSUME Running PROVE RowHolds'
    <3>1. /\ Missing(job.params.pending)' = Missing(job.params.pending)
          /\ Bytes(job.params.pending)' = Bytes(job.params.pending)
      BY DEF Missing, Bytes, Carried
    <3>. QED
      BY <1>1, <2>2, <3>1 DEF BytesInv, RowHolds
  <2>3. ASSUME Running, NEW n \in Slots \ {m} PROVE RunHolds(n)'
    <3>1. RunHolds(n) /\ queue'[n] = queue[n] /\ lost \in BOOLEAN
      BY <1>1, <1>2, <2>3 DEF BytesInv, OnlyAt, OnlyIn, TypeOK
    <3>. QED
      BY <1>1, <3>1, OthersIdle, RunHoldsOn
  <2>4. job.status \in {"running", "completed"} => FileHolds'
    BY <1>1 DEF HoldingOf, FileHolds, Running, Whole
  <2>. QED
    BY <1>6, <2>1, <2>2, <2>3, <2>4 DEF BytesInv, Running
<1>9. ~Running /\ ~torn => Tidying'
  BY <1>1, <1>2, RunTidying DEF EndInv
<1>. QED
  BY <1>2, <1>3, <1>4, <1>5, <1>6, <1>7, <1>8, <1>9, ObjectsKeep DEF OnlyAt

LEMMA BuildKeeps ==
    ASSUME IInv, NEW m \in Slots, Build(m)
    PROVE  IInv'
<1>1. /\ TypeOK /\ RunsInv /\ BytesInv /\ queue[m].at = "looked" /\ Holds(m)
      /\ queue[m].at \in InRun \ Unclaimed
      /\ ShapeOf(m)
  BY DEF IInv, RunsInv, Build, Holds, InRun, Unclaimed
<1>2. UNCHANGED <<job, cron, user, torn, lost, faults>>
  BY DEF Build
<1> DEFINE parts == Seen(m).parts
           rest == queue[m].made.rest
<1>3. parts \in Seq(Seq(Nat)) /\ rest \in Seq(Nat) /\ job.params = Seen(m)
  BY <1>1, HeldRow DEF ShapeOf, SeenType, Params, Seen
<1>4. Running => FlattenSeq(parts) \o rest = Whole
  BY <1>1 DEF BytesInv, RunHolds
<1>5. CASE UNCHANGED r2 /\ Step(m, "threw")
  BY <1>1, <1>2, <1>5, StepKeeps, Unhurt DEF InRun, Hands
<1>6. CASE parts = <<>> /\ r2' = PutWhole(m) /\ Step(m, "built")
  <2>1. r2' = [r2 EXCEPT !.file = rest, !.upload = IF @ = "open" THEN "aborted" ELSE @]
    BY <1>6 DEF PutWhole
  <2>2. Running => rest = Whole
    <3>1. <<>> \o rest = rest
      BY <1>3, ConcatEmptySeq
    <3>. QED
      BY <1>4, <1>6, <3>1, FlattenEmpty
  <2>3. rest # None
    BY <1>3, NoneAssumption
  <2>. HIDE DEF rest
  <2>4. /\ r2' \in [upload : {"open", "aborted", "completed"}, parts : Seq(Seq(Nat)),
                    pending : SUBSET [key : Keys, bytes : Seq(Nat)], file : Seq(Nat) \cup {None}]
        /\ r2'.pending = r2.pending /\ r2'.upload # "open" /\ r2'.file = rest /\ r2'.parts = r2.parts
    BY <1>1, <1>3, <2>1 DEF TypeOK
  <2>. QED
    BY <1>1, <1>2, <1>6, <2>2, <2>3, <2>4, FileMade
<1>7. CASE r2' = Assembled(m) /\ Step(m, "built")
  <2> DEFINE all == AllParts(m)
             up == Uploaded(all)
             file == FlattenSeq(all)
  <2>1. /\ all \in Seq(Seq(Nat)) /\ IsPrefix(parts, all) /\ FlattenSeq(all) = FlattenSeq(parts) \o rest
    <3>1. CASE rest = <<>>
      <4>1. all = parts \o <<>>
        BY <3>1 DEF AllParts, Seen
      <4>2. all = parts
        BY <1>3, <4>1, ConcatEmptySeq
      <4>3. <<>> \in Seq(Seq(Nat)) /\ FlattenSeq(parts) \in Seq(Nat)
        BY <1>3, FlattenType, EmptySeq
      <4>4. FlattenSeq(parts) \o rest = FlattenSeq(parts)
        BY <3>1, <4>3, ConcatEmptySeq
      <4>. QED
        BY <1>3, <4>1, <4>2, <4>3, <4>4, PrefixOfConcat
    <3>2. CASE rest # <<>>
      <4>1. all = parts \o <<rest>>
        BY <3>2 DEF AllParts, Seen
      <4>2. <<rest>> \in Seq(Seq(Nat)) /\ all = Append(parts, rest)
        BY <1>3, <4>1
      <4>. QED
        BY <1>3, <4>1, <4>2, PrefixOfConcat, FlattenAppend
    <3>. QED
      BY <3>1, <3>2
  <2>2. r2' = [r2 EXCEPT !.parts = up, !.file = file, !.upload = "completed"]
    BY <1>7 DEF Assembled
  <2>3. file \in Seq(Nat) /\ file # None /\ (Running => file = Whole)
    <3>1. file \in Seq(Nat)
      BY <2>1, FlattenType
    <3>. QED
      BY <1>4, <2>1, <3>1, NoneAssumption
  <2>4. up \in Seq(Seq(Nat)) /\ IsPrefix(parts, up)
    <3>1. r2.parts \in Seq(Seq(Nat))
      BY <1>1 DEF TypeOK
    <3>. HIDE DEF all
    <3>2. up \in Seq(Seq(Nat)) /\ IsPrefix(all, up)
      BY <2>1, <3>1, UploadedHolds
    <3>. HIDE DEF up, parts
    <3>. QED
      BY <1>3, <2>1, <3>2, PrefixTrans
  <2>. HIDE DEF file, up
  <2>5. /\ r2' \in [upload : {"open", "aborted", "completed"}, parts : Seq(Seq(Nat)),
                    pending : SUBSET [key : Keys, bytes : Seq(Nat)], file : Seq(Nat) \cup {None}]
        /\ r2'.pending = r2.pending /\ r2'.upload # "open" /\ r2'.file = file /\ r2'.parts = up
    BY <1>1, <2>2, <2>3, <2>4 DEF TypeOK
  <2>. QED
    BY <1>1, <1>2, <1>3, <1>7, <2>3, <2>4, <2>5, FileMade
<1>. QED
  BY <1>5, <1>6, <1>7 DEF Build, Seen

-----------------------------------------------------------------------------
(* The end of the job.                                                     *)

\* The job is completed; what is carried goes next, unless nobody knows it is.
LEMMA CloseMade ==
    ASSUME IInv, NEW m \in Slots, queue[m].at = "built", StillClaimed(queue[m].seen),
           job' = Completed(m), NEW at \in {"tidy", "threw"}, Step(m, at),
           UNCHANGED <<r2, cron, user, lost>>, torn' \in BOOLEAN, faults' \in 0..MaxFaults,
           at = "threw" => torn'
    PROVE  IInv'
<1>1. /\ TypeOK /\ RowShape /\ RunsInv /\ BytesInv /\ EndInv /\ queue[m].at \in InRun \ Unclaimed
      /\ ShapeOf(m) /\ OlderOf(m)
  BY DEF IInv, RunsInv, InRun, Unclaimed
<1>2. /\ Running /\ Holds(m) /\ job.params = Seen(m) /\ Seen(m) \in Params
  <2>1. Running /\ Holds(m) /\ job.params = Seen(m)
    BY DEF StillClaimed, Holds, Seen
  <2>. QED
    BY <1>1, <2>1 DEF TypeOK
<1>3. /\ OnlyAt(m) /\ queue'[m].at = at /\ queue'[m].slice = queue[m].slice
      /\ queue'[m].tries = queue[m].tries /\ queue'[m].seen = queue[m].seen
      /\ Token(m)' = Token(m) /\ Seen(m)' = Seen(m)
  BY <1>1, StepIs DEF Points, InRun
<1> DEFINE c == [Seen(m) EXCEPT !.pending = None, !.lease = None, !.live = FALSE]
<1>4. /\ c \in Params /\ c.pending = None /\ c.slice = Seen(m).slice
      /\ c.finishing = Seen(m).finishing /\ c.recoveries = Seen(m).recoveries
  BY <1>2 DEF Params
<1>5. job' = [job EXCEPT !.status = "completed", !.idle = 0, !.params = c] /\ 0 \in 0..Idle
  BY Sizes DEF Completed, Seen
<1>. HIDE DEF c
<1>6. /\ job' \in [status : Statuses, total : Totals, cursor : Nat, idle : 0 .. Idle, params : Params]
      /\ job'.status = "completed" /\ job'.params = c /\ job'.total = job.total /\ job'.cursor = job.cursor
  BY <1>1, <1>4, <1>5 DEF TypeOK, Statuses
<1>7. TypeOK'
  <2>1. job'.cursor <= job'.total /\ job'.params.recoveries <= MaxRecoveries
    BY <1>1, <1>2, <1>4, <1>6 DEF TypeOK
  <2>. QED
    BY <1>1, <1>3, <1>6, <2>1 DEF TypeOK, OnlyAt, OnlyIn
<1>8. RowShape'
  BY <1>1, <1>2, <1>4, <1>6 DEF RowShape, Numbered
<1>9. RunsInv'
  <2>1. JobOn
    BY <1>1, <1>2, <1>4, <1>6 DEF JobOn, Running, Params
  <2>2. \A n \in Slots \ {m} : ~Holds(n)
    BY <1>1, <1>2, OneHolds
  <2>3. ShapeOf(m)'
    BY <1>1, <1>3 DEF ShapeOf, InRun
  <2>4. OlderOf(m)'
    BY <1>1, <1>2, <1>3, <1>4, <1>6 DEF OlderOf
  <2>5. HoldingOf(m)' /\ EndingOf(m)'
    BY <1>3, <1>6 DEF HoldingOf, Holds, EndingOf, Running
  <2>. QED
    BY <1>1, <1>3, <1>7, <2>1, <2>2, <2>3, <2>4, <2>5, RunsGoOn DEF OnlyAt
<1>10. r2.file # None /\ FileHolds /\ OneObject
  BY <1>1, <1>2 DEF BytesInv, RunHolds, Running
<1>11. BytesInv'
  <2>1. FileHolds' /\ OneObject'
    BY <1>6, <1>10 DEF FileHolds, OneObject, Whole
  <2>. QED
    BY <1>6, <2>1 DEF BytesInv, Running
<1>12. Ending'
  BY <1>1, <1>2, <1>6 DEF EndInv, Ending, Running
<1>13. ~torn' => Tidying'
  BY <1>3, <1>6, <1>10 DEF FileHolds, Tidying, Tidier
<1>. QED
  BY <1>7, <1>8, <1>9, <1>11, <1>12, <1>13 DEF IInv, EndInv

LEMMA CloseKeeps ==
    ASSUME IInv, NEW m \in Slots, Close(m) \/ CloseThrows(m)
    PROVE  IInv'
<1>1. /\ TypeOK /\ RunsInv /\ queue[m].at = "built" /\ queue[m].at \in InRun \ Unclaimed
      /\ UNCHANGED <<r2, cron, user, lost>> /\ torn \in BOOLEAN
  BY DEF IInv, Close, CloseThrows, InRun, Unclaimed, TypeOK
<1>2. CASE Close(m) /\ StillClaimed(queue[m].seen)
  BY <1>1, <1>2, CloseMade, Unhurt DEF Close
<1>3. CASE Close(m) /\ ~StillClaimed(queue[m].seen)
  <2>1. UNCHANGED <<job, torn, lost, faults>> /\ Step(m, "purge")
    BY <1>3 DEF Close, LostClose
  <2>2. job.params = Seen(m) /\ job.status # "completed"
    BY <1>1, HeldRow DEF Holds
  <2>3. ~Running
    BY <1>3, <2>2 DEF StillClaimed, Seen
  <2>4. Hands(m)
    BY <1>1, <2>1, StepIs DEF Hands, Points, InRun
  <2>. QED
    BY <1>1, <2>1, <2>2, <2>3, <2>4, StepKeeps, Unhurt DEF InRun
<1>4. CASE CloseThrows(m)
  <2>1. /\ faults' \in 0..MaxFaults /\ Step(m, "threw")
        /\ torn' = (torn \/ job'.status # "running")
        /\ job' = job \/ (StillClaimed(queue[m].seen) /\ job' = Completed(m))
    BY <1>4, Hurt DEF CloseThrows
  <2>2. torn' \in BOOLEAN /\ (torn => torn')
    BY <1>1, <2>1
  <2>3. CASE job' = job
    BY <1>1, <2>1, <2>2, <2>3, StepKeeps DEF InRun, Running
  <2>4. CASE StillClaimed(queue[m].seen) /\ job' = Completed(m)
    <3>1. job'.status = "completed"
      BY <1>1, <2>4 DEF Completed, TypeOK
    <3>. QED
      BY <1>1, <2>1, <2>2, <2>4, <3>1, CloseMade
  <2>. QED
    BY <2>1, <2>3, <2>4
<1>. QED
  BY <1>2, <1>3, <1>4

-----------------------------------------------------------------------------
(* What tidies up after the end.                                           *)

\* The objects after what some of those who tidy up have done.
LEMMA TidiersKeep ==
    ASSUME IInv, ~Running, NEW M \in SUBSET Slots, OnlyIn(M), UNCHANGED <<job, torn, lost, faults>>,
           TypeOK', Ending', cron'.at \in {"read", "resume"} => cron'.seen \in SeenType,
           \A n \in M : queue'[n].at \notin InRun \/ (queue[n].at = "abort" /\ Step(n, "purge")),
           \A n \in M : queue'[n].at \notin {"waiting", "held", "late"},
           r2'.pending \subseteq r2.pending,
           job.status = "completed" => r2'.file = r2.file /\ (r2.upload # "open" => r2'.upload # "open"),
           ~torn => Tidying'
    PROVE  IInv'
<1>1. TypeOK /\ RunsInv /\ BytesInv
  BY DEF IInv
<1>2. BytesInv'
  <2>1. OneObject'
    BY <1>1, FewerApart DEF BytesInv
  <2>2. job.status = "completed" => FileHolds'
    BY <1>1 DEF BytesInv, FileHolds, Whole
  <2>. QED
    BY <2>1, <2>2 DEF BytesInv, Running
<1>3. ASSUME NEW n \in M PROVE ShapeOf(n)' /\ OlderOf(n)' /\ HoldingOf(n)' /\ EndingOf(n)'
  <2>1. CASE queue'[n].at \notin InRun
    BY <2>1, NoRun
  <2>2. CASE queue[n].at = "abort" /\ Step(n, "purge")
    <3>1. /\ queue'[n].at = "purge" /\ queue'[n].slice = queue[n].slice
          /\ queue'[n].tries = queue[n].tries /\ queue'[n].seen = queue[n].seen
          /\ Token(n)' = Token(n) /\ Seen(n)' = Seen(n)
      BY <1>1, <2>2, StepIs DEF Points, InRun
    <3>2. ShapeOf(n) /\ OlderOf(n) /\ EndingOf(n)
      BY <1>1 DEF RunsInv
    <3>3. ShapeOf(n)'
      BY <2>2, <3>1, <3>2 DEF ShapeOf, InRun, Unclaimed
    <3>4. OlderOf(n)'
      BY <2>2, <3>1, <3>2 DEF OlderOf, InRun
    <3>. QED
      BY <2>2, <3>1, <3>2, <3>3, <3>4 DEF HoldingOf, Holds, EndingOf, Running
  <2>. QED
    BY <2>1, <2>2
<1>. QED
  BY <1>2, <1>3, ObjectsKeep

\* What is left after an abort has somebody, who purges next.
LEMMA AbortTidies ==
    ASSUME TypeOK, r2' = AbortedUpload
    PROVE  /\ r2' \in [upload : {"open", "aborted", "completed"}, parts : Seq(Seq(Nat)),
                       pending : SUBSET [key : Keys, bytes : Seq(Nat)], file : Seq(Nat) \cup {None}]
           /\ r2'.pending = r2.pending /\ r2'.file = r2.file /\ r2'.upload # "open"
           /\ Tidier({"purge"})' => Tidying'
<1>1. /\ r2' \in [upload : {"open", "aborted", "completed"}, parts : Seq(Seq(Nat)),
                       pending : SUBSET [key : Keys, bytes : Seq(Nat)], file : Seq(Nat) \cup {None}]
      /\ r2'.pending = r2.pending /\ r2'.file = r2.file /\ r2'.upload # "open"
  BY DEF AbortedUpload, TypeOK
<1>2. Tidier({"purge"})' => Tidier({"abort", "purge", "tidy"})' /\ Tidier({"abort", "purge", "built"})'
  BY DEF Tidier
<1>. QED
  BY <1>1, <1>2 DEF Tidying

\* After a purge only an open upload can be left.
LEMMA PurgeTidies ==
    ASSUME TypeOK, r2' = Purged
    PROVE  /\ r2' \in [upload : {"open", "aborted", "completed"}, parts : Seq(Seq(Nat)),
                       pending : SUBSET [key : Keys, bytes : Seq(Nat)], file : Seq(Nat) \cup {None}]
           /\ r2'.pending = {} /\ r2'.file = None /\ r2'.upload = r2.upload
           /\ Tidying /\ (Tidier({"abort"}) => Tidier({"abort"})') => Tidying'
<1>1. /\ r2' \in [upload : {"open", "aborted", "completed"}, parts : Seq(Seq(Nat)),
                       pending : SUBSET [key : Keys, bytes : Seq(Nat)], file : Seq(Nat) \cup {None}]
      /\ r2'.pending = {} /\ r2'.file = None /\ r2'.upload = r2.upload
  BY DEF Purged, TypeOK
<1>. QED
  BY <1>1 DEF Tidying

LEMMA TidyKeeps ==
    ASSUME IInv, NEW m \in Slots, Tidy(m) \/ Purge(m) \/ Abort(m)
    PROVE  IInv'
<1>1. /\ TypeOK /\ RowShape /\ RunsInv /\ EndInv /\ EndingOf(m) /\ ~Running
      /\ queue[m].at \in {"tidy", "purge", "abort"} /\ UNCHANGED <<job, cron, user, torn, lost, faults>>
  BY DEF IInv, RunsInv, EndingOf, Tidy, Purge, Abort
<1>2. Ending' /\ (cron'.at \in {"read", "resume"} => cron'.seen \in SeenType)
  BY <1>1 DEF EndInv, Ending, RowShape, Running
<1>3. ASSUME OnlyAt(m) PROVE \A n \in Slots \ {m} : queue'[n] = queue[n] /\ PendingOf(n)' = PendingOf(n)
  BY <1>3 DEF OnlyAt, OnlyIn, PendingOf, Token
<1>4. CASE Tidy(m)
  <2>1. OnlyAt(m) /\ queue'[m].at = "free" /\ queue[m].at = "tidy"
    BY <1>1, <1>4, Acknowledged DEF Tidy
  <2>2. /\ r2' \in [upload : {"open", "aborted", "completed"}, parts : Seq(Seq(Nat)),
                       pending : SUBSET [key : Keys, bytes : Seq(Nat)], file : Seq(Nat) \cup {None}]
        /\ r2'.pending = {} /\ r2'.file = r2.file /\ r2'.upload = r2.upload
    BY <1>1, <1>4 DEF Tidy, Tidied, TypeOK
  <2>3. TypeOK'
    BY <1>1, <2>1, <2>2 DEF TypeOK, OnlyAt, OnlyIn
  <2>4. ~torn => Tidying'
    <3>1. Tidier({"abort"}) => Tidier({"abort"})'
      BY <1>1, <1>3, <2>1 DEF Tidier
    <3>2. Tidier({"abort", "purge", "built"}) => Tidier({"abort", "purge", "built"})'
      BY <1>1, <1>3, <2>1 DEF Tidier
    <3>. QED
      BY <1>1, <2>2, <3>1, <3>2 DEF Tidying, EndInv
  <2>. QED
    BY <1>1, <1>2, <2>1, <2>2, <2>3, <2>4, TidiersKeep DEF OnlyAt, InRun
<1>5. CASE Purge(m)
  <2>1. OnlyAt(m) /\ queue'[m].at = "free" /\ queue[m].at = "purge" /\ r2' = Purged
    BY <1>1, <1>5, Acknowledged DEF Purge
  <2>2. /\ r2' \in [upload : {"open", "aborted", "completed"}, parts : Seq(Seq(Nat)),
                       pending : SUBSET [key : Keys, bytes : Seq(Nat)], file : Seq(Nat) \cup {None}]
        /\ r2'.pending = {}
        /\ Tidying /\ (Tidier({"abort"}) => Tidier({"abort"})') => Tidying'
    BY <1>1, <2>1, PurgeTidies
  <2>3. TypeOK'
    BY <1>1, <2>1, <2>2 DEF TypeOK, OnlyAt, OnlyIn
  <2>4. ~torn => Tidying'
    <3>1. Tidier({"abort"}) => Tidier({"abort"})'
      BY <1>1, <1>3, <2>1 DEF Tidier
    <3>. QED
      BY <1>1, <2>2, <3>1 DEF EndInv
  <2>5. job.status # "completed"
    BY <1>1, <2>1 DEF EndingOf
  <2>. QED
    BY <1>1, <1>2, <2>1, <2>2, <2>3, <2>4, <2>5, TidiersKeep DEF OnlyAt, InRun
<1>6. CASE Abort(m)
  <2>1. /\ OnlyAt(m) /\ queue'[m].at = "purge" /\ queue[m].at = "abort"
        /\ r2' = AbortedUpload /\ Step(m, "purge")
    BY <1>1, <1>6, StepIs DEF Abort, Points, InRun
  <2>2. /\ r2' \in [upload : {"open", "aborted", "completed"}, parts : Seq(Seq(Nat)),
                       pending : SUBSET [key : Keys, bytes : Seq(Nat)], file : Seq(Nat) \cup {None}]
        /\ r2'.pending = r2.pending /\ r2'.file = r2.file /\ r2'.upload # "open"
        /\ Tidier({"purge"})' => Tidying'
    BY <1>1, <2>1, AbortTidies
  <2>3. TypeOK'
    BY <1>1, <2>1, <2>2 DEF TypeOK, OnlyAt, OnlyIn
  <2>4. Tidying'
    BY <2>1, <2>2 DEF Tidier
  <2>. QED
    BY <1>1, <1>2, <2>1, <2>2, <2>3, <2>4, TidiersKeep DEF OnlyAt, InRun
<1>. QED
  BY <1>4, <1>5, <1>6

LEMMA CronTidies ==
    ASSUME IInv, CronAbort \/ CronPurge
    PROVE  IInv'
<1>1. /\ TypeOK /\ RowShape /\ RunsInv /\ EndInv /\ cron.at \in {"abort", "purge"}
      /\ job.status \notin {"running", "completed"} /\ ~Running
      /\ UNCHANGED <<job, queue, user, torn, lost, faults>>
  BY DEF IInv, EndInv, Ending, CronAbort, CronPurge, Running
<1>2. OnlyIn({})
  BY <1>1 DEF OnlyIn, TypeOK
<1>3. CASE CronAbort
  <2>1. cron' = [cron EXCEPT !.at = "purge"] /\ r2' = AbortedUpload
    BY <1>3 DEF CronAbort
  <2>2. cron' \in [at : {"idle", "read", "resume", "failing", "abort", "purge"}, seen : SeenType \cup {None}]
        /\ cron'.at = "purge"
    BY <1>1, <2>1 DEF TypeOK
  <2>3. /\ r2' \in [upload : {"open", "aborted", "completed"}, parts : Seq(Seq(Nat)),
                       pending : SUBSET [key : Keys, bytes : Seq(Nat)], file : Seq(Nat) \cup {None}]
        /\ r2'.pending = r2.pending /\ Tidying'
    BY <1>1, <2>1, <2>2, AbortTidies DEF Tidier
  <2>4. TypeOK' /\ Ending'
    BY <1>1, <2>2, <2>3 DEF TypeOK, EndInv, Ending, Running
  <2>. QED
    BY <1>1, <1>2, <2>2, <2>3, <2>4, TidiersKeep
<1>4. CASE CronPurge
  <2>1. cron' = [at |-> "idle", seen |-> None] /\ r2' = Purged /\ cron.at = "purge"
    BY <1>4 DEF CronPurge
  <2>2. cron' \in [at : {"idle", "read", "resume", "failing", "abort", "purge"}, seen : SeenType \cup {None}]
        /\ cron'.at = "idle"
    BY <2>1
  <2>3. /\ r2' \in [upload : {"open", "aborted", "completed"}, parts : Seq(Seq(Nat)),
                       pending : SUBSET [key : Keys, bytes : Seq(Nat)], file : Seq(Nat) \cup {None}]
        /\ r2'.pending = {}
        /\ Tidying /\ (Tidier({"abort"}) => Tidier({"abort"})') => Tidying'
    BY <1>1, <2>1, PurgeTidies
  <2>4. Tidier({"abort"}) => Tidier({"abort"})'
    BY <1>1, <2>1 DEF Tidier
  <2>5. TypeOK' /\ Ending'
    BY <1>1, <2>2, <2>3 DEF TypeOK, EndInv, Ending, Running
  <2>. QED
    BY <1>1, <1>2, <2>2, <2>3, <2>4, <2>5, TidiersKeep DEF EndInv
<1>. QED
  BY <1>3, <1>4

LEMMA UserTidies ==
    ASSUME IInv, DeleteUpload \/ DeleteObjects
    PROVE  IInv'
<1>1. /\ TypeOK /\ RowShape /\ RunsInv /\ EndInv /\ user.at \in {"abort", "purge"}
      /\ job.status = "gone" /\ ~Running
      /\ UNCHANGED <<job, queue, cron, torn, lost, faults>>
  BY DEF IInv, EndInv, Ending, DeleteUpload, DeleteObjects, Running
<1>2. OnlyIn({}) /\ (cron'.at \in {"read", "resume"} => cron'.seen \in SeenType)
  BY <1>1 DEF OnlyIn, TypeOK, RowShape
<1>3. CASE DeleteUpload
  <2>1. user' = [user EXCEPT !.at = "purge"] /\ r2' = AbortedUpload
    BY <1>3 DEF DeleteUpload
  <2>2. user' \in [at : {"idle", "asked", "abort", "purge", "done"}, saw : Statuses \cup {None}]
        /\ user'.at = "purge"
    BY <1>1, <2>1 DEF TypeOK
  <2>3. /\ r2' \in [upload : {"open", "aborted", "completed"}, parts : Seq(Seq(Nat)),
                       pending : SUBSET [key : Keys, bytes : Seq(Nat)], file : Seq(Nat) \cup {None}]
        /\ r2'.pending = r2.pending /\ Tidying'
    BY <1>1, <2>1, <2>2, AbortTidies DEF Tidier
  <2>4. TypeOK' /\ Ending'
    BY <1>1, <2>2, <2>3 DEF TypeOK, EndInv, Ending, Running
  <2>. QED
    BY <1>1, <1>2, <2>2, <2>3, <2>4, TidiersKeep
<1>4. CASE DeleteObjects
  <2>1. user' = [user EXCEPT !.at = "done"] /\ r2' = Purged /\ user.at = "purge"
    BY <1>4 DEF DeleteObjects
  <2>2. user' \in [at : {"idle", "asked", "abort", "purge", "done"}, saw : Statuses \cup {None}]
        /\ user'.at = "done"
    BY <1>1, <2>1 DEF TypeOK
  <2>3. /\ r2' \in [upload : {"open", "aborted", "completed"}, parts : Seq(Seq(Nat)),
                       pending : SUBSET [key : Keys, bytes : Seq(Nat)], file : Seq(Nat) \cup {None}]
        /\ r2'.pending = {}
        /\ Tidying /\ (Tidier({"abort"}) => Tidier({"abort"})') => Tidying'
    BY <1>1, <2>1, PurgeTidies
  <2>4. Tidier({"abort"}) => Tidier({"abort"})'
    BY <1>1, <2>1 DEF Tidier
  <2>5. TypeOK' /\ Ending'
    BY <1>1, <2>2, <2>3 DEF TypeOK, EndInv, Ending, Running
  <2>. QED
    BY <1>1, <1>2, <2>2, <2>3, <2>4, <2>5, TidiersKeep DEF EndInv
<1>. QED
  BY <1>3, <1>4

-----------------------------------------------------------------------------
(* What ends the job without a file.                                       *)

LEMMA EndedKeeps ==
    ASSUME IInv, TypeOK', NEW M \in SUBSET Slots, OnlyIn(M), UNCHANGED <<r2, lost, torn>>,
           job'.total = job.total, job'.cursor = job.cursor, job'.params = job.params,
           job'.status \notin {"running", "completed"},
           Ending', cron'.at \in {"read", "resume"} => cron'.seen \in SeenType,
           \A n \in M : ShapeOf(n)' /\ OlderOf(n)' /\ HoldingOf(n)' /\ EndingOf(n)',
           \/ Tidier({"abort"})'
           \/ ~Running /\ Tidier({"purge"})' /\ (Tidier({"abort"}) => Tidier({"abort"})')
    PROVE  IInv'
<1>1. TypeOK /\ RowShape /\ RunsInv /\ BytesInv /\ EndInv
  BY DEF IInv
<1>2. RowShape'
  BY <1>1 DEF RowShape, Numbered
<1>3. RunsInv'
  <2>1. JobOn
    BY <1>1 DEF JobOn, Running, TypeOK, Params
  <2>2. \A n \in Slots \ M : Holds(n) => job'.params = job.params /\ job'.status # "completed"
    OBVIOUS
  <2>. QED
    BY <1>1, <2>1, <2>2, RunsGoOn
<1>4. BytesInv'
  BY <1>1 DEF BytesInv, OneObject, Running
<1>5. ASSUME ~torn' PROVE Tidying'
  <2>1. /\ Tidier({"abort"})' => Tidier({"abort", "purge", "tidy"})' /\ Tidier({"abort", "purge", "built"})'
        /\ Tidier({"purge"})' => Tidier({"abort", "purge", "tidy"})' /\ Tidier({"abort", "purge", "built"})'
    BY DEF Tidier
  <2>2. Tidier({"abort"})' \/ (Tidying /\ Tidier({"purge"})' /\ (Tidier({"abort"}) => Tidier({"abort"})'))
    BY <1>1, <1>5 DEF EndInv
  <2>. QED
    BY <2>1, <2>2 DEF Tidying
<1>. QED
  BY <1>2, <1>3, <1>4, <1>5 DEF IInv, EndInv

LEMMA FailedIs ==
    ASSUME TypeOK, NEW s \in Statuses, job' = [job EXCEPT !.status = s, !.idle = 0]
    PROVE  /\ job' \in [status : Statuses, total : Totals, cursor : Nat, idle : 0 .. Idle, params : Params]
           /\ job'.status = s /\ job'.total = job.total /\ job'.cursor = job.cursor
           /\ job'.params = job.params
           /\ job'.cursor <= job'.total /\ job'.params.recoveries <= MaxRecoveries
<1>1. 0 \in 0..Idle
  BY Sizes
<1>2. /\ job' \in [status : Statuses, total : Totals, cursor : Nat, idle : 0 .. Idle, params : Params]
      /\ job'.status = s /\ job'.total = job.total /\ job'.cursor = job.cursor /\ job'.params = job.params
  BY <1>1 DEF TypeOK
<1>. QED
  BY <1>2 DEF TypeOK

LEMMA FailKeeps ==
    ASSUME IInv, NEW m \in Slots, Fail(m)
    PROVE  IInv'
<1>1. /\ TypeOK /\ RowShape /\ RunsInv /\ EndInv /\ queue[m].at = "failing"
      /\ queue[m].at \in InRun
      /\ ShapeOf(m) /\ OlderOf(m) /\ UNCHANGED <<r2, cron, user, torn, lost, faults>>
  BY DEF IInv, RunsInv, Fail, InRun
<1>2. CASE Running
  <2>1. job' = [job EXCEPT !.status = "failed", !.idle = 0] /\ Step(m, "abort")
    BY <1>2 DEF Fail, FailedJob
  <2>2. /\ job' \in [status : Statuses, total : Totals, cursor : Nat, idle : 0 .. Idle, params : Params]
        /\ job'.status = "failed" /\ job'.total = job.total /\ job'.cursor = job.cursor
        /\ job'.params = job.params
        /\ job'.cursor <= job'.total /\ job'.params.recoveries <= MaxRecoveries
    BY <1>1, <2>1, FailedIs DEF Statuses
  <2>3. /\ OnlyAt(m) /\ queue'[m].at = "abort" /\ queue'[m].slice = queue[m].slice
        /\ queue'[m].tries = queue[m].tries /\ queue'[m].seen = queue[m].seen
        /\ Token(m)' = Token(m) /\ Seen(m)' = Seen(m)
    BY <1>1, <2>1, StepIs DEF Points, InRun
  <2>4. TypeOK'
    BY <1>1, <2>2, <2>3 DEF TypeOK, OnlyAt, OnlyIn
  <2>5. ShapeOf(m)'
    BY <1>1, <2>3 DEF ShapeOf, InRun, Unclaimed
  <2>6. OlderOf(m)'
    BY <1>1, <2>2, <2>3 DEF OlderOf
  <2>7. HoldingOf(m)' /\ EndingOf(m)'
    BY <2>2, <2>3 DEF HoldingOf, Holds, EndingOf, Running
  <2>8. Ending' /\ (cron'.at \in {"read", "resume"} => cron'.seen \in SeenType)
    BY <1>1, <1>2, <2>2 DEF EndInv, Ending, RowShape, Running
  <2>9. Tidier({"abort"})'
    BY <2>3 DEF Tidier
  <2>. QED
    BY <1>1, <2>2, <2>3, <2>4, <2>5, <2>6, <2>7, <2>8, <2>9, EndedKeeps DEF OnlyAt
<1>3. CASE ~Running
  <2>1. Acknowledge(m) /\ UNCHANGED job
    BY <1>3 DEF Fail
  <2>2. Hands(m)
    BY <1>1 DEF Hands
  <2>. QED
    BY <1>1, <2>1, <2>2, Acknowledged, RunGone, Unhurt DEF InRun
<1>. QED
  BY <1>2, <1>3

LEMMA CronEnds ==
    ASSUME IInv, CronFail \/ CronExpire
    PROVE  IInv'
<1>1. /\ TypeOK /\ RowShape /\ RunsInv /\ EndInv /\ UNCHANGED <<r2, queue, user, torn, lost, faults>>
      /\ OnlyIn({})
  BY DEF IInv, CronFail, CronExpire, TypeOK, OnlyIn
<1>2. CASE CronFail /\ Running
  <2>1. job' = [job EXCEPT !.status = "failed", !.idle = 0] /\ cron' = [cron EXCEPT !.at = "abort"]
    BY <1>2 DEF CronFail, FailedJob
  <2>2. /\ job' \in [status : Statuses, total : Totals, cursor : Nat, idle : 0 .. Idle, params : Params]
        /\ job'.status = "failed" /\ job'.total = job.total /\ job'.cursor = job.cursor
        /\ job'.params = job.params
        /\ job'.cursor <= job'.total /\ job'.params.recoveries <= MaxRecoveries
    BY <1>1, <2>1, FailedIs DEF Statuses
  <2>3. cron' \in [at : {"idle", "read", "resume", "failing", "abort", "purge"}, seen : SeenType \cup {None}]
        /\ cron'.at = "abort"
    BY <1>1, <2>1 DEF TypeOK
  <2>4. TypeOK' /\ Ending' /\ Tidier({"abort"})'
    BY <1>1, <1>2, <2>2, <2>3 DEF TypeOK, EndInv, Ending, Running, Tidier
  <2>. QED
    BY <1>1, <2>2, <2>3, <2>4, EndedKeeps
<1>3. CASE CronFail /\ ~Running
  <2>1. UNCHANGED job /\ cron' = [cron EXCEPT !.at = "idle"] /\ cron.at = "failing"
    BY <1>3 DEF CronFail
  <2>2. cron' \in [at : {"idle", "read", "resume", "failing", "abort", "purge"}, seen : SeenType \cup {None}]
        /\ cron'.at = "idle"
    BY <1>1, <2>1 DEF TypeOK
  <2>3. TypeOK' /\ Ending' /\ SameWork
    BY <1>1, <2>1, <2>2 DEF TypeOK, EndInv, Ending, Running, SameWork
  <2>. QED
    BY <1>1, <2>1, <2>2, <2>3, WorkKeeps
<1>4. CASE CronExpire
  <2>1. /\ job' = [job EXCEPT !.status = "expired", !.idle = 0] /\ cron' = [cron EXCEPT !.at = "purge"]
        /\ cron.at = "idle" /\ job.status = "completed" /\ ~Running
    BY <1>4 DEF CronExpire, Running
  <2>2. /\ job' \in [status : Statuses, total : Totals, cursor : Nat, idle : 0 .. Idle, params : Params]
        /\ job'.status = "expired" /\ job'.total = job.total /\ job'.cursor = job.cursor
        /\ job'.params = job.params
        /\ job'.cursor <= job'.total /\ job'.params.recoveries <= MaxRecoveries
    BY <1>1, <2>1, FailedIs DEF Statuses
  <2>3. cron' \in [at : {"idle", "read", "resume", "failing", "abort", "purge"}, seen : SeenType \cup {None}]
        /\ cron'.at = "purge"
    BY <1>1, <2>1 DEF TypeOK
  <2>4. TypeOK' /\ Ending'
    BY <1>1, <2>1, <2>2, <2>3 DEF TypeOK, EndInv, Ending, Running
  <2>5. Tidier({"purge"})' /\ (Tidier({"abort"}) => Tidier({"abort"})')
    BY <1>1, <2>1, <2>3 DEF Tidier
  <2>. QED
    BY <1>1, <2>1, <2>2, <2>3, <2>4, <2>5, EndedKeeps
<1>. QED
  BY <1>2, <1>3, <1>4

LEMMA UserDeletes ==
    ASSUME IInv, DeleteRow
    PROVE  IInv'
<1>1. /\ TypeOK /\ RowShape /\ RunsInv /\ EndInv /\ UNCHANGED <<r2, queue, cron, torn, lost, faults>>
      /\ OnlyIn({}) /\ user.at = "asked"
  BY DEF IInv, DeleteRow, TypeOK, OnlyIn
<1>2. /\ job' \in [status : Statuses, total : Totals, cursor : Nat, idle : 0 .. Idle, params : Params]
      /\ job'.status = "gone" /\ job'.total = job.total /\ job'.cursor = job.cursor
      /\ job'.params = job.params
      /\ job'.cursor <= job'.total /\ job'.params.recoveries <= MaxRecoveries
  BY <1>1 DEF DeleteRow, TypeOK, Statuses
<1>3. user' = [user EXCEPT !.at = IF user.saw = "running" THEN "abort" ELSE "purge"]
  BY DEF DeleteRow
<1>4. /\ user' \in [at : {"idle", "asked", "abort", "purge", "done"}, saw : Statuses \cup {None}]
      /\ user'.at = IF user.saw = "running" THEN "abort" ELSE "purge"
  BY <1>1, <1>3 DEF TypeOK
<1>5. TypeOK' /\ Ending'
  BY <1>1, <1>2, <1>4 DEF TypeOK, EndInv, Ending, Running
<1>6. \/ Tidier({"abort"})'
      \/ ~Running /\ Tidier({"purge"})' /\ (Tidier({"abort"}) => Tidier({"abort"})')
  <2>1. CASE user.saw = "running"
    BY <1>4, <2>1 DEF Tidier
  <2>2. CASE user.saw # "running"
    BY <1>1, <1>4, <2>2 DEF Tidier, EndInv, Ending
  <2>. QED
    BY <2>1, <2>2
<1>. QED
  BY <1>1, <1>2, <1>5, <1>6, EndedKeeps DEF RowShape

-----------------------------------------------------------------------------
(* The hourly pass, the user's request, time, and the theorems.            *)

LEMMA PassKeeps ==
    ASSUME IInv, CronList \/ CronRecover \/ CronResume \/ DieCron
    PROVE  IInv'
<1>1. TypeOK /\ RowShape /\ RunsInv /\ EndInv /\ UNCHANGED <<r2, user, lost>> /\ torn \in BOOLEAN
  BY DEF IInv, CronList, CronRecover, CronResume, DieCron, TypeOK
<1>2. cron \in [at : {"idle", "read", "resume", "failing", "abort", "purge"}, seen : SeenType \cup {None}]
  BY <1>1 DEF TypeOK
<1>3. CASE CronList
  <2>1. /\ cron' = [at |-> "read", seen |-> [params |-> job.params, cursor |-> job.cursor]]
        /\ UNCHANGED <<job, r2, queue, user, torn, lost, faults>> /\ cron.at = "idle"
    BY <1>3 DEF CronList
  <2>2. cron'.at = "read" /\ cron'.seen \in SeenType
        /\ cron' \in [at : {"idle", "read", "resume", "failing", "abort", "purge"},
                     seen : SeenType \cup {None}]
    BY <1>1, <2>1 DEF TypeOK, SeenType
  <2>3. TypeOK' /\ Ending' /\ SameWork /\ OnlyIn({})
    BY <1>1, <2>1, <2>2 DEF TypeOK, EndInv, Ending, Running, SameWork, OnlyIn
  <2>. QED
    BY <1>1, <2>1, <2>2, <2>3, WorkKeeps
<1>4. CASE CronRecover
  <2>1. UNCHANGED <<r2, queue, user, torn, lost, faults>> /\ cron.at = "read" /\ cron.seen \in SeenType
    BY <1>1, <1>4 DEF CronRecover, RowShape
  <2>2. PICK at \in {"idle", "failing", "resume"} : cron' = [cron EXCEPT !.at = at]
    BY <1>4 DEF CronRecover
  <2>3. cron'.at = at /\ cron'.seen \in SeenType
        /\ cron' \in [at : {"idle", "read", "resume", "failing", "abort", "purge"},
                     seen : SeenType \cup {None}]
    BY <1>2, <2>1, <2>2
  <2>4. /\ SameWork /\ job'.params.recoveries <= MaxRecoveries
        /\ job' \in [status : Statuses, total : Totals, cursor : Nat, idle : 0 .. Idle, params : Params]
        /\ job' # job => ~job.params.live
    <3>1. CASE job' = job
      BY <1>1, <3>1 DEF TypeOK, SameWork
    <3>2. CASE job' # job
      <4> DEFINE c == Recovered(job.params)
      <4>1. /\ ~cron.seen.params.live /\ ~(cron.seen.params.recoveries >= MaxRecoveries)
            /\ StillClaimed(cron.seen) /\ job' = [job EXCEPT !.params = c, !.idle = 0]
        BY <1>4, <3>2 DEF CronRecover
      <4>2. job.params = cron.seen.params /\ job.params \in Params
        BY <1>1, <4>1 DEF StillClaimed, TypeOK
      <4>3. /\ c \in Params /\ c.slice = job.params.slice /\ c.parts = job.params.parts
            /\ c.pending = job.params.pending /\ c.finishing = job.params.finishing
            /\ c.recoveries = job.params.recoveries + 1
        <5> DEFINE b == [job.params EXCEPT !.lease = None, !.live = FALSE]
        <5>1. /\ b \in Params /\ b.slice = job.params.slice /\ b.parts = job.params.parts
              /\ b.pending = job.params.pending /\ b.finishing = job.params.finishing
              /\ b.recoveries = job.params.recoveries
          BY <4>2 DEF Params
        <5>2. c = [b EXCEPT !.recoveries = @ + 1]
          BY DEF Recovered
        <5>. HIDE DEF b, c
        <5>. QED
          BY <5>1, <5>2 DEF Params
      <4>4. job.params.recoveries \in Nat /\ job.params.recoveries < MaxRecoveries /\ 0 \in 0..Idle
        BY <4>1, <4>2, Sizes DEF Params
      <4>. HIDE DEF c
      <4>5. /\ SameWork /\ job'.params = c
            /\ job' \in [status : Statuses, total : Totals, cursor : Nat, idle : 0 .. Idle, params : Params]
        BY <1>1, <4>1, <4>3, <4>4 DEF TypeOK, SameWork
      <4>. QED
        BY <4>1, <4>2, <4>3, <4>4, <4>5, Sizes
    <3>. QED
      BY <3>1, <3>2
  <2>5. TypeOK'
    BY <1>1, <2>1, <2>3, <2>4 DEF TypeOK, SameWork
  <2>6. Ending' /\ OnlyIn({})
    BY <1>1, <2>1, <2>3, <2>4 DEF EndInv, Ending, Running, SameWork, OnlyIn, TypeOK
  <2>7. \A n \in Slots : Holds(n) => job'.params = job.params
    <3>1. \A n \in Slots : Holds(n) => job.params.live
      BY <1>1, HeldRow
    <3>. QED
      BY <2>4, <3>1
  <2>. QED
    BY <2>1, <2>3, <2>4, <2>5, <2>6, <2>7, WorkKeeps
<1>5. CASE CronResume
  <2>1. /\ UNCHANGED <<job, r2, user, torn, lost, faults>> /\ cron.at = "resume" /\ Free # {}
        /\ queue' = [queue EXCEPT ![FirstFree] = Message(cron.seen.params.slice)]
        /\ cron' = [cron EXCEPT !.at = "idle", !.seen = None]
    BY <1>5 DEF CronResume
  <2>2. cron.seen.params.slice \in Nat
    BY <1>1, <2>1 DEF RowShape, SeenType, Params
  <2>3. PICK n \in Slots : /\ queue[n].at = "free" /\ OnlyAt(n) /\ queue'[n].at = "waiting"
                           /\ queue'[n].tries < Delivered
    BY <1>1, <2>1, <2>2, QueuedKeeps
  <2>4. Hands(n)
    BY <2>3 DEF Hands
  <2>5. ShapeOf(n)' /\ OlderOf(n)' /\ HoldingOf(n)' /\ EndingOf(n)' /\ RunHolds(n)'
    BY <2>3, NoRun DEF InRun
  <2>6. cron'.at = "idle"
        /\ cron' \in [at : {"idle", "read", "resume", "failing", "abort", "purge"},
                     seen : SeenType \cup {None}]
    BY <1>2, <2>1
  <2>7. TypeOK' /\ Ending' /\ SameWork
    BY <1>1, <2>1, <2>3, <2>6 DEF TypeOK, EndInv, Ending, Running, SameWork, OnlyAt, OnlyIn
  <2>8. OnlyIn({n}) /\ {n} \in SUBSET Slots
    BY <2>3 DEF OnlyAt
  <2>. QED
    BY <1>1, <2>1, <2>4, <2>5, <2>6, <2>7, <2>8, WorkKeeps
<1>6. CASE DieCron
  <2>1. /\ UNCHANGED <<job, r2, queue, user, lost>> /\ faults' \in 0..MaxFaults
        /\ cron' = [at |-> "idle", seen |-> None] /\ torn' = (torn \/ ~Running)
    BY <1>6, Hurt DEF DieCron
  <2>2. torn' \in BOOLEAN /\ (torn => torn') /\ (~torn' => Running)
    BY <1>1, <2>1
  <2>3. cron'.at = "idle"
        /\ cron' \in [at : {"idle", "read", "resume", "failing", "abort", "purge"},
                     seen : SeenType \cup {None}]
    BY <2>1
  <2>4. TypeOK' /\ Ending' /\ SameWork /\ OnlyIn({})
    BY <1>1, <2>1, <2>2, <2>3 DEF TypeOK, EndInv, Ending, Running, SameWork, OnlyIn
  <2>. QED
    BY <1>1, <2>1, <2>2, <2>3, <2>4, WorkKeeps
<1>. QED
  BY <1>3, <1>4, <1>5, <1>6

LEMMA AskKeeps ==
    ASSUME IInv, AskDelete
    PROVE  IInv'
<1>1. /\ TypeOK /\ RowShape /\ EndInv /\ user.at = "idle"
      /\ UNCHANGED <<job, r2, queue, cron, torn, lost, faults>>
      /\ user' = [at |-> "asked", saw |-> job.status]
  BY DEF IInv, AskDelete
<1>2. /\ user'.at = "asked" /\ user'.saw = job.status
      /\ user' \in [at : {"idle", "asked", "abort", "purge", "done"}, saw : Statuses \cup {None}]
  BY <1>1 DEF TypeOK
<1>3. TypeOK' /\ Ending' /\ SameWork /\ OnlyIn({})
  BY <1>1, <1>2 DEF TypeOK, EndInv, Ending, Running, SameWork, OnlyIn
<1>. QED
  BY <1>1, <1>3, WorkKeeps DEF RowShape

\* A request that stops gives back nothing that was to be deleted.
LEMMA DieUserKeeps ==
    ASSUME IInv, DieUser
    PROVE  IInv'
<1>1. TypeOK /\ RowShape /\ EndInv /\ torn \in BOOLEAN
  BY DEF IInv, TypeOK
<1>2. /\ UNCHANGED <<job, r2, queue, cron, lost>> /\ faults' \in 0..MaxFaults
      /\ user' = [at |-> "idle", saw |-> None] /\ torn' = (torn \/ ~Running)
  BY Hurt DEF DieUser
<1>3. torn' \in BOOLEAN /\ (torn => torn') /\ (~torn' => Running)
  BY <1>1, <1>2
<1>4. user'.at = "idle"
      /\ user' \in [at : {"idle", "asked", "abort", "purge", "done"}, saw : Statuses \cup {None}]
  BY <1>2
<1>5. TypeOK' /\ Ending' /\ SameWork /\ OnlyIn({})
  BY <1>1, <1>2, <1>3, <1>4 DEF TypeOK, EndInv, Ending, Running, SameWork, OnlyIn
<1>. QED
  BY <1>1, <1>2, <1>3, <1>5, WorkKeeps DEF RowShape

\* Time passes between runs, and busy messages come back.
LEMMA TickKeeps ==
    ASSUME IInv, Tick
    PROVE  IInv'
<1>1. /\ TypeOK /\ RowShape /\ RunsInv /\ EndInv /\ UNCHANGED <<r2, cron, user, torn, lost, faults>>
      /\ \A m \in Slots : queue[m].at \notin InRun
      /\ cron.at = "idle" /\ user.at \in {"idle", "done"}
  BY DEF IInv, Tick
<1> DEFINE M == {m \in Slots : queue[m].at = "held"}
<1>2. \A m \in Slots : queue[m] \in RunType /\ [queue[m] EXCEPT !.at = "waiting"] \in RunType
  <2>1. \A m \in Slots : queue[m] \in RunType
    BY <1>1 DEF TypeOK
  <2>. QED
    BY <2>1 DEF RunType
<1>3. queue' = [m \in Slots |-> IF queue[m].at = "held" THEN [queue[m] EXCEPT !.at = "waiting"] ELSE queue[m]]
  BY DEF Tick
<1>4. M \in SUBSET Slots /\ OnlyIn(M)
  BY <1>2, <1>3 DEF OnlyIn
<1>5. ASSUME NEW m \in M
      PROVE  queue'[m].at = "waiting" /\ queue'[m].tries = queue[m].tries /\ queue[m].at = "held"
  BY <1>2, <1>3 DEF RunType
<1>6. ASSUME NEW m \in M
      PROVE  ShapeOf(m)' /\ OlderOf(m)' /\ HoldingOf(m)' /\ EndingOf(m)' /\ RunHolds(m)' /\ Hands(m)
  <2>1. queue[m].tries < Delivered
    BY <1>1, <1>5 DEF RunsInv, ShapeOf
  <2>. QED
    BY <1>5, <2>1, NoRun DEF InRun, Hands
<1>. HIDE DEF M
<1> DEFINE c == [job.params EXCEPT !.live = FALSE]
           i == IF job.idle < Idle THEN job.idle + 1 ELSE job.idle
<1>7. /\ c \in Params /\ c.slice = job.params.slice /\ c.parts = job.params.parts
      /\ c.pending = job.params.pending /\ c.finishing = job.params.finishing
      /\ c.recoveries = job.params.recoveries
  BY <1>1 DEF TypeOK, Params
<1>8. i \in 0..Idle
  BY <1>1, Sizes DEF TypeOK
<1>9. job' = [job EXCEPT !.idle = i, !.params = c]
  BY DEF Tick
<1>. HIDE DEF c, i
<1>10. /\ SameWork /\ job'.params = c
       /\ job' \in [status : Statuses, total : Totals, cursor : Nat, idle : 0 .. Idle, params : Params]
  BY <1>1, <1>7, <1>8, <1>9 DEF TypeOK, SameWork
<1>11. TypeOK'
  BY <1>1, <1>4, <1>7, <1>10 DEF TypeOK, OnlyIn, SameWork
<1>12. Ending' /\ (cron'.at \in {"read", "resume"} => cron'.seen \in SeenType)
  BY <1>1, <1>10 DEF EndInv, Ending, RowShape, Running, SameWork
<1>13. \A n \in Slots : ~Holds(n)
  BY <1>1 DEF Holds, InRun
<1>. QED
  BY <1>1, <1>4, <1>6, <1>10, <1>11, <1>12, <1>13, WorkKeeps

LEMMA NextKeeps ==
    ASSUME IInv, [Next]_vars
    PROVE  IInv'
<1>1. CASE \E m \in Slots : Run(m) \/ Arrive(m) \/ Delay(m) \/ Die(m) \/ Duplicate(m) \/ Throw(m)
                              \/ CommitThrows(m) \/ CloseThrows(m) \/ Interrupt(m) \/ DeleteFails(m)
  <2>1. PICK m \in Slots : Run(m) \/ Arrive(m) \/ Delay(m) \/ Die(m) \/ Duplicate(m) \/ Throw(m)
                              \/ CommitThrows(m) \/ CloseThrows(m) \/ Interrupt(m) \/ DeleteFails(m)
    BY <1>1
  <2>2. CASE Run(m)
    BY <2>2, ReadKeeps, ClaimKeeps, RenderKeeps, PutKeeps, CommitKeeps, CleanKeeps, UndoKeeps, PublishKeeps,
       LookKeeps, BuildKeeps, CloseKeeps, TidyKeeps, ReleaseKeeps, FailKeeps DEF Run
  <2>. QED
    BY <2>1, <2>2, DelaySteps, DieSteps, DuplicateSteps, ThrowSteps, CommitThrowsKeeps, CloseKeeps,
       InterruptKeeps, DeleteFailsKeeps
<1>2. CASE Cron
  BY <1>2, PassKeeps, CronTidies, CronEnds DEF Cron
<1>3. CASE DieCron
  BY <1>3, PassKeeps
<1>4. CASE AskDelete \/ Delete \/ DieUser
  BY <1>4, AskKeeps, UserDeletes, UserTidies, DieUserKeeps DEF Delete
<1>5. CASE Tick
  BY <1>5, TickKeeps
<1>6. CASE UNCHANGED vars
  <2>1. TypeOK' /\ Ending' /\ SameWork /\ OnlyIn({}) /\ UNCHANGED <<r2, lost, torn, cron, user>>
    BY <1>6 DEF vars, IInv, TypeOK, EndInv, Ending, Running, SameWork, OnlyIn
  <2>2. UNCHANGED job /\ RowShape
    BY <1>6 DEF vars, IInv
  <2>. QED
    BY <2>1, <2>2, WorkKeeps DEF RowShape
<1>. QED
  BY <1>1, <1>2, <1>3, <1>4, <1>5, <1>6 DEF Next

LEMMA InitHolds ==
    ASSUME Init
    PROVE  IInv
<1>1. PICK n \in Totals : job = [status |-> "running", total |-> n, cursor |-> 0, idle |-> 0,
           params |-> [slice |-> 0, lease |-> None, live |-> FALSE, parts |-> <<>>,
                       pending |-> None, finishing |-> FALSE, recoveries |-> 0]]
  BY DEF Init
<1>2. PICK first \in {Empty, Message(0)} : queue = [m \in Slots |-> IF m = 1 THEN first ELSE Empty]
  BY DEF Init
<1>3. r2 = [upload |-> "open", parts |-> <<>>, pending |-> {}, file |-> None]
  BY DEF Init
<1>4. cron = [at |-> "idle", seen |-> None] /\ user = [at |-> "idle", saw |-> None]
      /\ torn = FALSE /\ lost = FALSE /\ faults = 0
  BY DEF Init
<1> DEFINE c == [slice |-> 0, lease |-> None, live |-> FALSE, parts |-> <<>>,
                 pending |-> None, finishing |-> FALSE, recoveries |-> 0]
<1>5. /\ c \in Params /\ c.pending = None /\ c.parts = <<>>
      /\ c.finishing = FALSE /\ c.recoveries = 0 /\ c.slice = 0
  BY EmptySeq DEF Params
<1>. HIDE DEF c
<1>6. /\ job \in [status : Statuses, total : Totals, cursor : Nat, idle : 0 .. Idle, params : Params]
      /\ job.status = "running" /\ job.total = n /\ job.cursor = 0 /\ job.params = c
  BY <1>1, <1>5, Sizes DEF Statuses, c
<1>7. first \in RunType /\ first.at \in {"waiting", "free"} /\ first.tries = 0 /\ 0 < Delivered
      /\ Empty \in RunType /\ Empty.at = "free" /\ Empty.tries = 0
  <2>1. 0 \in Nat /\ 0 \in 0..Delivered /\ 0 < Delivered
    BY Sizes
  <2>2. Empty.at = "free" /\ Empty.tries = 0
    BY DEF Empty
  <2>. QED
    BY <1>2, <2>1, <2>2, EmptyTyped, MessageTyped
<1>8. \A m \in Slots : queue[m] \in RunType /\ queue[m].at \in {"waiting", "free"} /\ queue[m].tries = 0
  BY <1>2, <1>7
<1>9. TypeOK
  <2>1. r2 \in [upload : {"open", "aborted", "completed"}, parts : Seq(Seq(Nat)),
               pending : SUBSET [key : Keys, bytes : Seq(Nat)], file : Seq(Nat) \cup {None}]
    BY <1>3, EmptySeq
  <2>2. queue \in [Slots -> RunType]
    BY <1>2, <1>8
  <2>3. cron \in [at : {"idle", "read", "resume", "failing", "abort", "purge"}, seen : SeenType \cup {None}]
    BY <1>4
  <2>4. user \in [at : {"idle", "asked", "abort", "purge", "done"}, saw : Statuses \cup {None}]
    BY <1>4
  <2>5. job.cursor <= job.total /\ job.params.recoveries <= MaxRecoveries
    BY <1>5, <1>6, Sizes
  <2>6. \A p \in r2.pending : Len(p.bytes) \in 1 .. PartSize - 1
    BY <1>3
  <2>7. {torn, lost} \subseteq BOOLEAN /\ faults \in 0 .. MaxFaults
    <3>1. torn = FALSE /\ lost = FALSE /\ faults = 0 /\ 0 \in 0 .. MaxFaults
      BY <1>4, Sizes
    <3>. QED
      BY <3>1
  <2>. QED
    BY <1>6, <2>1, <2>2, <2>3, <2>4, <2>5, <2>6, <2>7 DEF TypeOK
<1>10. RowShape
  BY <1>4, <1>5, <1>6 DEF RowShape, Numbered
<1>11. RunsInv
  BY <1>7, <1>8 DEF RunsInv, ShapeOf, OlderOf, HoldingOf, Holds, EndingOf, InRun
<1>12. BytesInv
  <2>1. RowHolds
    <3>1. <<>> \in Seq(Seq(Nat)) /\ r2.parts = <<>> /\ job.params.parts = <<>>
      BY <1>3, <1>5, <1>6, EmptySeq
    <3>2. IsPrefix(<<>>, <<>>)
      <4>1. Len(<<>>) = 0 /\ <<>> \in Seq(Seq(Nat))
        BY <3>1, EmptySeq
      <4>2. ASSUME NEW s \in Seq(Seq(Nat)), Len(s) = 0 PROVE IsPrefix(s, s)
        <5>1. Len(s) <= Len(s) /\ \A i \in 1..Len(s) : s[i] = s[i]
          BY <4>2
        <5>. QED
          BY <5>1, PrefixIs
      <4>. QED
        BY <4>1, <4>2
    <3>3. FlattenSeq(<<>>) \o <<>> = Count(0)
      <4>1. <<>> \o <<>> = <<>> /\ Count(0) = <<>>
        BY DEF Count
      <4>. QED
        BY <4>1, FlattenEmpty
    <3>4. ~Missing(job.params.pending) /\ Bytes(job.params.pending) = <<>>
      BY <1>5, <1>6 DEF Missing, Bytes
    <3>. QED
      BY <1>6, <3>1, <3>2, <3>3, <3>4 DEF RowHolds
  <2>2. \A m \in Slots : RunHolds(m)
    BY <1>8 DEF RunHolds
  <2>3. OneObject /\ FileHolds
    BY <1>3, <1>6 DEF OneObject, FileHolds
  <2>. QED
    BY <2>1, <2>2, <2>3 DEF BytesInv
<1>13. EndInv
  BY <1>4, <1>6 DEF EndInv, Ending, Running
<1>. QED
  BY <1>9, <1>10, <1>11, <1>12, <1>13 DEF IInv

\* What an export's runs, the hourly pass and the user's delete leave at each step.
THEOREM Invariant == Spec => []IInv
<1>1. Init => IInv
  BY InitHolds
<1>2. IInv /\ [Next]_vars => IInv'
  BY NextKeeps
<1>. QED
  BY <1>1, <1>2, PTL DEF Spec

\* A slice can be run again from the row: one run at a time has it, and what it
\* goes on from is there (claimSlice, commitSlice).
THEOREM ResumableHolds == Spec => []Resumable
<1>1. ASSUME IInv PROVE Resumable
  <2>1. TypeOK /\ RunsInv /\ BytesInv
    BY <1>1 DEF IInv
  <2>2. RowAgrees
    BY <2>1 DEF RowAgrees, BytesInv, RowHolds, Count
  <2>3. OneRunner
    BY <2>1, OneHolds DEF OneRunner, Holds
  <2>. QED
    BY <2>1, <2>2, <2>3 DEF Resumable
<1>. QED
  BY <1>1, Invariant, PTL

\* A completed export has the whole file, and one that ended leaves nothing else
\* (completeExport, deleteExportObjects, abortUpload).
THEOREM EndsCleanHolds == Spec => []EndsClean
<1>1. ASSUME IInv PROVE EndsClean
  <2>1. TypeOK /\ BytesInv /\ EndInv
    BY <1>1 DEF IInv
  <2>2. FileWhole
    BY <2>1 DEF FileWhole, BytesInv, FileHolds
  <2>3. NothingLeft
    <3>1. SUFFICES ASSUME AtRest, ~Running, ~torn
                   PROVE  /\ r2.upload # "open" /\ r2.pending = {}
                          /\ job.status # "completed" => r2.file = None
      BY DEF NothingLeft
    <3>2. Tidying
      BY <2>1, <3>1 DEF EndInv
    <3>3. /\ ~Tidier({"abort"}) /\ ~Tidier({"abort", "purge", "built"}) /\ ~Tidier({"abort", "purge", "tidy"})
          /\ \A m \in Slots : queue[m].at \notin {"put", "undo"}
      BY <3>1 DEF AtRest, Tidier, InRun
    <3>. QED
      BY <3>2, <3>3 DEF Tidying
  <2>. QED
    BY <2>2, <2>3 DEF EndsClean
<1>. QED
  BY <1>1, Invariant, PTL

=============================================================================
