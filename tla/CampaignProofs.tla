--------------------------- MODULE CampaignProofs ---------------------------
(***************************************************************************)
(* One sender for each claim of a recipient, one message for each claim    *)
(* and each lost acceptance, and nobody lost between the list, the queue,  *)
(* the provider and the books, for every list, page size, set of           *)
(* consumers, answers of the provider and bound of Campaign.tla.           *)
(***************************************************************************)
EXTENDS Campaign, FiniteSetTheorems, TLAPS

USE DEF books, mail, queues, past

JobType == [status : {"none", "running", "completed", "cancelled"}, cursor : 0..Last]

RcptType == [status : Settled \cup Claimable \cup {"none", "processing"}, attempts : 0..MaxSends]

RowType == [Sends -> {"none", "pending", "bookkeeping_pending", "failed"}]

TryType == [Sends -> Answers \cup {"none"}]

HistType == [lost : Nat, dropped : BOOLEAN, overtaken : BOOLEAN]

ActPcs == {"idle", "send", "prepared", "launched", "schedule", "cancel", "jobs", "retry",
           "requeue", "reconcile", "fire", "sweep", "refresh"}

ActType == [pc : ActPcs, seen : Statuses \cup {"none"}, todo : SUBSET Members]

Outcomes == {"suppressed", "retrying", "failed", "sent"}

\* Between the claim and the row of the answer.
Attempting == {"claimed", "written", "accepted", "transient", "permanent", "excluded"}

SendPcs == {"claimed", "written", "accepted", "transient", "permanent", "excluded",
            "suppressed", "retrying", "failed", "sent"}

\* The coordinator's part.
FanPcs == {"mark", "page", "publish", "advance", "next"}

ConPcs == SendPcs \cup FanPcs \cup {"free", "finalize", "check", "close"}

ConType == [pc : ConPcs, of : Starters \cup {"none"}, r : Members, k : Sends,
            cursor : 0..Last, seen : Statuses \cup {"none"}]

Types ==
    /\ status \in Statuses
    /\ age \in 0..(2 * Day + 1)
    /\ due \in (0 - Day)..1
    /\ job \in [Starters -> JobType]
    /\ rcpt \in [Members -> RcptType]
    /\ row \in [Members -> RowType]
    /\ try \in [Members -> TryType]
    /\ delivered \in [Members -> Nat]
    /\ hist \in [Members -> HistType]
    /\ fanq \in [Starters -> Nat]
    /\ sendq \in [Members -> Nat]
    /\ held \subseteq Members \X Sends
    /\ act \in [Starters -> ActType]
    /\ con \in [Workers -> ConType]
    /\ disturbed \in 0..MaxDisturbed

LEMMA TypesOK == Types => TypeOK
BY DEF Types, TypeOK, JobType, RcptType, RowType, TryType, HistType, ActPcs, ActType, Answers,
       SendPcs, FanPcs, ConPcs, ConType

-----------------------------------------------------------------------------
(* The inductive invariant.                                                *)

\* What a handler has read, and will write or look up.
Remembered ==
    /\ \A s \in Starters : act[s].pc \in {"send", "prepared"} => act[s].seen \in Statuses
    /\ \A c \in Workers :
         /\ con[c].pc \in FanPcs => con[c].of \in Starters
         /\ con[c].pc = "close" => con[c].seen \in Statuses
    /\ con["cron"].pc \in {"free", "sent", "finalize", "check", "close"}

\* Attempts are counted from the first claim.
Fresh == \A r \in Members :
    /\ rcpt[r].status \in {"none", "queued"} => rcpt[r].attempts = 0
    /\ rcpt[r].status # "retryable_failed"

\* While one sends to a recipient, the recipient is not claimable: only the
\* hourly pass may have recorded it, as sent.  The row of the claim is yet to
\* be written, and then its sender's until the answer is in it.
Claimed == \A c \in Consumers, r \in Members : Sending(c, r) =>
    /\ rcpt[r].status \in {"processing", "sent"}
    /\ con[c].k = rcpt[r].attempts
    /\ con[c].pc = "claimed" => row[r][con[c].k] = "none"
    /\ con[c].pc \in Answers \cup {"written"} =>
           row[r][con[c].k] = "pending" /\ try[r][con[c].k] = "none"

\* A send that is yet to be claimed has no row, and who tries a row holds it.
Rows == \A r \in Members, k \in Sends :
    /\ k > rcpt[r].attempts => row[r][k] = "none"
    /\ try[r][k] # "none" => row[r][k] = "pending"

Attempts(c, r, k) == con[c].r = r /\ con[c].k = k /\ con[c].pc \in Attempting

\* A claim that delivers no more: its row, if any, waits for the bookkeeping.
Done(r, k) ==
    /\ k <= rcpt[r].attempts
    /\ row[r][k] \in {"bookkeeping_pending", "none"}
    /\ \A c \in Consumers : ~Attempts(c, r, k)

\* What the hourly pass has listed, or a worker is recording, delivers no more.
Listed ==
    /\ \A r \in Members, k \in Sends : <<r, k>> \in held => Done(r, k)
    /\ \A w \in Workers : con[w].pc \in {"sent", "finalize"} => Done(con[w].r, con[w].k)

\* An acceptance in hand, not yet in the row.
Accepts(r, k) ==
    \/ try[r][k] = "accepted"
    \/ \E c \in Consumers : con[c].r = r /\ con[c].k = k /\ con[c].pc = "accepted"

\* The claims of r that delivered their message, or will deliver none.
Spent(r) == {k \in 1..rcpt[r].attempts : Done(r, k) \/ Accepts(r, k)}

\* A message is one of theirs, or its acceptance was lost.
Delivered == \A r \in Members : delivered[r] <= Cardinality(Spent(r)) + hist[r].lost

SendInv == OneSender /\ Fresh /\ Claimed /\ Rows /\ Listed /\ Delivered

IInv == Types /\ Remembered /\ SendInv

-----------------------------------------------------------------------------
(* Types.                                                                  *)

LEMMA Bounds ==
    /\ Last \in Nat \ {0} /\ PageSize \in Nat \ {0} /\ Day \in Nat \ {0}
    /\ MaxSends \in Nat \ {0} /\ MaxDisturbed \in Nat
    /\ "cron" \in Workers /\ "cron" \notin Consumers
    /\ Consumers \subseteq Workers
    /\ "cron" \in Starters /\ "admin" \in Starters
    /\ Members \subseteq Nat \ {0} /\ 1 \in Members
    /\ Sends \subseteq Nat \ {0} /\ 1 \in Sends
BY CampaignAssumption DEF Workers, Starters, Members, Sends

LEMMA Blanks ==
    /\ Free \in ConType
    /\ Idle \in ActType /\ [Idle EXCEPT !.pc = "sweep"] \in ActType
    /\ [Idle EXCEPT !.pc = "reconcile"] \in ActType
BY Bounds DEF Free, Idle, ConType, ConPcs, SendPcs, FanPcs, ActType, ActPcs

LEMMA StatusMoves ==
    ASSUME Types, NEW s \in Statuses, Becomes(s)
    PROVE  status' \in Statuses /\ age' \in 0..(2 * Day + 1)
BY Bounds DEF Types, Becomes

LEMMA ActMoves ==
    ASSUME Types, NEW s \in Starters
    PROVE  /\ \A pc \in ActPcs : Goes(s, pc) => act' \in [Starters -> ActType]
           /\ Ends(s) => act' \in [Starters -> ActType]
<1>1. act \in [Starters -> ActType]
  BY DEF Types
<1>2. \A pc \in ActPcs : [act[s] EXCEPT !.pc = pc] \in ActType
  BY <1>1 DEF ActType
<1>3. \A pc \in ActPcs : Goes(s, pc) => act' \in [Starters -> ActType]
  BY <1>1, <1>2 DEF Goes
<1>4. Ends(s) => act' \in [Starters -> ActType]
  BY <1>1, Blanks DEF Ends
<1>. QED
  BY <1>3, <1>4

LEMMA ConMoves ==
    ASSUME Types, NEW c \in Workers
    PROVE  /\ con' = [con EXCEPT ![c] = Free] => con' \in [Workers -> ConType]
           /\ \A pc \in ConPcs :
                 con' = [con EXCEPT ![c] = [@ EXCEPT !.pc = pc]] => con' \in [Workers -> ConType]
<1>1. con \in [Workers -> ConType]
  BY DEF Types
<1>2. \A pc \in ConPcs : [con[c] EXCEPT !.pc = pc] \in ConType
  BY <1>1 DEF ConType
<1>. QED
  BY <1>1, <1>2, Blanks

LEMMA RowMoves ==
    ASSUME Types, NEW r \in Members, NEW k \in Sends,
           NEW s \in {"none", "pending", "bookkeeping_pending", "failed"}, SetRow(r, k, s)
    PROVE  row' \in [Members -> RowType]
<1>1. row[r] \in RowType
  BY DEF Types
<1>2. [row[r] EXCEPT ![k] = s] \in RowType
  BY <1>1 DEF RowType
<1>. QED
  BY <1>2 DEF SetRow, Types

LEMMA TryMoves ==
    ASSUME Types, NEW r \in Members, NEW k \in Sends,
           NEW s \in Answers \cup {"none"}, SetTry(r, k, s)
    PROVE  try' \in [Members -> TryType]
<1>1. try[r] \in TryType
  BY DEF Types
<1>2. [try[r] EXCEPT ![k] = s] \in TryType
  BY <1>1 DEF TryType
<1>. QED
  BY <1>2 DEF SetTry, Types

LEMMA HistMoves ==
    ASSUME Types, NEW r \in Members
    PROVE  /\ hist[r] \in HistType /\ hist[r].lost \in Nat
           /\ hist[r].dropped \in BOOLEAN /\ hist[r].overtaken \in BOOLEAN
           /\ [hist[r] EXCEPT !.lost = @ + 1] \in HistType
           /\ \A b \in BOOLEAN : /\ [hist[r] EXCEPT !.dropped = b] \in HistType
                                 /\ [hist[r] EXCEPT !.overtaken = b] \in HistType
<1>1. hist[r] \in HistType
  BY DEF Types
<1>. QED
  BY <1>1 DEF HistType

\* A call of the provider.
LEMMA AnswerMoves ==
    ASSUME Types, NEW r \in Members, NEW ans \in Answers, Answer(r, ans)
    PROVE  /\ delivered' \in [Members -> Nat] /\ hist' \in [Members -> HistType]
           /\ disturbed' \in 0..MaxDisturbed
           /\ \A q \in Members \ {r} : delivered'[q] = delivered[q] /\ hist'[q] = hist[q]
           /\ hist'[r].overtaken = hist[r].overtaken /\ hist'[r].dropped = hist[r].dropped
           /\ \/ /\ ans = "accepted"
                 /\ delivered'[r] = delivered[r] + 1 /\ hist'[r].lost = hist[r].lost
              \/ /\ ans # "accepted"
                 /\ delivered'[r] = delivered[r] /\ hist'[r].lost = hist[r].lost
              \/ /\ ans # "accepted"
                 /\ delivered'[r] = delivered[r] + 1 /\ hist'[r].lost = hist[r].lost + 1
<1>0. /\ delivered \in [Members -> Nat] /\ hist \in [Members -> HistType]
      /\ disturbed \in 0..MaxDisturbed /\ MaxDisturbed \in Nat
  BY Bounds DEF Types
<1>1. CASE /\ delivered' = [delivered EXCEPT ![r] = IF ans = "accepted" THEN @ + 1 ELSE @]
           /\ UNCHANGED past
  BY <1>0, <1>1
<1>2. CASE /\ ans = "transient"
           /\ Disturbs
           /\ delivered' = [delivered EXCEPT ![r] = @ + 1]
           /\ hist' = [hist EXCEPT ![r].lost = @ + 1]
  <2>1. hist'[r] = [hist[r] EXCEPT !.lost = @ + 1]
    BY <1>0, <1>2
  <2>2. hist[r] \in HistType /\ [hist[r] EXCEPT !.lost = @ + 1] \in HistType
    BY HistMoves
  <2>3. hist' \in [Members -> HistType]
    BY <1>0, <1>2, <2>2
  <2>4. /\ hist'[r].lost = hist[r].lost + 1 /\ hist'[r].overtaken = hist[r].overtaken
        /\ hist'[r].dropped = hist[r].dropped
    BY <2>1, <2>2 DEF HistType
  <2>5. disturbed' \in 0..MaxDisturbed
    BY <1>0, <1>2 DEF Disturbs
  <2>. QED
    BY <1>0, <1>2, <2>3, <2>4, <2>5
<1>. QED
  BY <1>1, <1>2 DEF Answer

LEMMA RcptMoves ==
    ASSUME Types, NEW r \in Members, NEW s \in Settled \cup {"retrying"}, SetRcpt(r, s)
    PROVE  rcpt' \in [Members -> RcptType]
<1>1. [rcpt[r] EXCEPT !.status = s] \in RcptType
  BY DEF Types, RcptType, Settled, Claimable
<1>. QED
  BY <1>1 DEF SetRcpt, Types

LEMMA TypesInit == Init => Types
BY Bounds, Blanks DEF Init, Types, Statuses, JobType, RcptType, RowType, TryType, HistType

-----------------------------------------------------------------------------

LEMMA TypesRoutes == ASSUME Types, Remembered, Routes PROVE Types'
<1>1. ASSUME NEW op \in Ops, Request(op) PROVE Types'
  <2>1. op \in ActPcs
    BY CampaignAssumption DEF ActPcs
  <2>2. [pc |-> op, seen |-> "none", todo |->
           IF op = "retry" THEN {r \in Members : rcpt[r].status \in Claimable} ELSE {}] \in ActType
    BY <2>1 DEF ActType
  <2>3. act' \in [Starters -> ActType]
    BY <1>1, <2>2 DEF Request, Types
  <2>4. disturbed' \in 0..MaxDisturbed
    BY <1>1, Bounds DEF Request, Disturbs, Types
  <2>. QED
    BY <1>1, <2>3, <2>4 DEF Request, Types
<1>2. CASE Schedule
  <2>1. act' \in [Starters -> ActType]
    BY <1>2, Bounds, ActMoves DEF Schedule
  <2>2. status' \in Statuses /\ age' \in 0..(2 * Day + 1)
    BY <1>2, StatusMoves DEF Schedule, Statuses
  <2>. QED
    BY <1>2, <2>1, <2>2, Bounds DEF Schedule, Types
<1>3. CASE Cancel
  <2>1. act' \in [Starters -> ActType]
    BY <1>3, Bounds, ActMoves DEF Cancel, ActPcs
  <2>2. status' \in Statuses /\ age' \in 0..(2 * Day + 1)
    BY <1>3, StatusMoves DEF Cancel, Statuses
  <2>. QED
    BY <1>3, <2>1, <2>2 DEF Cancel, Types
<1>4. CASE CancelJobs
  <2>1. act' \in [Starters -> ActType]
    BY <1>4, Bounds, ActMoves DEF CancelJobs
  <2>2. \A s \in Starters : [job[s] EXCEPT !.status = "cancelled"] \in JobType
    BY DEF Types, JobType
  <2>3. job' \in [Starters -> JobType]
    BY <1>4, <2>2 DEF CancelJobs, Types
  <2>. QED
    BY <1>4, <2>1, <2>3 DEF CancelJobs, Types
<1>5. CASE Retry
  <2>1. act' \in [Starters -> ActType]
    BY <1>5, Bounds, ActMoves DEF Retry, ActPcs
  <2>2. status' \in Statuses /\ age' \in 0..(2 * Day + 1)
    BY <1>5, StatusMoves DEF Retry, Statuses, Open, Types
  <2>. QED
    BY <1>5, <2>1, <2>2 DEF Retry, Types
<1>6. CASE Requeue
  <2>1. act' \in [Starters -> ActType]
    BY <1>6, Bounds, ActMoves DEF Requeue
  <2>2. sendq' \in [Members -> Nat]
    BY <1>6 DEF Requeue, Types
  <2>3. hist' \in [Members -> HistType]
    BY <1>6, HistMoves DEF Requeue
  <2>. QED
    BY <1>6, <2>1, <2>2, <2>3 DEF Requeue, Types
<1>. QED
  BY <1>1, <1>2, <1>3, <1>4, <1>5, <1>6 DEF Routes

LEMMA TypesStart ==
    ASSUME Types, Remembered, NEW s \in Starters, Start(s) \/ Abort(s)
    PROVE  Types'
<1>1. CASE Begin(s)
  <2>1. [pc |-> "send", seen |-> status, todo |-> {}] \in ActType
    BY DEF ActType, ActPcs, Types
  <2>2. act' \in [Starters -> ActType]
    BY <1>1, <2>1 DEF Begin, Types
  <2>. QED
    BY <1>1, <2>2 DEF Begin, Types
<1>2. CASE Prepare(s)
  <2>1. act' \in [Starters -> ActType]
    BY <1>2, ActMoves DEF Prepare, ActPcs
  <2>2. status' \in Statuses /\ age' \in 0..(2 * Day + 1)
    BY <1>2, StatusMoves DEF Prepare, Statuses, Open
  <2>. QED
    BY <1>2, <2>1, <2>2 DEF Prepare, Types
<1>3. CASE Launch(s)
  <2>1. act' \in [Starters -> ActType]
    BY <1>3, ActMoves DEF Launch, ActPcs
  <2>2. act[s].seen \in Statuses /\ status \in Statuses
    BY <1>3 DEF Launch, Remembered, Types
  <2>3. status' \in Statuses /\ age' \in 0..(2 * Day + 1)
    BY <1>3, <2>2, StatusMoves DEF Launch
  <2>4. [status |-> "running", cursor |-> 0] \in JobType
    BY Bounds DEF JobType
  <2>5. job' \in [Starters -> JobType]
    BY <1>3, <2>4 DEF Launch, Types
  <2>. QED
    BY <1>3, <2>1, <2>3, <2>5 DEF Launch, Types
<1>5. CASE Announce(s)
  <2>1. act' \in [Starters -> ActType]
    BY <1>5, ActMoves DEF Announce
  <2>2. fanq' \in [Starters -> Nat]
    BY <1>5 DEF Announce, Types
  <2>. QED
    BY <1>5, <2>1, <2>2 DEF Announce, Types
<1>4. CASE Abort(s)
  <2>1. act' \in [Starters -> ActType]
    BY <1>4, Blanks DEF Abort, Types
  <2>2. con' \in [Workers -> ConType] /\ held' \subseteq Members \X Sends
    BY <1>4, Blanks DEF Abort, Types
  <2>3. disturbed' \in 0..MaxDisturbed
    BY <1>4, Bounds DEF Abort, Disturbs, Types
  <2>. QED
    BY <1>4, <2>1, <2>2, <2>3 DEF Abort, Types
<1>. QED
  BY <1>1, <1>2, <1>3, <1>4, <1>5 DEF Start

LEMMA TypesFanOut ==
    ASSUME Types, Remembered, NEW c \in Consumers, FanOut(c)
    PROVE  Types'
<1>0. c \in Workers /\ con \in [Workers -> ConType] /\ job \in [Starters -> JobType]
  BY Bounds DEF Types
<1>1. ASSUME NEW s \in Starters, TakeFanOut(c, s) PROVE Types'
  <2>1. job[s].cursor \in 0..Last
    BY <1>0 DEF JobType
  <2>2. [Free EXCEPT !.pc = IF status = "preparing" THEN "mark" ELSE "page",
                     !.of = s, !.cursor = job[s].cursor] \in ConType
    BY <2>1, Blanks DEF ConType, ConPcs, SendPcs, FanPcs
  <2>3. con' \in [Workers -> ConType]
    BY <1>0, <1>1, <2>2 DEF TakeFanOut
  <2>4. fanq' \in [Starters -> Nat]
    BY <1>1 DEF TakeFanOut, Types
  <2>. QED
    BY <1>1, <2>3, <2>4 DEF TakeFanOut, Types
<1>2. CASE MarkSending(c)
  <2>1. con' \in [Workers -> ConType]
    BY <1>0, <1>2, ConMoves DEF MarkSending, ConPcs, SendPcs, FanPcs
  <2>2. status' \in Statuses /\ age' \in 0..(2 * Day + 1)
    BY <1>2, StatusMoves DEF MarkSending, Statuses, Open
  <2>. QED
    BY <1>2, <2>1, <2>2 DEF MarkSending, Types
<1>3. CASE InsertPage(c)
  <2>1. con' \in [Workers -> ConType]
    BY <1>0, <1>3, ConMoves DEF InsertPage, AfterInsert, ConPcs, SendPcs, FanPcs
  <2>2. [status |-> "queued", attempts |-> 0] \in RcptType
    BY Bounds DEF RcptType, Claimable
  <2>3. rcpt' \in [Members -> RcptType]
    BY <1>3, <2>2 DEF InsertPage, Types
  <2>. QED
    BY <1>3, <2>1, <2>3 DEF InsertPage, Types
<1>4. CASE PublishPage(c)
  <2>1. con' \in [Workers -> ConType]
    BY <1>0, <1>4, ConMoves DEF PublishPage, ConPcs, SendPcs, FanPcs
  <2>2. sendq' \in [Members -> Nat]
    BY <1>4 DEF PublishPage, Types
  <2>. QED
    BY <1>4, <2>1, <2>2 DEF PublishPage, Types
<1>5. CASE AdvanceCursor(c)
  <2>1. con' \in [Workers -> ConType]
    <3>1. [con[c] EXCEPT !.pc = "next"] \in ConType
      BY <1>0 DEF ConType, ConPcs, FanPcs
    <3>. QED
      BY <1>0, <1>5, <3>1 DEF AdvanceCursor
  <2>2. con[c].of \in Starters
    BY <1>0, <1>5 DEF AdvanceCursor, Remembered, FanPcs
  <2>3. (IF con[c].cursor + PageSize > Last THEN Last ELSE con[c].cursor + PageSize) \in 0..Last
    <3>1. con[c].cursor \in 0..Last
      BY <1>0 DEF ConType
    <3>. QED
      BY <3>1, Bounds
  <2>4. [job[con[c].of] EXCEPT !.cursor =
           IF con[c].cursor + PageSize > Last THEN Last ELSE con[c].cursor + PageSize] \in JobType
    BY <1>0, <2>2, <2>3 DEF JobType
  <2>5. job' \in [Starters -> JobType]
    BY <1>0, <1>5, <2>2, <2>4 DEF AdvanceCursor
  <2>. QED
    BY <1>5, <2>1, <2>5 DEF AdvanceCursor, Types
<1>6. CASE NextPage(c)
  <2>1. con' \in [Workers -> ConType]
    <3>1. [con[c] EXCEPT !.pc = "check"] \in ConType
      BY <1>0 DEF ConType, ConPcs
    <3>2. con' = [con EXCEPT ![c] = [con[c] EXCEPT !.pc = "check"]] \/ con' = [con EXCEPT ![c] = Free]
      BY <1>6 DEF NextPage
    <3>. QED
      BY <1>0, <3>1, <3>2, Blanks
  <2>2. con[c].of \in Starters
    BY <1>0, <1>6 DEF NextPage, Remembered, FanPcs
  <2>3. [job[con[c].of] EXCEPT !.status = "completed"] \in JobType
    BY <1>0, <2>2 DEF JobType
  <2>4. job' \in [Starters -> JobType] /\ fanq' \in [Starters -> Nat]
    BY <1>0, <1>6, <2>2, <2>3 DEF NextPage, Types
  <2>. QED
    BY <1>6, <2>1, <2>4 DEF NextPage, Types
<1>. QED
  BY <1>1, <1>2, <1>3, <1>4, <1>5, <1>6 DEF FanOut

LEMMA TypesSend ==
    ASSUME Types, Remembered, Fresh, NEW c \in Consumers, SendOne(c)
    PROVE  Types'
<1>0. /\ c \in Workers /\ con \in [Workers -> ConType]
      /\ con[c].r \in Members /\ con[c].k \in Sends
  BY Bounds DEF Types, ConType
<1>1. ASSUME NEW r \in Members, Claim(c, r) PROVE Types'
  <2>1. sendq' \in [Members -> Nat]
    BY <1>1 DEF Claim, Types
  <2>2. CASE Claims(r)
    <3>1. rcpt[r].attempts + 1 \in Sends
      <4>1. rcpt[r].attempts \in 0..MaxSends
        BY DEF Types, RcptType
      <4>2. rcpt[r].attempts < MaxSends
        BY <1>1, <2>2, <4>1, Bounds DEF Claim, Claims, Claimable, Fresh
      <4>. QED
        BY <4>1, <4>2, Bounds DEF Sends
    <3>2. [status |-> "processing", attempts |-> rcpt[r].attempts + 1] \in RcptType
      BY <3>1, Bounds DEF RcptType, Sends
    <3>3. rcpt' \in [Members -> RcptType]
      BY <1>1, <2>2, <3>2 DEF Claim, Types
    <3>4. [Free EXCEPT !.pc = "claimed", !.r = r, !.k = rcpt[r].attempts + 1] \in ConType
      BY <3>1, Blanks DEF ConType, ConPcs, SendPcs, FanPcs
    <3>5. con' \in [Workers -> ConType]
      BY <1>0, <1>1, <2>2, <3>4 DEF Claim
    <3>. QED
      BY <1>1, <2>1, <3>3, <3>5 DEF Claim, Types
  <2>3. CASE ~Claims(r)
    BY <1>1, <2>1, <2>3 DEF Claim, Types
  <2>. QED
    BY <2>2, <2>3
<1>2. CASE WriteAhead(c)
  <2>1. con' \in [Workers -> ConType]
    BY <1>0, <1>2, ConMoves DEF WriteAhead, At, ConPcs, SendPcs
  <2>2. row' \in [Members -> RowType]
    BY <1>0, <1>2, RowMoves DEF WriteAhead
  <2>. QED
    BY <1>2, <2>1, <2>2 DEF WriteAhead, Types
<1>3. CASE Call(c)
  <2>1. PICK ans \in Answers : Answer(con[c].r, ans) /\ At(c, ans)
    BY <1>3, CampaignAssumption DEF Call
  <2>2. ans \in ConPcs
    BY DEF Answers, ConPcs, SendPcs
  <2>3. con' \in [Workers -> ConType]
    BY <1>0, <2>1, <2>2, ConMoves DEF At
  <2>4. /\ delivered' \in [Members -> Nat] /\ hist' \in [Members -> HistType]
        /\ disturbed' \in 0..MaxDisturbed
    BY <1>0, <2>1, AnswerMoves
  <2>. QED
    BY <1>3, <2>3, <2>4 DEF Call, Types
<1>4. CASE Resolve(c)
  <2>1. con' \in [Workers -> ConType]
    <3>1. OutcomeOf(con[c].pc) \in ConPcs
      BY DEF OutcomeOf, ConPcs, SendPcs
    <3>. QED
      BY <1>0, <1>4, <3>1, ConMoves DEF Resolve, At
  <2>2. row' \in [Members -> RowType]
    <3>1. RowOf(con[c].pc) \in {"none", "pending", "bookkeeping_pending", "failed"}
      BY DEF RowOf
    <3>. QED
      BY <1>0, <1>4, <3>1, RowMoves DEF Resolve
  <2>. QED
    BY <1>4, <2>1, <2>2 DEF Resolve, Types
<1>. QED
  BY <1>1, <1>2, <1>3, <1>4 DEF SendOne

\* Consumers that stop.
LEMMA TypesStop ==
    ASSUME Types, NEW c \in Consumers, Die(c) \/ Throw(c)
    PROVE  Types'
<1>0. /\ c \in Workers /\ con[c].r \in Members /\ con[c].k \in Sends
      /\ con[c].of \in Starters \cup {"none"}
  BY Bounds DEF Types, ConType
<1>1. con' \in [Workers -> ConType]
  BY <1>0, ConMoves DEF Die, Throw
<1>2. disturbed' \in 0..MaxDisturbed
  BY Bounds DEF Die, Throw, Disturbs, Types
<1>3. sendq' \in [Members -> Nat] /\ fanq' \in [Starters -> Nat]
  BY <1>0 DEF Die, Throw, Returned, Types
<1>4. CASE Die(c)
  <2>1. [hist[con[c].r] EXCEPT !.lost = IF con[c].pc = "accepted" THEN @ + 1 ELSE @] \in HistType
    BY <1>0, HistMoves DEF HistType
  <2>2. hist' \in [Members -> HistType]
    BY <1>4, <2>1 DEF Die, Types
  <2>. QED
    BY <1>1, <1>2, <1>3, <1>4, <2>2 DEF Die, Types
<1>5. CASE Throw(c)
  <2>1. row' \in [Members -> RowType]
    BY <1>0, <1>5, RowMoves DEF Throw
  <2>. QED
    BY <1>1, <1>2, <1>3, <1>5, <2>1 DEF Throw, Types
<1>. QED
  BY <1>4, <1>5

LEMMA TypesBookkeep ==
    ASSUME Types, Remembered, NEW c \in Workers, Bookkeep(c)
    PROVE  Types'
<1>0. con \in [Workers -> ConType] /\ con[c].r \in Members /\ con[c].k \in Sends
  BY DEF Types, ConType
<1>1. CASE Settle(c)
  <2>1. con' \in [Workers -> ConType]
    BY <1>0, <1>1, ConMoves DEF Settle, ConPcs, SendPcs, FanPcs
  <2>2. Recorded(con[c].pc) \in Settled \cup {"retrying"}
    BY <1>1 DEF Settle, Recorded, Settled
  <2>3. rcpt' \in [Members -> RcptType]
    BY <1>0, <1>1, <2>2, RcptMoves DEF Settle
  <2>. QED
    BY <1>1, <2>1, <2>3 DEF Settle, Types
<1>2. CASE Finalize(c)
  <2>1. con' \in [Workers -> ConType]
    BY <1>0, <1>2, ConMoves DEF At, Finalize, ConPcs, SendPcs, FanPcs
  <2>2. row' \in [Members -> RowType]
    BY <1>0, <1>2, RowMoves DEF Finalize
  <2>. QED
    BY <1>2, <2>1, <2>2 DEF Finalize, Types
<1>3. CASE Check(c)
  <2>1. [con[c] EXCEPT !.pc = "close", !.seen = Outcome] \in ConType
    BY <1>0 DEF ConType, ConPcs, SendPcs, FanPcs, Outcome, Statuses, Closed
  <2>2. con' \in [Workers -> ConType]
    BY <1>0, <1>3, <2>1, Blanks DEF Check
  <2>. QED
    BY <1>3, <2>2 DEF Check, Types
<1>4. CASE Close(c)
  <2>1. con' \in [Workers -> ConType]
    BY <1>0, <1>4, ConMoves DEF Close
  <2>2. con[c].seen \in Statuses
    BY <1>4 DEF Close, Remembered
  <2>3. status' \in Statuses /\ age' \in 0..(2 * Day + 1)
    BY <1>4, <2>2, StatusMoves DEF Close, Types
  <2>. QED
    BY <1>4, <2>1, <2>3 DEF Close, Types
<1>. QED
  BY <1>1, <1>2, <1>3, <1>4 DEF Bookkeep

LEMMA TypesRow ==
    ASSUME Types, NEW r \in Members, NEW k \in Sends, RowStep(r, k)
    PROVE  Types'
<1>1. CASE OutboxTry(r, k)
  <2>1. PICK ans \in Answers : Answer(r, ans) /\ SetTry(r, k, ans)
    BY <1>1, CampaignAssumption DEF OutboxTry
  <2>2. try' \in [Members -> TryType]
    BY <2>1, TryMoves
  <2>3. /\ delivered' \in [Members -> Nat] /\ hist' \in [Members -> HistType]
        /\ disturbed' \in 0..MaxDisturbed
    BY <2>1, AnswerMoves
  <2>. QED
    BY <1>1, <2>2, <2>3 DEF OutboxTry, Types
<1>2. CASE OutboxWrite(r, k)
  <2>1. row' \in [Members -> RowType]
    <3>1. RowOf(try[r][k]) \in {"none", "pending", "bookkeeping_pending", "failed"}
      BY DEF RowOf
    <3>. QED
      BY <1>2, <3>1, RowMoves DEF OutboxWrite
  <2>2. try' \in [Members -> TryType]
    BY <1>2, TryMoves DEF OutboxWrite
  <2>. QED
    BY <1>2, <2>1, <2>2 DEF OutboxWrite, Types
<1>3. CASE OutboxDie(r, k)
  <2>1. try' \in [Members -> TryType]
    BY <1>3, TryMoves DEF OutboxDie
  <2>2. [hist[r] EXCEPT !.lost = IF try[r][k] = "accepted" THEN @ + 1 ELSE @] \in HistType
    BY HistMoves DEF HistType
  <2>3. hist' \in [Members -> HistType]
    BY <1>3, <2>2 DEF OutboxDie, Types
  <2>4. disturbed' \in 0..MaxDisturbed
    BY <1>3, Bounds DEF OutboxDie, Disturbs, Types
  <2>. QED
    BY <1>3, <2>1, <2>3, <2>4 DEF OutboxDie, Types
<1>4. CASE CancelRow(r, k)
  <2>1. row' \in [Members -> RowType]
    BY <1>4, RowMoves DEF CancelRow
  <2>. QED
    BY <1>4, <2>1 DEF CancelRow, Types
<1>5. CASE ReviveRow(r, k)
  <2>1. row' \in [Members -> RowType]
    BY <1>5, RowMoves DEF ReviveRow
  <2>2. \A b \in BOOLEAN : [hist[r] EXCEPT !.overtaken = @ \/ b] \in HistType
    BY HistMoves DEF HistType
  <2>3. hist' \in [Members -> HistType]
    BY <1>5, <2>2 DEF ReviveRow, Types
  <2>. QED
    BY <1>5, <2>1, <2>3 DEF ReviveRow, Types
<1>. QED
  BY <1>1, <1>2, <1>3, <1>4, <1>5 DEF RowStep

LEMMA TypesPass ==
    ASSUME Types, Pass \/ RowFails \/ Hour \/ Duplicate \/ \E r \in Members : GiveUp(r)
    PROVE  Types'
<1>1. ASSUME NEW r \in Members, NEW k \in Sends, Reconcile(r, k) PROVE Types'
  <2>1. [Free EXCEPT !.pc = "sent", !.r = r, !.k = k] \in ConType
    BY Blanks DEF ConType, ConPcs, SendPcs
  <2>2. con' \in [Workers -> ConType]
    BY <1>1, <2>1, Bounds DEF Reconcile, Types
  <2>3. row' \in [Members -> RowType]
    BY <1>1, RowMoves DEF Reconcile, Types
  <2>4. held' \subseteq Members \X Sends
    BY <1>1 DEF Reconcile, Types
  <2>. QED
    BY <1>1, <2>2, <2>3, <2>4 DEF Reconcile, Types
<1>2. CASE Reconciled
  <2>1. act' \in [Starters -> ActType]
    BY <1>2, Bounds, ActMoves DEF Reconciled, ActPcs
  <2>. QED
    BY <1>2, <2>1 DEF Reconciled, Types
<1>3. CASE Sweep
  <2>1. act' \in [Starters -> ActType]
    BY <1>3, Bounds, ActMoves DEF Sweep, ActPcs
  <2>2. status' \in Statuses /\ age' \in 0..(2 * Day + 1)
    BY <1>3, StatusMoves DEF Sweep, Statuses, Types
  <2>. QED
    BY <1>3, <2>1, <2>2 DEF Sweep, Types
<1>4. CASE Refresh
  <2>1. act' \in [Starters -> ActType]
    BY <1>4, Bounds, ActMoves DEF Refresh, ActPcs
  <2>2. age' \in 0..(2 * Day + 1)
    BY <1>4, Bounds DEF Refresh, Types
  <2>. QED
    BY <1>4, <2>1, <2>2 DEF Refresh, Types
<1>5. CASE Hour
  <2>1. age' \in 0..(2 * Day + 1) /\ due' \in (0 - Day)..1
    BY <1>5, Bounds DEF Hour, Types
  <2>2. act' \in [Starters -> ActType] /\ held' \subseteq Members \X Sends
    BY <1>5, Blanks DEF Hour, Types, Held
  <2>. QED
    BY <1>5, <2>1, <2>2 DEF Hour, Types
<1>6. CASE Duplicate
  <2>1. sendq' \in [Members -> Nat] /\ fanq' \in [Starters -> Nat]
    BY <1>6 DEF Duplicate, Types
  <2>2. disturbed' \in 0..MaxDisturbed
    BY <1>6, Bounds DEF Duplicate, Disturbs, Types
  <2>. QED
    BY <1>6, <2>1, <2>2 DEF Duplicate, Types
<1>7. CASE RowFails
  <2>1. con' \in [Workers -> ConType]
    BY <1>7, Blanks DEF RowFails, Types
  <2>2. disturbed' \in 0..MaxDisturbed
    BY <1>7, Bounds DEF RowFails, Disturbs, Types
  <2>. QED
    BY <1>7, <2>1, <2>2 DEF RowFails, Types
<1>8. ASSUME NEW r \in Members, GiveUp(r) PROVE Types'
  <2>1. sendq' \in [Members -> Nat] /\ disturbed' \in 0..MaxDisturbed
    BY <1>8, Bounds DEF GiveUp, Disturbs, Types
  <2>2. hist' \in [Members -> HistType]
    BY <1>8, HistMoves DEF GiveUp, Types
  <2>. QED
    BY <1>8, <2>1, <2>2 DEF GiveUp, Types
<1>. QED
  BY <1>1, <1>2, <1>3, <1>4, <1>5, <1>6, <1>7, <1>8 DEF Pass

LEMMA TypesStep ==
    ASSUME Types, Remembered, Fresh, Next
    PROVE  Types'
BY TypesRoutes, TypesStart, TypesFanOut, TypesSend, TypesStop, TypesBookkeep, TypesRow, TypesPass
DEF Next

-----------------------------------------------------------------------------
(* What is remembered.                                                     *)

LEMMA RememberedInit == Init => Remembered
BY Bounds DEF Init, Remembered, Idle, Free, FanPcs

\* Nothing about consumers changes, and of handlers no more than their places.
LEMMA RememberedAct ==
    ASSUME Types, Remembered, con' = con,
           \A s \in Starters : \/ act'[s] = act[s]
                               \/ act'[s].pc \notin {"send", "prepared"}
                               \/ act'[s].seen \in Statuses
    PROVE  Remembered'
BY DEF Remembered

LEMMA RememberedStep ==
    ASSUME Types, Remembered, Fresh, Next
    PROVE  Remembered'
<1>0. /\ con \in [Workers -> ConType] /\ act \in [Starters -> ActType]
      /\ "cron" \in Workers /\ "cron" \notin Consumers /\ Consumers \subseteq Workers
      /\ "admin" \in Starters /\ "cron" \in Starters /\ status \in Statuses
  BY Bounds DEF Types
<1>1. CASE Routes
  <2>1. \A op \in Ops : op \notin {"send", "prepared"}
    BY CampaignAssumption
  <2>2. con' = con
    BY <1>1 DEF Routes, Request, Schedule, Cancel, CancelJobs, Retry, Requeue
  <2>3. \A s \in Starters : act'[s] = act[s] \/ act'[s].pc \notin {"send", "prepared"}
    BY <1>0, <1>1, <2>1
    DEF Routes, Request, Schedule, Cancel, CancelJobs, Retry, Requeue, Goes, Ends, Idle, ActType
  <2>. QED
    BY <2>2, <2>3, RememberedAct
<1>2. ASSUME NEW s \in Starters, Start(s) PROVE Remembered'
  <2>1. con' = con
    BY <1>2 DEF Start, Begin, Prepare, Launch, Announce
  <2>2. act[s].pc = "send" => act[s].seen \in Statuses
    BY DEF Remembered
  <2>3. \A t \in Starters : \/ act'[t] = act[t]
                            \/ act'[t].pc \notin {"send", "prepared"}
                            \/ act'[t].seen \in Statuses
    BY <1>0, <1>2, <2>2 DEF Start, Begin, Prepare, Launch, Announce, Goes, Ends, Idle, ActType
  <2>. QED
    BY <2>1, <2>3, RememberedAct
<1>3. ASSUME NEW s \in Starters, Abort(s) PROVE Remembered'
  BY <1>0, <1>3 DEF Abort, Remembered, Idle, Free, FanPcs
<1>4. ASSUME NEW c \in Consumers, FanOut(c) PROVE Remembered'
  <2>1. ASSUME NEW s \in Starters, TakeFanOut(c, s) PROVE Remembered'
    BY <1>0, <2>1 DEF TakeFanOut, Remembered, Free, FanPcs
  <2>2. CASE MarkSending(c) \/ InsertPage(c) \/ PublishPage(c) \/ AdvanceCursor(c) \/ NextPage(c)
    BY <1>0, <2>2 DEF MarkSending, InsertPage, AfterInsert, PublishPage, AdvanceCursor,
                      NextPage, Remembered, Free, ConType, FanPcs
  <2>. QED
    BY <1>4, <2>1, <2>2 DEF FanOut
<1>5. ASSUME NEW c \in Consumers, SendOne(c) \/ Die(c) \/ Throw(c) PROVE Remembered'
  <2>1. ASSUME NEW r \in Members, Claim(c, r) PROVE Remembered'
    BY <1>0, <2>1 DEF Claim, Remembered, Free, FanPcs
  <2>2. ASSUME NEW pc, At(c, pc), pc \notin FanPcs \cup {"close"}, act' = act PROVE Remembered'
    BY <1>0, <2>2 DEF At, Remembered, ConType
  <2>3. CASE WriteAhead(c)
    BY <2>2, <2>3 DEF WriteAhead, FanPcs
  <2>4. CASE Call(c)
    <3>1. PICK ans \in Answers : At(c, ans) /\ act' = act
      BY <2>4, CampaignAssumption DEF Call
    <3>. QED
      BY <2>2, <3>1 DEF Answers, FanPcs
  <2>5. CASE Resolve(c)
    <3>1. OutcomeOf(con[c].pc) \notin FanPcs \cup {"close"}
      BY DEF OutcomeOf, FanPcs
    <3>. QED
      BY <2>2, <2>5, <3>1 DEF Resolve
  <2>6. CASE Die(c) \/ Throw(c)
    BY <1>0, <2>6 DEF Die, Throw, Remembered, Free, FanPcs
  <2>. QED
    BY <1>5, <2>1, <2>3, <2>4, <2>5, <2>6 DEF SendOne
<1>6. ASSUME NEW c \in Workers, Bookkeep(c) PROVE Remembered'
  <2>1. Outcome \in Statuses
    BY DEF Outcome, Statuses, Closed
  <2>2. CASE Settle(c)
    <3>1. c = "cron" => con[c].pc = "sent"
      BY <2>2 DEF Settle, Remembered
    <3>. QED
      BY <1>0, <2>2, <3>1 DEF Settle, Remembered, Free, ConType, FanPcs
  <2>3. CASE Finalize(c)
    BY <1>0, <2>3 DEF Finalize, At, Remembered, ConType, FanPcs
  <2>4. CASE Check(c)
    <3>1. PICK s \in Starters :
            con' = [con EXCEPT ![c] = IF job[s].status = "completed" /\ Outstanding = {}
                                      THEN [con[c] EXCEPT !.pc = "close", !.seen = Outcome]
                                      ELSE Free]
      BY <2>4 DEF Check
    <3>. QED
      BY <1>0, <2>1, <2>4, <3>1 DEF Check, Remembered, Free, ConType, FanPcs
  <2>5. CASE Close(c)
    BY <1>0, <2>5 DEF Close, Remembered, Free, FanPcs
  <2>. QED
    BY <1>6, <2>2, <2>3, <2>4, <2>5 DEF Bookkeep
<1>7. ASSUME NEW r \in Members, NEW k \in Sends, RowStep(r, k) PROVE Remembered'
  BY <1>7, RememberedAct
  DEF RowStep, OutboxTry, OutboxWrite, OutboxDie, CancelRow, ReviveRow
<1>8. CASE Pass
  <2>1. ASSUME NEW r \in Members, NEW k \in Sends, Reconcile(r, k) PROVE Remembered'
    BY <1>0, <2>1 DEF Reconcile, Remembered, Free, FanPcs
  <2>2. CASE Reconciled \/ Sweep \/ Refresh
    BY <1>0, <2>2, RememberedAct DEF Reconciled, Sweep, Refresh, Goes, ActType
  <2>. QED
    BY <1>8, <2>1, <2>2 DEF Pass
<1>9. CASE Hour \/ Duplicate \/ \E r \in Members : GiveUp(r)
  BY <1>0, <1>9, RememberedAct DEF Hour, Duplicate, GiveUp, Idle
<1>10. CASE RowFails
  BY <1>0, <1>10 DEF RowFails, Remembered, Free, FanPcs
<1>. QED
  BY <1>1, <1>2, <1>3, <1>4, <1>5, <1>6, <1>7, <1>8, <1>9, <1>10 DEF Next

-----------------------------------------------------------------------------
(* One sender, one message.                                                *)

LEMMA Dom ==
    ASSUME Types
    PROVE  /\ Consumers \subseteq Workers /\ "cron" \in Workers /\ "cron" \notin Consumers
           /\ con \in [Workers -> ConType] /\ act \in [Starters -> ActType]
           /\ job \in [Starters -> JobType]
           /\ rcpt \in [Members -> RcptType] /\ row \in [Members -> RowType]
           /\ try \in [Members -> TryType] /\ hist \in [Members -> HistType]
           /\ delivered \in [Members -> Nat] /\ sendq \in [Members -> Nat]
           /\ \A c \in Workers : /\ con[c] \in ConType /\ con[c].r \in Members
                                 /\ con[c].k \in Sends /\ con[c].cursor \in 0..Last
           /\ \A r \in Members : /\ rcpt[r] \in RcptType /\ rcpt[r].attempts \in Nat
                                 /\ rcpt[r].attempts <= MaxSends
                                 /\ row[r] \in RowType /\ try[r] \in TryType
                                 /\ hist[r] \in HistType /\ hist[r].lost \in Nat
BY Bounds DEF Types, ConType, RcptType, HistType

LEMMA SendInit == Init => SendInv
<1> SUFFICES ASSUME Init PROVE SendInv
  OBVIOUS
<1>1. \A c \in Workers : con[c].pc = "free"
  BY DEF Init, Free
<1>2. \A c \in Consumers, r \in Members : ~Sending(c, r)
  BY <1>1, Bounds DEF Sending, Answers
<1>3. \A r \in Members : Spent(r) = {}
  BY Bounds DEF Init, Spent
<1>4. Delivered
  <2>1. ASSUME NEW r \in Members
        PROVE  delivered[r] = 0 /\ Cardinality(Spent(r)) = 0 /\ hist[r].lost = 0
    BY <1>3, FS_EmptySet DEF Init
  <2>. QED
    BY <2>1 DEF Delivered
<1>5. Fresh /\ Rows /\ Listed
  BY <1>1 DEF Init, Fresh, Rows, Listed
<1>. QED
  BY <1>2, <1>4, <1>5 DEF SendInv, OneSender, Claimed

\* Claims are finitely many.
LEMMA ClaimsFinite ==
    ASSUME NEW n \in Nat, NEW S \in SUBSET (1..n)
    PROVE  IsFiniteSet(S) /\ Cardinality(S) \in Nat /\ Cardinality(S) <= n
<1>1. IsFiniteSet(1..n) /\ Cardinality(1..n) = n
  BY FS_Interval
<1>. QED
  BY <1>1, FS_Subset, FS_CardinalityType

LEMMA SpentFinite ==
    ASSUME Types, Types', NEW r \in Members
    PROVE  /\ IsFiniteSet(Spent(r)) /\ Cardinality(Spent(r)) \in Nat
           /\ Cardinality(Spent(r)) <= rcpt[r].attempts
           /\ IsFiniteSet(Spent(r)') /\ Cardinality(Spent(r)') \in Nat
<1>1. rcpt[r].attempts \in Nat /\ rcpt'[r].attempts \in Nat
  BY Bounds DEF Types, RcptType
<1>2. Spent(r) \subseteq 1..rcpt[r].attempts /\ Spent(r)' \subseteq 1..rcpt'[r].attempts
  BY DEF Spent
<1>. QED
  BY <1>1, <1>2, ClaimsFinite

\* What keeps the count of messages to r: nothing is delivered and no claim
\* comes back; a delivery spends a claim; it is lost at once; or an acceptance
\* is lost and its claim may deliver again.
Counts(r, k) ==
    \/ /\ delivered'[r] = delivered[r] /\ hist'[r].lost = hist[r].lost
       /\ Spent(r) \subseteq Spent(r)'
    \/ /\ delivered'[r] = delivered[r] + 1 /\ hist'[r].lost = hist[r].lost
       /\ Spent(r) \subseteq Spent(r)' /\ k \notin Spent(r) /\ k \in Spent(r)'
    \/ /\ delivered'[r] = delivered[r] + 1 /\ hist'[r].lost = hist[r].lost + 1
       /\ Spent(r) \subseteq Spent(r)'
    \/ /\ delivered'[r] = delivered[r] /\ hist'[r].lost = hist[r].lost + 1
       /\ Spent(r) \subseteq Spent(r)' \cup {k}

LEMMA Counted ==
    ASSUME Types, Types', Delivered, NEW r \in Members, NEW k, Counts(r, k)
    PROVE  delivered'[r] <= Cardinality(Spent(r)') + hist'[r].lost
<1>1. /\ IsFiniteSet(Spent(r)) /\ Cardinality(Spent(r)) \in Nat
      /\ IsFiniteSet(Spent(r)') /\ Cardinality(Spent(r)') \in Nat
  BY SpentFinite
<1>2. /\ delivered[r] <= Cardinality(Spent(r)) + hist[r].lost
      /\ delivered[r] \in Nat /\ hist[r].lost \in Nat
  BY Dom DEF Delivered
<1>3. Spent(r) \subseteq Spent(r)' => Cardinality(Spent(r)) <= Cardinality(Spent(r)')
  BY <1>1, FS_Subset
<1>4. Spent(r) \subseteq Spent(r)' /\ k \notin Spent(r) /\ k \in Spent(r)' =>
          Cardinality(Spent(r)) + 1 <= Cardinality(Spent(r)')
  <2>1. /\ IsFiniteSet(Spent(r) \cup {k})
        /\ k \notin Spent(r) => Cardinality(Spent(r) \cup {k}) = Cardinality(Spent(r)) + 1
    BY <1>1, FS_AddElement
  <2>2. Spent(r) \cup {k} \subseteq Spent(r)' =>
            Cardinality(Spent(r) \cup {k}) <= Cardinality(Spent(r)')
    BY <1>1, FS_Subset
  <2>. QED
    BY <1>1, <2>1, <2>2
<1>5. Spent(r) \subseteq Spent(r)' \cup {k} => Cardinality(Spent(r)) <= Cardinality(Spent(r)') + 1
  <2>1. /\ IsFiniteSet(Spent(r)' \cup {k})
        /\ \/ Cardinality(Spent(r)' \cup {k}) = Cardinality(Spent(r)')
           \/ Cardinality(Spent(r)' \cup {k}) = Cardinality(Spent(r)') + 1
    BY <1>1, FS_AddElement
  <2>2. Spent(r) \subseteq Spent(r)' \cup {k} =>
            Cardinality(Spent(r)) <= Cardinality(Spent(r)' \cup {k})
    BY <2>1, FS_Subset
  <2>. QED
    BY <1>1, <2>1, <2>2
<1>. QED
  BY <1>1, <1>2, <1>3, <1>4, <1>5 DEF Counts

\* A row that waits for its bookkeeping delivers no more.
LEMMA HeldDone ==
    ASSUME Types, SendInv, NEW r \in Members, NEW k \in Sends, row[r][k] = "bookkeeping_pending"
    PROVE  Done(r, k)
<1>1. k <= rcpt[r].attempts
  BY Bounds, Dom DEF SendInv, Rows
<1>2. ASSUME NEW c \in Consumers, Attempts(c, r, k) PROVE FALSE
  <2>1. Sending(c, r)
    BY <1>2 DEF Attempts, Attempting, Sending, Answers
  <2>. QED
    BY <1>2, <2>1 DEF SendInv, Claimed, Attempts, Attempting, Answers
<1>. QED
  BY <1>1, <1>2 DEF Done

\* A step that leaves the rows and the messages alone: nobody comes to send,
\* and what is listed or taken up is done.
LEMMA SendQuiet ==
    ASSUME Types, Types', SendInv, Fresh', UNCHANGED mail,
           \A r \in Members : /\ rcpt'[r].attempts = rcpt[r].attempts
                              /\ hist'[r].lost = hist[r].lost,
           \A c \in Consumers, r \in Members :
               Sending(c, r)' => con'[c] = con[c] /\ rcpt'[r].status \in {"processing", "sent"},
           \A c \in Consumers : con[c].pc = "accepted" => con'[c] = con[c],
           \A r \in Members, k \in Sends : <<r, k>> \in held' => Done(r, k),
           \A w \in Workers : con'[w].pc \in {"sent", "finalize"} => Done(con'[w].r, con'[w].k)
    PROVE  SendInv'
<1>1. \A c \in Consumers, r \in Members : Sending(c, r)' => Sending(c, r) /\ con'[c] = con[c]
  BY DEF Sending
<1>2. OneSender'
  BY <1>1 DEF SendInv, OneSender
<1>3. Claimed'
  BY <1>1 DEF SendInv, Claimed
<1>4. Rows'
  BY DEF SendInv, Rows
<1>5. ASSUME NEW r \in Members, NEW k, NEW c \in Consumers, Attempts(c, r, k)'
      PROVE  Attempts(c, r, k)
  <2>1. Sending(c, r)'
    BY <1>5 DEF Attempts, Attempting, Sending, Answers
  <2>. QED
    BY <1>1, <1>5, <2>1 DEF Attempts
<1>6. \A r \in Members, k \in Sends : Done(r, k) => Done(r, k)'
  BY <1>5 DEF Done
<1>7. \A w \in Workers : con'[w].r \in Members /\ con'[w].k \in Sends
  BY DEF Types, ConType
<1>8. Listed'
  BY <1>6, <1>7 DEF Listed
<1>9. ASSUME NEW r \in Members, NEW k \in Spent(r) PROVE k \in Spent(r)'
  <2>1. k \in 1..rcpt[r].attempts /\ k \in Sends
    BY Dom, Bounds DEF Spent, Sends
  <2>2. Accepts(r, k) => Accepts(r, k)'
    BY DEF Accepts
  <2>. QED
    BY <1>6, <2>1, <2>2 DEF Spent
<1>10. Delivered'
  <2>1. \A r \in Members : Counts(r, 0)
    BY <1>9 DEF Counts
  <2>. QED
    BY <2>1, Counted DEF SendInv, Delivered
<1>. QED
  BY <1>2, <1>3, <1>4, <1>8, <1>10 DEF SendInv

\* A recipient is claimed: nobody else was sending to it.
LEMMA SendClaim ==
    ASSUME Types, Types', SendInv, NEW c \in Consumers, NEW r \in Members, Claim(c, r), Claims(r)
    PROVE  SendInv'
<1> DEFINE n == rcpt[r].attempts + 1
<1>0. /\ row' = row /\ try' = try /\ delivered' = delivered /\ hist' = hist /\ held' = held
      /\ con[c].pc = "free" /\ c \in Workers
      /\ rcpt' = [rcpt EXCEPT ![r] = [status |-> "processing", attempts |-> n]]
      /\ con' = [con EXCEPT ![c] = [Free EXCEPT !.pc = "claimed", !.r = r, !.k = n]]
  BY Dom DEF Claim
<1>1. /\ rcpt'[r].status = "processing" /\ rcpt'[r].attempts = n
      /\ con'[c].pc = "claimed" /\ con'[c].r = r /\ con'[c].k = n
      /\ \A q \in Members \ {r} : rcpt'[q] = rcpt[q]
      /\ \A w \in Workers \ {c} : con'[w] = con[w]
  BY <1>0, Dom DEF Free
<1>2. n \in Sends /\ n > rcpt[r].attempts
  <2>1. con'[c] \in ConType
    BY <1>0 DEF Types
  <2>2. rcpt[r].attempts \in Nat
    BY Dom
  <2>. QED
    BY <1>1, <2>1, <2>2 DEF ConType
<1>3. \A d \in Consumers : ~Sending(d, r)
  BY DEF SendInv, Claimed, Claims, Claimable
<1>4. \A d \in Consumers, q \in Members : Sending(d, q)' =>
          \/ d = c /\ q = r
          \/ d # c /\ q # r /\ Sending(d, q) /\ con'[d] = con[d]
  BY <1>1, <1>3, Dom DEF Sending
<1>5. OneSender' /\ Fresh'
  BY <1>1, <1>4 DEF SendInv, OneSender, Fresh
<1>6. \A q \in Members : rcpt'[q].attempts \in Nat /\ rcpt'[q].attempts >= rcpt[q].attempts
  BY <1>1, Dom
<1>7. Rows' /\ row'[r][n] = "none"
  <2>1. row[r][n] = "none"
    BY <1>2 DEF SendInv, Rows
  <2>2. ASSUME NEW q \in Members, NEW k \in Sends, k > rcpt'[q].attempts
        PROVE  k > rcpt[q].attempts
    <3>1. k \in Nat /\ rcpt[q].attempts \in Nat
      BY Dom, Bounds
    <3>. QED
      BY <1>6, <2>2, <3>1
  <2>3. Rows
    BY DEF SendInv
  <2>. QED
    BY <1>0, <2>1, <2>2, <2>3 DEF Rows
<1>8. Claimed'
  BY <1>0, <1>1, <1>4, <1>7 DEF SendInv, Claimed, Answers
<1>9. ASSUME NEW q \in Members, NEW k \in Sends, Done(q, k) \/ Accepts(q, k),
             k <= rcpt[q].attempts
      PROVE  (Done(q, k) => Done(q, k)') /\ (Accepts(q, k) => Accepts(q, k)')
  <2>1. k <= rcpt'[q].attempts
    BY <1>6, <1>9, Dom, Bounds
  <2>2. ~(con'[c].r = q /\ con'[c].k = k)
    BY <1>1, <1>9, Dom, Bounds
  <2>3. \A d \in Consumers \ {c} : con'[d] = con[d]
    BY <1>1, Dom
  <2>. QED
    BY <1>0, <2>1, <2>2, <2>3 DEF Done, Accepts, Attempts
<1>10. Listed'
  <2>1. \A q \in Members, k \in Sends : Done(q, k) => Done(q, k)'
    BY <1>9 DEF Done
  <2>2. \A w \in Workers \ {c} : con'[w] = con[w] /\ con[w].r \in Members /\ con[w].k \in Sends
    BY <1>1, Dom
  <2>. QED
    BY <1>0, <1>1, <2>1, <2>2 DEF SendInv, Listed
<1>11. Delivered'
  <2>1. ASSUME NEW q \in Members, NEW k \in Spent(q) PROVE k \in Spent(q)'
    <3>1. k \in 1..rcpt[q].attempts /\ k \in Sends /\ k \in 1..rcpt'[q].attempts
      BY <1>6, Dom, Bounds DEF Spent, Sends
    <3>. QED
      BY <1>9, <3>1 DEF Spent
  <2>2. \A q \in Members : Counts(q, 0)
    BY <1>0, <2>1 DEF Counts
  <2>. QED
    BY <2>2, Counted DEF SendInv, Delivered
<1>. QED
  BY <1>5, <1>7, <1>8, <1>10, <1>11 DEF SendInv

\* A worker on the row of one send goes on with it, or leaves it.
Leaves(w, r, k) ==
    /\ con[w].r = r /\ con[w].k = k
    /\ con[w].pc \in SendPcs \cup {"finalize"} /\ con'[w].pc # "finalize"
    /\ con'[w].pc \in SendPcs =>
           /\ con'[w].r = r /\ con'[w].k = k
           /\ con[w].pc \in SendPcs \ {"sent"}

\* A step about the row of one send of one recipient; everything else stands.
OnlyRow(r, k) ==
    /\ rcpt' = rcpt /\ held' \subseteq held
    /\ \A q \in Members, j \in Sends :
         q # r \/ j # k => row'[q][j] = row[q][j] /\ try'[q][j] = try[q][j]
    /\ \A q \in Members \ {r} : delivered'[q] = delivered[q] /\ hist'[q] = hist[q]
    /\ hist[r].overtaken => hist'[r].overtaken
    /\ \A w \in Workers : con'[w] = con[w] \/ Leaves(w, r, k)

\* The shape of the row while a consumer is at it.
Shaped(c, r, k) ==
    /\ con'[c].pc = "claimed" => row'[r][k] = "none"
    /\ con'[c].pc \in Answers \cup {"written"} => row'[r][k] = "pending" /\ try'[r][k] = "none"

LEMMA SendRow ==
    ASSUME Types, Types', SendInv, NEW r \in Members, NEW k \in Sends, OnlyRow(r, k),
           k <= rcpt[r].attempts,
           Done(r, k) => Done(r, k)',
           try'[r][k] # "none" => row'[r][k] = "pending",
           \A c \in Consumers : con'[c].r = r /\ con'[c].k = k => Shaped(c, r, k),
           \A w \in Workers : con'[w] # con[w] /\ con'[w].pc = "sent" => Done(r, k)',
           \/ /\ delivered'[r] = delivered[r] /\ hist'[r].lost = hist[r].lost
              /\ Accepts(r, k) => Done(r, k)' \/ Accepts(r, k)'
           \/ /\ delivered'[r] = delivered[r] + 1 /\ hist'[r].lost = hist[r].lost
              /\ ~Done(r, k) /\ ~Accepts(r, k) /\ (Done(r, k)' \/ Accepts(r, k)')
           \/ /\ delivered'[r] = delivered[r] + 1 /\ hist'[r].lost = hist[r].lost + 1
              /\ Accepts(r, k) => Done(r, k)' \/ Accepts(r, k)'
           \/ delivered'[r] = delivered[r] /\ hist'[r].lost = hist[r].lost + 1
    PROVE  SendInv'
<1>0. /\ rcpt' = rcpt /\ held' \subseteq held /\ Consumers \subseteq Workers
      /\ \A q \in Members, j \in Sends :
           q # r \/ j # k => row'[q][j] = row[q][j] /\ try'[q][j] = try[q][j]
      /\ \A q \in Members \ {r} : delivered'[q] = delivered[q] /\ hist'[q] = hist[q]
      /\ \A w \in Workers : con'[w] = con[w] \/ Leaves(w, r, k)
  BY Dom DEF OnlyRow
<1>1. \A c \in Consumers, q \in Members : Sending(c, q)' => Sending(c, q) /\ con'[c].k = con[c].k
  BY <1>0 DEF Sending, Leaves, SendPcs, Answers
<1>2. OneSender' /\ Fresh'
  BY <1>0, <1>1 DEF SendInv, OneSender, Fresh
<1>3. Claimed'
  <2> SUFFICES ASSUME NEW c \in Consumers, NEW q \in Members, Sending(c, q)'
               PROVE  /\ rcpt[q].status \in {"processing", "sent"}
                      /\ con'[c].k = rcpt[q].attempts
                      /\ con'[c].pc = "claimed" => row'[q][con'[c].k] = "none"
                      /\ con'[c].pc \in Answers \cup {"written"} =>
                             row'[q][con'[c].k] = "pending" /\ try'[q][con'[c].k] = "none"
    BY <1>0 DEF Claimed
  <2>1. Sending(c, q) /\ con'[c].k = con[c].k /\ con[c].k \in Sends
    BY <1>1, Dom
  <2>2. CASE q = r /\ con'[c].k = k
    BY <2>1, <2>2 DEF SendInv, Claimed, Shaped, Sending
  <2>3. CASE ~(q = r /\ con'[c].k = k)
    <3>1. con'[c] = con[c]
      BY <1>0, <2>1, <2>3 DEF Leaves, Sending
    <3>. QED
      BY <1>0, <2>1, <2>3, <3>1 DEF SendInv, Claimed
  <2>. QED
    BY <2>2, <2>3
<1>4. Rows'
  <2>1. ~(k > rcpt[r].attempts)
    BY Dom, Bounds
  <2>. QED
    BY <1>0, <2>1 DEF SendInv, Rows
<1>5. ASSUME NEW q \in Members, NEW j \in Sends, q # r \/ j # k
      PROVE  /\ Done(q, j) => Done(q, j)'
             /\ Accepts(q, j) => Accepts(q, j)'
  <2>1. ASSUME NEW c \in Consumers, Attempts(c, q, j)' PROVE Attempts(c, q, j)
    <3>1. con'[c] = con[c]
      BY <1>0, <1>5, <2>1 DEF Leaves, Attempts, Attempting, SendPcs
    <3>. QED
      BY <2>1, <3>1 DEF Attempts
  <2>2. ASSUME NEW c \in Consumers, con[c].r = q, con[c].k = j PROVE con'[c] = con[c]
    BY <1>0, <1>5, <2>2 DEF Leaves
  <2>. QED
    BY <1>0, <1>5, <2>1, <2>2 DEF Done, Accepts
<1>6. \A q \in Members, j \in Sends : Done(q, j) => Done(q, j)'
  BY <1>5
<1>7. Listed'
  <2>1. \A q \in Members, j \in Sends : <<q, j>> \in held' => Done(q, j)'
    BY <1>0, <1>6 DEF SendInv, Listed
  <2>2. ASSUME NEW w \in Workers, con'[w].pc \in {"sent", "finalize"}
        PROVE  \E q \in Members, j \in Sends : con'[w].r = q /\ con'[w].k = j /\ Done(q, j)'
    <3>1. CASE con'[w] = con[w]
      <4>1. con[w].r \in Members /\ con[w].k \in Sends /\ Done(con[w].r, con[w].k)
        BY <2>2, <3>1, Dom DEF SendInv, Listed
      <4>. QED
        BY <1>6, <3>1, <4>1
    <3>2. CASE con'[w] # con[w]
      <4>1. con'[w].pc = "sent" /\ con'[w].r = r /\ con'[w].k = k
        BY <1>0, <2>2, <3>2 DEF Leaves, SendPcs
      <4>. QED
        BY <3>2, <4>1
    <3>. QED
      BY <3>1, <3>2
  <2>. QED
    BY <2>1, <2>2 DEF Listed, Done, Attempts
<1>8. ASSUME NEW q \in Members, NEW j \in Spent(q), q # r \/ j # k PROVE j \in Spent(q)'
  <2>1. j \in 1..rcpt[q].attempts /\ j \in Sends
    BY Dom, Bounds DEF Spent, Sends
  <2>. QED
    BY <1>0, <1>5, <1>8, <2>1 DEF Spent
<1>9. /\ k \in Spent(r) <=> Done(r, k) \/ Accepts(r, k)
      /\ k \in Spent(r)' <=> Done(r, k)' \/ Accepts(r, k)'
  <2>1. k \in 1..rcpt[r].attempts
    BY Dom, Bounds
  <2>. QED
    BY <1>0, <2>1 DEF Spent
<1>10. Delivered'
  <2>1. \A q \in Members \ {r} : Counts(q, k)
    BY <1>0, <1>8 DEF Counts
  <2>2. Counts(r, k)
    <3>1. Spent(r) \subseteq Spent(r)' \cup {k}
      BY <1>8
    <3>2. (k \in Spent(r) => k \in Spent(r)') => Spent(r) \subseteq Spent(r)'
      BY <1>8
    <3>. QED
      BY <1>9, <3>1, <3>2 DEF Counts
  <2>. QED
    BY <2>1, <2>2, Counted DEF SendInv, Delivered
<1>. QED
  BY <1>2, <1>3, <1>4, <1>7, <1>10 DEF SendInv

\* How the answer of a call changes the count of messages.
Counter(r, ans) ==
    \/ ans = "accepted" /\ delivered'[r] = delivered[r] + 1 /\ hist'[r].lost = hist[r].lost
    \/ ans # "accepted" /\ delivered'[r] = delivered[r] /\ hist'[r].lost = hist[r].lost
    \/ ans # "accepted" /\ delivered'[r] = delivered[r] + 1 /\ hist'[r].lost = hist[r].lost + 1

\* What a consumer at (r, k) does to it.
AttemptStep(c, r, k) ==
    \/ /\ con[c].pc = "claimed" /\ con'[c].pc = "written" /\ row'[r][k] = "pending"
       /\ UNCHANGED <<try, delivered, hist>>
    \/ /\ con[c].pc = "written" /\ con'[c].pc \in Answers /\ Counter(r, con'[c].pc)
       /\ UNCHANGED <<row, try>>
    \/ /\ con[c].pc \in Answers /\ con'[c].pc = OutcomeOf(con[c].pc)
       /\ row'[r][k] = RowOf(con[c].pc)
       /\ UNCHANGED <<try, delivered, hist>>
    \/ /\ con[c].pc = "written" /\ con'[c].pc = "free" /\ row'[r][k] = "none"
       /\ UNCHANGED <<try, delivered, hist>>
    \/ /\ con'[c].pc = "free"
       /\ hist'[r].lost = IF con[c].pc = "accepted" THEN hist[r].lost + 1 ELSE hist[r].lost
       /\ UNCHANGED <<row, try, delivered>>

\* Nobody else sends to the recipient of a claim.
LEMMA Alone ==
    ASSUME Types, SendInv, NEW c \in Consumers, con[c].pc \in SendPcs,
           NEW r, NEW k, r = con[c].r, k = con[c].k
    PROVE  /\ r \in Members /\ k \in Sends /\ Sending(c, r)
           /\ k = rcpt[r].attempts /\ rcpt[r].status \in {"processing", "sent"}
           /\ con[c].pc = "claimed" => row[r][k] = "none" /\ try[r][k] = "none"
           /\ con[c].pc \in Answers \cup {"written"} => row[r][k] = "pending" /\ try[r][k] = "none"
           /\ \A d \in Consumers \ {c} : ~Sending(d, r) /\ ~Attempts(d, r, k)
<1>1. r \in Members /\ k \in Sends
  BY Dom
<1>2. Sending(c, r)
  BY DEF SendPcs, Sending, Answers
<1>3. \A d \in Consumers \ {c} : ~Sending(d, r)
  BY <1>1, <1>2 DEF SendInv, OneSender
<1>4. \A d \in Consumers : Attempts(d, r, k) => Sending(d, r)
  BY DEF Attempts, Attempting, Sending, Answers
<1>5. /\ k = rcpt[r].attempts /\ rcpt[r].status \in {"processing", "sent"}
      /\ con[c].pc = "claimed" => row[r][k] = "none"
      /\ con[c].pc \in Answers \cup {"written"} => row[r][k] = "pending" /\ try[r][k] = "none"
  BY <1>1, <1>2 DEF SendInv, Claimed
<1>6. row[r][k] = "none" => try[r][k] = "none"
  BY <1>1 DEF SendInv, Rows
<1>. QED
  BY <1>1, <1>2, <1>3, <1>4, <1>5, <1>6

LEMMA AttemptMoves ==
    ASSUME Types, SendInv, NEW c \in Consumers, con[c].pc \in SendPcs,
           WriteAhead(c) \/ Call(c) \/ Resolve(c) \/ Throw(c) \/ Die(c),
           NEW r, NEW k, r = con[c].r, k = con[c].k
    PROVE  /\ OnlyRow(r, k) /\ AttemptStep(c, r, k)
           /\ con'[c].pc # "free" => con'[c].r = r /\ con'[c].k = k
           /\ \A w \in Workers \ {c} : con'[w] = con[w]
           /\ \A q \in Members : hist'[q].overtaken = hist[q].overtaken
<1>0. /\ c \in Workers /\ r \in Members /\ k \in Sends /\ con[c] \in ConType
      /\ con \in [Workers -> ConType] /\ row \in [Members -> RowType]
      /\ hist \in [Members -> HistType] /\ delivered \in [Members -> Nat]
      /\ row[r] \in RowType /\ hist[r] \in HistType
  BY Dom
<1>1. ASSUME NEW s, SetRow(r, k, s)
      PROVE  /\ row'[r][k] = s
             /\ \A q \in Members, j \in Sends : q # r \/ j # k => row'[q][j] = row[q][j]
  BY <1>0, <1>1 DEF SetRow, RowType
<1>2. ASSUME NEW pc, At(c, pc)
      PROVE  /\ con'[c].pc = pc /\ con'[c].r = r /\ con'[c].k = k
             /\ \A w \in Workers \ {c} : con'[w] = con[w]
  BY <1>0, <1>2 DEF At, ConType
<1>3. ASSUME NEW pc, At(c, pc), pc # "finalize", con[c].pc # "sent"
      PROVE  \A w \in Workers : con'[w] = con[w] \/ Leaves(w, r, k)
  BY <1>0, <1>2, <1>3 DEF Leaves
<1>4. ASSUME con' = [con EXCEPT ![c] = Free]
      PROVE  /\ con'[c].pc = "free"
             /\ \A w \in Workers \ {c} : con'[w] = con[w]
             /\ \A w \in Workers : con'[w] = con[w] \/ Leaves(w, r, k)
  BY <1>0, <1>4 DEF Leaves, Free, SendPcs
<1>5. CASE WriteAhead(c)
  <2>1. /\ SetRow(r, k, "pending") /\ At(c, "written") /\ con[c].pc = "claimed"
        /\ UNCHANGED <<rcpt, try, delivered, held, hist>>
    BY <1>5 DEF WriteAhead
  <2>. QED
    BY <1>1, <1>2, <1>3, <2>1 DEF OnlyRow, AttemptStep
<1>6. CASE Call(c)
  <2>1. PICK ans \in Answers : Answer(r, ans) /\ At(c, ans)
    BY <1>6, CampaignAssumption DEF Call
  <2>2. con[c].pc = "written" /\ UNCHANGED <<rcpt, row, try, held>>
    BY <1>6 DEF Call
  <2>3. /\ \A q \in Members \ {r} : delivered'[q] = delivered[q] /\ hist'[q] = hist[q]
        /\ hist'[r].overtaken = hist[r].overtaken /\ Counter(r, ans)
    BY <1>0, <2>1, AnswerMoves DEF Counter
  <2>4. ans # "finalize"
    BY DEF Answers
  <2>. QED
    BY <1>2, <1>3, <2>1, <2>2, <2>3, <2>4 DEF OnlyRow, AttemptStep
<1>7. CASE Resolve(c)
  <2>1. /\ SetRow(r, k, RowOf(con[c].pc)) /\ At(c, OutcomeOf(con[c].pc)) /\ con[c].pc \in Answers
        /\ UNCHANGED <<rcpt, try, delivered, held, hist>>
    BY <1>7 DEF Resolve
  <2>2. OutcomeOf(con[c].pc) \notin {"finalize", "free"} /\ con[c].pc # "sent"
    BY <2>1 DEF OutcomeOf, Answers
  <2>. QED
    BY <1>1, <1>2, <1>3, <2>1, <2>2 DEF OnlyRow, AttemptStep
<1>8. CASE Throw(c)
  <2>1. /\ SetRow(r, k, "none") /\ con' = [con EXCEPT ![c] = Free] /\ con[c].pc = "written"
        /\ UNCHANGED <<rcpt, try, delivered, held, hist>>
    BY <1>8 DEF Throw
  <2>. QED
    BY <1>1, <1>4, <2>1 DEF OnlyRow, AttemptStep
<1>9. CASE Die(c)
  <2>1. /\ con' = [con EXCEPT ![c] = Free] /\ UNCHANGED <<rcpt, row, try, delivered, held>>
        /\ hist' = [hist EXCEPT ![r].lost = IF con[c].pc = "accepted" THEN @ + 1 ELSE @]
    BY <1>9 DEF Die
  <2>2. /\ \A q \in Members \ {r} : hist'[q] = hist[q]
        /\ hist'[r].overtaken = hist[r].overtaken
        /\ hist'[r].lost = IF con[c].pc = "accepted" THEN hist[r].lost + 1 ELSE hist[r].lost
    BY <1>0, <2>1 DEF HistType
  <2>. QED
    BY <1>4, <2>1, <2>2 DEF OnlyRow, AttemptStep
<1>. QED
  BY <1>5, <1>6, <1>7, <1>8, <1>9

\* From the write-ahead to the outcome: the claim is spent by the acceptance.
LEMMA SendAttempt ==
    ASSUME Types, Types', SendInv, NEW c \in Consumers, con[c].pc \in SendPcs,
           WriteAhead(c) \/ Call(c) \/ Resolve(c) \/ Throw(c) \/ Die(c)
    PROVE  SendInv'
<1>. PICK r, k : r = con[c].r /\ k = con[c].k
  OBVIOUS
<1>1. /\ r \in Members /\ k \in Sends /\ k = rcpt[r].attempts /\ c \in Workers
      /\ rcpt[r].attempts \in Nat
      /\ con[c].pc = "claimed" => row[r][k] = "none" /\ try[r][k] = "none"
      /\ con[c].pc \in Answers \cup {"written"} => row[r][k] = "pending" /\ try[r][k] = "none"
      /\ \A d \in Consumers \ {c} : ~Sending(d, r) /\ ~Attempts(d, r, k)
  BY Alone, Dom
<1>2. /\ OnlyRow(r, k) /\ AttemptStep(c, r, k)
      /\ con'[c].pc # "free" => con'[c].r = r /\ con'[c].k = k
      /\ \A w \in Workers \ {c} : con'[w] = con[w]
  BY AttemptMoves
<1>3. rcpt' = rcpt /\ k <= rcpt[r].attempts
  BY <1>1, <1>2 DEF OnlyRow
<1>4. \A d \in Consumers \ {c} : con'[d] = con[d] /\ ~Attempts(d, r, k)'
  BY <1>1, <1>2, Dom DEF Attempts
<1>5. con[c].pc \in Attempting => ~Done(r, k)
  BY DEF Done, Attempts
<1>6. Accepts(r, k) => try[r][k] = "accepted" \/ con[c].pc = "accepted"
  BY <1>1 DEF Accepts, Attempts, Attempting
<1>7. \A d \in Consumers \ {c} : con'[d].r = r /\ con'[d].k = k => Shaped(d, r, k)
  BY <1>4 DEF Shaped, Attempts, Attempting, Answers
<1>8. \A w \in Workers \ {c} : con'[w] = con[w]
  BY <1>2
<1>9. CASE /\ con[c].pc = "claimed" /\ con'[c].pc = "written" /\ row'[r][k] = "pending"
           /\ UNCHANGED <<try, delivered, hist>>
  <2>1. Shaped(c, r, k)
    BY <1>1, <1>9 DEF Shaped, Answers
  <2>2. ~Done(r, k) /\ ~Accepts(r, k)
    BY <1>1, <1>5, <1>6, <1>9 DEF Attempting
  <2>. QED
    BY <1>1, <1>2, <1>3, <1>7, <1>8, <1>9, <2>1, <2>2, SendRow
<1>10. CASE /\ con[c].pc = "written" /\ con'[c].pc \in Answers /\ Counter(r, con'[c].pc)
            /\ UNCHANGED <<row, try>>
  <2>1. Shaped(c, r, k)
    BY <1>1, <1>10 DEF Shaped, Answers
  <2>2. ~Done(r, k) /\ ~Accepts(r, k)
    BY <1>1, <1>5, <1>6, <1>10 DEF Attempting
  <2>3. con'[c].pc = "accepted" => Accepts(r, k)'
    BY <1>2 DEF Accepts
  <2>4. con'[c].pc # "sent"
    BY <1>10 DEF Answers
  <2>5. try'[r][k] = "none"
    BY <1>1, <1>10
  <2>. QED
    BY <1>1, <1>2, <1>3, <1>7, <1>8, <1>10, <2>1, <2>2, <2>3, <2>4, <2>5, SendRow DEF Counter
<1>11. CASE /\ con[c].pc \in Answers /\ con'[c].pc = OutcomeOf(con[c].pc)
            /\ row'[r][k] = RowOf(con[c].pc)
            /\ UNCHANGED <<try, delivered, hist>>
  <2>1. Shaped(c, r, k) /\ con'[c].pc \notin Attempting
    BY <1>11 DEF Shaped, OutcomeOf, Answers, Attempting
  <2>2. ~Done(r, k) /\ (Accepts(r, k) => con[c].pc = "accepted") /\ try'[r][k] = "none"
    BY <1>1, <1>5, <1>6, <1>11 DEF Attempting, Answers
  <2>3. con[c].pc = "accepted" => Done(r, k)'
    <3>1. ~Attempts(c, r, k)'
      BY <2>1 DEF Attempts
    <3>2. con[c].pc = "accepted" => row'[r][k] = "bookkeeping_pending"
      BY <1>11 DEF RowOf
    <3>. QED
      BY <1>3, <1>4, <3>1, <3>2 DEF Done
  <2>4. con'[c].pc = "sent" => con[c].pc = "accepted"
    BY <1>11 DEF OutcomeOf
  <2>. QED
    BY <1>1, <1>2, <1>3, <1>7, <1>8, <1>11, <2>1, <2>2, <2>3, <2>4, SendRow
<1>12. CASE /\ con[c].pc = "written" /\ con'[c].pc = "free" /\ row'[r][k] = "none"
            /\ UNCHANGED <<try, delivered, hist>>
  <2>1. Shaped(c, r, k)
    BY <1>12 DEF Shaped, Answers
  <2>2. ~Done(r, k) /\ ~Accepts(r, k) /\ try'[r][k] = "none"
    BY <1>1, <1>5, <1>6, <1>12 DEF Attempting
  <2>. QED
    BY <1>1, <1>2, <1>3, <1>7, <1>8, <1>12, <2>1, <2>2, SendRow
<1>13. CASE /\ con'[c].pc = "free"
            /\ hist'[r].lost = IF con[c].pc = "accepted" THEN hist[r].lost + 1 ELSE hist[r].lost
            /\ UNCHANGED <<row, try, delivered>>
  <2>1. Shaped(c, r, k)
    BY <1>13 DEF Shaped, Answers
  <2>2. Done(r, k) => Done(r, k)'
    BY <1>3, <1>4, <1>13 DEF Done, Attempts, Attempting
  <2>3. con[c].pc # "accepted" => (Accepts(r, k) => Accepts(r, k)')
    BY <1>6, <1>13 DEF Accepts
  <2>4. try'[r][k] # "none" => row'[r][k] = "pending"
    BY <1>1, <1>13 DEF SendInv, Rows
  <2>. QED
    BY <1>1, <1>2, <1>3, <1>7, <1>8, <1>13, <2>1, <2>2, <2>3, <2>4, SendRow
<1>. QED
  BY <1>2, <1>9, <1>10, <1>11, <1>12, <1>13 DEF AttemptStep

\* What the outbox, or a user, does to a row.
RowMove(r, k) ==
    \/ /\ row[r][k] = "pending" /\ try[r][k] = "none"
       /\ try'[r][k] \in Answers /\ Counter(r, try'[r][k]) /\ row' = row
       /\ hist'[r].overtaken = hist[r].overtaken
       /\ \A c \in Consumers : ~Leased(c, r, k) /\ ~Cooling(c, r, k)
    \/ /\ try[r][k] # "none" /\ try'[r][k] = "none" /\ UNCHANGED <<delivered, hist>>
       /\ try[r][k] = "accepted" => row'[r][k] = "bookkeeping_pending"
    \/ /\ try[r][k] # "none" /\ try'[r][k] = "none" /\ UNCHANGED <<row, delivered>>
       /\ hist'[r].lost = IF try[r][k] = "accepted" THEN hist[r].lost + 1 ELSE hist[r].lost
       /\ hist'[r].overtaken = hist[r].overtaken
    \/ /\ row'[r][k] = "none" /\ UNCHANGED <<try, delivered, hist>>
       /\ row[r][k] = "failed" \/ Idling(r, k)
    \/ /\ row[r][k] = "failed" /\ row'[r][k] = "pending"
       /\ UNCHANGED <<try, delivered>> /\ hist'[r].lost = hist[r].lost
       /\ hist[r].overtaken => hist'[r].overtaken
       /\ \A c \in Consumers : con[c].r = r /\ con[c].k = k /\ con[c].pc = "failed" =>
              hist'[r].overtaken

LEMMA RowMoved ==
    ASSUME Types, SendInv, NEW r \in Members, NEW k \in Sends, RowStep(r, k)
    PROVE  OnlyRow(r, k) /\ RowMove(r, k) /\ con' = con
<1>0. /\ row \in [Members -> RowType] /\ row[r] \in RowType
      /\ try \in [Members -> TryType] /\ try[r] \in TryType
      /\ hist \in [Members -> HistType] /\ hist[r] \in HistType
  BY Dom
<1>1. ASSUME NEW s, SetRow(r, k, s)
      PROVE  /\ row'[r][k] = s
             /\ \A q \in Members, j \in Sends : q # r \/ j # k => row'[q][j] = row[q][j]
  BY <1>0, <1>1 DEF SetRow, RowType
<1>2. ASSUME NEW s, SetTry(r, k, s)
      PROVE  /\ try'[r][k] = s
             /\ \A q \in Members, j \in Sends : q # r \/ j # k => try'[q][j] = try[q][j]
  BY <1>0, <1>2 DEF SetTry, TryType
<1>3. CASE OutboxTry(r, k)
  <2>1. PICK ans \in Answers : Answer(r, ans) /\ SetTry(r, k, ans)
    BY <1>3, CampaignAssumption DEF OutboxTry
  <2>2. /\ \A q \in Members \ {r} : delivered'[q] = delivered[q] /\ hist'[q] = hist[q]
        /\ hist'[r].overtaken = hist[r].overtaken /\ Counter(r, ans)
    BY <2>1, AnswerMoves DEF Counter
  <2>3. /\ row[r][k] = "pending" /\ try[r][k] = "none" /\ UNCHANGED <<rcpt, row, held, con>>
        /\ \A c \in Consumers : ~Leased(c, r, k) /\ ~Cooling(c, r, k)
    BY <1>3 DEF OutboxTry, Idling
  <2>. QED
    BY <1>2, <2>1, <2>2, <2>3 DEF OnlyRow, RowMove
<1>4. CASE OutboxWrite(r, k)
  <2>1. /\ try[r][k] # "none" /\ SetTry(r, k, "none")
        /\ UNCHANGED <<rcpt, delivered, held, con, hist>>
        /\ \/ SetRow(r, k, RowOf(try[r][k]))
           \/ try[r][k] = "transient" /\ SetRow(r, k, "failed")
    BY <1>4 DEF OutboxWrite
  <2>2. RowOf("accepted") = "bookkeeping_pending"
    BY DEF RowOf
  <2>. QED
    BY <1>1, <1>2, <2>1, <2>2 DEF OnlyRow, RowMove
<1>5. CASE OutboxDie(r, k)
  <2>1. /\ try[r][k] # "none" /\ SetTry(r, k, "none")
        /\ UNCHANGED <<rcpt, row, delivered, held, con>>
        /\ hist' = [hist EXCEPT ![r].lost = IF try[r][k] = "accepted" THEN @ + 1 ELSE @]
    BY <1>5 DEF OutboxDie
  <2>2. /\ \A q \in Members \ {r} : hist'[q] = hist[q]
        /\ hist'[r].overtaken = hist[r].overtaken
        /\ hist'[r].lost = IF try[r][k] = "accepted" THEN hist[r].lost + 1 ELSE hist[r].lost
    BY <1>0, <2>1 DEF HistType
  <2>. QED
    BY <1>2, <2>1, <2>2 DEF OnlyRow, RowMove
<1>6. CASE CancelRow(r, k)
  <2>1. /\ SetRow(r, k, "none") /\ UNCHANGED <<rcpt, try, delivered, held, con, hist>>
        /\ row[r][k] = "failed" \/ Idling(r, k)
    BY <1>6 DEF CancelRow, Cancelable
  <2>. QED
    BY <1>1, <2>1 DEF OnlyRow, RowMove
<1>7. CASE ReviveRow(r, k)
  <2> DEFINE over == \E c \in Consumers : con[c].r = r /\ con[c].k = k /\ con[c].pc = "failed"
  <2>1. /\ row[r][k] = "failed" /\ SetRow(r, k, "pending")
        /\ UNCHANGED <<rcpt, try, delivered, held, con>>
        /\ hist' = [hist EXCEPT ![r].overtaken = @ \/ over]
    BY <1>7 DEF ReviveRow
  <2>2. /\ \A q \in Members \ {r} : hist'[q] = hist[q]
        /\ hist'[r].lost = hist[r].lost
        /\ hist'[r].overtaken = (hist[r].overtaken \/ over)
    <3> HIDE DEF over
    <3>1. hist'[r] = [hist[r] EXCEPT !.overtaken = @ \/ over]
      BY <1>0, <2>1
    <3>. QED
      BY <1>0, <2>1, <3>1 DEF HistType
  <2>. QED
    BY <1>1, <2>1, <2>2 DEF OnlyRow, RowMove
<1>. QED
  BY <1>3, <1>4, <1>5, <1>6, <1>7 DEF RowStep

\* Attempts of the outbox, and users: a row that is not its sender's.
LEMMA SendRowStep ==
    ASSUME Types, Types', SendInv, NEW r \in Members, NEW k \in Sends, RowStep(r, k)
    PROVE  SendInv'
<1>1. OnlyRow(r, k) /\ RowMove(r, k) /\ con' = con
  BY RowMoved
<1>2. try[r][k] # "none" => row[r][k] = "pending"
  BY DEF SendInv, Rows
<1>3. row[r][k] \in {"pending", "failed"}
  BY <1>1, <1>2 DEF RowMove, Idling
<1>4. k <= rcpt[r].attempts
  BY <1>3, Dom, Bounds DEF SendInv, Rows
<1>5. \A c \in Consumers : ~Attempts(c, r, k)
  <2> SUFFICES ASSUME NEW c \in Consumers, Attempts(c, r, k) PROVE FALSE
    OBVIOUS
  <2>1. /\ con[c].r = r /\ con[c].k = k /\ con[c].pc \in SendPcs /\ con[c].pc \in Attempting
    BY DEF Attempts, Attempting, SendPcs
  <2>2. /\ con[c].pc = "claimed" => row[r][k] = "none"
        /\ con[c].pc \in Answers \cup {"written"} => row[r][k] = "pending" /\ try[r][k] = "none"
    BY <2>1, Alone
  <2>3. Leased(c, r, k) /\ row[r][k] = "pending" /\ try[r][k] = "none"
    BY <1>3, <2>1, <2>2 DEF Leased, Attempting, Answers
  <2>. QED
    BY <1>1, <2>3 DEF RowMove, Idling
<1>6. ~Done(r, k)
  BY <1>3 DEF Done
<1>7. Accepts(r, k) <=> try[r][k] = "accepted"
  BY <1>5 DEF Accepts, Attempts, Attempting
<1>8. \A c \in Consumers : con'[c].r = r /\ con'[c].k = k => Shaped(c, r, k)
  BY <1>1, <1>5 DEF Shaped, Attempts, Attempting, Answers
<1>9. try'[r][k] # "none" => row'[r][k] = "pending"
  BY <1>1, <1>2 DEF RowMove, Idling
<1>10. rcpt' = rcpt
  BY <1>1 DEF OnlyRow
<1>11. row'[r][k] = "bookkeeping_pending" => Done(r, k)'
  BY <1>1, <1>4, <1>5, <1>10 DEF Done, Attempts
<1>12. try'[r][k] = "accepted" => Accepts(r, k)'
  BY DEF Accepts
<1>13. \/ /\ delivered'[r] = delivered[r] /\ hist'[r].lost = hist[r].lost
          /\ Accepts(r, k) => Done(r, k)' \/ Accepts(r, k)'
       \/ /\ delivered'[r] = delivered[r] + 1 /\ hist'[r].lost = hist[r].lost
          /\ ~Done(r, k) /\ ~Accepts(r, k) /\ (Done(r, k)' \/ Accepts(r, k)')
       \/ /\ delivered'[r] = delivered[r] + 1 /\ hist'[r].lost = hist[r].lost + 1
          /\ Accepts(r, k) => Done(r, k)' \/ Accepts(r, k)'
       \/ delivered'[r] = delivered[r] /\ hist'[r].lost = hist[r].lost + 1
  BY <1>1, <1>2, <1>6, <1>7, <1>11, <1>12 DEF RowMove, Counter, Idling
<1>. QED
  BY <1>1, <1>4, <1>6, <1>8, <1>9, <1>13, SendRow

\* The row of a claim that is done is deleted.
LEMMA SendDrop ==
    ASSUME Types, Types', SendInv, NEW r \in Members, NEW k \in Sends, OnlyRow(r, k), Done(r, k),
           row'[r][k] = "none", UNCHANGED <<try, delivered, hist>>,
           \A w \in Workers : con'[w] = con[w] \/ con'[w].pc = "check"
    PROVE  SendInv'
<1>1. rcpt' = rcpt /\ k <= rcpt[r].attempts /\ Consumers \subseteq Workers
  BY Dom DEF OnlyRow, Done
<1>2. try[r][k] = "none"
  BY DEF SendInv, Rows, Done
<1>3. Done(r, k)'
  BY <1>1 DEF Done, Attempts, Attempting
<1>4. \A c \in Consumers : con'[c].r = r /\ con'[c].k = k => Shaped(c, r, k)
  BY <1>1 DEF Done, Shaped, Attempts, Attempting, Answers
<1>. QED
  BY <1>1, <1>2, <1>3, <1>4, SendRow

LEMMA FinalizeMoves ==
    ASSUME Types, NEW c \in Workers, Finalize(c), NEW r, NEW k, r = con[c].r, k = con[c].k
    PROVE  /\ OnlyRow(r, k) /\ r \in Members /\ k \in Sends
           /\ row'[r][k] = "none" /\ UNCHANGED <<try, delivered, hist>>
           /\ \A w \in Workers : con'[w] = con[w] \/ con'[w].pc = "check"
<1>0. /\ row \in [Members -> RowType] /\ row[r] \in RowType
      /\ con \in [Workers -> ConType] /\ con[c] \in ConType /\ r \in Members /\ k \in Sends
  BY Dom
<1>1. /\ SetRow(r, k, "none") /\ At(c, "check") /\ con[c].pc = "finalize"
      /\ UNCHANGED <<rcpt, try, delivered, held, hist>>
  BY DEF Finalize
<1>2. /\ row'[r][k] = "none"
      /\ \A q \in Members, j \in Sends : q # r \/ j # k => row'[q][j] = row[q][j]
  BY <1>0, <1>1 DEF SetRow, RowType
<1>3. /\ con'[c].pc = "check"
      /\ \A w \in Workers \ {c} : con'[w] = con[w]
  BY <1>0, <1>1 DEF At, ConType
<1>4. \A w \in Workers : con'[w] = con[w] \/ Leaves(w, r, k)
  BY <1>1, <1>3 DEF Leaves, SendPcs
<1>. QED
  BY <1>0, <1>1, <1>2, <1>3, <1>4 DEF OnlyRow

LEMMA ReconcileMoves ==
    ASSUME Types, NEW r \in Members, NEW k \in Sends, Reconcile(r, k)
    PROVE  \/ /\ rcpt[r].status = "sent" /\ OnlyRow(r, k) /\ row'[r][k] = "none"
              /\ UNCHANGED <<try, delivered, hist, con>>
           \/ /\ rcpt[r].status # "sent" /\ UNCHANGED <<rcpt, row, try, delivered, hist>>
              /\ con'["cron"].pc = "sent" /\ con'["cron"].r = r /\ con'["cron"].k = k
              /\ \A w \in Workers \ {"cron"} : con'[w] = con[w]
              /\ held' \subseteq held
<1>0. /\ row \in [Members -> RowType] /\ row[r] \in RowType
      /\ con \in [Workers -> ConType] /\ "cron" \in Workers
  BY Dom
<1>1. CASE rcpt[r].status = "sent"
  <2>1. SetRow(r, k, "none") /\ held' \subseteq held /\ UNCHANGED <<rcpt, try, delivered, hist, con>>
    BY <1>1 DEF Reconcile
  <2>2. /\ row'[r][k] = "none"
        /\ \A q \in Members, j \in Sends : q # r \/ j # k => row'[q][j] = row[q][j]
    BY <1>0, <2>1 DEF SetRow, RowType
  <2>. QED
    BY <1>1, <2>1, <2>2 DEF OnlyRow
<1>2. CASE rcpt[r].status # "sent"
  BY <1>0, <1>2 DEF Reconcile, Free
<1>. QED
  BY <1>1, <1>2

\* The outcome is recorded, and an accepted message's row is to be deleted.
LEMMA SettleMoves ==
    ASSUME Types, NEW c \in Workers, Settle(c)
    PROVE  /\ con[c].pc \in Outcomes
           /\ \A d \in Workers \ {c} : con'[d] = con[d]
           /\ con'[c].pc \in {"free", "finalize", "check"}
           /\ con'[c].pc = "finalize" =>
                  con[c].pc = "sent" /\ con'[c].r = con[c].r /\ con'[c].k = con[c].k
           /\ rcpt'[con[c].r].status = Recorded(con[c].pc)
           /\ rcpt'[con[c].r].attempts = rcpt[con[c].r].attempts
           /\ \A r \in Members \ {con[c].r} : rcpt'[r] = rcpt[r]
           /\ UNCHANGED <<row, try, delivered, held, hist>>
<1>0. /\ con \in [Workers -> ConType] /\ con[c] \in ConType /\ con[c].r \in Members
      /\ rcpt \in [Members -> RcptType]
  BY Dom
<1>1. con[c].pc \in Outcomes /\ UNCHANGED <<row, try, delivered, held, hist>>
  BY DEF Settle, Outcomes
<1>2. \A d \in Workers \ {c} : con'[d] = con[d]
  BY <1>0 DEF Settle
<1>3. /\ con'[c].pc \in {"free", "finalize", "check"}
      /\ con'[c].pc = "finalize" =>
             con[c].pc = "sent" /\ con'[c].r = con[c].r /\ con'[c].k = con[c].k
  <2>1. CASE con[c].pc = "retrying"
    BY <1>0, <2>1 DEF Settle, Free
  <2>2. CASE con[c].pc # "retrying"
    <3>1. con'[c] = [con[c] EXCEPT !.pc = IF con[c].pc = "sent" THEN "finalize" ELSE "check"]
      BY <1>0, <2>2 DEF Settle
    <3>2. /\ con'[c].pc = (IF con[c].pc = "sent" THEN "finalize" ELSE "check")
          /\ con'[c].r = con[c].r /\ con'[c].k = con[c].k
      BY <1>0, <3>1 DEF ConType
    <3>. QED
      BY <3>2
  <2>. QED
    BY <2>1, <2>2
<1>4. /\ rcpt'[con[c].r] = [rcpt[con[c].r] EXCEPT !.status = Recorded(con[c].pc)]
      /\ \A r \in Members \ {con[c].r} : rcpt'[r] = rcpt[r]
  BY <1>0 DEF Settle, SetRcpt
<1>. QED
  BY <1>0, <1>1, <1>2, <1>3, <1>4 DEF RcptType

\* The outcome is recorded by its only sender, or as sent by the hourly pass.
LEMMA SendSettle ==
    ASSUME Types, Types', Remembered, SendInv, NEW c \in Workers, Settle(c)
    PROVE  SendInv'
<1>. PICK r, k : r = con[c].r /\ k = con[c].k
  OBVIOUS
<1>0. /\ con[c].pc \in Outcomes /\ r \in Members /\ k \in Sends
      /\ \A d \in Workers \ {c} : con'[d] = con[d]
      /\ con'[c].pc \in {"free", "finalize", "check"}
      /\ con'[c].pc = "finalize" => con[c].pc = "sent" /\ con'[c].r = r /\ con'[c].k = k
      /\ rcpt'[r].status = Recorded(con[c].pc) /\ rcpt'[r].attempts = rcpt[r].attempts
      /\ \A q \in Members \ {r} : rcpt'[q] = rcpt[q]
      /\ row' = row /\ try' = try /\ delivered' = delivered /\ held' = held /\ hist' = hist
  BY SettleMoves, Dom
<1>1. Recorded(con[c].pc) \notin {"none", "queued", "retryable_failed"}
  BY <1>0 DEF Recorded, Outcomes
<1>2. Fresh'
  BY <1>0, <1>1 DEF SendInv, Fresh
<1>3. \A q \in Members : rcpt'[q].attempts = rcpt[q].attempts /\ hist'[q].lost = hist[q].lost
  BY <1>0
<1>4. ASSUME NEW d \in Consumers, NEW q \in Members, Sending(d, q)'
      PROVE  con'[d] = con[d] /\ rcpt'[q].status \in {"processing", "sent"}
  <2>1. d # c /\ con'[d] = con[d] /\ Sending(d, q)
    BY <1>0, <1>4, Dom DEF Sending, Answers
  <2>2. rcpt[q].status \in {"processing", "sent"}
    BY <2>1 DEF SendInv, Claimed
  <2>3. CASE q = r /\ c \in Consumers
    BY <1>0, <2>1, <2>3, Alone DEF Outcomes, SendPcs
  <2>4. CASE q = r /\ c \notin Consumers
    <3>1. con[c].pc = "sent"
      BY <1>0, <2>4 DEF Workers, Remembered, Outcomes
    <3>. QED
      BY <1>0, <2>1, <2>4, <3>1 DEF Recorded
  <2>5. CASE q # r
    BY <1>0, <2>1, <2>2, <2>5
  <2>. QED
    BY <2>3, <2>4, <2>5
<1>5. \A d \in Consumers : con[d].pc = "accepted" => con'[d] = con[d]
  BY <1>0, Dom DEF Outcomes
<1>6. \A q \in Members, j \in Sends : <<q, j>> \in held' => Done(q, j)
  BY <1>0 DEF SendInv, Listed
<1>7. \A w \in Workers : con'[w].pc \in {"sent", "finalize"} => Done(con'[w].r, con'[w].k)
  BY <1>0 DEF SendInv, Listed
<1>. QED
  BY <1>0, <1>2, <1>3, <1>4, <1>5, <1>6, <1>7, SendQuiet

\* The coordinator sends to nobody and closes nothing.
LEMMA FanOutStays ==
    ASSUME Types, NEW c \in Consumers, FanOut(c), NEW d \in Workers
    PROVE  \/ con'[d] = con[d]
           \/ con'[d].pc \in FanPcs \cup {"free", "check"} /\ con[d].pc \in FanPcs \cup {"free"}
<1>0. con \in [Workers -> ConType] /\ c \in Workers /\ con[c] \in ConType
  BY Dom
<1>1. ASSUME NEW s \in Starters, TakeFanOut(c, s)
      PROVE  con'[d] = con[d] \/ (con'[d].pc \in {"mark", "page"} /\ con[d].pc = "free")
  BY <1>0, <1>1 DEF TakeFanOut, Free
<1>2. CASE MarkSending(c)
  BY <1>0, <1>2 DEF MarkSending, FanPcs, ConType
<1>3. CASE InsertPage(c)
  BY <1>0, <1>3 DEF InsertPage, AfterInsert, FanPcs, ConType
<1>4. CASE PublishPage(c)
  BY <1>0, <1>4 DEF PublishPage, FanPcs, ConType
<1>5. CASE AdvanceCursor(c)
  BY <1>0, <1>5 DEF AdvanceCursor, FanPcs, ConType
<1>6. CASE NextPage(c)
  BY <1>0, <1>6 DEF NextPage, Free, FanPcs, ConType
<1>. QED
  BY <1>1, <1>2, <1>3, <1>4, <1>5, <1>6 DEF FanOut, FanPcs

\* The check ends, or is about to close.
LEMMA CheckMoves ==
    ASSUME Types, NEW c \in Workers, Check(c)
    PROVE  /\ \A d \in Workers \ {c} : con'[d] = con[d]
           /\ \/ con'[c] = Free
              \/ /\ con'[c].pc = "close" /\ con'[c].seen = Outcome
                 /\ Outstanding = {} /\ \E s \in Starters : job[s].status = "completed"
<1>1. PICK s \in Starters :
        con' = [con EXCEPT ![c] = IF job[s].status = "completed" /\ Outstanding = {}
                                  THEN [con[c] EXCEPT !.pc = "close", !.seen = Outcome]
                                  ELSE Free]
  BY DEF Check
<1>2. con \in [Workers -> ConType] /\ con[c] \in ConType
  BY Dom
<1>3. CASE job[s].status = "completed" /\ Outstanding = {}
  BY <1>1, <1>2, <1>3 DEF ConType
<1>4. CASE ~(job[s].status = "completed" /\ Outstanding = {})
  BY <1>1, <1>2, <1>4
<1>. QED
  BY <1>3, <1>4

\* A step that is not about a send, a row or what is recorded of them.
Still ==
    /\ row' = row /\ try' = try /\ delivered' = delivered /\ held' \subseteq held
    /\ \A r \in Members : \/ rcpt'[r] = rcpt[r]
                          \/ /\ rcpt[r].status = "none"
                             /\ rcpt'[r] = [status |-> "queued", attempts |-> 0]
    /\ \A r \in Members : /\ hist'[r].lost = hist[r].lost
                          /\ hist'[r].overtaken = hist[r].overtaken
    /\ \A w \in Workers : \/ con'[w] = con[w]
                          \/ /\ con'[w].pc \notin SendPcs \cup {"finalize"}
                             /\ w \in Consumers => con[w].pc # "accepted"

LEMMA SendStill ==
    ASSUME Types, Types', SendInv, Still
    PROVE  SendInv'
<1>1. Fresh' /\ \A r \in Members : rcpt'[r].attempts = rcpt[r].attempts
  BY DEF SendInv, Fresh, Still
<1>2. ASSUME NEW c \in Consumers, NEW r \in Members, Sending(c, r)'
      PROVE  con'[c] = con[c] /\ rcpt'[r].status \in {"processing", "sent"}
  <2>1. con'[c] = con[c]
    BY <1>2, Dom DEF Sending, SendPcs, Answers, Still
  <2>2. Sending(c, r)
    BY <1>2, <2>1 DEF Sending
  <2>. QED
    BY <2>1, <2>2 DEF SendInv, Claimed, Still
<1>3. \A c \in Consumers : con[c].pc = "accepted" => con'[c] = con[c]
  BY Dom DEF Still
<1>4. \A r \in Members, k \in Sends : <<r, k>> \in held' => Done(r, k)
  BY DEF SendInv, Listed, Still
<1>5. \A w \in Workers : con'[w].pc \in {"sent", "finalize"} => Done(con'[w].r, con'[w].k)
  BY DEF SendInv, Listed, SendPcs, Still
<1>6. row' = row /\ try' = try /\ delivered' = delivered
  BY DEF Still
<1>7. \A r \in Members : hist'[r].lost = hist[r].lost
  BY DEF Still
<1>. QED
  BY <1>1, <1>2, <1>3, <1>4, <1>5, <1>6, <1>7, SendQuiet

\* The steps on books, rows and messages of a recipient.
Works ==
    \/ \E c \in Consumers, r \in Members : Claim(c, r) /\ Claims(r)
    \/ \E c \in Consumers :
         con[c].pc \in SendPcs /\ (WriteAhead(c) \/ Call(c) \/ Resolve(c) \/ Throw(c) \/ Die(c))
    \/ \E c \in Workers : Settle(c) \/ Finalize(c)
    \/ \E r \in Members, k \in Sends : RowStep(r, k) \/ Reconcile(r, k)
    \/ Hour

LEMMA StillOrWorks == ASSUME Types, Remembered, Next PROVE Still \/ Works
<1>0. /\ con \in [Workers -> ConType] /\ Consumers \subseteq Workers /\ "cron" \in Workers
      /\ "cron" \notin Consumers /\ rcpt \in [Members -> RcptType]
      /\ hist \in [Members -> HistType]
      /\ \A w \in Workers : con[w] \in ConType
  BY Dom
<1>1. ASSUME UNCHANGED <<rcpt, row, try, delivered, held>>,
             \A r \in Members : /\ hist'[r].lost = hist[r].lost
                                /\ hist'[r].overtaken = hist[r].overtaken,
             \A w \in Workers : \/ con'[w] = con[w]
                                \/ /\ con'[w].pc \notin SendPcs \cup {"finalize"}
                                   /\ w \in Consumers => con[w].pc # "accepted"
      PROVE  Still
  BY <1>1 DEF Still
<1>2. \A r \in Members : LET h == [hist[r] EXCEPT !.dropped = FALSE]
                         IN  h.lost = hist[r].lost /\ h.overtaken = hist[r].overtaken
  BY <1>0 DEF HistType
<1>3. CASE Routes
  <2>1. UNCHANGED <<rcpt, row, try, delivered, held, con>>
    BY <1>3 DEF Routes, Request, Schedule, Cancel, CancelJobs, Retry, Requeue
  <2>2. \A r \in Members : /\ hist'[r].lost = hist[r].lost
                           /\ hist'[r].overtaken = hist[r].overtaken
    BY <1>2, <1>3 DEF Routes, Request, Schedule, Cancel, CancelJobs, Retry, Requeue
  <2>. QED
    BY <1>1, <2>1, <2>2
<1>4. ASSUME NEW s \in Starters, Start(s) PROVE Still
  BY <1>1, <1>4 DEF Start, Begin, Prepare, Launch, Announce
<1>5. ASSUME NEW s \in Starters, Abort(s) PROVE Still
  <2>1. /\ UNCHANGED <<rcpt, row, try, delivered, hist>> /\ held' \subseteq held
        /\ con' = con \/ con' = [con EXCEPT !["cron"] = Free]
    BY <1>5 DEF Abort
  <2>2. \A w \in Workers : \/ con'[w] = con[w]
                           \/ w \notin Consumers /\ con'[w].pc = "free"
    BY <1>0, <2>1 DEF Free
  <2>. QED
    BY <2>1, <2>2 DEF Still, SendPcs
<1>6. ASSUME NEW c \in Consumers, FanOut(c) PROVE Still
  <2>1. UNCHANGED <<row, try, delivered, held, hist>>
    BY <1>6 DEF FanOut, TakeFanOut, MarkSending, InsertPage, PublishPage, AdvanceCursor, NextPage
  <2>2. \A r \in Members : \/ rcpt'[r] = rcpt[r]
                           \/ /\ rcpt[r].status = "none"
                              /\ rcpt'[r] = [status |-> "queued", attempts |-> 0]
    BY <1>0, <1>6 DEF FanOut, TakeFanOut, MarkSending, InsertPage, PublishPage, AdvanceCursor,
                      NextPage
  <2>3. \A w \in Workers : \/ con'[w] = con[w]
                           \/ /\ con'[w].pc \in FanPcs \cup {"free", "check"}
                              /\ con[w].pc \in FanPcs \cup {"free"}
    BY <1>6, FanOutStays
  <2>. QED
    BY <2>1, <2>2, <2>3 DEF Still, SendPcs, FanPcs
<1>7. ASSUME NEW c \in Consumers, NEW r \in Members, Claim(c, r) PROVE Still \/ Works
  <2>1. CASE Claims(r)
    BY <1>7, <2>1 DEF Works
  <2>2. CASE ~Claims(r)
    BY <1>1, <1>7, <2>2 DEF Claim
  <2>. QED
    BY <2>1, <2>2
<1>8. ASSUME NEW c \in Consumers, WriteAhead(c) \/ Call(c) \/ Resolve(c) \/ Throw(c) PROVE Works
  <2>1. con[c].pc \in SendPcs
    BY <1>8 DEF WriteAhead, Call, Resolve, Throw, SendPcs, Answers
  <2>. QED
    BY <1>8, <2>1 DEF Works
<1>9. ASSUME NEW c \in Consumers, Die(c) PROVE Still \/ Works
  <2>1. CASE con[c].pc \in SendPcs
    BY <1>9, <2>1 DEF Works
  <2>2. CASE con[c].pc \notin SendPcs
    <3>1. con[c].pc # "accepted" /\ con[c].r \in Members
      BY <1>0, <2>2, Dom DEF SendPcs
    <3>2. /\ UNCHANGED <<rcpt, row, try, delivered, held>> /\ con' = [con EXCEPT ![c] = Free]
          /\ hist' = [hist EXCEPT ![con[c].r].lost = @]
      BY <1>9, <3>1 DEF Die
    <3>3. \A r \in Members : /\ hist'[r].lost = hist[r].lost
                             /\ hist'[r].overtaken = hist[r].overtaken
      BY <1>0, <3>1, <3>2 DEF HistType
    <3>4. \A w \in Workers : con'[w] = con[w] \/ (w = c /\ con'[w].pc = "free")
      BY <1>0, <3>2 DEF Free
    <3>. QED
      BY <1>1, <3>1, <3>2, <3>3, <3>4 DEF SendPcs
  <2>. QED
    BY <2>1, <2>2
<1>10. ASSUME NEW c \in Workers, Bookkeep(c) PROVE Still \/ Works
  <2>1. CASE Settle(c) \/ Finalize(c)
    BY <2>1 DEF Works
  <2>2. CASE Check(c)
    <3>1. /\ UNCHANGED <<rcpt, row, try, delivered, held, hist>> /\ con[c].pc = "check"
      BY <2>2 DEF Check
    <3>2. \A w \in Workers : \/ con'[w] = con[w]
                             \/ w = c /\ con'[w].pc \in {"free", "close"}
      BY <2>2, CheckMoves DEF Free
    <3>. QED
      BY <1>1, <3>1, <3>2 DEF SendPcs
  <2>3. CASE Close(c)
    <3>1. /\ UNCHANGED <<rcpt, row, try, delivered, held, hist>> /\ con[c].pc = "close"
          /\ con' = [con EXCEPT ![c] = Free]
      BY <2>3 DEF Close
    <3>2. \A w \in Workers : con'[w] = con[w] \/ (w = c /\ con'[w].pc = "free")
      BY <1>0, <3>1 DEF Free
    <3>. QED
      BY <1>1, <3>1, <3>2 DEF SendPcs
  <2>. QED
    BY <1>10, <2>1, <2>2, <2>3 DEF Bookkeep
<1>11. CASE Pass
  BY <1>1, <1>11 DEF Pass, Reconciled, Sweep, Refresh, Works
<1>12. CASE Duplicate
  BY <1>1, <1>12 DEF Duplicate
<1>13. ASSUME NEW r \in Members, GiveUp(r) PROVE Still
  <2>1. UNCHANGED <<rcpt, row, try, delivered, held, con>>
    BY <1>13 DEF GiveUp
  <2>2. \A q \in Members : /\ hist'[q].lost = hist[q].lost
                           /\ hist'[q].overtaken = hist[q].overtaken
    BY <1>0, <1>13 DEF GiveUp, HistType
  <2>. QED
    BY <1>1, <2>1, <2>2
<1>14. CASE RowFails
  <2>1. /\ UNCHANGED <<rcpt, row, try, delivered, held, hist>>
        /\ con' = [con EXCEPT !["cron"] = Free]
    BY <1>14 DEF RowFails
  <2>2. \A w \in Workers : con'[w] = con[w] \/ (w \notin Consumers /\ con'[w].pc = "free")
    BY <1>0, <2>1 DEF Free
  <2>. QED
    BY <1>1, <2>1, <2>2 DEF SendPcs
<1>. QED
  BY <1>3, <1>4, <1>5, <1>6, <1>7, <1>8, <1>9, <1>10, <1>11, <1>12, <1>13, <1>14
  DEF Next, SendOne, Works

LEMMA SendStep ==
    ASSUME Types, Types', Remembered, SendInv, Next
    PROVE  SendInv'
<1>1. CASE Still
  BY <1>1, SendStill
<1>2. ASSUME NEW c \in Workers, Finalize(c) PROVE SendInv'
  <2>1. PICK r, k : r = con[c].r /\ k = con[c].k
    OBVIOUS
  <2>2. Done(r, k)
    BY <1>2, <2>1 DEF Finalize, SendInv, Listed
  <2>. QED
    BY <1>2, <2>1, <2>2, FinalizeMoves, SendDrop
<1>3. ASSUME NEW r \in Members, NEW k \in Sends, Reconcile(r, k) PROVE SendInv'
  <2>1. Done(r, k)
    BY <1>3 DEF Reconcile, SendInv, Listed
  <2>2. CASE rcpt[r].status = "sent"
    BY <1>3, <2>1, <2>2, ReconcileMoves, SendDrop
  <2>3. CASE rcpt[r].status # "sent"
    <3>1. /\ UNCHANGED <<rcpt, row, try, delivered, hist>> /\ held' \subseteq held
          /\ con'["cron"].pc = "sent" /\ con'["cron"].r = r /\ con'["cron"].k = k
          /\ \A w \in Workers \ {"cron"} : con'[w] = con[w]
      BY <1>3, <2>3, ReconcileMoves
    <3>2. \A c \in Consumers : con'[c] = con[c]
      BY <3>1, Dom
    <3>3. Fresh'
      BY <3>1 DEF SendInv, Fresh
    <3>4. ASSUME NEW c \in Consumers, NEW q \in Members, Sending(c, q)'
          PROVE  con'[c] = con[c] /\ rcpt'[q].status \in {"processing", "sent"}
      BY <3>1, <3>2, <3>4 DEF SendInv, Claimed, Sending
    <3>5. \A q \in Members, j \in Sends : <<q, j>> \in held' => Done(q, j)
      BY <3>1 DEF SendInv, Listed
    <3>6. \A w \in Workers : con'[w].pc \in {"sent", "finalize"} => Done(con'[w].r, con'[w].k)
      BY <2>1, <3>1 DEF SendInv, Listed
    <3>. QED
      BY <3>1, <3>2, <3>3, <3>4, <3>5, <3>6, SendQuiet
  <2>. QED
    BY <2>2, <2>3
<1>4. CASE Hour
  <2>1. /\ UNCHANGED <<rcpt, row, try, delivered, hist, con>>
        /\ held' = held \/ held' = Held
    BY <1>4 DEF Hour
  <2>2. Fresh'
    BY <2>1 DEF SendInv, Fresh
  <2>3. ASSUME NEW c \in Consumers, NEW q \in Members, Sending(c, q)'
        PROVE  con'[c] = con[c] /\ rcpt'[q].status \in {"processing", "sent"}
    BY <2>1, <2>3 DEF SendInv, Claimed, Sending
  <2>4. ASSUME NEW q \in Members, NEW j \in Sends, <<q, j>> \in held' PROVE Done(q, j)
    <3>1. CASE held' = held
      BY <2>4, <3>1 DEF SendInv, Listed
    <3>2. CASE held' = Held
      BY <2>4, <3>2, HeldDone DEF Held
    <3>. QED
      BY <2>1, <3>1, <3>2
  <2>5. \A w \in Workers : con'[w].pc \in {"sent", "finalize"} => Done(con'[w].r, con'[w].k)
    BY <2>1 DEF SendInv, Listed
  <2>. QED
    BY <2>1, <2>2, <2>3, <2>4, <2>5, SendQuiet
<1>. QED
  BY <1>1, <1>2, <1>3, <1>4, StillOrWorks, SendClaim, SendAttempt, SendSettle, SendRowStep
  DEF Works

-----------------------------------------------------------------------------

LEMMA Invariance == Spec => []IInv
<1>1. Init => IInv
  BY TypesInit, RememberedInit, SendInit DEF IInv
<1>2. IInv /\ [Next]_vars => IInv'
  <2>1. SUFFICES ASSUME IInv, [Next]_vars PROVE IInv'
    OBVIOUS
  <2>2. CASE Next
    <3>1. Types'
      BY <2>1, <2>2, TypesStep DEF IInv, SendInv
    <3>2. Remembered'
      BY <2>1, <2>2, RememberedStep DEF IInv, SendInv
    <3>. QED
      BY <2>1, <2>2, <3>1, <3>2, SendStep DEF IInv
  <2>3. CASE UNCHANGED vars
    <3>1. Types' /\ Remembered'
      BY <2>1, <2>3 DEF vars, IInv, Types, Remembered
    <3>2. Still
      BY <2>3 DEF vars, Still
    <3>. QED
      BY <2>1, <3>1, <3>2, SendStill DEF IInv
  <2>. QED
    BY <2>1, <2>2, <2>3
<1>. QED
  BY <1>1, <1>2, PTL DEF Spec

\* Whatever is delivered twice, replayed, retried, cancelled, reconciled or
\* dies: at most one consumer sends to a recipient, and a recipient gets no
\* more messages than it was claimed, but for one for each acceptance that was
\* never written down.
THEOREM SentPerClaim == Spec => []OneClaimOneMessage
<1>1. ASSUME IInv PROVE OneClaimOneMessage
  <2>1. TypeOK /\ OneSender
    BY <1>1, TypesOK DEF IInv, SendInv
  <2>2. ASSUME NEW r \in Members PROVE delivered[r] <= rcpt[r].attempts + hist[r].lost
    <3>1. rcpt[r].attempts \in Nat /\ hist[r].lost \in Nat /\ delivered[r] \in Nat
      BY <1>1, Dom DEF IInv
    <3>2. Spent(r) \subseteq 1..rcpt[r].attempts
      BY DEF Spent
    <3>3. Cardinality(Spent(r)) \in Nat /\ Cardinality(Spent(r)) <= rcpt[r].attempts
      BY <3>1, <3>2, ClaimsFinite
    <3>4. delivered[r] <= Cardinality(Spent(r)) + hist[r].lost
      BY <1>1 DEF IInv, SendInv, Delivered
    <3>. QED
      BY <3>1, <3>3, <3>4
  <2>. QED
    BY <2>1, <2>2 DEF OneClaimOneMessage, OnePerClaim
<1>. QED
  BY <1>1, Invariance, PTL

-----------------------------------------------------------------------------
(* Nobody is lost: the enumeration, the accepted messages, the closing.    *)

\* A member the enumeration is done with: a recipient, and if nothing was sent
\* to it yet, one with a message in the queue, or one that was given up.
In(r) == /\ rcpt[r].status # "none"
         /\ rcpt[r].status = "queued" => sendq[r] > 0 \/ hist[r].dropped

\* A cursor, kept or remembered, has nobody behind it that is not in.
Enumerated ==
    /\ \A s \in Starters, r \in Members :
         r <= job[s].cursor \/ job[s].status = "completed" => In(r)
    /\ \A c \in Workers, r \in Members :
         /\ con[c].pc \in FanPcs /\ r <= con[c].cursor => In(r)
         /\ con[c].pc = "publish" /\ r \in Page(con[c].cursor) => rcpt[r].status # "none"
         /\ con[c].pc \in {"advance", "next"} /\ r <= con[c].cursor + PageSize => In(r)

\* A consumer on the first claim of r, with another outcome than an acceptance
\* before it, and no user's retry overtaking it ...
First(c, r) ==
    /\ Sending(c, r) /\ con[c].pc # "sent"
    /\ rcpt[r].attempts = 1 /\ ~hist[r].overtaken

\* ... has it to itself: nobody else accepts, lists or records the message, and
\* an outcome it is about to record has left no row to try again.
Undone(c, r) ==
    /\ rcpt[r].status = "processing" /\ try[r][1] = "none" /\ row[r][1] # "bookkeeping_pending"
    /\ <<r, 1>> \notin held
    /\ \A w \in Workers : con[w].pc \in {"sent", "finalize"} => con[w].r # r
    /\ con[c].pc = "suppressed" => row[r][1] = "none"
    /\ con[c].pc = "failed" => row[r][1] # "pending"

Refused == \A c \in Consumers, r \in Members : First(c, r) => Undone(c, r)

\* On its first claim, a message whose acceptance was not lost is told by its
\* recipient or by its row, and the row is deleted only behind the recipient.
Told ==
    /\ \A r \in Members :
         delivered[r] > hist[r].lost /\ rcpt[r].attempts = 1 /\ ~hist[r].overtaken =>
             rcpt[r].status = "sent" \/ InBooks(r, 1)
    /\ \A w \in Workers :
         con[w].pc = "finalize" /\ rcpt[con[w].r].attempts = 1 /\ ~hist[con[w].r].overtaken =>
             rcpt[con[w].r].status = "sent"

TellInv == Refused /\ Told

\* Everybody is settled as a campaign that closes as x says.
Sound(x) ==
    \A r \in Members :
        \/ rcpt[r].attempts > 1 \/ hist[r].overtaken
        \/ rcpt[r].status \in Settled \ (IF x = "sent" THEN {"permanent_failed"} ELSE {})

\* A campaign is closed, or about to be, over settled recipients; what a start
\* may put back is no closed campaign.
Closing ==
    /\ status \in Closed => Sound(status)
    /\ \A w \in Workers : con[w].pc = "close" => con[w].seen \in Closed /\ Sound(con[w].seen)
    /\ \A s \in Starters : act[s].pc \in {"send", "prepared"} => act[s].seen \notin Closed

LostInv == Enumerated /\ TellInv /\ Closing

LEMMA LostInit == Init => LostInv
<1> SUFFICES ASSUME Init PROVE LostInv
  OBVIOUS
<1>1. \A c \in Workers : con[c].pc = "free"
  BY DEF Init, Free
<1>2. Enumerated
  BY <1>1, Bounds DEF Init, Enumerated, FanPcs
<1>3. Told
  BY <1>1, Bounds DEF Init, Told
<1>4. Refused
  BY <1>1, Bounds DEF Refused, First, Sending, Answers
<1>5. Closing
  BY <1>1 DEF Init, Closing, Closed, Idle
<1>. QED
  BY <1>2, <1>3, <1>4, <1>5 DEF LostInv, TellInv

-----------------------------------------------------------------------------
(* The enumeration.                                                        *)

\* Nobody who is in falls out, whatever the step.
Stays == \A r \in Members : /\ rcpt[r].status # "none" => rcpt'[r].status # "none"
                            /\ In(r) => In(r)'

LEMMA StaysWhenQueued ==
    ASSUME Types, rcpt' = rcpt,
           \A r \in Members : sendq'[r] \in Nat /\ sendq'[r] >= sendq[r],
           \A r \in Members : hist[r].dropped => hist'[r].dropped \/ sendq'[r] > 0
    PROVE  Stays
BY Dom DEF Stays, In

LEMMA NobodyDrops == ASSUME IInv, Types', Next PROVE Stays
<1>0. /\ Types /\ Remembered /\ SendInv
      /\ \A r \in Members : hist[r] \in HistType
      /\ hist \in [Members -> HistType] /\ con \in [Workers -> ConType]
  BY Dom DEF IInv
<1>1. CASE Routes
  <2>1. rcpt' = rcpt
    BY <1>1 DEF Routes, Request, Schedule, Cancel, CancelJobs, Retry, Requeue
  <2>2. \A r \in Members : sendq'[r] \in Nat /\ sendq'[r] >= sendq[r]
    BY <1>0, <1>1, Dom DEF Routes, Request, Schedule, Cancel, CancelJobs, Retry, Requeue
  <2>3. \A r \in Members : hist[r].dropped => hist'[r].dropped \/ sendq'[r] > 0
    BY <1>0, <1>1, Dom DEF Routes, Request, Schedule, Cancel, CancelJobs, Retry, Requeue
  <2>. QED
    BY <1>0, <2>1, <2>2, <2>3, StaysWhenQueued
<1>2. CASE rcpt' = rcpt /\ sendq' = sendq /\ \A r \in Members : hist'[r].dropped = hist[r].dropped
  BY <1>2 DEF Stays, In
<1>3. ASSUME NEW s \in Starters, Start(s) \/ Abort(s) PROVE Stays
  BY <1>2, <1>3 DEF Start, Begin, Prepare, Launch, Announce, Abort
<1>4. ASSUME NEW c \in Consumers, FanOut(c) PROVE Stays
  <2>1. CASE InsertPage(c)
    <3>1. sendq' = sendq /\ hist' = hist
      BY <2>1 DEF InsertPage
    <3>2. \A r \in Members : rcpt[r].status # "none" => rcpt'[r] = rcpt[r]
      BY <2>1, <1>0, Dom DEF InsertPage
    <3>. QED
      BY <3>1, <3>2 DEF Stays, In
  <2>2. CASE PublishPage(c)
    <3>1. /\ rcpt' = rcpt /\ hist' = hist
          /\ \A r \in Members : sendq'[r] \in Nat /\ sendq'[r] >= sendq[r]
      BY <2>2, <1>0, Dom DEF PublishPage
    <3>. QED
      BY <1>0, <3>1, StaysWhenQueued
  <2>. QED
    BY <1>2, <1>4, <2>1, <2>2 DEF FanOut, TakeFanOut, MarkSending, AdvanceCursor, NextPage
<1>5. ASSUME NEW c \in Consumers, NEW q \in Members, Claim(c, q) PROVE Stays
  <2>1. /\ \A r \in Members \ {q} : sendq'[r] = sendq[r] /\ rcpt'[r] = rcpt[r]
        /\ hist' = hist
    BY <1>0, <1>5, Dom DEF Claim
  <2>2. CASE Claims(q)
    <3>1. rcpt'[q].status = "processing"
      BY <1>0, <1>5, <2>2, Dom DEF Claim
    <3>. QED
      BY <2>1, <3>1 DEF Stays, In
  <2>3. CASE ~Claims(q)
    <3>1. rcpt' = rcpt /\ rcpt[q].status # "queued"
      BY <1>5, <2>3 DEF Claim, Claims, Claimable
    <3>. QED
      BY <2>1, <3>1 DEF Stays, In
  <2>. QED
    BY <2>2, <2>3
<1>6. ASSUME NEW r \in Members, NEW ans \in Answers, Answer(r, ans)
      PROVE  \A q \in Members : hist'[q].dropped = hist[q].dropped
  BY <1>0, <1>6, AnswerMoves
<1>7. ASSUME NEW c \in Consumers, WriteAhead(c) \/ Call(c) \/ Resolve(c) PROVE Stays
  <2>1. rcpt' = rcpt /\ sendq' = sendq
    BY <1>7 DEF WriteAhead, Call, Resolve
  <2>2. \A q \in Members : hist'[q].dropped = hist[q].dropped
    <3>1. CASE Call(c)
      <4>1. con[c].r \in Members
        BY <1>0, Dom
      <4>2. PICK ans \in Answers : Answer(con[c].r, ans)
        BY <3>1, CampaignAssumption DEF Call
      <4>. QED
        BY <1>6, <4>1, <4>2
    <3>. QED
      BY <1>7, <3>1 DEF WriteAhead, Resolve
  <2>. QED
    BY <1>2, <2>1, <2>2
<1>8. ASSUME NEW c \in Consumers, Die(c) \/ Throw(c) PROVE Stays
  <2>1. rcpt' = rcpt /\ con[c].r \in Members
    BY <1>0, <1>8, Dom DEF Die, Throw
  <2>2. \A r \in Members : sendq'[r] \in Nat /\ sendq'[r] >= sendq[r]
    BY <1>0, <1>8, <2>1, Dom DEF Die, Throw, Returned
  <2>3. \A r \in Members : hist'[r].dropped = hist[r].dropped
    BY <1>0, <1>8, <2>1 DEF Die, Throw, HistType
  <2>. QED
    BY <1>0, <2>1, <2>2, <2>3, StaysWhenQueued
<1>9. ASSUME NEW c \in Workers, Bookkeep(c) PROVE Stays
  <2>1. CASE Settle(c)
    <3>1. /\ sendq' = sendq /\ hist' = hist
          /\ \A r \in Members : \/ rcpt'[r] = rcpt[r]
                                \/ rcpt'[r].status \in {"sent", "suppressed", "retrying",
                                                        "permanent_failed"}
      BY <1>0, <2>1, Dom DEF Settle, SetRcpt, Recorded, RcptType
    <3>. QED
      BY <3>1 DEF Stays, In
  <2>. QED
    BY <1>2, <1>9, <2>1 DEF Bookkeep, Finalize, Check, Close
<1>10. ASSUME NEW r \in Members, NEW k \in Sends, RowStep(r, k) PROVE Stays
  <2>1. rcpt' = rcpt /\ sendq' = sendq
    BY <1>10 DEF RowStep, OutboxTry, OutboxWrite, OutboxDie, CancelRow, ReviveRow
  <2>2. \A q \in Members : hist'[q].dropped = hist[q].dropped
    <3>1. CASE OutboxTry(r, k)
      BY <1>6, <3>1, CampaignAssumption DEF OutboxTry
    <3>2. CASE OutboxDie(r, k)
      BY <1>0, <3>2 DEF OutboxDie, HistType
    <3>3. CASE ReviveRow(r, k)
      <4>1. PICK b : hist' = [hist EXCEPT ![r].overtaken = b]
        BY <3>3 DEF ReviveRow
      <4>. QED
        BY <1>0, <4>1 DEF HistType
    <3>. QED
      BY <1>10, <3>1, <3>2, <3>3 DEF RowStep, OutboxWrite, CancelRow
  <2>. QED
    BY <1>2, <2>1, <2>2
<1>11. CASE Pass \/ Hour \/ RowFails
  BY <1>2, <1>11 DEF Pass, Reconcile, Reconciled, Sweep, Refresh, Hour, RowFails
<1>12. CASE Duplicate
  <2>1. rcpt' = rcpt /\ hist' = hist
    BY <1>12 DEF Duplicate
  <2>2. \A r \in Members : sendq'[r] \in Nat /\ sendq'[r] >= sendq[r]
    BY <1>0, <1>12, Dom DEF Duplicate
  <2>. QED
    BY <1>0, <2>1, <2>2, StaysWhenQueued
<1>13. ASSUME NEW r \in Members, GiveUp(r) PROVE Stays
  <2>1. /\ rcpt' = rcpt /\ hist'[r].dropped
        /\ \A q \in Members \ {r} : hist'[q] = hist[q] /\ sendq'[q] = sendq[q]
    BY <1>0, <1>13, Dom DEF GiveUp, HistType
  <2>. QED
    BY <2>1 DEF Stays, In
<1>. QED
  BY <1>1, <1>3, <1>4, <1>5, <1>7, <1>8, <1>9, <1>10, <1>11, <1>12, <1>13 DEF Next, SendOne

\* No cursor goes forward, and nobody takes a page up.
LEMMA EnumeratedQuiet ==
    ASSUME Types, Enumerated, Stays,
           \A s \in Starters : \/ job'[s] = job[s]
                               \/ job'[s] = [status |-> "running", cursor |-> 0]
                               \/ job'[s] = [job[s] EXCEPT !.status = "cancelled"],
           \A c \in Workers : con'[c] = con[c] \/ con'[c].pc \notin FanPcs
    PROVE  Enumerated'
<1>1. ASSUME NEW s \in Starters, NEW r \in Members,
             r <= job'[s].cursor \/ job'[s].status = "completed"
      PROVE  In(r)'
  <2>1. r <= job[s].cursor \/ job[s].status = "completed"
    <3>1. job[s] \in JobType /\ r \in Nat \ {0}
      BY Dom, Bounds
    <3>2. CASE job'[s] = [status |-> "running", cursor |-> 0]
      BY <1>1, <3>1, <3>2
    <3>3. CASE job'[s] = [job[s] EXCEPT !.status = "cancelled"]
      BY <1>1, <3>1, <3>3 DEF JobType
    <3>. QED
      BY <1>1, <3>2, <3>3
  <2>. QED
    BY <2>1 DEF Enumerated, Stays
<1>2. ASSUME NEW c \in Workers, NEW r \in Members
      PROVE  /\ con'[c].pc \in FanPcs /\ r <= con'[c].cursor => In(r)'
             /\ con'[c].pc = "publish" /\ r \in Page(con'[c].cursor) => rcpt'[r].status # "none"
             /\ con'[c].pc \in {"advance", "next"} /\ r <= con'[c].cursor + PageSize => In(r)'
  BY DEF Enumerated, Stays, FanPcs
<1>. QED
  BY <1>1, <1>2 DEF Enumerated

\* A short page leaves nobody after it.
LEMMA ShortPage ==
    ASSUME NEW cursor \in 0..Last, Cardinality(Page(cursor)) < PageSize
    PROVE  Last <= cursor + PageSize
<1>0. Last \in Nat /\ PageSize \in Nat /\ cursor \in Nat
  BY Bounds
<1>1. SUFFICES ASSUME cursor + PageSize < Last PROVE FALSE
  BY <1>0, <1>1
<1>2. Page(cursor) = (cursor + 1)..(cursor + PageSize)
  BY <1>0, <1>1 DEF Page, Members
<1>3. Cardinality((cursor + 1)..(cursor + PageSize)) = PageSize
  BY <1>0, FS_Interval
<1>. QED
  BY <1>0, <1>2, <1>3

\* A step of the coordinator.
LEMMA EnumeratedFanOut ==
    ASSUME IInv, Types', Enumerated, Stays, NEW c \in Consumers, FanOut(c)
    PROVE  Enumerated'
<1>0. Types /\ Remembered /\ c \in Workers
  BY Bounds DEF IInv
<1>01. /\ con \in [Workers -> ConType] /\ job \in [Starters -> JobType]
       /\ con[c] \in ConType /\ con[c].cursor \in 0..Last /\ con[c].cursor \in Nat
       /\ PageSize \in Nat \ {0} /\ Last \in Nat \ {0}
       /\ \A r \in Members : r \in Nat
  BY <1>0, Dom, Bounds
<1> DEFINE cur == con[c].cursor
<1>1. ASSUME NEW s \in Starters, TakeFanOut(c, s) PROVE Enumerated'
  <2>1. job' = job /\ \A d \in Workers \ {c} : con'[d] = con[d]
    BY <1>01, <1>1 DEF TakeFanOut
  <2>2. \/ con'[c] = con[c]
        \/ con'[c].pc \in {"mark", "page"} /\ con'[c].cursor = job[s].cursor
    BY <1>0, <1>01, <1>1 DEF TakeFanOut, Free
  <2>3. CASE con'[c] = con[c]
    BY <1>0, <2>1, <2>3, EnumeratedQuiet
  <2>4. CASE con'[c].pc \in {"mark", "page"} /\ con'[c].cursor = job[s].cursor
    BY <2>1, <2>4 DEF Enumerated, Stays, FanPcs
  <2>. QED
    BY <2>2, <2>3, <2>4
<1>2. ASSUME MarkSending(c) \/ InsertPage(c) \/ PublishPage(c) PROVE Enumerated'
  <2>1. job' = job /\ \A d \in Workers \ {c} : con'[d] = con[d]
    BY <1>01, <1>2 DEF MarkSending, InsertPage, PublishPage
  <2>2. con'[c].cursor = cur /\ con[c].pc \in FanPcs
    BY <1>0, <1>01, <1>2 DEF MarkSending, InsertPage, PublishPage, ConType, FanPcs
  <2>3. \A r \in Members : r <= cur => In(r)'
    BY <1>0, <2>2 DEF Enumerated, Stays
  <2>4. ASSUME con'[c].pc = "publish", NEW r \in Page(cur) PROVE rcpt'[r].status # "none"
    <3>1. InsertPage(c)
      BY <1>0, <1>01, <1>2, <2>4 DEF MarkSending, PublishPage, ConType
    <3>2. r \in Members
      BY DEF Page
    <3>. QED
      BY <1>0, <3>1, <3>2, Dom DEF InsertPage
  <2>5. ASSUME con'[c].pc \in {"advance", "next"}, NEW r \in Members, r <= cur + PageSize
        PROVE  In(r)'
    <3>1. CASE r <= cur
      BY <2>3, <3>1
    <3>2. CASE ~(r <= cur)
      <4>1. r \in Page(cur)
        BY <1>01, <2>5, <3>2 DEF Page
      <4>2. PublishPage(c)
        BY <1>0, <1>01, <1>2, <2>5, <4>1 DEF MarkSending, InsertPage, AfterInsert, ConType
      <4>3. rcpt[r].status # "none" /\ rcpt' = rcpt
        BY <1>0, <4>1, <4>2 DEF Enumerated, PublishPage
      <4>4. sendq'[r] = sendq[r] + 1 /\ sendq[r] \in Nat
        BY <1>0, <4>1, <4>2, Dom DEF PublishPage
      <4>. QED
        BY <4>3, <4>4 DEF In
    <3>. QED
      BY <3>1, <3>2
  <2>6. \A s \in Starters, r \in Members :
          r <= job'[s].cursor \/ job'[s].status = "completed" => In(r)'
    BY <2>1 DEF Enumerated, Stays
  <2>7. \A d \in Workers \ {c}, r \in Members :
          /\ con'[d].pc \in FanPcs /\ r <= con'[d].cursor => In(r)'
          /\ con'[d].pc = "publish" /\ r \in Page(con'[d].cursor) => rcpt'[r].status # "none"
          /\ con'[d].pc \in {"advance", "next"} /\ r <= con'[d].cursor + PageSize => In(r)'
    BY <2>1 DEF Enumerated, Stays
  <2>8. \A d \in Workers : d = c \/ d \in Workers \ {c}
    OBVIOUS
  <2>. QED
    BY <2>2, <2>3, <2>4, <2>5, <2>6, <2>7, <2>8 DEF Enumerated
<1>3. CASE AdvanceCursor(c)
  <2>1. \A d \in Workers \ {c} : con'[d] = con[d]
    BY <1>01, <1>3 DEF AdvanceCursor
  <2>2. con'[c].cursor = cur /\ con'[c].pc = "next" /\ con[c].pc = "advance"
    BY <1>0, <1>01, <1>3 DEF AdvanceCursor, ConType
  <2>3. con[c].of \in Starters
    BY <1>0, <2>2 DEF Remembered, FanPcs
  <2>4. \A r \in Members : r <= cur \/ r <= cur + PageSize => In(r)'
    BY <1>0, <2>2 DEF Enumerated, Stays, FanPcs
  <2>5. \A s \in Starters :
          \/ job'[s] = job[s]
          \/ job'[s].status = job[s].status /\ job'[s].cursor <= cur + PageSize
                /\ job'[s].cursor \in Nat
    BY <1>01, <1>3, <2>3 DEF AdvanceCursor, JobType
  <2>6. \A s \in Starters, r \in Members :
          r <= job'[s].cursor \/ job'[s].status = "completed" => In(r)'
    BY <1>01, <2>4, <2>5 DEF Enumerated, Stays
  <2>7. \A d \in Workers, r \in Members :
          /\ con'[d].pc \in FanPcs /\ r <= con'[d].cursor => In(r)'
          /\ con'[d].pc = "publish" /\ r \in Page(con'[d].cursor) => rcpt'[r].status # "none"
          /\ con'[d].pc \in {"advance", "next"} /\ r <= con'[d].cursor + PageSize => In(r)'
    BY <2>1, <2>2, <2>4 DEF Enumerated, Stays
  <2>. QED
    BY <2>6, <2>7 DEF Enumerated
<1>4. CASE NextPage(c)
  <2>1. \A d \in Workers : con'[d] = con[d] \/ con'[d].pc \notin FanPcs
    BY <1>0, <1>01, <1>4 DEF NextPage, Free, FanPcs, ConType
  <2>2. con[c].of \in Starters /\ con[c].pc = "next"
    BY <1>0, <1>4 DEF NextPage, Remembered, FanPcs
  <2>3. CASE Cardinality(Page(cur)) < PageSize
    <3>1. \A r \in Members : r <= cur + PageSize
      BY <1>01, <2>3, ShortPage DEF Members
    <3>2. \A r \in Members : In(r)'
      BY <1>0, <2>2, <3>1 DEF Enumerated, Stays
    <3>3. \A d \in Workers, r \in Members :
            con'[d].pc = "publish" /\ r \in Page(con'[d].cursor) => rcpt'[r].status # "none"
      BY <3>2 DEF In
    <3>. QED
      BY <3>2, <3>3 DEF Enumerated
  <2>4. CASE ~(Cardinality(Page(cur)) < PageSize)
    <3>1. job' = job
      BY <1>4, <2>4 DEF NextPage
    <3>. QED
      BY <1>0, <2>1, <3>1, EnumeratedQuiet
  <2>. QED
    BY <2>3, <2>4
<1>. QED
  BY <1>1, <1>2, <1>3, <1>4 DEF FanOut

\* Who does not run the coordinator does not come to run it.
LEMMA OffThePage ==
    ASSUME Types, Remembered, SendInv, Next, \A c \in Consumers : ~FanOut(c)
    PROVE  \A w \in Workers : con'[w] = con[w] \/ con'[w].pc \notin FanPcs
<1>0. /\ con \in [Workers -> ConType] /\ Consumers \subseteq Workers
      /\ \A w \in Workers : con[w] \in ConType
  BY Dom
<1>1. CASE Routes \/ Hour \/ Duplicate \/ \E r \in Members : GiveUp(r)
  BY <1>1 DEF Routes, Request, Schedule, Cancel, CancelJobs, Retry, Requeue, Hour, Duplicate,
              GiveUp
<1>2. ASSUME NEW s \in Starters, Start(s) \/ Abort(s)
      PROVE  \A w \in Workers : con'[w] = con[w] \/ con'[w].pc \notin FanPcs
  BY <1>0, <1>2 DEF Start, Begin, Prepare, Launch, Announce, Abort, Free, FanPcs
<1>3. ASSUME NEW c \in Consumers, NEW r \in Members, Claim(c, r)
      PROVE  \A w \in Workers : con'[w] = con[w] \/ con'[w].pc \notin FanPcs
  BY <1>0, <1>3 DEF Claim, Free, FanPcs
<1>4. ASSUME NEW c \in Consumers, con[c].pc \in SendPcs,
             WriteAhead(c) \/ Call(c) \/ Resolve(c) \/ Throw(c) \/ Die(c)
      PROVE  \A w \in Workers : con'[w] = con[w] \/ con'[w].pc \notin FanPcs
  <2>1. PICK r, k : r = con[c].r /\ k = con[c].k
    OBVIOUS
  <2>2. OnlyRow(r, k) /\ AttemptStep(c, r, k) /\ \A w \in Workers \ {c} : con'[w] = con[w]
    BY <1>4, <2>1, AttemptMoves
  <2>3. con'[c].pc \notin FanPcs
    BY <2>2 DEF AttemptStep, Answers, OutcomeOf, FanPcs
  <2>. QED
    BY <2>2, <2>3
<1>5. ASSUME NEW c \in Consumers, Die(c) \/ Throw(c)
      PROVE  \A w \in Workers : con'[w] = con[w] \/ con'[w].pc \notin FanPcs
  BY <1>0, <1>5 DEF Die, Throw, Free, FanPcs
<1>6. ASSUME NEW c \in Consumers, WriteAhead(c) \/ Call(c) \/ Resolve(c) PROVE con[c].pc \in SendPcs
  BY <1>6 DEF WriteAhead, Call, Resolve, SendPcs, Answers
<1>7. ASSUME NEW c \in Workers, Bookkeep(c)
      PROVE  \A w \in Workers : con'[w] = con[w] \/ con'[w].pc \notin FanPcs
  <2>1. CASE Settle(c)
    BY <2>1, SettleMoves DEF FanPcs
  <2>2. CASE Finalize(c)
    BY <2>2, FinalizeMoves DEF FanPcs
  <2>3. CASE Check(c)
    BY <2>3, CheckMoves DEF Free, FanPcs
  <2>4. CASE Close(c)
    BY <1>0, <2>4 DEF Close, Free, FanPcs
  <2>. QED
    BY <1>7, <2>1, <2>2, <2>3, <2>4 DEF Bookkeep
<1>8. ASSUME NEW r \in Members, NEW k \in Sends, RowStep(r, k)
      PROVE  \A w \in Workers : con'[w] = con[w] \/ con'[w].pc \notin FanPcs
  BY <1>8, RowMoved
<1>9. ASSUME NEW r \in Members, NEW k \in Sends, Reconcile(r, k)
      PROVE  \A w \in Workers : con'[w] = con[w] \/ con'[w].pc \notin FanPcs
  BY <1>9, ReconcileMoves DEF FanPcs
<1>10. CASE Reconciled \/ Sweep \/ Refresh \/ RowFails
  BY <1>0, <1>10 DEF Reconciled, Sweep, Refresh, RowFails, Free, FanPcs
<1>. QED
  BY <1>1, <1>2, <1>3, <1>4, <1>5, <1>6, <1>7, <1>8, <1>9, <1>10 DEF Next, SendOne, Pass

LEMMA EnumeratedStep == ASSUME IInv, Types', Enumerated, Next PROVE Enumerated'
<1>0. Types /\ Remembered /\ SendInv /\ Stays
  BY NobodyDrops DEF IInv
<1>1. ASSUME NEW c \in Consumers, FanOut(c) PROVE Enumerated'
  BY <1>0, <1>1, EnumeratedFanOut
<1>2. CASE \A c \in Consumers : ~FanOut(c)
  <2>1. \A w \in Workers : con'[w] = con[w] \/ con'[w].pc \notin FanPcs
    BY <1>0, <1>2, OffThePage
  <2>2. \A s \in Starters : \/ job'[s] = job[s]
                            \/ job'[s] = [status |-> "running", cursor |-> 0]
                            \/ job'[s] = [job[s] EXCEPT !.status = "cancelled"]
    <3>1. \A s \in Starters : Launch(s) =>
            \A t \in Starters : job'[t] = job[t] \/ job'[t] = [status |-> "running", cursor |-> 0]
      BY <1>0, Dom DEF Launch
    <3>2. CancelJobs => \A t \in Starters : \/ job'[t] = job[t]
                                            \/ job'[t] = [job[t] EXCEPT !.status = "cancelled"]
      BY DEF CancelJobs
    <3>3. job' = job \/ CancelJobs \/ \E s \in Starters : Launch(s)
      BY <1>2 DEF Next, Routes, Request, Schedule, Cancel, Retry, Requeue, Start, Begin, Prepare,
                  Announce, Abort, SendOne, Claim, WriteAhead, Call, Resolve, Die, Throw, Bookkeep,
                  Settle, Finalize, Check, Close, GiveUp, RowStep, OutboxTry, OutboxWrite,
                  OutboxDie, CancelRow, ReviveRow, Pass, Reconcile, Reconciled, Sweep, Refresh,
                  RowFails, Hour, Duplicate
    <3>. QED
      BY <3>1, <3>2, <3>3
  <2>. QED
    BY <1>0, <2>1, <2>2, EnumeratedQuiet
<1>. QED
  BY <1>1, <1>2

-----------------------------------------------------------------------------
(* What was accepted on a first claim.                                     *)

LEMMA TellStill == ASSUME IInv, TellInv, Still PROVE TellInv'
<1>0. /\ Types /\ SendInv /\ Consumers \subseteq Workers
      /\ row' = row /\ try' = try /\ delivered' = delivered /\ held' \subseteq held
      /\ \A w \in Workers : \/ con'[w] = con[w]
                            \/ /\ con'[w].pc \notin SendPcs \cup {"finalize"}
                               /\ w \in Consumers => con[w].pc # "accepted"
      /\ \A w \in Workers : con[w].r \in Members
  BY Dom DEF IInv, Still
<1>1. ASSUME NEW r \in Members, rcpt'[r].attempts = 1
      PROVE  rcpt'[r] = rcpt[r] /\ rcpt[r].attempts = 1
  BY <1>1 DEF Still
<1>2. \A r \in Members : /\ hist'[r].lost = hist[r].lost
                         /\ hist'[r].overtaken = hist[r].overtaken
  BY DEF Still
<1>3. ASSUME NEW c \in Consumers, NEW r \in Members, First(c, r)' PROVE Undone(c, r)'
  <2>1. con'[c] = con[c]
    BY <1>0, <1>3 DEF First, Sending, SendPcs, Answers
  <2>2. First(c, r)
    BY <1>1, <1>2, <1>3, <2>1 DEF First, Sending
  <2>3. Undone(c, r)
    BY <2>2 DEF TellInv, Refused
  <2>4. \A w \in Workers : con'[w].pc \in {"sent", "finalize"} => con'[w] = con[w]
    BY <1>0 DEF SendPcs
  <2>5. rcpt'[r] = rcpt[r]
    BY <1>1, <1>3 DEF First
  <2>. QED
    BY <1>0, <2>1, <2>3, <2>4, <2>5 DEF Undone
<1>4. ASSUME NEW r \in Members, delivered'[r] > hist'[r].lost, rcpt'[r].attempts = 1,
             ~hist'[r].overtaken
      PROVE  rcpt'[r].status = "sent" \/ InBooks(r, 1)'
  <2>1. rcpt[r].status = "sent" \/ InBooks(r, 1)
    BY <1>0, <1>1, <1>2, <1>4 DEF TellInv, Told
  <2>2. InBooks(r, 1) => InBooks(r, 1)'
    BY <1>0 DEF InBooks
  <2>. QED
    BY <1>1, <1>4, <2>1, <2>2
<1>5. ASSUME NEW w \in Workers, con'[w].pc = "finalize", rcpt'[con'[w].r].attempts = 1,
             ~hist'[con'[w].r].overtaken
      PROVE  rcpt'[con'[w].r].status = "sent"
  BY <1>0, <1>1, <1>2, <1>5 DEF TellInv, Told
<1>. QED
  BY <1>3, <1>4, <1>5 DEF TellInv, Refused, Told

\* A step about one row: what is to show of its recipient.
LEMMA TellRow ==
    ASSUME IInv, TellInv, NEW r \in Members, NEW k \in Sends, OnlyRow(r, k),
           \A c \in Consumers : First(c, r)' /\ First(c, r) /\ Undone(c, r) => Undone(c, r)',
           delivered'[r] > hist'[r].lost /\ rcpt'[r].attempts = 1 /\ ~hist'[r].overtaken =>
               rcpt'[r].status = "sent" \/ InBooks(r, 1)'
    PROVE  TellInv'
<1>0. /\ Consumers \subseteq Workers /\ rcpt' = rcpt /\ held' \subseteq held
      /\ \A w \in Workers : con'[w] = con[w] \/ Leaves(w, r, k)
      /\ \A q \in Members, j \in Sends :
           q # r \/ j # k => row'[q][j] = row[q][j] /\ try'[q][j] = try[q][j]
      /\ \A q \in Members \ {r} : delivered'[q] = delivered[q] /\ hist'[q] = hist[q]
      /\ hist[r].overtaken => hist'[r].overtaken
      /\ 1 \in Sends
  BY Dom, Bounds DEF OnlyRow, IInv
<1>1. ASSUME NEW c \in Consumers, NEW q \in Members, First(c, q)' PROVE Undone(c, q)'
  <2>1. First(c, q)
    BY <1>0, <1>1 DEF First, Sending, Leaves, SendPcs, Answers
  <2>2. Undone(c, q)
    BY <2>1 DEF TellInv, Refused
  <2>3. CASE q = r
    BY <1>1, <2>1, <2>2, <2>3
  <2>4. CASE q # r
    <3>1. con'[c] = con[c]
      BY <1>0, <2>1, <2>4 DEF First, Sending, Leaves
    <3>2. \A w \in Workers : con'[w].pc \in {"sent", "finalize"} => con'[w] = con[w] \/ con'[w].r = r
      BY <1>0 DEF Leaves, SendPcs
    <3>. QED
      BY <1>0, <2>2, <2>4, <3>1, <3>2 DEF Undone
  <2>. QED
    BY <2>3, <2>4
<1>2. ASSUME NEW q \in Members \ {r}, delivered'[q] > hist'[q].lost, rcpt'[q].attempts = 1,
             ~hist'[q].overtaken
      PROVE  rcpt'[q].status = "sent" \/ InBooks(q, 1)'
  <2>1. rcpt[q].status = "sent" \/ InBooks(q, 1)
    BY <1>0, <1>2 DEF TellInv, Told
  <2>2. ASSUME InBooks(q, 1) PROVE InBooks(q, 1)'
    <3>1. \A c \in Consumers : con[c].r = q => con'[c] = con[c]
      BY <1>0 DEF Leaves
    <3>. QED
      BY <1>0, <2>2, <3>1 DEF InBooks
  <2>. QED
    BY <1>0, <2>1, <2>2
<1>3. ASSUME NEW w \in Workers, con'[w].pc = "finalize", rcpt'[con'[w].r].attempts = 1,
             ~hist'[con'[w].r].overtaken
      PROVE  rcpt'[con'[w].r].status = "sent"
  <2>1. con'[w] = con[w] /\ con[w].r \in Members
    BY <1>0, <1>3, Dom DEF Leaves, IInv
  <2>2. ~hist[con[w].r].overtaken
    BY <1>0, <1>3, <2>1
  <2>. QED
    BY <1>0, <1>3, <2>1, <2>2 DEF TellInv, Told
<1>. QED
  BY <1>1, <1>2, <1>3 DEF TellInv, Refused, Told

\* The count of messages on a first claim.
LEMMA AtMostOne ==
    ASSUME IInv, NEW r \in Members
    PROVE  /\ rcpt[r].attempts = 0 => delivered[r] <= hist[r].lost
           /\ rcpt[r].attempts = 1 => delivered[r] <= hist[r].lost + 1
<1>1. /\ delivered[r] <= Cardinality(Spent(r)) + hist[r].lost
      /\ rcpt[r].attempts \in Nat /\ hist[r].lost \in Nat /\ delivered[r] \in Nat
  BY Dom DEF IInv, SendInv, Delivered
<1>2. Spent(r) \subseteq 1..rcpt[r].attempts
  BY DEF Spent
<1>3. Cardinality(Spent(r)) \in Nat /\ Cardinality(Spent(r)) <= rcpt[r].attempts
  BY <1>1, <1>2, ClaimsFinite
<1>. QED
  BY <1>1, <1>3

\* An acceptance goes from the provider to the consumer to the row.
LEMMA TellAttempt ==
    ASSUME IInv, TellInv, NEW c \in Consumers, con[c].pc \in SendPcs,
           WriteAhead(c) \/ Call(c) \/ Resolve(c) \/ Throw(c) \/ Die(c)
    PROVE  TellInv'
<1>. PICK r, k : r = con[c].r /\ k = con[c].k
  OBVIOUS
<1>0. Types /\ SendInv /\ Consumers \subseteq Workers /\ 1 \in Sends
  BY Dom, Bounds DEF IInv
<1>01. /\ r \in Members /\ k \in Sends /\ k = rcpt[r].attempts
       /\ con[c].pc = "claimed" => row[r][k] = "none" /\ try[r][k] = "none"
       /\ con[c].pc \in Answers \cup {"written"} => row[r][k] = "pending" /\ try[r][k] = "none"
       /\ \A d \in Consumers \ {c} : ~Sending(d, r)
  BY <1>0, Alone
<1>1. /\ r \in Members /\ k \in Sends /\ k = rcpt[r].attempts /\ c \in Workers /\ 1 \in Sends
      /\ con[c].pc = "claimed" => row[r][k] = "none" /\ try[r][k] = "none"
      /\ con[c].pc \in Answers \cup {"written"} => row[r][k] = "pending" /\ try[r][k] = "none"
      /\ \A d \in Consumers \ {c} : ~Sending(d, r)
      /\ delivered[r] \in Nat /\ hist[r].lost \in Nat
  BY <1>0, <1>01, Dom
<1>2. /\ OnlyRow(r, k) /\ AttemptStep(c, r, k)
      /\ con'[c].pc # "free" => con'[c].r = r /\ con'[c].k = k
      /\ \A w \in Workers \ {c} : con'[w] = con[w]
      /\ hist'[r].overtaken = hist[r].overtaken
  BY <1>0, <1>1, AttemptMoves
<1>3. /\ rcpt' = rcpt /\ held' \subseteq held /\ c \notin {"cron"}
      /\ \A d \in Consumers \ {c} : con'[d] = con[d]
  BY <1>0, <1>2, Dom DEF OnlyRow
<1>4. ASSUME NEW d \in Consumers, First(d, r)', First(d, r), Undone(d, r) PROVE Undone(d, r)'
  <2>1. d = c /\ k = 1 /\ con'[c].pc # "free"
    BY <1>1, <1>3, <1>4 DEF First, Sending, Answers
  <2>2. \A w \in Workers : con'[w].pc \in {"sent", "finalize"} => con'[w].r # r
    <3>1. con'[c].pc # "sent"
      BY <1>4, <2>1 DEF First
    <3>2. con'[c].pc # "finalize"
      BY <1>2, <2>1 DEF AttemptStep, Answers, OutcomeOf
    <3>. QED
      BY <1>2, <1>4, <3>1, <3>2 DEF Undone
  <2>3. try'[r][1] = "none" /\ row'[r][1] # "bookkeeping_pending"
    <3>1. con[c].pc = "accepted" /\ con'[c].pc = OutcomeOf(con[c].pc) => con'[c].pc = "sent"
      BY DEF OutcomeOf
    <3>2. con'[c].pc # "sent"
      BY <1>4, <2>1 DEF First
    <3>3. RowOf(con[c].pc) = "bookkeeping_pending" => con[c].pc = "accepted"
      BY DEF RowOf
    <3>. QED
      BY <1>1, <1>2, <1>4, <2>1, <3>1, <3>2, <3>3 DEF AttemptStep, Undone
  <2>4. /\ con'[c].pc = "suppressed" => row'[r][1] = "none"
        /\ con'[c].pc = "failed" => row'[r][1] # "pending"
    BY <1>2, <2>1 DEF AttemptStep, RowOf, OutcomeOf, Answers
  <2>. QED
    BY <1>3, <1>4, <2>1, <2>2, <2>3, <2>4 DEF Undone
<1>5. ASSUME delivered'[r] > hist'[r].lost, rcpt'[r].attempts = 1, ~hist'[r].overtaken
      PROVE  rcpt'[r].status = "sent" \/ InBooks(r, 1)'
  <2>1. k = 1 /\ rcpt[r].attempts = 1 /\ ~hist[r].overtaken
    BY <1>1, <1>2, <1>3, <1>5
  <2>2. delivered[r] > hist[r].lost => rcpt[r].status = "sent" \/ InBooks(r, 1)
    BY <1>1, <2>1 DEF TellInv, Told
  <2>3. ASSUME row'[r][1] = row[r][1] \/ row[r][1] # "bookkeeping_pending",
               try' = try, con[c].pc # "accepted", InBooks(r, 1)
        PROVE  InBooks(r, 1)'
    BY <1>3, <2>3 DEF InBooks
  <2>4. CASE UNCHANGED <<try, delivered, hist>> /\ con[c].pc \in {"claimed", "written"}
    <3>1. row[r][1] # "bookkeeping_pending"
      BY <1>1, <2>1, <2>4
    <3>. QED
      BY <1>3, <1>5, <2>2, <2>3, <2>4, <3>1
  <2>5. CASE /\ con[c].pc = "written" /\ con'[c].pc \in Answers /\ Counter(r, con'[c].pc)
             /\ UNCHANGED <<row, try>>
    <3>1. CASE con'[c].pc = "accepted"
      BY <1>2, <2>1, <3>1 DEF InBooks
    <3>2. CASE con'[c].pc # "accepted"
      <4>1. delivered[r] > hist[r].lost
        BY <1>1, <1>5, <2>5, <3>2 DEF Counter
      <4>. QED
        BY <1>3, <2>2, <2>3, <2>5, <4>1
    <3>. QED
      BY <3>1, <3>2
  <2>6. CASE /\ con[c].pc \in Answers /\ con'[c].pc = OutcomeOf(con[c].pc)
             /\ row'[r][k] = RowOf(con[c].pc)
             /\ UNCHANGED <<try, delivered, hist>>
    <3>1. CASE con[c].pc = "accepted"
      BY <2>1, <2>6, <3>1 DEF RowOf, InBooks
    <3>2. CASE con[c].pc # "accepted"
      BY <1>1, <1>3, <1>5, <2>1, <2>2, <2>3, <2>6, <3>2
    <3>. QED
      BY <3>1, <3>2
  <2>7. CASE /\ con'[c].pc = "free"
             /\ hist'[r].lost = IF con[c].pc = "accepted" THEN hist[r].lost + 1 ELSE hist[r].lost
             /\ UNCHANGED <<row, try, delivered>>
    <3>1. CASE con[c].pc = "accepted"
      BY <1>1, <1>5, <2>1, <2>7, <3>1, AtMostOne
    <3>2. CASE con[c].pc # "accepted"
      BY <1>3, <1>5, <2>2, <2>3, <2>7, <3>2
    <3>. QED
      BY <3>1, <3>2
  <2>. QED
    BY <1>2, <2>4, <2>5, <2>6, <2>7 DEF AttemptStep
<1>. QED
  BY <1>1, <1>2, <1>4, <1>5, TellRow

\* The outbox keeps away from a first claim that is not recorded, but for a
\* refusal that a user overtakes.
LEMMA TellRowStep ==
    ASSUME IInv, TellInv, NEW r \in Members, NEW k \in Sends, RowStep(r, k)
    PROVE  TellInv'
<1>0. /\ Types /\ SendInv /\ Consumers \subseteq Workers /\ 1 \in Sends
      /\ rcpt[r].attempts \in Nat /\ k \in Nat \ {0}
      /\ delivered[r] \in Nat /\ hist[r].lost \in Nat
  BY Dom, Bounds DEF IInv
<1>1. OnlyRow(r, k) /\ RowMove(r, k) /\ con' = con
  BY <1>0, RowMoved
<1>2. rcpt' = rcpt /\ held' \subseteq held
  BY <1>1 DEF OnlyRow
<1>3. row[r][k] \in {"pending", "failed"} /\ (try[r][k] # "none" => row[r][k] = "pending")
  BY <1>0, <1>1 DEF RowMove, Idling, SendInv, Rows
<1>4. rcpt[r].attempts = 1 => k = 1
  BY <1>0, <1>3 DEF SendInv, Rows
<1>5. ASSUME NEW c \in Consumers, First(c, r)', First(c, r), Undone(c, r) PROVE Undone(c, r)'
  <2>1. /\ k = 1 /\ con[c].r = r /\ con[c].k = 1
        /\ con[c].pc \in Answers \cup {"claimed", "written", "suppressed", "retrying", "failed"}
        /\ con[c].pc = "claimed" => row[r][1] = "none"
        /\ con[c].pc \in Answers \cup {"written"} => row[r][1] = "pending"
    BY <1>0, <1>4, <1>5 DEF First, Sending, SendInv, Claimed
  <2>2. try[r][1] = "none" /\ ~hist'[r].overtaken
    BY <1>5 DEF First, Undone
  <2>3. ~(row[r][1] = "pending" /\ ~Leased(c, r, 1) /\ ~Cooling(c, r, 1))
    BY <1>5, <2>1 DEF Leased, Cooling, Undone
  <2>4. \/ row'[r][1] = "none" /\ try' = try
        \/ /\ con[c].pc = "retrying" /\ try' = try
           /\ row'[r][1] = "pending"
    BY <1>1, <1>5, <2>1, <2>2, <2>3 DEF RowMove, Undone
  <2>. QED
    BY <1>1, <1>2, <1>5, <2>1, <2>4 DEF Undone
<1>6. ASSUME delivered'[r] > hist'[r].lost, rcpt'[r].attempts = 1, ~hist'[r].overtaken
      PROVE  rcpt'[r].status = "sent" \/ InBooks(r, 1)'
  <2>1. k = 1 /\ rcpt[r].attempts = 1 /\ ~hist[r].overtaken
    BY <1>1, <1>2, <1>4, <1>6 DEF OnlyRow
  <2>2. delivered[r] > hist[r].lost => rcpt[r].status = "sent" \/ InBooks(r, 1)
    BY <2>1 DEF TellInv, Told
  <2>3. CASE delivered[r] > hist[r].lost /\ try'[r][1] = try[r][1]
    <3>1. row'[r][1] = row[r][1] \/ row[r][1] # "bookkeeping_pending"
      BY <1>3, <2>1
    <3>. QED
      BY <1>1, <1>2, <2>2, <2>3, <3>1 DEF InBooks
  <2>4. CASE /\ row[r][k] = "pending" /\ try[r][k] = "none"
             /\ try'[r][k] \in Answers /\ Counter(r, try'[r][k]) /\ row' = row
    <3>1. CASE try'[r][k] = "accepted"
      BY <2>1, <3>1 DEF InBooks
    <3>2. CASE try'[r][k] # "accepted"
      <4>1. delivered[r] > hist[r].lost
        BY <1>0, <1>6, <2>4, <3>2 DEF Counter
      <4>. QED
        BY <1>1, <1>2, <2>1, <2>2, <2>4, <4>1 DEF InBooks
    <3>. QED
      BY <3>1, <3>2
  <2>5. CASE /\ try[r][k] # "none" /\ try'[r][k] = "none" /\ UNCHANGED <<delivered, hist>>
             /\ try[r][k] = "accepted" => row'[r][k] = "bookkeeping_pending"
    BY <1>1, <1>2, <1>3, <1>6, <2>1, <2>2, <2>5 DEF InBooks
  <2>6. CASE /\ try[r][k] # "none" /\ try'[r][k] = "none" /\ UNCHANGED <<row, delivered>>
             /\ hist'[r].lost = IF try[r][k] = "accepted" THEN hist[r].lost + 1 ELSE hist[r].lost
    <3>1. CASE try[r][k] = "accepted"
      BY <1>0, <1>6, <2>1, <2>6, <3>1, AtMostOne
    <3>2. CASE try[r][k] # "accepted"
      BY <1>1, <1>2, <1>6, <2>1, <2>2, <2>6, <3>2 DEF InBooks
    <3>. QED
      BY <3>1, <3>2
  <2>. QED
    BY <1>1, <1>6, <2>3, <2>4, <2>5, <2>6 DEF RowMove
<1>. QED
  BY <1>1, <1>5, <1>6, TellRow

\* The row goes once its recipient says what it said.
LEMMA TellDrop ==
    ASSUME IInv, TellInv, NEW r \in Members, NEW k \in Sends, OnlyRow(r, k), Done(r, k),
           row'[r][k] = "none", UNCHANGED <<try, delivered, hist>>,
           \A w \in Workers : con'[w] = con[w] \/ (con[w].pc = "finalize" /\ con'[w].pc = "check"),
           rcpt[r].attempts = 1 /\ ~hist[r].overtaken => rcpt[r].status = "sent"
    PROVE  TellInv'
<1>0. /\ Types /\ SendInv /\ Consumers \subseteq Workers /\ rcpt' = rcpt /\ held' \subseteq held
  BY Dom DEF IInv, OnlyRow
<1>1. ASSUME NEW c \in Consumers, First(c, r)', First(c, r), Undone(c, r) PROVE Undone(c, r)'
  BY <1>1 DEF First, Undone
<1>2. rcpt'[r].attempts = 1 /\ ~hist'[r].overtaken => rcpt'[r].status = "sent"
  BY <1>0
<1>. QED
  BY <1>1, <1>2, TellRow

LEMMA TellReconcile ==
    ASSUME IInv, TellInv, NEW r \in Members, NEW k \in Sends, Reconcile(r, k)
    PROVE  TellInv'
<1>0. /\ Types /\ SendInv /\ Consumers \subseteq Workers /\ "cron" \notin Consumers
      /\ "cron" \in Workers /\ <<r, k>> \in held /\ Done(r, k) /\ 1 \in Sends
      /\ rcpt[r].attempts \in Nat /\ k \in Nat \ {0}
  BY Dom, Bounds DEF IInv, SendInv, Listed, Reconcile
<1>1. CASE rcpt[r].status = "sent"
  <2>1. /\ OnlyRow(r, k) /\ row'[r][k] = "none" /\ UNCHANGED <<try, delivered, hist, con>>
    BY <1>0, <1>1, ReconcileMoves
  <2>2. /\ UNCHANGED <<try, delivered, hist>>
        /\ \A w \in Workers :
             con'[w] = con[w] \/ (con[w].pc = "finalize" /\ con'[w].pc = "check")
    BY <2>1
  <2>. QED
    BY <1>0, <1>1, <2>1, <2>2, TellDrop
<1>2. CASE rcpt[r].status # "sent"
  <2>1. /\ UNCHANGED <<rcpt, row, try, delivered, hist>> /\ held' \subseteq held
        /\ con'["cron"].pc = "sent" /\ con'["cron"].r = r /\ con'["cron"].k = k
        /\ \A w \in Workers \ {"cron"} : con'[w] = con[w]
    BY <1>0, <1>2, ReconcileMoves
  <2>2. \A c \in Consumers : con'[c] = con[c]
    BY <1>0, <2>1
  <2>3. ASSUME NEW c \in Consumers, NEW q \in Members, First(c, q)' PROVE Undone(c, q)'
    <3>1. Undone(c, q) /\ rcpt[q].attempts = 1
      BY <2>1, <2>2, <2>3 DEF First, Sending, TellInv, Refused
    <3>2. q # r
      BY <1>0, <3>1 DEF Undone, Done
    <3>. QED
      BY <2>1, <2>2, <3>1, <3>2 DEF Undone
  <2>4. Told'
    <3>1. \A q \in Members : InBooks(q, 1) => InBooks(q, 1)'
      BY <2>1, <2>2 DEF InBooks
    <3>2. \A w \in Workers : con'[w].pc = "finalize" => con'[w] = con[w]
      BY <2>1
    <3>. QED
      BY <2>1, <3>1, <3>2 DEF TellInv, Told
  <2>. QED
    BY <2>3, <2>4 DEF TellInv, Refused
<1>. QED
  BY <1>1, <1>2

LEMMA TellFinalize ==
    ASSUME IInv, TellInv, NEW w \in Workers, Finalize(w)
    PROVE  TellInv'
<1>0. Types /\ SendInv /\ con[w].pc = "finalize" /\ Done(con[w].r, con[w].k)
  BY DEF IInv, SendInv, Listed, Finalize
<1>1. PICK r, k : r = con[w].r /\ k = con[w].k
  OBVIOUS
<1>2. /\ OnlyRow(r, k) /\ r \in Members /\ k \in Sends
      /\ row'[r][k] = "none" /\ UNCHANGED <<try, delivered, hist>>
      /\ \A d \in Workers : con'[d] = con[d] \/ con'[d].pc = "check"
  BY <1>0, <1>1, FinalizeMoves
<1>3. \A d \in Workers : con'[d] = con[d] \/ (con[d].pc = "finalize" /\ con'[d].pc = "check")
  <2>1. \A d \in Workers \ {w} : con'[d] = con[d]
    BY <1>0, Dom DEF Finalize, At
  <2>. QED
    BY <1>0, <1>2, <2>1
<1>4. rcpt[r].attempts = 1 /\ ~hist[r].overtaken => rcpt[r].status = "sent"
  BY <1>0, <1>1 DEF TellInv, Told
<1>5. Done(r, k)
  BY <1>0, <1>1 DEF Done, Attempts
<1>. QED
  BY <1>0, <1>2, <1>3, <1>4, <1>5, TellDrop

\* A first claim finds nothing delivered, listed or in the books.
LEMMA TellClaim ==
    ASSUME IInv, TellInv, NEW c \in Consumers, NEW r \in Members, Claim(c, r), Claims(r)
    PROVE  TellInv'
<1>0. /\ Types /\ SendInv /\ Consumers \subseteq Workers /\ 1 \in Sends /\ c \in Workers
      /\ con \in [Workers -> ConType] /\ rcpt \in [Members -> RcptType] /\ rcpt[r] \in RcptType
      /\ \A w \in Workers : con[w].r \in Members /\ con[w].k \in Sends /\ con[w].k \in Nat \ {0}
      /\ \A q \in Members : rcpt[q].attempts \in Nat
  BY Dom, Bounds DEF IInv
<1>01. /\ row' = row /\ try' = try /\ delivered' = delivered /\ hist' = hist /\ held' = held
       /\ con[c].pc = "free"
       /\ rcpt' = [rcpt EXCEPT ![r] = [status |-> "processing", attempts |-> @.attempts + 1]]
       /\ con' = [con EXCEPT ![c] = [Free EXCEPT !.pc = "claimed", !.r = r,
                                                 !.k = rcpt[r].attempts + 1]]
  BY DEF Claim
<1>1. /\ con[c].pc = "free" /\ UNCHANGED <<row, try, delivered, held, hist>>
      /\ rcpt'[r].status = "processing" /\ rcpt'[r].attempts = rcpt[r].attempts + 1
      /\ \A q \in Members \ {r} : rcpt'[q] = rcpt[q]
      /\ con'[c].pc = "claimed" /\ con'[c].r = r
      /\ \A w \in Workers \ {c} : con'[w] = con[w]
  BY <1>0, <1>01 DEF Free
<1>2. rcpt[r].status \notin {"processing", "sent"}
  BY DEF Claims, Claimable
<1>3. \A d \in Consumers : ~Sending(d, r)
  BY <1>0, <1>2 DEF SendInv, Claimed
<1>4. ASSUME rcpt'[r].attempts = 1
      PROVE  /\ row[r][1] = "none" /\ try[r][1] = "none" /\ <<r, 1>> \notin held
             /\ \A w \in Workers : con[w].pc \in {"sent", "finalize"} => con[w].r # r
             /\ delivered[r] <= hist[r].lost
  <2>1. rcpt[r].attempts = 0
    BY <1>0, <1>1, <1>4
  <2>2. \A k \in Sends : ~Done(r, k)
    BY <2>1, Bounds DEF Done
  <2>3. row[r][1] = "none" /\ try[r][1] = "none"
    BY <1>0, <2>1 DEF SendInv, Rows
  <2>4. <<r, 1>> \notin held
    BY <1>0, <2>2 DEF SendInv, Listed
  <2>5. ASSUME NEW w \in Workers, con[w].pc \in {"sent", "finalize"} PROVE con[w].r # r
    <3>1. Done(con[w].r, con[w].k)
      BY <1>0, <2>5 DEF SendInv, Listed
    <3>. QED
      BY <1>0, <2>1, <3>1 DEF Done
  <2>. QED
    BY <2>1, <2>3, <2>4, <2>5, AtMostOne
<1>5. ASSUME NEW d \in Consumers, NEW q \in Members, First(d, q)' PROVE Undone(d, q)'
  <2>1. CASE q = r
    <3>1. d = c
      BY <1>0, <1>1, <1>3, <1>5, <2>1 DEF First, Sending
    <3>2. rcpt'[r].attempts = 1
      BY <1>5, <2>1 DEF First
    <3>3. \A w \in Workers : con'[w].pc \in {"sent", "finalize"} => con'[w].r # r
      BY <1>1, <1>4, <3>2
    <3>. QED
      BY <1>1, <1>4, <2>1, <3>1, <3>2, <3>3 DEF Undone
  <2>2. CASE q # r
    <3>1. con'[d] = con[d]
      BY <1>0, <1>1, <1>5, <2>2 DEF First, Sending
    <3>2. Undone(d, q)
      BY <1>1, <1>5, <2>2, <3>1 DEF First, Sending, TellInv, Refused
    <3>. QED
      BY <1>1, <2>2, <3>1, <3>2 DEF Undone
  <2>. QED
    BY <2>1, <2>2
<1>6. ASSUME NEW q \in Members, delivered'[q] > hist'[q].lost, rcpt'[q].attempts = 1,
             ~hist'[q].overtaken
      PROVE  rcpt'[q].status = "sent" \/ InBooks(q, 1)'
  <2>1. q # r
    <3>1. delivered[r] \in Nat /\ hist[r].lost \in Nat
      BY <1>0, Dom
    <3>. QED
      BY <1>1, <1>4, <1>6, <3>1
  <2>2. rcpt[q].status = "sent" \/ InBooks(q, 1)
    BY <1>1, <1>6, <2>1 DEF TellInv, Told
  <2>3. InBooks(q, 1) => InBooks(q, 1)'
    BY <1>0, <1>1 DEF InBooks
  <2>. QED
    BY <1>1, <2>1, <2>2, <2>3
<1>7. ASSUME NEW w \in Workers, con'[w].pc = "finalize", rcpt'[con'[w].r].attempts = 1,
             ~hist'[con'[w].r].overtaken
      PROVE  rcpt'[con'[w].r].status = "sent"
  <2>1. con'[w] = con[w] /\ con[w].r # r
    BY <1>1, <1>4, <1>7
  <2>. QED
    BY <1>0, <1>1, <1>7, <2>1 DEF TellInv, Told
<1>. QED
  BY <1>5, <1>6, <1>7 DEF TellInv, Refused, Told

\* An outcome without an acceptance is recorded over nothing.
LEMMA TellSettle ==
    ASSUME IInv, TellInv, NEW w \in Workers, Settle(w)
    PROVE  TellInv'
<1>. PICK r, pc : r = con[w].r /\ pc = con[w].pc
  OBVIOUS
<1>0. /\ Types /\ Remembered /\ SendInv /\ Consumers \subseteq Workers /\ r \in Members
      /\ \A x \in Workers : con[x].r \in Members
  BY Dom DEF IInv
<1>1. /\ pc \in Outcomes /\ pc \notin {"accepted", "finalize"}
      /\ \A d \in Workers \ {w} : con'[d] = con[d]
      /\ con'[w].pc \in {"free", "finalize", "check"}
      /\ con'[w].pc = "finalize" => pc = "sent" /\ con'[w].r = r
      /\ rcpt'[r].status = Recorded(pc) /\ rcpt'[r].attempts = rcpt[r].attempts
      /\ \A q \in Members \ {r} : rcpt'[q] = rcpt[q]
      /\ UNCHANGED <<row, try, delivered, held, hist>>
  BY <1>0, SettleMoves DEF Outcomes
<1>2. pc = "sent" => rcpt'[r].status = "sent"
  BY <1>1 DEF Recorded
<1>3. w \in Consumers => Sending(w, r) /\ \A d \in Consumers \ {w} : ~Sending(d, r)
  BY <1>0, <1>1 DEF Sending, Outcomes, SendInv, OneSender
<1>4. pc # "sent" => w \in Consumers
  BY <1>0, <1>1 DEF Remembered, Outcomes, Workers
<1>5. ASSUME pc # "sent", rcpt[r].attempts = 1, ~hist[r].overtaken
      PROVE  Undone(w, r)
  BY <1>0, <1>3, <1>4, <1>5 DEF TellInv, Refused, First
<1>6. ASSUME NEW d \in Consumers, NEW q \in Members, First(d, q)' PROVE Undone(d, q)'
  <2>1. d # w
    BY <1>1, <1>6 DEF First, Sending, Answers
  <2>2. con'[d] = con[d]
    BY <1>0, <1>1, <2>1
  <2>3. rcpt'[q].attempts = rcpt[q].attempts
    BY <1>1
  <2>4. First(d, q) /\ Undone(d, q)
    BY <1>1, <1>6, <2>2, <2>3 DEF First, Sending, TellInv, Refused
  <2>5. q # r
    <3>1. CASE w \in Consumers
      BY <1>3, <2>1, <2>4, <3>1 DEF First
    <3>2. CASE w \notin Consumers
      BY <1>4, <2>4, <3>2 DEF Undone
    <3>. QED
      BY <3>1, <3>2
  <2>6. \A x \in Workers : con'[x].pc \in {"sent", "finalize"} => con'[x] = con[x] \/ con'[x].r = r
    BY <1>1
  <2>. QED
    BY <1>1, <2>2, <2>4, <2>5, <2>6 DEF Undone
<1>7. ASSUME NEW q \in Members, delivered'[q] > hist'[q].lost, rcpt'[q].attempts = 1,
             ~hist'[q].overtaken
      PROVE  rcpt'[q].status = "sent" \/ InBooks(q, 1)'
  <2>1. rcpt[q].attempts = 1
    BY <1>1, <1>7
  <2>2. rcpt[q].status = "sent" \/ InBooks(q, 1)
    BY <1>1, <1>7, <2>1 DEF TellInv, Told
  <2>3. InBooks(q, 1) => InBooks(q, 1)'
    BY <1>0, <1>1 DEF InBooks
  <2>4. CASE q # r
    BY <1>1, <2>2, <2>3, <2>4
  <2>5. CASE q = r /\ pc # "sent"
    <3>1. Undone(w, r) /\ w \in Consumers
      BY <1>1, <1>4, <1>5, <1>7, <2>1, <2>5
    <3>2. InBooks(r, 1)
      BY <2>2, <2>5, <3>1 DEF Undone
    <3>. QED
      BY <2>3, <2>5, <3>2
  <2>. QED
    BY <1>2, <2>4, <2>5
<1>8. ASSUME NEW x \in Workers, con'[x].pc = "finalize", rcpt'[con'[x].r].attempts = 1,
             ~hist'[con'[x].r].overtaken
      PROVE  rcpt'[con'[x].r].status = "sent"
  <2>1. CASE x = w
    BY <1>1, <1>2, <1>8, <2>1
  <2>2. CASE x # w
    <3>1. con'[x] = con[x] /\ con[x].r \in Members /\ rcpt[con[x].r].attempts = 1
      BY <1>0, <1>1, <1>8, <2>2
    <3>2. rcpt[con[x].r].status = "sent"
      BY <1>1, <1>8, <3>1 DEF TellInv, Told
    <3>3. con[x].r = r => pc = "sent"
      BY <1>1, <1>5, <1>8, <3>1 DEF Undone
    <3>. QED
      BY <1>1, <1>2, <3>1, <3>2, <3>3
  <2>. QED
    BY <2>1, <2>2
<1>. QED
  BY <1>6, <1>7, <1>8 DEF TellInv, Refused, Told

LEMMA TellHour == ASSUME IInv, TellInv, Hour PROVE TellInv'
<1>1. UNCHANGED <<rcpt, row, try, delivered, con, hist>> /\ (held' = held \/ held' = Held)
  BY DEF Hour
<1>2. \A r \in Members : <<r, 1>> \in Held => row[r][1] = "bookkeeping_pending"
  BY DEF Held
<1>3. ASSUME NEW c \in Consumers, NEW r \in Members, First(c, r)' PROVE Undone(c, r)'
  <2>1. Undone(c, r)
    BY <1>1, <1>3 DEF First, Sending, TellInv, Refused
  <2>. QED
    BY <1>1, <1>2, <2>1 DEF Undone
<1>4. Told'
  BY <1>1 DEF TellInv, Told, InBooks
<1>. QED
  BY <1>3, <1>4 DEF TellInv, Refused

LEMMA TellStep == ASSUME IInv, TellInv, Next PROVE TellInv'
<1>0. Types /\ Remembered
  BY DEF IInv
<1>1. CASE Still
  BY <1>1, TellStill
<1>2. ASSUME NEW c \in Consumers, NEW r \in Members, Claim(c, r), Claims(r) PROVE TellInv'
  BY <1>2, TellClaim
<1>3. ASSUME NEW c \in Consumers, con[c].pc \in SendPcs,
             WriteAhead(c) \/ Call(c) \/ Resolve(c) \/ Throw(c) \/ Die(c)
      PROVE  TellInv'
  BY <1>3, TellAttempt
<1>4. ASSUME NEW c \in Workers, Settle(c) \/ Finalize(c) PROVE TellInv'
  BY <1>4, TellSettle, TellFinalize
<1>5. ASSUME NEW r \in Members, NEW k \in Sends, RowStep(r, k) \/ Reconcile(r, k) PROVE TellInv'
  BY <1>5, TellRowStep, TellReconcile
<1>6. CASE Hour
  BY <1>6, TellHour
<1>. QED
  BY <1>0, <1>1, <1>2, <1>3, <1>4, <1>5, <1>6, StillOrWorks DEF Works

-----------------------------------------------------------------------------
(* Closing a campaign.                                                     *)

\* Nobody who is settled is unsettled.
LEMMA SoundStays ==
    ASSUME IInv, TellInv, Next, NEW x, Sound(x)
    PROVE  Sound(x)'
<1>0. /\ Types /\ SendInv /\ Remembered /\ rcpt \in [Members -> RcptType]
      /\ Consumers \subseteq Workers
      /\ \A r \in Members : rcpt[r].attempts \in Nat
      /\ \A c \in Workers : con[c].r \in Members
  BY Dom DEF IInv
<1>1. ASSUME rcpt' = rcpt, \A r \in Members : hist[r].overtaken => hist'[r].overtaken
      PROVE  Sound(x)'
  BY <1>1 DEF Sound
<1>2. CASE Still
  <2>1. \A r \in Members : rcpt[r].status = "none" => rcpt[r].attempts = 0
    BY <1>0 DEF SendInv, Fresh
  <2>. QED
    BY <1>2, <2>1 DEF Still, Sound, Settled
<1>3. ASSUME NEW c \in Consumers, NEW q \in Members, Claim(c, q), Claims(q) PROVE Sound(x)'
  <2>1. /\ \A r \in Members \ {q} : rcpt'[r] = rcpt[r]
        /\ rcpt'[q].attempts = rcpt[q].attempts + 1 /\ hist' = hist
    BY <1>0, <1>3 DEF Claim
  <2>2. rcpt[q].status \notin Settled
    BY <1>3 DEF Claims, Claimable, Settled
  <2>. QED
    BY <1>0, <2>1, <2>2 DEF Sound
<1>4. ASSUME NEW c \in Consumers, con[c].pc \in SendPcs,
             WriteAhead(c) \/ Call(c) \/ Resolve(c) \/ Throw(c) \/ Die(c)
      PROVE  Sound(x)'
  <2>1. PICK r, k : r = con[c].r /\ k = con[c].k
    OBVIOUS
  <2>2. OnlyRow(r, k) /\ \A q \in Members : hist'[q].overtaken = hist[q].overtaken
    BY <1>0, <1>4, <2>1, AttemptMoves
  <2>. QED
    BY <1>1, <2>2 DEF OnlyRow
<1>5. ASSUME NEW c \in Workers, Settle(c) PROVE Sound(x)'
  <2> DEFINE r == con[c].r
  <2>1. /\ con[c].pc \in Outcomes /\ r \in Members /\ hist' = hist
        /\ rcpt'[r].status = Recorded(con[c].pc) /\ rcpt'[r].attempts = rcpt[r].attempts
        /\ \A q \in Members \ {r} : rcpt'[q] = rcpt[q]
    BY <1>0, <1>5, SettleMoves
  <2>2. CASE con[c].pc = "sent"
    BY <2>1, <2>2 DEF Sound, Recorded, Settled
  <2>3. CASE con[c].pc # "sent"
    <3>1. c \in Consumers /\ Sending(c, r)
      BY <1>0, <2>1, <2>3 DEF Remembered, Outcomes, Workers, Sending
    <3>2. rcpt[r].attempts >= 1 /\ rcpt[r].status \in {"processing", "sent"}
      <4>1. rcpt[r].attempts = con[c].k /\ rcpt[r].status \in {"processing", "sent"}
        BY <1>0, <2>1, <3>1 DEF SendInv, Claimed
      <4>2. con[c].k \in Nat \ {0}
        BY <1>0, Dom, Bounds
      <4>. QED
        BY <4>1, <4>2
    <3>3. rcpt[r].attempts = 1 => rcpt[r].status # "sent" \/ hist[r].overtaken
      BY <2>1, <2>3, <3>1 DEF TellInv, Refused, First, Undone
    <3>4. rcpt[r].attempts > 1 \/ hist[r].overtaken
      BY <1>0, <2>1, <3>2, <3>3 DEF Sound, Settled
    <3>. QED
      BY <2>1, <3>4 DEF Sound
  <2>. QED
    BY <2>2, <2>3
<1>6. ASSUME NEW c \in Workers, Finalize(c) PROVE Sound(x)'
  BY <1>1, <1>6 DEF Finalize
<1>7. ASSUME NEW r \in Members, NEW k \in Sends, RowStep(r, k) PROVE Sound(x)'
  <2>1. OnlyRow(r, k)
    BY <1>0, <1>7, RowMoved
  <2>. QED
    BY <1>1, <2>1 DEF OnlyRow
<1>8. ASSUME NEW r \in Members, NEW k \in Sends, Reconcile(r, k) PROVE Sound(x)'
  BY <1>1, <1>8 DEF Reconcile
<1>9. CASE Hour
  BY <1>1, <1>9 DEF Hour
<1>. QED
  BY <1>0, <1>2, <1>3, <1>4, <1>5, <1>6, <1>7, <1>8, <1>9, StillOrWorks DEF Works

\* A step that does not close the campaign, nor decide to.
LEMMA ClosingQuiet ==
    ASSUME Types, Closing, \A x \in Closed : Sound(x) => Sound(x)',
           status' = status \/ status' \notin Closed,
           \A w \in Workers : con'[w] = con[w] \/ con'[w].pc # "close",
           \A s \in Starters : \/ act'[s] = act[s]
                               \/ act'[s].pc \notin {"send", "prepared"}
                               \/ act'[s].seen \notin Closed
    PROVE  Closing'
BY DEF Closing

LEMMA ClosingStep ==
    ASSUME IInv, Enumerated, TellInv, Closing, Next
    PROVE  Closing'
<1>0. /\ Types /\ SendInv /\ con \in [Workers -> ConType] /\ act \in [Starters -> ActType]
      /\ Consumers \subseteq Workers /\ "admin" \in Starters /\ "cron" \in Starters
      /\ \A x \in Closed : Sound(x) => Sound(x)'
  BY Dom, Bounds, SoundStays DEF IInv
<1>1. CASE Routes
  <2>1. con' = con /\ (status' = status \/ status' \notin Closed)
    BY <1>1 DEF Routes, Request, Schedule, Cancel, CancelJobs, Retry, Requeue, Becomes, Closed
  <2>2. \A op \in Ops : op \notin {"send", "prepared"}
    BY CampaignAssumption
  <2>3. \A s \in Starters : act'[s] = act[s] \/ act'[s].pc \notin {"send", "prepared"}
    BY <1>0, <1>1, <2>2
    DEF Routes, Request, Schedule, Cancel, CancelJobs, Retry, Requeue, Goes, Ends, Idle, ActType
  <2>. QED
    BY <1>0, <2>1, <2>3, ClosingQuiet
<1>2. ASSUME NEW s \in Starters, Start(s) PROVE Closing'
  <2>1. con' = con
    BY <1>2 DEF Start, Begin, Prepare, Launch, Announce
  <2>2. status' = status \/ status' \notin Closed
    BY <1>2 DEF Start, Begin, Prepare, Launch, Announce, Becomes, Closing, Closed
  <2>3. \A t \in Starters \ {s} : act'[t] = act[t]
    BY <1>0, <1>2 DEF Start, Begin, Prepare, Launch, Announce, Goes, Ends
  <2>4. act'[s].pc \notin {"send", "prepared"} \/ act'[s].seen \notin Closed
    <3>1. CASE Begin(s)
      <4>1. status \notin Closed
        BY <3>1 DEF Begin, Fires, Allowed, Closed
      <4>. QED
        BY <1>0, <3>1, <4>1 DEF Begin
    <3>2. CASE Prepare(s)
      BY <1>0, <3>2 DEF Prepare, Goes, Closing, ActType
    <3>3. CASE Launch(s)
      <4>1. Goes(s, "launched") \/ Ends(s)
        BY <3>3 DEF Launch
      <4>. QED
        BY <1>0, <4>1 DEF Goes, Ends, Idle, ActType
    <3>4. CASE Announce(s)
      BY <1>0, <3>4 DEF Announce, Ends, Idle
    <3>. QED
      BY <1>2, <3>1, <3>2, <3>3, <3>4 DEF Start
  <2>. QED
    BY <1>0, <2>1, <2>2, <2>3, <2>4, ClosingQuiet
<1>3. ASSUME NEW s \in Starters, Abort(s) PROVE Closing'
  <2>1. /\ status' = status
        /\ \A t \in Starters : act'[t] = act[t] \/ act'[t].pc = "idle"
        /\ \A w \in Workers : con'[w] = con[w] \/ con'[w].pc = "free"
    BY <1>0, <1>3 DEF Abort, Idle, Free
  <2>. QED
    BY <1>0, <2>1, ClosingQuiet
<1>4. ASSUME NEW c \in Consumers, FanOut(c) PROVE Closing'
  <2>1. act' = act /\ (status' = status \/ status' = "sending")
    BY <1>4 DEF FanOut, TakeFanOut, MarkSending, InsertPage, PublishPage, AdvanceCursor, NextPage,
                Becomes
  <2>2. \A w \in Workers : con'[w] = con[w] \/ con'[w].pc # "close"
    BY <1>0, <1>4, FanOutStays DEF FanPcs
  <2>. QED
    BY <1>0, <2>1, <2>2, ClosingQuiet DEF Closed
<1>5. ASSUME NEW c \in Consumers, SendOne(c) \/ Die(c) \/ Throw(c) PROVE Closing'
  <2>1. act' = act /\ status' = status
    BY <1>5 DEF SendOne, Claim, WriteAhead, Call, Resolve, Die, Throw
  <2>2. ASSUME NEW r \in Members, Claim(c, r), NEW w \in Workers
        PROVE  con'[w] = con[w] \/ con'[w].pc # "close"
    <3>1. con' = con \/ con' = [con EXCEPT ![c] = [Free EXCEPT
                     !.pc = "claimed", !.r = r, !.k = rcpt[r].attempts + 1]]
      BY <2>2 DEF Claim
    <3>. QED
      BY <1>0, <3>1 DEF Free
  <2>3. ASSUME Die(c) \/ Throw(c), NEW w \in Workers PROVE con'[w] = con[w] \/ con'[w].pc # "close"
    BY <1>0, <2>3 DEF Die, Throw, Free
  <2>4. ASSUME WriteAhead(c) \/ Call(c) \/ Resolve(c), NEW w \in Workers
        PROVE  con'[w] = con[w] \/ con'[w].pc # "close"
    <3>1. con[c].pc \in SendPcs
      BY <2>4 DEF WriteAhead, Call, Resolve, SendPcs, Answers
    <3>2. PICK r, k : r = con[c].r /\ k = con[c].k
      OBVIOUS
    <3>3. OnlyRow(r, k) /\ AttemptStep(c, r, k) /\ \A d \in Workers \ {c} : con'[d] = con[d]
      BY <1>0, <2>4, <3>1, <3>2, AttemptMoves
    <3>4. con'[c].pc # "close"
      BY <3>3 DEF AttemptStep, Answers, OutcomeOf
    <3>. QED
      BY <3>3, <3>4
  <2>5. \A w \in Workers : con'[w] = con[w] \/ con'[w].pc # "close"
    BY <1>5, <2>2, <2>3, <2>4 DEF SendOne
  <2>. QED
    BY <1>0, <2>1, <2>5, ClosingQuiet
<1>6. ASSUME NEW c \in Workers, Bookkeep(c) PROVE Closing'
  <2>1. act' = act
    BY <1>6 DEF Bookkeep, Settle, Finalize, Check, Close
  <2>2. CASE Settle(c) \/ Finalize(c)
    <3>1. status' = status
      BY <2>2 DEF Settle, Finalize
    <3>2. \A w \in Workers : con'[w] = con[w] \/ con'[w].pc \in {"free", "finalize", "check"}
      BY <1>0, <2>2, SettleMoves, FinalizeMoves
    <3>. QED
      BY <1>0, <2>1, <3>1, <3>2, ClosingQuiet
  <2>3. CASE Check(c)
    <3>1. /\ status' = status /\ rcpt' = rcpt /\ hist' = hist
          /\ \A w \in Workers \ {c} : con'[w] = con[w]
      BY <1>0, <2>3, CheckMoves DEF Check
    <3>2. CASE con'[c] = Free
      BY <1>0, <2>1, <3>1, <3>2, ClosingQuiet DEF Free
    <3>3. CASE con'[c] # Free
      <4>1. /\ con'[c].seen = Outcome /\ Outstanding = {}
            /\ \E s \in Starters : job[s].status = "completed"
        BY <1>0, <2>3, <3>3, CheckMoves
      <4>2. \A r \in Members : rcpt[r].status # "none"
        BY <4>1 DEF Enumerated, In
      <4>3. \A r \in Members : rcpt[r].status \in Settled
        BY <4>1, <4>2 DEF Outstanding
      <4>4. Outcome \in Closed /\ Sound(Outcome)
        BY <4>3 DEF Outcome, Closed, Sound
      <4>5. PICK x \in Closed : con'[c].seen = x /\ Sound(x)'
        BY <1>0, <4>1, <4>4
      <4>. QED
        BY <1>0, <2>1, <3>1, <4>5 DEF Closing, Sound
    <3>. QED
      BY <3>2, <3>3
  <2>4. CASE Close(c)
    <3>1. \A w \in Workers : con'[w] = con[w] \/ con'[w].pc = "free"
      BY <1>0, <2>4 DEF Close, Free
    <3>2. status' = status \/ status' = con[c].seen
      BY <2>4 DEF Close, Becomes
    <3>3. con[c].seen \in Closed /\ Sound(con[c].seen)
      BY <2>4 DEF Close, Closing
    <3>4. status' \in Closed => \E x \in Closed : status' = x /\ Sound(x)'
      BY <1>0, <3>2, <3>3 DEF Closing
    <3>. QED
      BY <1>0, <2>1, <3>1, <3>4 DEF Closing, Sound
  <2>. QED
    BY <1>6, <2>2, <2>3, <2>4 DEF Bookkeep
<1>7. CASE \/ \E r \in Members, k \in Sends : RowStep(r, k)
           \/ \E r \in Members : GiveUp(r)
  <2>1. UNCHANGED <<status, con, act>>
    BY <1>7 DEF RowStep, OutboxTry, OutboxWrite, OutboxDie, CancelRow, ReviveRow, GiveUp
  <2>. QED
    BY <1>0, <2>1, ClosingQuiet
<1>8. CASE Pass
  <2>1. ASSUME NEW r \in Members, NEW k \in Sends, Reconcile(r, k) PROVE Closing'
    <3>1. /\ status' = status /\ act' = act
          /\ \A w \in Workers : con'[w] = con[w] \/ con'[w].pc = "sent"
      BY <1>0, <2>1 DEF Reconcile, Free
    <3>. QED
      BY <1>0, <3>1, ClosingQuiet
  <2>2. CASE Reconciled \/ Sweep \/ Refresh
    <3>1. con' = con /\ (status' = status \/ status' \notin Closed)
      BY <2>2 DEF Reconciled, Sweep, Refresh, Becomes, Closed
    <3>2. \A s \in Starters : act'[s] = act[s] \/ act'[s].pc \notin {"send", "prepared"}
      BY <1>0, <2>2 DEF Reconciled, Sweep, Refresh, Goes, ActType
    <3>. QED
      BY <1>0, <3>1, <3>2, ClosingQuiet
  <2>. QED
    BY <1>8, <2>1, <2>2 DEF Pass
<1>9. CASE Hour \/ Duplicate \/ RowFails
  <2>1. /\ status' = status
        /\ \A w \in Workers : con'[w] = con[w] \/ con'[w].pc # "close"
    BY <1>0, <1>9 DEF Hour, Duplicate, RowFails, Free
  <2>2. \A s \in Starters : act'[s] = act[s] \/ act'[s].pc \notin {"send", "prepared"}
    BY <1>0, <1>9 DEF Hour, Duplicate, RowFails, Idle
  <2>. QED
    BY <1>0, <2>1, <2>2, ClosingQuiet
<1>. QED
  BY <1>1, <1>2, <1>3, <1>4, <1>5, <1>6, <1>7, <1>8, <1>9 DEF Next

-----------------------------------------------------------------------------

LEMMA LostInvariance == Spec => []LostInv
<1>1. Init => LostInv
  BY LostInit
<1>2. IInv /\ IInv' /\ LostInv /\ [Next]_vars => LostInv'
  <2>1. SUFFICES ASSUME IInv, IInv', LostInv, [Next]_vars PROVE LostInv'
    OBVIOUS
  <2>2. CASE Next
    <3>1. Types' /\ Enumerated /\ TellInv /\ Closing
      BY <2>1 DEF IInv, LostInv
    <3>2. Enumerated' /\ TellInv' /\ Closing'
      BY <2>1, <2>2, <3>1, EnumeratedStep, TellStep, ClosingStep
    <3>. QED
      BY <3>2 DEF LostInv
  <2>3. CASE UNCHANGED vars
    <3>1. Enumerated' /\ Closing'
      BY <2>1, <2>3 DEF vars, LostInv, Enumerated, Closing, In, Sound
    <3>2. Refused'
      BY <2>1, <2>3 DEF vars, LostInv, TellInv, Refused, First, Undone, Sending
    <3>3. Told'
      BY <2>1, <2>3 DEF vars, LostInv, TellInv, Told, InBooks
    <3>. QED
      BY <3>1, <3>2, <3>3 DEF LostInv, TellInv
  <2>. QED
    BY <2>1, <2>2, <2>3
<1>. QED
  BY <1>1, <1>2, Invariance, PTL DEF Spec

\* A closed campaign is closed over settled recipients, and as "sent" only if
\* none was refused, whoever started it twice, cancelled, retried or died on
\* the way; second claims and refusals a user's retry overtook apart.
THEOREM ClosedSoundly == Spec => []CompletionSound
<1>1. LostInv => CompletionSound
  BY DEF LostInv, Closing, Sound, CompletionSound
<1>. QED
  BY <1>1, LostInvariance, PTL

\* Whatever stopped or was replayed between any two statements: the list was
\* enumerated to its end when the job says so, and everybody still queued has a
\* message, unless it was given up before the claim; what was delivered on a
\* first claim is told by the recipient or by the row, unless an acceptance of
\* that recipient was lost or a refusal overtaken; a closed campaign is closed
\* over everybody.
THEOREM NobodyEverLost == Spec => []NobodyLost
<1>1. LostInv => NobodyStranded
  BY DEF LostInv, Enumerated, In, NobodyStranded
<1>2. LostInv => NothingForgotten
  BY Bounds DEF LostInv, TellInv, Told, NothingForgotten
<1>3. LostInv => CompletionSound
  BY DEF LostInv, Closing, Sound, CompletionSound
<1>. QED
  BY <1>1, <1>2, <1>3, LostInvariance, PTL DEF NobodyLost
=============================================================================
