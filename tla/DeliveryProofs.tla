--------------------------- MODULE DeliveryProofs ----------------------------
(***************************************************************************)
(* Proofs about the webhooks of the events of a message, and about the     *)
(* events a provider reports: first WebhookDelivery, then DeliveryEvents.  *)
(***************************************************************************)
EXTENDS WebhookDelivery, DeliveryEvents, FiniteSetTheorems, WellFoundedInduction, TLAPS

(***************************************************************************)
(* WebhookDelivery.  What is POSTed of a delivery, and where to, is        *)
(* settled once for all of its attempts, for every set of deliveries and   *)
(* consumers and every bound of the model.                                 *)
(***************************************************************************)

ConfigType == [on : BOOLEAN, gen : Nat, era : 0..MaxEras, streak : 0..Threshold,
               paused : BOOLEAN]

RecType == [pc : {"new", "read", "inserted", "done"}, gen : Nat, era : 0..MaxEras]

RowType == [status : Ends \cup {"none", "pending", "pruned"}, gen : Nat, era : 0..MaxEras,
            attempts : 0..MaxAttempts, holder : 0..MaxAttempts, live : BOOLEAN,
            young : BOOLEAN, late : BOOLEAN, frozen : BOOLEAN, body : Bodies]

ConType == [pc : {"free", "claim", "spent", "config", "cancel", "freeze", "post", "ok",
                  "retryable", "refused"},
            of : Deliveries \cup {"none"}, attempt : 0..MaxAttempts, era : 0..MaxEras,
            body : Bodies]

HistType == [posts : Nat, bodies : SUBSET Bodies, eras : SUBSET (0..MaxEras)]

Types ==
    /\ config \in ConfigType
    /\ rec \in [Deliveries -> RecType]
    /\ row \in [Deliveries -> RowType]
    /\ con \in [Consumers -> ConType]
    /\ hist \in [Deliveries -> HistType]
    /\ sentRow \subseteq Deliveries
    /\ queue \in [Deliveries -> Nat]
    /\ todo \subseteq Deliveries
    /\ faults \in 0..MaxFaults

LEMMA TypesOK == Types <=> TypeOK
BY DEF Types, TypeOK, ConfigType, RecType, RowType, ConType, HistType

-----------------------------------------------------------------------------
(* The inductive invariant.                                                *)

\* A consumer with a claim that still runs: the row stays its own till the end.
Live(c) == con[c].pc \in {"config", "freeze", "post"}

\* An event that is not yet recorded has left no trace.
RecInv ==
    \A d \in Deliveries : rec[d].pc \in {"new", "read"} =>
        /\ row[d] = NoRow
        /\ hist[d] = [posts |-> 0, bodies |-> {}, eras |-> {}]
        /\ \A c \in Consumers : con[c].of # d

\* A consumer that claimed bears a number the row has counted.
Numbered(c) ==
    /\ con[c].pc = "free" => con[c] = Free
    /\ con[c].pc # "free" => con[c].of \in Deliveries
    /\ con[c].pc \in {"free", "claim", "spent"} <=> con[c].attempt = 0
    /\ con[c].pc # "free" /\ row[con[c].of].status # "pruned" =>
            con[c].attempt <= row[con[c].of].attempts

ConInv == \A c \in Consumers : Numbered(c)

\* No two consumers of a delivery bear the same.
Distinct ==
    \A c, e \in Consumers :
        con[c].of = con[e].of /\ con[c].attempt = con[e].attempt /\ con[c].attempt # 0 => c = e

LiveInv ==
    \A c \in Consumers : Live(c) =>
        /\ Pending(con[c].of)
        /\ row[con[c].of].live
        /\ row[con[c].of].holder = con[c].attempt

\* A claim that still runs has a POST in hand.
PostInv ==
    \A d \in Deliveries :
        /\ hist[d].posts <= MaxAttempts
        /\ row[d].status # "pruned" => hist[d].posts <= row[d].attempts
        /\ \A c \in Consumers : Live(c) /\ con[c].of = d => hist[d].posts < row[d].attempts

\* What was POSTed is what the row keeps, and what is about to be.
BodyInv ==
    /\ \A d \in Deliveries :
         /\ \E b \in Bodies : hist[d].bodies \subseteq {b}
         /\ Pending(d) => hist[d].bodies \subseteq {row[d].body}
         /\ Pending(d) /\ ~row[d].frozen => hist[d].bodies = {}
    /\ \A c \in Consumers : con[c].pc = "post" =>
         row[con[c].of].frozen /\ con[c].body = row[con[c].of].body

\* ... and where it went is the row's endpoint.
EraInv ==
    /\ \A d \in Deliveries : row[d].status # "pruned" => hist[d].eras \subseteq {row[d].era}
    /\ \A c \in Consumers : con[c].pc \in {"freeze", "post"} => con[c].era = row[con[c].of].era

PostsInv == RecInv /\ ConInv /\ Distinct /\ LiveInv /\ PostInv /\ BodyInv /\ EraInv

\* A generation names one endpoint: no logged row of another era bears the one
\* in force.
GenInv ==
    /\ config.paused <=> config.streak >= Threshold
    /\ config.gen <= config.era
    /\ \A d \in Deliveries :
         /\ rec[d].gen <= config.era /\ row[d].gen <= config.era
         /\ row[d].status \notin {"none", "pruned"} /\ config.on /\ row[d].gen = config.gen =>
                row[d].era = config.era

IInv == Types /\ PostsInv /\ GenInv

-----------------------------------------------------------------------------
\* A bounded set of naturals has its maximum.
LEMMA BoundedMax ==
    ASSUME NEW S \in SUBSET Nat, S # {}, NEW n \in Nat, \A x \in S : x <= n
    PROVE  Max(S) \in S /\ \A y \in S : y <= Max(S)
<1> DEFINE Less == {ss \in Nat \X Nat : ss[1] < ss[2]}
           U == {u \in Nat : \A x \in S : x <= u}
<1>0. IsWellFoundedOn(Less, Nat)
  BY NatLessThanWellFounded, Zenon DEF OpToRel
<1>1. U \subseteq Nat /\ n \in U
  OBVIOUS
<1> HIDE DEF Less, U
<1>2. PICK u \in U : \A v \in U : ~(<<v, u>> \in Less)
  BY <1>0, <1>1, WFMin
<1> USE DEF U
<1>3. \A v \in U : u <= v
  <2> SUFFICES ASSUME NEW v \in U PROVE u <= v
    OBVIOUS
  <2>1. u \in Nat /\ v \in Nat /\ ~(<<v, u>> \in Less)
    BY <1>1, <1>2
  <2>2. <<v, u>> \in Nat \X Nat /\ <<v, u>>[1] = v /\ <<v, u>>[2] = u
    BY <2>1
  <2>3. ~(v < u)
    BY <2>1, <2>2 DEF Less
  <2>. QED
    BY <2>1, <2>3
<1>4. u \in S
  <2>1. u \in Nat /\ \A x \in S : x <= u
    BY <1>2
  <2>2. CASE u = 0
    <3>1. PICK x \in S : TRUE
      OBVIOUS
    <3>2. x = u
      BY <2>1, <2>2, <3>1
    <3>. QED
      BY <3>1, <3>2
  <2>3. CASE u # 0
    <3>1. u - 1 \in Nat /\ u - 1 \notin U
      BY <1>3, <2>1, <2>3
    <3>2. PICK x \in S : ~(x <= u - 1)
      BY <3>1
    <3>3. x = u
      BY <2>1, <2>3, <3>2
    <3>. QED
      BY <3>2, <3>3
  <2>. QED
    BY <2>2, <2>3
<1>5. \E x \in S : \A y \in S : x >= y
  BY <1>2, <1>4
<1>. QED
  BY <1>5 DEF Max

\* Above the stored generation and every logged one, and not far above.
LEMMA NextGenerationAbove ==
    ASSUME Types, GenInv
    PROVE  /\ NextGeneration \in Nat
           /\ NextGeneration <= config.era + 1
           /\ \A g \in Logged : g < NextGeneration
<1> DEFINE S == {config.gen} \cup Logged
<1>1. S \in SUBSET Nat /\ S # {} /\ config.era \in Nat /\ \A g \in S : g <= config.era
  BY DEF Types, ConfigType, RowType, Logged, GenInv
<1>2. Max(S) \in S /\ \A g \in S : g <= Max(S)
  <2> HIDE DEF S
  <2>. QED
    BY <1>1, BoundedMax
<1>3. Max(S) \in Nat /\ Max(S) <= config.era /\ \A g \in Logged : g \in Nat /\ g <= Max(S)
  BY <1>1, <1>2
<1>. QED
  BY <1>1, <1>3 DEF NextGeneration

-----------------------------------------------------------------------------
(* Types.                                                                  *)

LEMMA Shapes ==
    /\ NoRow \in RowType
    /\ Unread \in RecType
    /\ Free \in ConType
BY WebhookAssumption DEF NoRow, Unread, Free, RowType, RecType, ConType, Ends, Bodies

LEMMA ConfigMoves ==
    ASSUME Types, GenInv, config.on, ~config.paused
    PROVE  Counted \in ConfigType /\ Restarted \in ConfigType
<1>1. /\ config.streak \in 0..Threshold /\ config.streak < Threshold
      /\ Threshold \in Nat \ {0}
  BY WebhookAssumption DEF Types, GenInv, ConfigType
<1>2. config.streak + 1 \in 0..Threshold /\ 0 \in 0..Threshold
  BY <1>1
<1>3. (config.streak + 1 >= Threshold) \in BOOLEAN
  OBVIOUS
<1>. QED
  BY <1>2, <1>3 DEF Types, Counted, Restarted, ConfigType

LEMMA ConfigEnds ==
    ASSUME Types, GenInv, NEW d \in Deliveries
    PROVE  Failing(d) \in ConfigType /\ Succeeding(d) \in ConfigType
BY ConfigMoves DEF Failing, Succeeding, Counts, Types

LEMMA RowEnds ==
    ASSUME Types, NEW d \in Deliveries, NEW end \in Ends, Ended(d, end)
    PROVE  row' \in [Deliveries -> RowType]
<1> DEFINE r == [row[d] EXCEPT !.status = end, !.holder = 0, !.live = FALSE, !.young = FALSE,
                               !.late = FALSE, !.body = "plain"]
<1>1. row[d] \in RowType /\ 0 \in 0..MaxAttempts
  BY WebhookAssumption DEF Types
<1>2. r \in RowType
  BY <1>1 DEF RowType, Bodies
<1>3. row' = [row EXCEPT ![d] = r]
  BY DEF Ended, Types
<1> HIDE DEF r
<1>. QED
  BY <1>2, <1>3 DEF Types

LEMMA FailTypes ==
    ASSUME Types, GenInv, NEW d \in Deliveries, NEW g, Fail(d, g)
    PROVE  row' \in [Deliveries -> RowType] /\ config' \in ConfigType
<1>1. CASE g
  BY <1>1, RowEnds, ConfigEnds DEF Fail, Ends
<1>2. CASE ~g
  BY <1>2 DEF Fail, Types
<1>. QED
  BY <1>1, <1>2

LEMMA ConMoves ==
    ASSUME Types, NEW c \in Consumers
    PROVE  /\ Acks(c) => con' \in [Consumers -> ConType]
           /\ \A pc \in {"claim", "spent", "config", "cancel", "freeze", "post", "ok",
                         "retryable", "refused"} : Goes(c, pc) => con' \in [Consumers -> ConType]
BY Shapes DEF Types, Acks, Goes, ConType

LEMMA TypesInit == Init => Types
<1> SUFFICES ASSUME Init PROVE Types
  OBVIOUS
<1>1. config \in ConfigType
  BY WebhookAssumption DEF Init, ConfigType
<1>2. hist \in [Deliveries -> HistType]
  BY DEF Init, HistType, Bodies
<1>3. faults \in 0..MaxFaults
  BY WebhookAssumption DEF Init
<1>. QED
  BY <1>1, <1>2, <1>3, Shapes DEF Init, Types

\* The statement that frees a claim, and the messages that come back.
LEMMA FreedTypes ==
    ASSUME Types, NEW d \in Deliveries, Freed(d)
    PROVE  row' \in [Deliveries -> RowType]
<1> DEFINE r == [row[d] EXCEPT !.holder = 0, !.live = FALSE, !.late = FALSE]
<1>1. row[d] \in RowType /\ 0 \in 0..MaxAttempts
  BY WebhookAssumption DEF Types
<1>2. r \in RowType
  BY <1>1 DEF RowType
<1>3. row' = [row EXCEPT ![d] = r]
  BY DEF Freed, Types
<1> HIDE DEF r
<1>. QED
  BY <1>2, <1>3 DEF Types

LEMMA QueueTypes ==
    ASSUME Types, NEW d \in Deliveries
    PROVE  /\ [queue EXCEPT ![d] = @ + 1] \in [Deliveries -> Nat]
           /\ queue[d] > 0 => [queue EXCEPT ![d] = @ - 1] \in [Deliveries -> Nat]
BY DEF Types

LEMMA FaultTypes ==
    ASSUME Types, Fault \/ UNCHANGED faults
    PROVE  faults' \in 0..MaxFaults
BY WebhookAssumption DEF Types, Fault

LEMMA DispatchedTypes ==
    ASSUME Types, NEW d \in Deliveries, Dispatched(d)
    PROVE  queue' \in [Deliveries -> Nat] /\ faults' \in 0..MaxFaults
BY QueueTypes, FaultTypes DEF Dispatched, Types

LEMMA TypesStep == Types /\ ConInv /\ GenInv /\ [Next]_vars => Types'
<1> SUFFICES ASSUME Types, ConInv, GenInv, [Next]_vars
             PROVE  Types'
  OBVIOUS
<1>0. /\ \A c \in Consumers : con[c].pc # "free" => con[c].of \in Deliveries
      /\ con \in [Consumers -> ConType] /\ rec \in [Deliveries -> RecType]
      /\ row \in [Deliveries -> RowType]
  BY DEF ConInv, Numbered, Types
<1>1. CASE Save
  <2>1. NextGeneration \in Nat
    BY NextGenerationAbove
  <2>2. config' \in ConfigType
    BY <1>1, <2>1, WebhookAssumption DEF Save, ConfigType, Types
  <2>. QED
    BY <1>1, <2>2 DEF Save, Types
<1>2. CASE TurnOff
  <2>1. config' \in ConfigType
    <3>1. config \in ConfigType /\ 0 \in 0..Threshold
      BY WebhookAssumption DEF Types
    <3>2. [config EXCEPT !.on = FALSE, !.gen = 0, !.streak = 0, !.paused = FALSE] \in ConfigType
      BY <3>1 DEF ConfigType
    <3>. QED
      BY <1>2, <3>2 DEF TurnOff
  <2>. QED
    BY <1>2, <2>1 DEF TurnOff, Types
<1>3. ASSUME NEW d \in Deliveries, ReadSettings(d) PROVE Types'
  <2>1. rec' \in [Deliveries -> RecType]
    BY <1>3, Shapes DEF ReadSettings, Types, RecType, ConfigType, Unread
  <2>. QED
    BY <1>3, <2>1 DEF ReadSettings, Types
<1>4. ASSUME NEW d \in Deliveries, Insert(d) PROVE Types'
  <2>1. rec' \in [Deliveries -> RecType]
    BY <1>4, Shapes DEF Insert, Types, RecType, Unread
  <2>2. PICK report \in BOOLEAN :
         row' = [row EXCEPT ![d] = [NoRow EXCEPT
                   !.status = "pending", !.gen = rec[d].gen, !.frozen = report, !.young = ~report,
                   !.era = IF config.gen = rec[d].gen THEN config.era ELSE rec[d].era]]
    BY <1>4 DEF Insert
  <2>3. row' \in [Deliveries -> RowType]
    BY <2>2, Shapes DEF Types, RowType, RecType, ConfigType
  <2>. QED
    BY <1>4, <2>1, <2>3 DEF Insert, Types
<1>5. ASSUME NEW d \in Deliveries, Dispatch(d) PROVE Types'
  <2>1. rec' \in [Deliveries -> RecType]
    BY <1>5 DEF Dispatch, Types, RecType
  <2>. QED
    BY <1>5, <2>1, DispatchedTypes DEF Dispatch, Types
<1>6. ASSUME NEW d \in Deliveries, InsertFails(d) PROVE Types'
  <2>1. rec' \in [Deliveries -> RecType]
    BY <1>6, Shapes DEF InsertFails, Types, RecType, Unread
  <2>. QED
    BY <1>6, <2>1, FaultTypes DEF InsertFails, Types
<1>7. ASSUME NEW d \in Deliveries, RecordSent(d) PROVE Types'
  BY <1>7 DEF RecordSent, Types
<1>8. ASSUME NEW d \in Deliveries, Prune(d) PROVE Types'
  <2>1. row' \in [Deliveries -> RowType]
    BY <1>8, Shapes DEF Prune, Types, RowType
  <2>. QED
    BY <1>8, <2>1 DEF Prune, Types
<1>9. ASSUME NEW d \in Deliveries, Time(d) PROVE Types'
  <2>1. row' \in [Deliveries -> RowType]
    <3>1. /\ [row[d] EXCEPT !.live = FALSE] \in RowType
          /\ [row[d] EXCEPT !.young = FALSE] \in RowType
          /\ [row[d] EXCEPT !.late = TRUE] \in RowType
      BY <1>0 DEF RowType
    <3>2. \/ row' = [row EXCEPT ![d] = [row[d] EXCEPT !.live = FALSE]]
          \/ row' = [row EXCEPT ![d] = [row[d] EXCEPT !.young = FALSE]]
          \/ row' = [row EXCEPT ![d] = [row[d] EXCEPT !.late = TRUE]]
      BY <1>9 DEF Time, ClaimEnds, Ripen, FallDue
    <3>. QED
      BY <1>0, <3>1, <3>2
  <2>. QED
    BY <1>9, <2>1 DEF Time, ClaimEnds, Ripen, FallDue, Types
<1>10. ASSUME NEW d \in Deliveries, Duplicate(d) PROVE Types'
  BY <1>10, QueueTypes, FaultTypes DEF Duplicate, Types
<1>11. ASSUME NEW c \in Consumers, Claim(c) PROVE Types'
  <2> DEFINE d == con[c].of
  <2>1. d \in Deliveries
    BY <1>0, <1>11 DEF Claim
  <2>2. CASE Claimable(d)
    <3>1. row[d].attempts + 1 \in 0..MaxAttempts /\ row[d] \in RowType
      BY <1>0, <2>1, <2>2, WebhookAssumption DEF Claimable, RowType
    <3>2. row' \in [Deliveries -> RowType]
      BY <1>0, <1>11, <2>1, <2>2, <3>1 DEF Claim, RowType
    <3>3. con' \in [Consumers -> ConType]
      BY <1>0, <1>11, <2>1, <2>2, <3>1 DEF Claim, ConType
    <3>. QED
      BY <1>11, <3>2, <3>3 DEF Claim, Types
  <2>3. CASE ~Claimable(d)
    BY <1>11, <2>3, ConMoves DEF Claim, Types
  <2>. QED
    BY <2>2, <2>3
<1>12. ASSUME NEW c \in Consumers, FinishSpent(c) PROVE Types'
  BY <1>0, <1>12, FailTypes, ConMoves DEF FinishSpent, Types
<1>13. ASSUME NEW c \in Consumers, ReadConfig(c) PROVE Types'
  <2>1. con' \in [Consumers -> ConType]
    <3>1. con[c].of \in Deliveries
      BY <1>0, <1>13 DEF ReadConfig
    <3>2. config.era \in 0..MaxEras /\ row[con[c].of].body \in Bodies
      BY <1>0, <3>1 DEF Types, ConfigType, RowType
    <3>. QED
      <4> DEFINE k(pc) == [con[c] EXCEPT !.pc = pc, !.era = config.era, !.body = row[con[c].of].body]
      <4>1. k("cancel") \in ConType /\ k("post") \in ConType /\ k("freeze") \in ConType
        BY <1>0, <3>2 DEF ConType
      <4>2. \E pc \in {"cancel", "post", "freeze"} : con' = [con EXCEPT ![c] = k(pc)]
        BY <1>0, <1>13 DEF ReadConfig
      <4> HIDE DEF k
      <4>. QED
        BY <1>0, <4>1, <4>2
  <2>. QED
    BY <1>13, <2>1 DEF ReadConfig, Types
<1>14. ASSUME NEW c \in Consumers, CancelDelivery(c) PROVE Types'
  <2>1. row' \in [Deliveries -> RowType]
    BY <1>0, <1>14, RowEnds DEF CancelDelivery, Ends
  <2>. QED
    BY <1>14, <2>1, ConMoves DEF CancelDelivery, Types
<1>15. ASSUME NEW c \in Consumers, Freeze(c) PROVE Types'
  <2> DEFINE d == con[c].of
  <2>1. d \in Deliveries /\ Ids(d) \in Bodies
    BY <1>0, <1>15 DEF Freeze, Ids, Bodies
  <2>2. Kept(d) \in [Deliveries -> RowType]
    <3>1. [row[d] EXCEPT !.frozen = TRUE, !.body = Ids(d)] \in RowType
      BY <1>0, <2>1 DEF RowType
    <3>2. Kept(d) = [row EXCEPT ![d] = [row[d] EXCEPT !.frozen = TRUE, !.body = Ids(d)]]
      BY <1>0, <2>1 DEF Kept
    <3>. QED
      BY <1>0, <3>1, <3>2
  <2>3. row' \in [Deliveries -> RowType]
    BY <1>0, <1>15, <2>2 DEF Freeze
  <2>4. con' \in [Consumers -> ConType]
    BY <1>0, <1>15, <2>1, ConMoves DEF Freeze, ConType
  <2>. QED
    BY <1>15, <2>3, <2>4 DEF Freeze, Types
<1>16. ASSUME NEW c \in Consumers, Post(c) PROVE Types'
  <2> DEFINE d == con[c].of
  <2>1. d \in Deliveries /\ con[c].body \in Bodies /\ con[c].era \in 0..MaxEras
    BY <1>0, <1>16 DEF Post, ConType
  <2>2. hist' \in [Deliveries -> HistType]
    BY <1>16, <2>1 DEF Post, Types, HistType
  <2>. QED
    BY <1>16, <2>2, ConMoves DEF Post, Types
<1>17. ASSUME NEW c \in Consumers, Delivered(c) PROVE Types'
  <2>1. row' \in [Deliveries -> RowType] /\ config' \in ConfigType
    BY <1>0, <1>17, RowEnds, ConfigEnds DEF Delivered, Ends, Types
  <2>. QED
    BY <1>17, <2>1, ConMoves DEF Delivered, Types
<1>18. ASSUME NEW c \in Consumers, Retry(c) PROVE Types'
  <2>1. row' \in [Deliveries -> RowType]
    BY <1>0, <1>18, FreedTypes DEF Retry
  <2>2. queue' \in [Deliveries -> Nat]
    BY <1>0, <1>18, QueueTypes DEF Retry, Returns, Types
  <2>. QED
    BY <1>18, <2>1, <2>2, ConMoves DEF Retry, Types
<1>19. ASSUME NEW c \in Consumers, GiveUp(c) PROVE Types'
  BY <1>0, <1>19, FailTypes, ConMoves DEF GiveUp, Types
<1>20. ASSUME NEW c \in Consumers, Throw(c) PROVE Types'
  <2>1. con[c].of \in Deliveries
    BY <1>0, <1>20 DEF Throw
  <2>2. row' \in [Deliveries -> RowType] /\ config' \in ConfigType
    BY <1>20, <2>1, FreedTypes, FailTypes DEF Throw, Types
  <2>3. queue' \in [Deliveries -> Nat]
    BY <1>20, <2>1, QueueTypes DEF Throw, Returns, Types
  <2>. QED
    BY <1>20, <2>2, <2>3, ConMoves, FaultTypes DEF Throw, Types
<1>21. ASSUME NEW c \in Consumers, Die(c) PROVE Types'
  <2>1. queue' \in [Deliveries -> Nat]
    BY <1>0, <1>21, QueueTypes DEF Die, Returns, Types
  <2>. QED
    BY <1>21, <2>1, ConMoves, FaultTypes DEF Die, Types
<1>22. ASSUME NEW c \in Consumers, NEW d \in Deliveries, Take(c, d) PROVE Types'
  <2>1. queue' \in [Deliveries -> Nat] /\ faults' \in 0..MaxFaults
    BY <1>22, QueueTypes, FaultTypes DEF Take, Types
  <2>2. [Free EXCEPT !.pc = "claim", !.of = d] \in ConType
    BY Shapes DEF ConType
  <2>3. con' \in [Consumers -> ConType]
    BY <1>0, <1>22, <2>2 DEF Take
  <2>. QED
    BY <1>22, <2>1, <2>3 DEF Take, Types
<1>23. CASE StartSweep
  BY <1>23 DEF StartSweep, Types
<1>24. ASSUME NEW d \in Deliveries, SweepRow(d) PROVE Types'
  <2>1. row' \in [Deliveries -> RowType] /\ config' \in ConfigType
    <3>1. CASE Spent(d)
      BY <1>24, <3>1, FailTypes DEF SweepRow
    <3>2. CASE ~Spent(d)
      <4>1. [row EXCEPT ![d].late = FALSE] \in [Deliveries -> RowType]
        BY <1>0 DEF RowType
      <4>. QED
        BY <1>24, <3>2, <4>1 DEF SweepRow, Types
    <3>. QED
      BY <3>1, <3>2
  <2>2. queue' \in [Deliveries -> Nat] /\ faults' \in 0..MaxFaults
    BY <1>24, DispatchedTypes DEF SweepRow, Types
  <2>. QED
    BY <1>24, <2>1, <2>2 DEF SweepRow, Types
<1>25. CASE OtherEnds
  BY <1>25, ConfigMoves DEF OtherEnds, Types
<1>26. CASE UNCHANGED vars
  BY <1>26 DEF vars, Types
<1>. QED
  BY <1>1, <1>2, <1>3, <1>4, <1>5, <1>6, <1>7, <1>8, <1>9, <1>10, <1>11, <1>12, <1>13,
     <1>14, <1>15, <1>16, <1>17, <1>18, <1>19, <1>20, <1>21, <1>22, <1>23, <1>24, <1>25,
     <1>26 DEF Next, Settings, Record, Attempt, Sweep

-----------------------------------------------------------------------------
(* Steps that POST nothing.  A row may end, be freed or be deleted, and a   *)
(* consumer may let go of its message or take one; a claim that still runs  *)
(* keeps its row.                                                           *)

\* What a row keeps while it lasts.
RowMoves(d) ==
    /\ row[d] # NoRow
    /\ \/ row[d].status \in Ends /\ row'[d].status = "pruned" /\ row'[d].gen = 0
       \/ /\ row'[d].attempts = row[d].attempts
          /\ row'[d].era = row[d].era
          /\ row'[d].gen = row[d].gen
          /\ \/ Pending(d) /\ row'[d].status \in Ends
             \/ /\ row'[d].status = row[d].status
                /\ row'[d].frozen = row[d].frozen
                /\ row'[d].body = row[d].body

ClaimKept(d) ==
    /\ row'[d].status = row[d].status
    /\ row'[d].live = row[d].live
    /\ row'[d].holder = row[d].holder

RowsMove ==
    \A d \in Deliveries :
        \/ row'[d] = row[d]
        \/ /\ RowMoves(d)
           /\ \/ ClaimKept(d)
              \/ \A c \in Consumers : Live(c) /\ con'[c] = con[c] => con[c].of # d

ConsMove ==
    \A c \in Consumers :
        \/ con'[c] = con[c]
        \/ con'[c] = Free
        \/ con[c].pc = "claim" /\ con'[c] = [con[c] EXCEPT !.pc = "spent"]
        \/ \E d \in Deliveries : Pending(d) /\ con'[c] = [Free EXCEPT !.pc = "claim", !.of = d]

RecsMove ==
    \A d \in Deliveries :
        /\ rec'[d].pc \in {"new", "read"} => rec[d].pc \in {"new", "read"}
        /\ rec'[d].gen \in {rec[d].gen, config.gen, 0}

\* The run of failures grows or is cut; the endpoint is the same.
ConfigMove ==
    \/ config' = config
    \/ ~config.paused /\ config' \in {Counted, Restarted}

LEMMA PostsFrame ==
    ASSUME Types, PostsInv, hist' = hist, RowsMove, ConsMove, RecsMove
    PROVE  PostsInv'
<1>0. /\ row \in [Deliveries -> RowType] /\ con \in [Consumers -> ConType]
      /\ hist \in [Deliveries -> HistType]
      /\ "none" \notin Deliveries
      /\ Free.pc = "free" /\ Free.of = "none" /\ Free.attempt = 0
  BY WebhookAssumption DEF Types, Free
<1>1. \A c \in Consumers : Live(c)' \/ con'[c].attempt # 0 => con'[c] = con[c]
  <2> SUFFICES ASSUME NEW c \in Consumers, Live(c)' \/ con'[c].attempt # 0
               PROVE  con'[c] = con[c]
    OBVIOUS
  <2>1. con'[c] # Free
    BY <1>0 DEF Live
  <2>2. CASE con[c].pc = "claim" /\ con'[c] = [con[c] EXCEPT !.pc = "spent"]
    <3>1. con[c].attempt = 0
      BY <2>2 DEF PostsInv, ConInv, Numbered
    <3>2. con'[c].attempt = 0 /\ con'[c].pc = "spent"
      BY <1>0, <2>2, <3>1 DEF ConType
    <3>. QED
      BY <3>2 DEF Live
  <2>3. ASSUME NEW d \in Deliveries, con'[c] = [Free EXCEPT !.pc = "claim", !.of = d]
        PROVE  FALSE
    BY <2>3 DEF Free, Live
  <2>. QED
    BY <2>1, <2>2, <2>3 DEF ConsMove
<1>10. \A d \in Deliveries : row'[d].status # "pruned" =>
          /\ row[d].status # "pruned"
          /\ row'[d].attempts = row[d].attempts
          /\ row'[d].era = row[d].era
  BY DEF RowsMove, RowMoves, Ends, Pending
<1>2. RecInv'
  <2> SUFFICES ASSUME NEW d \in Deliveries, rec'[d].pc \in {"new", "read"}
               PROVE  /\ row'[d] = NoRow
                      /\ hist'[d] = [posts |-> 0, bodies |-> {}, eras |-> {}]
                      /\ \A c \in Consumers : con'[c].of # d
    BY DEF RecInv, NoRow
  <2>1. row[d] = NoRow /\ row'[d] = row[d] /\ ~Pending(d)
    BY DEF RecsMove, PostsInv, RecInv, RowsMove, RowMoves, Pending, NoRow
  <2>2. hist[d] = [posts |-> 0, bodies |-> {}, eras |-> {}] /\ \A c \in Consumers : con[c].of # d
    BY DEF RecsMove, PostsInv, RecInv
  <2>3. ASSUME NEW c \in Consumers PROVE con'[c].of # d
    <3>1. CASE con[c].pc = "claim" /\ con'[c] = [con[c] EXCEPT !.pc = "spent"]
      BY <1>0, <2>2, <3>1 DEF ConType
    <3>2. ASSUME NEW e \in Deliveries, Pending(e), con'[c] = [Free EXCEPT !.pc = "claim", !.of = e]
          PROVE  con'[c].of # d
      <4>1. con'[c].of = e
        BY <3>2 DEF Free
      <4>. QED
        BY <2>1, <3>2, <4>1
    <3>. QED
      BY <1>0, <2>2, <3>1, <3>2 DEF ConsMove
  <2>. QED
    BY <2>1, <2>2, <2>3
<1>3. ConInv'
  <2> SUFFICES ASSUME NEW c \in Consumers PROVE Numbered(c)'
    BY DEF ConInv
  <2>0. Numbered(c)
    BY DEF PostsInv, ConInv
  <2>1. CASE con'[c] = con[c]
    <3>1. con[c].pc # "free" /\ row'[con[c].of].status # "pruned" =>
             con[c].attempt <= row'[con[c].of].attempts
      BY <1>10, <2>0 DEF Numbered
    <3>. QED
      BY <2>0, <2>1, <3>1 DEF Numbered, Free
  <2>2. CASE con'[c] = Free
    BY <1>0, <2>2 DEF Numbered, Free
  <2>3. CASE con[c].pc = "claim" /\ con'[c] = [con[c] EXCEPT !.pc = "spent"]
    <3>1. con'[c].pc = "spent" /\ con'[c].of = con[c].of /\ con'[c].attempt = con[c].attempt
      BY <1>0, <2>3 DEF ConType
    <3>2. con[c].of \in Deliveries /\ con[c].attempt = 0
      BY <2>0, <2>3 DEF Numbered
    <3>3. row'[con[c].of].status # "pruned" => con[c].attempt <= row'[con[c].of].attempts
      BY <1>10, <2>0, <2>3, <3>2 DEF Numbered
    <3>. QED
      BY <3>1, <3>2, <3>3 DEF Numbered
  <2>4. ASSUME NEW d \in Deliveries, Pending(d), con'[c] = [Free EXCEPT !.pc = "claim", !.of = d]
        PROVE  Numbered(c)'
    <3>1. con'[c].pc = "claim" /\ con'[c].of = d /\ con'[c].attempt = 0
      BY <2>4 DEF Free
    <3>2. row'[d].status # "pruned" => 0 <= row'[d].attempts
      <4>1. row[d].attempts \in Nat
        BY <1>0, WebhookAssumption DEF RowType
      <4>. QED
        BY <1>10, <4>1
    <3>. QED
      BY <3>1, <3>2 DEF Numbered
  <2>. QED
    BY <2>1, <2>2, <2>3, <2>4 DEF ConsMove
<1>4. Distinct'
  BY <1>1 DEF PostsInv, Distinct
<1>5. ASSUME NEW c \in Consumers, Live(c)'
      PROVE  /\ con'[c] = con[c] /\ Live(c) /\ con[c].of \in Deliveries
             /\ ClaimKept(con[c].of)
             /\ row'[con[c].of] = row[con[c].of] \/ RowMoves(con[c].of)
  <2>1. con'[c] = con[c] /\ Live(c)
    BY <1>1, <1>5 DEF Live
  <2>2. con[c].of \in Deliveries
    BY <2>1 DEF Live, PostsInv, ConInv, Numbered
  <2>3. row'[con[c].of] = row[con[c].of] \/ (RowMoves(con[c].of) /\ ClaimKept(con[c].of))
    BY <2>1, <2>2 DEF RowsMove
  <2>. QED
    BY <2>1, <2>2, <2>3 DEF ClaimKept
<1>6. LiveInv'
  BY <1>5 DEF PostsInv, LiveInv, ClaimKept, Pending
<1>7. PostInv'
  <2> SUFFICES ASSUME NEW d \in Deliveries
               PROVE  /\ hist'[d].posts <= MaxAttempts
                      /\ row'[d].status # "pruned" => hist'[d].posts <= row'[d].attempts
                      /\ \A c \in Consumers : Live(c)' /\ con'[c].of = d =>
                            hist'[d].posts < row'[d].attempts
    BY DEF PostInv, Live
  <2>1. row'[d].status # "pruned" => row[d].status # "pruned" /\ row'[d].attempts = row[d].attempts
    BY <1>10
  <2>2. ASSUME NEW c \in Consumers, Live(c)', con'[c].of = d
        PROVE  hist'[d].posts < row'[d].attempts
    <3>1. Live(c) /\ con[c].of = d /\ row'[d].status # "pruned"
      BY <1>5, <2>2 DEF PostsInv, LiveInv, ClaimKept, Pending
    <3>. QED
      BY <2>1, <3>1 DEF PostsInv, PostInv
  <2>. QED
    BY <2>1, <2>2 DEF PostsInv, PostInv
<1>8. BodyInv'
  <2>1. ASSUME NEW d \in Deliveries
        PROVE  /\ \E b \in Bodies : hist'[d].bodies \subseteq {b}
               /\ row'[d].status = "pending" => hist'[d].bodies \subseteq {row'[d].body}
               /\ row'[d].status = "pending" /\ ~row'[d].frozen => hist'[d].bodies = {}
    BY DEF PostsInv, BodyInv, RowsMove, RowMoves, Ends, Pending
  <2>2. ASSUME NEW c \in Consumers, con'[c].pc = "post"
        PROVE  row'[con'[c].of].frozen /\ con'[c].body = row'[con'[c].of].body
    <3>1. Live(c)'
      BY <2>2 DEF Live
    <3>2. con'[c] = con[c] /\ row[con[c].of].frozen /\ con[c].body = row[con[c].of].body
      BY <1>5, <2>2, <3>1 DEF PostsInv, BodyInv
    <3>3. Pending(con[c].of) /\ row'[con[c].of].status = row[con[c].of].status
      BY <1>5, <3>1 DEF PostsInv, LiveInv, ClaimKept
    <3>. QED
      BY <1>5, <3>1, <3>2, <3>3 DEF RowMoves, Pending, Ends
  <2>. QED
    BY <2>1, <2>2 DEF BodyInv, Pending
<1>9. EraInv'
  <2>1. ASSUME NEW d \in Deliveries, row'[d].status # "pruned"
        PROVE  hist'[d].eras \subseteq {row'[d].era}
    BY <1>10, <2>1 DEF PostsInv, EraInv
  <2>2. ASSUME NEW c \in Consumers, con'[c].pc \in {"freeze", "post"}
        PROVE  con'[c].era = row'[con'[c].of].era
    <3>1. Live(c)'
      BY <2>2 DEF Live
    <3>2. con'[c] = con[c] /\ con[c].era = row[con[c].of].era
      BY <1>5, <2>2, <3>1 DEF PostsInv, EraInv
    <3>3. Pending(con[c].of) /\ row'[con[c].of].status = row[con[c].of].status
      BY <1>5, <3>1 DEF PostsInv, LiveInv, ClaimKept
    <3>. QED
      BY <1>5, <3>1, <3>2, <3>3 DEF RowMoves, Pending, Ends
  <2>. QED
    BY <2>1, <2>2 DEF EraInv
<1>. QED
  BY <1>2, <1>3, <1>4, <1>6, <1>7, <1>8, <1>9 DEF PostsInv

LEMMA GenFrame ==
    ASSUME Types, GenInv, RowsMove, RecsMove, ConfigMove
    PROVE  GenInv'
<1>0. /\ config \in ConfigType /\ row \in [Deliveries -> RowType] /\ rec \in [Deliveries -> RecType]
      /\ Threshold \in Nat \ {0}
  BY WebhookAssumption DEF Types
<1>1. /\ config'.on = config.on /\ config'.gen = config.gen /\ config'.era = config.era
      /\ config'.paused <=> config'.streak >= Threshold
  <2>1. CASE config' = config
    BY <2>1 DEF GenInv
  <2>2. CASE config' = Counted
    <3>1. /\ Counted.on = config.on /\ Counted.gen = config.gen /\ Counted.era = config.era
          /\ Counted.streak = config.streak + 1
          /\ Counted.paused = (config.streak + 1 >= Threshold)
      BY <1>0 DEF Counted, ConfigType
    <3>. QED
      BY <2>2, <3>1
  <2>3. CASE config' = Restarted
    <3>1. /\ Restarted.on = config.on /\ Restarted.gen = config.gen /\ Restarted.era = config.era
          /\ Restarted.streak = 0 /\ Restarted.paused = config.paused
      BY <1>0 DEF Restarted, ConfigType
    <3>2. config' = Restarted /\ config' # config => ~config.paused
      BY DEF ConfigMove, Counted, Restarted
    <3>. QED
      BY <1>0, <2>1, <2>3, <3>1, <3>2
  <2>. QED
    BY <2>1, <2>2, <2>3 DEF ConfigMove
<1>2. config.gen \in Nat /\ config.era \in Nat /\ config.gen <= config.era
  BY <1>0 DEF GenInv, ConfigType
<1>3. ASSUME NEW d \in Deliveries
      PROVE  /\ rec'[d].gen <= config.era /\ row'[d].gen <= config.era
             /\ row'[d].status \notin {"none", "pruned"} =>
                   /\ row[d].status \notin {"none", "pruned"}
                   /\ row'[d].gen = row[d].gen /\ row'[d].era = row[d].era
  <2>1. rec'[d].gen <= config.era
    BY <1>2 DEF RecsMove, GenInv
  <2>2. row'[d].gen <= config.era
    BY <1>2 DEF RowsMove, RowMoves, GenInv
  <2>3. row'[d].status \notin {"none", "pruned"} =>
           /\ row[d].status \notin {"none", "pruned"}
           /\ row'[d].gen = row[d].gen /\ row'[d].era = row[d].era
    BY DEF RowsMove, RowMoves, Pending
  <2>. QED
    BY <2>1, <2>2, <2>3
<1>. QED
  BY <1>1, <1>2, <1>3 DEF GenInv

\* The two frames together.
LEMMA QuietStep ==
    ASSUME IInv, hist' = hist, RowsMove, ConsMove, RecsMove, ConfigMove
    PROVE  PostsInv' /\ GenInv'
BY PostsFrame, GenFrame DEF IInv

\* A consumer that still holds its row is the only one with a claim on it.
LEMMA OnlyHolder ==
    ASSUME PostsInv, NEW c \in Consumers, NEW e \in Consumers, Holds(c), con[c].attempt # 0,
           Live(e), con[e].of = con[c].of
    PROVE  e = c
BY DEF PostsInv, LiveInv, Distinct, Holds

\* The end of a row that nobody claims, or by the consumer that does.
LEMMA EndedMoves ==
    ASSUME Types, PostsInv, NEW d \in Deliveries, NEW end \in Ends, Ended(d, end), Pending(d),
           \/ Unclaimed(d)
           \/ \E c \in Consumers :
                con[c].of = d /\ con[c].attempt # 0 /\ Holds(c) /\ con'[c] = Free
    PROVE  RowsMove
<1>1. row \in [Deliveries -> RowType]
  BY DEF Types
<1>2. \A e \in Deliveries : e # d => row'[e] = row[e]
  BY <1>1 DEF Ended
<1>3. RowMoves(d)
  <2>1. /\ row'[d].status = end /\ row'[d].attempts = row[d].attempts
        /\ row'[d].era = row[d].era /\ row'[d].gen = row[d].gen
    BY <1>1 DEF Ended, RowType
  <2>2. row[d] # NoRow
    BY DEF Pending, NoRow
  <2>. QED
    BY <2>1, <2>2 DEF RowMoves
<1>4. \A c \in Consumers : Live(c) /\ con'[c] = con[c] => con[c].of # d
  <2> SUFFICES ASSUME NEW e \in Consumers, Live(e), con'[e] = con[e], con[e].of = d
               PROVE  FALSE
    OBVIOUS
  <2>1. CASE Unclaimed(d)
    BY <2>1 DEF Unclaimed, PostsInv, LiveInv
  <2>2. ASSUME NEW c \in Consumers, con[c].of = d, con[c].attempt # 0, Holds(c), con'[c] = Free
        PROVE  FALSE
    <3>1. e = c
      BY <2>2, OnlyHolder
    <3>. QED
      BY <2>2, <3>1 DEF Live, Free
  <2>. QED
    BY <2>1, <2>2
<1>. QED
  BY <1>2, <1>3, <1>4 DEF RowsMove

LEMMA FreedMoves ==
    ASSUME Types, PostsInv, NEW c \in Consumers, con[c].of \in Deliveries, con[c].attempt # 0,
           Holds(c), con'[c] = Free, Freed(con[c].of)
    PROVE  RowsMove
<1> DEFINE d == con[c].of
<1>1. row \in [Deliveries -> RowType]
  BY DEF Types
<1>2. \A e \in Deliveries : e # d => row'[e] = row[e]
  BY <1>1 DEF Freed
<1>3. RowMoves(d)
  <2>1. /\ row'[d].status = row[d].status /\ row'[d].attempts = row[d].attempts
        /\ row'[d].era = row[d].era /\ row'[d].gen = row[d].gen
        /\ row'[d].frozen = row[d].frozen /\ row'[d].body = row[d].body
    BY <1>1 DEF Freed, RowType
  <2>2. row[d] # NoRow
    BY DEF Holds, Pending, NoRow
  <2>. QED
    BY <2>1, <2>2 DEF RowMoves
<1>4. \A e \in Consumers : Live(e) /\ con'[e] = con[e] => con[e].of # d
  BY OnlyHolder DEF Live, Free
<1>. QED
  BY <1>2, <1>3, <1>4 DEF RowsMove

\* failDelivery, by either.
LEMMA FailMoves ==
    ASSUME Types, PostsInv, NEW d \in Deliveries, NEW g, Fail(d, g),
           g => /\ Pending(d)
                /\ \/ Unclaimed(d)
                   \/ \E c \in Consumers :
                        con[c].of = d /\ con[c].attempt # 0 /\ Holds(c) /\ con'[c] = Free
    PROVE  RowsMove /\ ConfigMove
<1>1. CASE g
  <2>1. Ended(d, "failed") /\ config' = Failing(d)
    BY <1>1 DEF Fail
  <2>2. RowsMove
    BY <1>1, <2>1, EndedMoves DEF Ends
  <2>3. ConfigMove
    BY <2>1 DEF Failing, Counts, ConfigMove
  <2>. QED
    BY <2>2, <2>3
<1>2. CASE ~g
  BY <1>2 DEF Fail, RowsMove, ConfigMove
<1>. QED
  BY <1>1, <1>2

-----------------------------------------------------------------------------
(* The steps that make a row, a claim, a body or a POST.                   *)

LEMMA InsertStep ==
    ASSUME IInv, NEW d \in Deliveries, Insert(d)
    PROVE  PostsInv' /\ GenInv'
<1>0. /\ row \in [Deliveries -> RowType] /\ con \in [Consumers -> ConType]
      /\ rec \in [Deliveries -> RecType] /\ config \in ConfigType
      /\ MaxAttempts \in Nat \ {0}
  BY WebhookAssumption DEF IInv, Types
<1>1. PICK report \in BOOLEAN :
         row' = [row EXCEPT ![d] = [NoRow EXCEPT
                   !.status = "pending", !.gen = rec[d].gen, !.frozen = report, !.young = ~report,
                   !.era = IF config.gen = rec[d].gen THEN config.era ELSE rec[d].era]]
  BY DEF Insert
<1>2. /\ row'[d].status = "pending" /\ row'[d].gen = rec[d].gen /\ row'[d].attempts = 0
      /\ row'[d].frozen = report /\ row'[d].body = "plain"
      /\ row'[d].era = IF config.gen = rec[d].gen THEN config.era ELSE rec[d].era
      /\ \A e \in Deliveries : e # d => row'[e] = row[e]
  BY <1>0, <1>1 DEF NoRow
<1>3. /\ rec'[d].pc = "inserted" /\ rec'[d].gen = 0
      /\ \A e \in Deliveries : e # d => rec'[e] = rec[e]
      /\ con' = con /\ hist' = hist /\ config' = config
  BY <1>0 DEF Insert, Unread
<1>4. /\ hist[d] = [posts |-> 0, bodies |-> {}, eras |-> {}]
      /\ \A c \in Consumers : con[c].of # d
  BY DEF Insert, IInv, PostsInv, RecInv
<1>5. hist[d].posts = 0 /\ hist[d].bodies = {} /\ hist[d].eras = {}
  BY <1>4
<1>6. RecInv'
  BY <1>2, <1>3 DEF IInv, PostsInv, RecInv, NoRow
<1>7. ConInv'
  BY <1>2, <1>3, <1>4 DEF IInv, PostsInv, ConInv, Numbered, Free
<1>8. Distinct'
  BY <1>3 DEF IInv, PostsInv, Distinct
<1>9. \A c \in Consumers : Live(c) => con[c].of \in Deliveries /\ con[c].of # d
  BY <1>4 DEF IInv, PostsInv, ConInv, Numbered, Live
<1>10. LiveInv'
  BY <1>2, <1>3, <1>9 DEF IInv, PostsInv, LiveInv, Live, Pending
<1>11. PostInv'
  BY <1>0, <1>2, <1>3, <1>4, <1>5 DEF IInv, PostsInv, PostInv, Live
<1>12. BodyInv'
  <2>1. ASSUME NEW e \in Deliveries
        PROVE  /\ \E b \in Bodies : hist'[e].bodies \subseteq {b}
               /\ row'[e].status = "pending" => hist'[e].bodies \subseteq {row'[e].body}
               /\ row'[e].status = "pending" /\ ~row'[e].frozen => hist'[e].bodies = {}
    BY <1>2, <1>3, <1>5 DEF IInv, PostsInv, BodyInv, Pending
  <2>2. ASSUME NEW c \in Consumers, con'[c].pc = "post"
        PROVE  row'[con'[c].of].frozen /\ con'[c].body = row'[con'[c].of].body
    BY <1>2, <1>3, <1>9, <2>2 DEF IInv, PostsInv, BodyInv, Live
  <2>. QED
    BY <2>1, <2>2 DEF BodyInv, Pending
<1>13. EraInv'
  BY <1>2, <1>3, <1>5, <1>9 DEF IInv, PostsInv, EraInv, Live
<1>14. GenInv'
  <2>1. rec[d].gen <= config.era
    BY DEF IInv, GenInv
  <2>2. config.era >= 0
    BY <1>0 DEF ConfigType
  <2>. QED
    BY <1>0, <1>2, <1>3, <2>1, <2>2 DEF IInv, GenInv
<1>. QED
  BY <1>6, <1>7, <1>8, <1>10, <1>11, <1>12, <1>13, <1>14 DEF PostsInv

LEMMA ClaimStep ==
    ASSUME IInv, NEW c \in Consumers, Claim(c), Claimable(con[c].of)
    PROVE  PostsInv' /\ GenInv'
<1> DEFINE d == con[c].of
           n == row[d].attempts + 1
<1>0. /\ row \in [Deliveries -> RowType] /\ con \in [Consumers -> ConType]
      /\ hist \in [Deliveries -> HistType]
      /\ MaxAttempts \in Nat \ {0}
  BY WebhookAssumption DEF IInv, Types
<1>1. d \in Deliveries /\ n \in 1..MaxAttempts /\ Pending(d) /\ ~row[d].live /\ row[d].attempts \in Nat
  BY <1>0 DEF Claim, Claimable, Unclaimed, IInv, PostsInv, ConInv, Numbered, RowType
<1>2. /\ row'[d].status = "pending" /\ row'[d].attempts = n /\ row'[d].holder = n /\ row'[d].live
      /\ row'[d].gen = row[d].gen /\ row'[d].era = row[d].era
      /\ row'[d].frozen = row[d].frozen /\ row'[d].body = row[d].body
      /\ \A e \in Deliveries : e # d => row'[e] = row[e]
  BY <1>0, <1>1 DEF Claim, RowType, Pending
<1>3. /\ con'[c].pc = "config" /\ con'[c].attempt = n /\ con'[c].of = d
      /\ \A e \in Consumers : e # c => con'[e] = con[e]
      /\ hist' = hist /\ config' = config /\ rec' = rec
  BY <1>0, <1>1 DEF Claim, ConType
<1> HIDE DEF n, d
<1>4. \A e \in Consumers : con[e].of = d => con[e].attempt < n /\ ~Live(e)
  <2> SUFFICES ASSUME NEW e \in Consumers, con[e].of = d
               PROVE  con[e].attempt < n /\ ~Live(e)
    OBVIOUS
  <2>1. con[e].pc # "free"
    BY <1>1, WebhookAssumption DEF IInv, PostsInv, ConInv, Numbered, Free
  <2>2. con[e].attempt <= row[d].attempts /\ con[e].attempt \in Nat
    BY <1>0, <1>1, <2>1 DEF IInv, PostsInv, ConInv, Numbered, Pending, ConType
  <2>3. ~Live(e)
    BY <1>1 DEF IInv, PostsInv, LiveInv
  <2>. QED
    BY <1>1, <2>2, <2>3 DEF n
<1>5. RecInv'
  <2>1. rec[d].pc \notin {"new", "read"}
    BY <1>1 DEF IInv, PostsInv, RecInv, Pending, NoRow
  <2>. QED
    BY <1>2, <1>3, <2>1 DEF IInv, PostsInv, RecInv, NoRow, d
<1>6. ConInv'
  <2> SUFFICES ASSUME NEW e \in Consumers PROVE Numbered(e)'
    BY DEF ConInv
  <2>1. CASE e = c
    BY <1>1, <1>2, <1>3, <2>1 DEF Numbered
  <2>2. CASE e # c
    <3>1. Numbered(e) /\ con'[e] = con[e]
      BY <1>3, <2>2 DEF IInv, PostsInv, ConInv
    <3>2. con[e].of = d => con[e].attempt <= row'[d].attempts
      BY <1>0, <1>1, <1>2, <1>4 DEF ConType
    <3>. QED
      BY <1>2, <3>1, <3>2 DEF Numbered, Free
  <2>. QED
    BY <2>1, <2>2
<1>7. Distinct'
  BY <1>1, <1>3, <1>4 DEF IInv, PostsInv, Distinct
<1>8. LiveInv'
  <2> SUFFICES ASSUME NEW e \in Consumers, Live(e)'
               PROVE  /\ row'[con'[e].of].status = "pending"
                      /\ row'[con'[e].of].live
                      /\ row'[con'[e].of].holder = con'[e].attempt
    BY DEF LiveInv, Pending
  <2>1. CASE e = c
    BY <1>2, <1>3, <2>1
  <2>2. CASE e # c
    <3>1. con'[e] = con[e] /\ Live(e) /\ con[e].of # d /\ con[e].of \in Deliveries
      BY <1>3, <1>4, <2>2 DEF Live, IInv, PostsInv, ConInv, Numbered
    <3>. QED
      BY <1>2, <3>1 DEF IInv, PostsInv, LiveInv, Pending
  <2>. QED
    BY <2>1, <2>2
<1>9. PostInv'
  <2> SUFFICES ASSUME NEW e \in Deliveries
               PROVE  /\ hist'[e].posts <= MaxAttempts
                      /\ row'[e].status # "pruned" => hist'[e].posts <= row'[e].attempts
                      /\ \A k \in Consumers : Live(k)' /\ con'[k].of = e =>
                            hist'[e].posts < row'[e].attempts
    BY DEF PostInv, Live
  <2>1. CASE e = d
    <3>1. hist[d].posts <= row[d].attempts /\ hist[d].posts \in Nat /\ hist[d].posts <= MaxAttempts
      BY <1>0, <1>1 DEF IInv, PostsInv, PostInv, Pending, HistType
    <3>2. hist[d].posts < n
      BY <1>1, <3>1 DEF n
    <3>. QED
      BY <1>1, <1>2, <1>3, <2>1, <3>1, <3>2
  <2>2. CASE e # d
    <3>1. \A k \in Consumers : Live(k)' /\ con'[k].of = e => Live(k) /\ con[k].of = e
      BY <1>3, <2>2 DEF Live
    <3>. QED
      BY <1>2, <1>3, <2>2, <3>1 DEF IInv, PostsInv, PostInv
  <2>. QED
    BY <2>1, <2>2
<1>10. BodyInv'
  <2>1. ASSUME NEW e \in Deliveries
        PROVE  /\ \E b \in Bodies : hist'[e].bodies \subseteq {b}
               /\ row'[e].status = "pending" => hist'[e].bodies \subseteq {row'[e].body}
               /\ row'[e].status = "pending" /\ ~row'[e].frozen => hist'[e].bodies = {}
    BY <1>1, <1>2, <1>3 DEF IInv, PostsInv, BodyInv, Pending
  <2>2. ASSUME NEW e \in Consumers, con'[e].pc = "post"
        PROVE  row'[con'[e].of].frozen /\ con'[e].body = row'[con'[e].of].body
    BY <1>2, <1>3, <1>4, <2>2 DEF IInv, PostsInv, BodyInv, Live, ConInv, Numbered
  <2>. QED
    BY <2>1, <2>2 DEF BodyInv, Pending
<1>11. EraInv'
  <2>1. ASSUME NEW e \in Deliveries, row'[e].status # "pruned"
        PROVE  hist'[e].eras \subseteq {row'[e].era}
    BY <1>1, <1>2, <1>3, <2>1 DEF IInv, PostsInv, EraInv, Pending
  <2>2. ASSUME NEW e \in Consumers, con'[e].pc \in {"freeze", "post"}
        PROVE  con'[e].era = row'[con'[e].of].era
    BY <1>2, <1>3, <1>4, <2>2 DEF IInv, PostsInv, EraInv, Live, ConInv, Numbered
  <2>. QED
    BY <2>1, <2>2 DEF EraInv
<1>12. GenInv'
  BY <1>1, <1>2, <1>3 DEF IInv, GenInv, Pending
<1>. QED
  BY <1>5, <1>6, <1>7, <1>8, <1>9, <1>10, <1>11, <1>12 DEF PostsInv

\* The settings read under a claim name the row's endpoint, or end the attempt.
LEMMA ReadConfigStep ==
    ASSUME IInv, NEW c \in Consumers, ReadConfig(c)
    PROVE  PostsInv' /\ GenInv'
<1> DEFINE d == con[c].of
<1>0. /\ con \in [Consumers -> ConType]
      /\ row' = row /\ hist' = hist /\ rec' = rec /\ config' = config
  BY DEF IInv, Types, ReadConfig
<1>1. /\ d \in Deliveries /\ Pending(d) /\ con[c].attempt # 0 /\ Live(c)
      /\ row[d].live /\ row[d].holder = con[c].attempt
  BY DEF ReadConfig, Live, IInv, PostsInv, ConInv, Numbered, LiveInv
<1>2. /\ con'[c].of = d /\ con'[c].attempt = con[c].attempt
      /\ con'[c].body = row[d].body /\ con'[c].era = config.era
      /\ \/ con'[c].pc = "cancel"
         \/ /\ con'[c].pc \in {"post", "freeze"}
            /\ config.on /\ config.gen = row[d].gen
            /\ con'[c].pc = "post" => row[d].frozen
      /\ \A e \in Consumers : e # c => con'[e] = con[e]
  BY <1>0 DEF ReadConfig, Wants, ConType
<1> HIDE DEF d
<1>3. con'[c].pc \in {"post", "freeze"} => con'[c].era = row[d].era
  BY <1>1, <1>2 DEF IInv, GenInv, Pending
<1>4. \A e \in Consumers : con'[e].of = con[e].of /\ con'[e].attempt = con[e].attempt
  BY <1>2 DEF d
<1>5. \A e \in Consumers : Live(e)' => Live(e)
  BY <1>1, <1>2 DEF Live
<1>6. RecInv'
  BY <1>0, <1>4 DEF IInv, PostsInv, RecInv, NoRow
<1>7. ConInv'
  BY <1>0, <1>1, <1>2 DEF IInv, PostsInv, ConInv, Numbered, Free, d, Live
<1>8. Distinct'
  BY <1>4 DEF IInv, PostsInv, Distinct
<1>9. LiveInv'
  BY <1>0, <1>4, <1>5 DEF IInv, PostsInv, LiveInv, Pending
<1>10. PostInv'
  BY <1>0, <1>4, <1>5 DEF IInv, PostsInv, PostInv
<1>11. BodyInv'
  <2>1. ASSUME NEW e \in Consumers, con'[e].pc = "post"
        PROVE  row'[con'[e].of].frozen /\ con'[e].body = row'[con'[e].of].body
    BY <1>0, <1>2, <2>1 DEF IInv, PostsInv, BodyInv
  <2>. QED
    BY <1>0, <2>1 DEF IInv, PostsInv, BodyInv, Pending
<1>12. EraInv'
  <2>1. ASSUME NEW e \in Consumers, con'[e].pc \in {"freeze", "post"}
        PROVE  con'[e].era = row'[con'[e].of].era
    BY <1>0, <1>2, <1>3, <2>1 DEF IInv, PostsInv, EraInv
  <2>. QED
    BY <1>0, <2>1 DEF IInv, PostsInv, EraInv
<1>13. GenInv'
  BY <1>0 DEF IInv, GenInv
<1>. QED
  BY <1>6, <1>7, <1>8, <1>9, <1>10, <1>11, <1>12, <1>13 DEF PostsInv

\* The body is kept before anything was POSTed, and nobody else is about to.
LEMMA FreezeStep ==
    ASSUME IInv, NEW c \in Consumers, Freeze(c), Holds(c), ~row[con[c].of].frozen
    PROVE  PostsInv' /\ GenInv'
<1> DEFINE d == con[c].of
<1>0. /\ con \in [Consumers -> ConType] /\ row \in [Deliveries -> RowType]
      /\ hist' = hist /\ rec' = rec /\ config' = config
  BY DEF IInv, Types, Freeze
<1>1. /\ d \in Deliveries /\ Pending(d) /\ con[c].attempt # 0 /\ Live(c)
      /\ row[d].live /\ row[d].holder = con[c].attempt
  BY DEF Freeze, Live, IInv, PostsInv, ConInv, Numbered, LiveInv
<1>2. /\ con'[c].of = d /\ con'[c].attempt = con[c].attempt /\ con'[c].pc = "post"
      /\ con'[c].body = Ids(d) /\ con'[c].era = con[c].era
      /\ \A e \in Consumers : e # c => con'[e] = con[e]
  BY <1>0 DEF Freeze, ConType
<1>3. /\ row'[d].frozen /\ row'[d].body = Ids(d)
      /\ row'[d].status = row[d].status /\ row'[d].attempts = row[d].attempts
      /\ row'[d].live = row[d].live /\ row'[d].holder = row[d].holder
      /\ row'[d].era = row[d].era /\ row'[d].gen = row[d].gen
      /\ \A e \in Deliveries : e # d => row'[e] = row[e]
  <2>1. row' = Kept(d)
    BY DEF Freeze
  <2>2. row' = [row EXCEPT ![d] = [row[d] EXCEPT !.frozen = TRUE, !.body = Ids(d)]]
    BY <1>0, <1>1, <2>1 DEF Kept
  <2>3. row'[d] = [row[d] EXCEPT !.frozen = TRUE, !.body = Ids(d)] /\ row[d] \in RowType
    BY <1>0, <1>1, <2>2
  <2>. QED
    BY <1>0, <2>2, <2>3 DEF RowType
<1>a. c \in Consumers /\ con[c].pc = "freeze" /\ ~row[d].frozen
  BY DEF Freeze
<1> HIDE DEF d
<1>4. \A e \in Consumers : con'[e].of = con[e].of /\ con'[e].attempt = con[e].attempt
  BY <1>2 DEF d
<1>5. \A e \in Consumers : /\ Live(e)' => Live(e) /\ con[e].of \in Deliveries
                           /\ con'[e].era = con[e].era
                           /\ con'[e].pc \in {"freeze", "post"} => con[e].pc \in {"freeze", "post"}
  BY <1>a, <1>1, <1>2 DEF Live, IInv, PostsInv, ConInv, Numbered
<1>6. RecInv'
  <2>1. rec[d].pc \notin {"new", "read"}
    BY <1>1 DEF IInv, PostsInv, RecInv, Pending, NoRow
  <2>2. \A e \in Deliveries : rec'[e].pc \in {"new", "read"} =>
           e # d /\ row'[e] = row[e] /\ hist'[e] = hist[e]
    BY <1>0, <1>3, <2>1
  <2>. QED
    BY <1>0, <1>4, <2>2 DEF IInv, PostsInv, RecInv, NoRow
<1>7. ConInv'
  <2> SUFFICES ASSUME NEW e \in Consumers PROVE Numbered(e)'
    BY DEF ConInv
  <2>1. CASE e = c
    BY <1>1, <1>2, <1>3, <2>1 DEF Numbered, IInv, PostsInv, ConInv, d, Live
  <2>2. CASE e # c
    BY <1>2, <1>3, <2>2 DEF Numbered, IInv, PostsInv, ConInv, Free
  <2>. QED
    BY <2>1, <2>2
<1>8. Distinct'
  BY <1>4 DEF IInv, PostsInv, Distinct
<1>9. LiveInv'
  BY <1>3, <1>4, <1>5 DEF IInv, PostsInv, LiveInv, Pending
<1>10. PostInv'
  BY <1>0, <1>3, <1>4, <1>5 DEF IInv, PostsInv, PostInv
<1>11. BodyInv'
  <2>1. hist[d].bodies = {} /\ Ids(d) \in Bodies
    BY <1>a, <1>1 DEF IInv, PostsInv, BodyInv, Ids, Bodies
  <2>2. ASSUME NEW e \in Deliveries
        PROVE  /\ \E b \in Bodies : hist'[e].bodies \subseteq {b}
               /\ row'[e].status = "pending" => hist'[e].bodies \subseteq {row'[e].body}
               /\ row'[e].status = "pending" /\ ~row'[e].frozen => hist'[e].bodies = {}
    BY <1>0, <1>3, <2>1 DEF IInv, PostsInv, BodyInv, Pending
  <2>3. ASSUME NEW e \in Consumers, con'[e].pc = "post"
        PROVE  row'[con'[e].of].frozen /\ con'[e].body = row'[con'[e].of].body
    <3>1. CASE e = c
      BY <1>2, <1>3, <3>1
    <3>2. CASE e # c
      <4>1. con'[e] = con[e] /\ row[con[e].of].frozen /\ con[e].body = row[con[e].of].body
        BY <1>2, <2>3, <3>2 DEF IInv, PostsInv, BodyInv
      <4>2. con[e].of # d /\ con[e].of \in Deliveries
        BY <1>a, <1>5, <2>3, <4>1 DEF Live
      <4>. QED
        BY <1>3, <4>1, <4>2
    <3>. QED
      BY <3>1, <3>2
  <2>. QED
    BY <2>2, <2>3 DEF BodyInv, Pending
<1>12. EraInv'
  <2>1. ASSUME NEW e \in Consumers, con'[e].pc \in {"freeze", "post"}
        PROVE  con'[e].era = row'[con'[e].of].era
    <3>1. con[e].era = row[con[e].of].era /\ con[e].of \in Deliveries
      BY <1>5, <2>1 DEF IInv, PostsInv, EraInv, Live
    <3>. QED
      BY <1>3, <1>4, <1>5, <3>1
  <2>2. ASSUME NEW e \in Deliveries, row'[e].status # "pruned"
        PROVE  hist'[e].eras \subseteq {row'[e].era}
    BY <1>0, <1>3, <2>2 DEF IInv, PostsInv, EraInv
  <2>. QED
    BY <2>1, <2>2 DEF EraInv
<1>13. GenInv'
  BY <1>0, <1>3 DEF IInv, GenInv
<1>. QED
  BY <1>6, <1>7, <1>8, <1>9, <1>10, <1>11, <1>12, <1>13 DEF PostsInv

LEMMA PostStep ==
    ASSUME IInv, NEW c \in Consumers, Post(c)
    PROVE  PostsInv' /\ GenInv'
<1> DEFINE d == con[c].of
<1>0. /\ con \in [Consumers -> ConType] /\ hist \in [Deliveries -> HistType]
      /\ row \in [Deliveries -> RowType] /\ MaxAttempts \in Nat
      /\ row' = row /\ rec' = rec /\ config' = config
  BY WebhookAssumption DEF IInv, Types, Post
<1>1. /\ d \in Deliveries /\ Pending(d) /\ con[c].attempt # 0 /\ Live(c)
      /\ row[d].live /\ row[d].holder = con[c].attempt
      /\ row[d].frozen /\ con[c].body = row[d].body /\ con[c].era = row[d].era
  BY DEF Post, Live, IInv, PostsInv, ConInv, Numbered, LiveInv, BodyInv, EraInv
<1>2. /\ con'[c].of = d /\ con'[c].attempt = con[c].attempt
      /\ con'[c].pc \in {"ok", "retryable", "refused"}
      /\ \A e \in Consumers : e # c => con'[e] = con[e]
  BY <1>0 DEF Post, Goes, ConType
<1>3. /\ hist'[d].posts = hist[d].posts + 1
      /\ hist'[d].bodies = hist[d].bodies \cup {con[c].body}
      /\ hist'[d].eras = hist[d].eras \cup {con[c].era}
      /\ \A e \in Deliveries : e # d => hist'[e] = hist[e]
  BY <1>0, <1>1 DEF Post, HistType
<1> HIDE DEF d
<1>4. \A e \in Consumers : con'[e].of = con[e].of /\ con'[e].attempt = con[e].attempt
  BY <1>2 DEF d
<1>5. \A e \in Consumers : Live(e)' => e # c /\ con'[e] = con[e] /\ Live(e) /\ con[e].of # d
  <2> SUFFICES ASSUME NEW e \in Consumers, Live(e)'
               PROVE  e # c /\ con'[e] = con[e] /\ Live(e) /\ con[e].of # d
    OBVIOUS
  <2>1. e # c
    BY <1>2 DEF Live
  <2>2. con'[e] = con[e] /\ Live(e)
    BY <1>2, <2>1 DEF Live
  <2>3. con[e].of # d
    BY <1>1, <2>1, <2>2, OnlyHolder DEF IInv, Holds, d
  <2>. QED
    BY <2>1, <2>2, <2>3
<1>6. RecInv'
  <2>1. rec[d].pc \notin {"new", "read"}
    BY <1>1 DEF IInv, PostsInv, RecInv, Pending, NoRow
  <2>2. \A e \in Deliveries : rec'[e].pc \in {"new", "read"} =>
           e # d /\ row'[e] = row[e] /\ hist'[e] = hist[e]
    BY <1>0, <1>3, <2>1
  <2>. QED
    BY <1>0, <1>4, <2>2 DEF IInv, PostsInv, RecInv, NoRow
<1>7. ConInv'
  BY <1>0, <1>1, <1>2 DEF IInv, PostsInv, ConInv, Numbered, Free, d, Live
<1>8. Distinct'
  BY <1>4 DEF IInv, PostsInv, Distinct
<1>9. LiveInv'
  BY <1>0, <1>4, <1>5 DEF IInv, PostsInv, LiveInv, Pending
<1>10. PostInv'
  <2>1. hist[d].posts < row[d].attempts /\ row[d].attempts \in 0..MaxAttempts /\ hist[d].posts \in Nat
    BY <1>0, <1>1 DEF IInv, PostsInv, PostInv, RowType, HistType, d
  <2>2. hist[d].posts + 1 <= row[d].attempts /\ hist[d].posts + 1 <= MaxAttempts
    BY <1>0, <2>1
  <2> SUFFICES ASSUME NEW e \in Deliveries
               PROVE  /\ hist'[e].posts <= MaxAttempts
                      /\ row'[e].status # "pruned" => hist'[e].posts <= row'[e].attempts
                      /\ \A k \in Consumers : Live(k)' /\ con'[k].of = e =>
                            hist'[e].posts < row'[e].attempts
    BY DEF PostInv, Live
  <2>3. CASE e = d
    BY <1>0, <1>3, <1>4, <1>5, <2>2, <2>3
  <2>4. CASE e # d
    BY <1>0, <1>3, <1>4, <1>5, <2>4 DEF IInv, PostsInv, PostInv
  <2>. QED
    BY <2>3, <2>4
<1>11. BodyInv'
  <2>1. hist[d].bodies \subseteq {row[d].body} /\ row[d].body \in Bodies
    BY <1>0, <1>1 DEF IInv, PostsInv, BodyInv, RowType
  <2>2. ASSUME NEW e \in Deliveries
        PROVE  /\ \E b \in Bodies : hist'[e].bodies \subseteq {b}
               /\ row'[e].status = "pending" => hist'[e].bodies \subseteq {row'[e].body}
               /\ row'[e].status = "pending" /\ ~row'[e].frozen => hist'[e].bodies = {}
    <3>1. CASE e = d
      BY <1>0, <1>1, <1>3, <2>1, <3>1
    <3>2. CASE e # d
      BY <1>0, <1>3, <3>2 DEF IInv, PostsInv, BodyInv, Pending
    <3>. QED
      BY <3>1, <3>2
  <2>3. ASSUME NEW e \in Consumers, con'[e].pc = "post"
        PROVE  row'[con'[e].of].frozen /\ con'[e].body = row'[con'[e].of].body
    BY <1>0, <1>5, <2>3 DEF IInv, PostsInv, BodyInv, Live
  <2>. QED
    BY <2>2, <2>3 DEF BodyInv, Pending
<1>12. EraInv'
  <2>1. ASSUME NEW e \in Consumers, con'[e].pc \in {"freeze", "post"}
        PROVE  con'[e].era = row'[con'[e].of].era
    BY <1>0, <1>5, <2>1 DEF IInv, PostsInv, EraInv, Live
  <2>2. ASSUME NEW e \in Deliveries, row'[e].status # "pruned"
        PROVE  hist'[e].eras \subseteq {row'[e].era}
    BY <1>0, <1>1, <1>3, <2>2 DEF IInv, PostsInv, EraInv
  <2>. QED
    BY <2>1, <2>2 DEF EraInv
<1>13. GenInv'
  BY <1>0 DEF IInv, GenInv
<1>. QED
  BY <1>6, <1>7, <1>8, <1>9, <1>10, <1>11, <1>12, <1>13 DEF PostsInv

-----------------------------------------------------------------------------
LEMMA IInit == Init => IInv
<1> SUFFICES ASSUME Init PROVE IInv
  OBVIOUS
<1>1. Types
  BY TypesInit
<1>2. /\ \A c \in Consumers : con[c] = Free /\ ~Live(c)
      /\ \A d \in Deliveries : /\ row[d] = NoRow /\ rec[d] = Unread
                               /\ hist[d] = [posts |-> 0, bodies |-> {}, eras |-> {}]
  BY DEF Init, Live, Free
<1>3. /\ Free.pc = "free" /\ Free.of = "none" /\ Free.attempt = 0
      /\ NoRow.status = "none" /\ NoRow.attempts = 0 /\ NoRow.gen = 0 /\ Unread.gen = 0
      /\ "none" \notin Deliveries
  BY WebhookAssumption DEF Free, NoRow, Unread
<1>4. RecInv /\ ConInv /\ Distinct /\ LiveInv
  BY <1>2, <1>3 DEF RecInv, ConInv, Numbered, Distinct, LiveInv
<1>5. PostInv
  BY <1>2, <1>3, WebhookAssumption DEF PostInv
<1>6. BodyInv /\ EraInv
  BY <1>2, <1>3 DEF BodyInv, EraInv, Pending, Bodies
<1>7. GenInv
  BY <1>2, <1>3, WebhookAssumption DEF Init, GenInv
<1>. QED
  BY <1>1, <1>4, <1>5, <1>6, <1>7 DEF IInv, PostsInv

\* A save begins a new era, under a generation that no logged row bears.
LEMMA SettingsStep ==
    ASSUME IInv, Settings
    PROVE  PostsInv' /\ GenInv'
<1>0. /\ config \in ConfigType /\ row \in [Deliveries -> RowType] /\ rec \in [Deliveries -> RecType]
      /\ Threshold \in Nat \ {0} /\ config.era \in Nat
  BY WebhookAssumption DEF IInv, Types, ConfigType
<1>1. /\ row' = row /\ rec' = rec /\ con' = con /\ hist' = hist
  BY DEF Settings, Save, TurnOff
<1>2. PostsInv'
  BY <1>1, PostsFrame DEF IInv, RowsMove, ConsMove, RecsMove
<1>3. CASE Save
  <2>1. /\ config'.gen = NextGeneration /\ config'.era = config.era + 1 /\ config'.streak = 0
        /\ ~config'.paused
    BY <1>3 DEF Save
  <2>2. /\ NextGeneration <= config.era + 1
        /\ \A g \in Logged : g # NextGeneration
    <3>1. \A g \in Logged : g \in Nat
      BY <1>0 DEF Logged, RowType
    <3>. QED
      BY <3>1, NextGenerationAbove DEF IInv
  <2>3. ASSUME NEW d \in Deliveries
        PROVE  /\ rec[d].gen <= config.era + 1 /\ row[d].gen <= config.era + 1
               /\ row[d].status \notin {"none", "pruned"} => row[d].gen # NextGeneration
    <3>1. /\ rec[d].gen \in Nat /\ row[d].gen \in Nat
          /\ rec[d].gen <= config.era /\ row[d].gen <= config.era
      BY <1>0 DEF IInv, GenInv, RecType, RowType
    <3>2. row[d].status \notin {"none", "pruned"} => row[d].gen \in Logged
      BY DEF Logged
    <3>. QED
      BY <1>0, <2>2, <3>1, <3>2
  <2>4. ~(config'.streak >= Threshold) /\ config'.gen <= config'.era
    BY <1>0, <2>1, <2>2
  <2>. QED
    BY <1>1, <1>2, <2>1, <2>3, <2>4 DEF GenInv
<1>4. CASE TurnOff
  <2>1. /\ config'.gen = 0 /\ config'.era = config.era /\ config'.streak = 0 /\ ~config'.on
        /\ ~config'.paused
    BY <1>0, <1>4 DEF TurnOff, ConfigType
  <2>2. ~(config'.streak >= Threshold) /\ config'.gen <= config'.era
    BY <1>0, <2>1
  <2>3. \A d \in Deliveries : rec[d].gen <= config.era /\ row[d].gen <= config.era
    BY DEF IInv, GenInv
  <2>. QED
    BY <1>1, <1>2, <2>1, <2>2, <2>3 DEF GenInv
<1>. QED
  BY <1>3, <1>4 DEF Settings

LEMMA IStep == IInv /\ [Next]_vars => IInv'
<1> SUFFICES ASSUME IInv, [Next]_vars
             PROVE  IInv'
  OBVIOUS
<1>0. Types' /\ Types /\ PostsInv
  BY TypesStep DEF IInv, PostsInv
<1>a. /\ \A c \in Consumers : con[c].pc # "free" => con[c].of \in Deliveries
      /\ \A c \in Consumers : con[c].pc \in {"free", "claim", "spent"} <=> con[c].attempt = 0
      /\ con \in [Consumers -> ConType] /\ rec \in [Deliveries -> RecType]
      /\ row \in [Deliveries -> RowType]
  BY DEF IInv, PostsInv, ConInv, Numbered, Types
<1>b. ASSUME NEW c \in Consumers, Acks(c)
      PROVE  con'[c] = Free /\ ConsMove
  BY <1>a, <1>b DEF Acks, ConsMove
<1>1. CASE Settings
  BY <1>0, <1>1, SettingsStep DEF IInv
<1>2. ASSUME NEW d \in Deliveries, Record(d) PROVE IInv'
  <2>1. CASE Insert(d)
    BY <1>0, <2>1, InsertStep DEF IInv
  <2>2. CASE ReadSettings(d) \/ Dispatch(d) \/ InsertFails(d)
    <3>1. RecsMove
      <4>1. \A e \in Deliveries : e # d => rec'[e] = rec[e]
        BY <1>a, <2>2 DEF ReadSettings, Dispatch, InsertFails
      <4>2. /\ rec'[d].pc \in {"new", "read"} => rec[d].pc \in {"new", "read"}
            /\ rec'[d].gen \in {rec[d].gen, config.gen, 0}
        <5>1. CASE ReadSettings(d)
          <6>1. rec[d].pc = "new" /\ rec'[d].gen \in {config.gen, 0}
            BY <1>a, <5>1 DEF ReadSettings, Unread
          <6>. QED
            BY <6>1
        <5>2. CASE Dispatch(d)
          <6>1. rec'[d].pc = "done" /\ rec'[d].gen = rec[d].gen
            BY <1>a, <5>2 DEF Dispatch, RecType
          <6>. QED
            BY <6>1
        <5>3. CASE InsertFails(d)
          <6>1. rec'[d].pc = "done" /\ rec'[d].gen = 0
            BY <1>a, <5>3 DEF InsertFails, Unread
          <6>. QED
            BY <6>1
        <5>. QED
          BY <2>2, <5>1, <5>2, <5>3
      <4>. QED
        BY <4>1, <4>2 DEF RecsMove
    <3>2. hist' = hist /\ RowsMove /\ ConsMove /\ ConfigMove
      BY <2>2 DEF ReadSettings, Dispatch, InsertFails, RowsMove, ConsMove, ConfigMove
    <3>. QED
      BY <1>0, <3>1, <3>2, QuietStep DEF IInv
  <2>. QED
    BY <1>2, <2>1, <2>2 DEF Record
<1>3. ASSUME NEW d \in Deliveries, RecordSent(d) \/ Duplicate(d) PROVE IInv'
  <2>1. hist' = hist /\ RowsMove /\ ConsMove /\ RecsMove /\ ConfigMove
    BY <1>3 DEF RecordSent, Duplicate, RowsMove, ConsMove, RecsMove, ConfigMove
  <2>. QED
    BY <1>0, <2>1, QuietStep DEF IInv
<1>4. ASSUME NEW d \in Deliveries, Prune(d) PROVE IInv'
  <2>1. /\ row'[d].status = "pruned" /\ row'[d].gen = 0
        /\ \A e \in Deliveries : e # d => row'[e] = row[e]
    BY <1>a, <1>4 DEF Prune, NoRow
  <2>2. RowMoves(d)
    <3>1. row[d].status \in Ends
      BY <1>4 DEF Prune
    <3>2. row[d] # NoRow
      BY <3>1 DEF NoRow, Ends
    <3>. QED
      BY <2>1, <3>1, <3>2 DEF RowMoves
  <2>3. \A c \in Consumers : Live(c) => con[c].of # d
    BY <1>0, <1>4 DEF PostsInv, LiveInv, Prune, Pending, Ends
  <2>4. RowsMove
    BY <2>1, <2>2, <2>3 DEF RowsMove
  <2>5. hist' = hist /\ ConsMove /\ RecsMove /\ ConfigMove
    BY <1>4 DEF Prune, ConsMove, RecsMove, ConfigMove
  <2>. QED
    BY <1>0, <2>4, <2>5, QuietStep DEF IInv
<1>5. ASSUME NEW d \in Deliveries, Time(d) PROVE IInv'
  <2>1. /\ \A e \in Deliveries : e # d => row'[e] = row[e]
        /\ row'[d].status = row[d].status /\ row'[d].attempts = row[d].attempts
        /\ row'[d].era = row[d].era /\ row'[d].gen = row[d].gen
        /\ row'[d].frozen = row[d].frozen /\ row'[d].body = row[d].body
        /\ row'[d].holder = row[d].holder
    <3>1. \/ row' = [row EXCEPT ![d].live = FALSE]
          \/ row' = [row EXCEPT ![d].young = FALSE]
          \/ row' = [row EXCEPT ![d].late = TRUE]
      BY <1>5 DEF Time, ClaimEnds, Ripen, FallDue
    <3>. QED
      BY <1>a, <3>1 DEF RowType
  <2>2. row[d] # NoRow
    BY <1>5 DEF Time, ClaimEnds, Ripen, FallDue, Pending, NoRow
  <2>3. row'[d].live = row[d].live \/ \A c \in Consumers : Live(c) => con[c].of # d
    <3>1. CASE ClaimEnds(d)
      <4>1. \A c \in Consumers : con[c].of = d /\ con[c].attempt = row[d].holder => ~Live(c)
        BY <3>1 DEF ClaimEnds, Live
      <4>. QED
        BY <1>0, <4>1 DEF PostsInv, LiveInv
    <3>2. CASE Ripen(d) \/ FallDue(d)
      BY <1>a, <3>2 DEF Ripen, FallDue, RowType
    <3>. QED
      BY <1>5, <3>1, <3>2 DEF Time
  <2>4. RowsMove
    BY <2>1, <2>2, <2>3 DEF RowsMove, RowMoves, ClaimKept
  <2>5. hist' = hist /\ ConsMove /\ RecsMove /\ ConfigMove
    BY <1>5 DEF Time, ClaimEnds, Ripen, FallDue, ConsMove, RecsMove, ConfigMove
  <2>. QED
    BY <1>0, <2>4, <2>5, QuietStep DEF IInv
<1>6. ASSUME NEW c \in Consumers, Claim(c) PROVE IInv'
  <2>1. CASE Claimable(con[c].of)
    BY <1>0, <1>6, <2>1, ClaimStep DEF IInv
  <2>2. CASE ~Claimable(con[c].of)
    <3>1. ConsMove
      BY <1>a, <1>6, <2>2 DEF Claim, Goes, ConsMove
    <3>2. hist' = hist /\ RowsMove /\ RecsMove /\ ConfigMove
      BY <1>6, <2>2 DEF Claim, RowsMove, RecsMove, ConfigMove
    <3>. QED
      BY <1>0, <3>1, <3>2, QuietStep DEF IInv
  <2>. QED
    BY <2>1, <2>2
<1>7. ASSUME NEW c \in Consumers, FinishSpent(c) PROVE IInv'
  <2>1. con[c].of \in Deliveries /\ ConsMove
    BY <1>a, <1>b, <1>7 DEF FinishSpent
  <2>2. RowsMove /\ ConfigMove
    BY <1>0, <1>7, <2>1, FailMoves DEF FinishSpent
  <2>3. hist' = hist /\ RecsMove
    BY <1>7 DEF FinishSpent, RecsMove
  <2>. QED
    BY <1>0, <2>1, <2>2, <2>3, QuietStep DEF IInv
<1>8. ASSUME NEW c \in Consumers, ReadConfig(c) PROVE IInv'
  BY <1>0, <1>8, ReadConfigStep DEF IInv
<1>9. ASSUME NEW c \in Consumers, CancelDelivery(c) \/ Delivered(c) PROVE IInv'
  <2>1. con[c].of \in Deliveries /\ con[c].attempt # 0 /\ ConsMove /\ con'[c] = Free
    BY <1>a, <1>b, <1>9 DEF CancelDelivery, Delivered
  <2>2. RowsMove
    <3>1. CASE Holds(c)
      <4>1. \E end \in Ends : Ended(con[c].of, end)
        BY <1>9, <3>1 DEF CancelDelivery, Delivered, Ends
      <4>. QED
        BY <1>0, <2>1, <3>1, <4>1, EndedMoves DEF Holds
    <3>2. CASE ~Holds(c)
      BY <1>9, <3>2 DEF CancelDelivery, Delivered, RowsMove
    <3>. QED
      BY <3>1, <3>2
  <2>3. ConfigMove
    BY <1>9 DEF CancelDelivery, Delivered, Succeeding, Counts, ConfigMove
  <2>4. hist' = hist /\ RecsMove
    BY <1>9 DEF CancelDelivery, Delivered, RecsMove
  <2>. QED
    BY <1>0, <2>1, <2>2, <2>3, <2>4, QuietStep DEF IInv
<1>10. ASSUME NEW c \in Consumers, Freeze(c) PROVE IInv'
  <2>1. CASE Holds(c) /\ ~row[con[c].of].frozen
    BY <1>0, <1>10, <2>1, FreezeStep DEF IInv
  <2>2. CASE ~(Holds(c) /\ ~row[con[c].of].frozen)
    <3>1. ConsMove
      BY <1>b, <1>10, <2>2 DEF Freeze
    <3>2. hist' = hist /\ RowsMove /\ RecsMove /\ ConfigMove
      BY <1>10, <2>2 DEF Freeze, RowsMove, RecsMove, ConfigMove
    <3>. QED
      BY <1>0, <3>1, <3>2, QuietStep DEF IInv
  <2>. QED
    BY <2>1, <2>2
<1>11. ASSUME NEW c \in Consumers, Post(c) PROVE IInv'
  BY <1>0, <1>11, PostStep DEF IInv
<1>12. ASSUME NEW c \in Consumers, Retry(c) PROVE IInv'
  <2>1. con[c].of \in Deliveries /\ con[c].attempt # 0 /\ ConsMove /\ con'[c] = Free
    BY <1>a, <1>b, <1>12 DEF Retry
  <2>2. RowsMove
    <3>1. CASE Holds(c)
      BY <1>0, <1>12, <2>1, <3>1, FreedMoves DEF Retry
    <3>2. CASE ~Holds(c)
      BY <1>12, <3>2 DEF Retry, RowsMove
    <3>. QED
      BY <3>1, <3>2
  <2>3. hist' = hist /\ RecsMove /\ ConfigMove
    BY <1>12 DEF Retry, RecsMove, ConfigMove
  <2>. QED
    BY <1>0, <2>1, <2>2, <2>3, QuietStep DEF IInv
<1>13. ASSUME NEW c \in Consumers, GiveUp(c) PROVE IInv'
  <2>1. con[c].of \in Deliveries /\ con[c].attempt # 0 /\ ConsMove /\ con'[c] = Free
    BY <1>a, <1>b, <1>13 DEF GiveUp
  <2>2. RowsMove /\ ConfigMove
    <3>1. Fail(con[c].of, Holds(c)) /\ (Holds(c) => Pending(con[c].of))
      BY <1>13 DEF GiveUp, Holds
    <3>. QED
      BY <1>0, <2>1, <3>1, FailMoves
  <2>3. hist' = hist /\ RecsMove
    BY <1>13 DEF GiveUp, RecsMove
  <2>. QED
    BY <1>0, <2>1, <2>2, <2>3, QuietStep DEF IInv
<1>14. ASSUME NEW c \in Consumers, Throw(c) PROVE IInv'
  <2>1. con[c].of \in Deliveries /\ ConsMove /\ con'[c] = Free
    BY <1>a, <1>b, <1>14 DEF Throw
  <2>2. RowsMove /\ ConfigMove
    <3>1. CASE UNCHANGED <<row, config>>
      BY <3>1 DEF RowsMove, ConfigMove
    <3>2. CASE con[c].attempt # 0 /\ Holds(c) /\ Freed(con[c].of) /\ UNCHANGED config
      BY <1>0, <2>1, <3>2, FreedMoves DEF ConfigMove
    <3>3. CASE con[c].attempt # 0 /\ Fail(con[c].of, Holds(c))
      <4>1. Holds(c) => Pending(con[c].of)
        BY DEF Holds
      <4>. QED
        BY <1>0, <2>1, <3>3, <4>1, FailMoves
    <3>4. MaxAttempts # 0
      BY WebhookAssumption
    <3>. QED
      BY <1>14, <3>1, <3>2, <3>3, <3>4 DEF Throw
  <2>3. hist' = hist /\ RecsMove
    BY <1>14 DEF Throw, RecsMove
  <2>. QED
    BY <1>0, <2>1, <2>2, <2>3, QuietStep DEF IInv
<1>15. ASSUME NEW c \in Consumers, Die(c) PROVE IInv'
  <2>1. ConsMove
    BY <1>b, <1>15 DEF Die
  <2>2. hist' = hist /\ RowsMove /\ RecsMove /\ ConfigMove
    BY <1>15 DEF Die, RowsMove, RecsMove, ConfigMove
  <2>. QED
    BY <1>0, <2>1, <2>2, QuietStep DEF IInv
<1>16. ASSUME NEW c \in Consumers, NEW d \in Deliveries, Take(c, d) PROVE IInv'
  <2>1. ConsMove
    BY <1>a, <1>16 DEF Take, ConsMove
  <2>2. hist' = hist /\ RowsMove /\ RecsMove /\ ConfigMove
    BY <1>16 DEF Take, RowsMove, RecsMove, ConfigMove
  <2>. QED
    BY <1>0, <2>1, <2>2, QuietStep DEF IInv
<1>17. CASE StartSweep
  <2>1. hist' = hist /\ RowsMove /\ ConsMove /\ RecsMove /\ ConfigMove
    BY <1>17 DEF StartSweep, RowsMove, ConsMove, RecsMove, ConfigMove
  <2>. QED
    BY <1>0, <2>1, QuietStep DEF IInv
<1>18. ASSUME NEW d \in Deliveries, SweepRow(d) PROVE IInv'
  <2>1. hist' = hist /\ ConsMove /\ RecsMove
    BY <1>18 DEF SweepRow, ConsMove, RecsMove
  <2>2. RowsMove /\ ConfigMove
    <3>1. CASE Spent(d)
      BY <1>0, <1>18, <3>1, FailMoves DEF SweepRow
    <3>2. CASE ~Spent(d)
      <4>1. ConfigMove
        BY <1>18, <3>2 DEF SweepRow, ConfigMove
      <4>2. CASE ~Pending(d)
        BY <1>18, <3>2, <4>1, <4>2 DEF SweepRow, RowsMove
      <4>3. CASE Pending(d)
        <5>1. row' = [row EXCEPT ![d].late = FALSE]
          BY <1>18, <3>2, <4>3 DEF SweepRow
        <5>2. /\ \A e \in Deliveries : e # d => row'[e] = row[e]
              /\ row'[d].status = row[d].status /\ row'[d].attempts = row[d].attempts
              /\ row'[d].era = row[d].era /\ row'[d].gen = row[d].gen
              /\ row'[d].frozen = row[d].frozen /\ row'[d].body = row[d].body
              /\ row'[d].holder = row[d].holder /\ row'[d].live = row[d].live
          BY <1>a, <5>1 DEF RowType
        <5>3. row[d] # NoRow
          BY <4>3 DEF Pending, NoRow
        <5>. QED
          BY <4>1, <5>2, <5>3 DEF RowsMove, RowMoves, ClaimKept
      <4>. QED
        BY <4>2, <4>3
    <3>. QED
      BY <3>1, <3>2
  <2>. QED
    BY <1>0, <2>1, <2>2, QuietStep DEF IInv
<1>19. CASE OtherEnds
  <2>1. hist' = hist /\ RowsMove /\ ConsMove /\ RecsMove /\ ConfigMove
    BY <1>19 DEF OtherEnds, RowsMove, ConsMove, RecsMove, ConfigMove
  <2>. QED
    BY <1>0, <2>1, QuietStep DEF IInv
<1>20. CASE UNCHANGED vars
  <2>1. hist' = hist /\ RowsMove /\ ConsMove /\ RecsMove /\ ConfigMove
    BY <1>20 DEF vars, RowsMove, ConsMove, RecsMove, ConfigMove
  <2>. QED
    BY <1>0, <2>1, QuietStep DEF IInv
<1>. QED
  BY <1>1, <1>2, <1>3, <1>4, <1>5, <1>6, <1>7, <1>8, <1>9, <1>10, <1>11, <1>12, <1>13,
     <1>14, <1>15, <1>16, <1>17, <1>18, <1>19, <1>20 DEF Next, Attempt, Sweep

-----------------------------------------------------------------------------
LEMMA Settled == IInv => PostsSettled
<1> SUFFICES ASSUME IInv PROVE PostsSettled
  OBVIOUS
<1>1. TypeOK
  BY TypesOK DEF IInv
<1>2. OnePost
  BY DEF IInv, PostsInv, ConInv, Numbered, Distinct, LiveInv, Live, OnePost, Posting
<1>3. PostsBounded
  BY DEF IInv, PostsInv, PostInv, PostsBounded
<1>4. SameBody
  <2> SUFFICES ASSUME NEW d \in Deliveries PROVE Cardinality(hist[d].bodies) <= 1
    BY DEF SameBody
  <2>1. PICK b \in Bodies : hist[d].bodies \subseteq {b}
    BY DEF IInv, PostsInv, BodyInv
  <2>2. IsFiniteSet({b}) /\ Cardinality({b}) = 1
    BY FS_Singleton
  <2>. QED
    BY <2>1, <2>2, FS_Subset
<1>5. RightEndpoint
  BY DEF IInv, PostsInv, EraInv, RightEndpoint
<1>. QED
  BY <1>1, <1>2, <1>3, <1>4, <1>5 DEF PostsSettled, PostsClaimed

\* However its message was doubled, lost or swept, its consumers died and the
\* endpoint was changed, a delivery is POSTed by one consumer at a time, at most
\* MaxAttempts times, always with one body, and only to the endpoint it was
\* recorded for.
THEOREM SettledOnce == Spec => []PostsSettled
BY IInit, IStep, Settled, PTL DEF Spec

-----------------------------------------------------------------------------
(* The run of failures.                                                    *)

StreakMove ==
    config'.streak =
        IF config.paused THEN config.streak
        ELSE IF \E d \in Deliveries : Turned(d, "failed") THEN config.streak + 1
        ELSE IF \E d \in Deliveries : Turned(d, "delivered") THEN 0
        ELSE config.streak

\* A step that ends no delivery, or cancels one, leaves it alone.
LEMMA StreakStill ==
    ASSUME config' = config,
           \A d \in Deliveries : Pending(d) => row'[d].status \notin {"failed", "delivered"}
    PROVE  StreakMove
BY DEF StreakMove, Turned

\* A step that ends one delivery counts it when the settings are still its own.
LEMMA StreakEnd ==
    ASSUME Types, config.on, NEW d \in Deliveries, Pending(d), NEW end \in {"failed", "delivered"},
           Ended(d, end), config' = IF end = "failed" THEN Failing(d) ELSE Succeeding(d)
    PROVE  StreakMove
<1>1. /\ row'[d].status = end
      /\ \A e \in Deliveries : e # d /\ Pending(e) => row'[e].status = "pending"
  BY DEF Types, RowType, Ended, Pending
<1>2. /\ \A e \in Deliveries : Turned(e, "failed") => e = d /\ end = "failed" /\ row[d].gen = config.gen
      /\ \A e \in Deliveries : Turned(e, "delivered") =>
            e = d /\ end = "delivered" /\ row[d].gen = config.gen
      /\ row[d].gen = config.gen => Turned(d, end)
  BY <1>1 DEF Turned
<1>3. Counts(d) <=> row[d].gen = config.gen /\ ~config.paused
  BY DEF Counts
<1>4. Counted.streak = config.streak + 1 /\ Restarted.streak = 0
  BY DEF Types, ConfigType, Counted, Restarted
<1>5. CASE end = "failed"
  <2>1. config'.streak = IF Counts(d) THEN config.streak + 1 ELSE config.streak
    BY <1>4, <1>5 DEF Failing
  <2>. QED
    BY <1>2, <1>3, <1>5, <2>1 DEF StreakMove
<1>6. CASE end = "delivered"
  <2>1. config'.streak = IF Counts(d) THEN 0 ELSE config.streak
    BY <1>4, <1>6 DEF Succeeding
  <2>. QED
    BY <1>2, <1>3, <1>6, <2>1 DEF StreakMove
<1>. QED
  BY <1>5, <1>6

LEMMA StreakFail ==
    ASSUME Types, config.on, NEW d \in Deliveries, NEW g, g => Pending(d), Fail(d, g)
    PROVE  StreakMove
<1>1. CASE g
  BY <1>1, StreakEnd DEF Fail
<1>2. CASE ~g
  <2>1. config' = config /\ row' = row
    BY <1>2 DEF Fail
  <2>. QED
    BY <2>1, StreakStill DEF Pending
<1>. QED
  BY <1>1, <1>2

LEMMA StreakStep ==
    ASSUME IInv, [Next]_vars, config.on, config'.on, config'.era = config.era, ~OtherEnds
    PROVE  StreakMove
<1>a. /\ \A c \in Consumers : con[c].pc # "free" => con[c].of \in Deliveries
      /\ Types /\ row \in [Deliveries -> RowType] /\ config \in ConfigType
  BY DEF IInv, PostsInv, ConInv, Numbered, Types
<1>b. ASSUME config' = config, row' = row PROVE StreakMove
  BY <1>b, StreakStill DEF Pending
<1>c. ASSUME config' = config, NEW d \in Deliveries,
             \A e \in Deliveries : e # d => row'[e] = row[e],
             Pending(d) => row'[d].status \notin {"failed", "delivered"}
      PROVE  StreakMove
  BY <1>c, StreakStill DEF Pending
<1>1. CASE Settings
  <2>1. config.era + 1 # config.era
    BY <1>a DEF ConfigType
  <2>2. CASE Save
    <3>1. config'.era = config.era + 1
      BY <2>2 DEF Save
    <3>. QED
      BY <2>1, <3>1
  <2>3. CASE TurnOff
    <3>1. ~config'.on
      BY <1>a, <2>3 DEF TurnOff, ConfigType
    <3>. QED
      BY <3>1
  <2>. QED
    BY <1>1, <2>2, <2>3 DEF Settings
<1>2. ASSUME NEW d \in Deliveries, Record(d) PROVE StreakMove
  <2>1. CASE Insert(d)
    <3>1. ~Pending(d)
      BY <2>1 DEF Insert, IInv, PostsInv, RecInv, Pending, NoRow
    <3>2. config' = config /\ \A e \in Deliveries : e # d => row'[e] = row[e]
      BY <1>a, <2>1 DEF Insert
    <3>. QED
      BY <1>c, <3>1, <3>2
  <2>2. CASE ReadSettings(d) \/ Dispatch(d) \/ InsertFails(d)
    BY <1>b, <2>2 DEF ReadSettings, Dispatch, InsertFails
  <2>. QED
    BY <1>2, <2>1, <2>2 DEF Record
<1>3. ASSUME NEW d \in Deliveries, RecordSent(d) \/ Duplicate(d) PROVE StreakMove
  BY <1>3, <1>b DEF RecordSent, Duplicate
<1>4. ASSUME NEW d \in Deliveries, Prune(d) PROVE StreakMove
  <2>1. ~Pending(d) /\ config' = config /\ \A e \in Deliveries : e # d => row'[e] = row[e]
    BY <1>a, <1>4 DEF Prune, Pending, Ends
  <2>. QED
    BY <1>c, <2>1
<1>5. ASSUME NEW d \in Deliveries, Time(d) PROVE StreakMove
  <2>1. /\ config' = config /\ \A e \in Deliveries : e # d => row'[e] = row[e]
        /\ row'[d].status = row[d].status
    BY <1>a, <1>5 DEF Time, ClaimEnds, Ripen, FallDue, RowType
  <2>. QED
    BY <1>c, <2>1 DEF Pending
<1>6. ASSUME NEW c \in Consumers, Claim(c) PROVE StreakMove
  <2>1. CASE Claimable(con[c].of)
    <3>1. con[c].of \in Deliveries
      BY <1>a, <1>6 DEF Claim
    <3>2. /\ config' = config /\ \A e \in Deliveries : e # con[c].of => row'[e] = row[e]
          /\ row'[con[c].of].status = row[con[c].of].status
      BY <1>a, <1>6, <2>1, <3>1 DEF Claim, RowType
    <3>. QED
      BY <1>c, <3>1, <3>2 DEF Pending
  <2>2. CASE ~Claimable(con[c].of)
    BY <1>6, <1>b, <2>2 DEF Claim
  <2>. QED
    BY <2>1, <2>2
<1>7. ASSUME NEW c \in Consumers, FinishSpent(c) \/ GiveUp(c) PROVE StreakMove
  <2>1. con[c].of \in Deliveries
    BY <1>a, <1>7 DEF FinishSpent, GiveUp
  <2>2. \E g \in BOOLEAN : Fail(con[c].of, g) /\ (g => Pending(con[c].of))
    BY <1>7 DEF FinishSpent, GiveUp, Holds, Fail
  <2>. QED
    BY <1>a, <2>1, <2>2, StreakFail
<1>8. ASSUME NEW c \in Consumers, ReadConfig(c) \/ Post(c) \/ Die(c) PROVE StreakMove
  BY <1>8, <1>b DEF ReadConfig, Post, Die
<1>9. ASSUME NEW c \in Consumers, CancelDelivery(c) \/ Freeze(c) \/ Retry(c) PROVE StreakMove
  <2>1. con[c].of \in Deliveries /\ config' = config
    BY <1>a, <1>9 DEF CancelDelivery, Freeze, Retry
  <2>2. \/ row' = row
        \/ /\ \A e \in Deliveries : e # con[c].of => row'[e] = row[e]
           /\ row'[con[c].of].status \in {row[con[c].of].status, "cancelled"}
    <3>1. Ended(con[c].of, "cancelled") =>
             /\ \A e \in Deliveries : e # con[c].of => row'[e] = row[e]
             /\ row'[con[c].of].status = "cancelled"
      BY <1>a, <2>1 DEF Ended, RowType
    <3>2. row' = Kept(con[c].of) =>
             /\ \A e \in Deliveries : e # con[c].of => row'[e] = row[e]
             /\ row'[con[c].of].status = row[con[c].of].status
      BY <1>a, <2>1 DEF Kept, RowType
    <3>3. Freed(con[c].of) =>
             /\ \A e \in Deliveries : e # con[c].of => row'[e] = row[e]
             /\ row'[con[c].of].status = row[con[c].of].status
      BY <1>a, <2>1 DEF Freed, RowType
    <3>. QED
      BY <1>9, <3>1, <3>2, <3>3 DEF CancelDelivery, Freeze, Retry
  <2>. QED
    BY <1>b, <1>c, <2>1, <2>2 DEF Pending
<1>10. ASSUME NEW c \in Consumers, Delivered(c) PROVE StreakMove
  <2>1. con[c].of \in Deliveries
    BY <1>a, <1>10 DEF Delivered
  <2>2. CASE Holds(c)
    BY <1>a, <1>10, <2>1, <2>2, StreakEnd DEF Delivered, Holds
  <2>3. CASE ~Holds(c)
    BY <1>10, <1>b, <2>3 DEF Delivered
  <2>. QED
    BY <2>2, <2>3
<1>11. ASSUME NEW c \in Consumers, Throw(c) PROVE StreakMove
  <2>1. con[c].of \in Deliveries
    BY <1>a, <1>11 DEF Throw
  <2>2. CASE UNCHANGED <<row, config>>
    BY <1>b, <2>2
  <2>3. CASE Freed(con[c].of) /\ UNCHANGED config
    <3>1. /\ \A e \in Deliveries : e # con[c].of => row'[e] = row[e]
          /\ row'[con[c].of].status = row[con[c].of].status
      BY <1>a, <2>1, <2>3 DEF Freed, RowType
    <3>. QED
      BY <1>c, <2>1, <2>3, <3>1 DEF Pending
  <2>4. CASE Fail(con[c].of, Holds(c))
    <3>1. Holds(c) => Pending(con[c].of)
      BY DEF Holds
    <3>. QED
      BY <1>a, <2>1, <2>4, <3>1, StreakFail
  <2>. QED
    BY <1>11, <2>2, <2>3, <2>4 DEF Throw
<1>12. ASSUME NEW c \in Consumers, NEW d \in Deliveries, Take(c, d) PROVE StreakMove
  BY <1>12, <1>b DEF Take
<1>13. CASE StartSweep
  BY <1>13, <1>b DEF StartSweep
<1>14. ASSUME NEW d \in Deliveries, SweepRow(d) PROVE StreakMove
  <2>1. CASE Spent(d)
    <3>1. Fail(d, Pending(d) /\ Unclaimed(d))
      BY <1>14, <2>1 DEF SweepRow
    <3>. QED
      BY <1>a, <3>1, StreakFail
  <2>2. CASE ~Spent(d)
    <3>1. /\ config' = config /\ \A e \in Deliveries : e # d => row'[e] = row[e]
          /\ row'[d].status = row[d].status
      BY <1>a, <1>14, <2>2 DEF SweepRow, RowType
    <3>. QED
      BY <1>c, <3>1 DEF Pending
  <2>. QED
    BY <2>1, <2>2
<1>15. CASE UNCHANGED vars
  BY <1>15, <1>b DEF vars
<1>. QED
  BY <1>1, <1>2, <1>3, <1>4, <1>5, <1>6, <1>7, <1>8, <1>9, <1>10, <1>11, <1>12, <1>13,
     <1>14, <1>15 DEF Next, Attempt, Sweep

\* Under one endpoint the run of failures moves with the end of a delivery of
\* its generation, in the same step and once for each, and the endpoint is
\* paused exactly when the run is as long as the threshold.
THEOREM StreakCounts == Spec => StreakFollows
<1>1. IInv /\ IInv' /\ [Next]_vars =>
        [config.on /\ config'.on /\ config'.era = config.era /\ ~OtherEnds =>
           /\ config'.streak =
                IF config.paused THEN config.streak
                ELSE IF \E d \in Deliveries : Turned(d, "failed") THEN config.streak + 1
                ELSE IF \E d \in Deliveries : Turned(d, "delivered") THEN 0
                ELSE config.streak
           /\ config'.paused <=> config'.streak >= Threshold]_vars
  <2>1. IInv' => (config'.paused <=> config'.streak >= Threshold)
    BY DEF IInv, GenInv
  <2>. QED
    BY <2>1, StreakStep DEF StreakMove
<1>. QED
  BY <1>1, IInit, IStep, PTL DEF Spec, StreakFollows

(***************************************************************************)
(* DeliveryEvents, for any number of events, messages, campaigns and       *)
(* requests, any threshold and windows and any number of repeats: the      *)
(* provider's decisions stand against links and later events, soft bounces *)
(* count by when they occurred in whatever order they come, a bounced      *)
(* address stays off its list, and each event reaches its message and the  *)
(* webhook.                                                                *)
(***************************************************************************)

-----------------------------------------------------------------------------
(* The inductive invariant.                                                *)

\* A suppression no link takes back: the v1 undo deletes an unsubscribe row.
Firm == suppression.reason \notin {"none", "unsubscribe"}

\* The provider's decisions stand on a row the undo link does not delete.
DecisionsFirm ==
    \A e \in history.decided \ history.masked :
        /\ Kind[e] = "hard" => suppression.reason = "hard_bounce"
        /\ Kind[e] \in {"complaint", "refused"} => Firm

\* Enough soft bounces, recorded by done, close enough to each other.
Close(es) == \A a, b \in es : OccurredAt[b] - OccurredAt[a] <= SoftBounceWindow
Full(es, done) ==
    /\ es \subseteq SoftBounces(done)
    /\ Cardinality(es) >= SoftBounceThreshold
    /\ Close(es)

\* What a full window says of the row, as DecisionsFirm for a single event.
WindowFirm ==
    \A es \in SUBSET Events :
        Full(es, recorded) /\ es \cap history.decided # {} /\ es \cap history.masked = {} => Firm

\* A soft_bounce row has its full window.
WindowCaused == suppression.reason = "soft_bounce" => \E es \in SUBSET Events : Full(es, recorded)

\* A membership the provider ended, in a state the undo link leaves alone.
StruckOff ==
    \A e \in history.struck \ history.missed :
        member.status = "unsubscribed" /\ member.reason \in {"hard_bounce", "complaint"}

\* Without a sent row no event has come in time for one.
NoneEarly == ~sentEmail => history.inTime = {}

\* A handler that has found no sent row is not at its first attempt, and its
\* event is none whose row came in time.
LateHandler ==
    \A m \in Messages : message[m].at = "record" /\ ~message[m].found =>
        message[m].tries = 2 /\ About[m] \notin history.inTime

\* An event recorded alone had a second attempt before the sent row came.
LateAlone ==
    \A e \in Events : recorded[e] = "alone" =>
        /\ e \notin history.inTime
        /\ \E m \in Messages : About[m] = e /\ message[m].tries = 2

SuppressionInv == DecisionsFirm /\ ProviderCaused /\ WindowFirm /\ WindowCaused
EventsInv == HookAgrees /\ NoneEarly /\ LateHandler /\ LateAlone

EventIInv == EventTypeOK /\ SuppressionInv /\ StruckOff /\ EventsInv

-----------------------------------------------------------------------------
(* Windows of soft bounces.                                                *)

\* A set of numbers has a least one.
LEMMA LeastNumber ==
    ASSUME NEW S \in SUBSET Nat, S # {}
    PROVE  \E x \in S : \A y \in S : x <= y
<1> DEFINE Less == {ss \in Nat \X Nat : ss[1] < ss[2]}
<1>1. IsWellFoundedOn(Less, Nat)
  BY NatLessThanWellFounded, Zenon DEF OpToRel
<1>. HIDE DEF Less
<1>2. PICK x \in S : \A y \in S : ~(<<y, x>> \in Less)
  BY <1>1, WFMin
<1>3. ASSUME NEW y \in S PROVE x <= y
  <2>1. <<y, x>> \in Nat \X Nat /\ <<y, x>>[1] = y /\ <<y, x>>[2] = x
    OBVIOUS
  <2>2. ~(y < x)
    BY <1>2, <2>1 DEF Less
  <2>. QED
    BY <2>2
<1>. QED
  BY <1>3

\* Some event of a set occurred first.
LEMMA FirstOf ==
    ASSUME NEW es \in SUBSET Events, es # {}
    PROVE  \E a \in es : \A b \in es : OccurredAt[a] <= OccurredAt[b]
<1> DEFINE times == {OccurredAt[b] : b \in es}
<1>1. times \in SUBSET Nat /\ times # {}
  BY EventAssumption
<1>2. PICK x \in times : \A y \in times : x <= y
  BY <1>1, LeastNumber, Zenon
<1>3. PICK a \in es : OccurredAt[a] = x
  BY <1>2
<1>4. \A b \in es : OccurredAt[a] <= OccurredAt[b]
  BY <1>2, <1>3
<1>. QED
  BY <1>4

\* Soft bounces are events, and finitely many.
LEMMA SoftFinite ==
    ASSUME NEW done, NEW es \in SUBSET SoftBounces(done)
    PROVE  es \in SUBSET Events /\ IsFiniteSet(es) /\ Cardinality(es) \in Nat
<1>1. es \in SUBSET Events
  BY DEF SoftBounces
<1>2. IsFiniteSet(es)
  BY <1>1, FS_Subset, EventAssumption
<1>. QED
  BY <1>1, <1>2, FS_CardinalityType

\* The query finds any full window that holds the event that has arrived: its
\* first event is an anchor, and the window from there holds all of it.
LEMMA FullWindowFound ==
    ASSUME NEW done, NEW es, NEW e \in es, Full(es, done)
    PROVE  SoftBounceRule(e, done)
<1>1. es \in SUBSET SoftBounces(done) /\ es \in SUBSET Events
  BY SoftFinite DEF Full
<1>2. PICK a \in es : \A b \in es : OccurredAt[a] <= OccurredAt[b]
  BY <1>1, FirstOf, Zenon
<1>3. \A b \in es : OccurredAt[b] \in Nat
  BY <1>1, EventAssumption
<1>4. SoftBounceWindow \in Nat /\ SoftBounceThreshold \in Nat
  BY BoundAssumption
<1>5. \A b \in es : OccurredAt[b] - OccurredAt[a] <= SoftBounceWindow
  BY <1>2 DEF Full, Close
<1>6. a \in Anchors(e, done)
  <2>1. OccurredAt[a] <= OccurredAt[e] /\ OccurredAt[e] - OccurredAt[a] <= SoftBounceWindow
    BY <1>2, <1>5
  <2>2. OccurredAt[a] \in OccurredAt[e] - SoftBounceWindow..OccurredAt[e]
    BY <2>1, <1>3, <1>4
  <2>. QED
    BY <2>2, <1>1 DEF Anchors
<1> DEFINE window == {b \in SoftBounces(done) :
                         OccurredAt[b] \in OccurredAt[a]..OccurredAt[a] + SoftBounceWindow}
<1>7. es \in SUBSET window
  <2>1. ASSUME NEW b \in es PROVE b \in window
    <3>1. OccurredAt[a] <= OccurredAt[b] /\ OccurredAt[b] - OccurredAt[a] <= SoftBounceWindow
      BY <1>2, <1>5
    <3>2. OccurredAt[b] \in OccurredAt[a]..OccurredAt[a] + SoftBounceWindow
      BY <3>1, <1>3, <1>4
    <3>. QED
      BY <3>2, <1>1
  <2>. QED
    BY <2>1
<1>8. IsFiniteSet(window) /\ Cardinality(window) \in Nat
  <2>1. window \in SUBSET SoftBounces(done)
    OBVIOUS
  <2>. HIDE DEF window
  <2>. QED
    BY <2>1, SoftFinite
<1>9. Cardinality(window) >= SoftBounceThreshold
  <2>1. Cardinality(es) <= Cardinality(window)
    <3>. HIDE DEF window
    <3>. QED
      BY <1>7, <1>8, FS_Subset
  <2>2. Cardinality(es) >= SoftBounceThreshold /\ Cardinality(es) \in Nat
    BY <1>1, SoftFinite DEF Full
  <2>. HIDE DEF window
  <2>. QED
    BY <2>1, <2>2, <1>8, <1>4
<1>. QED
  BY <1>6, <1>9 DEF SoftBounceRule

\* What the query counts is a full window.
LEMMA RuleFindsFull ==
    ASSUME NEW done, NEW e \in Events, SoftBounceRule(e, done)
    PROVE  \E es \in SUBSET Events : Full(es, done)
<1>1. PICK a \in Anchors(e, done) :
         Cardinality({b \in SoftBounces(done) :
                        OccurredAt[b] \in OccurredAt[a]..OccurredAt[a] + SoftBounceWindow})
            >= SoftBounceThreshold
  BY DEF SoftBounceRule
<1> DEFINE es == {b \in SoftBounces(done) :
                    OccurredAt[b] \in OccurredAt[a]..OccurredAt[a] + SoftBounceWindow}
<1>2. es \in SUBSET SoftBounces(done) /\ es \in SUBSET Events
  BY DEF SoftBounces
<1>3. Close(es)
  <2>1. OccurredAt[a] \in Nat
    BY EventAssumption DEF Anchors, SoftBounces
  <2>2. \A b \in es : OccurredAt[b] \in Nat
    BY <1>2, EventAssumption
  <2>3. SoftBounceWindow \in Nat
    BY BoundAssumption
  <2>4. ASSUME NEW b \in es, NEW d \in es
        PROVE  OccurredAt[d] - OccurredAt[b] <= SoftBounceWindow
    BY <2>1, <2>2, <2>3
  <2>. QED
    BY <2>4 DEF Close
<1>4. Full(es, done)
  BY <1>1, <1>2, <1>3 DEF Full
<1>. QED
  BY <1>2, <1>4

\* A window stays full as events are recorded.
LEMMA FullStays ==
    ASSUME NEW done, NEW more, SoftBounces(done) \subseteq SoftBounces(more), NEW es, Full(es, done)
    PROVE  Full(es, more)
BY DEF Full

\* An event that is not in a window has no part in its being full.
LEMMA FullWithout ==
    ASSUME NEW done, NEW more, NEW e, NEW es, e \notin es, Full(es, more),
           \A b \in Events : b # e => more[b] = done[b]
    PROVE  Full(es, done)
BY DEF Full, SoftBounces

-----------------------------------------------------------------------------
(* The suppression row.                                                    *)

\* What a row of suppressions is; id 0 stands for none.
RowFits(s) ==
    s \in [id : Nat, reason : Reasons \cup {"none"}] /\ ((s.id = 0) = (s.reason = "none"))

\* An insert leaves a row, and the reason of one that is there.
LEMMA InsertFits ==
    ASSUME EventTypeOK, NEW reason \in Reasons
    PROVE  /\ RowFits(InsertOrKeep(reason))
           /\ InsertOrKeep(reason).reason = IF Suppressed THEN suppression.reason ELSE reason
<1>1. RowFits(suppression) /\ history.ids \in Nat
  BY DEF EventTypeOK, RowFits
<1>2. CASE Suppressed
  BY <1>1, <1>2 DEF InsertOrKeep
<1>3. CASE ~Suppressed
  <2>1. InsertOrKeep(reason) = [id |-> history.ids + 1, reason |-> reason]
    BY <1>3 DEF InsertOrKeep, NextId
  <2>2. reason # "none" /\ history.ids + 1 # 0 /\ history.ids + 1 \in Nat
    BY <1>1 DEF Reasons
  <2>. QED
    BY <2>1, <2>2, <1>3 DEF RowFits
<1>. QED
  BY <1>2, <1>3

\* A hard bounce leaves its own reason.
LEMMA HardFits ==
    ASSUME EventTypeOK
    PROVE  RowFits(HardBounce) /\ HardBounce.reason = "hard_bounce"
<1>1. RowFits(InsertOrKeep("hard_bounce")) /\ InsertOrKeep("hard_bounce").reason # "none"
  BY InsertFits DEF Suppressed, Reasons
<1> DEFINE kept == InsertOrKeep("hard_bounce")
<1>2. kept \in [id : Nat, reason : Reasons \cup {"none"}] /\ kept.id # 0
  BY <1>1 DEF RowFits
<1>. HIDE DEF kept
<1>3. HardBounce = [kept EXCEPT !.reason = "hard_bounce"]
  BY DEF HardBounce, kept
<1>4. "hard_bounce" \in Reasons
  BY DEF Reasons
<1>. QED
  BY <1>2, <1>3, <1>4 DEF RowFits

\* The row and the history after the batch of an event that is new.
LEMMA RecordMoves ==
    ASSUME EventTypeOK, NEW m \in Messages, RecordEvent(m), NEW e, e = About[m], NewEvent(e)
    PROVE  /\ e \in Events
           /\ suppression' = SuppressionAfter(e, recorded')
           /\ recorded' = [recorded EXCEPT ![e] = IF message[m].found THEN "matched" ELSE "alone"]
           /\ history' = Recorded(e, recorded')
           /\ history'.decided = history.decided \cup {e}
           /\ history'.masked = IF Decides(e, recorded') /\ suppression.reason = "unsubscribe"
                                /\ Kind[e] # "hard"
                             THEN history.masked \cup {e} ELSE history.masked
           /\ history'.struck = IF LeavesLists(e) THEN history.struck \cup {e} ELSE history.struck
           /\ history'.missed = IF LeavesLists(e) /\ member.reason \in {"link", "none"}
                                /\ member.status = "unsubscribed"
                             THEN history.missed \cup {e} ELSE history.missed
           /\ history'.inTime = history.inTime
           /\ history'.ids = IF suppression'.id > history.ids THEN suppression'.id ELSE history.ids
<1>1. e \in Events
  BY EventAssumption
<1>2. history \in [decided : SUBSET Events, masked : SUBSET Events, struck : SUBSET Events,
                missed : SUBSET Events, inTime : SUBSET Events, ids : Nat]
  BY DEF EventTypeOK
<1>3. /\ suppression' = SuppressionAfter(e, recorded')
      /\ recorded' = [recorded EXCEPT ![e] = IF message[m].found THEN "matched" ELSE "alone"]
      /\ history' = Recorded(e, recorded')
  BY Zenon DEF RecordEvent, NewEvent
<1> DEFINE masks == Decides(e, recorded') /\ suppression.reason = "unsubscribe" /\ Kind[e] # "hard"
           misses == LeavesLists(e) /\ member.reason \in {"link", "none"}
                        /\ member.status = "unsubscribed"
           leaves == LeavesLists(e)
<1>4. history' = [history EXCEPT
                 !.decided = history.decided \cup {e},
                 !.masked = IF masks THEN history.masked \cup {e} ELSE history.masked,
                 !.struck = IF leaves THEN history.struck \cup {e} ELSE history.struck,
                 !.missed = IF misses THEN history.missed \cup {e} ELSE history.missed,
                 !.ids = IF suppression'.id > history.ids THEN suppression'.id ELSE history.ids]
  BY <1>3 DEF Recorded, NewEvent
<1>. HIDE DEF masks, misses, leaves
<1>5. /\ history'.decided = history.decided \cup {e}
      /\ history'.masked = IF masks THEN history.masked \cup {e} ELSE history.masked
      /\ history'.struck = IF leaves THEN history.struck \cup {e} ELSE history.struck
      /\ history'.missed = IF misses THEN history.missed \cup {e} ELSE history.missed
      /\ history'.inTime = history.inTime
      /\ history'.ids = IF suppression'.id > history.ids THEN suppression'.id ELSE history.ids
  BY <1>2, <1>4
<1>. QED
  BY <1>1, <1>3, <1>5 DEF masks, misses, leaves

\* What the batch makes of the row, kind by kind.
LEMMA RowAfter ==
    ASSUME NEW e \in Events, NewEvent(e), NEW done
    PROVE  /\ Kind[e] = "hard" => SuppressionAfter(e, done) = HardBounce
           /\ Kind[e] = "complaint" => SuppressionAfter(e, done) = InsertOrKeep("complaint")
           /\ Kind[e] = "refused" => SuppressionAfter(e, done) = InsertOrKeep("provider")
           /\ Kind[e] = "soft" =>
                SuppressionAfter(e, done) = IF SoftBounceRule(e, done)
                                            THEN InsertOrKeep("soft_bounce") ELSE suppression
           /\ Kind[e] = "failed" => SuppressionAfter(e, done) = suppression
<1>1. CASE Kind[e] = "hard"
  BY <1>1 DEF SuppressionAfter
<1>2. CASE Kind[e] = "complaint"
  BY <1>2 DEF SuppressionAfter
<1>3. CASE Kind[e] = "refused"
  BY <1>3 DEF SuppressionAfter
<1>4. CASE Kind[e] = "soft"
  <2>1. recorded[e] = "no"
    BY DEF NewEvent
  <2>2. CASE SoftBounceRule(e, done)
    BY <2>1, <2>2, <1>4 DEF SuppressionAfter
  <2>3. CASE ~SoftBounceRule(e, done)
    BY <2>3, <1>4 DEF SuppressionAfter
  <2>. QED
    BY <2>2, <2>3, <1>4
<1>5. CASE Kind[e] = "failed"
  BY <1>5 DEF SuppressionAfter
<1>6. Kind[e] \in KindType
  BY EventAssumption
<1>. QED
  BY <1>1, <1>2, <1>3, <1>4, <1>5, <1>6 DEF KindType

\* The batch of an event that is recorded already changes no row.
LEMMA RepeatMoves ==
    ASSUME EventTypeOK, NEW m \in Messages, RecordEvent(m), ~NewEvent(About[m])
    PROVE  /\ recorded' = recorded /\ suppression' = suppression /\ history' = history
           /\ member' = member /\ hooked' = hooked
<1> DEFINE e == About[m]
<1>1. e \in Events /\ recorded[e] # "no"
  BY EventAssumption DEF NewEvent
<1>2. SuppressionAfter(e, recorded') = suppression
  BY <1>1 DEF SuppressionAfter, NewEvent
<1>3. /\ recorded' = recorded
      /\ suppression' = SuppressionAfter(e, recorded')
      /\ history' = history
  BY <1>1, Zenon DEF RecordEvent, Recorded
<1>4. member' = member /\ hooked' = hooked
  BY <1>1 DEF RecordEvent, MemberAfter, Hook, NewEvent
<1>. QED
  BY <1>2, <1>3, <1>4

\* The row's reason after the batch of an event that is new.
LEMMA ReasonAfter ==
    ASSUME EventTypeOK, NEW m \in Messages, RecordEvent(m), NEW e, e = About[m], NewEvent(e)
    PROVE  /\ RowFits(suppression')
           /\ Kind[e] = "hard" => suppression'.reason = "hard_bounce"
           /\ Kind[e] = "complaint" =>
                suppression'.reason = IF Suppressed THEN suppression.reason ELSE "complaint"
           /\ Kind[e] = "refused" =>
                suppression'.reason = IF Suppressed THEN suppression.reason ELSE "provider"
           /\ Kind[e] = "soft" =>
                suppression'.reason = IF SoftBounceRule(e, recorded') /\ ~Suppressed
                                      THEN "soft_bounce" ELSE suppression.reason
           /\ Kind[e] = "failed" => suppression'.reason = suppression.reason
<1>1. e \in Events /\ suppression' = SuppressionAfter(e, recorded')
  BY RecordMoves
<1>2. RowFits(suppression)
  BY DEF EventTypeOK, RowFits
<1>3. {"hard_bounce", "complaint", "provider", "soft_bounce"} \subseteq Reasons
  BY DEF Reasons
<1>4. CASE Kind[e] = "hard"
  BY <1>1, <1>4, RowAfter, HardFits
<1>5. CASE Kind[e] = "complaint"
  BY <1>1, <1>3, <1>5, RowAfter, InsertFits
<1>6. CASE Kind[e] = "refused"
  BY <1>1, <1>3, <1>6, RowAfter, InsertFits
<1>7. CASE Kind[e] = "soft"
  BY <1>1, <1>2, <1>3, <1>7, RowAfter, InsertFits
<1>8. CASE Kind[e] = "failed"
  BY <1>1, <1>2, <1>8, RowAfter
<1>9. Kind[e] \in KindType
  BY <1>1, EventAssumption
<1>. QED
  BY <1>4, <1>5, <1>6, <1>7, <1>8, <1>9 DEF KindType

\* No batch makes a firm row weak, or takes a hard bounce's row from it.
LEMMA StaysFirm ==
    ASSUME EventTypeOK, NEW m \in Messages, RecordEvent(m), NewEvent(About[m])
    PROVE  /\ Firm => Firm'
           /\ suppression.reason = "hard_bounce" => suppression'.reason = "hard_bounce"
<1> DEFINE e == About[m]
<1>1. e \in Events /\ Kind[e] \in KindType
  BY EventAssumption
<1>. QED
  BY <1>1, ReasonAfter DEF Firm, Suppressed, KindType

\* What the rows of the events show after a batch, but for the event itself.
LEMMA RecordedAfter ==
    ASSUME EventTypeOK, NEW m \in Messages, RecordEvent(m), NEW e, e = About[m], NewEvent(e)
    PROVE  /\ recorded'[e] = IF message[m].found THEN "matched" ELSE "alone"
           /\ \A b \in Events : b # e => recorded'[b] = recorded[b]
           /\ SoftBounces(recorded) \subseteq SoftBounces(recorded')
<1>1. /\ e \in Events
      /\ recorded' = [recorded EXCEPT ![e] = IF message[m].found THEN "matched" ELSE "alone"]
  BY RecordMoves
<1>2. recorded \in [Events -> {"no", "alone", "matched"}]
  BY DEF EventTypeOK
<1>3. /\ recorded'[e] = IF message[m].found THEN "matched" ELSE "alone"
      /\ \A b \in Events : b # e => recorded'[b] = recorded[b]
  BY <1>1, <1>2
<1>4. SoftBounces(recorded) \subseteq SoftBounces(recorded')
  BY <1>3 DEF SoftBounces
<1>. QED
  BY <1>3, <1>4

\* What the history has after the batch of a new event.
LEMMA DecidedAfter ==
    ASSUME EventTypeOK, NEW m \in Messages, RecordEvent(m), NEW e, e = About[m], NewEvent(e)
    PROVE  /\ history'.decided = history.decided \cup {e}
           /\ history.masked \subseteq history'.masked
           /\ Decides(e, recorded') /\ suppression.reason = "unsubscribe" /\ Kind[e] # "hard" =>
                e \in history'.masked
<1>1. /\ history'.decided = history.decided \cup {e}
      /\ history'.masked = IF Decides(e, recorded') /\ suppression.reason = "unsubscribe"
                           /\ Kind[e] # "hard"
                        THEN history.masked \cup {e} ELSE history.masked
  BY RecordMoves
<1>. QED
  BY <1>1

\* A decision about one event: the row is firm, a hard bounce's its own.
LEMMA RecordDecision ==
    ASSUME EventTypeOK, DecisionsFirm, NEW m \in Messages, RecordEvent(m), NewEvent(About[m])
    PROVE  DecisionsFirm'
<1> DEFINE e == About[m]
<1>1. SUFFICES ASSUME NEW x \in history'.decided \ history'.masked
               PROVE  /\ Kind[x] = "hard" => suppression'.reason = "hard_bounce"
                      /\ Kind[x] \in {"complaint", "refused"} => Firm'
  BY DEF DecisionsFirm
<1>2. CASE x # e
  <2>1. x \in history.decided \ history.masked
    BY <1>1, <1>2, DecidedAfter
  <2>. QED
    BY <2>1, StaysFirm DEF DecisionsFirm
<1>3. CASE x = e
  <2>1. CASE Kind[e] = "hard"
    BY <1>3, <2>1, ReasonAfter
  <2>2. CASE Kind[e] \in {"complaint", "refused"}
    <3>1. Decides(e, recorded') /\ Kind[e] # "hard"
      BY <2>2 DEF Decides
    <3>2. suppression.reason # "unsubscribe"
      BY <1>1, <1>3, <3>1, DecidedAfter
    <3>. QED
      BY <1>3, <2>2, <3>2, ReasonAfter DEF Firm, Suppressed
  <2>. QED
    BY <1>3, <2>1, <2>2
<1>. QED
  BY <1>2, <1>3

\* A suppression of the provider's is put down to an event of its kind.
LEMMA RecordCause ==
    ASSUME EventTypeOK, ProviderCaused, NEW m \in Messages, RecordEvent(m), NewEvent(About[m])
    PROVE  ProviderCaused'
<1> DEFINE e == About[m]
<1>1. e \in Events /\ Kind[e] \in KindType
  BY EventAssumption
<1>2. history'.decided = history.decided \cup {e}
  BY DecidedAfter
<1>3. suppression'.reason # suppression.reason =>
        /\ Kind[e] = "hard" => suppression'.reason = "hard_bounce"
        /\ Kind[e] = "complaint" => suppression'.reason = "complaint"
        /\ Kind[e] = "refused" => suppression'.reason = "provider"
        /\ Kind[e] = "soft" => suppression'.reason = "soft_bounce"
        /\ Kind[e] # "failed"
  BY <1>1, ReasonAfter
<1>4. CASE suppression'.reason = suppression.reason
  BY <1>2, <1>4, Zenon DEF ProviderCaused
<1>5. CASE suppression'.reason # suppression.reason
  <2>1. e \in history'.decided
    BY <1>2
  <2>2. CASE Kind[e] = "hard"
    BY <1>3, <1>5, <2>1, <2>2 DEF ProviderCaused
  <2>3. CASE Kind[e] = "complaint"
    BY <1>3, <1>5, <2>1, <2>3 DEF ProviderCaused
  <2>4. CASE Kind[e] = "refused"
    BY <1>3, <1>5, <2>1, <2>4 DEF ProviderCaused
  <2>5. CASE Kind[e] = "soft"
    BY <1>3, <1>5, <2>1, <2>5 DEF ProviderCaused
  <2>. QED
    BY <1>1, <1>3, <1>5, <2>2, <2>3, <2>4, <2>5 DEF KindType
<1>. QED
  BY <1>4, <1>5

\* A window that the event does not complete was full before; one that it
\* completes is found by the query, wherever in it the event lies.
LEMMA RecordWindow ==
    ASSUME EventTypeOK, WindowFirm, NEW m \in Messages, RecordEvent(m), NewEvent(About[m])
    PROVE  WindowFirm'
<1> DEFINE e == About[m]
<1>1. SUFFICES ASSUME NEW es \in SUBSET Events, Full(es, recorded'),
                      es \cap history'.decided # {}, es \cap history'.masked = {}
               PROVE  Firm'
  BY DEF WindowFirm, Full
<1>2. history'.decided = history.decided \cup {e} /\ history.masked \subseteq history'.masked
  BY DecidedAfter
<1>3. CASE e \notin es
  <2>1. Full(es, recorded)
    BY <1>1, <1>3, FullWithout, RecordedAfter
  <2>2. es \cap history.decided # {} /\ es \cap history.masked = {}
    BY <1>1, <1>2, <1>3
  <2>. QED
    BY <2>1, <2>2, StaysFirm DEF WindowFirm
<1>4. CASE e \in es
  <2>1. SoftBounceRule(e, recorded')
    BY <1>1, <1>4, FullWindowFound
  <2>2. Kind[e] = "soft"
    BY <1>1, <1>4 DEF Full, SoftBounces
  <2>3. Decides(e, recorded')
    BY <2>1, <2>2 DEF Decides
  <2>4. suppression.reason # "unsubscribe"
    BY <1>1, <1>4, <2>2, <2>3, DecidedAfter
  <2>. QED
    BY <2>1, <2>2, <2>4, ReasonAfter DEF Firm, Suppressed
<1>. QED
  BY <1>3, <1>4

\* A soft_bounce row comes with its window.
LEMMA RecordWindowCause ==
    ASSUME EventTypeOK, WindowCaused, NEW m \in Messages, RecordEvent(m), NewEvent(About[m])
    PROVE  WindowCaused'
<1> DEFINE e == About[m]
<1>1. SUFFICES ASSUME suppression'.reason = "soft_bounce"
               PROVE  \E es \in SUBSET Events : Full(es, recorded')
  BY DEF WindowCaused, Full
<1>2. e \in Events /\ Kind[e] \in KindType
  BY EventAssumption
<1>3. CASE suppression.reason = "soft_bounce"
  <2>1. PICK es \in SUBSET Events : Full(es, recorded)
    BY <1>3 DEF WindowCaused
  <2>2. Full(es, recorded')
    BY <2>1, FullStays, RecordedAfter
  <2>. QED
    BY <2>2
<1>4. CASE suppression.reason # "soft_bounce"
  <2>1. Kind[e] = "soft" /\ SoftBounceRule(e, recorded')
    BY <1>1, <1>2, <1>4, ReasonAfter DEF KindType
  <2>. QED
    BY <1>2, <2>1, RuleFindsFull
<1>. QED
  BY <1>3, <1>4

-----------------------------------------------------------------------------
(* What the other steps leave as it is.                                    *)

\* The types of the variables that more than one step changes.
MessageFits(f) ==
    f \in [Messages -> [at : {"waiting", "held", "read", "record", "over"},
                        tries : 0..2, found : BOOLEAN]]
MemberFits(u) ==
    /\ u \in [status : {"subscribed", "unsubscribed"}, reason : LeaveReasons,
              age : 0..UndoWindow + 1]
    /\ u.status = "subscribed" => u.reason = "none"
RequestFits(f) ==
    f \in [Requests -> [at : {"new", "read", "over"}, operation : Operations \cup {"none"},
                        campaign : Campaigns \cup {"none"}, seen : Nat]]
HistFits(h) ==
    h \in [decided : SUBSET Events, masked : SUBSET Events, struck : SUBSET Events,
           missed : SUBSET Events, inTime : SUBSET Events, ids : Nat]

\* EventTypeOK in these terms.
LEMMA EventTypes ==
    EventTypeOK <=> /\ scene \in Scenes /\ sentEmail \in BOOLEAN /\ repeats \in 0..MaxRepeats
               /\ recorded \in [Events -> {"no", "alone", "matched"}]
               /\ hooked \in SUBSET Events /\ credited \in SUBSET Campaigns
               /\ MessageFits(message) /\ RowFits(suppression) /\ MemberFits(member)
               /\ RequestFits(request) /\ HistFits(history)
BY Zenon DEF EventTypeOK, MessageFits, RowFits, MemberFits, RequestFits, HistFits

\* A step that leaves the events and decisions, and at most gives or takes an
\* unsubscribe row, or makes a manual one where there is none that is firm.
RowCalm ==
    /\ recorded' = recorded
    /\ history'.decided = history.decided /\ history'.masked = history.masked
    /\ \/ suppression'.reason = suppression.reason
       \/ ~Firm /\ suppression'.reason \in {"none", "unsubscribe", "manual"}

\* Such a step leaves what the suppression row stands for.
LEMMA RowCalmKeeps ==
    ASSUME SuppressionInv, RowCalm
    PROVE  SuppressionInv'
<1>1. CASE suppression'.reason = suppression.reason
  <2>1. Firm' = Firm
    BY <1>1 DEF Firm
  <2>2. DecisionsFirm'
    BY <1>1, <2>1 DEF RowCalm, SuppressionInv, DecisionsFirm
  <2>3. ProviderCaused'
    BY <1>1, Zenon DEF RowCalm, SuppressionInv, ProviderCaused
  <2>4. WindowFirm'
    BY <2>1, Zenon DEF RowCalm, SuppressionInv, WindowFirm, Full, SoftBounces
  <2>5. WindowCaused'
    BY <1>1, Zenon DEF RowCalm, SuppressionInv, WindowCaused, Full, SoftBounces
  <2>. QED
    BY <2>2, <2>3, <2>4, <2>5 DEF SuppressionInv
<1>2. CASE suppression'.reason # suppression.reason
  <2>1. ~Firm /\ suppression'.reason \in {"none", "unsubscribe", "manual"}
    BY <1>2 DEF RowCalm
  <2>2. \A e \in history.decided \ history.masked : Kind[e] \notin {"hard", "complaint", "refused"}
    BY <2>1 DEF SuppressionInv, DecisionsFirm, Firm
  <2>3. DecisionsFirm'
    BY <2>2 DEF RowCalm, DecisionsFirm
  <2>4. ProviderCaused'
    BY <2>1 DEF ProviderCaused
  <2>5. WindowFirm'
    BY <2>1, Zenon DEF RowCalm, SuppressionInv, WindowFirm, Full, SoftBounces
  <2>6. WindowCaused'
    BY <2>1 DEF WindowCaused
  <2>. QED
    BY <2>3, <2>4, <2>5, <2>6 DEF SuppressionInv
<1>. QED
  BY <1>1, <1>2

\* A step that leaves a membership the provider ended.
MemberCalm ==
    /\ history'.struck = history.struck /\ history'.missed = history.missed
    /\ \/ member'.status = member.status /\ member'.reason = member.reason
       \/ member.reason \notin {"hard_bounce", "complaint"}

\* It stays ended.
LEMMA MemberCalmKeeps ==
    ASSUME StruckOff, MemberCalm
    PROVE  StruckOff'
BY DEF StruckOff, MemberCalm

\* A step that leaves the messages and the events.
EventsCalm ==
    /\ message' = message /\ sentEmail' = sentEmail /\ recorded' = recorded /\ hooked' = hooked
    /\ history'.inTime = history.inTime

\* Such a step leaves what they have to do with each other.
LEMMA EventsCalmKeeps ==
    ASSUME EventsInv, EventsCalm
    PROVE  EventsInv'
<1>1. HookAgrees' /\ NoneEarly' /\ LateHandler'
  BY Zenon DEF EventsInv, EventsCalm, HookAgrees, NoneEarly, LateHandler
<1>2. LateAlone'
  BY Zenon DEF EventsInv, EventsCalm, LateAlone
<1>. QED
  BY <1>1, <1>2 DEF EventsInv

-----------------------------------------------------------------------------
(* The batch.                                                              *)

\* The membership after the batch of a new event.
LEMMA MemberAfterBatch ==
    ASSUME EventTypeOK, NEW m \in Messages, RecordEvent(m), NEW e, e = About[m], NewEvent(e)
    PROVE  /\ MemberFits(member')
           /\ LeavesLists(e) /\ member.status = "subscribed" =>
                member'.status = "unsubscribed" /\ member'.reason \in {"hard_bounce", "complaint"}
           /\ ~LeavesLists(e) \/ member.status # "subscribed" => member' = member
<1>1. MemberFits(member) /\ UndoWindow \in Nat
  BY EventTypes, BoundAssumption
<1>2. member' = MemberAfter(e)
  BY DEF RecordEvent
<1>3. CASE LeavesLists(e) /\ member.status = "subscribed"
  <2>1. member' = Left(IF Kind[e] = "hard" THEN "hard_bounce" ELSE "complaint")
    BY <1>2, <1>3 DEF MemberAfter
  <2>2. PICK reason \in {"hard_bounce", "complaint"} : member' = Left(reason)
    BY <2>1
  <2>. QED
    BY <1>1, <1>3, <2>2 DEF Left, MemberFits, LeaveReasons
<1>4. CASE ~LeavesLists(e) \/ member.status # "subscribed"
  BY <1>1, <1>2, <1>4 DEF MemberAfter
<1>. QED
  BY <1>3, <1>4

\* The history after it, for the membership and for the sent row.
LEMMA StruckAfter ==
    ASSUME EventTypeOK, NEW m \in Messages, RecordEvent(m), NEW e, e = About[m], NewEvent(e)
    PROVE  /\ HistFits(history')
           /\ history'.struck \subseteq history.struck \cup {e}
           /\ history.missed \subseteq history'.missed
           /\ e \in history'.struck => e \in history.struck \/ LeavesLists(e)
           /\ (LeavesLists(e) /\ member.reason \in {"link", "none"} /\ member.status = "unsubscribed")
                => e \in history'.missed
           /\ history'.inTime = history.inTime
<1>1. HistFits(history)
  BY EventTypes
<1>2. e \in Events
  BY EventAssumption
<1>3. RowFits(suppression')
  BY ReasonAfter
<1>4. /\ history'.struck = IF LeavesLists(e) THEN history.struck \cup {e} ELSE history.struck
      /\ history'.missed = IF LeavesLists(e) /\ member.reason \in {"link", "none"}
                           /\ member.status = "unsubscribed"
                        THEN history.missed \cup {e} ELSE history.missed
      /\ history'.inTime = history.inTime
  BY RecordMoves
<1>5. HistFits(history')
  <2>1. history' = Recorded(e, recorded')
    BY RecordMoves
  <2>2. PICK masked \in SUBSET Events, struck \in SUBSET Events, missed \in SUBSET Events, ids \in Nat :
           history' = [history EXCEPT !.decided = history.decided \cup {e}, !.masked = masked,
                                !.struck = struck, !.missed = missed, !.ids = ids]
    <3> DEFINE masks == Decides(e, recorded') /\ suppression.reason = "unsubscribe" /\ Kind[e] # "hard"
               misses == LeavesLists(e) /\ member.reason \in {"link", "none"}
                            /\ member.status = "unsubscribed"
               leaves == LeavesLists(e)
               masked == IF masks THEN history.masked \cup {e} ELSE history.masked
               struck == IF leaves THEN history.struck \cup {e} ELSE history.struck
               missed == IF misses THEN history.missed \cup {e} ELSE history.missed
               ids == IF suppression'.id > history.ids THEN suppression'.id ELSE history.ids
    <3>1. history' = [history EXCEPT !.decided = history.decided \cup {e}, !.masked = masked,
                               !.struck = struck, !.missed = missed, !.ids = ids]
      BY <2>1 DEF Recorded, NewEvent
    <3>2. masked \in SUBSET Events /\ struck \in SUBSET Events /\ missed \in SUBSET Events
      <4>. HIDE DEF masks, misses, leaves
      <4>. QED
        BY <1>1, <1>2 DEF HistFits
    <3>3. ids \in Nat
      BY <1>1, <1>3 DEF HistFits, RowFits
    <3>. HIDE DEF masked, struck, missed, ids
    <3>. QED
      BY <3>1, <3>2, <3>3
  <2>3. history.decided \cup {e} \in SUBSET Events
    BY <1>1, <1>2 DEF HistFits
  <2>. QED
    BY <1>1, <2>2, <2>3 DEF HistFits
<1>. QED
  BY <1>4, <1>5

\* The batch of a new event keeps the types.
LEMMA RecordTypes ==
    ASSUME EventTypeOK, NEW m \in Messages, RecordEvent(m), NewEvent(About[m])
    PROVE  EventTypeOK'
<1> DEFINE e == About[m]
<1>1. e \in Events
  BY EventAssumption
<1>2. RowFits(suppression') /\ HistFits(history') /\ MemberFits(member')
  BY ReasonAfter, StruckAfter, MemberAfterBatch
<1>3. recorded' \in [Events -> {"no", "alone", "matched"}]
  <2>1. recorded' = [recorded EXCEPT ![e] = IF message[m].found THEN "matched" ELSE "alone"]
    BY RecordMoves
  <2>. QED
    BY <2>1, EventTypes
<1>4. MessageFits(message')
  <2>1. message' = [message EXCEPT ![m].at = "over"] /\ MessageFits(message)
    BY EventTypes DEF RecordEvent
  <2>. QED
    BY <2>1 DEF MessageFits
<1>5. hooked' \in SUBSET Events
  <2>1. hooked' = hooked \/ hooked' = hooked \cup {e}
    BY DEF RecordEvent
  <2>. QED
    BY <1>1, <2>1, EventTypes
<1>6. UNCHANGED <<scene, sentEmail, credited, request, repeats>>
  BY DEF RecordEvent
<1>7. RequestFits(request')
  BY <1>6, EventTypes
<1>. QED
  BY <1>2, <1>3, <1>4, <1>5, <1>6, <1>7, EventTypes DEF EventTypeOK, MessageFits, RowFits, MemberFits,
     RequestFits, HistFits

\* The types, in the primed state.
LEMMA TypesNext ==
    ASSUME scene' \in Scenes, sentEmail' \in BOOLEAN, repeats' \in 0..MaxRepeats,
           recorded' \in [Events -> {"no", "alone", "matched"}],
           hooked' \in SUBSET Events, credited' \in SUBSET Campaigns,
           MessageFits(message'), RowFits(suppression'), MemberFits(member'),
           RequestFits(request'), HistFits(history')
    PROVE  EventTypeOK'
BY DEF EventTypeOK, MessageFits, RowFits, MemberFits, RequestFits, HistFits

\* A membership the provider ended stays so; the event that ends one is struck
\* as it does, or missed if it finds one left by a link or an administrator.
LEMMA RecordStrikes ==
    ASSUME EventTypeOK, StruckOff, NEW m \in Messages, RecordEvent(m), NewEvent(About[m])
    PROVE  StruckOff'
<1> DEFINE e == About[m]
<1>1. SUFFICES ASSUME NEW x \in history'.struck \ history'.missed
               PROVE  member'.status = "unsubscribed"
                      /\ member'.reason \in {"hard_bounce", "complaint"}
  BY DEF StruckOff
<1>2. MemberFits(member)
  BY EventTypes
<1>3. CASE x \in history.struck \ history.missed
  <2>1. member.status = "unsubscribed" /\ member.reason \in {"hard_bounce", "complaint"}
    BY <1>3 DEF StruckOff
  <2>2. member' = member
    BY <2>1, MemberAfterBatch
  <2>. QED
    BY <2>1, <2>2
<1>4. CASE x \notin history.struck \ history.missed
  <2>1. x = e /\ LeavesLists(e)
    BY <1>1, <1>4, StruckAfter
  <2>2. ~(member.reason \in {"link", "none"} /\ member.status = "unsubscribed")
    BY <1>1, <2>1, StruckAfter
  <2>3. CASE member.status = "subscribed"
    BY <2>1, <2>3, MemberAfterBatch
  <2>4. CASE member.status # "subscribed"
    <3>1. member.status = "unsubscribed" /\ member.reason \in {"hard_bounce", "complaint"}
      BY <1>2, <2>2, <2>4 DEF MemberFits, LeaveReasons
    <3>2. member' = member
      BY <2>4, MemberAfterBatch
    <3>. QED
      BY <3>1, <3>2
  <2>. QED
    BY <2>3, <2>4
<1>. QED
  BY <1>3, <1>4

\* The event's webhook row comes with the event's own, if its message is known.
LEMMA RecordHooks ==
    ASSUME EventTypeOK, HookAgrees, NEW m \in Messages, RecordEvent(m), NewEvent(About[m])
    PROVE  HookAgrees'
<1> DEFINE e == About[m]
<1>1. e \in Events
  BY EventAssumption
<1>2. message[m].found \in BOOLEAN
  BY EventTypes DEF MessageFits
<1>3. /\ recorded'[e] = IF message[m].found THEN "matched" ELSE "alone"
      /\ \A b \in Events : b # e => recorded'[b] = recorded[b]
  BY RecordedAfter
<1>4. hooked' = IF message[m].found THEN hooked \cup {e} ELSE hooked
  BY DEF RecordEvent, Hook, NewEvent
<1>5. e \notin hooked
  BY DEF HookAgrees, NewEvent
<1>6. CASE message[m].found
  BY <1>1, <1>3, <1>4, <1>6 DEF HookAgrees
<1>7. CASE ~message[m].found
  BY <1>1, <1>3, <1>4, <1>5, <1>7 DEF HookAgrees
<1>. QED
  BY <1>2, <1>6, <1>7

\* An event is recorded alone by a handler that came late for it.
LEMMA RecordLate ==
    ASSUME EventTypeOK, EventsInv, NEW m \in Messages, RecordEvent(m), NewEvent(About[m])
    PROVE  NoneEarly' /\ LateHandler' /\ LateAlone'
<1> DEFINE e == About[m]
<1>1. e \in Events /\ MessageFits(message)
  BY EventAssumption, EventTypes
<1>2. /\ recorded'[e] = IF message[m].found THEN "matched" ELSE "alone"
      /\ \A b \in Events : b # e => recorded'[b] = recorded[b]
  BY RecordedAfter
<1>3. history'.inTime = history.inTime /\ sentEmail' = sentEmail
  BY StruckAfter DEF RecordEvent
<1>4. message' = [message EXCEPT ![m].at = "over"] /\ message[m].at = "record"
  BY DEF RecordEvent
<1>5. /\ message'[m].at = "over" /\ message'[m].tries = message[m].tries
      /\ \A n \in Messages : n # m => message'[n] = message[n]
  BY <1>1, <1>4 DEF MessageFits
<1>6. NoneEarly'
  BY <1>3 DEF NoneEarly, EventsInv
<1>7. LateHandler'
  BY <1>3, <1>5 DEF LateHandler, EventsInv
<1>8. ASSUME NEW b \in Events, recorded'[b] = "alone"
      PROVE  b \notin history'.inTime /\ \E n \in Messages : About[n] = b /\ message'[n].tries = 2
  <2>1. CASE b = e
    <3>1. ~message[m].found
      BY <1>2, <1>8, <2>1
    <3>2. message[m].tries = 2 /\ e \notin history.inTime
      BY <1>4, <3>1 DEF LateHandler, EventsInv
    <3>. QED
      BY <1>3, <1>5, <2>1, <3>2
  <2>2. CASE b # e
    <3>1. b \notin history.inTime /\ \E n \in Messages : About[n] = b /\ message[n].tries = 2
      BY <1>2, <1>8, <2>2 DEF LateAlone, EventsInv
    <3>. QED
      BY <1>3, <1>5, <3>1
  <2>. QED
    BY <2>1, <2>2
<1>9. LateAlone'
  BY <1>8 DEF LateAlone
<1>. QED
  BY <1>6, <1>7, <1>9

\* A step that only moves a message on, and counts a fault perhaps.
OnlyMessages ==
    /\ UNCHANGED <<scene, sentEmail, recorded, hooked, suppression, member, credited, request, history>>
    /\ repeats' \in 0..MaxRepeats

\* Such a step keeps the invariant if late handlers stay the late ones, and
\* attempts are not uncounted.
LEMMA OnlyMessagesKeeps ==
    ASSUME EventIInv, OnlyMessages, MessageFits(message'), LateHandler',
           \A n \in Messages : message[n].tries = 2 => message'[n].tries = 2
    PROVE  EventIInv'
<1>1. EventTypeOK
  BY DEF EventIInv
<1>2. EventTypeOK'
  <2>1. /\ scene \in Scenes /\ sentEmail \in BOOLEAN
        /\ recorded \in [Events -> {"no", "alone", "matched"}]
        /\ hooked \in SUBSET Events /\ credited \in SUBSET Campaigns
        /\ RowFits(suppression) /\ MemberFits(member) /\ RequestFits(request) /\ HistFits(history)
    BY <1>1, EventTypes
  <2>. QED
    BY <2>1, TypesNext DEF OnlyMessages
<1>3. SuppressionInv'
  <2>1. RowCalm
    BY DEF OnlyMessages, RowCalm
  <2>. QED
    BY <2>1, RowCalmKeeps DEF EventIInv
<1>4. StruckOff'
  <2>1. MemberCalm
    BY DEF OnlyMessages, MemberCalm
  <2>. QED
    BY <2>1, MemberCalmKeeps DEF EventIInv
<1>5. HookAgrees' /\ NoneEarly'
  BY Zenon DEF OnlyMessages, HookAgrees, NoneEarly, EventIInv, EventsInv
<1>6. LateAlone'
  <2>1. LateAlone /\ recorded' = recorded /\ history' = history
    BY DEF OnlyMessages, EventIInv, EventsInv
  <2>. QED
    BY <2>1 DEF LateAlone
<1>. QED
  BY <1>2, <1>3, <1>4, <1>5, <1>6 DEF EventIInv, EventsInv

\* The batch keeps the invariant.
LEMMA RecordStep ==
    ASSUME EventIInv, NEW m \in Messages, RecordEvent(m)
    PROVE  EventIInv'
<1>1. EventTypeOK /\ SuppressionInv /\ StruckOff /\ EventsInv
  BY DEF EventIInv
<1>2. CASE NewEvent(About[m])
  <2>1. EventTypeOK'
    BY <1>1, <1>2, RecordTypes
  <2>2. SuppressionInv'
    BY <1>1, <1>2, RecordDecision, RecordCause, RecordWindow, RecordWindowCause DEF SuppressionInv
  <2>3. StruckOff'
    BY <1>1, <1>2, RecordStrikes
  <2>4. EventsInv'
    BY <1>1, <1>2, RecordHooks, RecordLate DEF EventsInv
  <2>. QED
    BY <2>1, <2>2, <2>3, <2>4 DEF EventIInv
<1>3. CASE ~NewEvent(About[m])
  <2>1. /\ recorded' = recorded /\ suppression' = suppression /\ history' = history
        /\ member' = member /\ hooked' = hooked
    BY <1>1, <1>3, RepeatMoves
  <2>2. OnlyMessages
    BY <1>1, <2>1, EventTypes DEF OnlyMessages, RecordEvent
  <2>3. message' = [message EXCEPT ![m].at = "over"] /\ MessageFits(message)
    BY <1>1, EventTypes DEF RecordEvent
  <2>4. /\ MessageFits(message')
        /\ \A n \in Messages : message'[n].tries = message[n].tries
        /\ message'[m].at = "over" /\ \A n \in Messages : n # m => message'[n] = message[n]
    BY <2>3 DEF MessageFits
  <2>5. LateHandler'
    BY <1>1, <2>1, <2>4 DEF LateHandler, EventsInv
  <2>. QED
    BY <2>2, <2>4, <2>5, OnlyMessagesKeeps
<1>. QED
  BY <1>2, <1>3

-----------------------------------------------------------------------------
(* The queue and the sender.                                               *)

\* The queue hands a message to a handler.
LEMMA DeliverStep ==
    ASSUME EventIInv, NEW m \in Messages, Deliver(m)
    PROVE  EventIInv'
<1>1. EventTypeOK /\ LateHandler /\ MessageFits(message)
  BY EventTypes DEF EventIInv, EventsInv
<1> DEFINE tries == IF message[m].tries = 2 THEN 2 ELSE message[m].tries + 1
<1>2. tries \in 0..2 /\ message[m].found \in BOOLEAN /\ (message[m].tries = 2 => tries = 2)
  BY <1>1 DEF MessageFits
<1>3. message' = [message EXCEPT ![m].at = "read", ![m].tries = tries]
  BY DEF Deliver
<1>. HIDE DEF tries
<1>4. /\ MessageFits(message')
      /\ message'[m].at = "read" /\ message'[m].tries = tries
      /\ \A n \in Messages : n # m => message'[n] = message[n]
  BY <1>1, <1>2, <1>3 DEF MessageFits
<1>5. OnlyMessages
  BY <1>1, EventTypes DEF Deliver, OnlyMessages
<1>6. LateHandler'
  BY <1>1, <1>4, <1>5 DEF LateHandler, OnlyMessages
<1>. QED
  BY <1>2, <1>4, <1>5, <1>6, OnlyMessagesKeeps

\* The handler looks for the sent row: without one, only a message that has
\* been tried before goes on to its batch.
LEMMA CorrelateStep ==
    ASSUME EventIInv, NEW m \in Messages, Correlate(m)
    PROVE  EventIInv'
<1>1. EventTypeOK /\ LateHandler /\ NoneEarly /\ MessageFits(message) /\ sentEmail \in BOOLEAN
  BY EventTypes DEF EventIInv, EventsInv
<1>2. message' = [message EXCEPT ![m].at = IF Waits(m) THEN "held" ELSE "record",
                                 ![m].found = sentEmail]
  BY DEF Correlate
<1>3. PICK to \in {"held", "record"} : to = IF Waits(m) THEN "held" ELSE "record"
  BY Zenon
<1>4. message' = [message EXCEPT ![m].at = to, ![m].found = sentEmail]
  BY <1>2, <1>3
<1>5. /\ MessageFits(message')
      /\ message'[m].at = to /\ message'[m].found = sentEmail
      /\ message'[m].tries = message[m].tries
      /\ \A n \in Messages : n # m => message'[n] = message[n]
  BY <1>1, <1>4 DEF MessageFits
<1>6. OnlyMessages
  BY <1>1, EventTypes DEF Correlate, OnlyMessages
<1>7. ASSUME to = "record", ~sentEmail PROVE message[m].tries = 2 /\ history.inTime = {}
  <2>1. ~(message[m].tries <= 1)
    BY <1>3, <1>7 DEF Waits
  <2>2. message[m].tries \in 0..2
    BY <1>1 DEF MessageFits
  <2>. QED
    BY <1>1, <1>7, <2>1, <2>2 DEF NoneEarly
<1>8. LateHandler'
  <2>1. SUFFICES ASSUME NEW n \in Messages, message'[n].at = "record", ~message'[n].found
                 PROVE  message'[n].tries = 2 /\ About[n] \notin history'.inTime
    BY DEF LateHandler
  <2>2. history' = history
    BY <1>6 DEF OnlyMessages
  <2>3. CASE n = m
    BY <1>5, <1>7, <2>1, <2>2, <2>3
  <2>4. CASE n # m
    BY <1>1, <1>5, <2>1, <2>2, <2>4 DEF LateHandler
  <2>. QED
    BY <2>3, <2>4
<1>9. \A n \in Messages : message[n].tries = 2 => message'[n].tries = 2
  BY <1>5
<1>. QED
  BY <1>5, <1>6, <1>8, <1>9, OnlyMessagesKeeps

\* A message that goes back to the queue has no handler that is late.
LEMMA BackStep ==
    ASSUME EventIInv, OnlyMessages, NEW m \in Messages,
           message' = [message EXCEPT ![m].at = "waiting"]
    PROVE  EventIInv'
<1>1. EventTypeOK /\ LateHandler /\ MessageFits(message)
  BY EventTypes DEF EventIInv, EventsInv
<1>2. /\ MessageFits(message')
      /\ message'[m].at = "waiting" /\ \A n \in Messages : message'[n].tries = message[n].tries
      /\ \A n \in Messages : n # m => message'[n] = message[n]
  BY <1>1 DEF MessageFits
<1>3. LateHandler'
  BY <1>1, <1>2 DEF LateHandler, OnlyMessages
<1>. QED
  BY <1>2, <1>3, OnlyMessagesKeeps

\* A message's delay is over.
LEMMA RipenStep ==
    ASSUME EventIInv, NEW m \in Messages, DelayEnds(m)
    PROVE  EventIInv'
<1>1. OnlyMessages
  BY EventTypes DEF EventIInv, DelayEnds, OnlyMessages
<1>. QED
  BY <1>1, BackStep DEF DelayEnds

\* A handler dies, or an acknowledgement is lost.
LEMMA RedeliverStep ==
    ASSUME EventIInv, NEW m \in Messages, Redeliver(m)
    PROVE  EventIInv'
<1>1. repeats' \in 0..MaxRepeats
  BY EventTypes, BoundAssumption DEF EventIInv, Redeliver
<1>2. OnlyMessages
  BY <1>1 DEF Redeliver, OnlyMessages
<1>. QED
  BY <1>2, BackStep DEF Redeliver

\* The sent row comes: the events in time for it are those no late handler
\* has, and none of them has been recorded alone.
LEMMA InsertSentStep ==
    ASSUME EventIInv, InsertSent
    PROVE  EventIInv'
<1>1. EventTypeOK /\ SuppressionInv /\ StruckOff /\ EventsInv /\ HistFits(history)
  BY EventTypes DEF EventIInv
<1> DEFINE early == {e \in Events : \A m \in Messages : About[m] = e => message[m].tries <= 1}
<1>2. history' = [history EXCEPT !.inTime = early] /\ early \in SUBSET Events
  BY DEF InsertSent
<1>3. \A m \in Messages : message[m].tries = 2 => About[m] \notin early
  OBVIOUS
<1>. HIDE DEF early
<1>4. /\ HistFits(history') /\ history'.inTime = early
      /\ history'.decided = history.decided /\ history'.masked = history.masked
      /\ history'.struck = history.struck /\ history'.missed = history.missed
  BY <1>1, <1>2 DEF HistFits
<1>5. /\ UNCHANGED <<scene, message, recorded, hooked, suppression, member, credited, request, repeats>>
      /\ sentEmail' = TRUE
  BY DEF InsertSent
<1>6. EventTypeOK'
  <2>1. /\ scene \in Scenes /\ repeats \in 0..MaxRepeats
        /\ recorded \in [Events -> {"no", "alone", "matched"}]
        /\ hooked \in SUBSET Events /\ credited \in SUBSET Campaigns
        /\ MessageFits(message) /\ RowFits(suppression) /\ MemberFits(member)
        /\ RequestFits(request)
    BY <1>1, EventTypes
  <2>. QED
    BY <1>4, <1>5, <2>1, TypesNext
<1>7. SuppressionInv'
  BY <1>1, <1>4, <1>5, RowCalmKeeps DEF RowCalm
<1>8. StruckOff'
  BY <1>1, <1>4, <1>5, MemberCalmKeeps DEF MemberCalm
<1>9. HookAgrees' /\ NoneEarly'
  BY <1>1, <1>5 DEF HookAgrees, NoneEarly, EventsInv
<1>10. LateHandler'
  BY <1>1, <1>3, <1>4, <1>5 DEF LateHandler, EventsInv
<1>11. LateAlone'
  BY <1>1, <1>3, <1>4, <1>5 DEF LateAlone, EventsInv
<1>. QED
  BY <1>6, <1>7, <1>8, <1>9, <1>10, <1>11 DEF EventIInv, EventsInv

-----------------------------------------------------------------------------
(* The links and the administrator.                                        *)

\* What a request leaves alone.
Apart == UNCHANGED <<scene, message, sentEmail, recorded, hooked, repeats>>

\* A request keeps the invariant if it keeps the types and is calm.
LEMMA CalmKeeps ==
    ASSUME EventIInv, Apart, RowFits(suppression'), MemberFits(member'), RequestFits(request'),
           HistFits(history'), credited' \in SUBSET Campaigns, history'.inTime = history.inTime,
           SuppressionInv', StruckOff'
    PROVE  EventIInv'
<1>1. /\ scene \in Scenes /\ repeats \in 0..MaxRepeats /\ sentEmail \in BOOLEAN
      /\ recorded \in [Events -> {"no", "alone", "matched"}]
      /\ hooked \in SUBSET Events /\ MessageFits(message)
  BY EventTypes DEF EventIInv
<1>2. EventTypeOK'
  BY <1>1, TypesNext DEF Apart
<1>3. EventsInv'
  BY EventsCalmKeeps DEF Apart, EventsCalm, EventIInv
<1>. QED
  BY <1>2, <1>3 DEF EventIInv

\* Where a request gets to.
LEMMA RequestMoves ==
    ASSUME RequestFits(request), NEW r \in Requests, NEW to \in {"read", "over"},
           NEW operation \in Operations, NEW campaign \in Campaigns \cup {"none"}, NEW seen \in Nat
    PROVE  /\ RequestFits([request EXCEPT ![r].at = to])
           /\ RequestFits([request EXCEPT ![r].at = to, ![r].operation = operation])
           /\ RequestFits([request EXCEPT ![r].at = to, ![r].operation = operation,
                                          ![r].campaign = campaign])
           /\ RequestFits([request EXCEPT ![r].at = to, ![r].operation = operation,
                                          ![r].seen = seen])
<1> DEFINE first == [request EXCEPT ![r].at = to]
<1>1. operation \in Operations \cup {"none"}
  OBVIOUS
<1>2. RequestFits(first)
  BY DEF RequestFits
<1>3. RequestFits([request EXCEPT ![r].at = to, ![r].operation = operation])
  BY <1>1 DEF RequestFits
<1>4. RequestFits([request EXCEPT ![r].at = to, ![r].operation = operation, ![r].campaign = campaign])
  BY <1>1 DEF RequestFits
<1>5. RequestFits([request EXCEPT ![r].at = to, ![r].operation = operation, ![r].seen = seen])
  BY <1>1 DEF RequestFits
<1>. QED
  BY <1>2, <1>3, <1>4, <1>5

\* A link or an administrator inserts a row: nothing if there is one.
LEMMA EventInsertStep ==
    ASSUME EventIInv, Apart, NEW r \in Requests, NEW reason \in {"unsubscribe", "manual"},
           NEW operation \in Operations,
           suppression' = InsertOrKeep(reason),
           history' = [history EXCEPT !.ids = IF suppression'.id > @ THEN suppression'.id ELSE @],
           request' = [request EXCEPT ![r].at = "over", ![r].operation = operation],
           UNCHANGED <<member, credited>>
    PROVE  EventIInv'
<1>1. /\ EventTypeOK /\ SuppressionInv /\ StruckOff
      /\ HistFits(history) /\ RequestFits(request) /\ MemberFits(member) /\ credited \in SUBSET Campaigns
  BY EventTypes DEF EventIInv
<1>2. /\ RowFits(suppression')
      /\ suppression'.reason = IF Suppressed THEN suppression.reason ELSE reason
  BY <1>1, InsertFits DEF Reasons
<1>3. PICK ids \in Nat : history' = [history EXCEPT !.ids = ids]
  <2>1. suppression'.id \in Nat /\ history.ids \in Nat
    BY <1>1, <1>2 DEF RowFits, HistFits
  <2>2. history' = [history EXCEPT
                      !.ids = IF suppression'.id > history.ids THEN suppression'.id ELSE history.ids]
    OBVIOUS
  <2>. QED
    BY <2>1, <2>2
<1>4. /\ HistFits(history')
      /\ history'.decided = history.decided /\ history'.masked = history.masked
      /\ history'.struck = history.struck /\ history'.missed = history.missed
      /\ history'.inTime = history.inTime
  BY <1>1, <1>3 DEF HistFits
<1>5. RequestFits(request')
  BY <1>1, RequestMoves
<1>6. SuppressionInv'
  <2>1. RowCalm
    BY <1>2, <1>4 DEF RowCalm, Apart, Suppressed, Firm
  <2>. QED
    BY <1>1, <2>1, RowCalmKeeps
<1>7. StruckOff'
  BY <1>1, <1>4, MemberCalmKeeps DEF MemberCalm
<1>. QED
  BY <1>1, <1>2, <1>4, <1>5, <1>6, <1>7, CalmKeeps

\* The unsubscribe link.
LEMMA LeaveStep ==
    ASSUME EventIInv, Apart, NEW r \in Requests, Leave(r)
    PROVE  EventIInv'
<1>1. /\ suppression' = InsertOrKeep("unsubscribe")
      /\ history' = [history EXCEPT !.ids = IF suppression'.id > @ THEN suppression'.id ELSE @]
      /\ request' = [request EXCEPT ![r].at = "over", ![r].operation = "leave"]
      /\ UNCHANGED <<member, credited>>
  BY DEF Leave
<1>2. "leave" \in Operations
  BY DEF Operations
<1>. QED
  BY <1>1, <1>2, EventInsertStep

\* The administrator's suppression.
LEMMA SuppressStep ==
    ASSUME EventIInv, Apart, NEW r \in Requests, Suppress(r)
    PROVE  EventIInv'
<1>1. /\ suppression' = InsertOrKeep("manual")
      /\ history' = [history EXCEPT !.ids = IF suppression'.id > @ THEN suppression'.id ELSE @]
      /\ request' = [request EXCEPT ![r].at = "over", ![r].operation = "suppress"]
      /\ UNCHANGED <<member, credited>>
  BY DEF Suppress
<1>2. "suppress" \in Operations
  BY DEF Operations
<1>. QED
  BY <1>1, <1>2, EventInsertStep

\* No row is a row that fits.
LEMMA NoRowFits == RowFits(NoSuppression) /\ NoSuppression.reason = "none"
BY DEF RowFits, NoSuppression

\* The undo of the unsubscribe link: the row it takes is no decision's.
LEMMA ReturnStep ==
    ASSUME EventIInv, Apart, NEW r \in Requests, Return(r)
    PROVE  EventIInv'
<1>1. /\ SuppressionInv /\ StruckOff /\ RowFits(suppression)
      /\ HistFits(history) /\ RequestFits(request) /\ MemberFits(member) /\ credited \in SUBSET Campaigns
  BY EventTypes DEF EventIInv
<1>2. /\ suppression' = IF LinkMade THEN NoSuppression ELSE suppression
      /\ request' = [request EXCEPT ![r].at = "over", ![r].operation = "return"]
      /\ UNCHANGED <<member, credited, history>>
  BY DEF Return
<1>3. RowFits(suppression')
  BY <1>1, <1>2, NoRowFits
<1>4. SuppressionInv'
  <2>1. RowCalm
    BY <1>2, NoRowFits DEF RowCalm, Apart, LinkMade, Firm
  <2>. QED
    BY <1>1, <2>1, RowCalmKeeps
<1>5. StruckOff'
  BY <1>1, <1>2, MemberCalmKeeps DEF MemberCalm
<1>6. RequestFits(request')
  BY <1>1, <1>2, RequestMoves DEF Operations
<1>. QED
  BY <1>1, <1>2, <1>3, <1>4, <1>5, <1>6, CalmKeeps

\* A request that has only read, or that ends on what it has read.
LEMMA ReadStep ==
    ASSUME EventIInv, Apart, RequestFits(request'), UNCHANGED <<suppression, member, credited, history>>
    PROVE  EventIInv'
<1>1. /\ SuppressionInv /\ StruckOff /\ RowFits(suppression)
      /\ HistFits(history) /\ MemberFits(member) /\ credited \in SUBSET Campaigns
  BY EventTypes DEF EventIInv
<1>2. SuppressionInv'
  BY <1>1, RowCalmKeeps DEF RowCalm, Apart
<1>3. StruckOff'
  BY <1>1, MemberCalmKeeps DEF MemberCalm
<1>. QED
  BY <1>1, <1>2, <1>3, CalmKeeps

\* The administrator sees the row.
LEMMA ReadSuppressionStep ==
    ASSUME EventIInv, Apart, NEW r \in Requests, ReadSuppression(r)
    PROVE  EventIInv'
<1>1. RequestFits(request) /\ suppression.id \in Nat
  BY EventTypes DEF EventIInv, RowFits
<1>2. request' = [request EXCEPT ![r].at = "read", ![r].operation = "unsuppress",
                                 ![r].seen = suppression.id]
  BY DEF ReadSuppression
<1>3. RequestFits(request')
  BY <1>1, <1>2, RequestMoves DEF Operations
<1>. QED
  BY <1>3, ReadStep DEF ReadSuppression

\* The administrator takes it back: no decision is left to stand.
LEMMA UnsuppressStep ==
    ASSUME EventIInv, Apart, NEW r \in Requests, Unsuppress(r)
    PROVE  EventIInv'
<1>1. /\ SuppressionInv /\ StruckOff /\ RowFits(suppression)
      /\ HistFits(history) /\ RequestFits(request) /\ MemberFits(member) /\ credited \in SUBSET Campaigns
  BY EventTypes DEF EventIInv
<1>2. RequestFits(request')
  <2>1. request' = [request EXCEPT ![r].at = "over"]
    BY DEF Unsuppress
  <2>. QED
    BY <1>1, <2>1 DEF RequestFits
<1>3. CASE suppression.id = request[r].seen
  <2>1. /\ suppression' = NoSuppression
        /\ history' = [history EXCEPT !.decided = {}, !.masked = {}]
        /\ UNCHANGED <<member, credited>>
    BY <1>3 DEF Unsuppress
  <2>2. /\ HistFits(history') /\ history'.decided = {}
        /\ history'.struck = history.struck /\ history'.missed = history.missed
        /\ history'.inTime = history.inTime
    BY <1>1, <2>1 DEF HistFits
  <2>3. RowFits(suppression') /\ suppression'.reason = "none"
    BY <2>1, NoRowFits
  <2>4. SuppressionInv'
    BY <2>2, <2>3 DEF SuppressionInv, DecisionsFirm, ProviderCaused, WindowFirm, WindowCaused
  <2>5. StruckOff'
    BY <1>1, <2>1, <2>2, MemberCalmKeeps DEF MemberCalm
  <2>. QED
    BY <1>1, <1>2, <2>1, <2>2, <2>3, <2>4, <2>5, CalmKeeps
<1>4. CASE suppression.id # request[r].seen
  <2>1. UNCHANGED <<suppression, member, credited, history>>
    BY <1>4 DEF Unsuppress
  <2>. QED
    BY <1>2, <2>1, ReadStep
<1>. QED
  BY <1>3, <1>4

\* A request or a day that changes the membership and no more: it keeps the
\* invariant if what the provider ended stays ended.
LEMMA MemberStep ==
    ASSUME EventIInv, Apart, RequestFits(request'), MemberFits(member'), credited' \in SUBSET Campaigns,
           UNCHANGED <<suppression, history>>,
           \/ member'.status = member.status /\ member'.reason = member.reason
           \/ member.reason \notin {"hard_bounce", "complaint"}
    PROVE  EventIInv'
<1>1. SuppressionInv /\ StruckOff /\ RowFits(suppression) /\ HistFits(history)
  BY EventTypes DEF EventIInv
<1>2. SuppressionInv'
  BY <1>1, RowCalmKeeps DEF RowCalm, Apart
<1>3. StruckOff'
  BY <1>1, MemberCalmKeeps DEF MemberCalm
<1>. QED
  BY <1>1, <1>2, <1>3, CalmKeeps

\* The memberships that requests make.
LEMMA MembersFit ==
    /\ MemberFits(Subscribed)
    /\ \A reason \in LeaveReasons : MemberFits(Left(reason))
BY BoundAssumption DEF MemberFits, Subscribed, Left, LeaveReasons

\* A campaign's link.
LEMMA LeaveListStep ==
    ASSUME EventIInv, Apart, NEW r \in Requests, NEW k \in Campaigns, LeaveList(r, k)
    PROVE  EventIInv'
<1>1. RequestFits(request) /\ MemberFits(member) /\ credited \in SUBSET Campaigns
  BY EventTypes DEF EventIInv
<1>2. /\ credited' = credited \cup {k}
      /\ member' = IF member.status = "subscribed" THEN Left("link") ELSE member
      /\ request' = [request EXCEPT ![r].at = "over", ![r].operation = "leaveList",
                                    ![r].campaign = k]
      /\ UNCHANGED <<suppression, history>>
  BY DEF LeaveList
<1>3. RequestFits(request')
  BY <1>1, <1>2, RequestMoves DEF Operations
<1>4. MemberFits(member')
  BY <1>1, <1>2, MembersFit DEF LeaveReasons
<1>5. \/ member'.status = member.status /\ member'.reason = member.reason
      \/ member.reason \notin {"hard_bounce", "complaint"}
  BY <1>1, <1>2 DEF MemberFits
<1>6. credited' \in SUBSET Campaigns
  BY <1>1, <1>2
<1>. QED
  BY <1>2, <1>3, <1>4, <1>5, <1>6, MemberStep

\* Its undo reads the membership.
LEMMA ReadMemberStep ==
    ASSUME EventIInv, Apart, NEW r \in Requests, NEW k \in Campaigns, ReadMember(r, k)
    PROVE  EventIInv'
<1>1. RequestFits(request)
  BY EventTypes DEF EventIInv
<1>2. PICK to \in {"read", "over"} :
         to = IF member.status = "unsubscribed" /\ member.age <= UndoWindow THEN "read" ELSE "over"
  BY Zenon
<1>3. request' = [request EXCEPT ![r].at = to, ![r].operation = "returnToList", ![r].campaign = k]
  BY <1>2 DEF ReadMember
<1>4. RequestFits(request')
  BY <1>1, <1>3, RequestMoves DEF Operations
<1>. QED
  BY <1>4, ReadStep DEF ReadMember

\* It restores what the provider has not ended, whatever it read.
LEMMA RestoreMemberStep ==
    ASSUME EventIInv, Apart, NEW r \in Requests, RestoreMember(r)
    PROVE  EventIInv'
<1>1. RequestFits(request) /\ MemberFits(member) /\ credited \in SUBSET Campaigns
  BY EventTypes DEF EventIInv
<1>2. /\ credited' = CreditAfterUndo(request[r].campaign)
      /\ member' = IF NotProviderRemoved THEN Subscribed ELSE member
      /\ request' = [request EXCEPT ![r].at = "over"]
      /\ UNCHANGED <<suppression, history>>
  BY DEF RestoreMember
<1>3. RequestFits(request')
  BY <1>1, <1>2 DEF RequestFits
<1>4. MemberFits(member')
  BY <1>1, <1>2, MembersFit
<1>5. credited' \in SUBSET Campaigns
  BY <1>1, <1>2 DEF CreditAfterUndo
<1>6. \/ member'.status = member.status /\ member'.reason = member.reason
      \/ member.reason \notin {"hard_bounce", "complaint"}
  BY <1>2 DEF NotProviderRemoved
<1>. QED
  BY <1>2, <1>3, <1>4, <1>5, <1>6, MemberStep

\* The administrator reads the membership.
LEMMA ReadForAddStep ==
    ASSUME EventIInv, Apart, NEW r \in Requests, ReadForAdd(r)
    PROVE  EventIInv'
<1>1. RequestFits(request)
  BY EventTypes DEF EventIInv
<1>2. PICK to \in {"read", "over"} :
         to = IF member.status = "subscribed" THEN "over" ELSE "read"
  BY Zenon
<1>3. request' = [request EXCEPT ![r].at = to, ![r].operation = "addMember"]
  BY <1>2 DEF ReadForAdd
<1>4. RequestFits(request')
  BY <1>1, <1>3, RequestMoves DEF Operations
<1>. QED
  BY <1>4, ReadStep DEF ReadForAdd

\* The administrator puts the address back: nothing the provider ended is
\* held against it any more.
LEMMA AddMemberStep ==
    ASSUME EventIInv, Apart, NEW r \in Requests, AddMember(r)
    PROVE  EventIInv'
<1>1. /\ SuppressionInv /\ RowFits(suppression)
      /\ HistFits(history) /\ RequestFits(request) /\ credited \in SUBSET Campaigns
  BY EventTypes DEF EventIInv
<1>2. /\ member' = Subscribed
      /\ history' = [history EXCEPT !.struck = {}, !.missed = {}]
      /\ request' = [request EXCEPT ![r].at = "over"]
      /\ UNCHANGED <<suppression, credited>>
  BY DEF AddMember, Rejoined
<1>3. /\ HistFits(history') /\ history'.struck = {}
      /\ history'.decided = history.decided /\ history'.masked = history.masked
      /\ history'.inTime = history.inTime
  BY <1>1, <1>2 DEF HistFits
<1>4. RequestFits(request') /\ MemberFits(member')
  BY <1>1, <1>2, MembersFit DEF RequestFits
<1>5. SuppressionInv'
  BY <1>1, <1>2, <1>3, RowCalmKeeps DEF RowCalm, Apart
<1>6. StruckOff'
  BY <1>3 DEF StruckOff
<1>. QED
  BY <1>1, <1>2, <1>3, <1>4, <1>5, <1>6, CalmKeeps

\* The administrator takes it off.
LEMMA RemoveMemberStep ==
    ASSUME EventIInv, Apart, NEW r \in Requests, RemoveMember(r)
    PROVE  EventIInv'
<1>1. RequestFits(request) /\ MemberFits(member) /\ credited \in SUBSET Campaigns
  BY EventTypes DEF EventIInv
<1>2. /\ member' = IF member.status = "subscribed" THEN Left("none") ELSE member
      /\ request' = [request EXCEPT ![r].at = "over", ![r].operation = "removeMember"]
      /\ UNCHANGED <<suppression, credited, history>>
  BY DEF RemoveMember
<1>3. RequestFits(request')
  BY <1>1, <1>2, RequestMoves DEF Operations
<1>4. MemberFits(member')
  BY <1>1, <1>2, MembersFit DEF LeaveReasons
<1>5. \/ member'.status = member.status /\ member'.reason = member.reason
      \/ member.reason \notin {"hard_bounce", "complaint"}
  BY <1>1, <1>2 DEF MemberFits
<1>. QED
  BY <1>1, <1>2, <1>3, <1>4, <1>5, MemberStep

\* A day passes.
LEMMA TickStep ==
    ASSUME EventIInv, Tick
    PROVE  EventIInv'
<1>1. RequestFits(request) /\ MemberFits(member) /\ credited \in SUBSET Campaigns
  BY EventTypes DEF EventIInv
<1>2. /\ member' = [member EXCEPT !.age = member.age + 1] /\ member.age <= UndoWindow
      /\ UNCHANGED <<suppression, credited, request, history>> /\ Apart
  BY DEF Tick, Apart
<1>3. /\ MemberFits(member')
      /\ member'.status = member.status /\ member'.reason = member.reason
  BY <1>1, <1>2, BoundAssumption DEF MemberFits
<1>. QED
  BY <1>1, <1>2, <1>3, MemberStep

\* A request's step keeps the invariant.
LEMMA AskStep ==
    ASSUME EventIInv, NEW r \in Requests, Ask(r)
    PROVE  EventIInv'
<1>1. Apart
  BY DEF Ask, Apart
<1>2. CASE Leave(r)
  BY <1>1, <1>2, LeaveStep
<1>3. CASE Return(r)
  BY <1>1, <1>3, ReturnStep
<1>4. CASE \E k \in Campaigns : LeaveList(r, k)
  BY <1>1, <1>4, LeaveListStep
<1>5. CASE \E k \in Campaigns : ReadMember(r, k)
  BY <1>1, <1>5, ReadMemberStep
<1>6. CASE RestoreMember(r)
  BY <1>1, <1>6, RestoreMemberStep
<1>7. CASE Suppress(r)
  BY <1>1, <1>7, SuppressStep
<1>8. CASE ReadSuppression(r)
  BY <1>1, <1>8, ReadSuppressionStep
<1>9. CASE Unsuppress(r)
  BY <1>1, <1>9, UnsuppressStep
<1>10. CASE ReadForAdd(r)
  BY <1>1, <1>10, ReadForAddStep
<1>11. CASE AddMember(r)
  BY <1>1, <1>11, AddMemberStep
<1>12. CASE RemoveMember(r)
  BY <1>1, <1>12, RemoveMemberStep
<1>. QED
  BY <1>2, <1>3, <1>4, <1>5, <1>6, <1>7, <1>8, <1>9, <1>10, <1>11, <1>12, Zenon DEF Ask

-----------------------------------------------------------------------------
(* The theorems.                                                           *)

\* The invariant holds at first: nothing is recorded and nothing decided.
LEMMA IInvInit == EventInit => EventIInv
<1> SUFFICES ASSUME EventInit PROVE EventIInv
  OBVIOUS
<1>1. /\ history = [decided |-> {}, masked |-> {}, struck |-> {}, missed |-> {},
                 inTime |-> IF sentEmail THEN Events ELSE {}, ids |-> 0]
      /\ recorded = [e \in Events |-> "no"] /\ hooked = {} /\ suppression = NoSuppression
      /\ message = [m \in Messages |->
                      [at |-> IF m \in scene.messages THEN "waiting" ELSE "over",
                       tries |-> 0, found |-> FALSE]]
  BY DEF EventInit
<1>2. scene \in Scenes /\ sentEmail \in BOOLEAN /\ repeats \in 0..MaxRepeats
  <2>1. scene \in [messages : SUBSET Messages, sent : SUBSET BOOLEAN,
                   operations : SUBSET Operations, requests : SUBSET Requests]
    BY SceneAssumption DEF EventInit
  <2>. QED
    BY <2>1, BoundAssumption DEF EventInit
<1>3. MessageFits(message) /\ \A m \in Messages : message[m].at # "record"
  BY <1>1 DEF MessageFits
<1>4. MemberFits(member) /\ credited \in SUBSET Campaigns
  BY MembersFit DEF EventInit, LeaveReasons
<1>5. RequestFits(request)
  <2>1. request = [r \in Requests |-> Ready]
    BY DEF EventInit
  <2>. QED
    BY <2>1 DEF RequestFits, Ready
<1>6. /\ HistFits(history) /\ history.decided = {} /\ history.struck = {}
      /\ ~sentEmail => history.inTime = {}
  BY <1>1, <1>2 DEF HistFits
<1>7. RowFits(suppression) /\ suppression.reason = "none"
  BY <1>1, NoRowFits
<1>8. recorded \in [Events -> {"no", "alone", "matched"}] /\ \A e \in Events : recorded[e] = "no"
  BY <1>1
<1>9. EventTypeOK
  BY <1>1, <1>2, <1>3, <1>4, <1>5, <1>6, <1>7, <1>8, EventTypes
<1>10. SuppressionInv
  BY <1>6, <1>7 DEF SuppressionInv, DecisionsFirm, ProviderCaused, WindowFirm, WindowCaused
<1>11. StruckOff
  BY <1>6 DEF StruckOff
<1>12. EventsInv
  BY <1>1, <1>3, <1>6, <1>8 DEF EventsInv, HookAgrees, NoneEarly, LateHandler, LateAlone
<1>. QED
  BY <1>9, <1>10, <1>11, <1>12 DEF EventIInv

\* Nothing changes, nothing is lost.
LEMMA StutterStep ==
    ASSUME EventIInv, UNCHANGED eventVars
    PROVE  EventIInv'
<1>1. RequestFits(request) /\ Apart /\ request' = request
      /\ UNCHANGED <<suppression, member, credited, history>>
  BY EventTypes DEF EventIInv, eventVars, Apart
<1>. QED
  BY <1>1, ReadStep

\* Every step keeps it.
LEMMA IInvStep == EventIInv /\ [EventNext]_eventVars => EventIInv'
<1> SUFFICES ASSUME EventIInv, [EventNext]_eventVars PROVE EventIInv'
  OBVIOUS
<1>1. ASSUME NEW m \in Messages, Deliver(m) PROVE EventIInv'
  BY <1>1, DeliverStep
<1>2. ASSUME NEW m \in Messages, Correlate(m) PROVE EventIInv'
  BY <1>2, CorrelateStep
<1>3. ASSUME NEW m \in Messages, DelayEnds(m) PROVE EventIInv'
  BY <1>3, RipenStep
<1>4. ASSUME NEW m \in Messages, RecordEvent(m) PROVE EventIInv'
  BY <1>4, RecordStep
<1>5. ASSUME NEW m \in Messages, Redeliver(m) PROVE EventIInv'
  BY <1>5, RedeliverStep
<1>6. CASE InsertSent
  BY <1>6, InsertSentStep
<1>7. ASSUME NEW r \in Requests, Ask(r) PROVE EventIInv'
  BY <1>7, AskStep
<1>8. CASE Tick
  BY <1>8, TickStep
<1>9. CASE UNCHANGED eventVars
  BY <1>9, StutterStep
<1>. QED
  BY <1>1, <1>2, <1>3, <1>4, <1>5, <1>6, <1>7, <1>8, <1>9, Zenon DEF EventNext, Handle

\* The invariant holds in every state: for any events, messages, requests,
\* threshold, windows and repeats.
THEOREM EventInvariant == EventSpec => []EventIInv
BY IInvInit, IInvStep, PTL DEF EventSpec

\* The suppression of an address is the provider's exactly while it should be:
\* decisions stand until an administrator takes them back, each of them has its
\* event, and soft bounces count by when they occurred, in whatever order the
\* queue brings them (recordDeliveryEvent and its softBounceSuppression).
THEOREM ProviderDecidesHolds == EventSpec => []ProviderDecides
<1>1. EventIInv => ProviderDecides
  <2> SUFFICES ASSUME EventIInv PROVE ProviderDecides
    OBVIOUS
  <2>1. EventTypeOK /\ DecisionsFirm /\ ProviderCaused /\ WindowFirm /\ WindowCaused
    BY DEF EventIInv, SuppressionInv
  <2>2. ProviderStands
    BY <2>1 DEF ProviderStands, DecisionsFirm, Firm, Suppressed
  <2>3. \A es : Full(es, recorded) <=>
           /\ es \in SUBSET SoftBounces(recorded)
           /\ Cardinality(es) >= SoftBounceThreshold
           /\ \A a, b \in es : OccurredAt[b] - OccurredAt[a] <= SoftBounceWindow
    BY DEF Full, Close
  <2>4. \A es : Full(es, recorded) => es \in SUBSET Events
    BY DEF Full, SoftBounces
  <2>5. suppression.reason = "soft_bounce" => \E es : Full(es, recorded)
    BY <2>1 DEF WindowCaused
  <2>6. \A es : Full(es, recorded) /\ es \cap history.decided # {} /\ es \cap history.masked = {} =>
           Suppressed
    BY <2>1, <2>4 DEF WindowFirm, Firm, Suppressed
  <2>7. SoftBouncesCounted
    BY <2>3, <2>5, <2>6 DEF SoftBouncesCounted
  <2>. QED
    BY <2>1, <2>2, <2>7 DEF ProviderDecides
<1>. QED
  BY <1>1, EventInvariant, PTL

\* A hard bounce or a complaint takes the address off its list until an
\* administrator puts it back: also against an undo link that has read the
\* membership before (undoListUnsubscribe's notProviderRemoved).
THEOREM OffTheListHolds == EventSpec => []OffTheList
<1>1. EventIInv => OffTheList
  BY DEF EventIInv, StruckOff, OffTheList
<1>. QED
  BY <1>1, EventInvariant, PTL

\* A webhook row exists exactly for the events recorded with their message, and
\* an event whose sent row came before its second attempt is recorded with it
\* (handleDeliveryEventMessage).
THEOREM EventsReachHolds == EventSpec => []EventsReach
<1>1. EventIInv => EventsReach
  BY DEF EventIInv, EventsInv, LateAlone, EventsReach, MatchedInTime, EventTypeOK
<1>. QED
  BY <1>1, EventInvariant, PTL

\* No step takes a campaign's credit and leaves the membership left: the two
\* statements of the undo's batch go by one condition.
THEOREM UndoIsWholeHolds == EventSpec => UndoIsWhole
<1>1. [EventNext]_eventVars => [credited \subseteq credited' \/ member'.status = "subscribed"]_eventVars
  <2> SUFFICES ASSUME EventNext
               PROVE  credited \subseteq credited' \/ member'.status = "subscribed"
    BY DEF eventVars
  <2>1. ASSUME NEW r \in Requests, Ask(r), credited' # credited
        PROVE  credited \subseteq credited' \/ member'.status = "subscribed"
    <3>1. CASE \E k \in Campaigns : LeaveList(r, k)
      BY <3>1 DEF LeaveList
    <3>2. CASE RestoreMember(r)
      <4>1. NotProviderRemoved
        BY <2>1, <3>2 DEF RestoreMember, CreditAfterUndo
      <4>. QED
        BY <3>2, <4>1 DEF RestoreMember, Subscribed
    <3>. QED
      BY <2>1, <3>1, <3>2 DEF Ask, Leave, Return, ReadMember, Suppress, ReadSuppression, Unsuppress,
         ReadForAdd, AddMember, RemoveMember
  <2>2. (\A r \in Requests : ~Ask(r)) => credited' = credited
    BY DEF EventNext, Handle, Deliver, Correlate, DelayEnds, RecordEvent, Redeliver, InsertSent, Tick
  <2>. QED
    BY <2>1, <2>2
<1>. QED
  BY <1>1, PTL DEF EventSpec, UndoIsWhole
=============================================================================
