--------------------------- MODULE DeliveryEvents ---------------------------
(***************************************************************************)
(* What a mail provider reports about one recipient's address (hard and    *)
(* soft bounces, spam complaints, refusals, failures) and what becomes of  *)
(* the address: its row of the suppression list, its membership of one     *)
(* newsletter list, the webhook rows of the events.  Reports come through  *)
(* the queue in any order, more than once, and before the sent_emails row  *)
(* they are about.  Meanwhile the recipient uses the unsubscribe links and *)
(* their undo, and an administrator edits both lists by hand.              *)
(*                                                                         *)
(* One action is one D1 statement or batch; a batch is one transaction.    *)
(***************************************************************************)
EXTENDS Integers, FiniteSets

CONSTANTS
    Events,       \* the provider's events about the address
    Kind,         \* Events -> KindType, what each reports
    OccurredAt,   \* Events -> Nat, when it occurred (occurredAt)
    Messages,     \* delivery_event messages of the queue
    About,        \* Messages -> Events; two messages may bear the same event
    Campaigns,    \* campaigns sent to the list; a v2 link names one
    Requests,     \* requests of the recipient and of administrators
    Scenes,       \* which messages and requests a behaviour may have
    SoftBounceThreshold,
    SoftBounceWindow,
    UndoWindow,   \* RESUBSCRIBE_UNDO_WINDOW_SECONDS
    MaxRepeats    \* bound of the model: handlers that die, messages delivered twice

KindType == {"hard", "soft", "complaint", "refused", "failed"}
Operations == {"leave", "return", "leaveList", "returnToList",
               "suppress", "unsuppress", "addMember", "removeMember"}

ASSUME EventAssumption ==
    /\ IsFiniteSet(Events)
    /\ Kind \in [Events -> KindType]
    /\ OccurredAt \in [Events -> Nat]
    /\ About \in [Messages -> Events]

ASSUME SceneAssumption ==
    Scenes \subseteq [messages : SUBSET Messages, sent : SUBSET BOOLEAN,
                      operations : SUBSET Operations, requests : SUBSET Requests]

ASSUME BoundAssumption ==
    /\ {SoftBounceThreshold, SoftBounceWindow, UndoWindow, MaxRepeats} \subseteq Nat
    /\ SoftBounceThreshold > 0

VARIABLES
    scene,
    message,      \* each queue message and the handler that has it
    sentEmail,    \* the sent_emails row of the message the events are about is there
    recorded,     \* delivery_events: "no" row, or its sent_email_id null or set
    hooked,       \* events with a webhook_deliveries row
    suppression,  \* the address's row of suppressions; id 0 without one
    member,       \* the address's list_members row
    credited,     \* campaign_unsubscribe_attributions of the membership
    request,      \* what each request is in the middle of
    history,      \* history: what the rows should still show
    repeats

eventVars == <<scene, message, sentEmail, recorded, hooked, suppression, member, credited,
               request, history, repeats>>

Reasons == {"unsubscribe", "manual", "hard_bounce", "soft_bounce", "complaint", "provider"}
LeaveReasons == {"none", "link", "hard_bounce", "complaint"}

NoSuppression == [id |-> 0, reason |-> "none"]
Subscribed == [status |-> "subscribed", reason |-> "none", age |-> 0]
Left(reason) == [status |-> "unsubscribed", reason |-> reason, age |-> 0]
Ready == [at |-> "new", operation |-> "none", campaign |-> "none", seen |-> 0]

(***************************************************************************)
(* message.at: waiting in the queue, held for its retry, with a handler    *)
(* before its read or its batch, or over.  message.tries is msg.attempts,  *)
(* up to 2: the code tells the first attempt from the others only.         *)
(*                                                                         *)
(* history: decided are the events recorded since an administrator last    *)
(* took the suppression back, masked those that met an unsubscribe row;    *)
(* struck and missed are the same for the membership; inTime are the       *)
(* events whose sent row came before their second attempt; ids the         *)
(* suppressions made.                                                      *)
(***************************************************************************)
EventTypeOK ==
    /\ scene \in Scenes
    /\ message \in [Messages -> [at : {"waiting", "held", "read", "record", "over"},
                                 tries : 0..2, found : BOOLEAN]]
    /\ sentEmail \in BOOLEAN
    /\ recorded \in [Events -> {"no", "alone", "matched"}]
    /\ hooked \in SUBSET Events
    /\ suppression \in [id : Nat, reason : Reasons \cup {"none"}]
    /\ (suppression.id = 0) = (suppression.reason = "none")
    /\ member \in [status : {"subscribed", "unsubscribed"}, reason : LeaveReasons,
                   age : 0..UndoWindow + 1]
    /\ member.status = "subscribed" => member.reason = "none"
    /\ credited \in SUBSET Campaigns
    /\ request \in [Requests -> [at : {"new", "read", "over"}, operation : Operations \cup {"none"},
                                 campaign : Campaigns \cup {"none"}, seen : Nat]]
    /\ history \in [decided : SUBSET Events, masked : SUBSET Events,
                 struck : SUBSET Events, missed : SUBSET Events,
                 inTime : SUBSET Events,
                 ids : Nat]
    /\ repeats \in 0..MaxRepeats

ListOperations == {"leaveList", "returnToList", "addMember", "removeMember"}

\* The address is on the list, or has left it by a campaign's link.
EventInit ==
    /\ scene \in Scenes
    /\ message = [m \in Messages |->
                    [at |-> IF m \in scene.messages THEN "waiting" ELSE "over",
                     tries |-> 0, found |-> FALSE]]
    /\ sentEmail \in scene.sent
    /\ recorded = [e \in Events |-> "no"]
    /\ hooked = {}
    /\ suppression = NoSuppression
    /\ \/ member = Subscribed /\ credited = {}
       \/ /\ scene.operations \cap ListOperations # {}
          /\ member = Left("link")
          /\ \E k \in Campaigns : credited = {k}
    /\ request = [r \in Requests |-> Ready]
    /\ history = [decided |-> {}, masked |-> {}, struck |-> {}, missed |-> {},
               inTime |-> IF sentEmail THEN Events ELSE {}, ids |-> 0]
    /\ repeats = 0

(***************************************************************************)
(* The suppression row.  The address is unique in the table, so an insert  *)
(* finds at most one row to conflict with.                                 *)
(***************************************************************************)
Suppressed == suppression.reason # "none"
NextId == history.ids + 1
InsertOrKeep(reason) ==
    IF Suppressed THEN suppression ELSE [id |-> NextId, reason |-> reason]

\* A hard bounce replaces the reason of an existing row, which keeps its id.
HardBounce == [InsertOrKeep("hard_bounce") EXCEPT !.reason = "hard_bounce"]

(***************************************************************************)
(* recordDeliveryEvent.                                                    *)
(***************************************************************************)
SoftBounces(done) == {e \in Events : done[e] # "no" /\ Kind[e] = "soft"}

\* Faulty: the window must begin at the event that arrives.
OwnAnchors(e, done) == {a \in SoftBounces(done) : OccurredAt[a] = OccurredAt[e]}

\* The soft bounces a window that holds e may begin at.
Anchors(e, done) ==
    {a \in SoftBounces(done) : OccurredAt[a] \in OccurredAt[e] - SoftBounceWindow..OccurredAt[e]}

SoftBounceRule(e, done) ==
    \E a \in Anchors(e, done) :
        Cardinality({b \in SoftBounces(done) :
                        OccurredAt[b] \in OccurredAt[a]..OccurredAt[a] + SoftBounceWindow})
            >= SoftBounceThreshold

LeavesLists(e) == Kind[e] \in {"hard", "complaint"}

\* The guard of the statements before the event's row: it is not there.
NewEvent(e) == recorded[e] = "no"

\* The row of suppressions after the batch; done is delivery_events after it.
\* The soft-bounce statement asks whether the event's insert just added a row.
SuppressionAfter(e, done) ==
    CASE Kind[e] = "hard" /\ NewEvent(e) -> HardBounce
      [] Kind[e] = "complaint" /\ NewEvent(e) -> InsertOrKeep("complaint")
      [] Kind[e] = "refused" /\ NewEvent(e) -> InsertOrKeep("provider")
      [] Kind[e] = "soft" /\ recorded[e] = "no" /\ SoftBounceRule(e, done) ->
            InsertOrKeep("soft_bounce")
      [] OTHER -> suppression

\* Only a subscribed membership is changed: one that had left keeps its reason.
MemberAfter(e) ==
    IF LeavesLists(e) /\ NewEvent(e) /\ member.status = "subscribed"
    THEN Left(IF Kind[e] = "hard" THEN "hard_bounce" ELSE "complaint")
    ELSE member

\* Faulty: the webhook row of a repeated event is inserted too.
HookUnguarded(m) == message[m].found

\* Only a correlated event has a webhook row, under the guard of the others.
\* The endpoint is taken to want every kind of event.
Hook(m) == message[m].found /\ recorded[About[m]] = "no"

\* What the batch decides, for the history: the event itself calls for a
\* suppression, or it completes a window of soft bounces.
Decides(e, done) ==
    \/ Kind[e] \in {"hard", "complaint", "refused"}
    \/ Kind[e] = "soft" /\ SoftBounceRule(e, done)

Recorded(e, done) ==
    IF recorded[e] # "no" THEN history
    ELSE [history EXCEPT
            !.decided = @ \cup {e},
            !.masked = IF Decides(e, done) /\ suppression.reason = "unsubscribe" /\ Kind[e] # "hard"
                       THEN @ \cup {e} ELSE @,
            !.struck = IF LeavesLists(e) THEN @ \cup {e} ELSE @,
            !.missed = IF LeavesLists(e) /\ member.reason \in {"link", "none"}
                          /\ member.status = "unsubscribed"
                       THEN @ \cup {e} ELSE @,
            !.ids = IF suppression'.id > @ THEN suppression'.id ELSE @]

\* The batch of recordDeliveryEvent: the suppression, the lists, the webhook
\* row, the event's row, and for a soft bounce the suppression it completes.
\* Then the webhook's message is published, which WebhookDelivery's sweep makes
\* good if it is lost, and the event's is acknowledged.
RecordEvent(m) ==
    LET e == About[m]
        done == IF recorded[e] # "no" THEN recorded
                ELSE [recorded EXCEPT ![e] = IF message[m].found THEN "matched" ELSE "alone"]
    IN  /\ message[m].at = "record"
        /\ recorded' = done
        /\ suppression' = SuppressionAfter(e, done)
        /\ member' = MemberAfter(e)
        /\ hooked' = IF Hook(m) THEN hooked \cup {e} ELSE hooked
        /\ history' = Recorded(e, done)
        /\ message' = [message EXCEPT ![m].at = "over"]
        /\ UNCHANGED <<scene, sentEmail, credited, request, repeats>>

(***************************************************************************)
(* The delivery_event queue message.                                       *)
(***************************************************************************)
Deliver(m) ==
    /\ message[m].at = "waiting"
    /\ message' = [message EXCEPT ![m].at = "read",
                                  ![m].tries = IF @ = 2 THEN 2 ELSE @ + 1]
    /\ UNCHANGED <<scene, sentEmail, recorded, hooked, suppression, member, credited, request,
                   history, repeats>>

\* Faulty: an uncorrelated event waits however often it has.
WaitsAgain(m) == ~sentEmail

\* A first attempt that finds no sent row is retried in a minute, before it
\* has written anything.
Waits(m) == ~sentEmail /\ message[m].tries <= 1

\* correlateDeliveryEvent, and what the handler makes of it.
Correlate(m) ==
    /\ message[m].at = "read"
    /\ message' = [message EXCEPT ![m].at = IF Waits(m) THEN "held" ELSE "record",
                                  ![m].found = sentEmail]
    /\ UNCHANGED <<scene, sentEmail, recorded, hooked, suppression, member, credited, request,
                   history, repeats>>

\* The minute's delay of a retried message is over.
DelayEnds(m) ==
    /\ message[m].at = "held"
    /\ message' = [message EXCEPT ![m].at = "waiting"]
    /\ UNCHANGED <<scene, sentEmail, recorded, hooked, suppression, member, credited, request,
                   history, repeats>>

\* A handler stops or throws before its batch; or it does so after it, before
\* its ack, or the queue delivers an acknowledged message once more.
Redeliver(m) ==
    /\ repeats < MaxRepeats
    /\ \/ message[m].at \in {"read", "record"}
       \/ message[m].at = "over" /\ message[m].tries > 0
    /\ message' = [message EXCEPT ![m].at = "waiting"]
    /\ repeats' = repeats + 1
    /\ UNCHANGED <<scene, sentEmail, recorded, hooked, suppression, member, credited, request,
                   history>>

\* The sender of the message inserts its sent_emails row, after the provider's answer.
InsertSent ==
    /\ ~sentEmail
    /\ sentEmail' = TRUE
    /\ history' = [history EXCEPT !.inTime = {e \in Events : \A m \in Messages :
                                          About[m] = e => message[m].tries <= 1}]
    /\ UNCHANGED <<scene, message, recorded, hooked, suppression, member, credited, request,
                   repeats>>

(***************************************************************************)
(* The recipient's links.  A v1 token is about the address, a v2 token     *)
(* about one campaign and the membership of its list.                      *)
(***************************************************************************)
\* POST /api/unsubscribe, v1.  The read before the insert answers early; an
\* insert that finds a row changes nothing either.
Leave(r) ==
    /\ suppression' = InsertOrKeep("unsubscribe")
    /\ history' = [history EXCEPT !.ids = IF suppression'.id > @ THEN suppression'.id ELSE @]
    /\ request' = [request EXCEPT ![r].at = "over", ![r].operation = "leave"]
    /\ UNCHANGED <<member, credited>>

\* What the v1 undo deletes: the suppression a link made.
LinkMade == suppression.reason = "unsubscribe"

\* POST /api/unsubscribe/undo, v1.  The read after the delete is for its answer.
Return(r) ==
    /\ suppression' = IF LinkMade THEN NoSuppression ELSE suppression
    /\ request' = [request EXCEPT ![r].at = "over", ![r].operation = "return"]
    /\ UNCHANGED <<member, credited, history>>

\* applyListUnsubscribe: the campaign is credited whether or not its link is
\* the first; the membership is left alone when it has been left already.
LeaveList(r, k) ==
    /\ credited' = credited \cup {k}
    /\ member' = IF member.status = "subscribed" THEN Left("link") ELSE member
    /\ request' = [request EXCEPT ![r].at = "over", ![r].operation = "leaveList", ![r].campaign = k]
    /\ UNCHANGED <<suppression, history>>

\* undoListUnsubscribe, the read: a membership that is back, or was left too
\* long ago, ends the request.
ReadMember(r, k) ==
    /\ request' = [request EXCEPT
                     ![r].at = IF member.status = "unsubscribed" /\ member.age <= UndoWindow
                               THEN "read" ELSE "over",
                     ![r].operation = "returnToList", ![r].campaign = k]
    /\ UNCHANGED <<suppression, member, credited, history>>

\* Faulty: a link restores whatever it finds.
AnyRemoval == TRUE

\* notProviderRemoved, the condition of both statements of the undo.
NotProviderRemoved == member.reason \notin {"hard_bounce", "complaint"}

\* Faulty: the credit goes although the membership does not come back.
CreditDropped(k) == credited \ {k}

CreditAfterUndo(k) == IF NotProviderRemoved THEN credited \ {k} ELSE credited

\* undoListUnsubscribe, the batch.
RestoreMember(r) ==
    /\ request[r].at = "read" /\ request[r].operation = "returnToList"
    /\ credited' = CreditAfterUndo(request[r].campaign)
    /\ member' = IF NotProviderRemoved THEN Subscribed ELSE member
    /\ request' = [request EXCEPT ![r].at = "over"]
    /\ UNCHANGED <<suppression, history>>

(***************************************************************************)
(* The administrator's requests.                                           *)
(***************************************************************************)
\* POST /api/suppressions.  As for v1, a row that is there is left as it is.
Suppress(r) ==
    /\ suppression' = InsertOrKeep("manual")
    /\ history' = [history EXCEPT !.ids = IF suppression'.id > @ THEN suppression'.id ELSE @]
    /\ request' = [request EXCEPT ![r].at = "over", ![r].operation = "suppress"]
    /\ UNCHANGED <<member, credited>>

\* GET /api/suppressions: the page whose row the administrator then removes.
ReadSuppression(r) ==
    /\ Suppressed
    /\ request' = [request EXCEPT ![r].at = "read", ![r].operation = "unsuppress",
                                  ![r].seen = suppression.id]
    /\ UNCHANGED <<suppression, member, credited, history>>

\* DELETE /api/suppressions/{id}: the row by its id, whatever has become of
\* its reason; nothing if that row is gone.
Unsuppress(r) ==
    /\ request[r].at = "read" /\ request[r].operation = "unsuppress"
    /\ IF suppression.id = request[r].seen
       THEN /\ suppression' = NoSuppression
            /\ history' = [history EXCEPT !.decided = {}, !.masked = {}]
       ELSE UNCHANGED <<suppression, history>>
    /\ request' = [request EXCEPT ![r].at = "over"]
    /\ UNCHANGED <<member, credited>>

\* POST /api/lists/{id}/members for a known contact, the read.
ReadForAdd(r) ==
    /\ request' = [request EXCEPT ![r].at = IF member.status = "subscribed" THEN "over" ELSE "read",
                                  ![r].operation = "addMember"]
    /\ UNCHANGED <<suppression, member, credited, history>>

Rejoined == Subscribed

\* ... and the update.
AddMember(r) ==
    /\ request[r].at = "read" /\ request[r].operation = "addMember"
    /\ member' = Rejoined
    /\ history' = [history EXCEPT !.struck = {}, !.missed = {}]
    /\ request' = [request EXCEPT ![r].at = "over"]
    /\ UNCHANGED <<suppression, credited>>

\* DELETE /api/lists/{id}/members/{memberId}: sets no reason.
RemoveMember(r) ==
    /\ member' = IF member.status = "subscribed" THEN Left("none") ELSE member
    /\ request' = [request EXCEPT ![r].at = "over", ![r].operation = "removeMember"]
    /\ UNCHANGED <<suppression, credited, history>>

Starts(r, operation) ==
    r \in scene.requests /\ request[r].at = "new" /\ operation \in scene.operations

Ask(r) ==
    /\ \/ Starts(r, "leave") /\ Leave(r)
       \/ Starts(r, "return") /\ Return(r)
       \/ \E k \in Campaigns :
             \/ Starts(r, "leaveList") /\ LeaveList(r, k)
             \/ Starts(r, "returnToList") /\ ReadMember(r, k)
       \/ RestoreMember(r)
       \/ Starts(r, "suppress") /\ Suppress(r)
       \/ Starts(r, "unsuppress") /\ ReadSuppression(r)
       \/ Unsuppress(r)
       \/ Starts(r, "addMember") /\ ReadForAdd(r)
       \/ AddMember(r)
       \/ Starts(r, "removeMember") /\ RemoveMember(r)
    /\ UNCHANGED <<scene, message, sentEmail, recorded, hooked, repeats>>

\* A day passes; ages count from unsubscribed_at and matter to an undo to come.
Tick ==
    /\ \E r \in Requests : Starts(r, "returnToList")
    /\ member.status = "unsubscribed" /\ member.age <= UndoWindow
    /\ member' = [member EXCEPT !.age = @ + 1]
    /\ UNCHANGED <<scene, message, sentEmail, recorded, hooked, suppression, credited, request,
                   history, repeats>>

Handle(m) == Deliver(m) \/ Correlate(m) \/ DelayEnds(m) \/ RecordEvent(m)

EventNext ==
    \/ \E m \in Messages : Handle(m) \/ Redeliver(m)
    \/ InsertSent
    \/ \E r \in Requests : Ask(r)
    \/ Tick

EventSpec == EventInit /\ [][EventNext]_eventVars

\* The queue delivers while it has something to deliver, and handlers go on.
EventFairSpec == EventSpec /\ WF_eventVars(\E m \in Messages : Handle(m))

(***************************************************************************)
(* Properties.                                                             *)
(***************************************************************************)
\* A hard bounce, a complaint or a refusal keeps the address suppressed, a
\* hard bounce as such, until an administrator takes that row back: not an
\* undo link, not a later event, not a redelivered one.  The exception the code
\* makes is an event that finds an unsubscribe row: it leaves the row as it is,
\* and the undo link may delete it (record.ts, unsubscribe-router.ts).
ProviderStands ==
    \A e \in history.decided \ history.masked :
        /\ Kind[e] = "hard" => suppression.reason = "hard_bounce"
        /\ Kind[e] \in {"complaint", "refused"} => Suppressed

\* A suppression of the provider's has its event, recorded since an
\* administrator last took one back: a redelivery does not bring it back.
ProviderCaused ==
    LET Since(kind) == \E e \in history.decided : Kind[e] = kind
    IN  /\ suppression.reason = "hard_bounce" => Since("hard")
        /\ suppression.reason = "soft_bounce" => Since("soft")
        /\ suppression.reason = "complaint" => Since("complaint")
        /\ suppression.reason = "provider" => Since("refused")

\* Whatever the order in which soft bounces arrive, the address is suppressed
\* once the threshold of them lies within the window, and as soft_bounce only then.
SoftBouncesCounted ==
    LET Close(es) == \A a, b \in es : OccurredAt[b] - OccurredAt[a] <= SoftBounceWindow
        Full == {es \in SUBSET SoftBounces(recorded) :
                    Cardinality(es) >= SoftBounceThreshold /\ Close(es)}
    IN  /\ suppression.reason = "soft_bounce" => Full # {}
        /\ \A es \in Full : es \cap history.decided # {} /\ es \cap history.masked = {} => Suppressed

\* The suppression of an address is the provider's exactly while it should be.
ProviderDecides == EventTypeOK /\ ProviderStands /\ ProviderCaused /\ SoftBouncesCounted

\* A hard bounce or a complaint takes the address off the list for good: only
\* an administrator puts it back, also against an undo link that read the
\* membership before.  The exception the code makes is a membership that had
\* been left already, whose own reason stays.
OffTheList ==
    \A e \in history.struck \ history.missed : member.status = "unsubscribed"

\* A webhook row exists exactly for the events recorded with their sent message,
\* although two messages about one event may read the sent row differently.
HookAgrees == hooked = {e \in Events : recorded[e] = "matched"}

\* An event whose sent row came before its second attempt is attached to it.
MatchedInTime == \A e \in history.inTime : recorded[e] # "alone"

\* An event reaches its message, and the webhook just when it does.
EventsReach == HookAgrees /\ MatchedInTime

\* An undo is whole or nothing: a campaign loses its credit for an unsubscription
\* in the step that restores the membership.
UndoIsWhole == [][credited \subseteq credited' \/ member'.status = "subscribed"]_eventVars

\* Every event the provider reports is recorded, also when its message never
\* finds a sent row.
EventsRecorded == <>(\A m \in scene.messages : recorded[About[m]] # "no")
=============================================================================
