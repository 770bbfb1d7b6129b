----------------------------- MODULE ChangeLog -----------------------------
(***************************************************************************)
(* The JMAP change log and one client that follows it.  Database triggers  *)
(* write a row of jmap_changes with every write a client can see; a state  *)
(* string is a position of the log, the day it was issued and a            *)
(* fingerprint of who asks; Email/changes, Email/queryChanges and          *)
(* Mailbox/changes report the rows past a position, a push stream says     *)
(* that the position moved, and rows are pruned after 30 days.             *)
(*                                                                         *)
(* Two members share an inbox: the author of a draft and another one.  The *)
(* client is one member's (me), and keeps one thing up to date (view): the *)
(* Emails, the result of a query, or the Mailboxes' counts.  Each step of  *)
(* a request is one D1 statement, and other writes come between them; the  *)
(* objects of an answer are read in one step, as each is past its state.   *)
(***************************************************************************)
EXTENDS Integers, FiniteSets, FiniteSetsExt

CONSTANTS
    Author, Other,     \* the members of the inbox
    Scenes,            \* what the client keeps, and how much may happen in a behaviour
    PageSizes,         \* values of maxChanges
    DayLength,         \* ticks of a day (JMAP_STATE_DAY_SECONDS)
    Retention,         \* JMAP_CHANGE_RETENTION_SECONDS
    StateMaxAge,       \* JMAP_CHANGE_STATE_MAX_AGE_SECONDS
    WindowLimit,       \* JMAP_CHANGE_WINDOW_LIMIT
    PruneLimit         \* JMAP_CHANGE_PRUNE_LIMIT

Users == {Author, Other}
Nobody == "nobody"
ViewType == {"email", "query", "mailbox"}

\* The Emails: one received, a draft that keeps its id when it is filed into
\* Sent, and the Sent Email that a submission shows under an id of its own.
Ids == {"received", "draft", "sent"}

ASSUME UserAssumption == Author # Other /\ Nobody \notin Users

\* A scene bounds the writes, the ticks, the changes of the grant and of the
\* epoch, and says which Emails there are.
ASSUME SceneAssumption ==
    Scenes \subseteq [view : ViewType, ids : SUBSET Ids, writes : Nat, now : Nat,
                      grants : Nat, epoch : Nat]

ASSUME ClockAssumption ==
    /\ {DayLength, Retention, StateMaxAge, WindowLimit, PruneLimit} \subseteq Nat
    /\ PageSizes \subseteq Nat \ {0}
    /\ DayLength > 0
    /\ StateMaxAge + DayLength <= Retention

VARIABLES
    scene,
    me,           \* whose client it is
    now,
    store,        \* the rows of the Emails
    shown,        \* per id, the write that last changed what me sees; 0 if nothing
    writes,       \* writes so far
    log,          \* the rows of jmap_changes
    lastSeq,      \* the AUTOINCREMENT counter of seq
    granted,      \* me has the inbox
    grants, epoch,
    client,       \* the client: what it holds, its state
    request,      \* the client's request under way
    push          \* the client's event stream

logVars == <<scene, me, now, store, shown, writes, log, lastSeq, granted, grants, epoch,
          client, request, push>>

mail == <<store, shown, writes, log, lastSeq>>
account == <<granted, grants, epoch>>

NoState == [seq |-> 0, issuedAt |-> 0, fp |-> <<>>]
NoRequest == [step |-> "none", scope |-> FALSE, current |-> NoState,
              fetch |-> {}, created |-> {}, more |-> FALSE]
NoStream == [on |-> FALSE, scope |-> FALSE, last |-> NoState]

Fingerprints == Nat \X BOOLEAN
StateStrings == [seq : Nat, issuedAt : Nat, fp : Fingerprints \cup {<<>>}]

Ops == {"c", "u", "d"}
LogRowType == [seq : Nat \ {0}, id : Ids, owner : Users \cup {Nobody},
            exclude : Users \cup {Nobody}, op : Ops, at : Nat]

(***************************************************************************)
(* store.sent: no Sent row, one hidden while its submission's on-success   *)
(* step is pending, one filed under the draft's id, or one of its own id.  *)
(* store.used are the ids that were ever given: none is given twice.       *)
(* client.told: an event, or an answer with more to come, calls for a      *)
(* request.  client.ghosts is history: ids the client held when an answer  *)
(* passed over them as created and destroyed since.                        *)
(***************************************************************************)
LogTypeOK ==
    /\ scene \in Scenes /\ me \in Users
    /\ now \in Nat
    /\ store \in [received : BOOLEAN, draft : BOOLEAN,
                  sent : {"none", "hidden", "filed", "own"}, used : SUBSET Ids]
    /\ shown \in [Ids -> Nat] /\ writes \in Nat
    /\ log \subseteq LogRowType /\ lastSeq \in Nat
    /\ granted \in BOOLEAN /\ grants \in Nat /\ epoch \in Nat
    /\ client \in [held : [Ids -> Nat], state : StateStrings, told : BOOLEAN,
                   ghosts : SUBSET Ids]
    /\ request \in [step : {"none", "fingerprint", "rows", "objects"}, scope : BOOLEAN,
                    current : StateStrings, fetch : SUBSET Ids, created : SUBSET Ids, more : BOOLEAN]
    /\ push \in [on : BOOLEAN, scope : BOOLEAN, last : StateStrings]

LogInit ==
    /\ scene \in Scenes /\ me \in Users
    /\ now = 0
    /\ store = [received |-> FALSE, draft |-> FALSE, sent |-> "none", used |-> {}]
    /\ shown = [i \in Ids |-> 0] /\ writes = 0
    /\ log = {} /\ lastSeq = 0
    /\ granted = TRUE /\ grants = 0 /\ epoch = 0
    /\ client = [held |-> [i \in Ids |-> 0], state |-> NoState, told |-> FALSE, ghosts |-> {}]
    /\ request = NoRequest
    /\ push = NoStream

-----------------------------------------------------------------------------
(***************************************************************************)
(* The writers.  Write(s, touched, rows) is one transaction: it leaves the *)
(* rows s, changes the content of the ids touched (for those of users, if  *)
(* it is personal) and adds the log rows, in this order.                   *)
(***************************************************************************)
Row(id, op, owner, exclude) == [id |-> id, op |-> op, owner |-> owner, exclude |-> exclude]
Shared(id, op) == Row(id, op, Nobody, Nobody)
Personal(id, op, user) == Row(id, op, user, Nobody)

Visible(s, user, id) ==
    CASE id = "received" -> s.received
      [] id = "draft" -> s.sent = "filed" \/ (s.draft /\ user = Author)
      [] id = "sent" -> s.sent = "own"

\* Faulty: seq is a plain INTEGER PRIMARY KEY, so a pruned log numbers again.
NextSeqReused(n) == Max({r.seq : r \in log} \cup {0}) + n

\* The sequence number of the n-th row a transaction adds.
NextSeq(n) == lastSeq + n

Write(s, touched, users, rows) ==
    /\ writes < scene.writes
    /\ writes' = writes + 1
    /\ store' = s
    /\ shown' = [i \in Ids |-> IF ~Visible(s, me, i) THEN 0
                               ELSE IF i \in touched /\ me \in users THEN writes + 1
                               ELSE shown[i]]
    /\ log' = log \cup {[seq |-> NextSeq(n), id |-> rows[n].id, op |-> rows[n].op,
                         owner |-> rows[n].owner, exclude |-> rows[n].exclude, at |-> now] :
                        n \in DOMAIN rows}
    /\ lastSeq' = IF rows = <<>> THEN lastSeq ELSE NextSeq(Cardinality(DOMAIN rows))
    /\ UNCHANGED <<scene, me, now, account, client, request, push>>

\* jmap_emails_insert, jmap_emails_update (and the shared state and folders of
\* a message: mailbox_message_state, message_mailboxes), jmap_emails_delete.
Receive ==
    /\ "received" \in scene.ids \ store.used
    /\ Write([store EXCEPT !.received = TRUE, !.used = @ \cup {"received"}],
             {"received"}, Users, <<Shared("received", "c")>>)

UpdateReceived ==
    /\ store.received
    /\ Write(store, {"received"}, Users, <<Shared("received", "u")>>)

DeleteReceived ==
    /\ store.received
    /\ Write([store EXCEPT !.received = FALSE], {}, Users, <<Shared("received", "d")>>)

\* One member reads or flags the message (jmap_message_user_state_*).
MarkReceived(user) ==
    /\ store.received
    /\ Write(store, {"received"}, {user}, <<Personal("received", "u", user)>>)

\* jmap_drafts_insert, jmap_drafts_update, jmap_drafts_delete.
CreateDraft ==
    /\ "draft" \in scene.ids \ store.used
    /\ Write([store EXCEPT !.draft = TRUE, !.used = @ \cup {"draft"}],
             {"draft"}, Users, <<Personal("draft", "c", Author)>>)

UpdateDraft ==
    /\ store.draft
    /\ Write(store, {"draft"}, Users, <<Personal("draft", "u", Author)>>)

DestroyDraft ==
    /\ store.draft
    /\ Write([store EXCEPT !.draft = FALSE], {}, Users, <<Personal("draft", "d", Author)>>)

\* A submission writes its Sent row, hidden from JMAP until its on-success
\* step is applied: the trigger writes no row.
Submit ==
    /\ store.draft /\ store.sent = "none"
    /\ Write([store EXCEPT !.sent = "hidden"], {}, Users, <<>>)

\* aliasDraftToSent: the draft becomes the Sent Email under its own id.  For
\* its author it is updated, for the other members it is created.
AliasDraftToSent ==
    /\ store.draft /\ store.sent = "hidden"
    /\ Write([store EXCEPT !.draft = FALSE, !.sent = "filed"], {"draft"}, Users,
             <<Personal("draft", "u", Author), Row("draft", "c", Nobody, Author)>>)

\* revealSubmission: the Sent row shows under an id of its own.
RevealSubmission ==
    /\ store.sent = "hidden" /\ "sent" \in scene.ids \ store.used
    /\ Write([store EXCEPT !.sent = "own", !.used = @ \cup {"sent"}],
             {"sent"}, Users, <<Shared("sent", "c")>>)

\* Faulty: the destroy is written for the whole inbox, the author included.
RestoreCanceledShared ==
    /\ store.sent = "filed"
    /\ Write([store EXCEPT !.draft = TRUE, !.sent = "none"], {"draft"}, Users,
             <<Personal("draft", "u", Author), Row("draft", "d", Nobody, Nobody)>>)

\* restoreCanceledToDrafts: a canceled delayed send goes back to Drafts under
\* the same id; the other members saw a Sent Email that is gone.
RestoreCanceledToDrafts ==
    /\ store.sent = "filed"
    /\ Write([store EXCEPT !.draft = TRUE, !.sent = "none"], {"draft"}, Users,
             <<Personal("draft", "u", Author), Row("draft", "d", Nobody, Author)>>)

SentId == IF store.sent = "filed" THEN "draft" ELSE "sent"

\* jmap_sent_emails_update and jmap_sent_emails_delete, silent while hidden.
UpdateSent ==
    /\ store.sent # "none"
    /\ IF store.sent = "hidden" THEN Write(store, {}, Users, <<>>)
       ELSE Write(store, {SentId}, Users, <<Shared(SentId, "u")>>)

DeleteSent ==
    /\ store.sent # "none"
    /\ Write([store EXCEPT !.sent = "none"], {}, Users,
             IF store.sent = "hidden" THEN <<>> ELSE <<Shared(SentId, "d")>>)

Writer ==
    \/ Receive \/ UpdateReceived \/ DeleteReceived
    \/ \E user \in Users : MarkReceived(user)
    \/ CreateDraft \/ UpdateDraft \/ DestroyDraft
    \/ Submit \/ AliasDraftToSent \/ RevealSubmission \/ RestoreCanceledToDrafts
    \/ UpdateSent \/ DeleteSent

\* pruneJmapChanges: the oldest of the rows past their retention.
Expired(r) == r.at < now - Retention

PruneJmapChanges ==
    LET candidates == {r \in log : /\ Expired(r)
                                   /\ Cardinality({o \in log : o.seq < r.seq}) < PruneLimit} IN
    /\ candidates # {}
    /\ log' = log \ candidates
    /\ UNCHANGED <<scene, me, now, store, shown, writes, lastSeq, account, client, request, push>>

\* An administrator takes the inbox from me, or gives it back.
ChangeGrant ==
    /\ grants < scene.grants
    /\ grants' = grants + 1
    /\ granted' = ~granted
    /\ UNCHANGED <<scene, me, now, mail, epoch, client, request, push>>

\* bumpJmapEpoch, when the threads of an inbox have been computed anew.
BumpJmapEpoch ==
    /\ epoch < scene.epoch
    /\ epoch' = epoch + 1
    /\ UNCHANGED <<scene, me, now, mail, granted, grants, client, request, push>>

\* A request takes less than a tick.
LogTick ==
    /\ now < scene.now /\ request.step = "none"
    /\ now' = now + 1
    /\ UNCHANGED <<scene, me, mail, account, client, request, push>>
-----------------------------------------------------------------------------
(***************************************************************************)
(* States.  currentJmapState reads the head of the rows the caller may be  *)
(* told of (their inbox is not looked at when they are personal), then the *)
(* epoch; the inboxes of the fingerprint are those the request was given.  *)
(***************************************************************************)
Day == (now \div DayLength) * DayLength

Head(scope) == Max({r.seq : r \in {l \in log : l.owner = me \/ (scope /\ l.owner = Nobody)}}
                   \cup {0})

Fingerprint(scope) == <<epoch, scope>>

\* scopedChangesSql
ScopedRows(scope, since) ==
    {r \in log : /\ scope /\ r.seq > since
                 /\ r.owner = me \/ (r.owner = Nobody /\ r.exclude # me)}

\* validateSinceState, once the current state has been read.
Refused(since, fp, scope) ==
    \/ since.fp # fp
    \/ since.issuedAt < now - StateMaxAge
    \/ Cardinality(ScopedRows(scope, since.seq)) > WindowLimit

\* What the client reads of an id.
Content(scope, i) ==
    IF ~scope \/ shown[i] = 0 THEN 0 ELSE IF scene.view = "query" THEN 1 ELSE shown[i]

-----------------------------------------------------------------------------
(***************************************************************************)
(* The client.  Without a state it reads everything (Email/get, Email/     *)
(* query, Mailbox/get); with one it asks what changed, whenever it is      *)
(* told.  Both read the current state before anything else.                *)
(***************************************************************************)
Start ==
    /\ request.step = "none"
    /\ client.state = NoState \/ client.told
    /\ request' = [NoRequest EXCEPT !.step = "fingerprint", !.scope = granted,
                     !.current = [seq |-> Head(granted), issuedAt |-> Day, fp |-> <<>>]]
    /\ client' = [client EXCEPT !.told = FALSE]
    /\ UNCHANGED <<scene, me, now, mail, account, push>>

ReadFingerprint ==
    LET fp == Fingerprint(request.scope)
        read == [request EXCEPT !.current.fp = fp] IN
    /\ request.step = "fingerprint"
    /\ \/ /\ client.state = NoState
          /\ request' = [read EXCEPT !.step = "objects", !.fetch = Ids]
          /\ UNCHANGED client
       \/ /\ client.state # NoState
          /\ Refused(client.state, fp, request.scope)   \* cannotCalculateChanges
          /\ request' = NoRequest
          /\ client' = [client EXCEPT !.state = NoState]
       \/ /\ client.state # NoState
          /\ ~Refused(client.state, fp, request.scope)
          /\ request' = [read EXCEPT !.step = "rows"]
          /\ UNCHANGED client
    /\ UNCHANGED <<scene, me, now, mail, account, push>>

\* loadGroupedChanges: the rows of one id, by their first and their last.
FirstOf(rows, i) == CHOOSE r \in rows : r.id = i /\ \A o \in rows : o.id = i => r.seq <= o.seq
LastOf(rows, i) == CHOOSE r \in rows : r.id = i /\ \A o \in rows : o.id = i => r.seq >= o.seq

\* classify
Skipped(rows, i) == FirstOf(rows, i).op = "c" /\ LastOf(rows, i).op = "d"
Created(rows, i) == FirstOf(rows, i).op = "c" /\ LastOf(rows, i).op # "d"
Destroyed(rows, i) == FirstOf(rows, i).op # "c" /\ LastOf(rows, i).op = "d"

\* The first ids of a page, in the order of their last rows.
Page(rows, size) ==
    LET ids == {r.id : r \in rows} IN
    {i \in ids : Cardinality({j \in ids : LastOf(rows, j).seq < LastOf(rows, i).seq}) < size}

\* emailChanges, in pages.  The client drops what was destroyed and then
\* fetches what was created or updated.
EmailChanges(rows) ==
    \E size \in PageSizes :
        LET page == Page(rows, size)
            more == page # {r.id : r \in rows}
            gone == {i \in page : Destroyed(rows, i)}
            over == {i \in page : Skipped(rows, i)} IN
        /\ request' = [request EXCEPT !.step = "objects", !.more = more,
                         !.fetch = page \ (gone \cup over),
                         !.current = IF more
                                     THEN [client.state EXCEPT
                                             !.seq = Max({LastOf(rows, i).seq : i \in page})]
                                     ELSE @]
        /\ client' = [client EXCEPT
                         !.held = [i \in Ids |-> IF i \in gone THEN 0 ELSE @[i]],
                         !.ghosts = @ \cup {i \in over : client.held[i] # 0}]

\* emailQueryChanges: the rows now, the current results next.
EmailQueryChanges(rows) ==
    LET ids == {r.id : r \in rows}
        over == {i \in ids : Skipped(rows, i)} IN
    /\ request' = [request EXCEPT !.step = "objects", !.fetch = ids \ over,
                     !.created = {i \in ids : Created(rows, i)}]
    /\ client' = [client EXCEPT !.ghosts = @ \cup {i \in over : client.held[i] # 0}]

\* mailboxChanges: any change to an inbox's Emails updates all its Mailboxes.
MailboxChanges(rows) ==
    /\ request' = [request EXCEPT !.step = "objects", !.fetch = IF rows = {} THEN {} ELSE Ids]
    /\ UNCHANGED client

ReadRows ==
    LET rows == ScopedRows(request.scope, client.state.seq) IN
    /\ request.step = "rows"
    /\ CASE scene.view = "email" -> EmailChanges(rows)
         [] scene.view = "query" -> EmailQueryChanges(rows)
         [] scene.view = "mailbox" -> MailboxChanges(rows)
    /\ UNCHANGED <<scene, me, now, mail, account, push>>

\* An id created since is in "added" if it is a result, never in "removed".
Updated(i) ==
    IF i \in request.created THEN Max({client.held[i], Content(request.scope, i)})
    ELSE Content(request.scope, i)

ReadObjects ==
    /\ request.step = "objects"
    /\ client' = [client EXCEPT
                    !.held = [i \in Ids |-> IF i \in request.fetch THEN Updated(i) ELSE @[i]],
                    !.ghosts = @ \ (request.fetch \ request.created),
                    !.state = request.current,
                    !.told = @ \/ request.more]
    /\ request' = NoRequest
    /\ UNCHANGED <<scene, me, now, mail, account, push>>

-----------------------------------------------------------------------------
(***************************************************************************)
(* The event stream (runPushLoop).  It reports its first state, and then   *)
(* every state that is not the last one; the inboxes and the epoch are     *)
(* read again before each event, and the stream ends if they changed.      *)
(***************************************************************************)
Tell(state) == client' = [client EXCEPT !.told = @ \/ state # client.state]

\* Faulty: an event stream reports only what changes after it was opened.
OpenStreamSilent ==
    /\ ~push.on
    /\ push' = [on |-> TRUE, scope |-> granted,
                last |-> [seq |-> Head(granted), issuedAt |-> Day, fp |-> Fingerprint(granted)]]
    /\ UNCHANGED <<scene, me, now, mail, account, client, request>>

OpenStream ==
    LET state == [seq |-> Head(granted), issuedAt |-> Day, fp |-> Fingerprint(granted)] IN
    /\ ~push.on
    /\ push' = [on |-> TRUE, scope |-> granted, last |-> state]
    /\ Tell(state)
    /\ UNCHANGED <<scene, me, now, mail, account, request>>

CheckStream ==
    LET state == [push.last EXCEPT !.seq = Head(push.scope), !.issuedAt = Day] IN
    /\ push.on /\ state # push.last
    /\ \/ /\ granted = push.scope /\ Fingerprint(granted) = push.last.fp
          /\ push' = [push EXCEPT !.last = state]
          /\ Tell(state)
       \/ /\ granted # push.scope \/ Fingerprint(granted) # push.last.fp
          /\ push' = NoStream
          /\ UNCHANGED client
    /\ UNCHANGED <<scene, me, now, mail, account, request>>

\* Its lifetime or its queries are over, or the client is gone.
EndStream ==
    /\ push.on
    /\ push' = NoStream
    /\ UNCHANGED <<scene, me, now, mail, account, client, request>>

Follow == Start \/ ReadFingerprint \/ ReadRows \/ ReadObjects

LogNext ==
    \/ Writer \/ PruneJmapChanges \/ ChangeGrant \/ BumpJmapEpoch \/ LogTick
    \/ Follow
    \/ OpenStream \/ CheckStream \/ EndStream

LogSpec == LogInit /\ [][LogNext]_logVars

\* The client answers an event and goes on with a request it began; a stream
\* ends with its lifetime at the latest, and the client opens it again after
\* the delay of "retry:".  That the loop of an open stream polls is not needed.
LogFairness == WF_logVars(Follow) /\ WF_logVars(OpenStream) /\ WF_logVars(EndStream)

LogFairSpec == LogSpec /\ LogFairness

-----------------------------------------------------------------------------
(***************************************************************************)
(* Properties.                                                             *)
(***************************************************************************)
Wrong(i) == client.held[i] # (IF granted THEN IF scene.view = "query" /\ shown[i] # 0 THEN 1
                                              ELSE shown[i]
                              ELSE 0)

\* A row past the client's position that concerns the client, of any id for
\* the Mailboxes and of this id for the rest.
StillReported(i) ==
    \E r \in log : /\ r.seq > client.state.seq
                   /\ r.owner = me \/ (r.owner = Nobody /\ r.exclude # me)
                   /\ scene.view = "mailbox" \/ r.id = i

\* The state names another grant or epoch, or is a day from its last day.
OutOfDate ==
    \/ client.state.fp # <<epoch, granted>>
    \/ client.state.issuedAt + StateMaxAge < now

\* Whatever the client holds wrongly is still ahead of it: its state is one
\* that is refused, so that it reads everything again, or the log still has
\* a row about it past its position.  So no write is lost between the read of
\* a state and that of the rows, at the end of a page, by pruning, by a grant
\* taken and given back, or by the silent writes that file a draft into Sent
\* and back.  The one exception are the ids the client was told of before its
\* own position and that were destroyed before it asked again.
NothingMissed ==
    /\ LogTypeOK
    /\ client.state # NoState /\ ~OutOfDate =>
           \A i \in Ids : Wrong(i) => StillReported(i) \/ i \in client.ghosts

\* The comment of emailQueryChanges, and docs/jmap.md: a write that lands
\* while the answer is being assembled "is never missed".
NeverMissed == client.ghosts = {}

\* An answer that says an Email is destroyed is right: at that moment the
\* client cannot see it.  So the author of a draft is never told that it is
\* gone when it is filed into Sent or taken back from there.
DestroyedIsGone ==
    [][request.step = "rows" /\ scene.view = "email" =>
          \A i \in Ids : client.held[i] # 0 /\ client'.held[i] = 0 =>
                            ~Visible(store, me, i)]_logVars

\* Once the writers and the administrator are done, the client holds what
\* there is and keeps it, though it only asks when it is told to, its stream
\* ends at any time, and its states grow too old or are refused.
CatchesUp ==
    <>[](/\ client.state # NoState
         /\ \A i \in Ids : ~Wrong(i) \/ i \in client.ghosts)
=============================================================================
