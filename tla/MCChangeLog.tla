---------------------------- MODULE MCChangeLog ----------------------------
(***************************************************************************)
(* Values for ChangeLog: two ticks a day; a state is refused after one     *)
(* day, a row kept for two.                                                *)
(***************************************************************************)
EXTENDS ChangeLog

Scene(view, ids, w, n, g, e) ==
    [view |-> view, ids |-> ids, writes |-> w, now |-> n, grants |-> g, epoch |-> e]

MCScenes ==
    {Scene("email", {"received"}, 2, 5, 0, 0),
     Scene("email", {"received", "draft"}, 4, 0, 0, 0),
     Scene("email", {"draft", "sent"}, 5, 0, 0, 0),
     Scene("query", {"received", "draft"}, 4, 0, 0, 0),
     Scene("mailbox", {"received"}, 4, 0, 0, 0),
     Scene("email", {"received"}, 2, 1, 2, 1)}
=============================================================================
