---------------------------- MODULE UndoableSend ----------------------------
(***************************************************************************)
(* What a submission promises its author, without its rows: a send that    *)
(* waits may be taken back, nothing leaves before it goes or after it was  *)
(* taken back, and it may wait again only when nothing of it can still     *)
(* leave.  Submission implements this specification.                       *)
(***************************************************************************)
VARIABLES
    fate,   \* where the send stands for its author
    armed,  \* something exists that may yet hand the message to the provider
    out     \* the provider has got the message

vars == <<fate, armed, out>>

Fates == {"none", "waiting", "canceled", "going", "final", "dropped"}

TypeOK == fate \in Fates /\ armed \in BOOLEAN /\ out \in BOOLEAN

Init == fate = "none" /\ armed = FALSE /\ out = FALSE

\* A message to be held waits, any other goes.
Accept ==
    /\ fate = "none"
    /\ fate' \in {"waiting", "going"}
    /\ UNCHANGED <<armed, out>>

\* The request itself fails: no send comes of it.
Reject ==
    /\ fate \in {"none", "waiting", "canceled"} /\ ~armed
    /\ fate' = "dropped"
    /\ UNCHANGED <<armed, out>>

\* Its author takes it back.
TakeBack == fate = "waiting" /\ fate' = "canceled" /\ UNCHANGED <<armed, out>>

Start == fate = "waiting" /\ fate' = "going" /\ UNCHANGED <<armed, out>>

\* A start that came to nothing: the send waits again, is taken back because
\* its message was deleted, or is dropped.
Undo ==
    /\ fate = "going" /\ ~armed
    /\ fate' \in {"waiting", "canceled", "dropped"}
    /\ UNCHANGED <<armed, out>>

\* Refused: what was to leave is discarded with the send, unless an
\* administrator has just revived it.
Refuse ==
    /\ fate = "going"
    /\ fate' = "dropped"
    /\ armed' \in {armed, FALSE}
    /\ UNCHANGED out

\* Once it is final the send cannot be taken back.
Finish ==
    /\ fate = "going"
    /\ fate' = "final"
    /\ armed' \in {armed, FALSE}
    /\ UNCHANGED out

Arm == fate = "going" /\ armed' = TRUE /\ UNCHANGED <<fate, out>>

Disarm == armed /\ armed' = FALSE /\ UNCHANGED <<fate, out>>

Leave == armed /\ out' = TRUE /\ UNCHANGED <<fate, armed>>

Next == Accept \/ Reject \/ TakeBack \/ Start \/ Undo \/ Refuse \/ Finish \/ Arm \/ Disarm \/ Leave

Spec == Init /\ [][Next]_vars
=============================================================================
