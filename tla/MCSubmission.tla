---------------------------- MODULE MCSubmission ----------------------------
(***************************************************************************)
(* Values for Submission: a message sent at once whose draft stays or is   *)
(* destroyed by the on-success step, and one that is held and filed into   *)
(* Sent.                                                                   *)
(***************************************************************************)
EXTENDS Submission

Form(delayed, mode) == [delayed |-> delayed, mode |-> mode]
MCForms == {Form(FALSE, "none"), Form(FALSE, "destroy"), Form(TRUE, "file")}
=============================================================================
