---------------------------- MODULE MCMailExport ----------------------------
(***************************************************************************)
(* MailExport on an inbox of one message, which is put as one file, of      *)
(* three, which fill a part, and of four, which are a part and a rest.     *)
(***************************************************************************)
EXTENDS MailExport

MCTotals == {1, 3, 4}
MCSlots == 1 .. 4
=============================================================================
