------------------------ MODULE MCRequestTransaction ------------------------
(***************************************************************************)
(* Small instances of RequestTransaction for TLC.                          *)
(***************************************************************************)
EXTENDS RequestTransaction

=============================================================================
