---------------------------- MODULE MCPublicChat ----------------------------
(***************************************************************************)
(* A small instance of PublicChat for TLC: the visitor has two tabs, two   *)
(* agents compete for the chat.                                            *)
(***************************************************************************)
EXTENDS PublicChat

=============================================================================
