----------------------------- MODULE MCCronLock -----------------------------
(***************************************************************************)
(* Small instances of CronLock for TLC.                                    *)
(***************************************************************************)
EXTENDS CronLock, TLC

ClientSymmetry == Permutations(Client)
=============================================================================
