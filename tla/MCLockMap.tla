----------------------------- MODULE MCLockMap -----------------------------
(***************************************************************************)
(* LockMap for model checking.                                             *)
(***************************************************************************)
EXTENDS LockMap
=============================================================================
