---------------------------- MODULE MCAuditChain ----------------------------
(***************************************************************************)
(* Small instances of AuditChain for TLC.                                  *)
(***************************************************************************)
EXTENDS AuditChain, TLC

\* Threads run the same code.
ThreadSymmetry == Permutations(Thread)
=============================================================================
