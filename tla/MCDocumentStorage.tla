-------------------------- MODULE MCDocumentStorage --------------------------
(***************************************************************************)
(* One upload, two overlapping cleanup runs and a stray path an operator   *)
(* may name.  Uploads have paths of their own and meet nowhere else, so    *)
(* one stands for all.  MaxRevision = 3 lets a document be removed,        *)
(* authorized, restored and removed again; MaxAttempts = 2 gives a retry   *)
(* and an exhaustion.  A vault whose upload is settled and whose job is    *)
(* processed has nothing left to do, hence no deadlock check.              *)
(***************************************************************************)
EXTENDS DocumentStorage
=============================================================================
