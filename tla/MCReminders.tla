----------------------------- MODULE MCReminders ----------------------------
(* Reminders for TLC; no symmetry, because the run checks liveness.          *)
EXTENDS Reminders
=============================================================================
