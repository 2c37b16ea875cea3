----------------------------- MODULE MCAccounts -----------------------------
(* Accounts on a small charity: the owner and members who may join, with     *)
(* interchangeable handlers and sessions.  The run looks at behaviours with  *)
(* at most MaxChanges membership and password changes to any two accounts:   *)
(* a suspension and a reactivation, a suspension and a password change, or a *)
(* transfer of ownership.  An organisation that is not ACTIVE counts as one. *)
EXTENDS Accounts, TLC

CONSTANT MaxChanges

Changes(u) == user[u].version + user[u].pwd - 2
Standstill == IF org = "ACTIVE" THEN 0 ELSE 1
FewChanges ==
    \A u, v \in User : u # v => Changes(u) + Changes(v) + Standstill <= MaxChanges

Symmetry == Permutations(Session) \cup Permutations(Handler)
              \cup Permutations(User \ {Owner})

(* States that behave alike are one: no action and no property reads the     *)
(* history of a session that has ended, and of a command that can no longer  *)
(* commit only its users and, to try again, the versions matter.             *)
SessionView(s) ==
    LET r == session[s] IN
      IF Live(s) THEN r
                 ELSE [status |-> r.status, user |-> r.user, family |-> r.family,
                       posture |-> r.posture]
RequestView(h) ==
    LET r == request[h] IN
      CASE ~Serial(h) \/ Undisturbed(h) -> r
        [] IsOp(h, "transfer") /\ ~Undisturbed(h) ->
             <<r.from, r.to, r.rows[1].version, r.rows[2].version>>
        [] OTHER -> {r.from, r.to}
StateView == <<org, user, [s \in Session |-> SessionView(s)],
               [h \in Handler |-> RequestView(h)], replayed>>
=============================================================================
