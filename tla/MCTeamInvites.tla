--------------------------- MODULE MCTeamInvites ----------------------------
(* TeamInvites with interchangeable invitations, handlers and addresses.     *)
EXTENDS TeamInvites, TLC

Symmetry == Permutations(Invite) \cup Permutations(Handler)
              \cup Permutations(Email \ {Owner})
=============================================================================
