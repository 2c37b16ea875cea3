------------------------- MODULE MCPasswordRecovery -------------------------
(* PasswordRecovery with interchangeable requests and workers, its states    *)
(* told apart by what the actions and the properties can still read: of a    *)
(* closed request its delivery, claim and staleness; of the operator's       *)
(* snapshot the requests it holds, or only the open ones once it has failed. *)
(* The run looks at behaviours with at most MaxEvents delivery attempts and  *)
(* password replacements: two of each, or one replacement and three attempts.*)
EXTENDS PasswordRecovery, TLC
LOCAL INSTANCE FiniteSetsExt

CONSTANT MaxEvents

Attempts == MapThenSumSet(LAMBDA r : row[r].attempts, Request)
FewEvents == pwd + Attempts <= MaxEvents

Symmetry == Permutations(Request) \cup Permutations(Worker)

RowView(x) ==
    IF x.open THEN x
    ELSE [x EXCEPT !.attempts = 0, !.expired = FALSE, !.pwd = 0, !.raced = FALSE]
OperatorView ==
    IF operator = Idle THEN <<>>
    ELSE <<Undisturbed, Known,
           {r \in Request : Undisturbed /\ operator.rows[r].delivery # "NONE"}>>
StateView ==
    <<[r \in Request |-> RowView(row[r])], worker, delivered, used, member, org, control,
      pwd, OperatorView, Attempts>>
=============================================================================
