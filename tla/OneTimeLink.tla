---------------------------- MODULE OneTimeLink -----------------------------
(***************************************************************************)
(* What password recovery promises: a link is issued once, stays open      *)
(* until it is used or void, and using one replaces the password and voids *)
(* every other open link of the account with the same step.  One way of    *)
(* replacing the password works from what it saw when it started: it voids *)
(* exactly the links open then, or gives up when one of them has changed.  *)
(***************************************************************************)
EXTENDS Naturals

CONSTANT Link

VARIABLES
    link,       \* state of each link
    epoch,      \* how many times the password has been replaced
    replacing,  \* a replacement is under way
    known       \* the links that were open when it started

vars == <<link, epoch, replacing, known>>

OpenLinks == {l \in Link : link[l] = "open"}

Init ==
    /\ link = [l \in Link |-> "none"]
    /\ epoch = 0
    /\ replacing = FALSE
    /\ known = {}

\* The replacement under way, if any, goes on; or it is over without effect.
GoesOn == UNCHANGED <<replacing, known>>
GivesUp == replacing' = FALSE /\ known' = {}

Issue(l) ==
    /\ link[l] = "none"
    /\ link' = [link EXCEPT ![l] = "open"]
    /\ GoesOn \/ GivesUp
    /\ UNCHANGED epoch

Void(S) == [l \in Link |-> IF l \in S THEN "void" ELSE link[l]]

\* The link is spent, every other open link dies, the password is replaced.
Use(l) ==
    /\ link[l] = "open"
    /\ link' = [Void(OpenLinks) EXCEPT ![l] = "used"]
    /\ epoch' = epoch + 1
    /\ GivesUp

\* The password is replaced by other means.
Replace ==
    /\ link' = Void(OpenLinks)
    /\ epoch' = epoch + 1
    /\ GivesUp

\* The password is replaced by the means that takes time.
Start ==
    /\ ~replacing
    /\ replacing' = TRUE
    /\ known' = OpenLinks
    /\ UNCHANGED <<link, epoch>>

Finish ==
    /\ replacing
    /\ known \subseteq OpenLinks
    /\ link' = Void(known)
    /\ epoch' = epoch + 1
    /\ GivesUp

\* Links end without a password change: expiry, suspension, delivery failure.
Expire(S) ==
    /\ S \subseteq OpenLinks
    /\ link' = Void(S)
    /\ GoesOn \/ GivesUp
    /\ UNCHANGED epoch

Next ==
    \/ \E l \in Link : Issue(l) \/ Use(l)
    \/ Replace \/ Start \/ Finish
    \/ \E S \in SUBSET Link : Expire(S)

Spec == Init /\ [][Next]_vars
=============================================================================
