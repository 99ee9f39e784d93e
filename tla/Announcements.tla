---------------------------- MODULE Announcements ----------------------------
(***************************************************************************)
(* What anybody may expect of the messages that follow a commit: each      *)
(* comes to be owed when the thing it tells of is committed, is then told  *)
(* once or lost for good in a failure, and nothing is told that did not    *)
(* happen.                                                                 *)
(***************************************************************************)
EXTENDS Naturals

CONSTANT Notices

VARIABLES
    happened,   \* what has been committed
    due,        \* what is owed and on its way
    told,       \* what has been told
    failures    \* how often something failed after a commit

state == <<happened, due, told, failures>>

Init == happened = {} /\ due = {} /\ told = {} /\ failures = 0

\* One commit makes all its notices due.
Happen ==
    /\ happened \subseteq happened'
    /\ happened' \subseteq Notices
    /\ due' = due \cup (happened' \ happened)
    /\ UNCHANGED <<told, failures>>

\* Messages go out one by one, each once: what is told is no longer due, and
\* only what has just happened becomes due.
Tell ==
    \E n \in due :
        /\ due' = due \ {n}
        /\ told' = told \cup {n}
        /\ UNCHANGED <<happened, failures>>

\* A failure takes with it what one request, one release or one job had still
\* to tell, all of it about one thing, and nothing goes without a failure.
Lose ==
    /\ failures' = failures + 1
    /\ due' \subseteq due
    /\ \A n, m \in due \ due' : n.about = m.about
    /\ UNCHANGED <<happened, told>>

Next == Happen \/ Tell \/ Lose

Spec == Init /\ [][Next]_state
===============================================================================
