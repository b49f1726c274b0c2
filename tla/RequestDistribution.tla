------------------------ MODULE RequestDistribution ------------------------
(***************************************************************************)
(* What HTML_MessageProcessor and its dispatchers promise the rest of the  *)
(* server, with no thread, lock or queue in sight.  Complete requests are  *)
(* numbered in the order the poll thread accepts them.  They are assigned  *)
(* in that order, each to one dispatcher, the dispatchers taking turns;    *)
(* an assigned request is finished at most once, in no particular order.   *)
(***************************************************************************)
EXTENDS Naturals, Sequences

CONSTANT NumDispatchers

VARIABLES
    accepted,  \* how many complete requests have been accepted
    assigned,  \* assigned[n] is the dispatcher request n was given to
    turn,      \* the dispatcher whose turn it is
    finished   \* the requests that are over

vars == <<accepted, assigned, turn, finished>>

Init ==
    /\ accepted = 0
    /\ assigned = <<>>
    /\ turn = 0
    /\ finished = {}

Accept ==
    /\ accepted' = accepted + 1
    /\ UNCHANGED <<assigned, turn, finished>>

Assign ==
    /\ Len(assigned) < accepted
    /\ assigned' = Append(assigned, turn)
    /\ turn' = IF turn = NumDispatchers - 1 THEN 0 ELSE turn + 1
    /\ UNCHANGED <<accepted, finished>>

Finish ==
    /\ \E n \in DOMAIN assigned \ finished : finished' = finished \cup {n}
    /\ UNCHANGED <<accepted, assigned, turn>>

Next == Accept \/ Assign \/ Finish

Spec == Init /\ [][Next]_vars
=============================================================================
