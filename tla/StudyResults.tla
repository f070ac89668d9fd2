----------------------------- MODULE StudyResults -----------------------------
(***************************************************************************)
(* What a study directory promises its readers: a set of published results,*)
(* all of one study identity, that only the holder of the directory        *)
(* changes.  A holder that was not told to force can publish a result but  *)
(* never withdraw one; the results of a second identity come only after a  *)
(* forced holder has withdrawn everything.  A result may be lost by        *)
(* accident at any time.                                                   *)
(***************************************************************************)
CONSTANTS Procs, Identities, Cells, NoProc, NoIdentity

VARIABLES
    holder,     \* who works in the directory
    forced,     \* whether it may withdraw results
    results     \* the identity a published result belongs to

vars == <<holder, forced, results>>

Published == {c \in Cells : results[c] # NoIdentity}

Init ==
    /\ holder = NoProc
    /\ forced = FALSE
    /\ results = [c \in Cells |-> NoIdentity]

Take(p) ==
    /\ holder = NoProc
    /\ holder' = p
    /\ forced' \in BOOLEAN
    /\ UNCHANGED results

Publish(c, i) ==
    /\ holder # NoProc
    /\ results[c] = NoIdentity
    /\ \A d \in Published : results[d] = i
    /\ results' = [results EXCEPT ![c] = i]
    /\ UNCHANGED <<holder, forced>>

WithdrawAll ==
    /\ holder # NoProc
    /\ forced
    /\ results' = [c \in Cells |-> NoIdentity]
    /\ UNCHANGED <<holder, forced>>

Lose(c) ==
    /\ results' = [results EXCEPT ![c] = NoIdentity]
    /\ UNCHANGED <<holder, forced>>

Yield ==
    /\ holder # NoProc
    /\ holder' = NoProc
    /\ forced' = FALSE
    /\ UNCHANGED results

Next ==
    \/ \E p \in Procs : Take(p)
    \/ \E c \in Cells, i \in Identities : Publish(c, i)
    \/ \E c \in Cells : Lose(c)
    \/ WithdrawAll
    \/ Yield

Spec == Init /\ [][Next]_vars
=============================================================================
