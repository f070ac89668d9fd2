------------------------------ MODULE SourceReads ------------------------------
(***************************************************************************)
(* What a load of a dataset promises its caller, cache or no cache         *)
(* (thesistester/api.py, _load_experiment_data): the bars it returns are   *)
(* those of bytes the source file held at some moment of that load.        *)
(***************************************************************************)
CONSTANTS Loaders, Versions, Nothing

VARIABLES
    source,     \* what the dataset file holds
    window,     \* per loader, what it has held since the load began
    got         \* per loader, what the load returned

vars == <<source, window, got>>

Init ==
    /\ source \in Versions
    /\ window = [p \in Loaders |-> {}]
    /\ got = [p \in Loaders |-> Nothing]

Begin(p) ==
    /\ window[p] = {}
    /\ window' = [window EXCEPT ![p] = {source}]
    /\ UNCHANGED <<source, got>>

\* The user saves another file under the same path.
Edit ==
    /\ source' \in Versions \ {source}
    /\ window' = [p \in Loaders |-> IF window[p] = {} THEN {}
                                    ELSE window[p] \cup {source'}]
    /\ UNCHANGED got

Return(p) ==
    /\ window[p] # {}
    /\ got[p] = Nothing
    /\ \E v \in window[p] : got' = [got EXCEPT ![p] = v]
    /\ UNCHANGED <<source, window>>

\* The caller has used the bars, or the load failed or died.
Leave(p) ==
    /\ window[p] # {}
    /\ window' = [window EXCEPT ![p] = {}]
    /\ got' = [got EXCEPT ![p] = Nothing]
    /\ UNCHANGED source

Next == Edit \/ \E p \in Loaders : Begin(p) \/ Return(p) \/ Leave(p)

Spec == Init /\ [][Next]_vars
=============================================================================
