----------------------------- MODULE MCThesisRuns -----------------------------
EXTENDS ThesisRuns, TLC

CONSTANTS s1, s2, u1, u2, r1, r2

Symmetry == Permutations(Sessions) \cup Permutations(Cancellers) \cup Permutations(RunSpecs)
=============================================================================
