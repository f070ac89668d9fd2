----------------------------- MODULE MCStudyRunner -----------------------------
EXTENDS StudyRunner, TLC

CONSTANTS p1, p2, c1, c2, i1, i2

\* Two specs for one directory: the second keeps one run name of the first.
MCRunNames == i1 :> {c1, c2} @@ i2 :> {c1}
=============================================================================
