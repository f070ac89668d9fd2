---------------------------- MODULE MCArtifactStore ----------------------------
EXTENDS ArtifactStore, TLC

CONSTANTS l1, l2, v1, v2

Symmetric == Permutations({l1, l2}) \cup Permutations({v1, v2})
=============================================================================
