----------------------------- MODULE MCSelfUpdate -----------------------------
EXTENDS SelfUpdate, TLC

CONSTANTS p1, p2

MCProcesses == {p1, p2}
MCSymmetry  == Permutations(MCProcesses)
MCReleases  == {2, 3}
=============================================================================
