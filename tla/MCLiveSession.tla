--------------------------- MODULE MCLiveSession ---------------------------
(* Instances of LiveSession for TLC. *)
EXTENDS LiveSession, TLC

CONSTANTS everything     \* a label that normalize_permission_mode does not know

SomeLabels == Modes \cup {everything}

Interchangeable ==
    Permutations(Clients) \cup Permutations(Files) \cup Permutations(Modes)
        \cup Permutations(Models)
=============================================================================
