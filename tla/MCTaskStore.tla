----------------------------- MODULE MCTaskStore -----------------------------
(* Instances of TaskStore for TLC. *)
EXTENDS TaskStore, TLC

CONSTANTS main, other, left, right, away

(* Two threads of one session, and a session of its own in the workspace. *)
SharedWorkspace == left :> main @@ right :> main @@ away :> other

Threads == Permutations({left, right})
=============================================================================
