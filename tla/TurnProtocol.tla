---------------------------- MODULE TurnProtocol ----------------------------
(***************************************************************************)
(* What the agent loop promises to the provider, whatever the errors, the  *)
(* recoveries and the compactions in between: it speaks only when it owes  *)
(* no answer, and it answers every call it was given, all of a reply at    *)
(* once, before the turn goes on or ends.                                  *)
(***************************************************************************)
EXTENDS Naturals

VARIABLES
    open,    \* a turn is being run
    owed,    \* ids of the calls without an answer
    given    \* calls given so far

vars == <<open, owed, given>>

Init == open = FALSE /\ owed = {} /\ given = 0

Begin  == ~open /\ open' = TRUE /\ UNCHANGED <<owed, given>>

Reply ==
    /\ open /\ owed = {}
    /\ given' \in Nat /\ given' > given
    /\ owed' = given + 1 .. given'
    /\ UNCHANGED open

Answer == open /\ owed # {} /\ owed' = {} /\ UNCHANGED <<open, given>>

End    == open /\ owed = {} /\ open' = FALSE /\ UNCHANGED <<owed, given>>

Next == Begin \/ Reply \/ Answer \/ End

(* What is owed is paid: the one promise about progress a provider needs. *)
Spec == Init /\ [][Next]_vars /\ WF_vars(Answer)
=============================================================================
