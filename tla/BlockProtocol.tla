---------------------------- MODULE BlockProtocol ----------------------------
(***************************************************************************)
(* What a provider client promises those who read its events: a message     *)
(* starts, its blocks are started under indices of their own, filled while  *)
(* they are open and stopped once, and the message ends when none is open.  *)
(* A stream may break off anywhere, and the next begins from nothing.       *)
(* (api/src/types.rs, StreamEvent)                                         *)
(***************************************************************************)
EXTENDS Naturals

CONSTANTS Blocks, NoBlock

VARIABLES phase, open, closed, heard

vars == <<phase, open, closed, heard>>

Silent == phase = "none" /\ open = {} /\ closed = {} /\ heard = NoBlock

MessageStart ==
    /\ phase = "none" /\ phase' = "message" /\ heard' = NoBlock
    /\ UNCHANGED <<open, closed>>

BlockStart(i) ==
    /\ phase = "message" /\ i \notin open \cup closed
    /\ open' = open \cup {i} /\ heard' = NoBlock /\ UNCHANGED <<phase, closed>>

BlockDelta(i) ==
    /\ i \in open /\ heard' = i /\ UNCHANGED <<phase, open, closed>>

BlockStop(i) ==
    /\ i \in open /\ open' = open \ {i} /\ closed' = closed \cup {i}
    /\ heard' = NoBlock /\ UNCHANGED phase

MessageStop ==
    /\ phase = "message" /\ open = {} /\ phase' = "over" /\ heard' = NoBlock
    /\ UNCHANGED <<open, closed>>

NewStream == phase' = "none" /\ open' = {} /\ closed' = {} /\ heard' = NoBlock

Next ==
    \/ MessageStart \/ MessageStop \/ NewStream
    \/ \E i \in Blocks : BlockStart(i) \/ BlockDelta(i) \/ BlockStop(i)

Spec == Silent /\ [][Next]_vars
=============================================================================
