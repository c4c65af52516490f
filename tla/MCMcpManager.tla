---------------------------- MODULE MCMcpManager ----------------------------
(* Instances of McpManager for TLC. *)
EXTENDS McpManager, TLC

CONSTANTS alpha, beta, echo, grep

BothServers == <<alpha, beta>>

Mixed   == [s \in Servers |-> IF s = alpha THEN "stdio" ELSE "ws"]

(* The servers' names look the same when they are normalized.               *)
SharedNames   == [t \in Servers \X Tools |-> <<"mcp", t[2]>>]
SharedNameSet == {<<"mcp", t>> : t \in Tools}

=============================================================================
