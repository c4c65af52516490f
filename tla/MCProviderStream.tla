--------------------------- MODULE MCProviderStream ---------------------------
(* Instances of the provider stream, small enough for TLC.                 *)
EXTENDS ProviderStream

(* A model of the user's own provider, and a fallback of the other protocol. *)
TwoModels == <<"custom", "anthropic">>

(* 429, a refusal of tools, a broken connection. *)
TheErrors == {{"retryable", "busy"}, {"tools"}, {}}
=============================================================================
