--------------------------- MODULE MCConversation ---------------------------
(* Instances of Conversation for TLC. *)
EXTENDS Conversation

CONSTANTS read, write, shell

(* Reading is free; for writing there is a rule, and a later one that would *)
(* give more; the shell is up to the mode.                                 *)
TheRequirement ==
    [t \in Tools |-> CASE t = read  -> "read-only"
                      [] t = write -> "workspace-write"
                      [] t = shell -> "danger-full-access"]

TheRules == <<[matches |-> {write}, decision |-> "always_ask"],
              [matches |-> {read, write}, decision |-> "always_allow"]>>

NoRules == <<>>

Error(status, type, hints, overflow) ==
    [status |-> status, type |-> type, hints |-> hints, overflow |-> overflow]

TooLong(overflow) == Error(400, "invalid_request_error", {"prompt is too long"}, overflow)

Network == Error(0, "", {}, NoOverflow)

OverflowErrors == {TooLong(NoOverflow), TooLong(20000), TooLong(1500)}

OverflowAndNetwork == {TooLong(NoOverflow), TooLong(40000), Network}

(* An error of every kind, the ambiguous ones included: a 429 and a 400    *)
(* that speak of the context, an overload by its type only.                *)
EveryError ==
    {TooLong(NoOverflow), TooLong(5000), Network,
     Error(413, "", {}, NoOverflow),
     Error(429, "rate_limit_error", {"context", "exceeds"}, NoOverflow),
     Error(429, "rate_limit_error", {"rate limit"}, NoOverflow),
     Error(529, "overloaded_error", {}, NoOverflow),
     Error(503, "", {}, NoOverflow),
     Error(401, "authentication_error", {}, NoOverflow),
     Error(400, "invalid_request_error", {"token"}, NoOverflow),
     Error(400, "invalid_request_error", {"invalid"}, NoOverflow),
     Error(404, "", {}, NoOverflow)}
=============================================================================
