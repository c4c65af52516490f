----------------------------- MODULE Permissions -----------------------------
(***************************************************************************)
(* Whether a tool may run: PermissionPolicy::authorize of crates/engine,   *)
(* and the commands that are hooked before it.                             *)
(*                                                                         *)
(* The patterns of a rule match names and inputs; here a rule is the set   *)
(* of what it matches.                                                     *)
(***************************************************************************)
EXTENDS Naturals, Sequences

(* In the order the code compares them. *)
ModeOrder == <<"read-only", "workspace-write", "danger-full-access", "prompt", "allow">>
Mode      == {ModeOrder[i] : i \in DOMAIN ModeOrder}
Rank      == [m \in Mode |-> CHOOSE i \in DOMAIN ModeOrder : ModeOrder[i] = m]

Rule(Subject) == [matches : SUBSET Subject,
                  decision : {"always_allow", "always_deny", "always_ask"}]

Matching(rules, subject) == {i \in DOMAIN rules : subject \in rules[i].matches}

(* Mutant: the last rule that matches decides. *)
LastRule(rules, subject) ==
    rules[CHOOSE i \in Matching(rules, subject) :
              \A j \in Matching(rules, subject) : j <= i]

(* The first rule that matches, if one does. *)
MatchRule(rules, subject) ==
    rules[CHOOSE i \in Matching(rules, subject) :
              \A j \in Matching(rules, subject) : i <= j]

(* What the mode says where no rule does.  A tool nobody knows requires    *)
(* "prompt".                                                               *)
ByMode(mode, required) ==
    IF mode = "allow" \/ (mode # "prompt" /\ Rank[mode] >= Rank[required]) THEN "allow"
    ELSE IF \/ mode = "prompt" \/ required = "prompt"
            \/ mode = "workspace-write" /\ required = "danger-full-access"
         THEN "ask" ELSE "deny"

ByRule(rule) == CASE rule.decision = "always_allow" -> "allow"
                  [] rule.decision = "always_ask"   -> "ask"
                  [] OTHER                          -> "deny"

Verdict(mode, required, rules, subject) ==
    IF Matching(rules, subject) # {} THEN ByRule(MatchRule(rules, subject))
    ELSE ByMode(mode, required)

(* run_commands: the commands of an event are run until one denies; any    *)
(* other failure is a warning.                                             *)
HookAnswer == {"allow", "warn", "deny"}

RunCommands(answers) == \A i \in DOMAIN answers : answers[i] # "deny"
=============================================================================
