---------------------------- MODULE Conversation ----------------------------
(***************************************************************************)
(* The agent loop of crates/engine: ConversationRuntime::run_turn, the API *)
(* recovery inside it, permission checks, tool execution (a batch of       *)
(* threads or one call at a time), and the compaction of the session.      *)
(*                                                                         *)
(* One thread runs the loop, so an action is a whole stretch of it between *)
(* two waits: for the API, for the permission prompt, for a tool.  The API *)
(* client, the prompter and the tools may answer anything.                 *)
(***************************************************************************)
EXTENDS Recovery, Permissions, Sequences, FiniteSets

CONSTANTS
    Tools,            \* what the model may call: a tool's name and a kind of input
    SafeTools,        \* those is_concurrency_safe accepts
    AllowedTools,     \* those --allowedTools enables (all when it is absent)
    Requirement,      \* tool -> the mode its specification requires, or "prompt"
    Rules,            \* the permission rules of the settings
    SessionModes,     \* the permission modes the user may choose
    Prompter,         \* there is somebody to ask
    PreHooks,         \* number of commands hooked before a tool
    ApiErrors,        \* errors the provider may answer with
    PreserveRecent,   \* CompactionConfig::default().preserve_recent_messages: 4
    ModelCompaction,  \* ModelCompactionConfig.enabled
    MaxIterations,    \* of one turn: 200 in the code
    MaxCalls,         \* bound: tool calls in one reply
    MaxTurns          \* bound: turns of one history

ASSUME ToolsAssumption == SafeTools \subseteq Tools /\ AllowedTools \subseteq Tools
ASSUME PolicyAssumption ==
    /\ Requirement \in [Tools -> Mode] /\ Rules \in Seq(Rule(Tools))
    /\ SessionModes \subseteq Mode /\ Prompter \in BOOLEAN /\ PreHooks \in Nat
ASSUME ErrorsAssumption == ApiErrors \subseteq ApiError
ASSUME SizesAssumption ==
    /\ PreserveRecent \in Nat \ {0}
    /\ ModelCompaction \in BOOLEAN
    /\ MaxIterations \in Nat /\ MaxCalls \in Nat /\ MaxTurns \in Nat

-----------------------------------------------------------------------------
(* A tool call has the id the provider gave it, fresh, and a tool's name.  *)
Call == [id: Nat \ {0}, tool: Tools]

NotRun == 0   \* the output of a call no tool ran for: a denial, a refusal

(* calls: the tool_use blocks of an assistant message.  of, output: the    *)
(* call a tool message answers, and the call whose run produced its text.  *)
Message == [role: {"system", "user", "assistant", "tool"},
            calls: Seq(Call), of: Nat, output: Nat]

SummaryMessage    == [role |-> "system", calls |-> <<>>, of |-> 0, output |-> NotRun]
UserMessage       == [role |-> "user",   calls |-> <<>>, of |-> 0, output |-> NotRun]
AssistantMessage(calls) ==
    [role |-> "assistant", calls |-> calls, of |-> 0, output |-> NotRun]
ToolResult(call, output) ==
    [role |-> "tool", calls |-> <<>>, of |-> call.id, output |-> output]

VARIABLES
    session,     \* messages of the session
    pc,          \* where the loop waits; "idle" between turns
    iterations,  \* of the current turn
    recovery,    \* RecoveryEngine: lives as long as the runtime
    mode,        \* active_mode of the runtime's permission policy
    pending,     \* tool calls of the reply being handled
    slots,       \* which of them check_permissions approved
    running,     \* indices of the calls whose tool is running
    outputs,     \* index -> output of the calls that returned
    issued,      \* history: tool calls received so far
    agreed,      \* history: the calls the user was asked about and agreed to
    ran,         \* history: the calls a tool was started for
    sends,       \* history: requests this stream_with_recovery has lost
    turns        \* history: turns started

turnVars   == <<iterations, recovery, sends>>
toolVars   == <<pending, slots, running, outputs>>
policyVars == <<mode, agreed>>
vars       == <<session, pc, policyVars, turnVars, toolVars, issued, ran, turns>>

Locations == {"idle", "head", "stream", "permit", "execute"}

TypeOK ==
    /\ session \in Seq(Message)
    /\ pc \in Locations
    /\ iterations \in Nat
    /\ recovery \in Engine
    /\ mode \in SessionModes
    /\ pending \in Seq(Call)
    /\ slots \in [DOMAIN pending -> BOOLEAN]
    /\ running \subseteq DOMAIN pending
    /\ DOMAIN outputs \subseteq DOMAIN pending /\ outputs \in [DOMAIN outputs -> Nat]
    /\ issued \in Nat
    /\ agreed \subseteq Call
    /\ ran \subseteq Call
    /\ sends \in Nat
    /\ turns \in Nat

NoTools == pending' = <<>> /\ slots' = <<>> /\ running' = {} /\ outputs' = <<>>

Init ==
    /\ session = <<>> /\ pc = "idle"
    /\ iterations = 0 /\ recovery = NewEngine /\ sends = 0
    /\ pending = <<>> /\ slots = <<>> /\ running = {} /\ outputs = <<>>
    /\ mode \in SessionModes
    /\ issued = 0 /\ agreed = {} /\ ran = {} /\ turns = 0

-----------------------------------------------------------------------------
(* Compaction: crates/engine/src/compact/mod.rs.                           *)
CompactedPrefixLen(s) == IF s # <<>> /\ s[1].role = "system" THEN 1 ELSE 0

(* heavy: the estimated tokens reach the configured maximum. *)
ShouldCompact(s, preserve, heavy) ==
    Len(s) - CompactedPrefixLen(s) > preserve /\ heavy

(* Mutant: the old summary is counted among the messages to compact. *)
CompactSummaryToo(s, preserve, heavy) ==
    IF Len(s) >= preserve /\ heavy
    THEN <<SummaryMessage>> \o SubSeq(s, Len(s) - preserve + 1, Len(s))
    ELSE s

CompactSession(s, preserve, heavy) ==
    IF ShouldCompact(s, preserve, heavy)
    THEN <<SummaryMessage>> \o SubSeq(s, Len(s) - preserve + 1, Len(s))
    ELSE s

-----------------------------------------------------------------------------
(* run_turn_with_blocks *)
RunTurn ==
    /\ pc = "idle" /\ turns < MaxTurns
    /\ turns' = turns + 1
    /\ session' = Append(session, UserMessage)
    /\ iterations' = 0
    /\ pc' = "head"
    /\ UNCHANGED <<recovery, sends, toolVars, policyVars, issued, ran>>

NextIteration ==
    /\ pc = "head" /\ iterations < MaxIterations
    /\ iterations' = iterations + 1
    /\ sends' = 0
    /\ pc' = "stream"
    /\ UNCHANGED <<session, recovery, toolVars, policyVars, issued, ran, turns>>

MaxIterationsExceeded ==
    /\ pc = "head" /\ iterations >= MaxIterations
    /\ iterations' = iterations + 1
    /\ pc' = "idle"
    /\ UNCHANGED <<session, recovery, sends, toolVars, policyVars, issued, ran, turns>>

(* The stream ends with a stop and at least one block: the turn goes on    *)
(* with the tool calls in it, or is over.                                  *)
Reply(n) ==
    /\ pc = "stream"
    /\ recovery' = Reset(recovery)
    /\ \E tool \in [1 .. n -> Tools] :
          LET calls == [k \in 1 .. n |-> [id |-> issued + k, tool |-> tool[k]]]
          IN  /\ session' = Append(session, AssistantMessage(calls))
              /\ pending' = calls
    /\ issued' = issued + n
    /\ slots' = [k \in 1 .. n |-> FALSE]
    /\ running' = {} /\ outputs' = <<>>
    /\ pc' = IF n = 0 THEN "idle" ELSE "permit"
    /\ UNCHANGED <<iterations, sends, policyVars, ran, turns>>

(* IncompleteStream or EmptyReply: the engine was reset before the events  *)
(* were looked at.                                                         *)
UnusableReply ==
    /\ pc = "stream"
    /\ recovery' = Reset(recovery)
    /\ pc' = "idle"
    /\ UNCHANGED <<session, iterations, sends, toolVars, policyVars, issued, ran, turns>>

(* stream() fails with an error that is no API error. *)
TransportError ==
    /\ pc = "stream"
    /\ pc' = "idle"
    /\ UNCHANGED <<session, turnVars, toolVars, policyVars, issued, ran, turns>>

(* stream() fails with API error e, for which the engine picks strategy. *)
Failed(e, strategy) ==
    /\ pc = "stream"
    /\ strategy = SelectStrategy(recovery, Classify(e))
    /\ recovery' = RecordAttempt(recovery, strategy)
    /\ UNCHANGED <<iterations, toolVars, policyVars, issued, ran, turns>>

RetryRequest(e) ==
    /\ \E strategy \in {"Retry", "StreamingFallback"} : Failed(e, strategy)
    /\ sends' = sends + 1
    /\ UNCHANGED <<session, pc>>

(* A model-assisted compaction sends a request of its own; whatever comes  *)
(* of it, the session is compacted.                                        *)
AutocompactRetry(e) ==
    /\ Failed(e, "AutocompactRetry")
    /\ \E heavy \in BOOLEAN :
          /\ session' = CompactSession(session, PreserveRecent, heavy)
          /\ sends' = sends + 1 + IF ModelCompaction /\ ShouldCompact(session, PreserveRecent, heavy)
                                  THEN 1 ELSE 0
    /\ UNCHANGED pc

(* max_estimated_tokens is 1 here, which every message reaches. *)
ReactiveCompactRetry(e) ==
    /\ Failed(e, "ReactiveCompactRetry")
    /\ session' = CompactSession(session,
                      PreserveRecentForReactiveCompact(e.overflow, Len(session)), TRUE)
    /\ sends' = sends + 1
    /\ UNCHANGED pc

GiveUp(e) ==
    /\ Failed(e, "GiveUp")
    /\ pc' = "idle"
    /\ UNCHANGED <<session, sends>>

-----------------------------------------------------------------------------
(* check_permissions: the policy decides on every call, perhaps with the   *)
(* user, and of what it allows the hooks may still deny.                   *)
Judged(i) == Verdict(mode, Requirement[pending[i].tool], Rules, pending[i].tool)

CheckPermissions ==
    /\ pc = "permit"
    /\ \E yes \in SUBSET {i \in DOMAIN pending : Prompter /\ Judged(i) = "ask"},
          hooks \in [DOMAIN pending -> [1 .. PreHooks -> HookAnswer]] :
          /\ agreed' = agreed \cup {pending[i] : i \in yes}
          /\ slots' = [i \in DOMAIN pending |->
                          (Judged(i) = "allow" \/ i \in yes) /\ RunCommands(hooks[i])]
    /\ pc' = "execute"
    /\ UNCHANGED <<session, turnVars, pending, running, outputs, mode, issued, ran, turns>>

Ready      == {i \in DOMAIN pending : slots[i]}
(* Mutant: one safe call makes the whole reply a batch. *)
ConcurrentIfAnySafe ==
    Cardinality(Ready) > 1 /\ \E i \in Ready : pending[i].tool \in SafeTools

Concurrent == Cardinality(Ready) > 1 /\ \A i \in Ready : pending[i].tool \in SafeTools
Waiting    == Ready \ DOMAIN outputs

(* Mutant: a batch that has returned may be started again. *)
StartBatchAgain ==
    /\ pc = "execute" /\ Concurrent
    /\ running = {}
    /\ running' = Ready
    /\ ran' = ran \cup {pending[i] : i \in Ready}
    /\ UNCHANGED <<session, pc, turnVars, pending, slots, outputs, policyVars, issued, turns>>

(* execute_batch: a thread for every call, without a look at AllowedTools. *)
StartBatch ==
    /\ pc = "execute" /\ Concurrent
    /\ running = {} /\ outputs = <<>>
    /\ running' = Ready
    /\ ran' = ran \cup {pending[i] : i \in Ready}
    /\ UNCHANGED <<session, pc, turnVars, pending, slots, outputs, policyVars, issued, turns>>

IsNext(i) == i \in Waiting /\ \A j \in Waiting : i <= j

(* execute: one call after the other. *)
StartNext(i) ==
    /\ pc = "execute" /\ ~Concurrent
    /\ running = {} /\ IsNext(i)
    /\ pending[i].tool \in AllowedTools
    /\ running' = {i}
    /\ ran' = ran \cup {pending[i]}
    /\ UNCHANGED <<session, pc, turnVars, pending, slots, outputs, policyVars, issued, turns>>

WithOutput(i, output) ==
    [k \in DOMAIN outputs \cup {i} |-> IF k = i THEN output ELSE outputs[k]]

(* Mutant: the refusal of a tool that is not enabled leaves no result. *)
RefuseWithoutResult(i) ==
    /\ pc = "execute" /\ ~Concurrent
    /\ running = {} /\ IsNext(i)
    /\ pending[i].tool \notin AllowedTools
    /\ UNCHANGED vars

RefuseNext(i) ==
    /\ pc = "execute" /\ ~Concurrent
    /\ running = {} /\ IsNext(i)
    /\ pending[i].tool \notin AllowedTools
    /\ outputs' = WithOutput(i, NotRun)
    /\ UNCHANGED <<session, pc, turnVars, pending, slots, running, policyVars, issued, ran, turns>>

(* Mutant: outputs are filed in the order the tools return. *)
FinishInArrivalOrder(i) ==
    /\ pc = "execute" /\ i \in running
    /\ running' = running \ {i}
    /\ \E first \in Waiting :
          IsNext(first) /\ outputs' = WithOutput(first, pending[i].id)
    /\ UNCHANGED <<session, pc, turnVars, pending, slots, policyVars, issued, ran, turns>>

(* A tool returns, with a result or an error. *)
FinishTool(i) ==
    /\ pc = "execute" /\ i \in running
    /\ running' = running \ {i}
    /\ outputs' = WithOutput(i, pending[i].id)
    /\ UNCHANGED <<session, pc, turnVars, pending, slots, policyVars, issued, ran, turns>>

ResultOf(i) ==
    ToolResult(pending[i], IF i \in DOMAIN outputs THEN outputs[i] ELSE NotRun)

(* Mutant: only calls that were approved get a result message. *)
PushApprovedResults ==
    /\ pc = "execute" /\ running = {} /\ Waiting = {}
    /\ session' = session \o [k \in 1 .. Cardinality(Ready) |->
          ResultOf(CHOOSE i \in Ready : Cardinality({j \in Ready : j <= i}) = k)]
    /\ NoTools
    /\ pc' = "head"
    /\ UNCHANGED <<turnVars, policyVars, issued, ran, turns>>

(* apply_post_hooks, and run_turn pushes the results. *)
PushResults ==
    /\ pc = "execute" /\ running = {} /\ Waiting = {}
    /\ session' = session \o [i \in DOMAIN pending |-> ResultOf(i)]
    /\ NoTools
    /\ pc' = "head"
    /\ UNCHANGED <<turnVars, policyVars, issued, ran, turns>>

-----------------------------------------------------------------------------
(* Between turns LiveCli builds a new runtime: over the same session (a new *)
(* model, permission mode or feature set), or over a compacted one.         *)
NewRuntime ==
    /\ recovery' = NewEngine
    /\ UNCHANGED <<pc, iterations, sends, toolVars, issued, agreed, ran, turns>>

Rebuild == pc = "idle" /\ NewRuntime /\ mode' \in SessionModes /\ UNCHANGED session

CompactCommand ==
    /\ pc = "idle" /\ NewRuntime /\ UNCHANGED mode
    /\ \E heavy \in BOOLEAN : session' = CompactSession(session, PreserveRecent, heavy)

ApiStep ==
    \/ \E n \in 0 .. MaxCalls : Reply(n)
    \/ UnusableReply
    \/ TransportError
    \/ \E e \in ApiErrors : RetryRequest(e)
    \/ \E e \in ApiErrors : AutocompactRetry(e)
    \/ \E e \in ApiErrors : ReactiveCompactRetry(e)
    \/ \E e \in ApiErrors : GiveUp(e)

ToolStep ==
    \/ CheckPermissions
    \/ StartBatch
    \/ \E i \in DOMAIN pending : StartNext(i)
    \/ \E i \in DOMAIN pending : RefuseNext(i)
    \/ \E i \in DOMAIN pending : FinishTool(i)
    \/ PushResults

LoopStep == NextIteration \/ MaxIterationsExceeded \/ ApiStep \/ ToolStep

Next == RunTurn \/ LoopStep \/ Rebuild \/ CompactCommand

Spec == Init /\ [][Next]_vars

(* The loop runs on while the turn lasts; the API, the prompter and the    *)
(* tools answer every call in the end.  The user need not start a turn.    *)
FairSpec == Spec /\ WF_vars(LoopStep)

-----------------------------------------------------------------------------
(* The reply whose calls are being handled is the last message. *)
BeingHandled(i) == pc \in {"permit", "execute"} /\ i = Len(session)

AnsweredInPlace(s, i) ==
    \A k \in DOMAIN s[i].calls :
        /\ i + k \in DOMAIN s
        /\ s[i + k].role = "tool"
        /\ s[i + k].of = s[i].calls[k].id

(* Every tool call of an assistant message is answered by the messages     *)
(* right behind it, in the order of the calls, except while its tools run: *)
(* what a provider demands of a request.  Refused calls, give-ups in the   *)
(* middle of a turn, exceeded iterations and compactions all must keep it. *)
EveryCallAnswered ==
    \A i \in DOMAIN session : BeingHandled(i) \/ AnsweredInPlace(session, i)

Answers(j) ==
    \E i \in 1 .. j - 1 :
        /\ j - i \in DOMAIN session[i].calls
        /\ session[i].calls[j - i].id = session[j].of

(* A tool result is the answer to a call in the session.  Compaction may   *)
(* cut between a reply and its results, and only there: the results whose  *)
(* call went into the summary stand right behind it, at the head, and no   *)
(* summary is found anywhere else.                                         *)
OrphansOnlyBehindSummary ==
    \A j \in DOMAIN session :
        /\ session[j].role = "system" => j = 1
        /\ session[j].role = "tool" =>
              \/ Answers(j)
              \/ session[1].role = "system" /\ \A k \in 2 .. j : session[k].role = "tool"

WasRun(id) == \E c \in ran : c.id = id

(* A result says of its call what happened: the output is the one of that  *)
(* very call when its tool ran, and of none when it was denied or refused, *)
(* in which case the tool never ran.                                       *)
ResultsTellTheTruth ==
    \A j \in DOMAIN session :
        session[j].role = "tool" =>
            session[j].output = IF WasRun(session[j].of) THEN session[j].of ELSE NotRun

(* A tool that is not safe to run beside others runs alone, and after all  *)
(* approved calls the model put before it.                                 *)
UnsafeToolsRunAlone ==
    \A i \in running :
        pending[i].tool \notin SafeTools =>
            running = {i} /\ \A j \in Ready : j < i => j \in DOMAIN outputs

(* Whatever compaction leaves out, a request ends with what the model has  *)
(* not seen: the user's message or the results of its calls.               *)
RequestEndsWithNews ==
    pc = "stream" => session # <<>> /\ session[Len(session)].role \in {"user", "tool"}

(* The requests one reply may cost: three retries, two compactions and one *)
(* fallback can fail before the last, and a summary may be asked for.      *)
MaxRequests == MaxRetries + 4 + IF ModelCompaction THEN 1 ELSE 0

(* "Guards against infinite loops": no mixture of errors makes a request   *)
(* be sent more often than that.                                           *)
RequestsBounded == pc = "stream" => sends + 1 <= MaxRequests

(* A tool --allowedTools does not enable does not run. *)
AllowListRespected == \A c \in ran : c.tool \in AllowedTools

(* A tool runs only with leave.  The first rule that speaks of it decides;  *)
(* without one the mode must cover what the tool requires, or the user has  *)
(* agreed to this very call.  In read-only mode nobody can agree to a tool  *)
(* that is known to write (permissions.rs, conversation.rs).               *)
SpeaksOf(i, tool) == tool \in Rules[i].matches /\ \A j \in 1 .. i - 1 : tool \notin Rules[j].matches

RuleGives(c) ==
    \E i \in DOMAIN Rules :
        /\ SpeaksOf(i, c.tool)
        /\ Rules[i].decision = "always_allow" \/ (Rules[i].decision = "always_ask" /\ c \in agreed)

ModeGives(c) ==
    LET required == Requirement[c.tool] IN
    /\ \A i \in DOMAIN Rules : c.tool \notin Rules[i].matches
    /\ \/ mode = "allow"
       \/ mode # "prompt" /\ Rank[required] <= Rank[mode]
       \/ c \in agreed /\ (mode = "read-only" => required = "prompt")

RunsOnlyWithLeave ==
    [][\A c \in ran' \ ran : RuleGives(c) \/ ModeGives(c)]_vars

(* No tool is started twice for a call. *)
CallsRunOnce == [][\A i \in running' \ running : pending[i] \notin ran]_vars

(* A turn ends: with an answer, an error or the iteration limit. *)
TurnEnds == pc # "idle" ~> pc = "idle"

-----------------------------------------------------------------------------
(* The calls in the session whose answer is not there, computed from the   *)
(* messages alone.                                                         *)
OwedIn(s) ==
    LET callers == {i \in DOMAIN s : s[i].role = "assistant"}
        given   == UNION {{s[i].calls[k].id : k \in DOMAIN s[i].calls} : i \in callers}
        results == {j \in DOMAIN s : s[j].role = "tool"}
    IN  given \ {s[j].of : j \in results}

Protocol == INSTANCE TurnProtocol
    WITH open <- pc # "idle", owed <- OwedIn(session), given <- issued

(* The loop keeps the protocol of a turn: TurnProtocol. *)
KeepsTurnProtocol == Protocol!Spec
=============================================================================
