--------------------------- MODULE ConversationProofs ---------------------------
(* Theorems about Conversation, for all values of its constants. *)
EXTENDS Conversation, NaturalsInduction, WellFoundedInduction, TLAPS

(***************************************************************************)
(* Type correctness.                                                       *)
(***************************************************************************)

(* Compaction returns a session. *)
LEMMA CompactSessionType ==
    ASSUME NEW s \in Seq(Message), NEW preserve \in Nat, NEW heavy \in BOOLEAN
    PROVE  CompactSession(s, preserve, heavy) \in Seq(Message)
<1>1. CASE ShouldCompact(s, preserve, heavy)
  <2>1. Len(s) \in Nat /\ Len(s) - preserve + 1 \in 1 .. Len(s) + 1
    BY <1>1, SMT DEF ShouldCompact, CompactedPrefixLen
  <2>2. SubSeq(s, Len(s) - preserve + 1, Len(s)) \in Seq(Message)
    BY <2>1, SMT
  <2>3. <<SummaryMessage>> \in Seq(Message)
    BY SMT DEF SummaryMessage, Message, NotRun
  <2> QED BY <1>1, <2>2, <2>3, SMT DEF CompactSession
<1>2. CASE ~ShouldCompact(s, preserve, heavy)
  BY <1>2 DEF CompactSession
<1> QED BY <1>1, <1>2

(* A reactive compaction preserves at least one message. *)
LEMMA PreserveType ==
    ASSUME NEW overflow \in Nat \cup {NoOverflow}, NEW total \in Nat
    PROVE  PreserveRecentForReactiveCompact(overflow, total) \in Nat \ {0}
BY SMT DEF PreserveRecentForReactiveCompact, PreserveForOverflow, Lesser, Greater, NoOverflow

(* The engine stays an engine. *)
LEMMA EngineType ==
    ASSUME NEW r \in Engine, NEW strategy
    PROVE  RecordAttempt(r, strategy) \in Engine /\ Reset(r) \in Engine
BY SMT DEF RecordAttempt, Reset, Engine

LEMMA NewEngineType == NewEngine \in Engine
BY DEF NewEngine, Engine

LEMMA InitTypeOK == Init => TypeOK
<1> SUFFICES ASSUME Init PROVE TypeOK
  OBVIOUS
<1>1. session \in Seq(Message) /\ pending \in Seq(Call)
  BY DEF Init
<1>2. slots \in [DOMAIN pending -> BOOLEAN] /\ outputs \in [DOMAIN outputs -> Nat]
      /\ DOMAIN outputs \subseteq DOMAIN pending /\ running \subseteq DOMAIN pending
  BY SMT DEF Init
<1> QED BY <1>1, <1>2, NewEngineType DEF Init, TypeOK, Locations, policyVars

LEMMA ReplyTypeOK ==
    ASSUME TypeOK, NEW n \in 0 .. MaxCalls, Reply(n)
    PROVE  TypeOK'
<1>0. n \in Nat
  BY SizesAssumption
<1>1. PICK tool \in [1 .. n -> Tools] :
          /\ session' = Append(session, AssistantMessage(
                [k \in 1 .. n |-> [id |-> issued + k, tool |-> tool[k]]]))
          /\ pending' = [k \in 1 .. n |-> [id |-> issued + k, tool |-> tool[k]]]
  BY DEF Reply
<1>2. \A k \in 1 .. n : [id |-> issued + k, tool |-> tool[k]] \in Call
  BY <1>0, SMT DEF Call, TypeOK, policyVars
<1>3. pending' \in Seq(Call)
  BY <1>0, <1>1, <1>2, SMT
<1>4. AssistantMessage(pending') \in Message
  BY <1>3 DEF AssistantMessage, Message, NotRun
<1>5. session' \in Seq(Message)
  BY <1>1, <1>4, SMT DEF TypeOK, policyVars
<1>6. DOMAIN pending' = 1 .. n
  BY <1>1
<1>7. slots' \in [DOMAIN pending' -> BOOLEAN]
  BY <1>6 DEF Reply
<1>8. /\ running' \subseteq DOMAIN pending'
      /\ DOMAIN outputs' \subseteq DOMAIN pending'
      /\ outputs' \in [DOMAIN outputs' -> Nat]
  BY SMT DEF Reply
<1>9. recovery' \in Engine
  BY EngineType DEF Reply, TypeOK, policyVars
<1>10. issued' \in Nat /\ pc' \in Locations
  BY <1>0, SMT DEF Reply, TypeOK, Locations, policyVars
<1> QED BY <1>3, <1>5, <1>7, <1>8, <1>9, <1>10 DEF Reply, TypeOK, policyVars

LEMMA FailedTypeOK ==
    ASSUME TypeOK, NEW e \in ApiErrors,
           RetryRequest(e) \/ AutocompactRetry(e) \/ ReactiveCompactRetry(e) \/ GiveUp(e)
    PROVE  TypeOK'
<1>1. recovery' \in Engine
  BY EngineType DEF RetryRequest, AutocompactRetry, ReactiveCompactRetry, GiveUp, Failed, TypeOK, policyVars
<1>2. UNCHANGED <<toolVars, policyVars, iterations, issued, ran, turns>>
  BY DEF RetryRequest, AutocompactRetry, ReactiveCompactRetry, GiveUp, Failed
<1>3. e.overflow \in Nat \cup {NoOverflow} /\ Len(session) \in Nat
  BY ErrorsAssumption, SMT DEF ApiError, TypeOK, policyVars
<1>4. /\ session' \in Seq(Message)
      /\ sends' \in Nat
      /\ pc' \in Locations
  <2>1. CASE RetryRequest(e)
    BY <2>1, SMT DEF RetryRequest, TypeOK, policyVars
  <2>2. CASE AutocompactRetry(e)
    <3>1. PICK heavy \in BOOLEAN :
              /\ session' = CompactSession(session, PreserveRecent, heavy)
              /\ sends' = sends + 1
                   + IF ModelCompaction /\ ShouldCompact(session, PreserveRecent, heavy)
                     THEN 1 ELSE 0
      BY <2>2 DEF AutocompactRetry
    <3>2. session' \in Seq(Message)
      BY <3>1, CompactSessionType, SizesAssumption DEF TypeOK, policyVars
    <3>3. sends' \in Nat
      BY <3>1, SMT DEF TypeOK, policyVars
    <3> QED BY <2>2, <3>2, <3>3 DEF AutocompactRetry, TypeOK, policyVars
  <2>3. CASE ReactiveCompactRetry(e)
    <3>1. PreserveRecentForReactiveCompact(e.overflow, Len(session)) \in Nat
      BY <1>3, PreserveType
    <3>2. session' \in Seq(Message)
      BY <2>3, <3>1, CompactSessionType DEF ReactiveCompactRetry, TypeOK, policyVars
    <3>3. sends' \in Nat
      BY <2>3, SMT DEF ReactiveCompactRetry, TypeOK, policyVars
    <3> QED BY <2>3, <3>2, <3>3 DEF ReactiveCompactRetry, TypeOK, policyVars
  <2>4. CASE GiveUp(e)
    BY <2>4 DEF GiveUp, TypeOK, Locations, policyVars
  <2> QED BY <2>1, <2>2, <2>3, <2>4
<1> QED BY <1>1, <1>2, <1>4 DEF TypeOK, toolVars, policyVars

(* A pending call is a call, and its id can be put into a result. *)
LEMMA PendingCall ==
    ASSUME TypeOK, NEW i \in DOMAIN pending
    PROVE  pending[i] \in Call /\ pending[i].id \in Nat \ {0}
<1>1. pending \in Seq(Call)
  BY DEF TypeOK, policyVars
<1>2. pending[i] \in Call
  BY <1>1, SMT
<1> QED BY <1>2 DEF Call

LEMMA WithOutputType ==
    ASSUME TypeOK, NEW i \in DOMAIN pending, NEW output \in Nat
    PROVE  LET o == WithOutput(i, output)
           IN  DOMAIN o \subseteq DOMAIN pending /\ o \in [DOMAIN o -> Nat]
BY DEF WithOutput, TypeOK, policyVars

LEMMA ToolStepTypeOK ==
    ASSUME TypeOK, ToolStep
    PROVE  TypeOK'
<1>1. CASE CheckPermissions
  <2>1. PICK yes \in SUBSET {i \in DOMAIN pending : Prompter /\ Judged(i) = "ask"} :
            agreed' = agreed \cup {pending[i] : i \in yes}
    BY <1>1 DEF CheckPermissions
  <2>2. agreed' \subseteq Call
    BY <2>1, PendingCall DEF TypeOK
  <2>3. slots' \in [DOMAIN pending -> BOOLEAN]
    BY <1>1, Zenon DEF CheckPermissions, RunCommands
  <2> QED BY <1>1, <2>2, <2>3 DEF CheckPermissions, TypeOK, turnVars, Locations
<1>2. CASE StartBatch
  <2>1. Ready \subseteq DOMAIN pending
    BY DEF Ready
  <2>2. {pending[i] : i \in Ready} \subseteq Call
    BY <2>1, SMT DEF TypeOK, policyVars
  <2> QED BY <1>2, <2>1, <2>2 DEF StartBatch, TypeOK, turnVars, policyVars
<1>3. ASSUME NEW i \in DOMAIN pending, StartNext(i) PROVE TypeOK'
  <2>1. pending[i] \in Call
    BY PendingCall
  <2> QED BY <1>3, <2>1 DEF StartNext, TypeOK, turnVars, policyVars
<1>4. ASSUME NEW i \in DOMAIN pending, RefuseNext(i) PROVE TypeOK'
  <2>1. NotRun \in Nat
    BY DEF NotRun
  <2> QED BY <1>4, <2>1, WithOutputType DEF RefuseNext, TypeOK, turnVars, policyVars
<1>5. ASSUME NEW i \in DOMAIN pending, FinishTool(i) PROVE TypeOK'
  <2>1. pending[i].id \in Nat
    BY PendingCall
  <2> QED BY <1>5, <2>1, WithOutputType DEF FinishTool, TypeOK, turnVars, policyVars
<1>6. CASE PushResults
  <2>1. \A i \in DOMAIN pending : ResultOf(i) \in Message
    <3> SUFFICES ASSUME NEW i \in DOMAIN pending PROVE ResultOf(i) \in Message
      OBVIOUS
    <3>1. pending[i].id \in Nat
      BY PendingCall
    <3>3. <<>> \in Seq(Call)
      BY SMT
    <3>2. i \in DOMAIN outputs => outputs[i] \in Nat
      BY DEF TypeOK, policyVars
    <3> QED BY <3>1, <3>2, <3>3 DEF ResultOf, ToolResult, Message, NotRun
  <2>2. [i \in DOMAIN pending |-> ResultOf(i)] \in Seq(Message)
    BY <2>1, SMT DEF TypeOK, policyVars
  <2>3. session' \in Seq(Message)
    BY <1>6, <2>2, SMT DEF PushResults, TypeOK, policyVars
  <2>4. /\ pending' \in Seq(Call)
        /\ slots' \in [DOMAIN pending' -> BOOLEAN]
        /\ running' \subseteq DOMAIN pending'
        /\ DOMAIN outputs' \subseteq DOMAIN pending'
        /\ outputs' \in [DOMAIN outputs' -> Nat]
    BY <1>6, SMT DEF PushResults, NoTools
  <2> QED BY <1>6, <2>3, <2>4 DEF PushResults, TypeOK, turnVars, Locations, policyVars
<1> QED BY <1>1, <1>2, <1>3, <1>4, <1>5, <1>6 DEF ToolStep

LEMMA NextTypeOK == TypeOK /\ [Next]_vars => TypeOK'
<1> SUFFICES ASSUME TypeOK, [Next]_vars PROVE TypeOK'
  OBVIOUS
<1>1. CASE RunTurn
  <2>1. UserMessage \in Message
    BY SMT DEF UserMessage, Message, NotRun
  <2>2. session' \in Seq(Message)
    BY <1>1, <2>1, SMT DEF RunTurn, TypeOK, policyVars
  <2>3. turns' \in Nat
    BY <1>1, SMT DEF RunTurn, TypeOK, policyVars
  <2> QED BY <1>1, <2>2, <2>3 DEF RunTurn, TypeOK, toolVars, Locations, policyVars
<1>2. CASE NextIteration
  <2>1. iterations' \in Nat
    BY <1>2, SMT DEF NextIteration, TypeOK, policyVars
  <2> QED BY <1>2, <2>1 DEF NextIteration, TypeOK, toolVars, Locations, policyVars
<1>3. CASE MaxIterationsExceeded
  <2>1. iterations' \in Nat
    BY <1>3, SMT DEF MaxIterationsExceeded, TypeOK, policyVars
  <2> QED BY <1>3, <2>1 DEF MaxIterationsExceeded, TypeOK, toolVars, Locations, policyVars
<1>4. CASE ApiStep
  <2>1. CASE UnusableReply
    BY <2>1, EngineType DEF UnusableReply, TypeOK, toolVars, Locations, policyVars
  <2>2. CASE TransportError
    BY <2>2 DEF TransportError, TypeOK, toolVars, turnVars, Locations, policyVars
  <2> QED BY <1>4, <2>1, <2>2, ReplyTypeOK, FailedTypeOK DEF ApiStep
<1>5. CASE ToolStep
  BY <1>5, ToolStepTypeOK
<1>6. CASE Rebuild
  BY <1>6, NewEngineType DEF Rebuild, NewRuntime, TypeOK, toolVars, policyVars
<1>7. CASE CompactCommand
  <2>1. session' \in Seq(Message)
    BY <1>7, CompactSessionType, SizesAssumption DEF CompactCommand, TypeOK, policyVars
  <2> QED BY <1>7, <2>1, NewEngineType DEF CompactCommand, NewRuntime, TypeOK, toolVars, policyVars
<1>8. CASE UNCHANGED vars
  BY <1>8 DEF vars, turnVars, toolVars, TypeOK, policyVars
<1> QED BY <1>1, <1>2, <1>3, <1>4, <1>5, <1>6, <1>7, <1>8 DEF Next, LoopStep

(* Every variable keeps its type, for any tools, errors and bounds. *)
THEOREM TypeCorrect == Spec => []TypeOK
BY InitTypeOK, NextTypeOK, PTL DEF Spec

(***************************************************************************)
(* The recovery budget.                                                    *)
(***************************************************************************)

(* What the engine can still spend on the request at hand: a retry costs   *)
(* one request, a compaction one and the summary, a fallback one.          *)
SummaryCost == IF ModelCompaction THEN 1 ELSE 0

Fuel(r) ==
      (MaxRetries - Lesser(r.attempt, MaxRetries))
    + (IF r.autocompactUsed THEN 0 ELSE 1 + SummaryCost)
    + (IF r.reactiveUsed THEN 0 ELSE 1)
    + (IF r.streaming THEN 1 ELSE 0)

(* RequestsBounded is not inductive: the number of requests lost so far    *)
(* says nothing of those to come.  What each of them costs is taken from   *)
(* the fuel.                                                               *)
Budget == pc = "stream" => sends + Fuel(recovery) + 1 <= MaxRequests

LEMMA FuelBounds ==
    ASSUME NEW r \in Engine
    PROVE  Fuel(r) \in Nat /\ Fuel(r) + 1 <= MaxRequests
BY SizesAssumption, SMT DEF Fuel, Engine, Lesser, MaxRetries, SummaryCost, MaxRequests

(* A strategy that sends the request again burns what it costs. *)
LEMMA FuelBurns ==
    ASSUME NEW r \in Engine, NEW kind,
           NEW strategy, strategy = SelectStrategy(r, kind), strategy # "GiveUp"
    PROVE  Fuel(RecordAttempt(r, strategy)) + 1
             + (IF strategy = "AutocompactRetry" THEN SummaryCost ELSE 0) <= Fuel(r)
<1> DEFINE q == RecordAttempt(r, strategy)
<1>0. r.attempt \in Nat /\ q.attempt = r.attempt + 1 /\ SummaryCost \in {0, 1}
  BY DEF Engine, RecordAttempt, SummaryCost
<1>1. /\ q.autocompactUsed <=> r.autocompactUsed \/ strategy = "AutocompactRetry"
      /\ q.reactiveUsed <=> r.reactiveUsed \/ strategy = "ReactiveCompactRetry"
      /\ q.streaming <=> r.streaming /\ strategy # "StreamingFallback"
  BY DEF RecordAttempt
<1>2. \/ strategy = "Retry" /\ r.attempt < MaxRetries
      \/ strategy = "StreamingFallback" /\ r.streaming
      \/ strategy = "AutocompactRetry" /\ ~r.autocompactUsed
      \/ strategy = "ReactiveCompactRetry" /\ ~r.reactiveUsed
  BY DEF SelectStrategy
<1>3. Lesser(q.attempt, MaxRetries) >= Lesser(r.attempt, MaxRetries)
  BY <1>0, SMT DEF Lesser, MaxRetries
<1>4. CASE strategy = "Retry" /\ r.attempt < MaxRetries
  <2>1. Lesser(q.attempt, MaxRetries) = Lesser(r.attempt, MaxRetries) + 1
    BY <1>0, <1>4, SMT DEF Lesser, MaxRetries
  <2> QED BY <1>0, <1>1, <1>4, <2>1, SMT DEF Fuel, Lesser, MaxRetries
<1>5. CASE strategy # "Retry"
  BY <1>0, <1>1, <1>2, <1>3, <1>5, SMT DEF Fuel, Lesser, MaxRetries
<1> QED BY <1>2, <1>4, <1>5

LEMMA FailedBudget ==
    ASSUME TypeOK, Budget, NEW e \in ApiErrors,
           RetryRequest(e) \/ AutocompactRetry(e) \/ ReactiveCompactRetry(e)
    PROVE  Budget'
<1>1. recovery \in Engine /\ recovery' \in Engine /\ sends \in Nat
  BY EngineType DEF TypeOK, RetryRequest, AutocompactRetry, ReactiveCompactRetry, Failed
<1>2. Fuel(recovery) \in Nat /\ Fuel(recovery') \in Nat /\ SummaryCost \in {0, 1}
  BY <1>1, FuelBounds DEF SummaryCost
<1>3. sends + Fuel(recovery) + 1 <= MaxRequests
  BY DEF Budget, RetryRequest, AutocompactRetry, ReactiveCompactRetry, Failed
<1>4. MaxRequests \in Nat
  BY SMT DEF MaxRequests, MaxRetries
<1>5. CASE RetryRequest(e)
  <2>1. PICK strategy \in {"Retry", "StreamingFallback"} : Failed(e, strategy)
    BY <1>5 DEF RetryRequest
  <2>2. Fuel(recovery') + 1 <= Fuel(recovery)
    BY <1>1, <1>2, <2>1, FuelBurns, SMT DEF Failed
  <2>3. sends' = sends + 1
    BY <1>5 DEF RetryRequest
  <2> QED BY <1>1, <1>2, <1>3, <1>4, <2>2, <2>3, SMT DEF Budget
<1>6. CASE AutocompactRetry(e)
  <2>1. Fuel(recovery') + 1 + SummaryCost <= Fuel(recovery)
    BY <1>1, <1>2, <1>6, FuelBurns, SMT DEF AutocompactRetry, Failed
  <2>2. sends' \in {sends + 1, sends + 1 + SummaryCost}
    BY <1>1, <1>6, SMT DEF AutocompactRetry, SummaryCost
  <2> QED BY <1>1, <1>2, <1>3, <1>4, <2>1, <2>2, SMT DEF Budget
<1>7. CASE ReactiveCompactRetry(e)
  <2>1. Fuel(recovery') + 1 <= Fuel(recovery)
    BY <1>1, <1>2, <1>7, FuelBurns, SMT DEF ReactiveCompactRetry, Failed
  <2>2. sends' = sends + 1
    BY <1>7 DEF ReactiveCompactRetry
  <2> QED BY <1>1, <1>2, <1>3, <1>4, <2>1, <2>2, SMT DEF Budget
<1> QED BY <1>5, <1>6, <1>7

(* Only NextIteration gets to "stream" from elsewhere. *)
LEMMA NextBudget == TypeOK /\ Budget /\ [Next]_vars => Budget'
<1> SUFFICES ASSUME TypeOK, Budget, [Next]_vars PROVE Budget'
  OBVIOUS
<1>1. CASE RunTurn
  BY <1>1 DEF RunTurn, Budget
<1>2. CASE NextIteration
  <2>1. sends' = 0 /\ recovery' = recovery
    BY <1>2 DEF NextIteration
  <2>2. Fuel(recovery) \in Nat /\ Fuel(recovery) + 1 <= MaxRequests
    BY FuelBounds DEF TypeOK
  <2> QED BY <2>1, <2>2, SMT DEF Budget
<1>3. CASE MaxIterationsExceeded
  BY <1>3 DEF MaxIterationsExceeded, Budget
<1>4. CASE ApiStep
  <2>1. ASSUME NEW n \in 0 .. MaxCalls, Reply(n) PROVE Budget'
    BY <2>1 DEF Reply, Budget
  <2>2. CASE UnusableReply
    BY <2>2 DEF UnusableReply, Budget
  <2>3. CASE TransportError
    BY <2>3 DEF TransportError, Budget
  <2>4. ASSUME NEW e \in ApiErrors, GiveUp(e) PROVE Budget'
    BY <2>4 DEF GiveUp, Budget
  <2> QED BY <1>4, <2>1, <2>2, <2>3, <2>4, FailedBudget DEF ApiStep
<1>5. CASE ToolStep
  BY <1>5 DEF ToolStep, CheckPermissions, StartBatch, StartNext, RefuseNext, FinishTool,
              PushResults, Budget
<1>6. CASE Rebuild
  BY <1>6 DEF Rebuild, NewRuntime, Budget
<1>7. CASE CompactCommand
  BY <1>7 DEF CompactCommand, NewRuntime, Budget
<1>8. CASE UNCHANGED vars
  BY <1>8 DEF vars, turnVars, Budget
<1> QED BY <1>1, <1>2, <1>3, <1>4, <1>5, <1>6, <1>7, <1>8 DEF Next, LoopStep

(* No errors, in no order, over no number of turns, make the loop send a   *)
(* request more often than MaxRequests times.                              *)
THEOREM RecoveryIsBounded == Spec => []RequestsBounded
<1>1. Init => Budget
  BY DEF Init, Budget
<1>2. TypeOK /\ Budget => RequestsBounded
  <2> SUFFICES ASSUME TypeOK, Budget, pc = "stream" PROVE sends + 1 <= MaxRequests
    BY DEF RequestsBounded
  <2>1. Fuel(recovery) \in Nat /\ sends \in Nat /\ MaxRequests \in Nat
    BY FuelBounds, SMT DEF TypeOK, MaxRequests, MaxRetries
  <2> QED BY <2>1, SMT DEF Budget
<1> QED BY <1>1, <1>2, TypeCorrect, NextBudget, PTL DEF Spec

(***************************************************************************)
(* Every call is answered in place.                                        *)
(***************************************************************************)

WellAnswered(s) == \A i \in DOMAIN s : AnsweredInPlace(s, i)

(* The reply being handled is the last message, and pending are its calls; *)
(* only with that are the results pushed behind it known to be its answers.*)
Handling ==
    pc \in {"permit", "execute"} =>
        session # <<>> /\ session[Len(session)].calls = pending

Transcript == EveryCallAnswered /\ Handling

LEMMA MessageAt ==
    ASSUME NEW s \in Seq(Message), NEW i \in DOMAIN s
    PROVE  s[i] \in Message /\ s[i].calls \in Seq(Call)
<1>1. s[i] \in Message
  BY SMT
<1> QED BY <1>1 DEF Message

(* What is answered stays answered when messages are added behind. *)
LEMMA AnsweredStays ==
    ASSUME NEW s \in Seq(Message), NEW t \in Seq(Message),
           NEW i \in DOMAIN s, AnsweredInPlace(s, i)
    PROVE  i \in DOMAIN (s \o t) /\ AnsweredInPlace(s \o t, i)
<1>1. \A j \in DOMAIN s : j \in DOMAIN (s \o t) /\ (s \o t)[j] = s[j]
  BY SMT
<1> QED BY <1>1 DEF AnsweredInPlace

(* A message without calls needs no answer. *)
LEMMA AppendWellAnswered ==
    ASSUME NEW s \in Seq(Message), WellAnswered(s),
           NEW msg \in Message, msg.calls = <<>>
    PROVE  WellAnswered(Append(s, msg))
<1> DEFINE t == Append(s, msg)
<1>1. t = s \o <<msg>> /\ <<msg>> \in Seq(Message)
  BY SMT
<1>2. DOMAIN t = DOMAIN s \cup {Len(s) + 1} /\ t[Len(s) + 1] = msg
  BY SMT
<1>3. ASSUME NEW i \in DOMAIN s PROVE AnsweredInPlace(t, i)
  BY <1>1, <1>3, AnsweredStays DEF WellAnswered
<1>4. AnsweredInPlace(t, Len(s) + 1)
  <2>1. DOMAIN t[Len(s) + 1].calls = {}
    BY <1>2, SMT
  <2> QED BY <2>1 DEF AnsweredInPlace
<1> QED BY <1>2, <1>3, <1>4 DEF WellAnswered

(* What a compaction makes: a summary, and the last messages.  The first    *)
(* message is never among them.                                            *)
LEMMA CompactKeeps ==
    ASSUME NEW s \in Seq(Message), NEW preserve \in Nat, NEW heavy \in BOOLEAN,
           ShouldCompact(s, preserve, heavy)
    PROVE  LET t   == CompactSession(s, preserve, heavy)
               gap == Len(s) - preserve - 1
           IN  /\ gap \in Nat /\ DOMAIN t = 1 .. preserve + 1 /\ t[1] = SummaryMessage
               /\ \A j \in 2 .. preserve + 1 : gap + j \in DOMAIN s /\ t[j] = s[gap + j]
<1> DEFINE kept == SubSeq(s, Len(s) - preserve + 1, Len(s))
           t    == <<SummaryMessage>> \o kept
           gap  == Len(s) - preserve - 1
<1>0. CompactSession(s, preserve, heavy) = t
  BY DEF CompactSession
<1>1. Len(s) \in Nat /\ gap \in Nat /\ gap = Len(s) - preserve - 1
  BY SMT DEF ShouldCompact, CompactedPrefixLen
<1>2. /\ kept \in Seq(Message) /\ Len(kept) = preserve
      /\ \A k \in 1 .. preserve : kept[k] = s[gap + 1 + k]
  BY <1>1, SMT
<1>3. SummaryMessage \in Message
  BY SMT DEF SummaryMessage, Message, NotRun
<1>4. /\ DOMAIN t = 1 .. preserve + 1
      /\ t[1] = SummaryMessage
      /\ \A j \in 2 .. preserve + 1 : t[j] = kept[j - 1]
  BY <1>2, <1>3, SMT
<1>5. ASSUME NEW j \in 2 .. preserve + 1 PROVE gap + j \in DOMAIN s /\ t[j] = s[gap + j]
  <2>1. j - 1 \in 1 .. preserve /\ gap + 1 + (j - 1) = gap + j
    BY <1>1, SMT
  <2>2. t[j] = s[gap + j]
    BY <1>2, <1>4, <2>1, Zenon
  <2>3. gap + j \in DOMAIN s
    BY <1>1, SMT
  <2> QED BY <2>2, <2>3
<1> HIDE DEF t
<1> QED BY <1>0, <1>1, <1>4, <1>5

(* A compaction keeps a suffix: the answers of a reply it keeps stand      *)
(* behind that reply, so it keeps them too.                                *)
LEMMA CompactWellAnswered ==
    ASSUME NEW s \in Seq(Message), WellAnswered(s),
           NEW preserve \in Nat, NEW heavy \in BOOLEAN
    PROVE  WellAnswered(CompactSession(s, preserve, heavy))
<1> DEFINE t   == CompactSession(s, preserve, heavy)
           gap == Len(s) - preserve - 1
<1>1. CASE ~ShouldCompact(s, preserve, heavy)
  BY <1>1 DEF CompactSession
<1>2. CASE ShouldCompact(s, preserve, heavy)
  <2>1. Len(s) \in Nat /\ gap \in Nat /\ gap = Len(s) - preserve - 1
    BY <1>2, CompactKeeps, SMT
  <2>3. SummaryMessage.calls = <<>>
    BY DEF SummaryMessage
  <2>4. DOMAIN t = 1 .. preserve + 1 /\ t[1] = SummaryMessage
    BY <1>2, CompactKeeps
  <2>5. ASSUME NEW j \in 2 .. preserve + 1 PROVE gap + j \in DOMAIN s /\ t[j] = s[gap + j]
    BY <1>2, CompactKeeps
  <2> HIDE DEF t
  <2>6. AnsweredInPlace(t, 1)
    <3>1. DOMAIN t[1].calls = {}
      BY <2>3, <2>4, SMT
    <3> QED BY <3>1 DEF AnsweredInPlace
  <2>7. ASSUME NEW j \in 2 .. preserve + 1 PROVE AnsweredInPlace(t, j)
    <3>1. AnsweredInPlace(s, gap + j) /\ t[j].calls = s[gap + j].calls
      BY <2>5, <2>7 DEF WellAnswered
    <3>2. s[gap + j].calls \in Seq(Call)
      BY <2>5, <2>7, MessageAt
    <3>3. SUFFICES ASSUME NEW k \in DOMAIN s[gap + j].calls
                   PROVE  /\ j + k \in DOMAIN t
                          /\ t[j + k] = s[gap + j + k]
      BY <3>1, <3>3 DEF AnsweredInPlace
    <3> DEFINE calls == s[gap + j].calls
               place == gap + j
    <3>4. k \in Nat \ {0} /\ gap + j + k \in DOMAIN s
      <4>1. calls \in Seq(Call) /\ k \in DOMAIN calls
        BY <3>2
      <4>2. k \in Nat \ {0}
        <5> HIDE DEF calls
        <5> QED BY <4>1, SMT
      <4>3. place + k \in DOMAIN s
        <5>1. AnsweredInPlace(s, place) /\ k \in DOMAIN s[place].calls
          BY <3>1
        <5> HIDE DEF place
        <5> QED BY <5>1 DEF AnsweredInPlace
      <4> QED BY <4>2, <4>3
    <3>5. j + k \in 2 .. preserve + 1
      BY <2>1, <2>7, <3>4, SMT
    <3>6. gap + (j + k) = gap + j + k
      BY <2>1, <2>7, <3>4, SMT
    <3>7. gap + (j + k) \in DOMAIN s /\ t[j + k] = s[gap + (j + k)]
      BY <2>5, <3>5
    <3>8. j + k \in DOMAIN t
      BY <2>4, <3>5
    <3> HIDE DEF t
    <3> QED BY <3>6, <3>7, <3>8
  <2> QED BY <2>4, <2>6, <2>7, SMT DEF WellAnswered, t
<1> QED BY <1>1, <1>2

(* Outside "permit" and "execute" no reply is being handled. *)
LEMMA Settled ==
    ASSUME pc \notin {"permit", "execute"}
    PROVE  EveryCallAnswered <=> WellAnswered(session)
BY DEF EveryCallAnswered, WellAnswered, BeingHandled

LEMMA SettledNext ==
    ASSUME pc' \notin {"permit", "execute"}, WellAnswered(session')
    PROVE  Transcript'
BY DEF EveryCallAnswered, WellAnswered, BeingHandled, Handling, Transcript

LEMMA ReplyTranscript ==
    ASSUME TypeOK, Transcript, NEW n \in 0 .. MaxCalls, Reply(n)
    PROVE  Transcript'
<1>0. n \in Nat /\ WellAnswered(session) /\ session \in Seq(Message)
  BY SizesAssumption, Settled DEF Reply, Transcript, TypeOK
<1>1. pending' \in Seq(Call) /\ session' \in Seq(Message)
  BY ReplyTypeOK DEF TypeOK
<1>2. session' = Append(session, AssistantMessage(pending')) /\ DOMAIN pending' = 1 .. n
  BY DEF Reply
<1> DEFINE msg == AssistantMessage(pending')
<1>3. msg \in Message /\ msg.calls = pending'
  BY <1>1 DEF AssistantMessage, Message, NotRun
<1>4. CASE n = 0
  <2>1. msg.calls = <<>>
    BY <1>1, <1>2, <1>3, <1>4, SMT
  <2>2. WellAnswered(session')
    BY <1>0, <1>2, <1>3, <2>1, AppendWellAnswered
  <2> QED BY <1>4, <2>2, SettledNext DEF Reply
<1>5. CASE n # 0
  <2>1. pc' = "permit"
    BY <1>5 DEF Reply
  <2>2. /\ Len(session') = Len(session) + 1 /\ session' # <<>>
        /\ session'[Len(session')] = msg
        /\ session' = session \o <<msg>> /\ <<msg>> \in Seq(Message)
    BY <1>0, <1>2, <1>3, SMT
  <2>3. ASSUME NEW i \in DOMAIN session', i # Len(session')
        PROVE  AnsweredInPlace(session', i)
    <3>1. i \in DOMAIN session
      BY <1>0, <1>1, <2>2, <2>3, SMT
    <3> QED BY <1>0, <2>2, <3>1, AnsweredStays DEF WellAnswered
  <2>4. EveryCallAnswered'
    BY <2>1, <2>3 DEF EveryCallAnswered, BeingHandled
  <2>5. Handling'
    BY <1>3, <2>2 DEF Handling
  <2> QED BY <2>4, <2>5 DEF Transcript
<1> QED BY <1>4, <1>5

LEMMA PushResultsTranscript ==
    ASSUME TypeOK, Transcript, PushResults
    PROVE  Transcript'
<1> DEFINE results == [i \in DOMAIN pending |-> ResultOf(i)]
           last    == Len(session)
<1>1. /\ session \in Seq(Message) /\ session' \in Seq(Message) /\ pending \in Seq(Call)
      /\ session' = session \o results
  BY NextTypeOK DEF TypeOK, PushResults, Next, LoopStep, ToolStep
<1>2. \A i \in DOMAIN pending :
          results[i].role = "tool" /\ results[i].of = pending[i].id /\ results[i].calls = <<>>
  BY DEF ResultOf, ToolResult
<1>3. session # <<>> /\ session[last].calls = pending
  BY DEF Transcript, Handling, PushResults
<1>4. results \in Seq(Message)
  <2>1. \A i \in DOMAIN pending : results[i] \in Message
    <3> SUFFICES ASSUME NEW i \in DOMAIN pending PROVE ResultOf(i) \in Message
      OBVIOUS
    <3>1. pending[i].id \in Nat
      BY PendingCall
    <3>2. <<>> \in Seq(Call)
      BY SMT
    <3>3. i \in DOMAIN outputs => outputs[i] \in Nat
      BY DEF TypeOK
    <3> QED BY <3>1, <3>2, <3>3 DEF ResultOf, ToolResult, Message, NotRun
  <2> QED BY <1>1, <2>1, SMT
<1>5. /\ last \in Nat \ {0} /\ last \in DOMAIN session
      /\ \A i \in DOMAIN session' :
            i \in DOMAIN session \/ \E k \in DOMAIN pending : i = last + k
      /\ session'[last] = session[last]
      /\ \A k \in DOMAIN pending :
            last + k \in DOMAIN session' /\ session'[last + k] = results[k]
  <2>1. last \in Nat \ {0} /\ DOMAIN session = 1 .. last
    BY <1>1, <1>3, SMT
  <2>2. Len(results) = Len(pending) /\ DOMAIN pending = 1 .. Len(pending) /\ Len(pending) \in Nat
    BY <1>1, <1>4, SMT
  <2>3. DOMAIN session' = 1 .. last + Len(pending)
    BY <1>1, <1>4, <2>2, SMT
  <2>4. ASSUME NEW i \in DOMAIN session', i \notin DOMAIN session
        PROVE  \E k \in DOMAIN pending : i = last + k
    <3>1. i - last \in DOMAIN pending /\ i = last + (i - last)
      BY <2>1, <2>2, <2>3, <2>4, SMT
    <3> QED BY <3>1
  <2>5. session'[last] = session[last]
    BY <1>1, <1>4, <2>1, SMT
  <2>6. \A k \in DOMAIN pending :
            last + k \in DOMAIN session' /\ session'[last + k] = results[k]
    BY <1>1, <1>4, <2>1, <2>2, SMT
  <2> QED BY <2>1, <2>4, <2>5, <2>6
<1>6. ASSUME NEW i \in DOMAIN session' PROVE AnsweredInPlace(session', i)
  <2>1. CASE i \in DOMAIN session /\ i # last
    BY <1>1, <1>4, <2>1, AnsweredStays DEF Transcript, EveryCallAnswered, BeingHandled
  <2>2. CASE i = last
    BY <1>2, <1>3, <1>5, <2>2 DEF AnsweredInPlace
  <2>3. CASE \E k \in DOMAIN pending : i = last + k
    <3>1. session'[i].calls = <<>>
      BY <1>2, <1>5, <2>3
    <3>2. DOMAIN session'[i].calls = {}
      BY <3>1, SMT
    <3> QED BY <3>2 DEF AnsweredInPlace
  <2> QED BY <1>5, <2>1, <2>2, <2>3
<1>7. WellAnswered(session') /\ pc' = "head"
  BY <1>6 DEF WellAnswered, PushResults
<1> QED BY <1>7, SettledNext

LEMMA NextTranscript == TypeOK /\ Transcript /\ [Next]_vars => Transcript'
<1> SUFFICES ASSUME TypeOK, Transcript, [Next]_vars PROVE Transcript'
  OBVIOUS
<1>0. session \in Seq(Message)
  BY DEF TypeOK
<1>1. CASE RunTurn
  <2>1. UserMessage \in Message /\ UserMessage.calls = <<>>
    BY SMT DEF UserMessage, Message, NotRun
  <2>2. WellAnswered(session')
    BY <1>0, <1>1, <2>1, Settled, AppendWellAnswered DEF RunTurn, Transcript
  <2> QED BY <1>1, <2>2, SettledNext DEF RunTurn
<1>2. CASE NextIteration \/ MaxIterationsExceeded \/ UnusableReply \/ TransportError \/ Rebuild
  <2>1. pc \notin {"permit", "execute"} /\ pc' \notin {"permit", "execute"} /\ session' = session
    BY <1>2 DEF NextIteration, MaxIterationsExceeded, UnusableReply, TransportError, Rebuild,
                NewRuntime
  <2> QED BY <2>1, Settled, SettledNext DEF Transcript
<1>3. ASSUME NEW e \in ApiErrors,
             RetryRequest(e) \/ AutocompactRetry(e) \/ ReactiveCompactRetry(e) \/ GiveUp(e)
      PROVE  Transcript'
  <2>1. pc \notin {"permit", "execute"} /\ pc' \notin {"permit", "execute"}
    BY <1>3 DEF RetryRequest, AutocompactRetry, ReactiveCompactRetry, GiveUp, Failed
  <2>2. WellAnswered(session)
    BY <2>1, Settled DEF Transcript
  <2>3. WellAnswered(session')
    <3>1. CASE session' = session
      BY <2>2, <3>1
    <3>2. CASE AutocompactRetry(e)
      BY <1>0, <2>2, <3>2, CompactWellAnswered, SizesAssumption DEF AutocompactRetry
    <3>3. CASE ReactiveCompactRetry(e)
      <4>1. PreserveRecentForReactiveCompact(e.overflow, Len(session)) \in Nat
        <5>1. e.overflow \in Nat \cup {NoOverflow} /\ Len(session) \in Nat
          BY <1>0, ErrorsAssumption, SMT DEF ApiError
        <5> QED BY <5>1, PreserveType
      <4> QED BY <1>0, <2>2, <3>3, <4>1, CompactWellAnswered DEF ReactiveCompactRetry
    <3> QED BY <1>3, <3>1, <3>2, <3>3 DEF RetryRequest, GiveUp
  <2> QED BY <2>1, <2>3, SettledNext
<1>4. CASE CompactCommand
  <2>1. pc \notin {"permit", "execute"} /\ pc' \notin {"permit", "execute"}
    BY <1>4 DEF CompactCommand, NewRuntime
  <2>2. WellAnswered(session')
    BY <1>0, <1>4, <2>1, Settled, CompactWellAnswered, SizesAssumption
    DEF CompactCommand, Transcript
  <2> QED BY <2>1, <2>2, SettledNext
<1>5. CASE CheckPermissions \/ StartBatch \/ \E i \in DOMAIN pending :
              StartNext(i) \/ RefuseNext(i) \/ FinishTool(i)
  <2>1. /\ session' = session /\ pending' = pending
        /\ pc \in {"permit", "execute"} /\ pc' \in {"permit", "execute"}
    BY <1>5 DEF CheckPermissions, StartBatch, StartNext, RefuseNext, FinishTool
  <2> QED BY <2>1 DEF Transcript, EveryCallAnswered, BeingHandled, Handling
<1>6. CASE UNCHANGED vars
  BY <1>6 DEF vars, toolVars, Transcript, EveryCallAnswered, BeingHandled, Handling
<1> QED BY <1>1, <1>2, <1>3, <1>4, <1>5, <1>6, ReplyTranscript, PushResultsTranscript
        DEF Next, LoopStep, ApiStep, ToolStep

(* Whatever fails, is refused or is compacted away: no request is ever     *)
(* sent with a tool call that is not answered right behind it, in order.   *)
THEOREM CallsAreAnswered == Spec => []EveryCallAnswered
<1>1. Init => Transcript
  BY SMT DEF Init, Transcript, EveryCallAnswered, Handling
<1>2. Transcript => EveryCallAnswered
  BY DEF Transcript
<1> QED BY <1>1, <1>2, TypeCorrect, NextTranscript, PTL DEF Spec

(***************************************************************************)
(* Where results and summaries stand.                                      *)
(***************************************************************************)
AnswersIn(s, j) ==
    \E i \in 1 .. j - 1 :
        /\ j - i \in DOMAIN s[i].calls
        /\ s[i].calls[j - i].id = s[j].of

BehindSummary(s, j) == s[1].role = "system" /\ \A k \in 2 .. j : s[k].role = "tool"

InPlace(s, j) ==
    /\ s[j].role = "system" => j = 1
    /\ s[j].role = "tool" => AnswersIn(s, j) \/ BehindSummary(s, j)

Placed(s) == \A j \in DOMAIN s : InPlace(s, j)

LEMMA PlacedStays ==
    ASSUME NEW s \in Seq(Message), NEW t \in Seq(Message), NEW j \in DOMAIN s, InPlace(s, j)
    PROVE  InPlace(s \o t, j)
<1> DEFINE u == s \o t
<1>1. j \in Nat \ {0} /\ DOMAIN s = 1 .. Len(s) /\ Len(s) \in Nat
  BY SMT
<1>2. \A k \in 1 .. j : k \in DOMAIN s /\ u[k] = s[k]
  BY <1>1, SMT
<1>3. \A k \in 1 .. j - 1 : k \in 1 .. j
  BY <1>1
<1>4. 1 \in 1 .. j /\ j \in 1 .. j /\ \A k \in 2 .. j : k \in 1 .. j
  BY <1>1
<1> HIDE DEF u
<1>5. AnswersIn(s, j) => AnswersIn(u, j)
  BY <1>2, <1>3, <1>4 DEF AnswersIn
<1>6. BehindSummary(s, j) => BehindSummary(u, j)
  BY <1>2, <1>4 DEF BehindSummary
<1> QED BY <1>2, <1>4, <1>5, <1>6 DEF InPlace, u

LEMMA AppendPlaced ==
    ASSUME NEW s \in Seq(Message), Placed(s),
           NEW msg \in Message, msg.role \notin {"system", "tool"}
    PROVE  Placed(Append(s, msg))
<1> DEFINE t == Append(s, msg)
<1>1. t = s \o <<msg>> /\ <<msg>> \in Seq(Message)
  BY SMT
<1>2. DOMAIN t = DOMAIN s \cup {Len(s) + 1} /\ t[Len(s) + 1] = msg
  BY SMT
<1>3. ASSUME NEW j \in DOMAIN s PROVE InPlace(t, j)
  BY <1>1, PlacedStays DEF Placed
<1>4. InPlace(t, Len(s) + 1)
  BY <1>2 DEF InPlace
<1> HIDE DEF t
<1> QED BY <1>2, <1>3, <1>4 DEF Placed, t

(* A result that is kept has its call before it; or the call went into the  *)
(* summary, and then all that is kept before the result answers the same    *)
(* reply.                                                                  *)
LEMMA CompactPlaced ==
    ASSUME NEW s \in Seq(Message), Placed(s), WellAnswered(s),
           NEW preserve \in Nat, NEW heavy \in BOOLEAN
    PROVE  Placed(CompactSession(s, preserve, heavy))
<1> DEFINE t   == CompactSession(s, preserve, heavy)
           gap == Len(s) - preserve - 1
<1>1. CASE ~ShouldCompact(s, preserve, heavy)
  BY <1>1 DEF CompactSession
<1>2. CASE ShouldCompact(s, preserve, heavy)
  <2>1. gap \in Nat /\ DOMAIN t = 1 .. preserve + 1
    BY <1>2, CompactKeeps
  <2>2. t[1].role = "system"
    <3>1. t[1] = SummaryMessage
      BY <1>2, CompactKeeps
    <3> HIDE DEF t
    <3> QED BY <3>1 DEF SummaryMessage
  <2>3. ASSUME NEW j \in 2 .. preserve + 1 PROVE gap + j \in DOMAIN s /\ t[j] = s[gap + j]
    BY <1>2, CompactKeeps
  <2> HIDE DEF t, gap
  <2>4. InPlace(t, 1)
    BY <2>2 DEF InPlace
  <2>5. ASSUME NEW j \in 2 .. preserve + 1 PROVE InPlace(t, j)
    <3> DEFINE p == gap + j
    <3>1. p \in DOMAIN s /\ t[j] = s[p] /\ InPlace(s, p) /\ p \in Nat /\ p >= 2 /\ p = gap + j
      BY <2>1, <2>3 DEF Placed
    <3> HIDE DEF p
    <3>2. s[p].role # "system"
      BY <3>1 DEF InPlace
    <3>3. ASSUME \A k \in 2 .. j : s[gap + k].role = "tool" PROVE InPlace(t, j)
      <4>1. \A k \in 2 .. j : t[k].role = "tool"
        BY <2>3, <3>3
      <4> QED BY <2>2, <3>1, <3>2, <4>1 DEF InPlace, BehindSummary
    <3>4. CASE BehindSummary(s, p)
      <4>1. ASSUME NEW k \in 2 .. j PROVE s[gap + k].role = "tool"
        <5>1. gap + k \in 2 .. p
          BY <2>1, <3>1
        <5> QED BY <3>4, <5>1 DEF BehindSummary
      <4> QED BY <3>3, <4>1
    <3>5. CASE AnswersIn(s, p)
      <4>1. PICK i \in 1 .. p - 1 : p - i \in DOMAIN s[i].calls /\ s[i].calls[p - i].id = s[p].of
        BY <3>5 DEF AnswersIn
      <4>2. i \in DOMAIN s
        BY <3>1, <4>1, SMT
      <4>3. CASE i >= gap + 2
        <5>1. i - gap \in 1 .. j - 1 /\ i - gap \in 2 .. preserve + 1 /\ gap + (i - gap) = i
              /\ j - (i - gap) = p - i
          BY <2>1, <3>1, <4>3
        <5>2. t[i - gap] = s[i]
          BY <2>3, <5>1
        <5>3. AnswersIn(t, j)
          BY <3>1, <4>1, <5>1, <5>2 DEF AnswersIn
        <5> QED BY <3>1, <3>2, <5>3 DEF InPlace
      <4>4. CASE i < gap + 2
        <5> DEFINE calls == s[i].calls
        <5>1. calls \in Seq(Call)
          BY <4>2, MessageAt
        <5>2. AnsweredInPlace(s, i)
          BY <4>2 DEF WellAnswered
        <5>3. p - i \in DOMAIN calls
          BY <4>1
        <5>4. \A n \in DOMAIN calls : s[i + n].role = "tool"
          BY <5>2 DEF AnsweredInPlace
        <5> HIDE DEF calls
        <5>5. ASSUME NEW k \in 2 .. j PROVE s[gap + k].role = "tool"
          <6>1. gap + k - i \in 1 .. p - i /\ i + (gap + k - i) = gap + k
            BY <2>1, <3>1, <4>1, <4>4
          <6>2. gap + k - i \in DOMAIN calls
            BY <5>1, <5>3, <6>1, SMT
          <6> QED BY <5>4, <6>1, <6>2
        <5> QED BY <3>3, <5>5
      <4> QED BY <2>1, <4>1, <4>3, <4>4
    <3>6. CASE s[p].role # "tool"
      BY <3>1, <3>2, <3>6 DEF InPlace
    <3> QED BY <3>1, <3>4, <3>5, <3>6 DEF InPlace
  <2>6. \A j \in DOMAIN t : j = 1 \/ j \in 2 .. preserve + 1
    BY <2>1
  <2>7. Placed(t)
    BY <2>4, <2>5, <2>6 DEF Placed
  <2> QED BY <2>7 DEF t
<1> QED BY <1>1, <1>2

LEMMA PushResultsPlaced ==
    ASSUME TypeOK, Transcript, Placed(session), PushResults
    PROVE  Placed(session')
<1> DEFINE results == [i \in DOMAIN pending |-> ResultOf(i)]
           last    == Len(session)
           u       == session'
<1>1. /\ session \in Seq(Message) /\ u \in Seq(Message) /\ pending \in Seq(Call)
      /\ u = session \o results
  BY NextTypeOK DEF TypeOK, PushResults, Next, LoopStep, ToolStep
<1>2. session # <<>> /\ session[last].calls = pending
  BY DEF Transcript, Handling, PushResults
<1>3. DOMAIN results = 1 .. Len(pending) /\ Len(pending) \in Nat
  BY <1>1, SMT
<1>4. \A i \in DOMAIN pending : results[i].role = "tool" /\ results[i].of = pending[i].id
  BY DEF ResultOf, ToolResult
<1>5. results \in Seq(Message)
  <2>1. \A i \in DOMAIN pending : results[i] \in Message
    <3> SUFFICES ASSUME NEW i \in DOMAIN pending PROVE ResultOf(i) \in Message
      OBVIOUS
    <3>1. pending[i].id \in Nat
      BY PendingCall
    <3>2. <<>> \in Seq(Call)
      BY SMT
    <3>3. i \in DOMAIN outputs => outputs[i] \in Nat
      BY DEF TypeOK
    <3> QED BY <3>1, <3>2, <3>3 DEF ResultOf, ToolResult, Message, NotRun
  <2> QED BY <1>1, <2>1, SMT
<1> HIDE DEF results
<1>6. /\ last \in Nat \ {0} /\ u[last] = session[last]
      /\ \A j \in DOMAIN u : j \in DOMAIN session \/ j - last \in DOMAIN pending
      /\ \A k \in DOMAIN pending : u[last + k] = results[k]
  BY <1>1, <1>2, <1>3, <1>5, SMT
<1>7. ASSUME NEW j \in DOMAIN session PROVE InPlace(u, j)
  BY <1>1, <1>5, PlacedStays DEF Placed
<1>8. ASSUME NEW j \in DOMAIN u, j - last \in DOMAIN pending PROVE InPlace(u, j)
  <2>1. j \in Nat /\ j - last \in Nat \ {0} /\ last + (j - last) = j
    BY <1>1, <1>6, <1>8, SMT
  <2>2. u[j].role = "tool" /\ u[j].of = pending[j - last].id
    BY <1>4, <1>6, <1>8, <2>1
  <2>3. last \in 1 .. j - 1
    BY <1>6, <2>1
  <2>4. AnswersIn(u, j)
    BY <1>2, <1>6, <1>8, <2>2, <2>3 DEF AnswersIn
  <2> QED BY <2>2, <2>4 DEF InPlace
<1> HIDE DEF u, last
<1> QED BY <1>6, <1>7, <1>8 DEF Placed, u

LEMMA NextPlaced == TypeOK /\ Transcript /\ Placed(session) /\ [Next]_vars => Placed(session')
<1> SUFFICES ASSUME TypeOK, Transcript, Placed(session), [Next]_vars PROVE Placed(session')
  OBVIOUS
<1>0. session \in Seq(Message) /\ Len(session) \in Nat
  BY SMT DEF TypeOK
<1>1. CASE RunTurn
  <2>1. UserMessage \in Message /\ UserMessage.role \notin {"system", "tool"}
    BY SMT DEF UserMessage, Message, NotRun
  <2> QED BY <1>0, <1>1, <2>1, AppendPlaced DEF RunTurn
<1>2. ASSUME NEW n \in 0 .. MaxCalls, Reply(n) PROVE Placed(session')
  <2>1. pending' \in Seq(Call)
    BY <1>2, ReplyTypeOK DEF TypeOK
  <2> DEFINE msg == AssistantMessage(pending')
  <2>2. msg \in Message /\ msg.role \notin {"system", "tool"}
    BY <2>1 DEF AssistantMessage, Message, NotRun
  <2>3. session' = Append(session, msg)
    BY <1>2 DEF Reply
  <2> HIDE DEF msg
  <2> QED BY <1>0, <2>2, <2>3, AppendPlaced
<1>3. ASSUME pc \notin {"permit", "execute"}, NEW preserve \in Nat, NEW heavy \in BOOLEAN,
             session' = CompactSession(session, preserve, heavy)
      PROVE  Placed(session')
  BY <1>0, <1>3, Settled, CompactPlaced DEF Transcript
<1>4. CASE CompactCommand \/ \E e \in ApiErrors : AutocompactRetry(e)
  BY <1>3, <1>4, SizesAssumption DEF CompactCommand, AutocompactRetry, Failed
<1>5. ASSUME NEW e \in ApiErrors, ReactiveCompactRetry(e) PROVE Placed(session')
  <2>1. e.overflow \in Nat \cup {NoOverflow}
    BY ErrorsAssumption DEF ApiError
  <2>2. PreserveRecentForReactiveCompact(e.overflow, Len(session)) \in Nat
    BY <1>0, <2>1, PreserveType
  <2> QED BY <1>3, <1>5, <2>2 DEF ReactiveCompactRetry, Failed
<1>6. CASE session' = session
  BY <1>6
<1> QED BY <1>1, <1>2, <1>4, <1>5, <1>6, PushResultsPlaced
        DEF Next, LoopStep, ApiStep, ToolStep, NextIteration, MaxIterationsExceeded, UnusableReply,
            TransportError, RetryRequest, GiveUp, CheckPermissions, StartBatch, StartNext,
            RefuseNext, FinishTool, Rebuild, vars

SessionPlaced == Placed(session)

(* A compaction cuts anywhere, and yet a result without its call is found   *)
(* only at the head, right behind the summary, with nothing but results     *)
(* between, and no summary but at the head.                                *)
THEOREM OrphansStandAtTheHead == Spec => []OrphansOnlyBehindSummary
<1>1. Init => Transcript /\ SessionPlaced
  BY SMT DEF Init, Transcript, EveryCallAnswered, Handling, Placed, SessionPlaced
<1>2. SessionPlaced => OrphansOnlyBehindSummary
  <2> SUFFICES ASSUME Placed(session), NEW j \in DOMAIN session
               PROVE  /\ session[j].role = "system" => j = 1
                      /\ session[j].role = "tool" => Answers(j) \/ BehindSummary(session, j)
    BY DEF OrphansOnlyBehindSummary, BehindSummary, SessionPlaced
  <2>1. AnswersIn(session, j) => Answers(j)
    BY DEF AnswersIn, Answers
  <2> QED BY <2>1 DEF Placed, InPlace
<1>3. TypeOK /\ Transcript /\ SessionPlaced /\ [Next]_vars => SessionPlaced'
  BY NextPlaced DEF SessionPlaced
<1> QED BY <1>1, <1>2, <1>3, TypeCorrect, NextTranscript, PTL DEF Spec

(* What the loop is about to send ends with the user's message or results,  *)
(* and a reply that is handled has calls, so that there will be results.    *)
EndsWithNews(s) == s # <<>> /\ s[Len(s)].role \in {"user", "tool"}

News ==
    /\ pc \in {"head", "stream"} => EndsWithNews(session)
    /\ pc \in {"permit", "execute"} => pending # <<>>

(* A compaction keeps at least the last message. *)
LEMMA CompactNews ==
    ASSUME NEW s \in Seq(Message), EndsWithNews(s), NEW preserve \in Nat \ {0}, NEW heavy \in BOOLEAN
    PROVE  EndsWithNews(CompactSession(s, preserve, heavy))
<1> DEFINE t   == CompactSession(s, preserve, heavy)
           gap == Len(s) - preserve - 1
<1>1. CASE ~ShouldCompact(s, preserve, heavy)
  BY <1>1 DEF CompactSession
<1>2. CASE ShouldCompact(s, preserve, heavy)
  <2>1. t \in Seq(Message)
    BY CompactSessionType
  <2>2. DOMAIN t = 1 .. preserve + 1 /\ t[preserve + 1] = s[gap + (preserve + 1)]
    <3>1. preserve + 1 \in 2 .. preserve + 1
      OBVIOUS
    <3> QED BY <1>2, <3>1, CompactKeeps
  <2> HIDE DEF t
  <2>3. Len(t) = preserve + 1 /\ t # <<>>
    BY <2>1, <2>2, SMT
  <2>4. gap + (preserve + 1) = Len(s)
    <3>1. Len(s) \in Nat
      BY SMT
    <3> QED BY <3>1
  <2> QED BY <2>2, <2>3, <2>4 DEF EndsWithNews, t
<1> QED BY <1>1, <1>2

LEMMA NextNews == TypeOK /\ News /\ [Next]_vars => News'
<1> SUFFICES ASSUME TypeOK, News, [Next]_vars PROVE News'
  OBVIOUS
<1>0. session \in Seq(Message) /\ Len(session) \in Nat
  BY SMT DEF TypeOK
<1>1. CASE RunTurn
  <2>1. UserMessage \in Message /\ UserMessage.role = "user"
    BY SMT DEF UserMessage, Message, NotRun
  <2>2. session' = Append(session, UserMessage) /\ pc' = "head"
    BY <1>1 DEF RunTurn
  <2>3. session' # <<>> /\ session'[Len(session')] = UserMessage
    BY <1>0, <2>1, <2>2, SMT
  <2> QED BY <2>1, <2>2, <2>3 DEF News, EndsWithNews
<1>2. CASE NextIteration
  BY <1>2 DEF NextIteration, News, EndsWithNews
<1>3. ASSUME pc' = "idle" PROVE News'
  BY <1>3 DEF News
<1>4. ASSUME NEW e \in ApiErrors, RetryRequest(e) \/ AutocompactRetry(e) \/ ReactiveCompactRetry(e)
      PROVE  News'
  <2>1. pc = "stream" /\ pc' = "stream" /\ EndsWithNews(session)
    BY <1>4 DEF RetryRequest, AutocompactRetry, ReactiveCompactRetry, Failed, News
  <2>2. EndsWithNews(session')
    <3>1. CASE RetryRequest(e)
      BY <2>1, <3>1 DEF RetryRequest
    <3>2. CASE AutocompactRetry(e)
      BY <1>0, <2>1, <3>2, CompactNews, SizesAssumption DEF AutocompactRetry
    <3>3. CASE ReactiveCompactRetry(e)
      <4>1. e.overflow \in Nat \cup {NoOverflow}
        BY ErrorsAssumption DEF ApiError
      <4>2. PreserveRecentForReactiveCompact(e.overflow, Len(session)) \in Nat \ {0}
        BY <1>0, <4>1, PreserveType
      <4> QED BY <1>0, <2>1, <3>3, <4>2, CompactNews DEF ReactiveCompactRetry
    <3> QED BY <1>4, <3>1, <3>2, <3>3
  <2> QED BY <2>1, <2>2 DEF News, EndsWithNews
<1>5. ASSUME NEW n \in 0 .. MaxCalls, Reply(n) PROVE News'
  <2>1. pc' = IF n = 0 THEN "idle" ELSE "permit"
    BY <1>5 DEF Reply
  <2>2. n # 0 => pending' # <<>>
    <3>1. n \in Nat /\ DOMAIN pending' = 1 .. n
      BY <1>5, SizesAssumption DEF Reply
    <3> QED BY <3>1, SMT
  <2> QED BY <2>1, <2>2 DEF News
<1>6. CASE CheckPermissions \/ StartBatch \/ \E i \in DOMAIN pending :
              StartNext(i) \/ RefuseNext(i) \/ FinishTool(i)
  <2>1. pending' = pending /\ pc \in {"permit", "execute"} /\ pc' = "execute"
    BY <1>6 DEF CheckPermissions, StartBatch, StartNext, RefuseNext, FinishTool
  <2> QED BY <2>1 DEF News
<1>7. CASE PushResults
  <2> DEFINE results == [i \in DOMAIN pending |-> ResultOf(i)]
  <2>1. pending \in Seq(Call) /\ pending # <<>> /\ pc' = "head" /\ session' = session \o results
    BY <1>7 DEF PushResults, News, TypeOK
  <2>2. Len(pending) \in Nat \ {0} /\ DOMAIN pending = 1 .. Len(pending)
    BY <2>1, SMT
  <2>3. results[Len(pending)].role = "tool"
    BY <2>2 DEF ResultOf, ToolResult
  <2>4. Len(results) = Len(pending)
    BY <2>2, SMT
  <2> HIDE DEF results
  <2>5. session' \in Seq(Message)
    BY <1>7, NextTypeOK DEF TypeOK, Next, LoopStep, ToolStep
  <2>6. Len(session') = Len(session) + Len(pending) /\ session' # <<>>
        /\ session'[Len(session) + Len(pending)] = results[Len(pending)]
    BY <1>0, <2>1, <2>2, <2>4, <2>5, SMT DEF results
  <2> QED BY <2>1, <2>3, <2>6 DEF News, EndsWithNews
<1>8. CASE Rebuild \/ CompactCommand
  BY <1>3, <1>8 DEF Rebuild, CompactCommand, NewRuntime
<1>9. CASE UNCHANGED vars
  BY <1>9 DEF vars, toolVars, News, EndsWithNews
<1> QED BY <1>1, <1>2, <1>3, <1>4, <1>5, <1>6, <1>7, <1>8, <1>9
        DEF Next, LoopStep, ApiStep, ToolStep, MaxIterationsExceeded, UnusableReply, TransportError, GiveUp

(* Whatever failed before and whatever was compacted, a request ends with   *)
(* what the model has not seen yet.                                        *)
THEOREM RequestsBringNews == Spec => []RequestEndsWithNews
<1>1. Init => News
  BY DEF Init, News
<1>2. News => RequestEndsWithNews
  BY DEF News, EndsWithNews, RequestEndsWithNews
<1> QED BY <1>1, <1>2, TypeCorrect, NextNews, PTL DEF Spec

(***************************************************************************)
(* Leave to run.                                                           *)
(***************************************************************************)

(* MatchRule is the first rule that speaks of a tool. *)
LEMMA FirstRule ==
    ASSUME NEW tool \in Tools, Matching(Rules, tool) # {}
    PROVE  \E i \in DOMAIN Rules : SpeaksOf(i, tool) /\ MatchRule(Rules, tool) = Rules[i]
<1> DEFINE M == Matching(Rules, tool)
<1>1. M \subseteq Nat /\ M # {} /\ DOMAIN Rules = 1 .. Len(Rules) /\ Len(Rules) \in Nat
  BY PolicyAssumption, SMT DEF Matching
<1>2. PICK least \in M : \A j \in M : ~(<<j, least>> \in OpToRel(<, Nat))
  BY <1>1, NatLessThanWellFounded, WFMin
<1>3. \A j \in M : least <= j
  <2>1. OpToRel(<, Nat) = {ss \in Nat \X Nat : ss[1] < ss[2]}
    BY DEF OpToRel
  <2>2. ASSUME NEW j \in M PROVE ~(j < least)
    BY <1>1, <1>2, <2>1
  <2> QED BY <1>1, <2>2, SMT
<1> DEFINE first == CHOOSE i \in M : \A j \in M : i <= j
<1>4. first \in M /\ \A j \in M : first <= j
  BY <1>3
<1>5. MatchRule(Rules, tool) = Rules[first]
  BY DEF MatchRule
<1>6. first \in DOMAIN Rules /\ tool \in Rules[first].matches
  BY <1>4 DEF Matching
<1>7. ASSUME NEW j \in 1 .. first - 1 PROVE tool \notin Rules[j].matches
  <2> HIDE DEF first
  <2>1. j \in DOMAIN Rules /\ ~(first <= j)
    BY <1>1, <1>4, <1>6, SMT
  <2> QED BY <1>4, <2>1 DEF Matching
<1> QED BY <1>5, <1>6, <1>7 DEF SpeaksOf

Leave(c) == RuleGives(c) \/ ModeGives(c)

(* The same of any mode and any calls agreed to. *)
LeaveIn(m, yes, c) ==
    \/ \E i \in DOMAIN Rules :
          /\ SpeaksOf(i, c.tool)
          /\ Rules[i].decision = "always_allow" \/ (Rules[i].decision = "always_ask" /\ c \in yes)
    \/ /\ \A i \in DOMAIN Rules : c.tool \notin Rules[i].matches
       /\ \/ m = "allow"
          \/ m # "prompt" /\ Rank[Requirement[c.tool]] <= Rank[m]
          \/ c \in yes /\ (m = "read-only" => Requirement[c.tool] = "prompt")


LEMMA RankOfModes ==
    ASSUME NEW m \in Mode
    PROVE  Rank[m] \in 1 .. 5 /\ (m = "allow" => Rank[m] = 5)
<1>1. /\ DOMAIN ModeOrder = 1 .. 5
      /\ \A i \in 1 .. 5 : ModeOrder[i] = "allow" <=> i = 5
  BY SMT DEF ModeOrder
<1>2. \E i \in DOMAIN ModeOrder : ModeOrder[i] = m
  BY DEF Mode
<1>3. Rank[m] = CHOOSE i \in DOMAIN ModeOrder : ModeOrder[i] = m
  BY DEF Rank
<1>4. Rank[m] \in DOMAIN ModeOrder /\ ModeOrder[Rank[m]] = m
  BY <1>2, <1>3
<1> QED BY <1>1, <1>4

(* What the policy allows, or the user was asked about and agreed to, has   *)
(* leave.                                                                  *)
LEMMA VerdictGivesLeave ==
    ASSUME NEW c \in Call, NEW m \in SessionModes, NEW yes,
           LET v == Verdict(m, Requirement[c.tool], Rules, c.tool)
           IN  v = "allow" \/ (v = "ask" /\ c \in yes)
    PROVE  LeaveIn(m, yes, c)
<1>0. c.tool \in Tools /\ m \in Mode /\ Requirement[c.tool] \in Mode
  BY PolicyAssumption DEF Call
<1>1. CASE Matching(Rules, c.tool) # {}
  <2>1. PICK i \in DOMAIN Rules : SpeaksOf(i, c.tool) /\ MatchRule(Rules, c.tool) = Rules[i]
    BY <1>0, <1>1, FirstRule
  <2>2. /\ ByRule(Rules[i]) = "allow" => Rules[i].decision = "always_allow"
        /\ ByRule(Rules[i]) = "ask" => Rules[i].decision = "always_ask"
    BY DEF ByRule
  <2>3. Verdict(m, Requirement[c.tool], Rules, c.tool) = ByRule(Rules[i])
    BY <1>1, <2>1 DEF Verdict
  <2> QED BY <2>1, <2>2, <2>3 DEF LeaveIn
<1>2. CASE Matching(Rules, c.tool) = {}
  <2>1. Verdict(m, Requirement[c.tool], Rules, c.tool) = ByMode(m, Requirement[c.tool])
    BY <1>2 DEF Verdict
  <2>2. \A i \in DOMAIN Rules : c.tool \notin Rules[i].matches
    BY <1>2 DEF Matching
  <2>3. /\ Rank[m] \in Nat /\ Rank[Requirement[c.tool]] \in Nat
        /\ m = "allow" => Rank[m] = 5
    BY <1>0, RankOfModes
  <2>4. CASE ByMode(m, Requirement[c.tool]) = "allow"
    BY <2>2, <2>3, <2>4, SMT DEF ByMode, LeaveIn
  <2>5. CASE ByMode(m, Requirement[c.tool]) = "ask" /\ c \in yes
    BY <2>2, <2>5, SMT DEF ByMode, LeaveIn
  <2> QED BY <2>1, <2>4, <2>5
<1> QED BY <1>1, <1>2

(* The calls that were approved have leave until they are run. *)
Approved == pc = "execute" => \A i \in Ready : Leave(pending[i])

LEMMA NextApproved == TypeOK /\ Approved /\ [Next]_vars => Approved'
<1> SUFFICES ASSUME TypeOK, Approved, [Next]_vars PROVE Approved'
  OBVIOUS
<1>1. CASE CheckPermissions
  <2>1. PICK yes \in SUBSET {i \in DOMAIN pending : Prompter /\ Judged(i) = "ask"},
             hooks \in [DOMAIN pending -> [1 .. PreHooks -> HookAnswer]] :
          /\ agreed' = agreed \cup {pending[i] : i \in yes}
          /\ slots' = [i \in DOMAIN pending |->
                          (Judged(i) = "allow" \/ i \in yes) /\ RunCommands(hooks[i])]
    BY <1>1 DEF CheckPermissions
  <2>2. ASSUME NEW i \in Ready' PROVE Leave(pending[i])'
    <3>1. pending' = pending /\ mode' = mode /\ TypeOK'
      BY <1>1, NextTypeOK DEF CheckPermissions
    <3>2. i \in DOMAIN pending /\ (Judged(i) = "allow" \/ i \in yes)
      BY <2>1, <3>1 DEF Ready
    <3>3. pending[i] \in Call
      BY <3>2, PendingCall
    <3>4. Judged(i) = "allow" \/ (Judged(i) = "ask" /\ pending[i] \in agreed')
      BY <2>1, <3>2
    <3>5. LeaveIn(mode, agreed', pending[i])
      BY <3>3, <3>4, VerdictGivesLeave DEF Judged, TypeOK
    <3> QED BY <3>1, <3>5 DEF LeaveIn, Leave, RuleGives, ModeGives
  <2> QED BY <2>2 DEF Approved
<1>2. CASE StartBatch \/ \E i \in DOMAIN pending : StartNext(i) \/ RefuseNext(i) \/ FinishTool(i)
  BY <1>2 DEF StartBatch, StartNext, RefuseNext, FinishTool, policyVars, Approved, Ready, Leave,
              RuleGives, ModeGives
<1>3. CASE PushResults \/ RunTurn \/ NextIteration \/ MaxIterationsExceeded
  BY <1>3 DEF PushResults, RunTurn, NextIteration, MaxIterationsExceeded, Approved
<1>4. CASE ApiStep
  BY <1>4 DEF ApiStep, Reply, UnusableReply, TransportError, RetryRequest, AutocompactRetry,
              ReactiveCompactRetry, GiveUp, Failed, Approved
<1>5. CASE Rebuild \/ CompactCommand
  BY <1>5 DEF Rebuild, CompactCommand, NewRuntime, Approved
<1>6. CASE UNCHANGED vars
  BY <1>6 DEF vars, toolVars, policyVars, Approved, Ready, Leave, RuleGives, ModeGives
<1> QED BY <1>1, <1>2, <1>3, <1>4, <1>5, <1>6 DEF Next, LoopStep, ToolStep

(* For any tools, modes, rules and hooks: a tool runs only if the first     *)
(* rule that speaks of it, the mode, or the user's yes to that very call    *)
(* gives leave, and nobody's yes lets a known tool write in read-only mode. *)
THEOREM ToolsHaveLeave == Spec => RunsOnlyWithLeave
<1>1. Init => Approved
  BY DEF Init, Approved
<1>2. Approved /\ [Next]_vars => [\A c \in ran' \ ran : RuleGives(c) \/ ModeGives(c)]_vars
  <2> SUFFICES ASSUME Approved, Next, NEW c \in ran' \ ran PROVE Leave(c)
    BY DEF Leave
  <2>1. CASE StartBatch
    BY <2>1 DEF StartBatch, Approved
  <2>2. ASSUME NEW i \in DOMAIN pending, StartNext(i) PROVE Leave(c)
    BY <2>2 DEF StartNext, IsNext, Waiting, Approved
  <2>3. CASE UNCHANGED ran
    BY <2>3
  <2> QED BY <2>1, <2>2, <2>3
          DEF Next, LoopStep, ToolStep, ApiStep, RunTurn, NextIteration, MaxIterationsExceeded,
              Reply, UnusableReply, TransportError, RetryRequest, AutocompactRetry,
              ReactiveCompactRetry, GiveUp, Failed, CheckPermissions, RefuseNext, FinishTool,
              PushResults, Rebuild, CompactCommand, NewRuntime
<1> QED BY <1>1, <1>2, TypeCorrect, NextApproved, PTL DEF Spec, RunsOnlyWithLeave

(***************************************************************************)
(* The accounts of the calls being handled.                                *)
(***************************************************************************)

Started(i) == i \in running \/ (i \in DOMAIN outputs /\ outputs[i] # NotRun)

(* Ids are fresh, a call is in ran when it is running or has returned, and  *)
(* only calls that were approved get so far.  Nothing is left of this when  *)
(* no reply is being handled.                                              *)
Stages ==
    /\ pc \notin {"permit", "execute"} => DOMAIN pending = {}
    /\ pc # "execute" => running = {} /\ DOMAIN outputs = {}
    /\ running \subseteq Ready /\ DOMAIN outputs \subseteq Ready
    /\ running \cap DOMAIN outputs = {}

FreshIds ==
    /\ \A i \in DOMAIN pending : pending[i].id <= issued
    /\ \A i, j \in DOMAIN pending : pending[i].id = pending[j].id => i = j
    /\ \A c \in ran : c.id <= issued

Recorded ==
    /\ \A i \in DOMAIN outputs : outputs[i] \in {NotRun, pending[i].id}
    /\ \A i \in DOMAIN pending : WasRun(pending[i].id) <=> Started(i)

Accounts == Stages /\ FreshIds /\ Recorded

(* What an action outside of the handling of a reply leaves alone. *)
Untouched ==
    /\ UNCHANGED <<pending, slots, running, outputs, issued, ran>>
    /\ pc \notin {"permit", "execute"} /\ pc' \notin {"permit", "execute"}

LEMMA UntouchedSteps ==
    ASSUME \/ RunTurn \/ NextIteration \/ MaxIterationsExceeded \/ UnusableReply
           \/ TransportError \/ Rebuild \/ CompactCommand
           \/ \E e \in ApiErrors : \/ RetryRequest(e) \/ AutocompactRetry(e)
                                   \/ ReactiveCompactRetry(e) \/ GiveUp(e)
    PROVE  Untouched
<1>1. CASE RunTurn
  BY <1>1 DEF RunTurn, Untouched, toolVars
<1>2. CASE NextIteration
  BY <1>2 DEF NextIteration, Untouched, toolVars
<1>3. CASE MaxIterationsExceeded
  BY <1>3 DEF MaxIterationsExceeded, Untouched, toolVars
<1>4. CASE UnusableReply \/ TransportError
  BY <1>4 DEF UnusableReply, TransportError, Untouched, toolVars
<1>5. CASE Rebuild \/ CompactCommand
  BY <1>5 DEF Rebuild, CompactCommand, NewRuntime, Untouched, toolVars
<1>6. CASE \E e \in ApiErrors : \/ RetryRequest(e) \/ AutocompactRetry(e)
                                \/ ReactiveCompactRetry(e) \/ GiveUp(e)
  BY <1>6 DEF RetryRequest, AutocompactRetry, ReactiveCompactRetry, GiveUp, Failed, Untouched,
              toolVars
<1> QED BY <1>1, <1>2, <1>3, <1>4, <1>5, <1>6

LEMMA UntouchedAccounts ==
    ASSUME Accounts, Untouched
    PROVE  Accounts'
<1>1. Stages'
  BY DEF Accounts, Stages, Untouched, Ready
<1>2. FreshIds'
  BY DEF Accounts, FreshIds, Untouched
<1>3. Recorded'
  BY DEF Accounts, Recorded, Untouched, WasRun, Started
<1> QED BY <1>1, <1>2, <1>3 DEF Accounts

(* The calls of a reply have ids nobody had before. *)
LEMMA ReplyIds ==
    ASSUME TypeOK, NEW n \in 0 .. MaxCalls, Reply(n)
    PROVE  /\ n \in Nat /\ issued' = issued + n /\ DOMAIN pending' = 1 .. n
           /\ \A k \in 1 .. n : pending'[k].id = issued + k
<1>1. n \in Nat
  BY SizesAssumption
<1> QED BY <1>1 DEF Reply

LEMMA ReplyAccounts ==
    ASSUME TypeOK, Accounts, NEW n \in 0 .. MaxCalls, Reply(n)
    PROVE  Accounts'
<1>1. /\ n \in Nat /\ issued \in Nat /\ issued' = issued + n /\ DOMAIN pending' = 1 .. n
      /\ \A k \in 1 .. n : pending'[k].id = issued + k
  BY ReplyIds DEF TypeOK
<1>2. ran' = ran /\ running' = {} /\ DOMAIN outputs' = {}
  BY SMT DEF Reply
<1>3. Stages'
  <2>1. pc' \notin {"permit", "execute"} => DOMAIN pending' = {}
    BY <1>1, SMT DEF Reply
  <2> QED BY <1>2, <2>1 DEF Stages
<1>4. \A c \in ran : c.id \in Nat /\ c.id <= issued
  BY DEF Accounts, FreshIds, TypeOK, Call
<1>5. FreshIds'
  <2>1. \A i \in DOMAIN pending' : pending'[i].id <= issued'
    BY <1>1, SMT
  <2>2. \A i, j \in DOMAIN pending' : pending'[i].id = pending'[j].id => i = j
    BY <1>1, SMT
  <2>3. \A c \in ran' : c.id <= issued'
    BY <1>1, <1>2, <1>4, SMT
  <2> QED BY <2>1, <2>2, <2>3 DEF FreshIds
<1>6. Recorded'
  <2>1. ASSUME NEW i \in DOMAIN pending' PROVE ~WasRun(pending[i].id)' /\ ~Started(i)'
    <3>1. \A c \in ran : c.id # pending'[i].id
      BY <1>1, <1>4, SMT
    <3> QED BY <1>2, <3>1 DEF WasRun, Started
  <2> QED BY <1>2, <2>1 DEF Recorded
<1> QED BY <1>3, <1>5, <1>6 DEF Accounts

(* A call that starts was not in ran; then it is, and no other is. *)
LEMMA StartAccounts ==
    ASSUME TypeOK, Accounts, pc = "execute", running = {},
           NEW S \in SUBSET (Ready \ DOMAIN outputs),
           running' = S, ran' = ran \cup {pending[i] : i \in S},
           UNCHANGED <<pc, pending, slots, outputs, issued>>
    PROVE  Accounts'
<1>0. S \subseteq DOMAIN pending
  BY DEF Ready
<1>1. Stages'
  BY DEF Accounts, Stages, Ready
<1>2. FreshIds'
  BY <1>0 DEF Accounts, FreshIds
<1>3. ASSUME NEW j \in DOMAIN pending PROVE WasRun(pending[j].id)' <=> Started(j)'
  <2>1. WasRun(pending[j].id)' <=> WasRun(pending[j].id) \/ \E i \in S : pending[i].id = pending[j].id
    BY DEF WasRun
  <2>2. (\E i \in S : pending[i].id = pending[j].id) <=> j \in S
    BY <1>0 DEF Accounts, FreshIds
  <2>3. WasRun(pending[j].id) <=> j \in DOMAIN outputs /\ outputs[j] # NotRun
    BY DEF Accounts, Recorded, Started
  <2>4. Started(j)' <=> j \in S \/ (j \in DOMAIN outputs /\ outputs[j] # NotRun)
    BY DEF Started
  <2> QED BY <2>1, <2>2, <2>3, <2>4
<1>4. Recorded'
  BY <1>3 DEF Accounts, Recorded
<1> QED BY <1>1, <1>2, <1>4 DEF Accounts

(* An output is filed for a call that is running, or waits and is refused. *)
LEMMA OutputAccounts ==
    ASSUME TypeOK, Accounts, pc = "execute",
           NEW i \in Ready \ DOMAIN outputs, NEW output,
           \/ i \in running /\ output = pending[i].id
           \/ i \notin running /\ output = NotRun,
           running' = running \ {i}, outputs' = WithOutput(i, output),
           UNCHANGED <<pc, pending, slots, issued, ran>>
    PROVE  Accounts'
<1>0. i \in DOMAIN pending /\ pending[i].id # NotRun
  BY PendingCall DEF Ready, NotRun
<1>1. /\ DOMAIN outputs' = DOMAIN outputs \cup {i}
      /\ outputs'[i] = output /\ \A j \in DOMAIN outputs : outputs'[j] = outputs[j]
  BY DEF WithOutput
<1>2. Stages'
  BY <1>1 DEF Accounts, Stages, Ready
<1>3. FreshIds'
  BY DEF Accounts, FreshIds
<1>4. ASSUME NEW j \in DOMAIN pending PROVE Started(j)' <=> Started(j)
  BY <1>0, <1>1 DEF Started
<1>5. Recorded'
  <2>1. \A j \in DOMAIN outputs' : outputs'[j] \in {NotRun, pending[j].id}
    BY <1>1 DEF Accounts, Recorded
  <2>2. \A j \in DOMAIN pending : WasRun(pending[j].id)' <=> WasRun(pending[j].id)
    BY DEF WasRun
  <2> QED BY <1>4, <2>1, <2>2 DEF Accounts, Recorded
<1> QED BY <1>2, <1>3, <1>5 DEF Accounts

LEMMA NextAccounts == TypeOK /\ Accounts /\ [Next]_vars => Accounts'
<1> SUFFICES ASSUME TypeOK, Accounts, [Next]_vars PROVE Accounts'
  OBVIOUS
<1>1. CASE CheckPermissions
  <2>1. running = {} /\ DOMAIN outputs = {}
    BY <1>1 DEF CheckPermissions, Accounts, Stages
  <2>2. Stages'
    BY <1>1, <2>1 DEF CheckPermissions, Stages
  <2>3. FreshIds' /\ Recorded'
    BY <1>1 DEF CheckPermissions, Accounts, FreshIds, Recorded, WasRun, Started
  <2> QED BY <2>2, <2>3 DEF Accounts
<1>2. CASE StartBatch
  <2>1. DOMAIN outputs = {}
    BY <1>2, SMT DEF StartBatch
  <2> QED BY <1>2, <2>1, StartAccounts DEF StartBatch
<1>3. ASSUME NEW i \in DOMAIN pending, StartNext(i) PROVE Accounts'
  <2>1. i \in Ready \ DOMAIN outputs
    BY <1>3 DEF StartNext, IsNext, Waiting
  <2>2. {i} \in SUBSET (Ready \ DOMAIN outputs) /\ {pending[j] : j \in {i}} = {pending[i]}
    BY <2>1
  <2> QED BY <1>3, <2>2, StartAccounts DEF StartNext
<1>4. ASSUME NEW i \in DOMAIN pending, RefuseNext(i) PROVE Accounts'
  <2>1. i \in Ready \ DOMAIN outputs /\ running = {}
    BY <1>4 DEF RefuseNext, IsNext, Waiting
  <2>2. running' = running \ {i} /\ i \notin running
    BY <1>4, <2>1 DEF RefuseNext
  <2> QED BY <1>4, <2>1, <2>2, OutputAccounts DEF RefuseNext
<1>5. ASSUME NEW i \in DOMAIN pending, FinishTool(i) PROVE Accounts'
  <2>1. i \in Ready \ DOMAIN outputs
    BY <1>5 DEF FinishTool, Accounts, Stages
  <2> QED BY <1>5, <2>1, OutputAccounts DEF FinishTool
<1>6. CASE PushResults
  <2>1. DOMAIN pending' = {} /\ running' = {} /\ DOMAIN outputs' = {} /\ pc' = "head"
    BY <1>6, SMT DEF PushResults, NoTools
  <2> QED BY <1>6, <2>1 DEF PushResults, Accounts, Stages, FreshIds, Recorded
<1>7. CASE UNCHANGED vars
  BY <1>7 DEF vars, toolVars, Accounts, Stages, FreshIds, Recorded, Ready, WasRun, Started
<1> QED BY <1>1, <1>2, <1>3, <1>4, <1>5, <1>6, <1>7, ReplyAccounts, UntouchedSteps, UntouchedAccounts
        DEF Next, LoopStep, ApiStep, ToolStep

LEMMA InitAccounts == Init => Accounts
<1> SUFFICES ASSUME Init PROVE Accounts
  OBVIOUS
<1>1. DOMAIN pending = {} /\ DOMAIN outputs = {} /\ running = {} /\ ran = {}
  BY SMT DEF Init
<1> QED BY <1>1 DEF Init, Accounts, Stages, FreshIds, Recorded

(***************************************************************************)
(* Which tools run beside which, and how often.                            *)
(***************************************************************************)

(* No tool is started twice for a call (execute_batch, execute). *)
THEOREM CallsRunAtMostOnce == Spec => CallsRunOnce
<1>1. Accounts /\ [Next]_vars => [\A i \in running' \ running : pending[i] \notin ran]_vars
  <2> SUFFICES ASSUME Accounts, Next, NEW i \in running' \ running PROVE pending[i] \notin ran
    OBVIOUS
  <2>0. ASSUME i \in Ready \ DOMAIN outputs, running = {} PROVE pending[i] \notin ran
    <3>1. i \in DOMAIN pending /\ ~Started(i)
      BY <2>0 DEF Ready, Started
    <3>2. ~WasRun(pending[i].id)
      BY <3>1 DEF Accounts, Recorded
    <3> QED BY <3>2 DEF WasRun
  <2>1. CASE StartBatch
    <3>1. DOMAIN outputs = {} /\ running = {} /\ i \in Ready
      BY <2>1, SMT DEF StartBatch
    <3> QED BY <2>0, <3>1
  <2>2. ASSUME NEW j \in DOMAIN pending, StartNext(j) PROVE pending[i] \notin ran
    <3>1. i = j /\ running = {} /\ i \in Ready \ DOMAIN outputs
      BY <2>2 DEF StartNext, IsNext, Waiting
    <3> QED BY <2>0, <3>1
  <2>3. ASSUME running' \subseteq running PROVE FALSE
    BY <2>3
  <2>4. ASSUME NEW n \in 0 .. MaxCalls, Reply(n) PROVE FALSE
    BY <2>4 DEF Reply
  <2>5. ASSUME NEW j \in DOMAIN pending, FinishTool(j) \/ RefuseNext(j) PROVE FALSE
    BY <2>5 DEF FinishTool, RefuseNext
  <2>6. ASSUME CheckPermissions \/ PushResults PROVE FALSE
    BY <2>6 DEF CheckPermissions, PushResults, NoTools
  <2>7. ASSUME Untouched PROVE FALSE
    BY <2>7 DEF Untouched
  <2> QED BY <2>1, <2>2, <2>4, <2>5, <2>6, <2>7, UntouchedSteps DEF Next, LoopStep, ApiStep, ToolStep
<1> QED BY <1>1, InitAccounts, TypeCorrect, NextAccounts, PTL DEF Spec, CallsRunOnce

(* What runs is a batch of safe calls, or one call all of whose predecessors *)
(* have returned.                                                          *)
Alone(i) == running = {i} /\ \A j \in Ready : j < i => j \in DOMAIN outputs

InOrder == running # {} => Concurrent \/ \E i \in Ready : Alone(i)

LEMMA NextInOrder == TypeOK /\ Accounts /\ InOrder /\ [Next]_vars => InOrder'
<1> SUFFICES ASSUME TypeOK, Accounts, InOrder, [Next]_vars PROVE InOrder'
  OBVIOUS
<1>1. CASE StartBatch
  BY <1>1 DEF StartBatch, InOrder, Concurrent, Ready
<1>2. ASSUME NEW i \in DOMAIN pending, StartNext(i) PROVE InOrder'
  <2>1. i \in Ready /\ running' = {i} /\ Ready' = Ready /\ outputs' = outputs
    BY <1>2 DEF StartNext, IsNext, Waiting, Ready
  <2>2. ASSUME NEW j \in Ready, j < i PROVE j \in DOMAIN outputs
    <3>1. i \in Nat /\ j \in Nat
      BY DEF Ready, TypeOK
    <3>2. j \notin Waiting
      BY <1>2, <2>2, <3>1, SMT DEF StartNext, IsNext
    <3> QED BY <3>2 DEF Waiting
  <2> QED BY <2>1, <2>2 DEF InOrder, Alone
<1>3. ASSUME NEW i \in DOMAIN pending, FinishTool(i) PROVE InOrder'
  <2>1. /\ running' = running \ {i} /\ Ready' = Ready /\ i \in running
        /\ pending' = pending
    BY <1>3 DEF FinishTool, Ready
  <2>2. CASE Concurrent
    BY <2>1, <2>2 DEF InOrder, Concurrent
  <2>3. CASE ~Concurrent
    <3>1. running' = {}
      BY <2>1, <2>3 DEF InOrder, Alone
    <3> QED BY <3>1 DEF InOrder
  <2> QED BY <2>2, <2>3
<1>4. ASSUME running' = {} PROVE InOrder'
  BY <1>4 DEF InOrder
<1>5. CASE \E n \in 0 .. MaxCalls : Reply(n)
  BY <1>4, <1>5 DEF Reply
<1>6. CASE CheckPermissions
  BY <1>4, <1>6 DEF CheckPermissions, Accounts, Stages
<1>7. CASE PushResults
  BY <1>4, <1>7 DEF PushResults, NoTools
<1>8. CASE \E i \in DOMAIN pending : RefuseNext(i)
  BY <1>4, <1>8 DEF RefuseNext
<1>9. CASE Untouched
  BY <1>4, <1>9 DEF Untouched, Accounts, Stages
<1>10. CASE UNCHANGED vars
  BY <1>10 DEF vars, toolVars, InOrder, Concurrent, Ready, Alone
<1> QED BY <1>1, <1>2, <1>3, <1>5, <1>6, <1>7, <1>8, <1>9, <1>10, UntouchedSteps
        DEF Next, LoopStep, ApiStep, ToolStep

(* A tool that is not safe to run beside others runs alone, after all the   *)
(* approved calls before it.                                               *)
THEOREM UnsafeToolsAreAlone == Spec => []UnsafeToolsRunAlone
<1>1. Init => InOrder
  BY DEF Init, InOrder
<1>2. Accounts /\ InOrder => UnsafeToolsRunAlone
  <2> SUFFICES ASSUME Accounts, InOrder, NEW i \in running, pending[i].tool \notin SafeTools
               PROVE  running = {i} /\ \A j \in Ready : j < i => j \in DOMAIN outputs
    BY DEF UnsafeToolsRunAlone
  <2>1. i \in Ready
    BY DEF Accounts, Stages
  <2>2. ~Concurrent
    BY <2>1 DEF Concurrent
  <2> QED BY <2>2 DEF InOrder, Alone
<1> QED BY <1>1, <1>2, InitAccounts, TypeCorrect, NextAccounts, NextInOrder, PTL DEF Spec

(***************************************************************************)
(* What the results say.                                                   *)
(***************************************************************************)

(* The result m is of a call that is over, and says what became of it. *)
SaysTruth(m) ==
    m.role = "tool" =>
        /\ m.of <= issued
        /\ \A i \in DOMAIN pending : pending[i].id # m.of
        /\ m.output = IF WasRun(m.of) THEN m.of ELSE NotRun

Truth == \A j \in DOMAIN session : SaysTruth(session[j])

(* A compaction brings in no message but a summary. *)
LEMMA CompactMessages ==
    ASSUME NEW s \in Seq(Message), NEW preserve \in Nat, NEW heavy \in BOOLEAN,
           NEW j \in DOMAIN CompactSession(s, preserve, heavy)
    PROVE  LET m == CompactSession(s, preserve, heavy)[j]
           IN  m = SummaryMessage \/ \E i \in DOMAIN s : m = s[i]
<1> DEFINE kept == SubSeq(s, Len(s) - preserve + 1, Len(s))
           t    == <<SummaryMessage>> \o kept
<1>1. CASE ~ShouldCompact(s, preserve, heavy)
  BY <1>1 DEF CompactSession
<1>2. CASE ShouldCompact(s, preserve, heavy)
  <2>0. CompactSession(s, preserve, heavy) = t
    BY <1>2 DEF CompactSession
  <2>1. Len(s) \in Nat /\ Len(s) - preserve \in Nat
    BY <1>2, SMT DEF ShouldCompact, CompactedPrefixLen
  <2>2. /\ kept \in Seq(Message) /\ Len(kept) = preserve
        /\ \A k \in 1 .. preserve :
              Len(s) - preserve + k \in DOMAIN s /\ kept[k] = s[Len(s) - preserve + k]
    BY <2>1, SMT
  <2>3. SummaryMessage \in Message
    BY SMT DEF SummaryMessage, Message, NotRun
  <2>4. /\ DOMAIN t = 1 .. preserve + 1
        /\ t[1] = SummaryMessage
        /\ \A k \in 2 .. preserve + 1 : k - 1 \in 1 .. preserve /\ t[k] = kept[k - 1]
    BY <2>2, <2>3, SMT
  <2>5. j \in 1 .. preserve + 1
    BY <2>0, <2>4
  <2>6. CASE j = 1
    BY <2>0, <2>4, <2>6
  <2>7. CASE j # 1
    <3>1. j \in 2 .. preserve + 1
      BY <2>5, <2>7, SMT
    <3>2. t[j] = s[Len(s) - preserve + (j - 1)] /\ Len(s) - preserve + (j - 1) \in DOMAIN s
      BY <2>2, <2>4, <3>1
    <3> HIDE DEF t
    <3> QED BY <2>0, <3>2
  <2> QED BY <2>6, <2>7
<1> QED BY <1>1, <1>2

(* Where the calls and the accounts of them stay, true messages stay true. *)
LEMMA TruthStays ==
    ASSUME NEW m, SaysTruth(m),
           UNCHANGED <<pending, issued>>,
           ran' \ ran \subseteq {pending[i] : i \in DOMAIN pending}, ran \subseteq ran'
    PROVE  SaysTruth(m)'
<1>1. m.role = "tool" => (WasRun(m.of) <=> WasRun(m.of)')
  BY DEF SaysTruth, WasRun
<1> QED BY <1>1 DEF SaysTruth

LEMMA UntouchedTruth ==
    ASSUME TypeOK, Truth, Untouched,
           \A j \in DOMAIN session' :
               session'[j].role # "tool" \/ \E i \in DOMAIN session : session'[j] = session[i]
    PROVE  Truth'
<1> SUFFICES ASSUME NEW j \in DOMAIN session' PROVE SaysTruth(session[j])'
  BY DEF Truth
<1>1. CASE session'[j].role # "tool"
  BY <1>1 DEF SaysTruth
<1>2. ASSUME NEW i \in DOMAIN session, session'[j] = session[i] PROVE SaysTruth(session[j])'
  <2> DEFINE m == session[i]
  <2>1. SaysTruth(m)
    BY DEF Truth
  <2>2. UNCHANGED <<pending, issued, ran>>
    BY DEF Untouched
  <2> QED BY <1>2, <2>1, <2>2 DEF SaysTruth, WasRun
<1> QED BY <1>1, <1>2

(* What the loop does to the session while it handles no reply: a message   *)
(* that is no result at the end, or a compaction.                          *)
LEMMA NoNewResults ==
    ASSUME TypeOK,
           \/ RunTurn \/ NextIteration \/ MaxIterationsExceeded \/ UnusableReply
           \/ TransportError \/ Rebuild \/ CompactCommand
           \/ \E e \in ApiErrors : \/ RetryRequest(e) \/ AutocompactRetry(e)
                                   \/ ReactiveCompactRetry(e) \/ GiveUp(e),
           NEW j \in DOMAIN session'
    PROVE  session'[j].role # "tool" \/ \E i \in DOMAIN session : session'[j] = session[i]
<1>0. session \in Seq(Message) /\ Len(session) \in Nat
  BY SMT DEF TypeOK
<1>1. ASSUME NEW preserve \in Nat, NEW heavy \in BOOLEAN,
             session' = CompactSession(session, preserve, heavy)
      PROVE  session'[j].role # "tool" \/ \E i \in DOMAIN session : session'[j] = session[i]
  <2>1. SummaryMessage.role # "tool"
    BY DEF SummaryMessage
  <2> QED BY <1>0, <1>1, <2>1, CompactMessages
<1>2. CASE RunTurn
  <2>1. UserMessage \in Message /\ UserMessage.role # "tool"
    BY SMT DEF UserMessage, Message, NotRun
  <2>2. session' = Append(session, UserMessage)
    BY <1>2 DEF RunTurn
  <2>3. j \in DOMAIN session \/ j = Len(session) + 1
    BY <1>0, <2>1, <2>2, SMT
  <2>4. CASE j \in DOMAIN session
    <3>1. session'[j] = session[j]
      BY <1>0, <2>1, <2>2, <2>4, SMT
    <3> QED BY <2>4, <3>1
  <2>5. CASE j = Len(session) + 1
    <3>1. session'[j] = UserMessage
      BY <1>0, <2>1, <2>2, <2>5, SMT
    <3> QED BY <2>1, <3>1
  <2> QED BY <2>3, <2>4, <2>5
<1>3. CASE session' = session
  BY <1>3
<1>4. CASE CompactCommand \/ \E e \in ApiErrors : AutocompactRetry(e)
  BY <1>1, <1>4, SizesAssumption DEF CompactCommand, AutocompactRetry
<1>5. ASSUME NEW e \in ApiErrors, ReactiveCompactRetry(e)
      PROVE  session'[j].role # "tool" \/ \E i \in DOMAIN session : session'[j] = session[i]
  <2>1. e.overflow \in Nat \cup {NoOverflow}
    BY ErrorsAssumption DEF ApiError
  <2>2. PreserveRecentForReactiveCompact(e.overflow, Len(session)) \in Nat
    BY <1>0, <2>1, PreserveType
  <2> QED BY <1>1, <1>5, <2>2 DEF ReactiveCompactRetry
<1> QED BY <1>2, <1>3, <1>4, <1>5
        DEF NextIteration, MaxIterationsExceeded, UnusableReply, TransportError, Rebuild,
            RetryRequest, GiveUp

LEMMA ReplyTruth ==
    ASSUME TypeOK, Accounts, Truth, NEW n \in 0 .. MaxCalls, Reply(n)
    PROVE  Truth'
<1>1. /\ n \in Nat /\ issued \in Nat /\ issued' = issued + n /\ DOMAIN pending' = 1 .. n
      /\ \A k \in 1 .. n : pending'[k].id = issued + k
  BY ReplyIds DEF TypeOK
<1>2. /\ session \in Seq(Message) /\ Len(session) \in Nat /\ pending' \in Seq(Call)
      /\ session' = Append(session, AssistantMessage(pending')) /\ ran' = ran
  <2>1. session \in Seq(Message) /\ Len(session) \in Nat
    BY SMT DEF TypeOK
  <2>2. pending' \in Seq(Call)
    BY ReplyTypeOK DEF TypeOK
  <2>3. session' = Append(session, AssistantMessage(pending')) /\ ran' = ran
    BY DEF Reply
  <2> QED BY <2>1, <2>2, <2>3
<1> SUFFICES ASSUME NEW j \in DOMAIN session' PROVE SaysTruth(session[j])'
  BY DEF Truth
<1> DEFINE msg == AssistantMessage(pending')
<1>3. msg \in Message /\ msg.role # "tool"
  BY <1>2 DEF AssistantMessage, Message, NotRun
<1> HIDE DEF msg
<1>4. j \in DOMAIN session \/ j = Len(session) + 1
  BY <1>2, <1>3 DEF msg
<1>5. CASE j \in DOMAIN session
  <2> DEFINE m == session[j]
  <2>1. session'[j] = m
    BY <1>2, <1>3, <1>5 DEF msg
  <2>2. SaysTruth(m) /\ m \in Message /\ m.of \in Nat
    BY <1>2, <1>5, MessageAt DEF Truth, Message
  <2> HIDE DEF m
  <2>3. m.role = "tool" => m.of <= issued' /\ \A i \in DOMAIN pending' : pending'[i].id # m.of
    BY <1>1, <2>2 DEF SaysTruth
  <2>4. m.role = "tool" => m.output = IF \E c \in ran' : c.id = m.of THEN m.of ELSE NotRun
    BY <1>2, <2>2 DEF SaysTruth, WasRun
  <2> QED BY <2>1, <2>3, <2>4 DEF SaysTruth, WasRun
<1>6. CASE j = Len(session) + 1
  <2>1. session'[j] = msg
    BY <1>2, <1>3, <1>6 DEF msg
  <2> QED BY <1>3, <2>1 DEF SaysTruth
<1> QED BY <1>4, <1>5, <1>6

LEMMA PushResultsTruth ==
    ASSUME TypeOK, Accounts, Truth, PushResults
    PROVE  Truth'
<1> DEFINE results == [i \in DOMAIN pending |-> ResultOf(i)]
<1>1. /\ session \in Seq(Message) /\ pending \in Seq(Call) /\ session' = session \o results
      /\ ran' = ran /\ issued' = issued /\ DOMAIN pending' = {}
  BY SMT DEF TypeOK, PushResults, NoTools
<1>2. ASSUME NEW i \in DOMAIN pending
      PROVE  /\ ResultOf(i).of = pending[i].id
             /\ ResultOf(i).output = IF WasRun(pending[i].id) THEN pending[i].id ELSE NotRun
  <2>1. WasRun(pending[i].id) <=> i \in DOMAIN outputs /\ outputs[i] # NotRun
    BY DEF PushResults, Accounts, Recorded, Started
  <2> QED BY <2>1 DEF ResultOf, ToolResult, Accounts, Recorded
<1>3. results \in Seq(Message)
  <2>1. \A i \in DOMAIN pending : ResultOf(i) \in Message
    <3> SUFFICES ASSUME NEW i \in DOMAIN pending PROVE ResultOf(i) \in Message
      OBVIOUS
    <3>1. pending[i].id \in Nat
      BY PendingCall
    <3>2. <<>> \in Seq(Call)
      BY SMT
    <3>3. i \in DOMAIN outputs => outputs[i] \in Nat
      BY DEF TypeOK
    <3> QED BY <3>1, <3>2, <3>3 DEF ResultOf, ToolResult, Message, NotRun
  <2> QED BY <1>1, <2>1, SMT
<1> SUFFICES ASSUME NEW j \in DOMAIN session' PROVE SaysTruth(session[j])'
  BY DEF Truth
<1>4. /\ j \in DOMAIN session => session'[j] = session[j]
      /\ j \notin DOMAIN session => \E i \in DOMAIN pending : session'[j] = results[i]
  <2>1. Len(results) = Len(pending) /\ DOMAIN pending = 1 .. Len(pending) /\ Len(pending) \in Nat
    BY <1>1, <1>3, SMT
  <2>2. DOMAIN session' = 1 .. Len(session) + Len(pending) /\ Len(session) \in Nat
    BY <1>1, <1>3, <2>1, SMT
  <2>3. j \in DOMAIN session => session'[j] = session[j]
    BY <1>1, <1>3, SMT
  <2>4. ASSUME j \notin DOMAIN session
        PROVE  j - Len(session) \in DOMAIN pending /\ session'[j] = results[j - Len(session)]
    BY <1>1, <1>3, <2>1, <2>2, <2>4, SMT
  <2> QED BY <2>3, <2>4
<1>5. CASE j \in DOMAIN session
  <2> DEFINE m == session[j]
  <2>1. session'[j] = m /\ SaysTruth(m)
    BY <1>4, <1>5 DEF Truth
  <2> HIDE DEF m
  <2> QED BY <1>1, <2>1 DEF SaysTruth, WasRun
<1>6. ASSUME NEW i \in DOMAIN pending, session'[j] = results[i] PROVE SaysTruth(session[j])'
  <2> DEFINE id == pending[i].id
  <2>1. session'[j].of = id /\ session'[j].output = IF WasRun(id) THEN id ELSE NotRun
    BY <1>2, <1>6
  <2>2. id <= issued
    BY DEF Accounts, FreshIds
  <2> HIDE DEF id
  <2> QED BY <1>1, <2>1, <2>2 DEF SaysTruth, WasRun
<1> QED BY <1>4, <1>5, <1>6

LEMMA NextTruth == TypeOK /\ Accounts /\ Truth /\ [Next]_vars => Truth'
<1> SUFFICES ASSUME TypeOK, Accounts, Truth, [Next]_vars PROVE Truth'
  OBVIOUS
<1>1. ASSUME UNCHANGED <<session, pending, issued>>,
             ran' \ ran \subseteq {pending[i] : i \in DOMAIN pending}, ran \subseteq ran'
      PROVE  Truth'
  BY <1>1, TruthStays DEF Truth
<1>2. CASE CheckPermissions \/ \E i \in DOMAIN pending : RefuseNext(i) \/ FinishTool(i)
  BY <1>1, <1>2 DEF CheckPermissions, RefuseNext, FinishTool
<1>3. CASE StartBatch \/ \E i \in DOMAIN pending : StartNext(i)
  BY <1>1, <1>3 DEF StartBatch, StartNext, Ready
<1>4. CASE UNCHANGED vars
  BY <1>1, <1>4 DEF vars, toolVars
<1> QED BY <1>2, <1>3, <1>4, ReplyTruth, PushResultsTruth, UntouchedSteps, UntouchedTruth,
           NoNewResults
        DEF Next, LoopStep, ApiStep, ToolStep

(* A result says of its call what happened, whatever was denied, refused,   *)
(* run beside it or compacted since.                                       *)
THEOREM ResultsAreTrue == Spec => []ResultsTellTheTruth
<1>1. Init => Truth
  BY SMT DEF Init, Truth
<1>2. Truth => ResultsTellTheTruth
  BY DEF Truth, SaysTruth, ResultsTellTheTruth
<1> QED BY <1>1, <1>2, InitAccounts, TypeCorrect, NextAccounts, NextTruth, PTL DEF Spec

(***************************************************************************)
(* The protocol of a turn.                                                 *)
(***************************************************************************)

(* Where every call is answered in place, none is owed. *)
LEMMA NothingOwed ==
    ASSUME NEW s, WellAnswered(s)
    PROVE  OwedIn(s) = {}
<1> SUFFICES ASSUME NEW i \in DOMAIN s, NEW k \in DOMAIN s[i].calls
             PROVE  \E j \in DOMAIN s : s[j].role = "tool" /\ s[j].of = s[i].calls[k].id
  BY DEF OwedIn
<1> QED BY DEF WellAnswered, AnsweredInPlace

(* After a reply its calls are owed: what was given before is answered, and *)
(* no old result bears a new id.                                           *)
LEMMA ReplyOwes ==
    ASSUME TypeOK, Accounts, Truth, Transcript, NEW n \in 0 .. MaxCalls, Reply(n)
    PROVE  OwedIn(session') = issued + 1 .. issued + n
<1> DEFINE msg == AssistantMessage(pending')
           t   == session'
<1>1. /\ n \in Nat /\ issued \in Nat /\ DOMAIN pending' = 1 .. n
      /\ \A k \in 1 .. n : pending'[k].id = issued + k
  BY ReplyIds DEF TypeOK
<1>2. /\ session \in Seq(Message) /\ Len(session) \in Nat /\ WellAnswered(session)
      /\ t = Append(session, msg)
  <2>1. session \in Seq(Message) /\ Len(session) \in Nat
    BY SMT DEF TypeOK
  <2>2. WellAnswered(session)
    BY Settled DEF Reply, Transcript
  <2> QED BY <2>1, <2>2 DEF Reply
<1>3. msg.role = "assistant" /\ msg.calls = pending' /\ msg \in Message
  <2>1. pending' \in Seq(Call)
    BY ReplyTypeOK DEF TypeOK
  <2> QED BY <2>1 DEF AssistantMessage, Message, NotRun
<1> HIDE DEF msg
<1>4. /\ DOMAIN t = DOMAIN session \cup {Len(session) + 1}
      /\ t[Len(session) + 1] = msg
      /\ \A j \in DOMAIN session : t[j] = session[j]
  BY <1>2, <1>3
<1> HIDE DEF t
<1>5. ASSUME NEW i \in DOMAIN session, NEW k \in DOMAIN session[i].calls
      PROVE  \E j \in DOMAIN t : t[j].role = "tool" /\ t[j].of = session[i].calls[k].id
  BY <1>2, <1>4, <1>5 DEF WellAnswered, AnsweredInPlace
<1>6. ASSUME NEW j \in DOMAIN t, t[j].role = "tool" PROVE t[j].of \in Nat /\ t[j].of <= issued
  <2>1. j \in DOMAIN session /\ t[j] = session[j]
    BY <1>3, <1>4, <1>6
  <2>2. session[j] \in Message
    BY <1>2, <2>1, MessageAt
  <2> QED BY <1>6, <2>1, <2>2 DEF Truth, SaysTruth, Message
<1>7. ASSUME NEW id \in OwedIn(t) PROVE id \in issued + 1 .. issued + n
  <2>1. PICK i \in DOMAIN t : t[i].role = "assistant" /\ \E k \in DOMAIN t[i].calls : id = t[i].calls[k].id
    BY <1>7 DEF OwedIn
  <2>2. \A j \in DOMAIN t : t[j].role = "tool" => t[j].of # id
    BY <1>7 DEF OwedIn
  <2>3. i = Len(session) + 1
    BY <1>4, <1>5, <2>1, <2>2
  <2>4. PICK k \in 1 .. n : id = pending'[k].id
    BY <1>1, <1>3, <1>4, <2>1, <2>3
  <2> QED BY <1>1, <2>4
<1>8. ASSUME NEW id \in issued + 1 .. issued + n PROVE id \in OwedIn(t)
  <2>1. id - issued \in 1 .. n /\ issued + (id - issued) = id
    BY <1>1
  <2>2. id = t[Len(session) + 1].calls[id - issued].id
    BY <1>1, <1>3, <1>4, <2>1
  <2>3. \A j \in DOMAIN t : t[j].role = "tool" => t[j].of # id
    BY <1>1, <1>6
  <2>4. Len(session) + 1 \in DOMAIN t /\ t[Len(session) + 1].role = "assistant"
    BY <1>3, <1>4
  <2>5. id - issued \in DOMAIN t[Len(session) + 1].calls
    BY <1>1, <1>3, <1>4, <2>1
  <2> QED BY <2>2, <2>3, <2>4, <2>5 DEF OwedIn
<1> QED BY <1>7, <1>8 DEF t

LEMMA NextKeepsProtocol ==
    ASSUME TypeOK, Accounts, Truth, Transcript, [Next]_vars
    PROVE  [Protocol!Next]_(Protocol!vars)
<1> DEFINE owed == OwedIn(session)
<1>1. pc \notin {"permit", "execute"} => owed = {}
  BY Settled, NothingOwed DEF Transcript
<1>2. pc' \notin {"permit", "execute"} => owed' = {}
  <2>1. Transcript'
    BY NextTranscript
  <2>2. ASSUME pc' \notin {"permit", "execute"} PROVE WellAnswered(session')
    BY <2>1, <2>2 DEF Transcript, EveryCallAnswered, BeingHandled, WellAnswered
  <2> QED BY <2>2, NothingOwed
<1>3. CASE UNCHANGED <<session, pc, issued>>
  BY <1>3 DEF Protocol!vars
<1>4. ASSUME UNCHANGED issued, pc \notin {"permit", "execute"}, pc' \notin {"permit", "execute"}
      PROVE  [Protocol!Next]_(Protocol!vars)
  <2>1. owed = {} /\ owed' = {}
    BY <1>1, <1>2, <1>4
  <2> HIDE DEF owed
  <2> QED BY <1>4, <2>1 DEF owed, Protocol!vars, Protocol!Next, Protocol!Begin, Protocol!End
<1>5. ASSUME NEW n \in 0 .. MaxCalls, Reply(n) PROVE [Protocol!Next]_(Protocol!vars)
  <2>1. /\ n \in Nat /\ issued \in Nat /\ issued' = issued + n
        /\ pc = "stream" /\ pc' = IF n = 0 THEN "idle" ELSE "permit"
    BY <1>5, ReplyIds DEF Reply, TypeOK
  <2>2. owed = {} /\ owed' = issued + 1 .. issued + n
    BY <1>1, <1>5, <2>1, ReplyOwes
  <2> HIDE DEF owed
  <2>3. CASE n = 0
    <3>1. Protocol!End
      BY <2>1, <2>2, <2>3 DEF owed, Protocol!End
    <3> QED BY <3>1 DEF Protocol!Next
  <2>4. CASE n # 0
    <3>1. Protocol!Reply
      BY <2>1, <2>2, <2>4 DEF owed, Protocol!Reply
    <3> QED BY <3>1 DEF Protocol!Next
  <2> QED BY <2>3, <2>4
<1>6. CASE PushResults
  <2>1. pc = "execute" /\ pc' = "head" /\ issued' = issued
    BY <1>6 DEF PushResults
  <2>2. owed' = {}
    BY <1>2, <2>1
  <2> HIDE DEF owed
  <2> QED BY <2>1, <2>2 DEF owed, Protocol!Next, Protocol!Answer, Protocol!vars
<1>7. CASE CheckPermissions \/ StartBatch \/ \E i \in DOMAIN pending :
              StartNext(i) \/ RefuseNext(i) \/ FinishTool(i)
  <2>1. pc # "idle" /\ pc' # "idle" /\ UNCHANGED <<session, issued>>
    BY <1>7 DEF CheckPermissions, StartBatch, StartNext, RefuseNext, FinishTool
  <2> QED BY <2>1 DEF Protocol!vars
<1>8. CASE Untouched
  BY <1>4, <1>8 DEF Untouched
<1>9. CASE UNCHANGED vars
  BY <1>3, <1>9 DEF vars
<1> QED BY <1>5, <1>6, <1>7, <1>8, <1>9, UntouchedSteps DEF Next, LoopStep, ApiStep, ToolStep

(* Whatever fails, is retried, refused or compacted, the loop speaks only    *)
(* when it owes no answer and answers all calls of a reply at once: its      *)
(* steps are steps of TurnProtocol.  (That it does answer in the end, the    *)
(* rest of KeepsTurnProtocol, is left to TLC.)                              *)
THEOREM LoopKeepsProtocol == Spec => Protocol!Init /\ [][Protocol!Next]_(Protocol!vars)
<1>1. Init => Protocol!Init
  <2> SUFFICES ASSUME Init PROVE OwedIn(session) = {} /\ pc = "idle" /\ issued = 0
    BY DEF Protocol!Init
  <2>1. DOMAIN session = {}
    BY SMT DEF Init
  <2> QED BY <2>1 DEF Init, OwedIn
<1>2. Init => Truth /\ Transcript
  BY SMT DEF Init, Truth, Transcript, EveryCallAnswered, Handling
<1> QED BY <1>1, <1>2, InitAccounts, TypeCorrect, NextAccounts, NextTruth, NextTranscript,
           NextKeepsProtocol, PTL DEF Spec
=============================================================================
