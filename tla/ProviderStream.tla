---------------------------- MODULE ProviderStream ----------------------------
(***************************************************************************)
(* One model request as the conversation sees it: the client that retries   *)
(* it (api/src/providers), the events its stream is turned into             *)
(* (openai_compat_stream.rs), their assembly into a reply (stream.rs), the  *)
(* request without streaming when nothing came, the one without tools, and  *)
(* the models fallen back to (runtime_client/mod.rs).                       *)
(*                                                                         *)
(* A provider says a sequence of chunks, each with one part; a piece of     *)
(* text is its place in that sequence.  Bytes, usage, models' names and     *)
(* prompt caching are left out.                                            *)
(***************************************************************************)
EXTENDS Naturals, Sequences, FiniteSets

CONSTANTS
    Routes,      \* the protocol of each model: the first, then the fallbacks
    Errors,      \* what the text and the status of an error may mean
    MaxRetries,  \* RetryPolicy::max_retries
    Desktop,     \* there is a cancel flag
    MaxCalls,    \* bound: tool calls of a reply
    MaxSaid,     \* bound: chunks of a stream
    MaxStreams   \* bound: requests of the conversation

Meanings == {"retryable", "tools", "busy"}
ASSUME RoutesAssumption ==
    Len(Routes) > 0 /\ Routes \in Seq({"openai", "custom", "anthropic"})
ASSUME ErrorsAssumption == Errors \subseteq SUBSET Meanings /\ Errors # {}
ASSUME RetriesAssumption ==
    {MaxRetries, MaxCalls, MaxSaid, MaxStreams} \subseteq Nat /\ Desktop \in BOOLEAN

Models  == 1 .. Len(Routes)
Calls   == 0 .. MaxCalls - 1
Pieces  == 1 .. MaxSaid
Blocks  == 0 .. MaxSaid + MaxCalls
NoBlock == MaxSaid + MaxCalls + 1
NoTool  == MaxCalls

(* A part of a message: text, reasoning, a piece of a call, or only the     *)
(* finish_reason "tool_calls", which any chunk may carry.                  *)
Chunk == [part : {"text", "thinking", "tool", "none"}, call : 0 .. MaxCalls,
          named : BOOLEAN, args : BOOLEAN, finish : BOOLEAN]

Event(type, index, part, call, pieces) ==
    [type |-> type, index |-> index, part |-> part, call |-> call, pieces |-> pieces]

VARIABLES
    model,      \* the client's model and provider
    toolsOff,   \* tools_disabled_by_provider
    cancelled,  \* the user has stopped the reply
    at, round,  \* where the request is, and in which of its dispatches
    trying,     \* the model it goes to
    tools,      \* it carries tool definitions
    asked,      \* it is made again without streaming
    attempts,   \* of send_with_retry
    said,       \* the provider's chunks
    norm,       \* StreamState of the provider client
    pending,    \* events not yet read
    over,       \* the body has ended
    tool,       \* pending_tool
    events,     \* the reply so far
    outcome,
    streams,                     \* bound
    phase, open, closed, heard   \* history: the events that were read

client  == <<model, toolsOff, cancelled>>
request == <<at, round, trying, tools, asked, attempts>>
body    == <<said, norm, pending, over>>
reply   == <<tool, events>>
read    == <<phase, open, closed, heard>>
providerVars    == <<client, request, body, reply, read, outcome, streams>>

Spoken == {"thinking", "text"}

NoCall == [named |-> FALSE, args |-> <<>>, sent |-> 0, block |-> NoBlock,
           started |-> FALSE, stopped |-> FALSE]

NewNorm == [started |-> FALSE, next |-> 0, block |-> [part \in Spoken |-> NoBlock],
            calls |-> [c \in Calls |-> NoCall]]

Nothing == [call |-> NoTool, args |-> <<>>]

ProviderInit ==
    /\ model = 1 /\ toolsOff = FALSE /\ cancelled = FALSE
    /\ at = "idle" /\ round = "first" /\ trying = 1 /\ tools = FALSE /\ asked = FALSE
    /\ attempts = 0 /\ said = <<>> /\ norm = NewNorm /\ pending = <<>> /\ over = FALSE
    /\ tool = Nothing /\ events = <<>> /\ outcome = "none" /\ streams = 0
    /\ phase = "none" /\ open = {} /\ closed = {} /\ heard = NoBlock

-----------------------------------------------------------------------------
(* What a chunk does to the normaliser: the new state and the events.      *)
Became(n, out)      == [norm |-> n, out |-> out]
Then(before, after) == Became(after.norm, before.out \o after.out)

StopOf(i) == Event("stop", i, "none", NoTool, <<>>)

Silenced(n, parts) == [part \in Spoken |-> IF part \in parts THEN NoBlock ELSE n.block[part]]

(* Mutant: an open text block is forgotten, not stopped. *)
ShutSilently(n, parts) ==
    Became([n EXCEPT !.block = Silenced(n, parts)],
           IF "thinking" \in parts /\ n.block["thinking"] # NoBlock
           THEN <<StopOf(n.block["thinking"])>> ELSE <<>>)

Shut(n, parts) ==
    LET Stops(part) == IF part \in parts /\ n.block[part] # NoBlock
                       THEN <<StopOf(n.block[part])>> ELSE <<>>
    IN Became([n EXCEPT !.block = Silenced(n, parts)], Stops("thinking") \o Stops("text"))

(* Reasoning leaves an open text block open; text ends the reasoning.      *)
Speak(n, part, k) ==
    LET shut == Shut(n, {"thinking"} \ {part})
        new  == n.block[part] = NoBlock
        i    == IF new THEN n.next ELSE n.block[part]
    IN Became([shut.norm EXCEPT !.block[part] = i, !.next = IF new THEN @ + 1 ELSE @],
              shut.out \o
              (IF new THEN <<Event("block", i, part, NoTool, <<>>)>> ELSE <<>>) \o
              <<Event("delta", i, part, NoTool, <<k>>)>>)

(* ToolCallState::apply, and a block of its own after those before.        *)
Applied(n, chunk, k) ==
    LET c    == n.calls[chunk.call]
        new  == c.block = NoBlock
        shut == Shut(n, IF new THEN Spoken ELSE {})
    IN Became([shut.norm EXCEPT
                   !.next = IF new THEN @ + 1 ELSE @,
                   !.calls[chunk.call] =
                       [c EXCEPT !.named = @ \/ chunk.named,
                                 !.args  = IF chunk.args THEN Append(@, k) ELSE @,
                                 !.block = IF new THEN n.next ELSE @]],
              shut.out)

StartOf(n, i) == Event("block", n.calls[i].block, "tool", i, <<>>)
RestOf(n, i)  == LET c == n.calls[i] IN
                 Event("delta", c.block, "tool", i, SubSeq(c.args, c.sent + 1, Len(c.args)))

Sends(n, i) ==
    Became([n EXCEPT !.calls[i] = [@ EXCEPT !.started = TRUE, !.sent = Len(n.calls[i].args)]],
           (IF n.calls[i].started THEN <<>> ELSE <<StartOf(n, i)>>) \o
           (IF n.calls[i].sent = Len(n.calls[i].args) THEN <<>> ELSE <<RestOf(n, i)>>))

(* Mutant: what came before the name is not passed on. *)
PassedOnLate(n, i) ==
    IF n.calls[i].named THEN Sends(n, i)
    ELSE Became([n EXCEPT !.calls[i].sent = Len(n.calls[i].args)], <<>>)

(* A call starts when its name is known, with the arguments that came       *)
(* before.                                                                 *)
PassedOn(n, i) == IF n.calls[i].named THEN Sends(n, i) ELSE Became(n, <<>>)

(* finish_reason "tool_calls" ends every call that has started, in order.   *)
Ended(n) == {i \in Calls : n.calls[i].started /\ ~n.calls[i].stopped}

Rank(i, calls) == Cardinality({j \in calls : j <= i})
Nth(k, calls)  == CHOOSE i \in calls : Rank(i, calls) = k

(* In the chunk of a call itself, that call ends before the others.        *)
StoppedFirst(n, i) ==
    IF i \in Ended(n) THEN Became([n EXCEPT !.calls[i].stopped = TRUE], <<StopOf(n.calls[i].block)>>)
    ELSE Became(n, <<>>)

Stopped(n) ==
    Became([n EXCEPT !.calls = [i \in Calls |->
                                   [n.calls[i] EXCEPT !.stopped = @ \/ i \in Ended(n)]]],
           [k \in 1 .. Cardinality(Ended(n)) |-> StopOf(n.calls[Nth(k, Ended(n))].block)])

Started(n) == Became([n EXCEPT !.started = TRUE],
                     IF n.started THEN <<>> ELSE <<Event("start", NoBlock, "none", NoTool, <<>>)>>)

(* ingest_chunk; k is the chunk's place.                                   *)
Part(n, chunk, k) ==
    CASE chunk.part = "none" -> Became(n, <<>>)
      [] chunk.part = "tool" ->
            LET applied == Applied(n, chunk, k)
                passed  == Then(applied, PassedOn(applied.norm, chunk.call))
            IN IF chunk.finish THEN Then(passed, StoppedFirst(passed.norm, chunk.call)) ELSE passed
      [] OTHER               -> Speak(n, chunk.part, k)

Ingest(n, chunk, k) ==
    LET begun == Started(n)
        part  == Part(begun.norm, chunk, k)
    IN Then(Then(begun, part),
            IF chunk.finish THEN Stopped(part.norm) ELSE Became(part.norm, <<>>))

(* finish: a call whose name is known has been started before.             *)
Completed(n) ==
    LET shut    == Shut(n, Spoken)
        stopped == Stopped(shut.norm)
        last    == IF n.started THEN <<Event("usage", NoBlock, "none", NoTool, <<>>),
                                       Event("end", NoBlock, "none", NoTool, <<>>)>>
                   ELSE <<>>
    IN Then(Then(shut, stopped), Became(stopped.norm, last))

(* A provider of the other protocol sends such events itself, and stops a   *)
(* block before it starts another.                                         *)
Narrated(n, chunk, k) ==
    LET begun  == Started(n)
        others == Shut(begun.norm, Spoken \ {chunk.part})
        before == IF chunk.part = "tool" /\ n.calls[chunk.call].started
                  THEN Became(others.norm, <<>>) ELSE Stopped(others.norm)
    IN Then(Then(Then(begun, others), before), Ingest(before.norm, chunk, k))

-----------------------------------------------------------------------------
(* Mutant: the events of the stream before are kept. *)
NewReplyKept == tool' = Nothing /\ UNCHANGED events

NewReply == tool' = Nothing /\ events' = <<>>

(* A dispatch: a new stream, and nothing kept of the one before.           *)
Dispatch(m, r) ==
    /\ at' = "send" /\ trying' = m /\ round' = r /\ asked' = FALSE /\ attempts' = 0
    /\ said' = <<>> /\ norm' = NewNorm /\ pending' = <<>> /\ over' = FALSE
    /\ NewReply
    /\ phase' = "none" /\ open' = {} /\ closed' = {} /\ heard' = NoBlock

(* stream: the request carries tools unless the provider has refused them. *)
Stream ==
    /\ at \in {"idle", "done"} /\ streams < MaxStreams /\ streams' = streams + 1
    /\ tools' = ~toolsOff /\ outcome' = "none"
    /\ Dispatch(model, "first")
    /\ UNCHANGED client

(* A dispatch has failed: without tools once, or each fallback in turn, or  *)
(* the error of the first is returned.                                     *)
ToolsRefused(e) == round = "first" /\ Routes[model] = "custom" /\ tools /\ "tools" \in e

Fallbacks == {m \in Models \ {1, model} : round = "first" \/ m > trying}

Fails(e) ==
    /\ UNCHANGED <<model, cancelled, streams>>
    /\ \/ /\ ToolsRefused(e)
          /\ toolsOff' = TRUE /\ tools' = FALSE /\ Dispatch(model, "plain")
          /\ UNCHANGED outcome
       \/ /\ ~ToolsRefused(e) /\ Fallbacks # {}
          /\ round = "fallback" \/ (round = "first" /\ "busy" \in e)
          /\ Dispatch(CHOOSE m \in Fallbacks : \A x \in Fallbacks : m <= x, "fallback")
          /\ UNCHANGED <<toolsOff, tools, outcome>>
       \/ /\ ~ToolsRefused(e)
          /\ \/ Fallbacks = {} \/ round = "plain"
             \/ round = "first" /\ "busy" \notin e
          /\ at' = "done" /\ outcome' = "failed"
          /\ UNCHANGED <<toolsOff, tools, round, trying, asked, attempts, body, reply, read>>

(* A dispatch has succeeded with the reply that is es.                     *)
Succeeds(es) ==
    /\ at' = "done" /\ outcome' = "ok" /\ events' = es
    /\ model' = IF round = "fallback" THEN trying ELSE model
    /\ UNCHANGED <<toolsOff, cancelled, round, trying, tools, asked, attempts>>

(* send_with_retry: a request is answered, or fails; the wait before the   *)
(* next has no state of its own.                                           *)
Answered ==
    /\ at = "send" /\ attempts' = attempts + 1
    /\ at' = IF asked THEN "answer" ELSE "stream"
    /\ UNCHANGED <<client, round, trying, tools, asked, body, reply, read, outcome, streams>>

MayRetry == attempts + 1 <= MaxRetries

Retry(e) ==
    /\ at = "send" /\ "retryable" \in e /\ MayRetry
    /\ attempts' = attempts + 1
    /\ UNCHANGED <<client, at, round, trying, tools, asked, body, reply, read, outcome, streams>>

GiveUp(e) ==
    /\ at = "send" /\ ("retryable" \in e => ~MayRetry)
    /\ Fails(e)

-----------------------------------------------------------------------------
(* next_event, when every event has been read.                             *)
Waiting == at = "stream" /\ pending = <<>> /\ ~over

Narrates == Routes[trying] = "anthropic"

(* A call has a number and a first chunk, and is named once; what is ended  *)
(* is not spoken of again.  Of the other protocol the first names it.      *)
MaySay(chunk) ==
    /\ chunk.part # "tool" =>
          ~chunk.named /\ ~chunk.args /\ chunk.call = NoTool
          /\ (chunk.part = "none") = chunk.finish
    /\ chunk.part = "tool" =>
          /\ chunk.call \in Calls /\ ~norm.calls[chunk.call].stopped
          /\ \A c \in Calls : c < chunk.call => norm.calls[c].block # NoBlock
          /\ chunk.named \/ chunk.args
          /\ chunk.named => ~norm.calls[chunk.call].named
    /\ Narrates =>
          /\ ~chunk.finish
          /\ chunk.part = "tool" => chunk.named \/ norm.calls[chunk.call].named

Arrive ==
    /\ Waiting /\ Len(said) < MaxSaid
    /\ \E chunk \in Chunk :
          /\ MaySay(chunk) /\ said' = Append(said, chunk)
          /\ LET after == IF Narrates THEN Narrated(norm, chunk, Len(said) + 1)
                          ELSE Ingest(norm, chunk, Len(said) + 1)
             IN norm' = after.norm /\ pending' = after.out
    /\ UNCHANGED <<client, request, over, reply, read, outcome, streams>>

(* The body ends.  A provider that narrates has said so before, or was cut  *)
(* short; of another the normaliser finishes what is open.                 *)
BodyEnds ==
    /\ Waiting /\ over' = TRUE
    /\ \/ norm' = Completed(norm).norm /\ pending' = Completed(norm).out
       \/ Narrates /\ UNCHANGED <<norm, pending>>
    /\ UNCHANGED <<client, request, said, reply, read, outcome, streams>>

(* The connection breaks, a frame is not what it should be or says that     *)
(* something went wrong, or the time of the request is up.                 *)
Breaks(e) == Waiting /\ Fails(e)

Said(type, call, pieces) == [type |-> type, call |-> call, pieces |-> pieces]

(* handle_event.  An input piece goes to the tool that is pending, and the  *)
(* stop of any block ends it.                                              *)
HandleEvent(event) ==
    CASE event.type = "block" /\ event.part = "tool" ->
            tool' = [call |-> event.call, args |-> <<>>] /\ UNCHANGED events
      [] event.type = "delta" /\ event.part = "tool" ->
            /\ tool' = IF tool = Nothing THEN tool
                       ELSE [tool EXCEPT !.args = @ \o event.pieces]
            /\ UNCHANGED events
      [] event.type = "delta" /\ event.part # "tool" ->
            events' = Append(events, Said(event.part, NoTool, event.pieces)) /\ UNCHANGED tool
      [] event.type = "stop" ->
            /\ tool' = Nothing
            /\ events' = IF tool = Nothing THEN events
                         ELSE Append(events, Said("tool", tool.call, tool.args))
      [] event.type \in {"usage", "end"} ->
            events' = Append(events, Said(event.type, NoTool, <<>>)) /\ UNCHANGED tool
      [] OTHER -> UNCHANGED <<tool, events>>

Noted(event) ==
    /\ phase' = CASE event.type = "start" -> "message" [] event.type = "end" -> "over"
                  [] OTHER -> phase
    /\ open' = CASE event.type = "block" -> open \cup {event.index}
                 [] event.type = "stop" -> open \ {event.index} [] OTHER -> open
    /\ closed' = IF event.type = "stop" THEN closed \cup {event.index} ELSE closed
    /\ heard' = IF event.type = "delta" THEN event.index
                ELSE IF event.type = "usage" THEN heard ELSE NoBlock

Handle ==
    /\ at = "stream" /\ pending # <<>> /\ ~cancelled
    /\ pending' = Tail(pending) /\ HandleEvent(Head(pending)) /\ Noted(Head(pending))
    /\ UNCHANGED <<client, request, said, norm, over, outcome, streams>>

(* The end of the stream, or the cancel flag, which is looked at when an    *)
(* event has come.                                                         *)
Has(type) == \E i \in DOMAIN events : events[i].type = type
HasBody   == \E type \in {"text", "thinking", "tool"} : Has(type)

EnsureStop == IF ~Has("end") /\ HasBody THEN Append(events, Said("end", NoTool, <<>>))
              ELSE events

Conclude ==
    /\ at = "stream" /\ IF pending = <<>> THEN over ELSE cancelled
    /\ \/ /\ HasBody /\ Succeeds(EnsureStop) /\ UNCHANGED <<body, tool, read, streams>>
       \/ /\ ~HasBody /\ at' = "send" /\ asked' = TRUE /\ attempts' = 0
          /\ said' = <<>> /\ norm' = NewNorm /\ pending' = <<>> /\ over' = FALSE
          /\ NewReply
          /\ UNCHANGED <<client, round, trying, tools, read, outcome, streams>>

(* The answer without streaming: one text, then the calls.                 *)
Answer ==
    /\ at = "answer"
    /\ \E text \in BOOLEAN, calls \in 0 .. MaxCalls :
          LET words == IF text THEN <<Said("text", NoTool, <<1>>)>> ELSE <<>>
          IN Succeeds(words \o [i \in 1 .. calls |-> Said("tool", i - 1, <<>>)]
                      \o <<Said("usage", NoTool, <<>>), Said("end", NoTool, <<>>)>>)
    /\ UNCHANGED <<body, tool, read, streams>>

AnswerFails(e) == at = "answer" /\ Fails(e)

Cancel ==
    /\ Desktop /\ ~cancelled /\ at \notin {"idle", "done"} /\ cancelled' = TRUE
    /\ UNCHANGED <<model, toolsOff, request, body, reply, read, outcome, streams>>

Resting == at = "done" /\ streams = MaxStreams /\ UNCHANGED providerVars

ProviderNext ==
    \/ Stream \/ Answered \/ Arrive \/ BodyEnds \/ Handle \/ Conclude \/ Answer \/ Cancel
    \/ \E e \in Errors : Retry(e) \/ GiveUp(e) \/ Breaks(e) \/ AnswerFails(e)
    \/ Resting

ProviderSpec == ProviderInit /\ [][ProviderNext]_providerVars

-----------------------------------------------------------------------------
ProviderTypeOK ==
    /\ model \in Models /\ trying \in Models /\ {toolsOff, cancelled, tools, asked, over} \subseteq BOOLEAN
    /\ at \in {"idle", "send", "stream", "answer", "done"}
    /\ round \in {"first", "plain", "fallback"} /\ outcome \in {"none", "ok", "failed"}
    /\ attempts \in Nat /\ streams \in 0 .. MaxStreams
    /\ said \in Seq(Chunk) /\ Len(said) <= MaxSaid
    /\ norm.next \in Blocks /\ norm.block \in [Spoken -> Blocks \cup {NoBlock}]
    /\ tool.call \in 0 .. MaxCalls /\ tool.args \in Seq(Pieces)
    /\ phase \in {"none", "message", "over"} /\ open \cup closed \subseteq Blocks

(* Whatever a provider says, and in whatever order it mixes reasoning, text *)
(* and the pieces of its calls, what the client hands on is a message of    *)
(* well-formed blocks (openai_compat_stream.rs).                           *)
Protocol == INSTANCE BlockProtocol

EventsAreBlocks == Protocol!Spec

(* A reply has the text and the reasoning of one stream, in order, nothing  *)
(* of a stream that broke off before it, and all of it unless the user      *)
(* stopped it; and it ends with one stop, however its stream ended: without *)
(* one the conversation rejects it (stream.rs; conversation.rs,             *)
(* build_assistant_message).                                               *)
Tells(i, part, k) == events[i].type = part /\ events[i].pieces = <<k>>

InOrder(part) ==
    \A i \in DOMAIN events : events[i].type = part =>
        \E k \in DOMAIN said :
            /\ said[k].part = part /\ Tells(i, part, k)
            /\ \A j \in DOMAIN events : Tells(j, part, k) => j = i
            /\ \A l \in 1 .. k - 1 :
                  said[l].part = part => \E j \in 1 .. i - 1 : Tells(j, part, l)

AllTold(part) ==
    \A k \in DOMAIN said : said[k].part = part => \E i \in DOMAIN events : Tells(i, part, k)

StopsOnce ==
    /\ events # <<>> /\ events[Len(events)].type = "end"
    /\ \A i \in DOMAIN events : events[i].type = "end" => i = Len(events)

ReplyIsOneStream ==
    outcome = "ok" =>
        /\ StopsOnce
        /\ ~asked => \A part \in Spoken : InOrder(part) /\ (cancelled \/ AllTold(part))

(* A call that the reply reports has the arguments that were said for it,   *)
(* all of them and no other's, and none is reported twice, as long as the   *)
(* pieces of one call come one after another, as every provider sends them; *)
(* and if the message came to its end, every call is reported whose name    *)
(* was said, but one that another call has overtaken before anything ended  *)
(* it: the reader has one pending_tool (stream.rs), and calls that are       *)
(* stopped together at the end of a message have left it by then.           *)
Arguments(c) == {k \in DOMAIN said : said[k].part = "tool" /\ said[k].call = c /\ said[k].args}

Lists(pieces, places) ==
    /\ places = {pieces[i] : i \in DOMAIN pieces}
    /\ \A i, j \in DOMAIN pieces : i < j => pieces[i] < pieces[j]

CallEvents == {i \in DOMAIN events : events[i].type = "tool"}

CallOf(chunk) == IF chunk.part = "tool" THEN chunk.call ELSE NoTool

OnePieceOn ==
    \A j, k \in DOMAIN said :
        j < k /\ said[j].part = "tool" /\ CallOf(said[j]) = CallOf(said[k]) =>
            \A i \in j .. k : CallOf(said[i]) = CallOf(said[j])

Overtaken(c) ==
    ~Narrates /\ \E k, l \in DOMAIN said :
        /\ k < l /\ said[k].named /\ said[k].call = c
        /\ said[l].part = "tool" /\ said[l].call # c
        /\ \A i \in k .. l - 1 : ~said[i].finish

CallsAreWhole ==
    outcome = "ok" /\ ~asked =>
        /\ \A i \in CallEvents :
              /\ OnePieceOn => Lists(events[i].pieces, Arguments(events[i].call))
              /\ \A j \in CallEvents : events[j].call = events[i].call => j = i
        /\ phase = "over" => \A k \in DOMAIN said : said[k].named =>
              \/ Overtaken(said[k].call)
              \/ \E i \in CallEvents : events[i].call = said[k].call
=============================================================================
