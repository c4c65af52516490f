----------------------------- MODULE DesktopChat -----------------------------
(***************************************************************************)
(* The chat of the desktop program: the hooks useChatExecution and          *)
(* useTaskQueue of the user interface, and the streams of the backend they  *)
(* start, stop and listen to (commands/ai.rs, commands/agent.rs).           *)
(*                                                                         *)
(* The interface has one thread: what a hook does between two awaits is one *)
(* step.  The answer to a call of the backend and the events of its streams *)
(* reach it on different ways, in any order.  What the user sees and what   *)
(* the closures of a render have seen is the state at the last render.      *)
(*                                                                         *)
(* Texts, tabs, the terminal's own queue and slash commands are left out.   *)
(***************************************************************************)
EXTENDS Naturals, Sequences, SequencesExt, FiniteSets

CONSTANTS
    Kinds,       \* task -> what it may be: "shell", "chat", "agent", "web"
    MaxTasks,    \* bound: tasks submitted
    MaxRuns,     \* bound: tasks started
    MaxText,     \* bound: task -> pieces of text of its stream
    MaxCalls,    \* bound: model calls of an agent
    MaxEdits     \* bound: edits of queued tasks

ASSUME LimitsAssumption == {MaxTasks, MaxRuns, MaxCalls, MaxEdits} \subseteq Nat

Tasks == 1 .. MaxTasks
Kind  == {"shell", "chat", "agent", "web"}
Runs  == 1 .. MaxRuns
NoRun == 0       \* neither a stream nor a controller

ASSUME KindsAssumption == Kinds \in [Tasks -> SUBSET Kind]

(* A run of a task: what the interface does with it, the message it shows,  *)
(* and the backend's stream, with the events that are on their way.         *)
Run == [task    : 0 .. MaxTasks,
        stage   : {"none", "shell", "sending", "bound", "over"},
        message : {"none", "empty", "text", "error", "output", "stopped"},
        aborted : BOOLEAN,          \* its AbortController, while somebody listens
        back    : {"none", "called", "refused", "streams", "asks", "holds", "ended"},
        body    : BOOLEAN,          \* this model call has brought something
        cancel  : BOOLEAN,          \* its flag, while it is in the registry
        text    : Nat,              \* pieces of text it has emitted
        calls   : Nat,              \* model calls it has made
        events  : Seq({"text", "done", "failed"}),
        heard   : Nat,              \* pieces of text the listener has had of it
        words   : Seq(Runs \X Nat)] \* the pieces its message shows, each with its stream

Unused == [task |-> 0, stage |-> "none", message |-> "none", aborted |-> FALSE,
           back |-> "none", body |-> FALSE, cancel |-> FALSE,
           text |-> 0, calls |-> 0, events |-> <<>>, heard |-> 0, words |-> <<>>]

VARIABLES
    run,           \* Runs -> Run
    used,          \* runs started
    kind,          \* task -> its mode
    submitted,     \* tasks submitted
    queue,         \* tasksRef: the tasks of the chat channel
    editing,       \* those being edited
    isStreaming,   \* the state of that name
    binding,       \* assistantStreamRef: the run whose stream is shown
    controller,    \* abortRef: the run whose controller it is
    shown,         \* isStreaming and the queue at the last render
    edits,         \* bound
    cancelled,     \* history: tasks taken out of the queue by the user
    stale,         \* history: tasks forced when they were no longer queued
    forced         \* history: a task was forced, or a stream timed out

ui      == <<run, used, queue, isStreaming, binding, controller>>
history == <<cancelled, stale, forced>>
vars    == <<ui, kind, submitted, editing, shown, edits, history>>

TypeOK ==
    /\ run \in [Runs -> Run] /\ used \in 0 .. MaxRuns
    /\ kind \in [Tasks -> Kind] /\ submitted \in 0 .. MaxTasks
    /\ queue \in Seq(Tasks) /\ editing \subseteq Tasks
    /\ isStreaming \in BOOLEAN
    /\ binding \in Runs \cup {NoRun} /\ controller \in Runs \cup {NoRun}
    /\ shown \in [streaming : BOOLEAN, queue : Seq(Tasks)]
    /\ edits \in Nat /\ cancelled \subseteq Tasks /\ stale \subseteq Tasks
    /\ forced \in BOOLEAN

Init ==
    /\ run = [k \in Runs |-> Unused] /\ used = 0
    /\ kind \in [Tasks -> Kind] /\ (\A t \in Tasks : kind[t] \in Kinds[t]) /\ submitted = 0
    /\ queue = <<>> /\ editing = {} /\ isStreaming = FALSE
    /\ binding = NoRun /\ controller = NoRun
    /\ shown = [streaming |-> FALSE, queue |-> <<>>]
    /\ edits = 0 /\ cancelled = {} /\ stale = {} /\ forced = FALSE

-----------------------------------------------------------------------------
(* executeChatTask, up to its first await, from a state where the runs are r *)
(* and abortRef is c.                                                        *)
Execute(t, r, c) ==
    /\ used < MaxRuns /\ used' = used + 1 /\ isStreaming' = TRUE
    /\ IF kind[t] = "shell"
       THEN /\ run' = [r EXCEPT ![used + 1] = [Unused EXCEPT !.task = t, !.stage = "shell",
                                                             !.back = "streams"]]
            /\ controller' = used + 1
       ELSE /\ run' = [r EXCEPT ![used + 1] = [Unused EXCEPT !.task = t, !.stage = "sending",
                                                             !.back = "called"]]
            /\ controller' = c

(* Mutant: the task stays in the queue. *)
DequeueNothing ==
    /\ queue # <<>> /\ Head(queue) \notin editing
    /\ UNCHANGED queue

(* dequeue: nothing, when the head is being edited.                        *)
Dequeue ==
    /\ queue # <<>> /\ Head(queue) \notin editing
    /\ queue' = Tail(queue)

(* The queue without a task, if it is there: an id is in it once. *)
Without(t) ==
    IF t \in Range(queue) THEN RemoveAt(queue, CHOOSE i \in DOMAIN queue : queue[i] = t)
    ELSE queue

(* Mutant: the end of a task is only noted. *)
JustStop(r, c) == isStreaming' = FALSE /\ run' = r /\ controller' = c /\ UNCHANGED <<queue, used>>

ProcessChatQueue(r, c) ==
    IF queue # <<>> /\ Head(queue) \notin editing
    THEN Dequeue /\ Execute(Head(queue), r, c)
    ELSE /\ isStreaming' = FALSE /\ run' = r /\ controller' = c
         /\ UNCHANGED <<queue, used>>

(* A click or a key is followed by a render at once; anything else by one   *)
(* of its own.                                                              *)
Rendered == shown' = [streaming |-> isStreaming', queue |-> queue']

Render ==
    /\ shown # [streaming |-> isStreaming, queue |-> queue]
    /\ UNCHANGED <<ui, kind, submitted, editing, edits, history>> /\ Rendered

(* Mutant: a message is sent whether or not another is being answered. *)
SubmitAtOnce ==
    /\ submitted < MaxTasks /\ submitted' = submitted + 1
    /\ Execute(submitted + 1, run, controller)
    /\ UNCHANGED <<queue, binding, kind, editing, edits, history>> /\ Rendered

(* handleSubmit, with isStreaming as it was at the last render.            *)
Submit ==
    /\ submitted < MaxTasks /\ submitted' = submitted + 1
    /\ IF shown.streaming
       THEN /\ queue' = Append(queue, submitted + 1)
            /\ UNCHANGED <<run, used, isStreaming, binding, controller>>
       ELSE Execute(submitted + 1, run, controller) /\ UNCHANGED <<queue, binding>>
    /\ UNCHANGED <<kind, editing, edits, history>> /\ Rendered

-----------------------------------------------------------------------------
(* The rest of _executeShell, when the command has ended or the controller  *)
(* was aborted, whichever the race saw first.  Nothing ends a command that  *)
(* was stopped: it goes on in the backend.                                 *)
ShellEnds(k) ==
    /\ run[k].stage = "shell"
    /\ \E how \in {"output" : x \in {x \in {k} : run[k].back = "ended"}} \cup
                  {"stopped" : x \in {x \in {k} : run[k].aborted}} :
          ProcessChatQueue([run EXCEPT ![k].stage = "over", ![k].message = how,
                                       ![k].aborted = FALSE], NoRun)
    /\ UNCHANGED <<binding, kind, submitted, editing, shown, edits, history>>

(* The rest of _executeAi and _executeAgent.  The binding of another stream *)
(* is overwritten; the timer of a stream that is not bound does nothing.    *)
SendReturns(k) ==
    /\ run[k].stage = "sending" /\ run[k].back \notin {"called", "refused"}
    /\ run' = [run EXCEPT ![k].stage = "bound", ![k].message = "empty"]
    /\ binding' = k
    /\ UNCHANGED <<used, queue, isStreaming, controller, kind, submitted, editing, shown,
                   edits, history>>

(* clearAssistantStream, for whatever stream is bound.                     *)
Unbound(r) == IF binding = NoRun THEN r
              ELSE [r EXCEPT ![binding].stage = "over"]

SendFails(k) ==
    /\ run[k].stage = "sending" /\ run[k].back = "refused"
    /\ binding' = NoRun
    /\ ProcessChatQueue([Unbound(run) EXCEPT ![k].stage = "over", ![k].message = "error"],
                        controller)
    /\ UNCHANGED <<kind, submitted, editing, shown, edits, history>>

(* Mutant: whose stream an event is of is not looked at. *)
IsBoundAnyway(k) == binding # NoRun

IsBound(k) == binding = k

(* The listener.  Events of a stream that is not bound are dropped.        *)
Receive(k) ==
    /\ run[k].events # <<>>
    /\ LET event == Head(run[k].events)
           taken == [run EXCEPT ![k].events = Tail(@),
                                ![k].heard = IF event = "text" THEN @ + 1 ELSE @]
       IN \/ /\ ~IsBound(k) /\ run' = taken
             /\ UNCHANGED <<used, queue, isStreaming, binding, controller>>
          \/ /\ IsBound(k) /\ event = "text"
             /\ run' = [taken EXCEPT ![binding].message = "text",
                                     ![binding].words = Append(@, <<k, taken[k].heard>>)]
             /\ UNCHANGED <<used, queue, isStreaming, binding, controller>>
          \/ /\ IsBound(k) /\ event # "text" /\ binding' = NoRun
             /\ ProcessChatQueue(
                    [Unbound(taken) EXCEPT ![binding].message =
                        IF event = "failed" THEN "text" ELSE @], controller)
    /\ UNCHANGED <<kind, submitted, editing, shown, edits, history>>

(* The safety timer runs from the start of the stream.  It lets go of the   *)
(* stream without stopping it.                                              *)
TimerFires(k) ==
    /\ binding = k /\ binding' = NoRun /\ forced' = TRUE
    /\ ProcessChatQueue([Unbound(run) EXCEPT ![k].message = IF @ = "empty" THEN "error" ELSE @],
                        controller)
    /\ UNCHANGED <<kind, submitted, editing, shown, edits, cancelled, stale>>

-----------------------------------------------------------------------------
(* What the user does with a stream and with the queue.                    *)
Aborted(r) == IF controller = NoRun THEN r ELSE [r EXCEPT ![controller].aborted = TRUE]

(* stop_ai_stream and stop_agent: the flag is in the registry while the     *)
(* stream runs.                                                            *)
Flagged(r) == IF binding = NoRun \/ run[binding].back = "ended" THEN r
              ELSE [r EXCEPT ![binding].cancel = TRUE]

Stop ==
    /\ shown.streaming
    /\ run' = Flagged(Aborted(run)) /\ run' # run
    /\ UNCHANGED <<used, queue, isStreaming, binding, controller, kind, submitted, editing,
                   edits, history>>
    /\ Rendered

(* handleForceExecute, of App.tsx and of the hook.                         *)
ForceExecute(t) ==
    /\ t \in Range(shown.queue) \ editing
    /\ t \in Range(queue) \/ Cardinality(stale) < MaxRuns - MaxTasks
    /\ queue' = Without(t)
    /\ stale' = IF t \in Range(queue) THEN stale ELSE stale \cup {t}
    /\ binding' = NoRun /\ forced' = TRUE
    /\ Execute(t, Unbound(Flagged(Aborted(run))), controller)
    /\ UNCHANGED <<kind, submitted, editing, edits, cancelled>> /\ Rendered

Cancel(t) ==
    /\ t \in (Range(queue) \cap Range(shown.queue)) \ editing
    /\ queue' = Without(t) /\ cancelled' = cancelled \cup {t}
    /\ UNCHANGED <<run, used, isStreaming, binding, controller, kind, submitted, editing,
                   edits, stale, forced>>
    /\ Rendered

CancelAll ==
    /\ Len(shown.queue) > 1 /\ queue # <<>>
    /\ queue' = <<>> /\ cancelled' = cancelled \cup Range(queue)
    /\ editing' = {}
    /\ UNCHANGED <<run, used, isStreaming, binding, controller, kind, submitted, edits,
                   stale, forced>>
    /\ Rendered

StartEdit(t) ==
    /\ t \in (Range(queue) \cap Range(shown.queue)) \ editing /\ edits < MaxEdits
    /\ edits' = edits + 1 /\ editing' = editing \cup {t}
    /\ UNCHANGED <<ui, kind, submitted, history>> /\ Rendered

EndEdit(t) ==
    /\ t \in editing /\ editing' = editing \ {t}
    /\ UNCHANGED <<ui, kind, submitted, edits, history>> /\ Rendered

MoveUp(t) ==
    /\ \E i \in 2 .. Len(queue) :
          /\ queue[i] = t /\ t \in Range(shown.queue) \ editing
          /\ queue' = [queue EXCEPT ![i] = queue[i - 1], ![i - 1] = t]
    /\ edits < MaxEdits /\ edits' = edits + 1
    /\ UNCHANGED <<run, used, isStreaming, binding, controller, kind, submitted, editing,
                   history>>
    /\ Rendered

-----------------------------------------------------------------------------
(* The backend, one stream at a time: b is what the stream does next.      *)
Backend(k, b) ==
    /\ run' = [run EXCEPT ![k] = b]
    /\ UNCHANGED <<used, queue, isStreaming, binding, controller, kind, submitted, editing,
                   shown, edits, history>>

Said(b, events) == [b EXCEPT !.events = @ \o events]
Ended(b, how)   == [Said(b, <<how>>) EXCEPT !.back = "ended", !.body = FALSE,
                                             !.cancel = FALSE, !.calls = 0]
KindOf(k)       == kind[run[k].task]

(* The command registers its flag and returns; the stream is a task of its own. *)
BackendAnswers(k) ==
    /\ run[k].back = "called"
    /\ \/ Backend(k, [run[k] EXCEPT !.back = "streams", !.calls = 1])
       \/ Backend(k, [run[k] EXCEPT !.back = "refused"])

(* An item arrives, and only then is the flag looked at.                   *)
NextItem(k) ==
    /\ run[k].back = "streams" /\ KindOf(k) # "shell"
    /\ ~run[k].cancel /\ run[k].text < MaxText[run[k].task]
    /\ Backend(k, [Said(run[k], <<"text">>) EXCEPT !.body = TRUE, !.text = @ + 1])

(* A model call is over.  One that brought nothing is made again, without   *)
(* streaming; an agent whose model has called tools goes on.                *)
AfterCall(k, b) ==
    \/ Backend(k, Ended(b, "done"))
    \/ /\ kind[b.task] = "agent" /\ b.calls < MaxCalls
       /\ Backend(k, [b EXCEPT !.back = "streams", !.body = FALSE, !.calls = @ + 1])

CallEnds(k) ==
    /\ run[k].back = "streams" /\ KindOf(k) \in {"chat", "agent"}
    /\ IF run[k].body THEN AfterCall(k, run[k])
       ELSE Backend(k, [run[k] EXCEPT !.back = "asks"])

AskAgain(k) ==
    /\ run[k].back = "asks" /\ run[k].text < MaxText[run[k].task]
    /\ AfterCall(k, [Said(run[k], <<"text">>) EXCEPT !.text = @ + 1])

(* A web answer ends with its channel, or by the flag; anything may fail.  *)
StreamEnds(k) ==
    /\ run[k].back \in {"streams", "asks"} /\ KindOf(k) # "shell"
    /\ \/ KindOf(k) = "web" /\ Backend(k, Ended(run[k], "done"))
       \/ Backend(k, Ended(run[k], "failed"))

(* execute_command has a time limit for the shell, which it kills then.  If *)
(* the shell exits by itself, what it has left behind may hold the pipes,   *)
(* and reading them to their end has no limit.                             *)
ShellExits(k) ==
    /\ run[k].back = "streams" /\ KindOf(k) = "shell"
    /\ \E b \in {"ended", "holds"} : Backend(k, [run[k] EXCEPT !.back = b])

PipesClose(k) ==
    /\ run[k].back = "holds" /\ Backend(k, [run[k] EXCEPT !.back = "ended"])

(* A chat may rest, and does when the bounds are reached.                  *)
Resting ==
    /\ submitted = MaxTasks /\ UNCHANGED vars
    /\ \A k \in Runs : run[k].stage \in {"none", "over"} \/ binding # k
    /\ binding = NoRun /\ \A k \in Runs : run[k].stage \notin {"shell", "sending"}

System(k) ==
    \/ ShellEnds(k) \/ SendReturns(k) \/ SendFails(k) \/ Receive(k) \/ TimerFires(k)
    \/ BackendAnswers(k) \/ ShellExits(k) \/ PipesClose(k)

Model(k) == NextItem(k) \/ CallEnds(k) \/ AskAgain(k) \/ StreamEnds(k)

User ==
    \/ Submit \/ Stop \/ CancelAll
    \/ \E t \in Tasks : ForceExecute(t) \/ Cancel(t) \/ StartEdit(t) \/ EndEdit(t) \/ MoveUp(t)

Next ==
    \/ User \/ Render \/ Resting
    \/ \E k \in Runs : System(k) \/ Model(k)

Spec == Init /\ [][Next]_vars

(* Nothing is assumed of the user, of the model's streams, or of what holds *)
(* the pipes of a command.  A shell has a time limit, another call of the   *)
(* backend returns, its answer arrives, a timer fires.                     *)
FairSpec ==
    /\ Spec
    /\ \A k \in Runs :
          /\ WF_vars(ShellExits(k)) /\ WF_vars(BackendAnswers(k))
          /\ WF_vars(ShellEnds(k)) /\ WF_vars(SendReturns(k)) /\ WF_vars(SendFails(k))
          /\ WF_vars(TimerFires(k))

-----------------------------------------------------------------------------
(* As long as nobody forces a task and no stream times out, at most one     *)
(* task is at work, in the interface or in the backend, and isStreaming is  *)
(* true meanwhile: the next message is queued (useChatExecution.ts).  Only  *)
(* a command whose message says that it was stopped may still run beside    *)
(* the next task, and without a message of its own any more.               *)
Working(k) == run[k].back \in {"called", "streams", "asks", "holds"}
Abandoned(k) == KindOf(k) = "shell" /\ run[k].message = "stopped"

AtWork(k) ==
    \/ run[k].stage \in {"shell", "sending"} \/ binding = k
    \/ Working(k) /\ ~Abandoned(k)

OneAtATime ==
    ~forced => \A k \in Runs : AtWork(k) =>
        isStreaming /\ \A j \in Runs : AtWork(j) => j = k

(* A task submitted waits, or was cancelled, or ran, and only one of these, *)
(* and once: whatever is forced, moved, edited or cancelled meanwhile.  A   *)
(* task forced from a bar that still showed it is the one exception         *)
(* (useTaskQueue.ts, App.tsx).                                             *)
RunsOf(t) == {k \in Runs : run[k].task = t}

EachTaskOnce ==
    \A t \in 1 .. submitted :
        Cardinality({i \in DOMAIN queue : queue[i] = t})
        + Cardinality({t} \cap cancelled) + Cardinality(RunsOf(t))
        = (IF t \in stale THEN 2 ELSE 1)

(* A message shows one stretch of the text of its own stream, in order and  *)
(* without a gap, and nothing that another stream says which was forced     *)
(* aside, timed out or bound before (the listener).  What a stream says     *)
(* before it is bound is lost, so that the stretch need not begin with its  *)
(* first piece.                                                            *)
OwnWords ==
    \A k \in Runs : \A i \in DOMAIN run[k].words :
        run[k].words[i] = <<k, run[k].words[1][2] + i - 1>>

(* While the chat counts as busy, the task at the head of the queue does    *)
(* not wait for ever: a stream may be silent, its end may come before it is *)
(* bound, another may take its place, and the queue goes on, or finds that  *)
(* its head is being edited.  Only a command whose pipes are held keeps it  *)
(* waiting until somebody stops it.                                        *)
Held == \E k \in Runs : run[k].stage = "shell" /\ run[k].back = "holds"

QueueMoves ==
    \A t \in Tasks :
        (isStreaming /\ queue # <<>> /\ Head(queue) = t)
        ~> (queue = <<>> \/ Head(queue) # t \/ t \in editing \/ Held)
=============================================================================
