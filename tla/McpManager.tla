------------------------------ MODULE McpManager ------------------------------
(***************************************************************************)
(* The client side of MCP servers: McpServerManager (crates/mcp/src/stdio/ *)
(* manager.rs) and the transports below it, with the tool cache of the CLI *)
(* above it.  One caller uses the manager at a time, under its mutex; the  *)
(* servers run on their own.  A stdio request writes one frame and takes   *)
(* the next frame for its answer, however long that takes; a WebSocket     *)
(* request passes over answers to others, for two minutes at most.  Both   *)
(* tell an answer by its id alone.                                         *)
(***************************************************************************)
EXTENDS Naturals, Sequences, FiniteSets, Functions

CONSTANTS
    Servers,
    Order,         \* the servers in the order of their names
    Transport,     \* server -> "stdio" or "ws"
    Tools,         \* raw tool names
    Names,
    QualifiedName, \* <<server, tool>> -> the name the model is offered
    OwnIds,        \* bound: ids servers give to requests of their own
    MaxRequests,   \* bound: requests sent before the last call begins
    MaxPages,      \* bound: pages of tools that are not the last one
    MaxNotices,    \* bound: frames a server sends unasked
    MaxDeaths      \* bound: servers that die

ASSUME ServersAssumption ==
    /\ Order \in Seq(Servers) /\ {Order[i] : i \in DOMAIN Order} = Servers
    /\ \A i, j \in DOMAIN Order : Order[i] = Order[j] => i = j
    /\ Transport \in [Servers -> {"stdio", "ws"}]
    /\ QualifiedName \in [Servers \X Tools -> Names]
ASSUME BoundsAssumption == {MaxRequests, MaxPages, MaxNotices, MaxDeaths} \cup OwnIds \subseteq Nat

Methods == {"initialize", "tools/list", "tools/call"}
Request == [id: Nat, method: Methods]

(* A frame a server writes: the answer to a request, a result or an error; *)
(* a notification, which has no id; or a request of its own, which has an  *)
(* id and is parsed as an answer with neither result nor error.  A page of *)
(* tools says whether more follow.                                         *)
Message == [id: Nat, method: Methods \cup {"own"}]
Frame   == {f \in [for: Message, ok: BOOLEAN, tools: SUBSET Tools, more: BOOLEAN] :
               f.for.method = "own" => ~f.ok}

NoRequest == [id |-> 0, method |-> "initialize"]

Notification == [for |-> NoRequest, ok |-> TRUE, tools |-> {}, more |-> FALSE]

OwnRequest(id) ==
    [for |-> [id |-> id, method |-> "own"], ok |-> FALSE, tools |-> {}, more |-> FALSE]

VARIABLES
    process,     \* server -> the manager holds a process or a connection
    initialized, \* server -> the manager has initialized it
    alive,       \* server -> it runs, or its connection stands
    greeted,     \* server -> it has accepted an initialize
    inbox,       \* server -> the requests it has not answered
    pipe,        \* server -> the frames it has written that are not read
    pages,       \* bound: pages of tools that were not the last
    index,       \* tool_index: name -> <<server, tool>>
    cached,      \* cached_mcp_tools is filled
    offered,     \* the <<server, tool>> it offers
    pc,          \* where the manager is in a call
    op,          \* the call: "discover" or "call"
    todo,        \* discover: the servers that are left
    found,       \* discover: the tools found
    server,      \* the server it talks to
    paging,      \* discover: a page of the server has been read
    waiting,     \* the request it waits for the answer of
    nextId,
    answered,    \* history: the request that got its answer last, and what that answers
    mismatched,  \* history: servers whose answer to another request ended a call
    late,        \* history: servers that have not answered in time
    noticed,     \* history: server -> frames it has sent unasked
    deaths

serverVars  == <<alive, greeted, inbox, pipe, pages, noticed, deaths>>
managerVars == <<process, initialized, index, cached, offered>>
callVars    == <<op, todo, found, server, paging, waiting>>
vars == <<serverVars, managerVars, callVars, pc, nextId, answered, mismatched, late>>

Offers    == Servers \X Tools
Places    == {"idle", "next", "ensure", "initialize", "request", "await", "closed", "left"}

TypeOK ==
    /\ process \in [Servers -> BOOLEAN] /\ initialized \in [Servers -> BOOLEAN]
    /\ alive \in [Servers -> BOOLEAN] /\ greeted \in [Servers -> BOOLEAN]
    /\ inbox \in [Servers -> SUBSET Request] /\ pipe \in [Servers -> Seq(Frame)]
    /\ DOMAIN index \subseteq Names /\ \A n \in DOMAIN index : index[n] \in Offers
    /\ cached \in BOOLEAN /\ offered \subseteq Offers
    /\ pc \in Places /\ op \in {"discover", "call"}
    /\ todo \in Seq(Servers) /\ found \subseteq Offers
    /\ server \in Servers /\ paging \in BOOLEAN
    /\ waiting \in Request /\ nextId \in Nat \ {0}
    /\ answered \in Request \X Message
    /\ mismatched \subseteq Servers /\ late \subseteq Servers /\ noticed \in [Servers -> Nat]
    /\ pages \in Nat /\ deaths \in Nat

Init ==
    /\ process = [s \in Servers |-> FALSE] /\ initialized = [s \in Servers |-> FALSE]
    /\ alive = [s \in Servers |-> FALSE] /\ greeted = [s \in Servers |-> FALSE]
    /\ inbox = [s \in Servers |-> {}] /\ pipe = [s \in Servers |-> <<>>]
    /\ index = <<>> /\ cached = FALSE /\ offered = {}
    /\ pc = "idle" /\ op = "discover" /\ todo = <<>> /\ found = {}
    /\ server \in Servers /\ paging = FALSE /\ waiting = NoRequest /\ nextId = 1
    /\ answered = <<NoRequest, NoRequest>>
    /\ mismatched = {} /\ late = {} /\ noticed = [s \in Servers |-> 0] /\ pages = 0 /\ deaths = 0

-----------------------------------------------------------------------------
Go(place) == pc' = place

(* discover_mcp_tools: the tools of all servers, or none if a server fails. *)
BeginDiscovery ==
    /\ pc = "idle" /\ ~cached /\ nextId <= MaxRequests
    /\ Go("next")
    /\ op' = "discover" /\ todo' = Order /\ found' = {}
    /\ UNCHANGED <<serverVars, managerVars, server, paging, waiting, nextId, answered, mismatched, late>>

NextServer ==
    /\ pc = "next" /\ todo # <<>>
    /\ Go("ensure")
    /\ server' = Head(todo) /\ todo' = Tail(todo) /\ paging' = FALSE
    /\ UNCHANGED <<serverVars, managerVars, op, found, waiting, nextId, answered, mismatched, late>>

EndDiscovery ==
    /\ pc = "next" /\ todo = <<>>
    /\ Go("idle")
    /\ cached' = TRUE /\ offered' = found
    /\ UNCHANGED <<serverVars, process, initialized, index, callVars, nextId, answered, mismatched, late>>

(* A name that is not in the index is refused, and nothing changes. *)
BeginCall(name) ==
    /\ pc = "idle" /\ name \in DOMAIN index /\ nextId <= MaxRequests
    /\ Go("ensure")
    /\ op' = "call" /\ server' = index[name][1]
    /\ UNCHANGED <<serverVars, managerVars, todo, found, paging, waiting, nextId, answered, mismatched, late>>

(* Any error ends the call; a discovery then has found nothing. *)
Abort ==
    /\ Go("idle")
    /\ cached' = (op = "discover" \/ cached)
    /\ offered' = IF op = "discover" THEN {} ELSE offered
    /\ UNCHANGED <<process, initialized, callVars>>

(* ensure_server_ready: a process is spawned if none is held.  One that is *)
(* held is used, dead or not.                                              *)
Spawn ==
    /\ pc = "ensure" /\ ~process[server]
    /\ Go("initialize")
    /\ process' = [process EXCEPT ![server] = TRUE]
    /\ initialized' = [initialized EXCEPT ![server] = FALSE]
    /\ alive' = [alive EXCEPT ![server] = TRUE]
    /\ greeted' = [greeted EXCEPT ![server] = FALSE]
    /\ inbox' = [inbox EXCEPT ![server] = {}]
    /\ pipe' = [pipe EXCEPT ![server] = <<>>]
    /\ UNCHANGED <<index, cached, offered, callVars, pages, noticed, deaths, nextId,
                   answered, mismatched, late>>

SpawnFails ==
    /\ pc = "ensure" /\ ~process[server]
    /\ Abort
    /\ UNCHANGED <<serverVars, index, nextId, answered, mismatched, late>>

Ready ==
    /\ pc = "ensure" /\ process[server]
    /\ Go(IF initialized[server] THEN "request" ELSE "initialize")
    /\ UNCHANGED <<serverVars, managerVars, callVars, nextId, answered, mismatched, late>>

WithoutRoutesOf(s) == Restrict(index, {n \in DOMAIN index : index[n][1] # s})

(* Mutant: the routes of a server go before each page of its tools. *)
RoutesAtEachRequest(s) == IF op = "discover" THEN WithoutRoutesOf(s) ELSE index

(* discover_tools clears the routes of a server once, when it is ready. *)
RoutesAtRequest(s) == IF op = "discover" /\ ~paging THEN WithoutRoutesOf(s) ELSE index

Method ==
    IF pc = "initialize" THEN "initialize"
    ELSE IF op = "discover" THEN "tools/list" ELSE "tools/call"

(* Mutant: the answer to an initialize is not waited for. *)
SentUnlessInitialize == IF pc = "initialize" THEN "request" ELSE "await"

Sent == "await"

(* The request is written, if not to anybody. *)
Send ==
    /\ pc \in {"initialize", "request"}
    /\ Go(Sent)
    /\ waiting' = [id |-> nextId, method |-> Method]
    /\ nextId' = nextId + 1
    /\ index' = IF pc = "request" THEN RoutesAtRequest(server) ELSE index
    /\ inbox' = IF alive[server]
                THEN [inbox EXCEPT ![server] = @ \cup {waiting'}] ELSE inbox
    /\ UNCHANGED <<alive, greeted, pipe, pages, noticed, deaths, process, initialized,
                   cached, offered, op, todo, found, server, paging,
                   answered, mismatched, late>>

(* Writing to a server that is down fails, sooner or later. *)
SendFails ==
    /\ pc \in {"initialize", "request"} /\ ~alive[server]
    /\ Abort
    /\ index' = IF pc = "request" THEN RoutesAtRequest(server) ELSE index
    /\ nextId' = nextId + 1
    /\ UNCHANGED <<serverVars, answered, mismatched, late>>

-----------------------------------------------------------------------------
(* Mutant: whatever comes next is taken for the answer. *)
AnyFrame(frame) == TRUE

(* The id of an answer is that of the request. *)
IsAnswer(frame) == frame.for.id = waiting.id

Read ==
    /\ pc = "await" /\ pipe[server] # <<>>
    /\ pipe' = [pipe EXCEPT ![server] = Tail(@)]
    /\ UNCHANGED <<alive, greeted, inbox, pages, noticed, deaths, nextId>>

Front == Head(pipe[server])

Receive ==
    /\ Read /\ IsAnswer(Front)
    /\ answered' = <<waiting, Front.for>>
    /\ UNCHANGED <<mismatched, late>>

(* Mutant: an error is an answer as good as a result. *)
InitializedByAnyAnswer ==
    /\ Receive /\ waiting.method = "initialize"
    /\ Go("request")
    /\ initialized' = [initialized EXCEPT ![server] = TRUE]
    /\ UNCHANGED <<process, index, cached, offered, callVars>>

Initialized ==
    /\ Receive /\ waiting.method = "initialize" /\ Front.ok
    /\ Go("request")
    /\ initialized' = [initialized EXCEPT ![server] = TRUE]
    /\ UNCHANGED <<process, index, cached, offered, callVars>>

(* A name that two tools share leads to the one found last. *)
ReceiveTools ==
    /\ Receive /\ waiting.method = "tools/list" /\ Front.ok
    /\ LET listed == {server} \X Front.tools
           names  == {QualifiedName[t] : t \in listed}
       IN  /\ found' = found \cup listed
           /\ \E route \in [names -> listed] :
                 /\ \A n \in names : QualifiedName[route[n]] = n
                 /\ index' = [n \in DOMAIN index \cup names |->
                                IF n \in names THEN route[n] ELSE index[n]]
    /\ Go(IF Front.more THEN "request" ELSE "next")
    /\ paging' = Front.more
    /\ UNCHANGED <<process, initialized, cached, offered, op, todo, server, waiting>>

(* A result or an error goes to the model. *)
ReceiveCall ==
    /\ Receive /\ waiting.method = "tools/call"
    /\ Go("idle")
    /\ UNCHANGED <<managerVars, callVars>>

ReceiveError ==
    /\ Receive /\ waiting.method # "tools/call" /\ ~Front.ok
    /\ Abort
    /\ UNCHANGED index

(* Whether a frame can be read as an answer to what is waited for: not if  *)
(* it has no id, nor if it has a result without the fields this one needs. *)
(* The result of a tools/call needs none.                                  *)
Parses(frame) ==
    /\ frame.for # NoRequest
    /\ frame.ok => waiting.method \in {frame.for.method, "tools/call"}

(* What cannot be read ends the call, and on stdio what answers another    *)
(* request does, as an IdMismatch.                                         *)
ReceiveOther ==
    /\ Read /\ ~IsAnswer(Front)
    /\ Transport[server] = "stdio" \/ ~Parses(Front)
    /\ Abort
    /\ mismatched' = IF Front.for = NoRequest THEN mismatched ELSE mismatched \cup {server}
    /\ UNCHANGED <<index, answered, late>>

PassOver ==
    /\ Read /\ ~IsAnswer(Front)
    /\ Transport[server] = "ws" /\ Parses(Front)
    /\ UNCHANGED <<managerVars, callVars, pc, answered, mismatched, late>>

HungUp ==
    /\ pc = "await" /\ pipe[server] = <<>> /\ ~alive[server]
    /\ Abort
    /\ UNCHANGED <<serverVars, index, nextId, answered, mismatched, late>>

TimesOut ==
    /\ pc = "await" /\ Transport[server] = "ws"
    /\ Abort
    /\ late' = late \cup {server}
    /\ UNCHANGED <<serverVars, index, nextId, answered, mismatched>>

(* CacheLock runs out, or the runtime is rebuilt. *)
ForgetCache ==
    /\ pc = "idle" /\ cached
    /\ cached' = FALSE /\ offered' = {}
    /\ UNCHANGED <<serverVars, process, initialized, index, callVars, pc, nextId,
                   answered, mismatched, late>>

(* Mutant: only servers that answered an initialize are stopped. *)
StopsInitialized(s) == process[s] /\ initialized[s]

Stops(s) == process[s]

(* The manager is gone, and with it what its pipes hold. *)
Drop(place) ==
    /\ pc = "idle" /\ Go(place)
    /\ process' = [s \in Servers |-> FALSE] /\ initialized' = [s \in Servers |-> FALSE]
    /\ inbox' = [s \in Servers |-> {}] /\ pipe' = [s \in Servers |-> <<>>]
    /\ UNCHANGED <<greeted, pages, noticed, deaths, index, cached, offered, callVars, nextId,
                   answered, mismatched, late>>

(* shutdown, when the user leaves the REPL. *)
Shutdown ==
    /\ Drop("closed")
    /\ alive' = [s \in Servers |-> alive[s] /\ ~Stops(s)]

(* A one-shot prompt, a turn of the desktop and a REPL that cannot read    *)
(* its input end without it: the connections close, the processes stay.    *)
Leave ==
    /\ Drop("left")
    /\ alive' = [s \in Servers |-> alive[s] /\ Transport[s] = "stdio"]

-----------------------------------------------------------------------------
(* A server answers the requests it has in any order. *)
Answer(s, request, ok, tools, more) ==
    /\ alive[s] /\ request \in inbox[s]
    /\ request.method # "tools/list" => tools = {} /\ ~more
    /\ more => pages < MaxPages
    /\ inbox' = [inbox EXCEPT ![s] = @ \ {request}]
    /\ pipe' = [pipe EXCEPT ![s] = Append(@,
                   [for |-> request, ok |-> ok, tools |-> tools, more |-> more])]
    /\ greeted' = [greeted EXCEPT ![s] = @ \/ (ok /\ request.method = "initialize")]
    /\ pages' = pages + IF more THEN 1 ELSE 0
    /\ UNCHANGED <<alive, noticed, deaths, managerVars, callVars, pc, nextId,
                   answered, mismatched, late>>

(* It sends what nobody asked for: a notification, or a request of its own, *)
(* whose id may be one of ours.                                            *)
SendUnasked(s, frame) ==
    /\ alive[s] /\ process[s] /\ noticed[s] < MaxNotices
    /\ pipe' = [pipe EXCEPT ![s] = Append(@, frame)]
    /\ noticed' = [noticed EXCEPT ![s] = @ + 1]
    /\ UNCHANGED <<alive, greeted, inbox, pages, deaths, managerVars, callVars, pc, nextId,
                   answered, mismatched, late>>

Notify(s) == SendUnasked(s, Notification)

Ask(s, id) == SendUnasked(s, OwnRequest(id))

Die(s) ==
    /\ alive[s] /\ deaths < MaxDeaths
    /\ alive' = [alive EXCEPT ![s] = FALSE]
    /\ deaths' = deaths + 1
    /\ UNCHANGED <<greeted, inbox, pipe, pages, noticed, managerVars, callVars, pc, nextId,
                   answered, mismatched, late>>

ManagerStep ==
    \/ NextServer \/ EndDiscovery \/ Spawn \/ SpawnFails \/ Ready \/ Send \/ SendFails
    \/ Initialized \/ ReceiveTools \/ ReceiveCall \/ ReceiveError \/ ReceiveOther
    \/ PassOver \/ HungUp

ServerAnswers(s) ==
    \E request \in inbox[s], ok \in BOOLEAN, tools \in SUBSET Tools, more \in BOOLEAN :
        Answer(s, request, ok, tools, more)

(* The session is over, or waits for its user. *)
Rest == pc \in {"idle", "closed", "left"} /\ UNCHANGED vars

Next ==
    \/ BeginDiscovery \/ (\E name \in Names : BeginCall(name))
    \/ ManagerStep \/ TimesOut \/ ForgetCache \/ Shutdown \/ Leave
    \/ \E s \in Servers : ServerAnswers(s) \/ Notify(s) \/ Die(s)
    \/ \E s \in Servers, id \in OwnIds : Ask(s, id)
    \/ Rest

Spec == Init /\ [][Next]_vars

-----------------------------------------------------------------------------
(* Whatever calls that failed have left in the pipes, what is accepted is  *)
(* the answer to the request that was sent, unless the server has sent a   *)
(* request of its own under that id.                                       *)
AnswersAreOwn == answered[2].method # "own" => answered[2] = answered[1]

(* A server is asked for nothing before it has accepted an initialize.     *)
InitializeComesFirst ==
    \A s \in Servers : \A request \in inbox[s] :
        request.method # "initialize" => greeted[s]

(* A tool the model is offered is in the index, under its name, with a     *)
(* route to a tool that is offered under that name.                        *)
OfferedToolsAreRouted ==
    pc = "idle" => \A tool \in offered :
        /\ QualifiedName[tool] \in DOMAIN index
        /\ index[QualifiedName[tool]] \in offered

(* An answer to another request ends a call only on a server that has sent *)
(* something unasked, or has once not answered in time.                    *)
InStepUnlessNotified == \A s \in mismatched : noticed[s] > 0 \/ s \in late

(* When the user has left the REPL no server is left behind, not even one  *)
(* that refused to be initialized or broke off.  (What ends without it     *)
(* stops no process: Leave.)                                               *)
NoServerLeftBehind == pc = "closed" => \A s \in Servers : ~alive[s]
=============================================================================
