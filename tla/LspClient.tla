------------------------------ MODULE LspClient ------------------------------
(***************************************************************************)
(* The language-server client of crates/lsp: LspClient and the part of     *)
(* LspManager that connects it, used by several threads at once (Lsp is a  *)
(* tool that may run beside others).  A reader task takes the frames of    *)
(* the server apart; a mutex per map, none of them held across a message.  *)
(*                                                                         *)
(* The server handles messages in the order they are written, which the    *)
(* writer's mutex makes one, so a message takes effect when it is sent;    *)
(* answers and diagnostics take their time.  The text of a document is left *)
(* out: no property is about what a server makes of it.                     *)
(***************************************************************************)
EXTENDS Naturals, Sequences

CONSTANTS
    Threads,
    Docs,
    Calls,         \* what the threads ask for: "query", "sync", "close"
    MaxCalls,      \* bound: calls
    MaxConnects,   \* bound: servers started
    MaxUnasked     \* bound: frames of the server's own: diagnostics, requests, garbage

ASSUME DocsAssumption == Docs # {}
ASSUME CallsAssumption == Calls \subseteq {"query", "sync", "close"}
ASSUME LimitsAssumption ==
    {MaxCalls, MaxConnects, MaxUnasked} \subseteq Nat

Places == {"idle", "client", "initialize", "check", "read", "change", "bump", "didOpen",
           "opened", "didChange", "diagnose", "didClose", "closed", "register", "send", "await"}

(* A request has the id the client gave it.  The serial number tells apart *)
(* what the ids should.                                                    *)
Request == [id: Nat, serial: Nat]
NoRequest == [id |-> 0, serial |-> 0]

(* What a thread holds: its place in the call, the version it is about to  *)
(* send, the diagnostics version it waits for, its request, and the serial *)
(* number of the request its oneshot channel has the answer of.            *)
Caller == [pc: Places, op: {"query", "sync", "close"}, doc: Docs,
           version: Nat, floor: Nat, request: Request, got: Seq(Nat)]

NotOpen == 0     \* in the place of a document's version

Frame == [kind: {"answer"}, request: Request]
    \cup [kind: {"publish"}, doc: Docs]
    \cup [kind: {"ask"}, id: Nat]
    \cup [kind: {"garbage"}]

VARIABLES
    caller,      \* thread -> Caller
    client,      \* of the manager: none, being connected under its lock, or up
    open,        \* open_documents: doc -> version
    pending,     \* pending_requests: ids
    nextId,      \* next_request_id
    reader,      \* the reader task runs
    diagVersion, \* diag_version_tx
    alive,       \* the server process runs
    ready,       \* it has been told that it is initialized
    docs,        \* doc -> the version it was told of
    asked,       \* requests it has not answered
    back,        \* frames it has written that are not read
    serial,      \* history: requests made
    upset,       \* history: requests ended by a frame of the server's own
    contended,   \* history: documents two threads have worked on at once
    closing,     \* history: documents that were asked to be closed
    calls, connects, unasked    \* bounds

clientVars == <<open, pending, nextId, reader, diagVersion>>
serverVars == <<alive, ready, docs, asked, back>>
history    == <<serial, upset, contended, closing>>
limits     == <<calls, connects, unasked>>
shared     == <<client, clientVars, serverVars, history, limits>>
vars       == <<caller, shared>>

TypeOK ==
    /\ caller \in [Threads -> Caller]
    /\ client \in {"none", "connecting", "up"}
    /\ open \in [Docs -> Nat] /\ pending \subseteq Nat /\ nextId \in Nat \ {0}
    /\ reader \in BOOLEAN /\ diagVersion \in Nat
    /\ alive \in BOOLEAN /\ ready \in BOOLEAN /\ docs \in [Docs -> Nat]
    /\ asked \subseteq Request /\ back \in Seq(Frame)
    /\ serial \in Nat /\ upset \subseteq Nat
    /\ contended \subseteq Docs /\ closing \subseteq Docs
    /\ {calls, connects, unasked} \subseteq Nat

Resting(d) == [pc |-> "idle", op |-> "query", doc |-> d, version |-> 0,
               floor |-> 0, request |-> NoRequest, got |-> <<>>]

Init ==
    /\ caller \in [Threads -> {Resting(CHOOSE d \in Docs : TRUE)}]
    /\ client = "none"
    /\ open = [d \in Docs |-> 0] /\ pending = {} /\ nextId = 1 /\ reader = FALSE
    /\ diagVersion = 0
    /\ alive = FALSE /\ ready = FALSE /\ docs = [d \in Docs |-> NotOpen]
    /\ asked = {} /\ back = <<>>
    /\ serial = 0 /\ upset = {} /\ contended = {} /\ closing = {}
    /\ calls = 0 /\ connects = 0 /\ unasked = 0

-----------------------------------------------------------------------------
At(t, place) == caller[t].pc = place
Doc(t)       == caller[t].doc
Go(t, place) == caller' = [caller EXCEPT ![t].pc = place]
Leave(t)     == caller' = [caller EXCEPT ![t] = Resting(Doc(t))]

Begin(t, op, d) ==
    /\ At(t, "idle") /\ calls < MaxCalls
    /\ caller' = [caller EXCEPT ![t] = [Resting(d) EXCEPT !.pc = "client", !.op = op]]
    /\ calls' = calls + 1
    /\ contended' = contended \cup
          {e \in {d} : \E u \in Threads \ {t} : ~At(u, "idle") /\ Doc(u) = d}
    /\ closing' = IF op = "close" THEN closing \cup {d} ELSE closing
    /\ UNCHANGED <<client, clientVars, serverVars, serial, upset, connects,
                   unasked>>

(* Mutant: the client is shared before it is initialized. *)
UsableAtOnce == client # "none"

(* client_for_path holds the lock on the clients until one is initialized. *)
Usable == client = "up"

(* sync_and_await_diagnostics notes the version to wait for, then reads.   *)
Proceed(t) ==
    LET syncs == caller[t].op = "sync"
    IN  caller' = [caller EXCEPT ![t].pc = IF syncs THEN "read" ELSE "check",
                                 ![t].floor = IF syncs THEN diagVersion + 1 ELSE 0,
                                 ![t].request = NoRequest, ![t].got = <<>>]

GetClient(t) ==
    /\ At(t, "client") /\ Usable
    /\ Proceed(t)
    /\ UNCHANGED shared

SpawnFails(t) ==
    /\ At(t, "client") /\ client = "none"
    /\ Leave(t)
    /\ UNCHANGED shared

(* LspClient::connect: a new process, new maps, and an initialize.         *)
Connect(t) ==
    /\ At(t, "client") /\ client = "none" /\ connects < MaxConnects
    /\ client' = "connecting"
    /\ connects' = connects + 1
    /\ open' = [d \in Docs |-> 0] /\ pending' = {1} /\ nextId' = 2 /\ reader' = TRUE
    /\ diagVersion' = 0
    /\ alive' = TRUE /\ ready' = FALSE /\ docs' = [d \in Docs |-> NotOpen] /\ back' = <<>>
    /\ serial' = serial + 1
    /\ LET request == [id |-> 1, serial |-> serial + 1]
       IN  /\ asked' = {request}
           /\ caller' = [caller EXCEPT ![t].pc = "initialize", ![t].request = request]
    /\ UNCHANGED <<upset, contended, closing, calls, unasked>>

(* The answer to the initialize is there, and it is a result. *)
Initialized(t) ==
    /\ At(t, "initialize") /\ caller[t].got = <<caller[t].request.serial>>
    /\ client' = "up"
    /\ ready' = alive
    /\ Proceed(t)
    /\ UNCHANGED <<clientVars, alive, docs, asked, back, history, limits>>

(* It is an error or does not come, or `initialized` cannot be written. *)
ConnectFails(t) ==
    /\ At(t, "initialize")
    /\ client' = "none"
    /\ alive' = FALSE /\ asked' = {} /\ back' = <<>>
    /\ Leave(t)
    /\ UNCHANGED <<clientVars, ready, docs, history, limits>>

-----------------------------------------------------------------------------
(* The state of a document is looked up under its lock, which is released  *)
(* again before anything is sent.                                          *)
Check(t) ==
    /\ At(t, "check")
    /\ \/ open[Doc(t)] > 0  /\ Go(t, IF caller[t].op = "query" THEN "register" ELSE "didClose")
       \/ open[Doc(t)] = 0  /\ caller[t].op = "query" /\ Go(t, "read")
       \/ open[Doc(t)] = 0  /\ caller[t].op = "close" /\ Leave(t)
    /\ UNCHANGED shared

(* The file of the document, for didOpen or for a change. *)
TextIsRead(t) ==
    /\ At(t, "read")
    /\ Go(t, IF caller[t].op = "query" THEN "didOpen" ELSE "change")
    /\ UNCHANGED <<client, serverVars, history, limits>>

(* Mutant: a document is marked open before the server is told. *)
ReadFileAndMark(t) ==
    /\ TextIsRead(t)
    /\ open' = IF caller[t].op = "query" THEN [open EXCEPT ![Doc(t)] = 1] ELSE open
    /\ UNCHANGED <<pending, nextId, reader, diagVersion>>

ReadFile(t) == TextIsRead(t) /\ UNCHANGED clientVars

ReadFails(t) ==
    /\ At(t, "read")
    /\ Leave(t)
    /\ UNCHANGED shared

Change(t) ==
    /\ At(t, "change")
    /\ Go(t, IF open[Doc(t)] > 0 THEN "bump" ELSE "didOpen")
    /\ UNCHANGED shared

(* A document another thread has closed since gets version 1 here. *)
Bump(t) ==
    /\ At(t, "bump")
    /\ open' = [open EXCEPT ![Doc(t)] = @ + 1]
    /\ caller' = [caller EXCEPT ![t].version = open[Doc(t)] + 1, ![t].pc = "didChange"]
    /\ UNCHANGED <<client, pending, nextId, reader, diagVersion, serverVars,
                   history, limits>>

(* A message to a server that is down is lost, or fails. *)
Receives(t, document) ==
    docs' = IF alive THEN [docs EXCEPT ![Doc(t)] = document] ELSE docs

SendOpen(t) ==
    /\ At(t, "didOpen")
    /\ Receives(t, 1)
    /\ Go(t, "opened")
    /\ UNCHANGED <<client, clientVars, alive, ready, asked, back, history, limits>>

MarkOpen(t) ==
    /\ At(t, "opened")
    /\ open' = [open EXCEPT ![Doc(t)] = 1]
    /\ Go(t, IF caller[t].op = "query" THEN "register" ELSE "diagnose")
    /\ UNCHANGED <<client, pending, nextId, reader, diagVersion, serverVars,
                   history, limits>>

(* The didSave that follows changes nothing. *)
SendChange(t) ==
    /\ At(t, "didChange")
    /\ Receives(t, caller[t].version)
    /\ Go(t, "diagnose")
    /\ UNCHANGED <<client, clientVars, alive, ready, asked, back, history, limits>>

(* wait_for_diagnostics_update: any publishDiagnostics will do. *)
GetDiagnostics(t) ==
    /\ At(t, "diagnose") /\ diagVersion >= caller[t].floor
    /\ Leave(t)
    /\ UNCHANGED shared

DiagnosticsTimeOut(t) ==
    /\ At(t, "diagnose") /\ diagVersion < caller[t].floor
    /\ Leave(t)
    /\ UNCHANGED shared

SendClose(t) ==
    /\ At(t, "didClose")
    /\ Receives(t, NotOpen)
    /\ Go(t, "closed")
    /\ UNCHANGED <<client, clientVars, alive, ready, asked, back, history, limits>>

(* Mutant: a document that was closed is still taken to be open. *)
ForgetNothing(t) ==
    /\ At(t, "closed")
    /\ Leave(t)
    /\ UNCHANGED shared

Forget(t) ==
    /\ At(t, "closed")
    /\ open' = [open EXCEPT ![Doc(t)] = 0]
    /\ Leave(t)
    /\ UNCHANGED <<client, pending, nextId, reader, diagVersion, serverVars,
                   history, limits>>

-----------------------------------------------------------------------------
(* Mutant: the id of a request that was given up is used again. *)
IdOfNoWaiter ==
    CHOOSE n \in 1 .. nextId : \A u \in Threads : At(u, "idle") \/ caller[u].request.id # n

NewId == nextId

(* request: the channel is registered before the request is written. *)
Register(t) ==
    /\ At(t, "register")
    /\ pending' = pending \cup {NewId}
    /\ nextId' = nextId + 1
    /\ serial' = serial + 1
    /\ caller' = [caller EXCEPT ![t].request = [id |-> NewId, serial |-> serial + 1],
                                ![t].pc = "send"]
    /\ UNCHANGED <<client, open, reader, diagVersion, serverVars, upset,
                   contended, closing, limits>>

SendRequest(t) ==
    /\ At(t, "send")
    /\ asked' = IF alive THEN asked \cup {caller[t].request} ELSE asked
    /\ Go(t, "await")
    /\ UNCHANGED <<client, clientVars, alive, ready, docs, back, history, limits>>

SendFails(t) ==
    /\ \E place \in {"didOpen", "didChange", "didClose", "send"} : At(t, place)
    /\ ~alive
    /\ pending' = pending \ {caller[t].request.id}
    /\ Leave(t)
    /\ UNCHANGED <<client, open, nextId, reader, diagVersion, serverVars, history,
                   limits>>

Return(t) ==
    /\ At(t, "await") /\ caller[t].got # <<>>
    /\ Leave(t)
    /\ UNCHANGED shared

(* Mutant: a request waits for its answer without a time limit. *)
WaitOn(t) == At(t, "await") /\ caller[t].got = <<>> /\ UNCHANGED vars

(* 30 seconds are over.  The entry in pending_requests stays. *)
TimesOut(t) ==
    /\ At(t, "await") /\ caller[t].got = <<>>
    /\ Leave(t)
    /\ UNCHANGED shared

-----------------------------------------------------------------------------
(* The reader task. *)
Takes(kind) ==
    /\ client # "none" /\ reader /\ back # <<>> /\ Head(back).kind = kind
    /\ back' = Tail(back)
    /\ UNCHANGED <<client, open, nextId, alive, ready, docs, asked, serial,
                   contended, closing, limits>>

Listens(t) ==
    caller[t].pc \in {"initialize", "send", "await"} /\ caller[t].got = <<>>

(* The threads whose channel pending_requests has under id. *)
ReceiverOf(id) == {t \in Threads : id \in pending /\ Listens(t) /\ caller[t].request.id = id}

Deliver(receivers, number) ==
    caller' = [t \in Threads |->
                 IF t \in receivers THEN [caller[t] EXCEPT !.got = <<number>>] ELSE caller[t]]

ReadAnswer ==
    /\ Takes("answer")
    /\ LET request == Head(back).request
       IN  /\ Deliver(ReceiverOf(request.id), request.serial)
           /\ pending' = pending \ {request.id}
    /\ UNCHANGED <<reader, diagVersion, upset>>

(* A frame with an id is taken for an answer, though the server asks. *)
ReadAsk ==
    /\ Takes("ask")
    /\ LET receivers == ReceiverOf(Head(back).id)
       IN  /\ Deliver(receivers, 0)
           /\ upset' = upset \cup {caller[t].request.serial : t \in receivers}
    /\ pending' = pending \ {Head(back).id}
    /\ UNCHANGED <<reader, diagVersion>>

ReadPublish ==
    /\ Takes("publish")
    /\ diagVersion' = diagVersion + 1
    /\ UNCHANGED <<caller, pending, reader, upset>>

(* The reader ends, and fails all requests that wait now.  (At the end of  *)
(* the stream it ends as well, and fails none.)                            *)
ReadGarbage ==
    /\ Takes("garbage")
    /\ LET receivers == {t \in Threads : Listens(t)}
       IN  /\ Deliver(receivers, 0)
           /\ upset' = upset \cup {caller[t].request.serial : t \in receivers}
    /\ pending' = {}
    /\ reader' = FALSE
    /\ UNCHANGED diagVersion

-----------------------------------------------------------------------------
(* The server. *)
Writes(frame) ==
    /\ alive
    /\ back' = Append(back, frame)
    /\ UNCHANGED <<caller, client, clientVars, alive, ready, docs, history, calls, connects>>

Answer(request) ==
    /\ request \in asked
    /\ Writes([kind |-> "answer", request |-> request])
    /\ asked' = asked \ {request}
    /\ UNCHANGED unasked

Publish(d) ==
    /\ unasked < MaxUnasked /\ docs[d] > 0
    /\ Writes([kind |-> "publish", doc |-> d])
    /\ unasked' = unasked + 1
    /\ UNCHANGED asked

WriteOddly ==
    /\ unasked < MaxUnasked
    /\ \/ \E id \in 1 .. nextId : Writes([kind |-> "ask", id |-> id])
       \/ Writes([kind |-> "garbage"])
    /\ unasked' = unasked + 1
    /\ UNCHANGED asked

Die ==
    /\ alive /\ alive' = FALSE
    /\ asked' = {}
    /\ UNCHANGED <<caller, client, clientVars, ready, docs, back, history, limits>>

ReaderStep == ReadAnswer \/ ReadAsk \/ ReadPublish \/ ReadGarbage

ThreadStep(t) ==
    \/ GetClient(t) \/ SpawnFails(t) \/ Connect(t) \/ Initialized(t) \/ ConnectFails(t)
    \/ Check(t) \/ ReadFile(t) \/ ReadFails(t) \/ Change(t) \/ Bump(t) \/ SendOpen(t)
    \/ MarkOpen(t) \/ SendChange(t) \/ GetDiagnostics(t) \/ DiagnosticsTimeOut(t)
    \/ SendClose(t) \/ Forget(t) \/ Register(t) \/ SendRequest(t) \/ SendFails(t)
    \/ Return(t) \/ TimesOut(t)

(* No thread has a call, and the server nothing to say. *)
Rest == (\A t \in Threads : At(t, "idle")) /\ UNCHANGED vars

Next ==
    \/ \E t \in Threads, op \in Calls, d \in Docs : Begin(t, op, d)
    \/ \E t \in Threads : ThreadStep(t)
    \/ ReaderStep
    \/ \E request \in asked : Answer(request)
    \/ \E d \in Docs : Publish(d)
    \/ WriteOddly \/ Die \/ Rest

Spec == Init /\ [][Next]_vars

(* Every thread goes on, time limits included; the server owes nothing.    *)
FairSpec == Spec /\ \A t \in Threads : WF_vars(ThreadStep(t))

-----------------------------------------------------------------------------
(* What a thread gets is the answer to its own request, however late the   *)
(* answers to requests before it come, unless the server has upset it with *)
(* a request of its own under the same id, or with a malformed frame.      *)
AnswersAreOwn ==
    \A t \in Threads : caller[t].got # <<>> =>
        \/ caller[t].got = <<caller[t].request.serial>>
        \/ caller[t].request.serial \in upset

(* Nothing is sent to a server before it has been initialized, by whichever *)
(* thread.                                                                  *)
InitializedFirst ==
    \A t \in Threads :
        caller[t].pc \in {"didOpen", "didChange", "didClose", "send"} => ready \/ ~alive

(* A server that is asked about a document has been sent it, by this thread *)
(* or another one, unless one has asked to close it.                        *)
QueriesFindTheirDocument ==
    [][\A t \in Threads : SendRequest(t) /\ alive =>
          docs[Doc(t)] > 0 \/ Doc(t) \in closing]_vars

(* To a document no two threads work on at once, the messages make sense:  *)
(* it is opened when it is not open, and changed with a version that grows. *)
ChangesInOrder ==
    [][\A t \in Threads : alive /\ Doc(t) \notin contended =>
          /\ SendOpen(t)   => docs[Doc(t)] = 0
          /\ SendChange(t) => docs[Doc(t)] \in 1 .. caller[t].version - 1]_vars

(* A call ends, whatever becomes of the server.                             *)
CallsEnd == \A t \in Threads : ~At(t, "idle") ~> At(t, "idle")
=============================================================================
