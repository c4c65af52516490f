---------------------------- MODULE LspClientProofs ----------------------------
(* Theorems about LspClient, for any threads, documents, calls and bounds.  *)
EXTENDS LspClient, TLAPS

(***************************************************************************)
(* Type correctness.                                                       *)
(***************************************************************************)

(* TypeOK but for the threads. *)
SharedOK ==
    /\ client \in {"none", "connecting", "up"}
    /\ open \in [Docs -> Nat] /\ pending \subseteq Nat /\ nextId \in Nat \ {0}
    /\ reader \in BOOLEAN /\ diagVersion \in Nat
    /\ alive \in BOOLEAN /\ ready \in BOOLEAN /\ docs \in [Docs -> Nat]
    /\ asked \subseteq Request /\ back \in Seq(Frame)
    /\ serial \in Nat /\ upset \subseteq Nat
    /\ contended \subseteq Docs /\ closing \subseteq Docs
    /\ calls \in Nat /\ connects \in Nat /\ unasked \in Nat

LEMMA TypeParts == TypeOK <=> caller \in [Threads -> Caller] /\ SharedOK
BY DEF TypeOK, SharedOK

LEMMA RestingType == ASSUME NEW d \in Docs PROVE Resting(d) \in Caller
BY DEF Resting, Caller, Places, Request, NoRequest

LEMMA InitTypeOK == Init => TypeOK
<1> SUFFICES ASSUME Init PROVE TypeOK
  OBVIOUS
<1>1. caller \in [Threads -> Caller]
  BY RestingType, DocsAssumption DEF Init
<1>2. /\ open \in [Docs -> Nat] /\ docs \in [Docs -> Nat] /\ back \in Seq(Frame)
      /\ nextId \in Nat \ {0} /\ pending \subseteq Nat /\ asked \subseteq Request
  BY DEF Init, NotOpen
<1>3. /\ client \in {"none", "connecting", "up"} /\ reader \in BOOLEAN
      /\ alive \in BOOLEAN /\ ready \in BOOLEAN
      /\ contended \subseteq Docs /\ closing \subseteq Docs /\ upset \subseteq Nat
  BY DEF Init
<1>4. diagVersion \in Nat /\ serial \in Nat /\ {calls, connects, unasked} \subseteq Nat
  BY DEF Init
<1> QED BY <1>1, <1>2, <1>3, <1>4 DEF TypeOK

(* A thread that goes on is a caller still. *)
LEMMA CallerType ==
    ASSUME caller \in [Threads -> Caller], NEW t \in Threads, NEW c \in Caller,
           caller' = [caller EXCEPT ![t] = c]
    PROVE  caller' \in [Threads -> Caller]
OBVIOUS

LEMMA PartsOf == ASSUME caller \in [Threads -> Caller], NEW t \in Threads PROVE
    /\ caller[t].pc \in Places /\ caller[t].op \in {"query", "sync", "close"}
    /\ caller[t].doc \in Docs /\ caller[t].version \in Nat /\ caller[t].floor \in Nat
    /\ caller[t].request \in Request /\ caller[t].got \in Seq(Nat)
    /\ caller[t] = [pc |-> caller[t].pc, op |-> caller[t].op, doc |-> caller[t].doc,
                    version |-> caller[t].version, floor |-> caller[t].floor,
                    request |-> caller[t].request, got |-> caller[t].got]
BY DEF Caller

LEMMA GoType ==
    ASSUME caller \in [Threads -> Caller], NEW t \in Threads, NEW place \in Places,
           Go(t, place) \/ Leave(t)
    PROVE  caller' \in [Threads -> Caller]
<1>1. caller[t] \in Caller /\ Doc(t) \in Docs
  BY PartsOf DEF Doc
<1>2. [caller[t] EXCEPT !.pc = place] \in Caller
  BY <1>1 DEF Caller
<1>3. CASE Go(t, place)
  BY <1>2, <1>3 DEF Go
<1>4. CASE Leave(t)
  BY <1>1, <1>4, RestingType DEF Leave
<1> QED BY <1>3, <1>4

LEMMA ProceedType ==
    ASSUME TypeOK, NEW t \in Threads, Proceed(t) PROVE caller' \in [Threads -> Caller]
<1> DEFINE c == [caller[t] EXCEPT !.pc = IF caller[t].op = "sync" THEN "read" ELSE "check",
                                  !.floor = IF caller[t].op = "sync" THEN diagVersion + 1 ELSE 0,
                                  !.request = NoRequest, !.got = <<>>]
<1>1. caller[t] \in Caller /\ diagVersion \in Nat /\ caller \in [Threads -> Caller]
  BY DEF TypeOK
<1>2. NoRequest \in Request /\ {"read", "check"} \subseteq Places
  BY DEF NoRequest, Request, Places
<1>3. c \in Caller
  <2>1. /\ (IF caller[t].op = "sync" THEN "read" ELSE "check") \in Places
        /\ (IF caller[t].op = "sync" THEN diagVersion + 1 ELSE 0) \in Nat
        /\ <<>> \in Seq(Nat)
    BY <1>1, <1>2
  <2>2. ASSUME NEW place \in Places, NEW floor \in Nat
        PROVE  [caller[t] EXCEPT !.pc = place, !.floor = floor, !.request = NoRequest, !.got = <<>>]
                 \in Caller
    <3>1. caller[t] \in Caller /\ NoRequest \in Request /\ <<>> \in Seq(Nat)
      BY <1>1, <1>2, <2>1
    <3> HIDE DEF NoRequest, c
    <3> QED BY <3>1 DEF Caller
  <2> QED BY <2>1, <2>2
<1>4. caller' = [caller EXCEPT ![t] = c]
  BY <1>1 DEF Proceed
<1> QED BY <1>1, <1>3, <1>4

LEMMA DeliverType ==
    ASSUME caller \in [Threads -> Caller], NEW receivers, NEW number \in Nat,
           Deliver(receivers, number)
    PROVE  caller' \in [Threads -> Caller]
<1>1. ASSUME NEW t \in Threads PROVE [caller[t] EXCEPT !.got = <<number>>] \in Caller
  <2>1. caller[t] \in Caller /\ <<number>> \in Seq(Nat)
    OBVIOUS
  <2> QED BY <2>1 DEF Caller
<1> QED BY <1>1 DEF Deliver

LEMMA NextCallerType ==
    ASSUME TypeOK, [Next]_vars PROVE caller' \in [Threads -> Caller]
<1> USE DEF vars, shared
<1>0. caller \in [Threads -> Caller] /\ open \in [Docs -> Nat] /\ nextId \in Nat /\ serial \in Nat
      /\ upset \subseteq Nat /\ back \in Seq(Frame)
  BY DEF TypeOK
<1>1. ASSUME NEW t \in Threads, NEW op \in Calls, NEW d \in Docs, Begin(t, op, d)
      PROVE  caller' \in [Threads -> Caller]
  <2>1. Resting(d) \in Caller /\ op \in {"query", "sync", "close"} /\ "client" \in Places
    BY RestingType, CallsAssumption DEF Places
  <2>2. [Resting(d) EXCEPT !.pc = "client", !.op = op] \in Caller
    BY <2>1 DEF Caller
  <2> QED BY <1>0, <1>1, <2>2 DEF Begin
<1>2. ASSUME NEW t \in Threads, GetClient(t) \/ Initialized(t)
      PROVE  caller' \in [Threads -> Caller]
  BY <1>2, ProceedType DEF GetClient, Initialized
<1>3. ASSUME NEW t \in Threads, Connect(t)
      PROVE  caller' \in [Threads -> Caller]
  <2> DEFINE request == [id |-> 1, serial |-> serial + 1]
             c == [caller[t] EXCEPT !.pc = "initialize", !.request = request]
  <2>1. caller' = [caller EXCEPT ![t] = c]
    BY <1>3, <1>0 DEF Connect
  <2>2. request \in Request /\ "initialize" \in Places /\ caller[t] \in Caller
    BY <1>0 DEF Request, Places
  <2> HIDE DEF request
  <2>3. c \in Caller
    BY <2>2 DEF Caller
  <2> QED BY <1>0, <2>1, <2>3
<1>4. ASSUME NEW t \in Threads,
             \/ SpawnFails(t) \/ ConnectFails(t) \/ Check(t) \/ ReadFile(t) \/ ReadFails(t)
             \/ Change(t) \/ SendOpen(t) \/ MarkOpen(t) \/ SendChange(t) \/ GetDiagnostics(t)
             \/ DiagnosticsTimeOut(t) \/ SendClose(t) \/ Forget(t) \/ SendRequest(t) \/ SendFails(t)
             \/ Return(t) \/ TimesOut(t)
      PROVE  caller' \in [Threads -> Caller]
  <2>1. \/ Leave(t)
        \/ \E place \in {"register", "didClose", "read", "didOpen", "change", "bump", "opened",
                          "diagnose", "closed", "await"} : Go(t, place)
    BY <1>4 DEF SpawnFails, ConnectFails, Check, ReadFile, TextIsRead, ReadFails, Change, SendOpen,
       MarkOpen, SendChange, GetDiagnostics, DiagnosticsTimeOut, SendClose, Forget, SendRequest,
       SendFails, Return, TimesOut
  <2>2. {"register", "didClose", "read", "didOpen", "change", "bump", "opened",
         "diagnose", "closed", "await"} \subseteq Places /\ "idle" \in Places
    BY DEF Places
  <2> QED BY <1>0, <2>1, <2>2, GoType
<1>5. ASSUME NEW t \in Threads, Bump(t)
      PROVE  caller' \in [Threads -> Caller]
  <2> DEFINE c == [caller[t] EXCEPT !.version = open[Doc(t)] + 1, !.pc = "didChange"]
  <2>1. caller' = [caller EXCEPT ![t] = c]
    BY <1>5, <1>0 DEF Bump
  <2>2. open[Doc(t)] + 1 \in Nat /\ "didChange" \in Places /\ caller[t] \in Caller
    BY <1>0, PartsOf DEF Doc, Places
  <2>3. c \in Caller
    BY <2>2 DEF Caller
  <2> QED BY <1>0, <2>1, <2>3
<1>6. ASSUME NEW t \in Threads, Register(t)
      PROVE  caller' \in [Threads -> Caller]
  <2> DEFINE request == [id |-> NewId, serial |-> serial + 1]
             c == [caller[t] EXCEPT !.request = request, !.pc = "send"]
  <2>1. caller' = [caller EXCEPT ![t] = c]
    BY <1>6, <1>0 DEF Register
  <2>2. request \in Request /\ "send" \in Places /\ caller[t] \in Caller
    BY <1>0 DEF Request, Places, NewId
  <2> HIDE DEF request
  <2>3. c \in Caller
    BY <2>2 DEF Caller
  <2> QED BY <1>0, <2>1, <2>3
<1>7. CASE ReadAnswer
  <2>1. Head(back).request.serial \in Nat
    BY <1>0, <1>7 DEF ReadAnswer, Takes, Frame, Request
  <2> QED BY <1>0, <1>7, <2>1, DeliverType DEF ReadAnswer
<1>8. CASE ReadAsk \/ ReadGarbage
  BY <1>0, <1>8, DeliverType DEF ReadAsk, ReadGarbage
<1>9. CASE UNCHANGED caller
  BY <1>0, <1>9
<1>10. CASE ReadPublish \/ (\E request \in asked : Answer(request)) \/ (\E d \in Docs : Publish(d))
            \/ WriteOddly \/ Die \/ UNCHANGED vars
  BY <1>0, <1>10 DEF ReadPublish, Answer, Publish, WriteOddly, Writes, Die
<1> QED
  BY <1>1, <1>2, <1>3, <1>4, <1>5, <1>6, <1>7, <1>8, <1>10 DEF Next, ThreadStep, ReaderStep, Rest

LEMMA NextSharedType == ASSUME TypeOK, [Next]_vars PROVE SharedOK'
<1> USE DEF vars, shared, clientVars, serverVars, history, limits
<1>0. caller \in [Threads -> Caller] /\ SharedOK
  BY TypeParts
<1>1. ASSUME NEW t \in Threads, NEW op \in Calls, NEW d \in Docs, Begin(t, op, d) PROVE SharedOK'
  BY <1>0, <1>1 DEF Begin, SharedOK
<1>2. ASSUME NEW t \in Threads,
             \/ GetClient(t) \/ SpawnFails(t) \/ Check(t) \/ ReadFails(t) \/ Change(t)
             \/ GetDiagnostics(t) \/ DiagnosticsTimeOut(t) \/ Return(t) \/ TimesOut(t)
      PROVE  SharedOK'
  <2>1. UNCHANGED shared
    BY <1>2 DEF GetClient, SpawnFails, Check, ReadFails, Change, GetDiagnostics, DiagnosticsTimeOut,
       Return, TimesOut
  <2> QED BY <1>0, <2>1 DEF SharedOK
<1>3. ASSUME NEW t \in Threads, Connect(t) PROVE SharedOK'
  <2>1. open' \in [Docs -> Nat] /\ docs' \in [Docs -> Nat] /\ back' \in Seq(Frame)
    BY <1>3 DEF Connect, NotOpen
  <2>2. serial \in Nat /\ connects \in Nat
    BY <1>0 DEF SharedOK
  <2>3. asked' \subseteq Request /\ serial' \in Nat /\ connects' \in Nat
    BY <1>3, <2>2 DEF Connect, Request
  <2>4. /\ client' \in {"none", "connecting", "up"} /\ pending' \subseteq Nat
        /\ nextId' \in Nat \ {0} /\ diagVersion' \in Nat
    <3>1. client' = "connecting" /\ pending' = {1} /\ nextId' = 2 /\ diagVersion' = 0
      BY <1>3 DEF Connect
    <3> QED BY <3>1
  <2>5. reader' \in BOOLEAN /\ alive' \in BOOLEAN /\ ready' \in BOOLEAN
    <3>1. reader' = TRUE /\ alive' = TRUE /\ ready' = FALSE
      BY <1>3, Zenon DEF Connect
    <3> QED BY <3>1
  <2>6. UNCHANGED <<upset, contended, closing, calls, unasked>>
    BY <1>3 DEF Connect
  <2> QED BY <1>0, <2>1, <2>3, <2>4, <2>5, <2>6 DEF SharedOK
<1>4. ASSUME NEW t \in Threads, Initialized(t) PROVE SharedOK'
  BY <1>0, <1>4, PartsOf DEF Initialized, SharedOK
<1>5. ASSUME NEW t \in Threads, ConnectFails(t) PROVE SharedOK'
  <2>1. /\ client' = "none" /\ alive' = FALSE /\ asked' = {} /\ back' \in Seq(Frame)
    BY <1>5 DEF ConnectFails
  <2>2. UNCHANGED <<clientVars, ready, docs, history, limits>>
    BY <1>5 DEF ConnectFails
  <2> QED BY <1>0, <2>1, <2>2 DEF SharedOK
<1>6. ASSUME NEW t \in Threads, ReadFile(t) PROVE SharedOK'
  <2>1. UNCHANGED shared
    BY <1>6 DEF ReadFile, TextIsRead
  <2> QED BY <1>0, <2>1 DEF SharedOK
<1>7. ASSUME NEW t \in Threads, Bump(t) PROVE SharedOK'
  <2>1. open' = [open EXCEPT ![Doc(t)] = @ + 1] /\ open \in [Docs -> Nat] /\ Doc(t) \in Docs
    BY <1>0, <1>7, PartsOf DEF Bump, SharedOK, Doc
  <2>2. open' \in [Docs -> Nat]
    BY <2>1
  <2>3. UNCHANGED <<client, pending, nextId, reader, diagVersion, serverVars, history, limits>>
    BY <1>7 DEF Bump
  <2> QED BY <1>0, <2>2, <2>3 DEF SharedOK
<1>8. ASSUME NEW t \in Threads, SendOpen(t) \/ SendClose(t) \/ SendChange(t) PROVE SharedOK'
  <2>1. PICK document \in Nat : Receives(t, document)
    BY <1>0, <1>8, PartsOf DEF SendOpen, SendClose, SendChange, NotOpen
  <2>2. docs \in [Docs -> Nat]
    BY <1>0 DEF SharedOK
  <2>3. docs' \in [Docs -> Nat]
    BY <2>1, <2>2 DEF Receives
  <2>4. UNCHANGED <<client, clientVars, alive, ready, asked, back, history, limits>>
    BY <1>8 DEF SendOpen, SendClose, SendChange
  <2> QED BY <1>0, <2>3, <2>4 DEF SharedOK
<1>9. ASSUME NEW t \in Threads, MarkOpen(t) \/ Forget(t) PROVE SharedOK'
  <2>1. PICK mark \in {0, 1} : open' = [open EXCEPT ![Doc(t)] = mark]
    BY <1>9 DEF MarkOpen, Forget
  <2>2. open' \in [Docs -> Nat]
    <3>1. open \in [Docs -> Nat] /\ mark \in Nat
      BY <1>0 DEF SharedOK
    <3> QED BY <2>1, <3>1
  <2>3. UNCHANGED <<client, pending, nextId, reader, diagVersion, serverVars, history, limits>>
    BY <1>9 DEF MarkOpen, Forget
  <2> QED BY <1>0, <2>2, <2>3 DEF SharedOK
<1>10. ASSUME NEW t \in Threads, Register(t) PROVE SharedOK'
  <2>1. nextId \in Nat \ {0} /\ serial \in Nat /\ pending \subseteq Nat
    BY <1>0 DEF SharedOK
  <2>2. nextId' \in Nat \ {0} /\ serial' \in Nat /\ pending' \subseteq Nat
    BY <1>10, <2>1 DEF Register, NewId
  <2>3. UNCHANGED <<client, open, reader, diagVersion, serverVars, upset, contended, closing, limits>>
    BY <1>10 DEF Register
  <2> QED BY <1>0, <2>2, <2>3 DEF SharedOK
<1>11. ASSUME NEW t \in Threads, SendRequest(t) PROVE SharedOK'
  BY <1>0, <1>11, PartsOf DEF SendRequest, SharedOK
<1>12. ASSUME NEW t \in Threads, SendFails(t) PROVE SharedOK'
  BY <1>0, <1>12, PartsOf DEF SendFails, SharedOK
<1>13. CASE ReadAnswer
  BY <1>0, <1>13, PartsOf DEF ReadAnswer, Takes, SharedOK
<1>14. CASE ReadAsk
  <2>1. back' \in Seq(Frame)
    BY <1>0, <1>14 DEF ReadAsk, Takes, SharedOK
  <2>2. UNCHANGED <<client, open, nextId, alive, ready, docs, asked, serial, contended, closing, limits>>
    BY <1>14 DEF ReadAsk, Takes
  <2>3. upset' \subseteq Nat
    <3>1. \A t \in Threads : caller[t].request.serial \in Nat
      BY <1>0, PartsOf DEF Request
    <3>2. upset \subseteq Nat
      BY <1>0 DEF SharedOK
    <3> QED BY <1>14, <3>1, <3>2 DEF ReadAsk, ReceiverOf
  <2>4. pending' \subseteq Nat /\ UNCHANGED <<reader, diagVersion>>
    BY <1>0, <1>14 DEF ReadAsk, SharedOK
  <2> QED BY <1>0, <2>1, <2>2, <2>3, <2>4 DEF SharedOK
<1>15. CASE ReadPublish
  BY <1>0, <1>15, PartsOf DEF ReadPublish, Takes, SharedOK
<1>16. CASE ReadGarbage
  <2>1. back' \in Seq(Frame)
    BY <1>0, <1>16 DEF ReadGarbage, Takes, SharedOK
  <2>2. UNCHANGED <<client, open, nextId, alive, ready, docs, asked, serial, contended, closing, limits>>
    BY <1>16 DEF ReadGarbage, Takes
  <2>3. upset' \subseteq Nat
    <3>1. \A t \in Threads : caller[t].request.serial \in Nat
      BY <1>0, PartsOf DEF Request
    <3>2. upset \subseteq Nat
      BY <1>0 DEF SharedOK
    <3> QED BY <1>16, <3>1, <3>2 DEF ReadGarbage
  <2>4. pending' \subseteq Nat /\ reader' \in BOOLEAN /\ UNCHANGED diagVersion
    BY <1>16 DEF ReadGarbage
  <2> QED BY <1>0, <2>1, <2>2, <2>3, <2>4 DEF SharedOK
<1>17. ASSUME NEW request \in asked, Answer(request) PROVE SharedOK'
  <2>1. [kind |-> "answer", request |-> request] \in Frame
    BY <1>0, <1>17 DEF Frame, SharedOK
  <2>2. back' = Append(back, [kind |-> "answer", request |-> request]) /\ back \in Seq(Frame)
    BY <1>0, <1>17 DEF Answer, Writes, SharedOK
  <2>3. back' \in Seq(Frame)
    BY <2>1, <2>2
  <2>4. asked' \subseteq Request /\ unasked' \in Nat
    BY <1>0, <1>17 DEF Answer, SharedOK
  <2>5. UNCHANGED <<client, clientVars, alive, ready, docs, history, calls, connects>>
    BY <1>17 DEF Answer, Writes
  <2> QED BY <1>0, <2>3, <2>4, <2>5 DEF SharedOK
<1>18. ASSUME NEW d \in Docs, Publish(d) PROVE SharedOK'
  <2>1. [kind |-> "publish", doc |-> d] \in Frame
    BY <1>0, <1>18 DEF Frame, SharedOK
  <2>2. back' = Append(back, [kind |-> "publish", doc |-> d]) /\ back \in Seq(Frame)
    BY <1>0, <1>18 DEF Publish, Writes, SharedOK
  <2>3. back' \in Seq(Frame)
    BY <2>1, <2>2
  <2>4. asked' \subseteq Request /\ unasked' \in Nat
    BY <1>0, <1>18 DEF Publish, SharedOK
  <2>5. UNCHANGED <<client, clientVars, alive, ready, docs, history, calls, connects>>
    BY <1>18 DEF Publish, Writes
  <2> QED BY <1>0, <2>3, <2>4, <2>5 DEF SharedOK
<1>19. CASE WriteOddly
  <2>1. PICK frame \in Frame : Writes(frame)
    <3>1. ASSUME NEW id \in Nat PROVE [kind |-> "ask", id |-> id] \in Frame
      BY DEF Frame
    <3>2. [kind |-> "garbage"] \in Frame
      BY DEF Frame
    <3>3. 1 .. nextId \subseteq Nat
      BY <1>0 DEF SharedOK
    <3> QED BY <1>19, <3>1, <3>2, <3>3 DEF WriteOddly
  <2>2. back \in Seq(Frame) /\ back' = Append(back, frame)
    BY <1>0, <2>1 DEF Writes, SharedOK
  <2>3. back' \in Seq(Frame)
    BY <2>2
  <2>4. UNCHANGED asked /\ unasked' \in Nat
    BY <1>0, <1>19 DEF WriteOddly, SharedOK
  <2>5. UNCHANGED <<client, clientVars, alive, ready, docs, history, calls, connects>>
    BY <2>1 DEF Writes
  <2> QED BY <1>0, <2>3, <2>4, <2>5 DEF SharedOK
<1>20. CASE Die
  BY <1>0, <1>20 DEF Die, Writes, SharedOK
<1>21. CASE UNCHANGED vars
  BY <1>0, <1>21 DEF SharedOK
<1> QED
  BY <1>1, <1>2, <1>3, <1>4, <1>5, <1>6, <1>7, <1>8, <1>9, <1>10, <1>11, <1>12, <1>13, <1>14, <1>15, <1>16, <1>17, <1>18, <1>19, <1>20, <1>21
  DEF Next, ThreadStep, ReaderStep, Rest

LEMMA NextTypeOK == TypeOK /\ [Next]_vars => TypeOK'
BY NextCallerType, NextSharedType DEF TypeOK, SharedOK

(* Every variable keeps its type, whatever the threads ask for and whatever *)
(* the server writes.                                                      *)
THEOREM TypeCorrect == Spec => []TypeOK
BY InitTypeOK, NextTypeOK, PTL DEF Spec

-----------------------------------------------------------------------------
(* Where a step leaves the threads.                                        *)
LEMMA GoesTo ==
    ASSUME caller \in [Threads -> Caller], NEW t \in Threads, NEW place, Go(t, place)
    PROVE  /\ caller'[t].pc = place
           /\ caller'[t].request = caller[t].request /\ caller'[t].got = caller[t].got
           /\ \A u \in Threads \ {t} : caller'[u] = caller[u]
<1>1. caller[t] \in Caller /\ caller' = [caller EXCEPT ![t] = [caller[t] EXCEPT !.pc = place]]
  BY DEF Go
<1>2. /\ [caller[t] EXCEPT !.pc = place].pc = place
      /\ [caller[t] EXCEPT !.pc = place].request = caller[t].request
      /\ [caller[t] EXCEPT !.pc = place].got = caller[t].got
  BY <1>1 DEF Caller
<1> QED BY <1>1, <1>2

LEMMA LeavesTo ==
    ASSUME caller \in [Threads -> Caller], NEW t \in Threads, Leave(t)
    PROVE  /\ caller'[t].pc = "idle" /\ caller'[t].got = <<>>
           /\ \A u \in Threads \ {t} : caller'[u] = caller[u]
BY DEF Leave, Resting

LEMMA ProceedsTo ==
    ASSUME caller \in [Threads -> Caller], NEW t \in Threads, Proceed(t)
    PROVE  /\ caller'[t].pc \in {"read", "check"} /\ caller'[t].got = <<>>
           /\ \A u \in Threads \ {t} : caller'[u] = caller[u]
<1> DEFINE c == [caller[t] EXCEPT !.pc = IF caller[t].op = "sync" THEN "read" ELSE "check",
                                  !.floor = IF caller[t].op = "sync" THEN diagVersion + 1 ELSE 0,
                                  !.request = NoRequest, !.got = <<>>]
<1>1. caller[t] \in Caller /\ caller' = [caller EXCEPT ![t] = c]
  BY DEF Proceed
<1>2. c.pc \in {"read", "check"} /\ c.got = <<>>
  BY <1>1 DEF Caller
<1> QED BY <1>1, <1>2

LEMMA DeliverKeeps ==
    ASSUME caller \in [Threads -> Caller], NEW receivers, NEW number, Deliver(receivers, number)
    PROVE  \A t \in Threads :
              /\ caller'[t].pc = caller[t].pc /\ caller'[t].request = caller[t].request
              /\ caller'[t].got = IF t \in receivers THEN <<number>> ELSE caller[t].got
<1> TAKE t \in Threads
<1>1. caller[t] \in Caller
  OBVIOUS
<1>2. caller'[t] = IF t \in receivers THEN [caller[t] EXCEPT !.got = <<number>>] ELSE caller[t]
  BY DEF Deliver
<1>3. /\ [caller[t] EXCEPT !.got = <<number>>].pc = caller[t].pc
      /\ [caller[t] EXCEPT !.got = <<number>>].request = caller[t].request
      /\ [caller[t] EXCEPT !.got = <<number>>].got = <<number>>
  BY <1>1 DEF Caller
<1> QED BY <1>2, <1>3

-----------------------------------------------------------------------------
(* Who has passed client_for_path; the lock on the clients is held by the  *)
(* one thread that connects, so `connecting` is that thread's.             *)
Past(t) == caller[t].pc \notin {"idle", "client", "initialize"}

Standing ==
    /\ client = "up" /\ alive => ready
    /\ \A t \in Threads : Past(t) => client = "up"
    /\ \A t \in Threads : At(t, "initialize") => client = "connecting"
    /\ \A t, u \in Threads : At(t, "initialize") /\ At(u, "initialize") => t = u

LEMMA InitStanding == Init => Standing
<1> SUFFICES ASSUME Init PROVE Standing
  OBVIOUS
<1>1. \A t \in Threads : caller[t].pc = "idle"
  <2> TAKE t \in Threads
  <2>1. caller[t] = Resting(CHOOSE d \in Docs : TRUE)
    BY DEF Init
  <2> QED BY <2>1 DEF Resting
<1> QED BY <1>1 DEF Init, Standing, Past, At

(* A step of a thread beyond client_for_path, or one that gives up there.  *)
LEMMA MoveStanding ==
    ASSUME TypeOK, Standing, NEW t \in Threads, UNCHANGED <<client, alive, ready>>,
           \A u \in Threads \ {t} : caller'[u] = caller[u],
           \/ caller'[t].pc \in {"idle", "client"}
           \/ client = "up" /\ caller'[t].pc # "initialize"
    PROVE  Standing'
BY DEF Standing, Past, At

LEMMA StillStanding ==
    ASSUME TypeOK, Standing, UNCHANGED <<client, ready>>, alive' = alive \/ alive' = FALSE,
           \A u \in Threads : caller'[u].pc = caller[u].pc
    PROVE  Standing'
BY DEF Standing, Past, At

LEMMA NextStanding == TypeOK /\ Standing /\ [Next]_vars => Standing'
<1> SUFFICES ASSUME TypeOK, Standing, [Next]_vars PROVE Standing'
  OBVIOUS
<1>0. caller \in [Threads -> Caller] /\ \A t \in Threads : caller[t] \in Caller
  BY DEF TypeOK
<1> USE DEF vars, shared, clientVars, serverVars, history, limits
<1>1. ASSUME NEW t \in Threads, NEW op \in Calls, NEW d \in Docs, Begin(t, op, d)
      PROVE  Standing'
  <2> DEFINE c == [Resting(d) EXCEPT !.pc = "client", !.op = op]
  <2>1. c.pc = "client"
    BY DEF Resting
  <2>2. caller' = [caller EXCEPT ![t] = c] /\ UNCHANGED <<client, alive, ready>>
    BY <1>1 DEF Begin
  <2> HIDE DEF c
  <2>3. caller'[t].pc = "client" /\ \A u \in Threads \ {t} : caller'[u] = caller[u]
    BY <1>0, <2>1, <2>2
  <2> QED BY <2>2, <2>3, MoveStanding
<1>2. ASSUME NEW t \in Threads, GetClient(t) PROVE Standing'
  <2>1. client = "up" /\ Proceed(t) /\ UNCHANGED <<client, alive, ready>>
    BY <1>2 DEF GetClient, Usable
  <2> QED BY <1>0, <2>1, ProceedsTo, MoveStanding
<1>3. ASSUME NEW t \in Threads, Connect(t) PROVE Standing'
  <2>1. client = "none" /\ client' = "connecting"
    BY <1>3 DEF Connect
  <2>2. \A u \in Threads \ {t} : caller'[u] = caller[u]
    BY <1>3, <1>0 DEF Connect
  <2>3. caller'[t].pc = "initialize"
    <3> DEFINE c == [caller[t] EXCEPT !.pc = "initialize",
                                      !.request = [id |-> 1, serial |-> serial + 1]]
    <3>1. caller' = [caller EXCEPT ![t] = c]
      BY <1>3, <1>0 DEF Connect
    <3>2. c.pc = "initialize"
      BY <1>0 DEF Caller
    <3> QED BY <1>0, <3>1, <3>2
  <2>4. \A u \in Threads : caller[u].pc \in {"idle", "client"}
    BY <2>1 DEF Standing, Past, At
  <2> QED BY <2>1, <2>2, <2>3, <2>4 DEF Standing, Past, At
<1>4. ASSUME NEW t \in Threads, Initialized(t) PROVE Standing'
  <2>1. client' = "up" /\ Proceed(t) /\ At(t, "initialize")
    BY <1>4 DEF Initialized
  <2>2. ready' = alive /\ alive' = alive
    BY <1>4, Zenon DEF Initialized
  <2>3. \A u \in Threads \ {t} : caller'[u] = caller[u] /\ ~At(u, "initialize")
    BY <1>0, <2>1, ProceedsTo DEF Standing
  <2>4. caller'[t].pc \in {"read", "check"}
    BY <1>0, <2>1, ProceedsTo
  <2> QED BY <2>1, <2>2, <2>3, <2>4 DEF Standing, Past, At
<1>5. ASSUME NEW t \in Threads, ConnectFails(t) PROVE Standing'
  <2>1. client' = "none" /\ Leave(t) /\ At(t, "initialize")
    BY <1>5 DEF ConnectFails
  <2>2. client = "connecting" /\ \A u \in Threads \ {t} : caller'[u] = caller[u] /\ ~At(u, "initialize")
    BY <1>0, <2>1, LeavesTo DEF Standing
  <2>3. caller'[t].pc = "idle"
    BY <1>0, <2>1, LeavesTo
  <2> QED BY <2>1, <2>2, <2>3 DEF Standing, Past, At
<1>6. ASSUME NEW t \in Threads,
             \/ SpawnFails(t) \/ ReadFails(t) \/ GetDiagnostics(t) \/ DiagnosticsTimeOut(t)
             \/ Forget(t) \/ SendFails(t) \/ Return(t) \/ TimesOut(t)
      PROVE  Standing'
  <2>1. Leave(t) /\ UNCHANGED <<client, alive, ready>>
    BY <1>6 DEF SpawnFails, ReadFails, GetDiagnostics, DiagnosticsTimeOut, Forget, SendFails, Return,
       TimesOut
  <2> QED BY <1>0, <2>1, LeavesTo, MoveStanding
<1>7. ASSUME NEW t \in Threads,
             \/ Check(t) \/ ReadFile(t) \/ Change(t) \/ SendOpen(t) \/ MarkOpen(t)
             \/ SendChange(t) \/ SendClose(t) \/ SendRequest(t)
      PROVE  Standing'
  <2>1. UNCHANGED <<client, alive, ready>>
    BY <1>7 DEF Check, ReadFile, TextIsRead, Change, SendOpen, MarkOpen, SendChange, SendClose,
       SendRequest
  <2>2. Past(t)
    BY <1>7 DEF Check, ReadFile, TextIsRead, Change, SendOpen, MarkOpen, SendChange, SendClose,
       SendRequest, Past, At
  <2>3. \/ Leave(t)
        \/ \E place \in {"register", "didClose", "read", "didOpen", "change", "bump", "opened",
                          "diagnose", "closed", "await"} : Go(t, place)
    BY <1>7 DEF Check, ReadFile, TextIsRead, Change, SendOpen, MarkOpen, SendChange, SendClose,
       SendRequest
  <2>4. \/ caller'[t].pc = "idle" /\ \A u \in Threads \ {t} : caller'[u] = caller[u]
        \/ caller'[t].pc # "initialize" /\ \A u \in Threads \ {t} : caller'[u] = caller[u]
    BY <1>0, <2>3, LeavesTo, GoesTo
  <2> QED BY <2>1, <2>2, <2>4, MoveStanding DEF Standing
<1>8. ASSUME NEW t \in Threads, Bump(t) \/ Register(t) PROVE Standing'
  <2>1. UNCHANGED <<client, alive, ready>>
    BY <1>8 DEF Bump, Register
  <2>2. Past(t)
    BY <1>8 DEF Bump, Register, Past, At
  <2>3. caller'[t].pc # "initialize" /\ \A u \in Threads \ {t} : caller'[u] = caller[u]
    <3>1. PICK request, version :
            \/ caller' = [caller EXCEPT ![t] = [caller[t] EXCEPT !.version = version, !.pc = "didChange"]]
            \/ caller' = [caller EXCEPT ![t] = [caller[t] EXCEPT !.request = request, !.pc = "send"]]
      BY <1>0, <1>8 DEF Bump, Register
    <3>2. /\ [caller[t] EXCEPT !.version = version, !.pc = "didChange"].pc = "didChange"
          /\ [caller[t] EXCEPT !.request = request, !.pc = "send"].pc = "send"
      BY <1>0 DEF Caller
    <3> QED BY <1>0, <3>1, <3>2
  <2> QED BY <2>1, <2>2, <2>3, MoveStanding DEF Standing
<1>9. CASE ReaderStep
  <2>1. UNCHANGED <<client, alive, ready>>
    BY <1>9 DEF ReaderStep, ReadAnswer, ReadAsk, ReadPublish, ReadGarbage, Takes
  <2>2. UNCHANGED caller \/ \E receivers, number : Deliver(receivers, number)
    BY <1>9 DEF ReaderStep, ReadAnswer, ReadAsk, ReadPublish, ReadGarbage
  <2>3. \A u \in Threads : caller'[u].pc = caller[u].pc
    BY <1>0, <2>2, DeliverKeeps
  <2> QED BY <2>1, <2>3, StillStanding
<1>10. CASE (\E request \in asked : Answer(request)) \/ (\E d \in Docs : Publish(d)) \/ WriteOddly \/ Die
            \/ UNCHANGED vars
  <2>1. UNCHANGED <<caller, client, ready>> /\ (alive' = alive \/ alive' = FALSE)
    BY <1>10, Zenon DEF Answer, Publish, WriteOddly, Writes, Die
  <2> QED BY <2>1, StillStanding
<1> QED
  BY <1>1, <1>2, <1>3, <1>4, <1>5, <1>6, <1>7, <1>8, <1>9, <1>10 DEF Next, ThreadStep, Rest

LEMMA StandingHolds == Spec => []Standing
<1>1. TypeOK /\ Standing /\ [Next]_vars => Standing'
  BY NextStanding
<1> QED BY <1>1, InitStanding, TypeCorrect, PTL DEF Spec

(* No message reaches a server that has not been told that it is           *)
(* initialized: the lock on the clients is held until it has.              *)
THEOREM InitializesFirst == Spec => []InitializedFirst
<1>1. Standing => InitializedFirst
  BY DEF Standing, InitializedFirst, Past
<1> QED BY <1>1, StandingHolds, PTL

-----------------------------------------------------------------------------
(* The requests that are under way: with the server, in an answer of it, or *)
(* with a thread that waits.  Of these an id names only one, and the next   *)
(* id none.                                                                *)
Waiting == {"initialize", "send", "await"}
Waiters == {caller[t].request : t \in {u \in Threads : caller[u].pc \in Waiting}}
Answers == {back[i].request : i \in {j \in DOMAIN back : back[j].kind = "answer"}}
Live    == asked \cup Answers \cup Waiters

IdsAreOwn ==
    /\ \A r \in Live : r.id < nextId
    /\ \A r, s \in Live : r.id = s.id => r = s

OthersHaveNothing == \A t \in Threads : caller[t].pc \notin Waiting => caller[t].got = <<>>

OwnOK == IdsAreOwn /\ OthersHaveNothing /\ AnswersAreOwn

LEMMA InitOwnOK == Init => OwnOK
<1> SUFFICES ASSUME Init PROVE OwnOK
  OBVIOUS
<1>1. \A t \in Threads : caller[t].pc = "idle" /\ caller[t].got = <<>>
  <2> TAKE t \in Threads
  <2>1. caller[t] = Resting(CHOOSE d \in Docs : TRUE)
    BY DEF Init
  <2> QED BY <2>1 DEF Resting
<1>2. asked = {} /\ Answers = {} /\ Waiters = {}
  BY <1>1 DEF Init, Answers, Waiters, Waiting
<1>3. Live = {}
  BY <1>2 DEF Live
<1> QED BY <1>1, <1>3 DEF OwnOK, IdsAreOwn, OthersHaveNothing, AnswersAreOwn

LEMMA FewerIds ==
    ASSUME IdsAreOwn, Live' \subseteq Live, nextId' = nextId PROVE IdsAreOwn'
BY DEF IdsAreOwn

LEMMA HeadIsLive ==
    ASSUME TypeOK, back # <<>>, Head(back).kind = "answer" PROVE Head(back).request \in Live
<1>1. 1 \in DOMAIN back /\ Head(back) = back[1]
  BY DEF TypeOK
<1> QED BY <1>1 DEF Live, Answers

LEMMA TailAnswers ==
    ASSUME TypeOK, back # <<>>, back' = Tail(back) PROVE Answers' \subseteq Answers
<1>1. \A i \in DOMAIN back' : i + 1 \in DOMAIN back /\ back'[i] = back[i + 1]
  BY DEF TypeOK
<1> QED BY <1>1 DEF Answers

LEMMA MoreAnswers ==
    ASSUME TypeOK, NEW frame, back' = Append(back, frame),
           frame.kind = "answer" => frame.request \in asked
    PROVE  Answers' \subseteq Answers \cup asked
<1>1. \A i \in DOMAIN back' : (i \in DOMAIN back /\ back'[i] = back[i]) \/ back'[i] = frame
  BY DEF TypeOK
<1> QED BY <1>1 DEF Answers

(* A step of a thread that makes no request.                               *)
LEMMA MoveOwn ==
    ASSUME TypeOK, OwnOK, NEW t \in Threads, UNCHANGED <<nextId, upset>>,
           \A u \in Threads \ {t} : caller'[u] = caller[u],
           \/ caller'[t].pc \notin Waiting /\ caller'[t].got = <<>>
           \/ /\ caller[t].pc \in Waiting /\ caller'[t].pc \in Waiting
              /\ caller'[t].request = caller[t].request /\ caller'[t].got = caller[t].got,
           asked' \subseteq Live, Answers' \subseteq Answers
    PROVE  OwnOK'
<1>1. Waiters' \subseteq Waiters
  BY DEF Waiters
<1>2. Live' \subseteq Live
  BY <1>1 DEF Live
<1>3. IdsAreOwn'
  BY <1>2, FewerIds DEF OwnOK
<1>4. OthersHaveNothing' /\ AnswersAreOwn'
  BY DEF OwnOK, OthersHaveNothing, AnswersAreOwn
<1> QED BY <1>3, <1>4 DEF OwnOK

(* A frame that is read: whoever gets it asked for it, or is upset by it.  *)
LEMMA DeliverOwn ==
    ASSUME TypeOK, OwnOK, NEW receivers, NEW number \in Nat, Deliver(receivers, number),
           UNCHANGED <<nextId, asked>>, back # <<>>, back' = Tail(back), upset \subseteq upset',
           \A t \in receivers \cap Threads :
              /\ Listens(t)
              /\ caller[t].request.serial = number \/ caller[t].request.serial \in upset'
    PROVE  OwnOK'
<1>1. \A t \in Threads :
        /\ caller'[t].pc = caller[t].pc /\ caller'[t].request = caller[t].request
        /\ caller'[t].got = IF t \in receivers THEN <<number>> ELSE caller[t].got
  BY DeliverKeeps DEF TypeOK
<1>2. Waiters' \subseteq Waiters /\ Answers' \subseteq Answers
  BY <1>1, TailAnswers DEF Waiters
<1>3. IdsAreOwn'
  BY <1>2, FewerIds DEF OwnOK, Live
<1>4. OthersHaveNothing'
  BY <1>1 DEF OwnOK, OthersHaveNothing, Listens, Waiting
<1>5. AnswersAreOwn'
  <2> SUFFICES ASSUME NEW t \in Threads, caller'[t].got # <<>>
               PROVE  \/ caller'[t].got = <<caller'[t].request.serial>>
                      \/ caller'[t].request.serial \in upset'
    BY DEF AnswersAreOwn
  <2>1. CASE t \in receivers
    BY <1>1, <2>1
  <2>2. CASE t \notin receivers
    BY <1>1, <2>2 DEF OwnOK, AnswersAreOwn
  <2> QED BY <2>1, <2>2
<1> QED BY <1>3, <1>4, <1>5 DEF OwnOK

(* What the server does reaches no thread yet.                             *)
LEMMA ServerOwn ==
    ASSUME TypeOK, OwnOK, UNCHANGED <<caller, nextId, upset>>, asked' \subseteq asked,
           Answers' \subseteq Answers \cup asked
    PROVE  OwnOK'
<1>1. Waiters' = Waiters
  BY DEF Waiters
<1>2. Live' \subseteq Live
  BY <1>1 DEF Live
<1>3. OthersHaveNothing' /\ AnswersAreOwn'
  BY DEF OwnOK, OthersHaveNothing, AnswersAreOwn
<1> QED BY <1>2, <1>3, FewerIds DEF OwnOK

(* A request with a new id, from a thread that had none under way.         *)
LEMMA RequestOwn ==
    ASSUME TypeOK, OwnOK, NEW t \in Threads, NEW request \in Request, UNCHANGED upset,
           \A u \in Threads \ {t} : caller'[u] = caller[u],
           caller'[t].request = request, caller'[t].got = <<>>,
           Live' \subseteq Live \cup {request}, request.id = nextId, nextId' = nextId + 1
    PROVE  OwnOK'
<1>1. \A r \in Live : r.id < nextId
  BY DEF OwnOK, IdsAreOwn
<1>2. Live \subseteq Request
  <2>1. \A i \in DOMAIN back : back[i].kind = "answer" => back[i].request \in Request
    <3> TAKE i \in DOMAIN back
    <3>1. back[i] \in Frame
      BY DEF TypeOK
    <3> QED BY <3>1 DEF Frame
  <2>2. asked \subseteq Request /\ \A u \in Threads : caller[u].request \in Request
    BY PartsOf DEF TypeOK
  <2> QED BY <2>1, <2>2 DEF Live, Answers, Waiters
<1>3. \A r \in Live : r.id \in Nat
  BY <1>2 DEF Request
<1>4. nextId \in Nat
  BY DEF TypeOK
<1>5. IdsAreOwn'
  <2>1. \A r \in Live' : r.id < nextId'
    BY <1>1, <1>3, <1>4
  <2>2. \A r, s \in Live' : r.id = s.id => r = s
    BY <1>1, <1>3, <1>4 DEF OwnOK, IdsAreOwn
  <2> QED BY <2>1, <2>2 DEF IdsAreOwn
<1>6. OthersHaveNothing' /\ AnswersAreOwn'
  BY DEF OwnOK, OthersHaveNothing, AnswersAreOwn
<1> QED BY <1>5, <1>6 DEF OwnOK

LEMMA NextOwnOK == TypeOK /\ Standing /\ OwnOK /\ [Next]_vars => OwnOK'
<1> SUFFICES ASSUME TypeOK, Standing, OwnOK, [Next]_vars PROVE OwnOK'
  OBVIOUS
<1>0. caller \in [Threads -> Caller] /\ \A t \in Threads : caller[t] \in Caller
  BY DEF TypeOK
<1>00. /\ (back' = back => Answers' = Answers)
       /\ \A t \in Threads : caller[t].pc \notin Waiting => caller[t].got = <<>>
  BY DEF Answers, OwnOK, OthersHaveNothing
<1> USE DEF vars, shared, clientVars, serverVars, history, limits
<1>1. ASSUME NEW t \in Threads, NEW op \in Calls, NEW d \in Docs, Begin(t, op, d)
      PROVE  OwnOK'
  <2> DEFINE c == [Resting(d) EXCEPT !.pc = "client", !.op = op]
  <2>1. c.pc = "client" /\ c.got = <<>>
    BY DEF Resting
  <2>2. caller' = [caller EXCEPT ![t] = c] /\ UNCHANGED <<nextId, upset, asked, back>>
    BY <1>1 DEF Begin
  <2> HIDE DEF c
  <2>3. /\ caller'[t].pc \notin Waiting /\ caller'[t].got = <<>>
        /\ \A u \in Threads \ {t} : caller'[u] = caller[u]
    BY <1>0, <2>1, <2>2 DEF Waiting
  <2> QED BY <1>00, <2>2, <2>3, MoveOwn DEF Live
<1>2. ASSUME NEW t \in Threads, GetClient(t) \/ Initialized(t) PROVE OwnOK'
  <2>1. Proceed(t) /\ UNCHANGED <<nextId, upset, asked, back>>
    BY <1>2 DEF GetClient, Initialized
  <2>2. /\ caller'[t].pc \notin Waiting /\ caller'[t].got = <<>>
        /\ \A u \in Threads \ {t} : caller'[u] = caller[u]
    BY <1>0, <2>1, ProceedsTo DEF Waiting
  <2> QED BY <1>00, <2>1, <2>2, MoveOwn DEF Live
<1>3. ASSUME NEW t \in Threads, Connect(t) PROVE OwnOK'
  <2> DEFINE request == [id |-> 1, serial |-> serial + 1]
             c == [caller[t] EXCEPT !.pc = "initialize", !.request = request]
  <2>1. /\ caller' = [caller EXCEPT ![t] = c]
        /\ asked' = {request} /\ back' = <<>> /\ nextId' = 2 /\ UNCHANGED upset
    BY <1>0, <1>3 DEF Connect
  <2>2. client = "none" /\ At(t, "client")
    BY <1>3 DEF Connect
  <2>3. \A u \in Threads : caller[u].pc \notin Waiting
    BY <2>2 DEF Standing, Past, At, Waiting
  <2>4. c.request = request /\ c.got = caller[t].got /\ caller[t].got = <<>>
    BY <1>0, <1>00, <2>3 DEF Caller
  <2>5. request.id = 1
    OBVIOUS
  <2> HIDE DEF request, c
  <2>6. /\ \A u \in Threads \ {t} : caller'[u] = caller[u]
        /\ caller'[t].request = request /\ caller'[t].got = <<>>
    BY <1>0, <2>1, <2>4
  <2>7. Answers' = {} /\ Waiters' \subseteq {request}
    BY <2>1, <2>3, <2>6 DEF Answers, Waiters
  <2>8. Live' \subseteq {request}
    BY <2>1, <2>7 DEF Live
  <2>9. IdsAreOwn'
    BY <2>1, <2>5, <2>8 DEF IdsAreOwn
  <2>10. OthersHaveNothing' /\ AnswersAreOwn'
    BY <1>00, <2>1, <2>3, <2>6 DEF OthersHaveNothing, AnswersAreOwn
  <2> QED BY <2>9, <2>10 DEF OwnOK
<1>4. ASSUME NEW t \in Threads,
             \/ SpawnFails(t) \/ ConnectFails(t) \/ ReadFails(t) \/ GetDiagnostics(t)
             \/ DiagnosticsTimeOut(t) \/ Forget(t) \/ SendFails(t) \/ Return(t) \/ TimesOut(t)
      PROVE  OwnOK'
  <2>1. /\ Leave(t) /\ UNCHANGED <<nextId, upset>>
        /\ asked' \in {asked, {}} /\ back' \in {back, <<>>}
    BY <1>4 DEF SpawnFails, ConnectFails, ReadFails, GetDiagnostics, DiagnosticsTimeOut, Forget,
       SendFails, Return, TimesOut
  <2>2. /\ caller'[t].pc \notin Waiting /\ caller'[t].got = <<>>
        /\ \A u \in Threads \ {t} : caller'[u] = caller[u]
    BY <1>0, <2>1, LeavesTo DEF Waiting
  <2>3. Answers' \subseteq Answers
    BY <1>00, <2>1 DEF Answers
  <2> QED BY <2>1, <2>2, <2>3, MoveOwn DEF Live
<1>5. ASSUME NEW t \in Threads,
             \/ Check(t) \/ ReadFile(t) \/ Change(t) \/ SendOpen(t) \/ MarkOpen(t)
             \/ SendChange(t) \/ SendClose(t)
      PROVE  OwnOK'
  <2>1. UNCHANGED <<nextId, upset, asked, back>>
    BY <1>5 DEF Check, ReadFile, TextIsRead, Change, SendOpen, MarkOpen, SendChange, SendClose
  <2>2. caller[t].pc \notin Waiting
    BY <1>5 DEF Check, ReadFile, TextIsRead, Change, SendOpen, MarkOpen, SendChange, SendClose,
       Waiting, At
  <2>3. \/ Leave(t)
        \/ \E place \in {"register", "didClose", "read", "didOpen", "change", "bump", "opened",
                          "diagnose", "closed"} : Go(t, place)
    BY <1>5 DEF Check, ReadFile, TextIsRead, Change, SendOpen, MarkOpen, SendChange, SendClose
  <2>4. /\ caller'[t].pc \notin Waiting /\ caller'[t].got = <<>>
        /\ \A u \in Threads \ {t} : caller'[u] = caller[u]
    BY <1>0, <1>00, <2>2, <2>3, LeavesTo, GoesTo DEF Waiting
  <2> QED BY <1>00, <2>1, <2>4, MoveOwn DEF Live
<1>6. ASSUME NEW t \in Threads, Bump(t) PROVE OwnOK'
  <2>1. UNCHANGED <<nextId, upset, asked, back>> /\ caller[t].pc \notin Waiting
    BY <1>6 DEF Bump, Waiting, At
  <2> DEFINE c == [caller[t] EXCEPT !.version = open[Doc(t)] + 1, !.pc = "didChange"]
  <2>2. caller' = [caller EXCEPT ![t] = c]
    BY <1>0, <1>6 DEF Bump
  <2>3. c.pc = "didChange" /\ c.got = caller[t].got
    BY <1>0 DEF Caller
  <2> HIDE DEF c
  <2>4. /\ caller'[t].pc \notin Waiting /\ caller'[t].got = <<>>
        /\ \A u \in Threads \ {t} : caller'[u] = caller[u]
    BY <1>0, <1>00, <2>1, <2>2, <2>3 DEF Waiting
  <2> QED BY <1>00, <2>1, <2>4, MoveOwn DEF Live
<1>7. ASSUME NEW t \in Threads, Register(t) PROVE OwnOK'
  <2> DEFINE request == [id |-> nextId, serial |-> serial + 1]
             c == [caller[t] EXCEPT !.request = request, !.pc = "send"]
  <2>1. /\ caller' = [caller EXCEPT ![t] = c]
        /\ nextId' = nextId + 1 /\ UNCHANGED <<upset, asked, back>> /\ caller[t].pc \notin Waiting
    BY <1>0, <1>7 DEF Register, NewId, Waiting, At
  <2>2. request \in Request /\ request.id = nextId
    BY DEF Request, TypeOK
  <2>3. c.request = request /\ c.got = caller[t].got
    BY <1>0 DEF Caller
  <2> HIDE DEF request, c
  <2>4. /\ \A u \in Threads \ {t} : caller'[u] = caller[u]
        /\ caller'[t].request = request /\ caller'[t].got = <<>>
    BY <1>0, <1>00, <2>1, <2>3
  <2>5. Waiters' \subseteq Waiters \cup {request}
    BY <2>4 DEF Waiters
  <2>6. Live' \subseteq Live \cup {request}
    BY <1>00, <2>1, <2>5 DEF Live
  <2> QED BY <2>1, <2>2, <2>4, <2>6, RequestOwn
<1>8. ASSUME NEW t \in Threads, SendRequest(t) PROVE OwnOK'
  <2>1. /\ UNCHANGED <<nextId, upset, back>> /\ Go(t, "await") /\ caller[t].pc \in Waiting
        /\ asked' \subseteq asked \cup {caller[t].request}
    BY <1>8 DEF SendRequest, Waiting, At
  <2>2. asked' \subseteq Live
    BY <2>1 DEF Live, Waiters
  <2>3. /\ caller'[t].pc \in Waiting
        /\ caller'[t].request = caller[t].request /\ caller'[t].got = caller[t].got
        /\ \A u \in Threads \ {t} : caller'[u] = caller[u]
    BY <1>0, <2>1, GoesTo DEF Waiting
  <2> QED BY <1>00, <2>1, <2>2, <2>3, MoveOwn
<1>9. CASE ReadAnswer
  <2> DEFINE request == Head(back).request
  <2>1. /\ back # <<>> /\ Head(back).kind = "answer" /\ back' = Tail(back)
        /\ UNCHANGED <<nextId, asked, upset>> /\ Deliver(ReceiverOf(request.id), request.serial)
    BY <1>9 DEF ReadAnswer, Takes
  <2>2. request \in Live
    BY <2>1, HeadIsLive
  <2>3. \A t \in ReceiverOf(request.id) :
           t \in Threads /\ Listens(t) /\ caller[t].request \in Live /\ caller[t].request.id = request.id
    BY DEF ReceiverOf, Listens, Live, Waiters, Waiting
  <2>4. \A t \in ReceiverOf(request.id) : caller[t].request = request
    BY <2>2, <2>3 DEF OwnOK, IdsAreOwn
  <2>5. request.serial \in Nat
    <3>1. Head(back) \in Frame
      BY <2>1 DEF TypeOK
    <3> QED BY <2>1, <3>1 DEF Frame, Request
  <2> HIDE DEF request
  <2> QED BY <2>1, <2>3, <2>4, <2>5, DeliverOwn
<1>10. CASE ReadAsk
  <2>1. PICK receivers :
          /\ Deliver(receivers, 0) /\ \A t \in receivers : Listens(t)
          /\ upset' = upset \cup {caller[t].request.serial : t \in receivers}
    BY <1>10 DEF ReadAsk, ReceiverOf
  <2>2. back # <<>> /\ back' = Tail(back) /\ UNCHANGED <<nextId, asked>>
    BY <1>10 DEF ReadAsk, Takes
  <2> QED BY <2>1, <2>2, DeliverOwn
<1>11. CASE ReadGarbage
  <2>1. PICK receivers :
          /\ Deliver(receivers, 0) /\ \A t \in receivers : Listens(t)
          /\ upset' = upset \cup {caller[t].request.serial : t \in receivers}
    BY <1>11 DEF ReadGarbage
  <2>2. back # <<>> /\ back' = Tail(back) /\ UNCHANGED <<nextId, asked>>
    BY <1>11 DEF ReadGarbage, Takes
  <2> QED BY <2>1, <2>2, DeliverOwn
<1>12. CASE ReadPublish
  <2>1. back # <<>> /\ back' = Tail(back) /\ UNCHANGED <<caller, nextId, asked, upset>>
    BY <1>12 DEF ReadPublish, Takes
  <2> QED BY <2>1, TailAnswers, ServerOwn
<1>13. ASSUME NEW request \in asked, Answer(request) PROVE OwnOK'
  <2>1. /\ UNCHANGED <<caller, nextId, upset>> /\ asked' \subseteq asked
        /\ back' = Append(back, [kind |-> "answer", request |-> request])
    BY <1>13 DEF Answer, Writes
  <2>2. Answers' \subseteq Answers \cup asked
    BY <2>1, MoreAnswers
  <2> QED BY <2>1, <2>2, ServerOwn
<1>14. CASE (\E d \in Docs : Publish(d)) \/ WriteOddly
  <2>1. PICK frame : Writes(frame) /\ frame.kind # "answer" /\ UNCHANGED asked
    <3>1. ASSUME NEW d \in Docs, Publish(d)
          PROVE  \E frame : Writes(frame) /\ frame.kind # "answer" /\ UNCHANGED asked
      <4>1. Writes([kind |-> "publish", doc |-> d]) /\ UNCHANGED asked
        BY <3>1 DEF Publish
      <4> QED BY <4>1
    <3>2. ASSUME WriteOddly
          PROVE  \E frame : Writes(frame) /\ frame.kind # "answer" /\ UNCHANGED asked
      <4>1. UNCHANGED asked
        BY <3>2 DEF WriteOddly
      <4>2. (\E id \in 1 .. nextId : Writes([kind |-> "ask", id |-> id])) \/ Writes([kind |-> "garbage"])
        BY <3>2 DEF WriteOddly
      <4> QED BY <4>1, <4>2
    <3> QED BY <1>14, <3>1, <3>2
  <2>2. UNCHANGED <<caller, nextId, upset>> /\ back' = Append(back, frame)
    BY <2>1 DEF Writes
  <2>3. Answers' \subseteq Answers \cup asked
    BY <2>1, <2>2, MoreAnswers
  <2> QED BY <2>1, <2>2, <2>3, ServerOwn
<1>15. CASE Die \/ UNCHANGED vars
  <2>1. UNCHANGED <<caller, nextId, upset, back>> /\ asked' \subseteq asked
    BY <1>15 DEF Die
  <2> QED BY <1>00, <2>1, ServerOwn
<1> QED
  BY <1>1, <1>2, <1>3, <1>4, <1>5, <1>6, <1>7, <1>8, <1>9, <1>10, <1>11, <1>12, <1>13, <1>14, <1>15
  DEF Next, ThreadStep, ReaderStep, Rest

(* However many requests were given up, and however late the server answers *)
(* them, a thread gets the answer to the request it made, unless a frame of *)
(* the server's own has upset it.                                          *)
THEOREM AnswersBelong == Spec => []AnswersAreOwn
<1>1. TypeOK /\ Standing /\ OwnOK /\ [Next]_vars => OwnOK'
  BY NextOwnOK
<1>2. OwnOK => AnswersAreOwn
  BY DEF OwnOK
<1> QED BY <1>1, <1>2, InitOwnOK, StandingHolds, TypeCorrect, PTL DEF Spec

-----------------------------------------------------------------------------
(* What becomes of the rest of a thread when it goes on.                    *)
LEMMA KeepsWhere ==
    ASSUME caller \in [Threads -> Caller], NEW t \in Threads, NEW place, Go(t, place)
    PROVE  /\ caller'[t].pc = place /\ caller'[t].op = caller[t].op
           /\ caller'[t].doc = caller[t].doc /\ caller'[t].version = caller[t].version
           /\ \A u \in Threads \ {t} : caller'[u] = caller[u]
<1>1. caller[t] \in Caller /\ caller' = [caller EXCEPT ![t] = [caller[t] EXCEPT !.pc = place]]
  BY DEF Go
<1>2. /\ [caller[t] EXCEPT !.pc = place].pc = place
      /\ [caller[t] EXCEPT !.pc = place].op = caller[t].op
      /\ [caller[t] EXCEPT !.pc = place].doc = caller[t].doc
      /\ [caller[t] EXCEPT !.pc = place].version = caller[t].version
  BY <1>1 DEF Caller
<1> QED BY <1>1, <1>2

LEMMA LeavesWhere ==
    ASSUME caller \in [Threads -> Caller], NEW t \in Threads, Leave(t)
    PROVE  /\ caller'[t].pc = "idle" /\ caller'[t].doc = caller[t].doc
           /\ \A u \in Threads \ {t} : caller'[u] = caller[u]
<1>1. caller' = [caller EXCEPT ![t] = Resting(Doc(t))]
  BY DEF Leave
<1>2. Resting(Doc(t)).pc = "idle" /\ Resting(Doc(t)).doc = caller[t].doc
  BY DEF Resting, Doc
<1> QED BY <1>1, <1>2

LEMMA ProceedsWhere ==
    ASSUME caller \in [Threads -> Caller], NEW t \in Threads, Proceed(t)
    PROVE  /\ caller'[t].pc = IF caller[t].op = "sync" THEN "read" ELSE "check"
           /\ caller'[t].op = caller[t].op /\ caller'[t].doc = caller[t].doc
           /\ \A u \in Threads \ {t} : caller'[u] = caller[u]
<1> DEFINE place == IF caller[t].op = "sync" THEN "read" ELSE "check"
           floor == IF caller[t].op = "sync" THEN diagVersion + 1 ELSE 0
           c == [caller[t] EXCEPT !.pc = place, !.floor = floor, !.request = NoRequest, !.got = <<>>]
<1>1. caller[t] \in Caller /\ caller' = [caller EXCEPT ![t] = c]
  BY DEF Proceed
<1>2. c.pc = place /\ c.op = caller[t].op /\ c.doc = caller[t].doc
  <2> HIDE DEF place, floor
  <2> QED BY <1>1 DEF Caller
<1> QED BY <1>1, <1>2

LEMMA DeliverWhere ==
    ASSUME caller \in [Threads -> Caller], NEW receivers, NEW number, Deliver(receivers, number)
    PROVE  \A t \in Threads :
              /\ caller'[t].pc = caller[t].pc /\ caller'[t].op = caller[t].op
              /\ caller'[t].doc = caller[t].doc /\ caller'[t].version = caller[t].version
<1> TAKE t \in Threads
<1>1. caller[t] \in Caller
  OBVIOUS
<1>2. caller'[t] = IF t \in receivers THEN [caller[t] EXCEPT !.got = <<number>>] ELSE caller[t]
  BY DEF Deliver
<1>3. LET b == [caller[t] EXCEPT !.got = <<number>>]
      IN  b.pc = caller[t].pc /\ b.op = caller[t].op /\ b.doc = caller[t].doc
          /\ b.version = caller[t].version
  BY <1>1 DEF Caller
<1> QED BY <1>2, <1>3

LEMMA BumpsTo ==
    ASSUME TypeOK, NEW t \in Threads, Bump(t)
    PROVE  /\ caller'[t].pc = "didChange" /\ caller'[t].op = caller[t].op
           /\ caller'[t].doc = caller[t].doc /\ caller'[t].version = open[Doc(t)] + 1
           /\ open' = [open EXCEPT ![Doc(t)] = open[Doc(t)] + 1]
           /\ \A u \in Threads \ {t} : caller'[u] = caller[u]
<1> DEFINE n == open[Doc(t)] + 1
           c == [caller[t] EXCEPT !.version = n, !.pc = "didChange"]
<1>1. caller[t] \in Caller /\ caller \in [Threads -> Caller]
  BY DEF TypeOK
<1>2. caller' = [caller EXCEPT ![t] = c] /\ open' = [open EXCEPT ![Doc(t)] = n]
  BY <1>1 DEF Bump
<1>3. c.pc = "didChange" /\ c.op = caller[t].op /\ c.doc = caller[t].doc /\ c.version = n
  <2> HIDE DEF n
  <2> QED BY <1>1 DEF Caller
<1> QED BY <1>1, <1>2, <1>3

LEMMA RegistersTo ==
    ASSUME TypeOK, NEW t \in Threads, Register(t)
    PROVE  /\ caller'[t].pc = "send" /\ caller'[t].op = caller[t].op
           /\ caller'[t].doc = caller[t].doc
           /\ \A u \in Threads \ {t} : caller'[u] = caller[u]
<1> DEFINE request == [id |-> NewId, serial |-> serial + 1]
           c == [caller[t] EXCEPT !.request = request, !.pc = "send"]
<1>1. caller[t] \in Caller /\ caller \in [Threads -> Caller]
  BY DEF TypeOK
<1>2. caller' = [caller EXCEPT ![t] = c]
  BY <1>1 DEF Register
<1>3. c.pc = "send" /\ c.op = caller[t].op /\ c.doc = caller[t].doc
  <2> HIDE DEF request
  <2> QED BY <1>1 DEF Caller
<1> QED BY <1>1, <1>2, <1>3

LEMMA ConnectsTo ==
    ASSUME TypeOK, NEW t \in Threads, Connect(t)
    PROVE  /\ caller'[t].pc = "initialize" /\ caller'[t].op = caller[t].op
           /\ caller'[t].doc = caller[t].doc
           /\ \A u \in Threads \ {t} : caller'[u] = caller[u]
<1> DEFINE request == [id |-> 1, serial |-> serial + 1]
           c == [caller[t] EXCEPT !.pc = "initialize", !.request = request]
<1>1. caller[t] \in Caller /\ caller \in [Threads -> Caller]
  BY DEF TypeOK
<1>2. caller' = [caller EXCEPT ![t] = c]
  BY <1>1 DEF Connect
<1>3. c.pc = "initialize" /\ c.op = caller[t].op /\ c.doc = caller[t].doc
  <2> HIDE DEF request
  <2> QED BY <1>1 DEF Caller
<1> QED BY <1>1, <1>2, <1>3

LEMMA BeginsAt ==
    ASSUME TypeOK, NEW t \in Threads, NEW op \in Calls, NEW d \in Docs, Begin(t, op, d)
    PROVE  /\ caller'[t].pc = "client" /\ caller'[t].op = op /\ caller'[t].doc = d
           /\ \A u \in Threads \ {t} : caller'[u] = caller[u]
<1> DEFINE c == [Resting(d) EXCEPT !.pc = "client", !.op = op]
<1>1. c.pc = "client" /\ c.op = op /\ c.doc = d
  BY DEF Resting
<1>2. caller' = [caller EXCEPT ![t] = c] /\ caller \in [Threads -> Caller]
  BY DEF Begin, TypeOK
<1> QED BY <1>1, <1>2

-----------------------------------------------------------------------------
(* What a step of a thread does to its document, as far as the order of the *)
(* messages goes: from where to where, and what of the document it changes. *)
Quiet == UNCHANGED <<open, docs>>

Marks(t, n) == open' = [open EXCEPT ![Doc(t)] = n] /\ docs' = docs

Course(t) ==
    LET p == caller[t].pc
        q == caller'[t].pc
        d == Doc(t)
    IN  \/ /\ p \notin {"idle", "opened", "closed"} /\ q = "idle" /\ Quiet
           /\ p \in {"didOpen", "didChange", "didClose", "send"} => ~alive
        \/ /\ p \in {"client", "initialize"} /\ Quiet
           /\ q = IF caller[t].op = "sync" THEN "read" ELSE "check"
        \/ /\ p = "check" /\ Quiet
           /\ \/ q = "register" /\ open[d] > 0
              \/ q = "didClose" /\ caller[t].op # "query"
              \/ q = "read" /\ open[d] = 0
        \/ p = "read" /\ Quiet /\ q = IF caller[t].op = "query" THEN "didOpen" ELSE "change"
        \/ p = "change" /\ Quiet /\ q = IF open[d] > 0 THEN "bump" ELSE "didOpen"
        \/ p = "bump" /\ q = "didChange" /\ caller'[t].version = open[d] + 1 /\ Marks(t, open[d] + 1)
        \/ p = "didOpen" /\ q = "opened" /\ Receives(t, 1) /\ open' = open
        \/ p = "opened" /\ q \in {"register", "diagnose"} /\ Marks(t, 1)
        \/ p = "didChange" /\ q = "diagnose" /\ Receives(t, caller[t].version) /\ open' = open
        \/ p = "didClose" /\ q = "closed" /\ Receives(t, NotOpen) /\ open' = open
        \/ p = "closed" /\ q = "idle" /\ Marks(t, 0)
        \/ p = "register" /\ q = "send" /\ Quiet
        \/ p = "send" /\ q = "await" /\ Quiet

Moves(t) ==
    /\ Course(t)
    /\ caller'[t].doc = caller[t].doc
    /\ caller'[t].pc # "idle" => caller'[t].op = caller[t].op
    /\ \A u \in Threads \ {t} : caller'[u] = caller[u]
    /\ UNCHANGED <<alive, contended, closing>>

LEMMA LeaveMoves ==
    ASSUME TypeOK, NEW t \in Threads,
           \/ SpawnFails(t) \/ ReadFails(t) \/ GetDiagnostics(t) \/ DiagnosticsTimeOut(t)
           \/ SendFails(t) \/ Return(t) \/ TimesOut(t)
    PROVE  Moves(t)
<1> USE DEF shared, clientVars, serverVars, history
<1>1. Leave(t) /\ UNCHANGED <<alive, contended, closing>> /\ Quiet
  BY DEF SpawnFails, ReadFails, GetDiagnostics, DiagnosticsTimeOut, SendFails, Return, TimesOut, Quiet
<1>2. /\ caller[t].pc \in {"client", "read", "diagnose", "didOpen", "didChange", "didClose",
                           "send", "await"}
      /\ caller[t].pc \in {"didOpen", "didChange", "didClose", "send"} => ~alive
  BY DEF SpawnFails, ReadFails, GetDiagnostics, DiagnosticsTimeOut, SendFails, Return, TimesOut, At
<1>3. /\ caller'[t].pc = "idle" /\ caller'[t].doc = caller[t].doc
      /\ \A u \in Threads \ {t} : caller'[u] = caller[u]
  BY <1>1, LeavesWhere DEF TypeOK
<1>4. Course(t)
  BY <1>1, <1>2, <1>3 DEF Course
<1> QED BY <1>1, <1>3, <1>4 DEF Moves

LEMMA GoMoves ==
    ASSUME TypeOK, NEW t \in Threads,
           \/ ReadFile(t) \/ Change(t) \/ SendOpen(t) \/ MarkOpen(t) \/ SendChange(t)
           \/ SendClose(t) \/ SendRequest(t)
    PROVE  Moves(t)
<1> USE DEF shared, clientVars, serverVars, history
<1> DEFINE p == caller[t].pc
           q == IF p = "read" THEN (IF caller[t].op = "query" THEN "didOpen" ELSE "change")
                ELSE IF p = "change" THEN (IF open[Doc(t)] > 0 THEN "bump" ELSE "didOpen")
                ELSE IF p = "didOpen" THEN "opened"
                ELSE IF p = "opened" THEN (IF caller[t].op = "query" THEN "register" ELSE "diagnose")
                ELSE IF p = "didChange" THEN "diagnose"
                ELSE IF p = "didClose" THEN "closed" ELSE "await"
<1>1. Go(t, q) /\ p \in {"read", "change", "didOpen", "opened", "didChange", "didClose", "send"}
  BY DEF ReadFile, TextIsRead, Change, SendOpen, MarkOpen, SendChange, SendClose, SendRequest, At
<1>2. UNCHANGED <<alive, contended, closing>>
  BY DEF ReadFile, TextIsRead, Change, SendOpen, MarkOpen, SendChange, SendClose, SendRequest
<1>3. /\ p \in {"read", "change", "send"} => Quiet
      /\ p = "didOpen" => Receives(t, 1) /\ open' = open
      /\ p = "opened" => Marks(t, 1)
      /\ p = "didChange" => Receives(t, caller[t].version) /\ open' = open
      /\ p = "didClose" => Receives(t, NotOpen) /\ open' = open
  BY DEF ReadFile, TextIsRead, Change, SendOpen, MarkOpen, SendChange, SendClose, SendRequest, At,
     Quiet, Marks
<1> HIDE DEF q
<1>4. /\ caller'[t].pc = q /\ caller'[t].op = caller[t].op /\ caller'[t].doc = caller[t].doc
      /\ \A u \in Threads \ {t} : caller'[u] = caller[u]
  BY <1>1, KeepsWhere DEF TypeOK
<1>5. Course(t)
  BY <1>1, <1>3, <1>4 DEF Course, q
<1> QED BY <1>2, <1>4, <1>5 DEF Moves

LEMMA ThreadMoves ==
    ASSUME TypeOK, NEW t \in Threads, ThreadStep(t), ~Connect(t), ~ConnectFails(t)
    PROVE  Moves(t)
<1> USE DEF shared, clientVars, serverVars, history
<1>1. CASE GetClient(t) \/ Initialized(t)
  <2>1. Proceed(t) /\ UNCHANGED <<alive, contended, closing>> /\ Quiet
    BY <1>1 DEF GetClient, Initialized, Quiet
  <2>2. caller[t].pc \in {"client", "initialize"}
    BY <1>1 DEF GetClient, Initialized, At
  <2>3. /\ caller'[t].pc = IF caller[t].op = "sync" THEN "read" ELSE "check"
        /\ caller'[t].op = caller[t].op /\ caller'[t].doc = caller[t].doc
        /\ \A u \in Threads \ {t} : caller'[u] = caller[u]
    BY <2>1, ProceedsWhere DEF TypeOK
  <2>4. Course(t)
    BY <2>1, <2>2, <2>3 DEF Course
  <2> QED BY <2>1, <2>3, <2>4 DEF Moves
<1>2. CASE Check(t)
  <2>1. UNCHANGED <<alive, contended, closing>> /\ Quiet /\ caller[t].pc = "check"
    BY <1>2 DEF Check, Quiet, At
  <2>2. CASE Leave(t)
    <3>1. /\ caller'[t].pc = "idle" /\ caller'[t].doc = caller[t].doc
          /\ \A u \in Threads \ {t} : caller'[u] = caller[u]
      BY <2>2, LeavesWhere DEF TypeOK
    <3>2. Course(t)
      BY <2>1, <3>1 DEF Course
    <3> QED BY <2>1, <3>1, <3>2 DEF Moves
  <2>3. ASSUME ~Leave(t) PROVE Moves(t)
    <3>1. PICK q : /\ Go(t, q)
                   /\ \/ q = "register" /\ open[Doc(t)] > 0
                      \/ q = "didClose" /\ caller[t].op # "query"
                      \/ q = "read" /\ open[Doc(t)] = 0
      BY <1>2, <2>3 DEF Check
    <3>2. /\ caller'[t].pc = q /\ caller'[t].op = caller[t].op /\ caller'[t].doc = caller[t].doc
          /\ \A u \in Threads \ {t} : caller'[u] = caller[u]
      BY <3>1, KeepsWhere DEF TypeOK
    <3>3. Course(t)
      BY <2>1, <3>1, <3>2 DEF Course
    <3> QED BY <2>1, <3>2, <3>3 DEF Moves
  <2> QED BY <2>2, <2>3
<1>3. CASE Bump(t)
  <2>1. UNCHANGED <<alive, contended, closing>> /\ docs' = docs /\ caller[t].pc = "bump"
    BY <1>3 DEF Bump, At
  <2>2. /\ caller'[t].pc = "didChange" /\ caller'[t].op = caller[t].op
        /\ caller'[t].doc = caller[t].doc /\ caller'[t].version = open[Doc(t)] + 1
        /\ open' = [open EXCEPT ![Doc(t)] = open[Doc(t)] + 1]
        /\ \A u \in Threads \ {t} : caller'[u] = caller[u]
    BY <1>3, BumpsTo
  <2>3. Course(t)
    BY <2>1, <2>2 DEF Course, Marks
  <2> QED BY <2>1, <2>2, <2>3 DEF Moves
<1>4. CASE Forget(t)
  <2>1. UNCHANGED <<alive, contended, closing>> /\ Marks(t, 0) /\ caller[t].pc = "closed" /\ Leave(t)
    BY <1>4 DEF Forget, At, Marks
  <2>2. /\ caller'[t].pc = "idle" /\ caller'[t].doc = caller[t].doc
        /\ \A u \in Threads \ {t} : caller'[u] = caller[u]
    BY <2>1, LeavesWhere DEF TypeOK
  <2>3. Course(t)
    BY <2>1, <2>2 DEF Course
  <2> QED BY <2>1, <2>2, <2>3 DEF Moves
<1>5. CASE Register(t)
  <2>1. UNCHANGED <<alive, contended, closing>> /\ Quiet /\ caller[t].pc = "register"
    BY <1>5 DEF Register, At, Quiet, limits
  <2>2. /\ caller'[t].pc = "send" /\ caller'[t].op = caller[t].op /\ caller'[t].doc = caller[t].doc
        /\ \A u \in Threads \ {t} : caller'[u] = caller[u]
    BY <1>5, RegistersTo
  <2>3. Course(t)
    BY <2>1, <2>2 DEF Course
  <2> QED BY <2>1, <2>2, <2>3 DEF Moves
<1> QED
  BY <1>1, <1>2, <1>3, <1>4, <1>5, LeaveMoves, GoMoves DEF ThreadStep

(* The steps that are nobody's move: where threads are stays as it is.     *)
Stays ==
    /\ \A t \in Threads :
          /\ caller'[t].pc = caller[t].pc /\ caller'[t].op = caller[t].op
          /\ caller'[t].doc = caller[t].doc /\ caller'[t].version = caller[t].version
    /\ Quiet /\ UNCHANGED <<contended, closing>> /\ (alive' = alive \/ alive' = FALSE)

LEMMA OtherStays ==
    ASSUME TypeOK,
           \/ ReaderStep \/ (\E request \in asked : Answer(request)) \/ (\E d \in Docs : Publish(d))
           \/ WriteOddly \/ Die \/ UNCHANGED vars
    PROVE  Stays
<1> USE DEF vars, shared, clientVars, serverVars, history
<1>1. CASE ReaderStep
  <2>1. Quiet /\ UNCHANGED <<alive, contended, closing>>
    BY <1>1 DEF ReaderStep, ReadAnswer, ReadAsk, ReadPublish, ReadGarbage, Takes, Quiet
  <2>2. UNCHANGED caller \/ \E receivers, number : Deliver(receivers, number)
    BY <1>1 DEF ReaderStep, ReadAnswer, ReadAsk, ReadPublish, ReadGarbage
  <2>3. \A t \in Threads :
          /\ caller'[t].pc = caller[t].pc /\ caller'[t].op = caller[t].op
          /\ caller'[t].doc = caller[t].doc /\ caller'[t].version = caller[t].version
    BY <2>2, DeliverWhere DEF TypeOK
  <2> QED BY <2>1, <2>3 DEF Stays
<1>2. ASSUME ~ReaderStep PROVE Stays
  <2>1. UNCHANGED <<caller, open, docs, contended, closing>> /\ (alive' = alive \/ alive' = FALSE)
    BY <1>2, Zenon DEF Answer, Publish, WriteOddly, Writes, Die
  <2> QED BY <2>1 DEF Stays, Quiet
<1> QED BY <1>1, <1>2

-----------------------------------------------------------------------------
(* What the places of a thread say: who closes has said so.                 *)
Closes(t) == caller[t].pc # "idle" /\ caller[t].op = "close"

RolesOK ==
    \A t \in Threads :
        /\ Closes(t) => Doc(t) \in closing
        /\ caller[t].pc = "check" => caller[t].op # "sync"
        /\ caller[t].pc \in {"didClose", "closed"} => Doc(t) \in closing

(* While the server lives, a document that nobody was asked to close is     *)
(* with it once it is marked open, and with it for whoever is past didOpen. *)
PastOpen == {"bump", "didChange", "opened", "register", "send"}

Found(t) == caller[t].pc \in PastOpen => docs[Doc(t)] > 0

DocsFound ==
    alive =>
        /\ \A d \in Docs \ closing : open[d] > 0 => docs[d] > 0
        /\ \A t \in Threads : Doc(t) \notin closing => Found(t)

VersionsGrow == \A t \in Threads : caller[t].pc = "didChange" => caller[t].version > 0

FoundOK == RolesOK /\ VersionsGrow /\ DocsFound

LEMMA MoveRoles ==
    ASSUME TypeOK, RolesOK, NEW t \in Threads, Moves(t) PROVE RolesOK'
<1>1. /\ caller[t].pc # "idle" /\ closing' = closing
      /\ caller'[t].doc = caller[t].doc
      /\ caller'[t].pc # "idle" => caller'[t].op = caller[t].op
      /\ \A u \in Threads \ {t} : caller'[u] = caller[u]
  BY DEF Moves, Course
<1>2. caller[t].op \in {"query", "sync", "close"}
  BY PartsOf DEF TypeOK
<1>3. /\ caller'[t].pc = "check" => caller[t].op # "sync"
      /\ caller'[t].pc = "didClose" => caller[t].pc = "check" /\ caller[t].op # "query"
      /\ caller'[t].pc = "closed" => caller[t].pc = "didClose"
  BY DEF Moves, Course
<1>4. /\ Closes(t)' => Closes(t)
      /\ caller'[t].pc = "didClose" => Closes(t)
  BY <1>1, <1>2, <1>3 DEF Closes, RolesOK
<1>5. /\ Closes(t)' => Doc(t)' \in closing'
      /\ caller'[t].pc = "check" => caller'[t].op # "sync"
      /\ caller'[t].pc \in {"didClose", "closed"} => Doc(t)' \in closing'
  BY <1>1, <1>3, <1>4 DEF RolesOK, Doc
<1>6. ASSUME NEW u \in Threads \ {t}
      PROVE  /\ Closes(u)' => Doc(u)' \in closing'
             /\ caller'[u].pc = "check" => caller'[u].op # "sync"
             /\ caller'[u].pc \in {"didClose", "closed"} => Doc(u)' \in closing'
  BY <1>1, <1>6 DEF RolesOK, Closes, Doc
<1> QED BY <1>5, <1>6 DEF RolesOK

LEMMA MoveVersions ==
    ASSUME TypeOK, VersionsGrow, NEW t \in Threads, Moves(t) PROVE VersionsGrow'
<1>1. \A u \in Threads \ {t} : caller'[u] = caller[u]
  BY DEF Moves
<1>2. open[Doc(t)] \in Nat
  BY PartsOf DEF TypeOK, Doc
<1>3. caller'[t].pc = "didChange" => caller'[t].version > 0
  BY <1>2 DEF Moves, Course
<1> QED BY <1>1, <1>3 DEF VersionsGrow

LEMMA MoveFound ==
    ASSUME TypeOK, FoundOK, NEW t \in Threads, Moves(t) PROVE DocsFound'
<1>1. SUFFICES ASSUME alive' PROVE DocsFound'
  BY DEF DocsFound
<1> DEFINE d == Doc(t)
<1>2. /\ alive /\ closing' = closing /\ Doc(t)' = d /\ d \in Docs
      /\ \A u \in Threads \ {t} : caller'[u] = caller[u]
      /\ open \in [Docs -> Nat] /\ docs \in [Docs -> Nat] /\ caller[t].version \in Nat
  BY <1>1, PartsOf DEF Moves, Doc, TypeOK
<1>3. \A e \in Docs \ {d} : open'[e] = open[e] /\ docs'[e] = docs[e]
  BY <1>2 DEF Moves, Course, Quiet, Marks, Receives
<1>4. d \notin closing => (open[d] > 0 => docs[d] > 0) /\ Found(t)
  BY <1>2 DEF FoundOK, DocsFound
<1>5. d \notin closing => caller[t].pc \notin {"didClose", "closed"}
  BY DEF FoundOK, RolesOK
<1>6. caller[t].pc = "didChange" => caller[t].version > 0
  BY DEF FoundOK, VersionsGrow
<1>7. d \notin closing /\ docs[d] > 0 => docs'[d] > 0
  BY <1>2, <1>5, <1>6 DEF Moves, Course, Quiet, Marks, Receives
<1>8. d \notin closing => /\ open'[d] > 0 => docs'[d] > 0
                          /\ caller'[t].pc \in PastOpen => docs'[d] > 0
  <2>1. ASSUME d \notin closing
        PROVE  /\ open'[d] > 0 => docs'[d] > 0
               /\ caller'[t].pc \in PastOpen => docs'[d] > 0
    <3> DEFINE p == caller[t].pc
               q == caller'[t].pc
    <3>1. /\ open[d] > 0 => docs'[d] > 0
          /\ p \in PastOpen => docs'[d] > 0
      BY <1>2, <1>4, <1>7, <2>1 DEF Found
    <3>2. p = "didOpen" => docs'[d] > 0 \/ q = "idle"
      BY <1>2 DEF Moves, Course, Receives
    <3>3. /\ q \in PastOpen => p \in PastOpen \/ p = "didOpen" \/ open[d] > 0
          /\ open'[d] > 0 => open[d] > 0 \/ p \in PastOpen
      BY <1>2, <1>5, <2>1 DEF Moves, Course, Quiet, Marks, PastOpen
    <3>4. q = "idle" => q \notin PastOpen
      BY DEF PastOpen
    <3> QED BY <3>1, <3>2, <3>3, <3>4
  <2> QED BY <2>1
<1>9. \A e \in Docs \ closing' : open'[e] > 0 => docs'[e] > 0
  BY <1>2, <1>3, <1>8 DEF FoundOK, DocsFound
<1>10. ASSUME NEW u \in Threads, Doc(u)' \notin closing' PROVE Found(u)'
  <2>1. CASE u = t
    BY <1>2, <1>8, <1>10, <2>1 DEF Found
  <2>2. CASE u # t
    <3>1. Doc(u)' = Doc(u) /\ Doc(u) \notin closing /\ caller'[u] = caller[u] /\ Doc(u) \in Docs
      BY <1>2, <1>10, <2>2, PartsOf DEF Doc, TypeOK
    <3>2. caller[u].pc \in PastOpen => docs[Doc(u)] > 0
      BY <1>2, <3>1 DEF FoundOK, DocsFound, Found
    <3>3. caller[u].pc \in PastOpen => docs'[Doc(u)] > 0
      BY <1>3, <1>7, <3>1, <3>2
    <3> QED BY <3>1, <3>3 DEF Found
  <2> QED BY <2>1, <2>2
<1> QED BY <1>9, <1>10 DEF DocsFound

LEMMA StayFound == ASSUME TypeOK, FoundOK, Stays PROVE FoundOK'
<1>1. /\ closing' = closing /\ open' = open /\ docs' = docs /\ (alive' = alive \/ alive' = FALSE)
      /\ \A t \in Threads :
            /\ caller'[t].pc = caller[t].pc /\ caller'[t].op = caller[t].op
            /\ Doc(t)' = Doc(t) /\ caller'[t].version = caller[t].version
  BY DEF Stays, Quiet, Doc
<1>2. RolesOK'
  BY <1>1 DEF FoundOK, RolesOK, Closes
<1>3. VersionsGrow'
  BY <1>1 DEF FoundOK, VersionsGrow
<1>4. DocsFound'
  BY <1>1 DEF FoundOK, DocsFound, Found
<1> QED BY <1>2, <1>3, <1>4 DEF FoundOK

(* Where nobody has passed client_for_path, nothing is claimed.             *)
LEMMA FreshFound ==
    ASSUME TypeOK', RolesOK', \A t \in Threads : caller'[t].pc \in {"idle", "client", "initialize"},
           alive' => \A d \in Docs : open'[d] = 0
    PROVE  FoundOK'
<1>1. VersionsGrow'
  BY DEF VersionsGrow
<1>2. \A t \in Threads : Found(t)'
  BY DEF Found, PastOpen
<1>3. DocsFound'
  BY <1>2 DEF DocsFound
<1> QED BY <1>1, <1>3 DEF FoundOK

LEMMA InitFound == Init => FoundOK
<1> SUFFICES ASSUME Init PROVE FoundOK
  OBVIOUS
<1>1. \A t \in Threads : caller[t].pc = "idle"
  <2> TAKE t \in Threads
  <2>1. caller[t] = Resting(CHOOSE d \in Docs : TRUE)
    BY DEF Init
  <2> QED BY <2>1 DEF Resting
<1>2. alive = FALSE
  BY DEF Init
<1> QED BY <1>1, <1>2 DEF FoundOK, RolesOK, VersionsGrow, DocsFound, Closes

(* A step that gets a thread to the beginning of its call or to its end.    *)
LEMMA BeginRoles ==
    ASSUME TypeOK, RolesOK, NEW t \in Threads,
           caller'[t].pc \in {"idle", "client", "initialize"},
           \A u \in Threads \ {t} : caller'[u] = caller[u],
           closing \subseteq closing', Closes(t)' => Doc(t)' \in closing'
    PROVE  RolesOK'
<1>1. ASSUME NEW u \in Threads \ {t}
      PROVE  /\ Closes(u)' => Doc(u)' \in closing'
             /\ caller'[u].pc = "check" => caller'[u].op # "sync"
             /\ caller'[u].pc \in {"didClose", "closed"} => Doc(u)' \in closing'
  BY <1>1 DEF RolesOK, Closes, Doc
<1> QED BY <1>1 DEF RolesOK

LEMMA NextFound == TypeOK /\ TypeOK' /\ Standing /\ FoundOK /\ [Next]_vars => FoundOK'
<1> SUFFICES ASSUME TypeOK, TypeOK', Standing, FoundOK, [Next]_vars PROVE FoundOK'
  OBVIOUS
<1> USE DEF shared, clientVars, serverVars, history
<1>1. ASSUME NEW t \in Threads, NEW op \in Calls, NEW d \in Docs, Begin(t, op, d)
      PROVE  FoundOK'
  <2>1. /\ caller'[t].pc = "client" /\ caller'[t].op = op /\ Doc(t)' = d
        /\ \A u \in Threads \ {t} : caller'[u] = caller[u]
    BY <1>1, BeginsAt DEF Doc
  <2>2. /\ closing' = IF op = "close" THEN closing \cup {d} ELSE closing
        /\ UNCHANGED <<alive, open, docs>>
    BY <1>1 DEF Begin
  <2>3. RolesOK'
    <3>1. closing \subseteq closing' /\ (Closes(t)' => Doc(t)' \in closing')
      BY <2>1, <2>2 DEF Closes
    <3> QED BY <2>1, <3>1, BeginRoles DEF FoundOK
  <2>4. VersionsGrow'
    BY <2>1 DEF FoundOK, VersionsGrow
  <2>5. ASSUME NEW u \in Threads, alive', Doc(u)' \notin closing' PROVE Found(u)'
    <3>1. CASE u = t
      BY <2>1, <3>1 DEF Found, PastOpen
    <3>2. CASE u # t
      BY <2>1, <2>2, <2>5, <3>2 DEF Found, FoundOK, DocsFound, Doc
    <3> QED BY <3>1, <3>2
  <2>6. DocsFound'
    BY <2>2, <2>5 DEF FoundOK, DocsFound
  <2> QED BY <2>3, <2>4, <2>6 DEF FoundOK
<1>2. ASSUME NEW t \in Threads, Connect(t) \/ ConnectFails(t) PROVE FoundOK'
  <2>1. /\ caller'[t].pc \in {"idle", "initialize"} /\ Doc(t)' = Doc(t) /\ caller[t].pc # "idle"
        /\ caller'[t].pc # "idle" => caller'[t].op = caller[t].op
        /\ \A u \in Threads \ {t} : caller'[u] = caller[u]
    <3>1. CASE Connect(t)
      BY <3>1, ConnectsTo DEF Doc, Connect, At
    <3>2. CASE ConnectFails(t)
      BY <3>2, LeavesWhere DEF Doc, ConnectFails, At, TypeOK
    <3> QED BY <1>2, <3>1, <3>2
  <2>2. closing' = closing /\ (alive' => \A d \in Docs : open'[d] = 0)
    BY <1>2 DEF Connect, ConnectFails
  <2>3. \A u \in Threads : caller[u].pc \in {"idle", "client", "initialize"}
    BY <1>2 DEF Connect, ConnectFails, Standing, Past
  <2>4. RolesOK'
    <3>1. Closes(t)' => Doc(t)' \in closing'
      BY <2>1, <2>2 DEF Closes, FoundOK, RolesOK
    <3> QED BY <2>1, <2>2, <3>1, BeginRoles DEF FoundOK
  <2>5. \A u \in Threads : caller'[u].pc \in {"idle", "client", "initialize"}
    BY <2>1, <2>3
  <2> QED BY <2>2, <2>4, <2>5, FreshFound
<1>3. ASSUME NEW t \in Threads, Moves(t) PROVE FoundOK'
  BY <1>3, MoveRoles, MoveVersions, MoveFound DEF FoundOK
<1>4. ASSUME NEW t \in Threads, ThreadStep(t) PROVE FoundOK'
  BY <1>2, <1>3, <1>4, ThreadMoves
<1>5. CASE Stays
  BY <1>5, StayFound
<1> QED BY <1>1, <1>4, <1>5, OtherStays DEF Next, Rest

(* A request about a document reaches a server that has been told of it,   *)
(* whichever thread has told it, unless somebody was asked to close it.     *)
THEOREM QueriesAreFound == Spec => QueriesFindTheirDocument
<1>1. TypeOK /\ FoundOK /\ [Next]_vars
      => [\A t \in Threads : SendRequest(t) /\ alive =>
            docs[Doc(t)] > 0 \/ Doc(t) \in closing]_vars
  <2> SUFFICES ASSUME FoundOK, NEW t \in Threads, SendRequest(t), alive, Doc(t) \notin closing
               PROVE  docs[Doc(t)] > 0
    OBVIOUS
  <2> QED BY DEF FoundOK, DocsFound, Found, SendRequest, At, PastOpen
<1>2. TypeOK /\ TypeOK' /\ Standing /\ FoundOK /\ [Next]_vars => FoundOK'
  BY NextFound
<1> QED BY <1>1, <1>2, InitFound, StandingHolds, TypeCorrect, PTL DEF Spec, QueriesFindTheirDocument

-----------------------------------------------------------------------------
(* Two threads that work on one document at once are noted, and where one   *)
(* works alone, what it knows of its document is what the server was told.  *)
SharingNoted ==
    \A t, u \in Threads :
        t # u /\ caller[t].pc # "idle" /\ caller[u].pc # "idle" /\ Doc(t) = Doc(u)
        => Doc(t) \in contended

Knows(c, o, n) ==
    /\ c.pc = "didOpen" => o = 0
    /\ c.pc = "read" /\ c.op = "query" => o = 0
    /\ c.pc = "bump" => o > 0
    /\ c.pc = "opened" => n = 1
    /\ c.pc = "didChange" => n > 0 /\ n + 1 = c.version
    /\ c.pc \notin {"opened", "didChange", "closed"} => o = n
    /\ c.pc = "didChange" => o = c.version
    /\ c.pc = "closed" => n = 0

DocsInOrder ==
    alive => \A d \in Docs \ contended :
        /\ \A t \in Threads : caller[t].pc # "idle" /\ Doc(t) = d => Knows(caller[t], open[d], docs[d])
        /\ (\A t \in Threads : Doc(t) = d => caller[t].pc = "idle") => open[d] = docs[d]

OrderOK == SharingNoted /\ DocsInOrder

LEMMA MoveSharing ==
    ASSUME SharingNoted, NEW t \in Threads, Moves(t) PROVE SharingNoted'
<1>1. /\ caller[t].pc # "idle" /\ Doc(t)' = Doc(t) /\ contended' = contended
      /\ \A u \in Threads \ {t} : caller'[u] = caller[u] /\ Doc(u)' = Doc(u)
  BY DEF Moves, Course, Doc
<1> QED BY <1>1 DEF SharingNoted

(* What a thread that moves knows of its document when it has moved.        *)
LEMMA MoveKnows ==
    ASSUME TypeOK, RolesOK, NEW t \in Threads, Moves(t), alive,
           Knows(caller[t], open[Doc(t)], docs[Doc(t)])
    PROVE  IF caller'[t].pc = "idle" THEN open'[Doc(t)] = docs'[Doc(t)]
           ELSE Knows(caller'[t], open'[Doc(t)], docs'[Doc(t)])
<1> DEFINE d == Doc(t)
           p == caller[t].pc
           q == caller'[t].pc
           o == open[d]
           n == docs[d]
<1>1. /\ d \in Docs /\ o \in Nat /\ n \in Nat /\ caller[t].version \in Nat
      /\ open \in [Docs -> Nat] /\ docs \in [Docs -> Nat]
      /\ caller[t].op \in {"query", "sync", "close"}
  BY PartsOf DEF TypeOK, Doc
<1>2. q # "idle" => caller'[t].op = caller[t].op
  BY DEF Moves
<1>3. p = "check" => caller[t].op # "sync"
  BY DEF RolesOK
<1>4. CASE p \notin {"idle", "opened", "closed"} /\ q = "idle" /\ open' = open /\ docs' = docs
           /\ (p \in {"didOpen", "didChange", "didClose", "send"} => ~alive)
  BY <1>4 DEF Knows
<1>5. CASE p \in {"client", "initialize"} /\ open' = open /\ docs' = docs
           /\ q = IF caller[t].op = "sync" THEN "read" ELSE "check"
  BY <1>2, <1>5 DEF Knows
<1>6. CASE /\ p = "check" /\ open' = open /\ docs' = docs
           /\ \/ q = "register" /\ open[d] > 0
              \/ q = "didClose" /\ caller[t].op # "query"
              \/ q = "read" /\ open[d] = 0
  BY <1>6 DEF Knows
<1>7. CASE p = "read" /\ open' = open /\ docs' = docs
           /\ q = IF caller[t].op = "query" THEN "didOpen" ELSE "change"
  BY <1>7 DEF Knows
<1>8. CASE p = "change" /\ open' = open /\ docs' = docs
           /\ q = IF open[d] > 0 THEN "bump" ELSE "didOpen"
  BY <1>1, <1>8 DEF Knows
<1>9. CASE p = "bump" /\ q = "didChange" /\ caller'[t].version = open[d] + 1 /\ Marks(t, open[d] + 1)
  BY <1>1, <1>9 DEF Knows, Marks
<1>10. CASE p = "didOpen" /\ q = "opened" /\ Receives(t, 1) /\ open' = open
  BY <1>1, <1>10 DEF Knows, Receives
<1>11. CASE p = "opened" /\ q \in {"register", "diagnose"} /\ Marks(t, 1)
  BY <1>1, <1>11 DEF Knows, Marks
<1>12. CASE p = "didChange" /\ q = "diagnose" /\ Receives(t, caller[t].version) /\ open' = open
  BY <1>1, <1>12 DEF Knows, Receives
<1>13. CASE p = "didClose" /\ q = "closed" /\ Receives(t, NotOpen) /\ open' = open
  BY <1>1, <1>13 DEF Knows, Receives, NotOpen
<1>14. CASE p = "closed" /\ q = "idle" /\ Marks(t, 0)
  BY <1>1, <1>14 DEF Knows, Marks
<1>15. CASE p \in {"register", "send"} /\ q \in {"send", "await"} /\ open' = open /\ docs' = docs
  BY <1>15 DEF Knows
<1> QED
  BY <1>4, <1>5, <1>6, <1>7, <1>8, <1>9, <1>10, <1>11, <1>12, <1>13, <1>14, <1>15
  DEF Moves, Course, Quiet

LEMMA MoveOrder ==
    ASSUME TypeOK, RolesOK, OrderOK, NEW t \in Threads, Moves(t) PROVE OrderOK'
<1> DEFINE x == Doc(t)
<1>1. /\ caller[t].pc # "idle" /\ Doc(t)' = x /\ contended' = contended /\ alive' = alive
      /\ \A u \in Threads \ {t} : caller'[u] = caller[u] /\ Doc(u)' = Doc(u)
  BY DEF Moves, Course, Doc
<1>2. x \in Docs /\ open \in [Docs -> Nat] /\ docs \in [Docs -> Nat]
  BY PartsOf DEF TypeOK, Doc
<1>3. \A e \in Docs \ {x} : open'[e] = open[e] /\ docs'[e] = docs[e]
  BY <1>2 DEF Moves, Course, Quiet, Marks, Receives
<1>4. SharingNoted'
  BY MoveSharing DEF OrderOK
<1>5. ASSUME alive', NEW d \in Docs \ contended'
      PROVE  /\ \A u \in Threads : caller'[u].pc # "idle" /\ Doc(u)' = d => Knows(caller'[u], open'[d], docs'[d])
             /\ (\A u \in Threads : Doc(u)' = d => caller'[u].pc = "idle") => open'[d] = docs'[d]
  <2>1. /\ \A u \in Threads : caller[u].pc # "idle" /\ Doc(u) = d => Knows(caller[u], open[d], docs[d])
        /\ (\A u \in Threads : Doc(u) = d => caller[u].pc = "idle") => open[d] = docs[d]
    BY <1>1, <1>5 DEF OrderOK, DocsInOrder
  <2>2. CASE d # x
    BY <1>1, <1>3, <2>1, <2>2
  <2>3. CASE d = x
    <3>1. \A u \in Threads \ {t} : Doc(u) = d => caller[u].pc = "idle"
      BY <1>1, <1>5, <2>3 DEF OrderOK, SharingNoted
    <3>2. Knows(caller[t], open[x], docs[x])
      BY <1>1, <2>1, <2>3
    <3>3. IF caller'[t].pc = "idle" THEN open'[x] = docs'[x] ELSE Knows(caller'[t], open'[x], docs'[x])
      BY <1>1, <1>5, <3>2, MoveKnows
    <3> QED BY <1>1, <2>3, <3>1, <3>3
  <2> QED BY <2>2, <2>3
<1>6. DocsInOrder'
  BY <1>5 DEF DocsInOrder
<1> QED BY <1>4, <1>6 DEF OrderOK

LEMMA StayOrder == ASSUME OrderOK, Stays PROVE OrderOK'
<1>1. /\ contended' = contended /\ open' = open /\ docs' = docs /\ (alive' = alive \/ alive' = FALSE)
      /\ \A t \in Threads :
            /\ caller'[t].pc = caller[t].pc /\ caller'[t].op = caller[t].op
            /\ Doc(t)' = Doc(t) /\ caller'[t].version = caller[t].version
  BY DEF Stays, Quiet, Doc
<1>2. SharingNoted'
  BY <1>1 DEF OrderOK, SharingNoted
<1>3. \A o, n : \A t \in Threads : Knows(caller[t], o, n) => Knows(caller'[t], o, n)
  BY <1>1 DEF Knows
<1>4. DocsInOrder'
  BY <1>1, <1>3 DEF OrderOK, DocsInOrder
<1> QED BY <1>2, <1>4 DEF OrderOK

LEMMA InitOrder == Init => OrderOK
<1> SUFFICES ASSUME Init PROVE OrderOK
  OBVIOUS
<1>1. \A t \in Threads : caller[t].pc = "idle"
  <2> TAKE t \in Threads
  <2>1. caller[t] = Resting(CHOOSE d \in Docs : TRUE)
    BY DEF Init
  <2> QED BY <2>1 DEF Resting
<1>2. alive = FALSE
  BY DEF Init
<1> QED BY <1>1, <1>2 DEF OrderOK, SharingNoted, DocsInOrder

LEMMA BeginOrder ==
    ASSUME TypeOK, OrderOK, NEW t \in Threads, NEW op \in Calls, NEW d \in Docs, Begin(t, op, d)
    PROVE  OrderOK'
<1>1. /\ caller'[t].pc = "client" /\ Doc(t)' = d
      /\ \A u \in Threads \ {t} : caller'[u] = caller[u] /\ Doc(u)' = Doc(u)
  BY BeginsAt DEF Doc
<1>2. /\ caller[t].pc = "idle" /\ UNCHANGED <<alive, open, docs>>
      /\ contended' = contended \cup
            {e \in {d} : \E u \in Threads \ {t} : caller[u].pc # "idle" /\ Doc(u) = d}
  BY DEF Begin, At, clientVars, serverVars
<1>3. SharingNoted'
  BY <1>1, <1>2 DEF OrderOK, SharingNoted
<1>4. ASSUME alive', NEW e \in Docs \ contended'
      PROVE  /\ \A u \in Threads : caller'[u].pc # "idle" /\ Doc(u)' = e => Knows(caller'[u], open'[e], docs'[e])
             /\ (\A u \in Threads : Doc(u)' = e => caller'[u].pc = "idle") => open'[e] = docs'[e]
  <2>1. /\ e \notin contended
        /\ \A u \in Threads : caller[u].pc # "idle" /\ Doc(u) = e => Knows(caller[u], open[e], docs[e])
        /\ (\A u \in Threads : Doc(u) = e => caller[u].pc = "idle") => open[e] = docs[e]
    BY <1>2, <1>4 DEF OrderOK, DocsInOrder
  <2>2. CASE e = d
    <3>1. \A u \in Threads \ {t} : Doc(u) = e => caller[u].pc = "idle"
      BY <1>2, <1>4, <2>2
    <3>2. open[e] = docs[e]
      BY <1>2, <2>1, <3>1
    <3>3. Knows(caller'[t], open'[e], docs'[e])
      BY <1>1, <1>2, <3>2 DEF Knows
    <3> QED BY <1>1, <2>2, <3>1, <3>3
  <2>3. CASE e # d
    BY <1>1, <1>2, <2>1, <2>3
  <2> QED BY <2>2, <2>3
<1>5. DocsInOrder'
  BY <1>4 DEF DocsInOrder
<1> QED BY <1>3, <1>5 DEF OrderOK

(* A server that is started has been told of nothing, and nobody is far.    *)
LEMMA ConnectOrder ==
    ASSUME TypeOK, OrderOK, Standing, NEW t \in Threads, Connect(t) \/ ConnectFails(t)
    PROVE  OrderOK'
<1>1. /\ caller'[t].pc \in {"idle", "initialize"} /\ Doc(t)' = Doc(t) /\ caller[t].pc # "idle"
      /\ \A u \in Threads \ {t} : caller'[u] = caller[u] /\ Doc(u)' = Doc(u)
  <2>1. CASE Connect(t)
    BY <2>1, ConnectsTo DEF Doc, Connect, At
  <2>2. CASE ConnectFails(t)
    BY <2>2, LeavesWhere DEF Doc, ConnectFails, At, TypeOK
  <2> QED BY <2>1, <2>2
<1>2. contended' = contended /\ (alive' => \A d \in Docs : open'[d] = 0 /\ docs'[d] = 0)
  BY DEF Connect, ConnectFails, NotOpen, history
<1>3. \A u \in Threads : caller'[u].pc \in {"idle", "client", "initialize"}
  BY <1>1 DEF Connect, ConnectFails, Standing, Past
<1>4. SharingNoted'
  BY <1>1, <1>2 DEF OrderOK, SharingNoted
<1>5. \A n : \A u \in Threads : Knows(caller'[u], n, n)
  BY <1>3 DEF Knows
<1>6. DocsInOrder'
  BY <1>2, <1>5 DEF DocsInOrder
<1> QED BY <1>4, <1>6 DEF OrderOK

LEMMA NextOrder == TypeOK /\ Standing /\ RolesOK /\ OrderOK /\ [Next]_vars => OrderOK'
<1> SUFFICES ASSUME TypeOK, Standing, RolesOK, OrderOK, [Next]_vars PROVE OrderOK'
  OBVIOUS
<1>1. ASSUME NEW t \in Threads, ThreadStep(t) PROVE OrderOK'
  BY <1>1, ThreadMoves, MoveOrder, ConnectOrder
<1>2. CASE Stays
  BY <1>2, StayOrder
<1> QED BY <1>1, <1>2, BeginOrder, OtherStays DEF Next, Rest

(* For a document one thread works on at a time, the server is told of it   *)
(* when it does not know it, and of its versions as they grow, whoever      *)
(* worked on it before and however their calls ended.                       *)
THEOREM ChangesComeInOrder == Spec => ChangesInOrder
<1>1. TypeOK /\ OrderOK /\ [Next]_vars
      => [\A t \in Threads : alive /\ Doc(t) \notin contended =>
            /\ SendOpen(t)   => docs[Doc(t)] = 0
            /\ SendChange(t) => docs[Doc(t)] \in 1 .. caller[t].version - 1]_vars
  <2> SUFFICES ASSUME TypeOK, OrderOK, NEW t \in Threads, alive, Doc(t) \notin contended
               PROVE  /\ SendOpen(t)   => docs[Doc(t)] = 0
                      /\ SendChange(t) => docs[Doc(t)] \in 1 .. caller[t].version - 1
    OBVIOUS
  <2>1. docs[Doc(t)] \in Nat /\ Doc(t) \in Docs /\ caller[t].version \in Nat
    BY PartsOf DEF TypeOK, Doc
  <2>2. caller[t].pc # "idle" => Knows(caller[t], open[Doc(t)], docs[Doc(t)])
    BY <2>1 DEF OrderOK, DocsInOrder
  <2>3. ASSUME SendOpen(t) PROVE docs[Doc(t)] = 0
    BY <2>2, <2>3 DEF Knows, SendOpen, At
  <2>4. ASSUME SendChange(t) PROVE docs[Doc(t)] \in 1 .. caller[t].version - 1
    <3>1. docs[Doc(t)] > 0 /\ docs[Doc(t)] + 1 = caller[t].version
      BY <2>2, <2>4 DEF Knows, SendChange, At
    <3> QED BY <2>1, <3>1
  <2> QED BY <2>3, <2>4
<1>2. TypeOK /\ Standing /\ RolesOK /\ OrderOK /\ [Next]_vars => OrderOK'
  BY NextOrder
<1>3. TypeOK /\ TypeOK' /\ Standing /\ FoundOK /\ [Next]_vars => FoundOK'
  BY NextFound
<1>4. FoundOK => RolesOK
  BY DEF FoundOK
<1> QED BY <1>1, <1>2, <1>3, <1>4, InitFound, InitOrder, StandingHolds, TypeCorrect, PTL DEF Spec, ChangesInOrder
=============================================================================
