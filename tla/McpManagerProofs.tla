----------------------------- MODULE McpManagerProofs -----------------------------
(* Theorems about McpManager, for any servers, tools, transports and bounds. *)
EXTENDS McpManager, SequenceTheorems, TLAPS

(***************************************************************************)
(* Type correctness.                                                       *)
(***************************************************************************)

LEMMA InitTypeOK == Init => TypeOK
<1> SUFFICES ASSUME Init PROVE TypeOK
  OBVIOUS
<1>1. DOMAIN index = {}
  BY DEF Init
<1>2. NoRequest \in Request
  BY DEF NoRequest, Request, Methods
<1>3. <<NoRequest, NoRequest>> \in Request \X Message
  BY <1>2 DEF Request, Message
<1>4. /\ process \in [Servers -> BOOLEAN] /\ initialized \in [Servers -> BOOLEAN]
      /\ alive \in [Servers -> BOOLEAN] /\ greeted \in [Servers -> BOOLEAN]
      /\ inbox \in [Servers -> SUBSET Request] /\ pipe \in [Servers -> Seq(Frame)]
      /\ noticed \in [Servers -> Nat]
  BY DEF Init
<1>5. /\ pc \in Places /\ op \in {"discover", "call"}
      /\ todo \in Seq(Servers) /\ server \in Servers
  BY DEF Init, Places
<1>6. waiting \in Request /\ nextId \in Nat \ {0}
  BY <1>2 DEF Init
<1>7. /\ paging \in BOOLEAN /\ found \subseteq Offers
      /\ cached \in BOOLEAN /\ offered \subseteq Offers
      /\ mismatched \subseteq Servers /\ late \subseteq Servers /\ pages \in Nat /\ deaths \in Nat
  BY DEF Init
<1>8. answered \in Request \X Message
  BY <1>3 DEF Init
<1> QED BY <1>1, <1>4, <1>5, <1>6, <1>7, <1>8 DEF TypeOK

(* The first frame in a pipe, and what it answers. *)
LEMMA FrontType ==
    ASSUME TypeOK, pipe[server] # <<>>
    PROVE  /\ Front \in Frame /\ Front.for \in Message
           /\ Front.for.method # "own" => Front.for \in Request
<1>1. pipe[server] \in Seq(Frame)
  BY DEF TypeOK
<1>2. Front \in Frame
  BY <1>1 DEF Front
<1> QED BY <1>2 DEF Frame, Message, Request

LEMMA AbortType == ASSUME TypeOK, Abort PROVE
    /\ pc' \in Places /\ cached' \in BOOLEAN /\ offered' \subseteq Offers
    /\ process' \in [Servers -> BOOLEAN] /\ initialized' \in [Servers -> BOOLEAN]
    /\ op' \in {"discover", "call"} /\ todo' \in Seq(Servers) /\ found' \subseteq Offers
    /\ server' \in Servers /\ paging' \in BOOLEAN /\ waiting' \in Request
BY DEF TypeOK, Abort, Go, Places, callVars

(* Clearing the routes of a server leaves the others as they are.          *)
LEMMA RoutesType == ASSUME TypeOK PROVE
    /\ DOMAIN RoutesAtRequest(server) \subseteq DOMAIN index
    /\ \A n \in DOMAIN RoutesAtRequest(server) : RoutesAtRequest(server)[n] = index[n]
BY DEF TypeOK, RoutesAtRequest, WithoutRoutesOf, Restrict

(* What a server sends of its own accord. *)
Unasked == {Notification} \cup {OwnRequest(id) : id \in OwnIds}

LEMMA UnaskedType ==
    ASSUME NEW frame \in Unasked
    PROVE  /\ frame \in Frame
           /\ frame.for = NoRequest \/ (frame.for.method = "own" /\ ~frame.ok)
<1>1. Notification \in Frame /\ Notification.for = NoRequest
  BY DEF Notification, Frame, Message, NoRequest, Methods
<1>2. ASSUME NEW id \in OwnIds
      PROVE  OwnRequest(id) \in Frame /\ OwnRequest(id).for.method = "own" /\ ~OwnRequest(id).ok
  BY BoundsAssumption DEF OwnRequest, Frame, Message
<1> QED BY <1>1, <1>2 DEF Unasked

LEMMA AnswerType ==
    ASSUME NEW request \in Request, NEW ok \in BOOLEAN, NEW tools \in SUBSET Tools,
           NEW more \in BOOLEAN
    PROVE  [for |-> request, ok |-> ok, tools |-> tools, more |-> more] \in Frame
<1>1. request \in Message /\ request.method # "own"
  BY DEF Request, Message, Methods
<1> QED BY <1>1 DEF Frame

(* The steps there are; what servers send unasked is taken together. *)
LEMMA NextCases ==
    ASSUME [Next]_vars
    PROVE  \/ BeginDiscovery \/ (\E name \in Names : BeginCall(name))
           \/ ManagerStep \/ TimesOut \/ ForgetCache \/ Shutdown \/ Leave
           \/ (\E s \in Servers : ServerAnswers(s))
           \/ (\E s \in Servers, frame \in Unasked : SendUnasked(s, frame))
           \/ (\E s \in Servers : Die(s))
           \/ Rest \/ UNCHANGED vars
BY DEF Next, Notify, Ask, Unasked

LEMMA NextTypeOK == TypeOK /\ [Next]_vars => TypeOK'
<1> SUFFICES ASSUME TypeOK, [Next]_vars PROVE TypeOK'
  OBVIOUS
<1> USE DEF vars, serverVars, managerVars, callVars
<1>1. CASE BeginDiscovery
  <2>1. Order \in Seq(Servers)
    BY ServersAssumption
  <2> QED BY <1>1, <2>1 DEF BeginDiscovery, TypeOK, Go, Places
<1>2. CASE NextServer
  <2>1. Head(todo) \in Servers /\ Tail(todo) \in Seq(Servers)
    BY <1>2 DEF NextServer, TypeOK
  <2> QED BY <1>2, <2>1 DEF NextServer, TypeOK, Go, Places
<1>3. CASE EndDiscovery
  BY <1>3, FrontType, AbortType DEF EndDiscovery, TypeOK, Go, Places, Receive, Read
<1>4. ASSUME NEW name \in Names, BeginCall(name) PROVE TypeOK'
  BY <1>4, ServersAssumption DEF BeginCall, TypeOK, Go, Places, Offers
<1>5. CASE Spawn
  BY <1>5, FrontType, AbortType DEF Spawn, TypeOK, Go, Places, Receive, Read
<1>6. CASE SpawnFails
  BY <1>6, FrontType, AbortType DEF SpawnFails, TypeOK, Go, Places, Receive, Read
<1>7. CASE Ready
  BY <1>7, FrontType, AbortType DEF Ready, TypeOK, Go, Places, Receive, Read
<1>8. CASE Send
  <2>1. waiting' \in Request /\ nextId' \in Nat \ {0}
    BY <1>8 DEF Send, Method, Request, Methods, TypeOK
  <2>2. inbox' \in [Servers -> SUBSET Request]
    BY <1>8, <2>1 DEF Send, TypeOK
  <2>3. DOMAIN index' \subseteq Names /\ \A n \in DOMAIN index' : index'[n] \in Offers
    BY <1>8, RoutesType DEF Send, TypeOK
  <2> QED BY <1>8, <2>1, <2>2, <2>3 DEF Send, Sent, TypeOK, Go, Places
<1>9. CASE SendFails
  <2>1. DOMAIN index' \subseteq Names /\ \A n \in DOMAIN index' : index'[n] \in Offers
    BY <1>9, RoutesType DEF SendFails, TypeOK
  <2> QED BY <1>9, <2>1, AbortType DEF SendFails, TypeOK
<1>10. CASE Initialized
  BY <1>10, FrontType, AbortType DEF Initialized, TypeOK, Go, Places, Receive, Read
<1>11. CASE ReceiveTools
  <2>1. Front \in Frame /\ Front.for \in Message /\ server \in Servers /\ waiting \in Request
    BY <1>11, FrontType DEF ReceiveTools, Receive, Read, TypeOK
  <2> DEFINE listed == {server} \X Front.tools
             names  == {QualifiedName[t] : t \in listed}
  <2>2. listed \subseteq Offers /\ names \subseteq Names /\ Front.more \in BOOLEAN
    BY <2>1, ServersAssumption DEF Offers, Frame
  <2> HIDE DEF listed, names
  <2>3. DOMAIN index' \subseteq Names /\ \A n \in DOMAIN index' : index'[n] \in Offers
    <3>1. PICK route \in [names -> listed] :
             index' = [n \in DOMAIN index \cup names |-> IF n \in names THEN route[n] ELSE index[n]]
      BY <1>11 DEF ReceiveTools, listed, names
    <3> QED BY <2>2, <3>1 DEF TypeOK
  <2>4. found' \subseteq Offers
    BY <1>11, <2>2 DEF ReceiveTools, TypeOK, listed
  <2>5. pipe' \in [Servers -> Seq(Frame)] /\ answered' \in Request \X Message
    BY <1>11, <2>1 DEF ReceiveTools, Receive, Read, TypeOK
  <2> QED BY <1>11, <2>2, <2>3, <2>4, <2>5 DEF ReceiveTools, Receive, Read, TypeOK, Go, Places
<1>12. CASE ReceiveCall
  BY <1>12, FrontType, AbortType DEF ReceiveCall, TypeOK, Go, Places, Receive, Read
<1>13. CASE ReceiveError
  BY <1>13, FrontType, AbortType DEF ReceiveError, TypeOK, Go, Places, Receive, Read
<1>14. CASE ReceiveOther
  BY <1>14, FrontType, AbortType DEF ReceiveOther, TypeOK, Go, Places, Receive, Read
<1>15. CASE PassOver
  BY <1>15, FrontType, AbortType DEF PassOver, TypeOK, Go, Places, Receive, Read
<1>16. CASE HungUp
  BY <1>16, FrontType, AbortType DEF HungUp, TypeOK, Go, Places, Receive, Read
<1>17. CASE TimesOut
  BY <1>17, FrontType, AbortType DEF TimesOut, TypeOK, Go, Places, Receive, Read
<1>18. CASE ForgetCache
  BY <1>18, FrontType, AbortType DEF ForgetCache, TypeOK, Go, Places, Receive, Read
<1>19. CASE Shutdown \/ Leave
  <2>1. \A s \in Servers : <<>> \in Seq(Frame) /\ {} \in SUBSET Request
    OBVIOUS
  <2>2. pipe' \in [Servers -> Seq(Frame)] /\ inbox' \in [Servers -> SUBSET Request]
    BY <1>19, <2>1 DEF Shutdown, Leave, Drop
  <2>3. /\ process' \in [Servers -> BOOLEAN] /\ initialized' \in [Servers -> BOOLEAN]
        /\ alive' \in [Servers -> BOOLEAN] /\ pc' \in Places
    BY <1>19 DEF Shutdown, Leave, Drop, Go, Places
  <2>4. UNCHANGED <<greeted, pages, noticed, deaths, index, cached, offered, callVars, nextId,
                    answered, mismatched, late>>
    BY <1>19 DEF Shutdown, Leave, Drop
  <2> QED BY <2>2, <2>3, <2>4 DEF TypeOK
<1>20. ASSUME NEW s \in Servers, ServerAnswers(s) PROVE TypeOK'
  <2>1. PICK request \in inbox[s], ok \in BOOLEAN, tools \in SUBSET Tools, more \in BOOLEAN :
            Answer(s, request, ok, tools, more)
    BY <1>20 DEF ServerAnswers
  <2> DEFINE frame == [for |-> request, ok |-> ok, tools |-> tools, more |-> more]
  <2>2. request \in Request /\ frame \in Frame
    BY <2>1, AnswerType DEF TypeOK
  <2>3. pipe' = [pipe EXCEPT ![s] = Append(@, frame)]
    BY <2>1 DEF Answer
  <2> HIDE DEF frame
  <2>4. pipe' \in [Servers -> Seq(Frame)]
    BY <2>2, <2>3 DEF TypeOK
  <2>5. inbox' \in [Servers -> SUBSET Request] /\ pages' \in Nat
    BY <2>1 DEF Answer, TypeOK
  <2>6. greeted' \in [Servers -> BOOLEAN]
    BY <2>1 DEF Answer, TypeOK
  <2> QED BY <2>1, <2>4, <2>5, <2>6 DEF Answer, TypeOK
<1>21. ASSUME NEW s \in Servers, NEW frame \in Unasked, SendUnasked(s, frame) PROVE TypeOK'
  <2>1. frame \in Frame
    BY UnaskedType
  <2>2. pipe' \in [Servers -> Seq(Frame)]
    BY <1>21, <2>1 DEF SendUnasked, TypeOK
  <2> QED BY <1>21, <2>2 DEF SendUnasked, TypeOK
<1>22. ASSUME NEW s \in Servers, Die(s) PROVE TypeOK'
  BY <1>22 DEF Die, TypeOK
<1>23. CASE UNCHANGED vars
  BY <1>23 DEF TypeOK
<1> QED
  BY <1>1, <1>2, <1>3, <1>4, <1>5, <1>6, <1>7, <1>8, <1>9, <1>10, <1>11, <1>12, <1>13, <1>14, <1>15, <1>16, <1>17, <1>18, <1>19, <1>20, <1>21, <1>22, <1>23, NextCases DEF ManagerStep, Rest

(* Every variable keeps its type, whatever the servers write and whenever  *)
(* they die.                                                               *)
THEOREM TypeCorrect == Spec => []TypeOK
BY InitTypeOK, NextTypeOK, PTL DEF Spec

-----------------------------------------------------------------------------
(***************************************************************************)
(* Answers.                                                                *)
(***************************************************************************)

(* The requests that something may be an answer to.                        *)
Flies(x) ==
    \/ x = NoRequest \/ x = waiting
    \/ \E s \in Servers :
          \/ x \in inbox[s]
          \/ \E i \in DOMAIN pipe[s] : pipe[s][i].for = x

(* No two of them have one id, and the next id is new.                     *)
IdInv ==
    /\ TypeOK
    /\ \A x \in Request : Flies(x) => x.id < nextId
    /\ \A x, y \in Request : Flies(x) /\ Flies(y) /\ x.id = y.id => x = y
    /\ AnswersAreOwn


LEMMA TailItems ==
    ASSUME NEW S, NEW q \in Seq(S), q # <<>>, NEW i \in DOMAIN Tail(q)
    PROVE  i + 1 \in DOMAIN q /\ Tail(q)[i] = q[i + 1]
OBVIOUS

LEMMA AppendItems ==
    ASSUME NEW S, NEW q \in Seq(S), NEW e \in S, NEW i \in DOMAIN Append(q, e)
    PROVE  (i \in DOMAIN q /\ Append(q, e)[i] = q[i]) \/ Append(q, e)[i] = e
OBVIOUS

LEMMA InitIds == Init => IdInv
<1> SUFFICES ASSUME Init PROVE IdInv
  OBVIOUS
<1>1. \A x \in Request : Flies(x) => x = NoRequest
  BY DEF Init, Flies
<1>2. nextId = 1 /\ NoRequest.id = 0 /\ AnswersAreOwn
  BY DEF Init, NoRequest, AnswersAreOwn
<1> QED BY <1>1, <1>2, InitTypeOK DEF IdInv

(* A step lets no request fly but the one it sends, whose id is new.       *)
Sends(x) == x = waiting' /\ x.id = nextId /\ nextId' = nextId + 1

LEMMA FliesStill ==
    ASSUME UNCHANGED <<waiting, inbox, pipe>>, NEW x, Flies(x)' PROVE Flies(x)
BY DEF Flies

LEMMA FliesRead ==
    ASSUME TypeOK, Read, UNCHANGED waiting, NEW x, Flies(x)' PROVE Flies(x)
<1>1. pipe \in [Servers -> Seq(Frame)] /\ server \in Servers
  BY DEF TypeOK
<1>2. ASSUME NEW s \in Servers, NEW i \in DOMAIN pipe'[s], pipe'[s][i].for = x
      PROVE  \E j \in DOMAIN pipe[s] : pipe[s][j].for = x
  <2>1. CASE s = server
    <3>1. pipe[s] \in Seq(Frame) /\ pipe[s] # <<>> /\ pipe'[s] = Tail(pipe[s])
      BY <1>1, <2>1 DEF Read
    <3> QED BY <1>2, <3>1, TailItems
  <2>2. CASE s # server
    BY <1>1, <1>2, <2>2 DEF Read
  <2> QED BY <2>1, <2>2
<1> QED BY <1>2 DEF Flies, Read

(* A frame that is written answers a request that flies.                   *)
LEMMA FliesWritten ==
    ASSUME TypeOK, NEW s \in Servers, NEW frame \in Frame,
           Flies(frame.for) \/ frame.for.method = "own",
           pipe' = [pipe EXCEPT ![s] = Append(@, frame)],
           \A q \in Servers : inbox'[q] \subseteq inbox[q],
           UNCHANGED waiting, NEW x \in Request, Flies(x)'
    PROVE  Flies(x)
<1>0. x.method # "own"
  BY DEF Request, Methods
<1>1. pipe \in [Servers -> Seq(Frame)]
  BY DEF TypeOK
<1>2. ASSUME NEW q \in Servers, NEW i \in DOMAIN pipe'[q], pipe'[q][i].for = x
      PROVE  x = frame.for \/ \E j \in DOMAIN pipe[q] : pipe[q][j].for = x
  <2>1. CASE q = s
    <3>1. pipe[q] \in Seq(Frame) /\ pipe'[q] = Append(pipe[q], frame)
      BY <1>1, <2>1
    <3> QED BY <1>2, <3>1, AppendItems
  <2>2. CASE q # s
    BY <1>1, <1>2, <2>2
  <2> QED BY <2>1, <2>2
<1> QED BY <1>0, <1>2 DEF Flies

LEMMA FliesNext ==
    ASSUME TypeOK, [Next]_vars, NEW x \in Request, Flies(x)' PROVE Flies(x) \/ Sends(x)
<1> USE DEF vars, serverVars, managerVars, callVars
<1>1. CASE \/ BeginDiscovery \/ NextServer \/ EndDiscovery \/ (\E name \in Names : BeginCall(name))
           \/ SpawnFails \/ Ready \/ SendFails \/ HungUp \/ TimesOut \/ ForgetCache
           \/ (\E s \in Servers : Die(s)) \/ UNCHANGED vars
  BY <1>1, FliesStill DEF BeginDiscovery, NextServer, EndDiscovery, BeginCall, SpawnFails, Ready,
     SendFails, HungUp, TimesOut, ForgetCache, Die, Abort
<1>2. CASE Spawn
  BY <1>2 DEF Spawn, Flies, TypeOK
<1>7. CASE Shutdown \/ Leave
  <2>1. UNCHANGED waiting /\ \A s \in Servers : inbox'[s] = {} /\ DOMAIN pipe'[s] = {}
    BY <1>7 DEF Shutdown, Leave, Drop
  <2> QED BY <2>1 DEF Flies
<1>3. CASE Send
  BY <1>3 DEF Send, Flies, Sends, TypeOK
<1>4. CASE Initialized \/ ReceiveTools \/ ReceiveCall \/ ReceiveError \/ ReceiveOther \/ PassOver
  BY <1>4, FliesRead DEF Initialized, ReceiveTools, ReceiveCall, ReceiveError, ReceiveOther,
     PassOver, Receive, Abort
<1>5. ASSUME NEW s \in Servers, ServerAnswers(s) PROVE Flies(x)
  <2>1. PICK request \in inbox[s], ok \in BOOLEAN, tools \in SUBSET Tools, more \in BOOLEAN :
            Answer(s, request, ok, tools, more)
    BY <1>5 DEF ServerAnswers
  <2> DEFINE frame == [for |-> request, ok |-> ok, tools |-> tools, more |-> more]
  <2>2. request \in Request /\ frame \in Frame /\ frame.for = request
    BY <2>1, AnswerType DEF TypeOK
  <2>3. pipe' = [pipe EXCEPT ![s] = Append(@, frame)] /\ UNCHANGED waiting
    BY <2>1 DEF Answer
  <2>4. Flies(request) /\ \A q \in Servers : inbox'[q] \subseteq inbox[q]
    BY <2>1 DEF Answer, Flies, TypeOK
  <2> HIDE DEF frame
  <2> QED BY <2>2, <2>3, <2>4, FliesWritten
<1>6. ASSUME NEW s \in Servers, NEW frame \in Unasked, SendUnasked(s, frame) PROVE Flies(x)
  <2>1. frame \in Frame /\ (Flies(frame.for) \/ frame.for.method = "own")
    BY UnaskedType DEF Flies
  <2> QED BY <1>6, <2>1, FliesWritten DEF SendUnasked
<1> QED
  BY <1>1, <1>2, <1>3, <1>4, <1>5, <1>6, <1>7, NextCases DEF ManagerStep, Rest

LEMMA NextAnswered ==
    ASSUME IdInv, [Next]_vars PROVE AnswersAreOwn'
<1> USE DEF vars, serverVars, managerVars, callVars
<1>1. CASE Receive
  <2> SUFFICES ASSUME Front.for.method # "own" PROVE AnswersAreOwn'
    BY <1>1 DEF Receive, AnswersAreOwn
  <2>1. Front.for \in Request /\ pipe[server] \in Seq(Frame) /\ pipe[server] # <<>>
    BY <1>1, FrontType DEF Receive, Read, IdInv, TypeOK
  <2>2. Flies(Front.for) /\ Flies(waiting) /\ waiting \in Request
    <3>1. 1 \in DOMAIN pipe[server] /\ pipe[server][1] = Front
      BY <2>1 DEF Front
    <3> QED BY <3>1 DEF Flies, IdInv, TypeOK
  <2>3. Front.for = waiting
    BY <1>1, <2>1, <2>2 DEF Receive, IsAnswer, IdInv
  <2> QED BY <1>1, <2>3 DEF Receive, AnswersAreOwn
<1>2. CASE UNCHANGED answered
  BY <1>2 DEF IdInv, AnswersAreOwn
<1>3. Receive \/ UNCHANGED answered
  BY NextCases DEF ManagerStep, BeginDiscovery, NextServer, EndDiscovery, BeginCall, Spawn, SpawnFails,
     Ready, Send, SendFails, Initialized, ReceiveTools, ReceiveCall, ReceiveError, ReceiveOther,
     PassOver, HungUp, TimesOut, ForgetCache, Shutdown, Leave, Drop, ServerAnswers, Answer, SendUnasked,
     Die, Rest
<1> QED BY <1>1, <1>2, <1>3

LEMMA IdGrows == ASSUME TypeOK, [Next]_vars PROVE nextId' = nextId \/ nextId' = nextId + 1
BY NextCases
   DEF ManagerStep, BeginDiscovery, NextServer, EndDiscovery, BeginCall, Spawn, SpawnFails, Ready, Send, SendFails, Initialized, ReceiveTools, ReceiveCall, ReceiveError, ReceiveOther,
   PassOver, HungUp, TimesOut, ForgetCache, Shutdown, Leave, Drop, ServerAnswers, Answer, SendUnasked,
     Die, Rest,
   Receive, Read, vars

LEMMA NextIds == IdInv /\ [Next]_vars => IdInv'
<1> SUFFICES ASSUME IdInv, [Next]_vars PROVE IdInv'
  OBVIOUS
<1>1. TypeOK /\ TypeOK' /\ nextId \in Nat
  BY NextTypeOK DEF IdInv, TypeOK
<1>2. \A x \in Request : Flies(x)' => Flies(x) \/ Sends(x)
  BY <1>1, FliesNext
<1>3. ASSUME NEW x \in Request, Flies(x)' PROVE x.id < nextId'
  BY <1>1, <1>2, <1>3, IdGrows DEF IdInv, Sends, Request
<1>4. ASSUME NEW x \in Request, NEW y \in Request, Flies(x)', Flies(y)', x.id = y.id PROVE x = y
  BY <1>1, <1>2, <1>4 DEF IdInv, Sends, Request
<1> QED BY <1>1, <1>3, <1>4, NextAnswered DEF IdInv

(* What is accepted is the answer to the request that was sent, whatever   *)
(* calls that failed have left in the pipes, or a request that the server  *)
(* has sent under the same id.                                             *)
THEOREM AnswersBelong == Spec => []AnswersAreOwn
<1>1. IdInv => AnswersAreOwn
  BY DEF IdInv
<1> QED BY <1>1, InitIds, NextIds, PTL DEF Spec

-----------------------------------------------------------------------------
(***************************************************************************)
(* Initialization, and the end.                                            *)
(***************************************************************************)

(* The frames that say a server has accepted an initialize come from a      *)
(* server that has, and only such a server is asked for anything else.     *)
GreetInv ==
    /\ IdInv
    /\ pc = "await" => waiting.id > 0
    /\ \A s \in Servers : initialized[s] => greeted[s]
    /\ pc = "request" \/ (pc = "await" /\ waiting.method # "initialize") => greeted[server]
    /\ \A s \in Servers : \A i \in DOMAIN pipe[s] :
          pipe[s][i].for.id > 0 /\ pipe[s][i].for.method = "initialize" /\ pipe[s][i].ok
          => greeted[s]
    /\ \A s \in Servers : \A x \in inbox[s] : x.id > 0
    /\ InitializeComesFirst


LEMMA InitGreet == Init => GreetInv
<1> SUFFICES ASSUME Init PROVE GreetInv
  OBVIOUS
<1>1. /\ pc = "idle" /\ initialized = [s \in Servers |-> FALSE]
      /\ pipe = [s \in Servers |-> <<>>] /\ inbox = [s \in Servers |-> {}]
  BY DEF Init
<1>2. \A s \in Servers : ~initialized[s]
  BY <1>1
<1>3. \A s \in Servers : DOMAIN pipe[s] = {}
  BY <1>1
<1> QED BY <1>1, <1>2, <1>3, InitIds DEF GreetInv, InitializeComesFirst

(* What GreetInv says of one server, and of the one that is talked to.     *)
GreetOf(s) ==
    /\ initialized[s] => greeted[s]
    /\ \A i \in DOMAIN pipe[s] :
          pipe[s][i].for.id > 0 /\ pipe[s][i].for.method = "initialize" /\ pipe[s][i].ok
          => greeted[s]
    /\ \A x \in inbox[s] : x.id > 0 /\ (x.method # "initialize" => greeted[s])

GreetNow ==
    /\ pc = "await" => waiting.id > 0
    /\ pc = "request" \/ (pc = "await" /\ waiting.method # "initialize") => greeted[server]

LEMMA GreetParts == GreetInv <=> IdInv /\ GreetNow /\ \A s \in Servers : GreetOf(s)
BY DEF GreetInv, GreetNow, GreetOf, InitializeComesFirst

LEMMA GreetFrame ==
    ASSUME NEW s \in Servers, GreetOf(s), initialized'[s] = initialized[s] \/ ~initialized'[s],
           greeted'[s] = greeted[s], pipe'[s] = pipe[s], inbox'[s] = inbox[s]
    PROVE  GreetOf(s)'
BY DEF GreetOf

(* Reading takes a frame away. *)
LEMMA GreetRead ==
    ASSUME TypeOK, Read, NEW s \in Servers, GreetOf(s),
           initialized'[s] => greeted[s]
    PROVE  GreetOf(s)'
<1>1. UNCHANGED <<greeted, inbox>> /\ pipe[s] \in Seq(Frame) /\ pipe \in [Servers -> Seq(Frame)]
  BY DEF Read, TypeOK
<1>2. CASE s = server
  <2>1. pipe[s] # <<>> /\ pipe'[s] = Tail(pipe[s])
    BY <1>1, <1>2 DEF Read
  <2>2. ASSUME NEW i \in DOMAIN pipe'[s] PROVE i + 1 \in DOMAIN pipe[s] /\ pipe'[s][i] = pipe[s][i + 1]
    BY <1>1, <2>1, <2>2, TailItems
  <2>3. ASSUME NEW i \in DOMAIN pipe'[s], pipe'[s][i].for.id > 0,
               pipe'[s][i].for.method = "initialize", pipe'[s][i].ok
        PROVE  greeted[s]
    BY <2>2, <2>3 DEF GreetOf
  <2> QED BY <1>1, <2>3 DEF GreetOf
<1>3. CASE s # server
  <2>1. pipe'[s] = pipe[s]
    BY <1>1, <1>3 DEF Read
  <2> QED BY <1>1, <2>1 DEF GreetOf
<1> QED BY <1>2, <1>3

(* The frame that is accepted as the answer to an initialize is one.       *)
LEMMA FrontGreets ==
    ASSUME GreetInv, Receive, waiting.method = "initialize", Front.ok
    PROVE  greeted[server]
<1>1. Front.for \in Request /\ pipe[server] \in Seq(Frame) /\ pipe[server] # <<>>
      /\ server \in Servers /\ waiting \in Request
  <2>1. Front.for.method # "own"
    BY FrontType DEF Receive, Read, GreetInv, IdInv, Frame
  <2> QED BY <2>1, FrontType DEF Receive, Read, GreetInv, IdInv, TypeOK
<1>2. 1 \in DOMAIN pipe[server] /\ pipe[server][1] = Front
  BY <1>1 DEF Front
<1>3. Flies(Front.for) /\ Flies(waiting)
  BY <1>1, <1>2 DEF Flies
<1>4. Front.for = waiting
  BY <1>1, <1>3 DEF Receive, IsAnswer, GreetInv, IdInv
<1>5. waiting.id > 0
  BY DEF Receive, Read, GreetInv
<1> QED BY <1>1, <1>2, <1>4, <1>5 DEF GreetInv

LEMMA NextGreet == GreetInv /\ [Next]_vars => GreetInv'
<1> SUFFICES ASSUME GreetInv, [Next]_vars PROVE GreetNow' /\ \A s \in Servers : GreetOf(s)'
  BY NextIds DEF GreetInv, GreetNow, GreetOf, InitializeComesFirst
<1> USE DEF vars, serverVars, managerVars, callVars
<1>0. TypeOK /\ GreetNow /\ \A s \in Servers : GreetOf(s)
  BY GreetParts DEF GreetInv, IdInv
<1>1. CASE \/ BeginDiscovery \/ NextServer \/ EndDiscovery \/ (\E name \in Names : BeginCall(name))
           \/ SpawnFails \/ SendFails \/ HungUp \/ TimesOut \/ ForgetCache
           \/ (\E s \in Servers : Die(s)) \/ UNCHANGED vars
  <2>1. GreetNow'
    BY <1>0, <1>1 DEF BeginDiscovery, NextServer, EndDiscovery, BeginCall, SpawnFails,
       SendFails, HungUp, TimesOut, ForgetCache, Die, Abort, Go, GreetNow
  <2>2. UNCHANGED <<initialized, greeted, pipe, inbox>>
    BY <1>1 DEF BeginDiscovery, NextServer, EndDiscovery, BeginCall, SpawnFails,
       SendFails, HungUp, TimesOut, ForgetCache, Die, Abort
  <2> QED BY <1>0, <2>1, <2>2, GreetFrame
<1>2. CASE Ready
  <2>1. GreetNow'
    BY <1>0, <1>2 DEF Ready, Go, GreetNow, GreetOf, TypeOK
  <2> QED BY <1>0, <1>2, <2>1, GreetFrame DEF Ready
<1>3. CASE Spawn
  <2>1. GreetNow'
    BY <1>3 DEF Spawn, Go, GreetNow
  <2>2. ~initialized'[server] /\ pipe'[server] = <<>> /\ inbox'[server] = {}
    BY <1>0, <1>3 DEF Spawn, TypeOK
  <2>3. ASSUME NEW s \in Servers, s = server PROVE GreetOf(s)'
    BY <2>2, <2>3 DEF GreetOf
  <2>4. \A s \in Servers \ {server} : GreetOf(s)'
    BY <1>0, <1>3, GreetFrame DEF Spawn, TypeOK
  <2> QED BY <2>1, <2>3, <2>4
<1>4. CASE Send
  <2>1. waiting'.id > 0 /\ (waiting'.method # "initialize" => greeted[server])
    BY <1>0, <1>4 DEF Send, Method, GreetNow, TypeOK
  <2>2. GreetNow'
    BY <1>4, <2>1 DEF Send, Sent, Go, GreetNow
  <2>3. \A s \in Servers : inbox'[s] = inbox[s] \/ (s = server /\ inbox'[s] = inbox[s] \cup {waiting'})
    BY <1>0, <1>4 DEF Send, TypeOK
  <2>4. UNCHANGED <<initialized, greeted, pipe>>
    BY <1>4 DEF Send
  <2>5. \A s \in Servers : GreetOf(s)'
    BY <1>0, <2>1, <2>3, <2>4 DEF GreetOf
  <2> QED BY <2>2, <2>5
<1>5. CASE Initialized
  <2>1. greeted[server] /\ UNCHANGED greeted
    BY <1>5, FrontGreets DEF Initialized, Receive, Read
  <2>2. GreetNow'
    BY <1>5, <2>1 DEF Initialized, Go, GreetNow
  <2>3. \A s \in Servers : initialized'[s] => greeted[s]
    BY <1>0, <1>5, <2>1 DEF Initialized, GreetOf, TypeOK
  <2> QED BY <1>0, <1>5, <2>2, <2>3, GreetRead DEF Initialized, Receive
<1>6. CASE ReceiveTools \/ ReceiveCall \/ ReceiveError \/ ReceiveOther \/ PassOver
  <2>1. Read /\ UNCHANGED <<initialized, greeted, server, waiting>>
    BY <1>6 DEF ReceiveTools, ReceiveCall, ReceiveError, ReceiveOther, PassOver, Receive, Read, Abort
  <2>2. pc = "await" /\ pc' \in {"request", "next", "idle", "await"}
        /\ (pc' = "request" => waiting.method # "initialize")
    BY <1>6, <2>1 DEF ReceiveTools, ReceiveCall, ReceiveError, ReceiveOther, PassOver, Read, Abort, Go
  <2>3. GreetNow'
    BY <1>0, <2>1, <2>2 DEF GreetNow
  <2>4. \A s \in Servers : initialized'[s] => greeted[s]
    BY <1>0, <2>1 DEF GreetOf
  <2> QED BY <1>0, <2>1, <2>3, <2>4, GreetRead
<1>7. CASE Shutdown \/ Leave
  <2>1. GreetNow'
    BY <1>7 DEF Shutdown, Leave, Drop, Go, GreetNow
  <2>2. \A s \in Servers : ~initialized'[s] /\ pipe'[s] = <<>> /\ inbox'[s] = {}
    BY <1>7 DEF Shutdown, Leave, Drop
  <2> QED BY <2>1, <2>2 DEF GreetOf
<1>8. ASSUME NEW s \in Servers, ServerAnswers(s) PROVE GreetNow' /\ \A q \in Servers : GreetOf(q)'
  <2>1. PICK request \in inbox[s], ok \in BOOLEAN, tools \in SUBSET Tools, more \in BOOLEAN :
            Answer(s, request, ok, tools, more)
    BY <1>8 DEF ServerAnswers
  <2> DEFINE frame == [for |-> request, ok |-> ok, tools |-> tools, more |-> more]
  <2>2. /\ greeted \in [Servers -> BOOLEAN] /\ inbox \in [Servers -> SUBSET Request]
        /\ pipe \in [Servers -> Seq(Frame)] /\ server \in Servers /\ frame \in Frame
    BY <1>0, <2>1, AnswerType DEF TypeOK
  <2>3. \A q \in Servers : greeted[q] => greeted'[q]
    BY <2>1, <2>2 DEF Answer
  <2>4. GreetNow'
    BY <1>0, <2>1, <2>2, <2>3 DEF Answer, GreetNow
  <2>5. pipe'[s] = Append(pipe[s], frame) /\ inbox'[s] \subseteq inbox[s] /\ UNCHANGED initialized
    BY <2>1, <2>2 DEF Answer
  <2>6. frame.ok /\ frame.for.method = "initialize" => greeted'[s]
    BY <2>1, <2>2 DEF Answer
  <2> HIDE DEF frame
  <2>7. GreetOf(s)'
    <3>1. ASSUME NEW i \in DOMAIN pipe'[s], pipe'[s][i].for.id > 0,
                 pipe'[s][i].for.method = "initialize", pipe'[s][i].ok
          PROVE  greeted'[s]
      <4>1. (i \in DOMAIN pipe[s] /\ pipe'[s][i] = pipe[s][i]) \/ pipe'[s][i] = frame
        BY <2>2, <2>5, <3>1, AppendItems
      <4> QED BY <1>0, <2>3, <2>6, <3>1, <4>1 DEF GreetOf
    <3> QED BY <1>0, <2>3, <2>5, <3>1 DEF GreetOf
  <2>8. ASSUME NEW q \in Servers \ {s} PROVE GreetOf(q)'
    BY <1>0, <2>1, <2>2, GreetFrame DEF Answer
  <2> QED BY <2>4, <2>7, <2>8
<1>9. ASSUME NEW s \in Servers, NEW frame \in Unasked, SendUnasked(s, frame)
      PROVE  GreetNow' /\ \A q \in Servers : GreetOf(q)'
  <2>1. /\ pipe \in [Servers -> Seq(Frame)] /\ frame \in Frame
        /\ frame.for.id = 0 \/ ~frame.ok
    BY <1>0, UnaskedType DEF TypeOK, NoRequest
  <2>2. pipe'[s] = Append(pipe[s], frame) /\ UNCHANGED <<initialized, greeted, inbox>>
    BY <1>9, <2>1 DEF SendUnasked
  <2>3. ASSUME NEW i \in DOMAIN pipe'[s], pipe'[s][i].for.id > 0, pipe'[s][i].ok
        PROVE  i \in DOMAIN pipe[s] /\ pipe'[s][i] = pipe[s][i]
    BY <2>1, <2>2, <2>3, AppendItems
  <2>4. GreetOf(s)'
    BY <1>0, <2>2, <2>3 DEF GreetOf
  <2>5. \A q \in Servers \ {s} : GreetOf(q)'
    BY <1>0, <1>9, <2>1, GreetFrame DEF SendUnasked
  <2>6. GreetNow'
    BY <1>0, <1>9 DEF SendUnasked, GreetNow
  <2> QED BY <2>4, <2>5, <2>6
<1> QED
  BY <1>1, <1>2, <1>3, <1>4, <1>5, <1>6, <1>7, <1>8, <1>9, NextCases DEF ManagerStep, Rest

(* A server is asked for nothing before it has accepted an initialize,     *)
(* whatever is left in its pipe of requests that were given up.            *)
THEOREM InitializeFirst == Spec => []InitializeComesFirst
<1>1. GreetInv => InitializeComesFirst
  BY DEF GreetInv
<1> QED BY <1>1, InitGreet, NextGreet, PTL DEF Spec

(* The manager knows of every server that runs, until it is dropped. *)
ProcessInv ==
    /\ TypeOK
    /\ pc # "left" => \A s \in Servers : alive[s] => process[s]
    /\ pc = "closed" => \A s \in Servers : ~process[s]


LEMMA InitProcess == Init => ProcessInv
BY InitTypeOK DEF Init, ProcessInv

LEMMA NextProcess == ProcessInv /\ [Next]_vars => ProcessInv'
<1> SUFFICES ASSUME ProcessInv, [Next]_vars PROVE ProcessInv'
  OBVIOUS
<1> USE DEF vars, serverVars, managerVars, callVars
<1>0. TypeOK /\ TypeOK' /\ process \in [Servers -> BOOLEAN] /\ alive \in [Servers -> BOOLEAN]
  BY NextTypeOK DEF ProcessInv, TypeOK
<1>1. CASE Spawn
  BY <1>0, <1>1 DEF Spawn, Go, ProcessInv, TypeOK
<1>2. CASE Shutdown
  BY <1>0, <1>2 DEF Shutdown, Drop, Stops, Go, ProcessInv
<1>5. CASE Leave
  BY <1>0, <1>5 DEF Leave, Drop, Go, ProcessInv
<1>3. ASSUME NEW s \in Servers, Die(s) PROVE ProcessInv'
  BY <1>0, <1>3 DEF Die, ProcessInv
<1>4. CASE ~Spawn /\ ~Shutdown /\ ~Leave /\ ~\E s \in Servers : Die(s)
  <2>1. UNCHANGED <<alive, process>> /\ (pc' = "closed" => pc = "closed") /\ (pc = "left" => pc' = "left")
    BY <1>4, NextCases
    DEF ManagerStep, BeginDiscovery, NextServer, EndDiscovery, BeginCall, SpawnFails,
       Ready, Send, Sent, SendFails, Initialized, ReceiveTools, ReceiveCall, ReceiveError, ReceiveOther,
       PassOver, HungUp, TimesOut, ForgetCache, ServerAnswers, Answer, SendUnasked, Rest, Receive, Read,
       Abort, Go
  <2> QED BY <1>0, <2>1 DEF ProcessInv
<1> QED BY <1>1, <1>2, <1>3, <1>4, <1>5

(* When the user has left the REPL, whatever failed in it, no server that  *)
(* the manager has started runs.                                           *)
THEOREM NoneLeftBehind == Spec => []NoServerLeftBehind
<1>1. ProcessInv => NoServerLeftBehind
  BY DEF ProcessInv, NoServerLeftBehind
<1> QED BY <1>1, InitProcess, NextProcess, PTL DEF Spec

-----------------------------------------------------------------------------
(***************************************************************************)
(* Requests and answers in step.                                           *)
(***************************************************************************)

(* A server that has sent nothing unasked and always answered in time is in *)
(* step: there is at most the answer to the request that is waited for.    *)
InStep(s) ==
    /\ s \notin mismatched
    /\ IF pc = "await" /\ server = s
       THEN /\ \A i \in DOMAIN pipe[s] : pipe[s][i].for = waiting
            /\ pipe[s] = <<>> \/ Len(pipe[s]) = 1
            /\ alive[s] => inbox[s] = {} \/ (inbox[s] = {waiting} /\ pipe[s] = <<>>)
       ELSE /\ pipe[s] = <<>>
            /\ alive[s] => inbox[s] = {}

StepInv ==
    /\ TypeOK
    /\ \A s \in Servers : noticed[s] = 0 /\ s \notin late => InStep(s)


LEMMA InitSteps == Init => StepInv
<1> SUFFICES ASSUME Init PROVE StepInv
  OBVIOUS
<1>1. /\ pc = "idle" /\ mismatched = {}
      /\ \A s \in Servers : pipe[s] = <<>> /\ inbox[s] = {}
  BY DEF Init
<1> QED BY <1>1, InitTypeOK DEF StepInv, InStep

(* A step that leaves a server alone, but for its death and for routes.    *)
LEMMA InStepFrame ==
    ASSUME NEW s \in Servers, InStep(s), pipe'[s] = pipe[s], inbox'[s] = inbox[s],
           alive'[s] => alive[s], s \in mismatched' => s \in mismatched,
           \/ UNCHANGED <<pc, server, waiting>>
           \/ pc # "await" /\ pc' # "await"
           \/ server # s /\ server' # s
    PROVE  InStep(s)'
BY DEF InStep

LEMMA NextSteps == StepInv /\ [Next]_vars => StepInv'
<1> SUFFICES ASSUME StepInv, [Next]_vars
             PROVE  \A s \in Servers : noticed'[s] = 0 /\ s \notin late' => InStep(s)'
  BY NextTypeOK DEF StepInv
<1> USE DEF vars, serverVars, managerVars, callVars
<1>0. /\ TypeOK /\ server \in Servers /\ pipe \in [Servers -> Seq(Frame)]
      /\ inbox \in [Servers -> SUBSET Request] /\ alive \in [Servers -> BOOLEAN]
      /\ noticed \in [Servers -> Nat] /\ waiting \in Request
      /\ \A s \in Servers : noticed[s] = 0 /\ s \notin late => InStep(s)
  BY DEF StepInv, TypeOK
<1>a. (\E s \in Servers, frame \in Unasked : SendUnasked(s, frame)) \/ UNCHANGED noticed
  BY NextCases
  DEF ManagerStep, BeginDiscovery, NextServer, EndDiscovery, BeginCall, Spawn, SpawnFails,
     Ready, Send, SendFails, Initialized, ReceiveTools, ReceiveCall, ReceiveError, ReceiveOther,
     PassOver, HungUp, TimesOut, ForgetCache, Shutdown, Leave, Drop, ServerAnswers, Answer,
     Die, Rest, Receive, Read
<1>l. TimesOut \/ UNCHANGED late
  BY NextCases
  DEF ManagerStep, BeginDiscovery, NextServer, EndDiscovery, BeginCall, Spawn, SpawnFails,
     Ready, Send, SendFails, Initialized, ReceiveTools, ReceiveCall, ReceiveError, ReceiveOther,
     PassOver, HungUp, ForgetCache, Shutdown, Leave, Drop, ServerAnswers, Answer,
     SendUnasked, Die, Rest, Receive, Read
<1>b. ReceiveOther \/ UNCHANGED mismatched
  BY NextCases
  DEF ManagerStep, BeginDiscovery, NextServer, EndDiscovery, BeginCall, Spawn, SpawnFails,
     Ready, Send, SendFails, Initialized, ReceiveTools, ReceiveCall, ReceiveError,
     PassOver, HungUp, TimesOut, ForgetCache, Shutdown, Leave, Drop, ServerAnswers, Answer, SendUnasked,
     Die, Rest, Receive, Read
<1> SUFFICES ASSUME NEW s \in Servers, noticed'[s] = 0, s \notin late' PROVE InStep(s)'
  OBVIOUS
<1>d. noticed[s] = 0 /\ s \notin late
  BY <1>0, <1>a, <1>l DEF SendUnasked, TimesOut
<1>e. InStep(s)
  BY <1>0, <1>d
<1>1. CASE \/ BeginDiscovery \/ NextServer \/ EndDiscovery \/ (\E name \in Names : BeginCall(name))
           \/ SpawnFails \/ Ready \/ SendFails \/ ForgetCache
  <2>1. pc # "await" /\ pc' # "await"
    BY <1>1 DEF BeginDiscovery, NextServer, EndDiscovery, BeginCall, SpawnFails, Ready, SendFails,
       ForgetCache, Abort, Go
  <2>2. UNCHANGED <<pipe, inbox>> /\ (alive'[s] => alive[s])
    BY <1>1 DEF BeginDiscovery, NextServer, EndDiscovery, BeginCall, SpawnFails, Ready, SendFails,
       ForgetCache, Abort
  <2>3. UNCHANGED mismatched
    BY <1>1, <2>1, <1>b DEF ReceiveOther, Read
  <2> QED BY <1>e, <2>1, <2>2, <2>3, InStepFrame
<1>2. CASE Spawn
  <2>1. CASE s = server
    <3>1. pipe'[s] = <<>> /\ inbox'[s] = {} /\ pc' # "await" /\ UNCHANGED mismatched
      BY <1>0, <1>2, <2>1 DEF Spawn, Go
    <3> QED BY <1>e, <3>1 DEF InStep
  <2>2. CASE s # server
    BY <1>0, <1>2, <1>e, <2>2, InStepFrame DEF Spawn
  <2> QED BY <2>1, <2>2
<1>3. CASE Send
  <2>1. pc # "await" /\ pc' = "await" /\ UNCHANGED <<server, pipe, alive, mismatched>>
    BY <1>3 DEF Send, Sent, Go
  <2>2. CASE s = server
    <3>1. pipe[s] = <<>> /\ (alive[s] => inbox[s] = {})
      BY <1>e, <2>1 DEF InStep
    <3>2. alive[s] => inbox'[s] = {waiting'}
      BY <1>0, <1>3, <2>2, <3>1 DEF Send
    <3> QED BY <1>e, <2>1, <2>2, <3>1, <3>2 DEF InStep
  <2>3. CASE s # server
    BY <1>0, <1>3, <1>e, <2>1, <2>3, InStepFrame DEF Send
  <2> QED BY <2>2, <2>3
<1>4. CASE Initialized \/ ReceiveTools \/ ReceiveCall \/ ReceiveError \/ ReceiveOther
  <2>1. /\ pc = "await" /\ pc' # "await" /\ pipe[server] # <<>>
        /\ pipe' = [pipe EXCEPT ![server] = Tail(@)]
        /\ UNCHANGED <<server, inbox, alive>>
    BY <1>4 DEF Initialized, ReceiveTools, ReceiveCall, ReceiveError, ReceiveOther, Receive, Read, Abort, Go
  <2>2. CASE s = server
    <3>1. /\ pipe[s] \in Seq(Frame) /\ pipe[s] # <<>> /\ Len(pipe[s]) = 1
          /\ pipe'[s] = Tail(pipe[s])
      BY <1>0, <1>e, <2>1, <2>2 DEF InStep
    <3>2. pipe'[s] = <<>>
      <4>1. Tail(pipe[s]) \in Seq(Frame) /\ Len(Tail(pipe[s])) = 0
        BY <3>1, HeadTailProperties
      <4> QED BY <3>1, <4>1, EmptySeq
    <3>3. alive[s] => inbox[s] = {}
      BY <1>e, <2>1, <2>2 DEF InStep
    <3>4. 1 \in DOMAIN pipe[s] /\ pipe[s][1] = Front
      BY <2>2, <3>1 DEF Front
    <3>5. Front.for = waiting
      BY <1>e, <2>1, <2>2, <3>4 DEF InStep
    <3>6. UNCHANGED mismatched
      BY <1>b, <3>5 DEF ReceiveOther, IsAnswer
    <3> QED BY <1>e, <2>1, <3>2, <3>3, <3>6 DEF InStep
  <2>3. CASE s # server
    <3>1. s \in mismatched' => s \in mismatched
      BY <1>b, <2>3 DEF ReceiveOther
    <3> QED BY <1>0, <1>e, <2>1, <2>3, <3>1, InStepFrame
  <2> QED BY <2>2, <2>3
<1>5. CASE PassOver
  <2>1. s # server
    <3> SUFFICES ASSUME s = server PROVE FALSE
      OBVIOUS
    <3>1. pc = "await" /\ pipe[s] # <<>> /\ pipe[s] \in Seq(Frame) /\ ~IsAnswer(Front)
      BY <1>0, <1>5 DEF PassOver, Read
    <3>2. 1 \in DOMAIN pipe[s] /\ Front = pipe[s][1]
      BY <3>1 DEF Front
    <3>3. Front.for = waiting
      BY <1>e, <3>1, <3>2 DEF InStep
    <3> QED BY <3>1, <3>3 DEF IsAnswer
  <2> QED BY <1>0, <1>5, <1>e, <2>1, InStepFrame DEF PassOver, Read
<1>6. CASE HungUp \/ TimesOut
  <2>1. /\ pc = "await" /\ pc' # "await" /\ UNCHANGED <<server, pipe, inbox, alive, mismatched>>
        /\ (s = server => pipe[s] = <<>> /\ ~alive[s])
    BY <1>6 DEF HungUp, TimesOut, Abort, Go
  <2>2. CASE s = server
    BY <1>e, <2>1, <2>2 DEF InStep
  <2>3. CASE s # server
    BY <1>e, <2>1, <2>3, InStepFrame
  <2> QED BY <2>2, <2>3
<1>7. ASSUME NEW q \in Servers, ServerAnswers(q) PROVE InStep(s)'
  <2>1. PICK request \in inbox[q], ok \in BOOLEAN, tools \in SUBSET Tools, more \in BOOLEAN :
            Answer(q, request, ok, tools, more)
    BY <1>7 DEF ServerAnswers
  <2>2. CASE s = q
    <3> DEFINE frame == [for |-> request, ok |-> ok, tools |-> tools, more |-> more]
    <3>1. alive[s] /\ request \in inbox[s] /\ UNCHANGED <<pc, server, waiting, alive, mismatched>>
      BY <2>1, <2>2 DEF Answer
    <3>2. pc = "await" /\ server = s /\ inbox[s] = {waiting} /\ pipe[s] = <<>> /\ request = waiting
      BY <1>e, <3>1 DEF InStep
    <3>3. inbox'[s] = {} /\ pipe'[s] = Append(<<>>, frame)
      <4>1. inbox' = [inbox EXCEPT ![s] = @ \ {request}] /\ pipe' = [pipe EXCEPT ![s] = Append(@, frame)]
        BY <2>1, <2>2 DEF Answer
      <4> HIDE DEF frame
      <4> QED BY <1>0, <3>2, <4>1
    <3>4. frame.for = waiting
      BY <3>2
    <3> HIDE DEF frame
    <3>5. pipe'[s] = <<frame>>
      BY <3>3
    <3>6. Len(pipe'[s]) = 1 /\ \A i \in DOMAIN pipe'[s] : pipe'[s][i].for = waiting
      BY <3>4, <3>5
    <3> QED BY <1>e, <3>1, <3>2, <3>3, <3>6 DEF InStep
  <2>3. CASE s # q
    BY <1>0, <1>e, <2>1, <2>3, InStepFrame DEF Answer
  <2> QED BY <2>2, <2>3
<1>8. ASSUME NEW q \in Servers, NEW frame \in Unasked, SendUnasked(q, frame) PROVE InStep(s)'
  <2>1. s # q
    BY <1>0, <1>8, <1>d DEF SendUnasked
  <2> QED BY <1>0, <1>8, <1>e, <2>1, InStepFrame DEF SendUnasked
<1>9. ASSUME NEW q \in Servers, Die(q) PROVE InStep(s)'
  BY <1>0, <1>9, <1>e, InStepFrame DEF Die
<1>10. CASE UNCHANGED vars
  BY <1>10, <1>e, InStepFrame
<1>11. CASE Shutdown \/ Leave
  <2>1. pc' # "await" /\ pipe'[s] = <<>> /\ inbox'[s] = {} /\ UNCHANGED mismatched
    BY <1>11 DEF Shutdown, Leave, Drop, Go
  <2> QED BY <1>e, <2>1 DEF InStep
<1> QED
  BY <1>1, <1>2, <1>3, <1>4, <1>5, <1>6, <1>7, <1>8, <1>9, <1>10, <1>11, NextCases
  DEF ManagerStep, Rest

(* Requests and answers get out of step only on a server that has sent     *)
(* something unasked or has once not answered in time, for any number of   *)
(* calls, errors and deaths, on either transport.                          *)
THEOREM StaysInStep == Spec => []InStepUnlessNotified
<1>1. StepInv => InStepUnlessNotified
  <2> SUFFICES ASSUME StepInv, NEW s \in mismatched, ~(noticed[s] > 0), s \notin late PROVE FALSE
    BY DEF InStepUnlessNotified
  <2>1. s \in Servers /\ noticed[s] \in Nat
    BY DEF StepInv, TypeOK
  <2> QED BY <2>1 DEF StepInv, InStep
<1> QED BY <1>1, InitSteps, NextSteps, PTL DEF Spec

-----------------------------------------------------------------------------
(***************************************************************************)
(* Routes.                                                                 *)
(***************************************************************************)

(* The tools found so far lead to each other, and those of the servers that *)
(* are still to be asked are not among them, whose routes are cleared.     *)
Routed(tools) ==
    \A tool \in tools :
        /\ QualifiedName[tool] \in DOMAIN index
        /\ index[QualifiedName[tool]] \in tools

Discovering == op = "discover" /\ pc \notin {"idle", "closed", "left"}

Found ==
    /\ Routed(found)
    /\ \A i, j \in DOMAIN todo : todo[i] = todo[j] => i = j
    /\ \A tool \in found : \A i \in DOMAIN todo : todo[i] # tool[1]
    /\ pc # "next" => \A i \in DOMAIN todo : todo[i] # server
    /\ pc # "next" /\ ~paging => \A tool \in found : tool[1] # server

(* What the manager is asked for is what it does. *)
Errand ==
    /\ pc = "next" => op = "discover"
    /\ pc = "await" /\ waiting.method = "tools/list" => op = "discover"
    /\ pc = "await" /\ waiting.method = "tools/call" => op = "call"

RouteInv ==
    /\ TypeOK /\ Errand
    /\ ~cached => offered = {}
    /\ ~Discovering => Routed(offered)
    /\ Discovering => Found

LEMMA InitRoutes == Init => RouteInv
<1> SUFFICES ASSUME Init PROVE RouteInv
  OBVIOUS
<1>1. pc = "idle" /\ op = "discover" /\ offered = {}
  BY DEF Init
<1> QED BY <1>1, InitTypeOK DEF RouteInv, Errand, Discovering, Routed

(* Clearing the routes of a server leaves those that lead elsewhere.       *)
LEMMA RoutedElsewhere ==
    ASSUME NEW tools, Routed(tools), \A tool \in tools : tool[1] # server
    PROVE  \A tool \in tools :
              /\ QualifiedName[tool] \in DOMAIN WithoutRoutesOf(server)
              /\ WithoutRoutesOf(server)[QualifiedName[tool]] \in tools
BY DEF Routed, WithoutRoutesOf, Restrict

(* The end of a call by an error, which leaves the index as it is unless it *)
(* is a discovery's.                                                       *)
LEMMA AbortRoutes ==
    ASSUME RouteInv, pc \notin {"idle", "closed", "left"}, Abort, op = "call" => UNCHANGED index
    PROVE  /\ Errand' /\ (~cached' => offered' = {}) /\ ~Discovering' /\ Routed(offered)'
<1>1. pc' = "idle" /\ UNCHANGED op
  BY DEF Abort, Go, callVars
<1>2. CASE op = "discover"
  <2>1. cached' /\ offered' = {}
    BY <1>2 DEF Abort
  <2> QED BY <1>1, <2>1 DEF Errand, Discovering, Routed
<1>3. CASE op = "call"
  <2>1. offered' = offered /\ UNCHANGED index /\ (cached' <=> cached)
    BY <1>3 DEF Abort
  <2>2. Routed(offered) /\ (~cached => offered = {})
    BY <1>3 DEF RouteInv, Discovering
  <2>3. Routed(offered)'
    BY <2>1, <2>2 DEF Routed
  <2> QED BY <1>1, <2>1, <2>2, <2>3 DEF Errand, Discovering
<1> QED BY <1>2, <1>3 DEF RouteInv, TypeOK

(* A step that neither routes nor finds anything. *)
LEMMA RoutesFrame ==
    ASSUME RouteInv, Errand', UNCHANGED <<index, cached, offered, op, todo, found, server, paging>>,
           pc \notin {"idle", "closed", "left", "next"}, pc' \notin {"idle", "closed", "left", "next"}
    PROVE  /\ (~cached' => offered' = {}) /\ (~Discovering' => Routed(offered)')
           /\ (Discovering' => Found')
<1>1. Discovering' <=> Discovering
  BY DEF Discovering
<1>2. Routed(offered)' <=> Routed(offered)
  BY DEF Routed
<1>3. Found => Found'
  BY DEF Found, Routed
<1> QED BY <1>1, <1>2, <1>3 DEF RouteInv

LEMMA NextErrand == RouteInv /\ [Next]_vars => Errand'
<1> SUFFICES ASSUME RouteInv, [Next]_vars PROVE Errand'
  OBVIOUS
<1> USE DEF vars, serverVars, managerVars, callVars
<1>0. TypeOK /\ Errand
  BY DEF RouteInv
<1>1. CASE BeginDiscovery
  BY <1>1 DEF BeginDiscovery, Go, Errand
<1>2. CASE Send
  <2>1. pc' = "await" /\ UNCHANGED op /\ waiting'.method = Method
    BY <1>2 DEF Send, Sent, Go
  <2> QED BY <1>0, <2>1 DEF Method, Errand, TypeOK
<1>3. CASE ReceiveTools
  <2>1. pc = "await" /\ waiting.method = "tools/list" /\ UNCHANGED op /\ pc' \in {"request", "next"}
    BY <1>3 DEF ReceiveTools, Receive, Read, Go
  <2> QED BY <1>0, <2>1 DEF Errand
<1>4. CASE \/ NextServer \/ EndDiscovery \/ (\E name \in Names : BeginCall(name)) \/ Spawn \/ SpawnFails
           \/ Ready \/ SendFails \/ Initialized \/ ReceiveCall \/ ReceiveError \/ ReceiveOther
           \/ HungUp \/ TimesOut \/ Shutdown \/ Leave
  <2>1. pc' # "next" /\ pc' # "await"
    BY <1>4 DEF NextServer, EndDiscovery, BeginCall, Spawn, SpawnFails, Ready, SendFails, Initialized,
       ReceiveCall, ReceiveError, ReceiveOther, HungUp, TimesOut, Shutdown, Leave, Drop, Abort, Go
  <2> QED BY <2>1 DEF Errand
<1>5. CASE \/ PassOver \/ ForgetCache \/ UNCHANGED vars
           \/ (\E s \in Servers : ServerAnswers(s) \/ Die(s))
           \/ (\E s \in Servers, frame \in Unasked : SendUnasked(s, frame))
  <2>1. UNCHANGED <<pc, op, waiting>>
    BY <1>5 DEF PassOver, ForgetCache, ServerAnswers, Answer, SendUnasked, Die
  <2> QED BY <1>0, <2>1 DEF Errand
<1> QED
  BY <1>1, <1>2, <1>3, <1>4, <1>5, NextCases DEF ManagerStep, Rest

LEMMA NextRoutes == RouteInv /\ [Next]_vars => RouteInv'
<1> SUFFICES ASSUME RouteInv, [Next]_vars
             PROVE  /\ ~cached' => offered' = {}
                    /\ ~Discovering' => Routed(offered)'
                    /\ Discovering' => Found'
  BY NextTypeOK, NextErrand DEF RouteInv
<1> USE DEF vars, serverVars, managerVars, callVars
<1>0. /\ TypeOK /\ Errand' /\ Errand /\ todo \in Seq(Servers) /\ server \in Servers
      /\ found \subseteq Offers /\ (~cached => offered = {})
      /\ (~Discovering => Routed(offered)) /\ (Discovering => Found)
  BY NextErrand DEF RouteInv, TypeOK
<1>1. CASE BeginDiscovery
  <2>1. Discovering' /\ found' = {} /\ todo' = Order /\ pc' = "next" /\ UNCHANGED <<cached, offered>>
    BY <1>1 DEF BeginDiscovery, Discovering, Go
  <2>2. Found'
    BY <2>1, ServersAssumption DEF Found, Routed
  <2> QED BY <1>0, <2>1, <2>2
<1>2. CASE NextServer
  <2>1. /\ Discovering /\ Discovering' /\ Found /\ todo # <<>> /\ pc' = "ensure"
        /\ server' = Head(todo) /\ todo' = Tail(todo)
        /\ UNCHANGED <<cached, offered, index, found>>
    BY <1>0, <1>2 DEF NextServer, Discovering, Errand, Go
  <2>2. 1 \in DOMAIN todo /\ server' = todo[1]
    BY <1>0, <2>1
  <2>3. \A i \in DOMAIN todo' : i + 1 \in DOMAIN todo /\ todo'[i] = todo[i + 1] /\ i \in Nat \ {0}
    BY <1>0, <2>1, TailItems
  <2>4. ASSUME NEW i \in DOMAIN todo', NEW j \in DOMAIN todo', todo'[i] = todo'[j] PROVE i = j
    BY <2>1, <2>3, <2>4 DEF Found
  <2>5. ASSUME NEW i \in DOMAIN todo', todo'[i] = server' PROVE FALSE
    BY <2>1, <2>2, <2>3, <2>5 DEF Found
  <2>6. ASSUME NEW tool \in found, NEW i \in DOMAIN todo' PROVE todo'[i] # tool[1] /\ tool[1] # server'
    BY <2>1, <2>2, <2>3, <2>6 DEF Found
  <2>6a. \A tool \in found : tool[1] # server'
    BY <2>1, <2>2 DEF Found
  <2>7. Routed(found)'
    BY <2>1 DEF Found, Routed
  <2>8. Found'
    BY <2>1, <2>4, <2>5, <2>6, <2>6a, <2>7 DEF Found
  <2> QED BY <1>0, <2>1, <2>8
<1>3. CASE EndDiscovery
  <2>1. Discovering /\ ~Discovering' /\ Found /\ cached' /\ offered' = found /\ UNCHANGED index
    BY <1>0, <1>3 DEF EndDiscovery, Discovering, Errand, Go
  <2> QED BY <2>1 DEF Found, Routed
<1>4. ASSUME NEW name \in Names, BeginCall(name)
      PROVE  (~cached' => offered' = {}) /\ ~Discovering' /\ Routed(offered)'
  <2>1. ~Discovering /\ ~Discovering' /\ UNCHANGED <<cached, offered, index>>
    BY <1>4 DEF BeginCall, Discovering
  <2> QED BY <1>0, <2>1 DEF Routed
<1>5. CASE SpawnFails \/ SendFails \/ ReceiveError \/ ReceiveOther \/ HungUp \/ TimesOut
  <2>1. Abort /\ pc \notin {"idle", "closed", "left"} /\ (op = "call" => UNCHANGED index)
    BY <1>5 DEF SpawnFails, SendFails, RoutesAtRequest, ReceiveError, ReceiveOther, Receive, Read,
       HungUp, TimesOut
  <2> QED BY <2>1, AbortRoutes
<1>6. CASE Spawn \/ Ready \/ Initialized
  BY <1>0, <1>6, RoutesFrame DEF Spawn, Ready, Initialized, Receive, Read, Go
<1>7. CASE Send
  <2>1. /\ pc' = "await" /\ pc \in {"initialize", "request"} /\ (Discovering' <=> Discovering)
        /\ UNCHANGED <<cached, offered, op, todo, found, server, paging>>
        /\ index' = IF pc = "request" THEN RoutesAtRequest(server) ELSE index
    BY <1>7 DEF Send, Sent, Go, Discovering
  <2>2. CASE UNCHANGED index
    BY <1>0, <1>7, <2>1, <2>2, RoutesFrame
  <2>3. CASE op = "discover" /\ ~paging /\ index' = WithoutRoutesOf(server)
    <3>1. Discovering /\ Found /\ \A tool \in found : tool[1] # server
      BY <1>0, <2>1, <2>3 DEF Discovering, Found
    <3>2. Routed(found)'
      BY <2>1, <2>3, <3>1, RoutedElsewhere DEF Found, Routed
    <3>3. Found'
      BY <2>1, <3>1, <3>2 DEF Found
    <3> QED BY <1>0, <2>1, <3>1, <3>3
  <2> QED BY <2>1, <2>2, <2>3 DEF RoutesAtRequest
<1>8. CASE ReceiveTools
  <2> DEFINE listed == {server} \X Front.tools
             names  == {QualifiedName[t] : t \in listed}
  <2>1. /\ Discovering /\ Discovering' /\ Found /\ found' = found \cup listed
        /\ pc \notin {"idle", "closed", "next"}
        /\ pc' = (IF Front.more THEN "request" ELSE "next") /\ paging' = Front.more
        /\ UNCHANGED <<cached, offered, todo, server>>
    BY <1>0, <1>8 DEF ReceiveTools, Receive, Read, Discovering, Errand, Go
  <2>2. PICK route \in [names -> listed] :
            index' = [n \in DOMAIN index \cup names |-> IF n \in names THEN route[n] ELSE index[n]]
    BY <1>8 DEF ReceiveTools
  <2>3. \A tool \in listed : tool[1] = server /\ QualifiedName[tool] \in names
    OBVIOUS
  <2> HIDE DEF listed, names
  <2>4. Routed(found)'
    <3> SUFFICES ASSUME NEW tool \in found'
                 PROVE  QualifiedName[tool] \in DOMAIN index' /\ index'[QualifiedName[tool]] \in found'
      BY DEF Routed
    <3>1. QualifiedName[tool] \in names \/ (QualifiedName[tool] \in DOMAIN index
                                           /\ index[QualifiedName[tool]] \in found)
      BY <2>1, <2>3 DEF Found, Routed
    <3> QED BY <2>1, <2>2, <3>1
  <2>5. pc' # "next" => paging'
    BY <2>1
  <2>6. \A tool \in found' : \A i \in DOMAIN todo : todo[i] # tool[1]
    BY <2>1, <2>3 DEF Found
  <2>7. Found'
    BY <2>1, <2>4, <2>5, <2>6 DEF Found
  <2> QED BY <1>0, <2>1, <2>7
<1>9. CASE ReceiveCall
  <2>1. ~Discovering /\ ~Discovering' /\ UNCHANGED <<cached, offered, index>>
    BY <1>0, <1>9 DEF ReceiveCall, Receive, Read, Errand, Discovering, Go
  <2> QED BY <1>0, <2>1 DEF Routed
<1>10. CASE ForgetCache
  <2>1. offered' = {} /\ ~Discovering'
    BY <1>10 DEF ForgetCache, Discovering
  <2> QED BY <2>1 DEF Routed
<1>11. CASE Shutdown \/ Leave
  <2>1. ~Discovering /\ ~Discovering' /\ UNCHANGED <<cached, offered, index>>
    BY <1>11 DEF Shutdown, Leave, Drop, Discovering, Go
  <2> QED BY <1>0, <2>1 DEF Routed
<1>12. CASE \/ PassOver \/ (\E s \in Servers : ServerAnswers(s) \/ Die(s)) \/ UNCHANGED vars
            \/ (\E s \in Servers, frame \in Unasked : SendUnasked(s, frame))
  <2>1. UNCHANGED <<index, cached, offered, op, todo, found, server, paging, pc>>
    BY <1>12 DEF PassOver, Read, ServerAnswers, Answer, SendUnasked, Die
  <2>2. (Discovering' <=> Discovering) /\ (Found' <=> Found) /\ (Routed(offered)' <=> Routed(offered))
    BY <2>1 DEF Discovering, Found, Routed
  <2> QED BY <1>0, <2>1, <2>2
<1> QED
  BY <1>1, <1>2, <1>3, <1>4, <1>5, <1>6, <1>7, <1>8, <1>9, <1>10, <1>11, <1>12, NextCases
  DEF ManagerStep, Rest

(* A tool the model is offered has a route, under its name, to a tool that *)
(* is offered: also when servers share names, when a later discovery finds *)
(* other tools, and when one breaks off.                                   *)
THEOREM OffersAreRouted == Spec => []OfferedToolsAreRouted
<1>1. RouteInv => OfferedToolsAreRouted
  BY DEF RouteInv, Discovering, Routed, OfferedToolsAreRouted
<1> QED BY <1>1, InitRoutes, NextRoutes, PTL DEF Spec
=============================================================================
