-------------------------- MODULE DesktopChatProofs --------------------------
(* Theorems about DesktopChat, for any tasks, modes, streams and bounds. *)
EXTENDS DesktopChat, FiniteSetTheorems, TLAPS

(***************************************************************************)
(* Type correctness.                                                       *)
(***************************************************************************)

LEMMA Bounds == {MaxTasks, MaxRuns, MaxCalls, MaxEdits} \subseteq Nat
BY LimitsAssumption

LEMMA UnusedType == Unused \in Run
<1>1. 0 \in 0 .. MaxTasks /\ 0 \in Nat
  BY Bounds
<1>2. <<>> \in Seq({"text", "done", "failed"})
  OBVIOUS
<1>3. <<>> \in Seq(Runs \X Nat)
  OBVIOUS
<1> QED BY <1>1, <1>2, <1>3 DEF Unused, Run

(* The queue, as a task leaves it.                                         *)
LEMMA RemovedType ==
    ASSUME NEW q \in Seq(Tasks), NEW i \in DOMAIN q
    PROVE  /\ RemoveAt(q, i) \in Seq(Tasks)
           /\ Len(RemoveAt(q, i)) = Len(q) - 1
           /\ \A j \in DOMAIN RemoveAt(q, i) : RemoveAt(q, i)[j] = q[IF j < i THEN j ELSE j + 1]
<1> DEFINE a == SubSeq(q, 1, i - 1)
           b == SubSeq(q, i + 1, Len(q))
<1>1. i \in 1 .. Len(q) /\ Len(q) \in Nat /\ i \in Nat
  OBVIOUS
<1>2. a \in Seq(Tasks) /\ Len(a) = i - 1 /\ \A j \in 1 .. i - 1 : a[j] = q[j]
  BY <1>1
<1>3. b \in Seq(Tasks) /\ Len(b) = Len(q) - i /\ \A j \in 1 .. Len(q) - i : b[j] = q[i + j]
  BY <1>1
<1> HIDE DEF a, b
<1>4. RemoveAt(q, i) = a \o b
  BY DEF RemoveAt, a, b
<1>5. a \o b \in Seq(Tasks) /\ Len(a \o b) = Len(q) - 1
  BY <1>1, <1>2, <1>3
<1>6. ASSUME NEW j \in DOMAIN (a \o b)
      PROVE  (a \o b)[j] = q[IF j < i THEN j ELSE j + 1]
  <2>1. j \in 1 .. Len(q) - 1 /\ j \in Nat
    BY <1>5, <1>1
  <2>2. CASE j < i
    BY <1>1, <1>2, <1>3, <2>1, <2>2
  <2>3. CASE ~(j < i)
    <3>1. j - Len(a) \in 1 .. Len(q) - i /\ i + (j - Len(a)) = j + 1
      BY <1>1, <1>2, <2>1, <2>3
    <3>2. (a \o b)[j] = b[j - Len(a)]
      BY <1>1, <1>2, <1>3, <2>1, <2>3
    <3> QED BY <1>3, <2>3, <3>1, <3>2
  <2> QED BY <2>2, <2>3
<1> QED BY <1>4, <1>5, <1>6

LEMMA WithoutType ==
    ASSUME queue \in Seq(Tasks), NEW t
    PROVE  Without(t) \in Seq(Tasks)
<1>1. CASE t \in Range(queue)
  <2>1. (CHOOSE i \in DOMAIN queue : queue[i] = t) \in DOMAIN queue
    BY <1>1 DEF Range
  <2> QED BY <1>1, <2>1, RemovedType DEF Without
<1> QED BY <1>1 DEF Without

LEMMA HeadTailType ==
    ASSUME NEW q \in Seq(Tasks), q # <<>>
    PROVE  /\ Head(q) \in Tasks /\ Head(q) = q[1] /\ Tail(q) \in Seq(Tasks)
           /\ Len(q) \in Nat \ {0} /\ Len(Tail(q)) = Len(q) - 1
           /\ \A j \in DOMAIN Tail(q) : Tail(q)[j] = q[j + 1]
OBVIOUS

LEMMA ExecuteType ==
    ASSUME TypeOK, NEW t \in Tasks, NEW r \in [Runs -> Run], NEW c \in Runs \cup {NoRun},
           Execute(t, r, c)
    PROVE  /\ run' \in [Runs -> Run] /\ used' \in 0 .. MaxRuns /\ isStreaming' \in BOOLEAN
           /\ controller' \in Runs \cup {NoRun}
<1>1. used + 1 \in Runs /\ used + 1 \in 0 .. MaxRuns
  BY Bounds DEF TypeOK, Execute, Runs
<1>3. TRUE \in BOOLEAN
  OBVIOUS
<1>2. \A stage \in {"shell", "sending"}, back \in {"streams", "called"} :
          [Unused EXCEPT !.task = t, !.stage = stage, !.back = back] \in Run
  <2>1. t \in 0 .. MaxTasks
    BY Bounds DEF Tasks
  <2> QED BY <2>1, UnusedType DEF Run
<1> QED BY <1>1, <1>2 DEF Execute

LEMMA ProcessType ==
    ASSUME TypeOK, NEW r \in [Runs -> Run], NEW c \in Runs \cup {NoRun}, ProcessChatQueue(r, c)
    PROVE  /\ run' \in [Runs -> Run] /\ used' \in 0 .. MaxRuns /\ isStreaming' \in BOOLEAN
           /\ controller' \in Runs \cup {NoRun} /\ queue' \in Seq(Tasks)
<1>1. CASE queue # <<>> /\ Head(queue) \notin editing
  <2>0. queue \in Seq(Tasks) /\ queue # <<>> /\ queue' = Tail(queue)
    BY <1>1 DEF TypeOK, ProcessChatQueue, Dequeue
  <2>1. Head(queue) \in Tasks /\ queue' \in Seq(Tasks)
    BY <2>0, HeadTailType
  <2> QED BY <1>1, <2>1, ExecuteType DEF ProcessChatQueue
<1> QED BY <1>1 DEF ProcessChatQueue, TypeOK

LEMMA InitTypeOK == Init => TypeOK
<1> SUFFICES ASSUME Init PROVE TypeOK
  OBVIOUS
<1>1. run \in [Runs -> Run]
  BY UnusedType DEF Init
<1>2. used \in 0 .. MaxRuns /\ submitted \in 0 .. MaxTasks
  BY Bounds DEF Init
<1>3. kind \in [Tasks -> Kind]
  BY DEF Init
<1>4. shown \in [streaming : BOOLEAN, queue : Seq(Tasks)]
  BY DEF Init
<1> QED BY <1>1, <1>2, <1>3, <1>4 DEF Init, TypeOK

(* What a step does to the fields of one run keeps their types.            *)
LEMMA UpdateType ==
    ASSUME NEW r \in [Runs -> Run], NEW k \in Runs, NEW b \in Run
    PROVE  [r EXCEPT ![k] = b] \in [Runs -> Run]
OBVIOUS

Message == {"none", "empty", "text", "error", "output", "stopped"}

LEMMA FieldTypes ==
    ASSUME NEW r \in [Runs -> Run], NEW k \in Runs
    PROVE  /\ \A stage \in {"bound", "over"} : [r EXCEPT ![k].stage = stage] \in [Runs -> Run]
           /\ [r EXCEPT ![k].aborted = TRUE] \in [Runs -> Run]
           /\ [r EXCEPT ![k].cancel = TRUE] \in [Runs -> Run]
           /\ \A how \in Message : [r EXCEPT ![k].message = how] \in [Runs -> Run]
           /\ \A stage \in {"bound", "over"}, how \in Message :
                 [r EXCEPT ![k].stage = stage, ![k].message = how] \in [Runs -> Run]
           /\ \A how \in Message :
                 [r EXCEPT ![k].stage = "over", ![k].message = how, ![k].aborted = FALSE]
                 \in [Runs -> Run]
           /\ r[k].message \in Message
<1> DEFINE b == r[k]
<1>1. b \in Run
  OBVIOUS
<1> HIDE DEF b
<1>2. \A stage \in {"bound", "over"} : [b EXCEPT !.stage = stage] \in Run
  BY <1>1 DEF Run
<1>3. [b EXCEPT !.aborted = TRUE] \in Run
  BY <1>1 DEF Run
<1>4. [b EXCEPT !.cancel = TRUE] \in Run
  BY <1>1 DEF Run
<1>5. \A how \in Message : [b EXCEPT !.message = how] \in Run
  BY <1>1 DEF Run, Message
<1>6. \A stage \in {"bound", "over"}, how \in Message :
          [b EXCEPT !.stage = stage, !.message = how] \in Run
  BY <1>1 DEF Run, Message
<1>7. b.message \in Message
  BY <1>1 DEF Run, Message
<1>8. \A stage \in {"bound", "over"}, how \in Message :
          [r EXCEPT ![k].stage = stage, ![k].message = how]
          = [r EXCEPT ![k] = [r[k] EXCEPT !.stage = stage, !.message = how]]
  OBVIOUS
<1>9. \A how \in Message : [b EXCEPT !.stage = "over", !.message = how, !.aborted = FALSE] \in Run
  BY <1>1 DEF Run, Message
<1>10. \A how \in Message :
          [r EXCEPT ![k].stage = "over", ![k].message = how, ![k].aborted = FALSE]
          = [r EXCEPT ![k] = [r[k] EXCEPT !.stage = "over", !.message = how, !.aborted = FALSE]]
  OBVIOUS
<1> QED BY <1>2, <1>3, <1>4, <1>5, <1>6, <1>7, <1>8, <1>9, <1>10, UpdateType DEF b

LEMMA UnboundType ==
    ASSUME TypeOK, NEW r \in [Runs -> Run]
    PROVE  Unbound(r) \in [Runs -> Run]
BY FieldTypes DEF TypeOK, Unbound, NoRun

LEMMA StoppedType ==
    ASSUME TypeOK
    PROVE  Flagged(Aborted(run)) \in [Runs -> Run]
<1>1. Aborted(run) \in [Runs -> Run]
  BY FieldTypes DEF TypeOK, Aborted, NoRun
<1> QED BY <1>1, FieldTypes DEF TypeOK, Flagged, NoRun

Event == {"text", "done", "failed"}

LEMMA SaidType ==
    ASSUME NEW b \in Run, NEW events \in Seq(Event)
    PROVE  Said(b, events) \in Run
<1>1. b.events \o events \in Seq(Event)
  BY DEF Run, Event
<1> QED BY <1>1 DEF Said, Run, Event

LEMMA EndedType ==
    ASSUME NEW b \in Run, NEW how \in {"done", "failed"}
    PROVE  Ended(b, how) \in Run
<1>1. Said(b, <<how>>) \in Run
  <2>1. <<how>> \in Seq(Event)
    BY DEF Event
  <2> QED BY <2>1, SaidType
<1> QED BY <1>1 DEF Ended, Run

LEMMA RenderedType ==
    ASSUME isStreaming' \in BOOLEAN, queue' \in Seq(Tasks), Rendered
    PROVE  shown' \in [streaming : BOOLEAN, queue : Seq(Tasks)]
BY DEF Rendered

(* The runs when a shell has ended, when an event was taken from its way,   *)
(* and when the text it brought is shown.                                  *)
Left(k, how) == [run EXCEPT ![k].stage = "over", ![k].message = how, ![k].aborted = FALSE]

TakenFrom(k) ==
    [run EXCEPT ![k].events = Tail(@),
                ![k].heard = IF Head(run[k].events) = "text" THEN @ + 1 ELSE @]

Shows(k) ==
    [TakenFrom(k) EXCEPT ![k].message = "text",
                         ![k].words = Append(@, <<k, TakenFrom(k)[k].heard>>)]

LEMMA ShellEndsIs ==
    ASSUME NEW k \in Runs, ShellEnds(k)
    PROVE  \E how \in {"output", "stopped"} :
              /\ ProcessChatQueue(Left(k, how), NoRun)
              /\ how = "stopped" \/ run[k].back = "ended"
BY DEF ShellEnds, Left

LEMMA LeftIs ==
    ASSUME TypeOK, NEW k \in Runs, NEW how \in Message
    PROVE  /\ Left(k, how) \in [Runs -> Run] /\ \A j \in Runs : j # k => Left(k, how)[j] = run[j]
           /\ Left(k, how)[k].stage = "over" /\ Left(k, how)[k].message = how
           /\ Left(k, how)[k].task = run[k].task /\ Left(k, how)[k].back = run[k].back
           /\ Left(k, how)[k].events = run[k].events /\ Left(k, how)[k].words = run[k].words
<1>1. run \in [Runs -> Run] /\ run[k] \in Run
  BY DEF TypeOK
<1>2. Left(k, how) \in [Runs -> Run]
  BY <1>1, FieldTypes DEF Left
<1> QED BY <1>1, <1>2 DEF Left, Run

(* A run of which an event was taken.                                      *)
Lost(b) ==
    [b EXCEPT !.events = Tail(@), !.heard = IF Head(b.events) = "text" THEN @ + 1 ELSE @]

LEMMA LostIs ==
    ASSUME NEW b \in Run, b.events # <<>>
    PROVE  /\ Lost(b) \in Run /\ Lost(b).events = Tail(b.events)
           /\ Lost(b).heard = IF Head(b.events) = "text" THEN b.heard + 1 ELSE b.heard
           /\ Lost(b).stage = b.stage /\ Lost(b).back = b.back /\ Lost(b).task = b.task
           /\ Lost(b).message = b.message /\ Lost(b).words = b.words
<1> DEFINE e == Tail(b.events)
           n == IF Head(b.events) = "text" THEN b.heard + 1 ELSE b.heard
           d == [b EXCEPT !.events = e, !.heard = n]
<1>1. b.events \in Seq(Event) /\ b.heard \in Nat
  BY DEF Run, Event
<1>2. e \in Seq(Event) /\ n \in Nat
  BY <1>1
<1>3. Lost(b) = d
  BY DEF Lost
<1> HIDE DEF e, n
<1>4. /\ d \in Run /\ d.events = e /\ d.heard = n /\ d.stage = b.stage /\ d.back = b.back
      /\ d.task = b.task /\ d.message = b.message /\ d.words = b.words
  BY <1>2 DEF Run, Event
<1> QED BY <1>3, <1>4 DEF e, n

LEMMA TakenIs ==
    ASSUME TypeOK, NEW k \in Runs, run[k].events # <<>>
    PROVE  /\ TakenFrom(k) \in [Runs -> Run] /\ TakenFrom(k)[k] = Lost(run[k])
           /\ \A j \in Runs : j # k => TakenFrom(k)[j] = run[j]
           /\ \A j \in Runs :
                 /\ TakenFrom(k)[j].stage = run[j].stage /\ TakenFrom(k)[j].back = run[j].back
                 /\ TakenFrom(k)[j].task = run[j].task
                 /\ TakenFrom(k)[j].message = run[j].message
<1>1. run \in [Runs -> Run] /\ run[k] \in Run
  BY DEF TypeOK
<1>2. TakenFrom(k) = [run EXCEPT ![k] = Lost(run[k])]
  BY <1>1 DEF TakenFrom, Lost
<1>3. Lost(run[k]) \in Run
  BY <1>1, LostIs
<1>4. /\ Lost(run[k]).stage = run[k].stage /\ Lost(run[k]).back = run[k].back
      /\ Lost(run[k]).task = run[k].task /\ Lost(run[k]).message = run[k].message
  BY <1>1, LostIs
<1>5. TakenFrom(k) \in [Runs -> Run]
  BY <1>1, <1>2, <1>3
<1>6. \A j \in Runs : TakenFrom(k)[j] = IF j = k THEN Lost(run[k]) ELSE run[j]
  BY <1>1, <1>2
<1> QED BY <1>4, <1>5, <1>6

LEMMA ShowsIs ==
    ASSUME TypeOK, NEW k \in Runs, run[k].events # <<>>, Head(run[k].events) = "text"
    PROVE  /\ Shows(k) \in [Runs -> Run] /\ \A j \in Runs : j # k => Shows(k)[j] = run[j]
           /\ Shows(k)[k].stage = run[k].stage /\ Shows(k)[k].back = run[k].back
           /\ Shows(k)[k].task = run[k].task /\ Shows(k)[k].events = Tail(run[k].events)
           /\ Shows(k)[k].heard = run[k].heard + 1
           /\ Shows(k)[k].words = Append(run[k].words, <<k, run[k].heard + 1>>)
<1> DEFINE d == Lost(run[k])
           w == Append(d.words, <<k, d.heard>>)
           b == [d EXCEPT !.message = "text", !.words = w]
<1>1. run \in [Runs -> Run] /\ run[k] \in Run
  BY DEF TypeOK
<1>2. /\ d \in Run /\ d.events = Tail(run[k].events) /\ d.heard = run[k].heard + 1
      /\ d.stage = run[k].stage /\ d.back = run[k].back /\ d.task = run[k].task
      /\ d.words = run[k].words
  BY <1>1, LostIs
<1>3. /\ TakenFrom(k) \in [Runs -> Run] /\ TakenFrom(k)[k] = d
      /\ \A j \in Runs : j # k => TakenFrom(k)[j] = run[j]
  BY TakenIs
<1> HIDE DEF d
<1>4. w \in Seq(Runs \X Nat)
  <2>1. d.words \in Seq(Runs \X Nat) /\ d.heard \in Nat
    BY <1>2 DEF Run
  <2>2. <<k, d.heard>> \in Runs \X Nat
    BY <2>1
  <2> QED BY <2>1, <2>2
<1>5. Shows(k) = [TakenFrom(k) EXCEPT ![k] = b]
  BY <1>3 DEF Shows
<1>6. w = Append(run[k].words, <<k, run[k].heard + 1>>)
  BY <1>2
<1> HIDE DEF w
<1>7. /\ b \in Run /\ b.stage = d.stage /\ b.back = d.back /\ b.task = d.task
      /\ b.events = d.events /\ b.heard = d.heard /\ b.words = w
  BY <1>2, <1>4 DEF Run
<1> HIDE DEF b
<1>8. Shows(k) \in [Runs -> Run] /\ Shows(k)[k] = b /\ \A j \in Runs : j # k => Shows(k)[j] = run[j]
  BY <1>3, <1>5, <1>7
<1> QED BY <1>2, <1>6, <1>7, <1>8

LEMMA ReceiveIs ==
    ASSUME NEW k \in Runs, Receive(k)
    PROVE  /\ run[k].events # <<>>
           /\ UNCHANGED <<kind, submitted, editing, shown, edits, history>>
           /\ ~IsBound(k) =>
                 run' = TakenFrom(k) /\ UNCHANGED <<used, queue, isStreaming, binding, controller>>
           /\ IsBound(k) /\ Head(run[k].events) = "text" =>
                 run' = Shows(k) /\ UNCHANGED <<used, queue, isStreaming, binding, controller>>
           /\ IsBound(k) /\ Head(run[k].events) # "text" =>
                 /\ binding' = NoRun
                 /\ ProcessChatQueue([Unbound(TakenFrom(k)) EXCEPT ![k].message =
                        IF Head(run[k].events) = "failed" THEN "text"
                        ELSE Unbound(TakenFrom(k))[k].message], controller)
<1>1. run[k].events # <<>> /\ UNCHANGED <<kind, submitted, editing, shown, edits, history>>
  BY DEF Receive
<1>2. ASSUME ~IsBound(k)
      PROVE  run' = TakenFrom(k) /\ UNCHANGED <<used, queue, isStreaming, binding, controller>>
  BY <1>2 DEF Receive, TakenFrom
<1>3. ASSUME IsBound(k), Head(run[k].events) = "text"
      PROVE  run' = Shows(k) /\ UNCHANGED <<used, queue, isStreaming, binding, controller>>
  BY <1>3 DEF Receive, TakenFrom, Shows, IsBound
<1>4. ASSUME IsBound(k), Head(run[k].events) # "text"
      PROVE  /\ binding' = NoRun
             /\ ProcessChatQueue([Unbound(TakenFrom(k)) EXCEPT ![k].message =
                    IF Head(run[k].events) = "failed" THEN "text"
                    ELSE Unbound(TakenFrom(k))[k].message], controller)
  BY <1>4 DEF Receive, TakenFrom, IsBound
<1> QED BY <1>1, <1>2, <1>3, <1>4

(* The steps of the interface that handle a run.                           *)
LEMMA RunStepsType ==
    ASSUME TypeOK, NEW k \in Runs,
           ShellEnds(k) \/ SendReturns(k) \/ SendFails(k) \/ Receive(k) \/ TimerFires(k)
    PROVE  TypeOK'
<1>0. run \in [Runs -> Run] /\ NoRun \in Runs \cup {NoRun} /\ controller \in Runs \cup {NoRun}
  BY DEF TypeOK
<1>1. CASE ShellEnds(k)
  <2>1. PICK how \in Message : ProcessChatQueue(Left(k, how), NoRun)
    BY <1>1, ShellEndsIs DEF Message
  <2>2. Left(k, how) \in [Runs -> Run]
    BY LeftIs
  <2>3. /\ run' \in [Runs -> Run] /\ used' \in 0 .. MaxRuns /\ isStreaming' \in BOOLEAN
        /\ controller' \in Runs \cup {NoRun} /\ queue' \in Seq(Tasks)
    BY <1>0, <2>1, <2>2, ProcessType
  <2> QED BY <1>1, <2>3 DEF TypeOK, ShellEnds, history
<1>2. CASE SendReturns(k)
  <2>1. run' \in [Runs -> Run]
    BY <1>0, <1>2, FieldTypes DEF SendReturns, Message
  <2> QED BY <1>2, <2>1 DEF TypeOK, SendReturns, history
<1>3. CASE SendFails(k)
  <2>1. Unbound(run) \in [Runs -> Run]
    BY <1>0, UnboundType
  <2>2. [Unbound(run) EXCEPT ![k].stage = "over", ![k].message = "error"] \in [Runs -> Run]
    BY <2>1, FieldTypes DEF Message
  <2>3. ProcessChatQueue([Unbound(run) EXCEPT ![k].stage = "over", ![k].message = "error"],
                         controller)
    BY <1>3 DEF SendFails
  <2>4. /\ run' \in [Runs -> Run] /\ used' \in 0 .. MaxRuns /\ isStreaming' \in BOOLEAN
        /\ controller' \in Runs \cup {NoRun} /\ queue' \in Seq(Tasks)
    BY <1>0, <2>2, <2>3, ProcessType
  <2> QED BY <1>3, <2>4 DEF TypeOK, SendFails, history
<1>4. CASE Receive(k)
  <2> DEFINE taken == TakenFrom(k)
  <2>1. taken \in [Runs -> Run]
    <3>1. run[k].events # <<>>
      BY <1>4, ReceiveIs
    <3> QED BY <3>1, TakenIs
  <2>2. Unbound(taken) \in [Runs -> Run]
    BY <2>1, UnboundType
  <2> HIDE DEF taken
  <2>3. CASE ~IsBound(k)
    <3>1. /\ run' = taken
          /\ UNCHANGED <<used, queue, isStreaming, binding, controller>>
          /\ UNCHANGED <<kind, submitted, editing, shown, edits, history>>
      BY <1>4, <2>3, ReceiveIs DEF taken
    <3> QED BY <2>1, <3>1 DEF TypeOK, history
  <2>4. CASE IsBound(k)
    <3>1. binding = k
      BY <2>4 DEF IsBound
    <3>2. CASE Head(run[k].events) = "text"
      <4>1. run' = Shows(k) /\ run[k].events # <<>>
        BY <1>4, <2>4, <3>2, ReceiveIs
      <4>2. run' \in [Runs -> Run]
        BY <3>2, <4>1, ShowsIs
      <4>3. /\ UNCHANGED <<used, queue, isStreaming, binding, controller>>
            /\ UNCHANGED <<kind, submitted, editing, shown, edits, history>>
        BY <1>4, <2>4, <3>2, ReceiveIs
      <4> QED BY <4>2, <4>3 DEF TypeOK, history
    <3>3. CASE Head(run[k].events) # "text"
      <4>1. PICK how \in Message :
                ProcessChatQueue([Unbound(taken) EXCEPT ![k].message = how], controller)
        <5>1. ProcessChatQueue([Unbound(taken) EXCEPT ![k].message =
                  IF Head(run[k].events) = "failed" THEN "text" ELSE Unbound(taken)[k].message],
                  controller)
          BY <1>4, <2>4, <3>3, ReceiveIs DEF taken
        <5>2. Unbound(taken)[k].message \in Message /\ "text" \in Message
          BY <2>2, FieldTypes DEF Message
        <5> QED BY <5>1, <5>2
      <4>2. [Unbound(taken) EXCEPT ![k].message = how] \in [Runs -> Run]
        BY <2>2, FieldTypes
      <4>3. /\ run' \in [Runs -> Run] /\ used' \in 0 .. MaxRuns /\ isStreaming' \in BOOLEAN
            /\ controller' \in Runs \cup {NoRun} /\ queue' \in Seq(Tasks)
        BY <1>0, <4>1, <4>2, ProcessType
      <4>4. binding' = NoRun /\ UNCHANGED <<kind, submitted, editing, shown, edits, history>>
        BY <1>4, <2>4, <3>3, ReceiveIs
      <4> QED BY <1>0, <4>3, <4>4 DEF TypeOK, history
    <3> QED BY <3>2, <3>3
  <2> QED BY <2>3, <2>4
<1>5. CASE TimerFires(k)
  <2>1. Unbound(run) \in [Runs -> Run]
    BY <1>0, UnboundType
  <2>2. PICK how \in Message :
            ProcessChatQueue([Unbound(run) EXCEPT ![k].message = how], controller)
    <3>1. ProcessChatQueue([Unbound(run) EXCEPT ![k].message =
              IF Unbound(run)[k].message = "empty" THEN "error" ELSE Unbound(run)[k].message],
              controller)
      BY <1>5 DEF TimerFires
    <3>2. Unbound(run)[k].message \in Message /\ "error" \in Message
      BY <2>1, FieldTypes DEF Message
    <3> QED BY <3>1, <3>2
  <2>3. [Unbound(run) EXCEPT ![k].message = how] \in [Runs -> Run]
    BY <2>1, FieldTypes
  <2>4. /\ run' \in [Runs -> Run] /\ used' \in 0 .. MaxRuns /\ isStreaming' \in BOOLEAN
        /\ controller' \in Runs \cup {NoRun} /\ queue' \in Seq(Tasks)
    BY <1>0, <2>2, <2>3, ProcessType
  <2> QED BY <1>5, <2>4 DEF TypeOK, TimerFires
<1> QED BY <1>1, <1>2, <1>3, <1>4, <1>5

(* The steps of the user, and the render after them.                       *)
LEMMA UserStepsType ==
    ASSUME TypeOK, User \/ Render
    PROVE  TypeOK'
<1>0. /\ run \in [Runs -> Run] /\ NoRun \in Runs \cup {NoRun} /\ queue \in Seq(Tasks)
      /\ controller \in Runs \cup {NoRun} /\ isStreaming \in BOOLEAN
  BY DEF TypeOK
<1>1. CASE Submit
  <2>1. submitted + 1 \in Tasks /\ submitted' \in 0 .. MaxTasks
    BY <1>1, Bounds DEF Submit, TypeOK, Tasks
  <2>2. CASE shown.streaming
    <3>1. queue' = Append(queue, submitted + 1) /\ UNCHANGED <<run, used, isStreaming, binding, controller>>
      BY <1>1, <2>2 DEF Submit
    <3>2. queue' \in Seq(Tasks)
      BY <1>0, <2>1, <3>1
    <3>3. shown' \in [streaming : BOOLEAN, queue : Seq(Tasks)]
      BY <1>0, <1>1, <3>1, <3>2, RenderedType DEF Submit
    <3> QED BY <1>1, <2>1, <3>1, <3>2, <3>3 DEF TypeOK, Submit, history
  <2>3. CASE ~shown.streaming
    <3>1. Execute(submitted + 1, run, controller) /\ UNCHANGED <<queue, binding>>
      BY <1>1, <2>3 DEF Submit
    <3>2. /\ run' \in [Runs -> Run] /\ used' \in 0 .. MaxRuns /\ isStreaming' \in BOOLEAN
          /\ controller' \in Runs \cup {NoRun}
      BY <1>0, <2>1, <3>1, ExecuteType
    <3>3. shown' \in [streaming : BOOLEAN, queue : Seq(Tasks)]
      BY <1>0, <1>1, <3>1, <3>2, RenderedType DEF Submit
    <3> QED BY <1>1, <2>1, <3>1, <3>2, <3>3 DEF TypeOK, Submit, history
  <2> QED BY <2>2, <2>3
<1>2. CASE Stop
  <2>1. run' \in [Runs -> Run]
    BY <1>2, StoppedType DEF Stop
  <2>2. shown' \in [streaming : BOOLEAN, queue : Seq(Tasks)]
    BY <1>0, <1>2, RenderedType DEF Stop
  <2> QED BY <1>2, <2>1, <2>2 DEF TypeOK, Stop, history
<1>3. ASSUME NEW t \in Tasks, ForceExecute(t) PROVE TypeOK'
  <2>1. Unbound(Flagged(Aborted(run))) \in [Runs -> Run]
    BY StoppedType, UnboundType
  <2>2. Execute(t, Unbound(Flagged(Aborted(run))), controller)
    BY <1>3 DEF ForceExecute
  <2>3. /\ run' \in [Runs -> Run] /\ used' \in 0 .. MaxRuns /\ isStreaming' \in BOOLEAN
        /\ controller' \in Runs \cup {NoRun}
    BY <1>0, <2>1, <2>2, ExecuteType
  <2>4. queue' \in Seq(Tasks)
    BY <1>0, <1>3, WithoutType DEF ForceExecute
  <2>5. shown' \in [streaming : BOOLEAN, queue : Seq(Tasks)]
    BY <1>3, <2>3, <2>4, RenderedType DEF ForceExecute
  <2>6. stale' \subseteq Tasks /\ binding' = NoRun /\ forced' = TRUE
    BY <1>3 DEF ForceExecute, TypeOK
  <2>7. UNCHANGED <<kind, submitted, editing, edits, cancelled>>
    BY <1>3 DEF ForceExecute
  <2> QED BY <2>3, <2>4, <2>5, <2>6, <2>7 DEF TypeOK
<1>4. ASSUME NEW t \in Tasks, Cancel(t) PROVE TypeOK'
  <2>1. queue' \in Seq(Tasks)
    BY <1>0, <1>4, WithoutType DEF Cancel
  <2>2. shown' \in [streaming : BOOLEAN, queue : Seq(Tasks)]
    BY <1>0, <1>4, <2>1, RenderedType DEF Cancel
  <2> QED BY <1>4, <2>1, <2>2 DEF TypeOK, Cancel
<1>5. CASE CancelAll
  <2>1. queue' \in Seq(Tasks) /\ Range(queue) \subseteq Tasks
    BY <1>0, <1>5 DEF CancelAll, Range
  <2>2. shown' \in [streaming : BOOLEAN, queue : Seq(Tasks)]
    BY <1>0, <1>5, <2>1, RenderedType DEF CancelAll
  <2> QED BY <1>5, <2>1, <2>2 DEF TypeOK, CancelAll
<1>6. ASSUME NEW t \in Tasks, StartEdit(t) PROVE TypeOK'
  <2>1. queue' = queue /\ isStreaming' = isStreaming
    BY <1>6 DEF StartEdit, ui
  <2>2. shown' \in [streaming : BOOLEAN, queue : Seq(Tasks)]
    BY <1>0, <1>6, <2>1, RenderedType DEF StartEdit
  <2> QED BY <1>6, <2>2 DEF TypeOK, StartEdit, ui, history
<1>7. ASSUME NEW t \in Tasks, EndEdit(t) PROVE TypeOK'
  <2>1. queue' = queue /\ isStreaming' = isStreaming
    BY <1>7 DEF EndEdit, ui
  <2>2. shown' \in [streaming : BOOLEAN, queue : Seq(Tasks)]
    BY <1>0, <1>7, <2>1, RenderedType DEF EndEdit
  <2> QED BY <1>7, <2>2 DEF TypeOK, EndEdit, ui, history
<1>8. ASSUME NEW t \in Tasks, MoveUp(t) PROVE TypeOK'
  <2>1. queue' \in Seq(Tasks)
    <3>1. PICK i \in 2 .. Len(queue) : queue' = [queue EXCEPT ![i] = queue[i - 1], ![i - 1] = t]
      BY <1>8 DEF MoveUp
    <3>2. i \in 1 .. Len(queue) /\ i - 1 \in 1 .. Len(queue) /\ queue[i - 1] \in Tasks
      BY <1>0, <3>1
    <3> QED BY <1>0, <3>1, <3>2
  <2>2. shown' \in [streaming : BOOLEAN, queue : Seq(Tasks)]
    BY <1>0, <1>8, <2>1, RenderedType DEF MoveUp
  <2> QED BY <1>8, <2>1, <2>2 DEF TypeOK, MoveUp, history
<1>9. CASE Render
  <2>1. queue' = queue /\ isStreaming' = isStreaming
    BY <1>9 DEF Render, ui
  <2>2. shown' \in [streaming : BOOLEAN, queue : Seq(Tasks)]
    BY <1>0, <1>9, <2>1, RenderedType DEF Render
  <2> QED BY <1>9, <2>2 DEF TypeOK, Render, ui, history
<1> QED BY <1>1, <1>2, <1>3, <1>4, <1>5, <1>6, <1>7, <1>8, <1>9 DEF User

LEMMA BackendType ==
    ASSUME TypeOK, NEW k \in Runs, NEW b \in Run, Backend(k, b)
    PROVE  TypeOK'
BY UpdateType DEF TypeOK, Backend, history

(* What a stream does next: it goes on from where it was, and what it adds  *)
(* to its events is a text, or its end.                                    *)
Lively == {"called", "streams", "asks", "holds"}

Grows(c, b) ==
    /\ c.back \in Lively
    /\ b.stage = c.stage /\ b.task = c.task /\ b.message = c.message
    /\ b.heard = c.heard /\ b.words = c.words
    /\ \A i \in DOMAIN b.events :
          \/ i \in DOMAIN c.events /\ b.events[i] = c.events[i]
          \/ b.events[i] = "text" \/ b.back = "ended"

LEMMA GrowsOn ==
    ASSUME NEW c \in Run, NEW d \in Run, NEW b \in Run, Grows(c, d), Grows(d, b)
    PROVE  Grows(c, b)
<1>1. ASSUME NEW i \in DOMAIN b.events
      PROVE  \/ i \in DOMAIN c.events /\ b.events[i] = c.events[i]
             \/ b.events[i] = "text" \/ b.back = "ended"
  <2>1. CASE i \in DOMAIN d.events /\ b.events[i] = d.events[i]
    BY <2>1 DEF Grows, Lively
  <2> QED BY <2>1 DEF Grows
<1> QED BY <1>1 DEF Grows

LEMMA SameEventsGrow ==
    ASSUME NEW c \in Run, NEW b \in Run, c.back \in Lively, b.stage = c.stage, b.task = c.task,
           b.message = c.message, b.heard = c.heard, b.words = c.words, b.events = c.events
    PROVE  Grows(c, b)
BY DEF Grows

LEMMA TextGrows ==
    ASSUME NEW c \in Run, NEW b \in Run, c.back \in Lively, b.stage = c.stage, b.task = c.task,
           b.message = c.message, b.heard = c.heard, b.words = c.words,
           b.events = c.events \o <<"text">>
    PROVE  Grows(c, b)
<1>1. c.events \in Seq(Event)
  BY DEF Run, Event
<1>2. ASSUME NEW i \in DOMAIN b.events
      PROVE  (i \in DOMAIN c.events /\ b.events[i] = c.events[i]) \/ b.events[i] = "text"
  BY <1>1
<1> QED BY <1>1, <1>2 DEF Grows

LEMMA EndGrows ==
    ASSUME NEW c \in Run, c.back \in Lively, NEW how \in {"done", "failed"}
    PROVE  Ended(c, how) \in Run /\ Grows(c, Ended(c, how))
<1>1. Ended(c, how) \in Run
  BY EndedType
<1> DEFINE b == Ended(c, how)
<1>2. /\ b.stage = c.stage /\ b.task = c.task /\ b.message = c.message /\ b.heard = c.heard
      /\ b.words = c.words /\ b.back = "ended" /\ b.events = c.events \o <<how>>
  BY DEF Ended, Said, Run
<1>3. c.events \in Seq(Event)
  BY DEF Run, Event
<1> HIDE DEF b
<1>4. ASSUME NEW i \in DOMAIN b.events
      PROVE  \/ i \in DOMAIN c.events /\ b.events[i] = c.events[i]
             \/ b.back = "ended"
  BY <1>2, <1>3
<1>5. Grows(c, b)
  BY <1>2, <1>3, <1>4 DEF Grows
<1> QED BY <1>1, <1>5 DEF b

LEMMA StreamStep ==
    ASSUME TypeOK, NEW k \in Runs,
           \/ BackendAnswers(k) \/ ShellExits(k) \/ PipesClose(k) \/ NextItem(k)
           \/ CallEnds(k) \/ AskAgain(k) \/ StreamEnds(k)
    PROVE  \E b \in Run : Backend(k, b) /\ Grows(run[k], b)
<1>0. run[k] \in Run /\ <<"text">> \in Seq(Event)
  BY DEF TypeOK, Event
<1> DEFINE c == run[k]
<1>1. c \in Run /\ c.text \in Nat /\ c.calls \in Nat
  BY <1>0 DEF Run
<1>9. c.back \in Lively
  BY DEF BackendAnswers, ShellExits, PipesClose, NextItem, CallEnds, AskAgain, StreamEnds, Lively
<1> HIDE DEF c
<1>2. ASSUME NEW b \in Run, b.back \in Lively, AfterCall(k, b)
      PROVE  \E d \in Run : Backend(k, d) /\ Grows(b, d)
  <2>1. Ended(b, "done") \in Run /\ Grows(b, Ended(b, "done"))
    BY <1>2, EndGrows
  <2> DEFINE d == [b EXCEPT !.back = "streams", !.body = FALSE, !.calls = @ + 1]
  <2>2. d \in Run
    <3>1. b.calls + 1 \in Nat
      BY DEF Run
    <3>2. \A n \in Nat : [b EXCEPT !.back = "streams", !.body = FALSE, !.calls = n] \in Run
      BY DEF Run
    <3> QED BY <3>1, <3>2
  <2>3. /\ d.stage = b.stage /\ d.task = b.task /\ d.message = b.message /\ d.heard = b.heard
        /\ d.words = b.words /\ d.events = b.events
    BY DEF Run
  <2> HIDE DEF d
  <2>4. Grows(b, d)
    BY <1>2, <2>2, <2>3, SameEventsGrow
  <2>5. Backend(k, Ended(b, "done")) \/ Backend(k, d)
    BY <1>2 DEF AfterCall, d
  <2> QED BY <2>1, <2>2, <2>4, <2>5
<1>3. CASE BackendAnswers(k)
  <2> DEFINE d == [c EXCEPT !.back = "streams", !.calls = 1]
             e == [c EXCEPT !.back = "refused"]
  <2>1. /\ d \in Run /\ d.stage = c.stage /\ d.task = c.task /\ d.message = c.message
        /\ d.heard = c.heard /\ d.words = c.words /\ d.events = c.events
    BY <1>1 DEF Run
  <2>2. /\ e \in Run /\ e.stage = c.stage /\ e.task = c.task /\ e.message = c.message
        /\ e.heard = c.heard /\ e.words = c.words /\ e.events = c.events
    BY <1>1 DEF Run
  <2>3. Backend(k, d) \/ Backend(k, e)
    BY <1>3 DEF BackendAnswers, c
  <2> HIDE DEF d, e
  <2>4. Grows(c, d) /\ Grows(c, e)
    BY <1>1, <1>9, <2>1, <2>2, SameEventsGrow
  <2> QED BY <2>1, <2>2, <2>3, <2>4 DEF c
<1>4. CASE ShellExits(k) \/ PipesClose(k)
  <2>0. PICK back \in {"ended", "holds"} : Backend(k, [c EXCEPT !.back = back])
    BY <1>4 DEF ShellExits, PipesClose, c
  <2> DEFINE d == [c EXCEPT !.back = back]
  <2>1. /\ d \in Run /\ d.stage = c.stage /\ d.task = c.task /\ d.message = c.message
        /\ d.heard = c.heard /\ d.words = c.words /\ d.events = c.events
    BY <1>1 DEF Run
  <2>2. Backend(k, d)
    BY <2>0
  <2> HIDE DEF d
  <2>3. Grows(c, d)
    BY <1>1, <1>9, <2>1, SameEventsGrow
  <2> QED BY <2>1, <2>2, <2>3 DEF c
<1>5. CASE NextItem(k)
  <2> DEFINE a == Said(c, <<"text">>)
             d == [a EXCEPT !.body = TRUE, !.text = @ + 1]
  <2>1. a \in Run /\ a.text = c.text
    BY <1>0, <1>1, SaidType DEF Said, Run
  <2>2. d \in Run
    <3>1. a.text + 1 \in Nat
      BY <1>1, <2>1
    <3> HIDE DEF a
    <3>2. \A n \in Nat : [a EXCEPT !.body = TRUE, !.text = n] \in Run
      BY <2>1 DEF Run
    <3> QED BY <3>1, <3>2
  <2>3. /\ d.stage = c.stage /\ d.task = c.task /\ d.message = c.message
        /\ d.heard = c.heard /\ d.words = c.words /\ d.events = c.events \o <<"text">>
    BY <1>1 DEF Said, Run
  <2>4. Backend(k, d)
    BY <1>5 DEF NextItem, c
  <2> HIDE DEF d
  <2>5. Grows(c, d)
    BY <1>1, <1>9, <2>2, <2>3, TextGrows
  <2> QED BY <2>2, <2>4, <2>5 DEF c
<1>6. CASE CallEnds(k)
  <2> DEFINE d == [c EXCEPT !.back = "asks"]
  <2>1. /\ d \in Run /\ d.stage = c.stage /\ d.task = c.task /\ d.message = c.message
        /\ d.heard = c.heard /\ d.words = c.words /\ d.events = c.events
    BY <1>1 DEF Run
  <2>2. AfterCall(k, c) \/ Backend(k, d)
    BY <1>6 DEF CallEnds, c
  <2> HIDE DEF d
  <2>3. Grows(c, d)
    BY <1>1, <1>9, <2>1, SameEventsGrow
  <2> QED BY <1>1, <1>2, <1>9, <2>1, <2>2, <2>3 DEF c
<1>7. CASE AskAgain(k)
  <2> DEFINE a == Said(c, <<"text">>)
             d == [a EXCEPT !.text = @ + 1]
  <2>1. a \in Run /\ a.text = c.text
    BY <1>0, <1>1, SaidType DEF Said, Run
  <2>2. d \in Run
    <3>1. a.text + 1 \in Nat
      BY <1>1, <2>1
    <3> HIDE DEF a
    <3>2. \A n \in Nat : [a EXCEPT !.text = n] \in Run
      BY <2>1 DEF Run
    <3> QED BY <3>1, <3>2
  <2>3. /\ d.stage = c.stage /\ d.task = c.task /\ d.message = c.message /\ d.back = c.back
        /\ d.heard = c.heard /\ d.words = c.words /\ d.events = c.events \o <<"text">>
    BY <1>1 DEF Said, Run
  <2>4. AfterCall(k, d)
    BY <1>7 DEF AskAgain, c
  <2> HIDE DEF d
  <2>5. Grows(c, d)
    BY <1>1, <1>9, <2>2, <2>3, TextGrows
  <2>6. PICK b \in Run : Backend(k, b) /\ Grows(d, b)
    BY <1>2, <1>9, <2>2, <2>3, <2>4
  <2> QED BY <1>1, <2>2, <2>5, <2>6, GrowsOn DEF c
<1>8. CASE StreamEnds(k)
  <2>1. /\ Ended(c, "done") \in Run /\ Ended(c, "failed") \in Run
        /\ Grows(c, Ended(c, "done")) /\ Grows(c, Ended(c, "failed"))
    BY <1>1, <1>9, EndGrows
  <2>2. Backend(k, Ended(c, "done")) \/ Backend(k, Ended(c, "failed"))
    BY <1>8 DEF StreamEnds, c
  <2> QED BY <2>1, <2>2 DEF c
<1> QED BY <1>3, <1>4, <1>5, <1>6, <1>7, <1>8

LEMMA NextTypeOK == TypeOK /\ [Next]_vars => TypeOK'
<1> SUFFICES ASSUME TypeOK, [Next]_vars PROVE TypeOK'
  OBVIOUS
<1>1. ASSUME NEW k \in Runs, System(k) \/ Model(k) PROVE TypeOK'
  <2>1. CASE \/ BackendAnswers(k) \/ ShellExits(k) \/ PipesClose(k) \/ NextItem(k)
             \/ CallEnds(k) \/ AskAgain(k) \/ StreamEnds(k)
    BY <2>1, StreamStep, BackendType
  <2> QED BY <1>1, <2>1, RunStepsType DEF System, Model
<1>2. CASE UNCHANGED vars
  BY <1>2 DEF vars, ui, history, TypeOK
<1>3. CASE Resting
  BY <1>2, <1>3 DEF Resting
<1> QED BY <1>1, <1>2, <1>3, UserStepsType DEF Next

(* Every variable of the chat keeps its type.                              *)
THEOREM TypeCorrect == Spec => []TypeOK
BY InitTypeOK, NextTypeOK, PTL DEF Spec

(***************************************************************************)
(* What a run shows is its own.                                            *)
(***************************************************************************)

(* The words w are a stretch of what stream k says, in order.              *)
Stretch(w, k) == \A i \in DOMAIN w : w[i] = <<k, w[1][2] + i - 1>>

(* Run k is not bound twice, its message shows a stretch of its stream, and *)
(* an event on its way that is not a text is the stream's end.             *)
Sound(b, k) ==
    /\ b.stage = "shell" => kind[b.task] = "shell"
    /\ b.stage \in {"none", "shell", "sending"} => b.words = <<>>
    /\ Stretch(b.words, k)
    /\ \A i \in DOMAIN b.events : b.events[i] = "text" \/ b.back = "ended"

(* Runs, of which u have been started.                                     *)
Kept(r, u) ==
    /\ \A k \in Runs : k > u => r[k].stage = "none" /\ r[k].task = 0
    /\ \A k \in Runs : Sound(r[k], k)

(* The message of a run shows the last text that was heard of its stream.  *)
Abreast(b) == b.words # <<>> => b.words[1][2] + Len(b.words) - 1 = b.heard

Bound(r, b) == b # NoRun => r[b].stage = "bound" /\ Abreast(r[b])

Standing == Kept(run, used) /\ Bound(run, binding)

(* One run is shown another way, its stage and message only.               *)
LEMMA ShownKeeps ==
    ASSUME NEW r \in [Runs -> Run], NEW u \in Nat, Kept(r, u), NEW k \in Runs,
           r[k].stage # "none", NEW b \in Run,
           b.task = r[k].task, b.back = r[k].back, b.words = r[k].words, b.events = r[k].events,
           b.stage \in {r[k].stage, "bound", "over"}
    PROVE  Kept([r EXCEPT ![k] = b], u)
<1>1. u >= k
  BY Bounds DEF Kept, Runs
<1>2. Sound(b, k)
  BY DEF Kept, Sound
<1>3. \A j \in Runs : [r EXCEPT ![k] = b][j] = IF j = k THEN b ELSE r[j]
  OBVIOUS
<1> QED BY <1>1, <1>2, <1>3, Bounds DEF Kept, Runs

LEMMA UnboundKeeps ==
    ASSUME TypeOK, NEW r \in [Runs -> Run], NEW u \in Nat, Kept(r, u),
           binding # NoRun => r[binding].stage # "none"
    PROVE  Kept(Unbound(r), u)
<1>1. CASE binding = NoRun
  BY <1>1 DEF Unbound
<1>2. CASE binding # NoRun
  <2> DEFINE b == [r[binding] EXCEPT !.stage = "over"]
  <2>1. binding \in Runs /\ r[binding] \in Run
    BY <1>2 DEF TypeOK
  <2>2. /\ b \in Run /\ b.task = r[binding].task /\ b.back = r[binding].back
        /\ b.words = r[binding].words /\ b.events = r[binding].events /\ b.stage = "over"
    BY <2>1 DEF Run
  <2>3. Unbound(r) = [r EXCEPT ![binding] = b]
    BY <1>2 DEF Unbound
  <2>4. r[binding].stage # "none"
    BY <1>2
  <2> HIDE DEF b
  <2>5. Kept([r EXCEPT ![binding] = b], u)
    BY <2>1, <2>2, <2>4, ShownKeeps
  <2> QED BY <2>3, <2>5
<1> QED BY <1>1, <1>2

LEMMA MessageKeeps ==
    ASSUME NEW r \in [Runs -> Run], NEW u \in Nat, Kept(r, u), NEW k \in Runs,
           r[k].stage # "none", NEW how \in Message
    PROVE  /\ Kept([r EXCEPT ![k].message = how], u)
           /\ \A stage \in {"bound", "over"} :
                 Kept([r EXCEPT ![k].stage = stage, ![k].message = how], u)
<1> DEFINE c == r[k]
<1>1. c \in Run
  OBVIOUS
<1>2. Kept([r EXCEPT ![k].message = how], u)
  <2> DEFINE b == [c EXCEPT !.message = how]
  <2>1. /\ b \in Run /\ b.task = c.task /\ b.back = c.back /\ b.words = c.words
        /\ b.events = c.events /\ b.stage = c.stage
    BY <1>1 DEF Run, Message
  <2>2. [r EXCEPT ![k].message = how] = [r EXCEPT ![k] = b]
    OBVIOUS
  <2> HIDE DEF b
  <2>3. Kept([r EXCEPT ![k] = b], u)
    BY <2>1, ShownKeeps
  <2> QED BY <2>2, <2>3
<1>3. ASSUME NEW stage \in {"bound", "over"}
      PROVE  Kept([r EXCEPT ![k].stage = stage, ![k].message = how], u)
  <2> DEFINE b == [c EXCEPT !.stage = stage, !.message = how]
  <2>1. /\ b \in Run /\ b.task = c.task /\ b.back = c.back /\ b.words = c.words
        /\ b.events = c.events /\ b.stage = stage
    BY <1>1 DEF Run, Message
  <2>2. [r EXCEPT ![k].stage = stage, ![k].message = how] = [r EXCEPT ![k] = b]
    OBVIOUS
  <2> HIDE DEF b
  <2>3. Kept([r EXCEPT ![k] = b], u)
    BY <2>1, ShownKeeps
  <2> QED BY <2>2, <2>3
<1> QED BY <1>2, <1>3

(* The run a task begins.                                                  *)
Begun(t) ==
    IF kind[t] = "shell"
    THEN [Unused EXCEPT !.task = t, !.stage = "shell", !.back = "streams"]
    ELSE [Unused EXCEPT !.task = t, !.stage = "sending", !.back = "called"]

LEMMA ExecuteBegins ==
    ASSUME NEW t, NEW r, NEW c, Execute(t, r, c)
    PROVE  /\ run' = [r EXCEPT ![used + 1] = Begun(t)] /\ used' = used + 1
           /\ used < MaxRuns /\ isStreaming' = TRUE
BY DEF Execute, Begun

LEMMA BegunIs ==
    ASSUME NEW t \in Tasks
    PROVE  /\ Begun(t).task = t /\ Begun(t).events = <<>> /\ Begun(t).words = <<>>
           /\ Begun(t).stage \in {"shell", "sending"}
           /\ Begun(t).stage = "shell" => kind[t] = "shell"
BY DEF Begun, Unused

LEMMA ExecuteKeeps ==
    ASSUME TypeOK, NEW t \in Tasks, NEW r \in [Runs -> Run], NEW c, Kept(r, used),
           Execute(t, r, c)
    PROVE  Kept(run', used')
<1>0. used < MaxRuns
  BY ExecuteBegins
<1>1. used + 1 \in Runs /\ used \in Nat /\ Runs \subseteq Nat
  BY <1>0, Bounds DEF TypeOK, Runs
<1>2. Sound(Begun(t), used + 1)
  BY BegunIs DEF Sound, Stretch
<1>3. \A j \in Runs : run'[j] = IF j = used + 1 THEN Begun(t) ELSE r[j]
  BY <1>1, ExecuteBegins
<1>4. used' = used + 1
  BY ExecuteBegins
<1>5. \A j \in Runs : Sound(run'[j], j)
  BY <1>2, <1>3 DEF Kept
<1>6. \A j \in Runs : j > used' => run'[j].stage = "none" /\ run'[j].task = 0
  BY <1>1, <1>3, <1>4 DEF Kept
<1> QED BY <1>5, <1>6 DEF Kept

LEMMA ProcessKeeps ==
    ASSUME TypeOK, NEW r \in [Runs -> Run], NEW c, Kept(r, used), ProcessChatQueue(r, c)
    PROVE  Kept(run', used')
<1>1. CASE queue # <<>> /\ Head(queue) \notin editing
  <2>1. queue \in Seq(Tasks) /\ Execute(Head(queue), r, c)
    BY <1>1 DEF TypeOK, ProcessChatQueue
  <2>2. Head(queue) \in Tasks
    BY <1>1, <2>1, HeadTailType
  <2> QED BY <2>1, <2>2, ExecuteKeeps
<1> QED BY <1>1 DEF ProcessChatQueue

(* A run that ProcessChatQueue and Execute do not begin stays as it was.   *)
LEMMA ExecuteSpares ==
    ASSUME TypeOK, NEW t \in Tasks, NEW r \in [Runs -> Run], NEW c, Execute(t, r, c)
    PROVE  \A j \in Runs : j <= used => run'[j] = r[j]
<1>1. used \in Nat
  BY Bounds DEF TypeOK
<1>2. run' = [r EXCEPT ![used + 1] = Begun(t)]
  BY ExecuteBegins
<1> QED BY <1>1, <1>2 DEF Runs

LEMMA ProcessSpares ==
    ASSUME TypeOK, NEW r \in [Runs -> Run], NEW c, ProcessChatQueue(r, c)
    PROVE  \A j \in Runs : j <= used => run'[j] = r[j]
<1>1. CASE queue # <<>> /\ Head(queue) \notin editing
  <2>1. queue \in Seq(Tasks) /\ Execute(Head(queue), r, c)
    BY <1>1 DEF TypeOK, ProcessChatQueue
  <2>2. Head(queue) \in Tasks
    BY <1>1, <2>1, HeadTailType
  <2> QED BY <2>1, <2>2, ExecuteSpares
<1> QED BY <1>1 DEF ProcessChatQueue

LEMMA Started ==
    ASSUME TypeOK, Kept(run, used), NEW k \in Runs, run[k].stage # "none"
    PROVE  k <= used
BY Bounds DEF TypeOK, Kept, Runs

LEMMA StandingStep ==
    ASSUME UNCHANGED kind, Kept(run', used'), Bound(run', binding')
    PROVE  Standing'
BY DEF Standing, Kept, Sound, Bound, Abreast, Stretch

(* A step of the backend.                                                  *)
LEMMA GrowsKeeps ==
    ASSUME TypeOK, Standing, NEW k \in Runs, NEW b \in Run, Backend(k, b), Grows(run[k], b)
    PROVE  Standing'
<1>1. /\ run \in [Runs -> Run] /\ run[k] \in Run /\ run' = [run EXCEPT ![k] = b]
      /\ UNCHANGED <<used, kind, binding>>
  BY DEF TypeOK, Backend
<1>2. \A j \in Runs : run'[j] = IF j = k THEN b ELSE run[j]
  BY <1>1
<1>3. Sound(b, k)
  <2>1. run[k].back # "ended" /\ Sound(run[k], k)
    BY DEF Grows, Lively, Standing, Kept
  <2>2. \A i \in DOMAIN b.events : b.events[i] = "text" \/ b.back = "ended"
    BY <2>1 DEF Grows, Sound
  <2> QED BY <2>1, <2>2 DEF Grows, Sound
<1>4. Kept(run', used')
  <2>1. Kept(run, used) /\ used' = used
    BY <1>1 DEF Standing
  <2>2. \A j \in Runs : Sound(run'[j], j)
    BY <1>2, <1>3, <2>1 DEF Kept
  <2>3. \A j \in Runs : j > used' => run'[j].stage = "none" /\ run'[j].task = 0
    BY <1>2, <2>1 DEF Kept, Grows
  <2> QED BY <2>2, <2>3 DEF Kept
<1>5. Bound(run', binding')
  BY <1>1, <1>2 DEF TypeOK, Standing, Grows, Bound, Abreast
<1> QED BY <1>1, <1>4, <1>5, StandingStep

(* An event is taken from its way, and the text it brings may be shown.    *)
LEMMA TakenKeeps ==
    ASSUME TypeOK, Standing, NEW k \in Runs, run[k].events # <<>>
    PROVE  Kept(TakenFrom(k), used)
<1> DEFINE b == Lost(run[k])
           e == run[k].events
<1>1. run \in [Runs -> Run] /\ run[k] \in Run /\ Kept(run, used)
  BY DEF TypeOK, Standing
<1>2. e \in Seq(Event) /\ e # <<>>
  BY <1>1 DEF Run, Event
<1>3. \A i \in DOMAIN Tail(e) : i + 1 \in DOMAIN e /\ Tail(e)[i] = e[i + 1]
  BY <1>2
<1>4. /\ b.task = run[k].task /\ b.back = run[k].back /\ b.stage = run[k].stage
      /\ b.words = run[k].words /\ b.events = Tail(e)
  BY <1>1, LostIs
<1>5. TakenFrom(k)[k] = b /\ \A j \in Runs : j # k => TakenFrom(k)[j] = run[j]
  BY TakenIs
<1> HIDE DEF b
<1>6. Sound(b, k)
  <2>1. Sound(run[k], k)
    BY <1>1 DEF Kept
  <2> QED BY <1>3, <1>4, <2>1 DEF Sound
<1> QED BY <1>1, <1>4, <1>5, <1>6 DEF Kept

LEMMA ShowsKeeps ==
    ASSUME TypeOK, Standing, NEW k \in Runs, run[k].events # <<>>,
           Head(run[k].events) = "text", binding = k
    PROVE  Kept(Shows(k), used) /\ Bound(Shows(k), k)
<1> DEFINE c == run[k]
           b == Shows(k)[k]
           e == c.events
           w == c.words
           n == Len(w)
<1>1. c \in Run /\ Kept(run, used) /\ Sound(c, k) /\ c.stage = "bound" /\ Abreast(c)
  <2>1. c \in Run /\ Kept(run, used) /\ Bound(run, k)
    BY DEF TypeOK, Standing
  <2>2. k # NoRun
    BY Bounds DEF NoRun, Runs
  <2>3. c.stage = "bound" /\ Abreast(c)
    BY <2>1, <2>2 DEF Bound
  <2> QED BY <2>1, <2>3 DEF Kept
<1>2. /\ \A j \in Runs : j # k => Shows(k)[j] = run[j]
      /\ b.stage = c.stage /\ b.back = c.back /\ b.task = c.task /\ b.events = Tail(e)
      /\ b.heard = c.heard + 1 /\ b.words = Append(w, <<k, c.heard + 1>>)
  BY ShowsIs
<1> HIDE DEF b, c
<1>3. e \in Seq(Event) /\ w \in Seq(Runs \X Nat) /\ n \in Nat /\ c.heard \in Nat
  BY <1>1 DEF Run, Event
<1>4. \A i \in DOMAIN Tail(e) : i + 1 \in DOMAIN e /\ Tail(e)[i] = e[i + 1]
  BY <1>3 DEF c
<1>5. /\ Len(b.words) = n + 1 /\ DOMAIN b.words = 1 .. n + 1
      /\ b.words[n + 1] = <<k, c.heard + 1>>
      /\ \A i \in 1 .. n : i \in DOMAIN w /\ b.words[i] = w[i]
  BY <1>2, <1>3
<1> HIDE DEF e, w, n
<1>6. b.words[1][2] + n = c.heard + 1
  <2>1. CASE w = <<>>
    <3>1. n = 0
      BY <2>1 DEF n
    <3> QED BY <1>3, <1>5, <3>1
  <2>2. CASE w # <<>>
    <3>1. n \in Nat \ {0}
      BY <1>3, <2>2 DEF n
    <3>2. b.words[1] = w[1] /\ w[1] \in Runs \X Nat
      BY <1>3, <1>5, <3>1
    <3>3. w[1][2] + n - 1 = c.heard
      BY <1>1, <2>2 DEF Abreast, w, n
    <3>4. w[1][2] \in Nat /\ b.words[1][2] = w[1][2]
      BY <3>2
    <3> DEFINE first == w[1][2]
    <3>5. first \in Nat /\ first + n - 1 = c.heard /\ b.words[1][2] = first
      BY <3>3, <3>4
    <3> HIDE DEF first
    <3> QED BY <1>3, <3>1, <3>5
  <2> QED BY <2>1, <2>2
<1>7. b.words[1][2] \in Nat
  <2>1. b.words[1] \in Runs \X Nat
    <3>1. CASE n = 0
      <4>1. b.words[1] = <<k, c.heard + 1>>
        BY <1>5, <3>1
      <4> QED BY <1>3, <4>1
    <3>2. CASE n # 0
      <4>1. 1 \in 1 .. n
        BY <1>3, <3>2
      <4> QED BY <1>3, <1>5, <4>1
    <3> QED BY <3>1, <3>2
  <2> QED BY <2>1
<1>8. Stretch(b.words, k)
  <2> SUFFICES ASSUME NEW i \in 1 .. n + 1
               PROVE  b.words[i] = <<k, b.words[1][2] + i - 1>>
    BY <1>5 DEF Stretch
  <2>1. CASE i = n + 1
    <3>1. b.words[1][2] + i - 1 = c.heard + 1
      BY <1>3, <1>6, <1>7, <2>1
    <3> QED BY <1>5, <2>1, <3>1
  <2>2. CASE i # n + 1
    <3>1. i \in 1 .. n /\ 1 \in 1 .. n
      BY <1>3, <2>2
    <3>2. i \in DOMAIN w /\ b.words[i] = w[i] /\ b.words[1] = w[1]
      BY <1>5, <3>1
    <3>3. w[i] = <<k, w[1][2] + i - 1>>
      BY <1>1, <3>2 DEF Sound, Stretch, w
    <3> QED BY <3>2, <3>3
  <2> QED BY <2>1, <2>2
<1>9. Abreast(b)
  <2>1. b.words[1][2] + (n + 1) - 1 = c.heard + 1
    BY <1>3, <1>6, <1>7
  <2> QED BY <1>2, <1>5, <2>1 DEF Abreast
<1>10. \A i \in DOMAIN b.events : b.events[i] = "text" \/ b.back = "ended"
  BY <1>1, <1>2, <1>4 DEF Sound, e
<1>11. Sound(b, k)
  BY <1>1, <1>2, <1>8, <1>10 DEF Sound
<1>12. Kept(Shows(k), used)
  <2>1. \A j \in Runs : Sound(Shows(k)[j], j)
    BY <1>1, <1>2, <1>11 DEF Kept, b
  <2>2. \A j \in Runs : j > used => Shows(k)[j].stage = "none" /\ Shows(k)[j].task = 0
    BY <1>1, <1>2 DEF Kept, b, c
  <2> QED BY <2>1, <2>2 DEF Kept
<1>13. Bound(Shows(k), k)
  BY <1>1, <1>2, <1>9 DEF Bound, b
<1> QED BY <1>12, <1>13

LEMMA UnboundIs ==
    ASSUME TypeOK, NEW r \in [Runs -> Run]
    PROVE  \A j \in Runs :
              /\ j = binding => Unbound(r)[j].stage = "over"
              /\ j # binding => Unbound(r)[j].stage = r[j].stage
              /\ Unbound(r)[j].back = r[j].back /\ Unbound(r)[j].task = r[j].task
              /\ Unbound(r)[j].message = r[j].message
<1>1. CASE binding = NoRun
  BY <1>1, Bounds DEF Unbound, NoRun, Runs
<1>2. CASE binding # NoRun
  <2> DEFINE b == [r[binding] EXCEPT !.stage = "over"]
  <2>1. binding \in Runs /\ r[binding] \in Run
    BY <1>2 DEF TypeOK
  <2>2. /\ b.stage = "over" /\ b.back = r[binding].back /\ b.task = r[binding].task
        /\ b.message = r[binding].message
    BY <2>1 DEF Run
  <2>3. Unbound(r) = [r EXCEPT ![binding] = b]
    BY <1>2 DEF Unbound
  <2> HIDE DEF b
  <2> QED BY <2>1, <2>2, <2>3
<1> QED BY <1>1, <1>2

(* The steps of the interface that handle a run.                           *)
LEMMA RunStepsStand ==
    ASSUME TypeOK, Standing, NEW k \in Runs,
           ShellEnds(k) \/ SendReturns(k) \/ SendFails(k) \/ Receive(k) \/ TimerFires(k)
    PROVE  Standing'
<1>0. /\ run \in [Runs -> Run] /\ Kept(run, used) /\ used \in Nat /\ Bound(run, binding)
      /\ binding # NoRun => binding \in Runs /\ run[binding].stage = "bound"
  BY Bounds DEF TypeOK, Standing, Bound
<1>9. \A r : Bound(r, NoRun)
  BY DEF Bound
<1>1. CASE ShellEnds(k)
  <2>1. PICK how \in {"output", "stopped"} : ProcessChatQueue(Left(k, how), NoRun)
    BY <1>1, ShellEndsIs
  <2>2. run[k].stage = "shell" /\ UNCHANGED <<kind, binding>>
    BY <1>1 DEF ShellEnds
  <2> DEFINE r == Left(k, how)
  <2>3. r \in [Runs -> Run] /\ \A j \in Runs : j # k => r[j] = run[j]
    BY LeftIs DEF Message
  <2>4. Kept(r, used)
    <3>1. /\ r[k].stage = "over" /\ r[k].task = run[k].task /\ r[k].back = run[k].back
          /\ r[k].events = run[k].events /\ r[k].words = run[k].words
      BY LeftIs DEF Message
    <3>2. r = [run EXCEPT ![k] = r[k]] /\ r[k] \in Run
      BY <1>0, <2>3
    <3> HIDE DEF r
    <3>3. Kept([run EXCEPT ![k] = r[k]], used)
      BY <1>0, <2>2, <3>1, <3>2, ShownKeeps
    <3> QED BY <3>2, <3>3
  <2> HIDE DEF r
  <2>5. ProcessChatQueue(r, NoRun)
    BY <2>1 DEF r
  <2>6. Kept(run', used')
    BY <2>3, <2>4, <2>5, ProcessKeeps
  <2>7. ASSUME binding # NoRun PROVE run'[binding] = run[binding]
    <3>1. binding \in Runs /\ binding # k
      BY <1>0, <2>2, <2>7
    <3>2. binding <= used
      BY <1>0, <2>7, <3>1, Started
    <3> QED BY <2>3, <2>5, <3>1, <3>2, ProcessSpares
  <2>8. Bound(run', binding')
    BY <1>0, <2>2, <2>7 DEF Bound
  <2> QED BY <2>2, <2>6, <2>8, StandingStep
<1>2. CASE SendReturns(k)
  <2>1. /\ run' = [run EXCEPT ![k].stage = "bound", ![k].message = "empty"]
        /\ binding' = k /\ UNCHANGED <<kind, used>> /\ run[k].stage = "sending"
    BY <1>2 DEF SendReturns
  <2>2. Kept([run EXCEPT ![k].stage = "bound", ![k].message = "empty"], used)
    BY <1>0, <2>1, MessageKeeps DEF Message
  <2>3. run[k].words = <<>>
    BY <1>0, <2>1 DEF Kept, Sound
  <2>4. run'[k].stage = "bound" /\ run'[k].words = <<>>
    BY <1>0, <2>1, <2>3 DEF Run
  <2>5. Bound(run', binding')
    BY <2>1, <2>4 DEF Bound, Abreast
  <2> QED BY <2>1, <2>2, <2>5, StandingStep
<1>3. CASE SendFails(k)
  <2>1. /\ run[k].stage = "sending" /\ binding' = NoRun /\ UNCHANGED kind
        /\ ProcessChatQueue([Unbound(run) EXCEPT ![k].stage = "over", ![k].message = "error"],
                            controller)
    BY <1>3 DEF SendFails
  <2>2. Unbound(run) \in [Runs -> Run] /\ Kept(Unbound(run), used)
    BY <1>0, UnboundType, UnboundKeeps
  <2>3. Unbound(run)[k].stage # "none"
    BY <1>0, <2>1, UnboundIs
  <2> DEFINE r == [Unbound(run) EXCEPT ![k].stage = "over", ![k].message = "error"]
  <2>4. r \in [Runs -> Run] /\ Kept(r, used)
    BY <1>0, <2>2, <2>3, FieldTypes, MessageKeeps DEF Message
  <2> HIDE DEF r
  <2>5. Kept(run', used')
    BY <2>1, <2>4, ProcessKeeps DEF r
  <2> QED BY <1>9, <2>1, <2>5, StandingStep
<1>4. CASE Receive(k)
  <2>0. run[k].events # <<>> /\ UNCHANGED kind
    BY <1>4, ReceiveIs
  <2> DEFINE taken == TakenFrom(k)
  <2>1. /\ taken \in [Runs -> Run] /\ Kept(taken, used)
        /\ \A j \in Runs : j # k => taken[j] = run[j]
        /\ \A j \in Runs : taken[j].stage = run[j].stage
    BY <2>0, TakenKeeps, TakenIs
  <2> HIDE DEF taken
  <2>2. CASE ~IsBound(k)
    <3>1. run' = taken /\ UNCHANGED <<used, binding>> /\ binding # k
      BY <1>4, <2>2, ReceiveIs DEF taken, IsBound
    <3>2. Bound(run', binding')
      BY <1>0, <2>1, <3>1 DEF Bound
    <3> QED BY <2>0, <2>1, <3>1, <3>2, StandingStep
  <2>3. CASE IsBound(k) /\ Head(run[k].events) = "text"
    <3>1. run' = Shows(k) /\ UNCHANGED <<used, binding>> /\ binding = k
      BY <1>4, <2>3, ReceiveIs DEF IsBound
    <3>2. Kept(Shows(k), used) /\ Bound(Shows(k), k)
      BY <2>0, <2>3, <3>1, ShowsKeeps
    <3> QED BY <2>0, <3>1, <3>2, StandingStep
  <2>4. CASE IsBound(k) /\ Head(run[k].events) # "text"
    <3> DEFINE q == Unbound(taken)
               said == IF Head(run[k].events) = "failed" THEN "text" ELSE q[k].message
               r == [q EXCEPT ![k].message = said]
    <3>1. binding' = NoRun /\ binding = k /\ ProcessChatQueue(r, controller)
      BY <1>4, <2>4, ReceiveIs DEF taken, IsBound
    <3>2. taken[k].stage # "none" /\ (binding # NoRun => taken[binding].stage # "none")
      BY <1>0, <2>1, <3>1, Bounds DEF NoRun, Runs
    <3>3. q \in [Runs -> Run] /\ Kept(q, used)
      BY <1>0, <2>1, <3>2, UnboundType, UnboundKeeps
    <3>4. q[k].stage # "none"
      BY <2>1, <3>1, UnboundIs
    <3> HIDE DEF q
    <3>5. said \in Message
      BY <3>3, FieldTypes DEF Message
    <3> HIDE DEF said
    <3>6. r \in [Runs -> Run] /\ Kept(r, used)
      BY <1>0, <3>3, <3>4, <3>5, FieldTypes, MessageKeeps
    <3> HIDE DEF r
    <3>7. Kept(run', used')
      BY <3>1, <3>6, ProcessKeeps
    <3> QED BY <1>9, <2>0, <3>1, <3>7, StandingStep
  <2> QED BY <2>2, <2>3, <2>4
<1>5. CASE TimerFires(k)
  <2>1. binding = k /\ binding' = NoRun /\ UNCHANGED kind
    BY <1>5 DEF TimerFires
  <2>2. Unbound(run) \in [Runs -> Run] /\ Kept(Unbound(run), used)
    BY <1>0, UnboundType, UnboundKeeps
  <2>3. Unbound(run)[k].stage # "none" /\ Unbound(run)[k].message \in Message
    BY <1>0, <2>1, <2>2, UnboundIs, FieldTypes
  <2>4. PICK how \in Message :
            ProcessChatQueue([Unbound(run) EXCEPT ![k].message = how], controller)
    <3>1. ProcessChatQueue([Unbound(run) EXCEPT ![k].message =
              IF Unbound(run)[k].message = "empty" THEN "error" ELSE Unbound(run)[k].message],
              controller)
      BY <1>5 DEF TimerFires
    <3>2. "error" \in Message
      BY DEF Message
    <3> QED BY <2>3, <3>1, <3>2
  <2> DEFINE r == [Unbound(run) EXCEPT ![k].message = how]
  <2>5. r \in [Runs -> Run] /\ Kept(r, used)
    BY <1>0, <2>2, <2>3, <2>4, FieldTypes, MessageKeeps
  <2> HIDE DEF r
  <2>6. Kept(run', used')
    BY <2>4, <2>5, ProcessKeeps DEF r
  <2> QED BY <1>9, <2>1, <2>6, StandingStep
<1> QED BY <1>1, <1>2, <1>3, <1>4, <1>5

(* Stopping sets flags only.                                               *)
Alike(q, r) ==
    \A j \in Runs : /\ q[j].stage = r[j].stage /\ q[j].task = r[j].task
                    /\ q[j].back = r[j].back /\ q[j].message = r[j].message
                    /\ q[j].events = r[j].events /\ q[j].heard = r[j].heard
                    /\ q[j].words = r[j].words

LEMMA FlagsOnly ==
    ASSUME NEW r \in [Runs -> Run], NEW k \in Runs
    PROVE  /\ [r EXCEPT ![k].aborted = TRUE] \in [Runs -> Run]
           /\ Alike([r EXCEPT ![k].aborted = TRUE], r)
           /\ [r EXCEPT ![k].cancel = TRUE] \in [Runs -> Run]
           /\ Alike([r EXCEPT ![k].cancel = TRUE], r)
<1> DEFINE c == r[k]
           a == [c EXCEPT !.aborted = TRUE]
           b == [c EXCEPT !.cancel = TRUE]
<1>1. c \in Run
  OBVIOUS
<1>2. /\ a \in Run /\ a.stage = c.stage /\ a.task = c.task /\ a.back = c.back
      /\ a.message = c.message /\ a.events = c.events /\ a.heard = c.heard
      /\ a.words = c.words
  BY <1>1 DEF Run
<1>3. /\ b \in Run /\ b.stage = c.stage /\ b.task = c.task /\ b.back = c.back
      /\ b.message = c.message /\ b.events = c.events /\ b.heard = c.heard
      /\ b.words = c.words
  BY <1>1 DEF Run
<1>4. /\ [r EXCEPT ![k].aborted = TRUE] = [r EXCEPT ![k] = a]
      /\ [r EXCEPT ![k].cancel = TRUE] = [r EXCEPT ![k] = b]
  OBVIOUS
<1> HIDE DEF a, b
<1>5. [r EXCEPT ![k] = a] \in [Runs -> Run] /\ Alike([r EXCEPT ![k] = a], r)
  BY <1>2 DEF Alike
<1>6. [r EXCEPT ![k] = b] \in [Runs -> Run] /\ Alike([r EXCEPT ![k] = b], r)
  BY <1>3 DEF Alike
<1> QED BY <1>4, <1>5, <1>6

LEMMA StoppedIs ==
    ASSUME TypeOK
    PROVE  /\ Flagged(Aborted(run)) \in [Runs -> Run]
           /\ Alike(Flagged(Aborted(run)), run)
<1> DEFINE a == Aborted(run)
           q == Flagged(a)
<1>0. run \in [Runs -> Run]
  BY DEF TypeOK
<1>1. a \in [Runs -> Run] /\ Alike(a, run)
  <2>1. CASE controller = NoRun
    BY <1>0, <2>1 DEF Aborted, Alike
  <2>2. CASE controller # NoRun
    <3>1. controller \in Runs /\ a = [run EXCEPT ![controller].aborted = TRUE]
      BY <2>2 DEF TypeOK, Aborted
    <3>2. /\ [run EXCEPT ![controller].aborted = TRUE] \in [Runs -> Run]
          /\ Alike([run EXCEPT ![controller].aborted = TRUE], run)
      BY <1>0, <3>1, FlagsOnly
    <3> QED BY <3>1, <3>2
  <2> QED BY <2>1, <2>2
<1> HIDE DEF a
<1>2. q \in [Runs -> Run] /\ Alike(q, a)
  <2>1. CASE q = a
    BY <1>1, <2>1 DEF Alike
  <2>2. CASE q # a
    <3>1. binding \in Runs /\ q = [a EXCEPT ![binding].cancel = TRUE]
      BY <2>2 DEF TypeOK, Flagged
    <3>2. /\ [a EXCEPT ![binding].cancel = TRUE] \in [Runs -> Run]
          /\ Alike([a EXCEPT ![binding].cancel = TRUE], a)
      BY <1>1, <3>1, FlagsOnly
    <3> QED BY <3>1, <3>2
  <2> QED BY <2>1, <2>2
<1> HIDE DEF q
<1>3. q \in [Runs -> Run] /\ Alike(q, run)
  BY <1>1, <1>2 DEF Alike
<1> QED BY <1>3 DEF q, a

LEMMA StoppedKeeps ==
    ASSUME TypeOK, Kept(run, used)
    PROVE  Kept(Flagged(Aborted(run)), used)
<1> DEFINE q == Flagged(Aborted(run))
<1>1. Alike(q, run)
  BY StoppedIs
<1> HIDE DEF q
<1>2. Kept(q, used)
  BY <1>1 DEF Kept, Sound, Stretch, Alike
<1> QED BY <1>2 DEF q

LEMMA UserStepsStand ==
    ASSUME TypeOK, Standing, User \/ Render
    PROVE  Standing'
<1>0. /\ run \in [Runs -> Run] /\ Kept(run, used) /\ used \in Nat /\ Bound(run, binding)
      /\ binding # NoRun => binding \in Runs /\ run[binding].stage = "bound"
  BY Bounds DEF TypeOK, Standing, Bound
<1>9. \A r : Bound(r, NoRun)
  BY DEF Bound
<1>1. CASE UNCHANGED <<run, used, binding, kind>>
  BY <1>0, <1>1, StandingStep
<1>2. CASE Submit
  <2>1. submitted + 1 \in Tasks /\ UNCHANGED kind
    BY <1>2, Bounds DEF Submit, TypeOK, Tasks
  <2>2. CASE shown.streaming
    BY <1>1, <1>2, <2>2 DEF Submit
  <2>3. CASE ~shown.streaming
    <3>1. Execute(submitted + 1, run, controller) /\ UNCHANGED binding
      BY <1>2, <2>3 DEF Submit
    <3>2. Kept(run', used')
      BY <1>0, <2>1, <3>1, ExecuteKeeps
    <3>3. ASSUME binding # NoRun PROVE run'[binding] = run[binding]
      <4>1. binding \in Runs /\ binding <= used
        BY <1>0, <3>3, Started
      <4>2. \A j \in Runs : j <= used => run'[j] = run[j]
        BY <1>0, <2>1, <3>1, ExecuteSpares
      <4> QED BY <1>0, <3>3, <4>1, <4>2
    <3>4. Bound(run', binding')
      BY <1>0, <3>1, <3>3 DEF Bound
    <3> QED BY <2>1, <3>1, <3>2, <3>4, StandingStep
  <2> QED BY <2>2, <2>3
<1>3. CASE Stop
  <2>1. run' = Flagged(Aborted(run)) /\ UNCHANGED <<used, binding, kind>>
    BY <1>3 DEF Stop
  <2>2. Kept(run', used')
    BY <1>0, <2>1, StoppedKeeps
  <2>3. \A j \in Runs : /\ run'[j].stage = run[j].stage /\ run'[j].heard = run[j].heard
                        /\ run'[j].words = run[j].words
    BY <2>1, StoppedIs DEF Alike
  <2>4. Bound(run', binding')
    BY <1>0, <2>1, <2>3 DEF Bound, Abreast
  <2> QED BY <2>1, <2>2, <2>4, StandingStep
<1>4. ASSUME NEW t \in Tasks, ForceExecute(t) PROVE Standing'
  <2> DEFINE q == Flagged(Aborted(run))
  <2>1. binding' = NoRun /\ UNCHANGED kind /\ Execute(t, Unbound(q), controller)
    BY <1>4 DEF ForceExecute
  <2>2. q \in [Runs -> Run] /\ Kept(q, used) /\ (binding # NoRun => q[binding].stage # "none")
    <3>1. q \in [Runs -> Run] /\ Kept(q, used) /\ Alike(q, run)
      BY <1>0, StoppedKeeps, StoppedIs
    <3> HIDE DEF q
    <3> QED BY <1>0, <3>1 DEF Alike
  <2> HIDE DEF q
  <2>3. Unbound(q) \in [Runs -> Run] /\ Kept(Unbound(q), used)
    BY <1>0, <2>2, UnboundType, UnboundKeeps
  <2>4. Kept(run', used')
    BY <2>1, <2>3, ExecuteKeeps
  <2> QED BY <1>9, <2>1, <2>4, StandingStep
<1>5. CASE CancelAll
  BY <1>1, <1>5 DEF CancelAll
<1>6. ASSUME NEW t \in Tasks, Cancel(t) \/ StartEdit(t) \/ EndEdit(t) \/ MoveUp(t)
      PROVE  Standing'
  BY <1>1, <1>6 DEF Cancel, StartEdit, EndEdit, MoveUp, ui
<1>7. CASE Render
  BY <1>1, <1>7 DEF Render, ui
<1> QED BY <1>2, <1>3, <1>4, <1>5, <1>6, <1>7 DEF User

LEMMA NextStanding == TypeOK /\ Standing /\ [Next]_vars => Standing'
<1> SUFFICES ASSUME TypeOK, Standing, [Next]_vars PROVE Standing'
  OBVIOUS
<1>1. ASSUME NEW k \in Runs, System(k) \/ Model(k) PROVE Standing'
  <2>1. CASE \/ BackendAnswers(k) \/ ShellExits(k) \/ PipesClose(k) \/ NextItem(k)
             \/ CallEnds(k) \/ AskAgain(k) \/ StreamEnds(k)
    BY <2>1, StreamStep, GrowsKeeps
  <2> QED BY <1>1, <2>1, RunStepsStand DEF System, Model
<1>2. CASE UNCHANGED vars
  BY <1>2, StandingStep DEF vars, ui, Standing
<1>3. CASE Resting
  BY <1>2, <1>3 DEF Resting
<1> QED BY <1>1, <1>2, <1>3, UserStepsStand DEF Next

LEMMA InitStanding == Init => Standing
<1> SUFFICES ASSUME Init PROVE Standing
  OBVIOUS
<1>1. \A k \in Runs : run[k] = Unused
  BY DEF Init
<1>2. Unused.stage = "none" /\ Unused.task = 0 /\ Unused.events = <<>> /\ Unused.words = <<>>
  BY DEF Unused
<1>3. \A k \in Runs : Sound(Unused, k)
  BY <1>2 DEF Sound, Stretch
<1> QED BY <1>1, <1>2, <1>3 DEF Standing, Kept, Bound, Init

(* A message shows a stretch of its own stream, in order and without a gap, *)
(* whatever other streams say that were forced aside, timed out or bound    *)
(* before (the listener).                                                  *)
THEOREM WordsAreOwn == Spec => []OwnWords
<1>1. Standing => OwnWords
  BY DEF Standing, Kept, Sound, Stretch, OwnWords
<1> QED BY <1>1, TypeCorrect, InitStanding, NextStanding, PTL DEF Spec

(***************************************************************************)
(* One task at a time.                                                     *)
(***************************************************************************)

(* Run j of the runs r is at work, when the stream of run b is bound.      *)
Works(r, b, j) ==
    \/ r[j].stage \in {"shell", "sending"} \/ b = j
    \/ r[j].back \in Lively /\ ~(kind[r[j].task] = "shell" /\ r[j].message = "stopped")

(* What the last render has shown matters: it decides what a message does. *)
Single ==
    ~forced =>
        /\ isStreaming => shown.streaming
        /\ \A k \in Runs : Works(run, binding, k) =>
              isStreaming /\ \A j \in Runs : Works(run, binding, j) => j = k

LEMMA SingleIsOne == Single => OneAtATime
BY DEF Single, OneAtATime, AtWork, Works, Working, Abandoned, KindOf, Lively

LEMMA Narrower ==
    ASSUME Single, UNCHANGED <<kind, isStreaming, forced>>, isStreaming => shown'.streaming,
           \A j \in Runs : Works(run', binding', j) => Works(run, binding, j)
    PROVE  Single'
<1>1. \A j \in Runs : Works(run, binding, j)' = Works(run', binding', j)
  BY DEF Works
<1> QED BY <1>1 DEF Single

(* Nothing is at work, and at most one task begins.                        *)
LEMMA ExecuteAlone ==
    ASSUME TypeOK, NEW t \in Tasks, NEW r \in [Runs -> Run], NEW c, Execute(t, r, c),
           binding' = NoRun, UNCHANGED kind, \A j \in Runs : ~Works(r, NoRun, j),
           ~forced' => shown'.streaming
    PROVE  Single'
<1>0. /\ run' = [r EXCEPT ![used + 1] = Begun(t)]
      /\ used < MaxRuns /\ isStreaming' = TRUE
  BY ExecuteBegins
<1>1. used + 1 \in Runs
  BY <1>0, Bounds DEF TypeOK, Runs
<1>2. \A j \in Runs : j # used + 1 => run'[j] = r[j]
  BY <1>0, <1>1
<1>3. \A j \in Runs : Works(run, binding, j)' => j = used + 1
  BY <1>2 DEF Works
<1> QED BY <1>0, <1>1, <1>3 DEF Single

LEMMA ProcessAlone ==
    ASSUME TypeOK, NEW r \in [Runs -> Run], NEW c, ProcessChatQueue(r, c),
           binding' = NoRun, UNCHANGED kind, \A j \in Runs : ~Works(r, NoRun, j),
           ~forced' => shown'.streaming
    PROVE  Single'
<1>1. CASE queue # <<>> /\ Head(queue) \notin editing
  <2>1. queue \in Seq(Tasks) /\ Execute(Head(queue), r, c)
    BY <1>1 DEF TypeOK, ProcessChatQueue
  <2>2. Head(queue) \in Tasks
    BY <1>1, <2>1, HeadTailType
  <2> QED BY <2>1, <2>2, ExecuteAlone
<1>2. CASE ~(queue # <<>> /\ Head(queue) \notin editing)
  <2>1. isStreaming' = FALSE /\ run' = r
    BY <1>2 DEF ProcessChatQueue
  <2>2. \A j \in Runs : ~Works(run, binding, j)'
    BY <2>1 DEF Works
  <2> QED BY <2>1, <2>2 DEF Single
<1> QED BY <1>1, <1>2

(* The one at work is over, and the next may begin.                        *)
LEMMA OverAlone ==
    ASSUME TypeOK, Single, NEW k \in Runs, ~forced, Works(run, binding, k),
           binding \in {NoRun, k}, binding' = NoRun, UNCHANGED <<kind, shown>>,
           NEW r \in [Runs -> Run], NEW c, ProcessChatQueue(r, c),
           \A j \in Runs : j # k => /\ r[j].stage = run[j].stage /\ r[j].back = run[j].back
                                    /\ r[j].task = run[j].task /\ r[j].message = run[j].message,
           r[k].stage = "over",
           r[k].back \in Lively => kind[r[k].task] = "shell" /\ r[k].message = "stopped"
    PROVE  Single'
<1>1. shown.streaming /\ \A j \in Runs : Works(run, binding, j) => j = k
  BY DEF Single
<1>2. ASSUME NEW j \in Runs PROVE ~Works(r, NoRun, j)
  <2>1. CASE j = k
    BY <2>1, Bounds DEF Works, NoRun, Runs
  <2>2. CASE j # k
    BY <1>1, <2>2, Bounds DEF Works, NoRun, Runs
  <2> QED BY <2>1, <2>2
<1> QED BY <1>1, <1>2, ProcessAlone

LEMMA RunStepsSingle ==
    ASSUME TypeOK, Standing, Single, NEW k \in Runs,
           ShellEnds(k) \/ SendReturns(k) \/ SendFails(k) \/ Receive(k) \/ TimerFires(k)
    PROVE  Single'
<1>0. /\ run \in [Runs -> Run] /\ Kept(run, used) /\ used \in Nat /\ NoRun \notin Runs
      /\ binding # NoRun => binding \in Runs /\ run[binding].stage = "bound"
      /\ isStreaming \in BOOLEAN /\ forced \in BOOLEAN
  BY Bounds DEF TypeOK, Standing, Bound, NoRun, Runs
<1>a. CASE forced'
  BY <1>a DEF Single
<1>b. ASSUME ~forced, Works(run, binding, k), run[k].stage # "bound"
      PROVE  binding = NoRun
  <2>1. \A j \in Runs : Works(run, binding, j) => j = k
    BY <1>b DEF Single
  <2> QED BY <1>0, <1>b, <2>1 DEF Works
<1>1. CASE ~forced' /\ ShellEnds(k)
  <2>1. PICK how \in {"output", "stopped"} :
            ProcessChatQueue(Left(k, how), NoRun) /\ (how = "stopped" \/ run[k].back = "ended")
    BY <1>1, ShellEndsIs
  <2> DEFINE r == Left(k, how)
  <2>2. run[k].stage = "shell" /\ UNCHANGED <<kind, binding, shown>> /\ ~forced
    BY <1>1 DEF ShellEnds, history
  <2>3. /\ r \in [Runs -> Run] /\ \A j \in Runs : j # k => r[j] = run[j]
        /\ r[k].stage = "over" /\ r[k].task = run[k].task /\ r[k].back = run[k].back
        /\ r[k].message = how
    BY LeftIs DEF Message
  <2>4. ProcessChatQueue(r, NoRun)
    BY <2>1
  <2> HIDE DEF r
  <2>5. Works(run, binding, k) /\ kind[run[k].task] = "shell"
    BY <1>0, <2>2 DEF Works, Kept, Sound
  <2>6. binding = NoRun
    BY <1>b, <2>2, <2>5
  <2>7. binding' = NoRun /\ binding \in {NoRun, k} /\ UNCHANGED <<kind, shown>>
    BY <2>2, <2>6
  <2>8. r[k].back \in Lively => kind[r[k].task] = "shell" /\ r[k].message = "stopped"
    BY <2>1, <2>3, <2>5 DEF Lively
  <2> QED BY <2>2, <2>3, <2>4, <2>5, <2>7, <2>8, OverAlone
<1>2. CASE ~forced' /\ SendReturns(k)
  <2>1. /\ run' = [run EXCEPT ![k].stage = "bound", ![k].message = "empty"]
        /\ binding' = k /\ UNCHANGED <<kind, isStreaming, forced, shown>>
        /\ run[k].stage = "sending"
    BY <1>2 DEF SendReturns, history
  <2>2. Works(run, binding, k)
    BY <2>1 DEF Works
  <2>3. isStreaming /\ shown.streaming /\ \A j \in Runs : Works(run, binding, j) => j = k
    BY <1>2, <2>1, <2>2 DEF Single
  <2>4. \A j \in Runs : Works(run', binding', j) => Works(run, binding, j)
    BY <1>0, <2>1, <2>2 DEF Works
  <2>5. UNCHANGED <<kind, isStreaming, forced>> /\ isStreaming => shown'.streaming
    BY <2>1, <2>3
  <2> QED BY <2>1, <2>3, <2>4, Narrower
<1>3. CASE ~forced' /\ SendFails(k)
  <2>1. /\ run[k].stage = "sending" /\ binding' = NoRun /\ UNCHANGED <<kind, shown>> /\ ~forced
        /\ run[k].back = "refused"
        /\ ProcessChatQueue([Unbound(run) EXCEPT ![k].stage = "over", ![k].message = "error"],
                            controller)
    BY <1>3 DEF SendFails, history
  <2>2. Works(run, binding, k)
    BY <2>1 DEF Works
  <2>3. binding = NoRun
    BY <1>b, <2>1, <2>2
  <2> DEFINE r == [run EXCEPT ![k].stage = "over", ![k].message = "error"]
  <2>4. r \in [Runs -> Run]
    BY <1>0, FieldTypes DEF Message
  <2>5. ProcessChatQueue(r, controller)
    BY <2>1, <2>3 DEF Unbound
  <2>6. \A j \in Runs : j # k => r[j] = run[j]
    BY <1>0
  <2>7. r[k].stage = "over" /\ r[k].back = "refused"
    BY <1>0, <2>1 DEF Run
  <2> HIDE DEF r
  <2>8. r[k].back \notin Lively /\ binding \in {NoRun, k} /\ UNCHANGED <<kind, shown>>
    BY <2>1, <2>3, <2>7 DEF Lively
  <2> QED BY <2>1, <2>2, <2>4, <2>5, <2>6, <2>7, <2>8, OverAlone
<1>4. CASE ~forced' /\ Receive(k)
  <2> DEFINE taken == TakenFrom(k)
  <2>0. run[k].events # <<>> /\ UNCHANGED <<kind, shown, forced>> /\ ~forced
    BY <1>4, ReceiveIs DEF history
  <2>1. /\ taken \in [Runs -> Run]
        /\ \A j \in Runs : /\ taken[j].stage = run[j].stage /\ taken[j].back = run[j].back
                           /\ taken[j].message = run[j].message /\ taken[j].task = run[j].task
    BY <2>0, TakenIs
  <2> HIDE DEF taken
  <2>9. isStreaming => shown'.streaming
    BY <2>0 DEF Single
  <2>2. CASE ~IsBound(k)
    <3>1. run' = taken /\ UNCHANGED <<isStreaming, binding>>
      BY <1>4, <2>2, ReceiveIs DEF taken
    <3>2. \A j \in Runs : Works(run', binding', j) => Works(run, binding, j)
      BY <2>1, <3>1 DEF Works
    <3> QED BY <2>0, <2>9, <3>1, <3>2, Narrower
  <2>3. CASE IsBound(k) /\ Head(run[k].events) = "text"
    <3>1. run' = Shows(k) /\ UNCHANGED <<isStreaming, binding>> /\ binding = k
      BY <1>4, <2>3, ReceiveIs DEF IsBound
    <3>2. \A j \in Runs : j # k => run'[j] = run[j]
      BY <2>0, <2>3, <3>1, ShowsIs
    <3>3. \A j \in Runs : Works(run', binding', j) => Works(run, binding, j)
      BY <3>1, <3>2 DEF Works
    <3> QED BY <2>0, <2>9, <3>1, <3>3, Narrower
  <2>4. CASE IsBound(k) /\ Head(run[k].events) # "text"
    <3> DEFINE q == Unbound(taken)
               said == IF Head(run[k].events) = "failed" THEN "text" ELSE q[k].message
               r == [q EXCEPT ![k].message = said]
    <3>1. binding' = NoRun /\ binding = k /\ ProcessChatQueue(r, controller)
      BY <1>4, <2>4, ReceiveIs DEF taken, IsBound
    <3>2. run[k].back = "ended"
      <4>1. run[k].events \in Seq(Event) /\ Sound(run[k], k)
        BY <1>0 DEF Run, Event, Kept
      <4>2. 1 \in DOMAIN run[k].events /\ Head(run[k].events) = run[k].events[1]
        BY <2>0, <4>1
      <4> QED BY <2>4, <4>1, <4>2 DEF Sound
    <3>3. q \in [Runs -> Run]
      BY <2>1, UnboundType
    <3>4. \A j \in Runs : /\ j = binding => q[j].stage = "over"
                          /\ j # binding => q[j].stage = taken[j].stage
                          /\ q[j].back = taken[j].back /\ q[j].task = taken[j].task
                          /\ q[j].message = taken[j].message
      BY <2>1, UnboundIs
    <3> HIDE DEF q
    <3>5. said \in Message
      BY <3>3, FieldTypes DEF Message
    <3> HIDE DEF said
    <3>6. r \in [Runs -> Run]
      BY <3>3, <3>5, FieldTypes
    <3>7. /\ \A j \in Runs : j # k => r[j] = q[j]
          /\ r[k].stage = q[k].stage /\ r[k].back = q[k].back
      BY <3>3 DEF Run
    <3> HIDE DEF r
    <3>8. \A j \in Runs : j # k => /\ r[j].stage = run[j].stage /\ r[j].back = run[j].back
                                   /\ r[j].task = run[j].task /\ r[j].message = run[j].message
      BY <2>1, <3>1, <3>4, <3>7
    <3>9. r[k].stage = "over" /\ r[k].back = "ended"
      BY <2>1, <3>1, <3>2, <3>4, <3>7
    <3>10. r[k].back \notin Lively /\ binding \in {NoRun, k} /\ UNCHANGED <<kind, shown>>
      BY <2>0, <3>1, <3>9 DEF Lively
    <3>11. Works(run, binding, k)
      BY <3>1 DEF Works
    <3> QED BY <2>0, <3>1, <3>6, <3>8, <3>9, <3>10, <3>11, OverAlone
  <2> QED BY <2>2, <2>3, <2>4
<1>5. CASE ~forced' /\ TimerFires(k)
  BY <1>5 DEF TimerFires
<1> QED BY <1>a, <1>1, <1>2, <1>3, <1>4, <1>5

LEMMA UserStepsSingle ==
    ASSUME TypeOK, Standing, Single, User \/ Render
    PROVE  Single'
<1>0. /\ run \in [Runs -> Run] /\ NoRun \notin Runs /\ UNCHANGED kind
      /\ binding # NoRun => binding \in Runs
      /\ isStreaming \in BOOLEAN /\ forced \in BOOLEAN
  <2>1. UNCHANGED kind
    BY DEF User, Render, Submit, Stop, CancelAll, ForceExecute, Cancel, StartEdit, EndEdit, MoveUp
  <2> QED BY <2>1, Bounds DEF TypeOK, NoRun, Runs
<1>1. CASE UNCHANGED <<run, isStreaming, binding, forced>> /\ Rendered
  BY <1>0, <1>1, Narrower DEF Rendered
<1>2. CASE Submit
  <2>1. submitted + 1 \in Tasks /\ Rendered /\ UNCHANGED forced
    BY <1>2, Bounds DEF Submit, TypeOK, Tasks, history
  <2>2. CASE shown.streaming
    BY <1>1, <1>2, <2>1, <2>2 DEF Submit
  <2>3. CASE ~shown.streaming
    <3>1. Execute(submitted + 1, run, controller) /\ UNCHANGED binding
      BY <1>2, <2>3 DEF Submit
    <3>2. CASE forced
      BY <2>1, <3>2 DEF Single
    <3>3. CASE ~forced
      <4>1. \A j \in Runs : ~Works(run, binding, j)
        BY <2>3, <3>3 DEF Single
      <4>2. binding = NoRun
        BY <1>0, <4>1 DEF Works
      <4>3. \A j \in Runs : ~Works(run, NoRun, j)
        BY <4>1, <4>2
      <4>4. shown'.streaming
        BY <2>1, <3>1 DEF Execute, Rendered
      <4>5. binding' = NoRun
        BY <3>1, <4>2
      <4> QED BY <1>0, <2>1, <3>1, <4>3, <4>4, <4>5, ExecuteAlone
    <3> QED BY <1>0, <3>2, <3>3
  <2> QED BY <2>2, <2>3
<1>3. CASE Stop
  <2>1. /\ run' = Flagged(Aborted(run)) /\ UNCHANGED <<isStreaming, binding, kind, forced>>
        /\ Rendered
    BY <1>3 DEF Stop, history
  <2>2. Alike(run', run)
    BY <2>1, StoppedIs
  <2>3. \A j \in Runs : Works(run', binding', j) => Works(run, binding, j)
    BY <2>1, <2>2 DEF Works, Alike
  <2>4. isStreaming => shown'.streaming
    BY <2>1 DEF Rendered
  <2> QED BY <2>1, <2>3, <2>4, Narrower
<1>4. ASSUME NEW t \in Tasks, ForceExecute(t) PROVE Single'
  BY <1>4 DEF ForceExecute, Single
<1>5. CASE CancelAll
  BY <1>1, <1>5 DEF CancelAll
<1>6. ASSUME NEW t \in Tasks, Cancel(t) \/ StartEdit(t) \/ EndEdit(t) \/ MoveUp(t)
      PROVE  Single'
  BY <1>1, <1>6 DEF Cancel, StartEdit, EndEdit, MoveUp, ui, history
<1>7. CASE Render
  BY <1>1, <1>7 DEF Render, ui, history
<1> QED BY <1>2, <1>3, <1>4, <1>5, <1>6, <1>7 DEF User

LEMMA NextSingle == TypeOK /\ Standing /\ Single /\ [Next]_vars => Single'
<1> SUFFICES ASSUME TypeOK, Standing, Single, [Next]_vars PROVE Single'
  OBVIOUS
<1>1. ASSUME NEW k \in Runs, System(k) \/ Model(k) PROVE Single'
  <2>1. CASE \/ BackendAnswers(k) \/ ShellExits(k) \/ PipesClose(k) \/ NextItem(k)
             \/ CallEnds(k) \/ AskAgain(k) \/ StreamEnds(k)
    <3>1. PICK b \in Run : Backend(k, b) /\ Grows(run[k], b)
      BY <2>1, StreamStep
    <3>2. /\ run \in [Runs -> Run] /\ run' = [run EXCEPT ![k] = b]
          /\ UNCHANGED <<kind, isStreaming, forced, binding, shown>>
      BY <3>1 DEF Backend, TypeOK, history
    <3>3. /\ b.stage = run[k].stage /\ b.task = run[k].task /\ b.message = run[k].message
          /\ run[k].back \in Lively
      BY <3>1 DEF Grows
    <3>4. \A j \in Runs : run'[j] = IF j = k THEN b ELSE run[j]
      BY <3>2
    <3>5. \A j \in Runs : Works(run', binding', j) => Works(run, binding, j)
      BY <3>2, <3>3, <3>4 DEF Works
    <3>6. CASE forced
      BY <3>2, <3>6 DEF Single
    <3>7. CASE ~forced
      <4>1. isStreaming => shown'.streaming
        BY <3>2, <3>7 DEF Single
      <4> QED BY <3>2, <3>5, <4>1, Narrower
    <3> QED BY <3>6, <3>7
  <2> QED BY <1>1, <2>1, RunStepsSingle DEF System, Model
<1>2. CASE UNCHANGED vars
  BY <1>2 DEF vars, ui, history, Single, Works
<1>3. CASE Resting
  BY <1>2, <1>3 DEF Resting
<1> QED BY <1>1, <1>2, <1>3, UserStepsSingle DEF Next

LEMMA InitSingle == Init => Single
<1> SUFFICES ASSUME Init PROVE Single
  OBVIOUS
<1>1. \A k \in Runs : run[k].stage = "none" /\ run[k].back = "none" /\ binding # k
  BY Bounds DEF Init, Unused, NoRun, Runs
<1> QED BY <1>1 DEF Single, Works, Lively, Init

(* As long as nobody forces a task and no stream times out, one task at     *)
(* most is at work, in the interface or in the backend.  A command that the *)
(* user has stopped may still run there, beside the next task.             *)
THEOREM TasksTakeTurns == Spec => []OneAtATime
<1> QED BY TypeCorrect, InitStanding, NextStanding, InitSingle, NextSingle, SingleIsOne,
           PTL DEF Spec

(***************************************************************************)
(* Every task once.                                                        *)
(***************************************************************************)

(* A queue that holds no task twice, and what becomes of it.               *)
Tidy(q) == \A i, j \in DOMAIN q : q[i] = q[j] => i = j

LEMMA TailTidy ==
    ASSUME NEW q \in Seq(Tasks), q # <<>>, Tidy(q)
    PROVE  Tidy(Tail(q)) /\ Range(Tail(q)) = Range(q) \ {Head(q)}
<1>1. /\ Head(q) = q[1] /\ Tail(q) \in Seq(Tasks) /\ Len(q) \in Nat \ {0}
      /\ Len(Tail(q)) = Len(q) - 1 /\ \A j \in DOMAIN Tail(q) : Tail(q)[j] = q[j + 1]
  BY HeadTailType
<1>2. \A j \in DOMAIN Tail(q) : j \in Nat /\ j + 1 \in DOMAIN q /\ j + 1 # 1
  BY <1>1
<1>3. \A i \in DOMAIN q : i # 1 => i - 1 \in DOMAIN Tail(q) /\ Tail(q)[i - 1] = q[i]
  BY <1>1
<1>4. Tidy(Tail(q))
  BY <1>1, <1>2 DEF Tidy
<1>5. 1 \in DOMAIN q
  BY <1>1
<1>6. ASSUME NEW x \in Range(Tail(q)) PROVE x \in Range(q) \ {Head(q)}
  <2>1. PICK j \in DOMAIN Tail(q) : x = Tail(q)[j]
    BY <1>6 DEF Range
  <2> QED BY <1>1, <1>2, <1>5, <2>1 DEF Range, Tidy
<1>7. ASSUME NEW x \in Range(q) \ {Head(q)} PROVE x \in Range(Tail(q))
  <2>1. PICK i \in DOMAIN q : x = q[i]
    BY <1>7 DEF Range
  <2> QED BY <1>1, <1>3, <1>7, <2>1 DEF Range
<1> QED BY <1>4, <1>6, <1>7

LEMMA AppendTidy ==
    ASSUME NEW q \in Seq(Tasks), NEW t \in Tasks, t \notin Range(q), Tidy(q)
    PROVE  Tidy(Append(q, t)) /\ Range(Append(q, t)) = Range(q) \cup {t}
<1> DEFINE a == Append(q, t)
<1>1. /\ a \in Seq(Tasks) /\ Len(a) = Len(q) + 1 /\ Len(q) \in Nat /\ a[Len(q) + 1] = t
      /\ \A i \in DOMAIN q : i \in DOMAIN a /\ a[i] = q[i]
      /\ \A i \in DOMAIN a : i \in DOMAIN q \/ i = Len(q) + 1
      /\ Len(q) + 1 \in DOMAIN a
  OBVIOUS
<1> HIDE DEF a
<1>2. Tidy(a)
  BY <1>1 DEF Tidy, Range
<1>3. Range(a) = Range(q) \cup {t}
  BY <1>1 DEF Range
<1> QED BY <1>2, <1>3 DEF a

LEMMA WithoutTidy ==
    ASSUME queue \in Seq(Tasks), Tidy(queue), NEW t
    PROVE  Tidy(Without(t)) /\ Range(Without(t)) = Range(queue) \ {t}
<1>1. CASE t \notin Range(queue)
  BY <1>1 DEF Without
<1>2. CASE t \in Range(queue)
  <2> DEFINE i == CHOOSE i \in DOMAIN queue : queue[i] = t
             w == RemoveAt(queue, i)
  <2>1. i \in DOMAIN queue /\ queue[i] = t
    BY <1>2 DEF Range
  <2> HIDE DEF i
  <2>2. /\ w \in Seq(Tasks) /\ Len(w) = Len(queue) - 1
        /\ \A j \in DOMAIN w : w[j] = queue[IF j < i THEN j ELSE j + 1]
    BY <2>1, RemovedType
  <2> HIDE DEF w
  <2>3. \A j \in DOMAIN w : LET m == IF j < i THEN j ELSE j + 1
                             IN m \in DOMAIN queue /\ m # i /\ w[j] = queue[m]
    BY <2>1, <2>2
  <2>4. \A m \in DOMAIN queue : m # i =>
            LET j == IF m < i THEN m ELSE m - 1 IN j \in DOMAIN w /\ w[j] = queue[m]
    BY <2>1, <2>2
  <2>5. Tidy(w)
    BY <2>1, <2>2, <2>3 DEF Tidy
  <2>6. \A x : x \in Range(w) <=> \E j \in DOMAIN w : x = w[j]
    BY DEF Range
  <2>7. \A x : x \in Range(queue) <=> \E j \in DOMAIN queue : x = queue[j]
    BY DEF Range
  <2>8. Range(w) = Range(queue) \ {t}
    <3>1. ASSUME NEW x \in Range(w) PROVE x \in Range(queue) \ {t}
      <4>1. PICK j \in DOMAIN w : x = w[j]
        BY <3>1, <2>6
      <4>2. PICK m \in DOMAIN queue : m # i /\ x = queue[m]
        BY <2>3, <4>1
      <4> QED BY <2>1, <2>7, <4>2 DEF Tidy
    <3>2. ASSUME NEW x \in Range(queue) \ {t} PROVE x \in Range(w)
      <4>1. PICK m \in DOMAIN queue : x = queue[m]
        BY <3>2, <2>7
      <4>2. m # i
        BY <2>1, <3>2, <4>1
      <4> QED BY <2>4, <2>6, <4>1, <4>2
    <3> QED BY <3>1, <3>2
  <2>9. Without(t) = w
    BY <1>2 DEF Without, w, i
  <2> QED BY <2>5, <2>8, <2>9
<1> QED BY <1>1, <1>2

LEMMA MovedTidy ==
    ASSUME NEW q \in Seq(Tasks), Tidy(q), NEW i \in 2 .. Len(q)
    PROVE  LET m == [q EXCEPT ![i] = q[i - 1], ![i - 1] = q[i]]
           IN Tidy(m) /\ Range(m) = Range(q)
<1> DEFINE m == [q EXCEPT ![i] = q[i - 1], ![i - 1] = q[i]]
<1>1. /\ i \in DOMAIN q /\ i - 1 \in DOMAIN q /\ i # i - 1 /\ DOMAIN m = DOMAIN q
      /\ m[i] = q[i - 1] /\ m[i - 1] = q[i]
      /\ \A j \in DOMAIN q : j # i /\ j # i - 1 => m[j] = q[j]
  OBVIOUS
<1> HIDE DEF m
<1>2. Tidy(m)
  BY <1>1 DEF Tidy
<1>3. Range(m) = Range(q)
  <2>1. \A x : x \in Range(q) => x \in Range(m)
    BY <1>1 DEF Range
  <2>2. \A x : x \in Range(m) => x \in Range(q)
    BY <1>1 DEF Range
  <2> QED BY <2>1, <2>2
<1> QED BY <1>2, <1>3 DEF m

(* The runs of a task among the runs r, and what it has come to.           *)
Doing(r, t) == {k \in Runs : r[k].task = t}
Taken(r, t) == (IF t \in cancelled THEN 1 ELSE 0) + Cardinality(Doing(r, t))

(* A task that waits has not begun and was not cancelled, and one that no   *)
(* longer waits has, or was; a task forced too late is not shown any more.  *)
Counted ==
    /\ Tidy(queue)
    /\ \A t \in Range(queue) \cup Range(shown.queue) \cup cancelled \cup stale : t \in 1 .. submitted
    /\ \A k \in Runs : run[k].task <= submitted
    /\ \A t \in stale : t \notin Range(queue) \cup Range(shown.queue)
    /\ \A t \in Range(queue) : t \notin cancelled /\ Doing(run, t) = {}
    /\ \A t \in 1 .. submitted :
          t \in Range(queue) \/ Taken(run, t) = (IF t \in stale THEN 2 ELSE 1)

LEMMA RunsCount ==
    ASSUME NEW r, NEW t
    PROVE  IsFiniteSet(Doing(r, t)) /\ Cardinality(Doing(r, t)) \in Nat
<1>1. IsFiniteSet(Runs)
  <2>1. 1 \in Int /\ MaxRuns \in Int
    BY Bounds
  <2> QED BY <2>1, FS_Interval DEF Runs
<1>2. IsFiniteSet(Doing(r, t))
  BY <1>1, FS_Subset DEF Doing
<1> QED BY <1>2, FS_CardinalityType

LEMMA CountedMeans == TypeOK /\ Counted => EachTaskOnce
<1> SUFFICES ASSUME TypeOK, Counted, NEW t \in 1 .. submitted
             PROVE  Cardinality({i \in DOMAIN queue : queue[i] = t})
                    + Cardinality({t} \cap cancelled) + Cardinality(RunsOf(t))
                    = (IF t \in stale THEN 2 ELSE 1)
  BY DEF EachTaskOnce
<1>1. RunsOf(t) = Doing(run, t) /\ Cardinality(RunsOf(t)) \in Nat
  BY RunsCount DEF RunsOf, Doing
<1>2. Cardinality({}) = 0 /\ Cardinality({t}) = 1
  BY FS_EmptySet, FS_Singleton
<1>3. Cardinality({t} \cap cancelled) = IF t \in cancelled THEN 1 ELSE 0
  <2>1. {t} \cap cancelled = IF t \in cancelled THEN {t} ELSE {}
    OBVIOUS
  <2> QED BY <1>2, <2>1
<1>4. CASE t \in Range(queue)
  <2>1. PICK i \in DOMAIN queue : queue[i] = t
    BY <1>4 DEF Range
  <2>2. {j \in DOMAIN queue : queue[j] = t} = {i}
    BY <2>1 DEF Counted, Tidy
  <2>3. Cardinality({j \in DOMAIN queue : queue[j] = t}) = 1
    BY <2>2, FS_Singleton
  <2>4. t \notin cancelled /\ t \notin stale /\ Doing(run, t) = {}
    BY <1>4 DEF Counted
  <2> QED BY <1>1, <1>2, <1>3, <2>3, <2>4
<1>5. CASE t \notin Range(queue)
  <2>1. {j \in DOMAIN queue : queue[j] = t} = {}
    BY <1>5 DEF Range
  <2>2. Taken(run, t) = IF t \in stale THEN 2 ELSE 1
    BY <1>5 DEF Counted
  <2>3. Cardinality({i \in DOMAIN queue : queue[i] = t}) = 0
    BY <1>2, <2>1
  <2>4. Taken(run, t) = Cardinality({t} \cap cancelled) + Cardinality(RunsOf(t))
    BY <1>1, <1>3 DEF Taken
  <2>5. Cardinality({t} \cap cancelled) \in Nat
    BY <1>3
  <2> QED BY <1>1, <2>2, <2>3, <2>4, <2>5
<1> QED BY <1>4, <1>5

(* A step that begins no run, and takes from the queue what is cancelled.  *)
LEMMA NobodyBegins ==
    ASSUME TypeOK, Counted, \A k \in Runs : run'[k].task = run[k].task, Tidy(queue'),
           Range(queue') \subseteq Range(queue),
           cancelled' = cancelled \cup (Range(queue) \ Range(queue')),
           shown' = shown \/ shown'.queue = queue',
           UNCHANGED <<submitted, stale>>
    PROVE  Counted'
<1>1. Range(shown.queue)' \subseteq Range(queue) \cup Range(shown.queue)
  <2>1. CASE shown' = shown
    BY <2>1 DEF Range
  <2>2. CASE shown'.queue = queue'
    <3>1. Range(shown.queue)' = Range(queue')
      BY <2>2 DEF Range
    <3> QED BY <3>1
  <2> QED BY <2>1, <2>2
<1>2. Range(queue)' = Range(queue')
  BY DEF Range
<1>3. \A t : Doing(run, t)' = Doing(run, t)
  BY DEF Doing
<1>4. /\ Tidy(queue)' /\ \A k \in Runs : run'[k].task <= submitted'
      /\ \A t \in Range(queue)' \cup Range(shown.queue)' \cup cancelled' \cup stale' :
            t \in 1 .. submitted'
      /\ \A t \in stale' : t \notin Range(queue)' \cup Range(shown.queue)'
  BY <1>1, <1>2 DEF Counted, Tidy
<1>5. ASSUME NEW t \in Range(queue)' PROVE t \notin cancelled' /\ Doing(run, t)' = {}
  BY <1>2, <1>3, <1>5 DEF Counted
<1>6. ASSUME NEW t \in 1 .. submitted', t \notin Range(queue)'
      PROVE  Taken(run, t)' = (IF t \in stale' THEN 2 ELSE 1)
  <2>1. Cardinality(Doing(run, t))' = Cardinality(Doing(run, t)) /\ Cardinality(Doing(run, t)) \in Nat
    BY <1>3, RunsCount
  <2>2. CASE t \in Range(queue)
    <3>1. t \notin cancelled /\ t \in cancelled' /\ t \notin stale /\ Doing(run, t) = {}
      BY <1>2, <1>6, <2>2 DEF Counted
    <3>2. Cardinality(Doing(run, t)) = 0
      BY <3>1, FS_EmptySet
    <3>3. Taken(run, t)' = (IF t \in cancelled' THEN 1 ELSE 0) + Cardinality(Doing(run, t))'
      BY DEF Taken
    <3> QED BY <2>1, <3>1, <3>2, <3>3
  <2>3. CASE t \notin Range(queue)
    <3>1. t \in cancelled' <=> t \in cancelled
      BY <2>3
    <3>2. Taken(run, t) = IF t \in stale THEN 2 ELSE 1
      BY <1>6, <2>3 DEF Counted
    <3> QED BY <2>1, <3>1, <3>2 DEF Taken
  <2> QED BY <2>2, <2>3
<1> QED BY <1>4, <1>5, <1>6 DEF Counted

(* What Execute does to the runs of a task.                                *)
LEMMA OneMore ==
    ASSUME TypeOK, Kept(run, used), NEW t \in Tasks, NEW r \in [Runs -> Run], NEW c,
           Execute(t, r, c), \A k \in Runs : r[k].task = run[k].task
    PROVE  /\ \A k \in Runs : run'[k].task \in {t, run[k].task}
           /\ \A x \in Tasks : x # t => Doing(run', x) = Doing(run, x)
           /\ Cardinality(Doing(run', t)) = Cardinality(Doing(run, t)) + 1
<1>0. run' = [r EXCEPT ![used + 1] = Begun(t)] /\ used < MaxRuns
  BY ExecuteBegins
<1>1. used + 1 \in Runs /\ used \in Nat
  BY <1>0, Bounds DEF TypeOK, Runs
<1>2. Begun(t).task = t
  BY BegunIs
<1>3. \A k \in Runs : run'[k].task = IF k = used + 1 THEN t ELSE run[k].task
  BY <1>0, <1>1, <1>2
<1>4. run[used + 1].task = 0 /\ 0 \notin Tasks
  BY <1>1, Bounds DEF Kept, Tasks
<1>5. \A x \in Tasks : x # t => Doing(run', x) = Doing(run, x)
  BY <1>3, <1>4 DEF Doing
<1>6. Doing(run', t) = Doing(run, t) \cup {used + 1} /\ used + 1 \notin Doing(run, t)
  BY <1>1, <1>3, <1>4 DEF Doing
<1>7. Cardinality(Doing(run', t)) = Cardinality(Doing(run, t)) + 1
  BY <1>6, RunsCount, FS_AddElement
<1> QED BY <1>3, <1>5, <1>7

(* A step that begins a task: the next one, a new one, or one forced.      *)
LEMMA SomeoneBegins ==
    ASSUME TypeOK, Kept(run, used), Counted, NEW t \in Tasks, NEW r \in [Runs -> Run], NEW c,
           Execute(t, r, c), \A k \in Runs : r[k].task = run[k].task, UNCHANGED cancelled,
           Tidy(queue'), Range(queue') = Range(queue) \ {t},
           shown' = shown \/ shown'.queue = queue',
           \/ t \in Range(queue) /\ UNCHANGED <<submitted, stale>>
           \/ t = submitted + 1 /\ submitted' = submitted + 1 /\ UNCHANGED stale
           \/ /\ t \in Range(shown.queue) \ Range(queue) /\ stale' = stale \cup {t}
              /\ UNCHANGED submitted /\ shown'.queue = queue'
    PROVE  Counted'
<1>0. submitted \in Nat /\ submitted' \in Nat /\ submitted <= submitted' /\ t \in 1 .. submitted'
  <2>1. submitted \in Nat
    BY Bounds DEF TypeOK
  <2> QED BY <2>1 DEF Counted
<1>1. /\ \A k \in Runs : run'[k].task \in {t, run[k].task}
      /\ \A x \in Tasks : x # t => Doing(run', x) = Doing(run, x)
      /\ Cardinality(Doing(run', t)) = Cardinality(Doing(run, t)) + 1
  BY OneMore
<1>2. Range(queue)' = Range(queue) \ {t}
  BY DEF Range
<1>3. Range(shown.queue)' \subseteq Range(queue) \cup Range(shown.queue)
  <2>1. CASE shown' = shown
    BY <2>1 DEF Range
  <2>2. CASE shown'.queue = queue'
    <3>1. Range(shown.queue)' = Range(queue)'
      BY <2>2 DEF Range
    <3> QED BY <1>2, <3>1
  <2> QED BY <2>1, <2>2
<1>4. \A x \in Range(queue)' \cup Range(shown.queue)' \cup cancelled' \cup stale' :
          x \in 1 .. submitted'
  <2>1. \A x \in Range(queue) \cup Range(shown.queue) \cup cancelled \cup stale :
            x \in 1 .. submitted'
    BY <1>0 DEF Counted
  <2>2. stale' \subseteq stale \cup {t}
    OBVIOUS
  <2> QED BY <1>0, <1>2, <1>3, <2>1, <2>2
<1>5. \A k \in Runs : run'[k].task <= submitted'
  <2>1. \A k \in Runs : run[k].task \in Nat /\ run[k].task <= submitted
    <3>1. \A k \in Runs : run[k].task \in Nat
      BY Bounds DEF TypeOK, Run
    <3> QED BY <3>1 DEF Counted
  <2> QED BY <1>0, <1>1, <2>1
<1>6. Tidy(queue)'
  BY DEF Tidy
<1>7. \A x \in stale' : x \notin Range(queue)' \cup Range(shown.queue)'
  <2>1. \A x \in stale : x \notin Range(queue)' \cup Range(shown.queue)'
    BY <1>2, <1>3 DEF Counted
  <2>2. CASE stale' = stale
    BY <2>1, <2>2
  <2>3. CASE stale' = stale \cup {t} /\ shown'.queue = queue'
    <3>1. Range(shown.queue)' = Range(queue)'
      BY <2>3 DEF Range
    <3> QED BY <1>2, <2>1, <2>3, <3>1
  <2> QED BY <2>2, <2>3
<1>8. Range(queue)' \subseteq Tasks /\ 1 .. submitted' \subseteq Tasks
  <2>1. Range(queue) \subseteq Tasks
    BY DEF TypeOK, Range
  <2>2. submitted' <= MaxTasks
    BY <1>0, Bounds DEF TypeOK, Tasks
  <2> QED BY <1>0, <1>2, <2>1, <2>2, Bounds DEF Tasks
<1>9. ASSUME NEW x \in Range(queue)' PROVE x \notin cancelled' /\ Doing(run, x)' = {}
  <2>1. x \in Range(queue) /\ x # t /\ x \in Tasks
    BY <1>2, <1>8, <1>9
  <2>2. x \notin cancelled /\ Doing(run, x) = {}
    BY <2>1 DEF Counted
  <2>3. Doing(run, x)' = Doing(run', x)
    BY DEF Doing
  <2> QED BY <1>1, <2>1, <2>2, <2>3
<1>10. ASSUME NEW x \in 1 .. submitted', x \notin Range(queue)'
       PROVE  Taken(run, x)' = (IF x \in stale' THEN 2 ELSE 1)
  <2>0. /\ Taken(run, x)' = (IF x \in cancelled THEN 1 ELSE 0) + Cardinality(Doing(run', x))
        /\ Taken(run, x) = (IF x \in cancelled THEN 1 ELSE 0) + Cardinality(Doing(run, x))
    BY DEF Taken, Doing
  <2>1. CASE x # t
    <3>1. x \notin Range(queue) /\ x \in 1 .. submitted /\ (x \in stale' <=> x \in stale)
      BY <1>0, <1>2, <1>10, <2>1
    <3>2. Taken(run, x) = (IF x \in stale THEN 2 ELSE 1)
      BY <3>1 DEF Counted
    <3>3. Doing(run', x) = Doing(run, x)
      BY <1>1, <1>8, <2>1
    <3> QED BY <2>0, <3>1, <3>2, <3>3
  <2>2. CASE x = t
    <3>0. Cardinality(Doing(run, t)) \in Nat
      BY RunsCount
    <3>1. CASE t \in Range(queue) /\ UNCHANGED stale
      <4>1. t \notin cancelled /\ t \notin stale /\ Doing(run, t) = {}
        BY <3>1 DEF Counted
      <4>2. Cardinality(Doing(run, t)) = 0
        BY <4>1, FS_EmptySet
      <4> QED BY <1>1, <2>0, <2>2, <3>1, <4>1, <4>2
    <3>2. CASE t = submitted + 1 /\ UNCHANGED stale
      <4>1. t \notin cancelled /\ t \notin stale
        BY <1>0, <3>2 DEF Counted
      <4>2. Doing(run, t) = {}
        BY <1>0, <3>2 DEF Counted, Doing
      <4>3. Cardinality(Doing(run, t)) = 0
        BY <4>2, FS_EmptySet
      <4> QED BY <1>1, <2>0, <2>2, <3>2, <4>1, <4>3
    <3>3. CASE t \in Range(shown.queue) \ Range(queue) /\ stale' = stale \cup {t}
      <4>1. t \in 1 .. submitted /\ t \notin stale
        BY <3>3 DEF Counted
      <4>2. Taken(run, t) = 1
        BY <3>3, <4>1 DEF Counted
      <4> QED BY <1>1, <2>0, <2>2, <3>0, <3>3, <4>2
    <3> QED BY <3>1, <3>2, <3>3
  <2> QED BY <2>1, <2>2
<1> QED BY <1>4, <1>5, <1>6, <1>7, <1>9, <1>10 DEF Counted

LEMMA ProcessCounts ==
    ASSUME TypeOK, Kept(run, used), Counted, NEW r \in [Runs -> Run], NEW c,
           ProcessChatQueue(r, c), \A k \in Runs : r[k].task = run[k].task,
           UNCHANGED <<submitted, shown, cancelled, stale>>
    PROVE  Counted'
<1>0. queue \in Seq(Tasks) /\ Tidy(queue)
  BY DEF TypeOK, Counted
<1>1. CASE queue # <<>> /\ Head(queue) \notin editing
  <2>1. queue' = Tail(queue) /\ Execute(Head(queue), r, c)
    BY <1>1 DEF ProcessChatQueue, Dequeue
  <2>2. Head(queue) \in Tasks /\ Head(queue) \in Range(queue)
    BY <1>0, <1>1, HeadTailType DEF Range
  <2>3. Tidy(Tail(queue)) /\ Range(Tail(queue)) = Range(queue) \ {Head(queue)}
    BY <1>0, <1>1, TailTidy
  <2>4. Tidy(queue') /\ Range(queue') = Range(queue) \ {Head(queue)}
    BY <2>1, <2>3
  <2> QED BY <2>1, <2>2, <2>4, SomeoneBegins
<1>2. CASE ~(queue # <<>> /\ Head(queue) \notin editing)
  <2>1. run' = r /\ queue' = queue
    BY <1>2 DEF ProcessChatQueue
  <2>2. /\ \A k \in Runs : run'[k].task = run[k].task
        /\ Tidy(queue') /\ Range(queue') \subseteq Range(queue)
        /\ cancelled' = cancelled \cup (Range(queue) \ Range(queue'))
    BY <1>0, <2>1
  <2> QED BY <2>2, NobodyBegins
<1> QED BY <1>1, <1>2

(* Nothing is cancelled, and the queue holds what it held.                 *)
LEMMA QueueStays ==
    ASSUME TypeOK, Counted, \A k \in Runs : run'[k].task = run[k].task, UNCHANGED queue,
           shown' = shown \/ shown'.queue = queue', UNCHANGED <<submitted, cancelled, stale>>
    PROVE  Counted'
<1>1. /\ Tidy(queue') /\ Range(queue') \subseteq Range(queue)
      /\ cancelled' = cancelled \cup (Range(queue) \ Range(queue'))
  BY DEF Counted
<1> QED BY <1>1, NobodyBegins

LEMMA TaskKept ==
    ASSUME NEW r \in [Runs -> Run], NEW k \in Runs, NEW how
    PROVE  \A j \in Runs :
              /\ \A stage : [r EXCEPT ![k].stage = stage, ![k].message = how][j].task = r[j].task
              /\ [r EXCEPT ![k].message = how][j].task = r[j].task
<1>1. ASSUME NEW j \in Runs, NEW stage
      PROVE  [r EXCEPT ![k].stage = stage, ![k].message = how][j].task = r[j].task
  BY DEF Run
<1>2. ASSUME NEW j \in Runs
      PROVE  [r EXCEPT ![k].message = how][j].task = r[j].task
  BY DEF Run
<1> QED BY <1>1, <1>2

LEMMA RunStepsCount ==
    ASSUME TypeOK, Standing, Counted, NEW k \in Runs,
           ShellEnds(k) \/ SendReturns(k) \/ SendFails(k) \/ Receive(k) \/ TimerFires(k)
    PROVE  Counted'
<1>0. run \in [Runs -> Run] /\ Kept(run, used)
  BY DEF TypeOK, Standing
<1>9. UNCHANGED <<submitted, shown, cancelled, stale>>
  BY DEF ShellEnds, SendReturns, SendFails, Receive, TimerFires, history
<1>1. CASE ShellEnds(k)
  <2>1. PICK how \in {"output", "stopped"} : ProcessChatQueue(Left(k, how), NoRun)
    BY <1>1, ShellEndsIs
  <2> DEFINE r == Left(k, how)
  <2>2. r \in [Runs -> Run] /\ \A j \in Runs : r[j].task = run[j].task
    <3>1. /\ r \in [Runs -> Run] /\ \A j \in Runs : j # k => r[j] = run[j]
          /\ r[k].task = run[k].task
      BY LeftIs DEF Message
    <3> HIDE DEF r
    <3> QED BY <3>1
  <2>3. ProcessChatQueue(r, NoRun)
    BY <2>1
  <2> HIDE DEF r
  <2> QED BY <1>0, <1>9, <2>2, <2>3, ProcessCounts
<1>2. CASE SendReturns(k)
  <2>1. run' = [run EXCEPT ![k].stage = "bound", ![k].message = "empty"] /\ UNCHANGED queue
    BY <1>2 DEF SendReturns
  <2>2. \A j \in Runs : run'[j].task = run[j].task
    BY <1>0, <2>1, TaskKept
  <2> QED BY <1>9, <2>1, <2>2, QueueStays
<1>3. CASE SendFails(k)
  <2> DEFINE q == Unbound(run)
             r == [q EXCEPT ![k].stage = "over", ![k].message = "error"]
  <2>1. q \in [Runs -> Run] /\ \A j \in Runs : q[j].task = run[j].task
    BY <1>0, UnboundType, UnboundIs
  <2>2. ProcessChatQueue(r, controller)
    BY <1>3 DEF SendFails
  <2> HIDE DEF q
  <2>3. r \in [Runs -> Run] /\ \A j \in Runs : r[j].task = q[j].task
    <3>1. r \in [Runs -> Run]
      BY <2>1, FieldTypes DEF Message
    <3>2. \A j \in Runs : r[j].task = q[j].task
      BY <2>1, TaskKept
    <3> QED BY <3>1, <3>2
  <2> HIDE DEF r
  <2>4. \A j \in Runs : r[j].task = run[j].task
    BY <2>1, <2>3
  <2> QED BY <1>0, <1>9, <2>2, <2>3, <2>4, ProcessCounts
<1>4. CASE Receive(k)
  <2> DEFINE taken == TakenFrom(k)
             q     == Unbound(taken)
             said  == IF Head(run[k].events) = "failed" THEN "text" ELSE q[k].message
             r     == [q EXCEPT ![k].message = said]
  <2>0. run[k].events # <<>>
    BY <1>4, ReceiveIs
  <2>1. taken \in [Runs -> Run] /\ \A j \in Runs : taken[j].task = run[j].task
    BY <2>0, TakenIs
  <2>2. \/ run' = taken /\ UNCHANGED queue
        \/ run' = Shows(k) /\ Head(run[k].events) = "text" /\ UNCHANGED queue
        \/ ProcessChatQueue(r, controller)
    BY <1>4, ReceiveIs
  <2> HIDE DEF taken
  <2>3. q \in [Runs -> Run] /\ \A j \in Runs : q[j].task = taken[j].task
    BY <2>1, UnboundType, UnboundIs
  <2> HIDE DEF q
  <2>4. said \in Message
    BY <2>3, FieldTypes DEF Message
  <2> HIDE DEF said
  <2>5. r \in [Runs -> Run] /\ \A j \in Runs : r[j].task = run[j].task
    <3>1. r \in [Runs -> Run]
      BY <2>3, <2>4, FieldTypes
    <3>2. \A j \in Runs : r[j].task = q[j].task
      BY <2>3, TaskKept
    <3> HIDE DEF r
    <3> QED BY <2>1, <2>3, <3>1, <3>2
  <2> HIDE DEF r
  <2>6. CASE ProcessChatQueue(r, controller)
    BY <1>0, <1>9, <2>5, <2>6, ProcessCounts
  <2>7. CASE run' = taken /\ UNCHANGED queue
    <3>1. \A j \in Runs : run'[j].task = run[j].task
      BY <2>1, <2>7
    <3> QED BY <1>9, <2>7, <3>1, QueueStays
  <2>8. CASE run' = Shows(k) /\ Head(run[k].events) = "text" /\ UNCHANGED queue
    <3>1. \A j \in Runs : run'[j].task = run[j].task
      BY <2>0, <2>8, ShowsIs
    <3> QED BY <1>9, <2>8, <3>1, QueueStays
  <2> QED BY <2>2, <2>6, <2>7, <2>8
<1>5. CASE TimerFires(k)
  <2> DEFINE q    == Unbound(run)
             said == IF q[k].message = "empty" THEN "error" ELSE q[k].message
             r    == [q EXCEPT ![k].message = said]
  <2>1. q \in [Runs -> Run] /\ \A j \in Runs : q[j].task = run[j].task
    BY <1>0, UnboundType, UnboundIs
  <2>2. ProcessChatQueue(r, controller)
    BY <1>5 DEF TimerFires
  <2> HIDE DEF q
  <2>3. said \in Message
    BY <2>1, FieldTypes DEF Message
  <2> HIDE DEF said
  <2>4. r \in [Runs -> Run] /\ \A j \in Runs : r[j].task = q[j].task
    <3>1. r \in [Runs -> Run]
      BY <2>1, <2>3, FieldTypes
    <3>2. \A j \in Runs : r[j].task = q[j].task
      BY <2>1, TaskKept
    <3> QED BY <3>1, <3>2
  <2> HIDE DEF r
  <2>5. \A j \in Runs : r[j].task = run[j].task
    BY <2>1, <2>4
  <2> QED BY <1>0, <1>9, <2>2, <2>4, <2>5, ProcessCounts
<1> QED BY <1>1, <1>2, <1>3, <1>4, <1>5

LEMMA UserStepsCount ==
    ASSUME TypeOK, Standing, Counted, User \/ Render
    PROVE  Counted'
<1>0. /\ run \in [Runs -> Run] /\ Kept(run, used) /\ queue \in Seq(Tasks) /\ Tidy(queue)
      /\ submitted \in Nat
  BY Bounds DEF TypeOK, Standing, Counted
<1>1. CASE Submit
  <2>1. /\ submitted' = submitted + 1 /\ submitted + 1 \in Tasks /\ shown'.queue = queue'
        /\ UNCHANGED <<cancelled, stale>>
    BY <1>1, Bounds DEF Submit, TypeOK, Tasks, Rendered, history
  <2>2. submitted + 1 \notin Range(queue)
    BY <1>0 DEF Counted
  <2>3. CASE ~shown.streaming
    <3>1. Execute(submitted + 1, run, controller) /\ queue' = queue
      BY <1>1, <2>3 DEF Submit
    <3>2. Tidy(queue') /\ Range(queue') = Range(queue) \ {submitted + 1}
      BY <1>0, <2>2, <3>1
    <3>3. \A k \in Runs : run[k].task = run[k].task
      OBVIOUS
    <3> QED BY <1>0, <2>1, <3>1, <3>2, <3>3, SomeoneBegins
  <2>4. CASE shown.streaming
    <3> DEFINE t == submitted + 1
    <3>1. queue' = Append(queue, t) /\ run' = run
      BY <1>1, <2>4 DEF Submit
    <3>2. t \in Tasks /\ t \notin Range(queue) /\ submitted' = t /\ submitted < t /\ t \in Nat
      BY <1>0, <2>1, <2>2
    <3> HIDE DEF t
    <3>3. Tidy(Append(queue, t)) /\ Range(Append(queue, t)) = Range(queue) \cup {t}
      BY <1>0, <3>2, AppendTidy
    <3>4. Range(queue)' = Range(queue) \cup {t} /\ Tidy(queue)'
      BY <3>1, <3>3 DEF Range, Tidy
    <3>5. Range(shown.queue)' = Range(queue) \cup {t}
      BY <2>1, <3>4 DEF Range
    <3>6. \A x : Doing(run, x)' = Doing(run, x)
      BY <3>1 DEF Doing
    <3>7. t \notin cancelled /\ t \notin stale
      BY <1>0, <3>2 DEF Counted
    <3>8. Doing(run, t) = {}
      BY <1>0, <3>2 DEF Counted, Doing
    <3>9. \A x \in 1 .. t : x = t \/ x \in 1 .. submitted
      BY <1>0, <3>2, <2>1
    <3>10. \A x \in 1 .. submitted : x \in 1 .. t
      BY <1>0, <3>2
    <3>11. \A x \in Range(queue)' \cup Range(shown.queue)' \cup cancelled' \cup stale' :
               x \in 1 .. submitted'
      BY <1>0, <2>1, <3>2, <3>4, <3>5, <3>10 DEF Counted
    <3>12. \A k \in Runs : run'[k].task <= submitted'
      <4>1. \A k \in Runs : run[k].task \in Nat
        BY <1>0, Bounds DEF Run
      <4> QED BY <1>0, <3>1, <3>2, <4>1 DEF Counted
    <3>13. \A x \in stale' : x \notin Range(queue)' \cup Range(shown.queue)'
      BY <2>1, <3>4, <3>5, <3>7 DEF Counted
    <3>14. \A x \in Range(queue)' : x \notin cancelled' /\ Doing(run, x)' = {}
      BY <2>1, <3>4, <3>6, <3>7, <3>8 DEF Counted
    <3>15. \A x \in 1 .. submitted' :
               x \in Range(queue)' \/ Taken(run, x)' = (IF x \in stale' THEN 2 ELSE 1)
      <4>1. \A x : Taken(run, x)' = Taken(run, x)
        BY <2>1, <3>6 DEF Taken
      <4> QED BY <2>1, <3>2, <3>4, <3>9, <4>1 DEF Counted
    <3> QED BY <3>4, <3>11, <3>12, <3>13, <3>14, <3>15 DEF Counted
  <2> QED BY <2>3, <2>4
<1>2. CASE Stop
  <2>1. /\ run' = Flagged(Aborted(run)) /\ UNCHANGED <<queue, submitted, cancelled, stale>>
        /\ shown'.queue = queue'
    BY <1>2 DEF Stop, history, Rendered
  <2>2. \A k \in Runs : run'[k].task = run[k].task
    BY <2>1, StoppedIs DEF Alike
  <2> QED BY <2>1, <2>2, QueueStays
<1>3. ASSUME NEW t \in Tasks, ForceExecute(t) PROVE Counted'
  <2> DEFINE q == Flagged(Aborted(run))
             r == Unbound(q)
  <2>1. q \in [Runs -> Run] /\ \A k \in Runs : q[k].task = run[k].task
    BY StoppedIs DEF Alike
  <2>2. Execute(t, r, controller) /\ queue' = Without(t) /\ shown'.queue = queue'
    BY <1>3 DEF ForceExecute, Rendered
  <2> HIDE DEF q
  <2>3. r \in [Runs -> Run] /\ \A k \in Runs : r[k].task = q[k].task
    BY <2>1, UnboundType, UnboundIs
  <2> HIDE DEF r
  <2>4. \A k \in Runs : r[k].task = run[k].task
    BY <2>1, <2>3
  <2>5. Tidy(Without(t)) /\ Range(Without(t)) = Range(queue) \ {t}
    BY <1>0, WithoutTidy
  <2>6. Tidy(queue') /\ Range(queue') = Range(queue) \ {t}
    BY <2>2, <2>5
  <2>7. UNCHANGED <<submitted, cancelled>>
    BY <1>3 DEF ForceExecute
  <2>8. \/ t \in Range(queue) /\ stale' = stale
        \/ t \in Range(shown.queue) \ Range(queue) /\ stale' = stale \cup {t}
    BY <1>3 DEF ForceExecute
  <2> QED BY <1>0, <2>2, <2>3, <2>4, <2>6, <2>7, <2>8, SomeoneBegins
<1>4. ASSUME NEW t \in Tasks, Cancel(t) PROVE Counted'
  <2>1. /\ queue' = Without(t) /\ cancelled' = cancelled \cup {t} /\ t \in Range(queue)
        /\ UNCHANGED <<run, submitted, stale>> /\ shown'.queue = queue'
    BY <1>4 DEF Cancel, Rendered
  <2>2. Tidy(Without(t)) /\ Range(Without(t)) = Range(queue) \ {t}
    BY <1>0, WithoutTidy
  <2>3. /\ Tidy(queue') /\ Range(queue') \subseteq Range(queue)
        /\ cancelled' = cancelled \cup (Range(queue) \ Range(queue'))
        /\ \A k \in Runs : run'[k].task = run[k].task
    BY <2>1, <2>2
  <2> QED BY <2>1, <2>3, NobodyBegins
<1>5. CASE CancelAll
  <2>1. /\ queue' = <<>> /\ cancelled' = cancelled \cup Range(queue)
        /\ UNCHANGED <<run, submitted, stale>> /\ shown'.queue = queue'
    BY <1>5 DEF CancelAll, Rendered
  <2>2. Range(<<>>) = {} /\ Tidy(<<>>)
    BY DEF Range, Tidy
  <2>3. /\ Tidy(queue') /\ Range(queue') \subseteq Range(queue)
        /\ cancelled' = cancelled \cup (Range(queue) \ Range(queue'))
        /\ \A k \in Runs : run'[k].task = run[k].task
    BY <2>1, <2>2
  <2> QED BY <2>1, <2>3, NobodyBegins
<1>6. ASSUME NEW t \in Tasks, StartEdit(t) \/ EndEdit(t) PROVE Counted'
  <2>1. UNCHANGED <<run, queue, submitted, cancelled, stale>> /\ shown'.queue = queue'
    BY <1>6 DEF StartEdit, EndEdit, ui, history, Rendered
  <2> QED BY <2>1, QueueStays
<1>7. ASSUME NEW t \in Tasks, MoveUp(t) PROVE Counted'
  <2>1. PICK i \in 2 .. Len(queue) :
            /\ queue[i] = t /\ queue' = [queue EXCEPT ![i] = queue[i - 1], ![i - 1] = t]
    BY <1>7 DEF MoveUp
  <2>2. UNCHANGED <<run, submitted, cancelled, stale>> /\ shown'.queue = queue'
    BY <1>7 DEF MoveUp, history, Rendered
  <2> DEFINE m == [queue EXCEPT ![i] = queue[i - 1], ![i - 1] = queue[i]]
  <2>3. Tidy(m) /\ Range(m) = Range(queue)
    BY <1>0, MovedTidy
  <2>4. queue' = m
    BY <2>1
  <2> HIDE DEF m
  <2>5. /\ Tidy(queue') /\ Range(queue') \subseteq Range(queue)
        /\ cancelled' = cancelled \cup (Range(queue) \ Range(queue'))
        /\ \A k \in Runs : run'[k].task = run[k].task
    BY <2>2, <2>3, <2>4
  <2> QED BY <2>2, <2>5, NobodyBegins
<1>8. CASE Render
  <2>1. UNCHANGED <<run, queue, submitted, cancelled, stale>> /\ shown'.queue = queue'
    BY <1>8 DEF Render, ui, history, Rendered
  <2> QED BY <2>1, QueueStays
<1> QED BY <1>1, <1>2, <1>3, <1>4, <1>5, <1>6, <1>7, <1>8 DEF User

LEMMA NextCounted == TypeOK /\ Standing /\ Counted /\ [Next]_vars => Counted'
<1> SUFFICES ASSUME TypeOK, Standing, Counted, [Next]_vars PROVE Counted'
  OBVIOUS
<1>1. ASSUME NEW k \in Runs, System(k) \/ Model(k) PROVE Counted'
  <2>1. CASE \/ BackendAnswers(k) \/ ShellExits(k) \/ PipesClose(k) \/ NextItem(k)
             \/ CallEnds(k) \/ AskAgain(k) \/ StreamEnds(k)
    <3>1. PICK b \in Run : Backend(k, b) /\ Grows(run[k], b)
      BY <2>1, StreamStep
    <3>2. /\ run \in [Runs -> Run] /\ run' = [run EXCEPT ![k] = b] /\ b.task = run[k].task
          /\ UNCHANGED <<queue, shown, submitted, cancelled, stale>>
      BY <3>1 DEF Backend, TypeOK, history, Grows
    <3>3. \A j \in Runs : run'[j].task = run[j].task
      BY <3>2
    <3> QED BY <3>2, <3>3, QueueStays
  <2> QED BY <1>1, <2>1, RunStepsCount DEF System, Model
<1>2. CASE UNCHANGED vars
  <2>1. UNCHANGED <<run, queue, shown, submitted, cancelled, stale>>
    BY <1>2 DEF vars, ui, history
  <2> QED BY <2>1, QueueStays
<1>3. CASE Resting
  BY <1>2, <1>3 DEF Resting
<1> QED BY <1>1, <1>2, <1>3, UserStepsCount DEF Next

LEMMA InitCounted == Init => Counted
<1> SUFFICES ASSUME Init PROVE Counted
  OBVIOUS
<1>1. /\ queue = <<>> /\ shown.queue = <<>> /\ cancelled = {} /\ stale = {} /\ submitted = 0
      /\ \A k \in Runs : run[k].task = 0
  BY DEF Init, Unused
<1>2. Range(<<>>) = {} /\ Tidy(<<>>)
  BY DEF Range, Tidy
<1> QED BY <1>1, <1>2 DEF Counted

(* A task submitted waits, or was cancelled, or was begun, and once; one    *)
(* that was forced from a bar still showing it is begun once more.         *)
THEOREM TasksAreDoneOnce == Spec => []EachTaskOnce
<1> QED BY TypeCorrect, InitStanding, NextStanding, InitCounted, NextCounted, CountedMeans,
           PTL DEF Spec
=============================================================================
