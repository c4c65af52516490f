--------------------------- MODULE TaskStoreProofs ---------------------------
(* Theorems about TaskStore, for all values of its constants, however many *)
(* sessions share the file and wherever they crash.                        *)
EXTENDS TaskStore, TLAPS

AnyStep == Next \/ \E s \in Sessions : Crash(s)

(***************************************************************************)
(* Type correctness.  It needs that a call that creates a task holds it.   *)
(***************************************************************************)
Holds(w) ==
    pc[w] = "command" \/ (pc[w] \in {"truncate", "write"} /\ call[w].tool = "TaskCreate")

Typed == TypeOK /\ \A w \in Workers : Holds(w) => copy[w] # <<>>

(* Syncing a task yields a task of the same id. *)
LEMMA SyncedType ==
    ASSUME TypeOK, NEW t \in Task, NEW u \in Synced(t)
    PROVE  u \in Task /\ u.id = t.id /\ u.code \in {t.code, exit[t.id]}
<1>1. t.id \in Ids /\ exit[t.id] \in Exits
  BY DEF TypeOK, Task
<1>2. ASSUME NEW code \in Exits
      PROVE  Ended(t, code) \in Task /\ Ended(t, code).id = t.id /\ Ended(t, code).code = code
  <2>1. (IF code = "zero" THEN "completed" ELSE "failed") \in Statuses
    BY DEF Statuses
  <2> QED BY <2>1 DEF Ended, Task
<1>3. LET v == [t EXCEPT !.status = "stopped"]
      IN  v \in Task /\ v.id = t.id /\ v.code = t.code
  BY DEF Task, Statuses
<1>4. u \in {t, Ended(t, exit[t.id]), [t EXCEPT !.status = "stopped"]}
  BY DEF Synced
<1> QED BY <1>1, <1>2, <1>3, <1>4

LEMMA NoCallType == NoCall \in Call
<1>1. NoCall.id \in Ids
  BY BoundsAssumption, SMT DEF NoCall, Ids
<1> QED BY <1>1 DEF NoCall, Call, Tools, Statuses

LEMMA InitTyped == Init => Typed
<1> SUFFICES ASSUME Init PROVE Typed
  OBVIOUS
<1>1. nextId \in 1 .. MaxTasks + 1 /\ calls \in 0 .. MaxCalls
  BY BoundsAssumption, SMT DEF Init
<1>2. store \in Seq(Task) /\ copy \in [Workers -> Seq(Task)]
  BY SMT DEF Init
<1>3. exit \in [Ids -> Exits] /\ told \in [Ids -> Statuses \cup {"none"}]
  BY DEF Init, Exits
<1>4. ASSUME NEW w \in Workers PROVE ~Holds(w)
  BY <1>4 DEF Init, Holds
<1> QED BY <1>1, <1>2, <1>3, <1>4, NoCallType DEF Init, Typed, TypeOK

LEMMA StartCallTyped ==
    ASSUME Typed, NEW w \in Workers, NEW c \in Inputs, StartCall(w, c)
    PROVE  Typed'
<1>1. c \in Call
  BY DEF Inputs
<1>4. users' \subseteq Sessions
  BY WorkersAssumption DEF Typed, TypeOK, StartCall
<1>2. TypeOK'
  BY <1>1, <1>4, BoundsAssumption, SMT DEF Typed, TypeOK, StartCall
<1>3. ASSUME NEW v \in Workers, Holds(v)' PROVE copy'[v] # <<>>
  BY <1>3, SMT DEF Typed, TypeOK, Holds, StartCall
<1> QED BY <1>2, <1>3 DEF Typed

LEMMA LeftUnfinishedType ==
    ASSUME TypeOK, NEW ws, LeftUnfinished(ws)
    PROVE  /\ store' \in Seq(Task) /\ torn' \in BOOLEAN /\ spoilt' \in BOOLEAN
           /\ overlaid' \subseteq Workers
<1>1. <<>> \in Seq(Task)
  BY SMT
<1> QED BY <1>1 DEF LeftUnfinished, TypeOK

LEMMA FailTyped ==
    ASSUME Typed, NEW w \in Workers, NEW how \in {"refused", "unreadable", "unwritable"},
           Fail(w, how), UNCHANGED <<exit, created, told, calls, users>>,
           store' \in Seq(Task), torn' \in BOOLEAN, spoilt' \in BOOLEAN, overlaid' \subseteq Workers
    PROVE  Typed'
<1>1. TypeOK'
  BY NoCallType DEF Typed, TypeOK, Fail
<1>2. ASSUME NEW v \in Workers, Holds(v)' PROVE copy'[v] # <<>>
  BY <1>2, SMT DEF Typed, TypeOK, Holds, Fail
<1> QED BY <1>1, <1>2 DEF Typed

(* A call that goes on to write a list of tasks keeps the types. *)
LEMMA GoWriteTyped ==
    ASSUME Typed, NEW w \in Workers, NEW tasks \in Seq(Task),
           GoWrite(w, tasks), call[w].tool = "TaskCreate" => tasks # <<>>,
           UNCHANGED <<store, torn, exit, call, overlaid, created, told, calls, users, spoilt>>,
           nextId' \in 1 .. MaxTasks + 1
    PROVE  Typed'
<1>1. TypeOK'
  BY SMT DEF Typed, TypeOK, GoWrite
<1>2. ASSUME NEW v \in Workers, Holds(v)' PROVE copy'[v] # <<>>
  BY <1>2, SMT DEF Typed, TypeOK, Holds, GoWrite
<1> QED BY <1>1, <1>2 DEF Typed

LEMMA StoreTasks ==
    ASSUME TypeOK
    PROVE  /\ Len(store) \in Nat /\ DOMAIN store = 1 .. Len(store)
           /\ \A i \in DOMAIN store : store[i] \in Task
BY SMT DEF TypeOK

(* What TaskGet and TaskList write is the store synced: tasks with the ids *)
(* they had, and codes they had or that their exit files say.              *)
IsSynced(after, tool, id) ==
    /\ after \in [DOMAIN store -> UNION {{store[i]} \cup Synced(store[i]) : i \in DOMAIN store}]
    /\ \A i \in DOMAIN store :
          after[i] \in IF tool = "TaskList" \/ store[i].id = id
                       THEN Synced(store[i]) ELSE {store[i]}

Keeps(after) ==
    /\ after \in Seq(Task) /\ DOMAIN after = DOMAIN store
    /\ \A i \in DOMAIN store : /\ after[i].id = store[i].id
                               /\ after[i].code \in {store[i].code, exit[store[i].id]}

LEMMA SyncedTasks ==
    ASSUME TypeOK, NEW after, NEW tool, NEW id, IsSynced(after, tool, id)
    PROVE  Keeps(after)
<1>1. ASSUME NEW i \in DOMAIN store
      PROVE  /\ after[i] \in Task /\ after[i].id = store[i].id
             /\ after[i].code \in {store[i].code, exit[store[i].id]}
  <2>1. store[i] \in Task
    BY StoreTasks
  <2>2. CASE after[i] \in Synced(store[i])
    BY <2>1, <2>2, SyncedType
  <2>3. CASE after[i] = store[i]
    BY <2>1, <2>3
  <2> QED BY <2>2, <2>3 DEF IsSynced
<1>2. after = [i \in DOMAIN store |-> after[i]]
  BY DEF IsSynced
<1>3. after \in Seq(Task) /\ DOMAIN after = DOMAIN store
  BY <1>1, <1>2, StoreTasks, SMT
<1> QED BY <1>1, <1>3 DEF Keeps

LEMMA WithStatusTasks ==
    ASSUME TypeOK, NEW id, NEW status \in Statuses
    PROVE  /\ WithStatus(store, id, status) \in Seq(Task)
           /\ DOMAIN WithStatus(store, id, status) = DOMAIN store
           /\ \A i \in DOMAIN store :
                 /\ WithStatus(store, id, status)[i].id = store[i].id
                 /\ WithStatus(store, id, status)[i].code = store[i].code
<1> DEFINE W == WithStatus(store, id, status)
<1>1. DOMAIN W = DOMAIN store
  BY DEF WithStatus
<1>2. ASSUME NEW i \in DOMAIN store
      PROVE  W[i] \in Task /\ W[i].id = store[i].id /\ W[i].code = store[i].code
  <2>1. store[i] \in Task
    BY StoreTasks
  <2>2. W[i] = IF store[i].id = id THEN [store[i] EXCEPT !.status = status] ELSE store[i]
    BY DEF WithStatus
  <2> QED BY <2>1, <2>2, SMT DEF Task
<1>3. W = [i \in 1 .. Len(store) |-> W[i]]
  BY StoreTasks DEF WithStatus
<1>4. W \in Seq(Task)
  <2> HIDE DEF W
  <2> QED BY <1>1, <1>2, <1>3, StoreTasks, SMT
<1> QED BY <1>1, <1>2, <1>4

LEMMA StatusAskedType ==
    ASSUME TypeOK, NEW w \in Workers
    PROVE  StatusAsked(call[w]) \in Statuses /\ call[w].id \in Ids
BY SMT DEF TypeOK, StatusAsked, Call, Statuses

LEMMA NewTaskType ==
    ASSUME TypeOK, nextId \in Ids, NEW status \in Statuses, NEW pid \in BOOLEAN
    PROVE  /\ NewTask(status, pid) \in Task
           /\ Append(store, NewTask(status, pid)) \in Seq(Task)
           /\ Append(store, NewTask(status, pid)) # <<>>
           /\ Append(store, NewTask(status, pid))[Len(Append(store, NewTask(status, pid)))]
                 = NewTask(status, pid)
<1>1. NewTask(status, pid) \in Task
  BY DEF NewTask, Task, Exits
<1>2. store \in Seq(Task)
  BY DEF TypeOK
<1> HIDE DEF NewTask
<1> QED BY <1>1, <1>2, SMT

LEMMA ReadsTyped ==
    ASSUME Typed, NEW w \in Workers, ReadAndSync(w) \/ ReadAndSet(w) \/ ReadAndCreate(w)
    PROVE  Typed'
<1>1. CASE ReadAndSync(w)
  <2>1. PICK after : IsSynced(after, call[w].tool, call[w].id) /\ GoWrite(w, after)
    BY <1>1 DEF ReadAndSync, IsSynced
  <2>2. after \in Seq(Task)
    BY <2>1, SyncedTasks DEF Typed, Keeps
  <2>3. call[w].tool # "TaskCreate"
    BY <1>1 DEF ReadAndSync, Reads
  <2> QED BY <1>1, <2>1, <2>2, <2>3, GoWriteTyped DEF ReadAndSync, Reads, Typed, TypeOK
<1>2. CASE ReadAndSet(w)
  <2>1. WithStatus(store, call[w].id, StatusAsked(call[w])) \in Seq(Task)
    BY StatusAskedType, WithStatusTasks DEF Typed
  <2>2. call[w].tool # "TaskCreate"
    BY <1>2 DEF ReadAndSet, Reads
  <2> QED BY <1>2, <2>1, <2>2, GoWriteTyped DEF ReadAndSet, Reads, Typed, TypeOK
<1>3. CASE ReadAndCreate(w)
  <2>1. nextId \in Ids /\ nextId' \in 1 .. MaxTasks + 1
    BY <1>3, BoundsAssumption, SMT DEF ReadAndCreate, Ids
  <2>2. UNCHANGED <<store, torn, exit, call, overlaid, created, told, calls, users, spoilt>>
    BY <1>3 DEF ReadAndCreate, Reads
  <2>3. CASE \E status \in Statuses : GoWrite(w, Append(store, NewTask(status, FALSE)))
    BY <2>1, <2>2, <2>3, NewTaskType, GoWriteTyped DEF Typed
  <2>4. CASE /\ copy' = [copy EXCEPT ![w] = Append(store, NewTask("running", TRUE))]
             /\ pc' = [pc EXCEPT ![w] = "command"]
             /\ UNCHANGED answer
    <3> DEFINE tasks == Append(store, NewTask("running", TRUE))
    <3>1. tasks \in Seq(Task) /\ tasks # <<>>
      BY <2>1, NewTaskType DEF Typed, Statuses
    <3> HIDE DEF tasks
    <3>2. copy' = [copy EXCEPT ![w] = tasks]
      BY <2>4 DEF tasks
    <3>3. copy' \in [Workers -> Seq(Task)] /\ answer' = answer
          /\ pc' \in [Workers -> {"idle", "read", "command", "truncate", "write"}]
      BY <2>4, <3>1, <3>2 DEF Typed, TypeOK
    <3>4. ASSUME NEW v \in Workers, Holds(v)' PROVE copy'[v] # <<>>
      <4>1. CASE v = w
        BY <3>1, <3>2, <4>1 DEF Typed, TypeOK
      <4>2. CASE v # w
        <5>1. copy'[v] = copy[v] /\ Holds(v)
          BY <2>2, <2>4, <3>2, <3>4, <4>2 DEF Typed, TypeOK, Holds
        <5> QED BY <5>1 DEF Typed
      <4> QED BY <4>1, <4>2
    <3>5. TypeOK'
      BY <2>1, <2>2, <3>3 DEF Typed, TypeOK
    <3> QED BY <3>4, <3>5 DEF Typed
  <2> QED BY <1>3, <2>3, <2>4 DEF ReadAndCreate, Statuses
<1> QED BY <1>1, <1>2, <1>3

LEMMA CommandEndsTyped ==
    ASSUME Typed, NEW w \in Workers, NEW code \in Exits, CommandEnds(w, code)
    PROVE  Typed'
<1>1. exit' \in [Ids -> Exits]
      /\ pc' \in [Workers -> {"idle", "read", "command", "truncate", "write"}]
  BY DEF Typed, TypeOK, CommandEnds
<1>2. TypeOK'
  BY <1>1 DEF Typed, TypeOK, CommandEnds
<1>3. ASSUME NEW v \in Workers, Holds(v)' PROVE copy'[v] # <<>>
  BY <1>3, SMT DEF Typed, TypeOK, Holds, CommandEnds
<1> QED BY <1>2, <1>3 DEF Typed

LEMMA NewestIdType ==
    ASSUME TypeOK, NEW w \in Workers, copy[w] # <<>>
    PROVE  /\ Len(copy[w]) \in DOMAIN copy[w] /\ copy[w][Len(copy[w])] \in Task
           /\ NewestId(w) \in Ids
<1>1. copy[w] \in Seq(Task)
  BY DEF TypeOK
<1>2. Len(copy[w]) \in DOMAIN copy[w] /\ copy[w][Len(copy[w])] \in Task
  BY <1>1, SMT
<1> QED BY <1>2 DEF NewestId, Task

LEMMA WriteTyped ==
    ASSUME Typed, NEW w \in Workers, Truncate(w) \/ Write(w)
    PROVE  Typed'
<1>1. CASE Truncate(w)
  <2>1. TypeOK'
    <3>1. store' \in Seq(Task)
      BY <1>1, SMT DEF Truncate
    <3> QED BY <1>1, <3>1 DEF Typed, TypeOK, Truncate
  <2>2. ASSUME NEW v \in Workers, Holds(v)' PROVE copy'[v] # <<>>
    BY <1>1, <2>2, SMT DEF Typed, TypeOK, Holds, Truncate
  <2> QED BY <2>1, <2>2 DEF Typed
<1>2. CASE Write(w)
  <2>1. created' \subseteq Ids
    BY <1>2, NewestIdType DEF Write, Typed, TypeOK, Holds
  <2>2. StatusAsked(call[w]) \in Statuses /\ call[w].id \in Ids
    BY StatusAskedType DEF Typed
  <2>3. told' \in [Ids -> Statuses \cup {"none"}]
    BY <1>2, <2>2 DEF Write, Typed, TypeOK
  <2>4. /\ torn' \in BOOLEAN /\ spoilt' \in BOOLEAN /\ overlaid' \subseteq Workers
        /\ UNCHANGED <<exit, nextId, calls, users>>
    BY <1>2 DEF Write, Typed, TypeOK
  <2>5. store' \in Seq(Task) /\ copy' \in [Workers -> Seq(Task)]
    <3>1. <<>> \in Seq(Task)
      BY SMT
    <3> QED BY <1>2, <3>1 DEF Write, Typed, TypeOK
  <2>6. TypeOK'
    BY <1>2, <2>1, <2>3, <2>4, <2>5, NoCallType DEF Write, Typed, TypeOK
  <2>7. ASSUME NEW v \in Workers, Holds(v)' PROVE copy'[v] # <<>>
    BY <1>2, <2>7, SMT DEF Write, Typed, TypeOK, Holds
  <2> QED BY <2>6, <2>7 DEF Typed
<1> QED BY <1>1, <1>2

LEMMA CrashTyped ==
    ASSUME Typed, NEW s \in Sessions, Crash(s)
    PROVE  Typed'
<1>1. copy' \in [Workers -> Seq(Task)] /\ call' \in [Workers -> Call]
  BY NoCallType, SMT DEF Crash, Typed, TypeOK
<1>4. /\ store' \in Seq(Task) /\ torn' \in BOOLEAN /\ spoilt' \in BOOLEAN
      /\ overlaid' \subseteq Workers
  BY LeftUnfinishedType DEF Crash, Typed, TypeOK
<1>2. TypeOK'
  BY <1>1, <1>4 DEF Crash, Typed, TypeOK
<1>3. ASSUME NEW w \in Workers, Holds(w)' PROVE copy'[w] # <<>>
  BY <1>3 DEF Crash, Typed, TypeOK, Holds
<1> QED BY <1>2, <1>3 DEF Typed

LEMMA NextTyped ==
    ASSUME Typed, [AnyStep]_vars
    PROVE  Typed'
<1>1. ASSUME UNCHANGED vars PROVE Typed'
  BY <1>1 DEF vars, Typed, TypeOK, Holds
<1>2. ASSUME NEW w \in Workers, Step(w) PROVE Typed'
  <2>1. CASE ReadFails(w) \/ WriteFails(w)
    <3>1. /\ store' \in Seq(Task) /\ torn' \in BOOLEAN /\ spoilt' \in BOOLEAN
          /\ overlaid' \subseteq Workers
      BY <2>1, LeftUnfinishedType DEF ReadFails, WriteFails, Typed, TypeOK
    <3> QED BY <2>1, <3>1, FailTyped DEF ReadFails, WriteFails
  <2>2. CASE ReadAndSync(w) \/ ReadAndSet(w) \/ ReadAndCreate(w)
    BY <2>2, ReadsTyped
  <2>3. CASE Truncate(w) \/ Write(w)
    BY <2>3, WriteTyped
  <2> QED BY <1>2, <2>1, <2>2, <2>3 DEF Step
<1> QED BY <1>1, <1>2, StartCallTyped, CommandEndsTyped, CrashTyped
        DEF AnyStep, Next, Waiting

(* Every variable of the store keeps its type, whatever sessions do and    *)
(* wherever they crash.                                                    *)
THEOREM StoreTypeCorrect == CrashSpec => []TypeOK
<1>1. Typed => TypeOK
  BY DEF Typed
<1> QED BY <1>1, InitTyped, NextTyped, PTL DEF CrashSpec, AnyStep

(***************************************************************************)
(* Exit codes are true.  A list of tasks is backed when the exit files say *)
(* what it says.  An exit file is written while the command of the task    *)
(* runs, and by then no list holds a code for it: exactly one worker has   *)
(* the task, and its exit file says nothing.                               *)
(***************************************************************************)
Backed(tasks) ==
    \A i \in DOMAIN tasks : tasks[i].code # "none" => tasks[i].code = exit[tasks[i].id]

Runs(w, id) == pc[w] = "command" /\ NewestId(w) = id

Exact ==
    /\ Backed(store)
    /\ \A w \in Workers : Backed(copy[w])
    /\ \A id \in Ids : id >= nextId => exit[id] = "none"
    /\ \A w \in Workers, id \in Ids : Runs(w, id) => id < nextId /\ exit[id] = "none"
    /\ \A v, w \in Workers, id \in Ids : Runs(v, id) /\ Runs(w, id) => v = w

Sound == Typed /\ Exact

(* What a file shows after a step: what it showed, what a call wrote, or   *)
(* nothing.                                                                *)
Shown == store' = store \/ store' = <<>> \/ \E w \in Workers : store' = copy[w]

LEMMA UnfinishedShown ==
    ASSUME NEW ws, LeftUnfinished(ws)
    PROVE  Shown /\ (~torn' => ~torn /\ store' = store)
<1>1. CASE torn' = TRUE
  <2>1. store' = <<>>
    BY <1>1 DEF LeftUnfinished
  <2> QED BY <1>1, <2>1 DEF Shown
<1>2. CASE torn' = torn
  <2>1. store' = IF torn THEN <<>> ELSE store
    BY <1>2 DEF LeftUnfinished
  <2> QED BY <1>2, <2>1 DEF Shown
<1> QED BY <1>1, <1>2 DEF LeftUnfinished

(* Only a write that comes to its end changes what can be read. *)
LEMMA NextShown ==
    ASSUME [AnyStep]_vars
    PROVE  Shown /\ (~torn' => (~torn /\ store' = store) \/ \E w \in Workers : Write(w))
<1>1. ASSUME UNCHANGED <<store, torn>> PROVE Shown /\ (~torn' => ~torn /\ store' = store)
  BY <1>1 DEF Shown
<1>2. ASSUME NEW w \in Workers, WriteFails(w)
      PROVE  Shown /\ (~torn' => ~torn /\ store' = store)
  BY <1>1, <1>2, UnfinishedShown DEF WriteFails
<1>3. ASSUME NEW w \in Workers, Truncate(w) PROVE Shown /\ torn'
  BY <1>3 DEF Truncate, Shown
<1>4. ASSUME NEW w \in Workers, Write(w) PROVE Shown
  BY <1>4 DEF Write, Shown
<1>5. ASSUME NEW w \in Workers, ReadFails(w) \/ ReadAndSync(w) \/ ReadAndSet(w) \/ ReadAndCreate(w)
      PROVE  UNCHANGED <<store, torn>>
  BY <1>5 DEF ReadFails, ReadAndSync, ReadAndSet, ReadAndCreate, Reads
<1>6. ASSUME NEW s \in Sessions, Crash(s) PROVE Shown /\ (~torn' => ~torn /\ store' = store)
  BY <1>1, <1>6, UnfinishedShown DEF Crash
<1>7. ASSUME UNCHANGED vars \/ \E w \in Workers, c \in Inputs : StartCall(w, c)
      PROVE  UNCHANGED <<store, torn>>
  BY <1>7 DEF vars, StartCall
<1>8. ASSUME NEW w \in Workers, NEW code \in Exits, CommandEnds(w, code)
      PROVE  UNCHANGED <<store, torn>>
  BY <1>8 DEF CommandEnds
<1> QED BY <1>1, <1>2, <1>3, <1>4, <1>5, <1>6, <1>7, <1>8 DEF AnyStep, Next, Waiting, Step

LEMMA InitExact == Init => Exact
BY SMT DEF Init, Exact, Backed, Runs

(* A step that leaves the exit files alone, starts no command and writes   *)
(* only backed lists keeps the lists exact.                                *)
LEMMA ListsExact ==
    ASSUME Sound, [AnyStep]_vars, UNCHANGED exit,
           nextId' >= nextId, nextId \in Nat, nextId' \in Nat,
           \A w \in Workers : \/ copy'[w] = copy[w]
                              \/ copy'[w] = <<>>
                              \/ copy'[w] \in Seq(Task) /\ Backed(copy'[w]),
           \A w \in Workers : pc'[w] = "command" => pc[w] = "command" /\ copy'[w] = copy[w]
    PROVE  Exact'
<1>1. Backed(store)'
  <2>1. CASE store' = <<>>
    BY <2>1, SMT DEF Backed
  <2> QED BY <2>1, NextShown DEF Sound, Exact, Backed, Shown
<1>2. ASSUME NEW w \in Workers PROVE Backed(copy[w])'
  <2>1. CASE copy'[w] = copy[w]
    BY <2>1 DEF Sound, Exact, Backed
  <2>2. CASE copy'[w] = <<>>
    BY <2>2, SMT DEF Backed
  <2>3. CASE Backed(copy'[w])
    BY <2>3 DEF Backed
  <2> QED BY <2>1, <2>2, <2>3
<1>3. \A id \in Ids : id >= nextId' => exit'[id] = "none"
  BY SMT DEF Sound, Exact, Ids
<1>4. ASSUME NEW w \in Workers, NEW id \in Ids, Runs(w, id)'
      PROVE  Runs(w, id) /\ id < nextId' /\ exit'[id] = "none"
  <2>1. Runs(w, id)
    BY <1>4 DEF Runs, NewestId
  <2>2. id < nextId /\ exit[id] = "none"
    BY <2>1 DEF Sound, Exact
  <2> QED BY <2>1, <2>2, SMT DEF Ids
<1>5. \A v, w \in Workers, id \in Ids : Runs(v, id)' /\ Runs(w, id)' => v = w
  BY <1>4 DEF Sound, Exact
<1> QED BY <1>1, <1>2, <1>3, <1>4, <1>5 DEF Exact

LEMMA AppendBacked ==
    ASSUME Sound, nextId \in Ids, NEW status \in Statuses, NEW pid \in BOOLEAN
    PROVE  Backed(Append(store, NewTask(status, pid)))
<1> DEFINE tasks == Append(store, NewTask(status, pid))
<1>1. store \in Seq(Task) /\ NewTask(status, pid) \in Task /\ NewTask(status, pid).code = "none"
  BY NewTaskType DEF Sound, Typed, TypeOK, NewTask
<1>2. ASSUME NEW i \in DOMAIN tasks
      PROVE  tasks[i] = NewTask(status, pid) \/ (i \in DOMAIN store /\ tasks[i] = store[i])
  <2> HIDE DEF NewTask
  <2> QED BY <1>1, <1>2, SMT
<1> QED BY <1>1, <1>2 DEF Backed, Sound, Exact

LEMMA ReadAndSyncExact ==
    ASSUME Sound, [AnyStep]_vars, NEW w \in Workers, ReadAndSync(w)
    PROVE  Exact'
<1>1. PICK after : IsSynced(after, call[w].tool, call[w].id) /\ GoWrite(w, after)
  BY DEF ReadAndSync, IsSynced
<1>2. Keeps(after)
  BY <1>1, SyncedTasks DEF Sound, Typed
<1>3. after \in Seq(Task) /\ Backed(after)
  BY <1>2 DEF Keeps, Backed, Sound, Exact
<1>4. UNCHANGED <<store, exit, nextId>> /\ nextId \in Nat
  BY SMT DEF ReadAndSync, Reads, Sound, Typed, TypeOK
<1>5. /\ copy' = [copy EXCEPT ![w] = after]
      /\ pc' = [pc EXCEPT ![w] = "truncate"]
  BY <1>1 DEF GoWrite
<1> QED BY <1>3, <1>4, <1>5, ListsExact, SMT DEF Sound, Typed, TypeOK

LEMMA ReadAndSetExact ==
    ASSUME Sound, [AnyStep]_vars, NEW w \in Workers, ReadAndSet(w)
    PROVE  Exact'
<1> DEFINE tasks == WithStatus(store, call[w].id, StatusAsked(call[w]))
<1>1. /\ tasks \in Seq(Task) /\ DOMAIN tasks = DOMAIN store
      /\ \A i \in DOMAIN store : tasks[i].id = store[i].id /\ tasks[i].code = store[i].code
  BY StatusAskedType, WithStatusTasks DEF Sound, Typed
<1>2. Backed(tasks)
  BY <1>1 DEF Backed, Sound, Exact
<1>3. UNCHANGED <<store, exit, nextId>> /\ nextId \in Nat
  BY SMT DEF ReadAndSet, Reads, Sound, Typed, TypeOK
<1>4. /\ copy' = [copy EXCEPT ![w] = tasks]
      /\ pc' = [pc EXCEPT ![w] = "truncate"]
  BY DEF ReadAndSet, GoWrite
<1> HIDE DEF tasks
<1> QED BY <1>1, <1>2, <1>3, <1>4, ListsExact, SMT DEF Sound, Typed, TypeOK

(* The id of the new task is one no exit file and no other worker has. *)
LEMMA StartCommandExact ==
    ASSUME Sound, NEW w \in Workers, nextId \in Ids, nextId' = nextId + 1,
           UNCHANGED <<store, exit>>,
           copy' = [copy EXCEPT ![w] = Append(store, NewTask("running", TRUE))],
           pc' = [pc EXCEPT ![w] = "command"], pc[w] = "read"
    PROVE  Exact'
<1> DEFINE tasks == Append(store, NewTask("running", TRUE))
<1>0. nextId \in Nat /\ "running" \in Statuses
  BY SMT DEF Ids, Statuses
<1>1. Backed(tasks) /\ tasks \in Seq(Task) /\ tasks[Len(tasks)].id = nextId
  <2>1. /\ Backed(tasks) /\ tasks \in Seq(Task)
        /\ tasks[Len(tasks)] = NewTask("running", TRUE)
    BY <1>0, AppendBacked, NewTaskType DEF Sound, Typed
  <2>2. NewTask("running", TRUE).id = nextId
    BY DEF NewTask
  <2> QED BY <2>1, <2>2
<1> HIDE DEF tasks
<1>2. copy' = [copy EXCEPT ![w] = tasks] /\ copy'[w] = tasks
  BY DEF tasks, Sound, Typed, TypeOK
<1>3. ASSUME NEW v \in Workers PROVE Backed(copy[v])'
  <2>1. copy'[v] = tasks \/ copy'[v] = copy[v]
    BY <1>2 DEF Sound, Typed, TypeOK
  <2>2. CASE copy'[v] = tasks
    BY <1>1, <2>2 DEF Backed
  <2>3. CASE copy'[v] = copy[v]
    <3>1. Backed(copy[v]) /\ exit' = exit
      BY DEF Sound, Exact
    <3> QED BY <2>3, <3>1 DEF Backed
  <2> QED BY <2>1, <2>2, <2>3
<1>4. ASSUME NEW v \in Workers, NEW id \in Ids, Runs(v, id)'
      PROVE  (v = w /\ id = nextId) \/ (v # w /\ Runs(v, id) /\ id < nextId)
  <2>1. CASE v = w
    BY <1>1, <1>2, <1>4, <2>1 DEF Runs, NewestId
  <2>2. CASE v # w
    BY <1>2, <1>4, <2>2 DEF Runs, NewestId, Sound, Typed, TypeOK, Exact
  <2> QED BY <2>1, <2>2
<1>5. exit[nextId] = "none" /\ \A id \in Ids : id >= nextId' => exit'[id] = "none"
  BY <1>0, SMT DEF Sound, Exact, Ids
<1>6. ASSUME NEW v \in Workers, NEW id \in Ids, Runs(v, id)'
      PROVE  id < nextId' /\ exit'[id] = "none"
  <2>1. CASE id = nextId
    BY <1>0, <1>5, <2>1, SMT
  <2>2. CASE Runs(v, id) /\ id < nextId
    BY <1>0, <2>2, SMT DEF Sound, Exact, Ids
  <2> QED BY <1>4, <1>6, <2>1, <2>2
<1>7. ASSUME NEW u \in Workers, NEW v \in Workers, NEW id \in Ids, Runs(u, id)', Runs(v, id)'
      PROVE  u = v
  <2>1. ~(nextId < nextId)
    BY <1>0, SMT
  <2> QED BY <1>4, <1>7, <2>1 DEF Sound, Exact
<1>8. Backed(store)'
  BY DEF Backed, Sound, Exact
<1> QED BY <1>3, <1>5, <1>6, <1>7, <1>8 DEF Exact

LEMMA ReadAndCreateExact ==
    ASSUME Sound, [AnyStep]_vars, NEW w \in Workers, ReadAndCreate(w)
    PROVE  Exact'
<1>1. /\ nextId \in Ids /\ nextId' = nextId + 1 /\ nextId \in Nat
      /\ nextId' \in Nat /\ nextId' >= nextId
  BY SMT DEF ReadAndCreate, Ids
<1>2. UNCHANGED <<store, exit>> /\ pc[w] = "read"
  BY DEF ReadAndCreate, Reads
<1>3. ASSUME NEW status \in Statuses, GoWrite(w, Append(store, NewTask(status, FALSE)))
      PROVE  Exact'
  <2> DEFINE tasks == Append(store, NewTask(status, FALSE))
  <2>1. Backed(tasks) /\ tasks \in Seq(Task)
    BY <1>1, AppendBacked, NewTaskType DEF Sound, Typed
  <2>2. copy' = [copy EXCEPT ![w] = tasks] /\ pc' = [pc EXCEPT ![w] = "truncate"]
    BY <1>3 DEF GoWrite
  <2> HIDE DEF tasks
  <2> QED BY <1>1, <1>2, <2>1, <2>2, ListsExact, SMT DEF Sound, Typed, TypeOK
<1> QED BY <1>1, <1>2, <1>3, StartCommandExact DEF ReadAndCreate, Statuses

LEMMA CommandEndsExact ==
    ASSUME Sound, NEW w \in Workers, NEW code \in Exits, CommandEnds(w, code)
    PROVE  Exact'
<1> DEFINE new == NewestId(w)
<1>1. new \in Ids
  BY NewestIdType DEF Sound, Typed, Holds, CommandEnds
<1>2. Runs(w, new) /\ exit[new] = "none" /\ new < nextId
  BY <1>1 DEF Sound, Exact, Runs, CommandEnds
<1>3. \A id \in Ids : id # new => exit'[id] = exit[id]
  BY DEF CommandEnds, Sound, Typed, TypeOK
<1>4. UNCHANGED <<store, copy, nextId>> /\ pc' = [pc EXCEPT ![w] = "truncate"]
  BY DEF CommandEnds
<1>5. ASSUME NEW tasks \in Seq(Task), Backed(tasks)
      PROVE  \A i \in DOMAIN tasks : tasks[i].code # "none" => tasks[i].code = exit'[tasks[i].id]
  <2> SUFFICES ASSUME NEW i \in DOMAIN tasks, tasks[i].code # "none"
               PROVE  tasks[i].code = exit'[tasks[i].id]
    OBVIOUS
  <2>0. tasks[i] \in Task
    BY SMT
  <2>1. tasks[i].id \in Ids
    BY <2>0 DEF Task
  <2>2. tasks[i].code = exit[tasks[i].id]
    BY <1>5 DEF Backed
  <2> QED BY <1>2, <1>3, <2>1, <2>2
<1>6. Backed(store)' /\ \A v \in Workers : Backed(copy[v])'
  BY <1>4, <1>5 DEF Backed, Sound, Typed, TypeOK, Exact
<1>7. ASSUME NEW id \in Ids, id >= nextId' PROVE exit'[id] = "none"
  <2>1. id # new
    BY <1>1, <1>2, <1>4, <1>7, SMT DEF Ids, Sound, Typed, TypeOK
  <2> QED BY <1>3, <1>4, <1>7, <2>1 DEF Sound, Exact
<1>8. ASSUME NEW v \in Workers, NEW id \in Ids, Runs(v, id)'
      PROVE  v # w /\ Runs(v, id) /\ id # new
  <2>1. v # w /\ Runs(v, id)
    BY <1>4, <1>8 DEF Runs, NewestId, Sound, Typed, TypeOK
  <2> QED BY <1>1, <1>2, <2>1 DEF Sound, Exact
<1> QED BY <1>3, <1>4, <1>6, <1>7, <1>8 DEF Exact, Sound

LEMMA NextExact ==
    ASSUME Sound, [AnyStep]_vars
    PROVE  Exact'
<1>0. nextId \in Nat /\ nextId >= nextId
  BY SMT DEF Sound, Typed, TypeOK
<1>1. ASSUME UNCHANGED vars PROVE Exact'
  BY <1>0, <1>1, ListsExact DEF vars
<1>2. ASSUME NEW w \in Workers, NEW c \in Inputs, StartCall(w, c) PROVE Exact'
  BY <1>0, <1>2, ListsExact, SMT DEF StartCall, Sound, Typed, TypeOK
<1>3. ASSUME NEW w \in Workers, ReadFails(w) \/ WriteFails(w) \/ Truncate(w) PROVE Exact'
  BY <1>0, <1>3, ListsExact, SMT DEF ReadFails, WriteFails, Truncate, Fail, Sound, Typed, TypeOK
<1>4. ASSUME NEW w \in Workers, Write(w) PROVE Exact'
  BY <1>0, <1>4, ListsExact, SMT DEF Write, Sound, Typed, TypeOK
<1>5. ASSUME NEW w \in Workers, Step(w) PROVE Exact'
  BY <1>3, <1>4, <1>5, ReadAndSyncExact, ReadAndSetExact, ReadAndCreateExact DEF Step
<1>6. ASSUME NEW s \in Sessions, Crash(s) PROVE Exact'
  BY <1>0, <1>6, ListsExact DEF Crash, Sound, Typed, TypeOK
<1> QED BY <1>1, <1>2, <1>5, <1>6, CommandEndsExact DEF AnyStep, Next, Waiting

(* However many sessions write over one another, and wherever they crash,  *)
(* a recorded exit code is the one the command of that task ended with.    *)
THEOREM RecordedCodesAreTrue == CrashSpec => []ExitCodesAreTrue
<1>1. Init => Sound
  BY InitTyped, InitExact DEF Sound
<1>2. Sound /\ [AnyStep]_vars => Sound'
  BY NextTyped, NextExact DEF Sound
<1>3. Sound => ExitCodesAreTrue
  BY DEF Sound, Exact, Backed, ExitCodesAreTrue
<1> QED BY <1>1, <1>2, <1>3, PTL DEF CrashSpec, AnyStep

(***************************************************************************)
(* What one session keeps.  A call that creates a task or sets a status has *)
(* its session to itself, so no other call of that session holds an older   *)
(* copy; and ids are handed out in order, so a new task has been told       *)
(* nothing.                                                                *)
(***************************************************************************)
Working(w) == pc[w] # "idle"
Holding(w) == pc[w] \in {"command", "truncate", "write"}
Sets(w)    == call[w].tool \in {"TaskUpdate", "TaskStop"}

Exclusive ==
    /\ \A w \in Workers : Working(w) => SessionOf[w] \in users
    /\ \A v, w \in Workers :
          v # w /\ SessionOf[v] = SessionOf[w] /\ Working(v) /\ Working(w)
              => call[w].tool \in SafeTools

Below(tasks, n) == \A i \in DOMAIN tasks : tasks[i].id < n

Numbered ==
    /\ Below(store, nextId)
    /\ \A w \in Workers : Below(copy[w], nextId)
    /\ \A w \in Workers : Holding(w) /\ Sets(w) => call[w].id < nextId
    /\ \A id \in Ids : told[id] # "none" => id < nextId

Guarded == Typed /\ Exclusive /\ Numbered

(* One session alone: who creates or sets does so beside nobody.           *)
LEMMA AloneAtIt ==
    ASSUME Exclusive, AloneInWorkspace, NEW v \in Workers, NEW w \in Workers, v # w,
           Working(v), Working(w)
    PROVE  call[v].tool \in SafeTools /\ call[w].tool \in SafeTools
<1>1. SessionOf[v] = SessionOf[w]
  BY DEF Exclusive, AloneInWorkspace
<1> QED BY <1>1 DEF Exclusive

(* Calls go on, or end, or a session dies: none begins.                    *)
LEMMA ExclusiveStays ==
    ASSUME Exclusive, UNCHANGED users,
           \A w \in Workers : Working(w)' => Working(w) /\ call'[w] = call[w]
    PROVE  Exclusive'
BY DEF Exclusive

LEMMA NextExclusive ==
    ASSUME Typed, Exclusive, [AnyStep]_vars
    PROVE  Exclusive'
<1>1. ASSUME NEW w \in Workers, NEW c \in Inputs, StartCall(w, c) PROVE Exclusive'
  <2>1. /\ users' = users \cup {SessionOf[w]}
        /\ \A v \in Workers : v # w => (Working(v)' <=> Working(v)) /\ call'[v] = call[v]
        /\ call'[w] = c
    BY <1>1, SMT DEF StartCall, Typed, TypeOK, Working
  <2>2. ASSUME NEW v \in Workers, v # w, SessionOf[v] = SessionOf[w], Working(v)
        PROVE  c.tool \in SafeTools /\ call[v].tool \in SafeTools
    <3>1. v \in Busy(SessionOf[w])
      BY <2>2 DEF Busy, Working
    <3> QED BY <1>1, <3>1 DEF StartCall
  <2> QED BY <2>1, <2>2 DEF Exclusive
<1>2. ASSUME NEW w \in Workers, Step(w) \/ \E code \in Exits : CommandEnds(w, code)
      PROVE  Exclusive'
  <2>1. UNCHANGED users /\ Working(w)
    BY <1>2 DEF Step, ReadFails, ReadAndSync, ReadAndSet, ReadAndCreate, Reads, WriteFails, Truncate,
                Write, CommandEnds, Working
  <2>2. \/ call' = call
        \/ call' = [call EXCEPT ![w] = NoCall] /\ pc' = [pc EXCEPT ![w] = "idle"]
    BY <1>2 DEF Step, ReadFails, ReadAndSync, ReadAndSet, ReadAndCreate, Reads, WriteFails, Truncate,
                Write, CommandEnds, Fail
  <2>3. \E place : pc' = [pc EXCEPT ![w] = place]
    BY <1>2 DEF Step, ReadFails, ReadAndSync, ReadAndSet, ReadAndCreate, Reads, WriteFails, Truncate,
                Write, CommandEnds, Fail, GoWrite
  <2>4. \A v \in Workers : Working(v)' => Working(v) /\ call'[v] = call[v]
    BY <2>1, <2>2, <2>3 DEF Working, Typed, TypeOK
  <2> QED BY <2>1, <2>4, ExclusiveStays
<1>3. ASSUME NEW s \in Sessions, Crash(s) PROVE Exclusive'
  <2>1. UNCHANGED users /\ \A v \in Workers : Working(v)' => Working(v) /\ call'[v] = call[v]
    BY <1>3 DEF Crash, Working, Typed, TypeOK
  <2> QED BY <2>1, ExclusiveStays
<1>4. ASSUME UNCHANGED vars PROVE Exclusive'
  BY <1>4 DEF vars, Exclusive, Working
<1> QED BY <1>1, <1>2, <1>3, <1>4 DEF AnyStep, Next, Waiting

(* The ids of a list that is going to be written are below the next. *)
LEMMA NumberedStays ==
    ASSUME Guarded, [AnyStep]_vars, nextId' \in Nat, nextId' >= nextId,
           \A w \in Workers : \/ copy'[w] = copy[w]
                              \/ copy'[w] = <<>>
                              \/ copy'[w] \in Seq(Task) /\ Below(copy'[w], nextId'),
           \A w \in Workers : Holding(w)' /\ Sets(w)' => call'[w].id \in Ids /\ call'[w].id < nextId',
           \A id \in Ids : told'[id] # "none" => id < nextId'
    PROVE  Numbered'
<1>0. nextId \in Nat
  BY SMT DEF Guarded, Typed, TypeOK
<1>1. ASSUME NEW tasks \in Seq(Task), Below(tasks, nextId) PROVE Below(tasks, nextId')
  <2>1. \A i \in DOMAIN tasks : tasks[i].id \in Nat
    <3>1. \A i \in DOMAIN tasks : tasks[i] \in Task
      BY SMT
    <3> QED BY <3>1 DEF Task, Ids
  <2> QED BY <1>0, <1>1, <2>1 DEF Below
<1>2. Below(store', nextId')
  <2>1. CASE store' = <<>>
    BY <2>1, SMT DEF Below
  <2> QED BY <1>1, <2>1, NextShown DEF Shown, Guarded, Numbered, Typed, TypeOK
<1>3. ASSUME NEW w \in Workers PROVE Below(copy'[w], nextId')
  <2>1. CASE copy'[w] = copy[w]
    BY <1>1, <2>1 DEF Guarded, Numbered, Typed, TypeOK
  <2>2. CASE copy'[w] = <<>>
    BY <2>2, SMT DEF Below
  <2> QED BY <2>1, <2>2
<1> QED BY <1>2, <1>3 DEF Numbered, Below

LEMMA NextNumbered ==
    ASSUME Guarded, [AnyStep]_vars
    PROVE  Numbered'
<1>0. nextId \in Nat /\ nextId >= nextId
  BY SMT DEF Guarded, Typed, TypeOK
<1>1. ASSUME UNCHANGED vars PROVE Numbered'
  BY <1>1 DEF vars, Guarded, Numbered, Below, Holding, Sets
<1>2. ASSUME NEW w \in Workers, NEW c \in Inputs, StartCall(w, c) PROVE Numbered'
  <2>1. UNCHANGED <<store, copy, told, nextId>>
    BY <1>2 DEF StartCall
  <2>2. \A v \in Workers : Holding(v)' /\ Sets(v)' => call'[v].id \in Ids /\ call'[v].id < nextId'
    BY <1>2, <2>1 DEF StartCall, Guarded, Numbered, Typed, TypeOK, Holding, Sets, Call
  <2> QED BY <1>0, <2>1, <2>2, NumberedStays DEF Guarded, Numbered
<1>3. ASSUME NEW w \in Workers, ReadFails(w) \/ WriteFails(w) \/ Truncate(w) \/
             \E code \in Exits : CommandEnds(w, code)
      PROVE  Numbered'
  <2>1. UNCHANGED <<told, nextId>>
    BY <1>3 DEF ReadFails, WriteFails, Truncate, CommandEnds, Fail
  <2>2. \A v \in Workers : copy'[v] = copy[v] \/ copy'[v] = <<>>
    BY <1>3 DEF ReadFails, WriteFails, Truncate, CommandEnds, Fail, Guarded, Typed, TypeOK
  <2>3. \A v \in Workers : Holding(v)' /\ Sets(v)' => Holding(v) /\ call'[v] = call[v]
    BY <1>3 DEF ReadFails, WriteFails, Truncate, CommandEnds, Fail, Guarded, Typed, TypeOK, Holding
  <2>4. \A v \in Workers : Holding(v)' /\ Sets(v)' => call'[v].id \in Ids /\ call'[v].id < nextId'
    BY <2>1, <2>3 DEF Sets, Guarded, Numbered, Typed, TypeOK, Call
  <2> QED BY <1>0, <2>1, <2>2, <2>4, NumberedStays DEF Guarded, Numbered
<1>4. ASSUME NEW s \in Sessions, Crash(s) PROVE Numbered'
  <2>1. UNCHANGED <<told, nextId>>
    BY <1>4 DEF Crash
  <2>2. \A v \in Workers : copy'[v] = copy[v] \/ copy'[v] = <<>>
    BY <1>4 DEF Crash
  <2>3. \A v \in Workers : Holding(v)' /\ Sets(v)' => call'[v].id \in Ids /\ call'[v].id < nextId'
    BY <1>4, <2>1 DEF Crash, Guarded, Numbered, Typed, TypeOK, Holding, Sets, Call
  <2> QED BY <1>0, <2>1, <2>2, <2>3, NumberedStays DEF Guarded, Numbered
<1>5. ASSUME NEW w \in Workers, Write(w) PROVE Numbered'
  <2>1. UNCHANGED nextId
    BY <1>5 DEF Write
  <2>2. \A v \in Workers : copy'[v] = copy[v] \/ copy'[v] = <<>>
    BY <1>5 DEF Write, Guarded, Typed, TypeOK
  <2>3. \A v \in Workers : Holding(v)' /\ Sets(v)' => call'[v].id \in Ids /\ call'[v].id < nextId'
    BY <1>5, <2>1 DEF Write, Guarded, Numbered, Typed, TypeOK, Holding, Sets, Call
  <2>4. ASSUME NEW id \in Ids, told'[id] # "none" PROVE id < nextId'
    BY <1>5, <2>1, <2>4 DEF Write, Guarded, Numbered, Typed, TypeOK, Holding, Sets, Call
  <2> QED BY <1>0, <2>1, <2>2, <2>3, <2>4, NumberedStays
<1>6. ASSUME NEW w \in Workers, ReadAndSync(w) \/ ReadAndSet(w) \/ ReadAndCreate(w)
      PROVE  Numbered'
  <2>0. UNCHANGED <<store, told, call>> /\ (nextId' = nextId \/ nextId' = nextId + 1)
    BY <1>6 DEF ReadAndSync, ReadAndSet, ReadAndCreate, Reads
  <2>1. UNCHANGED <<store, told, call>> /\ nextId' \in Nat /\ nextId' >= nextId
    BY <1>0, <2>0, SMT
  <2>2. PICK tasks \in Seq(Task) :
            copy' = [copy EXCEPT ![w] = tasks] /\ Below(tasks, nextId')
    <3>1. CASE ReadAndSync(w)
      <4>1. PICK after : IsSynced(after, call[w].tool, call[w].id) /\ GoWrite(w, after)
        BY <3>1 DEF ReadAndSync, IsSynced
      <4>2. Keeps(after) /\ nextId' = nextId
        BY <3>1, <4>1, SyncedTasks DEF Guarded, Typed, ReadAndSync
      <4> QED BY <4>1, <4>2 DEF Keeps, Below, Guarded, Numbered, GoWrite
    <3>2. CASE ReadAndSet(w)
      <4> DEFINE W == WithStatus(store, call[w].id, StatusAsked(call[w]))
      <4>1. /\ W \in Seq(Task) /\ DOMAIN W = DOMAIN store
            /\ \A i \in DOMAIN store : W[i].id = store[i].id
        BY StatusAskedType, WithStatusTasks DEF Guarded, Typed
      <4>2. copy' = [copy EXCEPT ![w] = W] /\ nextId' = nextId
        BY <3>2 DEF ReadAndSet, GoWrite
      <4> HIDE DEF W
      <4> QED BY <4>1, <4>2 DEF Below, Guarded, Numbered
    <3>3. CASE ReadAndCreate(w)
      <4>0. \/ copy' = [copy EXCEPT ![w] = Append(store, NewTask("pending", FALSE))]
            \/ copy' = [copy EXCEPT ![w] = Append(store, NewTask("failed", FALSE))]
            \/ copy' = [copy EXCEPT ![w] = Append(store, NewTask("running", TRUE))]
        BY <3>3 DEF ReadAndCreate, GoWrite
      <4>1. PICK status \in Statuses, pid \in BOOLEAN :
                copy' = [copy EXCEPT ![w] = Append(store, NewTask(status, pid))]
        <5>1. {"pending", "failed", "running"} \subseteq Statuses
          BY DEF Statuses
        <5> HIDE DEF NewTask, Statuses
        <5> QED BY <4>0, <5>1
      <4> DEFINE new == NewTask(status, pid)
                 A   == Append(store, new)
      <4>2. nextId \in Ids /\ nextId' = nextId + 1 /\ new.id = nextId
        BY <3>3 DEF ReadAndCreate, NewTask
      <4>3. new \in Task /\ A \in Seq(Task) /\ store \in Seq(Task)
        BY <4>2, NewTaskType DEF Guarded, Typed, TypeOK
      <4> HIDE DEF new
      <4>4. ASSUME NEW i \in DOMAIN A PROVE A[i] = new \/ (i \in DOMAIN store /\ A[i] = store[i])
        BY <4>3, <4>4, SMT
      <4> HIDE DEF A
      <4>5. ASSUME NEW i \in DOMAIN store PROVE store[i].id \in Nat /\ store[i].id < nextId
        <5>1. store[i] \in Task
          BY StoreTasks DEF Guarded, Typed
        <5> QED BY <5>1 DEF Task, Ids, Guarded, Numbered, Below
      <4>6. Below(A, nextId')
        BY <1>0, <4>2, <4>4, <4>5 DEF Below
      <4> QED BY <4>1, <4>3, <4>6 DEF A, new
    <3> QED BY <1>6, <3>1, <3>2, <3>3
  <2>3. \A v \in Workers : v # w /\ Holding(v)' => Holding(v)
    BY <1>6 DEF ReadAndSync, ReadAndSet, ReadAndCreate, GoWrite, Holding, Guarded, Typed, TypeOK
  <2>4. ASSUME Sets(w) PROVE call[w].id < nextId
    <3>1. Has(store, call[w].id)
      BY <1>6, <2>4 DEF ReadAndSync, ReadAndSet, ReadAndCreate, Reads, Refused, Has, IsRunning, Sets
    <3> QED BY <3>1 DEF Has, Guarded, Numbered, Below
  <2>5. ASSUME NEW v \in Workers, Holding(v)', Sets(v)'
        PROVE  call'[v].id \in Ids /\ call'[v].id < nextId'
    <3>1. call'[v] = call[v] /\ call[v].id \in Ids /\ call[v].id < nextId
      BY <2>1, <2>3, <2>4, <2>5 DEF Sets, Guarded, Numbered, Typed, TypeOK, Call
    <3> QED BY <1>0, <2>1, <3>1 DEF Ids
  <2>6. \A id \in Ids : told'[id] # "none" => id < nextId'
    BY <1>0, <2>1 DEF Guarded, Numbered, Ids
  <2>7. \A v \in Workers : \/ copy'[v] = copy[v]
                           \/ copy'[v] \in Seq(Task) /\ Below(copy'[v], nextId')
    BY <2>2 DEF Guarded, Typed, TypeOK
  <2> QED BY <2>1, <2>5, <2>6, <2>7, NumberedStays
<1> QED BY <1>1, <1>2, <1>3, <1>4, <1>5, <1>6 DEF AnyStep, Next, Waiting, Step

LEMMA InitGuarded == Init => Guarded
<1> SUFFICES ASSUME Init PROVE Guarded
  OBVIOUS
<1>1. Exclusive
  BY DEF Init, Exclusive, Working
<1>2. Numbered
  BY SMT DEF Init, Numbered, Below, Holding
<1> QED BY <1>1, <1>2, InitTyped DEF Guarded

(* Every list that is in use has the tasks whose ids were returned. *)
Tracks(tasks) == \A id \in created : Has(tasks, id)

Tracked ==
    AloneInWorkspace => /\ ~torn => Tracks(store)
                        /\ \A w \in Workers : Holding(w) => Tracks(copy[w])

(* Users only join. *)
LEMMA UsersJoin ==
    ASSUME [AnyStep]_vars, AloneInWorkspace'
    PROVE  AloneInWorkspace
<1>1. users \subseteq users'
  BY DEF AnyStep, Next, Waiting, StartCall, Step, ReadFails, ReadAndSync, ReadAndSet, ReadAndCreate,
         Reads, WriteFails, Truncate, Write, CommandEnds, Crash, vars
<1> QED BY <1>1 DEF AloneInWorkspace

LEMMA TrackedStays ==
    ASSUME Tracked, [AnyStep]_vars, UNCHANGED created, ~torn' => ~torn /\ store' = store,
           AloneInWorkspace => \A w \in Workers :
               Holding(w)' => \/ Holding(w) /\ copy'[w] = copy[w]
                              \/ \A id \in created : Has(copy'[w], id)
    PROVE  Tracked'
<1> SUFFICES ASSUME AloneInWorkspace'
             PROVE  (~torn => Tracks(store))' /\ \A w \in Workers : Holding(w)' => Tracks(copy[w])'
  BY DEF Tracked
<1>1. AloneInWorkspace
  BY UsersJoin
<1> QED BY <1>1 DEF Tracked, Tracks, Has

LEMMA NextTracked ==
    ASSUME Guarded, Tracked, [AnyStep]_vars
    PROVE  Tracked'
<1>1. ASSUME UNCHANGED vars PROVE Tracked'
  BY <1>1, TrackedStays DEF vars, Holding
<1>2. ASSUME NEW w \in Workers, NEW c \in Inputs, StartCall(w, c) PROVE Tracked'
  <2>1. UNCHANGED <<store, torn, created, copy>> /\ \A v \in Workers : Holding(v)' => Holding(v)
    BY <1>2 DEF StartCall, Holding, Guarded, Typed, TypeOK
  <2> QED BY <2>1, TrackedStays
<1>3. ASSUME NEW w \in Workers, ReadFails(w) \/ WriteFails(w) \/ Truncate(w) \/
             \E code \in Exits : CommandEnds(w, code)
      PROVE  Tracked'
  <2>1. UNCHANGED created /\ (~torn' => ~torn /\ store' = store)
    BY <1>3, UnfinishedShown DEF ReadFails, WriteFails, Truncate, CommandEnds
  <2>2. \A v \in Workers : Holding(v)' => Holding(v) /\ copy'[v] = copy[v]
    BY <1>3 DEF ReadFails, WriteFails, Truncate, CommandEnds, Fail, Holding, Guarded, Typed, TypeOK
  <2> QED BY <2>1, <2>2, TrackedStays
<1>4. ASSUME NEW s \in Sessions, Crash(s) PROVE Tracked'
  <2>1. UNCHANGED created /\ (~torn' => ~torn /\ store' = store)
    BY <1>4, UnfinishedShown DEF Crash
  <2>2. \A v \in Workers : Holding(v)' => Holding(v) /\ copy'[v] = copy[v]
    BY <1>4 DEF Crash, Holding, Guarded, Typed, TypeOK
  <2> QED BY <2>1, <2>2, TrackedStays
<1>5. ASSUME NEW w \in Workers, ReadAndSync(w) \/ ReadAndSet(w) \/ ReadAndCreate(w)
      PROVE  Tracked'
  <2>1. UNCHANGED <<store, torn, created>> /\ ~torn
    BY <1>5 DEF ReadAndSync, ReadAndSet, ReadAndCreate, Reads
  <2>2. PICK tasks : /\ copy' = [copy EXCEPT ![w] = tasks]
                     /\ \A id : Has(store, id) => Has(tasks, id)
    <3>1. CASE ReadAndSync(w)
      <4>1. PICK after : IsSynced(after, call[w].tool, call[w].id) /\ GoWrite(w, after)
        BY <3>1 DEF ReadAndSync, IsSynced
      <4>2. Keeps(after)
        BY <4>1, SyncedTasks DEF Guarded, Typed
      <4>3. \A id : Has(store, id) => Has(after, id)
        BY <4>2 DEF Keeps, Has
      <4>4. copy' = [copy EXCEPT ![w] = after]
        BY <4>1 DEF GoWrite
      <4> QED BY <4>3, <4>4
    <3>2. CASE ReadAndSet(w)
      <4> DEFINE W == WithStatus(store, call[w].id, StatusAsked(call[w]))
      <4>1. DOMAIN W = DOMAIN store /\ \A i \in DOMAIN store : W[i].id = store[i].id
        BY StatusAskedType, WithStatusTasks DEF Guarded, Typed
      <4>2. copy' = [copy EXCEPT ![w] = W]
        BY <3>2 DEF ReadAndSet, GoWrite
      <4> HIDE DEF W
      <4> QED BY <4>1, <4>2 DEF Has
    <3>3. CASE ReadAndCreate(w)
      <4>1. PICK new : copy' = [copy EXCEPT ![w] = Append(store, new)]
        BY <3>3 DEF ReadAndCreate, GoWrite
      <4>2. \A i \in DOMAIN store : i \in DOMAIN Append(store, new) /\ Append(store, new)[i] = store[i]
        BY StoreTasks, SMT DEF Guarded, Typed
      <4> QED BY <4>1, <4>2 DEF Has
    <3> QED BY <1>5, <3>1, <3>2, <3>3
  <2>3. \A v \in Workers : v # w /\ Holding(v)' => Holding(v) /\ copy'[v] = copy[v]
    BY <1>5, <2>2 DEF ReadAndSync, ReadAndSet, ReadAndCreate, GoWrite, Holding, Guarded, Typed, TypeOK
  <2>4. ASSUME AloneInWorkspace PROVE \A id \in created : Has(copy'[w], id)
    BY <2>1, <2>2, <2>4 DEF Tracked, Tracks, Guarded, Typed, TypeOK
  <2> QED BY <2>1, <2>3, <2>4, TrackedStays
<1>6. ASSUME NEW w \in Workers, Write(w) PROVE Tracked'
  <2> SUFFICES ASSUME AloneInWorkspace'
               PROVE  (~torn => Tracks(store))' /\ \A v \in Workers : Holding(v)' => Tracks(copy[v])'
    BY DEF Tracked
  <2>1. AloneInWorkspace
    BY UsersJoin
  <2>2. Tracks(copy[w]) /\ (~torn' => store' = copy[w])
    BY <1>6, <2>1 DEF Tracked, Holding, Write
  <2>3. (~torn => Tracks(store))'
    <3>1. CASE call[w].tool = "TaskCreate"
      <4>0. copy[w] # <<>> /\ TypeOK
        BY <1>6, <3>1 DEF Write, Guarded, Typed, Holds
      <4>1. Has(copy[w], NewestId(w))
        BY <4>0, NewestIdType DEF Has, NewestId
      <4> QED BY <1>6, <2>2, <3>1, <4>1 DEF Write, Tracks
    <3>2. CASE call[w].tool # "TaskCreate"
      BY <1>6, <2>2, <3>2 DEF Write, Tracks
    <3> QED BY <3>1, <3>2
  <2>4. ASSUME NEW v \in Workers, Holding(v)' PROVE Tracks(copy[v])'
    <3>1. v # w /\ Holding(v) /\ copy'[v] = copy[v]
      BY <1>6, <2>4 DEF Write, Holding, Guarded, Typed, TypeOK
    <3>2. Working(v) /\ Working(w)
      BY <1>6, <3>1 DEF Write, Holding, Working
    <3>3. call[w].tool # "TaskCreate"
      BY <2>1, <3>1, <3>2, AloneAtIt DEF Guarded, SafeTools
    <3>4. created' = created
      BY <1>6, <3>3 DEF Write
    <3> QED BY <2>1, <3>1, <3>4 DEF Tracked, Tracks
  <2> QED BY <2>3, <2>4
<1> QED BY <1>1, <1>2, <1>3, <1>4, <1>5, <1>6 DEF AnyStep, Next, Waiting, Step

(* Who leaves the file torn is counted, or is still writing. *)
Accounted == torn => spoilt \/ \E w \in Workers : pc[w] = "write"

LEMMA NextAccounted ==
    ASSUME TypeOK, Accounted, [AnyStep]_vars
    PROVE  Accounted'
<1>1. ASSUME UNCHANGED <<torn, spoilt>>, \A w \in Workers : pc[w] = "write" => pc'[w] = "write"
      PROVE  Accounted'
  BY <1>1 DEF Accounted
<1>2. ASSUME spoilt' = torn' PROVE Accounted'
  BY <1>2 DEF Accounted
<1>3. ASSUME NEW w \in Workers, Truncate(w) PROVE Accounted'
  <2>1. pc'[w] = "write"
    BY <1>3 DEF Truncate, TypeOK
  <2> QED BY <2>1 DEF Accounted
<1>4. ASSUME NEW w \in Workers, Write(w) \/ (WriteFails(w) /\ pc[w] = "write") PROVE Accounted'
  BY <1>2, <1>4 DEF Write, WriteFails, LeftUnfinished
<1>5. ASSUME NEW w \in Workers,
             \/ ReadFails(w) \/ ReadAndSync(w) \/ ReadAndSet(w) \/ ReadAndCreate(w)
             \/ WriteFails(w) /\ pc[w] # "write"
             \/ \E code \in Exits : CommandEnds(w, code)
      PROVE  Accounted'
  <2>1. UNCHANGED <<torn, spoilt>> /\ pc[w] # "write"
    BY <1>5 DEF ReadFails, ReadAndSync, ReadAndSet, ReadAndCreate, Reads, WriteFails, CommandEnds
  <2>2. \E place : pc' = [pc EXCEPT ![w] = place]
    BY <1>5 DEF ReadFails, ReadAndSync, ReadAndSet, ReadAndCreate, GoWrite, Fail, WriteFails, CommandEnds
  <2> QED BY <1>1, <2>1, <2>2 DEF TypeOK
<1>6. ASSUME NEW w \in Workers, NEW c \in Inputs, StartCall(w, c) PROVE Accounted'
  BY <1>1, <1>6 DEF StartCall, TypeOK
<1>7. ASSUME NEW s \in Sessions, Crash(s) PROVE Accounted'
  <2> DEFINE dying == {w \in Busy(s) : pc[w] = "write"}
  <2>1. CASE dying = {}
    <3>1. UNCHANGED <<torn, spoilt>>
      BY <1>7, <2>1 DEF Crash
    <3>2. ASSUME NEW w \in Workers, pc[w] = "write" PROVE pc'[w] = "write"
      <4>1. SessionOf[w] # s
        BY <2>1, <3>2 DEF Busy
      <4> QED BY <1>7, <3>2, <4>1 DEF Crash
    <3> QED BY <1>1, <3>1, <3>2
  <2>2. CASE dying # {}
    BY <1>2, <1>7, <2>2 DEF Crash, LeftUnfinished
  <2> QED BY <2>1, <2>2
<1>8. ASSUME UNCHANGED vars PROVE Accounted'
  BY <1>8 DEF vars, Accounted
<1> QED BY <1>3, <1>4, <1>5, <1>6, <1>7, <1>8 DEF AnyStep, Next, Waiting, Step

(* However many threads the one session of a directory has, and wherever   *)
(* it dies, no call forgets a task whose id was returned, and only a write *)
(* that failed, died or met another leaves a file that cannot be read.     *)
THEOREM TasksStay == CrashSpec => []CreatedTasksAreTracked
<1>1. Init => Tracked /\ Accounted
  BY DEF Init, Tracked, Tracks, Holding, Accounted
<1>2. Guarded /\ [AnyStep]_vars => Guarded'
  BY NextTyped, NextExclusive, NextNumbered DEF Guarded
<1>3. Tracked /\ Accounted => CreatedTasksAreTracked
  BY DEF Tracked, Tracks, Accounted, CreatedTasksAreTracked
<1>4. Guarded => TypeOK
  BY DEF Guarded, Typed
<1> QED BY <1>1, <1>2, <1>3, <1>4, InitGuarded, NextTracked, NextAccounted, PTL DEF CrashSpec, AnyStep

(* Every list that is in use shows what its tasks were told, and the list   *)
(* of a call that sets a status shows what it is about to tell.            *)
Expected(w, id) == IF Sets(w) /\ call[w].id = id THEN StatusAsked(call[w]) ELSE told[id]

Shows(tasks, words) ==
    \A i \in DOMAIN tasks : words[tasks[i].id] \in Settled => tasks[i].status = words[tasks[i].id]

ShowsExpected(w, tasks) ==
    \A i \in DOMAIN tasks :
        Expected(w, tasks[i].id) \in Settled => tasks[i].status = Expected(w, tasks[i].id)

Obeyed ==
    AloneInWorkspace =>
        Shows(store, told) /\ \A w \in Workers : Holding(w) => ShowsExpected(w, copy[w])

LEMMA ObeyedStays ==
    ASSUME Obeyed, [AnyStep]_vars, UNCHANGED told, store' \in {store, <<>>},
           AloneInWorkspace => \A w \in Workers :
               Holding(w)' => \/ Holding(w) /\ copy'[w] = copy[w] /\ call'[w] = call[w]
                              \/ call'[w] = call[w] /\ ShowsExpected(w, copy'[w])
    PROVE  Obeyed'
<1> SUFFICES ASSUME AloneInWorkspace'
             PROVE  /\ Shows(store', told')
                    /\ \A w \in Workers : Holding(w)' => ShowsExpected(w, copy[w])'
  BY DEF Obeyed
<1>1. AloneInWorkspace
  BY UsersJoin
<1>2. Shows(store', told')
  <2>1. CASE store' = <<>>
    BY <2>1, SMT DEF Shows
  <2> QED BY <1>1, <2>1 DEF Obeyed
<1>3. ASSUME NEW w \in Workers, Holding(w)' PROVE ShowsExpected(w, copy[w])'
  <2>1. ShowsExpected(w, copy'[w]) /\ call'[w] = call[w]
    BY <1>1, <1>3 DEF Obeyed
  <2> QED BY <2>1 DEF ShowsExpected, Expected, Sets
<1> QED BY <1>2, <1>3

(* What a reader finds settled it does not settle anew. *)
LEMMA SyncedShows ==
    ASSUME TypeOK, NEW after, NEW tool, NEW id, IsSynced(after, tool, id), Shows(store, told),
           Keeps(after)
    PROVE  Shows(after, told)
<1> SUFFICES ASSUME NEW i \in DOMAIN store, told[store[i].id] \in Settled
             PROVE  after[i].status = told[store[i].id]
  BY DEF Shows, Keeps
<1>1. store[i].status \in Settled /\ store[i].status = told[store[i].id]
  BY DEF Shows
<1>2. Synced(store[i]) = {store[i]}
  BY <1>1 DEF Synced, Settled
<1> QED BY <1>1, <1>2 DEF IsSynced

LEMMA NextObeyed ==
    ASSUME Guarded, Obeyed, [AnyStep]_vars
    PROVE  Obeyed'
<1>1. ASSUME UNCHANGED vars PROVE Obeyed'
  BY <1>1, ObeyedStays DEF vars, Holding
<1>2. ASSUME NEW w \in Workers, NEW c \in Inputs, StartCall(w, c) PROVE Obeyed'
  <2>1. UNCHANGED <<store, told, copy>>
    BY <1>2 DEF StartCall
  <2>2. \A v \in Workers : Holding(v)' => Holding(v) /\ call'[v] = call[v]
    BY <1>2 DEF StartCall, Holding, Guarded, Typed, TypeOK
  <2> QED BY <2>1, <2>2, ObeyedStays
<1>3. ASSUME NEW w \in Workers, ReadFails(w) \/ WriteFails(w) \/ Truncate(w) \/
             \E code \in Exits : CommandEnds(w, code)
      PROVE  Obeyed'
  <2>1. UNCHANGED told /\ store' \in {store, <<>>}
    BY <1>3 DEF ReadFails, WriteFails, Truncate, CommandEnds, LeftUnfinished
  <2>2. \A v \in Workers : Holding(v)' => Holding(v) /\ copy'[v] = copy[v] /\ call'[v] = call[v]
    BY <1>3 DEF ReadFails, WriteFails, Truncate, CommandEnds, Fail, Holding, Guarded, Typed, TypeOK
  <2> QED BY <2>1, <2>2, ObeyedStays
<1>4. ASSUME NEW s \in Sessions, Crash(s) PROVE Obeyed'
  <2>1. UNCHANGED told /\ store' \in {store, <<>>}
    BY <1>4 DEF Crash, LeftUnfinished
  <2>2. \A v \in Workers : Holding(v)' => Holding(v) /\ copy'[v] = copy[v] /\ call'[v] = call[v]
    BY <1>4 DEF Crash, Holding, Guarded, Typed, TypeOK
  <2> QED BY <2>1, <2>2, ObeyedStays
<1>5. ASSUME NEW w \in Workers, ReadAndSync(w) \/ ReadAndSet(w) \/ ReadAndCreate(w)
      PROVE  Obeyed'
  <2>1. UNCHANGED <<store, told, call>>
    BY <1>5 DEF ReadAndSync, ReadAndSet, ReadAndCreate, Reads
  <2>2. PICK tasks : /\ copy' = [copy EXCEPT ![w] = tasks]
                     /\ AloneInWorkspace => ShowsExpected(w, tasks)
    <3>1. CASE ReadAndSync(w)
      <4>1. PICK after : IsSynced(after, call[w].tool, call[w].id) /\ GoWrite(w, after)
        BY <3>1 DEF ReadAndSync, IsSynced
      <4>2. Keeps(after) /\ TypeOK
        BY <4>1, SyncedTasks DEF Guarded, Typed
      <4>3. AloneInWorkspace => Shows(after, told)
        BY <4>1, <4>2, SyncedShows DEF Obeyed
      <4>4. ~Sets(w)
        BY <3>1 DEF ReadAndSync, Reads, Sets
      <4>5. AloneInWorkspace => ShowsExpected(w, after)
        BY <4>3, <4>4 DEF Shows, ShowsExpected, Expected
      <4>6. copy' = [copy EXCEPT ![w] = after]
        BY <4>1 DEF GoWrite
      <4> QED BY <4>5, <4>6
    <3>2. CASE ReadAndSet(w)
      <4> DEFINE asked == StatusAsked(call[w])
                 W     == WithStatus(store, call[w].id, asked)
      <4>1. DOMAIN W = DOMAIN store
        BY DEF WithStatus
      <4>2. ASSUME NEW i \in DOMAIN store
            PROVE  /\ W[i].id = store[i].id
                   /\ W[i].status = IF store[i].id = call[w].id THEN asked ELSE store[i].status
        <5>1. store[i] \in Task
          BY StoreTasks DEF Guarded, Typed
        <5>2. W[i] = IF store[i].id = call[w].id THEN [store[i] EXCEPT !.status = asked] ELSE store[i]
          BY DEF WithStatus
        <5> HIDE DEF W, asked
        <5> QED BY <5>1, <5>2 DEF Task
      <4>3. Sets(w)
        BY <3>2 DEF ReadAndSet, Reads, Sets
      <4>4. copy' = [copy EXCEPT ![w] = W]
        BY <3>2 DEF ReadAndSet, GoWrite
      <4> HIDE DEF W
      <4>5. AloneInWorkspace => ShowsExpected(w, W)
        BY <4>1, <4>2, <4>3 DEF Obeyed, Shows, ShowsExpected, Expected
      <4> QED BY <4>4, <4>5
    <3>3. CASE ReadAndCreate(w)
      <4>0. \/ copy' = [copy EXCEPT ![w] = Append(store, NewTask("pending", FALSE))]
            \/ copy' = [copy EXCEPT ![w] = Append(store, NewTask("failed", FALSE))]
            \/ copy' = [copy EXCEPT ![w] = Append(store, NewTask("running", TRUE))]
        BY <3>3 DEF ReadAndCreate, GoWrite
      <4>1. PICK status \in Statuses, pid \in BOOLEAN :
                copy' = [copy EXCEPT ![w] = Append(store, NewTask(status, pid))]
        <5>1. {"pending", "failed", "running"} \subseteq Statuses
          BY DEF Statuses
        <5> HIDE DEF NewTask, Statuses
        <5> QED BY <4>0, <5>1
      <4> DEFINE new == NewTask(status, pid)
                 A   == Append(store, new)
      <4>2. nextId \in Ids /\ new.id = nextId
        BY <3>3 DEF ReadAndCreate, NewTask
      <4>3. new \in Task /\ store \in Seq(Task)
        BY <4>2, NewTaskType DEF Guarded, Typed, TypeOK
      <4> HIDE DEF new
      <4>4. ASSUME NEW i \in DOMAIN A PROVE A[i] = new \/ (i \in DOMAIN store /\ A[i] = store[i])
        BY <4>3, <4>4, SMT
      <4> HIDE DEF A
      <4>5. told[nextId] = "none" /\ "none" \notin Settled
        BY <4>2, SMT DEF Guarded, Numbered, Ids, Settled
      <4>6. ~Sets(w)
        BY <3>3 DEF ReadAndCreate, Reads, Sets
      <4>7. AloneInWorkspace => ShowsExpected(w, A)
        BY <4>2, <4>4, <4>5, <4>6 DEF Obeyed, Shows, ShowsExpected, Expected
      <4> QED BY <4>1, <4>7 DEF A, new
    <3> QED BY <1>5, <3>1, <3>2, <3>3
  <2>3. \A v \in Workers : v # w /\ Holding(v)' => Holding(v) /\ copy'[v] = copy[v]
    BY <1>5, <2>2 DEF ReadAndSync, ReadAndSet, ReadAndCreate, GoWrite, Holding, Guarded, Typed, TypeOK
  <2>4. copy'[w] = tasks
    BY <2>2 DEF Guarded, Typed, TypeOK
  <2> QED BY <2>1, <2>2, <2>3, <2>4, ObeyedStays
<1>6. ASSUME NEW w \in Workers, Write(w) PROVE Obeyed'
  <2> SUFFICES ASSUME AloneInWorkspace'
               PROVE  /\ Shows(store', told')
                      /\ \A v \in Workers : Holding(v)' => ShowsExpected(v, copy[v])'
    BY DEF Obeyed
  <2>1. AloneInWorkspace
    BY UsersJoin
  <2>2. /\ ShowsExpected(w, copy[w]) /\ store' \in {copy[w], <<>>}
        /\ told' = IF Sets(w) THEN [told EXCEPT ![call[w].id] = StatusAsked(call[w])] ELSE told
    BY <1>6, <2>1 DEF Obeyed, Holding, Write, Sets
  <2>3. \A i \in DOMAIN copy[w] : copy[w][i].id \in Ids
    <3>1. copy[w] \in Seq(Task)
      BY DEF Guarded, Typed, TypeOK
    <3>2. \A i \in DOMAIN copy[w] : copy[w][i] \in Task
      BY <3>1, SMT
    <3> QED BY <3>2 DEF Task
  <2>4. \A id \in Ids : told'[id] = Expected(w, id)
    BY <2>2 DEF Expected, Guarded, Typed, TypeOK
  <2>5. Shows(store', told')
    <3>1. CASE store' = <<>>
      BY <3>1, SMT DEF Shows
    <3> QED BY <2>2, <2>3, <2>4, <3>1 DEF Shows, ShowsExpected
  <2>6. ASSUME NEW v \in Workers, Holding(v)' PROVE ShowsExpected(v, copy[v])'
    <3>1. v # w /\ Holding(v) /\ copy'[v] = copy[v] /\ call'[v] = call[v]
      BY <1>6, <2>6 DEF Write, Holding, Guarded, Typed, TypeOK
    <3>2. Working(v) /\ Working(w)
      BY <1>6, <3>1 DEF Write, Holding, Working
    <3>3. ~Sets(w)
      BY <2>1, <3>1, <3>2, AloneAtIt DEF Guarded, SafeTools, Sets
    <3>4. told' = told
      BY <2>2, <3>3
    <3>5. ShowsExpected(v, copy[v])
      BY <2>1, <3>1 DEF Obeyed
    <3> QED BY <3>1, <3>4, <3>5 DEF ShowsExpected, Expected, Sets
  <2> QED BY <2>5, <2>6
<1> QED BY <1>1, <1>2, <1>3, <1>4, <1>5, <1>6 DEF AnyStep, Next, Waiting, Step

(* A status that TaskUpdate or TaskStop has settled stays until another is  *)
(* set, in a directory with one session.                                   *)
THEOREM SetStatusesStay == CrashSpec => []StatusSetStays
<1>1. Init => Obeyed
  BY SMT DEF Init, Obeyed, Shows, Holding
<1>2. Guarded /\ [AnyStep]_vars => Guarded'
  BY NextTyped, NextExclusive, NextNumbered DEF Guarded
<1>3. Obeyed => StatusSetStays
  BY DEF Obeyed, Shows, StatusSetStays
<1> QED BY <1>1, <1>2, <1>3, InitGuarded, NextObeyed, PTL DEF CrashSpec, AnyStep

=============================================================================
