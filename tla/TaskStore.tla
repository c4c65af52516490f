------------------------------ MODULE TaskStore ------------------------------
(***************************************************************************)
(* The task tools of crates/tools/src/task.rs: TaskCreate, TaskGet,        *)
(* TaskList, TaskUpdate and TaskStop over .aineer/tasks.json, which every  *)
(* session of a workspace shares.  Each call reads the file, changes its   *)
(* copy and writes all of it back: std::fs::write truncates the file, then *)
(* fills it.  Nothing locks the file.                                      *)
(*                                                                         *)
(* A worker is a thread of a session.  A session runs the calls of a reply *)
(* one by one, or, when all are concurrency-safe, each on its own worker.  *)
(***************************************************************************)
EXTENDS Naturals, Sequences, FiniteSets

CONSTANTS
    Workers,
    Sessions,      \* processes of the program in one workspace
    SessionOf,     \* the session a worker is a thread of
    NewStatuses,   \* bound: statuses TaskUpdate is asked to set
    MaxTasks,      \* bound: tasks created
    MaxCalls       \* bound: calls started

ASSUME WorkersAssumption == SessionOf \in [Workers -> Sessions]
ASSUME BoundsAssumption  == MaxTasks \in Nat \ {0} /\ MaxCalls \in Nat

Tools    == {"TaskCreate", "TaskGet", "TaskList", "TaskUpdate", "TaskStop"}
Statuses == {"pending", "running", "completed", "failed", "stopped"}
Settled  == {"completed", "failed", "stopped"}

(* What an exit file says: nothing, when it could not be written. *)
Exits == {"none", "zero", "nonzero"}

Ids   == 1 .. MaxTasks
Task  == [id: Ids, status: Statuses, pid: BOOLEAN, code: Exits]   \* pid: it has one

(* A call: its tool, the task it names, and what else its input asks for:  *)
(* a command to run, or a status to set.                                   *)
Call == [tool: Tools, id: Ids, command: BOOLEAN, status: Statuses]

NoCall == [tool |-> "TaskList", id |-> 1, command |-> FALSE, status |-> "pending"]

(* The calls a model makes: what a tool does not read has one value. *)
Inputs == {c \in Call :
    \/ c.tool = "TaskCreate" /\ c.id = NoCall.id /\ c.status = NoCall.status
    \/ c.tool \in {"TaskGet", "TaskStop"} /\ ~c.command /\ c.status = NoCall.status
    \/ c.tool = "TaskUpdate" /\ ~c.command /\ c.status \in NewStatuses
    \/ c = NoCall}

(* Mutant: TaskCreate is taken for a tool that may run beside others. *)
SafeToolsWithCreate == {"TaskGet", "TaskList", "TaskCreate"}

SafeTools == {"TaskGet", "TaskList"}

VARIABLES
    store,    \* the tasks a reader finds in tasks.json
    torn,     \* its text is no JSON: truncated, cut short, or one text over another
    exit,     \* id -> what the exit file of the task says
    pc,       \* worker -> where its call stands
    call,     \* worker -> its call
    copy,     \* worker -> the tasks it is going to write
    overlaid, \* workers about to write a file that another has written since
    answer,   \* worker -> how its last call ended
    created,  \* history: ids that TaskCreate has returned
    told,     \* history: id -> the status TaskUpdate or TaskStop has set last
    nextId,   \* the id of the next task
    calls,    \* history: calls started
    users,    \* history: sessions that have made calls
    spoilt    \* history: a write has ended, or died, and left the file torn

vars == <<store, torn, exit, pc, call, copy, overlaid, answer, created, told, nextId, calls,
          users, spoilt>>

TypeOK ==
    /\ store \in Seq(Task) /\ torn \in BOOLEAN
    /\ exit \in [Ids -> Exits]
    /\ pc \in [Workers -> {"idle", "read", "command", "truncate", "write"}]
    /\ call \in [Workers -> Call]
    /\ copy \in [Workers -> Seq(Task)]
    /\ overlaid \subseteq Workers
    /\ answer \in [Workers -> {"none", "ok", "refused", "unreadable", "unwritable"}]
    /\ created \subseteq Ids /\ told \in [Ids -> Statuses \cup {"none"}]
    /\ nextId \in 1 .. MaxTasks + 1 /\ calls \in 0 .. MaxCalls
    /\ users \subseteq Sessions /\ spoilt \in BOOLEAN

Init ==
    /\ store = <<>> /\ torn = FALSE
    /\ exit = [i \in Ids |-> "none"]
    /\ pc = [w \in Workers |-> "idle"]
    /\ call = [w \in Workers |-> NoCall]
    /\ copy = [w \in Workers |-> <<>>]
    /\ overlaid = {} /\ answer = [w \in Workers |-> "none"]
    /\ created = {} /\ told = [i \in Ids |-> "none"] /\ nextId = 1
    /\ calls = 0 /\ users = {} /\ spoilt = FALSE

-----------------------------------------------------------------------------
Busy(s) == {w \in Workers : SessionOf[w] = s /\ pc[w] # "idle"}

Creating == {w \in Workers : pc[w] = "read" /\ call[w].tool = "TaskCreate"}

(* A session starts a call when none of its calls runs, or a safe one      *)
(* beside safe ones, for the threads of a batch start in any order.        *)
StartCall(w, c) ==
    /\ pc[w] = "idle" /\ calls < MaxCalls
    /\ c.tool = "TaskCreate" => nextId + Cardinality(Creating) \in Ids   \* the bound
    /\ \/ Busy(SessionOf[w]) = {}
       \/ c.tool \in SafeTools /\ \A v \in Busy(SessionOf[w]) : call[v].tool \in SafeTools
    /\ pc' = [pc EXCEPT ![w] = "read"]
    /\ call' = [call EXCEPT ![w] = c]
    /\ calls' = calls + 1
    /\ users' = users \cup {SessionOf[w]}
    /\ UNCHANGED <<store, torn, exit, copy, overlaid, answer, created, told, nextId, spoilt>>

Has(tasks, id) == \E i \in DOMAIN tasks : tasks[i].id = id

Ended(task, code) ==
    [task EXCEPT !.code = code, !.status = IF code = "zero" THEN "completed" ELSE "failed"]

(* Mutant: a task that is not running is looked at as well. *)
SyncedAnyway(task) ==
    IF ~task.pid THEN {task}
    ELSE IF exit[task.id] # "none" THEN {Ended(task, exit[task.id])}
    ELSE {task, [task EXCEPT !.status = "stopped"]}

(* Mutant: a process that is gone is taken to have succeeded. *)
SyncedAsSuccess(task) ==
    IF task.status # "running" \/ ~task.pid THEN {task}
    ELSE IF exit[task.id] # "none" THEN {Ended(task, exit[task.id])}
    ELSE {task, Ended(task, "zero")}

(* sync_running_task: the exit file settles a running task.  Without one   *)
(* the pid is asked for: the process is gone, unless its number was given  *)
(* to another one.                                                         *)
Synced(task) ==
    IF task.status # "running" \/ ~task.pid THEN {task}
    ELSE IF exit[task.id] # "none" THEN {Ended(task, exit[task.id])}
    ELSE {task, [task EXCEPT !.status = "stopped"]}

StatusAsked(c) == IF c.tool = "TaskStop" THEN "stopped" ELSE c.status

WithStatus(tasks, id, status) ==
    [i \in DOMAIN tasks |-> IF tasks[i].id = id
                            THEN [tasks[i] EXCEPT !.status = status] ELSE tasks[i]]

Fail(w, how) ==
    /\ pc' = [pc EXCEPT ![w] = "idle"]
    /\ answer' = [answer EXCEPT ![w] = how]
    /\ call' = [call EXCEPT ![w] = NoCall]
    /\ copy' = [copy EXCEPT ![w] = <<>>]
    /\ UNCHANGED nextId

GoWrite(w, tasks) ==
    /\ copy' = [copy EXCEPT ![w] = tasks]
    /\ pc' = [pc EXCEPT ![w] = "truncate"]
    /\ UNCHANGED answer

IsRunning(id) == \E i \in DOMAIN store : store[i].id = id /\ store[i].status = "running"

Refused(c) ==
    \/ c.tool \in {"TaskGet", "TaskUpdate"} /\ ~Has(store, c.id)
    \/ c.tool = "TaskStop" /\ ~IsRunning(c.id)

(* Reading an unreadable file, or naming a task that is not there or that  *)
(* TaskStop finds not running, ends the call.                              *)
ReadFails(w) ==
    /\ pc[w] = "read"
    /\ \/ torn /\ Fail(w, "unreadable")
       \/ ~torn /\ Refused(call[w]) /\ Fail(w, "refused")
    /\ UNCHANGED <<store, torn, exit, overlaid, created, told, calls, users, spoilt>>

Reads(w, tools) ==
    /\ pc[w] = "read" /\ ~torn
    /\ call[w].tool \in tools /\ ~Refused(call[w])
    /\ UNCHANGED <<store, torn, exit, call, overlaid, created, told, calls, users, spoilt>>

ReadAndSync(w) ==
    /\ Reads(w, {"TaskGet", "TaskList"})
    /\ \E after \in [DOMAIN store -> UNION {{store[i]} \cup Synced(store[i]) : i \in DOMAIN store}] :
          /\ \A i \in DOMAIN store :
                after[i] \in IF call[w].tool = "TaskList" \/ store[i].id = call[w].id
                             THEN Synced(store[i]) ELSE {store[i]}
          /\ GoWrite(w, after)
    /\ UNCHANGED nextId

(* TaskStop also sends SIGTERM to a process that is gone by then. *)
ReadAndSet(w) ==
    /\ Reads(w, {"TaskUpdate", "TaskStop"})
    /\ GoWrite(w, WithStatus(store, call[w].id, StatusAsked(call[w])))
    /\ UNCHANGED nextId

NewTask(status, pid) == [id |-> nextId, status |-> status, pid |-> pid, code |-> "none"]

(* start_background_command runs "(cmd) > out 2>&1; echo $? > exit & echo  *)
(* $!": only the echo is in the background, so the call waits for the      *)
(* command, with its copy of the tasks in hand.                            *)
ReadAndCreate(w) ==
    /\ Reads(w, {"TaskCreate"}) /\ nextId \in Ids
    /\ nextId' = nextId + 1
    /\ \/ ~call[w].command /\ GoWrite(w, Append(store, NewTask("pending", FALSE)))
       \/ call[w].command /\ GoWrite(w, Append(store, NewTask("failed", FALSE)))   \* not started
       \/ /\ call[w].command
          /\ copy' = [copy EXCEPT ![w] = Append(store, NewTask("running", TRUE))]
          /\ pc' = [pc EXCEPT ![w] = "command"]
          /\ UNCHANGED answer

NewestId(w) == copy[w][Len(copy[w])].id

(* The command of a TaskCreate ends; its exit code may be lost. *)
CommandEnds(w, code) ==
    /\ pc[w] = "command"
    /\ exit' = [exit EXCEPT ![NewestId(w)] = code]
    /\ pc' = [pc EXCEPT ![w] = "truncate"]
    /\ UNCHANGED <<store, torn, call, copy, overlaid, answer, created, told, nextId, calls,
                   users, spoilt>>

-----------------------------------------------------------------------------
(* The texts of workers ws are left unfinished.  Over a whole file such a  *)
(* text may do no harm; a truncated one stays torn, for no later call      *)
(* reads it and goes on to write.                                          *)
LeftUnfinished(ws) ==
    /\ torn' \in {torn, TRUE} /\ spoilt' = torn'
    /\ store' = IF torn' THEN <<>> ELSE store
    /\ overlaid' = (overlaid \cup {v \in Workers : pc[v] = "write"}) \ ws

(* The file cannot be opened, or not be filled: the call ends, and with it *)
(* a task that TaskCreate has run the command of.                          *)
WriteFails(w) ==
    /\ \/ pc[w] = "truncate" /\ UNCHANGED <<store, torn, overlaid, spoilt>>
       \/ pc[w] = "write" /\ LeftUnfinished({w})
    /\ Fail(w, "unwritable")
    /\ UNCHANGED <<exit, created, told, calls, users>>

(* write_tasks: std::fs::write. *)
Truncate(w) ==
    /\ pc[w] = "truncate"
    /\ store' = <<>> /\ torn' = TRUE /\ spoilt' = FALSE
    /\ overlaid' = {}
    /\ pc' = [pc EXCEPT ![w] = "write"]
    /\ UNCHANGED <<exit, call, copy, answer, created, told, nextId, calls, users>>

(* The text of a worker that truncated the file before another one wrote   *)
(* it goes over the other's: if that was the longer one, its end is left.  *)
Write(w) ==
    /\ pc[w] = "write"
    /\ torn' \in IF w \in overlaid /\ (torn \/ copy[w] # store) THEN BOOLEAN ELSE {FALSE}
    /\ store' = IF torn' THEN <<>> ELSE copy[w]
    /\ spoilt' = torn'
    /\ overlaid' = (overlaid \ {w}) \cup {v \in Workers \ {w} : pc[v] = "write"}
    /\ answer' = [answer EXCEPT ![w] = "ok"]
    /\ created' = IF call[w].tool = "TaskCreate" THEN created \cup {NewestId(w)} ELSE created
    /\ told' = IF call[w].tool \in {"TaskUpdate", "TaskStop"}
               THEN [told EXCEPT ![call[w].id] = StatusAsked(call[w])] ELSE told
    /\ copy' = [copy EXCEPT ![w] = <<>>]
    /\ pc' = [pc EXCEPT ![w] = "idle"]
    /\ call' = [call EXCEPT ![w] = NoCall]
    /\ UNCHANGED <<exit, nextId, calls, users>>

(* A session dies, with what it was writing, and is started again. *)
Crash(s) ==
    /\ Busy(s) # {}
    /\ LET dying == {w \in Busy(s) : pc[w] = "write"}
       IN IF dying = {} THEN UNCHANGED <<store, torn, overlaid, spoilt>>
          ELSE LeftUnfinished(dying)
    /\ pc' = [w \in Workers |-> IF SessionOf[w] = s THEN "idle" ELSE pc[w]]
    /\ copy' = [w \in Workers |-> IF SessionOf[w] = s THEN <<>> ELSE copy[w]]
    /\ call' = [w \in Workers |-> IF SessionOf[w] = s THEN NoCall ELSE call[w]]
    /\ UNCHANGED <<exit, answer, created, told, nextId, calls, users>>

Step(w) ==
    \/ ReadFails(w) \/ ReadAndSync(w) \/ ReadAndSet(w) \/ ReadAndCreate(w)
    \/ WriteFails(w) \/ Truncate(w) \/ Write(w)

(* No call runs: the sessions wait for the next one. *)
Waiting == (\A w \in Workers : pc[w] = "idle") /\ UNCHANGED vars

Next ==
    \/ Waiting
    \/ \E w \in Workers, c \in Inputs : StartCall(w, c)
    \/ \E w \in Workers : Step(w)
    \/ \E w \in Workers, code \in Exits : CommandEnds(w, code)

Spec      == Init /\ [][Next]_vars

CrashSpec == Init /\ [][Next \/ \E s \in Sessions : Crash(s)]_vars

-----------------------------------------------------------------------------
(* A recorded exit code is the one the command of that task ended with,    *)
(* whoever read it from the exit file and whoever's copy was written last. *)
ExitCodesAreTrue ==
    \A i \in DOMAIN store : store[i].code # "none" => store[i].code = exit[store[i].id]

AloneInWorkspace == \A s, t \in users : s = t

(* While one session works in the directory, however many threads it has   *)
(* and however often it dies, no call forgets a task whose id was returned:*)
(* each is in the file whenever that can be read.  It cannot be while it   *)
(* is written, and it never can again once a write that failed half-way, a *)
(* session that died in one, or two threads that wrote over each other     *)
(* have left it no JSON.                                                   *)
CreatedTasksAreTracked ==
    AloneInWorkspace => IF torn THEN spoilt \/ \E w \in Workers : pc[w] = "write"
                        ELSE \A id \in created : Has(store, id)

(* A task that TaskStop or TaskUpdate has settled keeps that status until  *)
(* it is told another one: no reader settles it anew, and none writes back *)
(* what it had read before.                                                *)
StatusSetStays ==
    AloneInWorkspace => \A i \in DOMAIN store : LET status == told[store[i].id]
        IN status \in Settled => store[i].status = status
=============================================================================
