---------------------------- MODULE LiveSession ----------------------------
(***************************************************************************)
(* The interactive program of crates/cli: LiveCli, its slash commands and  *)
(* the session files, with several processes in one directory.  Each holds *)
(* a conversation in its runtime, a handle on the file it is saved to, and *)
(* what it says of itself: permission mode and model.  Most commands       *)
(* replace the runtime by a new one, and building it may fail.             *)
(*                                                                         *)
(* A conversation is the set of its turns; one that is compacted keeps     *)
(* them all, some in its summary.  A file is truncated, then written.      *)
(***************************************************************************)
EXTENDS Naturals, Sequences, FiniteSets

CONSTANTS
    Clients,     \* processes, one after another in the same terminal as well
    Files,       \* names of session files, each of another millisecond
    Modes,       \* permission modes
    Labels,      \* what a user may write for one
    Models,
    MaxTurns,    \* bound: turns
    MaxAstray    \* bound: processes at a time that show what is not in force

ASSUME LabelsAssumption == Modes \subseteq Labels /\ Modes # {} /\ Models # {}
ASSUME TurnsAssumption  == MaxTurns \in Nat /\ MaxAstray \in Nat

Places == {"prompt", "resume", "once", "save", "write"}

Turns == 1 .. MaxTurns
File  == [state: {"absent", "torn", "whole"}, turns: SUBSET Turns]

(* then: where a process goes once it has saved; otherwise: if it cannot.  *)
(* botched is history: a /permissions has failed since the runtime was     *)
(* built; strayed, that a command other than /model has built it with a    *)
(* fallback model, and no turn has been made since.                        *)
Cli == [pc: Places, then: Places \cup {"off"}, otherwise: {"prompt", "off"},
        handle: Files, conv: SUBSET Turns,
        mode: Modes, policy: Modes, model: Models, active: Models,
        botched: BOOLEAN, strayed: BOOLEAN]
Off == [pc |-> "off"]

VARIABLES
    cli,         \* client -> Cli, or Off
    files,       \* name -> File
    home,        \* history: turn -> the file of the session it was made in
    safe,        \* history: turns that have been saved there
    shared,      \* history: files two processes have had open at once
    wiped,       \* history: files that were cleared on purpose
    spilled      \* history: files whose session began with a failing /clear

history == <<home, safe, shared, wiped, spilled>>
vars    == <<cli, files, history>>

TypeOK ==
    /\ cli \in [Clients -> Cli \cup {Off}]
    /\ files \in [Files -> File]
    /\ home \in Seq(Files) /\ Len(home) <= MaxTurns /\ safe \subseteq 1 .. Len(home)
    /\ shared \subseteq Files /\ wiped \subseteq Files /\ spilled \subseteq Files

Init ==
    /\ cli = [c \in Clients |-> Off]
    /\ files = [f \in Files |-> [state |-> "absent", turns |-> {}]]
    /\ home = <<>> /\ safe = {} /\ shared = {} /\ wiped = {} /\ spilled = {}

-----------------------------------------------------------------------------
At(c, place)  == cli[c].pc = place
Set(c, state) == cli' = [cli EXCEPT ![c] = state]

(* A process that saves next, and one that goes on to another place.       *)
Saving(state, then, otherwise) ==
    [state EXCEPT !.pc = "save", !.then = then, !.otherwise = otherwise]

Going(state, place) ==
    IF place = "off" THEN Off
    ELSE [state EXCEPT !.pc = place, !.then = "prompt", !.otherwise = "prompt"]

Open(f) == {c \in Clients : ~At(c, "off") /\ cli[c].handle = f}

(* Mutant: the name may be one of an earlier session. *)
UnusedNames == {f \in Files : Open(f) = {}}

(* generate_session_id: the time, which no other process has taken. *)
NewFiles == {f \in Files : files[f].state = "absent" /\ Open(f) = {}}

Process(f, conv, mode, model) ==
    [pc |-> "prompt", then |-> "prompt", otherwise |-> "prompt", handle |-> f, conv |-> conv,
     mode |-> mode, policy |-> mode, model |-> model, active |-> model,
     botched |-> FALSE, strayed |-> FALSE]

(* build_runtime, from runtime_params: a new policy and provider client,    *)
(* for the model that is shown or, if it is not available, a fallback.      *)
Rebuilt(state, conv, n) ==
    [state EXCEPT !.conv = conv, !.policy = state.mode, !.active = n,
                  !.botched = FALSE, !.strayed = (n # state.model)]

MayStray(c) ==
    Cardinality({d \in Clients \ {c} : ~At(d, "off") /\ (cli[d].botched \/ cli[d].strayed)})
        < MaxAstray

Resolved(c) == IF MayStray(c) THEN Models ELSE {cli[c].model}

(* resolved_model, which only /model takes over. *)
TakenOver(state) == [state EXCEPT !.model = state.active, !.strayed = FALSE]

Shares(c, f) == shared' = IF Open(f) \ {c} = {} THEN shared ELSE shared \cup {f}

-----------------------------------------------------------------------------
(* LiveCli::new, for the REPL, for one with --resume, and for one prompt.  *)
(* The empty session is saved before anything else.                        *)
Start(c) ==
    /\ At(c, "off")
    /\ \E f \in NewFiles, m \in Modes, n \in Models, then \in {"prompt", "resume", "once"} :
          Set(c, Saving(Process(f, {}, m, n), then, "off"))
    /\ UNCHANGED <<files, history>>

(* Mutant: the model a turn fell back to is not taken over. *)
UnsyncedTurn(state, turn, n) ==
    [state EXCEPT !.conv = @ \cup {turn}, !.active = n]

(* The messages of a turn, and perhaps a model it has fallen back to, which *)
(* sync_model_from_runtime takes over.                                      *)
AfterTurn(state, turn, n) ==
    [state EXCEPT !.conv = @ \cup {turn}, !.active = n, !.model = n, !.strayed = FALSE]

(* run_turn_blocks: a turn that fails stays in the conversation, but the    *)
(* file is left as it is.                                                   *)
Turn(c) ==
    /\ At(c, "prompt") /\ Len(home) < MaxTurns
    /\ home' = Append(home, cli[c].handle)
    /\ \E n \in Models :
          LET after == AfterTurn(cli[c], Len(home'), n)
          IN  \/ Set(c, Saving(after, "prompt", "prompt"))
              \/ Set(c, after)
    /\ UNCHANGED <<files, safe, shared, wiped, spilled>>

(* A prompt on the command line: run_turn_with_output, and the process ends. *)
Once(c) ==
    /\ At(c, "once") /\ Len(home) < MaxTurns
    /\ home' = Append(home, cli[c].handle)
    /\ \E n \in Models :
          LET after == AfterTurn(cli[c], Len(home'), n)
          IN  \/ Set(c, Saving(after, "off", "off"))
              \/ Set(c, Off)
    /\ UNCHANGED <<files, safe, shared, wiped, spilled>>

(* /model with another name than the one shown: the runtime is built with   *)
(* that model or a fallback, whichever is then shown.                       *)
SwitchModel(c) ==
    /\ At(c, "prompt")
    /\ \E n \in Models :
          Set(c, Saving(TakenOver(Rebuilt(cli[c], cli[c].conv, n)), "prompt", "prompt"))
    /\ UNCHANGED <<files, history>>

(* normalize_permission_mode, and no change to the mode that is shown. *)
NewMode(c, label) == label \in Modes /\ label # cli[c].mode

Permitted(state, label, n) ==
    Rebuilt([state EXCEPT !.mode = label], state.conv, n)

(* /permissions: the mode is shown before the runtime that obeys it is built. *)
SetPermissions(c) ==
    /\ At(c, "prompt")
    /\ \E label \in Labels :
          /\ NewMode(c, label)
          /\ \/ \E n \in Resolved(c) : Set(c, Saving(Permitted(cli[c], label, n), "prompt", "prompt"))
             \/ /\ MayStray(c)
                /\ Set(c, [cli[c] EXCEPT !.mode = label, !.botched = TRUE])
    /\ UNCHANGED <<files, history>>

(* /clear: a new handle, then a new runtime; the handle stays if that fails. *)
Clear(c) ==
    /\ At(c, "prompt")
    /\ \E f \in NewFiles :
          LET state == [cli[c] EXCEPT !.handle = f]
          IN  \/ /\ \E n \in Resolved(c) : Set(c, Saving(Rebuilt(state, {}, n), "prompt", "prompt"))
                 /\ UNCHANGED spilled
              \/ /\ Set(c, state)
                 /\ spilled' = spilled \cup {f}
    /\ UNCHANGED <<files, home, safe, shared, wiped>>

(* Mutant: the handle is replaced before the runtime is built. *)
HandleFirst(state, f) == [state EXCEPT !.handle = f]

(* The runtime of the session that is loaded cannot be built. *)
NotActivated(state, f) == state

(* activate_session: the file is read, a runtime built, the handle replaced. *)
Activate(c, then, otherwise) ==
    \E f \in Files :
       \/ /\ files[f].state = "whole"
          /\ \E n \in Resolved(c) :
                Set(c, LET state == Rebuilt([cli[c] EXCEPT !.handle = f], files[f].turns, n)
                       IN  IF then = "save" THEN Saving(state, "prompt", "prompt")
                           ELSE Going(state, then))
          /\ Shares(c, f)
          /\ UNCHANGED <<files, home, safe, wiped, spilled>>
       \/ /\ files[f].state = "whole"
          /\ Set(c, Going(NotActivated(cli[c], f), otherwise))
          /\ UNCHANGED <<files, history>>
       \/ /\ files[f].state # "whole"
          /\ Set(c, Going(cli[c], otherwise))
          /\ UNCHANGED <<files, history>>

(* /resume and /session switch, after which the session is saved again. *)
SwitchSession(c) == At(c, "prompt") /\ Activate(c, "save", "prompt")

(* --resume: the process ends if it cannot be, its own file left behind. *)
Resume(c) == At(c, "resume") /\ Activate(c, "prompt", "off")

(* /compact, and /plugin when plugins have changed: the runtime is built    *)
(* anew for the same turns.                                                 *)
Rebuild(c) ==
    /\ At(c, "prompt")
    /\ \E n \in Resolved(c) : Set(c, Saving(Rebuilt(cli[c], cli[c].conv, n), "prompt", "prompt"))
    /\ UNCHANGED <<files, history>>

(* /exit, and the end of the input. *)
Exit(c) ==
    /\ At(c, "prompt")
    /\ Set(c, Saving(cli[c], "off", "off"))
    /\ UNCHANGED <<files, history>>

(* resume_session: a process of its own compacts or clears a session file. *)
ResumedCommand(c) ==
    /\ At(c, "off")
    /\ \E f \in {g \in Files : files[g].state = "whole"} :
          /\ Shares(c, f)
          /\ \E m \in Modes, n \in Models :
                \/ /\ Set(c, Saving(Process(f, files[f].turns, m, n), "off", "off"))
                   /\ UNCHANGED wiped
                \/ /\ Set(c, Saving(Process(f, {}, m, n), "off", "off"))
                   /\ wiped' = wiped \cup {f}
    /\ UNCHANGED <<files, home, safe, spilled>>

-----------------------------------------------------------------------------
(* save_to_path: fs::write. *)
Truncate(c) ==
    /\ At(c, "save")
    /\ files' = [files EXCEPT ![cli[c].handle] = [state |-> "torn", turns |-> {}]]
    /\ Set(c, [cli[c] EXCEPT !.pc = "write"])
    /\ UNCHANGED history

Write(c) ==
    /\ At(c, "write")
    /\ files' = [files EXCEPT ![cli[c].handle] = [state |-> "whole", turns |-> cli[c].conv]]
    /\ safe' = safe \cup {t \in cli[c].conv : home[t] = cli[c].handle}
    /\ Set(c, Going(cli[c], cli[c].then))
    /\ UNCHANGED <<home, shared, wiped, spilled>>

(* The file cannot be opened, or the disk is full. *)
SaveFails(c) ==
    /\ At(c, "save") \/ At(c, "write")
    /\ Set(c, Going(cli[c], cli[c].otherwise))
    /\ UNCHANGED <<files, history>>

Killed(c) ==
    /\ ~At(c, "off")
    /\ Set(c, Off)
    /\ UNCHANGED <<files, history>>

ClientStep(c) ==
    \/ Start(c) \/ Turn(c) \/ Once(c) \/ SwitchModel(c) \/ SetPermissions(c)
    \/ Clear(c) \/ SwitchSession(c) \/ Resume(c) \/ Rebuild(c)
    \/ Exit(c) \/ ResumedCommand(c) \/ Truncate(c) \/ Write(c) \/ SaveFails(c) \/ Killed(c)

Next == \E c \in Clients : ClientStep(c)

Spec == Init /\ [][Next]_vars

-----------------------------------------------------------------------------
(* A turn that has been saved stays in the file of its session, whatever    *)
(* commands follow, which of them fail, and whichever process is killed.    *)
(* Only a save that is cut short makes the file unreadable; two processes   *)
(* with the same file overwrite each other; and a clear may be meant.       *)
SavedTurnsSurvive ==
    \A t \in safe :
        \/ t \in files[home[t]].turns
        \/ files[home[t]].state = "torn"
        \/ home[t] \in shared \cup wiped

(* A session file has no turns of another session, unless the /clear it     *)
(* began with has failed half-way.                                          *)
SessionsDoNotMix ==
    \A f \in Files \ spilled : \A t \in files[f].turns : home[t] = f

(* What is shown is what is in force: the permission mode is the one the    *)
(* runtime obeys, unless the last change of it has failed, and the model is *)
(* the one requests are sent to, across turns and a /model that fall back   *)
(* to another.  Any other command that falls back when it builds the new    *)
(* runtime (live_cli.rs:648 and others) shows the old one until the next    *)
(* turn, or the next such command that does not.                            *)
ShowsWhatIsActive ==
    \A c \in Clients : At(c, "prompt") =>
        /\ cli[c].policy = cli[c].mode \/ cli[c].botched
        /\ cli[c].active = cli[c].model \/ cli[c].strayed
=============================================================================
