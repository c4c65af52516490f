-------------------------- MODULE LiveSessionProofs --------------------------
(* Theorems about LiveSession, for any processes, files, modes and models,  *)
(* whichever commands and saves fail and wherever processes are killed.     *)
EXTENDS LiveSession, TLAPS

(***************************************************************************)
(* What a process holds agrees with its file.  Unless the file is shared   *)
(* or was cleared, the conversation has every turn that was saved in it;   *)
(* unless the session began with a failing /clear, it has no other turn.   *)
(* The histories are parameters, so that a process can be compared with    *)
(* those of the next state.                                                *)
(***************************************************************************)
Agrees(p, of, saved, loose, mixed) ==
    /\ p.conv \subseteq 1 .. Len(of)
    /\ p.handle \notin mixed => \A t \in p.conv : of[t] = p.handle
    /\ p.handle \notin loose => \A t \in saved : of[t] = p.handle => t \in p.conv

Shown(p) == (p.policy = p.mode \/ p.botched) /\ (p.active = p.model \/ p.strayed)

Running(c) == ~At(c, "off")

ProcessesAgree ==
    \A c \in Clients : Running(c) =>
        Agrees(cli[c], home, safe, shared \cup wiped, spilled) /\ Shown(cli[c])

(* Two processes with the same file share it. *)
SharingIsNoted ==
    \A c, d \in Clients :
        c # d /\ Running(c) /\ Running(d) /\ cli[c].handle = cli[d].handle
            => cli[c].handle \in shared

FilesAgree ==
    /\ \A f \in Files : files[f].turns \subseteq 1 .. Len(home)
    /\ \A f \in Files : files[f].state # "whole" => files[f].turns = {}
    /\ \A t \in safe : files[home[t]].state # "absent"
    /\ SavedTurnsSurvive
    /\ SessionsDoNotMix

IInv == TypeOK /\ ProcessesAgree /\ SharingIsNoted /\ FilesAgree

LEMMA InitInv == Init => IInv
<1> SUFFICES ASSUME Init PROVE IInv
  OBVIOUS
<1>1. TypeOK
  BY TurnsAssumption, SMT DEF Init, TypeOK, File, Off, Turns
<1>2. ProcessesAgree /\ SharingIsNoted
  BY DEF Init, ProcessesAgree, SharingIsNoted, Running, At, Off
<1>3. FilesAgree
  BY SMT DEF Init, FilesAgree, SavedTurnsSurvive, SessionsDoNotMix
<1> QED BY <1>1, <1>2, <1>3 DEF IInv

(***************************************************************************)
(* A step of one process that leaves the files alone.                      *)
(***************************************************************************)
LEMMA ProcessStep ==
    ASSUME IInv, NEW c \in Clients, NEW p, cli' = [cli EXCEPT ![c] = p],
           UNCHANGED <<files, safe>>,
           home' \in Seq(Files), Len(home) <= Len(home'), Len(home') <= MaxTurns,
           \A t \in 1 .. Len(home) : home'[t] = home[t],
           shared \subseteq shared', wiped \subseteq wiped', spilled \subseteq spilled',
           shared' \subseteq Files, wiped' \subseteq Files, spilled' \subseteq Files,
           \/ p = Off
           \/ /\ p \in Cli
              /\ Agrees(p, home', safe, shared' \cup wiped', spilled') /\ Shown(p)
              /\ Open(p.handle) \ {c} # {} => p.handle \in shared'
    PROVE  IInv'
<1>0. /\ cli \in [Clients -> Cli \cup {Off}] /\ c \in DOMAIN cli
      /\ cli'[c] = p /\ \A d \in Clients : d # c => cli'[d] = cli[d]
  BY DEF IInv, TypeOK
<1>1. TypeOK'
  <2>1. Len(home) \in Nat /\ Len(home') \in Nat
    BY DEF IInv, TypeOK
  <2>2. safe' \subseteq 1 .. Len(home')
    BY <2>1, SMT DEF IInv, TypeOK
  <2> QED BY <1>0, <2>2 DEF IInv, TypeOK
<1>a. Len(home) \in Nat /\ Len(home') \in Nat /\ 1 .. Len(home) \subseteq 1 .. Len(home')
  BY SMT DEF IInv, TypeOK
<1>2. ProcessesAgree'
  <2> SUFFICES ASSUME NEW d \in Clients, Running(d)'
               PROVE  /\ Agrees(cli'[d], home', safe', shared' \cup wiped', spilled')
                      /\ Shown(cli'[d])
    BY DEF ProcessesAgree, Running, At
  <2>1. CASE d = c
    BY <2>1, <1>0 DEF Running, At, Off
  <2>2. CASE d # c
    <3>1. Running(d)
      BY <2>2, <1>0 DEF Running, At
    <3>2. Agrees(cli[d], home, safe, shared \cup wiped, spilled) /\ Shown(cli[d])
      BY <3>1 DEF IInv, ProcessesAgree
    <3>3. safe \subseteq 1 .. Len(home)
      BY DEF IInv, TypeOK
    <3>4. Agrees(cli[d], home', safe', shared' \cup wiped', spilled')
      BY <3>2, <3>3, <1>a DEF Agrees
    <3> QED BY <2>2, <3>2, <3>4, <1>0
  <2> QED BY <2>1, <2>2
<1>3. SharingIsNoted'
  <2>1. ASSUME NEW d \in Clients, d # c, Running(c)', Running(d)', cli'[c].handle = cli'[d].handle
        PROVE  cli'[c].handle \in shared'
    <3>1. p # Off /\ d \in Open(p.handle) \ {c}
      BY <2>1, <1>0 DEF Running, At, Off, Open
    <3> QED BY <3>1, <1>0
  <2>2. ASSUME NEW d \in Clients, NEW e \in Clients, d # e, d # c, e # c,
               Running(d)', Running(e)', cli'[d].handle = cli'[e].handle
        PROVE  cli'[d].handle \in shared'
    BY <2>2, <1>0 DEF IInv, SharingIsNoted, Running, At
  <2> QED BY <2>1, <2>2 DEF SharingIsNoted
<1>4. FilesAgree'
  <2>1. safe \subseteq 1 .. Len(home) /\ FilesAgree
    BY DEF IInv, TypeOK
  <2>2. \A t \in safe : home'[t] = home[t]
    BY <2>1
  <2>3. SavedTurnsSurvive'
    BY <2>1, <2>2 DEF FilesAgree, SavedTurnsSurvive
  <2>4. SessionsDoNotMix'
    BY <2>1 DEF FilesAgree, SessionsDoNotMix
  <2>5. \A f \in Files : files'[f].turns \subseteq 1 .. Len(home')
    BY <2>1, <1>a DEF FilesAgree
  <2> QED BY <2>1, <2>2, <2>3, <2>4, <2>5 DEF FilesAgree
<1> QED BY <1>1, <1>2, <1>3, <1>4 DEF IInv

(* A process that keeps its file and conversation, and shows what is in force. *)
LEMMA SameSessionStep ==
    ASSUME IInv, NEW c \in Clients, Running(c), NEW p, cli' = [cli EXCEPT ![c] = p],
           UNCHANGED <<files, history>>,
           \/ p = Off
           \/ p \in Cli /\ Shown(p) /\ p.handle = cli[c].handle /\ p.conv = cli[c].conv
    PROVE  IInv'
<1>1. Agrees(cli[c], home, safe, shared \cup wiped, spilled)
  BY DEF IInv, ProcessesAgree
<1>2. Open(cli[c].handle) \ {c} # {} => cli[c].handle \in shared
  BY DEF IInv, SharingIsNoted, Open, Running
<1>3. shared' = shared /\ wiped' = wiped /\ spilled' = spilled
      /\ files' = files /\ home' = home /\ safe' = safe
  BY DEF history
<1>4. p # Off => Agrees(p, home, safe, shared' \cup wiped', spilled')
  BY <1>1, <1>3 DEF Agrees
<1>5. /\ shared \subseteq Files /\ wiped \subseteq Files /\ spilled \subseteq Files
      /\ home \in Seq(Files) /\ Len(home) <= Len(home) /\ Len(home) <= MaxTurns
  BY SMT DEF IInv, TypeOK
<1> QED BY <1>2, <1>3, <1>4, <1>5, ProcessStep

(* A running process is one of Cli. *)
LEMMA RunningType ==
    ASSUME IInv, NEW c \in Clients, Running(c)
    PROVE  cli[c] \in Cli /\ Shown(cli[c])
  BY DEF IInv, TypeOK, Running, At, Off, ProcessesAgree

LEMMA GoingType ==
    ASSUME NEW p \in Cli, Shown(p), NEW place \in Places \cup {"off"}
    PROVE  LET q == Going(p, place)
           IN  \/ q = Off
               \/ q \in Cli /\ Shown(q) /\ q.handle = p.handle /\ q.conv = p.conv
<1>1. CASE place = "off"
  BY <1>1 DEF Going
<1>2. CASE place # "off"
  <2> DEFINE q == [p EXCEPT !.pc = place, !.then = "prompt", !.otherwise = "prompt"]
  <2>1. q \in Cli
    BY <1>2 DEF Cli, Places
  <2>2. /\ q.handle = p.handle /\ q.conv = p.conv /\ q.policy = p.policy /\ q.mode = p.mode
        /\ q.active = p.active /\ q.model = p.model
        /\ q.botched = p.botched /\ q.strayed = p.strayed
    BY DEF Cli
  <2>3. Shown(q)
    BY <2>2 DEF Shown
  <2> QED BY <1>2, <2>1, <2>2, <2>3 DEF Going
<1> QED BY <1>1, <1>2

LEMMA SavingType ==
    ASSUME NEW p \in Cli, Shown(p), NEW then \in Places \cup {"off"},
           NEW otherwise \in {"prompt", "off"}
    PROVE  LET q == Saving(p, then, otherwise)
           IN  q \in Cli /\ Shown(q) /\ q.handle = p.handle /\ q.conv = p.conv
<1> DEFINE q == [p EXCEPT !.pc = "save", !.then = then, !.otherwise = otherwise]
<1>1. q \in Cli
  BY DEF Cli, Places
<1>2. /\ q.handle = p.handle /\ q.conv = p.conv /\ q.policy = p.policy /\ q.mode = p.mode
      /\ q.active = p.active /\ q.model = p.model
        /\ q.botched = p.botched /\ q.strayed = p.strayed
  BY DEF Cli
<1>3. Shown(q)
  BY <1>2 DEF Shown
<1> QED BY <1>1, <1>2, <1>3 DEF Saving

LEMMA RebuiltType ==
    ASSUME NEW p \in Cli, NEW conv \in SUBSET Turns, NEW n \in Models
    PROVE  LET q == Rebuilt(p, conv, n)
           IN  q \in Cli /\ Shown(q) /\ q.handle = p.handle /\ q.conv = conv
<1> DEFINE q == [p EXCEPT !.conv = conv, !.policy = p.mode, !.active = n, !.botched = FALSE,
                          !.strayed = (n # p.model)]
<1>1. q \in Cli
  BY DEF Cli
<1>2. q.handle = p.handle /\ q.conv = conv /\ q.policy = q.mode /\ q.active = n /\ q.model = p.model
  BY DEF Cli
<1>2a. q.strayed <=> n # p.model
  BY DEF Cli
<1>3. Shown(q)
  BY <1>2, <1>2a DEF Shown
<1> QED BY <1>1, <1>2, <1>3 DEF Rebuilt

(* The model a build resolves to is one. *)
LEMMA ResolvedType == ASSUME IInv, NEW c \in Clients, Running(c) PROVE Resolved(c) \subseteq Models
BY RunningType DEF Resolved, Cli

LEMMA TakenOverType ==
    ASSUME NEW p \in Cli, Shown(p)
    PROVE  LET q == TakenOver(p)
           IN  q \in Cli /\ Shown(q) /\ q.handle = p.handle /\ q.conv = p.conv
<1> DEFINE q == [p EXCEPT !.model = p.active, !.strayed = FALSE]
<1>1. q \in Cli
  BY DEF Cli
<1>2. /\ q.handle = p.handle /\ q.conv = p.conv /\ q.active = q.model
      /\ q.policy = p.policy /\ q.mode = p.mode /\ q.botched = p.botched
  BY DEF Cli
<1>3. Shown(q)
  BY <1>2 DEF Shown
<1> QED BY <1>1, <1>2, <1>3 DEF TakenOver

LEMMA ProcessType ==
    ASSUME NEW f \in Files, NEW conv \in SUBSET Turns, NEW m \in Modes, NEW n \in Models
    PROVE  LET q == Process(f, conv, m, n)
           IN  q \in Cli /\ Shown(q) /\ q.handle = f /\ q.conv = conv
  BY SMT DEF Process, Cli, Shown, Places

(***************************************************************************)
(* The actions.                                                            *)
(***************************************************************************)
LEMMA StartStep == ASSUME IInv, NEW c \in Clients, Start(c) PROVE IInv'
<1>1. PICK f \in NewFiles, m \in Modes, n \in Models, then \in {"prompt", "resume", "once"} :
        Set(c, Saving(Process(f, {}, m, n), then, "off"))
  BY DEF Start
<1>2. PICK p : p = Saving(Process(f, {}, m, n), then, "off")
  OBVIOUS
<1>3. f \in Files /\ files[f].state = "absent" /\ Open(f) = {}
  BY DEF NewFiles
<1>4. p \in Cli /\ Shown(p) /\ p.handle = f /\ p.conv = {}
  <2> DEFINE q == Process(f, {}, m, n)
  <2>1. q \in Cli /\ Shown(q) /\ q.handle = f /\ q.conv = {}
    BY <1>3, ProcessType
  <2> HIDE DEF q
  <2>2. then \in Places \cup {"off"}
    BY DEF Places
  <2>3. LET r == Saving(q, then, "off")
        IN  r \in Cli /\ Shown(r) /\ r.handle = q.handle /\ r.conv = q.conv
    BY <2>1, <2>2, SavingType
  <2>4. p = Saving(q, then, "off")
    BY <1>2 DEF q
  <2> QED BY <2>1, <2>3, <2>4
<1>5. Agrees(p, home, safe, shared \cup wiped, spilled)
  BY <1>3, <1>4 DEF Agrees, IInv, FilesAgree
<1>6. /\ shared \subseteq Files /\ wiped \subseteq Files /\ spilled \subseteq Files
      /\ home \in Seq(Files) /\ Len(home) <= Len(home) /\ Len(home) <= MaxTurns
  BY SMT DEF IInv, TypeOK
<1>7. UNCHANGED <<files, home, safe, shared, wiped, spilled>> /\ cli' = [cli EXCEPT ![c] = p]
  BY <1>1, <1>2 DEF Start, Set, history
<1> QED BY <1>3, <1>4, <1>5, <1>6, <1>7, ProcessStep

(* A turn is made in the session whose file the process has. *)
LEMMA TurnStep ==
    ASSUME IInv, NEW c \in Clients, Running(c), Len(home) < MaxTurns,
           home' = Append(home, cli[c].handle), UNCHANGED <<files, safe, shared, wiped, spilled>>,
           NEW p, cli' = [cli EXCEPT ![c] = p],
           \/ p = Off
           \/ /\ p \in Cli /\ Shown(p) /\ p.handle = cli[c].handle
              /\ p.conv = cli[c].conv \cup {Len(home')}
    PROVE  IInv'
<1>1. cli[c] \in Cli /\ Agrees(cli[c], home, safe, shared \cup wiped, spilled)
  BY RunningType DEF IInv, ProcessesAgree
<1>2. cli[c].handle \in Files
  BY <1>1 DEF Cli
<1>3. /\ home' \in Seq(Files) /\ Len(home') = Len(home) + 1 /\ Len(home) \in Nat
      /\ \A t \in 1 .. Len(home) : home'[t] = home[t]
      /\ home'[Len(home')] = cli[c].handle
  BY <1>2, SMT DEF IInv, TypeOK
<1>4. Len(home) <= Len(home') /\ Len(home') <= MaxTurns
      /\ 1 .. Len(home') = 1 .. Len(home) \cup {Len(home')}
  BY <1>3, TurnsAssumption, SMT
<1>5. Open(cli[c].handle) \ {c} # {} => cli[c].handle \in shared
  BY DEF IInv, SharingIsNoted, Open, Running
<1>6. safe \subseteq 1 .. Len(home)
  BY DEF IInv, TypeOK
<1>7. p # Off => Agrees(p, home', safe, shared \cup wiped, spilled)
  BY <1>1, <1>3, <1>4, <1>6 DEF Agrees
<1>8. shared \subseteq Files /\ wiped \subseteq Files /\ spilled \subseteq Files
  BY DEF IInv, TypeOK
<1> QED BY <1>3, <1>4, <1>5, <1>7, <1>8, ProcessStep

LEMMA AfterTurnType ==
    ASSUME NEW p \in Cli, Shown(p), NEW turn \in Turns, NEW n \in Models
    PROVE  LET q == AfterTurn(p, turn, n)
           IN  q \in Cli /\ Shown(q) /\ q.handle = p.handle /\ q.conv = p.conv \cup {turn}
<1> DEFINE q == [p EXCEPT !.conv = @ \cup {turn}, !.active = n, !.model = n, !.strayed = FALSE]
<1>1. q \in Cli
  BY DEF Cli
<1>2. /\ q.handle = p.handle /\ q.conv = p.conv \cup {turn} /\ q.active = q.model
      /\ q.policy = p.policy /\ q.mode = p.mode /\ q.botched = p.botched
  BY DEF Cli
<1>3. Shown(q)
  BY <1>2 DEF Shown
<1> QED BY <1>1, <1>2, <1>3 DEF AfterTurn

LEMMA TurnsStep == ASSUME IInv, NEW c \in Clients, Turn(c) \/ Once(c) PROVE IInv'
<1>0. /\ Running(c) /\ Len(home) < MaxTurns /\ home' = Append(home, cli[c].handle)
      /\ UNCHANGED <<files, safe, shared, wiped, spilled>>
  BY DEF Turn, Once, Running, At
<1>1. cli[c] \in Cli /\ Shown(cli[c]) /\ cli[c].handle \in Files
  BY <1>0, RunningType DEF Cli
<1>2. Len(home') \in Turns
  BY <1>0, <1>1, TurnsAssumption, SMT DEF IInv, TypeOK, Turns
<1>3. PICK n \in Models :
        LET after == AfterTurn(cli[c], Len(home'), n)
        IN  \/ Set(c, Saving(after, "prompt", "prompt"))
            \/ Set(c, Saving(after, "off", "off"))
            \/ Set(c, after)
            \/ Set(c, Off)
  BY DEF Turn, Once
<1>4. PICK after : after = AfterTurn(cli[c], Len(home'), n)
  OBVIOUS
<1>5. /\ after \in Cli /\ Shown(after) /\ after.handle = cli[c].handle
      /\ after.conv = cli[c].conv \cup {Len(home')}
  BY <1>1, <1>2, <1>4, AfterTurnType
<1>6. ASSUME NEW place \in {"prompt", "off"}, Set(c, Saving(after, place, place))
      PROVE  IInv'
  <2>1. PICK p : p = Saving(after, place, place)
    OBVIOUS
  <2>2. p \in Cli /\ Shown(p) /\ p.handle = after.handle /\ p.conv = after.conv
    BY <1>5, <2>1, SavingType DEF Places
  <2> QED BY <1>0, <1>5, <1>6, <2>1, <2>2, TurnStep DEF Set
<1>7. ASSUME Set(c, after) \/ Set(c, Off) PROVE IInv'
  BY <1>0, <1>5, <1>7, TurnStep DEF Set
<1> QED BY <1>3, <1>4, <1>6, <1>7

LEMMA ChangeOfMindType ==
    ASSUME NEW p \in Cli, NEW m \in Modes
    PROVE  /\ [p EXCEPT !.mode = m] \in Cli
           /\ [p EXCEPT !.mode = m].handle = p.handle /\ [p EXCEPT !.mode = m].conv = p.conv
  BY DEF Cli

(* A runtime that is built anew in the same session, which is then saved. *)
LEMMA RebuildStep ==
    ASSUME IInv, NEW c \in Clients, Running(c), UNCHANGED <<files, history>>,
           NEW q \in Cli, q.handle = cli[c].handle, q.conv = cli[c].conv, NEW n \in Models,
           Set(c, Saving(Rebuilt(q, q.conv, n), "prompt", "prompt"))
    PROVE  IInv'
<1>1. q.conv \in SUBSET Turns
  BY DEF Cli
<1>2. PICK r : r = Rebuilt(q, q.conv, n)
  OBVIOUS
<1>3. r \in Cli /\ Shown(r) /\ r.handle = cli[c].handle /\ r.conv = cli[c].conv
  BY <1>1, <1>2, RebuiltType
<1>4. PICK p : p = Saving(r, "prompt", "prompt")
  OBVIOUS
<1>5. p \in Cli /\ Shown(p) /\ p.handle = cli[c].handle /\ p.conv = cli[c].conv
  BY <1>3, <1>4, SavingType DEF Places
<1> QED BY <1>2, <1>4, <1>5, SameSessionStep DEF Set

LEMMA SameSessionSteps ==
    ASSUME IInv, NEW c \in Clients,
           \/ SwitchModel(c) \/ SetPermissions(c) \/ Rebuild(c)
           \/ Exit(c) \/ SaveFails(c) \/ Killed(c)
    PROVE  IInv'
<1>0. Running(c) /\ UNCHANGED <<files, history>>
  BY DEF SwitchModel, SetPermissions, Rebuild, Exit, SaveFails, Killed, Running, At
<1>1. cli[c] \in Cli /\ Shown(cli[c])
  BY <1>0, RunningType
<1>2. CASE SwitchModel(c)
  <2>1. PICK n \in Models :
          Set(c, Saving(TakenOver(Rebuilt(cli[c], cli[c].conv, n)), "prompt", "prompt"))
    BY <1>2 DEF SwitchModel
  <2>2. PICK r : r = Rebuilt(cli[c], cli[c].conv, n)
    OBVIOUS
  <2>3. r \in Cli /\ Shown(r) /\ r.handle = cli[c].handle /\ r.conv = cli[c].conv
    <3>1. cli[c].conv \in SUBSET Turns
      BY <1>1 DEF Cli
    <3> QED BY <1>1, <2>2, <3>1, RebuiltType
  <2>4. PICK q : q = TakenOver(r)
    OBVIOUS
  <2>5. q \in Cli /\ Shown(q) /\ q.handle = cli[c].handle /\ q.conv = cli[c].conv
    BY <2>3, <2>4, TakenOverType
  <2>6. PICK p : p = Saving(q, "prompt", "prompt")
    OBVIOUS
  <2>7. p \in Cli /\ Shown(p) /\ p.handle = cli[c].handle /\ p.conv = cli[c].conv
    BY <2>5, <2>6, SavingType DEF Places
  <2> QED BY <1>0, <2>1, <2>2, <2>4, <2>6, <2>7, SameSessionStep DEF Set
<1>3. CASE SetPermissions(c)
  <2>1. PICK label \in Modes, n \in Models :
          \/ Set(c, Saving(Permitted(cli[c], label, n), "prompt", "prompt"))
          \/ Set(c, [cli[c] EXCEPT !.mode = label, !.botched = TRUE])
    BY <1>0, <1>3, ResolvedType, LabelsAssumption DEF SetPermissions, NewMode
  <2>2. CASE Set(c, Saving(Permitted(cli[c], label, n), "prompt", "prompt"))
    <3>1. PICK q : q = [cli[c] EXCEPT !.mode = label]
      OBVIOUS
    <3>2. q \in Cli /\ q.handle = cli[c].handle /\ q.conv = cli[c].conv
      BY <1>1, <3>1, LabelsAssumption, ChangeOfMindType
    <3> QED BY <1>0, <2>2, <3>1, <3>2, RebuildStep DEF Permitted
  <2>3. CASE Set(c, [cli[c] EXCEPT !.mode = label, !.botched = TRUE])
    <3>1. PICK p : p = [cli[c] EXCEPT !.mode = label, !.botched = TRUE]
      OBVIOUS
    <3>2. p \in Cli
      BY <1>1, <3>1 DEF Cli
    <3>3. /\ p.handle = cli[c].handle /\ p.conv = cli[c].conv /\ p.botched = TRUE
          /\ p.active = cli[c].active /\ p.model = cli[c].model /\ p.strayed = cli[c].strayed
      BY <1>1, <3>1 DEF Cli
    <3>4. Shown(p)
      BY <1>1, <3>3 DEF Shown
    <3> QED BY <1>0, <2>3, <3>1, <3>2, <3>3, <3>4, SameSessionStep DEF Set
  <2> QED BY <2>1, <2>2, <2>3
<1>4. CASE Rebuild(c)
  <2>1. PICK n \in Models : Set(c, Saving(Rebuilt(cli[c], cli[c].conv, n), "prompt", "prompt"))
    BY <1>0, <1>4, ResolvedType DEF Rebuild
  <2> QED BY <1>0, <1>1, <2>1, RebuildStep
<1>5. CASE Exit(c)
  <2>1. PICK p : p = Saving(cli[c], "off", "off")
    OBVIOUS
  <2>2. p \in Cli /\ Shown(p) /\ p.handle = cli[c].handle /\ p.conv = cli[c].conv
    BY <1>1, <2>1, SavingType
  <2> QED BY <1>0, <1>5, <2>1, <2>2, SameSessionStep DEF Exit, Set
<1>6. CASE SaveFails(c)
  <2>1. cli[c].otherwise \in Places \cup {"off"}
    BY <1>1 DEF Cli, Places
  <2>2. PICK p : p = Going(cli[c], cli[c].otherwise)
    OBVIOUS
  <2>3. \/ p = Off
        \/ p \in Cli /\ Shown(p) /\ p.handle = cli[c].handle /\ p.conv = cli[c].conv
    BY <1>1, <2>1, <2>2, GoingType
  <2> QED BY <1>0, <1>6, <2>2, <2>3, SameSessionStep DEF SaveFails, Set
<1>7. CASE Killed(c)
  BY <1>0, <1>7, SameSessionStep DEF Killed, Set
<1> QED BY <1>2, <1>3, <1>4, <1>5, <1>6, <1>7

(* A new file has nothing in it, whether the conversation is left or not. *)
LEMMA ClearStep == ASSUME IInv, NEW c \in Clients, Clear(c) PROVE IInv'
<1>0. Running(c) /\ UNCHANGED <<files, home, safe, shared, wiped>>
  BY DEF Clear, Running, At
<1>1. cli[c] \in Cli /\ Shown(cli[c])
  BY <1>0, RunningType
<1>a. PICK f \in NewFiles, n \in Models :
        LET q == [cli[c] EXCEPT !.handle = f]
        IN  \/ Set(c, Saving(Rebuilt(q, {}, n), "prompt", "prompt")) /\ spilled' = spilled
            \/ Set(c, q) /\ spilled' = spilled \cup {f}
  BY <1>0, ResolvedType, LabelsAssumption DEF Clear
<1>2. PICK q : q = [cli[c] EXCEPT !.handle = f]
  OBVIOUS
<1>3. f \in Files /\ files[f].state = "absent" /\ Open(f) = {}
  BY DEF NewFiles
<1>4. q \in Cli /\ q.handle = f /\ q.conv = cli[c].conv /\ Shown(q)
  <2>1. q \in Cli
    BY <1>1, <1>2, <1>3 DEF Cli
  <2>2. /\ q.handle = f /\ q.conv = cli[c].conv
        /\ q.policy = cli[c].policy /\ q.mode = cli[c].mode /\ q.botched = cli[c].botched
        /\ q.strayed = cli[c].strayed /\ q.active = cli[c].active /\ q.model = cli[c].model
    BY <1>1, <1>2 DEF Cli
  <2> QED BY <1>1, <2>1, <2>2 DEF Shown
<1>5. \A t \in safe : home[t] # f
  BY <1>3 DEF IInv, FilesAgree
<1>6. /\ shared \subseteq Files /\ wiped \subseteq Files /\ spilled \subseteq Files
      /\ home \in Seq(Files) /\ Len(home) <= Len(home) /\ Len(home) <= MaxTurns
  BY SMT DEF IInv, TypeOK
<1>7. CASE Set(c, Saving(Rebuilt(q, {}, n), "prompt", "prompt")) /\ spilled' = spilled
  <2>1. PICK r : r = Rebuilt(q, {}, n)
    OBVIOUS
  <2>2. r \in Cli /\ Shown(r) /\ r.handle = f /\ r.conv = {}
    BY <1>4, <2>1, RebuiltType
  <2>3. PICK p : p = Saving(r, "prompt", "prompt")
    OBVIOUS
  <2>4. p \in Cli /\ Shown(p) /\ p.handle = f /\ p.conv = {}
    BY <2>2, <2>3, SavingType DEF Places
  <2>5. Agrees(p, home, safe, shared \cup wiped, spilled)
    BY <1>5, <2>4 DEF Agrees
  <2>6. cli' = [cli EXCEPT ![c] = p]
    BY <1>7, <2>1, <2>3 DEF Set
  <2> QED BY <1>0, <1>3, <1>6, <1>7, <2>4, <2>5, <2>6, ProcessStep
<1>8. CASE Set(c, q) /\ spilled' = spilled \cup {f}
  <2>1. Agrees(cli[c], home, safe, shared \cup wiped, spilled)
    BY <1>0 DEF IInv, ProcessesAgree
  <2>2. Agrees(q, home, safe, shared \cup wiped, spilled \cup {f})
    BY <1>4, <1>5, <2>1 DEF Agrees
  <2>3. cli' = [cli EXCEPT ![c] = q] /\ spilled \cup {f} \subseteq Files
    BY <1>3, <1>6, <1>8 DEF Set
  <2> QED BY <1>0, <1>3, <1>4, <1>6, <1>8, <2>2, <2>3, ProcessStep
<1> QED BY <1>a, <1>2, <1>7, <1>8

(* A file that is read whole has all the turns that were saved in it. *)
LEMMA LoadStep ==
    ASSUME IInv, NEW c \in Clients, NEW f \in Files, files[f].state = "whole", Shares(c, f),
           UNCHANGED <<files, home, safe, spilled>>,
           wiped \subseteq wiped', wiped' \subseteq Files,
           NEW p \in Cli, Shown(p), p.handle = f, cli' = [cli EXCEPT ![c] = p],
           p.conv = files[f].turns \/ (p.conv = {} /\ f \in wiped')
    PROVE  IInv'
<1>1. /\ shared \subseteq shared' /\ shared' \subseteq Files
      /\ Open(f) \ {c} # {} => f \in shared'
  BY DEF Shares, IInv, TypeOK
<1>2. Agrees(p, home, safe, shared' \cup wiped', spilled)
  BY <1>1 DEF Agrees, IInv, FilesAgree, SavedTurnsSurvive, SessionsDoNotMix
<1>3. /\ spilled \subseteq Files
      /\ home \in Seq(Files) /\ Len(home) <= Len(home) /\ Len(home) <= MaxTurns
  BY SMT DEF IInv, TypeOK
<1> QED BY <1>1, <1>2, <1>3, ProcessStep

LEMMA FileTurns ==
    ASSUME IInv, NEW f \in Files
    PROVE  files[f] \in File /\ files[f].turns \in SUBSET Turns
  BY DEF IInv, TypeOK, File

LEMMA ActivateStep ==
    ASSUME IInv, NEW c \in Clients, Running(c), NEW then \in {"save", "prompt"},
           NEW otherwise \in {"prompt", "off"}, Activate(c, then, otherwise)
    PROVE  IInv'
<1>1. cli[c] \in Cli /\ Shown(cli[c])
  BY RunningType
<1>2. CASE Set(c, Going(cli[c], otherwise)) /\ UNCHANGED <<files, history>>
  <2>1. PICK p : p = Going(cli[c], otherwise)
    OBVIOUS
  <2>2. \/ p = Off
        \/ p \in Cli /\ Shown(p) /\ p.handle = cli[c].handle /\ p.conv = cli[c].conv
    BY <1>1, <2>1, GoingType DEF Places
  <2> QED BY <1>2, <2>1, <2>2, SameSessionStep DEF Set
<1>3. ASSUME NEW f \in Files, files[f].state = "whole", Shares(c, f), NEW n \in Models,
             UNCHANGED <<files, home, safe, wiped, spilled>>,
             Set(c, LET state == Rebuilt([cli[c] EXCEPT !.handle = f], files[f].turns, n)
                    IN  IF then = "save" THEN Saving(state, "prompt", "prompt")
                        ELSE Going(state, then))
      PROVE  IInv'
  <2>1. PICK q : q = [cli[c] EXCEPT !.handle = f]
    OBVIOUS
  <2>2. q \in Cli /\ q.handle = f
    BY <1>1, <2>1 DEF Cli
  <2>3. PICK r : r = Rebuilt(q, files[f].turns, n)
    OBVIOUS
  <2>4. r \in Cli /\ Shown(r) /\ r.handle = f /\ r.conv = files[f].turns
    BY <2>2, <2>3, FileTurns, RebuiltType
  <2>5. PICK p : p = IF then = "save" THEN Saving(r, "prompt", "prompt") ELSE Going(r, then)
    OBVIOUS
  <2>6. p \in Cli /\ Shown(p) /\ p.handle = f /\ p.conv = files[f].turns
    <3>1. CASE then = "save"
      BY <2>4, <2>5, <3>1, SavingType DEF Places
    <3>2. CASE then = "prompt"
      <4>1. p = Going(r, "prompt") /\ "prompt" \in Places \cup {"off"}
        BY <2>5, <3>2 DEF Places
      <4>2. Going(r, "prompt") # Off
        BY <2>4 DEF Going, Off, Cli
      <4> QED BY <2>4, <4>1, <4>2, GoingType
    <3> QED BY <3>1, <3>2
  <2>7. cli' = [cli EXCEPT ![c] = p]
    BY <1>3, <2>1, <2>3, <2>5 DEF Set
  <2>8. wiped \subseteq wiped' /\ wiped' \subseteq Files
    BY <1>3 DEF IInv, TypeOK
  <2> QED BY <1>3, <2>6, <2>7, <2>8, LoadStep
<1> QED BY <1>2, <1>3, ResolvedType DEF Activate, NotActivated

LEMMA ResumedCommandStep == ASSUME IInv, NEW c \in Clients, ResumedCommand(c) PROVE IInv'
<1>1. PICK f \in Files, m \in Modes, n \in Models, conv \in SUBSET Turns :
        /\ files[f].state = "whole" /\ Shares(c, f)
        /\ Set(c, Saving(Process(f, conv, m, n), "off", "off"))
        /\ \/ conv = files[f].turns /\ wiped' = wiped
           \/ conv = {} /\ wiped' = wiped \cup {f}
  BY FileTurns DEF ResumedCommand
<1>2. PICK q : q = Process(f, conv, m, n)
  OBVIOUS
<1>3. q \in Cli /\ Shown(q) /\ q.handle = f /\ q.conv = conv
  BY <1>2, ProcessType
<1>4. PICK p : p = Saving(q, "off", "off")
  OBVIOUS
<1>5. p \in Cli /\ Shown(p) /\ p.handle = f /\ p.conv = conv
  BY <1>3, <1>4, SavingType
<1>6. UNCHANGED <<files, home, safe, spilled>> /\ cli' = [cli EXCEPT ![c] = p]
  BY <1>1, <1>2, <1>4 DEF ResumedCommand, Set
<1>7. wiped \subseteq wiped' /\ wiped' \subseteq Files
  BY <1>1 DEF IInv, TypeOK
<1> QED BY <1>1, <1>5, <1>6, <1>7, LoadStep

(* A save that has begun leaves the file unreadable, and nothing else. *)
LEMMA TruncateStep == ASSUME IInv, NEW c \in Clients, Truncate(c) PROVE IInv'
<1> DEFINE f == cli[c].handle
           p == [cli[c] EXCEPT !.pc = "write"]
<1>0. Running(c) /\ history' = history /\ cli' = [cli EXCEPT ![c] = p]
  BY DEF Truncate, Running, At, Set
<1>1. cli[c] \in Cli /\ f \in Files
  BY <1>0, RunningType DEF Cli
<1>2. p \in Cli /\ p.handle = f /\ p.conv = cli[c].conv /\ (Shown(cli[c]) => Shown(p))
  BY <1>1 DEF Cli, Places, Shown
<1>3. /\ files' \in [Files -> File]
      /\ files'[f].state = "torn" /\ files'[f].turns = {}
      /\ \A g \in Files : g # f => files'[g] = files[g]
  <2>1. [state |-> "torn", turns |-> {}] \in File
    BY DEF File
  <2> QED BY <1>1, <2>1 DEF Truncate, IInv, TypeOK
<1>4. /\ cli' \in [Clients -> Cli \cup {Off}]
      /\ \A d \in Clients : Running(d)' <=> Running(d)
      /\ \A d \in Clients : Running(d) =>
            /\ cli'[d].handle = cli[d].handle /\ cli'[d].conv = cli[d].conv
            /\ Shown(cli[d]) => Shown(cli'[d])
  BY <1>0, <1>1, <1>2 DEF IInv, TypeOK, Running, At
<1>5. TypeOK'
  BY <1>0, <1>3, <1>4 DEF IInv, TypeOK, history
<1>6. ProcessesAgree' /\ SharingIsNoted'
  BY <1>0, <1>4 DEF IInv, ProcessesAgree, SharingIsNoted, Agrees, history
<1>7. FilesAgree'
  <2>1. \A t \in safe : home[t] \in Files
    BY SMT DEF IInv, TypeOK
  <2> QED BY <1>0, <1>1, <1>3, <2>1 DEF IInv, FilesAgree, SavedTurnsSurvive, SessionsDoNotMix, history
<1> QED BY <1>5, <1>6, <1>7 DEF IInv

(* A save that succeeds has all the turns that were saved before, unless    *)
(* another process has the file as well.                                    *)
LEMMA WriteStep == ASSUME IInv, NEW c \in Clients, Write(c) PROVE IInv'
<1> DEFINE f == cli[c].handle
<1>0. /\ Running(c) /\ home' = home /\ shared' = shared /\ wiped' = wiped /\ spilled' = spilled
      /\ safe' = safe \cup {t \in cli[c].conv : home[t] = f}
  BY DEF Write, Running, At
<1>1. cli[c] \in Cli /\ Shown(cli[c]) /\ f \in Files /\ cli[c].conv \in SUBSET Turns
      /\ cli[c].then \in Places \cup {"off"}
  BY <1>0, RunningType DEF Cli
<1>2. PICK p : p = Going(cli[c], cli[c].then)
  OBVIOUS
<1>3. \/ p = Off
      \/ p \in Cli /\ Shown(p) /\ p.handle = f /\ p.conv = cli[c].conv
  BY <1>1, <1>2, GoingType
<1>4. /\ files' \in [Files -> File]
      /\ files'[f].state = "whole" /\ files'[f].turns = cli[c].conv
      /\ \A g \in Files : g # f => files'[g] = files[g]
  <2>1. [state |-> "whole", turns |-> cli[c].conv] \in File
    BY <1>1 DEF File
  <2> QED BY <1>1, <2>1 DEF Write, IInv, TypeOK
<1>5. /\ cli' \in [Clients -> Cli \cup {Off}] /\ cli'[c] = p
      /\ \A d \in Clients : d # c => cli'[d] = cli[d]
  BY <1>2, <1>3 DEF Write, Set, IInv, TypeOK
<1>6. Agrees(cli[c], home, safe, shared \cup wiped, spilled)
  BY <1>0 DEF IInv, ProcessesAgree
<1>7. /\ safe \subseteq safe' /\ safe' \subseteq 1 .. Len(home)
      /\ \A t \in safe' : t \in safe \/ (t \in cli[c].conv /\ home[t] = f)
  BY <1>0, <1>6 DEF IInv, TypeOK, Agrees
<1>8. TypeOK'
  BY <1>0, <1>4, <1>5, <1>7 DEF IInv, TypeOK
<1>9. ProcessesAgree'
  <2> SUFFICES ASSUME NEW d \in Clients, Running(d)'
               PROVE  /\ Agrees(cli'[d], home, safe', shared \cup wiped, spilled)
                      /\ Shown(cli'[d])
    BY <1>0 DEF ProcessesAgree, Running, At
  <2>1. CASE d = c
    <3>1. p # Off
      BY <2>1, <1>5 DEF Running, At, Off
    <3> QED BY <2>1, <3>1, <1>3, <1>5, <1>6, <1>7 DEF Agrees
  <2>2. CASE d # c
    <3>1. Running(d)
      BY <2>2, <1>5 DEF Running, At
    <3>2. Agrees(cli[d], home, safe, shared \cup wiped, spilled) /\ Shown(cli[d])
      BY <3>1 DEF IInv, ProcessesAgree
    <3>3. cli[d].handle = f => f \in shared
      BY <2>2, <3>1, <1>0 DEF IInv, SharingIsNoted
    <3>4. Agrees(cli[d], home, safe', shared \cup wiped, spilled)
      BY <3>2, <3>3, <1>7 DEF Agrees
    <3> QED BY <2>2, <3>2, <3>4, <1>5
  <2> QED BY <2>1, <2>2
<1>10. SharingIsNoted'
  <2>1. \A d \in Clients : Running(d)' => Running(d) /\ cli'[d].handle = cli[d].handle
    BY <1>0, <1>3, <1>5 DEF Running, At, Off
  <2> QED BY <2>1, <1>0 DEF IInv, SharingIsNoted
<1>11. FilesAgree'
  <2>1. \A t \in safe : home[t] \in Files
    BY SMT DEF IInv, TypeOK
  <2>2. FilesAgree /\ SavedTurnsSurvive /\ SessionsDoNotMix
    BY DEF IInv, FilesAgree
  <2>3. \A g \in Files : /\ files'[g].turns \subseteq 1 .. Len(home)
                         /\ files'[g].state # "whole" => files'[g].turns = {}
    BY <1>4, <1>6, <2>2 DEF Agrees, FilesAgree
  <2>4. \A t \in safe' : files'[home[t]].state # "absent"
    BY <1>1, <1>4, <1>7, <2>1, <2>2 DEF FilesAgree
  <2>5. ASSUME NEW t \in safe'
        PROVE  \/ t \in files'[home[t]].turns
               \/ files'[home[t]].state = "torn"
               \/ home[t] \in shared \cup wiped
    <3>1. CASE home[t] = f
      BY <3>1, <1>4, <1>6, <1>7 DEF Agrees
    <3>2. CASE home[t] # f
      BY <3>2, <1>4, <1>7, <2>1, <2>2 DEF SavedTurnsSurvive
    <3> QED BY <3>1, <3>2
  <2>6. ASSUME NEW g \in Files \ spilled, NEW t \in files'[g].turns
        PROVE  home[t] = g
    BY <2>6, <1>4, <1>6, <2>2 DEF Agrees, SessionsDoNotMix
  <2> QED BY <1>0, <2>3, <2>4, <2>5, <2>6 DEF FilesAgree, SavedTurnsSurvive, SessionsDoNotMix
<1> QED BY <1>8, <1>9, <1>10, <1>11 DEF IInv

LEMMA NextInv == IInv /\ [Next]_vars => IInv'
<1> SUFFICES ASSUME IInv, [Next]_vars PROVE IInv'
  OBVIOUS
<1>1. CASE UNCHANGED vars
  <2>1. /\ cli' = cli /\ files' = files /\ home' = home /\ safe' = safe
        /\ shared' = shared /\ wiped' = wiped /\ spilled' = spilled
    BY <1>1 DEF vars, history
  <2> QED BY <2>1 DEF IInv, TypeOK, ProcessesAgree, SharingIsNoted, FilesAgree, Running, At,
                      SavedTurnsSurvive, SessionsDoNotMix
<1>2. ASSUME NEW c \in Clients, ClientStep(c) PROVE IInv'
  <2>1. CASE SwitchSession(c) \/ Resume(c)
    <3>1. Running(c)
      BY <2>1 DEF SwitchSession, Resume, Running, At
    <3> QED BY <2>1, <3>1, ActivateStep DEF SwitchSession, Resume
  <2> QED BY <1>2, <2>1, StartStep, TurnsStep, SameSessionSteps, ClearStep, ResumedCommandStep,
             TruncateStep, WriteStep DEF ClientStep
<1> QED BY <1>1, <1>2 DEF Next

LEMMA SpecInv == Spec => []IInv
  BY InitInv, NextInv, PTL DEF Spec

-----------------------------------------------------------------------------
(* Every variable keeps its type, for any processes, files and bounds. *)
THEOREM TypeCorrect == Spec => []TypeOK
  BY SpecInv, PTL DEF IInv

(* A turn that was saved stays in the file of its session, unless a save of *)
(* it was cut short, another process had it open, or it was cleared.        *)
THEOREM TurnsSurvive == Spec => []SavedTurnsSurvive
  BY SpecInv, PTL DEF IInv, FilesAgree

(* No file has turns of another session, unless its /clear failed half-way. *)
THEOREM SessionsKeepApart == Spec => []SessionsDoNotMix
  BY SpecInv, PTL DEF IInv, FilesAgree

(* What a process shows of its mode and its model is what its runtime obeys, *)
(* but for the mode after a /permissions that failed, and for the model      *)
(* after a command that fell back to another, until the next turn.           *)
THEOREM ShowsTheTruth == Spec => []ShowsWhatIsActive
<1>1. IInv => ShowsWhatIsActive
  <2> SUFFICES ASSUME IInv, NEW c \in Clients, At(c, "prompt")
               PROVE  Shown(cli[c])
    BY DEF ShowsWhatIsActive, Shown
  <2> QED BY DEF IInv, ProcessesAgree, Running, At
<1> QED BY <1>1, SpecInv, PTL
=============================================================================
