------------------------------ MODULE SelfUpdate ------------------------------
(***************************************************************************)
(* The self update of crates/cli (auto_update.rs): the check for a newer   *)
(* release, at the start of a session and on command, the file in which    *)
(* the processes of a user keep what they have seen and dismissed, and the *)
(* replacement of the binary they all run.  Nothing locks these files, a   *)
(* rename may fail, and a process may end anywhere.                         *)
(*                                                                         *)
(* A release is its version, a number in the order of semver_sort_key: those *)
(* that are drafts or not of the stable channel, which every caller follows, *)
(* are no releases here.                                                    *)
(***************************************************************************)
EXTENDS Naturals, FiniteSets

CONSTANTS
    Processes,
    Releases,      \* what may be published
    First,         \* the version installed at first
    MaxStarts,     \* bound: processes started
    MaxCommands,   \* bound: commands and checks at the start
    MaxUpdates     \* bound: binaries downloaded

ASSUME ReleasesAssumption == Releases \subseteq Nat
ASSUME BoundsAssumption == {First, MaxStarts, MaxCommands, MaxUpdates} \subseteq Nat

(* The names in the directory of the binary.  A Linux process that asks for *)
(* its own path gets the name its file has now, "(deleted)" at the end if   *)
(* it has none, which as a path is one more name.                           *)
Names == {"installed", "tmp", "old", "deleted"}

(* A file: the versions written to it, and whether all bytes of the last     *)
(* that began are there.                                                    *)
File   == [versions: SUBSET Nat, by: Processes \cup {"setup"}, whole: BOOLEAN]
NoFile == 0
Files  == 1 .. MaxUpdates + 1

Nothing == 0     \* in the place of a version
State   == [dismissed: Nat, seen: Nat]
Fresh   == [dismissed |-> Nothing, seen |-> Nothing]
Torn    == {}     \* a file that cannot be read; the others are {state}

(* A process has the thread of its commands and the one that checks.       *)
Roles   == {"main", "background"}
Threads == Processes \X Roles
Places  == {"off", "idle", "fetch", "save", "saving", "download", "writing", "backup",
            "place", "clean"}
Thread  == [at: Places, op: {"none", "check", "dismiss", "apply"}, state: State, latest: Nat,
            target: Names, file: Files \cup {NoFile}]

VARIABLES
    linux,       \* a process finds its file, not the name it was started by
    published,
    names, files,
    runs,        \* process -> the file it runs, NoFile when it does not
    stateFile,   \* update-state.json
    thread,
    odd,         \* history: what has happened that the updates are not made for
    silenced,    \* history: versions that were dismissed
    reported,    \* history: the newest version said to be installed
    starts, commands, updates   \* bounds

disk   == <<names, files>>
noted  == <<odd, silenced, reported>>
bounds == <<starts, commands, updates>>
vars   == <<linux, published, disk, runs, stateFile, thread, noted, bounds>>

Off  == [at |-> "off", op |-> "none", state |-> Fresh, latest |-> Nothing,
         target |-> "installed", file |-> NoFile]
Idle == [Off EXCEPT !.at = "idle"]

TypeOK ==
    /\ linux \in BOOLEAN /\ published \subseteq Releases
    /\ names \in [Names -> Files \cup {NoFile}] /\ files \in [Files -> File]
    /\ runs \in [Processes -> Files \cup {NoFile}]
    /\ stateFile \subseteq State /\ Cardinality(stateFile) <= 1
    /\ thread \in [Threads -> Thread]
    /\ odd \subseteq {"overlap", "astray", "stuck", "shared", "lost"}
    /\ silenced \subseteq Nat
    /\ {reported, starts, commands, updates} \subseteq Nat

Init ==
    /\ linux \in BOOLEAN /\ published = {}
    /\ names = [n \in Names |-> IF n = "installed" THEN 1 ELSE NoFile]
    /\ files = [f \in Files |-> [versions |-> {First}, by |-> "setup", whole |-> TRUE]]
    /\ runs = [p \in Processes |-> NoFile]
    /\ stateFile = {Fresh}
    /\ thread = [t \in Threads |-> Off]
    /\ odd = {} /\ silenced = {} /\ reported = First
    /\ starts = 0 /\ commands = 0 /\ updates = 0

-----------------------------------------------------------------------------
At(t, place) == thread[t].at = place
Step(t, next) == thread' = [thread EXCEPT ![t] = next]
Goes(t, place) == Step(t, [thread[t] EXCEPT !.at = place])

(* The file of a whole program, and the version it is. *)
Good(f)    == f # NoFile /\ files[f].whole /\ Cardinality(files[f].versions) = 1
Version(f) == CHOOSE v \in files[f].versions : TRUE

Renamed(from, to) == [names EXCEPT ![to] = names[from], ![from] = NoFile]

(* load_state: what cannot be read is taken for a first start. *)
Loaded == IF stateFile = Torn THEN Fresh ELSE CHOOSE s \in stateFile : TRUE

(* Threads between load_state and the end of save_state, or in self_update. *)
Checking(t) == thread[t].at \in {"fetch", "save", "saving"}
Applying(t) == thread[t].op = "apply" /\ thread[t].at # "idle"

(* A thread begins: the state is loaded here, and dismissing is all done to *)
(* it.  Two at it at once are noted.                                        *)
Begun(op) ==
    LET given == IF op = "dismiss" THEN [Loaded EXCEPT !.dismissed = Loaded.seen] ELSE Loaded
    IN  [Idle EXCEPT !.op = op, !.state = given, !.at = IF op = "dismiss" THEN "save" ELSE "fetch"]

Meets(t, op) ==
    (IF \E u \in Threads \ {t} : Checking(u) THEN {"shared"} ELSE {})
    \cup (IF op = "apply" /\ \E u \in Threads \ {t} : Applying(u) THEN {"overlap"} ELSE {})

(* A session: background_update_check, unless it is off or was done lately. *)
StartSession(p) ==
    /\ runs[p] = NoFile /\ Good(names.installed) /\ starts < MaxStarts
    /\ runs' = [runs EXCEPT ![p] = names.installed] /\ starts' = starts + 1
    /\ \E checks \in BOOLEAN :
          /\ thread' = [thread EXCEPT ![<<p, "main">>] = Idle,
                                      ![<<p, "background">>] =
                                          IF checks THEN Begun("check") ELSE Idle]
          /\ odd' = odd \cup (IF checks THEN Meets(<<p, "background">>, "check") ELSE {})
          /\ checks => commands < MaxCommands
          /\ commands' = commands + (IF checks THEN 1 ELSE 0)
    /\ UNCHANGED <<linux, published, disk, stateFile, silenced, reported, updates>>

Begin(p, op) ==
    /\ At(<<p, "main">>, "idle") /\ commands < MaxCommands
    /\ Step(<<p, "main">>, Begun(op))
    /\ odd' = odd \cup Meets(<<p, "main">>, op) /\ commands' = commands + 1
    /\ UNCHANGED <<linux, published, disk, runs, stateFile, silenced, reported,
                   starts, updates>>

(* /update check. *)
Check(p) == Begin(p, "check")

(* /update apply, or `aineer update`. *)
Apply(p) == Begin(p, "apply")

(* /update dismiss: of the version that was seen last. *)
Dismiss(p) == Loaded.seen # Nothing /\ Begin(p, "dismiss")

(* The end of a process, by itself or not: files stay as they are.         *)
End(p) ==
    /\ runs[p] # NoFile
    /\ runs' = [runs EXCEPT ![p] = NoFile]
    /\ thread' = [t \in Threads |-> IF t[1] = p THEN Off ELSE thread[t]]
    /\ odd' = odd \cup {"lost" : t \in {t \in Threads : t[1] = p /\ At(t, "saving")}}
    /\ UNCHANGED <<linux, published, disk, stateFile, silenced, reported, bounds>>

Publish(v) ==
    /\ v \notin published /\ published' = published \cup {v}
    /\ UNCHANGED <<linux, disk, runs, stateFile, thread, noted, bounds>>

-----------------------------------------------------------------------------
(* check_for_updates_with_state. *)

Newer(t) == {v \in published : v > Version(runs[t[1]])}

Best(versions) == CHOOSE v \in versions : \A w \in versions : w <= v

(* Mutant: a version that is found begins a new state. *)
FetchAnew(t) ==
    /\ At(t, "fetch")
    /\ LET found == IF Newer(t) = {} THEN Nothing ELSE Best(Newer(t))
       IN  Step(t, [thread[t] EXCEPT !.at = "save", !.latest = found,
                       !.state = IF found = Nothing THEN @ ELSE [Fresh EXCEPT !.seen = found]])
    /\ UNCHANGED <<linux, published, disk, runs, stateFile, noted, bounds>>

Fetch(t) ==
    /\ At(t, "fetch")
    /\ LET found == IF Newer(t) = {} THEN Nothing ELSE Best(Newer(t))
       IN  Step(t, [thread[t] EXCEPT !.at = "save", !.latest = found,
                       !.state.seen = IF found = Nothing THEN @ ELSE found])
    /\ UNCHANGED <<linux, published, disk, runs, stateFile, noted, bounds>>

(* No network, or an answer that is none: the state is saved nevertheless.  *)
FetchFails(t) ==
    /\ At(t, "fetch")
    /\ Goes(t, "save")
    /\ UNCHANGED <<linux, published, disk, runs, stateFile, noted, bounds>>

(* save_state: fs::write empties the file and then writes it. *)
Save(t) ==
    /\ At(t, "save")
    /\ Goes(t, "saving")
    /\ stateFile' = Torn
    /\ UNCHANGED <<linux, published, disk, runs, noted, bounds>>

(* What becomes of a thread that has saved.  The path of the binary is      *)
(* looked up before the download.                                          *)
Gone(p) == \A n \in Names : names[n] # runs[p]

CurrentExe(p) ==
    IF ~linux THEN "installed"
    ELSE IF Gone(p) THEN "deleted"
    ELSE CHOOSE n \in Names : names[n] = runs[p]

AfterSave(t, what) ==
    IF thread[t].op = "apply" /\ thread[t].latest # Nothing
      THEN LET exe == CurrentExe(t[1])
           IN  /\ Step(t, [thread[t] EXCEPT !.at = "download", !.target = exe])
               /\ odd' = odd \cup what \cup (IF exe = "installed" THEN {} ELSE {"astray"})
      ELSE Step(t, Idle) /\ odd' = odd \cup what

(* Bytes of another thread, written since the file was emptied, may stick    *)
(* out at the end.                                                          *)
Saved(t) ==
    /\ At(t, "saving")
    /\ stateFile' \in {{thread[t].state}} \cup (IF stateFile = Torn THEN {} ELSE {Torn})
    /\ AfterSave(t, {})
    /\ silenced' = IF thread[t].op = "dismiss" THEN silenced \cup {thread[t].state.dismissed}
                                               ELSE silenced
    /\ UNCHANGED <<linux, published, disk, runs, reported, bounds>>

(* Errors of save_state are ignored: what is said after it is the same. *)
SaveFails(t) ==
    /\ thread[t].at \in {"save", "saving"}
    /\ AfterSave(t, {"lost"})
    /\ UNCHANGED <<linux, published, disk, runs, stateFile, silenced, reported, bounds>>

(* The user is told of a newer version that is not dismissed. *)
Announces(t) ==
    /\ Saved(t) \/ SaveFails(t)
    /\ thread[t].op = "check"
    /\ thread[t].latest \notin {Nothing, thread[t].state.dismissed}

-----------------------------------------------------------------------------
(* self_update. *)

(* The download, the archive or the temporary file was no good. *)
Fails(t) ==
    /\ thread[t].at \in {"download", "writing"}
    /\ Step(t, Idle)
    /\ UNCHANGED <<linux, published, disk, runs, stateFile, noted, bounds>>

(* fs::write opens the file, or makes one, and empties it ... *)
Open(t) ==
    /\ At(t, "download") /\ updates < MaxUpdates /\ updates' = updates + 1
    /\ LET present == names.tmp
           file    == IF present = NoFile THEN updates + 2 ELSE present
       IN  /\ names' = [names EXCEPT !.tmp = file]
           /\ files' = [files EXCEPT ![file] = [versions |-> {thread[t].latest}, by |-> t[1],
                                                whole |-> FALSE]]
           /\ Step(t, [thread[t] EXCEPT !.at = "writing", !.file = file])
    /\ UNCHANGED <<linux, published, runs, stateFile, noted, starts, commands>>

(* ... and writes all of it, wherever the file is by then. *)
Write(t) ==
    /\ At(t, "writing")
    /\ LET f == thread[t].file
       IN  files' = [files EXCEPT ![f].versions = @ \cup {thread[t].latest},
                                  ![f].whole = @ \/ files[f].by = t[1]]
    /\ Goes(t, "backup")
    /\ UNCHANGED <<linux, published, names, runs, stateFile, noted, bounds>>

BackUp(t) ==
    /\ At(t, "backup")
    /\ names' = IF names[thread[t].target] = NoFile \/ thread[t].target = "old"
                  THEN names ELSE Renamed(thread[t].target, "old")
    /\ Goes(t, "place")
    /\ UNCHANGED <<linux, published, files, runs, stateFile, noted, bounds>>

(* "best-effort" *)
BackUpFails(t) ==
    /\ At(t, "backup") /\ names[thread[t].target] # NoFile
    /\ odd' = odd \cup {"stuck"}
    /\ Goes(t, "place")
    /\ UNCHANGED <<linux, published, disk, runs, stateFile, silenced, reported, bounds>>

Place(t) ==
    /\ At(t, "place") /\ names.tmp # NoFile
    /\ names' = Renamed("tmp", thread[t].target)
    /\ Goes(t, "clean")
    /\ UNCHANGED <<linux, published, files, runs, stateFile, noted, bounds>>

(* Mutant: a binary that cannot be put in place leaves nothing in its place. *)
Abandoned(t) == [names EXCEPT !.old = NoFile]

(* The backup is brought back, if that can be done. *)
Restored(t) ==
    IF names.old = NoFile \/ thread[t].target = "old" THEN names
    ELSE Renamed("old", thread[t].target)

PlaceFails(t) ==
    /\ At(t, "place")
    /\ names' \in {names, Restored(t)}
    /\ Step(t, Idle)
    /\ UNCHANGED <<linux, published, files, runs, stateFile, noted, bounds>>

(* The backup is removed, or not, and success is reported. *)
Clean(t) ==
    /\ At(t, "clean")
    /\ names' \in {names, [names EXCEPT !.old = NoFile]}
    /\ reported' = IF thread[t].latest > reported THEN thread[t].latest ELSE reported
    /\ Step(t, Idle)
    /\ UNCHANGED <<linux, published, files, runs, stateFile, odd, silenced, bounds>>

-----------------------------------------------------------------------------
ThreadStep(t) ==
    \/ Fetch(t) \/ FetchFails(t) \/ Save(t) \/ Saved(t) \/ SaveFails(t)
    \/ Fails(t) \/ Open(t) \/ Write(t) \/ BackUp(t) \/ BackUpFails(t)
    \/ Place(t) \/ PlaceFails(t) \/ Clean(t)

Next ==
    \/ \E p \in Processes :
          \/ StartSession(p) \/ Check(p) \/ Apply(p) \/ Dismiss(p) \/ End(p)
    \/ \E t \in Threads : ThreadStep(t)
    \/ \E v \in Releases : Publish(v)

Spec == Init /\ [][Next]_vars

-----------------------------------------------------------------------------
(* Wherever an update is cut short, by an error or by the end of the process,*)
(* a whole binary is left, at its place or as the backup, and what is at its *)
(* place is whole; and it is no older than any version a user was told is    *)
(* installed (the renames of self_update, and what is_newer lets through).   *)
(* Not so when two updates overlap, when a process looks for its binary      *)
(* where it no longer is, or when the backup cannot be made.                 *)
Kept(n) == Good(names[n]) /\ Version(names[n]) >= reported

ABinaryRemains ==
    odd \cap {"overlap", "astray", "stuck"} = {} =>
        /\ Kept("installed") \/ Kept("old")
        /\ names.installed # NoFile => Kept("installed")

(* "You won't be notified about it again": no check announces a version that *)
(* was dismissed, in this process or another, before or after a restart,     *)
(* but where two checks had the state at once (the later save puts back what *)
(* it loaded) or a save was not brought to its end.                          *)
DismissalHolds ==
    [][\A t \in Threads :
          Announces(t) /\ odd \cap {"shared", "lost"} = {} => thread[t].latest \notin silenced]_vars
=============================================================================
