-------------------------------- MODULE Plugins --------------------------------
(***************************************************************************)
(* The plugin manager of crates/plugins: the directory of every installed  *)
(* plugin, the registry installed.json and the choices in settings.json,   *)
(* changed by the /plugins commands of several processes that share a home *)
(* directory and may end, or meet an error of the file system, between any *)
(* two steps.  No step is guarded by a lock.                               *)
(*                                                                         *)
(* A directory is the files of a plugin: its manifest, and a hook that     *)
(* stands for all the commands the manifest names.  A file is written by   *)
(* truncating and then filling it; so are the registry and the settings,   *)
(* whose text may be no JSON after that.  Sources are whole: what is wrong  *)
(* with a source is refused before anything is changed.  A discovery reads  *)
(* all the directories at once; the external directories and git are left  *)
(* out.                                                                    *)
(***************************************************************************)
EXTENDS Naturals, FiniteSets

CONSTANTS
    Sessions,     \* processes that share the home
    Bundled,      \* plugins in the binary
    Retired,      \* plugins an older binary had
    External,     \* plugins a user installs
    Versions,
    Binary,       \* the version of the bundled plugins
    None,
    Offered,      \* the commands a user gives, beside the list every session starts with
    MaxAsked,     \* bound: commands given
    MaxAborts     \* bound: commands that an error or the end of the process cuts short

Plugins == Bundled \cup Retired \cup External

Parts == {"manifest", "hook"}
Texts == {"registry", "settings"}
Ops   == {"list", "install", "enable", "disable", "update", "uninstall"}

ASSUME KindsAssumption ==
    /\ Bundled \cap Retired = {} /\ External \cap (Bundled \cup Retired) = {}
ASSUME VersionsAssumption == Binary \in Versions /\ None \notin Versions \cup Plugins
ASSUME TornAssumption == Versions \cap {"absent", "torn"} = {}
ASSUME OfferedAssumption ==
    Offered \subseteq [op : Ops \ {"list"}, plugin : Plugins, version : Versions]
ASSUME CountsAssumption == MaxAsked \in Nat /\ MaxAborts \in Nat

Ended == {"idle", "listed", "unknown", "broken", "refused", "failed", "unreadable"}
Stages == Ended \cup {"sync", "wipe", "mkdir", "write", "truncate", "store", "discover", "settings",
                      "clear", "save", "ok"}
Sequels == {"idle", "discover", "settings", "ok", "listed", "unknown"}

VARIABLES
    there,     \* plugins that have a directory
    dir,       \* plugin -> file -> version of its content
    registry,  \* plugin -> version recorded in installed.json
    settings,  \* plugin -> "on", "off" or "unset" in settings.json
    garbled,   \* texts that are no JSON: cut short, or one over another
    overlaid,  \* processes about to fill a text that another has written since
    pc,
    job,       \* process -> its command, and the locals of the functions that serve it
    alone,     \* processes beside which none has been at work since their command began
    cut,       \* plugins whose rewriting was cut short
    hurt,      \* those of them that were cut short beside another process
    spoilt,    \* texts whose writing was cut short, or came upon another's
    asked, aborts

trees      == <<there, dir>>
texts      == <<registry, settings, garbled, overlaid, spoilt>>
home       == <<trees, texts>>
history    == <<alone, cut, hurt>>
counts     == <<asked, aborts>>
pluginVars == <<home, pc, job, history, counts>>

Missing   == [f \in Parts |-> "absent"]
Whole(v)  == [f \in Parts |-> v]
NoRecords == [q \in Plugins |-> None]
NoChoices == [q \in Plugins |-> "unset"]

Contents == [Parts -> Versions \cup {"absent", "torn"}]
Records  == [Plugins -> Versions \cup {None}]
Choices  == [Plugins -> {"on", "off", "unset"}]

(* target: the plugin whose directory is rewritten; made, part: the files   *)
(* written, and truncated but not filled; reg, copy: what was read of the   *)
(* registry and of the settings; checked: the bundled plugins looked at;    *)
(* changed: whether the sync has to be stored; after: the stage that        *)
(* follows a store of the registry.                                        *)
Job == [op : Ops, plugin : Plugins \cup {None}, version : Versions,
        target : Plugins \cup {None}, made : SUBSET Parts, part : SUBSET Parts,
        reg : Records, copy : Choices, checked : SUBSET Bundled, changed : BOOLEAN,
        after : Sequels]

NoJob == [op |-> "list", plugin |-> None, version |-> Binary, target |-> None,
          made |-> {}, part |-> {}, reg |-> NoRecords, copy |-> NoChoices,
          checked |-> {}, changed |-> FALSE, after |-> "idle"]

PluginsTypeOK ==
    /\ there \subseteq Plugins /\ dir \in [Plugins -> Contents] /\ registry \in Records /\ settings \in Choices
    /\ pc \in [Sessions -> Stages] /\ job \in [Sessions -> Job]
    /\ garbled \subseteq Texts /\ overlaid \subseteq Sessions /\ spoilt \subseteq Texts
    /\ alone \subseteq Sessions /\ cut \subseteq Plugins /\ hurt \subseteq Plugins
    /\ asked \in 0 .. MaxAsked /\ aborts \in 0 .. MaxAborts

(* A new home, or one that an older binary, or this one, has used.         *)
PluginsInit ==
    /\ \/ there = {} /\ dir = [q \in Plugins |-> Missing]
          /\ registry = NoRecords /\ settings = NoChoices
       \/ \E v \in Versions, e \in SUBSET External :
            LET kept == Bundled \cup Retired \cup e IN
            /\ there = kept
            /\ dir = [q \in Plugins |-> IF q \in kept THEN Whole(v) ELSE Missing]
            /\ registry = [q \in Plugins |-> IF q \in kept THEN v ELSE None]
            /\ settings = [q \in Plugins |-> IF q \in e THEN "on" ELSE "unset"]
    /\ pc = [p \in Sessions |-> "idle"] /\ job = [p \in Sessions |-> NoJob]
    /\ garbled = {} /\ overlaid = {} /\ spoilt = {}
    /\ alone = {} /\ cut = {} /\ hurt = {}
    /\ asked = 0 /\ aborts = 0

-----------------------------------------------------------------------------
InStage(p, stage) == pc[p] = stage
AtRest(p)         == pc[p] \in Ended
IsFor(p, op)      == job[p].op = op
Go(p, stage)      == pc' = [pc EXCEPT ![p] = stage]
Does(p, j)        == job' = [job EXCEPT ![p] = j]
Ends(p, stage)    == Go(p, stage) /\ Does(p, NoJob)

(* from_directory: the manifest parses and the files it names are there,   *)
(* whatever is in them.                                                    *)
HasManifest(q) == dir[q]["manifest"] # "absent"
Loads(q)       == dir[q]["manifest"] \in Versions /\ dir[q]["hook"] # "absent"

(* What a command begins with: a sync of the bundled plugins, a rewriting   *)
(* of a plugin's directory, or a look into the registry.                   *)
Sync(j)       == [j EXCEPT !.reg = registry, !.checked = {}, !.changed = FALSE]
Rewrite(j, q) == [j EXCEPT !.target = q, !.made = {}, !.part = {}]

Begins(p, j) ==
    \/ /\ j.op \in {"list", "enable", "disable"}
       /\ Go(p, "sync") /\ Does(p, Sync(j))
    \/ /\ j.op = "install" /\ j.plugin \in External
       /\ Go(p, "wipe") /\ Does(p, Rewrite(j, j.plugin))
    \/ /\ j.op \in {"update", "uninstall"} /\ j.plugin \in External
       /\ registry[j.plugin] # None
       /\ Go(p, "wipe") /\ Does(p, Rewrite([j EXCEPT !.reg = registry], j.plugin))
    \/ /\ j.op \in {"update", "uninstall"}
       /\ j.plugin \in External => registry[j.plugin] = None
       /\ Ends(p, "refused")

(* The settings are loaded before the command, and all commands but install *)
(* read the registry before they change anything.                          *)
Parses(j) == garbled \subseteq IF j.op = "install" THEN {"registry"} ELSE {}

Start(p, j) ==
    \/ Parses(j) /\ Begins(p, j)
    \/ ~Parses(j) /\ Ends(p, "unreadable")

Command(p) ==
    /\ AtRest(p) /\ asked < MaxAsked /\ asked' = asked + 1
    /\ alone' = IF \A r \in Sessions \ {p} : AtRest(r) THEN {p} ELSE {}
    /\ \/ Start(p, NoJob)
       \/ \E c \in Offered :
            Start(p, [NoJob EXCEPT !.op = c.op, !.plugin = c.plugin, !.version = c.version])
    /\ UNCHANGED <<home, cut, hurt, aborts>>

(* Mutant: any plugin that loads is taken for the binary's. *)
NeedsSyncBroken(p, b) == ~Loads(b)

(* Mutant: only the registry is asked. *)
NeedsSyncRecorded(p, b) == job[p].reg[b] # Binary

(* sync_one_bundled: a bundled plugin that is not as the registry and the   *)
(* binary say is rewritten.                                                *)
NeedsSync(p, b) == job[p].reg[b] # Binary \/ ~Loads(b)

SyncBundled(p) ==
    /\ InStage(p, "sync")
    /\ \E b \in Bundled \ job[p].checked :
          LET j == [job[p] EXCEPT !.checked = @ \cup {b}] IN
          IF NeedsSync(p, b)
          THEN Go(p, "wipe") /\ Does(p, Rewrite(j, b))
          ELSE Does(p, j) /\ UNCHANGED pc
    /\ UNCHANGED <<home, history, counts>>

Unpruned(p) == {q \in Retired : job[p].reg[q] # None}

(* A plugin that is no longer in the binary is removed.                    *)
Prune(p) ==
    /\ InStage(p, "sync") /\ job[p].checked = Bundled
    /\ \E q \in Unpruned(p) : Go(p, "wipe") /\ Does(p, Rewrite(job[p], q))
    /\ UNCHANGED <<home, history, counts>>

Synced(p) ==
    /\ InStage(p, "sync") /\ job[p].checked = Bundled /\ Unpruned(p) = {}
    /\ Go(p, IF job[p].changed THEN "truncate" ELSE "discover")
    /\ Does(p, [job[p] EXCEPT !.after = "discover"])
    /\ UNCHANGED <<home, history, counts>>

-----------------------------------------------------------------------------
(* A directory is removed, made and written file by file.                   *)
Remove(p) ==
    /\ InStage(p, "wipe")
    /\ \E f \in Parts :
          /\ dir[job[p].target][f] # "absent"
          /\ dir' = [dir EXCEPT ![job[p].target][f] = "absent"]
    /\ UNCHANGED <<there, texts, pc, job, history, counts>>

Forget(p) == [job[p] EXCEPT !.reg[job[p].target] = None, !.target = None]

Removed(p) ==
    /\ InStage(p, "wipe") /\ dir[job[p].target] = Missing
    /\ there' = there \ {job[p].target}
    /\ \/ /\ job[p].target \in Bundled \/ job[p].op \in {"install", "update"}
          /\ Go(p, "mkdir") /\ UNCHANGED job
       \/ /\ job[p].target \in Retired
          /\ Go(p, "sync") /\ Does(p, [Forget(p) EXCEPT !.changed = TRUE])
       \/ /\ IsFor(p, "uninstall") /\ job[p].target \in External
          /\ Go(p, "truncate") /\ Does(p, [Forget(p) EXCEPT !.after = "settings"])
    /\ UNCHANGED <<dir, texts, history, counts>>

MakeDir(p) ==
    /\ InStage(p, "mkdir") /\ there' = there \cup {job[p].target} /\ Go(p, "write")
    /\ UNCHANGED <<dir, texts, job, history, counts>>

OpenPart(p) ==
    /\ InStage(p, "write") /\ job[p].part = {} /\ job[p].target \in there
    /\ \E f \in Parts \ job[p].made :
          /\ Does(p, [job[p] EXCEPT !.part = {f}])
          /\ dir' = [dir EXCEPT ![job[p].target][f] = "torn"]
    /\ UNCHANGED <<there, texts, pc, history, counts>>

Written(p) == IF job[p].target \in Bundled THEN Binary ELSE job[p].version

(* Filling a file that another process has removed since brings nothing.   *)
Fill(p) ==
    /\ InStage(p, "write")
    /\ \E f \in job[p].part :
          /\ Does(p, [job[p] EXCEPT !.made = @ \cup {f}, !.part = {}])
          /\ dir' = [dir EXCEPT ![job[p].target][f] = IF @ = "absent" THEN @ ELSE Written(p)]
    /\ UNCHANGED <<there, texts, pc, history, counts>>

(* A bundled plugin is read back; install reads the registry now, update    *)
(* has read it before the copy.                                            *)
Noted(p, records, v) ==
    [job[p] EXCEPT !.reg = [records EXCEPT ![job[p].target] = v], !.target = None]

Copied(p) ==
    /\ InStage(p, "write") /\ job[p].made = Parts
    /\ LET q == job[p].target IN
       \/ /\ q \in Bundled /\ Loads(q)
          /\ Go(p, "sync")
          /\ Does(p, [Noted(p, job[p].reg, dir[q]["manifest"]) EXCEPT !.changed = TRUE])
       \/ /\ q \in External /\ IsFor(p, "install") /\ "registry" \notin garbled
          /\ Go(p, "truncate")
          /\ Does(p, [Noted(p, registry, Written(p)) EXCEPT !.after = "settings"])
       \/ /\ q \in External /\ IsFor(p, "install") /\ "registry" \in garbled
          /\ Ends(p, "unreadable")
       \/ /\ q \in External /\ IsFor(p, "update") /\ Go(p, "truncate")
          /\ Does(p, [Noted(p, job[p].reg, Written(p)) EXCEPT !.after = "ok"])
    /\ cut' = IF p \in alone THEN cut \ {job[p].target} ELSE cut
    /\ hurt' = IF p \in alone THEN hurt \ {job[p].target} ELSE hurt
    /\ UNCHANGED <<home, alone, counts>>

(* What the steps of another process make fail: a directory that is not     *)
(* empty when it is removed, a file without a directory, a bundled plugin   *)
(* that does not load when it is read back.                                *)
CutShort(p) ==
    /\ Ends(p, "failed")
    /\ cut' = cut \cup ({job[p].target} \ {None})
    /\ hurt' = IF p \in alone THEN hurt ELSE hurt \cup ({job[p].target} \ {None})

Fail(p) ==
    /\ \/ /\ InStage(p, "wipe")
          /\ \E r \in Sessions \ {p} : InStage(r, "write") /\ job[r].target = job[p].target
       \/ /\ InStage(p, "write") /\ job[p].part = {} /\ job[p].made # Parts
          /\ job[p].target \notin there
       \/ /\ InStage(p, "write") /\ job[p].made = Parts
          /\ job[p].target \in Bundled /\ ~Loads(job[p].target)
    /\ CutShort(p) /\ UNCHANGED <<home, alone, counts>>

-----------------------------------------------------------------------------
(* fs::write: a file is truncated, and whoever reads it then finds nothing  *)
(* in it; a process that truncated it before another one filled it writes   *)
(* over the other's text, and if that was the longer one its end is left.   *)
(* A text that is only begun, at an error or as the process ends, may be no *)
(* JSON either.                                                            *)
Filling(text) == {r \in Sessions : pc[r] = IF text = "registry" THEN "store" ELSE "save"}

Emptied(text) ==
    /\ garbled' = garbled \ {text} /\ spoilt' = spoilt \ {text}
    /\ overlaid' = overlaid \ Filling(text)

Touched(p, text, garbles, risky) ==
    /\ garbled' = IF garbles THEN garbled \cup {text} ELSE garbled \ {text}
    /\ spoilt' = IF risky THEN spoilt \cup {text} ELSE spoilt
    /\ overlaid' = (overlaid \cup Filling(text)) \ {p}

(* store_registry.                                                         *)
Truncate(p) ==
    /\ InStage(p, "truncate") /\ registry' = NoRecords /\ Go(p, "store")
    /\ Emptied("registry")
    /\ UNCHANGED <<trees, settings, job, history, counts>>

(* A stage that only ends a command is its end.                            *)
Proceed(p, stage, j) == IF stage \in Ended THEN Ends(p, stage) ELSE Go(p, stage) /\ Does(p, j)

Store(p) ==
    /\ InStage(p, "store")
    /\ \E garbles \in BOOLEAN :
          /\ garbles => p \in overlaid /\ ("registry" \in garbled \/ job[p].reg # registry)
          /\ registry' = IF garbles THEN NoRecords ELSE job[p].reg
          /\ Touched(p, "registry", garbles, p \in overlaid)
    /\ Proceed(p, job[p].after, [job[p] EXCEPT !.reg = NoRecords])
    /\ UNCHANGED <<trees, settings, history, counts>>

(* discover_installed_plugins.  One directory that does not load makes it   *)
(* fail; a record without a manifest is dropped.                           *)
Broken == {q \in Plugins : HasManifest(q) /\ ~Loads(q)}
Stale  == {q \in Plugins : registry[q] # None /\ ~HasManifest(q)}

Outcome(p) ==
    IF IsFor(p, "list") THEN "listed"
    ELSE IF HasManifest(job[p].plugin) THEN "settings" ELSE "unknown"

Discover(p) ==
    /\ InStage(p, "discover")
    /\ \/ "registry" \in garbled /\ Ends(p, "unreadable")
       \/ "registry" \notin garbled /\ Broken # {} /\ Ends(p, "broken")
       \/ /\ "registry" \notin garbled /\ Broken = {} /\ Stale = {}
          /\ Proceed(p, Outcome(p), [job[p] EXCEPT !.reg = NoRecords])
       \/ /\ "registry" \notin garbled /\ Broken = {} /\ Stale # {} /\ Go(p, "truncate")
          /\ Does(p, [job[p] EXCEPT !.after = Outcome(p),
                         !.reg = [q \in Plugins |-> IF q \in Stale THEN None ELSE registry[q]]])
    /\ UNCHANGED <<home, history, counts>>

(* write_enabled_state: the settings are read, truncated and written.      *)
ReadSettings(p) ==
    /\ InStage(p, "settings")
    /\ \/ "settings" \notin garbled /\ Go(p, "clear") /\ Does(p, [job[p] EXCEPT !.copy = settings])
       \/ "settings" \in garbled /\ Ends(p, "unreadable")
    /\ UNCHANGED <<home, history, counts>>

ClearSettings(p) ==
    /\ InStage(p, "clear") /\ Go(p, "save") /\ settings' = NoChoices /\ Emptied("settings")
    /\ UNCHANGED <<trees, registry, job, history, counts>>

Choice(p) == CASE job[p].op \in {"install", "enable"} -> "on"
               [] IsFor(p, "disable")                -> "off"
               [] OTHER                              -> "unset"

SaveSettings(p) ==
    /\ InStage(p, "save") /\ Go(p, "ok")
    /\ LET chosen == [job[p].copy EXCEPT ![job[p].plugin] = Choice(p)] IN
       \E garbles \in BOOLEAN :
          /\ garbles => p \in overlaid /\ ("settings" \in garbled \/ chosen # settings)
          /\ settings' = IF garbles THEN NoChoices ELSE chosen
          /\ Touched(p, "settings", garbles, p \in overlaid)
    /\ UNCHANGED <<trees, registry, job, history, counts>>

(* reload_runtime_features loads the settings and lists the plugins again.  *)
Reload(p) ==
    /\ InStage(p, "ok") /\ Start(p, NoJob)
    /\ UNCHANGED <<home, history, counts>>

(* An error of the file system, or the end of the process.                 *)
LeftUnfinished(p, text) ==
    \E garbles \in BOOLEAN :
       /\ text \in garbled => garbles
       /\ registry' = IF text = "registry" /\ garbles THEN NoRecords ELSE registry
       /\ settings' = IF text = "settings" /\ garbles THEN NoChoices ELSE settings
       /\ Touched(p, text, garbles, TRUE)

Abort(p) ==
    /\ ~AtRest(p) /\ aborts < MaxAborts /\ aborts' = aborts + 1 /\ CutShort(p)
    /\ \/ p \notin Filling("registry") \cup Filling("settings") /\ UNCHANGED texts
       \/ \E text \in Texts : p \in Filling(text) /\ LeftUnfinished(p, text)
    /\ UNCHANGED <<trees, alone, asked>>

Finished == asked = MaxAsked /\ (\A p \in Sessions : AtRest(p)) /\ UNCHANGED pluginVars

SessionStep(p) ==
    \/ SyncBundled(p) \/ Prune(p) \/ Synced(p)
    \/ Remove(p) \/ Removed(p) \/ MakeDir(p) \/ OpenPart(p) \/ Fill(p) \/ Copied(p)
    \/ Fail(p)
    \/ Truncate(p) \/ Store(p) \/ Discover(p)
    \/ ReadSettings(p) \/ ClearSettings(p) \/ SaveSettings(p) \/ Reload(p)

PluginsNext ==
    \/ \E p \in Sessions : Command(p) \/ SessionStep(p) \/ Abort(p)
    \/ Finished

PluginsSpec == PluginsInit /\ [][PluginsNext]_pluginVars

-----------------------------------------------------------------------------
(* A list that no other process is at work beside, and that comes to its    *)
(* end, puts right what was cut short before: bundled plugins are whole, of *)
(* the binary's version and recorded as such, no retired one is recorded,   *)
(* and a record has its plugin.                                            *)
(* Only a process that gave up rewriting a bundled plugin while another was *)
(* at work can have spoiled it for good (sync_bundled_plugins).            *)
BundledAreWhole ==
    \A b \in Bundled \ hurt : dir[b] = Whole(Binary) /\ registry[b] = Binary

RecordsAreTrue ==
    \A q \in Plugins : registry[q] # None => Loads(q) /\ q \notin Retired

ListHeals ==
    \A p \in alone : InStage(p, "listed") => BundledAreWhole /\ RecordsAreTrue

(* A list that no other process is at work beside fails only for a plugin   *)
(* that is not in the binary and a rewriting of which was cut short: two     *)
(* commands that run to their ends beside each other never leave a          *)
(* directory that does not load (discover_installed_plugins).  Nor does it  *)
(* meet a registry or settings that are no JSON (load_registry), unless the *)
(* last writing of one of them was cut short or came upon another's.       *)
OnlyFragmentsFail ==
    \A p \in alone :
       /\ InStage(p, "broken") => Broken \subseteq cut \ Bundled
       /\ InStage(p, "unreadable") => spoilt # {}
=============================================================================
