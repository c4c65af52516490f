------------------------------ MODULE HomeProofs ------------------------------
(***************************************************************************)
(* Theorems about what several processes keep in the home directory of a    *)
(* user with no lock around it: the binary they run and the state of its    *)
(* updates (SelfUpdate), then the plugins (Plugins).  The two share no      *)
(* variable and no constant.                                                *)
(***************************************************************************)
EXTENDS SelfUpdate, Plugins, FiniteSetTheorems, NaturalsInduction, WellFoundedInduction, TLAPS

(***************************************************************************)
(* Records, and the newest of the versions published.                      *)
(***************************************************************************)

LEMMA PartsOf ==
    ASSUME NEW c \in Thread
    PROVE  /\ c.at \in Places /\ c.op \in {"none", "check", "dismiss", "apply"} /\ c.state \in State
           /\ c.latest \in Nat /\ c.target \in Names /\ c.file \in Files \cup {NoFile}
BY DEF Thread

LEMMA FreshIsState == Fresh \in State
BY DEF Fresh, State, Nothing

LEMMA OffIsThread == Off \in Thread
BY FreshIsState DEF Off, Thread, Places, Names, Nothing

LEMMA IdleIs ==
    /\ Idle \in Thread /\ Idle.at = "idle" /\ Idle.op = "none" /\ Idle.state = Fresh
    /\ Idle.latest = Nothing /\ Idle.target = "installed" /\ Idle.file = NoFile
<1>1. /\ Off.op = "none" /\ Off.state = Fresh /\ Off.latest = Nothing
      /\ Off.target = "installed" /\ Off.file = NoFile
  BY DEF Off
<1>2. Idle \in Thread
  BY OffIsThread DEF Idle, Thread, Places
<1>3. Idle.at = "idle"
  BY DEF Idle, Off
<1> QED BY <1>1, <1>2, <1>3 DEF Idle

(* A thread that begins has loaded the state, and dismissing has changed it. *)
LEMMA BegunIs ==
    ASSUME NEW op \in {"check", "dismiss", "apply"}, Loaded \in State
    PROVE  /\ Begun(op) \in Thread
           /\ Begun(op).at = IF op = "dismiss" THEN "save" ELSE "fetch"
           /\ Begun(op).op = op /\ Begun(op).latest = Nothing
           /\ Begun(op).state.seen = Loaded.seen
           /\ Begun(op).state.dismissed = IF op = "dismiss" THEN Loaded.seen ELSE Loaded.dismissed
<1> DEFINE a == [Idle EXCEPT !.op = op]
           given == IF op = "dismiss" THEN [Loaded EXCEPT !.dismissed = Loaded.seen] ELSE Loaded
           b == [a EXCEPT !.state = given]
<1>1. a \in Thread /\ a.op = op /\ a.latest = Nothing
  BY IdleIs DEF Thread
<1>2. /\ given \in State /\ given.seen = Loaded.seen
      /\ given.dismissed = IF op = "dismiss" THEN Loaded.seen ELSE Loaded.dismissed
  BY DEF State
<1>3. b \in Thread /\ b.op = op /\ b.latest = Nothing /\ b.state = given
  <2> HIDE DEF a, given
  <2> QED BY <1>1, <1>2 DEF Thread
<1>4. Begun(op) = [b EXCEPT !.at = IF op = "dismiss" THEN "save" ELSE "fetch"]
  BY DEF Begun
<1> HIDE DEF b, given
<1>5. /\ Begun(op) \in Thread /\ Begun(op).op = op /\ Begun(op).latest = Nothing
      /\ Begun(op).state = given /\ Begun(op).at = IF op = "dismiss" THEN "save" ELSE "fetch"
  BY <1>3, <1>4 DEF Thread, Places
<1> QED BY <1>2, <1>5

(* Of versions of which none is above a bound, one is the newest.           *)
LEMMA BestIs ==
    ASSUME NEW S, S \subseteq Nat, S # {}, NEW b \in Nat, \A v \in S : v <= b
    PROVE  Best(S) \in S /\ \A v \in S : v <= Best(S)
<1> DEFINE T == {b - v : v \in S}
<1>1. T \subseteq Nat /\ T # {}
  <2>1. \A v \in S : b - v \in Nat
    OBVIOUS
  <2>2. PICK v \in S : TRUE
    OBVIOUS
  <2> QED BY <2>1, <2>2
<1>2. PICK least \in T : \A j \in T : ~(<<j, least>> \in OpToRel(<, Nat))
  <2> HIDE DEF T
  <2> QED BY <1>1, NatLessThanWellFounded, WFMin
<1>3. \A j \in T : least <= j
  <2>1. OpToRel(<, Nat) = {ss \in Nat \X Nat : ss[1] < ss[2]}
    BY DEF OpToRel
  <2>2. ASSUME NEW j \in T PROVE ~(j < least)
    <3> HIDE DEF T
    <3> QED BY <1>1, <1>2, <2>1
  <2>3. least \in Nat /\ \A j \in T : j \in Nat
    BY <1>1
  <2> HIDE DEF T
  <2> QED BY <2>2, <2>3
<1>4. PICK v \in S : least = b - v
  OBVIOUS
<1>5. \A w \in S : w <= v
  <2> TAKE w \in S
  <2>1. b - w \in T
    OBVIOUS
  <2>2. b - v <= b - w
    BY <1>3, <1>4, <2>1
  <2> QED BY <2>2
<1> QED BY <1>5 DEF Best


(***************************************************************************)
(* Type correctness.  The size of the file and the newest release are what *)
(* TypeOK alone says too little of.                                        *)
(***************************************************************************)
Readable == stateFile = Torn \/ \E s \in State : stateFile = {s}

Bounded == \E b \in Nat : \A v \in published : v <= b

Typed == TypeOK /\ Readable /\ Bounded

LEMMA Constants == First \in Nat /\ MaxUpdates \in Nat /\ Releases \subseteq Nat
BY ReleasesAssumption, BoundsAssumption

LEMMA LoadedIs ==
    ASSUME Readable
    PROVE  /\ Loaded \in State
           /\ \A s \in State : stateFile = {s} => Loaded = s
           /\ stateFile = Torn => Loaded = Fresh
BY FreshIsState DEF Readable, Loaded, Torn

LEMMA SmallEnough ==
    ASSUME NEW S, S = Torn \/ \E s \in State : S = {s}
    PROVE  S \subseteq State /\ Cardinality(S) <= 1
<1>1. CASE S = Torn
  BY <1>1, FS_EmptySet DEF Torn
<1>2. ASSUME NEW s \in State, S = {s} PROVE S \subseteq State /\ Cardinality(S) <= 1
  BY <1>2, FS_Singleton
<1> QED BY <1>1, <1>2

(* A thread steps: the others stay as they are.                             *)
LEMMA StepIs ==
    ASSUME thread \in [Threads -> Thread], NEW t \in Threads, NEW next, Step(t, next)
    PROVE  /\ thread'[t] = next /\ \A u \in Threads \ {t} : thread'[u] = thread[u]
           /\ next \in Thread => thread' \in [Threads -> Thread]
BY DEF Step

LEMMA GoesIs ==
    ASSUME thread \in [Threads -> Thread], NEW t \in Threads, NEW place \in Places, Goes(t, place)
    PROVE  /\ \A u \in Threads \ {t} : thread'[u] = thread[u]
           /\ thread' \in [Threads -> Thread]
           /\ thread'[t].at = place /\ thread'[t].op = thread[t].op
           /\ thread'[t].state = thread[t].state /\ thread'[t].latest = thread[t].latest
           /\ thread'[t].target = thread[t].target /\ thread'[t].file = thread[t].file
<1> DEFINE next == [thread[t] EXCEPT !.at = place]
<1>1. thread[t] \in Thread /\ Step(t, next)
  BY DEF Goes
<1>2. /\ next \in Thread /\ next.at = place /\ next.op = thread[t].op
      /\ next.state = thread[t].state /\ next.latest = thread[t].latest
      /\ next.target = thread[t].target /\ next.file = thread[t].file
  BY <1>1 DEF Thread
<1> HIDE DEF next
<1> QED BY <1>1, <1>2, StepIs

LEMMA RestIs ==
    ASSUME thread \in [Threads -> Thread], NEW t \in Threads, Step(t, Idle)
    PROVE  /\ \A u \in Threads \ {t} : thread'[u] = thread[u]
           /\ thread' \in [Threads -> Thread]
           /\ thread'[t] = Idle /\ thread'[t].at = "idle" /\ thread'[t].op = "none"
           /\ thread'[t].latest = Nothing
BY StepIs, IdleIs

(* What a check has found is the newest release, if it is newer.            *)
LEMMA FetchIs ==
    ASSUME Typed, NEW t \in Threads, Fetch(t)
    PROVE  /\ \A u \in Threads \ {t} : thread'[u] = thread[u]
           /\ thread' \in [Threads -> Thread]
           /\ thread[t].at = "fetch"
           /\ thread'[t].at = "save" /\ thread'[t].op = thread[t].op
           /\ thread'[t].state.dismissed = thread[t].state.dismissed
           /\ IF Newer(t) = {} THEN thread'[t].latest = Nothing
              ELSE thread'[t].latest \in Newer(t) /\ \A v \in Newer(t) : v <= thread'[t].latest
           /\ thread'[t].state.seen = IF thread'[t].latest = Nothing THEN thread[t].state.seen
                                                                     ELSE thread'[t].latest
<1> DEFINE found == IF Newer(t) = {} THEN Nothing ELSE Best(Newer(t))
           c == thread[t]
           seen == IF found = Nothing THEN c.state.seen ELSE found
           state == [c.state EXCEPT !.seen = seen]
           next == [c EXCEPT !.at = "save", !.latest = found, !.state = state]
<1>1. c \in Thread /\ c.at = "fetch" /\ published \subseteq Nat
  BY Constants DEF Typed, TypeOK, Fetch, At
<1>2. /\ Newer(t) = {} => found = Nothing
      /\ Newer(t) # {} => found \in Newer(t) /\ \A v \in Newer(t) : v <= found
  <2>1. ASSUME Newer(t) # {} PROVE Best(Newer(t)) \in Newer(t) /\ \A v \in Newer(t) : v <= Best(Newer(t))
    <3>1. Newer(t) \subseteq published
      BY DEF Newer
    <3>2. PICK b \in Nat : \A v \in published : v <= b
      BY DEF Typed, Bounded
    <3> HIDE DEF found
    <3> QED BY <1>1, <2>1, <3>1, <3>2, BestIs
  <2> QED BY <2>1
<1>3. found \in Nat /\ (Newer(t) # {} => found \in published)
  BY <1>1, <1>2 DEF Newer, Nothing
<1>4. Step(t, next)
  BY DEF Fetch
<1> HIDE DEF found
<1>5. c.state \in State /\ seen \in Nat
  BY <1>1, <1>3, PartsOf DEF State
<1>6. state \in State /\ state.seen = seen /\ state.dismissed = c.state.dismissed
  <2> HIDE DEF seen, c
  <2> QED BY <1>5 DEF State
<1>7. /\ next \in Thread /\ next.at = "save" /\ next.op = c.op /\ next.state = state
      /\ next.latest = found
  <2> HIDE DEF state, c
  <2> QED BY <1>1, <1>3, <1>6 DEF Thread, Places
<1> HIDE DEF state, next
<1>8. thread'[t] = next /\ (\A u \in Threads \ {t} : thread'[u] = thread[u]) /\ thread' \in [Threads -> Thread]
  BY <1>4, <1>7, StepIs DEF Typed, TypeOK
<1> QED BY <1>1, <1>2, <1>6, <1>7, <1>8


LEMMA ExeIsName == \A p \in Processes : CurrentExe(p) \in Names
<1> SUFFICES ASSUME NEW p \in Processes PROVE CurrentExe(p) \in Names
  OBVIOUS
<1>1. ASSUME ~Gone(p) PROVE (CHOOSE n \in Names : names[n] = runs[p]) \in Names
  BY <1>1 DEF Gone
<1>2. {"installed", "deleted"} \subseteq Names
  BY DEF Names
<1> QED BY <1>1, <1>2 DEF CurrentExe

(* A thread that has saved looks for the binary, or is done.                *)
LEMMA AfterSaveIs ==
    ASSUME thread \in [Threads -> Thread], NEW t \in Threads, NEW what, AfterSave(t, what)
    PROVE  /\ \A u \in Threads \ {t} : thread'[u] = thread[u]
           /\ thread' \in [Threads -> Thread]
           /\ IF thread[t].op = "apply" /\ thread[t].latest # Nothing
                THEN /\ thread'[t].at = "download" /\ thread'[t].op = "apply"
                     /\ thread'[t].latest = thread[t].latest
                     /\ \/ thread'[t].target = "installed" /\ odd' = odd \cup what
                        \/ odd' = odd \cup what \cup {"astray"}
                ELSE /\ thread'[t].at = "idle" /\ thread'[t].op = "none"
                     /\ thread'[t].latest = Nothing /\ odd' = odd \cup what
<1> DEFINE exe == CurrentExe(t[1])
           next == [thread[t] EXCEPT !.at = "download", !.target = exe]
<1>1. t[1] \in Processes /\ thread[t] \in Thread
  BY DEF Threads
<1>2. exe \in Names
  BY <1>1, ExeIsName
<1>3. CASE thread[t].op = "apply" /\ thread[t].latest # Nothing
  <2>1. Step(t, next) /\ odd' = odd \cup what \cup (IF exe = "installed" THEN {} ELSE {"astray"})
    BY <1>3 DEF AfterSave
  <2> HIDE DEF exe
  <2>2. /\ next \in Thread /\ next.at = "download" /\ next.op = thread[t].op
        /\ next.latest = thread[t].latest /\ next.target = exe
    BY <1>1, <1>2 DEF Thread, Places
  <2> HIDE DEF next
  <2> QED BY <1>3, <2>1, <2>2, StepIs
<1>4. CASE ~(thread[t].op = "apply" /\ thread[t].latest # Nothing)
  <2>1. Step(t, Idle) /\ odd' = odd \cup what
    BY <1>4 DEF AfterSave
  <2> QED BY <1>4, <2>1, RestIs
<1> QED BY <1>3, <1>4

LEMMA OpenIs ==
    ASSUME TypeOK, NEW t \in Threads, Open(t)
    PROVE  LET file == IF names.tmp = NoFile THEN updates + 2 ELSE names.tmp IN
           /\ \A u \in Threads \ {t} : thread'[u] = thread[u]
           /\ thread' \in [Threads -> Thread]
           /\ thread[t].at = "download" /\ updates' = updates + 1
           /\ thread'[t].at = "writing" /\ thread'[t].op = thread[t].op
           /\ thread'[t].latest = thread[t].latest /\ thread'[t].target = thread[t].target
           /\ thread'[t].file = file /\ file \in Files /\ files' \in [Files -> File]
           /\ names' = [names EXCEPT !["tmp"] = file]
           /\ files'[file] = [versions |-> {thread[t].latest}, by |-> t[1], whole |-> FALSE]
           /\ \A f \in Files \ {file} : files'[f] = files[f]
<1> DEFINE file == IF names.tmp = NoFile THEN updates + 2 ELSE names.tmp
           next == [thread[t] EXCEPT !.at = "writing", !.file = file]
           content == [versions |-> {thread[t].latest}, by |-> t[1], whole |-> FALSE]
<1>1. /\ thread[t] \in Thread /\ t[1] \in Processes /\ thread[t].latest \in Nat
      /\ names["tmp"] \in Files \cup {NoFile} /\ updates \in Nat /\ updates < MaxUpdates
  BY PartsOf DEF Threads, TypeOK, Names, Open
<1>2. file \in Files
  <2>1. updates + 2 \in 1 .. MaxUpdates + 1
    BY <1>1, Constants
  <2> QED BY <1>1, <2>1 DEF Files
<1>3. /\ Step(t, next) /\ names' = [names EXCEPT !["tmp"] = file]
      /\ files' = [files EXCEPT ![file] = content] /\ thread[t].at = "download"
      /\ updates' = updates + 1
  BY DEF Open, At
<1> HIDE DEF file
<1>4. content \in File
  BY <1>1 DEF File
<1>5. /\ next \in Thread /\ next.at = "writing" /\ next.op = thread[t].op
      /\ next.latest = thread[t].latest /\ next.target = thread[t].target /\ next.file = file
  BY <1>1, <1>2 DEF Thread, Places
<1>6. files \in [Files -> File]
  BY DEF TypeOK
<1>7. /\ files' \in [Files -> File] /\ files'[file] = content
      /\ \A f \in Files \ {file} : files'[f] = files[f]
  <2> HIDE DEF content
  <2> QED BY <1>2, <1>3, <1>4, <1>6
<1> HIDE DEF next
<1>8. thread \in [Threads -> Thread]
  BY DEF TypeOK
<1>9. /\ \A u \in Threads \ {t} : thread'[u] = thread[u]
      /\ thread' \in [Threads -> Thread] /\ thread'[t] = next
  BY <1>3, <1>5, <1>8, StepIs
<1> QED BY <1>2, <1>3, <1>5, <1>7, <1>9 DEF file

LEMMA WriteIs ==
    ASSUME TypeOK, NEW t \in Threads, Write(t)
    PROVE  LET f == thread[t].file IN
           /\ files' \in [Files -> File]
           /\ f \in Files => /\ files'[f].versions = files[f].versions \cup {thread[t].latest}
                             /\ files'[f].by = files[f].by
                             /\ files[f].by = t[1] => files'[f].whole = TRUE
           /\ \A g \in Files \ {f} : files'[g] = files[g]
<1> DEFINE f == thread[t].file
           one == [files EXCEPT ![f].versions = @ \cup {thread[t].latest}]
<1>1. thread[t].latest \in Nat /\ files \in [Files -> File]
  BY PartsOf DEF TypeOK
<1>2. files' = [one EXCEPT ![f].whole = files[f].whole \/ files[f].by = t[1]]
  BY DEF Write
<1> HIDE DEF f
<1>3. one \in [Files -> File]
  BY <1>1 DEF File
<1>4. \A g \in Files \ {f} : one[g] = files[g]
  BY <1>1
<1>5. f \in Files => /\ one[f].versions = files[f].versions \cup {thread[t].latest}
                     /\ one[f].by = files[f].by
  BY <1>1 DEF File
<1> HIDE DEF one
<1>6. (files[f].whole \/ files[f].by = t[1]) \in BOOLEAN
  OBVIOUS
<1>7. files' \in [Files -> File]
  BY <1>2, <1>3, <1>6 DEF File
<1>8. f \in Files => /\ files'[f].versions = one[f].versions /\ files'[f].by = one[f].by
                     /\ files'[f].whole = (files[f].whole \/ files[f].by = t[1])
  BY <1>2, <1>3 DEF File
<1>9. \A g \in Files \ {f} : files'[g] = one[g]
  BY <1>2, <1>3
<1> QED BY <1>4, <1>5, <1>7, <1>8, <1>9 DEF f


LEMMA RenamedType ==
    ASSUME names \in [Names -> Files \cup {NoFile}], NEW from \in Names, NEW to \in Names
    PROVE  Renamed(from, to) \in [Names -> Files \cup {NoFile}]
BY DEF Renamed

LEMMA InitTyped == Init => Typed
<1> SUFFICES ASSUME Init PROVE Typed
  OBVIOUS
<1>1. First \in Nat /\ MaxUpdates \in Nat
  BY Constants
<1>2. names \in [Names -> Files \cup {NoFile}]
  <2>1. 1 \in Files
    BY <1>1 DEF Files
  <2>2. names = [n \in Names |-> IF n = "installed" THEN 1 ELSE NoFile]
    BY DEF Init
  <2> QED BY <2>1, <2>2
<1>3. files \in [Files -> File]
  <2>1. [versions |-> {First}, by |-> "setup", whole |-> TRUE] \in File
    BY <1>1 DEF File
  <2> QED BY <2>1 DEF Init
<1>4. /\ linux \in BOOLEAN /\ published \subseteq Releases
      /\ runs \in [Processes -> Files \cup {NoFile}] /\ odd = {} /\ silenced = {}
      /\ reported = First /\ starts = 0 /\ commands = 0 /\ updates = 0
      /\ published = {} /\ stateFile = {Fresh}
  BY DEF Init
<1>5. thread \in [Threads -> Thread]
  BY OffIsThread DEF Init
<1>6. Readable
  BY <1>4, FreshIsState DEF Readable
<1>7. stateFile \subseteq State /\ Cardinality(stateFile) <= 1
  BY <1>6, SmallEnough DEF Readable
<1>8. Bounded
  BY <1>4 DEF Bounded
<1>9. TypeOK
  BY <1>1, <1>2, <1>3, <1>4, <1>5, <1>7 DEF TypeOK
<1> QED BY <1>6, <1>8, <1>9 DEF Typed

LEMMA ThreadTyped ==
    ASSUME Typed, NEW t \in Threads, ThreadStep(t)
    PROVE  Typed'
<1>0. /\ TypeOK /\ thread \in [Threads -> Thread] /\ thread[t] \in Thread
      /\ stateFile \subseteq State /\ Cardinality(stateFile) <= 1
      /\ names \in [Names -> Files \cup {NoFile}] /\ files \in [Files -> File]
  BY DEF Typed, TypeOK
<1>1. thread[t].state \in State /\ thread[t].latest \in Nat /\ thread[t].target \in Names
  BY <1>0, PartsOf
<1>00. {"save", "saving", "backup", "place", "clean"} \subseteq Places
  BY DEF Places
<1>2. CASE Fetch(t)
  <2>1. thread' \in [Threads -> Thread]
    BY <1>2, FetchIs
  <2>2. UNCHANGED <<linux, published, disk, runs, stateFile, noted, bounds>>
    BY <1>2 DEF Fetch
  <2> QED BY <1>0, <2>1, <2>2 DEF Typed, TypeOK, Readable, Bounded, disk, noted, bounds
<1>3. CASE FetchFails(t)
  <2>1. thread' \in [Threads -> Thread]
    BY <1>0, <1>00, <1>3, GoesIs DEF FetchFails
  <2>2. UNCHANGED <<linux, published, disk, runs, stateFile, noted, bounds>>
    BY <1>3 DEF FetchFails
  <2> QED BY <1>0, <2>1, <2>2 DEF Typed, TypeOK, Readable, Bounded, disk, noted, bounds
<1>4. CASE Save(t)
  <2>1. thread' \in [Threads -> Thread]
    BY <1>0, <1>00, <1>4, GoesIs DEF Save
  <2>2. stateFile' \subseteq State /\ Cardinality(stateFile') <= 1 /\ Readable'
    BY <1>4, SmallEnough DEF Save, Readable
  <2>3. UNCHANGED <<linux, published, disk, runs, noted, bounds>>
    BY <1>4 DEF Save
  <2> QED BY <1>0, <2>1, <2>2, <2>3 DEF Typed, TypeOK, Bounded, disk, noted, bounds
<1>5. ASSUME NEW what, what \subseteq {"lost"}, AfterSave(t, what)
      PROVE  thread' \in [Threads -> Thread] /\ odd' \subseteq {"overlap", "astray", "stuck", "shared", "lost"}
  <2>1. odd \subseteq {"overlap", "astray", "stuck", "shared", "lost"}
    BY <1>0 DEF TypeOK
  <2>2. thread' \in [Threads -> Thread] /\ odd' \subseteq odd \cup what \cup {"astray"}
    BY <1>0, <1>5, AfterSaveIs
  <2> QED BY <1>5, <2>1, <2>2
<1>6. CASE Saved(t)
  <2>1. thread' \in [Threads -> Thread] /\ odd' \subseteq {"overlap", "astray", "stuck", "shared", "lost"}
    BY <1>5, <1>6 DEF Saved
  <2>2. stateFile' = Torn \/ \E s \in State : stateFile' = {s}
    BY <1>1, <1>6 DEF Saved
  <2>3. stateFile' \subseteq State /\ Cardinality(stateFile') <= 1 /\ Readable'
    BY <2>2, SmallEnough DEF Readable
  <2>4. silenced' \subseteq Nat
    <3>1. silenced \subseteq Nat /\ thread[t].state.dismissed \in Nat
      BY <1>0, <1>1 DEF TypeOK, State
    <3> QED BY <1>6, <3>1 DEF Saved
  <2>5. UNCHANGED <<linux, published, disk, runs, reported, bounds>>
    BY <1>6 DEF Saved
  <2> QED BY <1>0, <2>1, <2>3, <2>4, <2>5 DEF Typed, TypeOK, Bounded, disk, bounds
<1>7. CASE SaveFails(t)
  <2>1. thread' \in [Threads -> Thread] /\ odd' \subseteq {"overlap", "astray", "stuck", "shared", "lost"}
    BY <1>5, <1>7 DEF SaveFails
  <2>2. UNCHANGED <<linux, published, disk, runs, stateFile, silenced, reported, bounds>>
    BY <1>7 DEF SaveFails
  <2> QED BY <1>0, <2>1, <2>2 DEF Typed, TypeOK, Readable, Bounded, disk, bounds
<1>8. CASE Fails(t)
  <2>1. thread' \in [Threads -> Thread]
    BY <1>0, <1>8, RestIs DEF Fails
  <2>2. UNCHANGED <<linux, published, disk, runs, stateFile, noted, bounds>>
    BY <1>8 DEF Fails
  <2> QED BY <1>0, <2>1, <2>2 DEF Typed, TypeOK, Readable, Bounded, disk, noted, bounds
<1>9. CASE Open(t)
  <2>1. /\ thread' \in [Threads -> Thread] /\ files' \in [Files -> File]
        /\ names' \in [Names -> Files \cup {NoFile}] /\ updates' \in Nat
    <3>1. updates \in Nat
      BY <1>0 DEF TypeOK
    <3> DEFINE file == IF names.tmp = NoFile THEN updates + 2 ELSE names.tmp
    <3>2. /\ thread' \in [Threads -> Thread] /\ files' \in [Files -> File] /\ file \in Files
          /\ names' = [names EXCEPT !["tmp"] = file] /\ updates' = updates + 1
      BY <1>0, <1>9, OpenIs
    <3> HIDE DEF file
    <3>3. names' \in [Names -> Files \cup {NoFile}]
      BY <1>0, <3>2
    <3>4. updates' \in Nat
      BY <3>1, <3>2
    <3> QED BY <3>2, <3>3, <3>4
  <2>2. UNCHANGED <<linux, published, runs, stateFile, noted, starts, commands>>
    BY <1>9 DEF Open
  <2> QED BY <1>0, <2>1, <2>2 DEF Typed, TypeOK, Readable, Bounded, noted
<1>10. CASE Write(t)
  <2>1. thread' \in [Threads -> Thread]
    BY <1>0, <1>00, <1>10, GoesIs DEF Write
  <2>2. files' \in [Files -> File]
    BY <1>0, <1>10, WriteIs
  <2>3. UNCHANGED <<linux, published, names, runs, stateFile, noted, bounds>>
    BY <1>10 DEF Write
  <2> QED BY <1>0, <2>1, <2>2, <2>3 DEF Typed, TypeOK, Readable, Bounded, noted, bounds
<1>11. CASE BackUp(t)
  <2>1. thread' \in [Threads -> Thread]
    BY <1>0, <1>00, <1>11, GoesIs DEF BackUp
  <2>2. names' \in [Names -> Files \cup {NoFile}]
    BY <1>0, <1>1, <1>11, RenamedType DEF BackUp, Names
  <2>3. UNCHANGED <<linux, published, files, runs, stateFile, noted, bounds>>
    BY <1>11 DEF BackUp
  <2> QED BY <1>0, <2>1, <2>2, <2>3 DEF Typed, TypeOK, Readable, Bounded, noted, bounds
<1>12. CASE BackUpFails(t)
  <2>1. thread' \in [Threads -> Thread]
    BY <1>0, <1>00, <1>12, GoesIs DEF BackUpFails
  <2>2. /\ UNCHANGED <<linux, published, disk, runs, stateFile, silenced, reported, bounds>>
        /\ odd' = odd \cup {"stuck"}
    BY <1>12 DEF BackUpFails
  <2> QED BY <1>0, <2>1, <2>2 DEF Typed, TypeOK, Readable, Bounded, disk, bounds
<1>13. CASE Place(t)
  <2>1. thread' \in [Threads -> Thread]
    BY <1>0, <1>00, <1>13, GoesIs DEF Place
  <2>2. names' \in [Names -> Files \cup {NoFile}]
    BY <1>0, <1>1, <1>13, RenamedType DEF Place, Names
  <2>3. UNCHANGED <<linux, published, files, runs, stateFile, noted, bounds>>
    BY <1>13 DEF Place
  <2> QED BY <1>0, <2>1, <2>2, <2>3 DEF Typed, TypeOK, Readable, Bounded, noted, bounds
<1>14. CASE PlaceFails(t)
  <2>1. thread' \in [Threads -> Thread]
    BY <1>0, <1>14, RestIs DEF PlaceFails
  <2>2. names' \in [Names -> Files \cup {NoFile}]
    BY <1>0, <1>1, <1>14, RenamedType DEF PlaceFails, Restored, Names
  <2>3. UNCHANGED <<linux, published, files, runs, stateFile, noted, bounds>>
    BY <1>14 DEF PlaceFails
  <2> QED BY <1>0, <2>1, <2>2, <2>3 DEF Typed, TypeOK, Readable, Bounded, noted, bounds
<1>15. CASE Clean(t)
  <2>1. thread' \in [Threads -> Thread]
    BY <1>0, <1>15, RestIs DEF Clean
  <2>2. names' \in [Names -> Files \cup {NoFile}] /\ reported' \in Nat
    <3>1. reported \in Nat
      BY <1>0 DEF TypeOK
    <3> QED BY <1>0, <1>1, <1>15, <3>1 DEF Clean
  <2>3. UNCHANGED <<linux, published, files, runs, stateFile, odd, silenced, bounds>>
    BY <1>15 DEF Clean
  <2> QED BY <1>0, <2>1, <2>2, <2>3 DEF Typed, TypeOK, Readable, Bounded, bounds
<1> QED BY <1>2, <1>3, <1>4, <1>6, <1>7, <1>8, <1>9, <1>10, <1>11, <1>12, <1>13, <1>14, <1>15
        DEF ThreadStep


(* A session starts with a thread that rests and one that may check.        *)
LEMMA StartIs ==
    ASSUME Typed, NEW p \in Processes, StartSession(p)
    PROVE  /\ \A u \in Threads : u[1] # p => thread'[u] = thread[u]
           /\ thread' \in [Threads -> Thread] /\ thread'[<<p, "main">>] = Idle
           /\ \/ /\ thread'[<<p, "background">>] = Begun("check")
                 /\ odd' = odd \cup Meets(<<p, "background">>, "check")
              \/ thread'[<<p, "background">>] = Idle /\ odd' = odd
           /\ runs' = [runs EXCEPT ![p] = names.installed] /\ Good(names.installed)
           /\ runs[p] = NoFile /\ commands' \in Nat /\ starts' \in Nat
<1>1. thread \in [Threads -> Thread] /\ commands \in Nat /\ starts \in Nat
  BY DEF Typed, TypeOK
<1>2. <<p, "main">> \in Threads /\ <<p, "background">> \in Threads
  BY DEF Threads, Roles
<1>3. Idle \in Thread /\ Begun("check") \in Thread
  BY IdleIs, BegunIs, LoadedIs DEF Typed
<1>4. PICK checks \in BOOLEAN :
          /\ thread' = [thread EXCEPT ![<<p, "main">>] = Idle,
                                      ![<<p, "background">>] = IF checks THEN Begun("check") ELSE Idle]
          /\ odd' = odd \cup (IF checks THEN Meets(<<p, "background">>, "check") ELSE {})
          /\ commands' = commands + (IF checks THEN 1 ELSE 0)
  BY DEF StartSession
<1>5. /\ runs' = [runs EXCEPT ![p] = names.installed] /\ Good(names.installed)
      /\ runs[p] = NoFile /\ starts' = starts + 1
  BY DEF StartSession
<1>6. \A u \in Threads : u[1] # p => u # <<p, "main">> /\ u # <<p, "background">>
  OBVIOUS
<1>7. <<p, "main">> # <<p, "background">>
  OBVIOUS
<1>8. /\ thread' \in [Threads -> Thread] /\ thread'[<<p, "main">>] = Idle
      /\ thread'[<<p, "background">>] = IF checks THEN Begun("check") ELSE Idle
      /\ \A u \in Threads : u[1] # p => thread'[u] = thread[u]
  BY <1>1, <1>2, <1>3, <1>4, <1>6, <1>7
<1>9. commands' \in Nat /\ starts' \in Nat
  BY <1>1, <1>4, <1>5
<1> QED BY <1>4, <1>5, <1>8, <1>9

LEMMA BeginIs ==
    ASSUME Typed, NEW p \in Processes, NEW op \in {"check", "dismiss", "apply"}, Begin(p, op)
    PROVE  LET t == <<p, "main">> IN
           /\ t \in Threads /\ thread[t].at = "idle"
           /\ \A u \in Threads \ {t} : thread'[u] = thread[u]
           /\ thread' \in [Threads -> Thread] /\ thread'[t] = Begun(op)
           /\ odd' = odd \cup Meets(t, op)
           /\ UNCHANGED <<linux, published, disk, runs, stateFile, silenced, reported, starts, updates>>
           /\ commands' \in Nat
<1>1. /\ thread \in [Threads -> Thread] /\ commands \in Nat /\ <<p, "main">> \in Threads
      /\ Begun(op) \in Thread
  BY BegunIs, LoadedIs DEF Typed, TypeOK, Threads, Roles
<1>2. /\ Step(<<p, "main">>, Begun(op)) /\ odd' = odd \cup Meets(<<p, "main">>, op)
      /\ thread[<<p, "main">>].at = "idle" /\ commands' = commands + 1
      /\ UNCHANGED <<linux, published, disk, runs, stateFile, silenced, reported, starts, updates>>
  BY DEF Begin, At
<1>3. commands' \in Nat
  BY <1>1, <1>2
<1> QED BY <1>1, <1>2, <1>3, StepIs

LEMMA MeetsIs == \A t, op : Meets(t, op) \subseteq {"shared", "overlap"}
BY DEF Meets

LEMMA NextTyped == Typed /\ [Next]_vars => Typed'
<1> SUFFICES ASSUME Typed, [Next]_vars PROVE Typed'
  OBVIOUS
<1>0. /\ TypeOK /\ thread \in [Threads -> Thread] /\ odd \subseteq {"overlap", "astray", "stuck", "shared", "lost"}
      /\ names \in [Names -> Files \cup {NoFile}] /\ runs \in [Processes -> Files \cup {NoFile}]
  BY DEF Typed, TypeOK
<1>1. ASSUME NEW p \in Processes, StartSession(p) PROVE Typed'
  <2>1. /\ thread' \in [Threads -> Thread] /\ commands' \in Nat /\ starts' \in Nat
        /\ runs' = [runs EXCEPT ![p] = names.installed] /\ odd' \subseteq odd \cup {"shared", "overlap"}
    BY <1>1, StartIs, MeetsIs
  <2>2. runs' \in [Processes -> Files \cup {NoFile}]
    BY <1>0, <2>1 DEF Names
  <2>3. odd' \subseteq {"overlap", "astray", "stuck", "shared", "lost"}
    BY <1>0, <2>1
  <2>4. UNCHANGED <<linux, published, disk, stateFile, silenced, reported, updates>>
    BY <1>1 DEF StartSession
  <2> QED BY <1>0, <2>1, <2>2, <2>3, <2>4 DEF Typed, TypeOK, Readable, Bounded, disk
<1>2. ASSUME NEW p \in Processes, NEW op \in {"check", "dismiss", "apply"}, Begin(p, op) PROVE Typed'
  <2>1. /\ thread' \in [Threads -> Thread] /\ commands' \in Nat
        /\ odd' \subseteq odd \cup {"shared", "overlap"}
        /\ UNCHANGED <<linux, published, disk, runs, stateFile, silenced, reported, starts, updates>>
    BY <1>2, BeginIs, MeetsIs
  <2>2. odd' \subseteq {"overlap", "astray", "stuck", "shared", "lost"}
    BY <1>0, <2>1
  <2> QED BY <1>0, <2>1, <2>2 DEF Typed, TypeOK, Readable, Bounded, disk
<1>3. ASSUME NEW p \in Processes, End(p) PROVE Typed'
  <2>1. thread' \in [Threads -> Thread]
    BY <1>0, <1>3, OffIsThread DEF End
  <2>2. runs' \in [Processes -> Files \cup {NoFile}] /\ odd' \subseteq odd \cup {"lost"}
    BY <1>0, <1>3 DEF End
  <2>3. UNCHANGED <<linux, published, disk, stateFile, silenced, reported, bounds>>
    BY <1>3 DEF End
  <2> QED BY <1>0, <2>1, <2>2, <2>3 DEF Typed, TypeOK, Readable, Bounded, disk, bounds
<1>4. ASSUME NEW v \in Releases, Publish(v) PROVE Typed'
  <2>1. published' \subseteq Releases /\ Bounded'
    <3>1. v \in Nat /\ published \subseteq Nat /\ published \subseteq Releases
      BY <1>0, Constants DEF TypeOK
    <3>2. PICK b \in Nat : \A w \in published : w <= b
      BY DEF Typed, Bounded
    <3>3. \A w \in published \cup {v} : w <= b + v
      BY <3>1, <3>2
    <3>4. b + v \in Nat /\ published' = published \cup {v}
      BY <1>4, <3>1 DEF Publish
    <3> QED BY <3>1, <3>3, <3>4 DEF Bounded
  <2>2. UNCHANGED <<linux, disk, runs, stateFile, thread, noted, bounds>>
    BY <1>4 DEF Publish
  <2> QED BY <1>0, <2>1, <2>2 DEF Typed, TypeOK, Readable, disk, noted, bounds
<1>5. CASE UNCHANGED vars
  BY <1>0, <1>5 DEF Typed, TypeOK, Readable, Bounded, vars, disk, noted, bounds
<1> QED BY <1>1, <1>2, <1>3, <1>4, <1>5, ThreadTyped DEF Next, Check, Apply, Dismiss

LEMMA TypedHolds == Spec => []Typed
BY InitTyped, NextTyped, PTL DEF Spec

(* Every file, thread and history keeps its type, whatever is cut short.    *)
THEOREM TypeCorrect == Spec => []TypeOK
<1>1. Typed => TypeOK
  BY DEF Typed
<1> QED BY <1>1, TypedHolds, PTL


(***************************************************************************)
(* What holds of the files and of each thread, whatever goes wrong.        *)
(***************************************************************************)
Working == {"download", "writing", "backup", "place", "clean"}

(* No file has two names, and none is older than the first.                 *)
Apart(ns) == \A n, m \in Names : ns[n] = ns[m] /\ ns[n] # NoFile => n = m

Stored ==
    /\ \A f \in Files : files[f].versions # {} /\ \A v \in files[f].versions : v >= First
    /\ Apart(names) /\ \A n \in Names : names[n] <= updates + 1
    /\ reported >= First /\ (reported = First \/ reported \in published)

(* A thread belongs to a process that runs, and one that replaces the binary *)
(* has found a release to put in its place.                                 *)
Local(t) ==
    /\ thread[t].at # "off" => runs[t[1]] # NoFile
    /\ thread[t].at \in Working => thread[t].op = "apply" /\ thread[t].latest # Nothing
    /\ thread[t].latest # Nothing => thread[t].latest \in published /\ thread[t].latest >= First
    /\ thread[t].at = "writing" => thread[t].file \in Files

Footing == Stored /\ \A t \in Threads : Local(t)

LEMMA VersionIs ==
    ASSUME TypeOK, Stored, NEW f \in Files
    PROVE  Version(f) \in files[f].versions /\ Version(f) \in Nat /\ Version(f) >= First
<1>1. files[f].versions \subseteq Nat /\ files[f].versions # {}
  BY DEF TypeOK, File, Stored
<1>2. Version(f) \in files[f].versions
  BY <1>1 DEF Version
<1> QED BY <1>1, <1>2 DEF Stored

LEMMA RenamedApart ==
    ASSUME names \in [Names -> Files \cup {NoFile}], Apart(names), NEW from \in Names, NEW to \in Names
    PROVE  Apart(Renamed(from, to))
BY DEF Apart, Renamed

LEMMA RenamedBelow ==
    ASSUME names \in [Names -> Files \cup {NoFile}], NEW k \in Nat, \A n \in Names : names[n] <= k,
           NEW from \in Names, NEW to \in Names
    PROVE  \A n \in Names : Renamed(from, to)[n] <= k
BY DEF Renamed, NoFile

LEMMA InitFooting == Init => Footing
<1> SUFFICES ASSUME Init PROVE Footing
  OBVIOUS
<1>1. names = [n \in Names |-> IF n = "installed" THEN 1 ELSE NoFile] /\ updates = 0
  BY DEF Init
<1>2. Apart(names) /\ \A n \in Names : names[n] <= updates + 1
  BY <1>1 DEF Apart, NoFile
<1>3. \A f \in Files : files[f].versions = {First}
  BY DEF Init
<1>4. reported = First /\ First \in Nat
  BY Constants DEF Init
<1>5. Stored
  BY <1>2, <1>3, <1>4 DEF Stored
<1>6. ASSUME NEW t \in Threads PROVE Local(t)
  <2>1. thread[t] = Off
    BY DEF Init
  <2> QED BY <2>1 DEF Local, Off, Working
<1> QED BY <1>5, <1>6 DEF Footing

(* The names and the files after a step of a thread.                        *)
LEMMA ThreadStored ==
    ASSUME Typed, Footing, NEW t \in Threads, ThreadStep(t)
    PROVE  Stored'
<1>0. /\ TypeOK /\ Stored /\ Local(t) /\ thread \in [Threads -> Thread] /\ thread[t] \in Thread
      /\ names \in [Names -> Files \cup {NoFile}] /\ files \in [Files -> File]
      /\ updates \in Nat /\ reported \in Nat /\ First \in Nat
  BY Constants DEF Typed, TypeOK, Footing
<1>00. thread[t].latest \in Nat /\ thread[t].target \in Names /\ {"tmp", "old"} \subseteq Names
  BY <1>0, PartsOf DEF Names
<1>2. ASSUME UNCHANGED <<names, files, reported, updates, published>> PROVE Stored'
  BY <1>0, <1>2 DEF Stored, Apart
<1>3. ASSUME UNCHANGED <<files, reported, updates, published>>,
             \/ names' = names
             \/ \E from, to \in Names : names' = Renamed(from, to)
             \/ names' = [names EXCEPT !.old = NoFile]
      PROVE  Stored'
  <2>1. Apart(names') /\ \A n \in Names : names'[n] <= updates + 1
    <3>1. CASE names' = names
      BY <1>0, <3>1 DEF Stored
    <3>2. ASSUME NEW from \in Names, NEW to \in Names, names' = Renamed(from, to)
          PROVE  Apart(names') /\ \A n \in Names : names'[n] <= updates + 1
      BY <1>0, <3>2, RenamedApart, RenamedBelow DEF Stored
    <3>3. CASE names' = [names EXCEPT !.old = NoFile]
      BY <1>0, <3>3 DEF Stored, Apart, NoFile
    <3> QED BY <1>3, <3>1, <3>2, <3>3
  <2> QED BY <1>0, <1>3, <2>1 DEF Stored, Apart
<1>4. CASE Fetch(t) \/ FetchFails(t) \/ Save(t) \/ Saved(t) \/ SaveFails(t) \/ Fails(t) \/ BackUpFails(t)
  BY <1>2, <1>4 DEF Fetch, FetchFails, Save, Saved, SaveFails, Fails, BackUpFails, disk, noted, bounds
<1>5. CASE Open(t)
  <2> DEFINE file == IF names.tmp = NoFile THEN updates + 2 ELSE names.tmp
  <2>1. /\ file \in Files /\ names' = [names EXCEPT !["tmp"] = file]
        /\ files'[file] = [versions |-> {thread[t].latest}, by |-> t[1], whole |-> FALSE]
        /\ \A f \in Files \ {file} : files'[f] = files[f]
        /\ updates' = updates + 1
    BY <1>0, <1>5, OpenIs
  <2>2. thread[t].latest >= First
    BY <1>0, <1>5 DEF Local, Open, At, Working
  <2>3. \A f \in Files : files'[f].versions # {} /\ \A v \in files'[f].versions : v >= First
    <3> HIDE DEF file
    <3>1. files'[file].versions = {thread[t].latest}
      BY <2>1
    <3>2. ASSUME NEW f \in Files
          PROVE  files'[f].versions # {} /\ \A v \in files'[f].versions : v >= First
      <4>1. CASE f = file
        BY <2>2, <3>1, <4>1
      <4>2. CASE f # file
        BY <1>0, <2>1, <4>2 DEF Stored
      <4> QED BY <4>1, <4>2
    <3> QED BY <3>2
  <2>4. file <= updates' + 1 /\ \A n \in Names : n # "tmp" => names[n] # file
    <3>1. \A n \in Names : names[n] <= updates + 1 /\ names[n] \in Nat
      BY <1>0 DEF Stored, Files, NoFile
    <3>2. Apart(names)
      BY <1>0 DEF Stored
    <3>3. CASE names.tmp = NoFile
      BY <1>0, <2>1, <3>1, <3>3
    <3>4. CASE names.tmp # NoFile
      BY <1>0, <1>00, <2>1, <3>1, <3>2, <3>4 DEF Apart
    <3> QED BY <3>3, <3>4
  <2> HIDE DEF file
  <2>5. Apart(names')
    BY <1>0, <2>1, <2>4 DEF Stored, Apart
  <2>6. \A n \in Names : names'[n] <= updates' + 1
    <3>1. \A n \in Names : names[n] <= updates + 1 /\ names[n] \in Nat
      BY <1>0 DEF Stored, Files, NoFile
    <3> QED BY <1>0, <2>1, <2>4, <3>1
  <2>7. reported' = reported /\ published' = published
    BY <1>5 DEF Open, noted
  <2> QED BY <1>0, <2>3, <2>5, <2>6, <2>7 DEF Stored, Apart
<1>6. CASE Write(t)
  <2>1. /\ thread[t].file \in Files /\ thread[t].latest >= First
        /\ UNCHANGED <<names, reported, updates, published>>
    BY <1>0, <1>6 DEF Write, Local, At, Working, noted, bounds
  <2>2. /\ files'[thread[t].file].versions = files[thread[t].file].versions \cup {thread[t].latest}
        /\ \A g \in Files \ {thread[t].file} : files'[g] = files[g]
    BY <1>0, <1>6, <2>1, WriteIs
  <2>3. \A f \in Files : files'[f].versions # {} /\ \A v \in files'[f].versions : v >= First
    BY <1>0, <2>1, <2>2 DEF Stored
  <2> QED BY <1>0, <2>1, <2>3 DEF Stored, Apart
<1>7. CASE BackUp(t)
  <2>1. names' = names \/ \E from, to \in Names : names' = Renamed(from, to)
    BY <1>00, <1>7 DEF BackUp
  <2> QED BY <1>3, <1>7, <2>1 DEF BackUp, noted, bounds
<1>8. CASE Place(t)
  <2>1. \E from, to \in Names : names' = Renamed(from, to)
    BY <1>00, <1>8 DEF Place
  <2> QED BY <1>3, <1>8, <2>1 DEF Place, noted, bounds
<1>9. CASE PlaceFails(t)
  <2>1. names' = names \/ \E from, to \in Names : names' = Renamed(from, to)
    BY <1>00, <1>9 DEF PlaceFails, Restored
  <2> QED BY <1>3, <1>9, <2>1 DEF PlaceFails, noted, bounds
<1>10. CASE Clean(t)
  <2>1. names' = names \/ names' = [names EXCEPT !.old = NoFile]
    BY <1>10 DEF Clean
  <2>2. Apart(names') /\ \A n \in Names : names'[n] <= updates + 1
    BY <1>0, <2>1 DEF Stored, Apart, NoFile
  <2>3. UNCHANGED <<files, updates, published>> /\ reported' \in {reported, thread[t].latest}
    BY <1>10 DEF Clean, bounds
  <2>4. thread[t].latest \in published /\ thread[t].latest >= First
    BY <1>0, <1>10 DEF Clean, At, Local, Working
  <2> QED BY <1>0, <2>2, <2>3, <2>4 DEF Stored, Apart
<1> QED BY <1>4, <1>5, <1>6, <1>7, <1>8, <1>9, <1>10 DEF ThreadStep


(* The threads after a step of one.                                         *)
LEMMA ThreadLocal ==
    ASSUME Typed, Footing, NEW t \in Threads, ThreadStep(t)
    PROVE  \A u \in Threads : Local(u)'
<1>0. /\ TypeOK /\ Stored /\ Local(t) /\ thread \in [Threads -> Thread]
      /\ published \subseteq Nat /\ First \in Nat
      /\ {"save", "saving", "backup", "place", "clean"} \subseteq Places
  BY Constants DEF Typed, TypeOK, Footing, Places
<1>1. runs' = runs /\ published' = published
  BY DEF ThreadStep, Fetch, FetchFails, Save, Saved, SaveFails, Fails, Open, Write, BackUp,
         BackUpFails, Place, PlaceFails, Clean
<1>2. ASSUME \A u \in Threads \ {t} : thread'[u] = thread[u], Local(t)'
      PROVE  \A u \in Threads : Local(u)'
  <2>1. ASSUME NEW u \in Threads \ {t} PROVE Local(u)'
    BY <1>1, <1>2, <2>1 DEF Footing, Local
  <2> QED BY <1>2, <2>1
<1>3. ASSUME \A u \in Threads \ {t} : thread'[u] = thread[u],
             thread'[t].at = "idle", thread'[t].latest = Nothing, thread[t].at # "off"
      PROVE  \A u \in Threads : Local(u)'
  <2>1. Local(t)'
    BY <1>0, <1>1, <1>3 DEF Local, Working
  <2> QED BY <1>2, <1>3, <2>1
<1>4. ASSUME NEW place \in {"save", "saving", "backup", "place", "clean"}, Goes(t, place),
             thread[t].at # "off", place \in Working => thread[t].at \in Working
      PROVE  \A u \in Threads : Local(u)'
  <2>1. /\ \A u \in Threads \ {t} : thread'[u] = thread[u]
        /\ thread'[t].at = place /\ thread'[t].op = thread[t].op
        /\ thread'[t].latest = thread[t].latest
    BY <1>0, <1>4, GoesIs
  <2>2. Local(t)'
    BY <1>0, <1>1, <1>4, <2>1 DEF Local
  <2> QED BY <1>2, <2>1, <2>2
<1>5. ASSUME NEW what, AfterSave(t, what), thread[t].at # "off"
      PROVE  \A u \in Threads : Local(u)'
  <2>1. /\ \A u \in Threads \ {t} : thread'[u] = thread[u]
        /\ \/ /\ thread'[t].at = "download" /\ thread'[t].op = "apply"
              /\ thread'[t].latest = thread[t].latest /\ thread[t].latest # Nothing
           \/ thread'[t].at = "idle" /\ thread'[t].latest = Nothing
    BY <1>0, <1>5, AfterSaveIs
  <2>2. Local(t)'
    BY <1>0, <1>1, <1>5, <2>1 DEF Local, Working
  <2> QED BY <1>2, <2>1, <2>2
<1>6. CASE Fetch(t)
  <2>1. /\ \A u \in Threads \ {t} : thread'[u] = thread[u]
        /\ thread'[t].at = "save" /\ thread[t].at = "fetch"
        /\ thread'[t].latest = Nothing \/ thread'[t].latest \in Newer(t)
    BY <1>6, FetchIs
  <2>2. runs[t[1]] \in Files
    <3>1. t[1] \in Processes
      BY DEF Threads
    <3> QED BY <1>0, <2>1, <3>1 DEF Local, TypeOK
  <2>3. Version(runs[t[1]]) \in Nat /\ Version(runs[t[1]]) >= First
    BY <1>0, <2>2, VersionIs
  <2>4. \A v \in Newer(t) : v \in published /\ v >= First
    <3> DEFINE own == Version(runs[t[1]])
    <3>1. \A v \in Newer(t) : v \in published /\ v \in Nat /\ v > own
      BY <1>0 DEF Newer
    <3>2. own \in Nat /\ own >= First
      BY <2>3
    <3> HIDE DEF own
    <3> QED BY <1>0, <3>1, <3>2
  <2>6. /\ runs[t[1]] # NoFile
        /\ thread'[t].latest # Nothing =>
              thread'[t].latest \in published /\ thread'[t].latest >= First
    BY <1>0, <2>1, <2>4 DEF Local
  <2>5. Local(t)'
    BY <1>1, <2>1, <2>6 DEF Local, Working
  <2> QED BY <1>2, <2>1, <2>5
<1>7. CASE FetchFails(t)
  BY <1>4, <1>7 DEF FetchFails, At, Working
<1>8. CASE Save(t)
  BY <1>4, <1>8 DEF Save, At, Working
<1>9. CASE Saved(t)
  BY <1>5, <1>9 DEF Saved, At
<1>10. CASE SaveFails(t)
  BY <1>5, <1>10 DEF SaveFails
<1>11. ASSUME Step(t, Idle), thread[t].at # "off" PROVE \A u \in Threads : Local(u)'
  BY <1>0, <1>3, <1>11, RestIs
<1>12. CASE Fails(t)
  BY <1>11, <1>12 DEF Fails
<1>13. CASE Open(t)
  <2>1. /\ \A u \in Threads \ {t} : thread'[u] = thread[u]
        /\ thread[t].at = "download" /\ thread'[t].at = "writing"
        /\ thread'[t].op = thread[t].op /\ thread'[t].latest = thread[t].latest
        /\ thread'[t].file \in Files
    BY <1>0, <1>13, OpenIs
  <2>2. Local(t)'
    BY <1>0, <1>1, <2>1 DEF Local, Working
  <2> QED BY <1>2, <2>1, <2>2
<1>14. CASE Write(t)
  BY <1>4, <1>14 DEF Write, At, Working
<1>15. CASE BackUp(t)
  BY <1>4, <1>15 DEF BackUp, At, Working
<1>16. CASE BackUpFails(t)
  BY <1>4, <1>16 DEF BackUpFails, At, Working
<1>17. CASE Place(t)
  BY <1>4, <1>17 DEF Place, At, Working
<1>18. CASE PlaceFails(t)
  BY <1>11, <1>18 DEF PlaceFails, At
<1>19. CASE Clean(t)
  BY <1>11, <1>19 DEF Clean, At
<1> QED BY <1>6, <1>7, <1>8, <1>9, <1>10, <1>12, <1>13, <1>14, <1>15, <1>16, <1>17, <1>18, <1>19
        DEF ThreadStep

LEMMA NextFooting == Typed /\ Footing /\ [Next]_vars => Footing'
<1> SUFFICES ASSUME Typed, Footing, [Next]_vars PROVE Footing'
  OBVIOUS
<1>0. /\ TypeOK /\ Stored /\ thread \in [Threads -> Thread]
      /\ runs \in [Processes -> Files \cup {NoFile}]
  BY DEF Typed, TypeOK, Footing
<1>1. ASSUME UNCHANGED <<names, files, reported, updates>>, published \subseteq published'
      PROVE  Stored'
  BY <1>0, <1>1 DEF Stored, Apart
<1>2. ASSUME NEW p \in Processes, StartSession(p) PROVE Footing'
  <2>1. /\ \A u \in Threads : u[1] # p => thread'[u] = thread[u]
        /\ thread'[<<p, "main">>] = Idle
        /\ thread'[<<p, "background">>] \in {Idle, Begun("check")}
        /\ runs' = [runs EXCEPT ![p] = names.installed] /\ names.installed # NoFile
    BY <1>2, StartIs DEF Good
  <2>2. ASSUME NEW c \in {Idle, Begun("check")}
        PROVE  c.at \notin Working /\ c.latest = Nothing
    BY IdleIs, BegunIs, LoadedIs DEF Typed, Working
  <2>3. runs'[p] # NoFile /\ \A q \in Processes : q # p => runs'[q] = runs[q]
    BY <1>0, <2>1
  <2>4. published' = published /\ Stored'
    BY <1>1, <1>2 DEF StartSession, disk
  <2>5. ASSUME NEW u \in Threads PROVE Local(u)'
    <3>1. u[1] \in Processes /\ (u = <<p, "main">> \/ u = <<p, "background">> \/ u[1] # p)
      BY DEF Threads, Roles
    <3>2. CASE u[1] = p
      <4>1. thread'[u].at \notin Working /\ thread'[u].latest = Nothing
        BY <2>1, <2>2, <3>1, <3>2
      <4> QED BY <2>3, <3>2, <4>1 DEF Local, Working
    <3>3. CASE u[1] # p
      BY <2>1, <2>3, <2>4, <3>1, <3>3 DEF Footing, Local
    <3> QED BY <3>2, <3>3
  <2> QED BY <2>4, <2>5 DEF Footing
<1>3. ASSUME NEW p \in Processes, NEW op \in {"check", "dismiss", "apply"}, Begin(p, op) PROVE Footing'
  <2> DEFINE t == <<p, "main">>
  <2>1. /\ t \in Threads /\ thread[t].at = "idle"
        /\ \A u \in Threads \ {t} : thread'[u] = thread[u]
        /\ thread'[t] = Begun(op) /\ UNCHANGED <<published, disk, runs, reported, updates>>
    BY <1>3, BeginIs
  <2>2. Begun(op).at \notin Working /\ Begun(op).latest = Nothing
    BY BegunIs, LoadedIs DEF Typed, Working
  <2>3. Local(t)'
    BY <2>1, <2>2 DEF Footing, Local, Working
  <2>4. ASSUME NEW u \in Threads \ {t} PROVE Local(u)'
    BY <2>1, <2>4 DEF Footing, Local
  <2> HIDE DEF t
  <2> QED BY <1>1, <2>1, <2>3, <2>4 DEF Footing, disk
<1>4. ASSUME NEW p \in Processes, End(p) PROVE Footing'
  <2>1. UNCHANGED <<published, disk, reported, updates>> /\ runs' = [runs EXCEPT ![p] = NoFile]
    BY <1>4 DEF End, bounds
  <2>2. ASSUME NEW u \in Threads PROVE Local(u)'
    <3>1. thread'[u] = IF u[1] = p THEN Off ELSE thread[u]
      BY <1>4 DEF End
    <3>2. CASE u[1] = p
      BY <3>1, <3>2 DEF Local, Off, Working
    <3>3. CASE u[1] # p
      <4>1. thread'[u] = thread[u] /\ runs'[u[1]] = runs[u[1]]
        BY <1>0, <2>1, <3>1, <3>3
      <4> QED BY <2>1, <4>1 DEF Footing, Local
    <3> QED BY <3>2, <3>3
  <2> QED BY <1>1, <2>1, <2>2 DEF Footing, disk
<1>5. ASSUME NEW v \in Releases, Publish(v) PROVE Footing'
  <2>1. /\ UNCHANGED <<disk, runs, thread, reported, updates>> /\ published \subseteq published'
    BY <1>5 DEF Publish, noted, bounds
  <2>2. ASSUME NEW u \in Threads PROVE Local(u)'
    BY <2>1 DEF Footing, Local
  <2> QED BY <1>1, <2>1, <2>2 DEF Footing, disk
<1>6. CASE UNCHANGED vars
  <2>1. ASSUME NEW u \in Threads PROVE Local(u)'
    BY <1>6 DEF Footing, Local, vars
  <2> QED BY <1>1, <1>6, <2>1 DEF Footing, vars, disk, noted, bounds
<1>7. ASSUME NEW t \in Threads, ThreadStep(t) PROVE Footing'
  BY <1>7, ThreadStored, ThreadLocal DEF Footing
<1> QED BY <1>2, <1>3, <1>4, <1>5, <1>6, <1>7 DEF Next, Check, Apply, Dismiss

LEMMA FootingHolds == Spec => []Footing
<1>1. Typed /\ Footing /\ [Next]_vars => Footing'
  BY NextFooting
<1> QED BY <1>1, InitFooting, TypedHolds, PTL DEF Spec


(***************************************************************************)
(* One update at a time, of a binary at its place, whose backup can be made. *)
(***************************************************************************)
Plain == odd \cap {"overlap", "astray", "stuck"} = {}

(* A whole binary of one version has a name. *)
Holds(n, v) == names[n] # NoFile /\ files[names[n]].versions = {v} /\ files[names[n]].whole

(* What the thread that updates has done so far. *)
Progress(t) ==
    LET c == thread[t] IN
    /\ c.latest # Nothing => c.latest >= reported
    /\ c.at \in Working => c.target = "installed"
    /\ c.at = "writing" => /\ names.tmp = c.file /\ files[c.file].versions = {c.latest}
                           /\ files[c.file].by = t[1]
    /\ c.at \in {"backup", "place"} => Holds("tmp", c.latest)
    /\ c.at = "place" => names.installed = NoFile
    /\ c.at = "clean" => Holds("installed", c.latest)

Remains ==
    /\ Kept("installed") \/ Kept("old")
    /\ names.installed # NoFile => Kept("installed")

OneUpdates ==
    /\ \A t, u \in Threads : Applying(t) /\ Applying(u) => t = u
    /\ \A t \in Threads : Applying(t) => Progress(t)

UpdateInv == Plain => OneUpdates /\ Remains

LEMMA KeptStays ==
    ASSUME NEW n \in Names, NEW m \in Names, Kept(n), names'[m] = names[n],
           files'[names[n]] = files[names[n]], reported' = reported
    PROVE  Kept(m)'
BY DEF Kept, Good, Version

LEMMA HeldIsKept ==
    ASSUME NEW n \in Names, NEW v \in Nat, Holds(n, v)', reported' \in Nat, v >= reported'
    PROVE  Kept(n)'
<1>1. Cardinality(files'[names'[n]].versions) = 1
  BY FS_Singleton DEF Holds
<1>2. Version(names[n])' = v
  BY DEF Holds, Version
<1> QED BY <1>1, <1>2 DEF Kept, Good, Holds

LEMMA KeptHasName == \A n \in Names : Kept(n) => names[n] # NoFile
BY DEF Kept, Good

(* Threads that do not update leave the binary alone.                       *)
LEMMA OthersUpdate ==
    ASSUME OneUpdates, NEW t \in Threads, \A u \in Threads \ {t} : thread'[u] = thread[u],
           Applying(t) \/ UNCHANGED <<names, files, reported>>,
           Applying(t)' => Applying(t) /\ Progress(t)'
    PROVE  OneUpdates'
<1>1. \A u \in Threads \ {t} : Applying(u)' <=> Applying(u)
  BY DEF Applying
<1>2. \A u, w \in Threads : Applying(u)' /\ Applying(w)' => u = w
  BY <1>1 DEF OneUpdates
<1>3. ASSUME NEW u \in Threads \ {t}, Applying(u)' PROVE Progress(u)'
  <2>1. Progress(u) /\ UNCHANGED <<names, files, reported>>
    BY <1>1, <1>3 DEF OneUpdates
  <2> QED BY <2>1 DEF Progress, Holds
<1> QED BY <1>2, <1>3 DEF OneUpdates


LEMMA ThreadUpdate ==
    ASSUME Typed, Footing, UpdateInv, NEW t \in Threads, ThreadStep(t), Plain'
    PROVE  OneUpdates' /\ Remains'
<1> DEFINE c == thread[t]
           d == thread'[t]
<1>0. /\ TypeOK /\ Stored /\ Local(t) /\ thread \in [Threads -> Thread] /\ c \in Thread
      /\ names \in [Names -> Files \cup {NoFile}] /\ reported \in Nat /\ c.latest \in Nat
      /\ {"installed", "old", "tmp"} \subseteq Names
      /\ {"save", "saving", "backup", "place", "clean"} \subseteq Places
  BY PartsOf DEF Typed, TypeOK, Footing, Names, Places
<1>1. odd \subseteq odd'
  BY DEF ThreadStep, Fetch, FetchFails, Save, Saved, SaveFails, Fails, Open, Write, BackUp,
         BackUpFails, Place, PlaceFails, Clean, AfterSave, noted
<1>2. Plain /\ OneUpdates /\ Remains
  BY <1>1 DEF Plain, UpdateInv
<1>3. ASSUME UNCHANGED <<names, files, reported>> PROVE Remains'
  BY <1>3, <1>2 DEF Remains, Kept, Good, Version
<1>4. c.at \in Working => Applying(t) /\ c.latest # Nothing
  BY <1>0 DEF Local, Applying, Working
<1>5. Applying(t) => Progress(t)
  BY <1>2 DEF OneUpdates
(* Before the download. *)
<1>6. ASSUME NEW place \in {"save", "saving"}, Goes(t, place), c.at \notin {"idle"},
             UNCHANGED <<names, files, reported>>
      PROVE  OneUpdates' /\ Remains'
  <2>1. /\ \A u \in Threads \ {t} : thread'[u] = thread[u]
        /\ d.at = place /\ d.op = c.op /\ d.latest = c.latest
    BY <1>0, <1>6, GoesIs
  <2>2. Applying(t)' => Applying(t) /\ Progress(t)'
    BY <1>5, <1>6, <2>1 DEF Applying, Progress, Working
  <2> QED BY <1>2, <1>3, <1>6, <2>1, <2>2, OthersUpdate
<1>7. CASE FetchFails(t)
  BY <1>6, <1>7 DEF FetchFails, At, disk, noted
<1>8. CASE Save(t)
  BY <1>6, <1>8 DEF Save, At, disk, noted
<1>9. CASE Fetch(t)
  <2>1. /\ \A u \in Threads \ {t} : thread'[u] = thread[u]
        /\ c.at = "fetch" /\ d.at = "save" /\ d.op = c.op
        /\ d.latest # Nothing => d.latest \in Newer(t) /\ \A v \in Newer(t) : v <= d.latest
    BY <1>9, FetchIs
  <2>2. UNCHANGED <<names, files, reported>>
    BY <1>9 DEF Fetch, disk, noted
  <2>3. runs[t[1]] \in Files
    <3>1. t[1] \in Processes
      BY DEF Threads
    <3> QED BY <1>0, <2>1, <3>1 DEF Local, TypeOK
  <2>4. Version(runs[t[1]]) \in Nat /\ Version(runs[t[1]]) >= First
    BY <1>0, <2>3, VersionIs
  <2>5. d.latest # Nothing => d.latest >= reported
    <3>1. ASSUME d.latest # Nothing PROVE d.latest >= reported
      <4>1. d.latest \in Nat /\ d.latest > Version(runs[t[1]]) /\ \A v \in Newer(t) : v <= d.latest
        BY <1>0, <2>1, <3>1, Constants DEF Newer, TypeOK
      <4>2. CASE reported \in published /\ reported > Version(runs[t[1]])
        <5>1. reported \in Newer(t)
          BY <4>2 DEF Newer
        <5> QED BY <1>0, <4>1, <5>1
      <4>3. CASE reported = First \/ ~(reported > Version(runs[t[1]]))
        BY <1>0, <2>4, <4>1, <4>3, Constants
      <4> QED BY <1>0, <4>2, <4>3 DEF Stored
    <3> QED BY <3>1
  <2>6. Applying(t)' => Applying(t) /\ Progress(t)'
    BY <2>1, <2>2, <2>5 DEF Applying, Progress, Working
  <2> QED BY <1>2, <1>3, <2>1, <2>2, <2>6, OthersUpdate
<1>10. ASSUME NEW what, AfterSave(t, what), c.at \in {"save", "saving"},
              UNCHANGED <<names, files, reported>>
       PROVE  OneUpdates' /\ Remains'
  <2>1. /\ \A u \in Threads \ {t} : thread'[u] = thread[u]
        /\ \/ /\ c.op = "apply" /\ d.at = "download" /\ d.op = "apply" /\ d.latest = c.latest
              /\ d.target = "installed" \/ "astray" \in odd'
           \/ d.at = "idle"
    BY <1>0, <1>10, AfterSaveIs
  <2>2. "astray" \notin odd'
    BY DEF Plain
  <2>3. Applying(t)' => Applying(t) /\ Progress(t)'
    BY <1>5, <1>10, <2>1, <2>2 DEF Applying, Progress, Working
  <2> QED BY <1>2, <1>3, <1>10, <2>1, <2>3, OthersUpdate
<1>11. CASE Saved(t)
  BY <1>10, <1>11 DEF Saved, At, disk
<1>12. CASE SaveFails(t)
  BY <1>10, <1>12 DEF SaveFails, disk
(* It ends. *)
<1>13. ASSUME Step(t, Idle), c.at \in Working PROVE OneUpdates'
  <2>1. (\A u \in Threads \ {t} : thread'[u] = thread[u]) /\ d.at = "idle"
    BY <1>0, <1>13, RestIs
  <2>2. ~Applying(t)' /\ Applying(t)
    BY <1>4, <1>13, <2>1 DEF Applying
  <2> QED BY <1>2, <2>1, <2>2, OthersUpdate
<1>14. CASE Fails(t)
  BY <1>3, <1>13, <1>14 DEF Fails, Working, disk, noted
<1>15. ASSUME c.at \in Working PROVE c.target = "installed" /\ c.latest >= reported
  BY <1>4, <1>5, <1>15 DEF Progress
<1>16. CASE Open(t)
  <2> DEFINE file == IF names.tmp = NoFile THEN updates + 2 ELSE names.tmp
  <2>1. /\ \A u \in Threads \ {t} : thread'[u] = thread[u]
        /\ c.at = "download" /\ d.at = "writing" /\ d.op = c.op
        /\ d.latest = c.latest /\ d.target = c.target /\ d.file = file
        /\ file \in Files /\ names' = [names EXCEPT !["tmp"] = file]
        /\ files'[file] = [versions |-> {c.latest}, by |-> t[1], whole |-> FALSE]
        /\ \A f \in Files \ {file} : files'[f] = files[f]
    BY <1>0, <1>16, OpenIs
  <2>2. Stored' /\ reported' = reported
    BY <1>16, ThreadStored DEF Open, noted
  <2> HIDE DEF file
  <2>3. file # NoFile
    BY <2>1 DEF Files, NoFile
  <2>4. ASSUME NEW n \in {"installed", "old"}
        PROVE  names'[n] = names[n] /\ (Kept(n) => Kept(n)')
    <3>1. names'[n] = names[n] /\ names'["tmp"] = file
      BY <1>0, <2>1
    <3>2. names[n] # file
      BY <1>0, <2>2, <2>3, <3>1 DEF Stored, Apart
    <3>3. Kept(n) => names[n] \in Files
      BY <1>0, KeptHasName
    <3>4. Kept(n) => files'[names[n]] = files[names[n]]
      BY <2>1, <3>2, <3>3
    <3>5. n \in Names
      BY <1>0
    <3> QED BY <2>2, <3>1, <3>4, <3>5, KeptStays
  <2>5. Remains'
    BY <1>2, <2>4 DEF Remains
  <2>6. files'[file].versions = {c.latest} /\ files'[file].by = t[1] /\ names'["tmp"] = file
    BY <1>0, <2>1
  <2>7. Applying(t) /\ c.target = "installed" /\ c.latest >= reported
    BY <1>4, <1>15, <2>1 DEF Working
  <2>8. Progress(t)'
    BY <2>1, <2>2, <2>6, <2>7 DEF Progress
  <2> QED BY <1>2, <2>1, <2>5, <2>7, <2>8, OthersUpdate
<1>17. CASE Write(t)
  <2>1. /\ \A u \in Threads \ {t} : thread'[u] = thread[u]
        /\ c.at = "writing" /\ d.at = "backup" /\ d.op = c.op
        /\ d.latest = c.latest /\ d.target = c.target /\ d.file = c.file
    BY <1>0, <1>17, GoesIs DEF Write, At
  <2>2. Applying(t) /\ c.target = "installed" /\ c.latest >= reported
    BY <1>4, <1>15, <2>1 DEF Working
  <2>3. c.file \in Files /\ names.tmp = c.file /\ files[c.file].versions = {c.latest} /\ files[c.file].by = t[1]
    BY <1>0, <1>5, <2>1, <2>2 DEF Progress, Local
  <2>4. /\ files'[c.file].versions = {c.latest} /\ files'[c.file].whole
        /\ \A g \in Files \ {c.file} : files'[g] = files[g]
        /\ names' = names /\ reported' = reported
    BY <1>0, <1>17, <2>3, WriteIs DEF Write, noted
  <2>5. ASSUME NEW n \in {"installed", "old"} PROVE Kept(n) => Kept(n)'
    <3>1. Kept(n) => names[n] # c.file /\ names[n] \in Files
      BY <1>0, <2>3, KeptHasName DEF Stored, Apart
    <3>2. n \in Names
      BY <1>0
    <3> QED BY <2>4, <3>1, <3>2, KeptStays
  <2>6. Remains'
    BY <1>2, <2>4, <2>5 DEF Remains
  <2>7. Holds("tmp", c.latest)'
    BY <1>0, <2>1, <2>3, <2>4 DEF Holds, Files, NoFile
  <2>8. Progress(t)'
    BY <2>1, <2>2, <2>4, <2>7 DEF Progress
  <2> QED BY <1>2, <2>1, <2>2, <2>6, <2>8, OthersUpdate
<1>18. CASE BackUp(t)
  <2>1. /\ \A u \in Threads \ {t} : thread'[u] = thread[u]
        /\ c.at = "backup" /\ d.at = "place" /\ d.op = c.op
        /\ d.latest = c.latest /\ d.target = c.target
    BY <1>0, <1>18, GoesIs DEF BackUp, At
  <2>2. Applying(t) /\ c.target = "installed" /\ c.latest >= reported /\ Holds("tmp", c.latest)
    BY <1>4, <1>5, <1>15, <2>1 DEF Working, Progress
  <2>3. /\ files' = files /\ reported' = reported
        /\ names' = IF names["installed"] = NoFile THEN names ELSE Renamed("installed", "old")
    BY <1>18, <2>2 DEF BackUp, noted
  <2>4. names'["installed"] = NoFile /\ names'["tmp"] = names["tmp"]
    BY <1>0, <2>3 DEF Renamed
  <2>5. Kept("old")'
    <3>1. CASE names["installed"] = NoFile
      <4>1. Kept("old") /\ names' = names
        BY <1>0, <1>2, <2>3, <3>1, KeptHasName DEF Remains
      <4> QED BY <1>0, <2>3, <4>1, KeptStays
    <3>2. CASE names["installed"] # NoFile
      <4>1. Kept("installed") /\ names'["old"] = names["installed"]
        BY <1>0, <1>2, <2>3, <3>2 DEF Remains, Renamed
      <4> QED BY <1>0, <2>3, <4>1, KeptStays
    <3> QED BY <3>1, <3>2
  <2>6. Remains'
    BY <2>4, <2>5 DEF Remains
  <2>7. Holds("tmp", c.latest)'
    BY <2>1, <2>2, <2>3, <2>4 DEF Holds
  <2>8. Progress(t)'
    BY <2>1, <2>2, <2>3, <2>4, <2>7 DEF Progress
  <2> QED BY <1>2, <2>1, <2>2, <2>6, <2>8, OthersUpdate
<1>19. CASE BackUpFails(t)
  BY <1>19 DEF BackUpFails, Plain
<1>20. CASE Place(t)
  <2>1. /\ \A u \in Threads \ {t} : thread'[u] = thread[u]
        /\ c.at = "place" /\ d.at = "clean" /\ d.op = c.op
        /\ d.latest = c.latest /\ d.target = c.target
    BY <1>0, <1>20, GoesIs DEF Place, At
  <2>2. Applying(t) /\ c.target = "installed" /\ c.latest >= reported /\ Holds("tmp", c.latest)
    BY <1>4, <1>5, <1>15, <2>1 DEF Working, Progress
  <2>3. files' = files /\ reported' = reported /\ names'["installed"] = names["tmp"]
    BY <1>0, <1>20, <2>2 DEF Place, Renamed, noted
  <2>4. PICK v \in Nat : v = c.latest
    BY <1>0
  <2>5. Holds("installed", v)'
    BY <2>2, <2>3, <2>4 DEF Holds
  <2>6. Kept("installed")'
    BY <1>0, <2>2, <2>3, <2>4, <2>5, HeldIsKept
  <2>7. Remains'
    BY <2>6 DEF Remains
  <2>8. Progress(t)'
    BY <2>1, <2>2, <2>3, <2>4, <2>5 DEF Progress
  <2> QED BY <1>2, <2>1, <2>2, <2>7, <2>8, OthersUpdate
<1>21. CASE PlaceFails(t)
  <2>1. c.at = "place" /\ OneUpdates'
    BY <1>13, <1>21 DEF PlaceFails, At, Working
  <2>2. Applying(t) /\ c.target = "installed" /\ names["installed"] = NoFile
    BY <1>4, <1>5, <1>15, <2>1 DEF Working, Progress
  <2>3. Kept("old")
    BY <1>0, <1>2, <2>2, KeptHasName DEF Remains
  <2>4. /\ files' = files /\ reported' = reported
        /\ names' = names \/ names' = Renamed("old", "installed")
    BY <1>21, <2>2 DEF PlaceFails, Restored, noted
  <2>5. CASE names' = names
    BY <1>3, <2>1, <2>4, <2>5
  <2>6. CASE names' = Renamed("old", "installed")
    <3>1. names'["installed"] = names["old"]
      BY <1>0, <2>6 DEF Renamed
    <3>2. Kept("installed")'
      BY <1>0, <2>3, <2>4, <3>1, KeptStays
    <3> QED BY <2>1, <3>2 DEF Remains
  <2> QED BY <2>4, <2>5, <2>6
<1>22. CASE Clean(t)
  <2>1. c.at = "clean" /\ OneUpdates'
    BY <1>13, <1>22 DEF Clean, At, Working
  <2>2. Applying(t) /\ c.latest >= reported /\ Holds("installed", c.latest)
    BY <1>4, <1>5, <1>15, <2>1 DEF Working, Progress
  <2>3. /\ files' = files /\ names'["installed"] = names["installed"]
        /\ reported' = c.latest
    <3>1. files' = files /\ names' \in {names, [names EXCEPT !.old = NoFile]}
      BY <1>22 DEF Clean
    <3>2. reported' = IF c.latest > reported THEN c.latest ELSE reported
      BY <1>22 DEF Clean
    <3> QED BY <1>0, <2>2, <3>1, <3>2
  <2>4. PICK v \in Nat : v = c.latest
    BY <1>0
  <2>5. Holds("installed", v)'
    BY <2>2, <2>3, <2>4 DEF Holds
  <2>6. Kept("installed")'
    BY <1>0, <2>3, <2>4, <2>5, HeldIsKept
  <2> QED BY <2>1, <2>6 DEF Remains
<1> QED BY <1>7, <1>8, <1>9, <1>11, <1>12, <1>14, <1>16, <1>17, <1>18, <1>19, <1>20, <1>21, <1>22
        DEF ThreadStep


(* A thread that begins to update is the only one; the rest is as it was.   *)
LEMMA CalmUpdate ==
    ASSUME UpdateInv, odd \subseteq odd', UNCHANGED <<names, files, reported>>,
           \A u \in Threads : Plain' /\ Applying(u)' =>
              \/ thread'[u] = thread[u]
              \/ /\ thread'[u].at = "fetch" /\ thread'[u].latest = Nothing
                 /\ \A w \in Threads \ {u} : ~Applying(w)'
    PROVE  UpdateInv'
<1> SUFFICES ASSUME Plain' PROVE OneUpdates' /\ Remains'
  BY DEF UpdateInv
<1>1. OneUpdates /\ Remains
  BY DEF UpdateInv, Plain
<1>2. Remains'
  BY <1>1 DEF Remains, Kept, Good, Version
<1>3. ASSUME NEW u \in Threads, NEW w \in Threads, Applying(u)', Applying(w)' PROVE u = w
  <2>1. CASE thread'[u] = thread[u] /\ thread'[w] = thread[w]
    BY <1>1, <1>3, <2>1 DEF OneUpdates, Applying
  <2> QED BY <1>3, <2>1
<1>4. ASSUME NEW u \in Threads, Applying(u)' PROVE Progress(u)'
  <2>1. CASE thread'[u] = thread[u]
    <3>1. Progress(u)
      BY <1>1, <1>4, <2>1 DEF OneUpdates, Applying
    <3> QED BY <2>1, <3>1 DEF Progress, Holds
  <2>2. CASE thread'[u].at = "fetch" /\ thread'[u].latest = Nothing
    BY <2>2 DEF Progress, Working
  <2> QED BY <1>4, <2>1, <2>2
<1> QED BY <1>2, <1>3, <1>4 DEF OneUpdates

LEMMA NextUpdate == Typed /\ Footing /\ UpdateInv /\ [Next]_vars => UpdateInv'
<1> SUFFICES ASSUME Typed, Footing, UpdateInv, [Next]_vars PROVE UpdateInv'
  OBVIOUS
<1>1. ASSUME NEW p \in Processes, StartSession(p) PROVE UpdateInv'
  <2>1. /\ \A u \in Threads : u[1] # p => thread'[u] = thread[u]
        /\ thread'[<<p, "main">>] = Idle
        /\ thread'[<<p, "background">>] \in {Idle, Begun("check")}
        /\ odd \subseteq odd'
    BY <1>1, StartIs
  <2>2. Idle.op # "apply" /\ Begun("check").op # "apply"
    BY IdleIs, BegunIs, LoadedIs DEF Typed
  <2>3. ASSUME NEW u \in Threads, Applying(u)' PROVE thread'[u] = thread[u]
    <3>1. u = <<p, "main">> \/ u = <<p, "background">> \/ u[1] # p
      BY DEF Threads, Roles
    <3> QED BY <2>1, <2>2, <2>3, <3>1 DEF Applying
  <2>4. UNCHANGED <<names, files, reported>>
    BY <1>1 DEF StartSession, disk
  <2> QED BY <2>1, <2>3, <2>4, CalmUpdate
<1>2. ASSUME NEW p \in Processes, NEW op \in {"check", "dismiss", "apply"}, Begin(p, op)
      PROVE  UpdateInv'
  <2> DEFINE t == <<p, "main">>
  <2>1. /\ t \in Threads /\ \A u \in Threads \ {t} : thread'[u] = thread[u]
        /\ thread'[t] = Begun(op) /\ odd' = odd \cup Meets(t, op)
        /\ UNCHANGED <<names, files, reported>>
    BY <1>2, BeginIs DEF disk
  <2>2. /\ Begun(op).op = op /\ Begun(op).latest = Nothing
        /\ op = "apply" => Begun(op).at = "fetch"
    BY BegunIs, LoadedIs DEF Typed
  <2> HIDE DEF t
  <2>3. ASSUME Plain', NEW u \in Threads, Applying(u)'
        PROVE  \/ thread'[u] = thread[u]
               \/ /\ thread'[u].at = "fetch" /\ thread'[u].latest = Nothing
                  /\ \A w \in Threads \ {u} : ~Applying(w)'
    <3>1. CASE u # t
      BY <2>1, <3>1
    <3>2. CASE u = t
      <4>1. op = "apply" /\ thread'[u].at = "fetch" /\ thread'[u].latest = Nothing
        BY <2>1, <2>2, <2>3, <3>2 DEF Applying
      <4>2. "overlap" \notin Meets(t, op)
        BY <2>1, <2>3 DEF Plain
      <4>3. \A w \in Threads \ {t} : ~Applying(w)
        BY <4>1, <4>2 DEF Meets
      <4> QED BY <2>1, <3>2, <4>1, <4>3 DEF Applying
    <3> QED BY <3>1, <3>2
  <2>4. odd \subseteq odd'
    BY <2>1
  <2> QED BY <2>1, <2>3, <2>4, CalmUpdate
<1>3. ASSUME NEW p \in Processes, End(p) PROVE UpdateInv'
  <2>1. \A u \in Threads : thread'[u] = Off \/ thread'[u] = thread[u]
    BY <1>3 DEF End
  <2>2. Off.op # "apply"
    BY DEF Off
  <2>3. UNCHANGED <<names, files, reported>> /\ odd \subseteq odd'
    BY <1>3 DEF End, disk
  <2>4. \A u \in Threads : Applying(u)' => thread'[u] = thread[u]
    BY <2>1, <2>2 DEF Applying
  <2> QED BY <2>3, <2>4, CalmUpdate
<1>4. ASSUME NEW v \in Releases, Publish(v) PROVE UpdateInv'
  BY <1>4, CalmUpdate DEF Publish, disk, noted
<1>5. CASE UNCHANGED vars
  BY <1>5, CalmUpdate DEF vars, disk, noted
<1>6. ASSUME NEW t \in Threads, ThreadStep(t) PROVE UpdateInv'
  BY <1>6, ThreadUpdate DEF UpdateInv
<1> QED BY <1>1, <1>2, <1>3, <1>4, <1>5, <1>6 DEF Next, Check, Apply, Dismiss

LEMMA InitUpdate == Init => UpdateInv
<1> SUFFICES ASSUME Init PROVE OneUpdates /\ Remains
  BY DEF UpdateInv
<1>1. \A t \in Threads : ~Applying(t)
  <2>1. \A t \in Threads : thread[t] = Off
    BY DEF Init
  <2> QED BY <2>1 DEF Applying, Off
<1>2. names["installed"] = 1 /\ 1 \in Files
  <2>1. MaxUpdates \in Nat
    BY Constants
  <2>2. names["installed"] = 1
    BY DEF Init, Names
  <2> QED BY <2>1, <2>2 DEF Files
<1>3. files[1] = [versions |-> {First}, by |-> "setup", whole |-> TRUE]
  BY <1>2 DEF Init
<1>4. Version(1) = First /\ Cardinality(files[1].versions) = 1
  <2>1. files[1].versions = {First}
    BY <1>3
  <2>2. Cardinality({First}) = 1
    BY FS_Singleton
  <2>3. Version(1) = First
    BY <2>1 DEF Version
  <2> QED BY <2>1, <2>2, <2>3
<1>5. Kept("installed")
  <2>1. reported = First /\ First \in Nat
    BY Constants DEF Init
  <2>2. files[1].whole
    BY <1>3
  <2> QED BY <1>2, <1>4, <2>1, <2>2 DEF Kept, Good, NoFile
<1> QED BY <1>1, <1>5 DEF OneUpdates, Remains

(* However an update is cut short, and whatever else the processes of a user *)
(* do, a whole binary is left at its place or as the backup, no older than   *)
(* what a user was told is installed, and what is at its place is whole.     *)
THEOREM BinaryStays == Spec => []ABinaryRemains
<1>1. Typed /\ Footing /\ UpdateInv /\ [Next]_vars => UpdateInv'
  BY NextUpdate
<1>2. UpdateInv => ABinaryRemains
  BY DEF UpdateInv, Plain, Remains, ABinaryRemains
<1> QED BY <1>1, <1>2, InitUpdate, TypedHolds, FootingHolds, PTL DEF Spec


(***************************************************************************)
(* One check at a time, which is brought to its end.                       *)
(***************************************************************************)
Calm == odd \cap {"shared", "lost"} = {}

(* A state tells of all that was dismissed. *)
Sound(s) ==
    /\ \A v \in silenced : v <= s.dismissed
    /\ s.dismissed <= s.seen /\ s.seen \in published \cup {Nothing}

(* What the thread that checks has in hand. *)
InHand(t) ==
    LET c == thread[t] IN
    /\ Sound(c.state)
    /\ c.op = "dismiss" => c.state.dismissed = c.state.seen
    /\ c.at = "fetch" => c.op # "dismiss" /\ c.latest = Nothing
    /\ c.latest # Nothing => c.op # "dismiss" /\ c.state.dismissed <= c.latest
    /\ c.at = "saving" => stateFile = Torn

OneChecks ==
    /\ \A t, u \in Threads : Checking(t) /\ Checking(u) => t = u
    /\ stateFile = Torn => \E t \in Threads : thread[t].at = "saving"
    /\ \A s \in stateFile : Sound(s)
    /\ \A t \in Threads : Checking(t) => InHand(t)

StateInv == Calm => OneChecks

LEMMA SoundStays ==
    ASSUME NEW s, Sound(s), silenced' \subseteq silenced, published \subseteq published'
    PROVE  /\ \A v \in silenced' : v <= s.dismissed
           /\ s.dismissed <= s.seen /\ s.seen \in published' \cup {Nothing}
BY DEF Sound

(* Only a thread that begins loads the state, and nobody saves meanwhile.   *)
LEMMA CheckStays ==
    ASSUME Typed, StateInv, odd \subseteq odd', UNCHANGED <<stateFile, silenced>>,
           published \subseteq published',
           \A u \in Threads : Calm' /\ Checking(u)' =>
              \/ thread'[u] = thread[u]
              \/ /\ \E op \in {"check", "dismiss", "apply"} : thread'[u] = Begun(op)
                 /\ \A w \in Threads : ~Checking(w)
                 /\ \A w \in Threads \ {u} : ~Checking(w)',
           \A u \in Threads : Calm' /\ thread[u].at = "saving" => thread'[u] = thread[u]
    PROVE  StateInv'
<1> SUFFICES ASSUME Calm' PROVE OneChecks'
  BY DEF StateInv
<1>1. OneChecks
  BY DEF StateInv, Calm
<1>2. ASSUME NEW u \in Threads, NEW w \in Threads, Checking(u)', Checking(w)' PROVE u = w
  <2>1. CASE thread'[u] = thread[u] /\ thread'[w] = thread[w]
    BY <1>1, <1>2, <2>1 DEF OneChecks, Checking
  <2> QED BY <1>2, <2>1
<1>3. stateFile' = Torn => \E t \in Threads : thread'[t].at = "saving"
  BY <1>1 DEF OneChecks
<1>4. ASSUME NEW s \in stateFile' PROVE Sound(s)'
  <2>1. Sound(s)
    BY <1>1, <1>4 DEF OneChecks
  <2> QED BY <2>1, SoundStays DEF Sound
<1>5. ASSUME NEW u \in Threads, Checking(u)' PROVE InHand(u)'
  <2>1. CASE thread'[u] = thread[u]
    <3>1. InHand(u)
      BY <1>1, <1>5, <2>1 DEF OneChecks, Checking
    <3>2. Sound(thread[u].state)
      BY <3>1 DEF InHand
    <3>3. Sound(thread[u].state)'
      BY <2>1, <3>2, SoundStays DEF Sound
    <3> QED BY <2>1, <3>1, <3>3 DEF InHand
  <2>2. ASSUME NEW op \in {"check", "dismiss", "apply"}, thread'[u] = Begun(op),
               \A w \in Threads : ~Checking(w)
        PROVE  InHand(u)'
    <3>1. \A w \in Threads : thread[w].at # "saving"
      BY <2>2 DEF Checking
    <3>2. PICK s \in State : stateFile = {s}
      BY <1>1, <3>1 DEF OneChecks, Typed, Readable
    <3>3. Loaded = s /\ Loaded \in State
      BY <3>2, LoadedIs DEF Typed
    <3>4. Sound(Loaded)
      BY <1>1, <3>2, <3>3 DEF OneChecks
    <3>5. Loaded.seen \in Nat /\ Loaded.dismissed \in Nat
      BY <3>3 DEF State
    <3>6. /\ thread'[u].at = IF op = "dismiss" THEN "save" ELSE "fetch"
          /\ thread'[u].op = op /\ thread'[u].latest = Nothing
          /\ thread'[u].state.seen = Loaded.seen
          /\ thread'[u].state.dismissed = IF op = "dismiss" THEN Loaded.seen ELSE Loaded.dismissed
      BY <2>2, <3>3, BegunIs
    <3>7. \A v \in silenced : v \in Nat
      BY DEF Typed, TypeOK
    <3>8. /\ \A v \in silenced : v <= Loaded.dismissed
          /\ Loaded.dismissed <= Loaded.seen /\ Loaded.seen \in published \cup {Nothing}
      BY <3>4 DEF Sound
    <3>9. Sound(thread[u].state)'
      BY <3>5, <3>6, <3>7, <3>8 DEF Sound
    <3> QED BY <3>6, <3>9 DEF InHand
  <2> QED BY <1>5, <2>1, <2>2
<1> QED BY <1>2, <1>3, <1>4, <1>5 DEF OneChecks


LEMMA ThreadCheck ==
    ASSUME Typed, Footing, StateInv, NEW t \in Threads, ThreadStep(t)
    PROVE  StateInv'
<1> SUFFICES ASSUME Calm' PROVE OneChecks'
  BY DEF StateInv
<1> DEFINE c == thread[t]
           d == thread'[t]
<1>0. /\ TypeOK /\ Stored /\ Local(t) /\ thread \in [Threads -> Thread] /\ c \in Thread
      /\ c.latest \in Nat /\ c.state \in State /\ published \subseteq Nat /\ silenced \subseteq Nat
      /\ {"save", "saving", "backup", "place", "clean"} \subseteq Places
  BY PartsOf, Constants DEF Typed, TypeOK, Footing, Places
<1>1. odd \subseteq odd' /\ published' = published
  BY DEF ThreadStep, Fetch, FetchFails, Save, Saved, SaveFails, Fails, Open, Write, BackUp,
         BackUpFails, Place, PlaceFails, Clean, AfterSave, noted
<1>2. Calm /\ OneChecks
  BY <1>1 DEF Calm, StateInv
<1>3. Checking(t) => InHand(t) /\ \A u \in Threads \ {t} : ~Checking(u)
  BY <1>2 DEF OneChecks
(* The steps of an update. *)
<1>4. ASSUME \A u \in Threads \ {t} : thread'[u] = thread[u], ~Checking(t), ~Checking(t)',
             UNCHANGED <<stateFile, silenced>>
      PROVE  OneChecks'
  <2>1. \A u \in Threads : Checking(u)' => thread'[u] = thread[u]
    BY <1>4
  <2>2. \A u \in Threads : thread[u].at = "saving" => thread'[u] = thread[u]
    BY <1>4 DEF Checking
  <2>3. StateInv'
    BY <1>1, <1>4, <2>1, <2>2, CheckStays
  <2> QED BY <2>3 DEF StateInv
<1>5. ASSUME NEW place \in {"backup", "place", "clean"}, Goes(t, place), ~Checking(t),
             UNCHANGED <<stateFile, silenced>>
      PROVE  OneChecks'
  <2>1. (\A u \in Threads \ {t} : thread'[u] = thread[u]) /\ d.at = place
    BY <1>0, <1>5, GoesIs
  <2>2. ~Checking(t)'
    BY <2>1 DEF Checking
  <2> QED BY <1>4, <1>5, <2>1, <2>2
<1>6. ASSUME Step(t, Idle), ~Checking(t), UNCHANGED <<stateFile, silenced>> PROVE OneChecks'
  <2>1. (\A u \in Threads \ {t} : thread'[u] = thread[u]) /\ d.at = "idle"
    BY <1>0, <1>6, RestIs
  <2>2. ~Checking(t)'
    BY <2>1 DEF Checking
  <2> QED BY <1>4, <1>6, <2>1, <2>2
<1>7. CASE Fails(t)
  BY <1>6, <1>7 DEF Fails, Checking, noted
<1>8. CASE Open(t)
  <2>1. /\ \A u \in Threads \ {t} : thread'[u] = thread[u]
        /\ c.at = "download" /\ d.at = "writing"
    BY <1>0, <1>8, OpenIs
  <2>2. ~Checking(t) /\ ~Checking(t)'
    BY <2>1 DEF Checking
  <2> QED BY <1>4, <1>8, <2>1, <2>2 DEF Open, noted
<1>9. CASE Write(t)
  BY <1>5, <1>9 DEF Write, At, Checking, noted
<1>10. CASE BackUp(t)
  BY <1>5, <1>10 DEF BackUp, At, Checking, noted
<1>11. CASE BackUpFails(t)
  BY <1>5, <1>11 DEF BackUpFails, At, Checking
<1>12. CASE Place(t)
  BY <1>5, <1>12 DEF Place, At, Checking, noted
<1>13. CASE PlaceFails(t)
  BY <1>6, <1>13 DEF PlaceFails, At, Checking, noted
<1>14. CASE Clean(t)
  BY <1>6, <1>14 DEF Clean, At, Checking
(* The steps of a check: the thread is the only one at it. *)
<1>15. ASSUME \A u \in Threads \ {t} : thread'[u] = thread[u], Checking(t), InHand(t)',
              stateFile' = Torn => d.at = "saving", \A s \in stateFile' : Sound(s)'
       PROVE  OneChecks'
  <2>1. \A u \in Threads \ {t} : ~Checking(u)'
    BY <1>3, <1>15 DEF Checking
  <2>2. \A u, w \in Threads : Checking(u)' /\ Checking(w)' => u = w
    BY <2>1
  <2>3. \A u \in Threads : Checking(u)' => InHand(u)'
    BY <1>15, <2>1
  <2>4. stateFile' = Torn => \E u \in Threads : thread'[u].at = "saving"
    BY <1>15
  <2> QED BY <1>15, <2>2, <2>3, <2>4 DEF OneChecks
<1>16. ASSUME Checking(t), c.at # "saving" PROVE stateFile # Torn
  <2>1. \A u \in Threads : thread[u].at # "saving"
    BY <1>3, <1>16 DEF Checking
  <2> QED BY <1>2, <2>1 DEF OneChecks
<1>17. ASSUME UNCHANGED <<stateFile, silenced>> PROVE \A s \in stateFile' : Sound(s)'
  BY <1>1, <1>2, <1>17 DEF OneChecks, Sound
<1>18. CASE Fetch(t)
  <2>1. /\ \A u \in Threads \ {t} : thread'[u] = thread[u]
        /\ c.at = "fetch" /\ d.at = "save" /\ d.op = c.op
        /\ d.state.dismissed = c.state.dismissed
        /\ d.latest # Nothing => d.latest \in Newer(t) /\ \A v \in Newer(t) : v <= d.latest
        /\ d.state.seen = IF d.latest = Nothing THEN c.state.seen ELSE d.latest
    BY <1>18, FetchIs
  <2>2. Checking(t) /\ InHand(t)
    BY <1>3, <2>1 DEF Checking
  <2>3. UNCHANGED <<stateFile, silenced>>
    BY <1>18 DEF Fetch, noted
  <2>4. Version(runs[t[1]]) \in Nat
    <3>1. t[1] \in Processes
      BY DEF Threads
    <3>2. runs[t[1]] \in Files
      BY <1>0, <2>1, <3>1 DEF Local, TypeOK
    <3> QED BY <1>0, <3>2, VersionIs
  <2>5. d.latest # Nothing => d.latest \in published /\ c.state.dismissed <= d.latest
    <3>1. ASSUME d.latest # Nothing PROVE d.latest \in published /\ c.state.dismissed <= d.latest
      <4>1. d.latest \in published /\ d.latest > Version(runs[t[1]]) /\ \A v \in Newer(t) : v <= d.latest
        BY <2>1, <3>1 DEF Newer
      <4>2. /\ c.state.dismissed \in Nat /\ c.state.seen \in Nat /\ d.latest \in Nat
            /\ c.state.dismissed <= c.state.seen /\ c.state.seen \in published \cup {Nothing}
        BY <1>0, <2>2, <4>1 DEF InHand, Sound, State
      <4>3. CASE c.state.seen \in published /\ c.state.seen > Version(runs[t[1]])
        <5>1. c.state.seen \in Newer(t)
          BY <4>3 DEF Newer
        <5> QED BY <4>1, <4>2, <5>1
      <4>4. CASE c.state.seen = Nothing \/ ~(c.state.seen > Version(runs[t[1]]))
        BY <2>4, <4>1, <4>2, <4>4 DEF Nothing
      <4> QED BY <4>2, <4>3, <4>4
    <3> QED BY <3>1
  <2>6. Sound(c.state) /\ c.op # "dismiss"
    BY <2>1, <2>2 DEF InHand
  <2>7. Sound(thread[t].state)'
    BY <1>1, <2>1, <2>3, <2>5, <2>6 DEF Sound
  <2>8. InHand(t)'
    BY <2>1, <2>5, <2>6, <2>7 DEF InHand
  <2> QED BY <1>15, <1>16, <1>17, <2>1, <2>2, <2>3, <2>8
<1>19. CASE FetchFails(t)
  <2>1. /\ \A u \in Threads \ {t} : thread'[u] = thread[u]
        /\ c.at = "fetch" /\ d.at = "save" /\ d.op = c.op /\ d.state = c.state /\ d.latest = c.latest
    BY <1>0, <1>19, GoesIs DEF FetchFails, At
  <2>2. Checking(t) /\ InHand(t)
    BY <1>3, <2>1 DEF Checking
  <2>3. UNCHANGED <<stateFile, silenced>>
    BY <1>19 DEF FetchFails, noted
  <2>4. InHand(t)'
    BY <1>1, <2>1, <2>2, <2>3 DEF InHand, Sound
  <2> QED BY <1>15, <1>16, <1>17, <2>1, <2>2, <2>3, <2>4
<1>20. CASE Save(t)
  <2>1. /\ \A u \in Threads \ {t} : thread'[u] = thread[u]
        /\ c.at = "save" /\ d.at = "saving" /\ d.op = c.op /\ d.state = c.state /\ d.latest = c.latest
    BY <1>0, <1>20, GoesIs DEF Save, At
  <2>2. Checking(t) /\ InHand(t)
    BY <1>3, <2>1 DEF Checking
  <2>3. stateFile' = Torn /\ silenced' = silenced
    BY <1>20 DEF Save, noted
  <2>4. InHand(t)'
    BY <1>1, <2>1, <2>2, <2>3 DEF InHand, Sound
  <2>5. \A s \in stateFile' : Sound(s)'
    BY <2>3 DEF Torn
  <2> QED BY <1>15, <2>1, <2>2, <2>4, <2>5
<1>21. CASE Saved(t)
  <2>1. c.at = "saving" /\ AfterSave(t, {})
    BY <1>21 DEF Saved, At
  <2>2. Checking(t) /\ InHand(t) /\ stateFile = Torn
    BY <1>3, <2>1 DEF Checking, InHand
  <2>3. (\A u \in Threads \ {t} : thread'[u] = thread[u]) /\ d.at \in {"download", "idle"}
    BY <1>0, <2>1, AfterSaveIs
  <2>4. \A u \in Threads : ~Checking(u)'
    BY <1>3, <2>2, <2>3 DEF Checking
  <2>5. /\ stateFile' = {c.state}
        /\ silenced' \subseteq silenced \cup {c.state.dismissed}
    BY <1>21, <2>2 DEF Saved
  <2>6. c.state.dismissed \in Nat
    BY <1>0 DEF State
  <2>7. /\ \A v \in silenced' : v <= c.state.dismissed
        /\ c.state.dismissed <= c.state.seen /\ c.state.seen \in published \cup {Nothing}
    BY <1>0, <2>2, <2>5, <2>6 DEF InHand, Sound
  <2>8. \A s \in stateFile' : Sound(s)'
    BY <1>1, <2>5, <2>7 DEF Sound
  <2>9. stateFile' # Torn
    BY <2>5 DEF Torn
  <2> QED BY <2>4, <2>8, <2>9 DEF OneChecks
<1>22. CASE SaveFails(t)
  <2>1. "lost" \in odd'
    BY <1>22 DEF SaveFails, AfterSave
  <2> QED BY <2>1 DEF Calm
<1> QED BY <1>7, <1>8, <1>9, <1>10, <1>11, <1>12, <1>13, <1>14, <1>18, <1>19, <1>20, <1>21, <1>22
        DEF ThreadStep


LEMMA NextCheck == Typed /\ Footing /\ StateInv /\ [Next]_vars => StateInv'
<1> SUFFICES ASSUME Typed, Footing, StateInv, [Next]_vars PROVE StateInv'
  OBVIOUS
<1>1. ASSUME NEW p \in Processes, StartSession(p) PROVE StateInv'
  <2> DEFINE b == <<p, "background">>
  <2>1. /\ \A u \in Threads : u[1] # p => thread'[u] = thread[u]
        /\ thread'[<<p, "main">>] = Idle
        /\ \/ thread'[b] = Begun("check") /\ odd' = odd \cup Meets(b, "check")
           \/ thread'[b] = Idle /\ odd' = odd
        /\ runs[p] = NoFile
    BY <1>1, StartIs
  <2>2. \A u \in Threads : u[1] = p => thread[u].at = "off"
    BY <2>1 DEF Footing, Local
  <2>3. \A u \in Threads : u = <<p, "main">> \/ u = b \/ u[1] # p
    BY DEF Threads, Roles
  <2>4. b \in Threads /\ b[1] = p
    BY DEF Threads, Roles
  <2> HIDE DEF b
  <2>5. Idle.at \notin {"fetch", "save", "saving"}
    BY IdleIs
  <2>6. ASSUME Calm', NEW u \in Threads, Checking(u)'
        PROVE  \/ thread'[u] = thread[u]
               \/ /\ \E op \in {"check", "dismiss", "apply"} : thread'[u] = Begun(op)
                  /\ \A w \in Threads : ~Checking(w)
                  /\ \A w \in Threads \ {u} : ~Checking(w)'
    <3>1. CASE u[1] # p
      BY <2>1, <3>1
    <3>2. CASE u[1] = p
      <4>1. u = b /\ thread'[b] = Begun("check") /\ odd' = odd \cup Meets(b, "check")
        BY <2>1, <2>3, <2>5, <2>6, <3>2 DEF Checking
      <4>2. "shared" \notin Meets(b, "check")
        BY <2>6, <4>1 DEF Calm
      <4>3. \A w \in Threads \ {b} : ~Checking(w)
        BY <4>2 DEF Meets
      <4>4. ~Checking(b)
        BY <2>2, <2>4 DEF Checking
      <4>5. ASSUME NEW w \in Threads \ {b} PROVE ~Checking(w)'
        BY <2>1, <2>3, <2>5, <4>3 DEF Checking
      <4> QED BY <4>1, <4>3, <4>4, <4>5
    <3> QED BY <3>1, <3>2
  <2>7. \A u \in Threads : thread[u].at = "saving" => thread'[u] = thread[u]
    BY <2>1, <2>2
  <2>8. odd \subseteq odd' /\ UNCHANGED <<stateFile, silenced, published>>
    BY <1>1, <2>1 DEF StartSession
  <2> QED BY <2>6, <2>7, <2>8, CheckStays
<1>2. ASSUME NEW p \in Processes, NEW op \in {"check", "dismiss", "apply"}, Begin(p, op)
      PROVE  StateInv'
  <2> DEFINE t == <<p, "main">>
  <2>1. /\ t \in Threads /\ thread[t].at = "idle"
        /\ \A u \in Threads \ {t} : thread'[u] = thread[u]
        /\ thread'[t] = Begun(op) /\ odd' = odd \cup Meets(t, op)
        /\ UNCHANGED <<stateFile, silenced, published>>
    BY <1>2, BeginIs
  <2> HIDE DEF t
  <2>2. ASSUME Calm', NEW u \in Threads, Checking(u)'
        PROVE  \/ thread'[u] = thread[u]
               \/ /\ \E o \in {"check", "dismiss", "apply"} : thread'[u] = Begun(o)
                  /\ \A w \in Threads : ~Checking(w)
                  /\ \A w \in Threads \ {u} : ~Checking(w)'
    <3>1. CASE u # t
      BY <2>1, <3>1
    <3>2. CASE u = t
      <4>1. "shared" \notin Meets(t, op)
        BY <2>1, <2>2 DEF Calm
      <4>2. \A w \in Threads \ {t} : ~Checking(w)
        BY <4>1 DEF Meets
      <4>3. ~Checking(t)
        BY <2>1 DEF Checking
      <4>4. \A w \in Threads \ {t} : ~Checking(w)'
        BY <2>1, <4>2 DEF Checking
      <4> QED BY <2>1, <3>2, <4>2, <4>3, <4>4
    <3> QED BY <3>1, <3>2
  <2>3. \A u \in Threads : thread[u].at = "saving" => thread'[u] = thread[u]
    BY <2>1
  <2>4. odd \subseteq odd'
    BY <2>1
  <2> QED BY <2>1, <2>2, <2>3, <2>4, CheckStays
<1>3. ASSUME NEW p \in Processes, End(p) PROVE StateInv'
  <2>1. /\ \A u \in Threads : thread'[u] = IF u[1] = p THEN Off ELSE thread[u]
        /\ odd' = odd \cup {"lost" : t \in {t \in Threads : t[1] = p /\ At(t, "saving")}}
        /\ UNCHANGED <<stateFile, silenced, published>>
    BY <1>3 DEF End
  <2>2. Off.at = "off"
    BY DEF Off
  <2>3. \A u \in Threads : Checking(u)' => thread'[u] = thread[u]
    BY <2>1, <2>2 DEF Checking
  <2>4. ASSUME Calm', NEW u \in Threads, thread[u].at = "saving" PROVE thread'[u] = thread[u]
    <3>1. CASE u[1] = p
      <4>1. u \in {t \in Threads : t[1] = p /\ At(t, "saving")}
        BY <2>4, <3>1 DEF At
      <4>2. "lost" \in odd'
        BY <2>1, <4>1
      <4> QED BY <2>4, <4>2 DEF Calm
    <3> QED BY <2>1, <3>1
  <2>5. odd \subseteq odd'
    BY <2>1
  <2> QED BY <2>1, <2>3, <2>4, <2>5, CheckStays
<1>4. ASSUME NEW v \in Releases, Publish(v) PROVE StateInv'
  <2>1. UNCHANGED <<odd, stateFile, silenced, thread>> /\ published \subseteq published'
    BY <1>4 DEF Publish, noted
  <2> QED BY <2>1, CheckStays
<1>5. CASE UNCHANGED vars
  <2>1. UNCHANGED <<odd, stateFile, silenced, thread, published>>
    BY <1>5 DEF vars, noted
  <2> QED BY <2>1, CheckStays
<1>6. ASSUME NEW t \in Threads, ThreadStep(t) PROVE StateInv'
  BY <1>6, ThreadCheck
<1> QED BY <1>1, <1>2, <1>3, <1>4, <1>5, <1>6 DEF Next, Check, Apply, Dismiss

LEMMA InitCheck == Init => StateInv
<1> SUFFICES ASSUME Init PROVE OneChecks
  BY DEF StateInv
<1>1. \A t \in Threads : thread[t] = Off
  BY DEF Init
<1>2. \A t \in Threads : ~Checking(t)
  BY <1>1 DEF Checking, Off
<1>3. stateFile = {Fresh} /\ silenced = {}
  BY DEF Init
<1>4. Sound(Fresh)
  BY <1>3 DEF Sound, Fresh, Nothing
<1>5. stateFile # Torn
  BY <1>3 DEF Torn
<1> QED BY <1>2, <1>3, <1>4, <1>5 DEF OneChecks

(* What a user dismissed is announced again by no check of any process,      *)
(* before or after a restart, while checks do not overlap and saves succeed. *)
THEOREM DismissedStaysSilent == Spec => DismissalHolds
<1>1. Typed /\ StateInv /\ [Next]_vars
      => [\A t \in Threads :
             Announces(t) /\ odd \cap {"shared", "lost"} = {} => thread[t].latest \notin silenced]_vars
  <2> SUFFICES ASSUME Typed, StateInv, NEW t \in Threads, Announces(t), Calm
               PROVE  thread[t].latest \notin silenced
    BY DEF Calm
  <2>1. /\ thread[t].latest # Nothing /\ thread[t].latest # thread[t].state.dismissed
        /\ thread[t].at \in {"save", "saving"}
    BY DEF Announces, Saved, SaveFails, At
  <2>2. InHand(t)
    BY <2>1 DEF StateInv, OneChecks, Checking
  <2>3. /\ thread[t].latest \in Nat /\ thread[t].state.dismissed \in Nat /\ silenced \subseteq Nat
    <3>1. thread[t] \in Thread /\ silenced \subseteq Nat
      BY DEF Typed, TypeOK
    <3> QED BY <3>1, PartsOf DEF State
  <2>4. /\ thread[t].state.dismissed <= thread[t].latest
        /\ \A v \in silenced : v <= thread[t].state.dismissed
    BY <2>1, <2>2 DEF InHand, Sound
  <2> QED BY <2>1, <2>3, <2>4
<1>2. Typed /\ Footing /\ StateInv /\ [Next]_vars => StateInv'
  BY NextCheck
<1> QED BY <1>1, <1>2, InitCheck, TypedHolds, FootingHolds, PTL DEF Spec, DismissalHolds

-----------------------------------------------------------------------------
(***************************************************************************)
(* The plugins: the fields of a command.                                   *)
(***************************************************************************)

LEMMA JobParts ==
    ASSUME NEW c \in Job
    PROVE  /\ c.op \in Ops /\ c.plugin \in Plugins \cup {None} /\ c.version \in Versions
           /\ c.target \in Plugins \cup {None} /\ c.made \subseteq Parts /\ c.part \subseteq Parts
           /\ c.reg \in Records /\ c.copy \in Choices /\ c.checked \subseteq Bundled
           /\ c.changed \in BOOLEAN /\ c.after \in Sequels
BY DEF Job

LEMMA NoJobIs ==
    /\ NoRecords \in Records /\ NoChoices \in Choices /\ NoJob \in Job
    /\ NoJob.op = "list" /\ NoJob.target = None /\ NoJob.made = {} /\ NoJob.part = {}
    /\ NoJob.reg = NoRecords /\ NoJob.checked = {} /\ NoJob.changed = FALSE
    /\ NoJob.after = "idle" /\ NoJob.plugin = None /\ NoJob.version = Binary
    /\ NoJob.copy = NoChoices
<1>1. NoRecords \in Records /\ NoChoices \in Choices
  BY DEF NoRecords, Records, NoChoices, Choices
<1>2. NoJob \in Job
  BY <1>1, VersionsAssumption DEF NoJob, Job, Ops, Sequels
<1> QED BY <1>1, <1>2 DEF NoJob

(* What most steps leave as it is. *)
SameCommand(c, j) == c.op = j.op /\ c.plugin = j.plugin /\ c.version = j.version /\ c.copy = j.copy

LEMMA RewriteIs ==
    ASSUME NEW j \in Job, NEW q \in Plugins
    PROVE  LET c == Rewrite(j, q)
           IN  /\ c \in Job /\ SameCommand(c, j) /\ c.target = q /\ c.made = {} /\ c.part = {}
               /\ c.reg = j.reg /\ c.checked = j.checked /\ c.changed = j.changed
               /\ c.after = j.after
BY DEF Job, Rewrite, SameCommand

LEMMA SyncIs ==
    ASSUME NEW j \in Job, registry \in Records
    PROVE  LET c == Sync(j)
           IN  /\ c \in Job /\ SameCommand(c, j) /\ c.reg = registry /\ c.checked = {}
               /\ c.changed = FALSE /\ c.target = j.target /\ c.made = j.made /\ c.part = j.part
               /\ c.after = j.after
BY DEF Job, Sync, SameCommand

(* The command of a process, and the stage it is at, after a step. *)
Moves(p, c, s) ==
    /\ job' = [job EXCEPT ![p] = c] /\ pc' = [pc EXCEPT ![p] = s]
    /\ c \in Job /\ s \in Stages

LEMMA MovesAre ==
    ASSUME PluginsTypeOK, NEW p \in Sessions, NEW c, NEW s, Moves(p, c, s)
    PROVE  /\ job' \in [Sessions -> Job] /\ pc' \in [Sessions -> Stages]
           /\ job'[p] = c /\ pc'[p] = s
           /\ \A r \in Sessions \ {p} : job'[r] = job[r] /\ pc'[r] = pc[r]
BY DEF PluginsTypeOK, Moves

(***************************************************************************)
(* What each step makes of the command of its process.                     *)
(***************************************************************************)

Syncing   == {"list", "enable", "disable"}
Rewriting == {"wipe", "mkdir", "write"}
Changing  == {"install", "update", "uninstall"}

(* A command that has just been given. *)
Entry(c, s) ==
    /\ c.made = {} /\ c.part = {}
    /\ \/ /\ s = "sync" /\ c.op \in Syncing /\ c.target = None
          /\ c.reg = registry /\ c.checked = {} /\ c.changed = FALSE
       \/ /\ s = "wipe" /\ c.op \in Changing /\ c.target \in External
          /\ c.reg \in {NoRecords, registry}
       \/ s \in {"refused", "unreadable"} /\ c = NoJob

LEMMA StartLeads ==
    ASSUME PluginsTypeOK, NEW p \in Sessions, NEW j \in Job, Start(p, j),
           j.target = None, j.made = {}, j.part = {}, j.reg = NoRecords, j.after = "idle"
    PROVE  \E c, s : Moves(p, c, s) /\ Entry(c, s)
<1>0. registry \in Records /\ External \subseteq Plugins
  BY DEF PluginsTypeOK, Plugins
<1>1. CASE /\ j.op \in {"list", "enable", "disable"}
           /\ Go(p, "sync") /\ Does(p, Sync(j))
  BY <1>0, <1>1, SyncIs DEF Go, Does, Moves, Entry, Syncing, Stages, SameCommand
<1>2. CASE /\ j.op = "install" /\ j.plugin \in External
           /\ Go(p, "wipe") /\ Does(p, Rewrite(j, j.plugin))
  <2>1. LET c == Rewrite(j, j.plugin)
        IN  /\ c \in Job /\ SameCommand(c, j) /\ c.target = j.plugin /\ c.made = {} /\ c.part = {}
            /\ c.reg = j.reg
    BY <1>0, <1>2, RewriteIs
  <2> QED BY <2>1, <1>2 DEF Go, Does, Moves, Entry, Changing, Stages, SameCommand
<1>3. CASE /\ j.op \in {"update", "uninstall"} /\ j.plugin \in External
           /\ Go(p, "wipe") /\ Does(p, Rewrite([j EXCEPT !.reg = registry], j.plugin))
  <2> DEFINE d == [j EXCEPT !.reg = registry]
  <2>1. d \in Job /\ d.reg = registry /\ d.op = j.op
    BY <1>0 DEF Job
  <2>2. LET c == Rewrite(d, j.plugin)
        IN  /\ c \in Job /\ SameCommand(c, d) /\ c.target = j.plugin /\ c.made = {} /\ c.part = {}
            /\ c.reg = d.reg
    BY <2>1, <1>0, <1>3, RewriteIs
  <2> HIDE DEF d
  <2>3. Does(p, Rewrite(d, j.plugin))
    BY <1>3 DEF d
  <2> QED BY <2>1, <2>2, <2>3, <1>3 DEF Go, Does, Moves, Entry, Changing, Stages, SameCommand
<1>4. CASE Ends(p, "refused") \/ Ends(p, "unreadable")
  BY <1>4, NoJobIs DEF Ends, Go, Does, Moves, Entry, Stages, Ended
<1> QED BY <1>1, <1>2, <1>3, <1>4 DEF Start, Begins

LEMMA CommandIs ==
    ASSUME PluginsTypeOK, NEW p \in Sessions, Command(p)
    PROVE  \E c, s : Moves(p, c, s) /\ Entry(c, s)
<1>1. CASE Start(p, NoJob)
  BY <1>1, NoJobIs, StartLeads
<1>2. ASSUME NEW o \in Offered,
             Start(p, [NoJob EXCEPT !.op = o.op, !.plugin = o.plugin, !.version = o.version])
      PROVE  \E c, s : Moves(p, c, s) /\ Entry(c, s)
  <2> DEFINE j == [NoJob EXCEPT !.op = o.op, !.plugin = o.plugin, !.version = o.version]
  <2>1. o.op \in Ops /\ o.plugin \in Plugins /\ o.version \in Versions
    BY OfferedAssumption
  <2>2. /\ j \in Job /\ j.target = None /\ j.made = {} /\ j.part = {} /\ j.reg = NoRecords
        /\ j.after = "idle"
    BY <2>1, NoJobIs DEF Job
  <2>3. Start(p, j)
    BY <1>2
  <2> HIDE DEF j
  <2> QED BY <2>2, <2>3, StartLeads
<1> QED BY <1>1, <1>2 DEF Command

LEMMA ReloadIs ==
    ASSUME PluginsTypeOK, NEW p \in Sessions, Reload(p)
    PROVE  pc[p] = "ok" /\ \E c, s : Moves(p, c, s) /\ Entry(c, s)
BY NoJobIs, StartLeads DEF Reload, InStage

(* Steps that leave alone what was made of a directory, and the others.     *)
SameFiles(c, j) == c.target = j.target /\ c.made = j.made /\ c.part = j.part
SameSync(c, j)  == c.reg = j.reg /\ c.changed = j.changed

LEMMA SyncBundledIs ==
    ASSUME PluginsTypeOK, NEW p \in Sessions, SyncBundled(p)
    PROVE  \E b \in Bundled \ job[p].checked : \E c, s :
              /\ Moves(p, c, s) /\ SameCommand(c, job[p]) /\ SameSync(c, job[p])
              /\ c.after = job[p].after /\ c.checked = job[p].checked \cup {b}
              /\ \/ /\ NeedsSync(p, b) /\ s = "wipe"
                    /\ c.target = b /\ c.made = {} /\ c.part = {}
                 \/ ~NeedsSync(p, b) /\ s = "sync" /\ SameFiles(c, job[p])
<1>1. PICK b \in Bundled \ job[p].checked :
          LET j == [job[p] EXCEPT !.checked = @ \cup {b}] IN
          IF NeedsSync(p, b)
          THEN Go(p, "wipe") /\ Does(p, Rewrite(j, b))
          ELSE Does(p, j) /\ UNCHANGED pc
  BY DEF SyncBundled
<1> DEFINE d == [job[p] EXCEPT !.checked = @ \cup {b}]
<1>2. job[p] \in Job /\ pc[p] = "sync" /\ b \in Plugins
  BY DEF PluginsTypeOK, SyncBundled, InStage, Plugins
<1>3. /\ d \in Job /\ SameCommand(d, job[p]) /\ SameSync(d, job[p]) /\ SameFiles(d, job[p])
      /\ d.after = job[p].after /\ d.checked = job[p].checked \cup {b}
  BY <1>2 DEF Job, SameCommand, SameSync, SameFiles
<1>4. IF NeedsSync(p, b) THEN Go(p, "wipe") /\ Does(p, Rewrite(d, b))
                         ELSE Does(p, d) /\ UNCHANGED pc
  BY <1>1
<1> HIDE DEF d
<1>5. CASE NeedsSync(p, b)
  <2> DEFINE c == Rewrite(d, b)
  <2>1. /\ c \in Job /\ SameCommand(c, d) /\ c.target = b /\ c.made = {} /\ c.part = {}
        /\ c.reg = d.reg /\ c.checked = d.checked /\ c.changed = d.changed
        /\ c.after = d.after
    BY <1>2, <1>3, RewriteIs
  <2>2. Moves(p, c, "wipe")
    BY <1>4, <1>5, <2>1 DEF Go, Does, Moves, Stages
  <2> HIDE DEF c
  <2> QED BY <1>1, <1>3, <1>5, <2>1, <2>2 DEF SameCommand, SameSync
<1>6. CASE ~NeedsSync(p, b)
  <2>1. Moves(p, d, "sync")
    BY <1>2, <1>3, <1>4, <1>6 DEF Does, Moves, Stages, PluginsTypeOK
  <2> QED BY <1>1, <1>3, <1>6, <2>1
<1> QED BY <1>5, <1>6

LEMMA PruneIs ==
    ASSUME PluginsTypeOK, NEW p \in Sessions, Prune(p)
    PROVE  \E q \in Retired : \E c :
              /\ Moves(p, c, "wipe") /\ SameCommand(c, job[p]) /\ SameSync(c, job[p])
              /\ c.after = job[p].after /\ c.checked = job[p].checked
              /\ c.target = q /\ c.made = {} /\ c.part = {}
<1>1. PICK q \in Retired : Go(p, "wipe") /\ Does(p, Rewrite(job[p], q))
  BY DEF Prune, Unpruned
<1>2. job[p] \in Job /\ q \in Plugins
  BY DEF PluginsTypeOK, Plugins
<1> DEFINE c == Rewrite(job[p], q)
<1>3. /\ c \in Job /\ SameCommand(c, job[p]) /\ c.target = q /\ c.made = {} /\ c.part = {}
      /\ c.reg = job[p].reg /\ c.checked = job[p].checked /\ c.changed = job[p].changed
      /\ c.after = job[p].after
  BY <1>2, RewriteIs
<1>4. Moves(p, c, "wipe")
  BY <1>1, <1>3 DEF Go, Does, Moves, Stages
<1> HIDE DEF c
<1> QED BY <1>3, <1>4 DEF SameSync

LEMMA SyncedIs ==
    ASSUME PluginsTypeOK, NEW p \in Sessions, Synced(p)
    PROVE  \E c : /\ Moves(p, c, IF job[p].changed THEN "truncate" ELSE "discover")
                  /\ SameCommand(c, job[p]) /\ SameSync(c, job[p]) /\ SameFiles(c, job[p])
                  /\ c.after = "discover" /\ c.checked = job[p].checked
<1> DEFINE c == [job[p] EXCEPT !.after = "discover"]
<1>1. job[p] \in Job
  BY DEF PluginsTypeOK
<1>2. /\ c \in Job /\ SameCommand(c, job[p]) /\ SameSync(c, job[p]) /\ SameFiles(c, job[p])
      /\ c.after = "discover" /\ c.checked = job[p].checked
  BY <1>1 DEF Job, SameCommand, SameSync, SameFiles, Sequels
<1>3. Moves(p, c, IF job[p].changed THEN "truncate" ELSE "discover")
  BY <1>2 DEF Synced, Go, Does, Moves, Stages
<1> HIDE DEF c
<1> QED BY <1>2, <1>3

LEMMA EndsAre ==
    ASSUME NEW p \in Sessions, NEW s \in Stages, Ends(p, s)
    PROVE  Moves(p, NoJob, s)
BY NoJobIs DEF Ends, Go, Does, Moves

LEMMA ForgetIs ==
    ASSUME PluginsTypeOK, NEW p \in Sessions, job[p].target \in Plugins
    PROVE  LET c == Forget(p)
           IN  /\ c \in Job /\ SameCommand(c, job[p])
               /\ c.reg = [job[p].reg EXCEPT ![job[p].target] = None]
               /\ c.target = None /\ c.made = job[p].made /\ c.part = job[p].part
               /\ c.checked = job[p].checked /\ c.changed = job[p].changed
               /\ c.after = job[p].after
<1> DEFINE new == [job[p].reg EXCEPT ![job[p].target] = None]
           c == Forget(p)
<1>1. job[p] \in Job /\ job[p].reg \in Records
  BY JobParts DEF PluginsTypeOK
<1>2. new \in Records
  BY <1>1 DEF Records
<1>3. Forget(p) = [job[p] EXCEPT !.reg = new, !.target = None]
  BY DEF Forget
<1> HIDE DEF new, c
<1>4. c = [job[p] EXCEPT !.reg = new, !.target = None]
  BY <1>3 DEF c
<1>5. /\ c \in Job /\ SameCommand(c, job[p]) /\ c.reg = new
      /\ c.target = None /\ c.made = job[p].made /\ c.part = job[p].part
      /\ c.checked = job[p].checked /\ c.changed = job[p].changed /\ c.after = job[p].after
  BY <1>1, <1>2, <1>4 DEF Job, SameCommand
<1> QED BY <1>5 DEF new, c

RemovedTo(p, c, s) ==
    /\ Moves(p, c, s) /\ SameCommand(c, job[p]) /\ c.checked = job[p].checked
    /\ c.made = job[p].made /\ c.part = job[p].part
    /\ \/ /\ job[p].target \in Bundled \/ job[p].op \in {"install", "update"}
          /\ s = "mkdir" /\ c = job[p]
       \/ /\ job[p].target \in Retired /\ s = "sync" /\ c.target = None
          /\ c.reg = [job[p].reg EXCEPT ![job[p].target] = None]
          /\ c.changed = TRUE /\ c.after = job[p].after
       \/ /\ job[p].target \in External /\ job[p].op = "uninstall"
          /\ s = "truncate" /\ c.target = None
          /\ c.reg = [job[p].reg EXCEPT ![job[p].target] = None]
          /\ c.changed = job[p].changed /\ c.after = "settings"

LEMMA RemovedIs ==
    ASSUME PluginsTypeOK, NEW p \in Sessions, Removed(p)
    PROVE  \E c, s : RemovedTo(p, c, s)
<1>0. job[p] \in Job /\ pc \in [Sessions -> Stages]
  BY DEF PluginsTypeOK
<1>1. CASE /\ job[p].target \in Bundled \/ job[p].op \in {"install", "update"}
           /\ Go(p, "mkdir") /\ UNCHANGED job
  <2>1. Moves(p, job[p], "mkdir")
    BY <1>0, <1>1 DEF Go, Moves, PluginsTypeOK, Stages
  <2> QED BY <2>1, <1>1 DEF SameCommand, RemovedTo
<1>2. CASE /\ job[p].target \in Retired
           /\ Go(p, "sync") /\ Does(p, [Forget(p) EXCEPT !.changed = TRUE])
  <2> DEFINE d == Forget(p)
             c == [d EXCEPT !.changed = TRUE]
  <2>1. /\ d \in Job /\ SameCommand(d, job[p])
        /\ d.reg = [job[p].reg EXCEPT ![job[p].target] = None]
        /\ d.target = None /\ d.made = job[p].made /\ d.part = job[p].part
        /\ d.checked = job[p].checked /\ d.after = job[p].after
    BY <1>2, ForgetIs DEF Plugins
  <2>2. Does(p, c)
    BY <1>2
  <2> HIDE DEF d
  <2>3. /\ c \in Job /\ SameCommand(c, d) /\ c.reg = d.reg /\ c.changed = TRUE
        /\ c.target = d.target /\ c.made = d.made /\ c.part = d.part
        /\ c.checked = d.checked /\ c.after = d.after
    BY <2>1 DEF Job, SameCommand
  <2> HIDE DEF c
  <2>4. Moves(p, c, "sync")
    BY <2>2, <2>3, <1>2 DEF Go, Does, Moves, Stages
  <2> QED BY <1>2, <2>1, <2>3, <2>4 DEF SameCommand, RemovedTo
<1>3. CASE /\ IsFor(p, "uninstall") /\ job[p].target \in External
           /\ Go(p, "truncate") /\ Does(p, [Forget(p) EXCEPT !.after = "settings"])
  <2> DEFINE d == Forget(p)
             c == [d EXCEPT !.after = "settings"]
  <2>1. /\ d \in Job /\ SameCommand(d, job[p])
        /\ d.reg = [job[p].reg EXCEPT ![job[p].target] = None]
        /\ d.target = None /\ d.made = job[p].made /\ d.part = job[p].part
        /\ d.checked = job[p].checked /\ d.changed = job[p].changed
    BY <1>3, ForgetIs DEF Plugins
  <2>2. Does(p, c)
    BY <1>3
  <2> HIDE DEF d
  <2>3. /\ c \in Job /\ SameCommand(c, d) /\ c.reg = d.reg /\ c.changed = d.changed
        /\ c.target = d.target /\ c.made = d.made /\ c.part = d.part
        /\ c.checked = d.checked /\ c.after = "settings"
    BY <2>1 DEF Job, SameCommand, Sequels
  <2> HIDE DEF c
  <2>4. Moves(p, c, "truncate")
    BY <2>2, <2>3, <1>3 DEF Go, Does, Moves, Stages
  <2> QED BY <1>3, <2>1, <2>3, <2>4 DEF SameCommand, IsFor, RemovedTo
<1> QED BY <1>1, <1>2, <1>3 DEF Removed

LEMMA NotedIs ==
    ASSUME PluginsTypeOK, NEW p \in Sessions, NEW records \in Records, NEW v \in Versions
    PROVE  LET c == Noted(p, records, v)
           IN  /\ c \in Job /\ SameCommand(c, job[p])
               /\ c.reg = [records EXCEPT ![job[p].target] = v]
               /\ c.target = None /\ c.made = job[p].made /\ c.part = job[p].part
               /\ c.checked = job[p].checked /\ c.changed = job[p].changed
               /\ c.after = job[p].after
<1> DEFINE new == [records EXCEPT ![job[p].target] = v]
           c == Noted(p, records, v)
<1>1. job[p] \in Job
  BY DEF PluginsTypeOK
<1>2. new \in Records
  BY DEF Records
<1>3. Noted(p, records, v) = [job[p] EXCEPT !.reg = new, !.target = None]
  BY DEF Noted
<1> HIDE DEF new, c
<1>4. c = [job[p] EXCEPT !.reg = new, !.target = None]
  BY <1>3 DEF c
<1>5. /\ c \in Job /\ SameCommand(c, job[p]) /\ c.reg = new
      /\ c.target = None /\ c.made = job[p].made /\ c.part = job[p].part
      /\ c.checked = job[p].checked /\ c.changed = job[p].changed /\ c.after = job[p].after
  BY <1>1, <1>2, <1>4 DEF Job, SameCommand
<1> QED BY <1>5 DEF new, c

LEMMA AfterIs ==
    ASSUME NEW d \in Job, NEW s \in Sequels
    PROVE  LET c == [d EXCEPT !.after = s]
           IN  /\ c \in Job /\ SameCommand(c, d) /\ SameFiles(c, d) /\ SameSync(c, d)
               /\ c.checked = d.checked /\ c.after = s
BY DEF Job, SameCommand, SameFiles, SameSync

CopiedTo(p, c, s) ==
    /\ Moves(p, c, s) /\ SameCommand(c, job[p]) /\ c.checked = job[p].checked
    /\ c.made = job[p].made /\ c.part = job[p].part /\ c.target = None
    /\ \/ /\ job[p].target \in Bundled /\ Loads(job[p].target) /\ s = "sync"
          /\ c.reg = [job[p].reg EXCEPT ![job[p].target] = dir[job[p].target]["manifest"]]
          /\ c.changed = TRUE /\ c.after = job[p].after
       \/ /\ job[p].target \in External /\ s = "truncate"
          /\ c.reg \in {[registry EXCEPT ![job[p].target] = Written(p)],
                        [job[p].reg EXCEPT ![job[p].target] = Written(p)]}
          /\ c.after \in {"settings", "ok"}

CopiedFor(p) == Moves(p, NoJob, "unreadable") /\ job[p].target \in External

LEMMA CopiedIs ==
    ASSUME PluginsTypeOK, NEW p \in Sessions, Copied(p)
    PROVE  CopiedFor(p) \/ \E c, s : CopiedTo(p, c, s)
<1> DEFINE q == job[p].target
<1>0. /\ job[p] \in Job /\ job[p].reg \in Records /\ registry \in Records
      /\ Written(p) \in Versions
  BY JobParts, VersionsAssumption DEF PluginsTypeOK, Written
<1>1. CASE /\ q \in Bundled /\ Loads(q) /\ Go(p, "sync")
           /\ Does(p, [Noted(p, job[p].reg, dir[q]["manifest"]) EXCEPT !.changed = TRUE])
  <2> DEFINE v == dir[q]["manifest"]
             d == Noted(p, job[p].reg, v)
             c == [d EXCEPT !.changed = TRUE]
  <2>1. v \in Versions
    BY <1>1 DEF Loads
  <2>2. Does(p, c)
    BY <1>1
  <2>3. /\ d \in Job /\ SameCommand(d, job[p]) /\ d.reg = [job[p].reg EXCEPT ![q] = v]
        /\ d.target = None /\ d.made = job[p].made /\ d.part = job[p].part
        /\ d.checked = job[p].checked /\ d.after = job[p].after
    <3> HIDE DEF v
    <3> QED BY <1>0, <2>1, NotedIs
  <2> HIDE DEF d
  <2>4. /\ c \in Job /\ SameCommand(c, d) /\ c.reg = d.reg /\ c.target = d.target
        /\ c.made = d.made /\ c.part = d.part /\ c.checked = d.checked
        /\ c.after = d.after /\ c.changed = TRUE
    BY <2>3 DEF Job, SameCommand
  <2> HIDE DEF c
  <2>5. Moves(p, c, "sync")
    BY <1>1, <2>2, <2>4 DEF Go, Does, Moves, Stages
  <2> QED BY <1>1, <2>3, <2>4, <2>5 DEF SameCommand, CopiedTo
<1>2. ASSUME NEW records \in {registry, job[p].reg}, NEW s \in {"settings", "ok"},
             q \in External, Go(p, "truncate"),
             Does(p, [Noted(p, records, Written(p)) EXCEPT !.after = s])
      PROVE  \E c, t : CopiedTo(p, c, t)
  <2> DEFINE d == Noted(p, records, Written(p))
             c == [d EXCEPT !.after = s]
  <2>1. Does(p, c)
    BY <1>2
  <2>2. /\ d \in Job /\ SameCommand(d, job[p]) /\ d.reg = [records EXCEPT ![q] = Written(p)]
        /\ d.target = None /\ d.made = job[p].made /\ d.part = job[p].part
        /\ d.checked = job[p].checked
    BY <1>0, NotedIs
  <2>3. s \in Sequels
    BY DEF Sequels
  <2> HIDE DEF d
  <2>4. /\ c \in Job /\ SameCommand(c, d) /\ SameFiles(c, d) /\ SameSync(c, d)
        /\ c.checked = d.checked /\ c.after = s
    BY <2>2, <2>3, AfterIs
  <2> HIDE DEF c
  <2>5. Moves(p, c, "truncate")
    BY <1>2, <2>1, <2>4 DEF Go, Does, Moves, Stages
  <2> QED BY <1>2, <2>2, <2>4, <2>5 DEF SameCommand, SameFiles, SameSync, CopiedTo
<1>3. CASE \E records \in {registry, job[p].reg}, s \in {"settings", "ok"} :
              /\ q \in External /\ Go(p, "truncate")
              /\ Does(p, [Noted(p, records, Written(p)) EXCEPT !.after = s])
  BY <1>2, <1>3
<1>4. CASE q \in External /\ Ends(p, "unreadable")
  <2>1. "unreadable" \in Stages
    BY DEF Stages, Ended
  <2> QED BY <1>4, <2>1, EndsAre DEF CopiedFor
<1> QED BY <1>1, <1>3, <1>4 DEF Copied

(* A step that ends the command, or goes on from the stage the job names.    *)
Proceeds(p, s) ==
    \E c : /\ Moves(p, c, s)
           /\ \/ s \in Ended /\ c = NoJob
              \/ /\ s \notin Ended /\ SameCommand(c, job[p]) /\ SameFiles(c, job[p])
                 /\ c.reg = NoRecords /\ c.checked = job[p].checked
                 /\ c.changed = job[p].changed /\ c.after = job[p].after

LEMMA ProceedIs ==
    ASSUME PluginsTypeOK, NEW p \in Sessions, NEW s \in Stages,
           Proceed(p, s, [job[p] EXCEPT !.reg = NoRecords])
    PROVE  Proceeds(p, s)
<1>1. CASE s \in Ended
  BY <1>1, NoJobIs, EndsAre DEF Proceed, Proceeds
<1>2. CASE s \notin Ended
  <2> DEFINE c == [job[p] EXCEPT !.reg = NoRecords]
  <2>1. job[p] \in Job
    BY DEF PluginsTypeOK
  <2>2. /\ c \in Job /\ SameCommand(c, job[p]) /\ SameFiles(c, job[p])
        /\ c.reg = NoRecords /\ c.checked = job[p].checked
        /\ c.changed = job[p].changed /\ c.after = job[p].after
    BY <2>1, NoJobIs DEF Job, SameCommand, SameFiles
  <2>3. Go(p, s) /\ Does(p, c)
    BY <1>2 DEF Proceed
  <2> HIDE DEF c
  <2> QED BY <1>2, <2>2, <2>3 DEF Proceeds, Moves, Go, Does
<1> QED BY <1>1, <1>2

LEMMA DiscoverIs ==
    ASSUME PluginsTypeOK, NEW p \in Sessions, Discover(p)
    PROVE  /\ Outcome(p) \in {"listed", "settings", "unknown"}
           /\ \/ Moves(p, NoJob, "unreadable")
              \/ Broken # {} /\ Moves(p, NoJob, "broken")
              \/ Broken = {} /\ Stale = {} /\ Proceeds(p, Outcome(p))
              \/ /\ Broken = {} /\ Stale # {}
                 /\ \E c : /\ Moves(p, c, "truncate") /\ SameCommand(c, job[p]) /\ SameFiles(c, job[p])
                           /\ c.reg = [q \in Plugins |-> IF q \in Stale THEN None ELSE registry[q]]
                           /\ c.checked = job[p].checked /\ c.changed = job[p].changed
                           /\ c.after = Outcome(p)
<1>1. Outcome(p) \in {"listed", "settings", "unknown"}
  BY DEF Outcome
<1>2. /\ Outcome(p) \in Stages /\ Outcome(p) \in Sequels
      /\ "broken" \in Stages /\ "unreadable" \in Stages
  BY <1>1 DEF Stages, Ended, Sequels
<1>6. CASE Ends(p, "unreadable")
  BY <1>1, <1>2, <1>6, EndsAre
<1>3. CASE Broken # {} /\ Ends(p, "broken")
  BY <1>1, <1>2, <1>3, EndsAre
<1>4. CASE /\ Broken = {} /\ Stale = {}
           /\ Proceed(p, Outcome(p), [job[p] EXCEPT !.reg = NoRecords])
  BY <1>1, <1>2, <1>4, ProceedIs
<1>5. CASE /\ Broken = {} /\ Stale # {} /\ Go(p, "truncate")
           /\ Does(p, [job[p] EXCEPT !.after = Outcome(p),
                         !.reg = [q \in Plugins |-> IF q \in Stale THEN None ELSE registry[q]]])
  <2> DEFINE new == [q \in Plugins |-> IF q \in Stale THEN None ELSE registry[q]]
             c == [job[p] EXCEPT !.after = Outcome(p), !.reg = new]
  <2>1. new \in Records /\ job[p] \in Job
    BY DEF PluginsTypeOK, Records
  <2>2. Does(p, c)
    BY <1>5
  <2> HIDE DEF new
  <2>3. /\ c \in Job /\ SameCommand(c, job[p]) /\ SameFiles(c, job[p]) /\ c.reg = new
        /\ c.checked = job[p].checked /\ c.changed = job[p].changed /\ c.after = Outcome(p)
    BY <1>2, <2>1 DEF Job, SameCommand, SameFiles
  <2> HIDE DEF c
  <2>4. Moves(p, c, "truncate")
    BY <1>5, <2>2, <2>3 DEF Go, Does, Moves, Stages
  <2> QED BY <1>1, <1>5, <2>3, <2>4 DEF new
<1> QED BY <1>3, <1>4, <1>5, <1>6 DEF Discover

(* A step that changes neither what is being rewritten nor what is checked. *)
SameRest(c, j) == SameCommand(c, j) /\ c.target = j.target /\ c.reg = j.reg /\ c.checked = j.checked
                  /\ c.changed = j.changed /\ c.after = j.after

LEMMA OpenPartIs ==
    ASSUME PluginsTypeOK, NEW p \in Sessions, OpenPart(p)
    PROVE  /\ pc[p] = "write" /\ job[p].part = {} /\ job[p].target \in there
           /\ \E f \in Parts \ job[p].made : \E c :
                 /\ Moves(p, c, "write") /\ SameRest(c, job[p])
                 /\ c.made = job[p].made /\ c.part = {f}
                 /\ dir' = [dir EXCEPT ![job[p].target][f] = "torn"]
<1>1. PICK f \in Parts \ job[p].made :
          /\ Does(p, [job[p] EXCEPT !.part = {f}])
          /\ dir' = [dir EXCEPT ![job[p].target][f] = "torn"]
  BY DEF OpenPart
<1> DEFINE c == [job[p] EXCEPT !.part = {f}]
<1>2. job[p] \in Job /\ pc[p] = "write" /\ pc' = pc
  BY DEF PluginsTypeOK, OpenPart, InStage
<1>3. c \in Job /\ SameRest(c, job[p]) /\ c.made = job[p].made /\ c.part = {f}
  BY <1>2 DEF Job, SameRest, SameCommand
<1>4. Does(p, c)
  BY <1>1
<1> HIDE DEF c
<1>5. Moves(p, c, "write")
  BY <1>2, <1>3, <1>4 DEF Does, Moves, Stages, PluginsTypeOK
<1> QED BY <1>1, <1>3, <1>5 DEF OpenPart, InStage

LEMMA FillIs ==
    ASSUME PluginsTypeOK, NEW p \in Sessions, Fill(p)
    PROVE  /\ pc[p] = "write"
           /\ \E f \in job[p].part : \E c :
                 /\ Moves(p, c, "write") /\ SameRest(c, job[p])
                 /\ c.made = job[p].made \cup {f} /\ c.part = {}
                 /\ dir' = [dir EXCEPT ![job[p].target][f] =
                                IF @ = "absent" THEN @ ELSE Written(p)]
<1>1. PICK f \in job[p].part :
          /\ Does(p, [job[p] EXCEPT !.made = @ \cup {f}, !.part = {}])
          /\ dir' = [dir EXCEPT ![job[p].target][f] = IF @ = "absent" THEN @ ELSE Written(p)]
  BY DEF Fill
<1> DEFINE c == [job[p] EXCEPT !.made = @ \cup {f}, !.part = {}]
<1>2. job[p] \in Job /\ pc[p] = "write" /\ pc' = pc /\ f \in Parts
  BY JobParts DEF PluginsTypeOK, Fill, InStage
<1>3. c \in Job /\ SameRest(c, job[p]) /\ c.made = job[p].made \cup {f} /\ c.part = {}
  BY <1>2 DEF Job, SameRest, SameCommand
<1>4. Does(p, c)
  BY <1>1
<1> HIDE DEF c
<1>5. Moves(p, c, "write")
  BY <1>2, <1>3, <1>4 DEF Does, Moves, Stages, PluginsTypeOK
<1> QED BY <1>1, <1>2, <1>3, <1>5

(* The remaining steps of one process, by what they make of its job.        *)
LEMMA RemainingAre ==
    ASSUME PluginsTypeOK, NEW p \in Sessions
    PROVE  /\ Remove(p) => Moves(p, job[p], "wipe") /\ pc[p] = "wipe"
           /\ MakeDir(p) => Moves(p, job[p], "write") /\ pc[p] = "mkdir"
           /\ Fail(p) \/ Abort(p) => Moves(p, NoJob, "failed") /\ ~AtRest(p)
           /\ Truncate(p) => Moves(p, job[p], "store") /\ pc[p] = "truncate"
           /\ Store(p) => Proceeds(p, job[p].after) /\ pc[p] = "store"
           /\ ReadSettings(p) => /\ pc[p] = "settings"
                                 /\ \/ Moves(p, NoJob, "unreadable")
                                    \/ \E c : /\ Moves(p, c, "clear") /\ SameFiles(c, job[p])
                                              /\ SameSync(c, job[p]) /\ c.op = job[p].op
           /\ ClearSettings(p) => Moves(p, job[p], "save") /\ pc[p] = "clear"
           /\ SaveSettings(p) => Moves(p, job[p], "ok") /\ pc[p] = "save"
<1>0. /\ job[p] \in Job /\ job[p].after \in Stages /\ pc[p] \in Stages /\ registry \in Records
      /\ {"wipe", "write", "failed", "store", "clear", "save", "ok", "unreadable"} \subseteq Stages
      /\ settings \in Choices
  BY JobParts DEF PluginsTypeOK, Stages, Ended, Sequels
<1>1. Remove(p) => Moves(p, job[p], "wipe") /\ pc[p] = "wipe"
  BY <1>0 DEF Remove, Moves, InStage, PluginsTypeOK
<1>2. MakeDir(p) => Moves(p, job[p], "write") /\ pc[p] = "mkdir"
  BY <1>0 DEF MakeDir, Moves, InStage, Go, PluginsTypeOK
<1>3. Fail(p) \/ Abort(p) => Moves(p, NoJob, "failed") /\ ~AtRest(p)
  BY <1>0, EndsAre DEF Fail, Abort, CutShort, InStage, AtRest, Ended
<1>4. Truncate(p) => Moves(p, job[p], "store") /\ pc[p] = "truncate"
  BY <1>0 DEF Truncate, Moves, InStage, Go, PluginsTypeOK
<1>5. Store(p) => Proceeds(p, job[p].after) /\ pc[p] = "store"
  BY <1>0, ProceedIs DEF Store, InStage
<1>6. ASSUME ReadSettings(p), Go(p, "clear"), Does(p, [job[p] EXCEPT !.copy = settings])
      PROVE  /\ pc[p] = "settings"
             /\ \E c : /\ Moves(p, c, "clear") /\ SameFiles(c, job[p])
                       /\ SameSync(c, job[p]) /\ c.op = job[p].op
  <2> DEFINE c == [job[p] EXCEPT !.copy = settings]
  <2>1. /\ c \in Job /\ SameFiles(c, job[p]) /\ SameSync(c, job[p]) /\ c.op = job[p].op
    BY <1>0 DEF Job, SameFiles, SameSync
  <2>2. Go(p, "clear") /\ Does(p, c) /\ pc[p] = "settings"
    BY <1>6 DEF ReadSettings, InStage
  <2> HIDE DEF c
  <2> QED BY <1>0, <2>1, <2>2 DEF Moves, Go, Does
<1>7. ClearSettings(p) => Moves(p, job[p], "save") /\ pc[p] = "clear"
  BY <1>0 DEF ClearSettings, Moves, InStage, Go, PluginsTypeOK
<1>8. SaveSettings(p) => Moves(p, job[p], "ok") /\ pc[p] = "save"
  BY <1>0 DEF SaveSettings, Moves, InStage, Go, PluginsTypeOK
<1>9. ReadSettings(p) => /\ pc[p] = "settings"
                         /\ \/ Ends(p, "unreadable")
                            \/ Go(p, "clear") /\ Does(p, [job[p] EXCEPT !.copy = settings])
  BY DEF ReadSettings, InStage
<1>10. Ends(p, "unreadable") => Moves(p, NoJob, "unreadable")
  BY <1>0, EndsAre
<1> QED BY <1>1, <1>2, <1>3, <1>4, <1>5, <1>6, <1>7, <1>8, <1>9, <1>10

(***************************************************************************)
(* Types, and what the stage of a process says of its command.             *)
(***************************************************************************)

Fits(c, stage) ==
    /\ c.target # None <=> stage \in Rewriting
    /\ stage \in Ended => c = NoJob
    /\ stage \in {"wipe", "mkdir"} => c.made = {} /\ c.part = {}
    /\ stage = "sync" => c.op \in Syncing
    /\ c.target \in Bundled \cup Retired => c.op \in Syncing
    /\ c.target \in External => c.op \in Changing
    /\ stage \in {"mkdir", "write"} => c.target \notin Retired /\ c.op # "uninstall"
    /\ c.made \cap c.part = {} /\ \A f, g \in c.part : f = g

JobsFit == \A p \in Sessions : Fits(job[p], pc[p])

TypedJobs == PluginsTypeOK /\ JobsFit

(* One process takes a step, and its command fits its stage after it. *)
StepFits(p) == \E c, s : Moves(p, c, s) /\ Fits(c, s)

LEMMA NoJobFits ==
    ASSUME NEW s \in Ended PROVE Fits(NoJob, s)
BY NoJobIs, VersionsAssumption DEF Fits, Ended, Rewriting, Plugins, Syncing

LEMMA CommandFits ==
    ASSUME TypedJobs, NEW p \in Sessions, Command(p) \/ Reload(p)
    PROVE  StepFits(p)
<1>1. PICK c, s : Moves(p, c, s) /\ Entry(c, s)
  BY CommandIs, ReloadIs DEF TypedJobs
<1>2. CASE s \in {"refused", "unreadable"} /\ c = NoJob
  BY <1>1, <1>2, NoJobFits DEF Ended, StepFits
<1>3. CASE s = "sync" /\ c.op \in Syncing /\ c.target = None
  BY <1>1, <1>3, VersionsAssumption
     DEF StepFits, Entry, Fits, Ended, Rewriting, Plugins
<1>4. CASE s = "wipe" /\ c.op \in Changing /\ c.target \in External
  <2>1. c.target # None /\ c.target \notin Bundled \cup Retired
    BY <1>4, VersionsAssumption, KindsAssumption DEF Plugins
  <2> QED BY <1>1, <1>4, <2>1 DEF StepFits, Entry, Fits, Ended, Rewriting
<1> QED BY <1>1, <1>2, <1>3, <1>4 DEF Entry

LEMMA SyncFits ==
    ASSUME TypedJobs, NEW p \in Sessions, SyncBundled(p) \/ Prune(p) \/ Synced(p)
    PROVE  StepFits(p)
<1>1. /\ Fits(job[p], "sync") /\ pc[p] = "sync" /\ job[p] \in Job
      /\ job[p].op \in Syncing /\ job[p].target = None
  BY DEF TypedJobs, JobsFit, PluginsTypeOK, SyncBundled, Prune, Synced, InStage, Fits, Rewriting
<1>2. \A q \in Bundled \cup Retired : q # None /\ q \notin External
  BY VersionsAssumption, KindsAssumption DEF Plugins
<1>3. CASE SyncBundled(p)
  <2>1. PICK b \in Bundled \ job[p].checked : \E c, s :
              /\ Moves(p, c, s) /\ SameCommand(c, job[p])
              /\ \/ s = "wipe" /\ c.target = b /\ c.made = {} /\ c.part = {}
                 \/ s = "sync" /\ SameFiles(c, job[p])
    BY <1>3, SyncBundledIs DEF TypedJobs
  <2>2. PICK c, s :
              /\ Moves(p, c, s) /\ SameCommand(c, job[p])
              /\ \/ s = "wipe" /\ c.target = b /\ c.made = {} /\ c.part = {}
                 \/ s = "sync" /\ SameFiles(c, job[p])
    BY <2>1
  <2>3. Fits(c, s)
    BY <1>1, <1>2, <2>2 DEF Fits, SameCommand, SameFiles, Rewriting, Ended
  <2> QED BY <2>2, <2>3 DEF StepFits
<1>4. CASE Prune(p)
  <2>1. PICK q \in Retired : \E c :
              /\ Moves(p, c, "wipe") /\ SameCommand(c, job[p])
              /\ c.target = q /\ c.made = {} /\ c.part = {}
    BY <1>4, PruneIs DEF TypedJobs
  <2>2. PICK c : /\ Moves(p, c, "wipe") /\ SameCommand(c, job[p])
                 /\ c.target = q /\ c.made = {} /\ c.part = {}
    BY <2>1
  <2>3. Fits(c, "wipe")
    BY <1>1, <1>2, <2>2 DEF Fits, SameCommand, Rewriting, Ended
  <2> QED BY <2>2, <2>3 DEF StepFits
<1>5. CASE Synced(p)
  <2>1. PICK c : /\ Moves(p, c, IF job[p].changed THEN "truncate" ELSE "discover")
                 /\ SameCommand(c, job[p]) /\ SameFiles(c, job[p])
    BY <1>5, SyncedIs DEF TypedJobs
  <2>2. Fits(c, IF job[p].changed THEN "truncate" ELSE "discover")
    BY <1>1, <2>1 DEF Fits, SameCommand, SameFiles, Rewriting, Ended
  <2> QED BY <2>1, <2>2 DEF StepFits
<1> QED BY <1>3, <1>4, <1>5

LEMMA TargetIs ==
    ASSUME TypedJobs, NEW p \in Sessions, pc[p] \in Rewriting
    PROVE  /\ job[p].target \in Plugins /\ job[p].target # None
           /\ \/ job[p].target \in Bundled \cup Retired /\ job[p].op \in Syncing
              \/ job[p].target \in External /\ job[p].op \in Changing
<1>1. job[p].target \in Plugins \cup {None} /\ Fits(job[p], pc[p])
  BY JobParts DEF TypedJobs, JobsFit, PluginsTypeOK
<1> QED BY <1>1 DEF Fits, Plugins

LEMMA FilesFit ==
    ASSUME TypedJobs, NEW p \in Sessions,
           Remove(p) \/ MakeDir(p) \/ OpenPart(p) \/ Fill(p)
    PROVE  StepFits(p)
<1>1. job[p] \in Job /\ Fits(job[p], pc[p]) /\ PluginsTypeOK
  BY DEF TypedJobs, JobsFit, PluginsTypeOK
<1>2. CASE Remove(p)
  BY <1>1, <1>2, RemainingAre DEF StepFits
<1>3. CASE MakeDir(p)
  <2>1. Fits(job[p], "write")
    BY <1>1, <1>3, RemainingAre DEF Fits, Rewriting, Ended
  <2> QED BY <1>1, <1>3, <2>1, RemainingAre DEF StepFits
<1>4. CASE OpenPart(p)
  <2>1. PICK f \in Parts \ job[p].made : \E c :
           /\ Moves(p, c, "write") /\ SameRest(c, job[p]) /\ c.made = job[p].made /\ c.part = {f}
    BY <1>1, <1>4, OpenPartIs
  <2>2. PICK c : /\ Moves(p, c, "write") /\ SameRest(c, job[p])
                 /\ c.made = job[p].made /\ c.part = {f}
    BY <2>1
  <2>3. Fits(c, "write")
    BY <1>1, <1>4, <2>2, OpenPartIs DEF Fits, SameRest, SameCommand, Rewriting, Ended
  <2> QED BY <2>2, <2>3 DEF StepFits
<1>5. CASE Fill(p)
  <2>1. PICK f \in job[p].part : \E c :
           /\ Moves(p, c, "write") /\ SameRest(c, job[p])
           /\ c.made = job[p].made \cup {f} /\ c.part = {}
    BY <1>1, <1>5, FillIs
  <2>2. PICK c : /\ Moves(p, c, "write") /\ SameRest(c, job[p])
                 /\ c.made = job[p].made \cup {f} /\ c.part = {}
    BY <2>1
  <2>3. Fits(c, "write")
    BY <1>1, <1>5, <2>2, FillIs DEF Fits, SameRest, SameCommand, Rewriting, Ended
  <2> QED BY <2>2, <2>3 DEF StepFits
<1> QED BY <1>2, <1>3, <1>4, <1>5

LEMMA RemovedFits ==
    ASSUME TypedJobs, NEW p \in Sessions, Removed(p)
    PROVE  StepFits(p)
<1>1. /\ pc[p] = "wipe" /\ pc[p] \in Rewriting /\ Fits(job[p], "wipe") /\ PluginsTypeOK
      /\ job[p].made = {} /\ job[p].part = {}
  BY DEF TypedJobs, JobsFit, Removed, InStage, Fits, Rewriting
<1>2. /\ job[p].target # None
      /\ job[p].target \in Bundled => job[p].op \in Syncing /\ job[p].target \notin Retired
      /\ job[p].target \in Retired => job[p].op \in Syncing
      /\ job[p].op \in Changing => job[p].target \notin Bundled \cup Retired
  <2>1. /\ job[p].target # None
        /\ \/ job[p].target \in Bundled \cup Retired /\ job[p].op \in Syncing
           \/ job[p].target \in External /\ job[p].op \in Changing
    BY <1>1, TargetIs
  <2>2. \A o \in Syncing : o \notin Changing
    BY DEF Syncing, Changing
  <2>3. \A q \in External : q \notin Bundled \cup Retired
    BY KindsAssumption
  <2>4. \A q \in Bundled : q \notin Retired
    BY KindsAssumption
  <2> HIDE DEF Syncing, Changing
  <2> QED BY <2>1, <2>2, <2>3, <2>4
<1>3. PICK c, s : RemovedTo(p, c, s)
  BY <1>1, RemovedIs
<1>4. None \notin Bundled \cup Retired \cup External
  BY VersionsAssumption DEF Plugins
<1>5. CASE /\ job[p].target \in Bundled \/ job[p].op \in {"install", "update"}
           /\ s = "mkdir" /\ c = job[p]
  <2>1. Fits(c, s)
    BY <1>1, <1>2, <1>5 DEF Fits, Rewriting, Ended, Syncing, Changing
  <2> QED BY <1>3, <2>1 DEF StepFits, RemovedTo
<1>6. CASE job[p].target \in Retired /\ s = "sync" /\ c.target = None
  <2>1. Fits(c, s)
    BY <1>1, <1>2, <1>3, <1>4, <1>6 DEF Fits, SameCommand, Rewriting, Ended, RemovedTo
  <2> QED BY <1>3, <2>1 DEF StepFits, RemovedTo
<1>7. CASE job[p].op = "uninstall" /\ s = "truncate" /\ c.target = None
  <2>1. Fits(c, s)
    BY <1>1, <1>3, <1>4, <1>7 DEF Fits, SameCommand, Rewriting, Ended, RemovedTo
  <2> QED BY <1>3, <2>1 DEF StepFits, RemovedTo
<1> QED BY <1>3, <1>5, <1>6, <1>7 DEF RemovedTo

LEMMA CopiedFits ==
    ASSUME TypedJobs, NEW p \in Sessions, Copied(p)
    PROVE  StepFits(p)
<1>1. /\ pc[p] = "write" /\ pc[p] \in Rewriting /\ Fits(job[p], "write") /\ PluginsTypeOK
  BY DEF TypedJobs, JobsFit, Copied, InStage, Fits, Rewriting
<1>2. job[p].target \in Bundled => job[p].op \in Syncing
  BY <1>1, TargetIs, KindsAssumption
<1>3. CASE CopiedFor(p)
  BY <1>3, NoJobFits DEF CopiedFor, StepFits, Ended
<1>4. ASSUME NEW c, NEW s, CopiedTo(p, c, s) PROVE StepFits(p)
  <2>1. None \notin Bundled \cup Retired \cup External
    BY VersionsAssumption DEF Plugins
  <2>2. Fits(c, s)
    BY <1>1, <1>2, <1>4, <2>1 DEF Fits, SameCommand, Rewriting, Ended, CopiedTo
  <2> QED BY <1>4, <2>2 DEF StepFits, CopiedTo
<1> QED BY <1>1, <1>3, <1>4, CopiedIs

LEMMA ProceedsFit ==
    ASSUME TypedJobs, NEW p \in Sessions, NEW s \in Sequels,
           job[p].target = None, Proceeds(p, s)
    PROVE  StepFits(p)
<1>1. Fits(job[p], pc[p])
  BY DEF TypedJobs, JobsFit
<1>2. PICK c : /\ Moves(p, c, s)
               /\ \/ s \in Ended /\ c = NoJob
                  \/ s \notin Ended /\ SameFiles(c, job[p])
  BY DEF Proceeds
<1>3. CASE s \in Ended /\ c = NoJob
  BY <1>2, <1>3, NoJobFits DEF StepFits
<1>4. CASE s \notin Ended /\ SameFiles(c, job[p])
  <2>1. Fits(c, s)
    BY <1>1, <1>4, VersionsAssumption DEF Fits, SameFiles, Rewriting, Plugins, Sequels
  <2> QED BY <1>2, <2>1 DEF StepFits
<1> QED BY <1>2, <1>3, <1>4

LEMMA EndFits ==
    ASSUME TypedJobs, NEW p \in Sessions,
           Fail(p) \/ Abort(p) \/ Truncate(p) \/ Store(p) \/ Discover(p) \/ ReadSettings(p)
           \/ ClearSettings(p) \/ SaveSettings(p)
    PROVE  StepFits(p)
<1>1. /\ job[p] \in Job /\ Fits(job[p], pc[p]) /\ PluginsTypeOK
      /\ job[p].after \in Sequels
  BY JobParts DEF TypedJobs, JobsFit, PluginsTypeOK
<1>2. None \notin Bundled \cup Retired \cup External
  BY VersionsAssumption DEF Plugins
<1>3. CASE Fail(p) \/ Abort(p)
  BY <1>1, <1>3, RemainingAre, NoJobFits DEF StepFits, Ended
<1>4. CASE Truncate(p) \/ ClearSettings(p) \/ SaveSettings(p)
  <2>1. PICK s \in {"store", "save", "ok"} : Moves(p, job[p], s)
    BY <1>1, <1>4, RemainingAre
  <2>2. pc[p] \in {"truncate", "clear", "save"}
    BY <1>4 DEF Truncate, ClearSettings, SaveSettings, InStage
  <2>3. Fits(job[p], s)
    BY <1>1, <2>2 DEF Fits, Rewriting, Ended
  <2> QED BY <2>1, <2>3 DEF StepFits
<1>5. CASE Store(p)
  <2>1. job[p].target = None
    BY <1>1, <1>5, RemainingAre DEF Fits, Rewriting
  <2> QED BY <1>1, <1>5, <2>1, RemainingAre, ProceedsFit
<1>6. CASE Discover(p)
  <2>1. job[p].target = None /\ pc[p] = "discover"
    BY <1>1, <1>6 DEF Discover, InStage, Fits, Rewriting
  <2>2. Outcome(p) \in Sequels
    BY DEF Outcome, Sequels
  <2>3. CASE Moves(p, NoJob, "broken") \/ Moves(p, NoJob, "unreadable")
    BY <2>3, NoJobFits DEF StepFits, Ended
  <2>4. CASE Proceeds(p, Outcome(p))
    BY <2>1, <2>2, <2>4, ProceedsFit
  <2>5. CASE \E c : Moves(p, c, "truncate") /\ SameCommand(c, job[p]) /\ SameFiles(c, job[p])
    <3>1. PICK c : Moves(p, c, "truncate") /\ SameCommand(c, job[p]) /\ SameFiles(c, job[p])
      BY <2>5
    <3>2. Fits(c, "truncate")
      BY <1>1, <1>2, <2>1, <3>1 DEF Fits, SameFiles, SameCommand, Rewriting, Ended
    <3> QED BY <3>1, <3>2 DEF StepFits
  <2> QED BY <1>1, <1>6, <2>3, <2>4, <2>5, DiscoverIs
<1>7. CASE ReadSettings(p)
  <2>1. pc[p] = "settings"
    BY <1>1, <1>7, RemainingAre
  <2>2. CASE Moves(p, NoJob, "unreadable")
    BY <2>2, NoJobFits DEF StepFits, Ended
  <2>3. ASSUME NEW c, Moves(p, c, "clear"), SameFiles(c, job[p]) PROVE StepFits(p)
    <3>1. Fits(c, "clear")
      BY <1>1, <1>2, <2>1, <2>3 DEF Fits, SameFiles, Rewriting, Ended
    <3> QED BY <2>3, <3>1 DEF StepFits
  <2> QED BY <1>1, <1>7, <2>2, <2>3, RemainingAre
<1> QED BY <1>3, <1>4, <1>5, <1>6, <1>7

LEMMA StepsFit ==
    ASSUME TypedJobs, NEW p \in Sessions, Command(p) \/ SessionStep(p) \/ Abort(p)
    PROVE  StepFits(p)
BY CommandFits, SyncFits, FilesFit, RemovedFits, CopiedFits, EndFits DEF SessionStep

(* One file of a directory gets a content. *)
Sets(q, f, v) ==
    /\ dir'[q][f] = v /\ \A g \in Parts \ {f} : dir'[q][g] = dir[q][g]
    /\ \A r \in Plugins \ {q} : dir'[r] = dir[r]

LEMMA DirChanged ==
    ASSUME dir \in [Plugins -> Contents], NEW q \in Plugins, NEW f \in Parts,
           NEW v \in Versions \cup {"absent", "torn"}, dir' = [dir EXCEPT ![q][f] = v]
    PROVE  dir' \in [Plugins -> Contents] /\ Sets(q, f, v)
<1>1. dir[q] \in Contents
  OBVIOUS
<1> DEFINE new == [dir[q] EXCEPT ![f] = v]
<1>2. new \in Contents
  BY <1>1 DEF Contents
<1>3. new[f] = v /\ \A g \in Parts \ {f} : new[g] = dir[q][g]
  BY <1>1 DEF Contents
<1>4. dir' = [dir EXCEPT ![q] = new]
  OBVIOUS
<1> HIDE DEF new
<1>5. dir' \in [Plugins -> Contents] /\ dir'[q] = new
  BY <1>2, <1>4
<1> QED BY <1>3, <1>4, <1>5 DEF Sets

LEMMA DirTyped ==
    ASSUME TypedJobs, NEW p \in Sessions, Remove(p) \/ OpenPart(p) \/ Fill(p)
    PROVE  dir' \in [Plugins -> Contents]
<1>0. dir \in [Plugins -> Contents] /\ PluginsTypeOK /\ job[p] \in Job
  BY DEF TypedJobs, PluginsTypeOK
<1>1. pc[p] \in Rewriting
  BY DEF Remove, OpenPart, Fill, InStage, Rewriting
<1>2. job[p].target \in Plugins
  BY <1>1, TargetIs
<1>3. CASE Remove(p)
  BY <1>0, <1>2, <1>3, DirChanged DEF Remove
<1>4. CASE OpenPart(p)
  BY <1>0, <1>2, <1>4, DirChanged DEF OpenPart
<1>5. CASE Fill(p)
  <2>1. PICK f \in job[p].part :
          dir' = [dir EXCEPT ![job[p].target][f] = IF @ = "absent" THEN @ ELSE Written(p)]
    BY <1>5 DEF Fill
  <2>2. f \in Parts
    BY <1>0, JobParts
  <2> DEFINE v == IF dir[job[p].target][f] = "absent" THEN "absent" ELSE Written(p)
  <2>3. v \in Versions \cup {"absent", "torn"}
    BY <1>0, JobParts, VersionsAssumption DEF Written
  <2>4. dir' = [dir EXCEPT ![job[p].target][f] = v]
    BY <1>0, <1>2, <2>1, <2>2
  <2> HIDE DEF v
  <2> QED BY <1>0, <1>2, <2>2, <2>3, <2>4, DirChanged
<1> QED BY <1>3, <1>4, <1>5

LEMMA HomeTyped ==
    ASSUME TypedJobs, NEW p \in Sessions, Command(p) \/ SessionStep(p) \/ Abort(p)
    PROVE  /\ there' \subseteq Plugins /\ dir' \in [Plugins -> Contents]
           /\ registry' \in Records /\ settings' \in Choices
<1>0. /\ there \subseteq Plugins /\ dir \in [Plugins -> Contents]
      /\ registry \in Records /\ settings \in Choices /\ job[p] \in Job
      /\ job[p].reg \in Records /\ job[p].copy \in Choices
  BY JobParts DEF TypedJobs, PluginsTypeOK
<1>1. CASE Remove(p) \/ OpenPart(p) \/ Fill(p)
  BY <1>0, <1>1, DirTyped DEF Remove, OpenPart, Fill, texts
<1>2. CASE Removed(p) \/ MakeDir(p)
  <2>1. job[p].target \in Plugins
    BY <1>2, TargetIs DEF Removed, MakeDir, InStage, Rewriting
  <2> QED BY <1>0, <1>2, <2>1 DEF Removed, MakeDir, texts
<1>3. CASE Truncate(p) \/ Store(p)
  BY <1>0, <1>3, NoJobIs DEF Truncate, Store, trees
<1>4. CASE ClearSettings(p) \/ SaveSettings(p)
  <2>1. Choice(p) \in {"on", "off", "unset"}
    BY DEF Choice
  <2> QED BY <1>0, <1>4, <2>1, NoJobIs DEF ClearSettings, SaveSettings, trees, Choices
<1>6. CASE Abort(p)
  BY <1>0, <1>6, NoJobIs DEF Abort, LeftUnfinished, trees, texts
<1>5. CASE UNCHANGED home
  BY <1>0, <1>5 DEF home, trees, texts
<1> QED BY <1>1, <1>2, <1>3, <1>4, <1>5, <1>6
        DEF Command, SessionStep, SyncBundled, Prune, Synced, Copied, Fail, Discover,
            ReadSettings, Reload

(* What a step does to the texts that are no JSON, or may be so soon.       *)
TextsKept    == garbled' = garbled /\ spoilt' = spoilt /\ overlaid' = overlaid
TextTouched(p, t) ==
    /\ garbled' \in {garbled \cup {t}, garbled \ {t}} /\ spoilt' \in {spoilt, spoilt \cup {t}}
    /\ t \in garbled' => t \in spoilt'
    /\ overlaid' = (overlaid \cup Filling(t)) \ {p}

LEMMA TextsStep ==
    ASSUME NEW p \in Sessions, Command(p) \/ SessionStep(p) \/ Abort(p), PluginsTypeOK
    PROVE  \/ TextsKept /\ p \notin Filling("registry") \cup Filling("settings")
           \/ \E t \in Texts : Emptied(t) /\ p \notin Filling("registry") \cup Filling("settings")
           \/ \E t \in Texts : p \in Filling(t) /\ TextTouched(p, t)
<1>0. pc \in [Sessions -> Stages]
  BY DEF PluginsTypeOK
<1>1. CASE Truncate(p) \/ ClearSettings(p)
  BY <1>1 DEF Truncate, ClearSettings, InStage, Filling, Texts
<1>2. CASE Store(p)
  <2>1. PICK garbles \in BOOLEAN :
           (garbles => p \in overlaid) /\ Touched(p, "registry", garbles, p \in overlaid)
    BY <1>2 DEF Store
  <2>2. pc[p] = "store"
    BY <1>2 DEF Store, InStage
  <2>3. TextTouched(p, "registry")
    BY <2>1 DEF Touched, TextTouched
  <2> QED BY <2>2, <2>3 DEF Filling, Texts
<1>3. CASE SaveSettings(p)
  <2>1. PICK garbles \in BOOLEAN :
           (garbles => p \in overlaid) /\ Touched(p, "settings", garbles, p \in overlaid)
    BY <1>3 DEF SaveSettings
  <2>2. pc[p] = "save"
    BY <1>3 DEF SaveSettings, InStage
  <2>3. TextTouched(p, "settings")
    BY <2>1 DEF Touched, TextTouched
  <2> QED BY <2>2, <2>3 DEF Filling, Texts
<1>4. CASE Abort(p)
  <2>1. ASSUME NEW t \in Texts, p \in Filling(t), LeftUnfinished(p, t)
        PROVE  p \in Filling(t) /\ TextTouched(p, t)
    BY <2>1 DEF LeftUnfinished, TextTouched, Touched
  <2> QED BY <1>4, <2>1 DEF Abort, texts, TextsKept
<1>5. CASE ~InStage(p, "store") /\ ~InStage(p, "save") /\ UNCHANGED texts
  BY <1>5 DEF texts, TextsKept, Filling, InStage
<1> QED BY <1>1, <1>2, <1>3, <1>4, <1>5
        DEF Command, SessionStep, SyncBundled, Prune, Synced, Remove, Removed, MakeDir, OpenPart,
            Fill, Copied, Fail, Discover, ReadSettings, Reload, InStage, AtRest, Ended, home

LEMMA TextsTyped ==
    ASSUME TypedJobs, NEW p \in Sessions, Command(p) \/ SessionStep(p) \/ Abort(p)
    PROVE  garbled' \subseteq Texts /\ overlaid' \subseteq Sessions /\ spoilt' \subseteq Texts
<1>0. PluginsTypeOK /\ garbled \subseteq Texts /\ overlaid \subseteq Sessions /\ spoilt \subseteq Texts
  BY DEF TypedJobs, PluginsTypeOK
<1>1. \A t : Filling(t) \subseteq Sessions
  BY DEF Filling
<1>2. CASE TextsKept
  BY <1>0, <1>2 DEF TextsKept
<1>3. ASSUME NEW t \in Texts, Emptied(t) \/ TextTouched(p, t)
      PROVE  garbled' \subseteq Texts /\ overlaid' \subseteq Sessions /\ spoilt' \subseteq Texts
  BY <1>0, <1>1, <1>3 DEF Emptied, TextTouched
<1> QED BY <1>0, <1>2, <1>3, TextsStep

LEMMA HistoryTyped ==
    ASSUME TypedJobs, NEW p \in Sessions, Command(p) \/ SessionStep(p) \/ Abort(p)
    PROVE  /\ alone' \subseteq Sessions /\ cut' \subseteq Plugins /\ hurt' \subseteq Plugins
           /\ asked' \in 0 .. MaxAsked /\ aborts' \in 0 .. MaxAborts
<1>0. /\ alone \subseteq Sessions /\ cut \subseteq Plugins /\ hurt \subseteq Plugins
      /\ asked \in 0 .. MaxAsked /\ aborts \in 0 .. MaxAborts
      /\ job[p].target \in Plugins \cup {None}
  BY JobParts DEF TypedJobs, PluginsTypeOK
<1>1. CASE Command(p)
  <2>1. /\ alone' \in {{p}, {}} /\ cut' = cut /\ hurt' = hurt /\ aborts' = aborts
        /\ asked < MaxAsked /\ asked' = asked + 1
    BY <1>1 DEF Command
  <2> QED BY <1>0, <2>1, CountsAssumption
<1>2. CASE Abort(p)
  BY <1>0, <1>2, CountsAssumption DEF Abort, CutShort
<1>3. CASE Copied(p)
  BY <1>0, <1>3 DEF Copied, counts
<1>4. CASE Fail(p)
  BY <1>0, <1>4 DEF Fail, CutShort, counts
<1>5. CASE UNCHANGED <<history, counts>>
  BY <1>0, <1>5 DEF history, counts
<1> QED BY <1>1, <1>2, <1>3, <1>4, <1>5
        DEF SessionStep, SyncBundled, Prune, Synced, Remove, Removed, MakeDir, OpenPart, Fill,
            Truncate, Store, Discover, ReadSettings, ClearSettings, SaveSettings, Reload

LEMMA TypedFirst == PluginsInit => TypedJobs
<1> SUFFICES ASSUME PluginsInit PROVE TypedJobs
  OBVIOUS
<1>1. there \subseteq Plugins /\ registry \in Records /\ settings \in Choices
  BY NoJobIs DEF PluginsInit, Plugins, Records, Choices
<1>2. \A v \in Versions : Whole(v) \in Contents /\ Missing \in Contents
  BY DEF Whole, Missing, Contents
<1>3. dir \in [Plugins -> Contents]
  <2>1. CASE dir = [q \in Plugins |-> Missing]
    <3>1. Missing \in Contents
      BY DEF Missing, Contents
    <3> QED BY <2>1, <3>1
  <2>2. CASE \E v \in Versions, e \in SUBSET External :
               dir = [q \in Plugins |-> IF q \in Bundled \cup Retired \cup e
                                        THEN Whole(v) ELSE Missing]
    BY <1>2, <2>2
  <2> QED BY <2>1, <2>2 DEF PluginsInit
<1>4. pc \in [Sessions -> Stages] /\ job \in [Sessions -> Job]
  BY NoJobIs DEF PluginsInit, Stages, Ended
<1>5. JobsFit
  BY NoJobFits DEF PluginsInit, JobsFit, Ended
<1> QED BY <1>1, <1>3, <1>4, <1>5, CountsAssumption DEF PluginsInit, TypedJobs, PluginsTypeOK

LEMMA TypedStays == TypedJobs /\ [PluginsNext]_pluginVars => TypedJobs'
<1> SUFFICES ASSUME TypedJobs, [PluginsNext]_pluginVars PROVE TypedJobs'
  OBVIOUS
<1>1. ASSUME NEW p \in Sessions, Command(p) \/ SessionStep(p) \/ Abort(p)
      PROVE  TypedJobs'
  <2>1. PICK c, s : Moves(p, c, s) /\ Fits(c, s)
    BY <1>1, StepsFit DEF StepFits
  <2>2. /\ job' \in [Sessions -> Job] /\ pc' \in [Sessions -> Stages]
        /\ job'[p] = c /\ pc'[p] = s
        /\ \A r \in Sessions \ {p} : job'[r] = job[r] /\ pc'[r] = pc[r]
    BY <2>1, MovesAre DEF TypedJobs
  <2>3. \A r \in Sessions : Fits(job'[r], pc'[r])
    BY <2>1, <2>2 DEF TypedJobs, JobsFit
  <2> QED BY <1>1, <2>2, <2>3, HomeTyped, TextsTyped, HistoryTyped DEF TypedJobs, PluginsTypeOK, JobsFit
<1>2. CASE UNCHANGED pluginVars
  BY <1>2 DEF TypedJobs, PluginsTypeOK, JobsFit, pluginVars, home, trees, texts, history, counts
<1> QED BY <1>1, <1>2 DEF PluginsNext, Finished

(* Type correctness of the plugins. *)
THEOREM PluginsTypeCorrect == PluginsSpec => []PluginsTypeOK
<1>1. TypedJobs => PluginsTypeOK
  BY DEF TypedJobs
<1> QED BY <1>1, TypedFirst, TypedStays, PTL DEF PluginsSpec

(***************************************************************************)
(* What a step of a process does to the directory of one plugin.           *)
(***************************************************************************)

SameTree(q)     == dir'[q] = dir[q] /\ (q \in there' <=> q \in there)
SameWork(p)     == SameFiles(job'[p], job[p])
SameBut(q, f)   == (q \in there' <=> q \in there) /\ \A g \in Parts \ {f} : dir'[q][g] = dir[q][g]
WorksOn(p, q)   == job[p].target = q

Quiet(p, q) ==
    /\ SameTree(q)
    /\ WorksOn(p, q) => SameWork(p)
    /\ ~WorksOn(p, q) => \/ job'[p].target # q
                         \/ job'[p].target = q /\ job'[p].made = {} /\ job'[p].part = {}

Wipes(p, q) ==
    /\ WorksOn(p, q) /\ pc[p] = "wipe" /\ SameWork(p)
    /\ \E f \in Parts : SameBut(q, f) /\ dir'[q][f] = "absent"

Rids(p, q) ==
    /\ WorksOn(p, q) /\ pc[p] = "wipe" /\ dir[q] = Missing /\ dir'[q] = dir[q] /\ q \notin there'
    /\ \/ job'[p].target = None /\ q \notin Bundled
       \/ SameWork(p) /\ pc'[p] = "mkdir"

Makes(p, q) ==
    /\ WorksOn(p, q) /\ pc[p] = "mkdir" /\ SameWork(p) /\ dir'[q] = dir[q]

Opens(p, q) ==
    /\ WorksOn(p, q) /\ pc[p] = "write" /\ q \in there /\ job[p].part = {}
    /\ \E f \in Parts \ job[p].made :
          /\ SameBut(q, f) /\ dir'[q][f] = "torn"
          /\ job'[p].target = q /\ job'[p].made = job[p].made /\ job'[p].part = {f}

Fills(p, q) ==
    /\ WorksOn(p, q) /\ pc[p] = "write"
    /\ \E f \in job[p].part :
          /\ f \in Parts /\ SameBut(q, f)
          /\ dir'[q][f] = IF dir[q][f] = "absent" THEN "absent" ELSE Written(p)
          /\ job'[p].target = q /\ job'[p].made = job[p].made \cup {f} /\ job'[p].part = {}

Leaves(p, q) ==
    /\ WorksOn(p, q) /\ pc[p] = "write" /\ job[p].made = Parts
    /\ SameTree(q) /\ job'[p].target = None

GivesUp(p, q) ==
    /\ WorksOn(p, q) /\ SameTree(q) /\ job'[p] = NoJob
    /\ registry' = registry /\ q \in cut' /\ (p \in alone \/ q \in hurt')

TreeStep(p, q) ==
    \/ Quiet(p, q) \/ Wipes(p, q) \/ Rids(p, q) \/ Makes(p, q)
    \/ Opens(p, q) \/ Fills(p, q) \/ Leaves(p, q) \/ GivesUp(p, q)

(* What was cut short is made good only by who is alone.                     *)
Forgives(p, q) ==
    (q \in cut /\ q \notin cut') \/ (q \in hurt /\ q \notin hurt') =>
        p \in alone /\ Leaves(p, q) /\ q \in Bundled \cup External

Discovered == {"unreadable", "broken", "listed", "settings", "unknown", "truncate"}

(* Only a process that rewrites nothing, before and after, or begins to.     *)
LEMMA QuietSteps ==
    ASSUME TypedJobs, NEW p \in Sessions, NEW q \in Plugins,
           \/ Command(p) \/ SyncBundled(p) \/ Prune(p) \/ Synced(p)
           \/ Truncate(p) \/ Store(p) \/ Discover(p)
           \/ ReadSettings(p) \/ ClearSettings(p) \/ SaveSettings(p) \/ Reload(p)
    PROVE  Quiet(p, q)
<1>1. there' = there /\ dir' = dir
  BY DEF Command, SyncBundled, Prune, Synced, Truncate, Store, Discover, ReadSettings,
         ClearSettings, SaveSettings, Reload, home, trees, texts
<1>2. pc[p] \notin Rewriting
  BY DEF Command, SyncBundled, Prune, Synced, Truncate, Store, Discover, ReadSettings,
         ClearSettings, SaveSettings, Reload, InStage, AtRest, Ended, Rewriting
<1>3. ~WorksOn(p, q)
  BY <1>2, VersionsAssumption DEF TypedJobs, JobsFit, Fits, WorksOn
<1>4. PICK c, s : Moves(p, c, s) /\ Fits(c, s)
  BY StepsFit DEF StepFits, SessionStep
<1>5. job'[p] = c /\ pc'[p] = s
  BY <1>4, MovesAre DEF TypedJobs
<1>6. job'[p].target = None \/ pc'[p] \in Rewriting
  BY <1>4, <1>5 DEF Fits
<1>7. pc'[p] \in {"wipe", "mkdir", "write"} => pc'[p] = "wipe"
  <2>1. CASE Command(p) \/ Reload(p)
    <3>1. PICK d, t : Moves(p, d, t) /\ Entry(d, t)
      BY <2>1, CommandIs, ReloadIs DEF TypedJobs
    <3>2. pc'[p] = t
      BY <3>1, MovesAre DEF TypedJobs
    <3> QED BY <3>1, <3>2 DEF Entry
  <2>2. CASE Discover(p)
    <3>1. \E d, t : Moves(p, d, t) /\ t \in Discovered
      BY <2>2, DiscoverIs DEF TypedJobs, Proceeds, Discovered
    <3> QED BY <3>1, MovesAre DEF TypedJobs, Discovered
  <2>3. CASE Store(p)
    <3>1. \E d, t : Moves(p, d, t) /\ t \in Sequels
      BY <2>3, RemainingAre, JobParts DEF TypedJobs, Proceeds, PluginsTypeOK
    <3> QED BY <3>1, MovesAre DEF TypedJobs, Sequels
  <2>5. CASE ReadSettings(p)
    <3>1. \E d, t : Moves(p, d, t) /\ t \in {"clear", "unreadable"}
      BY <2>5, RemainingAre DEF TypedJobs
    <3> QED BY <3>1, MovesAre DEF TypedJobs
  <2>4. CASE \/ SyncBundled(p) \/ Prune(p) \/ Synced(p) \/ Truncate(p)
             \/ ClearSettings(p) \/ SaveSettings(p)
    <3>1. pc[p] # "mkdir" /\ pc \in [Sessions -> Stages]
      BY <1>2 DEF TypedJobs, PluginsTypeOK, Rewriting
    <3>2. pc[p] \notin {"mkdir", "write"}
      BY <1>2 DEF Rewriting
    <3> QED BY <2>4, <3>1, <3>2 DEF SyncBundled, Prune, Synced, Truncate, ClearSettings,
               SaveSettings, Go
  <2> QED BY <2>1, <2>2, <2>3, <2>4, <2>5
<1>8. job'[p].target = q => job'[p].made = {} /\ job'[p].part = {}
  BY <1>4, <1>5, <1>6, <1>7, VersionsAssumption DEF Fits, Rewriting
<1> QED BY <1>1, <1>3, <1>8 DEF Quiet, SameTree

(* A step that ends up with the work it had, or with none.                   *)
LEMMA ElsewhereQuiet ==
    ASSUME NEW p \in Sessions, NEW q \in Plugins, ~WorksOn(p, q), SameTree(q),
           job'[p].target \in {job[p].target, None}
    PROVE  Quiet(p, q)
BY VersionsAssumption DEF Quiet, WorksOn

LEMMA RemoveOnTree ==
    ASSUME TypedJobs, NEW p \in Sessions, NEW q \in Plugins, Remove(p)
    PROVE  TreeStep(p, q)
<1>1. /\ pc[p] = "wipe" /\ there' = there /\ job' = job /\ dir \in [Plugins -> Contents]
      /\ job[p].target \in Plugins
  BY TargetIs DEF Remove, InStage, TypedJobs, PluginsTypeOK, Rewriting
<1>2. PICK f \in Parts : dir' = [dir EXCEPT ![job[p].target][f] = "absent"]
  BY DEF Remove
<1>3. Sets(job[p].target, f, "absent")
  BY <1>1, <1>2, DirChanged
<1>4. CASE WorksOn(p, q)
  BY <1>1, <1>3, <1>4 DEF Sets, WorksOn, TreeStep, Wipes, SameBut, SameWork, SameFiles
<1>5. CASE ~WorksOn(p, q)
  BY <1>1, <1>3, <1>5, ElsewhereQuiet DEF Sets, WorksOn, TreeStep, SameTree
<1> QED BY <1>4, <1>5

LEMMA RemovedOnTree ==
    ASSUME TypedJobs, NEW p \in Sessions, NEW q \in Plugins, Removed(p)
    PROVE  TreeStep(p, q)
<1>1. /\ pc[p] = "wipe" /\ there' = there \ {job[p].target} /\ dir' = dir
      /\ dir[job[p].target] = Missing
  BY DEF Removed, InStage
<1>2. PICK c, s : RemovedTo(p, c, s)
  BY RemovedIs DEF TypedJobs
<1>3. job'[p] = c /\ pc'[p] = s
  BY <1>2, MovesAre DEF TypedJobs, RemovedTo
<1>4. \/ c.target = None /\ job[p].target \notin Bundled
      \/ c = job[p] /\ s = "mkdir"
  BY <1>2, KindsAssumption DEF RemovedTo
<1>5. CASE WorksOn(p, q)
  <2>1. Rids(p, q)
    BY <1>1, <1>3, <1>4, <1>5 DEF WorksOn, Rids, SameWork, SameFiles
  <2> QED BY <2>1 DEF TreeStep
<1>6. CASE ~WorksOn(p, q)
  <2>1. SameTree(q)
    BY <1>1, <1>6 DEF WorksOn, SameTree
  <2>2. job'[p].target \in {job[p].target, None}
    BY <1>3, <1>4
  <2> QED BY <1>6, <2>1, <2>2, ElsewhereQuiet DEF TreeStep
<1> QED BY <1>5, <1>6

LEMMA MakeDirOnTree ==
    ASSUME TypedJobs, NEW p \in Sessions, NEW q \in Plugins, MakeDir(p)
    PROVE  TreeStep(p, q)
<1>1. /\ pc[p] = "mkdir" /\ there' = there \cup {job[p].target} /\ dir' = dir /\ job' = job
  BY DEF MakeDir, InStage
<1>2. CASE WorksOn(p, q)
  BY <1>1, <1>2 DEF WorksOn, TreeStep, Makes, SameWork, SameFiles
<1>3. CASE ~WorksOn(p, q)
  <2>1. SameTree(q)
    BY <1>1, <1>3 DEF WorksOn, SameTree
  <2> QED BY <1>1, <1>3, <2>1, ElsewhereQuiet DEF TreeStep
<1> QED BY <1>2, <1>3

LEMMA OpenPartOnTree ==
    ASSUME TypedJobs, NEW p \in Sessions, NEW q \in Plugins, OpenPart(p)
    PROVE  TreeStep(p, q)
<1>1. PluginsTypeOK /\ dir \in [Plugins -> Contents] /\ there' = there
  BY DEF TypedJobs, PluginsTypeOK, OpenPart
<1>2. pc[p] = "write" /\ job[p].part = {} /\ job[p].target \in there
  BY <1>1, OpenPartIs
<1>3. job[p].target \in Plugins
  BY <1>2, TargetIs DEF Rewriting
<1>4. PICK f \in Parts \ job[p].made : \E c :
          /\ Moves(p, c, "write") /\ SameRest(c, job[p]) /\ c.made = job[p].made /\ c.part = {f}
          /\ dir' = [dir EXCEPT ![job[p].target][f] = "torn"]
  BY <1>1, OpenPartIs
<1>5. /\ job'[p].target = job[p].target /\ job'[p].made = job[p].made /\ job'[p].part = {f}
  BY <1>1, <1>4, MovesAre DEF SameRest
<1>6. Sets(job[p].target, f, "torn")
  BY <1>1, <1>3, <1>4, DirChanged
<1>7. CASE WorksOn(p, q)
  BY <1>1, <1>2, <1>5, <1>6, <1>7 DEF Sets, WorksOn, TreeStep, Opens, SameBut
<1>8. CASE ~WorksOn(p, q)
  BY <1>1, <1>5, <1>6, <1>8, ElsewhereQuiet DEF Sets, WorksOn, TreeStep, SameTree
<1> QED BY <1>7, <1>8

LEMMA FillOnTree ==
    ASSUME TypedJobs, NEW p \in Sessions, NEW q \in Plugins, Fill(p)
    PROVE  TreeStep(p, q)
<1>1. /\ PluginsTypeOK /\ dir \in [Plugins -> Contents] /\ there' = there /\ job[p] \in Job
  BY DEF TypedJobs, PluginsTypeOK, Fill
<1>2. pc[p] = "write"
  BY <1>1, FillIs
<1>3. job[p].target \in Plugins
  BY <1>2, TargetIs DEF Rewriting
<1>4. PICK f \in job[p].part : \E c :
          /\ Moves(p, c, "write") /\ SameRest(c, job[p])
          /\ c.made = job[p].made \cup {f} /\ c.part = {}
          /\ dir' = [dir EXCEPT ![job[p].target][f] = IF @ = "absent" THEN @ ELSE Written(p)]
  BY <1>1, FillIs
<1>5. /\ job'[p].target = job[p].target /\ job'[p].made = job[p].made \cup {f}
      /\ job'[p].part = {}
  BY <1>1, <1>4, MovesAre DEF SameRest
<1> DEFINE v == IF dir[job[p].target][f] = "absent" THEN "absent" ELSE Written(p)
<1>6. f \in Parts
  BY <1>1, JobParts
<1>7. v \in Versions \cup {"absent", "torn"} /\ dir' = [dir EXCEPT ![job[p].target][f] = v]
  <2>1. v \in Versions \cup {"absent", "torn"}
    BY <1>1, JobParts, VersionsAssumption DEF Written
  <2> QED BY <1>1, <1>3, <1>4, <1>6, <2>1
<1> HIDE DEF v
<1>8. Sets(job[p].target, f, v)
  BY <1>1, <1>3, <1>6, <1>7, DirChanged
<1>9. CASE WorksOn(p, q)
  <2>1. Fills(p, q)
    BY <1>1, <1>2, <1>5, <1>6, <1>8, <1>9 DEF Sets, v, WorksOn, Fills, SameBut
  <2> QED BY <2>1 DEF TreeStep
<1>10. CASE ~WorksOn(p, q)
  BY <1>1, <1>5, <1>8, <1>10, ElsewhereQuiet DEF Sets, WorksOn, TreeStep, SameTree
<1> QED BY <1>9, <1>10

LEMMA CopiedOnTree ==
    ASSUME TypedJobs, NEW p \in Sessions, NEW q \in Plugins, Copied(p)
    PROVE  TreeStep(p, q) /\ (WorksOn(p, q) => Leaves(p, q))
<1>1. /\ pc[p] = "write" /\ job[p].made = Parts /\ there' = there /\ dir' = dir
  BY DEF Copied, InStage, home, trees, texts
<1>2. \E c, s : Moves(p, c, s) /\ c.target = None
  BY CopiedIs, NoJobIs DEF TypedJobs, CopiedTo, CopiedFor
<1>3. job'[p].target = None
  BY <1>2, MovesAre DEF TypedJobs
<1>4. SameTree(q)
  BY <1>1 DEF SameTree
<1>5. CASE WorksOn(p, q)
  BY <1>1, <1>3, <1>4, <1>5 DEF Leaves, TreeStep
<1>6. CASE ~WorksOn(p, q)
  BY <1>3, <1>4, <1>6, ElsewhereQuiet DEF TreeStep
<1> QED BY <1>5, <1>6

LEMMA CutShortOnTree ==
    ASSUME TypedJobs, NEW p \in Sessions, NEW q \in Plugins, Fail(p) \/ Abort(p)
    PROVE  TreeStep(p, q)
<1>1. there' = there /\ dir' = dir /\ CutShort(p)
  BY DEF Fail, Abort, home, trees, texts
<1>2. job'[p] = NoJob
  BY RemainingAre, MovesAre DEF TypedJobs
<1>3. SameTree(q)
  BY <1>1 DEF SameTree
<1>4. CASE WorksOn(p, q)
  <2>1. pc[p] \in Rewriting
    BY <1>4, VersionsAssumption DEF TypedJobs, JobsFit, Fits, WorksOn
  <2>2. registry' = registry
    BY <2>1 DEF Fail, Abort, home, texts, Filling, Rewriting
  <2> QED BY <1>1, <1>2, <1>3, <1>4, <2>2, VersionsAssumption
         DEF WorksOn, TreeStep, GivesUp, CutShort
<1>5. CASE ~WorksOn(p, q)
  BY <1>2, <1>3, <1>5, NoJobIs, ElsewhereQuiet DEF TreeStep
<1> QED BY <1>4, <1>5

LEMMA EveryTreeStep ==
    ASSUME TypedJobs, NEW p \in Sessions, NEW q \in Plugins,
           Command(p) \/ SessionStep(p) \/ Abort(p)
    PROVE  TreeStep(p, q) /\ Forgives(p, q)
<1>1. TreeStep(p, q)
  <2>1. CASE \/ Command(p) \/ SyncBundled(p) \/ Prune(p) \/ Synced(p)
             \/ Truncate(p) \/ Store(p) \/ Discover(p)
             \/ ReadSettings(p) \/ ClearSettings(p) \/ SaveSettings(p) \/ Reload(p)
    BY <2>1, QuietSteps DEF TreeStep
  <2> QED BY <2>1, RemoveOnTree, RemovedOnTree, MakeDirOnTree, OpenPartOnTree, FillOnTree,
             CopiedOnTree, CutShortOnTree DEF SessionStep
<1>2. CASE Copied(p)
  <2>2. CASE WorksOn(p, q)
    <3>1. job[p].target \in Bundled \/ job[p].target \in External
      BY <1>2 DEF Copied
    <3>2. Leaves(p, q)
      BY <1>2, <2>2, CopiedOnTree
    <3>3. (q \in cut /\ q \notin cut') \/ (q \in hurt /\ q \notin hurt') => p \in alone
      BY <1>2 DEF Copied
    <3> QED BY <1>1, <2>2, <3>1, <3>2, <3>3 DEF Forgives, WorksOn
  <2>3. CASE ~WorksOn(p, q)
    BY <1>1, <1>2, <2>3 DEF Forgives, WorksOn, Copied
  <2> QED BY <2>2, <2>3
<1>3. CASE (q \in cut => q \in cut') /\ (q \in hurt => q \in hurt')
  BY <1>1, <1>3 DEF Forgives
<1>4. ~Copied(p) => cut \subseteq cut' /\ hurt \subseteq hurt'
  BY DEF SessionStep, Command, SyncBundled, Prune, Synced, Remove, Removed, MakeDir, OpenPart,
         Fill, Fail, Abort, CutShort, Truncate, Store, Discover, ReadSettings, ClearSettings,
         SaveSettings, Reload, history
<1> QED BY <1>2, <1>3, <1>4

(***************************************************************************)
(* Who is alone, and what it has written so far.                           *)
(***************************************************************************)

AloneIsAlone == \A p \in alone : \A r \in Sessions \ {p} : AtRest(r) /\ r \notin alone

(* What is alone in a directory knows what is in it. *)
Exact(p) ==
    /\ pc[p] = "mkdir" => dir[job[p].target] = Missing
    /\ pc[p] = "write" =>
         /\ job[p].target \in there
         /\ \A f \in Parts :
               dir[job[p].target][f] = IF f \in job[p].made THEN Written(p)
                                       ELSE IF f \in job[p].part THEN "torn" ELSE "absent"

ExactAlone == \A p \in alone : Exact(p)

(* Somebody at work on a directory has yet to open, or to fill, a file.     *)
WillOpen(q, f) ==
    \E r \in Sessions : job[r].target = q /\ f \notin job[r].made /\ f \notin job[r].part
WillFill(q, f) ==
    \E r \in Sessions : job[r].target = q /\ f \notin job[r].made

LEMMA WillsStay ==
    ASSUME NEW p \in Sessions, NEW q, NEW f, \A r \in Sessions \ {p} : job'[r] = job[r]
    PROVE  /\ WillOpen(q, f) /\ (WorksOn(p, q) => SameWork(p)) => WillOpen(q, f)'
           /\ WillFill(q, f) /\ (WorksOn(p, q) => SameWork(p)) => WillFill(q, f)'
           /\ WillOpen(q, f) /\ (f \in job[p].made \/ f \in job[p].part) => WillOpen(q, f)'
           /\ WillFill(q, f) /\ f \in job[p].made => WillFill(q, f)'
           /\ job'[p].target = q /\ f \notin job'[p].made => WillFill(q, f)'
           /\ job'[p].target = q /\ f \notin job'[p].made /\ f \notin job'[p].part =>
                 WillOpen(q, f)'
<1>1. WillOpen(q, f) /\ (WorksOn(p, q) => SameWork(p)) => WillOpen(q, f)'
  BY DEF WillOpen, WorksOn, SameWork, SameFiles
<1>2. WillFill(q, f) /\ (WorksOn(p, q) => SameWork(p)) => WillFill(q, f)'
  BY DEF WillFill, WorksOn, SameWork, SameFiles
<1>3. WillOpen(q, f) /\ (f \in job[p].made \/ f \in job[p].part) => WillOpen(q, f)'
  BY DEF WillOpen
<1>4. WillFill(q, f) /\ f \in job[p].made => WillFill(q, f)'
  BY DEF WillFill
<1> QED BY <1>1, <1>2, <1>3, <1>4 DEF WillOpen, WillFill

(* A directory of which no rewriting was cut short: what is torn will be     *)
(* filled, and a hook that is missing beside a manifest will be opened; for   *)
(* this, what has been removed after it was written had its remover follow    *)
(* with a directory of its own.                                             *)
OnTheWay(q) ==
    /\ dir[q]["manifest"] = "torn" => WillFill(q, "manifest")
    /\ dir[q]["hook"] = "absent" /\ dir[q]["manifest"] # "absent" => WillOpen(q, "hook")
    /\ \A r \in Sessions, f \in Parts :
          /\ job[r].target = q /\ (f \in job[r].made \/ f \in job[r].part)
          /\ dir[q][f] = "absent" /\ q \in there
          => WillOpen(q, f)

NothingLost == \A q \in Plugins \ cut : OnTheWay(q)

(* A step on a directory whose rewritings are still under way.              *)
LEMMA OnTheWayStays ==
    ASSUME TypedJobs, NEW p \in Sessions, NEW q \in Plugins, OnTheWay(q),
           TreeStep(p, q), q \notin cut', \A r \in Sessions \ {p} : job'[r] = job[r]
    PROVE  OnTheWay(q)'
<1>0. Fits(job[p], pc[p]) /\ "manifest" \in Parts /\ "hook" \in Parts
  BY DEF TypedJobs, JobsFit, Parts
<1>1. CASE Quiet(p, q)
  <2>1. /\ WorksOn(p, q) => SameWork(p)
        /\ dir'[q] = dir[q] /\ (q \in there' <=> q \in there)
    BY <1>1 DEF Quiet, SameTree
  <2>2. /\ \A f \in Parts : WillOpen(q, f) => WillOpen(q, f)'
        /\ WillFill(q, "manifest") => WillFill(q, "manifest")'
    BY <2>1, WillsStay
  <2>3. ASSUME NEW r \in Sessions, NEW f \in Parts, job'[r].target = q,
               f \in job'[r].made \/ f \in job'[r].part
        PROVE  job[r].target = q /\ (f \in job[r].made \/ f \in job[r].part)
    <3>1. CASE r = p
      BY <1>1, <2>3, <3>1 DEF Quiet, WorksOn, SameWork, SameFiles
    <3>2. CASE r # p
      BY <2>3, <3>2
    <3> QED BY <3>1, <3>2
  <2> QED BY <1>0, <2>1, <2>2, <2>3 DEF OnTheWay
<1>2. CASE Wipes(p, q) \/ Makes(p, q)
  <2>1. job'[p].target = q /\ job'[p].made = {} /\ job'[p].part = {}
    BY <1>0, <1>2 DEF Wipes, Makes, WorksOn, SameWork, SameFiles, Fits
  <2>2. \A f \in Parts : WillOpen(q, f)' /\ WillFill(q, f)'
    BY <2>1, WillsStay
  <2> QED BY <1>0, <2>2 DEF OnTheWay
<1>3. CASE Rids(p, q)
  <2>1. \A f \in Parts : dir'[q][f] = "absent"
    BY <1>3 DEF Rids, Missing
  <2>2. q \notin there'
    BY <1>3 DEF Rids
  <2> QED BY <1>0, <2>1, <2>2 DEF OnTheWay
<1>4. CASE Opens(p, q)
  <2>1. PICK f \in Parts \ job[p].made :
          /\ SameBut(q, f) /\ dir'[q][f] = "torn"
          /\ job'[p].target = q /\ job'[p].made = job[p].made /\ job'[p].part = {f}
    BY <1>4 DEF Opens
  <2>2. WorksOn(p, q) /\ q \in there /\ job[p].part = {}
    BY <1>4 DEF Opens
  <2>3. ASSUME NEW g \in Parts \ {f}, WillOpen(q, g)
        PROVE  WillOpen(q, g)'
    <3>1. CASE g \in job[p].made
      BY <3>1, <2>3, WillsStay
    <3>2. CASE g \notin job[p].made
      BY <3>2, <2>1, WillsStay
    <3> QED BY <3>1, <3>2
  <2>4. WillFill(q, f)'
    BY <2>1, WillsStay
  <2>5. \A g \in Parts : WillFill(q, g) => WillFill(q, g)'
    <3>1. ASSUME NEW g \in Parts, WillFill(q, g) PROVE WillFill(q, g)'
      <4>1. CASE g \in job[p].made
        BY <4>1, <3>1, WillsStay
      <4>2. CASE g \notin job[p].made
        BY <4>2, <2>1, WillsStay
      <4> QED BY <4>1, <4>2
    <3> QED BY <3>1
  <2>6. \A g \in Parts \ {f} : dir'[q][g] = dir[q][g]
    BY <2>1 DEF SameBut
  <2>7. dir'[q]["manifest"] = "torn" => WillFill(q, "manifest")'
    BY <1>0, <2>4, <2>5, <2>6 DEF OnTheWay
  <2>8. dir'[q]["hook"] = "absent" /\ dir'[q]["manifest"] # "absent" => WillOpen(q, "hook")'
    <3> SUFFICES ASSUME dir'[q]["hook"] = "absent", dir'[q]["manifest"] # "absent"
                 PROVE  WillOpen(q, "hook")'
      OBVIOUS
    <3>1. f # "hook" /\ dir[q]["hook"] = "absent"
      BY <1>0, <2>1, <2>6
    <3>2. CASE dir[q]["manifest"] # "absent"
      BY <1>0, <2>3, <3>1, <3>2 DEF OnTheWay
    <3>3. CASE "hook" \in job[p].made
      <4>1. WillOpen(q, "hook")
        BY <1>0, <2>2, <3>1, <3>3 DEF OnTheWay, WorksOn
      <4> QED BY <1>0, <2>3, <3>1, <4>1
    <3>4. CASE "hook" \notin job[p].made
      <4>1. "hook" \notin job'[p].made /\ "hook" \notin job'[p].part
        BY <2>1, <3>1, <3>4
      <4> QED BY <2>1, <4>1, WillsStay
    <3> QED BY <3>3, <3>4
  <2>9. ASSUME NEW r \in Sessions, NEW g \in Parts, job'[r].target = q,
               g \in job'[r].made \/ g \in job'[r].part, dir'[q][g] = "absent", q \in there'
        PROVE  WillOpen(q, g)'
    <3>1. g # f /\ dir[q][g] = "absent" /\ q \in there
      BY <2>1, <2>2, <2>6, <2>9
    <3>2. job[r].target = q /\ (g \in job[r].made \/ g \in job[r].part)
      BY <2>1, <2>2, <2>9, <3>1 DEF WorksOn
    <3> QED BY <2>3, <3>1, <3>2 DEF OnTheWay
  <2> QED BY <2>7, <2>8, <2>9 DEF OnTheWay
<1>5. CASE Fills(p, q)
  <2>1. PICK f \in job[p].part :
          /\ f \in Parts /\ SameBut(q, f)
          /\ dir'[q][f] = IF dir[q][f] = "absent" THEN "absent" ELSE Written(p)
          /\ job'[p].target = q /\ job'[p].made = job[p].made \cup {f} /\ job'[p].part = {}
    BY <1>5 DEF Fills
  <2>2. /\ WorksOn(p, q) /\ Written(p) \notin {"absent", "torn"}
        /\ \A g \in job[p].part : g = f
    BY <1>0, <1>5, <2>1, JobParts, VersionsAssumption, TornAssumption
       DEF Fills, Written, Fits, TypedJobs, PluginsTypeOK
  <2>3. ASSUME NEW g \in Parts, WillOpen(q, g) PROVE WillOpen(q, g)'
    <3>1. CASE g \in job[p].made \/ g \in job[p].part
      BY <3>1, <2>3, WillsStay
    <3>2. CASE g \notin job[p].made /\ g \notin job[p].part
      BY <3>2, <2>1, WillsStay
    <3> QED BY <3>1, <3>2
  <2>4. ASSUME NEW g \in Parts \ {f}, WillFill(q, g) PROVE WillFill(q, g)'
    <3>1. CASE g \in job[p].made
      BY <3>1, <2>4, WillsStay
    <3>2. CASE g \notin job[p].made
      BY <3>2, <2>1, WillsStay
    <3> QED BY <3>1, <3>2
  <2>5. /\ \A g \in Parts \ {f} : dir'[q][g] = dir[q][g]
        /\ \A g \in Parts : dir'[q][g] = "absent" <=> dir[q][g] = "absent"
        /\ dir'[q][f] # "torn" /\ (q \in there' <=> q \in there)
    BY <2>1, <2>2 DEF SameBut
  <2>6. dir'[q]["manifest"] = "torn" => WillFill(q, "manifest")'
    BY <1>0, <2>4, <2>5 DEF OnTheWay
  <2>7. dir'[q]["hook"] = "absent" /\ dir'[q]["manifest"] # "absent" => WillOpen(q, "hook")'
    BY <1>0, <2>3, <2>5 DEF OnTheWay
  <2>8. ASSUME NEW r \in Sessions, NEW g \in Parts, job'[r].target = q,
               g \in job'[r].made \/ g \in job'[r].part, dir'[q][g] = "absent", q \in there'
        PROVE  WillOpen(q, g)'
    <3>1. dir[q][g] = "absent" /\ q \in there
      BY <2>5, <2>8
    <3>2. job[r].target = q /\ (g \in job[r].made \/ g \in job[r].part)
      BY <2>1, <2>2, <2>8 DEF WorksOn
    <3> QED BY <2>3, <3>1, <3>2 DEF OnTheWay
  <2> QED BY <2>6, <2>7, <2>8 DEF OnTheWay
<1>6. CASE Leaves(p, q)
  <2>1. /\ job[p].made = Parts /\ dir'[q] = dir[q] /\ (q \in there' <=> q \in there)
        /\ job'[p].target # q
    BY <1>6, VersionsAssumption DEF Leaves, SameTree
  <2>2. \A f \in Parts : /\ WillOpen(q, f) => WillOpen(q, f)'
                         /\ WillFill(q, f) => WillFill(q, f)'
    BY <2>1, WillsStay
  <2> QED BY <1>0, <2>1, <2>2 DEF OnTheWay
<1>7. ~GivesUp(p, q)
  BY DEF GivesUp
<1> QED BY <1>1, <1>2, <1>3, <1>4, <1>5, <1>6, <1>7 DEF TreeStep

LEMMA AtWork ==
    ASSUME NEW p \in Sessions, SessionStep(p) \/ Abort(p)
    PROVE  ~AtRest(p) /\ alone' = alone
BY DEF SessionStep, Abort, SyncBundled, Prune, Synced, Remove, Removed, MakeDir, OpenPart, Fill,
       Copied, Fail, Truncate, Store, Discover, ReadSettings, ClearSettings, SaveSettings,
       Reload, InStage, AtRest, Ended, history

LEMMA OthersStay ==
    ASSUME TypedJobs, NEW p \in Sessions, Command(p) \/ SessionStep(p) \/ Abort(p)
    PROVE  \A r \in Sessions \ {p} : job'[r] = job[r] /\ pc'[r] = pc[r]
<1>1. PICK c, s : Moves(p, c, s)
  BY StepsFit DEF StepFits
<1> QED BY <1>1, MovesAre DEF TypedJobs

(* Who is alone after a step has just begun, or has taken the step.         *)
LEMMA WhoIsAlone ==
    ASSUME AloneIsAlone, NEW p \in Sessions, Command(p) \/ SessionStep(p) \/ Abort(p),
           NEW a \in alone', alone \subseteq Sessions
    PROVE  a = p /\ (Command(p) \/ (p \in alone /\ ~AtRest(p)))
<1>1. CASE Command(p)
  BY <1>1 DEF Command
<1>2. CASE SessionStep(p) \/ Abort(p)
  BY <1>2, AtWork DEF AloneIsAlone
<1> QED BY <1>1, <1>2

LEMMA AloneStays ==
    ASSUME TypedJobs, AloneIsAlone, NEW p \in Sessions, Command(p) \/ SessionStep(p) \/ Abort(p)
    PROVE  AloneIsAlone'
<1>1. \A r \in Sessions \ {p} : pc'[r] = pc[r]
  BY OthersStay
<1>2. alone \subseteq Sessions
  BY DEF TypedJobs, PluginsTypeOK
<1>3. CASE Command(p)
  <2>1. CASE \A r \in Sessions \ {p} : AtRest(r)
    <3>1. alone' = {p}
      BY <1>3, <2>1 DEF Command
    <3> QED BY <1>1, <2>1, <3>1 DEF AloneIsAlone, AtRest
  <2>2. CASE ~\A r \in Sessions \ {p} : AtRest(r)
    <3>1. alone' = {}
      BY <1>3, <2>2 DEF Command
    <3> QED BY <3>1 DEF AloneIsAlone
  <2> QED BY <2>1, <2>2
<1>4. CASE SessionStep(p) \/ Abort(p)
  <2>1. alone' = alone
    BY <1>4, AtWork
  <2>2. \A a \in alone : a = p
    BY <1>2, <1>4, <2>1, WhoIsAlone
  <2> QED BY <1>1, <2>1, <2>2 DEF AloneIsAlone, AtRest
<1> QED BY <1>3, <1>4

(* What is alone on a plugin is the only one at work on any.                *)
LEMMA OnlyWorker ==
    ASSUME TypedJobs, AloneIsAlone, NEW p \in alone, NEW r \in Sessions \ {p}
    PROVE  job[r] = NoJob
BY DEF TypedJobs, JobsFit, Fits, AloneIsAlone, AtRest

LEMMA FillingStage ==
    ASSUME TypedJobs, NEW p \in Sessions, SessionStep(p), pc'[p] \in {"mkdir", "write"}
    PROVE  Removed(p) \/ MakeDir(p) \/ OpenPart(p) \/ Fill(p)
<1>0. PluginsTypeOK /\ pc[p] \in Stages
  BY DEF TypedJobs, PluginsTypeOK
<1>1. CASE SyncBundled(p)
  <2>1. \E c, s : Moves(p, c, s) /\ s \in {"wipe", "sync"}
    BY <1>0, <1>1, SyncBundledIs
  <2> QED BY <1>0, <2>1, MovesAre
<1>2. CASE Prune(p) \/ Synced(p) \/ Truncate(p) \/ ClearSettings(p) \/ SaveSettings(p)
  BY <1>0, <1>2 DEF Prune, Synced, Truncate, ClearSettings, SaveSettings, Go, PluginsTypeOK
<1>8. CASE ReadSettings(p)
  <2>1. \E d, t : Moves(p, d, t) /\ t \in {"clear", "unreadable"}
    BY <1>0, <1>8, RemainingAre
  <2> QED BY <1>0, <2>1, MovesAre
<1>9. CASE Reload(p)
  <2>1. \E d, t : Moves(p, d, t) /\ Entry(d, t)
    BY <1>0, <1>9, ReloadIs
  <2> QED BY <1>0, <2>1, MovesAre DEF Entry
<1>3. CASE Remove(p)
  BY <1>3 DEF Remove, InStage
<1>4. CASE Copied(p)
  <2>1. \E c, s : Moves(p, c, s) /\ s \in {"sync", "truncate", "unreadable"}
    BY <1>0, <1>4, CopiedIs DEF CopiedTo, CopiedFor
  <2> QED BY <1>0, <2>1, MovesAre
<1>5. CASE Fail(p)
  <2>1. pc'[p] = "failed"
    BY <1>0, <1>5, RemainingAre, MovesAre
  <2> QED BY <2>1
<1>6. CASE Store(p)
  <2>1. \E d, t : Moves(p, d, t) /\ t \in Sequels
    BY <1>0, <1>6, RemainingAre, JobParts DEF Proceeds, PluginsTypeOK
  <2> QED BY <1>0, <2>1, MovesAre DEF Sequels
<1>7. CASE Discover(p)
  <2>1. \E d, t : Moves(p, d, t) /\ t \in Discovered
    BY <1>0, <1>7, DiscoverIs DEF Proceeds, Discovered
  <2> QED BY <1>0, <2>1, MovesAre DEF Discovered
<1> QED BY <1>1, <1>2, <1>3, <1>4, <1>5, <1>6, <1>7, <1>8, <1>9 DEF SessionStep

LEMMA ExactStays ==
    ASSUME TypedJobs, AloneIsAlone, ExactAlone,
           NEW p \in Sessions, Command(p) \/ SessionStep(p) \/ Abort(p)
    PROVE  ExactAlone'
<1> SUFFICES ASSUME NEW a \in alone' PROVE Exact(a)'
  BY DEF ExactAlone
<1>0. /\ PluginsTypeOK /\ pc[p] \in Stages /\ alone \subseteq Sessions
      /\ dir \in [Plugins -> Contents] /\ Fits(job[p], pc[p]) /\ job[p] \in Job
  BY DEF TypedJobs, PluginsTypeOK, JobsFit
<1>1. a = p /\ (Command(p) \/ (p \in alone /\ ~AtRest(p)))
  BY <1>0, WhoIsAlone
<1>2. CASE pc'[p] \notin {"mkdir", "write"}
  BY <1>1, <1>2 DEF Exact
<1>3. CASE pc'[p] \in {"mkdir", "write"} /\ p \in alone /\ SessionStep(p)
  <2>0. Exact(p)
    BY <1>3 DEF ExactAlone
  <2>1. CASE Removed(p)
    <3>1. \E c, s : RemovedTo(p, c, s)
      BY <1>0, <2>1, RemovedIs
    <3>2. job'[p] = job[p] /\ pc'[p] = "mkdir"
      BY <1>0, <1>3, <3>1, MovesAre DEF RemovedTo
    <3>3. dir[job[p].target] = Missing /\ dir' = dir
      BY <2>1 DEF Removed
    <3> QED BY <1>1, <3>2, <3>3 DEF Exact, Missing
  <2>2. CASE MakeDir(p)
    <3>1. /\ pc[p] = "mkdir" /\ pc'[p] = "write" /\ job' = job /\ dir' = dir
          /\ job[p].target \in there'
      BY <1>0, <2>2 DEF MakeDir, InStage, Go, PluginsTypeOK
    <3>2. job[p].made = {} /\ job[p].part = {} /\ dir[job[p].target] = Missing
      BY <1>0, <2>0, <3>1 DEF Fits, Exact
    <3> QED BY <1>1, <3>1, <3>2 DEF Exact, Missing
  <2>3. CASE OpenPart(p)
    <3>1. job[p].target \in Plugins
      BY <2>3, TargetIs DEF OpenPart, InStage, Rewriting
    <3>3. PICK f \in Parts \ job[p].made : \E c :
             /\ Moves(p, c, "write") /\ SameRest(c, job[p]) /\ c.made = job[p].made /\ c.part = {f}
             /\ dir' = [dir EXCEPT ![job[p].target][f] = "torn"]
      BY <1>0, <2>3, OpenPartIs
    <3>4. /\ job'[p].target = job[p].target /\ job'[p].made = job[p].made /\ job'[p].part = {f}
          /\ pc'[p] = "write" /\ job'[p].version = job[p].version
      BY <1>0, <3>3, MovesAre DEF SameRest, SameCommand
    <3>5. Sets(job[p].target, f, "torn")
      BY <1>0, <3>1, <3>3, DirChanged
    <3>6. /\ pc[p] = "write" /\ job[p].part = {} /\ job[p].target \in there /\ there' = there
      BY <2>3 DEF OpenPart, InStage
    <3>7. Written(p)' = Written(p)
      BY <3>4 DEF Written
    <3> QED BY <1>1, <2>0, <3>4, <3>5, <3>6, <3>7 DEF Exact, Sets
  <2>4. CASE Fill(p)
    <3>1. job[p].target \in Plugins /\ pc[p] = "write"
      BY <2>4, TargetIs DEF Fill, InStage, Rewriting
    <3>2. PICK f \in job[p].part : \E c :
             /\ Moves(p, c, "write") /\ SameRest(c, job[p])
             /\ c.made = job[p].made \cup {f} /\ c.part = {}
             /\ dir' = [dir EXCEPT ![job[p].target][f] = IF @ = "absent" THEN @ ELSE Written(p)]
      BY <1>0, <2>4, FillIs
    <3>3. /\ job'[p].target = job[p].target /\ job'[p].made = job[p].made \cup {f}
          /\ job'[p].part = {} /\ pc'[p] = "write" /\ job'[p].version = job[p].version
      BY <1>0, <3>2, MovesAre DEF SameRest, SameCommand
    <3>4. f \in Parts /\ \A g \in job[p].part : g = f
      BY <1>0, <3>2, JobParts DEF Fits
    <3>5. dir[job[p].target][f] = "torn"
      BY <1>0, <2>0, <3>1, <3>2, <3>4 DEF Exact, Fits
    <3>6. dir' = [dir EXCEPT ![job[p].target][f] = Written(p)]
      BY <1>0, <3>1, <3>2, <3>4, <3>5
    <3>7. Written(p) \in Versions
      BY <1>0, JobParts, VersionsAssumption DEF Written
    <3>8. Sets(job[p].target, f, Written(p))
      BY <1>0, <3>1, <3>4, <3>6, <3>7, DirChanged
    <3>9. Written(p)' = Written(p) /\ job[p].target \in there /\ there' = there
      BY <2>0, <2>4, <3>1, <3>3 DEF Written, Exact, Fill
    <3> QED BY <1>1, <2>0, <3>1, <3>3, <3>4, <3>8, <3>9 DEF Exact, Sets
  <2> QED BY <1>3, <2>1, <2>2, <2>3, <2>4, FillingStage
<1>4. CASE Command(p)
  <2>1. PICK c, s : Moves(p, c, s) /\ Entry(c, s)
    BY <1>0, <1>4, CommandIs
  <2>2. pc'[p] \notin {"mkdir", "write"}
    BY <1>0, <2>1, MovesAre DEF Entry
  <2> QED BY <1>2, <2>2
<1>5. CASE Abort(p)
  <2>1. pc'[p] = "failed"
    BY <1>0, <1>5, RemainingAre, MovesAre
  <2> QED BY <1>2, <2>1
<1>6. Command(p) \/ Abort(p) \/ (p \in alone /\ SessionStep(p))
  BY <1>1
<1> QED BY <1>2, <1>3, <1>4, <1>5, <1>6

(* Who leaves a directory alone leaves it as it was to be. *)
LEMMA LeftWhole ==
    ASSUME TypedJobs, ExactAlone, NEW p \in alone, NEW q \in Plugins, Leaves(p, q)
    PROVE  \A f \in Parts : dir'[q][f] = Written(p) /\ Written(p) \in Versions
<1>1. p \in Sessions /\ job[p] \in Job
  BY DEF TypedJobs, PluginsTypeOK
<1>2. Written(p) \in Versions
  BY <1>1, JobParts, VersionsAssumption DEF Written
<1> QED BY <1>2 DEF ExactAlone, Exact, Leaves, WorksOn, SameTree

LEMMA NothingLostStays ==
    ASSUME TypedJobs, AloneIsAlone, ExactAlone, NothingLost,
           NEW p \in Sessions, Command(p) \/ SessionStep(p) \/ Abort(p)
    PROVE  NothingLost'
<1> SUFFICES ASSUME NEW q \in Plugins \ cut' PROVE OnTheWay(q)'
  BY DEF NothingLost
<1>1. TreeStep(p, q) /\ Forgives(p, q)
  BY EveryTreeStep
<1>2. CASE q \notin cut
  BY <1>1, <1>2, OthersStay, OnTheWayStays DEF NothingLost
<1>3. CASE q \in cut
  <2>1. p \in alone /\ Leaves(p, q)
    BY <1>1, <1>3 DEF Forgives
  <2>2. \A f \in Parts : dir'[q][f] \notin {"absent", "torn"}
    BY <2>1, LeftWhole, TornAssumption
  <2>3. "manifest" \in Parts /\ "hook" \in Parts
    BY DEF Parts
  <2> QED BY <2>2, <2>3 DEF OnTheWay
<1> QED BY <1>2, <1>3

(***************************************************************************)
(* A bundled plugin that somebody has recorded, or is about to, as being of  *)
(* the binary's version.                                                   *)
(***************************************************************************)

Claimed(b) ==
    \/ registry[b] = Binary
    \/ \E r \in Sessions : job[r].reg[b] = Binary
    \/ \E r \in Sessions : job[r].target = b /\ pc[r] \in {"mkdir", "write"}

(* What is not there will be opened, what is torn filled, and with that.     *)
Cared(b) ==
    \A f \in Parts :
       /\ dir[b][f] = "absent" => WillOpen(b, f)
       /\ dir[b][f] = "torn" => WillFill(b, f)
       /\ dir[b][f] \in {"absent", "torn", Binary}

ClaimsHold == \A b \in Bundled \ hurt : Claimed(b) => Cared(b)

LEMMA RegistryStep ==
    ASSUME TypedJobs, NEW p \in Sessions, Command(p) \/ SessionStep(p) \/ Abort(p)
    PROVE  registry' \in {registry, NoRecords, job[p].reg}
BY DEF SessionStep, Command, SyncBundled, Prune, Synced, Remove, Removed, MakeDir, OpenPart,
       Fill, Copied, Fail, Abort, LeftUnfinished, Truncate, Store, Discover, ReadSettings,
       ClearSettings, SaveSettings, Reload, home, trees, texts

(* What a process has read of the registry about a bundled plugin.          *)
RecordKept(p, b) ==
    \/ job'[p].reg[b] \in {None, registry[b], job[p].reg[b]}
    \/ job[p].target = b /\ pc[p] = "write"

LEMMA RecordStep ==
    ASSUME TypedJobs, NEW p \in Sessions, NEW b \in Bundled,
           Command(p) \/ SessionStep(p) \/ Abort(p)
    PROVE  RecordKept(p, b)
<1>0. /\ PluginsTypeOK /\ job[p] \in Job /\ job[p].reg \in Records /\ registry \in Records
      /\ b \in Plugins /\ NoRecords[b] = None /\ b \notin External /\ b \notin Retired
  BY JobParts, KindsAssumption DEF TypedJobs, PluginsTypeOK, Plugins, NoRecords
<1>1. CASE job'[p].reg \in {NoRecords, registry, job[p].reg}
  BY <1>0, <1>1 DEF RecordKept
<1>2. CASE Command(p) \/ Reload(p)
  <2>1. PICK c, s : Moves(p, c, s) /\ Entry(c, s)
    BY <1>0, <1>2, CommandIs, ReloadIs
  <2>2. job'[p].reg \in {NoRecords, registry}
    BY <1>0, <2>1, MovesAre, NoJobIs DEF Entry
  <2> QED BY <1>1, <2>2
<1>3. CASE SyncBundled(p)
  <2>1. \E c, s : Moves(p, c, s) /\ c.reg = job[p].reg
    BY <1>0, <1>3, SyncBundledIs DEF SameSync
  <2> QED BY <1>0, <1>1, <2>1, MovesAre
<1>4. CASE Prune(p)
  <2>1. \E c : Moves(p, c, "wipe") /\ c.reg = job[p].reg
    BY <1>0, <1>4, PruneIs DEF SameSync
  <2> QED BY <1>0, <1>1, <2>1, MovesAre
<1>5. CASE Synced(p)
  <2>1. \E c, s : Moves(p, c, s) /\ c.reg = job[p].reg
    BY <1>0, <1>5, SyncedIs DEF SameSync
  <2> QED BY <1>0, <1>1, <2>1, MovesAre
<1>6. CASE Removed(p)
  <2>1. PICK c, s : RemovedTo(p, c, s)
    BY <1>0, <1>6, RemovedIs
  <2>2. job'[p] = c
    BY <1>0, <2>1, MovesAre DEF RemovedTo
  <2>3. c.reg[b] = job[p].reg[b]
    BY <1>0, <2>1 DEF RemovedTo, Records
  <2> QED BY <2>2, <2>3 DEF RecordKept
<1>7. CASE OpenPart(p) \/ Fill(p)
  <2>1. \E c : Moves(p, c, "write") /\ c.reg = job[p].reg
    BY <1>0, <1>7, OpenPartIs, FillIs DEF SameRest
  <2> QED BY <1>0, <1>1, <2>1, MovesAre
<1>13. CASE CopiedFor(p)
  <2>1. job'[p].reg = NoRecords
    BY <1>0, <1>13, MovesAre, NoJobIs DEF CopiedFor
  <2> QED BY <1>1, <2>1
<1>8. ASSUME Copied(p), NEW c, NEW s, CopiedTo(p, c, s) PROVE RecordKept(p, b)
  <2>1. CopiedTo(p, c, s)
    BY <1>8
  <2>2. job'[p] = c
    BY <1>0, <2>1, MovesAre DEF CopiedTo
  <2>3. CASE job[p].target = b
    BY <1>8, <2>3 DEF RecordKept, Copied, InStage
  <2>4. CASE job[p].target # b
    <3>1. c.reg[b] \in {registry[b], job[p].reg[b]}
      BY <1>0, <2>1, <2>4 DEF CopiedTo, Records
    <3> QED BY <2>2, <3>1 DEF RecordKept
  <2> QED BY <2>3, <2>4
<1>9. CASE Fail(p) \/ Abort(p)
  <2>1. job'[p].reg = NoRecords
    BY <1>0, <1>9, RemainingAre, MovesAre, NoJobIs
  <2> QED BY <1>1, <2>1
<1>10. CASE Store(p)
  <2>1. \E c, s : Moves(p, c, s) /\ c.reg = NoRecords
    BY <1>0, <1>10, RemainingAre, NoJobIs DEF Proceeds
  <2> QED BY <1>0, <1>1, <2>1, MovesAre
<1>11. CASE Discover(p)
  <2>1. CASE Moves(p, NoJob, "broken") \/ Moves(p, NoJob, "unreadable")
    BY <1>0, <1>1, <2>1, MovesAre, NoJobIs
  <2>2. CASE Proceeds(p, Outcome(p))
    <3>1. \E c, s : Moves(p, c, s) /\ c.reg = NoRecords
      BY <2>2, NoJobIs DEF Proceeds
    <3> QED BY <1>0, <1>1, <3>1, MovesAre
  <2>3. CASE \E c : /\ Moves(p, c, "truncate")
                    /\ c.reg = [q \in Plugins |-> IF q \in Stale THEN None ELSE registry[q]]
    <3>1. PICK c : /\ Moves(p, c, "truncate")
                   /\ c.reg = [q \in Plugins |-> IF q \in Stale THEN None ELSE registry[q]]
      BY <2>3
    <3>2. c.reg[b] \in {None, registry[b]}
      BY <1>0, <3>1
    <3> QED BY <1>0, <3>1, <3>2, MovesAre DEF RecordKept
  <2> QED BY <1>0, <1>11, <2>1, <2>2, <2>3, DiscoverIs
<1>12. CASE ReadSettings(p)
  <2>1. \E c, s : Moves(p, c, s) /\ c.reg \in {NoRecords, job[p].reg}
    BY <1>0, <1>12, RemainingAre, NoJobIs DEF SameSync
  <2> QED BY <1>0, <1>1, <2>1, MovesAre
<1>14. CASE Remove(p) \/ MakeDir(p) \/ Truncate(p) \/ ClearSettings(p) \/ SaveSettings(p)
  BY <1>1, <1>14 DEF Remove, MakeDir, Truncate, ClearSettings, SaveSettings
<1>15. Copied(p) => RecordKept(p, b)
  BY <1>0, <1>8, <1>13, CopiedIs
<1> QED BY <1>2, <1>3, <1>4, <1>5, <1>6, <1>7, <1>9, <1>10, <1>11, <1>12, <1>14, <1>15
        DEF SessionStep

LEMMA ClaimStep ==
    ASSUME TypedJobs, NEW p \in Sessions, NEW b \in Bundled,
           Command(p) \/ SessionStep(p) \/ Abort(p), Claimed(b)', ~Claimed(b)
    PROVE  Rids(p, b) /\ job'[p].target = b
<1>0. /\ PluginsTypeOK /\ b \in Plugins /\ NoRecords[b] = None /\ None # Binary /\ b # None
      /\ \A r \in Sessions \ {p} : job'[r] = job[r] /\ pc'[r] = pc[r]
  BY OthersStay, VersionsAssumption DEF TypedJobs, Plugins, NoRecords
<1>1. registry'[b] # Binary
  BY <1>0, RegistryStep DEF Claimed
<1>2. job'[p].reg[b] # Binary
  BY <1>0, RecordStep DEF Claimed, RecordKept
<1>3. job'[p].target = b /\ pc'[p] \in {"mkdir", "write"}
  BY <1>0, <1>1, <1>2 DEF Claimed
<1>4. SessionStep(p)
  <2>1. CASE Command(p)
    <3>1. PICK c, s : Moves(p, c, s) /\ Entry(c, s)
      BY <1>0, <2>1, CommandIs
    <3> QED BY <1>0, <1>3, <3>1, MovesAre DEF Entry
  <2>2. CASE Abort(p)
    BY <1>0, <1>3, <2>2, RemainingAre, MovesAre
  <2> QED BY <2>1, <2>2
<1>5. CASE Removed(p)
  <2>1. PICK c, s : RemovedTo(p, c, s)
    BY <1>0, <1>5, RemovedIs
  <2>2. job[p].target = b
    BY <1>0, <1>3, <2>1, MovesAre DEF RemovedTo
  <2>3. TreeStep(p, b) /\ pc[p] = "wipe" /\ there' = there \ {b} /\ dir' = dir
        /\ dir[b] = Missing /\ WorksOn(p, b)
    BY <1>0, <1>5, <2>2, RemovedOnTree DEF Removed, InStage, WorksOn
  <2>4. job'[p] = job[p] /\ pc'[p] = "mkdir"
    BY <1>0, <1>3, <2>1, MovesAre DEF RemovedTo
  <2> QED BY <1>3, <2>3, <2>4 DEF Rids, SameWork, SameFiles
<1>6. CASE MakeDir(p) \/ OpenPart(p) \/ Fill(p)
  <2>1. pc[p] \in {"mkdir", "write"}
    BY <1>6 DEF MakeDir, OpenPart, Fill, InStage
  <2>2. job[p].target = b
    <3>1. CASE MakeDir(p)
      BY <1>3, <3>1 DEF MakeDir
    <3>2. CASE OpenPart(p) \/ Fill(p)
      <4>1. \E c : Moves(p, c, "write") /\ c.target = job[p].target
        BY <1>0, <3>2, OpenPartIs, FillIs DEF SameRest
      <4> QED BY <1>0, <1>3, <4>1, MovesAre
    <3> QED BY <1>6, <3>1, <3>2
  <2> QED BY <2>1, <2>2 DEF Claimed
<1> QED BY <1>3, <1>4, <1>5, <1>6, FillingStage

LEMMA CaredStays ==
    ASSUME TypedJobs, NEW p \in Sessions, NEW b \in Bundled, Cared(b),
           TreeStep(p, b), ~GivesUp(p, b), \A r \in Sessions \ {p} : job'[r] = job[r]
    PROVE  Cared(b)'
<1>0. Fits(job[p], pc[p]) /\ b # None
  BY VersionsAssumption DEF TypedJobs, JobsFit, Plugins
<1>1. CASE Quiet(p, b) \/ Leaves(p, b)
  <2>1. /\ dir'[b] = dir[b]
        /\ (WorksOn(p, b) => SameWork(p)) \/ job[p].made = Parts
    BY <1>1 DEF Quiet, Leaves, SameTree
  <2>2. \A f \in Parts : /\ WillOpen(b, f) => WillOpen(b, f)'
                         /\ WillFill(b, f) => WillFill(b, f)'
    BY <2>1, WillsStay
  <2> QED BY <2>1, <2>2 DEF Cared
<1>2. CASE Wipes(p, b) \/ Makes(p, b)
  <2>1. job'[p].target = b /\ job'[p].made = {} /\ job'[p].part = {}
    BY <1>0, <1>2 DEF Wipes, Makes, WorksOn, SameWork, SameFiles, Fits
  <2>2. \A f \in Parts : WillOpen(b, f)' /\ WillFill(b, f)'
    BY <2>1, WillsStay
  <2>3. \A f \in Parts : dir'[b][f] \in {dir[b][f], "absent"}
    BY <1>2 DEF Wipes, Makes, SameBut
  <2> QED BY <2>2, <2>3 DEF Cared
<1>3. CASE Rids(p, b)
  <2>1. job'[p].target = b /\ job'[p].made = {} /\ job'[p].part = {} /\ dir'[b] = dir[b]
    BY <1>0, <1>3 DEF Rids, WorksOn, SameWork, SameFiles, Fits
  <2>2. \A f \in Parts : WillOpen(b, f)' /\ WillFill(b, f)'
    BY <2>1, WillsStay
  <2> QED BY <2>1, <2>2 DEF Cared
<1>4. CASE Opens(p, b)
  <2>1. PICK f \in Parts \ job[p].made :
          /\ SameBut(b, f) /\ dir'[b][f] = "torn"
          /\ job'[p].target = b /\ job'[p].made = job[p].made /\ job'[p].part = {f}
    BY <1>4 DEF Opens
  <2>2. ASSUME NEW g \in Parts \ {f}, WillOpen(b, g) PROVE WillOpen(b, g)'
    <3>1. CASE g \in job[p].made
      BY <3>1, <2>2, WillsStay
    <3>2. CASE g \notin job[p].made
      BY <3>2, <2>1, WillsStay
    <3> QED BY <3>1, <3>2
  <2>3. ASSUME NEW g \in Parts, WillFill(b, g) PROVE WillFill(b, g)'
    <3>1. CASE g \in job[p].made
      BY <3>1, <2>3, WillsStay
    <3>2. CASE g \notin job[p].made
      BY <3>2, <2>1, WillsStay
    <3> QED BY <3>1, <3>2
  <2>4. WillFill(b, f)'
    BY <2>1, WillsStay
  <2>5. \A g \in Parts \ {f} : dir'[b][g] = dir[b][g]
    BY <2>1 DEF SameBut
  <2> QED BY <2>1, <2>2, <2>3, <2>4, <2>5 DEF Cared
<1>5. CASE Fills(p, b)
  <2>1. PICK f \in job[p].part :
          /\ f \in Parts /\ SameBut(b, f)
          /\ dir'[b][f] = IF dir[b][f] = "absent" THEN "absent" ELSE Written(p)
          /\ job'[p].target = b /\ job'[p].made = job[p].made \cup {f} /\ job'[p].part = {}
    BY <1>5 DEF Fills
  <2>2. Written(p) = Binary /\ \A g \in job[p].part : g = f
    BY <1>0, <1>5, <2>1 DEF Written, Fills, WorksOn, Fits
  <2>3. ASSUME NEW g \in Parts, WillOpen(b, g) PROVE WillOpen(b, g)'
    <3>1. CASE g \in job[p].made \/ g \in job[p].part
      BY <3>1, <2>3, WillsStay
    <3>2. CASE g \notin job[p].made /\ g \notin job[p].part
      BY <3>2, <2>1, WillsStay
    <3> QED BY <3>1, <3>2
  <2>4. ASSUME NEW g \in Parts \ {f}, WillFill(b, g) PROVE WillFill(b, g)'
    <3>1. CASE g \in job[p].made
      BY <3>1, <2>4, WillsStay
    <3>2. CASE g \notin job[p].made
      BY <3>2, <2>1, WillsStay
    <3> QED BY <3>1, <3>2
  <2>5. \A g \in Parts \ {f} : dir'[b][g] = dir[b][g]
    BY <2>1 DEF SameBut
  <2>6. Binary \notin {"absent", "torn"}
    BY VersionsAssumption, TornAssumption
  <2> QED BY <2>1, <2>2, <2>3, <2>4, <2>5, <2>6 DEF Cared
<1> QED BY <1>1, <1>2, <1>3, <1>4, <1>5 DEF TreeStep

(***************************************************************************)
(* The sync of a process that is alone: what it has checked is as it has to  *)
(* be, of what it has not it knows what the registry says, and it rewrites   *)
(* what the registry does not say is of the binary's version.               *)
(***************************************************************************)

Healthy(b, records) ==
    Loads(b) /\ (b \notin hurt => dir[b] = Whole(Binary) /\ records[b] = Binary)

SyncSound(p) ==
    pc[p] = "sync" \/ job[p].target \in Bundled \cup Retired =>
        /\ \A b \in Bundled \ job[p].checked : job[p].reg[b] = registry[b]
        /\ \A b \in job[p].checked \ {job[p].target} : Healthy(b, job[p].reg)
        /\ job[p].target \in Bundled =>
              /\ job[p].target \in job[p].checked
              /\ job[p].target \notin hurt => registry[job[p].target] # Binary
        /\ job[p].target \in Retired => job[p].checked = Bundled
        /\ ~job[p].changed => job[p].reg = registry

SyncsSound == \A p \in alone : SyncSound(p)

LEMMA ClaimsStay ==
    ASSUME TypedJobs, AloneIsAlone, ExactAlone, ClaimsHold, SyncsSound,
           NEW p \in Sessions, Command(p) \/ SessionStep(p) \/ Abort(p)
    PROVE  ClaimsHold'
<1> SUFFICES ASSUME NEW b \in Bundled \ hurt', Claimed(b)' PROVE Cared(b)'
  BY DEF ClaimsHold
<1>0. /\ b \in Plugins /\ b # None /\ None # Binary /\ Binary \notin {"absent", "torn"}
      /\ \A r \in Sessions \ {p} : job'[r] = job[r] /\ pc'[r] = pc[r]
      /\ alone \subseteq Sessions
  BY OthersStay, VersionsAssumption, TornAssumption DEF Plugins, TypedJobs, PluginsTypeOK
<1>1. TreeStep(p, b) /\ Forgives(p, b)
  BY <1>0, EveryTreeStep
<1>2. CASE b \in hurt
  <2>1. p \in alone /\ Leaves(p, b)
    BY <1>1, <1>2 DEF Forgives
  <2>2. \A f \in Parts : dir'[b][f] = Binary
    BY <1>0, <2>1, LeftWhole DEF Written, Leaves, WorksOn
  <2> QED BY <1>0, <2>2 DEF Cared
<1>3. CASE b \notin hurt /\ Claimed(b)
  <2>1. Cared(b)
    BY <1>3 DEF ClaimsHold
  <2>2. CASE ~GivesUp(p, b)
    BY <1>0, <1>1, <2>1, <2>2, CaredStays
  <2>3. CASE GivesUp(p, b)
    <3>1. /\ p \in alone /\ job'[p] = NoJob /\ registry'[b] = registry[b]
          /\ job[p].target = b
      BY <2>3 DEF GivesUp, WorksOn
    <3>2. registry[b] # Binary
      BY <1>3, <3>1 DEF SyncsSound, SyncSound
    <3>3. \A r \in Sessions : job'[r] = NoJob
      BY <1>0, <3>1, OnlyWorker
    <3>4. NoJob.reg[b] # Binary /\ NoJob.target # b
      BY <1>0, NoJobIs DEF NoRecords
    <3> QED BY <3>1, <3>2, <3>3, <3>4 DEF Claimed
  <2> QED BY <2>2, <2>3
<1>4. CASE ~Claimed(b)
  <2>1. Rids(p, b) /\ job'[p].target = b /\ Fits(job[p], pc[p])
    BY <1>4, ClaimStep DEF TypedJobs, JobsFit
  <2>2. job'[p].made = {} /\ job'[p].part = {} /\ \A f \in Parts : dir'[b][f] = "absent"
    BY <1>0, <2>1 DEF Rids, SameWork, SameFiles, Fits, Missing
  <2>3. \A f \in Parts : WillOpen(b, f)'
    BY <1>0, <2>1, <2>2, WillsStay
  <2> QED BY <2>2, <2>3 DEF Cared
<1> QED BY <1>2, <1>3, <1>4

(* Nobody at work: what a claim is about is whole.                           *)
LEMMA ClaimedIsWhole ==
    ASSUME TypedJobs, ClaimsHold, NEW b \in Bundled \ hurt, registry[b] = Binary,
           \A r \in Sessions : job[r].target = None
    PROVE  dir[b] = Whole(Binary) /\ Loads(b)
<1>1. b \in Plugins /\ b # None /\ dir[b] \in Contents
  BY VersionsAssumption DEF Plugins, TypedJobs, PluginsTypeOK
<1>2. Cared(b)
  BY DEF ClaimsHold, Claimed
<1>3. \A f \in Parts : dir[b][f] = Binary
  BY <1>1, <1>2 DEF Cared, WillOpen, WillFill
<1>4. dir[b] = Whole(Binary)
  BY <1>1, <1>3 DEF Contents, Whole
<1>5. "manifest" \in Parts /\ "hook" \in Parts /\ Binary # "absent"
  BY VersionsAssumption, TornAssumption DEF Parts
<1> QED BY <1>3, <1>4, <1>5, VersionsAssumption DEF Loads

LEMMA NobodyAtWork ==
    ASSUME TypedJobs, AloneIsAlone, NEW p \in alone, pc[p] \notin Rewriting
    PROVE  \A r \in Sessions : job[r].target = None
<1>1. p \in Sessions
  BY DEF TypedJobs, PluginsTypeOK
<1>2. job[p].target = None
  BY <1>1 DEF TypedJobs, JobsFit, Fits
<1>3. \A r \in Sessions \ {p} : job[r].target = None
  BY OnlyWorker, NoJobIs
<1> QED BY <1>2, <1>3

(* A step on the directory of the target that leaves the sync where it was.  *)
LEMMA SyncSoundKept ==
    ASSUME NEW p \in Sessions, SyncSound(p), registry' = registry, hurt' = hurt,
           job'[p].target = job[p].target, job'[p].reg = job[p].reg,
           job'[p].checked = job[p].checked, job'[p].changed = job[p].changed,
           pc[p] # "sync", pc'[p] # "sync", job[p].checked \subseteq Bundled,
           \A b \in Bundled \ {job[p].target} : dir'[b] = dir[b]
    PROVE  SyncSound(p)'
<1>1. \A b \in job[p].checked \ {job[p].target} :
         Healthy(b, job[p].reg) => Healthy(b, job[p].reg)'
  BY DEF Healthy, Loads
<1> QED BY <1>1 DEF SyncSound

LEMMA NotSyncing ==
    ASSUME NEW p \in Sessions, pc'[p] # "sync", job'[p].target \notin Bundled \cup Retired
    PROVE  SyncSound(p)'
BY DEF SyncSound

LEMMA SyncBundledSound ==
    ASSUME TypedJobs, AloneIsAlone, ClaimsHold, NEW p \in alone, SyncSound(p), SyncBundled(p)
    PROVE  SyncSound(p)'
<1>0. /\ p \in Sessions /\ PluginsTypeOK /\ pc[p] = "sync" /\ job[p].checked \subseteq Bundled
      /\ dir' = dir /\ registry' = registry /\ hurt' = hurt
  BY JobParts DEF TypedJobs, PluginsTypeOK, SyncBundled, InStage, home, trees, texts, history
<1>1. \A r \in Sessions : job[r].target = None
  BY <1>0, NobodyAtWork DEF Rewriting
<1>2. PICK b \in Bundled \ job[p].checked : \E c, s :
              /\ Moves(p, c, s) /\ SameCommand(c, job[p]) /\ SameSync(c, job[p])
              /\ c.after = job[p].after /\ c.checked = job[p].checked \cup {b}
              /\ \/ /\ NeedsSync(p, b) /\ s = "wipe"
                    /\ c.target = b /\ c.made = {} /\ c.part = {}
                 \/ ~NeedsSync(p, b) /\ s = "sync" /\ SameFiles(c, job[p])
  BY <1>0, SyncBundledIs
<1>3. /\ job'[p].reg = job[p].reg /\ job'[p].changed = job[p].changed
      /\ job'[p].checked = job[p].checked \cup {b}
      /\ \/ NeedsSync(p, b) /\ job'[p].target = b
         \/ ~NeedsSync(p, b) /\ job'[p].target = None
  BY <1>0, <1>1, <1>2, MovesAre DEF SameSync, SameFiles
<1>4. job[p].reg[b] = registry[b]
  BY <1>0, <1>2 DEF SyncSound
<1>5. b \notin hurt /\ registry[b] = Binary => dir[b] = Whole(Binary) /\ Loads(b)
  BY <1>1, <1>2, ClaimedIsWhole
<1>6. \A d \in job[p].checked : Healthy(d, job[p].reg)
  BY <1>0, <1>1, VersionsAssumption DEF SyncSound, Plugins
<1>7. \A d \in Bundled : Healthy(d, job[p].reg) => Healthy(d, job[p].reg)'
  BY <1>0, <1>3 DEF Healthy, Loads
<1>8. /\ \A d \in Bundled \ job'[p].checked : job'[p].reg[d] = registry'[d]
      /\ ~job'[p].changed => job'[p].reg = registry'
  BY <1>0, <1>3 DEF SyncSound
<1>9. CASE NeedsSync(p, b) /\ job'[p].target = b
  <2>1. b \notin hurt => registry[b] # Binary
    BY <1>4, <1>5, <1>9 DEF NeedsSync
  <2>2. \A d \in job'[p].checked \ {job'[p].target} : Healthy(d, job[p].reg)'
    BY <1>0, <1>3, <1>6, <1>7, <1>9
  <2>3. b \notin Retired
    BY KindsAssumption
  <2> QED BY <1>0, <1>3, <1>8, <1>9, <2>1, <2>2, <2>3 DEF SyncSound
<1>10. CASE ~NeedsSync(p, b) /\ job'[p].target = None
  <2>1. Healthy(b, job[p].reg)
    BY <1>4, <1>5, <1>10 DEF NeedsSync, Healthy
  <2>2. \A d \in job'[p].checked \ {job'[p].target} : Healthy(d, job[p].reg)'
    BY <1>0, <1>3, <1>6, <1>7, <2>1
  <2>3. None \notin Bundled \cup Retired
    BY VersionsAssumption DEF Plugins
  <2> QED BY <1>8, <1>10, <2>2, <2>3 DEF SyncSound
<1> QED BY <1>3, <1>9, <1>10

LEMMA PruneSound ==
    ASSUME TypedJobs, NEW p \in alone, SyncSound(p), Prune(p)
    PROVE  SyncSound(p)'
<1>0. /\ p \in Sessions /\ PluginsTypeOK /\ pc[p] = "sync" /\ job[p].checked = Bundled
      /\ dir' = dir /\ registry' = registry /\ hurt' = hurt
  BY DEF TypedJobs, PluginsTypeOK, Prune, InStage, home, trees, texts, history
<1>1. job[p].target = None
  BY <1>0 DEF TypedJobs, JobsFit, Fits, Rewriting
<1>2. PICK q \in Retired : \E c :
              /\ Moves(p, c, "wipe") /\ SameCommand(c, job[p]) /\ SameSync(c, job[p])
              /\ c.after = job[p].after /\ c.checked = job[p].checked
              /\ c.target = q /\ c.made = {} /\ c.part = {}
  BY <1>0, PruneIs
<1>3. /\ job'[p].reg = job[p].reg /\ job'[p].changed = job[p].changed
      /\ job'[p].checked = job[p].checked /\ job'[p].target = q
  BY <1>0, <1>2, MovesAre DEF SameSync
<1>4. q \notin Bundled /\ None \notin Bundled
  BY KindsAssumption, VersionsAssumption DEF Plugins
<1>5. \A b \in Bundled : Healthy(b, job[p].reg)'
  BY <1>0, <1>1, <1>3, <1>4 DEF SyncSound, Healthy, Loads
<1> QED BY <1>0, <1>3, <1>4, <1>5 DEF SyncSound

LEMMA RemovedSound ==
    ASSUME TypedJobs, NEW p \in alone, SyncSound(p), Removed(p)
    PROVE  SyncSound(p)'
<1>0. /\ p \in Sessions /\ PluginsTypeOK /\ pc[p] = "wipe" /\ job[p] \in Job
      /\ job[p].checked \subseteq Bundled /\ job[p].reg \in Records
      /\ dir' = dir /\ registry' = registry /\ hurt' = hurt
  BY JobParts DEF TypedJobs, PluginsTypeOK, Removed, InStage, history, texts
<1>1. PICK c, s : RemovedTo(p, c, s)
  BY <1>0, RemovedIs
<1>2. job'[p] = c /\ pc'[p] = s
  BY <1>0, <1>1, MovesAre DEF RemovedTo
<1>3. CASE s = "mkdir" /\ c = job[p]
  BY <1>0, <1>2, <1>3, SyncSoundKept
<1>4. CASE /\ job[p].target \in Retired /\ s = "sync" /\ c.target = None
           /\ c.reg = [job[p].reg EXCEPT ![job[p].target] = None]
           /\ c.changed = TRUE
  <2>1. c.checked = Bundled /\ job[p].checked = Bundled
    BY <1>0, <1>1, <1>4 DEF SyncSound, RemovedTo
  <2>2. job[p].target \notin Bundled /\ None \notin Bundled \cup Retired
    BY <1>4, KindsAssumption, VersionsAssumption DEF Plugins
  <2>3. \A b \in Bundled : c.reg[b] = job[p].reg[b]
    BY <1>0, <1>4, <2>2 DEF Records, Plugins
  <2>4. \A b \in Bundled : Healthy(b, job[p].reg)
    BY <1>4, <2>1, <2>2 DEF SyncSound
  <2>5. \A b \in Bundled : Healthy(b, job[p].reg)'
    BY <1>0, <1>2, <2>3, <2>4 DEF Healthy, Loads
  <2> QED BY <1>2, <1>4, <2>1, <2>2, <2>5 DEF SyncSound
<1>5. CASE s = "truncate" /\ c.target = None
  BY <1>0, <1>2, <1>5, NotSyncing, VersionsAssumption DEF Plugins
<1> QED BY <1>1, <1>3, <1>4, <1>5 DEF RemovedTo

LEMMA CopiedSound ==
    ASSUME TypedJobs, ExactAlone, NEW p \in alone, SyncSound(p), Copied(p)
    PROVE  SyncSound(p)'
<1>0. /\ p \in Sessions /\ PluginsTypeOK /\ pc[p] = "write" /\ job[p] \in Job
      /\ job[p].checked \subseteq Bundled /\ job[p].reg \in Records
      /\ dir' = dir /\ registry' = registry /\ hurt' = hurt \ {job[p].target}
      /\ dir \in [Plugins -> Contents]
  BY JobParts DEF TypedJobs, PluginsTypeOK, Copied, InStage, home, trees, texts
<1>5. CASE CopiedFor(p)
  <2>1. job'[p].target = None /\ pc'[p] # "sync" /\ None \notin Plugins
    BY <1>0, <1>5, MovesAre, NoJobIs, VersionsAssumption DEF CopiedFor
  <2> QED BY <1>0, <2>1, NotSyncing DEF Plugins
<1>6. SUFFICES ASSUME NEW c, NEW s, CopiedTo(p, c, s) PROVE SyncSound(p)'
  BY <1>0, <1>5, CopiedIs
<1>1. CopiedTo(p, c, s)
  BY <1>6
<1>2. job'[p] = c /\ pc'[p] = s
  BY <1>0, <1>1, MovesAre DEF CopiedTo
<1>3. CASE /\ job[p].target \in Bundled /\ Loads(job[p].target) /\ s = "sync"
           /\ c.reg = [job[p].reg EXCEPT ![job[p].target] = dir[job[p].target]["manifest"]]
           /\ c.changed = TRUE
  <2>0. PICK t \in Bundled : t = job[p].target
    BY <1>3
  <2>1. t \in Plugins /\ None \notin Bundled \cup Retired /\ t \notin Retired /\ t \in job[p].checked
    BY <1>3, <2>0, KindsAssumption, VersionsAssumption DEF Plugins, SyncSound
  <2>2. \A f \in Parts : dir[t][f] = Binary
    BY <1>0, <1>3, <2>0 DEF ExactAlone, Exact, Written, Copied
  <2>3. dir[t] = Whole(Binary) /\ dir[t]["manifest"] = Binary
    BY <1>0, <2>1, <2>2 DEF Contents, Whole, Parts
  <2>4. c.reg[t] = Binary /\ \A b \in Bundled \ {t} : c.reg[b] = job[p].reg[b]
    BY <1>0, <1>3, <2>0, <2>1, <2>3 DEF Records, Plugins
  <2>5. Healthy(t, c.reg)
    BY <1>3, <2>0, <2>3, <2>4 DEF Healthy
  <2>6. \A b \in job[p].checked \ {t} : Healthy(b, job[p].reg)
    BY <1>3, <2>0 DEF SyncSound
  <2>7. Healthy(t, job[p].reg)'
    BY <1>0, <1>2, <2>5, <2>3, <2>4 DEF Healthy, Loads
  <2>8. \A b \in job[p].checked \ {t} : Healthy(b, job[p].reg)'
    BY <1>0, <1>2, <2>0, <2>4, <2>6 DEF Healthy, Loads
  <2>9. job'[p].target = None /\ job'[p].checked = job[p].checked /\ job'[p].changed = TRUE
    BY <1>1, <1>2, <1>3 DEF CopiedTo
  <2>10. \A b \in Bundled \ job'[p].checked : job'[p].reg[b] = registry'[b]
    BY <1>0, <1>2, <1>3, <2>0, <2>1, <2>4, <2>9 DEF SyncSound
  <2> QED BY <2>1, <2>7, <2>8, <2>9, <2>10 DEF SyncSound
<1>4. CASE s = "truncate" /\ c.target = None
  BY <1>0, <1>2, <1>4, NotSyncing, VersionsAssumption DEF Plugins
<1> QED BY <1>1, <1>3, <1>4 DEF CopiedTo

(* The steps after which a process neither rewrites nor syncs.              *)
LEMMA LaterStage ==
    ASSUME TypedJobs, NEW p \in Sessions,
           \/ Synced(p) \/ Fail(p) \/ Abort(p) \/ Truncate(p) \/ Store(p) \/ Discover(p)
           \/ ReadSettings(p) \/ ClearSettings(p) \/ SaveSettings(p)
    PROVE  pc'[p] # "sync" /\ pc'[p] \notin Rewriting
<1>0. PluginsTypeOK /\ job[p] \in Job
  BY DEF TypedJobs, PluginsTypeOK
<1>1. CASE Synced(p)
  <2>1. pc'[p] \in {"truncate", "discover"}
    BY <1>0, <1>1 DEF Synced, Go, PluginsTypeOK
  <2> QED BY <2>1 DEF Rewriting
<1>2. CASE Fail(p) \/ Abort(p)
  <2>1. pc'[p] = "failed"
    BY <1>0, <1>2, RemainingAre, MovesAre
  <2> QED BY <2>1 DEF Rewriting
<1>3. CASE Truncate(p) \/ ReadSettings(p) \/ ClearSettings(p) \/ SaveSettings(p)
  <2>1. \E c, s : Moves(p, c, s) /\ s \in {"store", "clear", "save", "ok", "unreadable"}
    BY <1>0, <1>3, RemainingAre
  <2>2. pc'[p] \in {"store", "clear", "save", "ok", "unreadable"}
    BY <1>0, <2>1, MovesAre
  <2> QED BY <2>2 DEF Rewriting
<1>4. CASE Store(p)
  <2>1. \E c, s : Moves(p, c, s) /\ s \in Sequels
    BY <1>0, <1>4, RemainingAre, JobParts DEF Proceeds
  <2>2. pc'[p] \in Sequels
    BY <1>0, <2>1, MovesAre
  <2> QED BY <2>2 DEF Sequels, Rewriting
<1>5. CASE Discover(p)
  <2>1. \E c, s : Moves(p, c, s) /\ s \in Discovered
    BY <1>0, <1>5, DiscoverIs DEF Proceeds, Discovered
  <2>2. pc'[p] \in Discovered
    BY <1>0, <2>1, MovesAre
  <2> QED BY <2>2 DEF Rewriting, Discovered
<1> QED BY <1>1, <1>2, <1>3, <1>4, <1>5

LEMMA CommandSound ==
    ASSUME TypedJobs, NEW p \in Sessions, Command(p) \/ Reload(p)
    PROVE  SyncSound(p)'
<1>0. /\ PluginsTypeOK /\ registry' = registry /\ dir' = dir
      /\ None \notin Bundled \cup Retired /\ (External \cap (Bundled \cup Retired) = {})
  BY VersionsAssumption, KindsAssumption DEF TypedJobs, Command, Reload, home, trees, texts, Plugins
<1>1. PICK c, s : Moves(p, c, s) /\ Entry(c, s)
  BY <1>0, CommandIs, ReloadIs
<1>2. job'[p] = c /\ pc'[p] = s
  BY <1>0, <1>1, MovesAre
<1>3. CASE /\ s = "sync" /\ c.target = None
           /\ c.reg = registry /\ c.checked = {} /\ c.changed = FALSE
  BY <1>0, <1>2, <1>3 DEF SyncSound
<1>4. CASE s # "sync" /\ c.target \notin Bundled \cup Retired
  BY <1>2, <1>4, NotSyncing
<1> QED BY <1>0, <1>1, <1>3, <1>4, NoJobIs DEF Entry

(* The steps on the directory of the target.                                *)
LEMMA FilesSound ==
    ASSUME TypedJobs, NEW p \in Sessions, SyncSound(p),
           Remove(p) \/ MakeDir(p) \/ OpenPart(p) \/ Fill(p)
    PROVE  SyncSound(p)'
<1>0. /\ PluginsTypeOK /\ job[p] \in Job /\ job[p].checked \subseteq Bundled
      /\ dir \in [Plugins -> Contents]
      /\ registry' = registry /\ hurt' = hurt /\ pc[p] # "sync"
  BY JobParts DEF TypedJobs, PluginsTypeOK, Remove, MakeDir, OpenPart, Fill, history, InStage,
                  texts
<1>1. \A q \in Plugins \ {job[p].target} : dir'[q] = dir[q]
  BY <1>0 DEF Remove, MakeDir, OpenPart, Fill
<1>2. pc'[p] # "sync" /\ job'[p].target = job[p].target /\ job'[p].reg = job[p].reg
      /\ job'[p].checked = job[p].checked /\ job'[p].changed = job[p].changed
  <2>1. CASE Remove(p) \/ MakeDir(p)
    BY <1>0, <2>1, RemainingAre, MovesAre
  <2>2. CASE OpenPart(p) \/ Fill(p)
    <3>1. \E c : Moves(p, c, "write") /\ SameRest(c, job[p])
      BY <1>0, <2>2, OpenPartIs, FillIs
    <3> QED BY <1>0, <3>1, MovesAre DEF SameRest
  <2> QED BY <2>1, <2>2
<1> QED BY <1>0, <1>1, <1>2, SyncSoundKept DEF Plugins

LEMMA SyncsSoundStays ==
    ASSUME TypedJobs, TypedJobs', AloneIsAlone, ExactAlone, ClaimsHold, SyncsSound,
           NEW p \in Sessions, Command(p) \/ SessionStep(p) \/ Abort(p)
    PROVE  SyncsSound'
<1> SUFFICES ASSUME NEW a \in alone' PROVE SyncSound(a)'
  BY DEF SyncsSound
<1>0. alone \subseteq Sessions
  BY DEF TypedJobs, PluginsTypeOK
<1>1. a = p /\ (Command(p) \/ (p \in alone /\ (SessionStep(p) \/ Abort(p))))
  BY <1>0, WhoIsAlone
<1>2. CASE Command(p)
  BY <1>1, <1>2, CommandSound
<1>3. CASE p \in alone /\ (SessionStep(p) \/ Abort(p))
  <2>0. SyncSound(p)
    BY <1>3 DEF SyncsSound
  <2>1. CASE \/ Synced(p) \/ Fail(p) \/ Abort(p) \/ Truncate(p) \/ Store(p) \/ Discover(p)
             \/ ReadSettings(p) \/ ClearSettings(p) \/ SaveSettings(p)
    <3>1. pc'[p] # "sync" /\ pc'[p] \notin Rewriting
      BY <2>1, LaterStage
    <3>2. job'[p].target = None /\ None \notin Bundled \cup Retired
      BY <3>1, VersionsAssumption DEF TypedJobs, JobsFit, Fits, Plugins
    <3>3. SyncSound(p)'
      BY <3>1, <3>2, NotSyncing
    <3> QED BY <1>1, <3>3
  <2>2. SyncBundled(p) => SyncSound(p)'
    BY <1>3, <2>0, SyncBundledSound
  <2>3. Prune(p) => SyncSound(p)'
    BY <1>3, <2>0, PruneSound
  <2>4. Removed(p) => SyncSound(p)'
    BY <1>3, <2>0, RemovedSound
  <2>5. Copied(p) => SyncSound(p)'
    BY <1>3, <2>0, CopiedSound
  <2>6. Remove(p) \/ MakeDir(p) \/ OpenPart(p) \/ Fill(p) => SyncSound(p)'
    BY <2>0, FilesSound
  <2>7. Reload(p) => SyncSound(p)'
    BY CommandSound
  <2>8. SyncSound(p)' => SyncSound(a)'
    BY <1>1
  <2> QED BY <1>3, <2>1, <2>2, <2>3, <2>4, <2>5, <2>6, <2>7, <2>8 DEF SessionStep
<1> QED BY <1>1, <1>2, <1>3

(***************************************************************************)
(* A text that is no JSON is one whose writing was cut short, or came upon   *)
(* another's; who is alone writes over nobody's, and fails only for such.   *)
(***************************************************************************)

TextsSound ==
    /\ garbled \subseteq spoilt
    /\ \A p \in overlaid : pc[p] \in {"store", "save"} /\ p \notin alone
    /\ \A p \in alone : pc[p] = "unreadable" => spoilt # {}

LEMMA UnreadableIs ==
    ASSUME TypedJobs, NEW p \in Sessions, Command(p) \/ SessionStep(p) \/ Abort(p),
           pc'[p] = "unreadable"
    PROVE  garbled # {} /\ TextsKept
<1>0. PluginsTypeOK /\ pc \in [Sessions -> Stages]
  BY DEF TypedJobs, PluginsTypeOK
<1>1. CASE Command(p) \/ Reload(p)
  <2>1. PICK j : Start(p, j)
    BY <1>1 DEF Command, Reload
  <2>2. ~Begins(p, j)
    BY <1>0 DEF Begins, Go, Ends
  <2> QED BY <1>1, <2>1, <2>2 DEF Start, Parses, Command, Reload, home, texts, TextsKept
<1>2. CASE Copied(p)
  <2>1. "registry" \in garbled
    BY <1>0, <1>2 DEF Copied, Go
  <2> QED BY <1>2, <2>1 DEF Copied, home, texts, TextsKept
<1>3. CASE Discover(p)
  <2>1. "registry" \in garbled
    <3>1. Outcome(p) \in Stages \ {"unreadable"}
      BY DEF Outcome, Stages, Ended
    <3>2. ~Go(p, "broken") /\ ~Go(p, "truncate") /\ ~Go(p, Outcome(p))
      BY <1>0, <3>1 DEF Go
    <3> QED BY <1>3, <3>2 DEF Discover, Proceed, Ends
  <2> QED BY <1>3, <2>1 DEF Discover, home, texts, TextsKept
<1>4. CASE ReadSettings(p)
  <2>1. "settings" \in garbled
    BY <1>0, <1>4 DEF ReadSettings, Go
  <2> QED BY <1>4, <2>1 DEF ReadSettings, home, texts, TextsKept
<1>5. CASE Store(p)
  <2>1. \E c, s : Moves(p, c, s) /\ s \in Sequels
    BY <1>0, <1>5, RemainingAre, JobParts DEF Proceeds, PluginsTypeOK
  <2> QED BY <1>0, <2>1, MovesAre DEF Sequels
<1>6. CASE \/ Prune(p) \/ Synced(p) \/ Removed(p) \/ MakeDir(p) \/ Truncate(p)
           \/ ClearSettings(p) \/ SaveSettings(p)
  BY <1>0, <1>6 DEF Prune, Synced, Removed, MakeDir, Truncate, ClearSettings, SaveSettings, Go
<1>7. CASE SyncBundled(p) \/ Remove(p) \/ OpenPart(p) \/ Fill(p)
  BY <1>0, <1>7 DEF SyncBundled, Remove, OpenPart, Fill, InStage, Go
<1>8. CASE Fail(p) \/ Abort(p)
  BY <1>0, <1>8, RemainingAre, MovesAre
<1> QED BY <1>1, <1>2, <1>3, <1>4, <1>5, <1>6, <1>7, <1>8 DEF SessionStep

LEMMA TextsSoundStay ==
    ASSUME TypedJobs, AloneIsAlone, TextsSound,
           NEW p \in Sessions, Command(p) \/ SessionStep(p) \/ Abort(p)
    PROVE  TextsSound'
<1>0. /\ PluginsTypeOK /\ alone \subseteq Sessions /\ overlaid \subseteq Sessions
      /\ \A r \in Sessions \ {p} : pc'[r] = pc[r]
  BY OthersStay DEF TypedJobs, PluginsTypeOK
<1>1. \A a \in alone' : a = p /\ (Command(p) \/ p \in alone)
  BY <1>0, WhoIsAlone
<1>2. Command(p) => pc[p] \notin {"store", "save"}
  BY DEF Command, AtRest, Ended
<1>3. p \notin overlaid \/ p \in Filling("registry") \cup Filling("settings")
  BY DEF TextsSound, Filling
<1>4. CASE TextsKept /\ p \notin Filling("registry") \cup Filling("settings")
  <2>1. p \notin overlaid
    BY <1>3, <1>4
  <2>2. pc'[p] = "unreadable" => spoilt' # {}
    BY <1>4, UnreadableIs DEF TextsSound, TextsKept
  <2> QED BY <1>0, <1>1, <1>4, <2>1, <2>2 DEF TextsSound, TextsKept
<1>5. ASSUME NEW t \in Texts, Emptied(t), p \notin Filling("registry") \cup Filling("settings")
      PROVE  TextsSound'
  <2>1. p \notin overlaid
    BY <1>3, <1>5
  <2>2. pc'[p] = "unreadable" => spoilt # {} /\ spoilt' = spoilt
    BY UnreadableIs DEF TextsSound, TextsKept
  <2>3. garbled' \subseteq spoilt'
    BY <1>5 DEF TextsSound, Emptied
  <2>4. overlaid' \subseteq overlaid
    BY <1>5 DEF Emptied
  <2> QED BY <1>0, <1>1, <2>1, <2>2, <2>3, <2>4 DEF TextsSound
<1>6. ASSUME NEW t \in Texts, p \in Filling(t), TextTouched(p, t)
      PROVE  TextsSound'
  <2>1. garbled' \subseteq spoilt'
    BY <1>6 DEF TextsSound, TextTouched
  <2>2. overlaid' = (overlaid \cup Filling(t)) \ {p}
    BY <1>6 DEF TextTouched
  <2>3. \A r \in Filling(t) : r \in Sessions /\ pc[r] \in {"store", "save"}
    BY DEF Filling
  <2>4. \A r \in overlaid' : pc'[r] \in {"store", "save"} /\ r \notin alone'
    BY <1>0, <1>1, <2>2, <2>3 DEF TextsSound
  <2>5. pc'[p] = "unreadable" => spoilt' # {}
    BY UnreadableIs DEF TextsSound, TextsKept
  <2> QED BY <1>1, <2>1, <2>4, <2>5 DEF TextsSound
<1> QED BY <1>0, <1>4, <1>5, <1>6, TextsStep

(***************************************************************************)
(* What follows the sync of a process that is alone: the store of what it    *)
(* found, and the discovery.                                               *)
(***************************************************************************)

AllSound(records) ==
    /\ \A b \in Bundled : Healthy(b, records)
    /\ \A q \in Retired : records[q] = None

AllLoad(records) == \A q \in Plugins : records[q] # None => Loads(q)

Storing(p) == pc[p] \in {"truncate", "store"}

AfterSound(p) ==
    /\ Storing(p) /\ job[p].after \in {"discover", "listed"} => AllSound(job[p].reg)
    /\ Storing(p) /\ job[p].after = "listed" => AllLoad(job[p].reg)
    /\ pc[p] = "discover" => AllSound(registry)
    /\ pc[p] = "listed" => AllSound(registry) /\ AllLoad(registry)
    /\ pc[p] = "broken" => Broken \subseteq cut \ Bundled

AftersSound == \A p \in alone : AfterSound(p)

Telling == {"truncate", "store", "discover", "listed", "broken"}

LEMMA NothingTold ==
    ASSUME NEW p \in Sessions, pc'[p] \notin Telling
    PROVE  AfterSound(p)'
BY DEF AfterSound, Storing, Telling

(* The steps that do not lead to the end of a list.                         *)
LEMMA NotTelling ==
    ASSUME TypedJobs, NEW p \in Sessions,
           \/ Command(p) \/ SyncBundled(p) \/ Prune(p) \/ Remove(p) \/ MakeDir(p) \/ OpenPart(p)
           \/ Fill(p) \/ Fail(p) \/ Abort(p) \/ ReadSettings(p) \/ ClearSettings(p)
           \/ SaveSettings(p) \/ Reload(p)
    PROVE  pc'[p] \notin Telling
<1>0. PluginsTypeOK
  BY DEF TypedJobs
<1>1. CASE Command(p) \/ Reload(p)
  <2>1. \E c, s : Moves(p, c, s) /\ s \in {"sync", "wipe", "refused", "unreadable"}
    BY <1>0, <1>1, CommandIs, ReloadIs DEF Entry
  <2>2. pc'[p] \in {"sync", "wipe", "refused", "unreadable"}
    BY <1>0, <2>1, MovesAre
  <2> QED BY <2>2 DEF Telling
<1>2. CASE SyncBundled(p)
  <2>1. \E c, s : Moves(p, c, s) /\ s \in {"sync", "wipe"}
    BY <1>0, <1>2, SyncBundledIs
  <2>2. pc'[p] \in {"sync", "wipe"}
    BY <1>0, <2>1, MovesAre
  <2> QED BY <2>2 DEF Telling
<1>3. CASE OpenPart(p) \/ Fill(p)
  <2>1. \E c : Moves(p, c, "write")
    BY <1>0, <1>3, OpenPartIs, FillIs
  <2>2. pc'[p] = "write"
    BY <1>0, <2>1, MovesAre
  <2> QED BY <2>2 DEF Telling
<1>4. CASE Fail(p) \/ Abort(p)
  <2>1. pc'[p] = "failed"
    BY <1>0, <1>4, RemainingAre, MovesAre
  <2> QED BY <2>1 DEF Telling
<1>5. CASE Remove(p)
  BY <1>5 DEF Remove, InStage, Telling
<1>6. CASE Prune(p) \/ MakeDir(p) \/ ReadSettings(p) \/ ClearSettings(p) \/ SaveSettings(p)
  <2>1. \E c, s : Moves(p, c, s) /\ s \in {"wipe", "write", "clear", "save", "ok", "unreadable"}
    BY <1>0, <1>6, RemainingAre, PruneIs
  <2>2. pc'[p] \in {"wipe", "write", "clear", "save", "ok", "unreadable"}
    BY <1>0, <2>1, MovesAre
  <2> QED BY <2>2 DEF Telling
<1> QED BY <1>1, <1>2, <1>3, <1>4, <1>5, <1>6

(* What ends in a store of another kind.                                    *)
LEMMA ToldElsewhere ==
    ASSUME TypedJobs, NEW p \in Sessions, Removed(p) \/ Copied(p)
    PROVE  AfterSound(p)'
<1>0. PluginsTypeOK
  BY DEF TypedJobs
<1>1. ASSUME NEW c, NEW s, Moves(p, c, s),
             \/ s \in {"mkdir", "sync", "unreadable"}
             \/ s = "truncate" /\ c.after \in {"settings", "ok"}
      PROVE  AfterSound(p)'
  <2>1. job'[p] = c /\ pc'[p] = s
    BY <1>0, <1>1, MovesAre
  <2> QED BY <1>1, <2>1 DEF AfterSound, Storing
<1>2. CASE Removed(p)
  <2>1. PICK c, s : RemovedTo(p, c, s)
    BY <1>0, <1>2, RemovedIs
  <2> QED BY <1>1, <2>1 DEF RemovedTo
<1>3. CASE Copied(p)
  <2>1. CASE CopiedFor(p)
    BY <1>1, <2>1 DEF CopiedFor
  <2>2. ASSUME NEW c, NEW s, CopiedTo(p, c, s) PROVE AfterSound(p)'
    BY <1>1, <2>2 DEF CopiedTo
  <2> QED BY <1>0, <1>3, <2>1, <2>2, CopiedIs
<1> QED BY <1>2, <1>3

LEMMA SyncedTells ==
    ASSUME TypedJobs, NEW p \in alone, SyncSound(p), Synced(p)
    PROVE  AfterSound(p)'
<1>0. /\ p \in Sessions /\ PluginsTypeOK /\ pc[p] = "sync" /\ job[p].checked = Bundled
      /\ dir' = dir /\ registry' = registry /\ hurt' = hurt /\ Unpruned(p) = {}
  BY DEF TypedJobs, PluginsTypeOK, Synced, InStage, home, trees, texts, history
<1>1. job[p].target = None /\ None \notin Bundled
  BY <1>0, VersionsAssumption DEF TypedJobs, JobsFit, Fits, Rewriting, Plugins
<1>2. PICK c : /\ Moves(p, c, IF job[p].changed THEN "truncate" ELSE "discover")
               /\ SameSync(c, job[p]) /\ c.after = "discover"
  BY <1>0, SyncedIs
<1>3. /\ job'[p].reg = job[p].reg /\ job'[p].after = "discover"
      /\ pc'[p] = IF job[p].changed THEN "truncate" ELSE "discover"
  BY <1>0, <1>2, MovesAre DEF SameSync
<1>4. (\A b \in Bundled : Healthy(b, job[p].reg)) /\ \A q \in Retired : job[p].reg[q] = None
  BY <1>0, <1>1 DEF SyncSound, Unpruned
<1>5. AllSound(job[p].reg)'
  BY <1>0, <1>3, <1>4 DEF AllSound, Healthy, Loads
<1>6. ~job[p].changed => job[p].reg = registry
  BY <1>0 DEF SyncSound
<1> QED BY <1>0, <1>3, <1>5, <1>6 DEF AfterSound, Storing

LEMMA TruncateTells ==
    ASSUME TypedJobs, NEW p \in alone, AfterSound(p), Truncate(p)
    PROVE  AfterSound(p)'
<1>0. /\ p \in Sessions /\ PluginsTypeOK /\ pc[p] = "truncate" /\ pc'[p] = "store"
      /\ dir' = dir /\ hurt' = hurt /\ job' = job
  BY DEF TypedJobs, PluginsTypeOK, Truncate, InStage, trees, history, Go
<1>1. \A q \in Plugins : Loads(q) <=> Loads(q)'
  BY <1>0 DEF Loads
<1>2. AllSound(job[p].reg) => AllSound(job[p].reg)'
  BY <1>0 DEF AllSound, Healthy, Loads
<1>3. AllLoad(job[p].reg) => AllLoad(job[p].reg)'
  BY <1>0, <1>1 DEF AllLoad
<1> QED BY <1>0, <1>2, <1>3 DEF AfterSound, Storing

LEMMA StoreTells ==
    ASSUME TypedJobs, TextsSound, NEW p \in alone, AfterSound(p), Store(p)
    PROVE  AfterSound(p)'
<1>0. /\ p \in Sessions /\ PluginsTypeOK /\ pc[p] = "store" /\ registry' = job[p].reg
      /\ dir' = dir /\ hurt' = hurt /\ job[p].after \in Sequels
  BY JobParts DEF TypedJobs, PluginsTypeOK, Store, InStage, trees, history, TextsSound
<1>1. pc'[p] = job[p].after
  BY <1>0, RemainingAre, MovesAre DEF Proceeds
<1>2. AllSound(job[p].reg) => AllSound(registry)'
  BY <1>0 DEF AllSound, Healthy, Loads
<1>3. AllLoad(job[p].reg) => AllLoad(registry)'
  BY <1>0 DEF AllLoad, Loads
<1> QED BY <1>0, <1>1, <1>2, <1>3 DEF AfterSound, Storing, Sequels

LEMMA DiscoverTells ==
    ASSUME TypedJobs, AloneIsAlone, NothingLost, NEW p \in alone, AfterSound(p), Discover(p)
    PROVE  AfterSound(p)'
<1>0. /\ p \in Sessions /\ PluginsTypeOK /\ pc[p] = "discover" /\ registry' = registry
      /\ dir' = dir /\ hurt' = hurt /\ cut' = cut /\ dir \in [Plugins -> Contents]
  BY DEF TypedJobs, PluginsTypeOK, Discover, InStage, home, trees, texts, history
<1>1. AllSound(registry)
  BY <1>0 DEF AfterSound
<1>2. \A r \in Sessions : job[r].target = None
  BY <1>0, NobodyAtWork DEF Rewriting
<1>3. "manifest" \in Parts /\ "hook" \in Parts
  BY DEF Parts
<1>4. \A q \in Plugins : Loads(q) => HasManifest(q)
  BY TornAssumption DEF Loads, HasManifest
<1>5. \A q \in Plugins : HasManifest(q) /\ q \notin Broken => Loads(q)
  BY DEF Broken
<1>6. Bundled \subseteq Plugins /\ Retired \subseteq Plugins /\ None \notin Plugins
  BY VersionsAssumption DEF Plugins
<1>7. CASE Moves(p, NoJob, "broken")
  <2>1. pc'[p] = "broken"
    BY <1>0, <1>7, MovesAre
  <2>2. ASSUME NEW q \in Broken PROVE q \in cut \ Bundled
    <3>1. q \in Plugins /\ HasManifest(q) /\ ~Loads(q)
      BY DEF Broken
    <3>2. q \notin Bundled
      BY <1>1, <3>1 DEF AllSound, Healthy
    <3>3. CASE q \notin cut
      <4>1. OnTheWay(q)
        BY <3>1, <3>3 DEF NothingLost
      <4>2. dir[q]["manifest"] # "torn" /\ dir[q]["hook"] # "absent"
        BY <1>2, <1>6, <3>1, <4>1 DEF OnTheWay, WillOpen, WillFill, HasManifest
      <4>3. dir[q]["manifest"] \in Versions \cup {"absent", "torn"}
        BY <1>0, <1>3, <3>1 DEF Contents
      <4> QED BY <3>1, <4>2, <4>3 DEF HasManifest, Loads
    <3> QED BY <3>2, <3>3
  <2>3. Broken' = Broken
    BY <1>0 DEF Broken, HasManifest, Loads
  <2> QED BY <1>0, <2>1, <2>2, <2>3 DEF AfterSound, Storing
<1>8. CASE Broken = {} /\ Stale = {} /\ Proceeds(p, Outcome(p))
  <2>1. pc'[p] = Outcome(p)
    BY <1>0, <1>8, MovesAre DEF Proceeds
  <2>2. AllLoad(registry)
    BY <1>5, <1>8 DEF AllLoad, Stale
  <2>3. AllSound(registry)' /\ AllLoad(registry)'
    BY <1>0, <1>1, <2>2 DEF AllSound, AllLoad, Healthy, Loads
  <2> QED BY <1>0, <2>1, <2>3, DiscoverIs DEF AfterSound, Storing
<1>9. CASE /\ Broken = {}
           /\ \E c : /\ Moves(p, c, "truncate")
                     /\ c.reg = [q \in Plugins |-> IF q \in Stale THEN None ELSE registry[q]]
  <2>1. PICK c : /\ Moves(p, c, "truncate")
                 /\ c.reg = [q \in Plugins |-> IF q \in Stale THEN None ELSE registry[q]]
    BY <1>9
  <2>2. pc'[p] = "truncate" /\ job'[p] = c
    BY <1>0, <2>1, MovesAre
  <2>3. \A b \in Bundled : c.reg[b] = registry[b] /\ Healthy(b, registry)
    BY <1>1, <1>4, <1>6, <2>1 DEF AllSound, Healthy, Stale
  <2>4. \A q \in Retired : c.reg[q] = None
    BY <1>1, <1>6, <2>1 DEF AllSound
  <2>5. \A q \in Plugins : c.reg[q] # None => Loads(q)
    BY <1>5, <1>9, <2>1 DEF Stale
  <2>6. AllSound(job[p].reg)'
    BY <1>0, <2>2, <2>3, <2>4 DEF AllSound, Healthy, Loads
  <2>7. AllLoad(job[p].reg)'
    BY <1>0, <2>2, <2>5 DEF AllLoad, Loads
  <2> QED BY <2>2, <2>6, <2>7 DEF AfterSound, Storing
<1>10. CASE Moves(p, NoJob, "unreadable")
  <2>1. pc'[p] = "unreadable"
    BY <1>0, <1>10, MovesAre
  <2> QED BY <2>1 DEF AfterSound, Storing
<1> QED BY <1>0, <1>7, <1>8, <1>9, <1>10, DiscoverIs

LEMMA AftersSoundStay ==
    ASSUME TypedJobs, AloneIsAlone, TextsSound, NothingLost, SyncsSound, AftersSound,
           NEW p \in Sessions, Command(p) \/ SessionStep(p) \/ Abort(p)
    PROVE  AftersSound'
<1> SUFFICES ASSUME NEW a \in alone' PROVE AfterSound(a)'
  BY DEF AftersSound
<1>0. alone \subseteq Sessions
  BY DEF TypedJobs, PluginsTypeOK
<1>1. a = p /\ (Command(p) \/ (p \in alone /\ (SessionStep(p) \/ Abort(p))))
  BY <1>0, WhoIsAlone
<1>2. CASE \/ Command(p) \/ SyncBundled(p) \/ Prune(p) \/ Remove(p) \/ MakeDir(p) \/ OpenPart(p)
           \/ Fill(p) \/ Fail(p) \/ Abort(p) \/ ReadSettings(p) \/ ClearSettings(p)
           \/ SaveSettings(p) \/ Reload(p)
  <2>1. AfterSound(p)'
    BY <1>2, NotTelling, NothingTold
  <2> QED BY <1>1, <2>1
<1>3. CASE Removed(p) \/ Copied(p)
  <2>1. AfterSound(p)'
    BY <1>3, ToldElsewhere
  <2> QED BY <1>1, <2>1
<1>4. CASE p \in alone /\ (Synced(p) \/ Truncate(p) \/ Store(p) \/ Discover(p))
  <2>1. SyncSound(p) /\ AfterSound(p)
    BY <1>4 DEF SyncsSound, AftersSound
  <2>2. AfterSound(p)'
    BY <1>4, <2>1, SyncedTells, TruncateTells, StoreTells, DiscoverTells
  <2> QED BY <1>1, <2>2
<1> QED BY <1>1, <1>2, <1>3, <1>4 DEF SessionStep

(***************************************************************************)
(* The inductive invariant, and what it says of a list without company.     *)
(***************************************************************************)

HomeInv ==
    /\ TypedJobs /\ AloneIsAlone /\ ExactAlone
    /\ NothingLost /\ ClaimsHold /\ SyncsSound /\ AftersSound /\ TextsSound

LEMMA HomeFirst == PluginsInit => HomeInv
<1> SUFFICES ASSUME PluginsInit PROVE HomeInv
  OBVIOUS
<1>1. TypedJobs
  BY TypedFirst
<1>2. AloneIsAlone /\ ExactAlone /\ SyncsSound /\ AftersSound /\ TextsSound
  BY DEF PluginsInit, AloneIsAlone, ExactAlone, SyncsSound, AftersSound, TextsSound
<1>3. /\ "manifest" \in Parts /\ "hook" \in Parts /\ None \notin Plugins
      /\ None # Binary /\ Bundled \subseteq Plugins
  BY VersionsAssumption DEF Parts, Plugins
<1>4. \A r \in Sessions : job[r] = NoJob /\ pc[r] = "idle"
  BY DEF PluginsInit
<1>5. ASSUME NEW q \in Plugins
      PROVE  \/ \A f \in Parts : dir[q][f] = "absent"
             \/ \E v \in Versions : \A f \in Parts : dir[q][f] = v
  BY DEF PluginsInit, Missing, Whole
<1>6. NothingLost
  <2>1. ASSUME NEW q \in Plugins \ cut PROVE OnTheWay(q)
    <3>1. dir[q]["manifest"] # "torn"
      BY <1>3, <1>5, TornAssumption
    <3>2. dir[q]["hook"] = "absent" => dir[q]["manifest"] = "absent"
      BY <1>3, <1>5, TornAssumption
    <3>3. \A r \in Sessions : job[r].target # q
      BY <1>3, <1>4, NoJobIs
    <3> QED BY <3>1, <3>2, <3>3 DEF OnTheWay
  <2> QED BY <2>1 DEF NothingLost
<1>7. ClaimsHold
  <2>1. ASSUME NEW b \in Bundled, Claimed(b) PROVE Cared(b)
    <3>1. \A r \in Sessions : job[r].target # b /\ job[r].reg[b] # Binary
      BY <1>3, <1>4, NoJobIs DEF NoRecords
    <3>2. registry[b] = Binary
      BY <2>1, <3>1 DEF Claimed
    <3>3. registry # NoRecords
      BY <1>3, <3>2 DEF NoRecords
    <3>4. PICK v \in Versions, e \in SUBSET External :
             LET kept == Bundled \cup Retired \cup e IN
             /\ dir = [q \in Plugins |-> IF q \in kept THEN Whole(v) ELSE Missing]
             /\ registry = [q \in Plugins |-> IF q \in kept THEN v ELSE None]
      BY <3>3 DEF PluginsInit
    <3>5. dir[b] = Whole(v) /\ registry[b] = v
      BY <1>3, <3>4
    <3>6. \A f \in Parts : dir[b][f] = Binary
      BY <3>2, <3>5 DEF Whole
    <3>7. Binary \notin {"absent", "torn"}
      BY VersionsAssumption, TornAssumption
    <3> QED BY <3>6, <3>7 DEF Cared
  <2> QED BY <2>1 DEF ClaimsHold
<1> QED BY <1>1, <1>2, <1>6, <1>7 DEF HomeInv

LEMMA HomeStays == HomeInv /\ [PluginsNext]_pluginVars => HomeInv'
<1> SUFFICES ASSUME HomeInv, [PluginsNext]_pluginVars PROVE HomeInv'
  OBVIOUS
<1>1. TypedJobs'
  BY TypedStays DEF HomeInv
<1>2. ASSUME NEW p \in Sessions, Command(p) \/ SessionStep(p) \/ Abort(p)
      PROVE  HomeInv'
  BY <1>1, <1>2, AloneStays, ExactStays, NothingLostStays, ClaimsStay, SyncsSoundStays,
     AftersSoundStay, TextsSoundStay DEF HomeInv
<1>3. CASE UNCHANGED pluginVars
  <2>1. /\ there' = there /\ dir' = dir /\ registry' = registry /\ pc' = pc /\ job' = job
        /\ alone' = alone /\ cut' = cut /\ hurt' = hurt
        /\ garbled' = garbled /\ overlaid' = overlaid /\ spoilt' = spoilt
    BY <1>3 DEF pluginVars, home, trees, texts, history
  <2>2. AloneIsAlone' /\ ExactAlone'
    BY <2>1 DEF HomeInv, AloneIsAlone, AtRest, ExactAlone, Exact, Written
  <2>3. NothingLost'
    BY <2>1 DEF HomeInv, NothingLost, OnTheWay, WillOpen, WillFill
  <2>4. ClaimsHold'
    BY <2>1 DEF HomeInv, ClaimsHold, Claimed, Cared, WillOpen, WillFill
  <2>5. SyncsSound'
    BY <2>1 DEF HomeInv, SyncsSound, SyncSound, Healthy, Loads
  <2>6. AftersSound'
    BY <2>1 DEF HomeInv, AftersSound, AfterSound, Storing, AllSound, AllLoad, Healthy, Loads,
                Broken, HasManifest
  <2>7. TextsSound'
    BY <2>1 DEF HomeInv, TextsSound
  <2> QED BY <1>1, <2>2, <2>3, <2>4, <2>5, <2>6, <2>7 DEF HomeInv
<1> QED BY <1>2, <1>3 DEF PluginsNext, Finished

(* A list that no other process has been at work beside since it began puts  *)
(* right whatever was cut short before it, at any step of any command:       *)
(* bundled plugins are whole and of the binary's version, unless two         *)
(* processes spoiled one beside each other; retired ones are out of the      *)
(* registry, and every record has a plugin that loads (sync_bundled_plugins,  *)
(* discover_installed_plugins).                                             *)
THEOREM AListHeals == PluginsSpec => []ListHeals
<1>1. HomeInv => ListHeals
  <2> SUFFICES ASSUME HomeInv, NEW p \in alone, InStage(p, "listed")
               PROVE  BundledAreWhole /\ RecordsAreTrue
    BY DEF ListHeals
  <2>1. AllSound(registry) /\ AllLoad(registry)
    BY DEF HomeInv, AftersSound, AfterSound, InStage
  <2>2. BundledAreWhole
    BY <2>1 DEF BundledAreWhole, AllSound, Healthy
  <2>3. RecordsAreTrue
    BY <2>1 DEF RecordsAreTrue, AllSound, AllLoad
  <2> QED BY <2>2, <2>3
<1> QED BY <1>1, HomeFirst, HomeStays, PTL DEF PluginsSpec

(* Such a list fails for two reasons only.  One is the directory of a plugin  *)
(* that is not in the binary, a rewriting of which was cut short: commands    *)
(* that run to their ends beside each other, in any order of their steps,     *)
(* leave no directory that does not load (discover_installed_plugins).  The   *)
(* other is a registry or settings that are no JSON (load_registry), which    *)
(* only a writing that was cut short, or that came upon another's, can leave. *)
THEOREM AListFailsForFragments == PluginsSpec => []OnlyFragmentsFail
<1>1. HomeInv => OnlyFragmentsFail
  BY DEF HomeInv, AftersSound, AfterSound, TextsSound, OnlyFragmentsFail, InStage
<1> QED BY <1>1, HomeFirst, HomeStays, PTL DEF PluginsSpec
=============================================================================
