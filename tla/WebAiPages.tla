------------------------------ MODULE WebAiPages ------------------------------
(***************************************************************************)
(* The Web AI engine of crates/webai: one hidden window per provider of a  *)
(* web chat, made, initialised, used and closed by requests that run at    *)
(* once.  The mutex around the page manager is held while a page loads and *)
(* free while it is used.  An answer comes through two bounded channels:   *)
(* listeners put what the page emits into the first without waiting, a     *)
(* task of the provider parses it into the second, and the chat or the     *)
(* gateway reads that.                                                     *)
(*                                                                         *)
(* A provider that answers as a whole (evaluate instead of a stream) is    *)
(* left out, and so are the texts.  Files are written without errors.      *)
(***************************************************************************)
EXTENDS Naturals, FiniteSets

CONSTANTS
    Providers,
    OrgProviders,   \* those whose init looks up an organization
    Requests,
    Jobs,           \* request -> the things it may be for
    Chunks,         \* bound: chunks of an answer
    RawRoom,        \* capacity of the channel the listeners fill
    ParsedRoom,     \* capacity of the channel the provider's task fills
    None            \* no request

Ops == {"send", "check", "models", "login", "logout", "close", "close_all"}
Job == [op : Ops, provider : Providers, from : {"app", "gateway"}]

ASSUME ProvidersAssumption == OrgProviders \subseteq Providers
ASSUME JobsAssumption == Jobs \in [Requests -> SUBSET Job]
ASSUME LimitsAssumption == {Chunks, RawRoom, ParsedRoom} \subseteq Nat
ASSUME NoneAssumption == None \notin Requests

Places == {"want", "loading", "init", "discover", "verify", "check", "sending", "stream",
           "login", "close", "load", "save", "done"}
Results == {"", "ok", "stopped", "failed", "refused"}

NoPage == 0      \* pages are numbered from 1, per provider

VARIABLES
    lock,      \* holder of the page manager's mutex across an await
    page,      \* provider -> number of the page in the pool
    window,    \* provider -> the window with the provider's label
    idle,      \* providers whose last_used is longer ago than the idle timeout
    revived,   \* history: providers whose window was found closing by who loads it
    org,       \* providers whose organization is known
    loggedIn,  \* providers whose session cookies are in the cookie store
    marker,    \* providers in webai-credentials.json
    job, pc, result,
    held,      \* request -> the page it works with
    copy,      \* request -> the credentials it has read and not yet written
    site,      \* request -> what its script in the page is doing
    emitted,   \* request -> number of chunks its script has emitted
    raw,       \* request -> items in the first channel
    parsed,    \* request -> items in the second channel
    got,       \* request -> items its reader has taken
    parser,    \* request -> the provider's task runs
    cancel,    \* requests the user has stopped
    dropped    \* requests an item of which found the first channel full

pool    == <<lock, page, window, idle, revived>>
account == <<org, loggedIn, marker>>
course  == <<job, pc, result, held, copy>>
stream  == <<site, emitted, raw, parsed, got, parser, cancel, dropped>>
vars    == <<pool, account, course, stream>>

(* The chunks of an answer, and the error of a script that threw, which is *)
(* the last thing it emits.                                                *)
Items == 1 .. Chunks + 1
Error == Chunks + 1

TypeOK ==
    /\ lock \in Requests \cup {None}
    /\ page \in [Providers -> Nat]
    /\ window \in [Providers -> [number : Nat, state : {"none", "open", "closing"}]]
    /\ idle \subseteq Providers /\ revived \subseteq Providers /\ org \subseteq Providers
    /\ loggedIn \subseteq Providers /\ marker \subseteq Providers
    /\ job \in [Requests -> Job] /\ pc \in [Requests -> Places]
    /\ result \in [Requests -> Results] /\ held \in [Requests -> Nat]
    /\ copy \in [Requests -> SUBSET Providers]
    /\ site \in [Requests -> {"none", "runs", "threw", "ended", "failed"}]
    /\ emitted \in [Requests -> 0 .. Chunks]
    /\ raw \in [Requests -> SUBSET Items] /\ parsed \in [Requests -> SUBSET Items]
    /\ got \in [Requests -> SUBSET Items]
    /\ parser \in [Requests -> BOOLEAN]
    /\ cancel \subseteq Requests /\ dropped \subseteq Requests

Init ==
    /\ lock = None /\ page = [p \in Providers |-> NoPage]
    /\ window = [p \in Providers |-> [number |-> 0, state |-> "none"]]
    /\ idle = {} /\ revived = {} /\ org = {}
    /\ loggedIn \in SUBSET Providers /\ marker = loggedIn
    /\ job \in [Requests -> Job] /\ \A r \in Requests : job[r] \in Jobs[r]
    /\ pc = [r \in Requests |-> "want"] /\ result = [r \in Requests |-> ""]
    /\ held = [r \in Requests |-> NoPage] /\ copy = [r \in Requests |-> {}]
    /\ site = [r \in Requests |-> "none"] /\ emitted = [r \in Requests |-> 0]
    /\ raw = [r \in Requests |-> {}] /\ parsed = [r \in Requests |-> {}]
    /\ got = [r \in Requests |-> {}]
    /\ parser = [r \in Requests |-> FALSE] /\ cancel = {} /\ dropped = {}

-----------------------------------------------------------------------------
P(r)          == job[r].provider
At(r, place)  == pc[r] = place
Go(r, place)  == pc' = [pc EXCEPT ![r] = place] /\ UNCHANGED result
End(r, how)   == pc' = [pc EXCEPT ![r] = "done"] /\ result' = [result EXCEPT ![r] = how]
Free          == lock = None

(* A window that is closing still has its label, and may still run scripts. *)
Lives(p, n) == n # NoPage /\ window[p].number = n /\ window[p].state # "none"

(* Mutant: the page that is closed stays in the pool. *)
WithoutNone(ps) == page

(* The pool without some of its pages.  Window::close only asks for it.    *)
Without(ps) == [p \in Providers |-> IF p \in ps THEN NoPage ELSE page[p]]
Closing(ps) == [p \in Providers |-> IF p \in ps /\ Lives(p, page[p])
                                    THEN [window[p] EXCEPT !.state = "closing"]
                                    ELSE window[p]]

Stale == {p \in idle : page[p] # NoPage}

(* send_raw drops idle pages first; then the page is found, or a window of *)
(* the provider's label is, or one is built.                               *)
GetPage(r) ==
    /\ At(r, "want") /\ job[r].op \in {"send", "check"} /\ Free
    /\ LET stale == IF job[r].op = "send" THEN Stale ELSE {}
           kept  == Without(stale)
           found == Closing(stale)
           p     == P(r)
       IN /\ page' = kept
          /\ \/ /\ kept[p] # NoPage
                /\ held' = [held EXCEPT ![r] = kept[p]]
                /\ idle' = idle \ {p} /\ window' = found
                /\ Go(r, "verify") /\ UNCHANGED <<lock, revived>>
             \/ /\ kept[p] = NoPage
                /\ window' = IF found[p].state # "none" THEN found
                             ELSE [found EXCEPT ![p] = [number |-> @.number + 1,
                                                        state |-> "open"]]
                /\ held' = [held EXCEPT ![r] = window'[p].number]
                /\ revived' = IF found[p].state = "closing" THEN revived \cup {p}
                              ELSE revived \ {p}
                /\ lock' = r /\ Go(r, "loading") /\ UNCHANGED idle
             \/ /\ kept[p] = NoPage /\ found[p].state = "none"    \* build() fails
                /\ window' = found /\ End(r, "failed") /\ UNCHANGED <<lock, idle, revived, held>>
    /\ UNCHANGED <<account, job, copy, stream>>

(* wait_for_tauri_ready looks at no window: any ready event of the provider *)
(* ends it, also one that was on its way when the window was asked to close, *)
(* or that a poller left behind by a request that was dropped has caused.   *)
Loaded(r) ==
    /\ At(r, "loading")
    /\ page' = [page EXCEPT ![P(r)] = held[r]]
    /\ idle' = idle \ {P(r)}
    /\ lock' = None /\ Go(r, "init")
    /\ UNCHANGED <<window, revived, account, job, held, copy, stream>>

(* Mutant: a page that does not load is loaded again, without a limit. *)
LoadTimesOutAgain(r) ==
    /\ At(r, "loading") /\ lock' = None /\ Go(r, "want")
    /\ UNCHANGED <<page, window, idle, revived, account, job, held, copy, stream>>

LoadTimesOut(r) ==
    /\ At(r, "loading") /\ lock' = None /\ End(r, "failed")
    /\ UNCHANGED <<page, window, idle, revived, account, job, held, copy, stream>>

(* The init of a provider, after the mutex is released.                    *)
StartInit(r) ==
    /\ At(r, "init")
    /\ IF P(r) \in OrgProviders \ org
       THEN Go(r, "discover")
       ELSE Go(r, "verify")
    /\ UNCHANGED <<pool, account, job, held, copy, stream>>

(* A lookup that fails, or times out, makes the organization unknown.      *)
Discover(r) ==
    /\ At(r, "discover") /\ Go(r, "verify")
    /\ \/ Lives(P(r), held[r]) /\ org' = org \cup {P(r)}
       \/ org' = org \ {P(r)}
    /\ UNCHANGED <<pool, loggedIn, marker, job, held, copy, stream>>

(* verify_session.  cookie_probe takes the mutex and looks at the page that *)
(* is in the pool by then; without one, or when it fails, nothing is known. *)
ProbeCookies(r) ==
    /\ At(r, "verify") /\ Free
    /\ \/ Lives(P(r), page[P(r)]) /\ P(r) \notin loggedIn /\ Go(r, "load")
       \/ Go(r, "check")
    /\ UNCHANGED <<pool, account, job, held, copy, stream>>

(* check_session of a provider: any failure of the fetch counts as "not     *)
(* logged in", only a script that does not answer is an error, and a        *)
(* message is sent in spite of that.                                        *)
CheckSession(r) ==
    /\ At(r, "check")
    /\ LET next == IF job[r].op = "send" THEN Go(r, "sending") ELSE End(r, "ok")
       IN \/ Lives(P(r), held[r]) /\ P(r) \in loggedIn /\ next
          \/ Lives(P(r), held[r]) /\ Go(r, "load")
          \/ IF job[r].op = "send" THEN Go(r, "sending") ELSE End(r, "failed")
    /\ UNCHANGED <<pool, account, job, held, copy, stream>>

(* The credentials are read, changed and written without a lock.  Who reads *)
(* while another writes may find a torn file, which counts as an empty one. *)
LoadMarker(r) ==
    /\ At(r, "load") /\ Go(r, "save")
    /\ \E seen \in {marker} \cup {{} : q \in {q \in Requests : At(q, "save")}} :
          copy' = [copy EXCEPT ![r] = seen]
    /\ UNCHANGED <<pool, account, job, held, stream>>

SaveMarker(r) ==
    /\ At(r, "save")
    /\ marker' = IF job[r].op = "login" THEN copy[r] \cup {P(r)} ELSE copy[r] \ {P(r)}
    /\ copy' = [copy EXCEPT ![r] = {}]
    /\ End(r, IF job[r].op \in {"login", "logout"} THEN "ok" ELSE "refused")
    /\ UNCHANGED <<pool, org, loggedIn, job, held, stream>>

-----------------------------------------------------------------------------
(* The answer.  evaluate_streaming runs the script and registers listeners, *)
(* whether or not the window is still there.                                *)
SendMessage(r) ==
    /\ At(r, "sending")
    /\ \/ /\ Go(r, "stream")
          /\ site' = [site EXCEPT ![r] = "runs"]
          /\ parser' = [parser EXCEPT ![r] = TRUE]
       \/ End(r, "failed") /\ UNCHANGED <<site, parser>>
    /\ UNCHANGED <<pool, account, job, held, copy, emitted, raw, parsed, got, cancel,
                   dropped>>

Least(S) == CHOOSE i \in S : \A j \in S : i <= j

(* A listener cannot wait: it uses try_send.                                *)
Put(r, item) ==
    IF Cardinality(raw[r]) < RawRoom
    THEN raw' = [raw EXCEPT ![r] = @ \cup {item}] /\ UNCHANGED dropped
    ELSE dropped' = dropped \cup {r} /\ UNCHANGED raw

(* What a page emits when its listeners are gone is of no account.         *)
Heard(r) == parser[r] /\ Lives(P(r), held[r])

Emit(r) ==
    /\ site[r] = "runs" /\ Heard(r) /\ emitted[r] < Chunks
    /\ emitted' = [emitted EXCEPT ![r] = @ + 1] /\ Put(r, emitted[r] + 1)
    /\ UNCHANGED <<pool, account, course, site, parsed, got, parser, cancel>>

Throw(r) ==
    /\ site[r] = "runs" /\ Heard(r)
    /\ site' = [site EXCEPT ![r] = "threw"] /\ Put(r, Error)
    /\ UNCHANGED <<pool, account, course, emitted, parsed, got, parser, cancel>>

(* The done listener takes the sender: the first channel is closed.        *)
Finish(r) ==
    /\ site[r] \in {"runs", "threw"} /\ Heard(r)
    /\ site' = [site EXCEPT ![r] = IF @ = "runs" THEN "ended" ELSE "failed"]
    /\ UNCHANGED <<pool, account, course, emitted, raw, parsed, got, parser, cancel,
                   dropped>>

(* The provider's task.  It ends on an error, or when nobody reads.        *)
Parse(r) ==
    /\ parser[r] /\ raw[r] # {}
    /\ LET item == Least(raw[r]) IN
       /\ raw' = [raw EXCEPT ![r] = @ \ {item}]
       /\ \/ /\ At(r, "stream") /\ Cardinality(parsed[r]) < ParsedRoom
             /\ parsed' = [parsed EXCEPT ![r] = @ \cup {item}]
             /\ parser' = [parser EXCEPT ![r] = item # Error]
          \/ /\ At(r, "done")
             /\ parser' = [parser EXCEPT ![r] = FALSE] /\ UNCHANGED parsed
    /\ UNCHANGED <<pool, account, course, site, emitted, got, cancel, dropped>>

ParseEnd(r) ==
    /\ parser[r] /\ raw[r] = {} /\ site[r] \in {"ended", "failed"}
    /\ parser' = [parser EXCEPT ![r] = FALSE]
    /\ UNCHANGED <<pool, account, course, site, emitted, raw, parsed, got, cancel,
                   dropped>>

(* The reader is the chat's task or the gateway's reply.  The chat's looks  *)
(* at its cancel flag when an item has come.                                *)
Read(r) ==
    /\ At(r, "stream") /\ parsed[r] # {}
    /\ LET item == Least(parsed[r]) IN
       IF r \in cancel
       THEN /\ parsed' = [parsed EXCEPT ![r] = {}]
            /\ End(r, "stopped") /\ UNCHANGED got
       ELSE /\ parsed' = [parsed EXCEPT ![r] = @ \ {item}]
            /\ got' = [got EXCEPT ![r] = @ \cup {item}] /\ UNCHANGED <<pc, result>>
    /\ UNCHANGED <<pool, account, job, held, copy, site, emitted, raw, parser, cancel,
                   dropped>>

(* Mutant: the end of the task is taken for the end of the channel. *)
ReadEndEarly(r) ==
    /\ At(r, "stream") /\ ~parser[r] /\ End(r, "ok")
    /\ UNCHANGED <<pool, account, job, held, copy, stream>>

ReadEnd(r) ==
    /\ At(r, "stream") /\ parsed[r] = {} /\ ~parser[r] /\ End(r, "ok")
    /\ UNCHANGED <<pool, account, job, held, copy, stream>>

(* stop_ai_stream.  A stop that comes earlier does what one at the start of  *)
(* the stream does: nothing else looks at the flag.                         *)
Stop(r) ==
    /\ At(r, "stream") /\ job[r].from = "app" /\ r \notin cancel
    /\ cancel' = cancel \cup {r}
    /\ UNCHANGED <<pool, account, course, site, emitted, raw, parsed, got, parser,
                   dropped>>

(* A client of the gateway goes away: its request is dropped at an await.  *)
(* While a page loads, the poller that it has spawned goes on (Loaded).    *)
Leave(r) ==
    /\ job[r].from = "gateway"
    /\ pc[r] \in {"loading", "init", "discover", "verify", "check", "sending", "stream"}
    /\ lock' = IF lock = r THEN None ELSE lock
    /\ parsed' = [parsed EXCEPT ![r] = {}] /\ End(r, "stopped")
    /\ UNCHANGED <<page, window, idle, revived, account, job, held, copy, site, emitted, raw, got,
                   parser, cancel, dropped>>

-----------------------------------------------------------------------------
(* What the user does in the settings.                                     *)
StartLogin(r) ==
    /\ At(r, "want") /\ job[r].op = "login"
    /\ \/ (\A q \in Requests : ~(At(q, "login") /\ P(q) = P(r))) /\ Go(r, "login")
       \/ End(r, "failed")      \* a window is open already, or none can be built
    /\ UNCHANGED <<pool, account, job, held, copy, stream>>

(* Where the cookies cannot be read, the login is taken to have worked.    *)
EndLogin(r) ==
    /\ At(r, "login")
    /\ \/ loggedIn' = loggedIn \cup {P(r)} /\ Go(r, "load")
       \/ UNCHANGED loggedIn /\ Go(r, "load")
       \/ P(r) \notin loggedIn /\ UNCHANGED loggedIn /\ End(r, "refused")
    /\ UNCHANGED <<pool, org, marker, job, held, copy, stream>>

(* Cookies are cleared through the page, if there is one.                  *)
ClearCookies(r) ==
    /\ At(r, "want") /\ job[r].op \in {"logout", "close"} /\ Free
    /\ \/ Lives(P(r), page[P(r)]) /\ loggedIn' = loggedIn \ {P(r)}
       \/ UNCHANGED loggedIn
    /\ Go(r, "close")
    /\ UNCHANGED <<pool, org, marker, job, held, copy, stream>>

ClosePage(r) ==
    /\ At(r, "close") /\ Free
    /\ page' = Without({P(r)}) /\ window' = Closing({P(r)})
    /\ IF job[r].op = "logout" THEN Go(r, "load") ELSE End(r, "ok")
    /\ UNCHANGED <<lock, idle, revived, account, job, held, copy, stream>>

CloseAll(r) ==
    /\ At(r, "want") /\ job[r].op = "close_all" /\ Free
    /\ page' = Without(Providers) /\ window' = Closing(Providers) /\ End(r, "ok")
    /\ UNCHANGED <<lock, idle, revived, account, job, held, copy, stream>>

FetchModels(r) ==
    /\ At(r, "want") /\ job[r].op = "models" /\ Free
    /\ idle' = IF page[P(r)] # NoPage THEN idle \ {P(r)} ELSE idle
    /\ End(r, "ok")
    /\ UNCHANGED <<lock, page, window, revived, account, job, held, copy, stream>>

(* The event loop closes a window, and time passes.                        *)
WindowCloses(p) ==
    /\ window[p].state = "closing"
    /\ window' = [window EXCEPT ![p].state = "none"]
    /\ UNCHANGED <<lock, page, idle, revived, account, course, stream>>

TimePasses(p) ==
    /\ page[p] # NoPage /\ p \notin idle /\ idle' = idle \cup {p}
    /\ UNCHANGED <<lock, page, window, revived, account, course, stream>>

(* A request whose page was closed under it waits for ever: the sender of   *)
(* the first channel is dropped by the page's last event, or never.         *)
CutOff(r) ==
    /\ At(r, "stream") /\ ~Lives(P(r), held[r])
    /\ raw[r] = {} /\ parsed[r] = {} /\ site[r] \in {"runs", "threw"}

Finished == (\A r \in Requests : At(r, "done") \/ CutOff(r)) /\ UNCHANGED vars

Work(r) ==
    \/ GetPage(r) \/ Loaded(r) \/ LoadTimesOut(r) \/ StartInit(r) \/ Discover(r)
    \/ ProbeCookies(r) \/ CheckSession(r) \/ LoadMarker(r) \/ SaveMarker(r)
    \/ SendMessage(r) \/ Read(r) \/ ReadEnd(r)
    \/ StartLogin(r) \/ ClearCookies(r) \/ ClosePage(r) \/ CloseAll(r) \/ FetchModels(r)

Parser(r) == Parse(r) \/ ParseEnd(r)
Site(r)   == Emit(r) \/ Throw(r) \/ Finish(r)
User(r)   == EndLogin(r) \/ Stop(r) \/ Leave(r)

Next ==
    \/ \E r \in Requests : Work(r) \/ Parser(r) \/ Site(r) \/ User(r)
    \/ \E p \in Providers : WindowCloses(p) \/ TimePasses(p)
    \/ Finished

Spec == Init /\ [][Next]_vars

(* Nothing is assumed of the site, the user or the windows.  The mutex is  *)
(* first come, first served; loading and evaluating have time limits.      *)
FairSpec == Spec /\ \A r \in Requests : WF_vars(Work(r)) /\ WF_vars(Parser(r))

-----------------------------------------------------------------------------
(* A page that is in the pool has its window, which nobody has asked to    *)
(* close: what closes a window also takes its page out, under one lock, and *)
(* who finds or builds an open window keeps it until the page is loaded, or *)
(* leaves it to others as it is.  Only of a window that was found closing   *)
(* may a page be left that has none (page_manager.rs:144).                  *)
PoolIsAlive ==
    \A p \in Providers : page[p] # NoPage =>
        \/ window[p] = [number |-> page[p], state |-> "open"]
        \/ p \in revived

(* An answer that ended and for which no item was dropped is all the page  *)
(* emitted, the error of its script included (page.rs, providers).         *)
Emitted(r) == 1 .. emitted[r] \cup {i \in {Error} : site[r] \in {"threw", "failed"}}

AnswersComplete ==
    \A r \in Requests :
        At(r, "done") /\ result[r] = "ok" /\ site[r] # "none" /\ r \notin dropped =>
            got[r] = Emitted(r)

(* Every request ends, unless it waits for the user's login or for a page   *)
(* that is silent: whoever loads, gives up, is stopped or goes away, the    *)
(* others get the mutex, and what a page has emitted is read to its end.   *)
WaitsForSite(r) ==
    At(r, "stream") /\ raw[r] = {} /\ parsed[r] = {} /\ site[r] \in {"runs", "threw"}

EveryRequestEnds ==
    \A r \in Requests : <>[](At(r, "done") \/ At(r, "login") \/ WaitsForSite(r))
=============================================================================
