------------------------------ MODULE ReplyProofs ------------------------------
(* Theorems about how a reply reaches the engine, for any constants: the        *)
(* readers of the provider clients (ProviderStream), and the pages of the web    *)
(* AI engine, which answers without an API (WebAiPages).                         *)
EXTENDS ProviderStream, WebAiPages, FiniteSetTheorems, NaturalsInduction,
        WellFoundedInduction, TLAPS

(***************************************************************************)
(* Reading the events of a stream.  A reading is where the message is, its   *)
(* blocks, the call that is being assembled and the reply so far.           *)
(***************************************************************************)

AnEvent == [type : {"start", "block", "delta", "stop", "usage", "end"},
            index : Blocks \cup {NoBlock}, part : {"text", "thinking", "tool", "none"},
            call : 0 .. MaxCalls, pieces : Seq(Pieces)]

AReport == [type : {"text", "thinking", "tool", "usage", "end"}, call : 0 .. MaxCalls,
            pieces : Seq(Pieces)]

ATool == [call : 0 .. MaxCalls, args : Seq(Pieces)]

Reading == [phase : {"none", "message", "over"}, open : SUBSET Blocks, closed : SUBSET Blocks,
            tool : ATool, events : Seq(AReport)]

NowRead == [phase |-> phase, open |-> open, closed |-> closed, tool |-> tool, events |-> events]

ToolAfter(e, t) ==
    CASE e.type = "block" /\ e.part = "tool" -> [call |-> e.call, args |-> <<>>]
      [] e.type = "delta" /\ e.part = "tool" ->
            IF t = Nothing THEN t ELSE [t EXCEPT !.args = @ \o e.pieces]
      [] e.type = "stop" -> Nothing
      [] OTHER -> t

EventsAfter(e, t, es) ==
    CASE e.type = "delta" /\ e.part # "tool" -> Append(es, Said(e.part, NoTool, e.pieces))
      [] e.type = "stop" -> IF t = Nothing THEN es ELSE Append(es, Said("tool", t.call, t.args))
      [] e.type \in {"usage", "end"} -> Append(es, Said(e.type, NoTool, <<>>))
      [] OTHER -> es

BlocksAfter(e, a, b) ==
    \/ /\ e.type = "start" /\ a.phase = "none" /\ b.phase = "message"
       /\ b.open = a.open /\ b.closed = a.closed
    \/ /\ e.type = "block" /\ a.phase = "message" /\ b.phase = "message"
       /\ e.index \in Blocks /\ e.index \notin a.open /\ e.index \notin a.closed
       /\ b.open = a.open \cup {e.index} /\ b.closed = a.closed
    \/ /\ e.type = "delta" /\ a.phase = "message" /\ b.phase = "message"
       /\ e.index \in a.open /\ b.open = a.open /\ b.closed = a.closed
    \/ /\ e.type = "stop" /\ a.phase = "message" /\ b.phase = "message"
       /\ e.index \in a.open
       /\ b.open = a.open \ {e.index} /\ b.closed = a.closed \cup {e.index}
    \/ /\ e.type = "usage" /\ a.phase = "message" /\ b.phase = "message"
       /\ b.open = a.open /\ b.closed = a.closed
    \/ /\ e.type = "end" /\ a.phase = "message" /\ a.open = {} /\ b.phase = "over"
       /\ b.open = a.open /\ b.closed = a.closed

Reads(e, a, b) ==
    /\ BlocksAfter(e, a, b)
    /\ b.tool = ToolAfter(e, a.tool) /\ b.events = EventsAfter(e, a.tool, a.events)

Grows(es, more) == Len(es) <= Len(more) /\ \A i \in 1 .. Len(es) : more[i] = es[i]

(* A run of readings through the events s.                                  *)
Plays(s, a, b) ==
    \E run \in [0 .. Len(s) -> Reading] :
        /\ run[0] = a /\ run[Len(s)] = b
        /\ \A i \in 1 .. Len(s) : Reads(s[i], run[i - 1], run[i])
        /\ \A i \in 0 .. Len(s) : Grows(run[i].events, b.events)

LEMMA GrowsOn ==
    ASSUME NEW es \in Seq(AReport), NEW fs \in Seq(AReport), NEW gs \in Seq(AReport),
           Grows(es, fs), Grows(fs, gs)
    PROVE  Grows(es, gs)
BY DEF Grows

LEMMA ReadingParts ==
    ASSUME NEW a \in Reading
    PROVE  /\ a.phase \in {"none", "message", "over"} /\ a.open \subseteq Blocks
           /\ a.closed \subseteq Blocks /\ a.tool \in ATool /\ a.events \in Seq(AReport)
BY DEF Reading

LEMMA NothingIs == Nothing \in ATool /\ NoTool \in 0 .. MaxCalls
BY RetriesAssumption DEF Nothing, ATool, NoTool

LEMMA AfterTyped ==
    ASSUME NEW e \in AnEvent, NEW t \in ATool, NEW es \in Seq(AReport),
           e.type = "delta" => e.part # "none"
    PROVE  ToolAfter(e, t) \in ATool /\ EventsAfter(e, t, es) \in Seq(AReport)
<1>1. /\ e.call \in 0 .. MaxCalls /\ e.pieces \in Seq(Pieces) /\ t.call \in 0 .. MaxCalls
      /\ t.args \in Seq(Pieces) /\ e.part \in {"text", "thinking", "tool", "none"}
      /\ e.type \in {"start", "block", "delta", "stop", "usage", "end"} /\ <<>> \in Seq(Pieces)
  BY DEF AnEvent, ATool
<1>2. ToolAfter(e, t) \in ATool
  <2>1. [call |-> e.call, args |-> <<>>] \in ATool
    BY <1>1 DEF ATool
  <2>2. [t EXCEPT !.args = @ \o e.pieces] \in ATool
    <3>1. t.args \o e.pieces \in Seq(Pieces)
      BY <1>1
    <3> QED BY <3>1 DEF ATool
  <2> QED BY <2>1, <2>2, NothingIs DEF ToolAfter
<1>3. EventsAfter(e, t, es) \in Seq(AReport)
  <2>1. e.type = "delta" /\ e.part # "tool" => Said(e.part, NoTool, e.pieces) \in AReport
    BY <1>1, NothingIs DEF Said, AReport
  <2>2. Said("tool", t.call, t.args) \in AReport
    BY <1>1 DEF Said, AReport
  <2>3. e.type \in {"usage", "end"} => Said(e.type, NoTool, <<>>) \in AReport
    BY <1>1, NothingIs DEF Said, AReport
  <2> QED BY <2>1, <2>2, <2>3 DEF EventsAfter
<1> QED BY <1>2, <1>3

LEMMA AfterGrows ==
    ASSUME NEW e, NEW t, NEW es \in Seq(AReport), EventsAfter(e, t, es) \in Seq(AReport)
    PROVE  Grows(es, EventsAfter(e, t, es))
<1>1. \/ EventsAfter(e, t, es) = es
      \/ \E r : EventsAfter(e, t, es) = Append(es, r)
  BY DEF EventsAfter
<1> QED BY <1>1 DEF Grows

LEMMA PlaysNothing ==
    ASSUME NEW a \in Reading
    PROVE  Plays(<<>>, a, a)
<1> DEFINE run == [i \in 0 .. 0 |-> a]
<1>1. run \in [0 .. 0 -> Reading] /\ run[0] = a
  OBVIOUS
<1>2. Grows(a.events, a.events)
  BY DEF Grows, Reading
<1>3. \A i \in 0 .. 0 : run[i] = a
  OBVIOUS
<1> HIDE DEF run
<1> QED BY <1>1, <1>2, <1>3 DEF Plays

LEMMA PlayedNothing ==
    ASSUME NEW a, NEW b, Plays(<<>>, a, b)
    PROVE  a = b /\ a \in Reading
BY DEF Plays

LEMMA PlaysOne ==
    ASSUME NEW e, NEW a \in Reading, NEW b \in Reading, Reads(e, a, b)
    PROVE  Plays(<<e>>, a, b)
<1> DEFINE run == [i \in 0 .. 1 |-> IF i = 0 THEN a ELSE b]
<1>1. run \in [0 .. 1 -> Reading] /\ run[0] = a /\ run[1] = b
  OBVIOUS
<1>2. Grows(a.events, b.events) /\ Grows(b.events, b.events)
  BY ReadingParts, AfterGrows DEF Reads, Grows
<1>3. \A i \in 0 .. 1 : run[i] \in {a, b}
  BY <1>1
<1> HIDE DEF run
<1>4. \A i \in 0 .. 1 : Grows(run[i].events, b.events)
  BY <1>2, <1>3
<1>5. \A i \in 1 .. 1 : Reads(<<e>>[i], run[i - 1], run[i])
  BY <1>1
<1> QED BY <1>1, <1>4, <1>5 DEF Plays

LEMMA PlaysBoth ==
    ASSUME NEW s \in Seq(AnEvent), NEW t \in Seq(AnEvent), NEW a, NEW b, NEW c,
           Plays(s, a, b), Plays(t, b, c)
    PROVE  Plays(s \o t, a, c)
<1>1. PICK one \in [0 .. Len(s) -> Reading] :
        /\ one[0] = a /\ one[Len(s)] = b
        /\ \A i \in 1 .. Len(s) : Reads(s[i], one[i - 1], one[i])
        /\ \A i \in 0 .. Len(s) : Grows(one[i].events, b.events)
  BY DEF Plays
<1>2. PICK two \in [0 .. Len(t) -> Reading] :
        /\ two[0] = b /\ two[Len(t)] = c
        /\ \A i \in 1 .. Len(t) : Reads(t[i], two[i - 1], two[i])
        /\ \A i \in 0 .. Len(t) : Grows(two[i].events, c.events)
  BY DEF Plays
<1>3. Len(s) \in Nat /\ Len(t) \in Nat /\ Len(s \o t) = Len(s) + Len(t)
  OBVIOUS
<1> DEFINE run == [i \in 0 .. Len(s \o t) |-> IF i <= Len(s) THEN one[i] ELSE two[i - Len(s)]]
<1>4. \A i \in 0 .. Len(s) : run[i] = one[i]
  BY <1>3
<1>5. \A i \in 0 .. Len(t) : run[Len(s) + i] = two[i]
  <2>1. ASSUME NEW i \in 0 .. Len(t), i # 0 PROVE run[Len(s) + i] = two[i]
    <3>1. Len(s) + i \in 0 .. Len(s \o t) /\ ~(Len(s) + i <= Len(s)) /\ (Len(s) + i) - Len(s) = i
      BY <1>3, <2>1
    <3> QED BY <3>1
  <2>2. run[Len(s) + 0] = two[0]
    <3>1. Len(s) \in 0 .. Len(s) /\ Len(s) + 0 = Len(s)
      BY <1>3
    <3>2. run[Len(s)] = one[Len(s)]
      BY <1>4, <3>1
    <3> QED BY <1>1, <1>2, <3>1, <3>2
  <2> QED BY <2>1, <2>2
<1>6. run \in [0 .. Len(s \o t) -> Reading]
  <2>1. ASSUME NEW i \in 0 .. Len(s \o t) PROVE run[i] \in Reading
    <3>1. CASE i \in 0 .. Len(s)
      <4>1. run[i] = one[i]
        BY <1>4, <3>1
      <4> QED BY <1>1, <3>1, <4>1
    <3>2. CASE i \notin 0 .. Len(s)
      <4>1. i - Len(s) \in 0 .. Len(t) /\ Len(s) + (i - Len(s)) = i
        BY <1>3, <3>2
      <4>2. run[i] = two[i - Len(s)]
        BY <1>5, <4>1
      <4> QED BY <1>2, <4>1, <4>2
    <3> QED BY <3>1, <3>2
  <2>2. run = [i \in 0 .. Len(s \o t) |-> run[i]]
    OBVIOUS
  <2> HIDE DEF run
  <2> QED BY <2>1, <2>2
<1> HIDE DEF run
<1>7. run[0] = a /\ run[Len(s \o t)] = c
  BY <1>1, <1>2, <1>3, <1>4, <1>5
<1>8. ASSUME NEW i \in 1 .. Len(s \o t) PROVE Reads((s \o t)[i], run[i - 1], run[i])
  <2>1. CASE i \in 1 .. Len(s)
    <3>1. (s \o t)[i] = s[i] /\ run[i - 1] = one[i - 1] /\ run[i] = one[i]
      BY <1>3, <1>4, <2>1
    <3> QED BY <1>1, <2>1, <3>1
  <2>2. CASE i \notin 1 .. Len(s)
    <3> DEFINE j == i - Len(s)
    <3>1. j \in 1 .. Len(t) /\ i = Len(s) + j /\ j - 1 \in 0 .. Len(t)
          /\ i - 1 = Len(s) + (j - 1)
      BY <1>3, <2>2
    <3>2. (s \o t)[i] = t[j]
      BY <1>3, <3>1
    <3> HIDE DEF j
    <3>3. run[i] = two[j] /\ run[i - 1] = two[j - 1]
      BY <1>5, <3>1
    <3> QED BY <1>2, <3>1, <3>2, <3>3
  <2> QED BY <2>1, <2>2
<1>9. ASSUME NEW i \in 0 .. Len(s \o t) PROVE Grows(run[i].events, c.events)
  <2>1. CASE i \in 0 .. Len(s)
    <3>1. run[i] = one[i] /\ Grows(one[i].events, b.events) /\ Grows(b.events, c.events)
      BY <1>1, <1>2, <1>3, <1>4, <2>1
    <3>2. one[i] \in Reading /\ b \in Reading /\ c \in Reading
      BY <1>1, <1>2, <1>3, <2>1
    <3> QED BY <3>1, <3>2, ReadingParts, GrowsOn
  <2>2. CASE i \notin 0 .. Len(s)
    <3>1. i - Len(s) \in 0 .. Len(t) /\ i = Len(s) + (i - Len(s))
      BY <1>3, <2>2
    <3> QED BY <1>2, <1>5, <3>1
  <2> QED BY <2>1, <2>2
<1> QED BY <1>6, <1>7, <1>8, <1>9 DEF Plays

LEMMA PlaysHead ==
    ASSUME NEW s \in Seq(AnEvent), NEW a, NEW c, Plays(s, a, c), s # <<>>
    PROVE  \E b \in Reading : Reads(Head(s), a, b) /\ Plays(Tail(s), b, c)
<1>1. PICK run \in [0 .. Len(s) -> Reading] :
        /\ run[0] = a /\ run[Len(s)] = c
        /\ \A i \in 1 .. Len(s) : Reads(s[i], run[i - 1], run[i])
        /\ \A i \in 0 .. Len(s) : Grows(run[i].events, c.events)
  BY DEF Plays
<1>2. /\ Len(s) \in Nat /\ Len(s) >= 1 /\ Len(Tail(s)) = Len(s) - 1 /\ Head(s) = s[1]
      /\ \A i \in 1 .. Len(Tail(s)) : Tail(s)[i] = s[i + 1]
  OBVIOUS
<1> DEFINE rest == [i \in 0 .. Len(Tail(s)) |-> run[i + 1]]
<1>3. rest \in [0 .. Len(Tail(s)) -> Reading] /\ \A i \in 0 .. Len(Tail(s)) : rest[i] = run[i + 1]
  BY <1>2
<1> HIDE DEF rest
<1>4. rest[0] = run[1] /\ rest[Len(Tail(s))] = c
  BY <1>1, <1>2, <1>3
<1>5. \A i \in 1 .. Len(Tail(s)) : Reads(Tail(s)[i], rest[i - 1], rest[i])
  <2>1. ASSUME NEW i \in 1 .. Len(Tail(s)) PROVE Reads(Tail(s)[i], rest[i - 1], rest[i])
    <3>1. i + 1 \in 1 .. Len(s) /\ (i + 1) - 1 = i /\ (i - 1) + 1 = i
      BY <1>2
    <3>2. rest[i - 1] = run[i] /\ rest[i] = run[i + 1] /\ Tail(s)[i] = s[i + 1]
      BY <1>2, <1>3, <3>1
    <3> QED BY <1>1, <3>1, <3>2
  <2> QED BY <2>1
<1>6. \A i \in 0 .. Len(Tail(s)) : Grows(rest[i].events, c.events)
  BY <1>1, <1>2, <1>3
<1>7. Plays(Tail(s), run[1], c)
  BY <1>3, <1>4, <1>5, <1>6 DEF Plays
<1>8. Reads(Head(s), a, run[1]) /\ run[1] \in Reading
  BY <1>1, <1>2
<1> QED BY <1>7, <1>8

LEMMA PlayedGrows ==
    ASSUME NEW s \in Seq(AnEvent), NEW a, NEW b, Plays(s, a, b)
    PROVE  a \in Reading /\ b \in Reading /\ Grows(a.events, b.events)
BY DEF Plays

(***************************************************************************)
(* What the normaliser's state says of the reading that its events lead to. *)
(* told are the calls that have been reported, or are left for good, which  *)
(* only those in lost may be; ordered says that the pieces of each call     *)
(* come one after another, so that every reported call is whole.           *)
(***************************************************************************)

ACall == [named : BOOLEAN, args : Seq(Pieces), sent : Nat, block : Blocks \cup {NoBlock},
          started : BOOLEAN, stopped : BOOLEAN]

ANorm == [started : BOOLEAN, next : Nat, block : [Spoken -> Blocks \cup {NoBlock}],
          calls : [Calls -> ACall]]

StartedCalls(n) == {c \in Calls : n.calls[c].started}
StoppedCalls(n) == {c \in Calls : n.calls[c].stopped}

(* Every block has a number of its own, below the next.                    *)
SpokenNumbered(n) ==
    /\ \A p \in Spoken : n.block[p] # NoBlock => n.started /\ n.block[p] < n.next
    /\ n.block["thinking"] = n.block["text"] => n.block["text"] = NoBlock

CallNumbered(n, c) ==
    /\ n.calls[c].block # NoBlock =>
          /\ n.started /\ n.calls[c].block < n.next
          /\ \A p \in Spoken : n.block[p] # n.calls[c].block
          /\ \A d \in Calls : n.calls[d].block = n.calls[c].block => d = c
    /\ n.calls[c].started => n.calls[c].block # NoBlock
    /\ n.calls[c].stopped => n.calls[c].started
    /\ n.calls[c].sent <= Len(n.calls[c].args)
    /\ ~n.calls[c].started => n.calls[c].sent = 0

Numbered(n) == n \in ANorm /\ SpokenNumbered(n) /\ \A c \in Calls : CallNumbered(n, c)

Live(n, i) == \/ \E p \in Spoken : n.block[p] = i
              \/ \E c \in Ended(n) : n.calls[c].block = i

Shows(a, n) ==
    /\ a.phase = IF n.started THEN "message" ELSE "none"
    /\ \A i \in Blocks : i \in a.open <=> Live(n, i)
    /\ \A i \in a.closed :
          /\ i < n.next /\ i \notin a.open
          /\ \A c \in Calls : ~n.calls[c].started => n.calls[c].block # i

(* The arguments of a call that its events have carried.                   *)
Given(n, c) == SubSeq(n.calls[c].args, 1, n.calls[c].sent)

Reported(es, n, told, ordered, lost) ==
    /\ told \subseteq StartedCalls(n)
    /\ \A i \in DOMAIN es : es[i].type = "tool" =>
          /\ es[i].call \in told
          /\ ordered => es[i].pieces = Given(n, es[i].call)
          /\ \A j \in DOMAIN es : es[j].type = "tool" /\ es[j].call = es[i].call => j = i
    /\ \A c \in told : c \in lost \/ \E i \in DOMAIN es : es[i].type = "tool" /\ es[i].call = c

Assembled(t, n, told, ordered) ==
    /\ \A c, d \in StartedCalls(n) \ told : c = d
    /\ \A c \in StartedCalls(n) \ told : t.call = c /\ (ordered => t.args = Given(n, c))
    /\ StartedCalls(n) \subseteq told => t = Nothing

Holds(a, n, told, ordered, lost) ==
    Reported(a.events, n, told, ordered, lost) /\ Assembled(a.tool, n, told, ordered)

Keeps(a, n, told, ordered, lost) ==
    a \in Reading /\ Numbered(n) /\ Shows(a, n) /\ Holds(a, n, told, ordered, lost)

Unspoken(es, more) ==
    Grows(es, more) /\ \A i \in Len(es) + 1 .. Len(more) : more[i].type \notin Spoken

Moves(s, a, n, told, ordered, lost) ==
    \E b \in Reading : /\ Plays(s, a, b) /\ Keeps(b, n, told, ordered, lost)
                       /\ Unspoken(a.events, b.events)

LEMMA Numbers ==
    /\ Blocks \subseteq Nat /\ NoBlock \in Nat /\ NoBlock \notin Blocks
    /\ Calls \subseteq Nat /\ Calls \subseteq 0 .. MaxCalls /\ NoTool \notin Calls
    /\ Spoken = {"thinking", "text"} /\ "thinking" # "text"
    /\ Nothing.call = NoTool /\ Nothing.args = <<>>
BY RetriesAssumption DEF Blocks, NoBlock, Calls, NoTool, Spoken, Nothing

LEMMA NormParts ==
    ASSUME NEW n \in ANorm
    PROVE  /\ n.started \in BOOLEAN /\ n.next \in Nat
           /\ n.block \in [Spoken -> Blocks \cup {NoBlock}]
           /\ n.calls \in [Calls -> ACall]
           /\ \A p \in Spoken : n.block[p] \in Blocks \cup {NoBlock}
           /\ \A c \in Calls : n.calls[c] \in ACall
BY DEF ANorm

LEMMA CallParts ==
    ASSUME NEW c \in ACall
    PROVE  /\ c.named \in BOOLEAN /\ c.args \in Seq(Pieces) /\ c.sent \in Nat
           /\ c.block \in Blocks \cup {NoBlock} /\ c.started \in BOOLEAN /\ c.stopped \in BOOLEAN
BY DEF ACall

LEMMA UnspokenSame ==
    ASSUME NEW es \in Seq(AReport)
    PROVE  Unspoken(es, es)
BY DEF Unspoken, Grows

LEMMA UnspokenOn ==
    ASSUME NEW es \in Seq(AReport), NEW fs \in Seq(AReport), NEW gs \in Seq(AReport),
           Unspoken(es, fs), Unspoken(fs, gs)
    PROVE  Unspoken(es, gs)
<1>1. Grows(es, gs)
  BY GrowsOn DEF Unspoken
<1>2. ASSUME NEW i \in Len(es) + 1 .. Len(gs) PROVE gs[i].type \notin Spoken
  <2>1. CASE i \in 1 .. Len(fs)
    BY <2>1, <1>2 DEF Unspoken, Grows
  <2>2. CASE i \notin 1 .. Len(fs)
    BY <2>2, <1>2 DEF Unspoken, Grows
  <2> QED BY <2>1, <2>2
<1> QED BY <1>1, <1>2 DEF Unspoken

LEMMA MovesOn ==
    ASSUME NEW s \in Seq(AnEvent), NEW t \in Seq(AnEvent), NEW a \in Reading, NEW b \in Reading,
           NEW n, NEW told, NEW ordered, NEW lost,
           Plays(s, a, b), Unspoken(a.events, b.events), Moves(t, b, n, told, ordered, lost)
    PROVE  Moves(s \o t, a, n, told, ordered, lost)
<1>1. PICK c \in Reading : Plays(t, b, c) /\ Keeps(c, n, told, ordered, lost) /\ Unspoken(b.events, c.events)
  BY DEF Moves
<1>2. Plays(s \o t, a, c)
  BY <1>1, PlaysBoth
<1>3. Unspoken(a.events, c.events)
  BY <1>1, UnspokenOn, ReadingParts
<1> QED BY <1>1, <1>2, <1>3 DEF Moves

LEMMA MovesNot ==
    ASSUME NEW a, NEW n, NEW told, NEW ordered, NEW lost, Keeps(a, n, told, ordered, lost)
    PROVE  Moves(<<>>, a, n, told, ordered, lost)
<1>1. a \in Reading /\ a.events \in Seq(AReport)
  BY ReadingParts DEF Keeps
<1> QED BY <1>1, PlaysNothing, UnspokenSame DEF Moves

(* An event that is no text: what it takes for the reading to move by it.   *)
LEMMA MovesOne ==
    ASSUME NEW e \in AnEvent, NEW a \in Reading, NEW b \in Reading, NEW n, NEW told, NEW ordered, NEW lost,
           Reads(e, a, b), Keeps(b, n, told, ordered, lost), Unspoken(a.events, b.events)
    PROVE  Moves(<<e>>, a, n, told, ordered, lost) /\ <<e>> \in Seq(AnEvent)
BY PlaysOne DEF Moves

(* The calls as far as the reply is concerned.                             *)
Alike(n, m) == \A c \in Calls : /\ m.calls[c].started = n.calls[c].started
                                /\ Given(m, c) = Given(n, c)

LEMMA AlikeHolds ==
    ASSUME NEW a, NEW n, NEW m, NEW told, NEW ordered, NEW lost, Alike(n, m), Holds(a, n, told, ordered, lost)
    PROVE  Holds(a, m, told, ordered, lost)
<1>1. StartedCalls(m) = StartedCalls(n)
  BY DEF Alike, StartedCalls
<1>2. told \subseteq Calls
  BY DEF Holds, Reported, StartedCalls
<1>3. \A c \in Calls : Given(m, c) = Given(n, c)
  BY DEF Alike
<1>4. StartedCalls(n) \subseteq Calls
  BY DEF StartedCalls
<1>5. Reported(a.events, m, told, ordered, lost)
  BY <1>1, <1>2, <1>3 DEF Holds, Reported
<1>6. Assembled(a.tool, m, told, ordered)
  BY <1>1, <1>3, <1>4 DEF Holds, Assembled
<1> QED BY <1>5, <1>6 DEF Holds

(* A stop, of whatever block, reports the call that is being assembled.     *)
LEMMA StopReports ==
    ASSUME NEW e \in AnEvent, e.type = "stop", NEW a \in Reading, NEW n \in ANorm,
           NEW told, NEW ordered, NEW lost, Holds(a, n, told, ordered, lost)
    PROVE  /\ Reported(EventsAfter(e, a.tool, a.events), n, StartedCalls(n), ordered, lost)
           /\ Assembled(ToolAfter(e, a.tool), n, StartedCalls(n), ordered)
<1> DEFINE es == a.events
           more == EventsAfter(e, a.tool, a.events)
<1>0. es \in Seq(AReport) /\ a.tool \in ATool
  BY ReadingParts
<1>1. ToolAfter(e, a.tool) = Nothing
  BY DEF ToolAfter
<1>2. Assembled(ToolAfter(e, a.tool), n, StartedCalls(n), ordered)
  BY <1>1 DEF Assembled
<1>3. CASE StartedCalls(n) \subseteq told
  <2>1. told = StartedCalls(n) /\ a.tool = Nothing
    BY <1>3 DEF Holds, Reported, Assembled
  <2>2. more = es
    BY <2>1 DEF EventsAfter
  <2> QED BY <1>2, <2>1, <2>2 DEF Holds
<1>4. CASE ~(StartedCalls(n) \subseteq told)
  <2>1. PICK c \in StartedCalls(n) \ told : TRUE
    BY <1>4
  <2>2. a.tool.call = c /\ (ordered => a.tool.args = Given(n, c)) /\ StartedCalls(n) \ told = {c}
        /\ told \subseteq StartedCalls(n)
    BY <2>1 DEF Holds, Assembled, Reported
  <2>3. c \in Calls /\ a.tool # Nothing
    BY <2>1, <2>2, Numbers DEF StartedCalls
  <2>4. more = Append(es, Said("tool", c, a.tool.args))
    BY <2>2, <2>3 DEF EventsAfter
  <2>5. /\ Len(more) = Len(es) + 1 /\ DOMAIN more = 1 .. Len(es) + 1 /\ DOMAIN es = 1 .. Len(es)
        /\ \A i \in 1 .. Len(es) : more[i] = es[i]
        /\ more[Len(es) + 1] = Said("tool", c, a.tool.args) /\ Len(es) \in Nat
    BY <2>4, <1>0
  <2> HIDE DEF more, es
  <2>6. /\ more[Len(es) + 1].type = "tool" /\ more[Len(es) + 1].call = c
        /\ more[Len(es) + 1].pieces = a.tool.args
    BY <2>5 DEF Said
  <2>7. Reported(es, n, told, ordered, lost)
    BY DEF Holds, es
  <2>8. ASSUME NEW i \in DOMAIN more, more[i].type = "tool"
        PROVE  /\ more[i].call \in StartedCalls(n)
               /\ ordered => more[i].pieces = Given(n, more[i].call)
               /\ \A j \in DOMAIN more : more[j].type = "tool" /\ more[j].call = more[i].call => j = i
    <3>1. CASE i = Len(es) + 1
      BY <2>1, <2>2, <2>5, <2>6, <2>7, <3>1 DEF Reported
    <3>2. CASE i \in DOMAIN es
      BY <2>1, <2>2, <2>5, <2>6, <2>7, <2>8, <3>2 DEF Reported
    <3> QED BY <2>5, <3>1, <3>2
  <2>9. ASSUME NEW d \in StartedCalls(n)
        PROVE  d \in lost \/ \E i \in DOMAIN more : more[i].type = "tool" /\ more[i].call = d
    <3>1. CASE d = c
      BY <2>5, <2>6, <3>1
    <3>2. CASE d \in told
      BY <2>5, <2>7, <3>2 DEF Reported
    <3> QED BY <2>2, <3>1, <3>2
  <2>10. Reported(more, n, StartedCalls(n), ordered, lost)
    BY <2>8, <2>9 DEF Reported
  <2> QED BY <1>2, <2>10 DEF more
<1> QED BY <1>3, <1>4

LEMMA StopUnspoken ==
    ASSUME NEW e \in AnEvent, e.type = "stop", NEW t \in ATool, NEW es \in Seq(AReport)
    PROVE  Unspoken(es, EventsAfter(e, t, es))
<1>1. EventsAfter(e, t, es) = es \/ EventsAfter(e, t, es) = Append(es, Said("tool", t.call, t.args))
  BY DEF EventsAfter
<1>2. Said("tool", t.call, t.args).type \notin Spoken
  BY DEF Said, Spoken
<1>3. Unspoken(es, Append(es, Said("tool", t.call, t.args)))
  BY <1>2 DEF Unspoken, Grows
<1> QED BY <1>1, <1>3, UnspokenSame

-----------------------------------------------------------------------------
(* The steps of the normaliser, each with the events it gives.             *)

LEMMA StopTyped ==
    ASSUME NEW i \in Blocks
    PROVE  StopOf(i) \in AnEvent /\ StopOf(i).type = "stop" /\ StopOf(i).index = i
<1>1. i \in Blocks \cup {NoBlock} /\ <<>> \in Seq(Pieces) /\ NoTool \in 0 .. MaxCalls
  BY NothingIs
<1> QED BY <1>1 DEF StopOf, Event, AnEvent

(* The message starts with its first chunk.                                *)
LEMMA StartedPlays ==
    ASSUME NEW a, NEW n, NEW told, NEW ordered \in BOOLEAN, NEW lost, Keeps(a, n, told, ordered, lost)
    PROVE  /\ Started(n).out \in Seq(AnEvent)
           /\ Moves(Started(n).out, a, Started(n).norm, told, ordered, lost)
           /\ Started(n).norm = [n EXCEPT !.started = TRUE]
<1> DEFINE m == [n EXCEPT !.started = TRUE]
           e == Event("start", NoBlock, "none", NoTool, <<>>)
           b == [a EXCEPT !.phase = "message"]
<1>1. a \in Reading /\ n \in ANorm /\ Numbered(n) /\ Shows(a, n) /\ Holds(a, n, told, ordered, lost)
  BY DEF Keeps, Numbered
<1>2. Started(n).norm = m /\ Started(n).out = IF n.started THEN <<>> ELSE <<e>>
  BY DEF Started, Became
<1>3. m \in ANorm /\ m.block = n.block /\ m.calls = n.calls /\ m.next = n.next /\ m.started = TRUE
  BY <1>1 DEF ANorm
<1>4. /\ b \in Reading /\ b.phase = "message" /\ b.open = a.open /\ b.closed = a.closed
      /\ b.tool = a.tool /\ b.events = a.events
  BY <1>1 DEF Reading
<1>5. e \in AnEvent /\ e.type = "start"
  BY NothingIs DEF Event, AnEvent
<1> HIDE DEF m, e, b
<1>6. Numbered(m)
  <2>1. SpokenNumbered(m)
    BY <1>1, <1>3 DEF Numbered, SpokenNumbered
  <2>2. \A c \in Calls : CallNumbered(m, c)
    BY <1>1, <1>3 DEF Numbered, CallNumbered
  <2> QED BY <1>3, <2>1, <2>2 DEF Numbered
<1>7. Shows(b, m)
  <2>1. \A i : Live(m, i) <=> Live(n, i)
    BY <1>3 DEF Live, Ended
  <2> QED BY <1>1, <1>3, <1>4, <2>1 DEF Shows
<1>8. Holds(b, m, told, ordered, lost)
  <2>1. Alike(n, m)
    BY <1>3 DEF Alike, Given
  <2>2. Holds(a, n, told, ordered, lost) => Holds(b, n, told, ordered, lost)
    BY <1>4 DEF Holds
  <2> QED BY <1>1, <2>1, <2>2, AlikeHolds
<1>9. Keeps(b, m, told, ordered, lost)
  BY <1>4, <1>6, <1>7, <1>8 DEF Keeps
<1>10. CASE n.started
  <2>1. a.phase = "message"
    BY <1>1, <1>10 DEF Shows
  <2>2. b = a
    BY <1>1, <2>1 DEF b, Reading
  <2> QED BY <1>2, <1>9, <1>10, <2>2, MovesNot DEF m
<1>11. CASE ~n.started
  <2>1. a.phase = "none"
    BY <1>1, <1>11 DEF Shows
  <2>2. Reads(e, a, b)
    BY <1>4, <1>5, <2>1 DEF Reads, BlocksAfter, ToolAfter, EventsAfter
  <2>3. Unspoken(a.events, b.events)
    BY <1>1, <1>4, ReadingParts, UnspokenSame
  <2> QED BY <1>1, <1>2, <1>4, <1>5, <1>9, <1>11, <2>2, <2>3, MovesOne DEF m
<1> QED BY <1>10, <1>11

(* Of a reading after the stop of a block that is open.                    *)
AfterStop(a, i) ==
    [phase |-> a.phase, open |-> a.open \ {i}, closed |-> a.closed \cup {i},
     tool |-> ToolAfter(StopOf(i), a.tool),
     events |-> EventsAfter(StopOf(i), a.tool, a.events)]

LEMMA AfterStopIs ==
    ASSUME NEW a \in Reading, NEW i \in a.open, a.phase = "message"
    PROVE  /\ AfterStop(a, i) \in Reading /\ Reads(StopOf(i), a, AfterStop(a, i))
           /\ Unspoken(a.events, AfterStop(a, i).events) /\ StopOf(i) \in AnEvent
<1>1. /\ i \in Blocks /\ a.phase \in {"none", "message", "over"} /\ a.open \subseteq Blocks
      /\ a.closed \subseteq Blocks /\ a.tool \in ATool /\ a.events \in Seq(AReport)
  BY ReadingParts
<1>2. StopOf(i) \in AnEvent /\ StopOf(i).type = "stop" /\ StopOf(i).index = i
  BY <1>1, StopTyped
<1>3. /\ ToolAfter(StopOf(i), a.tool) \in ATool
      /\ EventsAfter(StopOf(i), a.tool, a.events) \in Seq(AReport)
  BY <1>1, <1>2, AfterTyped
<1>4. AfterStop(a, i) \in Reading
  BY <1>1, <1>3 DEF AfterStop, Reading
<1>5. Reads(StopOf(i), a, AfterStop(a, i))
  BY <1>2 DEF AfterStop, Reads, BlocksAfter
<1>6. Unspoken(a.events, AfterStop(a, i).events)
  BY <1>1, <1>2, StopUnspoken DEF AfterStop
<1> QED BY <1>2, <1>4, <1>5, <1>6

(* Whatever is stopped, every call that has started is reported then.      *)
LEMMA AfterStopHolds ==
    ASSUME NEW a \in Reading, NEW i \in Blocks, NEW n \in ANorm,
           NEW told, NEW ordered, NEW lost, Holds(a, n, told, ordered, lost)
    PROVE  Holds(AfterStop(a, i), n, StartedCalls(n), ordered, lost)
BY StopTyped, StopReports DEF AfterStop, Holds

(* The stop of an open block of text or reasoning.                         *)
LEMMA PartStops ==
    ASSUME NEW a, NEW n, NEW told, NEW ordered \in BOOLEAN, NEW lost, Keeps(a, n, told, ordered, lost),
           NEW p \in Spoken, n.block[p] # NoBlock
    PROVE  /\ <<StopOf(n.block[p])>> \in Seq(AnEvent)
           /\ Moves(<<StopOf(n.block[p])>>, a, [n EXCEPT !.block[p] = NoBlock],
                    StartedCalls(n), ordered, lost)
<1> DEFINE m == [n EXCEPT !.block[p] = NoBlock]
           i == n.block[p]
           b == AfterStop(a, i)
<1>1. a \in Reading /\ n \in ANorm /\ Numbered(n) /\ Shows(a, n) /\ Holds(a, n, told, ordered, lost)
  BY DEF Keeps, Numbered
<1>2. i \in Blocks /\ i \in a.open /\ a.phase = "message" /\ n.started
  BY <1>1, NormParts DEF Shows, Live, Numbered, SpokenNumbered
<1>3. /\ m \in ANorm /\ m.calls = n.calls /\ m.next = n.next /\ m.started = n.started
      /\ m.block[p] = NoBlock /\ \A q \in Spoken : q # p => m.block[q] = n.block[q]
  BY <1>1 DEF ANorm
<1>4. /\ b \in Reading /\ Reads(StopOf(i), a, b) /\ Unspoken(a.events, b.events)
      /\ StopOf(i) \in AnEvent
  BY <1>1, <1>2, AfterStopIs
<1>5. /\ b.phase = "message" /\ b.open = a.open \ {i} /\ b.closed = a.closed \cup {i}
  BY <1>2 DEF AfterStop
<1> HIDE DEF m, b, i
<1>6. Numbered(m)
  <2>1. SpokenNumbered(m)
    BY <1>1, <1>3, Numbers DEF Numbered, SpokenNumbered
  <2>2. \A c \in Calls : CallNumbered(m, c)
    BY <1>1, <1>3 DEF Numbered, CallNumbered
  <2> QED BY <1>3, <2>1, <2>2 DEF Numbered
<1>7. Shows(b, m)
  <2>1. \A q \in Spoken : q # p => n.block[q] # i
    BY <1>1, <1>2, Numbers DEF Numbered, SpokenNumbered, i
  <2>2. \A c \in Calls : n.calls[c].block # i
    BY <1>1, <1>2, Numbers DEF Numbered, CallNumbered, i
  <2>3. Ended(m) = Ended(n) /\ Ended(n) \subseteq Calls
    BY <1>3 DEF Ended
  <2>4. \A j \in Blocks : Live(m, j) <=> Live(n, j) /\ j # i
    BY <1>2, <1>3, <2>1, <2>2, <2>3, Numbers DEF Live, i
  <2>5. \A j \in Blocks : j \in b.open <=> Live(m, j)
    BY <1>1, <1>5, <2>4 DEF Shows
  <2>6. i < n.next
    BY <1>1, <1>2, Numbers DEF Numbered, SpokenNumbered, i
  <2>7. ASSUME NEW j \in b.closed
        PROVE  j < m.next /\ j \notin b.open /\ \A c \in Calls : ~m.calls[c].started => m.calls[c].block # j
    <3>1. CASE j = i
      BY <1>3, <1>5, <2>2, <2>6, <3>1
    <3>2. CASE j \in a.closed
      BY <1>1, <1>3, <1>5, <3>2 DEF Shows
    <3> QED BY <1>5, <2>7, <3>1, <3>2
  <2> QED BY <1>2, <1>3, <1>5, <2>5, <2>7 DEF Shows
<1>8. Holds(b, m, StartedCalls(n), ordered, lost)
  <2>1. Alike(n, m)
    BY <1>3 DEF Alike, Given
  <2>2. Holds(b, n, StartedCalls(n), ordered, lost)
    BY <1>1, <1>2, AfterStopHolds DEF b
  <2> QED BY <2>1, <2>2, AlikeHolds
<1>9. Keeps(b, m, StartedCalls(n), ordered, lost)
  BY <1>4, <1>6, <1>7, <1>8 DEF Keeps
<1>10. <<StopOf(i)>> \in Seq(AnEvent) /\ Moves(<<StopOf(i)>>, a, m, StartedCalls(n), ordered, lost)
  BY <1>1, <1>4, <1>9, MovesOne
<1> QED BY <1>10 DEF m, i

(* Shut: the calls that are reported when the parts have been shut.        *)
ShutTold(n, parts, told) ==
    IF \E p \in parts : n.block[p] # NoBlock THEN StartedCalls(n) ELSE told

LEMMA ShutNorm ==
    ASSUME NEW n \in ANorm, NEW parts \in SUBSET Spoken
    PROVE  LET m == Shut(n, parts).norm
           IN /\ m \in ANorm /\ m.calls = n.calls /\ m.next = n.next /\ m.started = n.started
              /\ \A p \in Spoken : m.block[p] = IF p \in parts THEN NoBlock ELSE n.block[p]
<1> DEFINE m == [n EXCEPT !.block = Silenced(n, parts)]
<1>1. Shut(n, parts).norm = m
  BY DEF Shut, Became
<1>2. Silenced(n, parts) \in [Spoken -> Blocks \cup {NoBlock}]
  BY NormParts DEF Silenced
<1>3. /\ m \in ANorm /\ m.calls = n.calls /\ m.next = n.next /\ m.started = n.started
      /\ m.block = Silenced(n, parts)
  BY <1>2 DEF ANorm
<1> HIDE DEF m
<1>4. \A p \in Spoken : m.block[p] = IF p \in parts THEN NoBlock ELSE n.block[p]
  BY <1>3 DEF Silenced
<1> QED BY <1>1, <1>3, <1>4

LEMMA SameNorm ==
    ASSUME NEW n \in ANorm, NEW m \in ANorm, n.started = m.started, n.next = m.next,
           n.calls = m.calls, \A p \in Spoken : n.block[p] = m.block[p]
    PROVE  n = m
<1>1. n.block \in [Spoken -> Blocks \cup {NoBlock}] /\ m.block \in [Spoken -> Blocks \cup {NoBlock}]
  BY NormParts
<1>2. n.block = m.block
  BY <1>1
<1> QED BY <1>2 DEF ANorm

LEMMA PartNorm ==
    ASSUME NEW n \in ANorm, NEW p \in Spoken
    PROVE  LET m == [n EXCEPT !.block[p] = NoBlock]
           IN /\ m \in ANorm /\ m.calls = n.calls /\ m.next = n.next /\ m.started = n.started
              /\ \A q \in Spoken : m.block[q] = IF q = p THEN NoBlock ELSE n.block[q]
BY DEF ANorm

LEMMA ShutPlays ==
    ASSUME NEW a, NEW n, NEW told, NEW ordered \in BOOLEAN, NEW lost, Keeps(a, n, told, ordered, lost),
           NEW parts \in SUBSET Spoken
    PROVE  /\ Shut(n, parts).out \in Seq(AnEvent)
           /\ Moves(Shut(n, parts).out, a, Shut(n, parts).norm, ShutTold(n, parts, told), ordered, lost)
<1> DEFINE th == "thinking" \in parts /\ n.block["thinking"] # NoBlock
           tx == "text" \in parts /\ n.block["text"] # NoBlock
           m == Shut(n, parts).norm
           m1 == [n EXCEPT !.block["thinking"] = NoBlock]
           m2 == [n EXCEPT !.block["text"] = NoBlock]
           s1 == <<StopOf(n.block["thinking"])>>
           s2 == <<StopOf(n.block["text"])>>
           after == ShutTold(n, parts, told)
<1>1. n \in ANorm /\ a \in Reading /\ {"thinking", "text"} = Spoken /\ "thinking" # "text"
  BY Numbers DEF Keeps, Numbered
<1>2. Shut(n, parts).out = (IF th THEN s1 ELSE <<>>) \o (IF tx THEN s2 ELSE <<>>)
  BY DEF Shut, Became
<1>3. /\ m \in ANorm /\ m.calls = n.calls /\ m.next = n.next /\ m.started = n.started
      /\ \A p \in Spoken : m.block[p] = IF p \in parts THEN NoBlock ELSE n.block[p]
  BY <1>1, ShutNorm
<1>4. /\ m1 \in ANorm /\ m1.calls = n.calls /\ m1.next = n.next /\ m1.started = n.started
      /\ m1.block["thinking"] = NoBlock /\ m1.block["text"] = n.block["text"]
  BY <1>1, PartNorm
<1>5. /\ m2 \in ANorm /\ m2.calls = n.calls /\ m2.next = n.next /\ m2.started = n.started
      /\ m2.block["text"] = NoBlock /\ m2.block["thinking"] = n.block["thinking"]
  BY <1>1, PartNorm
<1>6. after = IF th \/ tx THEN StartedCalls(n) ELSE told
  BY <1>1 DEF ShutTold
<1> HIDE DEF m, m1, m2, s1, s2, after
<1>7. CASE ~th /\ ~tx
  <2>1. m = n
    BY <1>1, <1>3, <1>7, SameNorm
  <2>2. Shut(n, parts).out = <<>> /\ after = told
    BY <1>2, <1>6, <1>7
  <2> QED BY <2>1, <2>2, MovesNot DEF m, after
<1>8. CASE th /\ ~tx
  <2>1. m = m1
    BY <1>1, <1>3, <1>4, <1>8, SameNorm
  <2>2. s1 \in Seq(AnEvent) /\ Moves(s1, a, m1, StartedCalls(n), ordered, lost)
    BY <1>1, <1>8, PartStops DEF s1, m1
  <2>3. Shut(n, parts).out = s1 /\ after = StartedCalls(n)
    BY <1>2, <1>6, <1>8, <2>2
  <2> QED BY <2>1, <2>2, <2>3 DEF m, after
<1>9. CASE ~th /\ tx
  <2>1. m = m2
    BY <1>1, <1>3, <1>5, <1>9, SameNorm
  <2>2. s2 \in Seq(AnEvent) /\ Moves(s2, a, m2, StartedCalls(n), ordered, lost)
    BY <1>1, <1>9, PartStops DEF s2, m2
  <2>3. Shut(n, parts).out = s2 /\ after = StartedCalls(n)
    BY <1>2, <1>6, <1>9, <2>2
  <2> QED BY <2>1, <2>2, <2>3 DEF m, after
<1>10. CASE th /\ tx
  <2>1. s1 \in Seq(AnEvent) /\ Moves(s1, a, m1, StartedCalls(n), ordered, lost)
    BY <1>1, <1>10, PartStops DEF s1, m1
  <2>2. PICK b \in Reading : /\ Plays(s1, a, b) /\ Unspoken(a.events, b.events)
                             /\ Keeps(b, m1, StartedCalls(n), ordered, lost)
    BY <2>1 DEF Moves
  <2>3. m1.block["text"] # NoBlock /\ <<StopOf(m1.block["text"])>> = s2
    BY <1>4, <1>10 DEF s2
  <2> DEFINE m3 == [m1 EXCEPT !.block["text"] = NoBlock]
  <2>4. /\ m3 \in ANorm /\ m3.calls = m1.calls /\ m3.next = m1.next /\ m3.started = m1.started
        /\ m3.block["text"] = NoBlock /\ m3.block["thinking"] = m1.block["thinking"]
    BY <1>1, <1>4, PartNorm
  <2>5. s2 \in Seq(AnEvent) /\ Moves(s2, b, m3, StartedCalls(m1), ordered, lost)
    BY <1>1, <2>2, <2>3, PartStops
  <2> HIDE DEF m3
  <2>6. StartedCalls(m1) = StartedCalls(n)
    BY <1>4 DEF StartedCalls
  <2>7. m = m3
    BY <1>1, <1>3, <1>4, <1>10, <2>4, SameNorm
  <2>8. Moves(s1 \o s2, a, m3, StartedCalls(n), ordered, lost)
    BY <1>1, <2>1, <2>2, <2>5, <2>6, MovesOn
  <2>9. Shut(n, parts).out = s1 \o s2 /\ after = StartedCalls(n)
    BY <1>2, <1>6, <1>10
  <2>10. s1 \o s2 \in Seq(AnEvent)
    BY <2>1, <2>5
  <2> QED BY <2>7, <2>8, <2>9, <2>10 DEF m, after
<1> QED BY <1>7, <1>8, <1>9, <1>10

(* The calls of a set, one after the other.                                *)
LEMMA RankOnto ==
    ASSUME NEW E \in SUBSET Calls
    PROVE  /\ IsFiniteSet(E) /\ Cardinality(E) \in Nat
           /\ \A k \in 1 .. Cardinality(E) : Nth(k, E) \in E /\ Rank(Nth(k, E), E) = k
           /\ \A i \in E : Rank(i, E) \in 1 .. Cardinality(E) /\ Nth(Rank(i, E), E) = i
<1> DEFINE N == Cardinality(E)
           S(i) == {j \in E : j <= i}
           f == [i \in E |-> Rank(i, E)]
<1>1. IsFiniteSet(E) /\ N \in Nat /\ E \subseteq Nat
  <2>1. IsFiniteSet(Calls)
    BY FS_Interval, RetriesAssumption DEF Calls
  <2> QED BY <2>1, FS_Subset, FS_CardinalityType, Numbers
<1>2. \A i \in E : Rank(i, E) = Cardinality(S(i))
  BY DEF Rank
<1>3. ASSUME NEW i \in E
      PROVE  IsFiniteSet(S(i)) /\ Cardinality(S(i)) \in Nat /\ Cardinality(S(i)) <= N
             /\ Cardinality(S(i)) # 0
  <2>1. S(i) \in SUBSET E /\ i \in S(i)
    BY <1>1
  <2>2. IsFiniteSet(S(i)) /\ Cardinality(S(i)) <= N
    BY <1>1, <2>1, FS_Subset
  <2>3. Cardinality(S(i)) \in Nat
    BY <2>2, FS_CardinalityType
  <2>4. Cardinality(S(i)) # 0
    BY <2>1, <2>2, FS_EmptySet
  <2> QED BY <2>2, <2>3, <2>4
<1>4. \A i \in E : Rank(i, E) \in 1 .. N
  <2>1. ASSUME NEW i \in E PROVE Rank(i, E) \in 1 .. N
    <3> DEFINE r == Rank(i, E)
    <3>1. r \in Nat /\ r <= N /\ r # 0
      BY <1>2, <1>3
    <3> HIDE DEF r, N
    <3>2. r \in 1 .. N
      BY <1>1, <3>1
    <3> QED BY <3>2 DEF r
  <2> QED BY <2>1
<1>5. ASSUME NEW i \in E, NEW j \in E, i < j
      PROVE  Cardinality(S(i)) # Cardinality(S(j))
  <2>0. i \in Nat /\ j \in Nat
    BY <1>1
  <2>1. S(i) \in SUBSET S(j) /\ j \in S(j) /\ j \notin S(i)
    <3>1. \A k \in E : k <= i => k <= j
      BY <1>1, <1>5, <2>0
    <3>2. j <= j /\ ~(j <= i)
      BY <1>5, <2>0
    <3> QED BY <3>1, <3>2
  <2>2. IsFiniteSet(S(j))
    BY <1>3
  <2> QED BY <2>1, <2>2, FS_Subset
<1>6. \A i, j \in E : Rank(i, E) = Rank(j, E) => i = j
  <2>1. ASSUME NEW i \in E, NEW j \in E, Rank(i, E) = Rank(j, E), i # j PROVE FALSE
    <3>1. i < j \/ j < i
      BY <1>1, <2>1
    <3> QED BY <1>2, <1>5, <2>1, <3>1
  <2> QED BY <2>1
<1>7. f \in Injection(E, 1 .. N)
  <2>1. f \in [E -> 1 .. N]
    BY <1>4
  <2>2. \A i, j \in DOMAIN f : f[i] = f[j] => i = j
    BY <1>6
  <2> QED BY <2>1, <2>2 DEF Injection, IsInjective
<1>8. IsFiniteSet(1 .. N) /\ Cardinality(1 .. N) = N
  BY <1>1, FS_Interval
<1>9. f \in Surjection(E, 1 .. N)
  BY <1>7, <1>8, FS_Injection
<1>10. \A k \in 1 .. N : \E i \in E : f[i] = k
  BY <1>9 DEF Surjection
<1>11. \A k \in 1 .. N : Nth(k, E) \in E /\ Rank(Nth(k, E), E) = k
  BY <1>10 DEF Nth
<1>12. \A i \in E : Nth(Rank(i, E), E) = i
  BY <1>4, <1>6, <1>11
<1> QED BY <1>1, <1>4, <1>11, <1>12

(* m is n, but that the calls of E have been stopped as well.              *)
Ends(n, m, E) ==
    /\ m \in ANorm /\ m.started = n.started /\ m.next = n.next /\ m.block = n.block
    /\ \A c \in Calls :
          /\ m.calls[c].named = n.calls[c].named /\ m.calls[c].args = n.calls[c].args
          /\ m.calls[c].sent = n.calls[c].sent /\ m.calls[c].block = n.calls[c].block
          /\ m.calls[c].started = n.calls[c].started
          /\ m.calls[c].stopped <=> n.calls[c].stopped \/ c \in E

LEMMA EndsShow ==
    ASSUME NEW a \in Reading, NEW b \in Reading, NEW n, Numbered(n), Shows(a, n),
           NEW E \in SUBSET Ended(n), NEW m, Ends(n, m, E), b.phase = a.phase,
           \A i \in Blocks : i \in b.open <=> i \in a.open /\ \A c \in E : n.calls[c].block # i,
           \A i \in b.closed : i \in a.closed \/ \E c \in E : n.calls[c].block = i
    PROVE  Numbered(m) /\ Shows(b, m) /\ Alike(n, m) /\ StartedCalls(m) = StartedCalls(n)
<1>1. n \in ANorm /\ Ended(n) \subseteq Calls /\ E \subseteq Calls
      /\ \A c \in E : n.calls[c].started /\ ~n.calls[c].stopped
  BY DEF Numbered, Ended
<1>2. Alike(n, m) /\ StartedCalls(m) = StartedCalls(n)
  BY DEF Alike, Given, StartedCalls, Ends
<1>3. Numbered(m)
  <2>1. SpokenNumbered(m)
    BY DEF Numbered, SpokenNumbered, Ends
  <2>2. \A c \in Calls : CallNumbered(m, c)
    BY <1>1 DEF Numbered, CallNumbered, Ends
  <2> QED BY <2>1, <2>2 DEF Numbered, Ends
<1>4. \A c : c \in Ended(m) <=> c \in Ended(n) /\ c \notin E
  BY <1>1 DEF Ended, Ends
<1>5. ASSUME NEW i \in Blocks PROVE i \in b.open <=> Live(m, i)
  <2>1. ASSUME NEW c \in E, n.calls[c].block = i
        PROVE  /\ \A p \in Spoken : n.block[p] # i
               /\ \A d \in Calls : n.calls[d].block = i => d = c
    BY <1>1, <2>1, Numbers DEF Numbered, CallNumbered
  <2>2. CASE \E c \in E : n.calls[c].block = i
    <3>1. PICK c \in E : n.calls[c].block = i
      BY <2>2
    <3>2. i \notin b.open
      BY <3>1
    <3>3. ~Live(m, i)
      BY <1>1, <1>4, <2>1, <3>1 DEF Live, Ends, Ended
    <3> QED BY <3>2, <3>3
  <2>3. CASE \A c \in E : n.calls[c].block # i
    <3>1. i \in b.open <=> Live(n, i)
      BY <2>3 DEF Shows
    <3>2. Live(m, i) <=> Live(n, i)
      BY <1>1, <1>4, <2>3 DEF Live, Ends
    <3> QED BY <3>1, <3>2
  <2> QED BY <2>2, <2>3
<1>6. ASSUME NEW i \in b.closed
      PROVE  i < m.next /\ i \notin b.open /\ \A c \in Calls : ~m.calls[c].started => m.calls[c].block # i
  <2>0. i \in Blocks
    BY ReadingParts
  <2>1. CASE i \in a.closed
    <3>1. i < n.next /\ i \notin a.open /\ \A c \in Calls : ~n.calls[c].started => n.calls[c].block # i
      BY <2>1 DEF Shows
    <3> QED BY <2>0, <3>1 DEF Ends
  <2>2. CASE \E c \in E : n.calls[c].block = i
    <3>1. PICK c \in E : n.calls[c].block = i
      BY <2>2
    <3>2. i < n.next /\ \A d \in Calls : n.calls[d].block = i => d = c
      BY <1>1, <2>0, <3>1, Numbers DEF Numbered, CallNumbered
    <3>3. i \notin b.open
      BY <2>0, <3>1
    <3> QED BY <1>1, <3>1, <3>2, <3>3 DEF Ends
  <2> QED BY <2>1, <2>2
<1>7. b.phase = IF m.started THEN "message" ELSE "none"
  BY DEF Shows, Ends
<1>8. Shows(b, m)
  BY <1>5, <1>6, <1>7 DEF Shows
<1> QED BY <1>2, <1>3, <1>8

(* A call that has ended is reported with every other that has started.     *)
StopTold(n, E, told) == IF E = {} THEN told ELSE StartedCalls(n)

LEMMA FirstPlays ==
    ASSUME NEW a, NEW n, NEW told, NEW ordered \in BOOLEAN, NEW lost, Keeps(a, n, told, ordered, lost),
           NEW c \in Calls
    PROVE  /\ StoppedFirst(n, c).out \in Seq(AnEvent)
           /\ Moves(StoppedFirst(n, c).out, a, StoppedFirst(n, c).norm,
                    StopTold(n, Ended(n) \cap {c}, told), ordered, lost)
           /\ Ends(n, StoppedFirst(n, c).norm, Ended(n) \cap {c})
<1> DEFINE m == StoppedFirst(n, c).norm
           i == n.calls[c].block
           b == AfterStop(a, i)
<1>1. a \in Reading /\ n \in ANorm /\ Numbered(n) /\ Shows(a, n) /\ Holds(a, n, told, ordered, lost)
  BY DEF Keeps, Numbered
<1>2. CASE c \notin Ended(n)
  <2>1. StoppedFirst(n, c).out = <<>> /\ m = n /\ Ended(n) \cap {c} = {}
    BY <1>2 DEF StoppedFirst, Became
  <2>2. Ends(n, n, {})
    BY <1>1 DEF Ends
  <2>3. StopTold(n, Ended(n) \cap {c}, told) = told /\ <<>> \in Seq(AnEvent)
    BY <2>1 DEF StopTold
  <2>4. Moves(<<>>, a, n, told, ordered, lost)
    BY MovesNot
  <2> HIDE DEF m
  <2>5. /\ StoppedFirst(n, c).out \in Seq(AnEvent) /\ Ends(n, m, Ended(n) \cap {c})
        /\ Moves(StoppedFirst(n, c).out, a, m, StopTold(n, Ended(n) \cap {c}, told), ordered, lost)
    BY <2>1, <2>2, <2>3, <2>4
  <2> QED BY <2>5 DEF m
<1>3. CASE c \in Ended(n)
  <2>1. StoppedFirst(n, c).out = <<StopOf(i)>> /\ m = [n EXCEPT !.calls[c].stopped = TRUE]
        /\ Ended(n) \cap {c} = {c}
    BY <1>3 DEF StoppedFirst, Became
  <2>2. Ends(n, m, {c})
    <3> DEFINE d == [n.calls[c] EXCEPT !.stopped = TRUE]
    <3>0. n.calls[c] \in ACall
      BY <1>1, NormParts
    <3>1. /\ d \in ACall /\ d.named = n.calls[c].named /\ d.args = n.calls[c].args
          /\ d.sent = n.calls[c].sent /\ d.block = n.calls[c].block
          /\ d.started = n.calls[c].started /\ d.stopped = TRUE
      BY <3>0 DEF ACall
    <3>2. m = [n EXCEPT !.calls = [n.calls EXCEPT ![c] = d]]
      BY <2>1
    <3> HIDE DEF d, m
    <3>3. /\ m \in ANorm /\ m.started = n.started /\ m.next = n.next /\ m.block = n.block
          /\ m.calls = [n.calls EXCEPT ![c] = d]
      BY <1>1, <3>1, <3>2 DEF ANorm
    <3>4. \A e \in Calls : m.calls[e] = IF e = c THEN d ELSE n.calls[e]
      BY <1>1, <3>3, NormParts
    <3>5. \A e \in Calls : e # c => (n.calls[e].stopped <=> n.calls[e].stopped \/ e \in {c})
      OBVIOUS
    <3> QED BY <3>1, <3>3, <3>4, <3>5 DEF Ends
  <2>3. n.calls[c].started /\ i # NoBlock /\ i \in Blocks
    BY <1>1, <1>3, NormParts, CallParts DEF Ended, Numbered, CallNumbered
  <2>4. i \in a.open /\ a.phase = "message"
    BY <1>1, <1>3, <2>3 DEF Shows, Live, Numbered, CallNumbered
  <2>5. /\ b \in Reading /\ Reads(StopOf(i), a, b) /\ Unspoken(a.events, b.events)
        /\ StopOf(i) \in AnEvent
    BY <1>1, <2>4, AfterStopIs
  <2>6. b.phase = a.phase /\ b.open = a.open \ {i} /\ b.closed = a.closed \cup {i}
    BY DEF AfterStop
  <2>7. {c} \in SUBSET Ended(n)
    BY <1>3
  <2>8. \A j \in Blocks : j \in b.open <=> j \in a.open /\ \A e \in {c} : n.calls[e].block # j
    BY <2>6
  <2>9. \A j \in b.closed : j \in a.closed \/ \E e \in {c} : n.calls[e].block = j
    BY <2>6
  <2>10. Holds(b, n, StartedCalls(n), ordered, lost)
    BY <1>1, <2>3, AfterStopHolds
  <2> HIDE DEF m, b, i
  <2>11. Numbered(m) /\ Shows(b, m) /\ Alike(n, m)
    BY <1>1, <2>2, <2>5, <2>6, <2>7, <2>8, <2>9, EndsShow
  <2>12. Holds(b, m, StartedCalls(n), ordered, lost)
    BY <2>10, <2>11, AlikeHolds
  <2>13. Keeps(b, m, StartedCalls(n), ordered, lost)
    BY <2>5, <2>11, <2>12 DEF Keeps
  <2>14. <<StopOf(i)>> \in Seq(AnEvent) /\ Moves(<<StopOf(i)>>, a, m, StartedCalls(n), ordered, lost)
    BY <1>1, <2>5, <2>13, MovesOne
  <2>15. StopTold(n, Ended(n) \cap {c}, told) = StartedCalls(n)
    BY <2>1 DEF StopTold
  <2> QED BY <2>1, <2>2, <2>14, <2>15 DEF m
<1> QED BY <1>2, <1>3

(* finish_reason: the calls that are open, in order.                       *)
LEMMA StoppedEnds ==
    ASSUME NEW n, Numbered(n)
    PROVE  Ends(n, Stopped(n).norm, Ended(n))
<1> DEFINE m == Stopped(n).norm
           cs == [i \in Calls |-> [n.calls[i] EXCEPT !.stopped = @ \/ i \in Ended(n)]]
<1>1. n \in ANorm
  BY DEF Numbered
<1>2. m = [n EXCEPT !.calls = cs]
  BY DEF Stopped, Became
<1>3. ASSUME NEW i \in Calls
      PROVE  /\ cs[i] \in ACall /\ cs[i].named = n.calls[i].named /\ cs[i].args = n.calls[i].args
             /\ cs[i].sent = n.calls[i].sent /\ cs[i].block = n.calls[i].block
             /\ cs[i].started = n.calls[i].started
             /\ cs[i].stopped <=> n.calls[i].stopped \/ i \in Ended(n)
  <2> DEFINE flag == n.calls[i].stopped \/ i \in Ended(n)
  <2>1. cs[i] = [n.calls[i] EXCEPT !.stopped = flag] /\ flag \in BOOLEAN
    BY <1>1, NormParts
  <2>2. n.calls[i] \in ACall
    BY <1>1, NormParts
  <2> HIDE DEF cs, flag
  <2>3. /\ cs[i] \in ACall /\ cs[i].named = n.calls[i].named /\ cs[i].args = n.calls[i].args
        /\ cs[i].sent = n.calls[i].sent /\ cs[i].block = n.calls[i].block
        /\ cs[i].started = n.calls[i].started /\ cs[i].stopped = flag
    BY <2>1, <2>2 DEF ACall
  <2> QED BY <2>3 DEF flag
<1>4. cs \in [Calls -> ACall]
  BY <1>3
<1> HIDE DEF cs, m
<1>5. /\ m \in ANorm /\ m.started = n.started /\ m.next = n.next /\ m.block = n.block
      /\ m.calls = cs
  BY <1>1, <1>2, <1>4 DEF ANorm
<1> QED BY <1>3, <1>5 DEF Ends, m

LEMMA StoppedPlays ==
    ASSUME NEW a, NEW n, NEW told, NEW ordered \in BOOLEAN, NEW lost, Keeps(a, n, told, ordered, lost)
    PROVE  /\ Stopped(n).out \in Seq(AnEvent)
           /\ Moves(Stopped(n).out, a, Stopped(n).norm, StopTold(n, Ended(n), told), ordered, lost)
<1> DEFINE m == Stopped(n).norm
           E == Ended(n)
           N == Cardinality(E)
           B == [k \in 1 .. N |-> n.calls[Nth(k, E)].block]
           out == Stopped(n).out
           after == StopTold(n, E, told)
<1>1. a \in Reading /\ n \in ANorm /\ Numbered(n) /\ Shows(a, n) /\ Holds(a, n, told, ordered, lost)
  BY DEF Keeps, Numbered
<1>2. Ends(n, m, E)
  BY <1>1, StoppedEnds
<1>3. E \in SUBSET Calls
  BY DEF Ended
<1>4. /\ IsFiniteSet(E) /\ N \in Nat
      /\ \A k \in 1 .. N : Nth(k, E) \in E /\ Rank(Nth(k, E), E) = k
      /\ \A i \in E : Rank(i, E) \in 1 .. N /\ Nth(Rank(i, E), E) = i
  BY <1>3, RankOnto
<1>5. out = [k \in 1 .. N |-> StopOf(B[k])]
  BY DEF Stopped, Became
<1>6. \A c \in E : /\ n.calls[c].block \in Blocks /\ n.calls[c].block \in a.open /\ a.phase = "message"
                   /\ \A d \in E : n.calls[d].block = n.calls[c].block => d = c
  <2>1. ASSUME NEW c \in E
        PROVE  /\ n.calls[c].block \in Blocks /\ n.calls[c].block # NoBlock
               /\ n.started /\ \A d \in E : n.calls[d].block = n.calls[c].block => d = c
    BY <1>1, <1>3, NormParts, CallParts DEF Ended, Numbered, CallNumbered
  <2>2. ASSUME NEW c \in E PROVE Live(n, n.calls[c].block)
    BY DEF Live
  <2> QED BY <1>1, <2>1, <2>2 DEF Shows
<1> HIDE DEF E, N, out, m, after
<1>7. CASE E = {}
  <2>1. N = 0
    BY <1>7, FS_EmptySet DEF N
  <2>2. out = <<>>
    BY <1>5, <2>1
  <2>3. m = n
    <3>1. \A c \in Calls : m.calls[c] \in ACall /\ n.calls[c] \in ACall
      BY <1>1, <1>2, NormParts DEF Ends
    <3>2. \A c \in Calls : m.calls[c] = n.calls[c]
      BY <1>2, <1>7, <3>1 DEF Ends, ACall
    <3>3. m.calls = n.calls
      BY <1>1, <1>2, <3>2, NormParts DEF Ends
    <3> QED BY <1>1, <1>2, <3>3, SameNorm DEF Ends
  <2>4. after = told /\ <<>> \in Seq(AnEvent) /\ Moves(<<>>, a, n, told, ordered, lost)
    BY <1>7, MovesNot DEF after, StopTold
  <2>5. out \in Seq(AnEvent) /\ Moves(out, a, m, after, ordered, lost)
    BY <2>2, <2>3, <2>4
  <2> QED BY <2>5 DEF out, m, after, E
<1>8. CASE E # {}
  <2>1. N >= 1 /\ 1 \in 1 .. N
    <3>1. PICK i \in E : TRUE
      BY <1>8
    <3> QED BY <1>4, <3>1
  <2>2. \A k \in 1 .. N : /\ B[k] \in Blocks /\ B[k] \in a.open
                          /\ \A j \in 1 .. N : B[j] = B[k] => j = k
    <3>1. ASSUME NEW k \in 1 .. N, NEW j \in 1 .. N, B[j] = B[k] PROVE j = k
      <4>1. Nth(j, E) = Nth(k, E)
        BY <1>4, <1>6, <3>1
      <4> QED BY <1>4, <4>1
    <3> QED BY <1>4, <1>6, <3>1
  <2>3. \A i : (\E k \in 1 .. N : B[k] = i) <=> (\E c \in E : n.calls[c].block = i)
    <3>1. \A k \in 1 .. N : Nth(k, E) \in E /\ B[k] = n.calls[Nth(k, E)].block
      BY <1>4
    <3>2. \A c \in E : B[Rank(c, E)] = n.calls[c].block /\ Rank(c, E) \in 1 .. N
      BY <1>4
    <3> QED BY <3>1, <3>2
  <2> HIDE DEF B
  <2>4. /\ \A k \in 1 .. N : out[k] = StopOf(B[k]) /\ out[k] \in AnEvent
              /\ out[k].type = "stop" /\ out[k].index = B[k]
        /\ Len(out) = N /\ out \in Seq(AnEvent)
    <3>1. \A k \in 1 .. N : StopOf(B[k]) \in AnEvent /\ StopOf(B[k]).type = "stop"
                            /\ StopOf(B[k]).index = B[k]
      BY <2>2, StopTyped
    <3> QED BY <1>4, <1>5, <3>1
  <2> DEFINE more == EventsAfter(out[1], a.tool, a.events)
             Gone(k) == {B[j] : j \in 1 .. k}
             run == [k \in 0 .. N |->
                        [phase |-> a.phase, open |-> a.open \ Gone(k), closed |-> a.closed \cup Gone(k),
                         tool |-> IF k = 0 THEN a.tool ELSE Nothing,
                         events |-> IF k = 0 THEN a.events ELSE more]]
  <2>5. /\ a.phase = "message" /\ a.open \subseteq Blocks /\ a.closed \subseteq Blocks
        /\ a.tool \in ATool /\ a.events \in Seq(AReport) /\ Nothing \in ATool
    BY <1>1, <1>6, <1>8, ReadingParts, NothingIs
  <2>6. more \in Seq(AReport) /\ Grows(a.events, more) /\ Unspoken(a.events, more)
    BY <2>1, <2>4, <2>5, AfterTyped, AfterGrows, StopUnspoken
  <2> HIDE DEF more
  <2>7. Gone(0) = {} /\ \A k \in 0 .. N : Gone(k) \subseteq Blocks
    <3>1. 1 .. 0 = {}
      OBVIOUS
    <3>2. Gone(0) = {}
      BY <3>1
    <3>3. ASSUME NEW k \in 0 .. N, NEW j \in 1 .. k PROVE B[j] \in Blocks
      <4>1. j \in 1 .. N
        BY <1>4, <3>3
      <4> QED BY <2>2, <4>1
    <3> QED BY <3>2, <3>3
  <2>8. \A k \in 1 .. N : Gone(k) = Gone(k - 1) \cup {B[k]} /\ B[k] \notin Gone(k - 1)
    <3>1. ASSUME NEW k \in 1 .. N PROVE Gone(k) = Gone(k - 1) \cup {B[k]} /\ B[k] \notin Gone(k - 1)
      <4>1. 1 .. k = (1 .. k - 1) \cup {k} /\ k \notin 1 .. k - 1 /\ 1 .. k - 1 \subseteq 1 .. N
        BY <1>4
      <4> QED BY <2>2, <4>1
    <3> QED BY <3>1
  <2> HIDE DEF Gone
  <2>9. \A k \in 0 .. N :
          /\ run[k].phase = a.phase /\ run[k].open = a.open \ Gone(k)
          /\ run[k].closed = a.closed \cup Gone(k)
          /\ run[k].tool = IF k = 0 THEN a.tool ELSE Nothing
          /\ run[k].events = IF k = 0 THEN a.events ELSE more
    OBVIOUS
  <2>10. run \in [0 .. N -> Reading]
    <3>1. ASSUME NEW k \in 0 .. N
          PROVE  [phase |-> a.phase, open |-> a.open \ Gone(k), closed |-> a.closed \cup Gone(k),
                  tool |-> IF k = 0 THEN a.tool ELSE Nothing,
                  events |-> IF k = 0 THEN a.events ELSE more] \in Reading
      BY <2>5, <2>6, <2>7 DEF Reading
    <3> QED BY <3>1
  <2>11. run[0] = a
    <3>1. 0 \in 0 .. N
      BY <1>4
    <3>2. run[0] \in Reading
      BY <2>10, <3>1
    <3>3. /\ run[0].phase = a.phase /\ run[0].open = a.open /\ run[0].closed = a.closed
          /\ run[0].tool = a.tool /\ run[0].events = a.events
      BY <2>7, <2>9, <3>1
    <3> HIDE DEF run
    <3> QED BY <1>1, <3>2, <3>3 DEF Reading
  <2> HIDE DEF run
  <2>12. ASSUME NEW k \in 1 .. N PROVE Reads(out[k], run[k - 1], run[k])
    <3>1. k \in 0 .. N /\ k - 1 \in 0 .. N /\ k # 0
      BY <1>4
    <3>2. out[k].type = "stop" /\ out[k].index = B[k]
      BY <2>4
    <3>3. BlocksAfter(out[k], run[k - 1], run[k])
      BY <2>2, <2>5, <2>8, <2>9, <3>1, <3>2 DEF BlocksAfter
    <3>4. run[k].tool = ToolAfter(out[k], run[k - 1].tool)
      BY <2>9, <3>1, <3>2 DEF ToolAfter
    <3>5. run[k].events = EventsAfter(out[k], run[k - 1].tool, run[k - 1].events)
      <4>1. run[k].events = more
        BY <2>9, <3>1
      <4>2. CASE k = 1
        <5>1. run[k - 1] = a
          BY <2>11, <4>2
        <5> QED BY <4>1, <4>2, <5>1 DEF more
      <4>3. CASE k # 1
        <5>1. k - 1 # 0
          BY <4>3
        <5>2. run[k - 1].tool = Nothing /\ run[k - 1].events = more
          BY <2>9, <3>1, <5>1
        <5> QED BY <3>2, <4>1, <5>2 DEF EventsAfter
      <4> QED BY <4>2, <4>3
    <3> QED BY <3>3, <3>4, <3>5 DEF Reads
  <2> DEFINE b == run[N]
  <2>13. /\ b \in Reading /\ b.phase = a.phase /\ b.open = a.open \ Gone(N)
         /\ b.closed = a.closed \cup Gone(N) /\ b.tool = Nothing /\ b.events = more
    BY <1>4, <2>1, <2>9, <2>10
  <2>14. \A k \in 0 .. N : Grows(run[k].events, b.events)
    <3>1. Grows(more, more)
      BY <2>6 DEF Grows
    <3> QED BY <2>6, <2>9, <2>13, <3>1
  <2> HIDE DEF b
  <2>15. Plays(out, a, b)
    BY <2>4, <2>10, <2>11, <2>12, <2>14 DEF Plays, b
  <2>16. Numbered(m) /\ Shows(b, m) /\ Alike(n, m)
    <3>1. \A i : i \in Gone(N) <=> \E c \in E : n.calls[c].block = i
      BY <2>3 DEF Gone
    <3>2. E \in SUBSET Ended(n)
      BY DEF E
    <3>3. \A i \in Blocks : i \in b.open <=> i \in a.open /\ \A c \in E : n.calls[c].block # i
      BY <2>13, <3>1
    <3>4. \A i \in b.closed : i \in a.closed \/ \E c \in E : n.calls[c].block = i
      BY <2>13, <3>1
    <3> QED BY <1>1, <1>2, <2>13, <3>2, <3>3, <3>4, EndsShow
  <2>17. Holds(b, m, StartedCalls(n), ordered, lost)
    <3>1. out[1] \in AnEvent /\ out[1].type = "stop"
      BY <2>1, <2>4
    <3>2. ToolAfter(out[1], a.tool) = Nothing
      BY <3>1 DEF ToolAfter
    <3>3. Holds(b, n, StartedCalls(n), ordered, lost)
      BY <1>1, <2>13, <3>1, <3>2, StopReports DEF Holds, more
    <3> QED BY <2>16, <3>3, AlikeHolds
  <2>18. Keeps(b, m, StartedCalls(n), ordered, lost)
    BY <2>13, <2>16, <2>17 DEF Keeps
  <2>19. Moves(out, a, m, StartedCalls(n), ordered, lost)
    BY <2>6, <2>13, <2>15, <2>18 DEF Moves
  <2>20. after = StartedCalls(n)
    BY <1>8 DEF after, StopTold
  <2> QED BY <2>4, <2>19, <2>20 DEF out, m, after, E
<1> QED BY <1>7, <1>8

LEMMA ReportedMore ==
    ASSUME NEW es \in Seq(AReport), NEW r, r.type # "tool", NEW n,
           NEW told, NEW ordered, NEW lost,
           Reported(es, n, told, ordered, lost)
    PROVE  Reported(Append(es, r), n, told, ordered, lost)
<1> DEFINE more == Append(es, r)
<1>1. /\ Len(es) \in Nat /\ DOMAIN es = 1 .. Len(es) /\ DOMAIN more = 1 .. Len(es) + 1
      /\ \A i \in 1 .. Len(es) : more[i] = es[i]
      /\ more[Len(es) + 1] = r
  OBVIOUS
<1> HIDE DEF more
<1>2. \A i \in DOMAIN more : more[i].type = "tool" => i \in DOMAIN es /\ more[i] = es[i]
  BY <1>1
<1>3. \A i \in DOMAIN es : i \in DOMAIN more /\ more[i] = es[i]
  BY <1>1
<1>4. Reported(more, n, told, ordered, lost)
  BY <1>2, <1>3 DEF Reported
<1> QED BY <1>4 DEF more

LEMMA OpenNorm ==
    ASSUME NEW n \in ANorm, n.next \in Blocks, NEW p \in Spoken
    PROVE  LET m == [n EXCEPT !.block[p] = n.next, !.next = n.next + 1]
           IN /\ m \in ANorm /\ m.calls = n.calls /\ m.next = n.next + 1 /\ m.started = n.started
              /\ m.block[p] = n.next /\ \A q \in Spoken : q # p => m.block[q] = n.block[q]
<1> DEFINE m == [n EXCEPT !.block[p] = n.next, !.next = n.next + 1]
           bs == [n.block EXCEPT ![p] = n.next]
<1>1. n.next + 1 \in Nat /\ n.block \in [Spoken -> Blocks \cup {NoBlock}]
  BY NormParts
<1>2. bs \in [Spoken -> Blocks \cup {NoBlock}] /\ bs[p] = n.next
      /\ \A q \in Spoken : q # p => bs[q] = n.block[q]
  BY <1>1
<1>3. m = [n EXCEPT !.block = bs, !.next = n.next + 1]
  OBVIOUS
<1> HIDE DEF bs, m
<1>4. /\ m \in ANorm /\ m.calls = n.calls /\ m.next = n.next + 1 /\ m.started = n.started
      /\ m.block = bs
  BY <1>1, <1>2, <1>3 DEF ANorm
<1>5. /\ m \in ANorm /\ m.calls = n.calls /\ m.next = n.next + 1 /\ m.started = n.started
      /\ m.block[p] = n.next /\ \A q \in Spoken : q # p => m.block[q] = n.block[q]
  BY <1>2, <1>4
<1> QED BY <1>5 DEF m

(* A new block of text or reasoning.                                       *)
LEMMA OpenPlays ==
    ASSUME NEW a, NEW n, NEW told, NEW ordered \in BOOLEAN, NEW lost, Keeps(a, n, told, ordered, lost),
           n.started, n.next \in Blocks, NEW p \in Spoken, n.block[p] = NoBlock
    PROVE  LET e == Event("block", n.next, p, NoTool, <<>>)
           IN /\ <<e>> \in Seq(AnEvent)
              /\ Moves(<<e>>, a, [n EXCEPT !.block[p] = n.next, !.next = n.next + 1], told, ordered, lost)
<1> DEFINE e == Event("block", n.next, p, NoTool, <<>>)
           m == [n EXCEPT !.block[p] = n.next, !.next = n.next + 1]
           b == [a EXCEPT !.open = a.open \cup {n.next}]
<1>1. a \in Reading /\ n \in ANorm /\ Numbered(n) /\ Shows(a, n) /\ Holds(a, n, told, ordered, lost)
  BY DEF Keeps, Numbered
<1>2. /\ e \in AnEvent /\ e.type = "block" /\ e.index = n.next /\ e.part = p /\ p # "tool"
  BY NothingIs DEF Event, AnEvent, Spoken
<1>3. /\ m \in ANorm /\ m.calls = n.calls /\ m.next = n.next + 1 /\ m.started = n.started
      /\ m.block[p] = n.next /\ \A q \in Spoken : q # p => m.block[q] = n.block[q]
  BY <1>1, OpenNorm
<1>4. /\ b \in Reading /\ b.phase = a.phase /\ b.open = a.open \cup {n.next}
      /\ b.closed = a.closed /\ b.tool = a.tool /\ b.events = a.events
  BY <1>1 DEF Reading
<1>5. a.phase = "message"
  BY <1>1 DEF Shows
<1> HIDE DEF e, m, b
<1>6. n.next \in Nat /\ ~(n.next < n.next) /\ n.next < n.next + 1
      /\ \A i \in Blocks \cup {NoBlock} : i < n.next => i < n.next + 1 /\ i # n.next
  BY <1>1, NormParts, Numbers
<1>7. ~Live(n, n.next)
  BY <1>1, <1>6, Numbers DEF Live, Ended, Numbered, SpokenNumbered, CallNumbered
<1>8. n.next \notin a.open /\ n.next \notin a.closed
  BY <1>1, <1>6, <1>7 DEF Shows
<1>9. Reads(e, a, b)
  BY <1>2, <1>4, <1>5, <1>8 DEF Reads, BlocksAfter, ToolAfter, EventsAfter
<1>10. Numbered(m)
  <2>1. \A c \in Calls : n.calls[c].block # n.next \/ n.calls[c].block = NoBlock
    BY <1>1, <1>6 DEF Numbered, CallNumbered
  <2>2. \A q \in Spoken : n.block[q] # n.next
    BY <1>1, <1>6, Numbers DEF Numbered, SpokenNumbered
  <2>3. SpokenNumbered(m)
    <3>1. \A q \in Spoken : m.block[q] # NoBlock => m.started /\ m.block[q] < m.next
      BY <1>1, <1>3, <1>6, NormParts DEF Numbered, SpokenNumbered
    <3>2. m.block["thinking"] = m.block["text"] => m.block["text"] = NoBlock
      BY <1>1, <1>3, <2>2, Numbers DEF Numbered, SpokenNumbered
    <3> QED BY <3>1, <3>2 DEF SpokenNumbered
  <2>4. \A c \in Calls : CallNumbered(m, c)
    <3>1. ASSUME NEW c \in Calls PROVE CallNumbered(m, c)
      <4>1. n.calls[c].block # NoBlock => n.calls[c].block < m.next
        BY <1>1, <1>3, <1>6, NormParts, CallParts DEF Numbered, CallNumbered
      <4>2. n.calls[c].block # NoBlock => \A q \in Spoken : m.block[q] # n.calls[c].block
        BY <1>1, <1>3, <2>1 DEF Numbered, CallNumbered
      <4> QED BY <1>1, <1>3, <4>1, <4>2 DEF Numbered, CallNumbered
    <3> QED BY <3>1
  <2> QED BY <1>3, <2>3, <2>4 DEF Numbered
<1>11. Shows(b, m)
  <2>1. Ended(m) = Ended(n)
    BY <1>3 DEF Ended
  <2>2. \A i \in Blocks : Live(m, i) <=> Live(n, i) \/ i = n.next
    BY <1>3, <2>1, Numbers DEF Live
  <2>3. \A i \in Blocks : i \in b.open <=> Live(m, i)
    BY <1>1, <1>4, <2>2 DEF Shows
  <2>4. ASSUME NEW i \in b.closed
        PROVE  i < m.next /\ i \notin b.open /\ \A c \in Calls : ~m.calls[c].started => m.calls[c].block # i
    <3>1. i \in Blocks /\ i < n.next /\ i \notin a.open
      BY <1>1, <1>4, ReadingParts DEF Shows
    <3> QED BY <1>1, <1>3, <1>4, <1>6, <3>1 DEF Shows
  <2>5. b.phase = "message" /\ m.started
    BY <1>3, <1>4, <1>5
  <2> QED BY <2>3, <2>4, <2>5 DEF Shows
<1>12. Holds(b, m, told, ordered, lost)
  <2>1. Alike(n, m)
    BY <1>3 DEF Alike, Given
  <2>2. Holds(a, n, told, ordered, lost) => Holds(b, n, told, ordered, lost)
    BY <1>4 DEF Holds
  <2> QED BY <1>1, <2>1, <2>2, AlikeHolds
<1>13. Keeps(b, m, told, ordered, lost)
  BY <1>4, <1>10, <1>11, <1>12 DEF Keeps
<1>14. Unspoken(a.events, b.events)
  BY <1>1, <1>4, ReadingParts, UnspokenSame
<1>15. <<e>> \in Seq(AnEvent) /\ Moves(<<e>>, a, m, told, ordered, lost)
  BY <1>1, <1>2, <1>4, <1>9, <1>13, <1>14, MovesOne
<1> QED BY <1>15 DEF e, m

(* A piece of text or reasoning comes to the reply.                        *)
Speaks(s, a, n, told, ordered, lost, p, k) ==
    \E b \in Reading : \E es \in Seq(AReport) :
        /\ Plays(s, a, b) /\ Keeps(b, n, told, ordered, lost)
        /\ Unspoken(a.events, es) /\ b.events = Append(es, Said(p, NoTool, <<k>>))

LEMMA SpeaksOn ==
    ASSUME NEW s \in Seq(AnEvent), NEW t \in Seq(AnEvent), NEW a \in Reading, NEW b \in Reading,
           NEW n, NEW told, NEW ordered, NEW lost, NEW p, NEW k,
           Plays(s, a, b), Unspoken(a.events, b.events), Speaks(t, b, n, told, ordered, lost, p, k)
    PROVE  Speaks(s \o t, a, n, told, ordered, lost, p, k)
<1>1. PICK c \in Reading : \E es \in Seq(AReport) :
        /\ Plays(t, b, c) /\ Keeps(c, n, told, ordered, lost)
        /\ Unspoken(b.events, es) /\ c.events = Append(es, Said(p, NoTool, <<k>>))
  BY DEF Speaks
<1>2. PICK es \in Seq(AReport) :
        /\ Plays(t, b, c) /\ Keeps(c, n, told, ordered, lost)
        /\ Unspoken(b.events, es) /\ c.events = Append(es, Said(p, NoTool, <<k>>))
  BY <1>1
<1>3. Plays(s \o t, a, c)
  BY <1>2, PlaysBoth
<1>4. Unspoken(a.events, es)
  BY <1>2, UnspokenOn, ReadingParts
<1> QED BY <1>2, <1>3, <1>4 DEF Speaks

LEMMA DeltaSpeaks ==
    ASSUME NEW a, NEW n, NEW told, NEW ordered \in BOOLEAN, NEW lost, Keeps(a, n, told, ordered, lost),
           NEW p \in Spoken, n.block[p] # NoBlock, NEW k \in Pieces
    PROVE  LET e == Event("delta", n.block[p], p, NoTool, <<k>>)
           IN <<e>> \in Seq(AnEvent) /\ Speaks(<<e>>, a, n, told, ordered, lost, p, k)
<1> DEFINE e == Event("delta", n.block[p], p, NoTool, <<k>>)
           r == Said(p, NoTool, <<k>>)
           b == [a EXCEPT !.events = Append(a.events, r)]
<1>1. a \in Reading /\ n \in ANorm /\ Numbered(n) /\ Shows(a, n) /\ Holds(a, n, told, ordered, lost)
  BY DEF Keeps, Numbered
<1>2. n.block[p] \in Blocks \cup {NoBlock} /\ <<k>> \in Seq(Pieces) /\ p \in {"text", "thinking"}
  BY <1>1, NormParts, Numbers
<1>3. /\ e \in AnEvent /\ e.type = "delta" /\ e.index = n.block[p] /\ e.part = p /\ p # "tool"
      /\ e.pieces = <<k>> /\ e.call = NoTool
  BY <1>2, NothingIs DEF Event, AnEvent
<1>4. r \in AReport /\ r.type # "tool" /\ Append(a.events, r) \in Seq(AReport)
      /\ a.events \in Seq(AReport)
  <2>1. r \in AReport /\ r.type # "tool"
    BY <1>2, NothingIs DEF Said, AReport
  <2> QED BY <1>1, <2>1, ReadingParts
<1>5. /\ b \in Reading /\ b.phase = a.phase /\ b.open = a.open
      /\ b.closed = a.closed /\ b.tool = a.tool /\ b.events = Append(a.events, r)
  BY <1>1, <1>4 DEF Reading
<1>6. a.phase = "message" /\ n.block[p] \in a.open
  BY <1>1, <1>2 DEF Shows, Live, Numbered, SpokenNumbered
<1>7. Reads(e, a, b)
  BY <1>3, <1>5, <1>6 DEF Reads, BlocksAfter, ToolAfter, EventsAfter
<1>8. Shows(b, n)
  BY <1>1, <1>5 DEF Shows
<1>9. Holds(b, n, told, ordered, lost)
  BY <1>1, <1>4, <1>5, ReportedMore DEF Holds
<1>10. Keeps(b, n, told, ordered, lost)
  BY <1>1, <1>5, <1>8, <1>9 DEF Keeps
<1>11. Unspoken(a.events, a.events) /\ Plays(<<e>>, a, b)
  BY <1>1, <1>3, <1>4, <1>5, <1>7, UnspokenSame, PlaysOne
<1> HIDE DEF b
<1>12. Speaks(<<e>>, a, n, told, ordered, lost, p, k)
  BY <1>4, <1>5, <1>10, <1>11 DEF Speaks
<1> QED BY <1>3, <1>12

LEMMA SpeakPlays ==
    ASSUME NEW a, NEW n, NEW told, NEW ordered \in BOOLEAN, NEW lost, Keeps(a, n, told, ordered, lost),
           n.started, n.next \in Blocks, NEW p \in Spoken, NEW k \in Pieces
    PROVE  LET s == Speak(n, p, k)
           IN /\ s.out \in Seq(AnEvent)
              /\ Speaks(s.out, a, s.norm, ShutTold(n, {"thinking"} \ {p}, told), ordered, lost, p, k)
              /\ s.norm \in ANorm /\ s.norm.calls = n.calls /\ s.norm.next <= n.next + 1
              /\ s.norm.started
<1> DEFINE parts == {"thinking"} \ {p}
           shut == Shut(n, parts)
           new == n.block[p] = NoBlock
           i == IF new THEN n.next ELSE n.block[p]
           m == [shut.norm EXCEPT !.block[p] = i, !.next = IF new THEN @ + 1 ELSE @]
           e == Event("block", i, p, NoTool, <<>>)
           d == Event("delta", i, p, NoTool, <<k>>)
           after == ShutTold(n, parts, told)
<1>1. n \in ANorm /\ a \in Reading /\ parts \in SUBSET Spoken /\ p \notin parts
  BY Numbers DEF Keeps, Numbered
<1>2. /\ Speak(n, p, k).norm = m
      /\ Speak(n, p, k).out = (shut.out \o (IF new THEN <<e>> ELSE <<>>)) \o <<d>>
  BY DEF Speak, Became
<1>3. shut.out \in Seq(AnEvent) /\ Moves(shut.out, a, shut.norm, after, ordered, lost)
  BY <1>1, ShutPlays
<1>4. /\ shut.norm \in ANorm /\ shut.norm.calls = n.calls /\ shut.norm.next = n.next
      /\ shut.norm.started = n.started /\ shut.norm.block[p] = n.block[p]
  <2>1. /\ shut.norm \in ANorm /\ shut.norm.calls = n.calls /\ shut.norm.next = n.next
        /\ shut.norm.started = n.started
        /\ \A q \in Spoken : shut.norm.block[q] = IF q \in parts THEN NoBlock ELSE n.block[q]
    BY <1>1, ShutNorm
  <2> QED BY <1>1, <2>1
<1> DEFINE q == shut.norm
<1> HIDE DEF shut, parts, after
<1>5. PICK b \in Reading : /\ Plays(shut.out, a, b) /\ Unspoken(a.events, b.events)
                           /\ Keeps(b, q, after, ordered, lost)
  BY <1>3 DEF Moves
<1> HIDE DEF q
<1>6. m = [q EXCEPT !.block[p] = i, !.next = IF new THEN q.next + 1 ELSE q.next]
  BY <1>4 DEF q, ANorm
<1> HIDE DEF m
<1>7. CASE new
  <2>1. i = q.next /\ q.block[p] = NoBlock /\ q.next \in Blocks /\ q.started /\ q \in ANorm
    BY <1>4, <1>7 DEF q
  <2>2. m = [q EXCEPT !.block[p] = q.next, !.next = q.next + 1]
    BY <1>6, <1>7, <2>1
  <2>3. <<e>> \in Seq(AnEvent) /\ Moves(<<e>>, b, m, after, ordered, lost)
    BY <1>5, <2>1, <2>2, OpenPlays
  <2>4. /\ m \in ANorm /\ m.calls = q.calls /\ m.next = q.next + 1 /\ m.started = q.started
        /\ m.block[p] = q.next
    BY <2>1, <2>2, OpenNorm
  <2>5. q.next \in Nat /\ q.next # NoBlock
    BY <2>1, Numbers
  <2> HIDE DEF e
  <2>6. PICK c \in Reading : /\ Plays(<<e>>, b, c) /\ Unspoken(b.events, c.events)
                             /\ Keeps(c, m, after, ordered, lost)
    BY <2>3 DEF Moves
  <2>7. d = Event("delta", m.block[p], p, NoTool, <<k>>) /\ m.block[p] # NoBlock
    BY <2>1, <2>4, <2>5
  <2>8. <<d>> \in Seq(AnEvent) /\ Speaks(<<d>>, c, m, after, ordered, lost, p, k)
    BY <2>6, <2>7, DeltaSpeaks
  <2> HIDE DEF d
  <2>9. Plays(shut.out \o <<e>>, a, c) /\ shut.out \o <<e>> \in Seq(AnEvent)
    <3>1. Plays(shut.out \o <<e>>, a, c)
      BY <1>3, <1>5, <2>3, <2>6, PlaysBoth
    <3>2. shut.out \o <<e>> \in Seq(AnEvent)
      BY <1>3, <2>3
    <3> QED BY <3>1, <3>2
  <2>10. Unspoken(a.events, c.events)
    BY <1>1, <1>5, <2>6, ReadingParts, UnspokenOn
  <2>11. Speaks((shut.out \o <<e>>) \o <<d>>, a, m, after, ordered, lost, p, k)
    BY <1>1, <2>6, <2>8, <2>9, <2>10, SpeaksOn
  <2>12. (shut.out \o <<e>>) \o <<d>> \in Seq(AnEvent)
    BY <2>8, <2>9
  <2>13. Speak(n, p, k).out = (shut.out \o <<e>>) \o <<d>>
    BY <1>2, <1>7 DEF e, d, shut
  <2>14. m.calls = n.calls /\ m.next <= n.next + 1 /\ m.started
    BY <1>4, <2>1, <2>4, <2>5 DEF q
  <2> QED BY <1>2, <2>4, <2>11, <2>12, <2>13, <2>14 DEF after, parts, shut
<1>8. CASE ~new
  <2>1. i = q.block[p] /\ q.block[p] # NoBlock /\ q \in ANorm /\ q.next \in Nat
    BY <1>4, <1>8, NormParts DEF q
  <2>2. m = q
    <3>1. [q.block EXCEPT ![p] = q.block[p]] = q.block
      BY <2>1, NormParts
    <3>2. m = [q EXCEPT !.block = [q.block EXCEPT ![p] = q.block[p]], !.next = q.next]
      BY <1>6, <1>8, <2>1
    <3> QED BY <2>1, <3>1, <3>2 DEF ANorm
  <2>3. d = Event("delta", q.block[p], p, NoTool, <<k>>)
    BY <2>1
  <2>4. <<d>> \in Seq(AnEvent) /\ Speaks(<<d>>, b, q, after, ordered, lost, p, k)
    BY <1>5, <2>1, <2>3, DeltaSpeaks
  <2> HIDE DEF d
  <2>5. Speaks(shut.out \o <<d>>, a, q, after, ordered, lost, p, k) /\ shut.out \o <<d>> \in Seq(AnEvent)
    <3>1. Speaks(shut.out \o <<d>>, a, q, after, ordered, lost, p, k)
      BY <1>1, <1>3, <1>5, <2>4, SpeaksOn
    <3>2. shut.out \o <<d>> \in Seq(AnEvent)
      BY <1>3, <2>4
    <3> QED BY <3>1, <3>2
  <2>6. Speak(n, p, k).out = shut.out \o <<d>>
    <3>1. shut.out \o <<>> = shut.out
      BY <1>3
    <3> QED BY <1>2, <1>8, <3>1 DEF d, shut
  <2>7. q.calls = n.calls /\ q.next <= n.next + 1 /\ q.started
    BY <1>4, <2>1 DEF q
  <2> QED BY <1>2, <2>1, <2>2, <2>5, <2>6, <2>7 DEF after, parts, shut
<1> QED BY <1>7, <1>8

(* m is n, but for one call.                                               *)
OneCall(n, m, x) ==
    /\ m \in ANorm /\ m.started = n.started /\ m.next = n.next /\ m.block = n.block
    /\ \A y \in Calls : y # x => m.calls[y] = n.calls[y]

LEMMA OneCallIs ==
    ASSUME NEW n \in ANorm, NEW x \in Calls, NEW d \in ACall
    PROVE  LET m == [n EXCEPT !.calls[x] = d] IN OneCall(n, m, x) /\ m.calls[x] = d
<1> DEFINE m == [n EXCEPT !.calls[x] = d]
           cs == [n.calls EXCEPT ![x] = d]
<1>1. cs \in [Calls -> ACall] /\ cs[x] = d /\ \A y \in Calls : y # x => cs[y] = n.calls[y]
  BY NormParts
<1>2. m = [n EXCEPT !.calls = cs]
  OBVIOUS
<1> HIDE DEF cs, m
<1>3. /\ m \in ANorm /\ m.started = n.started /\ m.next = n.next /\ m.block = n.block
      /\ m.calls = cs
  BY <1>1, <1>2 DEF ANorm
<1>4. OneCall(n, m, x) /\ m.calls[x] = d
  BY <1>1, <1>3 DEF OneCall
<1> QED BY <1>4 DEF m

LEMMA FirstOfMore ==
    ASSUME NEW s \in Seq(Pieces), NEW k \in Pieces, NEW j \in Nat, j <= Len(s)
    PROVE  SubSeq(Append(s, k), 1, j) = SubSeq(s, 1, j)
<1>1. Append(s, k) \in Seq(Pieces) /\ Len(Append(s, k)) = Len(s) + 1 /\ Len(s) \in Nat
      /\ \A i \in 1 .. Len(s) : Append(s, k)[i] = s[i]
  OBVIOUS
<1>2. \A i \in 1 .. j : Append(s, k)[i] = s[i]
  BY <1>1
<1>3. SubSeq(Append(s, k), 1, j) = [i \in 1 .. j |-> Append(s, k)[i]]
  BY <1>1
<1>4. SubSeq(s, 1, j) = [i \in 1 .. j |-> s[i]]
  OBVIOUS
<1> QED BY <1>2, <1>3, <1>4

LEMMA FirstAndRest ==
    ASSUME NEW s \in Seq(Pieces), NEW j \in Nat, j <= Len(s)
    PROVE  /\ SubSeq(s, 1, j) \o SubSeq(s, j + 1, Len(s)) = SubSeq(s, 1, Len(s))
           /\ SubSeq(s, 1, Len(s)) = s /\ SubSeq(s, 1, 0) = <<>>
           /\ SubSeq(s, 1, j) \in Seq(Pieces) /\ SubSeq(s, j + 1, Len(s)) \in Seq(Pieces)
<1> DEFINE u == SubSeq(s, 1, j)
           v == SubSeq(s, j + 1, Len(s))
<1>1. /\ u \in Seq(Pieces) /\ v \in Seq(Pieces) /\ Len(u) = j /\ Len(v) = Len(s) - j
      /\ Len(s) \in Nat
  OBVIOUS
<1>2. SubSeq(s, 1, Len(s)) = s /\ SubSeq(s, 1, 0) = <<>>
  OBVIOUS
<1>3. /\ \A i \in 1 .. j : u[i] = s[i]
      /\ \A i \in 1 .. Len(s) - j : v[i] = s[i + j]
  OBVIOUS
<1> HIDE DEF u, v
<1>4. u \o v \in Seq(Pieces) /\ Len(u \o v) = Len(s)
  <2>1. Len(u \o v) = Len(u) + Len(v)
    BY <1>1
  <2> QED BY <1>1, <2>1
<1>5. \A i \in 1 .. Len(s) : (u \o v)[i] = s[i]
  <2>1. ASSUME NEW i \in 1 .. Len(s) PROVE (u \o v)[i] = s[i]
    <3>1. CASE i <= j
      <4>1. (u \o v)[i] = u[i]
        BY <1>1, <3>1
      <4> QED BY <1>1, <1>3, <3>1, <4>1
    <3>2. CASE ~(i <= j)
      <4>1. i - j \in 1 .. Len(s) - j /\ (i - j) + j = i
        BY <1>1, <3>2
      <4>2. (u \o v)[i] = v[i - Len(u)]
        BY <1>1, <3>2
      <4> QED BY <1>1, <1>3, <4>1, <4>2
    <3> QED BY <3>1, <3>2
  <2> QED BY <2>1
<1>6. u \o v = s
  <2> DEFINE w == u \o v
  <2>1. w \in Seq(Pieces) /\ Len(w) = Len(s) /\ \A i \in 1 .. Len(s) : w[i] = s[i]
    BY <1>4, <1>5
  <2> HIDE DEF w
  <2>2. w = s
    BY <1>1, <2>1
  <2> QED BY <2>2 DEF w
<1> QED BY <1>1, <1>2, <1>6 DEF u, v

(* A call whose name is known starts, with the number it has had; what was  *)
(* being assembled is left.                                                *)
LEMMA CallStarts ==
    ASSUME NEW a, NEW n, NEW told, NEW ordered \in BOOLEAN, NEW lost, Keeps(a, n, told, ordered, lost),
           NEW x \in Calls, ~n.calls[x].started, n.calls[x].block # NoBlock,
           StartedCalls(n) \ told \subseteq lost,
           NEW m, OneCall(n, m, x), m.calls[x] = [n.calls[x] EXCEPT !.started = TRUE]
    PROVE  /\ <<StartOf(n, x)>> \in Seq(AnEvent)
           /\ Moves(<<StartOf(n, x)>>, a, m, StartedCalls(n), ordered, lost)
<1> DEFINE e == StartOf(n, x)
           i == n.calls[x].block
           new == [call |-> x, args |-> <<>>]
           b == [a EXCEPT !.open = a.open \cup {i}, !.tool = new]
<1>1. a \in Reading /\ n \in ANorm /\ Numbered(n) /\ Shows(a, n) /\ Holds(a, n, told, ordered, lost)
  BY DEF Keeps, Numbered
<1>2. n.calls[x] \in ACall /\ CallNumbered(n, x)
  BY <1>1, NormParts DEF Numbered
<1>3. i \in Blocks /\ n.started /\ ~n.calls[x].stopped /\ n.calls[x].sent = 0
      /\ i < n.next /\ n.calls[x].args \in Seq(Pieces)
  BY <1>2, CallParts DEF CallNumbered
<1>4. /\ e \in AnEvent /\ e.type = "block" /\ e.index = i /\ e.part = "tool" /\ e.call = x
  BY <1>3, Numbers DEF StartOf, Event, AnEvent
<1>5. new \in ATool
  BY Numbers DEF ATool
<1>6. /\ b \in Reading /\ b.phase = a.phase /\ b.open = a.open \cup {i}
      /\ b.closed = a.closed /\ b.tool = new /\ b.events = a.events
  BY <1>1, <1>3, <1>5 DEF Reading
<1>7. /\ m.calls[x].started = TRUE /\ m.calls[x].stopped = n.calls[x].stopped
      /\ m.calls[x].block = i /\ m.calls[x].args = n.calls[x].args
      /\ m.calls[x].sent = 0 /\ m.calls[x].named = n.calls[x].named
  BY <1>2, <1>3 DEF ACall
<1>8. /\ m \in ANorm /\ m.started = n.started /\ m.next = n.next /\ m.block = n.block
      /\ \A y \in Calls : y # x => m.calls[y] = n.calls[y]
      /\ \A y \in Calls : m.calls[y].block = n.calls[y].block
  BY <1>7 DEF OneCall
<1> HIDE DEF e, b, i
<1>9. \A j : j \in Ended(m) <=> j \in Ended(n) \/ j = x
  BY <1>3, <1>7, <1>8 DEF Ended
<1>10. /\ \A p \in Spoken : n.block[p] # i
       /\ \A d \in Calls : n.calls[d].block = i => d = x
  BY <1>2, <1>3, Numbers DEF CallNumbered, i
<1>11. x \notin Ended(n) /\ Ended(n) \subseteq Calls
  BY DEF Ended
<1>12. i \notin a.open /\ i \notin a.closed
  <2>1. ~Live(n, i)
    BY <1>10, <1>11 DEF Live
  <2> QED BY <1>1, <1>3, <2>1 DEF Shows, i
<1>13. a.phase = "message"
  BY <1>1, <1>3 DEF Shows
<1>14. Reads(e, a, b)
  BY <1>3, <1>4, <1>6, <1>12, <1>13 DEF Reads, BlocksAfter, ToolAfter, EventsAfter
<1>15. Numbered(m)
  <2>1. SpokenNumbered(m)
    BY <1>1, <1>8 DEF Numbered, SpokenNumbered
  <2>2. ASSUME NEW y \in Calls, y # x PROVE CallNumbered(m, y)
    BY <1>1, <1>8, <2>2 DEF Numbered, CallNumbered
  <2>3. CallNumbered(m, x)
    <3>1. 0 <= Len(n.calls[x].args)
      BY <1>3
    <3> QED BY <1>2, <1>3, <1>7, <1>8, <3>1 DEF CallNumbered
  <2> QED BY <1>8, <2>1, <2>2, <2>3 DEF Numbered
<1>16. Shows(b, m)
  <2>1. \A j : Live(m, j) <=> Live(n, j) \/ j = i
    BY <1>8, <1>9, <1>11 DEF Live, i
  <2>2. \A j \in Blocks : j \in b.open <=> Live(m, j)
    BY <1>1, <1>6, <2>1 DEF Shows
  <2>3. ASSUME NEW j \in b.closed
        PROVE  j < m.next /\ j \notin b.open /\ \A c \in Calls : ~m.calls[c].started => m.calls[c].block # j
    BY <1>1, <1>6, <1>7, <1>8, <1>12, <2>3 DEF Shows
  <2>4. b.phase = "message" /\ m.started
    BY <1>3, <1>6, <1>8, <1>13
  <2> QED BY <2>2, <2>3, <2>4 DEF Shows
<1>17. Holds(b, m, StartedCalls(n), ordered, lost)
  <2>1. Reported(a.events, n, told, ordered, lost) /\ told \subseteq StartedCalls(n)
    BY <1>1 DEF Holds, Reported
  <2>2. x \notin StartedCalls(n) /\ StartedCalls(n) \subseteq Calls
    BY DEF StartedCalls
  <2>3. StartedCalls(m) = StartedCalls(n) \cup {x}
    BY <1>7, <1>8 DEF StartedCalls
  <2>4. \A c \in StartedCalls(n) : Given(m, c) = Given(n, c)
    BY <1>8, <2>2 DEF Given
  <2>5. Reported(b.events, m, StartedCalls(n), ordered, lost)
    BY <1>6, <2>1, <2>3, <2>4 DEF Reported
  <2>6. Given(m, x) = <<>>
    BY <1>3, <1>7, FirstAndRest DEF Given
  <2>7. Assembled(b.tool, m, StartedCalls(n), ordered)
    BY <1>6, <2>2, <2>3, <2>6 DEF Assembled
  <2> QED BY <2>5, <2>7 DEF Holds
<1>18. Keeps(b, m, StartedCalls(n), ordered, lost)
  BY <1>6, <1>15, <1>16, <1>17 DEF Keeps
<1>19. Unspoken(a.events, b.events)
  BY <1>1, <1>6, ReadingParts, UnspokenSame
<1>20. <<e>> \in Seq(AnEvent) /\ Moves(<<e>>, a, m, StartedCalls(n), ordered, lost)
  BY <1>1, <1>4, <1>6, <1>14, <1>18, <1>19, MovesOne
<1> QED BY <1>20 DEF e

(* The arguments of a call that its events have not carried yet.           *)
LEMMA CallGoesOn ==
    ASSUME NEW a, NEW n, NEW told, NEW ordered \in BOOLEAN, NEW lost, Keeps(a, n, told, ordered, lost),
           NEW x \in Ended(n), ordered => x \notin told,
           NEW m, OneCall(n, m, x),
           m.calls[x] = [n.calls[x] EXCEPT !.sent = Len(n.calls[x].args)]
    PROVE  /\ <<RestOf(n, x)>> \in Seq(AnEvent)
           /\ Moves(<<RestOf(n, x)>>, a, m, told, ordered, lost)
<1> DEFINE e == RestOf(n, x)
           i == n.calls[x].block
           c == n.calls[x]
           rest == SubSeq(c.args, c.sent + 1, Len(c.args))
           b == [a EXCEPT !.tool = ToolAfter(e, a.tool)]
<1>1. a \in Reading /\ n \in ANorm /\ Numbered(n) /\ Shows(a, n) /\ Holds(a, n, told, ordered, lost)
      /\ x \in Calls
  BY DEF Keeps, Numbered, Ended
<1>2. c \in ACall /\ CallNumbered(n, x) /\ c.started /\ ~c.stopped
  BY <1>1, NormParts DEF Numbered, Ended
<1>3. i \in Blocks /\ c.args \in Seq(Pieces) /\ c.sent \in Nat /\ c.sent <= Len(c.args)
  BY <1>2, CallParts DEF CallNumbered
<1>4. /\ rest \in Seq(Pieces) /\ SubSeq(c.args, 1, c.sent) \o rest = SubSeq(c.args, 1, Len(c.args))
  BY <1>3, FirstAndRest
<1>5. /\ e \in AnEvent /\ e.type = "delta" /\ e.index = i /\ e.part = "tool" /\ e.pieces = rest
  BY <1>1, <1>3, <1>4, Numbers DEF RestOf, Event, AnEvent
<1> HIDE DEF e
<1>6. ToolAfter(e, a.tool) \in ATool
  BY <1>1, <1>5, AfterTyped, ReadingParts
<1>7. /\ b \in Reading /\ b.phase = a.phase /\ b.open = a.open
      /\ b.closed = a.closed /\ b.tool = ToolAfter(e, a.tool) /\ b.events = a.events
  BY <1>1, <1>6 DEF Reading
<1>8. /\ m.calls[x].started = c.started /\ m.calls[x].stopped = c.stopped
      /\ m.calls[x].block = i /\ m.calls[x].args = c.args /\ m.calls[x].sent = Len(c.args)
  BY <1>2 DEF ACall
<1> HIDE DEF b, i, c, rest
<1>9. /\ m \in ANorm /\ m.started = n.started /\ m.next = n.next /\ m.block = n.block
      /\ \A y \in Calls : y # x => m.calls[y] = n.calls[y]
      /\ \A y \in Calls : /\ m.calls[y].block = n.calls[y].block
                          /\ m.calls[y].started = n.calls[y].started
                          /\ m.calls[y].stopped = n.calls[y].stopped
  BY <1>8 DEF OneCall, i, c
<1>10. Ended(m) = Ended(n) /\ StartedCalls(m) = StartedCalls(n)
  BY <1>9 DEF Ended, StartedCalls
<1>11. i \in a.open /\ a.phase = "message"
  <2>1. Live(n, i) /\ n.started
    BY <1>2, <1>3, Numbers DEF Live, CallNumbered, i
  <2> QED BY <1>1, <1>3, <2>1 DEF Shows
<1>12. Reads(e, a, b)
  BY <1>5, <1>7, <1>11 DEF Reads, BlocksAfter, EventsAfter
<1>13. Numbered(m)
  <2>1. SpokenNumbered(m)
    BY <1>1, <1>9 DEF Numbered, SpokenNumbered
  <2>2. ASSUME NEW y \in Calls, y # x PROVE CallNumbered(m, y)
    BY <1>1, <1>9, <2>2 DEF Numbered, CallNumbered
  <2>3. CallNumbered(m, x)
    <3>1. Len(c.args) <= Len(c.args) /\ c.started
      BY <1>2, <1>3
    <3> QED BY <1>2, <1>8, <1>9, <3>1 DEF CallNumbered, c, i
  <2> QED BY <1>9, <2>1, <2>2, <2>3 DEF Numbered
<1>14. Shows(b, m)
  <2>1. \A j : Live(m, j) <=> Live(n, j)
    BY <1>9, <1>10 DEF Live, Ended
  <2> QED BY <1>1, <1>7, <1>9, <2>1 DEF Shows
<1>15. Holds(b, m, told, ordered, lost)
  <2>1. /\ Reported(a.events, n, told, ordered, lost) /\ Assembled(a.tool, n, told, ordered)
        /\ x \in StartedCalls(n) /\ told \subseteq Calls /\ StartedCalls(n) \subseteq Calls
    BY <1>1, <1>2 DEF Holds, Reported, StartedCalls, c
  <2>2. ToolAfter(e, a.tool) = IF a.tool = Nothing THEN a.tool
                               ELSE [a.tool EXCEPT !.args = a.tool.args \o rest]
    BY <1>5 DEF ToolAfter
  <2>3. a.tool \in ATool
    BY <1>1, ReadingParts
  <2>4. /\ b.tool.call = a.tool.call /\ (a.tool = Nothing => b.tool = Nothing)
        /\ a.tool # Nothing => b.tool.args = a.tool.args \o rest
    BY <1>7, <2>2, <2>3 DEF ATool
  <2>5. ordered => \A d \in told : Given(m, d) = Given(n, d)
    BY <1>9, <2>1 DEF Given
  <2>6. Reported(b.events, m, told, ordered, lost)
    BY <1>7, <1>10, <2>1, <2>5 DEF Reported
  <2>7. ASSUME NEW d \in StartedCalls(n) \ told
        PROVE  b.tool.call = d /\ (ordered => b.tool.args = Given(m, d))
    <3>1. a.tool.call = d /\ d \in Calls /\ (ordered => a.tool.args = Given(n, d))
      BY <2>1, <2>7 DEF Assembled
    <3>2. a.tool # Nothing
      BY <3>1, Numbers
    <3>3. ASSUME ordered PROVE b.tool.args = Given(m, d)
      <4>1. d = x
        BY <2>1, <2>7, <3>3 DEF Assembled
      <4>2. Given(n, x) \o rest = Given(m, x)
        BY <1>4, <1>8 DEF Given, c
      <4> QED BY <2>4, <3>1, <3>2, <3>3, <4>1, <4>2
    <3> QED BY <2>4, <3>1, <3>3
  <2>8. StartedCalls(n) \subseteq told => b.tool = Nothing
    BY <2>1, <2>4 DEF Assembled
  <2>9. Assembled(b.tool, m, told, ordered)
    BY <1>10, <2>1, <2>7, <2>8 DEF Assembled
  <2> QED BY <2>6, <2>9 DEF Holds
<1>16. Keeps(b, m, told, ordered, lost)
  BY <1>7, <1>13, <1>14, <1>15 DEF Keeps
<1>17. Unspoken(a.events, b.events)
  BY <1>1, <1>7, ReadingParts, UnspokenSame
<1>18. <<e>> \in Seq(AnEvent) /\ Moves(<<e>>, a, m, told, ordered, lost)
  BY <1>1, <1>5, <1>7, <1>12, <1>16, <1>17, MovesOne
<1> QED BY <1>18 DEF e

(* What is passed on of a call whose name is known.                        *)
SentTold(n, x, told) == IF n.calls[x].started THEN told ELSE StartedCalls(n)

LEMMA SendsPlay ==
    ASSUME NEW a, NEW n, NEW told, NEW ordered \in BOOLEAN, NEW lost, Keeps(a, n, told, ordered, lost),
           NEW x \in Calls, ~n.calls[x].stopped, n.calls[x].block # NoBlock,
           ordered => x \notin told,
           n.calls[x].started \/ StartedCalls(n) \ told \subseteq lost
    PROVE  LET s == Sends(n, x)
           IN /\ s.out \in Seq(AnEvent) /\ Moves(s.out, a, s.norm, SentTold(n, x, told), ordered, lost)
              /\ OneCall(n, s.norm, x)
              /\ s.norm.calls[x].started /\ ~s.norm.calls[x].stopped
              /\ s.norm.calls[x].named = n.calls[x].named
              /\ s.norm.calls[x].args = n.calls[x].args
              /\ s.norm.calls[x].sent = Len(n.calls[x].args)
<1> DEFINE c == n.calls[x]
           d == [c EXCEPT !.started = TRUE]
           f == [c EXCEPT !.started = TRUE, !.sent = Len(c.args)]
           q == [n EXCEPT !.calls[x] = d]
           m == [n EXCEPT !.calls[x] = f]
           s1 == <<StartOf(n, x)>>
           s2 == <<RestOf(n, x)>>
           after == SentTold(n, x, told)
<1>1. a \in Reading /\ n \in ANorm /\ Numbered(n) /\ Holds(a, n, told, ordered, lost)
  BY DEF Keeps, Numbered
<1>2. c \in ACall /\ c.args \in Seq(Pieces) /\ c.sent \in Nat /\ c.sent <= Len(c.args)
      /\ Len(c.args) \in Nat /\ c.started \in BOOLEAN /\ c.stopped = FALSE
  <2>1. c \in ACall /\ CallNumbered(n, x)
    BY <1>1, NormParts DEF Numbered
  <2>2. c.args \in Seq(Pieces) /\ c.sent \in Nat /\ c.started \in BOOLEAN /\ c.stopped \in BOOLEAN
    BY <2>1, CallParts
  <2> QED BY <2>1, <2>2 DEF CallNumbered
<1>3. /\ d \in ACall /\ d.started = TRUE /\ d.stopped = FALSE /\ d.args = c.args
      /\ d.sent = c.sent /\ d.block = c.block
      /\ f \in ACall /\ f = [d EXCEPT !.sent = Len(d.args)]
      /\ f.started = TRUE /\ f.stopped = FALSE /\ f.named = c.named /\ f.args = c.args
      /\ f.sent = Len(c.args)
  BY <1>2 DEF ACall
<1>4. OneCall(n, q, x) /\ q.calls[x] = d /\ OneCall(n, m, x) /\ m.calls[x] = f
  BY <1>1, <1>3, OneCallIs
<1>5. Sends(n, x).norm = m
      /\ Sends(n, x).out = (IF c.started THEN <<>> ELSE s1)
                           \o (IF c.sent = Len(c.args) THEN <<>> ELSE s2)
  BY DEF Sends, Became
<1>6. OneCall(q, m, x)
  BY <1>4 DEF OneCall
<1>7. RestOf(q, x) = RestOf(n, x)
  BY <1>3, <1>4 DEF RestOf
<1> HIDE DEF d, f, q, m, after
<1>8. \E b \in Reading : /\ Plays(IF c.started THEN <<>> ELSE s1, a, b)
                         /\ Unspoken(a.events, b.events) /\ Keeps(b, q, after, ordered, lost)
                         /\ (IF c.started THEN <<>> ELSE s1) \in Seq(AnEvent)
  <2>1. CASE c.started
    <3>1. d = c
      BY <1>2, <1>3, <2>1 DEF ACall, d
    <3>2. q.calls = n.calls
      <4>1. \A y \in Calls : q.calls[y] = n.calls[y]
        BY <1>4, <3>1 DEF OneCall
      <4>2. q.calls \in [Calls -> ACall] /\ n.calls \in [Calls -> ACall]
        BY <1>1, <1>4, NormParts DEF OneCall
      <4> QED BY <4>1, <4>2
    <3>3. q = n
      BY <1>1, <1>4, <3>2, SameNorm DEF OneCall
    <3>4. Unspoken(a.events, a.events) /\ Plays(<<>>, a, a)
      BY <1>1, UnspokenSame, PlaysNothing, ReadingParts
    <3>5. after = told
      BY <2>1 DEF after, SentTold
    <3> QED BY <1>1, <2>1, <3>3, <3>4, <3>5
  <2>2. CASE ~c.started
    <3>1. StartedCalls(n) \ told \subseteq lost /\ after = StartedCalls(n)
      BY <2>2 DEF after, SentTold
    <3>2. q.calls[x] = [n.calls[x] EXCEPT !.started = TRUE]
      BY <1>4 DEF d
    <3>3. s1 \in Seq(AnEvent) /\ Moves(s1, a, q, after, ordered, lost)
      BY <1>4, <2>2, <3>1, <3>2, CallStarts
    <3> QED BY <2>2, <3>3 DEF Moves
  <2> QED BY <1>2, <2>1, <2>2
<1> DEFINE first == IF c.started THEN <<>> ELSE s1
<1>9. PICK b \in Reading : /\ Plays(first, a, b)
                           /\ Unspoken(a.events, b.events) /\ Keeps(b, q, after, ordered, lost)
                           /\ first \in Seq(AnEvent)
  BY <1>8
<1> HIDE DEF first
<1>10. x \in Ended(q) /\ (ordered => x \notin after)
  BY <1>3, <1>4 DEF Ended, after, SentTold, StartedCalls
<1>11. CASE c.sent = Len(c.args)
  <2>1. f = d
    BY <1>3, <1>11 DEF ACall
  <2>2. m = q
    BY <2>1 DEF m, q
  <2>3. Sends(n, x).out = first
    <3>1. first \o <<>> = first
      BY <1>9
    <3> QED BY <1>5, <1>11, <3>1 DEF first
  <2>4. Moves(first, a, m, after, ordered, lost)
    BY <1>9, <2>2 DEF Moves
  <2> QED BY <1>3, <1>4, <1>5, <1>9, <2>3, <2>4 DEF after
<1>12. CASE c.sent # Len(c.args)
  <2>1. <<RestOf(q, x)>> \in Seq(AnEvent) /\ Moves(<<RestOf(q, x)>>, b, m, after, ordered, lost)
    <3>1. m.calls[x] = [q.calls[x] EXCEPT !.sent = Len(q.calls[x].args)]
      BY <1>3, <1>4
    <3>2. Keeps(b, q, after, ordered, lost)
      BY <1>9
    <3> HIDE DEF c
    <3> QED BY <1>6, <1>10, <3>1, <3>2, CallGoesOn
  <2>2. s2 \in Seq(AnEvent) /\ Moves(s2, b, m, after, ordered, lost)
    BY <1>7, <2>1
  <2> HIDE DEF s2
  <2>3. Moves(first \o s2, a, m, after, ordered, lost)
    BY <1>1, <1>9, <2>2, MovesOn
  <2>4. first \o s2 \in Seq(AnEvent) /\ Sends(n, x).out = first \o s2
    BY <1>5, <1>9, <1>12, <2>2 DEF first
  <2> QED BY <1>3, <1>4, <1>5, <2>3, <2>4 DEF after
<1> QED BY <1>11, <1>12

(* A piece of a call is recorded, in a block of its own.                   *)
PieceTold(n, x, told) == ShutTold(n, IF n.calls[x].block = NoBlock THEN Spoken ELSE {}, told)

WithPiece(n, m, chunk, k) ==
    LET x == chunk.call
        c == n.calls[x]
        d == m.calls[x]
    IN /\ m \in ANorm /\ m.started = n.started /\ m.next <= n.next + 1
       /\ \A y \in Calls : y # x => m.calls[y] = n.calls[y]
       /\ d.started = c.started /\ d.stopped = c.stopped /\ d.block # NoBlock
       /\ d.sent = c.sent /\ d.named = (c.named \/ chunk.named)
       /\ d.args = IF chunk.args THEN Append(c.args, k) ELSE c.args
       /\ \A p \in Spoken : m.block[p] \in {NoBlock, n.block[p]}

LEMMA AppliedPlays ==
    ASSUME NEW a, NEW n, NEW told, NEW ordered \in BOOLEAN, NEW lost, Keeps(a, n, told, ordered, lost),
           n.started, n.next \in Blocks, NEW chunk \in Chunk, chunk.call \in Calls,
           NEW k \in Pieces
    PROVE  LET s == Applied(n, chunk, k)
           IN /\ s.out \in Seq(AnEvent) /\ WithPiece(n, s.norm, chunk, k)
              /\ Moves(s.out, a, s.norm, PieceTold(n, chunk.call, told), ordered, lost)
<1> DEFINE x == chunk.call
           c == n.calls[x]
           new == c.block = NoBlock
           parts == IF new THEN Spoken ELSE {}
           shut == Shut(n, parts)
           d == [c EXCEPT !.named = @ \/ chunk.named,
                          !.args  = IF chunk.args THEN Append(@, k) ELSE @,
                          !.block = IF new THEN n.next ELSE @]
           q == shut.norm
           next == IF new THEN n.next + 1 ELSE n.next
           m == [q EXCEPT !.next = IF new THEN @ + 1 ELSE @, !.calls[x] = d]
           after == ShutTold(n, parts, told)
<1>1. a \in Reading /\ n \in ANorm /\ Numbered(n) /\ parts \in SUBSET Spoken /\ x \in Calls
  BY DEF Keeps, Numbered
<1>2. Applied(n, chunk, k).norm = m /\ Applied(n, chunk, k).out = shut.out
  BY DEF Applied, Became
<1> HIDE DEF parts
<1>3. shut.out \in Seq(AnEvent) /\ Moves(shut.out, a, q, after, ordered, lost)
  BY <1>1, ShutPlays
<1>4. /\ q \in ANorm /\ q.calls = n.calls /\ q.next = n.next /\ q.started = n.started
      /\ \A p \in Spoken : q.block[p] = IF p \in parts THEN NoBlock ELSE n.block[p]
  BY <1>1, ShutNorm
<1>5. /\ c \in ACall /\ CallNumbered(n, x) /\ c.args \in Seq(Pieces) /\ c.sent \in Nat
      /\ c.named \in BOOLEAN /\ c.block \in Blocks \cup {NoBlock}
      /\ c.sent <= Len(c.args) /\ chunk.named \in BOOLEAN /\ chunk.args \in BOOLEAN
      /\ c.started \in BOOLEAN /\ c.stopped \in BOOLEAN
  <2>1. c \in ACall /\ CallNumbered(n, x)
    BY <1>1, NormParts DEF Numbered
  <2>2. c.args \in Seq(Pieces) /\ c.sent \in Nat /\ c.started \in BOOLEAN /\ c.stopped \in BOOLEAN
        /\ c.named \in BOOLEAN /\ c.block \in Blocks \cup {NoBlock}
    BY <2>1, CallParts
  <2>3. chunk.named \in BOOLEAN /\ chunk.args \in BOOLEAN
    BY DEF Chunk
  <2> QED BY <2>1, <2>2, <2>3 DEF CallNumbered
<1>6. n.next \in Nat /\ n.next # NoBlock /\ n.next < n.next + 1
  BY <1>1, NormParts, Numbers
<1> DEFINE more == IF chunk.args THEN Append(c.args, k) ELSE c.args
           place == IF new THEN n.next ELSE c.block
<1>7. more \in Seq(Pieces) /\ Len(more) >= Len(c.args) /\ SubSeq(more, 1, c.sent) = SubSeq(c.args, 1, c.sent)
  <2>1. Append(c.args, k) \in Seq(Pieces) /\ Len(Append(c.args, k)) = Len(c.args) + 1 /\ Len(c.args) \in Nat
    BY <1>5
  <2> QED BY <1>5, <2>1, FirstOfMore
<1>8. place \in Blocks /\ place # NoBlock /\ place < next
  BY <1>5, <1>6, Numbers DEF CallNumbered
<1>9. /\ d \in ACall /\ d.named = (c.named \/ chunk.named) /\ d.args = more /\ d.sent = c.sent
      /\ d.block = place /\ d.started = c.started /\ d.stopped = c.stopped
  <2>1. (c.named \/ chunk.named) \in BOOLEAN
    BY <1>5
  <2>2. d = [c EXCEPT !.named = c.named \/ chunk.named, !.args = more, !.block = place]
    BY <1>5 DEF ACall
  <2> HIDE DEF d, more, place
  <2> QED BY <1>5, <1>7, <1>8, <2>1, <2>2 DEF ACall
<1> HIDE DEF d, shut, after
<1>10. PICK b \in Reading : /\ Plays(shut.out, a, b) /\ Unspoken(a.events, b.events)
                            /\ Keeps(b, q, after, ordered, lost)
  BY <1>3 DEF Moves
<1> HIDE DEF q
<1>11. /\ m \in ANorm /\ m.started = n.started /\ m.next = next /\ m.block = q.block
       /\ m.calls[x] = d /\ \A y \in Calls : y # x => m.calls[y] = n.calls[y]
  <2> DEFINE cs == [q.calls EXCEPT ![x] = d]
  <2>1. cs \in [Calls -> ACall] /\ cs[x] = d /\ \A y \in Calls : y # x => cs[y] = q.calls[y]
    BY <1>1, <1>4, <1>9, NormParts DEF q
  <2>2. m = [q EXCEPT !.next = next, !.calls = cs]
    BY <1>4 DEF q, ANorm
  <2>3. next \in Nat
    BY <1>6
  <2> HIDE DEF cs, m, next
  <2> QED BY <1>4, <2>1, <2>2, <2>3 DEF ANorm, q
<1> HIDE DEF m
<1>12. \A y \in Calls : /\ m.calls[y].started = n.calls[y].started
                        /\ m.calls[y].stopped = n.calls[y].stopped
                        /\ m.calls[y].sent = n.calls[y].sent
  BY <1>9, <1>11
<1>13. Ended(m) = Ended(n) /\ Ended(q) = Ended(n) /\ StartedCalls(m) = StartedCalls(n)
  BY <1>4, <1>12 DEF Ended, StartedCalls, q
<1>14. \A y \in Calls : y # x \/ ~new => m.calls[y].block = n.calls[y].block
  BY <1>9, <1>11
<1>15. Numbered(q) /\ Shows(b, q)
  BY <1>10 DEF Keeps
<1>16. \A i \in Blocks \cup {NoBlock} : i < n.next => i < next /\ i # n.next
  BY <1>6, Numbers
<1>17. Numbered(m)
  <2>1. SpokenNumbered(m)
    <3>1. SpokenNumbered(q) /\ q.next = n.next /\ q.started = n.started
          /\ \A p \in Spoken : q.block[p] \in Blocks \cup {NoBlock}
      BY <1>4, <1>15, NormParts DEF Numbered, q
    <3> QED BY <1>11, <1>16, <3>1 DEF SpokenNumbered
  <2>2. \A p \in Spoken : q.block[p] # NoBlock => q.block[p] < n.next /\ q.block[p] \in Blocks
    BY <1>4, <1>15, NormParts DEF Numbered, SpokenNumbered, q
  <2>3. \A y \in Calls : n.calls[y].block # NoBlock =>
          n.calls[y].block \in Blocks /\ n.calls[y].block < n.next
    BY <1>1, NormParts, CallParts DEF Numbered, CallNumbered
  <2>4. \A y \in Calls : CallNumbered(q, y)
    BY <1>15 DEF Numbered
  <2>5. CallNumbered(m, x)
    <3>1. CASE new
      <4>1. place = n.next /\ m.calls[x].block = n.next
        BY <1>9, <1>11, <3>1
      <4>2. \A p \in Spoken : m.block[p] # n.next
        BY <1>6, <1>11, <1>16, <2>2
      <4>3. \A y \in Calls : m.calls[y].block = n.next => y = x
        BY <1>6, <1>14, <1>16, <2>3
      <4>4. c.started = FALSE
        BY <1>5, <3>1 DEF CallNumbered
      <4>5. c.sent = 0 /\ c.stopped = FALSE /\ Len(more) >= 0
        <5>1. c.sent = 0 /\ c.stopped = FALSE
          BY <1>5, <4>4 DEF CallNumbered
        <5> HIDE DEF more
        <5>2. Len(more) >= 0
          BY <1>7
        <5> QED BY <5>1, <5>2
      <4>6. /\ m.calls[x].started = FALSE /\ m.calls[x].stopped = FALSE /\ m.calls[x].sent = 0
            /\ m.calls[x].args = more
        BY <1>9, <1>11, <4>4, <4>5
      <4>7. m.started /\ m.next = n.next + 1
        BY <1>11, <3>1
      <4> QED BY <1>6, <4>1, <4>2, <4>3, <4>5, <4>6, <4>7 DEF CallNumbered
    <3>2. CASE ~new
      <4>1. m.calls[x].block = c.block
        BY <1>9, <1>11, <3>2
      <4>2. \A y \in Calls : m.calls[y].block = n.calls[y].block
        BY <1>14, <3>2
      <4>3. c.sent <= Len(more)
        BY <1>5, <1>7
      <4>4. CallNumbered(q, x) /\ q.calls = n.calls
        BY <1>4, <2>4, <1>1 DEF q
      <4> QED BY <1>8, <1>9, <1>11, <3>2, <4>1, <4>2, <4>3, <4>4 DEF CallNumbered
    <3> QED BY <3>1, <3>2
  <2>6. ASSUME NEW y \in Calls, y # x PROVE CallNumbered(m, y)
    <3>1. CallNumbered(q, y) /\ q.calls = n.calls /\ m.calls[y] = n.calls[y]
          /\ q.started = n.started
      BY <1>4, <1>11, <2>4, <2>6 DEF q
    <3>2. n.calls[y].block # NoBlock => n.calls[y].block < next
      BY <1>16, <2>3
    <3>3. n.calls[y].block # NoBlock =>
            \A z \in Calls : m.calls[z].block = n.calls[y].block => z = y
      <4>1. ASSUME n.calls[y].block # NoBlock, NEW z \in Calls, m.calls[z].block = n.calls[y].block
            PROVE  z = y
        <5>1. n.calls[y].block # n.next
          BY <1>16, <2>3, <4>1
        <5>2. m.calls[z].block = n.calls[z].block
          <6>1. CASE z = x /\ new
            <7>1. m.calls[z].block = n.next
              BY <1>9, <1>11, <6>1
            <7> QED BY <4>1, <5>1, <7>1
          <6>2. CASE ~(z = x /\ new)
            BY <1>14, <6>2
          <6> QED BY <6>1, <6>2
        <5> QED BY <3>1, <4>1, <5>2 DEF CallNumbered
      <4> QED BY <4>1
    <3> QED BY <1>11, <3>1, <3>2, <3>3 DEF CallNumbered
  <2> QED BY <1>11, <2>1, <2>5, <2>6 DEF Numbered
<1>18. Shows(b, m)
  <2>1. \A y \in Ended(n) : m.calls[y].block = n.calls[y].block
    BY <1>1, <1>5, <1>14 DEF Ended, Numbered, CallNumbered
  <2>2. \A i : Live(m, i) <=> Live(q, i)
    BY <1>4, <1>11, <1>13, <2>1 DEF Live, q
  <2>3. \A i \in Blocks : i \in b.open <=> Live(m, i)
    BY <1>15, <2>2 DEF Shows
  <2>4. ASSUME NEW i \in b.closed
        PROVE  i < m.next /\ i \notin b.open /\ \A y \in Calls : ~m.calls[y].started => m.calls[y].block # i
    <3>1. i \in Blocks /\ i < n.next /\ i \notin b.open
          /\ \A y \in Calls : ~n.calls[y].started => n.calls[y].block # i
      BY <1>4, <1>15, ReadingParts DEF Shows, q
    <3>2. i < next /\ i # n.next
      BY <1>16, <3>1
    <3>3. ASSUME NEW y \in Calls, ~m.calls[y].started PROVE m.calls[y].block # i
      <4>1. ~n.calls[y].started
        BY <1>12, <3>3
      <4>2. CASE y = x /\ new
        <5>1. m.calls[y].block = n.next
          BY <1>9, <1>11, <4>2
        <5> QED BY <3>2, <5>1
      <4>3. CASE ~(y = x /\ new)
        BY <1>14, <3>1, <4>1, <4>3
      <4> QED BY <4>2, <4>3
    <3> QED BY <1>11, <3>1, <3>2, <3>3
  <2>5. b.phase = IF m.started THEN "message" ELSE "none"
    BY <1>4, <1>11, <1>15 DEF Shows, q
  <2> QED BY <2>3, <2>4, <2>5 DEF Shows
<1>19. Holds(b, m, after, ordered, lost)
  <2>1. Alike(q, m)
    <3>1. ASSUME NEW y \in Calls PROVE m.calls[y].started = q.calls[y].started /\ Given(m, y) = Given(q, y)
      <4>1. q.calls = n.calls
        BY <1>4 DEF q
      <4>2. CASE y = x
        BY <1>7, <1>9, <1>11, <4>1, <4>2 DEF Given
      <4>3. CASE y # x
        BY <1>11, <4>1, <4>3 DEF Given
      <4> QED BY <4>2, <4>3
    <3> QED BY <3>1 DEF Alike
  <2>2. Holds(b, q, after, ordered, lost)
    BY <1>10 DEF Keeps
  <2> QED BY <2>1, <2>2, AlikeHolds
<1>20. Moves(shut.out, a, m, after, ordered, lost)
  BY <1>10, <1>17, <1>18, <1>19 DEF Moves, Keeps
<1>21. m.next <= n.next + 1
  BY <1>6, <1>11
<1>22. \A p \in Spoken : m.block[p] = IF new THEN NoBlock ELSE n.block[p]
  BY <1>4, <1>11 DEF q, parts
<1>23. Applied(n, chunk, k).norm = m /\ Applied(n, chunk, k).out = shut.out
  BY <1>2 DEF m, q, d, shut, parts
<1>24. WithPiece(n, m, chunk, k)
  BY <1>4, <1>8, <1>9, <1>11, <1>21, <1>22 DEF WithPiece
<1> QED BY <1>3, <1>20, <1>23, <1>24 DEF after, parts, PieceTold

-----------------------------------------------------------------------------
(* The text and the reasoning of a reply, against the chunks of a stream.   *)

TellsIn(es, i, part, k) == es[i].type = part /\ es[i].pieces = <<k>>

InOrderIn(es, s, part) ==
    \A i \in DOMAIN es : es[i].type = part =>
        \E k \in DOMAIN s :
            /\ s[k].part = part /\ TellsIn(es, i, part, k)
            /\ \A j \in DOMAIN es : TellsIn(es, j, part, k) => j = i
            /\ \A l \in 1 .. k - 1 :
                  s[l].part = part => \E j \in 1 .. i - 1 : TellsIn(es, j, part, l)

AllToldIn(es, s, part) ==
    \A k \in DOMAIN s : s[k].part = part => \E i \in DOMAIN es : TellsIn(es, i, part, k)

Texts(es, s) == \A part \in Spoken : InOrderIn(es, s, part) /\ AllToldIn(es, s, part)

LEMMA KeptFirst ==
    ASSUME NEW es \in Seq(AReport), NEW more \in Seq(AReport), Unspoken(es, more)
    PROVE  /\ DOMAIN es = 1 .. Len(es)
           /\ \A i \in DOMAIN es : i \in DOMAIN more /\ more[i] = es[i]
           /\ \A i \in DOMAIN more : more[i].type \in Spoken => i \in DOMAIN es
<1>1. /\ DOMAIN es = 1 .. Len(es) /\ DOMAIN more = 1 .. Len(more)
      /\ Len(es) \in Nat /\ Len(more) \in Nat /\ Len(es) <= Len(more)
      /\ \A i \in DOMAIN es : i \in DOMAIN more /\ more[i] = es[i]
  BY DEF Unspoken, Grows
<1>2. \A i \in DOMAIN more : i \in DOMAIN es \/ i \in Len(es) + 1 .. Len(more)
  BY <1>1
<1> QED BY <1>1, <1>2 DEF Unspoken

LEMMA OrderKept ==
    ASSUME NEW es \in Seq(AReport), NEW more \in Seq(AReport), Unspoken(es, more), NEW s,
           NEW part \in Spoken, InOrderIn(es, s, part)
    PROVE  InOrderIn(more, s, part)
<1>1. /\ DOMAIN es = 1 .. Len(es) /\ Len(es) \in Nat
      /\ \A i \in DOMAIN es : i \in DOMAIN more /\ more[i] = es[i]
      /\ \A i \in DOMAIN more : more[i].type \in Spoken => i \in DOMAIN es
  BY KeptFirst
<1>2. \A i \in DOMAIN es : \A k : TellsIn(more, i, part, k) <=> TellsIn(es, i, part, k)
  BY <1>1 DEF TellsIn
<1> SUFFICES ASSUME NEW i \in DOMAIN more, more[i].type = part
             PROVE  \E k \in DOMAIN s :
                       /\ s[k].part = part /\ TellsIn(more, i, part, k)
                       /\ \A j \in DOMAIN more : TellsIn(more, j, part, k) => j = i
                       /\ \A l \in 1 .. k - 1 :
                             s[l].part = part => \E j \in 1 .. i - 1 : TellsIn(more, j, part, l)
  BY DEF InOrderIn
<1>3. i \in DOMAIN es /\ es[i].type = part
  BY <1>1
<1>4. PICK k \in DOMAIN s :
        /\ s[k].part = part /\ TellsIn(es, i, part, k)
        /\ \A j \in DOMAIN es : TellsIn(es, j, part, k) => j = i
        /\ \A l \in 1 .. k - 1 :
              s[l].part = part => \E j \in 1 .. i - 1 : TellsIn(es, j, part, l)
  BY <1>3 DEF InOrderIn
<1>5. \A j \in DOMAIN more : TellsIn(more, j, part, k) => j = i
  BY <1>1, <1>2, <1>4 DEF TellsIn
<1>6. \A j \in 1 .. i - 1 : j \in DOMAIN es
  BY <1>1, <1>3
<1> QED BY <1>2, <1>3, <1>4, <1>5, <1>6

LEMMA ToldKept ==
    ASSUME NEW es \in Seq(AReport), NEW more \in Seq(AReport), Unspoken(es, more), NEW s,
           NEW part, AllToldIn(es, s, part)
    PROVE  AllToldIn(more, s, part)
<1>1. \A i \in DOMAIN es : i \in DOMAIN more /\ more[i] = es[i]
  BY KeptFirst
<1> QED BY <1>1 DEF AllToldIn, TellsIn

LEMMA TextsKept ==
    ASSUME NEW es \in Seq(AReport), NEW more \in Seq(AReport), Unspoken(es, more), NEW s,
           Texts(es, s)
    PROVE  Texts(more, s)
BY OrderKept, ToldKept DEF Texts

LEMMA AppendUnspoken ==
    ASSUME NEW es \in Seq(AReport), NEW r \in AReport, r.type \notin Spoken
    PROVE  Append(es, r) \in Seq(AReport) /\ Unspoken(es, Append(es, r))
<1> DEFINE more == Append(es, r)
<1>1. /\ more \in Seq(AReport) /\ Len(more) = Len(es) + 1 /\ Len(es) \in Nat
      /\ more[Len(es) + 1] = r /\ \A i \in 1 .. Len(es) : more[i] = es[i]
  OBVIOUS
<1> HIDE DEF more
<1>2. Unspoken(es, more)
  BY <1>1 DEF Unspoken, Grows
<1> QED BY <1>1, <1>2 DEF more

LEMMA SaidMore ==
    ASSUME NEW s \in Seq(Chunk), NEW chunk \in Chunk
    PROVE  /\ Append(s, chunk) \in Seq(Chunk) /\ Len(Append(s, chunk)) = Len(s) + 1
           /\ DOMAIN s = 1 .. Len(s) /\ DOMAIN Append(s, chunk) = 1 .. Len(s) + 1
           /\ Len(s) \in Nat /\ Append(s, chunk)[Len(s) + 1] = chunk
           /\ \A i \in 1 .. Len(s) : Append(s, chunk)[i] = s[i]
OBVIOUS

LEMMA TextsSilent ==
    ASSUME NEW es \in Seq(AReport), NEW s \in Seq(Chunk), NEW chunk \in Chunk,
           chunk.part \notin Spoken, Texts(es, s)
    PROVE  Texts(es, Append(s, chunk))
<1> DEFINE t == Append(s, chunk)
<1>1. /\ DOMAIN s = 1 .. Len(s) /\ DOMAIN t = 1 .. Len(s) + 1 /\ Len(s) \in Nat
      /\ t[Len(s) + 1] = chunk /\ \A i \in 1 .. Len(s) : t[i] = s[i]
  BY SaidMore
<1> HIDE DEF t
<1>2. ASSUME NEW part \in Spoken PROVE InOrderIn(es, t, part) /\ AllToldIn(es, t, part)
  <2>1. \A k \in DOMAIN t : t[k].part = part => k \in DOMAIN s /\ t[k] = s[k]
    BY <1>1
  <2>2. AllToldIn(es, t, part)
    BY <2>1 DEF Texts, AllToldIn
  <2>3. ASSUME NEW i \in DOMAIN es, es[i].type = part
        PROVE  \E k \in DOMAIN t :
                  /\ t[k].part = part /\ TellsIn(es, i, part, k)
                  /\ \A j \in DOMAIN es : TellsIn(es, j, part, k) => j = i
                  /\ \A l \in 1 .. k - 1 :
                        t[l].part = part => \E j \in 1 .. i - 1 : TellsIn(es, j, part, l)
    <3>1. PICK k \in DOMAIN s :
            /\ s[k].part = part /\ TellsIn(es, i, part, k)
            /\ \A j \in DOMAIN es : TellsIn(es, j, part, k) => j = i
            /\ \A l \in 1 .. k - 1 :
                  s[l].part = part => \E j \in 1 .. i - 1 : TellsIn(es, j, part, l)
      BY <2>3 DEF Texts, InOrderIn
    <3>2. k \in DOMAIN t /\ t[k] = s[k] /\ \A l \in 1 .. k - 1 : t[l] = s[l]
      BY <1>1
    <3> QED BY <3>1, <3>2
  <2> QED BY <2>2, <2>3 DEF InOrderIn
<1> QED BY <1>2 DEF Texts, t

LEMMA TextsSpoken ==
    ASSUME NEW es \in Seq(AReport), NEW s \in Seq(Chunk), NEW chunk \in Chunk,
           chunk.part \in Spoken, Texts(es, s)
    PROVE  Texts(Append(es, Said(chunk.part, NoTool, <<Len(s) + 1>>)), Append(s, chunk))
<1> DEFINE t == Append(s, chunk)
           new == Len(s) + 1
           r == Said(chunk.part, NoTool, <<new>>)
           more == Append(es, r)
           last == Len(es) + 1
<1>1. /\ DOMAIN s = 1 .. Len(s) /\ DOMAIN t = 1 .. new /\ Len(s) \in Nat
      /\ t[new] = chunk /\ \A i \in 1 .. Len(s) : t[i] = s[i]
  BY SaidMore
<1>2. /\ DOMAIN es = 1 .. Len(es) /\ DOMAIN more = 1 .. last /\ Len(es) \in Nat
      /\ more[last] = r /\ \A i \in 1 .. Len(es) : more[i] = es[i]
  OBVIOUS
<1>3. r.type = chunk.part /\ r.pieces = <<new>>
  BY DEF Said
<1> HIDE DEF t, r, more
<1>4. ASSUME NEW part \in Spoken, NEW j \in DOMAIN es, NEW k \in DOMAIN t, TellsIn(es, j, part, k)
      PROVE  k # new
  <2>1. PICK l \in DOMAIN s : TellsIn(es, j, part, l)
    BY <1>4 DEF Texts, InOrderIn, TellsIn
  <2>2. k = l
    BY <1>4, <2>1 DEF TellsIn
  <2> QED BY <1>1, <2>2
<1>5. ASSUME NEW part \in Spoken PROVE InOrderIn(more, t, part) /\ AllToldIn(more, t, part)
  <2>1. \A i \in DOMAIN es : \A k : TellsIn(more, i, part, k) <=> TellsIn(es, i, part, k)
    BY <1>2 DEF TellsIn
  <2>2. \A k \in DOMAIN t : TellsIn(more, last, part, k) => k = new /\ chunk.part = part
    BY <1>2, <1>3 DEF TellsIn
  <2>3. TellsIn(more, last, chunk.part, new)
    BY <1>2, <1>3 DEF TellsIn
  <2>4. AllToldIn(more, t, part)
    <3>1. ASSUME NEW k \in DOMAIN t, t[k].part = part
          PROVE  \E i \in DOMAIN more : TellsIn(more, i, part, k)
      <4>1. CASE k = new
        BY <1>1, <1>2, <2>3, <3>1, <4>1
      <4>2. CASE k # new
        <5>1. k \in DOMAIN s /\ s[k].part = part
          BY <1>1, <3>1, <4>2
        <5>2. PICK i \in DOMAIN es : TellsIn(es, i, part, k)
          BY <5>1 DEF Texts, AllToldIn
        <5> QED BY <1>2, <2>1, <5>2
      <4> QED BY <4>1, <4>2
    <3> QED BY <3>1 DEF AllToldIn
  <2>5. ASSUME NEW i \in DOMAIN more, more[i].type = part
        PROVE  \E k \in DOMAIN t :
                  /\ t[k].part = part /\ TellsIn(more, i, part, k)
                  /\ \A j \in DOMAIN more : TellsIn(more, j, part, k) => j = i
                  /\ \A l \in 1 .. k - 1 :
                        t[l].part = part => \E j \in 1 .. i - 1 : TellsIn(more, j, part, l)
    <3>1. CASE i = last
      <4>1. part = chunk.part
        BY <1>2, <1>3, <2>5, <3>1
      <4>2. new \in DOMAIN t /\ t[new].part = part /\ TellsIn(more, last, part, new)
        BY <1>1, <2>3, <4>1
      <4>3. \A j \in DOMAIN more : TellsIn(more, j, part, new) => j = last
        <5>1. \A j \in DOMAIN more : j = last \/ j \in DOMAIN es
          BY <1>2
        <5> QED BY <1>4, <2>1, <4>2, <5>1
      <4>4. ASSUME NEW l \in 1 .. new - 1, t[l].part = part
            PROVE  \E j \in 1 .. last - 1 : TellsIn(more, j, part, l)
        <5>1. l \in DOMAIN s /\ s[l].part = part
          BY <1>1, <4>4
        <5>2. PICK j \in DOMAIN es : TellsIn(es, j, part, l)
          BY <5>1 DEF Texts, AllToldIn
        <5>3. j \in 1 .. last - 1
          BY <1>2
        <5> QED BY <2>1, <5>2, <5>3
      <4> QED BY <3>1, <4>2, <4>3, <4>4
    <3>2. CASE i # last
      <4>1. i \in DOMAIN es /\ es[i].type = part
        BY <1>2, <2>5, <3>2
      <4>2. PICK k \in DOMAIN s :
              /\ s[k].part = part /\ TellsIn(es, i, part, k)
              /\ \A j \in DOMAIN es : TellsIn(es, j, part, k) => j = i
              /\ \A l \in 1 .. k - 1 :
                    s[l].part = part => \E j \in 1 .. i - 1 : TellsIn(es, j, part, l)
        BY <4>1 DEF Texts, InOrderIn
      <4>3. k \in DOMAIN t /\ k # new /\ t[k] = s[k] /\ \A l \in 1 .. k - 1 : t[l] = s[l]
        BY <1>1
      <4>4. \A j \in DOMAIN more : TellsIn(more, j, part, k) => j = i
        <5>1. \A j \in DOMAIN more : j = last \/ j \in DOMAIN es
          BY <1>2
        <5> QED BY <2>1, <2>2, <4>2, <4>3, <5>1
      <4>5. \A j \in 1 .. i - 1 : j \in DOMAIN es
        BY <1>2, <4>1
      <4> QED BY <2>1, <4>1, <4>2, <4>3, <4>4, <4>5
    <3> QED BY <3>1, <3>2
  <2> QED BY <2>4, <2>5 DEF InOrderIn
<1> QED BY <1>5 DEF Texts, t, r, more

(* The reply of a stream that is broken off is the beginning of one.       *)
LEMMA TextsFirst ==
    ASSUME NEW es \in Seq(AReport), NEW more \in Seq(AReport), Grows(es, more), NEW s,
           Texts(more, s), NEW part \in Spoken
    PROVE  InOrderIn(es, s, part)
<1>1. /\ DOMAIN es = 1 .. Len(es) /\ DOMAIN more = 1 .. Len(more)
      /\ Len(es) \in Nat /\ Len(more) \in Nat /\ Len(es) <= Len(more)
      /\ \A i \in DOMAIN es : i \in DOMAIN more /\ more[i] = es[i]
  BY DEF Grows
<1>2. \A i \in DOMAIN es : \A k : TellsIn(more, i, part, k) <=> TellsIn(es, i, part, k)
  BY <1>1 DEF TellsIn
<1>3. ASSUME NEW i \in DOMAIN es, es[i].type = part
      PROVE  \E k \in DOMAIN s :
                /\ s[k].part = part /\ TellsIn(es, i, part, k)
                /\ \A j \in DOMAIN es : TellsIn(es, j, part, k) => j = i
                /\ \A l \in 1 .. k - 1 :
                      s[l].part = part => \E j \in 1 .. i - 1 : TellsIn(es, j, part, l)
  <2>1. i \in DOMAIN more /\ more[i].type = part
    BY <1>1, <1>3
  <2>2. PICK k \in DOMAIN s :
          /\ s[k].part = part /\ TellsIn(more, i, part, k)
          /\ \A j \in DOMAIN more : TellsIn(more, j, part, k) => j = i
          /\ \A l \in 1 .. k - 1 :
                s[l].part = part => \E j \in 1 .. i - 1 : TellsIn(more, j, part, l)
    BY <2>1 DEF Texts, InOrderIn
  <2>3. \A j \in 1 .. i - 1 : j \in DOMAIN es
    BY <1>1
  <2> QED BY <1>1, <1>2, <2>2, <2>3
<1> QED BY <1>3 DEF InOrderIn

-----------------------------------------------------------------------------
(* A chunk.  Between two chunks the calls that have been stopped are told.  *)
Tidy(a, n, told, ordered, lost) == StoppedCalls(n) \subseteq told /\ Keeps(a, n, told, ordered, lost)

Settles(s, a, n, ordered, lost) == Moves(s, a, n, StoppedCalls(n), ordered, lost)

(* The calls that may be told when a chunk has been read.                  *)
Behind(n, told, m, chunk) ==
    told \cup StoppedCalls(m) \cup {c \in StartedCalls(n) : CallOf(chunk) # c}

(* A call is started when its name is known, and what came of it has been   *)
(* passed on.                                                              *)
Settled(n) == \A c \in Calls : /\ n.calls[c].started <=> n.calls[c].named
                               /\ n.calls[c].started => n.calls[c].sent = Len(n.calls[c].args)

(* What a chunk at place k leaves of the calls.                            *)
Took(n, m, chunk, k) ==
    /\ m \in ANorm /\ m.next <= n.next + 1
    /\ \A c \in Calls :
          LET mine == chunk.part = "tool" /\ chunk.call = c
          IN /\ m.calls[c].named <=> n.calls[c].named \/ (mine /\ chunk.named)
             /\ m.calls[c].args = IF mine /\ chunk.args THEN Append(n.calls[c].args, k)
                                  ELSE n.calls[c].args
             /\ c \in Ended(m) => ~chunk.finish /\ (c \in Ended(n) \/ mine)
             /\ n.calls[c].stopped => m.calls[c].stopped
    /\ chunk.part = "tool" => \A p \in Spoken : m.block[p] \in {NoBlock, n.block[p]}
    /\ Settled(n) => Settled(m)

LEMMA StartedOrStopped ==
    ASSUME NEW n, Numbered(n)
    PROVE  /\ StoppedCalls(n) \subseteq StartedCalls(n) /\ Ended(n) \subseteq Calls
           /\ StartedCalls(n) = StoppedCalls(n) \cup Ended(n)
           /\ Ended(n) \cap StoppedCalls(n) = {}
BY DEF Numbered, CallNumbered, StartedCalls, StoppedCalls, Ended

LEMMA ToldStarted ==
    ASSUME NEW a, NEW n, NEW told, NEW ordered, NEW lost, Keeps(a, n, told, ordered, lost)
    PROVE  told \subseteq StartedCalls(n)
BY DEF Keeps, Holds, Reported

LEMMA AllEnd ==
    ASSUME NEW n, Numbered(n)
    PROVE  Ends(n, Stopped(n).norm, Ended(n)) /\ Ended(Stopped(n).norm) = {}
<1> DEFINE m == Stopped(n).norm
<1>1. Ends(n, m, Ended(n))
  BY StoppedEnds
<1> HIDE DEF m
<1>2. Ended(m) = {}
  BY <1>1 DEF Ends, Ended
<1> QED BY <1>1, <1>2 DEF m

LEMMA StoppedSettles ==
    ASSUME NEW a, NEW n, NEW told, NEW ordered \in BOOLEAN, NEW lost, Tidy(a, n, told, ordered, lost)
    PROVE  /\ Stopped(n).out \in Seq(AnEvent)
           /\ Settles(Stopped(n).out, a, Stopped(n).norm, ordered, lost)
<1> DEFINE m == Stopped(n).norm
           out == Stopped(n).out
<1>1. Numbered(n) /\ Keeps(a, n, told, ordered, lost) /\ StoppedCalls(n) \subseteq told
  BY DEF Tidy, Keeps
<1>2. Ends(n, m, Ended(n))
  BY <1>1, StoppedEnds
<1>3. out \in Seq(AnEvent) /\ Moves(out, a, m, StopTold(n, Ended(n), told), ordered, lost)
  BY <1>1, StoppedPlays
<1> HIDE DEF m, out
<1>4. StoppedCalls(m) = StoppedCalls(n) \cup Ended(n)
  BY <1>1, <1>2, StartedOrStopped DEF Ends, StoppedCalls
<1>5. StopTold(n, Ended(n), told) = StoppedCalls(m)
  <2>1. told \subseteq StartedCalls(n)
    BY <1>1, ToldStarted
  <2> QED BY <1>1, <1>4, <2>1, StartedOrStopped DEF StopTold
<1>6. Settles(out, a, m, ordered, lost)
  BY <1>3, <1>5 DEF Settles
<1> QED BY <1>3, <1>6 DEF m, out

LEMMA EndsTook ==
    ASSUME NEW n \in ANorm, NEW m, NEW chunk, chunk.part # "tool", NEW k,
           Ends(n, m, Ended(n)), Ended(m) = {}, chunk.finish
    PROVE  Took(n, m, chunk, k)
<1>1. n.next \in Nat /\ m.next <= n.next + 1
  BY NormParts DEF Ends
<1>2. \A c \in Calls : m.calls[c] \in ACall /\ n.calls[c] \in ACall
  BY NormParts DEF Ends
<1>3. Settled(n) => Settled(m)
  BY DEF Settled, Ends
<1> QED BY <1>1, <1>3 DEF Took, Ends

(* finish_reason alone.                                                    *)
LEMMA NonePlays ==
    ASSUME NEW a, NEW n, NEW told, NEW ordered \in BOOLEAN, NEW lost, Tidy(a, n, told, ordered, lost),
           NEW chunk \in Chunk, chunk.part = "none", chunk.finish, NEW k
    PROVE  LET m == Stopped(n)
           IN /\ m.out \in Seq(AnEvent) /\ Settles(m.out, a, m.norm, ordered, lost)
              /\ Took(n, m.norm, chunk, k)
<1> DEFINE out == Stopped(n).out
           m   == Stopped(n).norm
<1>1. n \in ANorm /\ Numbered(n)
  BY DEF Tidy, Keeps, Numbered
<1>2. out \in Seq(AnEvent) /\ Settles(out, a, m, ordered, lost)
  BY StoppedSettles
<1>3. Ends(n, m, Ended(n)) /\ Ended(m) = {}
  BY <1>1, AllEnd
<1> HIDE DEF out, m
<1>4. chunk.part # "tool"
  OBVIOUS
<1>5. Took(n, m, chunk, k)
  BY <1>1, <1>3, <1>4, EndsTook
<1> QED BY <1>2, <1>5 DEF out, m

(* A piece of text or reasoning.                                           *)
SpokenTold(n, p, told) == ShutTold(n, {"thinking"} \ {p}, told)

LEMMA SpokenPlays ==
    ASSUME NEW a, NEW n, NEW told, NEW ordered \in BOOLEAN, NEW lost, Tidy(a, n, told, ordered, lost),
           n.started, n.next \in Blocks, NEW chunk \in Chunk, chunk.part \in Spoken, ~chunk.finish,
           NEW k \in Pieces
    PROVE  LET s == Speak(n, chunk.part, k)
               after == SpokenTold(n, chunk.part, told)
           IN /\ s.out \in Seq(AnEvent)
              /\ Speaks(s.out, a, s.norm, after, ordered, lost, chunk.part, k)
              /\ StoppedCalls(s.norm) \subseteq after /\ after \subseteq Behind(n, told, s.norm, chunk)
              /\ Took(n, s.norm, chunk, k)
<1> DEFINE p == chunk.part
           out == Speak(n, p, k).out
           m == Speak(n, p, k).norm
           after == SpokenTold(n, p, told)
<1>1. /\ Numbered(n) /\ n \in ANorm /\ Keeps(a, n, told, ordered, lost)
      /\ StoppedCalls(n) \subseteq told
  BY DEF Tidy, Keeps, Numbered
<1>2. /\ out \in Seq(AnEvent) /\ Speaks(out, a, m, after, ordered, lost, p, k)
      /\ m \in ANorm /\ m.calls = n.calls /\ m.next <= n.next + 1 /\ m.started
  <2>1. p \in Spoken
    OBVIOUS
  <2> HIDE DEF p
  <2>2. LET s == Speak(n, p, k)
        IN /\ s.out \in Seq(AnEvent)
           /\ Speaks(s.out, a, s.norm, ShutTold(n, {"thinking"} \ {p}, told), ordered, lost, p, k)
           /\ s.norm \in ANorm /\ s.norm.calls = n.calls /\ s.norm.next <= n.next + 1
           /\ s.norm.started
    BY <1>1, <2>1, SpeakPlays
  <2> QED BY <2>2 DEF SpokenTold
<1> HIDE DEF p, out, m
<1>3. StoppedCalls(m) = StoppedCalls(n) /\ Ended(m) = Ended(n)
  BY <1>2 DEF StoppedCalls, Ended
<1>4. p # "tool"
  BY DEF Spoken, p
<1>5. StoppedCalls(m) \subseteq after /\ after \subseteq Behind(n, told, m, chunk)
  <2>1. after \in {told, StartedCalls(n)}
    BY DEF SpokenTold, ShutTold
  <2>2. StoppedCalls(n) \subseteq StartedCalls(n)
    BY <1>1, StartedOrStopped
  <2>3. \A c \in StartedCalls(n) : CallOf(chunk) # c
    BY <1>4, Numbers DEF CallOf, p, StartedCalls
  <2> QED BY <1>1, <1>3, <2>1, <2>2, <2>3 DEF Behind
<1> HIDE DEF after
<1>6. Took(n, m, chunk, k)
  <2>1. Settled(n) => Settled(m)
    BY <1>2 DEF Settled
  <2> QED BY <1>2, <1>3, <1>4, <2>1 DEF Took, p
<1> QED BY <1>2, <1>5, <1>6 DEF out, m, p, after

(* The same before finish_reason is looked at.                             *)
TookPart(n, m, chunk, k) ==
    /\ m \in ANorm /\ m.next <= n.next + 1
    /\ \A c \in Calls :
          LET mine == chunk.part = "tool" /\ chunk.call = c
          IN /\ m.calls[c].named <=> n.calls[c].named \/ (mine /\ chunk.named)
             /\ m.calls[c].args = IF mine /\ chunk.args THEN Append(n.calls[c].args, k)
                                  ELSE n.calls[c].args
             /\ c \in Ended(m) => c \in Ended(n) \/ mine
             /\ n.calls[c].stopped => m.calls[c].stopped
    /\ chunk.part = "tool" => \A p \in Spoken : m.block[p] \in {NoBlock, n.block[p]}
    /\ Settled(n) => Settled(m)

LEMMA TookWhole ==
    ASSUME NEW n, NEW q, NEW m, NEW chunk, NEW k, TookPart(n, q, chunk, k),
           \/ ~chunk.finish /\ m = q
           \/ chunk.finish /\ Ends(q, m, Ended(q)) /\ Ended(m) = {}
    PROVE  Took(n, m, chunk, k)
<1>1. CASE ~chunk.finish /\ m = q
  BY <1>1 DEF Took, TookPart
<1>2. CASE chunk.finish /\ Ends(q, m, Ended(q)) /\ Ended(m) = {}
  <2>1. Settled(q) => Settled(m)
    BY <1>2 DEF Settled, Ends
  <2>2. /\ m \in ANorm /\ m.next = q.next /\ m.block = q.block
        /\ \A c \in Calls : /\ m.calls[c].named = q.calls[c].named
                            /\ m.calls[c].args = q.calls[c].args
                            /\ q.calls[c].stopped => m.calls[c].stopped
    BY <1>2 DEF Ends
  <2> QED BY <1>2, <2>1, <2>2 DEF Took, TookPart
<1> QED BY <1>1, <1>2

(* What is known of a call is passed on.                                   *)
PassedTold(n, x, told) == IF n.calls[x].named THEN SentTold(n, x, told) ELSE told

LEMMA PassedOnPlays ==
    ASSUME NEW a, NEW n, NEW told, NEW ordered \in BOOLEAN, NEW lost, Keeps(a, n, told, ordered, lost),
           NEW x \in Calls, ~n.calls[x].stopped, n.calls[x].block # NoBlock,
           ordered => x \notin told,
           n.calls[x].started \/ StartedCalls(n) \ told \subseteq lost
    PROVE  LET s == PassedOn(n, x)
           IN /\ s.out \in Seq(AnEvent) /\ Moves(s.out, a, s.norm, PassedTold(n, x, told), ordered, lost)
              /\ OneCall(n, s.norm, x) /\ ~s.norm.calls[x].stopped
              /\ s.norm.calls[x].named = n.calls[x].named
              /\ s.norm.calls[x].args = n.calls[x].args
              /\ s.norm.calls[x].started <=> n.calls[x].started \/ n.calls[x].named
              /\ n.calls[x].named => s.norm.calls[x].sent = Len(n.calls[x].args)
<1>1. n \in ANorm /\ n.calls[x] \in ACall
  BY NormParts DEF Keeps, Numbered
<1>2. CASE n.calls[x].named
  <2> DEFINE s == Sends(n, x)
  <2>1. PassedOn(n, x) = s /\ PassedTold(n, x, told) = SentTold(n, x, told)
    BY <1>2 DEF PassedOn, PassedTold
  <2>0. Keeps(a, n, told, ordered, lost) /\ (ordered => x \notin told)
        /\ (n.calls[x].started \/ StartedCalls(n) \ told \subseteq lost)
    OBVIOUS
  <2>2. /\ s.out \in Seq(AnEvent) /\ Moves(s.out, a, s.norm, SentTold(n, x, told), ordered, lost)
        /\ OneCall(n, s.norm, x)
        /\ s.norm.calls[x].started /\ ~s.norm.calls[x].stopped
        /\ s.norm.calls[x].named = n.calls[x].named
        /\ s.norm.calls[x].args = n.calls[x].args
        /\ s.norm.calls[x].sent = Len(n.calls[x].args)
    BY <2>0, SendsPlay
  <2> HIDE DEF s
  <2> QED BY <1>2, <2>1, <2>2
<1>3. CASE ~n.calls[x].named
  <2>1. PassedOn(n, x).norm = n /\ PassedOn(n, x).out = <<>> /\ PassedTold(n, x, told) = told
    BY <1>3 DEF PassedOn, Became, PassedTold
  <2>2. OneCall(n, n, x) /\ <<>> \in Seq(AnEvent) /\ Moves(<<>>, a, n, told, ordered, lost)
    BY <1>1, MovesNot DEF OneCall
  <2> QED BY <1>3, <2>1, <2>2
<1> QED BY <1>2, <1>3

LEMMA ThenIs ==
    ASSUME NEW one, NEW two
    PROVE  Then(one, two).norm = two.norm /\ Then(one, two).out = one.out \o two.out
BY DEF Then, Became

(* A piece of a call, and what becomes of its call when it says that the    *)
(* calls end.                                                              *)
PieceTells(n, x, m, told, now, finish) ==
    /\ StoppedCalls(m) \subseteq now
    /\ ~finish => now \subseteq told \cup (StartedCalls(n) \ {x})

LEMMA ToolPlays ==
    ASSUME NEW a, NEW n, NEW told, NEW ordered \in BOOLEAN, NEW lost, Tidy(a, n, told, ordered, lost),
           n.started, n.next \in Blocks, NEW chunk \in Chunk, chunk.part = "tool",
           chunk.call \in Calls, ~n.calls[chunk.call].stopped, ordered => chunk.call \notin told,
           n.calls[chunk.call].started \/ StartedCalls(n) \ told \subseteq lost,
           NEW k \in Pieces
    PROVE  LET s == Part(n, chunk, k)
           IN /\ s.out \in Seq(AnEvent) /\ TookPart(n, s.norm, chunk, k)
              /\ \E now \in SUBSET StartedCalls(s.norm) :
                    /\ Moves(s.out, a, s.norm, now, ordered, lost)
                    /\ PieceTells(n, chunk.call, s.norm, told, now, chunk.finish)
<1> DEFINE x == chunk.call
           applied == Applied(n, chunk, k)
           q == applied.norm
           passing == PassedOn(q, x)
           r == passing.norm
           passed == Then(applied, passing)
           first == StoppedFirst(r, x)
           after == PieceTold(n, x, told)
           now == PassedTold(q, x, after)
<1>1. Numbered(n) /\ n \in ANorm /\ a \in Reading /\ x \in Calls /\ Keeps(a, n, told, ordered, lost)
      /\ StoppedCalls(n) \subseteq told
  BY DEF Tidy, Keeps, Numbered
<1>2. /\ applied.out \in Seq(AnEvent) /\ Moves(applied.out, a, q, after, ordered, lost)
      /\ WithPiece(n, q, chunk, k)
  BY <1>1, AppliedPlays
<1>3. /\ q \in ANorm /\ q.started = n.started /\ q.next <= n.next + 1
      /\ \A y \in Calls : y # x => q.calls[y] = n.calls[y]
      /\ q.calls[x].started = n.calls[x].started /\ q.calls[x].stopped = n.calls[x].stopped
      /\ q.calls[x].block # NoBlock /\ q.calls[x].sent = n.calls[x].sent
      /\ q.calls[x].named = (n.calls[x].named \/ chunk.named)
      /\ q.calls[x].args = IF chunk.args THEN Append(n.calls[x].args, k) ELSE n.calls[x].args
      /\ \A p \in Spoken : q.block[p] \in {NoBlock, n.block[p]}
  <2> HIDE DEF q
  <2> QED BY <1>2 DEF WithPiece
<1>4. Part(n, chunk, k) = IF chunk.finish THEN Then(passed, StoppedFirst(passed.norm, x)) ELSE passed
  BY DEF Part
<1>5. passed.norm = r /\ passed.out = applied.out \o passing.out
  BY DEF Then, Became
<1> HIDE DEF applied, passed
<1>6. StartedCalls(q) = StartedCalls(n) /\ StoppedCalls(q) = StoppedCalls(n) /\ Ended(q) = Ended(n)
  BY <1>3 DEF StartedCalls, StoppedCalls, Ended
<1>7. /\ after = told \/ (after = StartedCalls(n) /\ ~n.calls[x].started)
      /\ told \subseteq StartedCalls(n) /\ after \subseteq StartedCalls(n)
  <2>1. ~n.calls[x].started \/ n.calls[x].block # NoBlock
    BY <1>1 DEF Numbered, CallNumbered
  <2>2. told \subseteq StartedCalls(n)
    BY <1>1, ToldStarted
  <2> QED BY <2>1, <2>2 DEF PieceTold, ShutTold
<1>8. PICK b \in Reading : /\ Plays(applied.out, a, b) /\ Unspoken(a.events, b.events)
                           /\ Keeps(b, q, after, ordered, lost)
  BY <1>2 DEF Moves
<1>9. /\ ordered => x \notin after
      /\ q.calls[x].started \/ StartedCalls(q) \ after \subseteq lost
      /\ ~q.calls[x].stopped /\ q.calls[x].block # NoBlock
  BY <1>3, <1>6, <1>7 DEF StartedCalls
<1> HIDE DEF q, after
<1>10. Keeps(b, q, after, ordered, lost)
  BY <1>8
<1>11. /\ passing.out \in Seq(AnEvent) /\ Moves(passing.out, b, r, now, ordered, lost)
       /\ OneCall(q, r, x) /\ ~r.calls[x].stopped
       /\ r.calls[x].named = q.calls[x].named /\ r.calls[x].args = q.calls[x].args
       /\ r.calls[x].started <=> q.calls[x].started \/ q.calls[x].named
       /\ q.calls[x].named => r.calls[x].sent = Len(q.calls[x].args)
  <2> HIDE DEF x
  <2>1. ordered => x \notin after
    BY <1>9
  <2>2. q.calls[x].started \/ StartedCalls(q) \ after \subseteq lost
    BY <1>9
  <2>3. x \in Calls /\ ~q.calls[x].stopped /\ q.calls[x].block # NoBlock
    BY <1>1, <1>9
  <2>4. LET s == PassedOn(q, x)
        IN /\ s.out \in Seq(AnEvent) /\ Moves(s.out, b, s.norm, PassedTold(q, x, after), ordered, lost)
           /\ OneCall(q, s.norm, x) /\ ~s.norm.calls[x].stopped
           /\ s.norm.calls[x].named = q.calls[x].named
           /\ s.norm.calls[x].args = q.calls[x].args
           /\ s.norm.calls[x].started <=> q.calls[x].started \/ q.calls[x].named
           /\ q.calls[x].named => s.norm.calls[x].sent = Len(q.calls[x].args)
    <3>1. ordered \in BOOLEAN
      OBVIOUS
    <3> QED BY ONLY <1>10, <2>1, <2>2, <2>3, <3>1, PassedOnPlays
  <2> QED BY <2>4
<1>12. /\ now \in {after, StartedCalls(q)}
       /\ now = after \/ ~q.calls[x].started
  BY DEF now, PassedTold, SentTold
<1> HIDE DEF passing, now
<1>13. passed.out \in Seq(AnEvent)
  BY <1>2, <1>5, <1>11
<1>14. Moves(passed.out, a, r, now, ordered, lost)
  BY <1>1, <1>2, <1>5, <1>8, <1>11, MovesOn
<1> HIDE DEF r
<1>15. /\ StoppedCalls(r) = StoppedCalls(n) /\ StartedCalls(n) \subseteq StartedCalls(r)
       /\ Ended(r) \subseteq Ended(n) \cup {x}
  <2>1. StoppedCalls(r) = StoppedCalls(q) /\ StartedCalls(q) \subseteq StartedCalls(r)
    BY <1>9, <1>11 DEF StoppedCalls, StartedCalls, OneCall
  <2>2. Ended(r) \subseteq Ended(q) \cup {x}
    BY <1>11 DEF Ended, OneCall
  <2> QED BY <1>6, <2>1, <2>2
<1>16. now \subseteq StartedCalls(r) /\ PieceTells(n, x, r, told, now, FALSE)
  <2>1. now \subseteq StartedCalls(n) /\ told \subseteq now
    BY <1>6, <1>7, <1>12
  <2>2. now \subseteq told \cup (StartedCalls(n) \ {x})
    BY <1>3, <1>6, <1>7, <1>12 DEF StartedCalls
  <2> QED BY <1>1, <1>15, <2>1, <2>2 DEF PieceTells
<1>17. TookPart(n, r, chunk, k)
  <2>1. r \in ANorm /\ r.next <= n.next + 1 /\ r.block = q.block
    BY <1>3, <1>11 DEF OneCall
  <2>2. ASSUME NEW c \in Calls
        PROVE  LET mine == chunk.part = "tool" /\ chunk.call = c
               IN /\ r.calls[c].named <=> n.calls[c].named \/ (mine /\ chunk.named)
                  /\ r.calls[c].args = IF mine /\ chunk.args THEN Append(n.calls[c].args, k)
                                       ELSE n.calls[c].args
                  /\ c \in Ended(r) => c \in Ended(n) \/ mine
                  /\ n.calls[c].stopped => r.calls[c].stopped
    <3>1. CASE c = x
      BY <1>3, <1>11, <3>1
    <3>2. CASE c # x
      <4>1. r.calls[c] = n.calls[c]
        BY <1>3, <1>11, <3>2 DEF OneCall
      <4> QED BY <1>15, <3>2, <4>1
    <3> QED BY <3>1, <3>2
  <2>3. \A p \in Spoken : r.block[p] \in {NoBlock, n.block[p]}
    BY <1>3, <2>1
  <2>4. Settled(n) => Settled(r)
    <3> SUFFICES ASSUME Settled(n), NEW c \in Calls
                 PROVE  /\ r.calls[c].started <=> r.calls[c].named
                        /\ r.calls[c].started => r.calls[c].sent = Len(r.calls[c].args)
      BY DEF Settled
    <3>1. CASE c = x
      <4>1. q.calls[x].started => q.calls[x].named
        BY <1>1, <1>3 DEF Settled
      <4> QED BY <1>11, <3>1, <4>1
    <3>2. CASE c # x
      <4>1. r.calls[c] = n.calls[c]
        BY <1>3, <1>11, <3>2 DEF OneCall
      <4> QED BY <4>1 DEF Settled
    <3> QED BY <3>1, <3>2
  <2> QED BY <2>1, <2>2, <2>3, <2>4 DEF TookPart
<1>18. CASE ~chunk.finish
  <2>1. Part(n, chunk, k) = passed
    BY <1>4, <1>18
  <2>2. PieceTells(n, x, r, told, now, chunk.finish)
    BY <1>16, <1>18 DEF PieceTells
  <2> HIDE DEF x
  <2>3. \E t \in SUBSET StartedCalls(r) :
           Moves(passed.out, a, r, t, ordered, lost) /\ PieceTells(n, x, r, told, t, chunk.finish)
    BY <1>14, <1>16, <2>2
  <2> QED BY <1>5, <1>13, <1>17, <2>1, <2>3 DEF x
<1>19. CASE chunk.finish
  <2>1. PICK c \in Reading : /\ Plays(passed.out, a, c) /\ Unspoken(a.events, c.events)
                             /\ Keeps(c, r, now, ordered, lost)
    BY <1>14 DEF Moves
  <2> DEFINE m == first.norm
             last == StopTold(r, Ended(r) \cap {x}, now)
  <2>2. Keeps(c, r, now, ordered, lost)
    BY <2>1
  <2>3. /\ first.out \in Seq(AnEvent) /\ Moves(first.out, c, m, last, ordered, lost)
        /\ Ends(r, m, Ended(r) \cap {x})
    BY <1>1, <2>2, FirstPlays
  <2>4. Part(n, chunk, k) = Then(passed, first)
    BY <1>4, <1>5, <1>19
  <2> HIDE DEF first
  <2>5. Then(passed, first).norm = m /\ Then(passed, first).out = passed.out \o first.out
    BY ThenIs
  <2>6. Part(n, chunk, k).norm = m /\ Part(n, chunk, k).out = passed.out \o first.out
    BY <2>4, <2>5
  <2>7. Moves(passed.out \o first.out, a, m, last, ordered, lost)
        /\ passed.out \o first.out \in Seq(AnEvent)
    BY <1>1, <1>13, <2>1, <2>3, MovesOn
  <2> HIDE DEF m
  <2>8. TookPart(n, m, chunk, k)
    <3>1. /\ m \in ANorm /\ m.next = r.next /\ m.block = r.block
          /\ \A c1 \in Calls : /\ m.calls[c1].named = r.calls[c1].named
                               /\ m.calls[c1].args = r.calls[c1].args
                               /\ r.calls[c1].stopped => m.calls[c1].stopped
      BY <2>3 DEF Ends
    <3>2. Settled(r) => Settled(m)
      BY <2>3 DEF Settled, Ends
    <3>3. Ended(m) \subseteq Ended(r)
      BY <2>3 DEF Ended, Ends
    <3> QED BY <1>17, <1>19, <3>1, <3>2, <3>3 DEF TookPart
  <2>9. last \subseteq StartedCalls(m) /\ StoppedCalls(m) \subseteq last
    <3>1. StoppedCalls(m) = StoppedCalls(r) \cup (Ended(r) \cap {x}) /\ StartedCalls(m) = StartedCalls(r)
      <4>1. Ended(r) \subseteq Calls
        BY DEF Ended
      <4> QED BY <2>3, <4>1 DEF Ends, StoppedCalls, StartedCalls
    <3>2. Numbered(r)
      BY <2>2 DEF Keeps
    <3>3. StoppedCalls(r) \subseteq now
      BY <1>16 DEF PieceTells
    <3> QED BY <1>16, <3>1, <3>2, <3>3, StartedOrStopped DEF last, StopTold
  <2> HIDE DEF last, x
  <2>10. PieceTells(n, x, m, told, last, chunk.finish)
    BY <1>19, <2>9 DEF PieceTells
  <2>11. \E t \in SUBSET StartedCalls(m) :
            /\ Moves(passed.out \o first.out, a, m, t, ordered, lost)
            /\ PieceTells(n, x, m, told, t, chunk.finish)
    BY <2>7, <2>9, <2>10
  <2> QED BY <2>6, <2>7, <2>8, <2>11 DEF x
<1> QED BY <1>18, <1>19

(* A reading of the chunks s, that n holds for, comes of the events out,    *)
(* and has told no call but of most.                                       *)
Hears(out, a, n, most, ordered, lost, s) ==
    \E b \in Reading : \E told \in SUBSET most :
        Plays(out, a, b) /\ Tidy(b, n, told, ordered, lost) /\ Texts(b.events, s)

(* What a provider may say: of a call that has been told only where pieces  *)
(* may come apart, and of a new one only what is open may be lost.          *)
MayHear(n, chunk, told, ordered, lost) ==
    /\ chunk.part = "none" => chunk.finish
    /\ chunk.part \in Spoken => ~chunk.finish
    /\ chunk.part = "tool" =>
          /\ chunk.call \in Calls /\ ~n.calls[chunk.call].stopped
          /\ ordered => chunk.call \notin told
          /\ n.calls[chunk.call].started \/ StartedCalls(n) \ told \subseteq lost

LEMMA HearsOn ==
    ASSUME NEW s \in Seq(AnEvent), NEW t \in Seq(AnEvent), NEW a \in Reading, NEW b \in Reading,
           NEW n, NEW most, NEW ordered, NEW lost, NEW said0, Plays(s, a, b),
           Hears(t, b, n, most, ordered, lost, said0)
    PROVE  Hears(s \o t, a, n, most, ordered, lost, said0)
<1>1. PICK c \in Reading : \E told \in SUBSET most :
         Plays(t, b, c) /\ Tidy(c, n, told, ordered, lost) /\ Texts(c.events, said0)
  BY DEF Hears
<1>2. Plays(s \o t, a, c)
  BY <1>1, PlaysBoth
<1> QED BY <1>1, <1>2 DEF Hears

LEMMA HearsMore ==
    ASSUME NEW out, NEW a, NEW n, NEW most, NEW more, NEW ordered, NEW lost, NEW s,
           Hears(out, a, n, most, ordered, lost, s), most \subseteq more
    PROVE  Hears(out, a, n, more, ordered, lost, s)
<1>1. SUBSET most \subseteq SUBSET more
  OBVIOUS
<1> QED BY <1>1 DEF Hears

LEMMA HearsNothing ==
    ASSUME NEW a \in Reading, NEW n, NEW most, NEW told \in SUBSET most, NEW ordered, NEW lost, NEW s,
           Tidy(a, n, told, ordered, lost), Texts(a.events, s)
    PROVE  Hears(<<>>, a, n, most, ordered, lost, s)
BY PlaysNothing DEF Hears

LEMMA MovesHears ==
    ASSUME NEW out, NEW a \in Reading, NEW n, NEW most, NEW told \in SUBSET most, NEW ordered, NEW lost,
           Moves(out, a, n, told, ordered, lost), StoppedCalls(n) \subseteq told,
           NEW s \in Seq(Chunk), Texts(a.events, s), NEW chunk \in Chunk, chunk.part \notin Spoken
    PROVE  Hears(out, a, n, most, ordered, lost, Append(s, chunk))
<1>1. PICK b \in Reading : /\ Plays(out, a, b) /\ Keeps(b, n, told, ordered, lost)
                           /\ Unspoken(a.events, b.events)
  BY DEF Moves
<1>2. a.events \in Seq(AReport) /\ b.events \in Seq(AReport)
  BY ReadingParts
<1>3. Texts(b.events, s)
  BY <1>1, <1>2, TextsKept
<1>4. Texts(b.events, Append(s, chunk))
  BY <1>2, <1>3, TextsSilent
<1> QED BY <1>1, <1>4 DEF Hears, Tidy

LEMMA SpeaksHears ==
    ASSUME NEW out, NEW a \in Reading, NEW n, NEW most, NEW told \in SUBSET most, NEW ordered, NEW lost,
           NEW s \in Seq(Chunk), Texts(a.events, s), NEW chunk \in Chunk, chunk.part \in Spoken,
           Speaks(out, a, n, told, ordered, lost, chunk.part, Len(s) + 1),
           StoppedCalls(n) \subseteq told
    PROVE  Hears(out, a, n, most, ordered, lost, Append(s, chunk))
<1>1. PICK b \in Reading : \E es \in Seq(AReport) :
        /\ Plays(out, a, b) /\ Keeps(b, n, told, ordered, lost)
        /\ Unspoken(a.events, es)
        /\ b.events = Append(es, Said(chunk.part, NoTool, <<Len(s) + 1>>))
  BY DEF Speaks
<1>2. PICK es \in Seq(AReport) :
        /\ Plays(out, a, b) /\ Keeps(b, n, told, ordered, lost)
        /\ Unspoken(a.events, es)
        /\ b.events = Append(es, Said(chunk.part, NoTool, <<Len(s) + 1>>))
  BY <1>1
<1>3. Texts(es, s)
  BY <1>2, ReadingParts, TextsKept
<1>4. Texts(b.events, Append(s, chunk))
  BY <1>2, <1>3, TextsSpoken
<1> QED BY <1>2, <1>4 DEF Hears, Tidy

(* The end of a chunk.                                                     *)
Rest(n, finish) == IF finish THEN Stopped(n) ELSE Became(n, <<>>)

LEMMA ChunkPlays ==
    ASSUME NEW a \in Reading, NEW n, NEW told, NEW ordered \in BOOLEAN, NEW lost,
           Tidy(a, n, told, ordered, lost), n.started,
           NEW s \in Seq(Chunk), n.next <= Len(s), Len(s) < MaxSaid, Texts(a.events, s),
           NEW chunk \in Chunk, MayHear(n, chunk, told, ordered, lost)
    PROVE  LET part == Part(n, chunk, Len(s) + 1)
               rest == Rest(part.norm, chunk.finish)
               most == Behind(n, told, rest.norm, chunk)
           IN /\ part.out \in Seq(AnEvent) /\ rest.out \in Seq(AnEvent)
              /\ \E b \in Reading :
                    /\ Plays(part.out, a, b)
                    /\ Hears(rest.out, b, rest.norm, most, ordered, lost, Append(s, chunk))
              /\ Took(n, rest.norm, chunk, Len(s) + 1)
<1> DEFINE k == Len(s) + 1
           part == Part(n, chunk, k)
           rest == Rest(part.norm, chunk.finish)
           most == Behind(n, told, rest.norm, chunk)
<1>1. /\ n \in ANorm /\ n.next \in Nat /\ Len(s) \in Nat /\ MaxSaid \in Nat /\ k \in Pieces
      /\ n.next \in Blocks
  <2>1. n \in ANorm /\ n.next \in Nat
    BY NormParts DEF Tidy, Keeps, Numbered
  <2>2. MaxSaid \in Nat /\ MaxCalls \in Nat /\ Len(s) \in Nat
    BY RetriesAssumption
  <2> QED BY <2>1, <2>2 DEF Pieces, Blocks
<1>2. chunk.part \in {"text", "thinking", "tool", "none"} /\ chunk.finish \in BOOLEAN
      /\ <<>> \in Seq(AnEvent) /\ Tidy(a, n, told, ordered, lost) /\ ordered \in BOOLEAN
  BY DEF Chunk
<1> HIDE DEF k
<1>3. CASE chunk.part = "none"
  <2>1. chunk.finish /\ chunk.part \notin Spoken
    BY <1>3 DEF MayHear, Spoken
  <2>2. part.norm = n /\ part.out = <<>>
    BY <1>3 DEF Part, Became
  <2>3. rest = Stopped(n)
    BY <2>1, <2>2 DEF Rest
  <2> HIDE DEF part, rest
  <2>4. LET m == Stopped(n)
        IN /\ m.out \in Seq(AnEvent) /\ Settles(m.out, a, m.norm, ordered, lost)
           /\ Took(n, m.norm, chunk, k)
    BY ONLY <1>2, <1>3, <2>1, NonePlays, chunk \in Chunk
  <2>5. StoppedCalls(rest.norm) \in SUBSET most
    BY DEF Behind
  <2>6. Moves(rest.out, a, rest.norm, StoppedCalls(rest.norm), ordered, lost)
    BY <2>3, <2>4 DEF Settles
  <2> HIDE DEF most
  <2>7. Hears(rest.out, a, rest.norm, most, ordered, lost, Append(s, chunk))
    BY <2>1, <2>5, <2>6, MovesHears
  <2>8. Plays(part.out, a, a)
    BY <2>2, PlaysNothing
  <2> QED BY <1>2, <2>2, <2>3, <2>4, <2>7, <2>8 DEF part, rest, k, most
<1>4. CASE chunk.part = "tool"
  <2>1. chunk.part \notin Spoken
    BY <1>4 DEF Spoken
  <2> DEFINE x == chunk.call
             r == part.norm
  <2>2. /\ part.out \in Seq(AnEvent) /\ TookPart(n, r, chunk, k)
        /\ \E now \in SUBSET StartedCalls(r) : /\ Moves(part.out, a, r, now, ordered, lost)
                                               /\ PieceTells(n, x, r, told, now, chunk.finish)
    <3>1. x \in Calls /\ ~n.calls[x].stopped
      BY <1>4 DEF MayHear
    <3>2. ordered => x \notin told
      BY <1>4 DEF MayHear
    <3>3. n.calls[x].started \/ StartedCalls(n) \ told \subseteq lost
      BY <1>4 DEF MayHear
    <3>4. n.started /\ chunk \in Chunk
      OBVIOUS
    <3>5. LET s1 == Part(n, chunk, k)
          IN /\ s1.out \in Seq(AnEvent) /\ TookPart(n, s1.norm, chunk, k)
             /\ \E now \in SUBSET StartedCalls(s1.norm) :
                   /\ Moves(s1.out, a, s1.norm, now, ordered, lost)
                   /\ PieceTells(n, chunk.call, s1.norm, told, now, chunk.finish)
      BY ONLY <1>1, <1>2, <1>4, <3>1, <3>2, <3>3, <3>4, ToolPlays DEF x
    <3> HIDE DEF part
    <3> QED BY <3>5 DEF part
  <2> HIDE DEF part
  <2>3. PICK now \in SUBSET StartedCalls(r) : /\ Moves(part.out, a, r, now, ordered, lost)
                                              /\ PieceTells(n, x, r, told, now, chunk.finish)
    BY <2>2
  <2>4. PICK b \in Reading : /\ Plays(part.out, a, b) /\ Keeps(b, r, now, ordered, lost)
                             /\ Unspoken(a.events, b.events)
    BY <2>3 DEF Moves
  <2>5. Tidy(b, r, now, ordered, lost) /\ Texts(b.events, s)
    BY <2>3, <2>4, ReadingParts, TextsKept DEF Tidy, PieceTells
  <2>6. CASE chunk.finish
    <3>1. rest = Stopped(r)
      BY <2>6 DEF Rest
    <3> HIDE DEF r, rest
    <3>2. Tidy(b, r, now, ordered, lost) /\ Numbered(r)
      BY <2>5 DEF Tidy, Keeps
    <3>3. Stopped(r).out \in Seq(AnEvent) /\ Settles(Stopped(r).out, b, Stopped(r).norm, ordered, lost)
      BY ONLY <1>2, <3>2, StoppedSettles
    <3>4. Ends(r, rest.norm, Ended(r)) /\ Ended(rest.norm) = {}
      BY <3>1, <3>2, AllEnd
    <3>5. Moves(rest.out, b, rest.norm, StoppedCalls(rest.norm), ordered, lost)
      BY <3>1, <3>3 DEF Settles
    <3>6. StoppedCalls(rest.norm) \in SUBSET most
      BY DEF Behind
    <3> HIDE DEF most
    <3>7. Hears(rest.out, b, rest.norm, most, ordered, lost, Append(s, chunk))
      BY <2>1, <2>5, <3>5, <3>6, MovesHears
    <3>8. Took(n, rest.norm, chunk, k)
      BY <2>2, <2>6, <3>4, TookWhole
    <3>9. rest.out \in Seq(AnEvent)
      BY <3>1, <3>3
    <3> QED BY <2>2, <2>4, <3>7, <3>8, <3>9 DEF part, rest, k, most
  <2>7. CASE ~chunk.finish
    <3>1. rest.norm = r /\ rest.out = <<>>
      BY <2>7 DEF Rest, Became
    <3>2. \A c \in StartedCalls(n) \ {x} : CallOf(chunk) # c
      BY <1>4 DEF CallOf
    <3>3. now \in SUBSET most
      BY <2>3, <2>7, <3>2 DEF PieceTells, Behind
    <3> HIDE DEF rest, r, most, x
    <3>4. Texts(b.events, Append(s, chunk))
      BY <2>1, <2>5, ReadingParts, TextsSilent
    <3>5. Tidy(b, r, now, ordered, lost)
      BY <2>5
    <3>6. Hears(<<>>, b, r, most, ordered, lost, Append(s, chunk))
      BY <3>3, <3>4, <3>5, HearsNothing
    <3>7. Took(n, r, chunk, k)
      BY <2>2, <2>7, TookWhole
    <3>8. Hears(rest.out, b, rest.norm, most, ordered, lost, Append(s, chunk))
          /\ Took(n, rest.norm, chunk, k) /\ rest.out \in Seq(AnEvent)
      BY <1>2, <3>1, <3>6, <3>7
    <3> QED BY <2>2, <2>4, <3>8 DEF part, rest, k, most
  <2> QED BY <2>6, <2>7
<1>5. CASE chunk.part \in Spoken
  <2>1. ~chunk.finish
    BY <1>5 DEF MayHear
  <2>2. part = Speak(n, chunk.part, k)
    BY <1>5 DEF Part, Spoken
  <2>3. rest.norm = part.norm /\ rest.out = <<>>
    BY <2>1 DEF Rest, Became
  <2> DEFINE after == SpokenTold(n, chunk.part, told)
             all == Behind(n, told, part.norm, chunk)
  <2> HIDE DEF part, rest
  <2>4. LET s1 == Speak(n, chunk.part, k)
            after1 == SpokenTold(n, chunk.part, told)
        IN /\ s1.out \in Seq(AnEvent)
           /\ Speaks(s1.out, a, s1.norm, after1, ordered, lost, chunk.part, k)
           /\ StoppedCalls(s1.norm) \subseteq after1 /\ after1 \subseteq Behind(n, told, s1.norm, chunk)
           /\ Took(n, s1.norm, chunk, k)
    <3>1. n.started /\ chunk \in Chunk
      OBVIOUS
    <3> QED BY ONLY <1>1, <1>2, <1>5, <2>1, <3>1, SpokenPlays
  <2> HIDE DEF all, after
  <2>5. /\ Speaks(part.out, a, part.norm, after, ordered, lost, chunk.part, Len(s) + 1)
        /\ StoppedCalls(part.norm) \subseteq after /\ after \in SUBSET all
    BY <2>2, <2>4 DEF all, after, k
  <2>6. Hears(part.out, a, part.norm, all, ordered, lost, Append(s, chunk))
    BY <1>5, <2>5, SpeaksHears
  <2>7. PICK b \in Reading : \E now \in SUBSET all :
           /\ Plays(part.out, a, b) /\ Tidy(b, part.norm, now, ordered, lost)
           /\ Texts(b.events, Append(s, chunk))
    BY <2>6 DEF Hears
  <2>8. Hears(<<>>, b, part.norm, all, ordered, lost, Append(s, chunk))
    BY <2>7, HearsNothing
  <2>9. most = all
    BY <2>3 DEF all
  <2> HIDE DEF most
  <2>10. Hears(rest.out, b, rest.norm, most, ordered, lost, Append(s, chunk))
         /\ rest.out \in Seq(AnEvent)
    BY <1>2, <2>3, <2>8, <2>9
  <2>11. part.out \in Seq(AnEvent) /\ Took(n, rest.norm, chunk, k)
    BY <2>2, <2>3, <2>4
  <2> QED BY <2>7, <2>10, <2>11 DEF part, rest, k, most
<1> QED BY <1>2, <1>3, <1>4, <1>5 DEF Spoken

(* The message starts, if it has not.                                      *)
LEMMA BegunTidy ==
    ASSUME NEW a, NEW n, NEW told, NEW ordered \in BOOLEAN, NEW lost, Tidy(a, n, told, ordered, lost)
    PROVE  /\ Started(n).out \in Seq(AnEvent)
           /\ Moves(Started(n).out, a, Started(n).norm, told, ordered, lost)
           /\ StoppedCalls(Started(n).norm) \subseteq told
<1> DEFINE m == Started(n).norm
<1>1. n \in ANorm /\ Keeps(a, n, told, ordered, lost) /\ StoppedCalls(n) \subseteq told
  BY DEF Tidy, Keeps, Numbered
<1>2. /\ Started(n).out \in Seq(AnEvent) /\ Moves(Started(n).out, a, m, told, ordered, lost)
      /\ m = [n EXCEPT !.started = TRUE]
  BY <1>1, StartedPlays
<1> HIDE DEF m
<1>3. StoppedCalls(m) = StoppedCalls(n)
  BY <1>1, <1>2 DEF StoppedCalls, ANorm
<1> QED BY <1>1, <1>2, <1>3 DEF m

LEMMA BegunSame ==
    ASSUME NEW n \in ANorm
    PROVE  /\ Started(n).norm.started /\ Started(n).norm.calls = n.calls
           /\ Started(n).norm.next = n.next /\ Started(n).norm.block = n.block
           /\ Ended(Started(n).norm) = Ended(n)
           /\ StoppedCalls(Started(n).norm) = StoppedCalls(n)
           /\ StartedCalls(Started(n).norm) = StartedCalls(n)
<1> DEFINE m == Started(n).norm
<1>1. m = [n EXCEPT !.started = TRUE]
  BY DEF Started, Became
<1> HIDE DEF m
<1>2. m.started /\ m.calls = n.calls /\ m.next = n.next /\ m.block = n.block
  BY <1>1 DEF ANorm
<1> QED BY <1>2 DEF StoppedCalls, StartedCalls, Ended, m

LEMMA TookSame ==
    ASSUME NEW n, NEW q, NEW m, NEW chunk, NEW k, Took(q, m, chunk, k),
           q.calls = n.calls, q.next = n.next, q.block = n.block, Ended(q) = Ended(n)
    PROVE  Took(n, m, chunk, k)
<1>1. Settled(n) => Settled(q)
  BY DEF Settled
<1> QED BY <1>1 DEF Took

(* A chunk.                                                                *)
LEMMA IngestPlays ==
    ASSUME NEW a \in Reading, NEW n, NEW told, NEW ordered \in BOOLEAN, NEW lost,
           Tidy(a, n, told, ordered, lost),
           NEW s \in Seq(Chunk), n.next <= Len(s), Len(s) < MaxSaid, Texts(a.events, s),
           NEW chunk \in Chunk, MayHear(n, chunk, told, ordered, lost)
    PROVE  LET m == Ingest(n, chunk, Len(s) + 1)
               most == Behind(n, told, m.norm, chunk)
           IN /\ m.out \in Seq(AnEvent)
              /\ Hears(m.out, a, m.norm, most, ordered, lost, Append(s, chunk))
              /\ Took(n, m.norm, chunk, Len(s) + 1)
<1> DEFINE k == Len(s) + 1
           begun == Started(n)
           n1 == begun.norm
           part == Part(n1, chunk, k)
           rest == Rest(part.norm, chunk.finish)
           most == Behind(n1, told, rest.norm, chunk)
<1>1. Ingest(n, chunk, k) = Then(Then(begun, part), rest)
  BY DEF Ingest, Rest
<1>2. begun.out \in Seq(AnEvent) /\ Moves(begun.out, a, n1, told, ordered, lost)
      /\ StoppedCalls(n1) \subseteq told
  BY BegunTidy
<1>3. /\ n1.started /\ n1.calls = n.calls /\ n1.next = n.next /\ n1.block = n.block
      /\ Ended(n1) = Ended(n) /\ StoppedCalls(n1) = StoppedCalls(n) /\ StartedCalls(n1) = StartedCalls(n)
  <2>1. n \in ANorm
    BY DEF Tidy, Keeps, Numbered
  <2> QED BY <2>1, BegunSame
<1> HIDE DEF begun
<1>4. PICK b \in Reading : /\ Plays(begun.out, a, b) /\ Keeps(b, n1, told, ordered, lost)
                           /\ Unspoken(a.events, b.events)
  BY <1>2 DEF Moves
<1>5. Texts(b.events, s)
  BY <1>4, ReadingParts, TextsKept
<1>6. MayHear(n1, chunk, told, ordered, lost)
  BY <1>3 DEF MayHear
<1>7. most = Behind(n, told, rest.norm, chunk)
  BY <1>3 DEF Behind
<1> HIDE DEF n1
<1>8. Tidy(b, n1, told, ordered, lost)
  BY <1>2, <1>4 DEF Tidy
<1>9. LET part1 == Part(n1, chunk, Len(s) + 1)
          rest1 == Rest(part1.norm, chunk.finish)
          most1 == Behind(n1, told, rest1.norm, chunk)
      IN /\ part1.out \in Seq(AnEvent) /\ rest1.out \in Seq(AnEvent)
         /\ \E c \in Reading :
               /\ Plays(part1.out, b, c)
               /\ Hears(rest1.out, c, rest1.norm, most1, ordered, lost, Append(s, chunk))
         /\ Took(n1, rest1.norm, chunk, Len(s) + 1)
  <2>1. /\ ordered \in BOOLEAN /\ s \in Seq(Chunk) /\ Len(s) < MaxSaid /\ chunk \in Chunk
        /\ n1.started /\ n1.next <= Len(s) /\ b \in Reading
    BY <1>3
  <2> QED BY ONLY <1>5, <1>6, <1>8, <2>1, ChunkPlays
<1>10. /\ part.out \in Seq(AnEvent) /\ rest.out \in Seq(AnEvent)
       /\ \E c \in Reading : /\ Plays(part.out, b, c)
                             /\ Hears(rest.out, c, rest.norm, most, ordered, lost, Append(s, chunk))
       /\ Took(n1, rest.norm, chunk, k)
  BY <1>9
<1> HIDE DEF part, rest, most
<1>11. PICK c \in Reading : /\ Plays(part.out, b, c)
                            /\ Hears(rest.out, c, rest.norm, most, ordered, lost, Append(s, chunk))
  BY <1>10
<1> DEFINE one == Then(begun, part)
<1>12. one.out = begun.out \o part.out
  BY ThenIs
<1>13. Then(one, rest).norm = rest.norm /\ Then(one, rest).out = one.out \o rest.out
  BY ThenIs
<1> HIDE DEF one
<1>14. one.out \in Seq(AnEvent) /\ Plays(one.out, a, c)
  BY <1>2, <1>4, <1>10, <1>11, <1>12, PlaysBoth
<1>15. one.out \o rest.out \in Seq(AnEvent)
  BY <1>10, <1>14
<1>16. Hears(one.out \o rest.out, a, rest.norm, most, ordered, lost, Append(s, chunk))
  BY <1>10, <1>11, <1>14, HearsOn
<1>17. Took(n, rest.norm, chunk, k)
  BY <1>3, <1>10, TookSame
<1>18. Ingest(n, chunk, k) = Then(one, rest)
  BY <1>1 DEF one
<1> QED BY <1>7, <1>13, <1>15, <1>16, <1>17, <1>18 DEF k

(* Whatever is open of some parts, and then every call, is stopped.         *)
LEMMA ShutStops ==
    ASSUME NEW a, NEW n, NEW told, NEW ordered \in BOOLEAN, NEW lost,
           Tidy(a, n, told, ordered, lost), NEW parts \in SUBSET Spoken
    PROVE  LET shut  == Shut(n, parts)
               stops == Stopped(shut.norm)
           IN /\ shut.out \in Seq(AnEvent) /\ stops.out \in Seq(AnEvent)
              /\ \E c \in Reading : /\ Plays(shut.out, a, c) /\ Unspoken(a.events, c.events)
                                    /\ Settles(stops.out, c, stops.norm, ordered, lost)
              /\ Ends(shut.norm, stops.norm, Ended(shut.norm)) /\ Ended(stops.norm) = {}
<1> DEFINE shut == Shut(n, parts)
           q == shut.norm
           stops == Stopped(q)
           m == stops.norm
           after == ShutTold(n, parts, told)
<1>1. /\ Numbered(n) /\ n \in ANorm /\ Keeps(a, n, told, ordered, lost)
      /\ StoppedCalls(n) \subseteq told /\ ordered \in BOOLEAN
  BY DEF Tidy, Keeps, Numbered
<1>2. shut.out \in Seq(AnEvent) /\ Moves(shut.out, a, q, after, ordered, lost)
  BY <1>1, ShutPlays
<1>3. q.calls = n.calls
  BY <1>1, ShutNorm
<1>4. StoppedCalls(q) = StoppedCalls(n) /\ StoppedCalls(n) \subseteq after
  BY <1>1, <1>3, StartedOrStopped DEF StoppedCalls, ShutTold
<1> HIDE DEF shut, after
<1>5. PICK c \in Reading : /\ Plays(shut.out, a, c) /\ Keeps(c, q, after, ordered, lost)
                           /\ Unspoken(a.events, c.events)
  BY <1>2 DEF Moves
<1> HIDE DEF q
<1>6. Tidy(c, q, after, ordered, lost) /\ Numbered(q)
  BY <1>4, <1>5 DEF Tidy, Keeps
<1>7. stops.out \in Seq(AnEvent) /\ Settles(stops.out, c, m, ordered, lost)
  BY ONLY <1>1, <1>6, StoppedSettles
<1>8. Ends(q, m, Ended(q)) /\ Ended(m) = {}
  BY <1>6, AllEnd
<1> QED BY <1>2, <1>5, <1>7, <1>8 DEF shut, q, stops, m

(* While a call is open, of a provider that narrates, nothing else is; and  *)
(* what is told has been stopped.                                          *)
Apart(n) == Ended(n) = {} \/ \A p \in Spoken : n.block[p] = NoBlock

Closed(a, n, ordered, lost) == Tidy(a, n, StoppedCalls(n), ordered, lost)

TookNarrated(n, m, chunk, k) ==
    /\ m \in ANorm /\ m.next <= n.next + 1
    /\ \A c \in Calls :
          LET mine == chunk.part = "tool" /\ chunk.call = c
          IN /\ m.calls[c].named <=> n.calls[c].named \/ (mine /\ chunk.named)
             /\ m.calls[c].args = IF mine /\ chunk.args THEN Append(n.calls[c].args, k)
                                  ELSE n.calls[c].args
    /\ Apart(m)
    /\ Settled(n) => Settled(m)

LEMMA SettlesCloses ==
    ASSUME NEW out, NEW a, NEW n, NEW ordered, NEW lost, Settles(out, a, n, ordered, lost)
    PROVE  \E b \in Reading : /\ Plays(out, a, b) /\ Closed(b, n, ordered, lost)
                              /\ Unspoken(a.events, b.events)
BY DEF Settles, Moves, Closed, Tidy

(* What comes before a chunk of a provider that narrates.                  *)
LEMMA ReadyPlays ==
    ASSUME NEW a \in Reading, NEW n, NEW ordered \in BOOLEAN, NEW lost, Closed(a, n, ordered, lost),
           Apart(n), NEW chunk \in Chunk, chunk.part # "none", ~chunk.finish,
           chunk.part = "tool" => chunk.call \in Calls /\ ~n.calls[chunk.call].stopped
    PROVE  LET others == Shut(n, Spoken \ {chunk.part})
               before == IF chunk.part = "tool" /\ n.calls[chunk.call].started
                         THEN Became(others.norm, <<>>) ELSE Stopped(others.norm)
               m == before.norm
           IN /\ others.out \in Seq(AnEvent) /\ before.out \in Seq(AnEvent)
              /\ \E c \in Reading : /\ Plays(others.out, a, c) /\ Unspoken(a.events, c.events)
                                    /\ Settles(before.out, c, m, ordered, lost)
              /\ m \in ANorm /\ m.next = n.next /\ (Settled(n) => Settled(m))
              /\ \A c \in Calls : /\ m.calls[c].named = n.calls[c].named
                                  /\ m.calls[c].args = n.calls[c].args
              /\ chunk.part = "tool" => \A p \in Spoken : m.block[p] = NoBlock
              /\ \A c \in Ended(m) : CallOf(chunk) = c
              /\ MayHear(m, chunk, StoppedCalls(m), ordered, lost)
<1> DEFINE parts == Spoken \ {chunk.part}
           others == Shut(n, parts)
           q == others.norm
           goes == chunk.part = "tool" /\ n.calls[chunk.call].started
           before == IF goes THEN Became(q, <<>>) ELSE Stopped(q)
           m == before.norm
           told == StoppedCalls(n)
<1>1. /\ Numbered(n) /\ n \in ANorm /\ parts \in SUBSET Spoken /\ <<>> \in Seq(AnEvent)
      /\ Keeps(a, n, told, ordered, lost) /\ Tidy(a, n, told, ordered, lost)
      /\ ordered \in BOOLEAN
  BY DEF Closed, Tidy, Keeps, Numbered
<1>2. /\ q \in ANorm /\ q.calls = n.calls /\ q.next = n.next /\ q.started = n.started
      /\ \A p \in Spoken : q.block[p] = IF p \in parts THEN NoBlock ELSE n.block[p]
  BY <1>1, ShutNorm
<1>3. chunk.part = "tool" => \A p \in Spoken : p \in parts
  BY DEF Spoken
<1> HIDE DEF parts, told
<1>4. others.out \in Seq(AnEvent) /\ Moves(others.out, a, q, ShutTold(n, parts, told), ordered, lost)
  BY <1>1, ShutPlays
<1> HIDE DEF q
<1>5. (Settled(n) => Settled(q)) /\ StoppedCalls(q) = told /\ Ended(q) = Ended(n)
  BY <1>2 DEF Settled, StoppedCalls, Ended, told
<1>6. CASE goes
  <2>1. before.norm = q /\ before.out = <<>>
    BY <1>6 DEF Became
  <2>2. chunk.call \in Ended(n)
    BY <1>6 DEF Ended
  <2>3. ShutTold(n, parts, told) = told
    BY <1>1, <2>2 DEF Apart, ShutTold
  <2>4. PICK c \in Reading : /\ Plays(others.out, a, c) /\ Keeps(c, q, told, ordered, lost)
                             /\ Unspoken(a.events, c.events)
    BY <1>4, <2>3 DEF Moves
  <2>5. Settles(<<>>, c, q, ordered, lost)
    BY <1>5, <2>4, MovesNot DEF Settles
  <2>6. \A p \in Spoken : q.block[p] = NoBlock
    BY <1>2, <1>3, <1>6
  <2>7. chunk.part \notin Spoken
    BY <1>6 DEF Spoken
  <2>8. MayHear(q, chunk, StoppedCalls(q), ordered, lost)
    <3>1. chunk.call \in Calls /\ ~q.calls[chunk.call].stopped /\ q.calls[chunk.call].started
      BY <1>2, <1>6
    <3>2. chunk.call \notin StoppedCalls(q)
      BY <3>1 DEF StoppedCalls
    <3> QED BY <1>6, <2>7, <3>1, <3>2 DEF MayHear
  <2>9. \A c1 \in Ended(q) : CallOf(chunk) = c1
    <3>1. Assembled(a.tool, n, told, ordered)
      BY <1>1 DEF Keeps, Holds
    <3>2. \A c1, c2 \in Ended(n) : c1 = c2
      BY <1>1, <3>1, StartedOrStopped DEF Assembled, told
    <3>3. CallOf(chunk) = chunk.call
      BY <1>6 DEF CallOf
    <3> QED BY <1>5, <2>2, <3>2, <3>3
  <2> HIDE DEF before, others
  <2>10. /\ others.out \in Seq(AnEvent) /\ before.out \in Seq(AnEvent)
         /\ \E c1 \in Reading : /\ Plays(others.out, a, c1) /\ Unspoken(a.events, c1.events)
                                /\ Settles(before.out, c1, m, ordered, lost)
    BY <1>1, <1>4, <2>1, <2>4, <2>5
  <2>11. /\ m \in ANorm /\ m.next = n.next /\ (Settled(n) => Settled(m))
         /\ \A c1 \in Calls : /\ m.calls[c1].named = n.calls[c1].named
                              /\ m.calls[c1].args = n.calls[c1].args
         /\ chunk.part = "tool" => \A p \in Spoken : m.block[p] = NoBlock
    BY <1>2, <1>5, <2>1, <2>6
  <2>12. (\A c1 \in Ended(m) : CallOf(chunk) = c1)
         /\ MayHear(m, chunk, StoppedCalls(m), ordered, lost)
    BY <2>1, <2>8, <2>9
  <2> HIDE DEF m
  <2> QED BY <2>10, <2>11, <2>12 DEF before, others, parts, q, m
<1>7. CASE ~goes
  <2>1. before = Stopped(q)
    BY <1>7
  <2>2. LET shut  == Shut(n, parts)
            stops == Stopped(shut.norm)
        IN /\ shut.out \in Seq(AnEvent) /\ stops.out \in Seq(AnEvent)
           /\ \E c \in Reading : /\ Plays(shut.out, a, c) /\ Unspoken(a.events, c.events)
                                 /\ Settles(stops.out, c, stops.norm, ordered, lost)
           /\ Ends(shut.norm, stops.norm, Ended(shut.norm)) /\ Ended(stops.norm) = {}
    BY ONLY <1>1, ShutStops
  <2> HIDE DEF before
  <2>3. /\ others.out \in Seq(AnEvent) /\ before.out \in Seq(AnEvent)
        /\ \E c \in Reading : /\ Plays(others.out, a, c) /\ Unspoken(a.events, c.events)
                              /\ Settles(before.out, c, m, ordered, lost)
        /\ Ends(q, m, Ended(q)) /\ Ended(m) = {}
    BY <2>1, <2>2 DEF q
  <2> HIDE DEF others, m
  <2>4. /\ m \in ANorm /\ m.next = n.next /\ (Settled(n) => Settled(m))
        /\ \A c \in Calls : /\ m.calls[c].named = n.calls[c].named
                            /\ m.calls[c].args = n.calls[c].args
        /\ m.block = q.block
    <3>1. Settled(q) => Settled(m)
      BY <2>3 DEF Settled, Ends
    <3> QED BY <1>2, <1>5, <2>3, <3>1 DEF Ends
  <2>5. chunk.part = "tool" => \A p \in Spoken : m.block[p] = NoBlock
    BY <1>2, <1>3, <2>4
  <2>6. MayHear(m, chunk, StoppedCalls(m), ordered, lost)
    <3>1. chunk.part = "tool" => chunk.call \in Calls /\ ~m.calls[chunk.call].stopped
      BY <1>2, <1>7, <2>3 DEF Ends, Ended
    <3>2. chunk.part = "tool" => chunk.call \notin StoppedCalls(m)
      BY <3>1 DEF StoppedCalls
    <3>3. StartedCalls(m) \ StoppedCalls(m) = {}
      BY <2>3 DEF StartedCalls, StoppedCalls, Ended
    <3> QED BY <3>1, <3>2, <3>3 DEF MayHear
  <2>7. \A c \in Ended(m) : CallOf(chunk) = c
    BY <2>3
  <2> QED BY <2>3, <2>4, <2>5, <2>6, <2>7 DEF before, others, m, parts, q
<1> QED BY <1>6, <1>7

(* A chunk of a provider that narrates.                                    *)
LEMMA NarratedPlays ==
    ASSUME NEW a \in Reading, NEW n, NEW ordered \in BOOLEAN, NEW lost, Closed(a, n, ordered, lost),
           Apart(n), NEW s \in Seq(Chunk), n.next <= Len(s), Len(s) < MaxSaid, Texts(a.events, s),
           NEW chunk \in Chunk, chunk.part # "none", ~chunk.finish,
           chunk.part = "tool" => chunk.call \in Calls /\ ~n.calls[chunk.call].stopped
    PROVE  LET m == Narrated(n, chunk, Len(s) + 1)
           IN /\ m.out \in Seq(AnEvent)
              /\ Hears(m.out, a, m.norm, StoppedCalls(m.norm), ordered, lost, Append(s, chunk))
              /\ TookNarrated(n, m.norm, chunk, Len(s) + 1)
<1> DEFINE k == Len(s) + 1
           begun == Started(n)
           n1 == begun.norm
           others == Shut(n1, Spoken \ {chunk.part})
           before == IF chunk.part = "tool" /\ n.calls[chunk.call].started
                     THEN Became(others.norm, <<>>) ELSE Stopped(others.norm)
           n2 == before.norm
           taken == Ingest(n2, chunk, k)
           m == taken.norm
           one == Then(begun, others)
           two == Then(one, before)
           told == StoppedCalls(n2)
           most == Behind(n2, told, m, chunk)
<1>1. Narrated(n, chunk, k) = Then(two, taken)
  BY DEF Narrated
<1>2. begun.out \in Seq(AnEvent) /\ Moves(begun.out, a, n1, StoppedCalls(n), ordered, lost)
  BY BegunTidy DEF Closed
<1>3. /\ n1.started /\ n1.calls = n.calls /\ n1.next = n.next /\ n1.block = n.block
      /\ Ended(n1) = Ended(n) /\ StoppedCalls(n1) = StoppedCalls(n)
  <2>1. n \in ANorm
    BY DEF Closed, Tidy, Keeps, Numbered
  <2> QED BY <2>1, BegunSame
<1>4. one.out = begun.out \o others.out /\ two.out = one.out \o before.out
  BY ThenIs
<1>5. Then(two, taken).norm = taken.norm /\ Then(two, taken).out = two.out \o taken.out
  <2> HIDE DEF two, taken
  <2> QED BY ThenIs
<1>6. others = Shut(n1, Spoken \ {chunk.part})
      /\ before = IF chunk.part = "tool" /\ n1.calls[chunk.call].started
                  THEN Became(others.norm, <<>>) ELSE Stopped(others.norm)
  BY <1>3
<1> HIDE DEF begun, n1, one, two
<1>7. Settles(begun.out, a, n1, ordered, lost)
  BY <1>2, <1>3 DEF Settles
<1>8. PICK b \in Reading : /\ Plays(begun.out, a, b) /\ Closed(b, n1, ordered, lost)
                           /\ Unspoken(a.events, b.events)
  BY <1>7, SettlesCloses
<1>9. Texts(b.events, s)
  BY <1>8, ReadingParts, TextsKept
<1>10. Apart(n1) /\ (chunk.part = "tool" => chunk.call \in Calls /\ ~n1.calls[chunk.call].stopped)
  BY <1>3 DEF Apart
<1>11. /\ b \in Reading /\ ordered \in BOOLEAN /\ Closed(b, n1, ordered, lost) /\ chunk \in Chunk
       /\ chunk.part # "none" /\ ~chunk.finish
  BY <1>8
<1>12. LET others1 == Shut(n1, Spoken \ {chunk.part})
           before1 == IF chunk.part = "tool" /\ n1.calls[chunk.call].started
                      THEN Became(others1.norm, <<>>) ELSE Stopped(others1.norm)
           m1 == before1.norm
       IN /\ others1.out \in Seq(AnEvent) /\ before1.out \in Seq(AnEvent)
          /\ \E c \in Reading : /\ Plays(others1.out, b, c) /\ Unspoken(b.events, c.events)
                                /\ Settles(before1.out, c, m1, ordered, lost)
          /\ m1 \in ANorm /\ m1.next = n1.next /\ (Settled(n1) => Settled(m1))
          /\ \A c \in Calls : /\ m1.calls[c].named = n1.calls[c].named
                              /\ m1.calls[c].args = n1.calls[c].args
          /\ chunk.part = "tool" => \A p \in Spoken : m1.block[p] = NoBlock
          /\ \A c \in Ended(m1) : CallOf(chunk) = c
          /\ MayHear(m1, chunk, StoppedCalls(m1), ordered, lost)
  BY ONLY <1>10, <1>11, ReadyPlays
<1> HIDE DEF others, before
<1>13. /\ others.out \in Seq(AnEvent) /\ before.out \in Seq(AnEvent)
       /\ \E c \in Reading : /\ Plays(others.out, b, c) /\ Unspoken(b.events, c.events)
                             /\ Settles(before.out, c, n2, ordered, lost)
       /\ n2 \in ANorm /\ n2.next = n1.next /\ (Settled(n1) => Settled(n2))
       /\ \A c \in Calls : /\ n2.calls[c].named = n1.calls[c].named
                           /\ n2.calls[c].args = n1.calls[c].args
       /\ chunk.part = "tool" => \A p \in Spoken : n2.block[p] = NoBlock
       /\ \A c \in Ended(n2) : CallOf(chunk) = c
       /\ MayHear(n2, chunk, told, ordered, lost)
  BY <1>6, <1>12
<1> HIDE DEF n2, taken, m, told, most
<1>14. PICK c \in Reading : /\ Plays(others.out, b, c) /\ Unspoken(b.events, c.events)
                            /\ Settles(before.out, c, n2, ordered, lost)
  BY <1>13
<1>15. PICK d \in Reading : /\ Plays(before.out, c, d) /\ Closed(d, n2, ordered, lost)
                            /\ Unspoken(c.events, d.events)
  BY <1>14, SettlesCloses
<1>16. Texts(d.events, s)
  BY <1>9, <1>14, <1>15, ReadingParts, TextsKept
<1>17. Tidy(d, n2, told, ordered, lost) /\ Numbered(n2)
  BY <1>15 DEF Closed, Tidy, Keeps, told
<1>18. LET m1 == Ingest(n2, chunk, Len(s) + 1)
           most1 == Behind(n2, told, m1.norm, chunk)
       IN /\ m1.out \in Seq(AnEvent)
          /\ Hears(m1.out, d, m1.norm, most1, ordered, lost, Append(s, chunk))
          /\ Took(n2, m1.norm, chunk, Len(s) + 1)
  <2>1. /\ d \in Reading /\ ordered \in BOOLEAN /\ chunk \in Chunk /\ n2.next <= Len(s)
        /\ s \in Seq(Chunk) /\ Len(s) < MaxSaid /\ MayHear(n2, chunk, told, ordered, lost)
    BY <1>3, <1>13
  <2> QED BY ONLY <1>16, <1>17, <2>1, IngestPlays
<1>19. taken.out \in Seq(AnEvent) /\ Took(n2, m, chunk, k)
  BY <1>18 DEF taken, m
<1>20. Hears(taken.out, d, m, StoppedCalls(m), ordered, lost, Append(s, chunk))
  <2>1. Hears(taken.out, d, m, most, ordered, lost, Append(s, chunk))
    BY <1>18 DEF taken, m, most
  <2>2. told \subseteq StoppedCalls(m)
    BY <1>19 DEF Took, StoppedCalls, told
  <2>3. \A c1 \in StartedCalls(n2) : c1 \in told \/ CallOf(chunk) = c1
    BY <1>13, <1>17, StartedOrStopped DEF told
  <2>4. most \subseteq StoppedCalls(m)
    BY <2>2, <2>3 DEF most, Behind
  <2> QED BY <2>1, <2>4, HearsMore
<1> HIDE DEF k
<1>21. one.out \in Seq(AnEvent) /\ Plays(one.out, a, c)
  BY <1>2, <1>4, <1>8, <1>13, <1>14, PlaysBoth
<1>22. two.out \in Seq(AnEvent) /\ Plays(two.out, a, d)
  <2>1. one.out \o before.out \in Seq(AnEvent)
    BY <1>13, <1>21
  <2> QED BY <1>4, <1>13, <1>15, <1>21, <2>1, PlaysBoth
<1>23. two.out \o taken.out \in Seq(AnEvent)
  BY <1>19, <1>22
<1>24. Hears(two.out \o taken.out, a, m, StoppedCalls(m), ordered, lost, Append(s, chunk))
  BY <1>19, <1>20, <1>22, HearsOn
<1>25. Apart(m)
  <2>1. CASE chunk.part = "tool"
    BY <1>13, <1>19, <2>1 DEF Took, Apart
  <2>2. CASE chunk.part \in Spoken
    <3>1. chunk.part # "tool"
      BY <2>2 DEF Spoken
    <3>2. \A c1 \in Calls : CallOf(chunk) # c1
      BY <3>1, Numbers DEF CallOf
    <3>3. Ended(n2) = {}
      BY <1>13, <3>2 DEF Ended
    <3>4. Ended(m) = {}
      BY <1>19, <3>1, <3>3 DEF Took, Ended
    <3> QED BY <3>4 DEF Apart
  <2> QED BY <2>1, <2>2 DEF Chunk, Spoken
<1>26. TookNarrated(n, m, chunk, k)
  <2>1. Settled(n) => Settled(n1)
    BY <1>3 DEF Settled
  <2>2. m.next <= n.next + 1
    BY <1>3, <1>13, <1>19 DEF Took
  <2>3. ASSUME NEW x \in Calls
        PROVE  LET mine == chunk.part = "tool" /\ chunk.call = x
               IN /\ m.calls[x].named <=> n.calls[x].named \/ (mine /\ chunk.named)
                  /\ m.calls[x].args = IF mine /\ chunk.args THEN Append(n.calls[x].args, k)
                                       ELSE n.calls[x].args
    BY <1>3, <1>13, <1>19 DEF Took
  <2> QED BY <1>13, <1>19, <1>25, <2>1, <2>2, <2>3 DEF Took, TookNarrated
<1> QED BY <1>1, <1>5, <1>23, <1>24, <1>26 DEF k, m

(* The events that report the usage and the end of the message.             *)
UsageEvent == Event("usage", NoBlock, "none", NoTool, <<>>)
EndEvent   == Event("end", NoBlock, "none", NoTool, <<>>)

LEMMA UsagePlays ==
    ASSUME NEW a \in Reading, a.phase = "message",
           NEW type \in {"usage", "end"}, type = "end" => a.open = {}
    PROVE  LET e == Event(type, NoBlock, "none", NoTool, <<>>)
           IN /\ <<e>> \in Seq(AnEvent)
              /\ \E b \in Reading :
                    /\ Plays(<<e>>, a, b) /\ Unspoken(a.events, b.events)
                    /\ b.phase = (IF type = "end" THEN "over" ELSE "message") /\ b.open = a.open
                    /\ b.events = Append(a.events, Said(type, NoTool, <<>>))
<1> DEFINE e == Event(type, NoBlock, "none", NoTool, <<>>)
           r == Said(type, NoTool, <<>>)
           ph == IF type = "end" THEN "over" ELSE "message"
           b == [a EXCEPT !.phase = ph, !.events = Append(a.events, r)]
<1>1. /\ e \in AnEvent /\ e.type = type /\ e.part = "none"
  <2>1. NoTool \in 0 .. MaxCalls /\ <<>> \in Seq(Pieces)
    BY NothingIs
  <2> QED BY <2>1 DEF Event, AnEvent
<1>2. r \in AReport /\ r.type = type
  <2>1. NoTool \in 0 .. MaxCalls /\ <<>> \in Seq(Pieces)
    BY NothingIs
  <2> QED BY <2>1 DEF Said, AReport
<1>3. EventsAfter(e, a.tool, a.events) = Append(a.events, r) /\ ToolAfter(e, a.tool) = a.tool
  BY <1>1 DEF EventsAfter, ToolAfter
<1> HIDE DEF e, r
<1>4. /\ a.events \in Seq(AReport) /\ Append(a.events, r) \in Seq(AReport)
      /\ ph \in {"none", "message", "over"}
  BY <1>2, ReadingParts
<1>5. /\ b \in Reading /\ b.phase = ph /\ b.open = a.open /\ b.closed = a.closed
      /\ b.tool = a.tool /\ b.events = Append(a.events, r)
  <2> DEFINE es == Append(a.events, r)
  <2>1. es \in Seq(AReport)
    BY <1>4
  <2> HIDE DEF es, ph
  <2> QED BY <1>4, <2>1 DEF Reading
<1> HIDE DEF b
<1>6. Reads(e, a, b)
  BY <1>1, <1>3, <1>5 DEF Reads, BlocksAfter
<1>7. Plays(<<e>>, a, b)
  BY <1>5, <1>6, PlaysOne
<1>8. Unspoken(a.events, b.events)
  <2>1. r.type \notin Spoken
    BY <1>2 DEF Spoken
  <2> QED BY <1>2, <1>4, <1>5, <2>1, AppendUnspoken
<1>9. <<e>> \in Seq(AnEvent)
  BY <1>1
<1> QED BY <1>5, <1>7, <1>8, <1>9 DEF e, r

LEMMA PairIs ==
    ASSUME NEW x \in AnEvent, NEW y \in AnEvent
    PROVE  <<x, y>> = <<x>> \o <<y>>
<1> DEFINE pair == <<x, y>>
           both == <<x>> \o <<y>>
<1>1. pair \in Seq(AnEvent) /\ Len(pair) = 2 /\ pair[1] = x /\ pair[2] = y
  OBVIOUS
<1>2. both \in Seq(AnEvent) /\ Len(both) = 2 /\ both[1] = x /\ both[2] = y
  OBVIOUS
<1>3. \A i \in 1 .. 2 : i = 1 \/ i = 2
  OBVIOUS
<1> HIDE DEF pair, both
<1>4. pair = both
  BY <1>1, <1>2, <1>3
<1> QED BY <1>4 DEF pair, both

(* The end of a stream: what the reply says of the calls.                   *)
Ending(out, a, n, ordered, lost, s) ==
    \E b \in Reading : /\ Plays(out, a, b) /\ Texts(b.events, s)
                       /\ Reported(b.events, n, StartedCalls(n), ordered, lost)

LEMMA LastPlays ==
    ASSUME NEW a \in Reading, a.phase = "message", a.open = {}, NEW n, NEW ordered, NEW lost, NEW s,
           Texts(a.events, s), Reported(a.events, n, StartedCalls(n), ordered, lost)
    PROVE  /\ <<UsageEvent, EndEvent>> \in Seq(AnEvent)
           /\ Ending(<<UsageEvent, EndEvent>>, a, n, ordered, lost, s)
<1>1. PICK b \in Reading :
        /\ <<UsageEvent>> \in Seq(AnEvent)
        /\ Plays(<<UsageEvent>>, a, b) /\ Unspoken(a.events, b.events)
        /\ b.phase = "message" /\ b.open = {}
        /\ b.events = Append(a.events, Said("usage", NoTool, <<>>))
  <2>1. "usage" \in {"usage", "end"} /\ "usage" # "end"
    OBVIOUS
  <2>2. LET e == Event("usage", NoBlock, "none", NoTool, <<>>)
        IN /\ <<e>> \in Seq(AnEvent)
           /\ \E b \in Reading :
                 /\ Plays(<<e>>, a, b) /\ Unspoken(a.events, b.events)
                 /\ b.phase = (IF "usage" = "end" THEN "over" ELSE "message") /\ b.open = a.open
                 /\ b.events = Append(a.events, Said("usage", NoTool, <<>>))
    BY <2>1, UsagePlays
  <2> QED BY <2>1, <2>2 DEF UsageEvent
<1>2. PICK c \in Reading :
        /\ <<EndEvent>> \in Seq(AnEvent)
        /\ Plays(<<EndEvent>>, b, c) /\ Unspoken(b.events, c.events)
        /\ c.events = Append(b.events, Said("end", NoTool, <<>>))
  <2>1. LET e == Event("end", NoBlock, "none", NoTool, <<>>)
        IN /\ <<e>> \in Seq(AnEvent)
           /\ \E c \in Reading :
                 /\ Plays(<<e>>, b, c) /\ Unspoken(b.events, c.events)
                 /\ c.phase = (IF "end" = "end" THEN "over" ELSE "message") /\ c.open = b.open
                 /\ c.events = Append(b.events, Said("end", NoTool, <<>>))
    BY <1>1, UsagePlays
  <2> QED BY <2>1 DEF EndEvent
<1>3. a.events \in Seq(AReport) /\ b.events \in Seq(AReport) /\ c.events \in Seq(AReport)
  BY ReadingParts
<1>4. <<UsageEvent, EndEvent>> = <<UsageEvent>> \o <<EndEvent>>
  <2>1. UsageEvent \in AnEvent /\ EndEvent \in AnEvent
    <3>1. NoTool \in 0 .. MaxCalls /\ <<>> \in Seq(Pieces)
      BY NothingIs
    <3> QED BY <3>1 DEF UsageEvent, EndEvent, Event, AnEvent
  <2> QED BY <2>1, PairIs
<1>5. Plays(<<UsageEvent, EndEvent>>, a, c) /\ <<UsageEvent, EndEvent>> \in Seq(AnEvent)
  <2>1. <<UsageEvent>> \o <<EndEvent>> \in Seq(AnEvent)
    BY <1>1, <1>2
  <2>2. Plays(<<UsageEvent>> \o <<EndEvent>>, a, c)
    BY <1>1, <1>2, PlaysBoth
  <2> QED BY <1>4, <2>1, <2>2
<1>6. Texts(c.events, s)
  <2>1. Texts(b.events, s)
    BY <1>1, <1>3, TextsKept
  <2> QED BY <1>2, <1>3, <2>1, TextsKept
<1>7. Reported(c.events, n, StartedCalls(n), ordered, lost)
  <2>1. Said("usage", NoTool, <<>>).type # "tool" /\ Said("end", NoTool, <<>>).type # "tool"
    BY DEF Said
  <2>2. Reported(b.events, n, StartedCalls(n), ordered, lost)
    BY <1>1, <1>3, <2>1, ReportedMore
  <2> QED BY <1>2, <1>3, <2>1, <2>2, ReportedMore
<1> QED BY <1>5, <1>6, <1>7 DEF Ending

(* finish: every block is stopped, and the message ends if it has started.  *)
LEMMA CompletedPlays ==
    ASSUME NEW a \in Reading, NEW n, NEW told, NEW ordered \in BOOLEAN, NEW lost,
           Tidy(a, n, told, ordered, lost), NEW s, Texts(a.events, s)
    PROVE  LET m == Completed(n)
           IN /\ m.out \in Seq(AnEvent) /\ Ending(m.out, a, n, ordered, lost, s)
              /\ m.norm \in ANorm /\ m.norm.next = n.next
<1> DEFINE shut == Shut(n, Spoken)
           q == shut.norm
           stops == Stopped(q)
           m == stops.norm
           last == IF n.started THEN <<UsageEvent, EndEvent>> ELSE <<>>
           one == Then(shut, stops)
           two == Became(m, last)
<1>1. Completed(n) = Then(one, two)
  BY DEF Completed, UsageEvent, EndEvent
<1>2. /\ shut.out \in Seq(AnEvent) /\ stops.out \in Seq(AnEvent)
      /\ \E c \in Reading : /\ Plays(shut.out, a, c) /\ Unspoken(a.events, c.events)
                            /\ Settles(stops.out, c, m, ordered, lost)
      /\ Ends(q, m, Ended(q)) /\ Ended(m) = {}
  <2>1. Tidy(a, n, told, ordered, lost) /\ ordered \in BOOLEAN /\ Spoken \in SUBSET Spoken
    OBVIOUS
  <2> QED BY ONLY <2>1, ShutStops
<1>3. /\ q \in ANorm /\ q.calls = n.calls /\ q.next = n.next /\ q.started = n.started
      /\ \A p \in Spoken : q.block[p] = NoBlock
  <2>1. n \in ANorm
    BY DEF Tidy, Keeps, Numbered
  <2> QED BY <2>1, ShutNorm
<1>4. one.out = shut.out \o stops.out
  <2> HIDE DEF shut, stops
  <2> QED BY ThenIs
<1>5. two.norm = m /\ two.out = last
  BY DEF Became
<1>6. Then(one, two).norm = two.norm /\ Then(one, two).out = one.out \o two.out
  <2> HIDE DEF one, two
  <2> QED BY ThenIs
<1> HIDE DEF shut, q, stops, m, one, two
<1>7. PICK c \in Reading : /\ Plays(shut.out, a, c) /\ Unspoken(a.events, c.events)
                           /\ Settles(stops.out, c, m, ordered, lost)
  BY <1>2
<1>8. PICK d \in Reading : /\ Plays(stops.out, c, d) /\ Keeps(d, m, StoppedCalls(m), ordered, lost)
                           /\ Unspoken(c.events, d.events)
  BY <1>7 DEF Settles, Moves
<1>9. one.out \in Seq(AnEvent) /\ Plays(one.out, a, d)
  BY <1>2, <1>4, <1>7, <1>8, PlaysBoth
<1>10. Texts(d.events, s)
  BY <1>7, <1>8, ReadingParts, TextsKept
<1>11. /\ m \in ANorm /\ m.started = n.started /\ m.next = n.next
       /\ \A p \in Spoken : m.block[p] = NoBlock
  BY <1>2, <1>3 DEF Ends
<1>12. StoppedCalls(m) = StartedCalls(n) /\ Alike(m, n)
  <2>1. StoppedCalls(m) = StartedCalls(m)
    <3>1. Numbered(m)
      BY <1>8 DEF Keeps
    <3> QED BY <1>2, <3>1, StartedOrStopped
  <2>2. \A c1 \in Calls : /\ m.calls[c1].started = n.calls[c1].started
                          /\ m.calls[c1].sent = n.calls[c1].sent
                          /\ m.calls[c1].args = n.calls[c1].args
    BY <1>2, <1>3 DEF Ends
  <2> QED BY <2>1, <2>2 DEF StartedCalls, Alike, Given
<1>13. Reported(d.events, n, StartedCalls(n), ordered, lost)
  BY <1>8, <1>12, AlikeHolds DEF Keeps, Holds
<1>14. d.phase = (IF n.started THEN "message" ELSE "none") /\ d.open = {}
  <2>1. Shows(d, m)
    BY <1>8 DEF Keeps
  <2>2. \A i \in Blocks : ~Live(m, i)
    BY <1>2, <1>11, Numbers DEF Live
  <2>3. d.open \subseteq Blocks
    BY ReadingParts
  <2> QED BY <1>11, <2>1, <2>2, <2>3 DEF Shows
<1>15. last \in Seq(AnEvent) /\ Ending(last, d, n, ordered, lost, s)
  <2>1. CASE n.started
    BY <1>10, <1>13, <1>14, <2>1, LastPlays
  <2>2. CASE ~n.started
    <3>1. last = <<>>
      BY <2>2
    <3>2. Ending(<<>>, d, n, ordered, lost, s)
      BY <1>10, <1>13, PlaysNothing DEF Ending
    <3> QED BY <3>1, <3>2
  <2> QED BY <2>1, <2>2
<1> HIDE DEF last
<1>16. PICK b \in Reading : /\ Plays(last, d, b) /\ Texts(b.events, s)
                            /\ Reported(b.events, n, StartedCalls(n), ordered, lost)
  BY <1>15 DEF Ending
<1>17. one.out \o last \in Seq(AnEvent) /\ Plays(one.out \o last, a, b)
  BY <1>9, <1>15, <1>16, PlaysBoth
<1>18. Ending(one.out \o last, a, n, ordered, lost, s)
  BY <1>16, <1>17 DEF Ending
<1> QED BY <1>1, <1>5, <1>6, <1>11, <1>17, <1>18

-----------------------------------------------------------------------------
(* The normaliser between two chunks, against the chunks so far.            *)
ArgsOf(s, c) == {k \in DOMAIN s : s[k].part = "tool" /\ s[k].call = c /\ s[k].args}

Recorded(n, s) ==
    /\ \A c \in Calls : Lists(n.calls[c].args, ArgsOf(s, c))
    /\ \A k \in DOMAIN s : s[k].named => s[k].call \in Calls /\ n.calls[s[k].call].named
    /\ \A c \in Calls : n.calls[c].named =>
          \E k \in DOMAIN s : s[k].named /\ s[k].part = "tool" /\ s[k].call = c

(* A call that has been named, and nothing has ended since; one that         *)
(* another has overtaken; and one that something else has been said after.  *)
Unfinished(c, s) ==
    \E k \in DOMAIN s : /\ s[k].named /\ s[k].call = c
                        /\ \A i \in k .. Len(s) : ~s[i].finish

OvertakenIn(c, s) ==
    \E k, l \in DOMAIN s : /\ k < l /\ s[k].named /\ s[k].call = c
                           /\ s[l].part = "tool" /\ s[l].call # c
                           /\ \A i \in k .. l - 1 : ~s[i].finish

Left(c, s) ==
    \E j, i \in DOMAIN s : j < i /\ s[j].part = "tool" /\ s[j].call = c /\ CallOf(s[i]) # c

OnePieceOnIn(s) ==
    \A j, k \in DOMAIN s :
        j < k /\ s[j].part = "tool" /\ CallOf(s[j]) = CallOf(s[k]) =>
            \A i \in j .. k : CallOf(s[i]) = CallOf(s[j])

InTurn(s, narrates) == narrates \/ OnePieceOnIn(s)
LostIn(s, narrates) == {c \in Calls : ~narrates /\ OvertakenIn(c, s)}

Fits(n, s, narrates) ==
    /\ n.next <= Len(s) /\ Settled(n) /\ Recorded(n, s)
    /\ narrates => Apart(n)
    /\ ~narrates => \A c \in Ended(n) : Unfinished(c, s)

(* MaySay, of any normaliser.                                              *)
MaySayTo(n, chunk, narrates) ==
    /\ chunk.part # "tool" =>
          ~chunk.named /\ ~chunk.args /\ chunk.call = NoTool
          /\ (chunk.part = "none") = chunk.finish
    /\ chunk.part = "tool" => chunk.call \in Calls /\ ~n.calls[chunk.call].stopped
    /\ narrates => ~chunk.finish

LEMMA TurnBefore ==
    ASSUME NEW s \in Seq(Chunk), NEW chunk \in Chunk, OnePieceOnIn(Append(s, chunk))
    PROVE  OnePieceOnIn(s)
<1> DEFINE t == Append(s, chunk)
<1>1. /\ DOMAIN s = 1 .. Len(s) /\ DOMAIN t = 1 .. Len(s) + 1 /\ Len(s) \in Nat
      /\ \A i \in 1 .. Len(s) : t[i] = s[i]
  BY SaidMore
<1> HIDE DEF t
<1>2. OnePieceOnIn(t)
  BY DEF t
<1> SUFFICES ASSUME NEW j \in DOMAIN s, NEW k \in DOMAIN s, j < k, s[j].part = "tool",
                    CallOf(s[j]) = CallOf(s[k]), NEW i \in j .. k
             PROVE  CallOf(s[i]) = CallOf(s[j])
  BY DEF OnePieceOnIn
<1>3. j \in DOMAIN t /\ k \in DOMAIN t /\ t[j] = s[j] /\ t[k] = s[k] /\ t[i] = s[i]
  BY <1>1
<1> QED BY <1>2, <1>3 DEF OnePieceOnIn

(* What something else has been said after is not spoken of again by a      *)
(* provider that sends the pieces of a call one after another.             *)
LEMMA LeftForGood ==
    ASSUME NEW s \in Seq(Chunk), NEW chunk \in Chunk, OnePieceOnIn(Append(s, chunk)),
           NEW c, Left(c, s), chunk.part = "tool"
    PROVE  chunk.call # c
<1> DEFINE t == Append(s, chunk)
           k == Len(s) + 1
<1>1. /\ DOMAIN s = 1 .. Len(s) /\ DOMAIN t = 1 .. Len(s) + 1 /\ Len(s) \in Nat
      /\ \A i \in 1 .. Len(s) : t[i] = s[i]
  BY SaidMore
<1>2. t[k] = chunk
  BY SaidMore
<1> HIDE DEF t
<1>3. OnePieceOnIn(t)
  BY DEF t
<1>4. PICK j \in DOMAIN s, i \in DOMAIN s : j < i /\ s[j].part = "tool" /\ s[j].call = c /\ CallOf(s[i]) # c
  BY DEF Left
<1>5. /\ j \in DOMAIN t /\ k \in DOMAIN t /\ j < k /\ i \in j .. k
      /\ t[j] = s[j] /\ t[i] = s[i]
  BY <1>1, <1>4
<1>6. CallOf(t[j]) = c /\ CallOf(t[k]) = chunk.call
  BY <1>2, <1>4, <1>5 DEF CallOf
<1> HIDE DEF k
<1> QED BY <1>3, <1>4, <1>5, <1>6 DEF OnePieceOnIn

LEMMA LeftOn ==
    ASSUME NEW s \in Seq(Chunk), NEW chunk \in Chunk, NEW c,
           \/ Left(c, s)
           \/ CallOf(chunk) # c /\ \E j \in DOMAIN s : s[j].part = "tool" /\ s[j].call = c
    PROVE  Left(c, Append(s, chunk))
<1> DEFINE t == Append(s, chunk)
           k == Len(s) + 1
<1>1. /\ DOMAIN s = 1 .. Len(s) /\ DOMAIN t = 1 .. Len(s) + 1 /\ Len(s) \in Nat
      /\ \A i \in 1 .. Len(s) : t[i] = s[i]
  BY SaidMore
<1>2. t[k] = chunk
  BY SaidMore
<1> HIDE DEF t
<1>3. CASE Left(c, s)
  <2>1. PICK j \in DOMAIN s, i \in DOMAIN s : j < i /\ s[j].part = "tool" /\ s[j].call = c /\ CallOf(s[i]) # c
    BY <1>3 DEF Left
  <2>2. j \in DOMAIN t /\ i \in DOMAIN t /\ t[j] = s[j] /\ t[i] = s[i]
    BY <1>1
  <2>3. Left(c, t)
    BY <2>1, <2>2 DEF Left
  <2> QED BY <2>3 DEF t
<1>4. CASE CallOf(chunk) # c /\ \E j \in DOMAIN s : s[j].part = "tool" /\ s[j].call = c
  <2>1. PICK j \in DOMAIN s : s[j].part = "tool" /\ s[j].call = c
    BY <1>4
  <2>2. j \in DOMAIN t /\ k \in DOMAIN t /\ j < k /\ t[j] = s[j]
    BY <1>1
  <2> HIDE DEF k
  <2>3. Left(c, t)
    BY <1>2, <1>4, <2>1, <2>2 DEF Left
  <2> QED BY <2>3 DEF t
<1> QED BY <1>3, <1>4

(* A call that is overtaken stays so, and one that is not finished is       *)
(* overtaken by a piece of another.                                        *)
LEMMA OvertakenOn ==
    ASSUME NEW s \in Seq(Chunk), NEW chunk \in Chunk, NEW c,
           \/ OvertakenIn(c, s)
           \/ Unfinished(c, s) /\ chunk.part = "tool" /\ chunk.call # c
    PROVE  OvertakenIn(c, Append(s, chunk))
<1> DEFINE t == Append(s, chunk)
           e == Len(s) + 1
<1>1. /\ DOMAIN s = 1 .. Len(s) /\ DOMAIN t = 1 .. Len(s) + 1 /\ Len(s) \in Nat
      /\ \A i \in 1 .. Len(s) : t[i] = s[i]
  BY SaidMore
<1>2. t[e] = chunk
  BY SaidMore
<1> HIDE DEF t
<1>3. CASE OvertakenIn(c, s)
  <2>1. PICK k \in DOMAIN s, l \in DOMAIN s :
           /\ k < l /\ s[k].named /\ s[k].call = c
           /\ s[l].part = "tool" /\ s[l].call # c
           /\ \A i \in k .. l - 1 : ~s[i].finish
    BY <1>3 DEF OvertakenIn
  <2>2. k \in DOMAIN t /\ l \in DOMAIN t /\ t[k] = s[k] /\ t[l] = s[l]
        /\ \A i \in k .. l - 1 : t[i] = s[i]
    BY <1>1
  <2>3. \A i \in k .. l - 1 : ~t[i].finish
    BY <2>1, <2>2
  <2>4. OvertakenIn(c, t)
    BY <2>1, <2>2, <2>3 DEF OvertakenIn
  <2> QED BY <2>4 DEF t
<1>4. CASE Unfinished(c, s) /\ chunk.part = "tool" /\ chunk.call # c
  <2>1. PICK k \in DOMAIN s : /\ s[k].named /\ s[k].call = c
                              /\ \A i \in k .. Len(s) : ~s[i].finish
    BY <1>4 DEF Unfinished
  <2>2. k \in DOMAIN t /\ e \in DOMAIN t /\ k < e /\ t[k] = s[k] /\ e - 1 = Len(s)
        /\ \A i \in k .. Len(s) : t[i] = s[i]
    BY <1>1
  <2> HIDE DEF e
  <2>3. \A i \in k .. e - 1 : ~t[i].finish
    BY <2>1, <2>2
  <2>4. OvertakenIn(c, t)
    BY <1>2, <1>4, <2>1, <2>2, <2>3 DEF OvertakenIn
  <2> QED BY <2>4 DEF t
<1> QED BY <1>3, <1>4

LEMMA UnfinishedOn ==
    ASSUME NEW s \in Seq(Chunk), NEW chunk \in Chunk, ~chunk.finish, NEW c,
           Unfinished(c, s) \/ (chunk.named /\ chunk.call = c)
    PROVE  Unfinished(c, Append(s, chunk))
<1> DEFINE t == Append(s, chunk)
           k == Len(s) + 1
<1>1. /\ DOMAIN s = 1 .. Len(s) /\ DOMAIN t = 1 .. Len(s) + 1 /\ Len(s) \in Nat
      /\ Len(t) = Len(s) + 1 /\ \A i \in 1 .. Len(s) : t[i] = s[i]
  BY SaidMore
<1>2. t[k] = chunk
  BY SaidMore
<1> HIDE DEF t
<1>3. CASE Unfinished(c, s)
  <2>1. PICK j \in DOMAIN s : /\ s[j].named /\ s[j].call = c
                              /\ \A i \in j .. Len(s) : ~s[i].finish
    BY <1>3 DEF Unfinished
  <2>2. \A i \in j .. Len(t) : ~t[i].finish
    <3>1. \A i \in j .. Len(t) : i \in j .. Len(s) \/ i = k
      BY <1>1, <2>1
    <3>2. \A i \in j .. Len(s) : t[i] = s[i]
      BY <1>1, <2>1
    <3> HIDE DEF k
    <3> QED BY <1>2, <2>1, <3>1, <3>2
  <2>3. j \in DOMAIN t /\ t[j] = s[j]
    BY <1>1, <2>1
  <2>4. Unfinished(c, t)
    BY <2>1, <2>2, <2>3 DEF Unfinished
  <2> QED BY <2>4 DEF t
<1>4. CASE chunk.named /\ chunk.call = c
  <2>1. k \in DOMAIN t /\ \A i \in k .. Len(t) : i = k
    BY <1>1
  <2> HIDE DEF k
  <2>2. Unfinished(c, t)
    BY <1>2, <1>4, <2>1 DEF Unfinished
  <2> QED BY <2>2 DEF t
<1> QED BY <1>3, <1>4

LEMMA TidyMore ==
    ASSUME NEW a, NEW n, NEW told, NEW one \in BOOLEAN, NEW two \in BOOLEAN, two => one,
           NEW lost, NEW more, lost \subseteq more, Tidy(a, n, told, one, lost)
    PROVE  Tidy(a, n, told, two, more)
<1>1. Reported(a.events, n, told, two, more)
  BY DEF Tidy, Keeps, Holds, Reported
<1>2. Assembled(a.tool, n, told, two)
  BY DEF Tidy, Keeps, Holds, Assembled
<1> QED BY <1>1, <1>2 DEF Tidy, Keeps, Holds

LEMMA ListsMore ==
    ASSUME NEW args \in Seq(Pieces), NEW S, Lists(args, S), NEW k \in Pieces,
           \A i \in S : i < k
    PROVE  Lists(Append(args, k), S \cup {k})
<1> DEFINE t == Append(args, k)
<1>1. /\ DOMAIN args = 1 .. Len(args) /\ DOMAIN t = 1 .. Len(args) + 1 /\ Len(args) \in Nat
      /\ t[Len(args) + 1] = k
      /\ \A i \in 1 .. Len(args) : t[i] = args[i]
  OBVIOUS
<1> HIDE DEF t
<1>2. \A i \in DOMAIN args : args[i] \in S
  BY DEF Lists
<1>3. S \cup {k} = {t[i] : i \in DOMAIN t}
  <2>1. \A x \in S : \E i \in DOMAIN args : x = args[i]
    BY DEF Lists
  <2>2. \A i \in DOMAIN t : i \in DOMAIN args \/ i = Len(args) + 1
    BY <1>1
  <2>3. Len(args) + 1 \in DOMAIN t /\ \A i \in DOMAIN args : i \in DOMAIN t
    BY <1>1
  <2> QED BY <1>1, <1>2, <2>1, <2>2, <2>3
<1>4. ASSUME NEW i \in DOMAIN t, NEW j \in DOMAIN t, i < j PROVE t[i] < t[j]
  <2>1. i \in DOMAIN args /\ t[i] = args[i]
    BY <1>1, <1>4
  <2>2. CASE j = Len(args) + 1
    BY <1>1, <1>2, <2>1, <2>2
  <2>3. CASE j \in DOMAIN args
    BY <1>1, <1>4, <2>1, <2>3 DEF Lists
  <2> QED BY <1>1, <2>2, <2>3
<1>5. Lists(t, S \cup {k})
  BY <1>3, <1>4 DEF Lists
<1> QED BY <1>5 DEF t

LEMMA RecordedOn ==
    ASSUME NEW n \in ANorm, NEW m, NEW s \in Seq(Chunk), Recorded(n, s), Len(s) < MaxSaid,
           NEW chunk \in Chunk, chunk.part # "tool" => ~chunk.named,
           chunk.part = "tool" => chunk.call \in Calls,
           \A c \in Calls :
              LET mine == chunk.part = "tool" /\ chunk.call = c
              IN /\ m.calls[c].named <=> n.calls[c].named \/ (mine /\ chunk.named)
                 /\ m.calls[c].args = IF mine /\ chunk.args THEN Append(n.calls[c].args, Len(s) + 1)
                                      ELSE n.calls[c].args
    PROVE  Recorded(m, Append(s, chunk))
<1> DEFINE t == Append(s, chunk)
           k == Len(s) + 1
<1>1. /\ DOMAIN s = 1 .. Len(s) /\ DOMAIN t = 1 .. Len(s) + 1 /\ Len(s) \in Nat
      /\ \A i \in 1 .. Len(s) : t[i] = s[i]
  BY SaidMore
<1>2. t[k] = chunk
  BY SaidMore
<1> HIDE DEF t
<1>3. k \in Pieces /\ \A i \in DOMAIN t : i = k \/ i \in DOMAIN s
  BY <1>1, RetriesAssumption DEF Pieces
<1>4. k \in DOMAIN t /\ \A i \in DOMAIN s : i \in DOMAIN t /\ t[i] = s[i] /\ i < k
  BY <1>1
<1> HIDE DEF k
<1>5. ASSUME NEW c \in Calls PROVE Lists(m.calls[c].args, ArgsOf(t, c))
  <2>1. Lists(n.calls[c].args, ArgsOf(s, c)) /\ n.calls[c].args \in Seq(Pieces)
    BY NormParts, CallParts DEF Recorded
  <2>2. CASE chunk.part = "tool" /\ chunk.call = c /\ chunk.args
    <3>1. ArgsOf(t, c) = ArgsOf(s, c) \cup {k}
      BY <1>2, <1>3, <1>4, <2>2 DEF ArgsOf
    <3>2. \A i \in ArgsOf(s, c) : i < k
      BY <1>4 DEF ArgsOf
    <3>3. m.calls[c].args = Append(n.calls[c].args, k)
      BY <2>2 DEF k
    <3> QED BY <1>3, <2>1, <3>1, <3>2, <3>3, ListsMore
  <2>3. CASE ~(chunk.part = "tool" /\ chunk.call = c /\ chunk.args)
    <3>1. ArgsOf(t, c) = ArgsOf(s, c)
      BY <1>2, <1>3, <1>4, <2>3 DEF ArgsOf
    <3>2. m.calls[c].args = n.calls[c].args
      BY <2>3
    <3> QED BY <2>1, <3>1, <3>2
  <2> QED BY <2>2, <2>3
<1>6. ASSUME NEW i \in DOMAIN t, t[i].named PROVE t[i].call \in Calls /\ m.calls[t[i].call].named
  <2>1. CASE i = k
    BY <1>2, <1>6, <2>1
  <2>2. CASE i \in DOMAIN s
    BY <1>4, <1>6, <2>2 DEF Recorded
  <2> QED BY <1>3, <2>1, <2>2
<1>7. ASSUME NEW c \in Calls, m.calls[c].named
      PROVE  \E i \in DOMAIN t : t[i].named /\ t[i].part = "tool" /\ t[i].call = c
  <2>1. n.calls[c].named \/ (chunk.part = "tool" /\ chunk.call = c /\ chunk.named)
    BY <1>7
  <2>2. CASE n.calls[c].named
    <3>1. PICK i \in DOMAIN s : s[i].named /\ s[i].part = "tool" /\ s[i].call = c
      BY <2>2 DEF Recorded
    <3> QED BY <1>4, <3>1
  <2>3. CASE chunk.part = "tool" /\ chunk.call = c /\ chunk.named
    BY <1>2, <1>4, <2>3
  <2> QED BY <2>1, <2>2, <2>3
<1>8. Recorded(m, t)
  BY <1>5, <1>6, <1>7 DEF Recorded
<1> QED BY <1>8 DEF t

(* A chunk arrives, and what was true between chunks is true again: a call   *)
(* is told only when it is stopped, or when something else has been said     *)
(* after it.                                                               *)
Behindhand(n, s, narrates, told) ==
    \A c \in told : n.calls[c].stopped \/ (~narrates /\ Left(c, s))

Between(a, n, s, narrates) ==
    /\ \E told \in SUBSET Calls : /\ Tidy(a, n, told, InTurn(s, narrates), LostIn(s, narrates))
                                  /\ Behindhand(n, s, narrates, told)
    /\ Texts(a.events, s) /\ Fits(n, s, narrates)

AfterChunk(n, chunk, k, narrates) ==
    IF narrates THEN Narrated(n, chunk, k) ELSE Ingest(n, chunk, k)

(* The chunk of a provider that narrates.                                  *)
LEMMA NarratedArrives ==
    ASSUME NEW a \in Reading, NEW n, NEW s \in Seq(Chunk), Between(a, n, s, TRUE),
           Len(s) < MaxSaid, NEW chunk \in Chunk, MaySayTo(n, chunk, TRUE)
    PROVE  LET m == Narrated(n, chunk, Len(s) + 1)
               t == Append(s, chunk)
           IN /\ m.out \in Seq(AnEvent) /\ m.norm \in ANorm
              /\ \E b \in Reading : Plays(m.out, a, b) /\ Between(b, m.norm, t, TRUE)
<1> DEFINE k == Len(s) + 1
           t == Append(s, chunk)
           m == Narrated(n, chunk, k)
<1>1. PICK told \in SUBSET Calls : /\ Tidy(a, n, told, InTurn(s, TRUE), LostIn(s, TRUE))
                                   /\ Behindhand(n, s, TRUE, told)
  BY DEF Between
<1>2. Texts(a.events, s) /\ Fits(n, s, TRUE) /\ n \in ANorm
  BY <1>1 DEF Between, Tidy, Keeps, Numbered
<1>3. /\ InTurn(s, TRUE) = TRUE /\ InTurn(t, TRUE) = TRUE
      /\ LostIn(s, TRUE) = {} /\ LostIn(t, TRUE) = {}
  BY DEF InTurn, LostIn
<1>4. told = StoppedCalls(n)
  <2>1. told \subseteq StoppedCalls(n)
    BY <1>1 DEF Behindhand, StoppedCalls
  <2>2. StoppedCalls(n) \subseteq told
    BY <1>1 DEF Tidy
  <2> QED BY <2>1, <2>2
<1>5. Closed(a, n, TRUE, {})
  BY <1>1, <1>3, <1>4 DEF Closed
<1>6. t \in Seq(Chunk) /\ Len(t) = Len(s) + 1 /\ n.next \in Nat /\ n.next <= Len(s) /\ Len(s) \in Nat
  BY <1>2, SaidMore, NormParts DEF Fits
<1>7. /\ chunk.part \in {"text", "thinking", "tool", "none"} /\ chunk.finish \in BOOLEAN
  BY DEF Chunk
<1>8. ~chunk.finish /\ chunk.part # "none" /\ Apart(n)
      /\ (chunk.part = "tool" => chunk.call \in Calls /\ ~n.calls[chunk.call].stopped)
  BY <1>2, <1>7 DEF MaySayTo, Fits
<1> HIDE DEF k, m, t
<1>9. LET m1 == Narrated(n, chunk, Len(s) + 1)
      IN /\ m1.out \in Seq(AnEvent)
         /\ Hears(m1.out, a, m1.norm, StoppedCalls(m1.norm), TRUE, {}, Append(s, chunk))
         /\ TookNarrated(n, m1.norm, chunk, Len(s) + 1)
  <2>1. a \in Reading /\ s \in Seq(Chunk) /\ Len(s) < MaxSaid /\ chunk \in Chunk /\ TRUE \in BOOLEAN
    OBVIOUS
  <2> QED BY ONLY <1>2, <1>5, <1>6, <1>8, <2>1, NarratedPlays
<1>10. /\ m.out \in Seq(AnEvent) /\ Hears(m.out, a, m.norm, StoppedCalls(m.norm), TRUE, {}, t)
       /\ TookNarrated(n, m.norm, chunk, k)
  BY <1>9 DEF m, t, k
<1> DEFINE n1 == m.norm
<1>11. Recorded(n1, t)
  <2>1. TookNarrated(n, n1, chunk, Len(s) + 1)
    BY <1>10 DEF k
  <2> HIDE DEF n1
  <2>2. \A c \in Calls :
           LET mine == chunk.part = "tool" /\ chunk.call = c
           IN /\ n1.calls[c].named <=> n.calls[c].named \/ (mine /\ chunk.named)
              /\ n1.calls[c].args = IF mine /\ chunk.args THEN Append(n.calls[c].args, Len(s) + 1)
                                    ELSE n.calls[c].args
    BY <2>1 DEF TookNarrated
  <2>3. Recorded(n, s) /\ (chunk.part # "tool" => ~chunk.named)
        /\ (chunk.part = "tool" => chunk.call \in Calls)
    BY <1>2 DEF Fits, MaySayTo
  <2>4. Recorded(n1, Append(s, chunk))
    BY <1>2, <2>2, <2>3, RecordedOn
  <2> QED BY <2>4 DEF t
<1>12. n1 \in ANorm /\ n1.next <= Len(t) /\ Settled(n1) /\ Apart(n1)
  <2>1. n1 \in ANorm /\ n1.next <= n.next + 1 /\ Settled(n1) /\ Apart(n1)
    BY <1>2, <1>10 DEF TookNarrated, Fits
  <2>2. n1.next \in Nat
    BY <2>1, NormParts
  <2> QED BY <1>6, <2>1, <2>2
<1>13. Fits(n1, t, TRUE)
  BY <1>11, <1>12 DEF Fits
<1>14. PICK b \in Reading : \E now \in SUBSET StoppedCalls(n1) :
          Plays(m.out, a, b) /\ Tidy(b, n1, now, TRUE, {}) /\ Texts(b.events, t)
  BY <1>10 DEF Hears
<1>15. PICK now \in SUBSET StoppedCalls(n1) :
          Plays(m.out, a, b) /\ Tidy(b, n1, now, TRUE, {}) /\ Texts(b.events, t)
  BY <1>14
<1> HIDE DEF n1
<1>16. now \in SUBSET Calls /\ Behindhand(n1, t, TRUE, now)
  BY <1>15 DEF StoppedCalls, Behindhand
<1>17. Between(b, n1, t, TRUE)
  BY <1>3, <1>13, <1>15, <1>16 DEF Between
<1> QED BY <1>10, <1>12, <1>15, <1>17 DEF n1, m, t, k

(* The chunk of another.                                                   *)
LEMMA IngestedArrives ==
    ASSUME NEW a \in Reading, NEW n, NEW s \in Seq(Chunk), Between(a, n, s, FALSE),
           Len(s) < MaxSaid, NEW chunk \in Chunk, MaySayTo(n, chunk, FALSE)
    PROVE  LET m == Ingest(n, chunk, Len(s) + 1)
               t == Append(s, chunk)
           IN /\ m.out \in Seq(AnEvent) /\ m.norm \in ANorm
              /\ \E b \in Reading : Plays(m.out, a, b) /\ Between(b, m.norm, t, FALSE)
<1> DEFINE k == Len(s) + 1
           t == Append(s, chunk)
           m == Ingest(n, chunk, k)
           ordered == InTurn(t, FALSE)
           lost == LostIn(t, FALSE)
           x == chunk.call
<1>1. PICK told \in SUBSET Calls : /\ Tidy(a, n, told, InTurn(s, FALSE), LostIn(s, FALSE))
                                   /\ Behindhand(n, s, FALSE, told)
  BY DEF Between
<1>2. Texts(a.events, s) /\ Fits(n, s, FALSE) /\ n \in ANorm /\ Numbered(n) /\ StoppedCalls(n) \subseteq told
  BY <1>1 DEF Between, Tidy, Keeps, Numbered
<1>3. ordered \in BOOLEAN /\ InTurn(s, FALSE) \in BOOLEAN /\ (ordered => InTurn(s, FALSE))
  BY TurnBefore DEF InTurn, OnePieceOnIn
<1>4. LostIn(s, FALSE) \subseteq lost
  BY OvertakenOn DEF LostIn
<1>5. t \in Seq(Chunk) /\ Len(t) = Len(s) + 1 /\ n.next \in Nat /\ n.next <= Len(s) /\ Len(s) \in Nat
  BY <1>2, SaidMore, NormParts DEF Fits
<1>6. /\ chunk.part \in {"text", "thinking", "tool", "none"} /\ chunk.finish \in BOOLEAN
      /\ chunk.part \in Spoken => chunk.part # "tool" /\ chunk.part # "none"
  BY DEF Chunk, Spoken
<1> HIDE DEF k, m, t, ordered, lost
<1>7. Tidy(a, n, told, ordered, lost)
  BY <1>1, <1>3, <1>4, TidyMore
<1>8. MayHear(n, chunk, told, ordered, lost)
  <2>1. chunk.part # "tool" => (chunk.part = "none" <=> chunk.finish)
    BY <1>6 DEF MaySayTo
  <2>2. ASSUME chunk.part = "tool"
        PROVE  /\ x \in Calls /\ ~n.calls[x].stopped
               /\ ordered => x \notin told
               /\ n.calls[x].started \/ StartedCalls(n) \ told \subseteq lost
    <3>1. x \in Calls /\ ~n.calls[x].stopped
      BY <2>2 DEF MaySayTo
    <3>2. ASSUME ordered PROVE x \notin told
      <4>1. OnePieceOnIn(Append(s, chunk))
        BY <3>2 DEF ordered, InTurn, t
      <4>2. ~Left(x, s)
        BY <2>2, <4>1, LeftForGood
      <4> QED BY <1>1, <3>1, <4>2 DEF Behindhand
    <3>3. ASSUME ~n.calls[x].started, NEW c \in StartedCalls(n) \ told PROVE c \in lost
      <4>1. c \in Ended(n) /\ c \in Calls /\ c # x
        BY <1>2, <3>3, StartedOrStopped DEF StartedCalls
      <4>2. Unfinished(c, s)
        BY <1>2, <4>1 DEF Fits
      <4>3. OvertakenIn(c, Append(s, chunk))
        BY <2>2, <4>1, <4>2, OvertakenOn
      <4> QED BY <4>1, <4>3 DEF lost, LostIn, t
    <3> QED BY <3>1, <3>2, <3>3
  <2> QED BY <1>6, <2>1, <2>2 DEF MayHear
<1>9. LET m1 == Ingest(n, chunk, Len(s) + 1)
          most == Behind(n, told, m1.norm, chunk)
      IN /\ m1.out \in Seq(AnEvent)
         /\ Hears(m1.out, a, m1.norm, most, ordered, lost, Append(s, chunk))
         /\ Took(n, m1.norm, chunk, Len(s) + 1)
  <2>1. a \in Reading /\ s \in Seq(Chunk) /\ Len(s) < MaxSaid /\ chunk \in Chunk
    OBVIOUS
  <2> QED BY ONLY <1>2, <1>3, <1>5, <1>7, <1>8, <2>1, IngestPlays
<1> DEFINE n1 == m.norm
           most == Behind(n, told, n1, chunk)
<1>10. m.out \in Seq(AnEvent) /\ Hears(m.out, a, n1, most, ordered, lost, t) /\ Took(n, n1, chunk, k)
  BY <1>9 DEF m, t, k
<1> HIDE DEF n1
<1>11. Recorded(n1, t)
  <2>1. \A c \in Calls :
           LET mine == chunk.part = "tool" /\ chunk.call = c
           IN /\ n1.calls[c].named <=> n.calls[c].named \/ (mine /\ chunk.named)
              /\ n1.calls[c].args = IF mine /\ chunk.args THEN Append(n.calls[c].args, Len(s) + 1)
                                    ELSE n.calls[c].args
    BY <1>10 DEF Took, k
  <2>2. Recorded(n, s) /\ (chunk.part # "tool" => ~chunk.named)
        /\ (chunk.part = "tool" => chunk.call \in Calls)
    BY <1>2 DEF Fits, MaySayTo
  <2>3. Recorded(n1, Append(s, chunk))
    BY <1>2, <2>1, <2>2, RecordedOn
  <2> QED BY <2>3 DEF t
<1>12. n1 \in ANorm /\ n1.next <= Len(t) /\ Settled(n1)
  <2>1. n1 \in ANorm /\ n1.next <= n.next + 1 /\ Settled(n1)
    BY <1>2, <1>10 DEF Took, Fits
  <2>2. n1.next \in Nat
    BY <2>1, NormParts
  <2> QED BY <1>5, <2>1, <2>2
<1>13. ASSUME NEW c \in Ended(n1) PROVE Unfinished(c, t)
  <2>1. c \in Calls /\ n1.calls[c].started /\ n1.calls[c].named
    BY <1>12, <1>13 DEF Ended, Settled
  <2>2. ~chunk.finish /\ (c \in Ended(n) \/ (chunk.part = "tool" /\ x = c))
    BY <1>10, <1>13, <2>1 DEF Took
  <2>3. CASE c \in Ended(n)
    <3>1. Unfinished(c, s)
      BY <1>2, <2>3 DEF Fits
    <3> QED BY <2>2, <3>1, UnfinishedOn DEF t
  <2>4. CASE c \notin Ended(n)
    <3>1. chunk.part = "tool" /\ x = c /\ ~n.calls[c].stopped
      BY <2>2, <2>4 DEF MaySayTo
    <3>2. ~n.calls[c].started
      BY <2>1, <2>4, <3>1 DEF Ended
    <3>3. ~n.calls[c].named
      BY <1>2, <2>1, <3>2 DEF Fits, Settled
    <3>4. chunk.named
      BY <1>10, <2>1, <3>1, <3>3 DEF Took
    <3> QED BY <2>2, <3>1, <3>4, UnfinishedOn DEF t
  <2> QED BY <2>3, <2>4
<1>14. Fits(n1, t, FALSE)
  BY <1>11, <1>12, <1>13 DEF Fits
<1>15. most \subseteq Calls /\ Behindhand(n1, t, FALSE, most)
  <2>1. most \subseteq Calls
    BY DEF Behind, StoppedCalls, StartedCalls
  <2>2. ASSUME NEW c \in told PROVE n1.calls[c].stopped \/ Left(c, t)
    <3>1. n.calls[c].stopped \/ Left(c, s)
      BY <1>1 DEF Behindhand
    <3>2. n.calls[c].stopped => n1.calls[c].stopped
      BY <1>10 DEF Took
    <3>3. Left(c, s) => Left(c, t)
      BY LeftOn DEF t
    <3> QED BY <3>1, <3>2, <3>3
  <2>3. ASSUME NEW c \in StartedCalls(n), CallOf(chunk) # c PROVE Left(c, t)
    <3>1. c \in Calls /\ n.calls[c].named
      BY <1>2 DEF StartedCalls, Fits, Settled
    <3>2. \E j \in DOMAIN s : s[j].part = "tool" /\ s[j].call = c
      BY <1>2, <3>1 DEF Fits, Recorded
    <3> QED BY <2>3, <3>2, LeftOn DEF t
  <2>4. \A c \in StoppedCalls(n1) : n1.calls[c].stopped
    BY DEF StoppedCalls
  <2> QED BY <2>1, <2>2, <2>3, <2>4 DEF Behindhand, Behind
<1> HIDE DEF most
<1>16. PICK b \in Reading : \E now \in SUBSET most :
          Plays(m.out, a, b) /\ Tidy(b, n1, now, ordered, lost) /\ Texts(b.events, t)
  BY <1>10 DEF Hears
<1>17. PICK now \in SUBSET most :
          Plays(m.out, a, b) /\ Tidy(b, n1, now, ordered, lost) /\ Texts(b.events, t)
  BY <1>16
<1>18. now \in SUBSET Calls /\ Behindhand(n1, t, FALSE, now)
  BY <1>15, <1>17 DEF Behindhand
<1>19. Between(b, n1, t, FALSE)
  BY <1>14, <1>17, <1>18 DEF Between, ordered, lost
<1> QED BY <1>10, <1>12, <1>17, <1>19 DEF n1, m, t, k

LEMMA ChunkArrives ==
    ASSUME NEW a \in Reading, NEW n, NEW s \in Seq(Chunk), NEW narrates \in BOOLEAN,
           Between(a, n, s, narrates), Len(s) < MaxSaid,
           NEW chunk \in Chunk, MaySayTo(n, chunk, narrates)
    PROVE  LET m == AfterChunk(n, chunk, Len(s) + 1, narrates)
               t == Append(s, chunk)
           IN /\ m.out \in Seq(AnEvent) /\ m.norm \in ANorm
              /\ \E b \in Reading : Plays(m.out, a, b) /\ Between(b, m.norm, t, narrates)
<1>1. CASE narrates = TRUE
  <2>1. Between(a, n, s, TRUE) /\ MaySayTo(n, chunk, TRUE)
    BY <1>1
  <2>2. AfterChunk(n, chunk, Len(s) + 1, narrates) = Narrated(n, chunk, Len(s) + 1)
    BY <1>1 DEF AfterChunk
  <2> QED BY <1>1, <2>1, <2>2, NarratedArrives
<1>2. CASE narrates = FALSE
  <2>1. Between(a, n, s, FALSE) /\ MaySayTo(n, chunk, FALSE)
    BY <1>2
  <2>2. AfterChunk(n, chunk, Len(s) + 1, narrates) = Ingest(n, chunk, Len(s) + 1)
    BY <1>2 DEF AfterChunk
  <2> QED BY <1>2, <2>1, <2>2, IngestedArrives
<1> QED BY <1>1, <1>2

-----------------------------------------------------------------------------
(* What the reply is when the stream has been read.                        *)
WholeCalls(es, s, ordered) ==
    \A i \in DOMAIN es : es[i].type = "tool" =>
        /\ ordered => Lists(es[i].pieces, ArgsOf(s, es[i].call))
        /\ \A j \in DOMAIN es : es[j].type = "tool" /\ es[j].call = es[i].call => j = i

AllReported(es, s, lost) ==
    \A k \in DOMAIN s : s[k].named =>
        \/ s[k].call \in lost
        \/ \E i \in DOMAIN es : es[i].type = "tool" /\ es[i].call = s[k].call

Concluded(a, s, narrates) ==
    /\ Texts(a.events, s)
    /\ WholeCalls(a.events, s, InTurn(s, narrates))
    /\ a.phase = "over" => AllReported(a.events, s, LostIn(s, narrates))

LEMMA ReportedWhole ==
    ASSUME NEW es, NEW n \in ANorm, NEW told, NEW ordered \in BOOLEAN, NEW lost, NEW s,
           Reported(es, n, told, ordered, lost), Settled(n), Recorded(n, s)
    PROVE  WholeCalls(es, s, ordered) /\ (told = StartedCalls(n) => AllReported(es, s, lost))
<1>1. ASSUME ordered, NEW i \in DOMAIN es, es[i].type = "tool"
      PROVE  Lists(es[i].pieces, ArgsOf(s, es[i].call))
  <2> DEFINE c == es[i].call
  <2>1. c \in told /\ told \subseteq StartedCalls(n) /\ es[i].pieces = Given(n, c)
    BY <1>1 DEF Reported
  <2> HIDE DEF c
  <2>2. c \in Calls /\ n.calls[c].started
    BY <2>1 DEF StartedCalls
  <2>3. n.calls[c].sent = Len(n.calls[c].args) /\ n.calls[c].args \in Seq(Pieces)
    BY <2>2, NormParts, CallParts DEF Settled
  <2>4. Given(n, c) = n.calls[c].args
    <3>1. Len(n.calls[c].args) \in Nat
      BY <2>3
    <3>2. SubSeq(n.calls[c].args, 1, Len(n.calls[c].args)) = n.calls[c].args
      BY <2>3, <3>1, FirstAndRest
    <3> QED BY <2>3, <3>2 DEF Given
  <2> QED BY <2>1, <2>2, <2>4 DEF Recorded, c
<1>2. WholeCalls(es, s, ordered)
  BY <1>1 DEF WholeCalls, Reported
<1>3. ASSUME told = StartedCalls(n), NEW k \in DOMAIN s, s[k].named
      PROVE  \/ s[k].call \in lost
             \/ \E i \in DOMAIN es : es[i].type = "tool" /\ es[i].call = s[k].call
  <2>1. s[k].call \in Calls /\ n.calls[s[k].call].named
    BY <1>3 DEF Recorded
  <2>2. s[k].call \in told
    BY <1>3, <2>1 DEF StartedCalls, Settled
  <2> QED BY <2>2 DEF Reported
<1> QED BY <1>2, <1>3 DEF AllReported

LEMMA BetweenFinished ==
    ASSUME NEW a, NEW n, NEW s, NEW narrates \in BOOLEAN, Between(a, n, s, narrates)
    PROVE  Concluded(a, s, narrates)
<1> DEFINE ordered == InTurn(s, narrates)
           lost == LostIn(s, narrates)
<1>1. PICK told \in SUBSET Calls : Tidy(a, n, told, ordered, lost)
  BY DEF Between
<1>2. Texts(a.events, s) /\ Settled(n) /\ Recorded(n, s) /\ ordered \in BOOLEAN
  BY DEF Between, Fits, InTurn, OnePieceOnIn
<1> HIDE DEF ordered, lost
<1>3. Shows(a, n) /\ n \in ANorm /\ Reported(a.events, n, told, ordered, lost)
  BY <1>1 DEF Tidy, Keeps, Numbered, Holds
<1>4. a.phase # "over"
  BY <1>3 DEF Shows
<1>5. WholeCalls(a.events, s, ordered)
  BY <1>2, <1>3, ReportedWhole
<1> QED BY <1>2, <1>4, <1>5 DEF Concluded, ordered

LEMMA EndArrives ==
    ASSUME NEW a \in Reading, NEW n, NEW s, NEW narrates \in BOOLEAN, Between(a, n, s, narrates)
    PROVE  LET m == Completed(n)
           IN /\ m.out \in Seq(AnEvent) /\ m.norm \in ANorm /\ m.norm.next = n.next
              /\ \E b \in Reading : Plays(m.out, a, b) /\ Concluded(b, s, narrates)
<1> DEFINE m == Completed(n)
           ordered == InTurn(s, narrates)
           lost == LostIn(s, narrates)
<1>1. PICK told \in SUBSET Calls : Tidy(a, n, told, ordered, lost)
  BY DEF Between
<1>2. /\ Texts(a.events, s) /\ Settled(n) /\ Recorded(n, s) /\ ordered \in BOOLEAN
      /\ n \in ANorm /\ a \in Reading
  BY <1>1 DEF Between, Fits, Tidy, Keeps, Numbered, InTurn, OnePieceOnIn
<1> HIDE DEF ordered, lost
<1>3. LET m1 == Completed(n)
      IN /\ m1.out \in Seq(AnEvent) /\ Ending(m1.out, a, n, ordered, lost, s)
         /\ m1.norm \in ANorm /\ m1.norm.next = n.next
  BY ONLY <1>1, <1>2, CompletedPlays
<1> HIDE DEF m
<1>4. /\ m.out \in Seq(AnEvent) /\ Ending(m.out, a, n, ordered, lost, s)
      /\ m.norm \in ANorm /\ m.norm.next = n.next
  BY <1>3 DEF m
<1>5. PICK b \in Reading : /\ Plays(m.out, a, b) /\ Texts(b.events, s)
                           /\ Reported(b.events, n, StartedCalls(n), ordered, lost)
  BY <1>4 DEF Ending
<1>6. WholeCalls(b.events, s, ordered) /\ AllReported(b.events, s, lost)
  BY <1>2, <1>5, ReportedWhole
<1>7. Concluded(b, s, narrates)
  BY <1>5, <1>6 DEF Concluded, ordered, lost
<1> QED BY <1>4, <1>5, <1>7 DEF m

(* A reading that is over has one stop, at its end; another has none.       *)
Stops(es) ==
    /\ es # <<>> /\ es[Len(es)].type = "end"
    /\ \A i \in DOMAIN es : es[i].type = "end" => i = Len(es)

Closes(a) ==
    IF a.phase = "over" THEN Stops(a.events)
    ELSE \A i \in DOMAIN a.events : a.events[i].type # "end"

LEMMA StopsAfter ==
    ASSUME NEW es \in Seq(AReport), NEW r, r.type = "end",
           \A i \in DOMAIN es : es[i].type # "end"
    PROVE  Stops(Append(es, r))
<1> DEFINE more == Append(es, r)
<1>1. /\ Len(more) = Len(es) + 1 /\ Len(es) \in Nat /\ DOMAIN more = 1 .. Len(es) + 1
      /\ DOMAIN es = 1 .. Len(es) /\ more[Len(es) + 1] = r
      /\ \A i \in 1 .. Len(es) : more[i] = es[i]
  OBVIOUS
<1> HIDE DEF more
<1>2. more # <<>>
  BY <1>1
<1>3. \A i \in DOMAIN more : i \in DOMAIN es \/ i = Len(more)
  BY <1>1
<1>4. Stops(more)
  BY <1>1, <1>2, <1>3 DEF Stops
<1> QED BY <1>4 DEF more

LEMMA ReadsCloses ==
    ASSUME NEW e \in AnEvent, NEW a \in Reading, NEW b \in Reading, Reads(e, a, b), Closes(a)
    PROVE  Closes(b)
<1>1. /\ a.events \in Seq(AReport) /\ a.phase # "over" /\ e.part # "end"
      /\ b.events = EventsAfter(e, a.tool, a.events)
      /\ \A i \in DOMAIN a.events : a.events[i].type # "end"
  <2>1. a.phase # "over"
    BY DEF Reads, BlocksAfter
  <2>2. e.part # "end"
    BY DEF AnEvent
  <2> QED BY <2>1, <2>2, ReadingParts DEF Reads, Closes
<1>2. CASE e.type = "end"
  <2>1. b.phase = "over" /\ b.events = Append(a.events, Said("end", NoTool, <<>>))
    BY <1>1, <1>2 DEF Reads, BlocksAfter, EventsAfter
  <2>2. Said("end", NoTool, <<>>).type = "end"
    BY DEF Said
  <2> HIDE DEF Said
  <2> QED BY <1>1, <2>1, <2>2, StopsAfter DEF Closes
<1>3. CASE e.type # "end"
  <2>1. b.phase # "over"
    BY <1>1, <1>3 DEF Reads, BlocksAfter
  <2>2. b.events = a.events \/ \E r : r.type # "end" /\ b.events = Append(a.events, r)
    BY <1>1, <1>3 DEF EventsAfter, Said
  <2>3. \A i \in DOMAIN b.events : b.events[i].type # "end"
    <3>1. CASE b.events = a.events
      BY <1>1, <3>1
    <3>2. CASE \E r : r.type # "end" /\ b.events = Append(a.events, r)
      <4>1. PICK r : r.type # "end" /\ b.events = Append(a.events, r)
        BY <3>2
      <4>2. /\ DOMAIN b.events = 1 .. Len(a.events) + 1 /\ DOMAIN a.events = 1 .. Len(a.events)
            /\ b.events[Len(a.events) + 1] = r /\ Len(a.events) \in Nat
            /\ \A i \in 1 .. Len(a.events) : b.events[i] = a.events[i]
        BY <1>1, <4>1
      <4>3. \A i \in 1 .. Len(a.events) + 1 : i \in 1 .. Len(a.events) \/ i = Len(a.events) + 1
        BY <4>2
      <4> QED BY <1>1, <4>1, <4>2, <4>3
    <3> QED BY <2>2, <3>1, <3>2
  <2> QED BY <2>1, <2>3 DEF Closes
<1> QED BY <1>2, <1>3

LEMMA OverEnds ==
    ASSUME NEW s \in Seq(AnEvent), NEW a, NEW b, Plays(s, a, b), a.phase = "over"
    PROVE  s = <<>> /\ b = a
<1>1. s = <<>>
  <2>1. SUFFICES ASSUME s # <<>> PROVE FALSE
    OBVIOUS
  <2>2. PICK c \in Reading : Reads(Head(s), a, c)
    BY <2>1, PlaysHead
  <2> QED BY <2>2 DEF Reads, BlocksAfter
<1> QED BY <1>1, PlayedNothing

(* Where a stream begins.                                                  *)
FirstReading == [phase |-> "none", open |-> {}, closed |-> {}, tool |-> Nothing, events |-> <<>>]

LEMMA FreshBetween ==
    ASSUME NEW narrates \in BOOLEAN
    PROVE  /\ FirstReading \in Reading /\ NewNorm \in ANorm /\ NewNorm.next = 0
           /\ Between(FirstReading, NewNorm, <<>>, narrates) /\ Closes(FirstReading)
<1> DEFINE a == FirstReading
           n == NewNorm
<1>1. /\ a.phase = "none" /\ a.open = {} /\ a.closed = {} /\ a.tool = Nothing /\ a.events = <<>>
      /\ a \in Reading
  <2>1. <<>> \in Seq(AReport) /\ Nothing \in ATool
    BY NothingIs
  <2> QED BY <2>1 DEF FirstReading, Reading
<1>2. /\ n.started = FALSE /\ n.next = 0 /\ \A p \in Spoken : n.block[p] = NoBlock
      /\ \A c \in Calls : n.calls[c] = NoCall
      /\ n.block = [part \in Spoken |-> NoBlock] /\ n.calls = [c \in Calls |-> NoCall]
  BY DEF NewNorm
<1>3. /\ NoCall.named = FALSE /\ NoCall.args = <<>> /\ NoCall.sent = 0 /\ NoCall.block = NoBlock
      /\ NoCall.started = FALSE /\ NoCall.stopped = FALSE /\ NoCall \in ACall
  BY DEF NoCall, ACall
<1>4. n \in ANorm
  BY <1>3 DEF NewNorm, ANorm
<1> HIDE DEF a, n
<1>5. Numbered(n)
  BY <1>2, <1>3, <1>4, Numbers DEF Numbered, SpokenNumbered, CallNumbered
<1>6. Ended(n) = {} /\ StartedCalls(n) = {} /\ StoppedCalls(n) = {}
  BY <1>2, <1>3 DEF Ended, StartedCalls, StoppedCalls
<1>7. Shows(a, n)
  BY <1>1, <1>2, <1>6, Numbers DEF Shows, Live
<1>8. ASSUME NEW ordered, NEW lost PROVE Tidy(a, n, {}, ordered, lost)
  <2>1. DOMAIN <<>> = {}
    OBVIOUS
  <2>2. Reported(a.events, n, {}, ordered, lost)
    BY <1>1, <2>1 DEF Reported
  <2>3. Assembled(a.tool, n, {}, ordered)
    BY <1>1, <1>6 DEF Assembled
  <2> QED BY <1>1, <1>5, <1>6, <1>7, <2>2, <2>3 DEF Holds, Tidy, Keeps
<1>9. Texts(a.events, <<>>)
  BY <1>1 DEF Texts, InOrderIn, AllToldIn
<1>10. Fits(n, <<>>, narrates)
  <2>1. DOMAIN <<>> = {} /\ Len(<<>>) = 0
    OBVIOUS
  <2>2. \A c \in Calls : Lists(n.calls[c].args, ArgsOf(<<>>, c))
    BY <1>2, <1>3, <2>1 DEF Lists, ArgsOf
  <2>3. Recorded(n, <<>>)
    BY <1>2, <1>3, <2>1, <2>2 DEF Recorded
  <2>4. Settled(n)
    BY <1>2, <1>3 DEF Settled
  <2> QED BY <1>2, <1>6, <2>1, <2>3, <2>4 DEF Fits, Apart
<1>11. Closes(a)
  BY <1>1 DEF Closes
<1>12. Between(a, n, <<>>, narrates)
  <2>1. Tidy(a, n, {}, InTurn(<<>>, narrates), LostIn(<<>>, narrates))
    BY <1>8
  <2>2. Behindhand(n, <<>>, narrates, {}) /\ {} \in SUBSET Calls
    BY DEF Behindhand
  <2> QED BY <1>9, <1>10, <2>1, <2>2 DEF Between
<1> QED BY <1>1, <1>2, <1>4, <1>11, <1>12 DEF a, n

(* What handle_event does is what a reading says.                          *)
LEMMA HandleReads ==
    ASSUME NEW e \in AnEvent, NEW b \in Reading, Reads(e, NowRead, b), HandleEvent(e), Noted(e)
    PROVE  NowRead' = b
<1>1. BlocksAfter(e, NowRead, b) /\ b.tool = ToolAfter(e, tool) /\ b.events = EventsAfter(e, tool, events)
  BY DEF Reads, NowRead
<1>2. e.type \in {"start", "block", "delta", "stop", "usage", "end"}
  BY DEF AnEvent
<1>3. tool' = ToolAfter(e, tool) /\ events' = EventsAfter(e, tool, events)
  <2>1. CASE e.type = "block" /\ e.part = "tool"
    BY <2>1 DEF HandleEvent, ToolAfter, EventsAfter
  <2>2. CASE e.type = "delta" /\ e.part = "tool"
    BY <2>2 DEF HandleEvent, ToolAfter, EventsAfter
  <2>3. CASE e.type = "delta" /\ e.part # "tool"
    BY <2>3 DEF HandleEvent, ToolAfter, EventsAfter
  <2>4. CASE e.type = "stop"
    BY <2>4 DEF HandleEvent, ToolAfter, EventsAfter
  <2>5. CASE e.type \in {"usage", "end"}
    BY <2>5 DEF HandleEvent, ToolAfter, EventsAfter
  <2>6. CASE e.type = "start" \/ (e.type = "block" /\ e.part # "tool")
    BY <2>6 DEF HandleEvent, ToolAfter, EventsAfter
  <2> QED BY <1>2, <2>1, <2>2, <2>3, <2>4, <2>5, <2>6
<1>4. phase' = b.phase /\ open' = b.open /\ closed' = b.closed
  BY <1>1 DEF BlocksAfter, Noted, NowRead
<1>5. b = [phase |-> b.phase, open |-> b.open, closed |-> b.closed, tool |-> b.tool, events |-> b.events]
  BY DEF Reading
<1> QED BY <1>1, <1>3, <1>4, <1>5 DEF NowRead

-----------------------------------------------------------------------------
(* The invariant: what the events still to be read lead to is a reading     *)
(* that the normaliser's state, or the end of the stream, speaks for.       *)
Kinds ==
    /\ model \in Models /\ trying \in Models
    /\ toolsOff \in BOOLEAN /\ cancelled \in BOOLEAN /\ tools \in BOOLEAN
    /\ asked \in BOOLEAN /\ over \in BOOLEAN
    /\ at \in {"idle", "send", "stream", "answer", "done"}
    /\ round \in {"first", "plain", "fallback"} /\ outcome \in {"none", "ok", "failed"}
    /\ attempts \in Nat /\ streams \in 0 .. MaxStreams

Readable ==
    /\ tool \in ATool /\ phase \in {"none", "message", "over"}
    /\ open \subseteq Blocks /\ closed \subseteq Blocks

Chunked ==
    /\ said \in Seq(Chunk) /\ Len(said) <= MaxSaid /\ pending \in Seq(AnEvent)
    /\ norm \in ANorm /\ norm.next <= MaxSaid

LeadsTo(T) ==
    /\ Plays(pending, NowRead, T)
    /\ IF over THEN Concluded(T, said, Narrates) ELSE Between(T, norm, said, Narrates)

Streaming == at = "stream" => ~asked /\ Closes(NowRead) /\ \E T \in Reading : LeadsTo(T)

Fresh ==
    at = "send" =>
        /\ said = <<>> /\ norm = NewNorm /\ pending = <<>> /\ over = FALSE
        /\ tool = Nothing /\ events = <<>>
        /\ ~asked => phase = "none" /\ open = {} /\ closed = {}

GoodReply ==
    outcome = "ok" =>
        /\ at = "done" /\ Stops(events)
        /\ ~asked =>
              /\ \A part \in Spoken : /\ InOrderIn(events, said, part)
                                      /\ cancelled \/ AllToldIn(events, said, part)
              /\ WholeCalls(events, said, InTurn(said, Narrates))
              /\ phase = "over" => AllReported(events, said, LostIn(said, Narrates))

ProviderInv ==
    Kinds /\ Readable /\ Chunked /\ Streaming /\ Fresh /\ (at = "answer" => asked) /\ GoodReply

LEMMA InvMeans ==
    ASSUME ProviderInv
    PROVE  ReplyIsOneStream /\ CallsAreWhole /\ ProviderTypeOK
<1>1. \A part : (InOrder(part) <=> InOrderIn(events, said, part))
                /\ (AllTold(part) <=> AllToldIn(events, said, part))
  BY DEF InOrder, InOrderIn, AllTold, AllToldIn, Tells, TellsIn
<1>2. StopsOnce <=> Stops(events)
  BY DEF StopsOnce, Stops
<1>3. ReplyIsOneStream
  BY <1>1, <1>2 DEF ProviderInv, GoodReply, ReplyIsOneStream
<1>4. CallsAreWhole
  <2>1. OnePieceOn => InTurn(said, Narrates)
    BY DEF OnePieceOn, OnePieceOnIn, InTurn
  <2>2. \A c : Arguments(c) = ArgsOf(said, c)
    BY DEF Arguments, ArgsOf
  <2>3. \A c \in LostIn(said, Narrates) : Overtaken(c)
    BY DEF LostIn, OvertakenIn, Overtaken
  <2>4. WholeCalls(events, said, InTurn(said, Narrates)) =>
          \A i \in CallEvents :
              /\ OnePieceOn => Lists(events[i].pieces, Arguments(events[i].call))
              /\ \A j \in CallEvents : events[j].call = events[i].call => j = i
    BY <2>1, <2>2 DEF WholeCalls, CallEvents
  <2>5. AllReported(events, said, LostIn(said, Narrates)) =>
          \A k \in DOMAIN said : said[k].named =>
              \/ Overtaken(said[k].call)
              \/ \E i \in CallEvents : events[i].call = said[k].call
    BY <2>3 DEF AllReported, CallEvents
  <2> QED BY <2>4, <2>5 DEF ProviderInv, GoodReply, CallsAreWhole
<1>5. ProviderTypeOK
  <2>1. norm.next \in Blocks /\ norm.block \in [Spoken -> Blocks \cup {NoBlock}]
    <3>1. norm.next \in Nat /\ norm.block \in [Spoken -> Blocks \cup {NoBlock}]
      BY NormParts DEF ProviderInv, Chunked
    <3> QED BY <3>1, RetriesAssumption DEF ProviderInv, Chunked, Blocks
  <2>2. tool.call \in 0 .. MaxCalls /\ tool.args \in Seq(Pieces)
    BY DEF ProviderInv, Readable, ATool
  <2>3. open \cup closed \subseteq Blocks
    BY DEF ProviderInv, Readable
  <2> QED BY <2>1, <2>2, <2>3 DEF ProviderInv, Kinds, Readable, Chunked, ProviderTypeOK
<1> QED BY <1>3, <1>4, <1>5

LEMMA InvStarts == ProviderInit => ProviderInv
<1> SUFFICES ASSUME ProviderInit PROVE ProviderInv
  OBVIOUS
<1> USE DEF ProviderInit
<1>1. Kinds
  <2>1. 1 \in Models /\ 0 \in 0 .. MaxStreams
    BY RoutesAssumption, RetriesAssumption DEF Models
  <2> QED BY <2>1 DEF Kinds
<1>2. Readable
  BY NothingIs DEF Readable
<1>3. Chunked
  <2>1. NewNorm \in ANorm /\ NewNorm.next = 0
    BY FreshBetween
  <2> QED BY <2>1, RetriesAssumption DEF Chunked
<1> QED BY <1>1, <1>2, <1>3 DEF ProviderInv, Streaming, Fresh, GoodReply

(* A dispatch starts from nothing.                                         *)
LEMMA DispatchFresh ==
    ASSUME ProviderInv, NEW m \in Models, NEW r \in {"first", "plain", "fallback"}, Dispatch(m, r),
           outcome' \in {"none", "failed"}, model' \in Models, toolsOff' \in BOOLEAN,
           cancelled' \in BOOLEAN, tools' \in BOOLEAN, streams' \in 0 .. MaxStreams
    PROVE  ProviderInv'
<1>1. /\ at' = "send" /\ trying' = m /\ round' = r /\ asked' = FALSE /\ attempts' = 0
      /\ said' = <<>> /\ norm' = NewNorm /\ pending' = <<>> /\ over' = FALSE
      /\ tool' = Nothing /\ events' = <<>>
      /\ phase' = "none" /\ open' = {} /\ closed' = {}
  BY DEF Dispatch, NewReply
<1>2. Kinds'
  BY <1>1 DEF Kinds
<1>3. Readable'
  BY <1>1, NothingIs DEF Readable
<1>4. Chunked'
  <2>1. NewNorm \in ANorm /\ NewNorm.next = 0
    BY FreshBetween
  <2>2. <<>> \in Seq(Chunk) /\ Len(<<>>) = 0 /\ <<>> \in Seq(AnEvent) /\ MaxSaid \in Nat
    BY RetriesAssumption
  <2> QED BY <1>1, <2>1, <2>2 DEF Chunked
<1>5. Streaming' /\ Fresh' /\ (at' = "answer" => asked') /\ GoodReply'
  BY <1>1 DEF Streaming, Fresh, GoodReply
<1> QED BY <1>2, <1>3, <1>4, <1>5 DEF ProviderInv

LEMMA LeastFallback ==
    ASSUME Fallbacks # {}
    PROVE  (CHOOSE m \in Fallbacks : \A x \in Fallbacks : m <= x) \in Models
<1>1. Fallbacks \subseteq Models /\ Models \subseteq Nat
  BY RoutesAssumption DEF Fallbacks, Models
<1>2. \E m \in Fallbacks : \A x \in Fallbacks : m <= x
  <2>1. \A S \in SUBSET Nat : S # {} => \E m \in S : \A x \in S : m <= x
    <3>1. SUFFICES ASSUME NEW S \in SUBSET Nat, S # {}
                   PROVE  \E m \in S : \A x \in S : m <= x
      OBVIOUS
    <3>2. PICK m \in S : \A x \in Nat : <<x, m>> \in OpToRel(<, Nat) => x \notin S
      BY <3>1, NatLessThanWellFounded, WFMin
    <3>3. \A x \in S : ~(x < m)
      BY <3>2 DEF OpToRel
    <3> QED BY <3>3
  <2> QED BY <1>1, <2>1
<1> QED BY <1>1, <1>2

(* A dispatch has failed.                                                  *)
LEMMA FailsKeep ==
    ASSUME ProviderInv, at # "done", NEW e, Fails(e)
    PROVE  ProviderInv'
<1>1. outcome \in {"none", "failed"}
  BY DEF ProviderInv, Kinds, GoodReply
<1>2. Kinds
  BY DEF ProviderInv
<1>3. CASE toolsOff' = TRUE /\ tools' = FALSE /\ Dispatch(model, "plain") /\ UNCHANGED outcome
  BY <1>1, <1>2, <1>3, DispatchFresh DEF Fails, Kinds
<1>4. CASE /\ Fallbacks # {}
           /\ Dispatch(CHOOSE m \in Fallbacks : \A x \in Fallbacks : m <= x, "fallback")
           /\ UNCHANGED <<toolsOff, tools, outcome>>
  <2> DEFINE m == CHOOSE m \in Fallbacks : \A x \in Fallbacks : m <= x
  <2>1. m \in Models /\ Dispatch(m, "fallback")
    BY <1>4, LeastFallback
  <2> HIDE DEF m
  <2> QED BY <1>1, <1>2, <1>4, <2>1, DispatchFresh DEF Fails, Kinds
<1>5. CASE /\ at' = "done" /\ outcome' = "failed"
           /\ UNCHANGED <<toolsOff, tools, round, trying, asked, attempts, body, reply, read>>
  <2>1. UNCHANGED <<model, cancelled, streams>>
    BY DEF Fails
  <2>2. Kinds' /\ Readable' /\ Chunked'
    BY <1>2, <1>5, <2>1 DEF ProviderInv, Kinds, Readable, Chunked, body, reply, read
  <2>3. Streaming' /\ Fresh' /\ (at' = "answer" => asked') /\ GoodReply'
    BY <1>5 DEF Streaming, Fresh, GoodReply
  <2> QED BY <2>2, <2>3 DEF ProviderInv
<1> QED BY <1>3, <1>4, <1>5 DEF Fails

LEMMA AnsweredKeeps ==
    ASSUME ProviderInv, Answered
    PROVE  ProviderInv'
<1> USE DEF Answered, client, body, reply, read
<1>1. Kinds' /\ Readable' /\ Chunked'
  BY DEF ProviderInv, Kinds, Readable, Chunked
<1>2. Streaming'
  <2> SUFFICES ASSUME ~asked
               PROVE  ~asked' /\ Closes(NowRead') /\ \E T \in Reading : LeadsTo(T)'
    BY DEF Streaming
  <2>1. /\ said = <<>> /\ norm = NewNorm /\ pending = <<>> /\ over = FALSE
        /\ NowRead = FirstReading
    BY DEF ProviderInv, Fresh, NowRead, FirstReading
  <2>2. /\ said' = <<>> /\ norm' = NewNorm /\ pending' = <<>> /\ over' = FALSE
        /\ NowRead' = FirstReading /\ asked' = asked /\ Narrates' = Narrates
    BY <2>1 DEF NowRead, Narrates
  <2>3. Narrates \in BOOLEAN
    BY DEF Narrates
  <2>4. /\ FirstReading \in Reading /\ Closes(FirstReading)
        /\ Between(FirstReading, NewNorm, <<>>, Narrates)
    BY <2>3, FreshBetween
  <2>5. Plays(<<>>, FirstReading, FirstReading)
    BY <2>4, PlaysNothing
  <2> QED BY <2>2, <2>4, <2>5 DEF LeadsTo
<1>3. Fresh' /\ GoodReply' /\ (at' = "answer" => asked')
  BY DEF ProviderInv, Fresh, GoodReply
<1> QED BY <1>1, <1>2, <1>3 DEF ProviderInv

LEMMA RetryKeeps ==
    ASSUME ProviderInv, NEW e, Retry(e)
    PROVE  ProviderInv'
<1> USE DEF Retry, client, body, reply, read
<1>1. Kinds' /\ Readable' /\ Chunked'
  BY DEF ProviderInv, Kinds, Readable, Chunked
<1>2. Streaming' /\ Fresh' /\ (at' = "answer" => asked') /\ GoodReply'
  BY DEF ProviderInv, Streaming, Fresh, GoodReply
<1> QED BY <1>1, <1>2 DEF ProviderInv

LEMMA ArriveKeeps ==
    ASSUME ProviderInv, Arrive
    PROVE  ProviderInv'
<1>1. /\ at = "stream" /\ pending = <<>> /\ ~over /\ Len(said) < MaxSaid
      /\ UNCHANGED <<client, request, over, reply, read, outcome, streams>>
  BY DEF Arrive, Waiting
<1>2. PICK chunk \in Chunk :
        /\ MaySay(chunk) /\ said' = Append(said, chunk)
        /\ LET after == IF Narrates THEN Narrated(norm, chunk, Len(said) + 1)
                        ELSE Ingest(norm, chunk, Len(said) + 1)
           IN norm' = after.norm /\ pending' = after.out
  BY DEF Arrive
<1> DEFINE m == AfterChunk(norm, chunk, Len(said) + 1, Narrates)
<1>3. norm' = m.norm /\ pending' = m.out
  BY <1>2 DEF AfterChunk
<1>4. /\ ~asked /\ Closes(NowRead) /\ said \in Seq(Chunk) /\ Narrates \in BOOLEAN
      /\ \E T \in Reading : LeadsTo(T)
  BY <1>1 DEF ProviderInv, Streaming, Chunked, Narrates
<1>5. PICK T \in Reading : Plays(<<>>, NowRead, T) /\ Between(T, norm, said, Narrates)
  BY <1>1, <1>4 DEF LeadsTo
<1>6. T = NowRead
  BY <1>5, PlayedNothing
<1>7. MaySayTo(norm, chunk, Narrates)
  BY <1>2 DEF MaySay, MaySayTo
<1>8. LET m1 == AfterChunk(norm, chunk, Len(said) + 1, Narrates)
          t == Append(said, chunk)
      IN /\ m1.out \in Seq(AnEvent) /\ m1.norm \in ANorm
         /\ \E b \in Reading : Plays(m1.out, NowRead, b) /\ Between(b, m1.norm, t, Narrates)
  <2> HIDE DEF m
  <2> QED BY <1>1, <1>4, <1>5, <1>6, <1>7, ChunkArrives
<1> HIDE DEF m
<1>9. PICK b \in Reading : /\ m.out \in Seq(AnEvent) /\ m.norm \in ANorm
                           /\ Plays(m.out, NowRead, b)
                           /\ Between(b, m.norm, Append(said, chunk), Narrates)
  BY <1>8 DEF m
<1>10. NowRead' = NowRead /\ Narrates' = Narrates /\ over' = over /\ asked' = asked /\ at' = at
  BY <1>1 DEF NowRead, Narrates, reply, read, request
<1>11. Streaming'
  <2>1. LeadsTo(b)'
    BY <1>1, <1>2, <1>3, <1>9, <1>10 DEF LeadsTo
  <2> QED BY <1>4, <1>10, <2>1 DEF Streaming
<1>12. Chunked'
  <2>1. Append(said, chunk) \in Seq(Chunk) /\ Len(Append(said, chunk)) = Len(said) + 1
        /\ Len(said) \in Nat /\ MaxSaid \in Nat
    BY <1>4, SaidMore, RetriesAssumption
  <2>2. m.norm.next <= Len(said) + 1
    BY <1>9, <2>1 DEF Between, Fits
  <2>3. m.norm.next \in Nat
    BY <1>9, NormParts
  <2> QED BY <1>1, <1>2, <1>3, <1>9, <2>1, <2>2, <2>3 DEF Chunked
<1>13. Kinds' /\ Readable'
  BY <1>1 DEF ProviderInv, Kinds, Readable, client, request, reply, read
<1>14. Fresh' /\ (at' = "answer" => asked') /\ GoodReply'
  BY <1>1, <1>10 DEF ProviderInv, Fresh, GoodReply
<1> QED BY <1>11, <1>12, <1>13, <1>14 DEF ProviderInv

LEMMA BodyEndsKeeps ==
    ASSUME ProviderInv, BodyEnds
    PROVE  ProviderInv'
<1>1. /\ at = "stream" /\ pending = <<>> /\ ~over /\ over' = TRUE
      /\ UNCHANGED <<client, request, said, reply, read, outcome, streams>>
  BY DEF BodyEnds, Waiting
<1>2. /\ ~asked /\ Closes(NowRead) /\ Narrates \in BOOLEAN
      /\ \E T \in Reading : LeadsTo(T)
  BY <1>1 DEF ProviderInv, Streaming, Narrates
<1>3. PICK T \in Reading : Plays(<<>>, NowRead, T) /\ Between(T, norm, said, Narrates)
  BY <1>1, <1>2 DEF LeadsTo
<1>4. T = NowRead
  BY <1>3, PlayedNothing
<1>5. /\ NowRead' = NowRead /\ Narrates' = Narrates /\ asked' = asked /\ at' = at
      /\ said' = said
  BY <1>1 DEF NowRead, Narrates, reply, read, request
<1>6. /\ pending' \in Seq(AnEvent) /\ norm' \in ANorm /\ norm'.next = norm.next
      /\ \E b \in Reading : Plays(pending', NowRead, b) /\ Concluded(b, said, Narrates)
  <2>1. CASE norm' = Completed(norm).norm /\ pending' = Completed(norm).out
    <3>1. LET m == Completed(norm)
          IN /\ m.out \in Seq(AnEvent) /\ m.norm \in ANorm /\ m.norm.next = norm.next
             /\ \E b \in Reading : Plays(m.out, NowRead, b) /\ Concluded(b, said, Narrates)
      BY <1>2, <1>3, <1>4, EndArrives
    <3> QED BY <2>1, <3>1
  <2>2. CASE UNCHANGED <<norm, pending>>
    <3>1. Concluded(T, said, Narrates)
      BY <1>2, <1>3, BetweenFinished
    <3> QED BY <1>1, <1>3, <2>2, <3>1 DEF ProviderInv, Chunked
  <2> QED BY <2>1, <2>2 DEF BodyEnds
<1>7. PICK b \in Reading : Plays(pending', NowRead, b) /\ Concluded(b, said, Narrates)
  BY <1>6
<1>8. Streaming'
  <2>1. LeadsTo(b)'
    BY <1>1, <1>5, <1>7 DEF LeadsTo
  <2> QED BY <1>2, <1>5, <2>1 DEF Streaming
<1>9. Chunked'
  BY <1>5, <1>6 DEF ProviderInv, Chunked
<1>10. Kinds' /\ Readable'
  BY <1>1 DEF ProviderInv, Kinds, Readable, client, request, reply, read
<1>11. Fresh' /\ (at' = "answer" => asked') /\ GoodReply'
  BY <1>1, <1>5 DEF ProviderInv, Fresh, GoodReply
<1> QED BY <1>8, <1>9, <1>10, <1>11 DEF ProviderInv

LEMMA HandleKeeps ==
    ASSUME ProviderInv, Handle
    PROVE  ProviderInv'
<1> DEFINE e == Head(pending)
<1>1. /\ at = "stream" /\ pending # <<>> /\ pending' = Tail(pending)
      /\ HandleEvent(e) /\ Noted(e)
      /\ UNCHANGED <<client, request, said, norm, over, outcome, streams>>
  BY DEF Handle
<1>2. pending \in Seq(AnEvent) /\ e \in AnEvent /\ Tail(pending) \in Seq(AnEvent)
  BY <1>1 DEF ProviderInv, Chunked
<1>3. ~asked /\ Closes(NowRead) /\ \E T \in Reading : LeadsTo(T)
  BY <1>1 DEF ProviderInv, Streaming
<1>4. PICK T \in Reading : LeadsTo(T)
  BY <1>3
<1>5. Plays(pending, NowRead, T) /\ NowRead \in Reading
  BY <1>2, <1>4, PlayedGrows DEF LeadsTo
<1>6. PICK b \in Reading : Reads(e, NowRead, b) /\ Plays(Tail(pending), b, T)
  BY <1>1, <1>2, <1>5, PlaysHead
<1> HIDE DEF e
<1>7. NowRead' = b
  BY <1>1, <1>2, <1>6, HandleReads
<1>8. Closes(b)
  BY <1>2, <1>3, <1>5, <1>6, ReadsCloses
<1>9. /\ Narrates' = Narrates /\ asked' = asked /\ at' = at /\ over' = over
      /\ said' = said /\ norm' = norm
  BY <1>1 DEF Narrates, request
<1>10. Streaming'
  <2>1. LeadsTo(T)'
    BY <1>1, <1>4, <1>6, <1>7, <1>9 DEF LeadsTo
  <2> QED BY <1>3, <1>7, <1>8, <1>9, <2>1 DEF Streaming
<1>11. Readable'
  <2>1. tool' = b.tool /\ phase' = b.phase /\ open' = b.open /\ closed' = b.closed
    BY <1>7 DEF NowRead
  <2> QED BY <2>1, ReadingParts DEF Readable
<1>12. Chunked'
  BY <1>1, <1>2, <1>9 DEF ProviderInv, Chunked
<1>13. Kinds'
  BY <1>1 DEF ProviderInv, Kinds, client, request
<1>14. Fresh' /\ (at' = "answer" => asked') /\ GoodReply'
  BY <1>1, <1>9 DEF ProviderInv, Fresh, GoodReply
<1> QED BY <1>10, <1>11, <1>12, <1>13, <1>14 DEF ProviderInv

(* The beginning of a reply, and a reply with something else at its end.    *)
LEMMA WholeFirst ==
    ASSUME NEW es \in Seq(AReport), NEW more \in Seq(AReport), Grows(es, more), NEW s,
           NEW ordered, WholeCalls(more, s, ordered)
    PROVE  WholeCalls(es, s, ordered)
<1>1. \A i \in DOMAIN es : i \in DOMAIN more /\ more[i] = es[i]
  BY DEF Grows
<1> QED BY <1>1 DEF WholeCalls

LEMMA WholeMore ==
    ASSUME NEW es \in Seq(AReport), NEW r, r.type # "tool", NEW s, NEW ordered,
           WholeCalls(es, s, ordered)
    PROVE  WholeCalls(Append(es, r), s, ordered)
<1> DEFINE more == Append(es, r)
<1>1. /\ DOMAIN more = 1 .. Len(es) + 1 /\ DOMAIN es = 1 .. Len(es) /\ Len(es) \in Nat
      /\ more[Len(es) + 1] = r /\ \A i \in 1 .. Len(es) : more[i] = es[i]
  OBVIOUS
<1> HIDE DEF more
<1>2. \A i \in DOMAIN more : more[i].type = "tool" => i \in DOMAIN es /\ more[i] = es[i]
  <2>1. \A i \in DOMAIN more : i \in DOMAIN es \/ i = Len(es) + 1
    BY <1>1
  <2> QED BY <1>1, <2>1
<1>3. WholeCalls(more, s, ordered)
  BY <1>2 DEF WholeCalls
<1> QED BY <1>3 DEF more

(* The reply of a stream that has ended, or that the user has stopped.      *)
LEMMA ConcludeGood ==
    ASSUME ProviderInv, at = "stream", IF pending = <<>> THEN over ELSE cancelled, HasBody
    PROVE  /\ Stops(EnsureStop)
           /\ \A part \in Spoken : /\ InOrderIn(EnsureStop, said, part)
                                   /\ cancelled \/ AllToldIn(EnsureStop, said, part)
           /\ WholeCalls(EnsureStop, said, InTurn(said, Narrates))
           /\ phase = "over" => AllReported(EnsureStop, said, LostIn(said, Narrates))
<1>1. /\ Closes(NowRead) /\ pending \in Seq(AnEvent) /\ Narrates \in BOOLEAN
      /\ \E T \in Reading : LeadsTo(T)
  BY DEF ProviderInv, Streaming, Chunked, Narrates
<1>2. PICK T \in Reading : LeadsTo(T)
  BY <1>1
<1>3. Concluded(T, said, Narrates) /\ Plays(pending, NowRead, T)
  BY <1>1, <1>2, BetweenFinished DEF LeadsTo
<1>4. NowRead \in Reading /\ Grows(NowRead.events, T.events)
  BY <1>1, <1>3, PlayedGrows
<1>5. events = NowRead.events /\ phase = NowRead.phase /\ events \in Seq(AReport) /\ T.events \in Seq(AReport)
  BY <1>4, ReadingParts DEF NowRead
<1>6. (cancelled \/ T = NowRead) /\ (phase = "over" => T = NowRead)
  <2>1. pending = <<>> => T = NowRead
    BY <1>3, PlayedNothing
  <2>2. phase = "over" => T = NowRead
    BY <1>1, <1>3, <1>5, OverEnds
  <2> QED BY <2>1, <2>2
<1>7. \A part \in Spoken : /\ InOrderIn(events, said, part)
                           /\ cancelled \/ AllToldIn(events, said, part)
  <2>1. Texts(T.events, said)
    BY <1>3 DEF Concluded
  <2>2. \A part \in Spoken : InOrderIn(events, said, part)
    BY <1>4, <1>5, <2>1, TextsFirst
  <2> QED BY <1>5, <1>6, <2>1, <2>2 DEF Texts
<1>8. /\ WholeCalls(events, said, InTurn(said, Narrates))
      /\ phase = "over" => AllReported(events, said, LostIn(said, Narrates))
  <2>1. WholeCalls(T.events, said, InTurn(said, Narrates))
    BY <1>3 DEF Concluded
  <2>2. WholeCalls(events, said, InTurn(said, Narrates))
    BY <1>4, <1>5, <2>1, WholeFirst
  <2> QED BY <1>3, <1>5, <1>6, <2>2 DEF Concluded
<1>9. CASE Has("end")
  <2>1. EnsureStop = events
    BY <1>9 DEF EnsureStop
  <2>2. Stops(events)
    BY <1>1, <1>5, <1>9 DEF Closes, Has
  <2> QED BY <1>7, <1>8, <2>1, <2>2
<1>10. CASE ~Has("end")
  <2> DEFINE r == Said("end", NoTool, <<>>)
  <2>1. EnsureStop = Append(events, r)
    BY <1>10 DEF EnsureStop
  <2>2. r \in AReport /\ r.type = "end"
    <3>1. NoTool \in 0 .. MaxCalls /\ <<>> \in Seq(Pieces)
      BY NothingIs
    <3> QED BY <3>1 DEF Said, AReport
  <2> HIDE DEF r
  <2>3. \A i \in DOMAIN events : events[i].type # "end"
    BY <1>10 DEF Has
  <2>4. phase # "over"
    <3>1. SUFFICES ASSUME phase = "over" PROVE FALSE
      OBVIOUS
    <3>2. events # <<>> /\ events[Len(events)].type = "end"
      BY <1>1, <1>5, <3>1 DEF Closes, Stops
    <3>3. Len(events) \in DOMAIN events
      BY <1>5, <3>2
    <3> QED BY <2>3, <3>2, <3>3
  <2>5. Stops(Append(events, r))
    BY <1>5, <2>2, <2>3, StopsAfter
  <2>6. Append(events, r) \in Seq(AReport) /\ Unspoken(events, Append(events, r))
    BY <1>5, <2>2, AppendUnspoken DEF Spoken
  <2>7. \A part \in Spoken : /\ InOrderIn(Append(events, r), said, part)
                             /\ cancelled \/ AllToldIn(Append(events, r), said, part)
    BY <1>5, <1>7, <2>6, OrderKept, ToldKept
  <2>8. WholeCalls(Append(events, r), said, InTurn(said, Narrates))
    BY <1>5, <1>8, <2>2, WholeMore
  <2> QED BY <2>1, <2>4, <2>5, <2>7, <2>8
<1> QED BY <1>9, <1>10

LEMMA ConcludeKeeps ==
    ASSUME ProviderInv, Conclude
    PROVE  ProviderInv'
<1>1. at = "stream" /\ IF pending = <<>> THEN over ELSE cancelled
  BY DEF Conclude
<1>2. CASE HasBody /\ Succeeds(EnsureStop) /\ UNCHANGED <<body, tool, read, streams>>
  <2>1. /\ at' = "done" /\ outcome' = "ok" /\ events' = EnsureStop
        /\ model' = IF round = "fallback" THEN trying ELSE model
        /\ UNCHANGED <<toolsOff, cancelled, round, trying, tools, asked, attempts>>
        /\ UNCHANGED <<said, norm, pending, over, tool, phase, open, closed, heard, streams>>
    BY <1>2 DEF Succeeds, body, read
  <2>2. Narrates' = Narrates
    BY <2>1 DEF Narrates
  <2>3. GoodReply'
    <3>1. /\ Stops(EnsureStop)
          /\ \A part \in Spoken : /\ InOrderIn(EnsureStop, said, part)
                                  /\ cancelled \/ AllToldIn(EnsureStop, said, part)
          /\ WholeCalls(EnsureStop, said, InTurn(said, Narrates))
          /\ phase = "over" => AllReported(EnsureStop, said, LostIn(said, Narrates))
      BY <1>1, <1>2, ConcludeGood
    <3> DEFINE es == EnsureStop
    <3>2. events' = es /\ said' = said /\ cancelled' = cancelled /\ phase' = phase
      BY <2>1
    <3> HIDE DEF es
    <3> QED BY <2>1, <2>2, <3>1, <3>2 DEF GoodReply, es
  <2>4. Kinds' /\ Readable' /\ Chunked'
    BY <2>1 DEF ProviderInv, Kinds, Readable, Chunked
  <2>5. Streaming' /\ Fresh' /\ (at' = "answer" => asked')
    BY <2>1 DEF Streaming, Fresh
  <2> QED BY <2>3, <2>4, <2>5 DEF ProviderInv
<1>3. CASE /\ ~HasBody /\ at' = "send" /\ asked' = TRUE /\ attempts' = 0
           /\ said' = <<>> /\ norm' = NewNorm /\ pending' = <<>> /\ over' = FALSE
           /\ NewReply
           /\ UNCHANGED <<client, round, trying, tools, read, outcome, streams>>
  <2>1. tool' = Nothing /\ events' = <<>>
    BY <1>3 DEF NewReply
  <2>2. outcome # "ok"
    BY <1>1 DEF ProviderInv, GoodReply
  <2>3. Kinds' /\ Readable'
    BY <1>3, <2>1, NothingIs DEF ProviderInv, Kinds, Readable, client, read
  <2>4. Chunked'
    <3>1. NewNorm \in ANorm /\ NewNorm.next = 0
      BY FreshBetween
    <3>2. <<>> \in Seq(Chunk) /\ Len(<<>>) = 0 /\ <<>> \in Seq(AnEvent) /\ MaxSaid \in Nat
      BY RetriesAssumption
    <3> QED BY <1>3, <3>1, <3>2 DEF Chunked
  <2>5. Streaming' /\ Fresh' /\ (at' = "answer" => asked') /\ GoodReply'
    BY <1>3, <2>1, <2>2 DEF Streaming, Fresh, GoodReply
  <2> QED BY <2>3, <2>4, <2>5 DEF ProviderInv
<1> QED BY <1>2, <1>3 DEF Conclude

LEMMA AnswerStops ==
    ASSUME NEW W, NEW w \in Seq(W), \A x \in W : x.type # "end",
           NEW u, u.type # "end", NEW e, e.type = "end"
    PROVE  Stops(w \o <<u, e>>)
<1> DEFINE A == W \cup {u, e}
           es == w \o <<u, e>>
<1>1. w \in Seq(A) /\ <<u, e>> \in Seq(A)
  OBVIOUS
<1>2. /\ es \in Seq(A) /\ Len(es) = Len(w) + 2 /\ Len(w) \in Nat
      /\ \A i \in 1 .. Len(w) : es[i] = w[i]
      /\ es[Len(w) + 1] = u /\ es[Len(w) + 2] = e
  BY <1>1
<1>3. \A i \in 1 .. Len(w) : w[i].type # "end"
  OBVIOUS
<1> HIDE DEF es, A
<1>4. DOMAIN es = 1 .. Len(w) + 2 /\ es # <<>>
  BY <1>2
<1>5. \A i \in DOMAIN es : i \in 1 .. Len(w) \/ i = Len(w) + 1 \/ i = Len(es)
  BY <1>2, <1>4
<1>6. Stops(es)
  BY <1>2, <1>3, <1>4, <1>5 DEF Stops
<1> QED BY <1>6 DEF es

LEMMA AnswerKeeps ==
    ASSUME ProviderInv, Answer
    PROVE  ProviderInv'
<1>1. at = "answer" /\ asked /\ UNCHANGED <<body, tool, read, streams>>
  BY DEF Answer, ProviderInv
<1>2. PICK text \in BOOLEAN, calls \in 0 .. MaxCalls :
        LET words == IF text THEN <<Said("text", NoTool, <<1>>)>> ELSE <<>>
        IN Succeeds(words \o [i \in 1 .. calls |-> Said("tool", i - 1, <<>>)]
                    \o <<Said("usage", NoTool, <<>>), Said("end", NoTool, <<>>)>>)
  BY DEF Answer
<1> DEFINE words == IF text THEN <<Said("text", NoTool, <<1>>)>> ELSE <<>>
           tells == [i \in 1 .. calls |-> Said("tool", i - 1, <<>>)]
           w == words \o tells
           u == Said("usage", NoTool, <<>>)
           e == Said("end", NoTool, <<>>)
           W == {x \in [type : {"text", "tool"}, call : Nat, pieces : Seq(Nat)] : x.type # "end"}
<1>3. Succeeds(w \o <<u, e>>)
  BY <1>2
<1>4. words \in Seq(W) /\ tells \in Seq(W)
  <2>1. MaxCalls \in Nat /\ NoTool \in Nat /\ calls \in Nat
    BY RetriesAssumption DEF NoTool
  <2>2. <<>> \in Seq(Nat) /\ <<1>> \in Seq(Nat)
    OBVIOUS
  <2>3. Said("text", NoTool, <<1>>) \in W
    BY <2>1, <2>2 DEF Said
  <2>4. \A i \in 1 .. calls : Said("tool", i - 1, <<>>) \in W
    BY <2>1, <2>2 DEF Said
  <2> HIDE DEF W
  <2> QED BY <2>1, <2>3, <2>4
<1>5. u.type = "usage" /\ e.type = "end"
  BY DEF Said
<1>6. \A x \in W : x.type # "end"
  OBVIOUS
<1> HIDE DEF words, tells, u, e, W
<1>7. w \in Seq(W)
  BY <1>4
<1> HIDE DEF w
<1>8. Stops(w \o <<u, e>>)
  BY <1>5, <1>6, <1>7, AnswerStops
<1> DEFINE es == w \o <<u, e>>
<1> HIDE DEF es
<1>9. /\ at' = "done" /\ outcome' = "ok" /\ events' = es
      /\ model' = IF round = "fallback" THEN trying ELSE model
      /\ UNCHANGED <<toolsOff, cancelled, round, trying, tools, asked, attempts>>
  BY <1>3 DEF Succeeds, es
<1>10. GoodReply'
  BY <1>1, <1>8, <1>9 DEF GoodReply, es
<1>11. Kinds' /\ Readable' /\ Chunked'
  BY <1>1, <1>9 DEF ProviderInv, Kinds, Readable, Chunked, body, read
<1>12. Streaming' /\ Fresh' /\ (at' = "answer" => asked')
  BY <1>9 DEF Streaming, Fresh
<1> QED BY <1>10, <1>11, <1>12 DEF ProviderInv

LEMMA CancelKeeps ==
    ASSUME ProviderInv, Cancel
    PROVE  ProviderInv'
<1>1. /\ at \notin {"idle", "done"} /\ cancelled' = TRUE
      /\ UNCHANGED <<model, toolsOff, request, body, reply, read, outcome, streams>>
  BY DEF Cancel
<1>2. Kinds' /\ Readable' /\ Chunked'
  BY <1>1 DEF ProviderInv, Kinds, Readable, Chunked, request, body, reply, read
<1>3. NowRead' = NowRead /\ Narrates' = Narrates
  BY <1>1 DEF NowRead, Narrates, request, reply, read
<1>4. Streaming'
  BY <1>1, <1>3 DEF ProviderInv, Streaming, LeadsTo, request, body
<1>5. Fresh' /\ (at' = "answer" => asked') /\ GoodReply'
  BY <1>1 DEF ProviderInv, Fresh, GoodReply, request, body, reply, read
<1> QED BY <1>2, <1>4, <1>5 DEF ProviderInv

LEMMA StreamKeeps ==
    ASSUME ProviderInv, Stream
    PROVE  ProviderInv'
<1>1. /\ streams < MaxStreams /\ streams' = streams + 1 /\ tools' = ~toolsOff /\ outcome' = "none"
      /\ Dispatch(model, "first") /\ UNCHANGED <<model, toolsOff, cancelled>>
  BY DEF Stream, client
<1>2. streams' \in 0 .. MaxStreams
  BY <1>1, RetriesAssumption DEF ProviderInv, Kinds
<1> QED BY <1>1, <1>2, DispatchFresh DEF ProviderInv, Kinds

LEMMA InvGoesOn == ProviderInv /\ [ProviderNext]_providerVars => ProviderInv'
<1> SUFFICES ASSUME ProviderInv, [ProviderNext]_providerVars PROVE ProviderInv'
  OBVIOUS
<1>1. CASE Stream \/ Answered \/ Arrive \/ BodyEnds
  BY <1>1, StreamKeeps, AnsweredKeeps, ArriveKeeps, BodyEndsKeeps
<1>2. CASE Handle \/ Conclude \/ Answer \/ Cancel
  BY <1>2, HandleKeeps, ConcludeKeeps, AnswerKeeps, CancelKeeps
<1>3. CASE \E e \in Errors : Retry(e) \/ GiveUp(e) \/ Breaks(e) \/ AnswerFails(e)
  <2>1. PICK e \in Errors : Retry(e) \/ GiveUp(e) \/ Breaks(e) \/ AnswerFails(e)
    BY <1>3
  <2>2. CASE Retry(e)
    BY <2>2, RetryKeeps
  <2>3. CASE GiveUp(e) \/ Breaks(e) \/ AnswerFails(e)
    <3>1. at # "done" /\ Fails(e)
      BY <2>3 DEF GiveUp, Breaks, AnswerFails, Waiting
    <3> QED BY <3>1, FailsKeep
  <2> QED BY <2>1, <2>2, <2>3
<1>4. CASE UNCHANGED providerVars
  <2> USE <1>4 DEF providerVars, client, request, body, reply, read
  <2>1. NowRead' = NowRead /\ Narrates' = Narrates
    BY DEF NowRead, Narrates
  <2>2. Streaming'
    BY <2>1 DEF ProviderInv, Streaming, LeadsTo
  <2>3. GoodReply'
    BY <2>1 DEF ProviderInv, GoodReply
  <2> QED BY <2>2, <2>3 DEF ProviderInv, Kinds, Readable, Chunked, Fresh
<1> QED BY <1>1, <1>2, <1>3, <1>4 DEF ProviderNext, Resting

LEMMA InvAlways == ProviderSpec => []ProviderInv
BY InvStarts, InvGoesOn, PTL DEF ProviderSpec

-----------------------------------------------------------------------------
(* A reply that ApiClient::stream returns (conversation.rs) has the text    *)
(* and the reasoning of one response, in order, and all of it unless the    *)
(* user stopped it, with nothing of the attempts that broke off before it;   *)
(* and it ends with one stop.                                               *)
THEOREM RepliesAreOneStream == ProviderSpec => []ReplyIsOneStream
BY InvAlways, InvMeans, PTL

(* No call of a streamed reply, which the loop is about to run, is reported  *)
(* twice, and each has all the arguments that were said for it and nothing   *)
(* of another call's, as long as the pieces of a call come one after         *)
(* another; and a message that came to its end leaves out only a call that   *)
(* another has overtaken before anything ended it (openai_compat_stream.rs;  *)
(* stream.rs, pending_tool).                                               *)
THEOREM ReportedCallsAreWhole == ProviderSpec => []CallsAreWhole
BY InvAlways, InvMeans, PTL

(* The state that the readers keep while a reply streams (the normaliser of *)
(* openai_compat_stream.rs, the events it has pushed, the call under         *)
(* assembly) is always one of the states that they were written for.        *)
THEOREM ProviderTypeCorrect == ProviderSpec => []ProviderTypeOK
BY InvAlways, InvMeans, PTL

(* An event that is read is a step of the protocol of blocks.               *)
LEMMA HandleIsProtocol ==
    ASSUME ProviderInv, Handle
    PROVE  Protocol!Next \/ UNCHANGED Protocol!vars
<1> DEFINE e == Head(pending)
<1>1. at = "stream" /\ pending # <<>> /\ Noted(e)
  BY DEF Handle
<1>2. pending \in Seq(AnEvent) /\ e \in AnEvent
  BY <1>1 DEF ProviderInv, Chunked
<1>3. PICK T \in Reading : Plays(pending, NowRead, T)
  BY <1>1 DEF ProviderInv, Streaming, LeadsTo
<1>4. PICK b \in Reading : Reads(e, NowRead, b)
  BY <1>1, <1>2, <1>3, PlaysHead
<1>5. BlocksAfter(e, NowRead, b)
  BY <1>4 DEF Reads
<1> HIDE DEF e
<1> USE DEF Protocol!Next, Protocol!vars
<1>6. CASE e.type = "start"
  <2>1. Protocol!MessageStart
    BY <1>1, <1>5, <1>6 DEF Noted, BlocksAfter, NowRead, Protocol!MessageStart
  <2> QED BY <2>1
<1>7. CASE e.type = "block"
  <2>1. e.index \in Blocks /\ Protocol!BlockStart(e.index)
    BY <1>1, <1>5, <1>7 DEF Noted, BlocksAfter, NowRead, Protocol!BlockStart
  <2> QED BY <2>1
<1>8. CASE e.type = "delta"
  <2>1. e.index \in open /\ open \subseteq Blocks
    BY <1>5, <1>8 DEF BlocksAfter, NowRead, ProviderInv, Readable
  <2>2. Protocol!BlockDelta(e.index)
    BY <1>1, <1>8, <2>1 DEF Noted, Protocol!BlockDelta
  <2> QED BY <2>1, <2>2
<1>9. CASE e.type = "stop"
  <2>1. e.index \in open /\ open \subseteq Blocks
    BY <1>5, <1>9 DEF BlocksAfter, NowRead, ProviderInv, Readable
  <2>2. Protocol!BlockStop(e.index)
    BY <1>1, <1>9, <2>1 DEF Noted, Protocol!BlockStop
  <2> QED BY <2>1, <2>2
<1>10. CASE e.type = "usage"
  <2>1. UNCHANGED <<phase, open, closed, heard>>
    BY <1>1, <1>10 DEF Noted
  <2> QED BY <2>1
<1>11. CASE e.type = "end"
  <2>1. Protocol!MessageStop
    BY <1>1, <1>5, <1>11 DEF Noted, BlocksAfter, NowRead, Protocol!MessageStop
  <2> QED BY <2>1
<1>12. e.type \in {"start", "block", "delta", "stop", "usage", "end"}
  BY <1>2 DEF AnEvent
<1> QED BY <1>6, <1>7, <1>8, <1>9, <1>10, <1>11, <1>12

(* An attempt that fails ends the protocol where it is, or begins again.    *)
LEMMA FailsIsProtocol ==
    ASSUME NEW e, Fails(e)
    PROVE  Protocol!Next \/ UNCHANGED Protocol!vars
<1>1. (\E m, r : Dispatch(m, r)) \/ UNCHANGED <<phase, open, closed, heard>>
  BY DEF Fails, read
<1> QED BY <1>1 DEF Dispatch, Protocol!Next, Protocol!NewStream, Protocol!vars

(* What every reader hands on is a message of well-formed blocks: the start  *)
(* first, deltas only in a block that is open, no block opened twice, no     *)
(* block open at the end.  The normaliser of an OpenAI-compatible stream     *)
(* keeps to it whatever the order and the cuts of the chunks that it gets    *)
(* (openai_compat_stream.rs), and so the readers of its events need no       *)
(* other case.                                                              *)
THEOREM StreamsAreBlocks == ProviderSpec => EventsAreBlocks
<1>1. ProviderInit => Protocol!Silent
  BY DEF ProviderInit, Protocol!Silent
<1>2. ProviderInv /\ [ProviderNext]_providerVars => [Protocol!Next]_Protocol!vars
  <2> SUFFICES ASSUME ProviderInv, [ProviderNext]_providerVars
               PROVE  Protocol!Next \/ UNCHANGED Protocol!vars
    OBVIOUS
  <2>1. CASE Stream
    BY <2>1 DEF Stream, Dispatch, Protocol!Next, Protocol!NewStream
  <2>2. CASE Handle
    BY <2>2, HandleIsProtocol
  <2>3. CASE UNCHANGED <<phase, open, closed, heard>>
    BY <2>3 DEF Protocol!vars
  <2>4. CASE Answered \/ Arrive \/ BodyEnds \/ Conclude \/ Answer \/ Cancel
    <3>1. UNCHANGED <<phase, open, closed, heard>>
      BY <2>4 DEF Answered, Arrive, BodyEnds, Conclude, Answer, Cancel, read
    <3> QED BY <2>3, <3>1
  <2>5. CASE \E e \in Errors : Retry(e) \/ GiveUp(e) \/ Breaks(e) \/ AnswerFails(e)
    <3>1. PICK e \in Errors : Retry(e) \/ GiveUp(e) \/ Breaks(e) \/ AnswerFails(e)
      BY <2>5
    <3>2. CASE Retry(e)
      BY <2>3, <3>2 DEF Retry, read
    <3>3. CASE GiveUp(e) \/ Breaks(e) \/ AnswerFails(e)
      BY <3>3, FailsIsProtocol DEF GiveUp, Breaks, AnswerFails
    <3> QED BY <3>1, <3>2, <3>3
  <2>6. CASE UNCHANGED providerVars
    BY <2>3, <2>6 DEF providerVars, read
  <2> QED BY <2>1, <2>2, <2>4, <2>5, <2>6 DEF ProviderNext, Resting
<1> QED BY <1>1, <1>2, InvAlways, PTL DEF ProviderSpec, EventsAreBlocks, Protocol!Spec

(***************************************************************************)
(* Type correctness.                                                       *)
(***************************************************************************)

(* The least of some items is one of them, and there is none below it. *)
LEMMA LeastItem ==
    ASSUME NEW S \in SUBSET Items, S # {}
    PROVE  Least(S) \in S /\ \A j \in S : Least(S) <= j
<1>1. S \subseteq Nat
  BY LimitsAssumption DEF Items
<1>2. PICK least \in S : \A j \in S : ~(<<j, least>> \in OpToRel(<, Nat))
  BY <1>1, NatLessThanWellFounded, WFMin
<1>3. \A j \in S : least <= j
  <2>1. OpToRel(<, Nat) = {ss \in Nat \X Nat : ss[1] < ss[2]}
    BY DEF OpToRel
  <2>2. ASSUME NEW j \in S PROVE ~(j < least)
    BY <1>1, <1>2, <2>1
  <2> QED BY <1>1, <2>2, SMT
<1> QED BY <1>3 DEF Least

LEMMA ChunksIsNat == Chunks \in Nat
BY LimitsAssumption

LEMMA InitTypeOK == Init => TypeOK
<1> SUFFICES ASSUME Init PROVE TypeOK
  OBVIOUS
<1>1. job \in [Requests -> Job] /\ pc \in [Requests -> Places] /\ result \in [Requests -> Results]
  BY DEF Init, Places, Results
<1>2. /\ page \in [Providers -> Nat] /\ held \in [Requests -> Nat]
      /\ window \in [Providers -> [number : Nat, state : {"none", "open", "closing"}]]
  BY DEF Init, NoPage
<1>3. emitted \in [Requests -> 0 .. Chunks]
  <2>1. 0 \in 0 .. Chunks
    BY ChunksIsNat
  <2>2. emitted = [r \in Requests |-> 0]
    BY DEF Init
  <2> QED BY <2>1, <2>2
<1>4. /\ copy \in [Requests -> SUBSET Providers] /\ parser \in [Requests -> BOOLEAN]
      /\ site \in [Requests -> {"none", "runs", "threw", "ended", "failed"}]
  BY DEF Init
<1>5. /\ raw \in [Requests -> SUBSET Items] /\ parsed \in [Requests -> SUBSET Items]
      /\ got \in [Requests -> SUBSET Items]
  BY DEF Init
<1>6. /\ lock \in Requests \cup {None} /\ idle \subseteq Providers
      /\ revived \subseteq Providers /\ org \subseteq Providers
      /\ loggedIn \subseteq Providers /\ marker \subseteq Providers
      /\ cancel \subseteq Requests /\ dropped \subseteq Requests
  BY DEF Init
<1> QED BY <1>1, <1>2, <1>3, <1>4, <1>5, <1>6 DEF TypeOK

LEMMA ProviderOf == ASSUME TypeOK, NEW r \in Requests PROVE P(r) \in Providers
BY DEF TypeOK, P, Job

LEMMA ClosingType ==
    ASSUME TypeOK, NEW ps \in SUBSET Providers
    PROVE  /\ Without(ps) \in [Providers -> Nat]
           /\ Closing(ps) \in [Providers -> [number : Nat, state : {"none", "open", "closing"}]]
<1>1. Without(ps) \in [Providers -> Nat]
  BY DEF TypeOK, Without, NoPage
<1>2. ASSUME NEW p \in Providers
      PROVE  [window[p] EXCEPT !.state = "closing"] \in [number : Nat, state : {"none", "open", "closing"}]
  BY DEF TypeOK
<1>3. window \in [Providers -> [number : Nat, state : {"none", "open", "closing"}]]
  BY DEF TypeOK
<1>4. ASSUME NEW p \in Providers
      PROVE  Closing(ps)[p] \in [number : Nat, state : {"none", "open", "closing"}]
  BY <1>2, <1>3 DEF Closing
<1> QED BY <1>1, <1>4 DEF Closing

(* What Put and Parse do to an item. *)
LEMMA PutType ==
    ASSUME TypeOK, NEW r \in Requests, NEW item \in Items, Put(r, item)
    PROVE  raw' \in [Requests -> SUBSET Items] /\ dropped' \subseteq Requests
BY DEF TypeOK, Put

LEMMA GoType ==
    ASSUME TypeOK, NEW r \in Requests, NEW place \in Places, NEW how \in Results,
           Go(r, place) \/ End(r, how)
    PROVE  pc' \in [Requests -> Places] /\ result' \in [Requests -> Results]
BY DEF TypeOK, Go, End, Places
LEMMA NextTypeOK == TypeOK /\ [Next]_vars => TypeOK'
<1> SUFFICES ASSUME TypeOK, [Next]_vars PROVE TypeOK'
  OBVIOUS
<1> USE DEF vars, pool, account, course, stream
<1>1. ASSUME NEW r \in Requests, GetPage(r) PROVE TypeOK'
  <2> DEFINE stale == IF job[r].op = "send" THEN Stale ELSE {}
             kept  == Without(stale)
             found == Closing(stale)
  <2>1. stale \subseteq Providers /\ P(r) \in Providers
    BY ProviderOf DEF TypeOK, Stale
  <2>2. /\ kept \in [Providers -> Nat]
        /\ found \in [Providers -> [number : Nat, state : {"none", "open", "closing"}]]
    BY <2>1, ClosingType
  <2> HIDE DEF stale, kept, found
  <2>3. page' = kept
    BY <1>1 DEF GetPage, stale, kept
  <2>4. CASE /\ kept[P(r)] # NoPage
             /\ held' = [held EXCEPT ![r] = kept[P(r)]]
             /\ idle' = idle \ {P(r)} /\ window' = found
             /\ Go(r, "verify") /\ UNCHANGED <<lock, revived>>
    BY <1>1, <2>1, <2>2, <2>3, <2>4 DEF GetPage, TypeOK, Go, Places
  <2>5. CASE /\ window' = IF found[P(r)].state # "none" THEN found
                          ELSE [found EXCEPT ![P(r)] = [number |-> @.number + 1, state |-> "open"]]
             /\ held' = [held EXCEPT ![r] = window'[P(r)].number]
             /\ revived' = IF found[P(r)].state = "closing" THEN revived \cup {P(r)}
                           ELSE revived \ {P(r)}
             /\ lock' = r /\ Go(r, "loading") /\ UNCHANGED idle
    <3>1. window' \in [Providers -> [number : Nat, state : {"none", "open", "closing"}]]
      BY <2>1, <2>2, <2>5
    <3>2. held' \in [Requests -> Nat]
      BY <2>1, <2>5, <3>1 DEF TypeOK
    <3>3. revived' \subseteq Providers
      BY <2>1, <2>5 DEF TypeOK
    <3> QED BY <1>1, <2>2, <2>3, <2>5, <3>1, <3>2, <3>3 DEF GetPage, TypeOK, Go, Places
  <2>6. CASE window' = found /\ End(r, "failed") /\ UNCHANGED <<lock, idle, revived, held>>
    BY <1>1, <2>2, <2>3, <2>6 DEF GetPage, TypeOK, End, Places, Results
  <2> QED BY <1>1, <2>4, <2>5, <2>6 DEF GetPage, stale, kept, found
<1>2. ASSUME NEW r \in Requests, Loaded(r) PROVE TypeOK'
  BY <1>2, NoneAssumption DEF Loaded, TypeOK, Go, End, Places, Results
<1>3. ASSUME NEW r \in Requests, LoadTimesOut(r) PROVE TypeOK'
  BY <1>3, NoneAssumption DEF LoadTimesOut, TypeOK, Go, End, Places, Results
<1>4. ASSUME NEW r \in Requests, StartInit(r) PROVE TypeOK'
  BY <1>4, NoneAssumption DEF StartInit, TypeOK, Go, End, Places, Results
<1>5. ASSUME NEW r \in Requests, Discover(r) PROVE TypeOK'
  <2>1. org' \subseteq Providers
    BY <1>5, ProviderOf DEF Discover, TypeOK
  <2> QED BY <1>5, <2>1, NoneAssumption DEF Discover, TypeOK, Go, End, Places, Results
<1>6. ASSUME NEW r \in Requests, ProbeCookies(r) PROVE TypeOK'
  BY <1>6, NoneAssumption DEF ProbeCookies, TypeOK, Go, End, Places, Results
<1>7. ASSUME NEW r \in Requests, CheckSession(r) PROVE TypeOK'
  BY <1>7, NoneAssumption DEF CheckSession, TypeOK, Go, End, Places, Results
<1>8. ASSUME NEW r \in Requests, LoadMarker(r) PROVE TypeOK'
  <2>1. copy' \in [Requests -> SUBSET Providers]
    BY <1>8 DEF LoadMarker, TypeOK
  <2> QED BY <1>8, <2>1 DEF LoadMarker, TypeOK, Go, Places
<1>9. ASSUME NEW r \in Requests, SaveMarker(r) PROVE TypeOK'
  <2>1. copy' \in [Requests -> SUBSET Providers] /\ marker' \subseteq Providers
    BY <1>9, ProviderOf DEF SaveMarker, TypeOK
  <2> QED BY <1>9, <2>1 DEF SaveMarker, TypeOK, End, Places, Results
<1>10. ASSUME NEW r \in Requests, SendMessage(r) PROVE TypeOK'
  BY <1>10, NoneAssumption DEF SendMessage, TypeOK, Go, End, Places, Results
<1>11. ASSUME NEW r \in Requests, Read(r) PROVE TypeOK'
  <2>1. parsed' \in [Requests -> SUBSET Items] /\ got' \in [Requests -> SUBSET Items]
    <3>1. parsed[r] \in SUBSET Items /\ parsed[r] # {}
      BY <1>11 DEF Read, TypeOK
    <3>2. Least(parsed[r]) \in Items
      BY <3>1, LeastItem
    <3> QED BY <1>11, <3>1, <3>2 DEF Read, TypeOK
  <2> QED BY <1>11, <2>1 DEF Read, TypeOK, End, Places, Results
<1>12. ASSUME NEW r \in Requests, ReadEnd(r) PROVE TypeOK'
  BY <1>12, NoneAssumption DEF ReadEnd, TypeOK, Go, End, Places, Results
<1>13. ASSUME NEW r \in Requests, StartLogin(r) PROVE TypeOK'
  BY <1>13, NoneAssumption DEF StartLogin, TypeOK, Go, End, Places, Results
<1>14. ASSUME NEW r \in Requests, ClearCookies(r) PROVE TypeOK'
  BY <1>14, NoneAssumption DEF ClearCookies, TypeOK, Go, End, Places, Results
<1>15. ASSUME NEW r \in Requests, ClosePage(r) PROVE TypeOK'
  <2>1. /\ page' \in [Providers -> Nat]
        /\ window' \in [Providers -> [number : Nat, state : {"none", "open", "closing"}]]
    BY <1>15, ClosingType, ProviderOf DEF ClosePage
  <2> QED BY <1>15, <2>1 DEF ClosePage, TypeOK, Go, End, Places, Results
<1>16. ASSUME NEW r \in Requests, CloseAll(r) PROVE TypeOK'
  <2>1. /\ page' \in [Providers -> Nat]
        /\ window' \in [Providers -> [number : Nat, state : {"none", "open", "closing"}]]
    BY <1>16, ClosingType DEF CloseAll
  <2> QED BY <1>16, <2>1 DEF CloseAll, TypeOK, End, Places, Results
<1>17. ASSUME NEW r \in Requests, FetchModels(r) PROVE TypeOK'
  BY <1>17, NoneAssumption DEF FetchModels, TypeOK, Go, End, Places, Results
<1>18. ASSUME NEW r \in Requests, Parse(r) PROVE TypeOK'
  <2>1. /\ raw' \in [Requests -> SUBSET Items] /\ parsed' \in [Requests -> SUBSET Items]
    BY <1>18, LeastItem DEF Parse, TypeOK
  <2>2. parser' \in [Requests -> BOOLEAN]
    BY <1>18 DEF Parse, TypeOK
  <2> QED BY <1>18, <2>1, <2>2 DEF Parse, TypeOK
<1>19. ASSUME NEW r \in Requests, ParseEnd(r) PROVE TypeOK'
  BY <1>19, NoneAssumption DEF ParseEnd, TypeOK, Go, End, Places, Results
<1>20. ASSUME NEW r \in Requests, Emit(r) PROVE TypeOK'
  <2>1. emitted[r] \in 0 .. Chunks /\ emitted[r] + 1 \in 0 .. Chunks /\ emitted[r] + 1 \in Items
    BY <1>20, LimitsAssumption DEF Emit, TypeOK, Items
  <2>2. raw' \in [Requests -> SUBSET Items] /\ dropped' \subseteq Requests
    BY <1>20, <2>1, PutType DEF Emit
  <2>3. emitted' \in [Requests -> 0 .. Chunks]
    BY <1>20, <2>1 DEF Emit, TypeOK
  <2> QED BY <1>20, <2>2, <2>3 DEF Emit, TypeOK
<1>21. ASSUME NEW r \in Requests, Throw(r) PROVE TypeOK'
  <2>1. Error \in Items
    BY LimitsAssumption DEF Error, Items
  <2>2. raw' \in [Requests -> SUBSET Items] /\ dropped' \subseteq Requests
    BY <1>21, <2>1, PutType DEF Throw
  <2> QED BY <1>21, <2>2 DEF Throw, TypeOK
<1>22. ASSUME NEW r \in Requests, Finish(r) PROVE TypeOK'
  BY <1>22, NoneAssumption DEF Finish, TypeOK, Go, End, Places, Results
<1>23. ASSUME NEW r \in Requests, EndLogin(r) PROVE TypeOK'
  <2>1. loggedIn' \subseteq Providers
    BY <1>23, ProviderOf DEF EndLogin, TypeOK
  <2> QED BY <1>23, <2>1 DEF EndLogin, TypeOK, Go, End, Places, Results
<1>24. ASSUME NEW r \in Requests, Stop(r) PROVE TypeOK'
  BY <1>24, NoneAssumption DEF Stop, TypeOK, Go, End, Places, Results
<1>25. ASSUME NEW r \in Requests, Leave(r) PROVE TypeOK'
  BY <1>25, NoneAssumption DEF Leave, TypeOK, Go, End, Places, Results
<1>26. ASSUME NEW p \in Providers, WindowCloses(p) PROVE TypeOK'
  BY <1>26 DEF WindowCloses, TypeOK
<1>27. ASSUME NEW p \in Providers, TimePasses(p) PROVE TypeOK'
  BY <1>27 DEF TimePasses, TypeOK
<1>28. CASE UNCHANGED vars
  BY <1>28 DEF TypeOK
<1> QED
  BY <1>1, <1>2, <1>3, <1>4, <1>5, <1>6, <1>7, <1>8, <1>9, <1>10, <1>11, <1>12, <1>13, <1>14, <1>15, <1>16, <1>17, <1>18, <1>19, <1>20, <1>21, <1>22, <1>23, <1>24, <1>25, <1>26, <1>27, <1>28 DEF Next, Work, Parser, Site, User, Finished

(* The state of the page and of every request is of its type, whatever the *)
(* requests are and in whatever order they run.                            *)
THEOREM TypeCorrect == Spec => []TypeOK
BY InitTypeOK, NextTypeOK, PTL DEF Spec

-----------------------------------------------------------------------------
(***************************************************************************)
(* Pages.                                                                  *)
(***************************************************************************)

(* Only who loads a page holds the mutex across an await, and the window   *)
(* it waits for remains the provider's, and open if it was found so.       *)
Loading ==
    \A r \in Requests :
        /\ lock = r <=> At(r, "loading")
        /\ At(r, "loading") =>
              /\ held[r] = window[P(r)].number
              /\ window[P(r)].state = "open" \/ P(r) \in revived

PoolInv == TypeOK /\ Loading /\ PoolIsAlive

LEMMA InitPool == Init => PoolInv
<1> SUFFICES ASSUME Init PROVE PoolInv
  OBVIOUS
<1>1. PoolIsAlive
  BY DEF Init, PoolIsAlive
<1>2. Loading
  <2>1. lock = None /\ pc = [r \in Requests |-> "want"]
    BY DEF Init
  <2> QED BY <2>1, NoneAssumption DEF Loading, At
<1> QED BY <1>1, <1>2, InitTypeOK DEF PoolInv

(* Closing pages takes them out of the pool and leaves the others alone.   *)
LEMMA ClosingKeeps ==
    ASSUME TypeOK, PoolIsAlive, NEW ps \in SUBSET Providers, NEW p \in Providers
    PROVE  Without(ps)[p] # NoPage =>
              \/ Closing(ps)[p] = [number |-> Without(ps)[p], state |-> "open"]
              \/ p \in revived
<1>1. CASE p \in ps
  BY <1>1 DEF Without
<1>2. CASE p \notin ps
  BY <1>2 DEF PoolIsAlive, Without, Closing
<1> QED BY <1>1, <1>2

(* A step of a request that neither loads a page nor changes the pool.     *)
LEMMA StepKeepsPool ==
    ASSUME PoolInv, NEW r \in Requests, NEW place \in Places,
           ~At(r, "loading"), place # "loading", pc' = [pc EXCEPT ![r] = place],
           UNCHANGED <<lock, page, window, revived, job, held>>
    PROVE  Loading' /\ PoolIsAlive'
<1>1. pc \in [Requests -> Places]
  BY DEF PoolInv, TypeOK
<1> QED BY <1>1 DEF PoolInv, Loading, PoolIsAlive, At, P

LEMMA StillKeepsPool ==
    ASSUME PoolInv, UNCHANGED <<lock, page, window, revived, job, held, pc>>
    PROVE  Loading' /\ PoolIsAlive'
BY DEF PoolInv, Loading, PoolIsAlive, At, P

LEMMA NextPool == PoolInv /\ [Next]_vars => PoolInv'
<1> SUFFICES ASSUME PoolInv, [Next]_vars PROVE Loading' /\ PoolIsAlive'
  BY NextTypeOK DEF PoolInv
<1> USE DEF vars, pool, account, course, stream
<1>1. ASSUME NEW r \in Requests, GetPage(r) PROVE Loading' /\ PoolIsAlive'
  <2> DEFINE stale == IF job[r].op = "send" THEN Stale ELSE {}
             kept  == Without(stale)
             found == Closing(stale)
  <2>1. stale \subseteq Providers /\ P(r) \in Providers
    BY ProviderOf DEF PoolInv, TypeOK, Stale
  <2>2. /\ pc \in [Requests -> Places] /\ held \in [Requests -> Nat]
        /\ found \in [Providers -> [number : Nat, state : {"none", "open", "closing"}]]
    BY <2>1, ClosingType DEF PoolInv, TypeOK
  <2>3. \A p \in Providers : kept[p] # NoPage =>
           \/ found[p] = [number |-> kept[p], state |-> "open"]
           \/ p \in revived
    BY <2>1, ClosingKeeps DEF PoolInv
  <2> HIDE DEF stale, kept, found
  <2>4. page' = kept /\ UNCHANGED job /\ lock = None /\ ~At(r, "loading")
    BY <1>1 DEF GetPage, Free, At, stale, kept
  <2>5. \A q \in Requests : ~At(q, "loading")
    BY <2>4, NoneAssumption DEF PoolInv, Loading
  <2>6. CASE /\ window' = found
             /\ \E place \in Places \ {"loading"} : pc' = [pc EXCEPT ![r] = place]
             /\ UNCHANGED <<lock, revived>>
    BY <2>2, <2>3, <2>4, <2>5, <2>6, NoneAssumption DEF Loading, PoolIsAlive, At
  <2>7. CASE /\ kept[P(r)] = NoPage
             /\ window' = IF found[P(r)].state # "none" THEN found
                          ELSE [found EXCEPT ![P(r)] = [number |-> @.number + 1, state |-> "open"]]
             /\ held' = [held EXCEPT ![r] = window'[P(r)].number]
             /\ revived' = IF found[P(r)].state = "closing" THEN revived \cup {P(r)}
                           ELSE revived \ {P(r)}
             /\ lock' = r /\ Go(r, "loading")
    <3>1. \A p \in Providers : p # P(r) => window'[p] = found[p] /\ (p \in revived <=> p \in revived')
      BY <2>1, <2>2, <2>7
    <3>2. PoolIsAlive'
      BY <2>3, <2>4, <2>7, <3>1 DEF PoolIsAlive
    <3>3. window'[P(r)].state = "open" \/ P(r) \in revived'
      <4>1. found[P(r)].state \in {"none", "open", "closing"}
        BY <2>1, <2>2
      <4>2. CASE found[P(r)].state = "none"
        BY <2>1, <2>2, <2>7, <4>2
      <4>3. CASE found[P(r)].state = "open"
        BY <2>7, <4>3
      <4>4. CASE found[P(r)].state = "closing"
        BY <2>7, <4>4
      <4> QED BY <4>1, <4>2, <4>3, <4>4
    <3>4. Loading'
      BY <2>2, <2>4, <2>5, <2>7, <3>3 DEF Loading, At, Go, P
    <3> QED BY <3>2, <3>4
  <2> QED BY <1>1, <2>6, <2>7 DEF GetPage, Go, End, Places, stale, kept, found
<1>2. ASSUME NEW r \in Requests, Loaded(r) PROVE Loading' /\ PoolIsAlive'
  <2>1. pc \in [Requests -> Places] /\ page \in [Providers -> Nat] /\ P(r) \in Providers
    BY ProviderOf DEF PoolInv, TypeOK
  <2>2. window[P(r)] \in [number : Nat, state : {"none", "open", "closing"}]
    BY <2>1 DEF PoolInv, TypeOK
  <2>3. window[P(r)] = [number |-> held[r], state |-> "open"] \/ P(r) \in revived
    BY <1>2, <2>2 DEF Loaded, PoolInv, Loading
  <2>4. PoolIsAlive'
    BY <1>2, <2>1, <2>3 DEF Loaded, PoolInv, PoolIsAlive
  <2>5. Loading'
    BY <1>2, <2>1, NoneAssumption DEF Loaded, PoolInv, Loading, At, Go, P
  <2> QED BY <2>4, <2>5
<1>3. ASSUME NEW r \in Requests, LoadTimesOut(r) PROVE Loading' /\ PoolIsAlive'
  <2>1. pc \in [Requests -> Places]
    BY DEF PoolInv, TypeOK
  <2> QED BY <1>3, <2>1, NoneAssumption DEF LoadTimesOut, PoolInv, Loading, PoolIsAlive, At, End, P
<1>4. ASSUME NEW r \in Requests, StartInit(r) PROVE Loading' /\ PoolIsAlive'
  BY <1>4, StepKeepsPool DEF StartInit, At, Go, End, Places
<1>5. ASSUME NEW r \in Requests, Discover(r) PROVE Loading' /\ PoolIsAlive'
  BY <1>5, StepKeepsPool DEF Discover, At, Go, End, Places
<1>6. ASSUME NEW r \in Requests, ProbeCookies(r) PROVE Loading' /\ PoolIsAlive'
  BY <1>6, StepKeepsPool DEF ProbeCookies, At, Go, End, Places
<1>7. ASSUME NEW r \in Requests, CheckSession(r) PROVE Loading' /\ PoolIsAlive'
  BY <1>7, StepKeepsPool DEF CheckSession, At, Go, End, Places
<1>8. ASSUME NEW r \in Requests, LoadMarker(r) PROVE Loading' /\ PoolIsAlive'
  BY <1>8, StepKeepsPool DEF LoadMarker, At, Go, End, Places
<1>9. ASSUME NEW r \in Requests, SaveMarker(r) PROVE Loading' /\ PoolIsAlive'
  BY <1>9, StepKeepsPool DEF SaveMarker, At, Go, End, Places
<1>10. ASSUME NEW r \in Requests, SendMessage(r) PROVE Loading' /\ PoolIsAlive'
  BY <1>10, StepKeepsPool DEF SendMessage, At, Go, End, Places
<1>11. ASSUME NEW r \in Requests, ReadEnd(r) PROVE Loading' /\ PoolIsAlive'
  BY <1>11, StepKeepsPool DEF ReadEnd, At, Go, End, Places
<1>12. ASSUME NEW r \in Requests, StartLogin(r) PROVE Loading' /\ PoolIsAlive'
  BY <1>12, StepKeepsPool DEF StartLogin, At, Go, End, Places
<1>13. ASSUME NEW r \in Requests, ClearCookies(r) PROVE Loading' /\ PoolIsAlive'
  BY <1>13, StepKeepsPool DEF ClearCookies, At, Go, End, Places
<1>14. ASSUME NEW r \in Requests, EndLogin(r) PROVE Loading' /\ PoolIsAlive'
  BY <1>14, StepKeepsPool DEF EndLogin, At, Go, End, Places
<1>15. ASSUME NEW r \in Requests, FetchModels(r) PROVE Loading' /\ PoolIsAlive'
  BY <1>15, StepKeepsPool DEF FetchModels, At, Go, End, Places
<1>16. ASSUME NEW r \in Requests, Read(r) PROVE Loading' /\ PoolIsAlive'
  BY <1>16, StepKeepsPool, StillKeepsPool DEF Read, At, End, Places
<1>17. ASSUME NEW r \in Requests, Parse(r) PROVE Loading' /\ PoolIsAlive'
  BY <1>17, StillKeepsPool DEF Parse
<1>18. ASSUME NEW r \in Requests, ParseEnd(r) PROVE Loading' /\ PoolIsAlive'
  BY <1>18, StillKeepsPool DEF ParseEnd
<1>19. ASSUME NEW r \in Requests, Emit(r) PROVE Loading' /\ PoolIsAlive'
  BY <1>19, StillKeepsPool DEF Emit
<1>20. ASSUME NEW r \in Requests, Throw(r) PROVE Loading' /\ PoolIsAlive'
  BY <1>20, StillKeepsPool DEF Throw
<1>21. ASSUME NEW r \in Requests, Finish(r) PROVE Loading' /\ PoolIsAlive'
  BY <1>21, StillKeepsPool DEF Finish
<1>22. ASSUME NEW r \in Requests, Stop(r) PROVE Loading' /\ PoolIsAlive'
  BY <1>22, StillKeepsPool DEF Stop
<1>23. ASSUME NEW r \in Requests, Leave(r) PROVE Loading' /\ PoolIsAlive'
  <2>1. pc \in [Requests -> Places]
    BY DEF PoolInv, TypeOK
  <2> QED BY <1>23, <2>1, NoneAssumption DEF Leave, PoolInv, Loading, PoolIsAlive, At, End, P
<1>24. ASSUME NEW r \in Requests, ClosePage(r) PROVE Loading' /\ PoolIsAlive'
  <2>1. {P(r)} \subseteq Providers /\ pc \in [Requests -> Places]
    BY ProviderOf DEF PoolInv, TypeOK
  <2>2. PoolIsAlive'
    BY <1>24, <2>1, ClosingKeeps DEF ClosePage, PoolInv, PoolIsAlive
  <2>3. Loading'
    BY <1>24, <2>1, NoneAssumption DEF ClosePage, PoolInv, Loading, Free, At, Go, End
  <2> QED BY <2>2, <2>3
<1>25. ASSUME NEW r \in Requests, CloseAll(r) PROVE Loading' /\ PoolIsAlive'
  <2>1. Providers \subseteq Providers /\ pc \in [Requests -> Places]
    BY ProviderOf DEF PoolInv, TypeOK
  <2>2. PoolIsAlive'
    BY <1>25, <2>1, ClosingKeeps DEF CloseAll, PoolInv, PoolIsAlive
  <2>3. Loading'
    BY <1>25, <2>1, NoneAssumption DEF CloseAll, PoolInv, Loading, Free, At, Go, End
  <2> QED BY <2>2, <2>3
<1>26. ASSUME NEW p \in Providers, WindowCloses(p) PROVE Loading' /\ PoolIsAlive'
  <2>1. window \in [Providers -> [number : Nat, state : {"none", "open", "closing"}]]
    BY DEF PoolInv, TypeOK
  <2>2. page[p] = NoPage \/ p \in revived
    <3>1. window[p].state = "closing"
      BY <1>26 DEF WindowCloses
    <3>2. page[p] # NoPage => \/ window[p] = [number |-> page[p], state |-> "open"]
                              \/ p \in revived
      BY DEF PoolInv, PoolIsAlive
    <3> QED BY <3>1, <3>2
  <2>3. \A q \in Providers : window'[q].number = window[q].number /\ (q # p => window'[q] = window[q])
    BY <1>26, <2>1 DEF WindowCloses
  <2>4. PoolIsAlive'
    BY <1>26, <2>2, <2>3 DEF WindowCloses, PoolInv, PoolIsAlive
  <2>5. \A r \in Requests : At(r, "loading") =>
           window'[P(r)].state = "open" \/ P(r) \in revived
    <3>1. window[p].state = "closing"
      BY <1>26 DEF WindowCloses
    <3>2. \A r \in Requests : P(r) \in Providers
      BY ProviderOf DEF PoolInv
    <3> QED BY <2>3, <3>1, <3>2 DEF PoolInv, Loading
  <2>6. Loading'
    BY <1>26, <2>3, <2>5, ProviderOf DEF WindowCloses, PoolInv, Loading, At, P
  <2> QED BY <2>4, <2>6
<1>27. ASSUME NEW p \in Providers, TimePasses(p) PROVE Loading' /\ PoolIsAlive'
  BY <1>27, StillKeepsPool DEF TimePasses
<1>28. CASE UNCHANGED vars
  BY <1>28, StillKeepsPool
<1> QED
  BY <1>1, <1>2, <1>3, <1>4, <1>5, <1>6, <1>7, <1>8, <1>9, <1>10, <1>11, <1>12, <1>13, <1>14, <1>15, <1>16, <1>17, <1>18, <1>19, <1>20, <1>21, <1>22, <1>23, <1>24, <1>25, <1>26, <1>27, <1>28 DEF Next, Work, Parser, Site, User, Finished

(* A page that a request finds in the pool has its window, and nobody has  *)
(* asked for it to be closed, unless the window was closing already when   *)
(* the request that loads it found it by its label, for any number of      *)
(* providers and requests, and whichever ready event ends a load.          *)
THEOREM PoolIsSound == Spec => []PoolIsAlive
<1>1. PoolInv => PoolIsAlive
  BY DEF PoolInv
<1> QED BY <1>1, InitPool, NextPool, PTL DEF Spec

-----------------------------------------------------------------------------
(***************************************************************************)
(* Answers.                                                                *)
(***************************************************************************)

Before == Places \ {"stream", "done"}

(* What the page has emitted is in one of the channels or has been read;   *)
(* the provider's task ends when there is nothing more for it.             *)
AnswerOf(r) ==
    /\ pc[r] \in Before =>
         /\ site[r] = "none" /\ emitted[r] = 0 /\ ~parser[r]
         /\ raw[r] = {} /\ parsed[r] = {} /\ got[r] = {}
    /\ At(r, "stream") => site[r] # "none"
    /\ At(r, "stream") /\ r \notin dropped =>
         /\ got[r] \cup parsed[r] \cup raw[r] = Emitted(r)
         /\ ~parser[r] => raw[r] = {}
    /\ At(r, "done") /\ result[r] = "ok" /\ site[r] # "none" =>
         /\ ~parser[r]
         /\ r \notin dropped => got[r] = Emitted(r)

AnswerInv == TypeOK /\ \A r \in Requests : AnswerOf(r)
LEMMA InitAnswers == Init => AnswerInv
<1> SUFFICES ASSUME Init, NEW r \in Requests PROVE AnswerOf(r)
  BY InitTypeOK DEF AnswerInv
<1>1. /\ pc[r] = "want" /\ site[r] = "none" /\ emitted[r] = 0
      /\ raw[r] = {} /\ parsed[r] = {} /\ got[r] = {}
  BY DEF Init
<1>2. ~parser[r]
  BY DEF Init
<1> QED BY <1>1, <1>2 DEF AnswerOf, At

(* What AnswerOf reads of one request. *)
LEMMA AnswerFrame ==
    ASSUME NEW q \in Requests, AnswerOf(q),
           pc'[q] = pc[q], result'[q] = result[q], site'[q] = site[q],
           emitted'[q] = emitted[q], raw'[q] = raw[q], parsed'[q] = parsed[q],
           got'[q] = got[q], parser'[q] = parser[q], q \in dropped' <=> q \in dropped
    PROVE  AnswerOf(q)'
BY DEF AnswerOf, Emitted, At

(* A step before the answer begins. *)
LEMMA EarlyStep ==
    ASSUME AnswerInv, NEW r \in Requests, NEW place \in Before \cup {"done"}, NEW how,
           pc[r] \in Before, pc' = [pc EXCEPT ![r] = place],
           result' = result \/ result' = [result EXCEPT ![r] = how],
           UNCHANGED <<site, emitted, raw, parsed, got, parser, dropped>>
    PROVE  \A q \in Requests : AnswerOf(q)'
<1> SUFFICES ASSUME NEW q \in Requests PROVE AnswerOf(q)'
  OBVIOUS
<1>1. pc \in [Requests -> Places] /\ result \in [Requests -> Results]
  BY DEF AnswerInv, TypeOK
<1>2. CASE q = r
  BY <1>1, <1>2 DEF AnswerInv, AnswerOf, At, Before
<1>3. CASE q # r
  BY <1>1, <1>3, AnswerFrame DEF AnswerInv
<1> QED BY <1>2, <1>3

LEMMA NextAnswers == AnswerInv /\ [Next]_vars => AnswerInv'
<1> SUFFICES ASSUME AnswerInv, [Next]_vars PROVE \A q \in Requests : AnswerOf(q)'
  BY NextTypeOK DEF AnswerInv
<1> USE DEF vars, pool, account, course, stream
<1>0. /\ pc \in [Requests -> Places] /\ result \in [Requests -> Results]
      /\ site \in [Requests -> {"none", "runs", "threw", "ended", "failed"}]
      /\ emitted \in [Requests -> 0 .. Chunks] /\ parser \in [Requests -> BOOLEAN]
      /\ raw \in [Requests -> SUBSET Items] /\ parsed \in [Requests -> SUBSET Items]
      /\ got \in [Requests -> SUBSET Items]
  BY DEF AnswerInv, TypeOK
<1>1. ASSUME NEW r \in Requests, GetPage(r) PROVE \A q \in Requests : AnswerOf(q)'
  BY <1>1, EarlyStep DEF GetPage, At, Go, End, Places, Before
<1>2. ASSUME NEW r \in Requests, Loaded(r) PROVE \A q \in Requests : AnswerOf(q)'
  BY <1>2, EarlyStep DEF Loaded, At, Go, End, Places, Before
<1>3. ASSUME NEW r \in Requests, LoadTimesOut(r) PROVE \A q \in Requests : AnswerOf(q)'
  BY <1>3, EarlyStep DEF LoadTimesOut, At, Go, End, Places, Before
<1>4. ASSUME NEW r \in Requests, StartInit(r) PROVE \A q \in Requests : AnswerOf(q)'
  BY <1>4, EarlyStep DEF StartInit, At, Go, End, Places, Before
<1>5. ASSUME NEW r \in Requests, Discover(r) PROVE \A q \in Requests : AnswerOf(q)'
  BY <1>5, EarlyStep DEF Discover, At, Go, End, Places, Before
<1>6. ASSUME NEW r \in Requests, ProbeCookies(r) PROVE \A q \in Requests : AnswerOf(q)'
  BY <1>6, EarlyStep DEF ProbeCookies, At, Go, End, Places, Before
<1>7. ASSUME NEW r \in Requests, CheckSession(r) PROVE \A q \in Requests : AnswerOf(q)'
  BY <1>7, EarlyStep DEF CheckSession, At, Go, End, Places, Before
<1>8. ASSUME NEW r \in Requests, LoadMarker(r) PROVE \A q \in Requests : AnswerOf(q)'
  BY <1>8, EarlyStep DEF LoadMarker, At, Go, End, Places, Before
<1>9. ASSUME NEW r \in Requests, SaveMarker(r) PROVE \A q \in Requests : AnswerOf(q)'
  BY <1>9, EarlyStep DEF SaveMarker, At, Go, End, Places, Before
<1>10. ASSUME NEW r \in Requests, StartLogin(r) PROVE \A q \in Requests : AnswerOf(q)'
  BY <1>10, EarlyStep DEF StartLogin, At, Go, End, Places, Before
<1>11. ASSUME NEW r \in Requests, ClearCookies(r) PROVE \A q \in Requests : AnswerOf(q)'
  BY <1>11, EarlyStep DEF ClearCookies, At, Go, End, Places, Before
<1>12. ASSUME NEW r \in Requests, EndLogin(r) PROVE \A q \in Requests : AnswerOf(q)'
  BY <1>12, EarlyStep DEF EndLogin, At, Go, End, Places, Before
<1>13. ASSUME NEW r \in Requests, ClosePage(r) PROVE \A q \in Requests : AnswerOf(q)'
  BY <1>13, EarlyStep DEF ClosePage, At, Go, End, Places, Before
<1>14. ASSUME NEW r \in Requests, CloseAll(r) PROVE \A q \in Requests : AnswerOf(q)'
  BY <1>14, EarlyStep DEF CloseAll, At, Go, End, Places, Before
<1>15. ASSUME NEW r \in Requests, FetchModels(r) PROVE \A q \in Requests : AnswerOf(q)'
  BY <1>15, EarlyStep DEF FetchModels, At, Go, End, Places, Before
<1>16. ASSUME NEW r \in Requests, SendMessage(r) PROVE \A q \in Requests : AnswerOf(q)'
  <2>1. \A q \in Requests \ {r} : AnswerOf(q)'
    BY <1>16, <1>0, AnswerFrame DEF SendMessage, Put, Go, End, AnswerInv
  <2>2. pc[r] \in Before /\ pc[r] = "sending"
    BY <1>16 DEF SendMessage, At, Before, Places
  <2>3. /\ site[r] = "none" /\ emitted[r] = 0 /\ ~parser[r]
        /\ raw[r] = {} /\ parsed[r] = {} /\ got[r] = {}
    BY <2>2 DEF AnswerInv, AnswerOf
  <2>4. /\ emitted'[r] = 0 /\ raw'[r] = {} /\ parsed'[r] = {} /\ got'[r] = {}
    BY <1>16, <2>3 DEF SendMessage
  <2>5. \/ pc'[r] = "stream" /\ site'[r] = "runs" /\ parser'[r]
        \/ pc'[r] = "done" /\ site'[r] = "none"
    BY <1>16, <1>0, <2>3 DEF SendMessage, Go, End
  <2>9. AnswerOf(r)'
    BY <2>4, <2>5 DEF AnswerOf, Emitted, At, Before
  <2> QED BY <2>1, <2>9
<1>17. ASSUME NEW r \in Requests, Read(r) PROVE \A q \in Requests : AnswerOf(q)'
  <2>1. \A q \in Requests \ {r} : AnswerOf(q)'
    BY <1>17, <1>0, AnswerFrame DEF Read, Put, Go, End, AnswerInv
  <2>2. pc[r] = "stream" /\ parsed[r] # {} /\ parsed[r] \in SUBSET Items
    BY <1>17 DEF Read, At, AnswerInv, TypeOK
  <2>3. Least(parsed[r]) \in parsed[r]
    BY <2>2, LeastItem
  <2>4. UNCHANGED <<site, emitted, raw, parser, dropped>>
    BY <1>17 DEF Read
  <2>5. ASSUME r \in cancel PROVE AnswerOf(r)'
    <3>1. pc'[r] = "done" /\ result'[r] = "stopped"
      BY <1>17, <1>0, <2>5 DEF Read, End
    <3> QED BY <3>1 DEF AnswerOf, At, Before
  <2>6. ASSUME r \notin cancel PROVE AnswerOf(r)'
    <3>1. /\ pc'[r] = "stream"
          /\ got'[r] \cup parsed'[r] = got[r] \cup parsed[r]
      BY <1>17, <1>0, <2>2, <2>3, <2>6 DEF Read
    <3> QED BY <2>2, <2>4, <3>1 DEF AnswerInv, AnswerOf, Emitted, At, Before
  <2>9. AnswerOf(r)'
    BY <2>5, <2>6
  <2> QED BY <2>1, <2>9
<1>18. ASSUME NEW r \in Requests, ReadEnd(r) PROVE \A q \in Requests : AnswerOf(q)'
  <2>1. \A q \in Requests \ {r} : AnswerOf(q)'
    BY <1>18, <1>0, AnswerFrame DEF ReadEnd, Put, Go, End, AnswerInv
  <2>2. /\ pc[r] = "stream" /\ parsed[r] = {} /\ ~parser[r]
        /\ UNCHANGED <<site, emitted, raw, parsed, got, parser, dropped>>
    BY <1>18 DEF ReadEnd, At
  <2>3. pc'[r] = "done" /\ result'[r] = "ok"
    BY <1>18, <1>0 DEF ReadEnd, End
  <2>4. r \notin dropped => raw[r] = {} /\ got[r] \cup parsed[r] \cup raw[r] = Emitted(r)
    BY <2>2 DEF AnswerInv, AnswerOf, At
  <2>5. r \notin dropped => got[r] = Emitted(r)
    BY <2>2, <2>4
  <2>6. Emitted(r)' = Emitted(r)
    BY <2>2 DEF Emitted
  <2>9. AnswerOf(r)'
    BY <2>2, <2>3, <2>5, <2>6 DEF AnswerOf, At, Before
  <2> QED BY <2>1, <2>9
<1>19. ASSUME NEW r \in Requests, Parse(r) PROVE \A q \in Requests : AnswerOf(q)'
  <2>1. \A q \in Requests \ {r} : AnswerOf(q)'
    BY <1>19, <1>0, AnswerFrame DEF Parse, Put, Go, End, AnswerInv
  <2>2. /\ parser[r] /\ raw[r] # {} /\ raw[r] \in SUBSET Items
        /\ UNCHANGED <<pc, result, site, emitted, got, dropped>>
    BY <1>19 DEF Parse, AnswerInv, TypeOK
  <2>3. /\ Least(raw[r]) \in raw[r] /\ \A j \in raw[r] : Least(raw[r]) <= j
    BY <2>2, LeastItem
  <2>4. raw'[r] = raw[r] \ {Least(raw[r])}
    BY <1>19, <1>0 DEF Parse
  <2>5. ASSUME pc[r] = "stream" PROVE AnswerOf(r)'
    <3>1. /\ parsed'[r] = parsed[r] \cup {Least(raw[r])}
          /\ parser'[r] = (Least(raw[r]) # Error)
      BY <1>19, <1>0, <2>5 DEF Parse, At
    <3>2. got'[r] \cup parsed'[r] \cup raw'[r] = got[r] \cup parsed[r] \cup raw[r]
      BY <2>2, <2>3, <2>4, <3>1
    <3>3. ~parser'[r] => raw'[r] = {}
      <4>1. ASSUME Least(raw[r]) = Error, NEW j \in raw[r] PROVE j = Error
        BY <2>2, <2>3, <4>1, ChunksIsNat DEF Items, Error
      <4> QED BY <2>3, <2>4, <3>1, <4>1
    <3>4. Emitted(r)' = Emitted(r)
      BY <2>2 DEF Emitted
    <3> QED BY <2>2, <2>5, <3>2, <3>3, <3>4 DEF AnswerInv, AnswerOf, At, Before
  <2>6. ASSUME pc[r] = "done" PROVE AnswerOf(r)'
    <3>1. ~(result[r] = "ok" /\ site[r] # "none")
      BY <2>2, <2>6 DEF AnswerInv, AnswerOf, At
    <3> QED BY <2>2, <2>6, <3>1 DEF AnswerOf, At, Before
  <2>9. AnswerOf(r)'
    BY <1>19, <2>5, <2>6 DEF Parse, At
  <2> QED BY <2>1, <2>9
<1>20. ASSUME NEW r \in Requests, ParseEnd(r) PROVE \A q \in Requests : AnswerOf(q)'
  <2>1. \A q \in Requests \ {r} : AnswerOf(q)'
    BY <1>20, <1>0, AnswerFrame DEF ParseEnd, Put, Go, End, AnswerInv
  <2>2. /\ parser[r] /\ raw[r] = {} /\ site[r] # "none" /\ pc[r] \in Places
        /\ UNCHANGED <<pc, result, site, emitted, raw, parsed, got, dropped>>
    BY <1>20 DEF ParseEnd, AnswerInv, TypeOK
  <2>3. pc[r] \notin Before
    BY <2>2 DEF AnswerInv, AnswerOf
  <2>4. ~(At(r, "done") /\ result[r] = "ok")
    BY <2>2 DEF AnswerInv, AnswerOf
  <2>9. AnswerOf(r)'
    BY <2>2, <2>3, <2>4 DEF AnswerInv, AnswerOf, Emitted, At
  <2> QED BY <2>1, <2>9
<1>21. ASSUME NEW r \in Requests, Emit(r) PROVE \A q \in Requests : AnswerOf(q)'
  <2>1. \A q \in Requests \ {r} : AnswerOf(q)'
    BY <1>21, <1>0, AnswerFrame DEF Emit, Put, Go, End, AnswerInv
  <2>2. parser[r] /\ pc[r] \in Places /\ UNCHANGED <<pc, result, parsed, got, parser>>
    BY <1>21 DEF Emit, Heard, AnswerInv, TypeOK
  <2>3. pc[r] \notin Before /\ ~(At(r, "done") /\ result[r] = "ok" /\ site[r] # "none")
    BY <2>2 DEF AnswerInv, AnswerOf
  <2>4. site[r] = "runs" /\ UNCHANGED site /\ emitted[r] \in 0 .. Chunks
    BY <1>21 DEF Emit, AnswerInv, TypeOK
  <2>5. emitted'[r] = emitted[r] + 1
    BY <1>21, <1>0 DEF Emit
  <2>6. r \notin dropped' => r \notin dropped /\ raw'[r] = raw[r] \cup {emitted[r] + 1}
    BY <1>21, <1>0 DEF Emit, Put
  <2>7. Emitted(r)' = Emitted(r) \cup {emitted[r] + 1}
    BY <2>4, <2>5, ChunksIsNat DEF Emitted
  <2>9. AnswerOf(r)'
    BY <2>2, <2>3, <2>4, <2>6, <2>7 DEF AnswerInv, AnswerOf, At
  <2> QED BY <2>1, <2>9
<1>22. ASSUME NEW r \in Requests, Throw(r) PROVE \A q \in Requests : AnswerOf(q)'
  <2>1. \A q \in Requests \ {r} : AnswerOf(q)'
    BY <1>22, <1>0, AnswerFrame DEF Throw, Put, Go, End, AnswerInv
  <2>2. parser[r] /\ pc[r] \in Places /\ UNCHANGED <<pc, result, parsed, got, parser>>
    BY <1>22 DEF Throw, Heard, AnswerInv, TypeOK
  <2>3. pc[r] \notin Before /\ ~(At(r, "done") /\ result[r] = "ok" /\ site[r] # "none")
    BY <2>2 DEF AnswerInv, AnswerOf
  <2>4. site[r] = "runs" /\ site'[r] = "threw" /\ UNCHANGED emitted
    BY <1>22, <1>0 DEF Throw
  <2>5. r \notin dropped' => r \notin dropped /\ raw'[r] = raw[r] \cup {Error}
    BY <1>22, <1>0 DEF Throw, Put
  <2>6. Emitted(r)' = Emitted(r) \cup {Error}
    BY <2>4 DEF Emitted
  <2>9. AnswerOf(r)'
    BY <2>2, <2>3, <2>4, <2>5, <2>6 DEF AnswerInv, AnswerOf, At
  <2> QED BY <2>1, <2>9
<1>23. ASSUME NEW r \in Requests, Finish(r) PROVE \A q \in Requests : AnswerOf(q)'
  <2>1. \A q \in Requests \ {r} : AnswerOf(q)'
    BY <1>23, <1>0, AnswerFrame DEF Finish, Put, Go, End, AnswerInv
  <2>2. parser[r] /\ pc[r] \in Places /\ UNCHANGED <<pc, result, parsed, got, parser>>
    BY <1>23 DEF Finish, Heard, AnswerInv, TypeOK
  <2>3. pc[r] \notin Before /\ ~(At(r, "done") /\ result[r] = "ok" /\ site[r] # "none")
    BY <2>2 DEF AnswerInv, AnswerOf
  <2>4. UNCHANGED <<emitted, raw, dropped>>
    BY <1>23 DEF Finish
  <2>5. \/ site[r] = "runs" /\ site'[r] = "ended"
        \/ site[r] = "threw" /\ site'[r] = "failed"
    BY <1>23, <1>0 DEF Finish
  <2>6. Emitted(r)' = Emitted(r)
    BY <2>4, <2>5 DEF Emitted
  <2>9. AnswerOf(r)'
    BY <2>2, <2>3, <2>4, <2>5, <2>6 DEF AnswerInv, AnswerOf, At
  <2> QED BY <2>1, <2>9
<1>24. ASSUME NEW r \in Requests, Leave(r) PROVE \A q \in Requests : AnswerOf(q)'
  <2>1. \A q \in Requests \ {r} : AnswerOf(q)'
    BY <1>24, <1>0, AnswerFrame DEF Leave, Put, Go, End, AnswerInv
  <2>2. pc'[r] = "done" /\ result'[r] = "stopped"
    BY <1>24, <1>0 DEF Leave, End
  <2>9. AnswerOf(r)'
    BY <2>2 DEF AnswerOf, At, Before
  <2> QED BY <2>1, <2>9
<1>25. ASSUME NEW r \in Requests, Stop(r) PROVE \A q \in Requests : AnswerOf(q)'
  BY <1>25, AnswerFrame DEF Stop, AnswerInv
<1>26. ASSUME NEW p \in Providers, WindowCloses(p) PROVE \A q \in Requests : AnswerOf(q)'
  BY <1>26, AnswerFrame DEF WindowCloses, AnswerInv
<1>27. ASSUME NEW p \in Providers, TimePasses(p) PROVE \A q \in Requests : AnswerOf(q)'
  BY <1>27, AnswerFrame DEF TimePasses, AnswerInv
<1>28. CASE UNCHANGED vars
  BY <1>28, AnswerFrame DEF AnswerInv
<1> QED
  BY <1>1, <1>2, <1>3, <1>4, <1>5, <1>6, <1>7, <1>8, <1>9, <1>10, <1>11, <1>12, <1>13, <1>14, <1>15, <1>16, <1>17, <1>18, <1>19, <1>20, <1>21, <1>22, <1>23, <1>24, <1>25, <1>26, <1>27, <1>28 DEF Next, Work, Parser, Site, User, Finished

(* An answer that has ended and for which no channel was full is all that  *)
(* the page emitted, in however many chunks and through channels of        *)
(* whatever capacity.                                                      *)
THEOREM AnswersAreComplete == Spec => []AnswersComplete
<1>1. AnswerInv => AnswersComplete
  BY DEF AnswerInv, AnswerOf, AnswersComplete
<1> QED BY <1>1, InitAnswers, NextAnswers, PTL DEF Spec

================================================================================
