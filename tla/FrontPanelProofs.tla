-------------------------- MODULE FrontPanelProofs --------------------------
(***************************************************************************)
(* Proofs about the two modules of the front panel, LedPanel and Keypad,   *)
(* for any number of LEDs, columns, rows and buttons.  Both are about a    *)
(* main that an interrupt may cut in two anywhere; what an interrupt does  *)
(* in one go is a recursive function, over the writes of a call or over    *)
(* the columns of the matrix, so the lemmas start with induction.          *)
(***************************************************************************)
EXTENDS LedPanel, Keypad, TLAPS, FiniteSetTheorems, WellFoundedInduction

-----------------------------------------------------------------------------
(***************************************************************************)
(* Induction.                                                              *)
(***************************************************************************)
LEMMA LeastNumber ==
    ASSUME NEW T \in SUBSET Nat, T # {}
    PROVE  \E x \in T : \A y \in T : x <= y
  <1>. DEFINE R == OpToRel(<, Nat)
  <1>1. \E x \in T : \A y \in T : <<y, x>> \notin R
    <2>1. IsWellFoundedOn(R, Nat)
      BY NatLessThanWellFounded
    <2>. HIDE DEF R
    <2>. QED  BY <2>1, WFMin
  <1>2. ASSUME NEW x \in Nat, NEW y \in Nat, <<y, x>> \notin R PROVE x <= y
    BY <1>2 DEF OpToRel
  <1>. HIDE DEF R
  <1>. QED  BY <1>1, <1>2

\* For the set of the numbers that have a property.
LEMMA NatSetInduction ==
    ASSUME NEW S, 0 \in S, \A n \in Nat : n \in S => n + 1 \in S
    PROVE  Nat \subseteq S
  <1>. SUFFICES ASSUME Nat \ S # {} PROVE FALSE
    OBVIOUS
  <1>1. PICK x \in Nat \ S : \A y \in Nat \ S : x <= y
    BY LeastNumber
  <1>2. x - 1 \in Nat /\ x - 1 \in S
    BY <1>1
  <1>. QED  BY <1>1, <1>2

-----------------------------------------------------------------------------
(***************************************************************************)
(* LedPanel: the writes of a call.                                         *)
(***************************************************************************)
Ports == {"port", "map"}
Flags == {"active", "kpdTest", "kpdExit", "jstkExit", "prev"}

Writes ==
    [to : Ports, how : {"on", "off", "toggle"}, with : SUBSET All]
    \cup [to : Flags, how : {"put"}, with : BOOLEAN]

LEMMA ApplyType ==
    ASSUME NEW w \in Writes, NEW p \in PanelState
    PROVE  Apply(w, p) \in PanelState
  <1>1. CASE w \in [to : Ports, how : {"on", "off", "toggle"}, with : SUBSET All]
    BY <1>1 DEF Apply, After, PanelState, Ports
  <1>2. CASE w \in [to : Flags, how : {"put"}, with : BOOLEAN]
    BY <1>2 DEF Apply, After, PanelState, Flags
  <1>. QED  BY <1>1, <1>2 DEF Writes

\* The states of the panel from p on, after each of the writes ws.
Trace(f, ws, p) ==
    /\ f \in [0 .. Len(ws) -> PanelState]
    /\ f[0] = p
    /\ \A n \in 1 .. Len(ws) : f[n] = Apply(ws[n], f[n - 1])

LEMMA TraceExists ==
    ASSUME NEW ws \in Seq(Writes), NEW p \in PanelState
    PROVE  \E f : Trace(f, ws, p)
  <1>. DEFINE Part(f, n) == /\ f \in [0 .. n -> PanelState]
                            /\ f[0] = p
                            /\ \A i \in 1 .. n : f[i] = Apply(ws[i], f[i - 1])
              S == {n \in Nat : n <= Len(ws) => \E f : Part(f, n)}
  <1>1. 0 \in S
    <2>. Part([i \in 0 .. 0 |-> p], 0)
      OBVIOUS
    <2>. QED  OBVIOUS
  <1>2. ASSUME NEW n \in Nat, n \in S PROVE n + 1 \in S
    <2>. SUFFICES ASSUME n + 1 <= Len(ws) PROVE \E f : Part(f, n + 1)
      OBVIOUS
    <2>1. PICK f : Part(f, n)
      BY <1>2
    <2>. DEFINE g == [i \in 0 .. n + 1 |-> IF i <= n THEN f[i] ELSE Apply(ws[n + 1], f[n])]
    <2>2. ws[n + 1] \in Writes /\ f[n] \in PanelState
      BY <2>1
    <2>3. g \in [0 .. n + 1 -> PanelState]
      BY <2>1, <2>2, ApplyType
    <2>4. \A i \in 1 .. n + 1 : g[i] = Apply(ws[i], g[i - 1])
      <3>. TAKE i \in 1 .. n + 1
      <3>1. CASE i <= n
        BY <2>1, <3>1
      <3>2. CASE i = n + 1
        BY <3>2
      <3>. QED  BY <3>1, <3>2
    <2>5. g[0] = p
      BY <2>1
    <2>. QED  BY <2>3, <2>4, <2>5
  <1>3. Nat \subseteq S
    <2>. HIDE DEF S
    <2>. QED  BY <1>1, <1>2, NatSetInduction
  <1>4. Len(ws) \in S
    BY <1>3
  <1>. QED  BY <1>4 DEF Trace

\* What ApplyAll computes.
LEMMA ApplyAllIs ==
    ASSUME NEW ws \in Seq(Writes), NEW p \in PanelState, NEW f, Trace(f, ws, p)
    PROVE  ApplyAll(ws, p) = f[Len(ws)]
  <1>. DEFINE After0(g) == [n \in 0 .. Len(ws) |-> IF n = 0 THEN p ELSE Apply(ws[n], g[n - 1])]
              g == CHOOSE g : g = After0(g)
              S == {n \in Nat : n <= Len(ws) => g[n] = f[n]}
  <1>1. f = After0(f)
    BY DEF Trace
  <1>2. g = After0(g)
    <2>. HIDE DEF After0
    <2>. QED  BY <1>1
  <1>3. ApplyAll(ws, p) = g[Len(ws)]
    BY DEF ApplyAll
  <1>. HIDE DEF g
  <1>4. 0 \in S
    BY <1>2 DEF Trace
  <1>5. ASSUME NEW n \in Nat, n \in S PROVE n + 1 \in S
    <2>. SUFFICES ASSUME n + 1 <= Len(ws) PROVE g[n + 1] = f[n + 1]
      OBVIOUS
    <2>1. g[n + 1] = Apply(ws[n + 1], g[n])
      BY <1>2
    <2>. QED  BY <1>5, <2>1 DEF Trace
  <1>6. Nat \subseteq S
    <2>. HIDE DEF S
    <2>. QED  BY <1>4, <1>5, NatSetInduction
  <1>. QED  BY <1>3, <1>6

LEMMA ApplyAllType ==
    ASSUME NEW ws \in Seq(Writes), NEW p \in PanelState
    PROVE  ApplyAll(ws, p) \in PanelState
  <1>1. PICK f : Trace(f, ws, p)
    BY TraceExists
  <1>. QED  BY <1>1, ApplyAllIs DEF Trace

LEMMA ApplyNone == ASSUME NEW p \in PanelState PROVE ApplyAll(<<>>, p) = p
  <1>1. <<>> \in Seq(Writes) /\ Len(<<>>) = 0
    OBVIOUS
  <1>2. PICK f : Trace(f, <<>>, p)
    BY <1>1, TraceExists
  <1>3. ApplyAll(<<>>, p) = f[Len(<<>>)]
    BY <1>1, <1>2, ApplyAllIs
  <1>. QED  BY <1>1, <1>2, <1>3 DEF Trace

\* A write of main is the first of those it has to make.
LEMMA ApplyFirst ==
    ASSUME NEW ws \in Seq(Writes), ws # <<>>, NEW p \in PanelState
    PROVE  ApplyAll(ws, p) = ApplyAll(Tail(ws), Apply(Head(ws), p))
  <1>1. PICK f : Trace(f, ws, p)
    BY TraceExists
  <1>. DEFINE g == [n \in 0 .. Len(ws) - 1 |-> f[n + 1]]
  <1>2. /\ Tail(ws) \in Seq(Writes) /\ Len(Tail(ws)) = Len(ws) - 1
        /\ \A n \in 1 .. Len(ws) - 1 : Tail(ws)[n] = ws[n + 1]
        /\ Len(ws) \in Nat \ {0} /\ Head(ws) = ws[1] /\ ws[1] \in Writes
    OBVIOUS
  <1>3. Trace(g, Tail(ws), Apply(Head(ws), p))
    BY <1>1, <1>2 DEF Trace
  <1>4. Apply(Head(ws), p) \in PanelState
    BY <1>2, ApplyType
  <1>5. g[Len(ws) - 1] = f[Len(ws)]
    BY <1>2
  <1>. HIDE DEF g
  <1>6. ApplyAll(Tail(ws), Apply(Head(ws), p)) = g[Len(Tail(ws))]
    BY <1>2, <1>3, <1>4, ApplyAllIs
  <1>7. ApplyAll(ws, p) = f[Len(ws)]
    BY <1>1, ApplyAllIs
  <1>. QED  BY <1>2, <1>5, <1>6, <1>7

LEMMA ApplyOne ==
    ASSUME NEW w \in Writes, NEW p \in PanelState
    PROVE  ApplyAll(<<w>>, p) = Apply(w, p)
  <1>1. <<w>> \in Seq(Writes) /\ <<w>> # <<>> /\ Head(<<w>>) = w /\ Tail(<<w>>) = <<>>
    OBVIOUS
  <1>2. ApplyAll(<<w>>, p) = ApplyAll(<<>>, Apply(w, p))
    BY <1>1, ApplyFirst
  <1>. QED  BY <1>2, ApplyNone, ApplyType

LEMMA ApplyConcat ==
    ASSUME NEW ws \in Seq(Writes), NEW vs \in Seq(Writes), NEW p \in PanelState
    PROVE  ApplyAll(ws \o vs, p) = ApplyAll(vs, ApplyAll(ws, p))
  <1>1. PICK f : Trace(f, ws, p)
    BY TraceExists
  <1>2. ApplyAll(ws, p) = f[Len(ws)] /\ f[Len(ws)] \in PanelState
    BY <1>1, ApplyAllIs DEF Trace
  <1>3. PICK g : Trace(g, vs, f[Len(ws)])
    BY <1>2, TraceExists
  <1>. DEFINE h == [n \in 0 .. Len(ws) + Len(vs) |->
                      IF n <= Len(ws) THEN f[n] ELSE g[n - Len(ws)]]
  <1>4. /\ ws \o vs \in Seq(Writes) /\ Len(ws \o vs) = Len(ws) + Len(vs)
        /\ \A n \in 1 .. Len(ws) : (ws \o vs)[n] = ws[n]
        /\ \A n \in Len(ws) + 1 .. Len(ws) + Len(vs) : (ws \o vs)[n] = vs[n - Len(ws)]
        /\ Len(ws) \in Nat /\ Len(vs) \in Nat
    OBVIOUS
  <1>5. Trace(h, ws \o vs, p)
    <2>1. h \in [0 .. Len(ws) + Len(vs) -> PanelState] /\ h[0] = p
      BY <1>1, <1>3, <1>4 DEF Trace
    <2>2. \A n \in 1 .. Len(ws) + Len(vs) : h[n] = Apply((ws \o vs)[n], h[n - 1])
      <3>. TAKE n \in 1 .. Len(ws) + Len(vs)
      <3>1. CASE n <= Len(ws)
        BY <1>1, <1>4, <3>1 DEF Trace
      <3>2. CASE n > Len(ws)
        <4>1. n - Len(ws) \in 1 .. Len(vs)
          BY <1>4, <3>2
        <4>2. g[n - Len(ws)] = Apply(vs[n - Len(ws)], g[n - Len(ws) - 1])
          BY <1>3, <4>1 DEF Trace
        <4>3. h[n - 1] = g[n - Len(ws) - 1]
          BY <1>3, <1>4, <3>2 DEF Trace
        <4>4. (ws \o vs)[n] = vs[n - Len(ws)]
          BY <1>4, <3>2
        <4>. HIDE DEF h
        <4>5. h[n] = g[n - Len(ws)]
          BY <1>4, <3>2 DEF h
        <4>. QED  BY <4>2, <4>3, <4>4, <4>5
      <3>. QED  BY <1>4, <3>1, <3>2
    <2>. HIDE DEF h
    <2>. QED  BY <1>4, <2>1, <2>2 DEF Trace
  <1>6. h[Len(ws) + Len(vs)] = g[Len(vs)]
    <2>1. CASE Len(vs) = 0
      BY <1>3, <1>4, <2>1 DEF Trace
    <2>2. CASE Len(vs) > 0
      BY <1>4, <2>2
    <2>. QED  BY <1>4, <2>1, <2>2
  <1>. HIDE DEF h
  <1>7. ApplyAll(ws \o vs, p) = h[Len(ws \o vs)]
    BY <1>4, <1>5, ApplyAllIs
  <1>8. ApplyAll(vs, ApplyAll(ws, p)) = g[Len(vs)]
    BY <1>2, <1>3, ApplyAllIs
  <1>. QED  BY <1>4, <1>6, <1>7, <1>8

LEMMA ApplyTwo ==
    ASSUME NEW v \in Writes, NEW w \in Writes, NEW p \in PanelState
    PROVE  ApplyAll(<<v, w>>, p) = Apply(w, Apply(v, p))
  <1>1. /\ <<v, w>> \in Seq(Writes) /\ <<v, w>> # <<>>
        /\ Head(<<v, w>>) = v /\ Tail(<<v, w>>) = <<w>>
    OBVIOUS
  <1>2. ApplyAll(<<v, w>>, p) = ApplyAll(<<w>>, Apply(v, p))
    BY <1>1, ApplyFirst
  <1>. QED  BY <1>2, ApplyOne, ApplyType

\* What no write of a call is for stays as it is.
LEMMA LedUntouched ==
    ASSUME NEW ws \in Seq(Writes), NEW p \in PanelState, NEW l,
           \A n \in 1 .. Len(ws) : ws[n].to \in Ports => l \notin ws[n].with
    PROVE  /\ l \in ApplyAll(ws, p).port <=> l \in p.port
           /\ l \in ApplyAll(ws, p).map <=> l \in p.map
  <1>1. PICK f : Trace(f, ws, p)
    BY TraceExists
  <1>. DEFINE Same(q) == (l \in q.port <=> l \in p.port) /\ (l \in q.map <=> l \in p.map)
              S == {n \in Nat : n <= Len(ws) => Same(f[n])}
  <1>2. 0 \in S
    BY <1>1 DEF Trace
  <1>3. ASSUME NEW n \in Nat, n \in S PROVE n + 1 \in S
    <2>. SUFFICES ASSUME n + 1 <= Len(ws) PROVE Same(f[n + 1])
      OBVIOUS
    <2>. DEFINE w == ws[n + 1]
                q == f[n]
    <2>1. w \in Writes /\ q \in PanelState /\ f[n + 1] = Apply(w, q) /\ Same(q)
      BY <1>1, <1>3 DEF Trace
    <2>2. w.to \in Ports => l \notin w.with
      OBVIOUS
    <2>. HIDE DEF w, q
    <2>3. CASE w \in [to : Ports, how : {"on", "off", "toggle"}, with : SUBSET All]
      BY <2>1, <2>2, <2>3 DEF Apply, After, PanelState, Ports
    <2>4. CASE w \in [to : Flags, how : {"put"}, with : BOOLEAN]
      BY <2>1, <2>4 DEF Apply, After, PanelState, Flags
    <2>. QED  BY <2>1, <2>3, <2>4 DEF Writes
  <1>4. Nat \subseteq S
    <2>. HIDE DEF S
    <2>. QED  BY <1>2, <1>3, NatSetInduction
  <1>5. Same(f[Len(ws)])
    BY <1>4
  <1>. QED  BY <1>1, <1>5, ApplyAllIs

LEMMA FlagUntouched ==
    ASSUME NEW ws \in Seq(Writes), NEW p \in PanelState, NEW flag \in Flags,
           \A n \in 1 .. Len(ws) : ws[n].to # flag
    PROVE  ApplyAll(ws, p)[flag] = p[flag]
  <1>1. PICK f : Trace(f, ws, p)
    BY TraceExists
  <1>. DEFINE S == {n \in Nat : n <= Len(ws) => f[n][flag] = p[flag]}
  <1>2. 0 \in S
    BY <1>1 DEF Trace
  <1>3. ASSUME NEW n \in Nat, n \in S PROVE n + 1 \in S
    <2>. SUFFICES ASSUME n + 1 <= Len(ws) PROVE f[n + 1][flag] = p[flag]
      OBVIOUS
    <2>1. f[n] \in PanelState /\ f[n + 1] = Apply(ws[n + 1], f[n]) /\ f[n][flag] = p[flag]
      BY <1>1, <1>3 DEF Trace
    <2>2. ws[n + 1].to # flag
      OBVIOUS
    <2>. QED  BY <2>1, <2>2 DEF Apply
  <1>4. Nat \subseteq S
    <2>. HIDE DEF S
    <2>. QED  BY <1>2, <1>3, NatSetInduction
  <1>5. f[Len(ws)][flag] = p[flag]
    BY <1>4
  <1>. QED  BY <1>1, <1>5, ApplyAllIs

\* The flags do not matter to the LEDs.
LEMMA LedsDecide ==
    ASSUME NEW ws \in Seq(Writes), NEW p \in PanelState, NEW q \in PanelState,
           p.port = q.port, p.map = q.map
    PROVE  /\ ApplyAll(ws, p).port = ApplyAll(ws, q).port
           /\ ApplyAll(ws, p).map = ApplyAll(ws, q).map
  <1>1. PICK f : Trace(f, ws, p)
    BY TraceExists
  <1>2. PICK g : Trace(g, ws, q)
    BY TraceExists
  <1>. DEFINE S == {n \in Nat : n <= Len(ws) => f[n].port = g[n].port /\ f[n].map = g[n].map}
  <1>3. 0 \in S
    BY <1>1, <1>2 DEF Trace
  <1>4. ASSUME NEW n \in Nat, n \in S PROVE n + 1 \in S
    <2>. SUFFICES ASSUME n + 1 <= Len(ws)
                  PROVE  f[n + 1].port = g[n + 1].port /\ f[n + 1].map = g[n + 1].map
      OBVIOUS
    <2>. DEFINE w == ws[n + 1]
                x == f[n]
                y == g[n]
    <2>1. /\ w \in Writes /\ x \in PanelState /\ y \in PanelState
          /\ f[n + 1] = Apply(w, x) /\ g[n + 1] = Apply(w, y)
          /\ x.port = y.port /\ x.map = y.map
      BY <1>1, <1>2, <1>4 DEF Trace
    <2>. HIDE DEF w, x, y
    <2>2. w.to \in Ports \cup Flags
      BY <2>1 DEF Writes
    <2>3. CASE w.to = "port"
      BY <2>1, <2>3 DEF Apply, PanelState
    <2>4. CASE w.to = "map"
      BY <2>1, <2>4 DEF Apply, PanelState
    <2>5. CASE w.to \in Flags
      BY <2>1, <2>5 DEF Apply, PanelState, Flags
    <2>. QED  BY <2>1, <2>2, <2>3, <2>4, <2>5 DEF Ports
  <1>5. Nat \subseteq S
    <2>. HIDE DEF S
    <2>. QED  BY <1>3, <1>4, NatSetInduction
  <1>6. f[Len(ws)].port = g[Len(ws)].port /\ f[Len(ws)].map = g[Len(ws)].map
    BY <1>5
  <1>. QED  BY <1>1, <1>2, <1>6, ApplyAllIs

-----------------------------------------------------------------------------
(***************************************************************************)
(* A call writes the port and the map alike.                               *)
(***************************************************************************)
Alike(p) == p.port = p.map

\* Calls that leave port and map alike, when nothing interrupts them.
Calls ==
    {ws \in Seq(Writes) : \A p \in PanelState : Alike(p) => Alike(ApplyAll(ws, p))}

LEMMA NoCall == <<>> \in Calls
  <1>1. <<>> \in Seq(Writes)
    OBVIOUS
  <1>. QED  BY <1>1, ApplyNone DEF Calls

LEMMA ConcatCalls ==
    ASSUME NEW ws \in Calls, NEW vs \in Calls
    PROVE  ws \o vs \in Calls
  <1>1. ws \in Seq(Writes) /\ vs \in Seq(Writes)
    BY DEF Calls
  <1>2. ws \o vs \in Seq(Writes)
    BY <1>1
  <1>3. ASSUME NEW p \in PanelState, Alike(p) PROVE Alike(ApplyAll(ws \o vs, p))
    <2>1. ApplyAll(ws, p) \in PanelState /\ Alike(ApplyAll(ws, p))
      BY <1>1, <1>3, ApplyAllType DEF Calls
    <2>2. Alike(ApplyAll(vs, ApplyAll(ws, p)))
      BY <2>1 DEF Calls
    <2>. QED  BY <1>1, <2>2, ApplyConcat
  <1>. QED  BY <1>2, <1>3 DEF Calls

LEMMA PutOne ==
    ASSUME NEW flag \in Flags, NEW value \in BOOLEAN, NEW p \in PanelState
    PROVE  /\ Put(flag, value) \in Calls
           /\ ApplyAll(Put(flag, value), p) = [p EXCEPT ![flag] = value]
  <1>. DEFINE w == Write(flag, "put", value)
  <1>1. w \in Writes /\ w.to = flag /\ w.how = "put" /\ w.with = value
    BY DEF Write, Writes
  <1>2. <<w>> \in Seq(Writes) /\ Put(flag, value) = <<w>>
    BY <1>1 DEF Put
  <1>. HIDE DEF w
  <1>3. \A q \in PanelState : ApplyAll(<<w>>, q) = [q EXCEPT ![flag] = value]
    BY <1>1, ApplyOne DEF Apply, After
  <1>4. \A q \in PanelState : Alike(q) => Alike([q EXCEPT ![flag] = value])
    BY DEF PanelState, Flags, Alike
  <1>. QED  BY <1>2, <1>3, <1>4 DEF Calls

\* What the two writes of Both leave.
LEMMA BothFields ==
    ASSUME NEW how \in {"on", "off", "toggle"}, NEW leds \in SUBSET All,
           NEW p \in PanelState
    PROVE  /\ Both(how, leds) \in Seq(Writes)
           /\ ApplyAll(Both(how, leds), p).port = After(how, leds, p.port)
           /\ ApplyAll(Both(how, leds), p).map = After(how, leds, p.map)
  <1>. DEFINE v == Write("port", how, leds)
              w == Write("map", how, leds)
  <1>1. /\ v \in Writes /\ v.to = "port" /\ v.how = how /\ v.with = leds
        /\ w \in Writes /\ w.to = "map" /\ w.how = how /\ w.with = leds
    BY DEF Write, Writes, Ports
  <1>2. Both(how, leds) = <<v, w>> /\ <<v, w>> \in Seq(Writes)
    BY <1>1 DEF Both
  <1>. HIDE DEF v, w
  <1>3. ApplyAll(<<v, w>>, p) = Apply(w, Apply(v, p))
    BY <1>1, ApplyTwo
  <1>4. Apply(w, Apply(v, p)) =
          [p EXCEPT !.port = After(how, leds, p.port), !.map = After(how, leds, p.map)]
    BY <1>1 DEF Apply, PanelState
  <1>. QED  BY <1>2, <1>3, <1>4 DEF PanelState

LEMMA BothCall ==
    ASSUME NEW how \in {"on", "off", "toggle"}, NEW leds \in SUBSET All
    PROVE  Both(how, leds) \in Calls
  <1>1. ASSUME NEW p \in PanelState, Alike(p)
        PROVE  Both(how, leds) \in Seq(Writes) /\ Alike(ApplyAll(Both(how, leds), p))
    BY <1>1, BothFields DEF Alike
  <1>2. [port |-> {}, map |-> {}, active |-> FALSE, kpdTest |-> FALSE, kpdExit |-> FALSE,
         jstkExit |-> FALSE, prev |-> FALSE] \in PanelState
    BY DEF PanelState
  <1>3. Both(how, leds) \in Seq(Writes)
    BY <1>2, BothFields
  <1>. QED  BY <1>1, <1>3 DEF Calls

\* led_quiet_setState sets every LED of the eight, whatever was lit before.
LEMMA SetStateFields ==
    ASSUME NEW m \in SUBSET Led, NEW p \in PanelState
    PROVE  /\ led_quiet_setState(m) \in Seq(Writes)
           /\ ApplyAll(led_quiet_setState(m), p) =
                [p EXCEPT !.port = (p.port \ Led) \cup m, !.map = (p.map \ (Led \ m)) \cup m]
  <1>. DEFINE a == Write("port", "off", Led)
              b == Write("port", "on", m)
              c == Write("map", "off", Led \ m)
              d == Write("map", "on", m)
  <1>1. /\ a \in Writes /\ a.to = "port" /\ a.how = "off" /\ a.with = Led
        /\ b \in Writes /\ b.to = "port" /\ b.how = "on" /\ b.with = m
        /\ c \in Writes /\ c.to = "map" /\ c.how = "off" /\ c.with = Led \ m
        /\ d \in Writes /\ d.to = "map" /\ d.how = "on" /\ d.with = m
    BY DEF Write, Writes, Ports, All
  <1>2. led_quiet_setState(m) = <<a, b>> \o <<c, d>>
    BY DEF led_quiet_setState
  <1>. HIDE DEF a, b, c, d
  <1>3. <<a, b>> \in Seq(Writes) /\ <<c, d>> \in Seq(Writes)
    BY <1>1
  <1>4. ApplyAll(<<a, b>> \o <<c, d>>, p) = ApplyAll(<<c, d>>, ApplyAll(<<a, b>>, p))
    BY <1>3, ApplyConcat
  <1>. DEFINE q == ApplyAll(<<a, b>>, p)
  <1>5. q = [p EXCEPT !.port = (p.port \ Led) \cup m] /\ q \in PanelState
    <2>1. q = Apply(b, Apply(a, p))
      BY <1>1, ApplyTwo
    <2>2. q \in PanelState
      BY <1>3, ApplyAllType
    <2>. HIDE DEF q
    <2>. QED  BY <1>1, <2>1, <2>2 DEF Apply, After, PanelState
  <1>. HIDE DEF q
  <1>6. ApplyAll(<<c, d>>, q) = [q EXCEPT !.map = (q.map \ (Led \ m)) \cup m]
    <2>1. ApplyAll(<<c, d>>, q) = Apply(d, Apply(c, q))
      BY <1>1, <1>5, ApplyTwo
    <2>. DEFINE x == Apply(c, q)
    <2>2. x = [q EXCEPT !.map = q.map \ (Led \ m)] /\ x \in PanelState
      BY <1>1, <1>5, ApplyType DEF Apply, After
    <2>. HIDE DEF x
    <2>3. Apply(d, x) = [x EXCEPT !.map = x.map \cup m]
      BY <1>1 DEF Apply, After
    <2>. QED  BY <1>5, <2>1, <2>2, <2>3 DEF PanelState, x
  <1>7. [q EXCEPT !.map = (q.map \ (Led \ m)) \cup m] =
          [p EXCEPT !.port = (p.port \ Led) \cup m, !.map = (p.map \ (Led \ m)) \cup m]
    BY <1>5 DEF PanelState
  <1>8. <<a, b>> \o <<c, d>> \in Seq(Writes)
    BY <1>3
  <1>. QED  BY <1>2, <1>4, <1>6, <1>7, <1>8 DEF q

LEMMA SetStateCall ==
    ASSUME NEW m \in SUBSET Led PROVE led_quiet_setState(m) \in Calls
  <1>1. ASSUME NEW p \in PanelState, Alike(p)
        PROVE  Alike(ApplyAll(led_quiet_setState(m), p))
    <2>. DEFINE q == ApplyAll(led_quiet_setState(m), p)
    <2>1. (p.port \ Led) \cup m = (p.port \ (Led \ m)) \cup m
      OBVIOUS
    <2>2. q = [p EXCEPT !.port = (p.port \ Led) \cup m, !.map = (p.map \ (Led \ m)) \cup m]
      BY SetStateFields
    <2>. HIDE DEF q
    <2>3. q.port = (p.port \ Led) \cup m /\ q.map = (p.map \ (Led \ m)) \cup m
      BY <2>2 DEF PanelState
    <2>. QED  BY <1>1, <2>1, <2>3 DEF Alike, q
  <1>2. led_quiet_setState(m) \in Seq(Writes)
    <2>1. [port |-> {}, map |-> {}, active |-> FALSE, kpdTest |-> FALSE, kpdExit |-> FALSE,
           jstkExit |-> FALSE, prev |-> FALSE] \in PanelState
      BY DEF PanelState
    <2>. QED  BY <2>1, SetStateFields
  <1>. QED  BY <1>1, <1>2 DEF Calls

\* The calls of led.c, keypad.c, joystick.c and ui.c are such calls.
LEMMA LedCalls ==
    /\ led_quiet_allOn \in Calls /\ led_quiet_allOff \in Calls /\ led_allOff \in Calls
    /\ \A m \in SUBSET Led : led_on(m) \in Calls /\ led_setState(m) \in Calls
    /\ \A l \in Led : led_toggle(l) \in Calls
    /\ led_statusOn \in Calls /\ led_statusOff \in Calls /\ led_statusToggle \in Calls
    /\ \A flag \in Flags, value \in BOOLEAN : Put(flag, value) \in Calls
  <1>1. \A how \in {"on", "off", "toggle"}, leds \in SUBSET All : Both(how, leds) \in Calls
    BY BothCall
  <1>2. \A flag \in Flags, value \in BOOLEAN : Put(flag, value) \in Calls
    <2>1. [port |-> {}, map |-> {}, active |-> FALSE, kpdTest |-> FALSE, kpdExit |-> FALSE,
           jstkExit |-> FALSE, prev |-> FALSE] \in PanelState
      BY DEF PanelState
    <2>. QED  BY <2>1, PutOne
  <1>3. Led \in SUBSET All /\ {Status} \in SUBSET All /\ "active" \in Flags
    BY DEF All, Flags
  <1>4. \A m \in SUBSET Led : m \in SUBSET All
    BY <1>3
  <1>5. \A l \in Led : {l} \in SUBSET All
    BY <1>3
  <1>6. \A ws, vs \in Calls : ws \o vs \in Calls
    BY ConcatCalls
  <1>7. led_quiet_allOff \in Calls
    BY <1>1, <1>3 DEF led_quiet_allOff
  <1>8. Put("active", TRUE) \in Calls
    BY <1>2, <1>3
  <1>. QED  BY <1>1, <1>2, <1>3, <1>4, <1>5, <1>6, <1>7, <1>8, SetStateCall
            DEF led_quiet_allOn, led_quiet_allOff, led_allOff, led_on, led_setState,
                led_toggle, led_statusOn, led_statusOff, led_statusToggle

LEMMA DispatchCalls ==
    ASSUME test \in BOOLEAN, idle.step \in 0 .. NbLed, NEW p \in PanelState
    PROVE  /\ \A l \in KeyLed \cup {None} : KeyWrites(l, p) \in Calls
           /\ \A seen \in BOOLEAN : /\ LeaveTest(seen, "kpdExit", p) \in Calls
                                   /\ LeaveTest(seen, "jstkExit", p) \in Calls
           /\ \A contact \in Contacts : JstkWrites(contact, p) \in Calls
           /\ \A blink \in BOOLEAN : StatusWrites(blink, p) \in Calls
           /\ \A tick \in BOOLEAN : IdleWrites(tick, p) \in Calls
           /\ \A command \in Commands, m \in Mask : CommandWrites(command, m) \in Calls
  <1>1. \A ws, vs \in Calls : ws \o vs \in Calls
    BY ConcatCalls
  <1>2. \A l \in KeyLed \cup {None} : KeyWrites(l, p) \in Calls
    <2>1. Put("kpdExit", TRUE) \in Calls
      BY LedCalls DEF Flags
    <2>. QED  BY <1>1, <2>1, NoCall, LedCalls, PanelAssumption DEF KeyWrites
  <1>3. \A seen \in BOOLEAN : /\ LeaveTest(seen, "kpdExit", p) \in Calls
                              /\ LeaveTest(seen, "jstkExit", p) \in Calls
    <2>1. Put("kpdExit", FALSE) \in Calls /\ Put("jstkExit", FALSE) \in Calls
      BY LedCalls DEF Flags
    <2>. QED  BY <1>1, <2>1, NoCall, LedCalls DEF LeaveTest
  <1>4. \A contact \in Contacts : JstkWrites(contact, p) \in Calls
    <2>1. Put("jstkExit", TRUE) \in Calls
      BY LedCalls DEF Flags
    <2>2. \A contact \in Contacts : contact \in SUBSET Led
      BY PanelAssumption DEF Contacts
    <2>. QED  BY <1>1, <1>3, <2>1, <2>2, LedCalls DEF JstkWrites
  <1>5. \A blink \in BOOLEAN : StatusWrites(blink, p) \in Calls
    <2>1. Put("prev", test) \in Calls
      BY LedCalls DEF Flags
    <2>. QED  BY <1>1, <2>1, NoCall, LedCalls DEF StatusWrites
  <1>6. \A tick \in BOOLEAN : IdleWrites(tick, p) \in Calls
    <2>1. {NextLed} \in SUBSET Led
      BY PanelAssumption DEF NextLed, Led
    <2>. QED  BY <2>1, NoCall, LedCalls, SetStateCall DEF IdleWrites
  <1>7. \A command \in Commands, m \in Mask : CommandWrites(command, m) \in Calls
    BY <1>1, LedCalls, PanelAssumption DEF CommandWrites, Commands
  <1>. QED  BY <1>2, <1>3, <1>4, <1>5, <1>6, <1>7

-----------------------------------------------------------------------------
(***************************************************************************)
(* The invariant of LedPanel.  The call main is in leaves port and map     *)
(* alike at its end, unless an interrupt came between its writes.  A state *)
(* the host has set can only be followed by frames in which nothing is     *)
(* due.                                                                    *)
(***************************************************************************)
TypeInv ==
    /\ test \in BOOLEAN /\ configured \in BOOLEAN /\ torn \in BOOLEAN
    /\ panel \in PanelState
    /\ idle \in [running : BOOLEAN, step : 0 .. NbLed]
    /\ todo \in Seq(Writes)

WillBeAlike == ~torn => Alike(ApplyAll(todo, panel))

Steady ==
    steady # None =>
        /\ ~test /\ At("loop") /\ ~idle.running
        /\ ~panel.kpdExit /\ ~panel.jstkExit /\ ~panel.prev
        /\ panel.port = steady

LedInv == TypeInv /\ WillBeAlike /\ Steady

\* A LED main is not about to write is not changed by the rest of its call.
LEMMA PendingUntouched ==
    ASSUME todo \in Seq(Writes), NEW p \in PanelState, NEW l, l \notin Pending
    PROVE  /\ l \in ApplyAll(todo, p).port <=> l \in p.port
           /\ l \in ApplyAll(todo, p).map <=> l \in p.map
  <1>1. \A n \in 1 .. Len(todo) : todo[n].to \in Ports => l \notin todo[n].with
    BY DEF Pending, Ports
  <1>. QED  BY <1>1, LedUntouched

\* If main is not about to write LEDs, the rest of its call keeps port and map.
LEMMA NothingPending ==
    ASSUME todo \in Seq(Writes), NEW p \in PanelState, Pending = {}
    PROVE  Alike(ApplyAll(todo, p)) <=> Alike(p)
  <1>. DEFINE q == ApplyAll(todo, p)
  <1>1. q \in PanelState
    BY ApplyAllType
  <1>2. \A l : (l \in q.port <=> l \in p.port) /\ (l \in q.map <=> l \in p.map)
    BY PendingUntouched
  <1>. HIDE DEF q
  <1>3. q.port = p.port /\ q.map = p.map
    BY <1>1, <1>2 DEF PanelState
  <1>. QED  BY <1>3 DEF Alike, q

LEMMA LedInvInit == Init => LedInv
  <1>. SUFFICES ASSUME Init PROVE LedInv
    OBVIOUS
  <1>1. panel \in PanelState /\ Alike(panel)
    BY DEF Init, PanelState, Alike
  <1>2. todo \in Calls
    BY LedCalls, ConcatCalls DEF Init
  <1>3. todo \in Seq(Writes) /\ Alike(ApplyAll(todo, panel))
    BY <1>1, <1>2 DEF Calls
  <1>4. idle \in [running : BOOLEAN, step : 0 .. NbLed]
    BY PanelAssumption DEF Init, Started
  <1>5. TypeInv
    BY <1>1, <1>3, <1>4 DEF Init, TypeInv
  <1>. QED  BY <1>3, <1>5 DEF Init, LedInv, WillBeAlike, Steady

\* The frame, call by call.
LEMMA FrameInv ==
    ASSUME LedInv, NEW key \in Keys, NEW contact \in Contacts, NEW blink \in BOOLEAN,
           NEW tick \in BOOLEAN, Frame(key, contact, blink, tick)
    PROVE  LedInv'
  <1>. DEFINE w0 == Put("kpdTest", test)
              p0 == ApplyAll(w0, panel)
              w1 == KeyWrites(key, p0)
              p1 == ApplyAll(w1, p0)
              w2 == LeaveTest(p1.kpdTest, "kpdExit", p1)
              p2 == ApplyAll(w2, p1)
              w3 == JstkWrites(contact, p2)
              p3 == ApplyAll(w3, p2)
              w4 == StatusWrites(blink, p3)
              p4 == ApplyAll(w4, p3)
              w5 == IdleWrites(tick, p4)
              p5 == ApplyAll(w5, p4)
  <1>1. /\ TypeInv /\ WillBeAlike /\ Steady
        /\ panel' = p5
        /\ idle' = CASE IdleStops(p4)       -> Stopped
                     [] IdleSteps(tick, p4) -> [idle EXCEPT !.step = NextLed]
                     [] OTHER -> idle
        /\ torn' = (torn \/ Pending # {})
        /\ UNCHANGED <<test, configured, pc, todo, steady>>
    BY DEF LedInv, Frame
  <1>2. /\ p0 \in PanelState /\ (Alike(panel) => Alike(p0))
        /\ p1 \in PanelState /\ (Alike(panel) => Alike(p1))
        /\ p2 \in PanelState /\ (Alike(panel) => Alike(p2))
        /\ p3 \in PanelState /\ (Alike(panel) => Alike(p3))
        /\ p4 \in PanelState /\ (Alike(panel) => Alike(p4))
        /\ p5 \in PanelState /\ (Alike(panel) => Alike(p5))
    <2>0. panel \in PanelState /\ test \in BOOLEAN /\ idle.step \in 0 .. NbLed
      BY <1>1 DEF TypeInv
    <2>. DEFINE Ok(q) == q \in PanelState /\ (Alike(panel) => Alike(q))
    <2>1. ASSUME NEW q, Ok(q), NEW ws \in Calls PROVE Ok(ApplyAll(ws, q))
      BY <2>1, ApplyAllType DEF Calls
    <2>7. Ok(p0)
      <3>1. w0 \in Calls
        BY <2>0, LedCalls DEF Flags
      <3>. QED  BY <2>0, <2>1, <3>1
    <2>. HIDE DEF p0
    <2>2. Ok(p1)
      <3>1. w1 \in Calls
        BY <2>0, <2>7, DispatchCalls DEF Keys
      <3>. QED  BY <2>7, <2>1, <3>1
    <2>. HIDE DEF p1
    <2>3. Ok(p2)
      <3>1. w2 \in Calls
        BY <2>0, <2>2, DispatchCalls DEF PanelState
      <3>. QED  BY <2>1, <2>2, <3>1
    <2>. HIDE DEF p2
    <2>4. Ok(p3)
      <3>1. w3 \in Calls
        BY <2>0, <2>3, DispatchCalls
      <3>. QED  BY <2>1, <2>3, <3>1
    <2>. HIDE DEF p3
    <2>5. Ok(p4)
      <3>1. w4 \in Calls
        BY <2>0, <2>4, DispatchCalls
      <3>. QED  BY <2>1, <2>4, <3>1
    <2>. HIDE DEF p4
    <2>6. Ok(p5)
      <3>1. w5 \in Calls
        BY <2>0, <2>5, DispatchCalls
      <3>. QED  BY <2>1, <2>5, <3>1
    <2>. QED  BY <2>2, <2>3, <2>4, <2>5, <2>6, <2>7
  <1>3. TypeInv'
    <2>. HIDE DEF p4, p5
    <2>1. NextLed \in 0 .. NbLed
      BY PanelAssumption, <1>1 DEF NextLed, TypeInv
    <2>2. idle' \in [running : BOOLEAN, step : 0 .. NbLed]
      BY <1>1, <2>1, PanelAssumption DEF TypeInv, Stopped, IdleStops, IdleSteps
    <2>. QED  BY <1>1, <1>2, <2>2 DEF TypeInv
  <1>4. WillBeAlike'
    <2>. SUFFICES ASSUME ~torn' PROVE Alike(ApplyAll(todo, p5))
      BY <1>1 DEF WillBeAlike
    <2>. HIDE DEF p4, p5
    <2>1. Pending = {} /\ ~torn /\ todo \in Seq(Writes) /\ panel \in PanelState
      BY <1>1 DEF TypeInv
    <2>2. Alike(ApplyAll(todo, panel))
      BY <1>1, <2>1 DEF WillBeAlike
    <2>3. Alike(panel)
      BY <2>1, <2>2, NothingPending
    <2>. QED  BY <1>2, <2>1, <2>3, NothingPending
  <1>5. Steady'
    <2>. SUFFICES ASSUME steady # None PROVE Steady'
      BY <1>1 DEF Steady
    <2>1. /\ ~test /\ At("loop") /\ ~idle.running /\ panel.port = steady
          /\ ~panel.kpdExit /\ ~panel.jstkExit /\ ~panel.prev /\ panel \in PanelState
      BY <1>1 DEF Steady, TypeInv
    <2>0. p0 = [panel EXCEPT !.kpdTest = FALSE]
      <3>1. test \in BOOLEAN /\ "kpdTest" \in Flags
        BY <1>1 DEF TypeInv, Flags
      <3>. QED  BY <2>1, <3>1, PutOne
    <2>. HIDE DEF p0
    <2>9. /\ p0.kpdTest = FALSE /\ p0.kpdExit = FALSE /\ p0.jstkExit = FALSE /\ p0.prev = FALSE
          /\ p0.port = panel.port /\ p0 \in PanelState
      BY <2>0, <2>1 DEF PanelState
    <2>2. p1 = p0
      <3>1. w1 = <<>>
        BY <2>9 DEF KeyWrites
      <3>. QED  BY <2>9, <3>1, ApplyNone
    <2>. HIDE DEF p1
    <2>3. p2 = p0
      <3>1. w2 = <<>>
        BY <2>9, <2>2 DEF LeaveTest
      <3>. QED  BY <2>9, <2>2, <3>1, ApplyNone
    <2>. HIDE DEF p2
    <2>4. p3 = p0
      <3>1. w3 = <<>>
        BY <2>1, <2>9, <2>3 DEF JstkWrites, LeaveTest
      <3>. QED  BY <2>9, <2>3, <3>1, ApplyNone
    <2>. HIDE DEF p3
    <2>5. p4 = [p0 EXCEPT !.prev = FALSE]
      <3>1. test \in BOOLEAN /\ Put("prev", test) = <<Write("prev", "put", test)>>
        BY <1>1 DEF TypeInv, Put
      <3>2. w4 = Put("prev", test)
        BY <2>1, <2>9, <2>4, <3>1 DEF StatusWrites
      <3>3. ApplyAll(Put("prev", test), p0) = [p0 EXCEPT !["prev"] = test]
        BY <2>9, <3>1, PutOne DEF Flags
      <3>. QED  BY <2>1, <2>4, <3>1, <3>2, <3>3
    <2>. HIDE DEF p4
    <2>6. p5 = p4
      <3>1. w5 = <<>>
        BY <2>1 DEF IdleWrites, IdleStops, IdleSteps
      <3>. QED  BY <1>2, <3>1, ApplyNone
    <2>. HIDE DEF p5
    <2>7. idle' = idle
      BY <1>1, <2>1 DEF IdleStops, IdleSteps
    <2>8. panel' = [p0 EXCEPT !.prev = FALSE]
      BY <1>1, <2>5, <2>6
    <2>. QED  BY <1>1, <2>1, <2>7, <2>8, <2>9 DEF Steady, At, PanelState
  <1>. QED  BY <1>3, <1>4, <1>5 DEF LedInv

\* STATUS_ON and STATUS_OFF write all LEDs: they repair what was left apart.
LEMMA CommandAlike ==
    ASSUME NEW command \in Commands, NEW m \in Mask, NEW p \in PanelState,
           Alike(p) \/ command # "STOP"
    PROVE  Alike(ApplyAll(CommandWrites(command, m), p))
  <1>1. m \in SUBSET Led /\ {Status} \in SUBSET All
    BY PanelAssumption DEF All
  <1>2. /\ led_quiet_setState(m) \in Calls /\ led_setState(m) \in Calls
        /\ Put("active", TRUE) \in Calls
    BY <1>1, LedCalls, SetStateCall DEF Flags
  <1>3. ASSUME NEW q \in PanelState, Status \in q.port <=> Status \in q.map
        PROVE  Alike(ApplyAll(led_setState(m), q))
    <2>. DEFINE x == ApplyAll(led_quiet_setState(m), q)
    <2>1. /\ x \in PanelState /\ led_quiet_setState(m) \in Seq(Writes)
          /\ x = [q EXCEPT !.port = (q.port \ Led) \cup m, !.map = (q.map \ (Led \ m)) \cup m]
      BY <1>1, <1>2, <1>3, SetStateFields, ApplyAllType
    <2>2. ApplyAll(led_setState(m), q) = ApplyAll(Put("active", TRUE), x)
      BY <1>2, <1>3, ApplyConcat DEF led_setState, Calls
    <2>. HIDE DEF x
    <2>3. x.port = (q.port \ Led) \cup m /\ x.map = (q.map \ (Led \ m)) \cup m
      BY <1>3, <2>1 DEF PanelState
    <2>4. Alike(x)
      BY <1>1, <1>3, <2>3 DEF Alike, All, PanelState
    <2>. QED  BY <1>2, <2>1, <2>2, <2>4 DEF Calls
  <1>4. ASSUME NEW how \in {"on", "off"}
        PROVE  Alike(ApplyAll(Both(how, {Status}) \o led_setState(m), p))
    <2>. DEFINE q == ApplyAll(Both(how, {Status}), p)
    <2>1. /\ q.port = After(how, {Status}, p.port) /\ q.map = After(how, {Status}, p.map)
          /\ Both(how, {Status}) \in Seq(Writes)
      BY <1>1, <1>4, BothFields
    <2>4. q \in PanelState
      BY <2>1, ApplyAllType
    <2>2. ApplyAll(Both(how, {Status}) \o led_setState(m), p) = ApplyAll(led_setState(m), q)
      BY <1>2, <2>1, ApplyConcat DEF Calls
    <2>. HIDE DEF q
    <2>3. Status \in q.port <=> Status \in q.map
      BY <1>4, <2>1 DEF After
    <2>. QED  BY <1>3, <2>2, <2>3, <2>4
  <1>5. CASE command = "STOP"
    BY <1>2, <1>5 DEF CommandWrites, Calls
  <1>6. CASE command = "STATUS_ON"
    BY <1>4, <1>6 DEF CommandWrites, led_statusOn
  <1>7. CASE command = "STATUS_OFF"
    BY <1>4, <1>7 DEF CommandWrites, led_statusOff
  <1>. QED  BY <1>5, <1>6, <1>7 DEF Commands

\* Commands do not touch the flags of test mode.
Outward(ws) == ws \in Seq(Writes) /\ \A n \in 1 .. Len(ws) : ws[n].to \in Ports \cup {"active"}

LEMMA OutwardConcat ==
    ASSUME NEW ws, NEW vs, Outward(ws), Outward(vs) PROVE Outward(ws \o vs)
  <1>1. /\ ws \in Seq(Writes) /\ vs \in Seq(Writes)
        /\ ws \o vs \in Seq(Writes) /\ Len(ws \o vs) = Len(ws) + Len(vs)
        /\ \A n \in 1 .. Len(ws) : (ws \o vs)[n] = ws[n]
        /\ \A n \in Len(ws) + 1 .. Len(ws) + Len(vs) : (ws \o vs)[n] = vs[n - Len(ws)]
        /\ Len(ws) \in Nat /\ Len(vs) \in Nat
    BY DEF Outward
  <1>2. ASSUME NEW n \in 1 .. Len(ws) + Len(vs)
        PROVE  (ws \o vs)[n].to \in Ports \cup {"active"}
    <2>1. CASE n <= Len(ws)
      BY <1>1, <2>1 DEF Outward
    <2>2. CASE n > Len(ws)
      <3>1. n - Len(ws) \in 1 .. Len(vs) /\ n \in Len(ws) + 1 .. Len(ws) + Len(vs)
        BY <1>1, <2>2
      <3>. QED  BY <1>1, <3>1 DEF Outward
    <2>. QED  BY <1>1, <2>1, <2>2
  <1>. QED  BY <1>1, <1>2 DEF Outward

LEMMA CommandFlags ==
    ASSUME NEW command \in Commands, NEW m \in Mask, NEW p \in PanelState,
           NEW flag \in Flags \ {"active"}
    PROVE  ApplyAll(CommandWrites(command, m), p)[flag] = p[flag]
  <1>1. \A how \in {"on", "off", "toggle"}, leds \in SUBSET All : Outward(Both(how, leds))
    BY DEF Outward, Both, Write, Writes, Ports
  <1>2. Outward(led_setState(m))
    <2>1. m \in SUBSET All /\ Led \ m \in SUBSET All /\ Led \in SUBSET All
      BY PanelAssumption DEF All
    <2>2. Outward(led_quiet_setState(m))
      BY <2>1 DEF Outward, led_quiet_setState, Write, Writes, Ports
    <2>3. Outward(Put("active", TRUE))
      BY DEF Outward, Put, Write, Writes, Flags
    <2>. QED  BY <2>2, <2>3, OutwardConcat DEF led_setState
  <1>3. Outward(CommandWrites(command, m))
    <2>1. {Status} \in SUBSET All
      BY DEF All
    <2>2. Outward(led_statusOn) /\ Outward(led_statusOff)
      BY <1>1, <2>1 DEF led_statusOn, led_statusOff
    <2>. QED  BY <1>2, <2>2, OutwardConcat DEF CommandWrites, Commands
  <1>4. flag \notin Ports \cup {"active"}
    BY DEF Flags, Ports
  <1>. QED  BY <1>3, <1>4, FlagUntouched DEF Outward

LEMMA CommandInv ==
    ASSUME LedInv, NEW command \in Commands, NEW m \in Mask, Command(command, m)
    PROVE  LedInv'
  <1>. DEFINE q == ApplyAll(CommandWrites(command, m), panel)
  <1>1. /\ TypeInv /\ WillBeAlike /\ Steady
        /\ panel' = q
        /\ torn' = (Pending # {} \/ (torn /\ command = "STOP"))
        /\ steady' = IF Lasts THEN q.port ELSE None
        /\ UNCHANGED <<test, configured, idle, pc, todo>>
    BY DEF LedInv, Command
  <1>2. panel \in PanelState /\ todo \in Seq(Writes) /\ test \in BOOLEAN /\ idle.step \in 0 .. NbLed
    BY <1>1 DEF TypeInv
  <1>3. q \in PanelState
    <2>1. CommandWrites(command, m) \in Calls
      BY <1>2, DispatchCalls
    <2>. QED  BY <1>2, <2>1, ApplyAllType DEF Calls
  <1>4. WillBeAlike'
    <2>. SUFFICES ASSUME ~torn' PROVE Alike(ApplyAll(todo, q))
      BY <1>1 DEF WillBeAlike
    <2>1. Pending = {} /\ (~torn \/ command # "STOP")
      BY <1>1
    <2>2. Alike(panel) \/ command # "STOP"
      BY <1>1, <1>2, <2>1, NothingPending DEF WillBeAlike
    <2>3. Alike(q)
      BY <1>2, <2>2, CommandAlike
    <2>. HIDE DEF q
    <2>. QED  BY <1>2, <1>3, <2>1, <2>3, NothingPending
  <1>5. Steady'
    <2>1. \A flag \in Flags \ {"active"} : q[flag] = panel[flag]
      BY <1>2, CommandFlags
    <2>. HIDE DEF q
    <2>2. q.kpdExit = panel.kpdExit /\ q.jstkExit = panel.jstkExit /\ q.prev = panel.prev
      BY <1>3, <2>1 DEF Flags, PanelState
    <2>. QED  BY <1>1, <2>2 DEF Steady, Lasts, At
  <1>. HIDE DEF q
  <1>. QED  BY <1>1, <1>3, <1>4, <1>5 DEF LedInv, TypeInv

LEMMA CommandStartInv == ASSUME LedInv, CommandStart PROVE LedInv'
  <1>1. /\ TypeInv /\ WillBeAlike
        /\ panel' = ApplyAll(Put("active", FALSE), panel) /\ idle' = Started /\ steady' = None
        /\ UNCHANGED <<test, configured, pc, todo, torn>>
    BY DEF LedInv, CommandStart
  <1>2. /\ panel \in PanelState /\ todo \in Seq(Writes)
        /\ panel' = [panel EXCEPT !["active"] = FALSE]
    BY <1>1, PutOne DEF TypeInv, Flags
  <1>3. panel' \in PanelState /\ panel'.port = panel.port /\ panel'.map = panel.map
    BY <1>2 DEF PanelState
  <1>4. idle' \in [running : BOOLEAN, step : 0 .. NbLed]
    BY <1>1, PanelAssumption DEF Started
  <1>5. WillBeAlike'
    BY <1>1, <1>2, <1>3, LedsDecide DEF WillBeAlike, Alike
  <1>. QED  BY <1>1, <1>3, <1>4, <1>5 DEF LedInv, TypeInv, Steady

\* A write of main is the next of its call: what the call leaves is unchanged.
LEMMA MainWriteInv == ASSUME LedInv, MainWrite PROVE LedInv'
  <1>1. /\ TypeInv /\ WillBeAlike /\ Steady
        /\ todo # <<>> /\ panel' = Apply(Head(todo), panel) /\ todo' = Tail(todo)
        /\ UNCHANGED <<test, configured, idle, pc, torn, steady>>
    BY DEF LedInv, MainWrite
  <1>2. todo \in Seq(Writes) /\ panel \in PanelState
    BY <1>1 DEF TypeInv
  <1>3. Head(todo) \in Writes /\ todo' \in Seq(Writes)
    BY <1>1, <1>2
  <1>4. panel' \in PanelState
    BY <1>1, <1>2, <1>3, ApplyType
  <1>5. ApplyAll(todo, panel) = ApplyAll(todo', panel')
    BY <1>1, <1>2, ApplyFirst
  <1>6. Steady'
    BY <1>1 DEF Steady, At
  <1>7. WillBeAlike'
    BY <1>1, <1>5 DEF WillBeAlike
  <1>. QED  BY <1>1, <1>3, <1>4, <1>6, <1>7 DEF LedInv, TypeInv

LEMMA CallInv ==
    ASSUME LedInv, NEW from, NEW writes \in Calls, NEW to, Call(from, writes, to),
           test \/ from # "loop"
    PROVE  LedInv'
  <1>1. /\ TypeInv /\ WillBeAlike /\ Steady
        /\ pc = from /\ todo = <<>> /\ todo' = writes
        /\ UNCHANGED <<test, configured, panel, idle, torn, steady>>
    BY DEF LedInv, Call, At
  <1>2. panel \in PanelState /\ writes \in Seq(Writes)
    BY <1>1 DEF TypeInv, Calls
  <1>3. WillBeAlike'
    BY <1>1, <1>2, ApplyNone DEF WillBeAlike, Calls
  <1>4. Steady'
    BY <1>1 DEF Steady, At
  <1>. QED  BY <1>1, <1>2, <1>3, <1>4 DEF LedInv, TypeInv

LEMMA MainInv == ASSUME LedInv, Main PROVE LedInv'
  <1>1. panel \in PanelState /\ test \in BOOLEAN /\ idle.step \in 0 .. NbLed
    BY DEF LedInv, TypeInv
  <1>2. CASE MainWrite
    BY <1>2, MainWriteInv
  <1>3. CASE StartupEnds
    <2>1. led_quiet_allOff \o led_statusOff \in Calls
      BY LedCalls, ConcatCalls
    <2>. QED  BY <1>3, <2>1, CallInv DEF StartupEnds
  <1>8. CASE LoopStarts
    BY <1>8, NoCall, CallInv DEF LoopStarts
  <1>9. CASE KeypadStarts
    <2>1. Put("kpdTest", test) \in Calls
      BY <1>1, LedCalls DEF Flags
    <2>. QED  BY <1>9, <2>1, CallInv DEF KeypadStarts
  <1>4. ASSUME NEW key \in KeyLed \cup {None}, KeypadReport(key) PROVE LedInv'
    <2>1. KeyWrites(key, panel) \in Calls
      BY <1>1, DispatchCalls
    <2>. QED  BY <1>4, <2>1, CallInv DEF KeypadReport
  <1>5. CASE KeypadEnds
    <2>1. LeaveTest(panel.kpdTest, "kpdExit", panel) \in Calls
      BY <1>1, DispatchCalls DEF PanelState
    <2>. QED  BY <1>5, <2>1, CallInv DEF KeypadEnds
  <1>6. ASSUME NEW contact \in Contacts, Jstk(contact) PROVE LedInv'
    <2>1. JstkWrites(contact, panel) \in Calls
      BY <1>1, DispatchCalls
    <2>. QED  BY <1>6, <2>1, CallInv DEF Jstk
  <1>7. ASSUME NEW blink \in Blinks, StatusUi(blink) PROVE LedInv'
    <2>1. blink \in BOOLEAN
      BY <1>1 DEF Blinks
    <2>2. StatusWrites(blink, panel) \in Calls
      BY <1>1, <2>1, DispatchCalls
    <2>. QED  BY <1>7, <2>2, CallInv DEF StatusUi
  <1>. QED  BY <1>2, <1>3, <1>4, <1>5, <1>6, <1>7, <1>8, <1>9 DEF Main

LEMMA TurnSwitchInv == ASSUME LedInv, TurnSwitch PROVE LedInv'
  <1>1. /\ TypeInv /\ WillBeAlike /\ Steady
        /\ test' = ~test /\ steady' = (IF test' THEN None ELSE steady)
        /\ UNCHANGED <<configured, panel, idle, pc, todo, torn>>
    BY DEF LedInv, TurnSwitch
  <1>2. Steady'
    BY <1>1 DEF Steady
  <1>. QED  BY <1>1, <1>2 DEF LedInv, TypeInv, WillBeAlike

LEMMA SetConfiguredInv == ASSUME LedInv, SetConfigured PROVE LedInv'
  BY DEF LedInv, SetConfigured, TypeInv, WillBeAlike, Steady, At

LEMMA LedInvNext == LedInv /\ [Next]_vars => LedInv'
  <1>. SUFFICES ASSUME LedInv, [Next]_vars PROVE LedInv'
    OBVIOUS
  <1>1. ASSUME NEW key \in Keys, NEW contact \in Contacts, NEW blink \in Blinks,
               NEW tick \in Ticks, Frame(key, contact, blink, tick)
        PROVE  LedInv'
    <2>1. blink \in BOOLEAN /\ tick \in BOOLEAN
      BY DEF Blinks, Ticks
    <2>. QED  BY <1>1, <2>1, FrameInv
  <1>2. ASSUME NEW command \in Commands, NEW m \in Mask, Command(command, m) PROVE LedInv'
    BY <1>2, CommandInv
  <1>3. CASE CommandStart
    BY <1>3, CommandStartInv
  <1>4. CASE Main
    BY <1>4, MainInv
  <1>5. CASE TurnSwitch
    BY <1>5, TurnSwitchInv
  <1>6. CASE SetConfigured
    BY <1>6, SetConfiguredInv
  <1>7. CASE UNCHANGED vars
    BY <1>7 DEF vars, LedInv, TypeInv, WillBeAlike, Steady, At
  <1>. QED  BY <1>1, <1>2, <1>3, <1>4, <1>5, <1>6, <1>7 DEF Next

\* The map the host reads tells which LEDs are lit, but for those main is about
\* to write: main and the interrupts write port and map in pairs, and an
\* interrupt between the two writes of a pair is what torn records.
THEOREM MapIsTrue == Spec => []MapTellsPort
  <1>1. LedInv => MapTellsPort
    <2>. SUFFICES ASSUME LedInv, ~torn, NEW l \in All \ Pending
                  PROVE  l \in panel.port <=> l \in panel.map
      BY DEF MapTellsPort
    <2>. DEFINE q == ApplyAll(todo, panel)
    <2>1. q.port = q.map
      BY DEF LedInv, WillBeAlike, Alike
    <2>2. (l \in q.port <=> l \in panel.port) /\ (l \in q.map <=> l \in panel.map)
      BY PendingUntouched DEF LedInv, TypeInv
    <2>. QED  BY <2>1, <2>2
  <1>. QED  BY <1>1, LedInvInit, LedInvNext, PTL DEF Spec

\* What the host has lit stays lit: no frame, no step of main and no change of
\* the configuration writes an LED in normal mode, once the animation is over
\* and the LEDs of test mode have been put out.
THEOREM HostIsObeyed == Spec => []HostLedsStay
  <1>1. LedInv => HostLedsStay
    BY DEF LedInv, Steady, HostLedsStay
  <1>. QED  BY <1>1, LedInvInit, LedInvNext, PTL DEF Spec

-----------------------------------------------------------------------------
(***************************************************************************)
(* Keypad: what keypad_poll finds when nothing interrupts it.              *)
(***************************************************************************)
\* The instance counts like this module.
LEMMA NewestIsOne ==
    ASSUME NEW rows \in SUBSET Row, NEW prev, rows # {}
    PROVE  Newest(rows, prev) \in rows
  <1>. DEFINE new == IF rows \ prev # {} THEN rows \ prev ELSE rows
  <1>1. new \in SUBSET Nat /\ new # {} /\ new \subseteq rows
    <2>1. rows \in SUBSET Nat
      BY KeypadAssumption DEF Row
    <2>. QED  BY <2>1
  <1>. HIDE DEF new
  <1>2. \E r \in new : \A q \in new : r <= q
    BY <1>1, LeastNumber
  <1>3. (CHOOSE r \in new : \A q \in new : r <= q) \in new
    BY <1>2
  <1>. QED  BY <1>1, <1>3 DEF Newest, new

\* The buttons that are down in the first c columns.
Below(c) == {b \in held : b[1] <= c}

LEMMA RowsFinite ==
    ASSUME NEW c
    PROVE  /\ RowsOf(c) \in SUBSET Row
           /\ IsFiniteSet(RowsOf(c)) /\ Cardinality(RowsOf(c)) \in Nat
  <1>1. IsFiniteSet(Row)
    BY FS_Interval, KeypadAssumption DEF Row
  <1>2. RowsOf(c) \in SUBSET Row
    BY DEF RowsOf
  <1>. QED  BY <1>1, <1>2, FS_Subset, FS_CardinalityType

\* A column adds the rows it shows.
LEMMA BelowGrows ==
    ASSUME held \subseteq Button, NEW c \in Nat,
           IsFiniteSet(Below(c))
    PROVE  /\ IsFiniteSet(Below(c + 1))
           /\ Cardinality(Below(c + 1)) =
                Cardinality(Below(c)) + Cardinality(RowsOf(c + 1))
           /\ \A r \in RowsOf(c + 1) : <<c + 1, r>> \in Below(c + 1)
           /\ Below(c) \subseteq Below(c + 1)
           /\ RowsOf(c + 1) = {} => Below(c + 1) = Below(c)
  <1>. DEFINE rows == RowsOf(c + 1)
              T == {<<c + 1, r>> : r \in rows}
              f == [r \in rows |-> <<c + 1, r>>]
  <1>1. IsFiniteSet(rows)
    BY RowsFinite
  <1>2. f \in Surjection(rows, T)
    BY DEF Surjection
  <1>3. f \in Injection(rows, T)
    BY DEF Injection, IsInjective
  <1>4. IsFiniteSet(T) /\ Cardinality(T) = Cardinality(rows)
    <2>. HIDE DEF f, T, rows
    <2>. QED  BY <1>1, <1>2, <1>3, FS_Surjection
  <1>5. \A b \in held : \E i \in Col, r \in Row : b = <<i, r>>
    BY KeypadAssumption
  <1>6. \A r \in rows : <<c + 1, r>> \in held
    BY DEF RowsOf
  <1>7. ASSUME NEW b \in held, b[1] = c + 1 PROVE b \in T
    <2>1. PICK i \in Col, r \in Row : b = <<i, r>>
      BY <1>5
    <2>2. i = c + 1 /\ r \in rows
      BY <1>7, <2>1 DEF RowsOf
    <2>. QED  BY <2>1, <2>2
  <1>8. \A b \in held : b[1] \in Nat
    BY <1>5, KeypadAssumption DEF Col
  <1>9. Below(c + 1) = Below(c) \cup T /\ Below(c) \cap T = {}
    <2>1. \A b \in T : b \in held /\ b[1] = c + 1
      BY <1>6
    <2>. HIDE DEF T
    <2>. QED  BY <1>7, <1>8, <2>1 DEF Below
  <1>10. \A r \in rows : <<c + 1, r>> \in T
    OBVIOUS
  <1>11. rows = {} => T = {}
    OBVIOUS
  <1>12. Cardinality(Below(c)) \in Nat /\ Cardinality(rows) \in Nat /\ Cardinality({}) = 0
    BY RowsFinite, FS_CardinalityType, FS_EmptySet
  <1>. HIDE DEF T, rows
  <1>13. /\ IsFiniteSet(Below(c) \cup T)
         /\ Cardinality(Below(c) \cup T) = Cardinality(Below(c)) + Cardinality(T) - 0
    <2>. DEFINE D == Below(c)
    <2>. HIDE DEF D
    <2>1. IsFiniteSet(D) /\ D \cap T = {}
      BY <1>9 DEF D
    <2>2. /\ IsFiniteSet(D \cup T)
          /\ Cardinality(D \cup T) = Cardinality(D) + Cardinality(T) - Cardinality(D \cap T)
      BY <1>4, <2>1, FS_Union
    <2>3. Cardinality(D \cap T) = 0
      BY <1>12, <2>1
    <2>. QED  BY <2>2, <2>3 DEF D
  <1>14. Cardinality(Below(c) \cup T) = Cardinality(Below(c)) + Cardinality(rows)
    BY <1>4, <1>12, <1>13
  <1>15. IsFiniteSet(Below(c + 1)) /\ Cardinality(Below(c + 1)) = Cardinality(Below(c)) + Cardinality(rows)
    BY <1>9, <1>13, <1>14
  <1>16. (\A r \in rows : <<c + 1, r>> \in Below(c + 1)) /\ (rows = {} => Below(c + 1) = Below(c))
    BY <1>9, <1>10, <1>11
  <1>17. Below(c) \subseteq Below(c + 1)
    BY <1>9
  <1>. QED  BY <1>15, <1>16, <1>17 DEF rows

LEMMA BelowEnds ==
    ASSUME held \subseteq Button
    PROVE  Below(0) = {} /\ Below(NbCol) = held
  <1>1. \A b \in held : b[1] \in 1 .. NbCol
    BY KeypadAssumption DEF Col
  <1>. QED  BY <1>1, KeypadAssumption DEF Below

\* The scan up to column c.
Scanned(s, c) ==
    /\ s.col = c + 1
    /\ IsFiniteSet(Below(c)) /\ s.count = Cardinality(Below(c))
    /\ IF Below(c) = {} THEN s.last = None ELSE s.last \in Below(c)

LEMMA ColumnScanned ==
    ASSUME held \subseteq Button, NEW c \in 0 .. NbCol - 1,
           NEW s, Scanned(s, c), NEW prev
    PROVE  Scanned(ScanColumn(RowsOf(c + 1), prev, s), c + 1)
  <1>. DEFINE rows == RowsOf(c + 1)
              t == ScanColumn(rows, prev, s)
  <1>1. /\ t.col = s.col + 1
        /\ t.last = IF rows = {} THEN s.last ELSE <<s.col, Newest(rows, prev)>>
        /\ t.count = s.count + Cardinality(rows)
    <2>. HIDE DEF rows
    <2>1. t = [col   |-> s.col + 1,
               last  |-> IF rows = {} THEN s.last ELSE <<s.col, Newest(rows, prev)>>,
               count |-> s.count + Cardinality(rows)]
      BY Zenon DEF ScanColumn
    <2>. HIDE DEF t
    <2>. QED  BY <2>1
  <1>2. c \in Nat /\ c + 1 \in Nat
    BY KeypadAssumption
  <1>3. rows # {} => Newest(rows, prev) \in rows
    BY RowsFinite, NewestIsOne
  <1>4. /\ IsFiniteSet(Below(c + 1))
        /\ Cardinality(Below(c + 1)) = Cardinality(Below(c)) + Cardinality(rows)
        /\ \A r \in rows : <<c + 1, r>> \in Below(c + 1)
        /\ Below(c) \subseteq Below(c + 1)
        /\ rows = {} => Below(c + 1) = Below(c)
    BY <1>2, BelowGrows DEF Scanned
  <1>. HIDE DEF rows, t
  <1>5. Scanned(t, c + 1)
    BY <1>1, <1>2, <1>3, <1>4 DEF Scanned
  <1>. QED  BY <1>5 DEF t, rows

\* One turn of the loop, as Poll makes it.
Turn(k, c, s) ==
    ScanColumn(RowsOf(c), IF c = 1 THEN k.prev ELSE RowsOf(c - 1), s)

LEMMA ScansExist ==
    ASSUME NEW k
    PROVE  \E f : f = [c \in 0 .. NbCol |-> IF c = 0 THEN NoScan ELSE Turn(k, c, f[c - 1])]
  <1>. DEFINE Upto(f, n) ==
                f = [c \in 0 .. n |-> IF c = 0 THEN NoScan ELSE Turn(k, c, f[c - 1])]
              S == {n \in Nat : \E f : Upto(f, n)}
  <1>1. 0 \in S
    <2>. DEFINE f == [c \in 0 .. 0 |-> NoScan]
    <2>. HIDE DEF Turn
    <2>1. Upto(f, 0)
      OBVIOUS
    <2>. QED  BY <2>1
  <1>2. ASSUME NEW n \in Nat, n \in S PROVE n + 1 \in S
    <2>1. PICK f : Upto(f, n)
      BY <1>2
    <2>. DEFINE g == [c \in 0 .. n + 1 |-> IF c <= n THEN f[c] ELSE Turn(k, n + 1, f[n])]
    <2>2. \A c \in 0 .. n + 1 : g[c] = IF c = 0 THEN NoScan ELSE Turn(k, c, g[c - 1])
      <3>. TAKE c \in 0 .. n + 1
      <3>1. CASE c = 0
        BY <2>1, <3>1
      <3>2. CASE c \in 1 .. n
        BY <2>1, <3>2
      <3>3. CASE c = n + 1
        BY <3>3
      <3>. QED  BY <3>1, <3>2, <3>3
    <2>3. Upto(g, n + 1)
      BY <2>2
    <2>. HIDE DEF g, Upto
    <2>4. \E h : Upto(h, n + 1)
      BY <2>3
    <2>. QED  BY <2>4
  <1>3. Nat \subseteq S
    <2>. HIDE DEF S
    <2>. QED  BY <1>1, <1>2, NatSetInduction
  <1>. QED  BY <1>3, KeypadAssumption

\* keypad_poll sees whether a button is down and whether several are, the key
\* it names is one of them, and the map has them all.
LEMMA PollSees ==
    ASSUME held \subseteq Button, NEW k
    PROVE  \E s : /\ Cardinality(held) \in Nat
                  /\ Poll(k) = [EndScan(s, Cleared(k)) EXCEPT
                                   !.prev = RowsOf(NbCol), !.keyMap = @ \cup held]
                  /\ s.count = Cardinality(held)
                  /\ IF held = {} THEN s.last = None ELSE s.last \in held
  <1>. DEFINE All0(f) == [c \in 0 .. NbCol |-> IF c = 0 THEN NoScan ELSE Turn(k, c, f[c - 1])]
              g == CHOOSE f : f = All0(f)
              S == {n \in Nat : n <= NbCol => Scanned(g[n], n)}
  <1>1. g = All0(g)
    <2>. HIDE DEF All0
    <2>1. \E f : f = All0(f)
      BY ScansExist DEF All0
    <2>. QED  BY <2>1
  <1>2. Poll(k) = [EndScan(g[NbCol], Cleared(k)) EXCEPT
                      !.prev = RowsOf(NbCol),
                      !.keyMap = @ \cup UNION {Mapped(c, RowsOf(c)) : c \in Col}]
    BY DEF Poll, Turn
  <1>. HIDE DEF g
  <1>3. 0 \in S
    <2>1. g[0] = NoScan
      BY <1>1, KeypadAssumption
    <2>2. Below(0) = {} /\ IsFiniteSet({}) /\ Cardinality({}) = 0
      BY BelowEnds, FS_EmptySet
    <2>3. Scanned(g[0], 0)
      BY <2>1, <2>2 DEF Scanned, NoScan
    <2>. QED  BY <2>3
  <1>4. ASSUME NEW n \in Nat, n \in S PROVE n + 1 \in S
    <2>. SUFFICES ASSUME n + 1 <= NbCol PROVE Scanned(g[n + 1], n + 1)
      OBVIOUS
    <2>1. g[n + 1] = Turn(k, n + 1, g[n]) /\ n \in 0 .. NbCol - 1 /\ Scanned(g[n], n)
      BY <1>1, <1>4, KeypadAssumption
    <2>. QED  BY <2>1, ColumnScanned DEF Turn
  <1>5. Nat \subseteq S
    <2>. HIDE DEF S
    <2>. QED  BY <1>3, <1>4, NatSetInduction
  <1>6. Scanned(g[NbCol], NbCol)
    BY <1>5, KeypadAssumption
  <1>7. IsFiniteSet(held) /\ Cardinality(held) \in Nat
    BY <1>6, BelowEnds, FS_CardinalityType DEF Scanned
  <1>8. UNION {Mapped(c, RowsOf(c)) : c \in Col} = held
    <2>1. \A b \in held : b \in Mapped(b[1], RowsOf(b[1])) /\ b[1] \in Col
      BY KeypadAssumption DEF Mapped, RowsOf
    <2>2. \A c \in Col : Mapped(c, RowsOf(c)) \subseteq held
      BY DEF Mapped, RowsOf
    <2>. QED  BY <2>1, <2>2
  <1>9. Poll(k) = [EndScan(g[NbCol], Cleared(k)) EXCEPT
                      !.prev = RowsOf(NbCol), !.keyMap = @ \cup held]
    BY <1>2, <1>8, Zenon
  <1>. QED  BY <1>6, <1>7, <1>9, BelowEnds DEF Scanned

-----------------------------------------------------------------------------
(***************************************************************************)
(* The invariant of Keypad.  What keypad_report remembers of a press is    *)
(* what the frames have seen of it, unless main took a part in it, and a   *)
(* turn of main that is not disturbed sees what is down.                   *)
(***************************************************************************)
KpdState ==
    [prev : SUBSET Row, keyMap : SUBSET Button, pressed : BOOLEAN, code : Button \cup {None},
     multi : BOOLEAN, testMode : BOOLEAN, currState : BOOLEAN, prevState : BOOLEAN,
     currentCode : Button \cup {None}, firstKey : BOOLEAN, firstCode : Button \cup {None},
     block : BOOLEAN]

\* The scan of main; an interrupt may have taken its column away.
ScanType ==
    /\ scan \in [col : 1 .. NbCol + 1, last : Button \cup {None}, count : Nat]
    /\ kpdPc = "read" => scan.col \in Col /\ selected \in {0, scan.col}
    /\ kpdPc \notin {"select", "read"} => scan = NoScan

KpdType ==
    /\ held \subseteq Button /\ first \subseteq Button /\ test \in BOOLEAN
    /\ crowd \in BOOLEAN /\ raced \in BOOLEAN /\ noted \in BOOLEAN /\ blurred \in BOOLEAN
    /\ kpd \in KpdState

\* The gesture the statics stand for is the one the frames have seen.
Follows(k, f, c) ==
    /\ k.firstKey = (f # {})
    /\ k.firstKey => k.firstCode \in f /\ k.block = c

Press ==
    IF raced THEN first = {} ELSE Follows(kpd, first, crowd)

\* main has the sample of a report.
Reporting == {"sampled", "toggle", "first", "more", "last", "reported"}

\* What main has seen of the matrix by now is what is down.
SeenByMain ==
    /\ kpdPc \in {"select", "read"} => Scanned(scan, scan.col - 1)
    /\ kpdPc = "read" => selected = scan.col
    /\ kpdPc = "report" => kpd.pressed = (held # {}) /\ (held # {} => kpd.code \in held)
    /\ kpdPc \in Reporting =>
          kpd.currState = (held # {}) /\ (held # {} => kpd.currentCode \in held)

\* prevState outlasts the press that was seen.
PressNoted ==
    /\ kpdPc = "toggle" => kpd.currState /\ ~kpd.prevState
    /\ noted => kpd.prevState \/ kpdPc = "reported"

KpdInv ==
    /\ KpdType /\ ScanType /\ Press
    /\ ~blurred => SeenByMain /\ PressNoted

LEMMA KpdInvInit == KpdInit => KpdInv
  <1>. SUFFICES ASSUME KpdInit PROVE KpdInv
    OBVIOUS
  <1>1. ScanType
    BY KeypadAssumption DEF KpdInit, NoScan, ScanType
  <1>2. kpd \in KpdState
    BY DEF KpdInit, KpdState
  <1>. QED  BY <1>1, <1>2 DEF KpdInit, KpdInv, KpdType, Press, Follows, SeenByMain,
                                PressNoted, Reporting

\* The fields a poll leaves alone.
SameGesture(q, k) ==
    /\ q.firstKey = k.firstKey /\ q.firstCode = k.firstCode /\ q.block = k.block
    /\ q.prevState = k.prevState

\* What keypad_poll and the start of keypad_report make of the statics.
LEMMA PollFields ==
    ASSUME held \subseteq Button, test \in BOOLEAN, NEW k \in KpdState
    PROVE  LET q == Sampled(Poll(k))
           IN  /\ q \in KpdState /\ SameGesture(q, k)
               /\ q.keyMap = held /\ q.testMode = test
               /\ q.pressed = (held # {}) /\ q.currState = (held # {})
               /\ q.multi = (Cardinality(held) > 1)
               /\ held # {} => q.currentCode \in held
  <1>1. PICK s : /\ Cardinality(held) \in Nat
                 /\ Poll(k) = [EndScan(s, Cleared(k)) EXCEPT
                                  !.prev = RowsOf(NbCol), !.keyMap = @ \cup held]
                 /\ s.count = Cardinality(held)
                 /\ IF held = {} THEN s.last = None ELSE s.last \in held
    BY PollSees
  <1>2. held # {} => s.last \in Button /\ s.last # None
    BY <1>1, KeypadAssumption
  <1>3. RowsOf(NbCol) \in SUBSET Row
    BY RowsFinite
  <1>. DEFINE d == Cleared(k)
              e == EndScan(s, d)
              p == Poll(k)
              q == Sampled(p)
  <1>4. d \in KpdState /\ SameGesture(d, k) /\ d.keyMap = {} /\ d.code = k.code
    BY DEF Cleared, KpdState, SameGesture
  <1>5. e = EndScan(s, d) /\ p = [e EXCEPT !.prev = RowsOf(NbCol), !.keyMap = @ \cup held]
    BY <1>1
  <1>. HIDE DEF d, e, p
  <1>6. /\ e \in KpdState /\ SameGesture(e, k) /\ e.keyMap = {}
        /\ e.pressed = (held # {}) /\ e.multi = (Cardinality(held) > 1)
        /\ held # {} => e.code \in held
    <2>. DEFINE some == s.last # None
                code == IF some THEN s.last ELSE d.code
                several == s.count > 1
    <2>1. e = [d EXCEPT !.pressed = some, !.code = code, !.multi = several]
      BY <1>5 DEF EndScan
    <2>2. some = (held # {}) /\ some \in BOOLEAN
      BY <1>1, <1>2
    <2>3. code \in Button \cup {None} /\ (held # {} => code \in held)
      BY <1>1, <1>2, <1>4 DEF KpdState
    <2>4. several = (Cardinality(held) > 1) /\ several \in BOOLEAN
      BY <1>1
    <2>. HIDE DEF some, code, several
    <2>5. /\ e \in KpdState /\ e.pressed = some /\ e.multi = several /\ e.code = code
          /\ SameGesture(e, d) /\ e.keyMap = d.keyMap
      BY <1>4, <2>1, <2>2, <2>3, <2>4 DEF KpdState, SameGesture
    <2>. QED  BY <1>4, <2>2, <2>3, <2>4, <2>5 DEF SameGesture
  <1>7. /\ p \in KpdState /\ SameGesture(p, k) /\ p.keyMap = held
        /\ p.pressed = (held # {}) /\ p.multi = (Cardinality(held) > 1)
        /\ held # {} => p.code \in held
    BY <1>3, <1>5, <1>6 DEF KpdState, SameGesture
  <1>8. q = [p EXCEPT !.testMode = test, !.currState = p.pressed, !.currentCode = p.code]
    BY DEF Sampled
  <1>. HIDE DEF q
  <1>9. /\ q \in KpdState /\ SameGesture(q, k) /\ q.keyMap = held /\ q.testMode = test
        /\ q.pressed = (held # {}) /\ q.currState = (held # {})
        /\ q.multi = (Cardinality(held) > 1)
        /\ held # {} => q.currentCode \in held
    BY <1>7, <1>8 DEF KpdState, SameGesture
  <1>. QED  BY <1>9 DEF q, p

\* The conditions of keypad_report.
LEMMA BranchOf ==
    ASSUME NEW k \in KpdState
    PROVE  /\ Branch(k) \in Branches \cup {"reported"}
           /\ Branch(k) = "toggle" <=> k.testMode /\ k.currState /\ ~k.prevState
           /\ Branch(k) = "first" <=> ~k.testMode /\ ~k.firstKey /\ k.pressed
           /\ Branch(k) = "more" <=> ~k.testMode /\ k.firstKey /\ k.pressed
           /\ Branch(k) = "last" <=> ~k.testMode /\ k.firstKey /\ ~k.pressed
  BY DEF Branch, Branches, KpdState

\* What a branch does to the statics.
LEMMA ActedFields ==
    ASSUME NEW k \in KpdState, NEW branch
    PROVE  LET a == Acted(branch, k)
           IN  /\ a \in KpdState /\ a.keyMap = k.keyMap
               /\ a.currState = k.currState /\ a.currentCode = k.currentCode
               /\ a.prevState = k.prevState
               /\ branch = "first" => a.firstKey /\ a.firstCode = k.currentCode /\ ~a.block
               /\ branch = "more" => /\ a.firstKey = k.firstKey /\ a.firstCode = k.firstCode
                                     /\ a.block = (k.block \/ k.multi)
               /\ branch = "last" => ~a.firstKey
               /\ branch \notin {"first", "more", "last"} => SameGesture(a, k)
  <1>. DEFINE a == Acted(branch, k)
  <1>1. CASE branch = "first"
    <2>1. a = [k EXCEPT !.firstKey = TRUE, !.firstCode = k.currentCode, !.block = FALSE]
      BY <1>1 DEF Acted
    <2>. HIDE DEF a
    <2>2. /\ a \in KpdState /\ a.keyMap = k.keyMap
          /\ a.currState = k.currState /\ a.currentCode = k.currentCode
          /\ a.prevState = k.prevState
          /\ a.firstKey /\ a.firstCode = k.currentCode /\ ~a.block
      BY <2>1 DEF KpdState
    <2>. QED  BY <1>1, <2>2 DEF a
  <1>2. CASE branch = "more"
    <2>. DEFINE block == k.block \/ k.multi
    <2>1. a = [k EXCEPT !.block = block]
      BY <1>2 DEF Acted
    <2>2. block \in BOOLEAN
      BY DEF KpdState
    <2>. HIDE DEF a, block
    <2>3. /\ a \in KpdState /\ a.keyMap = k.keyMap
          /\ a.currState = k.currState /\ a.currentCode = k.currentCode
          /\ a.prevState = k.prevState
          /\ a.firstKey = k.firstKey /\ a.firstCode = k.firstCode /\ a.block = block
      BY <2>1, <2>2 DEF KpdState
    <2>. QED  BY <1>2, <2>3 DEF a, block
  <1>3. CASE branch = "last"
    <2>1. a = [k EXCEPT !.firstKey = FALSE, !.block = FALSE]
      BY <1>3 DEF Acted
    <2>. HIDE DEF a
    <2>2. /\ a \in KpdState /\ a.keyMap = k.keyMap
          /\ a.currState = k.currState /\ a.currentCode = k.currentCode
          /\ a.prevState = k.prevState /\ ~a.firstKey
      BY <2>1 DEF KpdState
    <2>. QED  BY <1>3, <2>2 DEF a
  <1>4. CASE branch \notin {"first", "more", "last"}
    <2>1. a = k
      BY <1>4 DEF Acted
    <2>. QED  BY <1>4, <2>1 DEF SameGesture
  <1>. QED  BY <1>1, <1>2, <1>3, <1>4

LEMMA ReportedFields ==
    ASSUME NEW k \in KpdState
    PROVE  /\ Reported(k) \in KpdState /\ Reported(k).prevState = k.currState
           /\ Reported(k).firstKey = k.firstKey /\ Reported(k).firstCode = k.firstCode
           /\ Reported(k).block = k.block /\ Reported(k).keyMap = k.keyMap
  BY DEF Reported, KpdState

\* What a frame makes of the statics.
LEMMA FrameFields ==
    ASSUME KpdInv, KpdFrame
    PROVE  \E k : /\ k \in KpdState /\ SameGesture(k, kpd)
                  /\ k.testMode = test /\ k.pressed = (held # {})
                  /\ k.currState = (held # {}) /\ (held # {} => k.currentCode \in held)
                  /\ k.multi = (Cardinality(held) > 1)
                  /\ Seen(Branch(k), k)
                  /\ kpd' = Reported(Acted(Branch(k), k))
                  /\ kpd' \in KpdState /\ kpd'.keyMap = held
                  /\ kpd'.prevState = (held # {})
  <1>. DEFINE k == Sampled(Poll(kpd))
  <1>1. Seen(Branch(k), k) /\ kpd' = Reported(Acted(Branch(k), k))
    BY DEF KpdFrame
  <1>2. held \subseteq Button /\ test \in BOOLEAN /\ kpd \in KpdState
    BY DEF KpdInv, KpdType
  <1>3. /\ k \in KpdState /\ SameGesture(k, kpd) /\ k.keyMap = held
        /\ k.testMode = test /\ k.pressed = (held # {})
        /\ k.currState = (held # {}) /\ (held # {} => k.currentCode \in held)
        /\ k.multi = (Cardinality(held) > 1)
    BY <1>2, PollFields
  <1>. HIDE DEF k
  <1>. DEFINE a == Acted(Branch(k), k)
  <1>4. a \in KpdState /\ a.keyMap = k.keyMap /\ a.currState = k.currState
    BY <1>3, ActedFields
  <1>. HIDE DEF a
  <1>5. /\ Reported(a) \in KpdState /\ Reported(a).prevState = a.currState
        /\ Reported(a).keyMap = a.keyMap
    BY <1>4, ReportedFields
  <1>6. kpd' = Reported(a)
    BY <1>1 DEF a
  <1>. QED  BY <1>1, <1>3, <1>4, <1>5, <1>6

\* The press that is judged after a frame is the one the report keeps.
LEMMA FramePress ==
    ASSUME KpdInv, KpdFrame PROVE Press'
  <1>1. PICK k : /\ k \in KpdState /\ SameGesture(k, kpd)
                 /\ k.testMode = test /\ k.pressed = (held # {})
                 /\ k.currState = (held # {}) /\ (held # {} => k.currentCode \in held)
                 /\ k.multi = (Cardinality(held) > 1)
                 /\ kpd' = Reported(Acted(Branch(k), k))
    BY FrameFields
  <1>2. IF test THEN UNCHANGED <<first, crowd, raced>>
        ELSE /\ raced' = (raced /\ held # {})
             /\ first' = IF raced \/ (held # {} /\ first # {}) THEN first ELSE held
             /\ crowd' = (held # {} /\ first # {} /\ (crowd \/ Cardinality(held) > 1))
    BY DEF KpdFrame
  <1>3. Press /\ test \in BOOLEAN /\ crowd \in BOOLEAN /\ raced \in BOOLEAN
    BY DEF KpdInv, KpdType
  <1>. DEFINE b == Branch(k)
              a == Acted(b, k)
  <1>4. /\ b = "toggle" => test
        /\ b = "first" <=> ~test /\ ~kpd.firstKey /\ held # {}
        /\ b = "more" <=> ~test /\ kpd.firstKey /\ held # {}
        /\ b = "last" <=> ~test /\ kpd.firstKey /\ held = {}
    BY <1>1, BranchOf DEF SameGesture
  <1>. HIDE DEF b
  <1>5. /\ a \in KpdState
        /\ b = "first" => a.firstKey /\ a.firstCode = k.currentCode /\ ~a.block
        /\ b = "more" => /\ a.firstKey = k.firstKey /\ a.firstCode = k.firstCode
                         /\ a.block = (k.block \/ k.multi)
        /\ b = "last" => ~a.firstKey
        /\ b \notin {"first", "more", "last"} => SameGesture(a, k)
    BY <1>1, ActedFields
  <1>. HIDE DEF a
  <1>6. kpd'.firstKey = a.firstKey /\ kpd'.firstCode = a.firstCode /\ kpd'.block = a.block
    BY <1>1, <1>5, ReportedFields DEF a, b
  <1>. DEFINE crowded == Cardinality(held) > 1
  <1>7. k.multi = crowded
    BY <1>1
  <1>. HIDE DEF crowded
  <1>8. kpd.firstKey \in BOOLEAN /\ kpd.block \in BOOLEAN
    BY DEF KpdInv, KpdType, KpdState
  <1>9. CASE test
    <2>1. kpd'.firstKey = kpd.firstKey /\ kpd'.firstCode = kpd.firstCode
          /\ kpd'.block = kpd.block
      BY <1>1, <1>4, <1>5, <1>6, <1>9 DEF SameGesture
    <2>2. first' = first /\ crowd' = crowd /\ raced' = raced
      BY <1>2, <1>9
    <2>. QED  BY <1>3, <2>1, <2>2 DEF Press, Follows
  <1>10. CASE ~test
    <2>1. CASE held = {}
      <3>1. ~kpd'.firstKey
        <4>1. CASE kpd.firstKey
          BY <1>4, <1>5, <1>6, <1>10, <2>1, <4>1
        <4>2. CASE ~kpd.firstKey
          <5>1. SameGesture(a, k) /\ SameGesture(k, kpd)
            BY <1>1, <1>4, <1>5, <1>10, <2>1, <4>2
          <5>. QED  BY <1>6, <4>2, <5>1 DEF SameGesture
        <4>. QED  BY <4>1, <4>2
      <3>2. kpd'.firstKey \in BOOLEAN
        BY <1>5, <1>6 DEF KpdState
      <3>3. raced' = FALSE /\ first' = {}
        BY <1>2, <1>3, <1>10, <2>1 DEF Press
      <3>. QED  BY <3>1, <3>2, <3>3 DEF Press, Follows
    <2>2. CASE held # {} /\ raced
      <3>1. raced' = TRUE /\ first' = {}
        BY <1>2, <1>3, <1>10, <2>2 DEF Press
      <3>. QED  BY <3>1 DEF Press
    <2>3. CASE held # {} /\ ~raced /\ ~kpd.firstKey
      <3>1. first = {}
        BY <1>3, <2>3 DEF Press, Follows
      <3>2. raced' = FALSE /\ first' = held /\ crowd' = FALSE
        BY <1>2, <1>10, <2>3, <3>1
      <3>3. kpd'.firstKey /\ kpd'.firstCode \in held /\ ~kpd'.block
        BY <1>1, <1>4, <1>5, <1>6, <1>10, <2>3
      <3>4. kpd'.firstKey \in BOOLEAN /\ kpd'.block \in BOOLEAN
        BY <1>5, <1>6 DEF KpdState
      <3>. QED  BY <2>3, <3>2, <3>3, <3>4 DEF Press, Follows
    <2>4. CASE held # {} /\ ~raced /\ kpd.firstKey
      <3>1. first # {} /\ kpd.firstCode \in first /\ kpd.block = crowd
        BY <1>3, <2>4 DEF Press, Follows
      <3>2. raced' = FALSE /\ first' = first /\ crowd' = (crowd \/ crowded)
        BY <1>2, <1>10, <2>4, <3>1 DEF crowded
      <3>3. kpd'.firstKey = kpd.firstKey /\ kpd'.firstCode = kpd.firstCode
            /\ kpd'.block = (kpd.block \/ crowded)
        BY <1>1, <1>4, <1>5, <1>6, <1>7, <1>10, <2>4 DEF SameGesture
      <3>. QED  BY <1>8, <2>4, <3>1, <3>2, <3>3 DEF Press, Follows
    <2>. QED  BY <2>1, <2>2, <2>3, <2>4
  <1>. QED  BY <1>3, <1>9, <1>10

LEMMA KpdFrameInv ==
    ASSUME KpdInv, KpdFrame PROVE KpdInv'
  <1>1. /\ selected' = 0 /\ noted' = (held # {})
        /\ blurred' = (kpdPc # "loop" \/ (blurred /\ held # {} /\ toggle' = None))
        /\ UNCHANGED <<held, test, configured, kpdPc, scan>>
    BY DEF KpdFrame, Blurs
  <1>2. IF test THEN UNCHANGED <<first, crowd, raced>>
        ELSE /\ raced' = (raced /\ held # {})
             /\ first' = IF raced \/ (held # {} /\ first # {}) THEN first ELSE held
             /\ crowd' = (held # {} /\ first # {} /\ (crowd \/ Cardinality(held) > 1))
    BY DEF KpdFrame
  <1>3. KpdType /\ ScanType
    BY DEF KpdInv
  <1>4. kpd' \in KpdState /\ kpd'.prevState = (held # {})
    BY FrameFields
  <1>5. ScanType'
    BY <1>1, <1>3 DEF ScanType
  <1>6. first' \subseteq Button /\ crowd' \in BOOLEAN /\ raced' \in BOOLEAN
    BY <1>2, <1>3 DEF KpdType
  <1>7. KpdType'
    BY <1>1, <1>3, <1>4, <1>6 DEF KpdType
  <1>8. ~blurred' => SeenByMain' /\ PressNoted'
    BY <1>1, <1>4 DEF SeenByMain, PressNoted, Reporting
  <1>. QED  BY <1>5, <1>7, <1>8, FramePress DEF KpdInv

\* Steps of main that leave the judgement of the press alone.
LEMMA ScanStepInv ==
    ASSUME KpdInv, UNCHANGED <<held, test, history>>,
           ScanType', kpd' \in KpdState, SameGesture(kpd', kpd),
           kpdPc # "reported", kpdPc' \notin Reporting,
           ~blurred /\ SeenByMain => SeenByMain'
    PROVE  KpdInv'
  <1>1. first' = first /\ crowd' = crowd /\ raced' = raced /\ noted' = noted
        /\ blurred' = blurred /\ held' = held /\ test' = test
    BY DEF history
  <1>2. KpdType' /\ Press'
    BY <1>1 DEF KpdInv, KpdType, Press, Follows, SameGesture
  <1>3. ~blurred => PressNoted'
    BY <1>1 DEF KpdInv, PressNoted, SameGesture, Reporting
  <1>. QED  BY <1>1, <1>2, <1>3 DEF KpdInv

LEMMA PollStartsInv ==
    ASSUME KpdInv, PollStarts PROVE KpdInv'
  <1>1. /\ kpdPc = "poll" /\ kpdPc' = "select" /\ kpd' = Cleared(kpd)
        /\ UNCHANGED <<held, test, configured, selected, scan, history>>
    BY DEF PollStarts, World
  <1>2. kpd \in KpdState /\ ScanType /\ held \subseteq Button
    BY DEF KpdInv, KpdType
  <1>3. kpd' \in KpdState /\ SameGesture(kpd', kpd)
    BY <1>1, <1>2 DEF Cleared, KpdState, SameGesture
  <1>4. scan = NoScan /\ ScanType'
    BY <1>1, <1>2, KeypadAssumption DEF ScanType, NoScan
  <1>5. Below(0) = {} /\ IsFiniteSet({}) /\ Cardinality({}) = 0
    BY <1>2, BelowEnds, FS_EmptySet
  <1>6. Scanned(scan, scan.col - 1)
    BY <1>4, <1>5 DEF Scanned, NoScan
  <1>7. SeenByMain'
    BY <1>1, <1>6 DEF SeenByMain, Reporting, Scanned, Below
  <1>. QED  BY <1>1, <1>3, <1>4, <1>7, ScanStepInv DEF Reporting

LEMMA ColumnSelectInv ==
    ASSUME KpdInv, ColumnSelect PROVE KpdInv'
  <1>1. /\ kpdPc = "select" /\ scan.col \in Col /\ selected' = scan.col /\ kpdPc' = "read"
        /\ UNCHANGED <<held, test, configured, kpd, scan, history>>
    BY DEF ColumnSelect, World
  <1>2. kpd \in KpdState /\ ScanType
    BY DEF KpdInv, KpdType
  <1>3. ScanType'
    BY <1>1, <1>2 DEF ScanType
  <1>4. SeenByMain => SeenByMain'
    BY <1>1 DEF SeenByMain, Reporting, Scanned, Below
  <1>. QED  BY <1>1, <1>2, <1>3, <1>4, ScanStepInv DEF Reporting, SameGesture

LEMMA ColumnReadInv ==
    ASSUME KpdInv, ColumnRead PROVE KpdInv'
  <1>. DEFINE rows == RowsOf(selected)
              keys == kpd.keyMap \cup Mapped(scan.col, rows)
  <1>1. /\ kpdPc = "read" /\ kpdPc' = "select"
        /\ scan' = ScanColumn(rows, kpd.prev, scan)
        /\ scan' = [col   |-> scan.col + 1,
                    last  |-> IF rows = {} THEN scan.last
                              ELSE <<scan.col, Newest(rows, kpd.prev)>>,
                    count |-> scan.count + Cardinality(rows)]
        /\ kpd' = [kpd EXCEPT !.prev = rows, !.keyMap = keys]
        /\ UNCHANGED <<held, test, configured, selected, history>>
    BY Zenon
       DEF ColumnRead, ScanColumn, World
  <1>2. rows \in SUBSET Row /\ Cardinality(rows) \in Nat
    BY RowsFinite
  <1>3. kpd \in KpdState /\ ScanType /\ held \subseteq Button
    BY DEF KpdInv, KpdType
  <1>4. rows # {} => <<scan.col, Newest(rows, kpd.prev)>> \in Button
    <2>. SUFFICES ASSUME rows # {} PROVE <<scan.col, Newest(rows, kpd.prev)>> \in Button
      OBVIOUS
    <2>1. Newest(rows, kpd.prev) \in rows
      BY <1>2, NewestIsOne
    <2>2. <<selected, Newest(rows, kpd.prev)>> \in Button
      BY <1>3, <2>1 DEF RowsOf
    <2>3. selected \in Col
      BY <2>2, KeypadAssumption
    <2>4. selected = scan.col
      BY <1>1, <1>3, <2>3 DEF ScanType, Col
    <2>. QED  BY <2>2, <2>4
  <1>5. scan.col \in Col /\ scan.col + 1 \in 1 .. NbCol + 1
    BY <1>1, <1>3, KeypadAssumption DEF ScanType, Col
  <1>6. keys \in SUBSET Button
    BY <1>3 DEF Mapped, KpdState
  <1>7. ~blurred /\ SeenByMain => SeenByMain'
    <2>. SUFFICES ASSUME SeenByMain PROVE SeenByMain'
      OBVIOUS
    <2>1. selected = scan.col /\ Scanned(scan, scan.col - 1)
      BY <1>1 DEF SeenByMain
    <2>. DEFINE c == scan.col - 1
    <2>2. c \in 0 .. NbCol - 1 /\ c + 1 = scan.col
      BY <1>5, KeypadAssumption DEF Col
    <2>3. scan' = ScanColumn(RowsOf(c + 1), kpd.prev, scan)
      BY <1>1, <2>1, <2>2
    <2>4. Scanned(scan, c)
      BY <2>1
    <2>. HIDE DEF c
    <2>5. Scanned(scan', c + 1)
      BY <1>3, <2>2, <2>3, <2>4, ColumnScanned
    <2>6. scan'.col - 1 = c + 1
      BY <1>1, <1>5, <2>2, KeypadAssumption DEF Col
    <2>7. Scanned(scan', scan'.col - 1)
      BY <2>5, <2>6
    <2>8. held' = held /\ kpdPc' = "select"
      BY <1>1
    <2>. HIDE DEF rows, keys
    <2>. QED  BY <2>7, <2>8 DEF SeenByMain, Reporting, Scanned, Below
  <1>. HIDE DEF rows, keys
  <1>8. ScanType'
    BY <1>1, <1>2, <1>3, <1>4, <1>5 DEF ScanType
  <1>9. kpd' \in KpdState /\ SameGesture(kpd', kpd)
    BY <1>1, <1>2, <1>3, <1>6 DEF KpdState, SameGesture
  <1>. QED  BY <1>1, <1>7, <1>8, <1>9, ScanStepInv DEF Reporting

LEMMA ScanEndsInv ==
    ASSUME KpdInv, ScanEnds PROVE KpdInv'
  <1>1. /\ kpdPc = "select" /\ scan.col \notin Col
        /\ kpd' = EndScan(scan, kpd) /\ selected' = 0 /\ kpdPc' = "report"
        /\ scan' = NoScan
        /\ UNCHANGED <<held, test, configured, history>>
    BY DEF ScanEnds, World
  <1>2. kpd \in KpdState /\ ScanType /\ held \subseteq Button
    BY DEF KpdInv, KpdType
  <1>3. scan.last \in Button \cup {None} /\ scan.count \in Nat
    BY <1>2 DEF ScanType
  <1>. DEFINE some == scan.last # None
              code == IF some THEN scan.last ELSE kpd.code
              several == scan.count > 1
  <1>4. kpd' = [kpd EXCEPT !.pressed = some, !.code = code, !.multi = several]
    BY <1>1 DEF EndScan
  <1>5. some \in BOOLEAN /\ several \in BOOLEAN /\ code \in Button \cup {None}
    BY <1>2, <1>3 DEF KpdState
  <1>6. ~blurred /\ SeenByMain => some = (held # {}) /\ (held # {} => code \in held)
    <2>. SUFFICES ASSUME SeenByMain PROVE some = (held # {}) /\ (held # {} => code \in held)
      OBVIOUS
    <2>1. scan.col - 1 = NbCol
      BY <1>1, <1>2, KeypadAssumption DEF ScanType, Col
    <2>2. Scanned(scan, scan.col - 1)
      BY <1>1 DEF SeenByMain
    <2>3. IF held = {} THEN scan.last = None ELSE scan.last \in held
      BY <1>2, <2>1, <2>2, BelowEnds DEF Scanned
    <2>. QED  BY <1>2, <2>3, KeypadAssumption
  <1>. HIDE DEF some, code, several
  <1>7. /\ kpd' \in KpdState /\ SameGesture(kpd', kpd)
        /\ kpd'.pressed = some /\ kpd'.code = code
    BY <1>2, <1>4, <1>5 DEF KpdState, SameGesture
  <1>8. ScanType'
    BY <1>1, KeypadAssumption DEF ScanType, NoScan
  <1>9. ~blurred /\ SeenByMain => SeenByMain'
    BY <1>1, <1>6, <1>7 DEF SeenByMain, Reporting
  <1>. QED  BY <1>1, <1>7, <1>8, <1>9, ScanStepInv DEF Reporting

LEMMA ReportStartsInv ==
    ASSUME KpdInv, ReportStarts PROVE KpdInv'
  <1>1. /\ kpdPc = "report" /\ kpdPc' = "sampled" /\ kpd' = Sampled(kpd)
        /\ UNCHANGED <<held, test, configured, selected, scan>>
        /\ first' = first /\ crowd' = crowd /\ raced' = raced /\ noted' = noted
        /\ blurred' = blurred
    BY DEF ReportStarts, World, history
  <1>2. KpdType /\ ScanType /\ Press
    BY DEF KpdInv
  <1>3. /\ kpd' \in KpdState /\ SameGesture(kpd', kpd)
        /\ kpd'.currState = kpd.pressed /\ kpd'.currentCode = kpd.code
    BY <1>1, <1>2 DEF Sampled, KpdType, KpdState, SameGesture
  <1>4. KpdType' /\ ScanType' /\ Press'
    BY <1>1, <1>2, <1>3 DEF KpdType, ScanType, Press, Follows, SameGesture
  <1>5. SeenByMain => SeenByMain'
    BY <1>1, <1>3 DEF SeenByMain, Reporting
  <1>6. PressNoted => PressNoted'
    BY <1>1, <1>3 DEF PressNoted, SameGesture
  <1>. QED  BY <1>1, <1>4, <1>5, <1>6 DEF KpdInv

LEMMA ReportBranchesInv ==
    ASSUME KpdInv, ReportBranches PROVE KpdInv'
  <1>1. /\ kpdPc = "sampled" /\ kpdPc' = Branch(kpd)
        /\ UNCHANGED <<held, test, configured, selected, kpd, scan>>
        /\ first' = first /\ crowd' = crowd /\ raced' = raced /\ noted' = noted
        /\ blurred' = blurred
    BY DEF ReportBranches, World, history
  <1>2. KpdType /\ ScanType /\ Press
    BY DEF KpdInv
  <1>3. /\ Branch(kpd) \in Branches \cup {"reported"}
        /\ Branch(kpd) = "toggle" => kpd.currState /\ ~kpd.prevState
    BY <1>2, BranchOf DEF KpdType
  <1>4. kpdPc' \in Reporting \ {"sampled"}
    BY <1>1, <1>3 DEF Branches, Reporting
  <1>5. KpdType' /\ ScanType' /\ Press'
    BY <1>1, <1>2, <1>4 DEF KpdType, ScanType, Press, Follows, Reporting
  <1>6. SeenByMain => SeenByMain'
    BY <1>1, <1>4 DEF SeenByMain, Reporting
  <1>7. PressNoted => PressNoted'
    BY <1>1, <1>3 DEF PressNoted
  <1>. QED  BY <1>1, <1>5, <1>6, <1>7 DEF KpdInv

LEMMA ReportActsInv ==
    ASSUME KpdInv, ReportActs PROVE KpdInv'
  <1>1. /\ kpdPc \in Branches /\ kpdPc' = "reported" /\ kpd' = Acted(kpdPc, kpd)
        /\ UNCHANGED <<held, test, configured, selected, scan>> /\ blurred' = blurred
        /\ IF kpdPc = "toggle"
           THEN noted' = (held # {}) /\ first' = first /\ crowd' = crowd /\ raced' = raced
           ELSE raced' = TRUE /\ first' = {} /\ crowd' = FALSE /\ noted' = noted
    BY DEF ReportActs, World
  <1>2. KpdType /\ ScanType /\ Press
    BY DEF KpdInv
  <1>3. /\ kpd' \in KpdState /\ kpd'.currState = kpd.currState
        /\ kpd'.currentCode = kpd.currentCode /\ kpd'.prevState = kpd.prevState
        /\ kpdPc = "toggle" => SameGesture(kpd', kpd)
    BY <1>1, <1>2, ActedFields DEF KpdType
  <1>4. KpdType' /\ ScanType'
    BY <1>1, <1>2, <1>3 DEF KpdType, ScanType, Branches
  <1>5. Press'
    BY <1>1, <1>2, <1>3 DEF Press, Follows, SameGesture
  <1>6. SeenByMain => SeenByMain'
    BY <1>1, <1>3 DEF SeenByMain, Reporting, Branches
  <1>7. PressNoted'
    BY <1>1 DEF PressNoted
  <1>. QED  BY <1>1, <1>4, <1>5, <1>6, <1>7 DEF KpdInv

LEMMA ReportEndsInv ==
    ASSUME KpdInv, ReportEnds PROVE KpdInv'
  <1>1. /\ kpdPc = "reported" /\ kpdPc' = "loop" /\ kpd' = Reported(kpd)
        /\ UNCHANGED <<held, test, configured, selected, scan, first, crowd, raced>>
        /\ noted' = (held # {} /\ (noted \/ kpd.currState))
        /\ blurred' = (blurred /\ held # {} /\ ~kpd.currState)
    BY DEF ReportEnds, World
  <1>2. KpdType /\ ScanType /\ Press
    BY DEF KpdInv
  <1>3. /\ kpd' \in KpdState /\ kpd'.prevState = kpd.currState
        /\ kpd'.firstKey = kpd.firstKey /\ kpd'.firstCode = kpd.firstCode
        /\ kpd'.block = kpd.block
    BY <1>1, <1>2, ReportedFields DEF KpdType
  <1>4. KpdType' /\ ScanType' /\ Press'
    BY <1>1, <1>2, <1>3 DEF KpdType, ScanType, Press, Follows
  <1>5. SeenByMain'
    BY <1>1 DEF SeenByMain, Reporting
  <1>6. ~blurred' => PressNoted'
    <2>1. ~blurred /\ held # {} => kpd.currState
      BY <1>1 DEF KpdInv, SeenByMain, Reporting
    <2>. QED  BY <1>1, <1>3, <2>1 DEF PressNoted
  <1>. QED  BY <1>4, <1>5, <1>6 DEF KpdInv

LEMMA KpdMainInv ==
    ASSUME KpdInv, KpdMain PROVE KpdInv'
  <1>1. CASE KpdLoopStarts
    <2>1. /\ kpdPc = "loop" /\ kpdPc' = "poll"
          /\ UNCHANGED <<held, test, configured, selected, kpd, scan, history>>
      BY <1>1 DEF KpdLoopStarts, World
    <2>2. kpd \in KpdState /\ ScanType
      BY DEF KpdInv, KpdType
    <2>3. ScanType'
      BY <2>1, <2>2 DEF ScanType
    <2>4. SeenByMain'
      BY <2>1 DEF SeenByMain, Reporting
    <2>. QED  BY <2>1, <2>2, <2>3, <2>4, ScanStepInv DEF Reporting, SameGesture
  <1>2. CASE PollStarts
    BY <1>2, PollStartsInv
  <1>3. CASE ColumnSelect
    BY <1>3, ColumnSelectInv
  <1>4. CASE ColumnRead
    BY <1>4, ColumnReadInv
  <1>5. CASE ScanEnds
    BY <1>5, ScanEndsInv
  <1>6. CASE ReportStarts
    BY <1>6, ReportStartsInv
  <1>7. CASE ReportBranches
    BY <1>7, ReportBranchesInv
  <1>8. CASE ReportActs
    BY <1>8, ReportActsInv
  <1>9. CASE ReportEnds
    BY <1>9, ReportEndsInv
  <1>. QED  BY <1>1, <1>2, <1>3, <1>4, <1>5, <1>6, <1>7, <1>8, <1>9 DEF KpdMain

\* A button that moves in a turn of main disturbs it.
LEMMA PressOrReleaseInv ==
    ASSUME KpdInv, NEW b \in Button, PressOrRelease(b) PROVE KpdInv'
  <1>1. /\ held' = IF b \in held THEN held \ {b} ELSE held \cup {b}
        /\ noted' = (noted /\ held' # {})
        /\ blurred' = (kpdPc # "loop" \/ (blurred /\ held' # {}))
        /\ UNCHANGED <<test, configured, selected, kpd, kpdPc, scan, first, crowd, raced>>
    BY DEF PressOrRelease, Blurs, Quiet
  <1>2. KpdType /\ ScanType /\ Press
    BY DEF KpdInv
  <1>3. held' \subseteq Button
    BY <1>1, <1>2 DEF KpdType
  <1>4. noted' \in BOOLEAN /\ blurred' \in BOOLEAN
    BY <1>1, <1>2 DEF KpdType
  <1>5. KpdType' /\ ScanType' /\ Press'
    BY <1>1, <1>2, <1>3, <1>4 DEF KpdType, ScanType, Press, Follows
  <1>6. ~blurred' => SeenByMain'
    BY <1>1 DEF SeenByMain, Reporting
  <1>7. ~blurred' => PressNoted'
    BY <1>1 DEF KpdInv, PressNoted
  <1>. QED  BY <1>5, <1>6, <1>7 DEF KpdInv

LEMMA KpdInvNext == KpdInv /\ [KpdNext]_kpdVars => KpdInv'
  <1>. SUFFICES ASSUME KpdInv, [KpdNext]_kpdVars PROVE KpdInv'
    OBVIOUS
  <1>1. CASE KpdFrame
    BY <1>1, KpdFrameInv
  <1>2. CASE KpdMain
    BY <1>2, KpdMainInv
  <1>3. ASSUME NEW b \in Button, PressOrRelease(b) PROVE KpdInv'
    BY <1>3, PressOrReleaseInv
  <1>4. ASSUME test' \in BOOLEAN, UNCHANGED <<held, selected, kpd, kpdPc, scan, history>>
        PROVE  KpdInv'
    BY <1>4 DEF history, KpdInv, KpdType, ScanType, Press, Follows, SeenByMain, PressNoted,
                Reporting, Scanned, Below
  <1>5. CASE KpdTurnSwitch
    BY <1>4, <1>5 DEF KpdTurnSwitch
  <1>6. test \in BOOLEAN
    BY DEF KpdInv, KpdType
  <1>7. CASE KpdSetConfigured
    BY <1>4, <1>6, <1>7 DEF KpdSetConfigured
  <1>8. CASE UNCHANGED kpdVars
    BY <1>4, <1>6, <1>8 DEF kpdVars
  <1>. QED  BY <1>1, <1>2, <1>3, <1>5, <1>7, <1>8 DEF KpdNext

-----------------------------------------------------------------------------
(***************************************************************************)
(* The theorems about Keypad.                                              *)
(***************************************************************************)
\* In normal mode the release of the last key sends one stroke, of a key that
\* was down at the first sample of the press, unless a later sample saw two
\* keys, and no other frame sends one: what keypad_report keeps in its statics
\* is what the frames have seen, however many columns and rows are scanned.  A
\* press is excepted if main took a part in it.
THEOREM StrokesAreEarned == KpdSpec => StrokeIsEarned
  <1>1. ASSUME KpdInv, ~test /\ ~raced /\ KpdFrame
        PROVE  IF held = {} /\ first # {} /\ ~crowd THEN stroke' \in first
               ELSE stroke' = None
    <2>1. PICK k : /\ k \in KpdState /\ SameGesture(k, kpd)
                   /\ k.testMode = test /\ k.pressed = (held # {})
                   /\ Seen(Branch(k), k)
      BY <1>1, FrameFields
    <2>2. Follows(kpd, first, crowd)
      BY <1>1 DEF KpdInv, Press
    <2>3. Branch(k) = "last" <=> first # {} /\ held = {}
      BY <1>1, <2>1, <2>2, BranchOf DEF SameGesture, Follows
    <2>4. first # {} => k.firstCode \in first /\ k.block = crowd
      BY <2>1, <2>2 DEF SameGesture, Follows
    <2>5. stroke' = IF Branch(k) = "last" /\ ~k.block THEN k.firstCode ELSE None
      BY <2>1 DEF Seen
    <2>. QED  BY <2>3, <2>4, <2>5
  <1>2. KpdInv => [~test /\ ~raced /\ KpdFrame =>
                     IF held = {} /\ first # {} /\ ~crowd THEN stroke' \in first
                     ELSE stroke' = None]_kpdVars
    BY <1>1
  <1>. QED  BY <1>2, KpdInvInit, KpdInvNext, PTL DEF KpdSpec, StrokeIsEarned

\* From the moment keys go down until all are up, frames and main together toggle
\* one LED at most, of a key that is down, whichever of the keys are released
\* meanwhile and however the switch is turned.  Excepted are toggles in a turn of
\* main that a frame cuts in two or in which a button moves, and the first one
\* after such a turn if it took the keys for released.
THEOREM TogglesOnce == KpdSpec => OneTogglePerPress
  <1>1. ASSUME KpdInv, KpdFrame, toggle' # None
        PROVE  blurred \/ blurred' \/ (~noted /\ toggle' \in held)
    <2>1. PICK k : /\ k \in KpdState /\ SameGesture(k, kpd)
                   /\ k.currState = (held # {}) /\ (held # {} => k.currentCode \in held)
                   /\ Seen(Branch(k), k)
      BY <1>1, FrameFields
    <2>2. toggle' = k.currentCode /\ k.currState /\ ~k.prevState
      BY <1>1, <2>1, BranchOf DEF Seen
    <2>3. held # {} /\ toggle' \in held /\ ~kpd.prevState
      BY <2>1, <2>2 DEF SameGesture
    <2>4. kpdPc # "loop" => blurred'
      BY <1>1 DEF KpdFrame, Blurs
    <2>. QED  BY <1>1, <2>3, <2>4 DEF KpdInv, KpdType, PressNoted
  <1>2. ASSUME KpdInv, ReportActs, toggle' # None
        PROVE  blurred \/ blurred' \/ (~noted /\ toggle' \in held)
    <2>1. kpdPc = "toggle" /\ toggle' = kpd.currentCode /\ blurred' = blurred
      BY <1>2 DEF ReportActs, Seen
    <2>2. ~blurred => /\ kpd.currState /\ ~kpd.prevState
                      /\ ~noted
                      /\ kpd.currState = (held # {}) /\ (held # {} => kpd.currentCode \in held)
      BY <1>2, <2>1 DEF KpdInv, SeenByMain, PressNoted, Reporting
    <2>. QED  BY <1>2, <2>1, <2>2 DEF KpdInv, KpdType
  <1>3. ASSUME KpdNext, toggle' # None PROVE KpdFrame \/ ReportActs
    BY <1>3 DEF KpdNext, KpdMain, Quiet, KpdLoopStarts, PollStarts, ColumnSelect, ColumnRead,
                ScanEnds, ReportStarts, ReportBranches, ReportEnds, PressOrRelease,
                KpdTurnSwitch, KpdSetConfigured
  <1>4. KpdInv /\ [KpdNext]_kpdVars =>
          [toggle' # None => blurred \/ blurred' \/ (~noted /\ toggle' \in held)]_kpdVars
    BY <1>1, <1>2, <1>3
  <1>. QED  BY <1>4, KpdInvInit, KpdInvNext, PTL DEF KpdSpec, OneTogglePerPress

\* The map of the keys a frame sends the host is that of the buttons that are
\* down, though main clears and fills the same map a column at a time.
THEOREM KeysAreTold == KpdSpec => KeysTold
  <1>1. ASSUME KpdInv, KpdFrame PROVE kpd'.keyMap = held
    BY <1>1, FrameFields
  <1>2. KpdInv => [KpdFrame => kpd'.keyMap = held]_kpdVars
    BY <1>1
  <1>. QED  BY <1>2, KpdInvInit, KpdInvNext, PTL DEF KpdSpec, KeysTold
=============================================================================
