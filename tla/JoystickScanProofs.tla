------------------------- MODULE JoystickScanProofs -------------------------
(***************************************************************************)
(* Proofs about jstk_scan, for a slider of any length: the linked list is  *)
(* the queue of the pads that are held, and the scan implements PadQueue.  *)
(*                                                                         *)
(* IsList is what the arrays have to satisfy to be a list, stated on their *)
(* values; two lemmas say that linking at the tail and unlinking anywhere  *)
(* keep it.                                                                *)
(***************************************************************************)
EXTENDS JoystickScan, TLAPS, FiniteSetTheorems

\* R is a strict total order on S.
IsOrder(S, R) ==
    /\ R \subseteq S \X S
    /\ \A p \in S : <<p, p>> \notin R
    /\ \A p, q \in S : p # q => <<p, q>> \in R \/ <<q, p>> \in R
    /\ \A p, q \in S : <<p, q>> \in R => <<q, p>> \notin R
    /\ \A p, q, r \in S : <<p, q>> \in R /\ <<q, r>> \in R => <<p, r>> \in R

\* The pads of S linked from h to t by n, in the order R.
IsList(S, R, h, t, n) ==
    /\ S \subseteq Pads
    /\ n \in [Pads -> Pads \cup {None}]
    /\ IsOrder(S, R)
    /\ IF S = {} THEN h = None /\ t = None ELSE h \in S /\ t \in S
    /\ \A p \in S :
          /\ p = h \/ <<h, p>> \in R
          /\ p = t <=> n[p] = None
          /\ n[p] # None => n[p] \in S /\ <<p, n[p]>> \in R
          /\ \A q \in S : <<p, q>> \in R => q = n[p] \/ <<n[p], q>> \in R

LEMMA NoneIsNoPad == None \notin Pads
BY DEF None, Pads

LEMMA OrderAppend ==
    ASSUME NEW S, NEW R, NEW x, IsOrder(S, R), x \notin S
    PROVE  IsOrder(S \cup {x}, R \cup {<<p, x>> : p \in S})
<1> DEFINE T == R \cup {<<p, x>> : p \in S}
<1>1. \A p, q \in S \cup {x} :
         <<p, q>> \in T <=> <<p, q>> \in R \/ (p \in S /\ q = x)
  OBVIOUS
<1>2. \A p, q : <<p, q>> \in R => p \in S /\ q \in S
  BY DEF IsOrder
<1>3. T \subseteq (S \cup {x}) \X (S \cup {x})
  BY DEF IsOrder
<1> HIDE DEF T
<1>4. IsOrder(S \cup {x}, T)
  BY <1>1, <1>2, <1>3 DEF IsOrder
<1>5. QED
  BY <1>4 DEF T

LEMMA OrderRemove ==
    ASSUME NEW S, NEW R, NEW x, NEW T, IsOrder(S, R), T \subseteq R,
           \A p, q : <<p, q>> \in T <=> <<p, q>> \in R /\ p # x /\ q # x
    PROVE  IsOrder(S \ {x}, T)
<1>1. T \subseteq (S \ {x}) \X (S \ {x})
  BY DEF IsOrder
<1>2. QED
  BY <1>1 DEF IsOrder

\* The first loop: a new pad at the tail.
LEMMA ListAppend ==
    ASSUME NEW S, NEW R, NEW h, NEW t, NEW n, NEW x \in Pads,
           IsList(S, R, h, t, n), x \notin S
    PROVE  IsList(S \cup {x}, R \cup {<<p, x>> : p \in S},
                  IF t = None THEN x ELSE h, x,
                  IF t = None THEN [n EXCEPT ![x] = None]
                              ELSE [n EXCEPT ![x] = None, ![t] = x])
<1> DEFINE T == R \cup {<<p, x>> : p \in S}
           m == IF t = None THEN [n EXCEPT ![x] = None]
                            ELSE [n EXCEPT ![x] = None, ![t] = x]
           g == IF t = None THEN x ELSE h
<1>1. IsOrder(S \cup {x}, T)
  BY OrderAppend DEF IsList
<1>2. \A p, q \in S \cup {x} :
         <<p, q>> \in T <=> <<p, q>> \in R \/ (p \in S /\ q = x)
  OBVIOUS
<1>3. \A p, q : <<p, q>> \in R => p \in S /\ q \in S
  BY DEF IsList, IsOrder
<1>4. S \subseteq Pads /\ n \in [Pads -> Pads \cup {None}] /\ None \notin Pads
  BY NoneIsNoPad DEF IsList
<1> HIDE DEF T
<1>5. CASE t = None
  <2>1. S = {}
    BY <1>4, <1>5 DEF IsList
  <2>2. g = x /\ m = [n EXCEPT ![x] = None]
    BY <1>5
  <2>3. m \in [Pads -> Pads \cup {None}] /\ m[x] = None
    BY <1>4, <2>2
  <2>4. IsList(S \cup {x}, T, g, x, m)
    BY <1>1, <1>2, <1>3, <1>4, <2>1, <2>2, <2>3 DEF IsList
  <2>5. QED
    BY <2>4 DEF T
<1>6. CASE t # None
  <2>1. t \in S /\ h \in S /\ t # x
    BY <1>6 DEF IsList
  <2>2. g = h /\ m = [n EXCEPT ![x] = None, ![t] = x]
    BY <1>6
  <2>3. /\ m \in [Pads -> Pads \cup {None}]
        /\ m[x] = None /\ m[t] = x
        /\ \A p \in S : p # t => m[p] = n[p]
    BY <1>4, <2>1, <2>2
  <2> HIDE DEF m, g
  <2>4. \A p \in S \cup {x} : p = g \/ <<g, p>> \in T
    BY <1>2, <2>1, <2>2 DEF IsList
  <2>5. \A p \in S \cup {x} : p = x <=> m[p] = None
    BY <1>4, <2>1, <2>3 DEF IsList
  <2>6. \A p \in S \cup {x} :
           m[p] # None => m[p] \in S \cup {x} /\ <<p, m[p]>> \in T
    BY <1>2, <2>1, <2>3 DEF IsList
  <2>7. ASSUME NEW p \in S \cup {x}, NEW q \in S \cup {x}, <<p, q>> \in T
        PROVE  q = m[p] \/ <<m[p], q>> \in T
    <3>1. p \in S
      BY <1>2, <1>3, <2>7
    <3>2. CASE p = t
      <4>1. \A r \in S : <<t, r>> \notin R
        BY <1>3, <1>4, <2>1 DEF IsList
      <4>2. QED
        BY <1>2, <1>3, <2>3, <2>7, <3>2, <4>1
    <3>3. CASE p # t
      <4>1. m[p] = n[p] /\ n[p] # None /\ n[p] \in S
        BY <2>3, <3>1, <3>3 DEF IsList
      <4>2. CASE q = x
        BY <1>2, <4>1, <4>2
      <4>3. CASE q # x
        BY <1>2, <2>7, <3>1, <4>1, <4>3 DEF IsList
      <4>4. QED
        BY <4>2, <4>3
    <3>4. QED
      BY <3>2, <3>3
  <2>8. IsList(S \cup {x}, T, g, x, m)
    BY <1>1, <1>4, <2>1, <2>2, <2>3, <2>4, <2>5, <2>6, <2>7 DEF IsList
  <2>9. QED
    BY <2>8 DEF T, m, g
<1>7. QED
  BY <1>5, <1>6

\* The second loop: pad x is unlinked; v is the pad before it, if any.
LEMMA ListUnlink ==
    ASSUME NEW S, NEW R, NEW h, NEW t, NEW n, NEW x \in S, NEW v, NEW T,
           IsList(S, R, h, t, n),
           (v = None /\ x = h) \/ (v \in S /\ n[v] = x),
           T \subseteq R,
           \A p, q : <<p, q>> \in T <=> <<p, q>> \in R /\ p # x /\ q # x
    PROVE  IsList(S \ {x}, T,
                  IF v = None THEN n[x] ELSE h,
                  IF t = x THEN v ELSE t,
                  IF v = None THEN n ELSE [n EXCEPT ![v] = n[x]])
<1> DEFINE m == IF v = None THEN n ELSE [n EXCEPT ![v] = n[x]]
           g == IF v = None THEN n[x] ELSE h
           u == IF t = x THEN v ELSE t
<1>2. \A p, q : <<p, q>> \in T <=> <<p, q>> \in R /\ p # x /\ q # x
  OBVIOUS
<1>3. \A p, q : <<p, q>> \in R => p \in S /\ q \in S
  BY DEF IsList, IsOrder
<1>4. /\ S \subseteq Pads /\ n \in [Pads -> Pads \cup {None}] /\ None \notin Pads
      /\ None \notin S
  BY NoneIsNoPad DEF IsList
<1>5. IsOrder(S \ {x}, T)
  BY <1>2, OrderRemove DEF IsList
<1>6. CASE v = None
  <2>1. x = h /\ m = n /\ g = n[x] /\ u = IF t = x THEN None ELSE t
    BY <1>4, <1>6
  <2> HIDE DEF m, g, u
  <2>2. \A p \in S \ {x} : <<x, p>> \in R /\ n[p] # x
    BY <1>3, <1>4, <2>1 DEF IsList, IsOrder
  <2>3. \A p \in S \ {x} : p = g \/ <<g, p>> \in T
    <3>1. \A p \in S \ {x} : p = g \/ <<g, p>> \in R
      BY <2>1, <2>2 DEF IsList
    <3>2. g # x
      BY <1>3, <1>4, <2>1 DEF IsList, IsOrder
    <3>3. QED
      BY <1>2, <3>1, <3>2
  <2>4. IF S \ {x} = {} THEN g = None /\ u = None ELSE g \in S \ {x} /\ u \in S \ {x}
    <3>1. CASE n[x] = None
      <4>1. t = x /\ u = None /\ g = None
        BY <2>1, <3>1 DEF IsList
      <4>2. ASSUME NEW p \in S \ {x} PROVE FALSE
        <5>1. <<None, p>> \notin R /\ p # None
          BY <1>3, <1>4
        <5>2. QED
          BY <1>2, <2>3, <4>1, <5>1
      <4>3. QED
        BY <4>1, <4>2, Zenon
    <3>2. CASE n[x] # None
      BY <2>1, <3>2 DEF IsList, IsOrder
    <3>3. QED
      BY <3>1, <3>2
  <2>5. \A p \in S \ {x} :
           /\ p = u <=> m[p] = None
           /\ m[p] # None => m[p] \in S \ {x} /\ <<p, m[p]>> \in T
           /\ \A q \in S \ {x} : <<p, q>> \in T => q = m[p] \/ <<m[p], q>> \in T
    BY <1>2, <1>4, <2>1, <2>2 DEF IsList
  <2>6. IsList(S \ {x}, T, g, u, m)
    BY <1>5, <1>4, <2>1, <2>3, <2>4, <2>5 DEF IsList
  <2>7. QED
    BY <2>6 DEF m, g, u
<1>7. CASE v # None
  <2>1. /\ v \in S \ {x} /\ n[v] = x /\ <<v, x>> \in R
        /\ g = h /\ m = [n EXCEPT ![v] = n[x]] /\ u = IF t = x THEN v ELSE t
    BY <1>4, <1>7 DEF IsList, IsOrder
  <2>2. /\ m \in [Pads -> Pads \cup {None}]
        /\ m[v] = n[x]
        /\ \A p \in S \ {v} : m[p] = n[p]
    BY <1>4, <2>1
  <2> HIDE DEF m, g, u
  \* Only v is linked to x.
  <2>3. \A p \in S : n[p] = x => p = v
    <3> SUFFICES ASSUME NEW p \in S, n[p] = x, p # v PROVE FALSE
      OBVIOUS
    <3>1. <<p, x>> \in R /\ (<<p, v>> \in R \/ <<v, p>> \in R)
      BY <1>4, <2>1 DEF IsList, IsOrder
    <3>2. CASE <<p, v>> \in R
      <4>1. v = x \/ <<x, v>> \in R
        BY <2>1, <3>2 DEF IsList
      <4>2. QED
        BY <2>1, <4>1 DEF IsList, IsOrder
    <3>3. CASE <<v, p>> \in R
      <4>1. p = x \/ <<x, p>> \in R
        BY <2>1, <3>3 DEF IsList
      <4>2. QED
        BY <3>1, <4>1 DEF IsList, IsOrder
    <3>4. QED
      BY <3>1, <3>2, <3>3
  <2>4. g \in S \ {x} /\ \A p \in S \ {x} : p = g \/ <<g, p>> \in T
    <3>1. h \in S /\ (v = h \/ <<h, v>> \in R)
      BY <2>1 DEF IsList
    <3>2. h # x
      BY <2>1, <3>1 DEF IsList, IsOrder
    <3>3. QED
      BY <1>2, <2>1, <3>1, <3>2 DEF IsList
  <2>5. u \in S \ {x}
    BY <2>1 DEF IsList
  <2>6. \A p \in S \ {x} : p = u <=> m[p] = None
    <3>1. \A p \in S : p = t <=> n[p] = None
      BY DEF IsList
    <3>2. CASE t = x
      BY <2>1, <2>2, <3>1, <3>2
    <3>3. CASE t # x
      BY <1>4, <2>1, <2>2, <3>1, <3>3
    <3>4. QED
      BY <3>2, <3>3
  <2>7. \A p \in S \ {x} :
           m[p] # None => m[p] \in S \ {x} /\ <<p, m[p]>> \in T
    <3>1. n[x] # None => n[x] \in S \ {x} /\ <<x, n[x]>> \in R /\ <<v, n[x]>> \in R
      BY <2>1 DEF IsList, IsOrder
    <3>2. QED
      BY <1>2, <2>1, <2>2, <2>3, <3>1 DEF IsList
  <2>8. ASSUME NEW p \in S \ {x}, NEW q \in S \ {x}, <<p, q>> \in T
        PROVE  q = m[p] \/ <<m[p], q>> \in T
    <3>1. CASE p = v
      <4>1. q = x \/ <<x, q>> \in R
        BY <1>2, <2>1, <2>8, <3>1 DEF IsList
      <4>2. q = n[x] \/ <<n[x], q>> \in R
        BY <4>1 DEF IsList
      <4>3. n[x] # x
        BY <1>4, <2>1 DEF IsList, IsOrder
      <4>4. QED
        BY <1>2, <2>2, <3>1, <4>2, <4>3
    <3>2. CASE p # v
      BY <1>2, <2>2, <2>3, <2>8, <3>2 DEF IsList
    <3>3. QED
      BY <3>1, <3>2
  <2>9. IsList(S \ {x}, T, g, u, m)
    BY <1>5, <1>4, <2>1, <2>2, <2>4, <2>5, <2>6, <2>7, <2>8 DEF IsList
  <2>10. QED
    BY <2>9 DEF m, g, u
<1>8. QED
  BY <1>6, <1>7

-----------------------------------------------------------------------------
(***************************************************************************)
(* The scan.                                                               *)
(***************************************************************************)
\* The first loop has linked the pressed pads below i.  The second loop has
\* found every pad up to prev pressed, and curr is the pad after prev.
Progress ==
    /\ phase = "insert" => \A p \in pressed : p < i => inlist[p]
    /\ phase = "remove" =>
          /\ pressed \subseteq Linked
          /\ prev = None => curr = head
          /\ prev # None =>
                /\ prev \in Linked \cap pressed
                /\ curr = next[prev]
                /\ \A q \in Linked : <<q, prev>> \in older => q \in pressed
    /\ phase = "return" => Linked = pressed /\ index = head

\* The pad reported last stays the head as long as it is pressed.
IndexKept == index # None => index = head \/ index \notin pressed

IInv ==
    /\ TypeOK
    /\ IsList(Linked, older, head, tail, next)
    /\ Progress
    /\ IndexKept

LEMMA InitInv == Init => IInv
<1> SUFFICES ASSUME Init PROVE IInv
  OBVIOUS
<1>1. Linked = {}
  BY DEF Init, Linked
<1>2. 0 \in 0 .. SliderCount /\ next \in [Pads -> Pads \cup {None}]
  BY SliderAssumption DEF SliderAssumption, Init, Pads
<1>3. TypeOK
  BY <1>2 DEF Init, TypeOK
<1>4. IsList(Linked, older, head, tail, next)
  BY <1>1, <1>2 DEF Init, IsList, IsOrder
<1>5. QED
  BY <1>1, <1>3, <1>4 DEF Init, IInv, Progress, IndexKept

LEMMA ScanStep ==
    ASSUME IInv, NEW bits \in SUBSET Pads, Scan(bits)
    PROVE  IInv'
<1>1. /\ phase = "return" /\ phase' = "insert" /\ pressed' = bits /\ i' = 0
      /\ UNCHANGED <<head, tail, next, inlist, older, prev, curr, index>>
  BY DEF Scan, list
<1>2. TypeOK'
  BY <1>1, SliderAssumption DEF IInv, TypeOK, SliderAssumption
<1>3. IsList(Linked, older, head, tail, next)'
  BY <1>1 DEF IInv, Linked, IsList
<1>4. Progress'
  BY <1>1 DEF Progress, Pads
<1>5. IndexKept'
  BY <1>1 DEF IInv, Progress, IndexKept
<1>6. QED
  BY <1>2, <1>3, <1>4, <1>5 DEF IInv

LEMMA InsertStep ==
    ASSUME IInv, Insert
    PROVE  IInv'
<1>1. /\ phase = "insert" /\ i \in Pads /\ i' = i + 1
      /\ UNCHANGED <<phase, pressed, prev, curr, index>>
  BY DEF Insert, InLoop, Pads
<1>2. i \in Int /\ i' \in 0 .. SliderCount
  BY <1>1, SliderAssumption DEF Pads, SliderAssumption
<1>3. CASE IsNew(i)
  <2>1. /\ next' = IF tail = None THEN [next EXCEPT ![i] = None]
                   ELSE [next EXCEPT ![i] = None, ![tail] = i]
        /\ head' = IF tail = None THEN i ELSE head
        /\ tail' = i
        /\ inlist' = [inlist EXCEPT ![i] = TRUE]
        /\ older' = older \cup {<<p, i>> : p \in Linked}
    BY <1>3 DEF Insert, LinkAtTail
  <2>2. inlist \in [Pads -> BOOLEAN] /\ inlist' \in [Pads -> BOOLEAN]
    BY <2>1 DEF IInv, TypeOK
  <2>3. Linked' = Linked \cup {i} /\ i \notin Linked /\ i \in pressed
    BY <1>1, <1>3, <2>1, <2>2 DEF Linked, IsNew
  <2>4. IsList(Linked', older', head', tail', next')
    BY <1>1, <2>1, <2>3, ListAppend DEF IInv
  <2>5. IsList(Linked, older, head, tail, next)'
    BY <2>4
  <2>6. TypeOK'
    <3>1. head' \in Pads /\ tail' \in Pads /\ older' \subseteq Pads \X Pads
          /\ next' \in [Pads -> Pads \cup {None}]
      BY <2>3, <2>4 DEF IsList, IsOrder
    <3>2. QED
      BY <1>1, <1>2, <2>2, <3>1 DEF IInv, TypeOK
  <2>7. Progress'
    BY <1>1, <1>2, <2>1, <2>2 DEF IInv, Progress, TypeOK, Pads
  <2>8. IndexKept'
    <3>1. tail = None => head = None
      BY NoneIsNoPad DEF IInv, IsList
    <3>2. QED
      BY <1>1, <2>1, <3>1 DEF IInv, IndexKept
  <2>9. QED
    BY <2>5, <2>6, <2>7, <2>8 DEF IInv
<1>4. CASE ~IsNew(i)
  <2>1. UNCHANGED <<head, tail, next, inlist, older>>
    BY <1>4 DEF Insert, list
  <2>2. TypeOK'
    BY <1>1, <1>2, <2>1 DEF IInv, TypeOK
  <2>3. IsList(Linked, older, head, tail, next)'
    BY <2>1 DEF IInv, Linked, IsList
  <2>4. Progress'
    BY <1>1, <1>2, <1>4, <2>1 DEF IInv, Progress, IsNew, TypeOK, Pads
  <2>5. IndexKept'
    BY <1>1, <2>1 DEF IInv, IndexKept
  <2>6. QED
    BY <2>2, <2>3, <2>4, <2>5 DEF IInv
<1>5. QED
  BY <1>3, <1>4

LEMMA BeginRemoveStep ==
    ASSUME IInv, BeginRemove
    PROVE  IInv'
<1>1. /\ phase = "insert" /\ i = SliderCount /\ phase' = "remove"
      /\ prev' = None /\ curr' = head
      /\ UNCHANGED <<head, tail, next, inlist, older, pressed, i, index>>
  BY DEF BeginRemove, list
<1>2. TypeOK'
  BY <1>1 DEF IInv, TypeOK
<1>3. IsList(Linked, older, head, tail, next)'
  BY <1>1 DEF IInv, Linked, IsList
<1>4. pressed \subseteq Linked
  BY <1>1, SliderAssumption DEF IInv, Progress, TypeOK, Linked, Pads, SliderAssumption
<1>5. Progress'
  BY <1>1, <1>4 DEF Progress, Linked
<1>6. IndexKept'
  BY <1>1 DEF IInv, IndexKept
<1>7. QED
  BY <1>2, <1>3, <1>5, <1>6 DEF IInv

\* The pad under the cursor is linked.
LEMMA CursorLinked ==
    ASSUME IInv, phase = "remove", curr # None
    PROVE  /\ curr \in Linked /\ curr \in Pads
           /\ (prev = None /\ curr = head) \/ (prev \in Linked /\ next[prev] = curr)
<1>1. Linked \subseteq Pads
  BY DEF Linked
<1>2. CASE prev = None
  <2>1. curr = head
    BY <1>2 DEF IInv, Progress
  <2>2. head \in Linked
    BY <2>1 DEF IInv, IsList
  <2>3. QED
    BY <1>1, <1>2, <2>1, <2>2
<1>3. CASE prev # None
  <2>1. prev \in Linked /\ curr = next[prev]
    BY <1>3 DEF IInv, Progress
  <2>2. curr \in Linked
    BY <2>1 DEF IInv, IsList
  <2>3. QED
    BY <1>1, <2>1, <2>2
<1>4. QED
  BY <1>2, <1>3

LEMMA UnlinkStep ==
    ASSUME IInv, Unlink
    PROVE  IInv'
<1>1. /\ phase = "remove" /\ curr # None /\ curr \notin pressed
      /\ head' = IF prev = None THEN next[curr] ELSE head
      /\ next' = IF prev = None THEN next ELSE [next EXCEPT ![prev] = next[curr]]
      /\ tail' = IF tail = curr THEN prev ELSE tail
      /\ inlist' = [inlist EXCEPT ![curr] = FALSE]
      /\ older' = {r \in older : r[1] # curr /\ r[2] # curr}
      /\ curr' = IF prev = None THEN head' ELSE next'[prev]
      /\ UNCHANGED <<phase, pressed, i, prev, index>>
  BY DEF Unlink, NewTail, AfterUnlink
<1>2. /\ curr \in Linked /\ curr \in Pads
      /\ (prev = None /\ curr = head) \/ (prev \in Linked /\ next[prev] = curr)
  BY <1>1, CursorLinked
<1>3. inlist \in [Pads -> BOOLEAN] /\ inlist' \in [Pads -> BOOLEAN]
  BY <1>1 DEF IInv, TypeOK
<1>4. Linked' = Linked \ {curr}
  BY <1>1, <1>2, <1>3 DEF Linked
<1>5. IsList(Linked', older', head', tail', next')
  <2>1. IsList(Linked, older, head, tail, next)
    BY DEF IInv
  <2>2. older' \subseteq older
    BY <1>1
  <2>3. \A p, q : <<p, q>> \in older' <=> <<p, q>> \in older /\ p # curr /\ q # curr
    BY <1>1
  <2>4. IsList(Linked \ {curr}, older',
               IF prev = None THEN next[curr] ELSE head,
               IF tail = curr THEN prev ELSE tail,
               IF prev = None THEN next ELSE [next EXCEPT ![prev] = next[curr]])
    BY <1>2, <2>1, <2>2, <2>3, ListUnlink
  <2>5. QED
    BY <1>1, <1>4, <2>4
<1>6. IsList(Linked, older, head, tail, next)'
  BY <1>5
<1>7. TypeOK'
  <2>1. /\ head' \in Pads \cup {None} /\ tail' \in Pads \cup {None}
        /\ older' \subseteq Pads \X Pads
        /\ next' \in [Pads -> Pads \cup {None}]
    BY <1>5 DEF IsList, IsOrder
  <2>2. curr' \in Pads \cup {None}
    BY <1>1, <1>2, <2>1 DEF IInv, TypeOK
  <2>3. QED
    BY <1>1, <1>3, <2>1, <2>2 DEF IInv, TypeOK
<1>8. Progress'
  <2>1. pressed \subseteq Linked'
    BY <1>1, <1>4 DEF IInv, Progress
  <2>2. ASSUME prev # None
        PROVE  /\ prev \in Linked' \cap pressed
               /\ curr' = next'[prev]
               /\ \A q \in Linked' : <<q, prev>> \in older' => q \in pressed
    BY <1>1, <1>4, <2>2 DEF IInv, Progress
  <2>3. QED
    BY <1>1, <2>1, <2>2 DEF Progress
<1>9. IndexKept'
  BY <1>1 DEF IInv, Progress, IndexKept
<1>10. QED
  BY <1>6, <1>7, <1>8, <1>9 DEF IInv

LEMMA StepOverStep ==
    ASSUME IInv, StepOver
    PROVE  IInv'
<1>1. /\ phase = "remove" /\ curr # None /\ curr \in pressed
      /\ prev' = curr /\ curr' = next[curr]
      /\ UNCHANGED <<head, tail, next, inlist, older, phase, pressed, i, index>>
  BY DEF StepOver, list
<1>2. /\ curr \in Linked /\ curr \in Pads
      /\ (prev = None /\ curr = head) \/ (prev \in Linked /\ next[prev] = curr)
  BY <1>1, CursorLinked
<1>3. TypeOK'
  BY <1>1, <1>2 DEF IInv, TypeOK
<1>4. IsList(Linked, older, head, tail, next)'
  BY <1>1 DEF IInv, Linked, IsList
<1>5. ASSUME NEW q \in Linked, <<q, curr>> \in older
      PROVE  q \in pressed
  <2>1. CASE prev = None
    <3>1. curr = head
      BY <1>1, <2>1 DEF IInv, Progress
    <3>2. q = curr \/ <<curr, q>> \in older
      BY <3>1 DEF IInv, IsList
    <3>3. QED
      BY <1>2, <1>5, <3>2 DEF IInv, IsList, IsOrder
  <2>2. CASE prev # None
    <3>1. prev \in Linked /\ next[prev] = curr /\ prev \in pressed
      BY <1>1, <2>2 DEF IInv, Progress
    <3>2. q = prev \/ <<q, prev>> \in older \/ <<prev, q>> \in older
      BY <3>1 DEF IInv, IsList, IsOrder
    <3>3. <<prev, q>> \notin older
      <4> SUFFICES ASSUME <<prev, q>> \in older PROVE FALSE
        OBVIOUS
      <4>1. q = curr \/ <<curr, q>> \in older
        BY <3>1 DEF IInv, IsList
      <4>2. QED
        BY <1>2, <1>5, <4>1 DEF IInv, IsList, IsOrder
    <3>4. QED
      BY <1>1, <2>2, <3>1, <3>2, <3>3 DEF IInv, Progress
  <2>3. QED
    BY <2>1, <2>2
<1>6. Progress'
  <2>1. pressed \subseteq Linked
    BY <1>1 DEF IInv, Progress
  <2>2. QED
    BY <1>1, <1>2, <1>5, <2>1 DEF Progress, Linked
<1>7. IndexKept'
  BY <1>1 DEF IInv, IndexKept
<1>8. QED
  BY <1>3, <1>4, <1>6, <1>7 DEF IInv

LEMMA ReturnStep ==
    ASSUME IInv, Return
    PROVE  IInv'
<1>1. /\ phase = "remove" /\ curr = None /\ phase' = "return" /\ index' = head
      /\ UNCHANGED <<head, tail, next, inlist, older, pressed, i, prev, curr>>
  BY DEF Return, list
<1>2. TypeOK'
  BY <1>1 DEF IInv, TypeOK
<1>3. IsList(Linked, older, head, tail, next)'
  BY <1>1 DEF IInv, Linked, IsList
<1>4. Linked \subseteq pressed
  <2>1. CASE prev = None
    BY <1>1, <2>1, NoneIsNoPad DEF IInv, Progress, IsList
  <2>2. CASE prev # None
    <3>1. /\ prev \in Linked /\ prev \in pressed /\ next[prev] = None
          /\ \A q \in Linked : <<q, prev>> \in older => q \in pressed
      BY <1>1, <2>2 DEF IInv, Progress
    <3>2. ASSUME NEW q \in Linked, <<prev, q>> \in older
          PROVE  FALSE
      <4>1. q = None \/ <<None, q>> \in older
        BY <3>1, <3>2 DEF IInv, IsList
      <4>2. None \notin Linked
        BY NoneIsNoPad DEF Linked
      <4>3. QED
        BY <4>1, <4>2 DEF IInv, IsList, IsOrder
    <3>3. QED
      BY <3>1, <3>2 DEF IInv, IsList, IsOrder
  <2>3. QED
    BY <2>1, <2>2
<1>5. Linked' = Linked /\ Linked = pressed
  BY <1>1, <1>4 DEF IInv, Progress, Linked
<1>6. Progress' /\ IndexKept'
  BY <1>1, <1>5 DEF Progress, IndexKept
<1>7. QED
  BY <1>2, <1>3, <1>6 DEF IInv

LEMMA NextInv ==
    ASSUME IInv, [Next]_vars
    PROVE  IInv'
<1>1. ASSUME NEW bits \in SUBSET Pads, Scan(bits) PROVE IInv'
  BY <1>1, ScanStep
<1>2. CASE Insert
  BY <1>2, InsertStep
<1>3. CASE BeginRemove
  BY <1>3, BeginRemoveStep
<1>4. CASE Unlink
  BY <1>4, UnlinkStep
<1>5. CASE StepOver
  BY <1>5, StepOverStep
<1>6. CASE Return
  BY <1>6, ReturnStep
<1>7. CASE UNCHANGED vars
  BY <1>7 DEF vars, list, IInv, TypeOK, IsList, Linked, Progress, IndexKept
<1>8. QED
  BY <1>1, <1>2, <1>3, <1>4, <1>5, <1>6, <1>7 DEF Next, Step

THEOREM Invariance == Spec => []IInv
<1>1. Init => IInv
  BY InitInv
<1>2. IInv /\ [Next]_vars => IInv'
  BY NextInv
<1>3. QED
  BY <1>1, <1>2, PTL DEF Spec

\* No index the loops of jstk_scan use leaves its array.
THEOREM TypeCorrect == Spec => []TypeOK
<1>1. IInv => TypeOK
  BY DEF IInv
<1>2. QED
  BY <1>1, Invariance, PTL

\* The links of jstk_scan hold the linked pads, each once, in the order in
\* which they were linked, whatever pads come and go.
THEOREM ListIsAQueue == Spec => []ListIsQueue
<1>1. IInv => ListIsQueue
  BY DEF IInv, IsList, ListIsQueue
<1>2. QED
  BY <1>1, Invariance, PTL

\* The pad a scan returns is the one that is pressed for longest.
THEOREM HeadDecides == Spec => []HeadIsOldest
<1>1. IInv => HeadIsOldest
  <2> SUFFICES ASSUME IInv, phase = "return" PROVE
         /\ Linked = pressed
         /\ head = None <=> pressed = {}
         /\ \A p \in pressed \ {head} : <<head, p>> \in older
    BY DEF HeadIsOldest
  <2>1. Linked = pressed
    BY DEF IInv, Progress
  <2>2. None \notin Linked
    BY NoneIsNoPad DEF Linked
  <2>3. QED
    BY <2>1, <2>2 DEF IInv, IsList
<1>2. QED
  BY <1>1, Invariance, PTL

-----------------------------------------------------------------------------
(***************************************************************************)
(* The scan implements the queue.                                          *)
(***************************************************************************)
\* The order between two pressed pads is settled when they are sampled: the
\* two loops only write it down.
LEMMA SameOrder ==
    ASSUME pressed' = pressed,
           \A p, q \in pressed :
              <<p, q>> \in OlderAfterScan' <=> <<p, q>> \in OlderAfterScan
    PROVE  OlderAfterScan' = OlderAfterScan
<1>1. /\ OlderAfterScan \subseteq pressed \X pressed
      /\ OlderAfterScan' \subseteq pressed \X pressed
  BY DEF OlderAfterScan
<1>2. QED
  BY <1>1

LEMMA InitRefines == Init => Queue!Init
BY DEF Init, Queue!Init, OlderAfterScan, None, Queue!None

LEMMA ScanRefines ==
    ASSUME IInv, NEW bits \in SUBSET Pads, Scan(bits)
    PROVE  Queue!Sample(bits)
<1>1. /\ phase = "return" /\ phase' = "insert" /\ pressed' = bits
      /\ UNCHANGED <<inlist, older, index>>
  BY DEF Scan, list
<1>2. \A p \in Pads : inlist[p] <=> p \in pressed
  BY <1>1 DEF IInv, Progress, Linked
<1>3. older \subseteq pressed \X pressed
  BY <1>1 DEF IInv, Progress, IsList, IsOrder
<1>4. \A p, q \in pressed : <<p, q>> \in OlderAfterScan <=> <<p, q>> \in older
  BY <1>2 DEF OlderAfterScan, IInv, TypeOK
<1>5. \A p, q \in bits : <<p, q>> \in OlderAfterScan' <=> Queue!Ahead(p, q)
  <2> SUFFICES ASSUME NEW p \in bits, NEW q \in bits
               PROVE  <<p, q>> \in OlderAfterScan' <=> Queue!Ahead(p, q)
    OBVIOUS
  <2>1. <<p, q>> \in OlderAfterScan' <=>
           \/ <<p, q>> \in older
           \/ inlist[p] /\ ~inlist[q]
           \/ ~inlist[p] /\ ~inlist[q] /\ p < q
    BY <1>1 DEF OlderAfterScan
  <2>2. <<p, q>> \in OlderAfterScan <=> <<p, q>> \in older
    BY <1>3, <1>4 DEF OlderAfterScan
  <2>3. QED
    BY <1>2, <2>1, <2>2 DEF Queue!Ahead
<1>6. OlderAfterScan' \subseteq bits \X bits
  BY <1>1 DEF OlderAfterScan
<1>7. OlderAfterScan' = {r \in bits \X bits : Queue!Ahead(r[1], r[2])}
  <2>1. \A r \in bits \X bits : r = <<r[1], r[2]>> /\ r[1] \in bits /\ r[2] \in bits
    OBVIOUS
  <2>2. \A r \in bits \X bits : r \in OlderAfterScan' <=> Queue!Ahead(r[1], r[2])
    BY <1>5, <2>1
  <2>3. QED
    BY <1>6, <2>2
<1>8. QED
  BY <1>1, <1>7 DEF Queue!Sample

LEMMA InsertRefines ==
    ASSUME IInv, Insert
    PROVE  UNCHANGED OlderAfterScan
<1>1. /\ phase = "insert" /\ i \in Pads /\ pressed' = pressed
  BY DEF Insert, InLoop, Pads
<1>2. CASE IsNew(i)
  <2>1. /\ i \notin Linked
        /\ inlist' = [inlist EXCEPT ![i] = TRUE]
        /\ older' = older \cup {<<p, i>> : p \in Linked}
    BY <1>2 DEF Insert, IsNew, Linked
  <2>2. /\ inlist \in [Pads -> BOOLEAN] /\ pressed \subseteq Pads
        /\ older \subseteq Linked \X Linked
        /\ \A p \in pressed : p < i => inlist[p]
    BY <1>1 DEF IInv, TypeOK, IsList, IsOrder, Progress
  <2>3. ASSUME NEW p \in pressed, NEW q \in pressed
        PROVE  <<p, q>> \in OlderAfterScan' <=> <<p, q>> \in OlderAfterScan
    <3>1. <<p, q>> \in OlderAfterScan <=>
             \/ <<p, q>> \in older
             \/ inlist[p] /\ ~inlist[q]
             \/ ~inlist[p] /\ ~inlist[q] /\ p < q
      BY DEF OlderAfterScan
    <3>2. <<p, q>> \in OlderAfterScan' <=>
             \/ <<p, q>> \in older'
             \/ inlist'[p] /\ ~inlist'[q]
             \/ ~inlist'[p] /\ ~inlist'[q] /\ p < q
      BY <1>1 DEF OlderAfterScan
    <3>3. /\ <<p, q>> \in older' <=> <<p, q>> \in older \/ (inlist[p] /\ q = i)
          /\ <<p, q>> \in older => inlist[p] /\ inlist[q]
          /\ inlist'[p] <=> inlist[p] \/ p = i
          /\ inlist'[q] <=> inlist[q] \/ q = i
          /\ ~inlist[i]
      <4>1. i \in Pads /\ p \in Pads /\ q \in Pads
        BY <1>1, <2>2
      <4>2. \A r \in Pads : r \in Linked <=> inlist[r]
        BY DEF Linked
      <4>3. <<p, q>> \in older' <=> <<p, q>> \in older \/ (p \in Linked /\ q = i)
        BY <2>1
      <4>4. <<p, q>> \in older => p \in Linked /\ q \in Linked
        BY <2>2
      <4>5. \A r \in Pads : inlist'[r] <=> inlist[r] \/ r = i
        BY <2>1, <2>2
      <4> HIDE DEF Linked
      <4>6. QED
        BY <2>1, <4>1, <4>2, <4>3, <4>4, <4>5, Zenon
    <3>4. p \in Int /\ q \in Int /\ i \in Int
      BY <1>1, <2>2 DEF Pads
    <3>5. (~inlist[p] => p >= i) /\ (~inlist[q] => q >= i)
      BY <2>2, <3>4
    <3>6. CASE q = i
      BY <3>1, <3>2, <3>3, <3>4, <3>5, <3>6
    <3>7. CASE q # i
      BY <3>1, <3>2, <3>3, <3>4, <3>5, <3>7
    <3>8. QED
      BY <3>6, <3>7
  <2>4. QED
    BY <1>1, <2>3, SameOrder
<1>3. CASE ~IsNew(i)
  BY <1>1, <1>3 DEF Insert, list, OlderAfterScan
<1>4. QED
  BY <1>2, <1>3

LEMMA UnlinkRefines ==
    ASSUME IInv, Unlink
    PROVE  UNCHANGED OlderAfterScan
<1>1. /\ phase = "remove" /\ curr # None /\ curr \notin pressed /\ pressed' = pressed
      /\ inlist' = [inlist EXCEPT ![curr] = FALSE]
      /\ older' = {r \in older : r[1] # curr /\ r[2] # curr}
  BY DEF Unlink
<1>2. inlist \in [Pads -> BOOLEAN] /\ pressed \subseteq Pads
  BY DEF IInv, TypeOK
<1>3. \A p \in pressed : inlist'[p] = inlist[p]
  BY <1>1, <1>2
<1>4. \A p, q \in pressed : <<p, q>> \in older' <=> <<p, q>> \in older
  BY <1>1
<1>5. \A p, q \in pressed :
         <<p, q>> \in OlderAfterScan' <=> <<p, q>> \in OlderAfterScan
  BY <1>1, <1>3, <1>4 DEF OlderAfterScan
<1>6. QED
  BY <1>1, <1>5, SameOrder

LEMMA ReturnRefines ==
    ASSUME IInv, Return
    PROVE  Queue!Report
<1>1. /\ phase = "remove" /\ phase' = "return" /\ index' = head /\ head' = head
      /\ pressed' = pressed /\ inlist' = inlist /\ older' = older
  BY DEF Return, list
<1>2. IInv'
  BY ReturnStep
<1>3. Linked = pressed
  BY <1>1, <1>2 DEF IInv, Progress, Linked
<1>4. OlderAfterScan' = OlderAfterScan
  BY <1>1 DEF OlderAfterScan
<1>5. \A p, q \in pressed : <<p, q>> \in older => <<p, q>> \in OlderAfterScan
  BY DEF OlderAfterScan
<1>6. IF pressed = {} THEN head = None
      ELSE head \in pressed /\ \A q \in pressed \ {head} : <<head, q>> \in OlderAfterScan
  BY <1>3, <1>5 DEF IInv, IsList
<1>7. Queue!Position(index')
  BY <1>1, <1>6 DEF Queue!Position, Queue!None, None
<1>8. QED
  BY <1>1, <1>4, <1>7 DEF Queue!Report

LEMMA StepRefines ==
    ASSUME IInv, [Next]_vars
    PROVE  [Queue!Next]_(Queue!vars)
<1>1. ASSUME NEW bits \in SUBSET Pads, Scan(bits) PROVE Queue!Next
  BY <1>1, ScanRefines DEF Queue!Next, Queue!Pads, Pads
<1>2. CASE Insert
  BY <1>2, InsertRefines DEF Insert, Queue!vars
<1>3. CASE BeginRemove
  BY <1>3 DEF BeginRemove, list, Queue!vars, OlderAfterScan
<1>4. CASE Unlink
  BY <1>4, UnlinkRefines DEF Unlink, Queue!vars
<1>5. CASE StepOver
  BY <1>5 DEF StepOver, list, Queue!vars, OlderAfterScan
<1>6. CASE Return
  BY <1>6, ReturnRefines DEF Queue!Next
<1>7. CASE UNCHANGED vars
  BY <1>7 DEF vars, list, Queue!vars, OlderAfterScan
<1>8. QED
  BY <1>1, <1>2, <1>3, <1>4, <1>5, <1>6, <1>7 DEF Next, Step

\* jstk_scan is the queue of held pads: a sample queues the new pads behind
\* the ones that stay held and the scan returns the first of the queue.
THEOREM ScanImplementsQueue == Spec => ImplementsQueue
<1>1. Init => Queue!Init
  BY InitRefines
<1>2. IInv /\ [Next]_vars => [Queue!Next]_(Queue!vars)
  BY StepRefines
<1>3. QED
  BY <1>1, <1>2, Invariance, PTL DEF Spec, ImplementsQueue, Queue!Spec

\* The slider stays where the first finger is: what jstk_scan returns only
\* changes when the pad it returned before was released.
THEOREM FirstPadIsKept == Spec => FirstPadWins
<1>1. IInv /\ [Next]_vars =>
         [index' # index /\ index # None => index \notin pressed]_(Queue!vars)
  <2> SUFFICES ASSUME IInv, [Next]_vars, index' # index, index # None
               PROVE  index \notin pressed
    BY DEF Queue!vars
  <2>1. Return
    BY DEF Next, Step, Scan, Insert, BeginRemove, Unlink, StepOver, vars
  <2>2. index' = head
    BY <2>1 DEF Return
  <2>3. QED
    BY <2>2 DEF IInv, IndexKept
<1>2. QED
  BY <1>1, Invariance, PTL DEF Spec, FirstPadWins, Queue!FirstPadWins, None, Queue!None

-----------------------------------------------------------------------------
(***************************************************************************)
(* The length of a scan.                                                   *)
(***************************************************************************)
LEMMA AheadFinite ==
    ASSUME TypeOK
    PROVE  IsFiniteSet(Ahead) /\ Cardinality(Ahead) \in 0 .. SliderCount
<1>1. IsFiniteSet(Pads) /\ Cardinality(Pads) = SliderCount
  BY FS_Interval, SliderAssumption DEF Pads, SliderAssumption
<1>2. Ahead \in SUBSET Pads
  BY DEF Ahead, Linked
<1>3. IsFiniteSet(Ahead) /\ Cardinality(Ahead) <= SliderCount
  BY <1>1, <1>2, FS_Subset
<1>4. Cardinality(Ahead) \in Nat
  BY <1>3, FS_CardinalityType
<1>5. QED
  BY <1>3, <1>4, SliderAssumption DEF SliderAssumption

\* The same after a step.
LEMMA AheadFiniteNext ==
    ASSUME TypeOK'
    PROVE  IsFiniteSet(Ahead') /\ Cardinality(Ahead') \in 0 .. SliderCount
<1>1. IsFiniteSet(Pads) /\ Cardinality(Pads) = SliderCount
  BY FS_Interval, SliderAssumption DEF Pads, SliderAssumption
<1>2. Ahead' \in SUBSET Pads
  BY DEF Ahead, Linked
<1>3. IsFiniteSet(Ahead') /\ Cardinality(Ahead') <= SliderCount
  BY <1>1, <1>2, FS_Subset
<1>4. Cardinality(Ahead') \in Nat
  BY <1>3, FS_CardinalityType
<1>5. QED
  BY <1>3, <1>4, SliderAssumption DEF SliderAssumption

\* What is after the pad that follows curr is after curr, and curr is not.
LEMMA NextIsAhead ==
    ASSUME IInv, phase = "remove", curr # None
    PROVE  /\ curr \in Ahead
           /\ \A p \in Linked :
                 p = next[curr] \/ <<next[curr], p>> \in older => p \in Ahead /\ p # curr
<1>1. curr \in Linked
  BY CursorLinked
<1>2. IsList(Linked, older, head, tail, next) /\ None \notin Linked
  BY NoneIsNoPad DEF IInv, Linked
<1>3. IsOrder(Linked, older)
  BY <1>2 DEF IsList
<1>4. ASSUME NEW p \in Linked, p = next[curr] \/ <<next[curr], p>> \in older
      PROVE  <<curr, p>> \in older
  <2>1. next[curr] \in Linked
    BY <1>2, <1>3, <1>4 DEF IsOrder
  <2>2. <<curr, next[curr]>> \in older
    BY <1>1, <1>2, <2>1 DEF IsList
  <2>3. QED
    BY <1>1, <1>3, <1>4, <2>1, <2>2 DEF IsOrder
<1>5. QED
  BY <1>1, <1>3, <1>4 DEF Ahead, IsOrder

\* An iteration of the second loop.
LEMMA AheadShrinks ==
    ASSUME IInv, TypeOK', Unlink \/ StepOver
    PROVE  Cardinality(Ahead') < Cardinality(Ahead)
<1>1. phase = "remove" /\ curr # None
  BY DEF Unlink, StepOver
<1>2. /\ curr \in Ahead
      /\ \A p \in Linked :
            p = next[curr] \/ <<next[curr], p>> \in older => p \in Ahead /\ p # curr
  BY <1>1, NextIsAhead
<1>3. Linked' \subseteq Linked /\ older' \subseteq older /\ curr' = next[curr]
  <2>1. CASE Unlink
    <3>1. Linked' \subseteq Linked
      BY <2>1 DEF Unlink, Linked, IInv, TypeOK
    <3>2. older' \subseteq older
      BY <2>1 DEF Unlink
    <3>3. prev # None => prev \in Pads /\ next \in [Pads -> Pads \cup {None}]
      BY DEF IInv, TypeOK
    <3>4. curr' = next[curr]
      BY <2>1, <3>3 DEF Unlink, AfterUnlink
    <3>5. QED
      BY <3>1, <3>2, <3>4
  <2>2. CASE StepOver
    BY <2>2 DEF StepOver, list, Linked
  <2>3. QED
    BY <2>1, <2>2
<1>4. Ahead' \in SUBSET Ahead /\ curr \notin Ahead'
  BY <1>2, <1>3 DEF Ahead
<1>5. /\ IsFiniteSet(Ahead) /\ Cardinality(Ahead) \in 0 .. SliderCount
      /\ Cardinality(Ahead') \in 0 .. SliderCount
  BY AheadFinite, AheadFiniteNext DEF IInv
<1>6. Cardinality(Ahead') <= Cardinality(Ahead) /\ Cardinality(Ahead') # Cardinality(Ahead)
  BY <1>2, <1>4, <1>5, FS_Subset
<1>7. QED
  BY <1>5, <1>6, SliderAssumption DEF SliderAssumption

\* Every iteration of either loop brings the end of the scan nearer, for a slider
\* of any length: jstk_scan leaves the interrupt after at most 2 * SliderCount + 2
\* steps.  With a fair Step this is why every scan returns.
THEOREM ScanEndsSoon == Spec => ScanIsShort
<1>1. ASSUME IInv, IInv', Step PROVE Left' < Left
  <2>1. /\ Cardinality(Ahead) \in 0 .. SliderCount /\ Cardinality(Ahead') \in 0 .. SliderCount
        /\ SliderCount \in Nat /\ i \in 0 .. SliderCount /\ i' \in 0 .. SliderCount
    BY <1>1, AheadFinite, AheadFiniteNext, SliderAssumption DEF SliderAssumption, IInv, TypeOK
  <2>2. CASE Insert
    <3>1. phase = "insert" /\ phase' = "insert" /\ i' = i + 1
      BY <2>2 DEF Insert
    <3>2. QED
      BY <2>1, <3>1 DEF Left
  <2>3. CASE BeginRemove
    <3>1. phase = "insert" /\ phase' = "remove" /\ i = SliderCount
      BY <2>3 DEF BeginRemove
    <3>2. Left = SliderCount + 2 /\ Left' = Cardinality(Ahead') + 1
      BY <2>1, <3>1 DEF Left
    <3>3. QED
      BY <2>1, <3>2
  <2>4. CASE Unlink \/ StepOver
    <3>1. phase = "remove" /\ phase' = "remove"
      BY <2>4 DEF Unlink, StepOver
    <3>2. Left = Cardinality(Ahead) + 1 /\ Left' = Cardinality(Ahead') + 1
      BY <3>1 DEF Left
    <3>3. Cardinality(Ahead') < Cardinality(Ahead)
      BY <1>1, <2>4, AheadShrinks DEF IInv
    <3>4. QED
      BY <2>1, <3>2, <3>3
  <2>5. CASE Return
    <3>1. phase = "remove" /\ phase' = "return"
      BY <2>5 DEF Return
    <3>2. Left = Cardinality(Ahead) + 1 /\ Left' = 0
      BY <3>1 DEF Left
    <3>3. QED
      BY <2>1, <3>2
  <2>6. QED
    BY <1>1, <2>2, <2>3, <2>4, <2>5 DEF Step
<1>2. IInv /\ IInv' => [Step => Left' < Left]_vars
  BY <1>1
<1>3. QED
  BY <1>2, Invariance, PTL DEF Spec, ScanIsShort
=============================================================================
