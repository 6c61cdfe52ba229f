---------------------------- MODULE JoystickScan ----------------------------
(***************************************************************************)
(* jstk_scan of joystick.c for one axis: the queue of held pads as a       *)
(* linked list in static arrays, and the two loops that bring it up to     *)
(* date with the pads that are pressed now.  One step is one iteration.    *)
(*                                                                         *)
(* The arrays of the two axes are disjoint.  A scan is not interrupted     *)
(* here, as in the start-of-frame interrupt.                               *)
(***************************************************************************)
EXTENDS Integers, FiniteSets

CONSTANT SliderCount

ASSUME SliderAssumption == SliderCount \in Nat \ {0}

Pads == 0 .. SliderCount - 1

\* The end of the list, and the result of a scan that finds no pad.
None == -1

VARIABLES
    head, tail,     \* the oldest and the newest pad
    next,           \* the links
    inlist,         \* which pads are linked
    phase,          \* the loop that runs; "return" between two scans
    pressed,        \* the pads this scan found pressed
    i,              \* the loop variable of the first loop
    prev, curr,     \* the loop variables of the second loop
    index,          \* history: what the last scan returned
    older           \* history: who was linked before whom

list == <<head, tail, next, inlist, older>>
vars == <<list, phase, pressed, i, prev, curr, index>>

Linked == {p \in Pads : inlist[p]}

\* The links are zero-initialised, not None.
Init ==
    /\ head = None /\ tail = None
    /\ next = [p \in Pads |-> 0]
    /\ inlist = [p \in Pads |-> FALSE]
    /\ phase = "return"
    /\ pressed = {}
    /\ i = 0
    /\ prev = None /\ curr = None
    /\ index = None
    /\ older = {}

-----------------------------------------------------------------------------
Scan(bits) ==
    /\ phase = "return"
    /\ phase' = "insert"
    /\ pressed' = bits
    /\ i' = 0
    /\ UNCHANGED <<list, prev, curr, index>>

\* Wrong variant: the guard on inlist is dropped.
IsNew_Always(p) == p \in pressed

IsNew(p) == p \in pressed /\ ~inlist[p]

\* Wrong variant: the new pad becomes the head.
LinkAtTail_Push(p) ==
    /\ next' = [next EXCEPT ![p] = head]
    /\ head' = p
    /\ tail' = IF tail = None THEN p ELSE tail

\* A new pad becomes the tail; of an empty list also the head.
LinkAtTail(p) ==
    /\ next' = IF tail = None THEN [next EXCEPT ![p] = None]
               ELSE [next EXCEPT ![p] = None, ![tail] = p]
    /\ head' = IF tail = None THEN p ELSE head
    /\ tail' = p

\* Wrong variant: one iteration too many.
InLoop_OffByOne == i \in 0 .. SliderCount

InLoop == i \in 0 .. SliderCount - 1

Insert ==
    /\ phase = "insert"
    /\ InLoop
    /\ i' = i + 1
    /\ IF IsNew(i)
       THEN /\ LinkAtTail(i)
            /\ inlist' = [inlist EXCEPT ![i] = TRUE]
            /\ older' = older \cup {<<p, i>> : p \in Linked}
       ELSE UNCHANGED list
    /\ UNCHANGED <<phase, pressed, prev, curr, index>>

BeginRemove ==
    /\ phase = "insert"
    /\ i = SliderCount
    /\ phase' = "remove"
    /\ prev' = None
    /\ curr' = head
    /\ UNCHANGED <<list, pressed, i, index>>

\* Wrong variant: the tail is forgotten when it is unlinked.
NewTail_Kept == tail

NewTail == IF tail = curr THEN prev ELSE tail

\* Wrong variant: the loop looks at the pad it has unlinked.
AfterUnlink_Same == curr

\* Where the loop goes on: the pad that took the place of the unlinked one.
AfterUnlink == IF prev = None THEN head' ELSE next'[prev]

\* The pad was released: unlink it.
Unlink ==
    /\ phase = "remove"
    /\ curr # None /\ curr \notin pressed
    /\ head' = IF prev = None THEN next[curr] ELSE head
    /\ next' = IF prev = None THEN next ELSE [next EXCEPT ![prev] = next[curr]]
    /\ tail' = NewTail
    /\ inlist' = [inlist EXCEPT ![curr] = FALSE]
    /\ older' = {r \in older : r[1] # curr /\ r[2] # curr}
    /\ curr' = AfterUnlink
    /\ UNCHANGED <<phase, pressed, i, prev, index>>

StepOver ==
    /\ phase = "remove"
    /\ curr # None /\ curr \in pressed
    /\ prev' = curr
    /\ curr' = next[curr]
    /\ UNCHANGED <<list, phase, pressed, i, index>>

\* The scan returns head.
Return ==
    /\ phase = "remove"
    /\ curr = None
    /\ phase' = "return"
    /\ index' = head
    /\ UNCHANGED <<list, pressed, i, prev, curr>>

Step == Insert \/ BeginRemove \/ Unlink \/ StepOver \/ Return

Next == (\E bits \in SUBSET Pads : Scan(bits)) \/ Step

Spec == Init /\ [][Next]_vars

\* A scan that runs goes on.
FairSpec == Spec /\ WF_vars(Step)

-----------------------------------------------------------------------------
(***************************************************************************)
(* Properties.                                                             *)
(***************************************************************************)
TypeOK ==
    /\ head \in Pads \cup {None}
    /\ tail \in Pads \cup {None}
    /\ next \in [Pads -> Pads \cup {None}]
    /\ inlist \in [Pads -> BOOLEAN]
    /\ phase \in {"insert", "remove", "return"}
    /\ pressed \in SUBSET Pads
    /\ i \in 0 .. SliderCount
    /\ prev \in Pads \cup {None}
    /\ curr \in Pads \cup {None}
    /\ index \in Pads \cup {None}
    /\ older \in SUBSET (Pads \X Pads)

\* The linked pads are the ones a walk from head finds: head is linked before
\* every other pad, tail after, and every link leads to the next one in that
\* order.  So no pad is lost from the list while inlist says it is there, and
\* the walk ends.
ListIsQueue ==
    /\ IF Linked = {} THEN head = None /\ tail = None
                     ELSE head \in Linked /\ tail \in Linked
    /\ \A p \in Linked :
          /\ p = head \/ <<head, p>> \in older
          /\ p = tail <=> next[p] = None
          /\ next[p] # None => next[p] \in Linked /\ <<p, next[p]>> \in older
          /\ \A q \in Linked :
                <<p, q>> \in older => q = next[p] \/ <<next[p], q>> \in older

\* What the scan returns: no pad only if none is pressed, else the one that
\* is pressed for longest.
HeadIsOldest ==
    phase = "return" =>
        /\ Linked = pressed
        /\ head = None <=> pressed = {}
        /\ \A p \in pressed \ {head} : <<head, p>> \in older

\* The pads the second loop has yet to look at.
Ahead == {p \in Linked : p = curr \/ <<curr, p>> \in older}

\* The steps a scan has yet to make, at most.
Left ==
    CASE phase = "insert" -> 2 * SliderCount + 2 - i
      [] phase = "remove" -> Cardinality(Ahead) + 1
      [] phase = "return" -> 0

\* Every iteration brings the end of the scan nearer, whatever the links were
\* and whichever pads are released: the interrupt that scans is left after at
\* most 2 * SliderCount + 2 steps.
ScanIsShort == [][Step => Left' < Left]_vars

\* Every scan returns: the second loop never runs in a circle.
ScanReturns == phase # "return" ~> phase = "return"

(***************************************************************************)
(* A scan takes effect on the queue when it samples the pads; what follows *)
(* is the work to get there.                                               *)
(***************************************************************************)
OlderAfterScan ==
    {r \in pressed \X pressed :
        \/ r \in older
        \/ inlist[r[1]] /\ ~inlist[r[2]]
        \/ ~inlist[r[1]] /\ ~inlist[r[2]] /\ r[1] < r[2]}

Queue == INSTANCE PadQueue WITH
    held <- pressed, older <- OlderAfterScan, reported <- phase = "return"

\* The linked list implements the queue of held pads.
ImplementsQueue == Queue!Spec

\* The position of the slider only changes when the pad it is at is released.
FirstPadWins == Queue!FirstPadWins
=============================================================================
