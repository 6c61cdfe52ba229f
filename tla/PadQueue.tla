------------------------------ MODULE PadQueue ------------------------------
(***************************************************************************)
(* What one axis of the joystick promises: the pads that are held, in the  *)
(* order in which they were first seen.  The slider is where the oldest    *)
(* one is, so a finger that moves on to the next pad only counts when the  *)
(* pad behind it is released.                                              *)
(*                                                                         *)
(* The order is kept as a relation: <<p, q>> \in older says that p is      *)
(* ahead of q in the queue.                                                *)
(***************************************************************************)
EXTENDS Integers

CONSTANT SliderCount    \* SLIDER_COUNT, pads per slider

Pads == 0 .. SliderCount - 1

\* No pad is held.
None == -1

VARIABLES
    held,       \* the pads found pressed by the last sample
    older,      \* the order of the queue
    index,      \* the position reported last
    reported    \* the last sample has been reported

vars == <<held, older, index, reported>>

Init == held = {} /\ older = {} /\ index = None /\ reported = TRUE

\* Pads seen for the first time queue up behind the ones that stay held, in
\* ascending order.
Ahead(p, q) ==
    \/ <<p, q>> \in older
    \/ p \in held /\ q \notin held
    \/ p \notin held /\ q \notin held /\ p < q

Sample(pressed) ==
    /\ reported
    /\ held' = pressed
    /\ older' = {r \in pressed \X pressed : Ahead(r[1], r[2])}
    /\ reported' = FALSE
    /\ UNCHANGED index

\* The position: the oldest pad that is held.
Position(p) ==
    IF held = {} THEN p = None
    ELSE p \in held /\ \A q \in held \ {p} : <<p, q>> \in older

Report ==
    /\ ~reported
    /\ Position(index')
    /\ reported' = TRUE
    /\ UNCHANGED <<held, older>>

Next == (\E pressed \in SUBSET Pads : Sample(pressed)) \/ Report

Spec == Init /\ [][Next]_vars

-----------------------------------------------------------------------------

\* The pads that are held stand in one queue.
Ordered ==
    /\ held \subseteq Pads
    /\ older \subseteq held \X held
    /\ \A p \in held : <<p, p>> \notin older
    /\ \A p, q \in held : p # q => (<<p, q>> \in older <=> <<q, p>> \notin older)
    /\ \A p, q, r \in held :
          <<p, q>> \in older /\ <<q, r>> \in older => <<p, r>> \in older

\* The reported position only changes when the pad it is at was released,
\* whatever other pads are touched or released meanwhile.
FirstPadWins ==
    [][index' # index /\ index # None => index \notin held]_vars
=============================================================================
