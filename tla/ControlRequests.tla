-------------------------- MODULE ControlRequests ---------------------------
(***************************************************************************)
(* udd_g_ctrlreq, where udc.c and the class drivers (UdcRequests) leave    *)
(* what endpoint 0 (ControlEndpoint) carries out.                          *)
(***************************************************************************)
EXTENDS Naturals

\* What udc_process_setup makes of a request: whether it is known, how much
\* is read or taken, and the callback for its end.
ControlRequest ==
    [in : BOOLEAN, wLength : Nat, known : BOOLEAN, payload : Nat,
     effect : {"none", "address", "report"}, value : Nat]

\* A request for data is given some, and never more than it asked for.  One that
\* sets something with a callback takes all its data, and a report has some.
CanBeCarriedOut(r) ==
    /\ r.in /\ r.known => r.payload \in 1 .. r.wLength
    /\ ~r.known => r.payload = 0 /\ r.effect = "none"
    /\ r.payload <= r.wLength
    /\ ~r.in /\ r.effect # "none" => r.payload = r.wLength
    /\ ~r.in /\ r.effect = "report" => r.wLength > 0
=============================================================================
