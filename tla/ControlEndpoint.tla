-------------------------- MODULE ControlEndpoint --------------------------
(***************************************************************************)
(* Endpoint 0 of usb_device.c: the stages of a control request, driven by  *)
(* the transfer-complete and the bus-event interrupts, and a host that     *)
(* sends the tokens of one request after the other.                        *)
(*                                                                         *)
(* The device is a record: what the driver keeps and what the USB module   *)
(* shows it of endpoint 0.  A handler is an operator on it.  Data are      *)
(* counted in bytes; a packet has EpSize bytes, as SETUP has.              *)
(*                                                                         *)
(* Of the USB module this takes: every SETUP is accepted, ends a STALL and *)
(* makes both directions NAK; a packet that was moved makes its direction  *)
(* NAK; a NAK sets the flag of the direction and the event flag that all   *)
(* endpoints share.                                                        *)
(***************************************************************************)
EXTENDS ControlRequests, Integers

CONSTANTS
    EpSize,         \* USB_DEVICE_EP_CTRL_SIZE
    Requests,       \* what the host may ask for
    Unruly,         \* the host may stop early, ask for more and give up
    OthersPolled    \* the host polls other endpoints, which may NAK

ControlAssumption ==
    /\ EpSize \in Nat \ {0}
    /\ Requests \subseteq ControlRequest
    /\ \A r \in Requests : CanBeCarriedOut(r)
    /\ Unruly \in BOOLEAN
    /\ OthersPolled \in BOOLEAN

ASSUME ControlAssumption

VARIABLES
    dev,            \* the device
    running,        \* the interrupt handler that runs: "transfer", "bus"
    hreq,           \* the request of the host
    hstage,         \* where the host is in it: "idle", "data", "status"
    hcount,         \* the bytes moved in its data stage
    hostAddress,    \* the address the host believes the device has
    order,          \* history: whether the host kept to the stages of this request
    failed          \* history: this request was answered with STALL

host == <<hreq, hstage, hcount, hostAddress, order, failed>>
vars == <<dev, running, host>>

Lesser(a, b) == IF a < b THEN a ELSE b

NoRequest == [in |-> FALSE, wLength |-> 0, known |-> FALSE, payload |-> 0,
              effect |-> "none", value |-> 0]

\* udd_enable, and the first bus reset.
Attached ==
    [stage |-> "SETUP", req |-> NoRequest, callback |-> "none",
     payload_size |-> 0, nb_trans |-> 0, prev_nb_trans |-> 0,
     b_shortpacket |-> FALSE, address |-> 0,
     in |-> [ready |-> FALSE, count |-> 0, stall |-> FALSE, nak |-> FALSE],
     out |-> [ready |-> FALSE, count |-> 0, stall |-> FALSE, nak |-> FALSE],
     buffer |-> "setup",    \* whose bytes are in udd_ctrl_buffer
     report |-> "old",      \* whose bytes are in the report of the class driver
     setup |-> FALSE,       \* SETUP event
     done |-> {},           \* transfer-complete events; their order is left open
     errors |-> {},         \* underflow and overflow events, of any endpoint
     watched |-> FALSE,     \* their interrupt is enabled
     owed |-> FALSE,        \* history: acknowledged, callback still to come
     ran |-> FALSE,         \* history: the callback of req has run
     unasked |-> FALSE,     \* history: one ran that was not acknowledged
     twice |-> FALSE]       \* history: one ran twice

-----------------------------------------------------------------------------
(***************************************************************************)
(* The driver.                                                             *)
(***************************************************************************)
\* Wrong variant: the stage is left as it was.
CtrlInit_KeepsStage(d) ==
    [d EXCEPT !.watched = FALSE,
              !.in = [@ EXCEPT !.ready = FALSE, !.count = 0, !.nak = FALSE],
              !.out = [@ EXCEPT !.nak = FALSE],
              !.done = @ \ {"in"},
              !.payload_size = 0]

CtrlInit(d) ==
    [d EXCEPT !.watched = FALSE,
              !.in = [@ EXCEPT !.ready = FALSE, !.count = 0, !.nak = FALSE],
              !.out = [@ EXCEPT !.nak = FALSE],
              !.done = @ \ {"in"},
              !.callback = "none", !.payload_size = 0,
              !.stage = "SETUP"]

\* The callbacks: the address, or the report for the class driver.
EndOfRequest(d) ==
    IF d.callback = "none" THEN d
    ELSE [d EXCEPT !.address = IF d.callback = "address" THEN d.req.value ELSE @,
                   !.owed = FALSE, !.ran = TRUE,
                   !.unasked = IF d.owed THEN @ ELSE TRUE,
                   !.twice = IF d.ran THEN TRUE ELSE @]

StallBoth(d) ==
    [d EXCEPT !.in = [@ EXCEPT !.stall = TRUE], !.out = [@ EXCEPT !.stall = TRUE]]

StallData(d) == StallBoth([d EXCEPT !.stage = "STALL_REQ"])

SendZlpIn(d) ==
    [d EXCEPT !.stage = "WAIT_IN_ZLP",
              !.in = [@ EXCEPT !.count = 0, !.ready = TRUE]]

SendZlpOut(d) ==
    [d EXCEPT !.stage = "WAIT_OUT_ZLP", !.out = [@ EXCEPT !.ready = TRUE]]

SendData(d, n) ==
    [d EXCEPT !.b_shortpacket = n < EpSize,
              !.in = [@ EXCEPT !.count = n, !.ready = TRUE],
              !.nb_trans = @ + n]

\* Wrong variant: the data stage ends with the payload, without a short packet.
DataSent_NoZlp(d, sent) == TRUE

DataSent(d, sent) == sent = d.req.wLength \/ d.b_shortpacket

\* An IN packet was taken, or the first one is due.
InSent(d) ==
    LET remain == d.payload_size - d.nb_trans
        sent == d.prev_nb_trans + d.nb_trans
        e == IF remain = 0 THEN [d EXCEPT !.prev_nb_trans = sent] ELSE d
    IN  IF d.stage = "WAIT_IN_ZLP" THEN CtrlInit(EndOfRequest(d))
        ELSE IF remain = 0 /\ DataSent(d, sent) THEN SendZlpOut(e)
        ELSE SendData(e, Lesser(remain, EpSize))

\* After n bytes were taken from a packet.
DataReceived(d, n) ==
    n # EpSize \/ d.req.wLength <= d.prev_nb_trans + d.nb_trans

\* Wrong variant: the data are not copied.
TakeData_NoCopy(d, n) == [d EXCEPT !.nb_trans = @ + n]

TakeData(d, n) ==
    [d EXCEPT !.nb_trans = @ + n,
              !.report = IF n > 0 /\ d.callback = "report" THEN d.buffer ELSE @]

\* Wrong variant: the buffer stays closed.
AwaitMore_NotArmed(d) == d

AwaitMore(d) == [d EXCEPT !.out = [@ EXCEPT !.ready = TRUE]]

\* Wrong variant: the payload is taken to have room for the packet.
Fitting_Unchecked(d) == d.out.count

\* More than the payload holds is dropped.
Fitting(d) == Lesser(d.out.count, d.payload_size - d.nb_trans)

\* An OUT packet was received.
OutReceived(d) ==
    LET n == Fitting(d)
        e == TakeData(d, n)
    IN  IF d.stage = "WAIT_OUT_ZLP" THEN CtrlInit(EndOfRequest(d))
        ELSE IF DataReceived(e, n)
             THEN SendZlpIn([e EXCEPT !.payload_size = e.nb_trans])
        ELSE IF e.payload_size = e.nb_trans THEN StallData(e)
        ELSE AwaitMore(e)

\* Wrong variant: the end of the last request is taken to have been seen.
Preempt_NoEnd(d) == CtrlInit(d)

\* A SETUP that finds a request unfinished.  It may hide the packet that
\* acknowledged that request.
Preempt(d) ==
    CtrlInit(IF d.stage \in {"WAIT_IN_ZLP", "WAIT_OUT_ZLP"} THEN EndOfRequest(d)
             ELSE d)

\* What the UDC and its interfaces find for the request: UdcRequests.
ProcessSetup(d, r) ==
    [d EXCEPT !.callback = r.effect, !.payload_size = r.payload, !.report = "old"]

\* The request is taken from the buffer, and decoded.
Begin(d, r) ==
    ProcessSetup([d EXCEPT !.req = r, !.watched = TRUE, !.ran = FALSE], r)

\* Wrong variant: the bytes moved for the last request count.
ResetCount_Kept(d) == d

ResetCount(d) == [d EXCEPT !.prev_nb_trans = 0, !.nb_trans = 0]

SetupReceived(d, r) ==
    LET c == [d EXCEPT !.setup = FALSE]
        e == Begin(IF c.stage = "SETUP" THEN c ELSE Preempt(c), r)
        z == ResetCount(e)
    IN  IF ~r.known THEN StallData(e)
        ELSE IF r.in THEN InSent([z EXCEPT !.stage = "DATA_IN"])
        ELSE IF r.wLength = 0 THEN SendZlpIn(e)
        ELSE AwaitMore([z EXCEPT !.stage = "DATA_OUT"])

\* The host wants IN where OUT is due.
Underflow(d, r) ==
    IF d.done # {} THEN d
    ELSE IF d.setup THEN SetupReceived(d, r)
    ELSE IF d.stage = "DATA_OUT" THEN SendZlpIn(d)
    ELSE IF d.stage = "WAIT_OUT_ZLP" THEN StallBoth(d)
    ELSE d

\* The host wants OUT where IN is due.
Overflow(d, r) ==
    IF d.done # {} THEN d
    ELSE IF d.setup THEN SetupReceived(d, r)
    ELSE IF d.stage = "DATA_IN" THEN SendZlpOut(d)
    ELSE IF d.stage = "WAIT_IN_ZLP" THEN StallBoth(d)
    ELSE d

\* The end of the reset interrupt: endpoint 0 is set up again.
BusReset(d) ==
    CtrlInit([d EXCEPT !.address = 0, !.owed = FALSE,
                       !.in = [@ EXCEPT !.stall = FALSE],
                       !.out = [@ EXCEPT !.stall = FALSE, !.ready = FALSE]])

-----------------------------------------------------------------------------
(***************************************************************************)
(* The USB module.                                                         *)
(***************************************************************************)
\* The event of a packet moved just before may be lost.
SetupToken(d, hidden) ==
    [d EXCEPT !.setup = TRUE,
              !.in = [@ EXCEPT !.ready = FALSE, !.stall = FALSE],
              !.out = [@ EXCEPT !.ready = FALSE, !.stall = FALSE, !.count = EpSize],
              !.buffer = "setup",
              !.done = IF hidden THEN {} ELSE @]

InToken(d) ==
    IF d.in.stall THEN d
    ELSE IF d.in.ready
         THEN [d EXCEPT !.in = [@ EXCEPT !.ready = FALSE],
                        !.done = @ \cup {"in"}]
    ELSE [d EXCEPT !.in = [@ EXCEPT !.nak = TRUE],
                   !.errors = @ \cup {"underflow"}]

OutToken(d, n) ==
    IF d.out.stall THEN d
    ELSE IF d.out.ready
         THEN [d EXCEPT !.out = [@ EXCEPT !.ready = FALSE, !.count = n],
                        !.buffer = "data",
                        !.done = @ \cup {"out"}]
    ELSE [d EXCEPT !.out = [@ EXCEPT !.nak = TRUE],
                   !.errors = @ \cup {"overflow"}]

-----------------------------------------------------------------------------
Init ==
    /\ dev = Attached
    /\ running = "none"
    /\ hreq = NoRequest /\ hstage = "idle" /\ hcount = 0
    /\ hostAddress = 0
    /\ order = "kept" /\ failed = FALSE

(***************************************************************************)
(* The host.  The device hears it at its own address only.                 *)
(***************************************************************************)
Heard == dev.address = hostAddress

\* No interrupt is pending.  Giving up takes a host, and a reset takes, longer
\* than an interrupt waits.
Quiet == running = "none" /\ dev.done = {} /\ ~dev.setup

HostSetup(r) ==
    /\ Heard
    /\ hstage = "idle" \/ (Unruly /\ Quiet)
    /\ \E hidden \in BOOLEAN : dev' = SetupToken(dev, hidden)
    /\ hreq' = r
    /\ hstage' = IF r.in \/ r.wLength > 0 THEN "data" ELSE "status"
    /\ hcount' = 0
    /\ order' = "kept" /\ failed' = FALSE
    /\ UNCHANGED <<hostAddress, running>>

\* The answer to a token is STALL: the host gives the request up.
Refused ==
    /\ hstage' = "idle"
    /\ failed' = TRUE
    /\ UNCHANGED <<dev, hreq, hcount, hostAddress, order>>

\* The host saw the device end the request.
Acknowledged(d) ==
    /\ dev' = [d EXCEPT !.owed = d.callback # "none"]
    /\ hstage' = "idle"
    /\ hostAddress' = IF hreq.effect = "address" THEN hreq.value ELSE hostAddress
    /\ UNCHANGED <<hreq, hcount, order, failed>>

HostReads ==
    /\ Heard /\ hstage = "data" /\ hreq.in
    /\ IF dev.in.stall THEN Refused
       ELSE /\ dev' = InToken(dev)
            /\ hcount' = IF dev.in.ready THEN hcount + dev.in.count ELSE hcount
            /\ hstage' = IF dev.in.ready
                            /\ (dev.in.count < EpSize \/ hcount' >= hreq.wLength)
                         THEN "status" ELSE "data"
            /\ UNCHANGED <<hreq, hostAddress, order, failed>>

HostWrites ==
    LET n == Lesser(EpSize, hreq.wLength - hcount) IN
    /\ Heard /\ hstage = "data" /\ ~hreq.in
    /\ IF dev.out.stall THEN Refused
       ELSE /\ dev' = OutToken(dev, n)
            /\ hcount' = IF dev.out.ready THEN hcount + n ELSE hcount
            /\ hstage' = IF hcount' = hreq.wLength THEN "status" ELSE "data"
            /\ UNCHANGED <<hreq, hostAddress, order, failed>>

HostConfirms ==
    /\ Heard /\ hstage = "status"
    /\ \/ /\ hreq.in
          /\ IF dev.out.stall THEN Refused
             ELSE IF dev.out.ready THEN Acknowledged(OutToken(dev, 0))
             ELSE /\ dev' = OutToken(dev, 0)
                  /\ UNCHANGED host
       \/ /\ ~hreq.in
          /\ IF dev.in.stall THEN Refused
             ELSE IF dev.in.ready THEN Acknowledged(InToken(dev))
             ELSE /\ dev' = InToken(dev)
                  /\ UNCHANGED host

HostToken ==
    /\ HostReads \/ HostWrites \/ HostConfirms
    /\ UNCHANGED running

\* The host stops in the middle of the data stage.
HostStops ==
    /\ Unruly /\ hstage = "data"
    /\ hstage' = "status"
    /\ order' = "stopped"
    /\ UNCHANGED <<dev, running, hreq, hcount, hostAddress, failed>>

\* The host goes on with data when the data stage is over.
HostAsksMore ==
    /\ Unruly /\ Heard /\ hstage = "status" /\ order # "stopped"
    /\ order' = "exceeded"
    /\ \/ /\ hreq.in
          /\ dev' = InToken(dev)
          /\ hstage' = IF dev.in.stall THEN "idle" ELSE hstage
       \/ /\ ~hreq.in
          /\ dev' = OutToken(dev, EpSize)
          /\ hstage' = IF dev.out.stall THEN "idle" ELSE hstage
    /\ UNCHANGED <<running, hreq, hcount, hostAddress, failed>>

\* Another endpoint has nothing to send, or no room.
OtherNak(event) ==
    /\ OthersPolled
    /\ dev' = [dev EXCEPT !.errors = @ \cup {event}]
    /\ UNCHANGED <<running, host>>

-----------------------------------------------------------------------------
(***************************************************************************)
(* The interrupts.  A handler is entered, and what it does happens in the  *)
(* step in which it returns; tokens arrive in between.                     *)
(***************************************************************************)
BusPending == dev.watched /\ dev.errors # {}

\* Of two pending interrupts of one level the bus event goes first.
EnterBusEvent ==
    /\ running = "none" /\ BusPending
    /\ running' = "bus"
    /\ UNCHANGED <<dev, host>>

EnterTransferComplete ==
    /\ running = "none" /\ ~BusPending
    /\ dev.done # {} \/ dev.setup
    /\ running' = "transfer"
    /\ UNCHANGED <<dev, host>>

Returns == running' = "none" /\ UNCHANGED host

TransferComplete ==
    /\ running = "transfer"
    /\ \E e \in dev.done :
          LET d == [dev EXCEPT !.done = @ \ {e}] IN
          dev' = IF e = "in" THEN InSent(d) ELSE OutReceived(d)
    /\ Returns

\* SETUP comes last.
SetupComplete ==
    /\ running = "transfer" /\ dev.done = {} /\ dev.setup
    /\ dev' = SetupReceived(dev, hreq)
    /\ Returns

\* Only the events are acknowledged, not the flags of endpoint 0.
UnderflowEvent ==
    /\ running = "bus" /\ "underflow" \in dev.errors
    /\ LET d == [dev EXCEPT !.errors = @ \ {"underflow"}] IN
       dev' = IF d.in.nak THEN Underflow(d, hreq) ELSE d
    /\ Returns

OverflowEvent ==
    /\ running = "bus" /\ "underflow" \notin dev.errors
    /\ LET d == [dev EXCEPT !.errors = @ \ {"overflow"}] IN
       dev' = IF d.out.nak THEN Overflow(d, hreq) ELSE d
    /\ Returns

Interrupt ==
    \/ EnterBusEvent \/ EnterTransferComplete
    \/ TransferComplete \/ SetupComplete
    \/ UnderflowEvent \/ OverflowEvent

Reset ==
    /\ Quiet
    /\ dev' = BusReset(dev)
    /\ hstage' = "idle"
    /\ hostAddress' = 0
    /\ UNCHANGED <<running, hreq, hcount, order, failed>>

Next ==
    \/ \E r \in Requests : HostSetup(r)
    \/ HostToken \/ HostStops \/ HostAsksMore
    \/ \E event \in {"underflow", "overflow"} : OtherNak(event)
    \/ Interrupt
    \/ Reset

Spec == Init /\ [][Next]_vars

\* Interrupts are served and the host repeats a token that was not accepted.
\* The bus event handler is shorter than a token, so that refused tokens do
\* not keep the other interrupt out for ever.
FairSpec ==
    /\ Spec
    /\ WF_vars(Interrupt) /\ WF_vars(HostToken)
    /\ []<>~BusPending /\ SF_vars(EnterTransferComplete)

-----------------------------------------------------------------------------
(***************************************************************************)
(* Properties.                                                             *)
(***************************************************************************)
Stages == {"SETUP", "DATA_OUT", "DATA_IN", "WAIT_IN_ZLP", "WAIT_OUT_ZLP",
           "STALL_REQ"}

EndpointType ==
    [ready : BOOLEAN, count : 0 .. EpSize, stall : BOOLEAN, nak : BOOLEAN]

DevType ==
    [stage : Stages, req : Requests \cup {NoRequest},
     callback : {"none", "address", "report"},
     payload_size : Nat, nb_trans : Nat, prev_nb_trans : Nat,
     b_shortpacket : BOOLEAN, address : Nat,
     in : EndpointType, out : EndpointType,
     buffer : {"setup", "data"}, report : {"old", "setup", "data"},
     setup : BOOLEAN, done : SUBSET {"in", "out"},
     errors : SUBSET {"underflow", "overflow"}, watched : BOOLEAN,
     owed : BOOLEAN, ran : BOOLEAN, unasked : BOOLEAN, twice : BOOLEAN]

\* What is left of the payload is never negative, so that nothing is written
\* or read past its end (the subtractions of the code are unsigned).
TypeOK ==
    /\ dev \in DevType
    /\ dev.stage \in {"DATA_IN", "DATA_OUT"} => dev.nb_trans <= dev.payload_size
    /\ running \in {"none", "transfer", "bus"}
    /\ hreq \in Requests \cup {NoRequest}
    /\ hstage \in {"idle", "data", "status"}
    /\ hcount \in Nat
    /\ hostAddress \in Nat
    /\ order \in {"kept", "stopped", "exceeded"} /\ failed \in BOOLEAN

\* The end of a request that the host saw is not lost, also if the next SETUP
\* is there before the interrupt and hides it: the stage still waits for it and
\* the callback is still registered.
AckedTakesEffect ==
    dev.owed => /\ dev.stage \in {"WAIT_IN_ZLP", "WAIT_OUT_ZLP"}
                /\ dev.callback # "none"

\* A request runs its callback at most once.
CallbackAtMostOnce == ~dev.twice

\* With a host that keeps the order, a callback only runs for a request whose
\* end the host saw.
EffectsAreAcked == ~dev.unasked

\* The host's data stage of an IN request ends with the whole payload: a
\* payload that ends with a full packet is followed by an empty one if the host
\* asked for more.
DataComplete ==
    hstage = "status" /\ hreq.in /\ order = "kept" => hcount = hreq.payload

\* The report a SET_REPORT hands to the class driver came with it.
ReportIsWhole ==
    dev.owed /\ dev.callback = "report" /\ ~dev.req.in => dev.report = "data"

\* A request the device knows is not refused half way, unless it has data in
\* several packets that nobody takes.
KnownNeverFails ==
    failed /\ order = "kept" =>
        ~hreq.known \/ (~hreq.in /\ hreq.wLength > EpSize /\ hreq.payload # hreq.wLength)

\* Every request ends, with an acknowledgement or a STALL.
RequestEnds == hstage # "idle" ~> hstage = "idle"

\* udc_req_std_dev_set_address: "The address must be changed at the end of
\* setup request after the handshake".  It is what the host believes, unless
\* the interrupt of the handshake is still to come.
AddressAfterHandshake == dev.owed \/ dev.address = hostAddress

\* udd_ctrl_underflow: the status stage of an IN request is stalled when the
\* "host want extra IN data".
StallOnlyExtraData == dev.stage = "WAIT_OUT_ZLP" /\ dev.out.stall =>
    order = "exceeded"
=============================================================================
