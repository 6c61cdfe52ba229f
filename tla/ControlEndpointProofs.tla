----------------------- MODULE ControlEndpointProofs -----------------------
(***************************************************************************)
(* Theorems about ControlEndpoint, for every packet size, every set of     *)
(* requests, and a host that keeps to the stages or not.  The first part   *)
(* is about the device's own state, the second about what endpoint 0       *)
(* promises a host.                                                        *)
(***************************************************************************)
EXTENDS ControlEndpoint, TLAPS

(***************************************************************************)
(* The invariant.                                                          *)
(***************************************************************************)
Moves == {"DATA_IN", "DATA_OUT"}
Waits == {"WAIT_IN_ZLP", "WAIT_OUT_ZLP"}

\* What is true of the device by itself.  Each stage knows its direction, the
\* events that may be pending in it, and the buffers that are closed in it.
GoodDev(d) ==
    /\ d \in DevType
    /\ d.in.stall <=> d.out.stall
    /\ d.in.stall => d.done = {} /\ d.stage \notin Moves
    /\ d.stage \in {"SETUP", "STALL_REQ"} => d.done = {}
    /\ d.stage \in {"DATA_IN", "WAIT_OUT_ZLP"} => d.req.in
    /\ d.stage \in {"DATA_OUT", "WAIT_IN_ZLP"} => ~d.req.in
    /\ d.stage \in {"DATA_IN", "WAIT_IN_ZLP"} => "out" \notin d.done
    /\ d.stage \in {"DATA_OUT", "WAIT_OUT_ZLP"} => "in" \notin d.done
    /\ d.stage = "DATA_IN" => ~d.out.ready
    /\ d.stage = "DATA_OUT" => ~d.in.ready
    /\ d.stage \in Moves => d.nb_trans <= d.payload_size
    /\ d.payload_size <= d.req.wLength

\* A callback that is still registered has not run.
GoodCallback(d) ==
    /\ d.callback # "none" => ~d.ran
    /\ ~d.twice
    /\ d.owed => d.stage \in Waits /\ d.callback # "none"

\* A SETUP that was not seen yet: nothing is accepted before.
GoodSetup(d) ==
    d.setup =>
        /\ hstage # "idle" /\ hcount = 0
        /\ ~d.in.ready /\ ~d.out.ready /\ ~d.in.stall
        /\ d.done # {} => d.stage \in Waits
        /\ hstage = "status" => order = "stopped" \/ (~hreq.in /\ hreq.wLength = 0)

\* The host and the device are in the same request.
SameRequest(d) ==
    ~d.setup =>
        /\ hstage # "idle" => d.stage # "SETUP" /\ d.req = hreq
        /\ d.stage = "STALL_REQ" => d.in.stall
        /\ d.stage \in Moves => hstage # "idle"
        /\ d.done # {} /\ d.stage \in Waits => hstage = "idle"

\* A flag for a token out of turn is only set when the host left the data stage.
GoodNaks(d) ==
    /\ hstage = "idle" /\ d.stage = "SETUP" => ~d.in.nak /\ ~d.out.nak
    /\ hstage = "data" /\ (~d.setup \/ d.stage = "SETUP") =>
          IF hreq.in THEN ~d.out.nak ELSE ~d.in.nak

\* A buffer that is left open from the data stage is not used any more.
GoodLeft(d) ==
    /\ ~d.setup /\ d.stage = "WAIT_IN_ZLP" /\ d.out.ready =>
          hstage = "idle" \/ (hstage = "status" /\ order = "stopped")
    /\ ~d.setup /\ d.stage = "WAIT_OUT_ZLP" /\ d.in.ready =>
          hstage = "idle" \/ (hstage = "status" /\ order = "stopped")

\* The bytes the host has counted are those the device has counted, but for
\* the packet that is under way.
GoodOut(d) ==
    ~d.setup /\ d.stage = "DATA_OUT" =>
        /\ d.prev_nb_trans = 0
        /\ IF d.done = {}
           THEN /\ d.out.ready
                /\ d.nb_trans = hcount /\ hcount < d.req.wLength
                /\ hstage = "data" \/ order = "stopped"
           ELSE /\ ~d.out.ready
                /\ d.nb_trans + d.out.count = hcount
                /\ \/ hstage = "data" /\ hcount < d.req.wLength
                   \/ hcount = d.req.wLength
                   \/ order = "stopped"

GoodIn(d) ==
    ~d.setup /\ d.stage = "DATA_IN" =>
        /\ d.in.ready <=> d.done = {}
        /\ d.b_shortpacket <=> d.in.count < EpSize
        /\ d.b_shortpacket => d.nb_trans = d.payload_size
        /\ d.prev_nb_trans = 0 \/ d.b_shortpacket
        /\ d.nb_trans = IF d.done = {} THEN hcount + d.in.count ELSE hcount
        /\ \/ hstage = "data"
           \/ order = "stopped"
           \/ d.done # {} /\ (d.b_shortpacket \/ hcount >= d.req.wLength)

HostType ==
    /\ running \in {"none", "transfer", "bus"}
    /\ hreq \in Requests \cup {NoRequest}
    /\ hstage \in {"idle", "data", "status"}
    /\ hcount \in Nat
    /\ hostAddress \in Nat
    /\ order \in {"kept", "stopped", "exceeded"} /\ failed \in BOOLEAN
    /\ hstage = "idle" \/ hreq \in Requests
    /\ hstage = "data" /\ ~hreq.in => hcount < hreq.wLength

Good(d) ==
    /\ GoodDev(d) /\ GoodCallback(d)
    /\ GoodSetup(d) /\ SameRequest(d)
    /\ GoodNaks(d) /\ GoodLeft(d)
    /\ GoodOut(d) /\ GoodIn(d)

IInv == HostType /\ Good(dev)

-----------------------------------------------------------------------------
(***************************************************************************)
(* What each step of the driver leaves in the record.                      *)
(***************************************************************************)
LEMMA Sizes == EpSize \in Nat /\ EpSize > 0
  BY ControlAssumption DEF ControlAssumption

\* A request the device gives data for is one with a data stage.
LEMMA RequestFields ==
    ASSUME NEW r \in Requests
    PROVE  /\ r \in ControlRequest
           /\ r.payload <= r.wLength
           /\ r.in /\ r.known => r.payload >= 1
           /\ ~r.known => r.payload = 0 /\ r.effect = "none"
           /\ ~r.in /\ r.effect # "none" => r.payload = r.wLength
           /\ ~r.in /\ r.effect = "report" => r.wLength > 0
  BY ControlAssumption DEF ControlAssumption, ControlRequest, CanBeCarriedOut

LEMMA EndpointTypes ==
    ASSUME NEW e \in EndpointType
    PROVE  /\ [e EXCEPT !.ready = FALSE, !.count = 0, !.nak = FALSE] \in EndpointType
           /\ [e EXCEPT !.count = 0, !.ready = TRUE] \in EndpointType
           /\ [e EXCEPT !.nak = FALSE] \in EndpointType
           /\ [e EXCEPT !.nak = TRUE] \in EndpointType
           /\ [e EXCEPT !.stall = FALSE] \in EndpointType
           /\ [e EXCEPT !.stall = TRUE] \in EndpointType
           /\ [e EXCEPT !.ready = FALSE] \in EndpointType
           /\ [e EXCEPT !.ready = TRUE] \in EndpointType
           /\ [e EXCEPT !.ready = FALSE, !.stall = FALSE] \in EndpointType
           /\ [e EXCEPT !.stall = FALSE, !.ready = FALSE] \in EndpointType
  <1>0. 0 \in 0 .. EpSize
    BY Sizes
  <1>1. [e EXCEPT !.ready = FALSE, !.count = 0, !.nak = FALSE] \in EndpointType
    BY <1>0 DEF EndpointType
  <1>2. [e EXCEPT !.count = 0, !.ready = TRUE] \in EndpointType
    BY <1>0 DEF EndpointType
  <1>3. /\ [e EXCEPT !.nak = FALSE] \in EndpointType
        /\ [e EXCEPT !.nak = TRUE] \in EndpointType
    BY DEF EndpointType
  <1>4. /\ [e EXCEPT !.stall = FALSE] \in EndpointType
        /\ [e EXCEPT !.stall = TRUE] \in EndpointType
    BY DEF EndpointType
  <1>5. /\ [e EXCEPT !.ready = FALSE] \in EndpointType
        /\ [e EXCEPT !.ready = TRUE] \in EndpointType
    BY DEF EndpointType
  <1>6. [e EXCEPT !.ready = FALSE, !.stall = FALSE] \in EndpointType
    BY DEF EndpointType
  <1>7. [e EXCEPT !.stall = FALSE, !.ready = FALSE] \in EndpointType
    BY DEF EndpointType
  <1>. QED  BY <1>1, <1>2, <1>3, <1>4, <1>5, <1>6, <1>7

LEMMA EndpointCounts ==
    ASSUME NEW e \in EndpointType, NEW n \in 0 .. EpSize
    PROVE  /\ [e EXCEPT !.count = n, !.ready = TRUE] \in EndpointType
           /\ [e EXCEPT !.ready = FALSE, !.stall = FALSE, !.count = n] \in EndpointType
           /\ [e EXCEPT !.ready = FALSE, !.count = n] \in EndpointType
  <1>1. [e EXCEPT !.count = n, !.ready = TRUE] \in EndpointType
    BY DEF EndpointType
  <1>2. [e EXCEPT !.ready = FALSE, !.stall = FALSE, !.count = n] \in EndpointType
    BY DEF EndpointType
  <1>3. [e EXCEPT !.ready = FALSE, !.count = n] \in EndpointType
    BY DEF EndpointType
  <1>. QED  BY <1>1, <1>2, <1>3

LEMMA CtrlInitFields ==
    ASSUME NEW d \in DevType
    PROVE  LET e == CtrlInit(d) IN
           /\ e \in DevType
           /\ e.stage = "SETUP" /\ e.callback = "none" /\ e.payload_size = 0
           /\ e.req = d.req /\ e.setup = d.setup /\ e.done = d.done \ {"in"}
           /\ e.twice = d.twice /\ e.owed = d.owed /\ e.ran = d.ran
           /\ ~e.in.ready /\ ~e.in.nak /\ e.in.stall = d.in.stall
           /\ e.out.ready = d.out.ready /\ ~e.out.nak /\ e.out.stall = d.out.stall
  <1>0. d.in \in EndpointType /\ d.out \in EndpointType
    BY DEF DevType
  <1>1. [d.in EXCEPT !.ready = FALSE, !.count = 0, !.nak = FALSE] \in EndpointType
    BY <1>0, EndpointTypes, Sizes
  <1>2. [d.out EXCEPT !.nak = FALSE] \in EndpointType
    BY <1>0, EndpointTypes, Sizes
  <1>3. d.done \ {"in"} \in SUBSET {"in", "out"}
    BY DEF DevType
  <1>4. "SETUP" \in Stages
    BY DEF Stages
  <1>5. CtrlInit(d) \in DevType
    BY <1>1, <1>2, <1>3, <1>4 DEF CtrlInit, DevType
  <1>6. /\ CtrlInit(d).in = [d.in EXCEPT !.ready = FALSE, !.count = 0, !.nak = FALSE]
        /\ CtrlInit(d).out = [d.out EXCEPT !.nak = FALSE]
    BY DEF CtrlInit, DevType
  <1>7. /\ ~CtrlInit(d).in.ready /\ ~CtrlInit(d).in.nak
        /\ CtrlInit(d).in.stall = d.in.stall
        /\ CtrlInit(d).out.ready = d.out.ready /\ ~CtrlInit(d).out.nak
        /\ CtrlInit(d).out.stall = d.out.stall
    BY <1>0, <1>6 DEF EndpointType
  <1>. QED  BY <1>5, <1>7 DEF CtrlInit, DevType

LEMMA EndedType ==
    ASSUME NEW d \in DevType, NEW x \in Nat, NEW y \in BOOLEAN
    PROVE  [d EXCEPT !.address = x, !.owed = FALSE, !.ran = TRUE,
                     !.unasked = y, !.twice = FALSE] \in DevType
  BY DEF DevType

LEMMA EndOfRequestFields ==
    ASSUME NEW d \in DevType, GoodCallback(d), d.req \in ControlRequest
    PROVE  /\ EndOfRequest(d) \in DevType
           /\ EndOfRequest(d).stage = d.stage /\ EndOfRequest(d).req = d.req
           /\ EndOfRequest(d).setup = d.setup /\ EndOfRequest(d).done = d.done
           /\ EndOfRequest(d).in = d.in /\ EndOfRequest(d).out = d.out
           /\ ~EndOfRequest(d).owed /\ ~EndOfRequest(d).twice
  <1>1. CASE d.callback = "none"
    <2>1. EndOfRequest(d) = d
      BY <1>1 DEF EndOfRequest
    <2>. QED  BY <1>1, <2>1 DEF GoodCallback
  <1>2. CASE d.callback # "none"
    <2>. DEFINE x == IF d.callback = "address" THEN d.req.value ELSE d.address
                y == IF d.owed THEN d.unasked ELSE TRUE
                z == IF d.ran THEN TRUE ELSE d.twice
    <2>1. x \in Nat /\ y \in BOOLEAN /\ z \in BOOLEAN /\ ~z
      <3>1. /\ d.unasked \in BOOLEAN /\ d.twice \in BOOLEAN
            /\ d.address \in Nat /\ d.req.value \in Nat
        BY DEF DevType, ControlRequest
      <3>2. ~d.ran /\ ~d.twice
        BY <1>2 DEF GoodCallback
      <3>. QED  BY <3>1, <3>2, Zenon
    <2>2. EndOfRequest(d) = [d EXCEPT !.address = x, !.owed = FALSE, !.ran = TRUE,
                                      !.unasked = y, !.twice = z]
      BY <1>2, Zenon DEF EndOfRequest
    <2>. HIDE DEF x, y, z
    <2>3. EndOfRequest(d) \in DevType
      <3>1. z = FALSE
        BY <2>1
      <3>2. [d EXCEPT !.address = x, !.owed = FALSE, !.ran = TRUE,
                      !.unasked = y, !.twice = FALSE] \in DevType
        BY <2>1, EndedType, Zenon
      <3>. QED  BY <2>2, <3>1, <3>2, Zenon
    <2>4. EndOfRequest(d).twice = z
      BY <2>2 DEF DevType
    <2>. QED  BY <2>1, <2>2, <2>3, <2>4 DEF DevType
  <1>. QED  BY <1>1, <1>2

\* The part of the record that sending and receiving do not touch.
Kept(e, d) ==
    /\ e.req = d.req /\ e.callback = d.callback
    /\ e.setup = d.setup /\ e.done = d.done
    /\ e.owed = d.owed /\ e.ran = d.ran /\ e.twice = d.twice
    /\ e.in.nak = d.in.nak /\ e.out.nak = d.out.nak

Counted(e, d) ==
    /\ e.payload_size = d.payload_size
    /\ e.nb_trans = d.nb_trans /\ e.prev_nb_trans = d.prev_nb_trans

LEMMA StallBothFields ==
    ASSUME NEW d \in DevType
    PROVE  LET e == StallBoth(d) IN
           /\ e \in DevType /\ Kept(e, d) /\ Counted(e, d) /\ e.stage = d.stage
           /\ e.in.stall /\ e.out.stall
           /\ e.in.ready = d.in.ready /\ e.out.ready = d.out.ready
  <1>0. d.in \in EndpointType /\ d.out \in EndpointType
    BY DEF DevType
  <1>1. /\ [d.in EXCEPT !.stall = TRUE] \in EndpointType
        /\ [d.out EXCEPT !.stall = TRUE] \in EndpointType
    BY <1>0, EndpointTypes
  <1>2. StallBoth(d) \in DevType
    BY <1>1 DEF StallBoth, DevType
  <1>3. /\ StallBoth(d).in = [d.in EXCEPT !.stall = TRUE]
        /\ StallBoth(d).out = [d.out EXCEPT !.stall = TRUE]
    BY DEF StallBoth, DevType
  <1>. QED  BY <1>0, <1>2, <1>3 DEF StallBoth, DevType, EndpointType, Kept, Counted

LEMMA StallDataFields ==
    ASSUME NEW d \in DevType
    PROVE  LET e == StallData(d) IN
           /\ e \in DevType /\ Kept(e, d) /\ Counted(e, d) /\ e.stage = "STALL_REQ"
           /\ e.in.stall /\ e.out.stall
           /\ e.in.ready = d.in.ready /\ e.out.ready = d.out.ready
  <1>. DEFINE s == [d EXCEPT !.stage = "STALL_REQ"]
  <1>1. "STALL_REQ" \in Stages
    BY DEF Stages
  <1>2. s \in DevType
    BY <1>1 DEF DevType
  <1>3. /\ Kept(s, d) /\ Counted(s, d) /\ s.stage = "STALL_REQ"
        /\ s.in.ready = d.in.ready /\ s.out.ready = d.out.ready
    BY DEF DevType, Kept, Counted
  <1>4. StallData(d) = StallBoth(s)
    BY DEF StallData
  <1>. HIDE DEF s
  <1>. QED  BY <1>2, <1>3, <1>4, StallBothFields DEF Kept, Counted

LEMMA SendZlpInFields ==
    ASSUME NEW d \in DevType
    PROVE  LET e == SendZlpIn(d) IN
           /\ e \in DevType /\ Kept(e, d) /\ Counted(e, d) /\ e.stage = "WAIT_IN_ZLP"
           /\ e.in.stall = d.in.stall /\ e.out = d.out /\ e.in.ready
  <1>0. d.in \in EndpointType /\ "WAIT_IN_ZLP" \in Stages
    BY DEF DevType, Stages
  <1>1. [d.in EXCEPT !.count = 0, !.ready = TRUE] \in EndpointType
    BY <1>0, EndpointTypes
  <1>2. SendZlpIn(d) \in DevType
    BY <1>0, <1>1 DEF SendZlpIn, DevType
  <1>3. /\ SendZlpIn(d).in = [d.in EXCEPT !.count = 0, !.ready = TRUE]
        /\ SendZlpIn(d).out = d.out
    BY DEF SendZlpIn, DevType
  <1>. QED  BY <1>0, <1>2, <1>3 DEF SendZlpIn, DevType, EndpointType, Kept, Counted

LEMMA SendZlpOutFields ==
    ASSUME NEW d \in DevType
    PROVE  LET e == SendZlpOut(d) IN
           /\ e \in DevType /\ Kept(e, d) /\ Counted(e, d) /\ e.stage = "WAIT_OUT_ZLP"
           /\ e.out.stall = d.out.stall /\ e.in = d.in /\ e.out.ready
  <1>0. d.out \in EndpointType /\ "WAIT_OUT_ZLP" \in Stages
    BY DEF DevType, Stages
  <1>1. [d.out EXCEPT !.ready = TRUE] \in EndpointType
    BY <1>0, EndpointTypes
  <1>2. SendZlpOut(d) \in DevType
    BY <1>0, <1>1 DEF SendZlpOut, DevType
  <1>3. /\ SendZlpOut(d).out = [d.out EXCEPT !.ready = TRUE]
        /\ SendZlpOut(d).in = d.in
    BY DEF SendZlpOut, DevType
  <1>. QED  BY <1>0, <1>2, <1>3 DEF SendZlpOut, DevType, EndpointType, Kept, Counted

LEMMA AwaitMoreFields ==
    ASSUME NEW d \in DevType
    PROVE  LET e == AwaitMore(d) IN
           /\ e \in DevType /\ Kept(e, d) /\ Counted(e, d) /\ e.stage = d.stage
           /\ e.out.stall = d.out.stall /\ e.in = d.in /\ e.out.ready
  <1>0. d.out \in EndpointType
    BY DEF DevType
  <1>1. [d.out EXCEPT !.ready = TRUE] \in EndpointType
    BY <1>0, EndpointTypes
  <1>2. AwaitMore(d) \in DevType
    BY <1>1 DEF AwaitMore, DevType
  <1>3. /\ AwaitMore(d).out = [d.out EXCEPT !.ready = TRUE]
        /\ AwaitMore(d).in = d.in
    BY DEF AwaitMore, DevType
  <1>. QED  BY <1>0, <1>2, <1>3 DEF AwaitMore, DevType, EndpointType, Kept, Counted

LEMMA SendDataType ==
    ASSUME NEW d \in DevType, NEW n \in 0 .. EpSize, NEW b \in BOOLEAN
    PROVE  [d EXCEPT !.b_shortpacket = b,
                     !.in = [@ EXCEPT !.count = n, !.ready = TRUE],
                     !.nb_trans = @ + n] \in DevType
  <1>1. [d.in EXCEPT !.count = n, !.ready = TRUE] \in EndpointType
    <2>1. d.in \in EndpointType
      BY DEF DevType
    <2>. QED  BY <2>1, EndpointCounts
  <1>2. d.nb_trans + n \in Nat
    BY Sizes DEF DevType
  <1>. QED  BY <1>1, <1>2 DEF DevType

LEMMA SendDataFields ==
    ASSUME NEW d \in DevType, NEW n \in 0 .. EpSize
    PROVE  LET e == SendData(d, n) IN
           /\ e \in DevType /\ Kept(e, d) /\ e.stage = d.stage
           /\ e.payload_size = d.payload_size
           /\ e.nb_trans = d.nb_trans + n /\ e.prev_nb_trans = d.prev_nb_trans
           /\ e.b_shortpacket <=> n < EpSize
           /\ e.in.count = n /\ e.in.ready
           /\ e.in.stall = d.in.stall /\ e.out = d.out
  <1>. DEFINE b == n < EpSize
  <1>0. b \in BOOLEAN /\ d.in \in EndpointType
    BY DEF DevType
  <1>1. [d EXCEPT !.b_shortpacket = b,
                  !.in = [@ EXCEPT !.count = n, !.ready = TRUE],
                  !.nb_trans = @ + n] \in DevType
    <2>. HIDE DEF b
    <2>. QED  BY <1>0, SendDataType
  <1>2. SendData(d, n) \in DevType
    BY <1>1, Zenon DEF SendData
  <1>3. /\ SendData(d, n).in = [d.in EXCEPT !.count = n, !.ready = TRUE]
        /\ SendData(d, n).out = d.out
        /\ SendData(d, n).nb_trans = d.nb_trans + n
        /\ SendData(d, n).b_shortpacket <=> n < EpSize
    BY DEF SendData, DevType
  <1>4. /\ SendData(d, n).in.count = n /\ SendData(d, n).in.ready
        /\ SendData(d, n).in.stall = d.in.stall /\ SendData(d, n).in.nak = d.in.nak
    BY <1>0, <1>3 DEF EndpointType
  <1>. QED  BY <1>2, <1>3, <1>4 DEF SendData, DevType, Kept

LEMMA TakeDataFields ==
    ASSUME NEW d \in DevType, NEW n \in Nat
    PROVE  LET e == TakeData(d, n) IN
           /\ e \in DevType /\ Kept(e, d) /\ e.stage = d.stage
           /\ e.payload_size = d.payload_size /\ e.prev_nb_trans = d.prev_nb_trans
           /\ e.nb_trans = d.nb_trans + n
           /\ e.in = d.in /\ e.out = d.out
  <1>. DEFINE x == IF n > 0 /\ d.callback = "report" THEN d.buffer ELSE d.report
  <1>1. x \in {"old", "setup", "data"} /\ d.nb_trans + n \in Nat
    BY DEF DevType
  <1>2. TakeData(d, n) = [d EXCEPT !.nb_trans = @ + n, !.report = x]
    BY Zenon DEF TakeData
  <1>. HIDE DEF x
  <1>3. TakeData(d, n) \in DevType
    BY <1>1, <1>2 DEF DevType
  <1>. QED  BY <1>2, <1>3 DEF DevType, Kept

LEMMA ResetCountFields ==
    ASSUME NEW d \in DevType
    PROVE  LET e == ResetCount(d) IN
           /\ e \in DevType /\ Kept(e, d) /\ e.stage = d.stage
           /\ e.payload_size = d.payload_size
           /\ e.nb_trans = 0 /\ e.prev_nb_trans = 0
           /\ e.in = d.in /\ e.out = d.out
  BY DEF ResetCount, DevType, Kept

LEMMA StageFields ==
    ASSUME NEW d \in DevType, NEW s \in Stages
    PROVE  LET e == [d EXCEPT !.stage = s] IN
           /\ e \in DevType /\ Kept(e, d) /\ Counted(e, d) /\ e.stage = s
           /\ e.in = d.in /\ e.out = d.out
  BY DEF DevType, Kept, Counted

LEMMA PayloadFields ==
    ASSUME NEW d \in DevType, NEW n \in Nat
    PROVE  LET e == [d EXCEPT !.payload_size = n] IN
           /\ e \in DevType /\ Kept(e, d) /\ e.stage = d.stage
           /\ e.payload_size = n
           /\ e.nb_trans = d.nb_trans /\ e.prev_nb_trans = d.prev_nb_trans
           /\ e.in = d.in /\ e.out = d.out
  BY DEF DevType, Kept

LEMMA PrevFields ==
    ASSUME NEW d \in DevType, NEW n \in Nat
    PROVE  LET e == [d EXCEPT !.prev_nb_trans = n] IN
           /\ e \in DevType /\ Kept(e, d) /\ e.stage = d.stage
           /\ e.payload_size = d.payload_size
           /\ e.nb_trans = d.nb_trans /\ e.prev_nb_trans = n
           /\ e.b_shortpacket = d.b_shortpacket
           /\ e.in = d.in /\ e.out = d.out
  BY DEF DevType, Kept

\* The record but for the events.
Same(e, d) ==
    /\ Counted(e, d) /\ e.stage = d.stage
    /\ e.req = d.req /\ e.callback = d.callback
    /\ e.owed = d.owed /\ e.ran = d.ran /\ e.twice = d.twice
    /\ e.b_shortpacket = d.b_shortpacket
    /\ e.in = d.in /\ e.out = d.out

LEMMA EventFields ==
    ASSUME NEW d \in DevType
    PROVE  /\ \A x \in {"in", "out"} :
                 LET e == [d EXCEPT !.done = @ \ {x}] IN
                 e \in DevType /\ Same(e, d) /\ e.setup = d.setup /\ e.done = d.done \ {x}
           /\ \A E \in SUBSET {"underflow", "overflow"} :
                 LET e == [d EXCEPT !.errors = E] IN
                 e \in DevType /\ Same(e, d) /\ e.setup = d.setup /\ e.done = d.done
           /\ LET e == [d EXCEPT !.setup = FALSE] IN
              e \in DevType /\ Same(e, d) /\ ~e.setup /\ e.done = d.done
  <1>1. ASSUME NEW x \in {"in", "out"}
        PROVE  LET e == [d EXCEPT !.done = @ \ {x}] IN
               e \in DevType /\ Same(e, d) /\ e.setup = d.setup /\ e.done = d.done \ {x}
    <2>1. d.done \ {x} \in SUBSET {"in", "out"}
      BY DEF DevType
    <2>. QED  BY <2>1 DEF DevType, Same, Counted
  <1>2. ASSUME NEW E \in SUBSET {"underflow", "overflow"}
        PROVE  LET e == [d EXCEPT !.errors = E] IN
               e \in DevType /\ Same(e, d) /\ e.setup = d.setup /\ e.done = d.done
    BY DEF DevType, Same, Counted
  <1>3. LET e == [d EXCEPT !.setup = FALSE] IN
        e \in DevType /\ Same(e, d) /\ ~e.setup /\ e.done = d.done
    BY DEF DevType, Same, Counted
  <1>. QED  BY <1>1, <1>2, <1>3, Zenon

LEMMA BeginFields ==
    ASSUME NEW d \in DevType, NEW r \in Requests
    PROVE  LET e == Begin(d, r) IN
           /\ e \in DevType
           /\ e.req = r /\ e.callback = r.effect /\ e.payload_size = r.payload
           /\ ~e.ran
           /\ e.stage = d.stage /\ e.setup = d.setup /\ e.done = d.done
           /\ e.owed = d.owed /\ e.twice = d.twice
           /\ e.in = d.in /\ e.out = d.out
  <1>1. r.effect \in {"none", "address", "report"} /\ r.payload \in Nat
    BY RequestFields DEF ControlRequest
  <1>. QED  BY <1>1 DEF Begin, ProcessSetup, DevType

-----------------------------------------------------------------------------
(***************************************************************************)
(* The handlers keep the invariant.                                        *)
(***************************************************************************)
\* The device between two requests.
Fresh(d) ==
    /\ d \in DevType
    /\ d.stage = "SETUP" /\ d.done = {} /\ ~d.setup
    /\ ~d.owed /\ ~d.twice
    /\ ~d.in.ready /\ ~d.out.ready /\ ~d.in.stall /\ ~d.out.stall
    /\ hstage = "data" => IF hreq.in THEN ~d.out.nak ELSE ~d.in.nak

LEMMA PreemptFresh ==
    ASSUME NEW d \in DevType, HostType, GoodCallback(d),
           d.req \in ControlRequest, d.done = {}, ~d.setup,
           ~d.in.ready, ~d.out.ready, ~d.in.stall, ~d.out.stall
    PROVE  Fresh(Preempt(d))
  <1>1. CASE d.stage \in Waits
    <2>1. Preempt(d) = CtrlInit(EndOfRequest(d))
      BY <1>1 DEF Preempt, Waits
    <2>. QED  BY <2>1, EndOfRequestFields, CtrlInitFields DEF Fresh
  <1>2. CASE d.stage \notin Waits
    <2>1. Preempt(d) = CtrlInit(d)
      BY <1>2 DEF Preempt, Waits
    <2>. QED  BY <1>2, <2>1, CtrlInitFields DEF Fresh, GoodCallback
  <1>. QED  BY <1>1, <1>2

LEMMA RequestsTyped ==
    ASSUME NEW d \in DevType
    PROVE  d.req \in ControlRequest /\ d.req.wLength \in Nat
  <1>1. d.req \in Requests \cup {NoRequest}
    BY DEF DevType
  <1>2. NoRequest \in ControlRequest
    BY DEF NoRequest, ControlRequest
  <1>. QED  BY <1>1, <1>2, RequestFields DEF ControlRequest

\* Only what these fields hold decides whether the device is good.
LEMMA SameGood ==
    ASSUME NEW d, NEW e \in DevType, Good(d), Same(e, d),
           e.setup = d.setup, e.done = d.done
    PROVE  Good(e)
  BY DEF Same, Counted, Good, GoodDev, GoodCallback, GoodSetup, SameRequest,
         GoodNaks, GoodLeft, GoodOut, GoodIn

LEMMA SetupReceivedGood ==
    ASSUME NEW d \in DevType, HostType, Good(d), d.setup, d.done = {}
    PROVE  Good(SetupReceived(d, hreq))
  <1>. DEFINE c == [d EXCEPT !.setup = FALSE]
              p == IF c.stage = "SETUP" THEN c ELSE Preempt(c)
              e == Begin(p, hreq)
              z == ResetCount(e)
  <1>0. /\ hreq \in Requests /\ hreq \in ControlRequest
        /\ hstage # "idle" /\ hcount = 0
        /\ hstage = "status" => order = "stopped" \/ (~hreq.in /\ hreq.wLength = 0)
        /\ hreq.payload <= hreq.wLength
        /\ hreq.in /\ hreq.known => hreq.payload >= 1
        /\ hreq.payload \in Nat /\ hreq.wLength \in Nat
        /\ hstage \in {"data", "status"}
        /\ hstage = "data" /\ ~hreq.in => 0 < hreq.wLength
    BY RequestFields DEF Good, GoodSetup, HostType, ControlRequest
  <1>1. Fresh(p)
    <2>1. c \in DevType /\ Same(c, d) /\ ~c.setup /\ c.done = {}
      BY EventFields
    <2>2. GoodCallback(c)
      BY <2>1 DEF Good, GoodCallback, Same
    <2>3. ~c.in.ready /\ ~c.out.ready /\ ~c.in.stall /\ ~c.out.stall
      BY <2>1 DEF Good, GoodDev, GoodSetup, Same
    <2>4. CASE c.stage = "SETUP"
      BY <2>1, <2>3, <2>4 DEF Fresh, Good, GoodCallback, GoodNaks, Same, Waits
    <2>5. CASE c.stage # "SETUP"
      <3>1. c.req \in ControlRequest
        BY <2>1, RequestsTyped
      <3>. HIDE DEF c
      <3>. QED  BY <2>1, <2>2, <2>3, <2>5, <3>1, PreemptFresh
    <2>. QED  BY <2>4, <2>5
  <1>. HIDE DEF p
  <1>2. /\ e \in DevType /\ e.req = hreq /\ e.payload_size = hreq.payload
        /\ ~e.ran /\ ~e.twice /\ ~e.owed
        /\ e.stage = "SETUP" /\ ~e.setup /\ e.done = {}
        /\ ~e.in.ready /\ ~e.out.ready /\ ~e.in.stall /\ ~e.out.stall
        /\ hstage = "data" => IF hreq.in THEN ~e.out.nak ELSE ~e.in.nak
    BY <1>0, <1>1, BeginFields DEF Fresh
  <1>. HIDE DEF e
  <1>3. /\ z \in DevType /\ Kept(z, e) /\ z.stage = "SETUP"
        /\ z.payload_size = hreq.payload /\ z.nb_trans = 0 /\ z.prev_nb_trans = 0
        /\ z.in = e.in /\ z.out = e.out
    BY <1>2, ResetCountFields
  <1>. HIDE DEF z
  <1>4. CASE ~hreq.known
    <2>1. SetupReceived(d, hreq) = StallData(e)
      BY <1>4 DEF SetupReceived, e, p
    <2>. DEFINE x == StallData(e)
    <2>2. /\ x \in DevType /\ x.req = hreq /\ x.payload_size = hreq.payload
          /\ ~x.ran /\ ~x.twice /\ ~x.owed
          /\ x.stage = "STALL_REQ" /\ ~x.setup /\ x.done = {}
          /\ x.in.stall /\ x.out.stall
          /\ hstage = "data" => IF hreq.in THEN ~x.out.nak ELSE ~x.in.nak
      BY <1>2, StallDataFields DEF Kept, Counted
    <2>. HIDE DEF x
    <2>3. Good(x)
      <3>1. GoodDev(x)
        BY <1>0, <2>2 DEF GoodDev, Moves, Waits
      <3>2. GoodCallback(x)
        BY <1>0, <2>2 DEF GoodCallback, Waits
      <3>3. GoodSetup(x)
        BY <1>0, <2>2 DEF GoodSetup
      <3>4. SameRequest(x)
        BY <1>0, <2>2 DEF SameRequest, Moves, Waits
      <3>5. GoodNaks(x)
        BY <1>0, <2>2 DEF GoodNaks
      <3>6. GoodLeft(x)
        BY <1>0, <2>2 DEF GoodLeft
      <3>7. GoodOut(x)
        BY <1>0, <2>2 DEF GoodOut
      <3>8. GoodIn(x)
        BY <1>0, <2>2 DEF GoodIn
      <3>. QED  BY <3>1, <3>2, <3>3, <3>4, <3>5, <3>6, <3>7, <3>8 DEF Good
    <2>. QED  BY <2>1, <2>3 DEF x
  <1>5. CASE hreq.known /\ hreq.in
    <2>. DEFINE y == [z EXCEPT !.stage = "DATA_IN"]
                n == Lesser(hreq.payload, EpSize)
    <2>1. /\ y \in DevType /\ Kept(y, z) /\ Counted(y, z) /\ y.stage = "DATA_IN"
          /\ y.in = z.in /\ y.out = z.out
      BY <1>3, StageFields DEF Stages
    <2>2. n \in 1 .. EpSize /\ n <= hreq.payload /\ (n < EpSize => n = hreq.payload)
      BY <1>0, <1>5, Sizes DEF Lesser
    <2>3. SetupReceived(d, hreq) = SendData(y, n)
      <3>1. SetupReceived(d, hreq) = InSent(y)
        BY <1>5, Zenon DEF SetupReceived, e, p, z
      <3>2. y.payload_size - y.nb_trans = hreq.payload /\ hreq.payload # 0
        BY <1>0, <1>3, <1>5, <2>1 DEF Counted
      <3>. HIDE DEF y
      <3>3. InSent(y) = SendData(y, Lesser(y.payload_size - y.nb_trans, EpSize))
        BY <2>1, <3>2 DEF InSent
      <3>. QED  BY <3>1, <3>2, <3>3
    <2>. HIDE DEF y, n
    <2>4. LET s == SendData(y, n) IN
          /\ s \in DevType /\ Kept(s, y) /\ s.stage = "DATA_IN"
          /\ s.payload_size = hreq.payload /\ s.nb_trans = n /\ s.prev_nb_trans = 0
          /\ s.b_shortpacket <=> n < EpSize
          /\ s.in.count = n /\ s.in.ready
          /\ s.in.stall = y.in.stall /\ s.out = y.out
      BY <1>3, <2>1, <2>2, SendDataFields DEF Counted
    <2>. DEFINE x == SendData(y, n)
    <2>5. /\ x.req = hreq
          /\ ~x.ran /\ ~x.twice /\ ~x.owed
          /\ ~x.setup /\ x.done = {}
          /\ ~x.out.ready /\ ~x.in.stall /\ ~x.out.stall
          /\ hstage = "data" => ~x.out.nak
      BY <1>2, <1>3, <1>5, <2>1, <2>4 DEF Kept
    <2>6. /\ x \in DevType /\ x.stage = "DATA_IN"
          /\ x.payload_size = hreq.payload /\ x.nb_trans = n /\ x.prev_nb_trans = 0
          /\ x.b_shortpacket <=> n < EpSize
          /\ x.in.count = n /\ x.in.ready
      BY <2>4
    <2>. HIDE DEF x
    <2>7. Good(x)
      <3>1. GoodDev(x)
        BY <1>0, <1>5, <2>2, <2>5, <2>6 DEF GoodDev, Moves, Waits
      <3>2. GoodCallback(x)
        BY <1>0, <1>5, <2>2, <2>5, <2>6 DEF GoodCallback, Waits
      <3>3. GoodSetup(x)
        BY <1>0, <1>5, <2>2, <2>5, <2>6 DEF GoodSetup
      <3>4. SameRequest(x)
        BY <1>0, <1>5, <2>2, <2>5, <2>6 DEF SameRequest, Moves, Waits
      <3>5. GoodNaks(x)
        BY <1>0, <1>5, <2>2, <2>5, <2>6 DEF GoodNaks
      <3>6. GoodLeft(x)
        BY <1>0, <1>5, <2>2, <2>5, <2>6 DEF GoodLeft
      <3>7. GoodOut(x)
        BY <1>0, <1>5, <2>2, <2>5, <2>6 DEF GoodOut
      <3>8. GoodIn(x)
        BY <1>0, <1>5, <2>2, <2>5, <2>6 DEF GoodIn
      <3>. QED  BY <3>1, <3>2, <3>3, <3>4, <3>5, <3>6, <3>7, <3>8 DEF Good
    <2>. QED  BY <2>3, <2>7 DEF x
  <1>6. CASE hreq.known /\ ~hreq.in /\ hreq.wLength = 0
    <2>1. SetupReceived(d, hreq) = SendZlpIn(e)
      BY <1>6 DEF SetupReceived, e, p
    <2>. DEFINE x == SendZlpIn(e)
    <2>2. /\ x \in DevType /\ x.req = hreq /\ x.payload_size = hreq.payload
          /\ ~x.ran /\ ~x.twice /\ ~x.owed
          /\ x.stage = "WAIT_IN_ZLP" /\ ~x.setup /\ x.done = {}
          /\ ~x.out.ready /\ ~x.in.stall /\ ~x.out.stall
          /\ hstage = "data" => ~x.in.nak
      BY <1>2, <1>6, SendZlpInFields DEF Kept, Counted
    <2>. HIDE DEF x
    <2>3. Good(x)
      <3>1. GoodDev(x)
        BY <1>0, <1>6, <2>2 DEF GoodDev, Moves, Waits
      <3>2. GoodCallback(x)
        BY <1>0, <1>6, <2>2 DEF GoodCallback, Waits
      <3>3. GoodSetup(x)
        BY <1>0, <1>6, <2>2 DEF GoodSetup
      <3>4. SameRequest(x)
        BY <1>0, <1>6, <2>2 DEF SameRequest, Moves, Waits
      <3>5. GoodNaks(x)
        BY <1>0, <1>6, <2>2 DEF GoodNaks
      <3>6. GoodLeft(x)
        BY <1>0, <1>6, <2>2 DEF GoodLeft
      <3>7. GoodOut(x)
        BY <1>0, <1>6, <2>2 DEF GoodOut
      <3>8. GoodIn(x)
        BY <1>0, <1>6, <2>2 DEF GoodIn
      <3>. QED  BY <3>1, <3>2, <3>3, <3>4, <3>5, <3>6, <3>7, <3>8 DEF Good
    <2>. QED  BY <2>1, <2>3 DEF x
  <1>7. CASE hreq.known /\ ~hreq.in /\ hreq.wLength # 0
    <2>. DEFINE y == [z EXCEPT !.stage = "DATA_OUT"]
    <2>1. /\ y \in DevType /\ Kept(y, z) /\ Counted(y, z) /\ y.stage = "DATA_OUT"
          /\ y.in = z.in /\ y.out = z.out
      BY <1>3, StageFields DEF Stages
    <2>2. SetupReceived(d, hreq) = AwaitMore(y)
      BY <1>7, Zenon DEF SetupReceived, e, p, z
    <2>. HIDE DEF y
    <2>. DEFINE x == AwaitMore(y)
    <2>3. /\ x \in DevType /\ x.req = hreq /\ x.payload_size = hreq.payload
          /\ ~x.ran /\ ~x.twice /\ ~x.owed
          /\ x.stage = "DATA_OUT" /\ ~x.setup /\ x.done = {}
          /\ x.nb_trans = 0 /\ x.prev_nb_trans = 0
          /\ ~x.in.ready /\ x.out.ready /\ ~x.in.stall /\ ~x.out.stall
          /\ hstage = "data" => ~x.in.nak
      BY <1>2, <1>3, <1>7, <2>1, AwaitMoreFields DEF Kept, Counted
    <2>. HIDE DEF x
    <2>4. Good(x)
      <3>1. GoodDev(x)
        BY <1>0, <1>7, <2>3 DEF GoodDev, Moves, Waits
      <3>2. GoodCallback(x)
        BY <1>0, <1>7, <2>3 DEF GoodCallback, Waits
      <3>3. GoodSetup(x)
        BY <1>0, <1>7, <2>3 DEF GoodSetup
      <3>4. SameRequest(x)
        BY <1>0, <1>7, <2>3 DEF SameRequest, Moves, Waits
      <3>5. GoodNaks(x)
        BY <1>0, <1>7, <2>3 DEF GoodNaks
      <3>6. GoodLeft(x)
        BY <1>0, <1>7, <2>3 DEF GoodLeft
      <3>7. GoodOut(x)
        BY <1>0, <1>7, <2>3 DEF GoodOut
      <3>8. GoodIn(x)
        BY <1>0, <1>7, <2>3 DEF GoodIn
      <3>. QED  BY <3>1, <3>2, <3>3, <3>4, <3>5, <3>6, <3>7, <3>8 DEF Good
    <2>. QED  BY <2>2, <2>4 DEF x
  <1>. QED  BY <1>0, <1>4, <1>5, <1>6, <1>7 DEF ControlRequest

\* The end of a request.
LEMMA EndGood ==
    ASSUME NEW d \in DevType, HostType, Good(d), d.done = {}, d.stage \in Waits,
           ~d.setup => hstage = "idle"
    PROVE  Good(CtrlInit(EndOfRequest(d)))
  <1>. DEFINE e == EndOfRequest(d)
              x == CtrlInit(e)
  <1>1. /\ e \in DevType /\ e.req = d.req /\ e.setup = d.setup /\ e.done = {}
        /\ e.in = d.in /\ e.out = d.out /\ ~e.owed /\ ~e.twice
    BY RequestsTyped, EndOfRequestFields DEF Good
  <1>. HIDE DEF e
  <1>2. /\ x \in DevType /\ x.stage = "SETUP" /\ x.callback = "none" /\ x.payload_size = 0
        /\ x.req = d.req /\ x.setup = d.setup /\ x.done = {}
        /\ ~x.twice /\ ~x.owed
        /\ ~x.in.ready /\ ~x.in.nak /\ x.in.stall = d.in.stall
        /\ x.out.ready = d.out.ready /\ ~x.out.nak /\ x.out.stall = d.out.stall
    BY <1>1, CtrlInitFields
  <1>. HIDE DEF x
  <1>3. /\ d.in.stall <=> d.out.stall
        /\ x.req.wLength \in Nat
        /\ d.setup => /\ hstage # "idle" /\ hcount = 0
                      /\ ~d.in.ready /\ ~d.out.ready /\ ~d.in.stall
                      /\ hstage = "status" => order = "stopped"
                                              \/ (~hreq.in /\ hreq.wLength = 0)
    BY <1>2, RequestsTyped DEF Good, GoodDev, GoodSetup
  <1>4. Good(x)
    <2>1. GoodDev(x)
      BY <1>2, <1>3 DEF GoodDev, Moves, Waits
    <2>2. GoodCallback(x)
      BY <1>2, <1>3 DEF GoodCallback, Waits
    <2>3. GoodSetup(x)
      BY <1>2, <1>3 DEF GoodSetup, Waits
    <2>4. SameRequest(x)
      BY <1>2, <1>3 DEF SameRequest, Moves, Waits
    <2>5. GoodNaks(x)
      BY <1>2, <1>3 DEF GoodNaks
    <2>6. GoodLeft(x)
      BY <1>2, <1>3 DEF GoodLeft
    <2>7. GoodOut(x)
      BY <1>2, <1>3 DEF GoodOut
    <2>8. GoodIn(x)
      BY <1>2, <1>3 DEF GoodIn
    <2>. QED  BY <2>1, <2>2, <2>3, <2>4, <2>5, <2>6, <2>7, <2>8 DEF Good
  <1>. QED  BY <1>4 DEF x, e

LEMMA InSentGood ==
    ASSUME NEW d \in DevType, HostType, Good(d), "in" \in d.done
    PROVE  Good(InSent([d EXCEPT !.done = @ \ {"in"}]))
  <1>. DEFINE c == [d EXCEPT !.done = @ \ {"in"}]
  <1>1. /\ c \in DevType /\ Same(c, d) /\ c.setup = d.setup /\ c.done = {}
        /\ c.stage \in {"DATA_IN", "WAIT_IN_ZLP"}
    <2>1. c \in DevType /\ Same(c, d) /\ c.setup = d.setup /\ c.done = d.done \ {"in"}
      BY EventFields
    <2>2. d.done \subseteq {"in", "out"} /\ d.stage \in Stages
      BY DEF DevType
    <2>. QED  BY <2>1, <2>2 DEF Good, GoodDev, Same, Stages
  <1>. SUFFICES Good(InSent(c))
    OBVIOUS
  <1>. HIDE DEF c
  <1>2. CASE c.stage = "WAIT_IN_ZLP"
    <2>1. InSent(c) = CtrlInit(EndOfRequest(c))
      BY <1>2 DEF InSent
    <2>2. Good(c)
      BY <1>1, <1>2 DEF Same, Counted, Good, GoodDev, GoodCallback, GoodSetup, SameRequest,
                        GoodNaks, GoodLeft, GoodOut, GoodIn, Moves, Waits
    <2>3. ~c.setup => hstage = "idle"
      BY <1>1, <1>2 DEF Good, SameRequest, Same, Waits
    <2>. QED  BY <1>1, <1>2, <2>1, <2>2, <2>3, EndGood DEF Waits
  <1>3. CASE c.stage = "DATA_IN"
    <2>. DEFINE remain == c.payload_size - c.nb_trans
                sent == c.prev_nb_trans + c.nb_trans
                e == IF remain = 0 THEN [c EXCEPT !.prev_nb_trans = sent] ELSE c
                n == Lesser(remain, EpSize)
    <2>1. /\ ~c.setup /\ c.req = hreq /\ c.req.in /\ hstage # "idle"
          /\ ~c.in.stall /\ ~c.out.stall /\ ~c.out.ready /\ ~c.in.ready
          /\ c.callback # "none" => ~c.ran
          /\ ~c.twice /\ ~c.owed
          /\ hstage = "data" => ~c.out.nak
          /\ c.nb_trans = hcount /\ c.nb_trans <= c.payload_size
          /\ c.payload_size <= c.req.wLength
          /\ c.b_shortpacket => c.nb_trans = c.payload_size
          /\ c.prev_nb_trans = 0 \/ c.b_shortpacket
          /\ hstage = "data" \/ order = "stopped"
             \/ (c.b_shortpacket \/ hcount >= c.req.wLength)
      BY <1>1, <1>3 DEF Same, Counted, Good, GoodDev, GoodCallback, GoodSetup, SameRequest,
                        GoodNaks, GoodIn, Moves, Waits
    <2>2. /\ c.payload_size \in Nat /\ c.nb_trans \in Nat /\ c.prev_nb_trans \in Nat
          /\ c.req.wLength \in Nat /\ hcount \in Nat
          /\ remain \in Nat /\ sent \in Nat
      BY <1>1, <2>1, RequestsTyped DEF DevType
    <2>3. /\ e \in DevType /\ Kept(e, c) /\ e.stage = "DATA_IN"
          /\ e.payload_size = c.payload_size /\ e.nb_trans = c.nb_trans
          /\ e.prev_nb_trans = IF remain = 0 THEN sent ELSE c.prev_nb_trans
          /\ e.in = c.in /\ e.out = c.out
      BY <1>1, <1>3, <2>2, PrevFields DEF Kept
    <2>4. n \in 0 .. EpSize /\ n <= remain /\ (n < EpSize => n = remain)
      BY <2>2, Sizes DEF Lesser
    <2>5. InSent(c) = IF remain = 0 /\ DataSent(c, sent) THEN SendZlpOut(e) ELSE SendData(e, n)
      BY <1>3, Zenon DEF InSent
    <2>. HIDE DEF e, n
    <2>6. CASE remain = 0 /\ DataSent(c, sent)
      <3>. DEFINE x == SendZlpOut(e)
      <3>1. /\ x \in DevType /\ x.req = c.req /\ x.callback = c.callback
            /\ ~x.setup /\ x.done = {} /\ ~x.owed /\ ~x.twice /\ x.ran = c.ran
            /\ x.payload_size = c.payload_size /\ x.nb_trans = c.nb_trans
            /\ x.stage = "WAIT_OUT_ZLP"
            /\ ~x.in.stall /\ ~x.out.stall /\ ~x.in.ready
            /\ hstage = "data" => ~x.out.nak
        BY <1>1, <2>1, <2>3, SendZlpOutFields DEF Kept, Counted
      <3>. HIDE DEF x
      <3>2. Good(x)
        <4>1. GoodDev(x)
          BY <2>1, <2>2, <3>1 DEF GoodDev, Moves, Waits
        <4>2. GoodCallback(x)
          BY <2>1, <2>2, <3>1 DEF GoodCallback, Waits
        <4>3. GoodSetup(x)
          BY <2>1, <2>2, <3>1 DEF GoodSetup, Waits
        <4>4. SameRequest(x)
          BY <2>1, <2>2, <3>1 DEF SameRequest, Moves, Waits
        <4>5. GoodNaks(x)
          BY <2>1, <2>2, <3>1 DEF GoodNaks
        <4>6. GoodLeft(x)
          BY <2>1, <2>2, <3>1 DEF GoodLeft
        <4>7. GoodOut(x)
          BY <2>1, <2>2, <3>1 DEF GoodOut
        <4>8. GoodIn(x)
          BY <2>1, <2>2, <3>1 DEF GoodIn
        <4>. QED  BY <4>1, <4>2, <4>3, <4>4, <4>5, <4>6, <4>7, <4>8 DEF Good
      <3>. QED  BY <2>5, <2>6, <3>2 DEF x
    <2>7. CASE ~(remain = 0 /\ DataSent(c, sent))
      <3>. DEFINE x == SendData(e, n)
      <3>1. /\ x \in DevType /\ x.req = c.req /\ x.callback = c.callback
            /\ ~x.setup /\ x.done = {} /\ ~x.owed /\ ~x.twice /\ x.ran = c.ran
            /\ x.payload_size = c.payload_size /\ x.nb_trans = c.nb_trans + n
            /\ x.prev_nb_trans = IF remain = 0 THEN sent ELSE c.prev_nb_trans
            /\ x.b_shortpacket <=> n < EpSize
            /\ x.stage = "DATA_IN" /\ x.in.count = n /\ x.in.ready
            /\ ~x.in.stall /\ ~x.out.stall /\ ~x.out.ready
            /\ hstage = "data" => ~x.out.nak
        BY <1>1, <2>1, <2>3, <2>4, SendDataFields DEF Kept
      <3>2. /\ hstage = "data" \/ order = "stopped"
            /\ x.b_shortpacket => x.nb_trans = x.payload_size
            /\ x.prev_nb_trans = 0 \/ x.b_shortpacket
            /\ x.nb_trans = hcount + x.in.count /\ x.nb_trans <= x.payload_size
        <4>1. remain = 0 => n = 0 /\ n < EpSize
          BY <2>4, Sizes
        <4>2. remain = 0 => ~c.b_shortpacket /\ sent # c.req.wLength
          BY <2>7 DEF DataSent
        <4>. QED  BY <2>1, <2>2, <2>4, <3>1, <4>1, <4>2
      <3>. HIDE DEF x
      <3>3. Good(x)
        <4>1. GoodDev(x)
          BY <2>1, <2>2, <3>1, <3>2 DEF GoodDev, Moves, Waits
        <4>2. GoodCallback(x)
          BY <2>1, <2>2, <3>1, <3>2 DEF GoodCallback, Waits
        <4>3. GoodSetup(x)
          BY <2>1, <2>2, <3>1, <3>2 DEF GoodSetup, Waits
        <4>4. SameRequest(x)
          BY <2>1, <2>2, <3>1, <3>2 DEF SameRequest, Moves, Waits
        <4>5. GoodNaks(x)
          BY <2>1, <2>2, <3>1, <3>2 DEF GoodNaks
        <4>6. GoodLeft(x)
          BY <2>1, <2>2, <3>1, <3>2 DEF GoodLeft
        <4>7. GoodOut(x)
          BY <2>1, <2>2, <3>1, <3>2 DEF GoodOut
        <4>8. GoodIn(x)
          BY <2>1, <2>2, <3>1, <3>2 DEF GoodIn
        <4>. QED  BY <4>1, <4>2, <4>3, <4>4, <4>5, <4>6, <4>7, <4>8 DEF Good
      <3>. QED  BY <2>5, <2>7, <3>3 DEF x
    <2>. QED  BY <2>6, <2>7
  <1>. QED  BY <1>1, <1>2, <1>3

LEMMA OutReceivedGood ==
    ASSUME NEW d \in DevType, HostType, Good(d), "out" \in d.done
    PROVE  Good(OutReceived([d EXCEPT !.done = @ \ {"out"}]))
  <1>. DEFINE c == [d EXCEPT !.done = @ \ {"out"}]
  <1>1. /\ c \in DevType /\ Same(c, d) /\ c.setup = d.setup /\ c.done = {}
        /\ c.stage \in {"DATA_OUT", "WAIT_OUT_ZLP"}
    <2>1. c \in DevType /\ Same(c, d) /\ c.setup = d.setup /\ c.done = d.done \ {"out"}
      BY EventFields
    <2>2. d.done \subseteq {"in", "out"} /\ d.stage \in Stages
      BY DEF DevType
    <2>. QED  BY <2>1, <2>2 DEF Good, GoodDev, Same, Stages
  <1>. SUFFICES Good(OutReceived(c))
    OBVIOUS
  <1>. HIDE DEF c
  <1>2. CASE c.stage = "WAIT_OUT_ZLP"
    <2>1. OutReceived(c) = CtrlInit(EndOfRequest(c))
      BY <1>2 DEF OutReceived
    <2>2. Good(c)
      BY <1>1, <1>2 DEF Same, Counted, Good, GoodDev, GoodCallback, GoodSetup, SameRequest,
                        GoodNaks, GoodLeft, GoodOut, GoodIn, Moves, Waits
    <2>3. ~c.setup => hstage = "idle"
      BY <1>1, <1>2 DEF Good, SameRequest, Same, Waits
    <2>. QED  BY <1>1, <1>2, <2>1, <2>2, <2>3, EndGood DEF Waits
  <1>3. CASE c.stage = "DATA_OUT"
    <2>. DEFINE n == Fitting(c)
                e == TakeData(c, n)
                p == [e EXCEPT !.payload_size = e.nb_trans]
    <2>1. /\ ~c.setup /\ c.req = hreq /\ ~c.req.in /\ hstage # "idle"
          /\ ~c.in.stall /\ ~c.out.stall /\ ~c.out.ready /\ ~c.in.ready
          /\ c.callback # "none" => ~c.ran
          /\ ~c.twice /\ ~c.owed
          /\ hstage = "data" => ~c.in.nak
          /\ c.nb_trans + c.out.count = hcount /\ c.nb_trans <= c.payload_size
          /\ c.payload_size <= c.req.wLength
          /\ c.prev_nb_trans = 0
          /\ hstage = "data" \/ hcount = c.req.wLength \/ order = "stopped"
      BY <1>1, <1>3 DEF Same, Counted, Good, GoodDev, GoodCallback, GoodSetup, SameRequest,
                        GoodNaks, GoodOut, Moves, Waits
    <2>2. /\ c.payload_size \in Nat /\ c.nb_trans \in Nat
          /\ c.req.wLength \in Nat /\ hcount \in Nat
          /\ c.out.count \in 0 .. EpSize
      BY <1>1, <2>1, RequestsTyped DEF DevType, EndpointType
    <2>3. /\ n \in 0 .. EpSize /\ n <= c.out.count
          /\ c.nb_trans + n <= c.payload_size
      BY <2>1, <2>2, Sizes DEF Fitting, Lesser
    <2>4. OutReceived(c) = IF DataReceived(e, n) THEN SendZlpIn(p)
                           ELSE IF e.payload_size = e.nb_trans THEN StallData(e)
                           ELSE AwaitMore(e)
      BY <1>3, Zenon DEF OutReceived
    <2>. HIDE DEF n
    <2>5. /\ e \in DevType /\ Kept(e, c) /\ e.stage = "DATA_OUT"
          /\ e.payload_size = c.payload_size /\ e.prev_nb_trans = 0
          /\ e.nb_trans = c.nb_trans + n
          /\ e.in = c.in /\ e.out = c.out
      BY <1>1, <1>3, <2>1, <2>3, TakeDataFields
    <2>. HIDE DEF e
    <2>6. /\ p \in DevType /\ Kept(p, e)
          /\ p.payload_size = e.nb_trans
          /\ p.in = e.in /\ p.out = e.out
      BY <2>2, <2>3, <2>5, PayloadFields
    <2>. HIDE DEF p
    <2>7. CASE DataReceived(e, n)
      <3>. DEFINE x == SendZlpIn(p)
      <3>1. /\ x \in DevType /\ x.req = c.req /\ x.callback = c.callback
            /\ ~x.setup /\ x.done = {} /\ ~x.owed /\ ~x.twice /\ x.ran = c.ran
            /\ x.payload_size = c.nb_trans + n
            /\ x.stage = "WAIT_IN_ZLP"
            /\ ~x.in.stall /\ ~x.out.stall /\ ~x.out.ready
            /\ hstage = "data" => ~x.in.nak
        BY <1>1, <2>1, <2>5, <2>6, SendZlpInFields DEF Kept, Counted
      <3>. HIDE DEF x
      <3>2. Good(x)
        <4>1. GoodDev(x)
          BY <2>1, <2>2, <2>3, <3>1 DEF GoodDev, Moves, Waits
        <4>2. GoodCallback(x)
          BY <2>1, <2>2, <2>3, <3>1 DEF GoodCallback, Waits
        <4>3. GoodSetup(x)
          BY <2>1, <2>2, <2>3, <3>1 DEF GoodSetup, Waits
        <4>4. SameRequest(x)
          BY <2>1, <2>2, <2>3, <3>1 DEF SameRequest, Moves, Waits
        <4>5. GoodNaks(x)
          BY <2>1, <2>2, <2>3, <3>1 DEF GoodNaks
        <4>6. GoodLeft(x)
          BY <2>1, <2>2, <2>3, <3>1 DEF GoodLeft
        <4>7. GoodOut(x)
          BY <2>1, <2>2, <2>3, <3>1 DEF GoodOut
        <4>8. GoodIn(x)
          BY <2>1, <2>2, <2>3, <3>1 DEF GoodIn
        <4>. QED  BY <4>1, <4>2, <4>3, <4>4, <4>5, <4>6, <4>7, <4>8 DEF Good
      <3>. QED  BY <2>4, <2>7, <3>2 DEF x
    <2>8. CASE ~DataReceived(e, n) /\ e.payload_size = e.nb_trans
      <3>. DEFINE x == StallData(e)
      <3>1. /\ x \in DevType /\ x.req = c.req /\ x.callback = c.callback
            /\ ~x.setup /\ x.done = {} /\ ~x.owed /\ ~x.twice /\ x.ran = c.ran
            /\ x.payload_size = c.payload_size
            /\ x.stage = "STALL_REQ"
            /\ x.in.stall /\ x.out.stall
            /\ hstage = "data" => ~x.in.nak
        BY <1>1, <2>1, <2>5, StallDataFields DEF Kept, Counted
      <3>. HIDE DEF x
      <3>2. Good(x)
        <4>1. GoodDev(x)
          BY <2>1, <2>2, <3>1 DEF GoodDev, Moves, Waits
        <4>2. GoodCallback(x)
          BY <2>1, <2>2, <3>1 DEF GoodCallback, Waits
        <4>3. GoodSetup(x)
          BY <2>1, <2>2, <3>1 DEF GoodSetup, Waits
        <4>4. SameRequest(x)
          BY <2>1, <2>2, <3>1 DEF SameRequest, Moves, Waits
        <4>5. GoodNaks(x)
          BY <2>1, <2>2, <3>1 DEF GoodNaks
        <4>6. GoodLeft(x)
          BY <2>1, <2>2, <3>1 DEF GoodLeft
        <4>7. GoodOut(x)
          BY <2>1, <2>2, <3>1 DEF GoodOut
        <4>8. GoodIn(x)
          BY <2>1, <2>2, <3>1 DEF GoodIn
        <4>. QED  BY <4>1, <4>2, <4>3, <4>4, <4>5, <4>6, <4>7, <4>8 DEF Good
      <3>. QED  BY <2>4, <2>8, <3>2 DEF x
    <2>9. CASE ~DataReceived(e, n) /\ e.payload_size # e.nb_trans
      <3>. DEFINE x == AwaitMore(e)
      <3>1. /\ x \in DevType /\ x.req = c.req /\ x.callback = c.callback
            /\ ~x.setup /\ x.done = {} /\ ~x.owed /\ ~x.twice /\ x.ran = c.ran
            /\ x.payload_size = c.payload_size /\ x.nb_trans = c.nb_trans + n
            /\ x.prev_nb_trans = 0
            /\ x.stage = "DATA_OUT"
            /\ ~x.in.stall /\ ~x.out.stall /\ ~x.in.ready /\ x.out.ready
            /\ hstage = "data" => ~x.in.nak
        BY <1>1, <2>1, <2>5, AwaitMoreFields DEF Kept, Counted
      <3>2. n = EpSize /\ c.nb_trans + n < c.req.wLength
        BY <2>1, <2>2, <2>3, <2>5, <2>9 DEF DataReceived, Kept
      <3>3. x.nb_trans = hcount /\ hcount < x.req.wLength
            /\ (hstage = "data" \/ order = "stopped")
        BY <2>1, <2>2, <2>3, <3>1, <3>2
      <3>. HIDE DEF x
      <3>4. Good(x)
        <4>1. GoodDev(x)
          BY <2>1, <2>2, <2>3, <3>1, <3>3 DEF GoodDev, Moves, Waits
        <4>2. GoodCallback(x)
          BY <2>1, <2>2, <2>3, <3>1, <3>3 DEF GoodCallback, Waits
        <4>3. GoodSetup(x)
          BY <2>1, <2>2, <2>3, <3>1, <3>3 DEF GoodSetup, Waits
        <4>4. SameRequest(x)
          BY <2>1, <2>2, <2>3, <3>1, <3>3 DEF SameRequest, Moves, Waits
        <4>5. GoodNaks(x)
          BY <2>1, <2>2, <2>3, <3>1, <3>3 DEF GoodNaks
        <4>6. GoodLeft(x)
          BY <2>1, <2>2, <2>3, <3>1, <3>3 DEF GoodLeft
        <4>7. GoodOut(x)
          BY <2>1, <2>2, <2>3, <3>1, <3>3 DEF GoodOut
        <4>8. GoodIn(x)
          BY <2>1, <2>2, <2>3, <3>1, <3>3 DEF GoodIn
        <4>. QED  BY <4>1, <4>2, <4>3, <4>4, <4>5, <4>6, <4>7, <4>8 DEF Good
      <3>. QED  BY <2>4, <2>9, <3>4 DEF x
    <2>. QED  BY <2>7, <2>8, <2>9
  <1>. QED  BY <1>1, <1>2, <1>3

\* A token out of turn.
LEMMA UnderflowGood ==
    ASSUME NEW d \in DevType, HostType, Good(d), d.in.nak
    PROVE  Good(Underflow(d, hreq))
  <1>1. CASE d.done # {}
    BY <1>1 DEF Underflow
  <1>2. CASE d.done = {} /\ d.setup
    BY <1>2, SetupReceivedGood DEF Underflow
  <1>3. CASE d.done = {} /\ ~d.setup /\ d.stage = "DATA_OUT"
    <2>. DEFINE x == SendZlpIn(d)
    <2>1. /\ hstage = "status" /\ order = "stopped" /\ d.req = hreq
          /\ d.payload_size <= d.req.wLength
          /\ ~d.req.in /\ ~d.in.stall /\ ~d.out.stall
          /\ d.callback # "none" => ~d.ran
          /\ ~d.twice /\ ~d.owed
      BY <1>3 DEF HostType, Good, GoodDev, GoodCallback, GoodNaks, GoodOut, SameRequest,
                  Moves, Waits
    <2>2. /\ x \in DevType /\ Kept(x, d) /\ Counted(x, d) /\ x.stage = "WAIT_IN_ZLP"
          /\ x.in.stall = d.in.stall /\ x.out = d.out
      BY SendZlpInFields
    <2>. HIDE DEF x
    <2>3. Good(x)
      <3>1. GoodDev(x)
        BY <1>3, <2>1, <2>2 DEF Kept, Counted, GoodDev, Moves, Waits
      <3>2. GoodCallback(x)
        BY <1>3, <2>1, <2>2 DEF Kept, Counted, GoodCallback, Waits
      <3>3. GoodSetup(x)
        BY <1>3, <2>1, <2>2 DEF Kept, Counted, GoodSetup, Waits
      <3>4. SameRequest(x)
        BY <1>3, <2>1, <2>2 DEF Kept, SameRequest, Moves, Waits
      <3>5. GoodNaks(x)
        BY <1>3, <2>1, <2>2 DEF Kept, Counted, GoodNaks
      <3>6. GoodLeft(x)
        BY <1>3, <2>1, <2>2 DEF Kept, Counted, GoodLeft
      <3>7. GoodOut(x)
        BY <1>3, <2>1, <2>2 DEF Kept, Counted, GoodOut
      <3>8. GoodIn(x)
        BY <1>3, <2>1, <2>2 DEF Kept, Counted, GoodIn
      <3>. QED  BY <3>1, <3>2, <3>3, <3>4, <3>5, <3>6, <3>7, <3>8 DEF Kept, Counted, Good
    <2>. QED  BY <1>3, <2>3 DEF Underflow, x
  <1>4. CASE d.done = {} /\ ~d.setup /\ d.stage = "WAIT_OUT_ZLP"
    <2>. DEFINE x == StallBoth(d)
    <2>1. /\ x \in DevType /\ Kept(x, d) /\ Counted(x, d) /\ x.stage = d.stage
          /\ x.in.stall /\ x.out.stall
          /\ x.in.ready = d.in.ready /\ x.out.ready = d.out.ready
      BY StallBothFields
    <2>. HIDE DEF x
    <2>2. Good(x)
      BY <1>4, <2>1 DEF Kept, Counted, Good, GoodDev, GoodCallback, GoodSetup, SameRequest,
                        GoodNaks, GoodLeft, GoodOut, GoodIn, Moves, Waits
    <2>. QED  BY <1>4, <2>2 DEF Underflow, x
  <1>5. CASE d.done = {} /\ ~d.setup /\ d.stage \notin {"DATA_OUT", "WAIT_OUT_ZLP"}
    BY <1>5 DEF Underflow
  <1>. QED  BY <1>1, <1>2, <1>3, <1>4, <1>5

LEMMA OverflowGood ==
    ASSUME NEW d \in DevType, HostType, Good(d), d.out.nak
    PROVE  Good(Overflow(d, hreq))
  <1>1. CASE d.done # {}
    BY <1>1 DEF Overflow
  <1>2. CASE d.done = {} /\ d.setup
    BY <1>2, SetupReceivedGood DEF Overflow
  <1>3. CASE d.done = {} /\ ~d.setup /\ d.stage = "DATA_IN"
    <2>. DEFINE x == SendZlpOut(d)
    <2>1. /\ hstage = "status" /\ order = "stopped" /\ d.req = hreq
          /\ d.payload_size <= d.req.wLength
          /\ d.req.in /\ ~d.in.stall /\ ~d.out.stall
          /\ d.callback # "none" => ~d.ran
          /\ ~d.twice /\ ~d.owed
      BY <1>3 DEF HostType, Good, GoodDev, GoodCallback, GoodNaks, GoodIn, SameRequest,
                  Moves, Waits
    <2>2. /\ x \in DevType /\ Kept(x, d) /\ Counted(x, d) /\ x.stage = "WAIT_OUT_ZLP"
          /\ x.out.stall = d.out.stall /\ x.in = d.in
      BY SendZlpOutFields
    <2>. HIDE DEF x
    <2>3. Good(x)
      <3>1. GoodDev(x)
        BY <1>3, <2>1, <2>2 DEF Kept, Counted, GoodDev, Moves, Waits
      <3>2. GoodCallback(x)
        BY <1>3, <2>1, <2>2 DEF Kept, Counted, GoodCallback, Waits
      <3>3. GoodSetup(x)
        BY <1>3, <2>1, <2>2 DEF Kept, Counted, GoodSetup, Waits
      <3>4. SameRequest(x)
        BY <1>3, <2>1, <2>2 DEF Kept, SameRequest, Moves, Waits
      <3>5. GoodNaks(x)
        BY <1>3, <2>1, <2>2 DEF Kept, Counted, GoodNaks
      <3>6. GoodLeft(x)
        BY <1>3, <2>1, <2>2 DEF Kept, Counted, GoodLeft
      <3>7. GoodOut(x)
        BY <1>3, <2>1, <2>2 DEF Kept, Counted, GoodOut
      <3>8. GoodIn(x)
        BY <1>3, <2>1, <2>2 DEF Kept, Counted, GoodIn
      <3>. QED  BY <3>1, <3>2, <3>3, <3>4, <3>5, <3>6, <3>7, <3>8 DEF Kept, Counted, Good
    <2>. QED  BY <1>3, <2>3 DEF Overflow, x
  <1>4. CASE d.done = {} /\ ~d.setup /\ d.stage = "WAIT_IN_ZLP"
    <2>. DEFINE x == StallBoth(d)
    <2>1. /\ x \in DevType /\ Kept(x, d) /\ Counted(x, d) /\ x.stage = d.stage
          /\ x.in.stall /\ x.out.stall
          /\ x.in.ready = d.in.ready /\ x.out.ready = d.out.ready
      BY StallBothFields
    <2>. HIDE DEF x
    <2>2. Good(x)
      BY <1>4, <2>1 DEF Kept, Counted, Good, GoodDev, GoodCallback, GoodSetup, SameRequest,
                        GoodNaks, GoodLeft, GoodOut, GoodIn, Moves, Waits
    <2>. QED  BY <1>4, <2>2 DEF Overflow, x
  <1>5. CASE d.done = {} /\ ~d.setup /\ d.stage \notin {"DATA_IN", "WAIT_IN_ZLP"}
    BY <1>5 DEF Overflow
  <1>. QED  BY <1>1, <1>2, <1>3, <1>4, <1>5

LEMMA BusResetGood ==
    ASSUME NEW d \in DevType, Good(d), d.done = {}, ~d.setup
    PROVE  LET x == BusReset(d) IN
           /\ x \in DevType /\ x.stage = "SETUP" /\ x.callback = "none"
           /\ x.payload_size = 0 /\ x.done = {} /\ ~x.setup
           /\ ~x.twice /\ ~x.owed
           /\ ~x.in.ready /\ ~x.in.nak /\ ~x.in.stall
           /\ ~x.out.ready /\ ~x.out.nak /\ ~x.out.stall
  <1>. DEFINE e == [d EXCEPT !.address = 0, !.owed = FALSE,
                             !.in = [@ EXCEPT !.stall = FALSE],
                             !.out = [@ EXCEPT !.stall = FALSE, !.ready = FALSE]]
  <1>1. d.in \in EndpointType /\ d.out \in EndpointType
    BY DEF DevType
  <1>2. /\ [d.in EXCEPT !.stall = FALSE] \in EndpointType
        /\ [d.out EXCEPT !.stall = FALSE, !.ready = FALSE] \in EndpointType
    BY <1>1, EndpointTypes
  <1>3. e \in DevType
    BY <1>2 DEF DevType
  <1>4. /\ e.in = [d.in EXCEPT !.stall = FALSE]
        /\ e.out = [d.out EXCEPT !.stall = FALSE, !.ready = FALSE]
        /\ e.done = {} /\ ~e.setup /\ ~e.owed /\ ~e.twice
    BY DEF DevType, Good, GoodCallback
  <1>5. ~e.in.stall /\ ~e.out.stall /\ ~e.out.ready
    BY <1>1, <1>4 DEF EndpointType
  <1>6. BusReset(d) = CtrlInit(e)
    BY Zenon DEF BusReset
  <1>. HIDE DEF e
  <1>7. /\ CtrlInit(e) \in DevType
        /\ CtrlInit(e).stage = "SETUP" /\ CtrlInit(e).callback = "none"
        /\ CtrlInit(e).payload_size = 0 /\ CtrlInit(e).done = {}
        /\ ~CtrlInit(e).setup /\ ~CtrlInit(e).twice /\ ~CtrlInit(e).owed
    BY <1>3, <1>4, CtrlInitFields
  <1>8. /\ ~CtrlInit(e).in.ready /\ ~CtrlInit(e).in.nak /\ ~CtrlInit(e).in.stall
        /\ ~CtrlInit(e).out.ready /\ ~CtrlInit(e).out.nak /\ ~CtrlInit(e).out.stall
    BY <1>3, <1>5, CtrlInitFields
  <1>. QED  BY <1>6, <1>7, <1>8

-----------------------------------------------------------------------------
(***************************************************************************)
(* Every step of the system keeps the invariant.                           *)
(***************************************************************************)
LEMMA InitInv == Init => IInv
  <1>. SUFFICES ASSUME Init PROVE IInv
    OBVIOUS
  <1>1. Attached \in DevType
    <2>1. /\ [ready |-> FALSE, count |-> 0, stall |-> FALSE, nak |-> FALSE] \in EndpointType
          /\ "SETUP" \in Stages
      BY Sizes DEF EndpointType, Stages
    <2>. QED  BY <2>1 DEF Attached, DevType
  <1>2. HostType
    BY DEF Init, HostType, NoRequest
  <1>3. Good(Attached)
    BY <1>1 DEF Init, Attached, NoRequest, Moves, Waits, Good, GoodDev, GoodCallback, GoodSetup, SameRequest, GoodNaks, GoodLeft, GoodOut, GoodIn
  <1>. QED  BY <1>2, <1>3 DEF Init, IInv

\* The interrupts leave the host as it was.
LEMMA DriverStep ==
    ASSUME IInv, NEW x, Good(x), dev' = x, UNCHANGED host,
           running' \in {"none", "transfer", "bus"}
    PROVE  IInv'
  <1>1. HostType'
    BY DEF IInv, HostType, host
  <1>2. Good(dev)'
    BY DEF host, Good, GoodDev, GoodCallback, GoodSetup, SameRequest, GoodNaks, GoodLeft, GoodOut, GoodIn
  <1>. QED  BY <1>1, <1>2 DEF IInv

LEMMA InterruptInv == ASSUME IInv, Interrupt PROVE IInv'
  <1>0. dev \in DevType /\ Good(dev) /\ HostType
    BY DEF IInv, Good, GoodDev
  <1>1. CASE EnterBusEvent
    BY <1>0, <1>1, DriverStep DEF EnterBusEvent
  <1>2. CASE EnterTransferComplete
    BY <1>0, <1>2, DriverStep DEF EnterTransferComplete
  <1>3. CASE TransferComplete
    <2>1. PICK e \in dev.done :
             LET d == [dev EXCEPT !.done = @ \ {e}] IN
             dev' = IF e = "in" THEN InSent(d) ELSE OutReceived(d)
      BY <1>3 DEF TransferComplete
    <2>2. e \in {"in", "out"}
      BY <1>0 DEF DevType
    <2>3. Good(dev')
      <3>1. CASE e = "in"
        BY <1>0, <2>1, <3>1, InSentGood
      <3>2. CASE e = "out"
        BY <1>0, <2>1, <3>2, OutReceivedGood
      <3>. QED  BY <2>2, <3>1, <3>2
    <2>. QED  BY <1>3, <2>3, DriverStep DEF TransferComplete, Returns
  <1>4. CASE SetupComplete
    <2>1. dev.setup
      BY <1>4 DEF SetupComplete
    <2>2. Good(SetupReceived(dev, hreq))
      BY <1>0, <1>4, <2>1, SetupReceivedGood DEF SetupComplete
    <2>. QED  BY <1>4, <2>2, DriverStep DEF SetupComplete, Returns
  <1>5. CASE UnderflowEvent
    <2>. DEFINE d == [dev EXCEPT !.errors = @ \ {"underflow"}]
    <2>1. dev.errors \ {"underflow"} \in SUBSET {"underflow", "overflow"}
      BY <1>0 DEF DevType
    <2>2. d \in DevType /\ Same(d, dev) /\ d.setup = dev.setup /\ d.done = dev.done
      BY <1>0, <2>1, EventFields
    <2>3. dev' = IF d.in.nak THEN Underflow(d, hreq) ELSE d
      BY <1>5 DEF UnderflowEvent
    <2>. HIDE DEF d
    <2>4. Good(d)
      BY <1>0, <2>2, SameGood
    <2>5. Good(dev')
      BY <1>0, <2>2, <2>3, <2>4, UnderflowGood
    <2>. QED  BY <1>5, <2>5, DriverStep DEF UnderflowEvent, Returns
  <1>6. CASE OverflowEvent
    <2>. DEFINE d == [dev EXCEPT !.errors = @ \ {"overflow"}]
    <2>1. dev.errors \ {"overflow"} \in SUBSET {"underflow", "overflow"}
      BY <1>0 DEF DevType
    <2>2. d \in DevType /\ Same(d, dev) /\ d.setup = dev.setup /\ d.done = dev.done
      BY <1>0, <2>1, EventFields
    <2>3. dev' = IF d.out.nak THEN Overflow(d, hreq) ELSE d
      BY <1>6 DEF OverflowEvent
    <2>. HIDE DEF d
    <2>4. Good(d)
      BY <1>0, <2>2, SameGood
    <2>5. Good(dev')
      BY <1>0, <2>2, <2>3, <2>4, OverflowGood
    <2>. QED  BY <1>6, <2>5, DriverStep DEF OverflowEvent, Returns
  <1>. QED  BY <1>1, <1>2, <1>3, <1>4, <1>5, <1>6 DEF Interrupt

LEMMA ResetInv == ASSUME IInv, Reset PROVE IInv'
  <1>0. /\ dev \in DevType /\ Good(dev) /\ HostType
        /\ dev.done = {} /\ ~dev.setup
    BY DEF IInv, Good, GoodDev, Reset, Quiet
  <1>1. HostType'
    BY <1>0 DEF Reset, HostType
  <1>2. /\ dev' \in DevType /\ dev'.stage = "SETUP" /\ dev'.callback = "none"
        /\ dev'.payload_size = 0 /\ dev'.done = {} /\ ~dev'.setup
        /\ ~dev'.twice /\ ~dev'.owed
        /\ ~dev'.in.ready /\ ~dev'.in.nak /\ ~dev'.in.stall
        /\ ~dev'.out.ready /\ ~dev'.out.nak /\ ~dev'.out.stall
    BY <1>0, BusResetGood DEF Reset
  <1>3. dev'.req.wLength \in Nat
    BY <1>2, RequestsTyped
  <1>4. Good(dev)'
    BY <1>2, <1>3 DEF Reset, Moves, Waits, Good, GoodDev, GoodCallback, GoodSetup, SameRequest, GoodNaks, GoodLeft, GoodOut, GoodIn
  <1>. QED  BY <1>1, <1>4 DEF IInv

LEMMA OtherNakInv ==
    ASSUME IInv, NEW event \in {"underflow", "overflow"}, OtherNak(event) PROVE IInv'
  <1>0. dev \in DevType /\ Good(dev) /\ HostType
    BY DEF IInv, Good, GoodDev
  <1>1. dev.errors \cup {event} \in SUBSET {"underflow", "overflow"}
    BY <1>0 DEF DevType
  <1>2. Good(dev')
    BY <1>0, <1>1, EventFields, SameGood DEF OtherNak
  <1>. QED  BY <1>0, <1>2, DriverStep DEF OtherNak, IInv, HostType

\* What a token leaves in the record.
LEMMA InTokenFields ==
    ASSUME NEW d \in DevType
    PROVE  /\ d.in.stall => InToken(d) = d
           /\ ~d.in.stall =>
                LET e == InToken(d) IN
                /\ e \in DevType /\ Counted(e, d)
                /\ e.stage = d.stage /\ e.req = d.req /\ e.callback = d.callback
                /\ e.setup = d.setup
                /\ e.owed = d.owed /\ e.ran = d.ran /\ e.twice = d.twice
                /\ e.b_shortpacket = d.b_shortpacket /\ e.out = d.out
                /\ e.in.stall = d.in.stall /\ e.in.count = d.in.count /\ ~e.in.ready
                /\ IF d.in.ready
                   THEN e.done = d.done \cup {"in"} /\ e.in.nak = d.in.nak
                   ELSE e.done = d.done
  <1>0. d.in \in EndpointType
    BY DEF DevType
  <1>1. d.in.stall => InToken(d) = d
    BY DEF InToken
  <1>2. CASE ~d.in.stall /\ d.in.ready
    <2>. DEFINE e == [d EXCEPT !.in = [@ EXCEPT !.ready = FALSE], !.done = @ \cup {"in"}]
    <2>1. [d.in EXCEPT !.ready = FALSE] \in EndpointType
      BY <1>0, EndpointTypes
    <2>2. d.done \cup {"in"} \in SUBSET {"in", "out"}
      BY DEF DevType
    <2>3. e \in DevType
      BY <2>1, <2>2 DEF DevType
    <2>4. e.in = [d.in EXCEPT !.ready = FALSE] /\ e.done = d.done \cup {"in"}
      BY DEF DevType
    <2>5. /\ Counted(e, d)
          /\ e.stage = d.stage /\ e.req = d.req /\ e.callback = d.callback
          /\ e.setup = d.setup
          /\ e.owed = d.owed /\ e.ran = d.ran /\ e.twice = d.twice
          /\ e.b_shortpacket = d.b_shortpacket /\ e.out = d.out
      BY DEF DevType, Counted
    <2>6. /\ e.in.stall = d.in.stall /\ e.in.count = d.in.count /\ ~e.in.ready
          /\ e.in.nak = d.in.nak
      BY <1>0, <2>4 DEF EndpointType
    <2>7. InToken(d) = e
      BY <1>2, Zenon DEF InToken
    <2>. HIDE DEF e
    <2>. QED  BY <1>2, <2>3, <2>4, <2>5, <2>6, <2>7
  <1>3. CASE ~d.in.stall /\ ~d.in.ready
    <2>. DEFINE e == [d EXCEPT !.in = [@ EXCEPT !.nak = TRUE],
                               !.errors = @ \cup {"underflow"}]
    <2>1. [d.in EXCEPT !.nak = TRUE] \in EndpointType
      BY <1>0, EndpointTypes
    <2>2. d.errors \cup {"underflow"} \in SUBSET {"underflow", "overflow"}
      BY DEF DevType
    <2>3. e \in DevType
      BY <2>1, <2>2 DEF DevType
    <2>4. e.in = [d.in EXCEPT !.nak = TRUE] /\ e.done = d.done
      BY DEF DevType
    <2>5. /\ Counted(e, d)
          /\ e.stage = d.stage /\ e.req = d.req /\ e.callback = d.callback
          /\ e.setup = d.setup
          /\ e.owed = d.owed /\ e.ran = d.ran /\ e.twice = d.twice
          /\ e.b_shortpacket = d.b_shortpacket /\ e.out = d.out
      BY DEF DevType, Counted
    <2>6. e.in.stall = d.in.stall /\ e.in.count = d.in.count /\ e.in.ready = d.in.ready
      BY <1>0, <2>4 DEF EndpointType
    <2>7. InToken(d) = e
      BY <1>3, Zenon DEF InToken
    <2>. HIDE DEF e
    <2>. QED  BY <1>3, <2>3, <2>4, <2>5, <2>6, <2>7
  <1>. QED  BY <1>1, <1>2, <1>3

LEMMA OutTokenFields ==
    ASSUME NEW d \in DevType, NEW n \in 0 .. EpSize
    PROVE  /\ d.out.stall => OutToken(d, n) = d
           /\ ~d.out.stall =>
                LET e == OutToken(d, n) IN
                /\ e \in DevType /\ Counted(e, d)
                /\ e.stage = d.stage /\ e.req = d.req /\ e.callback = d.callback
                /\ e.setup = d.setup
                /\ e.owed = d.owed /\ e.ran = d.ran /\ e.twice = d.twice
                /\ e.b_shortpacket = d.b_shortpacket /\ e.in = d.in
                /\ e.out.stall = d.out.stall /\ ~e.out.ready
                /\ IF d.out.ready
                   THEN /\ e.done = d.done \cup {"out"} /\ e.out.nak = d.out.nak
                        /\ e.out.count = n
                   ELSE e.done = d.done /\ e.out.count = d.out.count
  <1>0. d.out \in EndpointType
    BY DEF DevType
  <1>1. d.out.stall => OutToken(d, n) = d
    BY DEF OutToken
  <1>2. CASE ~d.out.stall /\ d.out.ready
    <2>. DEFINE e == [d EXCEPT !.out = [@ EXCEPT !.ready = FALSE, !.count = n],
                               !.buffer = "data", !.done = @ \cup {"out"}]
    <2>1. [d.out EXCEPT !.ready = FALSE, !.count = n] \in EndpointType
      BY <1>0, EndpointCounts
    <2>2. d.done \cup {"out"} \in SUBSET {"in", "out"}
      BY DEF DevType
    <2>3. e \in DevType
      BY <2>1, <2>2 DEF DevType
    <2>4. e.out = [d.out EXCEPT !.ready = FALSE, !.count = n] /\ e.done = d.done \cup {"out"}
      BY DEF DevType
    <2>5. /\ Counted(e, d)
          /\ e.stage = d.stage /\ e.req = d.req /\ e.callback = d.callback
          /\ e.setup = d.setup
          /\ e.owed = d.owed /\ e.ran = d.ran /\ e.twice = d.twice
          /\ e.b_shortpacket = d.b_shortpacket /\ e.in = d.in
      BY DEF DevType, Counted
    <2>6. /\ e.out.stall = d.out.stall /\ e.out.count = n /\ ~e.out.ready
          /\ e.out.nak = d.out.nak
      BY <1>0, <2>4 DEF EndpointType
    <2>7. OutToken(d, n) = e
      BY <1>2, Zenon DEF OutToken
    <2>. HIDE DEF e
    <2>. QED  BY <1>2, <2>3, <2>4, <2>5, <2>6, <2>7
  <1>3. CASE ~d.out.stall /\ ~d.out.ready
    <2>. DEFINE e == [d EXCEPT !.out = [@ EXCEPT !.nak = TRUE],
                               !.errors = @ \cup {"overflow"}]
    <2>1. [d.out EXCEPT !.nak = TRUE] \in EndpointType
      BY <1>0, EndpointTypes
    <2>2. d.errors \cup {"overflow"} \in SUBSET {"underflow", "overflow"}
      BY DEF DevType
    <2>3. e \in DevType
      BY <2>1, <2>2 DEF DevType
    <2>4. e.out = [d.out EXCEPT !.nak = TRUE] /\ e.done = d.done
      BY DEF DevType
    <2>5. /\ Counted(e, d)
          /\ e.stage = d.stage /\ e.req = d.req /\ e.callback = d.callback
          /\ e.setup = d.setup
          /\ e.owed = d.owed /\ e.ran = d.ran /\ e.twice = d.twice
          /\ e.b_shortpacket = d.b_shortpacket /\ e.in = d.in
      BY DEF DevType, Counted
    <2>6. e.out.stall = d.out.stall /\ e.out.count = d.out.count /\ e.out.ready = d.out.ready
      BY <1>0, <2>4 DEF EndpointType
    <2>7. OutToken(d, n) = e
      BY <1>3, Zenon DEF OutToken
    <2>. HIDE DEF e
    <2>. QED  BY <1>3, <2>3, <2>4, <2>5, <2>6, <2>7
  <1>. QED  BY <1>1, <1>2, <1>3

LEMMA SetupTokenFields ==
    ASSUME NEW d \in DevType, NEW hidden \in BOOLEAN
    PROVE  LET e == SetupToken(d, hidden) IN
           /\ e \in DevType /\ e.setup
           /\ e.stage = d.stage /\ e.req = d.req /\ e.callback = d.callback
           /\ Counted(e, d)
           /\ e.owed = d.owed /\ e.ran = d.ran /\ e.twice = d.twice
           /\ e.done \subseteq d.done
           /\ ~e.in.ready /\ ~e.in.stall /\ e.in.nak = d.in.nak
           /\ ~e.out.ready /\ ~e.out.stall /\ e.out.nak = d.out.nak
  <1>. DEFINE s == IF hidden THEN {} ELSE d.done
              e == [d EXCEPT !.setup = TRUE,
                             !.in = [@ EXCEPT !.ready = FALSE, !.stall = FALSE],
                             !.out = [@ EXCEPT !.ready = FALSE, !.stall = FALSE,
                                               !.count = EpSize],
                             !.buffer = "setup",
                             !.done = s]
  <1>0. d.in \in EndpointType /\ d.out \in EndpointType /\ EpSize \in 0 .. EpSize
    BY Sizes DEF DevType
  <1>1. /\ [d.in EXCEPT !.ready = FALSE, !.stall = FALSE] \in EndpointType
        /\ [d.out EXCEPT !.ready = FALSE, !.stall = FALSE, !.count = EpSize]
              \in EndpointType
    BY <1>0, EndpointTypes, EndpointCounts
  <1>2. s \in SUBSET {"in", "out"} /\ s \subseteq d.done
    BY DEF DevType
  <1>3. SetupToken(d, hidden) = e
    BY Zenon DEF SetupToken
  <1>. HIDE DEF s
  <1>4. e \in DevType
    BY <1>1, <1>2 DEF DevType
  <1>5. /\ e.in = [d.in EXCEPT !.ready = FALSE, !.stall = FALSE]
        /\ e.out = [d.out EXCEPT !.ready = FALSE, !.stall = FALSE, !.count = EpSize]
        /\ e.done = s /\ e.setup
        /\ e.stage = d.stage /\ e.req = d.req /\ e.callback = d.callback
        /\ Counted(e, d)
        /\ e.owed = d.owed /\ e.ran = d.ran /\ e.twice = d.twice
    BY DEF DevType, Counted
  <1>. HIDE DEF e
  <1>6. /\ ~e.in.ready /\ ~e.in.stall /\ e.in.nak = d.in.nak
        /\ ~e.out.ready /\ ~e.out.stall /\ e.out.nak = d.out.nak
    BY <1>0, <1>5 DEF EndpointType
  <1>. QED  BY <1>2, <1>3, <1>4, <1>5, <1>6

LEMMA HostSetupInv == ASSUME IInv, NEW r \in Requests, HostSetup(r) PROVE IInv'
  <1>0. dev \in DevType /\ Good(dev) /\ HostType
    BY DEF IInv, Good, GoodDev
  <1>1. PICK hidden \in BOOLEAN : dev' = SetupToken(dev, hidden)
    BY DEF HostSetup
  <1>2. /\ dev' \in DevType /\ dev'.setup
        /\ dev'.stage = dev.stage /\ dev'.req = dev.req /\ dev'.callback = dev.callback
        /\ Counted(dev', dev)
        /\ dev'.owed = dev.owed /\ dev'.ran = dev.ran /\ dev'.twice = dev.twice
        /\ dev'.done \subseteq dev.done
        /\ ~dev'.in.ready /\ ~dev'.in.stall /\ dev'.in.nak = dev.in.nak
        /\ ~dev'.out.ready /\ ~dev'.out.stall /\ dev'.out.nak = dev.out.nak
    BY <1>0, <1>1, SetupTokenFields
  <1>3. /\ hstage' = IF r.in \/ r.wLength > 0 THEN "data" ELSE "status"
        /\ hreq' = r /\ hcount' = 0 /\ order' = "kept" /\ failed' = FALSE
        /\ hostAddress' = hostAddress /\ running' = running
        /\ hstage = "idle" \/ (dev.done = {} /\ ~dev.setup)
    BY DEF HostSetup, Quiet
  <1>4. r.wLength \in Nat /\ r.in \in BOOLEAN
    BY RequestFields DEF ControlRequest
  <1>5. HostType'
    BY <1>0, <1>3, <1>4 DEF HostType
  <1>6. ~dev.setup
    BY <1>0, <1>3 DEF Good, GoodSetup
  <1>7. GoodDev(dev)'
    BY <1>0, <1>2 DEF Good, GoodDev, Counted, Moves, Waits
  <1>8. GoodCallback(dev)'
    BY <1>0, <1>2 DEF Good, GoodCallback, Waits
  <1>9. GoodSetup(dev)'
    <2>1. dev'.done # {} => dev'.stage \in Waits
      <3>. SUFFICES ASSUME dev'.done # {} PROVE dev'.stage \in Waits
        OBVIOUS
      <3>1. dev.done # {} /\ hstage = "idle"
        BY <1>2, <1>3
      <3>2. dev.stage \notin {"SETUP", "STALL_REQ"} /\ dev.stage \notin Moves
        BY <1>0, <1>6, <3>1 DEF Good, GoodDev, SameRequest
      <3>. QED  BY <1>0, <1>2, <3>2 DEF DevType, Stages, Moves, Waits
    <2>. QED  BY <1>2, <1>3, <1>4, <2>1 DEF GoodSetup
  <1>10. GoodNaks(dev)'
    BY <1>0, <1>2, <1>3, <1>6 DEF Good, SameRequest, GoodNaks
  <1>11. SameRequest(dev)' /\ GoodLeft(dev)' /\ GoodOut(dev)' /\ GoodIn(dev)'
    BY <1>2 DEF SameRequest, GoodLeft, GoodOut, GoodIn
  <1>. QED  BY <1>5, <1>7, <1>8, <1>9, <1>10, <1>11 DEF IInv, Good

\* A host that is answered with STALL gives up.
LEMMA RefusedInv ==
    ASSUME IInv, dev.in.stall, hstage # "idle", hstage' = "idle", dev' = dev,
           running' = running, hreq' = hreq, hcount' = hcount,
           hostAddress' = hostAddress,
           order' \in {"kept", "stopped", "exceeded"}, failed' \in BOOLEAN
    PROVE  IInv'
  <1>0. Good(dev) /\ HostType
    BY DEF IInv
  <1>1. HostType'
    BY <1>0 DEF HostType
  <1>2. ~dev.setup /\ dev.stage \notin {"SETUP"} /\ dev.stage \notin Moves
    BY <1>0 DEF Good, GoodDev, GoodSetup, SameRequest
  <1>3. GoodDev(dev)' /\ GoodCallback(dev)'
    BY <1>0 DEF Good, GoodDev, GoodCallback, Waits
  <1>4. GoodSetup(dev)' /\ SameRequest(dev)'
    BY <1>0, <1>2 DEF Good, GoodSetup, SameRequest
  <1>5. GoodNaks(dev)' /\ GoodLeft(dev)' /\ GoodOut(dev)' /\ GoodIn(dev)'
    BY <1>2 DEF GoodNaks, GoodLeft, GoodOut, GoodIn, Moves
  <1>. QED  BY <1>1, <1>3, <1>4, <1>5 DEF IInv, Good

LEMMA HostReadsInv == ASSUME IInv, HostReads, running' = running PROVE IInv'
  <1>0. dev \in DevType /\ Good(dev) /\ HostType
    BY DEF IInv, Good, GoodDev
  <1>1. hstage = "data" /\ hreq.in
    BY DEF HostReads
  <1>2. CASE dev.in.stall
    BY <1>0, <1>1, <1>2, RefusedInv DEF HostReads, Refused, HostType
  <1>3. CASE ~dev.in.stall
    <2>1. /\ dev' = InToken(dev)
          /\ hcount' = IF dev.in.ready THEN hcount + dev.in.count ELSE hcount
          /\ hstage' = IF dev.in.ready
                          /\ (dev.in.count < EpSize \/ hcount' >= hreq.wLength)
                       THEN "status" ELSE "data"
          /\ hreq' = hreq /\ hostAddress' = hostAddress
          /\ order' = order /\ failed' = failed
      BY <1>1, <1>3 DEF HostReads
    <2>2. /\ dev' \in DevType /\ Counted(dev', dev)
          /\ dev'.stage = dev.stage /\ dev'.req = dev.req
          /\ dev'.callback = dev.callback /\ dev'.setup = dev.setup
          /\ dev'.owed = dev.owed /\ dev'.ran = dev.ran /\ dev'.twice = dev.twice
          /\ dev'.b_shortpacket = dev.b_shortpacket /\ dev'.out = dev.out
          /\ dev'.in.stall = dev.in.stall /\ dev'.in.count = dev.in.count
          /\ ~dev'.in.ready
          /\ IF dev.in.ready THEN dev'.done = dev.done \cup {"in"}
                             ELSE dev'.done = dev.done
      BY <1>0, <1>3, <2>1, InTokenFields
    <2>3. dev.in.count \in Nat /\ dev.in.count \in 0 .. EpSize /\ EpSize \in Nat
      BY <1>0, Sizes DEF DevType, EndpointType
    <2>4. dev.in.ready => ~dev.setup /\ dev.stage = "DATA_IN" /\ dev.done = {}
      BY <1>0, <1>1, <1>3 DEF Good, GoodDev, GoodSetup, SameRequest, GoodLeft, GoodIn,
                              DevType, Stages
    <2>5. HostType'
      BY <1>0, <1>1, <2>1, <2>3 DEF HostType
    <2>6. GoodDev(dev)'
      BY <1>0, <1>3, <2>2, <2>4 DEF Good, GoodDev, Counted, Moves, Waits
    <2>7. GoodCallback(dev)'
      BY <1>0, <2>2 DEF Good, GoodCallback, Waits
    <2>8. GoodSetup(dev)'
      BY <1>0, <1>1, <2>1, <2>2, <2>4 DEF Good, GoodSetup
    <2>9. SameRequest(dev)'
      BY <1>0, <1>1, <2>1, <2>2, <2>4 DEF Good, SameRequest, Moves, Waits
    <2>10. GoodNaks(dev)'
      BY <1>0, <1>1, <2>1, <2>2 DEF Good, GoodNaks
    <2>11. GoodLeft(dev)'
      BY <1>0, <1>1, <1>3, <2>1, <2>2, <2>4 DEF Good, GoodDev, GoodLeft, SameRequest
    <2>12. GoodOut(dev)'
      BY <1>0, <1>1, <2>2 DEF Good, GoodDev, GoodOut, SameRequest
    <2>13. GoodIn(dev)'
      <3>. SUFFICES ASSUME ~dev.setup, dev.stage = "DATA_IN" PROVE GoodIn(dev)'
        BY <2>2 DEF GoodIn
      <3>1. /\ dev.in.ready <=> dev.done = {}
            /\ dev.b_shortpacket <=> dev.in.count < EpSize
            /\ dev.b_shortpacket => dev.nb_trans = dev.payload_size
            /\ dev.prev_nb_trans = 0 \/ dev.b_shortpacket
            /\ dev.nb_trans = IF dev.done = {} THEN hcount + dev.in.count ELSE hcount
            /\ dev.req = hreq
        BY <1>0, <1>1 DEF Good, GoodIn, SameRequest
      <3>. QED  BY <1>0, <1>1, <2>1, <2>2, <2>3, <3>1 DEF GoodIn, Counted
    <2>. QED  BY <2>5, <2>6, <2>7, <2>8, <2>9, <2>10, <2>11, <2>12, <2>13 DEF IInv, Good
  <1>. QED  BY <1>2, <1>3

LEMMA HostWritesInv == ASSUME IInv, HostWrites, running' = running PROVE IInv'
  <1>0. dev \in DevType /\ Good(dev) /\ HostType
    BY DEF IInv, Good, GoodDev
  <1>1. hstage = "data" /\ ~hreq.in
    BY DEF HostWrites
  <1>2. CASE dev.out.stall
    BY <1>0, <1>1, <1>2, RefusedInv DEF HostWrites, Refused, HostType, Good, GoodDev
  <1>3. CASE ~dev.out.stall
    <2>. DEFINE n == Lesser(EpSize, hreq.wLength - hcount)
    <2>1. /\ dev' = OutToken(dev, n)
          /\ hcount' = IF dev.out.ready THEN hcount + n ELSE hcount
          /\ hstage' = IF hcount' = hreq.wLength THEN "status" ELSE "data"
          /\ hreq' = hreq /\ hostAddress' = hostAddress
          /\ order' = order /\ failed' = failed
      BY <1>1, <1>3 DEF HostWrites
    <2>2. hreq.wLength \in Nat /\ hcount \in Nat /\ hcount < hreq.wLength
      BY <1>0, <1>1, RequestFields DEF HostType, ControlRequest
    <2>3. n \in 0 .. EpSize /\ n \in Nat /\ n <= hreq.wLength - hcount
      BY <2>2, Sizes DEF Lesser
    <2>. HIDE DEF n
    <2>4. /\ dev' \in DevType /\ Counted(dev', dev)
          /\ dev'.stage = dev.stage /\ dev'.req = dev.req
          /\ dev'.callback = dev.callback /\ dev'.setup = dev.setup
          /\ dev'.owed = dev.owed /\ dev'.ran = dev.ran /\ dev'.twice = dev.twice
          /\ dev'.b_shortpacket = dev.b_shortpacket /\ dev'.in = dev.in
          /\ dev'.out.stall = dev.out.stall /\ ~dev'.out.ready
          /\ IF dev.out.ready
             THEN dev'.done = dev.done \cup {"out"} /\ dev'.out.count = n
             ELSE dev'.done = dev.done /\ dev'.out.count = dev.out.count
      BY <1>0, <1>3, <2>1, <2>3, OutTokenFields
    <2>5. dev.out.ready => ~dev.setup /\ dev.stage = "DATA_OUT" /\ dev.done = {}
      BY <1>0, <1>1, <1>3 DEF Good, GoodDev, GoodSetup, SameRequest, GoodLeft, GoodOut,
                              DevType, Stages
    <2>6. hcount' \in Nat /\ hcount' <= hreq.wLength
      BY <2>1, <2>2, <2>3
    <2>7. HostType'
      BY <1>0, <1>1, <2>1, <2>2, <2>6 DEF HostType
    <2>8. GoodDev(dev)'
      BY <1>0, <1>3, <2>4, <2>5 DEF Good, GoodDev, Counted, Moves, Waits
    <2>9. GoodCallback(dev)'
      BY <1>0, <2>4 DEF Good, GoodCallback, Waits
    <2>10. GoodSetup(dev)'
      BY <1>0, <1>1, <2>1, <2>2, <2>4, <2>5 DEF Good, GoodSetup
    <2>11. SameRequest(dev)'
      BY <1>0, <1>1, <2>1, <2>4, <2>5 DEF Good, GoodDev, SameRequest, Moves, Waits
    <2>12. GoodNaks(dev)'
      BY <1>0, <1>1, <2>1, <2>4 DEF Good, GoodNaks
    <2>13. GoodLeft(dev)'
      BY <1>0, <1>1, <1>3, <2>1, <2>4, <2>5 DEF Good, GoodDev, GoodLeft, SameRequest
    <2>14. GoodOut(dev)'
      <3>. SUFFICES ASSUME ~dev.setup, dev.stage = "DATA_OUT" PROVE GoodOut(dev)'
        BY <2>4 DEF GoodOut
      <3>1. dev.prev_nb_trans = 0 /\ dev.req = hreq /\ dev.nb_trans \in Nat
        BY <1>0, <1>1 DEF Good, GoodOut, SameRequest, DevType
      <3>2. CASE dev.out.ready
        <4>1. dev.done = {} /\ dev.nb_trans = hcount
          BY <1>0, <3>2 DEF Good, GoodOut
        <4>2. dev'.done = {"out"} /\ dev'.out.count = n /\ hcount' = hcount + n
          BY <2>1, <2>4, <3>2, <4>1
        <4>. QED
          BY <2>1, <2>2, <2>3, <2>4, <2>6, <3>1, <4>1, <4>2 DEF GoodOut, Counted
      <3>3. CASE ~dev.out.ready
        <4>1. dev.done # {} /\ dev.nb_trans + dev.out.count = hcount
          BY <1>0, <3>3 DEF Good, GoodOut
        <4>2. dev'.done = dev.done /\ dev'.out.count = dev.out.count /\ hcount' = hcount
          BY <2>1, <2>4, <3>3
        <4>. QED
          BY <2>1, <2>2, <2>4, <3>1, <4>1, <4>2 DEF GoodOut, Counted
      <3>. QED  BY <3>2, <3>3
    <2>15. GoodIn(dev)'
      BY <1>0, <1>1, <2>4 DEF Good, GoodDev, GoodIn, SameRequest
    <2>. QED
      BY <2>7, <2>8, <2>9, <2>10, <2>11, <2>12, <2>13, <2>14, <2>15 DEF IInv, Good
  <1>. QED  BY <1>2, <1>3

LEMMA OwedFields ==
    ASSUME NEW d \in DevType, NEW b \in BOOLEAN
    PROVE  LET e == [d EXCEPT !.owed = b] IN
           /\ e \in DevType /\ Counted(e, d) /\ e.owed = b
           /\ e.stage = d.stage /\ e.req = d.req /\ e.callback = d.callback
           /\ e.setup = d.setup /\ e.done = d.done /\ e.in = d.in /\ e.out = d.out
           /\ e.ran = d.ran /\ e.twice = d.twice
  BY DEF DevType, Counted

\* The host saw the end of a request: the device waits for it.
LEMMA AcknowledgedInv ==
    ASSUME IInv, NEW d \in DevType, Acknowledged(d), running' = running,
           ~dev.setup, ~d.setup, dev.stage \in Waits,
           Counted(d, dev), d.stage = dev.stage, d.req = dev.req,
           d.callback = dev.callback, d.ran = dev.ran, d.twice = dev.twice,
           ~d.in.stall, ~d.out.stall,
           d.done = dev.done \cup {IF dev.req.in THEN "out" ELSE "in"}
    PROVE  IInv'
  <1>0. dev \in DevType /\ Good(dev) /\ HostType
    BY DEF IInv, Good, GoodDev
  <1>. DEFINE b == d.callback # "none"
  <1>1. b \in BOOLEAN /\ (b => d.callback # "none")
    OBVIOUS
  <1>2. dev' = [d EXCEPT !.owed = b]
    BY Zenon DEF Acknowledged
  <1>. HIDE DEF b
  <1>3. /\ dev' \in DevType /\ Counted(dev', d) /\ dev'.owed = b
        /\ dev'.stage = d.stage /\ dev'.req = d.req /\ dev'.callback = d.callback
        /\ dev'.setup = d.setup /\ dev'.done = d.done
        /\ dev'.in = d.in /\ dev'.out = d.out
        /\ dev'.ran = d.ran /\ dev'.twice = d.twice
    BY <1>1, <1>2, OwedFields
  <1>4. dev'.owed => dev'.callback # "none"
    BY <1>1, <1>3
  <1>5. /\ hstage' = "idle" /\ hreq' = hreq /\ hcount' = hcount
        /\ order' = order /\ failed' = failed
        /\ hostAddress' = IF hreq.effect = "address" THEN hreq.value ELSE hostAddress
    BY DEF Acknowledged
  <1>6. HostType'
    <2>1. hreq.value \in Nat
      BY <1>0, RequestFields DEF HostType, ControlRequest, NoRequest
    <2>. QED  BY <1>0, <1>5, <2>1 DEF HostType
  <1>7. GoodDev(dev)'
    BY <1>0, <1>3 DEF Good, GoodDev, Counted, Moves, Waits
  <1>8. GoodCallback(dev)'
    BY <1>0, <1>3, <1>4 DEF Good, GoodCallback, Waits
  <1>9. GoodSetup(dev)'
    BY <1>3 DEF GoodSetup
  <1>10. SameRequest(dev)'
    BY <1>3, <1>5 DEF SameRequest, Moves, Waits
  <1>11. GoodNaks(dev)' /\ GoodLeft(dev)' /\ GoodOut(dev)' /\ GoodIn(dev)'
    BY <1>3, <1>5 DEF GoodNaks, GoodLeft, GoodOut, GoodIn, Waits
  <1>. QED  BY <1>6, <1>7, <1>8, <1>9, <1>10, <1>11 DEF IInv, Good

\* A token that was not accepted in the status stage changes a flag at most.
LEMMA NakedInv ==
    ASSUME IInv, hstage = "status", hstage' = "status", dev' \in DevType,
           Counted(dev', dev),
           dev'.stage = dev.stage, dev'.req = dev.req, dev'.callback = dev.callback,
           dev'.setup = dev.setup, dev'.done = dev.done,
           dev'.owed = dev.owed, dev'.ran = dev.ran, dev'.twice = dev.twice,
           dev'.b_shortpacket = dev.b_shortpacket,
           dev'.in.stall = dev.in.stall, dev'.in.ready = dev.in.ready,
           dev'.in.count = dev.in.count,
           dev'.out.stall = dev.out.stall, dev'.out.ready = dev.out.ready,
           dev'.out.count = dev.out.count,
           running' = running, hreq' = hreq, hcount' = hcount,
           hostAddress' = hostAddress, failed' = failed,
           \/ order' = order
           \/ /\ order # "stopped" /\ order' = "exceeded"
    PROVE  IInv'
  <1>0. dev \in DevType /\ Good(dev) /\ HostType
    BY DEF IInv, Good, GoodDev
  <1>1. HostType'
    BY <1>0 DEF HostType
  <1>2. GoodDev(dev)'
    BY <1>0 DEF Good, GoodDev, Counted, Moves, Waits
  <1>3. GoodCallback(dev)'
    BY <1>0 DEF Good, GoodCallback, Waits
  <1>4. GoodSetup(dev)'
    BY <1>0 DEF Good, GoodSetup
  <1>5. SameRequest(dev)'
    BY <1>0 DEF Good, SameRequest
  <1>6. GoodNaks(dev)'
    BY DEF GoodNaks
  <1>7. GoodLeft(dev)'
    BY <1>0 DEF Good, GoodLeft
  <1>8. GoodOut(dev)'
    BY <1>0 DEF Good, GoodOut, Counted
  <1>9. GoodIn(dev)'
    BY <1>0 DEF Good, GoodIn, Counted
  <1>. QED  BY <1>1, <1>2, <1>3, <1>4, <1>5, <1>6, <1>7, <1>8, <1>9 DEF IInv, Good

LEMMA HostConfirmsInv == ASSUME IInv, HostConfirms, running' = running PROVE IInv'
  <1>0. /\ dev \in DevType /\ Good(dev) /\ HostType /\ hstage = "status"
        /\ 0 \in 0 .. EpSize
    BY Sizes DEF IInv, Good, GoodDev, HostConfirms
  <1>1. CASE hreq.in
    <2>1. CASE dev.out.stall
      BY <1>0, <1>1, <2>1, RefusedInv DEF HostConfirms, Refused, HostType, Good, GoodDev
    <2>2. CASE ~dev.out.stall /\ dev.out.ready
      <3>. DEFINE d == OutToken(dev, 0)
      <3>1. Acknowledged(d)
        BY <1>0, <1>1, <2>2 DEF HostConfirms
      <3>2. /\ d \in DevType /\ Counted(d, dev)
            /\ d.stage = dev.stage /\ d.req = dev.req /\ d.callback = dev.callback
            /\ d.setup = dev.setup /\ d.ran = dev.ran /\ d.twice = dev.twice
            /\ d.in = dev.in /\ d.out.stall = dev.out.stall
            /\ d.done = dev.done \cup {"out"}
        BY <1>0, <2>2, OutTokenFields
      <3>. HIDE DEF d
      <3>3. ~dev.setup
        BY <1>0, <2>2 DEF Good, GoodSetup
      <3>4. dev.req.in /\ dev.stage \in Waits
        BY <1>0, <1>1, <2>2, <3>3 DEF Good, GoodDev, SameRequest, DevType, Stages,
                                      Moves, Waits
      <3>5. ~dev.in.stall
        BY <1>0, <2>2 DEF Good, GoodDev
      <3>. QED  BY <2>2, <3>1, <3>2, <3>3, <3>4, <3>5, AcknowledgedInv
    <2>3. CASE ~dev.out.stall /\ ~dev.out.ready
      <3>1. dev' = OutToken(dev, 0) /\ UNCHANGED host
        BY <1>0, <1>1, <2>3 DEF HostConfirms
      <3>2. /\ dev' \in DevType /\ Counted(dev', dev)
            /\ dev'.stage = dev.stage /\ dev'.req = dev.req
            /\ dev'.callback = dev.callback
            /\ dev'.setup = dev.setup /\ dev'.done = dev.done
            /\ dev'.owed = dev.owed /\ dev'.ran = dev.ran /\ dev'.twice = dev.twice
            /\ dev'.b_shortpacket = dev.b_shortpacket /\ dev'.in = dev.in
            /\ dev'.out.stall = dev.out.stall /\ ~dev'.out.ready
            /\ dev'.out.count = dev.out.count
        BY <1>0, <2>3, <3>1, OutTokenFields
      <3>3. dev'.out.ready = dev.out.ready
        <4>1. dev.out.ready \in BOOLEAN /\ dev'.out.ready \in BOOLEAN
          BY <1>0, <3>2 DEF DevType, EndpointType
        <4>. QED  BY <2>3, <3>2, <4>1
      <3>. QED  BY <1>0, <3>1, <3>2, <3>3, NakedInv DEF host
    <2>. QED  BY <2>1, <2>2, <2>3
  <1>2. CASE ~hreq.in
    <2>1. CASE dev.in.stall
      BY <1>0, <1>2, <2>1, RefusedInv DEF HostConfirms, Refused, HostType
    <2>2. CASE ~dev.in.stall /\ dev.in.ready
      <3>. DEFINE d == InToken(dev)
      <3>1. Acknowledged(d)
        BY <1>0, <1>2, <2>2 DEF HostConfirms
      <3>2. /\ d \in DevType /\ Counted(d, dev)
            /\ d.stage = dev.stage /\ d.req = dev.req /\ d.callback = dev.callback
            /\ d.setup = dev.setup /\ d.ran = dev.ran /\ d.twice = dev.twice
            /\ d.out = dev.out /\ d.in.stall = dev.in.stall
            /\ d.done = dev.done \cup {"in"}
        BY <1>0, <2>2, InTokenFields
      <3>. HIDE DEF d
      <3>3. ~dev.setup
        BY <1>0, <2>2 DEF Good, GoodSetup
      <3>4. ~dev.req.in /\ dev.stage \in Waits
        BY <1>0, <1>2, <2>2, <3>3 DEF Good, GoodDev, SameRequest, DevType, Stages,
                                      Moves, Waits
      <3>5. ~dev.out.stall
        BY <1>0, <2>2 DEF Good, GoodDev
      <3>. QED  BY <2>2, <3>1, <3>2, <3>3, <3>4, <3>5, AcknowledgedInv
    <2>3. CASE ~dev.in.stall /\ ~dev.in.ready
      <3>1. dev' = InToken(dev) /\ UNCHANGED host
        BY <1>0, <1>2, <2>3 DEF HostConfirms
      <3>2. /\ dev' \in DevType /\ Counted(dev', dev)
            /\ dev'.stage = dev.stage /\ dev'.req = dev.req
            /\ dev'.callback = dev.callback
            /\ dev'.setup = dev.setup /\ dev'.done = dev.done
            /\ dev'.owed = dev.owed /\ dev'.ran = dev.ran /\ dev'.twice = dev.twice
            /\ dev'.b_shortpacket = dev.b_shortpacket /\ dev'.out = dev.out
            /\ dev'.in.stall = dev.in.stall /\ dev'.in.count = dev.in.count
            /\ ~dev'.in.ready
        BY <1>0, <2>3, <3>1, InTokenFields
      <3>3. dev'.in.ready = dev.in.ready
        <4>1. dev.in.ready \in BOOLEAN /\ dev'.in.ready \in BOOLEAN
          BY <1>0, <3>2 DEF DevType, EndpointType
        <4>. QED  BY <2>3, <3>2, <4>1
      <3>. QED  BY <1>0, <3>1, <3>2, <3>3, NakedInv DEF host
    <2>. QED  BY <2>1, <2>2, <2>3
  <1>. QED  BY <1>1, <1>2

LEMMA HostStopsInv == ASSUME IInv, HostStops PROVE IInv'
  <1>0. Good(dev) /\ HostType /\ hstage = "data"
    BY DEF IInv, HostStops
  <1>1. /\ hstage' = "status" /\ order' = "stopped" /\ dev' = dev
        /\ running' = running /\ hreq' = hreq /\ hcount' = hcount
        /\ hostAddress' = hostAddress /\ failed' = failed
    BY DEF HostStops
  <1>2. HostType'
    BY <1>0, <1>1 DEF HostType
  <1>3. GoodDev(dev)' /\ GoodCallback(dev)'
    BY <1>0, <1>1 DEF Good, GoodDev, GoodCallback
  <1>4. GoodSetup(dev)' /\ SameRequest(dev)'
    BY <1>0, <1>1 DEF Good, GoodSetup, SameRequest
  <1>5. GoodNaks(dev)' /\ GoodLeft(dev)'
    BY <1>1 DEF GoodNaks, GoodLeft
  <1>6. GoodOut(dev)' /\ GoodIn(dev)'
    BY <1>0, <1>1 DEF Good, GoodOut, GoodIn
  <1>. QED  BY <1>2, <1>3, <1>4, <1>5, <1>6 DEF IInv, Good

LEMMA HostAsksMoreInv == ASSUME IInv, HostAsksMore PROVE IInv'
  <1>0. /\ dev \in DevType /\ Good(dev) /\ HostType
        /\ hstage = "status" /\ order # "stopped" /\ EpSize \in 0 .. EpSize
    BY Sizes DEF IInv, Good, GoodDev, HostAsksMore
  <1>1. /\ order' = "exceeded" /\ running' = running /\ hreq' = hreq
        /\ hcount' = hcount /\ hostAddress' = hostAddress /\ failed' = failed
    BY DEF HostAsksMore
  <1>2. CASE hreq.in
    <2>1. /\ dev' = InToken(dev)
          /\ hstage' = IF dev.in.stall THEN "idle" ELSE hstage
      BY <1>2 DEF HostAsksMore
    <2>2. CASE dev.in.stall
      BY <1>0, <1>1, <2>1, <2>2, InTokenFields, RefusedInv DEF HostType
    <2>3. CASE ~dev.in.stall
      <3>1. ~dev.in.ready
        BY <1>0, <1>2, <2>3 DEF Good, GoodDev, GoodSetup, SameRequest, GoodLeft, GoodIn,
                                DevType, Stages
      <3>2. /\ dev' \in DevType /\ Counted(dev', dev)
            /\ dev'.stage = dev.stage /\ dev'.req = dev.req
            /\ dev'.callback = dev.callback
            /\ dev'.setup = dev.setup /\ dev'.done = dev.done
            /\ dev'.owed = dev.owed /\ dev'.ran = dev.ran /\ dev'.twice = dev.twice
            /\ dev'.b_shortpacket = dev.b_shortpacket /\ dev'.out = dev.out
            /\ dev'.in.stall = dev.in.stall /\ dev'.in.count = dev.in.count
            /\ ~dev'.in.ready
        BY <1>0, <2>1, <2>3, <3>1, InTokenFields
      <3>3. dev'.in.ready = dev.in.ready
        <4>1. dev.in.ready \in BOOLEAN /\ dev'.in.ready \in BOOLEAN
          BY <1>0, <3>2 DEF DevType, EndpointType
        <4>. QED  BY <3>1, <3>2, <4>1
      <3>. QED  BY <1>0, <1>1, <2>1, <2>3, <3>2, <3>3, NakedInv
    <2>. QED  BY <2>2, <2>3
  <1>3. CASE ~hreq.in
    <2>1. /\ dev' = OutToken(dev, EpSize)
          /\ hstage' = IF dev.out.stall THEN "idle" ELSE hstage
      BY <1>3 DEF HostAsksMore
    <2>2. CASE dev.out.stall
      <3>1. dev' = dev
        BY <1>0, <2>1, <2>2, OutTokenFields
      <3>2. dev.in.stall
        BY <1>0, <2>2 DEF Good, GoodDev
      <3>. QED  BY <1>0, <1>1, <2>1, <2>2, <3>1, <3>2, RefusedInv DEF HostType
    <2>3. CASE ~dev.out.stall
      <3>1. ~dev.out.ready
        BY <1>0, <1>3, <2>3 DEF Good, GoodDev, GoodSetup, SameRequest, GoodLeft, GoodOut,
                                DevType, Stages
      <3>2. /\ dev' \in DevType /\ Counted(dev', dev)
            /\ dev'.stage = dev.stage /\ dev'.req = dev.req
            /\ dev'.callback = dev.callback
            /\ dev'.setup = dev.setup /\ dev'.done = dev.done
            /\ dev'.owed = dev.owed /\ dev'.ran = dev.ran /\ dev'.twice = dev.twice
            /\ dev'.b_shortpacket = dev.b_shortpacket /\ dev'.in = dev.in
            /\ dev'.out.stall = dev.out.stall /\ ~dev'.out.ready
            /\ dev'.out.count = dev.out.count
        BY <1>0, <2>1, <2>3, <3>1, OutTokenFields
      <3>3. dev'.out.ready = dev.out.ready
        <4>1. dev.out.ready \in BOOLEAN /\ dev'.out.ready \in BOOLEAN
          BY <1>0, <3>2 DEF DevType, EndpointType
        <4>. QED  BY <3>1, <3>2, <4>1
      <3>. QED  BY <1>0, <1>1, <2>1, <2>3, <3>2, <3>3, NakedInv
    <2>. QED  BY <2>2, <2>3
  <1>. QED  BY <1>2, <1>3

LEMMA NextInv == ASSUME IInv, [Next]_vars PROVE IInv'
  <1>1. ASSUME NEW r \in Requests, HostSetup(r) PROVE IInv'
    BY <1>1, HostSetupInv
  <1>2. CASE HostToken
    BY <1>2, HostReadsInv, HostWritesInv, HostConfirmsInv DEF HostToken
  <1>3. CASE HostStops
    BY <1>3, HostStopsInv
  <1>4. CASE HostAsksMore
    BY <1>4, HostAsksMoreInv
  <1>5. ASSUME NEW event \in {"underflow", "overflow"}, OtherNak(event) PROVE IInv'
    BY <1>5, OtherNakInv
  <1>6. CASE Interrupt
    BY <1>6, InterruptInv
  <1>7. CASE Reset
    BY <1>7, ResetInv
  <1>8. CASE UNCHANGED vars
    <2>1. HostType'
      BY <1>8 DEF vars, host, IInv, HostType
    <2>2. Good(dev)'
      BY <1>8 DEF vars, host, IInv, Good, GoodDev, GoodCallback, GoodSetup, SameRequest,
                  GoodNaks, GoodLeft, GoodOut, GoodIn
    <2>. QED  BY <2>1, <2>2 DEF IInv
  <1>. QED  BY <1>1, <1>2, <1>3, <1>4, <1>5, <1>6, <1>7, <1>8 DEF Next

-----------------------------------------------------------------------------
(***************************************************************************)
(* The theorems.                                                           *)
(***************************************************************************)
\* Host and device stay in step: the stage, the buffers that are open, the
\* events that are pending and the bytes counted on both sides fit together,
\* whatever the interrupts and the tokens are interleaved like.
THEOREM InStep == Spec => []IInv
  <1>1. Init => IInv
    BY InitInv
  <1>2. IInv /\ [Next]_vars => IInv'
    BY NextInv
  <1>. QED  BY <1>1, <1>2, PTL DEF Spec

\* Endpoint 0 never reads or writes past the end of a payload: the unsigned
\* differences payload_size - nb_trans of udd_ctrl_in_sent and
\* udd_ctrl_out_received do not wrap around.
THEOREM TypeCorrect == Spec => []TypeOK
  <1>1. IInv => TypeOK
    BY DEF IInv, HostType, Good, GoodDev, TypeOK, Moves
  <1>. QED  BY <1>1, InStep, PTL

\* A request whose handshake the host has seen still gets its callback, also
\* if the next SETUP hides the event: udd_ctrl_setup_received finds the stage
\* of the wait and calls udd_ctrl_endofrequest.
THEOREM AcknowledgedTakesEffect == Spec => []AckedTakesEffect
  <1>1. IInv => AckedTakesEffect
    BY DEF IInv, Good, GoodCallback, AckedTakesEffect, Waits
  <1>. QED  BY <1>1, InStep, PTL

\* The callback of a request never runs twice, although three handlers may
\* end one.
THEOREM CallbackRunsOnce == Spec => []CallbackAtMostOnce
  <1>1. IInv => CallbackAtMostOnce
    BY DEF IInv, Good, GoodCallback, CallbackAtMostOnce
  <1>. QED  BY <1>1, InStep, PTL

-----------------------------------------------------------------------------
(***************************************************************************)
(* What endpoint 0 promises a host.  The data stage of an IN request is    *)
(* complete, for any host.  For a host that keeps to the stages, with no   *)
(* other endpoint that sets the error events, in addition: callbacks run   *)
(* for requests whose end the host saw, reports are whole, and requests    *)
(* that are known are served.                                              *)
(***************************************************************************)

(***************************************************************************)
(* The invariant.  The bytes that are counted in a data stage are counted  *)
(* against the payload of the request; IInv says that the host and the     *)
(* device count the same.                                                  *)
(***************************************************************************)
Own(d) == d.stage \in Moves => d.payload_size = d.req.payload

DInv == IInv /\ Own(dev) /\ DataComplete

-----------------------------------------------------------------------------
(***************************************************************************)
(* The handlers keep to the payload.                                       *)
(***************************************************************************)
LEMMA OwnSame ==
    ASSUME NEW d, NEW e, Own(d), e.stage = d.stage, e.req = d.req,
           e.payload_size = d.payload_size
    PROVE  Own(e)
  BY DEF Own

LEMMA OwnElsewhere == ASSUME NEW e, e.stage \notin Moves PROVE Own(e)
  BY DEF Own

LEMMA BegunType ==
    ASSUME NEW d \in DevType, HostType, Good(d), d.setup, d.done = {}
    PROVE  LET c == [d EXCEPT !.setup = FALSE]
               e == Begin(IF c.stage = "SETUP" THEN c ELSE Preempt(c), hreq)
           IN  /\ hreq \in Requests
               /\ e \in DevType /\ e.stage = "SETUP"
               /\ e.req = hreq /\ e.payload_size = hreq.payload
  <1>. DEFINE c == [d EXCEPT !.setup = FALSE]
              p == IF c.stage = "SETUP" THEN c ELSE Preempt(c)
  <1>1. hreq \in Requests
    BY DEF Good, GoodSetup, HostType
  <1>2. c \in DevType /\ Same(c, d) /\ ~c.setup /\ c.done = {}
    BY EventFields
  <1>3. p \in DevType /\ p.stage = "SETUP"
    <2>1. CASE c.stage = "SETUP"
      BY <1>2, <2>1
    <2>2. CASE c.stage # "SETUP"
      <3>1. /\ GoodCallback(c)
            /\ ~c.in.ready /\ ~c.out.ready /\ ~c.in.stall /\ ~c.out.stall
        BY <1>2 DEF Good, GoodDev, GoodSetup, GoodCallback, Same
      <3>2. c.req \in ControlRequest
        BY <1>2, RequestsTyped
      <3>. HIDE DEF c
      <3>3. Fresh(Preempt(c))
        BY <1>2, <3>1, <3>2, PreemptFresh
      <3>. QED  BY <2>2, <3>3 DEF Fresh
    <2>. QED  BY <2>1, <2>2
  <1>. HIDE DEF p
  <1>4. LET e == Begin(p, hreq) IN
        /\ e \in DevType /\ e.stage = "SETUP"
        /\ e.req = hreq /\ e.payload_size = hreq.payload
    BY <1>1, <1>3, BeginFields
  <1>. QED  BY <1>1, <1>4 DEF p

LEMMA InSentOwn ==
    ASSUME NEW d \in DevType, Own(d), d.nb_trans <= d.payload_size,
           d.stage = "DATA_IN"
    PROVE  Own(InSent(d))
  <1>. DEFINE remain == d.payload_size - d.nb_trans
              sent == d.prev_nb_trans + d.nb_trans
              e == IF remain = 0 THEN [d EXCEPT !.prev_nb_trans = sent] ELSE d
              n == Lesser(remain, EpSize)
  <1>1. remain \in Nat /\ sent \in Nat
    BY DEF DevType
  <1>2. /\ e \in DevType /\ e.stage = "DATA_IN" /\ e.req = d.req
        /\ e.payload_size = d.payload_size
    BY <1>1, PrevFields DEF Kept
  <1>3. n \in 0 .. EpSize
    BY <1>1, Sizes DEF Lesser
  <1>4. InSent(d) = IF remain = 0 /\ DataSent(d, sent) THEN SendZlpOut(e)
                    ELSE SendData(e, n)
    BY Zenon DEF InSent
  <1>. HIDE DEF e, n
  <1>5. SendZlpOut(e).stage = "WAIT_OUT_ZLP"
    BY <1>2, SendZlpOutFields
  <1>6. /\ SendData(e, n).stage = d.stage /\ SendData(e, n).req = d.req
        /\ SendData(e, n).payload_size = d.payload_size
    BY <1>2, <1>3, SendDataFields DEF Kept
  <1>. QED  BY <1>4, <1>5, <1>6 DEF Own, Moves

LEMMA OutReceivedOwn ==
    ASSUME NEW d \in DevType, Own(d), d.nb_trans <= d.payload_size,
           d.stage = "DATA_OUT"
    PROVE  Own(OutReceived(d))
  <1>. DEFINE n == Fitting(d)
              e == TakeData(d, n)
              p == [e EXCEPT !.payload_size = e.nb_trans]
  <1>1. n \in Nat
    BY DEF Fitting, Lesser, DevType, EndpointType
  <1>2. OutReceived(d) = IF DataReceived(e, n) THEN SendZlpIn(p)
                         ELSE IF e.payload_size = e.nb_trans THEN StallData(e)
                         ELSE AwaitMore(e)
    BY Zenon DEF OutReceived
  <1>. HIDE DEF n
  <1>3. /\ e \in DevType /\ e.stage = d.stage /\ e.req = d.req
        /\ e.payload_size = d.payload_size
    BY <1>1, TakeDataFields DEF Kept
  <1>. HIDE DEF e
  <1>4. p \in DevType
    BY <1>3, PayloadFields DEF DevType
  <1>. HIDE DEF p
  <1>5. SendZlpIn(p).stage = "WAIT_IN_ZLP" /\ StallData(e).stage = "STALL_REQ"
    BY <1>3, <1>4, SendZlpInFields, StallDataFields
  <1>6. /\ AwaitMore(e).stage = d.stage /\ AwaitMore(e).req = d.req
        /\ AwaitMore(e).payload_size = d.payload_size
    BY <1>3, AwaitMoreFields DEF Kept, Counted
  <1>. QED  BY <1>2, <1>5, <1>6 DEF Own, Moves

LEMMA SetupReceivedOwn ==
    ASSUME NEW d \in DevType, HostType, Good(d), d.setup, d.done = {}
    PROVE  Own(SetupReceived(d, hreq))
  <1>. DEFINE c == [d EXCEPT !.setup = FALSE]
              e == Begin(IF c.stage = "SETUP" THEN c ELSE Preempt(c), hreq)
              z == ResetCount(e)
              i == [z EXCEPT !.stage = "DATA_IN"]
              o == [z EXCEPT !.stage = "DATA_OUT"]
  <1>1. /\ hreq \in Requests /\ e \in DevType /\ e.stage = "SETUP"
        /\ e.req = hreq /\ e.payload_size = hreq.payload
    BY BegunType
  <1>2. SetupReceived(d, hreq) =
           IF ~hreq.known THEN StallData(e)
           ELSE IF hreq.in THEN InSent(i)
           ELSE IF hreq.wLength = 0 THEN SendZlpIn(e)
           ELSE AwaitMore(o)
    BY Zenon DEF SetupReceived
  <1>. HIDE DEF e
  <1>3. /\ z \in DevType /\ z.req = hreq /\ z.payload_size = hreq.payload
        /\ z.nb_trans = 0
    BY <1>1, ResetCountFields DEF Kept
  <1>. HIDE DEF z
  <1>4. /\ i \in DevType /\ i.stage = "DATA_IN" /\ i.req = hreq
        /\ i.payload_size = hreq.payload /\ i.nb_trans = 0
    BY <1>3, StageFields DEF Kept, Counted, Stages
  <1>5. /\ o \in DevType /\ o.stage = "DATA_OUT" /\ o.req = hreq
        /\ o.payload_size = hreq.payload
    BY <1>3, StageFields DEF Kept, Counted, Stages
  <1>. HIDE DEF i, o
  <1>6. Own(InSent(i))
    <2>1. i.nb_trans <= i.payload_size
      BY <1>4 DEF DevType
    <2>. QED  BY <1>4, <2>1, InSentOwn DEF Own
  <1>7. Own(AwaitMore(o))
    BY <1>5, AwaitMoreFields DEF Own, Kept, Counted
  <1>8. Own(StallData(e)) /\ Own(SendZlpIn(e))
    BY <1>1, StallDataFields, SendZlpInFields DEF Own, Moves
  <1>. QED  BY <1>2, <1>6, <1>7, <1>8

LEMMA EndOwn ==
    ASSUME NEW d \in DevType, GoodCallback(d)
    PROVE  Own(CtrlInit(EndOfRequest(d)))
  <1>1. EndOfRequest(d) \in DevType
    BY RequestsTyped, EndOfRequestFields
  <1>2. CtrlInit(EndOfRequest(d)).stage = "SETUP"
    BY <1>1, CtrlInitFields
  <1>. QED  BY <1>2 DEF Own, Moves

LEMMA ErrorOwn ==
    ASSUME NEW d \in DevType, HostType, Good(d), Own(d)
    PROVE  Own(Underflow(d, hreq)) /\ Own(Overflow(d, hreq))
  <1>1. d.done = {} /\ d.setup => Own(SetupReceived(d, hreq))
    BY SetupReceivedOwn
  <1>2. Own(SendZlpIn(d)) /\ Own(SendZlpOut(d))
    BY SendZlpInFields, SendZlpOutFields DEF Own, Moves
  <1>3. Own(StallBoth(d))
    BY StallBothFields DEF Own, Kept, Counted
  <1>4. Own(Underflow(d, hreq))
    BY <1>1, <1>2, <1>3 DEF Underflow
  <1>5. Own(Overflow(d, hreq))
    BY <1>1, <1>2, <1>3 DEF Overflow
  <1>. QED  BY <1>4, <1>5

LEMMA CompleteOwn ==
    ASSUME NEW d \in DevType, Good(d), Own(d), NEW x \in d.done
    PROVE  LET c == [d EXCEPT !.done = @ \ {x}] IN
           Own(IF x = "in" THEN InSent(c) ELSE OutReceived(c))
  <1>. DEFINE c == [d EXCEPT !.done = @ \ {x}]
  <1>1. x \in {"in", "out"}
    BY DEF DevType
  <1>2. c \in DevType /\ Same(c, d)
    BY <1>1, EventFields
  <1>. HIDE DEF c
  <1>3. /\ GoodCallback(c) /\ Own(c)
        /\ c.stage \in Moves => c.nb_trans <= c.payload_size
    BY <1>2 DEF Same, Counted, Good, GoodDev, GoodCallback, Own
  <1>4. CASE x = "in"
    <2>1. c.stage \in {"DATA_IN", "WAIT_IN_ZLP"}
      BY <1>2, <1>4 DEF Good, GoodDev, Same, DevType, Stages
    <2>2. c.stage = "WAIT_IN_ZLP" => InSent(c) = CtrlInit(EndOfRequest(c))
      BY DEF InSent
    <2>3. Own(InSent(c))
      BY <1>2, <1>3, <2>1, <2>2, EndOwn, InSentOwn DEF Moves
    <2>. QED  BY <1>4, <2>3 DEF c
  <1>5. CASE x = "out"
    <2>1. c.stage \in {"DATA_OUT", "WAIT_OUT_ZLP"}
      BY <1>2, <1>5 DEF Good, GoodDev, Same, DevType, Stages
    <2>2. c.stage = "WAIT_OUT_ZLP" => OutReceived(c) = CtrlInit(EndOfRequest(c))
      BY DEF OutReceived
    <2>3. Own(OutReceived(c))
      BY <1>2, <1>3, <2>1, <2>2, EndOwn, OutReceivedOwn DEF Moves
    <2>. QED  BY <1>5, <2>3 DEF c
  <1>. QED  BY <1>1, <1>4, <1>5

LEMMA InterruptOwn == ASSUME DInv, Interrupt PROVE Own(dev')
  <1>0. dev \in DevType /\ Good(dev) /\ HostType /\ Own(dev)
    BY DEF DInv, IInv, Good, GoodDev
  <1>1. CASE EnterBusEvent \/ EnterTransferComplete
    BY <1>0, <1>1 DEF EnterBusEvent, EnterTransferComplete
  <1>2. CASE TransferComplete
    <2>1. PICK e \in dev.done :
             LET d == [dev EXCEPT !.done = @ \ {e}] IN
             dev' = IF e = "in" THEN InSent(d) ELSE OutReceived(d)
      BY <1>2 DEF TransferComplete
    <2>. QED  BY <1>0, <2>1, CompleteOwn
  <1>3. CASE SetupComplete
    BY <1>0, <1>3, SetupReceivedOwn DEF SetupComplete
  <1>4. CASE UnderflowEvent \/ OverflowEvent
    <2>1. ASSUME NEW event \in {"underflow", "overflow"}
          PROVE  LET d == [dev EXCEPT !.errors = @ \ {event}] IN
                 d \in DevType /\ Good(d) /\ Own(d)
      <3>. DEFINE d == [dev EXCEPT !.errors = @ \ {event}]
      <3>1. dev.errors \ {event} \in SUBSET {"underflow", "overflow"}
        BY <1>0 DEF DevType
      <3>2. d \in DevType /\ Same(d, dev) /\ d.setup = dev.setup /\ d.done = dev.done
        BY <1>0, <3>1, EventFields
      <3>. HIDE DEF d
      <3>3. Good(d) /\ Own(d)
        BY <1>0, <3>2, SameGood DEF Own, Same, Counted
      <3>. QED  BY <3>2, <3>3 DEF d
    <2>. QED  BY <1>0, <1>4, <2>1, ErrorOwn DEF UnderflowEvent, OverflowEvent
  <1>. QED  BY <1>1, <1>2, <1>3, <1>4 DEF Interrupt

-----------------------------------------------------------------------------
(***************************************************************************)
(* The tokens.                                                             *)
(***************************************************************************)
LEMMA TokenOwn ==
    ASSUME NEW d \in DevType, Own(d)
    PROVE  /\ \A hidden \in BOOLEAN : Own(SetupToken(d, hidden))
           /\ Own(InToken(d))
           /\ \A n \in 0 .. EpSize : Own(OutToken(d, n))
  <1>1. \A hidden \in BOOLEAN : Own(SetupToken(d, hidden))
    BY SetupTokenFields DEF Own, Counted
  <1>2. Own(InToken(d))
    BY InTokenFields DEF Own, Counted
  <1>3. \A n \in 0 .. EpSize : Own(OutToken(d, n))
    BY OutTokenFields DEF Own, Counted
  <1>. QED  BY <1>1, <1>2, <1>3

LEMMA AcknowledgedOwn ==
    ASSUME NEW d \in DevType, Own(d), Acknowledged(d)
    PROVE  Own(dev') /\ hstage' = "idle"
  BY DEF Acknowledged, Own, DevType

\* The packet that ends the host's data stage is the last of the payload.
LEMMA LastPacket ==
    ASSUME DInv, HostReads, hstage' = "status"
    PROVE  hcount' = hreq'.payload
  <1>0. dev \in DevType /\ Good(dev) /\ HostType /\ Own(dev)
    BY DEF DInv, IInv, Good, GoodDev
  <1>1. /\ hstage = "data" /\ hreq.in /\ hreq' = hreq
        /\ ~dev.in.stall /\ dev.in.ready
        /\ hcount' = hcount + dev.in.count
        /\ dev.in.count < EpSize \/ hcount' >= hreq.wLength
    BY DEF HostReads, Refused
  <1>2. ~dev.setup /\ dev.stage = "DATA_IN" /\ dev.done = {} /\ dev.req = hreq
    BY <1>0, <1>1 DEF Good, GoodDev, GoodSetup, SameRequest, GoodLeft, GoodIn,
                      DevType, Stages
  <1>3. /\ dev.nb_trans = hcount + dev.in.count
        /\ dev.in.count < EpSize => dev.nb_trans = dev.payload_size
        /\ dev.nb_trans <= dev.payload_size /\ dev.payload_size <= hreq.wLength
    BY <1>0, <1>2 DEF Good, GoodDev, GoodIn, Moves
  <1>4. /\ dev.nb_trans \in Nat /\ dev.payload_size \in Nat /\ hreq.wLength \in Nat
    BY <1>0, <1>2, RequestsTyped DEF DevType
  <1>5. dev.payload_size = hreq.payload
    BY <1>0, <1>2 DEF Own, Moves
  <1>. QED  BY <1>1, <1>3, <1>4, <1>5

LEMMA HostTokenComplete ==
    ASSUME DInv, HostToken PROVE Own(dev') /\ DataComplete'
  <1>0. dev \in DevType /\ HostType /\ Own(dev) /\ DataComplete
    BY DEF DInv, IInv, Good, GoodDev
  <1>1. CASE HostReads
    <2>1. Own(dev')
      BY <1>0, <1>1, TokenOwn DEF HostReads, Refused
    <2>2. DataComplete'
      BY <1>1, LastPacket DEF DataComplete
    <2>. QED  BY <2>1, <2>2
  <1>2. CASE HostWrites
    <2>. DEFINE n == Lesser(EpSize, hreq.wLength - hcount)
    <2>1. n \in 0 .. EpSize
      <3>1. hreq.wLength \in Nat /\ hcount \in Nat /\ hcount < hreq.wLength
        BY <1>0, <1>2, RequestFields DEF HostWrites, HostType, ControlRequest
      <3>. QED  BY <3>1, Sizes DEF Lesser
    <2>2. dev' = dev \/ dev' = OutToken(dev, n)
      BY <1>2 DEF HostWrites, Refused
    <2>. HIDE DEF n
    <2>3. Own(dev')
      BY <1>0, <2>1, <2>2, TokenOwn
    <2>4. DataComplete'
      BY <1>2 DEF HostWrites, Refused, DataComplete
    <2>. QED  BY <2>3, <2>4
  <1>3. CASE HostConfirms
    <2>1. 0 \in 0 .. EpSize
      BY Sizes
    <2>2. /\ Own(OutToken(dev, 0)) /\ Own(InToken(dev))
          /\ ~dev.out.stall => OutToken(dev, 0) \in DevType
          /\ ~dev.in.stall => InToken(dev) \in DevType
      BY <1>0, <2>1, TokenOwn, InTokenFields, OutTokenFields
    <2>3. \/ Refused
          \/ ~dev.out.stall /\ Acknowledged(OutToken(dev, 0))
          \/ ~dev.in.stall /\ Acknowledged(InToken(dev))
          \/ /\ dev' = OutToken(dev, 0) \/ dev' = InToken(dev)
             /\ UNCHANGED host
      BY <1>3 DEF HostConfirms
    <2>4. CASE Refused
      BY <1>0, <2>4 DEF Refused, DataComplete
    <2>5. CASE \/ ~dev.out.stall /\ Acknowledged(OutToken(dev, 0))
               \/ ~dev.in.stall /\ Acknowledged(InToken(dev))
      BY <2>2, <2>5, AcknowledgedOwn DEF DataComplete
    <2>6. CASE /\ dev' = OutToken(dev, 0) \/ dev' = InToken(dev)
               /\ UNCHANGED host
      BY <1>0, <2>2, <2>6 DEF host, DataComplete
    <2>. QED  BY <2>3, <2>4, <2>5, <2>6
  <1>. QED  BY <1>1, <1>2, <1>3 DEF HostToken

-----------------------------------------------------------------------------
(***************************************************************************)
(* The theorem.                                                            *)
(***************************************************************************)
LEMMA DInvInit == Init => DInv
  <1>1. Init => Own(dev) /\ DataComplete
    BY DEF Init, Attached, Own, Moves, DataComplete
  <1>. QED  BY <1>1, InitInv DEF DInv

LEMMA DInvNext == ASSUME DInv, [Next]_vars PROVE DInv'
  <1>0. /\ dev \in DevType /\ HostType /\ Own(dev) /\ DataComplete /\ Good(dev)
        /\ EpSize \in 0 .. EpSize
    BY Sizes DEF DInv, IInv, Good, GoodDev
  <1>1. IInv'
    BY NextInv DEF DInv
  <1>2. Own(dev') /\ DataComplete'
    <2>1. ASSUME NEW r \in Requests, HostSetup(r) PROVE Own(dev') /\ DataComplete'
      <3>1. Own(dev')
        BY <1>0, <2>1, TokenOwn DEF HostSetup
      <3>2. DataComplete'
        BY <2>1 DEF HostSetup, DataComplete
      <3>. QED  BY <3>1, <3>2
    <2>2. CASE HostToken
      BY <2>2, HostTokenComplete
    <2>3. CASE HostStops
      BY <1>0, <2>3 DEF HostStops, DataComplete
    <2>4. CASE HostAsksMore
      <3>1. Own(dev')
        BY <1>0, <2>4, TokenOwn DEF HostAsksMore
      <3>2. DataComplete'
        BY <2>4 DEF HostAsksMore, DataComplete
      <3>. QED  BY <3>1, <3>2
    <2>5. ASSUME NEW event \in {"underflow", "overflow"}, OtherNak(event)
          PROVE  Own(dev') /\ DataComplete'
      <3>1. dev.errors \cup {event} \in SUBSET {"underflow", "overflow"}
        BY <1>0 DEF DevType
      <3>2. Own(dev')
        BY <1>0, <2>5, <3>1, EventFields DEF OtherNak, Own, Same, Counted
      <3>3. DataComplete'
        BY <1>0, <2>5 DEF OtherNak, host, DataComplete
      <3>. QED  BY <3>2, <3>3
    <2>6. CASE Interrupt
      <3>1. Own(dev')
        BY <2>6, InterruptOwn
      <3>2. UNCHANGED host
        BY <2>6 DEF Interrupt, EnterBusEvent, EnterTransferComplete, TransferComplete,
                    SetupComplete, UnderflowEvent, OverflowEvent, Returns
      <3>. QED  BY <1>0, <3>1, <3>2 DEF host, DataComplete
    <2>7. CASE Reset
      <3>1. Own(dev')
        BY <1>0, <2>7, BusResetGood DEF Reset, Quiet, Own, Moves
      <3>2. DataComplete'
        BY <2>7 DEF Reset, DataComplete
      <3>. QED  BY <3>1, <3>2
    <2>8. CASE UNCHANGED vars
      BY <1>0, <2>8 DEF vars, host, DataComplete
    <2>. QED  BY <2>1, <2>2, <2>3, <2>4, <2>5, <2>6, <2>7, <2>8 DEF Next
  <1>. QED  BY <1>1, <1>2 DEF DInv

\* A host that reads until a short packet, or until it has what it asked for,
\* ends the data stage of an IN request with the whole payload and nothing
\* else, whatever the interrupts and the tokens are interleaved like: the
\* short packet of udd_ctrl_in_sent comes when it must and not before.
THEOREM DataStageComplete == Spec => []DataComplete
  <1>1. DInv /\ [Next]_vars => DInv'
    BY DInvNext
  <1>2. DInv => DataComplete
    BY DEF DInv
  <1>. QED  BY DInvInit, <1>1, <1>2, PTL DEF Spec

-----------------------------------------------------------------------------
(***************************************************************************)
(* An orderly host: the invariant.                                         *)
(***************************************************************************)
Orderly == ~Unruly /\ ~OthersPolled

\* Its data come in several packets and are not all taken.
Spilt(r) == ~r.in /\ r.wLength > EpSize /\ r.payload # r.wLength

\* While the stage waits, the callback is that of the request, and once the
\* host is gone it is owed.
OwnCallback(d) ==
    /\ d.callback # "none" => d.callback = d.req.effect
    /\ d.stage \in Waits /\ d.callback # "none" /\ (d.setup \/ hstage = "idle") => d.owed
    /\ ~d.unasked

\* What is copied into a report are the bytes of a packet.
OwnReport(d) ==
    /\ ~d.setup /\ d.stage = "DATA_OUT" /\ d.done # {} =>
          d.buffer = "data" /\ d.out.count > 0
    /\ d.stage = "WAIT_IN_ZLP" /\ d.callback = "report" => d.report = "data"

\* No event is pending that says the host is ahead of the stage: the flag of a
\* token that came too early may be left, but its event is not.
OnTime(d) ==
    /\ d.stage # "SETUP" => d.watched
    /\ ~d.setup /\ d.stage = "WAIT_OUT_ZLP" =>
          hstage # "data" /\ ("underflow" \notin d.errors \/ ~d.in.nak)
    /\ ~d.setup /\ d.stage = "WAIT_IN_ZLP" /\ ~Spilt(d.req) =>
          hstage # "data" /\ ("overflow" \notin d.errors \/ ~d.out.nak)
    /\ d.setup /\ d.stage = "SETUP" /\ hstage = "status" => ~d.out.nak

\* The packet under way is full and not the last, unless the host is done.
Underway(d) ==
    ~d.setup /\ d.done # {} /\ hstage = "data" =>
        /\ d.stage = "DATA_IN" => d.in.count = EpSize /\ hcount < d.req.wLength
        /\ d.stage = "DATA_OUT" => d.out.count = EpSize

Stalled(d) == d.in.stall => ~d.req.known \/ Spilt(d.req)

Calm(d) == OwnCallback(d) /\ OwnReport(d) /\ OnTime(d) /\ Underway(d) /\ Stalled(d)

\* The handler was entered with no error pending; since then the host may have
\* sent tokens of the status stage only.
Entered(d) ==
    ~d.setup /\ hstage = "status" =>
        /\ d.stage = "DATA_IN" => "underflow" \notin d.errors
        /\ d.stage = "DATA_OUT" => "overflow" \notin d.errors

InTurn ==
    /\ running = "transfer" => (dev.done # {} \/ dev.setup) /\ Entered(dev)
    /\ running = "bus" => dev.errors # {}

OInv ==
    /\ DInv /\ order = "kept" /\ Calm(dev) /\ InTurn
    /\ failed => ~hreq.known \/ Spilt(hreq)

-----------------------------------------------------------------------------
(***************************************************************************)
(* What each step of the driver leaves in the rest of the record.          *)
(***************************************************************************)
Aside(e, d) ==
    /\ e.errors = d.errors /\ e.watched = d.watched /\ e.buffer = d.buffer
    /\ e.report = d.report /\ e.unasked = d.unasked

LEMMA SendAside ==
    ASSUME NEW d \in DevType
    PROVE  /\ Aside(StallBoth(d), d) /\ Aside(StallData(d), d)
           /\ Aside(SendZlpIn(d), d) /\ Aside(SendZlpOut(d), d)
           /\ Aside(AwaitMore(d), d) /\ Aside(ResetCount(d), d)
           /\ \A n \in 0 .. EpSize : Aside(SendData(d, n), d)
  <1>1. Aside(StallBoth(d), d)
    BY DEF StallBoth, DevType, Aside
  <1>2. Aside(StallData(d), d)
    BY DEF StallData, StallBoth, DevType, Aside
  <1>3. Aside(SendZlpIn(d), d) /\ Aside(SendZlpOut(d), d)
    BY DEF SendZlpIn, SendZlpOut, DevType, Aside
  <1>4. Aside(AwaitMore(d), d) /\ Aside(ResetCount(d), d)
    BY DEF AwaitMore, ResetCount, DevType, Aside
  <1>5. \A n \in 0 .. EpSize : Aside(SendData(d, n), d)
    BY DEF SendData, DevType, Aside
  <1>. QED  BY <1>1, <1>2, <1>3, <1>4, <1>5

LEMMA FieldAside ==
    ASSUME NEW d \in DevType
    PROVE  /\ \A s \in Stages : Aside([d EXCEPT !.stage = s], d)
           /\ \A n \in Nat : Aside([d EXCEPT !.payload_size = n], d)
           /\ \A n \in Nat : Aside([d EXCEPT !.prev_nb_trans = n], d)
           /\ \A x \in {"in", "out"} : Aside([d EXCEPT !.done = @ \ {x}], d)
           /\ Aside([d EXCEPT !.setup = FALSE], d)
  <1>1. /\ \A s \in Stages : Aside([d EXCEPT !.stage = s], d)
        /\ \A n \in Nat : Aside([d EXCEPT !.payload_size = n], d)
    BY DEF DevType, Aside
  <1>2. /\ \A n \in Nat : Aside([d EXCEPT !.prev_nb_trans = n], d)
        /\ \A x \in {"in", "out"} : Aside([d EXCEPT !.done = @ \ {x}], d)
        /\ Aside([d EXCEPT !.setup = FALSE], d)
    BY DEF DevType, Aside
  <1>. QED  BY <1>1, <1>2

LEMMA BeginAside ==
    ASSUME NEW d \in DevType, NEW r \in Requests
    PROVE  LET e == Begin(d, r) IN
           /\ e.errors = d.errors /\ e.watched
           /\ e.unasked = d.unasked
  BY DEF Begin, ProcessSetup, DevType

LEMMA TakeDataAside ==
    ASSUME NEW d \in DevType, NEW n \in Nat
    PROVE  LET e == TakeData(d, n) IN
           /\ e.errors = d.errors /\ e.watched = d.watched /\ e.unasked = d.unasked
           /\ n > 0 /\ d.callback = "report" => e.report = d.buffer
  <1>. DEFINE x == IF n > 0 /\ d.callback = "report" THEN d.buffer ELSE d.report
  <1>1. TakeData(d, n) = [d EXCEPT !.nb_trans = @ + n, !.report = x]
    BY Zenon DEF TakeData
  <1>2. n > 0 /\ d.callback = "report" => x = d.buffer
    OBVIOUS
  <1>. HIDE DEF x
  <1>. QED  BY <1>1, <1>2 DEF DevType

\* A callback that is owed runs, and none runs that is not.
LEMMA EndUnasked ==
    ASSUME NEW d \in DevType, d.callback # "none" => d.owed
    PROVE  EndOfRequest(d).unasked = d.unasked
  <1>1. CASE d.callback = "none"
    BY <1>1 DEF EndOfRequest
  <1>2. CASE d.callback # "none"
    BY <1>2 DEF EndOfRequest, DevType
  <1>. QED  BY <1>1, <1>2

LEMMA CtrlInitUnasked ==
    ASSUME NEW d \in DevType PROVE CtrlInit(d).unasked = d.unasked
  BY DEF CtrlInit, DevType

-----------------------------------------------------------------------------
(***************************************************************************)
(* The handlers keep the orderly invariant.                                *)
(***************************************************************************)
\* The parts of a record on which Calm depends, between two requests.
LEMMA EndCalm ==
    ASSUME NEW d \in DevType, GoodCallback(d), OwnCallback(d), Stalled(d),
           d.done = {}, d.stage \in Waits, d.setup \/ hstage = "idle"
    PROVE  Calm(CtrlInit(EndOfRequest(d)))
  <1>. DEFINE e == EndOfRequest(d)
              x == CtrlInit(e)
  <1>1. d.req \in ControlRequest
    BY RequestsTyped
  <1>2. /\ e \in DevType /\ e.req = d.req /\ e.in = d.in /\ e.unasked = d.unasked
        /\ e.setup = d.setup /\ e.done = {}
    BY <1>1, EndOfRequestFields, EndUnasked DEF OwnCallback
  <1>. HIDE DEF e
  <1>3. /\ x.stage = "SETUP" /\ x.callback = "none" /\ x.req = d.req /\ x.done = {}
        /\ ~x.out.nak /\ x.in.stall = d.in.stall /\ x.unasked = d.unasked
    BY <1>2, CtrlInitFields, CtrlInitUnasked
  <1>. HIDE DEF x
  <1>4. Calm(x)
    BY <1>3 DEF Calm, OwnCallback, OwnReport, OnTime, Underway, Stalled, Waits
  <1>. QED  BY <1>4 DEF x, e

\* A request begins: no flag is left, and the last one had its end.
LEMMA BegunCalm ==
    ASSUME NEW d \in DevType, HostType, Good(d), Calm(d), d.setup, d.done = {}
    PROVE  LET c == [d EXCEPT !.setup = FALSE]
               e == Begin(IF c.stage = "SETUP" THEN c ELSE Preempt(c), hreq)
           IN  /\ e.callback = hreq.effect /\ ~e.setup /\ e.done = {}
               /\ e.watched /\ ~e.unasked
               /\ ~e.in.stall
               /\ hstage = "status" => ~e.out.nak
  <1>. DEFINE c == [d EXCEPT !.setup = FALSE]
              p == IF c.stage = "SETUP" THEN c ELSE Preempt(c)
  <1>1. hreq \in Requests
    BY DEF Good, GoodSetup, HostType
  <1>2. c \in DevType /\ Same(c, d) /\ ~c.setup /\ c.done = {} /\ Aside(c, d)
    BY EventFields, FieldAside
  <1>3. /\ GoodCallback(c)
        /\ ~c.in.ready /\ ~c.out.ready /\ ~c.in.stall /\ ~c.out.stall
    BY <1>2 DEF Good, GoodDev, GoodSetup, GoodCallback, Same
  <1>4. /\ p \in DevType /\ ~p.setup /\ p.done = {} /\ ~p.in.stall
        /\ ~p.unasked
        /\ hstage = "status" => ~p.out.nak
    <2>1. CASE c.stage = "SETUP"
      BY <1>2, <1>3, <2>1 DEF Calm, OwnCallback, OnTime, Same, Aside
    <2>2. CASE c.stage # "SETUP"
      <3>1. c.req \in ControlRequest
        BY <1>2, RequestsTyped
      <3>2. c.stage \in Waits => (c.callback # "none" => c.owed)
        BY <1>2 DEF Calm, OwnCallback, Same
      <3>3. ~c.unasked
        BY <1>2 DEF Calm, OwnCallback, Aside
      <3>. HIDE DEF c
      <3>4. Fresh(Preempt(c))
        BY <1>2, <1>3, <3>1, PreemptFresh
      <3>5. ~Preempt(c).unasked /\ ~Preempt(c).out.nak
        <4>1. CASE c.stage \in Waits
          <5>1. Preempt(c) = CtrlInit(EndOfRequest(c))
            BY <4>1 DEF Preempt, Waits
          <5>2. EndOfRequest(c) \in DevType /\ EndOfRequest(c).unasked = c.unasked
            BY <1>2, <1>3, <3>1, <3>2, <4>1, EndOfRequestFields, EndUnasked
          <5>. QED  BY <3>3, <5>1, <5>2, CtrlInitFields, CtrlInitUnasked
        <4>2. CASE c.stage \notin Waits
          <5>1. Preempt(c) = CtrlInit(c)
            BY <4>2 DEF Preempt, Waits
          <5>. QED  BY <1>2, <3>3, <5>1, CtrlInitFields, CtrlInitUnasked
        <4>. QED  BY <4>1, <4>2
      <3>. QED  BY <2>2, <3>4, <3>5 DEF Fresh
    <2>. QED  BY <2>1, <2>2
  <1>. HIDE DEF p
  <1>5. LET e == Begin(p, hreq) IN
        /\ e.callback = hreq.effect /\ ~e.setup /\ e.done = {}
        /\ e.watched /\ ~e.unasked
        /\ ~e.in.stall
        /\ hstage = "status" => ~e.out.nak
    BY <1>1, <1>4, BeginFields, BeginAside
  <1>. QED  BY <1>5 DEF p

LEMMA SetupReceivedCalm ==
    ASSUME NEW d \in DevType, HostType, Good(d), Calm(d), d.setup, d.done = {}
    PROVE  Calm(SetupReceived(d, hreq))
  <1>. DEFINE c == [d EXCEPT !.setup = FALSE]
              e == Begin(IF c.stage = "SETUP" THEN c ELSE Preempt(c), hreq)
              z == ResetCount(e)
              i == [z EXCEPT !.stage = "DATA_IN"]
              o == [z EXCEPT !.stage = "DATA_OUT"]
  <1>1. /\ hreq \in Requests /\ e \in DevType /\ e.req = hreq
        /\ e.payload_size = hreq.payload
    BY BegunType
  <1>2. /\ e.callback = hreq.effect /\ ~e.setup /\ e.done = {}
        /\ e.watched /\ ~e.unasked
        /\ ~e.in.stall
        /\ hstage = "status" => ~e.out.nak
    BY BegunCalm
  <1>3. SetupReceived(d, hreq) =
           IF ~hreq.known THEN StallData(e)
           ELSE IF hreq.in THEN InSent(i)
           ELSE IF hreq.wLength = 0 THEN SendZlpIn(e)
           ELSE AwaitMore(o)
    BY Zenon DEF SetupReceived
  <1>. HIDE DEF e
  <1>4. /\ hreq.payload \in Nat /\ hreq.wLength \in Nat
        /\ hreq.in /\ hreq.known => hreq.payload >= 1
        /\ ~hreq.in /\ hreq.effect = "report" => hreq.wLength > 0
        /\ hstage # "idle"
        /\ ~hreq.in /\ hreq.wLength = 0 => hstage = "status"
    BY <1>1, RequestFields DEF ControlRequest, HostType, Good, GoodSetup
  <1>5. CASE ~hreq.known
    <2>. DEFINE x == StallData(e)
    <2>1. /\ Kept(x, e) /\ Aside(x, e) /\ x.stage = "STALL_REQ"
      BY <1>1, StallDataFields, SendAside
    <2>. HIDE DEF x
    <2>2. Calm(x)
      BY <1>1, <1>2, <1>5, <2>1 DEF Kept, Aside, Calm, OwnCallback, OwnReport, OnTime,
                                    Underway, Stalled, Waits
    <2>. QED  BY <1>3, <1>5, <2>2 DEF x
  <1>6. /\ z \in DevType /\ Kept(z, e) /\ Aside(z, e) /\ z.in = e.in
        /\ z.payload_size = hreq.payload /\ z.nb_trans = 0
    BY <1>1, ResetCountFields, SendAside
  <1>. HIDE DEF z
  <1>7. CASE hreq.known /\ hreq.in
    <2>. DEFINE n == Lesser(hreq.payload, EpSize)
                x == SendData(i, n)
    <2>1. /\ i \in DevType /\ Kept(i, z) /\ Counted(i, z) /\ i.stage = "DATA_IN"
          /\ i.in = z.in /\ Aside(i, z)
      BY <1>6, StageFields, FieldAside DEF Stages
    <2>. HIDE DEF i
    <2>2. InSent(i) = x
      <3>1. i.payload_size - i.nb_trans = hreq.payload /\ hreq.payload # 0
        BY <1>4, <1>6, <1>7, <2>1 DEF Counted
      <3>. QED  BY <2>1, <3>1 DEF InSent
    <2>3. n \in 0 .. EpSize
      BY <1>4, Sizes DEF Lesser
    <2>. HIDE DEF n
    <2>4. /\ Kept(x, i) /\ Aside(x, i) /\ x.stage = "DATA_IN" /\ x.in.stall = i.in.stall
      BY <2>1, <2>3, SendDataFields, SendAside
    <2>. HIDE DEF x
    <2>5. Calm(x)
      BY <1>1, <1>2, <1>6, <2>1, <2>4
         DEF Kept, Aside, Calm, OwnCallback, OwnReport, OnTime, Underway, Stalled, Waits
    <2>. QED  BY <1>3, <1>7, <2>2, <2>5
  <1>8. CASE hreq.known /\ ~hreq.in /\ hreq.wLength = 0
    <2>. DEFINE x == SendZlpIn(e)
    <2>1. /\ Kept(x, e) /\ Aside(x, e) /\ x.stage = "WAIT_IN_ZLP"
          /\ x.in.stall = e.in.stall
      BY <1>1, SendZlpInFields, SendAside
    <2>. HIDE DEF x
    <2>2. Calm(x)
      BY <1>1, <1>2, <1>4, <1>8, <2>1
         DEF Kept, Aside, Calm, OwnCallback, OwnReport, OnTime, Underway, Stalled, Waits
    <2>. QED  BY <1>3, <1>8, <2>2 DEF x
  <1>9. CASE hreq.known /\ ~hreq.in /\ hreq.wLength # 0
    <2>. DEFINE x == AwaitMore(o)
    <2>1. /\ o \in DevType /\ Kept(o, z) /\ o.stage = "DATA_OUT"
          /\ o.in = z.in /\ Aside(o, z)
      BY <1>6, StageFields, FieldAside DEF Stages
    <2>. HIDE DEF o
    <2>2. /\ Kept(x, o) /\ Aside(x, o) /\ x.stage = "DATA_OUT" /\ x.in = o.in
      BY <2>1, AwaitMoreFields, SendAside
    <2>. HIDE DEF x
    <2>3. Calm(x)
      BY <1>1, <1>2, <1>6, <2>1, <2>2
         DEF Kept, Aside, Calm, OwnCallback, OwnReport, OnTime, Underway, Stalled, Waits
    <2>. QED  BY <1>3, <1>9, <2>3 DEF x
  <1>. QED  BY <1>5, <1>7, <1>8, <1>9

LEMMA InSentCalm ==
    ASSUME NEW d \in DevType, HostType, Good(d), Calm(d), order = "kept",
           Entered(d), "in" \in d.done
    PROVE  Calm(InSent([d EXCEPT !.done = @ \ {"in"}]))
  <1>. DEFINE c == [d EXCEPT !.done = @ \ {"in"}]
  <1>1. /\ c \in DevType /\ Same(c, d) /\ Aside(c, d) /\ c.setup = d.setup /\ c.done = {}
        /\ c.stage \in {"DATA_IN", "WAIT_IN_ZLP"}
    <2>1. c \in DevType /\ Same(c, d) /\ Aside(c, d) /\ c.setup = d.setup
          /\ c.done = d.done \ {"in"}
      BY EventFields, FieldAside
    <2>2. d.done \subseteq {"in", "out"} /\ d.stage \in Stages
      BY DEF DevType
    <2>. QED  BY <2>1, <2>2 DEF Good, GoodDev, Same, Stages
  <1>. SUFFICES Calm(InSent(c))
    OBVIOUS
  <1>. HIDE DEF c
  <1>2. CASE c.stage = "WAIT_IN_ZLP"
    <2>1. InSent(c) = CtrlInit(EndOfRequest(c))
      BY <1>2 DEF InSent
    <2>2. GoodCallback(c) /\ OwnCallback(c) /\ Stalled(c)
      BY <1>1 DEF Same, Aside, Good, GoodCallback, Calm, OwnCallback, Stalled
    <2>3. c.setup \/ hstage = "idle"
      BY <1>1, <1>2 DEF Good, SameRequest, Same, Waits
    <2>. QED  BY <1>1, <1>2, <2>1, <2>2, <2>3, EndCalm DEF Waits
  <1>3. CASE c.stage = "DATA_IN"
    <2>. DEFINE remain == c.payload_size - c.nb_trans
                sent == c.prev_nb_trans + c.nb_trans
                e == IF remain = 0 THEN [c EXCEPT !.prev_nb_trans = sent] ELSE c
                n == Lesser(remain, EpSize)
    <2>1. /\ ~c.setup /\ hstage # "idle" /\ c.req = hreq
          /\ c.nb_trans <= c.payload_size
          /\ c.nb_trans = hcount
          /\ c.b_shortpacket <=> c.in.count < EpSize
          /\ c.prev_nb_trans = 0 \/ c.b_shortpacket
          /\ hstage = "data" => c.in.count = EpSize /\ hcount < c.req.wLength
          /\ hstage = "status" => "underflow" \notin c.errors
          /\ c.callback # "none" => c.callback = c.req.effect
          /\ ~c.unasked /\ c.watched
          /\ c.in.stall => ~c.req.known \/ Spilt(c.req)
      BY <1>1, <1>3 DEF Same, Counted, Aside, Good, GoodDev, GoodSetup, SameRequest, GoodIn,
                        Calm, OwnCallback, OnTime, Underway, Stalled, Entered, Moves, Waits
    <2>2. /\ c.payload_size \in Nat /\ c.nb_trans \in Nat /\ c.prev_nb_trans \in Nat
          /\ c.req.wLength \in Nat /\ EpSize \in Nat
          /\ remain \in Nat /\ sent \in Nat /\ hstage \in {"idle", "data", "status"}
      BY <1>1, <2>1, RequestsTyped, Sizes DEF DevType, HostType
    <2>3. /\ e \in DevType /\ Kept(e, c) /\ Aside(e, c) /\ e.stage = "DATA_IN"
          /\ e.in = c.in
      <3>1. Aside(c, c) /\ Kept(c, c)
        BY DEF Aside, Kept
      <3>. QED  BY <1>1, <1>3, <2>2, <3>1, PrevFields, FieldAside
    <2>4. n \in 0 .. EpSize
      BY <2>2 DEF Lesser
    <2>5. InSent(c) = IF remain = 0 /\ DataSent(c, sent) THEN SendZlpOut(e) ELSE SendData(e, n)
      BY <1>3, Zenon DEF InSent
    <2>6. DataSent(c, sent) => hstage = "status"
      <3>. SUFFICES ASSUME DataSent(c, sent), hstage = "data" PROVE FALSE
        BY <2>1, <2>2
      <3>1. ~c.b_shortpacket
        BY <2>1, <2>2
      <3>. QED  BY <2>1, <2>2, <3>1 DEF DataSent
    <2>. HIDE DEF e, n
    <2>7. CASE remain = 0 /\ DataSent(c, sent)
      <3>. DEFINE x == SendZlpOut(e)
      <3>1. /\ Kept(x, e) /\ Aside(x, e) /\ x.stage = "WAIT_OUT_ZLP" /\ x.in = e.in
        BY <2>3, SendZlpOutFields, SendAside
      <3>. HIDE DEF x
      <3>2. Calm(x)
        BY <1>1, <2>1, <2>3, <2>6, <2>7, <3>1
           DEF Kept, Aside, Calm, OwnCallback, OwnReport, OnTime, Underway, Stalled, Waits
      <3>. QED  BY <2>5, <2>7, <3>2 DEF x
    <2>8. CASE ~(remain = 0 /\ DataSent(c, sent))
      <3>. DEFINE x == SendData(e, n)
      <3>1. /\ Kept(x, e) /\ Aside(x, e) /\ x.stage = "DATA_IN" /\ x.in.stall = e.in.stall
        BY <2>3, <2>4, SendDataFields, SendAside
      <3>. HIDE DEF x
      <3>2. Calm(x)
        BY <1>1, <2>1, <2>3, <3>1
           DEF Kept, Aside, Calm, OwnCallback, OwnReport, OnTime, Underway, Stalled, Waits
      <3>. QED  BY <2>5, <2>8, <3>2 DEF x
    <2>. QED  BY <2>7, <2>8
  <1>. QED  BY <1>1, <1>2, <1>3

LEMMA OutReceivedCalm ==
    ASSUME NEW d \in DevType, HostType, Good(d), Own(d), Calm(d), order = "kept",
           Entered(d), "out" \in d.done
    PROVE  Calm(OutReceived([d EXCEPT !.done = @ \ {"out"}]))
  <1>. DEFINE c == [d EXCEPT !.done = @ \ {"out"}]
  <1>1. /\ c \in DevType /\ Same(c, d) /\ Aside(c, d) /\ c.setup = d.setup /\ c.done = {}
        /\ c.stage \in {"DATA_OUT", "WAIT_OUT_ZLP"}
    <2>1. c \in DevType /\ Same(c, d) /\ Aside(c, d) /\ c.setup = d.setup
          /\ c.done = d.done \ {"out"}
      BY EventFields, FieldAside
    <2>2. d.done \subseteq {"in", "out"} /\ d.stage \in Stages
      BY DEF DevType
    <2>. QED  BY <2>1, <2>2 DEF Good, GoodDev, Same, Stages
  <1>. SUFFICES Calm(OutReceived(c))
    OBVIOUS
  <1>. HIDE DEF c
  <1>2. CASE c.stage = "WAIT_OUT_ZLP"
    <2>1. OutReceived(c) = CtrlInit(EndOfRequest(c))
      BY <1>2 DEF OutReceived
    <2>2. GoodCallback(c) /\ OwnCallback(c) /\ Stalled(c)
      BY <1>1 DEF Same, Aside, Good, GoodCallback, Calm, OwnCallback, Stalled
    <2>3. c.setup \/ hstage = "idle"
      BY <1>1, <1>2 DEF Good, SameRequest, Same, Waits
    <2>. QED  BY <1>1, <1>2, <2>1, <2>2, <2>3, EndCalm DEF Waits
  <1>3. CASE c.stage = "DATA_OUT"
    <2>. DEFINE n == Fitting(c)
                e == TakeData(c, n)
                p == [e EXCEPT !.payload_size = e.nb_trans]
    <2>1. /\ ~c.setup /\ hstage # "idle" /\ c.req = hreq /\ ~c.req.in
          /\ c.nb_trans <= c.payload_size /\ c.payload_size = c.req.payload
          /\ c.nb_trans + c.out.count = hcount /\ c.prev_nb_trans = 0
          /\ (hstage = "data" /\ hcount < c.req.wLength) \/ hcount = c.req.wLength
          /\ hstage = "data" => hcount < c.req.wLength
          /\ hstage = "data" => c.out.count = EpSize
          /\ hstage = "status" => "overflow" \notin c.errors
          /\ c.buffer = "data" /\ c.out.count > 0
      BY <1>1, <1>3 DEF Same, Counted, Aside, Good, GoodDev, GoodSetup, SameRequest, GoodOut,
                        HostType, Own, Calm, OwnReport, OnTime, Underway, Entered, Moves, Waits
    <2>2. /\ c.callback # "none" => c.callback = c.req.effect
          /\ ~c.unasked /\ c.watched
          /\ c.in.stall => ~c.req.known \/ Spilt(c.req)
      BY <1>1, <1>3 DEF Same, Aside, Calm, OwnCallback, OnTime, Stalled
    <2>3. /\ c.payload_size \in Nat /\ c.nb_trans \in Nat
          /\ c.req.wLength \in Nat /\ hcount \in Nat /\ EpSize \in Nat
          /\ c.out.count \in 0 .. EpSize /\ hstage \in {"idle", "data", "status"}
      BY <1>1, <2>1, RequestsTyped, Sizes DEF DevType, EndpointType, HostType
    <2>4. hreq \in Requests
      BY <2>1 DEF HostType
    <2>5. c.callback = "report" => hreq.payload = hreq.wLength
      BY <2>1, <2>2, <2>4, RequestFields
    <2>6. /\ n \in 0 .. EpSize /\ n <= c.out.count
          /\ c.payload_size = c.req.wLength => n = c.out.count
      BY <2>1, <2>3 DEF Fitting, Lesser
    <2>7. OutReceived(c) = IF DataReceived(e, n) THEN SendZlpIn(p)
                           ELSE IF e.payload_size = e.nb_trans THEN StallData(e)
                           ELSE AwaitMore(e)
      BY <1>3, Zenon DEF OutReceived
    <2>. HIDE DEF n
    <2>8. /\ e \in DevType /\ Kept(e, c) /\ e.stage = "DATA_OUT" /\ e.in = c.in
          /\ e.payload_size = c.payload_size /\ e.prev_nb_trans = 0
          /\ e.nb_trans = c.nb_trans + n
          /\ e.errors = c.errors /\ e.watched /\ ~e.unasked
          /\ c.callback = "report" => e.report = "data"
      <3>1. n \in Nat /\ (c.callback = "report" => n > 0)
        BY <2>1, <2>3, <2>5, <2>6
      <3>2. /\ e \in DevType /\ Kept(e, c) /\ e.stage = "DATA_OUT" /\ e.in = c.in
            /\ e.payload_size = c.payload_size /\ e.prev_nb_trans = 0
            /\ e.nb_trans = c.nb_trans + n
        BY <1>1, <1>3, <2>1, <3>1, TakeDataFields
      <3>3. /\ e.errors = c.errors /\ e.watched = c.watched /\ e.unasked = c.unasked
            /\ n > 0 /\ c.callback = "report" => e.report = c.buffer
        BY <1>1, <3>1, TakeDataAside
      <3>. HIDE DEF e
      <3>. QED  BY <2>1, <2>2, <3>1, <3>2, <3>3
    <2>. HIDE DEF e
    <2>9. /\ p \in DevType /\ Kept(p, e) /\ Aside(p, e) /\ p.in = e.in
      <3>1. e.nb_trans \in Nat
        BY <2>8 DEF DevType
      <3>2. p \in DevType /\ Kept(p, e) /\ p.in = e.in
        BY <2>8, <3>1, PayloadFields
      <3>3. Aside(p, e)
        BY <2>8, <3>1, FieldAside
      <3>. QED  BY <3>2, <3>3
    <2>. HIDE DEF p
    <2>10. CASE DataReceived(e, n)
      <3>. DEFINE x == SendZlpIn(p)
      <3>1. /\ Kept(x, p) /\ Aside(x, p) /\ x.stage = "WAIT_IN_ZLP"
            /\ x.in.stall = p.in.stall
        BY <2>9, SendZlpInFields, SendAside
      <3>. HIDE DEF x
      <3>2. ~Spilt(c.req) => hstage = "status"
        <4>. SUFFICES ASSUME ~Spilt(c.req), hstage = "data" PROVE FALSE
          BY <2>1, <2>3
        <4>1. EpSize < c.req.wLength
          BY <2>1, <2>3
        <4>2. c.payload_size = c.req.wLength
          BY <2>1, <4>1 DEF Spilt
        <4>3. n = EpSize /\ c.nb_trans + n < c.req.wLength
          BY <2>1, <2>3, <2>6, <4>2
        <4>. QED  BY <2>3, <2>8, <2>10, <4>3 DEF DataReceived, Kept
      <3>3. /\ x.callback = c.callback /\ x.req = c.req /\ ~x.setup /\ x.done = {}
            /\ x.errors = c.errors /\ x.watched /\ ~x.unasked
            /\ c.callback = "report" => x.report = "data"
            /\ x.in.stall = c.in.stall
        BY <1>1, <2>1, <2>8, <2>9, <3>1 DEF Kept, Aside
      <3>4. Calm(x)
        BY <2>1, <2>2, <3>1, <3>2, <3>3
           DEF Calm, OwnCallback, OwnReport, OnTime, Underway, Stalled, Waits
      <3>. QED  BY <2>7, <2>10, <3>4 DEF x
    <2>11. CASE ~DataReceived(e, n) /\ e.payload_size = e.nb_trans
      <3>. DEFINE x == StallData(e)
      <3>1. /\ Kept(x, e) /\ Aside(x, e) /\ x.stage = "STALL_REQ"
        BY <2>8, StallDataFields, SendAside
      <3>. HIDE DEF x
      <3>2. Spilt(c.req)
        <4>1. n = EpSize /\ c.nb_trans + n < c.req.wLength
          BY <2>1, <2>3, <2>6, <2>8, <2>11 DEF DataReceived, Kept
        <4>. QED  BY <2>1, <2>3, <2>8, <2>11, <4>1 DEF Spilt
      <3>3. Calm(x)
        BY <1>1, <2>1, <2>2, <2>8, <3>1, <3>2
           DEF Kept, Aside, Calm, OwnCallback, OwnReport, OnTime, Underway, Stalled, Waits
      <3>. QED  BY <2>7, <2>11, <3>3 DEF x
    <2>12. CASE ~DataReceived(e, n) /\ e.payload_size # e.nb_trans
      <3>. DEFINE x == AwaitMore(e)
      <3>1. /\ Kept(x, e) /\ Aside(x, e) /\ x.stage = "DATA_OUT" /\ x.in = e.in
        BY <2>8, AwaitMoreFields, SendAside
      <3>. HIDE DEF x
      <3>2. Calm(x)
        BY <1>1, <2>1, <2>2, <2>8, <3>1
           DEF Kept, Aside, Calm, OwnCallback, OwnReport, OnTime, Underway, Stalled, Waits
      <3>. QED  BY <2>7, <2>12, <3>2 DEF x
    <2>. QED  BY <2>10, <2>11, <2>12
  <1>. QED  BY <1>1, <1>2, <1>3

\* A token out of turn: the host is in the data stage, or the device has not
\* seen its SETUP.
LEMMA UnderflowCalm ==
    ASSUME NEW d \in DevType, HostType, Good(d), Calm(d), order = "kept", d.in.nak,
           d.setup \/ d.stage # "WAIT_OUT_ZLP"
    PROVE  Calm(Underflow(d, hreq))
  <1>1. CASE d.done # {}
    BY <1>1 DEF Underflow
  <1>2. CASE d.done = {} /\ d.setup
    BY <1>2, SetupReceivedCalm DEF Underflow
  <1>3. CASE d.done = {} /\ ~d.setup
    <2>1. d.stage # "DATA_OUT"
      BY <1>3 DEF HostType, Good, GoodDev, GoodNaks, GoodOut, SameRequest, Moves, Waits
    <2>. QED  BY <1>3, <2>1 DEF Underflow
  <1>. QED  BY <1>1, <1>2, <1>3

LEMMA OverflowCalm ==
    ASSUME NEW d \in DevType, HostType, Good(d), Calm(d), order = "kept", d.out.nak,
           d.setup \/ d.stage # "WAIT_IN_ZLP" \/ Spilt(d.req)
    PROVE  Calm(Overflow(d, hreq))
  <1>1. CASE d.done # {}
    BY <1>1 DEF Overflow
  <1>2. CASE d.done = {} /\ d.setup
    BY <1>2, SetupReceivedCalm DEF Overflow
  <1>3. CASE d.done = {} /\ ~d.setup
    <2>1. d.stage # "DATA_IN"
      BY <1>3 DEF HostType, Good, GoodDev, GoodNaks, GoodIn, SameRequest, Moves, Waits
    <2>2. CASE d.stage = "WAIT_IN_ZLP"
      <3>. DEFINE x == StallBoth(d)
      <3>1. /\ Kept(x, d) /\ Aside(x, d) /\ x.stage = d.stage
        BY StallBothFields, SendAside
      <3>. HIDE DEF x
      <3>2. Calm(x)
        BY <1>3, <2>2, <3>1 DEF Kept, Aside, Calm, OwnCallback, OwnReport, OnTime, Underway,
                                Stalled, Waits
      <3>. QED  BY <1>3, <2>2, <3>2 DEF Overflow, x
    <2>3. CASE d.stage # "WAIT_IN_ZLP"
      BY <1>3, <2>1, <2>3 DEF Overflow
    <2>. QED  BY <2>2, <2>3
  <1>. QED  BY <1>1, <1>2, <1>3

-----------------------------------------------------------------------------
(***************************************************************************)
(* Every step of the system keeps the orderly invariant.                   *)
(***************************************************************************)
Answered == failed => ~hreq.known \/ Spilt(hreq)

OrderlyInv == order = "kept" /\ Calm(dev) /\ InTurn /\ Answered

LEMMA OInvIs == OInv <=> DInv /\ OrderlyInv
  BY DEF OInv, OrderlyInv, Answered

\* The interrupts leave the host as it was, and no handler stays entered.
LEMMA ReturnsOrderly ==
    ASSUME OInv, NEW x, Calm(x), dev' = x, Returns
    PROVE  OrderlyInv'
  <1>1. Calm(dev)'
    BY DEF Returns, host, Calm, OwnCallback, OwnReport, OnTime, Underway, Stalled
  <1>2. InTurn'
    BY DEF Returns, InTurn
  <1>3. order' = "kept" /\ Answered'
    BY DEF OInv, Returns, host, Answered
  <1>. QED  BY <1>1, <1>2, <1>3 DEF OrderlyInv

LEMMA InterruptOrderly == ASSUME OInv, Interrupt PROVE OrderlyInv'
  <1>0. /\ dev \in DevType /\ Good(dev) /\ HostType /\ Own(dev) /\ Calm(dev)
        /\ order = "kept" /\ InTurn
    BY DEF OInv, DInv, IInv, Good, GoodDev
  <1>1. CASE EnterBusEvent
    BY <1>0, <1>1 DEF EnterBusEvent, BusPending, host, OInv, OrderlyInv, Answered, InTurn, Calm,
                      OwnCallback, OwnReport, OnTime, Underway, Stalled
  <1>2. CASE EnterTransferComplete
    <2>1. /\ dev' = dev /\ UNCHANGED host /\ running' = "transfer"
          /\ dev.done # {} \/ dev.setup
          /\ dev.watched => dev.errors = {}
      BY <1>2 DEF EnterTransferComplete, BusPending
    <2>2. dev.stage # "SETUP" => dev.watched
      BY <1>0 DEF Calm, OnTime
    <2>3. Entered(dev)'
      BY <2>1, <2>2 DEF Entered
    <2>4. InTurn'
      BY <2>1, <2>3 DEF InTurn
    <2>. QED  BY <1>0, <2>1, <2>4 DEF host, OInv, OrderlyInv, Answered, Calm,
                      OwnCallback, OwnReport, OnTime, Underway, Stalled
  <1>3. CASE TransferComplete
    <2>1. PICK e \in dev.done :
             LET d == [dev EXCEPT !.done = @ \ {e}] IN
             dev' = IF e = "in" THEN InSent(d) ELSE OutReceived(d)
      BY <1>3 DEF TransferComplete
    <2>2. e \in {"in", "out"} /\ Entered(dev)
      BY <1>0, <1>3 DEF DevType, TransferComplete, InTurn
    <2>3. Calm(dev')
      <3>1. CASE e = "in"
        BY <1>0, <2>1, <2>2, <3>1, InSentCalm
      <3>2. CASE e = "out"
        BY <1>0, <2>1, <2>2, <3>2, OutReceivedCalm
      <3>. QED  BY <2>2, <3>1, <3>2
    <2>. QED  BY <1>3, <2>3, ReturnsOrderly DEF TransferComplete
  <1>4. CASE SetupComplete
    <2>1. Calm(SetupReceived(dev, hreq))
      BY <1>0, <1>4, SetupReceivedCalm DEF SetupComplete
    <2>. QED  BY <1>4, <2>1, ReturnsOrderly DEF SetupComplete
  <1>5. ASSUME NEW event \in {"underflow", "overflow"}
        PROVE  LET d == [dev EXCEPT !.errors = @ \ {event}] IN
               /\ d \in DevType /\ Good(d) /\ Calm(d)
               /\ Same(d, dev) /\ d.setup = dev.setup
    <2>. DEFINE d == [dev EXCEPT !.errors = @ \ {event}]
    <2>1. dev.errors \ {event} \in SUBSET {"underflow", "overflow"}
      BY <1>0 DEF DevType
    <2>2. d \in DevType /\ Same(d, dev) /\ d.setup = dev.setup /\ d.done = dev.done
      BY <1>0, <2>1, EventFields
    <2>3. /\ d.errors \subseteq dev.errors /\ d.watched = dev.watched
          /\ d.buffer = dev.buffer /\ d.report = dev.report /\ d.unasked = dev.unasked
      BY <1>0 DEF DevType
    <2>. HIDE DEF d
    <2>4. Good(d)
      BY <1>0, <2>2, SameGood
    <2>5. Calm(d)
      BY <1>0, <2>2, <2>3 DEF Same, Calm, OwnCallback, OwnReport, OnTime, Underway, Stalled
    <2>. QED  BY <2>2, <2>4, <2>5 DEF d
  <1>6. CASE UnderflowEvent
    <2>. DEFINE d == [dev EXCEPT !.errors = @ \ {"underflow"}]
    <2>1. d \in DevType /\ Good(d) /\ Calm(d) /\ Same(d, dev) /\ d.setup = dev.setup
      BY <1>5
    <2>2. /\ dev' = IF d.in.nak THEN Underflow(d, hreq) ELSE d
          /\ "underflow" \in dev.errors /\ Returns
      BY <1>6 DEF UnderflowEvent
    <2>. HIDE DEF d
    <2>3. d.in.nak => d.setup \/ d.stage # "WAIT_OUT_ZLP"
      BY <1>0, <2>1, <2>2 DEF Calm, OnTime, Same
    <2>4. Calm(dev')
      BY <1>0, <2>1, <2>2, <2>3, UnderflowCalm
    <2>. QED  BY <2>2, <2>4, ReturnsOrderly
  <1>7. CASE OverflowEvent
    <2>. DEFINE d == [dev EXCEPT !.errors = @ \ {"overflow"}]
    <2>1. d \in DevType /\ Good(d) /\ Calm(d) /\ Same(d, dev) /\ d.setup = dev.setup
      BY <1>5
    <2>2. /\ dev' = IF d.out.nak THEN Overflow(d, hreq) ELSE d
          /\ Returns
      BY <1>7 DEF OverflowEvent
    <2>. HIDE DEF d
    <2>3. "overflow" \in dev.errors
      BY <1>0, <1>7 DEF OverflowEvent, InTurn, DevType
    <2>4. d.out.nak => d.setup \/ d.stage # "WAIT_IN_ZLP" \/ Spilt(d.req)
      BY <1>0, <2>1, <2>3 DEF Calm, OnTime, Same
    <2>5. Calm(dev')
      BY <1>0, <2>1, <2>2, <2>4, OverflowCalm
    <2>. QED  BY <2>2, <2>5, ReturnsOrderly
  <1>. QED  BY <1>1, <1>2, <1>3, <1>4, <1>6, <1>7 DEF Interrupt

LEMMA ResetOrderly == ASSUME OInv, Reset PROVE OrderlyInv'
  <1>0. /\ dev \in DevType /\ Good(dev) /\ Calm(dev) /\ order = "kept" /\ Answered
        /\ dev.done = {} /\ ~dev.setup
    BY DEF OInv, DInv, IInv, Good, GoodDev, Answered, Reset, Quiet
  <1>1. /\ dev' = BusReset(dev) /\ hstage' = "idle" /\ order' = order
        /\ running' = "none" /\ hreq' = hreq /\ failed' = failed
    BY DEF Reset, Quiet
  <1>2. /\ dev'.stage = "SETUP" /\ dev'.callback = "none" /\ dev'.done = {} /\ ~dev'.setup
        /\ ~dev'.in.stall
    BY <1>0, <1>1, BusResetGood
  <1>3. ~dev'.unasked
    <2>. DEFINE e == [dev EXCEPT !.address = 0, !.owed = FALSE,
                                 !.in = [@ EXCEPT !.stall = FALSE],
                                 !.out = [@ EXCEPT !.stall = FALSE, !.ready = FALSE]]
    <2>1. /\ [dev.in EXCEPT !.stall = FALSE] \in EndpointType
          /\ [dev.out EXCEPT !.stall = FALSE, !.ready = FALSE] \in EndpointType
      BY <1>0, EndpointTypes DEF DevType
    <2>2. e \in DevType /\ e.unasked = dev.unasked
      BY <1>0, <2>1 DEF DevType
    <2>3. dev' = CtrlInit(e)
      BY <1>1, Zenon DEF BusReset
    <2>. HIDE DEF e
    <2>. QED  BY <1>0, <2>2, <2>3, CtrlInitUnasked DEF Calm, OwnCallback
  <1>4. Calm(dev)'
    BY <1>1, <1>2, <1>3 DEF Calm, OwnCallback, OwnReport, OnTime, Underway, Stalled, Waits
  <1>. QED  BY <1>0, <1>1, <1>4 DEF OrderlyInv, InTurn, Answered

\* What a token leaves in the rest of the record.
LEMMA InTokenAside ==
    ASSUME NEW d \in DevType, ~d.in.stall
    PROVE  LET e == InToken(d) IN
           /\ e.watched = d.watched /\ e.buffer = d.buffer
           /\ e.report = d.report /\ e.unasked = d.unasked
           /\ d.in.ready => e.errors = d.errors
           /\ ~d.in.ready => e.errors = d.errors \cup {"underflow"}
  BY DEF InToken, DevType

LEMMA OutTokenAside ==
    ASSUME NEW d \in DevType, NEW n \in 0 .. EpSize, ~d.out.stall
    PROVE  LET e == OutToken(d, n) IN
           /\ e.watched = d.watched /\ e.report = d.report /\ e.unasked = d.unasked
           /\ d.out.ready => e.errors = d.errors /\ e.buffer = "data"
           /\ ~d.out.ready => e.errors = d.errors \cup {"overflow"} /\ e.buffer = d.buffer
  BY DEF OutToken, DevType

LEMMA SetupTokenAside ==
    ASSUME NEW d \in DevType, NEW hidden \in BOOLEAN
    PROVE  LET e == SetupToken(d, hidden) IN
           /\ e.watched = d.watched /\ e.report = d.report /\ e.unasked = d.unasked
           /\ e.errors = d.errors
  <1>. DEFINE s == IF hidden THEN {} ELSE d.done
              e == [d EXCEPT !.setup = TRUE,
                             !.in = [@ EXCEPT !.ready = FALSE, !.stall = FALSE],
                             !.out = [@ EXCEPT !.ready = FALSE, !.stall = FALSE,
                                               !.count = EpSize],
                             !.buffer = "setup",
                             !.done = s]
  <1>1. SetupToken(d, hidden) = e
    BY Zenon DEF SetupToken
  <1>. HIDE DEF s
  <1>. QED  BY <1>1 DEF DevType

LEMMA HostSetupOrderly ==
    ASSUME Orderly, OInv, NEW r \in Requests, HostSetup(r) PROVE OrderlyInv'
  <1>0. dev \in DevType /\ Good(dev) /\ HostType /\ Calm(dev) /\ InTurn
    BY DEF OInv, DInv, IInv, Good, GoodDev
  <1>1. PICK hidden \in BOOLEAN : dev' = SetupToken(dev, hidden)
    BY DEF HostSetup
  <1>2. /\ dev'.setup
        /\ dev'.stage = dev.stage /\ dev'.req = dev.req /\ dev'.callback = dev.callback
        /\ dev'.owed = dev.owed
        /\ ~dev'.in.stall /\ dev'.out.nak = dev.out.nak
    BY <1>0, <1>1, SetupTokenFields
  <1>3. /\ dev'.watched = dev.watched /\ dev'.report = dev.report
        /\ dev'.unasked = dev.unasked /\ dev'.errors = dev.errors
    BY <1>0, <1>1, SetupTokenAside
  <1>4. /\ hstage = "idle" /\ order' = "kept" /\ failed' = FALSE /\ running' = running
    BY DEF HostSetup, Orderly
  <1>5. dev.stage = "SETUP" => ~dev.out.nak
    BY <1>0, <1>4 DEF Good, GoodNaks
  <1>6. OwnCallback(dev)'
    BY <1>0, <1>2, <1>3, <1>4 DEF Calm, OwnCallback
  <1>7. OwnReport(dev)' /\ OnTime(dev)'
    BY <1>0, <1>2, <1>3, <1>4, <1>5 DEF Calm, OwnReport, OnTime
  <1>8. Underway(dev)' /\ Stalled(dev)'
    BY <1>2 DEF Underway, Stalled
  <1>9. InTurn'
    BY <1>0, <1>2, <1>3, <1>4 DEF InTurn, Entered
  <1>. QED  BY <1>4, <1>6, <1>7, <1>8, <1>9 DEF OrderlyInv, Calm, Answered

\* Only a request that is not known, or whose data are not all taken, is
\* refused, and neither has a callback.
LEMMA RefusedOrderly ==
    ASSUME OInv, hstage # "idle", dev.in.stall, Refused, running' = running
    PROVE  OrderlyInv'
  <1>0. /\ dev \in DevType /\ Good(dev) /\ HostType /\ Calm(dev) /\ InTurn
        /\ order = "kept"
    BY DEF OInv, DInv, IInv, Good, GoodDev
  <1>1. /\ dev' = dev /\ hstage' = "idle" /\ failed' = TRUE /\ hreq' = hreq
        /\ order' = order
    BY DEF Refused
  <1>2. ~dev.setup /\ dev.req = hreq /\ hreq \in Requests
    BY <1>0 DEF Good, GoodSetup, SameRequest, HostType
  <1>3. ~hreq.known \/ Spilt(hreq)
    BY <1>0, <1>2 DEF Calm, Stalled
  <1>4. dev.callback = "none"
    <2>1. hreq.effect = "none"
      BY <1>2, <1>3, RequestFields DEF Spilt
    <2>. QED  BY <1>0, <1>2, <2>1 DEF Calm, OwnCallback
  <1>5. Calm(dev)'
    BY <1>0, <1>1, <1>2, <1>4 DEF Calm, OwnCallback, OwnReport, OnTime, Underway, Stalled
  <1>6. InTurn'
    BY <1>0, <1>1 DEF InTurn, Entered
  <1>. QED  BY <1>0, <1>1, <1>3, <1>5, <1>6 DEF OrderlyInv, Answered

LEMMA HostReadsOrderly ==
    ASSUME OInv, HostReads, running' = running PROVE OrderlyInv'
  <1>0. /\ dev \in DevType /\ Good(dev) /\ HostType /\ Calm(dev) /\ InTurn
        /\ order = "kept" /\ Answered
    BY DEF OInv, DInv, IInv, Good, GoodDev, Answered
  <1>1. hstage = "data" /\ hreq.in
    BY DEF HostReads
  <1>2. CASE dev.in.stall
    BY <1>1, <1>2, RefusedOrderly DEF HostReads
  <1>3. CASE ~dev.in.stall
    <2>1. /\ dev' = InToken(dev)
          /\ hcount' = IF dev.in.ready THEN hcount + dev.in.count ELSE hcount
          /\ hstage' = IF dev.in.ready
                          /\ (dev.in.count < EpSize \/ hcount' >= hreq.wLength)
                       THEN "status" ELSE "data"
          /\ hreq' = hreq /\ order' = order /\ failed' = failed
      BY <1>1, <1>3 DEF HostReads
    <2>2. /\ dev'.stage = dev.stage /\ dev'.req = dev.req
          /\ dev'.callback = dev.callback /\ dev'.setup = dev.setup
          /\ dev'.owed = dev.owed /\ dev'.out = dev.out
          /\ dev'.in.stall = dev.in.stall /\ dev'.in.count = dev.in.count
          /\ IF dev.in.ready
             THEN dev'.done = dev.done \cup {"in"} /\ dev'.in.nak = dev.in.nak
             ELSE dev'.done = dev.done
      BY <1>0, <1>3, <2>1, InTokenFields
    <2>3. /\ dev'.watched = dev.watched /\ dev'.buffer = dev.buffer
          /\ dev'.report = dev.report /\ dev'.unasked = dev.unasked
          /\ dev.in.ready => dev'.errors = dev.errors
          /\ ~dev.in.ready => dev'.errors = dev.errors \cup {"underflow"}
      BY <1>0, <1>3, <2>1, InTokenAside
    <2>4. dev.in.ready => ~dev.setup /\ dev.stage = "DATA_IN" /\ dev.done = {}
      BY <1>0, <1>1, <1>3 DEF Good, GoodDev, GoodSetup, SameRequest, GoodLeft, GoodIn,
                              DevType, Stages
    <2>5. ~dev.setup => dev.stage \notin {"WAIT_OUT_ZLP", "WAIT_IN_ZLP", "DATA_OUT", "SETUP"}
                        /\ dev.req = hreq
      BY <1>0, <1>1 DEF Calm, OnTime, Good, GoodDev, SameRequest
    <2>6. Answered' /\ order' = "kept"
      BY <1>0, <2>1 DEF Answered
    <2>7. CASE dev.in.ready
      <3>1. Underway(dev)'
        <4>. SUFFICES ASSUME hstage' = "data"
                      PROVE  dev'.in.count = EpSize /\ hcount' < dev'.req.wLength
          BY <2>2, <2>4, <2>7 DEF Underway
        <4>1. dev.in.count \in 0 .. EpSize /\ EpSize \in Nat
          BY <1>0, Sizes DEF DevType, EndpointType
        <4>2. hreq.wLength \in Nat /\ hcount \in Nat
          BY <1>0, <1>1, RequestFields DEF HostType, ControlRequest
        <4>. QED  BY <2>1, <2>2, <2>4, <2>5, <2>7, <4>1, <4>2
      <3>2. OwnCallback(dev)' /\ OwnReport(dev)'
        BY <1>0, <2>1, <2>2, <2>3, <2>4, <2>7 DEF Calm, OwnCallback, OwnReport, Waits
      <3>3. OnTime(dev)' /\ Stalled(dev)'
        BY <1>0, <2>2, <2>3, <2>4, <2>7 DEF Calm, OnTime, Stalled
      <3>4. InTurn'
        BY <1>0, <2>2, <2>3, <2>4, <2>7 DEF InTurn
      <3>. QED  BY <2>6, <3>1, <3>2, <3>3, <3>4 DEF OrderlyInv, Calm
    <2>8. CASE ~dev.in.ready
      <3>1. hstage' = "data" /\ hcount' = hcount
        BY <2>1, <2>8
      <3>2. OwnCallback(dev)' /\ OwnReport(dev)'
        BY <1>0, <1>1, <2>2, <2>3, <2>8, <3>1 DEF Calm, OwnCallback, OwnReport
      <3>3. OnTime(dev)' /\ Stalled(dev)'
        BY <1>0, <2>2, <2>3, <2>5, <2>8, <3>1 DEF Calm, OnTime, Stalled
      <3>4. Underway(dev)'
        BY <1>0, <1>1, <2>2, <2>8, <3>1 DEF Calm, Underway
      <3>5. InTurn'
        BY <1>0, <2>2, <2>3, <2>8, <3>1 DEF InTurn, Entered
      <3>. QED  BY <2>6, <3>2, <3>3, <3>4, <3>5 DEF OrderlyInv, Calm
    <2>. QED  BY <2>7, <2>8
  <1>. QED  BY <1>2, <1>3

LEMMA HostWritesOrderly ==
    ASSUME OInv, HostWrites, running' = running PROVE OrderlyInv'
  <1>0. /\ dev \in DevType /\ Good(dev) /\ HostType /\ Calm(dev) /\ InTurn
        /\ order = "kept" /\ Answered
    BY DEF OInv, DInv, IInv, Good, GoodDev, Answered
  <1>1. hstage = "data" /\ ~hreq.in
    BY DEF HostWrites
  <1>2. CASE dev.out.stall
    BY <1>0, <1>1, <1>2, RefusedOrderly DEF HostWrites, Good, GoodDev
  <1>3. CASE ~dev.out.stall
    <2>. DEFINE n == Lesser(EpSize, hreq.wLength - hcount)
    <2>1. /\ dev' = OutToken(dev, n)
          /\ hcount' = IF dev.out.ready THEN hcount + n ELSE hcount
          /\ hstage' = IF hcount' = hreq.wLength THEN "status" ELSE "data"
          /\ hreq' = hreq /\ order' = order /\ failed' = failed
      BY <1>1, <1>3 DEF HostWrites
    <2>2. /\ hreq.wLength \in Nat /\ hcount \in Nat /\ hcount < hreq.wLength
          /\ EpSize \in Nat /\ EpSize > 0
      BY <1>0, <1>1, RequestFields, Sizes DEF HostType, ControlRequest
    <2>3. n \in 1 .. EpSize /\ n \in 0 .. EpSize
          /\ (n = EpSize \/ hcount + n = hreq.wLength)
      BY <2>2 DEF Lesser
    <2>. HIDE DEF n
    <2>4. /\ dev'.stage = dev.stage /\ dev'.req = dev.req
          /\ dev'.callback = dev.callback /\ dev'.setup = dev.setup
          /\ dev'.owed = dev.owed /\ dev'.in = dev.in
          /\ IF dev.out.ready
             THEN /\ dev'.done = dev.done \cup {"out"} /\ dev'.out.count = n
                  /\ dev'.out.nak = dev.out.nak
             ELSE dev'.done = dev.done /\ dev'.out.count = dev.out.count
      BY <1>0, <1>3, <2>1, <2>3, OutTokenFields
    <2>5. /\ dev'.watched = dev.watched
          /\ dev'.report = dev.report /\ dev'.unasked = dev.unasked
          /\ dev.out.ready => dev'.errors = dev.errors /\ dev'.buffer = "data"
          /\ ~dev.out.ready => /\ dev'.errors = dev.errors \cup {"overflow"}
                               /\ dev'.buffer = dev.buffer
      BY <1>0, <1>3, <2>1, <2>3, OutTokenAside
    <2>6. dev.out.ready => ~dev.setup /\ dev.stage = "DATA_OUT" /\ dev.done = {}
      BY <1>0, <1>1, <1>3 DEF Good, GoodDev, GoodSetup, SameRequest, GoodLeft, GoodOut,
                              DevType, Stages
    <2>7. ~dev.setup => /\ dev.stage \notin {"WAIT_OUT_ZLP", "DATA_IN", "SETUP"}
                        /\ dev.stage = "WAIT_IN_ZLP" => Spilt(dev.req)
      BY <1>0, <1>1 DEF Calm, OnTime, Good, GoodDev, SameRequest
    <2>8. Answered' /\ order' = "kept"
      BY <1>0, <2>1 DEF Answered
    <2>9. CASE dev.out.ready
      <3>1. hstage' = "data" => n = EpSize
        BY <2>1, <2>3, <2>9
      <3>2. Underway(dev)' /\ OwnReport(dev)'
        BY <2>3, <2>4, <2>5, <2>6, <2>9, <3>1 DEF Underway, OwnReport
      <3>3. OwnCallback(dev)'
        BY <1>0, <2>4, <2>5, <2>6, <2>9 DEF Calm, OwnCallback, Waits
      <3>4. OnTime(dev)' /\ Stalled(dev)'
        BY <1>0, <2>4, <2>5, <2>6, <2>9 DEF Calm, OnTime, Stalled
      <3>5. InTurn'
        BY <1>0, <2>4, <2>5, <2>6, <2>9 DEF InTurn
      <3>. QED  BY <2>8, <3>2, <3>3, <3>4, <3>5 DEF OrderlyInv, Calm
    <2>10. CASE ~dev.out.ready
      <3>1. hstage' = "data" /\ hcount' = hcount
        BY <2>1, <2>2, <2>10
      <3>2. OwnCallback(dev)' /\ OwnReport(dev)'
        BY <1>0, <1>1, <2>4, <2>5, <2>10, <3>1 DEF Calm, OwnCallback, OwnReport
      <3>3. OnTime(dev)' /\ Stalled(dev)'
        BY <1>0, <2>4, <2>5, <2>7, <2>10, <3>1 DEF Calm, OnTime, Stalled
      <3>4. Underway(dev)'
        BY <1>0, <1>1, <2>4, <2>10, <3>1 DEF Calm, Underway
      <3>5. InTurn'
        BY <1>0, <2>4, <2>5, <2>10, <3>1 DEF InTurn, Entered
      <3>. QED  BY <2>8, <3>2, <3>3, <3>4, <3>5 DEF OrderlyInv, Calm
    <2>. QED  BY <2>9, <2>10
  <1>. QED  BY <1>2, <1>3

\* The callback is owed from here on.
LEMMA AcknowledgedOrderly ==
    ASSUME OInv, NEW d \in DevType, Acknowledged(d), running' = running,
           ~d.setup, d.stage \in Waits, d.stage = dev.stage, d.req = dev.req,
           d.callback = dev.callback, d.done # {}, d.in.stall = dev.in.stall,
           d.in.nak = dev.in.nak, d.out.nak = dev.out.nak,
           d.report = dev.report, d.unasked = dev.unasked,
           d.watched = dev.watched, d.errors = dev.errors, ~dev.setup
    PROVE  OrderlyInv'
  <1>. DEFINE b == d.callback # "none"
  <1>0. Calm(dev) /\ InTurn /\ order = "kept" /\ Answered
    BY DEF OInv, Answered
  <1>1. /\ dev' = [d EXCEPT !.owed = b]
        /\ hstage' = "idle" /\ hreq' = hreq /\ order' = order /\ failed' = failed
    BY DEF Acknowledged
  <1>2. /\ dev'.stage = d.stage /\ dev'.req = d.req /\ dev'.callback = d.callback
        /\ dev'.setup = d.setup /\ dev'.done = d.done
        /\ dev'.in = d.in /\ dev'.out = d.out
    <2>1. b \in BOOLEAN
      OBVIOUS
    <2>. HIDE DEF b
    <2>. QED  BY <1>1, <2>1, OwedFields
  <1>3. /\ dev'.errors = d.errors /\ dev'.watched = d.watched /\ dev'.report = d.report
        /\ dev'.unasked = d.unasked /\ dev'.owed = b
    BY <1>1 DEF DevType
  <1>4. OwnCallback(dev)' /\ OwnReport(dev)'
    BY <1>0, <1>1, <1>2, <1>3 DEF Calm, OwnCallback, OwnReport, Waits
  <1>5. OnTime(dev)' /\ Underway(dev)' /\ Stalled(dev)'
    BY <1>0, <1>1, <1>2, <1>3 DEF Calm, OnTime, Underway, Stalled
  <1>6. InTurn'
    BY <1>0, <1>1, <1>2, <1>3 DEF InTurn, Entered
  <1>. QED  BY <1>0, <1>1, <1>4, <1>5, <1>6 DEF OrderlyInv, Calm, Answered

\* A token of the status stage that was not accepted: its event says that the
\* host waits for the device, not that it is ahead.
LEMMA WaitingOrderly ==
    ASSUME OInv, hstage = "status", UNCHANGED host, running' = running,
           dev'.stage = dev.stage, dev'.req = dev.req, dev'.callback = dev.callback,
           dev'.setup = dev.setup, dev'.done = dev.done, dev'.owed = dev.owed,
           dev'.watched = dev.watched, dev'.buffer = dev.buffer,
           dev'.report = dev.report, dev'.unasked = dev.unasked,
           dev'.in.stall = dev.in.stall, dev'.in.count = dev.in.count,
           dev'.out.count = dev.out.count,
           \/ /\ hreq.in
              /\ dev'.in.nak = dev.in.nak
              /\ dev'.errors = dev.errors \cup {"overflow"}
           \/ /\ ~hreq.in
              /\ dev'.out.nak = dev.out.nak
              /\ dev'.errors = dev.errors \cup {"underflow"}
    PROVE  OrderlyInv'
  <1>0. /\ dev \in DevType /\ Good(dev) /\ HostType /\ Calm(dev) /\ InTurn
        /\ order = "kept" /\ Answered
    BY DEF OInv, DInv, IInv, Good, GoodDev, Answered
  <1>1. /\ hstage' = "status" /\ hreq' = hreq /\ hcount' = hcount /\ order' = order
        /\ failed' = failed
    BY DEF host
  <1>2. dev.setup => ~hreq.in
    BY <1>0 DEF Good, GoodSetup
  <1>3. ~dev.setup => IF hreq.in THEN dev.stage \notin {"DATA_OUT", "WAIT_IN_ZLP"}
                                 ELSE dev.stage \notin {"DATA_IN", "WAIT_OUT_ZLP"}
    BY <1>0 DEF Good, GoodDev, SameRequest
  <1>4. OwnCallback(dev)' /\ OwnReport(dev)'
    BY <1>0, <1>1 DEF Calm, OwnCallback, OwnReport
  <1>5. OnTime(dev)'
    BY <1>0, <1>1, <1>2, <1>3 DEF Calm, OnTime
  <1>6. Underway(dev)' /\ Stalled(dev)'
    BY <1>0, <1>1 DEF Calm, Underway, Stalled
  <1>7. InTurn'
    BY <1>0, <1>1, <1>3 DEF InTurn, Entered
  <1>. QED  BY <1>0, <1>1, <1>4, <1>5, <1>6, <1>7 DEF OrderlyInv, Calm, Answered

LEMMA HostConfirmsOrderly ==
    ASSUME OInv, HostConfirms, running' = running PROVE OrderlyInv'
  <1>0. /\ dev \in DevType /\ Good(dev) /\ HostType /\ order = "kept"
        /\ hstage = "status" /\ 0 \in 0 .. EpSize
    BY Sizes DEF OInv, DInv, IInv, Good, GoodDev, HostConfirms
  <1>1. CASE hreq.in
    <2>1. CASE dev.out.stall
      BY <1>0, <1>1, <2>1, RefusedOrderly DEF HostConfirms, Good, GoodDev
    <2>2. CASE ~dev.out.stall /\ dev.out.ready
      <3>. DEFINE d == OutToken(dev, 0)
      <3>1. Acknowledged(d)
        BY <1>0, <1>1, <2>2 DEF HostConfirms
      <3>2. /\ d \in DevType
            /\ d.stage = dev.stage /\ d.req = dev.req /\ d.callback = dev.callback
            /\ d.setup = dev.setup /\ d.in = dev.in
            /\ d.done = dev.done \cup {"out"} /\ d.out.nak = dev.out.nak
        BY <1>0, <2>2, OutTokenFields
      <3>3. /\ d.watched = dev.watched /\ d.report = dev.report
            /\ d.unasked = dev.unasked /\ d.errors = dev.errors
        BY <1>0, <2>2, OutTokenAside
      <3>. HIDE DEF d
      <3>4. ~dev.setup /\ dev.stage \in Waits
        BY <1>0, <1>1, <2>2 DEF Good, GoodDev, GoodSetup, SameRequest, GoodIn, GoodOut,
                                DevType, Stages, Moves, Waits
      <3>. QED  BY <3>1, <3>2, <3>3, <3>4, AcknowledgedOrderly
    <2>3. CASE ~dev.out.stall /\ ~dev.out.ready
      <3>1. dev' = OutToken(dev, 0) /\ UNCHANGED host
        BY <1>0, <1>1, <2>3 DEF HostConfirms
      <3>2. /\ dev'.stage = dev.stage /\ dev'.req = dev.req
            /\ dev'.callback = dev.callback
            /\ dev'.setup = dev.setup /\ dev'.done = dev.done
            /\ dev'.owed = dev.owed /\ dev'.in = dev.in
            /\ dev'.out.count = dev.out.count
        BY <1>0, <2>3, <3>1, OutTokenFields
      <3>3. /\ dev'.watched = dev.watched /\ dev'.buffer = dev.buffer
            /\ dev'.report = dev.report /\ dev'.unasked = dev.unasked
            /\ dev'.errors = dev.errors \cup {"overflow"}
        BY <1>0, <2>3, <3>1, OutTokenAside
      <3>. QED  BY <1>0, <1>1, <3>1, <3>2, <3>3, WaitingOrderly
    <2>. QED  BY <2>1, <2>2, <2>3
  <1>2. CASE ~hreq.in
    <2>1. CASE dev.in.stall
      BY <1>0, <1>2, <2>1, RefusedOrderly DEF HostConfirms
    <2>2. CASE ~dev.in.stall /\ dev.in.ready
      <3>. DEFINE d == InToken(dev)
      <3>1. Acknowledged(d)
        BY <1>0, <1>2, <2>2 DEF HostConfirms
      <3>2. /\ d \in DevType
            /\ d.stage = dev.stage /\ d.req = dev.req /\ d.callback = dev.callback
            /\ d.setup = dev.setup /\ d.out = dev.out /\ d.in.stall = dev.in.stall
            /\ d.done = dev.done \cup {"in"} /\ d.in.nak = dev.in.nak
        BY <1>0, <2>2, InTokenFields
      <3>3. /\ d.watched = dev.watched /\ d.report = dev.report
            /\ d.unasked = dev.unasked /\ d.errors = dev.errors
        BY <1>0, <2>2, InTokenAside
      <3>. HIDE DEF d
      <3>4. ~dev.setup /\ dev.stage \in Waits
        BY <1>0, <1>2, <2>2 DEF Good, GoodDev, GoodSetup, SameRequest, GoodIn, GoodOut,
                                DevType, Stages, Moves, Waits
      <3>. QED  BY <3>1, <3>2, <3>3, <3>4, AcknowledgedOrderly
    <2>3. CASE ~dev.in.stall /\ ~dev.in.ready
      <3>1. dev' = InToken(dev) /\ UNCHANGED host
        BY <1>0, <1>2, <2>3 DEF HostConfirms
      <3>2. /\ dev'.stage = dev.stage /\ dev'.req = dev.req
            /\ dev'.callback = dev.callback
            /\ dev'.setup = dev.setup /\ dev'.done = dev.done
            /\ dev'.owed = dev.owed /\ dev'.out = dev.out
            /\ dev'.in.stall = dev.in.stall /\ dev'.in.count = dev.in.count
        BY <1>0, <2>3, <3>1, InTokenFields
      <3>3. /\ dev'.watched = dev.watched /\ dev'.buffer = dev.buffer
            /\ dev'.report = dev.report /\ dev'.unasked = dev.unasked
            /\ dev'.errors = dev.errors \cup {"underflow"}
        BY <1>0, <2>3, <3>1, InTokenAside
      <3>. QED  BY <1>0, <1>2, <3>1, <3>2, <3>3, WaitingOrderly
    <2>. QED  BY <2>1, <2>2, <2>3
  <1>. QED  BY <1>1, <1>2

LEMMA OInvInit == Init => OInv
  <1>1. Init => OrderlyInv
    BY DEF Init, Attached, OrderlyInv, Calm, OwnCallback, OwnReport, OnTime, Underway,
           Stalled, InTurn, Answered, Waits
  <1>. QED  BY <1>1, DInvInit, OInvIs

LEMMA OInvNext == ASSUME Orderly, OInv, [Next]_vars PROVE OInv'
  <1>1. DInv'
    BY DInvNext DEF OInv
  <1>2. OrderlyInv'
    <2>1. ASSUME NEW r \in Requests, HostSetup(r) PROVE OrderlyInv'
      BY <2>1, HostSetupOrderly
    <2>2. CASE HostToken
      BY <2>2, HostReadsOrderly, HostWritesOrderly, HostConfirmsOrderly DEF HostToken
    <2>3. ~HostStops /\ ~HostAsksMore
      BY DEF Orderly, HostStops, HostAsksMore
    <2>4. ASSUME NEW event \in {"underflow", "overflow"}, OtherNak(event)
          PROVE  OrderlyInv'
      BY <2>4 DEF Orderly, OtherNak
    <2>5. CASE Interrupt
      BY <2>5, InterruptOrderly
    <2>6. CASE Reset
      BY <2>6, ResetOrderly
    <2>7. CASE UNCHANGED vars
      BY <2>7 DEF vars, host, OInv, OrderlyInv, Calm, OwnCallback, OwnReport, OnTime,
                  Underway, Stalled, InTurn, Entered, Answered
    <2>. QED  BY <2>1, <2>2, <2>3, <2>4, <2>5, <2>6, <2>7 DEF Next
  <1>3. OInv' <=> DInv' /\ OrderlyInv'
    BY DEF OInv, OrderlyInv, Answered
  <1>. QED  BY <1>1, <1>2, <1>3

LEMMA OrderlyHolds == Orderly => (Spec => []OInv)
  <1>. SUFFICES ASSUME Orderly PROVE Spec => []OInv
    OBVIOUS
  <1>1. OInv /\ [Next]_vars => OInv'
    BY OInvNext
  <1>. QED  BY OInvInit, <1>1, PTL DEF Spec

-----------------------------------------------------------------------------
(***************************************************************************)
(* The theorems for an orderly host.                                       *)
(***************************************************************************)
\* The callback of a request only runs after the host has seen the handshake
\* of the request, whichever of the three handlers runs it: udc_valid_address
\* and the setreport callbacks do not act on a request that was given up.
THEOREM EffectsFollowAcks == Orderly => (Spec => []EffectsAreAcked)
  <1>1. OInv => EffectsAreAcked
    BY DEF OInv, Calm, OwnCallback, EffectsAreAcked
  <1>. QED  BY <1>1, OrderlyHolds, PTL

\* The report a SET_REPORT hands to the class driver was sent with it: the
\* buffer of endpoint 0 holds the bytes of a packet of the data stage when
\* udd_ctrl_out_received copies it, not those of a SETUP packet.
THEOREM ReportsAreWhole == Orderly => (Spec => []ReportIsWhole)
  <1>1. OInv => ReportIsWhole
    <2>. SUFFICES ASSUME OInv, dev.owed, dev.callback = "report", ~dev.req.in
                  PROVE  dev.report = "data"
      BY DEF ReportIsWhole
    <2>1. dev.stage = "WAIT_IN_ZLP"
      BY DEF OInv, DInv, IInv, Good, GoodDev, GoodCallback, Waits
    <2>. QED  BY <2>1 DEF OInv, Calm, OwnReport
  <1>. QED  BY <1>1, OrderlyHolds, PTL

\* A request the device knows is served to its end: no event that is left from
\* the data stage makes udd_ctrl_underflow or udd_ctrl_overflow stall the
\* status stage.
THEOREM KnownAreServed == Orderly => (Spec => []KnownNeverFails)
  <1>1. OInv => KnownNeverFails
    BY DEF OInv, Spilt, KnownNeverFails
  <1>. QED  BY <1>1, OrderlyHolds, PTL

=============================================================================
