---------------------------- MODULE UdcRequests -----------------------------
(***************************************************************************)
(* What the device makes of a SETUP packet: udc_process_setup of udc.c,    *)
(* which tries the standard requests, then the interface, then the         *)
(* endpoints, and udi_hid_setup of udi_hid.c with the setreport functions  *)
(* of the three class drivers behind it.                                   *)
(*                                                                         *)
(* The answer is what ControlRequests says: whether the request is known,  *)
(* the size of its payload, and the callback for its end.                  *)
(* Endpoints are in UsbComposite; here enabling an interface may fail.     *)
(***************************************************************************)
EXTENDS ControlRequests, Naturals

\* Descriptor types, the high byte of wValue; report types; feature selectors.
DEVICE == 1
HID == 33
REPORT == 34
ENDPOINT_HALT == 0
REMOTE_WAKEUP == 1

CONSTANTS
    NbIface,        \* USB_DEVICE_NB_INTERFACE
    DescLen,        \* the length of each descriptor, by type and number
    HidLen,         \* bLength of the HID descriptor
    ReportDescLen,  \* wDescriptorLength of each interface
    Reports,        \* the reports SET_REPORT and GET_REPORT know, by interface:
                    \* their type and their length
    Requests        \* what the host may send

Iface == 0 .. NbIface - 1

\* bRequest, as its type names it; "none" is any other.
RequestName ==
    {"GET_STATUS", "CLEAR_FEATURE", "SET_FEATURE", "SET_ADDRESS", "GET_DESCRIPTOR",
     "GET_CONFIGURATION", "SET_CONFIGURATION", "GET_INTERFACE", "SET_INTERFACE",
     "GET_REPORT", "GET_IDLE", "GET_PROTOCOL", "SET_REPORT", "SET_IDLE",
     "SET_PROTOCOL", "none"}

(***************************************************************************)
(* A SETUP packet: hi and lo are the bytes of wValue, index the low byte   *)
(* of wIndex.                                                              *)
(***************************************************************************)
RequestType ==
    [in : BOOLEAN, type : {"standard", "class"},
     recip : {"device", "interface", "endpoint"},
     req : RequestName, hi : Nat, lo : Nat, index : Nat, wLength : Nat]

ASSUME RequestAssumption ==
    /\ NbIface \in Nat \ {0}
    /\ <<DEVICE, 0>> \in DOMAIN DescLen
    /\ \A d \in DOMAIN DescLen : DescLen[d] \in Nat \ {0}
    /\ HidLen \in Nat \ {0}
    /\ ReportDescLen \in [Iface -> Nat \ {0}]
    /\ Reports \in [Iface -> SUBSET (Nat \X (Nat \ {0}))]
    /\ Requests \subseteq RequestType

VARIABLES
    num_configuration,  \* udc_num_configuration
    address,            \* the device address: 0, or 1 for any other one
    wakeup,             \* the remote wakeup bit of udc_device_status
    rate, protocol,     \* of each class driver
    request, answer     \* the last SETUP packet, and what was made of it

device == <<num_configuration, address, wakeup, rate, protocol>>
vars == <<device, request, answer>>

-----------------------------------------------------------------------------
(***************************************************************************)
(* Answers.                                                                *)
(***************************************************************************)
Answer(n, effect) == [known |-> TRUE, payload |-> n, effect |-> effect]
Done == Answer(0, "none")
Refused == [known |-> FALSE, payload |-> 0, effect |-> "none"]

OnlyIf(condition, a) == IF condition THEN a ELSE Refused

\* Wrong variant: all of it, however much was asked for.
AtMost_Unbounded(n, r) == n

AtMost(n, r) == IF r.wLength < n THEN r.wLength ELSE n

\* The low byte selects no device descriptor.
GetDescriptor(r) ==
    LET d == <<r.hi, IF r.hi = DEVICE THEN 0 ELSE r.lo>> IN
    OnlyIf(d \in DOMAIN DescLen, Answer(AtMost(DescLen[d], r), "none"))

IsFeature(feature, r) == r.hi = 0 /\ r.lo = feature

ValidConfiguration(r) == address # 0 /\ r.lo <= 1

GetStatus(r) == OnlyIf(r.wLength = 2, Answer(2, "none"))
GetConfiguration(r) == OnlyIf(r.wLength = 1, Answer(1, "none"))
SetAddress == Answer(0, "address")

\* Standard requests to the device.  ok: the interfaces can be enabled.
DeviceGet(r) ==
    CASE r.req = "GET_STATUS" -> GetStatus(r)
      [] r.req = "GET_DESCRIPTOR" -> GetDescriptor(r)
      [] r.req = "GET_CONFIGURATION" -> GetConfiguration(r)
      [] OTHER -> Refused

DeviceSet(r, ok) ==
    CASE r.req = "SET_ADDRESS" -> SetAddress
      [] r.req \in {"CLEAR_FEATURE", "SET_FEATURE"} -> OnlyIf(IsFeature(REMOTE_WAKEUP, r), Done)
      [] r.req = "SET_CONFIGURATION" ->
            OnlyIf(ValidConfiguration(r) /\ (r.lo = 0 \/ ok), Done)
      [] OTHER -> Refused

Reachable(r) == num_configuration # 0 /\ r.index < NbIface

\* Standard requests to an interface; all have setting 0 only.
IfaceGet(r) ==
    OnlyIf(r.req = "GET_INTERFACE" /\ r.wLength = 1 /\ Reachable(r), Answer(1, "none"))

IfaceSet(r, ok) ==
    OnlyIf(r.req = "SET_INTERFACE" /\ Reachable(r) /\ r.lo = 0 /\ ok, Done)

\* Standard requests to an endpoint.
EndpointGet(r) ==
    OnlyIf(r.req = "GET_STATUS" /\ r.wLength = 2, Answer(2, "none"))

EndpointSet(r) ==
    OnlyIf(r.req \in {"CLEAR_FEATURE", "SET_FEATURE"} /\ IsFeature(ENDPOINT_HALT, r), Done)

\* udc_reqstd: no standard request that sets something carries data.
udc_reqstd(r, ok) ==
    IF r.in
    THEN CASE r.recip = "device" -> DeviceGet(r)
           [] r.recip = "interface" -> IfaceGet(r)
           [] r.recip = "endpoint" -> EndpointGet(r)
    ELSE OnlyIf(r.wLength = 0,
            CASE r.recip = "device" -> DeviceSet(r, ok)
              [] r.recip = "interface" -> IfaceSet(r, ok)
              [] r.recip = "endpoint" -> EndpointSet(r))

\* setreport of the class driver: the report of its type, number 0 and exact
\* length, in whichever direction.
SetReport(i, r) ==
    OnlyIf(<<r.hi, r.wLength>> \in Reports[i] /\ r.lo = 0, Answer(r.wLength, "report"))

HidDescriptor(i, r) ==
    CASE r.hi = HID -> Answer(AtMost(HidLen, r), "none")
      [] r.hi = REPORT -> Answer(AtMost(ReportDescLen[i], r), "none")
      [] OTHER -> Refused

\* udi_hid_setup.
udi_hid_setup(i, r) ==
    CASE r.in /\ r.type = "standard" -> OnlyIf(r.req = "GET_DESCRIPTOR", HidDescriptor(i, r))
      [] r.in /\ r.type = "class" ->
            (CASE r.req = "GET_REPORT" -> SetReport(i, r)
               [] r.req \in {"GET_IDLE", "GET_PROTOCOL"} -> Answer(1, "none")
               [] OTHER -> Refused)
      [] ~r.in /\ r.type = "class" ->
            (CASE r.req = "SET_REPORT" -> SetReport(i, r)
               [] r.req = "SET_IDLE" -> Done
               [] r.req = "SET_PROTOCOL" -> OnlyIf(r.wLength = 0, Done)
               [] OTHER -> Refused)
      [] OTHER -> Refused

\* The interface a request goes to: the one it names, or, for an endpoint,
\* the first that knows the request.  NbIface if there is none.
Addressee(r) ==
    LET knows == {i \in Iface : udi_hid_setup(i, r).known}
        first == {i \in knows : \A j \in knows : i <= j}
    IN  IF num_configuration = 0 \/ r.recip = "device" THEN NbIface
        ELSE IF r.recip = "interface" THEN r.index
        ELSE IF first = {} THEN NbIface
        ELSE CHOOSE i \in first : TRUE

udc_req_iface_ep(r) ==
    OnlyIf(Addressee(r) \in Iface, udi_hid_setup(Addressee(r), r))

\* Wrong variant: what is standard and not known goes no further.
udc_process_setup_StandardStops(r, ok) ==
    IF r.in /\ r.wLength = 0 THEN Refused
    ELSE IF r.type = "standard" THEN udc_reqstd(r, ok)
    ELSE udc_req_iface_ep(r)

\* udc_process_setup: a standard request that is refused is tried on.
udc_process_setup(r, ok) ==
    IF r.in /\ r.wLength = 0 THEN Refused
    ELSE IF r.type = "standard" /\ udc_reqstd(r, ok).known THEN udc_reqstd(r, ok)
    ELSE udc_req_iface_ep(r)

-----------------------------------------------------------------------------
(***************************************************************************)
(* Requests that leave something behind.                                   *)
(***************************************************************************)
Init ==
    /\ num_configuration = 0 /\ address = 0 /\ wakeup = FALSE
    /\ rate = [i \in Iface |-> 0] /\ protocol = [i \in Iface |-> 0]
    /\ request = [in |-> FALSE, type |-> "class", recip |-> "device", req |-> "none",
                  hi |-> 0, lo |-> 0, index |-> 0, wLength |-> 0]
    /\ answer = Refused

\* A standard request to the device that udc_process_setup hands on.
ToDevice(req, r) ==
    /\ r.type = "standard" /\ r.recip = "device" /\ ~r.in /\ r.wLength = 0
    /\ r.req = req

ToIface(r) == r.type = "standard" /\ r.recip = "interface" /\ ~r.in /\ r.wLength = 0

Asked(r, ok) == request' = r /\ answer' = udc_process_setup(r, ok)

\* SET_CONFIGURATION resets the old configuration before it enables the
\* interfaces of the new one: n of them, until one fails, its driver (k = 1) or
\* its endpoints.
SetConfiguration(r) ==
    /\ ToDevice("SET_CONFIGURATION", r) /\ ValidConfiguration(r)
    /\ \E n \in 0 .. NbIface, k \in 0 .. 1 :
          LET reached == IF r.lo = 0 THEN {} ELSE {i \in Iface : i < n + k} IN
          /\ Asked(r, n = NbIface)
          /\ rate' = [i \in Iface |-> IF i \in reached THEN 0 ELSE rate[i]]
          /\ protocol' = [i \in Iface |-> IF i \in reached THEN 0 ELSE protocol[i]]
    /\ num_configuration' = r.lo
    /\ wakeup' = FALSE
    /\ UNCHANGED address

\* SET_INTERFACE(0) enables the driver again.
SetInterface(r) ==
    /\ ToIface(r) /\ r.req = "SET_INTERFACE" /\ Reachable(r)
    /\ \E ok, enabled \in BOOLEAN :
          /\ ok => enabled
          /\ Asked(r, ok)
          /\ IF r.lo = 0 /\ enabled
             THEN /\ rate' = [rate EXCEPT ![r.index] = 0]
                  /\ protocol' = [protocol EXCEPT ![r.index] = 0]
             ELSE UNCHANGED <<rate, protocol>>
    /\ UNCHANGED <<num_configuration, address, wakeup>>

\* SET_FEATURE and CLEAR_FEATURE of remote wakeup.
RemoteWakeup(r) ==
    /\ ToDevice("SET_FEATURE", r) \/ ToDevice("CLEAR_FEATURE", r)
    /\ IsFeature(REMOTE_WAKEUP, r)
    /\ wakeup' = (r.req = "SET_FEATURE")
    /\ Asked(r, TRUE)
    /\ UNCHANGED <<num_configuration, address, rate, protocol>>

\* SET_IDLE and SET_PROTOCOL.
SetDriver(r) ==
    /\ r.type = "class" /\ ~r.in /\ r.req \in {"SET_IDLE", "SET_PROTOCOL"}
    /\ Addressee(r) \in Iface /\ udi_hid_setup(Addressee(r), r).known
    /\ IF r.req = "SET_IDLE"
       THEN rate' = [rate EXCEPT ![Addressee(r)] = r.hi] /\ UNCHANGED protocol
       ELSE protocol' = [protocol EXCEPT ![Addressee(r)] = r.lo] /\ UNCHANGED rate
    /\ Asked(r, TRUE)
    /\ UNCHANGED <<num_configuration, address, wakeup>>

\* All others leave the device as it is.
Other(r) ==
    /\ ~(ToDevice("SET_CONFIGURATION", r) /\ ValidConfiguration(r))
    /\ ~(ToIface(r) /\ r.req = "SET_INTERFACE" /\ Reachable(r))
    /\ ~((ToDevice("SET_FEATURE", r) \/ ToDevice("CLEAR_FEATURE", r))
            /\ IsFeature(REMOTE_WAKEUP, r))
    /\ ~(r.type = "class" /\ ~r.in /\ r.req \in {"SET_IDLE", "SET_PROTOCOL"}
            /\ Addressee(r) \in Iface /\ udi_hid_setup(Addressee(r), r).known)
    /\ Asked(r, TRUE)
    /\ UNCHANGED device

\* The callback of SET_ADDRESS, at the end of its status stage; the next SETUP
\* may come first.
udc_valid_address ==
    /\ answer.effect = "address"
    /\ address' = (IF request.lo = 0 THEN 0 ELSE 1)
    /\ answer' = Done
    /\ UNCHANGED <<num_configuration, wakeup, rate, protocol, request>>

udc_reset ==
    /\ num_configuration' = 0 /\ address' = 0 /\ wakeup' = FALSE
    /\ answer' = Refused
    /\ UNCHANGED <<rate, protocol, request>>

Next ==
    \/ \E r \in Requests :
          SetConfiguration(r) \/ SetInterface(r) \/ RemoteWakeup(r) \/ SetDriver(r) \/ Other(r)
    \/ udc_valid_address
    \/ udc_reset

Spec == Init /\ [][Next]_vars

-----------------------------------------------------------------------------
(***************************************************************************)
(* Properties.                                                             *)
(***************************************************************************)
\* What endpoint 0 finds in udd_g_ctrlreq.
Left(r, a) ==
    [in |-> r.in, wLength |-> r.wLength, known |-> a.known, payload |-> a.payload,
     effect |-> a.effect, value |-> r.lo]

Fits(r, a) == Left(r, a) \in ControlRequest /\ CanBeCarriedOut(Left(r, a))

\* Whatever function answers, and however the request got there, the answer is
\* one endpoint 0 can carry out: data for the host are never none and never more
\* than it asked for, a buffer for data is never larger than what is sent, a
\* callback is only registered for data that are taken whole, and a refused
\* request leaves neither payload nor callback.  ControlEndpoint takes nothing
\* else of its requests as given (ControlAssumption).
AnswerFits == Fits(request, answer)

\* What a host needs to find the three interfaces and their report descriptors.
Needed(r) ==
    \/ /\ r.type = "standard" /\ r.recip = "device" /\ r.in
       /\ \/ r.req = "GET_DESCRIPTOR" /\ <<r.hi, r.lo>> \in DOMAIN DescLen /\ r.wLength > 0
          \/ r.req = "GET_STATUS" /\ r.wLength = 2
    \/ ToDevice("SET_ADDRESS", r)
    \/ /\ num_configuration = 1 /\ r.recip = "interface" /\ r.index < NbIface
       /\ \/ r.type = "standard" /\ r.in /\ r.req = "GET_DESCRIPTOR"
             /\ r.hi \in {HID, REPORT} /\ r.wLength > 0
          \/ r.type = "class" /\ ~r.in /\ r.req = "SET_IDLE"

\* No request an enumerating host depends on is stalled, in the state of the
\* device it is sent in: those for an interface are refused where standard
\* requests are decoded and answered by the class driver.
EnumerationServed == [][Needed(request') /\ request' # request => answer'.known]_vars
=============================================================================
