-------------------------- MODULE UdcRequestsProofs -------------------------
(***************************************************************************)
(* Every answer of udc_process_setup is one endpoint 0 can carry out, and  *)
(* no request of an enumerating host is stalled, for any descriptors,      *)
(* reports and number of interfaces.                                       *)
(***************************************************************************)
EXTENDS UdcRequests, TLAPS

LEMMA AtMostFits ==
    ASSUME NEW n \in Nat \ {0}, NEW r \in RequestType, r.in => r.wLength # 0
    PROVE  /\ AtMost(n, r) \in Nat
           /\ AtMost(n, r) <= r.wLength
           /\ r.in => AtMost(n, r) \in 1 .. r.wLength
<1>1. r.wLength \in Nat
  BY DEF RequestType
<1>2. QED
  BY <1>1 DEF AtMost

LEMMA RefusedFits == ASSUME NEW r \in RequestType PROVE Fits(r, Refused)
<1> DEFINE c == Left(r, Refused)
<1>1. r.in \in BOOLEAN /\ r.wLength \in Nat /\ r.lo \in Nat
  BY DEF RequestType
<1>2. c = [in |-> r.in, wLength |-> r.wLength, known |-> FALSE, payload |-> 0,
           effect |-> "none", value |-> r.lo]
  BY DEF Left, Refused
<1> HIDE DEF c
<1>3. c \in ControlRequest /\ CanBeCarriedOut(c)
  BY <1>1, <1>2 DEF ControlRequest, CanBeCarriedOut
<1>4. QED
  BY <1>3 DEF Fits, c

\* An answer that fits whether or not a condition holds.
LEMMA OnlyIfFits ==
    ASSUME NEW r \in RequestType, NEW condition, NEW a, condition => Fits(r, a)
    PROVE  Fits(r, OnlyIf(condition, a))
BY RefusedFits DEF OnlyIf

LEMMA AnswerOf ==
    ASSUME NEW r \in RequestType, NEW n \in Nat,
           NEW e \in {"none", "address", "report"},
           n <= r.wLength, r.in => n # 0,
           ~r.in /\ e # "none" => n = r.wLength,
           ~r.in /\ e = "report" => n # 0
    PROVE  Fits(r, Answer(n, e))
<1> DEFINE c == Left(r, Answer(n, e))
<1>1. r.in \in BOOLEAN /\ r.wLength \in Nat /\ r.lo \in Nat
  BY DEF RequestType
<1>2. c = [in |-> r.in, wLength |-> r.wLength, known |-> TRUE, payload |-> n,
           effect |-> e, value |-> r.lo]
  BY DEF Left, Answer
<1> HIDE DEF c
<1>3. c \in ControlRequest
  BY <1>1, <1>2 DEF ControlRequest
<1>4. CanBeCarriedOut(c)
  BY <1>1, <1>2 DEF CanBeCarriedOut
<1>5. QED
  BY <1>3, <1>4 DEF Fits, c

LEMMA DoneFits == ASSUME NEW r \in RequestType, ~r.in PROVE Fits(r, Done)
<1>1. r.wLength \in Nat
  BY DEF RequestType
<1>2. QED
  BY <1>1, AnswerOf DEF Done

LEMMA StandardFits ==
    ASSUME NEW r \in RequestType, NEW ok, r.in => r.wLength # 0
    PROVE  Fits(r, udc_reqstd(r, ok))
<1>1. r.wLength \in Nat /\ r.recip \in {"device", "interface", "endpoint"} /\ r.in \in BOOLEAN
  BY DEF RequestType
<1>2. CASE r.in
  <2>1. Fits(r, GetDescriptor(r))
    <3> DEFINE d == <<r.hi, IF r.hi = DEVICE THEN 0 ELSE r.lo>>
    <3>1. d \in DOMAIN DescLen => Fits(r, Answer(AtMost(DescLen[d], r), "none"))
      <4> SUFFICES ASSUME d \in DOMAIN DescLen
                   PROVE  Fits(r, Answer(AtMost(DescLen[d], r), "none"))
        OBVIOUS
      <4>1. DescLen[d] \in Nat \ {0}
        BY RequestAssumption
      <4> HIDE DEF d
      <4>2. AtMost(DescLen[d], r) \in Nat /\ AtMost(DescLen[d], r) <= r.wLength
            /\ AtMost(DescLen[d], r) # 0
        BY <1>1, <1>2, <4>1, AtMostFits
      <4>3. QED
        BY <4>2, AnswerOf
    <3> HIDE DEF d
    <3>2. Fits(r, OnlyIf(d \in DOMAIN DescLen, Answer(AtMost(DescLen[d], r), "none")))
      BY <3>1, OnlyIfFits
    <3>3. QED
      BY <3>2 DEF GetDescriptor, d
  <2>2. r.wLength = 2 => Fits(r, Answer(2, "none"))
    BY AnswerOf
  <2>3. r.wLength = 1 => Fits(r, Answer(1, "none"))
    BY AnswerOf
  <2>4. Fits(r, DeviceGet(r))
    BY <2>1, <2>2, <2>3, RefusedFits DEF DeviceGet, GetStatus, GetConfiguration, OnlyIf
  <2>5. Fits(r, IfaceGet(r)) /\ Fits(r, EndpointGet(r))
    BY <2>2, <2>3, RefusedFits DEF IfaceGet, EndpointGet, OnlyIf
  <2>6. QED
    BY <1>1, <1>2, <2>4, <2>5 DEF udc_reqstd
<1>3. CASE ~r.in
  <2>1. Fits(r, Done) /\ Fits(r, Refused)
    BY <1>3, DoneFits, RefusedFits
  <2>2. r.wLength = 0 => Fits(r, Answer(0, "address"))
    BY <1>1, <1>3, AnswerOf
  <2>3. r.wLength = 0 => Fits(r, DeviceSet(r, ok))
    BY <2>1, <2>2 DEF DeviceSet, SetAddress, OnlyIf
  <2>4. Fits(r, IfaceSet(r, ok)) /\ Fits(r, EndpointSet(r))
    BY <2>1 DEF IfaceSet, EndpointSet, OnlyIf
  <2>5. QED
    BY <1>1, <1>3, <2>1, <2>3, <2>4 DEF udc_reqstd, OnlyIf
<1>4. QED
  BY <1>1, <1>2, <1>3

LEMMA HidFits ==
    ASSUME NEW r \in RequestType, NEW i \in Iface, r.in => r.wLength # 0
    PROVE  Fits(r, udi_hid_setup(i, r))
<1>1. r.wLength \in Nat /\ r.type \in {"standard", "class"} /\ r.in \in BOOLEAN
  BY DEF RequestType
<1>2. Fits(r, SetReport(i, r))
  <2>1. <<r.hi, r.wLength>> \in Reports[i] => r.wLength # 0
    BY RequestAssumption
  <2>2. r.wLength # 0 => Fits(r, Answer(r.wLength, "report"))
    BY <1>1, AnswerOf
  <2>3. QED
    BY <2>1, <2>2, RefusedFits DEF SetReport, OnlyIf
<1>3. Fits(r, HidDescriptor(i, r))
  <2>1. HidLen \in Nat \ {0} /\ ReportDescLen[i] \in Nat \ {0}
    BY RequestAssumption
  <2>2. ASSUME NEW n \in Nat \ {0} PROVE Fits(r, Answer(AtMost(n, r), "none"))
    <3>1. /\ AtMost(n, r) \in Nat
          /\ AtMost(n, r) <= r.wLength
          /\ r.in => AtMost(n, r) # 0
      BY <1>1, AtMostFits
    <3>2. QED
      BY <3>1, AnswerOf
  <2>3. QED
    BY <2>1, <2>2, RefusedFits DEF HidDescriptor
<1>4. r.in => Fits(r, Answer(1, "none"))
  BY <1>1, AnswerOf
<1>5. ~r.in => Fits(r, Done)
  BY DoneFits
<1>6. QED
  BY <1>1, <1>2, <1>3, <1>4, <1>5, RefusedFits DEF udi_hid_setup, OnlyIf

\* The answer fits the request, whichever function gives it.
LEMMA SetupFits ==
    ASSUME NEW r \in RequestType, NEW ok
    PROVE  Fits(r, udc_process_setup(r, ok))
<1>1. CASE r.in /\ r.wLength = 0
  BY <1>1, RefusedFits DEF udc_process_setup
<1>2. CASE ~(r.in /\ r.wLength = 0)
  <2>1. Fits(r, udc_reqstd(r, ok))
    BY <1>2, StandardFits
  <2>2. Fits(r, udc_req_iface_ep(r))
    BY <1>2, HidFits, RefusedFits DEF udc_req_iface_ep, OnlyIf
  <2>3. QED
    BY <1>2, <2>1, <2>2 DEF udc_process_setup
<1>3. QED
  BY <1>1, <1>2

\* Only requests without data for the host end with the new address.
LEMMA AddressIsSet ==
    ASSUME NEW r \in RequestType, NEW ok, udc_process_setup(r, ok).effect = "address"
    PROVE  ~r.in
<1> SUFFICES ASSUME r.in PROVE FALSE
  OBVIOUS
<1>1. r.recip \in {"device", "interface", "endpoint"} /\ r.type \in {"standard", "class"}
  BY DEF RequestType
<1>2. Refused.effect = "none" /\ \A n, e : Answer(n, e).effect = e
  BY DEF Refused, Answer
<1>3. udc_reqstd(r, ok).effect = "none"
  <2>1. GetDescriptor(r).effect = "none"
    BY <1>2, Zenon DEF GetDescriptor, OnlyIf
  <2>2. DeviceGet(r).effect = "none"
    BY <1>2, <2>1 DEF DeviceGet, GetStatus, GetConfiguration, OnlyIf
  <2>3. IfaceGet(r).effect = "none" /\ EndpointGet(r).effect = "none"
    BY <1>2 DEF IfaceGet, EndpointGet, OnlyIf
  <2>4. QED
    BY <1>1, <2>2, <2>3 DEF udc_reqstd
<1>4. ASSUME NEW i PROVE udi_hid_setup(i, r).effect # "address"
  <2>1. SetReport(i, r).effect # "address"
    BY <1>2 DEF SetReport, OnlyIf
  <2>2. HidDescriptor(i, r).effect # "address"
    <3>1. r.hi = HID => HidDescriptor(i, r).effect = "none"
      BY <1>2 DEF HidDescriptor
    <3>2. r.hi = REPORT => HidDescriptor(i, r).effect = "none"
      BY <1>2 DEF HidDescriptor, HID, REPORT
    <3>3. r.hi # HID /\ r.hi # REPORT => HidDescriptor(i, r).effect = "none"
      BY <1>2 DEF HidDescriptor
    <3>4. QED
      BY <3>1, <3>2, <3>3
  <2>3. QED
    BY <1>1, <1>2, <2>1, <2>2 DEF udi_hid_setup, OnlyIf
<1>5. udc_req_iface_ep(r).effect # "address"
  BY <1>2, <1>4 DEF udc_req_iface_ep, OnlyIf
<1>6. QED
  BY <1>2, <1>3, <1>5 DEF udc_process_setup

-----------------------------------------------------------------------------
RequestInv ==
    /\ request \in RequestType
    /\ AnswerFits
    /\ answer.effect = "address" => ~request.in

LEMMA InitInv == Init => RequestInv
<1> SUFFICES ASSUME Init PROVE RequestInv
  OBVIOUS
<1>1. request \in RequestType
  BY DEF Init, RequestType, RequestName
<1>2. Fits(request, answer)
  BY <1>1, RefusedFits DEF Init
<1>3. answer.effect = "none"
  BY DEF Init, Refused
<1>4. QED
  BY <1>1, <1>2, <1>3 DEF RequestInv, AnswerFits

\* A SETUP packet.
LEMMA AskedInv ==
    ASSUME NEW r \in RequestType, NEW ok, Asked(r, ok)
    PROVE  RequestInv'
BY SetupFits, AddressIsSet DEF Asked, RequestInv, AnswerFits

\* Every SETUP packet is one of Requests, answered by udc_process_setup.
LEMMA SetupIsAsked ==
    ASSUME NEW r \in Requests,
           SetConfiguration(r) \/ SetInterface(r) \/ RemoteWakeup(r) \/ SetDriver(r) \/ Other(r)
    PROVE  r \in RequestType /\ \E ok \in BOOLEAN : Asked(r, ok)
<1>1. r \in RequestType
  BY RequestAssumption
<1>2. CASE SetConfiguration(r)
  <2>1. PICK n \in 0 .. NbIface : Asked(r, n = NbIface)
    BY <1>2 DEF SetConfiguration
  <2>2. CASE n = NbIface
    <3>1. Asked(r, TRUE)
      BY <2>1, <2>2
    <3>2. QED
      BY <1>1, <3>1
  <2>3. CASE n # NbIface
    <3>1. Asked(r, FALSE)
      BY <2>1, <2>3
    <3>2. QED
      BY <1>1, <3>1
  <2>4. QED
    BY <2>2, <2>3
<1>3. CASE SetInterface(r)
  BY <1>1, <1>3 DEF SetInterface
<1>4. CASE RemoteWakeup(r) \/ SetDriver(r) \/ Other(r)
  BY <1>1, <1>4 DEF RemoteWakeup, SetDriver, Other
<1>5. QED
  BY <1>2, <1>3, <1>4

LEMMA NextInv == RequestInv /\ [Next]_vars => RequestInv'
<1> SUFFICES ASSUME RequestInv, [Next]_vars PROVE RequestInv'
  OBVIOUS
<1>1. ASSUME NEW r \in Requests,
             SetConfiguration(r) \/ SetInterface(r) \/ RemoteWakeup(r) \/ SetDriver(r) \/ Other(r)
      PROVE  RequestInv'
  BY <1>1, SetupIsAsked, AskedInv
<1>2. CASE udc_valid_address
  <2>1. request' = request /\ answer' = Done /\ answer.effect = "address"
    BY <1>2 DEF udc_valid_address
  <2>2. request \in RequestType /\ ~request.in
    BY <2>1 DEF RequestInv
  <2>3. Fits(request, Done)
    BY <2>2, DoneFits
  <2>4. QED
    BY <2>1, <2>2, <2>3 DEF RequestInv, AnswerFits
<1>3. CASE udc_reset
  <2>1. request' = request /\ answer' = Refused
    BY <1>3 DEF udc_reset
  <2>2. Refused.effect = "none"
    BY DEF Refused
  <2>3. QED
    BY <2>1, <2>2, RefusedFits DEF RequestInv, AnswerFits
<1>4. CASE UNCHANGED vars
  BY <1>4 DEF vars, RequestInv, AnswerFits
<1>5. QED
  BY <1>1, <1>2, <1>3, <1>4 DEF Next

\* Every answer is one endpoint 0 can carry out.
THEOREM AnswersFit == Spec => []AnswerFits
<1>1. RequestInv => AnswerFits
  BY DEF RequestInv
<1>2. QED
  BY <1>1, InitInv, NextInv, PTL DEF Spec

-----------------------------------------------------------------------------
\* What an enumerating host needs, by the function that answers it.
LEMMA DeviceAnswers ==
    ASSUME NEW r \in RequestType, NEW ok, Needed(r), r.recip = "device"
    PROVE  udc_process_setup(r, ok).known
<1>1. r.wLength \in Nat /\ r.in \in BOOLEAN
  BY DEF RequestType
<1>2. \A n, e : Answer(n, e).known = TRUE
  BY DEF Answer
<1>3. CASE ToDevice("SET_ADDRESS", r)
  <2>1. DeviceSet(r, ok) = Answer(0, "address")
    BY <1>3 DEF ToDevice, DeviceSet, SetAddress
  <2>2. udc_reqstd(r, ok) = Answer(0, "address")
    BY <1>1, <1>3, <2>1 DEF ToDevice, udc_reqstd, OnlyIf
  <2>3. QED
    BY <1>1, <1>2, <1>3, <2>2 DEF ToDevice, udc_process_setup
<1>4. CASE r.type = "standard" /\ r.in /\ r.req = "GET_STATUS" /\ r.wLength = 2
  <2>1. DeviceGet(r) = Answer(2, "none")
    BY <1>4 DEF DeviceGet, GetStatus, GetConfiguration, OnlyIf
  <2>2. udc_reqstd(r, ok) = Answer(2, "none")
    BY <1>4, <2>1 DEF udc_reqstd
  <2>3. QED
    BY <1>1, <1>2, <1>4, <2>2 DEF udc_process_setup
<1>5. CASE /\ r.type = "standard" /\ r.in /\ r.req = "GET_DESCRIPTOR"
           /\ <<r.hi, r.lo>> \in DOMAIN DescLen /\ r.wLength > 0
  <2> DEFINE d == <<r.hi, IF r.hi = DEVICE THEN 0 ELSE r.lo>>
  <2>1. d \in DOMAIN DescLen
    BY <1>5, RequestAssumption
  <2>2. GetDescriptor(r).known
    BY <1>2, <2>1, Zenon DEF GetDescriptor, OnlyIf
  <2>3. DeviceGet(r) = GetDescriptor(r)
    BY <1>5 DEF DeviceGet
  <2>4. udc_reqstd(r, ok) = GetDescriptor(r)
    BY <1>5, <2>3 DEF udc_reqstd
  <2>5. QED
    BY <1>1, <1>5, <2>2, <2>4 DEF udc_process_setup
<1>6. QED
  BY <1>3, <1>4, <1>5 DEF Needed

LEMMA IfaceAnswers ==
    ASSUME NEW r \in RequestType, NEW ok, Needed(r), r.recip = "interface"
    PROVE  udc_process_setup(r, ok).known
<1>1. r.wLength \in Nat /\ r.in \in BOOLEAN /\ r.index \in Nat
  BY DEF RequestType
<1>2. \A n, e : Answer(n, e).known = TRUE
  BY DEF Answer
<1>3. /\ num_configuration = 1 /\ r.index < NbIface
      /\ \/ r.type = "standard" /\ r.in /\ r.req = "GET_DESCRIPTOR"
            /\ r.hi \in {HID, REPORT} /\ r.wLength > 0
         \/ r.type = "class" /\ ~r.in /\ r.req = "SET_IDLE"
  BY DEF Needed, ToDevice
<1>4. Addressee(r) = r.index /\ r.index \in Iface
  BY <1>1, <1>3, RequestAssumption DEF Addressee, Iface
<1>5. udi_hid_setup(r.index, r).known
  <2>1. CASE r.type = "class" /\ ~r.in /\ r.req = "SET_IDLE"
    <3>1. udi_hid_setup(r.index, r) = Done
      BY <2>1 DEF udi_hid_setup
    <3>2. QED
      BY <1>2, <3>1 DEF Done
  <2>2. CASE r.type = "standard" /\ r.in /\ r.req = "GET_DESCRIPTOR" /\ r.hi \in {HID, REPORT}
    <3>1. HidDescriptor(r.index, r).known
      BY <1>2, <2>2 DEF HidDescriptor
    <3>2. udi_hid_setup(r.index, r) = HidDescriptor(r.index, r)
      BY <2>2 DEF udi_hid_setup, OnlyIf
    <3>3. QED
      BY <3>1, <3>2
  <2>3. QED
    BY <1>3, <2>1, <2>2
<1>6. udc_req_iface_ep(r).known
  BY <1>4, <1>5 DEF udc_req_iface_ep, OnlyIf
<1>7. QED
  BY <1>1, <1>3, <1>6 DEF udc_process_setup

\* No request an enumerating host depends on is stalled.
THEOREM EnumerationIsServed == Spec => EnumerationServed
<1>1. ASSUME [Next]_vars
      PROVE  [Needed(request') /\ request' # request => answer'.known]_vars
  <2> SUFFICES ASSUME Needed(request'), request' # request PROVE answer'.known
    BY Zenon
  <2>1. PICK r \in Requests :
             SetConfiguration(r) \/ SetInterface(r) \/ RemoteWakeup(r) \/ SetDriver(r) \/ Other(r)
    BY <1>1 DEF Next, udc_valid_address, udc_reset, vars
  <2>2. r \in RequestType /\ \E ok \in BOOLEAN : Asked(r, ok)
    BY <2>1, SetupIsAsked
  <2>3. PICK ok \in BOOLEAN : Asked(r, ok)
    BY <2>2
  <2>4. request' = r /\ answer' = udc_process_setup(r, ok) /\ Needed(r)
    BY <2>3 DEF Asked
  <2>5. r.recip = "device" \/ r.recip = "interface"
    BY <2>4 DEF Needed, ToDevice
  <2>6. QED
    BY <2>2, <2>4, <2>5, DeviceAnswers, IfaceAnswers
<1>2. QED
  BY <1>1, PTL DEF Spec, EnumerationServed
=============================================================================
