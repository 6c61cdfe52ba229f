------------------------- MODULE UsbCompositeProofs -------------------------
(***************************************************************************)
(* Proofs about UsbComposite, for every descriptor table: any number of    *)
(* interfaces, any endpoints, any class driver behind each of them.        *)
(*                                                                         *)
(* Everything rests on GoodEp (UddEndpointProofs), what is true of one     *)
(* endpoint between two handlers, and the lemmas that every driver call    *)
(* keeps it; the step lemmas lift that to the endpoint table.              *)
(***************************************************************************)
EXTENDS UsbComposite, UddEndpointProofs

\* An endpoint table, in a state or in the middle of a handler.
GoodTable(f) ==
    /\ f \in [Endpoint -> EndpointState]
    /\ \A e \in Endpoint : GoodEp(Driver[e], f[e])

\* The inductive invariant.
IInv ==
    /\ TypeOK
    /\ GoodTable(ep)
    /\ NoneEnabledUnconfigured
    /\ ServedIsConfigured
    /\ OutArmedUnlessHalted

-----------------------------------------------------------------------------
(***************************************************************************)
(* The endpoint table.                                                     *)
(***************************************************************************)
LEMMA UdcResetGood ==
    ASSUME DescriptorAssumption, NEW f, GoodTable(f),
           num_configuration = 0 => \A e \in Endpoint : ~f[e].enabled
    PROVE  /\ GoodTable(UdcReset(f))
           /\ \A e \in Endpoint : ~UdcReset(f)[e].enabled
<1>1. CASE num_configuration = 0
  BY <1>1 DEF UdcReset
<1>2. CASE num_configuration # 0
  <2>1. UdcReset(f) = [e \in Endpoint |-> Free(Driver[e], f[e])]
    BY <1>2 DEF UdcReset
  <2>2. ASSUME NEW e \in Endpoint
        PROVE  /\ Free(Driver[e], f[e]) \in EndpointState
               /\ GoodEp(Driver[e], Free(Driver[e], f[e]))
               /\ ~Free(Driver[e], f[e]).enabled
    <3>1. Driver[e] \in Drivers /\ f[e] \in EndpointState /\ GoodEp(Driver[e], f[e])
      BY DEF DescriptorAssumption, GoodTable
    <3>2. QED
      BY <3>1, FreeGood DEF GoodEp
  <2>3. QED
    BY <2>1, <2>2 DEF GoodTable
<1>3. QED
  BY <1>1, <1>2

LEMMA IfaceDisabledGood ==
    ASSUME DescriptorAssumption, NEW i \in Iface, NEW f, GoodTable(f)
    PROVE  /\ GoodTable(IfaceDisabled(i, f))
           /\ \A e \in Endpoint :
                 IF IfaceOf[e] = i THEN ~IfaceDisabled(i, f)[e].enabled
                 ELSE IfaceDisabled(i, f)[e] = f[e]
<1> DEFINE g == IfaceDisabled(i, f)
<1>1. ASSUME NEW e \in Endpoint
      PROVE  /\ g[e] \in EndpointState
             /\ GoodEp(Driver[e], g[e])
             /\ IF IfaceOf[e] = i THEN ~g[e].enabled ELSE g[e] = f[e]
  <2>1. Driver[e] \in Drivers /\ f[e] \in EndpointState /\ GoodEp(Driver[e], f[e])
    BY DEF DescriptorAssumption, GoodTable
  <2>2. g[e] = IF IfaceOf[e] = i THEN Free(Driver[e], f[e]) ELSE f[e]
    BY DEF IfaceDisabled
  <2>3. QED
    BY <2>1, <2>2, FreeGood DEF GoodEp
<1>2. g \in [Endpoint -> EndpointState]
  BY <1>1 DEF IfaceDisabled
<1>3. QED
  BY <1>1, <1>2 DEF GoodTable

\* Interfaces are only enabled when they are disabled: udd_ep_alloc never
\* finds an endpoint already allocated.
LEMMA EnabledEpGood ==
    ASSUME DescriptorAssumption, NEW f, GoodTable(f), NEW e \in Endpoint,
           \A g \in EpsOf(IfaceOf[e]) : ~f[g].enabled
    PROVE  /\ EnabledEp(e, f) = DriverEnable(Driver[e], Alloc(f[e]))
           /\ GoodEp(Driver[e], EnabledEp(e, f))
           /\ EnabledEp(e, f).enabled
<1>1. EnabledEp(e, f) = DriverEnable(Driver[e], Alloc(f[e]))
  BY DEF EnabledEp, AllocOk
<1>2. Driver[e] \in Drivers /\ f[e] \in EndpointState /\ GoodEp(Driver[e], f[e])
  BY DEF DescriptorAssumption, GoodTable
<1>3. QED
  BY <1>1, <1>2, EnableGood

\* When udi_hid_led_enable succeeds its OUT endpoint listens.
LEMMA OutEnabled ==
    ASSUME NEW s \in EndpointState, DriverEnableOk("ledOut", Alloc(s))
    PROVE  /\ DriverEnable("ledOut", Alloc(s)).busy
           /\ Armed(DriverEnable("ledOut", Alloc(s)))
BY DEF DriverEnableOk, DriverEnable, Alloc, Run, RunOk, Armed, EndpointState

LEMMA ServiceGood ==
    ASSUME DescriptorAssumption, GoodTable(ep), NEW e \in Endpoint,
           Driver[e] # "ledOut"
    PROVE  GoodEp(Driver[e], Service(e)) /\ Service(e).enabled = ep[e].enabled
<1>1. Driver[e] \in Drivers /\ ep[e] \in EndpointState /\ GoodEp(Driver[e], ep[e])
  BY DEF DescriptorAssumption, GoodTable
<1>2. CASE Driver[e] = "kbd"
  <2>1. /\ GoodEp("kbd", KbdUpdate(ep[e]))
        /\ KbdUpdate(ep[e]).enabled = ep[e].enabled
    BY <1>1, <1>2, KbdUpdateGood
  <2>2. KbdUpdate(ep[e]) \in EndpointState
    BY <2>1 DEF GoodEp
  <2>3. /\ GoodEp("kbd", KbdUpdate(KbdUpdate(ep[e])))
        /\ KbdUpdate(KbdUpdate(ep[e])).enabled = KbdUpdate(ep[e]).enabled
    BY <2>1, <2>2, KbdUpdateGood
  <2>4. QED
    BY <1>2, <2>1, <2>3 DEF Service
<1>3. CASE Driver[e] # "kbd"
  BY <1>1, <1>3, InSendGood DEF Service, Drivers
<1>4. QED
  BY <1>2, <1>3

-----------------------------------------------------------------------------
(***************************************************************************)
(* One lemma per action: it keeps the invariant.                           *)
(***************************************************************************)
LEMMA InitGood ==
    ASSUME DescriptorAssumption, Init
    PROVE  IInv
<1>1. ASSUME NEW e \in Endpoint
      PROVE  GoodEp(Driver[e], ep[e]) /\ ~ep[e].enabled
  <2>1. Driver[e] \in Drivers /\ ep[e] = Detached(Driver[e])
    BY DEF DescriptorAssumption, Init
  <2>2. ep[e] \in EndpointState
    BY <2>1 DEF Detached, EndpointState
  <2>3. ~ep[e].enabled /\ ~ep[e].stall /\ ~ep[e].pending
    BY <2>1 DEF Detached
  <2>4. ep[e].owned => Driver[e] # "ledOut"
    <3>1. ~Detached("ledOut").owned
      BY DEF Detached
    <3>2. QED
      BY <2>1, <3>1
  <2>5. QED
    BY <2>2, <2>3, <2>4 DEF GoodEp
<1>2. ep \in [Endpoint -> EndpointState]
  BY <1>1 DEF Init, GoodEp
<1>3. TypeOK
  BY <1>2 DEF Init, TypeOK
<1>4. QED
  BY <1>1, <1>2, <1>3 DEF IInv, GoodTable, NoneEnabledUnconfigured, Init,
     ServedIsConfigured, OutArmedUnlessHalted, Iface, DescriptorAssumption

\* What a handler that neither enables nor disables an interface leaves alone.
LEMMA SameInterfaces ==
    ASSUME IInv, \A e \in Endpoint : ep'[e].enabled = ep[e].enabled,
           UNCHANGED <<num_configuration, app>>
    PROVE  NoneEnabledUnconfigured' /\ ServedIsConfigured'
BY DEF IInv, NoneEnabledUnconfigured, ServedIsConfigured, EpsOf

LEMMA SetConfigurationStep ==
    ASSUME DescriptorAssumption, IInv, NEW v \in 0 .. 2, SetConfiguration(v)
    PROVE  IInv'
<1> DEFINE f == UdcReset(ep)
           reached == IF v = 0 THEN {} ELSE Reached(f)
           done == {i \in reached : IfaceEnableOk(i, f)}
<1>1. GoodTable(f) /\ \A e \in Endpoint : ~f[e].enabled
  BY UdcResetGood DEF IInv, NoneEnabledUnconfigured
<1>2. /\ v \in 0 .. 1
      /\ num_configuration' = v
      /\ address' = address
      /\ wasHalted' = [e \in Endpoint |-> FALSE]
      /\ reply' \in {"ack", "stall"}
  BY DEF SetConfiguration, ValidConfiguration
<1>3. ep' = [e \in Endpoint |->
               IF IfaceOf[e] \in reached THEN EnabledEp(e, f) ELSE f[e]]
  BY DEF SetConfiguration
<1>4. app' \in [Iface -> BOOLEAN] /\ \A i \in Iface : app'[i] => i \in done
  <2>1. app' = [i \in Iface |-> i \in done \/ UdcResetApp[i]]
    BY DEF SetConfiguration
  <2>2. \A i \in Iface : ~UdcResetApp[i]
    BY DEF UdcResetApp, IInv, ServedIsConfigured
  <2> HIDE DEF done
  <2>3. \A i \in Iface : app'[i] => i \in done
    BY <2>1, <2>2, Zenon
  <2>4. app' \in [Iface -> BOOLEAN]
    BY <2>1, Zenon
  <2>5. QED
    BY <2>3, <2>4
<1>5. ASSUME NEW e \in Endpoint
      PROVE  /\ ep'[e] \in EndpointState
             /\ GoodEp(Driver[e], ep'[e])
             /\ ep'[e].enabled <=> IfaceOf[e] \in reached
  <2>1. \A g \in EpsOf(IfaceOf[e]) : ~f[g].enabled
    BY <1>1 DEF EpsOf
  <2>2. GoodEp(Driver[e], EnabledEp(e, f)) /\ EnabledEp(e, f).enabled
    BY <1>1, <2>1, EnabledEpGood
  <2>3. QED
    BY <1>1, <1>3, <2>2 DEF GoodTable, GoodEp
<1>6. ep' \in [Endpoint -> EndpointState]
  BY <1>3, <1>5
<1>7. TypeOK'
  BY <1>2, <1>4, <1>6 DEF TypeOK, IInv
<1>8. GoodTable(ep)'
  BY <1>5, <1>6 DEF GoodTable
<1>9. NoneEnabledUnconfigured' /\ ServedIsConfigured'
  <2>1. NoneEnabledUnconfigured'
    BY <1>2, <1>5 DEF NoneEnabledUnconfigured
  <2>2. ASSUME NEW i \in Iface, app'[i]
        PROVE  i \in reached
    BY <1>4, <2>2, Zenon
  <2>3. ServedIsConfigured'
    BY <1>2, <1>5, <2>2 DEF ServedIsConfigured, EpsOf
  <2>4. QED
    BY <2>1, <2>3
<1>10. OutArmedUnlessHalted'
  <2> SUFFICES ASSUME NEW e \in Endpoint, Driver[e] = "ledOut", app'[IfaceOf[e]]
               PROVE  ep'[e].busy /\ Armed(ep'[e])
    BY DEF OutArmedUnlessHalted
  <2>1. IfaceOf[e] \in done
    BY <1>4 DEF DescriptorAssumption
  <2>2. e \in EpsOf(IfaceOf[e]) /\ f[e] \in EndpointState
    BY <1>1 DEF EpsOf, GoodTable
  <2>3. DriverEnableOk("ledOut", Alloc(f[e]))
    BY <2>1, <2>2 DEF IfaceEnableOk
  <2>4. ep'[e] = DriverEnable("ledOut", Alloc(f[e]))
    BY <1>1, <1>3, <2>1, EnabledEpGood DEF EpsOf
  <2>5. QED
    BY <2>2, <2>3, <2>4, OutEnabled
<1>11. QED
  BY <1>7, <1>8, <1>9, <1>10 DEF IInv

LEMMA SetInterfaceStep ==
    ASSUME DescriptorAssumption, IInv, NEW i \in Iface, NEW setting \in 0 .. 1,
           SetInterface(i, setting)
    PROVE  IInv'
<1> DEFINE f == IfaceDisabled(i, ep)
           ok == setting = 0 /\ IfaceEnableOk(i, f)
<1>1. /\ GoodTable(f)
      /\ \A e \in Endpoint :
            IF IfaceOf[e] = i THEN ~f[e].enabled ELSE f[e] = ep[e]
  BY IfaceDisabledGood DEF IInv
<1>2. /\ num_configuration # 0
      /\ UNCHANGED <<num_configuration, address>>
      /\ app' = [app EXCEPT ![i] = ok]
      /\ reply' \in {"ack", "stall"}
      /\ wasHalted' = [e \in Endpoint |-> IfaceOf[e] # i /\ wasHalted[e]]
  BY DEF SetInterface
<1>3. ep' = [e \in Endpoint |->
               IF setting = 0 /\ IfaceOf[e] = i THEN EnabledEp(e, f) ELSE f[e]]
  BY DEF SetInterface
<1>4. ASSUME NEW e \in Endpoint
      PROVE  /\ ep'[e] \in EndpointState
             /\ GoodEp(Driver[e], ep'[e])
             /\ IF IfaceOf[e] = i THEN ep'[e].enabled <=> setting = 0
                                   ELSE ep'[e] = ep[e]
  <2>1. CASE IfaceOf[e] = i
    <3>1. \A g \in EpsOf(IfaceOf[e]) : ~f[g].enabled
      BY <1>1, <2>1 DEF EpsOf
    <3>2. GoodEp(Driver[e], EnabledEp(e, f)) /\ EnabledEp(e, f).enabled
      BY <1>1, <3>1, EnabledEpGood
    <3>3. QED
      BY <1>1, <1>3, <2>1, <3>2 DEF GoodTable, GoodEp
  <2>2. CASE IfaceOf[e] # i
    BY <1>1, <1>3, <2>2 DEF GoodTable
  <2>3. QED
    BY <2>1, <2>2
<1>5. ep' \in [Endpoint -> EndpointState]
  BY <1>3, <1>4
<1>6. /\ app \in [Iface -> BOOLEAN]
      /\ app' \in [Iface -> BOOLEAN]
      /\ app'[i] = ok
      /\ \A j \in Iface \ {i} : app'[j] = app[j]
  <2>1. app \in [Iface -> BOOLEAN] /\ ok \in BOOLEAN
    BY DEF IInv, TypeOK
  <2>2. QED
    BY <1>2, <2>1, Zenon
<1>7. TypeOK'
  BY <1>2, <1>5, <1>6 DEF TypeOK, IInv
<1>8. GoodTable(ep)'
  BY <1>4, <1>5 DEF GoodTable
<1>9. NoneEnabledUnconfigured' /\ ServedIsConfigured'
  <2>1. num_configuration' = 1
    BY <1>2 DEF IInv, TypeOK
  <2>2. ASSUME NEW j \in Iface, app'[j], NEW e \in EpsOf(j)
        PROVE  ep'[e].enabled
    <3>1. CASE j = i
      BY <1>4, <1>6, <2>2, <3>1 DEF EpsOf
    <3>2. CASE j # i
      BY <1>4, <1>6, <2>2, <3>2 DEF EpsOf, IInv, ServedIsConfigured
    <3>3. QED
      BY <3>1, <3>2
  <2>3. QED
    BY <2>1, <2>2 DEF NoneEnabledUnconfigured, ServedIsConfigured, EpsOf
<1>10. OutArmedUnlessHalted'
  <2> SUFFICES ASSUME NEW e \in Endpoint, Driver[e] = "ledOut", app'[IfaceOf[e]],
                      ~wasHalted'[e]
               PROVE  ep'[e].busy /\ Armed(ep'[e])
    BY DEF OutArmedUnlessHalted
  <2>1. CASE IfaceOf[e] = i
    <3>1. setting = 0 /\ IfaceEnableOk(i, f) /\ e \in EpsOf(i)
      BY <1>6, <2>1 DEF EpsOf
    <3>2. f[e] \in EndpointState /\ DriverEnableOk("ledOut", Alloc(f[e]))
      BY <1>1, <3>1 DEF IfaceEnableOk, GoodTable
    <3>3. ep'[e] = DriverEnable("ledOut", Alloc(f[e]))
      BY <1>1, <1>3, <2>1, <3>1, EnabledEpGood DEF EpsOf
    <3>4. QED
      BY <3>2, <3>3, OutEnabled
  <2>2. CASE IfaceOf[e] # i
    <3>1. IfaceOf[e] \in Iface /\ app[IfaceOf[e]] /\ ~wasHalted[e]
      BY <1>2, <1>6, <2>2 DEF DescriptorAssumption
    <3>2. QED
      BY <1>4, <2>2, <3>1 DEF IInv, OutArmedUnlessHalted
  <2>3. QED
    BY <2>1, <2>2
<1>11. QED
  BY <1>7, <1>8, <1>9, <1>10 DEF IInv

\* A handler that changes the state of one endpoint.
LEMMA OneEndpointStep ==
    ASSUME DescriptorAssumption, IInv, NEW e \in Endpoint, NEW s,
           GoodEp(Driver[e], s), s.enabled = ep[e].enabled,
           ep' = [ep EXCEPT ![e] = s],
           UNCHANGED <<num_configuration, address, app>>,
           reply' \in {"ack", "stall"},
           wasHalted' \in [Endpoint -> BOOLEAN],
           \A g \in Endpoint : wasHalted[g] => wasHalted'[g],
           Driver[e] = "ledOut" /\ app[IfaceOf[e]] /\ ~wasHalted'[e]
              => s.busy /\ Armed(s)
    PROVE  IInv'
<1>1. s \in EndpointState /\ ep \in [Endpoint -> EndpointState]
  BY DEF GoodEp, IInv, GoodTable
<1>2. /\ ep' \in [Endpoint -> EndpointState]
      /\ ep'[e] = s
      /\ \A g \in Endpoint \ {e} : ep'[g] = ep[g]
  BY <1>1
<1>3. TypeOK'
  BY <1>2 DEF IInv, TypeOK
<1>4. GoodTable(ep)'
  BY <1>2 DEF IInv, GoodTable
<1>5. NoneEnabledUnconfigured' /\ ServedIsConfigured'
  BY <1>2, SameInterfaces
<1>6. OutArmedUnlessHalted'
  BY <1>2 DEF IInv, OutArmedUnlessHalted
<1>7. QED
  BY <1>3, <1>4, <1>5, <1>6 DEF IInv

LEMMA HaltStep ==
    ASSUME DescriptorAssumption, IInv, NEW e \in Endpoint, Halt(e)
    PROVE  IInv'
<1> DEFINE s == SetFeatureHalt(Driver[e], ep[e])
<1>1. Driver[e] \in Drivers /\ ep[e] \in EndpointState /\ GoodEp(Driver[e], ep[e])
  BY DEF DescriptorAssumption, IInv, GoodTable
<1>2. GoodEp(Driver[e], s) /\ s.enabled = ep[e].enabled
  BY <1>1, SetFeatureHaltGood
<1>3. wasHalted \in [Endpoint -> BOOLEAN]
  BY DEF IInv, TypeOK
<1>4. /\ wasHalted' \in [Endpoint -> BOOLEAN]
      /\ wasHalted'[e]
      /\ \A g \in Endpoint : wasHalted[g] => wasHalted'[g]
  BY <1>3 DEF Halt
<1>5. ep' = [ep EXCEPT ![e] = s]
  BY DEF Halt
<1>6. UNCHANGED <<num_configuration, address, app>> /\ reply' \in {"ack", "stall"}
  BY DEF Halt
<1>7. QED
  BY <1>2, <1>4, <1>5, <1>6, OneEndpointStep

LEMMA UnhaltStep ==
    ASSUME DescriptorAssumption, IInv, NEW e \in Endpoint, Unhalt(e)
    PROVE  IInv'
<1> DEFINE s == ClearHalt(Driver[e], ep[e])
<1>1. Driver[e] \in Drivers /\ ep[e] \in EndpointState /\ GoodEp(Driver[e], ep[e])
  BY DEF DescriptorAssumption, IInv, GoodTable
<1>2. GoodEp(Driver[e], s) /\ s.enabled = ep[e].enabled
  BY <1>1, ClearHaltGood
<1>3. wasHalted' = wasHalted /\ wasHalted' \in [Endpoint -> BOOLEAN]
  BY DEF IInv, TypeOK, Unhalt
<1>4. ep' = [ep EXCEPT ![e] = s]
  BY DEF Unhalt
<1>5. UNCHANGED <<num_configuration, address, app>> /\ reply' \in {"ack", "stall"}
  BY DEF Unhalt
<1>6. ASSUME Driver[e] = "ledOut", app[IfaceOf[e]], ~wasHalted'[e]
      PROVE  s.busy /\ Armed(s)
  <2>1. ep[e].busy /\ Armed(ep[e])
    BY <1>3, <1>6 DEF IInv, OutArmedUnlessHalted
  <2>2. s = ep[e]
    BY <2>1 DEF ClearHalt, Armed
  <2>3. QED
    BY <2>1, <2>2
<1>7. QED
  BY <1>2, <1>3, <1>4, <1>5, <1>6, OneEndpointStep

LEMMA SetReportStep ==
    ASSUME DescriptorAssumption, IInv, NEW e \in Endpoint, SetReport(e)
    PROVE  IInv'
<1> DEFINE s == Run(ep[e])
<1>1. ep[e] \in EndpointState /\ GoodEp("ledOut", ep[e]) /\ Driver[e] = "ledOut"
  BY DEF IInv, GoodTable, SetReport
<1>2. "ledOut" \in Drivers /\ ~ep[e].owned
  BY <1>1 DEF GoodEp, Drivers
<1>3. GoodEp(Driver[e], s) /\ s.enabled = ep[e].enabled
  BY <1>1, <1>2, RunGood
<1>4. wasHalted' = wasHalted /\ wasHalted' \in [Endpoint -> BOOLEAN]
  BY DEF IInv, TypeOK, SetReport
<1>5. ep' = [ep EXCEPT ![e] = s]
  BY <1>1 DEF SetReport, Callback, ReportOutReceived
<1>6. UNCHANGED <<num_configuration, address, app>> /\ reply' \in {"ack", "stall"}
  BY DEF SetReport
<1>7. ASSUME app[IfaceOf[e]], ~wasHalted'[e]
      PROVE  s.busy /\ Armed(s)
  <2>1. ep[e].busy /\ Armed(ep[e])
    BY <1>1, <1>4, <1>7 DEF IInv, OutArmedUnlessHalted
  <2>2. s = ep[e]
    BY <2>1 DEF Run, RunOk
  <2>3. QED
    BY <2>1, <2>2
<1>8. QED
  BY <1>3, <1>4, <1>5, <1>6, <1>7, OneEndpointStep

LEMMA TransferCompleteStep ==
    ASSUME DescriptorAssumption, IInv, NEW e \in Endpoint, TransferComplete(e)
    PROVE  IInv'
<1> DEFINE s == TransComplete(Driver[e], ep[e])
<1>1. Driver[e] \in Drivers /\ ep[e] \in EndpointState /\ GoodEp(Driver[e], ep[e])
  BY DEF DescriptorAssumption, IInv, GoodTable
<1>2. GoodEp(Driver[e], s) /\ s.enabled = ep[e].enabled
  BY <1>1, TransCompleteGood
<1>3. wasHalted' = wasHalted /\ wasHalted' \in [Endpoint -> BOOLEAN]
  BY DEF IInv, TypeOK, TransferComplete
<1>4. ep' = [ep EXCEPT ![e] = s]
  BY DEF TransferComplete
<1>5. UNCHANGED <<num_configuration, address, app>> /\ reply' \in {"ack", "stall"}
  BY DEF TransferComplete, IInv, TypeOK
<1>6. ASSUME Driver[e] = "ledOut", app[IfaceOf[e]], ~wasHalted'[e]
      PROVE  s.busy /\ Armed(s)
  <2>1. ep[e].busy /\ Armed(ep[e])
    BY <1>3, <1>6 DEF IInv, OutArmedUnlessHalted
  <2>2. QED
    BY <1>1, <1>6, <2>1, OutRearmed DEF Armed
<1>7. QED
  BY <1>2, <1>3, <1>4, <1>5, <1>6, OneEndpointStep

LEMMA BusResetStep ==
    ASSUME DescriptorAssumption, IInv, BusReset
    PROVE  IInv'
<1> DEFINE f == [e \in Endpoint |-> Abort(Driver[e], ep[e])]
<1>1. ASSUME NEW e \in Endpoint
      PROVE  /\ f[e] \in EndpointState
             /\ GoodEp(Driver[e], f[e])
             /\ f[e].enabled = ep[e].enabled
  <2>1. Driver[e] \in Drivers /\ ep[e] \in EndpointState /\ GoodEp(Driver[e], ep[e])
    BY DEF DescriptorAssumption, IInv, GoodTable
  <2>2. QED
    BY <2>1, AbortGood DEF GoodEp
<1>2. GoodTable(f)
  BY <1>1 DEF GoodTable
<1>3. num_configuration = 0 => \A e \in Endpoint : ~f[e].enabled
  BY <1>1 DEF IInv, NoneEnabledUnconfigured
<1>4. ep' = UdcReset(f) /\ num_configuration' = 0 /\ address' = 0
      /\ UNCHANGED <<reply, wasHalted>> /\ app' = UdcResetApp
  BY DEF BusReset
<1>5. GoodTable(ep') /\ \A e \in Endpoint : ~ep'[e].enabled
  BY <1>2, <1>3, <1>4, UdcResetGood
<1>6. app' \in [Iface -> BOOLEAN] /\ \A i \in Iface : ~app'[i]
  BY <1>4 DEF UdcResetApp, IInv, TypeOK, ServedIsConfigured
<1>7. TypeOK'
  BY <1>4, <1>5, <1>6 DEF TypeOK, IInv, GoodTable
<1>8. OutArmedUnlessHalted'
  BY <1>6 DEF OutArmedUnlessHalted, DescriptorAssumption
<1>9. QED
  BY <1>4, <1>5, <1>6, <1>7, <1>8
     DEF IInv, NoneEnabledUnconfigured, ServedIsConfigured, GoodTable

LEMMA StartOfFrameStep ==
    ASSUME DescriptorAssumption, IInv, StartOfFrame
    PROVE  IInv'
<1>1. ASSUME NEW e \in Endpoint
      PROVE  /\ ep'[e] \in EndpointState
             /\ GoodEp(Driver[e], ep'[e])
             /\ ep'[e].enabled = ep[e].enabled
             /\ Driver[e] = "ledOut" => ep'[e] = ep[e]
  <2>1. CASE Driver[e] = "ledOut"
    BY <2>1 DEF StartOfFrame, IInv, GoodTable
  <2>2. CASE Driver[e] # "ledOut"
    <3>1. ep'[e] = ep[e] \/ ep'[e] = Service(e)
      BY DEF StartOfFrame
    <3>2. GoodEp(Driver[e], Service(e)) /\ Service(e).enabled = ep[e].enabled
      BY <2>2, ServiceGood DEF IInv
    <3>3. QED
      BY <2>2, <3>1, <3>2 DEF IInv, GoodTable, GoodEp
  <2>3. QED
    BY <2>1, <2>2
<1>2. ep' \in [Endpoint -> EndpointState]
  BY <1>1 DEF StartOfFrame
<1>3. UNCHANGED <<num_configuration, address, app, reply, wasHalted>>
  BY DEF StartOfFrame
<1>4. TypeOK'
  BY <1>2, <1>3 DEF TypeOK, IInv
<1>5. GoodTable(ep)'
  BY <1>1, <1>2 DEF GoodTable
<1>6. NoneEnabledUnconfigured' /\ ServedIsConfigured'
  BY <1>1, <1>3, SameInterfaces
<1>7. OutArmedUnlessHalted'
  BY <1>1, <1>3 DEF IInv, OutArmedUnlessHalted
<1>8. QED
  BY <1>4, <1>5, <1>6, <1>7 DEF IInv

\* Nothing but the answer on endpoint 0 or the address changes.
LEMMA SameEndpointsStep ==
    ASSUME IInv, UNCHANGED <<ep, num_configuration, app, wasHalted>>,
           address' \in 0 .. 1, reply' \in {"ack", "stall"}
    PROVE  IInv'
BY DEF IInv, TypeOK, GoodTable, NoneEnabledUnconfigured, ServedIsConfigured,
   OutArmedUnlessHalted, EpsOf

-----------------------------------------------------------------------------
(***************************************************************************)
(* Theorems.                                                               *)
(***************************************************************************)
LEMMA NextStep ==
    ASSUME DescriptorAssumption, IInv, [Next]_vars
    PROVE  IInv'
<1>1. ASSUME NEW v \in 0 .. 2, SetConfiguration(v) \/ RefuseConfiguration(v)
      PROVE  IInv'
  <2>1. CASE SetConfiguration(v)
    BY <2>1, SetConfigurationStep
  <2>2. CASE RefuseConfiguration(v)
    BY <2>2, SameEndpointsStep DEF RefuseConfiguration, Refuse, IInv, TypeOK
  <2>3. QED
    BY <1>1, <2>1, <2>2
<1>2. ASSUME NEW i \in Iface, NEW setting \in 0 .. 1, SetInterface(i, setting)
      PROVE  IInv'
  BY <1>2, SetInterfaceStep
<1>3. ASSUME NEW i \in 0 .. NbIface, RefuseInterface(i)
      PROVE  IInv'
  BY <1>3, SameEndpointsStep DEF RefuseInterface, Refuse, IInv, TypeOK
<1>4. ASSUME NEW a \in 0 .. 1, SetAddress(a)
      PROVE  IInv'
  BY <1>4, SameEndpointsStep DEF SetAddress
<1>5. ASSUME NEW e \in Endpoint,
             Halt(e) \/ Unhalt(e) \/ SetReport(e) \/ TransferComplete(e)
      PROVE  IInv'
  BY <1>5, HaltStep, UnhaltStep, SetReportStep, TransferCompleteStep
<1>6. CASE BusReset
  BY <1>6, BusResetStep
<1>7. CASE StartOfFrame
  BY <1>7, StartOfFrameStep
<1>8. CASE UNCHANGED vars
  BY <1>8, SameEndpointsStep DEF vars, IInv, TypeOK
<1>9. QED
  BY <1>1, <1>2, <1>3, <1>4, <1>5, <1>6, <1>7, <1>8 DEF Next

\* The inductive invariant holds in every state of the device.
THEOREM Invariance == Spec => []IInv
<1>1. Init => IInv
  BY InitGood, DescriptorAssumption
<1>2. IInv /\ [Next]_vars => IInv'
  BY NextStep, DescriptorAssumption
<1>3. QED
  BY <1>1, <1>2, PTL DEF Spec

\* The variables keep their types: in particular no request gets the device
\* into a configuration it does not have.
THEOREM TypeCorrect == Spec => []TypeOK
<1>1. IInv => TypeOK
  BY DEF IInv
<1>2. QED
  BY <1>1, Invariance, PTL

\* No transfer job survives on a halted endpoint, although the callback of
\* the job that is aborted may start the next one: udd_ep_clear_halt never
\* calls a transfer callback as a call_nohalt.
THEOREM HaltedHasNoJob == Spec => []NoJobWhileHalted
<1>1. IInv => NoJobWhileHalted
  BY DEF IInv, GoodTable, GoodEp, NoJobWhileHalted
<1>2. QED
  BY <1>1, Invariance, PTL

\* No class driver of a configured interface waits for a callback that the
\* host cannot cause.
THEOREM DriversNeverStuck == Spec => []OwnerIsLive
<1>1. IInv => OwnerIsLive
  BY DEF IInv, GoodTable, GoodEp, OwnerIsLive
<1>2. QED
  BY <1>1, Invariance, PTL

\* No waiting keyboard report is without a transfer whose callback picks it up.
THEOREM PendingIsCarried == Spec => []PendingHasCarrier
<1>1. IInv => PendingHasCarrier
  BY DEF IInv, GoodTable, GoodEp, PendingHasCarrier
<1>2. QED
  BY <1>1, Invariance, PTL

\* Nothing of a configuration that was left stays enabled, so that
\* udd_ep_alloc never finds an endpoint that is already allocated.
THEOREM UnconfiguredIsClean == Spec => []NoneEnabledUnconfigured
<1>1. IInv => NoneEnabledUnconfigured
  BY DEF IInv
<1>2. QED
  BY <1>1, Invariance, PTL

\* The start-of-frame handler only serves interfaces of the configuration in
\* force.
THEOREM ConfigurationIsWhole == Spec => []ServedIsConfigured
<1>1. IInv => ServedIsConfigured
  BY DEF IInv
<1>2. QED
  BY <1>1, Invariance, PTL

\* A served LED interface listens on its OUT endpoint unless the host halted
\* that endpoint.
THEOREM OutStaysArmed == Spec => []OutArmedUnlessHalted
<1>1. IInv => OutArmedUnlessHalted
  BY DEF IInv
<1>2. QED
  BY <1>1, Invariance, PTL

\* The job of an endpoint that is not enabled is not started again when it is
\* aborted, whatever the callback tries.
LEMMA AbortDisabled ==
    ASSUME NEW d \in Drivers, NEW s \in EndpointState, ~s.enabled
    PROVE  ~Abort(d, s).busy
<1> DEFINE t == [s EXCEPT !.nack = TRUE]
           u == [t EXCEPT !.busy = FALSE]
<1>1. t \in EndpointState /\ ~t.enabled /\ u \in EndpointState /\ ~u.enabled /\ ~u.busy
  BY DEF EndpointState
<1>2. ~Callback(d, u).busy
  BY <1>1 DEF Callback, KbdReportSent, ReportInSent, ReportOutReceived, KbdSend, Run,
     RunOk, EndpointState
<1>3. QED
  BY <1>1, <1>2 DEF Abort, EndJob

\* The second bus reset of an enumeration ends every job the first one left
\* on going: no endpoint is enabled any more, so nothing starts again.
THEOREM SecondResetCleans == Spec => SecondResetIsClean
<1>1. ASSUME IInv, BusReset, num_configuration = 0, NEW e \in Endpoint
      PROVE  ~ep'[e].busy
  <2>1. ep'[e] = Abort(Driver[e], ep[e])
    BY <1>1 DEF BusReset, UdcReset
  <2>2. Driver[e] \in Drivers /\ ep[e] \in EndpointState /\ ~ep[e].enabled
    BY <1>1, DescriptorAssumption
       DEF DescriptorAssumption, IInv, GoodTable, NoneEnabledUnconfigured
  <2>3. QED
    BY <2>1, <2>2, AbortDisabled
<1>2. IInv => [BusReset /\ num_configuration = 0 =>
                 \A e \in Endpoint : ~ep'[e].busy]_vars
  BY <1>1
<1>3. QED
  BY <1>2, Invariance, PTL DEF SecondResetIsClean

\* An acknowledged SET_CONFIGURATION(1) left no interface behind.
THEOREM AckedConfigurationServes == Spec => AckedIsServed
<1>1. ASSUME IInv, SetConfiguration(1), reply' = "ack"
      PROVE  /\ \A i \in Iface : app'[i]
             /\ \A e \in Endpoint : Driver[e] = "ledOut" => Armed(ep'[e])
  <2>1. \A i \in Iface : app'[i]
    <3> DEFINE f == UdcReset(ep)
               reached == IF 1 = 0 THEN {} ELSE Reached(f)
               done == {i \in reached : IfaceEnableOk(i, f)}
    <3>1. app' = [i \in Iface |-> i \in done \/ UdcResetApp[i]]
      BY <1>1 DEF SetConfiguration
    <3>2. reply' = IF 1 = 0 \/ done = Iface THEN "ack" ELSE "stall"
      BY <1>1 DEF SetConfiguration
    <3>3. done = Iface
      BY <1>1, <3>2
    <3> HIDE DEF done
    <3>4. QED
      BY <3>1, <3>3, Zenon
  <2>2. OutArmedUnlessHalted'
    BY <1>1, SetConfigurationStep, DescriptorAssumption DEF IInv
  <2>3. \A e \in Endpoint : IfaceOf[e] \in Iface /\ ~wasHalted'[e]
    BY <1>1, DescriptorAssumption DEF SetConfiguration, DescriptorAssumption
  <2>4. QED
    BY <2>1, <2>2, <2>3 DEF OutArmedUnlessHalted
<1>2. IInv => [SetConfiguration(1) /\ reply' = "ack" =>
                 /\ \A i \in Iface : app'[i]
                 /\ \A e \in Endpoint : Driver[e] = "ledOut" => Armed(ep'[e])]_vars
  BY <1>1
<1>3. QED
  BY <1>2, Invariance, PTL DEF AckedIsServed

\* Nothing but a configuration, an alternate setting or a SET_REPORT makes a
\* deaf OUT endpoint listen again.
THEOREM OnlyThreeWaysToRearm == Spec => DeafUntilRearmed
<1> DEFINE Rearm(e) == \/ SetConfiguration(1)
                       \/ SetInterface(IfaceOf[e], 0)
                       \/ SetReport(e)
<1>1. ASSUME IInv, [Next]_vars, NEW e \in Endpoint, Driver[e] = "ledOut",
             ~Armed(ep[e]), ~Rearm(e)
      PROVE  ~Armed(ep'[e])
  <2>1. ep \in [Endpoint -> EndpointState] /\ GoodEp("ledOut", ep[e])
    BY <1>1 DEF IInv, GoodTable
  <2>2. ASSUME NEW v \in 0 .. 2, SetConfiguration(v)
        PROVE  ~Armed(ep'[e])
    <3>1. v = 0
      BY <1>1, <2>2 DEF SetConfiguration, ValidConfiguration
    <3>2. ep'[e] = UdcReset(ep)[e]
      BY <2>2, <3>1 DEF SetConfiguration
    <3>3. ~UdcReset(ep)[e].enabled
      BY <1>1, UdcResetGood, DescriptorAssumption DEF IInv, NoneEnabledUnconfigured
    <3>4. QED
      BY <3>2, <3>3 DEF Armed
  <2>3. ASSUME NEW i \in Iface, NEW setting \in 0 .. 1, SetInterface(i, setting)
        PROVE  ~Armed(ep'[e])
    <3>1. /\ ep'[e] = IF setting = 0 /\ IfaceOf[e] = i
                      THEN EnabledEp(e, IfaceDisabled(i, ep))
                      ELSE IfaceDisabled(i, ep)[e]
          /\ ~(setting = 0 /\ IfaceOf[e] = i)
      BY <1>1, <2>3 DEF SetInterface
    <3>2. IF IfaceOf[e] = i THEN ~IfaceDisabled(i, ep)[e].enabled
          ELSE IfaceDisabled(i, ep)[e] = ep[e]
      BY <1>1, IfaceDisabledGood, DescriptorAssumption DEF IInv
    <3>3. QED
      BY <1>1, <3>1, <3>2 DEF Armed
  <2>4. ASSUME NEW g \in Endpoint, Halt(g)
        PROVE  ~Armed(ep'[e])
    <3>1. CASE g = e
      <4>1. ep'[e] = SetFeatureHalt("ledOut", ep[e])
        BY <1>1, <2>1, <2>4, <3>1 DEF Halt
      <4>2. SetFeatureHalt("ledOut", ep[e]).stall
        BY <2>1 DEF SetFeatureHalt, SetHalt, Abort, EndJob, Callback,
           ReportOutReceived, Run, RunOk,
           GoodEp, EndpointState
      <4>3. QED
        BY <4>1, <4>2 DEF Armed
    <3>2. CASE g # e
      BY <1>1, <2>1, <2>4, <3>2 DEF Halt
    <3>3. QED
      BY <3>1, <3>2
  <2>5. ASSUME NEW g \in Endpoint, Unhalt(g)
        PROVE  ~Armed(ep'[e])
    <3>1. CASE g = e
      <4>1. ep'[e] = ClearHalt("ledOut", ep[e])
        BY <1>1, <2>1, <2>5, <3>1 DEF Unhalt
      <4>2. ~Armed(ClearHalt("ledOut", ep[e]))
        BY <1>1, <2>1 DEF ClearHalt, EndJob, Armed, GoodEp, EndpointState
      <4>3. QED
        BY <4>1, <4>2
    <3>2. CASE g # e
      BY <1>1, <2>1, <2>5, <3>2 DEF Unhalt
    <3>3. QED
      BY <3>1, <3>2
  <2>6. ASSUME NEW g \in Endpoint, SetReport(g)
        PROVE  ~Armed(ep'[e])
    BY <1>1, <2>1, <2>6 DEF SetReport
  <2>7. ASSUME NEW g \in Endpoint, TransferComplete(g)
        PROVE  ~Armed(ep'[e])
    BY <1>1, <2>1, <2>7 DEF TransferComplete
  <2>8. CASE BusReset
    <3>1. BusReset => IInv' /\ num_configuration' = 0
      BY <1>1, BusResetStep, DescriptorAssumption DEF BusReset
    <3>2. QED
      BY <2>8, <3>1 DEF IInv, NoneEnabledUnconfigured, Armed
  <2>9. CASE StartOfFrame
    BY <1>1, <2>9 DEF StartOfFrame
  <2>10. CASE UNCHANGED ep
    BY <1>1, <2>10
  <2>11. QED
    BY <1>1, <2>2, <2>3, <2>4, <2>5, <2>6, <2>7, <2>8, <2>9, <2>10
       DEF Next, vars, RefuseConfiguration, RefuseInterface, Refuse, SetAddress
<1>2. IInv /\ [Next]_vars =>
        [\A e \in Endpoint :
           Driver[e] = "ledOut" /\ ~Armed(ep[e]) /\ Armed(ep'[e]) => Rearm(e)]_vars
  BY <1>1
<1>3. QED
  BY <1>2, Invariance, PTL DEF DeafUntilRearmed, Spec
=============================================================================
