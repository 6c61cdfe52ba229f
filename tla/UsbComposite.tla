---------------------------- MODULE UsbComposite ----------------------------
(***************************************************************************)
(* The composite HID device as the USB interrupts drive it: the device     *)
(* controller (udc.c), the job layer below it (usb_device.c, operators of  *)
(* UddEndpoint), the three class drivers (udi_hid_kbd/joystick/led.c) and  *)
(* the flags of main.c that say which of them the start-of-frame handler   *)
(* serves.                                                                 *)
(*                                                                         *)
(* Both USB interrupts have the same level, so every handler is one step.  *)
(* Control requests are taken at the point where the device decides them;  *)
(* the packets they consist of are not part of this module.                *)
(***************************************************************************)
EXTENDS Naturals, UddEndpoint

CONSTANTS
    Endpoint,   \* the endpoint addresses of the configuration descriptor
    NbIface,    \* USB_DEVICE_NB_INTERFACE
    IfaceOf,    \* the interface descriptor an endpoint descriptor follows
    Position,   \* the place of the endpoint descriptor in the configuration
    Driver      \* the class driver of each endpoint

Iface == 0 .. NbIface - 1

ASSUME DescriptorAssumption ==
    /\ NbIface \in Nat \ {0}
    /\ IfaceOf \in [Endpoint -> Iface]
    /\ Position \in [Endpoint -> Nat]
    /\ Driver \in [Endpoint -> Drivers]
    /\ \A e, g \in Endpoint :
          /\ Position[e] = Position[g] => e = g
          /\ Driver[e] = "ledOut" /\ Driver[g] = "ledOut"
                /\ IfaceOf[e] = IfaceOf[g] => e = g

VARIABLES
    ep,                 \* the state of every endpoint
    num_configuration,  \* udc_num_configuration
    address,            \* the device address: 0, or 1 for any other one
    app,                \* main_b_kbd_enable, main_b_jstk_enable, main_b_led_enable
    reply,              \* how endpoint 0 answered the last SET request
    wasHalted           \* history: halted since it was last configured

vars == <<ep, num_configuration, address, app, reply, wasHalted>>

EpsOf(i) == {e \in Endpoint : IfaceOf[e] = i}

Init ==
    /\ ep = [e \in Endpoint |-> Detached(Driver[e])]
    /\ num_configuration = 0
    /\ address = 0
    /\ app = [i \in Iface |-> FALSE]
    /\ reply = "ack"
    /\ wasHalted = [e \in Endpoint |-> FALSE]

-----------------------------------------------------------------------------
(***************************************************************************)
(* Enabling and disabling interfaces.  f is the endpoint table in between. *)
(***************************************************************************)
\* udc_iface_disable frees every endpoint of the interface.
IfaceDisabled(i, f) ==
    [e \in Endpoint |-> IF IfaceOf[e] = i THEN Free(Driver[e], f[e]) ELSE f[e]]

\* Wrong variants: the last interface is forgotten; main is not told.
UdcReset_OffByOne(f) ==
    IF num_configuration = 0 THEN f
    ELSE [e \in Endpoint |->
            IF IfaceOf[e] < NbIface - 1 THEN Free(Driver[e], f[e]) ELSE f[e]]

UdcResetApp_Kept == app

\* udc_reset disables the interfaces of the current configuration, if any.
UdcReset(f) ==
    IF num_configuration = 0 THEN f
    ELSE [e \in Endpoint |-> Free(Driver[e], f[e])]

UdcResetApp == IF num_configuration = 0 THEN app ELSE [i \in Iface |-> FALSE]

\* udc_iface_enable allocates the endpoints in descriptor order and gives up
\* at the first one that is already enabled.
IsAllocated(e, f) ==
    \A g \in EpsOf(IfaceOf[e]) : Position[g] <= Position[e] => ~f[g].enabled

AllocOk(i, f) == \A e \in EpsOf(i) : ~f[e].enabled

IfaceEnableOk(i, f) ==
    /\ AllocOk(i, f)
    /\ \A e \in EpsOf(i) : DriverEnableOk(Driver[e], Alloc(f[e]))

EnabledEp(e, f) ==
    IF AllocOk(IfaceOf[e], f) THEN DriverEnable(Driver[e], Alloc(f[e]))
    ELSE IF IsAllocated(e, f) THEN Alloc(f[e])
    ELSE f[e]

\* The loop of SET_CONFIGURATION stops after the first interface that fails.
Reached(f) == {i \in Iface : \A j \in 0 .. i - 1 : IfaceEnableOk(j, f)}

-----------------------------------------------------------------------------
(***************************************************************************)
(* Requests of the host on endpoint 0.                                     *)
(***************************************************************************)
\* A request the device refuses leaves everything as it is.
Refuse ==
    /\ reply' = "stall"
    /\ UNCHANGED <<ep, num_configuration, address, app, wasHalted>>

\* Wrong variant: one configuration too many is accepted.
ValidConfiguration_OffByOne(v) == address # 0 /\ v <= 2

\* SET_CONFIGURATION needs an address and a configuration that exists.
ValidConfiguration(v) == address # 0 /\ v <= 1

RefuseConfiguration(v) == ~ValidConfiguration(v) /\ Refuse

SetConfiguration(v) ==
    /\ ValidConfiguration(v)
    /\ LET f == UdcReset(ep)
           reached == IF v = 0 THEN {} ELSE Reached(f)
           done == {i \in reached : IfaceEnableOk(i, f)}
       IN /\ ep' = [e \in Endpoint |->
                      IF IfaceOf[e] \in reached THEN EnabledEp(e, f) ELSE f[e]]
          /\ app' = [i \in Iface |-> i \in done \/ UdcResetApp[i]]
          /\ reply' = IF v = 0 \/ done = Iface THEN "ack" ELSE "stall"
    /\ num_configuration' = v
    /\ wasHalted' = [e \in Endpoint |-> FALSE]
    /\ UNCHANGED address

\* SET_INTERFACE: the interface is disabled before the alternate setting is
\* looked up, and every interface only has setting 0.
SetInterface(i, setting) ==
    /\ num_configuration # 0
    /\ LET f == IfaceDisabled(i, ep)
           ok == setting = 0 /\ IfaceEnableOk(i, f)
       IN /\ ep' = [e \in Endpoint |->
                      IF setting = 0 /\ IfaceOf[e] = i THEN EnabledEp(e, f) ELSE f[e]]
          /\ app' = [app EXCEPT ![i] = ok]
          /\ reply' = IF ok THEN "ack" ELSE "stall"
    /\ wasHalted' = [e \in Endpoint |-> IfaceOf[e] # i /\ wasHalted[e]]
    /\ UNCHANGED <<num_configuration, address>>

RefuseInterface(i) == (num_configuration = 0 \/ i \notin Iface) /\ Refuse

\* SET_ADDRESS, when its status stage is over.
SetAddress(a) ==
    /\ address' = a
    /\ reply' = "ack"
    /\ UNCHANGED <<ep, num_configuration, app, wasHalted>>

\* SET_FEATURE(ENDPOINT_HALT) is accepted in every state of the device.
Halt(e) ==
    /\ ep' = [ep EXCEPT ![e] = SetFeatureHalt(Driver[e], @)]
    /\ wasHalted' = [wasHalted EXCEPT ![e] = TRUE]
    /\ reply' = "ack"
    /\ UNCHANGED <<num_configuration, address, app>>

Unhalt(e) ==
    /\ ep' = [ep EXCEPT ![e] = ClearHalt(Driver[e], @)]
    /\ reply' = "ack"
    /\ UNCHANGED <<num_configuration, address, app, wasHalted>>

\* SET_REPORT(output) of the LED interface, when its data has arrived: its
\* callback is the end-of-transfer callback of the OUT endpoint.  GET_REPORT of
\* the output report has the same handler and ends with the same callback.
SetReport(e) ==
    /\ num_configuration # 0
    /\ Driver[e] = "ledOut"
    /\ ep' = [ep EXCEPT ![e] = Callback(Driver[e], @)]
    /\ reply' = "ack"
    /\ UNCHANGED <<num_configuration, address, app, wasHalted>>

-----------------------------------------------------------------------------
(***************************************************************************)
(* The interrupts.                                                         *)
(***************************************************************************)
\* USB_TRNCOMPL_vect for an endpoint the host exchanged a packet with.
TransferComplete(e) ==
    /\ Armed(ep[e])
    /\ ep' = [ep EXCEPT ![e] = TransComplete(Driver[e], @)]
    /\ UNCHANGED <<num_configuration, address, app, reply, wasHalted>>

\* Wrong variant: the jobs are left to udc_reset.
BusReset_NoAbort ==
    /\ ep' = UdcReset(ep)
    /\ app' = UdcResetApp
    /\ num_configuration' = 0
    /\ address' = 0
    /\ UNCHANGED <<reply, wasHalted>>

\* Reset event of USB_BUSEVENT_vect: every job is aborted, then udc_reset.
BusReset ==
    /\ ep' = UdcReset([e \in Endpoint |-> Abort(Driver[e], ep[e])])
    /\ app' = UdcResetApp
    /\ num_configuration' = 0
    /\ address' = 0
    /\ UNCHANGED <<reply, wasHalted>>

\* main_sof_action returns at the first interface that is not enabled.
Served(e) == \A i \in 0 .. IfaceOf[e] : app[i]

\* What the application does with an endpoint it serves: a key stroke is
\* udi_hid_kbd_down and then udi_hid_kbd_up.
Service(e) ==
    IF Driver[e] = "kbd" THEN KbdUpdate(KbdUpdate(ep[e])) ELSE InSend(ep[e])

\* Start-of-frame event: the LED interface reports on every frame, keyboard
\* and joystick when there is something to report.
StartOfFrame ==
    /\ \E busyEps \in SUBSET {e \in Endpoint : Driver[e] \in {"kbd", "jstk"}} :
         ep' = [e \in Endpoint |->
                  IF Served(e) /\ (Driver[e] = "ledIn" \/ e \in busyEps)
                  THEN Service(e) ELSE ep[e]]
    /\ UNCHANGED <<num_configuration, address, app, reply, wasHalted>>

-----------------------------------------------------------------------------
Next ==
    \/ \E v \in 0 .. 2 : SetConfiguration(v) \/ RefuseConfiguration(v)
    \/ \E i \in Iface, setting \in 0 .. 1 : SetInterface(i, setting)
    \/ \E i \in 0 .. NbIface : RefuseInterface(i)
    \/ \E a \in 0 .. 1 : SetAddress(a)
    \/ \E e \in Endpoint : Halt(e) \/ Unhalt(e) \/ SetReport(e) \/ TransferComplete(e)
    \/ BusReset
    \/ StartOfFrame

Spec == Init /\ [][Next]_vars

\* The host polls the interrupt endpoints it has configured.
FairSpec == Spec /\ \A e \in Endpoint : WF_vars(TransferComplete(e))

-----------------------------------------------------------------------------
(***************************************************************************)
(* Properties.                                                             *)
(***************************************************************************)
\* The values of the variables.
TypeOK ==
    /\ ep \in [Endpoint -> EndpointState]
    /\ num_configuration \in 0 .. 1
    /\ address \in 0 .. 1
    /\ app \in [Iface -> BOOLEAN]
    /\ reply \in {"ack", "stall"}
    /\ wasHalted \in [Endpoint -> BOOLEAN]

\* No transfer job survives on a halted endpoint, whatever its callback did
\* while the endpoint was being halted.  udd_ep_clear_halt depends on it: a
\* job it finds busy is called through call_nohalt, which shares its storage
\* with the end-of-transfer callback.
NoJobWhileHalted == \A e \in Endpoint : ep[e].stall => ~ep[e].busy

\* A class driver that waits for the end of a transfer on an enabled endpoint
\* waits for one the host can still complete, so it is never stuck with
\* b_report_in_free = false or b_report_trans_ongoing = true.
OwnerIsLive ==
    \A e \in Endpoint :
        ep[e].enabled /\ ep[e].owned => ep[e].busy /\ Armed(ep[e])

\* A keyboard report that waits (b_report_valid) has a transfer on going
\* whose callback will pick it up.
PendingHasCarrier == \A e \in Endpoint : ep[e].pending => ep[e].owned

\* Without a configuration no endpoint is enabled: nothing of a failed or an
\* earlier configuration can make udd_ep_alloc answer "already allocated".
NoneEnabledUnconfigured ==
    num_configuration = 0 => \A e \in Endpoint : ~ep[e].enabled

\* The application only serves an interface that is part of the current
\* configuration and has all its endpoints.
ServedIsConfigured ==
    \A i \in Iface :
        app[i] => num_configuration = 1 /\ \A e \in EpsOf(i) : ep[e].enabled

\* While the LED interface is served and the host has not halted its OUT
\* endpoint, the endpoint is ready for the next command of the host.
OutArmedUnlessHalted ==
    \A e \in Endpoint :
        Driver[e] = "ledOut" /\ app[IfaceOf[e]] /\ ~wasHalted[e]
            => ep[e].busy /\ Armed(ep[e])

\* A SET_CONFIGURATION(1) that is acknowledged leaves every interface served
\* and every OUT endpoint listening.
AckedIsServed ==
    [][SetConfiguration(1) /\ reply' = "ack" =>
          /\ \A i \in Iface : app'[i]
          /\ \A e \in Endpoint : Driver[e] = "ledOut" => Armed(ep'[e])]_vars

\* A bus reset that finds the device unconfigured leaves no job on going:
\* the second reset of an enumeration repairs what the first one left.
SecondResetIsClean ==
    [][BusReset /\ num_configuration = 0 =>
          \A e \in Endpoint : ~ep'[e].busy]_vars

\* An OUT endpoint that stopped listening stays deaf until a configuration,
\* an alternate setting or a SET_REPORT on endpoint 0 arms it: neither
\* CLEAR_FEATURE(ENDPOINT_HALT) nor any frame does.
DeafUntilRearmed ==
    [][\A e \in Endpoint :
          Driver[e] = "ledOut" /\ ~Armed(ep[e]) /\ Armed(ep'[e]) =>
             \/ SetConfiguration(1)
             \/ SetInterface(IfaceOf[e], 0)
             \/ SetReport(e)]_vars

\* A waiting keyboard report is eventually handed to the endpoint.
PendingPickedUp == \A e \in Endpoint : ep[e].pending ~> ~ep[e].pending

\* A joystick or LED report that is being sent eventually makes room for the
\* next one.
InReportsDrain ==
    \A e \in Endpoint :
        Driver[e] \in {"jstk", "ledIn"} =>
            (ep[e].enabled /\ ep[e].owned ~> ~ep[e].owned)

(***************************************************************************)
(* What the comment of the reset handler says of it: "Abort all endpoint   *)
(* jobs on going".                                                         *)
(***************************************************************************)
ResetStopsJobs == [][BusReset => \A e \in Endpoint : ~ep'[e].busy]_vars
=============================================================================
