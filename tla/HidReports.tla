----------------------------- MODULE HidReports -----------------------------
(***************************************************************************)
(* What the host knows of an input of the device: the report buffers of    *)
(* the class drivers (udi_hid_kbd.c, udi_hid_joystick.c, udi_hid_led.c),   *)
(* from the call that changes a report to the packet the host receives.    *)
(*                                                                         *)
(* An IN endpoint has one driver and no driver touches another endpoint,   *)
(* so one endpoint is modelled, with any of the three drivers behind it.   *)
(* Its flags are those of UddEndpoint; this module adds the contents.      *)
(***************************************************************************)
EXTENDS Naturals, UddEndpoint

CONSTANTS
    Key,        \* the codes of keys
    None,       \* the byte 0 of an empty slot
    NbSlot,     \* the slots of a keyboard report, 6 in the product
    Modifier,   \* the modifier bits
    Content,    \* what a joystick or LED report can say
    Centre,     \* the joystick at rest
    Unknown     \* no report of the joystick or the LEDs yet

Slot == 1 .. NbSlot

ASSUME ReportAssumption ==
    /\ NbSlot \in Nat \ {0}
    /\ None \notin Key
    /\ Centre \in Content
    /\ Unknown \notin Content

VARIABLES
    drv,        \* the driver of the endpoint
    ep,         \* the endpoint and the flags of its driver
    report,     \* udi_hid_kbd_report; what jstk_usbTask, gui_ui_process find
    sent,       \* jstk_prevReport
    trans,      \* the buffer of the transfer (udi_hid_..._report_trans, _in)
    host,       \* the last report the host received since it configured us
    lost,       \* history: nothing will tell the host of the last change
    waited      \* history: a report waited when the endpoint was freed

vars == <<drv, ep, report, sent, trans, host, lost, waited>>

InDrivers == {"kbd", "jstk", "ledIn"}

KbdReport == [mods: SUBSET Modifier, keys: [Slot -> Key \cup {None}]]

NoKey == [mods |-> {}, keys |-> [i \in Slot |-> None]]

Reports(d) == IF d = "kbd" THEN KbdReport ELSE Content \cup {Unknown}

\* What the host assumes of a device it has just configured.
Blank(d) == IF d = "kbd" THEN NoKey ELSE Unknown

Init ==
    /\ drv \in InDrivers
    /\ ep = Detached(drv)
    /\ IF drv = "kbd" THEN report = NoKey ELSE report \in Content
    /\ sent = IF drv = "kbd" THEN NoKey ELSE Centre
    /\ trans = Blank(drv)
    /\ host = Blank(drv)
    /\ lost = (drv # "kbd")
    /\ waited = FALSE

-----------------------------------------------------------------------------
(***************************************************************************)
(* The array of keys in the keyboard report.                               *)
(***************************************************************************)
\* Where the loops of udi_hid_kbd_up and _down stop.
IsStop(i, k, keys) ==
    /\ keys[i] \in {k, None}
    /\ \A j \in 1 .. i - 1 : keys[j] \notin {k, None}

\* udi_hid_kbd_down: a key that is there or an array that is full changes
\* nothing.
KeyDown(k, keys) ==
    IF \E i \in Slot : IsStop(i, k, keys) /\ keys[i] = None
    THEN [keys EXCEPT ![CHOOSE i \in Slot : IsStop(i, k, keys) /\ keys[i] = None] = k]
    ELSE keys

\* Wrong variant: the slot is cleared, the later keys are not shifted.
KeyUp_NoShift(k, keys) == [i \in Slot |-> IF keys[i] = k THEN None ELSE keys[i]]

\* udi_hid_kbd_up: the keys after the one removed move up by one.
KeyUp(k, keys) ==
    IF \E i \in Slot : IsStop(i, k, keys) /\ keys[i] = k
    THEN LET at == CHOOSE i \in Slot : IsStop(i, k, keys) /\ keys[i] = k
         IN  [i \in Slot |->
                IF i < at THEN keys[i] ELSE IF i < NbSlot THEN keys[i + 1] ELSE None]
    ELSE keys

-----------------------------------------------------------------------------
(***************************************************************************)
(* Calls of the application, from the start-of-frame interrupt.            *)
(***************************************************************************)
\* Wrong variant: the buffer of the transfer that is on going is overwritten.
KbdChange_Overwrites(r) ==
    /\ drv = "kbd"
    /\ report' = r
    /\ ep' = KbdUpdate(ep)
    /\ trans' = r
    /\ lost' = ~ep'.owned
    /\ UNCHANGED <<drv, sent, host, waited>>

\* The end of every call that changes the keyboard report: the report is
\* valid, and udi_hid_kbd_send_report copies it unless a transfer is on going.
KbdChange(r) ==
    /\ drv = "kbd"
    /\ report' = r
    /\ ep' = KbdUpdate(ep)
    /\ trans' = IF ep.owned THEN trans ELSE r
    /\ lost' = ~ep'.owned
    /\ UNCHANGED <<drv, sent, host, waited>>

Down(k) ==
    /\ drv = "kbd"
    /\ KeyDown(k, report.keys) # report.keys
    /\ KbdChange([report EXCEPT !.keys = KeyDown(k, @)])

Up(k) ==
    /\ drv = "kbd"
    /\ KeyUp(k, report.keys) # report.keys
    /\ KbdChange([report EXCEPT !.keys = KeyUp(k, @)])

\* udi_hid_kbd_modifier_down and _up report even if nothing changes.
ModifierDown(m) == drv = "kbd" /\ KbdChange([report EXCEPT !.mods = @ \cup {m}])

ModifierUp(m) == drv = "kbd" /\ KbdChange([report EXCEPT !.mods = @ \ {m}])

\* The pads or the LEDs change.
Move(c) ==
    /\ drv # "kbd"
    /\ report' = c
    /\ UNCHANGED <<drv, ep, sent, trans, host, lost, waited>>

\* Wrong variant: the joystick takes the report for sent when it was refused.
SendReportIn_AlwaysSent ==
    /\ ep' = InSend(ep)
    /\ trans' = IF ep.owned THEN trans ELSE report
    /\ sent' = report
    /\ lost' = ((ep.owned \/ ~ep'.owned) /\ lost)
    /\ UNCHANGED <<drv, report, host, waited>>

\* udi_hid_joystick_send_report_in, udi_hid_led_send_report_in and what the
\* caller does with the result: jstk_prevReport is what was accepted.
SendReportIn ==
    /\ ep' = InSend(ep)
    /\ trans' = IF ep.owned THEN trans ELSE report
    /\ LET accepted == ~ep.owned /\ ep'.owned
       IN /\ sent' = IF accepted THEN report ELSE sent
          /\ lost' = (lost /\ ~accepted)
    /\ UNCHANGED <<drv, report, host, waited>>

\* A frame: jstk_usbTask sends what has changed, gui_ui_process always sends.
Frame ==
    \/ drv = "jstk" /\ report # sent /\ SendReportIn
    \/ drv = "ledIn" /\ SendReportIn

-----------------------------------------------------------------------------
(***************************************************************************)
(* The bus.                                                                *)
(***************************************************************************)
\* A callback that sends the report that waits copies it first.
Carry(s) == IF ep.pending /\ ~s.pending THEN report ELSE trans

\* The host polls the endpoint.
TransferComplete ==
    /\ Armed(ep)
    /\ host' = trans
    /\ ep' = TransComplete(drv, ep)
    /\ trans' = Carry(ep')
    /\ UNCHANGED <<drv, report, sent, lost, waited>>

Halt ==
    /\ ep' = SetFeatureHalt(drv, ep)
    /\ trans' = Carry(ep')
    /\ lost' = (lost \/ ep.busy)
    /\ waited' = FALSE
    /\ UNCHANGED <<drv, report, sent, host>>

Unhalt ==
    /\ ep' = ClearHalt(drv, ep)
    /\ UNCHANGED <<drv, report, sent, trans, host, lost, waited>>

\* The host forgets what it knew, and the driver what it had to say.
Forget ==
    /\ host' = Blank(drv)
    /\ lost' = (drv # "kbd")
    /\ UNCHANGED <<drv, sent>>

\* Leaving a configuration: udc_iface_disable, if there is one.
Left(s) == IF s.enabled THEN Free(drv, s) ELSE s

\* SET_CONFIGURATION(1) or SET_INTERFACE.
Configure ==
    /\ ep' = DriverEnable(drv, Alloc(Left(ep)))
    /\ trans' = Carry(Left(ep))
    /\ waited' = IF ep.enabled THEN ep.pending ELSE waited
    /\ report' = IF drv = "kbd" THEN NoKey ELSE report
    /\ Forget

\* SET_CONFIGURATION(0).  The keyboard report stays, and so does what the
\* host knew of it when the device is configured again: nothing.
Unconfigure ==
    /\ ep' = Left(ep)
    /\ trans' = Carry(ep')
    /\ waited' = IF ep.enabled THEN ep.pending ELSE waited
    /\ host' = Blank(drv)
    /\ lost' = TRUE
    /\ UNCHANGED <<drv, report, sent>>

\* Wrong variant: the jobs are not aborted before udc_reset.
BusReset_NoAbort ==
    /\ ep' = Left(ep)
    /\ trans' = Carry(ep')
    /\ waited' = FALSE
    /\ host' = Blank(drv)
    /\ lost' = TRUE
    /\ UNCHANGED <<drv, report, sent>>

BusReset ==
    /\ ep' = Left(Abort(drv, ep))
    /\ trans' = Carry(ep')
    /\ waited' = FALSE
    /\ host' = Blank(drv)
    /\ lost' = TRUE
    /\ UNCHANGED <<drv, report, sent>>

-----------------------------------------------------------------------------
Disturb == Halt \/ Unhalt \/ Configure \/ Unconfigure \/ BusReset

Change ==
    \/ \E k \in Key : Down(k) \/ Up(k)
    \/ \E m \in Modifier : ModifierDown(m) \/ ModifierUp(m)
    \/ \E c \in Content : Move(c)

Next == Change \/ Frame \/ TransferComplete \/ Disturb

Spec == Init /\ [][Next]_vars

\* The host polls an endpoint it has configured, and frames go on.
FairSpec == Spec /\ WF_vars(TransferComplete) /\ WF_vars(Frame)

-----------------------------------------------------------------------------
(***************************************************************************)
(* Properties.                                                             *)
(***************************************************************************)
TypeOK ==
    /\ drv \in InDrivers
    /\ ep \in EndpointState
    /\ {report, sent, trans, host} \subseteq Reports(drv)
    /\ lost \in BOOLEAN
    /\ waited \in BOOLEAN

\* A packed array of keys names each key once and has no hole: the host reads
\* it up to the first empty slot.
Packed(keys) ==
    \A i, j \in Slot :
        i < j => /\ keys[i] = None => keys[j] = None
                 /\ keys[i] = keys[j] => keys[j] = None

\* No call, and no moment a report is copied at, shows the host a keyboard
\* report with a hole or with a key twice.
SlotsPacked ==
    drv = "kbd" => Packed(report.keys) /\ Packed(trans.keys) /\ Packed(host.keys)

\* What the driver takes for told.
Told == IF drv = "kbd" THEN report ELSE sent

\* The host knows what the driver takes for told, or the transfer on going
\* carries it, or the keyboard report waits for the end of that transfer; but
\* for what was dropped when the endpoint was halted or left, or refused.
HostWillKnow ==
    \/ lost
    \/ host = Told
    \/ ep.owned /\ (ep.pending \/ trans = Told)

\* The endpoint works, but its driver cannot start a transfer.
Mute == ep.enabled /\ ~ep.stall /\ ep.busy /\ ~ep.owned

\* The buffer of a transfer the host may be reading changes only when the host
\* has read it, although callbacks and calls both copy into it.
BufferStable ==
    [][Armed(ep) /\ Armed(ep') /\ trans' # trans => TransferComplete]_vars

\* A driver is only mute if a report waited when the host set a configuration
\* or a setting over the one in force, without a bus reset; the next halt, bus
\* reset or configuration repairs it.
MuteAfterReconfigure == Mute => waited

\* When the application has nothing new and the host leaves the endpoint
\* alone, the host ends up with the report of the device, whatever happened
\* before; a keyboard or joystick report that was dropped is not repeated.
HostConverges ==
    <>[][Frame \/ TransferComplete]_vars =>
        <>[](\/ host = report
             \/ lost /\ drv # "ledIn"
             \/ ~ep.enabled
             \/ ep.stall)
=============================================================================
