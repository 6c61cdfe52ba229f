---------------------------- MODULE UddEndpoint ----------------------------
(***************************************************************************)
(* The job layer of the USB device driver (usb_device.c) for one interrupt *)
(* endpoint, together with the end-of-transfer callback its class driver   *)
(* (udi_hid_kbd.c, udi_hid_joystick.c, udi_hid_led.c) registers in it.     *)
(*                                                                         *)
(* A callback only touches the endpoint it was called for, so everything a *)
(* driver call does is a function from the state of one endpoint to its    *)
(* next state.  Both USB interrupts run at one level, so such a call is    *)
(* atomic with respect to every other one made from an interrupt.          *)
(***************************************************************************)

\* The class driver behind an endpoint; it decides what its callback does.
Drivers == {"kbd", "jstk", "ledIn", "ledOut"}

(***************************************************************************)
(* State of an endpoint:                                                   *)
(*   enabled  CTRL.TYPE is not DISABLE                                     *)
(*   stall    CTRL.STALL                                                   *)
(*   nack     STATUS.BUSNACK0: the hardware NAKs every token of the host   *)
(*   busy     udd_ep_job_t.busy                                            *)
(*   owned    the class driver waits for its callback:                     *)
(*            udi_hid_kbd_b_report_trans_ongoing, and the negation of      *)
(*            udi_hid_joystick/led_b_report_in_free                        *)
(*   pending  udi_hid_kbd_b_report_valid: a report waits for the transfer  *)
(*            that is on going                                             *)
(***************************************************************************)
EndpointState ==
    [enabled: BOOLEAN, stall: BOOLEAN, nack: BOOLEAN, busy: BOOLEAN,
     owned: BOOLEAN, pending: BOOLEAN]

\* After udd_enable: every CTRL is 0, no job is busy.  The class drivers'
\* flags are zero-initialised, which reads as "not free" for the IN drivers.
Detached(d) ==
    [enabled |-> FALSE, stall |-> FALSE, nack |-> FALSE, busy |-> FALSE,
     owned |-> d \in {"jstk", "ledIn"}, pending |-> FALSE]

-----------------------------------------------------------------------------
\* udd_ep_run: refused unless the endpoint is enabled, not stalled and idle.
RunOk(s) == s.enabled /\ ~s.stall /\ ~s.busy

Run(s) == IF RunOk(s) THEN [s EXCEPT !.busy = TRUE, !.nack = FALSE] ELSE s

\* Wrong variant: a report whose transfer is refused stays pending.
KbdSend_KeepsRefused(s) ==
    IF s.owned THEN s ELSE [Run(s) EXCEPT !.pending = ~RunOk(s), !.owned = RunOk(s)]

\* udi_hid_kbd_send_report: nothing while a transfer is on going; otherwise
\* the report is no longer pending, whether or not the transfer starts.
KbdSend(s) ==
    IF s.owned THEN s
    ELSE [Run(s) EXCEPT !.pending = FALSE, !.owned = RunOk(s)]

\* A change of the keyboard report: udi_hid_kbd_down, _up, _modifier_*.
KbdUpdate(s) == KbdSend([s EXCEPT !.pending = TRUE])

\* udi_hid_joystick_send_report_in and udi_hid_led_send_report_in.
InSend(s) == IF s.owned THEN s ELSE [Run(s) EXCEPT !.owned = RunOk(s)]

\* Wrong variant: a waiting keyboard report is not sent.
KbdReportSent_NoResend(s) == [s EXCEPT !.owned = FALSE]

\* udi_hid_kbd_report_sent: the report that was changed meanwhile goes next.
KbdReportSent(s) ==
    LET idle == [s EXCEPT !.owned = FALSE]
    IN  IF idle.pending THEN KbdSend(idle) ELSE idle

\* Wrong variant: the report buffer is not given back.
ReportInSent_NoRelease(s) == s

\* udi_hid_joystick_report_in_sent and udi_hid_led_report_in_sent.
ReportInSent(s) == [s EXCEPT !.owned = FALSE]

\* Wrong variant: the OUT endpoint is not armed again.
ReportOutReceived_NoRearm(s) == s

\* udi_hid_led_report_out_received, which listens for the next report.
ReportOutReceived(s) == Run(s)

\* The end-of-transfer callback of each class driver.  None of them lets the
\* status (OK or ABORT) decide whether it starts the next transfer.
Callback(d, s) ==
    CASE d = "kbd"    -> KbdReportSent(s)
      [] d = "ledOut" -> ReportOutReceived(s)
      [] OTHER        -> ReportInSent(s)

\* The end of a job: busy is cleared first, then the callback runs.
EndJob(d, s) ==
    IF s.busy THEN Callback(d, [s EXCEPT !.busy = FALSE]) ELSE s

\* udd_ep_abort: NAK, then the end of the job if there is one.
Abort(d, s) == EndJob(d, [s EXCEPT !.nack = TRUE])

\* udd_ep_init, as udd_ep_alloc calls it.
Alloc(s) == [s EXCEPT !.enabled = TRUE, !.stall = FALSE, !.nack = TRUE]

\* udd_ep_free: the job is aborted while the endpoint is still enabled, and
\* only then CTRL is cleared.
Free(d, s) == [Abort(d, s) EXCEPT !.enabled = FALSE, !.stall = FALSE]

\* Wrong variant: aborted first, then stalled.
SetHalt_AbortFirst(d, s) == [Abort(d, s) EXCEPT !.stall = TRUE]

\* udd_ep_set_halt: stalled first, then aborted.
SetHalt(d, s) == Abort(d, [s EXCEPT !.stall = TRUE])

\* SET_FEATURE(ENDPOINT_HALT): udc aborts the job before it halts.
SetFeatureHalt(d, s) == SetHalt(d, Abort(d, s))

\* Wrong variant: the callback runs although there is no job.
ClearHalt_AlwaysCalls(d, s) ==
    IF s.stall THEN Callback(d, [s EXCEPT !.stall = FALSE]) ELSE s

\* udd_ep_clear_halt.  A job found busy here is taken for one registered by
\* udd_ep_wait_stall_clear; call_nohalt shares its storage with call_trans,
\* so what would be called is the end-of-transfer callback.
ClearHalt(d, s) ==
    IF s.stall THEN EndJob(d, [s EXCEPT !.stall = FALSE]) ELSE s

\* The host may move a packet only on an armed endpoint.
Armed(s) == s.enabled /\ ~s.stall /\ ~s.nack

\* The transfer-complete interrupt of an 8-byte endpoint: the hardware NAKs
\* again and udd_ep_trans_complet finds the whole report moved (or, on OUT, a
\* short packet received), which ends the job.
TransComplete(d, s) == EndJob(d, [s EXCEPT !.nack = TRUE])

\* udi_hid_kbd_enable forgets the report of the last session.
KbdEnable(s) == [s EXCEPT !.owned = FALSE, !.pending = FALSE]

\* Wrong variant: the flag of the last session is kept.
InEnable_KeepsFlag(s) == s

\* udi_hid_joystick_enable, and udi_hid_led_enable for its IN endpoint.
InEnable(s) == [s EXCEPT !.owned = FALSE]

\* The part of udi_xxx_enable that touches the endpoint; LED OUT is armed.
DriverEnable(d, s) ==
    CASE d = "kbd"    -> KbdEnable(s)
      [] d = "ledOut" -> Run(s)
      [] OTHER        -> InEnable(s)

\* Wrong variant: the result of udi_hid_led_report_out_enable is ignored.
DriverEnableOk_Ignored(d, s) == TRUE

\* udi_hid_led_enable returns false when the OUT transfer does not start.
DriverEnableOk(d, s) == d = "ledOut" => RunOk(s)
=============================================================================
