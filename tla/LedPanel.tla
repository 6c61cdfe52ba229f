------------------------------ MODULE LedPanel ------------------------------
(***************************************************************************)
(* The LEDs (led.c), their dispatch (ui.c) and everyone who writes them:   *)
(* main, in its start-up sequence and in test mode without USB; the        *)
(* start-of-frame interrupt; the host.  Nobody takes a lock, so interrupts *)
(* come between any two writes main makes; they run to their end.          *)
(*                                                                         *)
(* Timers are choices: a blink or a step of the animation may be due at    *)
(* any frame.  What the user does in test mode is a choice as well.        *)
(***************************************************************************)
EXTENDS TestSwitch, Naturals, Sequences

CONSTANTS
    NbLed,          \* 8 in the product
    Status,         \* the status LED, bit 8 of ledMap
    KeyLed,         \* LEDs that keys toggle in test mode
    Contact,        \* what jstk_readMask can return
    Mask            \* the masks the host sends

Led == 1 .. NbLed
All == Led \cup {Status}

ASSUME PanelAssumption ==
    /\ NbLed \in Nat \ {0}
    /\ KeyLed \subseteq Led /\ Contact \subseteq SUBSET Led /\ Mask \subseteq SUBSET Led
    /\ Status \notin Led

VARIABLES
    panel,      \* the LEDs that are lit, ledMap, and the flags below
    idle,       \* idle_t: running, and the next step of the animation
    pc, todo,   \* where main is, and the writes of the call it is in
    torn,       \* history: an interrupt came when main was about to write LEDs
    steady      \* history: what the host lit, while nothing else may change it

vars == <<test, configured, panel, idle, pc, todo, torn, steady>>

(***************************************************************************)
(* The state of the panel:                                                 *)
(*   port, map          the LEDs whose pin is low; those set in ledMap     *)
(*   active             userActive                                         *)
(*   kpdTest            kpd_testMode: the switch, as keypad_report saw it  *)
(*   kpdExit, jstkExit  kpd_exitTestMode, jstk_exitTestMode                *)
(*   prev               what status_ui_process saw of the switch before    *)
(***************************************************************************)
PanelState ==
    [port: SUBSET All, map: SUBSET All, active: BOOLEAN, kpdTest: BOOLEAN,
     kpdExit: BOOLEAN, jstkExit: BOOLEAN, prev: BOOLEAN]

-----------------------------------------------------------------------------
(***************************************************************************)
(* Calls, as the writes they make one after the other.                     *)
(***************************************************************************)
Write(to, how, with) == [to |-> to, how |-> how, with |-> with]

Put(flag, value) == <<Write(flag, "put", value)>>

\* OUTCLR, OUTSET or OUTTGL of the port, then the same of the map.
Both(how, leds) == <<Write("port", how, leds), Write("map", how, leds)>>

led_quiet_allOn == Both("on", Led)
led_quiet_allOff == Both("off", Led)
led_allOff == led_quiet_allOff \o Put("active", TRUE)
led_on(m) == Both("on", m) \o Put("active", TRUE)
led_toggle(l) == Both("toggle", {l}) \o Put("active", TRUE)
led_statusOn == Both("on", {Status})
led_statusOff == Both("off", {Status})
led_statusToggle == Both("toggle", {Status})

\* Wrong variant: the map keeps what was lit before.
led_quiet_setState_MapAdds(m) ==
    <<Write("port", "off", Led), Write("port", "on", m), Write("map", "on", m)>>

led_quiet_setState(m) ==
    <<Write("port", "off", Led), Write("port", "on", m),
      Write("map", "off", Led \ m), Write("map", "on", m)>>

led_setState(m) == led_quiet_setState(m) \o Put("active", TRUE)

After(how, with, old) ==
    CASE how = "on"     -> old \cup with
      [] how = "off"    -> old \ with
      [] how = "toggle" -> (old \ with) \cup (with \ old)
      [] how = "put"    -> with

Apply(w, p) == [p EXCEPT ![w.to] = After(w.how, w.with, @)]

\* A call that nothing interrupts.
ApplyAll(ws, p) ==
    LET after[n \in 0 .. Len(ws)] == IF n = 0 THEN p ELSE Apply(ws[n], after[n - 1])
    IN  after[Len(ws)]

-----------------------------------------------------------------------------
\* keypad_report in test mode, when a key goes down.
KeyWrites(l, p) ==
    IF p.kpdTest /\ l # None THEN led_toggle(l) \o Put("kpdExit", TRUE) ELSE <<>>

\* The end of keypad_report and of jstk_ui_process, which go by the switch as they
\* saw it at their start: in the first normal frame the LEDs that keys or pads lit
\* in test mode go out, and all others with them.
LeaveTest(seen, flag, p) ==
    IF ~seen /\ p[flag] THEN led_quiet_allOff \o Put(flag, FALSE) ELSE <<>>

\* jstk_ui_process.
JstkWrites(contact, p) ==
    IF test /\ contact # {}
    THEN led_allOff \o led_on(contact) \o Put("jstkExit", TRUE)
    ELSE LeaveTest(test, "jstkExit", p)

\* Wrong variant: the status LED goes out in every normal frame.
StatusWrites_AlwaysOff(blink, p) ==
    (IF test THEN (IF blink THEN led_statusToggle ELSE <<>>) ELSE led_statusOff)
    \o Put("prev", test)

\* status_ui_process.
StatusWrites(blink, p) ==
    (CASE test /\ blink -> led_statusToggle
       [] ~test /\ p.prev -> led_statusOff
       [] OTHER -> <<>>)
    \o Put("prev", test)

\* idlePoll: activity stops the animation.
IdleStops(p) == idle.running /\ p.active

IdleSteps(tick, p) == idle.running /\ ~p.active /\ tick

\* The LED of the next step; the animation starts over after the last one.
NextLed == IF idle.step >= NbLed THEN 1 ELSE idle.step + 1

IdleWrites(tick, p) ==
    CASE IdleStops(p)       -> led_quiet_allOff
      [] IdleSteps(tick, p) -> led_quiet_setState({NextLed})
      [] OTHER -> <<>>

\* Started, the animation begins anew; stopped, its step is of no use.
Started == [running |-> TRUE, step |-> 0]
Stopped == [running |-> FALSE, step |-> 0]

-----------------------------------------------------------------------------
\* io_init starts the animation; startup_ui_process is under way.
Init ==
    /\ test \in BOOLEAN /\ configured = FALSE
    /\ panel = [port |-> {}, map |-> {}, active |-> FALSE, kpdTest |-> TRUE,
                kpdExit |-> FALSE, jstkExit |-> FALSE, prev |-> FALSE]
    /\ idle = Started
    /\ pc = "startup" /\ todo = led_quiet_allOn \o led_statusOn
    /\ torn = FALSE /\ steady = None

-----------------------------------------------------------------------------
(***************************************************************************)
(* Interrupts.                                                             *)
(***************************************************************************)
\* The LEDs main has yet to write in the call it is in.
Pending ==
    UNION {todo[i].with : i \in {j \in DOMAIN todo : todo[j].to \in {"port", "map"}}}

\* main_sof_action: the keypad, the joystick, the status LED, the animation.
Frame(key, contact, blink, tick) ==
    /\ configured
    /\ LET p0 == ApplyAll(Put("kpdTest", test), panel)
           p1 == ApplyAll(KeyWrites(key, p0), p0)
           p2 == ApplyAll(LeaveTest(p1.kpdTest, "kpdExit", p1), p1)
           p3 == ApplyAll(JstkWrites(contact, p2), p2)
           p4 == ApplyAll(StatusWrites(blink, p3), p3)
       IN  /\ panel' = ApplyAll(IdleWrites(tick, p4), p4)
           /\ idle' = CASE IdleStops(p4)       -> Stopped
                        [] IdleSteps(tick, p4) -> [idle EXCEPT !.step = NextLed]
                        [] OTHER -> idle
    /\ torn' = (torn \/ Pending # {})
    /\ UNCHANGED <<test, configured, pc, todo, steady>>

\* led_ui_report, for a report on the LED endpoint or by SET_REPORT.  STOP and
\* codes that are no command do the same: led_setState is activity as well.
Commands == {"STATUS_ON", "STATUS_OFF", "STOP"}

CommandWrites(command, m) ==
    CASE command = "STATUS_ON"  -> led_statusOn \o led_setState(m)
      [] command = "STATUS_OFF" -> led_statusOff \o led_setState(m)
      [] command = "STOP"       -> led_setState(m)

\* What a command shows is there to stay: the animation is over, no LED of
\* test mode waits to be put out, main sleeps.
Lasts == /\ ~test /\ pc = "loop" /\ todo = <<>> /\ ~idle.running
         /\ ~panel.kpdExit /\ ~panel.jstkExit /\ ~panel.prev

Command(command, m) ==
    /\ configured
    /\ panel' = ApplyAll(CommandWrites(command, m), panel)
    /\ torn' = (Pending # {} \/ (torn /\ command = "STOP"))
    /\ steady' = IF Lasts THEN panel'.port ELSE None
    /\ UNCHANGED <<test, configured, idle, pc, todo>>

\* START, which has no mask.
CommandStart ==
    /\ configured
    /\ panel' = ApplyAll(Put("active", FALSE), panel)
    /\ idle' = Started
    /\ steady' = None
    /\ UNCHANGED <<test, configured, pc, todo, torn>>

-----------------------------------------------------------------------------
(***************************************************************************)
(* main.                                                                   *)
(***************************************************************************)
At(place) == pc = place /\ todo = <<>>

\* The next write of the call main is in.
MainWrite ==
    /\ todo # <<>>
    /\ panel' = Apply(Head(todo), panel)
    /\ todo' = Tail(todo)
    /\ UNCHANGED <<test, configured, idle, pc, torn, steady>>

\* main calls the next function, which makes these writes.
Call(from, writes, to) ==
    /\ At(from)
    /\ pc' = to
    /\ todo' = writes
    /\ UNCHANGED <<test, configured, panel, idle, torn, steady>>

\* startupSequence, after the first delay.
StartupEnds == Call("startup", led_quiet_allOff \o led_statusOff, "loop")

\* The loop in main runs in test mode without USB.
LoopStarts == ~configured /\ test /\ Call("loop", <<>>, "poll")

\* The switch may have been turned while keypad_poll was scanning, and a frame
\* may see it again before main goes by what it has seen.
KeypadStarts == Call("poll", Put("kpdTest", test), "sampled")

KeypadReport(key) == Call("sampled", KeyWrites(key, panel), "keypad")

KeypadEnds == Call("keypad", LeaveTest(panel.kpdTest, "kpdExit", panel), "jstk")

Jstk(contact) == Call("jstk", JstkWrites(contact, panel), "status")

StatusUi(blink) == Call("status", StatusWrites(blink, panel), "loop")

-----------------------------------------------------------------------------
\* The user turns the switch.
TurnSwitch ==
    /\ test' = ~test
    /\ steady' = IF test' THEN None ELSE steady
    /\ UNCHANGED <<configured, panel, idle, pc, todo, torn>>

\* The host configures the device, or lets go of it.
SetConfigured ==
    /\ configured' = ~configured
    /\ UNCHANGED <<test, panel, idle, pc, todo, torn, steady>>

\* What may happen at a frame: keys, pads and blinks count in test mode only,
\* steps only while the animation runs.
Keys == IF test THEN KeyLed \cup {None} ELSE {None}
Contacts == IF test THEN Contact ELSE {{}}
Blinks == IF test THEN BOOLEAN ELSE {FALSE}
Ticks == IF idle.running THEN BOOLEAN ELSE {FALSE}

Main ==
    \/ MainWrite
    \/ StartupEnds
    \/ LoopStarts
    \/ KeypadStarts
    \/ \E key \in KeyLed \cup {None} : KeypadReport(key)
    \/ KeypadEnds
    \/ \E contact \in Contacts : Jstk(contact)
    \/ \E blink \in Blinks : StatusUi(blink)

Next ==
    \/ \E key \in Keys, contact \in Contacts, blink \in Blinks, tick \in Ticks :
          Frame(key, contact, blink, tick)
    \/ \E command \in Commands, m \in Mask : Command(command, m)
    \/ CommandStart
    \/ Main
    \/ TurnSwitch
    \/ SetConfigured

Spec == Init /\ [][Next]_vars

-----------------------------------------------------------------------------
\* The map the host reads tells which LEDs are lit, but for those main is about
\* to write.  An interrupt at that moment can leave them apart; the next
\* command of the host that sets all LEDs, the status LED too, repairs it.
MapTellsPort ==
    torn \/ \A l \in All \ Pending : l \in panel.port <=> l \in panel.map

\* In normal mode nothing but the host changes what the host has lit, once the
\* animation is over and the LEDs of test mode have been put out.
HostLedsStay == steady # None => panel.port = steady
=============================================================================
