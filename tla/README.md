# A formal model of the USB HID composite firmware

The repository is the firmware of an ATxmega256A3U board that shows itself to
the host as one composite USB device: a keyboard (a key matrix), a joystick
(pads on the same board) and an LED panel the host controls. This directory
holds TLA+ modules translated from its sources, the TLC runs that check them and
the proofs TLAPS checks. Paths below are relative to
`src/CompositeImplementation/src/`; `usb_device.c`, `udc.c` and the
`udi_hid*.c` files are those under `ASF/`.

## 1. Inventory

### How the firmware runs

There are three execution contexts: `main()` (start-up and then an endless loop
that calls scan functions), and two USB interrupts, `USB_BUSEVENT_vect` (reset,
suspend, resume, start of frame, control errors) and `USB_TRNCOMPL_vect`
(SETUP received, a packet moved). Both interrupts have the same level, so a
handler is never interrupted by the other one; `main` can be interrupted
anywhere unless it is between `cpu_irq_save` and `cpu_irq_restore`. Assertions
are compiled out.

    host --- endpoint 0 --- udd_ctrl_* --- udc.c --- udi_hid.c --- udi_hid_{kbd,joystick,led}.c
         \-- EP1..EP4 ----- udd_ep_*  --------- end-of-transfer callbacks --'      |
         \-- SOF ---------- main_sof_action --- ui.c --- keypad.c / joystick.c / led.c

### Components

| Component | State | Operations | Hard behaviour |
|---|---|---|---|
| endpoint jobs (`usb_device.c` `udd_ep_*`) | per endpoint: type, STALL, NAK, job busy, callback | alloc, free, run, abort, halt, clear halt, transfer complete | callbacks that restart the job they are called for; aborts while an endpoint is being halted or freed |
| control endpoint (`udd_ctrl_*`) | stage of the request, buffer position, callback | SETUP, IN sent, OUT received, underflow, overflow, errors | a SETUP in any stage; callbacks once; address after the status stage |
| device controller (`udc.c`) | configuration number, interface tables | standard requests, reset, start-of-frame dispatch | partial failure of SET_CONFIGURATION |
| class drivers (`udi_hid_*.c`) | report buffers, "valid", "ongoing", "free" flags | enable, disable, send, callbacks, SET_REPORT | flags that must follow every way a transfer ends |
| `main.c` | one enable flag per interface | start-of-frame handler, main loop | the same functions called from two contexts |
| `ui.c`, `led.c` | `ledMap`, port, idle animation, status counter | commands of the host, activity, animation | commands while the animation runs; port and map apart |
| `keypad.c` | rows seen last, key and press states | scan the columns, judge the press | one memory for all columns; a scan of `main` interrupted by one of a frame |
| `joystick.c` | linked list of held pads, last report | scan, axis and LED masks, report | list operations in two contexts; first-pressed-wins order |
| sleep manager | a lock counter per mode | lock, unlock, choose a mode, sleep | unlock of an unlocked mode never ends; a mode chosen too early |
| clock, NVM, ports, board | registers | start-up only | none after start-up |

### What makes each of them correct

* **Endpoint jobs and class drivers.** A driver that waits for a callback waits
  for something the host can cause; a waiting report is picked up; a halted
  endpoint has no job; a configuration that is acknowledged is complete.
* **Control endpoint.** Each request ends in at most one callback; the address
  changes after the status stage and only then.
* **Keyboard and keypad.** The report the host holds ends up equal to that of
  the device; a press that ends sends one stroke, of a key that was pressed, and
  none if two keys were down; a press toggles an LED once in test mode; the keys
  the host is told are those that are down.
* **Joystick.** The list of held pads is the FIFO of the pads that are down; the
  report is that of the first ones; the host ends up with the last report.
* **LED panel.** The port shows `ledMap`; what the host has lit stays lit until
  the host or a user in test mode changes it.
* **Sleep manager.** Locks and unlocks alternate with the idle flag; the CPU is
  in power-down when, and only when, the bus is suspended.
* **Requests.** Every answer fits the request, and no request an enumerating
  host needs is refused.

The hazards, each at its line, are in `PROJECT.json`.

## 2. Modules

| Module | What it models |
|---|---|
| `UddEndpoint` | one interrupt endpoint with its class driver's flags, as a record, and every driver call as an operator on it |
| `UddEndpointProofs` | what each driver call does to an endpoint's state: lemmas for the two modules built on it |
| `UsbComposite` | the device: endpoint table, configuration, address, interface flags of `main.c`; one action per request, interrupt and frame |
| `MCUsbComposite` | the product's descriptor table for TLC |
| `UsbCompositeProofs` | theorems about `UsbComposite` for every descriptor table |
| `ControlRequests` | `udd_g_ctrlreq`: what the device controller leaves for endpoint 0 |
| `ControlEndpoint` | endpoint 0: every `udd_ctrl_*` handler as an operator on the device, its two interrupts, and a host that sends the tokens of its requests |
| `MCControlEndpoint` | one request of each kind for TLC |
| `ControlEndpointProofs` | theorems about endpoint 0 for every packet size and set of requests: its own state, and what it promises a host |
| `PadQueue` | what one axis of the joystick promises: a queue of held pads, sampled and reported |
| `JoystickScan` | `jstk_scan` on its linked list, one iteration of a loop per step |
| `JoystickScanProofs` | the list is a queue and implements `PadQueue`, for a slider of any length |
| `HidReports` | the contents of a report, from the call that changes it through the one buffer of its driver to the host; any of the three IN drivers |
| `HidReportsProofs` | theorems about the report for any number of keys, slots, modifiers and contents |
| `UdcRequests` | what `udc_process_setup` makes of a SETUP packet, through `udc_reqstd` and `udi_hid_setup`, and the state requests leave behind |
| `MCUdcRequests` | descriptors and SETUP packets for TLC |
| `UdcRequestsProofs` | theorems about answers for any descriptors and requests |
| `TestSwitch` | the test mode switch and the USB state, which `Keypad` and `LedPanel` share |
| `Keypad` | the scan of the matrix and the judgement of a press, by the frame and by the loop of `main`, which a frame may interrupt at any step |
| `MCKeypad` | two buttons for TLC |
| `LedPanel` | port, map, animation, status LED and commands, with `main` interrupted between any two writes |
| `FrontPanelProofs` | theorems about `LedPanel` and `Keypad`, for any number of LEDs, columns, rows and buttons |
| `UsbPower` | lock counters, the way `main` goes to sleep, suspend and resume |
| `UsbPowerProofs` | theorems about `UsbPower`, whatever the order of bus events |

The modules meet where one takes another's promise as given. `UsbComposite` and
`HidReports` are built on the same `UddEndpoint`. `ControlEndpoint` and
`UdcRequests` share `ControlRequests`: what the one assumes of a request,
`CanBeCarriedOut`, is what is proved of each answer of the other. Keypad, LEDs and joystick are
what `UsbComposite` abstracts to "something to report".

### `UddEndpoint`

An end-of-transfer callback touches only its own endpoint, so all of
`udd_ep_run`, `udd_ep_abort`, `udd_ep_free`, `udd_ep_set_halt`,
`udd_ep_clear_halt`, the transfer-complete interrupt and the class drivers' send
functions are functions from an endpoint's state to its next one. The record
has `enabled` (CTRL.TYPE), `stall` (CTRL.STALL), `nack` (BUSNACK0), `busy` (the
job), `owned` (the class driver waits: `trans_ongoing`, or not `in_free`) and
`pending` (`report_valid` of the keyboard). What distinguishes the four drivers
is their callback: the keyboard sends the waiting report, LED OUT listens again,
the IN drivers release their buffer; none looks at the transfer status before it
starts a transfer. Order matters and is kept: `busy` is cleared before the
callback, `STALL` is set before the abort of `udd_ep_set_halt`, and
`udd_ep_free` aborts before it clears CTRL.

### `UsbComposite`

| Action | Code |
|---|---|
| `SetConfiguration`, `RefuseConfiguration` | `udc_req_std_dev_set_configuration`, with `udc_reset`, `udc_iface_enable` and the `enable` functions of the drivers and of `main.c` |
| `SetInterface`, `RefuseInterface` | `udc_req_std_iface_set_setting` |
| `SetAddress` | `udc_valid_address` |
| `Halt`, `Unhalt` | SET/CLEAR_FEATURE(ENDPOINT_HALT) |
| `SetReport` | `udi_hid_led_setreport` and its callback |
| `TransferComplete` | `USB_TRNCOMPL_vect`, `udd_ep_trans_complet` |
| `BusReset` | the reset branch of `USB_BUSEVENT_vect` |
| `StartOfFrame` | the start-of-frame branch, `main_sof_action` and the send functions it reaches |

Requests are atomic here: the packets of endpoint 0 belong to
`ControlEndpoint`. The application is abstracted to "there is something to
report or not" for keyboard and joystick; the LED interface reports every
frame. A served keyboard stroke is a `down` and an `up` in one frame.
`wasHalted` is a history variable: the host halted the endpoint since it was
last configured. Endpoint 0 is never halted and requests for endpoints outside
the descriptors are not generated.

### `ControlEndpoint`

`dev` holds what the driver keeps (`udd_ep_control_state`, `udd_g_ctrlreq`, the
two counters) and what the USB module shows of endpoint 0: per direction the
inverse of BUSNACK0 (`ready`), the byte count, STALL and the underflow or
overflow flag (`nak`); the SETUP event, the transfer-complete events, and the
two error events, which all endpoints share. The host sends a SETUP, the packets
of the data stage and the one of the status stage, repeats what was NAKed and
gives up what was STALLed. An interrupt handler is entered in one step and does
its work in the next one, so tokens arrive between its entry and its end; of two
pending interrupts the bus event goes first, because both have one level and its
vector has the lower number. Of the bus events only the errors and the reset
matter to endpoint 0. `order` says whether the host kept to the stages, stopped a
data stage early or went on after its end; `owed`, `ran`, `unasked`, `twice` and
`failed` are history variables.

What the USB module does is assumed: a SETUP is always accepted, ends a STALL and
closes both directions; a packet that was moved closes its direction; a SETUP may
hide the event of the packet before it (the driver's comment at
`usb_device.c:1022` says so). The order of the transfer-complete FIFO is left
open. A host gives a request up, and a reset comes, only when no interrupt is
pending (`Quiet`): time-outs are milliseconds. A host that goes on without one
does so for the SETUP after a status stage, which may be as early as it likes.

A request is what `udc_process_setup` makes of it: direction, `wLength`, whether
it is known, the size of the payload and the callback. `over_under_run` is never
registered in this firmware and is left out. `ReportIsWhole` is about
`udd_ctrl_buffer`, which SETUP packets and OUT data share.

### `PadQueue` and `JoystickScan`

`jstk_scan` keeps the pads that are held in a linked list in static arrays
(`head`, `tail`, `next`, `inlist`). `Scan` samples the port, `Insert` is one
iteration of the first loop, `BeginRemove` the two assignments between the
loops, `Unlink` and `StepOver` the two branches of the second loop, `Return` the
return. `older` is a history variable: who was linked before whom. It is what
the links are compared with, and what `PadQueue` speaks of: there a sample takes
effect at once, and the refinement mapping (`OlderAfterScan`) reads from the
unfinished list what the order will be. The comment above the first loop says
"back of queue (LIFO)"; the code, and the model, are first in, first out. One
axis is modelled; the other one has arrays of its own. A scan is taken to run
undisturbed, which is so in the start-of-frame interrupt; for the loop of `main`
see section 6.

### `HidReports`

| Action | Code |
|---|---|
| `Down`, `Up`, `ModifierDown`, `ModifierUp` | `udi_hid_kbd_down`, `_up`, `_modifier_down`, `_modifier_up`, with `udi_hid_kbd_send_report` |
| `Move` | pads or LEDs change |
| `Frame` | `jstk_usbTask`, `gui_ui_process`, with the send functions |
| `TransferComplete` | `USB_TRNCOMPL_vect` and the callbacks |
| `Halt`, `Unhalt`, `Configure`, `Unconfigure`, `BusReset` | requests and the reset, as they reach one endpoint |

`report` is what the device has to say, `trans` the buffer of the transfer,
`sent` is `jstk_prevReport`, `host` what the host received since it last
configured the device. What UddEndpoint says of a driver's flags decides when
`trans` is copied: by a call if nothing is on going, by the keyboard's callback
if a report waits. `lost` is a history variable: a report was dropped and no
step the device takes by itself will repeat it. That is what halts, resets and
reconfigurations do to keyboard and joystick; the LED driver sends every frame.
`waited` says that a report waited when the endpoint was freed.

`UsbComposite` has all endpoints with little of each; here is one endpoint with
all of it. That is no loss, because no driver touches another one's endpoint.

### `UdcRequests`

`udc_process_setup(r, ok)` is the function of that name, with `udc_reqstd`,
`udi_hid_setup` and the setreport functions below it: its value is whether the
request is known, its payload and the effect of its callback. The actions are
the requests that leave something behind; `Other` are all the rest. Descriptors
are given by their lengths (`DescLen`, `HidLen`, `ReportDescLen`); the reports
SET_REPORT knows (`Reports`) by type and length: LEDs have an output report, the
joystick a feature report, the keyboard none. The code does not look at the
direction of a report request, so GET_REPORT is answered like SET_REPORT. `ok`
says that the interfaces can be enabled, which is for `UsbComposite` to decide,
and here a choice.

### `Keypad`

`KpdFrame` is `kbd_ui_process` in the start-of-frame interrupt, undisturbed:
`Poll`, and `keypad_report` as `Sampled`, `Branch`, `Acted` with `Seen`, and
`Reported`. The same code in the loop of `main` is `KpdLoopStarts`, `PollStarts`,
`ColumnSelect` and `ColumnRead` per column, `ScanEnds`, and a report in four
steps: the switch and the keypad are sampled (`ReportStarts`), the conditions are
evaluated (`ReportBranches`), their branch is taken (`ReportActs`), and the state
is remembered (`ReportEnds`). A frame may come between any two of them, and
changes the column that is selected and all statics; `kpdPc` in `Branches` is a
branch `main` has chosen and not taken. Within a step `main` is not cut: the
assignments after the loop over the columns are one step, and so are the
conditions of a report; a frame computes all they assign itself. `keyMap`
is the set of keys `gui_ui_process` sends the host right after the frame's poll.
The user presses and releases buttons and turns the test switch at any moment.
`first` and `crowd` are history variables that record the press as the samples
saw it, and `raced` that `main` took part in it in normal mode; `noted` that a
report has seen the press in either mode. `blurred` says that `main` is in a turn
of its loop that a frame has cut in two or in which a button moved, or that the
last such turn found no key although some are down and no LED was toggled since.

Three things the model makes explicit and no comment says. Two keys that are down
in the first sample of a press do not block its stroke. A press that is turned
into test mode sends its stroke when normal mode is back, even if the keys were
released long before; `first` keeps them. "Newest" (`keypad.c:176`) is decided
by the rows of the column before, not of the scan before: `prevRowMask` is saved
for each column. With a key of the first column down and another of that column
pressed, both rows count as new and the lower one gives the code, old or new.

### `LedPanel`

A call of `led.c` is a sequence of writes to the port and to `ledMap`. `main`
makes them one per step (`MainWrite`), a frame or a command all of them at once.
`pc` is where `main` is: the start-up sequence, the loop, or one of the three
functions the loop calls in test mode; `todo` are the writes it has yet to make.
`keypad_report` samples the switch once, at its start (`KeypadStarts`, `kpdTest`),
writes the LED of a key (`KeypadReport`), and looks at the sample again when it
puts the LEDs out after test mode (`KeypadEnds`, `LeaveTest`).
A read-modify-write of `ledMap` in `main` is one write here, and so are the
assignments of one loop over LEDs. `Frame` is the rest of `main_sof_action`:
keys and pads as they touch LEDs, the status LED and the animation, whose timers
are choices (`blink`, `tick`). `torn` and `steady` are history variables.

### `UsbPower`

`sleepmgr_init`, `udc_start`, `Loop`, `EnterSleep`, `ChooseMode` and
`sleepmgr_sleep` are what `main` does, in steps between which an interrupt may
come while `irq` holds. `StartOfFrame`, `Reset`, `Suspend`, `Resume` and `Setup`
are interrupts: each serves one raised flag, the bus event interrupt in the order
of its branches (`Urgent`). `Traffic`, `SuspendBus` and `ResumeBus` are the host.
Of the hardware three things are assumed: the instruction after `sei` runs before
any interrupt, so `sleep` follows it at once; a raised interrupt ends the sleep
and `main` goes on when it was served; in power-down the clocks are off and only
a resume of the bus is noticed. `hasty` is a history variable: the host suspended
the bus again before the interrupt served the resume before.

## 3. Runs

| Run | Configuration | Question |
|---|---|---|
| `usb_core` | `UsbComposite.cfg` | does any order of requests, resets, transfers and frames break the protocol between jobs, drivers, controller and application? |
| `usb_reset_jobs` | `UsbCompositeReset.cfg` (violated) | does a bus reset stop every job, as the comment of the handler says? |
| `ctrl_orderly` | `ControlOrderly.cfg` | does every request of a host that keeps to the stages end, complete, and with an effect only if the host saw the end? |
| `ctrl_unruly` | `ControlUnruly.cfg` | which of it is left when the host stops early, asks for more or gives up, and other endpoints NAK? |
| `ctrl_address` | `ControlAddress.cfg` (violated) | does SET_ADDRESS take effect only after its handshake? |
| `ctrl_polled` | `ControlPolled.cfg` (violated) | is the status stage stalled only when the host wants extra data? |
| `joystick_scan` | `JoystickScan.cfg` | do the two loops keep the list whole, end, and implement the queue, for any sequence of pad patterns? |
| `hid_reports` | `HidReports.cfg` | does the host end up with the report of the device, and what makes it miss one? |
| `udc_requests` | `UdcRequests.cfg` | does every answer fit, and is everything answered that an enumerating host needs? |
| `keypad` | `Keypad.cfg` | which strokes and toggles does a press cause, and which keys is the host told, with scans and reports of `main` interrupted by frames? |
| `led_panel` | `LedPanel.cfg` | does the map tell which LEDs are lit, and does what the host has lit stay? |
| `usb_power` | `UsbPower.cfg` | does the sleep mode fit the bus, whenever suspends and resumes come? |

`usb_core` has no bound: the state of the device is finite. Configuration values
0..2, alternate settings 0..1 and interface numbers 0..3 contain, for each check
in the code, a value that passes and one that does not; addresses are 0 or not 0.

| Property | Says |
|---|---|
| `NoJobWhileHalted` | no job survives on a halted endpoint |
| `OwnerIsLive` | a driver waiting on an enabled endpoint waits for a transfer the host can complete |
| `PendingHasCarrier` | a waiting keyboard report has a transfer on going |
| `NoneEnabledUnconfigured` | nothing of a configuration that was left stays allocated |
| `ServedIsConfigured` | `main_sof_action` serves only interfaces of the configuration in force |
| `OutArmedUnlessHalted` | LED OUT listens unless the host halted it |
| `AckedIsServed` | an acknowledged SET_CONFIGURATION(1) is complete |
| `SecondResetIsClean` | a reset of an unconfigured device ends every job |
| `DeafUntilRearmed` | only a configuration, an alternate setting or SET_REPORT arms a deaf OUT endpoint |
| `PendingPickedUp`, `InReportsDrain` | waiting reports are picked up and IN buffers are released, eventually |

The `ctrl_*` runs have packets of two bytes and eleven requests: IN with a
payload that ends with a short packet, with a full one (and the host asked for
more), and of exactly one packet; OUT without data, with one and with two
packets, and with data nobody takes; both directions unknown. The state is
finite; any number of requests follow each other.

| Property | Says |
|---|---|
| `AckedTakesEffect` | the end of a request the host saw is not lost, not even if the next SETUP hides it |
| `EffectsAreAcked` | no callback runs for a request whose end the host did not see (host that keeps to the stages) |
| `CallbackAtMostOnce` | no callback runs twice for one request |
| `DataComplete` | an IN data stage ends with the whole payload |
| `ReportIsWhole` | the bytes handed to the LED driver came with its own request |
| `KnownNeverFails` | no request the device knows is stalled half way, but one with several packets nobody takes |
| `RequestEnds` | every request ends |

`TypeOK` contains that the position in a payload never passes its end.

`joystick_scan` has four pads instead of twelve: enough for a head, a tail and
two pads between them, so that each of head, tail, a middle pad, two neighbours
and the only pad is unlinked, alone and together, while others are linked. The
state is finite, so the sequence of scans has no bound.

| Property | Says |
|---|---|
| `ListIsQueue` | the links lead from the oldest linked pad to the newest, through all of them, between any two iterations |
| `HeadIsOldest` | the scan returns the pad that is pressed for longest, and none only if none is pressed |
| `ImplementsQueue` | the list implements `PadQueue` |
| `FirstPadWins` | the position only changes when the pad it is at was released |
| `ScanReturns` | every scan returns |

`hid_reports` has three keys for two slots, so that the array is full with a key
to spare and is shifted at both of its ends; one modifier; and three contents, so
that a report that is sent, the one after it and a third one differ. The state is
finite.

| Property | Says |
|---|---|
| `SlotsPacked` | no report the host can receive has a hole before a key, or a key twice |
| `HostWillKnow` | what the driver takes for told is known, on its way, or waits for the end of what is |
| `MuteAfterReconfigure` | a driver that cannot send on a working endpoint is one that had a report waiting when the host reconfigured it without a bus reset |
| `BufferStable` | the buffer of a transfer only changes when the host has read it |
| `HostConverges` | left alone, the host ends up with the report of the device, but for a report that was dropped |

`MuteAfterReconfigure` and the `lost` of `HostConverges` are limits of the code,
stated where they end: the keyboard stays mute until the next halt, reset or
configuration, and a dropped keyboard or joystick report is only made up for by
the next change.

`udc_requests` has two interfaces, an output report on one of them, and
descriptors and requests of 0 to 3 bytes: for every comparison with `wLength`
a value below, at and above. Any request follows any other one.

| Property | Says |
|---|---|
| `AnswerFits` | a payload never exceeds `wLength` and is never empty in an IN request; a refused request leaves none; a callback belongs to a request whose data are taken whole, and a report has some |
| `EnumerationServed` | descriptors, status, address and, once configured, HID descriptors and SET_IDLE are never refused |

`keypad` has two columns with a button each: `main` reads them at different
times, so that it may see one, the other, both or none of what is down, and either
can join or outlast the other. How many columns and rows
there are does not matter to the properties of `keypad`, which are proved for any
number.

| Property | Says |
|---|---|
| `StrokeIsEarned` | in normal mode the release of the last key sends one stroke, of a key of the first sample, unless two were seen later; no other frame sends one, but for a press `main` took part in |
| `OneTogglePerPress` | from the moment keys go down until all are up, frames and `main` together toggle one LED at most, of a key that is down; but for toggles in a disturbed turn of `main` and the first one after it if it took the keys for released |
| `KeysTold` | after a frame the map of the keys is that of the buttons that are down |

Both exceptions are needed. A press `main` took a part in may send the stroke of a
key that was never pressed, because the scan is torn. And TLC finds two ways in
which a press toggles an LED twice, against the comment at `keypad.c:231` ("on
press edge, toggle corresponding LED"); in both the device is configured while
`main` is in its loop of test mode. `keypad_report` compares with `kpd_prevState`
at line 232 and sets it at line 286; a frame that comes between the two toggles
for the press `main` has just acted on, or `main` for the one the frame acted on.
And a scan of `main` that a frame cuts in two may find no key, and its report
clears `kpd_prevState`, so that the next frame takes the same press for a new
one. What the property says is that this is all: such a turn that took the keys
for released costs one toggle after it and not more, and without a disturbed turn
there is none, for any number of turns and frames, in whichever mode the keys went
down, also when the device is configured between two turns.

`led_panel` has two LEDs and the status LED: one LED that keys and pads light, one
that the host lights, and each may be lit by the animation.

| Property | Says |
|---|---|
| `MapTellsPort` | the map tells which LEDs are lit, but for those `main` is about to write, and after an interrupt at such a moment until the host sets all of them again |
| `HostLedsStay` | what the host has lit stays, once the animation is over and test mode has been cleaned up |

The comment at `ui.c:125` promises manual control without these conditions; the
first activity after a command that arrives during the animation puts out what the
command has lit.

`usb_power` has the product's constants and no bounds.

| Property | Says |
|---|---|
| `NeverHangs` | no lock or unlock ends in its endless loop |
| `DeepSleepHasWayOut` | the CPU is in power-down only if the bus is suspended or a resume is waiting |
| `PowerFollowsBus` | a configured device that is suspended for good ends up in power-down and stays there |

`PowerFollowsBus` excepts a suspend that comes before the resume before it was
served. The interrupt then serves the suspend first, the resume after it locks
IDLE again, and the device stays in IDLE, drawing current, for the whole suspend.

**Fairness.** The two liveness properties assume that the host polls the
interrupt endpoints it has configured (weak fairness of `TransferComplete` for
each endpoint). That is what a USB host does with an interrupt endpoint in use;
nothing in the firmware is assumed to happen. `ScanReturns` assumes that a loop
that has started goes on (weak fairness of `Step`), which holds in an interrupt
handler; when the pads are sampled is left open. `RequestEnds` assumes that
pending interrupts are served, that the host sends the next token or repeats the
last one, and that refused tokens do not keep the bus event interrupt busy for
ever: its handler is shorter than a token on the bus, so the transfer-complete
interrupt gets its turn (`[]<>~BusPending` and strong fairness of
`EnterTransferComplete`). Without it a storm of NAKs starves the other handler,
because the bus event has the higher priority. `HostConverges` assumes that the
host polls and that frames go on (weak fairness of `TransferComplete` and
`Frame`); that the host leaves the endpoint alone is a premise of the property,
not of the specification. `PowerFollowsBus` assumes that `main` goes on and that
each interrupt that is raised again and again while interrupts are enabled is
served (weak fairness of `Main`, strong fairness of each interrupt): interrupts
are disabled only for the few instructions of `sleepmgr_enter_sleep`, the AVR runs
one instruction of `main` between two interrupts, and the handlers are shorter
than the milliseconds between bus events.

**Findings.** `usb_reset_jobs`: the abort of LED OUT calls
`udi_hid_led_report_out_received`, which starts the transfer again because the
endpoint is still enabled, in the reset handler and once more in `udd_ep_free`.
The job stays busy on a disabled endpoint. Then `udi_hid_led_enable` fails in the
next SET_CONFIGURATION, which is refused with the keyboard and the joystick
already served; a second reset, which hosts usually send, repairs it
(`SecondResetIsClean`).

`ctrl_address`: a SETUP that finds the driver waiting for the status stage runs
the callback of the request before, because the event of the handshake may have
been hidden; if the host gave that request up, the address changes all the same
and the device no longer answers at address 0 until the next bus reset.

`ctrl_polled`: `udd_ctrl_interrupt_error` acknowledges the event but not the flag
of endpoint 0. A NAK in the data stage of an IN request, which is normal while
the interrupt prepares a packet, leaves the flag set; if another endpoint NAKs
between the last data packet and the status stage, the driver believes the host
wants extra data and stalls the status stage of a request that went well. An OUT
request has the same flaw for OUT endpoints that NAK.

## 4. Proofs

### `UsbCompositeProofs`

The module proves every safety property of `usb_core` for any number
of interfaces, any endpoints and any driver behind each of them. The only
assumption is `DescriptorAssumption`: interface, position and driver of each
endpoint have their types, positions are distinct and an interface has at most
one LED OUT endpoint.

The argument: `GoodEp(d, s)` says what is true of one endpoint between two
handlers. It strengthens the properties in two ways they need: a halted
endpoint also NAKs (else clearing the halt could arm it), and only drivers that
have the flag can be waiting. One lemma per driver call shows that the call keeps
it; the callbacks make that non-trivial, because they run when the endpoint is
between two good states (`CallbackGood`, `AbortGood`). `IInv` lifts it to the
table and adds the relations between table, configuration and interface flags;
one lemma per action shows that the action keeps `IInv`, and the theorems follow.
The two liveness properties are checked by TLC only: `ENABLED` and fairness are
out of the prover's reach.

### `JoystickScanProofs`

The module proves `ListIsQueue`, `HeadIsOldest`, `FirstPadWins`, `ScanIsShort`
and `ImplementsQueue` for a slider of any length (`SliderAssumption`: at least one
pad). `IsList(S, R, h, t, n)` says on plain values that `n` links the pads of
`S` from `h` to `t` in the total order `R`; two lemmas say that appending a pad
(`ListAppend`) and unlinking one (`ListUnlink`) keep it. The invariant adds what
the loops have done so far (`Progress`): the first has linked the pressed pads
below `i`, the second has found every pad up to `prev` pressed. `IndexKept` is
what `FirstPadWins` needs: the pad returned last is the head or was released.
For the refinement, `ScanRefines` shows that the sample is `Queue!Sample`,
`InsertRefines` and `UnlinkRefines` that an iteration leaves the order of the
pressed pads as it was settled by the sample, and `ReturnRefines` that the
result is `Queue!Report`.

`ScanEndsSoon` bounds the scan (`ScanIsShort`: every iteration leaves fewer steps
to make, of at most `2 * SliderCount + 2`). The second loop has no counter: the
pads it has yet to look at (`Ahead`, those from `curr` on) are finitely many, an
iteration goes on with the pad that follows `curr` in the order, and so leaves
`curr` behind (`NextIsAhead`, `AheadShrinks`). `ScanIsShort` is proved only; the
run checks what it is for, `ScanReturns`: a fair scan does return.

### `ControlEndpointProofs`

The module proves `TypeOK`, `AckedTakesEffect` and `CallbackAtMostOnce` for
every packet size, every set of requests, and a host that keeps the order of the
stages or does not (`Unruly`, `OthersPolled`). The assumption is
`ControlAssumption`: a packet has room for a byte, and `udc_process_setup` gives
a request no more data than it asked for, an IN request it knows at least some;
and a request with data to take and a callback has all its data taken, a report
at least a byte (`CanBeCarriedOut`). It is proved of the answers of `UdcRequests`
(`AnswersFit`).

None of the three is inductive: whether a callback may run again, or a payload
end early, depends on what the host has seen. `IInv` ties the host to the device:

* `GoodDev`: each stage has a direction, the buffers that are closed in it and
  the transfer-complete events that may be pending in it; a stalled endpoint has
  none.
* `GoodCallback`: a callback that is registered has not run, and one that is
  owed is registered in a stage that waits.
* `GoodSetup`, `SameRequest`: before the interrupt of a SETUP nothing is
  accepted; after it, the device is in the request of the host.
* `GoodNaks`: the flag of the direction a data stage does not use is only set
  once the host left that stage. This is what makes an underflow or an overflow
  in a data stage the end of that stage.
* `GoodLeft`: a buffer left open from the data stage is not used any more, which
  an event in a status stage would otherwise take for the handshake.
* `GoodOut`, `GoodIn`: the bytes counted by the host are those counted by the
  device, but for the packet that is under way.

One lemma per helper says what it leaves in the record (`...Fields`), one per
handler that it restores `Good` (`...Good`), and one per action that it keeps
`IInv` (`...Inv`). The liveness of a request is checked by TLC only.

The second part of the module proves the other four invariants of endpoint 0 on
top of `IInv`.

`DataComplete` holds for every host (`DataStageComplete`): `IInv` says that the
host and the device count the same bytes, and `Own` adds that in a data stage they
are counted against the payload of this request.

`EffectsAreAcked`, `ReportIsWhole` and `KnownNeverFails` are proved for an
`Orderly` host: one that keeps to the stages (`~Unruly`) and polls no other
endpoint meanwhile (`~OthersPolled`). They are not proved without it. A host that
gives a request up may see its callback run (`ctrl_address`), and the NAK of
another endpoint may bring an old NAK flag to life (`ctrl_polled`). The
invariant `OInv` says how such a host and the handlers keep in step:

* `OwnCallback`: the callback that is registered is that of the request, and it is
  owed once the host has seen the end of it. `OwnReport`: in a data stage the
  buffer holds the bytes of a packet, and a report was copied from them.
* `OnTime`: a NAK flag may be left from a token that came early, but not together
  with the event that would make a handler look at it. This is why neither
  `udd_ctrl_underflow` nor `udd_ctrl_overflow` ends a status stage.
* `Underway`: a packet that is done while the host is still in the data stage is full
  and not the last one.
* `InTurn`, `Entered`: the transfer-complete handler is entered with no error
  pending, so what is pending inside it came from the status stage of the host.
* `Stalled`: the endpoint stalls an unknown request, or one with several packets that
  are not all taken (`Spilt`).

As before there is one lemma per helper, per handler and per action.

### `HidReportsProofs`

The module proves the four safety properties of `hid_reports` for any number of
slots, keys and modifiers and any contents (`ReportAssumption`: at least one
slot, an empty slot is no key, the joystick's centre is a content). The argument
has two halves. `KeyDownPacked` and `KeyUpPacked` show that adding to and removing
from a packed array leaves it packed; every other step copies arrays that are.
The flags are those of `UddEndpoint`, whose `GoodEp` and lemmas
(`UddEndpointProofs`) are used here again; `GoodFlags` adds that the host can only
fetch what the driver waits for, and that any other job stems from a report that
waited when the endpoint was freed. `Knows` is `HostWillKnow` made inductive: it
says which of its alternatives holds, by whether the driver waits. One lemma per
action shows that all of it is kept. `HostConverges` is checked by TLC only.

### `UdcRequestsProofs`

The module proves both properties of `udc_requests` for any number of interfaces
and any descriptors, reports and requests (`RequestAssumption`: interfaces and
lengths are not zero, there is a device descriptor). `Fits` is shown function by
function along the calls (`StandardFits`, `HidFits`, `SetupFits`); the invariant
adds that the callback of SET_ADDRESS never belongs to an IN request
(`AddressIsSet`), because the callback itself leaves an empty payload behind.
`AnswerFits` says of the record endpoint 0 finds (`Left`) what `ControlAssumption`
of `ControlEndpoint` says of its requests, in the same words
(`CanBeCarriedOut`), so the theorems about endpoint 0 do not rest on a guess
about the requests.
`DeviceAnswers` and `IfaceAnswers` show that the requests of an enumeration are
known, the latter although `udc_reqstd` refuses them.

### `UsbPowerProofs`

The module proves `TypeOK`, `NeverHangs` and `DeepSleepHasWayOut`. There are no
constants; the theorems rest on nothing but the definitions. The invariant has
three parts that the properties need. `LocksFollow`: after start-up the counter of
IDLE is one if the line is taken to be idle and zero if not, the one of PDOWN is
two, and the others are zero; this is why no unlock meets a zero. `Quiet`: the
bus is suspended or a resume is raised whenever a suspend is raised or the line is
taken to be quiet. And a mode is only chosen with interrupts disabled, so PDOWN
chosen still means a quiet line when the CPU falls asleep. `PowerFollowsBus`
is a property under fairness and is checked by TLC only.

### `FrontPanelProofs`

The module proves the five properties of `led_panel` and `keypad`, the two models
in which `main` and an interrupt share state without a lock. Nothing is assumed but
`PanelAssumption` (there is an LED, the masks, keys and pads name LEDs, the status
LED is another one) and `KeypadAssumption` (there is a column and a row, and the
buttons are places of the matrix).

What an interrupt does in one go is a recursive function in both: `ApplyAll` over
the writes of a call, `Poll` over the columns. Its values are needed for every
length, so the proofs need induction, and they get it without an operator as a
parameter: `LeastNumber` (a set of numbers that is not empty has a least one)
follows from the well-foundedness of `<` in the library, and `NatSetInduction`
says of a set that has 0, and with each number the next one, that it has all of
them. `TraceExists` and `ScansExist` show that the recursive functions are
functions, `ApplyFirst` and `ApplyConcat` how `ApplyAll` takes a sequence apart.

`LedPanel`: the invariant is about the end of the call that `main` is in, not
about the present. `WillBeAlike` says that once the writes in `todo` are made the
port and the map are the same, unless `torn`; each call of `led.c` leaves them
the same if it found them so (`Calls`), a write `main` makes moves from the
future to the past (`ApplyFirst`), and an interrupt between two calls starts from
a panel that is alike. `MapTellsPort` follows, because writes to come do not
touch the LEDs outside `Pending` (`PendingUntouched`). `CommandAlike` shows why
the host can repair a torn panel: `led_setState` writes every LED of the port and
of the map, whatever they were, and STATUS_ON and STATUS_OFF the status LED;
after STOP it stays torn. `Steady` is what `HostLedsStay` needs: when the host's
LEDs are there to stay, `main` is in its loop with nothing to write, the
animation is off and no flag of test mode is set, so that no call of a frame
writes an LED.

`Keypad`: `PollSees` says what an undisturbed scan finds, whatever the statics
were before: the number it counts is the number of buttons that are down, the
code it ends with is one of them, and the map has all of them. It is shown column
by column (`BelowGrows`, `ColumnScanned`); `KeysTold` follows. The invariant
`KpdInv` has, beside types, three parts. `Press`: the statics stand for the press as
the samples saw it (`Follows`), for presses `main` took no part in; a report by
`main` in normal mode is where such a press ends (`raced`). `StrokeIsEarned`
follows from it. `SeenByMain`: in a turn that nothing disturbs, what `main` has
found in the columns up to `scan.col`, or sampled, is what is down; the same lemma
`ColumnScanned` moves it on. `PressNoted`: a press that was seen has `prevState`
set, or `main` is about to set it, and a branch that toggles was chosen on an
edge. The last two hold while `~blurred`, and together they give
`OneTogglePerPress` for frames and for `main`. `SeenByMain` is needed because
`ReportEnds` sets `prevState` to what was sampled: only if that is what is down
does `noted` imply `prevState` again.

## 5. Plan

| Module | Models | Abstract specification | Theorems |
|---|---|---|---|
| `UddEndpoint`, `UsbComposite` | jobs, drivers, controller | none | all safety properties |
| `JoystickScan` | `jstk_scan` on the linked list | `PadQueue`, a FIFO of held pads | the list implements the queue |
| `ControlEndpoint` | SETUP/DATA/STATUS machine | none | all safety properties, three of them for an orderly host |
| `HidReports` | reports of all IN drivers up to the host | what the driver takes for told | all safety properties |
| `UdcRequests` | the decoding of requests | what `ControlEndpoint` assumes | both properties |
| `UsbPower` | suspend, resume, sleep | none | all safety properties |
| `Keypad` | scan and report, in two contexts | none | all three properties |
| `LedPanel` | all writers of the LEDs | none | both properties |

Every safety and action property of the passing runs is proved. The six liveness
properties (`PendingPickedUp`, `InReportsDrain`, `RequestEnds`, `ScanReturns`,
`HostConverges`, `PowerFollowsBus`) are not: they hold under fairness, and
fairness speaks of `ENABLED`, which the prover cannot handle. They stay with TLC.

Work that would add something: the judgement of a press in `Keypad` as a
refinement of a press seen as a whole; and the list of held pads with a scan of
`main` cut in two by a frame.

## 6. Not modelled

* **Clock, oscillator, PLL, NVM, CCP, ioport, board and compiler support.** Vendor
  code and headers, most of the lines of the repository: register access that runs
  once at start-up or is expanded into other functions, with no protocol that the
  firmware's behaviour depends on afterwards. The low share of mapped lines is
  theirs.
* **Descriptor bytes, strings, axis values, LED masks, HID codes.** Data; only
  their lengths and identities appear.
* **Functions nothing calls here:** `udc_stop`, `udd_disable`, `udd_detach`,
  `udd_send_remotewakeup`. The configuration advertises remote wakeup
  (`conf_usb.h:52`) and the feature can be set, but no code sends it.
* **A scan of the joystick in `main` that a frame cuts in two.** The loop scans only
  in test mode and without USB, so only a configuration in the middle of one turn
  makes it possible; the list it may leave behind has no invariant to state. The
  same holds for two senders of a joystick report.
* **Choice between the sliders.** `jstk_readMask` compares two distances; with only
  horizontal pad 5 held both are zero, the tie goes to the vertical slider that is
  not touched, and no LED lights. A comparison without state; `LedPanel` takes any
  result.
* **Arguments of the LED callback after SET_REPORT.** It is called through a pointer
  without arguments, so what it finds in the registers is open; both outcomes are
  in the models.
* **Single registers and bits.** The LEDs of the two ports are one set, a
  read-modify-write of a byte in `main` is one step, and the delays of start-up,
  blink and animation are choices.
* **Errors of endpoint 0** (underflow, overflow) are in `ControlEndpoint` only;
  everywhere else requests are atomic.
* **Python scripts** run on the host and appear as arbitrary requests.
