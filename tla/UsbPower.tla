------------------------------ MODULE UsbPower ------------------------------
(***************************************************************************)
(* Sleeping and waking: main puts the CPU to sleep once the device is      *)
(* configured (main.c), in the deepest mode the sleep manager's counters   *)
(* allow (sleepmgr.h); the USB driver moves its counter as the bus is      *)
(* suspended and resumed (usb_device.c).                                   *)
(*                                                                         *)
(* Interrupts come between any two steps of main while they are enabled,   *)
(* and each runs to its end.  In power-down the clocks are off: only the   *)
(* resume of the bus is noticed.                                           *)
(***************************************************************************)
EXTENDS Naturals

\* enum sleepmgr_mode, and three modes in between that nobody locks.
ACTIVE == 0
IDLE == 1
PDOWN == 5
Mode == ACTIVE .. PDOWN
Event == {"sof", "reset", "suspend", "resume", "setup"}

VARIABLES
    locks,      \* sleepmgr_locks
    idle,       \* udd_b_idle
    configured, \* udc_is_configured()
    hung,       \* the CPU is in the endless loop of a lock or unlock
    pc,         \* where main is
    mode,       \* the sleep mode main has chosen
    irq,        \* interrupts are enabled
    bus,        \* "detached", "active" or "suspended"
    flags,      \* the USB interrupt flags that are raised
    hasty       \* history: when the host last suspended the bus, the resume
                \* before had not been served

software == <<locks, idle, configured, hung, pc, mode, irq>>
vars == <<software, bus, flags, hasty>>

TypeOK ==
    /\ locks \in [Mode -> 0 .. 255]
    /\ idle \in BOOLEAN /\ configured \in BOOLEAN /\ hung \in BOOLEAN
    /\ pc \in {"boot", "start", "loop", "enter", "choose", "sei", "asleep"}
    /\ mode \in Mode
    /\ irq \in BOOLEAN
    /\ bus \in {"detached", "active", "suspended"}
    /\ flags \subseteq Event
    /\ hasty \in BOOLEAN

Init ==
    /\ locks = [m \in Mode |-> 0]
    /\ idle = FALSE /\ configured = FALSE /\ hung = FALSE
    /\ pc = "boot" /\ mode = ACTIVE /\ irq = TRUE
    /\ bus = "detached" /\ flags = {} /\ hasty = FALSE

-----------------------------------------------------------------------------
(***************************************************************************)
(* The sleep manager.  A counter is tested before the critical section; a  *)
(* count that cannot move ends in an endless loop.                         *)
(***************************************************************************)
CanLock(m, l) == l[m] < 255
CanUnlock(m, l) == l[m] > 0

sleepmgr_lock_mode(m, l) == IF CanLock(m, l) THEN [l EXCEPT ![m] = @ + 1] ELSE l
sleepmgr_unlock_mode(m, l) == IF CanUnlock(m, l) THEN [l EXCEPT ![m] = @ - 1] ELSE l

\* The first mode, from the shallowest, that somebody has locked.
sleepmgr_get_sleep_mode ==
    CHOOSE m \in Mode : locks[m] # 0 /\ \A n \in Mode : n < m => locks[n] = 0

\* Wrong variant: the counter moves whether or not the state changes.
udd_sleep_mode_Always(b) ==
    /\ idle' = b
    /\ locks' = IF b THEN sleepmgr_lock_mode(IDLE, locks)
                     ELSE sleepmgr_unlock_mode(IDLE, locks)
    /\ hung' = (IF b THEN ~CanLock(IDLE, locks) ELSE ~CanUnlock(IDLE, locks))

\* udd_sleep_mode: the lock on IDLE follows the state of the line.
udd_sleep_mode(b) ==
    /\ idle' = b
    /\ locks' = CASE b /\ ~idle -> sleepmgr_lock_mode(IDLE, locks)
                  [] ~b /\ idle -> sleepmgr_unlock_mode(IDLE, locks)
                  [] OTHER -> locks
    /\ hung' = \/ b /\ ~idle /\ ~CanLock(IDLE, locks)
               \/ ~b /\ idle /\ ~CanUnlock(IDLE, locks)

-----------------------------------------------------------------------------
(***************************************************************************)
(* main.                                                                   *)
(***************************************************************************)
Awake == ~hung /\ pc # "asleep"

sleepmgr_init ==
    /\ Awake /\ pc = "boot"
    /\ locks' = [m \in Mode |-> IF m = PDOWN THEN 1 ELSE 0]
    /\ pc' = "start"
    /\ UNCHANGED <<idle, configured, hung, mode, irq, bus, flags, hasty>>

\* udc_start: udd_enable and udd_attach, with interrupts disabled.  Nothing was
\* raised before, and the state of the bus is not known.
udc_start ==
    /\ Awake /\ pc = "start"
    /\ locks' = sleepmgr_lock_mode(IDLE, sleepmgr_lock_mode(PDOWN, locks))
    /\ hung' = (~CanLock(PDOWN, locks) \/ ~CanLock(IDLE, locks))
    /\ idle' = TRUE
    /\ bus' = "active"
    /\ flags' = flags \ {"suspend", "resume"}
    /\ pc' = "loop"
    /\ UNCHANGED <<configured, mode, irq, hasty>>

\* The loop of main tests udc_is_configured and, if so, calls
\* sleepmgr_enter_sleep.
Loop ==
    /\ Awake /\ pc = "loop" /\ configured
    /\ pc' = "enter"
    /\ UNCHANGED <<locks, idle, configured, hung, mode, irq, bus, flags, hasty>>

\* Wrong variant: interrupts stay enabled.
EnterSleep_Interruptible ==
    /\ Awake /\ pc = "enter"
    /\ pc' = "choose"
    /\ UNCHANGED <<locks, idle, configured, hung, mode, irq, bus, flags, hasty>>

\* sleepmgr_enter_sleep disables interrupts ...
EnterSleep ==
    /\ Awake /\ pc = "enter"
    /\ irq' = FALSE
    /\ pc' = "choose"
    /\ UNCHANGED <<locks, idle, configured, hung, mode, bus, flags, hasty>>

\* ... looks for the deepest mode that is allowed, and returns when it is ACTIVE ...
ChooseMode ==
    /\ Awake /\ pc = "choose"
    /\ mode' = sleepmgr_get_sleep_mode
    /\ irq' = (irq \/ mode' = ACTIVE)
    /\ pc' = (IF mode' = ACTIVE THEN "loop" ELSE "sei")
    /\ UNCHANGED <<locks, idle, configured, hung, bus, flags, hasty>>

\* ... and sleeps: the instruction after sei runs before any interrupt, so there
\* is none between cpu_irq_enable and sleep_enter.
sleepmgr_sleep ==
    /\ Awake /\ pc = "sei"
    /\ irq' = TRUE
    /\ pc' = "asleep"
    /\ UNCHANGED <<locks, idle, configured, hung, mode, bus, flags, hasty>>

-----------------------------------------------------------------------------
(***************************************************************************)
(* Interrupts.  One that is raised wakes the CPU; when it has been served, *)
(* main goes on behind sleep_enter.                                        *)
(***************************************************************************)
Interrupted ==
    /\ ~hung /\ irq
    /\ pc' = (IF pc = "asleep" THEN "loop" ELSE pc)
    /\ UNCHANGED <<mode, irq, bus, hasty>>

\* USB_BUSEVENT_vect serves one event per call, in this order; those it leaves
\* stay raised and call it again.
Urgent(e) ==
    CASE e = "sof"     -> {}
      [] e = "reset"   -> {"sof"}
      [] e = "suspend" -> {"sof", "reset"}
      [] e = "resume"  -> {"sof", "reset", "suspend"}

\* The event served now, which is acknowledged.
Serve(e) ==
    /\ e \in flags /\ flags \cap Urgent(e) = {}
    /\ flags' = flags \ {e}
    /\ Interrupted

\* What the frame's own work does is in the other modules.
StartOfFrame == Serve("sof") /\ UNCHANGED <<locks, idle, configured, hung>>

Reset ==
    /\ Serve("reset")
    /\ configured' = FALSE
    /\ UNCHANGED <<locks, idle, hung>>

\* Wrong variant: the suspend event is only acknowledged.
Suspend_AckOnly == Serve("suspend") /\ UNCHANGED <<locks, idle, configured, hung>>

Suspend == Serve("suspend") /\ udd_sleep_mode(FALSE) /\ UNCHANGED configured

Resume == Serve("resume") /\ udd_sleep_mode(TRUE) /\ UNCHANGED configured

\* USB_TRNCOMPL_vect: a control transfer may be SET_CONFIGURATION.
Setup ==
    /\ "setup" \in flags
    /\ flags' = flags \ {"setup"}
    /\ Interrupted
    /\ configured' \in BOOLEAN
    /\ UNCHANGED <<locks, idle, hung>>

Interrupt == StartOfFrame \/ Reset \/ Suspend \/ Resume \/ Setup

-----------------------------------------------------------------------------
(***************************************************************************)
(* The bus.                                                                *)
(***************************************************************************)
Clocked == ~(pc = "asleep" /\ mode = PDOWN)

\* A frame, a reset or a control transfer.
Traffic(e) ==
    /\ bus = "active" /\ Clocked
    /\ flags' = flags \cup {e}
    /\ UNCHANGED <<software, bus, hasty>>

\* The line has been quiet for 3 ms.
SuspendBus ==
    /\ bus = "active" /\ Clocked
    /\ bus' = "suspended"
    /\ hasty' = ("resume" \in flags)
    /\ flags' = flags \cup {"suspend"}
    /\ UNCHANGED software

\* The line is driven again: noticed in every sleep mode.
ResumeBus ==
    /\ bus = "suspended"
    /\ bus' = "active"
    /\ flags' = flags \cup {"resume"}
    /\ UNCHANGED <<software, hasty>>

Host == (\E e \in {"sof", "reset", "setup"} : Traffic(e)) \/ SuspendBus \/ ResumeBus

Main == sleepmgr_init \/ udc_start \/ Loop \/ EnterSleep \/ ChooseMode \/ sleepmgr_sleep

Next == Main \/ Interrupt \/ Host

\* main goes on, and an interrupt that is raised again and again while they are
\* enabled is served: between two that are served the CPU runs one instruction.
Fairness ==
    /\ WF_vars(Main)
    /\ SF_vars(StartOfFrame) /\ SF_vars(Reset) /\ SF_vars(Suspend)
    /\ SF_vars(Resume) /\ SF_vars(Setup)

Spec == Init /\ [][Next]_vars /\ Fairness

-----------------------------------------------------------------------------
\* No call of the sleep manager ends in its endless loop: from start-up on,
\* locks and unlocks of IDLE alternate whatever the order of suspends and resumes.
NeverHangs == ~hung

\* The CPU is never in power-down, where it notices nothing but a resume, while
\* the bus is in use and no resume is waiting: main tests the configuration and
\* chooses the mode, suspends and resumes come in between, and no choice is
\* outdated when the CPU falls asleep.
DeepSleepHasWayOut ==
    pc = "asleep" /\ mode = PDOWN => bus = "suspended" \/ "resume" \in flags

\* When the host suspends a configured device for good, it ends up in power-down
\* and stays there.  Not so if the resume before had not been served: the
\* interrupt serves the suspend first.
PowerFollowsBus ==
    <>[](bus = "suspended" /\ configured /\ ~hasty) => <>[](pc = "asleep" /\ mode = PDOWN)
=============================================================================
