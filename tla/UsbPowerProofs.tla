--------------------------- MODULE UsbPowerProofs ---------------------------
(***************************************************************************)
(* No lock or unlock of the sleep manager hangs, and the device never      *)
(* sleeps in power-down with the bus in use and no resume waiting.         *)
(***************************************************************************)
EXTENDS UsbPower, TLAPS

\* The bus is quiet, or will be found to be in use.
Quiet == bus = "suspended" \/ "resume" \in flags

Started == pc \notin {"boot", "start"}

\* The counters before udc_start ...
NoLocks == \A m \in Mode \ {PDOWN} : locks[m] = 0

\* ... and after it: IDLE is locked as long as the line is in use.
LocksFollow ==
    /\ locks[PDOWN] = 2
    /\ locks[IDLE] = (IF idle THEN 1 ELSE 0)
    /\ \A m \in Mode \ {IDLE, PDOWN} : locks[m] = 0

PowerInv ==
    /\ TypeOK
    /\ ~hung
    /\ ~Started => NoLocks /\ bus = "detached" /\ flags = {} /\ ~idle
    /\ pc = "start" => locks[PDOWN] = 1
    /\ Started => LocksFollow
    /\ "suspend" \in flags => Quiet
    /\ Started /\ ~idle => Quiet
    /\ pc \in {"choose", "sei"} => ~irq
    /\ pc \in {"sei", "asleep"} /\ mode = PDOWN => ~idle

\* With IDLE locked no deeper mode is chosen.
LEMMA ModeChosen ==
    ASSUME LocksFollow
    PROVE  /\ sleepmgr_get_sleep_mode \in Mode
           /\ idle => sleepmgr_get_sleep_mode = IDLE
<1>1. CASE idle
  <2>1. \A m \in Mode : (locks[m] # 0 /\ \A n \in Mode : n < m => locks[n] = 0) <=> m = IDLE
    BY <1>1 DEF LocksFollow, Mode, ACTIVE, IDLE, PDOWN
  <2>2. sleepmgr_get_sleep_mode = IDLE
    BY <2>1 DEF sleepmgr_get_sleep_mode, Mode, ACTIVE, IDLE, PDOWN
  <2>3. QED
    BY <2>2 DEF Mode, ACTIVE, IDLE, PDOWN
<1>2. CASE ~idle
  <2>1. locks[PDOWN] # 0 /\ \A n \in Mode : n < PDOWN => locks[n] = 0
    BY <1>2 DEF LocksFollow, Mode, ACTIVE, IDLE, PDOWN
  <2>2. PDOWN \in Mode
    BY DEF Mode, ACTIVE, PDOWN
  <2>3. QED
    BY <1>2, <2>1, <2>2 DEF sleepmgr_get_sleep_mode
<1>3. QED
  BY <1>1, <1>2

\* Suspend and resume keep the counters and the flag together.
LEMMA LineChanges ==
    ASSUME TypeOK, LocksFollow, NEW b \in BOOLEAN, udd_sleep_mode(b)
    PROVE  /\ idle' = b
           /\ locks' \in [Mode -> 0 .. 255]
           /\ LocksFollow'
           /\ hung' = FALSE
<1> USE DEF Mode, ACTIVE, IDLE, PDOWN, TypeOK, LocksFollow, udd_sleep_mode,
            sleepmgr_lock_mode, sleepmgr_unlock_mode, CanLock, CanUnlock
<1>1. CASE b /\ ~idle
  <2>1. locks' = [locks EXCEPT ![IDLE] = @ + 1]
    BY <1>1
  <2>2. QED
    BY <1>1, <2>1
<1>2. CASE ~b /\ idle
  <2>1. locks' = [locks EXCEPT ![IDLE] = @ - 1]
    BY <1>2
  <2>2. QED
    BY <1>2, <2>1
<1>3. CASE b = idle
  <2>1. locks' = locks /\ idle' = idle
    BY <1>3
  <2>2. QED
    BY <1>3, <2>1
<1>4. QED
  BY <1>1, <1>2, <1>3

LEMMA InitInv == Init => PowerInv
<1> SUFFICES ASSUME Init PROVE PowerInv
  OBVIOUS
<1>1. TypeOK
  <2>1. locks \in [Mode -> 0 .. 255]
    BY DEF Init
  <2>2. mode \in Mode
    BY DEF Init, Mode, ACTIVE, PDOWN
  <2>3. flags \subseteq Event
    BY DEF Init
  <2>4. QED
    BY <2>1, <2>2, <2>3 DEF Init, TypeOK
<1>2. NoLocks
  BY DEF Init, NoLocks
<1>3. QED
  BY <1>1, <1>2 DEF Init, PowerInv, Started

\* main's own steps.
LEMMA MainInv == PowerInv /\ Main => PowerInv'
<1> SUFFICES ASSUME PowerInv, Main PROVE PowerInv'
  OBVIOUS
<1> USE DEF PowerInv, Started, Quiet, Awake
<1>1. CASE sleepmgr_init
  <2>1. locks' \in [Mode -> 0 .. 255] /\ NoLocks' /\ locks'[PDOWN] = 1
    BY <1>1 DEF sleepmgr_init, NoLocks, Mode, ACTIVE, PDOWN
  <2>2. TypeOK'
    BY <1>1, <2>1 DEF sleepmgr_init, TypeOK
  <2>3. QED
    BY <1>1, <2>1, <2>2 DEF sleepmgr_init
<1>2. CASE udc_start
  <2>1. pc = "start" /\ NoLocks /\ locks[PDOWN] = 1 /\ locks \in [Mode -> 0 .. 255]
    BY <1>2 DEF udc_start, TypeOK
  <2>2. locks' = [[locks EXCEPT ![PDOWN] = @ + 1] EXCEPT ![IDLE] = @ + 1] /\ ~hung'
    <3> DEFINE one == [locks EXCEPT ![PDOWN] = @ + 1]
    <3>1. PDOWN \in Mode /\ IDLE \in Mode \ {PDOWN}
      BY DEF Mode, ACTIVE, IDLE, PDOWN
    <3>2. locks[PDOWN] = 1 /\ locks[IDLE] = 0 /\ one[IDLE] = 0
      BY <2>1, <3>1 DEF NoLocks
    <3>3. CanLock(PDOWN, locks) /\ CanLock(IDLE, locks) /\ CanLock(IDLE, one)
      BY <3>2 DEF CanLock
    <3>4. sleepmgr_lock_mode(PDOWN, locks) = one
      BY <3>3 DEF sleepmgr_lock_mode
    <3>5. locks' = [one EXCEPT ![IDLE] = @ + 1]
      BY <1>2, <3>3, <3>4 DEF udc_start, sleepmgr_lock_mode
    <3>6. ~hung'
      BY <1>2, <3>3, Zenon DEF udc_start
    <3>7. QED
      BY <3>5, <3>6
  <2>3. LocksFollow' /\ locks' \in [Mode -> 0 .. 255]
    BY <1>2, <2>1, <2>2 DEF udc_start, LocksFollow, NoLocks, Mode, ACTIVE, IDLE, PDOWN
  <2>4. QED
    BY <1>2, <2>2, <2>3 DEF udc_start, TypeOK
<1>3. CASE Loop
  BY <1>3 DEF Loop, TypeOK, LocksFollow, NoLocks
<1>4. CASE EnterSleep
  BY <1>4 DEF EnterSleep, TypeOK, LocksFollow, NoLocks
<1>5. CASE ChooseMode
  <2>1. mode' \in Mode /\ (idle => mode' = IDLE)
    BY <1>5, ModeChosen DEF ChooseMode
  <2>2. irq' \in BOOLEAN
    BY <1>5 DEF ChooseMode
  <2>3. pc' = "sei" => ~irq'
    BY <1>5 DEF ChooseMode
  <2>4. pc' \in {"loop", "sei"}
    BY <1>5 DEF ChooseMode
  <2>5. QED
    BY <1>5, <2>1, <2>2, <2>3, <2>4
       DEF ChooseMode, TypeOK, LocksFollow, NoLocks, IDLE, PDOWN
<1>6. CASE sleepmgr_sleep
  BY <1>6 DEF sleepmgr_sleep, TypeOK, LocksFollow, NoLocks
<1>7. QED
  BY <1>1, <1>2, <1>3, <1>4, <1>5, <1>6 DEF Main

\* An event that is served: the driver has started, and main is not between
\* choosing a mode and sleeping.
LEMMA ServeKeeps ==
    ASSUME PowerInv, NEW e \in Event, e \in flags, Interrupted
    PROVE  /\ Started /\ LocksFollow /\ irq
           /\ pc' \in {"loop", "enter"} /\ Started'
           /\ UNCHANGED <<mode, irq, bus, hasty>>
BY DEF PowerInv, TypeOK, Started, Interrupted

LEMMA InterruptInv == PowerInv /\ Interrupt => PowerInv'
<1> SUFFICES ASSUME PowerInv, Interrupt PROVE PowerInv'
  OBVIOUS
<1>1. CASE StartOfFrame
  BY <1>1, ServeKeeps DEF StartOfFrame, Serve, PowerInv, TypeOK, LocksFollow, NoLocks, Quiet, Started, Event
<1>2. CASE Reset
  BY <1>2, ServeKeeps DEF Reset, Serve, PowerInv, TypeOK, LocksFollow, NoLocks, Quiet, Started, Event
<1>3. CASE Setup
  BY <1>3, ServeKeeps DEF Setup, PowerInv, TypeOK, LocksFollow, NoLocks, Quiet, Started, Event
<1>4. CASE Suspend
  <2>1. idle' = FALSE /\ locks' \in [Mode -> 0 .. 255] /\ LocksFollow' /\ hung' = FALSE
    BY <1>4, ServeKeeps, LineChanges DEF Suspend, Serve, Event, PowerInv
  <2>2. Quiet'
    BY <1>4, ServeKeeps DEF Suspend, Serve, Event, PowerInv, Quiet
  <2>3. QED
    BY <1>4, <2>1, <2>2, ServeKeeps DEF Suspend, Serve, PowerInv, TypeOK, Started, Event
<1>5. CASE Resume
  <2>1. idle' = TRUE /\ locks' \in [Mode -> 0 .. 255] /\ LocksFollow' /\ hung' = FALSE
    BY <1>5, ServeKeeps, LineChanges DEF Resume, Serve, Event, PowerInv
  <2>2. "suspend" \notin flags'
    BY <1>5 DEF Resume, Serve, Urgent
  <2>3. QED
    BY <1>5, <2>1, <2>2, ServeKeeps DEF Resume, Serve, PowerInv, TypeOK, Started, Event
<1>6. QED
  BY <1>1, <1>2, <1>3, <1>4, <1>5 DEF Interrupt

LEMMA HostInv == PowerInv /\ Host => PowerInv'
<1> SUFFICES ASSUME PowerInv, Host PROVE PowerInv'
  OBVIOUS
<1>1. UNCHANGED software /\ bus # "detached"
  BY DEF Host, Traffic, SuspendBus, ResumeBus
<1>2. bus' \in {"active", "suspended"} /\ hasty' \in BOOLEAN
  <2>1. ASSUME NEW e \in Event, Traffic(e)
        PROVE  bus' \in {"active", "suspended"} /\ hasty' \in BOOLEAN
    BY <2>1 DEF Traffic, PowerInv, TypeOK
  <2>2. CASE SuspendBus
    <3>1. hasty' \in BOOLEAN
      <4>1. hasty' = ("resume" \in flags)
        BY <2>2, Zenon DEF SuspendBus
      <4>2. CASE "resume" \in flags
        BY <4>1, <4>2
      <4>3. CASE "resume" \notin flags
        BY <4>1, <4>3
      <4>4. QED
        BY <4>2, <4>3
    <3>2. bus' = "suspended"
      BY <2>2, Zenon DEF SuspendBus
    <3>3. QED
      BY <3>1, <3>2
  <2>3. CASE ResumeBus
    BY <2>3 DEF ResumeBus, PowerInv, TypeOK
  <2>4. QED
    BY <2>1, <2>2, <2>3 DEF Host, Event
<1>3. flags' \subseteq Event
  BY DEF Host, Traffic, SuspendBus, ResumeBus, PowerInv, TypeOK, Event
<1>4. Quiet => Quiet'
  BY DEF Host, Traffic, SuspendBus, ResumeBus, Quiet
<1>5. "suspend" \in flags' => "suspend" \in flags \/ Quiet'
  BY DEF Host, Traffic, SuspendBus, ResumeBus, Quiet
<1>6. Started /\ Started'
  BY <1>1 DEF PowerInv, Started, software
<1>7. TypeOK'
  BY <1>1, <1>2, <1>3 DEF PowerInv, TypeOK, software
<1>8. LocksFollow'
  BY <1>1, <1>6 DEF PowerInv, LocksFollow, software
<1>9. QED
  BY <1>1, <1>4, <1>5, <1>6, <1>7, <1>8 DEF PowerInv, software, Started

THEOREM Invariance == Spec => []PowerInv
<1>1. PowerInv /\ UNCHANGED vars => PowerInv'
  BY DEF PowerInv, TypeOK, LocksFollow, NoLocks, Quiet, Started, vars, software
<1>2. PowerInv /\ [Next]_vars => PowerInv'
  BY <1>1, MainInv, InterruptInv, HostInv DEF Next
<1>3. QED
  BY InitInv, <1>2, PTL DEF Spec

\* Type correctness.
THEOREM TypeCorrect == Spec => []TypeOK
<1>1. PowerInv => TypeOK
  BY DEF PowerInv
<1>2. QED
  BY <1>1, Invariance, PTL

\* No lock or unlock hangs, for any order of suspends, resumes and resets.
THEOREM LocksNeverHang == Spec => []NeverHangs
<1>1. PowerInv => NeverHangs
  BY DEF PowerInv, NeverHangs
<1>2. QED
  BY <1>1, Invariance, PTL

\* Power-down always has a way out.
THEOREM DeepSleepIsLeft == Spec => []DeepSleepHasWayOut
<1>1. PowerInv => DeepSleepHasWayOut
  BY DEF PowerInv, DeepSleepHasWayOut, Started, Quiet
<1>2. QED
  BY <1>1, Invariance, PTL
=============================================================================
