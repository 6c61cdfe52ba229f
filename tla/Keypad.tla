------------------------------- MODULE Keypad -------------------------------
(***************************************************************************)
(* The keypad (keypad.c) and its two callers: the start-of-frame interrupt *)
(* when the device is configured, the loop in main (main.c) in test mode   *)
(* when it is not.  Both work on the same statics and the same column      *)
(* lines without a lock, so the interrupt may come between any two steps   *)
(* of main; it runs to its end.                                            *)
(*                                                                         *)
(* A key stands for its button, a place of the matrix, and its HID code.   *)
(***************************************************************************)
EXTENDS TestSwitch, Naturals, FiniteSets

CONSTANTS
    NbCol, NbRow,   \* KEYPAD_COLS, KEYPAD_ROWS
    Button          \* the places of the matrix that have a button

Col == 1 .. NbCol
Row == 1 .. NbRow

ASSUME KeypadAssumption ==
    /\ NbCol \in Nat \ {0} /\ NbRow \in Nat \ {0}
    /\ Button \subseteq Col \X Row /\ None \notin Button

VARIABLES
    held,       \* the buttons that are down
    selected,   \* the column PORTF and PORTB pin 7 drive, 0 for none
    kpd,        \* the statics of keypad.c
    kpdPc, scan, \* where main is; the locals of keypad_poll in main
    stroke,     \* the key the last step sent down and up, or None
    toggle,     \* the key whose LED the last step toggled, or None
    first,      \* history: the buttons at the first normal sample of a press
    crowd,      \* history: a later normal sample saw two buttons
    raced,      \* history: main took part in the press
    noted,      \* history: a report saw the press, and no release since
    blurred     \* history: main is in a turn of its loop that a frame cut in
                \* two or in which buttons moved, or the last such turn saw no
                \* key, some have been down since, and no LED was toggled

history == <<first, crowd, raced, noted, blurred>>
kpdVars == <<held, test, configured, selected, kpd, kpdPc, scan, stroke, toggle, history>>

NoScan == [col |-> 1, last |-> None, count |-> 0]

KpdInit ==
    /\ held = {} /\ test \in BOOLEAN /\ configured = FALSE /\ selected = 0
    /\ kpd = [prev |-> {}, keyMap |-> {}, pressed |-> FALSE, code |-> None, multi |-> FALSE,
              testMode |-> TRUE, currState |-> FALSE, prevState |-> FALSE,
              currentCode |-> None, firstKey |-> FALSE, firstCode |-> None, block |-> FALSE]
    /\ kpdPc = "loop" /\ scan = NoScan
    /\ stroke = None /\ toggle = None
    /\ first = {} /\ crowd = FALSE /\ raced = FALSE /\ noted = FALSE /\ blurred = FALSE

-----------------------------------------------------------------------------
(***************************************************************************)
(* keypad_poll.                                                            *)
(***************************************************************************)
RowsOf(c) == {r \in Row : <<c, r>> \in held}

\* Of several rows the lowest one that the mask read before does not have;
\* that mask is the one of another column, but for a single one.
Newest(rows, prev) ==
    LET new == IF rows \ prev # {} THEN rows \ prev ELSE rows
    IN  CHOOSE r \in new : \A q \in new : r <= q

\* One turn of the loop over the columns, with what the row lines show.
ScanColumn(rows, prev, s) ==
    [col   |-> s.col + 1,
     last  |-> IF rows = {} THEN s.last ELSE <<s.col, Newest(rows, prev)>>,
     count |-> s.count + Cardinality(rows)]

\* Wrong variant: the map keeps what the scan before has found.
Cleared_Not(k) == k

\* The map for the host starts empty.
Cleared(k) == [k EXCEPT !.keyMap = {}]

\* The keys a column puts into the map: keyIndex has the places of buttons only.
Mapped(c, rows) == {<<c, r>> : r \in rows} \cap Button

\* What keypad_poll does after the loop.
EndScan(s, k) ==
    [k EXCEPT !.pressed = s.last # None,
              !.code = IF s.last # None THEN s.last ELSE @,
              !.multi = s.count > 1]

\* keypad_poll when nothing interrupts it.
Poll(k) ==
    LET after[c \in 0 .. NbCol] ==
            IF c = 0 THEN NoScan
            ELSE ScanColumn(RowsOf(c), IF c = 1 THEN k.prev ELSE RowsOf(c - 1), after[c - 1])
    IN  [EndScan(after[NbCol], Cleared(k)) EXCEPT
            !.prev = RowsOf(NbCol),
            !.keyMap = @ \cup UNION {Mapped(c, RowsOf(c)) : c \in Col}]

-----------------------------------------------------------------------------
(***************************************************************************)
(* keypad_report.                                                          *)
(***************************************************************************)
\* The switch and the state of the keypad, as the report starts.
Sampled(k) ==
    [k EXCEPT !.testMode = test, !.currState = k.pressed, !.currentCode = k.code]

\* Where the report goes.  Test mode: a press toggles the LED of its key.
\* Normal mode: a press has a first sample, more of them, and a last one.
Branch(k) ==
    CASE k.testMode /\ k.currState /\ ~k.prevState  -> "toggle"
      [] ~k.testMode /\ ~k.firstKey /\ k.pressed    -> "first"
      [] ~k.testMode /\ k.firstKey /\ k.pressed     -> "more"
      [] ~k.testMode /\ k.firstKey /\ ~k.pressed    -> "last"
      [] OTHER -> "reported"

Branches == {"toggle", "first", "more", "last"}

\* Wrong variant: only the first sample of a press can block its stroke.
Acted_LateBlock(branch, k) ==
    CASE branch = "first" -> [k EXCEPT !.firstKey = TRUE, !.firstCode = k.currentCode,
                                       !.block = k.multi]
      [] branch = "last"  -> [k EXCEPT !.firstKey = FALSE, !.block = FALSE]
      [] OTHER -> k

\* What the branch does to the statics: the first key is remembered, two keys
\* at a later sample block its stroke, the release of all keys ends the press.
Acted(branch, k) ==
    CASE branch = "first" -> [k EXCEPT !.firstKey = TRUE, !.firstCode = k.currentCode,
                                       !.block = FALSE]
      [] branch = "more"  -> [k EXCEPT !.block = @ \/ k.multi]
      [] branch = "last"  -> [k EXCEPT !.firstKey = FALSE, !.block = FALSE]
      [] OTHER -> k

\* What can be seen of it: led_toggle; udi_hid_kbd_down and udi_hid_kbd_up.
Seen(branch, k) ==
    /\ toggle' = IF branch = "toggle" THEN k.currentCode ELSE None
    /\ stroke' = IF branch = "last" /\ ~k.block THEN k.firstCode ELSE None

\* Wrong variant: the last state is only remembered in normal mode.
Reported_NormalOnly(k) == IF k.testMode THEN k ELSE [k EXCEPT !.prevState = k.currState]

\* The last assignment of the report.
Reported(k) == [k EXCEPT !.prevState = k.currState]

-----------------------------------------------------------------------------
\* A frame or the user comes, and leaves buttons h down.
Blurs(h) ==
    blurred' = (kpdPc # "loop" \/ (blurred /\ h # {} /\ toggle' = None))

\* main_sof_action: kbd_ui_process, when nothing interrupts it.
KpdFrame ==
    /\ configured
    /\ LET k == Sampled(Poll(kpd))
       IN  /\ Seen(Branch(k), k)
           /\ kpd' = Reported(Acted(Branch(k), k))
    /\ selected' = 0
    /\ noted' = (held # {})
    /\ Blurs(held)
    /\ IF test THEN UNCHANGED <<first, crowd, raced>>
       ELSE /\ raced' = (raced /\ held # {})
            /\ first' = IF raced \/ (held # {} /\ first # {}) THEN first ELSE held
            /\ crowd' = (held # {} /\ first # {} /\ (crowd \/ Cardinality(held) > 1))
    /\ UNCHANGED <<held, test, configured, kpdPc, scan>>

-----------------------------------------------------------------------------
(***************************************************************************)
(* The loop in main.                                                       *)
(***************************************************************************)
Quiet == stroke' = None /\ toggle' = None

World == <<held, test, configured>>

\* It looks at the switch, and at the USB only once.
KpdLoopStarts ==
    /\ kpdPc = "loop" /\ ~configured /\ test
    /\ kpdPc' = "poll"
    /\ Quiet /\ UNCHANGED <<World, selected, kpd, scan, history>>

PollStarts ==
    /\ kpdPc = "poll"
    /\ kpd' = Cleared(kpd)
    /\ kpdPc' = "select"
    /\ Quiet /\ UNCHANGED <<World, selected, scan, history>>

ColumnSelect ==
    /\ kpdPc = "select" /\ scan.col \in Col
    /\ selected' = scan.col
    /\ kpdPc' = "read"
    /\ Quiet /\ UNCHANGED <<World, kpd, scan, history>>

\* The rows of the column that is selected by now, if any.
ColumnRead ==
    /\ kpdPc = "read"
    /\ scan' = ScanColumn(RowsOf(selected), kpd.prev, scan)
    /\ kpd' = [kpd EXCEPT !.prev = RowsOf(selected),
                          !.keyMap = @ \cup Mapped(scan.col, RowsOf(selected))]
    /\ kpdPc' = "select"
    /\ Quiet /\ UNCHANGED <<World, selected, history>>

ScanEnds ==
    /\ kpdPc = "select" /\ scan.col \notin Col
    /\ kpd' = EndScan(scan, kpd)
    /\ selected' = 0
    /\ kpdPc' = "report"
    /\ scan' = NoScan
    /\ Quiet /\ UNCHANGED <<World, history>>

\* The switch may have been turned since the loop looked at it.
ReportStarts ==
    /\ kpdPc = "report"
    /\ kpd' = Sampled(kpd)
    /\ kpdPc' = "sampled"
    /\ Quiet /\ UNCHANGED <<World, selected, scan, history>>

\* The conditions are evaluated, on statics a frame may just have changed.
ReportBranches ==
    /\ kpdPc = "sampled"
    /\ kpdPc' = Branch(kpd)
    /\ Quiet /\ UNCHANGED <<World, selected, kpd, scan, history>>

ReportActs ==
    /\ kpdPc \in Branches
    /\ Seen(kpdPc, kpd)
    /\ kpd' = Acted(kpdPc, kpd)
    /\ kpdPc' = "reported"
    /\ IF kpdPc = "toggle"
       THEN noted' = (held # {}) /\ UNCHANGED <<first, crowd, raced>>
       ELSE raced' = TRUE /\ first' = {} /\ crowd' = FALSE /\ UNCHANGED noted
    /\ UNCHANGED <<World, selected, scan, blurred>>

ReportEnds ==
    /\ kpdPc = "reported"
    /\ kpd' = Reported(kpd)
    /\ kpdPc' = "loop"
    /\ noted' = (held # {} /\ (noted \/ kpd.currState))
    /\ blurred' = (blurred /\ held # {} /\ ~kpd.currState)
    /\ Quiet /\ UNCHANGED <<World, selected, scan, first, crowd, raced>>

KpdMain ==
    \/ KpdLoopStarts \/ PollStarts \/ ColumnSelect \/ ColumnRead \/ ScanEnds
    \/ ReportStarts \/ ReportBranches \/ ReportActs \/ ReportEnds

-----------------------------------------------------------------------------
PressOrRelease(b) ==
    /\ held' = IF b \in held THEN held \ {b} ELSE held \cup {b}
    /\ noted' = (noted /\ held' # {})
    /\ Quiet /\ Blurs(held')
    /\ UNCHANGED <<test, configured, selected, kpd, kpdPc, scan, first, crowd, raced>>

KpdTurnSwitch ==
    /\ test' = ~test
    /\ Quiet /\ UNCHANGED <<held, configured, selected, kpd, kpdPc, scan, history>>

\* The host configures the device, or lets go of it.
KpdSetConfigured ==
    /\ configured' = ~configured
    /\ Quiet /\ UNCHANGED <<held, test, selected, kpd, kpdPc, scan, history>>

KpdNext ==
    \/ KpdFrame
    \/ KpdMain
    \/ \E b \in Button : PressOrRelease(b)
    \/ KpdTurnSwitch
    \/ KpdSetConfigured

KpdSpec == KpdInit /\ [][KpdNext]_kpdVars

-----------------------------------------------------------------------------
\* In normal mode the release of the last key sends one stroke, of a key that
\* was down at the first sample of the press, unless a later sample saw two
\* keys; no other frame sends one.  A press main took a part in is excepted.
StrokeIsEarned ==
    [][~test /\ ~raced /\ KpdFrame =>
         IF held = {} /\ first # {} /\ ~crowd THEN stroke' \in first
         ELSE stroke' = None]_kpdVars

\* From the moment keys go down until all are up one LED is toggled, at most and
\* of a key that is down, by frames and main together and in whichever mode the
\* keys went down.  Excepted are turns of main that a frame cuts in two or in
\* which buttons move: toggles in such a turn, and the first one after it if it
\* took the keys for released.
OneTogglePerPress ==
    [][toggle' # None => blurred \/ blurred' \/ (~noted /\ toggle' \in held)]_kpdVars

\* What the host is told in a frame are the keys that are down, whatever scan
\* of main the frame cut in two: main fills the same map.
KeysTold == [][KpdFrame => kpd'.keyMap = held]_kpdVars
=============================================================================
