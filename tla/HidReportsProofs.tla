-------------------------- MODULE HidReportsProofs --------------------------
(***************************************************************************)
(* Proofs about HidReports, for any keys, number of slots, modifiers and   *)
(* contents of reports.                                                    *)
(***************************************************************************)
EXTENDS HidReports, UddEndpointProofs

\* The flags of an endpoint between two handlers: the host can only fetch what
\* the driver waits for, and a job the driver does not wait for on an enabled
\* endpoint stems from a report that waited when the endpoint was freed.
GoodFlags(s, w) ==
    /\ GoodEp(drv, s)
    /\ Armed(s) => s.busy /\ s.owned
    /\ s.busy /\ ~(s.enabled /\ s.owned) => w

\* Unless something was lost: what is told is on its way or with the host.
Knows ==
    ~lost => IF ep.owned THEN ep.pending \/ trans = Told ELSE host = Told

\* The inductive invariant.
IInv == TypeOK /\ GoodFlags(ep, waited) /\ Knows /\ SlotsPacked

-----------------------------------------------------------------------------
(***************************************************************************)
(* The array of keys.                                                      *)
(***************************************************************************)
LEMMA KeyDownPacked ==
    ASSUME ReportAssumption, NEW k \in Key, NEW keys \in [Slot -> Key \cup {None}],
           Packed(keys)
    PROVE  /\ KeyDown(k, keys) \in [Slot -> Key \cup {None}]
           /\ Packed(KeyDown(k, keys))
<1>1. CASE \E i \in Slot : IsStop(i, k, keys) /\ keys[i] = None
  <2> DEFINE at == CHOOSE i \in Slot : IsStop(i, k, keys) /\ keys[i] = None
  <2>1. at \in Slot /\ IsStop(at, k, keys) /\ keys[at] = None
    BY <1>1
  <2> HIDE DEF at
  <2>2. KeyDown(k, keys) = [keys EXCEPT ![at] = k]
    BY <1>1 DEF KeyDown, at
  <2>3. \A j \in Slot : j < at => keys[j] # k /\ keys[j] # None
    BY <2>1, ReportAssumption DEF IsStop, Slot, ReportAssumption
  <2>4. \A j \in Slot : at < j => keys[j] = None
    BY <2>1 DEF Packed
  <2>5. QED
    BY <2>1, <2>2, <2>3, <2>4 DEF Packed, Slot
<1>2. CASE ~\E i \in Slot : IsStop(i, k, keys) /\ keys[i] = None
  BY <1>2 DEF KeyDown
<1>3. QED
  BY <1>1, <1>2

LEMMA KeyUpPacked ==
    ASSUME ReportAssumption, NEW k \in Key, NEW keys \in [Slot -> Key \cup {None}],
           Packed(keys)
    PROVE  /\ KeyUp(k, keys) \in [Slot -> Key \cup {None}]
           /\ Packed(KeyUp(k, keys))
<1>1. CASE \E i \in Slot : IsStop(i, k, keys) /\ keys[i] = k
  <2> DEFINE at == CHOOSE i \in Slot : IsStop(i, k, keys) /\ keys[i] = k
             new == [i \in Slot |->
                       IF i < at THEN keys[i]
                       ELSE IF i < NbSlot THEN keys[i + 1] ELSE None]
  <2>1. at \in Slot
    BY <1>1
  <2> HIDE DEF at
  <2>2. KeyUp(k, keys) = new
    BY <1>1 DEF KeyUp, at
  <2>3. \A i \in Slot : i < NbSlot => i + 1 \in Slot
    BY ReportAssumption DEF Slot, ReportAssumption
  <2>4. new \in [Slot -> Key \cup {None}]
    BY <2>3
  <2>5. ASSUME NEW i \in Slot, NEW j \in Slot, i < j
        PROVE  /\ new[i] = None => new[j] = None
               /\ new[i] = new[j] => new[j] = None
    <3> DEFINE a == IF i < at THEN i ELSE i + 1
               b == IF j < at THEN j ELSE j + 1
    <3>1. CASE ~(j < at) /\ ~(j < NbSlot)
      BY <3>1
    <3>2. CASE j < at \/ j < NbSlot
      <4>1. i < at \/ i < NbSlot
        BY <2>1, <2>5, <3>2 DEF Slot
      <4>2. a \in Slot /\ b \in Slot /\ a < b
        BY <2>1, <2>3, <2>5, <3>2, <4>1 DEF Slot
      <4>3. new[i] = keys[a] /\ new[j] = keys[b]
        BY <3>2, <4>1
      <4>4. QED
        BY <4>2, <4>3 DEF Packed
    <3>3. QED
      BY <3>1, <3>2
  <2>6. QED
    BY <2>2, <2>4, <2>5 DEF Packed
<1>2. CASE ~\E i \in Slot : IsStop(i, k, keys) /\ keys[i] = k
  BY <1>2 DEF KeyUp
<1>3. QED
  BY <1>1, <1>2

-----------------------------------------------------------------------------
(***************************************************************************)
(* The actions that change a report or send one.                           *)
(***************************************************************************)
LEMMA BlankIsPacked == Packed(NoKey.keys) /\ NoKey \in KbdReport
BY DEF Packed, NoKey, KbdReport

LEMMA KbdChangeKeeps ==
    ASSUME IInv, drv = "kbd", NEW r \in KbdReport, Packed(r.keys), KbdChange(r)
    PROVE  IInv'
<1> DEFINE t == KbdUpdate(ep)
<1>1. /\ t \in EndpointState
      /\ t.enabled = ep.enabled /\ t.stall = ep.stall
      /\ ep.owned => t.busy = ep.busy /\ t.owned /\ t.pending /\ t.nack = ep.nack
      /\ ~ep.owned => ~t.pending
      /\ ~ep.owned /\ RunOk(ep) => t.busy /\ t.owned /\ ~t.nack
      /\ ~ep.owned /\ ~RunOk(ep) => t.busy = ep.busy /\ ~t.owned /\ t.nack = ep.nack
  BY KbdUpdateFields DEF IInv, TypeOK
<1>2. /\ ep' = t /\ report' = r /\ trans' = IF ep.owned THEN trans ELSE r
      /\ lost' = ~t.owned
      /\ drv' = drv /\ sent' = sent /\ host' = host /\ waited' = waited
  BY DEF KbdChange
<1> HIDE DEF t
<1>3. (~t.owned) \in BOOLEAN
  OBVIOUS
<1>4. TypeOK'
  BY <1>1, <1>2, <1>3 DEF IInv, TypeOK, Reports
<1>5. GoodFlags(ep, waited)'
  BY <1>1, <1>2 DEF IInv, GoodFlags, GoodEp, Armed, RunOk
<1>6. Knows'
  <2>1. Told' = r
    BY <1>2 DEF Told
  <2>2. CASE ep.owned
    BY <1>1, <1>2, <2>2 DEF Knows
  <2>3. CASE ~ep.owned
    BY <1>2, <2>1, <2>3 DEF Knows
  <2>4. QED
    BY <2>2, <2>3
<1>7. SlotsPacked'
  BY <1>2 DEF IInv, SlotsPacked
<1>8. QED
  BY <1>4, <1>5, <1>6, <1>7 DEF IInv

LEMMA DownKeeps ==
    ASSUME ReportAssumption, IInv, NEW k \in Key, Down(k)
    PROVE  IInv'
<1> DEFINE keys == KeyDown(k, report.keys)
<1>1. drv = "kbd" /\ report \in KbdReport /\ Packed(report.keys)
  BY DEF IInv, TypeOK, Reports, SlotsPacked, Down
<1>2. report.keys \in [Slot -> Key \cup {None}]
  BY <1>1 DEF KbdReport
<1>3. keys \in [Slot -> Key \cup {None}] /\ Packed(keys)
  BY <1>1, <1>2, KeyDownPacked
<1>4. KbdChange([report EXCEPT !.keys = keys])
  BY DEF Down
<1> HIDE DEF keys
<1>5. /\ [report EXCEPT !.keys = keys] \in KbdReport
      /\ [report EXCEPT !.keys = keys].keys = keys
  BY <1>1, <1>3 DEF KbdReport
<1>6. QED
  BY <1>1, <1>3, <1>4, <1>5, KbdChangeKeeps

LEMMA UpKeeps ==
    ASSUME ReportAssumption, IInv, NEW k \in Key, Up(k)
    PROVE  IInv'
<1> DEFINE keys == KeyUp(k, report.keys)
<1>1. drv = "kbd" /\ report \in KbdReport /\ Packed(report.keys)
  BY DEF IInv, TypeOK, Reports, SlotsPacked, Up
<1>2. report.keys \in [Slot -> Key \cup {None}]
  BY <1>1 DEF KbdReport
<1>3. keys \in [Slot -> Key \cup {None}] /\ Packed(keys)
  BY <1>1, <1>2, KeyUpPacked
<1>4. KbdChange([report EXCEPT !.keys = keys])
  BY DEF Up
<1> HIDE DEF keys
<1>5. /\ [report EXCEPT !.keys = keys] \in KbdReport
      /\ [report EXCEPT !.keys = keys].keys = keys
  BY <1>1, <1>3 DEF KbdReport
<1>6. QED
  BY <1>1, <1>3, <1>4, <1>5, KbdChangeKeeps

LEMMA ModifierKeeps ==
    ASSUME IInv, NEW m \in Modifier, ModifierDown(m) \/ ModifierUp(m)
    PROVE  IInv'
<1> DEFINE down == [report EXCEPT !.mods = @ \cup {m}]
           up == [report EXCEPT !.mods = @ \ {m}]
<1>1. drv = "kbd" /\ report \in KbdReport /\ Packed(report.keys)
  BY DEF IInv, TypeOK, Reports, SlotsPacked, ModifierDown, ModifierUp
<1>2. /\ down \in KbdReport /\ down.keys = report.keys
      /\ up \in KbdReport /\ up.keys = report.keys
  BY <1>1 DEF KbdReport
<1>3. KbdChange(down) \/ KbdChange(up)
  BY DEF ModifierDown, ModifierUp
<1> HIDE DEF down, up
<1>4. QED
  BY <1>1, <1>2, <1>3, KbdChangeKeeps

LEMMA MoveKeeps ==
    ASSUME IInv, NEW c \in Content, Move(c)
    PROVE  IInv'
<1>1. /\ drv # "kbd" /\ report' = c
      /\ drv' = drv /\ ep' = ep /\ sent' = sent /\ trans' = trans /\ host' = host
      /\ lost' = lost /\ waited' = waited
  BY DEF Move
<1>2. TypeOK'
  BY <1>1 DEF IInv, TypeOK, Reports
<1>3. GoodFlags(ep, waited)'
  BY <1>1 DEF IInv, GoodFlags, GoodEp, Armed
<1>4. Knows'
  BY <1>1 DEF IInv, Knows, Told
<1>5. SlotsPacked'
  BY <1>1 DEF SlotsPacked
<1>6. QED
  BY <1>2, <1>3, <1>4, <1>5 DEF IInv

LEMMA FrameKeeps ==
    ASSUME IInv, Frame
    PROVE  IInv'
<1> DEFINE t == InSend(ep)
           accepted == ~ep.owned /\ t.owned
<1>1. /\ ep.owned => t = ep
      /\ t \in EndpointState
      /\ t.enabled = ep.enabled /\ t.stall = ep.stall /\ t.pending = ep.pending
      /\ ~ep.owned /\ RunOk(ep) => t.busy /\ t.owned /\ ~t.nack
      /\ ~ep.owned /\ ~RunOk(ep) => t.busy = ep.busy /\ ~t.owned /\ t.nack = ep.nack
  BY InSendFields DEF IInv, TypeOK
<1>2. /\ drv # "kbd" /\ ep' = t
      /\ trans' = IF ep.owned THEN trans ELSE report
      /\ sent' = IF accepted THEN report ELSE sent
      /\ lost' = (lost /\ ~accepted)
      /\ drv' = drv /\ report' = report /\ host' = host /\ waited' = waited
  BY DEF Frame, SendReportIn
<1> HIDE DEF t
<1>3. (lost /\ ~accepted) \in BOOLEAN
  OBVIOUS
<1>4. TypeOK'
  BY <1>1, <1>2, <1>3 DEF IInv, TypeOK, Reports
<1>5. GoodFlags(ep, waited)'
  <2>1. drv \in InDrivers /\ GoodFlags(ep, waited)
    BY DEF IInv, TypeOK
  <2>2. CASE ep.owned
    BY <1>1, <1>2, <2>1, <2>2 DEF GoodFlags, GoodEp, Armed
  <2>3. CASE ~ep.owned
    BY <1>1, <1>2, <2>1, <2>3 DEF GoodFlags, GoodEp, Armed, RunOk, InDrivers
  <2>4. QED
    BY <2>2, <2>3
<1>6. Knows'
  <2>1. Told = sent /\ Told' = sent'
    BY <1>2 DEF Told
  <2>2. CASE ep.owned
    <3>1. UNCHANGED <<ep, trans, sent, lost, host>>
      BY <1>1, <1>2, <2>2 DEF IInv, TypeOK
    <3>2. QED
      BY <2>1, <3>1 DEF IInv, Knows
  <2>3. CASE ~ep.owned /\ t.owned
    BY <1>2, <2>1, <2>3 DEF Knows
  <2>4. CASE ~ep.owned /\ ~t.owned
    BY <1>2, <2>1, <2>4 DEF IInv, Knows
  <2>5. QED
    BY <2>2, <2>3, <2>4
<1>7. SlotsPacked'
  BY <1>2 DEF SlotsPacked
<1>8. QED
  BY <1>4, <1>5, <1>6, <1>7 DEF IInv

-----------------------------------------------------------------------------
(***************************************************************************)
(* The actions of the bus.                                                 *)
(***************************************************************************)
\* Whatever a callback copied, the buffer holds a report of the driver.
LEMMA CarryTyped ==
    ASSUME IInv, NEW s
    PROVE  /\ Carry(s) \in Reports(drv)
           /\ drv = "kbd" => Packed(Carry(s).keys)
BY DEF IInv, TypeOK, SlotsPacked, Carry

LEMMA TransferCompleteKeeps ==
    ASSUME IInv, TransferComplete
    PROVE  IInv'
<1> DEFINE t == Abort(drv, ep)
<1>1. /\ drv \in InDrivers /\ ep \in EndpointState
      /\ ep.pending => ep.owned /\ drv = "kbd"
      /\ ep.enabled /\ ~ep.stall /\ ep.busy /\ ep.owned
  BY DEF IInv, TypeOK, GoodFlags, GoodEp, TransferComplete, Armed
<1>2. /\ t \in EndpointState /\ ~t.pending
      /\ t.enabled = ep.enabled /\ t.stall = ep.stall
      /\ ep.pending => t.busy /\ t.owned /\ ~t.nack
      /\ ~ep.pending => ~t.busy /\ ~t.owned /\ t.nack
  BY <1>1, AbortFields DEF InDrivers
<1>3. /\ ep' = t /\ host' = trans /\ trans' = Carry(t)
      /\ UNCHANGED <<drv, report, sent, lost, waited>>
  BY DEF TransferComplete, TransComplete, Abort
<1> HIDE DEF t
<1>4. TypeOK'
  BY <1>2, <1>3, CarryTyped DEF IInv, TypeOK, Reports
<1>5. GoodFlags(ep, waited)'
  BY <1>1, <1>2, <1>3 DEF GoodFlags, GoodEp, Armed, InDrivers
<1>6. Knows'
  <2>1. Told' = Told
    BY <1>3 DEF Told
  <2>2. CASE ep.pending
    <3>1. trans' = report /\ Told = report
      BY <1>1, <1>2, <1>3, <2>2 DEF Carry, Told
    <3>2. QED
      BY <1>2, <1>3, <2>1, <2>2, <3>1 DEF Knows
  <2>3. CASE ~ep.pending
    BY <1>1, <1>2, <1>3, <2>1, <2>3 DEF IInv, Knows
  <2>4. QED
    BY <2>2, <2>3
<1>7. SlotsPacked'
  BY <1>3, CarryTyped DEF IInv, SlotsPacked
<1>8. QED
  BY <1>4, <1>5, <1>6, <1>7 DEF IInv

LEMMA HaltKeeps ==
    ASSUME IInv, Halt
    PROVE  IInv'
<1> DEFINE t == SetFeatureHalt(drv, ep)
<1>1. /\ drv \in InDrivers /\ ep \in EndpointState /\ GoodEp(drv, ep)
      /\ ep.pending => ep.owned /\ drv = "kbd"
  BY DEF IInv, TypeOK, GoodFlags, GoodEp
<1>2. /\ t \in EndpointState
      /\ t.enabled = ep.enabled /\ t.stall /\ ~t.busy /\ t.nack
      /\ ~ep.busy => t.owned = ep.owned /\ t.pending = ep.pending
  BY <1>1, SetFeatureHaltFields DEF InDrivers
<1>3. GoodEp(drv, t)
  BY <1>1, SetFeatureHaltGood DEF InDrivers, Drivers
<1>4. /\ ep' = t /\ trans' = Carry(t) /\ lost' = (lost \/ ep.busy) /\ waited' = FALSE
      /\ UNCHANGED <<drv, report, sent, host>>
  BY DEF Halt
<1> HIDE DEF t
<1>5. (lost \/ ep.busy) \in BOOLEAN
  OBVIOUS
<1>6. TypeOK'
  BY <1>2, <1>4, <1>5, CarryTyped DEF IInv, TypeOK, Reports
<1>7. GoodFlags(ep, waited)'
  <2>1. GoodEp(drv, ep)'
    BY <1>3, <1>4 DEF GoodEp, Armed
  <2>2. QED
    BY <1>2, <1>4, <2>1 DEF GoodFlags, Armed
<1>8. Knows'
  <2>1. Told' = Told
    BY <1>4 DEF Told
  <2>2. CASE ep.busy
    BY <1>4, <2>2 DEF Knows
  <2>3. CASE ~ep.busy
    <3>1. trans' = trans
      BY <1>2, <1>4, <2>3 DEF Carry
    <3>2. QED
      BY <1>2, <1>4, <2>1, <2>3, <3>1 DEF IInv, Knows
  <2>4. QED
    BY <2>2, <2>3
<1>9. SlotsPacked'
  BY <1>4, CarryTyped DEF IInv, SlotsPacked
<1>10. QED
  BY <1>6, <1>7, <1>8, <1>9 DEF IInv

LEMMA UnhaltKeeps ==
    ASSUME IInv, Unhalt
    PROVE  IInv'
<1> DEFINE t == [ep EXCEPT !.stall = FALSE]
<1>1. /\ drv \in InDrivers /\ ep \in EndpointState /\ GoodFlags(ep, waited)
  BY DEF IInv, TypeOK
<1>2. /\ ep' = IF ep.stall THEN t ELSE ep
      /\ UNCHANGED <<drv, report, sent, trans, host, lost, waited>>
  <2>1. ep.stall => ~t.busy
    BY <1>1 DEF GoodFlags, GoodEp, EndpointState
  <2>2. QED
    BY <2>1 DEF Unhalt, ClearHalt, EndJob
<1>3. /\ t \in EndpointState /\ t.enabled = ep.enabled /\ ~t.stall /\ t.nack = ep.nack
      /\ t.busy = ep.busy /\ t.owned = ep.owned /\ t.pending = ep.pending
  BY <1>1 DEF EndpointState
<1> HIDE DEF t
<1>4. TypeOK'
  BY <1>2, <1>3 DEF IInv, TypeOK, Reports
<1>5. GoodFlags(ep, waited)'
  BY <1>1, <1>2, <1>3 DEF GoodFlags, GoodEp, Armed
<1>6. Knows'
  BY <1>2, <1>3 DEF IInv, Knows, Told
<1>7. SlotsPacked'
  BY <1>2 DEF IInv, SlotsPacked
<1>8. QED
  BY <1>4, <1>5, <1>6, <1>7 DEF IInv

\* Leaving a configuration: the endpoint is disabled, and a job is left on it
\* only if a report waited for the one that was aborted.
LEMMA LeftFields ==
    ASSUME NEW s \in EndpointState, GoodEp(drv, s), drv \in InDrivers
    PROVE  LET t == Left(s)
           IN  /\ GoodEp(drv, t)
               /\ ~t.enabled
               /\ s.enabled => (t.busy => s.pending)
               /\ ~s.enabled => t = s
<1>1. CASE s.enabled
  <2>1. GoodEp(drv, Free(drv, s)) /\ ~Free(drv, s).enabled
    BY FreeGood DEF InDrivers, Drivers
  <2>2. Free(drv, s).busy => s.pending
    BY FreeFields DEF InDrivers, GoodEp
  <2>3. QED
    BY <1>1, <2>1, <2>2 DEF Left
<1>2. CASE ~s.enabled
  BY <1>2 DEF Left
<1>3. QED
  BY <1>1, <1>2

LEMMA ConfigureKeeps ==
    ASSUME ReportAssumption, IInv, Configure
    PROVE  IInv'
<1> DEFINE l == Left(ep)
           t == DriverEnable(drv, Alloc(l))
<1>1. /\ drv \in InDrivers /\ ep \in EndpointState /\ GoodFlags(ep, waited)
      /\ GoodEp(drv, ep)
  BY DEF IInv, TypeOK, GoodFlags
<1>2. /\ GoodEp(drv, l)
      /\ ep.enabled => (l.busy => ep.pending)
      /\ ~ep.enabled => l = ep
  BY <1>1, LeftFields
<1>3. l \in EndpointState /\ (l.pending => drv = "kbd")
  BY <1>2 DEF GoodEp
<1>4. /\ ep' = t /\ trans' = Carry(l)
      /\ waited' = IF ep.enabled THEN ep.pending ELSE waited
      /\ report' = IF drv = "kbd" THEN NoKey ELSE report
      /\ host' = Blank(drv) /\ lost' = (drv # "kbd")
      /\ drv' = drv /\ sent' = sent
  BY DEF Configure, Forget
<1> HIDE DEF l
<1>5. /\ t \in EndpointState /\ t.enabled /\ ~t.stall /\ t.nack
      /\ ~t.owned /\ ~t.pending /\ t.busy = l.busy
  BY <1>1, <1>3, EnableFields DEF InDrivers
<1> HIDE DEF t
<1>6. /\ (drv # "kbd") \in BOOLEAN
      /\ ep.pending \in BOOLEAN
      /\ Blank(drv) \in Reports(drv)
  BY <1>1, BlankIsPacked DEF EndpointState, Blank, Reports
<1>7. TypeOK'
  <2>1. report' \in Reports(drv)
    BY <1>4, BlankIsPacked DEF IInv, TypeOK, Reports
  <2>2. QED
    BY <1>4, <1>5, <1>6, <2>1, CarryTyped DEF IInv, TypeOK, Reports
<1>8. GoodFlags(ep, waited)'
  <2>1. l.busy => waited'
    <3>1. CASE ep.enabled
      BY <1>2, <1>4, <3>1
    <3>2. CASE ~ep.enabled
      BY <1>1, <1>2, <1>4, <3>2 DEF GoodFlags
    <3>3. QED
      BY <3>1, <3>2
  <2>2. QED
    BY <1>4, <1>5, <2>1 DEF GoodFlags, GoodEp, Armed
<1>9. Knows'
  BY <1>4, <1>5 DEF Knows, Told, Blank
<1>10. SlotsPacked'
  BY <1>4, CarryTyped, BlankIsPacked DEF IInv, SlotsPacked, Blank
<1>11. QED
  BY <1>7, <1>8, <1>9, <1>10 DEF IInv

\* Unconfigure, and what BusReset does after it aborted the jobs.
LEMMA LeaveKeeps ==
    ASSUME IInv, NEW t, GoodEp(drv, t), ~t.enabled, t.busy => waited',
           ep' = t, trans' = Carry(t), host' = Blank(drv), lost' = TRUE,
           waited' \in BOOLEAN, UNCHANGED <<drv, report, sent>>
    PROVE  IInv'
<1>1. Blank(drv) \in Reports(drv) /\ (drv = "kbd" => Packed(Blank(drv).keys))
  BY BlankIsPacked DEF Blank, Reports
<1>2. TypeOK'
  BY <1>1, CarryTyped DEF IInv, TypeOK, Reports, GoodEp
<1>3. GoodFlags(ep, waited)'
  BY DEF GoodFlags, GoodEp, Armed
<1>4. Knows'
  BY DEF Knows
<1>5. SlotsPacked'
  BY <1>1, CarryTyped DEF IInv, SlotsPacked
<1>6. QED
  BY <1>2, <1>3, <1>4, <1>5 DEF IInv

LEMMA UnconfigureKeeps ==
    ASSUME IInv, Unconfigure
    PROVE  IInv'
<1> DEFINE t == Left(ep)
<1>1. /\ drv \in InDrivers /\ ep \in EndpointState /\ GoodFlags(ep, waited)
      /\ GoodEp(drv, ep)
  BY DEF IInv, TypeOK, GoodFlags
<1>2. /\ GoodEp(drv, t) /\ ~t.enabled
      /\ ep.enabled => (t.busy => ep.pending)
      /\ ~ep.enabled => t = ep
  BY <1>1, LeftFields
<1>3. /\ ep' = t /\ trans' = Carry(t)
      /\ waited' = IF ep.enabled THEN ep.pending ELSE waited
      /\ host' = Blank(drv) /\ lost' = TRUE
      /\ UNCHANGED <<drv, report, sent>>
  BY DEF Unconfigure
<1> HIDE DEF t
<1>4. waited' \in BOOLEAN
  BY <1>1, <1>3 DEF IInv, TypeOK, EndpointState
<1>5. t.busy => waited'
  BY <1>1, <1>2, <1>3 DEF GoodFlags
<1>6. QED
  BY <1>2, <1>3, <1>4, <1>5, LeaveKeeps

LEMMA BusResetKeeps ==
    ASSUME IInv, BusReset
    PROVE  IInv'
<1> DEFINE a == Abort(drv, ep)
           t == Left(a)
<1>1. /\ drv \in InDrivers /\ ep \in EndpointState /\ GoodEp(drv, ep)
      /\ ep.pending => drv = "kbd" /\ ep.owned
  BY DEF IInv, TypeOK, GoodFlags, GoodEp
<1>2. GoodEp(drv, a) /\ a \in EndpointState
  BY <1>1, AbortGood DEF InDrivers, Drivers, GoodEp
<1>3. /\ a.enabled = ep.enabled
      /\ ~ep.busy => a = [ep EXCEPT !.nack = TRUE]
      /\ ep.busy => ~a.pending
      /\ ep.busy /\ ~ep.enabled => ~a.busy
  BY <1>1, AbortFields DEF InDrivers
<1> HIDE DEF a
<1>4. /\ GoodEp(drv, t) /\ ~t.enabled
      /\ a.enabled => (t.busy => a.pending)
      /\ ~a.enabled => t = a
  BY <1>1, <1>2, LeftFields
<1>5. ~t.busy
  <2>1. CASE ~ep.busy
    <3>1. a.busy = ep.busy /\ a.pending = ep.pending
      BY <1>1, <1>3, <2>1 DEF EndpointState
    <3>2. a.enabled => ~a.pending
      BY <1>1, <1>3, <2>1, <3>1 DEF GoodEp
    <3>3. QED
      BY <1>4, <2>1, <3>1, <3>2
  <2>2. CASE ep.busy
    BY <1>3, <1>4, <2>2
  <2>3. QED
    BY <2>1, <2>2
<1>6. /\ ep' = t /\ trans' = Carry(t) /\ waited' = FALSE
      /\ host' = Blank(drv) /\ lost' = TRUE
      /\ UNCHANGED <<drv, report, sent>>
  BY DEF BusReset, a
<1> HIDE DEF t
<1>7. QED
  BY <1>4, <1>5, <1>6, LeaveKeeps

-----------------------------------------------------------------------------
LEMMA InitInv ==
    ASSUME ReportAssumption, Init
    PROVE  IInv
<1>1. /\ drv \in InDrivers
      /\ ep = [enabled |-> FALSE, stall |-> FALSE, nack |-> FALSE, busy |-> FALSE,
               owned |-> drv \in {"jstk", "ledIn"}, pending |-> FALSE]
      /\ lost = (drv # "kbd") /\ waited = FALSE
      /\ trans = Blank(drv) /\ host = Blank(drv)
  BY DEF Init, Detached
<1>2. (drv \in {"jstk", "ledIn"}) \in BOOLEAN /\ (drv # "kbd") \in BOOLEAN
  OBVIOUS
<1>3. /\ ep \in EndpointState
      /\ ~ep.enabled /\ ~ep.stall /\ ~ep.busy /\ ~ep.pending
      /\ ep.owned <=> drv \in {"jstk", "ledIn"}
  BY <1>1, <1>2 DEF EndpointState
<1>4. Blank(drv) \in Reports(drv)
  BY <1>1, BlankIsPacked DEF Blank, Reports
<1>5. report \in Reports(drv) /\ sent \in Reports(drv)
  BY ReportAssumption, BlankIsPacked DEF Init, Reports, ReportAssumption
<1>6. TypeOK
  BY <1>1, <1>2, <1>3, <1>4, <1>5 DEF TypeOK
<1>7. GoodFlags(ep, waited)
  BY <1>1, <1>3 DEF GoodFlags, GoodEp, Armed
<1>8. Knows
  BY <1>1, <1>3 DEF Init, Knows, Told, Blank
<1>9. SlotsPacked
  BY <1>1, BlankIsPacked DEF Init, SlotsPacked, Blank
<1>10. QED
  BY <1>6, <1>7, <1>8, <1>9 DEF IInv

LEMMA NextInv ==
    ASSUME ReportAssumption, IInv, [Next]_vars
    PROVE  IInv'
<1>1. CASE Change
  <2>1. ASSUME NEW k \in Key, Down(k) PROVE IInv'
    BY <2>1, DownKeeps
  <2>2. ASSUME NEW k \in Key, Up(k) PROVE IInv'
    BY <2>2, UpKeeps
  <2>3. ASSUME NEW m \in Modifier, ModifierDown(m) \/ ModifierUp(m) PROVE IInv'
    BY <2>3, ModifierKeeps
  <2>4. ASSUME NEW c \in Content, Move(c) PROVE IInv'
    BY <2>4, MoveKeeps
  <2>5. QED
    BY <1>1, <2>1, <2>2, <2>3, <2>4 DEF Change
<1>2. CASE Frame
  BY <1>2, FrameKeeps
<1>3. CASE TransferComplete
  BY <1>3, TransferCompleteKeeps
<1>4. CASE Disturb
  BY <1>4, HaltKeeps, UnhaltKeeps, ConfigureKeeps, UnconfigureKeeps, BusResetKeeps
     DEF Disturb
<1>5. CASE UNCHANGED vars
  BY <1>5 DEF IInv, TypeOK, GoodFlags, GoodEp, Armed, Knows, Told, SlotsPacked, vars
<1>6. QED
  BY <1>1, <1>2, <1>3, <1>4, <1>5 DEF Next

\* The inductive invariant holds in every state of HidReports.
THEOREM Invariance == Spec => []IInv
<1>1. Init => IInv
  BY InitInv, ReportAssumption
<1>2. IInv /\ [Next]_vars => IInv'
  BY NextInv, ReportAssumption
<1>3. QED
  BY <1>1, <1>2, PTL DEF Spec

\* The report of udi_hid_kbd.c, the buffer udi_hid_kbd_send_report copies it to
\* and what the host receives are keyboard reports; with another driver they
\* are contents of its report.
THEOREM TypeCorrect == Spec => []TypeOK
<1>1. IInv => TypeOK
  BY DEF IInv
<1>2. QED
  BY <1>1, Invariance, PTL

\* Whatever the order of udi_hid_kbd_down, udi_hid_kbd_up and the copies that
\* calls and callbacks make, no report has a hole or names a key twice.
THEOREM SlotsArePacked == Spec => []SlotsPacked
<1>1. IInv => SlotsPacked
  BY DEF IInv
<1>2. QED
  BY <1>1, Invariance, PTL

\* A report that is neither with the host nor on its way was lost to a halt, a
\* reset or an endpoint that refused it: the single report buffer of a driver
\* and the callback that sends it again lose nothing else.
THEOREM HostIsTold == Spec => []HostWillKnow
<1>1. IInv => HostWillKnow
  BY DEF IInv, TypeOK, Knows, HostWillKnow
<1>2. QED
  BY <1>1, Invariance, PTL

\* A driver that waits for nothing on a busy endpoint got there through
\* udd_ep_free, whose callback started a transfer for a report that waited.
THEOREM MuteIsExplained == Spec => []MuteAfterReconfigure
<1>1. IInv => MuteAfterReconfigure
  BY DEF IInv, GoodFlags, MuteAfterReconfigure, Mute
<1>2. QED
  BY <1>1, Invariance, PTL

\* No call and no callback copies into a buffer the host may be reading.
LEMMA BufferStep ==
    ASSUME IInv, Next, Armed(ep), Armed(ep'), trans' # trans
    PROVE  TransferComplete
<1>1. ep.owned /\ drv \in InDrivers /\ ep \in EndpointState /\ GoodEp(drv, ep)
  BY DEF IInv, TypeOK, GoodFlags
<1>2. ASSUME NEW r, KbdChange(r) PROVE FALSE
  BY <1>1, <1>2 DEF KbdChange
<1>3. ~Change
  BY <1>2 DEF Change, Down, Up, ModifierDown, ModifierUp, Move
<1>4. ~Frame
  BY <1>1 DEF Frame, SendReportIn
<1>5. ~Halt
  <2>1. SetFeatureHalt(drv, ep).stall
    BY <1>1, SetFeatureHaltFields DEF InDrivers, GoodEp
  <2>2. QED
    BY <2>1 DEF Halt, Armed
<1>6. ~Configure
  <2>1. GoodEp(drv, Left(ep))
    BY <1>1, LeftFields
  <2>2. DriverEnable(drv, Alloc(Left(ep))).nack
    BY <1>1, <2>1, EnableFields DEF InDrivers, GoodEp
  <2>3. QED
    BY <2>2 DEF Configure, Armed
<1>7. ~Unconfigure
  BY <1>1, LeftFields DEF Unconfigure, Armed
<1>8. ~BusReset
  <2>1. GoodEp(drv, Abort(drv, ep)) /\ Abort(drv, ep) \in EndpointState
    BY <1>1, AbortGood DEF InDrivers, Drivers, GoodEp
  <2>2. ~Left(Abort(drv, ep)).enabled
    BY <1>1, <2>1, LeftFields
  <2>3. QED
    BY <2>2 DEF BusReset, Armed
<1>9. QED
  BY <1>3, <1>4, <1>5, <1>6, <1>7, <1>8 DEF Next, Disturb, Unhalt

\* The buffer of a transfer that is on going is only written when the host has
\* read it: by the callback at the end of that transfer.
THEOREM BufferIsStable == Spec => BufferStable
<1>1. IInv /\ [Next]_vars
        => [Armed(ep) /\ Armed(ep') /\ trans' # trans => TransferComplete]_vars
  BY BufferStep
<1>2. QED
  BY <1>1, Invariance, PTL DEF Spec, BufferStable
=============================================================================
