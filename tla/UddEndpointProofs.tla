------------------------- MODULE UddEndpointProofs --------------------------
(***************************************************************************)
(* Lemmas about the operators of UddEndpoint: what every driver call keeps *)
(* true of an endpoint (GoodEp), and what it leaves in its fields.         *)
(***************************************************************************)
EXTENDS UddEndpoint, TLAPS

\* One endpoint between two handlers: no job on a halted endpoint, which stays
\* NAKed under its STALL; a waiting report has a transfer; a waiting
\* driver on an enabled endpoint has one the host can complete.
GoodEp(d, s) ==
    /\ s \in EndpointState
    /\ s.stall => ~s.busy /\ s.nack
    /\ s.pending => s.owned /\ d = "kbd"
    /\ s.owned => d # "ledOut"
    /\ s.enabled /\ s.owned => s.busy /\ Armed(s)

-----------------------------------------------------------------------------
\* A refused or accepted udd_ep_run of a driver that does not wait.
LEMMA RunGood ==
    ASSUME NEW d \in Drivers, NEW s \in EndpointState, GoodEp(d, s), ~s.owned
    PROVE  GoodEp(d, Run(s)) /\ Run(s).enabled = s.enabled
BY DEF GoodEp, Run, RunOk, Armed, EndpointState, Drivers

\* A keyboard report is sent or dropped; it never stays pending without a
\* transfer.
LEMMA KbdSendGood ==
    ASSUME NEW s \in EndpointState, s.stall => ~s.busy /\ s.nack,
           s.enabled /\ s.owned => s.busy /\ Armed(s)
    PROVE  GoodEp("kbd", KbdSend(s)) /\ KbdSend(s).enabled = s.enabled
BY DEF GoodEp, KbdSend, Run, RunOk, Armed, EndpointState

LEMMA KbdUpdateGood ==
    ASSUME NEW s \in EndpointState, GoodEp("kbd", s)
    PROVE  GoodEp("kbd", KbdUpdate(s)) /\ KbdUpdate(s).enabled = s.enabled
<1> DEFINE t == [s EXCEPT !.pending = TRUE]
<1>1. /\ t \in EndpointState
      /\ t.stall => ~t.busy /\ t.nack
      /\ t.enabled /\ t.owned => t.busy /\ Armed(t)
      /\ t.enabled = s.enabled
  BY DEF GoodEp, Armed, EndpointState
<1>2. QED
  BY <1>1, KbdSendGood DEF KbdUpdate

LEMMA InSendGood ==
    ASSUME NEW d \in {"jstk", "ledIn"}, NEW s \in EndpointState, GoodEp(d, s)
    PROVE  GoodEp(d, InSend(s)) /\ InSend(s).enabled = s.enabled
BY DEF GoodEp, InSend, Run, RunOk, Armed, EndpointState

\* The callback restores GoodEp from any idle, consistently halted endpoint:
\* the only thing that may be wrong with it is the flag of the driver.
LEMMA CallbackGood ==
    ASSUME NEW d \in Drivers, NEW s \in EndpointState, ~s.busy,
           s.stall => s.nack,
           s.pending => d = "kbd", s.owned => d # "ledOut"
    PROVE  GoodEp(d, Callback(d, s)) /\ Callback(d, s).enabled = s.enabled
<1> DEFINE idle == [s EXCEPT !.owned = FALSE]
<1>1. idle \in EndpointState /\ ~idle.busy /\ ~idle.owned
      /\ idle.enabled = s.enabled /\ idle.pending = s.pending
      /\ (idle.stall => idle.nack)
  BY DEF EndpointState
<1>2. CASE d = "kbd" /\ s.pending
  <2>1. GoodEp("kbd", KbdSend(idle)) /\ KbdSend(idle).enabled = s.enabled
    BY <1>1, KbdSendGood
  <2>2. Callback(d, s) = KbdSend(idle)
    BY <1>1, <1>2 DEF Callback, KbdReportSent, ReportInSent, ReportOutReceived
  <2>3. QED
    BY <1>2, <2>1, <2>2
<1>3. CASE d \in {"jstk", "ledIn"} \/ (d = "kbd" /\ ~s.pending)
  <2>1. Callback(d, s) = idle
    BY <1>1, <1>3 DEF Callback, KbdReportSent, ReportInSent, ReportOutReceived
  <2>2. GoodEp(d, idle)
    BY <1>1, <1>3 DEF GoodEp, EndpointState
  <2>3. QED
    BY <1>1, <2>1, <2>2
<1>4. CASE d = "ledOut"
  <2>1. GoodEp(d, s)
    BY <1>4 DEF GoodEp
  <2>2. Callback(d, s) = Run(s)
    BY <1>4 DEF Callback, KbdReportSent, ReportInSent, ReportOutReceived
  <2>3. QED
    BY <1>4, <2>1, <2>2, RunGood
<1>5. QED
  BY <1>2, <1>3, <1>4 DEF Drivers, EndpointState

LEMMA EndJobGood ==
    ASSUME NEW d \in Drivers, NEW s \in EndpointState, s.nack,
           s.pending => s.owned /\ d = "kbd", s.owned => d # "ledOut",
           s.enabled /\ s.owned => s.busy
    PROVE  GoodEp(d, EndJob(d, s)) /\ EndJob(d, s).enabled = s.enabled
<1>1. CASE s.busy
  <2> DEFINE t == [s EXCEPT !.busy = FALSE]
  <2>1. /\ t \in EndpointState /\ ~t.busy /\ t.enabled = s.enabled /\ t.nack
        /\ t.pending => d = "kbd"
        /\ t.owned => d # "ledOut"
    BY DEF EndpointState
  <2>2. QED
    BY <1>1, <2>1, CallbackGood DEF EndJob
<1>2. CASE ~s.busy
  BY <1>2 DEF EndJob, GoodEp, EndpointState
<1>3. QED
  BY <1>1, <1>2

LEMMA AbortGood ==
    ASSUME NEW d \in Drivers, NEW s \in EndpointState,
           s.pending => s.owned /\ d = "kbd", s.owned => d # "ledOut",
           s.enabled /\ s.owned => s.busy
    PROVE  GoodEp(d, Abort(d, s)) /\ Abort(d, s).enabled = s.enabled
<1> DEFINE t == [s EXCEPT !.nack = TRUE]
<1>1. /\ t \in EndpointState /\ t.enabled = s.enabled /\ t.nack
      /\ t.pending => t.owned /\ d = "kbd"
      /\ t.owned => d # "ledOut"
      /\ t.enabled /\ t.owned => t.busy
  BY DEF EndpointState
<1>2. QED
  BY <1>1, EndJobGood DEF Abort

LEMMA FreeGood ==
    ASSUME NEW d \in Drivers, NEW s \in EndpointState, GoodEp(d, s)
    PROVE  GoodEp(d, Free(d, s)) /\ ~Free(d, s).enabled
<1>1. GoodEp(d, Abort(d, s))
  BY AbortGood DEF GoodEp
<1>2. QED
  BY <1>1 DEF Free, GoodEp, EndpointState

LEMMA SetFeatureHaltGood ==
    ASSUME NEW d \in Drivers, NEW s \in EndpointState, GoodEp(d, s)
    PROVE  GoodEp(d, SetFeatureHalt(d, s)) /\ SetFeatureHalt(d, s).enabled = s.enabled
<1> DEFINE a == Abort(d, s)
           t == [a EXCEPT !.stall = TRUE]
<1>1. GoodEp(d, a) /\ a.enabled = s.enabled
  BY AbortGood DEF GoodEp
<1>2. /\ t \in EndpointState /\ t.enabled = s.enabled
      /\ t.pending => t.owned /\ d = "kbd"
      /\ t.owned => d # "ledOut"
      /\ t.enabled /\ t.owned => t.busy
  BY <1>1 DEF GoodEp, EndpointState
<1>3. QED
  BY <1>2, AbortGood DEF SetFeatureHalt, SetHalt

\* The job layer never takes the call_nohalt branch: the endpoint has no job.
LEMMA ClearHaltGood ==
    ASSUME NEW d \in Drivers, NEW s \in EndpointState, GoodEp(d, s)
    PROVE  /\ GoodEp(d, ClearHalt(d, s))
           /\ ClearHalt(d, s).enabled = s.enabled
           /\ s.stall => ClearHalt(d, s) = [s EXCEPT !.stall = FALSE]
BY DEF ClearHalt, EndJob, GoodEp, Armed, EndpointState

LEMMA TransCompleteGood ==
    ASSUME NEW d \in Drivers, NEW s \in EndpointState, GoodEp(d, s)
    PROVE  GoodEp(d, TransComplete(d, s)) /\ TransComplete(d, s).enabled = s.enabled
<1>1. TransComplete(d, s) = Abort(d, s)
  BY DEF TransComplete, Abort
<1>2. QED
  BY <1>1, AbortGood DEF GoodEp

LEMMA EnableGood ==
    ASSUME NEW d \in Drivers, NEW s \in EndpointState, GoodEp(d, s)
    PROVE  /\ GoodEp(d, DriverEnable(d, Alloc(s)))
           /\ DriverEnable(d, Alloc(s)).enabled
<1> DEFINE t == Alloc(s)
<1>1. /\ t \in EndpointState /\ t.enabled /\ ~t.stall
      /\ t.pending => d = "kbd"
      /\ t.owned => d # "ledOut"
  BY DEF Alloc, GoodEp, EndpointState
<1>2. CASE d = "ledOut"
  <2>1. GoodEp(d, t)
    BY <1>1, <1>2 DEF GoodEp
  <2>2. QED
    BY <1>1, <1>2, <2>1, RunGood DEF DriverEnable, KbdEnable, InEnable
<1>3. CASE d # "ledOut"
  BY <1>1, <1>3 DEF DriverEnable, KbdEnable, InEnable, GoodEp, EndpointState, Drivers
<1>4. QED
  BY <1>2, <1>3

\* An OUT endpoint that is armed stays armed through the end of its transfer:
\* its callback starts the next one.
LEMMA OutRearmed ==
    ASSUME NEW s \in EndpointState, s.enabled, ~s.stall, s.busy
    PROVE  /\ TransComplete("ledOut", s).busy
           /\ Armed(TransComplete("ledOut", s))
BY DEF TransComplete, EndJob, Callback, ReportOutReceived, Run, RunOk, Armed, EndpointState
-----------------------------------------------------------------------------
(***************************************************************************)
(* What the calls leave in the endpoint of a driver that sends.            *)
(***************************************************************************)
LEMMA RunFields ==
    ASSUME NEW s \in EndpointState
    PROVE  /\ Run(s) \in EndpointState
           /\ Run(s).enabled = s.enabled /\ Run(s).stall = s.stall
           /\ RunOk(s) => Run(s).busy /\ ~Run(s).nack
           /\ ~RunOk(s) => Run(s) = s
BY DEF Run, EndpointState

LEMMA SetFlags ==
    ASSUME NEW s \in EndpointState, NEW o \in BOOLEAN,
           NEW t, t = [s EXCEPT !.pending = FALSE, !.owned = o]
    PROVE  /\ t \in EndpointState
           /\ t.enabled = s.enabled /\ t.stall = s.stall
           /\ t.busy = s.busy /\ t.nack = s.nack
           /\ ~t.pending
           /\ t.owned <=> o
BY DEF EndpointState

\* A report that is sent is no longer pending; the driver waits for its
\* transfer if and only if there is one.
LEMMA KbdSendFields ==
    ASSUME NEW s \in EndpointState, ~s.owned
    PROVE  LET t == KbdSend(s)
           IN  /\ t \in EndpointState
               /\ t.enabled = s.enabled /\ t.stall = s.stall
               /\ ~t.pending
               /\ RunOk(s) => t.busy /\ t.owned /\ ~t.nack
               /\ ~RunOk(s) => t.busy = s.busy /\ ~t.owned /\ t.nack = s.nack
<1> DEFINE b == RunOk(s)
<1>1. b \in BOOLEAN
  BY DEF RunOk
<1>2. KbdSend(s) = [Run(s) EXCEPT !.pending = FALSE, !.owned = b]
  BY DEF KbdSend
<1>3. b <=> RunOk(s)
  OBVIOUS
<1> DEFINE r == Run(s)
           t == KbdSend(s)
<1>4. /\ r \in EndpointState
      /\ r.enabled = s.enabled /\ r.stall = s.stall
      /\ b => r.busy /\ ~r.nack
      /\ ~b => r = s
  BY <1>3, RunFields
<1>5. t = [r EXCEPT !.pending = FALSE, !.owned = b]
  BY <1>2
<1> SUFFICES /\ t \in EndpointState
             /\ t.enabled = s.enabled /\ t.stall = s.stall
             /\ ~t.pending
             /\ b => t.busy /\ t.owned /\ ~t.nack
             /\ ~b => t.busy = s.busy /\ ~t.owned /\ t.nack = s.nack
  BY <1>3
<1> HIDE DEF b, r, t
<1>6. /\ t \in EndpointState
      /\ t.enabled = r.enabled /\ t.stall = r.stall
      /\ t.busy = r.busy /\ t.nack = r.nack
      /\ ~t.pending
      /\ t.owned <=> b
  BY <1>1, <1>4, <1>5, SetFlags, Zenon
<1>7. QED
  BY <1>4, <1>6

\* An aborted transfer releases the driver; a waiting keyboard report goes out
\* at once, if the endpoint takes it, and is dropped if not.
LEMMA AbortFields ==
    ASSUME NEW d \in {"kbd", "jstk", "ledIn"}, NEW s \in EndpointState,
           s.pending => d = "kbd"
    PROVE  LET t == Abort(d, s)
           IN  /\ t \in EndpointState
               /\ t.enabled = s.enabled /\ t.stall = s.stall
               /\ ~s.busy => t = [s EXCEPT !.nack = TRUE]
               /\ s.busy => ~t.pending
               /\ s.busy /\ s.pending /\ s.enabled /\ ~s.stall
                     => t.busy /\ t.owned /\ ~t.nack
               /\ s.busy /\ ~(s.pending /\ s.enabled /\ ~s.stall)
                     => ~t.busy /\ ~t.owned /\ t.nack
<1> DEFINE u == [s EXCEPT !.nack = TRUE]
           v == [u EXCEPT !.busy = FALSE]
           w == [v EXCEPT !.owned = FALSE]
<1>1. /\ u \in EndpointState /\ v \in EndpointState /\ w \in EndpointState
      /\ u.busy = s.busy
  BY DEF EndpointState
<1>2. /\ w.enabled = s.enabled /\ w.stall = s.stall /\ w.pending = s.pending
      /\ ~w.busy /\ w.nack /\ ~w.owned
      /\ RunOk(w) <=> s.enabled /\ ~s.stall
  BY DEF EndpointState, RunOk
<1>3. CASE ~s.busy
  BY <1>1, <1>3 DEF Abort, EndJob, EndpointState
<1>4. CASE s.busy /\ ~s.pending
  <2>1. Abort(d, s) = w
    BY <1>1, <1>2, <1>4 DEF Abort, EndJob, Callback, KbdReportSent, ReportInSent
  <2>2. QED
    BY <1>1, <1>2, <1>4, <2>1
<1>5. CASE s.busy /\ s.pending
  <2>1. Abort(d, s) = KbdSend(w)
    BY <1>1, <1>2, <1>5 DEF Abort, EndJob, Callback, KbdReportSent, ReportInSent
  <2> HIDE DEF w
  <2>2. QED
    BY <1>1, <1>2, <1>5, <2>1, KbdSendFields
<1>6. QED
  BY <1>3, <1>4, <1>5

\* udi_hid_joystick_send_report_in, udi_hid_led_send_report_in.
LEMMA InSendFields ==
    ASSUME NEW s \in EndpointState
    PROVE  LET t == InSend(s)
           IN  /\ s.owned => t = s
               /\ t \in EndpointState
               /\ t.enabled = s.enabled /\ t.stall = s.stall
               /\ t.pending = s.pending
               /\ ~s.owned /\ RunOk(s) => t.busy /\ t.owned /\ ~t.nack
               /\ ~s.owned /\ ~RunOk(s) => t.busy = s.busy /\ ~t.owned /\ t.nack = s.nack
<1>1. CASE s.owned
  BY <1>1 DEF InSend
<1>2. CASE ~s.owned /\ RunOk(s)
  <2>1. InSend(s) = [[s EXCEPT !.busy = TRUE, !.nack = FALSE] EXCEPT !.owned = RunOk(s)]
    BY <1>2 DEF InSend, Run
  <2> DEFINE r == [s EXCEPT !.busy = TRUE, !.nack = FALSE]
             b == RunOk(s)
  <2>2. r \in EndpointState /\ r.enabled = s.enabled /\ r.stall = s.stall
        /\ r.pending = s.pending /\ r.busy /\ ~r.nack
    BY DEF EndpointState
  <2>3. b = TRUE
    BY <1>2 DEF RunOk
  <2> HIDE DEF r, b
  <2>4. InSend(s) = [r EXCEPT !.owned = TRUE]
    BY <2>1, <2>3 DEF r, b
  <2>5. QED
    BY <1>2, <2>2, <2>4 DEF EndpointState
<1>3. CASE ~s.owned /\ ~RunOk(s)
  <2>1. RunOk(s) = FALSE
    BY <1>3 DEF RunOk
  <2>2. InSend(s) = [s EXCEPT !.owned = FALSE]
    BY <1>3, <2>1 DEF InSend, Run
  <2>3. QED
    BY <1>3, <2>2 DEF EndpointState
<1>4. QED
  BY <1>1, <1>2, <1>3

\* udi_hid_kbd_down and the other calls that change the keyboard report.
LEMMA KbdUpdateFields ==
    ASSUME NEW s \in EndpointState
    PROVE  LET t == KbdUpdate(s)
           IN  /\ t \in EndpointState
               /\ t.enabled = s.enabled /\ t.stall = s.stall
               /\ s.owned => t.busy = s.busy /\ t.owned /\ t.pending /\ t.nack = s.nack
               /\ ~s.owned => ~t.pending
               /\ ~s.owned /\ RunOk(s) => t.busy /\ t.owned /\ ~t.nack
               /\ ~s.owned /\ ~RunOk(s) => t.busy = s.busy /\ ~t.owned /\ t.nack = s.nack
<1> DEFINE u == [s EXCEPT !.pending = TRUE]
<1>1. /\ u \in EndpointState /\ u.enabled = s.enabled /\ u.stall = s.stall
      /\ u.busy = s.busy /\ u.nack = s.nack /\ u.owned = s.owned /\ u.pending
      /\ RunOk(u) <=> RunOk(s)
  BY DEF EndpointState, RunOk
<1>2. KbdUpdate(s) = KbdSend(u)
  BY DEF KbdUpdate
<1> HIDE DEF u
<1>3. CASE s.owned
  <2>1. KbdSend(u) = u
    BY <1>1, <1>3 DEF KbdSend
  <2>2. QED
    BY <1>1, <1>2, <1>3, <2>1
<1>4. CASE ~s.owned
  BY <1>1, <1>2, <1>4, KbdSendFields
<1>5. QED
  BY <1>3, <1>4

\* udd_ep_free: a keyboard report that waits restarts the transfer on the
\* endpoint that is about to be disabled, and only that.
LEMMA FreeFields ==
    ASSUME NEW d \in {"kbd", "jstk", "ledIn"}, NEW s \in EndpointState,
           s.pending => d = "kbd" /\ s.owned
    PROVE  LET t == Free(d, s)
           IN  /\ t \in EndpointState
               /\ ~t.enabled /\ ~t.stall
               /\ t.pending => t.owned /\ d = "kbd"
               /\ t.busy => s.pending
<1> DEFINE a == Abort(d, s)
<1>1. /\ a \in EndpointState
      /\ a.pending => a.owned /\ d = "kbd"
      /\ a.busy => s.pending
  <2>1. /\ a \in EndpointState
        /\ ~s.busy => a = [s EXCEPT !.nack = TRUE]
        /\ s.busy => ~a.pending
        /\ s.busy /\ ~(s.pending /\ s.enabled /\ ~s.stall) => ~a.busy
    BY AbortFields
  <2> HIDE DEF a
  <2>2. CASE s.busy
    BY <2>1, <2>2
  <2>3. CASE ~s.busy
    <3>1. a.busy = s.busy /\ a.pending = s.pending /\ a.owned = s.owned
      BY <2>1, <2>3 DEF EndpointState
    <3>2. QED
      BY <2>1, <2>3, <3>1
  <2>4. QED
    BY <2>2, <2>3
<1>2. Free(d, s) = [a EXCEPT !.enabled = FALSE, !.stall = FALSE]
  BY DEF Free
<1> HIDE DEF a
<1>3. QED
  BY <1>1, <1>2 DEF EndpointState

\* A request to halt aborts twice: what the callback of the first abort starts
\* ends in the second one, on the stalled endpoint.
LEMMA SetFeatureHaltFields ==
    ASSUME NEW d \in {"kbd", "jstk", "ledIn"}, NEW s \in EndpointState,
           s.pending => d = "kbd" /\ s.owned
    PROVE  LET t == SetFeatureHalt(d, s)
           IN  /\ t \in EndpointState
               /\ t.enabled = s.enabled /\ t.stall /\ ~t.busy /\ t.nack
               /\ t.pending => t.owned /\ d = "kbd"
               /\ ~s.busy => t.owned = s.owned /\ t.pending = s.pending
<1> DEFINE a == Abort(d, s)
           u == [a EXCEPT !.stall = TRUE]
           t == Abort(d, u)
<1>1. /\ a \in EndpointState /\ a.enabled = s.enabled
      /\ a.pending => a.owned /\ d = "kbd"
      /\ ~s.busy => ~a.busy /\ a.owned = s.owned /\ a.pending = s.pending
  <2>1. ~s.busy => a = [s EXCEPT !.nack = TRUE]
    BY AbortFields
  <2>2. QED
    BY <2>1, AbortFields DEF EndpointState
<1> HIDE DEF a
<1>2. /\ u \in EndpointState /\ u.enabled = s.enabled /\ u.stall
      /\ u.pending => u.owned /\ d = "kbd"
      /\ ~s.busy => ~u.busy /\ u.owned = s.owned /\ u.pending = s.pending
  BY <1>1 DEF EndpointState
<1> HIDE DEF u
<1>3. /\ t \in EndpointState /\ t.enabled = u.enabled /\ t.stall
      /\ ~u.busy => t = [u EXCEPT !.nack = TRUE]
      /\ u.busy => ~t.busy /\ ~t.owned /\ t.nack /\ ~t.pending
  BY <1>2, AbortFields
<1> HIDE DEF t
<1>4. /\ t \in EndpointState /\ t.enabled = s.enabled /\ t.stall /\ ~t.busy /\ t.nack
      /\ t.pending => t.owned /\ d = "kbd"
      /\ ~s.busy => t.owned = s.owned /\ t.pending = s.pending
  BY <1>2, <1>3 DEF EndpointState
<1>5. SetFeatureHalt(d, s) = t
  BY DEF SetFeatureHalt, SetHalt, a, u, t
<1>6. QED
  BY <1>4, <1>5

\* udd_ep_alloc and the enable function of the driver leave a job as it is.
LEMMA EnableFields ==
    ASSUME NEW d \in {"kbd", "jstk", "ledIn"}, NEW s \in EndpointState,
           s.pending => d = "kbd"
    PROVE  LET t == DriverEnable(d, Alloc(s))
           IN  /\ t \in EndpointState
               /\ t.enabled /\ ~t.stall /\ t.nack /\ ~t.owned /\ ~t.pending
               /\ t.busy = s.busy
<1> DEFINE u == Alloc(s)
<1>1. /\ u \in EndpointState /\ u.enabled /\ ~u.stall /\ u.nack
      /\ u.busy = s.busy /\ u.pending = s.pending
  BY DEF Alloc, EndpointState
<1> HIDE DEF u
<1>2. CASE d = "kbd"
  BY <1>1, <1>2 DEF DriverEnable, KbdEnable, EndpointState, u
<1>3. CASE d # "kbd"
  BY <1>1, <1>3 DEF DriverEnable, InEnable, EndpointState, u
<1>4. QED
  BY <1>2, <1>3
=============================================================================
