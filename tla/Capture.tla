------------------------------ MODULE Capture ------------------------------
(***************************************************************************)
(* The capture of the PPS inputs: dspic_src/timing/pps_capture.c (the      *)
(* capture pair, routed to one input at a time), pps_monitor.c (the change *)
(* interrupt that watches both) and the pairing of the two by              *)
(* source_edge.c.  The change interrupt may be overtaken by an edge at any *)
(* of its steps, the capture interrupt by the epoch timer's that takes the *)
(* snapshot; routing is the foreground's.                                  *)
(*                                                                         *)
(* now is the capture timebase.  The pair of captures on the epoch output  *)
(* is read as this one is, and is left out; so are the statistics.         *)
(***************************************************************************)
EXTENDS Integers, Sequences

CONSTANTS PpsInputs,      \* PpsInput
          FirstInput,     \* PPS_INPUT_GNSS
          AlignAttempts,  \* PPS_CAPTURE_ALIGN_ATTEMPTS
          AlignTolerance, \* PPS_CAPTURE_ALIGN_TOLERANCE
          Offsets,        \* what an alignment may leave between the two pairs
          PairTicks,      \* SOURCE_EDGE_PAIR_TICKS
          PeriodLimits,   \* PERIOD_LIMIT_LOWER .. PERIOD_LIMIT_UPPER
          PulseTicks,     \* a pulse stays high for this long
          Apart,          \* and the next rises this much later, if it does
          RisePhases,     \* when in that time each input may rise
          Delay,          \* the longest an edge waits for its interrupts
          CaptureWrap,    \* 2^16, where the lower timer of the cascade wraps
          Every,          \* the ticks from one snapshot to the next
          MaxRoutes,      \* the bound on changes of route
          LastTick        \* the bound on now

ASSUME CaptureAssumption ==
  /\ FirstInput \in PpsInputs /\ AlignAttempts \in Nat \ {0, 1, 2}
  /\ AlignTolerance \in Nat /\ Offsets \subseteq Int /\ PeriodLimits \subseteq Nat
  /\ PulseTicks \in Nat /\ Apart \in Nat /\ Delay \in Nat /\ PairTicks \in Nat
  /\ CaptureWrap \in Nat \ {0} /\ Every \in Nat \ {0}
  /\ RisePhases \subseteq [PpsInputs -> 0 .. Apart - 1]
  /\ LastTick \in Nat \ {0} /\ MaxRoutes \in Nat
  /\ Delay < PulseTicks /\ PulseTicks < Apart /\ PairTicks < PulseTicks

VARIABLES now,      \* the timebase
          pins,     \* the level of each input, when it last rose and may rise
          watches,  \* watches[]
          change,   \* the change interrupt: its flag, its step, what it has read
          pair,     \* the capture pair on the reference input
          reading,  \* the step of the capture interrupt
          align,    \* pps_capture_init()
          snapshot  \* the latest snapshot, and the edge it was of

captureVars == <<now, pins, watches, change, pair, reading, align, snapshot>>

NoTime == 0 - LastTick

\* valid: new since the last snapshot.  edge and before: when the edge counted, and the one before it, truly rose.
NewWatch == [high |-> FALSE, stamp |-> 0, valid |-> FALSE,
             edge |-> NoTime, before |-> NoTime]
NewAlign == [attempts |-> 0, offset |-> 0, captured |-> FALSE, steady |-> 0,
             done |-> FALSE, valid |-> FALSE, correction |-> 0]
NewPair  == [routes |-> 0, input |-> FirstInput, buffer |-> <<>>, stamp |-> 0, stampValid |-> FALSE,
             previous |-> 0, previousValid |-> FALSE, period |-> 0, periodValid |-> FALSE]
NoSample == [at |-> 0, captured |-> FALSE, late |-> 0, long |-> 0]

-----------------------------------------------------------------------------
\* Set-up

\* The end of pps_capture_init(): aligned at the last attempt, or steadily off.
Trust(a) ==
  LET near == a.offset \in 0 - AlignTolerance .. AlignTolerance
      corrected == ~a.valid /\ a.captured /\ a.steady >= 2 /\ near
  IN  [NewAlign EXCEPT !.done = TRUE, !.offset = a.offset, !.valid = a.valid \/ corrected,
                !.correction = IF corrected THEN a.offset ELSE 0]

\* align_and_check(), and what pps_capture_init() makes of it.  A stamp left
\* at its initial value makes an offset of one.
AlignAndCheck(captured, measured) ==
  LET offset == IF captured THEN measured ELSE 1
      a == [align EXCEPT !.attempts = @ + 1, !.offset = offset, !.captured = captured,
                         !.valid = captured /\ offset = 0,
                         !.steady = IF captured /\ align.captured /\ offset = align.offset
                                    THEN @ + 1 ELSE 0]
  IN  /\ ~align.done
      /\ align' = IF a.valid \/ a.attempts = AlignAttempts THEN Trust(a) ELSE a
      /\ UNCHANGED <<now, pins, watches, change, pair, reading, snapshot>>

-----------------------------------------------------------------------------
\* The inputs, and the hardware that sees them

Seen(i) == watches[i].high = pins[i].high

\* An edge waits for its interrupts no longer than Delay.
TimerTicks ==
  /\ align.done /\ now < LastTick
  /\ \A i \in PpsInputs :
       /\ ~Seen(i) /\ pins[i].high => now - pins[i].rose < Delay
       /\ pins[i].high => now - pins[i].rose < PulseTicks
  /\ pair.buffer # <<>> \/ reading # "IDLE" => now - pins[pair.input].rose < Delay
  /\ now' = now + 1
  /\ UNCHANGED <<pins, watches, change, pair, reading, align, snapshot>>

\* What the pair captures, with the offset it was left with.  The upper timer
\* counts one cycle after the lower one wraps (erratum 31).
Captured(p) ==
  LET at == now + align.offset
      low == at % CaptureWrap
  IN  [p EXCEPT !.buffer = Append(@, <<low, (at \div CaptureWrap) - (IF low = 0 THEN 1 ELSE 0)>>)]

InputRises(i) ==
  /\ align.done /\ ~pins[i].high /\ Seen(i) /\ now # pins[i].rose /\ now % Apart = pins[i].phase
  /\ pins' = [pins EXCEPT ![i].high = TRUE, ![i].rose = now]
  /\ change' = [change EXCEPT !.flag = TRUE]
  /\ pair' = IF i = pair.input THEN Captured(pair) ELSE pair
  /\ UNCHANGED <<now, watches, reading, align, snapshot>>

InputFalls(i) ==
  /\ pins[i].high /\ Seen(i) /\ now - pins[i].rose >= PulseTicks
  /\ pins' = [pins EXCEPT ![i].high = FALSE]
  /\ change' = [change EXCEPT !.flag = TRUE]
  /\ UNCHANGED <<now, watches, pair, reading, align, snapshot>>

-----------------------------------------------------------------------------
\* _CNInterrupt(), step by step

ChangeEnters ==
  /\ change.step = "IDLE" /\ change.flag
  /\ change' = [change EXCEPT !.step = "STAMP", !.flag = FALSE]
  /\ UNCHANGED <<now, pins, watches, pair, reading, align, snapshot>>

ChangeStamps ==
  /\ change.step = "STAMP"
  /\ change' = [change EXCEPT !.step = "READ", !.stamp = now]
  /\ UNCHANGED <<now, pins, watches, pair, reading, align, snapshot>>

\* The pins are read one after the other.
ChangeReads(i) ==
  /\ change.step = "READ" /\ i \in PpsInputs \ DOMAIN change.read
  /\ change' = [change EXCEPT
                  !.read = [j \in DOMAIN @ \cup {i} |->
                              IF j = i THEN pins[i].high ELSE change.read[j]],
                  !.step = IF PpsInputs = DOMAIN change.read \cup {i} THEN "COMPARE" ELSE @]
  /\ UNCHANGED <<now, pins, watches, pair, reading, align, snapshot>>

\* rising_edge(): counted, stamped and new.
RisingEdge(w, i) ==
  [w EXCEPT !.stamp = change.stamp, !.valid = TRUE, !.edge = pins[i].rose, !.before = w.edge]

\* Once more round, until nothing has changed.
ComparesOnce ==       \* mutant: the flag is cleared after the pins are read, once
  /\ change.step = "COMPARE"
  /\ watches' = [i \in PpsInputs |->
       LET w == [watches[i] EXCEPT !.high = change.read[i]]
       IN  IF change.read[i] /\ ~watches[i].high THEN RisingEdge(w, i) ELSE w]
  /\ change' = [change EXCEPT !.step = "IDLE", !.flag = FALSE]
  /\ UNCHANGED <<now, pins, pair, reading, align, snapshot>>

ChangeCompares ==
  /\ change.step = "COMPARE"
  /\ watches' = [i \in PpsInputs |->
       LET w == [watches[i] EXCEPT !.high = change.read[i]]
       IN  IF change.read[i] /\ ~watches[i].high THEN RisingEdge(w, i) ELSE w]
  /\ change' = [change EXCEPT !.stamp = 0, !.read = <<>>,
                  !.step = IF \E i \in PpsInputs : change.read[i] # watches[i].high
                           THEN "STAMP" ELSE "IDLE"]
  /\ UNCHANGED <<now, pins, pair, reading, align, snapshot>>

-----------------------------------------------------------------------------
\* join_cascade()
JoinCascade(low, high) == ((IF low = 0 THEN high + 1 ELSE high) * CaptureWrap) + low

\* _IC1Interrupt(): the period, then the stamp, then that it is valid.  The
\* change interrupt has a higher priority, and the epoch timer's a higher yet.

Masked == change.flag \/ change.step # "IDLE"

CaptureEnters ==
  LET capture == JoinCascade(Head(pair.buffer)[1], Head(pair.buffer)[2]) - align.correction
      period  == capture - pair.previous
  IN  /\ reading = "IDLE" /\ pair.buffer # <<>> /\ ~Masked
      /\ pair' = IF ~pair.previousValid THEN pair
                 ELSE [pair EXCEPT !.periodValid = period \in PeriodLimits,
                                   !.period = IF period \in PeriodLimits THEN period ELSE @]
      /\ reading' = "STAMP"
      /\ UNCHANGED <<now, pins, watches, change, align, snapshot>>

CaptureStamps ==
  LET capture == JoinCascade(Head(pair.buffer)[1], Head(pair.buffer)[2]) - align.correction
  IN  /\ reading = "STAMP" /\ ~Masked
      /\ pair' = [pair EXCEPT !.previous = capture, !.previousValid = TRUE, !.stamp = capture,
                              !.buffer = Tail(@)]
      /\ reading' = "VALID"
      /\ UNCHANGED <<now, pins, watches, change, align, snapshot>>

CaptureIsValid ==
  /\ reading = "VALID" /\ ~Masked
  /\ pair' = [pair EXCEPT !.stampValid = align.valid]
  /\ reading' = "IDLE"
  /\ UNCHANGED <<now, pins, watches, change, align, snapshot>>

\* pps_capture_route(), with interrupts masked.  The new pin being high is an
\* edge to the capture.
RouteInput(i) ==
  /\ align.done /\ i # pair.input /\ pair.routes < MaxRoutes
  /\ change.step = "IDLE" /\ reading = "IDLE"
  /\ pair' = [pair EXCEPT !.routes = @ + 1, !.input = i, !.buffer = <<>>, !.previousValid = FALSE,
                          !.periodValid = FALSE, !.stampValid = FALSE]
  /\ UNCHANGED <<now, pins, watches, change, reading, align, snapshot>>

-----------------------------------------------------------------------------
\* timing_snapshot(): pps_capture_sample() and pps_monitor_sample(), at the
\* measurement slot, and source_edge_latency() of what they took.  What is kept
\* of it is how far the capture is from the edge watched, and the valid period
\* from the time since the edge before.

ReadLatency(i) == watches[i].stamp - pair.stamp

Paired(i) ==
  watches[i].valid /\ pair.stampValid /\ ReadLatency(i) \in 0 .. PairTicks

Sample ==
  LET i == pair.input
  IN  /\ align.done
      /\ now % Every = 0 /\ now # snapshot.at
      /\ snapshot' = IF ~Paired(i) THEN [NoSample EXCEPT !.at = now]
                    ELSE [at |-> now, captured |-> TRUE,
                          late |-> pair.stamp - watches[i].edge,
                          long |-> IF pair.periodValid
                                   THEN pair.period - (watches[i].edge - watches[i].before)
                                   ELSE 0]
      /\ pair' = [pair EXCEPT !.stampValid = FALSE]
      /\ watches' = [j \in PpsInputs |-> [watches[j] EXCEPT !.valid = FALSE]]
      /\ UNCHANGED <<now, pins, change, reading, align>>

-----------------------------------------------------------------------------
\* The whole

\* pps_monitor_init() and the statics; the alignment comes first.
CaptureInit ==
  /\ now = 0
  /\ \E phase \in RisePhases :
       pins = [i \in PpsInputs |-> [high |-> FALSE, rose |-> NoTime, phase |-> phase[i]]]
  /\ watches = [i \in PpsInputs |-> NewWatch]
  /\ change = [flag |-> FALSE, step |-> "IDLE", stamp |-> 0, read |-> <<>>]
  /\ pair = NewPair /\ reading = "IDLE" /\ align = NewAlign /\ snapshot = NoSample

CaptureNext ==
  \/ \E captured \in BOOLEAN, measured \in Offsets : AlignAndCheck(captured, measured)
  \/ TimerTicks
  \/ \E i \in PpsInputs : InputRises(i) \/ InputFalls(i) \/ ChangeReads(i) \/ RouteInput(i)
  \/ ChangeEnters \/ ChangeStamps \/ ChangeCompares
  \/ CaptureEnters \/ CaptureStamps \/ CaptureIsValid
  \/ Sample

CaptureSpec == CaptureInit /\ [][CaptureNext]_captureVars

-----------------------------------------------------------------------------
\* Properties

\* Once the change interrupt has returned and is not pending, every level has
\* been seen: no edge is lost behind one on the other pin (pps_monitor.c).
EveryEdgeSeen == change.step = "IDLE" /\ ~change.flag => \A i \in PpsInputs : Seen(i)

\* A snapshot taken as captured holds the time of the very edge that was
\* watched, whatever was routed, aligned or half read when it was taken; and a
\* period that is valid with it goes back to the edge before on the same input.
CapturedIsOfEdge ==
  snapshot.captured => snapshot.late = 0 /\ snapshot.long = 0

\* The two together: what the inputs do reaches the snapshot as it was.
EdgesReachSnapshot == EveryEdgeSeen /\ CapturedIsOfEdge
=============================================================================
