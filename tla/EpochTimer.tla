----------------------------- MODULE EpochTimer -----------------------------
(***************************************************************************)
(* The epoch timer and its slots, dspic_src/timing/epoch_timer.c, with the *)
(* epoch pulse of epoch_output.c.  T2/T3 counts the epoch in hardware; its *)
(* interrupt restarts T4, which counts the slots (milliseconds) after it.  *)
(* A tick is the model's unit of time.  Interrupts may be held off for     *)
(* less than a slot by the foreground, and for longer than one by a flash  *)
(* operation, which stops the CPU (drivers/flash.c).                       *)
(*                                                                         *)
(* milliseconds is counted from the last epoch interrupt: it is only ever  *)
(* added to.  The probe of the output in mid-pulse is a diagnostic, and is *)
(* left out.                                                               *)
(***************************************************************************)
EXTENDS Integers

CONSTANTS SlotTicks,     \* EPOCH_SLOT_TICKS
          LowTicks,      \* 2^16, where TMR2, the low half of T2/T3, wraps
          Nominal,       \* TIMING_NOMINAL_TICKS
          Periods,       \* what the foreground may request
          MeasureSlot,   \* EPOCH_MEASURE_SLOT
          PulseEndSlot,  \* EPOCH_PULSE_END_SLOT
          Latency,       \* the longest interrupts are held off, but for flash
          Epochs         \* 2^32, where epoch_sequence wraps

ASSUME TimerAssumption ==
  /\ SlotTicks \in Nat \ {0, 1} /\ SlotTicks % 2 = 0
  /\ LowTicks \in SlotTicks + 1 .. 2 * SlotTicks
  /\ Periods \subseteq Nat \ {0} /\ Nominal \in Periods
  /\ \A p \in Periods : p > (PulseEndSlot + 1) * SlotTicks
  /\ MeasureSlot \in 1 .. PulseEndSlot /\ PulseEndSlot \in Nat
  /\ Latency \in 0 .. SlotTicks - 1
  /\ Epochs \in Nat \ {0, 1, 2}

VARIABLES hw,        \* the timers, their interrupt flags and the output
          sw,        \* what the handlers keep
          held,      \* ticks an interrupt has been waiting
          stalled,   \* ticks of the flash operation in progress, 0 if none
          epoch      \* of the interval now running: a history (below)

timerVars == <<hw, sw, held, stalled, epoch>>

NoPeriod == 0

\* count: T2/T3.  t4: TMR4.  output: OC1, "STUCK" if an epoch came while the
\* pulse had not been ended, so that there was no edge.
Hardware == [count : Nat, period : Periods, t4on : BOOLEAN, t4 : 0 .. SlotTicks - 1,
             t3if : BOOLEAN, t4if : BOOLEAN, output : {"ARMED", "HIGH", "STUCK"}]

Software == [slot : Nat, ms : Nat, sequence : 0 .. Epochs - 1, due : BOOLEAN,
             requested : Periods \cup {NoPeriod}]

\* What is expected of the interval now running: its length, and whether the
\* slots are in phase: not before the first epoch, nor in the epoch after a
\* stall that spanned its start.
Phases == {"STARTING", "GOOD", "SPANNED", "OUT"}
Interval == [length : Nat, phase : Phases]

-----------------------------------------------------------------------------
\* One tick of the hardware

Ticked(h) ==
  LET match == h.count + 1 >= h.period
      wrap  == h.t4on /\ h.t4 + 1 = SlotTicks
  IN  [h EXCEPT !.count  = IF match THEN 0 ELSE @ + 1,
                !.t4     = IF wrap THEN 0 ELSE IF h.t4on THEN @ + 1 ELSE @,
                !.t3if   = @ \/ match,
                !.t4if   = @ \/ wrap,
                !.output = IF ~match THEN @ ELSE IF @ = "ARMED" THEN "HIGH" ELSE "STUCK"]

Pending == hw.t3if \/ hw.t4if

\* Interrupts wait for Latency ticks at most, but for a flash operation.
TimePasses ==
  /\ stalled > 0 \/ ~Pending \/ held < Latency
  /\ hw' = Ticked(hw)
  /\ held' = IF Pending /\ stalled = 0 THEN held + 1 ELSE 0
  /\ stalled' = IF stalled > 0 THEN stalled + 1 ELSE 0
  /\ UNCHANGED <<sw, epoch>>

-----------------------------------------------------------------------------
\* Interrupt handlers

\* restart_scheduler(): the boundaries to count, by where T4 stood at the epoch.
RestartTwice(h) ==    \* mutant: a boundary held off across the epoch is forgotten
  LET low   == h.count % LowTicks
      since == IF low >= SlotTicks THEN SlotTicks - 1 ELSE low
      after == h.t4 < since
      stood == IF after THEN h.t4 + SlotTicks - since ELSE h.t4 - since
  IN  [since |-> since,
       boundaries |-> IF ~h.t4on THEN 1
                      ELSE IF stood >= SlotTicks \div 2 THEN 1 ELSE 0]

RestartScheduler(h) ==
  LET low   == h.count % LowTicks
      since == IF low >= SlotTicks THEN SlotTicks - 1 ELSE low
      after == h.t4 < since
      stood == IF after THEN h.t4 + SlotTicks - since ELSE h.t4 - since
  IN  [since |-> since,
       boundaries |-> IF ~h.t4on THEN 1
                      ELSE (IF h.t4if /\ ~after THEN 1 ELSE 0)
                           + (IF stood >= SlotTicks \div 2 THEN 1 ELSE 0)]

\* load_period()
Loaded(h, s) == IF s.requested = NoPeriod THEN h.period ELSE s.requested

\* _T3Interrupt(): wins a tie with T4.
T3Interrupt ==
  LET restart == RestartScheduler(hw)
      period  == Loaded(hw, sw)
  IN  /\ stalled = 0 /\ hw.t3if
      /\ hw' = [hw EXCEPT !.t3if = FALSE, !.t4if = FALSE, !.t4on = TRUE,
                          !.t4 = restart.since, !.period = period]
      /\ sw' = [sw EXCEPT !.slot = 0, !.ms = 0, !.requested = NoPeriod,
                          !.sequence = (@ + 1) % Epochs]
      /\ held' = 0
      /\ epoch' = [length |-> period,
                   phase |-> IF epoch.phase = "SPANNED" THEN "OUT" ELSE "GOOD"]
      /\ UNCHANGED stalled

\* advance_slot(), n times: the millisecond, and whatever happens at each slot.
Advanced(h, s, n) ==
  LET slots == s.slot + 1 .. s.slot + n
  IN  [hw |-> [h EXCEPT !.output = IF PulseEndSlot \in slots THEN "ARMED" ELSE @],
       sw |-> [s EXCEPT !.ms = @ + n, !.slot = @ + n,
                        !.due = @ \/ MeasureSlot \in slots]]

\* _T4Interrupt()
T4Interrupt ==
  LET done == Advanced([hw EXCEPT !.t4if = FALSE], sw, 1)
  IN  /\ stalled = 0 /\ hw.t4if /\ ~hw.t3if
      /\ hw' = done.hw /\ sw' = done.sw
      /\ held' = 0
      /\ UNCHANGED <<stalled, epoch>>

\* The milliseconds the epoch interrupt finds counted when it is done: those
\* of the slots, and the boundaries it adds itself.
Counted == sw.ms + RestartScheduler(hw).boundaries

-----------------------------------------------------------------------------
\* A flash operation: run_operation() stops the CPU, and calls the resume hook.

FlashStarts ==
  /\ stalled = 0
  /\ stalled' = 1
  /\ UNCHANGED <<hw, sw, held, epoch>>

\* epoch_timer_resume()
Resumed(h, s) ==
  IF h.t3if THEN [hw |-> h, sw |-> s]
  ELSE LET slot == h.count \div SlotTicks
       IN  Advanced([h EXCEPT !.t4 = h.count % SlotTicks, !.t4if = FALSE], s,
                    IF slot > s.slot THEN slot - s.slot ELSE 0)

FlashEnds ==
  LET done == Resumed(hw, sw)
  IN  /\ stalled > 0
      /\ hw' = done.hw /\ sw' = done.sw
      /\ stalled' = 0 /\ held' = 0
      /\ epoch' = IF hw.t3if THEN [epoch EXCEPT !.phase = "SPANNED"] ELSE epoch

-----------------------------------------------------------------------------
\* epoch_timer_init(): T4 is started by the first epoch.
TimerInit ==
  /\ hw = [count |-> 0, period |-> Nominal, t4on |-> FALSE, t4 |-> 0,
           t3if |-> FALSE, t4if |-> FALSE, output |-> "ARMED"]
  /\ sw = [slot |-> 0, ms |-> 0, sequence |-> 0, due |-> FALSE, requested |-> NoPeriod]
  /\ held = 0 /\ stalled = 0
  /\ epoch = [length |-> Nominal, phase |-> "STARTING"]

-----------------------------------------------------------------------------
\* Properties

\* The slot is the time since the epoch, whatever the latency of the handlers
\* and whatever flash operations there were: only a stall across an epoch puts
\* it out, and only until the next (epoch_timer.h: "it cannot drift for longer
\* than one second").
SlotIsElapsed ==
  epoch.phase = "GOOD" /\ ~Pending /\ stalled = 0 =>
    /\ sw.slot = hw.count \div SlotTicks
    /\ hw.t4 = hw.count % SlotTicks

\* Each epoch counts its length in milliseconds, rounded to the nearest, never
\* one more or less for an interrupt that was late or a boundary that fell on
\* the epoch (epoch_timer.h: "exactly 1000 per epoch while tracking").
MillisecondsRound ==
  hw.t3if /\ stalled = 0 /\ epoch.phase = "GOOD" =>
    Counted = (epoch.length + SlotTicks \div 2) \div SlotTicks

\* Every epoch has its edge: the pulse of the one before is always over and the
\* output armed again in time, also in an interval shortened or lengthened to
\* make a step (epoch_output_end).
EdgeEveryEpoch == hw.output # "STUCK"

\* What the rest of the clock reads of the timers is what they have counted.
TimerSound == SlotIsElapsed /\ MillisecondsRound /\ EdgeEveryEpoch
=============================================================================
