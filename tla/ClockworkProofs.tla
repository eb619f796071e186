-------------------------- MODULE ClockworkProofs ---------------------------
(***************************************************************************)
(* Proofs about what happens within the second: the epoch timer, the       *)
(* scheduler over it, the UTC counted in its epochs, the capture of the    *)
(* edges they are compared with, and the RTC that is set to its seconds.   *)
(***************************************************************************)
EXTENDS Scheduler, Utc, Capture, Rtc, TLAPS

-----------------------------------------------------------------------------
\* Slots and ticks

Span(n) == n * SlotTicks

LEMMA TickTypes ==
  /\ SlotTicks \in Nat /\ SlotTicks > 1
  /\ Latency \in Nat /\ Latency < SlotTicks
  /\ PulseEndSlot \in Nat /\ MeasureSlot \in Nat
  /\ MeasureSlot > 0 /\ MeasureSlot <= PulseEndSlot
  /\ FlashTicks \in Nat /\ FlashTicks > 0 /\ PassTicks \in Nat /\ LastSlot \in Nat
BY TimerAssumption, TaskAssumption

LEMMA PeriodTypes ==
  ASSUME NEW p \in Periods
  PROVE  /\ p \in Nat
         /\ p > 2 * Latency + 2 * FlashTicks + PassTicks + 1
         /\ p > (PulseEndSlot + 1) * SlotTicks + 2 * Latency + 2 * FlashTicks + 1
BY TimerAssumption, PassAssumption

LEMMA EpochTypes == Epochs \in Nat /\ Epochs > 2
BY TimerAssumption

LEMMA TaskTypes ==
  /\ Store \in Nat /\ Store > 0 /\ Tasks = 1 .. Store /\ Store \in Tasks
  /\ \A task \in Tasks : TaskSlots[task] \in 1 .. LastSlot
BY TaskAssumption DEF Store, Tasks

LEMMA SpanNext ==
  ASSUME NEW n \in Nat
  PROVE  Span(n) \in Nat /\ Span(n + 1) = Span(n) + SlotTicks
BY TickTypes DEF Span

LEMMA SpanGrows ==
  ASSUME NEW n \in Nat, NEW m \in Nat
  PROVE  n <= m <=> Span(n) <= Span(m)
<1>1. ASSUME n <= m
      PROVE  Span(n) <= Span(m)
  <2>1. (m - n) * SlotTicks >= 0
    BY <1>1, TickTypes
  <2>2. m * SlotTicks = n * SlotTicks + (m - n) * SlotTicks
    BY TickTypes
  <2> QED
    BY <2>1, <2>2, TickTypes DEF Span
<1>2. ASSUME m < n
      PROVE  Span(m) < Span(n)
  <2>1. (n - m) * SlotTicks > 0
    BY <1>2, TickTypes
  <2>2. n * SlotTicks = m * SlotTicks + (n - m) * SlotTicks
    BY TickTypes
  <2> QED
    BY <2>1, <2>2, TickTypes DEF Span
<1> QED
  BY <1>1, <1>2, SpanNext

\* A count of ticks is a whole number of slots and some more.
LEMMA Slots ==
  ASSUME NEW c \in Nat
  PROVE  /\ c \div SlotTicks \in Nat /\ c % SlotTicks \in 0 .. SlotTicks - 1
         /\ c = Span(c \div SlotTicks) + (c % SlotTicks)
BY TickTypes DEF Span

LEMMA SlotsUnique ==
  ASSUME NEW n \in Nat, NEW r \in 0 .. SlotTicks - 1
  PROVE  /\ (Span(n) + r) \div SlotTicks = n
         /\ (Span(n) + r) % SlotTicks = r
<1> DEFINE c == Span(n) + r
           q == c \div SlotTicks
           m == c % SlotTicks
<1>1. Span(n) \in Nat /\ c \in Nat /\ c = Span(n) + r
  BY SpanNext, TickTypes
<1>2. q \in Nat /\ m \in 0 .. SlotTicks - 1 /\ c = Span(q) + m
  BY <1>1, Slots
<1> HIDE DEF c, q, m
<1>3. Span(q) \in Nat /\ Span(n + 1) = Span(n) + SlotTicks
      /\ Span(q + 1) = Span(q) + SlotTicks
  BY <1>2, SpanNext
<1>4. ~(n + 1 <= q)
  BY <1>1, <1>2, <1>3, SpanGrows, TickTypes
<1>5. ~(q + 1 <= n)
  BY <1>1, <1>2, <1>3, SpanGrows, TickTypes
<1>6. q = n
  BY <1>2, <1>4, <1>5
<1>7. m = r
  BY <1>1, <1>2, <1>6
<1> QED
  BY <1>6, <1>7 DEF c, q, m

LEMMA TickMod ==
  ASSUME NEW c \in Nat
  PROVE  (c + 1) % SlotTicks = IF (c % SlotTicks) + 1 = SlotTicks THEN 0
                               ELSE (c % SlotTicks) + 1
<1> DEFINE n == c \div SlotTicks
           r == c % SlotTicks
<1>1. n \in Nat /\ r \in 0 .. SlotTicks - 1 /\ c = Span(n) + r
  BY Slots
<1> HIDE DEF n, r
<1>2. CASE r + 1 = SlotTicks
  <2> Span(n) \in Nat /\ Span(n + 1) = Span(n) + SlotTicks
    BY <1>1, SpanNext
  <2>1. c + 1 = Span(n + 1) + 0
    BY <1>1, <1>2, TickTypes
  <2>2. n + 1 \in Nat /\ 0 \in 0 .. SlotTicks - 1
    BY <1>1, TickTypes
  <2> QED
    BY <1>2, <2>1, <2>2, SlotsUnique DEF r
<1>3. CASE r + 1 # SlotTicks
  <2>1. r + 1 \in 0 .. SlotTicks - 1 /\ c + 1 = Span(n) + (r + 1)
    BY <1>1, <1>3, SpanNext, TickTypes
  <2> QED
    BY <1>1, <1>3, <2>1, SlotsUnique DEF r
<1> QED
  BY <1>2, <1>3

\* Epochs are counted modulo Epochs, of which there are more than two.
LEMMA EpochAfter ==
  ASSUME NEW e \in 0 .. Epochs - 1
  PROVE  /\ (e + 1) % Epochs \in 0 .. Epochs - 1
         /\ (e + 1) % Epochs = IF e = Epochs - 1 THEN 0 ELSE e + 1
<1>1. CASE e = Epochs - 1
  BY <1>1, EpochTypes
<1>2. CASE e # Epochs - 1
  BY <1>2, EpochTypes
<1> QED
  BY <1>1, <1>2

-----------------------------------------------------------------------------
\* What always holds of the timers and of the pass over them

SlotTime == Span(sw.slot) + hw.t4 + (IF hw.t4if THEN SlotTicks ELSE 0)
Late     == 2 * Latency + FlashTicks
Elapsed  == IF stalled > 0 THEN stalled - 1 ELSE 0
Phase(p) == epoch.phase = p

TypeInv ==
  /\ hw \in Hardware /\ sw \in Software /\ epoch \in Interval
  /\ held \in 0 .. Latency /\ stalled \in 0 .. FlashTicks + 1
  /\ pass \in Pass /\ last \in [Tasks -> 0 .. Epochs - 1] /\ record \in Record

\* Until the first epoch T4 stands still, and there is nothing to do.
StartInv ==
  /\ Phase("STARTING") <=> ~hw.t4on
  /\ Phase("STARTING") =>
       /\ hw.t4 = 0 /\ ~hw.t4if /\ sw.slot = 0 /\ ~sw.due /\ sw.sequence = 0
       /\ hw.output = "ARMED" \/ hw.t3if
       /\ stalled = 0 /\ ~pass.writing /\ pass.slot = 0 /\ pass.epoch = 0

\* How long an interrupt has waited bounds what its timer has counted since.
WaitInv ==
  /\ stalled = 0 /\ hw.t4if /\ ~Phase("SPANNED") => hw.t4 <= held
  /\ stalled = 0 /\ hw.t3if /\ ~Phase("SPANNED") => hw.count <= held
  /\ stalled > 0 /\ hw.t3if => hw.count <= Latency + Elapsed
  /\ Phase("SPANNED") =>
       hw.t3if /\ stalled = 0 /\ hw.count <= Latency + FlashTicks + held
  /\ hw.count < hw.period

\* The slots are in phase with the epoch, or behind it by what a stall left.
SlotInv ==
  /\ sw.ms = sw.slot /\ epoch.length = hw.period
  /\ Phase("GOOD") /\ stalled = 0 /\ ~hw.t3if => SlotTime = hw.count
  /\ Phase("GOOD") /\ stalled = 0 /\ hw.t3if =>
       SlotTime = epoch.length + hw.count /\ (hw.t4 < hw.count => hw.t4if)
  /\ Phase("GOOD") /\ stalled > 0 /\ ~hw.t3if => hw.t4 = hw.count % SlotTicks
  /\ Phase("OUT") /\ stalled = 0 /\ ~hw.t3if =>
       SlotTime <= hw.count /\ hw.count <= SlotTime + Late
  /\ stalled > 0 /\ ~hw.t3if => Span(sw.slot) <= hw.count

\* The pulse is over in time.
PulseInv ==
  /\ hw.output # "STUCK"
  /\ hw.output = "HIGH" /\ ~hw.t3if =>
       /\ sw.slot < PulseEndSlot
       /\ stalled > 0 => hw.count <= Span(PulseEndSlot + 1) + Late + Elapsed

\* A pass has read this epoch or, early in this one, the last; so there is one
\* write at most before the end of an epoch is dealt with.
InPass == pass.at > 0 \/ pass.writing

PassInv ==
  /\ stalled > 0 => pass.writing
  /\ pass.writing => pass.at = 0 /\ last[Store] = pass.epoch
  /\ InPass /\ pass.epoch # sw.sequence =>
       ~hw.t3if /\ hw.count <= Late + pass.ticks + Elapsed
  /\ InPass => pass.epoch = sw.sequence \/ Follows(sw.sequence, pass.epoch)
  /\ Phase("SPANNED") => /\ ~pass.writing /\ last[Store] = sw.sequence
                         /\ pass.at > 0 => pass.epoch = sw.sequence

LoopInv == TypeInv /\ StartInv /\ WaitInv /\ SlotInv /\ PulseInv /\ PassInv

\* Initially
LEMMA LoopInvInit ==
  SchedulerInit => LoopInv
<1> SUFFICES ASSUME SchedulerInit
             PROVE  LoopInv
  OBVIOUS
<1> USE TickTypes, EpochTypes, TaskTypes DEF SchedulerInit, TimerInit
<1>1. Nominal \in Periods /\ Nominal \in Nat /\ Nominal > 0
  BY TimerAssumption
<1>2. TypeInv
  BY <1>1 DEF TypeInv, Hardware, Software, Interval, Phases, Pass, Record, NoPeriod
<1>3. StartInv
  BY DEF StartInv, Phase
<1>4. WaitInv
  BY <1>1 DEF WaitInv, Phase
<1>5. SlotInv
  BY DEF SlotInv, Phase
<1>6. PulseInv
  BY DEF PulseInv
<1>7. PassInv
  BY DEF PassInv, InPass, Phase
<1> QED
  BY <1>2, <1>3, <1>4, <1>5, <1>6, <1>7 DEF LoopInv

\* What one tick does, field by field.
LEMMA TickStep ==
  ASSUME TypeInv, Tick
  PROVE  /\ sw' = sw /\ epoch' = epoch /\ last' = last /\ record' = record
         /\ pass'.epoch = pass.epoch /\ pass'.slot = pass.slot /\ pass'.at = pass.at
         /\ (pass'.writing <=> pass.writing)
         /\ pass'.ticks = IF stalled > 0 THEN pass.ticks ELSE pass.ticks + 1
         /\ stalled' = IF stalled > 0 THEN stalled + 1 ELSE 0
         /\ held' = IF Pending /\ stalled = 0 THEN held + 1 ELSE 0
         /\ hw'.period = hw.period /\ (hw'.t4on <=> hw.t4on)
         /\ hw.count + 1 < hw.period =>
              /\ hw'.count = hw.count + 1 /\ (hw'.t3if <=> hw.t3if)
              /\ hw'.output = hw.output
         /\ hw.count + 1 >= hw.period =>
              /\ hw'.count = 0 /\ hw'.t3if
              /\ hw'.output = IF hw.output = "ARMED" THEN "HIGH" ELSE "STUCK"
         /\ hw'.t4 = IF ~hw.t4on THEN hw.t4
                     ELSE IF hw.t4 + 1 = SlotTicks THEN 0 ELSE hw.t4 + 1
         /\ hw'.t4if <=> hw.t4if \/ (hw.t4on /\ hw.t4 + 1 = SlotTicks)
<1> DEFINE match == hw.count + 1 >= hw.period
           wrap  == hw.t4on /\ hw.t4 + 1 = SlotTicks
<1>1. hw' = [hw EXCEPT !.count  = IF match THEN 0 ELSE hw.count + 1,
                       !.t4     = IF wrap THEN 0 ELSE IF hw.t4on THEN hw.t4 + 1 ELSE hw.t4,
                       !.t3if   = hw.t3if \/ match,
                       !.t4if   = hw.t4if \/ wrap,
                       !.output = IF ~match THEN hw.output
                                  ELSE IF hw.output = "ARMED" THEN "HIGH" ELSE "STUCK"]
  BY DEF Tick, TimePasses, Ticked
<1>2. hw \in Hardware /\ pass \in Pass /\ hw.period \in Nat
  BY PeriodTypes DEF TypeInv, Hardware
<1>3. pass' = IF stalled > 0 THEN pass ELSE [pass EXCEPT !.ticks = pass.ticks + 1]
  BY DEF Tick
<1>4. /\ pass'.epoch = pass.epoch /\ pass'.slot = pass.slot /\ pass'.at = pass.at
      /\ (pass'.writing <=> pass.writing)
      /\ pass'.ticks = IF stalled > 0 THEN pass.ticks ELSE pass.ticks + 1
  BY <1>2, <1>3 DEF Pass
<1>5. /\ sw' = sw /\ epoch' = epoch /\ last' = last /\ record' = record
      /\ stalled' = IF stalled > 0 THEN stalled + 1 ELSE 0
      /\ held' = IF Pending /\ stalled = 0 THEN held + 1 ELSE 0
  BY DEF Tick, TimePasses
<1> HIDE DEF match, wrap
<1>6. /\ hw'.period = hw.period /\ (hw'.t4on <=> hw.t4on)
      /\ hw'.count = IF match THEN 0 ELSE hw.count + 1
      /\ (hw'.t3if <=> hw.t3if \/ match)
      /\ hw'.output = IF ~match THEN hw.output
                      ELSE IF hw.output = "ARMED" THEN "HIGH" ELSE "STUCK"
      /\ hw'.t4 = IF wrap THEN 0 ELSE IF hw.t4on THEN hw.t4 + 1 ELSE hw.t4
      /\ (hw'.t4if <=> hw.t4if \/ wrap)
  BY <1>1, <1>2 DEF Hardware
<1>7. hw'.count \in Nat /\ (hw.count + 1 < hw.period => ~match)
      /\ (hw.count + 1 >= hw.period => match)
  BY <1>2, <1>6 DEF match, Hardware
<1>8. hw.t3if \in BOOLEAN /\ hw.t4if \in BOOLEAN /\ hw.t4on \in BOOLEAN
      /\ match \in BOOLEAN /\ wrap \in BOOLEAN
  BY <1>2 DEF Hardware, match, wrap
<1>9. /\ hw.count + 1 < hw.period =>
           /\ hw'.count = hw.count + 1 /\ (hw'.t3if <=> hw.t3if)
           /\ hw'.output = hw.output
      /\ hw.count + 1 >= hw.period =>
           /\ hw'.count = 0 /\ hw'.t3if
           /\ hw'.output = IF hw.output = "ARMED" THEN "HIGH" ELSE "STUCK"
  BY <1>6, <1>7, <1>8
<1>10. hw'.t4 = IF ~hw.t4on THEN hw.t4
                ELSE IF hw.t4 + 1 = SlotTicks THEN 0 ELSE hw.t4 + 1
  BY <1>6 DEF wrap
<1>11. hw'.t4if <=> hw.t4if \/ (hw.t4on /\ hw.t4 + 1 = SlotTicks)
  BY <1>6 DEF wrap
<1> QED
  BY <1>4, <1>5, <1>6, <1>9, <1>10, <1>11

\* The types of the fields.
LEMMA Fields ==
  ASSUME TypeInv
  PROVE  /\ hw.count \in Nat /\ hw.period \in Periods /\ hw.period \in Nat
         /\ hw.t4on \in BOOLEAN /\ hw.t3if \in BOOLEAN /\ hw.t4if \in BOOLEAN
         /\ hw.t4 \in Nat /\ hw.t4 < SlotTicks
         /\ hw.output \in {"ARMED", "HIGH", "STUCK"}
         /\ sw.slot \in Nat /\ sw.ms \in Nat /\ sw.due \in BOOLEAN
         /\ sw.sequence \in 0 .. Epochs - 1
         /\ epoch.length \in Nat /\ epoch.phase \in Phases
         /\ held \in Nat /\ held <= Latency /\ stalled \in Nat /\ stalled <= FlashTicks + 1
         /\ pass.epoch \in 0 .. Epochs - 1 /\ pass.slot \in Nat
         /\ pass.at \in 0 .. Store + 1 /\ pass.ticks \in Nat /\ pass.ticks <= PassTicks
         /\ pass.writing \in BOOLEAN
         /\ Elapsed \in Nat /\ SlotTime \in Nat /\ Late \in Nat
<1>1. hw \in Hardware /\ sw \in Software /\ epoch \in Interval /\ pass \in Pass
  BY DEF TypeInv
<1>2. /\ hw.count \in Nat /\ hw.period \in Periods /\ hw.period \in Nat
      /\ hw.t4on \in BOOLEAN /\ hw.t3if \in BOOLEAN /\ hw.t4if \in BOOLEAN
      /\ hw.t4 \in Nat /\ hw.t4 < SlotTicks
      /\ hw.output \in {"ARMED", "HIGH", "STUCK"}
  BY <1>1, PeriodTypes, TickTypes DEF Hardware
<1>3. /\ sw.slot \in Nat /\ sw.ms \in Nat /\ sw.due \in BOOLEAN
      /\ sw.sequence \in 0 .. Epochs - 1
      /\ epoch.length \in Nat /\ epoch.phase \in Phases
  BY <1>1 DEF Software, Interval
<1>4. /\ held \in Nat /\ held <= Latency /\ stalled \in Nat /\ stalled <= FlashTicks + 1
  BY TickTypes DEF TypeInv
<1>5. /\ pass.epoch \in 0 .. Epochs - 1 /\ pass.slot \in Nat
      /\ pass.at \in 0 .. Store + 1 /\ pass.ticks \in Nat /\ pass.ticks <= PassTicks
      /\ pass.writing \in BOOLEAN
  BY <1>1, TickTypes DEF Pass
<1>6. Elapsed \in Nat /\ Late \in Nat
  BY <1>4, TickTypes DEF Elapsed, Late
<1>7. SlotTime \in Nat
  BY <1>2, <1>3, SpanNext, TickTypes DEF SlotTime
<1> QED
  BY <1>2, <1>3, <1>4, <1>5, <1>6, <1>7

\* An epoch never ends while the one before is to be dealt with, nor in its pulse.
LEMMA EpochInTime ==
  ASSUME LoopInv, Tick, hw.count + 1 >= hw.period
  PROVE  ~hw.t3if /\ hw.output = "ARMED" /\ hw.count + 1 = hw.period
<1> USE Fields, TickTypes DEF LoopInv
<1>1. /\ hw.period > 2 * Latency + 2 * FlashTicks + PassTicks + 1
      /\ hw.period > (PulseEndSlot + 1) * SlotTicks + 2 * Latency + 2 * FlashTicks + 1
  BY PeriodTypes
<1>2. IF stalled > 0 THEN stalled <= FlashTicks ELSE ~Pending \/ held < Latency
  BY DEF Tick, TimePasses
<1>3. ~hw.t3if
  BY <1>1, <1>2 DEF WaitInv, Elapsed
<1>4. ASSUME hw.output = "HIGH"
      PROVE  FALSE
  <2>1. sw.slot < PulseEndSlot /\ ~Phase("STARTING") /\ ~Phase("SPANNED")
    BY <1>3, <1>4 DEF PulseInv, StartInv, WaitInv
  <2>2. Span(PulseEndSlot + 1) = (PulseEndSlot + 1) * SlotTicks
    BY DEF Span
  <2>3. /\ Span(sw.slot + 1) = Span(sw.slot) + SlotTicks
        /\ Span(sw.slot + 2) = Span(sw.slot) + 2 * SlotTicks
        /\ Span(sw.slot) \in Nat /\ Span(PulseEndSlot + 1) \in Nat
    <3>1. Span((sw.slot + 1) + 1) = Span(sw.slot + 1) + SlotTicks
          /\ Span(sw.slot + 1) = Span(sw.slot) + SlotTicks
          /\ Span(sw.slot) \in Nat /\ Span(PulseEndSlot + 1) \in Nat
      BY SpanNext
    <3>2. (sw.slot + 1) + 1 = sw.slot + 2
      OBVIOUS
    <3> QED
      BY <3>1, <3>2
  <2>4. Span(sw.slot + 2) <= Span(PulseEndSlot + 1)
    BY <2>1, SpanGrows
  <2>5. SlotTime < Span(PulseEndSlot + 1)
    BY <2>3, <2>4 DEF SlotTime
  <2>6. Phase("GOOD") \/ Phase("OUT")
    BY <2>1 DEF Phase, Phases
  <2>7. CASE stalled = 0
    BY <1>1, <1>3, <2>2, <2>5, <2>6, <2>7 DEF SlotInv, Late
  <2>8. CASE stalled > 0
    BY <1>1, <1>2, <1>3, <1>4, <2>2, <2>8 DEF PulseInv, Late, Elapsed
  <2> QED
    BY <2>7, <2>8
<1>5. hw.output = "ARMED"
  BY <1>4 DEF PulseInv
<1>6. hw.count < hw.period
  BY DEF WaitInv
<1> QED
  BY <1>3, <1>5, <1>6

LEMMA LoopInvTick ==
  ASSUME LoopInv, Tick
  PROVE  LoopInv'
<1> DEFINE ends == hw.count + 1 >= hw.period
<1>1. /\ sw' = sw /\ epoch' = epoch /\ last' = last /\ record' = record
      /\ pass'.epoch = pass.epoch /\ pass'.slot = pass.slot /\ pass'.at = pass.at
      /\ (pass'.writing <=> pass.writing)
      /\ pass'.ticks = IF stalled > 0 THEN pass.ticks ELSE pass.ticks + 1
      /\ stalled' = IF stalled > 0 THEN stalled + 1 ELSE 0
      /\ held' = IF Pending /\ stalled = 0 THEN held + 1 ELSE 0
      /\ hw'.period = hw.period /\ (hw'.t4on <=> hw.t4on)
      /\ ~ends => /\ hw'.count = hw.count + 1 /\ (hw'.t3if <=> hw.t3if)
                  /\ hw'.output = hw.output
      /\ ends => /\ hw'.count = 0 /\ hw'.t3if
                 /\ hw'.output = IF hw.output = "ARMED" THEN "HIGH" ELSE "STUCK"
      /\ hw'.t4 = IF ~hw.t4on THEN hw.t4
                  ELSE IF hw.t4 + 1 = SlotTicks THEN 0 ELSE hw.t4 + 1
      /\ hw'.t4if <=> hw.t4if \/ (hw.t4on /\ hw.t4 + 1 = SlotTicks)
  BY TickStep, Fields DEF LoopInv
<1>2. ends => ~hw.t3if /\ hw.output = "ARMED" /\ hw.count + 1 = hw.period
  BY EpochInTime
<1>3. IF stalled > 0 THEN stalled <= FlashTicks
      ELSE (~Pending \/ held < Latency) /\ pass.ticks < PassTicks
  BY DEF Tick, TimePasses
<1>4. TypeInv'
  <2>1. hw' \in Hardware
    <3> DEFINE match == hw.count + 1 >= hw.period
               wrap  == hw.t4on /\ hw.t4 + 1 = SlotTicks
               count == IF match THEN 0 ELSE hw.count + 1
               t4 == IF wrap THEN 0 ELSE IF hw.t4on THEN hw.t4 + 1 ELSE hw.t4
               output == IF ~match THEN hw.output
                         ELSE IF hw.output = "ARMED" THEN "HIGH" ELSE "STUCK"
    <3>1. hw' = [hw EXCEPT !.count = count, !.t4 = t4, !.t3if = hw.t3if \/ match,
                           !.t4if = hw.t4if \/ wrap, !.output = output]
      BY DEF Tick, TimePasses, Ticked
    <3>2. hw \in Hardware
      BY DEF LoopInv, TypeInv
    <3>3. count \in Nat /\ t4 \in 0 .. SlotTicks - 1 /\ output \in {"ARMED", "HIGH", "STUCK"}
          /\ (hw.t3if \/ match) \in BOOLEAN /\ (hw.t4if \/ wrap) \in BOOLEAN
      BY Fields, TickTypes DEF LoopInv
    <3> HIDE DEF match, wrap, count, t4, output
    <3> QED
      BY <3>1, <3>2, <3>3 DEF Hardware
  <2>2. pass' \in Pass
    <3>1. pass \in Pass /\ pass' = IF stalled > 0 THEN pass ELSE [pass EXCEPT !.ticks = pass.ticks + 1]
      BY DEF Tick, LoopInv, TypeInv
    <3>2. stalled = 0 => pass.ticks + 1 \in 0 .. PassTicks
      BY <1>3, Fields, TickTypes DEF LoopInv
    <3>3. stalled > 0 \/ stalled = 0
      BY Fields DEF LoopInv
    <3> QED
      BY <3>1, <3>2, <3>3 DEF Pass
  <2>3. held' \in 0 .. Latency /\ stalled' \in 0 .. FlashTicks + 1
    BY <1>1, <1>3, Fields, TickTypes DEF LoopInv
  <2> QED
    BY <1>1, <2>1, <2>2, <2>3 DEF LoopInv, TypeInv
<1> USE Fields, TickTypes DEF LoopInv
<1> HIDE DEF ends
<1>5. StartInv'
  BY <1>1, <1>2 DEF StartInv, Phase
<1>6. hw'.count < hw'.period
  BY <1>1, PeriodTypes DEF ends
<1>7. WaitInv'
  <2>1. ASSUME stalled = 0, hw'.t4if, ~Phase("SPANNED")
        PROVE  hw'.t4 <= held'
    BY <1>1, <1>3, <2>1 DEF WaitInv, Pending
  <2>2. ASSUME stalled = 0, hw'.t3if, ~Phase("SPANNED")
        PROVE  hw'.count <= held'
    <3>1. CASE ends
      BY <1>1, <2>2, <3>1
    <3>2. CASE ~ends
      BY <1>1, <2>2, <3>2 DEF WaitInv, Pending
    <3> QED
      BY <3>1, <3>2
  <2>3. ASSUME stalled > 0, hw'.t3if
        PROVE  hw'.count <= Latency + Elapsed'
    <3>1. CASE ends
      BY <1>1, <2>3, <3>1 DEF Elapsed
    <3>2. CASE ~ends
      BY <1>1, <2>3, <3>2 DEF WaitInv, Elapsed
    <3> QED
      BY <3>1, <3>2
  <2>4. ASSUME Phase("SPANNED")
        PROVE  hw'.t3if /\ stalled' = 0 /\ hw'.count <= Latency + FlashTicks + held'
    BY <1>1, <1>2, <2>4 DEF WaitInv, Pending
  <2>5. Phase("SPANNED")' = Phase("SPANNED") /\ (stalled' = 0 <=> stalled = 0)
        /\ (stalled' > 0 <=> stalled > 0)
    BY <1>1 DEF Phase
  <2> QED
    BY <1>6, <2>1, <2>2, <2>3, <2>4, <2>5 DEF WaitInv
<1>8. stalled = 0 /\ hw.t4on /\ ~Phase("SPANNED") => SlotTime' = SlotTime + 1
  <2>1. ASSUME stalled = 0, hw.t4on, ~Phase("SPANNED")
        PROVE  ~(hw.t4if /\ hw.t4 + 1 = SlotTicks)
    BY <1>3, <2>1 DEF WaitInv, Pending
  <2> QED
    <3>1. ASSUME stalled = 0, hw.t4on, ~Phase("SPANNED")
          PROVE  hw'.t4 + (IF hw'.t4if THEN SlotTicks ELSE 0)
                   = hw.t4 + (IF hw.t4if THEN SlotTicks ELSE 0) + 1
      <4>1. CASE hw.t4 + 1 = SlotTicks
        BY <1>1, <2>1, <3>1, <4>1
      <4>2. CASE hw.t4 + 1 # SlotTicks
        BY <1>1, <2>1, <3>1, <4>2
      <4> QED
        BY <4>1, <4>2
    <3>2. Span(sw'.slot) = Span(sw.slot) /\ Span(sw.slot) \in Nat
      BY <1>1, SpanNext
    <3>3. hw'.t4 \in Nat
      BY <1>1
    <3> QED
      BY <3>1, <3>2, <3>3 DEF SlotTime
<1>9. SlotInv'
  <2>1. ASSUME Phase("GOOD"), stalled = 0, ~hw'.t3if
        PROVE  SlotTime' = hw'.count
    BY <1>1, <1>8, <2>1 DEF SlotInv, StartInv, Phase
  <2>2. ASSUME Phase("GOOD"), stalled = 0, hw'.t3if
        PROVE  SlotTime' = epoch.length + hw'.count /\ (hw'.t4 < hw'.count => hw'.t4if)
    <3>1. hw.t4on /\ SlotTime' = SlotTime + 1
      BY <1>8, <2>2 DEF StartInv, Phase
    <3>2. CASE ends
      BY <1>1, <1>2, <2>2, <3>1, <3>2 DEF SlotInv
    <3>3. CASE ~ends
      <4>1. hw.t3if /\ hw'.count = hw.count + 1
        BY <1>1, <2>2, <3>3
      <4>2. SlotTime = epoch.length + hw.count /\ (hw.t4 < hw.count => hw.t4if)
        BY <2>2, <4>1 DEF SlotInv
      <4>3. hw'.t4 < hw'.count => hw'.t4if
        BY <1>1, <3>1, <4>1, <4>2
      <4> QED
        BY <3>1, <4>1, <4>2, <4>3
    <3> QED
      BY <3>2, <3>3
  <2>3. ASSUME Phase("GOOD"), stalled > 0, ~hw'.t3if
        PROVE  hw'.t4 = hw'.count % SlotTicks
    <3>1. ~ends /\ ~hw.t3if /\ hw'.count = hw.count + 1
      BY <1>1, <2>3
    <3>2. hw.t4on /\ hw.t4 = hw.count % SlotTicks
      BY <2>3, <3>1 DEF SlotInv, StartInv, Phase
    <3>3. hw'.t4 = IF hw.t4 + 1 = SlotTicks THEN 0 ELSE hw.t4 + 1
      BY <1>1, <3>2
    <3> DEFINE m == hw.count % SlotTicks
               n == (hw.count + 1) % SlotTicks
    <3>4. n = IF m + 1 = SlotTicks THEN 0 ELSE m + 1
      BY TickMod
    <3>5. hw.t4 = m
      BY <3>2
    <3> HIDE DEF m, n
    <3>6. hw'.t4 = n
      BY <3>3, <3>4, <3>5
    <3> QED
      BY <3>1, <3>6 DEF n
  <2>4. ASSUME Phase("OUT"), stalled = 0, ~hw'.t3if
        PROVE  SlotTime' <= hw'.count /\ hw'.count <= SlotTime' + Late
    BY <1>1, <1>8, <2>4 DEF SlotInv, StartInv, Phase
  <2>5. ASSUME stalled > 0, ~hw'.t3if
        PROVE  Span(sw.slot) <= hw'.count
    BY <1>1, <2>5, SpanNext DEF SlotInv
  <2>6. sw'.ms = sw'.slot /\ epoch'.length = hw'.period
    BY <1>1 DEF SlotInv
  <2>7. /\ Phase("GOOD")' = Phase("GOOD") /\ Phase("OUT")' = Phase("OUT")
        /\ (stalled' = 0 <=> stalled = 0) /\ (stalled' > 0 <=> stalled > 0)
    BY <1>1 DEF Phase
  <2> QED
    BY <1>1, <2>1, <2>2, <2>3, <2>4, <2>5, <2>6, <2>7 DEF SlotInv, Late
<1>10. PulseInv'
  <2>1. CASE ends
    BY <1>1, <1>2, <2>1 DEF PulseInv
  <2>2. CASE ~ends
    BY <1>1, <2>2, SpanNext DEF PulseInv, Elapsed, Late
  <2> QED
    BY <2>1, <2>2
<1>11. PassInv'
  <2>1. ASSUME InPass, pass.epoch # sw.sequence
        PROVE  ~hw'.t3if /\ hw'.count <= Late + pass'.ticks + Elapsed'
    <3>1. ~hw.t3if /\ hw.count <= Late + pass.ticks + Elapsed
      BY <2>1 DEF PassInv
    <3>2. hw.period > 2 * Latency + 2 * FlashTicks + PassTicks + 1
      BY PeriodTypes
    <3>3. ~ends
      BY <1>3, <3>1, <3>2 DEF ends, Late, Elapsed
    <3> QED
      BY <1>1, <3>1, <3>3 DEF Late, Elapsed
  <2>2. InPass' = InPass /\ Phase("SPANNED")' = Phase("SPANNED")
        /\ (stalled' > 0 <=> stalled > 0)
    BY <1>1 DEF InPass, Phase
  <2> QED
    BY <1>1, <2>1, <2>2 DEF PassInv, Follows, Late, InPass
<1> QED
  BY <1>4, <1>5, <1>7, <1>9, <1>10, <1>11

\* What restart_scheduler() finds that T4 should read.
Since == IF hw.count % LowTicks >= SlotTicks THEN SlotTicks - 1 ELSE hw.count % LowTicks

LEMMA SinceEpoch ==
  ASSUME TypeInv
  PROVE  /\ Since \in 0 .. SlotTicks - 1 /\ Since <= hw.count
         /\ hw.count < SlotTicks => Since = hw.count
         /\ RestartScheduler(hw).since = Since
<1> DEFINE low == hw.count % LowTicks
           n   == hw.count \div LowTicks
<1>1. LowTicks \in Nat /\ LowTicks > SlotTicks /\ hw.count \in Nat
  BY Fields, TickTypes, TimerAssumption
<1>2. low \in Nat /\ low <= hw.count
  <2>1. n \in Nat /\ low \in Nat /\ hw.count = LowTicks * n + low
    BY <1>1, TickTypes
  <2>2. n >= 0 /\ LowTicks >= 0
    BY <1>1, <2>1
  <2> HIDE DEF n, low
  <2>3. LowTicks * n \in Nat
    BY <1>1, <2>1
  <2> QED
    BY <1>1, <2>1, <2>3
<1>3. hw.count < SlotTicks => low = hw.count
  BY <1>1, TickTypes
<1>4. RestartScheduler(hw).since = Since
  BY DEF RestartScheduler, Since
<1>5. Since = IF low >= SlotTicks THEN SlotTicks - 1 ELSE low
  BY DEF Since
<1> HIDE DEF low
<1> QED
  BY <1>1, <1>2, <1>3, <1>4, <1>5, TickTypes

LEMMA T3Step ==
  ASSUME TypeInv, Interrupt, T3Interrupt
  PROVE  /\ stalled = 0 /\ stalled' = 0 /\ hw.t3if /\ held' = 0
         /\ pass' = pass /\ last' = last /\ record' = record
         /\ hw'.count = hw.count /\ hw'.t4 = Since /\ hw'.t4on /\ ~hw'.t3if /\ ~hw'.t4if
         /\ hw'.output = hw.output /\ hw'.period \in Periods
         /\ sw'.slot = 0 /\ sw'.ms = 0 /\ sw'.sequence = (sw.sequence + 1) % Epochs
         /\ (sw'.due <=> sw.due) /\ sw'.requested = NoPeriod
         /\ epoch'.length = hw'.period
         /\ epoch'.phase = IF Phase("SPANNED") THEN "OUT" ELSE "GOOD"
<1> DEFINE period == Loaded(hw, sw)
           restart == RestartScheduler(hw)
           phase == IF Phase("SPANNED") THEN "OUT" ELSE "GOOD"
<1>1. hw \in Hardware /\ sw \in Software
  BY DEF TypeInv
<1>2. period \in Periods
  BY <1>1 DEF Loaded, Hardware, Software
<1>3. restart.since = Since
  BY SinceEpoch
<1>4. /\ stalled = 0 /\ stalled' = 0 /\ hw.t3if /\ held' = 0
      /\ pass' = pass /\ last' = last /\ record' = record
      /\ hw' = [hw EXCEPT !.t3if = FALSE, !.t4if = FALSE, !.t4on = TRUE,
                          !.t4 = restart.since, !.period = period]
      /\ sw' = [sw EXCEPT !.slot = 0, !.ms = 0, !.requested = NoPeriod,
                          !.sequence = (sw.sequence + 1) % Epochs]
      /\ epoch' = [length |-> period, phase |-> phase]
  BY DEF Interrupt, T3Interrupt, Phase
<1> HIDE DEF period, restart, phase
<1>5. /\ hw'.count = hw.count /\ hw'.t4 = Since /\ hw'.t4on /\ ~hw'.t3if /\ ~hw'.t4if
      /\ hw'.output = hw.output /\ hw'.period = period
  BY <1>1, <1>3, <1>4 DEF Hardware
<1>6. /\ sw'.slot = 0 /\ sw'.ms = 0 /\ sw'.sequence = (sw.sequence + 1) % Epochs
      /\ (sw'.due <=> sw.due) /\ sw'.requested = NoPeriod
  BY <1>1, <1>4 DEF Software
<1>7. epoch'.length = period /\ epoch'.phase = phase
  BY <1>4
<1> QED
  BY <1>2, <1>4, <1>5, <1>6, <1>7 DEF phase

LEMMA LoopInvT3 ==
  ASSUME LoopInv, Interrupt, T3Interrupt
  PROVE  LoopInv'
<1>1. /\ stalled = 0 /\ stalled' = 0 /\ hw.t3if /\ held' = 0
      /\ pass' = pass /\ last' = last /\ record' = record
      /\ hw'.count = hw.count /\ hw'.t4 = Since /\ hw'.t4on /\ ~hw'.t3if /\ ~hw'.t4if
      /\ hw'.output = hw.output /\ hw'.period \in Periods
      /\ sw'.slot = 0 /\ sw'.ms = 0 /\ sw'.sequence = (sw.sequence + 1) % Epochs
      /\ epoch'.length = hw'.period
      /\ epoch'.phase = IF Phase("SPANNED") THEN "OUT" ELSE "GOOD"
  BY T3Step DEF LoopInv
<1>2. Since \in 0 .. SlotTicks - 1 /\ Since <= hw.count
      /\ (hw.count < SlotTicks => Since = hw.count)
  BY SinceEpoch DEF LoopInv
<1> USE Fields, TickTypes DEF LoopInv
<1>3. hw.count <= Late /\ (~Phase("SPANNED") => hw.count < SlotTicks)
  BY <1>1 DEF WaitInv, Late
<1>4. TypeInv'
  <2>1. hw \in Hardware /\ sw \in Software /\ Loaded(hw, sw) \in Periods
    BY DEF TypeInv, Loaded, Hardware, Software
  <2>2. hw' = [hw EXCEPT !.t3if = FALSE, !.t4if = FALSE, !.t4on = TRUE,
                         !.t4 = Since, !.period = Loaded(hw, sw)]
    BY SinceEpoch DEF T3Interrupt
  <2>3. hw' \in Hardware
    BY <1>2, <2>1, <2>2 DEF Hardware
  <2>4. sw' = [sw EXCEPT !.slot = 0, !.ms = 0, !.requested = NoPeriod,
                         !.sequence = (sw.sequence + 1) % Epochs]
    BY DEF T3Interrupt
  <2>5. (sw.sequence + 1) % Epochs \in 0 .. Epochs - 1
    BY EpochAfter
  <2>6. sw' \in Software
    BY <2>1, <2>4, <2>5 DEF Software
  <2>7. epoch' \in Interval
    <3>1. epoch' = [length |-> Loaded(hw, sw), phase |-> IF epoch.phase = "SPANNED" THEN "OUT" ELSE "GOOD"]
      BY DEF T3Interrupt
    <3> QED
      BY <2>1, <3>1, PeriodTypes DEF Interval, Phases
  <2> QED
    BY <1>1, <2>3, <2>6, <2>7 DEF TypeInv
<1>5. StartInv'
  BY <1>1 DEF StartInv, Phase
<1>6. WaitInv'
  BY <1>1, <1>3, PeriodTypes DEF WaitInv, Phase, Late
<1>7. SlotTime' = Since
  <2>1. Span(sw'.slot) = 0
    BY <1>1 DEF Span
  <2> QED
    BY <1>1, <1>2, <2>1 DEF SlotTime
<1>8. SlotInv'
  BY <1>1, <1>2, <1>3, <1>7 DEF SlotInv, Phase, Late
<1>9. PulseInv'
  BY <1>1 DEF PulseInv
<1>10. PassInv'
  <2>1. InPass => pass.epoch = sw.sequence
    BY <1>1 DEF PassInv
  <2>2. sw'.sequence # sw.sequence
    BY <1>1, EpochAfter, EpochTypes
  <2>3. InPass' = InPass /\ Elapsed' = 0 /\ ~Phase("SPANNED")'
    BY <1>1 DEF InPass, Elapsed, Phase
  <2> QED
    BY <1>1, <1>3, <2>1, <2>2, <2>3 DEF PassInv, Follows, Late
<1> QED
  BY <1>4, <1>5, <1>6, <1>8, <1>9, <1>10

\* advance_slot(), n times.
LEMMA AdvancedFields ==
  ASSUME NEW h \in Hardware, NEW s \in Software, NEW n \in Nat
  PROVE  /\ Advanced(h, s, n).hw \in Hardware /\ Advanced(h, s, n).sw \in Software
         /\ Advanced(h, s, n).hw.count = h.count /\ Advanced(h, s, n).hw.period = h.period
         /\ Advanced(h, s, n).hw.t4 = h.t4
         /\ (Advanced(h, s, n).hw.t4on <=> h.t4on)
         /\ (Advanced(h, s, n).hw.t3if <=> h.t3if)
         /\ (Advanced(h, s, n).hw.t4if <=> h.t4if)
         /\ Advanced(h, s, n).hw.output
              = IF PulseEndSlot \in s.slot + 1 .. s.slot + n THEN "ARMED" ELSE h.output
         /\ Advanced(h, s, n).sw.slot = s.slot + n /\ Advanced(h, s, n).sw.ms = s.ms + n
         /\ Advanced(h, s, n).sw.sequence = s.sequence
         /\ (Advanced(h, s, n).sw.due <=> s.due \/ MeasureSlot \in s.slot + 1 .. s.slot + n)
<1> DEFINE output == IF PulseEndSlot \in s.slot + 1 .. s.slot + n THEN "ARMED" ELSE h.output
           due == s.due \/ MeasureSlot \in s.slot + 1 .. s.slot + n
<1>1. /\ Advanced(h, s, n).hw = [h EXCEPT !.output = output]
      /\ Advanced(h, s, n).sw = [s EXCEPT !.ms = s.ms + n, !.slot = s.slot + n, !.due = due]
  BY DEF Advanced
<1>2. /\ output \in {"ARMED", "HIGH", "STUCK"} /\ due \in BOOLEAN
      /\ s.ms + n \in Nat /\ s.slot + n \in Nat
  BY DEF Hardware, Software
<1> HIDE DEF output, due
<1>3. Advanced(h, s, n).hw \in Hardware /\ Advanced(h, s, n).sw \in Software
  BY <1>1, <1>2 DEF Hardware, Software
<1>4. /\ Advanced(h, s, n).hw.count = h.count /\ Advanced(h, s, n).hw.period = h.period
      /\ Advanced(h, s, n).hw.t4 = h.t4
      /\ (Advanced(h, s, n).hw.t4on <=> h.t4on)
      /\ (Advanced(h, s, n).hw.t3if <=> h.t3if)
      /\ (Advanced(h, s, n).hw.t4if <=> h.t4if)
      /\ Advanced(h, s, n).hw.output = output
  BY <1>1 DEF Hardware
<1>5. /\ Advanced(h, s, n).sw.slot = s.slot + n /\ Advanced(h, s, n).sw.ms = s.ms + n
      /\ Advanced(h, s, n).sw.sequence = s.sequence
      /\ (Advanced(h, s, n).sw.due <=> due)
  BY <1>1 DEF Software
<1> QED
  BY <1>3, <1>4, <1>5 DEF output, due

LEMMA T4Step ==
  ASSUME TypeInv, Interrupt, T4Interrupt
  PROVE  /\ hw' \in Hardware /\ sw' \in Software
         /\ stalled = 0 /\ stalled' = 0 /\ hw.t4if /\ ~hw.t3if /\ held' = 0 /\ epoch' = epoch
         /\ pass' = pass /\ last' = last /\ record' = record
         /\ hw'.count = hw.count /\ hw'.period = hw.period /\ hw'.t4 = hw.t4
         /\ (hw'.t4on <=> hw.t4on) /\ ~hw'.t3if /\ ~hw'.t4if
         /\ hw'.output = IF PulseEndSlot = sw.slot + 1 THEN "ARMED" ELSE hw.output
         /\ sw'.slot = sw.slot + 1 /\ sw'.ms = sw.ms + 1 /\ sw'.sequence = sw.sequence
         /\ (sw'.due <=> sw.due \/ MeasureSlot = sw.slot + 1)
<1> DEFINE h == [hw EXCEPT !.t4if = FALSE]
<1>1. /\ stalled = 0 /\ stalled' = 0 /\ hw.t4if /\ ~hw.t3if /\ held' = 0 /\ epoch' = epoch
      /\ pass' = pass /\ last' = last /\ record' = record
      /\ hw' = Advanced(h, sw, 1).hw /\ sw' = Advanced(h, sw, 1).sw
  BY DEF Interrupt, T4Interrupt
<1>2. hw \in Hardware /\ sw \in Software
  BY DEF TypeInv
<1>3. /\ h \in Hardware /\ h.count = hw.count /\ h.period = hw.period /\ h.t4 = hw.t4
      /\ (h.t4on <=> hw.t4on) /\ (h.t3if <=> hw.t3if) /\ ~h.t4if /\ h.output = hw.output
  BY <1>2 DEF Hardware
<1>4. \A k \in Nat : k \in sw.slot + 1 .. sw.slot + 1 <=> k = sw.slot + 1
  BY <1>2 DEF Software
<1> HIDE DEF h
<1>5. /\ hw' \in Hardware /\ sw' \in Software
      /\ hw'.count = h.count /\ hw'.period = h.period /\ hw'.t4 = h.t4
      /\ (hw'.t4on <=> h.t4on) /\ (hw'.t3if <=> h.t3if) /\ (hw'.t4if <=> h.t4if)
      /\ hw'.output = IF PulseEndSlot \in sw.slot + 1 .. sw.slot + 1 THEN "ARMED" ELSE h.output
      /\ sw'.slot = sw.slot + 1 /\ sw'.ms = sw.ms + 1 /\ sw'.sequence = sw.sequence
      /\ (sw'.due <=> sw.due \/ MeasureSlot \in sw.slot + 1 .. sw.slot + 1)
  <2> DEFINE n == 1
  <2>1. n \in Nat /\ hw' = Advanced(h, sw, n).hw /\ sw' = Advanced(h, sw, n).sw
    BY <1>1
  <2> HIDE DEF n
  <2>2. /\ hw' \in Hardware /\ sw' \in Software
        /\ hw'.count = h.count /\ hw'.period = h.period /\ hw'.t4 = h.t4
        /\ (hw'.t4on <=> h.t4on) /\ (hw'.t3if <=> h.t3if) /\ (hw'.t4if <=> h.t4if)
        /\ hw'.output = IF PulseEndSlot \in sw.slot + 1 .. sw.slot + n THEN "ARMED" ELSE h.output
        /\ sw'.slot = sw.slot + n /\ sw'.ms = sw.ms + n /\ sw'.sequence = sw.sequence
        /\ (sw'.due <=> sw.due \/ MeasureSlot \in sw.slot + 1 .. sw.slot + n)
    BY <1>2, <1>3, <2>1, AdvancedFields
  <2> QED
    BY <2>2 DEF n
<1>6. (PulseEndSlot \in sw.slot + 1 .. sw.slot + 1 <=> PulseEndSlot = sw.slot + 1)
      /\ (MeasureSlot \in sw.slot + 1 .. sw.slot + 1 <=> MeasureSlot = sw.slot + 1)
  BY <1>4, TickTypes
<1>7. hw'.output = IF PulseEndSlot = sw.slot + 1 THEN "ARMED" ELSE hw.output
  BY <1>3, <1>5, <1>6
<1>8. sw'.due <=> sw.due \/ MeasureSlot = sw.slot + 1
  BY <1>5, <1>6
<1> QED
  BY <1>1, <1>3, <1>5, <1>7, <1>8

LEMMA LoopInvT4 ==
  ASSUME LoopInv, Interrupt, T4Interrupt
  PROVE  LoopInv'
<1>1. /\ hw' \in Hardware /\ sw' \in Software
      /\ stalled = 0 /\ stalled' = 0 /\ hw.t4if /\ ~hw.t3if /\ held' = 0 /\ epoch' = epoch
      /\ pass' = pass /\ last' = last /\ record' = record
      /\ hw'.count = hw.count /\ hw'.period = hw.period /\ hw'.t4 = hw.t4
      /\ (hw'.t4on <=> hw.t4on) /\ ~hw'.t3if /\ ~hw'.t4if
      /\ hw'.output = IF PulseEndSlot = sw.slot + 1 THEN "ARMED" ELSE hw.output
      /\ sw'.slot = sw.slot + 1 /\ sw'.ms = sw.ms + 1 /\ sw'.sequence = sw.sequence
  BY T4Step DEF LoopInv
<1> USE Fields, TickTypes DEF LoopInv
<1>2. TypeInv'
  BY <1>1 DEF TypeInv
<1>3. ~Phase("STARTING") /\ ~Phase("SPANNED")
  BY <1>1 DEF StartInv, WaitInv
<1>4. \A p : Phase(p)' = Phase(p)
  BY <1>1 DEF Phase
<1>5. StartInv'
  BY <1>1, <1>3, <1>4 DEF StartInv
<1>6. WaitInv'
  BY <1>1, <1>3, <1>4 DEF WaitInv
<1>7. SlotTime' = SlotTime
  BY <1>1, SpanNext DEF SlotTime
<1>8. SlotInv'
  BY <1>1, <1>4, <1>7 DEF SlotInv, Late
<1>9. PulseInv'
  BY <1>1 DEF PulseInv
<1>10. PassInv'
  BY <1>1, <1>3, <1>4 DEF PassInv, Follows, InPass, Late, Elapsed
<1> QED
  BY <1>2, <1>5, <1>6, <1>8, <1>9, <1>10

\* epoch_timer_resume(): the slots are put where the timer is.
LEMMA WrittenStep ==
  ASSUME LoopInv, Written
  PROVE  /\ hw' \in Hardware /\ sw' \in Software
         /\ stalled > 0 /\ stalled' = 0 /\ held' = 0 /\ last' = last /\ record' = record
         /\ pass' = [pass EXCEPT !.writing = FALSE]
         /\ hw.t3if => hw' = hw /\ sw' = sw /\ epoch' = [epoch EXCEPT !.phase = "SPANNED"]
         /\ ~hw.t3if =>
              /\ epoch' = epoch
              /\ hw'.count = hw.count /\ hw'.period = hw.period
              /\ hw'.t4 = hw.count % SlotTicks
              /\ (hw'.t4on <=> hw.t4on) /\ ~hw'.t3if /\ ~hw'.t4if
              /\ sw.slot <= hw.count \div SlotTicks
              /\ hw'.output = IF PulseEndSlot \in sw.slot + 1 .. hw.count \div SlotTicks
                              THEN "ARMED" ELSE hw.output
              /\ sw'.slot = hw.count \div SlotTicks
              /\ sw'.ms = sw.ms + (sw'.slot - sw.slot) /\ sw'.sequence = sw.sequence
              /\ (sw'.due <=> sw.due \/ MeasureSlot \in sw.slot + 1 .. hw.count \div SlotTicks)
<1> DEFINE q == hw.count \div SlotTicks
           r == hw.count % SlotTicks
           h == [hw EXCEPT !.t4 = r, !.t4if = FALSE]
           n == IF q > sw.slot THEN q - sw.slot ELSE 0
<1>1. /\ stalled > 0 /\ stalled' = 0 /\ held' = 0 /\ last' = last /\ record' = record
      /\ pass' = [pass EXCEPT !.writing = FALSE]
  BY DEF Written, FlashEnds
<1>2. hw \in Hardware /\ sw \in Software
  BY DEF LoopInv, TypeInv
<1>3. CASE hw.t3if
  BY <1>1, <1>2, <1>3 DEF Written, FlashEnds, Resumed
<1>4. CASE ~hw.t3if
  <2>1. /\ hw' = Advanced(h, sw, n).hw /\ sw' = Advanced(h, sw, n).sw /\ epoch' = epoch
    BY <1>4 DEF Written, FlashEnds, Resumed
  <2>2. q \in Nat /\ r \in 0 .. SlotTicks - 1 /\ hw.count = Span(q) + r
    BY Slots, Fields DEF LoopInv
  <2>3. /\ h \in Hardware /\ h.count = hw.count /\ h.period = hw.period /\ h.t4 = r
        /\ (h.t4on <=> hw.t4on) /\ (h.t3if <=> hw.t3if) /\ ~h.t4if /\ h.output = hw.output
    BY <1>2, <2>2, TickTypes DEF Hardware
  <2> HIDE DEF q, r, h
  <2>4. sw.slot <= q
    <3>1. Span(sw.slot) <= hw.count
      BY <1>1, <1>4 DEF LoopInv, SlotInv
    <3>2. Span(sw.slot) \in Nat /\ Span(q) \in Nat /\ Span(q + 1) = Span(q) + SlotTicks
      BY <2>2, SpanNext, Fields DEF LoopInv
    <3>3. ~(q + 1 <= sw.slot)
      BY <2>2, <3>1, <3>2, SpanGrows, Fields, TickTypes DEF LoopInv
    <3> QED
      BY <2>2, <3>3, Fields DEF LoopInv
  <2>5. n \in Nat /\ sw.slot + n = q
    BY <2>2, <2>4, Fields DEF LoopInv
  <2> HIDE DEF n
  <2>6. /\ hw' \in Hardware /\ sw' \in Software
        /\ hw'.count = hw.count /\ hw'.period = hw.period /\ hw'.t4 = r
        /\ (hw'.t4on <=> hw.t4on) /\ ~hw'.t3if /\ ~hw'.t4if
        /\ hw'.output = IF PulseEndSlot \in sw.slot + 1 .. q THEN "ARMED" ELSE hw.output
        /\ sw'.slot = q /\ sw'.ms = sw.ms + n /\ sw'.sequence = sw.sequence
        /\ (sw'.due <=> sw.due \/ MeasureSlot \in sw.slot + 1 .. q)
    <3>1. /\ hw' \in Hardware /\ sw' \in Software
          /\ hw'.count = h.count /\ hw'.period = h.period /\ hw'.t4 = h.t4
          /\ (hw'.t4on <=> h.t4on) /\ (hw'.t3if <=> h.t3if) /\ (hw'.t4if <=> h.t4if)
          /\ hw'.output = IF PulseEndSlot \in sw.slot + 1 .. sw.slot + n THEN "ARMED" ELSE h.output
          /\ sw'.slot = sw.slot + n /\ sw'.ms = sw.ms + n /\ sw'.sequence = sw.sequence
          /\ (sw'.due <=> sw.due \/ MeasureSlot \in sw.slot + 1 .. sw.slot + n)
      BY <1>2, <2>1, <2>3, <2>5, AdvancedFields
    <3> QED
      BY <1>4, <2>3, <2>5, <3>1
  <2>7. n = q - sw.slot
    BY <2>2, <2>5, Fields DEF LoopInv
  <2> QED
    BY <1>1, <1>4, <2>1, <2>4, <2>6, <2>7 DEF q, r
<1> QED
  BY <1>3, <1>4

LEMMA LoopInvWritten ==
  ASSUME LoopInv, Written
  PROVE  LoopInv'
<1> DEFINE q == hw.count \div SlotTicks
           r == hw.count % SlotTicks
<1>1. /\ hw' \in Hardware /\ sw' \in Software
      /\ stalled > 0 /\ stalled' = 0 /\ held' = 0 /\ last' = last /\ record' = record
      /\ pass' = [pass EXCEPT !.writing = FALSE]
      /\ hw.t3if => hw' = hw /\ sw' = sw /\ epoch' = [epoch EXCEPT !.phase = "SPANNED"]
      /\ ~hw.t3if =>
           /\ epoch' = epoch
           /\ hw'.count = hw.count /\ hw'.period = hw.period /\ hw'.t4 = r
           /\ (hw'.t4on <=> hw.t4on) /\ ~hw'.t3if /\ ~hw'.t4if
           /\ sw.slot <= q
           /\ hw'.output = IF PulseEndSlot \in sw.slot + 1 .. q THEN "ARMED" ELSE hw.output
           /\ sw'.slot = q /\ sw'.ms = sw.ms + (sw'.slot - sw.slot)
           /\ sw'.sequence = sw.sequence
  BY WrittenStep
<1>2. q \in Nat /\ r \in 0 .. SlotTicks - 1 /\ hw.count = Span(q) + r
  BY Slots, Fields DEF LoopInv
<1> HIDE DEF q, r
<1>3. /\ pass \in Pass /\ pass' \in Pass /\ ~pass'.writing /\ pass'.epoch = pass.epoch
      /\ pass'.slot = pass.slot /\ pass'.at = pass.at /\ pass'.ticks = pass.ticks
  BY <1>1 DEF LoopInv, TypeInv, Pass
<1>4. /\ pass.writing /\ pass.at = 0 /\ last[Store] = pass.epoch
      /\ ~Phase("STARTING") /\ ~Phase("SPANNED")
  BY <1>1 DEF LoopInv, PassInv, StartInv, WaitInv
<1>5. CASE hw.t3if
  <2>1. /\ hw' = hw /\ sw' = sw /\ epoch' = [epoch EXCEPT !.phase = "SPANNED"]
    BY <1>1, <1>5
  <2>2. epoch \in Interval
    BY DEF LoopInv, TypeInv
  <2>3. epoch' \in Interval /\ epoch'.length = epoch.length /\ epoch'.phase = "SPANNED"
    BY <2>1, <2>2 DEF Interval, Phases
  <2>4. TypeInv'
    BY <1>1, <1>3, <2>3, TickTypes DEF LoopInv, TypeInv
  <2>5. pass.epoch = sw.sequence
    BY <1>4, <1>5 DEF LoopInv, PassInv, InPass
  <2>6. hw.count <= Latency + FlashTicks
    BY <1>1, <1>5, Fields, TickTypes DEF LoopInv, WaitInv, Elapsed
  <2>7. StartInv' /\ SlotInv' /\ PulseInv'
    BY <1>1, <1>4, <1>5, <2>1, <2>3 DEF LoopInv, StartInv, SlotInv, PulseInv, Phase
  <2>8. WaitInv'
    BY <1>1, <1>5, <2>1, <2>3, <2>6, TickTypes DEF LoopInv, WaitInv, Phase
  <2>9. PassInv'
    BY <1>1, <1>3, <1>4, <2>1, <2>3, <2>5 DEF LoopInv, PassInv, InPass, Phase
  <2> QED
    BY <2>4, <2>7, <2>8, <2>9 DEF LoopInv
<1>6. CASE ~hw.t3if
  <2>1. /\ epoch' = epoch
        /\ hw'.count = hw.count /\ hw'.period = hw.period /\ hw'.t4 = r
        /\ (hw'.t4on <=> hw.t4on) /\ ~hw'.t3if /\ ~hw'.t4if
        /\ sw.slot <= q
        /\ hw'.output = IF PulseEndSlot \in sw.slot + 1 .. q THEN "ARMED" ELSE hw.output
        /\ sw'.slot = q /\ sw'.ms = sw.ms + (sw'.slot - sw.slot)
        /\ sw'.sequence = sw.sequence
    BY <1>1, <1>6
  <2>2. TypeInv'
    BY <1>1, <1>3, <2>1, TickTypes DEF LoopInv, TypeInv
  <2>3. Phase("GOOD")' = Phase("GOOD") /\ Phase("OUT")' = Phase("OUT")
        /\ ~Phase("SPANNED")' /\ ~Phase("STARTING")'
    BY <1>4, <2>1 DEF Phase
  <2>4. StartInv' /\ WaitInv'
    BY <1>1, <1>4, <2>1, <2>3 DEF LoopInv, StartInv, WaitInv
  <2>5. SlotTime' = hw'.count
    <3>1. Span(q) \in Nat /\ sw'.slot = q /\ ~hw'.t4if /\ hw'.t4 = r /\ hw'.count = hw.count
      BY <1>2, <2>1, SpanNext
    <3> QED
      BY <1>2, <3>1, TickTypes DEF SlotTime
  <2>6. SlotInv'
    <3>1. sw'.ms = sw'.slot /\ epoch'.length = hw'.period
      BY <1>2, <2>1, Fields DEF LoopInv, SlotInv
    <3>2. hw'.count \in Nat /\ Late \in Nat /\ Late' = Late
      BY <2>1, Fields, TickTypes DEF LoopInv, Late
    <3> QED
      BY <1>1, <2>1, <2>3, <2>5, <3>1, <3>2 DEF SlotInv
  <2>7. PulseInv'
    <3>1. ASSUME hw'.output = "HIGH"
          PROVE  sw'.slot < PulseEndSlot
      <4>1. hw.output = "HIGH" /\ PulseEndSlot \notin sw.slot + 1 .. q
        BY <2>1, <3>1
      <4>2. sw.slot < PulseEndSlot
        BY <1>6, <4>1 DEF LoopInv, PulseInv
      <4> QED
        BY <1>2, <2>1, <4>1, <4>2, Fields, TickTypes DEF LoopInv
    <3>2. hw'.output # "STUCK"
      BY <2>1 DEF LoopInv, PulseInv
    <3> QED
      BY <1>1, <3>1, <3>2 DEF PulseInv
  <2>8. PassInv'
    BY <1>1, <1>3, <1>4, <2>3 DEF PassInv, InPass
  <2> QED
    BY <2>2, <2>4, <2>6, <2>7, <2>8 DEF LoopInv
<1> QED
  BY <1>5, <1>6

LEMMA LoopInvWrites ==
  ASSUME LoopInv, Writes
  PROVE  LoopInv'
<1>1. /\ stalled = 0 /\ stalled' = 1 /\ hw' = hw /\ sw' = sw /\ held' = held
      /\ epoch' = epoch /\ pass.writing /\ pass' = pass /\ last' = last /\ record' = record
  BY DEF Writes, FlashStarts
<1> USE Fields, TickTypes DEF LoopInv
<1>2. TypeInv'
  BY <1>1 DEF TypeInv
<1>3. ~Phase("STARTING") /\ ~Phase("SPANNED")
  BY <1>1 DEF StartInv, PassInv
<1>4. \A p : Phase(p)' = Phase(p)
  BY <1>1 DEF Phase
<1>5. StartInv' /\ PassInv'
  BY <1>1, <1>3, <1>4 DEF StartInv, PassInv, InPass, Elapsed, Late
<1>6. WaitInv'
  BY <1>1, <1>3, <1>4 DEF WaitInv, Elapsed
<1>7. ~hw.t3if =>
        /\ Span(sw.slot) <= hw.count
        /\ Phase("GOOD") => hw.t4 = hw.count % SlotTicks
        /\ hw.count <= SlotTime + Late
  <2>1. ASSUME ~hw.t3if
        PROVE  (Phase("GOOD") => SlotTime = hw.count)
               /\ SlotTime <= hw.count /\ hw.count <= SlotTime + Late
    BY <1>1, <1>3, <2>1 DEF SlotInv, Phase, Phases
  <2>2. Span(sw.slot) \in Nat /\ Span(sw.slot + 1) = Span(sw.slot) + SlotTicks
    BY SpanNext
  <2>3. ASSUME SlotTime = hw.count
        PROVE  hw.t4 = hw.count % SlotTicks
    <3>1. CASE hw.t4if
      <4>1. hw.count = Span(sw.slot + 1) + hw.t4
        BY <2>2, <2>3, <3>1 DEF SlotTime
      <4>2. sw.slot + 1 \in Nat /\ hw.t4 \in 0 .. SlotTicks - 1
        OBVIOUS
      <4> QED
        BY <4>1, <4>2, SlotsUnique
    <3>2. CASE ~hw.t4if
      <4>1. hw.count = Span(sw.slot) + hw.t4
        BY <2>2, <2>3, <3>2 DEF SlotTime
      <4>2. hw.t4 \in 0 .. SlotTicks - 1
        OBVIOUS
      <4> QED
        BY <4>1, <4>2, SlotsUnique
    <3> QED
      BY <3>1, <3>2
  <2> QED
    BY <2>1, <2>2, <2>3 DEF SlotTime
<1>8. SlotInv'
  BY <1>1, <1>3, <1>4, <1>7 DEF SlotInv
<1>9. PulseInv'
  <2>1. ASSUME hw.output = "HIGH", ~hw.t3if
        PROVE  sw.slot < PulseEndSlot /\ hw.count <= Span(PulseEndSlot + 1) + Late
    <3>1. sw.slot < PulseEndSlot /\ hw.count <= SlotTime + Late
      BY <1>7, <2>1 DEF PulseInv
    <3>2. Span(sw.slot + 1) <= Span(PulseEndSlot) /\ Span(sw.slot + 1) = Span(sw.slot) + SlotTicks
          /\ Span(PulseEndSlot + 1) = Span(PulseEndSlot) + SlotTicks
          /\ Span(sw.slot) \in Nat /\ Span(PulseEndSlot) \in Nat
      <4>1. sw.slot + 1 \in Nat /\ sw.slot + 1 <= PulseEndSlot
        BY <3>1
      <4> QED
        BY <4>1, SpanGrows, SpanNext
    <3>3. SlotTime < Span(sw.slot) + 2 * SlotTicks
      BY <3>2 DEF SlotTime
    <3> QED
      BY <3>1, <3>2, <3>3
  <2>2. Elapsed' = 0 /\ Late' = Late
    BY <1>1 DEF Elapsed, Late
  <2> QED
    BY <1>1, <2>1, <2>2, SpanNext DEF PulseInv
<1> QED
  BY <1>2, <1>5, <1>6, <1>8, <1>9

\* Steps of the foreground leave the timers alone.
LoopForeground ==
  /\ hw' = hw /\ held' = held /\ stalled' = stalled /\ epoch' = epoch
  /\ sw'.slot = sw.slot /\ sw'.ms = sw.ms /\ sw'.sequence = sw.sequence
  /\ stalled = 0 /\ ~pass.writing

LEMMA LoopForegroundStep ==
  ASSUME LoopInv, LoopForeground
  PROVE  /\ WaitInv' /\ SlotInv' /\ PulseInv'
         /\ \A p : Phase(p)' = Phase(p)
<1>1. /\ hw' = hw /\ held' = held /\ stalled' = stalled /\ epoch' = epoch
      /\ sw'.slot = sw.slot /\ sw'.ms = sw.ms /\ sw'.sequence = sw.sequence
  BY DEF LoopForeground
<1>2. \A p : Phase(p)' = Phase(p)
  BY <1>1 DEF Phase
<1>3. Elapsed' = Elapsed /\ Late' = Late /\ SlotTime' = SlotTime
  BY <1>1 DEF Elapsed, Late, SlotTime, Span
<1>4. Span(sw'.slot) = Span(sw.slot)
  BY <1>1
<1>5. WaitInv'
  BY <1>1, <1>2, <1>3 DEF LoopInv, WaitInv
<1>6. SlotInv'
  BY <1>1, <1>2, <1>3, <1>4 DEF LoopInv, SlotInv
<1>7. PulseInv'
  BY <1>1, <1>2, <1>3 DEF LoopInv, PulseInv
<1> QED
  BY <1>2, <1>5, <1>6, <1>7

LEMMA LoopInvPass ==
  ASSUME LoopInv, SchedulerPass
  PROVE  LoopInv'
<1>1. /\ hw' = hw /\ sw' = sw /\ held' = held /\ stalled' = stalled /\ epoch' = epoch
      /\ last' = last /\ record' = record /\ stalled = 0 /\ ~pass.writing
      /\ pass' = [pass EXCEPT !.epoch = sw.sequence, !.slot = sw.slot, !.at = 1, !.ticks = 0]
  BY DEF SchedulerPass, Free
<1>2. LoopForeground
  BY <1>1 DEF LoopForeground
<1>3. /\ pass' \in Pass /\ pass'.epoch = sw.sequence /\ pass'.slot = sw.slot /\ pass'.at = 1
      /\ ~pass'.writing
  <2>1. pass \in Pass /\ 1 \in 0 .. Store + 1 /\ 0 \in 0 .. PassTicks
    BY TaskTypes, TickTypes DEF LoopInv, TypeInv
  <2> QED
    BY <1>1, <2>1, Fields DEF LoopInv, Pass
<1>4. WaitInv' /\ SlotInv' /\ PulseInv' /\ (\A p : Phase(p)' = Phase(p))
  BY <1>2, LoopForegroundStep
<1>5. TypeInv'
  BY <1>1, <1>3 DEF LoopInv, TypeInv
<1>6. StartInv'
  BY <1>1, <1>3, <1>4 DEF LoopInv, StartInv
<1>7. PassInv'
  BY <1>1, <1>3, <1>4 DEF LoopInv, PassInv, InPass
<1> QED
  BY <1>4, <1>5, <1>6, <1>7 DEF LoopInv

LEMMA LoopInvSnapshot ==
  ASSUME LoopInv, Snapshot \/ NoSnapshot
  PROVE  LoopInv'
<1>1. /\ hw' = hw /\ held' = held /\ stalled' = stalled /\ epoch' = epoch
      /\ last' = last /\ stalled = 0 /\ ~pass.writing /\ pass.at = 1
      /\ pass' = [pass EXCEPT !.at = 2]
  BY DEF Snapshot, NoSnapshot, Free
<1>2. /\ sw' \in Software /\ sw'.slot = sw.slot /\ sw'.ms = sw.ms
      /\ sw'.sequence = sw.sequence /\ (sw'.due => sw.due)
  <2>1. sw \in Software
    BY DEF LoopInv, TypeInv
  <2>2. CASE Snapshot
    <3>1. PICK period \in Periods : sw' = [sw EXCEPT !.due = FALSE, !.requested = period]
      BY <2>2 DEF Snapshot
    <3> QED
      BY <2>1, <3>1 DEF Software
  <2>3. CASE NoSnapshot
    BY <2>1, <2>3 DEF NoSnapshot
  <2> QED
    BY <2>2, <2>3
<1>3. record' \in Record
  <2>1. record \in Record /\ sw.sequence \in 0 .. Epochs - 1
    BY Fields DEF LoopInv, TypeInv
  <2>2. CASE Snapshot
    <3>1. record' = [record EXCEPT !.measured = sw.sequence,
                       !.missed = record.missed \/ ~Follows(sw.sequence, record.measured)]
      BY <2>2 DEF Snapshot
    <3> QED
      BY <2>1, <3>1 DEF Record
  <2>3. CASE NoSnapshot
    BY <2>1, <2>3 DEF NoSnapshot
  <2> QED
    BY <2>2, <2>3
<1>4. LoopForeground
  BY <1>1, <1>2 DEF LoopForeground
<1>5. /\ pass' \in Pass /\ pass'.epoch = pass.epoch /\ pass'.slot = pass.slot /\ pass'.at = 2
      /\ ~pass'.writing /\ pass'.ticks = pass.ticks
  <2>1. pass \in Pass /\ 2 \in 0 .. Store + 1
    BY TaskTypes DEF LoopInv, TypeInv
  <2> QED
    BY <1>1, <2>1 DEF Pass
<1>6. WaitInv' /\ SlotInv' /\ PulseInv' /\ (\A p : Phase(p)' = Phase(p))
  BY <1>4, LoopForegroundStep
<1>7. TypeInv'
  BY <1>1, <1>2, <1>3, <1>5 DEF LoopInv, TypeInv
<1>8. StartInv'
  BY <1>1, <1>2, <1>5, <1>6 DEF LoopInv, StartInv
<1>9. PassInv'
  BY <1>1, <1>2, <1>5, <1>6 DEF LoopInv, PassInv, InPass, Follows, Late, Elapsed
<1> QED
  BY <1>6, <1>7, <1>8, <1>9 DEF LoopInv

\* The turn of a task, field by field.
LEMMA TurnStep ==
  ASSUME TypeInv, TaskTurn
  PROVE  \E task \in Tasks :
           /\ task = pass.at - 1 /\ stalled = 0 /\ ~pass.writing
           /\ hw' = hw /\ sw' = sw /\ held' = held /\ stalled' = stalled /\ epoch' = epoch
           /\ last' = IF SlotDue(task) THEN [last EXCEPT ![task] = pass.epoch] ELSE last
           /\ pass' \in Pass /\ record' \in Record
           /\ pass'.epoch = pass.epoch /\ pass'.slot = pass.slot
           /\ pass'.ticks = pass.ticks
           /\ pass'.at = IF task = Store THEN 0 ELSE pass.at + 1
           /\ pass'.writing => SlotDue(task) /\ task = Store /\ FlashQuiet
           /\ ~SlotDue(task) => record' = record
           /\ SlotDue(task) =>
                /\ record'.measured = record.measured
                /\ record'.ran = [record.ran EXCEPT ![task] = pass.epoch]
                /\ record'.missed <=> record.missed \/ ~Follows(pass.epoch, record.ran[task])
<1> DEFINE task == pass.at - 1
<1>1. /\ stalled = 0 /\ ~pass.writing /\ task \in Tasks
      /\ hw' = hw /\ sw' = sw /\ held' = held /\ stalled' = stalled /\ epoch' = epoch
      /\ last' = IF SlotDue(task) THEN [last EXCEPT ![task] = pass.epoch] ELSE last
      /\ record' = IF ~SlotDue(task) THEN record
                   ELSE [record EXCEPT !.ran[task] = pass.epoch,
                           !.missed = record.missed \/ ~Follows(pass.epoch, record.ran[task])]
  BY DEF TaskTurn, Free
<1>2. PICK writing \in {FALSE} \cup {SlotDue(task) /\ task = Store /\ FlashQuiet} :
        pass' = [pass EXCEPT !.at = IF task = Store THEN 0 ELSE pass.at + 1,
                             !.writing = writing]
  BY DEF TaskTurn
<1>3. pass \in Pass /\ record \in Record /\ pass.epoch \in 0 .. Epochs - 1
  BY Fields DEF TypeInv
<1>4. (IF task = Store THEN 0 ELSE pass.at + 1) \in 0 .. Store + 1
  <2>1. pass.at \in Nat /\ Store \in Nat /\ task \in 1 .. Store
    BY <1>1, TaskTypes, Fields
  <2> QED
    BY <2>1
<1>5. writing \in BOOLEAN /\ (writing => SlotDue(task) /\ task = Store /\ FlashQuiet)
  BY <1>2
<1>6. task = pass.at - 1
  OBVIOUS
<1> HIDE DEF task
<1>7. /\ pass' \in Pass /\ pass'.epoch = pass.epoch /\ pass'.slot = pass.slot
      /\ pass'.ticks = pass.ticks /\ (pass'.writing <=> writing)
      /\ pass'.at = IF task = Store THEN 0 ELSE pass.at + 1
  BY <1>2, <1>3, <1>4, <1>5 DEF Pass
<1>8. CASE ~SlotDue(task)
  BY <1>1, <1>3, <1>5, <1>6, <1>7, <1>8
<1>9. CASE SlotDue(task)
  <2> DEFINE missed == record.missed \/ ~Follows(pass.epoch, record.ran[task])
  <2>1. record' = [record EXCEPT !.ran = [record.ran EXCEPT ![task] = pass.epoch],
                                 !.missed = missed]
    BY <1>1, <1>9
  <2>2. missed \in BOOLEAN /\ record.ran \in [Tasks -> 0 .. Epochs - 1]
    BY <1>3 DEF Record
  <2> HIDE DEF missed
  <2>3. [record.ran EXCEPT ![task] = pass.epoch] \in [Tasks -> 0 .. Epochs - 1]
    BY <1>3, <2>2
  <2>4. /\ record' \in Record /\ record'.measured = record.measured
        /\ record'.ran = [record.ran EXCEPT ![task] = pass.epoch]
        /\ (record'.missed <=> missed)
    BY <1>3, <2>1, <2>2, <2>3 DEF Record
  <2> QED
    BY <1>1, <1>5, <1>6, <1>7, <1>9, <2>4 DEF missed
<1> QED
  BY <1>8, <1>9

LEMMA LoopInvTurn ==
  ASSUME LoopInv, TaskTurn
  PROVE  LoopInv'
<1>1. PICK task \in Tasks :
        /\ task = pass.at - 1 /\ stalled = 0 /\ ~pass.writing
        /\ hw' = hw /\ sw' = sw /\ held' = held /\ stalled' = stalled /\ epoch' = epoch
        /\ last' = IF SlotDue(task) THEN [last EXCEPT ![task] = pass.epoch] ELSE last
        /\ pass' \in Pass /\ record' \in Record
        /\ pass'.epoch = pass.epoch /\ pass'.slot = pass.slot
        /\ pass'.ticks = pass.ticks
        /\ pass'.at = IF task = Store THEN 0 ELSE pass.at + 1
        /\ pass'.writing => SlotDue(task) /\ task = Store /\ FlashQuiet
  BY TurnStep DEF LoopInv
<1>2. pass.at > 0 /\ LoopForeground
  BY <1>1, Fields, TaskTypes DEF LoopInv, LoopForeground
<1>3. WaitInv' /\ SlotInv' /\ PulseInv' /\ (\A p : Phase(p)' = Phase(p))
  BY <1>2, LoopForegroundStep
<1>4. last \in [Tasks -> 0 .. Epochs - 1] /\ pass.epoch \in 0 .. Epochs - 1
  BY Fields DEF LoopInv, TypeInv
<1>5. last' \in [Tasks -> 0 .. Epochs - 1]
  BY <1>1, <1>4
<1>6. TypeInv'
  BY <1>1, <1>5 DEF LoopInv, TypeInv
<1>7. pass.slot = 0 => ~SlotDue(task)
  BY <1>1, TaskTypes DEF SlotDue
<1>8. StartInv'
  BY <1>1, <1>3, <1>7 DEF LoopInv, StartInv
<1>9. pass'.writing => pass'.at = 0 /\ last'[Store] = pass'.epoch
  BY <1>1, <1>4
<1>10. Phase("SPANNED") => ~pass'.writing /\ last'[Store] = sw.sequence
  <2>1. ASSUME Phase("SPANNED")
        PROVE  ~SlotDue(Store) /\ last[Store] = sw.sequence
    BY <1>2, <2>1 DEF LoopInv, PassInv, SlotDue
  <2> QED
    BY <1>1, <1>4, <2>1, TaskTypes
<1>11. PassInv'
  BY <1>1, <1>2, <1>3, <1>9, <1>10 DEF LoopInv, PassInv, InPass, Late, Elapsed
<1> QED
  BY <1>3, <1>6, <1>8, <1>11 DEF LoopInv

LEMMA LoopInvNext ==
  LoopInv /\ [SchedulerNext]_schedulerVars => LoopInv'
<1> SUFFICES ASSUME LoopInv, [SchedulerNext]_schedulerVars
             PROVE  LoopInv'
  OBVIOUS
<1>1. CASE SchedulerPass
  BY <1>1, LoopInvPass
<1>2. CASE Snapshot \/ NoSnapshot
  BY <1>2, LoopInvSnapshot
<1>3. CASE TaskTurn
  BY <1>3, LoopInvTurn
<1>4. CASE Writes
  BY <1>4, LoopInvWrites
<1>5. CASE Written
  BY <1>5, LoopInvWritten
<1>6. CASE Tick
  BY <1>6, LoopInvTick
<1>7. CASE Interrupt
  BY <1>7, LoopInvT3, LoopInvT4 DEF Interrupt
<1>8. CASE UNCHANGED schedulerVars
  BY <1>8 DEF schedulerVars, LoopInv, TypeInv, StartInv, WaitInv, SlotInv, PulseInv, PassInv,
              InPass, Phase, SlotTime, Late, Elapsed, Span, Follows
<1> QED
  BY <1>1, <1>2, <1>3, <1>4, <1>5, <1>6, <1>7, <1>8 DEF SchedulerNext

\* The timers, their handlers and the pass over them keep LoopInv.
THEOREM LoopInvariant == SchedulerSpec => []LoopInv
BY LoopInvInit, LoopInvNext, PTL DEF SchedulerSpec


-----------------------------------------------------------------------------
\* What the rest of the clock reads of the timers

\* A whole number of slots and a remainder, rounded to the nearest slot.
LEMMA Rounds ==
  ASSUME NEW n \in Nat, NEW r \in 0 .. SlotTicks - 1
  PROVE  (Span(n) + r + SlotTicks \div 2) \div SlotTicks
           = n + (IF r >= SlotTicks \div 2 THEN 1 ELSE 0)
<1> DEFINE half == SlotTicks \div 2
<1>1. half \in Nat /\ SlotTicks = 2 * half /\ SlotTicks \in Nat
  BY TickTypes, TimerAssumption
<1>2. Span(n) \in Nat /\ Span(n + 1) = Span(n) + SlotTicks /\ r \in Nat /\ r < SlotTicks
  BY SpanNext, TickTypes
<1> HIDE DEF half
<1>3. CASE r >= half
  <2>1. r - half \in 0 .. SlotTicks - 1 /\ n + 1 \in Nat
    BY <1>1, <1>2, <1>3
  <2>2. Span(n) + r + half = Span(n + 1) + (r - half)
    BY <1>1, <1>2
  <2>3. (Span(n + 1) + (r - half)) \div SlotTicks = n + 1
    BY <2>1, SlotsUnique
  <2>4. (Span(n) + r + half) \div SlotTicks = n + 1
    BY <2>2, <2>3
  <2> QED
    BY <1>3, <2>4 DEF half
<1>4. CASE ~(r >= half)
  <2>1. r + half \in 0 .. SlotTicks - 1
    BY <1>1, <1>2, <1>4
  <2>2. Span(n) + r + half = Span(n) + (r + half)
    BY <1>1, <1>2
  <2>3. (Span(n) + (r + half)) \div SlotTicks = n
    BY <2>1, SlotsUnique
  <2>4. (Span(n) + r + half) \div SlotTicks = n
    BY <2>2, <2>3
  <2> QED
    BY <1>4, <2>4 DEF half
<1> QED
  BY <1>3, <1>4

LEMMA SlotElapsed == LoopInv => SlotIsElapsed
<1> SUFFICES ASSUME LoopInv, epoch.phase = "GOOD", ~Pending, stalled = 0
             PROVE  sw.slot = hw.count \div SlotTicks /\ hw.t4 = hw.count % SlotTicks
  BY DEF SlotIsElapsed
<1> USE Fields, TickTypes DEF LoopInv
<1>1. hw.count = Span(sw.slot) + hw.t4
  <2>1. SlotTime = hw.count /\ ~hw.t4if
    BY DEF SlotInv, Phase, Pending
  <2> QED
    BY <2>1, SpanNext DEF SlotTime
<1>2. sw.slot \in Nat /\ hw.t4 \in 0 .. SlotTicks - 1
  OBVIOUS
<1> QED
  BY <1>1, <1>2, SlotsUnique

\* The boundaries the epoch interrupt adds are the ones that were not counted,
\* and the round-up of what T4 had of the next when the epoch came.
LEMMA MillisecondsRounded == LoopInv => MillisecondsRound
<1> SUFFICES ASSUME LoopInv, hw.t3if, stalled = 0, epoch.phase = "GOOD"
             PROVE  Counted = (epoch.length + SlotTicks \div 2) \div SlotTicks
  BY DEF MillisecondsRound
<1> USE Fields, TickTypes DEF LoopInv
<1> DEFINE after == hw.t4 < hw.count
           stood == IF after THEN hw.t4 + SlotTicks - hw.count ELSE hw.t4 - hw.count
           counted == sw.slot + (IF hw.t4if /\ ~after THEN 1 ELSE 0)
           rounded == IF stood >= SlotTicks \div 2 THEN 1 ELSE 0
<1>1. /\ hw.t4on /\ sw.ms = sw.slot /\ hw.count < SlotTicks
      /\ SlotTime = epoch.length + hw.count /\ (after => hw.t4if)
  BY DEF StartInv, WaitInv, SlotInv, Phase
<1>2. hw.count % LowTicks = hw.count
  <2>1. LowTicks \in Nat /\ LowTicks > SlotTicks
    BY TimerAssumption
  <2> QED
    BY <1>1, <2>1
<1>3. Counted = counted + rounded
  <2>1. RestartScheduler(hw).boundaries = (IF hw.t4if /\ ~after THEN 1 ELSE 0) + rounded
    BY <1>1, <1>2 DEF RestartScheduler
  <2> QED
    BY <1>1, <2>1 DEF Counted
<1>4. counted \in Nat /\ stood \in 0 .. SlotTicks - 1
  BY <1>1
<1>5. epoch.length = Span(counted) + stood
  <2>1. /\ Span(sw.slot) \in Nat /\ Span(sw.slot + 1) = Span(sw.slot) + SlotTicks
        /\ Span(sw.slot) + hw.t4 + (IF hw.t4if THEN SlotTicks ELSE 0)
             = epoch.length + hw.count
    BY <1>1, SpanNext DEF SlotTime
  <2>2. CASE after
    BY <1>1, <2>1, <2>2
  <2>3. CASE ~after /\ hw.t4if
    BY <1>1, <2>1, <2>3
  <2>4. CASE ~after /\ ~hw.t4if
    BY <1>1, <2>1, <2>4
  <2> QED
    BY <2>2, <2>3, <2>4
<1>6. rounded = IF stood >= SlotTicks \div 2 THEN 1 ELSE 0
  OBVIOUS
<1> HIDE DEF counted, stood, rounded
<1>7. (Span(counted) + stood + SlotTicks \div 2) \div SlotTicks = counted + rounded
  BY <1>4, <1>6, Rounds
<1> QED
  BY <1>3, <1>5, <1>7

\* The slot is the time since the epoch, each epoch counts its length in
\* milliseconds, and has its edge: whatever the latencies of the handlers, the
\* lengths requested and the flash operations between two epochs.
THEOREM TimerIsSound == SchedulerSpec => []TimerSound
<1>1. LoopInv => TimerSound
  BY SlotElapsed, MillisecondsRounded DEF TimerSound, EdgeEveryEpoch, LoopInv, PulseInv
<1> QED
  BY <1>1, LoopInvariant, PTL

-----------------------------------------------------------------------------
\* The loop keeps up with the epochs

\* The last tick at which slot n may not have been counted yet.
Latest(n) == Span(n) + Latency

\* Intervals that leave the tasks, the settings' write and the measurement the
\* time they take, as an interval about nominal or longer does.
IntervalsLong ==
  \A p \in Periods : /\ p > Latest(LastSlot + 1) + PassTicks + FlashTicks
                     /\ p > Latest(MeasureSlot) + 2 * PassTicks + FlashTicks

\* What a write may add to the time a pass takes.
Slack == IF pass.writing THEN Elapsed ELSE IF pass.at = 0 THEN FlashTicks ELSE 0

\* Whatever may write began and ends well before the end of its epoch.
EarlyInv ==
  /\ Phase("STARTING") \/ Phase("GOOD")
  /\ pass.at > 0 /\ pass.epoch # sw.sequence => ~hw.t3if /\ hw.count <= Latency + pass.ticks
  /\ pass.at > 0 /\ pass.slot \in 1 .. LastSlot =>
       /\ pass.epoch = sw.sequence /\ ~hw.t3if
       /\ hw.count <= Latest(LastSlot + 1) + pass.ticks
  /\ pass.writing =>
       /\ pass.epoch = sw.sequence /\ ~hw.t3if
       /\ hw.count <= Latest(LastSlot + 1) + pass.ticks + Elapsed

\* The snapshot is of the running epoch, or early enough to be taken in it.
Unmeasured == ~Phase("STARTING") /\ (sw.due \/ sw.slot < MeasureSlot)

MeasuredInv ==
  /\ sw.due => sw.slot >= MeasureSlot
  /\ ~Unmeasured => record.measured = sw.sequence
  /\ Unmeasured =>
       /\ Follows(sw.sequence, record.measured) /\ ~hw.t3if
       /\ hw.count <= Latest(MeasureSlot) + pass.ticks
                      + (IF pass.at = 1 THEN PassTicks + FlashTicks ELSE Slack)

\* A task has run in the running epoch (Done), has its turn in this pass (Next),
\* has time until its slot (Waits), or is to be run by a pass that began in the
\* epoch before (Owed).
Will(task) == pass.at \in 1 .. task + 1 /\ pass.slot >= TaskSlots[task]

Done(task)  == /\ record.ran[task] = sw.sequence
               /\ Will(task) => pass.epoch = sw.sequence
HasTurn(task) == /\ Follows(sw.sequence, record.ran[task])
                 /\ Will(task) /\ pass.epoch = sw.sequence
Waits(task) == /\ Follows(sw.sequence, record.ran[task])
               /\ Will(task) => pass.epoch = record.ran[task]
               /\ ~hw.t3if
               /\ hw.count <= Latest(TaskSlots[task]) + pass.ticks + Slack
Owed(task)  == /\ Follows(sw.sequence, pass.epoch) /\ Follows(pass.epoch, record.ran[task])
               /\ Will(task)

\* A task that has not run yet.
Fresh(task) ==
  /\ last[task] = Epochs - 1 /\ record.ran[task] = 0
  /\ \/ Phase("STARTING")
     \/ sw.sequence = 1 /\ (Will(task) => pass.epoch = 1)
     \/ sw.sequence = 2 /\ Will(task) /\ pass.epoch = 1

RanInv(task) ==
  /\ last[task] = record.ran[task] \/ Fresh(task)
  /\ Phase("STARTING") => record.ran[task] = 0
  /\ Done(task) \/ HasTurn(task) \/ Waits(task) \/ Owed(task)

ServeInv ==
  /\ EarlyInv /\ MeasuredInv /\ (\A task \in Tasks : RanInv(task))
  /\ ~record.missed

\* The next epoch but one is neither this one nor the next.
LEMMA FollowsFacts ==
  ASSUME NEW a \in 0 .. Epochs - 1, NEW b \in 0 .. Epochs - 1, NEW c \in 0 .. Epochs - 1
  PROVE  /\ Follows(a, b) => a # b
         /\ Follows(a, b) /\ Follows(b, c) => a # c
         /\ Follows(1, 0) /\ (Follows(a, 0) => a = 1) /\ (Follows(a, 1) => a = 2)
<1>1. /\ Follows(a, b) <=> a = (IF b = Epochs - 1 THEN 0 ELSE b + 1)
      /\ Follows(b, c) <=> b = (IF c = Epochs - 1 THEN 0 ELSE c + 1)
  BY EpochAfter DEF Follows
<1>2. (0 + 1) % Epochs = 1 /\ (1 + 1) % Epochs = 2
  <2>1. 0 \in 0 .. Epochs - 1 /\ 1 \in 0 .. Epochs - 1
    BY EpochTypes
  <2> DEFINE zero == 0
             one  == 1
  <2>2. zero = 0 /\ one = 1
    OBVIOUS
  <2> HIDE DEF zero, one
  <2>3. /\ (zero + 1) % Epochs = IF zero = Epochs - 1 THEN 0 ELSE zero + 1
        /\ (one + 1) % Epochs = IF one = Epochs - 1 THEN 0 ELSE one + 1
    BY <2>1, <2>2, EpochAfter
  <2> QED
    BY <2>2, <2>3, EpochTypes
<1> QED
  BY <1>1, <1>2, EpochTypes DEF Follows

LEMMA RecordFields ==
  ASSUME TypeInv, NEW task \in Tasks
  PROVE  /\ last[task] \in 0 .. Epochs - 1 /\ record.ran[task] \in 0 .. Epochs - 1
         /\ record.measured \in 0 .. Epochs - 1 /\ record.missed \in BOOLEAN
         /\ task \in 1 .. Store /\ TaskSlots[task] \in 1 .. LastSlot
<1>1. record \in Record /\ last \in [Tasks -> 0 .. Epochs - 1]
  BY DEF TypeInv
<1> QED
  BY <1>1, TaskTypes DEF Record

LEMMA LatestFacts ==
  ASSUME TypeInv, IntervalsLong
  PROVE  /\ \A n \in Nat : Latest(n) \in Nat /\ Latest(n) >= Latency
         /\ \A n, m \in Nat : n <= m => Latest(n) <= Latest(m)
         /\ hw.period > Latest(LastSlot + 1) + PassTicks + FlashTicks
         /\ hw.period > Latest(MeasureSlot) + 2 * PassTicks + FlashTicks
         /\ Slack \in Nat /\ Slack <= FlashTicks
<1>1. \A n \in Nat : Span(n) \in Nat
  BY SpanNext
<1>2. \A n, m \in Nat : n <= m => Span(n) <= Span(m)
  BY SpanGrows
<1>3. hw.period \in Periods
  BY Fields
<1>4. Slack \in Nat /\ Slack <= FlashTicks
  BY Fields, TickTypes DEF Slack, Elapsed
<1> QED
  BY <1>1, <1>2, <1>3, <1>4, TickTypes DEF Latest, IntervalsLong

\* A slot that has not been counted has not come, but for the latency.
LEMMA NotYet ==
  ASSUME IntervalsLong, LoopInv, Phase("GOOD"), stalled = 0,
         NEW n \in Nat, sw.slot < n, n <= LastSlot + 1 \/ n <= MeasureSlot
  PROVE  ~hw.t3if /\ hw.count <= Latest(n)
<1> USE Fields, TickTypes DEF LoopInv
<1>1. ~Phase("SPANNED")
  BY DEF Phase
<1>2. SlotTime <= Latest(n)
  <2>1. /\ Span(sw.slot + 1) = Span(sw.slot) + SlotTicks /\ Span(sw.slot) \in Nat
        /\ Span(n) \in Nat /\ Span(sw.slot + 1) <= Span(n)
    <3>1. sw.slot \in Nat /\ sw.slot + 1 \in Nat /\ sw.slot + 1 <= n
      OBVIOUS
    <3> QED
      BY <3>1, SpanNext, SpanGrows
  <2>2. hw.t4if => hw.t4 <= Latency
    BY <1>1 DEF WaitInv
  <2> QED
    BY <2>1, <2>2 DEF SlotTime, Latest
<1>3. hw.period > Latest(n)
  BY LatestFacts
<1>4. epoch.length = hw.period /\ Latest(n) \in Nat
  BY LatestFacts DEF SlotInv
<1> QED
  BY <1>2, <1>3, <1>4 DEF SlotInv

LEMMA ServeInvInit ==
  SchedulerInit => ServeInv
<1> SUFFICES ASSUME SchedulerInit
             PROVE  ServeInv
  OBVIOUS
<1> USE TickTypes, EpochTypes, TaskTypes DEF SchedulerInit, TimerInit
<1>1. Phase("STARTING") /\ ~record.missed
  BY DEF Phase
<1>2. EarlyInv
  BY <1>1 DEF EarlyInv
<1>3. MeasuredInv
  BY <1>1 DEF MeasuredInv, Unmeasured
<1>4. ASSUME NEW task \in Tasks
      PROVE  RanInv(task)
  BY <1>1 DEF RanInv, Fresh, Done, Will
<1> QED
  BY <1>1, <1>2, <1>3, <1>4 DEF ServeInv

LEMMA ServeInvTick ==
  ASSUME IntervalsLong, LoopInv, ServeInv, Tick
  PROVE  ServeInv'
<1> DEFINE ends == hw.count + 1 >= hw.period
           spent == pass.ticks + Slack
<1>1. /\ sw' = sw /\ epoch' = epoch /\ last' = last /\ record' = record
      /\ pass'.epoch = pass.epoch /\ pass'.slot = pass.slot /\ pass'.at = pass.at
      /\ (pass'.writing <=> pass.writing)
      /\ pass'.ticks = IF stalled > 0 THEN pass.ticks ELSE pass.ticks + 1
      /\ stalled' = IF stalled > 0 THEN stalled + 1 ELSE 0
      /\ ~ends => hw'.count = hw.count + 1 /\ (hw'.t3if <=> hw.t3if)
  BY TickStep, Fields DEF LoopInv
<1>2. IF stalled > 0 THEN stalled <= FlashTicks ELSE pass.ticks < PassTicks
  BY DEF Tick
<1>3. (stalled > 0 => pass.writing) /\ (pass.writing => pass.at = 0)
  BY DEF LoopInv, PassInv
<1> USE Fields, TickTypes DEF LoopInv
<1>4. /\ spent \in Nat /\ spent' = spent + 1 /\ spent + 1 <= PassTicks + FlashTicks
      /\ pass.writing => Slack = Elapsed /\ Slack' = Elapsed'
      /\ pass.at > 0 => stalled = 0 /\ Slack = 0 /\ Slack' = 0
  BY <1>1, <1>2, <1>3 DEF Slack, Elapsed
<1> HIDE DEF ends, spent
<1>5. /\ \A n \in Nat : Latest(n) \in Nat /\ Latest(n) >= Latency
      /\ \A n, m \in Nat : n <= m => Latest(n) <= Latest(m)
      /\ hw.period > Latest(LastSlot + 1) + PassTicks + FlashTicks
      /\ hw.period > Latest(MeasureSlot) + 2 * PassTicks + FlashTicks
  BY LatestFacts
<1>6. ASSUME NEW b \in Nat, hw.count <= b, ~hw.t3if, hw.period > b + 1
      PROVE  ~hw'.t3if /\ hw'.count <= b + 1
  BY <1>1, <1>6 DEF ends
<1>7. \A p : Phase(p)' = Phase(p)
  BY <1>1 DEF Phase
<1>8. EarlyInv'
  <2>1. ASSUME pass.at > 0, pass.epoch # sw.sequence
        PROVE  ~hw'.t3if /\ hw'.count <= Latency + pass'.ticks
    <3>1. ~hw.t3if /\ hw.count <= Latency + pass.ticks
      BY <2>1 DEF ServeInv, EarlyInv
    <3>2. Latency + pass.ticks \in Nat /\ hw.period > Latency + pass.ticks + 1
          /\ pass'.ticks = pass.ticks + 1
      BY <1>1, <1>2, <1>4, <1>5, <2>1
    <3> QED
      BY <1>6, <3>1, <3>2
  <2>2. LastSlot + 1 \in Nat /\ Latest(LastSlot + 1) \in Nat
    BY <1>5
  <2>3. ASSUME pass.at > 0, pass.slot \in 1 .. LastSlot
        PROVE  /\ pass.epoch = sw.sequence /\ ~hw'.t3if
               /\ hw'.count <= Latest(LastSlot + 1) + pass'.ticks
    <3>1. /\ pass.epoch = sw.sequence /\ ~hw.t3if
          /\ hw.count <= Latest(LastSlot + 1) + pass.ticks
      BY <2>3 DEF ServeInv, EarlyInv
    <3>2. /\ Latest(LastSlot + 1) + pass.ticks \in Nat
          /\ hw.period > Latest(LastSlot + 1) + pass.ticks + 1
          /\ pass'.ticks = pass.ticks + 1
      BY <1>1, <1>2, <1>4, <1>5, <2>2, <2>3
    <3> QED
      BY <1>6, <2>2, <3>1, <3>2
  <2>4. ASSUME pass.writing
        PROVE  /\ pass.epoch = sw.sequence /\ ~hw'.t3if
               /\ hw'.count <= Latest(LastSlot + 1) + pass'.ticks + Elapsed'
    <3>1. /\ pass.epoch = sw.sequence /\ ~hw.t3if
          /\ hw.count <= Latest(LastSlot + 1) + spent
      BY <1>4, <2>2, <2>4 DEF ServeInv, EarlyInv, spent
    <3>2. /\ Latest(LastSlot + 1) + spent \in Nat
          /\ hw.period > Latest(LastSlot + 1) + spent + 1
      BY <1>4, <1>5, <2>2
    <3>3. ~hw'.t3if /\ hw'.count <= Latest(LastSlot + 1) + spent + 1
      BY <1>6, <3>1, <3>2
    <3>4. spent' = pass'.ticks + Elapsed' /\ Elapsed' \in Nat /\ pass'.ticks \in Nat
      BY <1>1, <1>4, <2>4 DEF spent, Elapsed
    <3> QED
      BY <1>4, <2>2, <3>1, <3>3, <3>4
  <2> QED
    BY <1>1, <1>7, <2>1, <2>3, <2>4 DEF ServeInv, EarlyInv
<1>9. MeasuredInv'
  <2>1. Unmeasured' <=> Unmeasured
    BY <1>1, <1>7 DEF Unmeasured
  <2>2. Latest(MeasureSlot) \in Nat
    BY <1>5
  <2>3. ASSUME Unmeasured, pass.at = 1
        PROVE  ~hw'.t3if /\ hw'.count <= Latest(MeasureSlot) + pass'.ticks + (PassTicks + FlashTicks)
    <3>1. ~hw.t3if /\ hw.count <= Latest(MeasureSlot) + pass.ticks + (PassTicks + FlashTicks)
      BY <2>3 DEF ServeInv, MeasuredInv
    <3>2. pass'.ticks = pass.ticks + 1 /\ pass.ticks < PassTicks
      BY <1>1, <1>2, <1>4, <2>3
    <3> QED
      BY <1>1, <1>5, <2>2, <3>1, <3>2 DEF ends
  <2>4. ASSUME Unmeasured, pass.at # 1
        PROVE  ~hw'.t3if /\ hw'.count <= Latest(MeasureSlot) + pass'.ticks + Slack'
    <3>1. ~hw.t3if /\ hw.count <= Latest(MeasureSlot) + spent
      BY <2>2, <2>4 DEF ServeInv, MeasuredInv, spent, Slack
    <3>2. Latest(MeasureSlot) + spent \in Nat /\ hw.period > Latest(MeasureSlot) + spent + 1
      BY <1>4, <1>5, <2>2
    <3>3. spent' = pass'.ticks + Slack' /\ Slack' \in Nat /\ pass'.ticks \in Nat
      BY <1>1, <1>3 DEF spent, Slack, Elapsed
    <3> QED
      BY <1>4, <1>6, <2>2, <3>1, <3>2, <3>3
  <2> QED
    BY <1>1, <2>1, <2>3, <2>4 DEF ServeInv, MeasuredInv
<1>10. ASSUME NEW task \in Tasks
       PROVE  RanInv(task)'
  <2>1. RanInv(task)
    BY DEF ServeInv
  <2>2. /\ Will(task)' <=> Will(task)
        /\ Done(task)' <=> Done(task)
        /\ HasTurn(task)' <=> HasTurn(task)
        /\ Owed(task)' <=> Owed(task)
        /\ Fresh(task)' <=> Fresh(task)
    BY <1>1, <1>7 DEF Will, Done, HasTurn, Owed, Fresh, Follows
  <2>3. ASSUME Waits(task)
        PROVE  Waits(task)'
    <3>1. TaskSlots[task] \in 1 .. LastSlot
      BY RecordFields
    <3>2. Latest(TaskSlots[task]) \in Nat /\ Latest(TaskSlots[task]) <= Latest(LastSlot + 1)
          /\ Latest(LastSlot + 1) \in Nat
      BY <1>5, <3>1
    <3>3. ~hw.t3if /\ hw.count <= Latest(TaskSlots[task]) + spent
      BY <2>3, <3>2 DEF Waits, spent, Slack
    <3>4. /\ Latest(TaskSlots[task]) + spent \in Nat
          /\ hw.period > Latest(TaskSlots[task]) + spent + 1
      BY <1>4, <1>5, <3>2
    <3>5. spent' = pass'.ticks + Slack' /\ Slack' \in Nat /\ pass'.ticks \in Nat
      BY <1>1, <1>3 DEF spent, Slack, Elapsed
    <3>6. ~hw'.t3if /\ hw'.count <= Latest(TaskSlots[task]) + pass'.ticks + Slack'
      BY <1>4, <1>6, <3>2, <3>3, <3>4, <3>5
    <3> QED
      BY <1>1, <2>2, <2>3, <3>6 DEF Waits, Follows
  <2>4. last'[task] = last[task] /\ record'.ran[task] = record.ran[task]
    BY <1>1
  <2>5. Phase("STARTING")' <=> Phase("STARTING")
    BY <1>7
  <2> QED
    BY <2>1, <2>2, <2>3, <2>4, <2>5 DEF RanInv
<1> QED
  BY <1>1, <1>8, <1>9, <1>10 DEF ServeInv

\* What a step leaves alone of the timers and of the pass, a task's state rests on.
LEMMA RanKept ==
  ASSUME TypeInv, IntervalsLong, NEW task \in Tasks, RanInv(task),
         last'[task] = last[task], record'.ran[task] = record.ran[task],
         sw'.sequence = sw.sequence, epoch'.phase = epoch.phase,
         hw'.count = hw.count, hw'.t3if <=> hw.t3if,
         pass'.epoch = pass.epoch, pass'.ticks = pass.ticks,
         Will(task)' <=> Will(task), Slack' \in Nat, Slack' >= Slack
  PROVE  RanInv(task)'
<1>1. Phase("STARTING")' <=> Phase("STARTING")
  BY DEF Phase
<1>2. /\ Done(task)' <=> Done(task)
      /\ HasTurn(task)' <=> HasTurn(task)
      /\ Owed(task)' <=> Owed(task)
      /\ Fresh(task)' <=> Fresh(task)
  BY <1>1 DEF Done, HasTurn, Owed, Fresh, Follows
<1>3. ASSUME Waits(task)
      PROVE  Waits(task)'
  <2>1. TaskSlots[task] \in Nat
    BY RecordFields, TickTypes
  <2>2. Latest(TaskSlots[task]) \in Nat /\ Slack \in Nat
    BY <2>1, LatestFacts
  <2>3. hw.count <= Latest(TaskSlots[task]) + pass.ticks + Slack
    BY <1>3 DEF Waits
  <2>4. hw.count \in Nat /\ pass.ticks \in Nat
    BY Fields
  <2>5. hw'.count <= Latest(TaskSlots[task]) + pass'.ticks + Slack'
    BY <2>2, <2>3, <2>4
  <2> QED
    BY <1>3, <2>5 DEF Waits, Follows
<1> QED
  BY <1>1, <1>2, <1>3 DEF RanInv

LEMMA ServeInvT3 ==
  ASSUME IntervalsLong, LoopInv, ServeInv, Interrupt, T3Interrupt
  PROVE  ServeInv'
<1>1. /\ stalled = 0 /\ stalled' = 0 /\ hw.t3if
      /\ pass' = pass /\ last' = last /\ record' = record
      /\ hw'.count = hw.count /\ ~hw'.t3if
      /\ sw'.slot = 0 /\ sw'.sequence = (sw.sequence + 1) % Epochs
      /\ sw'.due <=> sw.due
      /\ epoch'.phase = IF Phase("SPANNED") THEN "OUT" ELSE "GOOD"
  BY T3Step DEF LoopInv
<1>2. EarlyInv /\ MeasuredInv /\ ~record.missed
  BY DEF ServeInv
<1>3. ~Phase("SPANNED") /\ ~pass.writing /\ (pass.at > 0 => pass.epoch = sw.sequence)
      /\ ~(pass.at > 0 /\ pass.slot \in 1 .. LastSlot)
  BY <1>1, <1>2 DEF EarlyInv, Phase
<1>4. Phase("GOOD")' /\ ~Phase("STARTING")'
  BY <1>1, <1>3 DEF Phase
<1>5. hw.count <= Latency
  BY <1>1, <1>3, Fields, TickTypes DEF LoopInv, WaitInv
<1>6. ~sw.due /\ record.measured = sw.sequence
  BY <1>1, <1>2 DEF MeasuredInv, Unmeasured, LoopInv, StartInv
<1>7. Follows(sw'.sequence, sw.sequence) /\ sw'.sequence \in 0 .. Epochs - 1
      /\ sw.sequence \in 0 .. Epochs - 1
  BY <1>1, Fields, EpochAfter DEF Follows, LoopInv
<1>8. Slack' \in Nat
  BY <1>1, TickTypes DEF Slack, Elapsed
<1>9. \A n \in Nat : Latest(n) \in Nat /\ Latest(n) >= Latency
  BY LatestFacts DEF LoopInv
<1>10. ASSUME NEW n \in Nat
       PROVE  hw'.count <= Latest(n) + pass'.ticks + Slack'
  BY <1>1, <1>5, <1>8, <1>9, Fields, TickTypes DEF LoopInv
<1>11. EarlyInv'
  BY <1>1, <1>3, <1>4, <1>5, Fields, TickTypes DEF EarlyInv, LoopInv
<1>12. MeasuredInv'
  <2>1. hw'.count <= Latest(MeasureSlot) + pass'.ticks + (PassTicks + FlashTicks)
    BY <1>1, <1>5, <1>9, Fields, TickTypes DEF LoopInv
  <2>2. hw'.count <= Latest(MeasureSlot) + pass'.ticks + Slack'
    BY <1>10, TickTypes
  <2>3. Follows(sw'.sequence, record'.measured) /\ ~sw'.due /\ sw'.slot < MeasureSlot
    BY <1>1, <1>6, <1>7, TickTypes
  <2> QED
    BY <1>1, <1>4, <2>1, <2>2, <2>3 DEF MeasuredInv, Unmeasured
<1>13. ASSUME NEW task \in Tasks
       PROVE  RanInv(task)'
  <2> DEFINE ran == record.ran[task]
             slot == TaskSlots[task]
  <2>1. RanInv(task)
    BY DEF ServeInv
  <2>2. /\ last[task] \in 0 .. Epochs - 1 /\ ran \in 0 .. Epochs - 1
        /\ task \in Nat /\ slot \in Nat
    BY RecordFields, TickTypes, TaskTypes DEF LoopInv
  <2>3. last'[task] = last[task] /\ record'.ran[task] = ran /\ (Will(task)' <=> Will(task))
    BY <1>1 DEF Will
  <2> HIDE DEF ran, slot
  <2>4. Will(task) => pass.epoch = sw.sequence
    BY <1>3, <2>2, Fields DEF Will, LoopInv
  <2>5. Done(task) \/ HasTurn(task)
    BY <1>1, <1>7, <2>1, <2>4, Fields, FollowsFacts DEF RanInv, Waits, Owed, LoopInv
  <2>6. ASSUME Done(task)
        PROVE  Waits(task)'
    <3>1. ran = sw.sequence
      BY <2>6 DEF Done, ran
    <3>2. hw'.count <= Latest(slot) + pass'.ticks + Slack'
      BY <1>10, <2>2
    <3> QED
      BY <1>1, <1>7, <2>3, <2>4, <3>1, <3>2 DEF Waits, slot
  <2>7. ASSUME HasTurn(task)
        PROVE  Owed(task)'
    BY <1>1, <1>7, <2>3, <2>7 DEF HasTurn, Owed, Follows, ran
  <2>8. ASSUME Fresh(task)
        PROVE  Fresh(task)'
    <3>1. last[task] = Epochs - 1 /\ ran = 0
      BY <2>8 DEF Fresh, ran
    <3>2. CASE Phase("STARTING")
      <4>1. pass.slot = 0 /\ sw.sequence = 0
        BY <3>2 DEF LoopInv, StartInv
      <4>2. ~Will(task) /\ sw'.sequence = 1
        BY <1>7, <2>2, <4>1, FollowsFacts, RecordFields DEF Will, LoopInv
      <4> QED
        BY <2>3, <3>1, <4>2 DEF Fresh
    <3>3. CASE sw.sequence = 1
      <4>1. HasTurn(task)
        BY <2>5, <3>1, <3>3 DEF Done, ran
      <4>2. Will(task) /\ pass.epoch = 1 /\ sw'.sequence = 2
        BY <1>7, <3>3, <4>1, FollowsFacts DEF HasTurn
      <4> QED
        BY <1>1, <2>3, <3>1, <4>2 DEF Fresh
    <3>4. CASE sw.sequence = 2 /\ Will(task) /\ pass.epoch = 1
      BY <2>4, <3>4
    <3> QED
      BY <2>8, <3>2, <3>3, <3>4 DEF Fresh
  <2> QED
    BY <1>4, <2>1, <2>3, <2>5, <2>6, <2>7, <2>8 DEF RanInv, ran
<1> QED
  BY <1>1, <1>2, <1>11, <1>12, <1>13 DEF ServeInv

LEMMA ServeInvT4 ==
  ASSUME IntervalsLong, LoopInv, ServeInv, Interrupt, T4Interrupt
  PROVE  ServeInv'
<1>1. /\ stalled = 0 /\ stalled' = 0 /\ hw.t4if /\ ~hw.t3if /\ epoch' = epoch
      /\ pass' = pass /\ last' = last /\ record' = record
      /\ hw'.count = hw.count /\ ~hw'.t3if
      /\ sw'.slot = sw.slot + 1 /\ sw'.sequence = sw.sequence
      /\ sw'.due <=> sw.due \/ MeasureSlot = sw.slot + 1
  BY T4Step DEF LoopInv
<1>2. EarlyInv /\ MeasuredInv /\ ~record.missed
  BY DEF ServeInv
<1>3. Slack' = Slack /\ Elapsed' = Elapsed /\ Slack \in Nat
  BY <1>1, Fields, TickTypes DEF LoopInv, Slack, Elapsed
<1>4. \A p : Phase(p)' = Phase(p)
  BY <1>1 DEF Phase
<1>5. EarlyInv'
  BY <1>1, <1>2, <1>3, <1>4 DEF EarlyInv
<1>6. MeasuredInv'
  <2>1. ~Phase("STARTING")
    BY <1>1 DEF LoopInv, StartInv
  <2>2. sw.slot \in Nat /\ MeasureSlot \in Nat
    BY Fields, TickTypes DEF LoopInv
  <2>3. (Unmeasured' <=> Unmeasured) /\ (sw'.due => sw'.slot >= MeasureSlot)
    BY <1>1, <1>2, <1>4, <2>1, <2>2 DEF Unmeasured, MeasuredInv
  <2> QED
    BY <1>1, <1>2, <1>3, <2>3 DEF MeasuredInv
<1>7. ASSUME NEW task \in Tasks
      PROVE  RanInv(task)'
  <2>1. Will(task)' <=> Will(task)
    BY <1>1 DEF Will
  <2>2. RanInv(task) /\ Slack >= Slack
    BY <1>3 DEF ServeInv
  <2> QED
    BY <1>1, <1>3, <2>1, <2>2, RanKept DEF LoopInv
<1> QED
  BY <1>1, <1>2, <1>5, <1>6, <1>7 DEF ServeInv

LEMMA ServeInvWrites ==
  ASSUME IntervalsLong, LoopInv, ServeInv, Writes
  PROVE  ServeInv'
<1>1. /\ stalled = 0 /\ stalled' = 1 /\ hw' = hw /\ sw' = sw /\ epoch' = epoch
      /\ pass' = pass /\ last' = last /\ record' = record
  BY DEF Writes, FlashStarts
<1>2. Slack' = Slack /\ Elapsed' = Elapsed /\ Slack \in Nat
  BY <1>1, TickTypes DEF Slack, Elapsed
<1>3. \A p : Phase(p)' = Phase(p)
  BY <1>1 DEF Phase
<1>4. EarlyInv /\ MeasuredInv /\ ~record.missed
  BY DEF ServeInv
<1>5. EarlyInv'
  BY <1>1, <1>2, <1>3, <1>4 DEF EarlyInv
<1>6. Unmeasured' <=> Unmeasured
  BY <1>1, <1>3 DEF Unmeasured
<1>7. MeasuredInv'
  BY <1>1, <1>2, <1>4, <1>6 DEF MeasuredInv
<1>8. ASSUME NEW task \in Tasks
      PROVE  RanInv(task)'
  <2>1. Will(task)' <=> Will(task)
    BY <1>1 DEF Will
  <2>2. RanInv(task) /\ Slack >= Slack
    BY <1>2 DEF ServeInv
  <2> QED
    BY <1>1, <1>2, <2>1, <2>2, RanKept DEF LoopInv
<1> QED
  BY <1>1, <1>4, <1>5, <1>7, <1>8 DEF ServeInv

LEMMA ServeInvWritten ==
  ASSUME IntervalsLong, LoopInv, ServeInv, Written
  PROVE  ServeInv'
<1> DEFINE q == hw.count \div SlotTicks
<1>1. /\ stalled > 0 /\ stalled' = 0 /\ last' = last /\ record' = record
      /\ pass' = [pass EXCEPT !.writing = FALSE]
      /\ ~hw.t3if =>
           /\ epoch' = epoch /\ hw'.count = hw.count /\ ~hw'.t3if
           /\ sw.slot <= q /\ sw'.slot = q /\ sw'.sequence = sw.sequence
           /\ sw'.due <=> sw.due \/ MeasureSlot \in sw.slot + 1 .. q
  BY WrittenStep
<1>2. EarlyInv /\ MeasuredInv /\ ~record.missed
  BY DEF ServeInv
<1>3. pass.writing /\ pass.at = 0 /\ ~hw.t3if /\ ~Phase("STARTING")
  BY <1>1, <1>2 DEF LoopInv, PassInv, EarlyInv, StartInv
<1>4. /\ ~pass'.writing /\ pass'.epoch = pass.epoch /\ pass'.slot = pass.slot
      /\ pass'.at = 0 /\ pass'.ticks = pass.ticks
  BY <1>1, <1>3 DEF LoopInv, TypeInv, Pass
<1>5. q \in Nat /\ sw.slot \in Nat /\ MeasureSlot \in Nat
  BY Slots, Fields, TickTypes DEF LoopInv
<1> HIDE DEF q
<1>6. /\ epoch' = epoch /\ hw'.count = hw.count /\ ~hw'.t3if
      /\ sw.slot <= q /\ sw'.slot = q /\ sw'.sequence = sw.sequence
      /\ sw'.due <=> sw.due \/ MeasureSlot \in sw.slot + 1 .. q
  BY <1>1, <1>3
<1>7. Slack \in Nat /\ Slack' \in Nat /\ Slack' >= Slack
  BY <1>1, <1>3, <1>4, Fields, TickTypes DEF LoopInv, Slack, Elapsed
<1>8. \A p : Phase(p)' = Phase(p)
  BY <1>6 DEF Phase
<1>9. EarlyInv'
  BY <1>2, <1>4, <1>8 DEF EarlyInv
<1>10. MeasuredInv'
  <2>1. (Unmeasured' <=> Unmeasured) /\ (sw'.due => sw'.slot >= MeasureSlot)
    BY <1>2, <1>3, <1>5, <1>6, <1>8 DEF Unmeasured, MeasuredInv
  <2>2. ASSUME Unmeasured
        PROVE  hw'.count <= Latest(MeasureSlot) + pass'.ticks + Slack'
    <3>1. hw.count <= Latest(MeasureSlot) + pass.ticks + Slack
      BY <1>2, <1>3, <2>2 DEF MeasuredInv
    <3>2. Latest(MeasureSlot) \in Nat /\ hw.count \in Nat /\ pass.ticks \in Nat
      BY <1>5, LatestFacts, Fields DEF LoopInv
    <3> QED
      BY <1>4, <1>6, <1>7, <3>1, <3>2
  <2> QED
    BY <1>1, <1>2, <1>4, <1>6, <2>1, <2>2 DEF MeasuredInv
<1>11. ASSUME NEW task \in Tasks
       PROVE  RanInv(task)'
  <2>1. Will(task)' <=> Will(task)
    BY <1>3, <1>4 DEF Will
  <2>2. RanInv(task)
    BY DEF ServeInv
  <2> QED
    BY <1>1, <1>3, <1>4, <1>6, <1>7, <2>1, <2>2, RanKept DEF LoopInv
<1> QED
  BY <1>1, <1>2, <1>9, <1>10, <1>11 DEF ServeInv

LEMMA ServeInvPass ==
  ASSUME IntervalsLong, LoopInv, ServeInv, SchedulerPass
  PROVE  ServeInv'
<1>1. /\ hw' = hw /\ sw' = sw /\ stalled' = stalled /\ epoch' = epoch
      /\ last' = last /\ record' = record /\ stalled = 0 /\ ~pass.writing /\ pass.at = 0
      /\ pass' = [pass EXCEPT !.epoch = sw.sequence, !.slot = sw.slot, !.at = 1, !.ticks = 0]
  BY DEF SchedulerPass, Free
<1>2. /\ pass'.epoch = sw.sequence /\ pass'.slot = sw.slot /\ pass'.at = 1
      /\ pass'.ticks = 0 /\ ~pass'.writing
  BY <1>1 DEF LoopInv, TypeInv, Pass
<1>3. EarlyInv /\ MeasuredInv /\ ~record.missed
  BY DEF ServeInv
<1>4. Slack = FlashTicks /\ Slack' = 0
  BY <1>1, <1>2 DEF Slack
<1>5. \A p : Phase(p)' = Phase(p)
  BY <1>1 DEF Phase
<1>6. \A n \in Nat : Latest(n) \in Nat
  BY LatestFacts DEF LoopInv
<1>7. EarlyInv'
  <2>1. ASSUME sw.slot \in 1 .. LastSlot
        PROVE  ~hw.t3if /\ hw.count <= Latest(LastSlot + 1)
    <3>1. Phase("GOOD")
      BY <1>3, <2>1 DEF EarlyInv, LoopInv, StartInv
    <3>2. LastSlot + 1 \in Nat /\ sw.slot < LastSlot + 1
      BY <2>1, TickTypes
    <3> QED
      BY <1>1, <3>1, <3>2, NotYet
  <2>2. hw.count \in Nat /\ Latest(LastSlot + 1) \in Nat
    BY <1>6, Fields, TickTypes DEF LoopInv
  <2> QED
    BY <1>1, <1>2, <1>3, <1>5, <2>1, <2>2 DEF EarlyInv
<1>8. MeasuredInv'
  <2>1. Unmeasured' <=> Unmeasured
    BY <1>1, <1>5 DEF Unmeasured
  <2>2. ASSUME Unmeasured
        PROVE  hw.count <= Latest(MeasureSlot) + 0 + (PassTicks + FlashTicks)
    <3>1. hw.count <= Latest(MeasureSlot) + pass.ticks + FlashTicks
      BY <1>1, <1>3, <1>4, <2>2 DEF MeasuredInv
    <3> QED
      BY <1>6, <3>1, Fields, TickTypes DEF LoopInv
  <2> QED
    BY <1>1, <1>2, <1>3, <2>1, <2>2 DEF MeasuredInv
<1>9. ASSUME NEW task \in Tasks
      PROVE  RanInv(task)'
  <2>1. RanInv(task)
    BY DEF ServeInv
  <2>2. /\ last[task] \in 0 .. Epochs - 1 /\ record.ran[task] \in 0 .. Epochs - 1
        /\ task \in 1 .. Store /\ TaskSlots[task] \in 1 .. LastSlot
    BY RecordFields DEF LoopInv
  <2>3. ~Will(task) /\ (Will(task)' <=> sw.slot >= TaskSlots[task])
    BY <1>1, <1>2, <2>2, TaskTypes DEF Will
  <2>4. last'[task] = last[task] /\ record'.ran[task] = record.ran[task]
    BY <1>1
  <2>5. Done(task) \/ Waits(task)
    BY <2>1, <2>3 DEF RanInv, HasTurn, Owed
  <2>6. ASSUME Done(task)
        PROVE  Done(task)'
    BY <1>1, <1>2, <2>4, <2>6 DEF Done
  <2>7. ASSUME Waits(task), Will(task)'
        PROVE  HasTurn(task)'
    BY <1>1, <1>2, <2>4, <2>7 DEF Waits, HasTurn, Follows
  <2>8. ASSUME Waits(task), ~Will(task)'
        PROVE  Waits(task)'
    <3>1. Phase("GOOD")
      <4>1. ASSUME Phase("STARTING")
            PROVE  FALSE
        <5>1. sw.sequence = 0 /\ record.ran[task] = 0 /\ Follows(sw.sequence, record.ran[task])
          BY <2>1, <2>8, <4>1 DEF RanInv, Waits, LoopInv, StartInv
        <5> QED
          BY <2>2, <5>1, FollowsFacts
      <4> QED
        BY <1>3, <4>1 DEF EarlyInv
    <3>2. sw.slot < TaskSlots[task] /\ TaskSlots[task] \in Nat /\ TaskSlots[task] <= LastSlot + 1
      BY <2>2, <2>3, <2>8, Fields, TickTypes DEF LoopInv
    <3>3. ~hw.t3if /\ hw.count <= Latest(TaskSlots[task])
      BY <1>1, <3>1, <3>2, NotYet
    <3>4. hw'.count <= Latest(TaskSlots[task]) + pass'.ticks + Slack'
      BY <1>1, <1>2, <1>4, <1>6, <3>2, <3>3
    <3> QED
      BY <1>1, <2>4, <2>8, <3>3, <3>4 DEF Waits, Follows
  <2>9. ASSUME Fresh(task)
        PROVE  Fresh(task)'
    BY <1>1, <1>2, <1>5, <2>3, <2>4, <2>9 DEF Fresh
  <2> QED
    BY <1>5, <2>1, <2>4, <2>5, <2>6, <2>7, <2>8, <2>9 DEF RanInv
<1> QED
  BY <1>1, <1>3, <1>7, <1>8, <1>9 DEF ServeInv

LEMMA ServeInvSnapshot ==
  ASSUME IntervalsLong, LoopInv, ServeInv, Snapshot \/ NoSnapshot
  PROVE  ServeInv'
<1>1. /\ hw' = hw /\ stalled' = stalled /\ epoch' = epoch
      /\ last' = last /\ stalled = 0 /\ ~pass.writing /\ pass.at = 1
      /\ pass' = [pass EXCEPT !.at = 2]
  BY DEF Snapshot, NoSnapshot, Free
<1>2. /\ pass'.epoch = pass.epoch /\ pass'.slot = pass.slot /\ pass'.at = 2
      /\ pass'.ticks = pass.ticks /\ ~pass'.writing
  BY <1>1 DEF LoopInv, TypeInv, Pass
<1>3. EarlyInv /\ MeasuredInv /\ ~record.missed
  BY DEF ServeInv
<1>4. sw \in Software /\ record \in Record
  BY DEF LoopInv, TypeInv
<1>5. sw'.slot = sw.slot /\ sw'.sequence = sw.sequence /\ ~sw'.due
  <2>1. CASE Snapshot
    <3>1. PICK period \in Periods : sw' = [sw EXCEPT !.due = FALSE, !.requested = period]
      BY <2>1 DEF Snapshot
    <3> QED
      BY <1>4, <3>1 DEF Software
  <2>2. CASE NoSnapshot
    BY <2>2 DEF NoSnapshot
  <2> QED
    BY <2>1, <2>2
<1>6. /\ record'.ran = record.ran /\ ~record'.missed
      /\ sw.due => record'.measured = sw.sequence
      /\ ~sw.due => record'.measured = record.measured
  <2>1. CASE Snapshot
    <3>1. sw.due /\ ~Phase("STARTING")
      BY <2>1 DEF Snapshot, LoopInv, StartInv
    <3>2. Follows(sw.sequence, record.measured)
      BY <1>3, <3>1 DEF MeasuredInv, Unmeasured
    <3>3. record' = [record EXCEPT !.measured = sw.sequence,
                       !.missed = record.missed \/ ~Follows(sw.sequence, record.measured)]
      BY <2>1 DEF Snapshot
    <3> QED
      BY <1>3, <1>4, <3>1, <3>2, <3>3 DEF Record
  <2>2. CASE NoSnapshot
    BY <1>3, <2>2 DEF NoSnapshot
  <2> QED
    BY <2>1, <2>2
<1>7. \A p : Phase(p)' = Phase(p)
  BY <1>1 DEF Phase
<1>8. Slack = 0 /\ Slack' = 0
  BY <1>1, <1>2 DEF Slack
<1>9. EarlyInv'
  BY <1>1, <1>2, <1>3, <1>5, <1>7 DEF EarlyInv
<1>10. MeasuredInv'
  <2>1. sw.slot \in Nat /\ MeasureSlot \in Nat /\ hw.count \in Nat /\ pass.ticks \in Nat
        /\ Latest(MeasureSlot) \in Nat
    BY Fields, TickTypes, LatestFacts DEF LoopInv
  <2>2. Unmeasured' => ~Phase("STARTING") /\ sw.slot < MeasureSlot
    BY <1>5, <1>7 DEF Unmeasured
  <2>3. ASSUME Unmeasured'
        PROVE  /\ Follows(sw'.sequence, record'.measured) /\ ~hw'.t3if
               /\ hw'.count <= Latest(MeasureSlot) + pass'.ticks + Slack'
    <3>1. ~sw.due /\ Unmeasured
      BY <1>3, <2>1, <2>2, <2>3 DEF MeasuredInv, Unmeasured
    <3>2. Phase("GOOD")
      BY <1>3, <2>2, <2>3 DEF EarlyInv
    <3>3. ~hw.t3if /\ hw.count <= Latest(MeasureSlot)
      BY <1>1, <2>1, <2>2, <2>3, <3>2, NotYet
    <3> QED
      BY <1>1, <1>2, <1>3, <1>5, <1>6, <1>8, <2>1, <3>1, <3>3 DEF MeasuredInv, Follows
  <2>4. ~Unmeasured' => record'.measured = sw'.sequence
    <3>1. CASE sw.due
      BY <1>5, <1>6, <3>1
    <3>2. CASE ~sw.due
      BY <1>3, <1>5, <1>6, <1>7, <3>2 DEF MeasuredInv, Unmeasured
    <3> QED
      BY <3>1, <3>2
  <2> QED
    BY <1>2, <1>5, <2>3, <2>4 DEF MeasuredInv
<1>11. ASSUME NEW task \in Tasks
       PROVE  RanInv(task)'
  <2>1. Will(task)' <=> Will(task)
    <3>1. task \in Nat /\ task >= 1
      BY TaskTypes
    <3> QED
      BY <1>1, <1>2, <3>1 DEF Will
  <2>2. RanInv(task)
    BY DEF ServeInv
  <2> QED
    BY <1>1, <1>2, <1>5, <1>6, <1>8, <2>1, <2>2, RanKept DEF LoopInv
<1> QED
  BY <1>6, <1>9, <1>10, <1>11 DEF ServeInv

\* A task is due in its turn exactly if it has not run in the epoch of the pass,
\* and then it last ran in the epoch before that.
LEMMA DueIsNext ==
  ASSUME LoopInv, ServeInv, NEW task \in Tasks, pass.at = task + 1
  PROVE  /\ SlotDue(task) <=> HasTurn(task) \/ Owed(task)
         /\ SlotDue(task) => Follows(pass.epoch, record.ran[task])
<1> DEFINE ran == record.ran[task]
<1>1. RanInv(task)
  BY DEF ServeInv
<1>2. /\ last[task] \in 0 .. Epochs - 1 /\ ran \in 0 .. Epochs - 1
      /\ task \in 1 .. Store /\ TaskSlots[task] \in 1 .. LastSlot
      /\ pass.epoch \in 0 .. Epochs - 1 /\ sw.sequence \in 0 .. Epochs - 1
  BY RecordFields, Fields DEF LoopInv
<1>3. Will(task) <=> pass.slot >= TaskSlots[task]
  BY <1>2, TaskTypes DEF Will
<1>4. Will(task) => ~Phase("STARTING")
  BY <1>2, <1>3 DEF LoopInv, StartInv
<1> HIDE DEF ran
<1>5. ASSUME HasTurn(task) \/ Owed(task)
      PROVE  SlotDue(task) /\ Follows(pass.epoch, ran)
  <2>1. Will(task) /\ Follows(pass.epoch, ran)
    BY <1>5 DEF HasTurn, Owed, ran
  <2>2. CASE last[task] = ran
    BY <1>2, <1>3, <2>1, <2>2, FollowsFacts DEF SlotDue
  <2>3. CASE Fresh(task)
    BY <1>2, <1>3, <1>4, <2>1, <2>3, EpochTypes, FollowsFacts DEF SlotDue, Fresh, ran
  <2> QED
    BY <1>1, <2>1, <2>2, <2>3 DEF RanInv, ran
<1>6. ASSUME SlotDue(task)
      PROVE  HasTurn(task) \/ Owed(task)
  <2>1. Will(task) /\ pass.epoch # last[task]
    BY <1>3, <1>6 DEF SlotDue
  <2>2. ASSUME Done(task) \/ Waits(task)
        PROVE  FALSE
    <3>1. pass.epoch = ran
      BY <2>1, <2>2 DEF Done, Waits, ran
    <3>2. Fresh(task)
      BY <1>1, <2>1, <3>1 DEF RanInv, ran
    <3>3. pass.epoch = 0 /\ (pass.epoch = 1 \/ (sw.sequence = 1 /\ pass.epoch = 1))
      BY <1>4, <2>1, <3>1, <3>2 DEF Fresh, ran
    <3> QED
      BY <3>3
  <2> QED
    BY <1>1, <2>2 DEF RanInv
<1> QED
  BY <1>5, <1>6 DEF ran

LEMMA ServeInvTurn ==
  ASSUME IntervalsLong, LoopInv, ServeInv, TaskTurn
  PROVE  ServeInv'
<1>1. PICK turn \in Tasks :
        /\ turn = pass.at - 1 /\ stalled = 0 /\ ~pass.writing
        /\ hw' = hw /\ sw' = sw /\ stalled' = stalled /\ epoch' = epoch
        /\ last' = IF SlotDue(turn) THEN [last EXCEPT ![turn] = pass.epoch] ELSE last
        /\ pass'.epoch = pass.epoch /\ pass'.slot = pass.slot
        /\ pass'.ticks = pass.ticks
        /\ pass'.at = IF turn = Store THEN 0 ELSE pass.at + 1
        /\ pass'.writing => SlotDue(turn) /\ turn = Store /\ FlashQuiet
        /\ ~SlotDue(turn) => record' = record
        /\ SlotDue(turn) =>
             /\ record'.measured = record.measured
             /\ record'.ran = [record.ran EXCEPT ![turn] = pass.epoch]
             /\ record'.missed <=> record.missed \/ ~Follows(pass.epoch, record.ran[turn])
  BY TurnStep DEF LoopInv
<1>2. pass.at = turn + 1 /\ pass.at > 1 /\ turn \in 1 .. Store /\ Store \in Nat
  <2>1. pass.at \in Nat /\ turn \in 1 .. Store /\ Store \in Nat
    BY <1>1, Fields, TaskTypes DEF LoopInv
  <2> QED
    BY <1>1, <2>1
<1>3. EarlyInv /\ MeasuredInv /\ ~record.missed
  BY DEF ServeInv
<1>4. \A p : Phase(p)' = Phase(p)
  BY <1>1 DEF Phase
<1>5. Slack = 0 /\ Slack' \in Nat /\ Slack' >= Slack /\ (pass'.writing => Elapsed' = 0)
  BY <1>1, <1>2, TickTypes DEF Slack, Elapsed
<1>6. /\ SlotDue(turn) <=> HasTurn(turn) \/ Owed(turn)
      /\ SlotDue(turn) => Follows(pass.epoch, record.ran[turn])
  BY <1>2, DueIsNext
<1>7. ~record'.missed
  BY <1>1, <1>3, <1>6
<1>8. EarlyInv'
  <2>1. ASSUME pass'.writing
        PROVE  pass.slot \in 1 .. LastSlot
    <3>1. pass.slot >= TaskSlots[turn] /\ pass.slot <= LastSlot
      BY <1>1, <2>1 DEF SlotDue, FlashQuiet
    <3>2. TaskSlots[turn] \in 1 .. LastSlot /\ pass.slot \in Nat /\ LastSlot \in Nat
      BY TaskTypes, Fields, TickTypes DEF LoopInv
    <3> QED
      BY <3>1, <3>2
  <2>2. Latest(LastSlot + 1) \in Nat /\ pass.ticks \in Nat
    BY LatestFacts, Fields, TickTypes DEF LoopInv
  <2>3. pass'.at > 0 => pass.at > 0
    BY <1>2
  <2>4. ASSUME pass'.writing
        PROVE  /\ pass.epoch = sw.sequence /\ ~hw.t3if
               /\ hw.count <= Latest(LastSlot + 1) + pass.ticks + 0
    BY <1>2, <1>3, <2>1, <2>2, <2>4 DEF EarlyInv
  <2> QED
    BY <1>1, <1>3, <1>4, <1>5, <2>3, <2>4 DEF EarlyInv
<1>9. MeasuredInv'
  <2>1. Unmeasured' <=> Unmeasured
    BY <1>1, <1>4 DEF Unmeasured
  <2>2. record'.measured = record.measured /\ pass'.at # 1
    BY <1>1, <1>2
  <2>3. ASSUME Unmeasured
        PROVE  hw.count <= Latest(MeasureSlot) + pass.ticks + Slack'
    <3>1. hw.count <= Latest(MeasureSlot) + pass.ticks + 0
      BY <1>2, <1>3, <1>5, <2>3 DEF MeasuredInv
    <3> QED
      BY <1>5, <3>1, LatestFacts, Fields, TickTypes DEF LoopInv
  <2> QED
    BY <1>1, <1>3, <2>1, <2>2, <2>3 DEF MeasuredInv
<1>10. ASSUME NEW task \in Tasks, task # turn
       PROVE  RanInv(task)'
  <2>1. Will(task)' <=> Will(task)
    <3>1. task \in 1 .. Store /\ turn \in 1 .. Store /\ pass.at = turn + 1
      BY <1>2, TaskTypes
    <3>2. pass'.at \in 1 .. task + 1 <=> pass.at \in 1 .. task + 1
      BY <1>1, <1>10, <3>1
    <3> QED
      BY <1>1, <3>2 DEF Will
  <2>2. last'[task] = last[task] /\ record'.ran[task] = record.ran[task]
    <3>1. last \in [Tasks -> 0 .. Epochs - 1] /\ record.ran \in [Tasks -> 0 .. Epochs - 1]
      BY DEF LoopInv, TypeInv, Record
    <3> QED
      BY <1>1, <1>10, <3>1
  <2>3. RanInv(task)
    BY DEF ServeInv
  <2> QED
    BY <1>1, <1>5, <2>1, <2>2, <2>3, RanKept DEF LoopInv
<1>11. ~Will(turn)'
  BY <1>1, <1>2 DEF Will
<1>12. RanInv(turn)
  BY DEF ServeInv
<1>13. CASE ~SlotDue(turn)
  <2>1. last' = last /\ record' = record
    BY <1>1, <1>13
  <2>2. Done(turn) \/ Waits(turn)
    BY <1>6, <1>12, <1>13 DEF RanInv
  <2>3. Done(turn) => Done(turn)'
    BY <1>1, <1>11, <2>1 DEF Done
  <2>4. ASSUME Waits(turn)
        PROVE  Waits(turn)'
    <3>1. hw.count <= Latest(TaskSlots[turn]) + pass.ticks + Slack
      BY <2>4 DEF Waits
    <3>2. Latest(TaskSlots[turn]) \in Nat /\ hw.count \in Nat /\ pass.ticks \in Nat
      BY RecordFields, LatestFacts, Fields, TickTypes DEF LoopInv
    <3>3. hw.count <= Latest(TaskSlots[turn]) + pass.ticks + Slack'
      BY <1>5, <3>1, <3>2
    <3> QED
      BY <1>1, <1>11, <2>1, <2>4, <3>3 DEF Waits, Follows
  <2>5. ASSUME Fresh(turn)
        PROVE  Fresh(turn)'
    <3>1. ~(sw.sequence = 2 /\ Will(turn) /\ pass.epoch = 1)
      <4>1. ASSUME Will(turn), pass.epoch = 1
            PROVE  SlotDue(turn)
        BY <2>5, <4>1, EpochTypes DEF Fresh, Will, SlotDue
      <4> QED
        BY <1>13, <4>1
    <3> QED
      BY <1>1, <1>4, <1>11, <2>1, <2>5, <3>1 DEF Fresh
  <2>6. RanInv(turn)'
    BY <1>4, <1>12, <2>1, <2>2, <2>3, <2>4, <2>5 DEF RanInv
  <2> QED
    BY <1>7, <1>8, <1>9, <1>10, <2>6 DEF ServeInv
<1>14. CASE SlotDue(turn)
  <2>1. last'[turn] = pass.epoch /\ record'.ran[turn] = pass.epoch
    <3>1. last \in [Tasks -> 0 .. Epochs - 1] /\ record.ran \in [Tasks -> 0 .. Epochs - 1]
      BY DEF LoopInv, TypeInv, Record
    <3> QED
      BY <1>1, <1>14, <3>1
  <2>2. ~Phase("STARTING")'
    <3>1. pass.slot # 0
      BY <1>14, TaskTypes DEF SlotDue
    <3> QED
      BY <1>4, <3>1 DEF LoopInv, StartInv
  <2>3. ASSUME HasTurn(turn)
        PROVE  Done(turn)'
    BY <1>1, <1>11, <2>1, <2>3 DEF HasTurn, Done
  <2>4. ASSUME Owed(turn)
        PROVE  Waits(turn)'
    <3>1. Follows(sw.sequence, pass.epoch) /\ pass.epoch # sw.sequence
      BY <2>4, FollowsFacts, Fields DEF Owed, LoopInv
    <3>2. ~hw.t3if /\ hw.count <= Latency + pass.ticks
      BY <1>2, <1>3, <3>1 DEF EarlyInv
    <3>3. TaskSlots[turn] \in Nat
      BY TaskTypes, TickTypes
    <3>4. Latest(TaskSlots[turn]) \in Nat /\ Latest(TaskSlots[turn]) >= Latency
      BY <3>3, LatestFacts DEF LoopInv
    <3>5. hw.count <= Latest(TaskSlots[turn]) + pass.ticks + Slack'
      BY <1>5, <3>2, <3>4, Fields, TickTypes DEF LoopInv
    <3> QED
      BY <1>1, <1>11, <2>1, <3>1, <3>2, <3>5 DEF Waits, Follows
  <2>5. RanInv(turn)'
    BY <1>6, <1>14, <2>1, <2>2, <2>3, <2>4 DEF RanInv
  <2> QED
    BY <1>7, <1>8, <1>9, <1>10, <2>5 DEF ServeInv
<1> QED
  BY <1>13, <1>14

LEMMA ServeInvNext ==
  IntervalsLong /\ LoopInv /\ ServeInv /\ [SchedulerNext]_schedulerVars => ServeInv'
<1> SUFFICES ASSUME IntervalsLong, LoopInv, ServeInv, [SchedulerNext]_schedulerVars
             PROVE  ServeInv'
  OBVIOUS
<1>1. CASE SchedulerPass
  BY <1>1, ServeInvPass
<1>2. CASE Snapshot \/ NoSnapshot
  BY <1>2, ServeInvSnapshot
<1>3. CASE TaskTurn
  BY <1>3, ServeInvTurn
<1>4. CASE Writes
  BY <1>4, ServeInvWrites
<1>5. CASE Written
  BY <1>5, ServeInvWritten
<1>6. CASE Tick
  BY <1>6, ServeInvTick
<1>7. CASE Interrupt
  BY <1>7, ServeInvT3, ServeInvT4 DEF Interrupt
<1>8. CASE UNCHANGED schedulerVars
  BY <1>8 DEF schedulerVars, ServeInv, EarlyInv, MeasuredInv, RanInv, Unmeasured, Done,
              HasTurn, Waits, Owed, Fresh, Will, Slack, Elapsed, Phase, Follows, Latest, Span
<1> QED
  BY <1>1, <1>2, <1>3, <1>4, <1>5, <1>6, <1>7, <1>8 DEF SchedulerNext

\* With intervals about nominal or longer each epoch is measured and each task run
\* exactly once in it, in the order of the epochs, and no write to flash is ever
\* across the start of an epoch.
THEOREM EpochsAreServed ==
  ASSUME IntervalsLong
  PROVE  SchedulerSpec => []EpochsServed
<1>1. SchedulerInit => ServeInv
  BY ServeInvInit
<1>2. LoopInv /\ ServeInv /\ [SchedulerNext]_schedulerVars => ServeInv'
  BY ServeInvNext
<1>3. ServeInv => EpochsServed
  BY DEF ServeInv, EarlyInv, EpochsServed, NothingMissed, FlashClearOfEpoch, Phase
<1> QED
  BY <1>1, <1>2, <1>3, LoopInvariant, PTL DEF SchedulerSpec

-----------------------------------------------------------------------------
\* The count of seconds.  The invariant carries ValidLabel because a label that cannot
\* exist (a flagged second away from the event, or a deleted one) is counted on
\* differently at once and step by step.

\* A label is its second and its flag.
LEMMA LabelEqual ==
  ASSUME NEW p \in Label, NEW q \in Label, p.utc = q.utc, p.leap = TRUE <=> q.leap = TRUE
  PROVE  p = q
<1>1. p.leap = q.leap
  BY DEF Label
<1> QED
  BY <1>1 DEF Label

\* The two fields of the label that utc_advance() gives.
AdvancedBy(l, n, a, u) ==
  LET inserted == /\ a.change = 1 /\ n > 0 /\ l.leap = FALSE
                  /\ l.utc < a.event /\ l.utc + n >= a.event
      deleted  == /\ a.change = -1 /\ n > 0 /\ l.utc < a.event - 1
                  /\ l.utc + n >= a.event - 1
  IN  /\ u \in Label
      /\ u.utc = IF inserted THEN l.utc + n - 1
                 ELSE IF deleted THEN l.utc + n + 1 ELSE l.utc + n
      /\ u.leap = TRUE <=> \/ inserted /\ l.utc + n = a.event
                           \/ l.leap = TRUE /\ n = 0

\* utc_advance(), field by field.
LEMMA AdvanceFields ==
  ASSUME NEW l \in Label, NEW a \in Leap, NEW n \in Nat
  PROVE  AdvancedBy(l, n, a, UtcAdvance(l, n, a))
<1> DEFINE inserted == /\ a.change = 1 /\ n > 0 /\ l.leap = FALSE
                       /\ l.utc < a.event /\ l.utc + n >= a.event
           deleted  == /\ a.change = -1 /\ n > 0 /\ l.utc < a.event - 1
                       /\ l.utc + n >= a.event - 1
           utc  == IF inserted THEN l.utc + n - 1
                   ELSE IF deleted THEN l.utc + n + 1 ELSE l.utc + n
           flag == (inserted /\ l.utc + n = a.event) \/ (l.leap = TRUE /\ n = 0)
<1>1. /\ l.utc \in Nat /\ l.leap \in BOOLEAN /\ a.event \in Nat \ {0}
      /\ a.change \in {-1, 0, 1}
  BY DEF Label, Leap
<1>2. utc \in Nat /\ flag \in BOOLEAN
  BY <1>1
<1>3. UtcAdvance(l, n, a).utc = utc
  BY <1>1 DEF UtcAdvance
<1>4. UtcAdvance(l, n, a).leap = TRUE <=> flag
  BY <1>1 DEF UtcAdvance
<1>5. UtcAdvance(l, n, a) = [utc |-> UtcAdvance(l, n, a).utc, leap |-> UtcAdvance(l, n, a).leap]
  BY DEF UtcAdvance
<1>6. UtcAdvance(l, n, a).leap \in BOOLEAN
  BY <1>1 DEF UtcAdvance
<1>7. UtcAdvance(l, n, a) \in Label
  BY <1>2, <1>3, <1>5, <1>6 DEF Label
<1> QED
  BY <1>3, <1>4, <1>7 DEF AdvancedBy

\* One more second at once is one second more of the count.
LEMMA AdvanceOneMore ==
  ASSUME NEW l \in Label, NEW a \in Leap, NEW n \in Nat, ValidLabel(l, a)
  PROVE  UtcAdvance(l, n + 1, a) = UtcAdvance(UtcAdvance(l, n, a), 1, a)
<1> DEFINE m == UtcAdvance(l, n, a)
           p == UtcAdvance(l, n + 1, a)
           q == UtcAdvance(m, 1, a)
<1>1. /\ l.utc \in Nat /\ l.leap \in BOOLEAN /\ a.event \in Nat \ {0}
      /\ a.change \in {-1, 0, 1} /\ n + 1 \in Nat
  BY DEF Label, Leap
<1>2. AdvancedBy(l, n, a, m)
  BY AdvanceFields
<1>3. m \in Label /\ m.utc \in Nat /\ m.leap \in BOOLEAN
  BY <1>2 DEF AdvancedBy, Label
<1> HIDE DEF m
<1>4. AdvancedBy(l, n + 1, a, p)
  BY <1>1, AdvanceFields
<1>5. AdvancedBy(m, 1, a, q)
  BY <1>3, AdvanceFields
<1> HIDE DEF p, q
<1>6. /\ l.leap = TRUE => a.change = 1 /\ l.utc + 1 = a.event
      /\ a.change = -1 => l.utc + 1 # a.event
  BY DEF ValidLabel
<1>7. p.utc = q.utc /\ (p.leap = TRUE <=> q.leap = TRUE)
  <2>1. CASE a.change = 1
    BY <1>1, <1>2, <1>3, <1>4, <1>5, <1>6, <2>1 DEF AdvancedBy
  <2>2. CASE a.change = -1
    BY <1>1, <1>2, <1>3, <1>4, <1>5, <1>6, <2>2 DEF AdvancedBy
  <2>3. CASE a.change = 0
    BY <1>1, <1>2, <1>3, <1>4, <1>5, <1>6, <2>3 DEF AdvancedBy
  <2> QED
    BY <1>1, <2>1, <2>2, <2>3
<1> QED
  BY <1>4, <1>5, <1>7, LabelEqual DEF AdvancedBy, p, q, m

\* A label that can exist is counted on to one that can.
LEMMA AdvanceValid ==
  ASSUME NEW l \in Label, NEW a \in Leap, ValidLabel(l, a)
  PROVE  /\ UtcAdvance(l, 1, a) \in Label
         /\ ValidLabel(UtcAdvance(l, 1, a), a)
         /\ UtcAdvance(l, 1, a) = NextSecond(l, a)
<1>1. /\ l.utc \in Nat /\ l.leap \in BOOLEAN /\ a.event \in Nat \ {0}
      /\ a.change \in {-1, 0, 1}
  BY DEF Label, Leap
<1>2. /\ UtcAdvance(l, 1, a) \in Label
      /\ UtcAdvance(l, 1, a).utc = NextSecond(l, a).utc
      /\ UtcAdvance(l, 1, a).leap = TRUE <=> NextSecond(l, a).leap = TRUE
  <2>1. /\ l.leap = TRUE => a.change = 1 /\ l.utc + 1 = a.event
        /\ a.change = -1 => l.utc + 1 # a.event
    BY DEF ValidLabel
  <2>2. AdvancedBy(l, 1, a, UtcAdvance(l, 1, a))
    BY AdvanceFields
  <2> QED
    BY <1>1, <2>1, <2>2 DEF AdvancedBy, NextSecond
<1>3. NextSecond(l, a) \in Label
  BY <1>1 DEF NextSecond, Label
<1>4. ValidLabel(NextSecond(l, a), a)
  BY <1>1 DEF NextSecond, ValidLabel
<1>5. UtcAdvance(l, 1, a) = NextSecond(l, a)
  BY <1>2, <1>3, LabelEqual
<1> QED
  BY <1>3, <1>4, <1>5

\* No second counted is no second gone: the label a count starts from.
LEMMA AdvanceNone ==
  ASSUME NEW l \in Label, NEW a \in Leap
  PROVE  UtcAdvance(l, 0, a) = l
BY DEF UtcAdvance, Label, Leap

\* The two ways the code counts seconds agree after any number of edges.
THEOREM CountInvariant == UtcSpec => []CountInv
<1>1. UtcInit => CountInv
  BY AdvanceNone, UtcAssumption DEF UtcInit, CountInv, CountsAgree
<1>2. CountInv /\ [UtcNext]_utcVars => CountInv'
  <2> SUFFICES ASSUME CountInv, [UtcNext]_utcVars PROVE CountInv'
    OBVIOUS
  <2>1. CASE CountSecond
    <3>1. label' \in Label /\ ValidLabel(label', leap)
      BY <2>1, AdvanceValid DEF CountSecond, CountInv
    <3>2. label' = UtcAdvance(start, elapsed + 1, leap)
      BY <2>1, AdvanceOneMore DEF CountSecond, CountInv, CountsAgree
    <3> QED
      BY <2>1, <3>1, <3>2 DEF CountSecond, CountInv, CountsAgree
  <2>2. CASE UNCHANGED utcVars
    BY <2>2 DEF utcVars, CountInv, CountsAgree
  <2> QED
    BY <2>1, <2>2 DEF UtcNext
<1> QED
  BY <1>1, <1>2, PTL DEF UtcSpec

\* Counting n edges in one call is counting them one at a time, for every
\* announcement and every n (utc_advance).
THEOREM CountsAgreeAlways == UtcSpec => []CountsAgree
<1>1. CountInv => CountsAgree
  BY DEF CountInv
<1> QED
  BY <1>1, CountInvariant, PTL

\* Every second the count shows is one of utc.h's drawing.
THEOREM CountsAsDrawnAlways == UtcSpec => CountsAsDrawn
<1>1. CountInv /\ [UtcNext]_utcVars => [label' = NextSecond(label, leap)]_utcVars
  BY AdvanceValid DEF CountInv, UtcNext, CountSecond, utcVars
<1> QED
  BY <1>1, CountInvariant, PTL DEF UtcSpec, CountsAsDrawn

LEMMA DayLength ==
  /\ SecondsPerDay \in Nat /\ SecondsPerDay \div 2 \in Nat /\ UtcLastDay \in Nat
  /\ SecondsPerDay = (SecondsPerDay \div 2) + (SecondsPerDay \div 2)
BY DEF SecondsPerDay, UtcLastDay

-----------------------------------------------------------------------------
\* An announced leap event is counted across at the midnight it means: whatever
\* second an estimate falls on and whatever tolerance is asked for, what
\* utc_leap_snap() gives is within the tolerance, and it gives one whenever a
\* midnight is.
THEOREM LeapEventIsMidnight ==
  ASSUME NEW d \in Nat, NEW s \in 0 .. SecondsPerDay - 1, NEW tolerance \in Nat,
         d <= UtcLastDay \/ s <= SecondsPerDay \div 2
  PROVE  SnapRight([day |-> d, second |-> s], tolerance)
<1> DEFINE m == [day |-> d, second |-> s]
           length == SecondsPerDay
           half == SecondsPerDay \div 2
           rest == length - s
<1>1. m.day = d /\ m.second = s
  BY Zenon
<1>2. length \in Nat /\ half \in Nat /\ length = half + half /\ UtcLastDay \in Nat
  BY DayLength
<1>3. s \in Nat /\ s < length /\ (d <= UtcLastDay \/ s <= half)
  BY <1>2
<1>4. LeapSnap(m, tolerance) = IF s > half
                               THEN IF rest > tolerance \/ d > UtcLastDay THEN {} ELSE {d + 1}
                               ELSE IF s > tolerance THEN {} ELSE {d}
  BY <1>1 DEF LeapSnap
<1>5. ToMidnight(m, d) = s /\ ToMidnight(m, d + 1) = rest
  <2>1. ToMidnight(m, d) = IF (d - d) * length + s < 0 THEN 0 - ((d - d) * length + s)
                           ELSE (d - d) * length + s
    BY <1>1 DEF ToMidnight
  <2>2. ToMidnight(m, d + 1) = IF (d - (d + 1)) * length + s < 0
                               THEN 0 - ((d - (d + 1)) * length + s)
                               ELSE (d - (d + 1)) * length + s
    BY <1>1 DEF ToMidnight
  <2> HIDE DEF length
  <2>3. (d - d) * length = 0 /\ (d - (d + 1)) * length = 0 - length
    <3>1. d - d = 0 /\ d - (d + 1) = -1
      OBVIOUS
    <3> QED
      BY <1>2, <3>1
  <2> QED
    BY <1>2, <1>3, <2>1, <2>2, <2>3
<1>6. rest \in Nat /\ rest + s = half + half
  BY <1>2, <1>3
<1> HIDE DEF m, length, half, rest
<1>7. SnapRight(m, tolerance)
  <2> SUFFICES /\ \A e \in LeapSnap(m, tolerance) : ToMidnight(m, e) <= tolerance
               /\ \A f \in {d, d + 1} : ToMidnight(m, f) <= tolerance =>
                    \E e \in LeapSnap(m, tolerance) : ToMidnight(m, e) <= ToMidnight(m, f)
    BY <1>1 DEF SnapRight
  <2>1. CASE s > half /\ rest > tolerance
    <3>1. LeapSnap(m, tolerance) = {}
      BY <1>4, <2>1
    <3>2. ~(s <= tolerance) /\ ~(rest <= tolerance)
      BY <1>2, <1>3, <1>6, <2>1
    <3> QED
      BY <1>5, <3>1, <3>2
  <2>2. CASE s > half /\ ~(rest > tolerance)
    <3>1. ~(d > UtcLastDay)
      BY <1>2, <1>3, <2>2
    <3>2. LeapSnap(m, tolerance) = {d + 1}
      BY <1>4, <2>2, <3>1
    <3>3. rest <= tolerance /\ rest <= s /\ rest <= rest
      BY <1>2, <1>3, <1>6, <2>2
    <3> QED
      BY <1>5, <3>2, <3>3
  <2>3. CASE s <= half /\ s > tolerance
    <3>1. LeapSnap(m, tolerance) = {}
      BY <1>2, <1>3, <1>4, <2>3
    <3>2. ~(s <= tolerance) /\ ~(rest <= tolerance)
      BY <1>2, <1>3, <1>6, <2>3
    <3> QED
      BY <1>5, <3>1, <3>2
  <2>4. CASE s <= half /\ ~(s > tolerance)
    <3>1. LeapSnap(m, tolerance) = {d}
      BY <1>2, <1>3, <1>4, <2>4
    <3>2. s <= tolerance /\ s <= rest /\ s <= s
      BY <1>2, <1>3, <1>6, <2>4
    <3> QED
      BY <1>5, <3>1, <3>2
  <2> QED
    BY <1>2, <1>3, <2>1, <2>2, <2>3, <2>4
<1> QED
  BY <1>7 DEF m

-----------------------------------------------------------------------------
\* The edges of the inputs, and what the change interrupt has made of them

Watches == [high : BOOLEAN, stamp : Int, valid : BOOLEAN, edge : Int, before : Int]
Reads   == UNION {[S -> BOOLEAN] : S \in SUBSET PpsInputs}
Pairs   == [routes : Nat, input : PpsInputs, buffer : Seq(Int \X Int), stamp : Int,
            stampValid : BOOLEAN, previous : Int, previousValid : BOOLEAN,
            period : Int, periodValid : BOOLEAN]

\* What the cascade holds of a moment.
Halves(at) ==
  <<at % CaptureWrap, (at \div CaptureWrap) - (IF at % CaptureWrap = 0 THEN 1 ELSE 0)>>

CaptureTypes ==
  /\ now \in Nat
  /\ pins \in [PpsInputs -> [high : BOOLEAN, rose : Int, phase : 0 .. Apart - 1]]
  /\ watches \in [PpsInputs -> Watches]
  /\ change \in [flag : BOOLEAN, step : {"IDLE", "STAMP", "READ", "COMPARE"}, stamp : Int,
                 read : Reads]
  /\ pair \in Pairs /\ reading \in {"IDLE", "STAMP", "VALID"}
  /\ align \in [attempts : Nat, offset : Int, captured : BOOLEAN, steady : Nat,
                done : BOOLEAN, valid : BOOLEAN, correction : Int]

\* A trusted pair is corrected by what it is off.
AlignInv ==
  /\ align.done /\ align.valid => align.correction = align.offset
  /\ ~align.done => /\ align.correction = 0 /\ pair.buffer = <<>> /\ reading = "IDLE"
                    /\ ~pair.previousValid

\* A pulse is high for its time, and an input does not change again unseen.
PinInv(i) ==
  LET pin == pins[i]
      w   == watches[i]
  IN  /\ pin.rose = NoTime \/ pin.rose \in 0 .. now
      /\ ~pin.high /\ pin.rose # NoTime => pin.rose + PulseTicks <= now
      /\ pin.high => pin.rose # NoTime
      /\ (pin.high /\ ~w.high) \/ w.edge = pin.rose
      /\ w.edge = NoTime \/ w.edge >= 0
      /\ ~w.high /\ w.edge # NoTime => w.edge + PulseTicks <= now

\* What has been read is so still, or will interrupt again.
ReadInv(i) ==
  i \in DOMAIN change.read =>
    pins[i].high = change.read[i] \/ (change.read[i] = watches[i].high /\ change.flag)

\* An edge is stamped after the pulse before it has ended.
StampedInv(i) ==
  change.step \in {"READ", "COMPARE"} /\ ~watches[i].high /\ watches[i].edge # NoTime =>
    watches[i].edge + PulseTicks <= change.stamp

ChangeInv ==
  /\ change.step \in {"IDLE", "STAMP"} => change.read = <<>>
  /\ change.step = "COMPARE" => DOMAIN change.read = PpsInputs
  /\ EveryEdgeSeen

\* A capture waits for its interrupt no longer than its pulse lasts, and alone.
BufferInv ==
  LET pin == pins[pair.input]
  IN  /\ pair.buffer # <<>> \/ reading # "IDLE" => pin.high /\ now - pin.rose <= Delay
      /\ pair.buffer # <<>> => pair.buffer = <<Halves(pin.rose + align.offset)>>
      /\ reading = "STAMP" => pair.buffer # <<>> /\ watches[pair.input].high
      /\ reading = "VALID" => pair.buffer = <<>> /\ pair.previousValid

\* The last capture read since the route is of the last edge counted; or of the one before,
\* which is a pulse too late to be paired with it, while the next is to be read.
Current ==
  LET w == watches[pair.input]
  IN  /\ pair.stamp = w.edge
      /\ (pair.buffer # <<>>) <=> (pins[pair.input].high /\ ~w.high)

Behind ==
  LET w == watches[pair.input]
  IN  /\ pair.stamp = w.before /\ pair.stamp + PulseTicks <= w.stamp
      /\ w.high /\ pair.buffer # <<>>

KeptInv ==
  LET w == watches[pair.input]
  IN  /\ pair.previous = pair.stamp
      /\ pair.stampValid \/ pair.periodValid => pair.previousValid
      /\ pair.stampValid => align.valid
      /\ align.valid /\ pair.previousValid => pair.stamp >= 0 /\ (Current \/ Behind)
      /\ align.valid /\ pair.periodValid /\ (Current \/ reading = "STAMP") =>
           pair.period = w.edge - w.before

CaptureInv ==
  /\ CaptureTypes /\ AlignInv /\ ChangeInv
  /\ \A i \in PpsInputs : PinInv(i) /\ ReadInv(i) /\ StampedInv(i)
  /\ BufferInv /\ KeptInv /\ CapturedIsOfEdge

-----------------------------------------------------------------------------
\* The constants and the cascade

LEMMA CaptureConstants ==
  /\ PulseTicks \in Nat /\ Apart \in Nat /\ Delay \in Nat /\ PairTicks \in Nat
  /\ Delay < PulseTicks /\ PairTicks < PulseTicks
  /\ NoTime \in Int /\ NoTime < 0 /\ LastTick \in Nat
  /\ CaptureWrap \in Nat /\ CaptureWrap > 0 /\ FirstInput \in PpsInputs
  /\ Offsets \subseteq Int /\ PeriodLimits \subseteq Nat
BY CaptureAssumption DEF NoTime

\* What was captured is what the halves are joined to.
LEMMA CascadeJoined ==
  ASSUME NEW at \in Int
  PROVE  /\ Halves(at) \in Int \X Int
         /\ JoinCascade(Halves(at)[1], Halves(at)[2]) = at
<1> DEFINE low == at % CaptureWrap
           high == at \div CaptureWrap
<1>1. CaptureWrap \in Nat /\ CaptureWrap > 0
  BY CaptureConstants
<1>2. low \in Int /\ high \in Int /\ at = CaptureWrap * high + low
  BY <1>1, Z3
<1>3. Halves(at) = <<low, high - (IF low = 0 THEN 1 ELSE 0)>>
  BY DEF Halves
<1> HIDE DEF low, high
<1>4. Halves(at)[1] = low /\ Halves(at)[2] = high - (IF low = 0 THEN 1 ELSE 0)
  BY <1>3
<1>5. JoinCascade(Halves(at)[1], Halves(at)[2]) = (high * CaptureWrap) + low
  <2>1. CASE low = 0
    <3>1. (high - 1) + 1 = high
      BY <1>2
    <3> QED
      BY <1>2, <1>4, <2>1, <3>1 DEF JoinCascade
  <2>2. CASE low # 0
    <3>1. high - 0 = high
      BY <1>2
    <3> QED
      BY <1>2, <1>4, <2>2, <3>1 DEF JoinCascade
  <2> QED
    BY <2>1, <2>2
<1>6. (high * CaptureWrap) + low = at
  BY <1>1, <1>2
<1> QED
  BY <1>2, <1>3, <1>5, <1>6

\* What the invariant says of each input.
Inputs == \A i \in PpsInputs : PinInv(i) /\ ReadInv(i) /\ StampedInv(i)

-----------------------------------------------------------------------------
\* Set-up

LEMMA CaptureStarts == CaptureInit => CaptureInv
<1> SUFFICES ASSUME CaptureInit PROVE CaptureInv
  OBVIOUS
<1>1. PICK phase \in RisePhases :
        pins = [i \in PpsInputs |-> [high |-> FALSE, rose |-> NoTime, phase |-> phase[i]]]
  BY DEF CaptureInit
<1>2. phase \in [PpsInputs -> 0 .. Apart - 1]
  BY CaptureAssumption
<1>3. /\ now = 0 /\ watches = [i \in PpsInputs |-> NewWatch]
      /\ change = [flag |-> FALSE, step |-> "IDLE", stamp |-> 0, read |-> <<>>]
      /\ pair = NewPair /\ reading = "IDLE" /\ align = NewAlign /\ snapshot = NoSample
  BY DEF CaptureInit
<1>4. <<>> \in Reads
  <2>1. <<>> \in [{} -> BOOLEAN]
    OBVIOUS
  <2> QED
    BY <2>1 DEF Reads
<1>5. CaptureTypes
  <2>1. pins \in [PpsInputs -> [high : BOOLEAN, rose : Int, phase : 0 .. Apart - 1]]
    BY <1>1, <1>2, CaptureConstants
  <2>2. watches \in [PpsInputs -> Watches]
    BY <1>3, CaptureConstants DEF NewWatch, Watches
  <2>3. change \in [flag : BOOLEAN, step : {"IDLE", "STAMP", "READ", "COMPARE"}, stamp : Int,
                    read : Reads]
    BY <1>3, <1>4
  <2>4. pair \in Pairs
    BY <1>3, CaptureConstants DEF NewPair, Pairs
  <2>5. align \in [attempts : Nat, offset : Int, captured : BOOLEAN, steady : Nat,
                   done : BOOLEAN, valid : BOOLEAN, correction : Int]
    BY <1>3 DEF NewAlign
  <2> QED
    BY <1>3, <2>1, <2>2, <2>3, <2>4, <2>5 DEF CaptureTypes
<1>6. AlignInv /\ ChangeInv
  BY <1>1, <1>3 DEF AlignInv, ChangeInv, EveryEdgeSeen, Seen, NewAlign, NewPair, NewWatch
<1>7. ASSUME NEW i \in PpsInputs
      PROVE  PinInv(i) /\ ReadInv(i) /\ StampedInv(i)
  <2>1. ~pins[i].high /\ pins[i].rose = NoTime
    BY <1>1
  <2>2. watches[i].edge = NoTime /\ ~watches[i].high
    BY <1>3 DEF NewWatch
  <2>3. i \notin DOMAIN change.read /\ change.step = "IDLE"
    BY <1>3
  <2> QED
    BY <2>1, <2>2, <2>3 DEF PinInv, ReadInv, StampedInv
<1>8. BufferInv /\ KeptInv /\ CapturedIsOfEdge
  BY <1>3 DEF BufferInv, KeptInv, CapturedIsOfEdge, NewPair, NoSample, NewAlign
<1> QED
  BY <1>5, <1>6, <1>7, <1>8 DEF CaptureInv

LEMMA AlignKeeps ==
  ASSUME CaptureInv, NEW captured \in BOOLEAN, NEW measured \in Offsets,
         AlignAndCheck(captured, measured)
  PROVE  CaptureInv'
<1> DEFINE offset == IF captured THEN measured ELSE 1
           a == [align EXCEPT !.attempts = @ + 1, !.offset = offset, !.captured = captured,
                         !.valid = captured /\ offset = 0,
                         !.steady = IF captured /\ align.captured /\ offset = align.offset
                                    THEN @ + 1 ELSE 0]
           Aligns == [attempts : Nat, offset : Int, captured : BOOLEAN, steady : Nat,
                      done : BOOLEAN, valid : BOOLEAN, correction : Int]
<1>1. /\ ~align.done
      /\ align' = IF a.valid \/ a.attempts = AlignAttempts THEN Trust(a) ELSE a
      /\ UNCHANGED <<now, pins, watches, change, pair, reading, snapshot>>
  BY DEF AlignAndCheck
<1>2. CaptureTypes /\ AlignInv /\ ChangeInv /\ Inputs /\ BufferInv /\ KeptInv /\ CapturedIsOfEdge
  BY DEF CaptureInv, Inputs
<1>3. align \in Aligns
  BY <1>2 DEF CaptureTypes
<1>4. offset \in Int
  BY CaptureConstants
<1>5. /\ a \in Aligns /\ a.done = align.done /\ a.correction = align.correction
      /\ a.valid => a.offset = 0
  <2> DEFINE valid == captured /\ offset = 0
             steady == IF captured /\ align.captured /\ offset = align.offset
                       THEN align.steady + 1 ELSE 0
  <2>1. valid \in BOOLEAN /\ steady \in Nat
    BY <1>3
  <2>2. a = [align EXCEPT !.attempts = align.attempts + 1, !.offset = offset,
                          !.captured = captured, !.valid = valid, !.steady = steady]
    OBVIOUS
  <2>3. valid => offset = 0
    OBVIOUS
  <2> DEFINE b == [align EXCEPT !.attempts = align.attempts + 1, !.offset = offset]
  <2> HIDE DEF a, valid, steady, offset
  <2>4. b \in Aligns
    <3>1. align.attempts + 1 \in Nat
      BY <1>3
    <3> QED
      BY <1>3, <1>4, <3>1
  <2>6. b.offset = offset /\ b.done = align.done /\ b.correction = align.correction
    BY <1>3
  <2>5. a = [b EXCEPT !.captured = captured, !.valid = valid, !.steady = steady]
    BY <1>3, <2>2
  <2> HIDE DEF b
  <2> QED
    BY <2>1, <2>3, <2>4, <2>5, <2>6
<1> HIDE DEF a, offset
<1>6. /\ Trust(a) \in Aligns /\ Trust(a).done
      /\ Trust(a).valid => Trust(a).correction = Trust(a).offset
  <2> DEFINE near == a.offset \in 0 - AlignTolerance .. AlignTolerance
             corrected == ~a.valid /\ a.captured /\ a.steady >= 2 /\ near
             valid == a.valid \/ corrected
             correction == IF corrected THEN a.offset ELSE 0
  <2>1. Trust(a) = [NewAlign EXCEPT !.done = TRUE, !.offset = a.offset, !.valid = valid,
                                    !.correction = correction]
    BY DEF Trust
  <2>2. valid \in BOOLEAN /\ correction \in Int
    BY <1>5
  <2>3. valid => correction = a.offset
    PROOF
    <3>1. CASE corrected
      BY <3>1
    <3>2. CASE ~corrected /\ a.valid
      BY <1>5, <3>2
    <3> QED
      BY <3>1, <3>2
  <2> HIDE DEF valid, correction
  <2>4. NewAlign \in Aligns
    BY DEF NewAlign
  <2> QED
    BY <1>5, <2>1, <2>2, <2>3, <2>4
<1>7. align' \in Aligns /\ (align'.done /\ align'.valid => align'.correction = align'.offset)
  BY <1>1, <1>2, <1>3, <1>5, <1>6 DEF AlignInv
<1>8. /\ pair.buffer = <<>> /\ reading = "IDLE" /\ ~pair.previousValid /\ align.correction = 0
      /\ ~pair.stampValid /\ ~pair.periodValid
  BY <1>1, <1>2 DEF AlignInv, KeptInv
<1>9. CaptureTypes'
  BY <1>1, <1>2, <1>7 DEF CaptureTypes
<1>10. AlignInv'
  BY <1>1, <1>5, <1>6, <1>7, <1>8 DEF AlignInv
<1>11. ChangeInv' /\ Inputs' /\ CapturedIsOfEdge'
  BY <1>1, <1>2 DEF ChangeInv, EveryEdgeSeen, Seen, Inputs, PinInv, ReadInv, StampedInv,
       CapturedIsOfEdge
<1>12. BufferInv' /\ KeptInv'
  BY <1>1, <1>2, <1>8 DEF BufferInv, KeptInv
<1> QED
  BY <1>9, <1>10, <1>11, <1>12 DEF CaptureInv, Inputs

-----------------------------------------------------------------------------
\* The inputs, and the hardware that sees them

LEMMA TicksKeep == ASSUME CaptureInv, TimerTicks PROVE CaptureInv'
<1>1. /\ align.done /\ now' = now + 1
      /\ pair.buffer # <<>> \/ reading # "IDLE" => now - pins[pair.input].rose < Delay
      /\ UNCHANGED <<pins, watches, change, pair, reading, align, snapshot>>
  BY DEF TimerTicks
<1>2. CaptureTypes /\ AlignInv /\ ChangeInv /\ Inputs /\ BufferInv /\ KeptInv /\ CapturedIsOfEdge
  BY DEF CaptureInv, Inputs
<1>3. CaptureTypes' /\ now \in Nat /\ pair.input \in PpsInputs
  BY <1>1, <1>2 DEF CaptureTypes, Pairs
<1>4. ASSUME NEW i \in PpsInputs
      PROVE  PinInv(i)' /\ ReadInv(i)' /\ StampedInv(i)'
  <2>1. PinInv(i) /\ ReadInv(i) /\ StampedInv(i)
    BY <1>2 DEF Inputs
  <2>2. ReadInv(i)' /\ StampedInv(i)'
    BY <1>1, <2>1 DEF ReadInv, StampedInv
  <2>3. pins[i].rose \in Int /\ watches[i].edge \in Int
    BY <1>2 DEF CaptureTypes, Watches
  <2>4. PinInv(i)'
    BY <1>1, <1>3, <2>1, <2>3, CaptureConstants DEF PinInv
  <2> QED
    BY <2>2, <2>4
<1>5. BufferInv'
  <2>1. pins[pair.input].rose \in Int
    BY <1>2, <1>3 DEF CaptureTypes
  <2> QED
    BY <1>1, <1>2, <1>3, <2>1, CaptureConstants DEF BufferInv
<1>6. AlignInv' /\ ChangeInv' /\ KeptInv' /\ CapturedIsOfEdge'
  BY <1>1, <1>2 DEF AlignInv, ChangeInv, EveryEdgeSeen, Seen, KeptInv, Current, Behind,
                    CapturedIsOfEdge
<1> QED
  BY <1>3, <1>4, <1>5, <1>6 DEF CaptureInv

LEMMA RiseKeeps ==
  ASSUME CaptureInv, NEW i \in PpsInputs, InputRises(i)
  PROVE  CaptureInv'
<1>1. /\ align.done /\ ~pins[i].high /\ Seen(i)
      /\ pins' = [pins EXCEPT ![i].high = TRUE, ![i].rose = now]
      /\ change' = [change EXCEPT !.flag = TRUE]
      /\ pair' = IF i = pair.input THEN Captured(pair) ELSE pair
      /\ UNCHANGED <<now, watches, reading, align, snapshot>>
  BY DEF InputRises
<1>2. CaptureTypes /\ AlignInv /\ ChangeInv /\ Inputs /\ BufferInv /\ KeptInv /\ CapturedIsOfEdge
  BY DEF CaptureInv, Inputs
<1>3. /\ pins \in [PpsInputs -> [high : BOOLEAN, rose : Int, phase : 0 .. Apart - 1]]
      /\ now \in Nat /\ pair \in Pairs /\ align.offset \in Int /\ pair.input \in PpsInputs
      /\ change \in [flag : BOOLEAN, step : {"IDLE", "STAMP", "READ", "COMPARE"}, stamp : Int,
                     read : Reads]
  BY <1>2 DEF CaptureTypes, Pairs
<1>4. /\ pins' \in [PpsInputs -> [high : BOOLEAN, rose : Int, phase : 0 .. Apart - 1]]
      /\ pins'[i].high = TRUE /\ pins'[i].rose = now
      /\ \A j \in PpsInputs : j # i => pins'[j] = pins[j]
  <2> DEFINE Pins == [high : BOOLEAN, rose : Int, phase : 0 .. Apart - 1]
             raised == [pins[i] EXCEPT !.high = TRUE]
  <2>1. pins[i] \in Pins /\ now \in Int
    BY <1>3
  <2>2. raised \in Pins /\ raised.high = TRUE
    BY <2>1
  <2>3. pins' = [pins EXCEPT ![i] = [raised EXCEPT !.rose = now]]
    BY <1>1, <1>3, Zenon
  <2> HIDE DEF raised
  <2>4. /\ [raised EXCEPT !.rose = now] \in Pins
        /\ [raised EXCEPT !.rose = now].high = TRUE /\ [raised EXCEPT !.rose = now].rose = now
    BY <2>1, <2>2
  <2> QED
    BY <1>3, <2>3, <2>4
<1>5. /\ change' \in [flag : BOOLEAN, step : {"IDLE", "STAMP", "READ", "COMPARE"}, stamp : Int,
                      read : Reads]
      /\ change'.flag /\ change'.step = change.step /\ change'.stamp = change.stamp
      /\ change'.read = change.read
  BY <1>1, <1>3
<1>6. ~watches[i].high
  BY <1>1 DEF Seen
<1>7. i = pair.input => pair.buffer = <<>> /\ reading = "IDLE"
  BY <1>1, <1>2 DEF BufferInv
<1>8. /\ pair' \in Pairs
      /\ pair'.input = pair.input /\ pair'.stamp = pair.stamp /\ pair'.previous = pair.previous
      /\ pair'.stampValid = pair.stampValid /\ pair'.previousValid = pair.previousValid
      /\ pair'.period = pair.period /\ pair'.periodValid = pair.periodValid
      /\ pair'.buffer = IF i = pair.input THEN <<Halves(now + align.offset)>> ELSE pair.buffer
  <2>1. CASE i # pair.input
    BY <1>1, <1>3, <2>1
  <2>2. CASE i = pair.input
    <3>1. now + align.offset \in Int
      BY <1>3
    <3>2. Halves(now + align.offset) \in Int \X Int
      BY <3>1, CascadeJoined
    <3>3. Captured(pair) = [pair EXCEPT !.buffer = Append(pair.buffer, Halves(now + align.offset))]
      BY DEF Captured, Halves
    <3>4. Append(pair.buffer, Halves(now + align.offset)) = <<Halves(now + align.offset)>>
      <4>1. \A x : Append(<<>>, x) = <<x>>
        OBVIOUS
      <4> QED
        BY <1>7, <2>2, <4>1
    <3>5. <<Halves(now + align.offset)>> \in Seq(Int \X Int)
      BY <3>2
    <3>6. pair' = [pair EXCEPT !.buffer = <<Halves(now + align.offset)>>]
      BY <1>1, <2>2, <3>3, <3>4
    <3> QED
      BY <1>3, <2>2, <3>5, <3>6 DEF Pairs
  <2> QED
    BY <2>1, <2>2
<1>9. CaptureTypes'
  BY <1>1, <1>2, <1>4, <1>5, <1>8 DEF CaptureTypes
<1>10. ASSUME NEW j \in PpsInputs
       PROVE  PinInv(j)' /\ ReadInv(j)' /\ StampedInv(j)'
  <2>1. PinInv(j) /\ ReadInv(j) /\ StampedInv(j)
    BY <1>2 DEF Inputs
  <2>2. StampedInv(j)'
    BY <1>1, <1>5, <2>1 DEF StampedInv
  <2>3. CASE j # i
    BY <1>1, <1>4, <1>5, <2>1, <2>2, <2>3 DEF PinInv, ReadInv
  <2>4. CASE j = i
    <3>1. PinInv(i)'
      BY <1>1, <1>3, <1>4, <1>6, <2>1, <2>4, CaptureConstants DEF PinInv
    <3>2. pins[i].high = FALSE /\ watches[i].high = FALSE
      BY <1>1, <1>2, <1>3, <1>6 DEF CaptureTypes, Watches
    <3>4. i \in DOMAIN change.read => change.read[i] = FALSE
      BY <2>1, <2>4, <3>2 DEF ReadInv
    <3>5. change'.flag /\ watches'[i].high = FALSE /\ change'.read = change.read
      BY <1>1, <1>5, <3>2
    <3>3. ReadInv(i)'
      BY <3>4, <3>5 DEF ReadInv
    <3> QED
      BY <2>2, <2>4, <3>1, <3>3
  <2> QED
    BY <2>3, <2>4
<1>11. AlignInv' /\ ChangeInv' /\ CapturedIsOfEdge'
  BY <1>1, <1>2, <1>5, <1>8 DEF AlignInv, ChangeInv, EveryEdgeSeen, CapturedIsOfEdge
<1>12. CASE i # pair.input
  <2>1. pins'[pair'.input] = pins[pair.input] /\ pair' = pair
    BY <1>1, <1>3, <1>4, <1>12
  <2> QED
    BY <1>1, <1>2, <1>9, <1>10, <1>11, <2>1
       DEF BufferInv, KeptInv, Current, Behind, CaptureInv
<1>13. CASE i = pair.input
  <2>1. pair'.buffer # <<>> /\ pair'.buffer = <<Halves(now + align.offset)>> /\ reading = "IDLE"
    BY <1>7, <1>8, <1>13
  <2>2. BufferInv'
    <3>1. pins'[pair'.input].high /\ pins'[pair'.input].rose = now
      BY <1>4, <1>8, <1>13
    <3>2. now - now <= Delay
      BY <1>3, CaptureConstants
    <3> QED
      BY <1>1, <2>1, <3>1, <3>2 DEF BufferInv
  <2>3. align.valid /\ pair.previousValid => Current /\ Current'
    BY <1>1, <1>2, <1>4, <1>6, <1>8, <1>13, <2>1 DEF KeptInv, Current, Behind
  <2>4. KeptInv'
    BY <1>1, <1>2, <1>8, <2>1, <2>3 DEF KeptInv
  <2> QED
    BY <1>9, <1>10, <1>11, <2>2, <2>4 DEF CaptureInv
<1> QED
  BY <1>12, <1>13

LEMMA FallKeeps ==
  ASSUME CaptureInv, NEW i \in PpsInputs, InputFalls(i)
  PROVE  CaptureInv'
<1>1. /\ pins[i].high /\ Seen(i) /\ now - pins[i].rose >= PulseTicks
      /\ pins' = [pins EXCEPT ![i].high = FALSE]
      /\ change' = [change EXCEPT !.flag = TRUE]
      /\ UNCHANGED <<now, watches, pair, reading, align, snapshot>>
  BY DEF InputFalls
<1>2. CaptureTypes /\ AlignInv /\ ChangeInv /\ Inputs /\ BufferInv /\ KeptInv /\ CapturedIsOfEdge
  BY DEF CaptureInv, Inputs
<1>3. /\ pins \in [PpsInputs -> [high : BOOLEAN, rose : Int, phase : 0 .. Apart - 1]]
      /\ now \in Nat /\ pair.input \in PpsInputs
      /\ change \in [flag : BOOLEAN, step : {"IDLE", "STAMP", "READ", "COMPARE"}, stamp : Int,
                     read : Reads]
  BY <1>2 DEF CaptureTypes, Pairs
<1>4. /\ pins' \in [PpsInputs -> [high : BOOLEAN, rose : Int, phase : 0 .. Apart - 1]]
      /\ ~pins'[i].high /\ pins'[i].rose = pins[i].rose
      /\ \A j \in PpsInputs : j # i => pins'[j] = pins[j]
  BY <1>1, <1>3
<1>5. /\ change' \in [flag : BOOLEAN, step : {"IDLE", "STAMP", "READ", "COMPARE"}, stamp : Int,
                      read : Reads]
      /\ change'.flag /\ change'.step = change.step /\ change'.stamp = change.stamp
      /\ change'.read = change.read
  BY <1>1, <1>3
<1>6. watches[i].high
  BY <1>1 DEF Seen
<1>7. CaptureTypes'
  BY <1>1, <1>2, <1>4, <1>5 DEF CaptureTypes
<1>8. pins[i].rose \in Int
  BY <1>3
<1>9. ASSUME NEW j \in PpsInputs
      PROVE  PinInv(j)' /\ ReadInv(j)' /\ StampedInv(j)'
  <2>1. PinInv(j) /\ ReadInv(j) /\ StampedInv(j)
    BY <1>2 DEF Inputs
  <2>2. StampedInv(j)'
    BY <1>1, <1>5, <2>1 DEF StampedInv
  <2>3. CASE j # i
    BY <1>1, <1>4, <1>5, <2>1, <2>2, <2>3 DEF PinInv, ReadInv
  <2>4. CASE j = i
    <3>1. PinInv(i)'
      BY <1>1, <1>3, <1>4, <1>6, <1>8, <2>1, <2>4, CaptureConstants DEF PinInv
    <3>2. ReadInv(i)'
      BY <1>1, <1>4, <1>5, <1>6, <2>1, <2>4 DEF ReadInv
    <3> QED
      BY <2>2, <2>4, <3>1, <3>2
  <2> QED
    BY <2>3, <2>4
<1>10. AlignInv' /\ ChangeInv' /\ CapturedIsOfEdge'
  BY <1>1, <1>2, <1>5 DEF AlignInv, ChangeInv, EveryEdgeSeen, CapturedIsOfEdge
<1>11. i = pair.input => pair.buffer = <<>> /\ reading = "IDLE"
  BY <1>1, <1>2, <1>3, <1>8, CaptureConstants DEF BufferInv
<1>12. BufferInv'
  <2>1. CASE i = pair.input
    BY <1>1, <1>11, <2>1 DEF BufferInv
  <2>2. CASE i # pair.input
    <3>1. pins'[pair.input] = pins[pair.input]
      BY <1>3, <1>4, <2>2
    <3> QED
      BY <1>1, <1>2, <3>1 DEF BufferInv
  <2> QED
    BY <2>1, <2>2
<1>13. Current <=> Current'
  <2>1. CASE i = pair.input
    BY <1>1, <1>4, <1>6, <1>11, <2>1 DEF Current
  <2>2. CASE i # pair.input
    <3>1. pins'[pair.input] = pins[pair.input]
      BY <1>3, <1>4, <2>2
    <3> QED
      BY <1>1, <3>1 DEF Current
  <2> QED
    BY <2>1, <2>2
<1>14. KeptInv'
  BY <1>1, <1>2, <1>13 DEF KeptInv, Behind
<1> QED
  BY <1>7, <1>9, <1>10, <1>12, <1>14 DEF CaptureInv

-----------------------------------------------------------------------------
\* The change interrupt

\* Before it compares, only its own state changes.
LEMMA ReadingKeeps ==
  ASSUME CaptureInv, UNCHANGED <<now, pins, watches, pair, reading, align, snapshot>>,
         change' \in [flag : BOOLEAN, step : {"IDLE", "STAMP", "READ", "COMPARE"}, stamp : Int,
                      read : Reads],
         ChangeInv', \A i \in PpsInputs : ReadInv(i)' /\ StampedInv(i)'
  PROVE  CaptureInv'
<1>1. CaptureTypes'
  BY DEF CaptureInv, CaptureTypes
<1>2. \A i \in PpsInputs : PinInv(i)'
  BY DEF CaptureInv, PinInv
<1>3. AlignInv' /\ BufferInv' /\ KeptInv' /\ CapturedIsOfEdge'
  BY DEF CaptureInv, AlignInv, BufferInv, KeptInv, Current, Behind, CapturedIsOfEdge
<1> QED
  BY <1>1, <1>2, <1>3 DEF CaptureInv

LEMMA EnterKeeps == ASSUME CaptureInv, ChangeEnters PROVE CaptureInv'
<1>1. /\ change.step = "IDLE"
      /\ change' = [change EXCEPT !.step = "STAMP", !.flag = FALSE]
      /\ UNCHANGED <<now, pins, watches, pair, reading, align, snapshot>>
  BY DEF ChangeEnters
<1>2. /\ change \in [flag : BOOLEAN, step : {"IDLE", "STAMP", "READ", "COMPARE"}, stamp : Int,
                     read : Reads]
      /\ change.read = <<>>
  BY <1>1 DEF CaptureInv, CaptureTypes, ChangeInv
<1>3. /\ change' \in [flag : BOOLEAN, step : {"IDLE", "STAMP", "READ", "COMPARE"}, stamp : Int,
                      read : Reads]
      /\ change'.step = "STAMP" /\ change'.read = <<>>
  BY <1>1, <1>2
<1>4. ChangeInv' /\ \A i \in PpsInputs : ReadInv(i)' /\ StampedInv(i)'
  BY <1>3 DEF ChangeInv, EveryEdgeSeen, ReadInv, StampedInv
<1> QED
  BY <1>1, <1>3, <1>4, ReadingKeeps

LEMMA StampKeeps == ASSUME CaptureInv, ChangeStamps PROVE CaptureInv'
<1>1. /\ change.step = "STAMP"
      /\ change' = [change EXCEPT !.step = "READ", !.stamp = now]
      /\ UNCHANGED <<now, pins, watches, pair, reading, align, snapshot>>
  BY DEF ChangeStamps
<1>2. /\ change \in [flag : BOOLEAN, step : {"IDLE", "STAMP", "READ", "COMPARE"}, stamp : Int,
                     read : Reads]
      /\ change.read = <<>> /\ now \in Int
  BY <1>1 DEF CaptureInv, CaptureTypes, ChangeInv
<1>3. /\ change' \in [flag : BOOLEAN, step : {"IDLE", "STAMP", "READ", "COMPARE"}, stamp : Int,
                      read : Reads]
      /\ change'.step = "READ" /\ change'.read = <<>> /\ change'.stamp = now
  BY <1>1, <1>2
<1>4. ChangeInv' /\ \A i \in PpsInputs : ReadInv(i)'
  BY <1>3 DEF ChangeInv, EveryEdgeSeen, ReadInv
<1>5. \A i \in PpsInputs : StampedInv(i)'
  BY <1>1, <1>3 DEF StampedInv, CaptureInv, PinInv
<1> QED
  BY <1>1, <1>3, <1>4, <1>5, ReadingKeeps

LEMMA ReadsKeep ==
  ASSUME CaptureInv, NEW i \in PpsInputs, ChangeReads(i)
  PROVE  CaptureInv'
<1> DEFINE read == [j \in DOMAIN change.read \cup {i} |->
                      IF j = i THEN pins[i].high ELSE change.read[j]]
           step == IF PpsInputs = DOMAIN change.read \cup {i} THEN "COMPARE" ELSE change.step
<1>1. /\ change.step = "READ" /\ i \notin DOMAIN change.read
      /\ change' = [change EXCEPT !.read = read, !.step = step]
      /\ UNCHANGED <<now, pins, watches, pair, reading, align, snapshot>>
  BY DEF ChangeReads
<1>2. /\ change \in [flag : BOOLEAN, step : {"IDLE", "STAMP", "READ", "COMPARE"}, stamp : Int,
                     read : Reads]
      /\ pins[i].high \in BOOLEAN
  BY DEF CaptureInv, CaptureTypes
<1>3. PICK S \in SUBSET PpsInputs : change.read \in [S -> BOOLEAN]
  BY <1>2 DEF Reads
<1>4. read = [j \in S \cup {i} |-> IF j = i THEN pins[i].high ELSE change.read[j]]
  BY <1>1, <1>3
<1>5. read \in [S \cup {i} -> BOOLEAN]
  BY <1>2, <1>3, <1>4
<1>6. read \in Reads
  BY <1>5 DEF Reads
<1>7. step \in {"READ", "COMPARE"} /\ (step = "COMPARE" => PpsInputs = S \cup {i})
  BY <1>1, <1>3
<1>8. /\ DOMAIN read = S \cup {i} /\ read[i] = pins[i].high
      /\ \A j \in S : j # i => read[j] = change.read[j]
  BY <1>4, <1>5
<1> HIDE DEF read, step
<1>9. /\ change' \in [flag : BOOLEAN, step : {"IDLE", "STAMP", "READ", "COMPARE"}, stamp : Int,
                      read : Reads]
      /\ change'.step = step /\ change'.read = read /\ change'.stamp = change.stamp
      /\ change'.flag = change.flag
  BY <1>1, <1>2, <1>6, <1>7
<1>10. ChangeInv'
  BY <1>7, <1>8, <1>9 DEF ChangeInv, EveryEdgeSeen
<1>11. ASSUME NEW j \in PpsInputs
       PROVE  ReadInv(j)' /\ StampedInv(j)'
  <2>1. ReadInv(j) /\ StampedInv(j)
    BY DEF CaptureInv
  <2>2. ReadInv(j)'
    <3>1. CASE j = i
      BY <1>1, <1>8, <1>9, <3>1 DEF ReadInv
    <3>2. CASE j # i
      BY <1>1, <1>3, <1>8, <1>9, <2>1, <3>2 DEF ReadInv
    <3> QED
      BY <3>1, <3>2
  <2>3. StampedInv(j)'
    BY <1>1, <1>7, <1>9, <2>1 DEF StampedInv
  <2> QED
    BY <2>2, <2>3
<1> QED
  BY <1>1, <1>9, <1>10, <1>11, ReadingKeeps

\* What comparing makes of an input: a rise is counted, a fall is only seen.
LEMMA ComparedWatch ==
  ASSUME CaptureInv, ChangeCompares, NEW i \in PpsInputs
  PROVE  LET w == watches[i]
             v == watches'[i]
         IN  /\ v \in Watches
             /\ \/ v = w /\ change.read[i] = w.high
                \/ /\ ~w.high /\ v.high /\ pins[i].high
                   /\ v.edge = pins[i].rose /\ v.before = w.edge /\ v.stamp = change.stamp
                \/ /\ w.high /\ ~v.high /\ ~pins[i].high
                   /\ v.edge = w.edge /\ v.before = w.before /\ v.stamp = w.stamp
<1> DEFINE w == watches[i]
           seen == [w EXCEPT !.high = change.read[i]]
<1>1. /\ change.step = "COMPARE"
      /\ watches' = [j \in PpsInputs |->
           LET n == [watches[j] EXCEPT !.high = change.read[j]]
           IN  IF change.read[j] /\ ~watches[j].high THEN RisingEdge(n, j) ELSE n]
  BY DEF ChangeCompares
<1>2. watches'[i] = IF change.read[i] /\ ~w.high THEN RisingEdge(seen, i) ELSE seen
  BY <1>1
<1>3. /\ w \in Watches /\ w.high \in BOOLEAN /\ change.stamp \in Int /\ pins[i].rose \in Int
      /\ pins[i].high \in BOOLEAN /\ w.edge \in Int
  BY DEF CaptureInv, CaptureTypes, Watches
<1>4. DOMAIN change.read = PpsInputs /\ change.read \in Reads
  BY <1>1 DEF CaptureInv, ChangeInv, CaptureTypes
<1>5. change.read[i] \in BOOLEAN
  BY <1>4 DEF Reads
<1>6. pins[i].high = change.read[i] \/ (change.read[i] = w.high /\ change.flag)
  BY <1>4 DEF CaptureInv, ReadInv
<1>7. /\ seen \in Watches /\ seen.high = change.read[i] /\ seen.stamp = w.stamp
      /\ seen.edge = w.edge /\ seen.before = w.before
  BY <1>3, <1>5 DEF Watches
<1>8. change.read[i] = w.high => seen = w
  BY <1>3 DEF Watches
<1> HIDE DEF seen, w
<1>9. CASE change.read[i] = w.high
  BY <1>2, <1>3, <1>5, <1>8, <1>9 DEF w
<1>10. CASE change.read[i] /\ ~w.high
  <2>1. watches'[i] = [seen EXCEPT !.stamp = change.stamp, !.valid = TRUE,
                                   !.edge = pins[i].rose, !.before = seen.edge]
    BY <1>2, <1>10 DEF RisingEdge
  <2> DEFINE told == [seen EXCEPT !.stamp = change.stamp, !.valid = TRUE]
  <2>2. told \in Watches /\ told.high = change.read[i] /\ told.stamp = change.stamp
    BY <1>3, <1>7 DEF Watches
  <2>3. watches'[i] = [told EXCEPT !.edge = pins[i].rose, !.before = seen.edge]
    BY <1>7, <2>1 DEF Watches
  <2> HIDE DEF told
  <2>4. /\ watches'[i] \in Watches /\ watches'[i].high = told.high
        /\ watches'[i].stamp = told.stamp /\ watches'[i].edge = pins[i].rose
        /\ watches'[i].before = seen.edge
    BY <1>3, <1>7, <2>2, <2>3 DEF Watches
  <2>5. pins[i].high
    BY <1>6, <1>10
  <2> QED
    BY <1>7, <1>10, <2>2, <2>4, <2>5 DEF w
<1>11. CASE ~change.read[i] /\ w.high
  <2>1. watches'[i] = seen /\ ~pins[i].high
    BY <1>2, <1>5, <1>6, <1>11
  <2> QED
    BY <1>7, <1>11, <2>1 DEF w
<1> QED
  BY <1>3, <1>5, <1>9, <1>10, <1>11

LEMMA ComparesKeep == ASSUME CaptureInv, ChangeCompares PROVE CaptureInv'
<1> DEFINE step == IF \E i \in PpsInputs : change.read[i] # watches[i].high
                   THEN "STAMP" ELSE "IDLE"
<1>1. /\ change.step = "COMPARE"
      /\ change' = [change EXCEPT !.stamp = 0, !.read = <<>>, !.step = step]
      /\ UNCHANGED <<now, pins, pair, reading, align, snapshot>>
  BY DEF ChangeCompares
<1>2. CaptureTypes /\ AlignInv /\ ChangeInv /\ Inputs /\ BufferInv /\ KeptInv /\ CapturedIsOfEdge
  BY DEF CaptureInv, Inputs
<1>3. \A i \in PpsInputs : watches'[i] \in Watches
  BY ComparedWatch
<1>4. watches' \in [PpsInputs -> Watches]
  <2>1. watches' = [j \in PpsInputs |-> watches'[j]]
    BY DEF ChangeCompares
  <2> QED
    BY <1>3, <2>1
<1>5. <<>> \in Reads
  <2>1. <<>> \in [{} -> BOOLEAN]
    OBVIOUS
  <2> QED
    BY <2>1 DEF Reads
<1> HIDE DEF step
<1>6. step \in {"IDLE", "STAMP"}
  BY DEF step
<1>7. /\ change' \in [flag : BOOLEAN, step : {"IDLE", "STAMP", "READ", "COMPARE"}, stamp : Int,
                      read : Reads]
      /\ change'.step = step /\ change'.read = <<>>
  <2> DEFINE emptied == [change EXCEPT !.stamp = 0, !.read = <<>>]
  <2>1. /\ emptied \in [flag : BOOLEAN, step : {"IDLE", "STAMP", "READ", "COMPARE"}, stamp : Int,
                        read : Reads]
        /\ emptied.read = <<>>
    <3>1. change \in [flag : BOOLEAN, step : {"IDLE", "STAMP", "READ", "COMPARE"}, stamp : Int,
                      read : Reads]
      BY <1>2 DEF CaptureTypes
    <3>2. 0 \in Int
      OBVIOUS
    <3> QED
      BY <1>5, <3>1, <3>2
  <2>2. change' = [emptied EXCEPT !.step = step]
    BY <1>1, <1>2 DEF CaptureTypes
  <2> HIDE DEF emptied
  <2> QED
    BY <1>6, <2>1, <2>2
<1>8. CaptureTypes'
  BY <1>1, <1>2, <1>4, <1>7 DEF CaptureTypes
<1>9. AlignInv' /\ ChangeInv' /\ CapturedIsOfEdge'
  <2>1. ASSUME change'.step = "IDLE", ~change'.flag, NEW i \in PpsInputs
        PROVE  Seen(i)'
    <3>1. change.read[i] = watches[i].high /\ i \in DOMAIN change.read
      BY <1>1, <1>2, <1>7, <2>1 DEF step, ChangeInv
    <3>2. ~change.flag
      BY <1>1, <1>2, <2>1 DEF CaptureTypes
    <3>3. pins[i].high = change.read[i]
      BY <1>2, <3>1, <3>2 DEF Inputs, ReadInv
    <3> QED
      BY <1>1, <3>1, <3>3, ComparedWatch DEF Seen
  <2> QED
    BY <1>1, <1>2, <1>6, <1>7, <2>1 DEF AlignInv, ChangeInv, EveryEdgeSeen, CapturedIsOfEdge
<1>10. ASSUME NEW i \in PpsInputs
       PROVE  PinInv(i)' /\ ReadInv(i)' /\ StampedInv(i)'
  <2>1. PinInv(i) /\ StampedInv(i)
    BY <1>2 DEF Inputs
  <2>2. ReadInv(i)' /\ StampedInv(i)'
    BY <1>6, <1>7 DEF ReadInv, StampedInv
  <2>3. pins[i].rose \in Int /\ watches[i].edge \in Int /\ now \in Nat
    BY <1>2 DEF CaptureTypes, Watches
  <2>4. PinInv(i)'
    BY <1>1, <2>1, <2>3, ComparedWatch, CaptureConstants DEF PinInv
  <2> QED
    BY <2>2, <2>4
<1> DEFINE i == pair.input
           w == watches[i]
           v == watches'[i]
<1>11. i \in PpsInputs
  BY <1>2 DEF CaptureTypes, Pairs
<1>12. /\ PinInv(i) /\ StampedInv(i)
       /\ \/ v = w
          \/ /\ ~w.high /\ v.high /\ pins[i].high
             /\ v.edge = pins[i].rose /\ v.before = w.edge /\ v.stamp = change.stamp
          \/ /\ w.high /\ ~v.high /\ ~pins[i].high
             /\ v.edge = w.edge /\ v.before = w.before /\ v.stamp = w.stamp
  BY <1>2, <1>11, ComparedWatch DEF Inputs
<1>13. BufferInv'
  BY <1>1, <1>2, <1>12 DEF BufferInv
<1>14. pair.stamp \in Int /\ w.edge \in Int /\ w.before \in Int /\ w.high \in BOOLEAN
  BY <1>2, <1>11 DEF CaptureTypes, Pairs, Watches
<1>15. CASE v = w
  <2>1. KeptInv'
    BY <1>1, <1>2, <1>15 DEF KeptInv, Current, Behind
  <2> QED
    BY <1>8, <1>9, <1>10, <1>13, <2>1 DEF CaptureInv
<1>16. CASE ~w.high /\ v # w
  <2>1. /\ v.high /\ pins[i].high /\ v.edge = pins[i].rose /\ v.before = w.edge
        /\ v.stamp = change.stamp /\ reading # "STAMP"
    BY <1>2, <1>12, <1>16 DEF BufferInv
  <2>2. ASSUME align.valid, pair.previousValid
        PROVE  /\ pair.stamp >= 0 /\ pair.buffer # <<>> /\ pair.stamp = w.edge
               /\ pair.stamp + PulseTicks <= change.stamp
    <3>1. pair.stamp >= 0 /\ Current
      BY <1>2, <1>16, <2>2 DEF KeptInv, Behind
    <3>2. pair.stamp = w.edge /\ pair.buffer # <<>>
      BY <1>16, <2>1, <3>1 DEF Current
    <3>3. w.edge # NoTime
      BY <1>14, <3>1, <3>2, CaptureConstants
    <3> QED
      BY <1>1, <1>12, <1>16, <3>1, <3>2, <3>3 DEF StampedInv
  <2>3. align.valid /\ pair.previousValid => Behind'
    BY <1>1, <2>1, <2>2 DEF Behind
  <2>4. align.valid /\ pair.previousValid => ~Current'
    BY <1>1, <2>1, <2>2 DEF Current
  <2>5. KeptInv'
    BY <1>1, <1>2, <2>1, <2>2, <2>3, <2>4 DEF KeptInv
  <2> QED
    BY <1>8, <1>9, <1>10, <1>13, <2>5 DEF CaptureInv
<1>17. CASE w.high /\ v # w
  <2>1. /\ ~v.high /\ ~pins[i].high /\ v.edge = w.edge /\ v.before = w.before
        /\ v.stamp = w.stamp
    BY <1>12, <1>17
  <2>2. pair.buffer = <<>> /\ reading = "IDLE"
    BY <1>2, <2>1 DEF BufferInv
  <2>3. Current <=> Current'
    BY <1>1, <2>1, <2>2 DEF Current
  <2>4. KeptInv'
    BY <1>1, <1>2, <2>1, <2>2, <2>3 DEF KeptInv, Behind
  <2> QED
    BY <1>8, <1>9, <1>10, <1>13, <2>4 DEF CaptureInv
<1> QED
  BY <1>15, <1>16, <1>17

-----------------------------------------------------------------------------
\* The capture interrupt

\* What the capture interrupt finds: the edge counted last is the one captured.
LEMMA InterruptFinds ==
  ASSUME CaptureInv, pair.buffer # <<>> \/ reading # "IDLE", ~Masked
  PROVE  LET i == pair.input
         IN  /\ i \in PpsInputs /\ pins[i].high /\ watches[i].high
             /\ watches[i].edge = pins[i].rose /\ pins[i].rose >= 0
             /\ align.done /\ pins[i].rose \in Int
             /\ pair.buffer # <<>> =>
                  JoinCascade(Head(pair.buffer)[1], Head(pair.buffer)[2]) =
                    pins[i].rose + align.offset
<1> DEFINE i == pair.input
<1>1. i \in PpsInputs /\ pins[i].high /\ pins[i].rose \in Int /\ align.offset \in Int /\ now \in Nat
  BY DEF CaptureInv, CaptureTypes, Pairs, BufferInv
<1>2. Seen(i) /\ PinInv(i)
  BY <1>1 DEF CaptureInv, ChangeInv, EveryEdgeSeen, Masked, CaptureTypes
<1>3. watches[i].high /\ watches[i].edge = pins[i].rose /\ pins[i].rose >= 0
  BY <1>1, <1>2 DEF Seen, PinInv
<1>4. align.done
  BY DEF CaptureInv, AlignInv
<1>5. ASSUME pair.buffer # <<>>
      PROVE  JoinCascade(Head(pair.buffer)[1], Head(pair.buffer)[2]) =
               pins[i].rose + align.offset
  <2> DEFINE at == pins[i].rose + align.offset
  <2>1. pair.buffer = <<Halves(at)>>
    BY <1>5 DEF CaptureInv, BufferInv
  <2>2. Head(pair.buffer) = Halves(at)
    BY <2>1
  <2>3. at \in Int
    BY <1>1
  <2> QED
    BY <2>2, <2>3, CascadeJoined
<1> QED
  BY <1>1, <1>3, <1>4, <1>5

\* Its steps change the pair and where it is, and keep what is said of the rest.
LEMMA InterruptKeeps ==
  ASSUME CaptureInv, UNCHANGED <<now, pins, watches, change, align, snapshot>>,
         pair' \in Pairs, reading' \in {"IDLE", "STAMP", "VALID"}, align.done,
         BufferInv', KeptInv'
  PROVE  CaptureInv'
<1>1. CaptureTypes' /\ AlignInv' /\ ChangeInv' /\ CapturedIsOfEdge'
  BY DEF CaptureInv, CaptureTypes, AlignInv, ChangeInv, EveryEdgeSeen, Seen, CapturedIsOfEdge
<1>2. \A i \in PpsInputs : PinInv(i)' /\ ReadInv(i)' /\ StampedInv(i)'
  BY DEF CaptureInv, PinInv, ReadInv, StampedInv
<1> QED
  BY <1>1, <1>2 DEF CaptureInv

LEMMA CaptureEntersKeep == ASSUME CaptureInv, CaptureEnters PROVE CaptureInv'
<1> DEFINE i == pair.input
           w == watches[i]
           joined == JoinCascade(Head(pair.buffer)[1], Head(pair.buffer)[2])
           capture == joined - align.correction
           period == capture - pair.previous
           plausible == period \in PeriodLimits
           next == IF plausible THEN period ELSE pair.period
<1>1. /\ reading = "IDLE" /\ pair.buffer # <<>> /\ ~Masked
      /\ pair' = IF ~pair.previousValid THEN pair
                 ELSE [pair EXCEPT !.periodValid = plausible, !.period = next]
      /\ reading' = "STAMP"
      /\ UNCHANGED <<now, pins, watches, change, align, snapshot>>
  BY DEF CaptureEnters
<1>2. /\ i \in PpsInputs /\ pins[i].high /\ w.high /\ w.edge = pins[i].rose
      /\ pins[i].rose \in Int /\ align.done /\ joined = pins[i].rose + align.offset
  BY <1>1, InterruptFinds
<1>3. /\ pair \in Pairs /\ align.correction \in Int /\ align.offset \in Int
      /\ pair.previous \in Int /\ pair.period \in Int /\ w.before \in Int
  BY <1>2 DEF CaptureInv, CaptureTypes, Pairs, Watches
<1>4. period \in Int /\ next \in Int /\ plausible \in BOOLEAN
  BY <1>2, <1>3
<1>5. align.valid => capture = w.edge
  BY <1>2, <1>3 DEF CaptureInv, AlignInv
<1>6. align.valid /\ pair.previousValid => period = w.edge - w.before
  <2>1. align.valid /\ pair.previousValid => pair.previous = w.before
    BY <1>1, <1>2 DEF CaptureInv, KeptInv, Current, Behind
  <2> QED
    BY <1>5, <2>1
<1>7. plausible => next = period
  OBVIOUS
<1> HIDE DEF joined, period, plausible, next
<1>8. /\ pair' \in Pairs /\ pair'.input = pair.input /\ pair'.buffer = pair.buffer
      /\ pair'.stamp = pair.stamp /\ pair'.stampValid = pair.stampValid
      /\ pair'.previous = pair.previous /\ pair'.previousValid = pair.previousValid
      /\ pair.previousValid => pair'.periodValid = plausible /\ pair'.period = next
      /\ ~pair.previousValid => pair' = pair
  <2>1. CASE pair.previousValid
    <3>1. pair' = [pair EXCEPT !.periodValid = plausible, !.period = next]
      BY <1>1, <2>1
    <3> QED
      BY <1>3, <1>4, <2>1, <3>1 DEF Pairs
  <2>2. CASE ~pair.previousValid
    BY <1>1, <1>3, <2>2
  <2> QED
    BY <2>1, <2>2
<1>9. BufferInv'
  BY <1>1, <1>2, <1>8 DEF CaptureInv, BufferInv
<1>10. KeptInv'
  <2>1. (Current <=> Current') /\ (Behind <=> Behind')
    BY <1>1, <1>8 DEF Current, Behind
  <2>2. align.valid /\ pair'.periodValid => pair'.period = w.edge - w.before
    BY <1>6, <1>7, <1>8 DEF CaptureInv, KeptInv
  <2>3. pair'.stampValid \/ pair'.periodValid => pair'.previousValid
    BY <1>8 DEF CaptureInv, KeptInv
  <2> QED
    BY <1>1, <1>8, <2>1, <2>2, <2>3 DEF CaptureInv, KeptInv
<1> QED
  BY <1>1, <1>2, <1>8, <1>9, <1>10, InterruptKeeps

LEMMA CaptureStampsKeep == ASSUME CaptureInv, CaptureStamps PROVE CaptureInv'
<1> DEFINE i == pair.input
           w == watches[i]
           joined == JoinCascade(Head(pair.buffer)[1], Head(pair.buffer)[2])
           capture == joined - align.correction
           rest == Tail(pair.buffer)
<1>1. /\ reading = "STAMP" /\ ~Masked
      /\ pair' = [pair EXCEPT !.previous = capture, !.previousValid = TRUE, !.stamp = capture,
                              !.buffer = rest]
      /\ reading' = "VALID"
      /\ UNCHANGED <<now, pins, watches, change, align, snapshot>>
  BY DEF CaptureStamps
<1>2. pair.buffer # <<>> /\ \E x : pair.buffer = <<x>>
  BY <1>1 DEF CaptureInv, BufferInv
<1>3. /\ i \in PpsInputs /\ pins[i].high /\ w.high /\ w.edge = pins[i].rose
      /\ pins[i].rose \in Int /\ pins[i].rose >= 0
      /\ align.done /\ joined = pins[i].rose + align.offset
  BY <1>1, <1>2, InterruptFinds
<1>4. pair \in Pairs /\ align.correction \in Int /\ align.offset \in Int
  BY DEF CaptureInv, CaptureTypes
<1>5. capture \in Int /\ (align.valid => capture = w.edge)
  BY <1>3, <1>4 DEF CaptureInv, AlignInv
<1>6. rest = <<>> /\ rest \in Seq(Int \X Int)
  BY <1>2
<1> HIDE DEF capture, rest
<1>7. /\ pair' \in Pairs /\ pair'.input = pair.input /\ pair'.buffer = <<>>
      /\ pair'.stamp = capture /\ pair'.stampValid = pair.stampValid
      /\ pair'.previous = capture /\ pair'.previousValid = TRUE
      /\ pair'.period = pair.period /\ pair'.periodValid = pair.periodValid
  <2> DEFINE known == [pair EXCEPT !.previous = capture, !.previousValid = TRUE]
  <2>1. /\ known \in Pairs /\ known.input = pair.input /\ known.stampValid = pair.stampValid
        /\ known.period = pair.period /\ known.periodValid = pair.periodValid
        /\ known.previous = capture /\ known.previousValid = TRUE
    BY <1>4, <1>5 DEF Pairs
  <2>2. pair' = [known EXCEPT !.stamp = capture, !.buffer = rest]
    BY <1>1, <1>4 DEF Pairs
  <2> HIDE DEF known
  <2> QED
    BY <1>5, <1>6, <2>1, <2>2 DEF Pairs
<1>8. BufferInv'
  BY <1>1, <1>2, <1>3, <1>7 DEF CaptureInv, BufferInv
<1>9. align.valid => Current' /\ pair'.stamp >= 0
  BY <1>1, <1>3, <1>5, <1>7 DEF Current
<1>10. KeptInv'
  <2>1. align.valid /\ pair'.periodValid => pair'.period = w.edge - w.before
    BY <1>1, <1>7 DEF CaptureInv, KeptInv
  <2> QED
    BY <1>1, <1>7, <1>9, <2>1 DEF CaptureInv, KeptInv
<1> QED
  BY <1>1, <1>3, <1>7, <1>8, <1>10, InterruptKeeps

LEMMA CaptureIsValidKeeps == ASSUME CaptureInv, CaptureIsValid PROVE CaptureInv'
<1>1. /\ reading = "VALID" /\ ~Masked
      /\ pair' = [pair EXCEPT !.stampValid = align.valid]
      /\ reading' = "IDLE"
      /\ UNCHANGED <<now, pins, watches, change, align, snapshot>>
  BY DEF CaptureIsValid
<1>2. align.done
  BY <1>1 DEF CaptureInv, AlignInv
<1>3. pair \in Pairs /\ align.valid \in BOOLEAN
  BY DEF CaptureInv, CaptureTypes
<1>4. /\ pair' \in Pairs /\ pair'.input = pair.input /\ pair'.buffer = pair.buffer
      /\ pair'.stamp = pair.stamp /\ pair'.stampValid = align.valid
      /\ pair'.previous = pair.previous /\ pair'.previousValid = pair.previousValid
      /\ pair'.period = pair.period /\ pair'.periodValid = pair.periodValid
  BY <1>1, <1>3 DEF Pairs
<1>5. pair.previousValid /\ pair.buffer = <<>>
  BY <1>1 DEF CaptureInv, BufferInv
<1>6. BufferInv'
  BY <1>1, <1>4, <1>5 DEF BufferInv
<1>7. (Current <=> Current') /\ (Behind <=> Behind')
  BY <1>1, <1>4 DEF Current, Behind
<1>8. KeptInv'
  BY <1>1, <1>4, <1>5, <1>7 DEF CaptureInv, KeptInv
<1> QED
  BY <1>1, <1>2, <1>4, <1>6, <1>8, InterruptKeeps

LEMMA RouteKeeps ==
  ASSUME CaptureInv, NEW i \in PpsInputs, RouteInput(i)
  PROVE  CaptureInv'
<1>1. /\ align.done /\ reading = "IDLE"
      /\ pair' = [pair EXCEPT !.routes = @ + 1, !.input = i, !.buffer = <<>>,
                              !.previousValid = FALSE, !.periodValid = FALSE,
                              !.stampValid = FALSE]
      /\ UNCHANGED <<now, pins, watches, change, reading, align, snapshot>>
  BY DEF RouteInput
<1>2. pair \in Pairs
  BY DEF CaptureInv, CaptureTypes
<1>3. /\ pair' \in Pairs /\ pair'.buffer = <<>> /\ ~pair'.previousValid /\ ~pair'.stampValid
      /\ ~pair'.periodValid /\ pair'.stamp = pair.stamp /\ pair'.previous = pair.previous
  <2> DEFINE moved == [pair EXCEPT !.routes = pair.routes + 1, !.input = i, !.buffer = <<>>]
  <2>1. <<>> \in Seq(Int \X Int) /\ pair.routes + 1 \in Nat
    BY <1>2 DEF Pairs
  <2>2. /\ moved \in Pairs /\ moved.buffer = <<>> /\ moved.stamp = pair.stamp
        /\ moved.previous = pair.previous
    BY <1>2, <2>1 DEF Pairs
  <2>3. pair' = [moved EXCEPT !.previousValid = FALSE, !.periodValid = FALSE,
                              !.stampValid = FALSE]
    BY <1>1, <1>2 DEF Pairs
  <2> HIDE DEF moved
  <2> QED
    BY <2>2, <2>3 DEF Pairs
<1>4. BufferInv' /\ KeptInv'
  BY <1>1, <1>3 DEF CaptureInv, BufferInv, KeptInv
<1> QED
  BY <1>1, <1>3, <1>4, InterruptKeeps

-----------------------------------------------------------------------------
\* The snapshot

\* A capture that is behind is too early to be paired.
LEMMA PairedIsCurrent ==
  ASSUME CaptureInv, Paired(pair.input)
  PROVE  Current /\ (pair.periodValid =>
                       pair.period = watches[pair.input].edge - watches[pair.input].before)
<1> DEFINE w == watches[pair.input]
<1>1. /\ pair.stampValid /\ pair.previousValid /\ align.valid
      /\ w.stamp - pair.stamp <= PairTicks
      /\ pair.stamp \in Int /\ w.stamp \in Int
  BY DEF CaptureInv, CaptureTypes, Pairs, Watches, KeptInv, Paired, ReadLatency
<1>2. ~Behind
  BY <1>1, CaptureConstants DEF Behind
<1>3. Current
  BY <1>1, <1>2 DEF CaptureInv, KeptInv
<1> QED
  BY <1>1, <1>3 DEF CaptureInv, KeptInv

LEMMA SampleKeeps == ASSUME CaptureInv, Sample PROVE CaptureInv'
<1> DEFINE i == pair.input
           w == watches[i]
           long == IF pair.periodValid THEN pair.period - (w.edge - w.before) ELSE 0
<1>1. /\ align.done
      /\ snapshot' = IF ~Paired(i) THEN [NoSample EXCEPT !.at = now]
                     ELSE [at |-> now, captured |-> TRUE, late |-> pair.stamp - w.edge,
                           long |-> long]
      /\ pair' = [pair EXCEPT !.stampValid = FALSE]
      /\ watches' = [j \in PpsInputs |-> [watches[j] EXCEPT !.valid = FALSE]]
      /\ UNCHANGED <<now, pins, change, reading, align>>
  BY DEF Sample
<1>2. /\ pair \in Pairs /\ watches \in [PpsInputs -> Watches] /\ i \in PpsInputs
      /\ pair.stamp \in Int /\ pair.period \in Int /\ w.edge \in Int /\ w.before \in Int
  BY DEF CaptureInv, CaptureTypes, Pairs, Watches
<1>3. /\ pair' \in Pairs /\ pair'.input = pair.input /\ pair'.buffer = pair.buffer
      /\ pair'.stamp = pair.stamp /\ ~pair'.stampValid
      /\ pair'.previous = pair.previous /\ pair'.previousValid = pair.previousValid
      /\ pair'.period = pair.period /\ pair'.periodValid = pair.periodValid
  BY <1>1, <1>2 DEF Pairs
<1>4. /\ watches' \in [PpsInputs -> Watches]
      /\ \A j \in PpsInputs :
           /\ watches'[j].high = watches[j].high /\ watches'[j].stamp = watches[j].stamp
           /\ watches'[j].edge = watches[j].edge /\ watches'[j].before = watches[j].before
  BY <1>1, <1>2 DEF Watches
<1>5. CapturedIsOfEdge'
  <2>1. CASE ~Paired(i)
    BY <1>1, <2>1 DEF CapturedIsOfEdge, NoSample
  <2>2. CASE Paired(i)
    <3>1. pair.stamp = w.edge /\ (pair.periodValid => pair.period = w.edge - w.before)
      BY <2>2, PairedIsCurrent DEF Current
    <3>2. pair.stamp - w.edge = 0 /\ long = 0
      BY <1>2, <3>1
    <3> QED
      BY <1>1, <2>2, <3>2 DEF CapturedIsOfEdge
  <2> QED
    BY <2>1, <2>2
<1>6. CaptureTypes' /\ AlignInv'
  BY <1>1, <1>3, <1>4 DEF CaptureInv, CaptureTypes, AlignInv
<1>7. ChangeInv'
  BY <1>1, <1>4 DEF CaptureInv, ChangeInv, EveryEdgeSeen, Seen
<1>8. ASSUME NEW j \in PpsInputs
      PROVE  PinInv(j)' /\ ReadInv(j)' /\ StampedInv(j)'
  BY <1>1, <1>4 DEF CaptureInv, PinInv, ReadInv, StampedInv
<1>9. BufferInv'
  BY <1>1, <1>2, <1>3, <1>4 DEF CaptureInv, BufferInv
<1>10. (Current <=> Current') /\ (Behind <=> Behind')
  BY <1>1, <1>2, <1>3, <1>4 DEF Current, Behind
<1>11. KeptInv'
  BY <1>1, <1>2, <1>3, <1>4, <1>10 DEF CaptureInv, KeptInv
<1> QED
  BY <1>5, <1>6, <1>7, <1>8, <1>9, <1>11 DEF CaptureInv

-----------------------------------------------------------------------------
\* No edge is lost behind one on the other input, and a snapshot taken as captured is of
\* the edge that was watched, with the period up to it, whatever is routed, aligned or
\* half read meanwhile (pps_monitor.c, pps_capture.c, source_edge.c).
THEOREM EdgesAlwaysReachSnapshot == CaptureSpec => []EdgesReachSnapshot
<1>1. CaptureInit => CaptureInv
  BY CaptureStarts
<1>2. CaptureInv /\ [CaptureNext]_captureVars => CaptureInv'
  <2> SUFFICES ASSUME CaptureInv, [CaptureNext]_captureVars PROVE CaptureInv'
    OBVIOUS
  <2>1. CASE UNCHANGED captureVars
    <3>1. UNCHANGED <<now, pins, watches, change, pair, reading, align, snapshot>>
      BY <2>1 DEF captureVars
    <3>2. CaptureTypes' /\ AlignInv' /\ ChangeInv' /\ CapturedIsOfEdge'
      BY <3>1 DEF CaptureInv, CaptureTypes, AlignInv, ChangeInv, EveryEdgeSeen, Seen,
                  CapturedIsOfEdge
    <3>3. \A i \in PpsInputs : PinInv(i)' /\ ReadInv(i)' /\ StampedInv(i)'
      BY <3>1 DEF CaptureInv, PinInv, ReadInv, StampedInv
    <3>4. BufferInv' /\ KeptInv'
      BY <3>1 DEF CaptureInv, BufferInv, KeptInv, Current, Behind
    <3> QED
      BY <3>2, <3>3, <3>4 DEF CaptureInv
  <2>2. CASE \E captured \in BOOLEAN, measured \in Offsets : AlignAndCheck(captured, measured)
    BY <2>2, AlignKeeps
  <2>3. CASE TimerTicks
    BY <2>3, TicksKeep
  <2>4. CASE \E i \in PpsInputs : InputRises(i) \/ InputFalls(i) \/ ChangeReads(i) \/ RouteInput(i)
    BY <2>4, RiseKeeps, FallKeeps, ReadsKeep, RouteKeeps
  <2>5. CASE ChangeEnters \/ ChangeStamps \/ ChangeCompares
    BY <2>5, EnterKeeps, StampKeeps, ComparesKeep
  <2>6. CASE CaptureEnters \/ CaptureStamps \/ CaptureIsValid
    BY <2>6, CaptureEntersKeep, CaptureStampsKeep, CaptureIsValidKeeps
  <2>7. CASE Sample
    BY <2>7, SampleKeeps
  <2> QED
    BY <2>1, <2>2, <2>3, <2>4, <2>5, <2>6, <2>7 DEF CaptureNext
<1>3. CaptureInv => EdgesReachSnapshot
  BY DEF CaptureInv, ChangeInv, EdgesReachSnapshot
<1> QED
  BY <1>1, <1>2, <1>3, PTL DEF CaptureSpec

-----------------------------------------------------------------------------
\* The RTC: what is believed of it

WriteAsked(g) == g.request \in {"WRITING", "WRITING_STOPPED", "RELEASING"}

Searching(g) == g.activity \in {"SEARCHING", "CONFIRMING"}

\* What is believed of the second and its anchor is of the chip, where it is used.
Measured(g) ==
  /\ g.anchor = "ALIGNED" => g.anchorIs # "OLD"
  /\ g.anchor = "ALIGNED" /\ g.second /\ ~Writing(g) => g.secondCurrent
  /\ g.done /\ g.found /\ g.second => g.secondCurrent

\* A search is not disturbed by a write, nor a write begun with an anchor standing,
\* unless a command has overtaken the search that the anchor is of.
Undisturbed(g) ==
  /\ g.done => g.activity = "IDLE"
  /\ Writing(g) => g.anchor # "ALIGNED"
  /\ Searching(g) => ~WriteAsked(g) /\ (g.fresh => g.current)
  /\ WriteAsked(g) => /\ g.anchor = "ALIGNED" => g.anchorIs = "OVERTAKEN" /\ ~g.second
                      /\ g.done => ~g.second

\* Whatever is under way may fail once more.
Attempted(g) ==
  /\ g.writeWanted => g.attempts < Attempts
  /\ g.activity = "SEARCHING" => g.purpose # "CONFIRM"
  /\ Writing(g) \/ (g.done /\ g.purpose = "CONFIRM") => g.attempts < Attempts /\ ~g.writeWanted

\* The record is due before the chip changes under it.
RecordKept(g) ==
  kept.anchor = "ALIGNED" /\ (kept.anchorIs = "OLD" \/ g.anchor # "ALIGNED" \/ WriteAsked(g))
    => g.changed /\ g.rewritten

Sound(g) == g \in Foreground /\ Measured(g) /\ Undisturbed(g) /\ Attempted(g) /\ RecordKept(g)

RtcInv == RtcTypeOK /\ Sound(rtc)

-----------------------------------------------------------------------------
\* The fields the invariant is of, by what they are about.
Transfer(g) == <<g.request, g.bus>>
Recorded(g) == <<g.anchor, g.anchorIs, g.changed, g.rewritten>>
Second(g)   == <<g.second, g.secondCurrent>>
Search(g)   == <<g.purpose, g.done, g.found, g.fresh, g.current>>
Wanted(g)   == <<g.attempts, g.writeWanted>>

\* All of them but of the transfer, the activity and what is wanted.
Kernel(g) == <<Recorded(g), Second(g), Search(g)>>

LEMMA SoundAlike ==
  ASSUME NEW g, NEW h, Sound(g), h \in Foreground, h.request = g.request,
         h.activity = g.activity, Kernel(h) = Kernel(g), Wanted(h) = Wanted(g)
  PROVE  Sound(h)
BY DEF Kernel, Recorded, Second, Search, Wanted, Sound, Measured, Undisturbed, Attempted, RecordKept,
       WriteAsked, Searching, Writing

LEMMA Constants ==
  /\ Attempts \in Nat \ {0} /\ SearchEpochs \in Nat /\ StepEpochs \in Nat /\ CheckEpochs \in Nat
  /\ WaitEpochs \in Nat /\ ReadEpochs \in Nat /\ RateEpochs \in Nat /\ MaxTrouble \in Nat
BY RtcAssumption

\* Each field takes what is of its type.
LEMMA Retyped ==
  ASSUME NEW g \in Foreground
  PROVE
    /\ \A v \in ChipRequests : [g EXCEPT !.request = v] \in Foreground
    /\ \A v \in {"IDLE", "ON", "LATE", "OK", "NACK", "REFUSED", "ERROR"} : [g EXCEPT !.bus = v] \in Foreground
    /\ \A v \in 0 .. 2 : [g EXCEPT !.intent = v] \in Foreground
    /\ \A v \in Nat : [g EXCEPT !.readIn = v] \in Foreground
    /\ \A v \in BOOLEAN : [g EXCEPT !.present = v] \in Foreground
    /\ \A v \in {"NONE", "OK", "LOW", "JUNK"} : [g EXCEPT !.date = v] \in Foreground
    /\ \A v \in BOOLEAN : [g EXCEPT !.stopped = v] \in Foreground
    /\ \A v \in 0 .. 2 : [g EXCEPT !.off = v] \in Foreground
    /\ \A v \in BOOLEAN : [g EXCEPT !.current = v] \in Foreground
    /\ \A v \in Activities : [g EXCEPT !.activity = v] \in Foreground
    /\ \A v \in Nat : [g EXCEPT !.age = v] \in Foreground
    /\ \A v \in Nat : [g EXCEPT !.left = v] \in Foreground
    /\ \A v \in {"MEASURE", "CHECK", "CONFIRM"} : [g EXCEPT !.purpose = v] \in Foreground
    /\ \A v \in BOOLEAN : [g EXCEPT !.sample = v] \in Foreground
    /\ \A v \in BOOLEAN : [g EXCEPT !.fresh = v] \in Foreground
    /\ \A v \in BOOLEAN : [g EXCEPT !.done = v] \in Foreground
    /\ \A v \in BOOLEAN : [g EXCEPT !.found = v] \in Foreground
    /\ \A v \in BOOLEAN : [g EXCEPT !.searched = v] \in Foreground
    /\ \A v \in Nat : [g EXCEPT !.measureIn = v] \in Foreground
    /\ \A v \in BOOLEAN : [g EXCEPT !.writeWanted = v] \in Foreground
    /\ \A v \in BOOLEAN : [g EXCEPT !.plainWanted = v] \in Foreground
    /\ \A v \in 0 .. Attempts : [g EXCEPT !.attempts = v] \in Foreground
    /\ \A v \in BOOLEAN : [g EXCEPT !.worked = v] \in Foreground
    /\ \A v \in Nat : [g EXCEPT !.checkIn = v] \in Foreground
    /\ \A v \in Nat \cup {-1} : [g EXCEPT !.rateIn = v] \in Foreground
    /\ \A v \in BOOLEAN : [g EXCEPT !.wasSync = v] \in Foreground
    /\ \A v \in BOOLEAN : [g EXCEPT !.stoppedReleased = v] \in Foreground
    /\ \A v \in BOOLEAN : [g EXCEPT !.second = v] \in Foreground
    /\ \A v \in BOOLEAN : [g EXCEPT !.secondCurrent = v] \in Foreground
    /\ \A v \in 0 .. 2 : [g EXCEPT !.secondOff = v] \in Foreground
    /\ \A v \in Anchors : [g EXCEPT !.anchor = v] \in Foreground
    /\ \A v \in Standing : [g EXCEPT !.anchorIs = v] \in Foreground
    /\ \A v \in BOOLEAN : [g EXCEPT !.changed = v] \in Foreground
    /\ \A v \in BOOLEAN : [g EXCEPT !.rewritten = v] \in Foreground
<1>1.
    /\ \A v \in ChipRequests : [g EXCEPT !.request = v] \in Foreground
    /\ \A v \in {"IDLE", "ON", "LATE", "OK", "NACK", "REFUSED", "ERROR"} : [g EXCEPT !.bus = v] \in Foreground
    /\ \A v \in 0 .. 2 : [g EXCEPT !.intent = v] \in Foreground
    /\ \A v \in Nat : [g EXCEPT !.readIn = v] \in Foreground
    /\ \A v \in BOOLEAN : [g EXCEPT !.present = v] \in Foreground
  BY DEF Foreground
<1>2.
    /\ \A v \in {"NONE", "OK", "LOW", "JUNK"} : [g EXCEPT !.date = v] \in Foreground
    /\ \A v \in BOOLEAN : [g EXCEPT !.stopped = v] \in Foreground
    /\ \A v \in 0 .. 2 : [g EXCEPT !.off = v] \in Foreground
    /\ \A v \in BOOLEAN : [g EXCEPT !.current = v] \in Foreground
    /\ \A v \in Activities : [g EXCEPT !.activity = v] \in Foreground
  BY DEF Foreground
<1>3.
    /\ \A v \in Nat : [g EXCEPT !.age = v] \in Foreground
    /\ \A v \in Nat : [g EXCEPT !.left = v] \in Foreground
    /\ \A v \in {"MEASURE", "CHECK", "CONFIRM"} : [g EXCEPT !.purpose = v] \in Foreground
    /\ \A v \in BOOLEAN : [g EXCEPT !.sample = v] \in Foreground
    /\ \A v \in BOOLEAN : [g EXCEPT !.fresh = v] \in Foreground
  BY DEF Foreground
<1>4.
    /\ \A v \in BOOLEAN : [g EXCEPT !.done = v] \in Foreground
    /\ \A v \in BOOLEAN : [g EXCEPT !.found = v] \in Foreground
    /\ \A v \in BOOLEAN : [g EXCEPT !.searched = v] \in Foreground
    /\ \A v \in Nat : [g EXCEPT !.measureIn = v] \in Foreground
    /\ \A v \in BOOLEAN : [g EXCEPT !.writeWanted = v] \in Foreground
  BY DEF Foreground
<1>5.
    /\ \A v \in BOOLEAN : [g EXCEPT !.plainWanted = v] \in Foreground
    /\ \A v \in 0 .. Attempts : [g EXCEPT !.attempts = v] \in Foreground
    /\ \A v \in BOOLEAN : [g EXCEPT !.worked = v] \in Foreground
    /\ \A v \in Nat : [g EXCEPT !.checkIn = v] \in Foreground
    /\ \A v \in Nat \cup {-1} : [g EXCEPT !.rateIn = v] \in Foreground
  BY DEF Foreground
<1>6.
    /\ \A v \in BOOLEAN : [g EXCEPT !.wasSync = v] \in Foreground
    /\ \A v \in BOOLEAN : [g EXCEPT !.stoppedReleased = v] \in Foreground
    /\ \A v \in BOOLEAN : [g EXCEPT !.second = v] \in Foreground
    /\ \A v \in BOOLEAN : [g EXCEPT !.secondCurrent = v] \in Foreground
    /\ \A v \in 0 .. 2 : [g EXCEPT !.secondOff = v] \in Foreground
  BY DEF Foreground
<1>7.
    /\ \A v \in Anchors : [g EXCEPT !.anchor = v] \in Foreground
    /\ \A v \in Standing : [g EXCEPT !.anchorIs = v] \in Foreground
    /\ \A v \in BOOLEAN : [g EXCEPT !.changed = v] \in Foreground
    /\ \A v \in BOOLEAN : [g EXCEPT !.rewritten = v] \in Foreground
  BY DEF Foreground
<1> QED BY ZenonT(30), <1>1, <1>2, <1>3, <1>4, <1>5, <1>6, <1>7

LEMMA StartIs ==
  ASSUME NEW g \in Foreground, NEW request \in ChipRequests
  PROVE  LET h == Start(g, request)
         IN  /\ h \in Foreground /\ h.request = request /\ h.bus = "ON"
             /\ h.activity = g.activity /\ Kernel(h) = Kernel(g) /\ Wanted(h) = Wanted(g)
<1> DEFINE h == Start(g, request)
<1>1. h \in Foreground
  BY Zenon, Retyped DEF Start
<1>2. h.request = request /\ h.bus = "ON" /\ h.activity = g.activity
      /\ Kernel(h) = Kernel(g) /\ Wanted(h) = Wanted(g)
  BY DEF Start, Foreground, Kernel, Recorded, Second, Search, Wanted
<1> QED BY <1>1, <1>2

LEMMA SetActivityIs ==
  ASSUME NEW g \in Foreground, NEW activity \in Activities
  PROVE  LET h == SetActivity(g, activity)
         IN  /\ h \in Foreground /\ h.activity = activity /\ Transfer(h) = Transfer(g)
             /\ Kernel(h) = Kernel(g) /\ Wanted(h) = Wanted(g)
<1> DEFINE h == SetActivity(g, activity)
<1>1. h \in Foreground
  <2>1. 0 \in Nat
    OBVIOUS
  <2> QED BY Zenon, <2>1, Retyped DEF SetActivity
<1>2. h.activity = activity /\ Transfer(h) = Transfer(g)
      /\ Kernel(h) = Kernel(g) /\ Wanted(h) = Wanted(g)
  BY DEF SetActivity, Foreground, Kernel, Recorded, Second, Search, Wanted, Transfer
<1> QED BY <1>1, <1>2

LEMMA RtcChangedIs ==
  ASSUME NEW g \in Foreground
  PROVE  LET h == RtcChanged(g)
         IN  /\ h \in Foreground /\ h.anchor = "NONE" /\ h.changed /\ h.rewritten
             /\ h.activity = g.activity /\ Transfer(h) = Transfer(g)
             /\ Second(h) = Second(g) /\ Search(h) = Search(g) /\ Wanted(h) = Wanted(g)
<1> DEFINE h == RtcChanged(g)
<1>1. h \in Foreground
  <2>1. "NONE" \in Anchors /\ "OLD" \in Standing
    BY DEF Anchors, Standing
  <2> QED BY Zenon, <2>1, Retyped DEF RtcChanged
<1>2. h.anchor = "NONE" /\ h.changed /\ h.rewritten /\ h.activity = g.activity
      /\ Transfer(h) = Transfer(g) /\ Second(h) = Second(g) /\ Search(h) = Search(g)
      /\ Wanted(h) = Wanted(g)
  BY DEF RtcChanged, Foreground, Second, Search, Wanted, Transfer
<1> QED BY <1>1, <1>2

LEMMA EndSearchIs ==
  ASSUME NEW g \in Foreground, NEW yes \in BOOLEAN
  PROVE  LET h == EndSearch(g, yes)
         IN  /\ h \in Foreground /\ h.activity = "IDLE" /\ h.done /\ h.found = yes
             /\ Transfer(h) = Transfer(g) /\ Recorded(h) = Recorded(g) /\ Second(h) = Second(g)
             /\ Wanted(h) = Wanted(g) /\ h.purpose = g.purpose
<1> DEFINE idle == SetActivity(g, "IDLE")
           h == EndSearch(g, yes)
<1>1. /\ idle \in Foreground /\ idle.activity = "IDLE" /\ Transfer(idle) = Transfer(g)
      /\ Kernel(idle) = Kernel(g) /\ Wanted(idle) = Wanted(g)
  BY SetActivityIs DEF Activities
<1>2. h = [idle EXCEPT !.done = TRUE, !.found = yes]
  BY DEF EndSearch
<1> HIDE DEF idle, h
<1>3. h \in Foreground
  BY Zenon, <1>1, <1>2, Retyped
<1>4. /\ h.activity = "IDLE" /\ h.done /\ h.found = yes /\ Transfer(h) = Transfer(idle)
      /\ Recorded(h) = Recorded(idle) /\ Second(h) = Second(idle) /\ Wanted(h) = Wanted(idle)
      /\ h.purpose = idle.purpose
  BY <1>1, <1>2 DEF Foreground, Transfer, Recorded, Second, Wanted
<1>5. Recorded(idle) = Recorded(g) /\ Second(idle) = Second(g) /\ idle.purpose = g.purpose
  BY <1>1 DEF Kernel, Search
<1> QED BY <1>1, <1>3, <1>4, <1>5 DEF h

LEMMA StartSearchIs ==
  ASSUME NEW g \in Foreground, NEW why \in {"MEASURE", "CHECK", "CONFIRM"}
  PROVE  LET h == StartSearch(g, why)
         IN  /\ h \in Foreground /\ h.activity = (IF why = "CONFIRM" THEN "CONFIRMING" ELSE "SEARCHING")
             /\ h.request = "READING" /\ h.bus = "ON" /\ Recorded(h) = Recorded(g)
             /\ Second(h) = Second(g) /\ Wanted(h) = Wanted(g)
             /\ h.purpose = why /\ ~h.done /\ ~h.fresh
<1> DEFINE activity == IF why = "CONFIRM" THEN "CONFIRMING" ELSE "SEARCHING"
           active == SetActivity(g, activity)
           asked == Start(active, "READING")
           h == StartSearch(g, why)
<1>1. activity \in Activities /\ "READING" \in ChipRequests
  BY DEF Activities, ChipRequests
<1>2. h = [asked EXCEPT !.purpose = why, !.left = SearchEpochs, !.sample = FALSE,
                        !.fresh = FALSE, !.done = FALSE, !.searched = TRUE]
  BY DEF StartSearch
<1> HIDE DEF activity
<1>3. /\ active \in Foreground /\ active.activity = activity
      /\ Kernel(active) = Kernel(g) /\ Wanted(active) = Wanted(g)
  BY <1>1, SetActivityIs
<1> HIDE DEF active
<1>4. /\ asked \in Foreground /\ asked.request = "READING" /\ asked.bus = "ON"
      /\ asked.activity = active.activity
      /\ Kernel(asked) = Kernel(active) /\ Wanted(asked) = Wanted(active)
  BY <1>1, <1>3, StartIs
<1> HIDE DEF asked, h
<1>5. h \in Foreground
  BY Zenon, <1>2, <1>4, Retyped, Constants
<1>6. /\ h.activity = asked.activity /\ h.request = asked.request /\ h.bus = asked.bus
      /\ Recorded(h) = Recorded(asked) /\ Second(h) = Second(asked) /\ Wanted(h) = Wanted(asked)
      /\ h.purpose = why /\ ~h.done /\ ~h.fresh
  BY <1>2, <1>4 DEF Foreground, Recorded, Second, Wanted
<1>7. Recorded(asked) = Recorded(g) /\ Second(asked) = Second(g) /\ Wanted(asked) = Wanted(g)
  BY <1>3, <1>4 DEF Kernel
<1> QED BY <1>3, <1>4, <1>5, <1>6, <1>7 DEF h, activity

-----------------------------------------------------------------------------
\* A pass: the driver, and then the source.

\* A write asked for is on the bus.
OnBus(g) == WriteAsked(g) => g.bus \in {"ON", "LATE"}

LEMMA SoundFacts ==
  ASSUME NEW g, Sound(g)
  PROVE  /\ g \in Foreground /\ g.request \in ChipRequests /\ g.activity \in Activities
         /\ g.attempts \in 0 .. Attempts /\ g.readIn \in Nat /\ g.off \in 0 .. 2
         /\ g.checkIn \in Nat /\ g.measureIn \in Nat /\ g.purpose \in {"MEASURE", "CHECK", "CONFIRM"}
         /\ g.done \in BOOLEAN /\ g.found \in BOOLEAN /\ g.second \in BOOLEAN
         /\ g.current \in BOOLEAN /\ g.writeWanted \in BOOLEAN
         /\ g.date \in {"NONE", "OK", "LOW", "JUNK"} /\ g.present \in BOOLEAN
         /\ g.bus \in {"IDLE", "ON", "LATE", "OK", "NACK", "REFUSED", "ERROR"}
BY DEF Sound, Foreground

\* A read asked for, or nothing, spoils none of it.
LEMMA ReadSound ==
  ASSUME NEW g, NEW h \in Foreground, Sound(g), ~WriteAsked(h), h.activity = g.activity,
         Kernel(h) = Kernel(g), Wanted(h) = Wanted(g)
  PROVE  Sound(h)
BY DEF Kernel, Recorded, Second, Search, Wanted, Sound, Measured, Undisturbed, Attempted, RecordKept,
       WriteAsked, Searching, Writing

LEMMA FinishTransferSound ==
  ASSUME NEW g, Sound(g), chip \in Chip, Busy(g)
  PROVE  Sound(FinishTransfer(g)) /\ OnBus(FinishTransfer(g))
<1> DEFINE there == IF g.bus = "NACK" THEN FALSE ELSE IF g.bus = "ERROR" THEN g.present ELSE TRUE
           calendar == IF g.bus = "NACK" THEN "NONE" ELSE g.date
           ended == [g EXCEPT !.bus = "IDLE", !.readIn = ReadEpochs, !.present = there, !.date = calendar]
           read == [ended EXCEPT !.request = "DONE", !.date = chip.date, !.stopped = ~chip.running,
                                 !.off = chip.off, !.current = TRUE, !.fresh = TRUE]
           failed == [ended EXCEPT !.request = "FAILED"]
           wrote == [ended EXCEPT !.request = "DONE", !.worked = TRUE]
           again == Start(ended, "READING")
           h == FinishTransfer(g)
<1>1. there \in BOOLEAN /\ calendar \in {"NONE", "OK", "LOW", "JUNK"}
  BY SoundFacts
<1>2. ended = [g EXCEPT !.bus = "IDLE", !.readIn = ReadEpochs, !.present = there, !.date = calendar]
  OBVIOUS
<1> SUFFICES Sound(h) /\ OnBus(h)
  OBVIOUS
<1>3. h = failed \/ h = again \/ h = read \/ h = wrote
  BY DEF FinishTransfer, ReadDone
<1> HIDE DEF there, calendar, h
<1>4. ended \in Foreground
  BY Zenon, <1>1, SoundFacts, Retyped, Constants
<1>5. ended.activity = g.activity /\ Kernel(ended) = Kernel(g) /\ Wanted(ended) = Wanted(g)
  BY SoundFacts DEF Foreground, Kernel, Recorded, Second, Search, Wanted
<1> HIDE DEF ended
<1>6. /\ chip.date \in {"NONE", "OK", "LOW", "JUNK"} /\ (~chip.running) \in BOOLEAN
      /\ chip.off \in 0 .. 2 /\ "DONE" \in ChipRequests /\ "FAILED" \in ChipRequests
      /\ "READING" \in ChipRequests
  BY DEF Chip, ChipRequests
<1>7. CASE h = failed
  <2>1. failed \in Foreground
    BY Zenon, <1>4, <1>6, Retyped
  <2>2. failed.request = "FAILED" /\ failed.activity = g.activity /\ Kernel(failed) = Kernel(g)
        /\ Wanted(failed) = Wanted(g)
    BY <1>4, <1>5 DEF Foreground, Kernel, Recorded, Second, Search, Wanted
  <2> HIDE DEF failed
  <2> QED BY <1>7, <2>1, <2>2, ReadSound DEF WriteAsked, OnBus
<1>8. CASE h = again
  <2>1. /\ again \in Foreground /\ again.request = "READING" /\ again.activity = ended.activity
        /\ Kernel(again) = Kernel(ended) /\ Wanted(again) = Wanted(ended)
    BY <1>4, <1>6, StartIs
  <2> HIDE DEF again
  <2> QED BY <1>5, <1>8, <2>1, ReadSound DEF WriteAsked, OnBus
<1>9. CASE h = wrote
  <2>1. wrote \in Foreground
    BY Zenon, <1>4, <1>6, Retyped
  <2>2. wrote.request = "DONE" /\ wrote.activity = g.activity /\ Kernel(wrote) = Kernel(g)
        /\ Wanted(wrote) = Wanted(g)
    BY <1>4, <1>5 DEF Foreground, Kernel, Recorded, Second, Search, Wanted
  <2> HIDE DEF wrote
  <2> QED BY <1>9, <2>1, <2>2, ReadSound DEF WriteAsked, OnBus
<1>10. CASE h = read
  <2>1. read \in Foreground
    BY ZenonT(60), <1>4, <1>6, Retyped
  <2>2. /\ read.request = "DONE" /\ read.activity = ended.activity /\ Recorded(read) = Recorded(ended)
        /\ Second(read) = Second(ended) /\ Wanted(read) = Wanted(ended)
        /\ read.done = ended.done /\ read.found = ended.found /\ read.purpose = ended.purpose
        /\ read.current /\ read.fresh
    BY <1>4 DEF Foreground, Recorded, Second, Wanted
  <2> HIDE DEF read
  <2> QED BY <1>5, <1>10, <2>1, <2>2
          DEF Kernel, Recorded, Second, Search, Wanted, Sound, Measured, Undisturbed, Attempted,
              RecordKept, WriteAsked, Searching, Writing, OnBus
<1> QED BY <1>3, <1>7, <1>8, <1>9, <1>10

LEMMA ServicedSound ==
  ASSUME NEW g, Sound(g), chip \in Chip
  PROVE  Sound(Serviced(g)) /\ OnBus(Serviced(g))
<1> DEFINE h == IF Busy(g) /\ g.bus \notin {"ON", "LATE"} THEN FinishTransfer(g) ELSE g
           due == [h EXCEPT !.readIn = ReadEpochs]
           asked == Start(due, "READING")
<1>1. Sound(h) /\ OnBus(h)
  BY FinishTransferSound, SoundFacts DEF OnBus, Busy, WriteAsked
<1>2. Serviced(g) = h \/ Serviced(g) = asked
  BY DEF Serviced
<1> HIDE DEF h
<1>3. due \in Foreground
  BY Zenon, <1>1, SoundFacts, Retyped, Constants
<1>4. due.activity = h.activity /\ Kernel(due) = Kernel(h) /\ Wanted(due) = Wanted(h)
  BY <1>1, SoundFacts DEF Foreground, Kernel, Recorded, Second, Search, Wanted
<1> HIDE DEF due
<1>5. /\ asked \in Foreground /\ asked.request = "READING" /\ asked.activity = due.activity
      /\ Kernel(asked) = Kernel(due) /\ Wanted(asked) = Wanted(due)
  BY <1>3, StartIs DEF ChipRequests
<1> HIDE DEF asked
<1>6. Sound(asked) /\ OnBus(asked)
  BY <1>1, <1>4, <1>5, ReadSound DEF WriteAsked, OnBus
<1> QED BY <1>1, <1>2, <1>6

-----------------------------------------------------------------------------
LEMMA AbortWriteSound ==
  ASSUME NEW g, Sound(g), ~g.done, g.attempts < Attempts, ~g.writeWanted
  PROVE  /\ Sound(AbortWrite(g)) /\ Transfer(AbortWrite(g)) = Transfer(g)
         /\ AbortWrite(g).activity = "IDLE" /\ ~AbortWrite(g).done
<1> DEFINE still == SetActivity(g, "IDLE")
           count == still.attempts + 1
           idle == [still EXCEPT !.attempts = count]
           more == [idle EXCEPT !.writeWanted = TRUE]
           plainly == [idle EXCEPT !.plainWanted = TRUE]
           h == AbortWrite(g)
<1> SUFFICES /\ Sound(h) /\ Transfer(h) = Transfer(g) /\ h.activity = "IDLE" /\ ~h.done
  OBVIOUS
<1>1. /\ still \in Foreground /\ still.activity = "IDLE" /\ Transfer(still) = Transfer(g)
      /\ Kernel(still) = Kernel(g) /\ Wanted(still) = Wanted(g)
  BY SoundFacts, SetActivityIs DEF Activities
<1>2. (h = more /\ idle.attempts < Attempts) \/ h = plainly
  BY DEF AbortWrite
<1> HIDE DEF still, h
<1>3. count \in 0 .. Attempts
  BY <1>1, SoundFacts, Constants DEF Wanted
<1> HIDE DEF count
<1>4. idle \in Foreground
  BY Zenon, <1>1, <1>3, Retyped
<1>5. /\ idle.activity = "IDLE" /\ Transfer(idle) = Transfer(still) /\ Kernel(idle) = Kernel(still)
      /\ idle.writeWanted = still.writeWanted
  BY <1>1 DEF Foreground, Transfer, Kernel, Recorded, Second, Search
<1> HIDE DEF idle
<1>6. /\ Transfer(idle) = Transfer(g) /\ Kernel(idle) = Kernel(g) /\ ~idle.writeWanted
  BY <1>1, <1>5 DEF Wanted
<1>7. more \in Foreground /\ plainly \in Foreground
  BY Zenon, <1>4, Retyped
<1>8. /\ more.activity = "IDLE" /\ Transfer(more) = Transfer(idle) /\ Kernel(more) = Kernel(idle)
      /\ more.attempts = idle.attempts
  BY <1>4, <1>5 DEF Foreground, Transfer, Kernel, Recorded, Second, Search
<1>9. /\ plainly.activity = "IDLE" /\ Transfer(plainly) = Transfer(idle) /\ Kernel(plainly) = Kernel(idle)
      /\ plainly.writeWanted = idle.writeWanted
  BY <1>4, <1>5 DEF Foreground, Transfer, Kernel, Recorded, Second, Search
<1> HIDE DEF more, plainly
<1>10. /\ h \in Foreground /\ h.activity = "IDLE" /\ Transfer(h) = Transfer(g)
       /\ Kernel(h) = Kernel(g) /\ (h.writeWanted => h.attempts < Attempts)
  BY <1>2, <1>6, <1>7, <1>8, <1>9
<1> QED
  BY <1>10 DEF Transfer, Kernel, Recorded, Second, Search, Sound, Measured, Undisturbed, Attempted,
               RecordKept, WriteAsked, Searching, Writing

LEMMA StartSearchSound ==
  ASSUME NEW g, Sound(g), NEW why \in {"MEASURE", "CHECK", "CONFIRM"},
         why = "CONFIRM" => Writing(g), Writing(g) => why = "CONFIRM"
  PROVE  Sound(StartSearch(g, why)) /\ OnBus(StartSearch(g, why))
<1> DEFINE h == StartSearch(g, why)
<1> SUFFICES Sound(h) /\ OnBus(h)
  OBVIOUS
<1>1. /\ h \in Foreground /\ h.activity = (IF why = "CONFIRM" THEN "CONFIRMING" ELSE "SEARCHING")
      /\ h.request = "READING" /\ h.bus = "ON" /\ Recorded(h) = Recorded(g)
      /\ Second(h) = Second(g) /\ Wanted(h) = Wanted(g)
      /\ h.purpose = why /\ ~h.done /\ ~h.fresh
  BY SoundFacts, StartSearchIs
<1> HIDE DEF h
<1> QED
  BY <1>1 DEF Recorded, Second, Wanted, Sound, Measured, Undisturbed, Attempted,
              RecordKept, WriteAsked, Searching, Writing, OnBus

LEMMA EndSearchSound ==
  ASSUME NEW g, Sound(g), Searching(g), NEW yes \in BOOLEAN, yes => g.secondCurrent
  PROVE  Sound(EndSearch(g, yes)) /\ ~WriteAsked(EndSearch(g, yes))
<1> DEFINE h == EndSearch(g, yes)
<1> SUFFICES Sound(h) /\ ~WriteAsked(h)
  OBVIOUS
<1>1. /\ h \in Foreground /\ h.activity = "IDLE" /\ h.done /\ h.found = yes
      /\ Transfer(h) = Transfer(g) /\ Recorded(h) = Recorded(g) /\ Second(h) = Second(g)
      /\ Wanted(h) = Wanted(g) /\ h.purpose = g.purpose
  BY SoundFacts, EndSearchIs
<1> HIDE DEF h
<1> QED
  BY <1>1 DEF Transfer, Recorded, Second, Wanted, Sound, Measured, Undisturbed, Attempted,
              RecordKept, WriteAsked, Searching, Writing

LEMMA FoundSound ==
  ASSUME NEW g, Sound(g), Searching(g), g.current
  PROVE  Sound(Found(g)) /\ ~WriteAsked(Found(g)) /\ Found(g).activity = "IDLE"
<1> DEFINE seen == [g EXCEPT !.second = TRUE, !.secondCurrent = g.current, !.secondOff = g.off]
<1>1. seen \in Foreground
  BY Zenon, SoundFacts, Retyped
<1>2. /\ seen.second /\ seen.secondCurrent /\ seen.activity = g.activity
      /\ Transfer(seen) = Transfer(g) /\ Recorded(seen) = Recorded(g) /\ Search(seen) = Search(g)
      /\ Wanted(seen) = Wanted(g)
  <2>1. g \in Foreground
    BY SoundFacts
  <2>2. seen.second = TRUE /\ seen.secondCurrent = g.current /\ seen.activity = g.activity
    BY <2>1 DEF Foreground
  <2>3. /\ Transfer(seen) = Transfer(g) /\ Recorded(seen) = Recorded(g) /\ Search(seen) = Search(g)
        /\ Wanted(seen) = Wanted(g)
    BY <2>1 DEF Foreground, Transfer, Recorded, Search, Wanted
  <2> QED BY <2>2, <2>3
<1>3. Found(g) = EndSearch(seen, TRUE)
  BY DEF Found
<1> HIDE DEF seen
<1>4. Sound(seen) /\ Searching(seen)
  BY <1>1, <1>2 DEF Transfer, Recorded, Search, Wanted, Sound, Measured, Undisturbed, Attempted,
                    RecordKept, WriteAsked, Searching, Writing
<1>5. EndSearch(seen, TRUE).activity = "IDLE"
  BY <1>1, EndSearchIs
<1> QED BY <1>2, <1>3, <1>4, <1>5, EndSearchSound

LEMMA KeepSearchingSound ==
  ASSUME NEW g, Sound(g), Searching(g), NEW h \in KeepSearching(g)
  PROVE  Sound(h) /\ OnBus(h)
<1> DEFINE read == [g EXCEPT !.fresh = FALSE]
           skipped == [read EXCEPT !.sample = FALSE]
           first == [read EXCEPT !.sample = TRUE]
<1>1. PICK k : /\ h = ReadOn(k)
               /\ k = g \/ (g.fresh /\ k \in {skipped, first, read, Found(read)})
  BY DEF KeepSearching, TakeSample
<1>2. read \in Foreground
  BY Zenon, SoundFacts, Retyped
<1>3. /\ read.activity = g.activity /\ Transfer(read) = Transfer(g) /\ Recorded(read) = Recorded(g)
      /\ Second(read) = Second(g) /\ Wanted(read) = Wanted(g) /\ ~read.fresh
      /\ read.current = g.current /\ read.done = g.done /\ read.found = g.found
      /\ read.purpose = g.purpose
  BY SoundFacts DEF Foreground, Transfer, Recorded, Second, Wanted
<1> HIDE DEF read
<1>4. Sound(read) /\ Searching(read) /\ (g.fresh => read.current)
  BY <1>2, <1>3 DEF Transfer, Recorded, Second, Wanted, Sound, Measured, Undisturbed, Attempted,
                    RecordKept, WriteAsked, Searching, Writing
<1>5. skipped \in Foreground /\ first \in Foreground
  BY Zenon, <1>2, Retyped
<1>6. /\ skipped.activity = read.activity /\ Transfer(skipped) = Transfer(read)
      /\ Kernel(skipped) = Kernel(read) /\ Wanted(skipped) = Wanted(read)
      /\ first.activity = read.activity /\ Transfer(first) = Transfer(read)
      /\ Kernel(first) = Kernel(read) /\ Wanted(first) = Wanted(read)
  BY <1>2 DEF Foreground, Kernel, Recorded, Second, Search, Transfer, Wanted
<1> HIDE DEF skipped, first
<1>7. Sound(skipped) /\ Searching(skipped) /\ Sound(first) /\ Searching(first)
  <2>1. skipped.request = read.request /\ first.request = read.request
    BY <1>6 DEF Transfer
  <2> QED BY <1>4, <1>5, <1>6, <2>1, SoundAlike DEF Searching
<1>8. Sound(k) /\ ~WriteAsked(k) /\ (k.activity = "IDLE" \/ Searching(k))
  <2>1. \A x : Sound(x) /\ Searching(x) => ~WriteAsked(x)
    BY DEF Sound, Undisturbed
  <2>2. CASE k = g \/ k = skipped \/ k = first \/ k = read
    BY <1>4, <1>7, <2>1, <2>2
  <2>3. CASE g.fresh /\ k = Found(read)
    BY <1>4, <2>3, FoundSound
  <2> QED BY <1>1, <2>2, <2>3
<1>9. CASE h = k
  BY <1>8, <1>9 DEF OnBus
<1>10. CASE h = EndSearch(k, FALSE) /\ k.activity # "IDLE"
  BY <1>8, <1>10, EndSearchSound DEF OnBus
<1>11. CASE h = Start(k, "READING")
  <2>1. /\ h \in Foreground /\ h.request = "READING" /\ h.activity = k.activity
        /\ Kernel(h) = Kernel(k) /\ Wanted(h) = Wanted(k)
    BY <1>8, <1>11, SoundFacts, StartIs DEF ChipRequests
  <2> QED BY <1>8, <2>1, ReadSound DEF WriteAsked, OnBus
<1> QED BY <1>1, <1>9, <1>10, <1>11 DEF ReadOn

LEMMA PolledSound ==
  ASSUME NEW g, Sound(g), OnBus(g), NEW h \in Polled(g)
  PROVE  Sound(h) /\ OnBus(h)
<1>1. g.activity \in Activities
  BY SoundFacts
<1>2. CASE h = g
  BY <1>2
<1>3. CASE g.activity = "IDLE" /\ h = StartSearch(g, "MEASURE")
  BY <1>3, StartSearchSound DEF Writing
<1>4. CASE Searching(g) /\ h \in KeepSearching(g)
  BY <1>4, KeepSearchingSound
<1>5. CASE g.activity = "LOADING" /\ h = SetActivity(g, "WAITING")
  <2>1. /\ h \in Foreground /\ h.activity = "WAITING" /\ Transfer(h) = Transfer(g)
        /\ Kernel(h) = Kernel(g) /\ Wanted(h) = Wanted(g)
    BY <1>5, SoundFacts, SetActivityIs DEF Activities
  <2> QED
    BY <1>5, <2>1 DEF Transfer, Kernel, Recorded, Second, Search, Wanted, Sound, Measured, Undisturbed,
                      Attempted, RecordKept, WriteAsked, Searching, Writing, OnBus
<1>6. CASE Writing(g) /\ h = AbortWrite(g)
  <2>1. ~g.done /\ g.attempts < Attempts /\ ~g.writeWanted
    BY <1>6 DEF Sound, Undisturbed, Attempted, Writing
  <2>2. Sound(h) /\ Transfer(h) = Transfer(g)
    BY <1>6, <2>1, AbortWriteSound
  <2> QED BY <2>2 DEF Transfer, OnBus, WriteAsked
<1>7. CASE g.activity = "RELEASING" /\ h = StartSearch(g, "CONFIRM")
  BY <1>7, StartSearchSound DEF Writing
<1>8. CASE /\ g.activity = "WAITING"
           /\ h = Start(SetActivity([g EXCEPT !.worked = FALSE], "RELEASING"), "RELEASING")
  <2> DEFINE fresh == [g EXCEPT !.worked = FALSE]
             next == SetActivity(fresh, "RELEASING")
  <2>1. fresh \in Foreground
    BY Zenon, SoundFacts, Retyped
  <2>2. Kernel(fresh) = Kernel(g) /\ Wanted(fresh) = Wanted(g)
    BY SoundFacts DEF Foreground, Kernel, Recorded, Second, Search, Wanted
  <2>3. h = Start(next, "RELEASING")
    BY <1>8
  <2> HIDE DEF fresh
  <2>4. /\ next \in Foreground /\ next.activity = "RELEASING"
        /\ Kernel(next) = Kernel(fresh) /\ Wanted(next) = Wanted(fresh)
    BY <2>1, SetActivityIs DEF Activities
  <2> HIDE DEF next
  <2>5. /\ h \in Foreground /\ h.request = "RELEASING" /\ h.bus = "ON"
        /\ h.activity = next.activity /\ Kernel(h) = Kernel(next) /\ Wanted(h) = Wanted(next)
    BY <2>3, <2>4, StartIs DEF ChipRequests
  <2>6. Writing(g)
    BY <1>8 DEF Writing
  <2> QED
    BY <2>2, <2>4, <2>5, <2>6 DEF Kernel, Recorded, Second, Search, Wanted, Sound, Measured,
                      Undisturbed, Attempted, RecordKept, WriteAsked, Searching, Writing, OnBus
<1>9. CASE g.activity = "IDLE"
  BY <1>2, <1>3, <1>9 DEF Polled
<1>10. CASE Searching(g)
  <2>1. g.activity # "IDLE"
    BY <1>10 DEF Searching
  <2>2. Polled(g) = KeepSearching(g)
    BY <1>10, <2>1 DEF Polled, Searching
  <2> QED BY <1>4, <1>10, <2>2
<1>11. CASE g.activity = "LOADING"
  BY <1>2, <1>5, <1>6, <1>11 DEF Polled, Writing
<1>12. CASE g.activity = "WAITING"
  BY <1>2, <1>6, <1>8, <1>12 DEF Polled, WaitRelease, Writing
<1>13. CASE g.activity = "RELEASING"
  BY <1>2, <1>6, <1>7, <1>13 DEF Polled, Writing
<1> QED BY <1>1, <1>9, <1>10, <1>11, <1>12, <1>13 DEF Activities, Searching

LEMMA PassedSound ==
  ASSUME RtcInv, NEW g \in Passed
  PROVE  Sound(g) /\ OnBus(g)
<1>1. Sound(rtc) /\ chip \in Chip
  BY DEF RtcInv, RtcTypeOK
<1>2. Sound(Serviced(rtc)) /\ OnBus(Serviced(rtc))
  BY <1>1, ServicedSound
<1> QED BY <1>2, PolledSound DEF Passed

-----------------------------------------------------------------------------
\* At the epoch

\* Between searches and writes, what is wanted may change, and a change be noted.
LEMMA WantedSound ==
  ASSUME NEW g, NEW h \in Foreground, Sound(g), g.activity = "IDLE", ~g.done,
         h.request = g.request, h.activity = g.activity, Second(h) = Second(g), Search(h) = Search(g),
         h.anchor = g.anchor, h.anchorIs = g.anchorIs, g.changed => h.changed,
         h.rewritten = g.rewritten, h.writeWanted => h.attempts < Attempts
  PROVE  Sound(h)
BY DEF Second, Search, Sound, Measured, Undisturbed, Attempted, RecordKept,
       WriteAsked, Searching, Writing

EpochKinds == [sync : BOOLEAN, event : Ordinary \cup Trouble]

LEMMA LessIsNat ==
  /\ \A n \in Nat : Less(n) \in Nat
  /\ \A n \in Nat \cup {-1} : Less(n) \in Nat \cup {-1}
BY DEF Less

LEMMA SecondCountedSound ==
  ASSUME NEW g, Sound(g), NEW e \in EpochKinds
  PROVE  Sound(SecondCounted(g, e))
<1> DEFINE age == IF g.activity = "IDLE" THEN 0 ELSE g.age + 1
           second == g.second /\ (e.event # "LOST" \/ g.done)
           h == SecondCounted(g, e)
<1> SUFFICES Sound(h)
  OBVIOUS
<1>1. g \in Foreground /\ g.age \in Nat /\ g.left \in Nat /\ g.checkIn \in Nat /\ g.measureIn \in Nat
      /\ g.rateIn \in Nat \cup {-1} /\ g.readIn \in Nat
  BY DEF Sound, Foreground
<1>2. /\ age \in Nat /\ second \in BOOLEAN /\ (second => g.second)
      /\ (g.second /\ g.done => second)
  BY <1>1
<1>3. /\ Less(g.left) \in Nat /\ Less(g.checkIn) \in Nat /\ Less(g.measureIn) \in Nat
      /\ Less(g.rateIn) \in Nat \cup {-1} /\ Less(g.readIn) \in Nat
  BY <1>1, LessIsNat
<1>4. h = [g EXCEPT !.age = age, !.left = Less(@), !.checkIn = Less(@), !.measureIn = Less(@),
                    !.rateIn = Less(@), !.readIn = Less(@), !.second = second]
  BY <1>1 DEF SecondCounted, Foreground
<1> HIDE DEF age, second, h
<1>5. h \in Foreground
  <2> DEFINE a == [g EXCEPT !.age = age, !.left = Less(g.left), !.checkIn = Less(g.checkIn)]
             b == [a EXCEPT !.measureIn = Less(g.measureIn), !.rateIn = Less(g.rateIn)]
             c == [b EXCEPT !.readIn = Less(g.readIn), !.second = second]
  <2>1. h = c
    BY <1>1, <1>4 DEF Foreground
  <2>2. a \in Foreground
    BY Zenon, <1>1, <1>2, <1>3, Retyped
  <2> HIDE DEF a
  <2>3. b \in Foreground
    BY Zenon, <1>3, <2>2, Retyped
  <2> HIDE DEF b
  <2>4. c \in Foreground
    BY Zenon, <1>2, <1>3, <2>3, Retyped
  <2> HIDE DEF c
  <2> QED BY <2>1, <2>4
<1>6. /\ h.second = second /\ h.secondCurrent = g.secondCurrent /\ h.activity = g.activity
      /\ Transfer(h) = Transfer(g) /\ Recorded(h) = Recorded(g) /\ Search(h) = Search(g)
      /\ Wanted(h) = Wanted(g)
  BY <1>1, <1>4 DEF Foreground, Transfer, Recorded, Search, Wanted
<1> QED
  BY <1>2, <1>5, <1>6 DEF Transfer, Recorded, Search, Wanted, Sound, Measured, Undisturbed, Attempted,
                          RecordKept, WriteAsked, Searching, Writing

LEMMA OverdueSound ==
  ASSUME NEW g, Sound(g)
  PROVE  Sound(Overdue(g))
<1>1. CASE Overdue(g) = EndSearch(g, FALSE) /\ Searching(g)
  BY <1>1, EndSearchSound
<1>2. CASE Overdue(g) = AbortWrite(g) /\ Writing(g)
  <2>1. ~g.done /\ g.attempts < Attempts /\ ~g.writeWanted
    BY <1>2 DEF Sound, Undisturbed, Attempted, Writing
  <2> QED BY <1>2, <2>1, AbortWriteSound
<1> QED BY <1>1, <1>2 DEF Overdue, Searching, Writing

LEMMA AnchorFoundSound ==
  ASSUME NEW g, Sound(g), NEW e \in EpochKinds, g.done
  PROVE  LET taken == [g EXCEPT !.done = FALSE]
             h == AnchorFound(taken, e)
         IN  /\ Sound(taken) /\ taken.activity = "IDLE" /\ ~taken.done
             /\ taken.purpose = g.purpose /\ Wanted(taken) = Wanted(g)
             /\ g.found => /\ Sound(h) /\ h.activity = "IDLE" /\ ~h.done
                           /\ h.purpose = g.purpose /\ Wanted(h) = Wanted(g)
<1> DEFINE taken == [g EXCEPT !.done = FALSE]
           standing == IF ~taken.second THEN "OVERTAKEN"
                       ELSE IF taken.secondCurrent THEN "CURRENT" ELSE "OLD"
           anchored == [taken EXCEPT !.anchor = "ALIGNED", !.changed = TRUE, !.anchorIs = standing]
           h == AnchorFound(taken, e)
<1>1. taken \in Foreground
  BY Zenon, SoundFacts, Retyped
<1>2. /\ ~taken.done /\ taken.found = g.found /\ taken.purpose = g.purpose
      /\ taken.fresh = g.fresh /\ taken.current = g.current /\ taken.activity = g.activity
      /\ Transfer(taken) = Transfer(g) /\ Recorded(taken) = Recorded(g) /\ Second(taken) = Second(g)
      /\ Wanted(taken) = Wanted(g)
  BY SoundFacts DEF Foreground, Transfer, Recorded, Second, Wanted
<1>3. h = taken \/ h = anchored
  BY DEF AnchorFound
<1> SUFFICES /\ Sound(taken) /\ taken.activity = "IDLE" /\ ~taken.done
             /\ taken.purpose = g.purpose /\ Wanted(taken) = Wanted(g)
             /\ g.found => /\ Sound(h) /\ h.activity = "IDLE" /\ ~h.done
                           /\ h.purpose = g.purpose /\ Wanted(h) = Wanted(g)
  OBVIOUS
<1> HIDE DEF taken, h
<1>4. Sound(taken) /\ taken.activity = "IDLE"
  BY <1>1, <1>2 DEF Transfer, Recorded, Second, Wanted, Sound, Measured, Undisturbed, Attempted,
                    RecordKept, WriteAsked, Searching, Writing
<1>5. standing \in Standing /\ "ALIGNED" \in Anchors
  BY DEF Standing, Anchors
<1>6. g.found => (taken.second => standing = "CURRENT") /\ (~taken.second => standing = "OVERTAKEN")
                 /\ (taken.second => taken.secondCurrent)
                 /\ (WriteAsked(taken) => ~taken.second)
  BY <1>2 DEF Transfer, Second, Sound, Measured, Undisturbed, WriteAsked
<1> HIDE DEF standing
<1>7. anchored \in Foreground
  BY Zenon, <1>1, <1>5, Retyped
<1>8. /\ anchored.anchor = "ALIGNED" /\ anchored.changed /\ anchored.anchorIs = standing
      /\ anchored.rewritten = taken.rewritten /\ anchored.activity = taken.activity
      /\ Transfer(anchored) = Transfer(taken) /\ Second(anchored) = Second(taken)
      /\ Search(anchored) = Search(taken) /\ Wanted(anchored) = Wanted(taken)
  BY <1>1 DEF Foreground, Transfer, Second, Search, Wanted
<1> HIDE DEF anchored
<1>9. g.found => Sound(anchored)
  <2> SUFFICES ASSUME g.found PROVE Sound(anchored)
    OBVIOUS
  <2>1. anchored.request = taken.request /\ anchored.second = taken.second
        /\ anchored.secondCurrent = taken.secondCurrent /\ ~anchored.done
        /\ anchored.attempts = taken.attempts /\ anchored.writeWanted = taken.writeWanted
    BY <1>2, <1>8 DEF Transfer, Second, Search, Wanted
  <2>2. Measured(anchored)
    BY <1>2, <1>6, <1>8, <2>1 DEF Measured
  <2>3. Undisturbed(anchored)
    BY <1>4, <1>6, <1>8, <2>1 DEF Undisturbed, WriteAsked, Searching, Writing
  <2>4. Attempted(anchored)
    BY <1>4, <1>8, <2>1 DEF Sound, Attempted, Writing
  <2>5. RecordKept(anchored)
    BY <1>4, <1>8, <2>1 DEF Sound, RecordKept, WriteAsked
  <2> QED BY <1>7, <2>2, <2>3, <2>4, <2>5 DEF Sound
<1>10. ~anchored.done /\ anchored.purpose = taken.purpose
  BY <1>2, <1>8 DEF Search
<1> QED BY <1>2, <1>3, <1>4, <1>8, <1>9, <1>10

\* What is wanted after a search that confirms a write.
LEMMA ConfirmedSound ==
  ASSUME NEW g, Sound(g), g.activity = "IDLE", ~g.done, g.attempts < Attempts, ~g.writeWanted
  PROVE  Sound(Confirmed(g)) /\ Confirmed(g).activity = "IDLE" /\ ~Confirmed(g).done
<1> DEFINE count == g.attempts + 1
           missed == [g EXCEPT !.attempts = count]
           set == [g EXCEPT !.attempts = 0, !.checkIn = CheckEpochs, !.rateIn = RateEpochs,
                            !.changed = TRUE]
           again == [missed EXCEPT !.writeWanted = TRUE]
           plain == [missed EXCEPT !.plainWanted = TRUE]
           left == [g EXCEPT !.attempts = 0, !.checkIn = CheckEpochs]
           h == Confirmed(g)
<1>1. h = set \/ (h = again /\ missed.attempts < Attempts) \/ h = plain \/ h = left
  BY DEF Confirmed
<1> SUFFICES Sound(h) /\ h.activity = "IDLE" /\ ~h.done
  OBVIOUS
<1> HIDE DEF h
<1>2. /\ g \in Foreground /\ count \in 0 .. Attempts /\ 0 \in 0 .. Attempts
      /\ RateEpochs \in Nat \cup {-1}
  BY SoundFacts, Constants
<1> HIDE DEF count
<1>3. missed \in Foreground /\ set \in Foreground /\ left \in Foreground
  BY Zenon, <1>2, Constants, Retyped
<1>4. again \in Foreground /\ plain \in Foreground
  BY Zenon, <1>3, Retyped
<1>5. /\ missed.request = g.request /\ missed.activity = g.activity
      /\ Kernel(missed) = Kernel(g) /\ missed.writeWanted = g.writeWanted
  BY <1>2 DEF Foreground, Kernel, Recorded, Second, Search
<1>6. /\ set.request = g.request /\ set.activity = g.activity /\ Second(set) = Second(g)
      /\ Search(set) = Search(g) /\ set.anchor = g.anchor /\ set.anchorIs = g.anchorIs
      /\ set.changed /\ set.rewritten = g.rewritten /\ set.writeWanted = g.writeWanted
  BY <1>2 DEF Foreground, Second, Search
<1>7. /\ left.request = g.request /\ left.activity = g.activity
      /\ Kernel(left) = Kernel(g) /\ left.writeWanted = g.writeWanted
  BY <1>2 DEF Foreground, Kernel, Recorded, Second, Search
<1> HIDE DEF missed, set, left
<1>8. /\ again.request = missed.request /\ again.activity = missed.activity
      /\ Kernel(again) = Kernel(missed) /\ again.attempts = missed.attempts
      /\ plain.request = missed.request /\ plain.activity = missed.activity
      /\ Kernel(plain) = Kernel(missed) /\ plain.writeWanted = missed.writeWanted
  BY <1>3 DEF Foreground, Kernel, Recorded, Second, Search
<1> HIDE DEF again, plain
<1>9. /\ h \in Foreground /\ h.request = g.request /\ h.activity = g.activity
      /\ Second(h) = Second(g) /\ Search(h) = Search(g)
      /\ h.anchor = g.anchor /\ h.anchorIs = g.anchorIs /\ (g.changed => h.changed)
      /\ h.rewritten = g.rewritten /\ (h.writeWanted => h.attempts < Attempts)
  BY <1>1, <1>3, <1>4, <1>5, <1>6, <1>7, <1>8 DEF Kernel, Recorded
<1>10. Sound(h)
  BY <1>9, WantedSound
<1> QED BY <1>9, <1>10 DEF Search

\* A failed search for the second leaves all of it as it was.
LEMMA SearchFailedSound ==
  ASSUME NEW g, Sound(g), g.activity = "IDLE", ~g.done,
         g.purpose = "CONFIRM" => g.attempts < Attempts /\ ~g.writeWanted
  PROVE  /\ Sound(SearchFailed(g)) /\ SearchFailed(g).activity = "IDLE" /\ ~SearchFailed(g).done
<1>1. CASE g.purpose = "CONFIRM"
  BY <1>1, AbortWriteSound DEF SearchFailed
<1>2. CASE g.purpose # "CONFIRM"
  <2> DEFINE check == IF g.purpose = "CHECK" THEN WaitEpochs ELSE g.checkIn
             h == [g EXCEPT !.measureIn = WaitEpochs, !.checkIn = check]
  <2>1. SearchFailed(g) = h
    BY <1>2 DEF SearchFailed
  <2>2. check \in Nat /\ g \in Foreground
    BY SoundFacts, Constants
  <2> HIDE DEF check
  <2>3. h \in Foreground
    BY Zenon, <2>2, Constants, Retyped
  <2>4. h.request = g.request /\ h.activity = g.activity /\ Kernel(h) = Kernel(g)
        /\ Wanted(h) = Wanted(g) /\ h.done = g.done
    BY <2>2 DEF Foreground, Kernel, Recorded, Second, Search, Wanted
  <2> HIDE DEF h
  <2> QED BY <2>1, <2>3, <2>4, SoundAlike
<1> QED BY <1>1, <1>2

LEMMA SearchResultSound ==
  ASSUME NEW g, Sound(g), NEW e \in EpochKinds
  PROVE  Sound(SearchResult(g, e)) /\ ~SearchResult(g, e).done
<1>1. CASE ~g.done
  BY <1>1 DEF SearchResult
<1>2. CASE g.done
  <2> DEFINE taken == [g EXCEPT !.done = FALSE]
             k == AnchorFound(taken, e)
             h == SearchResult(g, e)
  <2>1. h = IF ~g.found THEN SearchFailed(taken) ELSE SearchFound(k, e)
    BY <1>2 DEF SearchResult
  <2>2. /\ Sound(taken) /\ taken.activity = "IDLE" /\ ~taken.done
        /\ taken.purpose = g.purpose /\ Wanted(taken) = Wanted(g)
        /\ g.found => /\ Sound(k) /\ k.activity = "IDLE" /\ ~k.done
                      /\ k.purpose = g.purpose /\ Wanted(k) = Wanted(g)
    BY <1>2, AnchorFoundSound
  <2>3. g.purpose = "CONFIRM" => g.attempts < Attempts /\ ~g.writeWanted
    BY <1>2 DEF Sound, Attempted
  <2> SUFFICES Sound(h) /\ ~h.done
    OBVIOUS
  <2> HIDE DEF taken, k, h
  <2>4. CASE ~g.found
    BY <2>1, <2>2, <2>3, <2>4, SearchFailedSound DEF Wanted
  <2>5. CASE g.found /\ g.purpose = "CONFIRM"
    <3>1. h = Confirmed(k)
      BY <2>1, <2>2, <2>5 DEF SearchFound
    <3> QED BY <2>2, <2>3, <2>5, <3>1, ConfirmedSound DEF Wanted
  <2>6. CASE g.found /\ g.purpose = "MEASURE"
    <3>1. h = k
      BY <2>1, <2>2, <2>6 DEF SearchFound
    <3> QED BY <2>2, <2>6, <3>1
  <2>7. CASE g.found /\ g.purpose = "CHECK"
    <3> DEFINE out == [k EXCEPT !.checkIn = CheckEpochs, !.attempts = 0, !.writeWanted = TRUE]
               in == [k EXCEPT !.checkIn = CheckEpochs]
    <3>1. h = out \/ h = in
      BY <2>1, <2>2, <2>7 DEF SearchFound
    <3>2. k \in Foreground /\ 0 \in 0 .. Attempts
      BY <2>2, <2>7, SoundFacts, Constants
    <3>3. out \in Foreground /\ in \in Foreground
      BY Zenon, <3>2, Constants, Retyped
    <3>4. /\ out.request = k.request /\ out.activity = k.activity /\ Kernel(out) = Kernel(k)
          /\ out.attempts = 0
          /\ in.request = k.request /\ in.activity = k.activity /\ Kernel(in) = Kernel(k)
          /\ Wanted(in) = Wanted(k)
      BY <3>2 DEF Foreground, Kernel, Recorded, Second, Search, Wanted
    <3> HIDE DEF out, in
    <3>5. out.attempts < Attempts /\ (k.writeWanted => k.attempts < Attempts)
      BY <2>2, <2>7, <3>4, Constants DEF Sound, Attempted
    <3>6. Sound(out) /\ Sound(in)
      BY <2>2, <2>7, <3>3, <3>4, <3>5, WantedSound DEF Kernel, Recorded, Wanted
    <3>7. ~out.done /\ ~in.done
      BY <2>2, <2>7, <3>4 DEF Kernel, Search
    <3> QED BY <3>1, <3>6, <3>7
  <2> QED BY <2>4, <2>5, <2>6, <2>7, SoundFacts
<1> QED BY <1>1, <1>2

LEMMA SettleSearchSound ==
  ASSUME NEW g, Sound(g), NEW e \in EpochKinds
  PROVE  Sound(SettleSearch(g, e)) /\ SettleSearch(g, e).done = g.done
<1> DEFINE check == IF e.sync /\ (~g.wasSync \/ e.event = "CORRECTED") /\ g.checkIn > WaitEpochs
                    THEN WaitEpochs ELSE g.checkIn
           h == SettleSearch(g, e)
<1> SUFFICES Sound(h) /\ h.done = g.done
  OBVIOUS
<1>1. g \in Foreground /\ check \in Nat /\ e.sync \in BOOLEAN
  BY SoundFacts, Constants DEF EpochKinds
<1>2. h = [g EXCEPT !.wasSync = e.sync, !.checkIn = check]
  BY <1>1 DEF SettleSearch, Foreground
<1> HIDE DEF check, h
<1>3. h \in Foreground
  BY Zenon, <1>1, <1>2, Retyped
<1>4. h.request = g.request /\ h.activity = g.activity /\ Kernel(h) = Kernel(g)
      /\ Wanted(h) = Wanted(g) /\ h.done = g.done
  BY <1>1, <1>2 DEF Foreground, Kernel, Recorded, Second, Search, Wanted
<1> QED BY <1>3, <1>4, SoundAlike

\* A write whose anchor is known beforehand: by command, or as the last resort.
LEMMA WritePlainlySound ==
  ASSUME NEW g, Sound(g), g.activity = "IDLE", NEW off \in 1 .. 2
  PROVE  LET h == WritePlainly(g, off)
         IN  /\ Sound(h) /\ h.activity = "IDLE" /\ h.request = "WRITING"
             /\ h.bus = "ON" /\ Search(h) = Search(g) /\ Wanted(h) = Wanted(g)
<1> DEFINE voided == RtcChanged(g)
           asked == Start(voided, "WRITING")
           h == WritePlainly(g, off)
<1> SUFFICES /\ Sound(h) /\ h.activity = "IDLE" /\ h.request = "WRITING" /\ h.bus = "ON"
             /\ Search(h) = Search(g) /\ Wanted(h) = Wanted(g)
  OBVIOUS
<1>1. h = [asked EXCEPT !.intent = off, !.anchor = "PLAIN", !.second = FALSE]
  BY DEF WritePlainly
<1> HIDE DEF h
<1>2. /\ voided \in Foreground /\ voided.changed /\ voided.rewritten
      /\ voided.activity = g.activity /\ Second(voided) = Second(g) /\ Search(voided) = Search(g)
      /\ Wanted(voided) = Wanted(g)
  BY SoundFacts, RtcChangedIs
<1> HIDE DEF voided
<1>3. /\ asked \in Foreground /\ asked.request = "WRITING" /\ asked.bus = "ON"
      /\ asked.activity = voided.activity /\ Kernel(asked) = Kernel(voided)
      /\ Wanted(asked) = Wanted(voided)
  BY <1>2, StartIs DEF ChipRequests
<1> HIDE DEF asked
<1>4. off \in 0 .. 2 /\ "PLAIN" \in Anchors
  BY DEF Anchors
<1>5. h \in Foreground
  BY Zenon, <1>1, <1>3, <1>4, Retyped
<1>6. /\ h.anchor = "PLAIN" /\ h.second = FALSE /\ h.changed = asked.changed
      /\ h.rewritten = asked.rewritten /\ h.activity = asked.activity
      /\ Transfer(h) = Transfer(asked) /\ Search(h) = Search(asked) /\ Wanted(h) = Wanted(asked)
  BY <1>1, <1>3 DEF Foreground, Transfer, Search, Wanted
<1>7. /\ h.request = "WRITING" /\ h.bus = "ON" /\ Search(h) = Search(g) /\ Wanted(h) = Wanted(g)
      /\ h.changed /\ h.rewritten /\ h.activity = "IDLE"
  BY <1>2, <1>3, <1>6 DEF Transfer, Kernel, Recorded
<1>8. Sound(h)
  BY <1>5, <1>6, <1>7 DEF Search, Wanted, Sound, Measured, Undisturbed, Attempted, RecordKept,
                          WriteAsked, Searching, Writing
<1> QED BY <1>7, <1>8

LEMMA BeginWriteSound ==
  ASSUME NEW g, Sound(g), g.activity = "IDLE", ~g.done, g.writeWanted, NEW across \in BOOLEAN
  PROVE  Sound(BeginWrite(g, across))
<1> DEFINE voided == RtcChanged(g)
           ready == [voided EXCEPT !.writeWanted = FALSE, !.worked = FALSE]
           active == SetActivity(ready, "LOADING")
           asked == Start(active, "WRITING_STOPPED")
<1>1. CASE across
  BY <1>1 DEF BeginWrite
<1>2. CASE ~across
  <2>1. BeginWrite(g, across) = asked
    BY <1>2 DEF BeginWrite
  <2>2. /\ voided \in Foreground /\ voided.anchor = "NONE" /\ voided.changed /\ voided.rewritten
        /\ Search(voided) = Search(g) /\ Wanted(voided) = Wanted(g)
    BY SoundFacts, RtcChangedIs
  <2> HIDE DEF voided
  <2>3. ready \in Foreground
    BY Zenon, <2>2, Retyped
  <2>4. /\ Recorded(ready) = Recorded(voided) /\ Search(ready) = Search(voided)
        /\ ready.attempts = voided.attempts /\ ready.writeWanted = FALSE
    BY <2>2 DEF Foreground, Recorded, Search
  <2> HIDE DEF ready
  <2>5. /\ active \in Foreground /\ active.activity = "LOADING"
        /\ Kernel(active) = Kernel(ready) /\ Wanted(active) = Wanted(ready)
    BY <2>3, SetActivityIs DEF Activities
  <2> HIDE DEF active
  <2>6. /\ asked \in Foreground /\ asked.request = "WRITING_STOPPED"
        /\ asked.activity = active.activity /\ Kernel(asked) = Kernel(active)
        /\ Wanted(asked) = Wanted(active)
    BY <2>5, StartIs DEF ChipRequests
  <2> HIDE DEF asked
  <2>7. /\ asked.anchor = "NONE" /\ asked.changed /\ asked.rewritten /\ ~asked.done
        /\ ~asked.writeWanted /\ asked.attempts = g.attempts
    <3>1. Kernel(asked) = Kernel(ready) /\ Wanted(asked) = Wanted(ready)
      BY <2>5, <2>6
    <3>2. Recorded(asked) = Recorded(voided) /\ Search(asked) = Search(g)
      BY <2>2, <2>4, <3>1 DEF Kernel
    <3>3. ~asked.writeWanted /\ asked.attempts = voided.attempts
      BY <2>4, <3>1 DEF Wanted
    <3>4. asked.anchor = "NONE" /\ asked.changed /\ asked.rewritten
      BY <2>2, <3>2 DEF Recorded
    <3> QED BY <2>2, <3>2, <3>3, <3>4 DEF Search, Wanted
  <2>8. Sound(asked)
    BY <2>5, <2>6, <2>7 DEF Sound, Measured, Undisturbed, Attempted, RecordKept,
                            WriteAsked, Searching, Writing
  <2> QED BY <2>1, <2>8
<1> QED BY <1>1, <1>2

LEMMA LetItRunSound ==
  ASSUME NEW g, Sound(g), g.activity = "IDLE", ~g.done
  PROVE  Sound(LetItRun(g))
<1>1. CASE g.stoppedReleased
  <2> DEFINE asked == Start(g, "READING")
             h == [asked EXCEPT !.stoppedReleased = FALSE]
  <2>1. LetItRun(g) = h
    BY <1>1 DEF LetItRun
  <2>2. /\ asked \in Foreground /\ asked.request = "READING" /\ asked.activity = g.activity
        /\ Kernel(asked) = Kernel(g) /\ Wanted(asked) = Wanted(g)
    BY SoundFacts, StartIs DEF ChipRequests
  <2> HIDE DEF asked
  <2>3. h \in Foreground
    BY Zenon, <2>2, Retyped
  <2>4. /\ h.request = asked.request /\ h.activity = asked.activity
        /\ Kernel(h) = Kernel(asked) /\ Wanted(h) = Wanted(asked)
    BY <2>2 DEF Foreground, Kernel, Recorded, Second, Search, Wanted
  <2> HIDE DEF h
  <2>5. ~WriteAsked(h)
    BY <2>2, <2>4 DEF WriteAsked
  <2> QED BY <2>1, <2>2, <2>3, <2>4, <2>5, ReadSound
<1>2. CASE ~g.stoppedReleased
  <2> DEFINE voided == IF g.anchor = "NONE" THEN g ELSE RtcChanged(g)
             asked == Start(voided, "RELEASING")
             h == [asked EXCEPT !.stoppedReleased = TRUE, !.second = FALSE]
  <2>1. LetItRun(g) = h
    BY <1>2 DEF LetItRun
  <2>2. /\ voided \in Foreground /\ voided.activity = g.activity
        /\ voided.anchor = "NONE" /\ Search(voided) = Search(g) /\ Wanted(voided) = Wanted(g)
        /\ kept.anchor = "ALIGNED" => voided.changed /\ voided.rewritten
    <3>1. CASE g.anchor = "NONE"
      BY <3>1, SoundFacts DEF Sound, RecordKept
    <3>2. CASE g.anchor # "NONE"
      BY <3>2, SoundFacts, RtcChangedIs
    <3> QED BY <3>1, <3>2
  <2> HIDE DEF voided
  <2>3. /\ asked \in Foreground /\ asked.request = "RELEASING" /\ asked.activity = voided.activity
        /\ Kernel(asked) = Kernel(voided) /\ Wanted(asked) = Wanted(voided)
    BY <2>2, StartIs DEF ChipRequests
  <2> HIDE DEF asked
  <2>4. h \in Foreground
    BY Zenon, <2>3, Retyped
  <2>5. /\ h.second = FALSE /\ h.request = asked.request /\ h.activity = asked.activity
        /\ Recorded(h) = Recorded(asked) /\ Search(h) = Search(asked) /\ Wanted(h) = Wanted(asked)
    BY <2>3 DEF Foreground, Recorded, Search, Wanted
  <2> HIDE DEF h
  <2>6. /\ h.anchor = "NONE" /\ ~h.done /\ h.writeWanted = g.writeWanted
        /\ h.attempts = g.attempts /\ (kept.anchor = "ALIGNED" => h.changed /\ h.rewritten)
    BY <2>2, <2>3, <2>5 DEF Kernel, Recorded, Search, Wanted
  <2>7. Sound(h)
    BY <2>2, <2>3, <2>4, <2>5, <2>6 DEF Sound, Measured, Undisturbed, Attempted, RecordKept,
                                        WriteAsked, Searching, Writing
  <2> QED BY <2>1, <2>7
<1> QED BY <1>1, <1>2

LEMMA DecideSound ==
  ASSUME NEW g, Sound(g), ~g.done, NEW e \in EpochKinds
  PROVE  Sound(Decide(g, e))
<1> DEFINE dropped == [g EXCEPT !.plainWanted = FALSE, !.attempts = 0, !.checkIn = CheckEpochs]
           given == [g EXCEPT !.writeWanted = FALSE, !.attempts = 0]
           renewed == [g EXCEPT !.attempts = 0, !.writeWanted = TRUE]
           rated == [g EXCEPT !.rateIn = -1]
           h == Decide(g, e)
<1> SUFFICES Sound(h)
  OBVIOUS
<1>1. g \in Foreground /\ 0 \in 0 .. Attempts /\ -1 \in Nat \cup {-1}
  BY SoundFacts, Constants
<1>2. /\ dropped \in Foreground /\ given \in Foreground /\ renewed \in Foreground
      /\ rated \in Foreground
  BY Zenon, <1>1, Constants, Retyped
<1>3. \/ h = g
      \/ g.activity = "IDLE" /\ (h = WritePlainly(dropped, 1) \/ h = dropped)
      \/ g.activity = "IDLE" /\ (h = given \/ (g.writeWanted /\
                                               \E across \in BOOLEAN : h = BeginWrite(g, across)))
      \/ g.activity = "IDLE" /\ h = LetItRun(g)
      \/ g.activity = "IDLE" /\ (h = StartSearch(g, "CHECK") \/ h = renewed)
      \/ g.activity = "IDLE" /\ (h = StartSearch(rated, "MEASURE") \/ h = StartSearch(g, "MEASURE"))
  <2>1. CASE g.activity # "IDLE" \/ ~g.present \/ Busy(g)
    BY <2>1 DEF Decide
  <2>2. CASE ~(g.activity # "IDLE" \/ ~g.present \/ Busy(g)) /\ g.plainWanted
    BY <2>2 DEF Decide, GiveUp
  <2>3. CASE ~(g.activity # "IDLE" \/ ~g.present \/ Busy(g)) /\ ~g.plainWanted /\ g.writeWanted
    <3>1. h = TryWrite(g, e)
      BY <2>3 DEF Decide
    <3>2. h = given \/ h = g \/ h = BeginWrite(g, e.event = "LEAP")
      BY <3>1 DEF TryWrite
    <3>3. (e.event = "LEAP") \in BOOLEAN
      OBVIOUS
    <3> QED BY <2>3, <3>2, <3>3
  <2>4. CASE ~(g.activity # "IDLE" \/ ~g.present \/ Busy(g)) /\ ~g.plainWanted /\ ~g.writeWanted
    BY <2>4 DEF Decide, Check
  <2> QED BY <2>1, <2>2, <2>3, <2>4
<1>4. /\ dropped.request = g.request /\ dropped.activity = g.activity /\ Kernel(dropped) = Kernel(g)
      /\ dropped.attempts = 0
      /\ given.request = g.request /\ given.activity = g.activity /\ Kernel(given) = Kernel(g)
      /\ given.attempts = 0
      /\ renewed.request = g.request /\ renewed.activity = g.activity /\ Kernel(renewed) = Kernel(g)
      /\ renewed.attempts = 0
  BY <1>1 DEF Foreground, Kernel, Recorded, Second, Search
<1>5. /\ rated.request = g.request /\ rated.activity = g.activity /\ Kernel(rated) = Kernel(g)
      /\ Wanted(rated) = Wanted(g)
  BY <1>1 DEF Foreground, Kernel, Recorded, Second, Search, Wanted
<1> HIDE DEF dropped, given, renewed, rated, h
<1>6. Sound(rated)
  BY <1>2, <1>5, SoundAlike
<1>7. 0 < Attempts
  BY Constants
<1>8. g.activity = "IDLE" => Sound(dropped) /\ Sound(given) /\ Sound(renewed)
  BY <1>2, <1>4, <1>7, WantedSound DEF Kernel, Recorded
<1>9. CASE g.activity = "IDLE" /\ h = WritePlainly(dropped, 1)
  BY <1>4, <1>8, <1>9, WritePlainlySound
<1>10. CASE g.activity = "IDLE" /\ g.writeWanted /\ \E across \in BOOLEAN : h = BeginWrite(g, across)
  BY <1>10, BeginWriteSound
<1>11. CASE g.activity = "IDLE" /\ h = LetItRun(g)
  BY <1>11, LetItRunSound
<1>12. CASE g.activity = "IDLE" /\ (h = StartSearch(g, "CHECK") \/ h = StartSearch(g, "MEASURE"))
  BY <1>12, StartSearchSound DEF Writing
<1>13. CASE g.activity = "IDLE" /\ h = StartSearch(rated, "MEASURE")
  BY <1>5, <1>6, <1>13, StartSearchSound DEF Writing
<1> QED BY <1>3, <1>8, <1>9, <1>10, <1>11, <1>12, <1>13

LEMMA SourceEpochSound ==
  ASSUME NEW g, Sound(g), NEW e \in EpochKinds
  PROVE  Sound(SourceEpoch(g, e))
<1> DEFINE a == Overdue(SecondCounted(g, e))
           b == SettleSearch(SearchResult(a, e), e)
           c == Decide(b, e)
           bus == IF c.bus = "ON" THEN "LATE" ELSE c.bus
           h == SourceEpoch(g, e)
<1> SUFFICES Sound(h)
  OBVIOUS
<1>1. h = [c EXCEPT !.bus = IF @ = "ON" THEN "LATE" ELSE @]
  BY DEF SourceEpoch
<1>2. Sound(a)
  BY SecondCountedSound, OverdueSound
<1> HIDE DEF a, h
<1>3. Sound(b) /\ ~b.done
  BY <1>2, SearchResultSound, SettleSearchSound
<1> HIDE DEF b
<1>4. Sound(c)
  BY <1>3, DecideSound
<1> HIDE DEF c
<1>5. c \in Foreground /\ bus \in {"IDLE", "ON", "LATE", "OK", "NACK", "REFUSED", "ERROR"}
  BY <1>4, SoundFacts
<1>6. h = [c EXCEPT !.bus = bus]
  BY <1>1, <1>5 DEF Foreground
<1> HIDE DEF bus
<1>7. h \in Foreground
  BY Zenon, <1>5, <1>6, Retyped
<1>8. h.request = c.request /\ h.activity = c.activity /\ Kernel(h) = Kernel(c) /\ Wanted(h) = Wanted(c)
  BY <1>5, <1>6 DEF Foreground, Kernel, Recorded, Second, Search, Wanted
<1> QED BY <1>4, <1>7, <1>8, SoundAlike

\* What is forgotten is not looked at.
LEMMA ForgetKeeps ==
  ASSUME NEW g \in Foreground, Measured(g), Undisturbed(g), Attempted(g)
  PROVE  LET h == Forget(g)
         IN  /\ h \in Foreground /\ Measured(h) /\ Undisturbed(h) /\ Attempted(h)
             /\ Recorded(h) = Recorded(g) /\ WriteAsked(h) = WriteAsked(g)
<1> DEFINE searching == g.activity \in {"SEARCHING", "CONFIRMING"}
           stepping == g.activity \in {"LOADING", "WAITING", "RELEASING"}
           request == IF Busy(g) THEN g.request ELSE "DONE"
           intent == IF g.request = "WRITING" THEN g.intent ELSE 0
           off == IF searching /\ g.fresh THEN g.off ELSE 0
           current == g.current /\ searching /\ g.fresh
           purpose == IF searching \/ g.done THEN g.purpose ELSE "MEASURE"
           left == IF searching THEN g.left ELSE 0
           age == IF stepping THEN g.age ELSE 0
           sample == g.sample /\ searching
           fresh == g.fresh /\ searching
           found == g.found /\ g.done
           worked == g.worked /\ stepping
           secondOff == IF g.done THEN g.secondOff ELSE 0
           secondCurrent == g.secondCurrent /\ g.second
           a == [g EXCEPT !.request = request, !.intent = intent, !.off = off, !.current = current]
           b == [a EXCEPT !.purpose = purpose, !.left = left, !.age = age, !.sample = sample]
           c == [b EXCEPT !.fresh = fresh, !.found = found, !.worked = worked]
           d == [c EXCEPT !.secondOff = secondOff, !.secondCurrent = secondCurrent]
           h == Forget(g)
<1> SUFFICES /\ h \in Foreground /\ Measured(h) /\ Undisturbed(h) /\ Attempted(h)
             /\ Recorded(h) = Recorded(g) /\ WriteAsked(h) = WriteAsked(g)
  OBVIOUS
<1>1. g \in Foreground
  OBVIOUS
<1>2. h = d
  BY <1>1 DEF Forget, Foreground
<1>3. /\ request \in ChipRequests /\ intent \in 0 .. 2 /\ off \in 0 .. 2 /\ current \in BOOLEAN
      /\ purpose \in {"MEASURE", "CHECK", "CONFIRM"} /\ left \in Nat /\ age \in Nat
      /\ sample \in BOOLEAN /\ fresh \in BOOLEAN /\ found \in BOOLEAN /\ worked \in BOOLEAN
      /\ secondOff \in 0 .. 2 /\ secondCurrent \in BOOLEAN
  BY <1>1 DEF Foreground, ChipRequests
<1>4. /\ WriteAsked(g) => request = g.request
      /\ ~WriteAsked(g) => request \notin {"WRITING", "WRITING_STOPPED", "RELEASING"}
      /\ Searching(g) => current = (g.current /\ g.fresh) /\ fresh = g.fresh /\ purpose = g.purpose
      /\ g.done => found = g.found /\ purpose = g.purpose
      /\ g.second => secondCurrent = g.secondCurrent
      /\ ~Searching(g) => ~fresh
  BY <1>1 DEF WriteAsked, Searching, Busy, Foreground
<1> HIDE DEF searching, stepping, request, intent, off, current, purpose, left, age, sample, fresh,
             found, worked, secondOff, secondCurrent
<1>5. a \in Foreground
  BY Zenon, <1>1, <1>3, Retyped
<1>6. /\ a.request = request /\ a.current = current /\ a.purpose = g.purpose /\ a.fresh = g.fresh
      /\ a.done = g.done /\ a.found = g.found /\ a.activity = g.activity /\ Recorded(a) = Recorded(g)
      /\ Second(a) = Second(g) /\ Wanted(a) = Wanted(g)
  BY <1>1 DEF Foreground, Recorded, Second, Wanted
<1> HIDE DEF a
<1>7. b \in Foreground
  BY Zenon, <1>3, <1>5, Retyped
<1>8. /\ b.request = a.request /\ b.current = a.current /\ b.purpose = purpose /\ b.fresh = a.fresh
      /\ b.done = a.done /\ b.found = a.found /\ b.activity = a.activity /\ Recorded(b) = Recorded(a)
      /\ Second(b) = Second(a) /\ Wanted(b) = Wanted(a)
  BY <1>5 DEF Foreground, Recorded, Second, Wanted
<1> HIDE DEF b
<1>9. c \in Foreground
  BY Zenon, <1>3, <1>7, Retyped
<1>10. /\ c.request = b.request /\ c.current = b.current /\ c.purpose = b.purpose /\ c.fresh = fresh
       /\ c.done = b.done /\ c.found = found /\ c.activity = b.activity /\ Recorded(c) = Recorded(b)
       /\ Second(c) = Second(b) /\ Wanted(c) = Wanted(b)
  BY <1>7 DEF Foreground, Recorded, Second, Wanted
<1> HIDE DEF c
<1>11. d \in Foreground
  BY Zenon, <1>3, <1>9, Retyped
<1>12. /\ d.request = c.request /\ d.current = c.current /\ d.purpose = c.purpose /\ d.fresh = c.fresh
       /\ d.done = c.done /\ d.found = c.found /\ d.activity = c.activity /\ Recorded(d) = Recorded(c)
       /\ d.second = c.second /\ d.secondCurrent = secondCurrent /\ Wanted(d) = Wanted(c)
  BY <1>9 DEF Foreground, Recorded, Wanted
<1> HIDE DEF d, h
<1>13. /\ h \in Foreground /\ h.request = request /\ h.current = current /\ h.purpose = purpose
       /\ h.fresh = fresh /\ h.done = g.done /\ h.found = found /\ h.activity = g.activity
       /\ Recorded(h) = Recorded(g) /\ h.second = g.second /\ h.secondCurrent = secondCurrent
       /\ Wanted(h) = Wanted(g)
  BY <1>2, <1>6, <1>8, <1>10, <1>11, <1>12 DEF Second
<1>14. Measured(h)
  BY <1>4, <1>13 DEF Recorded, Measured, Writing
<1>15. Undisturbed(h)
  BY <1>4, <1>13 DEF Recorded, Undisturbed, Writing, Searching, WriteAsked
<1>16. Attempted(h)
  BY <1>4, <1>13 DEF Wanted, Attempted, Writing, Searching
<1>17. WriteAsked(h) = WriteAsked(g)
  BY <1>4, <1>13 DEF WriteAsked
<1> QED BY <1>13, <1>14, <1>15, <1>16, <1>17

LEMMA ForgetSound ==
  ASSUME NEW g, Sound(g)
  PROVE  Sound(Forget(g))
<1> DEFINE h == Forget(g)
<1>1. /\ h \in Foreground /\ Measured(h) /\ Undisturbed(h) /\ Attempted(h)
      /\ Recorded(h) = Recorded(g) /\ WriteAsked(h) = WriteAsked(g)
  BY ForgetKeeps DEF Sound
<1> HIDE DEF h
<1>2. RecordKept(h)
  BY <1>1 DEF Sound, RecordKept, Recorded
<1>3. Sound(h)
  BY <1>1, <1>2 DEF Sound
<1> QED BY <1>3 DEF h

-----------------------------------------------------------------------------
\* The steps

LEMMA SoundThen ==
  ASSUME NEW g, Sound(g), rtc' = g, kept' = kept
  PROVE  Sound(rtc)'
BY DEF Sound, Measured, Undisturbed, Attempted, RecordKept, WriteAsked, Searching, Writing

LEMMA ChipWrittenIsChip ==
  ASSUME RtcInv, NEW request, NEW part, NEW to \in ChipWritten(request, part)
  PROVE  to \in Chip
<1>1. chip \in Chip /\ rtc.intent \in 0 .. 2
  BY DEF RtcInv, RtcTypeOK, Foreground
<1>2. CASE request = "RELEASING"
  <2> DEFINE landings == IF rtc.activity # "RELEASING" THEN {2} ELSE IF calm THEN {0} ELSE 0 .. 2
  <2>1. to \in {[chip EXCEPT !.running = TRUE, !.off = landing] : landing \in landings}
    BY <1>2 DEF ChipWritten
  <2>2. landings \subseteq 0 .. 2
    OBVIOUS
  <2> HIDE DEF landings
  <2>3. PICK landing \in landings : to = [chip EXCEPT !.running = TRUE, !.off = landing]
    BY <2>1
  <2> QED BY <1>1, <2>2, <2>3 DEF Chip
<1>3. CASE request = "WRITING" /\ ~part
  <2>1. to = [running |-> TRUE, date |-> "OK", off |-> rtc.intent]
    BY <1>3 DEF ChipWritten
  <2> QED BY <1>1, <2>1 DEF Chip
<1>4. CASE request = "WRITING_STOPPED" /\ ~part
  <2>1. to = [running |-> FALSE, date |-> "OK", off |-> 2]
    BY <1>4 DEF ChipWritten
  <2> QED BY <2>1 DEF Chip
<1>5. CASE request # "RELEASING" /\ ~(request = "WRITING" /\ ~part)
           /\ ~(request = "WRITING_STOPPED" /\ ~part)
  <2>1. to \in {[running |-> request = "WRITING", date |-> calendar, off |-> 2] :
                  calendar \in {chip.date, "OK", "JUNK"}}
    BY <1>5 DEF ChipWritten
  <2>2. PICK calendar \in {chip.date, "OK", "JUNK"} :
          to = [running |-> request = "WRITING", date |-> calendar, off |-> 2]
    BY <2>1
  <2>3. (request = "WRITING") \in BOOLEAN /\ calendar \in {"OK", "LOW", "JUNK"}
    BY <1>1 DEF Chip
  <2> QED BY <2>2, <2>3 DEF Chip
<1> QED BY <1>2, <1>3, <1>4, <1>5

\* The chip changes under a write that is on the bus.
LEMMA ChipChangesSafe ==
  ASSUME RtcInv, ChipWrites, NEW result \in {"OK", "NACK", "REFUSED", "ERROR"},
         NEW to \in Chip, ChipChanges([rtc EXCEPT !.bus = result], to)
  PROVE  chip' \in Chip /\ kept' \in Kept /\ Sound(rtc)'
<1> DEFINE ended == [rtc EXCEPT !.bus = result]
           standing == Outdated(rtc.anchorIs)
           h == [ended EXCEPT !.current = FALSE, !.secondCurrent = FALSE, !.anchorIs = standing]
<1>1. /\ Sound(rtc) /\ rtc \in Foreground /\ kept \in Kept /\ WriteAsked(rtc)
      /\ rtc.anchorIs \in Standing
  BY DEF RtcInv, RtcTypeOK, ChipWrites, WriteAsked, Foreground
<1>2. rtc' = h /\ chip' = to /\ kept' = [kept EXCEPT !.anchorIs = Outdated(@)]
  BY <1>1 DEF ChipChanges, Foreground
<1>3. /\ standing \in Standing /\ (rtc.anchorIs = "OVERTAKEN" => standing = "OVERTAKEN")
      /\ Outdated(kept.anchorIs) \in Standing
  BY <1>1 DEF Outdated, Standing, Kept
<1>4. kept' \in Kept /\ kept'.anchor = kept.anchor
  BY <1>1, <1>2, <1>3 DEF Kept
<1> HIDE DEF standing
<1>5. ended \in Foreground
  BY Zenon, <1>1, Retyped
<1>6. h \in Foreground
  BY Zenon, <1>3, <1>5, Retyped
<1>7. /\ h.request = rtc.request /\ h.activity = rtc.activity /\ h.anchor = rtc.anchor
      /\ h.anchorIs = standing /\ h.changed = rtc.changed /\ h.rewritten = rtc.rewritten
      /\ h.second = rtc.second /\ h.done = rtc.done /\ h.purpose = rtc.purpose
      /\ Wanted(h) = Wanted(rtc)
  BY <1>1 DEF Foreground, Wanted
<1> HIDE DEF h
<1>8. Measured(h)
  BY <1>1, <1>3, <1>7 DEF Sound, Undisturbed, Measured
<1>9. Undisturbed(h)
  BY <1>1, <1>3, <1>7 DEF Sound, Undisturbed, WriteAsked, Searching, Writing
<1>10. Attempted(h)
  BY <1>1, <1>7 DEF Sound, Attempted, Wanted, Writing
<1>11. kept'.anchor = "ALIGNED" => h.changed /\ h.rewritten
  BY <1>1, <1>4, <1>7 DEF Sound, RecordKept
<1> QED
  BY <1>2, <1>4, <1>6, <1>8, <1>9, <1>10, <1>11
     DEF Sound, Measured, Undisturbed, Attempted, RecordKept, WriteAsked, Searching, Writing

\* The end of a transfer that changes nothing.
LEMMA TransferEndSafe ==
  ASSUME RtcInv, NEW result \in {"OK", "NACK", "REFUSED", "ERROR"},
         rtc' = [rtc EXCEPT !.bus = result], UNCHANGED <<chip, kept>>
  PROVE  chip' \in Chip /\ kept' \in Kept /\ Sound(rtc)'
<1> DEFINE ended == [rtc EXCEPT !.bus = result]
<1>1. Sound(rtc) /\ rtc \in Foreground /\ kept \in Kept /\ chip \in Chip
  BY DEF RtcInv, RtcTypeOK
<1>2. ended \in Foreground
  BY Zenon, <1>1, Retyped
<1>3. /\ ended.request = rtc.request /\ ended.activity = rtc.activity
      /\ Kernel(ended) = Kernel(rtc) /\ Wanted(ended) = Wanted(rtc)
  BY <1>1 DEF Foreground, Kernel, Recorded, Second, Search, Wanted
<1> HIDE DEF ended
<1>4. Sound(ended)
  BY <1>1, <1>2, <1>3, SoundAlike
<1>5. rtc' = ended
  BY DEF ended
<1> QED BY <1>1, <1>4, <1>5, SoundThen

LEMMA PassedThen ==
  ASSUME RtcInv, NEW g \in Passed, rtc' = Forget(g), kept' = kept
  PROVE  Sound(rtc)'
<1>1. Sound(Forget(g))
  BY PassedSound, ForgetSound
<1> QED BY <1>1, SoundThen

\* An epoch, after which the RTC may be further out than it was.
LEMMA RtcEpochSafe ==
  ASSUME RtcInv, RtcEpoch
  PROVE  RtcInv'
<1>1. PICK g \in Passed, sync \in IF calm THEN {TRUE} ELSE BOOLEAN,
           event \in IF calm THEN {"NONE"} ELSE Ordinary \cup Trouble :
        /\ rtc' = Forget(SourceEpoch(g, [sync |-> sync, event |-> event]))
        /\ chip' = IF event = "DRIFT" /\ chip.running /\ chip.off < 2
                   THEN [chip EXCEPT !.off = @ + 1] ELSE chip
        /\ trouble' = IF event \in Trouble THEN trouble + 1 ELSE trouble
  BY DEF RtcEpoch
<1>2. [sync |-> sync, event |-> event] \in EpochKinds
  <2>1. sync \in BOOLEAN /\ event \in Ordinary \cup Trouble
    BY DEF Ordinary
  <2> QED BY <2>1 DEF EpochKinds
<1>3. Sound(rtc')
  BY <1>1, <1>2, PassedSound, SourceEpochSound, ForgetSound
<1>4. kept' = kept /\ calm' = calm /\ trouble' <= MaxTrouble /\ parity' = 1 - parity
  BY DEF RtcEpoch
<1>5. Sound(rtc)'
  BY <1>3, <1>4 DEF Sound, Measured, Undisturbed, Attempted, RecordKept, WriteAsked, Searching, Writing
<1>6. chip' \in Chip
  BY <1>1 DEF RtcInv, RtcTypeOK, Chip
<1>7. trouble' \in 0 .. MaxTrouble /\ parity' \in 0 .. 1 /\ kept' \in Kept /\ calm' \in BOOLEAN
  BY <1>1, <1>4, Constants DEF RtcInv, RtcTypeOK
<1> QED BY <1>5, <1>6, <1>7 DEF RtcInv, RtcTypeOK, Sound

LEMMA SetByCommandSafe ==
  ASSUME RtcInv, SetByCommand
  PROVE  RtcInv'
<1>1. PICK g \in Passed, off \in 1 .. 2 :
        /\ g.activity = "IDLE" /\ ~Busy(g)
        /\ rtc' = Forget([WritePlainly(g, off) EXCEPT
                            !.measureIn = 0, !.writeWanted = FALSE, !.plainWanted = FALSE])
  BY DEF SetByCommand
<1> DEFINE w == WritePlainly(g, off)
           h == [w EXCEPT !.measureIn = 0, !.writeWanted = FALSE, !.plainWanted = FALSE]
<1>2. Sound(w) /\ w.activity = "IDLE"
  BY <1>1, PassedSound, WritePlainlySound
<1>3. rtc' = Forget(h)
  BY <1>1
<1> HIDE DEF w
<1>4. h \in Foreground
  <2>1. w \in Foreground /\ 0 \in Nat
    BY <1>2, SoundFacts
  <2> QED BY Zenon, <2>1, Retyped
<1>5. /\ h.request = w.request /\ h.activity = w.activity /\ Kernel(h) = Kernel(w)
      /\ ~h.writeWanted /\ h.attempts = w.attempts
  BY <1>2, SoundFacts DEF Foreground, Kernel, Recorded, Second, Search
<1> HIDE DEF h
<1>6. Sound(h)
  BY <1>2, <1>4, <1>5 DEF Kernel, Recorded, Second, Search, Sound, Measured, Undisturbed, Attempted,
                          RecordKept, WriteAsked, Searching, Writing
<1>7. UNCHANGED <<chip, kept, calm, parity>> /\ trouble' = trouble + 1 /\ trouble < MaxTrouble
  BY DEF SetByCommand
<1>8. Sound(rtc)'
  BY <1>3, <1>6, <1>7, ForgetSound, SoundThen
<1>9. trouble' \in 0 .. MaxTrouble
  BY <1>7, Constants DEF RtcInv, RtcTypeOK
<1> QED BY <1>7, <1>8, <1>9 DEF RtcInv, RtcTypeOK, Sound

\* The record is of what is known, and no write of it is under way.
LEMMA SaveSafe ==
  ASSUME RtcInv, Save
  PROVE  RtcInv'
<1>1. PICK g \in Passed :
        /\ g.activity = "IDLE" /\ g.changed /\ g.bus \notin {"ON", "LATE"}
        /\ rtc' = Forget([g EXCEPT !.changed = FALSE, !.rewritten = FALSE])
        /\ kept' = [anchor |-> g.anchor, anchorIs |-> g.anchorIs]
  BY DEF Save
<1> DEFINE clean == [g EXCEPT !.changed = FALSE, !.rewritten = FALSE]
           h == Forget(clean)
<1>2. Sound(g) /\ ~WriteAsked(g)
  BY <1>1, PassedSound DEF OnBus
<1>3. g \in Foreground /\ g.anchor \in Anchors /\ g.anchorIs \in Standing
  BY <1>2, SoundFacts DEF Foreground
<1>4. clean \in Foreground
  BY Zenon, <1>3, Retyped
<1>5. /\ clean.anchor = g.anchor /\ clean.anchorIs = g.anchorIs
      /\ clean.request = g.request /\ clean.activity = g.activity /\ Second(clean) = Second(g)
      /\ Search(clean) = Search(g) /\ Wanted(clean) = Wanted(g)
  BY <1>3 DEF Foreground, Second, Search, Wanted
<1>6. rtc' = h
  BY <1>1
<1> HIDE DEF clean
<1>7. Measured(clean) /\ Undisturbed(clean) /\ Attempted(clean) /\ ~WriteAsked(clean)
  BY <1>2, <1>5 DEF Second, Search, Wanted, Sound, Measured, Undisturbed, Attempted,
                    WriteAsked, Searching, Writing
<1>8. /\ h \in Foreground /\ Measured(h) /\ Undisturbed(h) /\ Attempted(h)
      /\ Recorded(h) = Recorded(clean) /\ ~WriteAsked(h)
  BY <1>4, <1>7, ForgetKeeps
<1> HIDE DEF h
<1>9. kept' \in Kept /\ kept'.anchor = h.anchor /\ kept'.anchorIs = h.anchorIs
  BY <1>1, <1>3, <1>5, <1>8 DEF Kept, Recorded
<1>10. Sound(rtc)'
  BY <1>6, <1>8, <1>9 DEF Sound, Measured, Undisturbed, Attempted, RecordKept, WriteAsked, Searching,
                          Writing
<1>11. UNCHANGED <<chip, calm, trouble, parity>>
  BY DEF Save
<1> QED BY <1>9, <1>10, <1>11 DEF RtcInv, RtcTypeOK, Sound

\* What starts has nothing measured, and a record that is not of another setting.
LEMMA StartedSound ==
  ASSUME NEW stored \in Kept, stored.anchor = "ALIGNED" => stored.anchorIs # "OLD"
  PROVE  LET h == Started(stored)
         IN  /\ h \in Foreground /\ Measured(h) /\ Undisturbed(h) /\ Attempted(h)
             /\ ~WriteAsked(h) /\ h.anchor = stored.anchor
<1> DEFINE h == Started(stored)
<1>1. h \in Foreground
  <2>1. stored.anchor \in Anchors /\ stored.anchorIs \in Standing
    BY DEF Kept
  <2>2. "READING" \in ChipRequests /\ "IDLE" \in Activities /\ 0 \in 0 .. Attempts
    BY Constants DEF ChipRequests, Activities
  <2> QED BY <2>1, <2>2, Constants DEF Started, Foreground
<1>2. /\ h.request = "READING" /\ h.activity = "IDLE" /\ h.done = FALSE /\ h.second = FALSE
      /\ h.writeWanted = FALSE /\ h.anchor = stored.anchor /\ h.anchorIs = stored.anchorIs
  BY DEF Started
<1> HIDE DEF h
<1>3. Measured(h) /\ Undisturbed(h) /\ Attempted(h) /\ ~WriteAsked(h)
  BY <1>2 DEF Measured, Undisturbed, Attempted, WriteAsked, Searching, Writing
<1>4. h \in Foreground /\ h.anchor = stored.anchor
  BY <1>1, <1>2
<1> QED BY <1>3, <1>4 DEF h

LEMMA RtcRestartSafe ==
  ASSUME RtcInv, RtcRestart
  PROVE  RtcInv'
<1>1. PICK to \in {chip, [running |-> TRUE, date |-> "LOW", off |-> 2]}
                    \cup (IF ChipWrites /\ rtc.bus \in {"ON", "LATE"}
                          THEN ChipWritten(rtc.request, TRUE) ELSE {}) :
        LET standing == IF to # chip THEN Outdated(kept.anchorIs) ELSE kept.anchorIs
            stored == [kept EXCEPT !.anchorIs = IF standing = "OLD" THEN "CUT" ELSE standing]
        IN  chip' = to /\ kept' = stored /\ rtc' = Started(stored)
  BY DEF RtcRestart
<1> DEFINE standing == IF to # chip THEN Outdated(kept.anchorIs) ELSE kept.anchorIs
           left == IF standing = "OLD" THEN "CUT" ELSE standing
           stored == [kept EXCEPT !.anchorIs = left]
           h == Started(stored)
<1>2. chip' = to /\ kept' = stored /\ rtc' = h
  BY <1>1
<1>3. chip \in Chip /\ kept \in Kept /\ kept.anchorIs \in Standing
  BY DEF RtcInv, RtcTypeOK, Kept
<1>4. chip' \in Chip
  <2>1. [running |-> TRUE, date |-> "LOW", off |-> 2] \in Chip
    BY DEF Chip
  <2> QED BY <1>1, <1>2, <1>3, <2>1, ChipWrittenIsChip
<1>5. left \in Standing /\ left # "OLD"
  BY <1>3 DEF Outdated, Standing
<1> HIDE DEF left
<1>6. stored \in Kept /\ stored.anchorIs # "OLD"
  BY <1>3, <1>5 DEF Kept
<1> HIDE DEF stored
<1>7. /\ h \in Foreground /\ Measured(h) /\ Undisturbed(h) /\ Attempted(h)
      /\ ~WriteAsked(h) /\ h.anchor = stored.anchor
  BY <1>6, StartedSound
<1> HIDE DEF h
<1>8. Sound(rtc)'
  BY <1>2, <1>6, <1>7 DEF Sound, Measured, Undisturbed, Attempted, RecordKept, WriteAsked, Searching,
                          Writing
<1>9. calm' = calm /\ parity' = parity /\ trouble' \in 0 .. MaxTrouble
  BY Constants DEF RtcRestart, RtcInv, RtcTypeOK
<1> QED BY <1>2, <1>4, <1>6, <1>8, <1>9 DEF RtcInv, RtcTypeOK, Sound

LEMMA RtcStarts == RtcInit => RtcInv
<1> SUFFICES ASSUME RtcInit
             PROVE  RtcInv
  OBVIOUS
<1>1. NeverKept \in Kept /\ NeverKept.anchor = "NONE"
  BY DEF NeverKept, Kept, Anchors, Standing
<1>2. kept = NeverKept /\ rtc = Started(NeverKept)
  BY DEF RtcInit
<1>3. /\ rtc \in Foreground /\ Measured(rtc) /\ Undisturbed(rtc) /\ Attempted(rtc)
  BY <1>1, <1>2, StartedSound
<1>4. RecordKept(rtc)
  BY <1>1, <1>2 DEF RecordKept
<1>5. chip \in Chip /\ calm \in BOOLEAN /\ trouble \in 0 .. MaxTrouble /\ parity \in 0 .. 1
  <2>1. 2 \in 0 .. 2
    OBVIOUS
  <2>2. PICK running \in BOOLEAN, calendar \in {"OK", "LOW", "JUNK"}, off \in {2} :
          chip = [running |-> running, date |-> calendar, off |-> off]
    BY DEF RtcInit
  <2>3. chip \in Chip
    BY <2>1, <2>2 DEF Chip
  <2>4. calm = FALSE /\ parity = 0 /\ trouble = 0
    BY Zenon DEF RtcInit
  <2>5. calm \in BOOLEAN
    BY <2>4
  <2>6. parity \in 0 .. 1 /\ trouble \in 0 .. MaxTrouble
    <3>1. 0 \in 0 .. 1 /\ 0 \in 0 .. MaxTrouble
      BY Constants
    <3> QED BY <2>4, <3>1
  <2> QED BY <2>3, <2>5, <2>6
<1> QED BY <1>1, <1>2, <1>3, <1>4, <1>5 DEF RtcInv, RtcTypeOK, Sound

LEMMA RtcKeeps == RtcInv /\ [RtcNext]_rtcVars => RtcInv'
<1> SUFFICES ASSUME RtcInv, [RtcNext]_rtcVars
             PROVE  RtcInv'
  OBVIOUS
<1>1. CASE BusSucceeds
  <2>1. chip' \in Chip /\ kept' \in Kept /\ Sound(rtc)'
    <3>1. CASE ChipWrites /\ \E to \in ChipWritten(rtc.request, FALSE) :
                               ChipChanges([rtc EXCEPT !.bus = "OK"], to)
      BY <3>1, ChipWrittenIsChip, ChipChangesSafe
    <3>2. CASE rtc' = [rtc EXCEPT !.bus = "OK"] /\ UNCHANGED <<chip, kept>>
      BY <3>2, TransferEndSafe
    <3> QED BY <1>1, <3>1, <3>2 DEF BusSucceeds
  <2>2. UNCHANGED <<calm, trouble, parity>>
    BY <1>1 DEF BusSucceeds
  <2> QED BY <2>1, <2>2 DEF RtcInv, RtcTypeOK, Sound
<1>2. CASE BusFails
  <2>1. PICK result \in {"NACK", "REFUSED", "ERROR"} :
          LET ended == [rtc EXCEPT !.bus = result]
          IN  \/ rtc' = ended /\ UNCHANGED <<chip, kept>>
              \/ /\ ChipWrites /\ result # "NACK"
                 /\ \E part \in BOOLEAN : \E to \in ChipWritten(rtc.request, part) :
                      ChipChanges(ended, to)
    BY <1>2 DEF BusFails
  <2>2. chip' \in Chip /\ kept' \in Kept /\ Sound(rtc)'
    <3>1. CASE rtc' = [rtc EXCEPT !.bus = result] /\ UNCHANGED <<chip, kept>>
      BY <3>1, TransferEndSafe
    <3>2. CASE ChipWrites /\ \E part \in BOOLEAN : \E to \in ChipWritten(rtc.request, part) :
                               ChipChanges([rtc EXCEPT !.bus = result], to)
      BY <3>2, ChipWrittenIsChip, ChipChangesSafe
    <3> QED BY <2>1, <3>1, <3>2
  <2>3. calm' = calm /\ parity' = parity /\ trouble' \in 0 .. MaxTrouble
    BY <1>2, Constants DEF BusFails, RtcInv, RtcTypeOK
  <2> QED BY <2>2, <2>3 DEF RtcInv, RtcTypeOK, Sound
<1>3. CASE RtcPass
  <2>1. UNCHANGED <<chip, kept, calm, trouble, parity>> /\ Sound(rtc)'
    BY <1>3, PassedThen DEF RtcPass
  <2> QED BY <2>1 DEF RtcInv, RtcTypeOK, Sound
<1>4. CASE CalmDown \/ UNCHANGED rtcVars
  <2>1. UNCHANGED <<chip, rtc, kept, trouble, parity>> /\ calm' \in BOOLEAN
    BY <1>4 DEF CalmDown, rtcVars, RtcInv, RtcTypeOK
  <2>2. Sound(rtc)'
    BY <2>1, SoundThen DEF RtcInv
  <2> QED BY <2>1, <2>2 DEF RtcInv, RtcTypeOK
<1> QED
  BY <1>1, <1>2, <1>3, <1>4, RtcEpochSafe, SetByCommandSafe, SaveSafe, RtcRestartSafe DEF RtcNext

LEMMA RtcInvSuffices == RtcInv => NothingOutdated
<1> SUFFICES ASSUME RtcInv
             PROVE  NothingOutdated
  OBVIOUS
<1>1. PredictedIsOfChip
  <2> SUFFICES ASSUME NEW g \in Passed, ReportsSecond(g), g.anchor = "ALIGNED"
               PROVE  g.secondCurrent /\ g.anchorIs # "OLD"
    BY DEF PredictedIsOfChip
  <2>1. Measured(g)
    BY PassedSound DEF Sound
  <2> QED BY <2>1 DEF Measured, ReportsSecond
<1>2. RecordIsDue
  BY DEF RtcInv, Sound, RecordKept, RecordIsDue
<1> QED BY <1>1, <1>2 DEF RtcInv, NothingOutdated

\* Whatever transfers fail or are taken in part, whatever is commanded or given up,
\* and whenever the power is cut: what is reported and what is on record is of the
\* RTC as it is set, or is due to be replaced (source_rtc.c, rtc_changed and
\* source_rtc_report; settings.c, rtc_due).
THEOREM NothingEverOutdated == RtcSpec => []NothingOutdated
<1>1. RtcSpec => []RtcInv
  BY RtcStarts, RtcKeeps, PTL DEF RtcSpec
<1> QED BY <1>1, RtcInvSuffices, PTL
=============================================================================
