------------------------------ MODULE PpsOutput ------------------------------
(***************************************************************************)
(* The ESP's pulse per second, which runs itself from the timer's alarm    *)
(* interrupt and is planned by a loop that may be held up for seconds:     *)
(* esp_src/src/timing/pps.cpp, with the parts of ntp.cpp that plan it and  *)
(* report each edge, and esp_clock.cpp's time of a UTC second.             *)
(*                                                                         *)
(* A second of UTC lasts Second counts and Adjust of Parts of one more     *)
(* (period_adjust_q16); the clock is steady but for its steps (its slews   *)
(* are EspClock's).  The interrupt's latency and its counters are left     *)
(* out, and nothing stops the output once it runs.                         *)
(***************************************************************************)
EXTENDS Integers

CONSTANTS SecondCounts, Pulse, MinLead, \* SECOND_US, PPS_PULSE_US, MIN_LEAD_US, in counts
          Adjust, Parts,
          Steps,                    \* where the clock may be stepped to, in counts
          MaxSteps,                 \* bound on its steps
          LastCount                 \* bound on the timer

ASSUME PpsOutputAssumption ==
  /\ SecondCounts \in Nat \ {0} /\ Pulse \in 1 .. SecondCounts - 1 /\ MinLead \in Nat
  /\ MinLead + Pulse < SecondCounts
  /\ Adjust \in Int /\ Parts \in Nat \ {0} /\ Steps \subseteq Int
  /\ MaxSteps \in Nat /\ LastCount \in Nat

VARIABLES count,    \* the timer
          output,   \* running, high, the alarm armed, last_rise_count, the plan, the remainder
          edge,     \* output_edge: the last rising edge, and which the loop has taken
          clock,    \* the model of UTC: valid, where it starts, its steps
          told      \* history: the last edge reported, falls since the last step

ppsVars == <<count, output, edge, clock, told>>

-----------------------------------------------------------------------------
\* esp_clock_local_us() of the start of a UTC second.
LocalOf(second, start) == start + second * SecondCounts + ((second * Adjust) \div Parts)

Distance(a, b) == IF a < b THEN b - a ELSE a - b

\* build_report(): the second of UTC that is nearest, of those the bounds allow.
SecondOf(at) ==
  CHOOSE k \in -3 .. (LastCount \div SecondCounts) + 3 :
    \A j \in -3 .. (LastCount \div SecondCounts) + 3 :
      Distance(at, LocalOf(k, clock.start)) <= Distance(at, LocalOf(j, clock.start))

\* The first of the seconds from rise on that leaves enough time to arm.
Ahead(rise, now) ==
  IF rise >= now + MinLead THEN rise
  ELSE rise + SecondCounts * ((now + MinLead - rise + SecondCounts - 1) \div SecondCounts)

\* next_rise(): as planned, or a second on.
NextRiseUnchecked(o, now) ==    \* mutant: however late the plan
  [o EXCEPT !.high = FALSE, !.fresh = FALSE,
            !.alarm = IF o.fresh THEN o.plan ELSE o.last + SecondCounts,
            !.remainder = 0]

NextRise(o, now) ==
  LET sum   == o.remainder + Adjust
      whole == sum \div Parts
  IN  IF o.fresh THEN [o EXCEPT !.high = FALSE, !.fresh = FALSE, !.alarm = Ahead(o.plan, now)]
      ELSE [o EXCEPT !.high = FALSE, !.remainder = sum - whole * Parts,
                     !.alarm = Ahead(o.last + SecondCounts + whole, now)]

\* on_alarm()
Rise ==
  /\ output.running /\ count = output.alarm /\ ~output.high
  /\ edge' = [edge EXCEPT !.at = count, !.sequence = @ + 1]
  /\ output' = [output EXCEPT !.high = TRUE, !.last = count, !.alarm = count + Pulse]
  /\ UNCHANGED <<count, clock, told>>

Fall ==
  /\ output.running /\ count = output.alarm /\ output.high
  /\ output' = NextRise(output, count)
  /\ told' = [told EXCEPT !.falls = IF @ < 2 THEN @ + 1 ELSE @]
  /\ UNCHANGED <<count, edge, clock>>

\* The timer; an alarm that is due is served first.
Counts ==
  /\ count < LastCount /\ ~(output.running /\ count = output.alarm)
  /\ count' = count + 1
  /\ UNCHANGED <<output, edge, clock, told>>

-----------------------------------------------------------------------------
\* pps_output_start(), pps_output_plan()
Plan(rise, o) == [o EXCEPT !.plan = rise, !.fresh = TRUE]

StartAt(rise, o) ==
  IF o.running THEN Plan(rise, o)
  ELSE [o EXCEPT !.running = TRUE, !.alarm = Ahead(rise, count), !.fresh = FALSE,
                 !.high = FALSE, !.remainder = 0]

\* start_pps(), as NTP sets or steps the clock: the next whole second after now.
StepsClock ==
  /\ clock.steps < MaxSteps
  /\ \E start \in Steps :
       LET next == CHOOSE k \in -3 .. LastCount : 
                     /\ LocalOf(k, start) > count
                     /\ \A j \in -3 .. k - 1 : LocalOf(j, start) <= count
       IN  /\ clock' = [valid |-> TRUE, start |-> start, steps |-> clock.steps + 1]
           /\ output' = StartAt(LocalOf(next, start), output)
  /\ told' = [told EXCEPT !.falls = IF output.running THEN 0 ELSE 1, !.second = 0, !.sequence = 0]
  /\ UNCHANGED <<count, edge>>

\* service_pps(): reported, and the next planned.
ServicesPps ==
  /\ edge.sequence # edge.taken
  /\ LET second == SecondOf(edge.at)
     IN  /\ told' = [told EXCEPT
              !.skipped = told.falls = 2 /\ told.sequence # 0
                          /\ second - told.second # edge.sequence - told.sequence,
              !.second = IF told.falls = 2 THEN second ELSE 0,
              !.sequence = IF told.falls = 2 THEN edge.sequence ELSE 0]
         /\ output' = Plan(LocalOf(second + 1, clock.start), output)
  /\ edge' = [edge EXCEPT !.taken = edge.sequence]
  /\ UNCHANGED <<count, clock>>

PpsInit ==
  /\ count = 0
  /\ output = [running |-> FALSE, high |-> FALSE, alarm |-> 0, last |-> 0, plan |-> 0,
               fresh |-> FALSE, remainder |-> 0]
  /\ edge = [at |-> 0, sequence |-> 0, taken |-> 0]
  /\ clock = [valid |-> FALSE, start |-> 0, steps |-> 0]
  /\ told = [falls |-> 0, second |-> 0, sequence |-> 0, skipped |-> FALSE]

PpsNext == Rise \/ Fall \/ Counts \/ StepsClock \/ ServicesPps

-----------------------------------------------------------------------------
\* Properties

\* From the fall after a step on, every pulse is on a second of UTC to within the
\* rounding, however long the loop that plans them is held up and however late its plan
\* (pps.h: "a busy loop (an HTTP request, an OTA check) does not lose a second").
PulsesAreSeconds ==
  output.running /\ ~output.high /\ told.falls > 0 =>
    Distance(output.alarm, LocalOf(SecondOf(output.alarm), clock.start)) <= 1

\* Nor is an alarm ever armed in the past, where it would not come until the timer had
\* gone right round (next_rise, pps_output_start).
ArmedAhead == output.running => output.alarm >= count

\* And no second is left out or told twice: between steps, the seconds told are apart by
\* as many as the pulses were (service_pps).
SecondsFollow == ~told.skipped

\* The pulses go on, on the seconds of UTC, and are told of one by one (pps.cpp).
PpsSound == PulsesAreSeconds /\ ArmedAhead /\ SecondsFollow
=============================================================================
