------------------------------ MODULE EspClock ------------------------------
(***************************************************************************)
(* The ESP's model of UTC against its local timer, and the correction that *)
(* each NTP sample makes to it: esp_src/src/timing/esp_clock.cpp.          *)
(*                                                                         *)
(* Local time and UTC are in units, Unit of which make a step of time; a   *)
(* frequency is in units per step, so that only the slew is ever rounded.  *)
(* The true frequency is TrueRate, a sample is off by no more than its     *)
(* error allows, and an estimate of the frequency (a line through the raw  *)
(* offsets) by no more than the drift that is allowed for from then on.    *)
(***************************************************************************)
EXTENDS Integers

CONSTANTS Unit, TrueRate,
          SampleErrors,  \* of samples: half the round trip and the root terms
          StepLimit, GentleLimit,    \* ESP_CLOCK_STEP_US, ESP_CLOCK_GENTLE_US
          GentleRate, FastRate,      \* ESP_CLOCK_GENTLE_PPM, _FAST_SLEW_PPM
          TimeConstant,  \* of a gentle correction
          EspDrift,      \* esp_clock_drift_ppm(), by the estimates made: none, one, more
          MaxLocal       \* bound on local time

ASSUME EspClockAssumption ==
  /\ Unit \in Nat \ {0} /\ TrueRate \in Int /\ SampleErrors \subseteq Nat
  /\ StepLimit \in Nat /\ GentleLimit \in Nat
  /\ GentleRate \in Nat \ {0} /\ FastRate \in Nat \ {0} /\ TimeConstant \in Nat
  /\ EspDrift \in [0 .. 2 -> Nat] /\ -EspDrift[0] <= TrueRate /\ TrueRate <= EspDrift[0]
  /\ MaxLocal \in Nat

VARIABLES local,    \* the timer
          esp,      \* clock_state: the anchor, the slew, the frequency and its estimates
          sample,   \* the last one given to the clock
          lag       \* history: what the latest step ignored (step)

espVars == <<local, esp, sample, lag>>

SizeOf(x)     == IF x < 0 THEN -x ELSE x
Truncated(a, b)  == IF a < 0 THEN -((-a) \div b) ELSE a \div b    \* division as in C

TrueUtc(at) == at + (at \div Unit) * TrueRate

-----------------------------------------------------------------------------
\* slewed(): the part of the slew applied by then.
Slewed(e, at) ==
  LET elapsed == at - e.slewStart
  IN  IF e.slew = 0 \/ elapsed <= 0 THEN 0
      ELSE IF elapsed >= e.duration THEN e.slew
      ELSE Truncated(e.slew * elapsed, e.duration)

\* esp_clock_utc_us()
UtcAt(e, at) ==
  LET elapsed == at - e.anchorLocal
  IN  e.anchorUtc + elapsed + Truncated(elapsed * e.rate, Unit) + Slewed(e, at)

\* step(): the offset is taken to hold now as well.
Stepped(e, s, now) ==
  [e EXCEPT !.anchorLocal = now, !.anchorUtc = now + s.offset, !.slew = 0, !.valid = TRUE]

\* How long a correction takes to slew in, and that it is never under a second.
Duration(correction) ==
  LET fast  == SizeOf(correction) > GentleLimit
      least == (SizeOf(correction) * Unit) \div (IF fast THEN FastRate ELSE GentleRate)
      time  == IF ~fast /\ least < TimeConstant THEN TimeConstant ELSE least
  IN  IF time < Unit THEN Unit ELSE time

\* What is still wrong at now: the error at the sample, less what the old slew has
\* applied since, and the old frequency's error since.
CorrectionOfError(e, s, now, rate) ==    \* mutant: the error at the sample
  s.local + s.offset - UtcAt(e, s.local)

Correction(e, s, now, rate) ==
  s.local + s.offset - UtcAt(e, s.local)
  - (Slewed(e, now) - Slewed(e, s.local))
  + Truncated((now - s.local) * (rate - e.rate), Unit)

\* The rest of esp_clock_update(): anchored where the model stands now.
Corrected(e, s, now, rate) ==
  LET correction == Correction(e, s, now, rate)
  IN  [e EXCEPT !.anchorLocal = now, !.anchorUtc = UtcAt(e, now), !.rate = rate,
                !.slew = correction, !.slewStart = now, !.duration = Duration(correction)]

\* estimate_frequency(), if the window spans enough: any estimate as good as the
\* drift that is allowed for with it.
Estimates(e) ==
  LET known == IF e.estimates < 2 THEN e.estimates + 1 ELSE 2
  IN  {<<e.rate, e.estimates>>}
      \cup {<<TrueRate + d, known>> : d \in -EspDrift[known] .. EspDrift[known]}

\* esp_clock_update()
Update(s, now) ==
  LET error == s.local + s.offset - UtcAt(esp, s.local)
  IN  /\ IF ~esp.valid \/ SizeOf(error) > StepLimit
         THEN /\ esp' = Stepped(esp, s, now)
              /\ lag' = ((now - s.local) * SizeOf(esp.rate)) \div Unit
         ELSE /\ \E f \in Estimates(esp) :
                   esp' = [Corrected(esp, s, now, f[1]) EXCEPT !.estimates = f[2]]
              /\ lag' = 0
      /\ sample' = s
      /\ UNCHANGED local

\* A poll's sample reaches the clock at once, or a step of time after it was taken.
Sampled ==
  \E error \in SampleErrors, late \in {0, Unit} :
    \E off \in {-error, error} :
      /\ late <= local
      /\ LET at == local - late
         IN  Update([local |-> at, offset |-> TrueUtc(at) - at + off, error |-> error], local)

TimeGoes == local < MaxLocal /\ local' = local + Unit /\ UNCHANGED <<esp, sample, lag>>

\* esp_clock_init()
EspInit ==
  /\ local = 0 /\ lag = 0
  /\ esp = [valid |-> FALSE, anchorLocal |-> 0, anchorUtc |-> 0, rate |-> 0, estimates |-> 0,
            slew |-> 0, slewStart |-> 0, duration |-> 0]
  /\ sample = [local |-> 0, offset |-> 0, error |-> 0]

EspNext == Sampled \/ TimeGoes

EspSpec == EspInit /\ [][EspNext]_espVars

-----------------------------------------------------------------------------
\* esp_clock_uncertainty_ns()
EspUncertainty(at) ==
  sample.error + SizeOf(esp.slew - Slewed(esp, at))
  + ((at - sample.local) * EspDrift[esp.estimates]) \div Unit

\* Properties

\* "The uncertainty is a +/- bound": whatever is being slewed in, and however late
\* its sample came, the clock is no further from UTC than it says, but for what a
\* step takes to be negligible (esp_clock_uncertainty_ns, esp_clock_update).
UncertaintyIsBound ==
  esp.valid => SizeOf(UtcAt(esp, local) - TrueUtc(local)) <= EspUncertainty(local) + lag
=============================================================================
