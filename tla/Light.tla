------------------------------- MODULE Light -------------------------------
(***************************************************************************)
(* The light sensor (dspic_src/drivers/veml6040.c) and the brightness of   *)
(* the tubes that follows it (ui/brightness.c, drivers/tubes.c).  The chip *)
(* is configured when found, its configuration read back now and again,    *)
(* and its light read in between, one transfer at a time, on a bus that is *)
(* left alone while the RTC is timed.                                      *)
(*                                                                         *)
(* A reading is what the light reads as: dark, full scale, or a level; a   *)
(* chip that lost its configuration reads another level.  Levels are in    *)
(* steps of BRIGHTNESS_STEP.  Reports, counters and lux are left out.      *)
(***************************************************************************)
EXTENDS Integers

CONSTANTS ReadInterval, DetectInterval, CheckInterval,   \* VEML6040_..._INTERVAL_MS, in ticks
          Pwm,           \* TUBES_BRIGHTNESS_MIN and _MAX: <<min, max>>
          FullLevel,     \* TUBES_BRIGHTNESS_FULL
          ManualLevels,  \* the levels set by hand
          LevelOf,       \* brightness_from_lux, of each reading that has a level
          MaxMishaps     \* bound: resets and failed transfers

ASSUME LightAssumption ==
  /\ {ReadInterval, DetectInterval, CheckInterval, FullLevel, MaxMishaps} \subseteq Nat
  /\ ManualLevels \subseteq 0 .. FullLevel
  /\ Pwm \in (0 .. FullLevel) \X (0 .. FullLevel) /\ Pwm[1] <= Pwm[2]
  /\ LevelOf \in [DOMAIN LevelOf -> Pwm[1] .. Pwm[2]]

VARIABLES chip,    \* the sensor: whether it is there and configured, and the light
          sensor,  \* Veml6040Status, the transfer under way, and the times since
          tubeset, \* brightness.c, and the PWM of the tubes
          mishaps

lightVars == <<chip, sensor, tubeset, mishaps>>

Busy == sensor.request \in {"READING", "WRITING", "CHECKING"}

-----------------------------------------------------------------------------
\* veml6040.c: what a transfer that has ended leaves

\* (checked and of: how long ago the configuration was last found as written,
\* when the transfer and when the last good reading were asked for)
Asked(s, request) == [s EXCEPT !.request = request, !.checked = s.sinceSame]

\* decode()
Decoded(s, light) ==
  [s EXCEPT !.saturated = light = "FLOOD", !.dark = light = "DARK",
            !.valid = light \notin {"FLOOD", "DARK"}, !.light = light, !.of = s.checked]

\* What the bus says of an address nobody answers to, and of any other failure.
TransferFailed(s, absent) ==
  IF absent THEN [s EXCEPT !.present = FALSE, !.configured = FALSE, !.valid = FALSE,
                           !.request = "FAILED"]
  ELSE [s EXCEPT !.request = "FAILED"]

FinishAsChecked(s, absent) ==   \* mutant: a check that failed counts as one
  LET f == TransferFailed(s, absent)
  IN  IF s.request = "CHECKING" THEN [f EXCEPT !.sinceCheck = 0, !.sinceAttempt = 0]
      ELSE [f EXCEPT !.sinceAttempt = 0]

\* finish(), of a transfer that failed
FinishBadly(s, absent) == [TransferFailed(s, absent) EXCEPT !.sinceAttempt = 0]

\* finish(), finish_check(): of one that did not.  A configuration written is
\* read back at once.
FinishWell(s) ==
  LET answered == [s EXCEPT !.present = TRUE, !.sinceAttempt = 0]
  IN  CASE s.request = "WRITING"  -> Asked(answered, "CHECKING")
        [] s.request = "CHECKING" ->
             [answered EXCEPT !.request = "DONE", !.sinceCheck = 0, !.configured = chip.set,
                              !.sinceSame = IF chip.set THEN 0 ELSE @]
        [] s.request = "READING" /\ ~s.configured ->
             [answered EXCEPT !.request = "DONE", !.reads = TRUE, !.valid = FALSE]
        [] OTHER ->
             [Decoded(answered, IF chip.set THEN chip.light ELSE "WRONG") EXCEPT
                !.request = "DONE", !.reads = TRUE]

\* next_request()
NextRequest(s) ==
  [Asked(s, IF s.present /\ ~s.configured THEN "WRITING"
            ELSE IF s.present /\ s.sinceCheck >= CheckInterval THEN "CHECKING"
            ELSE "READING") EXCEPT !.sinceAttempt = 0]

Due(s) ==
  /\ s.autoRead /\ s.request \notin {"READING", "WRITING", "CHECKING"}
  /\ s.sinceAttempt >= (IF s.present THEN ReadInterval ELSE DetectInterval)

ThenNext(s) == IF Due(s) THEN NextRequest(s) ELSE s

\* veml6040_service()
TransferEnds ==
  /\ Busy
  /\ \/ /\ chip.there
        /\ sensor' = ThenNext(FinishWell(sensor))
        /\ chip' = [chip EXCEPT !.set = @ \/ sensor.request = "WRITING"]
        /\ UNCHANGED mishaps
     \/ /\ ~chip.there
        /\ sensor' = ThenNext(FinishBadly(sensor, TRUE))
        /\ UNCHANGED <<chip, mishaps>>
     \/ /\ mishaps < MaxMishaps \* NACKed data, a collision, a hung bus
        /\ sensor' = ThenNext(FinishBadly(sensor, FALSE))
        /\ mishaps' = mishaps + 1
        /\ UNCHANGED chip
  /\ UNCHANGED tubeset

NextDue ==
  /\ Due(sensor)
  /\ sensor' = NextRequest(sensor)
  /\ UNCHANGED <<chip, tubeset, mishaps>>

\* veml6040_set_auto_read(): the RTC source takes the bus or gives it back.
AutoRead ==
  /\ sensor' = [sensor EXCEPT !.autoRead = ~@]
  /\ UNCHANGED <<chip, tubeset, mishaps>>

\* A tick.  A transfer ends within one, and a request that is due is made.
TimePasses ==
  /\ ~Busy /\ ~Due(sensor)
  /\ sensor' = [sensor EXCEPT
       !.sinceAttempt = IF @ < DetectInterval THEN @ + 1 ELSE @,
       !.sinceCheck = IF @ < CheckInterval THEN @ + 1 ELSE @,
       !.sinceSame = IF @ < CheckInterval THEN @ + 1 ELSE @]
  /\ UNCHANGED <<chip, tubeset, mishaps>>

\* The light changes; the chip is reset, unplugged or plugged in.
LightChanges ==
  /\ \E light \in {"DARK", "FLOOD"} \union DOMAIN LevelOf : chip' = [chip EXCEPT !.light = light]
  /\ UNCHANGED <<sensor, tubeset, mishaps>>

ChipFails ==
  /\ mishaps < MaxMishaps
  /\ mishaps' = mishaps + 1
  /\ chip' \in {[chip EXCEPT !.set = FALSE], [chip EXCEPT !.set = FALSE, !.there = ~@]}
  /\ UNCHANGED <<sensor, tubeset>>

-----------------------------------------------------------------------------
\* brightness.c

\* auto_target() and brightness_from_lux(), whose curve LevelOf stands for
AutoTarget ==
  IF ~sensor.present \/ ~sensor.reads THEN tubeset.manual
  ELSE IF sensor.saturated THEN Pwm[2]
  ELSE IF sensor.dark THEN Pwm[1]
  ELSE IF sensor.valid /\ sensor.light \in DOMAIN LevelOf THEN LevelOf[sensor.light]
  ELSE IF sensor.valid THEN Pwm[1]
  ELSE tubeset.manual

\* step_towards(), by a step of 1
StepTowards(from, to) ==
  CASE from < to -> IF from < Pwm[1] THEN (IF Pwm[1] > to THEN to ELSE Pwm[1]) ELSE from + 1
    [] from > to -> IF from > Pwm[2] THEN (IF Pwm[2] < to THEN to ELSE Pwm[2]) ELSE from - 1
    [] OTHER     -> from

\* tubes_brightness_set()
LitLevel(level) == IF level < Pwm[1] THEN 0 ELSE IF level > Pwm[2] THEN FullLevel ELSE level

\* brightness_service(), every 10 ms
BrightnessService ==
  LET target == IF tubeset.auto THEN AutoTarget ELSE tubeset.manual
      level  == IF tubeset.auto THEN StepTowards(tubeset.level, target) ELSE target
  IN  /\ tubeset' = [tubeset EXCEPT !.target = target, !.level = level,
                                    !.lit = IF level = tubeset.level THEN @ ELSE LitLevel(level)]
      /\ UNCHANGED <<chip, sensor, mishaps>>

\* brightness_set_auto(), brightness_set_level()
BrightnessSet ==
  /\ \E auto \in BOOLEAN, manual \in ManualLevels :
       tubeset' = [tubeset EXCEPT !.auto = auto, !.manual = manual]
  /\ UNCHANGED <<chip, sensor, mishaps>>

LightInit ==
  /\ chip \in [there : BOOLEAN, set : {FALSE}, light : {"DARK"}]
  /\ sensor = [request |-> "WRITING", present |-> FALSE, configured |-> FALSE, reads |-> FALSE,
               valid |-> FALSE, saturated |-> FALSE, dark |-> FALSE, light |-> "DARK",
               sinceAttempt |-> 0, sinceCheck |-> 0, sinceSame |-> 0, checked |-> 0, of |-> 0, autoRead |-> TRUE]
  /\ tubeset \in [auto : {TRUE}, manual : ManualLevels, target : {Pwm[1]}, level : {Pwm[1]},
                  lit : {Pwm[1]}]
  /\ mishaps = 0

LightNext ==
  \/ TransferEnds \/ NextDue \/ AutoRead \/ TimePasses \/ LightChanges \/ ChipFails
  \/ BrightnessService \/ BrightnessSet

LightSpec == LightInit /\ [][LightNext]_lightVars

-----------------------------------------------------------------------------
\* The light a level is taken from was read, and of a chip that answers, whose
\* configuration had been found as written less than a check interval before: a
\* check that fails is made again before any reading (veml6040.h: "Counts read
\* while it is not known to be configured are not used").
LightIsTrusted ==
  sensor.valid =>
    sensor.present /\ sensor.of < CheckInterval /\ ~sensor.saturated /\ ~sensor.dark

\* The tubes are lit as they were last told, by a level within the range that
\* the PWM has or at either end of it.
LitAsTold ==
  /\ tubeset.level \in 0 .. FullLevel
  /\ tubeset.lit = LitLevel(tubeset.level)

\* The light is trusted while it is good, and the tubes are lit as told
\* (veml6040.c, brightness.c).
LightSound == LightIsTrusted /\ LitAsTold
=============================================================================
