-------------------------- MODULE PeripheryProofs ---------------------------
(***************************************************************************)
(* Proofs about the parts around the keeping of time, each by itself.      *)
(***************************************************************************)
EXTENDS Light, Panel, Records, Alarm, Pairing, SettingsLink, Menu, Zone,
        FiniteSetTheorems, SequenceTheorems, WellFoundedInduction, TLAPS

-----------------------------------------------------------------------------
\* The light sensor

Requests == {"READING", "WRITING", "CHECKING", "DONE", "FAILED"}
Readings == {"DARK", "FLOOD", "WRONG"} \union DOMAIN LevelOf
Levels   == 0 .. FullLevel

Sensors ==
  [request : Requests, present : BOOLEAN, configured : BOOLEAN, reads : BOOLEAN,
   valid : BOOLEAN, saturated : BOOLEAN, dark : BOOLEAN, light : Readings,
   sinceAttempt : Nat, sinceCheck : Nat, sinceSame : Nat, checked : Nat, of : Nat,
   autoRead : BOOLEAN]

LightTypes ==
  /\ chip \in [there : BOOLEAN, set : BOOLEAN,
               light : {"DARK", "FLOOD"} \union DOMAIN LevelOf]
  /\ sensor \in Sensors
  /\ tubeset \in [auto : BOOLEAN, manual : Levels, target : Levels, level : Levels,
                  lit : Levels]
  /\ mishaps \in Nat

\* A configuration that was found as written was found so at the last check; and
\* a reading of a chip that has one is asked for before the next is due.
ConfigurationKnown(s) ==
  /\ s.configured => s.present /\ s.sinceSame = s.sinceCheck
  /\ s.configured /\ s.request = "READING" => s.checked < CheckInterval

LightTrusted(s) ==
  s.valid => s.present /\ s.of < CheckInterval /\ ~s.saturated /\ ~s.dark

LightInv == LightTypes /\ ConfigurationKnown(sensor) /\ LightTrusted(sensor) /\ LitAsTold

\* What becomes of the sensor in a step keeps what is known of it.
Sensed(s) == s \in Sensors /\ ConfigurationKnown(s) /\ LightTrusted(s)

LEMMA NextRequestSensed ==
  ASSUME NEW s, Sensed(s)
  PROVE  Sensed(NextRequest(s)) /\ Sensed(ThenNext(s))
<1>1. s \in Sensors
  BY DEF Sensed
<1>2. NextRequest(s) \in Sensors
  BY <1>1 DEF NextRequest, Asked, Sensors, Requests
<1>3. ConfigurationKnown(NextRequest(s))
  BY <1>1, LightAssumption DEF Sensed, ConfigurationKnown, NextRequest, Asked, Sensors
<1>4. LightTrusted(NextRequest(s))
  BY <1>1 DEF Sensed, LightTrusted, NextRequest, Asked, Sensors
<1> QED
  BY <1>2, <1>3, <1>4 DEF Sensed, ThenNext

LEMMA FinishWellSensed ==
  ASSUME LightTypes, Sensed(sensor), Busy
  PROVE  Sensed(FinishWell(sensor))
<1> DEFINE answered == [sensor EXCEPT !.present = TRUE, !.sinceAttempt = 0]
<1>1. sensor \in Sensors /\ Sensed(answered) /\ answered.request = sensor.request
      /\ (answered.configured <=> sensor.configured) /\ answered.checked = sensor.checked
  BY DEF Sensed, Sensors, ConfigurationKnown, LightTrusted
<1> HIDE DEF answered
<1>2. CASE sensor.request = "WRITING"
  <2>1. FinishWell(sensor) = Asked(answered, "CHECKING")
    BY <1>2 DEF FinishWell, answered
  <2> QED
    BY <1>1, <2>1 DEF Sensed, Sensors, Requests, ConfigurationKnown, LightTrusted, Asked
<1>3. CASE sensor.request = "CHECKING"
  <2>1. FinishWell(sensor) =
          [answered EXCEPT !.request = "DONE", !.sinceCheck = 0, !.configured = chip.set,
                           !.sinceSame = IF chip.set THEN 0 ELSE @]
    BY <1>3 DEF FinishWell, answered
  <2>2. chip.set \in BOOLEAN /\ answered.present
    BY DEF LightTypes, answered, Sensed, Sensors
  <2> DEFINE same == IF chip.set THEN 0 ELSE answered.sinceSame
  <2>3. FinishWell(sensor) \in Sensors
    <3>1. same \in Nat /\ "DONE" \in Requests
      BY <1>1 DEF Sensed, Sensors, Requests
    <3>2. FinishWell(sensor) = [answered EXCEPT !.request = "DONE", !.sinceCheck = 0,
                                                !.configured = chip.set, !.sinceSame = same]
      BY <2>1
    <3> HIDE DEF same
    <3> DEFINE done == [answered EXCEPT !.request = "DONE", !.sinceCheck = 0]
    <3>3. done \in Sensors
      BY <1>1, <3>1 DEF Sensed, Sensors
    <3>4. FinishWell(sensor) = [done EXCEPT !.configured = chip.set, !.sinceSame = same]
      BY <1>1, <3>2 DEF Sensed, Sensors
    <3> HIDE DEF done
    <3> QED
      BY <2>2, <3>1, <3>3, <3>4 DEF Sensors
  <2>4. ConfigurationKnown(FinishWell(sensor))
    BY <1>1, <2>1, <2>2 DEF Sensed, Sensors, ConfigurationKnown
  <2>5. LightTrusted(FinishWell(sensor))
    BY <1>1, <2>1 DEF Sensed, Sensors, LightTrusted
  <2> QED
    BY <2>3, <2>4, <2>5 DEF Sensed
<1>4. CASE sensor.request = "READING" /\ ~sensor.configured
  <2>1. FinishWell(sensor) =
          [answered EXCEPT !.request = "DONE", !.reads = TRUE, !.valid = FALSE]
    BY <1>4 DEF FinishWell, answered
  <2> QED
    BY <1>1, <2>1 DEF Sensed, Sensors, Requests, ConfigurationKnown, LightTrusted
<1>5. CASE sensor.request = "READING" /\ sensor.configured
  <2> DEFINE seen == IF chip.set THEN chip.light ELSE "WRONG"
  <2>1. FinishWell(sensor) =
          [Decoded(answered, seen) EXCEPT !.request = "DONE", !.reads = TRUE]
    BY <1>5 DEF FinishWell, answered
  <2>2. seen \in Readings /\ answered.present
    BY DEF LightTypes, Readings, answered, Sensed, Sensors
  <2> HIDE DEF seen
  <2>3. FinishWell(sensor) \in Sensors
    <3>1. Decoded(answered, seen) \in Sensors
      <4> DEFINE dim == [answered EXCEPT !.saturated = seen = "FLOOD", !.dark = seen = "DARK"]
                 good == [dim EXCEPT !.valid = seen \notin {"FLOOD", "DARK"}]
      <4>1. Decoded(answered, seen) = [good EXCEPT !.light = seen, !.of = answered.checked]
        BY <1>1 DEF Decoded, Sensors, Sensed
      <4>2. answered \in Sensors
        BY <1>1 DEF Sensed
      <4> HIDE DEF answered
      <4>3. dim \in Sensors /\ dim.checked = answered.checked
        BY <4>2 DEF Sensors
      <4> HIDE DEF dim
      <4>4. good \in Sensors /\ good.checked = answered.checked
        BY <4>3 DEF Sensors
      <4> HIDE DEF good
      <4> QED
        BY <2>2, <4>1, <4>4 DEF Sensors
    <3> QED
      BY <2>1, <3>1 DEF Sensors, Requests
  <2>4. ConfigurationKnown(FinishWell(sensor))
    BY <1>1, <2>1, <2>2 DEF Sensed, Sensors, ConfigurationKnown, Decoded
  <2>5. answered.checked < CheckInterval
    BY <1>1, <1>5 DEF Sensed, ConfigurationKnown
  <2>6. LightTrusted(FinishWell(sensor))
    BY <1>1, <2>1, <2>2, <2>5 DEF Sensed, Sensors, LightTrusted, Decoded
  <2> QED
    BY <2>3, <2>4, <2>6 DEF Sensed
<1> QED
  BY <1>2, <1>3, <1>4, <1>5 DEF Busy

LEMMA FinishBadlySensed ==
  ASSUME Sensed(sensor), NEW absent \in BOOLEAN
  PROVE  Sensed(FinishBadly(sensor, absent))
BY DEF Sensed, Sensors, Requests, ConfigurationKnown, LightTrusted, FinishBadly, TransferFailed

LEMMA SensorStep ==
  ASSUME LightInv, TransferEnds \/ NextDue \/ AutoRead \/ TimePasses
  PROVE  Sensed(sensor') /\ chip'.light = chip.light /\ chip' \in [there : BOOLEAN, set : BOOLEAN,
               light : {"DARK", "FLOOD"} \union DOMAIN LevelOf]
         /\ mishaps' \in Nat /\ tubeset' = tubeset
<1> USE DEF LightTypes
<1>1. Sensed(sensor) /\ sensor \in Sensors
  BY DEF LightInv, Sensed
<1>2. chip \in [there : BOOLEAN, set : BOOLEAN, light : {"DARK", "FLOOD"} \union DOMAIN LevelOf]
      /\ mishaps \in Nat
  BY DEF LightInv
<1>3. CASE TransferEnds
  <2>1. CASE /\ sensor' = ThenNext(FinishWell(sensor))
             /\ chip' = [chip EXCEPT !.set = @ \/ sensor.request = "WRITING"]
             /\ mishaps' = mishaps
    <3>1. Sensed(sensor')
      BY <1>1, <1>3, <2>1, FinishWellSensed, NextRequestSensed DEF LightInv, TransferEnds
    <3> QED
      BY <1>2, <1>3, <2>1, <3>1 DEF TransferEnds
  <2>2. CASE chip' = chip /\ \E absent \in BOOLEAN : sensor' = ThenNext(FinishBadly(sensor, absent))
    <3>1. Sensed(sensor')
      BY <1>1, <2>2, FinishBadlySensed, NextRequestSensed
    <3>2. mishaps' = mishaps \/ mishaps' = mishaps + 1
      BY <1>3, Zenon DEF TransferEnds
    <3>3. tubeset' = tubeset
      BY <1>3 DEF TransferEnds
    <3> QED
      BY <1>2, <2>2, <3>1, <3>2, <3>3
  <2> QED
    BY <1>3, <2>1, <2>2 DEF TransferEnds
<1>4. CASE NextDue
  BY <1>1, <1>2, <1>4, NextRequestSensed DEF NextDue
<1>5. CASE AutoRead
  BY <1>1, <1>2, <1>5 DEF AutoRead, Sensed, Sensors, ConfigurationKnown, LightTrusted
<1>6. CASE TimePasses
  <2>1. sensor'.configured <=> sensor.configured
    BY <1>1, <1>6 DEF TimePasses, Sensors
  <2>2. sensor' \in Sensors
    <3> DEFINE attempt == IF sensor.sinceAttempt < DetectInterval THEN sensor.sinceAttempt + 1
                          ELSE sensor.sinceAttempt
               check == IF sensor.sinceCheck < CheckInterval THEN sensor.sinceCheck + 1
                        ELSE sensor.sinceCheck
               same == IF sensor.sinceSame < CheckInterval THEN sensor.sinceSame + 1
                       ELSE sensor.sinceSame
    <3>1. attempt \in Nat /\ check \in Nat /\ same \in Nat
      BY <1>1 DEF Sensors
    <3>2. sensor' = [sensor EXCEPT !.sinceAttempt = attempt, !.sinceCheck = check,
                                   !.sinceSame = same]
      BY <1>6 DEF TimePasses
    <3> HIDE DEF attempt, check, same
    <3> QED
      BY <1>1, <3>1, <3>2 DEF Sensors
  <2>3. sensor.sinceSame = sensor.sinceCheck => sensor'.sinceSame = sensor'.sinceCheck
    BY <1>1, <1>6 DEF TimePasses, Sensors
  <2> QED
    BY <1>1, <1>2, <1>6, <2>1, <2>2, <2>3
    DEF TimePasses, Sensed, Sensors, ConfigurationKnown, LightTrusted
<1> QED
  BY <1>3, <1>4, <1>5, <1>6

-----------------------------------------------------------------------------
\* The brightness

LEMMA AutoTargetLevel ==
  ASSUME LightTypes
  PROVE  AutoTarget \in Levels
<1>1. Pwm[1] \in Levels /\ Pwm[2] \in Levels /\ tubeset.manual \in Levels
  BY LightAssumption DEF LightTypes, Levels
<1>2. \A light \in DOMAIN LevelOf : LevelOf[light] \in Levels
  BY LightAssumption DEF Levels
<1> QED
  BY <1>1, <1>2 DEF AutoTarget

LEMMA StepTowardsLevel ==
  ASSUME NEW from \in Levels, NEW to \in Levels
  PROVE  StepTowards(from, to) \in Levels
BY LightAssumption DEF StepTowards, Levels

LEMMA LitLevelLevel ==
  ASSUME NEW level \in Levels
  PROVE  LitLevel(level) \in Levels
BY LightAssumption DEF LitLevel, Levels

LEMMA BrightnessStep ==
  ASSUME LightInv, BrightnessService
  PROVE  LightTypes' /\ LitAsTold'
<1> DEFINE target == IF tubeset.auto THEN AutoTarget ELSE tubeset.manual
           level  == IF tubeset.auto THEN StepTowards(tubeset.level, target) ELSE target
<1>1. tubeset \in [auto : BOOLEAN, manual : Levels, target : Levels, level : Levels, lit : Levels]
      /\ tubeset.lit = LitLevel(tubeset.level)
  BY DEF LightInv, LightTypes, LitAsTold
<1>2. target \in Levels
  BY <1>1, AutoTargetLevel DEF LightInv
<1>3. level \in Levels
  BY <1>1, <1>2, StepTowardsLevel
<1>4. /\ tubeset' = [tubeset EXCEPT !.target = target, !.level = level,
                                    !.lit = IF level = tubeset.level THEN @ ELSE LitLevel(level)]
      /\ chip' = chip /\ sensor' = sensor /\ mishaps' = mishaps
  BY DEF BrightnessService
<1> HIDE DEF target, level
<1>5. tubeset'.level = level /\ tubeset'.lit = LitLevel(level)
      /\ tubeset' \in [auto : BOOLEAN, manual : Levels, target : Levels, level : Levels, lit : Levels]
  BY <1>1, <1>2, <1>3, <1>4, LitLevelLevel
<1> QED
  BY <1>3, <1>4, <1>5 DEF LightInv, LightTypes, LitAsTold, Levels

LEMMA LightInvInit == LightInit => LightInv
<1> SUFFICES ASSUME LightInit
             PROVE  LightInv
  OBVIOUS
<1>1. Pwm[1] \in Levels /\ ManualLevels \subseteq Levels /\ LitLevel(Pwm[1]) = Pwm[1]
  BY LightAssumption DEF Levels, LitLevel
<1>2. LightTypes
  BY <1>1 DEF LightInit, LightTypes, Sensors, Requests, Readings
<1>3. LitAsTold
  BY <1>1 DEF LightInit, LitAsTold, Levels
<1> QED
  BY <1>2, <1>3 DEF LightInit, LightInv, ConfigurationKnown, LightTrusted

LEMMA LightInvNext == LightInv /\ [LightNext]_lightVars => LightInv'
<1> SUFFICES ASSUME LightInv, [LightNext]_lightVars
             PROVE  LightInv'
  OBVIOUS
<1>1. CASE TransferEnds \/ NextDue \/ AutoRead \/ TimePasses
  <2>1. LightTypes'
    BY <1>1, SensorStep DEF LightInv, LightTypes, Sensed
  <2>2. LitAsTold'
    BY <1>1, SensorStep DEF LightInv, LitAsTold
  <2> QED
    BY <1>1, <2>1, <2>2, SensorStep DEF LightInv, Sensed
<1>2. CASE LightChanges \/ ChipFails
  <2>1. UNCHANGED <<sensor, tubeset>>
    BY <1>2 DEF LightChanges, ChipFails
  <2>2. mishaps' \in Nat
    BY <1>2 DEF LightChanges, ChipFails, LightInv, LightTypes
  <2>3. chip' \in [there : BOOLEAN, set : BOOLEAN, light : {"DARK", "FLOOD"} \union DOMAIN LevelOf]
    BY <1>2 DEF LightChanges, ChipFails, LightInv, LightTypes
  <2> QED
    BY <2>1, <2>2, <2>3 DEF LightInv, LightTypes, ConfigurationKnown, LightTrusted, LitAsTold
<1>3. CASE BrightnessService
  <2>1. sensor' = sensor
    BY <1>3 DEF BrightnessService
  <2> QED
    BY <1>3, <2>1, BrightnessStep DEF LightInv, ConfigurationKnown, LightTrusted
<1>4. CASE BrightnessSet
  <2>1. ManualLevels \subseteq Levels
    BY LightAssumption DEF Levels
  <2> QED
    BY <1>4, <2>1 DEF BrightnessSet, LightInv, LightTypes, ConfigurationKnown, LightTrusted, LitAsTold
<1>5. CASE UNCHANGED lightVars
  BY <1>5 DEF lightVars, LightInv, LightTypes, ConfigurationKnown, LightTrusted, LitAsTold
<1> QED
  BY <1>1, <1>2, <1>3, <1>4, <1>5 DEF LightNext

\* LightSound: whatever the sensor loses, and however its transfers fail, a level is taken
\* only from light read of a chip found configured less than a check interval before, and
\* the tubes are lit as they were last told (veml6040.c, brightness.c).
THEOREM LightIsSound == LightSpec => []LightSound
<1>1. LightInv => LightSound
  BY DEF LightInv, LightTrusted, LightIsTrusted, LightSound
<1> QED
  BY <1>1, LightInvInit, LightInvNext, PTL DEF LightSpec

-----------------------------------------------------------------------------
\* The display

Frames == {[frame |-> o] : o \in Overlays} \union {Dashes}
            \union [frame : {"CLOCK"}, second : Int, mode : Int, drawn : BOOLEAN, hundredths : Int]
Seconds == [known : BOOLEAN, second : Int, hundredths : Int]
Outputs == [register : Frames, lit : Frames, open : BOOLEAN]
Loads   == [shown : Frames, loaded : Frames, pending : BOOLEAN]
Drawn   == [hw : Outputs, sw : Loads]
Beats ==
  [epoch : Nat, due : BOOLEAN, raced : BOOLEAN, stale : BOOLEAN, redraws : Nat, late : Nat]
Screens ==
  [selected : Int, mode : Int, preview : Int, overlay : Overlays \union {NoFrame},
   setting : BOOLEAN, cycled : Int, shown : Seconds, next : Seconds, prepared : Frames,
   pending : BOOLEAN, ended : BOOLEAN]

PanelTypes ==
  /\ Drivers \in Drawn /\ screen \in Screens /\ beat \in Beats

\* What is in the register was loaded last, and is shown already unless it waits
\* for the epoch; an open latch shows the register.
DriversInv ==
  /\ tubes.open => tubes.lit = tubes.register
  /\ tubes.register = loading.loaded
  /\ ~loading.pending => loading.loaded = loading.shown
  /\ tubes.open /\ ~beat.due => screen.pending

\* The seconds are those of the epoch and of the next.
SecondsInv ==
  /\ screen.next.known => screen.next.second = beat.epoch + (IF beat.due THEN 0 ELSE 1)
  /\ screen.shown.known /\ ~beat.due => screen.shown.second = beat.epoch

InTime == ~beat.raced /\ ~beat.stale

\* The next second's frame is prepared as the settings are; once it has been loaded
\* it stays so until the pulse, and is what the pulse shows if it came in time.
FramesInv ==
  /\ screen.next.known => screen.prepared = Render(screen, screen.next)
  /\ ~beat.due /\ ~screen.pending /\ screen.next.known =>
       loading.pending /\ tubes.register = Render(screen, screen.next)
  /\ beat.due /\ ~beat.stale => ~screen.pending
  /\ beat.due /\ InTime => tubes.lit = loading.loaded
  /\ beat.due /\ InTime /\ screen.next.known => loading.loaded = Render(screen, screen.next)
  /\ ~beat.due /\ InTime => tubes.lit = loading.shown
  /\ ~beat.due /\ InTime /\ screen.shown.known /\ ~screen.ended =>
       tubes.lit = Render(screen, screen.shown)

PanelInv == PanelTypes /\ DriversInv /\ SecondsInv /\ FramesInv

LEMMA ModeTypes == Modes \in Nat /\ Modes > 0 /\ Hundredths \in Nat
BY PanelAssumption

LEMMA RenderFrame ==
  ASSUME NEW s \in Screens, NEW second \in Seconds
  PROVE  Render(s, second) \in Frames
<1>1. CASE s.overlay # NoFrame
  BY <1>1 DEF Render, Frames, Screens
<1>2. CASE s.overlay = NoFrame /\ ~second.known
  BY <1>2 DEF Render, Frames
<1>3. CASE s.overlay = NoFrame /\ second.known
  <2>1. DrawnMode(s) \in Int /\ s.setting \in BOOLEAN /\ second.second \in Int
        /\ (IF DrawnMode(s) = Hundredths THEN second.hundredths ELSE 0) \in Int
    BY DEF Screens, Seconds, DrawnMode
  <2> QED
    BY <1>3, <2>1 DEF Render, Frames
<1> QED
  BY <1>1, <1>2, <1>3

\* A frame is what it is rendered from, and no other part of the screen.
LEMMA RenderSame ==
  ASSUME NEW s, NEW t, NEW second, s.overlay = t.overlay, s.preview = t.preview, s.mode = t.mode,
         s.setting = t.setting
  PROVE  Render(s, second) = Render(t, second)
BY DEF Render, DrawnMode

-----------------------------------------------------------------------------
\* What the two ways of giving the drivers a frame make of them

LEMMA DriversFields ==
  /\ Drivers.hw = tubes /\ Drivers.sw = loading
  /\ \A p : Driven(p) <=> tubes' = p.hw /\ loading' = p.sw
BY DEF Drivers, Driven

LEMMA ShiftFields ==
  ASSUME NEW d \in Drawn, NEW f \in Frames
  PROVE  LET p == ShiftIn(d, f)
         IN  /\ p \in Drawn /\ p.sw = d.sw
             /\ p.hw.register = f /\ (p.hw.open <=> d.hw.open)
             /\ p.hw.lit = IF d.hw.open THEN f ELSE d.hw.lit
<1> DEFINE lit == IF d.hw.open THEN f ELSE d.hw.lit
<1>1. lit \in Frames
  BY DEF Drawn, Outputs
<1>2. ShiftIn(d, f) = [d EXCEPT !.hw.register = f, !.hw.lit = lit]
  BY DEF ShiftIn, Drawn
<1> HIDE DEF lit
<1> DEFINE hw == [[d.hw EXCEPT !.register = f] EXCEPT !.lit = lit]
<1>3. d.hw \in Outputs /\ d.sw \in Loads
  BY DEF Drawn
<1>4. hw \in Outputs /\ hw.register = f /\ hw.lit = lit /\ (hw.open <=> d.hw.open)
  BY <1>1, <1>3 DEF Outputs
<1>5. ShiftIn(d, f) = [d EXCEPT !.hw = hw]
  BY <1>2, <1>3 DEF Drawn, Outputs
<1> HIDE DEF hw
<1>6. ShiftIn(d, f) \in Drawn /\ ShiftIn(d, f).sw = d.sw /\ ShiftIn(d, f).hw.register = f
      /\ (ShiftIn(d, f).hw.open <=> d.hw.open) /\ ShiftIn(d, f).hw.lit = lit
  BY <1>3, <1>4, <1>5 DEF Drawn
<1> QED
  BY <1>6 DEF lit

LEMMA LoadFields ==
  ASSUME NEW d \in Drawn, NEW f \in Frames
  PROVE  LET p == TubesLoad(d, f)
         IN  /\ p \in Drawn /\ p.sw.shown = d.sw.shown /\ p.sw.loaded = f /\ p.sw.pending
             /\ p.hw.register = f /\ (p.hw.open <=> d.hw.open)
             /\ p.hw.lit = IF d.hw.open THEN f ELSE d.hw.lit
<1>1. TubesLoad(d, f) = [ShiftIn(d, f) EXCEPT !.sw.loaded = f, !.sw.pending = TRUE]
  BY DEF TubesLoad
<1>2. ShiftIn(d, f) \in Drawn /\ ShiftIn(d, f).sw = d.sw
  BY ShiftFields
<1> DEFINE p  == ShiftIn(d, f)
           sw == [[p.sw EXCEPT !.loaded = f] EXCEPT !.pending = TRUE]
<1>3. p.hw \in Outputs /\ p.sw \in Loads /\ p \in Drawn
  BY <1>2 DEF Drawn
<1> HIDE DEF p
<1>4. sw \in Loads /\ sw.shown = p.sw.shown /\ sw.loaded = f /\ sw.pending
  BY <1>3 DEF Loads
<1>5. TubesLoad(d, f) = [p EXCEPT !.sw = sw]
  BY <1>1, <1>3 DEF Drawn, Loads, p
<1> HIDE DEF sw
<1>6. TubesLoad(d, f) \in Drawn /\ TubesLoad(d, f).hw = p.hw /\ TubesLoad(d, f).sw = sw
  BY <1>3, <1>4, <1>5 DEF Drawn
<1>7. TubesLoad(d, f) \in Drawn /\ TubesLoad(d, f).hw = ShiftIn(d, f).hw
      /\ TubesLoad(d, f).sw.shown = d.sw.shown /\ TubesLoad(d, f).sw.loaded = f
      /\ TubesLoad(d, f).sw.pending
  BY <1>2, <1>4, <1>6 DEF p
<1> QED
  BY <1>7, ShiftFields

LEMMA ShowFields ==
  ASSUME NEW d \in Drawn, NEW f \in Frames
  PROVE  LET p     == TubesShow(d, f)
             keeps == d.sw.pending /\ ~d.hw.open
         IN  /\ p \in Drawn /\ p.sw.shown = f /\ p.hw.lit = f /\ (p.hw.open <=> d.hw.open)
             /\ p.hw.register = IF keeps THEN d.sw.loaded ELSE f
             /\ p.sw.loaded = IF keeps THEN d.sw.loaded ELSE f
             /\ p.sw.pending <=> keeps
<1> DEFINE shifted == ShiftIn(d, f)
           cur     == [LatchPulse(shifted) EXCEPT !.sw.shown = f]
           keeps   == d.sw.pending /\ ~d.hw.open
<1>1. shifted \in Drawn /\ shifted.sw = d.sw /\ shifted.hw.register = f
      /\ (shifted.hw.open <=> d.hw.open)
  BY ShiftFields
<1>2. cur = [[shifted EXCEPT !.hw.lit = f] EXCEPT !.sw.shown = f]
  BY <1>1 DEF LatchPulse
<1> HIDE DEF shifted
<1>3. shifted.hw \in Outputs /\ shifted.sw \in Loads
  BY <1>1 DEF Drawn
<1> DEFINE hw == [shifted.hw EXCEPT !.lit = f]
           sw == [shifted.sw EXCEPT !.shown = f]
<1>4. hw \in Outputs /\ hw.lit = f /\ hw.register = f /\ (hw.open <=> d.hw.open)
  BY <1>1, <1>3 DEF Outputs
<1>5. sw \in Loads /\ sw.shown = f /\ sw.loaded = d.sw.loaded /\ (sw.pending <=> d.sw.pending)
  BY <1>1, <1>3 DEF Loads
<1>6. cur = [[shifted EXCEPT !.hw = hw] EXCEPT !.sw = sw]
  BY <1>1, <1>2, <1>3 DEF Drawn, Outputs, Loads
<1> HIDE DEF hw, sw
<1>7. cur \in Drawn /\ cur.hw = hw /\ cur.sw = sw
  BY <1>1, <1>4, <1>5, <1>6 DEF Drawn
<1>8. cur \in Drawn /\ cur.hw.lit = f /\ cur.hw.register = f /\ (cur.hw.open <=> d.hw.open)
      /\ cur.sw.shown = f /\ cur.sw.loaded = d.sw.loaded /\ (cur.sw.pending <=> d.sw.pending)
  BY <1>4, <1>5, <1>7
<1>9. TubesShow(d, f) = IF keeps THEN ShiftIn(cur, d.sw.loaded)
                        ELSE [cur EXCEPT !.sw.loaded = f, !.sw.pending = FALSE]
  BY DEF TubesShow, shifted
<1>10. d.sw.loaded \in Frames
  BY DEF Drawn, Loads
<1> HIDE DEF cur
<1>11. CASE keeps
  <2>1. TubesShow(d, f) = ShiftIn(cur, d.sw.loaded)
    BY <1>9, <1>11
  <2> QED
    BY <1>8, <1>10, <1>11, <2>1, ShiftFields
<1>12. CASE ~keeps
  <2>1. TubesShow(d, f) = [cur EXCEPT !.sw.loaded = f, !.sw.pending = FALSE]
    BY <1>9, <1>12
  <2> DEFINE last == [[cur.sw EXCEPT !.loaded = f] EXCEPT !.pending = FALSE]
  <2>2. cur.sw \in Loads /\ cur.hw \in Outputs
    BY <1>8 DEF Drawn
  <2>3. last \in Loads /\ last.shown = f /\ last.loaded = f /\ ~last.pending
    BY <1>8, <2>2 DEF Loads
  <2>4. TubesShow(d, f) = [cur EXCEPT !.sw = last]
    BY <1>8, <2>1, <2>2 DEF Drawn, Loads
  <2> HIDE DEF last
  <2>5. TubesShow(d, f) \in Drawn /\ TubesShow(d, f).hw = cur.hw /\ TubesShow(d, f).sw = last
    BY <1>8, <2>2, <2>3, <2>4 DEF Drawn
  <2> QED
    BY <1>8, <1>12, <2>3, <2>5
<1> QED
  BY <1>11, <1>12

-----------------------------------------------------------------------------
\* A change of what is drawn

\* The screen as a change leaves it, before it is drawn again.
Altered(s) ==
  /\ s \in Screens /\ s.shown = screen.shown /\ s.next = screen.next
  /\ s.pending <=> screen.pending

LEMMA RedrawStep ==
  ASSUME PanelTypes, NEW s, Altered(s), Redraw(s), s.overlay # NoFrame \/ s.shown.known \/ s.next.known
  PROVE  LET cur   == Render(s, s.shown)
             keeps == loading.pending /\ ~tubes.open
             loads == ~s.pending /\ ~tubes.open
         IN  /\ screen' \in Screens /\ screen'.shown = s.shown /\ screen'.next = s.next
             /\ (screen'.pending <=> s.pending) /\ ~screen'.ended
             /\ screen'.prepared = Render(s, s.next)
             /\ \A second : Render(screen', second) = Render(s, second)
             /\ Drivers' \in Drawn /\ loading'.shown = cur /\ tubes'.lit = cur
             /\ (tubes'.open <=> tubes.open)
             /\ tubes'.register = IF loads THEN Render(s, s.next)
                                  ELSE IF keeps THEN loading.loaded ELSE cur
             /\ loading'.loaded = IF loads THEN Render(s, s.next)
                                  ELSE IF keeps THEN loading.loaded ELSE cur
             /\ loading'.pending <=> loads \/ keeps
<1> DEFINE next == Render(s, s.next)
           cur  == Render(s, s.shown)
           p    == TubesShow(Drivers, cur)
           q    == TubesLoad(p, next)
           loads == ~s.pending /\ ~tubes.open
           keeps == loading.pending /\ ~tubes.open
<1>1. screen' = [[s EXCEPT !.prepared = next] EXCEPT !.ended = FALSE]
      /\ Driven(IF loads THEN q ELSE p)
  BY DEF Redraw, Altered, Screens
<1>2. s \in Screens /\ next \in Frames /\ cur \in Frames /\ Drivers \in Drawn
  BY RenderFrame DEF Altered, PanelTypes, Screens
<1>3. /\ p \in Drawn /\ p.sw.shown = cur /\ p.hw.lit = cur /\ (p.hw.open <=> tubes.open)
      /\ p.hw.register = IF keeps THEN loading.loaded ELSE cur
      /\ p.sw.loaded = IF keeps THEN loading.loaded ELSE cur
      /\ p.sw.pending <=> keeps
  <2> HIDE DEF cur
  <2> QED
    BY <1>2, ShowFields, DriversFields
<1> HIDE DEF next, cur, p
<1>4. /\ q \in Drawn /\ q.sw.shown = p.sw.shown /\ q.sw.loaded = next /\ q.sw.pending
      /\ q.hw.register = next /\ (q.hw.open <=> p.hw.open)
      /\ q.hw.lit = IF p.hw.open THEN next ELSE p.hw.lit
  BY <1>2, <1>3, LoadFields
<1> HIDE DEF q
<1>5. /\ screen' \in Screens /\ screen'.shown = s.shown /\ screen'.next = s.next
      /\ (screen'.pending <=> s.pending) /\ ~screen'.ended /\ screen'.prepared = next
      /\ screen'.overlay = s.overlay /\ screen'.preview = s.preview /\ screen'.mode = s.mode
      /\ screen'.setting = s.setting
  BY <1>1, <1>2 DEF Screens
<1>6. \A second : Render(screen', second) = Render(s, second)
  BY <1>5, RenderSame
<1>7. CASE loads
  <2>1. tubes' = q.hw /\ loading' = q.sw
    BY <1>1, <1>7 DEF Driven
  <2>2. Drivers' = q
    BY <1>4, <2>1 DEF Drivers, Drawn
  <2>3. ~p.hw.open
    BY <1>3, <1>7
  <2> QED
    BY <1>3, <1>4, <1>5, <1>6, <1>7, <2>1, <2>2, <2>3 DEF next, cur
<1>8. CASE ~loads
  <2>1. tubes' = p.hw /\ loading' = p.sw
    BY <1>1, <1>8 DEF Driven
  <2>2. Drivers' = p
    BY <1>3, <2>1 DEF Drivers, Drawn
  <2> QED
    BY <1>3, <1>5, <1>6, <1>8, <2>1, <2>2 DEF next, cur
<1> QED
  BY <1>7, <1>8

LEMMA ChangeStep ==
  ASSUME PanelTypes, MayChange
  PROVE  /\ beat'.epoch = beat.epoch /\ (beat'.due <=> beat.due) /\ (beat'.stale <=> beat.stale)
         /\ beat'.raced <=> beat.raced \/ beat.due
         /\ beat' \in Beats
<1>1. beat \in Beats
  BY DEF PanelTypes
<1> DEFINE raced  == beat.raced \/ beat.due
           drawn == [beat EXCEPT !.redraws = @ + 1]
<1>2. raced \in BOOLEAN /\ drawn \in Beats
  BY <1>1 DEF Beats
<1>3. drawn.epoch = beat.epoch /\ (drawn.due <=> beat.due) /\ (drawn.stale <=> beat.stale)
  BY <1>1 DEF Beats
<1>4. beat' = [drawn EXCEPT !.raced = raced]
  BY <1>1 DEF MayChange, Beats
<1> HIDE DEF raced, drawn
<1>5. /\ beat'.epoch = drawn.epoch /\ (beat'.due <=> drawn.due) /\ (beat'.stale <=> drawn.stale)
      /\ (beat'.raced <=> raced) /\ beat' \in Beats
  BY <1>2, <1>4 DEF Beats
<1> QED
  BY <1>3, <1>5 DEF raced

LEMMA PanelInvChange ==
  ASSUME PanelInv, MayChange, NEW s, Altered(s), Redraw(s)
  PROVE  PanelInv'
<1>1. PanelTypes /\ DriversInv /\ SecondsInv /\ FramesInv
  BY DEF PanelInv
<1>2. SecondsInv /\ screen'.shown = screen.shown /\ screen'.next = screen.next => SecondsInv'
  BY <1>1, ChangeStep DEF SecondsInv
<1>3. CASE ~(s.overlay # NoFrame \/ s.shown.known \/ s.next.known)
  <2>1. screen' = s /\ tubes' = tubes /\ loading' = loading
    BY <1>3 DEF Redraw
  <2>2. Drivers' = Drivers
    BY <2>1 DEF Drivers
  <2>3. PanelTypes'
    BY <1>1, <2>1, <2>2, ChangeStep DEF PanelTypes, Altered
  <2>4. ~screen'.next.known /\ ~screen'.shown.known /\ (screen'.pending <=> screen.pending)
    BY <1>3, <2>1 DEF Altered
  <2>5. DriversInv'
    BY <1>1, <2>1, <2>4, ChangeStep DEF DriversInv
  <2>6. FramesInv'
    BY <1>1, <2>1, <2>4, ChangeStep DEF FramesInv, InTime
  <2> QED
    BY <1>1, <1>2, <2>1, <2>3, <2>5, <2>6 DEF PanelInv, Altered
<1>4. CASE s.overlay # NoFrame \/ s.shown.known \/ s.next.known
  <2> DEFINE cur   == Render(s, s.shown)
             next  == Render(s, s.next)
             keeps == loading.pending /\ ~tubes.open
             loads == ~s.pending /\ ~tubes.open
  <2>1. /\ screen' \in Screens /\ screen'.shown = s.shown /\ screen'.next = s.next
        /\ (screen'.pending <=> s.pending) /\ ~screen'.ended
        /\ screen'.prepared = next
        /\ Render(screen', screen'.next) = next /\ Render(screen', screen'.shown) = cur
        /\ Drivers' \in Drawn /\ loading'.shown = cur /\ tubes'.lit = cur
        /\ (tubes'.open <=> tubes.open)
        /\ tubes'.register = IF loads THEN next ELSE IF keeps THEN loading.loaded ELSE cur
        /\ loading'.loaded = IF loads THEN next ELSE IF keeps THEN loading.loaded ELSE cur
        /\ loading'.pending <=> loads \/ keeps
    BY <1>1, <1>4, RedrawStep
  <2> HIDE DEF cur, next
  <2>2. s.shown = screen.shown /\ s.next = screen.next /\ (s.pending <=> screen.pending)
    BY DEF Altered
  <2>3. PanelTypes'
    BY <1>1, <2>1, ChangeStep DEF PanelTypes
  <2>4. DriversInv'
    BY <1>1, <2>1, <2>2, ChangeStep DEF DriversInv
  <2>5. FramesInv'
    <3>1. screen'.next.known => screen'.prepared = Render(screen', screen'.next)
      BY <2>1
    <3>2. ~beat'.due /\ ~screen'.pending /\ screen'.next.known =>
            loading'.pending /\ tubes'.register = Render(screen', screen'.next)
      BY <1>1, <2>1, <2>2, ChangeStep DEF DriversInv
    <3>3. beat'.due => beat'.raced
      BY ChangeStep, <1>1
    <3>4. beat'.due /\ ~beat'.stale => ~screen'.pending
      BY <1>1, <2>1, <2>2, ChangeStep DEF FramesInv
    <3> QED
      BY <2>1, <3>1, <3>2, <3>3, <3>4 DEF FramesInv, InTime
  <2> QED
    BY <1>1, <1>2, <2>1, <2>2, <2>3, <2>4, <2>5 DEF PanelInv
<1> QED
  BY <1>3, <1>4

LEMMA PanelInvChanges ==
  ASSUME PanelInv, SetMode \/ SetDrawn \/ Cycle \/ SetOverlay \/ Preview
  PROVE  PanelInv'
<1>1. screen \in Screens /\ MayChange
  BY DEF PanelInv, PanelTypes, SetMode, SetDrawn, Cycle, SetOverlay, Preview
<1>2. CASE SetMode
  <2>1. PICK m \in 0 .. Modes - 1 : Redraw([screen EXCEPT !.selected = m, !.mode = m])
    BY <1>2 DEF SetMode
  <2>2. m \in Int
    BY ModeTypes
  <2>3. [screen EXCEPT !.selected = m] \in Screens
    BY <1>1, <2>2 DEF Screens
  <2>4. Altered([screen EXCEPT !.selected = m, !.mode = m])
    BY <1>1, <2>2, <2>3 DEF Altered, Screens
  <2> QED
    BY <1>1, <2>1, <2>4, PanelInvChange
<1>3. CASE SetDrawn
  <2>1. Redraw([screen EXCEPT !.setting = ~@]) /\ Altered([screen EXCEPT !.setting = ~@])
    BY <1>1, <1>3 DEF SetDrawn, Altered, Screens
  <2> QED
    BY <1>1, <2>1, PanelInvChange
<1>4. CASE Cycle
  <2> DEFINE m == (screen.mode + 1) % Modes
  <2>1. m \in Int
    BY <1>1, ModeTypes DEF Screens
  <2>2. Redraw([screen EXCEPT !.mode = m, !.cycled = 0])
    BY <1>4 DEF Cycle
  <2> HIDE DEF m
  <2>3. [screen EXCEPT !.mode = m] \in Screens
    BY <1>1, <2>1 DEF Screens
  <2> DEFINE moved == [screen EXCEPT !.mode = m]
  <2>4. moved \in Screens /\ Altered(moved)
    BY <1>1, <2>1, <2>3 DEF Altered, Screens
  <2>5. [screen EXCEPT !.mode = m, !.cycled = 0] = [moved EXCEPT !.cycled = 0]
    OBVIOUS
  <2> HIDE DEF moved
  <2>6. Altered([moved EXCEPT !.cycled = 0])
    BY <2>4 DEF Altered, Screens
  <2>7. Altered([screen EXCEPT !.mode = m, !.cycled = 0])
    BY <2>5, <2>6
  <2> QED
    BY <1>1, <2>2, <2>7, PanelInvChange
<1>5. CASE SetOverlay
  <2>1. PICK o \in Overlays \union {NoFrame} : Redraw([screen EXCEPT !.overlay = o])
    BY <1>5 DEF SetOverlay
  <2>2. Altered([screen EXCEPT !.overlay = o])
    BY <1>1 DEF Altered, Screens
  <2> QED
    BY <1>1, <2>1, <2>2, PanelInvChange
<1>6. CASE Preview
  <2>1. PICK m \in 0 .. Modes : Redraw([screen EXCEPT !.preview = m])
    BY <1>6 DEF Preview
  <2>2. Altered([screen EXCEPT !.preview = m])
    BY <1>1, ModeTypes DEF Altered, Screens
  <2> QED
    BY <1>1, <2>1, <2>2, PanelInvChange
<1> QED
  BY <1>2, <1>3, <1>4, <1>5, <1>6

-----------------------------------------------------------------------------
\* The pulse, the epoch's work, and what is loaded and ticks

LEMMA DrawnParts ==
  ASSUME PanelTypes
  PROVE  tubes \in Outputs /\ loading \in Loads /\ Drivers \in Drawn
BY DEF PanelTypes, Drivers, Drawn

LEMMA PanelInvPulse ==
  ASSUME PanelInv, EpochPulse \/ PulseEnds
  PROVE  PanelInv'
<1>1. PanelTypes /\ DriversInv /\ SecondsInv /\ FramesInv /\ screen \in Screens /\ beat \in Beats
      /\ tubes \in Outputs /\ loading \in Loads
  BY DrawnParts DEF PanelInv, PanelTypes
<1>2. screen' = screen /\ loading' = loading
  BY DEF EpochPulse, PulseEnds
<1>3. Render(screen', screen'.next) = Render(screen, screen.next)
      /\ Render(screen', screen'.shown) = Render(screen, screen.shown)
  BY <1>2
<1>4. CASE EpochPulse
  <2>1. /\ ~tubes.open /\ ~beat.due
        /\ tubes' \in Outputs /\ tubes'.lit = tubes.register /\ tubes'.register = tubes.register
        /\ tubes'.open
    BY <1>1, <1>4 DEF EpochPulse, Outputs
  <2>2. /\ beat'.epoch = beat.epoch + 1 /\ beat'.due /\ ~beat'.raced
        /\ (beat'.stale <=> screen.pending)
    BY <1>1, <1>4 DEF EpochPulse, Beats
  <2>3. beat' \in Beats
    <3> DEFINE late == IF screen.pending THEN beat.late + 1 ELSE beat.late
               gone == [beat EXCEPT !.epoch = beat.epoch + 1, !.due = TRUE, !.raced = FALSE]
    <3>1. screen.pending \in BOOLEAN /\ beat.epoch \in Nat /\ beat.late \in Nat
      BY <1>1 DEF Beats, Screens
    <3>2. late \in Nat
      BY <3>1
    <3>3. [beat EXCEPT !.epoch = beat.epoch + 1] \in Beats
      BY <1>1, <3>1 DEF Beats
    <3>4. gone \in Beats
      BY <3>3 DEF Beats
    <3>5. beat' = [gone EXCEPT !.stale = screen.pending, !.late = late]
      BY <1>1, <1>4 DEF EpochPulse, Beats
    <3> HIDE DEF late, gone
    <3>6. CASE screen.pending = TRUE
      BY <3>2, <3>4, <3>5, <3>6 DEF Beats
    <3>7. CASE screen.pending = FALSE
      BY <3>2, <3>4, <3>5, <3>7 DEF Beats
    <3> QED
      BY <3>1, <3>6, <3>7
  <2>4. PanelTypes'
    BY <1>1, <1>2, <2>1, <2>3 DEF PanelTypes, Drivers, Drawn
  <2>5. DriversInv'
    BY <1>1, <1>2, <2>1, <2>2 DEF DriversInv
  <2>6. SecondsInv'
    BY <1>1, <1>2, <2>1, <2>2 DEF SecondsInv, Beats
  <2>7. FramesInv'
    <3>1. beat'.due /\ InTime' => tubes'.lit = loading'.loaded
      BY <1>1, <1>2, <2>1 DEF DriversInv
    <3>2. beat'.due /\ InTime' /\ screen'.next.known =>
            loading'.loaded = Render(screen', screen'.next)
      BY <1>1, <1>2, <2>1, <2>2 DEF DriversInv, FramesInv, InTime
    <3> QED
      BY <1>1, <1>2, <1>3, <2>1, <2>2, <3>1, <3>2 DEF FramesInv
  <2> QED
    BY <2>4, <2>5, <2>6, <2>7 DEF PanelInv
<1>5. CASE PulseEnds
  <2>1. /\ tubes' \in Outputs /\ tubes'.lit = tubes.lit /\ tubes'.register = tubes.register
        /\ ~tubes'.open /\ beat' = beat
    BY <1>1, <1>5 DEF PulseEnds, Outputs
  <2>2. PanelTypes'
    BY <1>1, <1>2, <2>1 DEF PanelTypes, Drivers, Drawn
  <2>3. DriversInv'
    BY <1>1, <1>2, <2>1 DEF DriversInv
  <2>4. SecondsInv' /\ FramesInv'
    BY <1>1, <1>2, <1>3, <2>1 DEF SecondsInv, FramesInv, InTime
  <2> QED
    BY <2>2, <2>3, <2>4 DEF PanelInv
<1> QED
  BY <1>4, <1>5

LEMMA PrepareStep ==
  ASSUME PanelTypes, Prepare
  PROVE  /\ beat.due /\ ~beat'.due /\ beat'.epoch = beat.epoch /\ (beat'.raced <=> beat.raced)
         /\ (beat'.stale <=> beat.stale) /\ beat' \in Beats
         /\ tubes' = tubes /\ loading' = TubesEpoch(loading)
         /\ screen' \in Screens /\ screen'.shown = screen.next /\ screen'.pending
         /\ screen'.next.known => screen'.next.second = beat.epoch + 1
         /\ screen'.prepared = Render(screen', screen'.next)
         /\ ~screen'.ended => Render(screen', screen.next) = Render(screen, screen.next)
<1>1. beat \in Beats /\ screen \in Screens
  BY DEF PanelTypes
<1>2. /\ beat.due /\ ~beat'.due /\ beat'.epoch = beat.epoch /\ (beat'.raced <=> beat.raced)
      /\ (beat'.stale <=> beat.stale) /\ beat' \in Beats
      /\ tubes' = tubes /\ loading' = TubesEpoch(loading)
  BY <1>1 DEF Prepare, Beats
<1> DEFINE back == screen.mode # screen.selected /\ screen.cycled + 1 >= CycleEpochs
           mode == IF back THEN screen.selected ELSE screen.mode
           cycled == IF screen.mode # screen.selected THEN screen.cycled + 1 ELSE screen.cycled
           following(known) ==
             IF known THEN [known |-> TRUE, second |-> beat.epoch + 1, hundredths |-> 0]
             ELSE [screen.next EXCEPT !.known = FALSE]
           left(known) ==
             [screen EXCEPT !.shown = screen.next, !.next = following(known), !.pending = TRUE,
                            !.ended = back, !.mode = mode, !.cycled = cycled]
<1>3. PICK known \in BOOLEAN :
        screen' = [left(known) EXCEPT !.prepared = Render(left(known), following(known))]
  BY <1>1 DEF Prepare, Screens
<1>4. screen.next \in Seconds /\ mode \in Int /\ cycled \in Int /\ back \in BOOLEAN
  BY <1>1, PanelAssumption DEF Screens
<1>5. /\ following(known) \in Seconds
      /\ following(known).known => following(known).second = beat.epoch + 1
  <2>1. CASE known
    BY <1>1, <2>1 DEF Seconds, Beats
  <2>2. CASE ~known
    BY <1>4, <2>2 DEF Seconds
  <2> QED
    BY <2>1, <2>2
<1>6. ~back => mode = screen.mode
  OBVIOUS
<1> DEFINE next == following(known)
           s    == left(known)
<1>7. s = [[[screen EXCEPT !.shown = screen.next, !.next = next, !.pending = TRUE]
               EXCEPT !.mode = mode, !.cycled = cycled] EXCEPT !.ended = back]
  BY <1>1 DEF Screens
<1> HIDE DEF back, mode, cycled, next
<1>8. s \in Screens /\ s.shown = screen.next /\ s.next = next /\ s.pending /\ (s.ended <=> back)
      /\ s.mode = mode /\ s.overlay = screen.overlay /\ s.preview = screen.preview
      /\ s.setting = screen.setting
  <2> DEFINE t == [screen EXCEPT !.shown = screen.next, !.next = next, !.pending = TRUE]
             u == [t EXCEPT !.mode = mode, !.cycled = cycled]
  <2>1. next \in Seconds
    BY <1>5 DEF next
  <2>2. t \in Screens /\ t.shown = screen.next /\ t.next = next /\ t.pending
        /\ t.overlay = screen.overlay /\ t.preview = screen.preview
        /\ t.setting = screen.setting
    BY <1>1, <1>4, <2>1 DEF Screens
  <2> HIDE DEF t
  <2>3. u \in Screens /\ u.shown = screen.next /\ u.next = next /\ u.pending /\ u.mode = mode
        /\ u.overlay = screen.overlay /\ u.preview = screen.preview
        /\ u.setting = screen.setting
    BY <1>4, <2>2 DEF Screens
  <2>4. s = [u EXCEPT !.ended = back]
    BY <1>7 DEF t
  <2> HIDE DEF u, s
  <2>5. CASE back = TRUE
    BY <2>3, <2>4, <2>5 DEF Screens
  <2>6. CASE back = FALSE
    BY <2>3, <2>4, <2>6 DEF Screens
  <2> QED
    BY <1>4, <2>5, <2>6
<1>9. screen' = [s EXCEPT !.prepared = Render(s, next)]
  BY <1>3 DEF next
<1>10. next \in Seconds /\ (next.known => next.second = beat.epoch + 1)
  BY <1>5 DEF next
<1> HIDE DEF s
<1>11. Render(s, next) \in Frames
  BY <1>8, <1>10, RenderFrame
<1> DEFINE frame == Render(s, next)
<1> HIDE DEF frame
<1>12. /\ screen' \in Screens /\ screen'.shown = screen.next /\ screen'.next = next
       /\ screen'.pending /\ (screen'.ended <=> back) /\ screen'.prepared = frame
       /\ screen'.mode = s.mode /\ screen'.overlay = s.overlay /\ screen'.preview = s.preview
       /\ screen'.setting = s.setting
  BY <1>8, <1>9, <1>11 DEF Screens, frame
<1>13. screen'.prepared = Render(screen', screen'.next)
  BY <1>12, RenderSame DEF frame
<1>14. ~back => Render(screen', screen.next) = Render(screen, screen.next)
  BY <1>6, <1>8, <1>12, RenderSame
<1> QED
  BY <1>2, <1>10, <1>12, <1>13, <1>14

LEMMA PanelInvPrepare ==
  ASSUME PanelInv, Prepare
  PROVE  PanelInv'
<1>1. PanelTypes /\ DriversInv /\ SecondsInv /\ FramesInv /\ beat \in Beats
      /\ tubes \in Outputs /\ loading \in Loads
  BY DrawnParts DEF PanelInv, PanelTypes
<1>2. /\ beat.due /\ ~beat'.due /\ beat'.epoch = beat.epoch /\ (beat'.raced <=> beat.raced)
      /\ (beat'.stale <=> beat.stale) /\ beat' \in Beats
      /\ tubes' = tubes /\ loading' = TubesEpoch(loading)
      /\ screen' \in Screens /\ screen'.shown = screen.next /\ screen'.pending
      /\ (screen'.next.known => screen'.next.second = beat.epoch + 1)
      /\ screen'.prepared = Render(screen', screen'.next)
      /\ (~screen'.ended => Render(screen', screen.next) = Render(screen, screen.next))
  BY <1>1, PrepareStep
<1>3. /\ loading' \in Loads /\ loading'.loaded = loading.loaded /\ ~loading'.pending
      /\ loading'.shown = IF loading.pending THEN loading.loaded ELSE loading.shown
  BY <1>1, <1>2 DEF TubesEpoch, Loads
<1>4. PanelTypes'
  BY <1>1, <1>2, <1>3 DEF PanelTypes, Drivers, Drawn
<1>5. loading'.shown = loading.loaded
  BY <1>1, <1>3 DEF DriversInv
<1>6. DriversInv'
  BY <1>1, <1>2, <1>3, <1>5 DEF DriversInv
<1>7. SecondsInv'
  <2>1. screen.next.known => screen.next.second = beat.epoch
    BY <1>1, <1>2 DEF SecondsInv, Beats
  <2> QED
    BY <1>1, <1>2, <2>1 DEF SecondsInv
<1>8. FramesInv'
  <2>1. InTime' => tubes'.lit = loading'.shown
    BY <1>1, <1>2, <1>5 DEF FramesInv, InTime
  <2>2. InTime' /\ screen'.shown.known /\ ~screen'.ended =>
          tubes'.lit = Render(screen', screen'.shown)
    BY <1>1, <1>2 DEF FramesInv, InTime
  <2> QED
    BY <1>2, <2>1, <2>2 DEF FramesInv
<1> QED
  BY <1>4, <1>6, <1>7, <1>8 DEF PanelInv

LEMMA PanelInvService ==
  ASSUME PanelInv, Service
  PROVE  PanelInv'
<1>1. PanelTypes /\ DriversInv /\ SecondsInv /\ FramesInv /\ screen \in Screens
      /\ screen.prepared \in Frames /\ tubes \in Outputs /\ loading \in Loads /\ Drivers \in Drawn
  BY DrawnParts DEF PanelInv, PanelTypes, Screens
<1> DEFINE p == TubesLoad(Drivers, screen.prepared)
<1>2. /\ p \in Drawn /\ p.sw.shown = loading.shown /\ p.sw.loaded = screen.prepared /\ p.sw.pending
      /\ p.hw.register = screen.prepared /\ (p.hw.open <=> tubes.open)
      /\ p.hw.lit = IF tubes.open THEN screen.prepared ELSE tubes.lit
  BY <1>1, LoadFields, DriversFields
<1>3. /\ screen.pending /\ ~tubes.open /\ Driven(p) /\ beat' = beat
      /\ screen' = [screen EXCEPT !.pending = FALSE]
  BY DEF Service
<1> HIDE DEF p
<1>4. tubes' = p.hw /\ loading' = p.sw
  BY <1>3 DEF Driven
<1>5. Drivers' = p
  BY <1>2, <1>4 DEF Drivers, Drawn
<1>6. /\ screen' \in Screens /\ ~screen'.pending /\ screen'.shown = screen.shown
      /\ screen'.next = screen.next /\ screen'.prepared = screen.prepared
      /\ (screen'.ended <=> screen.ended) /\ screen'.overlay = screen.overlay
      /\ screen'.preview = screen.preview /\ screen'.mode = screen.mode
      /\ screen'.setting = screen.setting
  BY <1>1, <1>3 DEF Screens
<1>7. /\ Render(screen', screen'.next) = Render(screen, screen.next)
      /\ Render(screen', screen'.shown) = Render(screen, screen.shown)
  BY <1>6, RenderSame
<1>8. PanelTypes'
  BY <1>1, <1>2, <1>3, <1>5, <1>6 DEF PanelTypes
<1>9. DriversInv'
  BY <1>1, <1>2, <1>3, <1>4 DEF DriversInv
<1>10. SecondsInv'
  BY <1>1, <1>3, <1>6 DEF SecondsInv
<1>11. FramesInv'
  <2>1. beat.due => beat.stale
    BY <1>1, <1>3 DEF FramesInv
  <2> QED
    BY <1>1, <1>2, <1>3, <1>4, <1>6, <1>7, <2>1 DEF FramesInv, InTime
<1> QED
  BY <1>8, <1>9, <1>10, <1>11 DEF PanelInv

LEMMA PanelInvTick ==
  ASSUME PanelInv, Tick
  PROVE  PanelInv'
<1>1. PanelTypes /\ DriversInv /\ SecondsInv /\ FramesInv /\ screen \in Screens
      /\ screen.shown \in Seconds /\ tubes \in Outputs /\ loading \in Loads /\ Drivers \in Drawn
  BY DrawnParts DEF PanelInv, PanelTypes, Screens
<1> DEFINE second == [screen.shown EXCEPT !.hundredths = 1]
           s == [screen EXCEPT !.shown = second]
           p == TubesShow(Drivers, Render(s, second))
<1>2. second \in Seconds /\ (second.known <=> screen.shown.known)
      /\ second.second = screen.shown.second
  BY <1>1 DEF Seconds
<1>3. /\ ~beat.due /\ screen.shown.known /\ beat' = beat /\ screen' = s /\ Driven(p)
  BY <1>1 DEF Tick, Screens
<1> HIDE DEF second
<1>4. /\ s \in Screens /\ (s.pending <=> screen.pending) /\ s.shown = second
      /\ s.next = screen.next /\ s.prepared = screen.prepared /\ (s.ended <=> screen.ended)
      /\ s.overlay = screen.overlay /\ s.preview = screen.preview /\ s.mode = screen.mode
      /\ s.setting = screen.setting
  BY <1>1, <1>2 DEF Screens
<1> HIDE DEF s
<1> DEFINE frame == Render(s, second)
           keeps == loading.pending /\ ~tubes.open
<1>5. frame \in Frames
  BY <1>2, <1>4, RenderFrame
<1>6. Render(s, s.next) = Render(screen, screen.next)
  BY <1>4, RenderSame
<1> HIDE DEF frame
<1>7. /\ p \in Drawn /\ p.sw.shown = frame /\ p.hw.lit = frame /\ (p.hw.open <=> tubes.open)
      /\ p.hw.register = IF keeps THEN loading.loaded ELSE frame
      /\ p.sw.loaded = IF keeps THEN loading.loaded ELSE frame
      /\ p.sw.pending <=> keeps
  BY <1>1, <1>5, ShowFields, DriversFields DEF frame
<1> HIDE DEF p
<1>8. tubes' = p.hw /\ loading' = p.sw
  BY <1>3 DEF Driven
<1>9. Drivers' = p
  BY <1>7, <1>8 DEF Drivers, Drawn
<1>10. PanelTypes'
  BY <1>1, <1>3, <1>4, <1>7, <1>9 DEF PanelTypes
<1>11. DriversInv'
  BY <1>1, <1>3, <1>4, <1>7, <1>8 DEF DriversInv
<1>12. SecondsInv'
  BY <1>1, <1>2, <1>3, <1>4 DEF SecondsInv
<1>13. FramesInv'
  <2>1. tubes'.lit = Render(screen', screen'.shown) /\ tubes'.lit = loading'.shown
    BY <1>3, <1>4, <1>7, <1>8 DEF frame
  <2>2. screen'.next.known => screen'.prepared = Render(screen', screen'.next)
    BY <1>1, <1>3, <1>4, <1>6 DEF FramesInv
  <2>3. ~screen'.pending /\ screen'.next.known =>
          loading'.pending /\ tubes'.register = Render(screen', screen'.next)
    <3>1. ~screen.pending => ~tubes.open
      BY <1>1, <1>3 DEF DriversInv
    <3>2. ~screen.pending /\ screen.next.known =>
            loading.pending /\ tubes.register = Render(screen, screen.next)
      BY <1>1, <1>3 DEF FramesInv
    <3>3. tubes.register = loading.loaded
      BY <1>1 DEF DriversInv
    <3> QED
      BY <1>3, <1>4, <1>6, <1>7, <1>8, <3>1, <3>2, <3>3
  <2> QED
    BY <1>3, <2>1, <2>2, <2>3 DEF FramesInv
<1> QED
  BY <1>10, <1>11, <1>12, <1>13 DEF PanelInv

LEMMA PanelInvInit == PanelInit => PanelInv
<1> SUFFICES ASSUME PanelInit
             PROVE  PanelInv
  OBVIOUS
<1>1. Dashes \in Frames /\ Unknown \in Seconds /\ ~Unknown.known
  BY DEF Frames, Unknown, Seconds
<1>2. PanelTypes
  BY <1>1, ModeTypes DEF PanelInit, PanelTypes, Drivers, Drawn, Outputs, Loads, Screens, Beats
<1>3. DriversInv /\ SecondsInv /\ FramesInv
  BY <1>1 DEF PanelInit, DriversInv, SecondsInv, FramesInv, InTime
<1> QED
  BY <1>2, <1>3 DEF PanelInv

LEMMA PanelInvNext == PanelInv /\ [PanelNext]_panelVars => PanelInv'
<1> SUFFICES ASSUME PanelInv, [PanelNext]_panelVars
             PROVE  PanelInv'
  OBVIOUS
<1>1. CASE UNCHANGED panelVars
  BY <1>1 DEF panelVars, PanelInv, PanelTypes, DriversInv, SecondsInv, FramesInv, InTime, Drivers,
              Render, DrawnMode
<1> QED
  BY <1>1, PanelInvChanges, PanelInvPulse, PanelInvPrepare, PanelInvService, PanelInvTick
  DEF PanelNext

\* PanelSound: from an epoch's work to the next pulse the tubes show the second that is, as
\* the settings say, and the frame of the next stays loaded whatever is shown in between
\* (display.c, tubes.c).
THEOREM PanelIsSound == PanelSpec => []PanelSound
<1>1. PanelInv => PanelSound
  <2> SUFFICES ASSUME PanelInv
               PROVE  PanelSound
    OBVIOUS
  <2>1. DriversInv /\ SecondsInv /\ FramesInv
    BY DEF PanelInv
  <2>2. ShowsTheSecond
    BY <2>1 DEF SecondsInv, FramesInv, InTime, ShowsTheSecond
  <2>3. LoadedForTheEpoch
    BY <2>1 DEF FramesInv, LoadedForTheEpoch
  <2> QED
    BY <2>2, <2>3 DEF PanelSound
<1> QED
  BY <1>1, PanelInvInit, PanelInvNext, PTL DEF PanelSpec

-----------------------------------------------------------------------------
\* The records

\* A record holds one of these, if it is there.
HoldsOf(type, some) == records[type] = <<>> \/ \E v \in some : records[type] = <<v>>

Values == [body : BodyValues, schedule : Nat, learnt : BOOLEAN, estimate : Int, measured : Nat,
           set : Nat]
Savings ==
  [requested : BOOLEAN, oscRequested : BOOLEAN, stored : BodyValues, haveRecord : BOOLEAN,
   tzPending : BOOLEAN, tzSince : Nat, haveOscillator : BOOLEAN, oscillator : Int,
   oscSaved : BOOLEAN, oscAt : Nat, rtcMeasured : Nat, rtcSet : Nat, rtcSaved : BOOLEAN,
   rtcAt : Nat, rtcRetry : BOOLEAN, rtcRetryAt : Int]

RecordsTypes ==
  /\ now \in [epoch : Nat, changes : Nat, starts : Nat]
  /\ values \in Values /\ saving \in Savings /\ waited \in Nat
  /\ records = [t \in RecordTypes |-> records[t]]
  /\ HoldsOf("SETTINGS", BodyValues) /\ HoldsOf("TIMEZONE", Nat) /\ HoldsOf("OSCILLATOR", Int)
  /\ HoldsOf("RTC", Nat \X Nat)

\* What is believed stored is, and a schedule that is not is due; an RTC record that failed
\* did so before this epoch, and one passed over was so for a schedule that has been tried.
RecordsInv ==
  /\ RecordsTypes
  /\ saving.stored = Held("SETTINGS", DefaultBody)
  /\ values.schedule = Held("TIMEZONE", 0) \/ saving.tzPending
  /\ saving.rtcRetryAt < now.epoch
  /\ waited > 0 => ~saving.tzPending \/ now.epoch - saving.tzSince < TimezoneDelay
  /\ waited <= 1

LEMMA RecordsConstants ==
  /\ DefaultBody \in BodyValues /\ TimezoneDelay \in Nat /\ TimezoneDelay > 1
  /\ Estimates \subseteq Int
BY RecordsAssumption

LEMMA HeldFacts ==
  ASSUME NEW type, NEW otherwise
  PROVE  /\ records[type] = <<>> => Held(type, otherwise) = otherwise
         /\ \A v : records[type] = <<v>> => Held(type, otherwise) = v
<1>1. \A v : <<v>> # <<>> /\ <<v>>[1] = v
  OBVIOUS
<1> QED
  BY <1>1 DEF Held

LEMMA HeldTypes ==
  ASSUME NEW type, NEW some, NEW otherwise \in some, HoldsOf(type, some)
  PROVE  Held(type, otherwise) \in some
BY HeldFacts DEF HoldsOf

\* A write changes its record as a whole, or nothing.
LEMMA WriteStep ==
  ASSUME RecordsTypes, NEW type \in RecordTypes, NEW value, NEW ok \in BOOLEAN,
         WriteRecord(type, value, ok)
  PROVE  /\ records' = [t \in RecordTypes |-> records'[t]]
         /\ \A t \in RecordTypes : records'[t] = IF ok /\ t = type THEN <<value>> ELSE records[t]
<1>1. records = [t \in RecordTypes |-> records[t]]
  BY DEF RecordsTypes
<1>2. CASE ok
  BY <1>1, <1>2 DEF WriteRecord
<1>3. CASE ~ok
  BY <1>1, <1>3 DEF WriteRecord
<1> QED
  BY <1>2, <1>3

\* What a write leaves of the records' types.
LEMMA WriteTypes ==
  ASSUME RecordsTypes, NEW type \in RecordTypes, NEW value, NEW ok \in BOOLEAN,
         WriteRecord(type, value, ok),
         type = "SETTINGS" => value \in BodyValues, type = "TIMEZONE" => value \in Nat,
         type = "OSCILLATOR" => value \in Int, type = "RTC" => value \in Nat \X Nat
  PROVE  /\ records' = [t \in RecordTypes |-> records'[t]]
         /\ HoldsOf("SETTINGS", BodyValues)' /\ HoldsOf("TIMEZONE", Nat)'
         /\ HoldsOf("OSCILLATOR", Int)' /\ HoldsOf("RTC", Nat \X Nat)'
<1>1. \A t \in RecordTypes : (records'[t] = <<value>> /\ t = type) \/ records'[t] = records[t]
  <2>1. \A t \in RecordTypes : records'[t] = IF ok /\ t = type THEN <<value>> ELSE records[t]
    BY WriteStep
  <2> QED
    BY <2>1
<1>2. {"SETTINGS", "TIMEZONE", "OSCILLATOR", "RTC"} \subseteq RecordTypes
  BY DEF RecordTypes
<1>3. \A t \in RecordTypes : \A some :
        (t = type => value \in some) /\ HoldsOf(t, some) => HoldsOf(t, some)'
  BY <1>1 DEF HoldsOf
<1> QED
  BY <1>2, <1>3, WriteStep DEF RecordsTypes

-----------------------------------------------------------------------------
\* One record an epoch

\* What the service leaves of it: what is believed stored, the schedule that is due, and the
\* RTC's turn.
Served ==
  /\ saving' \in Savings
  /\ records' = [t \in RecordTypes |-> records'[t]]
  /\ HoldsOf("SETTINGS", BodyValues)' /\ HoldsOf("TIMEZONE", Nat)'
  /\ HoldsOf("OSCILLATOR", Int)' /\ HoldsOf("RTC", Nat \X Nat)'
  /\ saving'.stored = Held("SETTINGS", DefaultBody)'
  /\ values.schedule = Held("TIMEZONE", 0)' \/ saving'.tzPending
  /\ saving'.rtcRetryAt <= now.epoch
  /\ waited' \in Nat /\ waited' <= 1
  /\ waited' > 0 => ~saving'.tzPending \/ saving'.tzSince = now.epoch

LEMMA InvParts ==
  ASSUME RecordsInv
  PROVE  /\ now \in [epoch : Nat, changes : Nat, starts : Nat] /\ now.epoch \in Nat
         /\ values \in Values /\ saving \in Savings /\ waited \in {0, 1}
         /\ saving.stored = Held("SETTINGS", DefaultBody)
         /\ values.schedule = Held("TIMEZONE", 0) \/ saving.tzPending
         /\ saving.rtcRetryAt < now.epoch
         /\ waited > 0 => ~saving.tzPending \/ now.epoch - saving.tzSince < TimezoneDelay
         /\ RecordsTypes
BY DEF RecordsInv, RecordsTypes

LEMMA SettingsServed ==
  ASSUME RecordsInv, NEW ok \in BOOLEAN, saving.requested, SaveSettings(ok), PassedOver
  PROVE  Served
<1>1. waited' = 0
  BY DEF PassedOver
<1>2. RecordsTypes /\ saving \in Savings /\ values \in Values
  BY InvParts
<1>3. CASE ~Dirty /\ saving.haveRecord
  <2>1. saving' = [saving EXCEPT !.requested = FALSE] /\ records' = records
    BY <1>3 DEF SaveSettings
  <2>2. saving' \in Savings /\ saving'.stored = saving.stored
        /\ (saving'.tzPending <=> saving.tzPending) /\ saving'.rtcRetryAt = saving.rtcRetryAt
    BY <1>2, <2>1 DEF Savings
  <2>3. \A t, d : Held(t, d)' = Held(t, d)
    BY <2>1 DEF Held
  <2>4. /\ records' = [t \in RecordTypes |-> records'[t]]
        /\ HoldsOf("SETTINGS", BodyValues)' /\ HoldsOf("TIMEZONE", Nat)'
        /\ HoldsOf("OSCILLATOR", Int)' /\ HoldsOf("RTC", Nat \X Nat)'
    BY <1>2, <2>1 DEF HoldsOf, RecordsTypes
  <2> QED
    BY <1>1, <1>2, <2>2, <2>3, <2>4, InvParts DEF Served, Savings
<1>4. CASE ~(~Dirty /\ saving.haveRecord)
  <2> DEFINE stored == StoredIs(ok)
             have   == saving.haveRecord \/ ok
  <2>1. WriteRecord("SETTINGS", values.body, ok)
        /\ saving' = [saving EXCEPT !.requested = FALSE, !.stored = stored, !.haveRecord = have]
    BY <1>2, <1>4 DEF SaveSettings, Savings
  <2>2. stored \in BodyValues /\ have \in BOOLEAN /\ values.body \in BodyValues
    BY <1>2 DEF StoredIs, Savings, Values
  <2> HIDE DEF stored, have
  <2>3. saving' \in Savings /\ saving'.stored = stored
        /\ (saving'.tzPending <=> saving.tzPending) /\ saving'.rtcRetryAt = saving.rtcRetryAt
    <3> DEFINE asked == [saving EXCEPT !.requested = FALSE, !.stored = stored]
    <3>1. asked \in Savings /\ asked.stored = stored
          /\ (asked.tzPending <=> saving.tzPending) /\ asked.rtcRetryAt = saving.rtcRetryAt
      BY <1>2, <2>2 DEF Savings
    <3>2. saving' = [asked EXCEPT !.haveRecord = have]
      BY <1>2, <2>1 DEF Savings
    <3> HIDE DEF asked
    <3> QED
      BY <2>2, <3>1, <3>2 DEF Savings
  <2>4. "SETTINGS" \in RecordTypes /\ "TIMEZONE" \in RecordTypes
    BY DEF RecordTypes
  <2>5. /\ records'["TIMEZONE"] = records["TIMEZONE"]
        /\ records'["SETTINGS"] = IF ok THEN <<values.body>> ELSE records["SETTINGS"]
    BY <1>2, <2>1, <2>4, WriteStep
  <2>6. Held("TIMEZONE", 0)' = Held("TIMEZONE", 0)
    BY <2>5 DEF Held
  <2>7. stored = Held("SETTINGS", DefaultBody)'
    <3>1. CASE ok
      BY <2>5, <3>1 DEF Held, stored, StoredIs
    <3>2. CASE ~ok
      BY <2>5, <3>2, InvParts DEF Held, stored, StoredIs
    <3> QED
      BY <3>1, <3>2
  <2>8. /\ records' = [t \in RecordTypes |-> records'[t]]
        /\ HoldsOf("SETTINGS", BodyValues)' /\ HoldsOf("TIMEZONE", Nat)'
        /\ HoldsOf("OSCILLATOR", Int)' /\ HoldsOf("RTC", Nat \X Nat)'
    BY <1>2, <2>1, <2>2, <2>4, WriteTypes
  <2> QED
    BY <1>1, <2>3, <2>6, <2>7, <2>8, InvParts DEF Served, Savings
<1> QED
  BY <1>3, <1>4

LEMMA TimezoneServed ==
  ASSUME RecordsInv, NEW ok \in BOOLEAN, ~saving.requested, TimezoneDue, SaveTimezone(ok), PassedOver
  PROVE  Served
<1>1. RecordsTypes /\ saving \in Savings /\ values \in Values /\ now.epoch \in Nat
  BY InvParts
<1>2. waited = 0
  <2>1. saving.tzPending /\ now.epoch - saving.tzSince >= TimezoneDelay
    BY DEF TimezoneDue
  <2>2. saving.tzSince \in Nat /\ waited \in {0, 1}
        /\ (waited > 0 => ~saving.tzPending \/ now.epoch - saving.tzSince < TimezoneDelay)
    BY <1>1, InvParts DEF Savings
  <2> QED
    BY <1>1, <2>1, <2>2, RecordsConstants
<1>3. waited' \in {0, 1}
  BY <1>2 DEF PassedOver
<1> DEFINE pending == ~ok
           since   == IF ok THEN saving.tzSince ELSE now.epoch
<1>4. pending \in BOOLEAN /\ since \in Nat /\ (pending => since = now.epoch) /\ (ok \/ pending)
  BY <1>1 DEF Savings
<1>5. WriteRecord("TIMEZONE", values.schedule, ok)
      /\ saving' = [saving EXCEPT !.tzPending = pending, !.tzSince = since]
  BY <1>1 DEF SaveTimezone, TimezoneTried, Savings
<1> HIDE DEF pending, since
<1>6. saving' \in Savings /\ saving'.stored = saving.stored
      /\ (saving'.tzPending <=> pending) /\ saving'.tzSince = since
      /\ saving'.rtcRetryAt = saving.rtcRetryAt
  <2> DEFINE timed == [saving EXCEPT !.tzSince = since]
  <2>1. timed \in Savings /\ timed.stored = saving.stored /\ timed.tzSince = since
        /\ timed.rtcRetryAt = saving.rtcRetryAt
    BY <1>1, <1>4 DEF Savings
  <2>2. saving' = [timed EXCEPT !.tzPending = pending]
    BY <1>1, <1>5 DEF Savings
  <2> HIDE DEF timed
  <2> QED
    BY <1>4, <2>1, <2>2 DEF Savings
<1>7. "SETTINGS" \in RecordTypes /\ "TIMEZONE" \in RecordTypes
  BY DEF RecordTypes
<1>8. /\ records'["SETTINGS"] = records["SETTINGS"]
      /\ ok => records'["TIMEZONE"] = <<values.schedule>>
  BY <1>1, <1>5, <1>7, WriteStep
<1>9. Held("SETTINGS", DefaultBody)' = Held("SETTINGS", DefaultBody)
  BY <1>8 DEF Held
<1>10. ASSUME ok
      PROVE  Held("TIMEZONE", 0)' = values.schedule
  <2>1. records'["TIMEZONE"] = <<values.schedule>> /\ <<values.schedule>> # <<>>
    BY <1>8, <1>10
  <2> QED
    BY <2>1 DEF Held
<1>11. /\ records' = [t \in RecordTypes |-> records'[t]]
       /\ HoldsOf("SETTINGS", BodyValues)' /\ HoldsOf("TIMEZONE", Nat)'
       /\ HoldsOf("OSCILLATOR", Int)' /\ HoldsOf("RTC", Nat \X Nat)'
  <2>1. values.schedule \in Nat
    BY <1>1 DEF Values
  <2> QED
    BY <1>1, <1>5, <1>7, <2>1, WriteTypes
<1> QED
  BY <1>1, <1>3, <1>4, <1>6, <1>9, <1>10, <1>11, InvParts DEF Served, Savings

\* The other two leave the settings and the schedule as they are.
LEMMA OthersServed ==
  ASSUME RecordsInv, NEW type \in {"RTC", "OSCILLATOR"}, NEW value, NEW ok \in BOOLEAN,
         WriteRecord(type, value, ok),
         type = "OSCILLATOR" => value \in Int, type = "RTC" => value \in Nat \X Nat,
         saving' \in Savings, saving'.stored = saving.stored,
         saving'.tzPending <=> saving.tzPending, saving'.rtcRetryAt <= now.epoch, waited' = 0
  PROVE  Served
<1>1. RecordsTypes /\ type \in RecordTypes /\ type # "SETTINGS" /\ type # "TIMEZONE"
      /\ "SETTINGS" \in RecordTypes /\ "TIMEZONE" \in RecordTypes
  BY InvParts DEF RecordTypes
<1>2. /\ records'["SETTINGS"] = records["SETTINGS"]
      /\ records'["TIMEZONE"] = records["TIMEZONE"]
  <2>1. \A t \in RecordTypes : records'[t] = IF ok /\ t = type THEN <<value>> ELSE records[t]
    BY <1>1, WriteStep
  <2> QED
    BY <1>1, <2>1
<1>3. Held("SETTINGS", DefaultBody)' = Held("SETTINGS", DefaultBody)
      /\ Held("TIMEZONE", 0)' = Held("TIMEZONE", 0)
  BY <1>2 DEF Held
<1>4. /\ records' = [t \in RecordTypes |-> records'[t]]
      /\ HoldsOf("SETTINGS", BodyValues)' /\ HoldsOf("TIMEZONE", Nat)'
      /\ HoldsOf("OSCILLATOR", Int)' /\ HoldsOf("RTC", Nat \X Nat)'
  BY <1>1, WriteTypes
<1> QED
  BY <1>3, <1>4, InvParts DEF Served

LEMMA RtcServed ==
  ASSUME RecordsInv, NEW ok \in BOOLEAN, ~saving.requested, RtcDue, SaveRtc(ok), PassedOver
  PROVE  Served
<1>1. saving \in Savings /\ values \in Values /\ now.epoch \in Nat
      /\ saving.rtcRetryAt < now.epoch /\ values.measured # saving.rtcMeasured
      /\ values.measured \in Nat /\ values.set \in Nat /\ saving.rtcRetryAt \in Int
  BY InvParts DEF RtcDue, Values, Savings
<1> DEFINE value == <<values.measured, values.set>>
<1>2. WriteRecord("RTC", value, ok) /\ value \in Nat \X Nat
  BY <1>1 DEF SaveRtc
<1> HIDE DEF value
<1>3. CASE ok
  <2> DEFINE taken == [saving EXCEPT !.rtcMeasured = values.measured, !.rtcSet = values.set]
  <2>1. saving' = [[taken EXCEPT !.rtcSaved = TRUE, !.rtcAt = now.epoch] EXCEPT !.rtcRetry = FALSE]
    BY <1>1, <1>3 DEF SaveRtc, Savings
  <2>2. taken \in Savings /\ taken.stored = saving.stored /\ (taken.tzPending <=> saving.tzPending)
        /\ taken.rtcRetryAt = saving.rtcRetryAt /\ taken.rtcMeasured = values.measured
    BY <1>1 DEF Savings
  <2> HIDE DEF taken
  <2>3. saving' \in Savings /\ saving'.stored = saving.stored
        /\ (saving'.tzPending <=> saving.tzPending) /\ saving'.rtcRetryAt = saving.rtcRetryAt
        /\ saving'.rtcMeasured = values.measured
    BY <1>1, <2>1, <2>2 DEF Savings
  <2>4. waited' = 0
    BY <1>1, <2>3 DEF PassedOver
  <2> QED
    BY <1>1, <1>2, <2>3, <2>4, OthersServed
<1>4. CASE ~ok
  <2>1. saving' = [saving EXCEPT !.rtcRetry = TRUE, !.rtcRetryAt = now.epoch]
    BY <1>4 DEF SaveRtc
  <2> DEFINE again == [saving EXCEPT !.rtcRetry = TRUE]
  <2>2. again \in Savings /\ again.stored = saving.stored
        /\ (again.tzPending <=> saving.tzPending)
    BY <1>1 DEF Savings
  <2>3. saving' = [again EXCEPT !.rtcRetryAt = now.epoch]
    BY <1>1, <2>1 DEF Savings
  <2> HIDE DEF again
  <2>4. saving' \in Savings /\ saving'.stored = saving.stored
        /\ (saving'.tzPending <=> saving.tzPending) /\ saving'.rtcRetryAt = now.epoch
    BY <1>1, <2>2, <2>3 DEF Savings
  <2>5. waited' = 0
    BY <1>1, <2>4 DEF PassedOver
  <2> QED
    BY <1>1, <1>2, <2>4, <2>5, OthersServed
<1> QED
  BY <1>3, <1>4

LEMMA OscillatorServed ==
  ASSUME RecordsInv, NEW ok \in BOOLEAN, SaveOscillator(ok), waited' = 0
  PROVE  Served
<1>1. saving \in Savings /\ values \in Values /\ now.epoch \in Nat
      /\ saving.rtcRetryAt < now.epoch /\ values.estimate \in Int /\ saving.rtcRetryAt \in Int
  BY InvParts DEF Values, Savings
<1> DEFINE have == saving.haveOscillator \/ ok
           kept == IF ok THEN values.estimate ELSE saving.oscillator
<1>2. have \in BOOLEAN /\ kept \in Int
  BY <1>1 DEF Savings
<1> DEFINE tried == [saving EXCEPT !.oscRequested = FALSE, !.oscSaved = TRUE, !.oscAt = now.epoch]
<1>3. saving' = [[tried EXCEPT !.oscillator = kept] EXCEPT !.haveOscillator = have]
  BY <1>1 DEF SaveOscillator, Savings
<1>4. tried \in Savings /\ tried.stored = saving.stored /\ (tried.tzPending <=> saving.tzPending)
      /\ tried.rtcRetryAt = saving.rtcRetryAt
  BY <1>1 DEF Savings
<1> HIDE DEF have, kept, tried
<1>5. saving' \in Savings /\ saving'.stored = saving.stored
      /\ (saving'.tzPending <=> saving.tzPending) /\ saving'.rtcRetryAt = saving.rtcRetryAt
  BY <1>2, <1>3, <1>4 DEF Savings
<1>6. WriteRecord("OSCILLATOR", values.estimate, ok)
  BY DEF SaveOscillator
<1> QED
  BY <1>1, <1>5, <1>6, OthersServed

LEMMA SaveOneServed ==
  ASSUME RecordsInv, NEW ok \in BOOLEAN, SaveOne(ok), PassedOver
  PROVE  Served
<1>1. CASE saving.requested
  <2>1. SaveSettings(ok)
    BY <1>1 DEF SaveOne
  <2> QED
    BY <1>1, <2>1, SettingsServed
<1>2. CASE ~saving.requested /\ TimezoneDue
  <2>1. SaveTimezone(ok)
    BY <1>2 DEF SaveOne
  <2> QED
    BY <1>2, <2>1, TimezoneServed
<1>3. CASE ~saving.requested /\ ~TimezoneDue /\ RtcDue
  <2>1. SaveRtc(ok)
    BY <1>3 DEF SaveOne
  <2> QED
    BY <1>3, <2>1, RtcServed
<1>4. CASE ~saving.requested /\ ~TimezoneDue /\ ~RtcDue
  <2>1. waited' = 0
    BY <1>4 DEF PassedOver
  <2>2. IF OscillatorDue(saving.oscRequested) THEN SaveOscillator(ok)
        ELSE saving' = [saving EXCEPT !.oscRequested = FALSE] /\ UNCHANGED records
    BY <1>4 DEF SaveOne
  <2>3. CASE SaveOscillator(ok)
    BY <2>1, <2>3, OscillatorServed
  <2>4. CASE saving' = [saving EXCEPT !.oscRequested = FALSE] /\ records' = records
    <3>1. saving \in Savings /\ RecordsTypes
      BY InvParts
    <3>2. saving' \in Savings /\ saving'.stored = saving.stored
          /\ (saving'.tzPending <=> saving.tzPending) /\ saving'.rtcRetryAt = saving.rtcRetryAt
      BY <2>4, <3>1 DEF Savings
    <3>3. \A t, d : Held(t, d)' = Held(t, d)
      BY <2>4 DEF Held
    <3>4. /\ records' = [t \in RecordTypes |-> records'[t]]
          /\ HoldsOf("SETTINGS", BodyValues)' /\ HoldsOf("TIMEZONE", Nat)'
          /\ HoldsOf("OSCILLATOR", Int)' /\ HoldsOf("RTC", Nat \X Nat)'
      BY <2>4, <3>1 DEF HoldsOf, RecordsTypes
    <3> QED
      BY <2>1, <3>1, <3>2, <3>3, <3>4, InvParts DEF Served, Savings
  <2> QED
    BY <2>2, <2>3, <2>4
<1> QED
  BY <1>1, <1>2, <1>3, <1>4

-----------------------------------------------------------------------------
\* What changes the values, and a restart

LEMMA RecordsInvService ==
  ASSUME RecordsInv, ServiceSettings
  PROVE  RecordsInv'
<1>1. /\ now \in [epoch : Nat, changes : Nat, starts : Nat] /\ now.epoch \in Nat
      /\ now' = [now EXCEPT !.epoch = @ + 1] /\ values' = values
  BY InvParts DEF ServiceSettings
<1>2. now' \in [epoch : Nat, changes : Nat, starts : Nat] /\ now'.epoch = now.epoch + 1
  BY <1>1
<1>3. CASE \E ok \in BOOLEAN : SaveOne(ok) /\ PassedOver
  <2>1. Served
    BY <1>3, SaveOneServed
  <2>2. saving'.tzSince \in Nat /\ saving'.rtcRetryAt \in Int
    BY <2>1 DEF Served, Savings
  <2>3. waited' > 0 => ~saving'.tzPending \/ now'.epoch - saving'.tzSince < TimezoneDelay
    BY <1>1, <1>2, <2>1, <2>2, RecordsConstants DEF Served
  <2>4. saving'.rtcRetryAt < now'.epoch
    BY <1>1, <1>2, <2>1, <2>2 DEF Served
  <2>5. RecordsTypes'
    BY <1>1, <1>2, <2>1, InvParts DEF Served, RecordsTypes
  <2> QED
    BY <1>1, <2>1, <2>3, <2>4, <2>5 DEF Served, RecordsInv
<1>4. CASE waited' = 0 /\ saving' = saving /\ records' = records
  <2>1. \A t, d : Held(t, d)' = Held(t, d)
    BY <1>4 DEF Held
  <2>2. RecordsTypes'
    BY <1>1, <1>2, <1>4, InvParts DEF RecordsTypes, HoldsOf
  <2>3. saving'.rtcRetryAt < now'.epoch
    BY <1>1, <1>2, <1>4, InvParts DEF Savings
  <2> QED
    BY <1>1, <1>4, <2>1, <2>2, <2>3, InvParts DEF RecordsInv
<1> QED
  BY <1>3, <1>4 DEF ServiceSettings

\* Values that change, or what is pending of them, and not the records.
LEMMA RecordsInvKept ==
  ASSUME RecordsInv, records' = records, waited' = waited,
         now' \in [epoch : Nat, changes : Nat, starts : Nat], now'.epoch = now.epoch,
         values' \in Values, saving' \in Savings, saving'.stored = saving.stored,
         saving'.rtcRetryAt = saving.rtcRetryAt,
         \/ values'.schedule = values.schedule /\ (saving'.tzPending <=> saving.tzPending)
            /\ saving'.tzSince = saving.tzSince
         \/ saving'.tzPending /\ saving'.tzSince = now.epoch
  PROVE  RecordsInv'
<1>1. \A t, d : Held(t, d)' = Held(t, d)
  BY DEF Held
<1>2. RecordsTypes'
  BY InvParts DEF RecordsTypes, HoldsOf
<1>3. now.epoch \in Nat
  BY InvParts
<1>4. waited' > 0 => ~saving'.tzPending \/ now'.epoch - saving'.tzSince < TimezoneDelay
  BY <1>3, InvParts, RecordsConstants
<1> QED
  BY <1>1, <1>2, <1>4, InvParts DEF RecordsInv

LEMMA ChangesStep ==
  ASSUME RecordsInv, NEW new, Changes(new)
  PROVE  /\ now' \in [epoch : Nat, changes : Nat, starts : Nat] /\ now'.epoch = now.epoch
         /\ values' = new /\ records' = records /\ waited' = waited
BY InvParts DEF Changes

LEMMA RecordsInvChange ==
  ASSUME RecordsInv,
         ChangesBody \/ AsksToSave \/ ChangesSchedule \/ MeasuresRtc \/ LearnsFrequency
  PROVE  RecordsInv'
<1>1. values \in Values /\ saving \in Savings /\ now.epoch \in Nat
      /\ now \in [epoch : Nat, changes : Nat, starts : Nat]
  BY InvParts
<1>2. CASE ChangesBody
  <2>1. PICK body \in BodyValues : Changes([values EXCEPT !.body = body]) /\ saving' = saving
    BY <1>2 DEF ChangesBody
  <2>2. values' \in Values /\ values'.schedule = values.schedule
    BY <1>1, <2>1, ChangesStep DEF Values
  <2> QED
    BY <1>1, <2>1, <2>2, ChangesStep, RecordsInvKept
<1>3. CASE AsksToSave
  <2>1. saving' = [saving EXCEPT !.requested = TRUE, !.oscRequested = TRUE]
        /\ now' = now /\ values' = values /\ records' = records /\ waited' = waited
    BY <1>3 DEF AsksToSave
  <2>2. saving' \in Savings /\ saving'.stored = saving.stored
        /\ (saving'.tzPending <=> saving.tzPending) /\ saving'.tzSince = saving.tzSince
        /\ saving'.rtcRetryAt = saving.rtcRetryAt
    BY <1>1, <2>1 DEF Savings
  <2> QED
    BY <1>1, <2>1, <2>2, RecordsInvKept
<1>4. CASE ChangesSchedule
  <2>1. Changes([values EXCEPT !.schedule = @ + 1])
        /\ saving' = [saving EXCEPT !.tzPending = TRUE, !.tzSince = now.epoch]
    BY <1>4 DEF ChangesSchedule
  <2>2. values' \in Values
    BY <1>1, <2>1, ChangesStep DEF Values
  <2>3. saving' \in Savings /\ saving'.stored = saving.stored /\ saving'.tzPending
        /\ saving'.tzSince = now.epoch /\ saving'.rtcRetryAt = saving.rtcRetryAt
    BY <1>1, <2>1 DEF Savings
  <2> QED
    BY <1>1, <2>1, <2>2, <2>3, ChangesStep, RecordsInvKept
<1>5. CASE MeasuresRtc
  <2>1. PICK set \in {0, 1} : Changes([values EXCEPT !.measured = @ + 1, !.set = @ + set])
                              /\ saving' = saving
    BY <1>5 DEF MeasuresRtc
  <2> DEFINE found == [values EXCEPT !.measured = @ + 1]
  <2>2. found \in Values /\ found.schedule = values.schedule /\ found.set \in Nat /\ set \in Nat
        /\ found.set = values.set
    BY <1>1 DEF Values
  <2>3. values' = [found EXCEPT !.set = found.set + set]
    BY <1>1, <2>1, <2>2, ChangesStep DEF Values
  <2> HIDE DEF found
  <2>4. values' \in Values /\ values'.schedule = values.schedule
    BY <2>2, <2>3 DEF Values
  <2> QED
    BY <1>1, <2>1, <2>4, ChangesStep, RecordsInvKept
<1>6. CASE LearnsFrequency
  <2>1. PICK estimate \in Estimates :
          Changes([values EXCEPT !.learnt = TRUE, !.estimate = estimate]) /\ saving' = saving
    BY <1>6 DEF LearnsFrequency
  <2>2. values' = [values EXCEPT !.learnt = TRUE, !.estimate = estimate] /\ estimate \in Int
    BY <2>1, ChangesStep, RecordsConstants
  <2>3. values' \in Values /\ values'.schedule = values.schedule
    BY <1>1, <2>2 DEF Values
  <2> QED
    BY <1>1, <2>1, <2>3, ChangesStep, RecordsInvKept
<1> QED
  BY <1>2, <1>3, <1>4, <1>5, <1>6

LEMMA RestoredTypes ==
  ASSUME RecordsTypes
  PROVE  Restored \in Values /\ Restored.body = Held("SETTINGS", DefaultBody)
         /\ Restored.schedule = Held("TIMEZONE", 0)
<1>1. Held("SETTINGS", DefaultBody) \in BodyValues /\ Held("TIMEZONE", 0) \in Nat
      /\ Held("RTC", <<0, 0>>) \in Nat \X Nat
  <2>1. <<0, 0>> \in Nat \X Nat
    OBVIOUS
  <2> QED
    BY <2>1, HeldTypes, RecordsConstants DEF RecordsTypes
<1> DEFINE estimate == IF HasOscillator THEN records["OSCILLATOR"][1] ELSE 0
<1>2. estimate \in Int
  BY DEF HasOscillator, RecordsTypes, HoldsOf
<1>3. Held("RTC", <<0, 0>>)[1] \in Nat /\ Held("RTC", <<0, 0>>)[2] \in Nat
  BY <1>1
<1> HIDE DEF estimate
<1>4. Restored = [body |-> Held("SETTINGS", DefaultBody), schedule |-> Held("TIMEZONE", 0),
                  learnt |-> FALSE, estimate |-> estimate,
                  measured |-> Held("RTC", <<0, 0>>)[1], set |-> Held("RTC", <<0, 0>>)[2]]
  BY DEF Restored, estimate
<1> QED
  BY <1>1, <1>2, <1>3, <1>4 DEF Values

LEMMA FreshSaving ==
  ASSUME NEW v \in Values
  PROVE  Fresh(v) \in Savings /\ Fresh(v).stored = v.body /\ Fresh(v).rtcRetryAt = -1
<1>1. HasOscillator \in BOOLEAN /\ (records["SETTINGS"] # <<>>) \in BOOLEAN
  BY DEF HasOscillator
<1> QED
  BY <1>1 DEF Fresh, Values, Savings

LEMMA RecordsInvRestart ==
  ASSUME RecordsInv, Restart
  PROVE  RecordsInv'
<1>1. /\ values' = Restored /\ saving' = Fresh(Restored) /\ waited' = 0 /\ records' = records
      /\ now' = [now EXCEPT !.starts = @ + 1, !.epoch = 0]
  BY DEF Restart
<1>2. RecordsTypes /\ now \in [epoch : Nat, changes : Nat, starts : Nat]
  BY InvParts
<1> DEFINE begun == [now EXCEPT !.starts = @ + 1]
<1>3. begun \in [epoch : Nat, changes : Nat, starts : Nat]
  BY <1>2
<1>4. now' = [begun EXCEPT !.epoch = 0]
  BY <1>1, <1>2
<1> HIDE DEF begun
<1>5. now' \in [epoch : Nat, changes : Nat, starts : Nat] /\ now'.epoch = 0
  BY <1>3, <1>4
<1>6. \A t, d : Held(t, d)' = Held(t, d)
  BY <1>1 DEF Held
<1>7. /\ values' \in Values /\ saving' \in Savings
      /\ saving'.stored = Held("SETTINGS", DefaultBody)'
      /\ values'.schedule = Held("TIMEZONE", 0)' /\ saving'.rtcRetryAt = -1
  BY <1>1, <1>2, <1>6, RestoredTypes, FreshSaving
<1>8. RecordsTypes'
  BY <1>1, <1>2, <1>5, <1>7 DEF RecordsTypes, HoldsOf
<1> QED
  BY <1>1, <1>5, <1>7, <1>8 DEF RecordsInv

LEMMA RecordsInvInit == RecordsInit => RecordsInv
<1> SUFFICES ASSUME RecordsInit
             PROVE  RecordsInv
  OBVIOUS
<1>1. /\ now = [epoch |-> 0, changes |-> 0, starts |-> 0]
      /\ records = [t \in RecordTypes |-> <<>>]
      /\ values = [body |-> DefaultBody, schedule |-> 0, learnt |-> FALSE, estimate |-> 0,
                   measured |-> 0, set |-> 0]
      /\ saving = Fresh(values) /\ waited = 0
  BY DEF RecordsInit
<1>2. values \in Values
  BY <1>1, RecordsConstants DEF Values
<1>3. \A t \in RecordTypes : records[t] = <<>>
  BY <1>1
<1>4. "SETTINGS" \in RecordTypes /\ "TIMEZONE" \in RecordTypes /\ "OSCILLATOR" \in RecordTypes
      /\ "RTC" \in RecordTypes
  BY DEF RecordTypes
<1>5. Held("SETTINGS", DefaultBody) = DefaultBody /\ Held("TIMEZONE", 0) = 0
  BY <1>3, <1>4, HeldFacts
<1>6. saving \in Savings /\ saving.stored = DefaultBody /\ saving.rtcRetryAt = -1
  BY <1>1, <1>2, FreshSaving
<1>7. RecordsTypes
  BY <1>1, <1>2, <1>3, <1>4, <1>6 DEF RecordsTypes, HoldsOf
<1> QED
  BY <1>1, <1>5, <1>6, <1>7 DEF RecordsInv

LEMMA RecordsInvNext == RecordsInv /\ [RecordsNext]_recordVars => RecordsInv'
<1> SUFFICES ASSUME RecordsInv, [RecordsNext]_recordVars
             PROVE  RecordsInv'
  OBVIOUS
<1>1. CASE UNCHANGED recordVars
  BY <1>1 DEF recordVars, RecordsInv, RecordsTypes, HoldsOf, Held
<1> QED
  BY <1>1, RecordsInvService, RecordsInvChange, RecordsInvRestart DEF RecordsNext

\* RecordsSound: settings not shown as unsaved and the schedule in force are what a reset
\* brings back, or will be, and the RTC's record is not passed over twice running; whatever
\* writes fail and whenever it is reset (settings.c).
THEOREM RecordsAreSound == RecordsSpec => []RecordsSound
<1>1. RecordsInv => RecordsSound
  <2> SUFFICES ASSUME RecordsInv
               PROVE  RecordsSound
    OBVIOUS
  <2>1. Restored.body = Held("SETTINGS", DefaultBody) /\ Restored.schedule = Held("TIMEZONE", 0)
    BY InvParts, RestoredTypes
  <2>2. waited \in {0, 1}
    BY InvParts
  <2> QED
    BY <2>1, <2>2, InvParts
    DEF RecordsSound, SavedIsRestored, ScheduleIsKept, RtcGetsItsTurn, Dirty
<1> QED
  BY <1>1, RecordsInvInit, RecordsInvNext, PTL DEF RecordsSpec

-----------------------------------------------------------------------------
\* The alarm

Buzzers == [playing : Priorities, count : Nat, done : Nat, step : {"OFF", "ON", "GAP", "PAUSE"},
            beeps : Nat]
Alarms ==
  [enabled : BOOLEAN, time : AlarmTimes, switch : BOOLEAN, sounding : BOOLEAN, epochs : Nat,
   haveLast : BOOLEAN, last : Nat, fired : BOOLEAN, firedDay : Int]

AlarmTypes ==
  /\ utc \in [seconds : 0 .. LastUtc, offset : ZoneOffsets]
  /\ alarm \in Alarms /\ buzzer \in Buzzers
  /\ sounded \in [Days -> Nat] /\ armed \in Nat

\* A pattern that ends has sounded as many beeps as its steps say; the alarm's is one
\* beep over and over.
BuzzerInv(b) ==
  /\ b.playing = "NONE" => b.beeps = 0
  /\ b.playing # "NONE" => b.done < b.count
  /\ b.playing = "ALARM" => b.beeps = 1
  /\ b.playing \in {"BUTTON", "CHIME"} => b.beeps = b.done + (IF b.step = "ON" THEN 1 ELSE 0)

\* The last day it went off is the latest, and its moment is not further ahead than the
\* zone may go back.
FiredInv ==
  /\ alarm.haveLast => alarm.last = utc.seconds + utc.offset
  /\ \A d \in Days : sounded[d] <= 1 /\ (sounded[d] = 1 => alarm.fired /\ d <= alarm.firedDay)
  /\ alarm.fired =>
       /\ alarm.firedDay \in Days /\ sounded[alarm.firedDay] = 1
       /\ \E offset \in ZoneOffsets : Moment(alarm.firedDay) <= utc.seconds + offset

AlarmInv ==
  AlarmTypes /\ BuzzerInv(buzzer) /\ FiredInv /\ OnceADay /\ AlarmIsHeard

-----------------------------------------------------------------------------
\* Days and moments

Start(day) == day * DaySeconds

LEMMA DayTypes ==
  /\ DaySeconds \in Nat /\ DaySeconds > 0 /\ CatchUp \in Nat /\ CatchUp < DaySeconds
  /\ LastUtc \in Nat /\ SoundSeconds \in Nat /\ ChimeEvery \in Nat /\ ChimeEvery > 0
  /\ \A time \in AlarmTimes : time \in Nat /\ time < DaySeconds
  /\ \A a \in ZoneOffsets : a \in Nat /\ a <= DaySeconds
  /\ \A a, b \in ZoneOffsets : a - b < DaySeconds
  /\ LargestChange \in Nat
BY AlarmAssumption

LEMMA StartNext ==
  ASSUME NEW d \in Int
  PROVE  Start(d) \in Int /\ Start(d + 1) = Start(d) + DaySeconds
         /\ Start(d - 1) = Start(d) - DaySeconds
BY DayTypes DEF Start

LEMMA StartGrows ==
  ASSUME NEW d \in Int, NEW e \in Int, d < e
  PROVE  Start(d) + DaySeconds <= Start(e)
<1>1. (e - d - 1) * DaySeconds >= 0
  BY DayTypes
<1>2. e * DaySeconds = d * DaySeconds + DaySeconds + (e - d - 1) * DaySeconds
  BY DayTypes
<1> QED
  BY <1>1, <1>2, DayTypes DEF Start

LEMMA DayFacts ==
  ASSUME NEW n \in Int
  PROVE  /\ DayOf(n) \in Int
         /\ Start(DayOf(n)) <= n /\ n < Start(DayOf(n)) + DaySeconds
BY DayTypes DEF DayOf, Start

LEMMA DayUnique ==
  ASSUME NEW n \in Int, NEW d \in Int, Start(d) <= n, n < Start(d) + DaySeconds
  PROVE  DayOf(n) = d
<1> DEFINE e == DayOf(n)
<1>1. e \in Int /\ Start(e) <= n /\ n < Start(e) + DaySeconds
  BY DayFacts
<1> HIDE DEF e
<1>2. Start(d) \in Int /\ Start(e) \in Int
  BY <1>1, StartNext
<1>3. ~(d < e)
  BY <1>1, <1>2, StartGrows, DayTypes
<1>4. ~(e < d)
  BY <1>1, <1>2, StartGrows, DayTypes
<1> QED
  BY <1>1, <1>3, <1>4 DEF e

LEMMA DaysFacts ==
  ASSUME NEW d \in Int, d >= 0, Start(d) <= LastUtc + DaySeconds
  PROVE  d \in Days
<1> DEFINE last == DayOf(LastUtc + DaySeconds)
<1>1. last \in Int /\ LastUtc + DaySeconds < Start(last) + DaySeconds
  BY DayFacts, DayTypes
<1>2. Days = 0 .. last
  BY DEF Days, DayOf
<1> HIDE DEF last
<1>3. ~(last < d)
  BY <1>1, StartGrows, StartNext, DayTypes
<1> QED
  BY <1>1, <1>2, <1>3

LEMMA DaysAreInt == \A d \in Days : d \in Int /\ d >= 0
BY DayFacts, DayTypes DEF Days, DayOf

LEMMA MomentFacts ==
  ASSUME alarm.time \in AlarmTimes, NEW d \in Int
  PROVE  /\ Moment(d) \in Int /\ Start(d) <= Moment(d) /\ Moment(d) < Start(d) + DaySeconds
         /\ Moment(d) = Start(d) + alarm.time
         /\ \A e \in Int : d < e => Moment(d) + DaySeconds <= Moment(e)
<1>1. alarm.time \in Nat /\ alarm.time < DaySeconds
  BY DayTypes
<1>2. \A e \in Int : Moment(e) = Start(e) + alarm.time /\ Start(e) \in Int
  BY StartNext DEF Moment, Start
<1>3. ASSUME NEW e \in Int, d < e
      PROVE  Moment(d) + DaySeconds <= Moment(e)
  <2>1. Start(d) + DaySeconds <= Start(e)
    BY <1>3, StartGrows
  <2> QED
    BY <1>1, <1>2, <2>1, DayTypes
<1> QED
  BY <1>1, <1>2, <1>3, DayTypes

\* The latest moment at a second is that of a day, less than a day before.
LatestDay(local) == DayOf(LatestMoment(local))

LEMMA LatestFacts ==
  ASSUME alarm.time \in AlarmTimes, NEW local \in Int
  PROVE  /\ LatestDay(local) \in Int /\ LatestMoment(local) = Moment(LatestDay(local))
         /\ Moment(LatestDay(local)) <= local /\ local < Moment(LatestDay(local)) + DaySeconds
<1> DEFINE q == DayOf(local)
<1>1. q \in Int /\ Start(q) <= local /\ local < Start(q) + DaySeconds
  BY DayFacts
<1>2. LatestMoment(local) = IF Moment(q) <= local THEN Moment(q) ELSE Moment(q - 1)
  BY DEF LatestMoment
<1> HIDE DEF q
<1>3. \A d \in Int : /\ Moment(d) \in Int /\ Start(d) <= Moment(d)
                     /\ Moment(d) < Start(d) + DaySeconds /\ DayOf(Moment(d)) = d
  BY MomentFacts, DayUnique
<1>4. CASE Moment(q) <= local
  <2>1. LatestMoment(local) = Moment(q) /\ LatestDay(local) = q
    BY <1>1, <1>2, <1>3, <1>4 DEF LatestDay
  <2>2. Start(q) \in Int /\ Moment(q) \in Int /\ Start(q) <= Moment(q)
    BY <1>1, <1>3, StartNext
  <2> QED
    BY <1>1, <1>4, <2>1, <2>2, DayTypes
<1>5. CASE ~(Moment(q) <= local)
  <2>1. q - 1 \in Int /\ Start(q - 1) = Start(q) - DaySeconds /\ Start(q) \in Int
    BY <1>1, StartNext
  <2>2. Moment(q) = Moment(q - 1) + DaySeconds
    BY <1>1, <2>1, MomentFacts, DayTypes
  <2> QED
    BY <1>1, <1>2, <1>3, <1>5, <2>1, <2>2, DayTypes DEF LatestDay
<1> QED
  BY <1>4, <1>5

-----------------------------------------------------------------------------
\* The buzzer

Sounds(b) == b \in Buzzers /\ BuzzerInv(b)

LEMMA SilentSounds == Sounds(Silent) /\ Silent.playing = "NONE"
BY DEF Silent, Sounds, Buzzers, BuzzerInv, Priorities

LEMMA PlaySounds ==
  ASSUME NEW b, Sounds(b), NEW count \in Nat, NEW priority \in {"BUTTON", "CHIME", "ALARM"}
  PROVE  /\ Sounds(Play(b, count, priority))
         /\ Play(b, count, priority).playing = "ALARM" <=>
              b.playing = "ALARM" \/ (priority = "ALARM" /\ count # 0)
<1>1. b \in Buzzers /\ BuzzerInv(b) /\ b.playing \in Priorities
  BY DEF Sounds, Buzzers
<1>2. CASE count = 0 \/ Outranks(b.playing, priority)
  BY <1>1, <1>2 DEF Play, Outranks, Sounds
<1>3. CASE ~(count = 0 \/ Outranks(b.playing, priority))
  <2>1. Play(b, count, priority) =
          [playing |-> priority, count |-> count, done |-> 0, step |-> "ON", beeps |-> 1]
    BY <1>3 DEF Play
  <2>2. Sounds(Play(b, count, priority))
    BY <1>3, <2>1 DEF Sounds, Buzzers, BuzzerInv, Priorities
  <2> QED
    BY <1>1, <1>3, <2>1, <2>2 DEF Outranks, Priorities
<1> QED
  BY <1>2, <1>3

LEMMA StopSounds ==
  ASSUME NEW b, Sounds(b)
  PROVE  Sounds(StopPlaying(b, "ALARM")) /\ StopPlaying(b, "ALARM").playing # "ALARM"
BY SilentSounds DEF StopPlaying, Outranks, Sounds, Buzzers, Priorities

LEMMA AdvancedSounds ==
  ASSUME NEW b, Sounds(b), b.playing # "NONE"
  PROVE  /\ Sounds(Advanced(b)) /\ (Advanced(b).playing = "ALARM" <=> b.playing = "ALARM")
<1>1. b \in Buzzers /\ BuzzerInv(b) /\ b.playing \in Priorities \ {"NONE"} /\ b.done < b.count
      /\ b.done \in Nat /\ b.count \in Nat /\ b.beeps \in Nat
  BY DEF Sounds, Buzzers, BuzzerInv
<1>2. CASE b.step # "ON"
  <2> DEFINE beeps == IF b.playing = "ALARM" THEN 1 ELSE b.beeps + 1
  <2>1. Advanced(b) = [b EXCEPT !.step = "ON", !.beeps = beeps]
    BY <1>1, <1>2 DEF Advanced, Buzzers
  <2>2. beeps \in Nat /\ (b.playing \in {"BUTTON", "CHIME"} => beeps = b.done + 1)
        /\ (b.playing = "ALARM" => beeps = 1)
    BY <1>1, <1>2 DEF BuzzerInv
  <2> HIDE DEF beeps
  <2>3. /\ Advanced(b) \in Buzzers /\ Advanced(b).playing = b.playing
        /\ Advanced(b).count = b.count /\ Advanced(b).done = b.done /\ Advanced(b).step = "ON"
        /\ Advanced(b).beeps = beeps
    BY <1>1, <2>1, <2>2 DEF Buzzers
  <2> QED
    BY <1>1, <2>2, <2>3 DEF Sounds, BuzzerInv
<1>3. CASE b.step = "ON"
  <2>1. CASE b.done + 1 >= b.count /\ b.playing = "ALARM"
    <3>1. Advanced(b) = [b EXCEPT !.done = 0, !.step = "PAUSE"]
      BY <1>3, <2>1 DEF Advanced
    <3> DEFINE c == [b EXCEPT !.done = 0]
    <3>2. Advanced(b) = [c EXCEPT !.step = "PAUSE"]
      BY <1>1, <3>1 DEF Buzzers
    <3>3. c \in Buzzers /\ c.playing = b.playing /\ c.count = b.count /\ c.done = 0
          /\ c.beeps = b.beeps
      BY <1>1 DEF Buzzers
    <3> HIDE DEF c
    <3>4. /\ Advanced(b) \in Buzzers /\ Advanced(b).playing = b.playing
          /\ Advanced(b).count = b.count /\ Advanced(b).done = 0
          /\ Advanced(b).step = "PAUSE" /\ Advanced(b).beeps = b.beeps
      BY <3>2, <3>3 DEF Buzzers
    <3> QED
      BY <1>1, <2>1, <3>4 DEF Sounds, BuzzerInv
  <2>2. CASE b.done + 1 >= b.count /\ b.playing # "ALARM"
    <3>1. Advanced(b) = Silent
      BY <1>3, <2>2 DEF Advanced
    <3> QED
      BY <2>2, <3>1, SilentSounds
  <2>3. CASE ~(b.done + 1 >= b.count)
    <3> DEFINE step == IF Group # 0 /\ (b.done + 1) % Group = 0 THEN "PAUSE" ELSE "GAP"
    <3>1. Advanced(b) = [b EXCEPT !.done = b.done + 1, !.step = step]
      BY <1>3, <2>3 DEF Advanced
    <3>2. step \in {"PAUSE", "GAP"}
      OBVIOUS
    <3> HIDE DEF step
    <3> DEFINE more == b.done + 1
    <3>3. more \in Nat
      BY <1>1
    <3> DEFINE c == [b EXCEPT !.done = more]
    <3>4. Advanced(b) = [c EXCEPT !.step = step]
      BY <1>1, <3>1 DEF Buzzers
    <3> HIDE DEF more
    <3>5. c \in Buzzers /\ c.playing = b.playing /\ c.count = b.count /\ c.done = more
          /\ c.beeps = b.beeps
      BY <1>1, <3>3 DEF Buzzers
    <3> HIDE DEF c
    <3>6. /\ Advanced(b) \in Buzzers /\ Advanced(b).playing = c.playing
          /\ Advanced(b).count = c.count /\ Advanced(b).done = c.done
          /\ Advanced(b).step = step /\ Advanced(b).beeps = c.beeps
      BY <3>2, <3>4, <3>5 DEF Buzzers
    <3>7. /\ Advanced(b) \in Buzzers /\ Advanced(b).playing = b.playing
          /\ Advanced(b).count = b.count /\ Advanced(b).done = b.done + 1
          /\ Advanced(b).step = step /\ Advanced(b).beeps = b.beeps
      BY <3>5, <3>6 DEF more
    <3> QED
      BY <1>1, <1>3, <2>3, <3>2, <3>7 DEF Sounds, BuzzerInv
  <2> QED
    BY <2>1, <2>2, <2>3
<1> QED
  BY <1>2, <1>3

LEMMA CountKept ==
  ASSUME Sounds(buzzer)
  PROVE  ChimeKeepsCount
BY DEF Sounds, Buzzers, Priorities, BuzzerInv, ChimeKeepsCount

LEMMA ChimeCountType ==
  ASSUME NEW local \in Nat
  PROVE  ChimeCount(local) \in Nat
BY DEF ChimeCount

-----------------------------------------------------------------------------
\* An epoch, in its parts

Late  == alarm.sounding /\ alarm.epochs + 1 >= SoundSeconds
Going == IF Late THEN Stopped(alarm)
         ELSE [alarm EXCEPT !.epochs = IF alarm.sounding THEN @ + 1 ELSE @]
Hushed == IF Late THEN Quiet(alarm, buzzer) ELSE buzzer
LocalAt(offset) == utc.seconds + 1 + offset
GoesOff(local, known) ==
  known /\ alarm.enabled /\ alarm.switch /\ ~Going.sounding /\ Reached(local)
Played(local, known) == IF GoesOff(local, known) THEN Play(Hushed, 4, "ALARM") ELSE Hushed

EpochAt(offset, known, chimes) ==
  LET local   == LocalAt(offset)
      goesOff == GoesOff(local, known)
      played  == Played(local, known)
      shifts  == (IF offset # utc.offset THEN 1 ELSE 0) + (IF known THEN 0 ELSE 1)
  IN  /\ shifts <= budget.shifts
      /\ budget' = [budget EXCEPT !.shifts = @ - shifts]
      /\ utc' = [seconds |-> utc.seconds + 1, offset |-> offset]
      /\ alarm' = IF ~known THEN [Going EXCEPT !.haveLast = FALSE]
                  ELSE [Going EXCEPT !.last = local, !.haveLast = TRUE,
                          !.sounding = @ \/ (goesOff /\ played.playing = "ALARM"),
                          !.fired = @ \/ goesOff,
                          !.firedDay = IF goesOff THEN LatestDay(local) ELSE @]
      /\ buzzer' = IF chimes /\ known THEN Play(played, ChimeCount(local), "CHIME") ELSE played
      /\ sounded' = IF goesOff THEN [sounded EXCEPT ![LatestDay(local)] = @ + 1] ELSE sounded
      /\ armed' = IF known /\ KeptArmed(Going, offset - utc.offset) /\ armed # NotArmed
                  THEN IF local < armed THEN local ELSE armed
                  ELSE IF known THEN local ELSE NotArmed

LEMMA EpochParts ==
  ASSUME Epoch
  PROVE  /\ utc.seconds < LastUtc
         /\ \E offset \in ZoneOffsets, known, chimes \in BOOLEAN : EpochAt(offset, known, chimes)
BY Zenon DEF Epoch, EpochAt, Late, Going, Hushed, LocalAt, GoesOff, Played, LatestDay

LEMMA GoingFields ==
  ASSUME AlarmTypes
  PROVE  /\ Going \in Alarms /\ (Going.enabled <=> alarm.enabled)
         /\ (Going.switch <=> alarm.switch) /\ Going.time = alarm.time
         /\ (Going.haveLast <=> alarm.haveLast) /\ Going.last = alarm.last
         /\ (Going.fired <=> alarm.fired) /\ Going.firedDay = alarm.firedDay
         /\ Going.sounding <=> alarm.sounding /\ ~Late
<1>1. alarm \in Alarms
  BY DEF AlarmTypes
<1>2. CASE Late
  <2>1. Going = [alarm EXCEPT !.sounding = FALSE, !.epochs = 0]
    BY <1>2 DEF Going, Stopped
  <2> QED
    BY <1>1, <1>2, <2>1 DEF Alarms
<1>3. CASE ~Late
  <2> DEFINE epochs == IF alarm.sounding THEN alarm.epochs + 1 ELSE alarm.epochs
  <2>1. Going = [alarm EXCEPT !.epochs = epochs]
    BY <1>3 DEF Going
  <2>2. epochs \in Nat
    BY <1>1 DEF Alarms
  <2> HIDE DEF epochs
  <2> QED
    BY <1>1, <1>3, <2>1, <2>2 DEF Alarms
<1> QED
  BY <1>2, <1>3

LEMMA AlarmAfter ==
  ASSUME AlarmTypes, NEW offset \in ZoneOffsets, NEW known \in BOOLEAN, NEW chimes \in BOOLEAN,
         EpochAt(offset, known, chimes)
  PROVE  LET local   == LocalAt(offset)
             goesOff == GoesOff(local, known)
         IN  /\ local \in Nat /\ alarm' \in Alarms /\ alarm'.time = alarm.time
             /\ (alarm'.haveLast <=> known) /\ (known => alarm'.last = local)
             /\ (alarm'.fired <=> alarm.fired \/ goesOff)
             /\ alarm'.firedDay = IF goesOff THEN LatestDay(local) ELSE alarm.firedDay
             /\ alarm'.sounding <=>
                  \/ alarm.sounding /\ ~Late
                  \/ goesOff /\ Played(local, known).playing = "ALARM"
<1> DEFINE local   == LocalAt(offset)
           goesOff == GoesOff(local, known)
           heard   == Played(local, known).playing = "ALARM"
           sounding == Going.sounding \/ (goesOff /\ heard)
           fired   == Going.fired \/ goesOff
           day     == IF goesOff THEN LatestDay(local) ELSE Going.firedDay
<1>1. local \in Nat
  BY DayTypes DEF AlarmTypes, LocalAt
<1>2. alarm.time \in AlarmTimes /\ Going \in Alarms
  BY GoingFields DEF AlarmTypes, Alarms
<1>3. LatestDay(local) \in Int
  BY <1>1, <1>2, LatestFacts
<1>4. sounding \in BOOLEAN /\ fired \in BOOLEAN /\ day \in Int
  BY <1>2, <1>3 DEF Alarms
<1>5. ~known => ~goesOff
  BY DEF GoesOff
<1>6. CASE ~known
  <2>1. alarm' = [Going EXCEPT !.haveLast = FALSE]
    BY <1>6 DEF EpochAt
  <2>2. /\ alarm' \in Alarms /\ alarm'.time = Going.time /\ (alarm'.haveLast <=> FALSE)
        /\ (alarm'.sounding <=> Going.sounding) /\ (alarm'.fired <=> Going.fired)
        /\ alarm'.firedDay = Going.firedDay
    BY <1>2, <2>1 DEF Alarms
  <2>3. ~goesOff /\ local \in Nat
    BY <1>1, <1>5, <1>6
  <2>4. /\ alarm' \in Alarms /\ alarm'.time = alarm.time /\ (alarm'.haveLast <=> FALSE)
        /\ (alarm'.sounding <=> alarm.sounding /\ ~Late) /\ (alarm'.fired <=> alarm.fired)
        /\ alarm'.firedDay = alarm.firedDay
    BY <2>2, GoingFields
  <2> QED
    BY <1>6, <2>3, <2>4
<1>7. CASE known
  <2> DEFINE on == [Going EXCEPT !.last = local, !.haveLast = TRUE]
             up == [on EXCEPT !.sounding = sounding]
             hot == [up EXCEPT !.fired = fired]
  <2>1. alarm' = [hot EXCEPT !.firedDay = day]
    BY <1>2, <1>7 DEF EpochAt, Alarms
  <2> HIDE DEF sounding, fired, day, local
  <2>2. on \in Alarms /\ on.time = Going.time /\ on.haveLast /\ on.last = local
    BY <1>1, <1>2 DEF Alarms
  <2> HIDE DEF on
  <2>3. up \in Alarms /\ up.time = Going.time /\ up.haveLast /\ up.last = local
        /\ (up.sounding <=> sounding)
    BY <1>4, <2>2 DEF Alarms
  <2> HIDE DEF up
  <2>4. hot \in Alarms /\ hot.time = Going.time /\ hot.haveLast /\ hot.last = local
        /\ (hot.sounding <=> sounding) /\ (hot.fired <=> fired)
    BY <1>4, <2>3 DEF Alarms
  <2> HIDE DEF hot
  <2>5. alarm' \in Alarms /\ alarm'.time = Going.time /\ alarm'.haveLast /\ alarm'.last = local
        /\ (alarm'.sounding <=> sounding) /\ (alarm'.fired <=> fired) /\ alarm'.firedDay = day
    BY <1>4, <2>1, <2>4 DEF Alarms
  <2> QED
    BY <1>1, <1>7, <2>5, GoingFields DEF sounding, fired, day, local
<1> QED
  BY <1>6, <1>7

\* The day an alarm goes off on is later than any it went off on before.
LEMMA GoesOffLater ==
  ASSUME AlarmTypes, FiredInv, utc.seconds < LastUtc, NEW offset \in ZoneOffsets, NEW known,
         GoesOff(LocalAt(offset), known)
  PROVE  LET day == LatestDay(LocalAt(offset))
         IN  /\ day \in Days /\ sounded[day] = 0 /\ Moment(day) <= LocalAt(offset)
             /\ alarm.fired => alarm.firedDay < day
<1> DEFINE local == LocalAt(offset)
           day   == LatestDay(local)
           last  == alarm.last
           fd    == alarm.firedDay
<1>1. /\ alarm.time \in AlarmTimes /\ utc.seconds \in Nat /\ utc.offset \in ZoneOffsets
      /\ utc.offset \in Nat /\ offset \in Nat /\ offset <= DaySeconds /\ last \in Nat
      /\ local = utc.seconds + 1 + offset /\ local \in Nat /\ fd \in Int
  BY DayTypes DEF AlarmTypes, Alarms, LocalAt
<1>2. alarm.haveLast /\ local > last /\ local - last <= CatchUp /\ LatestMoment(local) > last
      /\ ~(alarm.fired /\ fd = day)
  BY DEF GoesOff, Reached, LatestDay
<1>3. last = utc.seconds + utc.offset
  BY <1>2 DEF FiredInv
<1>4. day \in Int /\ LatestMoment(local) = Moment(day) /\ Moment(day) <= local
  BY <1>1, LatestFacts
<1> HIDE DEF local, day, last, fd
<1>5. /\ Moment(day) \in Int /\ Start(day) <= Moment(day) /\ Start(day) \in Int
      /\ \A e \in Int : day < e => Moment(day) + DaySeconds <= Moment(e)
  BY <1>1, <1>4, MomentFacts, StartNext
<1>6. day >= 0
  <2>1. Start(0) = 0
    BY DayTypes DEF Start
  <2>2. Moment(0) \in Int /\ Moment(0) < DaySeconds
    BY <1>1, <2>1, MomentFacts, DayTypes
  <2> QED
    BY <1>1, <1>2, <1>4, <1>5, <2>2, DayTypes
<1>7. day \in Days
  BY <1>1, <1>4, <1>5, <1>6, DaysFacts, DayTypes DEF AlarmTypes
<1>8. alarm.fired => fd < day
  <2> SUFFICES ASSUME alarm.fired, day < fd PROVE FALSE
    BY <1>1, <1>2, <1>4
  <2>1. PICK o \in ZoneOffsets : Moment(fd) <= utc.seconds + o
    BY DEF FiredInv, fd
  <2>2. o - utc.offset < DaySeconds /\ o \in Nat
    BY <1>1, DayTypes
  <2>3. Moment(day) + DaySeconds <= Moment(fd) /\ Moment(fd) \in Int
    BY <1>1, <1>5, MomentFacts
  <2> QED
    BY <1>1, <1>2, <1>3, <1>4, <1>5, <2>1, <2>2, <2>3, DayTypes
<1>9. sounded[day] = 0
  <2>1. sounded[day] \in Nat /\ sounded[day] <= 1
        /\ (sounded[day] = 1 => alarm.fired /\ day <= fd)
    BY <1>7 DEF AlarmTypes, FiredInv, fd
  <2> QED
    BY <1>1, <1>4, <1>8, <2>1
<1> QED
  BY <1>4, <1>7, <1>8, <1>9 DEF local, day, fd

\* The pattern of the alarm plays on exactly while it sounds on.
LEMMA EpochIsHeard ==
  ASSUME AlarmTypes, BuzzerInv(buzzer), AlarmIsHeard, NEW offset \in ZoneOffsets,
         NEW known \in BOOLEAN, NEW chimes \in BOOLEAN, EpochAt(offset, known, chimes)
  PROVE  Sounds(buzzer') /\ AlarmIsHeard'
<1> DEFINE local   == LocalAt(offset)
           goesOff == GoesOff(local, known)
           played  == Played(local, known)
<1>1. local \in Nat /\ (alarm'.sounding <=> (alarm.sounding /\ ~Late)
                                              \/ (goesOff /\ played.playing = "ALARM"))
  BY AlarmAfter
<1>2. Sounds(buzzer) /\ (alarm.sounding <=> buzzer.playing = "ALARM")
  BY DEF Sounds, AlarmTypes, AlarmIsHeard
<1>3. Sounds(Hushed) /\ (Hushed.playing = "ALARM" <=> alarm.sounding /\ ~Late)
  <2>1. CASE Late
    BY <1>2, <2>1, StopSounds DEF Hushed, Quiet, Late
  <2>2. CASE ~Late
    BY <1>2, <2>2 DEF Hushed
  <2> QED
    BY <2>1, <2>2
<1> HIDE DEF local
<1>4. Sounds(played) /\ (played.playing = "ALARM" <=> Hushed.playing = "ALARM" \/ goesOff)
  <2>1. CASE goesOff
    <3>1. played = Play(Hushed, 4, "ALARM")
      BY <2>1 DEF Played
    <3> QED
      BY <1>3, <2>1, <3>1, PlaySounds
  <2>2. CASE ~goesOff
    <3>1. played = Hushed
      BY <2>2 DEF Played
    <3> QED
      BY <1>3, <2>2, <3>1
  <2> QED
    BY <2>1, <2>2
<1>5. buzzer' = IF chimes /\ known THEN Play(played, ChimeCount(local), "CHIME") ELSE played
  BY DEF EpochAt, local
<1> HIDE DEF goesOff, played
<1>6. Sounds(buzzer') /\ (buzzer'.playing = "ALARM" <=> played.playing = "ALARM")
  <2>1. ChimeCount(local) \in Nat
    BY <1>1, ChimeCountType
  <2>2. CASE chimes /\ known
    BY <1>4, <1>5, <2>1, <2>2, PlaySounds
  <2>3. CASE ~(chimes /\ known)
    BY <1>4, <1>5, <2>3
  <2> QED
    BY <2>2, <2>3
<1> QED
  BY <1>1, <1>3, <1>4, <1>6 DEF AlarmIsHeard

LEMMA EpochSoundsOnce ==
  ASSUME LargestChange < CatchUp, AlarmTypes, FiredInv, OnceADay, utc.seconds < LastUtc, NEW offset \in ZoneOffsets,
         NEW known \in BOOLEAN, NEW chimes \in BOOLEAN, EpochAt(offset, known, chimes), buzzer' \in Buzzers
  PROVE  AlarmTypes' /\ FiredInv' /\ OnceADay'
<1> DEFINE local   == LocalAt(offset)
           goesOff == GoesOff(local, known)
           day     == LatestDay(local)
           last    == alarm.last
           fd      == alarm.firedDay
<1>1. /\ alarm.time \in AlarmTimes /\ utc.seconds \in Nat /\ utc.offset \in ZoneOffsets
      /\ utc.offset \in Nat /\ offset \in Nat /\ offset <= DaySeconds /\ last \in Nat
      /\ local = utc.seconds + 1 + offset /\ local \in Nat /\ fd \in Int
      /\ utc' = [seconds |-> utc.seconds + 1, offset |-> offset]
      /\ NotArmed = LastUtc + DaySeconds /\ LastUtc \in Nat /\ armed \in Nat
      /\ utc.seconds + 1 \in 0 .. LastUtc
  BY DayTypes DEF AlarmTypes, Alarms, LocalAt, EpochAt, NotArmed
<1>2. /\ alarm' \in Alarms /\ alarm'.time = alarm.time
      /\ (alarm'.haveLast <=> known) /\ (known => alarm'.last = local)
      /\ (alarm'.fired <=> alarm.fired \/ goesOff)
      /\ alarm'.firedDay = IF goesOff THEN day ELSE fd
  BY AlarmAfter
<1>3. \A d \in Int : Moment(d)' = Moment(d)
  BY <1>2 DEF Moment
<1>4. goesOff => /\ day \in Days /\ sounded[day] = 0 /\ Moment(day) <= local
                 /\ alarm.fired => fd < day
  BY GoesOffLater
<1>5. /\ sounded' = IF goesOff THEN [sounded EXCEPT ![day] = @ + 1] ELSE sounded
      /\ armed' = IF known /\ KeptArmed(Going, offset - utc.offset) /\ armed # NotArmed
                  THEN IF local < armed THEN local ELSE armed
                  ELSE IF known THEN local ELSE NotArmed
  BY DEF EpochAt
<1>6. KeptArmed(Going, offset - utc.offset) =>
        alarm.enabled /\ alarm.switch /\ ~Going.sounding /\ alarm.haveLast
        /\ local - last <= CatchUp
  <2>1. alarm.haveLast => last = utc.seconds + utc.offset
    BY DEF FiredInv
  <2>2. KeptArmed(Going, offset - utc.offset) =>
          alarm.enabled /\ alarm.switch /\ ~Going.sounding /\ alarm.haveLast
          /\ offset - utc.offset <= LargestChange
    BY GoingFields DEF KeptArmed
  <2> HIDE DEF local, last
  <2> QED
    BY <1>1, <2>1, <2>2, DayTypes
<1>7. goesOff <=> known /\ alarm.enabled /\ alarm.switch /\ ~Going.sounding /\ Reached(local)
  BY DEF GoesOff
<1>8. /\ day \in Int /\ LatestMoment(local) = Moment(day) /\ Moment(day) <= local
      /\ local < Moment(day) + DaySeconds
  BY <1>1, LatestFacts
<1>9. DaySeconds \in Nat /\ DaySeconds > 0 /\ CatchUp \in Nat /\ CatchUp < DaySeconds
  BY DayTypes
<1>10. Reached(local) <=>
         /\ alarm.haveLast /\ local > last /\ local - last <= CatchUp
         /\ LatestMoment(local) > last /\ ~(alarm.fired /\ fd = day)
  BY DEF Reached, LatestDay
<1>11. utc'.seconds = utc.seconds + 1 /\ utc'.offset = offset
  BY <1>1
<1> HIDE DEF local, goesOff, day, last, fd
<1>12. sounded \in [Days -> Nat] /\ sounded' \in [Days -> Nat]
  <2>1. sounded \in [Days -> Nat]
    BY DEF AlarmTypes
  <2>2. CASE goesOff
    <3> DEFINE times == sounded[day] + 1
    <3>1. times \in Nat
      BY <1>4, <2>1, <2>2
    <3>2. sounded' = [sounded EXCEPT ![day] = times]
      BY <1>5, <2>2
    <3> HIDE DEF times
    <3> QED
      BY <2>1, <3>1, <3>2
  <2> QED
    BY <1>5, <2>1, <2>2
<1>13. AlarmTypes'
  <2>1. utc' \in [seconds : 0 .. LastUtc, offset : ZoneOffsets]
    BY <1>1
  <2>2. armed' \in Nat
    BY <1>1, <1>5, <1>9
  <2> QED
    BY <1>2, <1>12, <2>1, <2>2 DEF AlarmTypes
<1>14. ASSUME NEW d \in Days
       PROVE  /\ sounded'[d] <= 1 /\ (sounded'[d] = 1 => alarm'.fired /\ d <= alarm'.firedDay)
              /\ sounded[d] = 1 => sounded'[d] = 1
  <2>1. sounded[d] \in Nat /\ sounded[d] <= 1 /\ (sounded[d] = 1 => alarm.fired /\ d <= fd)
    BY <1>12 DEF FiredInv, fd
  <2>2. CASE ~goesOff
    BY <1>2, <1>5, <2>1, <2>2
  <2>3. CASE goesOff /\ d = day
    <3>1. sounded'[d] = 1
      BY <1>4, <1>5, <1>12, <2>3
    <3> QED
      BY <1>2, <1>8, <2>3, <3>1
  <2>4. CASE goesOff /\ d # day
    <3>1. sounded'[d] = sounded[d]
      BY <1>5, <1>12, <2>4
    <3>2. d \in Int
      BY DaysAreInt
    <3>3. alarm.fired => fd < day
      BY <1>4, <2>4
    <3> QED
      BY <1>1, <1>2, <1>8, <2>1, <2>4, <3>1, <3>2, <3>3
  <2> QED
    BY <2>2, <2>3, <2>4
<1>15. FiredInv'
  <2>1. alarm'.haveLast => alarm'.last = utc'.seconds + utc'.offset
    BY <1>1, <1>2, <1>11
  <2>2. ASSUME alarm'.fired
        PROVE  /\ alarm'.firedDay \in Days /\ sounded'[alarm'.firedDay] = 1
               /\ \E o \in ZoneOffsets : Moment(alarm'.firedDay) <= utc'.seconds + o
    <3>1. CASE goesOff
      <4>1. day \in Days /\ sounded[day] = 0 /\ Moment(day) <= local /\ alarm'.firedDay = day
        BY <1>2, <1>4, <3>1
      <4>2. sounded'[day] = 1
        BY <1>5, <1>12, <3>1, <4>1
      <4>3. local = utc'.seconds + offset
        BY <1>1, <1>11
      <4> QED
        BY <4>1, <4>2, <4>3
    <3>2. CASE ~goesOff
      <4>1. alarm.fired /\ alarm'.firedDay = fd
        BY <1>2, <2>2, <3>2
      <4>2. fd \in Days /\ sounded[fd] = 1
        BY <4>1 DEF FiredInv, fd
      <4>3. PICK o \in ZoneOffsets : Moment(fd) <= utc.seconds + o
        BY <4>1 DEF FiredInv, fd
      <4>4. o \in Nat /\ Moment(fd) \in Int
        BY <1>1, DayTypes, MomentFacts
      <4>5. Moment(fd) <= utc'.seconds + o
        BY <1>1, <1>11, <4>3, <4>4
      <4> QED
        BY <1>14, <4>1, <4>2, <4>5
    <3> QED
      BY <3>1, <3>2
  <2>3. alarm'.fired => Moment(alarm.firedDay)' = Moment(alarm'.firedDay)
    BY <2>2, <1>2 DEF Moment
  <2> QED
    BY <1>14, <2>1, <2>2, <2>3 DEF FiredInv
<1>16. ASSUME NEW d \in Days, armed' < Moment(d), alarm'.haveLast, Moment(d) <= alarm'.last
       PROVE  sounded'[d] = 1
  <2>1. known /\ alarm'.last = local /\ d \in Int /\ Moment(d) \in Int
    BY <1>1, <1>2, <1>16, DaysAreInt, MomentFacts
  <2>2. KeptArmed(Going, offset - utc.offset) /\ armed' = armed
    BY <1>1, <1>5, <1>16, <2>1
  <2>3. alarm.enabled /\ alarm.switch /\ ~Going.sounding /\ alarm.haveLast
        /\ local - last <= CatchUp
    BY <1>6, <2>2
  <2>4. CASE Moment(d) <= last
    <3>1. sounded[d] = 1
      BY <1>16, <2>2, <2>3, <2>4 DEF OnceADay, last
    <3> QED
      BY <1>14, <3>1
  <2>5. CASE last < Moment(d)
    <3>1. /\ Moment(day) \in Int
          /\ d < day => Moment(d) + DaySeconds <= Moment(day)
          /\ day < d => Moment(day) + DaySeconds <= Moment(d)
      BY <1>1, <1>8, <2>1, MomentFacts
    <3>2. d = day
      BY <1>1, <1>8, <1>9, <1>16, <2>1, <2>3, <2>5, <3>1
    <3>3. LatestMoment(local) > last /\ local > last
      BY <1>1, <1>8, <1>16, <2>1, <2>5, <3>2
    <3>4. CASE goesOff
      BY <1>4, <1>5, <1>12, <3>2, <3>4
    <3>5. CASE ~goesOff
      <4>1. alarm.fired /\ fd = day
        BY <1>7, <1>10, <2>1, <2>3, <3>3, <3>5
      <4>2. sounded[fd] = 1
        BY <4>1 DEF FiredInv, fd
      <4> QED
        BY <1>14, <3>2, <4>1, <4>2
    <3> QED
      BY <3>4, <3>5
  <2> QED
    BY <1>1, <2>1, <2>4, <2>5
<1>17. OnceADay'
  <2>1. \A d \in Days : Moment(d)' = Moment(d)
    BY <1>3, DaysAreInt
  <2> QED
    BY <1>14, <1>16, <2>1 DEF OnceADay
<1> QED
  BY <1>13, <1>15, <1>17

LEMMA EpochKeeps ==
  ASSUME LargestChange < CatchUp, AlarmInv, Epoch
  PROVE  AlarmInv'
<1>1. PICK offset \in ZoneOffsets, known \in BOOLEAN, chimes \in BOOLEAN :
        EpochAt(offset, known, chimes)
  BY EpochParts
<1>2. utc.seconds < LastUtc
  BY EpochParts
<1>3. Sounds(buzzer') /\ AlarmIsHeard'
  BY <1>1, EpochIsHeard DEF AlarmInv
<1>4. AlarmTypes' /\ FiredInv' /\ OnceADay'
  BY <1>1, <1>2, <1>3, EpochSoundsOnce DEF AlarmInv, Sounds
<1> QED
  BY <1>3, <1>4 DEF AlarmInv, Sounds

-----------------------------------------------------------------------------
\* The buttons, the setting and the interrupt

LEMMA BuzzerStepKeeps ==
  ASSUME AlarmInv, BuzzerStep
  PROVE  AlarmInv'
<1>1. buzzer' = Advanced(buzzer) /\ UNCHANGED <<utc, alarm, sounded, armed>>
      /\ buzzer.playing # "NONE"
  BY DEF BuzzerStep
<1>2. Sounds(buzzer') /\ (buzzer'.playing = "ALARM" <=> buzzer.playing = "ALARM")
  BY <1>1, AdvancedSounds DEF AlarmInv, AlarmTypes, Sounds
<1> QED
  BY <1>1, <1>2
     DEF AlarmInv, AlarmTypes, Sounds, FiredInv, OnceADay, AlarmIsHeard, Moment

LEMMA ButtonKeeps ==
  ASSUME AlarmInv, Button
  PROVE  AlarmInv'
<1>1. buzzer' = Play(buzzer, 1, "BUTTON") /\ UNCHANGED <<utc, alarm, sounded, armed>>
  BY DEF Button
<1>2. Sounds(buzzer') /\ (buzzer'.playing = "ALARM" <=> buzzer.playing = "ALARM")
  BY <1>1, PlaySounds DEF AlarmInv, AlarmTypes, Sounds
<1> QED
  BY <1>1, <1>2
     DEF AlarmInv, AlarmTypes, Sounds, FiredInv, OnceADay, AlarmIsHeard, Moment

\* What stops the alarm quietens the buzzer of it.
LEMMA QuietSounds ==
  ASSUME AlarmInv
  PROVE  Sounds(Quiet(alarm, buzzer)) /\ Quiet(alarm, buzzer).playing # "ALARM"
BY StopSounds DEF AlarmInv, AlarmTypes, Sounds, AlarmIsHeard, Quiet

\* An alarm armed again counts from the last second: no moment has passed since.
LEMMA ArmedAgain ==
  ASSUME AlarmTypes, FiredInv,
         armed' = IF alarm.haveLast THEN alarm.last ELSE NotArmed, UNCHANGED utc,
         alarm'.time \in AlarmTimes, alarm'.haveLast <=> alarm.haveLast,
         alarm'.last = alarm.last,
         \/ /\ sounded' = sounded /\ alarm'.time = alarm.time
            /\ (alarm'.fired <=> alarm.fired) /\ alarm'.firedDay = alarm.firedDay
         \/ sounded' = [d \in Days |-> 0] /\ ~alarm'.fired
  PROVE  armed' \in Nat /\ sounded' \in [Days -> Nat] /\ FiredInv' /\ OnceADay'
<1>1. alarm.last \in Nat /\ NotArmed \in Nat /\ sounded \in [Days -> Nat] /\ armed' \in Nat
  BY DayTypes DEF AlarmTypes, Alarms, NotArmed
<1>2. sounded' \in [Days -> Nat]
  BY <1>1
<1>3. FiredInv'
  <2>1. CASE /\ sounded' = sounded /\ alarm'.time = alarm.time
             /\ (alarm'.fired <=> alarm.fired) /\ alarm'.firedDay = alarm.firedDay
    BY <2>1 DEF FiredInv, Moment
  <2>2. CASE sounded' = [d \in Days |-> 0] /\ ~alarm'.fired
    BY <2>2 DEF FiredInv
  <2> QED
    BY <2>1, <2>2
<1>4. ASSUME NEW d \in Days, armed' < Moment(d)', alarm'.haveLast, Moment(d)' <= alarm'.last
      PROVE  FALSE
  <2>1. Moment(d)' \in Int
    BY DaysAreInt, DayTypes DEF Moment
  <2> QED
    BY <1>1, <1>4, <2>1
<1> QED
  BY <1>1, <1>2, <1>3, <1>4 DEF OnceADay, FiredInv

LEMMA StoppedFields ==
  ASSUME NEW a \in Alarms
  PROVE  /\ Stopped(a) \in Alarms /\ Stopped(a).time = a.time /\ ~Stopped(a).sounding
         /\ (Stopped(a).haveLast <=> a.haveLast) /\ Stopped(a).last = a.last
         /\ (Stopped(a).fired <=> a.fired) /\ Stopped(a).firedDay = a.firedDay
BY DEF Alarms, Stopped

LEMMA AlarmPressKeeps ==
  ASSUME AlarmInv, AlarmPress
  PROVE  AlarmInv'
<1>1. alarm' = Stopped(alarm) /\ buzzer' = Quiet(alarm, buzzer)
      /\ UNCHANGED <<utc, sounded, armed>>
  BY DEF AlarmPress
<1>2. alarm \in Alarms
  BY DEF AlarmInv, AlarmTypes
<1>3. /\ alarm' \in Alarms /\ alarm'.time = alarm.time /\ ~alarm'.sounding
      /\ (alarm'.haveLast <=> alarm.haveLast) /\ alarm'.last = alarm.last
      /\ (alarm'.fired <=> alarm.fired) /\ alarm'.firedDay = alarm.firedDay
  BY <1>1, <1>2, StoppedFields
<1>4. Sounds(buzzer') /\ buzzer'.playing # "ALARM"
  BY <1>1, QuietSounds
<1>5. FiredInv' /\ OnceADay'
  BY <1>1, <1>3 DEF AlarmInv, FiredInv, OnceADay, Moment
<1> QED
  BY <1>1, <1>3, <1>4, <1>5 DEF AlarmInv, AlarmTypes, Sounds, AlarmIsHeard

LEMMA AlarmSwitchKeeps ==
  ASSUME AlarmInv, NEW on \in BOOLEAN, AlarmSwitch(on)
  PROVE  AlarmInv'
<1> DEFINE a == [alarm EXCEPT !.switch = on]
<1>1. /\ alarm' = IF on THEN a ELSE Stopped(a)
      /\ buzzer' = IF on THEN buzzer ELSE Quiet(alarm, buzzer)
      /\ armed' = IF alarm.haveLast THEN alarm.last ELSE NotArmed
      /\ UNCHANGED <<utc, sounded>>
  BY DEF AlarmSwitch
<1>2. alarm \in Alarms /\ Sounds(buzzer) /\ AlarmIsHeard
  BY DEF AlarmInv, AlarmTypes, Sounds
<1>3. /\ a \in Alarms /\ a.time = alarm.time /\ (a.sounding <=> alarm.sounding)
      /\ (a.haveLast <=> alarm.haveLast) /\ a.last = alarm.last
      /\ (a.fired <=> alarm.fired) /\ a.firedDay = alarm.firedDay
  BY <1>2 DEF Alarms
<1> HIDE DEF a
<1>4. /\ alarm' \in Alarms /\ alarm'.time = alarm.time
      /\ (alarm'.sounding <=> alarm.sounding /\ on)
      /\ (alarm'.haveLast <=> alarm.haveLast) /\ alarm'.last = alarm.last
      /\ (alarm'.fired <=> alarm.fired) /\ alarm'.firedDay = alarm.firedDay
  <2>1. CASE on
    BY <1>1, <1>3, <2>1
  <2>2. CASE ~on
    BY <1>1, <1>3, <2>2, StoppedFields
  <2> QED
    BY <2>1, <2>2
<1>5. Sounds(buzzer') /\ AlarmIsHeard'
  <2>1. CASE on
    BY <1>1, <1>2, <1>4, <2>1 DEF AlarmIsHeard
  <2>2. CASE ~on
    BY <1>1, <1>4, <2>2, QuietSounds DEF AlarmIsHeard
  <2> QED
    BY <2>1, <2>2
<1>6. armed' \in Nat /\ sounded' \in [Days -> Nat] /\ FiredInv' /\ OnceADay'
  BY <1>1, <1>2, <1>4, ArmedAgain DEF AlarmInv, Alarms
<1> QED
  BY <1>1, <1>4, <1>5, <1>6 DEF AlarmInv, AlarmTypes, Sounds

LEMMA AlarmSetKeeps ==
  ASSUME AlarmInv, NEW on \in BOOLEAN, NEW time \in AlarmTimes, AlarmSet(on, time)
  PROVE  AlarmInv'
<1> DEFINE same == time = alarm.time
           timed == [alarm EXCEPT !.time = time]
           fresh == [timed EXCEPT !.fired = IF same THEN alarm.fired ELSE FALSE]
           a == [fresh EXCEPT !.enabled = on]
<1>1. alarm \in Alarms /\ Sounds(buzzer) /\ AlarmIsHeard /\ AlarmTypes /\ FiredInv
  BY DEF AlarmInv, AlarmTypes, Sounds
<1>2. /\ alarm' = IF on THEN a ELSE Stopped(a)
      /\ buzzer' = IF on THEN buzzer ELSE Quiet(alarm, buzzer)
      /\ sounded' = IF same THEN sounded ELSE [d \in Days |-> 0]
      /\ armed' = IF alarm.haveLast THEN alarm.last ELSE NotArmed
      /\ UNCHANGED utc
  BY <1>1 DEF AlarmSet, Alarms
<1> HIDE DEF same
<1>3. /\ timed \in Alarms /\ timed.time = time /\ (timed.sounding <=> alarm.sounding)
      /\ (timed.haveLast <=> alarm.haveLast) /\ timed.last = alarm.last
      /\ timed.firedDay = alarm.firedDay
  BY <1>1 DEF Alarms
<1> HIDE DEF timed
<1>4. /\ fresh \in Alarms /\ fresh.time = time /\ (fresh.sounding <=> alarm.sounding)
      /\ (fresh.haveLast <=> alarm.haveLast) /\ fresh.last = alarm.last
      /\ (fresh.fired <=> same /\ alarm.fired) /\ fresh.firedDay = alarm.firedDay
  <2>1. CASE same
    <3>1. fresh = [timed EXCEPT !.fired = alarm.fired]
      BY <2>1
    <3> HIDE DEF fresh
    <3> QED
      BY <1>1, <1>3, <2>1, <3>1 DEF Alarms
  <2>2. CASE ~same
    <3>1. fresh = [timed EXCEPT !.fired = FALSE]
      BY <2>2
    <3> HIDE DEF fresh
    <3> QED
      BY <1>1, <1>3, <2>2, <3>1 DEF Alarms
  <2> QED
    BY <2>1, <2>2
<1> HIDE DEF fresh
<1>5. /\ a \in Alarms /\ a.time = time /\ (a.sounding <=> alarm.sounding)
      /\ (a.haveLast <=> alarm.haveLast) /\ a.last = alarm.last
      /\ (a.fired <=> same /\ alarm.fired) /\ a.firedDay = alarm.firedDay
  BY <1>4 DEF Alarms
<1> HIDE DEF a
<1>6. /\ alarm' \in Alarms /\ alarm'.time = time
      /\ (alarm'.sounding <=> alarm.sounding /\ on)
      /\ (alarm'.haveLast <=> alarm.haveLast) /\ alarm'.last = alarm.last
      /\ (alarm'.fired <=> same /\ alarm.fired) /\ alarm'.firedDay = alarm.firedDay
  <2>1. CASE on
    BY <1>2, <1>5, <2>1
  <2>2. CASE ~on
    BY <1>2, <1>5, <2>2, StoppedFields
  <2> QED
    BY <2>1, <2>2
<1>7. Sounds(buzzer') /\ AlarmIsHeard'
  <2>1. CASE on
    BY <1>1, <1>2, <1>6, <2>1 DEF AlarmIsHeard
  <2>2. CASE ~on
    BY <1>2, <1>6, <2>2, QuietSounds DEF AlarmIsHeard
  <2> QED
    BY <2>1, <2>2
<1>8. armed' \in Nat /\ sounded' \in [Days -> Nat] /\ FiredInv' /\ OnceADay'
  <2>1. CASE same
    BY <1>1, <1>2, <1>6, <2>1, ArmedAgain DEF same
  <2>2. CASE ~same
    BY <1>1, <1>2, <1>6, <2>2, ArmedAgain
  <2> QED
    BY <2>1, <2>2
<1> QED
  BY <1>1, <1>2, <1>6, <1>7, <1>8 DEF AlarmInv, AlarmTypes, Sounds

-----------------------------------------------------------------------------

LEMMA AlarmStarts ==
  ASSUME AlarmInit
  PROVE  AlarmInv
<1>1. /\ utc \in [seconds : {0}, offset : ZoneOffsets] /\ buzzer = Silent
      /\ alarm \in [enabled : {TRUE}, time : AlarmTimes, switch : {TRUE}, sounding : {FALSE},
                    epochs : {0}, haveLast : {FALSE}, last : {0}, fired : {FALSE},
                    firedDay : {0}]
      /\ sounded = [d \in Days |-> 0] /\ armed = NotArmed
  BY DEF AlarmInit
<1>2. ~alarm.sounding /\ ~alarm.haveLast /\ ~alarm.fired /\ alarm \in Alarms
  <2>1. alarm.sounding = FALSE /\ alarm.haveLast = FALSE /\ alarm.fired = FALSE
    BY <1>1
  <2>2. \E time \in AlarmTimes :
          alarm = [enabled |-> TRUE, time |-> time, switch |-> TRUE, sounding |-> FALSE,
                   epochs |-> 0, haveLast |-> FALSE, last |-> 0, fired |-> FALSE,
                   firedDay |-> 0]
    BY <1>1, Zenon
  <2>3. alarm \in Alarms
    BY <2>2 DEF Alarms
  <2> QED
    BY <2>1, <2>3
<1>3. armed \in Nat /\ sounded \in [Days -> Nat] /\ utc \in [seconds : 0 .. LastUtc, offset : ZoneOffsets]
  BY <1>1, DayTypes DEF NotArmed
<1>4. Sounds(buzzer) /\ buzzer.playing = "NONE"
  BY <1>1, SilentSounds
<1>5. \A d \in Days : sounded[d] = 0
  BY <1>1
<1> QED
  BY <1>2, <1>3, <1>4, <1>5
     DEF AlarmInv, AlarmTypes, Sounds, FiredInv, OnceADay, AlarmIsHeard

LEMMA AlarmKeeps ==
  ASSUME LargestChange < CatchUp, AlarmInv, [AlarmNext]_alarmVars
  PROVE  AlarmInv'
<1>1. CASE UNCHANGED alarmVars
  BY <1>1 DEF alarmVars, AlarmInv, AlarmTypes, BuzzerInv, FiredInv, OnceADay, AlarmIsHeard, Moment
<1>2. CASE AlarmNext
  BY <1>2, EpochKeeps, BuzzerStepKeeps, ButtonKeeps, AlarmPressKeeps, AlarmSwitchKeeps,
     AlarmSetKeeps DEF AlarmNext
<1> QED
  BY <1>1, <1>2

\* Where the largest DST change is less than the catch-up, the alarm of the day is
\* heard, once and no less, with the beeps it was begun with, whatever the zone and the
\* certainty of the time do in between (alarm.c, buzzer.c).
THEOREM AlarmIsSound ==
  ASSUME LargestChange < CatchUp
  PROVE  AlarmSpec => []AlarmSound
<1>1. AlarmInit => AlarmInv
  BY AlarmStarts
<1>2. AlarmInv /\ [AlarmNext]_alarmVars => AlarmInv'
  BY AlarmKeeps
<1>3. AlarmInv => AlarmSound
  BY CountKept DEF AlarmInv, AlarmTypes, Sounds, AlarmSound
<1> QED
  BY <1>1, <1>2, <1>3, PTL DEF AlarmSpec

-----------------------------------------------------------------------------
\* The labels of edges

Edges  == [at : Nat, second : Int]
Labels == [edge : Edges, utc : Int]
Auths  == [utc : Int, sent : Nat, arrived : BOOLEAN]
Sents  == [utc : Int, sent : Nat]

PairingTypes ==
  /\ tick \in [now : Nat, phase : EspPhases]
  /\ picEpoch \in Edges /\ espOutput \in [edge : Edges, sequence : Nat, taken : Nat]
  /\ loop \in [last : Nat, held : BOOLEAN, heldOnce : BOOLEAN]
  /\ auth \in Seq(Auths) /\ ntpSent \in Seq(Sents)
  /\ picTime \in Labels /\ ntpLabel \in [last : Labels, lost : BOOLEAN]

PhaseOf(c) == c % SecondTicks

\* A TIME-AUTH not yet taken is of the PIC's epoch or of one before; it came after the
\* loop last went round, or is still coming.
AuthOk(m, t, epoch, last) ==
  /\ m.sent <= t
  /\ \/ m.sent = epoch.at /\ m.utc = epoch.second
     \/ m.sent + SecondTicks <= epoch.at
  /\ m.arrived => last <= m.sent + Transit
  /\ ~m.arrived => t <= m.sent + Transit

EpochInv ==
  /\ picEpoch.at <= tick.now /\ PhaseOf(picEpoch.at) = 0
  /\ \A i \in DOMAIN auth : AuthOk(auth[i], tick.now, picEpoch, loop.last)

WentRound ==
  /\ loop.last <= tick.now /\ (loop.held => loop.heldOnce)
  /\ ~loop.held => tick.now <= loop.last + MaxLoop

\* The ESP's edge is the latest of its phase, and is taken as the loop goes round.
Output == espOutput.edge
OutputInv ==
  /\ espOutput.taken <= espOutput.sequence /\ espOutput.sequence = Output.second + 1
  /\ Output.at <= tick.now
  /\ Output.second >= 0 =>
       PhaseOf(Output.at) = tick.phase /\ tick.now < Output.at + SecondTicks
  /\ espOutput.taken # espOutput.sequence => loop.last <= Output.at
  /\ Output.second < 0 => ntpSent = <<>>

\* A TIME-NTP on its way is of the latest edge or the one before.  It is sent late only by
\* a loop that was held up, which is once.
EdgeOf(m, edge)   == IF m.utc = edge.second THEN edge.at ELSE edge.at - SecondTicks
SentLate(m, edge) == m.sent - EdgeOf(m, edge) > MaxLoop

SentOf(m, t, edge) ==
  /\ m.sent <= t /\ t <= m.sent + Transit
  /\ \/ m.utc = edge.second /\ edge.at <= m.sent
     \/ m.utc = edge.second - 1 /\ edge.at - SecondTicks <= m.sent /\ m.sent <= edge.at

SentInv ==
  /\ \A i \in DOMAIN ntpSent :
       /\ SentOf(ntpSent[i], tick.now, Output)
       /\ SentLate(ntpSent[i], Output) => loop.heldOnce /\ ~loop.held
       /\ \A j \in DOMAIN ntpSent :
            i < j /\ SentLate(ntpSent[i], Output) => ~SentLate(ntpSent[j], Output)
  /\ espOutput.taken = espOutput.sequence /\ ntpSent # <<>> =>
       ntpSent[Len(ntpSent)].utc = Output.second

\* A label given to the next edge is of a message sent late, and the next is not.
Mislabelled == ntpLabel.last.utc # ntpLabel.last.edge.second
LabelInv ==
  Mislabelled =>
    /\ loop.heldOnce /\ ~loop.held
    /\ \A i \in DOMAIN ntpSent : ~SentLate(ntpSent[i], Output)
    /\ espOutput.taken = espOutput.sequence /\ ntpSent = <<>> => ntpLabel.lost

PairingInv ==
  PairingTypes /\ EpochInv /\ WentRound /\ OutputInv /\ SentInv /\ LabelInv /\ EpochLabelIsItsOwn

-----------------------------------------------------------------------------
\* Seconds and phases

LEMMA PairTypes ==
  /\ SecondTicks \in Nat /\ SecondTicks > 0 /\ PairWindow \in Nat /\ Backlog \in Nat
  /\ Association \in Nat /\ Transit \in Nat /\ MaxLoop \in Nat
  /\ MaxLoop <= Backlog /\ Transit + Backlog < SecondTicks /\ MaxLoop + Transit <= Association
  /\ \A p \in EspPhases : p \in Nat /\ p < SecondTicks
BY PairingAssumption

Whole(n) == n * SecondTicks

LEMMA WholeGrows ==
  ASSUME NEW n \in Nat
  PROVE  /\ Whole(n) \in Nat /\ Whole(n + 1) = Whole(n) + SecondTicks
         /\ \A m \in Nat : n < m => Whole(n) + SecondTicks <= Whole(m)
<1>1. Whole(n) \in Nat /\ Whole(n + 1) = Whole(n) + SecondTicks
  BY PairTypes DEF Whole
<1>2. ASSUME NEW m \in Nat, n < m
      PROVE  Whole(n) + SecondTicks <= Whole(m)
  <2>1. (m - n - 1) * SecondTicks >= 0
    BY <1>2, PairTypes
  <2>2. m * SecondTicks = n * SecondTicks + SecondTicks + (m - n - 1) * SecondTicks
    BY PairTypes
  <2> QED
    BY <2>1, <2>2, PairTypes DEF Whole
<1> QED
  BY <1>1, <1>2

LEMMA SecondsAnd ==
  ASSUME NEW c \in Nat
  PROVE  /\ c \div SecondTicks \in Nat /\ c % SecondTicks \in 0 .. SecondTicks - 1
         /\ c = Whole(c \div SecondTicks) + (c % SecondTicks)
BY PairTypes DEF Whole

LEMMA PhaseUnique ==
  ASSUME NEW n \in Nat, NEW r \in 0 .. SecondTicks - 1
  PROVE  (Whole(n) + r) % SecondTicks = r
<1> DEFINE c == Whole(n) + r
           q == c \div SecondTicks
           m == c % SecondTicks
<1>1. Whole(n) \in Nat /\ c \in Nat /\ c = Whole(n) + r
  BY WholeGrows, PairTypes
<1>2. q \in Nat /\ m \in 0 .. SecondTicks - 1 /\ c = Whole(q) + m
  BY <1>1, SecondsAnd
<1> HIDE DEF c, q, m
<1>3. Whole(q) \in Nat
  BY <1>2, WholeGrows
<1>4. ~(n < q)
  BY <1>1, <1>2, <1>3, WholeGrows, PairTypes
<1>5. ~(q < n)
  BY <1>1, <1>2, <1>3, WholeGrows, PairTypes
<1>6. q = n
  BY <1>2, <1>4, <1>5
<1>7. m = r
  BY <1>1, <1>2, <1>6
<1> QED
  BY <1>7 DEF c, m

\* Two of a phase are a second apart or more, and a second later is of the phase.
LEMMA OfOnePhase ==
  ASSUME NEW a \in Nat
  PROVE  /\ PhaseOf(a + SecondTicks) = PhaseOf(a)
         /\ \A b \in Nat : PhaseOf(b) = PhaseOf(a) /\ a < b => a + SecondTicks <= b
<1> DEFINE n == a \div SecondTicks
           r == a % SecondTicks
<1>1. n \in Nat /\ r \in 0 .. SecondTicks - 1 /\ a = Whole(n) + r
  BY SecondsAnd
<1> HIDE DEF n, r
<1>2. Whole(n) \in Nat /\ Whole(n + 1) = Whole(n) + SecondTicks
  BY <1>1, WholeGrows
<1>3. (a + SecondTicks) % SecondTicks = r
  <2>1. a + SecondTicks = Whole(n + 1) + r
    BY <1>1, <1>2, PairTypes
  <2>2. (Whole(n + 1) + r) % SecondTicks = r
    BY <1>1, PhaseUnique
  <2> QED
    BY <2>1, <2>2
<1>4. ASSUME NEW b \in Nat, b % SecondTicks = r, a < b
      PROVE  a + SecondTicks <= b
  <2> DEFINE m == b \div SecondTicks
  <2>1. m \in Nat /\ b = Whole(m) + r
    BY <1>4, SecondsAnd
  <2> HIDE DEF m
  <2>2. Whole(m) \in Nat /\ r \in Nat
    BY <1>1, <2>1, WholeGrows
  <2>3. n < m
    <3> SUFFICES ASSUME ~(n < m) PROVE FALSE
      OBVIOUS
    <3>1. m = n \/ m < n
      BY <1>1, <2>1
    <3>2. m < n => Whole(m) + SecondTicks <= Whole(n)
      BY <1>1, <2>1, WholeGrows
    <3> QED
      BY <1>1, <1>2, <1>4, <2>1, <2>2, <3>1, <3>2, PairTypes
  <2>4. Whole(n) + SecondTicks <= Whole(m)
    BY <1>1, <2>1, <2>3, WholeGrows
  <2> QED
    BY <1>1, <1>2, <2>1, <2>2, <2>4, PairTypes
<1> QED
  BY <1>3, <1>4 DEF r, PhaseOf

-----------------------------------------------------------------------------
\* What is on its way

LEMMA AtTheEnd ==
  ASSUME NEW S, NEW s \in Seq(S), NEW e \in S
  PROVE  LET t == Append(s, e)
         IN  /\ t \in Seq(S) /\ t # <<>> /\ t[Len(t)] = e
             /\ \A i \in DOMAIN t :
                  i \in Nat /\ ((i \in DOMAIN s /\ t[i] = s[i]) \/ (i = Len(t) /\ t[i] = e))
             /\ \A i \in DOMAIN s : i < Len(t)
<1> DEFINE t == Append(s, e)
<1>1. /\ t \in Seq(S) /\ t # <<>> /\ Len(t) = Len(s) + 1 /\ t[Len(s) + 1] = e
      /\ \A i \in 1 .. Len(s) : t[i] = s[i]
  BY AppendProperties
<1>2. /\ DOMAIN s = 1 .. Len(s) /\ DOMAIN t = 1 .. Len(t)
      /\ Len(s) \in Nat /\ Len(t) \in Nat
  BY <1>1, LenProperties
<1> HIDE DEF t
<1>3. \A i \in DOMAIN t :
        i \in Nat /\ ((i \in DOMAIN s /\ t[i] = s[i]) \/ (i = Len(t) /\ t[i] = e))
  <2> SUFFICES ASSUME NEW i \in DOMAIN t
               PROVE  i \in Nat /\ ((i \in DOMAIN s /\ t[i] = s[i]) \/ (i = Len(t) /\ t[i] = e))
    OBVIOUS
  <2>1. i \in Nat /\ (i \in 1 .. Len(s) \/ i = Len(s) + 1)
    BY <1>1, <1>2
  <2> QED
    BY <1>1, <1>2, <2>1
<1> QED
  BY <1>1, <1>2, <1>3 DEF t

LEMMA Behind ==
  ASSUME NEW S, NEW s \in Seq(S), s # <<>>
  PROVE  LET t == Tail(s)
         IN  /\ t \in Seq(S) /\ Head(s) = s[1] /\ 1 \in DOMAIN s
             /\ \A i \in DOMAIN t : i \in Nat /\ i + 1 \in DOMAIN s /\ 1 < i + 1 /\ t[i] = s[i + 1]
             /\ t # <<>> => t[Len(t)] = s[Len(s)]
             /\ t = <<>> => Len(s) = 1
<1> DEFINE t == Tail(s)
<1>1. /\ t \in Seq(S) /\ Len(t) = Len(s) - 1 /\ \A i \in 1 .. Len(t) : t[i] = s[i + 1]
      /\ Head(s) = s[1]
  BY HeadTailProperties
<1>2. /\ DOMAIN s = 1 .. Len(s) /\ DOMAIN t = 1 .. Len(t)
      /\ Len(s) \in Nat \ {0} /\ Len(t) \in Nat
  BY <1>1, LenProperties, EmptySeq
<1>3. t = <<>> => Len(t) = 0
  BY EmptySeq
<1>4. t # <<>> => Len(t) \in Nat \ {0}
  BY <1>1, EmptySeq
<1> HIDE DEF t
<1>5. \A i \in DOMAIN t : i \in Nat /\ i + 1 \in DOMAIN s /\ 1 < i + 1 /\ t[i] = s[i + 1]
  BY <1>1, <1>2
<1>6. t # <<>> => t[Len(t)] = s[Len(s)]
  BY <1>1, <1>2, <1>4
<1>7. t = <<>> => Len(s) = 1
  BY <1>1, <1>2, <1>3
<1>8. 1 \in DOMAIN s
  BY <1>2
<1> QED
  BY <1>1, <1>5, <1>6, <1>7, <1>8 DEF t

LEMMA LaterOnes ==
  ASSUME NEW S, NEW s \in Seq(S), NEW n \in DOMAIN s
  PROVE  LET t == SubSeq(s, n + 1, Len(s))
         IN  /\ t \in Seq(S)
             /\ \A i \in DOMAIN t : i + n \in DOMAIN s /\ n < i + n /\ t[i] = s[i + n]
OBVIOUS

LEMMA WithoutOne ==
  ASSUME NEW S, NEW s \in Seq(S), NEW n \in DOMAIN s
  PROVE  LET t == SubSeq(s, 1, n - 1) \o SubSeq(s, n + 1, Len(s))
         IN  /\ t \in Seq(S) /\ \A i \in DOMAIN t : \E j \in DOMAIN s : t[i] = s[j]
<1> DEFINE a == SubSeq(s, 1, n - 1)
           b == SubSeq(s, n + 1, Len(s))
           t == a \o b
<1>1. DOMAIN s = 1 .. Len(s) /\ Len(s) \in Nat /\ n \in 1 .. Len(s)
  BY LenProperties
<1>2. /\ b \in Seq(S) /\ \A i \in DOMAIN b : i + n \in DOMAIN s /\ b[i] = s[i + n]
  BY LaterOnes
<1>3. /\ a \in Seq(S) /\ \A i \in DOMAIN a : i \in DOMAIN s /\ a[i] = s[i]
  BY <1>1
<1>4. /\ DOMAIN a = 1 .. Len(a) /\ DOMAIN b = 1 .. Len(b) /\ Len(a) \in Nat /\ Len(b) \in Nat
  BY <1>2, <1>3, LenProperties
<1> HIDE DEF a, b
<1>5. /\ t \in Seq(S) /\ Len(t) = Len(a) + Len(b)
      /\ \A i \in 1 .. Len(a) + Len(b) : t[i] = IF i <= Len(a) THEN a[i] ELSE b[i - Len(a)]
  BY <1>2, <1>3, ConcatProperties
<1>6. DOMAIN t = 1 .. Len(a) + Len(b)
  BY <1>5, LenProperties
<1> HIDE DEF t
<1>7. ASSUME NEW i \in DOMAIN t
      PROVE  \E j \in DOMAIN s : t[i] = s[j]
  <2>1. CASE i <= Len(a)
    <3>1. i \in DOMAIN a /\ t[i] = a[i]
      BY <1>4, <1>5, <1>6, <2>1
    <3> QED
      BY <1>3, <3>1
  <2>2. CASE ~(i <= Len(a))
    <3>1. i - Len(a) \in DOMAIN b /\ t[i] = b[i - Len(a)]
      BY <1>4, <1>5, <1>6, <2>2
    <3> QED
      BY <1>2, <3>1
  <2> QED
    BY <2>1, <2>2
<1> QED
  BY <1>5, <1>7 DEF t, a, b

\* What these parts of the invariant are of.
LEMMA Unmoved ==
  ASSUME UNCHANGED <<tick, espOutput, loop, ntpSent, picTime, ntpLabel>>,
         WentRound, OutputInv, SentInv, LabelInv, EpochLabelIsItsOwn
  PROVE  WentRound' /\ OutputInv' /\ SentInv' /\ LabelInv' /\ EpochLabelIsItsOwn'
<1>1. Output' = Output
  BY DEF Output
<1> QED
  BY <1>1 DEF WentRound, OutputInv, SentInv, LabelInv, Mislabelled, EpochLabelIsItsOwn, PhaseOf

-----------------------------------------------------------------------------
\* The tick

LEMMA TickOutput ==
  ASSUME PairingTypes, OutputInv, WentRound, TickPasses
  PROVE  /\ OutputInv' /\ espOutput' \in [edge : Edges, sequence : Nat, taken : Nat]
         /\ Output.second >= 0 =>
              \A m \in Sents :
                SentOf(m, tick.now, Output) /\ tick.now - m.sent < Transit =>
                  /\ SentOf(m, tick'.now, Output')
                  /\ SentLate(m, Output') <=> SentLate(m, Output)
<1> DEFINE next == tick.now + 1
           rises == PhaseOf(next) = tick.phase
           T == Transit
           at == Output.at
           second == Output.second
<1>1. /\ next \in Nat /\ tick.now \in Nat /\ tick.phase \in Nat /\ tick.phase < SecondTicks
      /\ at \in Nat /\ second \in Int
      /\ espOutput.sequence \in Nat /\ espOutput.taken \in Nat /\ loop.last \in Nat
  BY PairTypes DEF PairingTypes, Edges, Output
<1>2. /\ tick' = [tick EXCEPT !.now = next] /\ loop' = loop /\ ntpSent' = ntpSent
      /\ espOutput' = IF rises THEN [espOutput EXCEPT !.edge = [at |-> next, second |-> @.second + 1],
                                                      !.sequence = @ + 1]
                      ELSE espOutput
  BY DEF TickPasses, PhaseOf
<1>3. tick'.now = next /\ tick'.phase = tick.phase
  BY <1>2 DEF PairingTypes
<1>4. /\ espOutput.taken <= espOutput.sequence /\ espOutput.sequence = second + 1
      /\ at <= tick.now
      /\ second >= 0 => PhaseOf(at) = tick.phase /\ tick.now < at + SecondTicks
      /\ espOutput.taken # espOutput.sequence => loop.last <= at
      /\ second < 0 => ntpSent = <<>>
      /\ loop.last <= tick.now
  BY DEF OutputInv, WentRound
<1>5. second >= 0 => (rises <=> next = at + SecondTicks)
  <2>1. /\ PhaseOf(at + SecondTicks) = PhaseOf(at)
        /\ PhaseOf(next) = PhaseOf(at) /\ at < next => at + SecondTicks <= next
    BY <1>1, OfOnePhase
  <2> QED
    BY <1>1, <1>4, <2>1, PairTypes
<1>6. CASE rises
  <2> DEFINE edge == [at |-> next, second |-> second + 1]
             sequence == espOutput.sequence + 1
  <2>1. espOutput' = [espOutput EXCEPT !.edge = edge, !.sequence = sequence]
    BY <1>2, <1>6 DEF Output
  <2>2. edge \in Edges /\ edge.at = next /\ edge.second = second + 1 /\ sequence \in Nat
    BY <1>1 DEF Edges
  <2> HIDE DEF edge, sequence
  <2>3. /\ espOutput' \in [edge : Edges, sequence : Nat, taken : Nat]
        /\ espOutput'.edge = edge /\ espOutput'.sequence = sequence
        /\ espOutput'.taken = espOutput.taken
    BY <2>1, <2>2 DEF PairingTypes
  <2>4. Output'.at = next /\ Output'.second = second + 1
    BY <2>2, <2>3 DEF Output
  <2>5. OutputInv'
    <3>1. espOutput'.taken <= espOutput'.sequence /\ espOutput'.sequence = Output'.second + 1
      BY <1>1, <1>4, <2>3, <2>4 DEF sequence
    <3>2. Output'.second >= 0 /\ loop'.last <= Output'.at
      BY <1>1, <1>2, <1>4, <2>4
    <3>3. PhaseOf(Output'.at) = tick'.phase
      BY <1>3, <1>6, <2>4
    <3>4. PhaseOf(Output.at)' = tick'.phase
      BY <3>3 DEF PhaseOf
    <3>5. Output'.at <= tick'.now /\ tick'.now < Output'.at + SecondTicks
      BY <1>1, <1>3, <2>4, PairTypes
    <3>6. ~(Output'.second < 0)
      BY <1>1, <1>4, <2>4
    <3> QED
      BY <3>1, <3>2, <3>4, <3>5, <3>6 DEF OutputInv
  <2>6. ASSUME second >= 0, NEW m \in Sents, SentOf(m, tick.now, Output),
               tick.now - m.sent < Transit
        PROVE  SentOf(m, tick'.now, Output') /\ (SentLate(m, Output') <=> SentLate(m, Output))
    <3>1. m.sent \in Nat /\ m.utc \in Int
      BY DEF Sents
    <3>2. m.utc = second /\ at <= m.sent /\ m.sent <= tick.now
      <4>1. ~(m.sent <= at)  \/ m.utc = second
        BY <1>1, <1>5, <1>6, <2>6, <3>1, PairTypes
      <4> QED
        BY <1>1, <2>6, <3>1, <4>1 DEF SentOf
    <3>3. EdgeOf(m, Output) = at /\ EdgeOf(m, Output') = at
      BY <1>1, <1>5, <1>6, <2>4, <2>6, <3>1, <3>2, PairTypes DEF EdgeOf
    <3>4. SentOf(m, tick'.now, Output')
      BY <1>1, <1>3, <1>5, <1>6, <2>4, <2>6, <3>1, <3>2, PairTypes DEF SentOf
    <3> QED
      BY <3>3, <3>4 DEF SentLate
  <2> QED
    BY <2>3, <2>5, <2>6
<1>7. CASE ~rises
  <2>1. espOutput' = espOutput /\ Output' = Output
    BY <1>2, <1>7 DEF Output
  <2>2. OutputInv'
    <3>1. PhaseOf(Output.at)' = PhaseOf(Output.at)
      BY <2>1 DEF PhaseOf
    <3>2. Output.at <= tick'.now /\ (second >= 0 => tick'.now < Output.at + SecondTicks)
      BY <1>1, <1>3, <1>4, <1>5, <1>7, PairTypes
    <3> QED
      BY <1>2, <1>3, <1>4, <2>1, <3>1, <3>2 DEF OutputInv
  <2>3. ASSUME second >= 0, NEW m \in Sents, SentOf(m, tick.now, Output),
               tick.now - m.sent < Transit
        PROVE  SentOf(m, tick'.now, Output') /\ (SentLate(m, Output') <=> SentLate(m, Output))
    <3>1. m.sent \in Nat
      BY DEF Sents
    <3> QED
      BY <1>1, <1>3, <2>1, <2>3, <3>1, PairTypes DEF SentOf, SentLate, EdgeOf
  <2> QED
    BY <2>1, <2>2, <2>3 DEF PairingTypes
<1> QED
  BY <1>6, <1>7

LEMMA TickEpoch ==
  ASSUME PairingTypes, EpochInv, WentRound, TickPasses
  PROVE  EpochInv' /\ picEpoch' \in Edges /\ auth' \in Seq(Auths)
<1> DEFINE next == tick.now + 1
           begins == PhaseOf(next) = 0
           new == [utc |-> picEpoch.second + 1, sent |-> next, arrived |-> FALSE]
           at == picEpoch.at
<1>1. /\ next \in Nat /\ tick.now \in Nat /\ at \in Nat /\ picEpoch.second \in Int
      /\ loop.last \in Nat /\ auth \in Seq(Auths)
  BY DEF PairingTypes, Edges
<1>2. /\ tick'.now = next /\ loop' = loop
      /\ picEpoch' = IF begins THEN [at |-> next, second |-> picEpoch.second + 1] ELSE picEpoch
      /\ auth' = IF begins THEN Append(auth, new) ELSE auth
      /\ \A i \in DOMAIN auth : auth[i].arrived \/ tick.now - auth[i].sent < Transit
  BY DEF TickPasses, PairingTypes, PhaseOf
<1>3. at <= tick.now /\ PhaseOf(at) = 0 /\ loop.last <= tick.now
      /\ \A i \in DOMAIN auth : AuthOk(auth[i], tick.now, picEpoch, loop.last) /\ auth[i] \in Auths
  BY <1>1 DEF EpochInv, WentRound
<1>4. CASE begins
  <2>1. at + SecondTicks <= next
    BY <1>1, <1>3, <1>4, OfOnePhase
  <2>2. new \in Auths
    BY <1>1 DEF Auths
  <2>3. picEpoch' \in Edges /\ picEpoch'.at = next /\ picEpoch'.second = picEpoch.second + 1
    BY <1>1, <1>2, <1>4 DEF Edges
  <2>4. ASSUME NEW m \in Auths, AuthOk(m, tick.now, picEpoch, loop.last),
               m.arrived \/ tick.now - m.sent < Transit
        PROVE  AuthOk(m, next, picEpoch', loop.last)
    <3>1. m.sent \in Nat /\ tick.now \in Nat /\ picEpoch.at \in Nat
      BY <1>1 DEF Auths
    <3>2. m.sent + SecondTicks <= next /\ m.sent <= next
      BY <1>1, <1>3, <2>1, <2>4, <3>1, PairTypes DEF AuthOk
    <3>3. /\ m.arrived => loop.last <= m.sent + Transit
          /\ ~m.arrived => next <= m.sent + Transit
      BY <2>4, <3>1, PairTypes DEF AuthOk
    <3> QED
      BY <2>3, <3>2, <3>3 DEF AuthOk
  <2>5. AuthOk(new, next, picEpoch', loop.last)
    <3>1. new.sent = next /\ new.utc = picEpoch.second + 1 /\ ~new.arrived
      OBVIOUS
    <3> HIDE DEF new
    <3> QED
      BY <1>1, <2>3, <3>1, PairTypes DEF AuthOk
  <2> HIDE DEF new
  <2>6. auth' = Append(auth, new)
    BY <1>2, <1>4
  <2>7. \A i \in DOMAIN auth' : AuthOk(auth'[i], next, picEpoch', loop.last)
    <3> SUFFICES ASSUME NEW i \in DOMAIN auth'
                 PROVE  AuthOk(auth'[i], next, picEpoch', loop.last)
      OBVIOUS
    <3>1. (i \in DOMAIN auth /\ auth'[i] = auth[i]) \/ auth'[i] = new
      BY <1>1, <2>2, <2>6, AtTheEnd
    <3> QED
      BY <1>2, <1>3, <2>4, <2>5, <3>1
  <2> QED
    BY <1>1, <1>2, <1>4, <2>2, <2>3, <2>6, <2>7, AtTheEnd DEF EpochInv
<1>5. CASE ~begins
  <2>1. picEpoch' = picEpoch /\ auth' = auth
    BY <1>2, <1>5
  <2>2. ASSUME NEW m \in Auths, AuthOk(m, tick.now, picEpoch, loop.last),
               m.arrived \/ tick.now - m.sent < Transit
        PROVE  AuthOk(m, next, picEpoch', loop.last)
    <3>1. m.sent \in Nat
      BY DEF Auths
    <3> QED
      BY <1>1, <1>2, <2>1, <2>2, <3>1, PairTypes DEF AuthOk
  <2>3. \A i \in DOMAIN auth' : AuthOk(auth'[i], next, picEpoch', loop.last)
    BY <1>2, <1>3, <2>1, <2>2
  <2> QED
    BY <1>1, <1>2, <1>3, <2>1, <2>3 DEF EpochInv, PairingTypes
<1> QED
  BY <1>4, <1>5

LEMMA TickKeeps ==
  ASSUME PairingInv, TickPasses
  PROVE  PairingInv'
<1>1. PairingTypes /\ EpochInv /\ WentRound /\ OutputInv /\ SentInv /\ LabelInv
  BY DEF PairingInv
<1>2. /\ tick' = [tick EXCEPT !.now = tick.now + 1]
      /\ UNCHANGED <<loop, ntpSent, picTime, ntpLabel>>
      /\ tick.now - loop.last < (IF loop.held THEN MaxHeld ELSE MaxLoop)
      /\ \A i \in DOMAIN ntpSent : tick.now - ntpSent[i].sent < Transit
  BY DEF TickPasses
<1>3. /\ tick.now \in Nat /\ loop.last \in Nat /\ ntpSent \in Seq(Sents)
      /\ tick'.now = tick.now + 1 /\ tick' \in [now : Nat, phase : EspPhases]
  BY <1>1, <1>2 DEF PairingTypes
<1>4. EpochInv' /\ picEpoch' \in Edges /\ auth' \in Seq(Auths)
  BY <1>1, TickEpoch
<1>5. /\ OutputInv' /\ espOutput' \in [edge : Edges, sequence : Nat, taken : Nat]
      /\ Output.second >= 0 =>
           \A m \in Sents :
             SentOf(m, tick.now, Output) /\ tick.now - m.sent < Transit =>
               /\ SentOf(m, tick'.now, Output')
               /\ SentLate(m, Output') <=> SentLate(m, Output)
  BY <1>1, TickOutput
<1>6. WentRound'
  <2>1. /\ loop' = loop /\ MaxLoop \in Nat
        /\ tick.now - loop.last < (IF loop.held THEN MaxHeld ELSE MaxLoop)
    BY <1>2, PairTypes
  <2>2. ~loop.held => tick'.now <= loop.last + MaxLoop
    BY <1>3, <2>1
  <2> QED
    BY <1>1, <1>3, <2>1, <2>2 DEF WentRound
<1>7. ASSUME NEW i \in DOMAIN ntpSent
      PROVE  /\ SentOf(ntpSent[i], tick'.now, Output')
             /\ SentLate(ntpSent[i], Output') <=> SentLate(ntpSent[i], Output)
  <2>1. ntpSent[i] \in Sents /\ ntpSent # <<>>
    BY <1>3
  <2>2. Output.second >= 0
    BY <1>1, <2>1 DEF OutputInv, PairingTypes, Edges, Output
  <2>3. SentOf(ntpSent[i], tick.now, Output)
    BY <1>1 DEF SentInv
  <2> QED
    BY <1>2, <1>5, <2>1, <2>2, <2>3
<1>8. espOutput'.taken = espOutput'.sequence => Output' = Output /\ espOutput' = espOutput
  <2>1. \/ espOutput' = espOutput
        \/ espOutput'.sequence = espOutput.sequence + 1 /\ espOutput'.taken = espOutput.taken
    BY <1>1 DEF TickPasses, PairingTypes
  <2>2. espOutput.taken <= espOutput.sequence /\ espOutput.taken \in Nat
        /\ espOutput.sequence \in Nat
    BY <1>1 DEF OutputInv, PairingTypes
  <2> QED
    BY <2>1, <2>2 DEF Output
<1>9. SentInv'
  <2>1. \A i \in DOMAIN ntpSent :
          /\ SentLate(ntpSent[i], Output) => loop.heldOnce /\ ~loop.held
          /\ \A j \in DOMAIN ntpSent :
               i < j /\ SentLate(ntpSent[i], Output) => ~SentLate(ntpSent[j], Output)
    BY <1>1 DEF SentInv
  <2>2. espOutput.taken = espOutput.sequence /\ ntpSent # <<>> =>
          ntpSent[Len(ntpSent)].utc = Output.second
    BY <1>1 DEF SentInv
  <2> QED
    BY <1>2, <1>7, <1>8, <2>1, <2>2 DEF SentInv
<1>10. LabelInv'
  <2>1. Mislabelled' <=> Mislabelled
    BY <1>2 DEF Mislabelled
  <2> QED
    BY <1>1, <1>2, <1>7, <1>8, <2>1 DEF LabelInv
<1>11. EpochLabelIsItsOwn'
  BY <1>2 DEF PairingInv, EpochLabelIsItsOwn
<1> QED
  BY <1>1, <1>2, <1>3, <1>4, <1>5, <1>6, <1>9, <1>10, <1>11 DEF PairingInv, PairingTypes

-----------------------------------------------------------------------------
\* The line

LEMMA ArriveKeeps ==
  ASSUME PairingInv, Arrive
  PROVE  PairingInv'
<1>1. PICK n \in DOMAIN auth : ~auth[n].arrived /\ auth' = [auth EXCEPT ![n].arrived = TRUE]
  BY DEF Arrive
<1>2. UNCHANGED <<tick, picEpoch, espOutput, loop, ntpSent, picTime, ntpLabel>>
  BY DEF Arrive
<1>3. PairingTypes /\ EpochInv /\ WentRound /\ auth \in Seq(Auths)
  BY DEF PairingInv, PairingTypes
<1> DEFINE came == [auth[n] EXCEPT !.arrived = TRUE]
<1>4. came \in Auths /\ came.sent = auth[n].sent /\ came.utc = auth[n].utc /\ came.arrived
      /\ auth[n] \in Auths
  <2>1. auth[n] \in Auths
    BY <1>3
  <2>2. \A m \in Auths : LET c == [m EXCEPT !.arrived = TRUE]
                        IN  c \in Auths /\ c.sent = m.sent /\ c.utc = m.utc /\ c.arrived
    BY DEF Auths
  <2> QED
    BY <2>1, <2>2
<1>5. auth' = [auth EXCEPT ![n] = came]
  BY <1>1
<1> HIDE DEF came
<1>6. auth' \in Seq(Auths) /\ DOMAIN auth' = DOMAIN auth
      /\ \A i \in DOMAIN auth : auth'[i] = IF i = n THEN came ELSE auth[i]
  BY <1>3, <1>4, <1>5, ExceptSeq, LenProperties
<1>7. AuthOk(came, tick.now, picEpoch, loop.last)
  <2>1. AuthOk(auth[n], tick.now, picEpoch, loop.last)
    BY <1>3 DEF EpochInv
  <2>2. loop.last <= tick.now /\ tick.now \in Nat /\ loop.last \in Nat /\ auth[n].sent \in Nat
    BY <1>3, <1>4 DEF WentRound, PairingTypes, Auths
  <2> QED
    BY <1>1, <1>4, <2>1, <2>2, PairTypes DEF AuthOk
<1>8. EpochInv'
  BY <1>2, <1>3, <1>6, <1>7 DEF EpochInv
<1> QED
  BY <1>2, <1>6, <1>8, Unmoved DEF PairingInv, PairingTypes

LEMMA LoseAuthKeeps ==
  ASSUME PairingInv, LoseAuth
  PROVE  PairingInv'
<1>1. PICK n \in DOMAIN auth : auth' = SubSeq(auth, 1, n - 1) \o SubSeq(auth, n + 1, Len(auth))
  BY DEF LoseAuth
<1>2. UNCHANGED <<tick, picEpoch, espOutput, loop, ntpSent, picTime, ntpLabel>>
  BY DEF LoseAuth
<1>3. PairingTypes /\ EpochInv /\ auth \in Seq(Auths)
  BY DEF PairingInv, PairingTypes
<1>4. auth' \in Seq(Auths) /\ \A i \in DOMAIN auth' : \E j \in DOMAIN auth : auth'[i] = auth[j]
  BY <1>1, <1>3, WithoutOne
<1>5. EpochInv'
  BY <1>2, <1>3, <1>4 DEF EpochInv, PhaseOf
<1> QED
  BY <1>2, <1>4, <1>5, Unmoved DEF PairingInv, PairingTypes

\* The first of those on their way goes: what is said of the others stays.
LEMMA FirstTaken ==
  ASSUME PairingTypes, SentInv, OutputInv, ntpSent # <<>>, ntpSent' = Tail(ntpSent),
         UNCHANGED <<tick, espOutput, loop>>
  PROVE  /\ ntpSent' \in Seq(Sents) /\ SentInv' /\ OutputInv' /\ Output' = Output
         /\ Output.second >= 0 /\ Head(ntpSent) = ntpSent[1] /\ ntpSent[1] \in Sents
         /\ 1 \in DOMAIN ntpSent
         /\ \A i \in DOMAIN ntpSent' : \E j \in DOMAIN ntpSent : 1 < j /\ ntpSent'[i] = ntpSent[j]
         /\ ntpSent' = <<>> => ntpSent[Len(ntpSent)] = ntpSent[1]
<1>1. ntpSent \in Seq(Sents)
  BY DEF PairingTypes
<1> DEFINE t == Tail(ntpSent)
<1>2. /\ t \in Seq(Sents) /\ Head(ntpSent) = ntpSent[1] /\ 1 \in DOMAIN ntpSent
      /\ \A i \in DOMAIN t : i \in Nat /\ i + 1 \in DOMAIN ntpSent /\ 1 < i + 1 /\ t[i] = ntpSent[i + 1]
      /\ t # <<>> => t[Len(t)] = ntpSent[Len(ntpSent)]
      /\ t = <<>> => Len(ntpSent) = 1
  BY <1>1, Behind
<1>3. ntpSent[1] \in Sents
  BY <1>1, <1>2
<1>4. ntpSent' = t
  OBVIOUS
<1> HIDE DEF t
<1>5. Output' = Output
  BY DEF Output
<1>6. Output.second >= 0
  BY DEF OutputInv, PairingTypes, Edges, Output
<1>7. OutputInv'
  BY <1>5, <1>6 DEF OutputInv, PhaseOf
<1>8. SentInv'
  <2>1. ASSUME NEW i \in DOMAIN t
        PROVE  /\ SentOf(t[i], tick.now, Output)
               /\ SentLate(t[i], Output) => loop.heldOnce /\ ~loop.held
    BY <1>2 DEF SentInv
  <2>2. ASSUME NEW i \in DOMAIN t, NEW j \in DOMAIN t, i < j, SentLate(t[i], Output)
        PROVE  ~SentLate(t[j], Output)
    <3>1. i + 1 \in DOMAIN ntpSent /\ j + 1 \in DOMAIN ntpSent /\ i + 1 < j + 1
          /\ t[i] = ntpSent[i + 1] /\ t[j] = ntpSent[j + 1]
      BY <1>2, <2>2
    <3> QED
      BY <2>2, <3>1 DEF SentInv
  <2>3. espOutput.taken = espOutput.sequence /\ t # <<>> => t[Len(t)].utc = Output.second
    BY <1>2 DEF SentInv
  <2> QED
    BY <1>4, <1>5, <2>1, <2>2, <2>3 DEF SentInv
<1>9. \A i \in DOMAIN t : \E j \in DOMAIN ntpSent : 1 < j /\ t[i] = ntpSent[j]
  BY <1>2
<1> QED
  BY <1>2, <1>3, <1>4, <1>5, <1>6, <1>7, <1>8, <1>9

LEMMA LoseNtpKeeps ==
  ASSUME PairingInv, LoseNtp
  PROVE  PairingInv'
<1>1. /\ ntpSent # <<>> /\ ntpSent' = Tail(ntpSent)
      /\ ntpLabel' = [ntpLabel EXCEPT !.lost = TRUE]
      /\ UNCHANGED <<tick, picEpoch, espOutput, loop, auth, picTime>>
  BY DEF LoseNtp
<1>2. PairingTypes /\ EpochInv /\ WentRound /\ OutputInv /\ SentInv /\ LabelInv
      /\ EpochLabelIsItsOwn
  BY DEF PairingInv
<1>3. /\ ntpSent' \in Seq(Sents) /\ SentInv' /\ OutputInv' /\ Output' = Output
      /\ \A i \in DOMAIN ntpSent' : \E j \in DOMAIN ntpSent : 1 < j /\ ntpSent'[i] = ntpSent[j]
  BY <1>1, <1>2, FirstTaken
<1>4. ntpLabel' \in [last : Labels, lost : BOOLEAN] /\ ntpLabel'.last = ntpLabel.last
      /\ ntpLabel'.lost
  BY <1>1, <1>2 DEF PairingTypes
<1>5. LabelInv'
  BY <1>1, <1>2, <1>3, <1>4 DEF LabelInv, Mislabelled
<1>6. EpochInv' /\ WentRound' /\ EpochLabelIsItsOwn'
  BY <1>1, <1>2 DEF EpochInv, WentRound, EpochLabelIsItsOwn, PhaseOf
<1> QED
  BY <1>1, <1>2, <1>3, <1>4, <1>5, <1>6 DEF PairingInv, PairingTypes

\* A message of the edge before is late, and one that is not is the label of the edge it
\* comes after.
LEMMA LabelTaken ==
  ASSUME PairingTypes, OutputInv, NEW m \in Sents, SentOf(m, tick.now, Output),
         Output.second >= 0
  PROVE  /\ Labelled(m) \in Labels
         /\ SentLate(m, Output) \/ Labelled(m) = [edge |-> Output, utc |-> Output.second]
         /\ \/ Labelled(m) = ntpLabel.last \/ Labelled(m) = [edge |-> Output, utc |-> Output.second]
            \/ m.utc # Output.second /\ SentLate(m, Output)
<1>1. /\ m.sent \in Nat /\ m.utc \in Int /\ tick.now \in Nat
      /\ Output.at \in Nat /\ Output.second \in Int /\ Output \in Edges
  BY DEF Sents, PairingTypes, Edges, Output
<1>2. Labelled(m) = IF tick.now - Output.at > Association THEN ntpLabel.last
                    ELSE [edge |-> Output, utc |-> m.utc]
  BY <1>1 DEF Labelled, Output
<1>3. Labelled(m) \in Labels
  BY <1>1, <1>2 DEF Labels, PairingTypes
<1>4. m.utc # Output.second => SentLate(m, Output)
  BY <1>1, PairTypes DEF SentOf, SentLate, EdgeOf, OutputInv
<1>5. ~SentLate(m, Output) => ~(tick.now - Output.at > Association)
  BY <1>1, <1>4, PairTypes DEF SentOf, SentLate, EdgeOf
<1> QED
  BY <1>2, <1>3, <1>4, <1>5

LEMMA TakeNtpKeeps ==
  ASSUME PairingInv, TakeNtp
  PROVE  PairingInv'
<1> DEFINE m == Head(ntpSent)
<1>1. /\ ntpSent # <<>> /\ ntpSent' = Tail(ntpSent)
      /\ ntpLabel' = [last |-> Labelled(m), lost |-> FALSE]
      /\ UNCHANGED <<tick, picEpoch, espOutput, loop, auth, picTime>>
  BY DEF TakeNtp
<1>2. PairingTypes /\ EpochInv /\ WentRound /\ OutputInv /\ SentInv /\ LabelInv
      /\ EpochLabelIsItsOwn
  BY DEF PairingInv
<1>3. /\ ntpSent' \in Seq(Sents) /\ SentInv' /\ OutputInv' /\ Output' = Output
      /\ Output.second >= 0 /\ m = ntpSent[1] /\ m \in Sents /\ 1 \in DOMAIN ntpSent
      /\ \A i \in DOMAIN ntpSent' : \E j \in DOMAIN ntpSent : 1 < j /\ ntpSent'[i] = ntpSent[j]
      /\ ntpSent' = <<>> => ntpSent[Len(ntpSent)] = m
  BY <1>1, <1>2, FirstTaken
<1> HIDE DEF m
<1>4. /\ SentOf(m, tick.now, Output)
      /\ SentLate(m, Output) =>
           /\ loop.heldOnce /\ ~loop.held
           /\ \A i \in DOMAIN ntpSent' : ~SentLate(ntpSent'[i], Output)
  BY <1>2, <1>3 DEF SentInv
<1>5. /\ Labelled(m) \in Labels
      /\ SentLate(m, Output) \/ Labelled(m) = [edge |-> Output, utc |-> Output.second]
      /\ \/ Labelled(m) = ntpLabel.last \/ Labelled(m) = [edge |-> Output, utc |-> Output.second]
         \/ m.utc # Output.second /\ SentLate(m, Output)
  BY <1>2, <1>3, <1>4, LabelTaken
<1>6. ntpLabel' \in [last : Labels, lost : BOOLEAN] /\ ntpLabel'.last = Labelled(m)
  BY <1>1, <1>5
<1>7. Mislabelled => ~SentLate(m, Output)
  BY <1>2, <1>3 DEF LabelInv
<1>8. Mislabelled' => m.utc # Output.second /\ SentLate(m, Output)
  <2>1. CASE Labelled(m) = [edge |-> Output, utc |-> Output.second]
    BY <1>6, <2>1 DEF Mislabelled
  <2>2. CASE Labelled(m) = ntpLabel.last
    BY <1>5, <1>6, <1>7, <2>1, <2>2 DEF Mislabelled
  <2> QED
    BY <1>5, <2>1, <2>2
<1>9. LabelInv'
  <2> SUFFICES ASSUME Mislabelled'
               PROVE  /\ loop.heldOnce /\ ~loop.held
                      /\ \A i \in DOMAIN ntpSent' : ~SentLate(ntpSent'[i], Output)
                      /\ ~(espOutput.taken = espOutput.sequence /\ ntpSent' = <<>>)
    BY <1>1, <1>3 DEF LabelInv
  <2>1. espOutput.taken = espOutput.sequence => ntpSent[Len(ntpSent)].utc = Output.second
    BY <1>1, <1>2 DEF SentInv
  <2> QED
    BY <1>3, <1>4, <1>8, <2>1
<1>10. EpochInv' /\ WentRound' /\ EpochLabelIsItsOwn'
  BY <1>1, <1>2 DEF EpochInv, WentRound, EpochLabelIsItsOwn, PhaseOf
<1> QED
  BY <1>1, <1>2, <1>3, <1>6, <1>9, <1>10 DEF PairingInv, PairingTypes

-----------------------------------------------------------------------------
\* The loop

LEMMA HeldUpKeeps ==
  ASSUME PairingInv, HeldUp
  PROVE  PairingInv'
<1>1. /\ ~loop.held /\ ~loop.heldOnce /\ loop' = [loop EXCEPT !.held = TRUE, !.heldOnce = TRUE]
      /\ UNCHANGED <<tick, picEpoch, espOutput, auth, ntpSent, picTime, ntpLabel>>
  BY DEF HeldUp
<1>2. PairingTypes /\ EpochInv /\ WentRound /\ OutputInv /\ SentInv /\ LabelInv
      /\ EpochLabelIsItsOwn
  BY DEF PairingInv
<1>3. /\ loop' \in [last : Nat, held : BOOLEAN, heldOnce : BOOLEAN]
      /\ loop'.last = loop.last /\ loop'.held /\ loop'.heldOnce
  <2> DEFINE busy == [loop EXCEPT !.held = TRUE]
  <2>1. /\ busy \in [last : Nat, held : BOOLEAN, heldOnce : BOOLEAN]
        /\ busy.last = loop.last /\ busy.held
    BY <1>2 DEF PairingTypes
  <2>2. loop' = [busy EXCEPT !.heldOnce = TRUE]
    BY <1>1
  <2> HIDE DEF busy
  <2> QED
    BY <2>1, <2>2
<1>4. Output' = Output
  BY <1>1 DEF Output
<1>5. \A i \in DOMAIN ntpSent : ~SentLate(ntpSent[i], Output)
  BY <1>1, <1>2 DEF SentInv
<1>6. SentInv'
  BY <1>1, <1>2, <1>4, <1>5 DEF SentInv
<1>7. ~Mislabelled
  BY <1>1, <1>2 DEF LabelInv
<1>8. LabelInv'
  BY <1>1, <1>7 DEF LabelInv, Mislabelled
<1>9. EpochInv' /\ WentRound' /\ OutputInv' /\ EpochLabelIsItsOwn'
  BY <1>1, <1>2, <1>3, <1>4 DEF EpochInv, WentRound, OutputInv, EpochLabelIsItsOwn, PhaseOf
<1> QED
  BY <1>1, <1>2, <1>3, <1>6, <1>8, <1>9 DEF PairingInv, PairingTypes

\* What has come since the loop last went round is of the PIC's epoch, unless it was long.
LEMMA LoopPairs ==
  ASSUME PairingTypes, EpochInv, WentRound, EpochLabelIsItsOwn, MainLoop
  PROVE  /\ EpochInv' /\ EpochLabelIsItsOwn' /\ auth' \in Seq(Auths) /\ picTime' \in Labels
<1> DEFINE backlog == tick.now - loop.last > Backlog
           waiting == {i \in DOMAIN auth : auth[i].arrived}
<1>1. /\ loop'.last = tick.now /\ tick' = tick /\ picEpoch' = picEpoch
      /\ tick.now \in Nat /\ loop.last \in Nat /\ picEpoch \in Edges /\ picEpoch.at \in Nat
      /\ auth \in Seq(Auths) /\ picTime \in Labels
  BY DEF MainLoop, PairingTypes, Edges
<1>2. \A i \in DOMAIN auth : AuthOk(auth[i], tick.now, picEpoch, loop.last) /\ auth[i] \in Auths
  BY <1>1 DEF EpochInv
<1>3. ASSUME NEW m \in Auths, AuthOk(m, tick.now, picEpoch, loop.last), ~m.arrived
      PROVE  AuthOk(m, tick.now, picEpoch, tick.now)
  BY <1>3 DEF AuthOk
<1>4. CASE waiting = {}
  <2>1. auth' = auth /\ picTime' = picTime
    BY <1>4 DEF MainLoop
  <2>2. \A i \in DOMAIN auth : ~auth[i].arrived
    BY <1>4
  <2> QED
    BY <1>1, <1>2, <1>3, <2>1, <2>2 DEF EpochInv, EpochLabelIsItsOwn, PhaseOf
<1>5. CASE waiting # {}
  <2>1. PICK last \in waiting :
          /\ \A i \in waiting : i <= last
          /\ picTime' = PairTime(auth[last], backlog)
          /\ auth' = SubSeq(auth, last + 1, Len(auth))
    BY <1>5 DEF MainLoop
  <2>2. last \in DOMAIN auth /\ auth[last].arrived
    OBVIOUS
  <2>3. /\ auth' \in Seq(Auths)
        /\ \A i \in DOMAIN auth' :
             i + last \in DOMAIN auth /\ last < i + last /\ auth'[i] = auth[i + last]
    BY <1>1, <2>1, <2>2, LaterOnes
  <2>4. \A i \in DOMAIN auth : i \in Nat
    BY <1>1
  <2>5. \A i \in DOMAIN auth' : AuthOk(auth'[i], tick.now, picEpoch, tick.now)
    <3> SUFFICES ASSUME NEW i \in DOMAIN auth'
                 PROVE  AuthOk(auth'[i], tick.now, picEpoch, tick.now)
      OBVIOUS
    <3>1. i + last \in DOMAIN auth /\ last < i + last /\ auth'[i] = auth[i + last]
      BY <2>3
    <3>2. i + last \notin waiting
      BY <2>1, <2>2, <2>4, <3>1
    <3>3. ~auth[i + last].arrived
      BY <3>1, <3>2
    <3> QED
      BY <1>2, <1>3, <3>1, <3>3
  <2>6. EpochInv'
    BY <1>1, <2>5 DEF EpochInv, PhaseOf
  <2> DEFINE m == auth[last]
  <2>7. m \in Auths /\ AuthOk(m, tick.now, picEpoch, loop.last) /\ m.arrived
    BY <1>2, <2>2
  <2> HIDE DEF m
  <2>8. m.sent \in Nat /\ m.utc \in Int
    BY <2>7 DEF Auths
  <2>9. ~backlog => m.utc = picEpoch.second
    <3>1. picEpoch.at <= tick.now /\ picEpoch.at \in Int
      BY <1>1 DEF EpochInv, PairingTypes, Edges
    <3>2. /\ (m.sent = picEpoch.at /\ m.utc = picEpoch.second) \/ m.sent + SecondTicks <= picEpoch.at
          /\ loop.last <= m.sent + Transit
      BY <2>7 DEF AuthOk
    <3>3. /\ SecondTicks \in Nat /\ Transit \in Nat /\ Backlog \in Nat
          /\ Transit + Backlog < SecondTicks
      BY PairTypes
    <3>4. ~backlog => tick.now - loop.last <= Backlog
      BY <1>1, <3>3
    <3>5. ~backlog => ~(m.sent + SecondTicks <= picEpoch.at)
      <4> HIDE DEF backlog
      <4>1. SUFFICES ASSUME ~backlog, m.sent + SecondTicks <= picEpoch.at PROVE FALSE
        OBVIOUS
      <4>2. tick.now - loop.last <= Backlog
        BY <3>4, <4>1
      <4> QED
        BY <1>1, <2>8, <3>1, <3>2, <3>3, <4>1, <4>2
    <3> QED
      BY <3>2, <3>5
  <2>10. \/ picTime' = picTime
         \/ picTime' = [edge |-> picEpoch, utc |-> m.utc] /\ ~backlog
    BY <2>1 DEF PairTime, m
  <2>11. EpochLabelIsItsOwn' /\ picTime' \in Labels
    BY <1>1, <2>8, <2>9, <2>10 DEF EpochLabelIsItsOwn, Labels
  <2> QED
    BY <2>3, <2>6, <2>11
<1> QED
  BY <1>4, <1>5

\* An edge is reported late only by a loop that was held up.
LEMMA LoopReports ==
  ASSUME PairingTypes, WentRound, OutputInv, SentInv, LabelInv, MainLoop
  PROVE  /\ WentRound' /\ OutputInv' /\ SentInv' /\ LabelInv' /\ ntpSent' \in Seq(Sents)
         /\ espOutput' \in [edge : Edges, sequence : Nat, taken : Nat]
         /\ loop' \in [last : Nat, held : BOOLEAN, heldOnce : BOOLEAN]
<1> DEFINE new == [utc |-> Output.second, sent |-> tick.now]
<1>1. /\ tick.now \in Nat /\ loop.last \in Nat /\ Output \in Edges /\ Output.at \in Nat
      /\ Output.second \in Int /\ ntpSent \in Seq(Sents)
      /\ espOutput.taken \in Nat /\ espOutput.sequence \in Nat
      /\ espOutput \in [edge : Edges, sequence : Nat, taken : Nat]
  BY DEF PairingTypes, Edges, Output
<1>2. /\ loop' = [loop EXCEPT !.last = tick.now, !.held = FALSE]
      /\ tick' = tick /\ ntpLabel' = ntpLabel
  BY DEF MainLoop
<1>3. /\ loop' \in [last : Nat, held : BOOLEAN, heldOnce : BOOLEAN]
      /\ loop'.last = tick.now /\ ~loop'.held /\ (loop'.heldOnce <=> loop.heldOnce)
  <2> DEFINE went == [loop EXCEPT !.last = tick.now]
  <2>1. /\ went \in [last : Nat, held : BOOLEAN, heldOnce : BOOLEAN]
        /\ went.last = tick.now /\ (went.heldOnce <=> loop.heldOnce)
    BY <1>1 DEF PairingTypes
  <2>2. loop' = [went EXCEPT !.held = FALSE]
    BY <1>2
  <2> HIDE DEF went
  <2> QED
    BY <2>1, <2>2
<1>4. WentRound'
  BY <1>1, <1>2, <1>3, PairTypes DEF WentRound
<1>5. Mislabelled' <=> Mislabelled
  BY <1>2 DEF Mislabelled
<1>6. CASE espOutput.taken = espOutput.sequence
  <2>1. espOutput' = espOutput /\ ntpSent' = ntpSent /\ Output' = Output
    BY <1>6 DEF MainLoop, Output
  <2> QED
    BY <1>1, <1>2, <1>3, <1>4, <1>5, <1>6, <2>1 DEF OutputInv, SentInv, LabelInv, PhaseOf
<1>7. CASE espOutput.taken # espOutput.sequence
  <2>1. /\ espOutput' = [espOutput EXCEPT !.taken = espOutput.sequence]
        /\ ntpSent' = Append(ntpSent, new)
    BY <1>7 DEF MainLoop, Output
  <2>2. /\ espOutput' \in [edge : Edges, sequence : Nat, taken : Nat]
        /\ espOutput'.taken = espOutput.sequence /\ espOutput'.sequence = espOutput.sequence
        /\ Output' = Output
    BY <1>1, <2>1 DEF Output
  <2>3. new \in Sents /\ new.utc = Output.second /\ new.sent = tick.now
    BY <1>1 DEF Sents
  <2> HIDE DEF new
  <2>4. /\ Output.second >= 0 /\ Output.at <= tick.now /\ loop.last <= Output.at
    BY <1>1, <1>7 DEF OutputInv
  <2>5. OutputInv'
    BY <1>1, <1>2, <1>3, <2>2, <2>4 DEF OutputInv, PhaseOf
  <2>6. SentOf(new, tick.now, Output)
    BY <1>1, <2>3, <2>4, PairTypes DEF SentOf
  <2>7. SentLate(new, Output) => loop.held /\ loop.heldOnce
    BY <1>1, <2>3, <2>4, PairTypes DEF SentLate, EdgeOf, WentRound
  <2>8. /\ ntpSent' \in Seq(Sents) /\ ntpSent' # <<>> /\ ntpSent'[Len(ntpSent')] = new
        /\ \A i \in DOMAIN ntpSent' :
             i \in Nat /\ ((i \in DOMAIN ntpSent /\ ntpSent'[i] = ntpSent[i])
                             \/ (i = Len(ntpSent') /\ ntpSent'[i] = new))
        /\ \A i \in DOMAIN ntpSent : i < Len(ntpSent')
    BY <1>1, <2>1, <2>3, AtTheEnd
  <2>9. ASSUME NEW i \in DOMAIN ntpSent'
        PROVE  /\ SentOf(ntpSent'[i], tick.now, Output)
               /\ SentLate(ntpSent'[i], Output) => loop.heldOnce
    BY <2>6, <2>7, <2>8 DEF SentInv
  <2>10. ASSUME NEW i \in DOMAIN ntpSent', NEW j \in DOMAIN ntpSent', i < j,
                SentLate(ntpSent'[i], Output)
         PROVE  ~SentLate(ntpSent'[j], Output)
    <3>1. i \in Nat /\ j \in Nat /\ Len(ntpSent') \in Nat
      BY <2>8, LenProperties
    <3>2. i \in DOMAIN ntpSent /\ ntpSent'[i] = ntpSent[i]
      <4>1. j <= Len(ntpSent')
        BY <2>8, LenProperties
      <4> QED
        BY <2>8, <2>10, <3>1, <4>1
    <3>3. CASE j \in DOMAIN ntpSent /\ ntpSent'[j] = ntpSent[j]
      BY <2>10, <3>2, <3>3 DEF SentInv
    <3>4. CASE ntpSent'[j] = new
      BY <2>7, <2>10, <3>2, <3>4 DEF SentInv
    <3> QED
      BY <2>8, <3>3, <3>4
  <2>11. SentInv'
    BY <1>2, <1>3, <2>2, <2>3, <2>8, <2>9, <2>10 DEF SentInv
  <2>12. LabelInv'
    <3>1. Mislabelled => ~SentLate(new, Output)
      BY <2>7 DEF LabelInv
    <3>2. Mislabelled => \A i \in DOMAIN ntpSent' : ~SentLate(ntpSent'[i], Output)
      BY <2>8, <3>1 DEF LabelInv
    <3>3. Mislabelled => loop.heldOnce
      BY DEF LabelInv
    <3> QED
      BY <1>3, <1>5, <2>2, <2>8, <3>2, <3>3 DEF LabelInv
  <2> QED
    BY <1>3, <1>4, <2>2, <2>5, <2>8, <2>11, <2>12
<1> QED
  BY <1>6, <1>7

LEMMA MainLoopKeeps ==
  ASSUME PairingInv, MainLoop
  PROVE  PairingInv'
<1>1. UNCHANGED <<tick, picEpoch, ntpLabel>>
  BY DEF MainLoop
<1> QED
  BY <1>1, LoopPairs, LoopReports DEF PairingInv, PairingTypes

-----------------------------------------------------------------------------

LEMMA PairingStarts ==
  ASSUME PairingInit
  PROVE  PairingInv
<1>1. /\ tick \in [now : {0}, phase : EspPhases]
      /\ picEpoch = NoEdge /\ espOutput = [edge |-> NoEdge, sequence |-> 0, taken |-> 0]
      /\ loop = [last |-> 0, held |-> FALSE, heldOnce |-> FALSE]
      /\ auth = <<>> /\ ntpSent = <<>>
      /\ picTime = NoLabel /\ ntpLabel = [last |-> NoLabel, lost |-> FALSE]
  BY DEF PairingInit
<1>2. NoEdge \in Edges /\ NoEdge.at = 0 /\ NoEdge.second = -1
  BY DEF NoEdge, Edges
<1>3. NoLabel \in Labels /\ NoLabel.edge = NoEdge /\ NoLabel.utc = -1
  BY <1>2 DEF NoLabel, Labels
<1>4. /\ tick \in [now : Nat, phase : EspPhases] /\ tick.now = 0
      /\ espOutput \in [edge : Edges, sequence : Nat, taken : Nat] /\ Output = NoEdge
      /\ loop \in [last : Nat, held : BOOLEAN, heldOnce : BOOLEAN]
      /\ loop.last = 0 /\ ~loop.held
      /\ auth \in Seq(Auths) /\ ntpSent \in Seq(Sents)
      /\ ntpLabel \in [last : Labels, lost : BOOLEAN]
  BY <1>1, <1>2, <1>3 DEF Output
<1>5. PhaseOf(0) = 0
  BY PairTypes DEF PhaseOf
<1>6. EpochInv /\ WentRound /\ OutputInv
  BY <1>1, <1>2, <1>4, <1>5, PairTypes DEF EpochInv, WentRound, OutputInv
<1>7. SentInv /\ LabelInv /\ EpochLabelIsItsOwn
  BY <1>1, <1>2, <1>3 DEF SentInv, LabelInv, Mislabelled, EpochLabelIsItsOwn
<1> QED
  BY <1>1, <1>2, <1>3, <1>4, <1>6, <1>7 DEF PairingInv, PairingTypes

LEMMA PairingKeeps ==
  ASSUME PairingInv, [PairingNext]_pairingVars
  PROVE  PairingInv'
<1>1. CASE UNCHANGED pairingVars
  <2>1. UNCHANGED <<tick, picEpoch, espOutput, loop, auth, ntpSent, picTime, ntpLabel>>
    BY <1>1 DEF pairingVars
  <2>2. EpochInv'
    BY <2>1 DEF PairingInv, EpochInv, PhaseOf
  <2> QED
    BY <2>1, <2>2, Unmoved DEF PairingInv, PairingTypes
<1> QED
  BY <1>1, TickKeeps, HeldUpKeeps, ArriveKeeps, MainLoopKeeps, TakeNtpKeeps, LoseNtpKeeps,
     LoseAuthKeeps DEF PairingNext

\* Neither side takes a label for another edge's: the ESP never, however long its loop was
\* held up, and the PIC not once what follows has been heard (pic_link.cpp, source_ntp.c).
THEOREM LabelsAreOfTheirEdges == PairingSpec => []LabelsOfTheirEdges
<1>1. PairingInit => PairingInv
  BY PairingStarts
<1>2. PairingInv /\ [PairingNext]_pairingVars => PairingInv'
  BY PairingKeeps
<1>3. PairingInv => LabelsOfTheirEdges
  <2> SUFFICES ASSUME PairingInv
               PROVE  PpsLabelSettles
    BY DEF PairingInv, LabelsOfTheirEdges
  <2> SUFFICES ASSUME ntpSent = <<>>, espOutput.taken = espOutput.sequence, ~ntpLabel.lost
               PROVE  CountedOn = espOutput.edge.second
    BY DEF PpsLabelSettles
  <2>1. ~Mislabelled
    BY DEF PairingInv, LabelInv
  <2>2. espOutput.edge.second \in Int /\ ntpLabel.last.utc \in Int
    BY DEF PairingInv, PairingTypes, Edges, Labels
  <2> QED
    BY <2>1, <2>2 DEF Mislabelled, CountedOn
<1> QED
  BY <1>1, <1>2, <1>3, PTL DEF PairingSpec

-----------------------------------------------------------------------------
\* The settings on both sides of the link

Tokens  == 1 .. LastToken
Results == {"ACK", "NACK", "ACCEPTED"}
PicFrames ==
  [token : Tokens, command : Commands \ {"WRITE"}]
    \cup [token : Tokens, command : {"WRITE"}, revision : Nat, body : Bodies, base : Nat]
EspFrames ==
  [kind : {"ANSWER"}, token : Tokens, result : Results, revision : Nat, version : Nat]
    \cup [kind : {"STAT"}, revision : Nat, body : Bodies, version : Nat]

\* Since the dsPIC started, a revision is as far behind the present one as the body it
\* names is behind the present body.
Follows(p, r, v) == v <= p.version /\ (v >= p.era => r + p.version = p.revision + v)

SaveOk(p) ==
  p.answer # 0 =>
    /\ p.body \in p.since
    /\ ~p.saving /\ ~p.failed => p.kept # NoRecord /\ p.kept.body \in p.since

PicOk(p) ==
  /\ p \in Pic /\ p.answer \in 0 .. LastToken
  /\ p.era <= p.version /\ Follows(p, 0, 0) /\ SaveOk(p)

\* The write the ESP waits for is one, has a token of its own, and is the ESP's body
\* unless a change waits behind it.
IsWrite(e, i) == e.pending[i].command = "WRITE"
Awaited(e, t) == \E i \in DOMAIN e.pending : IsWrite(e, i) /\ e.pending[i].token = t

SlotsOk(e) ==
  /\ Len(e.pending) <= PendingMax
  /\ \A i \in DOMAIN e.pending : e.pending[i].token \in Tokens
  /\ \A i, j \in DOMAIN e.pending :
       /\ e.pending[i].token = e.pending[j].token => i = j
       /\ IsWrite(e, i) /\ IsWrite(e, j) => i = j

\* With a slot for every token, none is taken from the write.
Roomy == LastToken <= PendingMax

EspLinked(e, p) ==
  /\ e \in Esp /\ SlotsOk(e)
  /\ \A i \in DOMAIN e.pending : IsWrite(e, i) => e.writing /\ e.pending[i].token # p.answer
  /\ e.waiting => e.writing
  /\ Follows(p, e.revision, e.base)
  /\ Roomy /\ e.writing => \E i \in DOMAIN e.pending : IsWrite(e, i)

EspOk(e, p) ==
  /\ EspLinked(e, p)
  /\ e.valid /\ ~e.writing /\ e.base = p.version => e.body = p.body

ForPic(p, e) ==
  {f \in PicFrames :
     /\ f.command = "WRITE" => Follows(p, f.revision, f.base)
     /\ Awaited(e, f.token) => f.command = "WRITE" /\ (e.waiting \/ f.body = e.body)}

ForEsp(p, e) ==
  {f \in EspFrames :
     /\ Follows(p, f.revision, f.version)
     /\ f.kind = "STAT" /\ f.version = p.version => f.body = p.body
     /\ f.kind = "ANSWER" /\ f.result = "ACK" /\ Awaited(e, f.token) /\ f.version = p.version =>
          e.waiting \/ e.body = p.body}

LinkInv ==
  /\ PicOk(pic) /\ menu \in Menu /\ EspOk(esp, pic)
  /\ toPic \in Seq(ForPic(pic, esp)) /\ toEsp \in Seq(ForEsp(pic, esp))

-----------------------------------------------------------------------------
\* The dsPIC's side

\* However the settings change, the version says so, and the revision follows it.
Evolves(p, q) ==
  \/ q.version = p.version /\ q.era = p.era /\ q.revision = p.revision /\ q.body = p.body
  \/ q.version = p.version + 1 /\ q.era = p.era /\ q.revision = p.revision + 1
  \/ q.version = p.version + 1 /\ q.era = q.version

LEMMA LinkTypes ==
  /\ Default \in Bodies /\ NoRecord \notin [body : Bodies, revision : Nat]
  /\ PendingMax \in Nat /\ PendingMax > 0 /\ LastToken \in Nat /\ 1 \in Tokens
BY LinkAssumption DEF Tokens

LEMMA FollowsOn ==
  ASSUME NEW p \in Pic, NEW q \in Pic, Evolves(p, q), p.era <= p.version,
         NEW r \in Nat, NEW v \in Nat, Follows(p, r, v)
  PROVE  Follows(q, r, v) /\ (v = q.version => q.version = p.version /\ q.body = p.body)
<1>1. /\ p.version \in Nat /\ p.era \in Nat /\ p.revision \in Nat
      /\ q.version \in Nat /\ q.era \in Nat /\ q.revision \in Nat
  BY DEF Pic
<1>2. Follows(q, r, v)
  BY <1>1 DEF Evolves, Follows
<1>3. v = q.version => q.version = p.version /\ q.body = p.body
  BY <1>1 DEF Evolves, Follows
<1> QED
  BY <1>2, <1>3

LEMMA EspFollows ==
  ASSUME NEW p \in Pic, NEW q \in Pic, Evolves(p, q), p.era <= p.version,
         NEW e, EspOk(e, p), q.answer # 0 => q.answer = p.answer \/ ~Awaited(e, q.answer)
  PROVE  EspOk(e, q)
<1>1. e \in Esp /\ e.revision \in Nat /\ e.base \in Nat /\ Follows(p, e.revision, e.base)
  BY DEF EspOk, EspLinked, Esp
<1>2. Follows(q, e.revision, e.base) /\ (e.base = q.version => q.version = p.version /\ q.body = p.body)
  BY <1>1, FollowsOn
<1>3. ASSUME NEW i \in DOMAIN e.pending, IsWrite(e, i)
      PROVE  e.writing /\ e.pending[i].token # q.answer
  <2>1. e.writing /\ e.pending[i].token # p.answer /\ e.pending[i].token \in Tokens
    BY <1>3 DEF EspOk, EspLinked, SlotsOk
  <2>2. Awaited(e, e.pending[i].token) /\ e.pending[i].token # 0
    BY <1>3, <2>1 DEF Awaited, Tokens
  <2> QED
    BY <2>1, <2>2
<1>4. e.valid /\ ~e.writing /\ e.base = q.version => e.body = q.body
  BY <1>2 DEF EspOk
<1> QED
  BY <1>2, <1>3, <1>4 DEF EspOk, EspLinked

LEMMA LinesFollow ==
  ASSUME NEW p \in Pic, NEW q \in Pic, Evolves(p, q), p.era <= p.version, NEW e
  PROVE  ForPic(p, e) \subseteq ForPic(q, e) /\ ForEsp(p, e) \subseteq ForEsp(q, e)
<1>1. ASSUME NEW f \in ForPic(p, e)
      PROVE  f \in ForPic(q, e)
  <2>1. f.command = "WRITE" => f.revision \in Nat /\ f.base \in Nat
    BY DEF ForPic, PicFrames
  <2>2. f.command = "WRITE" => Follows(q, f.revision, f.base)
    BY <2>1, FollowsOn DEF ForPic
  <2> QED
    BY <2>2 DEF ForPic
<1>2. ASSUME NEW f \in ForEsp(p, e)
      PROVE  f \in ForEsp(q, e)
  <2>1. f.revision \in Nat /\ f.version \in Nat
    BY DEF ForEsp, EspFrames
  <2>2. /\ Follows(q, f.revision, f.version)
        /\ f.version = q.version => q.version = p.version /\ q.body = p.body
    BY <2>1, FollowsOn DEF ForEsp
  <2> QED
    BY <2>2 DEF ForEsp
<1> QED
  BY <1>1, <1>2

\* What the dsPIC's functions do.
LEMMA WriteOk ==
  ASSUME NEW p, PicOk(p), NEW body \in Bodies
  PROVE  LET q == SettingsWrite(p, body)
         IN  PicOk(q) /\ Evolves(p, q) /\ q.body = body /\ q.answer = p.answer
<1> DEFINE q == SettingsWrite(p, body)
<1>1. CASE body = p.body
  BY <1>1 DEF SettingsWrite, Evolves
<1>2. CASE body # p.body
  <2>1. p \in Pic /\ PicOk(p)
    BY DEF PicOk
  <2> DEFINE since == IF p.answer = 0 THEN {} ELSE p.since \cup {body}
  <2>2. q = [p EXCEPT !.body = body, !.revision = @ + 1, !.version = @ + 1, !.since = since]
    BY <1>2, <2>1 DEF SettingsWrite, Pic
  <2>3. since \in SUBSET Bodies
    BY <2>1 DEF Pic
  <2>4. /\ p.answer # 0 => body \in since
        /\ p.answer # 0 => \A b \in p.since : b \in since
    OBVIOUS
  <2> HIDE DEF since
  <2>5. q \in Pic
    <3> DEFINE n == p.revision + 1
               m == p.version + 1
    <3>1. n \in Nat /\ m \in Nat
      BY <2>1 DEF Pic
    <3>2. q = [p EXCEPT !.body = body, !.revision = n, !.version = m, !.since = since]
      BY <2>2
    <3> HIDE DEF n, m, q
    <3> QED
      BY <2>1, <2>3, <3>1, <3>2 DEF Pic
  <2>6. /\ q.body = body /\ q.revision = p.revision + 1 /\ q.version = p.version + 1
        /\ q.since = since /\ q.answer = p.answer /\ q.era = p.era /\ q.kept = p.kept
        /\ q.saving = p.saving /\ q.failed = p.failed
    BY <2>1, <2>2 DEF Pic
  <2>7. SaveOk(q)
    BY <2>1, <2>4, <2>6 DEF SaveOk, PicOk
  <2>8. Evolves(p, q)
    BY <2>6 DEF Evolves
  <2>9. q.era <= q.version /\ Follows(q, 0, 0)
    BY <2>1, <2>6 DEF PicOk, Pic, Follows
  <2>10. q.answer \in 0 .. LastToken
    BY <2>1, <2>6 DEF PicOk
  <2>11. PicOk(q)
    BY <2>5, <2>7, <2>9, <2>10 DEF PicOk
  <2> QED
    BY <2>6, <2>8, <2>11
<1> QED
  BY <1>1, <1>2

LEMMA SaveAsked ==
  ASSUME NEW p, PicOk(p)
  PROVE  LET q == SettingsSave(p)
         IN  /\ PicOk(q) /\ Evolves(p, q) /\ q.answer = p.answer /\ q.body = p.body
             /\ q = [p EXCEPT !.saving = TRUE]
BY DEF SettingsSave, PicOk, Pic, Evolves, SaveOk, Follows

LEMMA StartedOk ==
  ASSUME NEW p, PicOk(p)
  PROVE  LET q == Started(p)
         IN  PicOk(q) /\ Evolves(p, q) /\ q.answer = 0 /\ q.era # p.era
<1> DEFINE record == IF p.kept = NoRecord THEN [body |-> Default, revision |-> 0] ELSE p.kept
           q == Started(p)
<1>1. /\ p.version \in Nat /\ p.kept \in [body : Bodies, revision : Nat] \cup {NoRecord}
  BY DEF PicOk, Pic
<1>2. record \in [body : Bodies, revision : Nat]
  BY <1>1, LinkTypes
<1>3. q = [body |-> record.body, revision |-> record.revision, kept |-> p.kept,
           sml |-> FALSE, sent |-> <<>>, saving |-> FALSE, failed |-> FALSE, answer |-> 0,
           version |-> p.version + 1, era |-> p.version + 1, since |-> {}]
  BY DEF Started
<1> HIDE DEF record, q
<1>4. q \in Pic
  BY <1>1, <1>2, <1>3 DEF Pic
<1>5. q.answer = 0 /\ q.version = p.version + 1 /\ q.era = p.version + 1
  BY <1>3
<1>6. PicOk(q) /\ Evolves(p, q)
  BY <1>1, <1>4, <1>5, LinkTypes DEF PicOk, Evolves, SaveOk, Follows
<1>7. p.version \in Nat /\ p.era \in Nat /\ p.era <= p.version
  BY DEF PicOk, Pic
<1> QED
  BY <1>5, <1>6, <1>7 DEF q

-----------------------------------------------------------------------------
\* The dsPIC's steps

\* A step of the dsPIC takes at most the first frame of one line and adds to the other.
LEMMA PicMoves ==
  ASSUME LinkInv, PicOk(pic'), Evolves(pic, pic'), menu' \in Menu, esp' = esp,
         pic'.answer # 0 => pic'.answer = pic.answer \/ ~Awaited(esp, pic'.answer),
         toPic' = toPic \/ (toPic # <<>> /\ toPic' = Tail(toPic)),
         NEW frames \in Seq(ForEsp(pic', esp)),
         toEsp' = toEsp \/ toEsp' = toEsp \o frames
  PROVE  LinkInv'
<1>1. /\ pic \in Pic /\ pic' \in Pic /\ pic.era <= pic.version /\ EspOk(esp, pic)
      /\ toPic \in Seq(ForPic(pic, esp)) /\ toEsp \in Seq(ForEsp(pic, esp))
  BY DEF LinkInv, PicOk
<1> DEFINE P == ForPic(pic', esp)
           E == ForEsp(pic', esp)
<1>2. EspOk(esp, pic')
  BY <1>1, EspFollows
<1>3. ForPic(pic, esp) \subseteq P /\ ForEsp(pic, esp) \subseteq E
  BY <1>1, LinesFollow
<1>4. frames \in Seq(E)
  OBVIOUS
<1> HIDE DEF P, E
<1>5. toPic \in Seq(P) /\ toEsp \in Seq(E)
  BY <1>1, <1>3, SeqMonotonic
<1>6. toPic' \in Seq(P)
  BY <1>5, HeadTailProperties
<1>7. toEsp \o frames \in Seq(E)
  BY <1>4, <1>5, ConcatProperties
<1>8. toEsp' \in Seq(E)
  BY <1>5, <1>7
<1> QED
  BY <1>2, <1>6, <1>8 DEF LinkInv, P, E

\* The menu's steps, the store's and a restart send nothing.
LEMMA PicQuiet ==
  ASSUME LinkInv, PicOk(pic'), Evolves(pic, pic'), menu' \in Menu,
         UNCHANGED <<esp, toPic, toEsp>>, pic'.answer \in {0, pic.answer}
  PROVE  LinkInv'
<1>1. <<>> \in Seq(ForEsp(pic', esp))
  BY EmptySeq
<1> QED
  BY <1>1, PicMoves

LEMMA SettingsServiceSafe == LinkInv /\ SettingsService => LinkInv'
<1> SUFFICES ASSUME LinkInv, SettingsService PROVE LinkInv'
  OBVIOUS
<1>1. /\ PicOk(pic) /\ pic \in Pic /\ menu \in Menu
      /\ pic.kept \in [body : Bodies, revision : Nat] \cup {NoRecord} /\ pic.body \in Bodies
      /\ pic.revision \in Nat
  BY DEF LinkInv, PicOk, Pic
<1> DEFINE asStored == pic.kept # NoRecord /\ ~Flags(pic)[1]
<1>2. PICK ok \in BOOLEAN :
        /\ asStored => ok
        /\ pic' = [pic EXCEPT
             !.saving = FALSE, !.failed = ~ok,
             !.kept = IF asStored \/ ~ok THEN @
                      ELSE [body |-> pic.body, revision |-> pic.revision]]
  BY DEF SettingsService
<1>3. asStored => pic.kept # NoRecord /\ pic.kept.body = pic.body
  BY DEF Flags, StoredBody
<1> HIDE DEF asStored
<1> DEFINE kept   == IF asStored \/ ~ok THEN pic.kept ELSE [body |-> pic.body, revision |-> pic.revision]
           failed == ~ok
<1>4. /\ kept \in [body : Bodies, revision : Nat] \cup {NoRecord} /\ failed \in BOOLEAN
      /\ ok => kept # NoRecord /\ kept.body = pic.body
  <2>1. [body |-> pic.body, revision |-> pic.revision] \in [body : Bodies, revision : Nat]
    BY <1>1
  <2>2. [body |-> pic.body, revision |-> pic.revision] # NoRecord
    BY <1>1, LinkTypes
  <2> QED
    BY <1>1, <1>3, <2>1, <2>2
<1>5. pic' = [pic EXCEPT !.saving = FALSE, !.failed = failed, !.kept = kept]
  BY <1>1, <1>2 DEF Pic
<1>6. ok <=> ~failed
  OBVIOUS
<1> HIDE DEF kept, failed
<1>7. /\ pic' \in Pic /\ pic'.failed = failed /\ pic'.kept = kept
      /\ pic'.answer = pic.answer /\ pic'.body = pic.body /\ pic'.since = pic.since
      /\ pic'.version = pic.version /\ pic'.era = pic.era /\ pic'.revision = pic.revision
  BY <1>1, <1>4, <1>5 DEF Pic
<1>8. PicOk(pic') /\ Evolves(pic, pic')
  BY <1>1, <1>4, <1>6, <1>7 DEF PicOk, Evolves, SaveOk, Follows
<1> QED
  BY <1>1, <1>7, <1>8, PicQuiet DEF SettingsService

LEMMA MenuSafe ==
  LinkInv /\ (MenuEdits \/ MenuConfirms \/ MenuCloses \/ MenuResets \/ PicRestart) => LinkInv'
<1> SUFFICES ASSUME LinkInv, MenuEdits \/ MenuConfirms \/ MenuCloses \/ MenuResets \/ PicRestart
             PROVE  LinkInv'
  OBVIOUS
<1>1. PicOk(pic) /\ pic \in Pic /\ menu \in Menu /\ NoMenu \in Menu /\ pic.version \in Nat
  BY DEF LinkInv, PicOk, Pic, NoMenu, Menu
<1>2. Evolves(pic, pic)
  BY DEF Evolves
<1>3. CASE MenuEdits
  <2>1. pic' = pic /\ menu' \in Menu /\ UNCHANGED <<esp, toPic, toEsp>>
    BY <1>1, <1>3 DEF MenuEdits, Menu
  <2> QED
    BY <1>1, <1>2, <2>1, PicQuiet
<1>4. CASE MenuConfirms
  <2>1. PICK body \in Bodies : pic' = SettingsWrite(pic, body)
    BY <1>4 DEF MenuConfirms
  <2>2. PicOk(pic') /\ Evolves(pic, pic') /\ pic'.answer = pic.answer
    BY <1>1, <2>1, WriteOk
  <2>3. menu' \in Menu /\ UNCHANGED <<esp, toPic, toEsp>>
    BY <1>1, <1>4 DEF MenuConfirms, Menu
  <2> QED
    BY <1>1, <2>2, <2>3, PicQuiet
<1>5. CASE MenuCloses
  <2>1. pic' = pic \/ pic' = SettingsSave(pic)
    BY <1>5 DEF MenuCloses
  <2>2. PicOk(pic') /\ Evolves(pic, pic') /\ pic'.answer = pic.answer
    BY <1>1, <1>2, <2>1, SaveAsked
  <2>3. menu' \in Menu /\ UNCHANGED <<esp, toPic, toEsp>>
    BY <1>1, <1>5 DEF MenuCloses
  <2> QED
    BY <1>1, <2>2, <2>3, PicQuiet
<1>6. CASE MenuResets
  <2> DEFINE q == SettingsWrite(pic, Default)
  <2>1. pic' = SettingsSave(q)
    BY <1>6 DEF MenuResets
  <2>2. PicOk(q) /\ Evolves(pic, q) /\ q.answer = pic.answer
    BY <1>1, LinkTypes, WriteOk
  <2> HIDE DEF q
  <2>3. /\ PicOk(pic') /\ pic' = [q EXCEPT !.saving = TRUE] /\ pic'.answer = q.answer
    BY <2>1, <2>2, SaveAsked
  <2>4. Evolves(pic, pic')
    BY <2>2, <2>3 DEF Evolves, PicOk, Pic
  <2>5. menu' \in Menu /\ UNCHANGED <<esp, toPic, toEsp>>
    BY <1>1, <1>6 DEF MenuResets
  <2> QED
    BY <1>1, <2>2, <2>3, <2>4, <2>5, PicQuiet
<1>7. CASE PicRestart
  <2>1. PicOk(pic') /\ Evolves(pic, pic') /\ pic'.answer = 0
    BY <1>1, <1>7, StartedOk DEF PicRestart
  <2>2. menu' \in Menu /\ UNCHANGED <<esp, toPic, toEsp>>
    BY <1>1, <1>7 DEF PicRestart
  <2> QED
    BY <1>1, <2>1, <2>2, PicQuiet
<1> QED
  BY <1>3, <1>4, <1>5, <1>6, <1>7

\* esp_link.c sends.
LEMMA StatOk ==
  ASSUME NEW p, PicOk(p), NEW e
  PROVE  LET q == StatSent(p)
         IN  /\ PicOk(q) /\ Evolves(p, q) /\ q.answer = p.answer
             /\ q.version = p.version /\ q.era = p.era /\ q.revision = p.revision /\ q.body = p.body
             /\ StatSettings(p) \in ForEsp(q, e)
<1> DEFINE q == StatSent(p)
           sent == <<p.revision, p.body # StoredBody(p), p.body = Default>>
<1>1. p \in Pic /\ PicOk(p) /\ p.revision \in Nat /\ p.version \in Nat /\ p.body \in Bodies
  BY DEF PicOk, Pic
<1>2. <<p.revision>> \o Flags(p) = sent
  <2> DEFINE a == p.body # StoredBody(p)
             b == p.body = Default
             S == {p.revision, a, b}
             t == <<p.revision>> \o <<a, b>>
  <2>1. <<p.revision>> \in Seq(S) /\ <<a, b>> \in Seq(S) /\ <<p.revision, a, b>> \in Seq(S)
    OBVIOUS
  <2> HIDE DEF a, b, S
  <2>2. /\ t \in Seq(S) /\ Len(t) = 3
        /\ \A i \in 1 .. 3 : t[i] = IF i <= 1 THEN <<p.revision>>[i] ELSE <<a, b>>[i - 1]
    BY <2>1, ConcatProperties
  <2> HIDE DEF t
  <2>3. \A i \in 1 .. 3 : t[i] = <<p.revision, a, b>>[i]
    BY <2>2
  <2>4. t = <<p.revision, a, b>>
    BY <2>1, <2>2, <2>3, SeqEqual
  <2> QED
    BY <2>4 DEF t, a, b, Flags
<1>3. sent \in Nat \X BOOLEAN \X BOOLEAN
  BY <1>1
<1>4. q = [p EXCEPT !.sent = sent]
  BY <1>2 DEF StatSent
<1> HIDE DEF q, sent
<1>5. /\ q \in Pic /\ q.answer = p.answer /\ q.body = p.body /\ q.since = p.since
      /\ q.version = p.version /\ q.era = p.era /\ q.revision = p.revision
      /\ q.saving = p.saving /\ q.failed = p.failed /\ q.kept = p.kept
  BY <1>1, <1>3, <1>4 DEF Pic
<1>6. PicOk(q) /\ Evolves(p, q)
  BY <1>1, <1>5 DEF PicOk, Evolves, SaveOk, Follows
<1>7. StatSettings(p) \in ForEsp(q, e)
  <2> DEFINE f == StatSettings(p)
  <2>1. f \in EspFrames /\ f.kind = "STAT" /\ f.revision = p.revision /\ f.version = p.version
        /\ f.body = p.body
    BY <1>1 DEF StatSettings, EspFrames
  <2> HIDE DEF f
  <2> QED
    BY <1>1, <1>5, <2>1 DEF ForEsp, Follows, f
<1> QED
  BY <1>5, <1>6, <1>7 DEF q

\* An answer of the dsPIC as it is, or was a step before.
LEMMA AnswerOk ==
  ASSUME NEW p \in Pic, NEW q \in Pic, p.era <= p.version, q.era <= q.version,
         Evolves(p, q) \/ p = q,
         NEW token \in Tokens, NEW result \in Results, NEW e,
         result = "ACK" /\ Awaited(e, token) /\ p.version = q.version => e.waiting \/ e.body = q.body
  PROVE  Answer(p, token, result) \in ForEsp(q, e)
<1> DEFINE f == Answer(p, token, result)
<1>1. p.revision \in Nat /\ p.version \in Nat /\ q.revision \in Nat /\ q.version \in Nat
      /\ p.era \in Nat /\ q.era \in Nat
  BY DEF Pic
<1>2. /\ f \in EspFrames /\ f.kind = "ANSWER" /\ f.revision = p.revision /\ f.version = p.version
      /\ f.token = token /\ f.result = result
  BY <1>1 DEF Answer, EspFrames
<1> HIDE DEF f
<1>3. Follows(q, f.revision, f.version)
  BY <1>1, <1>2 DEF Follows, Evolves
<1> QED
  BY <1>2, <1>3 DEF ForEsp, f

LEMMA LinkEpochSafe == LinkInv /\ LinkEpoch => LinkInv'
<1> SUFFICES ASSUME LinkInv, LinkEpoch PROVE LinkInv'
  OBVIOUS
<1> DEFINE stat == StatSettings(pic)
<1>1. PicOk(pic) /\ menu \in Menu /\ toEsp \in Seq(ForEsp(pic, esp))
  BY DEF LinkInv
<1>2. pic' = StatSent(pic) /\ toEsp' = Append(toEsp, stat) /\ UNCHANGED <<menu, esp, toPic>>
  BY DEF LinkEpoch
<1>3. /\ PicOk(pic') /\ Evolves(pic, pic') /\ pic'.answer = pic.answer
      /\ stat \in ForEsp(pic', esp)
  BY <1>1, <1>2, StatOk
<1> HIDE DEF stat
<1>4. <<stat>> \in Seq(ForEsp(pic', esp))
  BY <1>3
<1>5. toEsp' = toEsp \o <<stat>>
  BY <1>1, <1>2, AppendIsConcat
<1> QED
  BY <1>1, <1>2, <1>3, <1>4, <1>5, PicMoves

LEMMA AnswerSaveSafe == LinkInv /\ AnswerSave => LinkInv'
<1> SUFFICES ASSUME LinkInv, AnswerSave PROVE LinkInv'
  OBVIOUS
<1> DEFINE result == IF pic.failed THEN "NACK" ELSE "ACK"
           answer == Answer(pic, pic.answer, result)
<1>1. PicOk(pic) /\ pic \in Pic /\ menu \in Menu /\ toEsp \in Seq(ForEsp(pic, esp)) /\ EspOk(esp, pic)
  BY DEF LinkInv, PicOk
<1>2. /\ pic' = [pic EXCEPT !.answer = 0, !.since = {}]
      /\ toEsp' = Append(toEsp, answer) /\ UNCHANGED <<menu, esp, toPic>> /\ pic.answer # 0
  BY DEF AnswerSave
<1>3. /\ pic' \in Pic /\ PicOk(pic') /\ Evolves(pic, pic') /\ pic'.answer = 0
      /\ pic.era <= pic.version /\ pic'.era <= pic'.version
  <2>1. pic' \in Pic
    BY <1>1, <1>2 DEF Pic
  <2>2. /\ pic'.answer = 0 /\ pic'.era = pic.era /\ pic'.version = pic.version
        /\ pic'.revision = pic.revision /\ pic'.body = pic.body
    BY <1>1, <1>2 DEF Pic
  <2>3. 0 \in 0 .. LastToken
    BY LinkTypes
  <2> QED
    BY <1>1, <2>1, <2>2, <2>3 DEF PicOk, Evolves, SaveOk, Follows
<1>4. ~Awaited(esp, pic.answer)
  BY <1>1 DEF EspOk, EspLinked, Awaited
<1>5. pic.answer \in Tokens /\ result \in Results
  BY <1>1, <1>2 DEF PicOk, Tokens, Results
<1> HIDE DEF result
<1>6. answer \in ForEsp(pic', esp)
  BY <1>1, <1>3, <1>4, <1>5, AnswerOk
<1> HIDE DEF answer
<1>7. <<answer>> \in Seq(ForEsp(pic', esp))
  BY <1>6
<1>8. toEsp' = toEsp \o <<answer>>
  BY <1>1, <1>2, AppendIsConcat
<1> QED
  BY <1>1, <1>2, <1>3, <1>7, <1>8, PicMoves

\* Frames from the ESP: each handler, of what was heard.
LEMMA HandleSettingsOk ==
  ASSUME NEW p, PicOk(p), NEW e, NEW f \in ForPic(p, e), f.command = "WRITE"
  PROVE  LET d == HandleSettings(p, f)
         IN  /\ PicOk(d.pic) /\ Evolves(p, d.pic) /\ d.pic.answer = p.answer
             /\ d.frames \in Seq(ForEsp(d.pic, e))
<1> DEFINE done == SettingsWrite(p, f.body)
           ack  == Answer(done, f.token, "ACK")
           nack == Answer(p, f.token, "NACK")
<1>1. /\ p \in Pic /\ p.era <= p.version /\ f.token \in Tokens /\ f.body \in Bodies
      /\ Awaited(e, f.token) => e.waiting \/ f.body = e.body
  BY DEF PicOk, ForPic, PicFrames
<1>2. PicOk(done) /\ Evolves(p, done) /\ done.body = f.body /\ done.answer = p.answer
  BY <1>1, WriteOk
<1>3. HandleSettings(p, f) = IF f.revision # p.revision THEN [pic |-> p, frames |-> <<nack>>]
                             ELSE [pic |-> done, frames |-> <<ack>>]
  BY DEF HandleSettings
<1> HIDE DEF done
<1>4. "ACK" \in Results /\ "NACK" \in Results /\ "NACK" # "ACK"
  BY DEF Results
<1>5. ack \in ForEsp(done, e)
  BY <1>1, <1>2, <1>4, AnswerOk DEF PicOk
<1>6. nack \in ForEsp(p, e)
  BY <1>1, <1>4, AnswerOk
<1>7. Evolves(p, p)
  BY DEF Evolves
<1> HIDE DEF ack, nack
<1>8. <<ack>> \in Seq(ForEsp(done, e)) /\ <<nack>> \in Seq(ForEsp(p, e))
  BY <1>5, <1>6
<1>9. CASE f.revision # p.revision
  <2>1. HandleSettings(p, f) = [pic |-> p, frames |-> <<nack>>]
    BY <1>3, <1>9
  <2> QED
    BY <1>7, <1>8, <2>1
<1>10. CASE f.revision = p.revision
  <2>1. HandleSettings(p, f) = [pic |-> done, frames |-> <<ack>>]
    BY <1>3, <1>10
  <2> QED
    BY <1>2, <1>8, <2>1
<1> QED
  BY <1>9, <1>10

LEMMA HandleCommandOk ==
  ASSUME NEW p, PicOk(p), NEW e, NEW f \in ForPic(p, e), f.command # "WRITE"
  PROVE  LET d == HandleCommand(p, f)
         IN  /\ PicOk(d.pic) /\ Evolves(p, d.pic)
             /\ d.pic.answer # 0 => d.pic.answer = p.answer \/ ~Awaited(e, d.pic.answer)
             /\ p.answer # 0 /\ d.pic.era = p.era => d.pic.answer = p.answer
             /\ d.frames \in Seq(ForEsp(d.pic, e))
<1> DEFINE d == HandleCommand(p, f)
<1>1. /\ p \in Pic /\ p.era <= p.version /\ f.token \in Tokens /\ ~Awaited(e, f.token)
      /\ f.command \in Commands \ {"WRITE"} /\ p.answer \in 0 .. LastToken
      /\ p.body \in Bodies
  BY DEF PicOk, ForPic, PicFrames, Pic
<1>2. Evolves(p, p) /\ "ACK" \in Results /\ "NACK" \in Results /\ "ACCEPTED" \in Results
  BY DEF Evolves, Results
<1>3. ASSUME NEW q, PicOk(q), Evolves(p, q), NEW result \in Results
      PROVE  Answer(p, f.token, result) \in ForEsp(q, e) /\ Answer(q, f.token, result) \in ForEsp(q, e)
  BY <1>1, <1>3, AnswerOk DEF PicOk
<1>4. CASE f.command = "ASK"
  <2> DEFINE q == StatSent(p)
             stat == StatSettings(p)
             ack == Answer(p, f.token, "ACK")
  <2>1. d = [pic |-> q, frames |-> <<stat, ack>>]
    BY <1>4 DEF HandleCommand
  <2>2. PicOk(q) /\ Evolves(p, q) /\ q.answer = p.answer /\ stat \in ForEsp(q, e)
    BY StatOk
  <2> HIDE DEF q, stat
  <2>3. ack \in ForEsp(q, e)
    BY <1>2, <1>3, <2>2
  <2> HIDE DEF ack, d
  <2>4. <<stat, ack>> \in Seq(ForEsp(q, e))
    BY <2>2, <2>3
  <2> QED
    BY <2>1, <2>2, <2>4 DEF d
<1>5. CASE f.command = "SAVE" /\ p.answer # 0
  <2> DEFINE nack == Answer(p, f.token, "NACK")
  <2>1. d = [pic |-> p, frames |-> <<nack>>]
    BY <1>5 DEF HandleCommand
  <2>2. nack \in ForEsp(p, e)
    BY <1>2, <1>3
  <2> HIDE DEF nack, d
  <2>3. <<nack>> \in Seq(ForEsp(p, e))
    BY <2>2
  <2> QED
    BY <1>2, <2>1, <2>3 DEF d
<1>6. CASE f.command = "SAVE" /\ p.answer = 0
  <2> DEFINE r == SettingsSave(p)
             q == [r EXCEPT !.answer = f.token, !.since = {p.body}]
             accepted == Answer(p, f.token, "ACCEPTED")
  <2>1. d = [pic |-> q, frames |-> <<accepted>>]
    BY <1>6 DEF HandleCommand
  <2>2. /\ PicOk(r) /\ r \in Pic /\ Evolves(p, r) /\ r = [p EXCEPT !.saving = TRUE]
    BY SaveAsked DEF PicOk
  <2> HIDE DEF r
  <2>3. f.token \in Nat /\ f.token \in 0 .. LastToken /\ {p.body} \in SUBSET Bodies
    BY <1>1, LinkTypes DEF Tokens
  <2>4. /\ q \in Pic /\ q.answer = f.token /\ q.since = {p.body} /\ q.body = p.body
        /\ q.version = p.version /\ q.era = p.era /\ q.revision = p.revision /\ q.saving
    BY <1>1, <2>2, <2>3 DEF Pic
  <2>5. PicOk(q) /\ Evolves(p, q)
    BY <1>1, <2>3, <2>4 DEF PicOk, Evolves, SaveOk, Follows
  <2> HIDE DEF q
  <2>6. accepted \in ForEsp(q, e)
    BY <1>2, <1>3, <2>5
  <2> HIDE DEF accepted, d
  <2>7. <<accepted>> \in Seq(ForEsp(q, e))
    BY <2>6
  <2> QED
    BY <1>1, <1>6, <2>1, <2>4, <2>5, <2>7 DEF d
<1>7. CASE f.command = "DEFAULTS"
  <2> DEFINE q == SettingsWrite(p, Default)
             ack == Answer(q, f.token, "ACK")
  <2>1. d = [pic |-> q, frames |-> <<ack>>]
    BY <1>7 DEF HandleCommand
  <2>2. PicOk(q) /\ Evolves(p, q) /\ q.answer = p.answer
    BY LinkTypes, WriteOk
  <2> HIDE DEF q
  <2>3. ack \in ForEsp(q, e)
    BY <1>2, <1>3, <2>2
  <2> HIDE DEF ack, d
  <2>4. <<ack>> \in Seq(ForEsp(q, e))
    BY <2>3
  <2> QED
    BY <2>1, <2>2, <2>4 DEF d
<1>8. CASE f.command = "RESET"
  <2> DEFINE q == Started(p)
             ack == Answer(p, f.token, "ACK")
  <2>1. d = [pic |-> q, frames |-> <<ack>>]
    BY <1>8 DEF HandleCommand
  <2>2. PicOk(q) /\ Evolves(p, q) /\ q.answer = 0 /\ q.era # p.era
    BY StartedOk
  <2> HIDE DEF q
  <2>3. ack \in ForEsp(q, e)
    BY <1>2, <1>3, <2>2
  <2> HIDE DEF ack, d
  <2>4. <<ack>> \in Seq(ForEsp(q, e))
    BY <2>3
  <2> QED
    BY <2>1, <2>2, <2>4 DEF d
<1>9. f.command \in {"ASK", "SAVE", "DEFAULTS", "RESET"}
  BY <1>1 DEF Commands
<1> QED
  BY <1>4, <1>5, <1>6, <1>7, <1>8, <1>9

LEMMA HeardOk ==
  ASSUME NEW p, PicOk(p), NEW e
  PROVE  LET q == [p EXCEPT !.sml = TRUE]
         IN  /\ q \in Pic /\ PicOk(q) /\ q.version = p.version /\ q.era = p.era /\ q.answer = p.answer
             /\ q.revision = p.revision /\ q.body = p.body
             /\ ForPic(p, e) \subseteq ForPic(q, e)
<1> DEFINE q == [p EXCEPT !.sml = TRUE]
<1>1. p \in Pic /\ PicOk(p) /\ p.era <= p.version
  BY DEF PicOk
<1>2. /\ q \in Pic /\ q.version = p.version /\ q.era = p.era /\ q.answer = p.answer
      /\ q.revision = p.revision /\ q.body = p.body /\ q.since = p.since
      /\ q.saving = p.saving /\ q.failed = p.failed /\ q.kept = p.kept
  BY <1>1 DEF Pic
<1> HIDE DEF q
<1>3. PicOk(q)
  BY <1>1, <1>2 DEF PicOk, SaveOk, Follows
<1>4. ForPic(p, e) \subseteq ForPic(q, e)
  BY <1>1, <1>2, LinesFollow DEF Evolves
<1> QED
  BY <1>2, <1>3, <1>4 DEF q

LEMMA PicReceiveSafe == LinkInv /\ PicReceive => LinkInv'
<1> SUFFICES ASSUME LinkInv, PicReceive PROVE LinkInv'
  OBVIOUS
<1> DEFINE frame == Head(toPic)
           heard == [pic EXCEPT !.sml = TRUE]
           done  == IF frame.command = "WRITE" THEN HandleSettings(heard, frame)
                    ELSE HandleCommand(heard, frame)
<1>1. /\ PicOk(pic) /\ pic \in Pic /\ menu \in Menu /\ NoMenu \in Menu /\ pic.era <= pic.version
      /\ toPic \in Seq(ForPic(pic, esp))
  BY DEF LinkInv, PicOk, Menu, NoMenu
<1>2. /\ toPic # <<>> /\ pic' = done.pic /\ toEsp' = toEsp \o done.frames /\ toPic' = Tail(toPic)
      /\ menu' \in Menu /\ esp' = esp
  BY <1>1 DEF PicReceive
<1>3. /\ PicOk(heard) /\ heard.version = pic.version /\ heard.era = pic.era
      /\ heard.answer = pic.answer /\ heard.revision = pic.revision /\ heard.body = pic.body
      /\ ForPic(pic, esp) \subseteq ForPic(heard, esp)
  BY <1>1, HeardOk
<1>4. frame \in ForPic(pic, esp)
  BY <1>1, <1>2, HeadTailProperties
<1> HIDE DEF heard, frame
<1>5. frame \in ForPic(heard, esp)
  BY <1>3, <1>4
<1>6. /\ PicOk(done.pic) /\ Evolves(heard, done.pic)
      /\ done.pic.answer # 0 => done.pic.answer = heard.answer \/ ~Awaited(esp, done.pic.answer)
      /\ done.frames \in Seq(ForEsp(done.pic, esp))
  BY <1>3, <1>5, HandleSettingsOk, HandleCommandOk
<1> HIDE DEF done
<1>7. Evolves(pic, done.pic)
  BY <1>3, <1>6 DEF Evolves
<1> QED
  BY <1>1, <1>2, <1>3, <1>6, <1>7, PicMoves

-----------------------------------------------------------------------------
\* The ESP's side

\* A write awaited then, unless by the token t, was awaited before, and of the same body
\* unless a change waits.
Narrows(e, g, t) ==
  \A u \in Tokens \ {t} :
    Awaited(g, u) => Awaited(e, u) /\ (e.waiting => g.waiting) /\ (g.waiting \/ g.body = e.body)

LEMMA NarrowsOn ==
  ASSUME NEW e, NEW g, NEW h, NEW t, Narrows(e, g, 0), Narrows(g, h, t)
  PROVE  Narrows(e, h, t)
<1>1. \A u \in Tokens : u # 0
  BY DEF Tokens
<1> QED
  BY <1>1 DEF Narrows

LEMMA EachIn ==
  ASSUME NEW S, NEW T, NEW s \in Seq(S), \A i \in DOMAIN s : s[i] \in T
  PROVE  s \in Seq(T)
OBVIOUS

LEMMA ElementIn ==
  ASSUME NEW S, NEW s \in Seq(S), NEW i \in DOMAIN s
  PROVE  s[i] \in S
OBVIOUS

\* A step of the ESP sends frames and takes at most one.
LEMMA EspMoves ==
  ASSUME LinkInv, NEW g, EspOk(g, pic), NEW t, Narrows(esp, g, t), ~UnderWay(t),
         NEW frames \in Seq(ForPic(pic, g)),
         esp' = g, toPic' = toPic \o frames, UNCHANGED <<pic, menu>>,
         toEsp' = toEsp \/ (toEsp # <<>> /\ toEsp' = Tail(toEsp))
  PROVE  LinkInv'
<1> DEFINE P == ForPic(pic, g)
           E == ForEsp(pic, g)
<1>1. /\ toPic \in Seq(ForPic(pic, esp)) /\ toEsp \in Seq(ForEsp(pic, esp)) /\ PicOk(pic) /\ menu \in Menu
  BY DEF LinkInv
<1>2. ASSUME NEW i \in DOMAIN toPic
      PROVE  toPic[i] \in P
  <2>1. toPic[i] \in ForPic(pic, esp) /\ toPic[i].token # t
    BY <1>1, ElementIn DEF UnderWay
  <2>2. toPic[i].token \in Tokens
    BY <2>1 DEF ForPic, PicFrames
  <2> QED
    BY <2>1, <2>2 DEF ForPic, Narrows
<1>3. ASSUME NEW i \in DOMAIN toEsp
      PROVE  toEsp[i] \in E
  <2>1. toEsp[i] \in ForEsp(pic, esp) /\ (toEsp[i].kind = "ANSWER" => toEsp[i].token # t)
    BY <1>1, ElementIn DEF UnderWay
  <2>2. toEsp[i].kind = "ANSWER" => toEsp[i].token \in Tokens
    BY <2>1 DEF ForEsp, EspFrames
  <2> QED
    BY <2>1, <2>2 DEF ForEsp, Narrows
<1>4. frames \in Seq(P)
  OBVIOUS
<1> HIDE DEF P, E
<1>5. toPic \in Seq(P) /\ toEsp \in Seq(E)
  BY <1>1, <1>2, <1>3, EachIn
<1>6. toPic' \in Seq(P)
  BY <1>4, <1>5, ConcatProperties
<1>7. toEsp' \in Seq(E)
  BY <1>5, HeadTailProperties
<1>8. P = ForPic(pic', esp') /\ E = ForEsp(pic', esp')
  BY DEF P, E
<1> QED
  BY <1>1, <1>6, <1>7, <1>8 DEF LinkInv

\* NextToken() finds one.
LEMMA NatsHaveLeast ==
  ASSUME NEW S \in SUBSET Nat, S # {}
  PROVE  \E x \in S : \A y \in S : x <= y
<1> DEFINE R == OpToRel(<, Nat)
<1>1. \A x, y \in Nat : x < y => <<x, y>> \in R
  BY DEF OpToRel
<1>2. IsWellFoundedOn(R, Nat)
  BY NatLessThanWellFounded
<1> HIDE DEF R
<1>3. PICK x \in S : \A y \in S : ~(<<y, x>> \in R)
  BY <1>2, WFMin
<1>4. ASSUME NEW y \in S PROVE x <= y
  <2>1. x \in Nat /\ y \in Nat /\ ~(y < x)
    BY <1>1, <1>3
  <2> QED
    BY <2>1
<1> QED
  BY <1>4

Slots == [token : Nat, command : Commands]

LEMMA FreshToken ==
  ASSUME LinkInv, NEW e, e.pending \in Seq(Slots), SlotsOk(e)
  PROVE  LET t == NextToken(e)
         IN  /\ t \in Nat \ {0} /\ ~UnderWay(t) /\ t # pic.answer
             /\ \A i \in DOMAIN e.pending : e.pending[i].token # t
<1> DEFINE free == {t \in 1 .. LastToken + 1 :
                      ~UnderWay(t) /\ SlotOf(e, t) = {} /\ pic.answer # t}
           n == LastToken + 1
<1>1. LastToken \in Nat /\ n \in 1 .. LastToken + 1 /\ n \notin Tokens /\ n > 0
  BY LinkTypes DEF Tokens
<1>2. pic.answer # n
  BY <1>1 DEF LinkInv, PicOk
<1>3. SlotOf(e, n) = {}
  BY <1>1 DEF SlotOf, SlotsOk
<1>4. ~UnderWay(n)
  <2>1. ASSUME NEW i \in DOMAIN toPic
        PROVE  toPic[i].token # n
    BY <1>1, ElementIn DEF LinkInv, ForPic, PicFrames
  <2>2. ASSUME NEW i \in DOMAIN toEsp, toEsp[i].kind = "ANSWER"
        PROVE  toEsp[i].token # n
    <3>1. toEsp[i] \in ForEsp(pic, esp)
      BY ElementIn DEF LinkInv
    <3> QED
      BY <1>1, <2>2, <3>1 DEF ForEsp, EspFrames
  <2> QED
    BY <2>1, <2>2 DEF UnderWay
<1>5. n \in free /\ free \in SUBSET Nat
  BY <1>1, <1>2, <1>3, <1>4
<1>6. NextToken(e) = Min(free)
  BY DEF NextToken
<1>7. NextToken(e) \in free
  <2> HIDE DEF free
  <2>1. \E x \in free : \A y \in free : x <= y
    BY <1>5, NatsHaveLeast
  <2> QED
    BY <1>6, <2>1 DEF Min
<1> QED
  BY <1>7 DEF SlotOf

\* A token of its own for every slot: there are no more than tokens.
LEMMA SlotsAreFewer ==
  ASSUME NEW e, e.pending \in Seq(Slots), SlotsOk(e), NEW t \in Tokens,
         \A i \in DOMAIN e.pending : e.pending[i].token # t
  PROVE  Len(e.pending) < LastToken
<1> DEFINE n == Len(e.pending)
           f == [i \in 1 .. n |-> e.pending[i].token]
           T == Tokens \ {t}
<1>1. n \in Nat /\ DOMAIN e.pending = 1 .. n
  BY LenProperties
<1>2. f \in Injection(1 .. n, T)
  <2>1. f \in [1 .. n -> T]
    BY <1>1 DEF SlotsOk
  <2>2. \A i, j \in 1 .. n : f[i] = f[j] => i = j
    BY <1>1 DEF SlotsOk
  <2> HIDE DEF f
  <2> QED
    BY <2>1, <2>2 DEF Injection, IsInjective
<1>3. IsFiniteSet(Tokens) /\ Cardinality(Tokens) = LastToken
  BY LinkTypes, FS_Interval DEF Tokens
<1>4. IsFiniteSet(T) /\ Cardinality(T) = LastToken - 1
  BY <1>3, FS_RemoveElement
<1>5. IsFiniteSet(1 .. n) /\ Cardinality(1 .. n) = n
  BY <1>1, FS_Interval
<1> HIDE DEF f, T, n
<1>6. Cardinality(1 .. n) <= Cardinality(T)
  BY <1>2, <1>4, FS_Injection
<1> QED
  BY <1>1, <1>4, <1>5, <1>6, LinkTypes DEF n

\* take_slot(): the slots there were, but for the oldest if all were taken, and one more.
LEMMA TakeSlotOk ==
  ASSUME LinkInv, NEW e \in Esp, SlotsOk(e), NEW command \in Commands, NextToken(e) <= LastToken,
         command = "WRITE" => \A i \in DOMAIN e.pending : ~IsWrite(e, i)
  PROVE  LET g == TakeSlot(e, command)
             t == NextToken(e)
         IN  /\ g = [e EXCEPT !.pending = g.pending] /\ g.pending \in Seq(Slots)
             /\ g \in Esp /\ SlotsOk(g) /\ t \in Tokens /\ ~UnderWay(t) /\ t # pic.answer
             /\ \A i \in DOMAIN g.pending :
                  \/ g.pending[i].token = t /\ g.pending[i].command = command
                  \/ g.pending[i].token # t /\ \E j \in DOMAIN e.pending : g.pending[i] = e.pending[j]
             /\ \E i \in DOMAIN g.pending : g.pending[i].command = command
             /\ Roomy => \A j \in DOMAIN e.pending : \E i \in DOMAIN g.pending :
                  g.pending[i] = e.pending[j]
<1> DEFINE t    == NextToken(e)
           new  == [token |-> t, command |-> command]
           full == Len(e.pending) = PendingMax
           old  == IF full THEN Tail(e.pending) ELSE e.pending
           k    == IF full THEN 1 ELSE 0
           next == Append(old, new)
           g    == TakeSlot(e, command)
<1>1. e.pending \in Seq(Slots)
  BY DEF Esp, Slots
<1>2. /\ t \in Tokens /\ ~UnderWay(t) /\ t # pic.answer
      /\ \A i \in DOMAIN e.pending : e.pending[i].token # t
  BY <1>1, FreshToken, LinkTypes DEF Tokens
<1>3. g = [e EXCEPT !.pending = next]
  BY DEF TakeSlot
<1> HIDE DEF g, t
<1>4. /\ Len(e.pending) \in Nat /\ DOMAIN e.pending = 1 .. Len(e.pending) /\ Len(e.pending) <= PendingMax
      /\ PendingMax \in Nat /\ PendingMax > 0
  BY <1>1, LenProperties, LinkTypes DEF SlotsOk
<1>5. /\ old \in Seq(Slots) /\ Len(old) < PendingMax /\ Len(old) = Len(e.pending) - k
      /\ \A i \in 1 .. Len(old) : old[i] = e.pending[i + k] /\ i + k \in DOMAIN e.pending
  <2>1. CASE full
    <3>1. e.pending # <<>>
      BY <1>1, <1>4, <2>1, EmptySeq
    <3>2. /\ Tail(e.pending) \in Seq(Slots) /\ Len(Tail(e.pending)) = Len(e.pending) - 1
          /\ \A i \in 1 .. Len(Tail(e.pending)) : Tail(e.pending)[i] = e.pending[i + 1]
      BY <1>1, <3>1, HeadTailProperties
    <3>3. old = Tail(e.pending) /\ k = 1
      BY <2>1
    <3> HIDE DEF old, k
    <3> QED
      BY <1>4, <2>1, <3>2, <3>3
  <2>2. CASE ~full
    <3>1. old = e.pending /\ k = 0
      BY <2>2
    <3> HIDE DEF old, k
    <3> QED
      BY <1>1, <1>4, <2>2, <3>1
  <2> QED
    BY <2>1, <2>2
<1>6. k \in {0, 1}
  OBVIOUS
<1>7. Roomy => k = 0
  <2>1. Len(e.pending) < LastToken
    BY <1>1, <1>2, SlotsAreFewer
  <2> QED
    BY <1>4, <2>1, LinkTypes DEF Roomy
<1>8. new \in Slots
  BY <1>2 DEF Slots, Tokens
<1> HIDE DEF old, k, new
<1>9. /\ next \in Seq(Slots) /\ Len(next) = Len(old) + 1 /\ next[Len(old) + 1] = new
      /\ \A i \in 1 .. Len(old) : next[i] = old[i]
  BY <1>5, <1>8, AppendProperties
<1>10. DOMAIN next = 1 .. Len(old) + 1 /\ Len(old) \in Nat
  BY <1>5, <1>9, LenProperties
<1> HIDE DEF next
<1>11. new.token = t /\ new.command = command
  BY DEF new
<1>12. g.pending = next /\ g = [e EXCEPT !.pending = g.pending] /\ g \in Esp
  BY <1>3, <1>9 DEF Esp, Slots
<1>13. ASSUME NEW i \in DOMAIN next
       PROVE  \/ i = Len(old) + 1 /\ next[i] = new
              \/ /\ i \in 1 .. Len(old) /\ i + k \in DOMAIN e.pending
                 /\ next[i] = e.pending[i + k] /\ next[i].token # t
  <2>1. i = Len(old) + 1 \/ i \in 1 .. Len(old)
    BY <1>10
  <2>2. CASE i \in 1 .. Len(old)
    BY <1>2, <1>5, <1>9, <2>2
  <2> QED
    BY <1>9, <2>1, <2>2
<1>14. SlotsOk(g)
  <2>1. Len(next) <= PendingMax
    BY <1>4, <1>5, <1>9, <1>10
  <2>2. \A i \in DOMAIN next : next[i].token \in Tokens
    BY <1>2, <1>11, <1>13 DEF SlotsOk
  <2>3. ASSUME NEW i \in DOMAIN next, NEW j \in DOMAIN next,
               \/ next[i].token = next[j].token
               \/ next[i].command = "WRITE" /\ next[j].command = "WRITE"
        PROVE  i = j
    <3>1. CASE next[i] = new /\ next[j] # new
      BY <1>11, <1>13, <2>3, <3>1 DEF IsWrite
    <3>2. CASE next[j] = new /\ next[i] # new
      BY <1>11, <1>13, <2>3, <3>2 DEF IsWrite
    <3>3. CASE next[i] = new /\ next[j] = new
      BY <1>11, <1>13, <3>3
    <3>4. CASE next[i] # new /\ next[j] # new
      <4>1. /\ i + k \in DOMAIN e.pending /\ next[i] = e.pending[i + k]
            /\ j + k \in DOMAIN e.pending /\ next[j] = e.pending[j + k]
        BY <1>13, <3>4
      <4>2. i + k = j + k
        BY <2>3, <4>1 DEF SlotsOk, IsWrite
      <4> QED
        BY <1>6, <1>10, <4>2
    <3> QED
      BY <3>1, <3>2, <3>3, <3>4
  <2> QED
    BY <1>12, <2>1, <2>2, <2>3 DEF SlotsOk, IsWrite
<1>15. \A i \in DOMAIN next :
         \/ next[i].token = t /\ next[i].command = command
         \/ next[i].token # t /\ \E j \in DOMAIN e.pending : next[i] = e.pending[j]
  BY <1>11, <1>13
<1>16. Len(old) + 1 \in DOMAIN next /\ next[Len(old) + 1].command = command
  BY <1>9, <1>10, <1>11
<1>17. ASSUME Roomy, NEW j \in DOMAIN e.pending
       PROVE  \E i \in DOMAIN next : next[i] = e.pending[j]
  <2>1. j \in 1 .. Len(old) /\ old[j] = e.pending[j]
    BY <1>4, <1>5, <1>7, <1>17
  <2> QED
    BY <1>9, <1>10, <2>1
<1> QED
  BY <1>2, <1>9, <1>12, <1>14, <1>15, <1>16, <1>17 DEF g, t

\* What the ESP may do, being e: d.frames is sent, and only d's own token is new.
EspMay(e, d) ==
  /\ EspOk(d.esp, pic)
  /\ \E t : Narrows(e, d.esp, t) /\ ~UnderWay(t) /\ d.frames \in Seq(ForPic(pic, d.esp))

InBound(d) == \A i \in DOMAIN d.frames : d.frames[i].token <= LastToken

LEMMA NoneUnderWay == LinkInv => ~UnderWay(0)
<1> SUFFICES ASSUME LinkInv PROVE ~UnderWay(0)
  OBVIOUS
<1>1. ASSUME NEW i \in DOMAIN toPic
      PROVE  toPic[i].token # 0
  BY ElementIn DEF LinkInv, ForPic, PicFrames, Tokens
<1>2. ASSUME NEW i \in DOMAIN toEsp, toEsp[i].kind = "ANSWER"
      PROVE  toEsp[i].token # 0
  <2>1. toEsp[i] \in ForEsp(pic, esp)
    BY ElementIn DEF LinkInv
  <2> QED
    BY <1>2, <2>1 DEF ForEsp, EspFrames, Tokens
<1> QED
  BY <1>1, <1>2 DEF UnderWay

LEMMA EspDoesSafe ==
  ASSUME LinkInv, NEW d, EspMay(esp, d), EspDoes(d),
         toEsp' = toEsp \/ (toEsp # <<>> /\ toEsp' = Tail(toEsp))
  PROVE  LinkInv'
<1>1. PICK t : Narrows(esp, d.esp, t) /\ ~UnderWay(t) /\ d.frames \in Seq(ForPic(pic, d.esp))
  BY DEF EspMay
<1> QED
  BY <1>1, EspMoves DEF EspMay, EspDoes

\* Nothing sent, and no write awaited that was not.
LEMMA MaySilently ==
  ASSUME LinkInv, NEW e, NEW g, EspOk(g, pic), Narrows(e, g, 0)
  PROVE  EspMay(e, [esp |-> g, frames |-> <<>>])
<1>1. <<>> \in Seq(ForPic(pic, g))
  BY EmptySeq
<1> QED
  BY <1>1, NoneUnderWay DEF EspMay

LEMMA MayThen ==
  ASSUME NEW e, NEW g, NEW d, Narrows(e, g, 0), EspMay(g, d)
  PROVE  EspMay(e, d)
BY NarrowsOn DEF EspMay

LEMMA RequestOk ==
  ASSUME LinkInv, NEW e, EspOk(e, pic), NEW command \in Commands \ {"WRITE"},
         InBound(Request(e, command))
  PROVE  EspMay(e, Request(e, command))
<1> DEFINE t     == NextToken(e)
           g     == TakeSlot(e, command)
           frame == [token |-> t, command |-> command]
<1>1. Request(e, command) = [esp |-> g, frames |-> <<frame>>]
  BY DEF Request
<1>2. t <= LastToken
  BY <1>1 DEF InBound
<1>3. e \in Esp /\ SlotsOk(e) /\ EspLinked(e, pic)
  BY DEF EspOk, EspLinked
<1>4. /\ g = [e EXCEPT !.pending = g.pending]
      /\ g \in Esp /\ SlotsOk(g) /\ t \in Tokens /\ ~UnderWay(t) /\ t # pic.answer
      /\ \A i \in DOMAIN g.pending :
           \/ g.pending[i].token = t /\ g.pending[i].command = command
           \/ g.pending[i].token # t /\ \E j \in DOMAIN e.pending : g.pending[i] = e.pending[j]
      /\ Roomy => \A j \in DOMAIN e.pending : \E i \in DOMAIN g.pending :
           g.pending[i] = e.pending[j]
  BY <1>2, <1>3, TakeSlotOk
<1> HIDE DEF g, t
<1>5. /\ g.writing = e.writing /\ g.waiting = e.waiting /\ g.valid = e.valid /\ g.body = e.body
      /\ g.revision = e.revision /\ g.base = e.base
  BY <1>3, <1>4 DEF Esp
<1>6. \A i \in DOMAIN g.pending : IsWrite(g, i) =>
        g.pending[i].token # t /\ \E j \in DOMAIN e.pending : g.pending[i] = e.pending[j] /\ IsWrite(e, j)
  BY <1>4 DEF IsWrite
<1>7. EspOk(g, pic)
  <2>1. \A i \in DOMAIN g.pending : IsWrite(g, i) => g.writing /\ g.pending[i].token # pic.answer
    BY <1>3, <1>5, <1>6 DEF EspLinked
  <2>2. ASSUME Roomy, g.writing
        PROVE  \E i \in DOMAIN g.pending : IsWrite(g, i)
    BY <1>3, <1>4, <1>5, <2>2 DEF EspLinked, IsWrite
  <2> QED
    BY <1>3, <1>4, <1>5, <2>1, <2>2 DEF EspOk, EspLinked
<1>8. \A u : Awaited(g, u) => u # t /\ Awaited(e, u)
  BY <1>6 DEF Awaited
<1>9. Narrows(e, g, t)
  BY <1>5, <1>8 DEF Narrows
<1>10. frame \in ForPic(pic, g)
  BY <1>4, <1>8 DEF ForPic, PicFrames
<1> HIDE DEF frame
<1>11. <<frame>> \in Seq(ForPic(pic, g))
  BY <1>10
<1> QED
  BY <1>1, <1>4, <1>7, <1>9, <1>11 DEF EspMay

LEMMA SendOk ==
  ASSUME LinkInv, NEW e, EspLinked(e, pic), ~e.writing, InBound(SendSettings(e))
  PROVE  EspMay(e, SendSettings(e))
<1> DEFINE t     == NextToken(e)
           q     == TakeSlot(e, "WRITE")
           g     == [q EXCEPT !.writing = TRUE]
           frame == [token |-> t, command |-> "WRITE", revision |-> e.revision,
                     body |-> e.body, base |-> e.base]
<1>1. SendSettings(e) = [esp |-> g, frames |-> <<frame>>]
  BY DEF SendSettings
<1>2. t <= LastToken
  BY <1>1 DEF InBound
<1>3. e \in Esp /\ SlotsOk(e) /\ "WRITE" \in Commands /\ \A i \in DOMAIN e.pending : ~IsWrite(e, i)
  BY DEF EspLinked, Commands
<1>4. /\ q = [e EXCEPT !.pending = q.pending]
      /\ q \in Esp /\ SlotsOk(q) /\ t \in Tokens /\ ~UnderWay(t) /\ t # pic.answer
      /\ \A i \in DOMAIN q.pending :
           \/ q.pending[i].token = t /\ q.pending[i].command = "WRITE"
           \/ q.pending[i].token # t /\ \E j \in DOMAIN e.pending : q.pending[i] = e.pending[j]
      /\ \E i \in DOMAIN q.pending : q.pending[i].command = "WRITE"
  BY <1>2, <1>3, TakeSlotOk
<1> HIDE DEF q, t
<1>5. /\ g \in Esp /\ g.writing /\ g.waiting = e.waiting /\ g.body = e.body
      /\ g.revision = e.revision /\ g.base = e.base /\ g.pending = q.pending
  BY <1>3, <1>4 DEF Esp
<1> HIDE DEF g
<1>6. \A i \in DOMAIN g.pending : IsWrite(g, i) => g.pending[i].token = t
  BY <1>3, <1>4, <1>5 DEF IsWrite
<1>7. EspOk(g, pic)
  <2>1. SlotsOk(g)
    BY <1>4, <1>5 DEF SlotsOk, IsWrite
  <2>2. \E i \in DOMAIN g.pending : IsWrite(g, i)
    BY <1>4, <1>5 DEF IsWrite
  <2>3. Follows(pic, g.revision, g.base)
    BY <1>5 DEF EspLinked
  <2> QED
    BY <1>4, <1>5, <1>6, <2>1, <2>2, <2>3 DEF EspOk, EspLinked
<1>8. Narrows(e, g, t)
  BY <1>6 DEF Narrows, Awaited
<1>9. frame \in ForPic(pic, g)
  <2>1. frame \in PicFrames
    BY <1>3, <1>4 DEF PicFrames, Esp
  <2>2. Follows(pic, e.revision, e.base)
    BY DEF EspLinked
  <2> QED
    BY <1>5, <2>1, <2>2 DEF ForPic
<1> HIDE DEF frame
<1>10. <<frame>> \in Seq(ForPic(pic, g))
  BY <1>9
<1> QED
  BY <1>1, <1>4, <1>7, <1>8, <1>10 DEF EspMay

LEMMA ConsoleChangeOk ==
  ASSUME LinkInv, NEW body \in Bodies, InBound(ConsoleChange(esp, body))
  PROVE  EspMay(esp, ConsoleChange(esp, body))
<1>1. EspOk(esp, pic) /\ EspLinked(esp, pic) /\ esp \in Esp
  BY DEF LinkInv, EspOk, EspLinked
<1>2. CASE ~esp.valid
  <2>1. ConsoleChange(esp, body) = Request(esp, "ASK") /\ "ASK" \in Commands \ {"WRITE"}
    BY <1>2 DEF ConsoleChange, AskForSettings, Commands
  <2> QED
    BY <1>1, <2>1, RequestOk
<1>3. CASE esp.valid /\ esp.writing
  <2> DEFINE g == [esp EXCEPT !.body = body, !.waiting = TRUE]
  <2>1. ConsoleChange(esp, body) = [esp |-> g, frames |-> <<>>]
    BY <1>3 DEF ConsoleChange
  <2>2. /\ g \in Esp /\ g.pending = esp.pending /\ g.writing /\ g.waiting
        /\ g.revision = esp.revision /\ g.base = esp.base
    BY <1>1, <1>3 DEF Esp
  <2> HIDE DEF g
  <2>3. EspOk(g, pic) /\ Narrows(esp, g, 0)
    BY <1>1, <1>3, <2>2 DEF EspOk, EspLinked, SlotsOk, IsWrite, Narrows, Awaited
  <2> QED
    BY <2>1, <2>3, MaySilently
<1>4. CASE esp.valid /\ ~esp.writing
  <2> DEFINE g == [esp EXCEPT !.body = body]
  <2>1. ConsoleChange(esp, body) = SendSettings(g)
    BY <1>4 DEF ConsoleChange
  <2>2. /\ g \in Esp /\ g.pending = esp.pending /\ g.writing = esp.writing /\ g.waiting = esp.waiting
        /\ g.revision = esp.revision /\ g.base = esp.base
    BY <1>1 DEF Esp
  <2> HIDE DEF g
  <2>3. EspLinked(g, pic) /\ Narrows(esp, g, 0)
    BY <1>1, <1>4, <2>2 DEF EspLinked, SlotsOk, IsWrite, Narrows, Awaited
  <2>4. EspMay(g, SendSettings(g))
    BY <1>4, <2>1, <2>2, <2>3, SendOk
  <2> QED
    BY <2>1, <2>3, <2>4, MayThen
<1> QED
  BY <1>1, <1>2, <1>3, <1>4

\* A slot is freed.
LEMMA Removed ==
  ASSUME NEW S, NEW s \in Seq(S), NEW n \in DOMAIN s
  PROVE  LET t == RemoveAt(s, n)
         IN  /\ t \in Seq(S) /\ Len(t) = Len(s) - 1
             /\ \A i \in 1 .. Len(s) - 1 : t[i] = s[IF i < n THEN i ELSE i + 1]
<1> DEFINE a == SubSeq(s, 1, n - 1)
           b == SubSeq(s, n + 1, Len(s))
           t == a \o b
<1>1. DOMAIN s = 1 .. Len(s) /\ Len(s) \in Nat /\ n \in 1 .. Len(s)
  BY LenProperties
<1>2. \A i \in 1 .. Len(s) : s[i] \in S
  BY <1>1
<1>3. /\ a \in Seq(S) /\ Len(a) = n - 1 /\ \A i \in 1 .. n - 1 : a[i] = s[i]
  BY <1>1, <1>2, SubSeqProperties
<1>4. /\ b \in Seq(S) /\ Len(b) = Len(s) - n /\ \A i \in 1 .. Len(s) - n : b[i] = s[i + n]
  BY <1>1, <1>2, SubSeqProperties
<1> HIDE DEF a, b
<1>5. /\ t \in Seq(S) /\ Len(t) = Len(s) - 1
      /\ \A i \in 1 .. Len(s) - 1 : t[i] = IF i <= n - 1 THEN a[i] ELSE b[i - (n - 1)]
  <2>1. /\ t \in Seq(S) /\ Len(t) = Len(a) + Len(b)
        /\ \A i \in 1 .. Len(a) + Len(b) : t[i] = IF i <= Len(a) THEN a[i] ELSE b[i - Len(a)]
    BY <1>3, <1>4, ConcatProperties
  <2>2. Len(a) + Len(b) = Len(s) - 1
    BY <1>1, <1>3, <1>4
  <2> HIDE DEF t
  <2> QED
    BY <1>3, <2>1, <2>2
<1> HIDE DEF t
<1>6. \A i \in 1 .. Len(s) - 1 : t[i] = s[IF i < n THEN i ELSE i + 1]
  <2> SUFFICES ASSUME NEW i \in 1 .. Len(s) - 1
               PROVE  t[i] = s[IF i < n THEN i ELSE i + 1]
    OBVIOUS
  <2>1. CASE i < n
    BY <1>1, <1>3, <1>5, <2>1
  <2>2. CASE ~(i < n)
    <3>1. i - (n - 1) \in 1 .. Len(s) - n /\ (i - (n - 1)) + n = i + 1
      BY <1>1, <2>2
    <3>2. b[i - (n - 1)] = s[i + 1]
      BY <1>4, <3>1
    <3> QED
      BY <1>1, <1>5, <2>2, <3>2
  <2> QED
    BY <2>1, <2>2
<1> QED
  BY <1>5, <1>6 DEF t, a, b, RemoveAt

Freed(e, n) == [e EXCEPT !.pending = RemoveAt(@, n)]

LEMMA FreedOk ==
  ASSUME NEW e \in Esp, SlotsOk(e), NEW n \in DOMAIN e.pending
  PROVE  LET g == Freed(e, n)
         IN  /\ g \in Esp /\ SlotsOk(g) /\ g = [e EXCEPT !.pending = g.pending]
             /\ \A i \in DOMAIN g.pending : \E j \in DOMAIN e.pending :
                  j # n /\ g.pending[i] = e.pending[j]
             /\ \A j \in DOMAIN e.pending : j # n => \E i \in DOMAIN g.pending :
                  g.pending[i] = e.pending[j]
<1> DEFINE g == Freed(e, n)
           s == e.pending
           t == RemoveAt(s, n)
           At(i) == IF i < n THEN i ELSE i + 1
<1>1. s \in Seq(Slots)
  BY DEF Esp, Slots
<1>2. /\ Len(s) \in Nat /\ DOMAIN s = 1 .. Len(s) /\ n \in 1 .. Len(s) /\ Len(s) <= PendingMax
  BY <1>1, LenProperties DEF SlotsOk
<1>3. /\ t \in Seq(Slots) /\ Len(t) = Len(s) - 1
      /\ \A i \in 1 .. Len(s) - 1 : t[i] = s[At(i)]
  BY <1>1, Removed
<1>4. g = [e EXCEPT !.pending = t]
  BY DEF Freed
<1> HIDE DEF t, g
<1>5. DOMAIN t = 1 .. Len(s) - 1
  BY <1>3, LenProperties
<1>6. \A i, j \in 1 .. Len(s) - 1 :
        /\ At(i) \in 1 .. Len(s) /\ At(i) # n /\ (At(i) = At(j) => i = j)
  BY <1>2
<1>7. g \in Esp /\ g.pending = t /\ g = [e EXCEPT !.pending = g.pending]
  BY <1>3, <1>4 DEF Esp, Slots
<1>8. \A i \in DOMAIN t : At(i) \in DOMAIN s /\ At(i) # n /\ t[i] = s[At(i)]
  BY <1>2, <1>3, <1>5, <1>6
<1>9. ASSUME NEW j \in DOMAIN s, j # n
      PROVE  \E i \in DOMAIN t : t[i] = s[j]
  <2>1. CASE j < n
    <3>1. j \in 1 .. Len(s) - 1 /\ At(j) = j
      BY <1>2, <2>1
    <3> QED
      BY <1>3, <1>5, <3>1
  <2>2. CASE ~(j < n)
    <3>1. j - 1 \in 1 .. Len(s) - 1 /\ At(j - 1) = j
      BY <1>2, <1>9, <2>2
    <3> QED
      BY <1>3, <1>5, <3>1
  <2> QED
    BY <2>1, <2>2
<1> HIDE DEF At
<1>10. SlotsOk(g)
  <2>1. Len(t) <= PendingMax
    BY <1>2, <1>3, LinkTypes
  <2>2. \A i \in DOMAIN t : t[i].token \in Tokens
    BY <1>8 DEF SlotsOk
  <2>3. ASSUME NEW i \in DOMAIN t, NEW j \in DOMAIN t,
               \/ t[i].token = t[j].token
               \/ t[i].command = "WRITE" /\ t[j].command = "WRITE"
        PROVE  i = j
    <3>1. At(i) = At(j)
      BY <1>8, <2>3 DEF SlotsOk, IsWrite
    <3> QED
      BY <1>5, <1>6, <3>1
  <2> QED
    BY <1>7, <2>1, <2>2, <2>3 DEF SlotsOk, IsWrite
<1>11. \A i \in DOMAIN t : \E j \in DOMAIN s : j # n /\ t[i] = s[j]
  BY <1>8
<1> QED
  BY <1>7, <1>9, <1>10, <1>11 DEF g

\* The write is over: the ESP knows the settings and goes on, or asks for them.
LEMMA WriteOver ==
  ASSUME LinkInv, NEW n \in DOMAIN esp.pending, IsWrite(esp, n)
  PROVE  LET g == Freed(esp, n)
         IN  /\ EspLinked([g EXCEPT !.writing = FALSE, !.waiting = FALSE], pic)
             /\ g \in Esp /\ g.waiting = esp.waiting /\ g.body = esp.body
             /\ \A u : ~Awaited(g, u)
<1> DEFINE g == Freed(esp, n)
           k == [g EXCEPT !.writing = FALSE, !.waiting = FALSE]
<1>1. EspLinked(esp, pic) /\ esp \in Esp /\ SlotsOk(esp)
  BY DEF LinkInv, EspOk, EspLinked
<1>2. /\ g \in Esp /\ SlotsOk(g) /\ g = [esp EXCEPT !.pending = g.pending]
      /\ \A i \in DOMAIN g.pending : \E j \in DOMAIN esp.pending :
           j # n /\ g.pending[i] = esp.pending[j]
  BY <1>1, FreedOk
<1> HIDE DEF g
<1>3. /\ g.waiting = esp.waiting /\ g.body = esp.body /\ g.revision = esp.revision /\ g.base = esp.base
  BY <1>1, <1>2 DEF Esp
<1>4. \A i \in DOMAIN g.pending : ~IsWrite(g, i)
  BY <1>1, <1>2 DEF SlotsOk, IsWrite
<1>5. /\ k \in Esp /\ k.pending = g.pending /\ ~k.writing /\ ~k.waiting
      /\ k.revision = g.revision /\ k.base = g.base
  BY <1>2 DEF Esp
<1> HIDE DEF k
<1>6. EspLinked(k, pic)
  BY <1>1, <1>2, <1>3, <1>4, <1>5 DEF EspLinked, SlotsOk, IsWrite
<1> QED
  BY <1>2, <1>3, <1>4, <1>6 DEF Awaited, k, g

LEMMA RefusedOk ==
  ASSUME LinkInv, NEW n \in DOMAIN esp.pending, IsWrite(esp, n),
         InBound(SettingsRefused(Freed(esp, n)))
  PROVE  EspMay(esp, SettingsRefused(Freed(esp, n)))
<1> DEFINE g == Freed(esp, n)
           q == [g EXCEPT !.writing = FALSE, !.waiting = FALSE]
           k == [g EXCEPT !.writing = FALSE, !.waiting = FALSE, !.valid = FALSE]
<1>1. EspLinked(q, pic) /\ g \in Esp /\ \A u : ~Awaited(g, u)
  BY WriteOver
<1>2. SettingsRefused(g) = Request(k, "ASK") /\ "ASK" \in Commands \ {"WRITE"}
  BY DEF SettingsRefused, AskForSettings, Commands
<1> HIDE DEF g
<1>3. /\ k \in Esp /\ k.pending = q.pending /\ k.pending = g.pending /\ ~k.writing /\ ~k.waiting
      /\ ~k.valid /\ k.revision = q.revision /\ k.base = q.base
  BY <1>1 DEF Esp
<1> HIDE DEF k, q
<1>4. EspOk(k, pic)
  <2>1. \A i \in DOMAIN k.pending : ~IsWrite(k, i)
    BY <1>1, <1>3 DEF Awaited, IsWrite
  <2>2. SlotsOk(k)
    BY <1>1, <1>3 DEF EspLinked, SlotsOk, IsWrite
  <2>3. Follows(pic, k.revision, k.base)
    BY <1>1, <1>3 DEF EspLinked
  <2> QED
    BY <1>3, <2>1, <2>2, <2>3 DEF EspOk, EspLinked
<1>5. Narrows(esp, k, 0)
  BY <1>1, <1>3 DEF Narrows, Awaited, IsWrite
<1>6. EspMay(k, Request(k, "ASK"))
  BY <1>2, <1>4, RequestOk DEF g
<1> QED
  BY <1>2, <1>5, <1>6, MayThen DEF g

LEMMA AckedOk ==
  ASSUME LinkInv, NEW n \in DOMAIN esp.pending, IsWrite(esp, n),
         NEW f \in ForEsp(pic, esp), f.kind = "ANSWER", f.result = "ACK", f.token = esp.pending[n].token,
         InBound(SettingsAcked(Freed(esp, n), f))
  PROVE  EspMay(esp, SettingsAcked(Freed(esp, n), f))
<1> DEFINE g == Freed(esp, n)
           q == [g EXCEPT !.writing = FALSE, !.waiting = FALSE]
           k == [g EXCEPT !.writing = FALSE, !.waiting = FALSE,
                          !.revision = f.revision, !.base = f.version]
<1>1. /\ EspLinked(q, pic) /\ g \in Esp /\ g.waiting = esp.waiting /\ g.body = esp.body
      /\ \A u : ~Awaited(g, u)
  BY WriteOver
<1>2. SettingsAcked(g, f) = IF g.waiting THEN SendSettings(k) ELSE [esp |-> k, frames |-> <<>>]
  BY DEF SettingsAcked
<1>3. f.revision \in Nat /\ f.version \in Nat /\ Follows(pic, f.revision, f.version)
  BY DEF ForEsp, EspFrames
<1>4. Awaited(esp, f.token)
  BY DEF Awaited
<1>5. f.version = pic.version => esp.waiting \/ esp.body = pic.body
  BY <1>4 DEF ForEsp
<1> HIDE DEF g
<1>6. /\ k \in Esp /\ k.pending = q.pending /\ k.pending = g.pending /\ ~k.writing /\ ~k.waiting
      /\ k.revision = f.revision /\ k.base = f.version /\ k.body = g.body
  BY <1>1, <1>3 DEF Esp
<1> HIDE DEF k, q
<1>7. EspLinked(k, pic)
  <2>1. \A i \in DOMAIN k.pending : ~IsWrite(k, i)
    BY <1>1, <1>6 DEF Awaited, IsWrite
  <2>2. SlotsOk(k)
    BY <1>1, <1>6 DEF EspLinked, SlotsOk, IsWrite
  <2>3. Follows(pic, k.revision, k.base)
    BY <1>3, <1>6
  <2> QED
    BY <1>6, <2>1, <2>2, <2>3 DEF EspLinked
<1>8. Narrows(esp, k, 0)
  BY <1>1, <1>6 DEF Narrows, Awaited, IsWrite
<1>9. CASE g.waiting
  <2>1. SettingsAcked(g, f) = SendSettings(k)
    BY <1>2, <1>9
  <2>2. EspMay(k, SendSettings(k))
    BY <1>6, <1>7, <2>1, SendOk DEF g
  <2> QED
    BY <1>8, <2>1, <2>2, MayThen DEF g
<1>10. CASE ~g.waiting
  <2>1. SettingsAcked(g, f) = [esp |-> k, frames |-> <<>>]
    BY <1>2, <1>10
  <2>2. EspOk(k, pic)
    BY <1>1, <1>5, <1>6, <1>7, <1>10 DEF EspOk
  <2> QED
    BY <1>8, <2>1, <2>2, MaySilently DEF g
<1> QED
  BY <1>9, <1>10

\* Any other slot.
LEMMA OtherFreed ==
  ASSUME LinkInv, NEW n \in DOMAIN esp.pending, ~IsWrite(esp, n)
  PROVE  EspMay(esp, [esp |-> Freed(esp, n), frames |-> <<>>])
<1> DEFINE g == Freed(esp, n)
<1>1. EspOk(esp, pic) /\ EspLinked(esp, pic) /\ esp \in Esp /\ SlotsOk(esp)
  BY DEF LinkInv, EspOk, EspLinked
<1>2. /\ g \in Esp /\ SlotsOk(g) /\ g = [esp EXCEPT !.pending = g.pending]
      /\ \A i \in DOMAIN g.pending : \E j \in DOMAIN esp.pending :
           j # n /\ g.pending[i] = esp.pending[j]
      /\ \A j \in DOMAIN esp.pending : j # n => \E i \in DOMAIN g.pending :
           g.pending[i] = esp.pending[j]
  BY <1>1, FreedOk
<1> HIDE DEF g
<1>3. /\ g.writing = esp.writing /\ g.waiting = esp.waiting /\ g.valid = esp.valid /\ g.body = esp.body
      /\ g.revision = esp.revision /\ g.base = esp.base
  BY <1>1, <1>2 DEF Esp
<1>4. \A i \in DOMAIN g.pending : IsWrite(g, i) =>
        \E j \in DOMAIN esp.pending : g.pending[i] = esp.pending[j] /\ IsWrite(esp, j)
  BY <1>2 DEF IsWrite
<1>5. ASSUME Roomy, g.writing
      PROVE  \E i \in DOMAIN g.pending : IsWrite(g, i)
  BY <1>1, <1>2, <1>3, <1>5 DEF EspLinked, IsWrite
<1>6. \A i \in DOMAIN g.pending : IsWrite(g, i) => g.writing /\ g.pending[i].token # pic.answer
  BY <1>1, <1>3, <1>4 DEF EspLinked
<1>7. EspOk(g, pic)
  BY <1>1, <1>2, <1>3, <1>5, <1>6 DEF EspOk, EspLinked
<1>8. Narrows(esp, g, 0)
  BY <1>3, <1>4 DEF Narrows, Awaited
<1> QED
  BY <1>7, <1>8, MaySilently DEF g

-----------------------------------------------------------------------------
\* The ESP's steps

LEMMA NoteOk ==
  ASSUME LinkInv, NEW f \in ForEsp(pic, esp), f.kind = "STAT"
  PROVE  EspMay(esp, [esp |-> NoteSettings(esp, f), frames |-> <<>>])
<1>1. EspOk(esp, pic) /\ EspLinked(esp, pic) /\ esp \in Esp
  BY DEF LinkInv, EspOk, EspLinked
<1>2. CASE esp.writing
  BY <1>1, <1>2, MaySilently DEF NoteSettings, Narrows
<1>3. CASE ~esp.writing
  <2> DEFINE g == NoteSettings(esp, f)
  <2>1. g = [esp EXCEPT !.valid = TRUE, !.revision = f.revision, !.body = f.body, !.base = f.version]
    BY <1>3 DEF NoteSettings
  <2>2. /\ f.revision \in Nat /\ f.version \in Nat /\ f.body \in Bodies
        /\ Follows(pic, f.revision, f.version) /\ (f.version = pic.version => f.body = pic.body)
    BY DEF ForEsp, EspFrames
  <2> HIDE DEF g
  <2>3. /\ g \in Esp /\ g.pending = esp.pending /\ ~g.writing /\ g.waiting = esp.waiting
        /\ g.revision = f.revision /\ g.base = f.version /\ g.body = f.body
    BY <1>1, <1>3, <2>1, <2>2 DEF Esp
  <2>4. EspOk(g, pic) /\ Narrows(esp, g, 0)
    BY <1>1, <1>3, <2>2, <2>3 DEF EspOk, EspLinked, SlotsOk, IsWrite, Narrows, Awaited
  <2> QED
    BY <2>4, MaySilently DEF g
<1> QED
  BY <1>2, <1>3

LEMMA ResponseOk ==
  ASSUME LinkInv, NEW f \in ForEsp(pic, esp), f.kind = "ANSWER", InBound(HandleResponse(esp, f))
  PROVE  EspMay(esp, HandleResponse(esp, f))
<1> DEFINE slot == CHOOSE i \in SlotOf(esp, f.token) : TRUE
           None == SlotOf(esp, f.token) = {} \/ f.result = "ACCEPTED"
<1>1. HandleResponse(esp, f) =
        IF None THEN [esp |-> esp, frames |-> <<>>]
        ELSE IF esp.pending[slot].command # "WRITE" THEN [esp |-> Freed(esp, slot), frames |-> <<>>]
        ELSE IF f.result = "ACK" THEN SettingsAcked(Freed(esp, slot), f)
        ELSE SettingsRefused(Freed(esp, slot))
  BY DEF HandleResponse, Freed
<1>2. ~None => slot \in DOMAIN esp.pending /\ esp.pending[slot].token = f.token
  BY DEF SlotOf
<1> HIDE DEF slot, None
<1>3. CASE None
  <2>1. EspOk(esp, pic) /\ Narrows(esp, esp, 0)
    BY DEF LinkInv, Narrows
  <2> QED
    BY <1>1, <1>3, <2>1, MaySilently
<1>4. CASE ~None /\ ~IsWrite(esp, slot)
  BY <1>1, <1>2, <1>4, OtherFreed DEF IsWrite
<1>5. CASE ~None /\ IsWrite(esp, slot) /\ f.result = "ACK"
  <2>1. HandleResponse(esp, f) = SettingsAcked(Freed(esp, slot), f)
    BY <1>1, <1>5 DEF IsWrite
  <2> QED
    BY <1>2, <1>5, <2>1, AckedOk
<1>6. CASE ~None /\ IsWrite(esp, slot) /\ f.result # "ACK"
  <2>1. HandleResponse(esp, f) = SettingsRefused(Freed(esp, slot))
    BY <1>1, <1>6 DEF IsWrite
  <2> QED
    BY <1>2, <1>6, <2>1, RefusedOk
<1> QED
  BY <1>3, <1>4, <1>5, <1>6

LEMMA EspSafe ==
  LinkInv /\ (EspReceive \/ ConsoleSettings \/ ConsoleCommand \/ ExpireRequest) => LinkInv'
<1> SUFFICES ASSUME LinkInv, EspReceive \/ ConsoleSettings \/ ConsoleCommand \/ ExpireRequest
             PROVE  LinkInv'
  OBVIOUS
<1>1. /\ EspOk(esp, pic) /\ toEsp \in Seq(ForEsp(pic, esp))
      /\ \A d : EspDoes(d) => InBound(d)
  BY DEF LinkInv, EspDoes, InBound
<1>2. CASE EspReceive
  <2> DEFINE f == Head(toEsp)
  <2>1. f \in ForEsp(pic, esp) /\ toEsp # <<>> /\ toEsp' = Tail(toEsp)
    BY <1>1, <1>2, HeadTailProperties DEF EspReceive
  <2>2. IF f.kind = "STAT" THEN EspDoes([esp |-> NoteSettings(esp, f), frames |-> <<>>])
        ELSE EspDoes(HandleResponse(esp, f))
    BY <1>2 DEF EspReceive
  <2>3. f.kind = "STAT" \/ f.kind = "ANSWER"
    BY <2>1 DEF ForEsp, EspFrames
  <2> HIDE DEF f
  <2>4. CASE f.kind = "STAT"
    BY <2>1, <2>2, <2>4, NoteOk, EspDoesSafe
  <2>5. CASE f.kind = "ANSWER"
    <3>1. EspDoes(HandleResponse(esp, f))
      BY <2>2, <2>5
    <3>2. EspMay(esp, HandleResponse(esp, f))
      BY <1>1, <2>1, <2>5, <3>1, ResponseOk
    <3> QED
      BY <2>1, <3>1, <3>2, EspDoesSafe
  <2> QED
    BY <2>3, <2>4, <2>5
<1>3. CASE ConsoleSettings
  <2>1. PICK body \in Bodies : EspDoes(ConsoleChange(esp, body)) /\ toEsp' = toEsp
    BY <1>3 DEF ConsoleSettings
  <2>2. EspMay(esp, ConsoleChange(esp, body))
    BY <1>1, <2>1, ConsoleChangeOk
  <2> QED
    BY <2>1, <2>2, EspDoesSafe
<1>4. CASE ConsoleCommand
  <2>1. PICK command \in Commands \ {"WRITE"} : EspDoes(Request(esp, command)) /\ toEsp' = toEsp
    BY <1>4 DEF ConsoleCommand, Commands
  <2>2. EspMay(esp, Request(esp, command))
    BY <1>1, <2>1, RequestOk
  <2> QED
    BY <2>1, <2>2, EspDoesSafe
<1>5. CASE ExpireRequest
  <2>1. PICK i \in DOMAIN esp.pending : EspDoes(Expire(esp, i)) /\ toEsp' = toEsp
    BY <1>5 DEF ExpireRequest
  <2>2. Expire(esp, i) = IF IsWrite(esp, i) THEN SettingsRefused(Freed(esp, i))
                         ELSE [esp |-> Freed(esp, i), frames |-> <<>>]
    BY DEF Expire, IsWrite, Freed
  <2>3. EspMay(esp, Expire(esp, i))
    <3>1. CASE IsWrite(esp, i)
      BY <1>1, <2>1, <2>2, <3>1, RefusedOk
    <3>2. CASE ~IsWrite(esp, i)
      BY <2>2, <3>2, OtherFreed
    <3> QED
      BY <3>1, <3>2
  <2> QED
    BY <2>1, <2>3, EspDoesSafe
<1> QED
  BY <1>2, <1>3, <1>4, <1>5

LEMMA LoseSafe == LinkInv /\ Lose => LinkInv'
<1> SUFFICES ASSUME LinkInv, Lose PROVE LinkInv'
  OBVIOUS
<1>1. toPic \in Seq(ForPic(pic, esp)) /\ toEsp \in Seq(ForEsp(pic, esp))
  BY DEF LinkInv
<1>2. /\ UNCHANGED <<pic, menu, esp>>
      /\ toPic' = toPic \/ (toPic # <<>> /\ toPic' = Tail(toPic))
      /\ toEsp' = toEsp \/ (toEsp # <<>> /\ toEsp' = Tail(toEsp))
  BY DEF Lose
<1>3. toPic' \in Seq(ForPic(pic, esp)) /\ toEsp' \in Seq(ForEsp(pic, esp))
  BY <1>1, <1>2, HeadTailProperties
<1> QED
  BY <1>2, <1>3 DEF LinkInv

\* An ESP that has just started waits for no write.
LEMMA NewEspOk ==
  ASSUME NEW p, PicOk(p)
  PROVE  /\ EspOk(NewEsp, p) /\ AskAtStart \in Seq(ForPic(p, NewEsp)) /\ <<>> \in Seq(ForEsp(p, NewEsp))
<1> DEFINE ask == [token |-> 1, command |-> "ASK"]
           e   == NewEsp
<1>1. ask \in [token : Tokens, command : Commands \ {"WRITE"}] /\ ask.command = "ASK" /\ ask \in Slots
      /\ ask.token \in Tokens
  BY LinkTypes DEF Commands, Slots
<1>2. /\ e.pending = <<ask>> /\ ~e.valid /\ ~e.writing /\ ~e.waiting /\ e.revision = 0 /\ e.base = 0
      /\ e = [valid |-> FALSE, revision |-> 0, body |-> Default, writing |-> FALSE,
               waiting |-> FALSE, base |-> 0, pending |-> <<ask>>]
  BY DEF NewEsp, AskAtStart
<1>3. AskAtStart = <<ask>>
  BY DEF AskAtStart
<1> HIDE DEF ask, e
<1>4. /\ <<ask>> \in Seq(Slots) /\ Len(<<ask>>) = 1 /\ DOMAIN <<ask>> = {1} /\ <<ask>>[1] = ask
  BY <1>1
<1>5. e \in Esp
  BY <1>2, <1>4, LinkTypes DEF Esp, Slots
<1>6. \A i \in DOMAIN e.pending : ~IsWrite(e, i) /\ e.pending[i].token \in Tokens
  BY <1>1, <1>2, <1>4 DEF IsWrite
<1>7. SlotsOk(e)
  BY <1>2, <1>4, <1>6, LinkTypes DEF SlotsOk
<1>8. Follows(p, e.revision, e.base)
  BY <1>2 DEF PicOk
<1>9. EspOk(e, p)
  BY <1>2, <1>5, <1>6, <1>7, <1>8 DEF EspOk, EspLinked
<1>10. ask \in ForPic(p, e)
  BY <1>1, <1>6 DEF ForPic, PicFrames, Awaited
<1>11. <<ask>> \in Seq(ForPic(p, e)) /\ <<>> \in Seq(ForEsp(p, e))
  BY <1>10
<1> QED
  BY <1>3, <1>9, <1>11 DEF e

LEMMA EspRestartSafe == LinkInv /\ EspRestart => LinkInv'
<1> SUFFICES ASSUME LinkInv, EspRestart PROVE LinkInv'
  OBVIOUS
<1>1. PicOk(pic) /\ menu \in Menu
  BY DEF LinkInv
<1>2. esp' = NewEsp /\ toPic' = AskAtStart /\ toEsp' = <<>> /\ UNCHANGED <<pic, menu>>
  BY DEF EspRestart
<1> QED
  BY <1>1, <1>2, NewEspOk DEF LinkInv

LEMMA LinkStarts == LinkInit => LinkInv
<1> SUFFICES ASSUME LinkInit PROVE LinkInv
  OBVIOUS
<1>1. pic = [body |-> Default, revision |-> 0, kept |-> NoRecord,
             sml |-> FALSE, sent |-> <<>>, saving |-> FALSE, failed |-> FALSE, answer |-> 0,
             version |-> 0, era |-> 0, since |-> {}]
  BY DEF LinkInit, Started
<1>2. PicOk(pic)
  BY <1>1, LinkTypes DEF PicOk, Pic, Follows, SaveOk
<1>3. menu \in Menu /\ esp = NewEsp /\ toPic = AskAtStart /\ toEsp = <<>>
  BY DEF LinkInit, Menu, NoMenu
<1> QED
  BY <1>2, <1>3, NewEspOk DEF LinkInv

LEMMA LinkSteps == LinkInv /\ [LinkNext]_linkVars => LinkInv'
<1> SUFFICES ASSUME LinkInv, [LinkNext]_linkVars PROVE LinkInv'
  OBVIOUS
<1>1. CASE PicNext
  BY <1>1, SettingsServiceSafe, MenuSafe, LinkEpochSafe, PicReceiveSafe, AnswerSaveSafe DEF PicNext
<1>2. CASE EspNext
  BY <1>2, EspSafe, EspRestartSafe DEF EspNext
<1>3. CASE Lose
  BY <1>3, LoseSafe
<1>4. CASE UNCHANGED linkVars
  BY <1>4 DEF linkVars, LinkInv
<1> QED
  BY <1>1, <1>2, <1>3, <1>4 DEF LinkNext

-----------------------------------------------------------------------------
\* What the link keeps

\* The inductive invariant of the settings on both sides (settings.c, esp_link.c,
\* pic_link.cpp): every revision and version about are of one body, and the answer to
\* the write that is waited for is about what the ESP holds.
THEOREM LinkInvariant == LinkSpec => []LinkInv
<1> QED
  BY LinkStarts, LinkSteps, PTL DEF LinkSpec

\* What the console shows is what the dsPIC runs whenever the revisions say so, whatever
\* was lost, late or refused, and however many requests are about (settings_answered).
THEOREM ViewAlwaysAgrees == LinkSpec => [](LinkTypeOK /\ ViewAgrees)
<1>1. LinkInv => LinkTypeOK /\ ViewAgrees
  <2> SUFFICES ASSUME LinkInv PROVE LinkTypeOK /\ ViewAgrees
    OBVIOUS
  <2>1. /\ pic \in Pic /\ menu \in Menu /\ esp \in Esp /\ Len(esp.pending) <= PendingMax
        /\ Follows(pic, esp.revision, esp.base)
        /\ esp.valid /\ ~esp.writing /\ esp.base = pic.version => esp.body = pic.body
    BY DEF LinkInv, PicOk, EspOk, EspLinked, SlotsOk
  <2>2. /\ esp.revision \in Nat /\ esp.base \in Nat /\ pic.revision \in Nat /\ pic.version \in Nat
        /\ pic.era \in Nat
    BY <2>1 DEF Pic, Esp
  <2> QED
    BY <2>1, <2>2 DEF LinkTypeOK, ViewAgrees, Follows
<1> QED
  BY <1>1, LinkInvariant, PTL

\* And with a slot for every request that is about, a write always has one for its
\* answer, so that it ends.  Without, it need not (take_slot uses the oldest again).
THEOREM ConsoleIsInStep ==
  ASSUME LastToken <= PendingMax
  PROVE  LinkSpec => []ConsoleInStep
<1>1. LinkInv => WriteEnds
  BY DEF LinkInv, EspOk, EspLinked, Roomy, WriteEnds, IsWrite
<1>2. LinkTypeOK /\ ViewAgrees /\ WriteEnds => ConsoleInStep
  BY DEF ConsoleInStep
<1> QED
  BY <1>1, <1>2, LinkInvariant, ViewAlwaysAgrees, PTL

\* A line that a frame was taken from is another.
LEMMA TailIsShorter ==
  ASSUME NEW S, NEW s \in Seq(S), s # <<>>
  PROVE  Tail(s) # s
<1> DEFINE t == Tail(s)
<1>1. Len(t) = Len(s) - 1 /\ Len(s) \in Nat
  BY HeadTailProperties, LenProperties
<1> HIDE DEF t
<1>2. t # s
  BY <1>1
<1> QED
  BY <1>2 DEF t

\* A write from the console is only ever applied to the settings it was built on, or to
\* those of a dsPIC that has restarted since (handle_settings).
THEOREM ConsoleAlwaysHasSeen == LinkSpec => ConsoleHasSeen
<1> DEFINE f == Head(toPic)
           Seen == toPic # <<>> /\ Applies(f) => f.base = pic.version \/ f.base < pic.era
<1>1. ASSUME LinkInv, [LinkNext]_linkVars
      PROVE  Seen
  <2> SUFFICES ASSUME toPic # <<>>, Applies(f)
               PROVE  f.base = pic.version \/ f.base < pic.era
    OBVIOUS
  <2>1. /\ toPic \in Seq(ForPic(pic, esp)) /\ pic \in Pic
    BY <1>1 DEF LinkInv, PicOk
  <2>2. f \in ForPic(pic, esp) /\ f.command = "WRITE"
    BY <2>1, HeadTailProperties DEF Applies
  <2>3. Follows(pic, f.revision, f.base) /\ f.revision \in Nat /\ f.base \in Nat
    BY <2>2 DEF ForPic, PicFrames
  <2>4. pic' # pic /\ toPic' # toPic
    BY <2>1, TailIsShorter DEF Applies
  <2>5. PicReceive
    BY <1>1, <2>4 DEF LinkNext, PicNext, EspNext, linkVars, Lose, EspReceive, ConsoleSettings,
       ConsoleCommand, ExpireRequest, EspDoes, EspRestart, SettingsService, MenuEdits, MenuConfirms,
       MenuCloses, MenuResets, LinkEpoch, AnswerSave, PicRestart
  <2> DEFINE heard == [pic EXCEPT !.sml = TRUE]
  <2>6. pic' = HandleSettings(heard, f).pic
    BY <2>2, <2>5 DEF PicReceive
  <2>7. heard.revision = pic.revision /\ heard.version = pic.version
    BY <2>1 DEF Pic
  <2> HIDE DEF heard, f
  <2>8. f.revision = heard.revision
    <3> SUFFICES ASSUME f.revision # heard.revision PROVE FALSE
      OBVIOUS
    <3>1. pic' = heard
      BY <2>6 DEF HandleSettings
    <3> QED
      BY <2>7, <3>1 DEF Applies
  <2>9. pic.version \in Nat /\ pic.revision \in Nat /\ pic.era \in Nat
    BY <2>1 DEF Pic
  <2> QED
    BY <2>3, <2>7, <2>8, <2>9 DEF Follows
<1> QED
  BY <1>1, LinkInvariant, PTL DEF LinkSpec, ConsoleHasSeen

\* A save answered ACK has been made, of settings that were running when it was asked for
\* or since (start_save, esp_link_service).
THEOREM SaveAlwaysMeansSaved == LinkSpec => SaveMeansSaved
<1> DEFINE Saved == pic.answer # 0 /\ pic'.answer = 0 /\ pic'.era = pic.era
                      /\ Last(toEsp').result = "ACK"
                    => pic.kept # NoRecord /\ pic.kept.body \in pic.since
<1>1. ASSUME LinkInv, [LinkNext]_linkVars
      PROVE  Saved
  <2> SUFFICES ASSUME pic.answer # 0, pic'.answer = 0, pic'.era = pic.era, Last(toEsp').result = "ACK"
               PROVE  pic.kept # NoRecord /\ pic.kept.body \in pic.since
    OBVIOUS
  <2>1. /\ PicOk(pic) /\ pic \in Pic
        /\ toPic \in Seq(ForPic(pic, esp)) /\ toEsp \in Seq(ForEsp(pic, esp))
    BY <1>1 DEF LinkInv, PicOk
  <2>2. CASE AnswerSave
    <3> DEFINE result == IF pic.failed THEN "NACK" ELSE "ACK"
               answer == Answer(pic, pic.answer, result)
    <3>1. toEsp' = Append(toEsp, answer) /\ ~pic.saving
      BY <2>2 DEF AnswerSave
    <3>2. answer.result = result
      BY DEF Answer
    <3> HIDE DEF answer
    <3>3. Last(toEsp') = answer
      BY <2>1, <3>1 DEF Last
    <3>4. ~pic.failed
      BY <3>2, <3>3
    <3> QED
      BY <2>1, <3>1, <3>4 DEF PicOk, SaveOk
  <2>3. CASE SettingsService
    <3>1. pic'.answer = pic.answer
      BY <2>1, <2>3 DEF SettingsService, Pic
    <3> QED
      BY <3>1
  <2>4. CASE MenuConfirms \/ MenuCloses \/ MenuResets
    <3>1. PICK p \in {pic} \cup {SettingsWrite(pic, body) : body \in Bodies} :
            pic' = p \/ pic' = SettingsSave(p)
      BY <2>4, LinkTypes DEF MenuConfirms, MenuCloses, MenuResets
    <3>2. PicOk(p) /\ p.answer = pic.answer
      BY <2>1, <3>1, WriteOk
    <3>3. pic'.answer = pic.answer
      BY <3>1, <3>2, SaveAsked
    <3> QED
      BY <3>3
  <2>5. CASE LinkEpoch
    <3>1. pic'.answer = pic.answer
      BY <2>1, <2>5, StatOk DEF LinkEpoch
    <3> QED
      BY <3>1
  <2>6. CASE PicRestart
    BY <2>1, <2>6, StartedOk DEF PicRestart
  <2>7. CASE PicReceive
    <3> DEFINE f == Head(toPic)
               heard == [pic EXCEPT !.sml = TRUE]
               done  == IF f.command = "WRITE" THEN HandleSettings(heard, f) ELSE HandleCommand(heard, f)
    <3>1. f \in ForPic(pic, esp) /\ pic' = done.pic
      BY <2>1, <2>7, HeadTailProperties DEF PicReceive
    <3>2. PicOk(heard) /\ heard.answer = pic.answer /\ heard.era = pic.era /\ f \in ForPic(heard, esp)
      BY <2>1, <3>1, HeardOk
    <3> HIDE DEF heard, f
    <3>3. heard.answer # 0 /\ done.pic.era = heard.era => done.pic.answer = heard.answer
      BY <3>2, HandleSettingsOk, HandleCommandOk
    <3> HIDE DEF done
    <3> QED
      BY <3>1, <3>2, <3>3
  <2>8. CASE pic' = pic
    BY <2>8
  <2>9. CASE MenuEdits \/ EspNext \/ Lose \/ UNCHANGED linkVars
    <3>1. pic' = pic
      BY <2>9 DEF MenuEdits, EspNext, EspReceive, ConsoleSettings, ConsoleCommand, ExpireRequest,
         EspDoes, EspRestart, Lose, linkVars
    <3> QED
      BY <3>1
  <2> QED
    BY <1>1, <2>2, <2>3, <2>4, <2>5, <2>6, <2>7, <2>9 DEF LinkNext, PicNext
<1> QED
  BY <1>1, LinkInvariant, PTL DEF LinkSpec, SaveMeansSaved

-----------------------------------------------------------------------------
\* The menu

InRange(i) ==
  {v \in Seq(Nat) : Len(v) = Len(Highs[i]) /\ \A f \in 1 .. Len(v) : v[f] <= Highs[i][f]}

UiBody == {b \in [Kept -> Seq(Nat)] : \A i \in Kept : b[i] \in InRange(i)}

Ui == [open : BOOLEAN, section : DOMAIN Sections, item : Nat \ {0}, editing : BOOLEAN,
       field : Nat \ {0}, values : Seq(Nat), wait : BOOLEAN, wasDown : BOOLEAN, held : Nat,
       repeating : BOOLEAN, stepAge : Nat, idle : Nat, nameAge : Nat,
       work : UiBody, settings : UiBody, changed : BOOLEAN, unsaved : BOOLEAN,
       espChanged : BOOLEAN, espUnsaved : BOOLEAN, lit : Seq(Nat),
       foreign : BOOLEAN, overlay : BOOLEAN, preview : BOOLEAN]

ControlInput == [raw : BOOLEAN, level : BOOLEAN, rawAge : Nat, levelAge : Nat]

Controls == [button : ControlInput, toggle : ControlInput, spent : BOOLEAN, inMenu : BOOLEAN,
             reported : BOOLEAN, sounding : BOOLEAN]

\* A field of a value, and it has been chosen within its range.
Chosen(u) == \A f \in 1 .. u.field : u.values[f] \in 0 .. High(Current(u), u.values, f)

PlaceInv(u) == u.item <= Len(Sections[u.section])

EditInv(u) ==
  u.editing =>
    /\ Current(u) \in DOMAIN Highs
    /\ Len(u.values) = Len(Highs[Current(u)]) /\ u.field <= Len(u.values) /\ Chosen(u)

SavedInv(u) ==
  /\ u.unsaved => u.changed /\ u.open
  /\ u.espUnsaved => u.espChanged /\ u.open

LitInv(u) ==
  ~u.foreign => u.settings["brightness"] =
    IF u.editing /\ Current(u) = "brightness" THEN u.work["brightness"] ELSE u.lit

ClosedInv(u) == ~u.open => ~u.editing /\ ~u.overlay /\ ~u.preview

UiInv(u) ==
  u \in Ui /\ PlaceInv(u) /\ EditInv(u) /\ SavedInv(u) /\ LitInv(u) /\ ClosedInv(u)

\* A step is being repeated.
Stepping(u) == u.repeating /\ u.editing /\ High(Current(u), u.values, u.field) # 0

PressInv ==
  /\ ui.wasDown = (controls.button.level /\ ~controls.spent)
  /\ did.acts \in {0, 1}
  /\ ui.wasDown => /\ ~controls.inMenu => did.acts = 0 \/ controls.reported
                   /\ ui.open /\ ~ui.wait =>
                        /\ controls.inMenu
                        /\ \/ did.acts = 0 /\ ~ui.repeating
                           \/ did.last = "STEP" /\ Stepping(ui)

MenuInv ==
  /\ UiInv(ui) /\ (ui.open => ui.overlay # ui.preview)
  /\ controls \in Controls /\ PressInv

-----------------------------------------------------------------------------
LEMMA EditableItems ==
  DOMAIN Highs = {"tzAuto", "tzOffset", "dstAuto", "dstActive", "dstOffset", "alarmOn",
                  "alarmTime", "beepOn", "hours", "mode", "brightness", "time", "tzRemote",
                  "resetWifi", "resetSettings", "resetAll"}
BY MenuRanges

LEMMA SectionNames ==
  DOMAIN Sections = {"top", "tz", "dst", "alarm", "beep", "display", "reset"}
BY DEF Sections

OfSection(s, i) ==
  i \in DOMAIN Highs \/ Opens(i) \/ i \in {"MENU", "EXIT"} \/ (i = "BACK" /\ s # "top")

\* Every section has items, and each of them opens a section, leaves one or has a value.
LEMMA SectionItems ==
  ASSUME NEW s \in DOMAIN Sections
  PROVE  /\ Len(Sections[s]) \in 1 .. 9 /\ DOMAIN Sections[s] = 1 .. Len(Sections[s])
         /\ \A n \in 1 .. Len(Sections[s]) : OfSection(s, Sections[s][n])
         /\ \E n \in 1 .. Len(Sections[s]) : Sections[s][n] \in {"MENU", "BACK"}
<1>1. CASE s = "top"
  <2>1. Sections[s] = <<"MENU", "tz", "dst", "alarm", "beep", "display", "time", "reset", "EXIT">>
    BY <1>1 DEF Sections
  <2>2. Len(Sections[s]) = 9 /\ DOMAIN Sections[s] = 1 .. 9
    BY <2>1
  <2>3. ASSUME NEW n \in 1 .. 9
        PROVE  OfSection(s, Sections[s][n])
    BY <2>1, <1>1, EditableItems, SectionNames DEF Opens, OfSection
  <2>4. Sections[s][1] \in {"MENU", "BACK"}
    BY <2>1
  <2> QED BY <2>2, <2>3, <2>4
<1>2. CASE s = "tz"
  <2>1. Sections[s] = <<"tzAuto", "tzOffset", "tzRemote", "BACK">>
    BY <1>2 DEF Sections
  <2>2. Len(Sections[s]) = 4 /\ DOMAIN Sections[s] = 1 .. 4
    BY <2>1
  <2>3. ASSUME NEW n \in 1 .. 4
        PROVE  OfSection(s, Sections[s][n])
    BY <2>1, <1>2, EditableItems, SectionNames DEF Opens, OfSection
  <2>4. Sections[s][4] \in {"MENU", "BACK"}
    BY <2>1
  <2> QED BY <2>2, <2>3, <2>4
<1>3. CASE s = "dst"
  <2>1. Sections[s] = <<"dstAuto", "dstActive", "dstOffset", "BACK">>
    BY <1>3 DEF Sections
  <2>2. Len(Sections[s]) = 4 /\ DOMAIN Sections[s] = 1 .. 4
    BY <2>1
  <2>3. ASSUME NEW n \in 1 .. 4
        PROVE  OfSection(s, Sections[s][n])
    BY <2>1, <1>3, EditableItems, SectionNames DEF Opens, OfSection
  <2>4. Sections[s][4] \in {"MENU", "BACK"}
    BY <2>1
  <2> QED BY <2>2, <2>3, <2>4
<1>4. CASE s = "alarm"
  <2>1. Sections[s] = <<"alarmOn", "alarmTime", "BACK">>
    BY <1>4 DEF Sections
  <2>2. Len(Sections[s]) = 3 /\ DOMAIN Sections[s] = 1 .. 3
    BY <2>1
  <2>3. ASSUME NEW n \in 1 .. 3
        PROVE  OfSection(s, Sections[s][n])
    BY <2>1, <1>4, EditableItems, SectionNames DEF Opens, OfSection
  <2>4. Sections[s][3] \in {"MENU", "BACK"}
    BY <2>1
  <2> QED BY <2>2, <2>3, <2>4
<1>5. CASE s = "beep"
  <2>1. Sections[s] = <<"beepOn", "BACK">>
    BY <1>5 DEF Sections
  <2>2. Len(Sections[s]) = 2 /\ DOMAIN Sections[s] = 1 .. 2
    BY <2>1
  <2>3. ASSUME NEW n \in 1 .. 2
        PROVE  OfSection(s, Sections[s][n])
    BY <2>1, <1>5, EditableItems, SectionNames DEF Opens, OfSection
  <2>4. Sections[s][2] \in {"MENU", "BACK"}
    BY <2>1
  <2> QED BY <2>2, <2>3, <2>4
<1>6. CASE s = "display"
  <2>1. Sections[s] = <<"hours", "mode", "brightness", "BACK">>
    BY <1>6 DEF Sections
  <2>2. Len(Sections[s]) = 4 /\ DOMAIN Sections[s] = 1 .. 4
    BY <2>1
  <2>3. ASSUME NEW n \in 1 .. 4
        PROVE  OfSection(s, Sections[s][n])
    BY <2>1, <1>6, EditableItems, SectionNames DEF Opens, OfSection
  <2>4. Sections[s][4] \in {"MENU", "BACK"}
    BY <2>1
  <2> QED BY <2>2, <2>3, <2>4
<1>7. CASE s = "reset"
  <2>1. Sections[s] = <<"resetWifi", "resetSettings", "resetAll", "BACK">>
    BY <1>7 DEF Sections
  <2>2. Len(Sections[s]) = 4 /\ DOMAIN Sections[s] = 1 .. 4
    BY <2>1
  <2>3. ASSUME NEW n \in 1 .. 4
        PROVE  OfSection(s, Sections[s][n])
    BY <2>1, <1>7, EditableItems, SectionNames DEF Opens, OfSection
  <2>4. Sections[s][4] \in {"MENU", "BACK"}
    BY <2>1
  <2> QED BY <2>2, <2>3, <2>4
<1> QED BY <1>1, <1>2, <1>3, <1>4, <1>5, <1>6, <1>7, SectionNames

\* The way back from a section leads to the item that opens it.
LEMMA WayBack ==
  ASSUME NEW s \in DOMAIN Sections, s # "top"
  PROVE  (CHOOSE n \in DOMAIN Sections["top"] : Sections["top"][n] = s) \in 1 .. Len(Sections["top"])
<1> DEFINE top == Sections["top"]
<1>0. top = <<"MENU", "tz", "dst", "alarm", "beep", "display", "time", "reset", "EXIT">>
  BY DEF Sections
<1>3. /\ top[2] = "tz" /\ top[3] = "dst" /\ top[4] = "alarm" /\ top[5] = "beep"
      /\ top[6] = "display" /\ top[8] = "reset" /\ DOMAIN top = 1 .. 9
  BY <1>0
<1>1. \E n \in DOMAIN Sections["top"] : Sections["top"][n] = s
  BY <1>3, SectionNames
<1>2. DOMAIN Sections["top"] = 1 .. Len(Sections["top"])
  BY SectionItems, SectionNames
<1> QED BY <1>1, <1>2

LEMMA Remainder ==
  ASSUME NEW m \in 1 .. 9, NEW a \in 0 .. m - 1
  PROVE  a % m = a /\ (a + m) % m = a
<1>1. CASE m = 1 BY <1>1
<1>2. CASE m = 2 BY <1>2
<1>3. CASE m = 3 BY <1>3
<1>4. CASE m = 4 BY <1>4
<1>5. CASE m = 5 BY <1>5
<1>6. CASE m = 6 BY <1>6
<1>7. CASE m = 7 BY <1>7
<1>8. CASE m = 8 BY <1>8
<1>9. CASE m = 9 BY <1>9
<1> QED BY <1>1, <1>2, <1>3, <1>4, <1>5, <1>6, <1>7, <1>8, <1>9

LEMMA FirstOf ==
  ASSUME NEW m \in 1 .. 9, NEW S \in SUBSET (1 .. m), S # {}
  PROVE  \E k \in S : \A j \in 1 .. k - 1 : j \notin S
<1>1. CASE 1 \in S BY <1>1
<1>2. CASE 1 \notin S /\ 2 \in S BY <1>2
<1>3. CASE 1 \notin S /\ 2 \notin S /\ 3 \in S BY <1>3
<1>4. CASE 1 \notin S /\ 2 \notin S /\ 3 \notin S /\ 4 \in S BY <1>4
<1>5. CASE 1 \notin S /\ 2 \notin S /\ 3 \notin S /\ 4 \notin S
  <2>1. CASE 5 \in S BY <1>5, <2>1
  <2>2. CASE 5 \notin S /\ 6 \in S BY <1>5, <2>2
  <2>3. CASE 5 \notin S /\ 6 \notin S /\ 7 \in S BY <1>5, <2>3
  <2>4. CASE 5 \notin S /\ 6 \notin S /\ 7 \notin S /\ 8 \in S BY <1>5, <2>4
  <2>5. CASE 5 \notin S /\ 6 \notin S /\ 7 \notin S /\ 8 \notin S
    <3>1. \A x \in S : x = 9
      BY <1>5, <2>5
    <3>2. 9 \in S
      BY <3>1
    <3>3. \A j \in 1 .. 9 - 1 : j \notin S
      BY <3>1
    <3> QED BY <3>2, <3>3
  <2> QED BY <2>1, <2>2, <2>3, <2>4, <2>5
<1> QED BY <1>1, <1>2, <1>3, <1>4, <1>5

LEMMA Reaches ==
  ASSUME NEW m \in 1 .. 9, NEW from \in 1 .. m, NEW n \in 1 .. m
  PROVE  \E k \in 1 .. m : ((from - 1 + k) % m) + 1 = n
<1>1. CASE from < n
  <2>1. from - 1 + (n - from) = n - 1 /\ n - 1 \in 0 .. m - 1 /\ n - from \in 1 .. m
    BY <1>1
  <2>2. (n - 1) % m = n - 1
    BY <2>1, Remainder
  <2>3. ((from - 1 + (n - from)) % m) + 1 = n
    BY <2>1, <2>2
  <2> QED BY <2>1, <2>3
<1>2. CASE n <= from
  <2>1. /\ from - 1 + (n - from + m) = (n - 1) + m /\ n - 1 \in 0 .. m - 1
        /\ n - from + m \in 1 .. m
    BY <1>2
  <2>2. ((n - 1) + m) % m = n - 1
    BY <2>1, Remainder
  <2>3. ((from - 1 + (n - from + m)) % m) + 1 = n
    BY <2>1, <2>2
  <2> QED BY <2>1, <2>3
<1> QED BY <1>1, <1>2

\* There is a next item, since the title and the way back are always shown.
LEMMA NextItemIsOne ==
  ASSUME NEW u, u.section \in DOMAIN Sections, NEW from \in 1 .. Len(Sections[u.section])
  PROVE  NextItem(u, from) \in 1 .. Len(Sections[u.section])
<1> DEFINE items == Sections[u.section]
           m == Len(items)
           After(n) == ((from - 1 + n) % Len(items)) + 1
           S == {k \in 1 .. m : Shown(u, items[After(k)])}
<1>1. m \in 1 .. 9
  BY SectionItems
<1>2. PICK n \in 1 .. m : items[n] \in {"MENU", "BACK"}
  BY SectionItems
<1>3. Shown(u, items[n])
  <2>1. ~Opens(items[n])
    BY <1>2, SectionNames DEF Opens
  <2> HIDE DEF items
  <2> QED BY <1>2, <2>1 DEF Shown
<1>4. \E k \in 1 .. m : After(k) = n
  <2>1. \E k \in 1 .. m : ((from - 1 + k) % m) + 1 = n
    <3>1. from \in 1 .. m
      OBVIOUS
    <3> HIDE DEF m
    <3> QED BY <1>1, <3>1, Reaches
  <2> QED BY <2>1
<1>5. S # {}
  BY <1>3, <1>4
<1>6. PICK k \in S : \A j \in 1 .. k - 1 : j \notin S
  <2> HIDE DEF S
  <2>1. S \in SUBSET (1 .. m)
    BY DEF S
  <2> HIDE DEF items, m
  <2> QED BY <1>1, <1>5, <2>1, FirstOf
<1> DEFINE First(j) == Shown(u, items[After(j)]) /\ \A l \in 1 .. j - 1 : ~Shown(u, items[After(l)])
           f == CHOOSE j \in 1 .. m : First(j)
<1>7. f \in 1 .. m
  <2>1. k \in 1 .. m /\ Shown(u, items[After(k)])
    BY <1>6
  <2>2. ASSUME NEW l \in 1 .. k - 1
        PROVE  ~Shown(u, items[After(l)])
    <3>1. l \in 1 .. m
      <4> HIDE DEF m, S
      <4> QED BY <1>1, <2>1
    <3> QED BY <1>6, <3>1
  <2>3. First(k)
    BY <2>1, <2>2
  <2> HIDE DEF First, m
  <2> QED BY <2>1, <2>3
<1>8. NextItem(u, from) = After(f)
  BY DEF NextItem
<1> HIDE DEF f
<1>9. After(f) \in 1 .. m
  <2> HIDE DEF items
  <2> QED BY <1>1, <1>7
<1> QED BY <1>8, <1>9

LEMMA FieldsThere ==
  ASSUME NEW i \in DOMAIN Highs
  PROVE  Len(Highs[i]) >= 1
<1>1. CASE i \in {"tzOffset", "alarmTime"}
  <2>1. Len(Highs[i]) = 2
    BY <1>1, MenuRanges
  <2> QED BY <2>1
<1>2. CASE i = "time"
  <2>1. Len(Highs[i]) = 6
    BY <1>2, MenuRanges
  <2> QED BY <2>1
<1>3. CASE i \notin {"tzOffset", "alarmTime", "time"}
  <2>1. Len(Highs[i]) = 1
    BY <1>3, MenuRanges
  <2> QED BY <2>1
<1> QED BY <1>1, <1>2, <1>3

LEMMA HighIsNat ==
  ASSUME NEW i \in DOMAIN Highs, NEW chosen \in Seq(Nat), NEW f \in 1 .. Len(Highs[i]),
         Len(chosen) = Len(Highs[i]), i = "time" /\ f = 3 => chosen[2] <= High(i, chosen, 2)
  PROVE  High(i, chosen, f) \in Nat
<1>1. Highs[i] \in Seq(Nat)
  BY MenuRanges
<1>2. CASE i = "time" /\ f = 3
  <2>1. Len(Highs[i]) = 6
    BY <1>2, MenuRanges
  <2>2. chosen[2] \in Nat /\ High(i, chosen, 2) = Highs["time"][2]
    BY <1>2, <2>1 DEF High
  <2>3. MonthDays \in Seq(Nat) /\ Len(MonthDays) = Highs["time"][2] + 1 /\ Highs["time"][2] \in Nat
    BY <1>1, <1>2, <2>1, MenuRanges
  <2>4. MonthDays[chosen[2] + 1] \in Nat
    BY <1>2, <2>2, <2>3
  <2> QED BY <1>2, <2>4 DEF High
<1>3. CASE ~(i = "time" /\ f = 3)
  BY <1>1, <1>3 DEF High
<1> QED BY <1>2, <1>3

-----------------------------------------------------------------------------

\* What the invariant looks at, but for the marks of what is to be saved.
Rest(u) ==
  <<u.open, u.section, u.item, u.editing, u.field, u.values, u.work, u.settings,
    u.lit, u.foreign>>

LEMMA ItemIsOne ==
  ASSUME NEW u, UiInv(u)
  PROVE  u.section \in DOMAIN Sections /\ u.item \in 1 .. Len(Sections[u.section])
<1>1. u.section \in DOMAIN Sections /\ u.item \in Nat \ {0}
  BY DEF UiInv, Ui
<1>2. u.item <= Len(Sections[u.section])
  BY DEF UiInv, PlaceInv
<1>3. Len(Sections[u.section]) \in 1 .. 9
  BY <1>1, SectionItems
<1> QED BY <1>1, <1>2, <1>3

LEMMA RestKeeps ==
  ASSUME NEW u, NEW v, UiInv(u), v \in Ui, Rest(v) = Rest(u), SavedInv(v),
         v.open \/ (v.overlay = u.overlay /\ v.preview = u.preview)
  PROVE  UiInv(v)
<1>1. /\ v.open = u.open /\ v.section = u.section /\ v.item = u.item /\ v.editing = u.editing
      /\ v.field = u.field /\ v.values = u.values /\ v.work = u.work
      /\ v.settings = u.settings /\ v.lit = u.lit /\ v.foreign = u.foreign
  BY DEF Rest
<1>2. Current(v) = Current(u)
  BY <1>1 DEF Current
<1>3. PlaceInv(v) /\ ClosedInv(v)
  BY <1>1 DEF UiInv, PlaceInv, ClosedInv
<1>4. LitInv(v)
  BY <1>1, <1>2 DEF UiInv, LitInv
<1>5. EditInv(v)
  BY <1>1, <1>2 DEF UiInv, EditInv, Chosen
<1> QED BY <1>3, <1>4, <1>5 DEF UiInv

\* While editing: the value has its fields, and each of them its range.
LEMMA Editing ==
  ASSUME NEW u, UiInv(u), u.editing
  PROVE  /\ u.values \in Seq(Nat) /\ u.open /\ u.field \in 1 .. Len(u.values)
         /\ \A f \in 1 .. Len(u.values) :
              f <= u.field + 1 => High(Current(u), u.values, f) \in Nat
<1>1. u.values \in Seq(Nat) /\ u.field \in Nat \ {0} /\ u.open
  BY DEF UiInv, Ui, ClosedInv
<1>2. /\ Current(u) \in DOMAIN Highs /\ Len(u.values) = Len(Highs[Current(u)])
      /\ u.field <= Len(u.values) /\ Chosen(u)
  BY DEF UiInv, EditInv
<1>3. ASSUME NEW f \in 1 .. Len(u.values), f <= u.field + 1
      PROVE  High(Current(u), u.values, f) \in Nat
  <2>1. f = 3 => u.values[2] <= High(Current(u), u.values, 2)
    <3>1. SUFFICES ASSUME f = 3
                   PROVE  u.values[2] <= High(Current(u), u.values, 2)
      OBVIOUS
    <3>2. 2 \in 1 .. u.field
      BY <1>1, <1>3, <3>1
    <3>3. u.values[2] \in 0 .. High(Current(u), u.values, 2)
      BY <1>2, <3>2 DEF Chosen
    <3> QED BY <3>3
  <2> QED BY <1>1, <1>2, <2>1, HighIsNat
<1> QED BY <1>1, <1>2, <1>3

LEMMA Wraps ==
  ASSUME NEW a \in Int, NEW m \in Nat
  PROVE  a % (m + 1) \in 0 .. m
OBVIOUS

LEMMA StepSafe ==
  ASSUME NEW u, UiInv(u), u.editing, NEW d \in {1, -1}
  PROVE  /\ UiInv(Step(u, d)) /\ Step(u, d).open /\ Step(u, d).editing
         /\ Step(u, d).wait = u.wait /\ Step(u, d).repeating = u.repeating
         /\ High(Current(u), u.values, u.field) # 0 =>
              High(Current(Step(u, d)), Step(u, d).values, Step(u, d).field) # 0
<1>1. /\ u.values \in Seq(Nat) /\ u.open /\ u.field \in 1 .. Len(u.values)
      /\ High(Current(u), u.values, u.field) \in Nat
  BY Editing
<1> DEFINE i == Current(u)
           high == High(i, u.values, u.field)
           value == (u.values[u.field] + d) % (high + 1)
           chosen == [u.values EXCEPT ![u.field] = value]
           lit == IF i = "brightness" THEN chosen ELSE u.lit
           v == [u EXCEPT !.values = chosen, !.nameAge = 0, !.lit = lit]
<1>2. CASE high = 0
  BY <1>1, <1>2 DEF Step
<1>3. CASE high # 0
  <2>1. value \in 0 .. high
    <3>1. u.values[u.field] + d \in Int /\ high \in Nat
      BY <1>1
    <3> HIDE DEF high
    <3> QED BY <3>1, Wraps
  <2>2. chosen \in Seq(Nat) /\ Len(chosen) = Len(u.values) /\ chosen[u.field] = value
    <3> HIDE DEF value
    <3>1. value \in Nat
      BY <1>1, <2>1
    <3> QED BY <1>1, <3>1
  <2>3. \A f \in 1 .. Len(u.values) : f # u.field => chosen[f] = u.values[f]
    BY <1>1
  <2>4. \A f \in 1 .. u.field : High(i, chosen, f) = High(i, u.values, f)
    <3> SUFFICES ASSUME NEW f \in 1 .. u.field
                 PROVE  High(i, chosen, f) = High(i, u.values, f)
      OBVIOUS
    <3>1. CASE f = 3
      <4>1. chosen[2] = u.values[2]
        BY <1>1, <2>3, <3>1
      <4> HIDE DEF chosen, i
      <4> QED BY <3>1, <4>1 DEF High
    <3>2. CASE f # 3
      BY <3>2 DEF High
    <3> QED BY <3>1, <3>2
  <2>5. lit \in Seq(Nat)
    BY <2>2 DEF UiInv, Ui
  <2>6. Step(u, d) = v
    BY <1>3 DEF Step
  <2> HIDE DEF chosen, lit, value
  <2>7. v \in Ui
    BY <2>2, <2>5 DEF UiInv, Ui
  <2>8. /\ v.values = chosen /\ v.lit = lit /\ v.open = u.open /\ v.section = u.section
        /\ v.item = u.item /\ v.editing = u.editing /\ v.field = u.field /\ v.work = u.work
        /\ v.settings = u.settings /\ v.changed = u.changed /\ v.unsaved = u.unsaved
        /\ v.espChanged = u.espChanged /\ v.espUnsaved = u.espUnsaved
        /\ v.foreign = u.foreign /\ v.wait = u.wait /\ v.repeating = u.repeating
        /\ v.overlay = u.overlay /\ v.preview = u.preview
    BY DEF UiInv, Ui
  <2> HIDE DEF v
  <2>9. Current(v) = i
    BY <2>8 DEF Current
  <2>10. PlaceInv(v) /\ SavedInv(v) /\ ClosedInv(v)
    BY <2>8 DEF UiInv, PlaceInv, SavedInv, ClosedInv
  <2>11. LitInv(v)
    BY <2>8, <2>9 DEF UiInv, LitInv, lit
  <2>12. Chosen(v)
    <3> SUFFICES ASSUME NEW f \in 1 .. u.field
                 PROVE  chosen[f] \in 0 .. High(i, chosen, f)
      BY <2>8, <2>9 DEF Chosen
    <3>1. CASE f = u.field
      BY <2>1, <2>2, <2>4, <3>1
    <3>2. CASE f # u.field
      <4>1. u.values[f] \in 0 .. High(i, u.values, f)
        BY DEF UiInv, EditInv, Chosen
      <4>2. chosen[f] = u.values[f]
        BY <1>1, <2>3, <3>2
      <4> QED BY <2>4, <4>1, <4>2
    <3> QED BY <3>1, <3>2
  <2>13. EditInv(v)
    BY <2>2, <2>8, <2>9, <2>12 DEF UiInv, EditInv
  <2>14. High(i, chosen, u.field) # 0
    BY <1>1, <1>3, <2>4
  <2> QED BY <1>1, <2>6, <2>7, <2>8, <2>9, <2>10, <2>11, <2>13, <2>14 DEF UiInv
<1> QED BY <1>2, <1>3

LEMMA BrightnessIsKept == "brightness" \in Kept /\ Kept \subseteq DOMAIN Highs /\ "time" \notin Kept
BY MenuRanges DEF Kept

LEMMA BodyHasBrightness ==
  ASSUME NEW body \in UiBody
  PROVE  body["brightness"] \in Seq(Nat)
BY BrightnessIsKept DEF UiBody

\* Settings written leave the rest of the menu as it is.
LEMMA WriteSafe ==
  ASSUME NEW u, UiInv(u), NEW body \in UiBody
  PROVE  LET w == WriteSettings(u, body)
         IN  /\ UiInv(w)
             /\ w.open = u.open /\ w.editing = u.editing /\ w.wait = u.wait
             /\ w.unsaved = u.unsaved /\ w.settings = body
             /\ body # u.settings => w.changed
<1> DEFINE w == WriteSettings(u, body)
           changed == u.changed \/ body # u.settings
           lit == IF body # u.settings THEN body["brightness"] ELSE u.lit
           foreign == u.foreign /\ body = u.settings
           v == [u EXCEPT !.settings = body, !.work = body, !.changed = changed, !.lit = lit,
                          !.foreign = foreign]
<1>1. w = v
  BY DEF WriteSettings
<1>2. changed \in BOOLEAN /\ lit \in Seq(Nat) /\ foreign \in BOOLEAN
  BY BodyHasBrightness DEF UiInv, Ui
<1> HIDE DEF changed, lit, foreign, w
<1>3. v \in Ui
  BY <1>2 DEF UiInv, Ui
<1>4. /\ v.values = u.values /\ v.lit = lit /\ v.open = u.open /\ v.section = u.section
      /\ v.item = u.item /\ v.editing = u.editing /\ v.field = u.field /\ v.work = body
      /\ v.settings = body /\ v.changed = changed /\ v.unsaved = u.unsaved
      /\ v.espChanged = u.espChanged /\ v.espUnsaved = u.espUnsaved
      /\ v.foreign = foreign /\ v.wait = u.wait
      /\ v.overlay = u.overlay /\ v.preview = u.preview
  BY DEF UiInv, Ui
<1> HIDE DEF v
<1>5. Current(v) = Current(u)
  BY <1>4 DEF Current
<1>6. PlaceInv(v) /\ ClosedInv(v) /\ EditInv(v)
  BY <1>4, <1>5 DEF UiInv, PlaceInv, ClosedInv, EditInv, Chosen
<1>7. SavedInv(v)
  BY <1>4 DEF UiInv, SavedInv, changed
<1>8. LitInv(v)
  <2>1. CASE body = u.settings
    BY <1>4, <1>5, <2>1 DEF UiInv, LitInv, lit, foreign
  <2>2. CASE body # u.settings
    BY <1>4, <1>5, <2>2 DEF LitInv, lit
  <2> QED BY <2>1, <2>2
<1>9. /\ UiInv(w) /\ w.open = u.open /\ w.editing = u.editing /\ w.wait = u.wait
      /\ w.unsaved = u.unsaved /\ w.settings = body /\ (body # u.settings => w.changed)
  BY <1>1, <1>3, <1>4, <1>6, <1>7, <1>8 DEF UiInv, changed
<1> QED BY <1>9 DEF w

LEMMA FactoryIsBody == Factory \in UiBody
<1>1. Factory \in [Kept -> Seq(Nat)]
  BY MenuRanges DEF Kept
<1>2. ASSUME NEW i \in Kept
      PROVE  Factory[i] \in InRange(i)
  <2>1. Factory[i] \in Seq(Nat) /\ Len(Factory[i]) = Len(Highs[i])
    BY <1>1, <1>2, MenuRanges DEF Kept
  <2>2. \A f \in 1 .. Len(Factory[i]) : Factory[i][f] <= Highs[i][f]
    <3>1. DOMAIN Factory[i] = 1 .. Len(Factory[i])
      BY <2>1
    <3> QED BY <1>2, <3>1, MenuRanges DEF Kept
  <2> QED BY <2>1, <2>2 DEF InRange
<1> QED BY <1>1, <1>2 DEF UiBody

\* A value confirmed in its last field.
LEMMA StoredSafe ==
  ASSUME NEW u, UiInv(u), u.editing, u.field = Len(u.values),
         NEW v, v = Stored(u, Current(u), u.values)
  PROVE  UiInv(v) /\ v.open = u.open /\ v.editing = u.editing /\ v.wait = u.wait
<1>0. u \in Ui /\ SavedInv(u) /\ u.open /\ u.values \in Seq(Nat)
  BY Editing DEF UiInv
<1> DEFINE i == Current(u)
<1>1. CASE i \in Kept
  <2> DEFINE body == [u.work EXCEPT ![i] = u.values]
             w == WriteSettings(u, body)
             unsaved == w.unsaved \/ w.settings # u.settings
  <2>1. body \in UiBody
    <3>1. u.values \in InRange(i)
      <4>1. Len(u.values) = Len(Highs[i]) /\ Chosen(u)
        BY DEF UiInv, EditInv
      <4>2. ASSUME NEW f \in 1 .. Len(u.values)
            PROVE  u.values[f] <= Highs[i][f]
        <5>1. i # "time"
          BY <1>1, BrightnessIsKept
        <5>2. u.values[f] \in 0 .. High(i, u.values, f)
          BY <4>1 DEF Chosen
        <5> QED BY <5>1, <5>2, <1>0 DEF High
      <4> QED BY <1>0, <4>1, <4>2 DEF InRange
    <3>2. u.work \in UiBody
      BY <1>0 DEF Ui
    <3>3. u.values \in Seq(Nat)
      BY <1>0
    <3> HIDE DEF i
    <3> QED BY <3>1, <3>2, <3>3 DEF UiBody
  <2> HIDE DEF body
  <2>2. /\ UiInv(w) /\ w.open = u.open /\ w.editing = u.editing /\ w.wait = u.wait
        /\ w.unsaved = u.unsaved /\ (body # u.settings => w.changed) /\ w.settings = body
    BY <2>1, WriteSafe
  <2>3. v = [w EXCEPT !.unsaved = unsaved]
    <3>1. v = [w EXCEPT !.unsaved = @ \/ w.settings # u.settings]
      BY <1>1, MenuRanges DEF Stored, Kept, body
    <3> HIDE DEF w
    <3> QED BY <3>1
  <2> HIDE DEF w
  <2>4. w \in Ui /\ SavedInv(w)
    BY <2>2 DEF UiInv
  <2>5. unsaved \in BOOLEAN /\ (unsaved => w.changed /\ w.open)
    BY <1>0, <2>2, <2>4 DEF SavedInv, Ui
  <2> HIDE DEF unsaved
  <2> DEFINE y == [w EXCEPT !.unsaved = unsaved]
  <2>9. y \in Ui
    BY <2>4, <2>5 DEF Ui
  <2>6. v \in Ui
    BY <2>3, <2>9
  <2>7. Rest(v) = Rest(w) /\ v.open = w.open /\ v.editing = w.editing /\ v.wait = w.wait
        /\ v.overlay = w.overlay /\ v.preview = w.preview
    BY <2>3, <2>4 DEF Ui, Rest
  <2>8. SavedInv(v)
    BY <2>3, <2>4, <2>5 DEF Ui, SavedInv
  <2> QED BY <2>2, <2>6, <2>7, <2>8, RestKeeps
<1>2. CASE i = "tzRemote" /\ clock.linked
  <2> DEFINE yes == TRUE
  <2>1. v = [u EXCEPT !.espChanged = yes, !.espUnsaved = yes]
    BY <1>2, MenuRanges DEF Stored, Kept
  <2>5. yes \in BOOLEAN /\ yes
    OBVIOUS
  <2> HIDE DEF yes
  <2> DEFINE x == [u EXCEPT !.espChanged = yes]
             y == [x EXCEPT !.espUnsaved = yes]
  <2>6. x \in Ui /\ Rest(x) = Rest(u) /\ x.open = u.open /\ x.editing = u.editing
        /\ x.wait = u.wait /\ x.overlay = u.overlay /\ x.preview = u.preview
        /\ x.changed = u.changed /\ x.unsaved = u.unsaved /\ x.espChanged
    <3>1. x \in Ui
      BY <1>0, <2>5 DEF Ui
    <3> QED BY <1>0, <2>5, <3>1 DEF Ui, Rest
  <2>7. v = y
    BY <1>0, <2>1 DEF Ui
  <2> HIDE DEF x
  <2>2. v \in Ui
    <3>1. y \in Ui
      BY <2>5, <2>6 DEF Ui
    <3> HIDE DEF y
    <3> QED BY <2>7, <3>1
  <2>3. Rest(y) = Rest(x) /\ y.open = x.open /\ y.editing = x.editing /\ y.wait = x.wait
        /\ y.overlay = x.overlay /\ y.preview = x.preview
        /\ y.changed = x.changed /\ y.unsaved = x.unsaved /\ y.espChanged = x.espChanged
    BY <2>5, <2>6 DEF Ui, Rest
  <2> HIDE DEF y
  <2>4. SavedInv(v)
    <3>1. SavedInv(u)
      BY DEF UiInv
    <3> QED BY <1>0, <2>3, <2>6, <2>7, <3>1 DEF SavedInv
  <2>8. Rest(v) = Rest(u) /\ v.open = u.open /\ v.editing = u.editing /\ v.wait = u.wait
        /\ v.overlay = u.overlay /\ v.preview = u.preview
    BY <2>3, <2>6, <2>7
  <2>10. UiInv(u)
    OBVIOUS
  <2> QED BY <2>2, <2>8, <2>4, <2>10, RestKeeps
<1>3. CASE i \in {"resetSettings", "resetAll"} /\ u.values = <<1>>
  <2> DEFINE w == WriteSettings(u, Factory)
  <2>1. /\ UiInv(w) /\ w.open = u.open /\ w.editing = u.editing /\ w.wait = u.wait
    BY FactoryIsBody, WriteSafe
  <2> DEFINE no == FALSE
             x == [w EXCEPT !.changed = no, !.unsaved = no]
             y == [x EXCEPT !.espChanged = no, !.espUnsaved = no]
  <2>2. v = x \/ v = y
    BY <1>3, MenuRanges DEF Stored, ResetPic, Kept
  <2> HIDE DEF w
  <2>3. w \in Ui /\ SavedInv(w) /\ no \in BOOLEAN /\ ~no
    BY <2>1 DEF UiInv
  <2> HIDE DEF no
  <2>4. x \in Ui /\ Rest(x) = Rest(w) /\ x.open = w.open /\ x.editing = w.editing
        /\ x.wait = w.wait /\ x.overlay = w.overlay /\ x.preview = w.preview
        /\ ~x.unsaved /\ x.espUnsaved = w.espUnsaved /\ x.espChanged = w.espChanged
    <3>1. x \in Ui
      BY <2>3 DEF Ui
    <3> QED BY <2>3, <3>1 DEF Ui, Rest
  <2> HIDE DEF x
  <2>5. y \in Ui /\ Rest(y) = Rest(x) /\ y.open = x.open /\ y.editing = x.editing
        /\ y.wait = x.wait /\ y.overlay = x.overlay /\ y.preview = x.preview
        /\ y.unsaved = x.unsaved /\ ~y.espUnsaved
    <3>1. y \in Ui
      BY <2>3, <2>4 DEF Ui
    <3> QED BY <2>3, <2>4, <3>1 DEF Ui, Rest
  <2> HIDE DEF y
  <2>6. SavedInv(x) /\ SavedInv(y)
    BY <2>3, <2>4, <2>5 DEF SavedInv
  <2>7. /\ UiInv(x) /\ x.open = u.open /\ x.editing = u.editing /\ x.wait = u.wait
        /\ UiInv(y) /\ y.open = u.open /\ y.editing = u.editing /\ y.wait = u.wait
    BY <2>1, <2>4, <2>5, <2>6, RestKeeps
  <2> QED BY <2>2, <2>7
<1>4. CASE /\ i \notin Kept /\ ~(i = "tzRemote" /\ clock.linked)
           /\ ~(i \in {"resetSettings", "resetAll"} /\ u.values = <<1>>)
  BY <1>4 DEF Stored
<1> QED BY <1>1, <1>2, <1>3, <1>4

\* Away from the editing, the light is that of the settings again.
LEMMA StopEditingSafe ==
  ASSUME NEW u, UiInv(u), u.editing
  PROVE  LET v == StopEditing(u)
         IN  /\ UiInv(v) /\ ~v.editing
             /\ v.open = u.open /\ v.wait = u.wait /\ v.overlay = u.overlay
<1> DEFINE v == StopEditing(u)
           lit == Lit(u, Current(u))
<1>0. u \in Ui /\ u.open /\ SavedInv(u) /\ PlaceInv(u) /\ LitInv(u)
  BY Editing DEF UiInv
<1>1. lit \in Seq(Nat)
  BY <1>0, BodyHasBrightness DEF Lit, Ui
<1>2. u.foreign \/ lit = u.settings["brightness"]
  BY <1>0 DEF Lit, LitInv, Ui
<1>3. v = [u EXCEPT !.lit = lit, !.preview = FALSE, !.editing = FALSE, !.field = 1,
                    !.values = <<0>>, !.nameAge = 0, !.repeating = FALSE, !.stepAge = 0]
  BY DEF StopEditing
<1>4. <<0>> \in Seq(Nat)
  OBVIOUS
<1> HIDE DEF v, lit
<1>5. v \in Ui
  <2> DEFINE none == <<0>>
  <2>1. none \in Seq(Nat)
    BY <1>4
  <2>2. v = [u EXCEPT !.lit = lit, !.preview = FALSE, !.editing = FALSE, !.field = 1,
                      !.values = none, !.nameAge = 0, !.repeating = FALSE, !.stepAge = 0]
    BY <1>3
  <2> HIDE DEF none
  <2> DEFINE no == FALSE
             one == 1
             x == [u EXCEPT !.lit = lit, !.preview = no, !.editing = no, !.field = one]
             y == [x EXCEPT !.values = none, !.nameAge = 0, !.repeating = no, !.stepAge = 0]
  <2>3. v = y /\ no \in BOOLEAN /\ one \in Nat \ {0}
    BY <2>2
  <2> HIDE DEF no, one
  <2>4. x \in Ui
    BY <1>0, <1>1, <2>3 DEF Ui
  <2> HIDE DEF x
  <2>5. y \in Ui
    BY <2>1, <2>3, <2>4 DEF Ui
  <2> QED BY <2>3, <2>5
<1>6. /\ v.editing = FALSE /\ v.lit = lit /\ v.open = u.open /\ v.wait = u.wait
      /\ v.overlay = u.overlay /\ v.section = u.section /\ v.item = u.item
      /\ v.settings = u.settings /\ v.changed = u.changed /\ v.unsaved = u.unsaved
      /\ v.espChanged = u.espChanged /\ v.espUnsaved = u.espUnsaved /\ v.foreign = u.foreign
  BY <1>0, <1>3 DEF Ui
<1>7. PlaceInv(v) /\ EditInv(v) /\ SavedInv(v) /\ ClosedInv(v)
  BY <1>0, <1>6 DEF PlaceInv, EditInv, SavedInv, ClosedInv
<1>8. LitInv(v)
  BY <1>2, <1>6 DEF LitInv
<1>9. UiInv(v) /\ ~v.editing /\ v.open = u.open /\ v.wait = u.wait /\ v.overlay = u.overlay
  BY <1>5, <1>6, <1>7, <1>8 DEF UiInv
<1> QED BY <1>9 DEF v

\* A menu that is closed has asked for what it changed to be saved.
LEMMA CloseMenuSafe ==
  ASSUME NEW u, UiInv(u), u.open
  PROVE  UiInv(CloseMenu(u)) /\ ~CloseMenu(u).open
<1> DEFINE s == IF u.editing THEN StopEditing(u) ELSE u
           v == CloseMenu(u)
           unsaved == s.unsaved /\ ~u.changed
           espUnsaved == s.espUnsaved /\ ~u.espChanged
<1>1. UiInv(s) /\ ~s.editing
  BY StopEditingSafe
<1>2. s.changed = u.changed /\ s.espChanged = u.espChanged
  BY DEF StopEditing, UiInv, Ui
<1>3. v = [s EXCEPT !.open = FALSE, !.overlay = FALSE, !.preview = FALSE,
                    !.unsaved = unsaved, !.changed = FALSE,
                    !.espUnsaved = espUnsaved, !.espChanged = FALSE,
                    !.section = "top", !.item = 1, !.wait = FALSE, !.held = 0, !.idle = 0]
  BY DEF CloseMenu
<1> HIDE DEF s, v
<1>4. s \in Ui /\ SavedInv(s) /\ LitInv(s)
  BY <1>1 DEF UiInv
<1>5. unsaved = FALSE /\ espUnsaved = FALSE
  BY <1>2, <1>4 DEF SavedInv, Ui
<1> HIDE DEF unsaved, espUnsaved
<1>6. v \in Ui
  <2> DEFINE no == FALSE
             one == 1
             x == [s EXCEPT !.open = no, !.overlay = no, !.preview = no, !.unsaved = unsaved]
             y == [x EXCEPT !.changed = no, !.espUnsaved = espUnsaved, !.espChanged = no,
                            !.section = "top"]
             z == [y EXCEPT !.item = one, !.wait = no, !.held = 0, !.idle = 0]
  <2>0. v = z
    BY <1>3
  <2>1. no \in BOOLEAN /\ one \in Nat \ {0}
    OBVIOUS
  <2>5. unsaved \in BOOLEAN /\ espUnsaved \in BOOLEAN
    BY <1>5
  <2> HIDE DEF no, one
  <2>2. x \in Ui
    BY <1>4, <2>1, <2>5 DEF Ui
  <2> HIDE DEF x
  <2>3. y \in Ui
    BY <2>1, <2>2, <2>5, SectionNames DEF Ui
  <2> HIDE DEF y
  <2>4. z \in Ui
    BY <2>1, <2>3 DEF Ui
  <2> QED BY <2>0, <2>4
<1>7. /\ v.open = FALSE /\ v.overlay = FALSE /\ v.preview = FALSE /\ v.unsaved = FALSE
      /\ v.espUnsaved = FALSE /\ v.section = "top" /\ v.item = 1 /\ v.editing = s.editing
      /\ v.lit = s.lit /\ v.settings = s.settings /\ v.foreign = s.foreign
  BY <1>3, <1>4, <1>5 DEF Ui
<1>8. PlaceInv(v)
  BY <1>7, SectionItems, SectionNames DEF PlaceInv
<1>9. EditInv(v) /\ SavedInv(v) /\ LitInv(v) /\ ClosedInv(v)
  BY <1>1, <1>4, <1>7 DEF EditInv, SavedInv, LitInv, ClosedInv
<1>10. UiInv(v) /\ ~v.open
  BY <1>6, <1>7, <1>8, <1>9 DEF UiInv
<1> QED BY <1>10 DEF v

\* Editing starts from a choice there is.
LEMMA StartEditingSafe ==
  ASSUME NEW u, UiInv(u), u.open, ~u.editing, Current(u) \in DOMAIN Highs
  PROVE  LET v == StartEditing(u)
         IN  UiInv(v) /\ v.open /\ v.wait = u.wait
<1> DEFINE i == Current(u)
           fresh == [u EXCEPT !.work = u.settings]
           chosen == Loaded(fresh, i)
           lit == IF i = "brightness" THEN chosen ELSE u.lit
           v == StartEditing(u)
<1>0. u \in Ui /\ SavedInv(u) /\ PlaceInv(u) /\ LitInv(u) /\ u.settings \in UiBody
  BY DEF UiInv, Ui
<1>1. fresh.work = u.settings /\ fresh.lit = u.lit /\ Current(fresh) = i
  BY <1>0 DEF Ui, Current
<1>2. /\ chosen \in Seq(Nat) /\ Len(chosen) = Len(Highs[i]) /\ Len(chosen) >= 1
      /\ chosen[1] \in 0 .. High(i, chosen, 1)
      /\ i = "brightness" => chosen = u.settings["brightness"]
  <2>1. CASE i \in Kept
    <3>1. chosen = u.settings[i]
      BY <1>1, <2>1, BrightnessIsKept DEF Loaded
    <3>2. u.settings[i] \in InRange(i)
      BY <1>0, <2>1 DEF UiBody
    <3>3. Len(Highs[i]) >= 1 /\ Highs[i] \in Seq(Nat)
      BY MenuRanges, FieldsThere
    <3> HIDE DEF i, chosen
    <3>4. High(i, chosen, 1) = Highs[i][1]
      BY DEF High
    <3>5. /\ chosen \in Seq(Nat) /\ Len(chosen) = Len(Highs[i])
          /\ \A f \in 1 .. Len(chosen) : chosen[f] <= Highs[i][f]
      BY <3>1, <3>2 DEF InRange
    <3>6. chosen[1] \in Nat /\ chosen[1] <= Highs[i][1] /\ Highs[i][1] \in Nat
      BY <3>3, <3>5
    <3> QED BY <3>1, <3>3, <3>4, <3>5, <3>6
  <2>2. CASE i = "time"
    <3>1. chosen = <<0, 0, MonthDays[1], 0, 0, 0>>
      BY <2>2, BrightnessIsKept DEF Loaded
    <3>2. MonthDays[1] \in Nat
      BY EditableItems, MenuRanges
    <3>3. Len(Highs[i]) = 6 /\ Highs[i] \in Seq(Nat)
      BY <2>2, MenuRanges
    <3> HIDE DEF i, chosen
    <3>4. chosen \in Seq(Nat) /\ Len(chosen) = 6 /\ chosen[1] = 0
      BY <3>1, <3>2
    <3>5. High(i, chosen, 1) = Highs[i][1] /\ Highs[i][1] \in Nat
      BY <3>3 DEF High
    <3> QED BY <2>2, <3>3, <3>4, <3>5
  <2>3. CASE i \notin Kept /\ i # "time"
    <3>1. chosen = <<0>>
      BY <2>3 DEF Loaded
    <3>2. Len(Highs[i]) = 1 /\ Highs[i] \in Seq(Nat)
      BY <2>3, EditableItems, MenuRanges DEF Kept
    <3>3. i # "brightness"
      BY <2>3, BrightnessIsKept
    <3> HIDE DEF i, chosen
    <3>4. High(i, chosen, 1) = Highs[i][1] /\ Highs[i][1] \in Nat
      BY <3>2 DEF High
    <3> QED BY <3>1, <3>2, <3>3, <3>4
  <2> QED BY <2>1, <2>2, <2>3
<1>3. v = [fresh EXCEPT !.editing = TRUE, !.field = 1, !.values = chosen, !.nameAge = 0,
                        !.lit = lit]
  BY <1>1 DEF StartEditing
<1> HIDE DEF chosen
<1>4. lit \in Seq(Nat)
  BY <1>0, <1>2 DEF Ui
<1> HIDE DEF lit, v
<1>5. fresh \in Ui
  BY <1>0 DEF Ui
<1>6. v \in Ui
  <2> DEFINE yes == TRUE
             one == 1
             x == [fresh EXCEPT !.editing = yes, !.field = one, !.values = chosen]
             y == [x EXCEPT !.nameAge = 0, !.lit = lit]
  <2>1. v = y /\ yes \in BOOLEAN /\ one \in Nat \ {0}
    BY <1>3
  <2> HIDE DEF fresh, yes, one
  <2>2. x \in Ui
    BY <1>2, <1>5, <2>1 DEF Ui
  <2> HIDE DEF x
  <2>3. y \in Ui
    BY <1>4, <2>2 DEF Ui
  <2> QED BY <2>1, <2>3
<1>7. /\ v.editing = TRUE /\ v.field = 1 /\ v.values = chosen /\ v.lit = lit
      /\ v.open = fresh.open /\ v.wait = fresh.wait /\ v.section = fresh.section
      /\ v.item = fresh.item /\ v.settings = fresh.settings /\ v.work = fresh.work
      /\ v.changed = fresh.changed /\ v.unsaved = fresh.unsaved
      /\ v.espChanged = fresh.espChanged /\ v.espUnsaved = fresh.espUnsaved
      /\ v.foreign = fresh.foreign
  <2> HIDE DEF fresh
  <2> QED BY <1>3, <1>5 DEF Ui
<1>8. /\ fresh.open = u.open /\ fresh.wait = u.wait /\ fresh.section = u.section
      /\ fresh.item = u.item /\ fresh.settings = u.settings /\ fresh.work = u.settings
      /\ fresh.changed = u.changed /\ fresh.unsaved = u.unsaved
      /\ fresh.espChanged = u.espChanged /\ fresh.espUnsaved = u.espUnsaved
      /\ fresh.foreign = u.foreign
  BY <1>0 DEF Ui
<1> HIDE DEF fresh
<1>9. Current(v) = i
  BY <1>7, <1>8 DEF Current
<1>10. PlaceInv(v) /\ SavedInv(v) /\ ClosedInv(v)
  BY <1>0, <1>7, <1>8 DEF PlaceInv, SavedInv, ClosedInv
<1>11. LitInv(v)
  BY <1>0, <1>7, <1>8, <1>9 DEF LitInv, lit
<1>12. EditInv(v)
  <2>1. Chosen(v)
    <3> SUFFICES ASSUME NEW f \in 1 .. 1
                 PROVE  chosen[f] \in 0 .. High(i, chosen, f)
      BY <1>7, <1>9 DEF Chosen
    <3> QED BY <1>2
  <2> QED BY <1>2, <1>7, <1>9, <2>1 DEF EditInv
<1>13. UiInv(v) /\ v.open /\ v.wait = u.wait
  BY <1>6, <1>7, <1>8, <1>10, <1>11, <1>12 DEF UiInv
<1> QED BY <1>13 DEF v

\* On to the next field, within its range, or the value stored.
LEMMA ConfirmSafe ==
  ASSUME NEW u, UiInv(u), u.editing
  PROVE  UiInv(Confirm(u)) /\ Confirm(u).open /\ Confirm(u).wait = u.wait
<1>0. u \in Ui /\ EditInv(u) /\ SavedInv(u) /\ PlaceInv(u) /\ LitInv(u)
  BY DEF UiInv
<1>1. /\ u.values \in Seq(Nat) /\ u.open /\ u.field \in 1 .. Len(u.values)
      /\ \A f \in 1 .. Len(u.values) :
              f <= u.field + 1 => High(Current(u), u.values, f) \in Nat
  BY Editing
<1>2. CASE u.field < Len(u.values)
  <2> DEFINE i == Current(u)
             f == u.field + 1
             high == High(i, u.values, f)
             value == AtMost(u.values[f], high)
             chosen == [u.values EXCEPT ![f] = value]
             v == Confirm(u)
  <2>1. f \in 1 .. Len(u.values) /\ f \in Nat \ {0} /\ high \in Nat /\ f # 1 /\ f = u.field + 1
    <3>1. f \in 1 .. Len(u.values) /\ f \in Nat \ {0} /\ f # 1
      BY <1>1, <1>2
    <3> QED BY <1>1, <3>1
  <2>2. v = [u EXCEPT !.field = f, !.values = chosen]
    BY <1>2 DEF Confirm
  <2> HIDE DEF f, v
  <2>3. value \in 0 .. high
    <3>1. u.values[f] \in Nat
      BY <1>1, <2>1
    <3> HIDE DEF high
    <3> QED BY <2>1, <3>1 DEF AtMost
  <2>4. /\ chosen \in Seq(Nat) /\ Len(chosen) = Len(u.values) /\ chosen[f] = value
        /\ \A g \in 1 .. Len(u.values) : g # f => chosen[g] = u.values[g]
    <3>1. value \in Nat
      <4> HIDE DEF value, high
      <4> QED BY <2>1, <2>3
    <3> HIDE DEF value
    <3> QED BY <1>1, <2>1, <3>1
  <2> HIDE DEF value
  <2>5. \A g \in 1 .. f : High(i, chosen, g) = High(i, u.values, g)
    <3> SUFFICES ASSUME NEW g \in 1 .. f
                 PROVE  High(i, chosen, g) = High(i, u.values, g)
      OBVIOUS
    <3>1. CASE g = 3 /\ f # 2
      <4>1. 2 \in 1 .. Len(u.values)
        BY <1>1, <2>1, <3>1
      <4>2. chosen[2] = u.values[2]
        BY <2>4, <3>1, <4>1
      <4> HIDE DEF chosen, i
      <4> QED BY <3>1, <4>2 DEF High
    <3>2. CASE g # 3
      BY <3>2 DEF High
    <3> QED BY <2>1, <3>1, <3>2
  <2> HIDE DEF chosen
  <2>6. v \in Ui
    BY <1>0, <2>1, <2>2, <2>4 DEF Ui
  <2>7. /\ v.editing = TRUE /\ v.field = f /\ v.values = chosen /\ v.lit = u.lit
        /\ v.open = u.open /\ v.wait = u.wait /\ v.section = u.section
        /\ v.item = u.item /\ v.settings = u.settings /\ v.work = u.work
        /\ v.changed = u.changed /\ v.unsaved = u.unsaved
        /\ v.espChanged = u.espChanged /\ v.espUnsaved = u.espUnsaved
        /\ v.foreign = u.foreign
    BY <1>0, <2>2 DEF Ui
  <2>8. Current(v) = i
    BY <2>7 DEF Current
  <2>9. PlaceInv(v) /\ SavedInv(v) /\ ClosedInv(v) /\ LitInv(v)
    BY <1>0, <1>1, <2>7, <2>8 DEF PlaceInv, SavedInv, ClosedInv, LitInv
  <2>10. Chosen(v)
    <3> SUFFICES ASSUME NEW g \in 1 .. f
                 PROVE  chosen[g] \in 0 .. High(i, chosen, g)
      BY <2>7, <2>8 DEF Chosen
    <3>1. CASE g = f
      BY <2>3, <2>4, <2>5, <3>1
    <3>2. CASE g # f
      <4>1. g \in 1 .. u.field /\ g \in 1 .. Len(u.values)
        BY <1>1, <2>1, <3>2
      <4>2. u.values[g] \in 0 .. High(i, u.values, g)
        BY <1>0, <4>1 DEF EditInv, Chosen
      <4> QED BY <2>4, <2>5, <3>2, <4>1, <4>2
    <3> QED BY <3>1, <3>2
  <2>11. EditInv(v)
    BY <1>0, <2>1, <2>4, <2>7, <2>8, <2>10 DEF EditInv
  <2>12. UiInv(v) /\ v.open /\ v.wait = u.wait
    BY <1>1, <2>6, <2>7, <2>9, <2>11 DEF UiInv
  <2> QED BY <2>12 DEF v
<1>3. CASE u.field = Len(u.values)
  <2> DEFINE w == Stored(u, Current(u), u.values)
  <2>1. UiInv(w) /\ w.open /\ w.editing /\ w.wait = u.wait
    BY <1>1, <1>3, StoredSafe
  <2>2. Confirm(u) = StopEditing(w)
    BY <1>3 DEF Confirm
  <2> HIDE DEF w
  <2> QED BY <2>1, <2>2, StopEditingSafe
<1> QED BY <1>1, <1>2, <1>3

\* The next item.
LEMMA NextSafe ==
  ASSUME NEW u, UiInv(u), u.open, ~u.editing, NEW from,
         from \in 1 .. Len(Sections[u.section])
  PROVE  LET v == [u EXCEPT !.item = NextItem(u, from)]
         IN  /\ UiInv(v) /\ v.open /\ v.wait = u.wait /\ v.editing = u.editing
             /\ v.repeating = u.repeating /\ v.wasDown = u.wasDown
<1> DEFINE item == NextItem(u, from)
           v == [u EXCEPT !.item = item]
<1>0. u \in Ui /\ u.section \in DOMAIN Sections
  BY DEF UiInv, Ui
<1>1. item \in 1 .. Len(Sections[u.section]) /\ Len(Sections[u.section]) \in 1 .. 9
  BY <1>0, NextItemIsOne, SectionItems
<1>2. item \in Nat \ {0}
  BY <1>1
<1> HIDE DEF item
<1>3. v \in Ui
  BY <1>0, <1>2 DEF Ui
<1>4. /\ v.item = item /\ v.section = u.section
      /\ v.repeating = u.repeating /\ v.wasDown = u.wasDown
      /\ v.open = u.open /\ v.wait = u.wait /\ v.editing = u.editing
      /\ v.unsaved = u.unsaved /\ v.changed = u.changed
      /\ v.espUnsaved = u.espUnsaved /\ v.espChanged = u.espChanged
      /\ v.lit = u.lit /\ v.settings = u.settings /\ v.foreign = u.foreign
  BY <1>0 DEF Ui
<1> HIDE DEF v
<1>5. PlaceInv(v)
  BY <1>1, <1>4 DEF PlaceInv
<1>6. EditInv(v) /\ SavedInv(v) /\ ClosedInv(v) /\ LitInv(v)
  BY <1>4 DEF UiInv, EditInv, SavedInv, ClosedInv, LitInv
<1>7. /\ UiInv(v) /\ v.open /\ v.wait = u.wait /\ v.editing = u.editing
      /\ v.repeating = u.repeating /\ v.wasDown = u.wasDown
  BY <1>3, <1>4, <1>5, <1>6 DEF UiInv
<1> QED BY <1>7 DEF v, item

\* Into a section, or back from it.
PlacedAt(u, s, n) == [u EXCEPT !.section = s, !.item = n]

LEMMA PlaceSafe ==
  ASSUME NEW u, UiInv(u), u.open, ~u.editing, NEW s \in DOMAIN Sections,
         NEW n \in 1 .. Len(Sections[s])
  PROVE  LET v == PlacedAt(u, s, n)
         IN  /\ UiInv(v) /\ v.open /\ v.wait = u.wait /\ ~v.editing
             /\ v.section = s /\ v.item = n
<1> DEFINE v == PlacedAt(u, s, n)
<1>0. u \in Ui
  BY DEF UiInv
<1>1. n \in Nat \ {0}
  BY SectionItems
<1>2. v \in Ui
  BY <1>0, <1>1 DEF Ui, PlacedAt
<1>3. /\ v.item = n /\ v.section = s
      /\ v.open = u.open /\ v.wait = u.wait /\ v.editing = u.editing
      /\ v.unsaved = u.unsaved /\ v.changed = u.changed
      /\ v.espUnsaved = u.espUnsaved /\ v.espChanged = u.espChanged
      /\ v.lit = u.lit /\ v.settings = u.settings /\ v.foreign = u.foreign
  BY <1>0 DEF Ui, PlacedAt
<1> HIDE DEF v
<1>4. PlaceInv(v)
  BY <1>3, SectionItems DEF PlaceInv
<1>5. EditInv(v) /\ SavedInv(v) /\ ClosedInv(v) /\ LitInv(v)
  BY <1>3 DEF UiInv, EditInv, SavedInv, ClosedInv, LitInv
<1>6. UiInv(v) /\ v.open /\ v.wait = u.wait /\ ~v.editing /\ v.section = s /\ v.item = n
  BY <1>2, <1>3, <1>4, <1>5 DEF UiInv
<1> QED BY <1>6 DEF v

\* A long press while moving about.
LEMMA MoveLongSafe ==
  ASSUME NEW u, UiInv(u), u.open, ~u.editing
  PROVE  LET v == MoveLong(u)
         IN  UiInv(v) /\ (v.open => v.wait = u.wait)
<1> DEFINE i == Current(u)
           v == MoveLong(u)
           inside == [u EXCEPT !.section = i, !.item = 1]
           home == CHOOSE n \in DOMAIN Sections["top"] : Sections["top"][n] = u.section
<1>1. u.section \in DOMAIN Sections /\ u.item \in 1 .. Len(Sections[u.section])
  BY ItemIsOne
<1>2. OfSection(u.section, i)
  BY <1>1, SectionItems DEF Current
<1> HIDE DEF i
<1>3. CASE i \in {"MENU", "EXIT"}
  <2>1. v = CloseMenu(u)
    BY <1>3, SectionNames DEF MoveLong, Opens, i
  <2> QED BY <2>1, CloseMenuSafe
<1>4. CASE Opens(i)
  <2>1. v = IF Shown(u, Sections[i][1]) THEN inside
            ELSE [inside EXCEPT !.item = NextItem(inside, 1)]
    BY <1>4, SectionNames DEF MoveLong, Opens, i
  <2>2. i \in DOMAIN Sections /\ 1 \in 1 .. Len(Sections[i])
    BY <1>4, SectionItems DEF Opens
  <2>3. /\ UiInv(inside) /\ inside.open /\ inside.wait = u.wait /\ ~inside.editing
        /\ inside.section = i
    <3>1. inside = PlacedAt(u, i, 1)
      BY DEF PlacedAt
    <3> HIDE DEF inside
    <3> QED BY <2>2, <3>1, PlaceSafe
  <2> HIDE DEF inside, v
  <2>4. LET w == [inside EXCEPT !.item = NextItem(inside, 1)]
        IN  UiInv(w) /\ w.open /\ w.wait = inside.wait
    BY <2>2, <2>3, NextSafe
  <2>5. UiInv(v) /\ (v.open => v.wait = u.wait)
    BY <2>1, <2>3, <2>4
  <2> QED BY <2>5 DEF v
<1>5. CASE i = "BACK"
  <2>1. v = PlacedAt(u, "top", home)
    BY <1>5, SectionNames DEF MoveLong, Opens, i, PlacedAt
  <2>2. u.section # "top"
    BY <1>2, <1>5, EditableItems, SectionNames DEF OfSection, Opens
  <2>3. home \in 1 .. Len(Sections["top"])
    BY <1>1, <2>2, WayBack
  <2>4. "top" \in DOMAIN Sections
    BY SectionNames
  <2> HIDE DEF home
  <2> QED BY <2>1, <2>3, <2>4, PlaceSafe
<1>6. CASE i \notin {"MENU", "EXIT", "BACK"} /\ ~Opens(i)
  <2>1. v = StartEditing(u)
    BY <1>6 DEF MoveLong, i
  <2>2. Current(u) \in DOMAIN Highs
    BY <1>2, <1>6 DEF OfSection, i
  <2> QED BY <2>1, <2>2, StartEditingSafe
<1> QED BY <1>3, <1>4, <1>5, <1>6

LEMMA SpentSafe ==
  ASSUME NEW u, UiInv(u)
  PROVE  LET v == Spent(u)
         IN  /\ UiInv(v) /\ v.open = u.open /\ v.editing = u.editing /\ v.wait
<1> DEFINE yes == TRUE
           v == [u EXCEPT !.wait = yes]
<1>0. u \in Ui /\ SavedInv(u) /\ yes \in BOOLEAN
  BY DEF UiInv
<1>1. Spent(u) = v
  BY DEF Spent
<1> HIDE DEF yes
<1>2. v \in Ui
  BY <1>0 DEF Ui
<1>3. /\ Rest(v) = Rest(u) /\ v.open = u.open /\ v.editing = u.editing /\ v.wait = yes
      /\ v.overlay = u.overlay /\ v.preview = u.preview
      /\ v.unsaved = u.unsaved /\ v.changed = u.changed
      /\ v.espUnsaved = u.espUnsaved /\ v.espChanged = u.espChanged
  BY <1>0 DEF Ui, Rest
<1> HIDE DEF v
<1>4. SavedInv(v)
  BY <1>0, <1>3 DEF SavedInv
<1>5. UiInv(v) /\ v.open = u.open /\ v.editing = u.editing /\ v.wait = TRUE
  BY <1>2, <1>3, <1>4, RestKeeps DEF yes
<1> QED BY <1>1, <1>5

\* The button held in the menu: a press is acted on once, or steps and steps again.
Pressed(u, r) ==
  /\ UiInv(r.u)
  /\ \/ r.what = "NONE" /\ r.u = u
     \/ r.what = "STEP" /\ r.u.open /\ r.u.wait = u.wait /\ Stepping(r.u)
     \/ /\ r.what \in {"LONG", "CONFIRM"} /\ (r.u.open => r.u.wait)
        /\ ~(u.editing /\ High(Current(u), u.values, u.field) # 0)

LEMMA PressingSafe ==
  ASSUME NEW u, UiInv(u), u.open
  PROVE  Pressed(u, Pressing(u))
<1> DEFINE single == High(Current(u), u.values, u.field) = 0
           r == Pressing(u)
           s == Spent(u)
<1>1. UiInv(s) /\ s.open /\ s.editing = u.editing /\ s.wait
  BY SpentSafe
<1>2. CASE ~u.editing /\ u.held >= Long
  <2>1. r = [u |-> MoveLong(s), what |-> "LONG"]
    BY <1>2 DEF Pressing, Did
  <2> HIDE DEF s
  <2>2. UiInv(MoveLong(s)) /\ (MoveLong(s).open => MoveLong(s).wait)
    BY <1>1, <1>2, MoveLongSafe
  <2>3. r.u = MoveLong(s) /\ r.what = "LONG"
    BY <2>1
  <2> QED BY <1>2, <2>2, <2>3 DEF Pressed
<1>3. CASE u.editing /\ single /\ u.held >= Long
  <2>1. r = [u |-> Confirm(s), what |-> "CONFIRM"]
    BY <1>3 DEF Pressing, Did
  <2> HIDE DEF s
  <2>2. UiInv(Confirm(s)) /\ Confirm(s).wait
    BY <1>1, <1>3, ConfirmSafe
  <2>3. r.u = Confirm(s) /\ r.what = "CONFIRM"
    BY <2>1
  <2> QED BY <1>3, <2>2, <2>3 DEF Pressed
<1>4. CASE /\ u.editing /\ ~single
           /\ \/ ~u.repeating /\ u.held >= Repeat
              \/ u.repeating /\ u.stepAge >= RepeatPeriod
  <2> DEFINE yes == TRUE
             w == [u EXCEPT !.repeating = yes, !.stepAge = 0]
             v == Step(w, 1)
  <2>1. r = [u |-> v, what |-> "STEP"]
    BY <1>4 DEF Pressing, Did
  <2>2. u \in Ui /\ SavedInv(u) /\ yes \in BOOLEAN
    BY DEF UiInv
  <2> HIDE DEF yes
  <2>3. w \in Ui
    BY <2>2 DEF Ui
  <2>4. /\ Rest(w) = Rest(u) /\ w.open = u.open /\ w.editing = u.editing /\ w.repeating = yes
        /\ w.wait = u.wait /\ w.overlay = u.overlay /\ w.preview = u.preview
        /\ w.unsaved = u.unsaved /\ w.changed = u.changed
        /\ w.espUnsaved = u.espUnsaved /\ w.espChanged = u.espChanged
        /\ w.section = u.section /\ w.item = u.item /\ w.values = u.values /\ w.field = u.field
    BY <2>2 DEF Ui, Rest
  <2> HIDE DEF w
  <2>5. UiInv(w)
    <3>1. SavedInv(w)
      BY <2>2, <2>4 DEF SavedInv
    <3> QED BY <2>3, <2>4, <3>1, RestKeeps
  <2>6. High(Current(w), w.values, w.field) # 0
    BY <1>4, <2>4 DEF Current
  <2>7. UiInv(v) /\ v.open /\ v.wait = u.wait /\ Stepping(v)
    BY <1>4, <2>4, <2>5, <2>6, StepSafe DEF Stepping, yes
  <2> HIDE DEF v
  <2>8. r.u = v /\ r.what = "STEP"
    BY <2>1
  <2> QED BY <2>7, <2>8 DEF Pressed
<1>5. CASE /\ ~(~u.editing /\ u.held >= Long)
           /\ ~(u.editing /\ single /\ u.held >= Long)
           /\ ~(/\ u.editing /\ ~single
                /\ \/ ~u.repeating /\ u.held >= Repeat
                   \/ u.repeating /\ u.stepAge >= RepeatPeriod)
  <2>1. r = [u |-> u, what |-> "NONE"]
    BY <1>5 DEF Pressing, Did
  <2> QED BY <2>1 DEF Pressed
<1> QED BY <1>2, <1>3, <1>4, <1>5

\* The button released in the menu.
LEMMA ReleasedSafe ==
  ASSUME NEW u, UiInv(u), u.open
  PROVE  LET r == Released(u)
         IN  /\ UiInv(r.u) /\ r.u.open /\ r.what \in {"MOVE", "STEP", "CONFIRM"}
             /\ u.repeating /\ u.editing => r.what = "STEP"
<1> DEFINE r == Released(u)
<1>1. CASE ~u.editing
  <2> DEFINE v == [u EXCEPT !.item = NextItem(u, u.item)]
  <2>1. r = [u |-> v, what |-> "MOVE"]
    BY <1>1 DEF Released, Did
  <2>2. u.item \in 1 .. Len(Sections[u.section])
    BY ItemIsOne
  <2>3. UiInv(v) /\ v.open
    BY <1>1, <2>2, NextSafe
  <2> HIDE DEF v
  <2> QED BY <1>1, <2>1, <2>3
<1>2. CASE u.editing /\ u.repeating
  <2> DEFINE v == IF u.stepAge < TakeBack THEN Step(u, -1) ELSE u
  <2>1. r = [u |-> v, what |-> "STEP"]
    BY <1>2 DEF Released, Did
  <2>2. UiInv(v) /\ v.open
    BY <1>2, StepSafe
  <2> HIDE DEF v
  <2> QED BY <2>1, <2>2
<1>3. CASE u.editing /\ ~u.repeating /\ u.held < Long
  <2> DEFINE v == Step(u, 1)
  <2>1. r = [u |-> v, what |-> "STEP"]
    BY <1>3 DEF Released, Did
  <2>2. UiInv(v) /\ v.open
    BY <1>3, StepSafe
  <2> HIDE DEF v
  <2> QED BY <2>1, <2>2
<1>4. CASE u.editing /\ ~u.repeating /\ ~(u.held < Long)
  <2> DEFINE v == Confirm(u)
  <2>1. r = [u |-> v, what |-> "CONFIRM"]
    BY <1>4 DEF Released, Did
  <2>2. UiInv(v) /\ v.open
    BY <1>4, ConfirmSafe
  <2> HIDE DEF v
  <2> QED BY <1>4, <2>1, <2>2
<1> QED BY <1>1, <1>2, <1>3, <1>4

LEMMA AgedSafe ==
  ASSUME NEW u, UiInv(u)
  PROVE  LET v == Aged(u)
         IN  /\ UiInv(v) /\ v.open = u.open /\ v.editing = u.editing /\ v.wait = u.wait
             /\ v.wasDown = u.wasDown /\ v.repeating = u.repeating
             /\ v.section = u.section /\ v.item = u.item /\ v.values = u.values
             /\ v.field = u.field
<1> DEFINE since == IF u.wasDown THEN Older(u.held, Repeat) ELSE 0
           stepAge == IF u.repeating THEN Older(u.stepAge, RepeatPeriod) ELSE 0
           idle == Older(u.idle, Timeout)
           nameAge == IF u.editing THEN Older(u.nameAge, NameShown) ELSE 0
           v == [u EXCEPT !.held = since, !.stepAge = stepAge, !.idle = idle, !.nameAge = nameAge]
<1>0. u \in Ui /\ SavedInv(u)
  BY DEF UiInv
<1>1. since \in Nat /\ stepAge \in Nat /\ idle \in Nat /\ nameAge \in Nat
  <2>1. {Repeat, RepeatPeriod, Timeout, NameShown} \subseteq Nat
    BY MenuAssumption
  <2>2. u.held \in Nat /\ u.stepAge \in Nat /\ u.idle \in Nat /\ u.nameAge \in Nat
    BY <1>0 DEF Ui
  <2>3. \A age, limit \in Nat : Older(age, limit) \in Nat
    BY DEF Older, AtMost
  <2> QED BY <2>1, <2>2, <2>3
<1>2. Aged(u) = IF u.open THEN v ELSE u
  BY DEF Aged
<1> HIDE DEF since, stepAge, idle, nameAge
<1>3. v \in Ui
  BY <1>0, <1>1 DEF Ui
<1>4. /\ Rest(v) = Rest(u) /\ v.open = u.open /\ v.editing = u.editing /\ v.wait = u.wait
      /\ v.wasDown = u.wasDown /\ v.repeating = u.repeating
      /\ v.section = u.section /\ v.item = u.item /\ v.values = u.values
      /\ v.field = u.field /\ v.overlay = u.overlay /\ v.preview = u.preview
      /\ v.unsaved = u.unsaved /\ v.changed = u.changed
      /\ v.espUnsaved = u.espUnsaved /\ v.espChanged = u.espChanged
  BY <1>0 DEF Ui, Rest
<1> HIDE DEF v
<1>5. SavedInv(v)
  BY <1>0, <1>4 DEF SavedInv
<1>6. UiInv(v)
  BY <1>3, <1>4, <1>5, RestKeeps
<1> QED BY <1>2, <1>4, <1>6

\* What a call of the menu's button does, by whether it was and is pressed.
Followed(u, down, r) ==
  /\ UiInv(r.u)
  /\ u.wait => r.what = "NONE" /\ r.u.open /\ (down => r.u.wait)
  /\ ~u.wasDown /\ ~down => r.what = "NONE" /\ r.u.open
  /\ ~u.wasDown /\ down /\ ~u.wait => r.what = "NONE" /\ r.u.open /\ ~r.u.repeating
  /\ u.wasDown /\ ~down /\ ~u.wait =>
       r.u.open /\ (u.repeating /\ u.editing => r.what = "STEP")
  /\ u.wasDown /\ down /\ ~u.wait => Pressed(u, r)

LEMMA FollowSafe ==
  ASSUME NEW u, UiInv(u), u.open, NEW down \in BOOLEAN
  PROVE  Followed(u, down, FollowButton(u, down))
<1> DEFINE r == FollowButton(u, down)
           no == FALSE
<1> SUFFICES Followed(u, down, r)
  OBVIOUS
<1>0. u \in Ui /\ SavedInv(u) /\ no \in BOOLEAN
  BY DEF UiInv
<1>1. CASE u.wait /\ down
  <2>1. r = [u |-> u, what |-> "NONE"]
    BY <1>1 DEF FollowButton, Did
  <2>2. r.u = u /\ r.what = "NONE"
    BY <2>1
  <2> HIDE DEF r
  <2> QED BY <1>1, <2>2 DEF Followed
<1>2. CASE u.wait /\ ~down
  <2> DEFINE v == [u EXCEPT !.wait = no, !.idle = 0]
  <2>1. r = [u |-> v, what |-> "NONE"]
    BY <1>2 DEF FollowButton, Did
  <2> HIDE DEF no
  <2>2. v \in Ui
    BY <1>0 DEF Ui
  <2>3. /\ Rest(v) = Rest(u) /\ v.open = u.open /\ v.overlay = u.overlay
        /\ v.preview = u.preview /\ v.unsaved = u.unsaved /\ v.changed = u.changed
        /\ v.espUnsaved = u.espUnsaved /\ v.espChanged = u.espChanged
    BY <1>0 DEF Ui, Rest
  <2> HIDE DEF v
  <2>4. SavedInv(v)
    BY <1>0, <2>3 DEF SavedInv
  <2>5. UiInv(v) /\ v.open
    BY <2>2, <2>3, <2>4, RestKeeps
  <2>6. r.u = v /\ r.what = "NONE"
    BY <2>1
  <2> HIDE DEF r
  <2> QED BY <1>2, <2>5, <2>6 DEF Followed
<1>3. CASE ~u.wait /\ down /\ ~u.wasDown
  <2> DEFINE v == [u EXCEPT !.held = 0, !.repeating = no, !.stepAge = 0, !.idle = 0]
  <2>1. r = [u |-> v, what |-> "NONE"]
    BY <1>3 DEF FollowButton, Did
  <2> HIDE DEF no
  <2>2. v \in Ui
    BY <1>0 DEF Ui
  <2>3. /\ Rest(v) = Rest(u) /\ v.open = u.open /\ v.overlay = u.overlay
        /\ v.preview = u.preview /\ v.unsaved = u.unsaved /\ v.changed = u.changed
        /\ v.espUnsaved = u.espUnsaved /\ v.espChanged = u.espChanged /\ v.repeating = no
    BY <1>0 DEF Ui, Rest
  <2> HIDE DEF v
  <2>4. SavedInv(v)
    BY <1>0, <2>3 DEF SavedInv
  <2>5. UiInv(v) /\ v.open /\ ~v.repeating
    BY <2>2, <2>3, <2>4, RestKeeps DEF no
  <2>6. r.u = v /\ r.what = "NONE"
    BY <2>1
  <2> HIDE DEF r
  <2> QED BY <1>3, <2>5, <2>6 DEF Followed
<1>4. CASE ~u.wait /\ down /\ u.wasDown
  <2>1. r = Pressing(u)
    BY <1>4 DEF FollowButton
  <2>2. Pressed(u, r)
    BY <2>1, PressingSafe
  <2> HIDE DEF r
  <2>3. UiInv(r.u)
    BY <2>2 DEF Pressed
  <2> QED BY <1>4, <2>2, <2>3 DEF Followed
<1>5. CASE ~u.wait /\ ~down /\ u.wasDown
  <2> DEFINE v == [u EXCEPT !.idle = 0]
  <2>1. r = Released(v)
    BY <1>5 DEF FollowButton
  <2>2. v \in Ui
    BY <1>0 DEF Ui
  <2>3. /\ Rest(v) = Rest(u) /\ v.open = u.open /\ v.overlay = u.overlay
        /\ v.preview = u.preview /\ v.unsaved = u.unsaved /\ v.changed = u.changed
        /\ v.espUnsaved = u.espUnsaved /\ v.espChanged = u.espChanged
        /\ v.repeating = u.repeating /\ v.editing = u.editing
    BY <1>0 DEF Ui, Rest
  <2> HIDE DEF v
  <2>4. SavedInv(v)
    BY <1>0, <2>3 DEF SavedInv
  <2>5. UiInv(v) /\ v.open
    BY <2>2, <2>3, <2>4, RestKeeps
  <2> HIDE DEF r
  <2>6. UiInv(r.u) /\ r.u.open /\ (u.repeating /\ u.editing => r.what = "STEP")
    BY <2>1, <2>3, <2>5, ReleasedSafe
  <2> QED BY <1>5, <2>6 DEF Followed
<1>6. CASE ~u.wait /\ ~down /\ ~u.wasDown
  <2>1. r = [u |-> u, what |-> "NONE"]
    BY <1>6 DEF FollowButton, Did
  <2>2. r.u = u /\ r.what = "NONE"
    BY <2>1
  <2> HIDE DEF r
  <2> QED BY <1>6, <2>2 DEF Followed
<1>7. u.wait \in BOOLEAN /\ u.wasDown \in BOOLEAN
  BY <1>0 DEF Ui
<1> QED BY <1>1, <1>2, <1>3, <1>4, <1>5, <1>6, <1>7

LEMMA DownSafe ==
  ASSUME NEW u, UiInv(u), NEW down \in BOOLEAN
  PROVE  LET v == [u EXCEPT !.wasDown = down]
         IN  /\ UiInv(v) /\ v.wasDown = down /\ v.open = u.open /\ v.wait = u.wait
             /\ v.editing = u.editing /\ v.repeating = u.repeating
             /\ v.section = u.section /\ v.item = u.item /\ v.values = u.values
             /\ v.field = u.field /\ v.overlay = u.overlay /\ v.preview = u.preview
<1> DEFINE v == [u EXCEPT !.wasDown = down]
<1>0. u \in Ui /\ SavedInv(u)
  BY DEF UiInv
<1>1. v \in Ui
  BY <1>0 DEF Ui
<1>2. /\ Rest(v) = Rest(u) /\ v.unsaved = u.unsaved /\ v.changed = u.changed
      /\ v.espUnsaved = u.espUnsaved /\ v.espChanged = u.espChanged
      /\ v.wasDown = down /\ v.open = u.open /\ v.wait = u.wait
      /\ v.editing = u.editing /\ v.repeating = u.repeating
      /\ v.section = u.section /\ v.item = u.item /\ v.values = u.values
      /\ v.field = u.field /\ v.overlay = u.overlay /\ v.preview = u.preview
  BY <1>0 DEF Ui, Rest
<1> HIDE DEF v
<1>3. SavedInv(v)
  BY <1>0, <1>2 DEF SavedInv
<1>4. UiInv(v)
  BY <1>1, <1>2, <1>3, RestKeeps
<1> QED BY <1>2, <1>4 DEF v

\* Either the menu's frame hides the clock, or the mode being chosen is seen.
LEMMA RenderedSafe ==
  ASSUME NEW u, UiInv(u), u.open
  PROVE  LET v == Rendered(u)
         IN  /\ UiInv(v) /\ v.wasDown = u.wasDown /\ v.open /\ v.wait = u.wait
             /\ v.editing = u.editing /\ v.repeating = u.repeating
             /\ v.section = u.section /\ v.item = u.item /\ v.values = u.values
             /\ v.field = u.field /\ v.overlay # v.preview
<1> DEFINE live == u.editing /\ Current(u) = "mode" /\ u.nameAge >= NameShown
           overlay == ~live
           v == [u EXCEPT !.overlay = overlay, !.preview = live]
<1>0. u \in Ui /\ SavedInv(u)
  BY DEF UiInv
<1>1. live \in BOOLEAN /\ overlay \in BOOLEAN
  BY <1>0 DEF Ui
<1>2. overlay # live
  BY <1>0 DEF Ui
<1>3. Rendered(u) = v
  BY DEF Rendered
<1> HIDE DEF live, overlay
<1>4. v \in Ui
  BY <1>0, <1>1 DEF Ui
<1>5. /\ Rest(v) = Rest(u) /\ v.unsaved = u.unsaved /\ v.changed = u.changed
      /\ v.espUnsaved = u.espUnsaved /\ v.espChanged = u.espChanged
      /\ v.wasDown = u.wasDown /\ v.open = u.open /\ v.wait = u.wait
      /\ v.editing = u.editing /\ v.repeating = u.repeating
      /\ v.section = u.section /\ v.item = u.item /\ v.values = u.values
      /\ v.field = u.field
  BY <1>0 DEF Ui, Rest
<1>6. v.overlay # v.preview
  BY <1>0, <1>2 DEF Ui
<1> HIDE DEF v
<1>7. SavedInv(v)
  BY <1>0, <1>5 DEF SavedInv
<1>8. UiInv(v)
  BY <1>4, <1>5, <1>7, RestKeeps
<1> QED BY <1>3, <1>5, <1>6, <1>8

LEMMA MenuOpenSafe ==
  ASSUME NEW u, UiInv(u), ~u.open
  PROVE  LET v == MenuOpen(u)
         IN  /\ UiInv(v) /\ v.wasDown = u.wasDown /\ v.open /\ v.wait /\ v.overlay # v.preview
<1> DEFINE yes == TRUE
           no == FALSE
           one == 1
           x == [u EXCEPT !.open = yes, !.section = "top", !.item = one, !.editing = no]
           y == [x EXCEPT !.wait = yes, !.idle = 0, !.work = u.settings]
           z == [y EXCEPT !.changed = no, !.espChanged = no]
<1>0. /\ u \in Ui /\ SavedInv(u) /\ LitInv(u) /\ ClosedInv(u)
      /\ yes \in BOOLEAN /\ no \in BOOLEAN /\ one \in Nat \ {0} /\ u.settings \in UiBody
  BY DEF UiInv, Ui
<1>1. MenuOpen(u) = Rendered(z)
  BY DEF MenuOpen
<1> HIDE DEF yes, no, one
<1>2. x \in Ui
  BY <1>0, SectionNames DEF Ui
<1>3. /\ x.open = yes /\ x.section = "top" /\ x.item = one /\ x.editing = no
      /\ x.wasDown = u.wasDown /\ x.lit = u.lit /\ x.settings = u.settings
      /\ x.foreign = u.foreign /\ x.unsaved = u.unsaved /\ x.espUnsaved = u.espUnsaved
  BY <1>0 DEF Ui
<1> HIDE DEF x
<1>4. y \in Ui
  BY <1>0, <1>2 DEF Ui
<1>5. /\ y.open = yes /\ y.section = "top" /\ y.item = one /\ y.editing = no /\ y.wait = yes
      /\ y.wasDown = u.wasDown /\ y.lit = u.lit /\ y.settings = u.settings
      /\ y.foreign = u.foreign /\ y.unsaved = u.unsaved /\ y.espUnsaved = u.espUnsaved
  BY <1>2, <1>3 DEF Ui
<1> HIDE DEF y
<1>6. z \in Ui
  BY <1>0, <1>4 DEF Ui
<1>7. /\ z.open = yes /\ z.section = "top" /\ z.item = one /\ z.editing = no /\ z.wait = yes
      /\ z.wasDown = u.wasDown /\ z.lit = u.lit /\ z.settings = u.settings
      /\ z.foreign = u.foreign /\ z.unsaved = u.unsaved /\ z.espUnsaved = u.espUnsaved
  BY <1>4, <1>5 DEF Ui
<1> HIDE DEF z
<1>8. PlaceInv(z)
  BY <1>7, SectionItems, SectionNames DEF PlaceInv, one
<1>9. EditInv(z) /\ SavedInv(z) /\ LitInv(z) /\ ClosedInv(z)
  BY <1>0, <1>7 DEF EditInv, SavedInv, LitInv, ClosedInv, yes, no
<1>10. UiInv(z) /\ z.open /\ z.wait
  BY <1>6, <1>7, <1>8, <1>9 DEF UiInv, yes
<1> QED BY <1>1, <1>7, <1>10, RenderedSafe

\* What a call of menu_service() does, by whether the button was and is pressed.
AfterService(u, down, m) ==
  /\ UiInv(m.u) /\ m.u.wasDown = down
  /\ m.u.open => m.u.overlay # m.u.preview
  /\ ~u.open => ~m.u.open /\ m.what = "NONE"
  /\ u.wait => m.what = "NONE" /\ (down /\ m.u.open => m.u.wait)
  /\ ~u.wasDown /\ ~down => m.what = "NONE"
  /\ ~u.wasDown /\ down /\ ~u.wait /\ u.open => m.what = "NONE" /\ ~m.u.repeating
  /\ u.wasDown /\ ~down /\ ~u.wait /\ Stepping(u) /\ u.open => m.what = "STEP"
  /\ u.wasDown /\ down /\ ~u.wait /\ u.open =>
       \/ /\ m.what = "NONE" /\ m.u.repeating = u.repeating
          /\ Stepping(u) => Stepping(m.u)
       \/ m.what = "STEP" /\ Stepping(m.u)
       \/ m.what \in {"LONG", "CONFIRM"} /\ (m.u.open => m.u.wait) /\ ~Stepping(u)

LEMMA ServedSafe ==
  ASSUME NEW u, UiInv(u), NEW down \in BOOLEAN
  PROVE  AfterService(u, down, MenuService(u, down))
<1> DEFINE a == Aged(u)
           r == FollowButton(a, down)
           f == [r.u EXCEPT !.wasDown = down]
           moved == IF ~f.editing /\ ~Shown(f, Current(f))
                    THEN [f EXCEPT !.item = NextItem(f, f.item)] ELSE f
           m == MenuService(u, down)
<1> SUFFICES AfterService(u, down, m)
  OBVIOUS
<1>1. CASE ~u.open
  <2> DEFINE v == [u EXCEPT !.wasDown = down]
  <2>1. m = [u |-> v, what |-> "NONE"]
    BY <1>1 DEF MenuService, Did
  <2>2. UiInv(v) /\ v.wasDown = down /\ v.open = u.open
    BY DownSafe
  <2>3. m.u = v /\ m.what = "NONE"
    BY <2>1
  <2> HIDE DEF v, m
  <2> QED BY <1>1, <2>2, <2>3 DEF AfterService
<1>2. CASE u.open
  <2>1. /\ UiInv(a) /\ a.open /\ a.editing = u.editing /\ a.wait = u.wait
        /\ a.wasDown = u.wasDown /\ a.repeating = u.repeating
        /\ a.section = u.section /\ a.item = u.item /\ a.values = u.values
        /\ a.field = u.field
    BY <1>2, AgedSafe
  <2>2. m = IF ~f.open THEN [u |-> f, what |-> r.what]
            ELSE IF ~down /\ f.idle >= Timeout THEN [u |-> CloseMenu(f), what |-> r.what]
            ELSE [u |-> Rendered(moved), what |-> r.what]
    BY <1>2 DEF MenuService, Did
  <2> HIDE DEF a
  <2>3. Followed(a, down, r)
    BY <2>1, FollowSafe
  <2>4. Current(a) = Current(u)
    BY <2>1 DEF Current
  <2>5. Stepping(a) = Stepping(u)
    BY <2>1, <2>4 DEF Stepping
  <2> HIDE DEF r
  <2>6. UiInv(r.u)
    BY <2>3 DEF Followed
  <2>7. /\ UiInv(f) /\ f.wasDown = down /\ f.open = r.u.open /\ f.wait = r.u.wait
        /\ f.editing = r.u.editing /\ f.repeating = r.u.repeating
        /\ f.section = r.u.section /\ f.item = r.u.item /\ f.values = r.u.values
        /\ f.field = r.u.field
    BY <2>6, DownSafe
  <2> HIDE DEF f
  <2>8. m.what = r.what /\ m.u.wasDown = down /\ UiInv(m.u) /\ (m.u.open => f.open)
    <3>1. CASE ~f.open
      BY <2>2, <2>7, <3>1
    <3>2. CASE f.open /\ ~down /\ f.idle >= Timeout
      <4>1. m.u = CloseMenu(f) /\ m.what = r.what
        BY <2>2, <3>2
      <4>2. UiInv(CloseMenu(f)) /\ ~CloseMenu(f).open
        BY <2>7, <3>2, CloseMenuSafe
      <4>3. CloseMenu(f).wasDown = f.wasDown
        BY <2>7 DEF CloseMenu, StopEditing, UiInv, Ui
      <4> QED BY <2>7, <3>2, <4>1, <4>2, <4>3
    <3>3. CASE f.open /\ ~(~down /\ f.idle >= Timeout)
      <4>1. m.u = Rendered(moved) /\ m.what = r.what
        BY <2>2, <3>3
      <4>2. f.item \in 1 .. Len(Sections[f.section])
        BY <2>7, ItemIsOne
      <4>3. UiInv(moved) /\ moved.open /\ moved.wasDown = f.wasDown
        BY <2>7, <3>3, <4>2, NextSafe
      <4> HIDE DEF moved
      <4>4. UiInv(Rendered(moved)) /\ Rendered(moved).wasDown = f.wasDown
        BY <4>3, RenderedSafe
      <4> QED BY <2>7, <3>3, <4>1, <4>4
    <3> QED BY <3>1, <3>2, <3>3
  <2>9. ASSUME m.u.open
        PROVE  /\ m.u.overlay # m.u.preview /\ m.u.wait = f.wait /\ m.u.editing = f.editing
               /\ m.u.repeating = f.repeating /\ (Stepping(f) => Stepping(m.u))
    <3>1. f.open
      BY <2>8, <2>9
    <3>2. CASE ~down /\ f.idle >= Timeout
      <4>1. m.u = CloseMenu(f)
        BY <2>2, <3>1, <3>2
      <4> QED BY <2>7, <2>9, <3>1, <4>1, CloseMenuSafe
    <3>3. CASE ~(~down /\ f.idle >= Timeout)
      <4>1. m.u = Rendered(moved)
        BY <2>2, <3>1, <3>3
      <4>2. f.item \in 1 .. Len(Sections[f.section])
        BY <2>7, ItemIsOne
      <4>3. /\ UiInv(moved) /\ moved.open /\ moved.wait = f.wait /\ moved.editing = f.editing
            /\ moved.repeating = f.repeating
        BY <2>7, <3>1, <4>2, NextSafe
      <4>4. f.editing => moved = f
        OBVIOUS
      <4> HIDE DEF moved
      <4> DEFINE v == Rendered(moved)
      <4>5. /\ v.wait = moved.wait /\ v.editing = moved.editing /\ v.repeating = moved.repeating
            /\ v.section = moved.section /\ v.item = moved.item /\ v.values = moved.values
            /\ v.field = moved.field /\ v.overlay # v.preview
        BY <4>3, RenderedSafe
      <4> HIDE DEF v
      <4>6. Stepping(f) => Stepping(v)
        <5>1. Current(v) = Current(moved)
          BY <4>5 DEF Current
        <5> QED BY <4>4, <4>5, <5>1 DEF Stepping
      <4> QED BY <4>1, <4>3, <4>5, <4>6 DEF v
    <3> QED BY <3>2, <3>3
  <2>10. Stepping(r.u) => Stepping(f)
    <3>1. Current(f) = Current(r.u)
      BY <2>7 DEF Current
    <3> QED BY <2>7, <3>1 DEF Stepping
  <2>11. ASSUME down, f.open
         PROVE  m.u.open
    <3>1. m.u = Rendered(moved)
      BY <2>2, <2>11
    <3>2. f.item \in 1 .. Len(Sections[f.section])
      BY <2>7, ItemIsOne
    <3>3. UiInv(moved) /\ moved.open
      BY <2>7, <2>11, <3>2, NextSafe
    <3> HIDE DEF moved
    <3> QED BY <3>1, <3>3, RenderedSafe
  <2> HIDE DEF m, moved
  <2>12. u.wait => m.what = "NONE" /\ (down /\ m.u.open => m.u.wait)
    BY <2>1, <2>3, <2>7, <2>8, <2>9 DEF Followed
  <2>13. ~u.wasDown /\ ~down => m.what = "NONE"
    BY <2>1, <2>3, <2>8 DEF Followed
  <2>14. ~u.wasDown /\ down /\ ~u.wait => m.what = "NONE" /\ ~m.u.repeating
    BY <2>1, <2>3, <2>7, <2>8, <2>9, <2>11 DEF Followed
  <2>15. u.wasDown /\ ~down /\ ~u.wait /\ Stepping(u) => m.what = "STEP"
    BY <2>1, <2>3, <2>8 DEF Followed, Stepping
  <2>16. ASSUME u.wasDown, down, ~u.wait
         PROVE  \/ /\ m.what = "NONE" /\ m.u.repeating = u.repeating
                   /\ Stepping(u) => Stepping(m.u)
                \/ m.what = "STEP" /\ Stepping(m.u)
                \/ m.what \in {"LONG", "CONFIRM"} /\ (m.u.open => m.u.wait) /\ ~Stepping(u)
    <3>1. Pressed(a, r)
      BY <2>1, <2>3, <2>16 DEF Followed
    <3>2. CASE r.what = "NONE" /\ r.u = a
      <4>1. m.u.open
        BY <2>1, <2>7, <2>11, <2>16, <3>2
      <4> QED BY <2>1, <2>5, <2>7, <2>8, <2>9, <2>10, <3>2, <4>1
    <3>3. CASE r.what = "STEP" /\ r.u.open /\ Stepping(r.u)
      <4>1. m.u.open
        BY <2>7, <2>11, <2>16, <3>3
      <4> QED BY <2>8, <2>9, <2>10, <3>3, <4>1
    <3>4. CASE /\ r.what \in {"LONG", "CONFIRM"} /\ (r.u.open => r.u.wait)
               /\ ~(a.editing /\ High(Current(a), a.values, a.field) # 0)
      <4>1. ~Stepping(u)
        BY <2>5, <3>4 DEF Stepping
      <4> QED BY <2>7, <2>8, <2>9, <3>4, <4>1
    <3> QED BY <3>1, <3>2, <3>3, <3>4 DEF Pressed
  <2> QED BY <1>2, <2>8, <2>9, <2>12, <2>13, <2>14, <2>15, <2>16 DEF AfterService
<1>3. u.open \in BOOLEAN
  BY DEF UiInv, Ui
<1> QED BY <1>1, <1>2, <1>3

-----------------------------------------------------------------------------

LEMMA DebouncedIsInput ==
  ASSUME NEW input \in ControlInput, NEW raw \in BOOLEAN
  PROVE  Debounced(input, raw) \in ControlInput
<1> DEFINE age == IF raw # input.raw THEN 0 ELSE Older(input.rawAge, Debounce)
<1>1. /\ input.raw \in BOOLEAN /\ input.level \in BOOLEAN /\ input.rawAge \in Nat
      /\ input.levelAge \in Nat
  BY DEF ControlInput
<1>2. age \in Nat /\ Older(input.levelAge, Long) \in Nat
  <2>1. {Debounce, Long} \subseteq Nat
    BY MenuAssumption
  <2> QED BY <1>1, <2>1 DEF Older, AtMost
<1>3. Debounced(input, raw) =
        IF raw # input.level /\ age >= Debounce
        THEN [raw |-> raw, level |-> raw, rawAge |-> 0, levelAge |-> IF raw THEN age ELSE 0]
        ELSE [raw |-> raw, level |-> input.level, rawAge |-> IF raw = input.level THEN 0 ELSE age,
              levelAge |-> IF input.level THEN Older(input.levelAge, Long) ELSE 0]
  BY DEF Debounced
<1> HIDE DEF age
<1> QED BY <1>1, <1>2, <1>3 DEF ControlInput

LEMMA ActedOnce ==
  ASSUME NEW d, d.acts = 0, NEW what
  PROVE  /\ Acted(d, what).acts \in {0, 1}
         /\ what = "STEP" => Acted(d, what).last = "STEP"
BY DEF Acted, AtMost

LEMMA NotActed ==
  ASSUME NEW d
  PROVE  Acted(d, "NONE") = d /\ (d.last = "STEP" => Acted(d, "STEP") = d)
BY DEF Acted

LEMMA PressIsOne ==
  ASSUME NEW was \in ControlInput, NEW button \in ControlInput, NEW reported \in BOOLEAN,
         NEW press, press = PressOf(was, button, reported)
  PROVE  \/ press = "NONE"
         \/ press = "SHORT" /\ was.level /\ ~button.level /\ ~reported
         \/ press = "LONG" /\ button.level /\ (~reported \/ ~was.level)
BY DEF PressOf, ControlInput

\* One press does one thing.
LEMMA ServiceSafe ==
  ASSUME MenuInv, NEW pin \in BOOLEAN, NEW on \in BOOLEAN, ServiceControls(pin, on)
  PROVE  MenuInv'
<1> DEFINE b == controls.button
           button == Debounced(b, pin)
           toggle == Debounced(controls.toggle, on)
           press == PressOf(b, button, controls.reported)
           began == button.level /\ ~b.level
           rings == controls.sounding /\ toggle.level
           spent == IF began THEN rings ELSE controls.spent
           inMenu == IF began THEN ui.open ELSE controls.inMenu
           reported == press = "LONG" \/ (~began /\ controls.reported)
           sounding == rings /\ ~began
           down == button.level /\ ~spent
           m == MenuService(ui, down)
           onClock == press # "NONE" /\ ~spent /\ ~inMenu /\ ~m.u.open
           fresh == IF ~began THEN did ELSE [acts |-> IF rings THEN 1 ELSE 0, last |-> "STOP"]
           once == Acted(fresh, m.what)
           act == IF ~onClock THEN "NONE" ELSE IF press = "LONG" THEN "OPEN" ELSE "CYCLE"
<1>1. /\ controls' = [button |-> button, toggle |-> toggle, spent |-> spent, inMenu |-> inMenu,
                      reported |-> reported, sounding |-> sounding]
      /\ ui' = IF onClock /\ press = "LONG" THEN MenuOpen(m.u) ELSE m.u
      /\ did' = Acted(once, act)
  BY DEF ServiceControls
<1>2. /\ controls \in Controls /\ b \in ControlInput /\ b.level \in BOOLEAN
      /\ controls.spent \in BOOLEAN /\ controls.inMenu \in BOOLEAN
      /\ controls.reported \in BOOLEAN /\ controls.sounding \in BOOLEAN
      /\ UiInv(ui) /\ (ui.open => ui.overlay # ui.preview) /\ PressInv
      /\ controls.toggle \in ControlInput
  BY DEF MenuInv, Controls, ControlInput
<1>3. ui.open \in BOOLEAN /\ ui.wasDown \in BOOLEAN /\ ui.wait \in BOOLEAN
      /\ ui.repeating \in BOOLEAN
  BY <1>2 DEF UiInv, Ui
<1>4. button \in ControlInput /\ toggle \in ControlInput
  BY <1>2, DebouncedIsInput
<1>5. button.level \in BOOLEAN /\ rings \in BOOLEAN /\ began \in BOOLEAN
  BY <1>2, <1>4 DEF ControlInput
<1>6. \/ press = "NONE"
      \/ press = "SHORT" /\ b.level /\ ~button.level /\ ~controls.reported
      \/ press = "LONG" /\ button.level /\ (~controls.reported \/ ~b.level)
  <2> HIDE DEF button, b
  <2> QED BY <1>2, <1>4, PressIsOne
<1>7. spent \in BOOLEAN /\ inMenu \in BOOLEAN /\ down \in BOOLEAN
      /\ sounding \in BOOLEAN /\ reported \in BOOLEAN
  <2> HIDE DEF rings, button, press, b
  <2> QED BY <1>2, <1>3, <1>5
<1>8. AfterService(ui, down, m)
  BY <1>2, <1>7, ServedSafe
<1>9. controls' \in Controls
  <2> HIDE DEF spent, inMenu, sounding, reported, button, toggle
  <2> QED BY <1>1, <1>4, <1>7 DEF Controls
<1>10. /\ controls'.button = button /\ controls'.spent = spent /\ controls'.inMenu = inMenu
       /\ controls'.reported = reported
  BY <1>1
<1> HIDE DEF m, press, rings, button, toggle, b
<1>11. UiInv(ui') /\ (ui'.open => ui'.overlay # ui'.preview) /\ ui'.wasDown = down
       /\ (onClock /\ press = "LONG" => ui'.wait) /\ (~(onClock /\ press = "LONG") => ui' = m.u)
  <2>1. UiInv(m.u) /\ (m.u.open => m.u.overlay # m.u.preview) /\ m.u.wasDown = down
    BY <1>8 DEF AfterService
  <2>2. CASE onClock /\ press = "LONG"
    BY <1>1, <2>1, <2>2, MenuOpenSafe
  <2>3. CASE ~(onClock /\ press = "LONG")
    BY <1>1, <2>1, <2>3
  <2> QED BY <2>2, <2>3
<1>12. PressInv'
  <2>1. ui'.wasDown = (controls'.button.level /\ ~controls'.spent)
    BY <1>10, <1>11
  <2>2. ui.wasDown = (b.level /\ ~controls.spent) /\ did.acts \in {0, 1}
    BY <1>2 DEF PressInv, b
  <2> DEFINE Holds ==
        /\ did'.acts \in {0, 1}
        /\ down => /\ ~inMenu => did'.acts = 0 \/ reported
                   /\ ui'.open /\ ~ui'.wait =>
                        /\ inMenu
                        /\ \/ did'.acts = 0 /\ ~ui'.repeating
                           \/ did'.last = "STEP" /\ Stepping(ui')
  <2>3. CASE ~ui.wasDown /\ ~down
    <3>1. m.what = "NONE"
      BY <1>8, <2>3 DEF AfterService
    <3>2. act = "NONE"
      BY <1>2, <1>5, <1>6, <1>7, <2>2, <2>3
    <3>3. did' = fresh
      BY <1>1, <3>1, <3>2, NotActed
    <3>4. fresh.acts \in {0, 1}
      BY <1>5, <2>2
    <3> HIDE DEF fresh
    <3>5. Holds
      BY <2>3, <3>3, <3>4
    <3> QED BY <1>10, <1>11, <2>1, <3>5 DEF PressInv, Stepping
  <2>4. CASE ~ui.wasDown /\ down
    <3>1. began /\ ~rings /\ ~spent /\ inMenu = ui.open
      BY <1>2, <1>5, <1>7, <2>2, <2>4
    <3>2. m.what = "NONE"
      BY <1>8, <2>4, <1>3 DEF AfterService
    <3>3. fresh.acts = 0 /\ once = fresh
      BY <3>1, <3>2, NotActed
    <3>4. did'.acts \in {0, 1} /\ (act = "NONE" => did'.acts = 0)
      <4> HIDE DEF fresh, once, act
      <4> QED BY <1>1, <3>3, ActedOnce, NotActed
    <3>5. ~inMenu => did'.acts = 0 \/ reported
      BY <1>6, <3>1, <3>4
    <3>6. ASSUME ui'.open, ~ui'.wait
          PROVE  inMenu /\ did'.acts = 0 /\ ~ui'.repeating
      <4>1. ui' = m.u /\ ~(onClock /\ press = "LONG")
        BY <1>11, <3>6
      <4>2. ui.open
        BY <1>3, <1>8, <3>6, <4>1 DEF AfterService
      <4>3. act = "NONE"
        BY <3>1, <4>2
      <4>4. ~m.u.repeating
        BY <1>3, <1>8, <2>4, <3>6, <4>1, <4>2 DEF AfterService
      <4> QED BY <3>1, <3>4, <4>1, <4>2, <4>3, <4>4
    <3>7. Holds
      BY <3>4, <3>5, <3>6
    <3> HIDE DEF act, once
    <3> QED BY <1>10, <1>11, <2>1, <3>7 DEF PressInv, Stepping
  <2>5. CASE ui.wasDown /\ ~down
    <3>1. b.level /\ ~controls.spent /\ ~began /\ ~spent /\ ~button.level /\ fresh = did
          /\ inMenu = controls.inMenu
      BY <1>2, <1>5, <1>7, <2>2, <2>5
    <3>2. /\ ~controls.inMenu => did.acts = 0 \/ controls.reported
          /\ ui.open /\ ~ui.wait =>
               /\ controls.inMenu
               /\ (did.acts = 0 /\ ~ui.repeating) \/ (did.last = "STEP" /\ Stepping(ui))
      BY <1>2, <2>5 DEF PressInv
    <3>3. did'.acts \in {0, 1}
      <4>1. CASE ui.open /\ ~ui.wait
        <5>1. act = "NONE"
          BY <3>1, <3>2, <4>1
        <5>2. did' = Acted(did, m.what)
          BY <1>1, <3>1, <5>1, NotActed
        <5>3. CASE did.acts = 0
          BY <5>2, <5>3, ActedOnce
        <5>4. CASE did.last = "STEP" /\ Stepping(ui)
          <6>1. m.what = "STEP"
            BY <1>8, <2>5, <4>1, <5>4 DEF AfterService
          <6> QED BY <2>2, <5>2, <5>4, <6>1, NotActed
        <5> QED BY <3>2, <4>1, <5>3, <5>4
      <4>2. CASE ~(ui.open /\ ~ui.wait)
        <5>1. m.what = "NONE"
          BY <1>3, <1>8, <4>2 DEF AfterService
        <5>2. did' = Acted(did, act)
          BY <1>1, <3>1, <5>1, NotActed
        <5>3. act = "NONE" \/ did.acts = 0
          BY <1>6, <3>1, <3>2
        <5> HIDE DEF act
        <5> QED BY <2>2, <5>2, <5>3, NotActed, ActedOnce
      <4> QED BY <4>1, <4>2
    <3>4. Holds
      BY <2>5, <3>3
    <3> HIDE DEF act, once, fresh
    <3> QED BY <1>10, <1>11, <2>1, <3>4 DEF PressInv, Stepping
  <2>6. CASE ui.wasDown /\ down
    <3>1. b.level /\ ~controls.spent /\ ~began /\ ~spent /\ button.level /\ fresh = did
          /\ inMenu = controls.inMenu
      BY <1>2, <1>5, <1>7, <2>2, <2>6
    <3>2. /\ ~controls.inMenu => did.acts = 0 \/ controls.reported
          /\ ui.open /\ ~ui.wait =>
               /\ controls.inMenu
               /\ (did.acts = 0 /\ ~ui.repeating) \/ (did.last = "STEP" /\ Stepping(ui))
      BY <1>2, <2>6 DEF PressInv
    <3>3. CASE ui.open /\ ~ui.wait
      <4>1. act = "NONE" /\ ~(onClock /\ press = "LONG")
        BY <3>1, <3>2, <3>3
      <4>2. did' = Acted(did, m.what) /\ ui' = m.u
        BY <1>1, <1>11, <3>1, <4>1, NotActed
      <4>3. did'.acts \in {0, 1}
        <5>1. CASE did.acts = 0
          BY <4>2, <5>1, ActedOnce
        <5>2. CASE did.last = "STEP" /\ Stepping(ui)
          <6>1. m.what = "NONE" \/ m.what = "STEP"
            BY <1>8, <2>6, <3>3, <5>2 DEF AfterService
          <6> QED BY <2>2, <4>2, <5>2, <6>1, NotActed
        <5> QED BY <3>2, <3>3, <5>1, <5>2
      <4>4. ASSUME ui'.open, ~ui'.wait
            PROVE  \/ did'.acts = 0 /\ ~ui'.repeating
                   \/ did'.last = "STEP" /\ Stepping(ui')
        <5>1. \/ m.what = "NONE" /\ m.u.repeating = ui.repeating /\ (Stepping(ui) => Stepping(m.u))
              \/ m.what = "STEP" /\ Stepping(m.u)
          BY <1>8, <2>6, <3>3, <4>2, <4>4 DEF AfterService
        <5>2. CASE m.what = "NONE" /\ m.u.repeating = ui.repeating /\ (Stepping(ui) => Stepping(m.u))
          <6>1. did' = did
            BY <4>2, <5>2, NotActed
          <6> QED BY <3>2, <3>3, <4>2, <5>2, <6>1
        <5>3. CASE m.what = "STEP" /\ Stepping(m.u)
          <6>1. did'.last = "STEP"
            <7>1. CASE did.acts = 0
              BY <4>2, <5>3, <7>1, ActedOnce
            <7>2. CASE did.last = "STEP"
              BY <4>2, <5>3, <7>2, NotActed
            <7> QED BY <3>2, <3>3, <7>1, <7>2
          <6> QED BY <4>2, <5>3, <6>1
        <5> QED BY <5>1, <5>2, <5>3
      <4>5. Holds
        BY <3>1, <3>2, <3>3, <4>3, <4>4
      <4> HIDE DEF act, once, fresh
      <4> QED BY <1>10, <1>11, <2>1, <4>5 DEF PressInv, Stepping
    <3>4. CASE ~(ui.open /\ ~ui.wait)
      <4>1. m.what = "NONE"
        BY <1>3, <1>8, <3>4 DEF AfterService
      <4>2. did' = Acted(did, act)
        BY <1>1, <3>1, <4>1, NotActed
      <4>3. did'.acts \in {0, 1}
        <5>1. act = "NONE" \/ did.acts = 0
          BY <1>6, <3>1, <3>2
        <5> HIDE DEF act
        <5> QED BY <2>2, <4>2, <5>1, NotActed, ActedOnce
      <4>4. ~inMenu => did'.acts = 0 \/ reported
        <5>1. CASE press = "LONG"
          BY <5>1
        <5>2. CASE press # "LONG"
          <6>1. act = "NONE"
            BY <1>6, <3>1, <5>2
          <6>2. controls.reported => reported
            BY <3>1
          <6> QED BY <3>1, <3>2, <4>2, <6>1, <6>2, NotActed
        <5> QED BY <5>1, <5>2
      <4>5. ~(ui'.open /\ ~ui'.wait)
        <5>1. CASE onClock /\ press = "LONG"
          BY <1>11, <5>1
        <5>2. CASE ~(onClock /\ press = "LONG")
          <6>1. ui' = m.u
            BY <1>11, <5>2
          <6> QED BY <1>3, <1>8, <2>6, <3>4, <6>1 DEF AfterService
        <5> QED BY <5>1, <5>2
      <4>6. Holds
        BY <4>3, <4>4, <4>5
      <4> HIDE DEF act, once, fresh
      <4> QED BY <1>10, <1>11, <2>1, <4>6 DEF PressInv, Stepping
    <3> QED BY <3>3, <3>4
  <2> QED BY <1>3, <1>7, <2>3, <2>4, <2>5, <2>6
<1> QED BY <1>9, <1>11, <1>12 DEF MenuInv

\* Settings from the ESP change what is edited from, but not what is being edited.
LEMMA EspWritesSafe ==
  ASSUME MenuInv, EspWrites
  PROVE  MenuInv'
<1>1. PICK i \in Kept :
        LET body == [ui.settings EXCEPT ![i][1] = Highs[i][1]]
        IN  ui' = [ui EXCEPT !.settings = body, !.lit = body["brightness"],
                             !.foreign = ui.editing /\ (@ \/ i = "brightness")]
  BY DEF EspWrites
<1> DEFINE body == [ui.settings EXCEPT ![i][1] = Highs[i][1]]
           lit == body["brightness"]
           foreign == ui.editing /\ (ui.foreign \/ i = "brightness")
<1>2. ui \in Ui /\ ui.settings \in UiBody /\ LitInv(ui) /\ SavedInv(ui) /\ UiInv(ui)
  BY DEF MenuInv, UiInv, Ui
<1>3. ui' = [ui EXCEPT !.settings = body, !.lit = lit, !.foreign = foreign]
  BY <1>1
<1>4. body \in UiBody /\ (i # "brightness" => body["brightness"] = ui.settings["brightness"])
  <2> DEFINE old == ui.settings[i]
             high == Highs[i][1]
             value == [old EXCEPT ![1] = high]
  <2>1. old \in InRange(i) /\ i \in DOMAIN Highs
    BY <1>2, BrightnessIsKept DEF UiBody
  <2>2. Highs[i] \in Seq(Nat) /\ Len(Highs[i]) >= 1
    BY <2>1, MenuRanges, FieldsThere
  <2> HIDE DEF old
  <2>3. old \in Seq(Nat) /\ Len(old) = Len(Highs[i]) /\ Highs[i][1] \in Nat
        /\ \A f \in 1 .. Len(old) : old[f] <= Highs[i][f]
    BY <2>1, <2>2 DEF InRange
  <2>4. value \in Seq(Nat) /\ Len(value) = Len(old)
        /\ \A f \in 1 .. Len(old) : value[f] = IF f = 1 THEN Highs[i][1] ELSE old[f]
    <3>1. old \in Seq(Nat) /\ high \in Nat /\ Len(old) >= 1
      BY <2>2, <2>3
    <3> HIDE DEF high
    <3>4. 1 \in 1 .. Len(old) /\ old \in [1 .. Len(old) -> Nat] /\ Len(old) \in Nat
      BY <3>1
    <3>5. value \in [1 .. Len(old) -> Nat]
      BY <3>1, <3>4
    <3>2. value \in Seq(Nat) /\ Len(value) = Len(old)
      <4> HIDE DEF value
      <4> QED BY <3>4, <3>5
    <3>3. \A f \in 1 .. Len(old) : value[f] = IF f = 1 THEN high ELSE old[f]
      BY <3>1
    <3> QED BY <3>2, <3>3 DEF high
  <2>5. value \in InRange(i)
    <3> HIDE DEF value
    <3>1. \A f \in 1 .. Len(value) : value[f] <= Highs[i][f]
      BY <2>2, <2>3, <2>4
    <3> QED BY <2>3, <2>4, <3>1 DEF InRange
  <2>6. body = [ui.settings EXCEPT ![i] = value]
    BY <1>2 DEF old
  <2>7. value \in Seq(Nat)
    BY <2>4
  <2> HIDE DEF value, body
  <2>8. body \in UiBody
    BY <1>2, <2>5, <2>6, <2>7 DEF UiBody
  <2>9. i # "brightness" => body["brightness"] = ui.settings["brightness"]
    BY <1>2, <2>6, BrightnessIsKept DEF UiBody
  <2> QED BY <2>8, <2>9
<1> HIDE DEF body
<1>5. lit \in Seq(Nat) /\ foreign \in BOOLEAN
  BY <1>2, <1>4, BodyHasBrightness DEF Ui
<1>6. ~foreign => ~ui.editing \/ (~ui.foreign /\ i # "brightness")
  BY <1>2 DEF Ui
<1>7. lit = body["brightness"]
  OBVIOUS
<1> HIDE DEF lit, foreign
<1>8. ui' \in Ui
  BY <1>2, <1>3, <1>4, <1>5 DEF Ui
<1>9. /\ ui'.settings = body /\ ui'.lit = lit /\ ui'.foreign = foreign
      /\ ui'.open = ui.open /\ ui'.section = ui.section /\ ui'.item = ui.item
      /\ ui'.editing = ui.editing /\ ui'.field = ui.field /\ ui'.values = ui.values
      /\ ui'.wait = ui.wait /\ ui'.wasDown = ui.wasDown /\ ui'.repeating = ui.repeating
      /\ ui'.work = ui.work /\ ui'.changed = ui.changed /\ ui'.unsaved = ui.unsaved
      /\ ui'.espChanged = ui.espChanged /\ ui'.espUnsaved = ui.espUnsaved
      /\ ui'.overlay = ui.overlay /\ ui'.preview = ui.preview
  BY <1>2, <1>3 DEF Ui
<1>10. Current(ui') = Current(ui)
  BY <1>9 DEF Current
<1>11. PlaceInv(ui') /\ EditInv(ui') /\ SavedInv(ui') /\ ClosedInv(ui')
  BY <1>2, <1>9, <1>10 DEF UiInv, PlaceInv, EditInv, SavedInv, ClosedInv, Chosen
<1>12. LitInv(ui')
  BY <1>2, <1>4, <1>6, <1>7, <1>9, <1>10 DEF LitInv
<1>13. Stepping(ui') = Stepping(ui)
  BY <1>9, <1>10 DEF Stepping
<1>14. controls' = controls /\ did' = did
  BY DEF EspWrites
<1>15. UiInv(ui') /\ (ui'.open => ui'.overlay # ui'.preview)
  BY <1>8, <1>9, <1>11, <1>12 DEF UiInv, MenuInv
<1>16. PressInv'
  BY <1>9, <1>13, <1>14 DEF MenuInv, PressInv, Stepping
<1> QED BY <1>14, <1>15, <1>16 DEF MenuInv

\* Nothing of it is of the clock or of how much may still come.
LEMMA ElsewhereSafe ==
  ASSUME MenuInv, ui' = ui, did' = did,
         controls' = controls \/ controls' = [controls EXCEPT !.sounding = TRUE]
  PROVE  MenuInv'
<1>1. controls \in Controls
  BY DEF MenuInv
<1>2. /\ controls' \in Controls /\ controls'.button = controls.button
      /\ controls'.spent = controls.spent /\ controls'.inMenu = controls.inMenu
      /\ controls'.reported = controls.reported
  BY <1>1 DEF Controls
<1>3. PressInv'
  BY <1>2 DEF MenuInv, PressInv, Stepping
<1> QED BY <1>2, <1>3 DEF MenuInv

LEMMA MenuStarts == MenuInit => MenuInv
<1> SUFFICES ASSUME MenuInit
             PROVE  MenuInv
  OBVIOUS
<1>1. PICK down \in BOOLEAN :
       /\ controls = [button |-> NewInput(down), toggle |-> NewInput(TRUE), spent |-> FALSE,
                      inMenu |-> FALSE, reported |-> down, sounding |-> FALSE]
       /\ ui = [open |-> FALSE, section |-> "top", item |-> 1, editing |-> FALSE, field |-> 1,
                values |-> <<0>>, wait |-> FALSE, wasDown |-> down, held |-> 0,
                repeating |-> FALSE, stepAge |-> 0, idle |-> 0, nameAge |-> 0,
                work |-> Factory, settings |-> Factory, changed |-> FALSE, unsaved |-> FALSE,
                espChanged |-> FALSE, espUnsaved |-> FALSE, lit |-> Factory["brightness"],
                foreign |-> FALSE, overlay |-> FALSE, preview |-> FALSE]
  BY DEF MenuInit
<1>2. did.acts = 0
  BY DEF MenuInit
<1>3. Factory \in UiBody /\ Factory["brightness"] \in Seq(Nat)
  BY FactoryIsBody, BodyHasBrightness
<1>4. <<0>> \in Seq(Nat)
  OBVIOUS
<1>5. ui \in Ui
  <2> DEFINE none == <<0>>
             lit == Factory["brightness"]
  <2>1. none \in Seq(Nat) /\ lit \in Seq(Nat)
    BY <1>3, <1>4
  <2>2. ui = [open |-> FALSE, section |-> "top", item |-> 1, editing |-> FALSE, field |-> 1,
                values |-> none, wait |-> FALSE, wasDown |-> down, held |-> 0,
                repeating |-> FALSE, stepAge |-> 0, idle |-> 0, nameAge |-> 0,
                work |-> Factory, settings |-> Factory, changed |-> FALSE, unsaved |-> FALSE,
                espChanged |-> FALSE, espUnsaved |-> FALSE, lit |-> lit,
                foreign |-> FALSE, overlay |-> FALSE, preview |-> FALSE]
    BY <1>1
  <2> HIDE DEF none, lit
  <2> QED BY <1>3, <2>1, <2>2, SectionNames DEF Ui
<1>6. controls \in Controls /\ controls.button.level = down /\ ~controls.spent
      /\ controls.reported = down
  BY <1>1 DEF Controls, ControlInput, NewInput
<1>7. /\ ui.open = FALSE /\ ui.section = "top" /\ ui.item = 1 /\ ui.editing = FALSE
      /\ ui.wasDown = down /\ ui.settings = Factory /\ ui.lit = Factory["brightness"]
      /\ ui.unsaved = FALSE /\ ui.espUnsaved = FALSE /\ ui.overlay = FALSE /\ ui.preview = FALSE
  BY <1>1
<1>8. PlaceInv(ui)
  BY <1>7, SectionItems, SectionNames DEF PlaceInv
<1>9. EditInv(ui) /\ SavedInv(ui) /\ LitInv(ui) /\ ClosedInv(ui)
  BY <1>7 DEF EditInv, SavedInv, LitInv, ClosedInv
<1>10. PressInv
  BY <1>2, <1>6, <1>7 DEF PressInv
<1> QED BY <1>5, <1>6, <1>7, <1>8, <1>9, <1>10 DEF MenuInv, UiInv

LEMMA MenuKeeps == MenuInv /\ [MenuNext]_menuVars => MenuInv'
<1> SUFFICES ASSUME MenuInv, [MenuNext]_menuVars
             PROVE  MenuInv'
  OBVIOUS
<1>1. CASE \E pin, on \in BOOLEAN : ServiceControls(pin, on)
  BY <1>1, ServiceSafe
<1>2. CASE EpochRun
  BY <1>2, ElsewhereSafe DEF EpochRun
<1>3. CASE AlarmGoesOff
  BY <1>3, ElsewhereSafe DEF AlarmGoesOff
<1>4. CASE EspWrites
  BY <1>4, EspWritesSafe
<1>5. CASE LinkChanges
  BY <1>5, ElsewhereSafe DEF LinkChanges
<1>6. CASE UNCHANGED menuVars
  BY <1>6, ElsewhereSafe DEF menuVars
<1> QED BY <1>1, <1>2, <1>3, <1>4, <1>5, <1>6 DEF MenuNext

LEMMA MenuInvSuffices == MenuInv => MenuSound
<1> SUFFICES ASSUME MenuInv
             PROVE  MenuSound
  OBVIOUS
<1>1. ui \in Ui /\ EditInv(ui) /\ SavedInv(ui) /\ LitInv(ui) /\ ClosedInv(ui) /\ PressInv
  BY DEF MenuInv, UiInv
<1>2. OnePressOneAct
  BY <1>1 DEF PressInv, OnePressOneAct
<1>3. ConfirmedIsSaved
  BY <1>1 DEF SavedInv, ConfirmedIsSaved
<1>4. ChoicesInRange
  BY <1>1 DEF EditInv, Chosen, ChoicesInRange
<1>5. PreviewGoesBack
  BY <1>1 DEF LitInv, ClosedInv, PreviewGoesBack, MenuInv
<1> QED BY <1>2, <1>3, <1>4, <1>5 DEF MenuSound

\* Whatever is pressed, for however long, in whatever place, and whatever comes
\* from elsewhere meanwhile: one press does one thing, what is confirmed is saved,
\* a choice is in range, and a preview goes back (menu.c, controls.c).
THEOREM MenuIsSound == MenuSpec => []MenuSound
<1>1. MenuSpec => []MenuInv
  BY MenuStarts, MenuKeeps, PTL DEF MenuSpec
<1> QED BY <1>1, MenuInvSuffices, PTL

-----------------------------------------------------------------------------
\* The lookups of the time zone

Lookups ==
  [lookedUp : BOOLEAN, force : BOOLEAN, lastOk : BOOLEAN, next : Int, retry : Int, empty : Int,
   used : ZoneNames \cup {"NONE"}, moveCheck : Int, networkSince : Int, last : Int, apart : Int]

\* What has failed is tried again after a delay, and no delay is shorter than the first.
DelaysKept(t) ==
  /\ t.retry >= EmptyFirst /\ t.empty >= EmptyFirst /\ t.apart >= EmptyFirst
  /\ t.lookedUp /\ ~t.lastOk => t.next >= t.last + EmptyFirst

LookupsInv ==
  /\ place \in [zone : ZoneNames, fix : BOOLEAN, time : Nat]
  /\ lookups \in Lookups /\ DelaysKept(lookups)

LEMMA DelayTypes ==
  /\ {Refresh, RetryFirst, RetryMax, EmptyFirst, EmptyMax, LastTime} \subseteq Nat
  /\ EmptyFirst <= EmptyMax /\ EmptyFirst <= RetryFirst /\ RetryFirst <= RetryMax
  /\ EmptyFirst <= LastTime
BY ZoneAssumption

\* The next is set a delay from now, whatever becomes of this one.
LEMMA ScheduleNextKeeps ==
  ASSUME LookupsInv, NEW t \in Lookups, NEW ok \in BOOLEAN, NEW valid,
         t.retry >= EmptyFirst, t.empty >= EmptyFirst, t.apart >= EmptyFirst,
         t.lastOk = ok, t.last = place.time
  PROVE  ScheduleNext(t, ok, valid) \in Lookups /\ DelaysKept(ScheduleNext(t, ok, valid))
<1> DEFINE next  == place.time + (IF ok THEN Refresh ELSE IF ~valid THEN t.empty ELSE t.retry)
           retry == IF ok THEN RetryFirst ELSE IF ~valid THEN t.retry
                    ELSE IF 2 * t.retry > RetryMax THEN RetryMax ELSE 2 * t.retry
           empty == IF ok THEN EmptyFirst ELSE IF valid THEN t.empty
                    ELSE IF 2 * t.empty > EmptyMax THEN EmptyMax ELSE 2 * t.empty
           then  == [t EXCEPT !.next = next, !.retry = retry, !.empty = empty]
<1>1. place.time \in Nat /\ t.retry \in Int /\ t.empty \in Int
  BY DEF LookupsInv, Lookups
<1>2. /\ next \in Int /\ retry \in Int /\ empty \in Int
      /\ retry >= EmptyFirst /\ empty >= EmptyFirst
      /\ ~ok => next >= place.time + EmptyFirst
  BY <1>1, DelayTypes
<1>3. ScheduleNext(t, ok, valid) = then
  BY DEF ScheduleNext, Lookups
<1> HIDE DEF next, retry, empty
<1>4. /\ then \in Lookups /\ then.retry = retry /\ then.empty = empty /\ then.next = next
      /\ then.apart = t.apart /\ then.lastOk = t.lastOk /\ then.last = t.last
  BY <1>2 DEF Lookups
<1> QED BY <1>2, <1>3, <1>4 DEF DelaysKept

LEMMA LookUpKeeps ==
  ASSUME LookupsInv, NEW t \in Lookups, t.retry >= EmptyFirst, t.empty >= EmptyFirst,
         NEW apart \in Int, apart >= EmptyFirst, LookUp(t, apart), UNCHANGED place
  PROVE  LookupsInv'
<1>1. PICK ok \in BOOLEAN :
        lookups' = ScheduleNext([t EXCEPT !.lookedUp = TRUE, !.force = FALSE, !.lastOk = ok,
                                          !.used = CurrentPosition, !.last = place.time,
                                          !.apart = apart], ok, held.now.valid)
  BY DEF LookUp, Outcomes
<1> DEFINE asked == [t EXCEPT !.lookedUp = TRUE, !.force = FALSE, !.lastOk = ok,
                              !.used = CurrentPosition, !.last = place.time, !.apart = apart]
<1>2. place.time \in Nat /\ CurrentPosition \in ZoneNames \cup {"NONE"}
  BY DEF LookupsInv, CurrentPosition
<1>3. /\ asked \in Lookups /\ asked.retry = t.retry /\ asked.empty = t.empty
      /\ asked.apart = apart /\ asked.lastOk = ok /\ asked.last = place.time
  <2> DEFINE used == CurrentPosition
             time == place.time
  <2> HIDE DEF used, time
  <2>1. used \in ZoneNames \cup {"NONE"} /\ time \in Int
    BY <1>2 DEF used, time
  <2> SUFFICES LET a == [t EXCEPT !.lookedUp = TRUE, !.force = FALSE, !.lastOk = ok,
                                  !.used = used, !.last = time, !.apart = apart]
               IN  /\ a \in Lookups /\ a.retry = t.retry /\ a.empty = t.empty
                   /\ a.apart = apart /\ a.lastOk = ok /\ a.last = time
    BY DEF used, time
  <2> QED BY <2>1 DEF Lookups
<1> HIDE DEF asked
<1>4. lookups' \in Lookups /\ DelaysKept(lookups')
  BY <1>1, <1>3, ScheduleNextKeeps DEF asked
<1> QED BY <1>4 DEF LookupsInv, DelaysKept

LEMMA LookupsStart == ZoneInit => LookupsInv
BY DelayTypes DEF ZoneInit, LookupsInv, Lookups, DelaysKept

LEMMA LookupsKeep == LookupsInv /\ [ZoneNext]_zoneVars => LookupsInv'
<1> SUFFICES ASSUME LookupsInv, [ZoneNext]_zoneVars
             PROVE  LookupsInv'
  OBVIOUS
<1>1. CASE Update
  <2> DEFINE t == [lookups EXCEPT !.moveCheck = IF MovedDue THEN place.time ELSE @]
             apart == IF lookups.lookedUp /\ ~lookups.lastOk THEN place.time - lookups.last
                      ELSE LastTime
  <2>1. LookUp(t, apart) /\ UNCHANGED place /\ LookupDue
    BY <1>1 DEF Update
  <2>2. t \in Lookups /\ t.retry >= EmptyFirst /\ t.empty >= EmptyFirst
    BY DEF LookupsInv, Lookups, DelaysKept
  <2>3. lookups.lookedUp /\ ~lookups.lastOk => place.time >= lookups.next
    BY <2>1 DEF LookupDue, MovedDue
  <2>4. apart \in Int /\ apart >= EmptyFirst
    BY <2>3, DelayTypes DEF LookupsInv, Lookups, DelaysKept
  <2> QED BY <2>1, <2>2, <2>4, LookUpKeeps
<1>2. CASE LookUpNow
  <2>1. LookUp(lookups, LastTime) /\ UNCHANGED place
    BY <1>2 DEF LookUpNow
  <2>2. LastTime \in Int /\ LastTime >= EmptyFirst
    BY DelayTypes
  <2>3. lookups \in Lookups /\ lookups.retry >= EmptyFirst /\ lookups.empty >= EmptyFirst
    BY DEF LookupsInv, DelaysKept
  <2> QED BY <2>1, <2>2, <2>3, LookUpKeeps
<1>3. CASE EnableLookups
  BY <1>3 DEF EnableLookups, LookupsInv, Lookups, DelaysKept
<1>4. CASE EspRestarts
  <2>1. place' = place /\ place.time \in Int
    BY <1>4 DEF EspRestarts, LookupsInv
  <2>2. lookups' = [lookedUp |-> FALSE, force |-> ~held.saved.valid, lastOk |-> FALSE,
                    next |-> 0, retry |-> RetryFirst, empty |-> EmptyFirst, used |-> "NONE",
                    moveCheck |-> 0, networkSince |-> place.time,
                    last |-> 0 - LastTime, apart |-> LastTime]
    BY <1>4 DEF EspRestarts
  <2>3. (~held.saved.valid) \in BOOLEAN
    OBVIOUS
  <2> QED BY <2>1, <2>2, <2>3, DelayTypes DEF LookupsInv, Lookups, DelaysKept
<1>5. CASE SecondOfZone
  BY <1>5 DEF SecondOfZone, LookupsInv, DelaysKept
<1>6. CASE Moves
  <2>1. PICK zone \in ZoneNames, fix \in BOOLEAN :
          place' = [place EXCEPT !.zone = zone, !.fix = fix] /\ lookups' = lookups
    BY <1>6 DEF Moves
  <2> QED BY <2>1 DEF LookupsInv, DelaysKept
<1>7. CASE SendState \/ TakeState \/ LoseState \/ SaveZoneState \/ PicRestarts \/ UNCHANGED zoneVars
  BY <1>7 DEF SendState, TakeState, LoseState, SaveZoneState, PicRestarts, zoneVars, LookupsInv,
              DelaysKept
<1> QED BY <1>1, <1>2, <1>3, <1>4, <1>5, <1>6, <1>7 DEF ZoneNext

\* A lookup that failed is not tried again before the shortest of its delays, wherever
\* the clock is carried and whoever restarts or looks up between (tzinfo.cpp, lookup_due
\* and schedule_next).
THEOREM LookupsAlwaysApart == ZoneSpec => []LookupsApart
<1>1. ZoneSpec => []LookupsInv
  BY LookupsStart, LookupsKeep, PTL DEF ZoneSpec
<1>2. LookupsInv => LookupsApart
  BY DEF LookupsInv, DelaysKept, LookupsApart
<1> QED BY <1>1, <1>2, PTL
=============================================================================
