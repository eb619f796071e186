------------------------------- MODULE Alarm -------------------------------
(***************************************************************************)
(* The alarm, dspic_src/ui/alarm.c, with what sounds it: the chimes of     *)
(* beeps.c and the buzzer of drivers/buzzer.c, whose patterns are played   *)
(* by an interrupt and outrank one another.  An epoch is a step of the     *)
(* local time; the zone's offset and whether the time is known change as   *)
(* they like between epochs (main.c, sound_epoch).                         *)
(*                                                                         *)
(* Lengths of beeps and gaps are left out: a step of the pattern ends when *)
(* it ends.                                                                *)
(***************************************************************************)
EXTENDS Integers

CONSTANTS DaySeconds,    \* SECONDS_PER_DAY
          SoundSeconds,  \* ALARM_SOUND_S
          CatchUp,       \* ALARM_CATCH_UP_S
          LargestChange, \* what the largest DST change is taken to be
          AlarmTimes,    \* what the setting may be
          ZoneOffsets,   \* what the zone may add
          ChimeEvery,    \* BEEPS_CHIME_INTERVAL_S
          Group,         \* the beeps of a group: BuzzerPattern.group
          MaxShifts,     \* the bound on changes of the offset
          MaxSettings,   \* and of the setting and the switch
          LastUtc        \* the bound on the time

ASSUME AlarmAssumption ==
  /\ DaySeconds \in Nat \ {0} /\ SoundSeconds \in Nat /\ CatchUp \in Nat
  /\ LargestChange \in Nat /\ CatchUp < DaySeconds
  /\ AlarmTimes \subseteq 0 .. DaySeconds - 1 /\ ZoneOffsets \subseteq 0 .. DaySeconds
  /\ \A a, b \in ZoneOffsets : a - b < DaySeconds
  /\ ChimeEvery \in Nat \ {0} /\ Group \in Nat
  /\ MaxShifts \in Nat /\ MaxSettings \in Nat /\ LastUtc \in Nat

VARIABLES utc,      \* the time, the zone's offset, and whether it is known
          alarm,    \* the statics of alarm.c
          buzzer,   \* the statics of buzzer.c
          sounded,  \* a history: how often it went off on each local day
          armed,    \* a history: the earliest local second since it was armed
          budget    \* the shifts and settings left

alarmVars == <<utc, alarm, buzzer, sounded, armed, budget>>

Priorities == {"NONE", "BUTTON", "CHIME", "ALARM"}   \* BuzzerPriority, in order
Outranks(p, q) ==
  \/ p = "ALARM" /\ q # "ALARM"
  \/ p = "CHIME" /\ q \in {"NONE", "BUTTON"}
  \/ p = "BUTTON" /\ q = "NONE"

NotArmed == LastUtc + DaySeconds
Days == 0 .. ((LastUtc + DaySeconds) \div DaySeconds)

-----------------------------------------------------------------------------
\* The buzzer

Silent == [playing |-> "NONE", count |-> 0, done |-> 0, step |-> "OFF", beeps |-> 0]

\* buzzer_play(): refused while one that outranks it plays.
Play(b, count, priority) ==
  IF count = 0 \/ Outranks(b.playing, priority) THEN b
  ELSE [playing |-> priority, count |-> count, done |-> 0, step |-> "ON", beeps |-> 1]

\* buzzer_stop()
StopPlaying(b, priority) ==
  IF b.playing = "NONE" \/ Outranks(b.playing, priority) THEN b ELSE Silent

\* advance(): the alarm repeats, a chime ends after its beeps.
Advanced(b) ==
  IF b.step # "ON"
  THEN [b EXCEPT !.step = "ON", !.beeps = IF b.playing = "ALARM" THEN 1 ELSE @ + 1]
  ELSE LET done == b.done + 1
       IN  IF done >= b.count
           THEN IF b.playing = "ALARM" THEN [b EXCEPT !.done = 0, !.step = "PAUSE"] ELSE Silent
           ELSE [b EXCEPT !.done = done,
                          !.step = IF Group # 0 /\ done % Group = 0 THEN "PAUSE" ELSE "GAP"]

\* _T5Interrupt(), as a step of the pattern ends.
BuzzerStep ==
  /\ buzzer.playing # "NONE"
  /\ buzzer' = Advanced(buzzer)
  /\ UNCHANGED <<utc, alarm, sounded, armed, budget>>

-----------------------------------------------------------------------------
\* The alarm

DayOf(local) == local \div DaySeconds
Moment(day) == (day * DaySeconds) + alarm.time

\* The alarm moment at or before a local second.
LatestMoment(local) ==
  IF Moment(DayOf(local)) <= local THEN Moment(DayOf(local)) ELSE Moment(DayOf(local) - 1)

ReachedAgain(local) ==    \* mutant: that it has gone off today is not looked at
  /\ alarm.haveLast /\ local > alarm.last /\ local - alarm.last <= CatchUp
  /\ LatestMoment(local) > alarm.last

\* reached()
Reached(local) ==
  /\ alarm.haveLast /\ local > alarm.last /\ local - alarm.last <= CatchUp
  /\ LatestMoment(local) > alarm.last
  /\ ~(alarm.fired /\ alarm.firedDay = DayOf(LatestMoment(local)))

\* stop()
Stopped(a) == [a EXCEPT !.sounding = FALSE, !.epochs = 0]
Quiet(a, b) == IF a.sounding THEN StopPlaying(b, "ALARM") ELSE b

\* beeps_chime_count(): the hour is the day's only one here.
ChimeCount(local) ==
  LET ofDay == local % DaySeconds
  IN  IF ofDay % ChimeEvery # 0 THEN 0 ELSE IF ofDay # 0 THEN 1 ELSE 12

\* Whether an armed alarm is armed on in this epoch: whatever the code makes of the
\* seconds in between, unless the zone's offset went forward by more than a DST change
\* does ("a time set, not a time passed", alarm.h).
KeptArmed(a, change) ==
  a.enabled /\ a.switch /\ ~a.sounding /\ a.haveLast /\ change <= LargestChange

\* sound_epoch(): alarm_epoch() then beeps_epoch().
Epoch ==
  /\ utc.seconds < LastUtc
  /\ \E offset \in ZoneOffsets, known, chimes \in BOOLEAN :
       LET shifts == (IF offset # utc.offset THEN 1 ELSE 0) + (IF known THEN 0 ELSE 1)
           local == utc.seconds + 1 + offset
           late  == alarm.sounding /\ alarm.epochs + 1 >= SoundSeconds
           going == IF late THEN Stopped(alarm)
                    ELSE [alarm EXCEPT !.epochs = IF alarm.sounding THEN @ + 1 ELSE @]
           quiet == IF late THEN Quiet(alarm, buzzer) ELSE buzzer
           goesOff == known /\ alarm.enabled /\ alarm.switch /\ ~going.sounding /\ Reached(local)
           played == IF goesOff THEN Play(quiet, 4, "ALARM") ELSE quiet
           day   == DayOf(LatestMoment(local))
       IN  /\ shifts <= budget.shifts
           /\ budget' = [budget EXCEPT !.shifts = @ - shifts]
           /\ utc' = [seconds |-> utc.seconds + 1, offset |-> offset]
           /\ alarm' = IF ~known THEN [going EXCEPT !.haveLast = FALSE]
                       ELSE [going EXCEPT !.last = local, !.haveLast = TRUE,
                               !.sounding = @ \/ (goesOff /\ played.playing = "ALARM"),
                               !.fired = @ \/ goesOff,
                               !.firedDay = IF goesOff THEN day ELSE @]
           /\ buzzer' = IF chimes /\ known THEN Play(played, ChimeCount(local), "CHIME")
                        ELSE played
           /\ sounded' = IF goesOff THEN [sounded EXCEPT ![day] = @ + 1] ELSE sounded
           /\ armed' = IF known /\ KeptArmed(going, offset - utc.offset) /\ armed # NotArmed
                       THEN IF local < armed THEN local ELSE armed
                       ELSE IF known THEN local ELSE NotArmed

\* beeps_button(), of a press on the clock.
Button ==
  /\ budget.settings > 0
  /\ budget' = [budget EXCEPT !.settings = @ - 1]
  /\ buzzer' = Play(buzzer, 1, "BUTTON")
  /\ UNCHANGED <<utc, alarm, sounded, armed>>

\* alarm_set(): a new time may go off today.
AlarmSet(on, time) ==
  LET a == [alarm EXCEPT !.fired = IF time # alarm.time THEN FALSE ELSE @,
                         !.enabled = on, !.time = time]
  IN  /\ budget.settings > 0
      /\ budget' = [budget EXCEPT !.settings = @ - 1]
      /\ alarm' = IF on THEN a ELSE Stopped(a)
      /\ buzzer' = IF on THEN buzzer ELSE Quiet(alarm, buzzer)
      /\ sounded' = IF time # alarm.time THEN [d \in Days |-> 0] ELSE sounded
      /\ armed' = IF alarm.haveLast THEN alarm.last ELSE NotArmed
      /\ UNCHANGED utc

\* alarm_set_switch(), alarm_press()
AlarmSwitch(on) ==
  /\ budget.settings > 0 /\ on # alarm.switch
  /\ budget' = [budget EXCEPT !.settings = @ - 1]
  /\ alarm' = LET a == [alarm EXCEPT !.switch = on] IN IF on THEN a ELSE Stopped(a)
  /\ buzzer' = IF on THEN buzzer ELSE Quiet(alarm, buzzer)
  /\ armed' = IF alarm.haveLast THEN alarm.last ELSE NotArmed
  /\ UNCHANGED <<utc, sounded>>

AlarmPress ==
  /\ alarm.sounding
  /\ alarm' = Stopped(alarm) /\ buzzer' = Quiet(alarm, buzzer)
  /\ UNCHANGED <<utc, sounded, armed, budget>>

-----------------------------------------------------------------------------

\* alarm_init() and buzzer_init(), then the setting.
AlarmInit ==
  /\ utc \in [seconds : {0}, offset : ZoneOffsets]
  /\ alarm \in [enabled : {TRUE}, time : AlarmTimes, switch : {TRUE}, sounding : {FALSE},
                epochs : {0}, haveLast : {FALSE}, last : {0}, fired : {FALSE}, firedDay : {0}]
  /\ buzzer = Silent /\ sounded = [d \in Days |-> 0] /\ armed = NotArmed
  /\ budget = [shifts |-> MaxShifts, settings |-> MaxSettings]

AlarmNext ==
  \/ Epoch \/ BuzzerStep \/ Button \/ AlarmPress
  \/ \E on \in BOOLEAN : AlarmSwitch(on) \/ \E time \in AlarmTimes : AlarmSet(on, time)

AlarmSpec == AlarmInit /\ [][AlarmNext]_alarmVars

-----------------------------------------------------------------------------
\* Properties

\* Once a local day, and no less (alarm.h: "so a time skipped by a DST change ...
\* sounds at the change, and a repeated one ... sounds once"): a moment between the
\* second it was armed at and the present one, whatever the clocks did in between up
\* to LargestChange, has sounded, and none has twice.
OnceADay ==
  \A d \in Days :
    /\ sounded[d] <= 1
    /\ armed < Moment(d) /\ alarm.haveLast /\ Moment(d) <= alarm.last => sounded[d] = 1

\* What the alarm believes of itself is what is heard: its pattern plays while
\* it sounds, over any chime or click, and stops with it.
AlarmIsHeard == alarm.sounding <=> buzzer.playing = "ALARM"

\* A chime is never more beeps than it was begun with.
ChimeKeepsCount == buzzer.beeps <= (IF buzzer.playing = "NONE" THEN 0 ELSE buzzer.count)

\* The alarm of the day, and nothing else, is heard (alarm.c, buzzer.c).
AlarmSound == OnceADay /\ AlarmIsHeard /\ ChimeKeepsCount
=============================================================================
