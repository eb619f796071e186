-------------------------------- MODULE Rtc --------------------------------
(***************************************************************************)
(* The RTC as a time source, and keeping it set: dspic_src/drivers/        *)
(* pcf8563.c and dspic_src/sync/source_rtc.c, over an I2C bus on which any *)
(* transfer may fail, and the record of it that settings.c keeps over a    *)
(* reset.                                                                  *)
(*                                                                         *)
(* Everything but the bus is foreground.  A pass of the main loop takes    *)
(* the driver's result and polls the source, and may then do an epoch's    *)
(* work, a command or a save.  Stamps and offsets are reduced to how far   *)
(* the RTC is out: 0 within SOURCE_RTC_ALIGN_TOLERANCE_TICKS of our        *)
(* epoch, 1 more than that on the right second, 2 on a wrong one.  What is *)
(* due later is counted down in epochs.                                    *)
(***************************************************************************)
EXTENDS Integers

CONSTANTS Attempts,       \* SOURCE_RTC_SYNC_ATTEMPTS
          SearchEpochs,   \* SOURCE_RTC_SEARCH_EPOCHS
          StepEpochs,     \* after which a step of a write is given up
          CheckEpochs,    \* SOURCE_RTC_CHECK_EPOCHS
          WaitEpochs,     \* SOURCE_RTC_SETTLE_EPOCHS, SOURCE_RTC_RETRY_EPOCHS
          RateEpochs,     \* SOURCE_RTC_RATE_EPOCHS
          ReadEpochs,     \* PCF8563_READ_INTERVAL_MS
          MaxTrouble      \* bound: failed transfers, restarts, commands and odd epochs

ASSUME RtcAssumption ==
  /\ {Attempts, SearchEpochs, StepEpochs, CheckEpochs, WaitEpochs, ReadEpochs} \subseteq Nat \ {0}
  /\ RateEpochs \in Nat /\ MaxTrouble \in Nat

VARIABLES chip,     \* the PCF8563
          rtc,      \* the static data of pcf8563.c and source_rtc.c
          kept,     \* the record in flash, and what settings.c knows of it
          calm,     \* from now on nothing goes wrong
          trouble,  \* what has gone wrong so far
          parity    \* the parity of the epochs

rtcVars == <<chip, rtc, kept, calm, trouble, parity>>

\* date: of the calendar registers, LOW with VL set, JUNK no date at all.
Chip == [running : BOOLEAN, date : {"OK", "LOW", "JUNK"}, off : 0 .. 2]

ChipRequests == {"NONE", "READING", "WRITING", "WRITING_STOPPED", "RELEASING", "DONE", "FAILED"}
Activities == {"IDLE", "SEARCHING", "LOADING", "WAITING", "RELEASING", "CONFIRMING"}
Anchors == {"NONE", "PLAIN", "ALIGNED"}

\* Histories: whether a measurement still is of the chip as it runs.  OVERTAKEN
\* is an anchor made of a search that a command had overtaken, CUT one restored
\* after a power cut that left the record behind the chip.
Standing == {"CURRENT", "OLD", "OVERTAKEN", "CUT"}

Foreground ==
  [request : ChipRequests, bus : {"IDLE", "ON", "LATE", "OK", "NACK", "REFUSED", "ERROR"},
   intent : 0 .. 2, readIn : Nat, present : BOOLEAN, date : {"NONE", "OK", "LOW", "JUNK"},
   stopped : BOOLEAN, off : 0 .. 2, current : BOOLEAN,
   activity : Activities, age : Nat, left : Nat, purpose : {"MEASURE", "CHECK", "CONFIRM"},
   sample : BOOLEAN, fresh : BOOLEAN, done : BOOLEAN, found : BOOLEAN, searched : BOOLEAN,
   measureIn : Nat, writeWanted : BOOLEAN, plainWanted : BOOLEAN, attempts : 0 .. Attempts,
   worked : BOOLEAN, checkIn : Nat, rateIn : Nat \cup {-1}, wasSync : BOOLEAN,
   stoppedReleased : BOOLEAN, second : BOOLEAN, secondCurrent : BOOLEAN, secondOff : 0 .. 2,
   anchor : Anchors, anchorIs : Standing,
   changed : BOOLEAN, rewritten : BOOLEAN]   \* kept_changes, rtc_changes against the saved

Kept == [anchor : Anchors, anchorIs : Standing]

-----------------------------------------------------------------------------
\* pcf8563.c

Busy(g) == g.request \in {"READING", "WRITING", "WRITING_STOPPED", "RELEASING"}

CalendarValid(g) == g.date \in {"OK", "LOW"}

TimeValid(g) == g.date = "OK" /\ ~g.stopped

\* start(), and pcf8563_read() to pcf8563_release(), called when nothing is under
\* way: encode()'s ten bytes are the time that the chip is told.
Start(g, request) == [g EXCEPT !.request = request, !.bus = "ON"]

\* decode(), and the rest of finish() for a read
ReadDone(g) ==
  [g EXCEPT !.request = "DONE", !.date = chip.date, !.stopped = ~chip.running,
            !.off = chip.off, !.current = TRUE, !.fresh = TRUE]

\* finish()
FinishTransfer(g) ==
  LET ended == [g EXCEPT !.bus = "IDLE", !.readIn = ReadEpochs,
                         !.present = IF g.bus = "NACK" THEN FALSE
                                     ELSE IF g.bus = "ERROR" THEN @ ELSE TRUE,
                         !.date = IF g.bus = "NACK" THEN "NONE" ELSE @]
  IN  CASE g.bus # "OK"           -> [ended EXCEPT !.request = "FAILED"]
        [] g.request = "WRITING"  -> Start(ended, "READING")
        [] g.request = "READING"  -> ReadDone(ended)
        [] OTHER                  -> [ended EXCEPT !.request = "DONE", !.worked = TRUE]

\* pcf8563_service(): the periodic reads are on while the source is idle.
Serviced(g) ==
  LET h == IF Busy(g) /\ g.bus \notin {"ON", "LATE"} THEN FinishTransfer(g) ELSE g
  IN  IF h.activity = "IDLE" /\ ~Busy(h) /\ h.readIn = 0
      THEN Start([h EXCEPT !.readIn = ReadEpochs], "READING")
      ELSE h

-----------------------------------------------------------------------------
\* source_rtc.c: searching

Writing(g) == g.activity \in {"LOADING", "WAITING", "RELEASING", "CONFIRMING"}

SetActivity(g, activity) == [g EXCEPT !.activity = activity, !.age = 0]

StartSearch(g, why) ==
  LET active == SetActivity(g, IF why = "CONFIRM" THEN "CONFIRMING" ELSE "SEARCHING")
  IN  [Start(active, "READING") EXCEPT
         !.purpose = why, !.left = SearchEpochs, !.sample = FALSE, !.fresh = FALSE,
         !.done = FALSE, !.searched = TRUE]

EndSearch(g, found) == [SetActivity(g, "IDLE") EXCEPT !.done = TRUE, !.found = found]

\* found()
Found(g) ==
  EndSearch([g EXCEPT !.second = TRUE, !.secondCurrent = g.current, !.secondOff = g.off], TRUE)

\* take_sample(): the second may have gone up since the last read, or not, or
\* the reads be too far apart.
TakeSample(g) ==
  IF ~CalendarValid(g) \/ g.stopped THEN {[g EXCEPT !.sample = FALSE]}
  ELSE IF ~g.sample THEN {[g EXCEPT !.sample = TRUE]}
  ELSE IF calm THEN {Found(g)}
  ELSE {Found(g), g}

\* keep_searching()
ReadOn(g) ==
  IF g.activity = "IDLE" \/ Busy(g) THEN g
  ELSE IF ~g.present THEN EndSearch(g, FALSE)
  ELSE Start(g, "READING")

KeepSearching(g) ==
  {ReadOn(h) : h \in IF g.fresh THEN TakeSample([g EXCEPT !.fresh = FALSE]) ELSE {g}}

-----------------------------------------------------------------------------
\* source_rtc.c: aligned writing

\* rtc_changed()
RtcUnchanged(g) == g    \* mutant: the anchor stands

RtcChanged(g) ==
  [g EXCEPT !.anchor = "NONE", !.anchorIs = "OLD", !.changed = TRUE, !.rewritten = TRUE]

\* abort_write(): the last attempt's is written plainly, never leaving it stopped.
AbortWrite(g) ==
  LET idle == [SetActivity(g, "IDLE") EXCEPT !.attempts = @ + 1]
  IN  IF idle.attempts < Attempts THEN [idle EXCEPT !.writeWanted = TRUE]
      ELSE [idle EXCEPT !.plainWanted = TRUE]

\* begin_write(): not across a leap second.
BeginWrite(g, leap) ==
  IF leap THEN g
  ELSE Start(SetActivity([RtcChanged(g) EXCEPT !.writeWanted = FALSE, !.worked = FALSE],
                         "LOADING"),
             "WRITING_STOPPED")

\* wait_release(): not yet, too late, or now.
WaitRelease(g) ==
  LET now == Start(SetActivity([g EXCEPT !.worked = FALSE], "RELEASING"), "RELEASING")
  IN  IF calm THEN {now} ELSE {g, AbortWrite(g), now}

\* wrote_plainly() and what goes with it, of pcf8563_write()
WritePlainly(g, off) ==
  [Start(RtcChanged(g), "WRITING") EXCEPT
     !.intent = off, !.anchor = "PLAIN", !.second = FALSE]

\* source_rtc_poll()
Polled(g) ==
  CASE g.activity = "IDLE" ->
         {IF ~g.searched /\ ~g.second /\ TimeValid(g) /\ ~Busy(g)
          THEN StartSearch(g, "MEASURE") ELSE g}
    [] g.activity \in {"SEARCHING", "CONFIRMING"} -> KeepSearching(g)
    [] g.activity = "LOADING" ->
         {IF Busy(g) THEN g
          ELSE IF g.worked THEN SetActivity(g, "WAITING") ELSE AbortWrite(g)}
    [] g.activity = "WAITING" -> WaitRelease(g)
    [] g.activity = "RELEASING" ->
         {IF Busy(g) THEN g
          ELSE IF g.worked THEN StartSearch(g, "CONFIRM") ELSE AbortWrite(g)}

\* What every pass does.
Passed == Polled(Serviced(rtc))

-----------------------------------------------------------------------------
\* source_rtc.c: at the epoch.  An epoch is [sync, event]: whether the clock is
\* synchronised, and what else there is about it.

Ordinary == {"NONE", "DRIFT",   \* the RTC is further out than it was
             "SMALL"}           \* what it is out by is within SOURCE_RTC_RESYNC_MS

Trouble == {"LOST",   \* track of the second, or it is too old
            "NO_CAPTURE", "NO_BOUND", "LEAP", "CORRECTED"}

\* anchor_found()
AnchorFound(g, epoch) ==
  IF ~epoch.sync \/ epoch.event \in {"NO_CAPTURE", "NO_BOUND"} THEN g
  ELSE [g EXCEPT !.anchor = "ALIGNED", !.changed = TRUE,
                 !.anchorIs = IF ~g.second THEN "OVERTAKEN"
                              ELSE IF g.secondCurrent THEN "CURRENT" ELSE "OLD"]

\* confirmed()
Confirmed(g) ==
  LET missed == [g EXCEPT !.attempts = @ + 1]
  IN  CASE g.secondOff = 0 ->
             [g EXCEPT !.attempts = 0, !.checkIn = CheckEpochs, !.rateIn = RateEpochs,
                       !.changed = TRUE]
        [] g.secondOff # 0 /\ missed.attempts < Attempts ->
             [missed EXCEPT !.writeWanted = TRUE]
        [] g.secondOff = 2 /\ missed.attempts >= Attempts ->
             [missed EXCEPT !.plainWanted = TRUE]
        [] OTHER -> [g EXCEPT !.attempts = 0, !.checkIn = CheckEpochs]

\* search_result(), of a search that failed and of one that found the second
SearchFailed(g) ==
  IF g.purpose = "CONFIRM" THEN AbortWrite(g)
  ELSE [g EXCEPT !.measureIn = WaitEpochs,
                 !.checkIn = IF g.purpose = "CHECK" THEN WaitEpochs ELSE @]

\* measure_offset(), and whether that is too far
IsOut(g, epoch) ==
  /\ g.second /\ epoch.sync /\ epoch.event # "NO_CAPTURE"
  /\ ~TimeValid(g) \/ g.secondOff > (IF epoch.event = "SMALL" THEN 1 ELSE 0)

SearchFound(g, epoch) ==
  CASE g.purpose = "CONFIRM" -> Confirmed(g)
    [] g.purpose = "MEASURE" -> g
    [] g.purpose = "CHECK" /\ IsOut(g, epoch) ->
         [g EXCEPT !.checkIn = CheckEpochs, !.attempts = 0, !.writeWanted = TRUE]
    [] g.purpose = "CHECK" /\ ~IsOut(g, epoch) -> [g EXCEPT !.checkIn = CheckEpochs]

SearchResult(g, epoch) ==
  LET taken == [g EXCEPT !.done = FALSE]
  IN  IF ~g.done THEN g
      ELSE IF ~g.found THEN SearchFailed(taken)
      ELSE SearchFound(AnchorFound(taken, epoch), epoch)

\* A search that ran out of time, a step of a write that never finished.
Overdue(g) ==
  IF g.activity \in {"SEARCHING", "CONFIRMING"} /\ g.left = 0 THEN EndSearch(g, FALSE)
  ELSE IF g.activity \in {"LOADING", "WAITING", "RELEASING"} /\ g.age >= StepEpochs
  THEN AbortWrite(g)
  ELSE g

\* Check soon after the clock is synchronised, or its time corrected.
SettleSearch(g, epoch) ==
  [g EXCEPT !.wasSync = epoch.sync,
            !.checkIn = IF epoch.sync /\ (~g.wasSync \/ epoch.event = "CORRECTED") /\ @ > WaitEpochs
                        THEN WaitEpochs ELSE @]

\* Stopped, with no write of ours to follow: let it run, and then look again.
LetItRunOnce(g) ==    \* mutant: a release that failed is not tried again
  IF g.stoppedReleased THEN Start(g, "READING")
  ELSE [Start(RtcChanged(g), "RELEASING") EXCEPT !.stoppedReleased = TRUE, !.second = FALSE]

LetItRun(g) ==
  IF g.stoppedReleased THEN [Start(g, "READING") EXCEPT !.stoppedReleased = FALSE]
  ELSE [Start(IF g.anchor = "NONE" THEN g ELSE RtcChanged(g), "RELEASING")
          EXCEPT !.stoppedReleased = TRUE, !.second = FALSE]

\* The last attempt has failed: to the nearest second, if there is a time.
GiveUp(g, epoch) ==
  LET dropped == [g EXCEPT !.plainWanted = FALSE, !.attempts = 0, !.checkIn = CheckEpochs]
  IN  IF epoch.sync THEN WritePlainly(dropped, 1) ELSE dropped

TryWrite(g, epoch) ==
  CASE ~epoch.sync -> [g EXCEPT !.writeWanted = FALSE, !.attempts = 0]
    [] epoch.sync /\ epoch.event = "NO_CAPTURE" -> g
    [] OTHER -> BeginWrite(g, epoch.event = "LEAP")

Check(g) ==
  IF TimeValid(g) THEN StartSearch(g, "CHECK")
  ELSE [g EXCEPT !.attempts = 0, !.writeWanted = TRUE]

\* The end of source_rtc_epoch(): one thing at a time, in this order.
Decide(g, epoch) ==
  IF g.activity # "IDLE" \/ ~g.present \/ Busy(g) THEN g
  ELSE IF g.plainWanted THEN GiveUp(g, epoch)
  ELSE IF g.writeWanted THEN TryWrite(g, epoch)
  ELSE IF CalendarValid(g) /\ g.stopped THEN LetItRun(g)
  ELSE IF epoch.sync /\ g.checkIn = 0 THEN Check(g)
  ELSE IF g.rateIn = 0 /\ TimeValid(g) THEN StartSearch([g EXCEPT !.rateIn = -1], "MEASURE")
  ELSE IF ~g.second /\ TimeValid(g) /\ g.measureIn = 0 THEN StartSearch(g, "MEASURE")
  ELSE g

Less(n) == IF n > 0 THEN n - 1 ELSE n

\* An epoch has passed, for all that is counted in them.
SecondCounted(g, epoch) ==
  [g EXCEPT !.age = IF g.activity = "IDLE" THEN 0 ELSE @ + 1, !.left = Less(@),
            !.checkIn = Less(@), !.measureIn = Less(@), !.rateIn = Less(@), !.readIn = Less(@),
            !.second = @ /\ (epoch.event # "LOST" \/ g.done)]

SourceEpoch(g, epoch) ==
  [Decide(SettleSearch(SearchResult(Overdue(SecondCounted(g, epoch)), epoch), epoch), epoch)
     EXCEPT !.bus = IF @ = "ON" THEN "LATE" ELSE @]

\* source_rtc_report(): it has an edge, and a time that is of use.
ReportsSecond(g) == g.second /\ TimeValid(g) /\ ~Writing(g)

\* What is not read again before it is next assigned is forgotten.
Forget(g) ==
  LET searching == g.activity \in {"SEARCHING", "CONFIRMING"}
      stepping  == g.activity \in {"LOADING", "WAITING", "RELEASING"}
  IN  [g EXCEPT !.request = IF Busy(g) THEN @ ELSE "DONE",
                !.intent = IF g.request = "WRITING" THEN @ ELSE 0,
                !.off = IF searching /\ g.fresh THEN @ ELSE 0,
                !.current = @ /\ searching /\ g.fresh,
                !.purpose = IF searching \/ g.done THEN @ ELSE "MEASURE",
                !.left = IF searching THEN @ ELSE 0,
                !.age = IF stepping THEN @ ELSE 0,
                !.sample = @ /\ searching, !.fresh = @ /\ searching,
                !.found = @ /\ g.done,
                !.worked = @ /\ stepping,
                !.secondOff = IF g.done THEN @ ELSE 0,
                !.secondCurrent = @ /\ g.second]

-----------------------------------------------------------------------------
\* The chip and the bus

\* What a transfer that took effect, wholly or in part, leaves in the chip: the
\* control register goes first, and a date half written may be none.
ChipWritten(request, part) ==
  CASE request = "RELEASING" ->
         {[chip EXCEPT !.running = TRUE, !.off = landing] :
            landing \in IF rtc.activity # "RELEASING" THEN {2} ELSE IF calm THEN {0} ELSE 0 .. 2}
    [] request = "WRITING" /\ ~part -> {[running |-> TRUE, date |-> "OK", off |-> rtc.intent]}
    [] request = "WRITING_STOPPED" /\ ~part -> {[running |-> FALSE, date |-> "OK", off |-> 2]}
    [] OTHER -> {[running |-> request = "WRITING", date |-> date, off |-> 2] :
                   date \in {chip.date, "OK", "JUNK"}}

Outdated(standing) == IF standing = "CURRENT" THEN "OLD" ELSE standing

\* The chip is not what was measured any more.
ChipChanges(g, to) ==
  /\ chip' = to
  /\ rtc' = [g EXCEPT !.current = FALSE, !.secondCurrent = FALSE, !.anchorIs = Outdated(@)]
  /\ kept' = [kept EXCEPT !.anchorIs = Outdated(@)]

ChipWrites == rtc.request \in {"WRITING", "WRITING_STOPPED", "RELEASING"}

BusSucceeds ==
  /\ rtc.bus \in {"ON", "LATE"}
  /\ LET ended == [rtc EXCEPT !.bus = "OK"]
     IN  \/ ChipWrites /\ \E to \in ChipWritten(rtc.request, FALSE) : ChipChanges(ended, to)
         \/ ~ChipWrites /\ rtc' = ended /\ UNCHANGED <<chip, kept>>
  /\ UNCHANGED <<calm, trouble, parity>>

\* A transfer that fails may yet have been taken, unless nothing answered.
BusFails ==
  /\ rtc.bus \in {"ON", "LATE"} /\ ~calm /\ trouble < MaxTrouble
  /\ \E result \in {"NACK", "REFUSED", "ERROR"} :
       LET ended == [rtc EXCEPT !.bus = result]
       IN  \/ rtc' = ended /\ UNCHANGED <<chip, kept>>
           \/ /\ ChipWrites /\ result # "NACK"
              /\ \E part \in BOOLEAN : \E to \in ChipWritten(rtc.request, part) : ChipChanges(ended, to)
  /\ trouble' = trouble + 1
  /\ UNCHANGED <<calm, parity>>

-----------------------------------------------------------------------------
\* The main loop

RtcPass ==
  /\ \E g \in Passed : rtc' = Forget(g)
  /\ UNCHANGED <<chip, kept, calm, trouble, parity>>

\* run_epoch().  A transfer that is on the bus at an epoch, LATE, is over by the
\* next: none takes longer than I2C1_TIMEOUT_MS and a few more.
RtcEpoch ==
  /\ rtc.bus # "LATE"
  /\ \E g \in Passed, sync \in IF calm THEN {TRUE} ELSE BOOLEAN,
        event \in IF calm THEN {"NONE"} ELSE Ordinary \cup Trouble :
       /\ rtc' = Forget(SourceEpoch(g, [sync |-> sync, event |-> event]))
       /\ chip' = IF event = "DRIFT" /\ chip.running /\ chip.off < 2
                  THEN [chip EXCEPT !.off = @ + 1] ELSE chip
       /\ trouble' = IF event \in Trouble THEN trouble + 1 ELSE trouble
  /\ trouble' <= MaxTrouble
  /\ parity' = 1 - parity
  /\ UNCHANGED <<kept, calm>>

\* source_rtc_set(), from the menu or the console: the nearest second, or
\* whatever is asked for.
SetByCommand ==
  /\ ~calm /\ trouble < MaxTrouble
  /\ \E g \in Passed, off \in 1 .. 2 :
       /\ g.activity = "IDLE" /\ ~Busy(g)
       /\ rtc' = Forget([WritePlainly(g, off) EXCEPT
                         !.measureIn = 0, !.writeWanted = FALSE, !.plainWanted = FALSE])
  /\ trouble' = trouble + 1
  /\ UNCHANGED <<chip, kept, calm, parity>>

\* save_rtc(), from settings_service() with nothing on the bus
Save ==
  /\ \E g \in Passed :
       /\ g.activity = "IDLE" /\ g.changed /\ g.bus \notin {"ON", "LATE"}
       /\ rtc' = Forget([g EXCEPT !.changed = FALSE, !.rewritten = FALSE])
       /\ kept' = [anchor |-> g.anchor, anchorIs |-> g.anchorIs]
  /\ UNCHANGED <<chip, calm, trouble, parity>>

\* source_rtc_init(), pcf8563_init() and restore_rtc()
Started(record) ==
  [request |-> "READING", bus |-> "ON", intent |-> 0, readIn |-> ReadEpochs,
   present |-> FALSE, date |-> "NONE", stopped |-> FALSE, off |-> 0, current |-> FALSE,
   activity |-> "IDLE", age |-> 0, left |-> 0, purpose |-> "MEASURE",
   sample |-> FALSE, fresh |-> FALSE, done |-> FALSE, found |-> FALSE, searched |-> FALSE,
   measureIn |-> 0, writeWanted |-> FALSE, plainWanted |-> FALSE, attempts |-> 0,
   worked |-> FALSE, checkIn |-> CheckEpochs, rateIn |-> -1, wasSync |-> FALSE,
   stoppedReleased |-> FALSE, second |-> FALSE, secondCurrent |-> FALSE, secondOff |-> 0,
   anchor |-> record.anchor, anchorIs |-> record.anchorIs,
   changed |-> FALSE, rewritten |-> FALSE]

\* The power is cut, with the chip's battery or without it; what was on the bus
\* may have been taken.
RtcRestart ==
  /\ ~calm /\ trouble < MaxTrouble
  /\ \E to \in {chip, [running |-> TRUE, date |-> "LOW", off |-> 2]}
              \cup (IF ChipWrites /\ rtc.bus \in {"ON", "LATE"} THEN ChipWritten(rtc.request, TRUE) ELSE {}) :
       LET standing == IF to # chip THEN Outdated(kept.anchorIs) ELSE kept.anchorIs
           record   == [kept EXCEPT !.anchorIs = IF standing = "OLD" THEN "CUT" ELSE standing]
       IN  chip' = to /\ kept' = record /\ rtc' = Started(record)
  /\ trouble' = trouble + 1
  /\ UNCHANGED <<calm, parity>>

CalmDown == ~calm /\ calm' = TRUE /\ UNCHANGED <<chip, rtc, kept, trouble, parity>>

-----------------------------------------------------------------------------
NeverKept == [anchor |-> "NONE", anchorIs |-> "OLD"]

RtcInit ==
  /\ chip \in [running : BOOLEAN, date : {"OK", "LOW", "JUNK"}, off : {2}]
  /\ kept = NeverKept /\ rtc = Started(NeverKept)
  /\ calm = FALSE /\ trouble = 0 /\ parity = 0

RtcNext ==
  \/ BusSucceeds \/ BusFails
  \/ RtcPass \/ RtcEpoch \/ SetByCommand \/ Save
  \/ RtcRestart \/ CalmDown

\* The epoch timer never stops and the main loop never waits: epochs go on, and
\* with them the passes and the transfers, which end if only by their timeout
\* (i2c1_service).  Stated of the parity of the epochs, this is weak fairness of
\* RtcEpoch and of the end of a transfer that holds it up.
RtcEpochsGoOn == []<>(parity = 0) /\ []<>(parity = 1)

RtcSpec == RtcInit /\ [][RtcNext]_rtcVars /\ RtcEpochsGoOn

-----------------------------------------------------------------------------
\* Properties

\* The state has its type, and there are never more than Attempts.
RtcTypeOK ==
  /\ chip \in Chip /\ rtc \in Foreground /\ kept \in Kept
  /\ calm \in BOOLEAN /\ trouble \in 0 .. MaxTrouble /\ parity \in 0 .. 1

\* A second that is reported as predicted from a measurement is of the chip as it
\* runs, and so is the measurement: whatever writes failed, were taken in part or
\* were given up since, none is left standing (rtc_changed, source_rtc_report).
\* It may be reported at the next epoch, after the pass that comes before it.
\* Two exceptions, by name: an anchor made of a search that a command had
\* overtaken, and one restored that was not yet voided when the power was cut.
PredictedIsOfChip ==
  \A g \in Passed : ReportsSecond(g) /\ g.anchor = "ALIGNED" => g.secondCurrent /\ g.anchorIs # "OLD"

\* A record in flash that describes another setting of the RTC than its present
\* one is due to be saved at once (rtc_due, settings.c: "at once if the RTC has
\* been written since"), whoever wrote it and whether or not the write failed.
RecordIsDue ==
  kept.anchor = "ALIGNED" /\ kept.anchorIs = "OLD" => rtc.changed /\ rtc.rewritten

\* The RTC is never left stopped (source_rtc.h: "so the RTC is never left
\* stopped"), by a late release, a failure, a restart or the loss of our own time
\* between two attempts, synchronised or not.  With no date in it, it has to wait
\* for a time to be set to.
NeverLeftStopped == ~chip.running /\ chip.date # "JUNK" ~> chip.running \/ chip.date = "JUNK"

\* Once nothing more goes wrong, the RTC ends up set, aligned with our epoch, and
\* is left alone (source_rtc_epoch, "Keeping it set" in source_rtc.h).
EndsSet == calm ~> [](chip.running /\ chip.date = "OK" /\ chip.off = 0)

\* Where a chip ends up that was to be set, whatever went wrong on the way.
EndsWell == NeverLeftStopped /\ EndsSet

\* Neither what is reported of the chip nor what is kept of it is of a setting
\* that it no longer has; and the state keeps its type.
NothingOutdated == RtcTypeOK /\ PredictedIsOfChip /\ RecordIsDue
=============================================================================
