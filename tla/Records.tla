------------------------------- MODULE Records -------------------------------
(***************************************************************************)
(* What the dsPIC keeps over a reset, and when it writes it: the settings, *)
(* the time zone's schedule, the oscillator's frequency and the RTC's      *)
(* measurement, each a record of the store, at most one written in an      *)
(* epoch: dspic_src/settings/settings.c.                                   *)
(*                                                                         *)
(* The store is KeyValue's: a write takes effect as a whole or fails.      *)
(* Values are numbers: a schedule is which one it is, a measurement of the *)
(* RTC how often it has been set and measured, an estimate of the          *)
(* frequency the change that is worth keeping.                             *)
(***************************************************************************)
EXTENDS Integers

CONSTANTS BodyValues, DefaultBody,    \* the settings, settings_defaults()
          TimezoneDelay,         \* SETTINGS_TIMEZONE_DELAY_EPOCHS
          RtcEpochs, RtcRetry,   \* SETTINGS_RTC_EPOCHS, _RETRY_EPOCHS
          OscillatorEpochs,      \* SETTINGS_OSCILLATOR_EPOCHS
          EstimateLimit,         \* SETTINGS_OSCILLATOR_LIMIT_Q16
          Estimates,             \* of the frequency
          MaxChanges,            \* bound: changes of the values kept
          MaxStarts,             \* bound: restarts
          LastEpochKept          \* bound on the epoch

ASSUME RecordsAssumption ==
  /\ DefaultBody \in BodyValues
  /\ TimezoneDelay \in Nat \ {0, 1} /\ RtcEpochs \in Nat /\ RtcRetry \in Nat /\ OscillatorEpochs \in Nat
  /\ EstimateLimit \in Nat /\ Estimates \subseteq Int
  /\ MaxChanges \in Nat /\ MaxStarts \in Nat /\ LastEpochKept \in Nat

VARIABLES now,       \* the epoch, and the changes and restarts so far
          values,    \* what runs: settings, schedule, estimate, the RTC's counters
          saving,    \* settings.c's own state
          records,   \* the records: <<the value>>, or <<>>
          waited     \* history: quiet epochs running that the RTC's record has been passed over

recordVars == <<now, values, saving, records, waited>>

RecordTypes == {"SETTINGS", "TIMEZONE", "OSCILLATOR", "RTC"}

\* store_write()
WriteRecord(type, value, ok) == records' = IF ok THEN [records EXCEPT ![type] = <<value>>] ELSE records

-----------------------------------------------------------------------------
\* settings_flags(): dirty
Dirty == values.body # saving.stored

\* save_settings(): nothing is written where it is as stored.
StoredIs(ok) == IF ok THEN values.body ELSE saving.stored

SaveSettings(ok) ==
  IF ~Dirty /\ saving.haveRecord
  THEN saving' = [saving EXCEPT !.requested = FALSE] /\ UNCHANGED records
  ELSE /\ WriteRecord("SETTINGS", values.body, ok)
       /\ saving' = [saving EXCEPT !.requested = FALSE, !.stored = StoredIs(ok),
                                   !.haveRecord = @ \/ ok]

\* save_timezone(), and again after the delay if it fails.
TimezoneAgainAtOnce(ok) ==    \* mutant: it is due again in the next epoch
  [saving EXCEPT !.tzPending = ~ok]

TimezoneTried(ok) ==
  [saving EXCEPT !.tzPending = ~ok, !.tzSince = IF ok THEN @ ELSE now.epoch]

SaveTimezone(ok) ==
  /\ WriteRecord("TIMEZONE", values.schedule, ok)
  /\ saving' = TimezoneTried(ok)

TimezoneDue == saving.tzPending /\ now.epoch - saving.tzSince >= TimezoneDelay

\* rtc_due(), save_rtc()
RtcDue ==
  /\ values.measured # saving.rtcMeasured
  /\ ~(saving.rtcRetry /\ now.epoch - saving.rtcRetryAt < RtcRetry)
  /\ \/ values.set # saving.rtcSet \/ ~saving.rtcSaved
     \/ now.epoch - saving.rtcAt >= RtcEpochs

SaveRtc(ok) ==
  /\ WriteRecord("RTC", <<values.measured, values.set>>, ok)
  /\ saving' = IF ok
               THEN [saving EXCEPT !.rtcMeasured = values.measured, !.rtcSet = values.set,
                                   !.rtcSaved = TRUE, !.rtcAt = now.epoch, !.rtcRetry = FALSE]
               ELSE [saving EXCEPT !.rtcRetry = TRUE, !.rtcRetryAt = now.epoch]

\* oscillator_due(), save_oscillator(): it may be asked for only once.
OscillatorDue(asked) ==
  /\ values.learnt
  /\ \/ ~saving.haveOscillator
     \/ values.estimate # saving.oscillator
        /\ (asked \/ ~saving.oscSaved \/ now.epoch - saving.oscAt >= OscillatorEpochs)

SaveOscillator(ok) ==
  /\ WriteRecord("OSCILLATOR", values.estimate, ok)
  /\ saving' = [saving EXCEPT !.oscRequested = FALSE, !.oscSaved = TRUE, !.oscAt = now.epoch,
                              !.haveOscillator = @ \/ ok,
                              !.oscillator = IF ok THEN values.estimate ELSE @]

\* settings_service(), at a quiet moment: one record an epoch at most.
SaveOne(ok) ==
  CASE saving.requested -> SaveSettings(ok)
    [] ~saving.requested /\ TimezoneDue -> SaveTimezone(ok)
    [] ~saving.requested /\ ~TimezoneDue /\ RtcDue -> SaveRtc(ok)
    [] OTHER -> IF OscillatorDue(saving.oscRequested) THEN SaveOscillator(ok)
                ELSE saving' = [saving EXCEPT !.oscRequested = FALSE] /\ UNCHANGED records

\* How long the RTC's record has been passed over for one that was not asked for.
PassedOver ==
  waited' = IF RtcDue /\ ~saving.requested /\ saving'.rtcRetryAt = saving.rtcRetryAt
               /\ saving'.rtcMeasured = saving.rtcMeasured
            THEN waited + 1 ELSE 0

\* settings_service() and the epoch that ends with it.
ServiceSettings ==
  /\ now.epoch < LastEpochKept
  /\ \/ \E ok \in BOOLEAN : SaveOne(ok) /\ PassedOver
     \/ waited' = 0 /\ UNCHANGED <<saving, records>>  \* not quiet
  /\ now' = [now EXCEPT !.epoch = @ + 1]
  /\ UNCHANGED values

-----------------------------------------------------------------------------
\* What changes the values.  A change of the schedule is taken up by the service of that
\* epoch, timezone_take_changed().
Changes(new) ==
  /\ now.changes < MaxChanges
  /\ now' = [now EXCEPT !.changes = @ + 1]
  /\ values' = new
  /\ UNCHANGED <<records, waited>>

\* settings_write(), settings_restore_defaults(): a body that was checked.
ChangesBody ==
  \E body \in BodyValues \ {values.body} : 
    Changes([values EXCEPT !.body = body]) /\ UNCHANGED saving

\* settings_save()
AsksToSave ==
  /\ ~saving.requested
  /\ saving' = [saving EXCEPT !.requested = TRUE, !.oscRequested = TRUE]
  /\ UNCHANGED <<now, values, records, waited>>

ChangesSchedule ==
  /\ Changes([values EXCEPT !.schedule = @ + 1])
  /\ saving' = [saving EXCEPT !.tzPending = TRUE, !.tzSince = now.epoch]

MeasuresRtc ==
  \E set \in {0, 1} :
    /\ Changes([values EXCEPT !.measured = @ + 1, !.set = @ + set])
    /\ UNCHANGED saving

LearnsFrequency ==
  \E estimate \in Estimates :
    /\ estimate # values.estimate \/ ~values.learnt
    /\ Changes([values EXCEPT !.learnt = TRUE, !.estimate = estimate])
    /\ UNCHANGED saving

-----------------------------------------------------------------------------
\* read_record(), restore_timezone(), restore_oscillator() with read_oscillator(), and
\* restore_rtc(): what the records make of a start.
Held(type, otherwise) == IF records[type] = <<>> THEN otherwise ELSE records[type][1]

Usable(estimate) == -EstimateLimit <= estimate /\ estimate <= EstimateLimit
HasOscillator == records["OSCILLATOR"] # <<>> /\ Usable(records["OSCILLATOR"][1])

Restored ==
  [body     |-> Held("SETTINGS", DefaultBody),
   schedule |-> Held("TIMEZONE", 0),
   learnt   |-> FALSE,
   estimate |-> IF HasOscillator THEN records["OSCILLATOR"][1] ELSE 0,
   measured |-> Held("RTC", <<0, 0>>)[1],
   set      |-> Held("RTC", <<0, 0>>)[2]]

Fresh(v) ==
  [requested |-> FALSE, oscRequested |-> FALSE,
   stored |-> v.body, haveRecord |-> records["SETTINGS"] # <<>>,
   tzPending |-> FALSE, tzSince |-> 0,
   haveOscillator |-> HasOscillator,
   oscillator |-> v.estimate, oscSaved |-> FALSE, oscAt |-> 0,
   rtcMeasured |-> v.measured, rtcSet |-> v.set, rtcSaved |-> FALSE, rtcAt |-> 0,
   rtcRetry |-> FALSE, rtcRetryAt |-> -1]

\* settings_init()
Restart ==
  /\ now.starts < MaxStarts
  /\ values' = Restored /\ saving' = Fresh(Restored)
  /\ now' = [now EXCEPT !.starts = @ + 1, !.epoch = 0]
  /\ waited' = 0 /\ UNCHANGED records

RecordsInit ==
  /\ now = [epoch |-> 0, changes |-> 0, starts |-> 0]
  /\ records = [t \in RecordTypes |-> <<>>]
  /\ values = [body |-> DefaultBody, schedule |-> 0, learnt |-> FALSE, estimate |-> 0,
               measured |-> 0, set |-> 0]
  /\ saving = Fresh(values)
  /\ waited = 0

RecordsNext ==
  \/ ServiceSettings \/ ChangesBody \/ AsksToSave \/ ChangesSchedule \/ MeasuresRtc
  \/ LearnsFrequency \/ Restart

RecordsSpec == RecordsInit /\ [][RecordsNext]_recordVars

-----------------------------------------------------------------------------
\* Properties

\* Settings that are not shown as unsaved are the ones a reset brings back, whatever
\* writes failed (settings_flags, save_settings; settings.h: "dirty: the running values
\* differ from those stored").
SavedIsRestored == ~Dirty => values.body = Restored.body

\* A schedule that is in force is stored, or will be: one that failed, or that another
\* record went before, is not forgotten (settings_service, save_timezone).
ScheduleIsKept == values.schedule = Restored.schedule \/ saving.tzPending

\* However the writes of the others fail, the RTC's record is not passed over twice running:
\* while it is not written, a reset would work the time out from a setting the RTC no
\* longer has (rtc_due: "it describes another setting").
RtcGetsItsTurn == waited <= 1

\* What a reset would bring back is what is in force, or is going to be
\* (settings.c).
RecordsSound == SavedIsRestored /\ ScheduleIsKept /\ RtcGetsItsTurn
=============================================================================
