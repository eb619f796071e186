-------------------------------- MODULE Zone --------------------------------
(***************************************************************************)
(* The time zone: looked up and held by the ESP (esp_src/src/tz/tzinfo.cpp *)
(* and tz_schedule.cpp), sent as TZ-STATE over a line that loses frames,   *)
(* and held and applied by the PIC (dspic_src/ui/timezone.c, settings.c).  *)
(* Either may restart at any moment: the ESP from what it saved, the PIC   *)
(* from what it has written.                                               *)
(*                                                                         *)
(* A schedule is the part of a zone's changes that the service sends,      *)
(* worked out (tzinfo_service/tzinfo_service.py) from zdump's listing of   *)
(* the changes and Python's zoneinfo, which are external.  A zone is its   *)
(* changes in order, the first standing for how it was before any: when,   *)
(* the offset from UTC, the flag that tzdata gives it (isdst), and the     *)
(* part of the offset that zoneinfo takes for daylight saving (0: none).   *)
(* A change may be of the name alone.  The position rounded, the text and  *)
(* the address of a request, the ambiguity and the sub-second offset are   *)
(* left out.                                                               *)
(***************************************************************************)
EXTENDS Integers, Sequences, SequencesExt, FiniteSetsExt

CONSTANTS ZoneNames, TransitionsOf,
          YearsAhead,      \* transition_years, as a time
          MaxTransitions,  \* max_transitions
          TransitionMax,   \* SML_TZ_TRANSITION_MAX
          OpenEnded,       \* 0xFFFFFFFF, no horizon
          Refresh,         \* refresh_s
          RetryFirst, RetryMax, EmptyFirst, EmptyMax,   \* RETRY_*
          MoveRecheck,     \* MOVE_RECHECK_MS
          FirstFixWait,    \* FIRST_FIX_WAIT_MS
          MaxZoneEvents,   \* the bound on moves, restarts and losses
          LastTime         \* the bound on the time

ASSUME ZoneAssumption ==
  /\ YearsAhead \in Nat /\ MaxTransitions \in Nat \ {0}
  /\ \A z \in ZoneNames : \A i, j \in DOMAIN TransitionsOf[z] :
       i < j => TransitionsOf[z][i].at < TransitionsOf[z][j].at
  /\ TransitionMax \in Nat \ {0} /\ LastTime \in Nat /\ OpenEnded > LastTime
  /\ Refresh \in Nat /\ RetryFirst \in Nat /\ RetryMax \in Nat /\ EmptyFirst \in Nat
  /\ EmptyMax \in Nat /\ MoveRecheck \in Nat /\ FirstFixWait \in Nat /\ MaxZoneEvents \in Nat
  \* Nothing held is tried again soonest, and no delay is longer than its limit.
  /\ EmptyFirst <= EmptyMax /\ EmptyFirst <= RetryFirst /\ RetryFirst <= RetryMax
  /\ EmptyFirst <= LastTime
  \* The service lists enough of what is to come: see README.
  /\ MaxTransitions >= TransitionMax
  /\ \A z \in ZoneNames : \A i \in DOMAIN TransitionsOf[z] : TransitionsOf[z][i].at < YearsAhead

VARIABLES place,    \* where the clock is: the zone, whether there is a fix, the time
          held,     \* tz.schedule of the ESP, and what it saved
          lookups,  \* the rest of tz
          line,     \* TZ-STATE on its way
          picHeld,  \* schedule of timezone.c, and what settings.c has written
          events    \* the events left

zoneVars == <<place, held, lookups, line, picHeld, events>>

NoZone == [valid |-> FALSE, zone |-> "NONE", source |-> "NONE", issued |-> 0,
           horizon |-> 0, entries |-> <<>>]

-----------------------------------------------------------------------------
\* The answer of the service

\* How the zone really is at a time, as zoneinfo has it.
StateAt(zone, time) ==
  LET past == {i \in DOMAIN TransitionsOf[zone] : i = 1 \/ TransitionsOf[zone][i].at <= time}
  IN  TransitionsOf[zone][Max(past)]

\* What zdump lists: each change as the second before it and its own.
Listed(zone, from, to) ==
  LET all == TransitionsOf[zone]
      Pair(i) == <<[all[i - 1] EXCEPT !.at = all[i].at - 1], all[i]>>
  IN  FlattenSeq([k \in 1 .. Len(all) - 1 |->
                    IF from <= all[k + 1].at /\ all[k + 1].at < to THEN Pair(k + 1) ELSE <<>>])

\* _boundary_pairs(): of records that follow one another by a second, those that differ.
IsBoundary(before, after) ==
  after.at = before.at + 1 /\ (before.gmtoff # after.gmtoff \/ before.isdst # after.isdst)

BoundaryPairs(records) ==
  LET pairs == [i \in 1 .. Len(records) - 1 |-> <<records[i], records[i + 1]>>]
  IN  SelectSeq(pairs, LAMBDA p : IsBoundary(p[1], p[2]))

\* _dst_adjustment_from_pair(), of a pair that toggles.
Adjustment(p) ==
  IF p[2].isdst THEN p[2].gmtoff - p[1].gmtoff ELSE p[1].gmtoff - p[2].gmtoff

\* _state_components(): while no daylight saving is active, the adjustment of the
\* toggle nearest in time, of two as near the earlier.
StateComponents(zone, time, pairs) ==
  LET state   == StateAt(zone, time)
      toggles == SelectSeq(pairs, LAMBDA p : p[1].isdst # p[2].isdst)
      Away(i) == IF toggles[i][2].at > time THEN toggles[i][2].at - time
                 ELSE time - toggles[i][2].at
      nearest == Min({i \in DOMAIN toggles : \A j \in DOMAIN toggles : Away(i) <= Away(j)})
  IN  IF state.dst # 0
      THEN [offset |-> state.gmtoff - state.dst, dstOffset |-> state.dst, dst |-> TRUE]
      ELSE [offset |-> state.gmtoff, dst |-> FALSE,
            dstOffset |-> IF toggles = <<>> THEN 0 ELSE Adjustment(toggles[nearest])]

\* snapshot(): the state in force, and the changes to come.
Snapshot(zone, now) ==
  LET pairs  == BoundaryPairs(Listed(zone, 0, now + YearsAhead))
      Entry(at, time) == [at |-> at] @@ StateComponents(zone, time, pairs)
      past   == {pairs[i][2].at : i \in {j \in DOMAIN pairs : pairs[j][2].at <= now}}
      future == SelectSeq(pairs, LAMBDA p : p[2].at > now)
      kept   == SubSeq(future, 1, Min({Len(future), MaxTransitions}))
  IN  <<Entry(IF past = {} THEN 0 ELSE Max(past), now)>>
      \o [i \in DOMAIN kept |-> Entry(kept[i][2].at, kept[i][2].at)]

-----------------------------------------------------------------------------
\* The schedule

EntryAfter(entries, time) ==   \* mutant: a transition counts from the second after it
  1 + Cardinality({i \in DOMAIN entries : i > 1 /\ entries[i].at < time})

\* tz_schedule_entry_at(), timezone_offset_at(): the entry in force.
EntryAt(entries, time) ==
  1 + Cardinality({i \in DOMAIN entries : i > 1 /\ entries[i].at <= time})

\* tz_schedule_parse_v1() of the answer: as many as fit, ending where one is left out.
Parsed(zone, source, time) ==
  LET answer == Snapshot(zone, time)
      kept   == SubSeq(answer, 1, Min({Len(answer), TransitionMax + 1}))
  IN  [valid |-> TRUE, zone |-> zone, source |-> source, issued |-> time, entries |-> kept,
       horizon |-> IF Len(answer) <= TransitionMax THEN OpenEnded
                   ELSE IF Len(answer) = TransitionMax + 1 THEN kept[Len(kept)].at + 1
                   ELSE answer[TransitionMax + 2].at]

\* tz_schedule_same()
Same(a, b) == [a EXCEPT !.issued = 0] = [b EXCEPT !.issued = 0]

\* tz_schedule_state(): from the entry in force on, or all of it while the ESP does not
\* have the time.
State(s, haveNow, time) ==
  [s EXCEPT !.entries = SubSeq(@, IF haveNow THEN EntryAt(@, time) ELSE 1, Len(@))]

-----------------------------------------------------------------------------
\* The ESP

\* schedule_next(); the delays double to their limits.
ScheduleNext(t, ok, valid) ==
  IF ok THEN [t EXCEPT !.next = place.time + Refresh, !.retry = RetryFirst, !.empty = EmptyFirst]
  ELSE IF ~valid
  THEN [t EXCEPT !.next = place.time + t.empty,
                 !.empty = IF 2 * @ > EmptyMax THEN EmptyMax ELSE 2 * @]
  ELSE [t EXCEPT !.next = place.time + t.retry,
                 !.retry = IF 2 * @ > RetryMax THEN RetryMax ELSE 2 * @]

\* current_position(), by its zone.
CurrentPosition == IF place.fix THEN place.zone ELSE "NONE"

\* has_moved(): to another place, or a fix where the last lookup had none.
HasMoved == place.fix /\ lookups.used # CurrentPosition

\* lookup_due(), of which the last remembers when it was.
MovedDue ==
  /\ lookups.lookedUp /\ place.time < lookups.next
  /\ lookups.lastOk /\ HasMoved /\ place.time - lookups.moveCheck > MoveRecheck

LookupDue ==
  IF ~lookups.lookedUp
  THEN lookups.force \/ place.fix \/ place.time - lookups.networkSince > FirstFixWait
  ELSE place.time >= lookups.next \/ MovedDue

\* lookup(): an answer, or none whatever it is that failed.
Outcomes == BOOLEAN

\* apply(): kept, and saved if it differs.
Applied(ok, answer) ==
  IF ~ok THEN held
  ELSE [now |-> answer, saved |-> IF Same(answer, held.now) THEN held.saved ELSE answer]

\* update(); apart is how long after one that failed, if it was not asked for.
LookUp(t, apart) ==
  /\ \E ok \in Outcomes :
       /\ held' = Applied(ok, Parsed(place.zone, IF place.fix THEN "GNSS" ELSE "GEOIP", place.time))
       /\ lookups' = ScheduleNext([t EXCEPT !.lookedUp = TRUE, !.force = FALSE, !.lastOk = ok,
                                     !.used = CurrentPosition, !.last = place.time,
                                     !.apart = apart], ok, held.now.valid)
  /\ UNCHANGED <<line, picHeld>>

\* tzinfo_service()
Update ==
  /\ LookupDue
  /\ LookUp([lookups EXCEPT !.moveCheck = IF MovedDue THEN place.time ELSE @],
            IF lookups.lookedUp /\ ~lookups.lastOk THEN place.time - lookups.last ELSE LastTime)
  /\ UNCHANGED <<place, events>>

\* The console's: tzinfo_update(), tzinfo_set_enabled().
LookUpNow ==
  /\ events > 0 /\ events' = events - 1
  /\ LookUp(lookups, LastTime) /\ UNCHANGED place

EnableLookups ==
  /\ events > 0 /\ events' = events - 1
  /\ lookups' = [lookups EXCEPT !.lookedUp = FALSE, !.force = TRUE]
  /\ UNCHANGED <<place, held, line, picHeld>>

\* send_state(): what is new, and all of it again now and then.  Whether the ESP has
\* the time (esp_time_utc_now) is up to its own sources.
SendState ==
  /\ held.now.valid /\ line = <<>>
  /\ \E haveNow \in BOOLEAN : line' = <<State(held.now, haveNow, place.time)>>
  /\ UNCHANGED <<place, held, lookups, picHeld, events>>

\* tzinfo_init() and load(): from what was saved, as a cached one.
EspRestarts ==
  /\ events > 0 /\ events' = events - 1
  /\ held' = [held EXCEPT !.now = [held.saved EXCEPT
                !.source = IF held.saved.valid THEN "CACHE" ELSE "NONE"]]
  /\ lookups' = [lookedUp |-> FALSE, force |-> ~held.saved.valid, lastOk |-> FALSE,
                 next |-> 0, retry |-> RetryFirst, empty |-> EmptyFirst, used |-> "NONE",
                 moveCheck |-> 0, networkSince |-> place.time,
                 last |-> 0 - LastTime, apart |-> LastTime]
  /\ line' = <<>> /\ UNCHANGED <<place, picHeld>>

-----------------------------------------------------------------------------
\* The PIC

\* well_formed()
WellFormedState(s) ==
  /\ Len(s.entries) - 1 <= TransitionMax
  /\ \A i \in 2 .. Len(s.entries) : s.entries[i - 1].at < s.entries[i].at
  /\ s.entries[Len(s.entries)].at < s.horizon

\* timezone_apply(): never an older one of the same source.
Apply(s) ==
  LET now == picHeld.now
  IN  IF ~WellFormedState(s) \/ (now.valid /\ s.source = now.source /\ s.issued < now.issued)
      THEN picHeld
      ELSE [now |-> s, unsaved |-> picHeld.unsaved \/ ~now.valid \/ ~Same(s, now),
            written |-> picHeld.written]

TakeState ==
  /\ line # <<>> /\ line' = <<>>
  /\ picHeld' = Apply(Head(line))
  /\ UNCHANGED <<place, held, lookups, events>>

LoseState ==
  /\ line # <<>> /\ events > 0
  /\ events' = events - 1 /\ line' = <<>>
  /\ UNCHANGED <<place, held, lookups, picHeld>>

\* save_timezone(): timezone_take_changed(), then the record.
SaveZoneState ==
  /\ picHeld.unsaved
  /\ picHeld' = [picHeld EXCEPT !.unsaved = FALSE, !.written = picHeld.now]
  /\ UNCHANGED <<place, held, lookups, line, events>>

\* timezone_init(), then restored as received.
PicRestarts ==
  /\ events > 0 /\ events' = events - 1
  /\ picHeld' = [picHeld EXCEPT !.now = picHeld.written, !.unsaved = FALSE]
  /\ line' = <<>> /\ UNCHANGED <<place, held, lookups>>

\* timezone_offset_at(), with both settings automatic.
OffsetAt(time) ==
  LET entry == picHeld.now.entries[EntryAt(picHeld.now.entries, time)]
  IN  entry.offset + (IF entry.dst THEN entry.dstOffset ELSE 0)
Stale(time) == picHeld.now.horizon # OpenEnded /\ time >= picHeld.now.horizon

-----------------------------------------------------------------------------
\* The world

SecondOfZone ==
  /\ place.time < LastTime
  /\ place' = [place EXCEPT !.time = @ + 1]
  /\ UNCHANGED <<held, lookups, line, picHeld, events>>

Moves ==
  /\ events > 0 /\ events' = events - 1
  /\ \E zone \in ZoneNames, fix \in BOOLEAN : place' = [place EXCEPT !.zone = zone, !.fix = fix]
  /\ UNCHANGED <<held, lookups, line, picHeld>>

ZoneInit ==
  /\ place \in [zone : ZoneNames, fix : BOOLEAN, time : {0}]
  /\ held = [now |-> NoZone, saved |-> NoZone]
  /\ lookups = [lookedUp |-> FALSE, force |-> TRUE, lastOk |-> FALSE, next |-> 0,
                retry |-> RetryFirst, empty |-> EmptyFirst, used |-> "NONE", moveCheck |-> 0,
                networkSince |-> 0, last |-> 0 - LastTime, apart |-> LastTime]
  /\ line = <<>> /\ picHeld = [now |-> NoZone, unsaved |-> FALSE, written |-> NoZone]
  /\ events = MaxZoneEvents

ZoneNext ==
  \/ SecondOfZone \/ Moves \/ Update \/ LookUpNow \/ EnableLookups \/ SendState \/ EspRestarts
  \/ TakeState \/ LoseState \/ SaveZoneState \/ PicRestarts

ZoneSpec == ZoneInit /\ [][ZoneNext]_zoneVars

-----------------------------------------------------------------------------
\* Properties

\* Until it is stale, the offset shown is that of the zone it was sent for,
\* though the service took it apart, and the schedule was cut to fit, sent late or
\* restored after its first changes had passed (snapshot, tz_schedule.cpp, timezone.c).
OffsetIsOfZone ==
  picHeld.now.valid /\ ~Stale(place.time) =>
    OffsetAt(place.time) = StateAt(picHeld.now.zone, place.time).gmtoff

\* Wherever the clock is carried meanwhile, a lookup that failed is not tried
\* again before the shortest of its delays (tzinfo.cpp, lookup_due).
LookupsApart == lookups.apart >= EmptyFirst

\* The time shown is of the zone, and the service is not pressed for it
\* (timezone.c, tzinfo.cpp).
ZoneSound == OffsetIsOfZone /\ LookupsApart
=============================================================================
