-------------------------------- MODULE Menu --------------------------------
(***************************************************************************)
(* The one button and the switch, dspic_src/ui/controls.c, what main.c has *)
(* them do (service_controls) and the menu they work, menu/menu.c: sections *)
(* of items, values edited field by field, and the time set by hand, with  *)
(* which the RTC is written once it is in force.                           *)
(*                                                                         *)
(* A call of service_controls(), every 10 ms, is the unit of time.  A      *)
(* value is the number of the choice within its range, from 0.  What an    *)
(* item looks like is left out; whether the menu's frame or a display mode *)
(* is shown is not.                                                        *)
(***************************************************************************)
EXTENDS Integers, Sequences

CONSTANTS Debounce,      \* CONTROLS_DEBOUNCE_MS, in calls
          Long,          \* CONTROLS_LONG_MS and MENU_LONG_MS
          Repeat,        \* MENU_REPEAT_MS
          RepeatPeriod,  \* MENU_REPEAT_PERIOD_MS
          TakeBack,      \* MENU_TAKE_BACK_MS
          Timeout,       \* MENU_TIMEOUT_MS
          NameShown,     \* MENU_NAME_MS
          RtcWrite,      \* MENU_RTC_WRITE_MS
          SectionsUsed,  \* the sections of the menu that are looked into
          Highs,         \* of each value, the highest choice of each field
          MonthDays,     \* the last day of each month
          Factory,       \* the settings at the start
          MaxEvents,     \* bound: what comes from elsewhere (the switch, the alarm, the
                         \* ESP's writes, the link, a source with the time)
          MaxTimes       \* bound: times set by hand that are told apart

ASSUME MenuAssumption ==
  /\ {Debounce, Long, Repeat, RepeatPeriod, TakeBack, Timeout, NameShown, RtcWrite} \subseteq Nat
  /\ Long <= Repeat /\ TakeBack <= RepeatPeriod
  /\ {MaxEvents, MaxTimes} \subseteq Nat

\* Every value has its fields, and a factory setting is a choice of them.
ASSUME MenuRanges ==
  /\ DOMAIN Factory = {"tzAuto", "tzOffset", "dstAuto", "dstActive", "dstOffset", "alarmOn",
                       "alarmTime", "beepOn", "hours", "mode", "brightness"}
  /\ DOMAIN Highs =
       DOMAIN Factory \cup {"time", "tzRemote", "resetWifi", "resetSettings", "resetAll"}
  /\ \A i \in DOMAIN Highs : Highs[i] \in Seq(Nat) /\ Len(Highs[i]) =
       CASE i \in {"tzOffset", "alarmTime"} -> 2 [] i = "time" -> 6 [] OTHER -> 1
  /\ Factory \in [DOMAIN Factory -> Seq(Nat)]
  /\ \A i \in DOMAIN Factory :
       /\ Len(Factory[i]) = Len(Highs[i])
       /\ \A f \in DOMAIN Factory[i] : Factory[i][f] <= Highs[i][f]
  /\ MonthDays \in Seq(Nat) /\ Len(MonthDays) = Highs["time"][2] + 1

VARIABLES controls,  \* the statics of controls.c and of service_controls()
          ui,        \* the statics of menu.c, the settings, and what is shown
          clock,     \* the time set by hand, and the RTC
          did,       \* a history: what the last press has done
          menuEvents \* what may still come from elsewhere

menuVars == <<controls, ui, clock, did, menuEvents>>

AtMost(a, b) == IF a < b THEN a ELSE b
Older(age, limit) == AtMost(age + 1, limit)

-----------------------------------------------------------------------------
\* controls.c

NewInput(level) == [raw |-> level, level |-> level, rawAge |-> 0, levelAge |-> 0]

\* debounce(): the level is taken once the input has kept it, and counts from
\* the first edge.
Debounced(input, raw) ==
  LET age == IF raw # input.raw THEN 0 ELSE Older(input.rawAge, Debounce)
  IN  IF raw # input.level /\ age >= Debounce
      THEN [raw |-> raw, level |-> raw, rawAge |-> 0, levelAge |-> IF raw THEN age ELSE 0]
      ELSE [raw |-> raw, level |-> input.level, rawAge |-> IF raw = input.level THEN 0 ELSE age,
            levelAge |-> IF input.level THEN Older(input.levelAge, Long) ELSE 0]

\* controls_service(): the button's half, and the press it reports.
PressOf(was, button, reported) ==
  IF was.level /\ ~button.level /\ ~reported THEN "SHORT"
  ELSE IF button.level /\ button.raw /\ button.levelAge >= Long /\ (~reported \/ ~was.level)
       THEN "LONG" ELSE "NONE"

-----------------------------------------------------------------------------
\* The items of the menu

Sections == [top |-> <<"MENU", "tz", "dst", "alarm", "beep", "display", "time", "reset", "EXIT">>,
             tz |-> <<"tzAuto", "tzOffset", "tzRemote", "BACK">>,
             dst |-> <<"dstAuto", "dstActive", "dstOffset", "BACK">>,
             alarm |-> <<"alarmOn", "alarmTime", "BACK">>,
             beep |-> <<"beepOn", "BACK">>,
             display |-> <<"hours", "mode", "brightness", "BACK">>,
             reset |-> <<"resetWifi", "resetSettings", "resetAll", "BACK">>]

Opens(i) == i \in DOMAIN Sections
Current(u) == Sections[u.section][u.item]
Kept == DOMAIN Factory   \* the values that are settings of the dsPIC

Shown(u, i) ==
  CASE Opens(i) -> i \in SectionsUsed
    [] i = "time" -> clock.onlyRtc
    [] i = "tzOffset" -> u.work["tzAuto"] = <<0>>
    [] i \in {"dstActive", "dstOffset"} -> u.work["dstAuto"] = <<0>>
    [] i = "alarmTime" -> u.work["alarmOn"] = <<1>>
    [] i \in {"tzRemote", "resetWifi", "resetAll"} -> clock.linked
    [] OTHER -> TRUE

\* The load()s of the items: of the time, the end of the first month.
Loaded(u, i) ==
  CASE i \in Kept -> u.work[i]
    [] i = "time" -> <<0, 0, MonthDays[1], 0, 0, 0>>
    [] OTHER -> <<0>>

\* The limits()s: the days of the month are those of the month chosen.
High(i, values, f) ==
  IF i = "time" /\ f = 3 THEN MonthDays[values[2] + 1] ELSE Highs[i][f]

-----------------------------------------------------------------------------
\* What an item does

\* settings_write() with apply(), for the menu and the ESP alike.
WriteSettings(u, body) ==
  [u EXCEPT !.settings = body, !.work = body,
            !.changed = @ \/ body # u.settings,
            !.lit = IF body # u.settings THEN body["brightness"] ELSE @,
            !.foreign = @ /\ body = u.settings]

\* reset_pic(): saved at once.
ResetPic(u) == [WriteSettings(u, Factory) EXCEPT !.changed = FALSE, !.unsaved = FALSE]

\* The store()s.
Stored(u, i, values) ==
  CASE i \in Kept ->
         LET w == WriteSettings(u, [u.work EXCEPT ![i] = values])
         IN  [w EXCEPT !.unsaved = @ \/ w.settings # u.settings]
    [] i = "tzRemote" /\ clock.linked -> [u EXCEPT !.espChanged = TRUE, !.espUnsaved = TRUE]
    [] i = "resetSettings" /\ values = <<1>> -> ResetPic(u)
    [] i = "resetAll" /\ values = <<1>> ->
         [ResetPic(u) EXCEPT !.espChanged = FALSE, !.espUnsaved = FALSE]
    [] OTHER -> u

\* time_store() with sync_set_time(), refused unless the clock runs free.
TimeStored(c, values) ==
  IF ~c.free THEN c
  ELSE LET latest == AtMost(c.sets + 1, MaxTimes)
       IN  [c EXCEPT !.sets = latest, !.pending = latest, !.rtcPending = TRUE, !.rtcAge = 0]

-----------------------------------------------------------------------------
\* Moving about

\* next_item(): the next shown one, wrapping.
NextItem(u, from) ==
  LET items == Sections[u.section]
      After(n) == ((from - 1 + n) % Len(items)) + 1
      n == CHOOSE k \in 1 .. Len(items) :
             /\ Shown(u, items[After(k)])
             /\ \A j \in 1 .. k - 1 : ~Shown(u, items[After(j)])
  IN  After(n)

Lit(u, i) == IF i = "brightness" THEN u.work["brightness"] ELSE u.lit

\* stop_editing(): the brightness previewed goes back.
StopEditing(u) ==
  [u EXCEPT !.lit = Lit(u, Current(u)), !.preview = FALSE, !.editing = FALSE,
            !.field = 1, !.values = <<0>>, !.nameAge = 0, !.repeating = FALSE, !.stepAge = 0]

\* close_menu(): the settings are saved once.
CloseMenu(u) ==
  LET s == IF u.editing THEN StopEditing(u) ELSE u
  IN  [s EXCEPT !.open = FALSE, !.overlay = FALSE, !.preview = FALSE,
                !.unsaved = @ /\ ~u.changed, !.changed = FALSE,
                !.espUnsaved = @ /\ ~u.espChanged, !.espChanged = FALSE,
                !.section = "top", !.item = 1, !.wait = FALSE, !.held = 0, !.idle = 0]

\* start_editing(): from the settings as they are now.
StartEditing(u) ==
  LET fresh == [u EXCEPT !.work = u.settings]
      values == Loaded(fresh, Current(u))
  IN  [fresh EXCEPT !.editing = TRUE, !.field = 1, !.values = values, !.nameAge = 0,
                    !.lit = IF Current(u) = "brightness" THEN values ELSE @]

\* step()
Step(u, direction) ==
  LET i == Current(u)
      high == High(i, u.values, u.field)
      value == (u.values[u.field] + direction) % (high + 1)
      values == [u.values EXCEPT ![u.field] = value]
  IN  IF high = 0 THEN u
      ELSE [u EXCEPT !.values = values, !.nameAge = 0,
                     !.lit = IF i = "brightness" THEN values ELSE @]

\* confirm(): the next field is brought within its range, or the value stored.
Confirm(u) ==
  LET f == u.field + 1
  IN  IF u.field < Len(u.values)
      THEN [u EXCEPT !.field = f, !.values[f] = AtMost(@, High(Current(u), u.values, f))]
      ELSE StopEditing(Stored(u, Current(u), u.values))

\* move_long(): by the kind of the item.
MoveLong(u) ==
  LET i == Current(u)
      home == CHOOSE n \in DOMAIN Sections["top"] : Sections["top"][n] = u.section
      inside == [u EXCEPT !.section = i, !.item = 1]
  IN  CASE i \in {"MENU", "EXIT"} -> CloseMenu(u)
        [] Opens(i) -> IF Shown(u, Sections[i][1]) THEN inside
                       ELSE [inside EXCEPT !.item = NextItem(inside, 1)]
        [] i = "BACK" -> [u EXCEPT !.section = "top", !.item = home]
        [] OTHER -> StartEditing(u)

-----------------------------------------------------------------------------
\* The button in the menu: the new ui, and what it has done (or "NONE").

Did(u, what) == [u |-> u, what |-> what]

Unspent(u) == u    \* mutant: a press acted on while held goes on

\* A press acted on while held is done with.
Spent(u) == [u EXCEPT !.wait = TRUE]

Pressing(u) ==
  LET single == High(Current(u), u.values, u.field) = 0
  IN  IF ~u.editing
      THEN IF u.held >= Long THEN Did(MoveLong(Spent(u)), "LONG") ELSE Did(u, "NONE")
      ELSE IF single
      THEN IF u.held >= Long THEN Did(Confirm(Spent(u)), "CONFIRM") ELSE Did(u, "NONE")
      ELSE IF \/ ~u.repeating /\ u.held >= Repeat
              \/ u.repeating /\ u.stepAge >= RepeatPeriod
      THEN Did(Step([u EXCEPT !.repeating = TRUE, !.stepAge = 0], 1), "STEP")
      ELSE Did(u, "NONE")

Released(u) ==
  IF ~u.editing THEN Did([u EXCEPT !.item = NextItem(u, u.item)], "MOVE")
  ELSE IF u.repeating
  THEN Did(IF u.stepAge < TakeBack THEN Step(u, -1) ELSE u, "STEP")
  ELSE IF u.held < Long THEN Did(Step(u, 1), "STEP")
  ELSE Did(Confirm(u), "CONFIRM")

\* follow_button()
FollowButton(u, down) ==
  IF u.wait
  THEN Did(IF down THEN u ELSE [u EXCEPT !.wait = FALSE, !.idle = 0], "NONE")
  ELSE IF down /\ ~u.wasDown
  THEN Did([u EXCEPT !.held = 0, !.repeating = FALSE, !.stepAge = 0, !.idle = 0], "NONE")
  ELSE IF down THEN Pressing(u)
  ELSE IF u.wasDown THEN Released([u EXCEPT !.idle = 0])
  ELSE Did(u, "NONE")

\* render(): the menu's frame, or the mode being chosen once its name has been
\* shown long enough.
Rendered(u) ==
  LET live == u.editing /\ Current(u) = "mode" /\ u.nameAge >= NameShown
  IN  [u EXCEPT !.overlay = ~live, !.preview = live]

\* A call later.
Aged(u) ==
  IF ~u.open THEN u
  ELSE [u EXCEPT !.held = IF u.wasDown THEN Older(@, Repeat) ELSE 0,
                 !.stepAge = IF u.repeating THEN Older(@, RepeatPeriod) ELSE 0,
                 !.idle = Older(@, Timeout),
                 !.nameAge = IF u.editing THEN Older(@, NameShown) ELSE 0]

\* menu_service(), but for write_rtc().
MenuService(u, down) ==
  LET r == FollowButton(Aged(u), down)
      f == [r.u EXCEPT !.wasDown = down]
      moved == IF ~f.editing /\ ~Shown(f, Current(f))
               THEN [f EXCEPT !.item = NextItem(f, @)] ELSE f
  IN  IF ~u.open THEN Did([u EXCEPT !.wasDown = down], "NONE")
      ELSE IF ~f.open THEN Did(f, r.what)
      ELSE IF ~down /\ f.idle >= Timeout THEN Did(CloseMenu(f), r.what)
      ELSE Did(Rendered(moved), r.what)

\* menu_open()
MenuOpen(u) ==
  Rendered([u EXCEPT !.open = TRUE, !.section = "top", !.item = 1, !.editing = FALSE,
                     !.wait = TRUE, !.idle = 0, !.work = u.settings,
                     !.changed = FALSE, !.espChanged = FALSE])

\* write_rtc(): with the clock's time as it is now.
WriteRtc(c) ==
  IF ~c.rtcPending THEN {c}
  ELSE IF c.rtcAge >= RtcWrite THEN {[c EXCEPT !.rtcPending = FALSE]}
  ELSE LET wrote == [c EXCEPT !.rtcPending = FALSE, !.rtc = c.inForce, !.rtcFor = c.sets]
           later == [c EXCEPT !.rtcAge = Older(@, RtcWrite)]
       IN  IF c.inForce > 0 THEN {wrote, later} ELSE {later}

-----------------------------------------------------------------------------
\* Steps

Acted(d, what) ==
  IF what = "NONE" \/ (what = "STEP" /\ d.last = "STEP") THEN d
  ELSE [acts |-> AtMost(d.acts + 1, 2), last |-> what]

\* service_controls()
ServiceControls(pin, on) ==
  LET button == Debounced(controls.button, pin)
      toggle == Debounced(controls.toggle, on)
      press == PressOf(controls.button, button, controls.reported)
      began == button.level /\ ~controls.button.level
      rings == controls.sounding /\ toggle.level
      spent == IF began THEN rings ELSE controls.spent
      inMenu == IF began THEN ui.open ELSE controls.inMenu
      r == MenuService(ui, button.level /\ ~spent)
      onClock == press # "NONE" /\ ~spent /\ ~inMenu /\ ~r.u.open
      sets == r.what = "CONFIRM" /\ Current(ui) = "time" /\ ui.field = 6
      fresh == IF ~began THEN did ELSE [acts |-> IF rings THEN 1 ELSE 0, last |-> "STOP"]
      flips == IF on # controls.toggle.raw THEN 1 ELSE 0
  IN  /\ flips <= menuEvents /\ menuEvents' = menuEvents - flips
      /\ controls' = [button |-> button, toggle |-> toggle, spent |-> spent, inMenu |-> inMenu,
                      reported |-> press = "LONG" \/ (~began /\ controls.reported),
                      sounding |-> rings /\ ~began]
      /\ ui' = IF onClock /\ press = "LONG" THEN MenuOpen(r.u) ELSE r.u
      /\ \E c \in WriteRtc(clock) : clock' = IF sets THEN TimeStored(c, ui.values) ELSE c
      /\ did' = Acted(Acted(fresh, r.what),
                      IF ~onClock THEN "NONE" ELSE IF press = "LONG" THEN "OPEN" ELSE "CYCLE")

\* run_epoch(): a time set by hand comes into force, unless a source has been
\* taken up since; menu_epoch() looks for a source that gives the time.
EpochRun ==
  /\ \E given, taken \in BOOLEAN :
       /\ taken => given
       /\ menuEvents' = menuEvents - (IF given THEN 1 ELSE 0) /\ menuEvents' >= 0
       /\ clock' = [clock EXCEPT
            !.onlyRtc = @ /\ ~given, !.free = @ /\ ~taken,
            !.inForce = IF taken THEN 0 ELSE IF clock.pending # 0 THEN clock.pending ELSE @,
            !.pending = 0]
  /\ clock' # clock
  /\ UNCHANGED <<controls, ui, did>>

\* The alarm goes off (Alarm.tla).
AlarmGoesOff ==
  /\ controls.toggle.level /\ ~controls.sounding /\ menuEvents > 0
  /\ controls' = [controls EXCEPT !.sounding = TRUE]
  /\ menuEvents' = menuEvents - 1
  /\ UNCHANGED <<ui, clock, did>>

\* The ESP writes its settings (SettingsLink.tla), the menu open or not.
EspWrites ==
  /\ menuEvents > 0
  /\ \E i \in Kept :
       LET body == [ui.settings EXCEPT ![i][1] = Highs[i][1]]
       IN  /\ body # ui.settings
           /\ ui' = [ui EXCEPT !.settings = body, !.lit = body["brightness"],
                               !.foreign = ui.editing /\ (@ \/ i = "brightness")]
  /\ menuEvents' = menuEvents - 1
  /\ UNCHANGED <<controls, clock, did>>

LinkChanges ==
  /\ menuEvents > 0
  /\ clock' = [clock EXCEPT !.linked = ~@]
  /\ menuEvents' = menuEvents - 1
  /\ UNCHANGED <<controls, ui, did>>

-----------------------------------------------------------------------------

\* controls_init() and the first call, by which a button held through the
\* reset is no press; menu_init(); sync_init().
MenuInit ==
  /\ \E held \in BOOLEAN :
       /\ controls = [button |-> NewInput(held), toggle |-> NewInput(TRUE), spent |-> FALSE,
                      inMenu |-> FALSE, reported |-> held, sounding |-> FALSE]
       /\ ui = [open |-> FALSE, section |-> "top", item |-> 1, editing |-> FALSE, field |-> 1,
                values |-> <<0>>, wait |-> FALSE, wasDown |-> held, held |-> 0,
                repeating |-> FALSE, stepAge |-> 0, idle |-> 0, nameAge |-> 0,
                work |-> Factory, settings |-> Factory, changed |-> FALSE, unsaved |-> FALSE,
                espChanged |-> FALSE, espUnsaved |-> FALSE, lit |-> Factory["brightness"],
                foreign |-> FALSE, overlay |-> FALSE, preview |-> FALSE]
  /\ clock = [onlyRtc |-> TRUE, free |-> TRUE, linked |-> TRUE, sets |-> 0, pending |-> 0,
              inForce |-> 0, rtcPending |-> FALSE, rtcAge |-> 0, rtc |-> 0, rtcFor |-> 0]
  /\ did = [acts |-> 0, last |-> "NONE"]
  /\ menuEvents = MaxEvents

MenuNext ==
  \/ \E pin, on \in BOOLEAN : ServiceControls(pin, on)
  \/ EpochRun \/ AlarmGoesOff \/ EspWrites \/ LinkChanges

MenuSpec == MenuInit /\ [][MenuNext]_menuVars

-----------------------------------------------------------------------------
\* Properties

\* One press does one thing, however long it is held and whatever it opens,
\* closes or stops: stop the alarm, show the next mode, open the menu, move,
\* confirm, or step (again and again, while held) the value being edited.
OnePressOneAct == did.acts <= 1

\* What was confirmed in the menu has been asked to be saved, here and on the
\* ESP, once the menu is closed, by hand or by the timeout.
ConfirmedIsSaved == ~ui.open => ~ui.unsaved /\ ~ui.espUnsaved

\* A choice that has been reached is one its field offers (no 31st of June),
\* whatever was chosen in the fields before it.
ChoicesInRange ==
  ui.editing => \A f \in 1 .. ui.field :
                  ui.values[f] \in 0 .. High(Current(ui), ui.values, f)

\* What is only being looked at goes back: away from the editing, the light is
\* that of the settings and the menu's frame or nothing hides the clock.  (A
\* brightness from the ESP that came while one was being edited is not put
\* back by a timeout: the menu's copy is older.)
PreviewGoesBack ==
  /\ ~ui.editing /\ ~ui.foreign => ui.lit = ui.settings["brightness"]
  /\ ~ui.open => ~ui.overlay /\ ~ui.preview
  /\ ui.open => ui.overlay # ui.preview

\* What the button does is what it is meant to, and what the menu does is kept
\* or taken back (menu.c, main.c).
MenuSound == OnePressOneAct /\ ConfirmedIsSaved /\ ChoicesInRange /\ PreviewGoesBack

\* After a time set by hand the RTC is written "once the new time is in force"
\* (README.md of the dsPIC, menu.c): what it was given is that time.
RtcHasTheTime == clock.rtcFor = clock.sets /\ ~clock.rtcPending => clock.rtc = clock.sets
=============================================================================
