---------------------------- MODULE MCPeriphery -----------------------------
(***************************************************************************)
(* What is around the keeping of time, part by part.  The parts share no   *)
(* variable here: a behaviour is of one of them, and the view is of that   *)
(* one.                                                                    *)
(*                                                                         *)
(* MENU: the items of one section, one more choice than the first in most  *)
(* fields, a time set once, a switch, an alarm or a link that changes      *)
(* once.  STORE: two types, of two and three cells, in pages that hold two *)
(* records of the one and a cell more, or one of each, so that pages       *)
(* change every few writes; generations wrap after four changes.  ALARM:   *)
(* days of six ticks, two changes of the zone's offset, small ones that    *)
(* skip a moment and larger ones that are no DST change, and one of the    *)
(* alarm's time.  ZONE: two zones that change their clocks, one move, loss *)
(* or restart.  SERVICE: two databases, two leap tables.  RECORDS: three   *)
(* changes of what is kept and one restart.  UPDATER: four versions, two   *)
(* profiles in a manifest, eight hours, two power cuts.  CONNECT: every    *)
(* way to reach a server and to lose it, one poll at a time.  VOTE: three  *)
(* NTP servers, each with any of four offsets and three distances or out   *)
(* of use, and any in use before.                                          *)
(***************************************************************************)
EXTENDS Menu, Store, Alarm, Zone, ZoneService, Records,
        Updater, NetConnect, NtpSelect, TLC

VARIABLES candidates, current, part

voteVars == <<candidates, current>>

MCFactory ==
  [i \in {"tzAuto", "tzOffset", "dstAuto", "dstActive", "dstOffset", "alarmOn", "alarmTime",
          "beepOn", "hours", "mode", "brightness"} |->
     IF i \in {"tzOffset", "alarmTime"} THEN <<0, 0>> ELSE <<0>>]
MCHighs ==
  [i \in {"tzOffset", "alarmTime"} |-> <<1, 1>>]
  @@ [hours |-> <<0>>, time |-> <<0, 1, 0, 0, 0, 0>>]
  @@ [i \in {"tzAuto", "dstAuto", "dstActive", "dstOffset", "alarmOn", "beepOn", "mode",
             "brightness", "tzRemote", "resetWifi", "resetSettings", "resetAll"} |-> <<1>>]
MCDays == <<1, 0>>

\* What the RTC was given, and for which time set, is history here: with one
\* time told apart, every time set is that one.
MenuView ==
  <<controls, ui, [clock EXCEPT !.sets = 0, !.rtc = 0, !.rtcFor = 0], did, menuEvents>>

StoreView == <<ram, job, faults, [p \in Pages |-> ReadPage(p)]>>
MCTypes   == {1, 2}
MCSize    == <<2, 3>>

From(at, gmtoff, isdst, dst) == [at |-> at, gmtoff |-> gmtoff, isdst |-> isdst, dst |-> dst]
MCTransitions ==
  [z \in ZoneNames |->
     IF z = "A"
     THEN <<From(0, 0, FALSE, 0), From(2, 0, FALSE, 0), From(3, 1, TRUE, 1),
            From(6, 0, FALSE, 0), From(8, 1, TRUE, 0)>>
     ELSE <<From(0, 5, TRUE, -1), From(7, 6, FALSE, 0)>>]

MCEstimates == {1, 9}

MCVersions == {<<1, 9>>, <<1, 10>>, <<2>>, <<2, 0>>}
MCFirst    == <<1, 9>>

MCCandidates ==
  [usable : {FALSE}, offset : {0}, distance : {1}] \cup
  [usable : {TRUE}, offset : 0 .. 3, distance : 1 .. 3]

VoteInit ==
  IF part # "VOTE" THEN candidates = <<>> /\ current = NoServer
  ELSE candidates \in [NtpServers -> MCCandidates] /\ current \in NtpServers \cup {NoServer}

Choose == current' = Followed(candidates, current) /\ UNCHANGED candidates

\* The server that the ESP's clock follows is one of a largest set that agree,
\* and it does not swing between two of them (ntp_select).
VoteSound ==
  part = "VOTE" => ChoiceIsOfLargest(candidates, current) /\ NeverSwings(candidates, current)

PartView ==
  <<part,
    CASE part = "MENU"    -> MenuView
      [] part = "STORE"   -> StoreView
      [] part = "ALARM"   -> alarmVars
      [] part = "ZONE"    -> zoneVars
      [] part = "SERVICE" -> serviceVars
      [] part = "RECORDS" -> recordVars
      [] part = "UPDATER" -> updaterVars
      [] part = "CONNECT" -> connectVars
      [] part = "VOTE"    -> voteVars >>

MCInit ==
  /\ part \in {"MENU", "STORE", "ALARM", "ZONE", "SERVICE", "RECORDS", "UPDATER", "CONNECT", "VOTE"}
  /\ MenuInit /\ (part # "MENU" => ~controls.reported)
  /\ AlarmInit /\ (part # "ALARM" => utc.offset = 0 /\ alarm.time = 0)
  /\ ZoneInit /\ (part # "ZONE" => place.zone = "A" /\ place.fix)
  /\ ConnectInit /\ (part # "CONNECT" => reach = {})
  /\ Init /\ ServiceInit /\ RecordsInit /\ UpdaterInit
  /\ VoteInit

InMenu ==
  /\ part = "MENU" /\ MenuNext
  /\ UNCHANGED <<part, vars, alarmVars, zoneVars, serviceVars, recordVars,
                 updaterVars, connectVars, voteVars>>

InStore ==
  /\ part = "STORE" /\ Next
  /\ UNCHANGED <<part, menuVars, alarmVars, zoneVars, serviceVars, recordVars,
                 updaterVars, connectVars, voteVars>>

InAlarm ==
  /\ part = "ALARM" /\ AlarmNext
  /\ UNCHANGED <<part, menuVars, vars, zoneVars, serviceVars, recordVars,
                 updaterVars, connectVars, voteVars>>

InZone ==
  /\ part = "ZONE" /\ ZoneNext
  /\ UNCHANGED <<part, menuVars, vars, alarmVars, serviceVars, recordVars,
                 updaterVars, connectVars, voteVars>>

InService ==
  /\ part = "SERVICE" /\ ServiceNext
  /\ UNCHANGED <<part, menuVars, vars, alarmVars, zoneVars, recordVars,
                 updaterVars, connectVars, voteVars>>

InRecords ==
  /\ part = "RECORDS" /\ RecordsNext
  /\ UNCHANGED <<part, menuVars, vars, alarmVars, zoneVars, serviceVars,
                 updaterVars, connectVars, voteVars>>

InUpdater ==
  /\ part = "UPDATER" /\ UpdaterNext
  /\ UNCHANGED <<part, menuVars, vars, alarmVars, zoneVars, serviceVars,
                 recordVars, connectVars, voteVars>>

InConnect ==
  /\ part = "CONNECT" /\ ConnectNext
  /\ UNCHANGED <<part, menuVars, vars, alarmVars, zoneVars, serviceVars,
                 recordVars, updaterVars, voteVars>>

InVote ==
  /\ part = "VOTE" /\ Choose
  /\ UNCHANGED <<part, menuVars, vars, alarmVars, zoneVars, serviceVars,
                 recordVars, updaterVars, connectVars>>

PartsNext ==
  \/ InMenu \/ InStore \/ InAlarm \/ InZone \/ InService \/ InRecords \/ InUpdater
  \/ InConnect \/ InVote

MCSpec ==
  /\ MCInit
  /\ [][PartsNext]_<<part, menuVars, vars, alarmVars, zoneVars, serviceVars, recordVars,
                     updaterVars, connectVars, voteVars>>
=============================================================================
