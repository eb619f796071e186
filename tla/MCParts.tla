------------------------------ MODULE MCParts ------------------------------
(***************************************************************************)
(* Parts that touch no variable of each other, side by side: a behaviour   *)
(* is of one of them.                                                      *)
(*                                                                         *)
(* SYNC, on the instance of MCSync, until its sources settle and after:    *)
(* GNSS alone, NTP alone, both, both with bounds too close to switch on,   *)
(* an NTP only fit to be a fallback, and nothing.  BUS: the two kinds of   *)
(* transfer that the drivers of the RTC and the light sensor ask for, a    *)
(* write and a write with a read back, and a bare address.  LABELS: every  *)
(* announcement, and every label on both sides of it, counted far enough   *)
(* to cross it from each.  DATES: the whole range of the calendar, 49711   *)
(* days.                                                                   *)
(***************************************************************************)
EXTENDS SyncLive, I2cBus, Utc

VARIABLE part

partVars == <<part, liveVars, busVars, utcVars, calendarVars>>

MCSources      == {"GNSS", "NTP"}
MCPreference   == [GNSS |-> 0, NTP |-> 1]
MCQualifyLimit == [GNSS |-> 2, NTP |-> 10]
MCHoldLimit    == [GNSS |-> 4, NTP |-> 14]
MCBoundScale   == [GNSS |-> 1, NTP |-> 1]
MCBoundFloor   == [GNSS |-> 1, NTP |-> 2]
MCHoldoverFreq == [GNSS |-> 6, NTP |-> 12]
MCGate         == [GNSS |-> 2, NTP |-> 4]
MCRejectLimit  == [GNSS |-> 2, NTP |-> 2]
MCPhases       == {0, 3, 9}

Fix(unc) ==
  [present |-> TRUE, timeValid |-> TRUE, edge |-> TRUE, captured |-> FALSE,
   labelled |-> TRUE, unc |-> unc, utcErr |-> 0, phase |-> 3, past |-> FALSE]

Each(gnss, ntp) == {[GNSS |-> g, NTP |-> n] : g \in gnss, n \in ntp}

MCReports == Each({NoReport, Fix(1)}, {NoReport, Fix(8), Fix(20)})
MCSettled == Each({NoReport, Fix(2)}, {NoReport, Fix(2), Fix(8), Fix(20)})
NoManual  == {}

MCTransfers   == {"set", "get", "probe"}
MCWriteLength == [t \in MCTransfers |-> CASE t = "set" -> 2 [] t = "get" -> 1 [] OTHER -> 0]
MCReadLength  == [t \in MCTransfers |-> IF t = "get" THEN 2 ELSE 0]

MCLeaps     == [change : {-1, 0, 1}, event : {5}]
MCStarts    == [utc : 0 .. 9, leap : BOOLEAN]
MCFirstDate == [year |-> 1970, month |-> 1, day |-> 1]
MCLastDate  == [year |-> 2106, month |-> 2, day |-> 7]

MCInit ==
  /\ LiveInit /\ BusInit /\ UtcInit /\ CalendarInit
  /\ part \in {"SYNC", "BUS", "LABELS", "DATES"}
  /\ part # "LABELS" => leap.change = 0 /\ start = [utc |-> 0, leap |-> FALSE]

Synchronise == part = "SYNC" /\ LiveNext /\ UNCHANGED <<part, busVars, utcVars, calendarVars>>
Carry       == part = "BUS" /\ BusNext /\ UNCHANGED <<part, liveVars, utcVars, calendarVars>>
Count       == part = "LABELS" /\ UtcNext /\ UNCHANGED <<part, liveVars, busVars, calendarVars>>
Walk        == part = "DATES" /\ TurnLeaf /\ UNCHANGED <<part, liveVars, busVars, utcVars>>

\* EpochsGoOn, and ServicesGoOn where the bus is the part looked at.
GoesOn ==
  /\ EpochsGoOn
  /\ []<>(part = "BUS" => round = 0) /\ []<>(part = "BUS" => round = 1)

MCSpec == MCInit /\ [][Synchronise \/ Carry \/ Count \/ Walk]_partVars /\ GoesOn
=============================================================================
