---------------------------- MODULE MCSyncBound ----------------------------
(***************************************************************************)
(* A small instance of SyncBound: GNSS good to 1 or, while selected, 2;    *)
(* NTP good to 3.                                                          *)
(***************************************************************************)
EXTENDS SyncBound

MCSources      == {"GNSS", "NTP"}
MCPreference   == [GNSS |-> 0, NTP |-> 1]
MCQualifyLimit == [GNSS |-> 1, NTP |-> 3]
MCHoldLimit    == [GNSS |-> 2, NTP |-> 3]
WideHoldLimit  == [GNSS |-> 9, NTP |-> 3]
MCBoundScale   == [GNSS |-> 1, NTP |-> 1]
MCBoundFloor   == [GNSS |-> 0, NTP |-> 0]
MCHoldoverFreq == [GNSS |-> 1, NTP |-> 1]
MCGate         == [GNSS |-> 2, NTP |-> 4]
MCRejectLimit  == [GNSS |-> 2, NTP |-> 2]

Fix(unc) ==
  [present |-> TRUE, timeValid |-> TRUE, edge |-> TRUE, captured |-> FALSE,
   labelled |-> TRUE, unc |-> unc, utcErr |-> 0, phase |-> 0, past |-> FALSE]

MCReports == {[GNSS |-> g, NTP |-> n] : g \in {NoReport, Fix(1), Fix(2)},
                                        n \in {NoReport, Fix(3)}}
\* A GNSS alone, whose own uncertainty may jump while it is in use.
WideReports == {[GNSS |-> g, NTP |-> NoReport] : g \in {NoReport, Fix(1), Fix(9)}}
NoManual == {}

\* What the next epoch and the invariants read.
BoundView == <<Live(status), Uncertainty(status), err, target, aim, moved>>
=============================================================================
