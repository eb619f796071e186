------------------------------- MODULE MCSync -------------------------------
(***************************************************************************)
(* A small instance of Sync for TLC.  The unit of bounds and phases is     *)
(* chosen so that every comparison the code makes has both outcomes within *)
(* a few epochs: GNSS passes both its limits; the holdover bound of GNSS   *)
(* grows 2, 8, 16, 24, 34, so NTP (10) needs three epochs to beat it       *)
(* twofold and it expires in four; a phase of 3 is outside the GNSS gate   *)
(* and inside the NTP one, but too far to slew onto.                       *)
(***************************************************************************)
EXTENDS Sync

MCSources      == {"GNSS", "NTP", "RTC"}
MCProfiles     == {"GNSS", "NTP"}
MCPreference   == [GNSS |-> 0, NTP |-> 1, RTC |-> 2]
MCQualifyLimit == [GNSS |-> 2, NTP |-> 10, RTC |-> 20]
MCHoldLimit    == [GNSS |-> 4, NTP |-> 14, RTC |-> 20]
MCBoundScale   == [GNSS |-> 1, NTP |-> 1, RTC |-> 1]
MCBoundFloor   == [GNSS |-> 1, NTP |-> 2, RTC |-> 0]
MCHoldoverFreq == [GNSS |-> 6, NTP |-> 12]
MCGate         == [GNSS |-> 2, NTP |-> 4]
MCRejectLimit  == [GNSS |-> 2, NTP |-> 2]

\* A report with an edge, the same half a second late, and one that fails each of the earlier checks.
Fix(unc, phase, err) ==
  [present |-> TRUE, timeValid |-> TRUE, edge |-> TRUE, captured |-> FALSE,
   labelled |-> TRUE, unc |-> unc, utcErr |-> err, phase |-> phase, past |-> FALSE]
Late(rep) == [rep EXCEPT !.past = TRUE]
Edgeless(unc) ==
  [NoReport EXCEPT !.present = TRUE, !.timeValid = TRUE, !.unc = unc]

\* Every combination of one report of each source.
Each(gnss, ntp, rtc) ==
  {[GNSS |-> g, NTP |-> n, RTC |-> r] : g \in gnss, n \in ntp, r \in rtc}

SelectionReports ==
  Each({NoReport, Fix(1, 0, 0), Fix(3, 0, 0), Fix(6, 0, 0), Fix(1, 3, 0)},
       {NoReport, Fix(2, 0, 0), Fix(8, 3, 0), Fix(20, 0, 0)},
       {NoReport})

\* Start-up: a GNSS whose label may be a second out, an NTP far off and only fit
\* to be a fallback, and an RTC being searched for its second (Edgeless) or found
\* but too old to bound the time.  Alone, the fallback's label may be out too, and our
\* epoch nearer the second after the GNSS edge, with so far to step that it is refused.
StartReports ==
  Each({NoReport, Fix(1, 0, 0), Fix(1, 0, 1)}, {NoReport, Fix(20, 3, 0)},
       {NoReport, Edgeless(5), Fix(25, 0, 0)})
  \cup Each({NoReport}, {Fix(20, 3, 1)}, {NoReport})
  \cup Each({Late(Fix(1, -9, 0))}, {NoReport}, {NoReport})

NoManual == {}
SomeManual == {1}

\* What the next step and the properties read.
SyncView == <<Live(status), requests, leads, Processed(status), IsSynchronised(status),
              [c \in Candidates |-> CandidateBound(status, c)]>>
=============================================================================
