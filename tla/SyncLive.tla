------------------------------ MODULE SyncLive ------------------------------
(***************************************************************************)
(* Where the synchroniser ends up once its sources stop changing.  Until   *)
(* then they do as they like; from then on they report the same every      *)
(* epoch, every edge is captured, and an epoch that the loop has stepped   *)
(* onto a source stays within its gate of it.                              *)
(*                                                                         *)
(* Fairness: our epoch timer never stops and the foreground runs the       *)
(* synchroniser once per epoch (main.c, epoch task), so epochs never stop  *)
(* being processed.  It is stated of the parity of the epochs, which is    *)
(* the same as weak fairness of SettledEpoch, that being always possible.  *)
(***************************************************************************)
EXTENDS Sync

CONSTANTS Settled,    \* the reports the sources may settle on
          Phases      \* our epoch against a source it is not stepped onto

ASSUME SettledAssumption ==
  Settled \subseteq [Sources -> Report] /\ Phases \subseteq Int

VARIABLES settled,    \* {} while the sources change, then their one report
          tick        \* the parity of the epochs since

liveVars == <<status, requests, leads, settled, tick>>

LiveInit == Init /\ settled = {} /\ tick = 0

Unsettled == settled = {} /\ UpdateStatus /\ UNCHANGED <<leads, settled, tick>>

Settle ==
  /\ settled = {}
  /\ \E reports \in Settled : settled' = {reports}
  /\ UNCHANGED <<status, requests, leads, tick>>

\* The phase reported for a source: small once the loop tracks it.
PhaseOf(s, phase) ==
  IF s = status.route /\ status.loop.state = "TRACK" THEN 0 ELSE phase

SettledEpoch ==
  /\ \E reports \in settled, phase \in Phases :
       LET placed == [s \in Sources |->
                        [reports[s] EXCEPT !.phase = IF @ = 0 THEN 0 ELSE PhaseOf(s, phase)]]
       IN  \E refused \in Refusals(placed) :
             status' = SyncUpdate(status, requests, placed, TRUE, TRUE, refused)
  /\ requests' = NoRequests
  /\ tick' = 1 - tick
  /\ UNCHANGED <<settled, leads>>

LiveNext == Unsettled \/ Settle \/ SettledEpoch

EpochsGoOn == []<>(settled = {} \/ tick = 0) /\ []<>(settled = {} \/ tick = 1)

LiveSpec == LiveInit /\ [][LiveNext]_liveVars /\ EpochsGoOn

\* What a source could be steered by with a report, if at all.
BoundOf(s, rep) ==
  IF rep.timeValid /\ rep.edge THEN rep.unc * BoundScale[s] + BoundFloor[s]
  ELSE BoundNone

Steerable ==
  \E reports \in settled, s \in Profiles : BoundOf(s, reports[s]) < BoundNone

-----------------------------------------------------------------------------
\* Properties

\* Locked to one source, and the one it stays with is within the switching ratio of
\* every other that qualifies.
LockedWell ==
  /\ status.state = "LOCKED"
  /\ \A reports \in settled, s \in Profiles :
       BoundOf(s, reports[s]) < BoundNone /\ reports[s].unc <= QualifyLimit[s]
       => status.trk[status.source].bound <= SwitchRatio * BoundOf(s, reports[s])

\* With any source that can be steered by, the clock locks and stays locked to
\* one source: no loss of phase, no flapping between sources, and no wait that
\* never ends, whatever happened before (follow_sources, follow_loop, sync.c).
\* One thing can keep it from that: an epoch that stays, of every epoch, so near to
\* half a second off that the step is refused (compute_step, epoch_control.c).
SettlesLocked ==
  <>Steerable =>
    \/ <>[]LockedWell
    \/ <>[](status.state = "ACQUIRE" /\ Magnitude(status.phase) >= FarPhase)

\* With none, holdover runs out: the clock ends in free run, and never claims
\* to be synchronised again (update_holdover_bound, follow_sources, sync.c).
SettlesFree ==
  (settled # {} /\ ~Steerable)
    ~> [](status.state = "FREE_RUN" /\ ~IsSynchronised(status))

\* Wherever the sources settle, the clock ends up where it should, for good.
Settles == SettlesLocked /\ SettlesFree
=============================================================================
