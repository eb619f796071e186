----------------------------- MODULE SyncSource -----------------------------
(***************************************************************************)
(* One time source as the synchroniser sees it: the per-epoch report every *)
(* adapter fills in (sync_source.h), the verdict on it and the running     *)
(* record kept of it (sync_source.c).                                      *)
(*                                                                         *)
(* A UTC label is modelled by its error: the label minus the second the    *)
(* edge really marks.  Labels are counted on by UtcAdvance, one second an  *)
(* edge (Utc.tla: counting n edges at once or one at a time is the same),  *)
(* so a label follows on from the last exactly when its error is the same. *)
(***************************************************************************)
EXTENDS Integers

CONSTANTS QualifyEpochs, \* SYNC_QUALIFY_EPOCHS; the runs saturate there
          BoundNone      \* SYNC_BOUND_NONE: not a candidate

ASSUME QualifyAssumption == QualifyEpochs \in Nat \ {0}
ASSUME BoundAssumption == BoundNone \in Nat \ {0}

\* saturate()
Saturate(bound) == IF bound >= BoundNone THEN BoundNone - 1 ELSE bound

Checks == {"ABSENT", "NO_TIME", "NO_EDGE", "UNLABELLED",
           "INACCURATE", "INCONSISTENT", "GOOD"}

\* SyncSourceReport.  captured: the edge was also taken by IC1/IC2.  phase:
\* our epoch minus the source's second, by whichever edge it has.  past: our epoch
\* is half a second or more past that edge, so that the second nearest to it, which
\* the phase is of, is the next one.
Report == [present : BOOLEAN, timeValid : BOOLEAN, edge : BOOLEAN,
           captured : BOOLEAN, labelled : BOOLEAN, unc : Nat,
           utcErr : Int, phase : Int, past : BOOLEAN]

NoReport == [present |-> FALSE, timeValid |-> FALSE, edge |-> FALSE,
             captured |-> FALSE, labelled |-> FALSE, unc |-> 0,
             utcErr |-> 0, phase |-> 0, past |-> FALSE]

\* What the adapters can fill in: only an edge is labelled, captured or placed.
WellFormed(rep) ==
  /\ rep.timeValid => rep.present
  /\ (rep.captured \/ rep.labelled) => rep.edge
  /\ ~rep.edge => rep.phase = 0
  /\ rep.past => rep.edge /\ rep.phase < 0
  /\ ~rep.labelled => rep.utcErr = 0

\* SyncSourceTracker.
Tracker == [check : Checks, rep : Report,
            goodRun : 0 .. QualifyEpochs, usableRun : 0 .. QualifyEpochs,
            bound : 0 .. BoundNone - 1, phaseValid : BOOLEAN,
            hasLabel : BOOLEAN, lastErr : Int]

\* sync_source_reset()
NewTracker == [check |-> "ABSENT", rep |-> NoReport, goodRun |-> 0,
               usableRun |-> 0, bound |-> 0, phaseValid |-> FALSE,
               hasLabel |-> FALSE, lastErr |-> 0]

\* classify(): the first requirement not met.
Classify(rep, limit) ==
  CASE ~rep.present                        -> "ABSENT"
    [] rep.present /\ ~rep.timeValid       -> "NO_TIME"
    [] rep.timeValid /\ rep.present /\ ~rep.edge -> "NO_EDGE"
    [] rep.timeValid /\ rep.present /\ rep.edge /\ ~rep.labelled -> "UNLABELLED"
    [] OTHER -> IF limit # 0 /\ rep.unc > limit THEN "INACCURATE" ELSE "GOOD"

\* The labels are judged against each other across epochs that failed for
\* other reasons; an epoch without the source or its edge starts afresh.
LabelKept(t, rep) == t.hasLabel /\ rep.present /\ rep.edge

LabelJudged(rep) == rep.present /\ rep.timeValid /\ rep.edge /\ rep.labelled

\* label_follows_on()
LabelFollowsOn(t, rep) == LabelKept(t, rep) => t.lastErr = rep.utcErr

\* The verdict: a label that jumps makes a GOOD report INCONSISTENT, and
\* leaves any other verdict as it is.
Verdict(t, rep, limit) ==
  IF LabelJudged(rep) /\ ~LabelFollowsOn(t, rep) /\ Classify(rep, limit) = "GOOD"
  THEN "INCONSISTENT"
  ELSE Classify(rep, limit)

Longer(run) == IF run < QualifyEpochs THEN run + 1 ELSE run

\* sync_source_judge(), and what judge_sources() adds: the bound, and whether
\* our epoch could be placed (our own edge captured too: epochSeen).
Judge(t, rep, limit, scale, floor, epochSeen) ==
  LET check  == Verdict(t, rep, limit)
      usable == check \in {"GOOD", "INACCURATE"}
  IN  [check      |-> check,
       rep        |-> rep,
       goodRun    |-> IF check = "GOOD" THEN Longer(t.goodRun) ELSE 0,
       usableRun  |-> IF usable THEN Longer(t.usableRun) ELSE 0,
       bound      |-> IF usable THEN Saturate(rep.unc * scale + floor) ELSE 0,
       phaseValid |-> rep.edge /\ epochSeen,
       hasLabel   |-> LabelKept(t, rep) \/ LabelJudged(rep),
       lastErr    |-> IF LabelJudged(rep) THEN rep.utcErr
                      ELSE IF LabelKept(t, rep) THEN t.lastErr ELSE 0]
=============================================================================
