-------------------------------- MODULE Sync --------------------------------
(***************************************************************************)
(* The synchroniser, dspic_src/sync/sync.c: it chooses the time source,    *)
(* decides when the control loop may use it, and keeps the UTC label of    *)
(* our epoch.  sync_update() runs once per epoch in the foreground, so an  *)
(* epoch is one step: the operators below are its stages, each taking the  *)
(* status the stage before it left, in the order of the code.  What the    *)
(* menu and the command line ask for (sync_set_time, sync_resync) arrives  *)
(* between epochs and is applied at the next.                              *)
(*                                                                         *)
(* Bounds and phases share one unit.  Labels are errors against the true   *)
(* second (SyncSource).                                                    *)
(***************************************************************************)
EXTENDS SyncSource, EpochControl, FiniteSets, Sequences

CONSTANTS
  Sources,          \* SyncSourceId; those that steer are the Profiles
  NoSource,         \* SYNC_SOURCE_NONE
  Hold,             \* SYNC_CANDIDATE_HOLDOVER
  Preference,       \* table order: lower is preferred when bounds are equal
  QualifyLimit,     \* qualify_ns of each source
  HoldLimit,        \* hold_ns
  BoundScale,       \* bound_scale
  BoundFloor,       \* bound_floor_ns
  HoldoverFreq,     \* holdover_frequency_ns
  DriftPpt,         \* SYNC_HOLDOVER_DRIFT_PPT_PER_S
  SyncLimit,        \* SYNC_SYNCHRONISED_LIMIT_NS
  SwitchEpochs,     \* SYNC_SWITCH_EPOCHS
  SwitchRatio,      \* SYNC_SWITCH_RATIO
  AlignWait,        \* SYNC_ALIGN_WAIT_EPOCHS; epochs saturate there
  MaxAge,           \* UINT32_MAX, where the age of holdover saturates
  Reports,          \* what the sources' adapters may fill in, one of each
  ManualErrs        \* the errors of a time set by hand

ASSUME SourceAssumption ==
  /\ IsFiniteSet(Sources)
  /\ Profiles \subseteq Sources
  /\ NoSource \notin Sources
  /\ Hold \notin Sources \cup {NoSource}
  /\ Preference \in [Sources -> Nat]
  /\ \A s, t \in Sources : Preference[s] = Preference[t] => s = t

ASSUME LimitAssumption ==
  /\ QualifyLimit \in [Sources -> Nat] /\ HoldLimit \in [Sources -> Nat]
  /\ BoundScale \in [Sources -> Nat]   /\ BoundFloor \in [Sources -> Nat]
  /\ HoldoverFreq \in [Profiles -> Nat]
  /\ DriftPpt \in Nat /\ SyncLimit \in 0 .. BoundNone - 1 /\ MaxAge \in Nat
  /\ SwitchEpochs \in Nat \ {0} /\ SwitchRatio \in Nat \ {0}
  /\ AlignWait \in Nat

ASSUME InputAssumption ==
  /\ Reports \subseteq [Sources -> Report]
  /\ \A reports \in Reports, s \in Sources : WellFormed(reports[s])
  /\ ManualErrs \subseteq Int

VARIABLES status,     \* SyncStatus, with the loop and the capture route
          requests,   \* resync_pending and manual_time
          leads       \* history: for how many epochs each has been ahead (below)

vars == <<status, requests, leads>>

States  == {"FREE_RUN", "ACQUIRE", "LOCKED", "HOLDOVER"}
Reasons == {"QUALIFIED", "TRACKING", "PHASE_LOST", "SOURCE_LOST", "SOURCE_BACK",
            "ALTERNATIVE", "BETTER_SOURCE", "EXPIRED", "RESYNC"}
SourceOrNone == Sources \cup {NoSource}

\* SyncHoldover (bound_ns is the operator HoldoverBound)
Holdover == [ready : BOOLEAN, source : SourceOrNone, age : 0 .. MaxAge,
             base : 0 .. BoundNone - 1, freq : Nat]

\* SyncTime: the label of our epoch by its error, and who gave it last.
Time == [known : BOOLEAN, err : Int, source : SourceOrNone]

\* SyncTransition
Transition == [from : States, to : States, source : SourceOrNone, reason : Reasons]

\* SyncStatus.  epochs saturates at AlignWait; history holds the transitions
\* of the latest epoch; kind and usable are its SyncUpdate.  route is the input
\* pps_capture_route() last chose, paired that its previous edge was captured.
Status == [state : States, source : SourceOrNone, fallback : BOOLEAN,
           trk : [Sources -> Tracker], hold : Holdover, time : Time,
           challenger : SourceOrNone, run : 0 .. SwitchEpochs,
           epochs : 0 .. AlignWait, phaseValid : BOOLEAN, phase : Int,
           steered : BOOLEAN, aligned : BOOLEAN, resyncSlew : BOOLEAN,
           history : Seq(Transition), kind : UpdateKinds, usable : BOOLEAN,
           loop : Loop, route : Profiles, paired : BOOLEAN]

Requests == [resync : BOOLEAN, manual : BOOLEAN, err : Int]

-----------------------------------------------------------------------------
\* Helpers

IsTracking(st) == st.state \in {"ACQUIRE", "LOCKED"}

SourceGood(st, s) == s \in Sources /\ st.trk[s].check = "GOOD"

\* source_usable(): GOOD, or only INACCURATE if taken as a fallback.
SourceUsable(st, s) ==
  \/ SourceGood(st, s)
  \/ /\ s \in Sources /\ s = st.source /\ st.fallback
     /\ st.trk[s].check = "INACCURATE"

\* update_holdover_bound(): u0 + f.t + D.t^2/2
HoldoverBound(st) ==
  IF ~st.hold.ready THEN BoundNone
  ELSE LET t == st.hold.age
       IN  Saturate(st.hold.base + st.hold.freq * t + (DriftPpt * t * t) \div 2000)

\* sync_candidate_bound()
CandidateBound(st, c) ==
  IF c = Hold
  THEN IF st.hold.ready /\ HoldoverBound(st) <= SyncLimit
       THEN HoldoverBound(st) ELSE BoundNone
  ELSE IF c \notin Profiles THEN BoundNone
  ELSE IF c = st.source /\ IsTracking(st)
  THEN IF SourceUsable(st, c) THEN st.trk[c].bound ELSE BoundNone
  ELSE IF SourceGood(st, c) /\ st.trk[c].goodRun >= QualifyEpochs
  THEN st.trk[c].bound ELSE BoundNone

\* The least of a set of sources by bound, ties to the preferred one.
Least(set, bound) ==
  IF set = {} THEN NoSource
  ELSE CHOOSE s \in set : \A t \in set :
         \/ bound[s] < bound[t]
         \/ bound[s] = bound[t] /\ Preference[s] <= Preference[t]

\* best_source(except)
BestSource(st, except) ==
  LET bound == [s \in Sources |-> CandidateBound(st, s)]
  IN  Least({s \in Sources \ {except} : bound[s] < BoundNone}, bound)

\* best_fallback()
BestFallback(st) ==
  Least({s \in Profiles : st.trk[s].usableRun >= QualifyEpochs},
        [s \in Sources |-> st.trk[s].bound])

\* current_bound()
CurrentBound(st) ==
  CASE IsTracking(st)          -> CandidateBound(st, st.source)
    [] st.state = "HOLDOVER"   -> HoldoverBound(st)
    [] st.state = "FREE_RUN"   -> BoundNone

\* challenge(): whether the challenger beats the incumbent this epoch, the
\* run of epochs it has done so, and whether that is enough.
Beats(st, challenger, incumbent) ==
  /\ challenger # NoSource
  /\ CandidateBound(st, challenger) < BoundNone
  /\ CandidateBound(st, challenger) * SwitchRatio < incumbent

ChallengedInAll(st, challenger, incumbent) ==    \* mutant: not of epochs running
  IF ~Beats(st, challenger, incumbent) THEN st
  ELSE [st EXCEPT !.challenger = challenger,
                  !.run = IF challenger = st.challenger THEN st.run + 1 ELSE 1]

Challenged(st, challenger, incumbent) ==
  IF ~Beats(st, challenger, incumbent)
  THEN [st EXCEPT !.challenger = NoSource, !.run = 0]
  ELSE [st EXCEPT !.challenger = challenger,
                  !.run = IF challenger = st.challenger THEN st.run + 1 ELSE 1]

-----------------------------------------------------------------------------
\* State machine

EnterKeepsRun(st, state, source, reason) ==    \* mutant: the challenge goes on
  [st EXCEPT !.history  = Append(@, [from |-> st.state, to |-> state,
                                     source |-> source, reason |-> reason]),
             !.fallback = @ /\ source = st.source,
             !.state    = state,
             !.source   = source]

\* enter()
Enter(st, state, source, reason) ==
  [st EXCEPT !.history    = Append(@, [from |-> st.state, to |-> state,
                                       source |-> source, reason |-> reason]),
             !.fallback   = @ /\ source = st.source,
             !.state      = state,
             !.source     = source,
             !.challenger = NoSource,
             !.run        = 0]

\* pps_capture_route(), by a source's select hook
Route(st, source) ==
  IF source = st.route THEN st
  ELSE [st EXCEPT !.route = source, !.paired = FALSE]

\* acquire(): with the loop tracking and our epoch already within half the
\* gate of the source, it slews onto it; otherwise it acquires from scratch.
Slews(st, source) ==
  /\ st.state \in {"LOCKED", "HOLDOVER"} \/ st.resyncSlew
  /\ st.trk[source].phaseValid
  /\ st.loop.state = "TRACK"
  /\ Magnitude(st.trk[source].rep.phase) <= Gate[source] \div 2

Acquire(st, source, reason, fallback) ==
  [Enter([Route(st, source) EXCEPT
            !.loop = Restart(@, source, Slews(st, source))],
         "ACQUIRE", source, reason)
     EXCEPT !.fallback = fallback, !.steered = TRUE, !.resyncSlew = FALSE]

Placed(t) == t.check \in {"GOOD", "INACCURATE"} /\ t.phaseValid

\* align_to_time_of_day()
AlignToTimeOfDay(st) ==
  IF /\ st.state = "FREE_RUN" /\ ~st.aligned /\ ~st.steered
     /\ \E s \in Sources \ Profiles : Placed(st.trk[s])
  THEN [st EXCEPT !.aligned = TRUE, !.loop = FreeRunStep(@)]
  ELSE st

PendingForEver(st) ==    \* mutant: no limit to the wait
  /\ ~st.aligned /\ ~st.steered
  /\ \E s \in Sources \ Profiles :
       LET rep == st.trk[s].rep IN rep.present /\ rep.timeValid /\ ~rep.edge

\* time_of_day_pending()
TimeOfDayPending(st) ==
  /\ ~st.aligned /\ ~st.steered /\ st.epochs < AlignWait
  /\ \E s \in Sources \ Profiles :
       LET rep == st.trk[s].rep IN rep.present /\ rep.timeValid /\ ~rep.edge

\* follow_sources(), case by case
FollowFreeRun(st) ==
  LET best     == BestSource(st, NoSource)
      fallback == BestFallback(st)
  IN  IF TimeOfDayPending(st) THEN st
      ELSE IF best # NoSource THEN Acquire(st, best, "QUALIFIED", FALSE)
      ELSE IF fallback # NoSource
      THEN Acquire(st, fallback, "QUALIFIED", ~SourceGood(st, fallback))
      ELSE st

FollowTracking(st) ==
  LET best       == BestSource(st, st.source)
      challenged == Challenged(st, best, CurrentBound(st))
  IN  IF SourceUsable(st, st.source)
      THEN IF challenged.run >= SwitchEpochs
           THEN Acquire(challenged, best, "BETTER_SOURCE", FALSE) ELSE challenged
      ELSE IF CandidateBound(st, Hold) # BoundNone
      THEN Enter(st, "HOLDOVER", st.hold.source, "SOURCE_LOST")
      ELSE IF best # NoSource THEN Acquire(st, best, "ALTERNATIVE", FALSE)
      ELSE Enter(st, "FREE_RUN", NoSource, "SOURCE_LOST")

FollowHolding(st) ==
  LET best       == BestSource(st, NoSource)
      bound      == HoldoverBound(st)
      selected   == st.trk[st.source]
      challenged == Challenged(st, best, bound)
  IN  IF SourceUsable(st, st.source) /\ selected.rep.captured /\ selected.bound <= bound
      THEN Enter(st, "LOCKED", st.source, "SOURCE_BACK")
      ELSE IF best = st.source /\ ~selected.rep.captured
      THEN Acquire(st, best, "SOURCE_BACK", FALSE)
      ELSE IF challenged.run >= SwitchEpochs
      THEN Acquire(challenged, best, "ALTERNATIVE", FALSE)
      ELSE IF bound > SyncLimit
      THEN Enter(challenged, "FREE_RUN", NoSource, "EXPIRED")
      ELSE challenged

FollowSources(st) ==
  CASE st.state = "FREE_RUN" -> FollowFreeRun(st)
    [] IsTracking(st)        -> FollowTracking(st)
    [] st.state = "HOLDOVER" -> FollowHolding(st)

\* follow_loop(): locked once the loop has measured in TRACK after its step.
FollowLoop(st, entered) ==
  IF /\ st.state = "ACQUIRE" /\ st.loop.state = "TRACK"
     /\ ~entered /\ st.kind = "MEASURED"
  THEN Enter(st, "LOCKED", st.source, "TRACKING")
  ELSE IF st.state = "LOCKED" /\ st.loop.state # "TRACK"
  THEN Enter(st, "ACQUIRE", st.source, "PHASE_LOST")
  ELSE st

HoldsWithoutPhase(st) ==    \* mutant: the error measured last is left out
  IF st.state = "LOCKED" /\ st.kind = "MEASURED"
  THEN [st EXCEPT !.hold =
         [ready |-> TRUE, source |-> st.source, age |-> 0,
          base |-> st.trk[st.source].bound, freq |-> HoldoverFreq[st.source]]]
  ELSE IF st.hold.ready /\ st.hold.age < MaxAge
  THEN [st EXCEPT !.hold.age = @ + 1]
  ELSE st

\* follow_holdover(): restarted by each epoch steered while locked, aged by
\* any other.
FollowHoldover(st) ==
  IF st.state = "LOCKED" /\ st.kind = "MEASURED"
  THEN [st EXCEPT !.hold =
         [ready |-> TRUE, source |-> st.source, age |-> 0,
          base |-> Saturate(st.trk[st.source].bound + Magnitude(st.phase)),
          freq |-> HoldoverFreq[st.source]]]
  ELSE IF st.hold.ready /\ st.hold.age < MaxAge
  THEN [st EXCEPT !.hold.age = @ + 1]
  ELSE st

-----------------------------------------------------------------------------
\* Time of day

LabelUnmoved(t) == t.rep.utcErr - IF t.rep.past THEN 1 ELSE 0    \* mutant: always the edge's

\* label_epoch(): the label of the edge, or the next one if our epoch is nearer that;
\* but without our own edge it is that of the edge, a second early if ours is past it.
LabelEpoch(t) == t.rep.utcErr - IF t.rep.past /\ ~t.phaseValid THEN 1 ELSE 0

\* seed_time(): before any source is in use, from the best labelled one.
Seeder(st) ==
  Least({s \in Sources : /\ st.trk[s].check \in {"GOOD", "INACCURATE"}
                         /\ st.trk[s].rep.labelled},
        [s \in Sources |-> st.trk[s].bound])

\* keep_time(): the label of the source in use, or the last one counted on.
KeepTime(st) ==
  LET giver == IF st.usable THEN st.source
               ELSE IF st.time.known THEN NoSource
               ELSE Seeder(st)
  IN  IF giver = NoSource THEN st
      ELSE [st EXCEPT !.time = [known |-> TRUE, err |-> LabelEpoch(st.trk[giver]),
                                source |-> giver]]

-----------------------------------------------------------------------------
\* sync_update()

ResyncKeepsRecords(st, resync) ==    \* mutant: the sources' records are kept
  IF ~resync THEN st
  ELSE Enter([st EXCEPT !.resyncSlew = st.state \in {"LOCKED", "HOLDOVER"},
                        !.hold.ready = FALSE],
             "FREE_RUN", NoSource, "RESYNC")

\* apply_resync(): before the sources are judged.
ApplyResync(st, resync) ==
  IF ~resync THEN st
  ELSE Enter([st EXCEPT !.resyncSlew = st.state \in {"LOCKED", "HOLDOVER"},
                        !.trk        = [s \in Sources |-> NewTracker],
                        !.hold.ready = FALSE],
             "FREE_RUN", NoSource, "RESYNC")

\* judge_sources().  Only the edge routed to the capture pair is captured.
JudgeSources(st, reports, epochSeen, edgeTaken) ==
  [st EXCEPT !.trk = [s \in Sources |->
     Judge(st.trk[s],
           [reports[s] EXCEPT !.captured = /\ reports[s].edge
                                           /\ s = st.route /\ edgeTaken],
           IF s = st.source THEN HoldLimit[s] ELSE QualifyLimit[s],
           BoundScale[s], BoundFloor[s], epochSeen)]]

ManualOnlyFirst(st, manual, err) ==    \* mutant: not once the time is known
  IF ~manual \/ st.state # "FREE_RUN" \/ st.steered \/ st.time.known THEN st
  ELSE [st EXCEPT !.loop    = FreeRunStep(@),
                  !.time    = [known |-> TRUE, err |-> err, source |-> NoSource],
                  !.aligned = TRUE]

\* apply_manual_time(): only free running and never steered.
ApplyManualTime(st, manual, err) ==
  IF ~manual \/ st.state # "FREE_RUN" \/ st.steered THEN st
  ELSE [st EXCEPT !.loop    = FreeRunStep(@),
                  !.time    = [known |-> TRUE, err |-> err, source |-> NoSource],
                  !.aligned = TRUE]

\* A fallback that has met its accuracy limit is a source like any other.
PromoteFallback(st) == [st EXCEPT !.fallback = @ /\ ~SourceGood(st, st.source)]

\* The snapshot's captures, taken by the route in force before the epoch; and whether
\* the step for them would be refused, which the estimate decides.
CaptureOf(before, judged, epochSeen, refused) ==
  LET rep == judged.trk[before.route].rep
  IN  [phaseValid |-> rep.captured /\ epochSeen,
       phase      |-> IF rep.captured /\ epochSeen THEN rep.phase ELSE 0,
       period     |-> rep.captured /\ before.paired,
       refused    |-> refused]

\* The loop's turn: whether it may use the selected source, and what it did.
RunLoop(st, cap) ==
  LET usable  == /\ IsTracking(st) /\ SourceUsable(st, st.source)
                 /\ st.trk[st.source].rep.captured
      outcome == LoopUpdate(st.loop, usable, cap)
  IN  FollowLoop([st EXCEPT !.loop       = outcome.loop,
                            !.kind       = outcome.kind,
                            !.usable     = usable,
                            !.phaseValid = cap.phaseValid,
                            !.phase      = cap.phase],
                 outcome.entered)

\* What every epoch ends with: the count, and the capture's edge to pair with.
EndEpoch(st, before, captured) ==
  [st EXCEPT !.epochs = IF @ < AlignWait THEN @ + 1 ELSE @,
             !.paired = captured /\ st.route = before.route]

SyncUpdate(st, req, reports, epochSeen, edgeTaken, refused) ==
  LET fresh    == ApplyResync([st EXCEPT !.history = <<>>], req.resync)
      judged   == JudgeSources(fresh, reports, epochSeen, edgeTaken)
      timed    == ApplyManualTime(judged, req.manual, req.err)
      aligned  == AlignToTimeOfDay(PromoteFallback(timed))
      followed == FollowSources(aligned)
      steered  == RunLoop(followed, CaptureOf(st, judged, epochSeen, refused))
      kept     == KeepTime(FollowHoldover(steered))
  IN  EndEpoch(kept, st, judged.trk[st.route].rep.captured)

-----------------------------------------------------------------------------
\* Interface

\* sync_uncertainty(): the bound it gives, BoundNone when it gives none.
Uncertainty(st) ==
  IF ~st.time.known THEN BoundNone
  ELSE IF st.state = "HOLDOVER" /\ st.hold.ready THEN HoldoverBound(st)
  ELSE IF IsTracking(st) /\ SourceUsable(st, st.source) /\ st.phaseValid
  THEN Saturate(st.trk[st.source].bound + Magnitude(st.phase))
  ELSE IF st.state = "FREE_RUN" /\ st.time.source \in Sources \ Profiles
          /\ SourceGood(st, st.time.source)
  THEN st.trk[st.time.source].bound
  ELSE BoundNone

\* sync_is_synchronised()
IsSynchronised(st) ==
  st.state \in {"LOCKED", "HOLDOVER"} /\ CurrentBound(st) <= SyncLimit

\* sync_candidate_rank(): a candidate's place from 1, 0 if it is not one.
Candidates == Sources \cup {Hold}

BeforeOrEqual(st, c, d) ==    \* mutant: equal bounds are not told apart
  CandidateBound(st, c) <= CandidateBound(st, d)

Before(st, c, d) ==
  \/ CandidateBound(st, c) < CandidateBound(st, d)
  \/ /\ CandidateBound(st, c) = CandidateBound(st, d)
     /\ d = Hold \/ (c # Hold /\ Preference[c] < Preference[d])

Rank(st, c) ==
  IF CandidateBound(st, c) = BoundNone THEN 0
  ELSE 1 + Cardinality({d \in Candidates \ {c} : Before(st, d, c)})

\* rank_second(): the best candidate other than the one in use.
InUse(st) == CASE st.state = "HOLDOVER" -> Hold
               [] IsTracking(st)        -> st.source
               [] st.state = "FREE_RUN" -> NoSource

Second(st) ==
  LET others == {c \in Candidates \ {InUse(st)} : CandidateBound(st, c) < BoundNone}
  IN  IF others = {} THEN NoSource
      ELSE CHOOSE c \in others : \A d \in others \ {c} : Before(st, c, d)

NewStatus(route) ==
  [state |-> "FREE_RUN", source |-> NoSource, fallback |-> FALSE,
   trk |-> [s \in Sources |-> NewTracker],
   hold |-> [ready |-> FALSE, source |-> NoSource, age |-> 0, base |-> 0, freq |-> 0],
   time |-> [known |-> FALSE, err |-> 0, source |-> NoSource],
   challenger |-> NoSource, run |-> 0, epochs |-> 0,
   phaseValid |-> FALSE, phase |-> 0, steered |-> FALSE, aligned |-> FALSE,
   resyncSlew |-> FALSE, history |-> <<>>, kind |-> "FREE_RUN", usable |-> FALSE,
   loop |-> NewLoop, route |-> route, paired |-> FALSE]

NoRequests == [resync |-> FALSE, manual |-> FALSE, err |-> 0]

\* sync_init(); the capture starts on the first profile's input.
Init ==
  /\ status = NewStatus(FirstProfile) /\ requests = NoRequests
  /\ leads = [s \in Profiles |-> 0]

\* The source in use could be used on: its own verdict of this epoch allows it.
StillUsable(st, next) ==
  \/ SourceGood(next, st.source)
  \/ st.fallback /\ next.trk[st.source].check = "INACCURATE"

\* By the bounds of this epoch a qualified source is ahead, by the switching ratio, of
\* what the last one left in use: the source, or holdover.
Outdoes(st, next, s) ==
  LET inUse == IF IsTracking(st) THEN next.trk[st.source].bound ELSE HoldoverBound(st)
  IN  /\ st.state # "FREE_RUN" /\ s # st.source
      /\ SourceGood(next, s) /\ next.trk[s].goodRun >= QualifyEpochs
      /\ next.trk[s].bound * SwitchRatio < inUse

\* For how many epochs running each has been ahead of what is in use.
Led(st, next, led) ==
  [s \in Profiles |->
     IF /\ Outdoes(st, next, s)
        /\ next.source = st.source /\ IsTracking(next) = IsTracking(st)
     THEN IF led[s] < SwitchEpochs THEN led[s] + 1 ELSE led[s]
     ELSE 0]

\* Whether the step may be refused, by the phase of the routed source.
Refusals(reports) ==
  IF Magnitude(reports[status.route].phase) >= FarPhase THEN BOOLEAN ELSE {FALSE}

\* One epoch: sync_update() with what the adapters report.
UpdateStatus ==
  /\ \E reports \in Reports, epochSeen, edgeTaken \in BOOLEAN :
     \E refused \in Refusals(reports) :
       status' = SyncUpdate(status, requests, reports, epochSeen, edgeTaken, refused)
  /\ requests' = NoRequests

Epoch == UpdateStatus /\ leads' = Led(status, status', leads)

\* sync_set_time(), from the menu
SetTime ==
  /\ status.state = "FREE_RUN" /\ ~status.steered
  /\ \E err \in ManualErrs :
       requests' = [requests EXCEPT !.manual = TRUE, !.err = err]
  /\ UNCHANGED <<status, leads>>

\* sync_resync(), from the command line or the ESP
Resync == requests' = [requests EXCEPT !.resync = TRUE] /\ UNCHANGED <<status, leads>>

Next == Epoch \/ SetTime \/ Resync

Spec == Init /\ [][Next]_vars

-----------------------------------------------------------------------------
\* What the next epoch reads of the status: the rest (the verdicts, bounds and
\* phases of this epoch, the history) is overwritten before it is read.  A run
\* whose VIEW is this and what its invariants read loses nothing.
Live(st) ==
  <<st.state, st.source, st.fallback, st.challenger, st.run, st.epochs,
    st.steered, st.aligned, st.resyncSlew, st.loop, st.route, st.paired, st.time,
    IF st.hold.ready THEN st.hold ELSE {},
    [s \in Sources |-> LET t == st.trk[s]
                       IN  <<t.goodRun, t.usableRun, t.hasLabel, t.lastErr>>]>>

-----------------------------------------------------------------------------
\* Properties

\* The status keeps the ranges of its fields (SyncStatus, sync.h).
TypeOK ==
  /\ status \in Status /\ requests \in Requests
  /\ leads \in [Profiles -> 0 .. SwitchEpochs]

\* How the state, the selected source, the capture route, the loop's profile
\* and holdover hang together: true at every stage of an epoch.
Coherent(st) ==
  /\ st.state = "FREE_RUN" <=> st.source = NoSource
  /\ st.source \in Profiles \cup {NoSource}
  /\ st.state # "FREE_RUN" => st.steered
  /\ st.steered => st.route = st.loop.profile
  /\ IsTracking(st) => st.route = st.source
  /\ ~st.steered => st.loop.state = "ACQUIRE"
  /\ st.hold.ready => st.steered /\ st.hold.source \in Profiles
  /\ st.state \in {"LOCKED", "HOLDOVER"}
     => st.hold.ready /\ st.hold.source = st.source
  /\ st.run < SwitchEpochs

\* ... and what holds besides once the epoch has been processed.
Processed(st) ==
  /\ ~st.loop.freeStep
  /\ st.loop.state = "STEP" => st.state = "ACQUIRE"
  /\ st.state = "LOCKED" => st.loop.state = "TRACK"
  /\ IsTracking(st) => SourceUsable(st, st.source)

\* A challenge never counts an epoch in which the challenger was not ahead.
ChallengeLed ==
  status.run > 0 => /\ status.state # "FREE_RUN" /\ status.challenger \in Profiles
                    /\ status.run <= leads[status.challenger]

\* The inductive invariant (SyncProofs): the properties below follow from it.
SyncInv == TypeOK /\ Coherent(status) /\ Processed(status) /\ ChallengeLed

\* The epoch is only ever stepped while acquiring, a step never outlives the
\* selection that asked for it, and a free-run step never waits for a later
\* epoch, when a source may be steering (epoch_control.c).
StepOnlyWhenAcquiring ==
  /\ status.loop.state = "STEP" => status.state = "ACQUIRE"
  /\ ~status.loop.freeStep

\* What the reports show is one ranking: the candidates are placed 1, 2, ...
\* with none left out, and the runner-up is placed next to the one in use
\* (sync_candidate_rank and rank_second, sync.c).
RankingAgrees ==
  LET ranks == {Rank(status, c) : c \in Candidates} \ {0}
  IN  /\ ranks = 1 .. Cardinality({c \in Candidates : Rank(status, c) # 0})
      /\ Second(status) # NoSource => Rank(status, Second(status)) \in 1 .. 2

\* What is in use and could be used on is only ever left, but on request, for a source
\* that has been ahead of it for SwitchEpochs epochs, this one included: whichever path
\* the move takes and whatever it is called, no challenge goes on from before a loss, a
\* lock or another incumbent (challenge, enter and follow_sources; the rule is sync.h's).
LeavesOnlyForBetter ==
  /\ ~requests.resync /\ status.state # "FREE_RUN"
  /\ status'.source \notin {status.source, NoSource}
  /\ IsTracking(status) => StillUsable(status, status')
  => /\ Outdoes(status, status', status'.source)
     /\ leads[status'.source] + 1 >= SwitchEpochs

\* The clock that was LOCKED leaves its source only after that source failed,
\* lost its phase or was beaten, or on request; a locked clock is never put
\* into free run while holdover is still good enough to be a candidate.
NoNeedlessFreeRun ==
  /\ status.state = "LOCKED" /\ status'.state = "FREE_RUN" /\ ~requests.resync
  => status'.hold.ready /\ HoldoverBound(status) > SyncLimit

\* No source is left without a cause (follow_sources, sync.c).
LeavesForCause == [][LeavesOnlyForBetter /\ NoNeedlessFreeRun]_vars

\* At start-up the second of a time-of-day source that has one is used before
\* any source is taken up to steer by, even in the very epoch both are ready
\* (align_to_time_of_day before follow_sources, sync_update, sync.c).
AlignedBeforeSteering ==
  /\ ~status.steered /\ status'.steered
  /\ \E s \in Sources \ Profiles : Placed(status'.trk[s])
  => status'.aligned

\* Waiting for the RTC's second, or for a better source, never holds the clock
\* up for good: past the wait, a qualified source ends free run in that epoch,
\* whatever was aligned, set by hand or asked for before (follow_sources).
NotHeldUp ==
  /\ status.state = "FREE_RUN" /\ status.epochs = AlignWait
  /\ status' # status
  /\ \E s \in Profiles : status'.trk[s].goodRun >= QualifyEpochs
  => status'.state # "FREE_RUN"

\* Start-up waits for the second it is offered, and not for ever (sync_update).
StartsRight == [][AlignedBeforeSteering /\ NotHeldUp]_vars

\* A time set by hand gives way to any source that has steered: from then on
\* only a source in use changes the count (apply_manual_time, sync.c).
ManualGivesWay ==
  /\ status.steered /\ status.time.known /\ ~status'.usable
  => status'.time = status.time

\* A time set by hand is not lost either: unless a source labels that very
\* epoch, it is what the clock counts from (sync_set_time, sync.h).
ManualIsTaken ==
  /\ requests.manual /\ ~requests'.manual /\ ~status.steered /\ ~status'.usable
  => status'.time = [known |-> TRUE, err |-> requests.err, source |-> NoSource]

\* A time set by hand is taken, and gives way (apply_manual_time, sync.c).
ManualTime == [][ManualIsTaken /\ ManualGivesWay]_vars

\* A resync starts over: no source and no holdover is a candidate until it has
\* qualified afresh, so nothing learnt before it can bring the clock straight
\* back to what it was asked to leave (apply_resync, before judge_sources).
ResyncStartsOver ==
  [][requests.resync /\ ~requests'.resync =>
       /\ status'.state = "FREE_RUN" /\ ~status'.usable
       /\ \A c \in Candidates : CandidateBound(status', c) = BoundNone]_vars

\* With a good source the time shown only moves to a label that its source has
\* given twice running, or that starts a new run of labels: a label that does
\* not follow on from the source's last one is not believed (sync_source.c:
\* "the source's time has jumped: this epoch is not trusted").  It is out by no more
\* than that, except that with our own edge missed it may be a second early (label_epoch).
\* A fallback is outside it: a jump makes only a GOOD verdict INCONSISTENT, so the label
\* of an INACCURATE one is shown as it comes (sync_source_judge).
ShownLabelFollows ==
  [][/\ status.time.known /\ status'.usable
     /\ SourceGood(status', status'.source)
     /\ status'.time.err # status.time.err
     => LET t == status.trk[status'.source]
        IN  \/ ~t.hasLabel \/ t.lastErr = status'.time.err
            \/ /\ t.lastErr - 1 = status'.time.err
               /\ ~status'.phaseValid /\ status'.trk[status'.source].rep.past]_vars
=============================================================================
