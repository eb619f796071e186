---------------------------- MODULE EpochControl ----------------------------
(***************************************************************************)
(* The control loop of dspic_src/timing/epoch_control.c: which of its      *)
(* three states it is in, when it steps the epoch and when it has lost the *)
(* reference.  The fixed-point arithmetic (Kalman filter, PI servo,        *)
(* fractional period) is data: what is kept of it is whether there is a    *)
(* frequency estimate to step with, and whether a phase is inside the gate *)
(* of the profile in force.  A profile is named by the source it is for.   *)
(***************************************************************************)
EXTENDS Integers

CONSTANTS Profiles,       \* the profiles: one per source that steers
          FirstProfile,   \* epoch_profile_precise, the one at start
          Learns,         \* those that teach the Kalman filter
          Gate,           \* gate_ticks of each profile
          RejectLimit,    \* reject_limit of each profile
          AcquireDelay,   \* EPOCH_ACQUIRE_DELAY
          SeedPeriods,    \* EPOCH_SEED_PERIODS
          FarPhase        \* the least phase that a step may not be made for (below)

ASSUME LoopAssumption ==
  /\ FirstProfile \in Profiles
  /\ Learns \subseteq Profiles
  /\ Gate \in [Profiles -> Nat]
  /\ RejectLimit \in [Profiles -> Nat \ {0}]
  /\ AcquireDelay \in Nat \ {0}
  /\ SeedPeriods \in Nat \ {0}
  /\ FarPhase \in Nat

LoopStates == {"ACQUIRE", "STEP", "TRACK"}

\* EPOCH_UPDATE_*: what the loop did with one epoch.
UpdateKinds == {"FREE_RUN", "INCOMPLETE", "MEASURED", "HOLDOVER"}

\* The capture of one epoch (PpsCaptureSample): our edge against the routed
\* reference edge, whether that edge ends a whole reference period, and whether
\* compute_step() would refuse the step that the phase calls for: of an estimated
\* second that is off nominal, one to just short of half a second is not between half
\* a nominal second and one and a half.
Capture == [phaseValid : BOOLEAN, phase : Int, period : BOOLEAN, refused : BOOLEAN]

\* EpochControl.  refEpochs saturates at AcquireDelay, the only value it is
\* compared with; seeded is pps_kf.initialized; seedRun counts the consecutive
\* captures the seed is averaged over; freeStep is free_run_step # 0.
Loop == [state : LoopStates, profile : Profiles,
         refEpochs : 0 .. AcquireDelay, rejects : Nat,
         seeded : BOOLEAN, seedRun : Nat,
         discard : BOOLEAN, freeStep : BOOLEAN]

\* epoch_control_init()
NewLoop == [state |-> "ACQUIRE", profile |-> FirstProfile, refEpochs |-> 0,
            rejects |-> 0, seeded |-> FALSE, seedRun |-> 0,
            discard |-> FALSE, freeStep |-> FALSE]

\* The result of epoch_control_update(): the loop, what it did, whether it
\* entered TRACK in this epoch (last_resync = epoch) and whether it loaded a
\* free-run step.
Outcome(l, kind, entered, moved) ==
  [loop |-> l, kind |-> kind, entered |-> entered, moved |-> moved]

Magnitude(x) == IF x < 0 THEN -x ELSE x

\* epoch_control_restart(): a new profile; from TRACK, a slew keeps the state.
Restart(l, profile, slew) ==
  [l EXCEPT !.profile   = profile,
            !.refEpochs = 0,
            !.rejects   = 0,
            !.seedRun   = 0,
            !.discard   = TRUE,
            !.state     = IF slew /\ @ = "TRACK" THEN "TRACK" ELSE "ACQUIRE"]

\* epoch_control_free_run_step()
FreeRunStep(l) == [l EXCEPT !.freeStep = TRUE]

\* update_kalman(), and the discard_period that an unusable epoch sets: only a
\* whole period between usable edges is learnt.
Learn(l, usable, cap) ==
  [l EXCEPT !.seeded  = @ \/ (/\ cap.period /\ usable
                              /\ ~l.discard /\ l.profile \in Learns),
            !.discard = ~usable \/ (@ /\ ~cap.period)]

\* seed_frequency(): one more consecutive capture of the reference.  A profile
\* that learns, or a filter that has an estimate, needs none.
HasEstimate(l) == l.profile \in Learns \/ l.seeded

SeedRestarts(l, cap) ==    \* mutant: every capture starts a new run
  IF HasEstimate(l) THEN l
  ELSE [l EXCEPT !.seedRun = 1, !.seeded = SeedPeriods = 0]

Seed(l, cap) ==
  LET run == IF cap.period /\ l.seedRun > 0 THEN l.seedRun + 1 ELSE 1
  IN  IF HasEstimate(l) THEN l
      ELSE [l EXCEPT !.seedRun = run, !.seeded = run = SeedPeriods + 1]

\* use_reference() in ACQUIRE, and acquire(): the step is asked for once the
\* reference has been followed for AcquireDelay epochs, in each until one is made.
AcquirePhase(l, cap) ==
  LET seeded == Seed(l, cap)
  IN  IF ~cap.phaseValid
      THEN Outcome([l EXCEPT !.seedRun = 0], "INCOMPLETE", FALSE, FALSE)
      ELSE IF ~HasEstimate(seeded) \/ l.refEpochs < AcquireDelay \/ cap.refused
      THEN Outcome(seeded, "MEASURED", FALSE, FALSE)
      ELSE Outcome([seeded EXCEPT !.state = "STEP"], "MEASURED", FALSE, FALSE)

\* use_reference() in TRACK: track() and servo_gate_check().
TrackPhase(l, cap) ==
  IF ~cap.phaseValid THEN Outcome(l, "HOLDOVER", FALSE, FALSE)
  ELSE IF Magnitude(cap.phase) <= Gate[l.profile]
  THEN Outcome([l EXCEPT !.rejects = 0], "MEASURED", FALSE, FALSE)
  ELSE IF l.rejects + 1 < RejectLimit[l.profile]
  THEN Outcome([l EXCEPT !.rejects = @ + 1], "HOLDOVER", FALSE, FALSE)
  ELSE Outcome([l EXCEPT !.rejects = 0, !.state = "ACQUIRE"],
               "MEASURED", FALSE, FALSE)

\* follow_step() and enter_track(): done whatever the epoch's captures.
EnterTrack(l, kind) ==
  Outcome([l EXCEPT !.state = "TRACK", !.rejects = 0], kind, TRUE, FALSE)

UseKeepsFreeStep(l, cap) ==    \* mutant: a free-run step is kept for later
  LET counted == [l EXCEPT !.refEpochs = IF @ < AcquireDelay THEN @ + 1 ELSE @]
  IN  CASE l.state = "ACQUIRE" -> AcquirePhase(counted, cap)
        [] l.state = "STEP"    ->
             EnterTrack(counted, IF cap.phaseValid THEN "MEASURED" ELSE "INCOMPLETE")
        [] l.state = "TRACK"   -> TrackPhase(counted, cap)

UseReference(l, cap) ==
  LET counted == [l EXCEPT !.refEpochs = IF @ < AcquireDelay THEN @ + 1 ELSE @,
                           !.freeStep = FALSE]
  IN  CASE l.state = "ACQUIRE" -> AcquirePhase(counted, cap)
        [] l.state = "STEP"    ->
             EnterTrack(counted, IF cap.phaseValid THEN "MEASURED" ELSE "INCOMPLETE")
        [] l.state = "TRACK"   -> TrackPhase(counted, cap)

\* hold(): without a reference, hold the frequency and never learn or steer;
\* a free-run step is made here.
HoldFrequency(l) ==
  CASE l.state = "STEP"    -> EnterTrack(l, "HOLDOVER")
    [] l.state = "TRACK"   -> Outcome(l, "HOLDOVER", FALSE, FALSE)
    [] l.state = "ACQUIRE" -> Outcome([l EXCEPT !.freeStep = FALSE, !.seedRun = 0],
                                      "FREE_RUN", FALSE, l.freeStep)

\* epoch_control_update()
LoopUpdate(l, usable, cap) ==
  LET learnt == Learn(l, usable, cap)
  IN  IF usable THEN UseReference(learnt, cap) ELSE HoldFrequency(learnt)
=============================================================================
