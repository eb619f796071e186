----------------------------- MODULE SyncProofs -----------------------------
(***************************************************************************)
(* Proofs about Sync for every set of sources, every limit and every       *)
(* report: the type invariant and the safety invariants that the runs of   *)
(* MCSync check on a small instance.  One lemma per stage of sync_update() *)
(* says what that stage keeps of the inductive invariant SyncInv; first,   *)
(* what one epoch of the control loop may do to it, whatever the profiles, *)
(* their gates and what was captured.  At the end, LockedBoundHolds of     *)
(* SyncBound: what it rests on besides is what one epoch measures, which   *)
(* is of the source in use, by the edge that was routed before the epoch.  *)
(***************************************************************************)
EXTENDS SyncBound, FiniteSetTheorems, WellFoundedInduction, TLAPS

-----------------------------------------------------------------------------
\* The control loop

\* epoch_control_init() leaves a loop of the right type.
LEMMA NewLoopType == NewLoop \in Loop
BY LoopAssumption DEF NewLoop, Loop, LoopStates

\* epoch_control_restart() gives the loop its profile, and only a slew of a
\* loop that tracks leaves it tracking.
LEMMA RestartType ==
  ASSUME NEW l \in Loop, NEW profile \in Profiles, NEW slew \in BOOLEAN
  PROVE  /\ Restart(l, profile, slew) \in Loop
         /\ Restart(l, profile, slew).profile = profile
         /\ Restart(l, profile, slew).state \in {"ACQUIRE", "TRACK"}
         /\ Restart(l, profile, slew).state = "TRACK" => l.state = "TRACK"
         /\ Restart(l, profile, slew).freeStep = l.freeStep
<1>1. 0 \in 0 .. AcquireDelay
  BY LoopAssumption
<1>2. Restart(l, profile, slew) \in Loop
  BY <1>1 DEF Restart, Loop, LoopStates
<1>3. Restart(l, profile, slew).profile = profile
  BY DEF Restart, Loop
<1>4. Restart(l, profile, slew).freeStep = l.freeStep
  BY DEF Restart, Loop
<1>5. /\ Restart(l, profile, slew).state \in {"ACQUIRE", "TRACK"}
      /\ Restart(l, profile, slew).state = "TRACK" => l.state = "TRACK"
  BY DEF Restart, Loop
<1> QED
  BY <1>2, <1>3, <1>4, <1>5

\* Learning and seeding touch nothing but the estimate and the discard flag.
LEMMA LearnType ==
  ASSUME NEW l \in Loop, NEW usable \in BOOLEAN, NEW cap \in Capture
  PROVE  /\ Learn(l, usable, cap) \in Loop
         /\ Learn(l, usable, cap).state = l.state
         /\ Learn(l, usable, cap).profile = l.profile
         /\ Learn(l, usable, cap).freeStep = l.freeStep
<1>1. (l.seeded \/ (cap.period /\ usable /\ ~l.discard /\ l.profile \in Learns)) \in BOOLEAN
  BY DEF Loop
<1>2. (~usable \/ (l.discard /\ ~cap.period)) \in BOOLEAN
  OBVIOUS
<1> QED
  BY <1>1, <1>2 DEF Learn, Loop

\* seed_frequency() changes neither the state nor the profile, nor a pending
\* free-run step.
LEMMA SeedType ==
  ASSUME NEW l \in Loop, NEW cap \in Capture
  PROVE  /\ Seed(l, cap) \in Loop
         /\ Seed(l, cap).state = l.state
         /\ Seed(l, cap).profile = l.profile
         /\ Seed(l, cap).freeStep = l.freeStep
<1>1. CASE HasEstimate(l)
  BY <1>1 DEF Seed
<1>2. CASE ~HasEstimate(l)
  <2> DEFINE run == IF cap.period /\ l.seedRun > 0 THEN l.seedRun + 1 ELSE 1
  <2>1. run \in Nat /\ (run = SeedPeriods + 1) \in BOOLEAN
    BY DEF Loop
  <2>2. Seed(l, cap) = [l EXCEPT !.seedRun = run, !.seeded = run = SeedPeriods + 1]
    BY <1>2 DEF Seed
  <2> HIDE DEF run
  <2>3. Seed(l, cap) \in Loop
    BY <2>1, <2>2 DEF Loop
  <2> QED
    BY <2>2, <2>3 DEF Loop
<1> QED
  BY <1>1, <1>2

\* What a turn of the loop keeps (epoch_control_update): the profile stays; only
\* a usable reference asks for a step; without one, an acquiring loop goes on
\* acquiring; and a free-run step is made or dropped at once while acquiring.
LoopResult(l, usable, o) ==
  /\ o.loop \in Loop /\ o.kind \in UpdateKinds /\ o.entered \in BOOLEAN
  /\ o.loop.profile = l.profile
  /\ o.loop.state = "STEP" => usable
  /\ ~usable /\ l.state = "ACQUIRE" => o.loop.state = "ACQUIRE"
  /\ usable \/ l.state = "ACQUIRE" => o.loop.freeStep = FALSE
  /\ o.loop.freeStep \in {FALSE, l.freeStep}

\* The four ways the loop ends its turn, each with the loop it leaves.
LEMMA UsedResult ==
  ASSUME NEW l \in Loop, NEW k \in Loop, k.profile = l.profile, k.freeStep = FALSE,
         NEW kind \in UpdateKinds, NEW entered \in BOOLEAN
  PROVE  LoopResult(l, TRUE, Outcome(k, kind, entered, FALSE))
BY DEF LoopResult, Outcome

\* An outcome of hold() past ACQUIRE: the loop is then in TRACK.
LEMMA HeldResult ==
  ASSUME NEW l \in Loop, NEW k \in Loop, k.profile = l.profile,
         k.freeStep = l.freeStep, k.state = "TRACK", l.state # "ACQUIRE",
         NEW kind \in UpdateKinds, NEW entered \in BOOLEAN
  PROVE  LoopResult(l, FALSE, Outcome(k, kind, entered, FALSE))
BY DEF LoopResult, Outcome

\* An outcome of hold() in ACQUIRE, where a free-run step is made.
LEMMA FreeResult ==
  ASSUME NEW l \in Loop, NEW k \in Loop, k.profile = l.profile, k.freeStep = FALSE,
         k.state = "ACQUIRE", NEW stepped \in BOOLEAN
  PROVE  LoopResult(l, FALSE, Outcome(k, "FREE_RUN", FALSE, stepped))
BY DEF LoopResult, Outcome, UpdateKinds

\* enter_track() changes the state and the count of rejects only.
LEMMA EnterTrackLoop ==
  ASSUME NEW l \in Loop
  PROVE  LET t == [l EXCEPT !.state = "TRACK", !.rejects = 0]
         IN  t \in Loop /\ t.profile = l.profile /\ t.state = "TRACK"
             /\ t.freeStep = l.freeStep
BY DEF Loop, LoopStates

\* Counting an epoch of the reference, which also drops a free-run step.
LEMMA CountedLoop ==
  ASSUME NEW l \in Loop
  PROVE  LET c == [l EXCEPT !.refEpochs = IF @ < AcquireDelay THEN @ + 1 ELSE @,
                            !.freeStep = FALSE]
         IN  c \in Loop /\ c.profile = l.profile /\ c.state = l.state
             /\ c.freeStep = FALSE
<1>1. (IF l.refEpochs < AcquireDelay THEN l.refEpochs + 1 ELSE l.refEpochs)
        \in 0 .. AcquireDelay
  BY LoopAssumption DEF Loop
<1> QED
  BY <1>1 DEF Loop

\* The turn of an acquiring loop that has a reference.
LEMMA AcquirePhaseResult ==
  ASSUME NEW l \in Loop, NEW c \in Loop, NEW cap \in Capture,
         c.profile = l.profile, c.freeStep = FALSE
  PROVE  LoopResult(l, TRUE, AcquirePhase(c, cap))
<1> DEFINE s == Seed(c, cap)
<1>1. s \in Loop /\ s.profile = l.profile /\ s.freeStep = FALSE
  BY SeedType
<1>2. CASE ~cap.phaseValid
  <2>1. [c EXCEPT !.seedRun = 0] \in Loop
    BY DEF Loop
  <2>2. /\ [c EXCEPT !.seedRun = 0].profile = l.profile
        /\ [c EXCEPT !.seedRun = 0].freeStep = FALSE
    BY DEF Loop
  <2>3. AcquirePhase(c, cap) = Outcome([c EXCEPT !.seedRun = 0], "INCOMPLETE", FALSE, FALSE)
    BY <1>2 DEF AcquirePhase
  <2> QED
    BY <2>1, <2>2, <2>3, UsedResult DEF UpdateKinds
<1>3. CASE /\ cap.phaseValid
           /\ ~HasEstimate(s) \/ c.refEpochs < AcquireDelay \/ cap.refused
  <2>1. AcquirePhase(c, cap) = Outcome(s, "MEASURED", FALSE, FALSE)
    BY <1>3 DEF AcquirePhase
  <2> QED
    BY <1>1, <2>1, UsedResult DEF UpdateKinds
<1>4. CASE /\ cap.phaseValid
           /\ ~(~HasEstimate(s) \/ c.refEpochs < AcquireDelay \/ cap.refused)
  <2> HIDE DEF s
  <2>1. [s EXCEPT !.state = "STEP"] \in Loop
    BY <1>1 DEF Loop, LoopStates
  <2>2. /\ [s EXCEPT !.state = "STEP"].profile = l.profile
        /\ [s EXCEPT !.state = "STEP"].freeStep = FALSE
    BY <1>1 DEF Loop
  <2>3. AcquirePhase(c, cap) = Outcome([s EXCEPT !.state = "STEP"], "MEASURED", FALSE, FALSE)
    BY <1>4 DEF AcquirePhase, s
  <2> QED
    BY <2>1, <2>2, <2>3, UsedResult DEF UpdateKinds
<1> QED
  BY <1>2, <1>3, <1>4

\* The turn of a tracking loop that has a reference.
LEMMA TrackPhaseResult ==
  ASSUME NEW l \in Loop, NEW c \in Loop, NEW cap \in Capture,
         c.profile = l.profile, c.freeStep = FALSE
  PROVE  LoopResult(l, TRUE, TrackPhase(c, cap))
<1> DEFINE Same(k) == k \in Loop /\ k.profile = l.profile /\ k.freeStep = FALSE
<1>1. Same(c) /\ Same([c EXCEPT !.rejects = 0])
  BY DEF Loop
<1>2. Same([c EXCEPT !.rejects = c.rejects + 1])
  <2>1. c.rejects + 1 \in Nat
    BY DEF Loop
  <2> QED
    BY <2>1 DEF Loop
<1>3. Same([c EXCEPT !.rejects = 0, !.state = "ACQUIRE"])
  BY DEF Loop, LoopStates
<1>4. \E k \in Loop, kind \in UpdateKinds :
        Same(k) /\ TrackPhase(c, cap) = Outcome(k, kind, FALSE, FALSE)
  <2>1. CASE ~cap.phaseValid
    BY <1>1, <2>1 DEF TrackPhase, UpdateKinds
  <2>2. CASE cap.phaseValid /\ Magnitude(cap.phase) <= Gate[c.profile]
    BY <1>1, <2>2 DEF TrackPhase, UpdateKinds
  <2>3. CASE /\ cap.phaseValid /\ ~(Magnitude(cap.phase) <= Gate[c.profile])
             /\ c.rejects + 1 < RejectLimit[c.profile]
    BY <1>2, <2>3 DEF TrackPhase, UpdateKinds
  <2>4. CASE /\ cap.phaseValid /\ ~(Magnitude(cap.phase) <= Gate[c.profile])
             /\ ~(c.rejects + 1 < RejectLimit[c.profile])
    BY <1>3, <2>4 DEF TrackPhase, UpdateKinds
  <2> QED
    BY <2>1, <2>2, <2>3, <2>4
<1> QED
  BY <1>4, UsedResult

\* epoch_control_update() keeps its profile; with a usable reference it drops
\* a free-run step, and without one it never stays in STEP: whatever the state,
\* the captures and the constants (LoopResult).
THEOREM LoopUpdateResult ==
  ASSUME NEW l \in Loop, NEW usable \in BOOLEAN, NEW cap \in Capture
  PROVE  LoopResult(l, usable, LoopUpdate(l, usable, cap))
<1> DEFINE k == Learn(l, usable, cap)
           c == [k EXCEPT !.refEpochs = IF @ < AcquireDelay THEN @ + 1 ELSE @,
                          !.freeStep = FALSE]
           t(x) == [x EXCEPT !.state = "TRACK", !.rejects = 0]
<1>1. k \in Loop /\ k.state = l.state /\ k.profile = l.profile /\ k.freeStep = l.freeStep
  BY LearnType
<1> HIDE DEF k
<1>2. c \in Loop /\ c.state = l.state /\ c.profile = l.profile /\ c.freeStep = FALSE
  BY <1>1, CountedLoop
<1>3. ASSUME NEW x \in Loop
      PROVE  t(x) \in Loop /\ t(x).profile = x.profile /\ t(x).state = "TRACK"
             /\ t(x).freeStep = x.freeStep
  BY EnterTrackLoop
<1>4. CASE usable
  <2>1. LoopUpdate(l, usable, cap) = UseReference(k, cap)
    BY <1>4 DEF LoopUpdate, k
  <2>2. CASE l.state = "ACQUIRE"
    <3>1. UseReference(k, cap) = AcquirePhase(c, cap)
      BY <1>1, <2>2 DEF UseReference
    <3> HIDE DEF c
    <3> QED
      BY <1>2, <1>4, <2>1, <3>1, AcquirePhaseResult
  <2>3. CASE l.state = "STEP"
    <3> DEFINE kind == IF cap.phaseValid THEN "MEASURED" ELSE "INCOMPLETE"
    <3>1. UseReference(k, cap) = Outcome(t(c), kind, TRUE, FALSE)
      BY <1>1, <2>3 DEF UseReference, EnterTrack
    <3>2. kind \in UpdateKinds
      BY DEF UpdateKinds
    <3>3. t(c) \in Loop /\ t(c).profile = l.profile /\ t(c).freeStep = FALSE
      BY <1>2, <1>3
    <3> HIDE DEF t, kind
    <3>4. LoopResult(l, TRUE, Outcome(t(c), kind, TRUE, FALSE))
      BY <3>2, <3>3, UsedResult
    <3> QED
      BY <1>4, <2>1, <3>1, <3>4
  <2>4. CASE l.state = "TRACK"
    <3>1. UseReference(k, cap) = TrackPhase(c, cap)
      BY <1>1, <2>4 DEF UseReference
    <3> HIDE DEF c
    <3> QED
      BY <1>2, <1>4, <2>1, <3>1, TrackPhaseResult
  <2> QED
    BY <2>2, <2>3, <2>4 DEF Loop, LoopStates
<1>5. CASE ~usable
  <2>1. LoopUpdate(l, usable, cap) = HoldFrequency(k)
    BY <1>5 DEF LoopUpdate, k
  <2>2. CASE l.state = "ACQUIRE"
    <3> DEFINE f == [k EXCEPT !.freeStep = FALSE, !.seedRun = 0]
    <3>1. HoldFrequency(k) = Outcome(f, "FREE_RUN", FALSE, k.freeStep)
      BY <1>1, <2>2 DEF HoldFrequency
    <3>2. /\ f \in Loop /\ f.profile = l.profile /\ f.freeStep = FALSE
          /\ f.state = "ACQUIRE" /\ k.freeStep \in BOOLEAN
      BY <1>1, <2>2 DEF Loop
    <3> HIDE DEF f
    <3> QED
      BY <1>5, <2>1, <3>1, <3>2, FreeResult
  <2>3. CASE l.state = "STEP"
    <3>1. HoldFrequency(k) = Outcome(t(k), "HOLDOVER", TRUE, FALSE)
      BY <1>1, <2>3 DEF HoldFrequency, EnterTrack
    <3> HIDE DEF t
    <3> QED
      BY <1>1, <1>3, <1>5, <2>1, <2>3, <3>1, HeldResult DEF UpdateKinds
  <2>4. CASE l.state = "TRACK"
    <3>1. HoldFrequency(k) = Outcome(k, "HOLDOVER", FALSE, FALSE)
      BY <1>1, <2>4 DEF HoldFrequency
    <3> QED
      BY <1>1, <1>5, <2>1, <2>4, <3>1, HeldResult DEF UpdateKinds
  <2> QED
    BY <2>2, <2>3, <2>4 DEF Loop, LoopStates
<1> QED
  BY <1>4, <1>5
\* The loop only measures with a usable reference whose phase was captured, and
\* it asks for a step in no other epoch (use_reference, acquire).
LEMMA MeasuredResult ==
  ASSUME NEW l \in Loop, NEW usable \in BOOLEAN, NEW cap \in Capture
  PROVE  LET o == LoopUpdate(l, usable, cap)
         IN  /\ o.kind = "MEASURED" => usable /\ cap.phaseValid
             /\ o.loop.state = "STEP" => o.kind = "MEASURED"
<1> DEFINE k == Learn(l, usable, cap)
           c == [k EXCEPT !.refEpochs = IF @ < AcquireDelay THEN @ + 1 ELSE @,
                          !.freeStep = FALSE]
           Fine(o) == /\ o.kind = "MEASURED" => usable /\ cap.phaseValid
                      /\ o.loop.state = "STEP" => o.kind = "MEASURED"
<1>1. k \in Loop /\ k.state = l.state
  BY LearnType
<1> HIDE DEF k
<1>2. c \in Loop /\ c.state = l.state
  BY <1>1, CountedLoop
<1>3. l.state \in LoopStates
  BY DEF Loop
<1>4. CASE usable
  <2>1. LoopUpdate(l, usable, cap) = UseReference(k, cap)
    BY <1>4 DEF LoopUpdate, k
  <2>2. CASE l.state = "ACQUIRE"
    <3>1. UseReference(k, cap) = AcquirePhase(c, cap)
      BY <1>1, <2>2 DEF UseReference
    <3> HIDE DEF c
    <3>2. Seed(c, cap).state = "ACQUIRE" /\ [c EXCEPT !.seedRun = 0].state = "ACQUIRE"
      BY <1>2, <2>2, SeedType DEF Loop
    <3>3. Fine(AcquirePhase(c, cap))
      BY <1>4, <3>2 DEF AcquirePhase, Outcome
    <3> QED
      BY <2>1, <3>1, <3>3
  <2>3. CASE l.state = "STEP"
    <3> DEFINE kind == IF cap.phaseValid THEN "MEASURED" ELSE "INCOMPLETE"
    <3>1. UseReference(k, cap) = EnterTrack(c, kind)
      BY <1>1, <2>3 DEF UseReference
    <3> HIDE DEF c
    <3>2. [c EXCEPT !.state = "TRACK", !.rejects = 0].state = "TRACK"
      BY <1>2 DEF Loop
    <3>3. Fine(EnterTrack(c, kind))
      BY <1>4, <3>2 DEF EnterTrack, Outcome
    <3> QED
      BY <2>1, <3>1, <3>3
  <2>4. CASE l.state = "TRACK"
    <3>1. UseReference(k, cap) = TrackPhase(c, cap)
      BY <1>1, <2>4 DEF UseReference
    <3> HIDE DEF c
    <3>2. /\ [c EXCEPT !.rejects = 0].state = "TRACK"
          /\ [c EXCEPT !.rejects = c.rejects + 1].state = "TRACK"
          /\ [c EXCEPT !.rejects = 0, !.state = "ACQUIRE"].state = "ACQUIRE"
      BY <1>2, <2>4 DEF Loop
    <3>3. Fine(TrackPhase(c, cap))
      BY <1>2, <1>4, <2>4, <3>2 DEF TrackPhase, Outcome
    <3> QED
      BY <2>1, <3>1, <3>3
  <2> QED
    BY <1>3, <2>2, <2>3, <2>4 DEF LoopStates
<1>5. CASE ~usable
  <2>1. LoopUpdate(l, usable, cap) = HoldFrequency(k)
    BY <1>5 DEF LoopUpdate, k
  <2>2. /\ [k EXCEPT !.state = "TRACK", !.rejects = 0].state = "TRACK"
        /\ l.state = "ACQUIRE"
           => [k EXCEPT !.freeStep = FALSE, !.seedRun = 0].state = "ACQUIRE"
    BY <1>1 DEF Loop
  <2>3. Fine(HoldFrequency(k))
    BY <1>1, <1>3, <1>5, <2>2 DEF HoldFrequency, EnterTrack, Outcome, LoopStates
  <2> QED
    BY <2>1, <2>3
<1> QED
  BY <1>4, <1>5

-----------------------------------------------------------------------------
\* The synchroniser

\* A non-empty set of sources has a least one by bound and preference: the
\* loops of best_source() and best_fallback() always end on a candidate.
LEMMA LeastExists ==
  ASSUME NEW set \in SUBSET Sources, set # {}, NEW bound \in [Sources -> Nat]
  PROVE  \E s \in set : \A t \in set :
           \/ bound[s] < bound[t]
           \/ bound[s] = bound[t] /\ Preference[s] <= Preference[t]
<1> DEFINE Less(t, s) == \/ bound[t] < bound[s]
                         \/ bound[t] = bound[s] /\ Preference[t] < Preference[s]
           Down(s) == {t \in set : Less(t, s)}
           Downs   == {Down(s) : s \in set}
<1>1. IsFiniteSet(set)
  BY FS_Subset, SourceAssumption
<1>2. Downs \subseteq FiniteSubsetsOf(set)
  BY <1>1, FS_Subset DEF FiniteSubsetsOf
<1>6. Downs # {}
  <2>1. PICK s \in set : TRUE
    OBVIOUS
  <2>2. Down(s) \in Downs
    OBVIOUS
  <2> QED
    BY <2>2
<1>3. PICK d \in Downs : \A e \in Downs : <<e, d>> \notin StrictSubsetOrdering(set)
  <2> HIDE DEF Downs
  <2>1. IsWellFoundedOn(StrictSubsetOrdering(set), FiniteSubsetsOf(set))
    BY FS_StrictSubsetOrderingWellFounded
  <2>2. \E d \in Downs : \A e \in Downs :
          ~ (<<e, d>> \in StrictSubsetOrdering(set))
    BY <1>2, <1>6, <2>1, WFMin
  <2> QED
    BY <2>2
<1>4. PICK s \in set : d = Down(s)
  BY <1>3
<1>5. ASSUME NEW t \in set, Less(t, s) PROVE FALSE
  <2>1. Down(t) \subseteq Down(s) /\ t \in Down(s) /\ t \notin Down(t)
    BY <1>5, SourceAssumption
  <2>2. <<Down(t), Down(s)>> \in StrictSubsetOrdering(set)
    BY <2>1 DEF StrictSubsetOrdering
  <2> QED
    BY <2>2, <1>3, <1>4
<1> QED
  BY <1>5, SourceAssumption

\* Least() returns a member of its set, or NoSource when it is empty.
LEMMA LeastIn ==
  ASSUME NEW set \in SUBSET Sources, NEW bound \in [Sources -> Nat]
  PROVE  /\ set = {} => Least(set, bound) = NoSource
         /\ set # {} => Least(set, bound) \in set
BY LeastExists DEF Least

-----------------------------------------------------------------------------
\* The stages that only change the record of the sources

\* sync_source_judge() keeps the record typed, and a run of usable epochs, or
\* of good ones, is ended by the first that is not.
LEMMA JudgeType ==
  ASSUME NEW t \in Tracker, NEW rep \in Report, NEW limit \in Nat,
         NEW scale \in Nat, NEW floor \in Nat, NEW seen \in BOOLEAN
  PROVE  /\ Judge(t, rep, limit, scale, floor, seen) \in Tracker
         /\ Judge(t, rep, limit, scale, floor, seen).usableRun > 0 =>
              Judge(t, rep, limit, scale, floor, seen).check
                \in {"GOOD", "INACCURATE"}
         /\ Judge(t, rep, limit, scale, floor, seen).goodRun > 0 =>
              Judge(t, rep, limit, scale, floor, seen).check = "GOOD"
<1> DEFINE j == Judge(t, rep, limit, scale, floor, seen)
<1>1. Verdict(t, rep, limit) \in Checks
  BY DEF Verdict, Classify, Checks
<1>2. rep.unc * scale + floor \in Nat
  BY DEF Report
<1>3. Saturate(rep.unc * scale + floor) \in 0 .. BoundNone - 1
  BY <1>2, BoundAssumption DEF Saturate
<1>4. 0 \in 0 .. BoundNone - 1
  BY BoundAssumption
<1>5. Longer(t.goodRun) \in 0 .. QualifyEpochs /\ Longer(t.usableRun) \in 0 .. QualifyEpochs
  BY QualifyAssumption DEF Longer, Tracker
<1>6. 0 \in 0 .. QualifyEpochs
  BY QualifyAssumption
<1>7. (LabelKept(t, rep) \/ LabelJudged(rep)) \in BOOLEAN /\ (rep.edge /\ seen) \in BOOLEAN
  BY DEF LabelKept, LabelJudged
<1>8. rep.utcErr \in Int /\ t.lastErr \in Int
  BY DEF Report, Tracker
<1>9. j \in Tracker
  BY <1>1, <1>3, <1>4, <1>5, <1>6, <1>7, <1>8 DEF Judge, Tracker
<1> QED
  BY <1>9 DEF Judge

-----------------------------------------------------------------------------
\* The stages of an epoch

\* What holds at every stage before the loop's turn: the free-run step is
\* still to be made only while the loop acquires.
Mid(st) ==
  /\ st \in Status /\ Coherent(st)
  /\ st.loop.freeStep = TRUE => st.loop.state = "ACQUIRE"

\* The fields that a change of state leaves alone.
Carried(st, e) ==
  /\ e.trk = st.trk /\ e.hold = st.hold /\ e.time = st.time
  /\ e.epochs = st.epochs /\ e.phaseValid = st.phaseValid /\ e.phase = st.phase
  /\ e.aligned = st.aligned /\ e.kind = st.kind /\ e.usable = st.usable

\* enter() moves to the state and source it is given, and ends a challenge.
LEMMA EnterResult ==
  ASSUME NEW st \in Status, NEW state \in States, NEW source \in SourceOrNone,
         NEW reason \in Reasons
  PROVE  LET e == Enter(st, state, source, reason)
         IN  /\ e \in Status /\ Carried(st, e)
             /\ e.state = state /\ e.source = source /\ e.run = 0
             /\ e.fallback = (st.fallback /\ source = st.source)
             /\ e.loop = st.loop /\ e.route = st.route /\ e.steered = st.steered
             /\ e.resyncSlew = st.resyncSlew
<1> DEFINE move == [from |-> st.state, to |-> state, source |-> source, reason |-> reason]
           e == [st EXCEPT !.history = Append(st.history, move),
                           !.fallback = st.fallback /\ source = st.source,
                           !.state = state, !.source = source,
                           !.challenger = NoSource, !.run = 0]
<1>1. Append(st.history, move) \in Seq(Transition)
  BY DEF Status, Transition
<1>2. (st.fallback /\ source = st.source) \in BOOLEAN
  OBVIOUS
<1>3. NoSource \in SourceOrNone /\ 0 \in 0 .. SwitchEpochs
  BY LimitAssumption DEF SourceOrNone
<1>4. e = Enter(st, state, source, reason)
  BY DEF Enter
<1> HIDE DEF move
<1>5. e \in Status
  BY <1>1, <1>2, <1>3 DEF Status
<1>6. Carried(st, e)
  BY DEF Status, Carried
<1>7. /\ e.state = state /\ e.source = source /\ e.run = 0
      /\ e.loop = st.loop /\ e.route = st.route /\ e.steered = st.steered
      /\ e.resyncSlew = st.resyncSlew
  BY DEF Status
<1>8. e.fallback = (st.fallback /\ source = st.source)
  BY DEF Status
<1> QED
  BY <1>4, <1>5, <1>6, <1>7, <1>8

\* acquire() leaves the epoch steered by the source it is given, with the
\* capture route and the loop's profile set to it together.
Acquired(st, source, fallback, a) ==
  /\ a \in Status /\ Carried(st, a)
  /\ a.state = "ACQUIRE" /\ a.source = source /\ a.run = 0
  /\ a.fallback = fallback /\ a.steered = TRUE
  /\ a.route = source /\ a.loop.profile = source
  /\ a.loop.freeStep = st.loop.freeStep
  /\ a.loop.state \in {"ACQUIRE", "TRACK"}
  /\ a.loop.state = "TRACK" => st.loop.state = "TRACK"

\* acquire(): the new source is routed, its profile loaded and it is selected,
\* in one stroke.
LEMMA AcquireResult ==
  ASSUME NEW st \in Status, NEW source \in Profiles, NEW reason \in Reasons,
         NEW fallback \in BOOLEAN
  PROVE  Acquired(st, source, fallback, Acquire(st, source, reason, fallback))
<1> DEFINE routed == Route(st, source)
           loop   == Restart(routed.loop, source, Slews(st, source))
           mid    == [routed EXCEPT !.loop = loop]
           e      == Enter(mid, "ACQUIRE", source, reason)
           a      == [e EXCEPT !.fallback = fallback, !.steered = TRUE, !.resyncSlew = FALSE]
<1>1. /\ routed \in Status /\ routed.route = source /\ routed.loop = st.loop
      /\ Carried(st, routed)
  <2>1. CASE source = st.route
    BY <2>1 DEF Route, Status, Carried
  <2>2. CASE source # st.route
    BY <2>2 DEF Route, Status, Carried
  <2> QED
    BY <2>1, <2>2
<1>2. Slews(st, source) \in BOOLEAN
  BY DEF Slews
<1>3. st.loop \in Loop
  BY DEF Status
<1>4. /\ loop \in Loop /\ loop.profile = source
      /\ loop.state \in {"ACQUIRE", "TRACK"}
      /\ loop.state = "TRACK" => st.loop.state = "TRACK"
      /\ loop.freeStep = st.loop.freeStep
  BY <1>1, <1>2, <1>3, RestartType
<1> HIDE DEF routed, loop
<1>5. mid \in Status /\ mid.loop = loop /\ mid.route = source
      /\ Carried(st, mid)
  BY <1>1, <1>4 DEF Status, Carried
<1>6. source \in SourceOrNone /\ "ACQUIRE" \in States
  BY SourceAssumption DEF SourceOrNone, States
<1> HIDE DEF mid
<1>7. /\ e \in Status /\ e.state = "ACQUIRE" /\ e.source = source /\ e.run = 0
      /\ e.loop = loop /\ e.route = source
      /\ Carried(mid, e)
  BY <1>5, <1>6, EnterResult
<1> HIDE DEF e
<1>8. Carried(st, e)
  BY <1>5, <1>7 DEF Carried, Status
<1>9. /\ a \in Status /\ a.state = "ACQUIRE" /\ a.source = source /\ a.run = 0
      /\ a.fallback = fallback /\ a.steered = TRUE /\ a.loop = loop /\ a.route = source
      /\ Carried(st, a)
  <2>1. a \in Status
    BY <1>7, ZenonT(60) DEF Status
  <2>2. /\ a.state = "ACQUIRE" /\ a.source = source /\ a.run = 0
        /\ a.loop = loop /\ a.route = source
    BY <1>7 DEF Status
  <2>3. a.fallback = fallback /\ a.steered = TRUE
    BY <1>7 DEF Status
  <2>4. Carried(st, a)
    BY <1>7, <1>8 DEF Status, Carried
  <2> QED
    BY <2>1, <2>2, <2>3, <2>4
<1>10. Acquire(st, source, reason, fallback) = a
  BY DEF Acquire, routed, loop, mid, e
<1> QED
  BY <1>4, <1>9, <1>10 DEF Acquired

\* The captures of the judged sources are those of the routed edge only.
Routed(st) == \A s \in Sources : st.trk[s].rep.captured => s = st.route

\* A run of usable epochs, or of good ones, never outlives the verdict.
RunsJudged(st) ==
  \A s \in Sources :
    /\ st.trk[s].usableRun > 0 => st.trk[s].check \in {"GOOD", "INACCURATE"}
    /\ st.trk[s].goodRun > 0 => st.trk[s].check = "GOOD"

\* apply_resync()
LEMMA ApplyResyncMid ==
  ASSUME NEW st \in Status, Mid(st), NEW resync \in BOOLEAN
  PROVE  LET e == ApplyResync(st, resync)
         IN  /\ Mid(e) /\ e.route = st.route
             /\ e.time = st.time /\ e.steered = st.steered
             /\ e.epochs = st.epochs /\ (st.state = "FREE_RUN" => e.state = "FREE_RUN")
             /\ resync => /\ e.state = "FREE_RUN" /\ e.hold.ready = FALSE
                          /\ e.trk = [s \in Sources |-> NewTracker]
<1>1. CASE ~resync
  BY <1>1 DEF ApplyResync
<1>2. CASE resync
  <2> DEFINE slew == st.state \in {"LOCKED", "HOLDOVER"}
             trk  == [s \in Sources |-> NewTracker]
             hold == [st.hold EXCEPT !.ready = FALSE]
             mid  == [st EXCEPT !.resyncSlew = slew, !.trk = trk, !.hold = hold]
             e    == Enter(mid, "FREE_RUN", NoSource, "RESYNC")
  <2>1. trk \in [Sources -> Tracker]
    <3>1. 0 \in 0 .. QualifyEpochs /\ 0 \in 0 .. BoundNone - 1
      BY QualifyAssumption, BoundAssumption
    <3> QED
      BY <3>1 DEF NewTracker, Tracker, Checks, NoReport, Report
  <2>2. hold \in Holdover /\ hold.ready = FALSE
    BY DEF Status, Holdover
  <2>3. slew \in BOOLEAN
    OBVIOUS
  <2>4. ApplyResync(st, resync) = e
    BY <1>2 DEF ApplyResync
  <2> HIDE DEF slew, trk, hold
  <2>5. /\ mid \in Status /\ mid.hold = hold /\ mid.loop = st.loop
        /\ mid.route = st.route /\ mid.steered = st.steered /\ mid.time = st.time
        /\ mid.epochs = st.epochs /\ mid.trk = trk
    BY <2>1, <2>2, <2>3 DEF Status
  <2> HIDE DEF mid
  <2>6. /\ "FREE_RUN" \in States /\ NoSource \in SourceOrNone /\ "RESYNC" \in Reasons
    BY DEF States, SourceOrNone, Reasons
  <2>7. /\ e \in Status /\ e.state = "FREE_RUN" /\ e.source = NoSource /\ e.run = 0
        /\ e.hold = hold /\ e.loop = st.loop /\ e.route = st.route
        /\ e.steered = st.steered /\ e.time = st.time /\ e.epochs = st.epochs
        /\ e.trk = trk
    BY <2>5, <2>6, EnterResult DEF Carried
  <2> HIDE DEF e
  <2>8. Coherent(e)
    BY <2>2, <2>7, LimitAssumption DEF Mid, Coherent, IsTracking
  <2> QED
    BY <1>2, <2>2, <2>4, <2>7, <2>8 DEF Mid, trk
<1> QED
  BY <1>1, <1>2

\* judge_sources() changes nothing but the records of the sources.
LEMMA JudgeSourcesMid ==
  ASSUME NEW st \in Status, Mid(st), NEW reports \in [Sources -> Report],
         NEW epochSeen \in BOOLEAN, NEW edgeTaken \in BOOLEAN
  PROVE  LET j == JudgeSources(st, reports, epochSeen, edgeTaken)
         IN  Mid(j) /\ Routed(j) /\ RunsJudged(j) /\ j.route = st.route
<1> DEFINE rep(s) == [reports[s] EXCEPT !.captured =
                        reports[s].edge /\ s = st.route /\ edgeTaken]
           limit(s) == IF s = st.source THEN HoldLimit[s] ELSE QualifyLimit[s]
           judged(s) == Judge(st.trk[s], rep(s), limit(s), BoundScale[s], BoundFloor[s],
                              epochSeen)
           trk == [s \in Sources |-> judged(s)]
           j   == [st EXCEPT !.trk = trk]
<1>1. ASSUME NEW s \in Sources
      PROVE  /\ judged(s) \in Tracker
             /\ judged(s).usableRun > 0 => judged(s).check \in {"GOOD", "INACCURATE"}
             /\ judged(s).goodRun > 0 => judged(s).check = "GOOD"
             /\ judged(s).rep.captured => s = st.route
  <2>1. reports[s] \in Report
    OBVIOUS
  <2>2. (reports[s].edge /\ s = st.route /\ edgeTaken) \in BOOLEAN
    OBVIOUS
  <2>3. rep(s) \in Report
    BY <2>1, <2>2 DEF Report
  <2>4. rep(s).captured => s = st.route
    BY <2>1 DEF Report
  <2>5. limit(s) \in Nat /\ BoundScale[s] \in Nat /\ BoundFloor[s] \in Nat
    BY LimitAssumption
  <2>6. st.trk[s] \in Tracker
    BY DEF Status
  <2> HIDE DEF rep, limit
  <2>7. /\ judged(s) \in Tracker
        /\ judged(s).usableRun > 0 => judged(s).check \in {"GOOD", "INACCURATE"}
        /\ judged(s).goodRun > 0 => judged(s).check = "GOOD"
    <3>1. ASSUME NEW rp \in Report, NEW lm \in Nat, NEW t \in Tracker
          PROVE  LET v == Judge(t, rp, lm, BoundScale[s], BoundFloor[s], epochSeen)
                 IN  /\ v \in Tracker
                     /\ v.usableRun > 0 => v.check \in {"GOOD", "INACCURATE"}
                     /\ v.goodRun > 0 => v.check = "GOOD"
      BY <2>5, JudgeType
    <3>2. judged(s) = Judge(st.trk[s], rep(s), limit(s), BoundScale[s], BoundFloor[s],
                            epochSeen)
      OBVIOUS
    <3> HIDE DEF judged
    <3> QED
      BY <2>3, <2>5, <2>6, <3>1, <3>2
  <2>8. judged(s).rep = rep(s)
    BY DEF Judge
  <2> QED
    BY <2>4, <2>7, <2>8
<1>2. JudgeSources(st, reports, epochSeen, edgeTaken) = j
  BY DEF JudgeSources
<1> HIDE DEF judged
<1>3. trk \in [Sources -> Tracker]
  BY <1>1
<1>4. \A s \in Sources : trk[s] = judged(s)
  OBVIOUS
<1> HIDE DEF trk
<1>5. /\ j \in Status /\ j.trk = trk /\ j.state = st.state /\ j.source = st.source
      /\ j.run = st.run /\ j.hold = st.hold /\ j.loop = st.loop /\ j.route = st.route
      /\ j.steered = st.steered
  BY <1>3 DEF Status
<1> HIDE DEF j
<1>6. Mid(j)
  BY <1>5 DEF Mid, Coherent, IsTracking
<1>7. Routed(j) /\ RunsJudged(j)
  BY <1>1, <1>4, <1>5 DEF Routed, RunsJudged
<1> QED
  BY <1>2, <1>5, <1>6, <1>7

\* What apply_manual_time(), the promotion of a fallback and
\* align_to_time_of_day() leave alone: all that chooses and judges sources.
SameSources(st, e) ==
  /\ e.state = st.state /\ e.source = st.source /\ e.trk = st.trk
  /\ e.route = st.route /\ e.steered = st.steered /\ e.run = st.run
  /\ e.hold = st.hold

\* A free-run step is only asked for before anything has steered, when the
\* loop has never been anywhere but in ACQUIRE.
LEMMA FreeStepMid ==
  ASSUME NEW st \in Status, Mid(st), st.steered = FALSE
  PROVE  LET l == FreeRunStep(st.loop)
         IN  l \in Loop /\ l.state = "ACQUIRE" /\ l.profile = st.loop.profile
<1>1. st.loop \in Loop /\ st.loop.state = "ACQUIRE"
  BY DEF Mid, Coherent, Status
<1> QED
  BY <1>1 DEF FreeRunStep, Loop

\* apply_manual_time()
LEMMA ApplyManualTimeMid ==
  ASSUME NEW st \in Status, Mid(st), NEW manual \in BOOLEAN, NEW given \in Int
  PROVE  LET e == ApplyManualTime(st, manual, given)
         IN  Mid(e) /\ SameSources(st, e)
<1>1. CASE ~manual \/ st.state # "FREE_RUN" \/ st.steered = TRUE
  BY <1>1 DEF ApplyManualTime, SameSources
<1>2. CASE manual /\ st.state = "FREE_RUN" /\ st.steered = FALSE
  <2> DEFINE loop == FreeRunStep(st.loop)
             time == [known |-> TRUE, err |-> given, source |-> NoSource]
             e    == [st EXCEPT !.loop = loop, !.time = time, !.aligned = TRUE]
  <2>1. loop \in Loop /\ loop.state = "ACQUIRE" /\ loop.profile = st.loop.profile
    BY <1>2, FreeStepMid
  <2>2. time \in Time
    BY DEF Time, SourceOrNone
  <2>3. ApplyManualTime(st, manual, given) = e
    BY <1>2 DEF ApplyManualTime
  <2> HIDE DEF loop, time
  <2>4. e \in Status /\ e.loop = loop /\ SameSources(st, e)
    BY <2>1, <2>2 DEF Status, SameSources
  <2> HIDE DEF e
  <2>5. Mid(e)
    BY <2>1, <2>4, <1>2 DEF Mid, Coherent, SameSources, IsTracking
  <2> QED
    BY <2>3, <2>4, <2>5
<1> QED
  BY <1>1, <1>2 DEF Status

\* Promoting a fallback touches nothing else.
LEMMA PromoteFallbackMid ==
  ASSUME NEW st \in Status, Mid(st)
  PROVE  Mid(PromoteFallback(st)) /\ SameSources(st, PromoteFallback(st))
<1> DEFINE fallback == st.fallback /\ ~SourceGood(st, st.source)
           e == [st EXCEPT !.fallback = fallback]
<1>1. fallback \in BOOLEAN
  OBVIOUS
<1>2. PromoteFallback(st) = e
  BY DEF PromoteFallback
<1> HIDE DEF fallback
<1>3. e \in Status /\ e.loop = st.loop /\ SameSources(st, e)
  BY <1>1 DEF Status, SameSources
<1> HIDE DEF e
<1> QED
  BY <1>2, <1>3 DEF Mid, Coherent, SameSources, IsTracking

\* align_to_time_of_day()
LEMMA AlignMid ==
  ASSUME NEW st \in Status, Mid(st)
  PROVE  Mid(AlignToTimeOfDay(st)) /\ SameSources(st, AlignToTimeOfDay(st))
<1> DEFINE placed == \E s \in Sources \ Profiles : Placed(st.trk[s])
           loop == FreeRunStep(st.loop)
           e == [st EXCEPT !.aligned = TRUE, !.loop = loop]
<1>1. CASE st.state = "FREE_RUN" /\ ~st.aligned /\ ~st.steered /\ placed
  <2>1. st.steered = FALSE
    BY <1>1 DEF Status
  <2>2. loop \in Loop /\ loop.state = "ACQUIRE" /\ loop.profile = st.loop.profile
    BY <2>1, FreeStepMid
  <2>3. AlignToTimeOfDay(st) = e
    BY <1>1 DEF AlignToTimeOfDay
  <2> HIDE DEF loop
  <2>4. e \in Status /\ e.loop = loop /\ SameSources(st, e)
    BY <2>2 DEF Status, SameSources
  <2> HIDE DEF e
  <2> QED
    BY <2>1, <2>2, <2>3, <2>4 DEF Mid, Coherent, SameSources, IsTracking
<1>2. CASE ~(st.state = "FREE_RUN" /\ ~st.aligned /\ ~st.steered /\ placed)
  BY <1>2 DEF AlignToTimeOfDay, SameSources
<1> QED
  BY <1>1, <1>2

-----------------------------------------------------------------------------
\* follow_sources()

\* best_source() gives a source that steers, other than the one excepted, and
\* (the source in use apart) one whose verdict this epoch is GOOD.
LEMMA BestSourceIn ==
  ASSUME NEW st \in Status, NEW except, BestSource(st, except) # NoSource
  PROVE  /\ BestSource(st, except) \in Profiles
         /\ BestSource(st, except) # except
         /\ \/ SourceGood(st, BestSource(st, except))
            \/ BestSource(st, except) = st.source /\ IsTracking(st)
<1> DEFINE bound == [s \in Sources |-> CandidateBound(st, s)]
           set   == {s \in Sources \ {except} : bound[s] < BoundNone}
           best  == Least(set, bound)
<1>1. ASSUME NEW s \in Sources
      PROVE  /\ CandidateBound(st, s) \in Nat
             /\ CandidateBound(st, s) < BoundNone
                => /\ s \in Profiles
                   /\ SourceGood(st, s) \/ (s = st.source /\ IsTracking(st))
  <2>1. s # Hold
    BY SourceAssumption
  <2>2. st.trk[s].bound \in Nat /\ BoundNone \in Nat
    BY BoundAssumption DEF Status, Tracker
  <2> QED
    BY <2>1, <2>2 DEF CandidateBound
<1>2. bound \in [Sources -> Nat]
  BY <1>1
<1>3. set \in SUBSET Sources
  OBVIOUS
<1>4. best = BestSource(st, except)
  BY DEF BestSource
<1>5. best \in set
  <2> HIDE DEF bound, set
  <2> QED
    BY <1>2, <1>3, <1>4, LeastIn
<1>6. best \in Sources /\ best # except /\ CandidateBound(st, best) < BoundNone
  <2> HIDE DEF best
  <2> QED
    BY <1>5
<1> QED
  BY <1>1, <1>4, <1>6

\* ... and gives one whenever some source that steers is good and qualified.
LEMMA BestSourceFound ==
  ASSUME NEW st \in Status, ~IsTracking(st), NEW s \in Profiles, SourceGood(st, s),
         st.trk[s].goodRun >= QualifyEpochs
  PROVE  BestSource(st, NoSource) # NoSource
<1> DEFINE bound == [c \in Sources |-> CandidateBound(st, c)]
           set   == {c \in Sources \ {NoSource} : bound[c] < BoundNone}
<1>1. s \in Sources /\ s # NoSource /\ s # Hold
  BY SourceAssumption
<1>2. st.trk[s].bound < BoundNone
  BY <1>1, BoundAssumption DEF Status, Tracker
<1>3. CandidateBound(st, s) < BoundNone
  BY <1>1, <1>2 DEF CandidateBound
<1>4. s \in set
  BY <1>1, <1>3
<1>5. bound \in [Sources -> Nat]
  <2>1. ASSUME NEW c \in Sources PROVE CandidateBound(st, c) \in Nat
    <3>1. c # Hold
      BY SourceAssumption
    <3>2. st.trk[c].bound \in Nat /\ BoundNone \in Nat
      BY BoundAssumption DEF Status, Tracker
    <3> QED
      BY <3>1, <3>2 DEF CandidateBound
  <2> QED
    BY <2>1
<1>6. set \in SUBSET Sources
  OBVIOUS
<1>7. BestSource(st, NoSource) = Least(set, bound)
  BY DEF BestSource
<1> HIDE DEF set, bound
<1>8. BestSource(st, NoSource) \in set
  BY <1>4, <1>5, <1>6, <1>7, LeastIn
<1> QED
  BY <1>6, <1>8, SourceAssumption

\* best_fallback() gives a source that steers and is usable this epoch.
LEMMA BestFallbackIn ==
  ASSUME NEW st \in Status, RunsJudged(st), BestFallback(st) # NoSource
  PROVE  /\ BestFallback(st) \in Profiles
         /\ st.trk[BestFallback(st)].check \in {"GOOD", "INACCURATE"}
<1> DEFINE bound == [s \in Sources |-> st.trk[s].bound]
           set   == {s \in Profiles : st.trk[s].usableRun >= QualifyEpochs}
           best  == Least(set, bound)
<1>1. bound \in [Sources -> Nat]
  BY DEF Status, Tracker
<1>2. set \in SUBSET Sources
  BY SourceAssumption
<1>3. best = BestFallback(st)
  BY DEF BestFallback
<1>4. best \in set
  <2> HIDE DEF bound, set
  <2> QED
    BY <1>1, <1>2, <1>3, LeastIn
<1>5. best \in Profiles /\ best \in Sources /\ st.trk[best].usableRun >= QualifyEpochs
  <2> HIDE DEF best
  <2> QED
    BY <1>2, <1>4
<1>6. st.trk[best].usableRun > 0
  BY <1>5, QualifyAssumption DEF Status, Tracker
<1> QED
  BY <1>3, <1>5, <1>6 DEF RunsJudged

\* challenge() counts no further than SwitchEpochs, and only for a challenger.
LEMMA ChallengedResult ==
  ASSUME NEW st \in Status, st.run < SwitchEpochs, NEW challenger \in SourceOrNone,
         NEW incumbent
  PROVE  LET e == Challenged(st, challenger, incumbent)
         IN  /\ e \in Status /\ e.state = st.state /\ e.source = st.source
             /\ e.trk = st.trk /\ e.route = st.route /\ e.steered = st.steered
             /\ e.hold = st.hold /\ e.loop = st.loop /\ e.fallback = st.fallback
             /\ e.run >= SwitchEpochs => challenger # NoSource
<1>1. CASE ~Beats(st, challenger, incumbent)
  <2>1. 0 \in 0 .. SwitchEpochs /\ NoSource \in SourceOrNone /\ ~(0 >= SwitchEpochs)
    BY LimitAssumption DEF SourceOrNone
  <2> QED
    BY <1>1, <2>1 DEF Challenged, Status
<1>2. CASE Beats(st, challenger, incumbent)
  <2> DEFINE run == IF challenger = st.challenger THEN st.run + 1 ELSE 1
  <2>1. run \in 0 .. SwitchEpochs
    BY LimitAssumption DEF Status
  <2>2. challenger # NoSource
    BY <1>2 DEF Beats
  <2>3. Challenged(st, challenger, incumbent)
          = [st EXCEPT !.challenger = challenger, !.run = run]
    BY <1>2 DEF Challenged
  <2> HIDE DEF run
  <2> QED
    BY <2>1, <2>2, <2>3, ZenonT(60) DEF Status
<1> QED
  BY <1>1, <1>2

\* What follow_sources() leaves: whatever is steered by is usable this epoch.
Followed(st) ==
  Mid(st) /\ (IsTracking(st) => SourceUsable(st, st.source))

\* The moves it can make.
LEMMA AcquireFollowed ==
  ASSUME NEW st \in Status, NEW source \in Profiles, NEW reason \in Reasons,
         NEW fallback \in BOOLEAN,
         st.hold.ready => st.hold.source \in Profiles,
         st.loop.freeStep = TRUE => st.loop.state = "ACQUIRE",
         SourceGood(st, source)
           \/ (fallback = TRUE /\ st.trk[source].check = "INACCURATE")
  PROVE  Followed(Acquire(st, source, reason, fallback))
<1> DEFINE a == Acquire(st, source, reason, fallback)
<1>1. Acquired(st, source, fallback, a)
  BY AcquireResult
<1> HIDE DEF a
<1>2. source \in Sources /\ source # NoSource
  BY SourceAssumption
<1>3. Coherent(a)
  BY <1>1, <1>2, LimitAssumption DEF Acquired, Coherent, IsTracking, Carried
<1>4. SourceUsable(a, a.source)
  BY <1>1, <1>2 DEF Acquired, SourceUsable, SourceGood, Carried
<1>5. a.loop.freeStep = TRUE => a.loop.state = "ACQUIRE"
  BY <1>1 DEF Acquired
<1> QED
  BY <1>1, <1>3, <1>4, <1>5 DEF Acquired, Followed, Mid, a

\* Entering FREE_RUN from any state: nothing is selected, so nothing can be
\* selected wrongly (enter).
LEMMA EnterFreeRunFollowed ==
  ASSUME NEW st \in Status, NEW reason \in Reasons,
         st.steered => st.route = st.loop.profile,
         ~st.steered => st.loop.state = "ACQUIRE",
         st.hold.ready => st.steered /\ st.hold.source \in Profiles,
         st.loop.freeStep = TRUE => st.loop.state = "ACQUIRE"
  PROVE  Followed(Enter(st, "FREE_RUN", NoSource, reason))
<1> DEFINE e == Enter(st, "FREE_RUN", NoSource, reason)
<1>1. "FREE_RUN" \in States /\ NoSource \in SourceOrNone
  BY DEF States, SourceOrNone
<1>2. /\ e \in Status /\ Carried(st, e) /\ e.state = "FREE_RUN" /\ e.source = NoSource
      /\ e.run = 0 /\ e.loop = st.loop /\ e.route = st.route /\ e.steered = st.steered
  BY <1>1, EnterResult
<1> HIDE DEF e
<1>3. Coherent(e) /\ ~IsTracking(e)
  BY <1>2, LimitAssumption DEF Coherent, IsTracking, Carried
<1> QED
  BY <1>2, <1>3 DEF Followed, Mid, e

\* follow_sources() in FREE_RUN.
LEMMA FreeRunFollowed ==
  ASSUME NEW st \in Status, Mid(st), RunsJudged(st), st.state = "FREE_RUN"
  PROVE  Followed(FollowFreeRun(st))
<1> DEFINE best == BestSource(st, NoSource)
           back == BestFallback(st)
<1>1. Followed(st)
  BY DEF Followed, IsTracking
<1>2. "QUALIFIED" \in Reasons
  BY DEF Reasons
<1>3. /\ st.hold.ready => st.hold.source \in Profiles
      /\ st.loop.freeStep = TRUE => st.loop.state = "ACQUIRE"
  BY DEF Mid, Coherent
<1>4. CASE TimeOfDayPending(st)
  BY <1>1, <1>4 DEF FollowFreeRun
<1>5. CASE ~TimeOfDayPending(st) /\ best # NoSource
  <2>1. best \in Profiles /\ SourceGood(st, best)
    BY <1>5, BestSourceIn DEF IsTracking
  <2>2. FollowFreeRun(st) = Acquire(st, best, "QUALIFIED", FALSE)
    BY <1>5 DEF FollowFreeRun
  <2> HIDE DEF best
  <2> QED
    BY <1>2, <1>3, <2>1, <2>2, AcquireFollowed
<1>6. CASE ~TimeOfDayPending(st) /\ best = NoSource /\ back # NoSource
  <2>1. back \in Profiles /\ st.trk[back].check \in {"GOOD", "INACCURATE"}
    BY <1>6, BestFallbackIn
  <2>2. FollowFreeRun(st) = Acquire(st, back, "QUALIFIED", ~SourceGood(st, back))
    BY <1>6 DEF FollowFreeRun
  <2>3. back \in Sources
    BY <2>1, SourceAssumption
  <2> HIDE DEF back
  <2>4. CASE SourceGood(st, back)
    <3>1. FollowFreeRun(st) = Acquire(st, back, "QUALIFIED", FALSE)
      BY <2>2, <2>4
    <3> QED
      BY <1>2, <1>3, <2>1, <2>4, <3>1, AcquireFollowed
  <2>5. CASE ~SourceGood(st, back)
    <3>1. FollowFreeRun(st) = Acquire(st, back, "QUALIFIED", TRUE)
      BY <2>2, <2>5
    <3>2. st.trk[back].check = "INACCURATE"
      BY <2>1, <2>3, <2>5 DEF SourceGood
    <3> QED
      BY <1>2, <1>3, <2>1, <3>1, <3>2, AcquireFollowed
  <2> QED
    BY <2>4, <2>5
<1>7. CASE ~TimeOfDayPending(st) /\ best = NoSource /\ back = NoSource
  BY <1>1, <1>7 DEF FollowFreeRun
<1> QED
  BY <1>4, <1>5, <1>6, <1>7

\* follow_sources() in ACQUIRE and LOCKED: the source is kept only if usable,
\* and holdover entered only if it is of this source.
LEMMA TrackingFollowed ==
  ASSUME NEW st \in Status, Mid(st), IsTracking(st)
  PROVE  Followed(FollowTracking(st))
<1> DEFINE best == BestSource(st, st.source)
           challenged == Challenged(st, best, CurrentBound(st))
<1>1. "BETTER_SOURCE" \in Reasons /\ "SOURCE_LOST" \in Reasons /\ "ALTERNATIVE" \in Reasons
  BY DEF Reasons
<1>2. /\ st.hold.ready => st.hold.source \in Profiles /\ st.steered
      /\ st.loop.freeStep = TRUE => st.loop.state = "ACQUIRE"
      /\ st.run < SwitchEpochs
      /\ st.steered => st.route = st.loop.profile
      /\ ~st.steered => st.loop.state = "ACQUIRE"
  BY DEF Mid, Coherent
<1>3. best # NoSource => best \in Profiles /\ SourceGood(st, best)
  BY BestSourceIn
<1>4. best \in SourceOrNone
  BY <1>3, SourceAssumption DEF SourceOrNone
<1> HIDE DEF best
<1>5. /\ challenged \in Status /\ challenged.state = st.state
      /\ challenged.source = st.source
      /\ challenged.trk = st.trk /\ challenged.route = st.route
      /\ challenged.steered = st.steered /\ challenged.hold = st.hold
      /\ challenged.loop = st.loop /\ challenged.fallback = st.fallback
      /\ challenged.run >= SwitchEpochs => best # NoSource
  BY <1>2, <1>4, ChallengedResult
<1>6. CASE SourceUsable(st, st.source) /\ challenged.run >= SwitchEpochs
  <2>1. FollowTracking(st) = Acquire(challenged, best, "BETTER_SOURCE", FALSE)
    BY <1>6 DEF FollowTracking, best
  <2> HIDE DEF challenged
  <2>2. best \in Profiles /\ SourceGood(challenged, best)
    BY <1>3, <1>5, <1>6 DEF SourceGood
  <2> QED
    BY <1>1, <1>2, <1>5, <2>1, <2>2, AcquireFollowed
<1>7. CASE SourceUsable(st, st.source) /\ ~(challenged.run >= SwitchEpochs)
  <2>1. FollowTracking(st) = challenged
    BY <1>7 DEF FollowTracking, best
  <2> HIDE DEF challenged
  <2>2. SourceUsable(challenged, challenged.source)
    BY <1>5, <1>7 DEF SourceUsable, SourceGood
  <2>3. challenged.run < SwitchEpochs
    BY <1>5, <1>7, LimitAssumption DEF Status
  <2>4. Mid(challenged)
    BY <1>5, <2>3 DEF Mid, Coherent, IsTracking
  <2> QED
    BY <2>1, <2>2, <2>4 DEF Followed
<1>8. CASE ~SourceUsable(st, st.source) /\ CandidateBound(st, Hold) # BoundNone
  <2> DEFINE e == Enter(st, "HOLDOVER", st.hold.source, "SOURCE_LOST")
  <2>1. FollowTracking(st) = e
    BY <1>8 DEF FollowTracking
  <2>2. st.hold.ready
    BY <1>8 DEF CandidateBound
  <2>3. st.hold.source \in Profiles /\ st.hold.source \in SourceOrNone
        /\ "HOLDOVER" \in States /\ st.hold.source # NoSource
    BY <1>2, <2>2, SourceAssumption DEF SourceOrNone, States
  <2>4. /\ e \in Status /\ Carried(st, e) /\ e.state = "HOLDOVER"
        /\ e.source = st.hold.source /\ e.run = 0
        /\ e.loop = st.loop /\ e.route = st.route /\ e.steered = st.steered
    BY <1>1, <2>3, EnterResult
  <2> HIDE DEF e
  <2>5. Coherent(e) /\ ~IsTracking(e)
    BY <1>2, <2>2, <2>3, <2>4, LimitAssumption DEF Coherent, IsTracking, Carried
  <2> QED
    BY <1>2, <2>1, <2>4, <2>5 DEF Followed, Mid
<1>9. CASE /\ ~SourceUsable(st, st.source) /\ CandidateBound(st, Hold) = BoundNone
           /\ best # NoSource
  <2>1. FollowTracking(st) = Acquire(st, best, "ALTERNATIVE", FALSE)
    BY <1>9 DEF FollowTracking, best
  <2> QED
    BY <1>1, <1>2, <1>3, <1>9, <2>1, AcquireFollowed
<1>10. CASE /\ ~SourceUsable(st, st.source) /\ CandidateBound(st, Hold) = BoundNone
            /\ best = NoSource
  <2>1. FollowTracking(st) = Enter(st, "FREE_RUN", NoSource, "SOURCE_LOST")
    BY <1>10 DEF FollowTracking, best
  <2> QED
    BY <1>1, <1>2, <2>1, EnterFreeRunFollowed
<1> QED
  BY <1>6, <1>7, <1>8, <1>9, <1>10

\* follow_sources() in HOLDOVER: LOCKED again only on a source whose edge is
\* the one captured.
LEMMA HoldingFollowed ==
  ASSUME NEW st \in Status, Mid(st), Routed(st), st.state = "HOLDOVER"
  PROVE  Followed(FollowHolding(st))
<1> DEFINE best == BestSource(st, NoSource)
           bound == HoldoverBound(st)
           selected == st.trk[st.source]
           challenged == Challenged(st, best, bound)
           back == /\ SourceUsable(st, st.source) /\ selected.rep.captured
                   /\ selected.bound <= bound
           lost == best = st.source /\ ~selected.rep.captured
<1>1. "SOURCE_BACK" \in Reasons /\ "EXPIRED" \in Reasons /\ "ALTERNATIVE" \in Reasons
  BY DEF Reasons
<1>2. /\ st.hold.ready => st.hold.source \in Profiles /\ st.steered
      /\ st.loop.freeStep = TRUE => st.loop.state = "ACQUIRE"
      /\ st.run < SwitchEpochs /\ st.steered
      /\ st.steered => st.route = st.loop.profile
      /\ ~st.steered => st.loop.state = "ACQUIRE"
      /\ st.hold.ready /\ st.hold.source = st.source /\ st.source \in Profiles
      /\ st.source # NoSource
  BY SourceAssumption DEF Mid, Coherent
<1>3. best # NoSource => best \in Profiles /\ SourceGood(st, best)
  BY BestSourceIn DEF IsTracking
<1>4. best \in SourceOrNone
  BY <1>3, SourceAssumption DEF SourceOrNone
<1> HIDE DEF best
<1>5. /\ challenged \in Status /\ challenged.state = st.state
      /\ challenged.source = st.source
      /\ challenged.trk = st.trk /\ challenged.route = st.route
      /\ challenged.steered = st.steered /\ challenged.hold = st.hold
      /\ challenged.loop = st.loop /\ challenged.fallback = st.fallback
      /\ challenged.run >= SwitchEpochs => best # NoSource
  <2>1. st.run < SwitchEpochs
    BY <1>2
  <2> HIDE DEF back, bound, lost
  <2> QED
    BY <2>1, <1>4, ChallengedResult
<1>6. CASE back
  <2> DEFINE e == Enter(st, "LOCKED", st.source, "SOURCE_BACK")
  <2>1. FollowHolding(st) = e
    BY <1>6 DEF FollowHolding
  <2>2. st.source = st.route
    BY <1>2, <1>6, SourceAssumption DEF Routed
  <2>3. "LOCKED" \in States /\ st.source \in SourceOrNone
    BY <1>2, SourceAssumption DEF States, SourceOrNone
  <2>4. /\ e \in Status /\ Carried(st, e) /\ e.state = "LOCKED"
        /\ e.source = st.source /\ e.run = 0
        /\ e.loop = st.loop /\ e.route = st.route /\ e.steered = st.steered
        /\ e.fallback = (st.fallback /\ st.source = st.source)
    BY <1>1, <2>3, EnterResult
  <2> HIDE DEF e
  <2>5. Coherent(e)
    BY <1>2, <2>2, <2>4, LimitAssumption DEF Coherent, IsTracking, Carried
  <2>6. SourceUsable(e, e.source)
    BY <1>6, <2>4 DEF SourceUsable, SourceGood, Carried
  <2> QED
    BY <1>2, <2>1, <2>4, <2>5, <2>6 DEF Followed, Mid
<1>7. CASE ~back /\ lost
  <2>1. FollowHolding(st) = Acquire(st, best, "SOURCE_BACK", FALSE)
    BY <1>7 DEF FollowHolding, best
  <2>2. best # NoSource
    BY <1>2, <1>7
  <2> QED
    BY <1>1, <1>2, <1>3, <2>1, <2>2, AcquireFollowed
<1>8. CASE ~back /\ ~lost /\ challenged.run >= SwitchEpochs
  <2>1. FollowHolding(st) = Acquire(challenged, best, "ALTERNATIVE", FALSE)
    BY <1>8 DEF FollowHolding, best
  <2> HIDE DEF challenged
  <2>2. best \in Profiles /\ SourceGood(challenged, best)
    BY <1>3, <1>5, <1>8 DEF SourceGood
  <2> QED
    BY <1>1, <1>2, <1>5, <2>1, <2>2, AcquireFollowed
<1>9. CASE ~back /\ ~lost /\ ~(challenged.run >= SwitchEpochs) /\ bound > SyncLimit
  <2>1. FollowHolding(st) = Enter(challenged, "FREE_RUN", NoSource, "EXPIRED")
    BY <1>9 DEF FollowHolding, best
  <2> HIDE DEF challenged
  <2> QED
    BY <1>1, <1>2, <1>5, <2>1, EnterFreeRunFollowed
<1>10. CASE ~back /\ ~lost /\ ~(challenged.run >= SwitchEpochs) /\ ~(bound > SyncLimit)
  <2>1. FollowHolding(st) = challenged
    BY <1>10 DEF FollowHolding, best
  <2> HIDE DEF challenged
  <2>2. challenged.run < SwitchEpochs
    BY <1>5, <1>10, LimitAssumption DEF Status
  <2>3. Mid(challenged) /\ ~IsTracking(challenged)
    BY <1>5, <2>2 DEF Mid, Coherent, IsTracking
  <2> QED
    BY <2>1, <2>3 DEF Followed
<1> QED
  BY <1>6, <1>7, <1>8, <1>9, <1>10

\* follow_sources(), whatever the state.
LEMMA FollowSourcesFollowed ==
  ASSUME NEW st \in Status, Mid(st), Routed(st), RunsJudged(st)
  PROVE  Followed(FollowSources(st))
<1>1. CASE st.state = "FREE_RUN"
  BY <1>1, FreeRunFollowed DEF FollowSources, IsTracking
<1>2. CASE IsTracking(st)
  BY <1>2, TrackingFollowed DEF FollowSources, IsTracking
<1>3. CASE st.state = "HOLDOVER"
  BY <1>3, HoldingFollowed DEF FollowSources, IsTracking
<1> QED
  BY <1>1, <1>2, <1>3 DEF Status, States, IsTracking

-----------------------------------------------------------------------------
\* The loop's turn, and what follows it

\* After the loop's turn the steering facts hold, but holdover still is to be
\* restarted by the epoch that has just locked.
Steered(st) ==
  /\ st \in Status
  /\ st.state = "FREE_RUN" <=> st.source = NoSource
  /\ st.source \in Profiles \cup {NoSource}
  /\ st.state # "FREE_RUN" => st.steered
  /\ st.steered => st.route = st.loop.profile
  /\ IsTracking(st) => st.route = st.source
  /\ ~st.steered => st.loop.state = "ACQUIRE"
  /\ st.hold.ready => st.steered /\ st.hold.source \in Profiles
  /\ \/ st.state = "LOCKED" /\ st.kind = "MEASURED"
     \/ st.state \in {"LOCKED", "HOLDOVER"} => st.hold.ready /\ st.hold.source = st.source
  /\ st.run < SwitchEpochs
  /\ Processed(st)
  /\ st.usable => st.source \in Profiles

\* The loop's turn and follow_loop(): LOCKED and STEP end up where the loop is.
LEMMA RunLoopSteered ==
  ASSUME NEW st \in Status, Followed(st), NEW cap \in Capture
  PROVE  Steered(RunLoop(st, cap))
<1> DEFINE usable == /\ IsTracking(st) /\ SourceUsable(st, st.source)
                     /\ st.trk[st.source].rep.captured
           outcome == LoopUpdate(st.loop, usable, cap)
           mid == [st EXCEPT !.loop = outcome.loop, !.kind = outcome.kind,
                             !.usable = usable, !.phaseValid = cap.phaseValid,
                             !.phase = cap.phase]
           r == FollowLoop(mid, outcome.entered)
<1>1. usable \in BOOLEAN /\ (usable => IsTracking(st))
  OBVIOUS
<1>2. st.loop \in Loop /\ cap.phaseValid \in BOOLEAN /\ cap.phase \in Int
  BY DEF Status, Capture
<1>3. RunLoop(st, cap) = r
  BY DEF RunLoop
<1> HIDE DEF usable
<1>4. LoopResult(st.loop, usable, outcome)
  BY <1>1, <1>2, LoopUpdateResult
<1> HIDE DEF outcome
<1>5. /\ outcome.loop \in Loop /\ outcome.kind \in UpdateKinds
      /\ outcome.entered \in BOOLEAN
      /\ outcome.loop.profile = st.loop.profile
      /\ outcome.loop.state = "STEP" => usable
      /\ st.loop.state = "ACQUIRE" /\ ~usable => outcome.loop.state = "ACQUIRE"
      /\ outcome.loop.freeStep = FALSE
  <2>1. st.loop.freeStep \in BOOLEAN /\ (st.loop.freeStep = TRUE => st.loop.state = "ACQUIRE")
    BY <1>2 DEF Loop, Followed, Mid
  <2> QED
    BY <1>4, <2>1 DEF LoopResult
<1>6. /\ mid \in Status /\ mid.loop = outcome.loop /\ mid.kind = outcome.kind
      /\ mid.usable = usable
      /\ mid.state = st.state /\ mid.source = st.source /\ mid.trk = st.trk
      /\ mid.hold = st.hold /\ mid.route = st.route /\ mid.steered = st.steered
      /\ mid.run = st.run /\ mid.fallback = st.fallback
  BY <1>1, <1>2, <1>5 DEF Status
<1> HIDE DEF mid
<1>7. st.state # "FREE_RUN" => st.steered
  BY DEF Followed, Mid, Coherent
<1>8. mid.steered = FALSE => mid.loop.state = "ACQUIRE"
  BY <1>1, <1>5, <1>6, <1>7 DEF Followed, Mid, Coherent, IsTracking
<1>9. mid.usable => mid.source \in Profiles
  BY <1>1, <1>6, SourceAssumption DEF Followed, Mid, Coherent, IsTracking
<1>10. IsTracking(mid) => SourceUsable(mid, mid.source)
  BY <1>6 DEF Followed, IsTracking, SourceUsable, SourceGood
<1>11. CASE /\ mid.state = "ACQUIRE" /\ mid.loop.state = "TRACK"
            /\ ~outcome.entered /\ mid.kind = "MEASURED"
  <2> DEFINE e == Enter(mid, "LOCKED", mid.source, "TRACKING")
  <2>1. r = e
    BY <1>11 DEF FollowLoop
  <2>2. "LOCKED" \in States /\ "TRACKING" \in Reasons /\ mid.source \in SourceOrNone
    BY <1>6 DEF States, Reasons, Status
  <2>3. /\ e \in Status /\ Carried(mid, e) /\ e.state = "LOCKED" /\ e.source = mid.source
        /\ e.run = 0 /\ e.loop = mid.loop /\ e.route = mid.route
        /\ e.steered = mid.steered /\ e.fallback = (mid.fallback /\ mid.source = mid.source)
    BY <1>6, <2>2, EnterResult
  <2> HIDE DEF e
  <2>4. Processed(e)
    BY <1>5, <1>6, <1>10, <1>11, <2>3
       DEF Processed, IsTracking, SourceUsable, SourceGood, Carried
  <2>5. Steered(e)
    BY <1>5, <1>6, <1>8, <1>9, <1>11, <2>3, <2>4, LimitAssumption
       DEF Steered, Followed, Mid, Coherent, IsTracking, Carried
  <2> QED
    BY <1>3, <2>1, <2>5
<1>12. CASE mid.state = "LOCKED" /\ mid.loop.state # "TRACK"
  <2> DEFINE e == Enter(mid, "ACQUIRE", mid.source, "PHASE_LOST")
  <2>1. r = e
    BY <1>12 DEF FollowLoop
  <2>2. "ACQUIRE" \in States /\ "PHASE_LOST" \in Reasons /\ mid.source \in SourceOrNone
    BY <1>6 DEF States, Reasons, Status
  <2>3. /\ e \in Status /\ Carried(mid, e) /\ e.state = "ACQUIRE" /\ e.source = mid.source
        /\ e.run = 0 /\ e.loop = mid.loop /\ e.route = mid.route
        /\ e.steered = mid.steered /\ e.fallback = (mid.fallback /\ mid.source = mid.source)
    BY <1>6, <2>2, EnterResult
  <2> HIDE DEF e
  <2>4. Processed(e)
    BY <1>5, <1>6, <1>10, <1>12, <2>3
       DEF Processed, IsTracking, SourceUsable, SourceGood, Carried
  <2>5. Steered(e)
    BY <1>5, <1>6, <1>8, <1>9, <1>12, <2>3, <2>4, LimitAssumption
       DEF Steered, Followed, Mid, Coherent, IsTracking, Carried
  <2> QED
    BY <1>3, <2>1, <2>5
<1>13. CASE /\ ~(/\ mid.state = "ACQUIRE" /\ mid.loop.state = "TRACK"
                 /\ ~outcome.entered /\ mid.kind = "MEASURED")
            /\ ~(mid.state = "LOCKED" /\ mid.loop.state # "TRACK")
  <2>1. r = mid
    BY <1>13 DEF FollowLoop
  <2>2. mid.loop.state = "STEP" => mid.state = "ACQUIRE"
    BY <1>1, <1>5, <1>6, <1>13 DEF IsTracking
  <2>3. Processed(mid)
    BY <1>5, <1>6, <1>10, <1>13, <2>2 DEF Processed
  <2>4. Steered(mid)
    BY <1>5, <1>6, <1>8, <1>9, <2>3 DEF Steered, Followed, Mid, Coherent, IsTracking
  <2> QED
    BY <1>3, <2>1, <2>4
<1> QED
  BY <1>11, <1>12, <1>13

\* follow_holdover() leaves the steering alone, and restarts holdover by the
\* source an epoch was steered by while locked.
LEMMA FollowHoldoverCoherent ==
  ASSUME NEW st \in Status, Steered(st)
  PROVE  LET e == FollowHoldover(st)
         IN  e \in Status /\ Coherent(e) /\ Processed(e)
             /\ (e.usable => e.source \in Profiles)
<1>1. CASE st.state = "LOCKED" /\ st.kind = "MEASURED"
  <2> DEFINE hold == [ready |-> TRUE, source |-> st.source, age |-> 0,
                      base |-> Saturate(st.trk[st.source].bound + Magnitude(st.phase)),
                      freq |-> HoldoverFreq[st.source]]
             e == [st EXCEPT !.hold = hold]
  <2>1. st.source \in Profiles /\ st.source \in Sources
    BY <1>1, SourceAssumption DEF Steered
  <2>2. st.trk[st.source].bound + Magnitude(st.phase) \in Nat
    BY <2>1 DEF Status, Tracker, Magnitude
  <2>3. Saturate(st.trk[st.source].bound + Magnitude(st.phase)) \in 0 .. BoundNone - 1
    BY <2>2, BoundAssumption DEF Saturate
  <2>4. hold \in Holdover /\ hold.ready /\ hold.source = st.source
    BY <2>1, <2>3, LimitAssumption DEF Holdover, SourceOrNone
  <2>5. FollowHoldover(st) = e
    BY <1>1 DEF FollowHoldover
  <2> HIDE DEF hold
  <2>6. /\ e \in Status /\ e.hold = hold /\ e.state = st.state /\ e.source = st.source
        /\ e.trk = st.trk /\ e.route = st.route /\ e.steered = st.steered
        /\ e.run = st.run /\ e.fallback = st.fallback /\ e.loop = st.loop
        /\ e.usable = st.usable
    BY <2>4 DEF Status
  <2> HIDE DEF e
  <2>7. Coherent(e)
    BY <1>1, <2>1, <2>4, <2>6 DEF Steered, Coherent, IsTracking
  <2>8. Processed(e)
    BY <2>6 DEF Steered, Processed, IsTracking, SourceUsable, SourceGood
  <2> QED
    BY <2>5, <2>6, <2>7, <2>8 DEF Steered
<1>2. CASE ~(st.state = "LOCKED" /\ st.kind = "MEASURED")
           /\ st.hold.ready /\ st.hold.age < MaxAge
  <2> DEFINE hold == [st.hold EXCEPT !.age = @ + 1]
             e == [st EXCEPT !.hold = hold]
  <2>1. st.hold.age + 1 \in 0 .. MaxAge
    BY <1>2, LimitAssumption DEF Status, Holdover
  <2>2. hold \in Holdover /\ hold.ready = st.hold.ready /\ hold.source = st.hold.source
    BY <2>1 DEF Status, Holdover
  <2>3. FollowHoldover(st) = e
    BY <1>2 DEF FollowHoldover
  <2> HIDE DEF hold
  <2>4. /\ e \in Status /\ e.hold = hold /\ e.state = st.state /\ e.source = st.source
        /\ e.trk = st.trk /\ e.route = st.route /\ e.steered = st.steered
        /\ e.run = st.run /\ e.fallback = st.fallback /\ e.loop = st.loop
        /\ e.usable = st.usable
    BY <2>2 DEF Status
  <2> HIDE DEF e
  <2>5. Coherent(e)
    BY <1>2, <2>2, <2>4 DEF Steered, Coherent, IsTracking
  <2>6. Processed(e)
    BY <2>4 DEF Steered, Processed, IsTracking, SourceUsable, SourceGood
  <2> QED
    BY <2>3, <2>4, <2>5, <2>6 DEF Steered
<1>3. CASE ~(st.state = "LOCKED" /\ st.kind = "MEASURED")
           /\ ~(st.hold.ready /\ st.hold.age < MaxAge)
  <2>1. FollowHoldover(st) = st
    BY <1>3 DEF FollowHoldover
  <2> QED
    BY <1>3, <2>1 DEF Steered, Coherent
<1> QED
  BY <1>1, <1>2, <1>3

\* What the last stages leave: the inductive invariant itself.
Kept(st) == st \in Status /\ Coherent(st) /\ Processed(st)

\* keep_time() only changes the label.
LEMMA KeepTimeKept ==
  ASSUME NEW st \in Status, Kept(st), st.usable => st.source \in Profiles
  PROVE  Kept(KeepTime(st))
<1> DEFINE giver == IF st.usable THEN st.source
                    ELSE IF st.time.known THEN NoSource ELSE Seeder(st)
           bound == [s \in Sources |-> st.trk[s].bound]
           set == {s \in Sources : /\ st.trk[s].check \in {"GOOD", "INACCURATE"}
                                   /\ st.trk[s].rep.labelled}
           time == [known |-> TRUE, err |-> LabelEpoch(st.trk[giver]), source |-> giver]
           e == [st EXCEPT !.time = time]
<1>1. bound \in [Sources -> Nat] /\ set \in SUBSET Sources
  BY DEF Status, Tracker
<1>2. Seeder(st) = Least(set, bound)
  BY DEF Seeder
<1>3. Seeder(st) \in SourceOrNone
  <2> HIDE DEF set, bound
  <2> QED
    BY <1>1, <1>2, LeastIn DEF SourceOrNone
<1>4. giver # NoSource => giver \in Sources
  BY <1>3, SourceAssumption DEF SourceOrNone
<1>5. KeepTime(st) = IF giver = NoSource THEN st ELSE e
  BY DEF KeepTime
<1> HIDE DEF giver
<1>6. CASE giver = NoSource
  BY <1>5, <1>6
<1>7. CASE giver # NoSource
  <2>1. st.trk[giver] \in Tracker
    BY <1>4, <1>7 DEF Status
  <2>2. time \in Time
    <3>1. LabelEpoch(st.trk[giver]) \in Int
      BY <2>1 DEF LabelEpoch, Tracker, Report
    <3> QED
      BY <1>4, <1>7, <3>1 DEF Time, SourceOrNone
  <2> HIDE DEF time
  <2>3. /\ e \in Status /\ e.hold = st.hold /\ e.state = st.state /\ e.source = st.source
        /\ e.trk = st.trk /\ e.route = st.route /\ e.steered = st.steered
        /\ e.run = st.run /\ e.fallback = st.fallback /\ e.loop = st.loop
    BY <2>2 DEF Status
  <2>4. KeepTime(st) = e
    BY <1>5, <1>7
  <2> HIDE DEF e
  <2>5. Coherent(e) /\ Processed(e)
    BY <2>3 DEF Kept, Coherent, Processed, IsTracking, SourceUsable, SourceGood
  <2> QED
    BY <2>3, <2>4, <2>5 DEF Kept
<1> QED
  BY <1>6, <1>7

\* The end of the epoch only changes the count and the pairing of edges.
LEMMA EndEpochKept ==
  ASSUME NEW st \in Status, Kept(st), NEW before, NEW captured \in BOOLEAN
  PROVE  Kept(EndEpoch(st, before, captured))
<1> DEFINE epochs == IF st.epochs < AlignWait THEN st.epochs + 1 ELSE st.epochs
           paired == captured /\ st.route = before.route
           e == [st EXCEPT !.epochs = epochs, !.paired = paired]
<1>1. epochs \in 0 .. AlignWait
  BY LimitAssumption DEF Status
<1>2. paired \in BOOLEAN
  OBVIOUS
<1>3. EndEpoch(st, before, captured) = e
  BY DEF EndEpoch
<1> HIDE DEF epochs, paired
<1>4. /\ e \in Status /\ e.hold = st.hold /\ e.state = st.state /\ e.source = st.source
      /\ e.trk = st.trk /\ e.route = st.route /\ e.steered = st.steered
      /\ e.run = st.run /\ e.fallback = st.fallback /\ e.loop = st.loop
  BY <1>1, <1>2 DEF Status
<1> HIDE DEF e
<1>5. Coherent(e) /\ Processed(e)
  BY <1>4 DEF Kept, Coherent, Processed, IsTracking, SourceUsable, SourceGood
<1> QED
  BY <1>3, <1>4, <1>5 DEF Kept

\* The snapshot handed to the loop is a capture of the loop's type.
LEMMA CaptureType ==
  ASSUME NEW before \in Status, NEW judged \in Status, NEW epochSeen \in BOOLEAN,
         NEW refused \in BOOLEAN
  PROVE  CaptureOf(before, judged, epochSeen, refused) \in Capture
<1> DEFINE rep == judged.trk[before.route].rep
<1>1. before.route \in Sources
  BY SourceAssumption DEF Status
<1>2. rep \in Report /\ before.paired \in BOOLEAN
  BY <1>1 DEF Status, Tracker
<1> HIDE DEF rep
<1>3. (rep.captured /\ epochSeen) \in BOOLEAN /\ (rep.captured /\ before.paired) \in BOOLEAN
  OBVIOUS
<1>4. (IF rep.captured /\ epochSeen THEN rep.phase ELSE 0) \in Int
  BY <1>2 DEF Report
<1>5. CaptureOf(before, judged, epochSeen, refused)
        = [phaseValid |-> rep.captured /\ epochSeen,
           phase |-> IF rep.captured /\ epochSeen THEN rep.phase ELSE 0,
           period |-> rep.captured /\ before.paired,
           refused |-> refused]
  BY DEF CaptureOf, rep
<1> QED
  BY <1>3, <1>4, <1>5 DEF Capture

-----------------------------------------------------------------------------
\* What the stages carry: the label, the records and the alignment

\* What no stage after align_to_time_of_day() changes, keep_time() apart.
Onward(st, e) ==
  e.time = st.time /\ e.trk = st.trk /\ e.aligned = st.aligned

\* What a challenge leaves alone, and what any selection does: a source is only
\* routed to be acquired.
Alike(st, e)  == Onward(st, e) /\ e.hold = st.hold /\ e.route = st.route
Chosen(st, e) == /\ Onward(st, e) /\ e.hold = st.hold
                 /\ e.state = "ACQUIRE" \/ e.route = st.route

\* challenge()
LEMMA ChallengedAlike ==
  ASSUME NEW st \in Status, NEW challenger, NEW incumbent
  PROVE  Alike(st, Challenged(st, challenger, incumbent))
  BY DEF Challenged, Status, Alike, Onward

\* A selection changes the source, never the label (keep_time() alone does) nor
\* holdover (follow_holdover() does), and only acquire() routes another edge.
LEMMA FollowSourcesChosen ==
  ASSUME NEW st \in Status, Mid(st), RunsJudged(st)
  PROVE  Chosen(st, FollowSources(st))
<1>0. Alike(st, st) /\ Chosen(st, st)
  BY DEF Alike, Chosen, Onward
<1>1. /\ "QUALIFIED" \in Reasons /\ "BETTER_SOURCE" \in Reasons
      /\ "ALTERNATIVE" \in Reasons /\ "SOURCE_LOST" \in Reasons
      /\ "SOURCE_BACK" \in Reasons /\ "EXPIRED" \in Reasons
      /\ "FREE_RUN" \in States /\ "HOLDOVER" \in States /\ "LOCKED" \in States
      /\ NoSource \in SourceOrNone /\ FALSE \in BOOLEAN
  BY DEF Reasons, States, SourceOrNone
<1>2. ASSUME NEW e \in Status, Alike(st, e), NEW source \in Profiles,
             NEW reason \in Reasons, NEW fallback \in BOOLEAN
      PROVE  Chosen(st, Acquire(e, source, reason, fallback))
  <2> DEFINE a == Acquire(e, source, reason, fallback)
  <2>1. Acquired(e, source, fallback, a)
    BY AcquireResult
  <2> HIDE DEF a
  <2>2. Chosen(st, a)
    BY <1>2, <2>1 DEF Acquired, Carried, Alike, Chosen, Onward
  <2> QED
    BY <2>2 DEF a
<1>3. ASSUME NEW e \in Status, Alike(st, e), NEW state \in States,
             NEW source \in SourceOrNone, NEW reason \in Reasons
      PROVE  Chosen(st, Enter(e, state, source, reason))
  BY <1>3, EnterResult DEF Carried, Alike, Chosen, Onward
<1>4. ASSUME NEW except PROVE BestSource(st, except) # NoSource
                              => BestSource(st, except) \in Profiles
  BY BestSourceIn
<1>5. ASSUME NEW except PROVE BestSource(st, except) \in SourceOrNone
  BY <1>4, SourceAssumption DEF SourceOrNone
<1>6. st.run < SwitchEpochs
  BY DEF Mid, Coherent
<1>7. ASSUME NEW except, NEW incumbent
      PROVE  LET c == Challenged(st, BestSource(st, except), incumbent)
             IN  /\ c \in Status /\ Alike(st, c)
                 /\ c.run >= SwitchEpochs => BestSource(st, except) \in Profiles
  <2> DEFINE best == BestSource(st, except)
             c == Challenged(st, best, incumbent)
  <2>1. best \in SourceOrNone /\ (best # NoSource => best \in Profiles)
    BY <1>4, <1>5
  <2> HIDE DEF best
  <2>2. c \in Status /\ (c.run >= SwitchEpochs => best # NoSource)
    BY <1>6, <2>1, ChallengedResult
  <2>3. Alike(st, c)
    BY ChallengedAlike
  <2> HIDE DEF c
  <2> QED
    BY <2>1, <2>2, <2>3 DEF c, best
<1>8. CASE st.state = "FREE_RUN"
  <2>1. FollowSources(st) = FollowFreeRun(st)
    BY <1>8 DEF FollowSources, IsTracking
  <2> DEFINE best == BestSource(st, NoSource)
             back == BestFallback(st)
             only == ~SourceGood(st, back)
  <2>2. best # NoSource => best \in Profiles
    BY <1>4
  <2>3. back # NoSource => back \in Profiles
    BY BestFallbackIn
  <2>4. only \in BOOLEAN
    OBVIOUS
  <2> DEFINE taken  == Acquire(st, best, "QUALIFIED", FALSE)
             backed == Acquire(st, back, "QUALIFIED", only)
  <2>5. \/ FollowFreeRun(st) = st
        \/ best # NoSource /\ FollowFreeRun(st) = taken
        \/ back # NoSource /\ FollowFreeRun(st) = backed
    BY DEF FollowFreeRun
  <2> HIDE DEF best, back, only
  <2>6. best # NoSource => Chosen(st, taken)
    BY <1>1, <1>2, <1>0, <2>2
  <2>7. back # NoSource => Chosen(st, backed)
    BY <1>1, <1>2, <1>0, <2>3, <2>4
  <2> HIDE DEF taken, backed
  <2> QED
    BY <1>0, <2>1, <2>5, <2>6, <2>7
<1>9. CASE IsTracking(st)
  <2>1. FollowSources(st) = FollowTracking(st)
    BY <1>9 DEF FollowSources, IsTracking
  <2> DEFINE best == BestSource(st, st.source)
             c == Challenged(st, best, CurrentBound(st))
  <2>2. /\ c \in Status /\ Alike(st, c)
        /\ c.run >= SwitchEpochs => best \in Profiles
    BY <1>7
  <2>3. best # NoSource => best \in Profiles
    BY <1>4
  <2>4. st.hold.source \in SourceOrNone
    BY DEF Status, Holdover
  <2>5. \/ FollowTracking(st) = c
        \/ /\ c.run >= SwitchEpochs
           /\ FollowTracking(st) = Acquire(c, best, "BETTER_SOURCE", FALSE)
        \/ FollowTracking(st) = Enter(st, "HOLDOVER", st.hold.source, "SOURCE_LOST")
        \/ best # NoSource /\ FollowTracking(st) = Acquire(st, best, "ALTERNATIVE", FALSE)
        \/ FollowTracking(st) = Enter(st, "FREE_RUN", NoSource, "SOURCE_LOST")
    BY DEF FollowTracking
  <2> HIDE DEF best, c
  <2>6. c.run >= SwitchEpochs => Chosen(st, Acquire(c, best, "BETTER_SOURCE", FALSE))
    BY <1>1, <1>2, <1>0, <2>2
  <2>7. Chosen(st, Enter(st, "HOLDOVER", st.hold.source, "SOURCE_LOST"))
    BY <1>1, <1>3, <1>0, <2>4
  <2>8. best # NoSource => Chosen(st, Acquire(st, best, "ALTERNATIVE", FALSE))
    BY <1>1, <1>2, <1>0, <2>3
  <2>9. Chosen(st, Enter(st, "FREE_RUN", NoSource, "SOURCE_LOST"))
    BY <1>1, <1>3, <1>0
  <2> QED
    BY <2>1, <2>2, <2>5, <2>6, <2>7, <2>8, <2>9 DEF Alike, Chosen
<1>10. CASE st.state = "HOLDOVER"
  <2>1. FollowSources(st) = FollowHolding(st)
    BY <1>10 DEF FollowSources, IsTracking
  <2> DEFINE best == BestSource(st, NoSource)
             c == Challenged(st, best, HoldoverBound(st))
  <2>2. /\ c \in Status /\ Alike(st, c)
        /\ c.run >= SwitchEpochs => best \in Profiles
    BY <1>7
  <2>3. best # NoSource => best \in Profiles
    BY <1>4
  <2>4. st.source \in SourceOrNone /\ st.source # NoSource
    BY <1>10 DEF Status, Mid, Coherent
  <2>5. \/ FollowHolding(st) = c
        \/ FollowHolding(st) = Enter(st, "LOCKED", st.source, "SOURCE_BACK")
        \/ best = st.source /\ FollowHolding(st) = Acquire(st, best, "SOURCE_BACK", FALSE)
        \/ /\ c.run >= SwitchEpochs
           /\ FollowHolding(st) = Acquire(c, best, "ALTERNATIVE", FALSE)
        \/ FollowHolding(st) = Enter(c, "FREE_RUN", NoSource, "EXPIRED")
    BY DEF FollowHolding
  <2> HIDE DEF best, c
  <2>6. Chosen(st, Enter(st, "LOCKED", st.source, "SOURCE_BACK"))
    BY <1>1, <1>3, <1>0, <2>4
  <2>7. best = st.source => Chosen(st, Acquire(st, best, "SOURCE_BACK", FALSE))
    BY <1>1, <1>2, <1>0, <2>3, <2>4
  <2>8. c.run >= SwitchEpochs => Chosen(st, Acquire(c, best, "ALTERNATIVE", FALSE))
    BY <1>1, <1>2, <1>0, <2>2
  <2>9. Chosen(st, Enter(c, "FREE_RUN", NoSource, "EXPIRED"))
    BY <1>1, <1>3, <1>0, <2>2
  <2> QED
    BY <2>1, <2>2, <2>5, <2>6, <2>7, <2>8, <2>9 DEF Alike, Chosen
<1> QED
  BY <1>8, <1>9, <1>10 DEF Status, States, IsTracking

\* Past the wait, and with a source qualified, free run ends: neither the time
\* of day nor a fallback is waited for.
LEMMA FreeRunEnds ==
  ASSUME NEW st \in Status, RunsJudged(st), st.state = "FREE_RUN",
         st.epochs = AlignWait,
         NEW s \in Profiles, st.trk[s].goodRun >= QualifyEpochs
  PROVE  FollowSources(st).state = "ACQUIRE"
<1> DEFINE best == BestSource(st, NoSource)
<1>1. ~TimeOfDayPending(st)
  BY LimitAssumption DEF TimeOfDayPending
<1>2. s \in Sources
  BY SourceAssumption
<1>3. st.trk[s].goodRun > 0
  BY <1>2, QualifyAssumption DEF Status, Tracker
<1>4. SourceGood(st, s)
  BY <1>2, <1>3 DEF RunsJudged, SourceGood
<1>5. best # NoSource
  BY <1>4, BestSourceFound DEF IsTracking
<1>6. best \in Profiles
  BY <1>5, BestSourceIn
<1>7. FollowSources(st) = Acquire(st, best, "QUALIFIED", FALSE)
  <2>1. FollowSources(st) = FollowFreeRun(st)
    BY DEF FollowSources, IsTracking
  <2>2. FollowFreeRun(st) = Acquire(st, best, "QUALIFIED", FALSE)
    BY <1>1, <1>5 DEF FollowFreeRun
  <2> QED
    BY <2>1, <2>2
<1> HIDE DEF best
<1>8. Acquired(st, best, FALSE, Acquire(st, best, "QUALIFIED", FALSE))
  BY <1>6, AcquireResult DEF Reasons
<1> QED
  BY <1>7, <1>8 DEF Acquired

\* judge_sources() changes the records alone.
LEMMA JudgedCarries ==
  ASSUME NEW st \in Status, NEW reports, NEW epochSeen, NEW edgeTaken
  PROVE  LET e == JudgeSources(st, reports, epochSeen, edgeTaken)
         IN  /\ e.time = st.time /\ e.steered = st.steered /\ e.state = st.state
             /\ e.epochs = st.epochs /\ e.hold = st.hold /\ e.source = st.source
  BY DEF JudgeSources, Status

\* No source can qualify by the one epoch judged since its record was cleared.
Unqualified(st) ==
  \A s \in Sources : /\ st.trk[s].goodRun < QualifyEpochs
                     /\ st.trk[s].usableRun < QualifyEpochs

LEMMA JudgedAnew ==
  ASSUME NEW st \in Status, NEW reports, NEW epochSeen, NEW edgeTaken,
         st.trk = [s \in Sources |-> NewTracker], QualifyEpochs > 1
  PROVE  Unqualified(JudgeSources(st, reports, epochSeen, edgeTaken))
<1> DEFINE j == JudgeSources(st, reports, epochSeen, edgeTaken)
           limit(s) == IF s = st.source THEN HoldLimit[s] ELSE QualifyLimit[s]
           rep(s) == [reports[s] EXCEPT !.captured =
                        reports[s].edge /\ s = st.route /\ edgeTaken]
           judged(s) == Judge(NewTracker, rep(s), limit(s), BoundScale[s], BoundFloor[s],
                              epochSeen)
<1>1. ASSUME NEW s \in Sources
      PROVE  judged(s).goodRun < QualifyEpochs /\ judged(s).usableRun < QualifyEpochs
  <2>1. Longer(0) < QualifyEpochs /\ 0 < QualifyEpochs
    BY QualifyAssumption DEF Longer
  <2>2. NewTracker.goodRun = 0 /\ NewTracker.usableRun = 0
    BY DEF NewTracker
  <2> HIDE DEF rep, limit
  <2> QED
    BY <2>1, <2>2 DEF Judge
<1>2. ASSUME NEW s \in Sources PROVE j.trk[s] = judged(s)
  BY DEF JudgeSources, Status
<1> HIDE DEF judged, j
<1> QED
  BY <1>1, <1>2 DEF Unqualified, j

\* With none qualified, free run goes on.
LEMMA FreeRunGoesOn ==
  ASSUME NEW st \in Status, st.state = "FREE_RUN", Unqualified(st)
  PROVE  FollowSources(st) = st
<1>1. BestSource(st, NoSource) = NoSource
  <2> DEFINE bound == [c \in Sources |-> CandidateBound(st, c)]
             set   == {c \in Sources \ {NoSource} : bound[c] < BoundNone}
  <2>1. ASSUME NEW c \in Sources PROVE CandidateBound(st, c) = BoundNone
    <3>1. ~(st.trk[c].goodRun >= QualifyEpochs)
      BY QualifyAssumption DEF Unqualified, Status, Tracker
    <3>2. c # Hold /\ ~IsTracking(st)
      BY SourceAssumption DEF IsTracking
    <3> QED
      BY <3>1, <3>2 DEF CandidateBound
  <2>2. set = {}
    BY <2>1, BoundAssumption
  <2>3. bound \in [Sources -> Nat]
    BY <2>1, BoundAssumption
  <2>4. BestSource(st, NoSource) = Least(set, bound)
    BY DEF BestSource
  <2> HIDE DEF set, bound
  <2> QED
    BY <2>2, <2>3, <2>4, LeastIn
<1>2. BestFallback(st) = NoSource
  <2> DEFINE bound == [c \in Sources |-> st.trk[c].bound]
             set   == {c \in Profiles : st.trk[c].usableRun >= QualifyEpochs}
  <2>1. ASSUME NEW c \in Profiles PROVE ~(st.trk[c].usableRun >= QualifyEpochs)
    BY SourceAssumption, QualifyAssumption DEF Unqualified, Status, Tracker
  <2>2. set = {}
    BY <2>1
  <2>3. bound \in [Sources -> Nat]
    BY DEF Status, Tracker
  <2>4. BestFallback(st) = Least(set, bound)
    BY DEF BestFallback
  <2> HIDE DEF set, bound
  <2> QED
    BY <2>2, <2>3, <2>4, LeastIn
<1>3. FollowSources(st) = FollowFreeRun(st)
  BY DEF FollowSources, IsTracking
<1> QED
  BY <1>1, <1>2, <1>3 DEF FollowFreeRun

\* apply_manual_time(): taken unless a source has ever steered.
LEMMA TimeSetByHand ==
  ASSUME NEW st \in Status, Mid(st), NEW manual \in BOOLEAN, NEW given \in Int
  PROVE  LET e == ApplyManualTime(st, manual, given)
         IN  /\ e.epochs = st.epochs
             /\ st.steered => e.time = st.time
             /\ manual /\ ~st.steered
                => e.time = [known |-> TRUE, err |-> given, source |-> NoSource]
<1>1. CASE ~manual \/ st.steered
  BY <1>1 DEF ApplyManualTime
<1>2. CASE manual /\ ~st.steered
  <2>1. st.state = "FREE_RUN"
    BY <1>2 DEF Mid, Coherent
  <2> DEFINE loop == FreeRunStep(st.loop)
             time == [known |-> TRUE, err |-> given, source |-> NoSource]
             e    == [st EXCEPT !.loop = loop, !.time = time, !.aligned = TRUE]
  <2>2. ApplyManualTime(st, manual, given) = e
    BY <1>2, <2>1 DEF ApplyManualTime
  <2> HIDE DEF loop, time
  <2>3. e.time = time /\ e.epochs = st.epochs
    BY DEF Status
  <2> HIDE DEF e
  <2> QED
    BY <1>2, <2>2, <2>3 DEF time
<1> QED
  BY <1>1, <1>2

\* Promotion leaves them alone; alignment leaves the label alone, and aligns a
\* clock that nothing has steered to any source placed in its second.
LEMMA PromotedCarries ==
  ASSUME NEW st \in Status
  PROVE  LET e == PromoteFallback(st) IN e.time = st.time /\ e.epochs = st.epochs
  BY DEF PromoteFallback, Status

LEMMA AlignedCarries ==
  ASSUME NEW st \in Status, Mid(st)
  PROVE  LET e == AlignToTimeOfDay(st)
         IN  /\ e.time = st.time /\ e.epochs = st.epochs
             /\ ~st.steered /\ (\E s \in Sources \ Profiles : Placed(st.trk[s])) => e.aligned
<1>1. ~st.steered => st.state = "FREE_RUN"
  BY DEF Mid, Coherent
<1>2. AlignToTimeOfDay(st).time = st.time /\ AlignToTimeOfDay(st).epochs = st.epochs
  BY DEF AlignToTimeOfDay, Status
<1>3. ~st.steered /\ (\E s \in Sources \ Profiles : Placed(st.trk[s]))
        => AlignToTimeOfDay(st).aligned
  BY <1>1 DEF AlignToTimeOfDay, Status
<1> QED
  BY <1>2, <1>3

\* The loop's turn leaves them alone, and neither starts nor ends free run.
LEMMA RunLoopOnward ==
  ASSUME NEW st \in Status, Followed(st), NEW cap \in Capture
  PROVE  LET e == RunLoop(st, cap)
         IN  /\ Onward(st, e) /\ (st.state # "FREE_RUN" => e.state # "FREE_RUN")
             /\ st.state = "FREE_RUN"
                => e.state = "FREE_RUN" /\ e.usable = FALSE /\ e.hold = st.hold
<1> DEFINE usable == /\ IsTracking(st) /\ SourceUsable(st, st.source)
                     /\ st.trk[st.source].rep.captured
           outcome == LoopUpdate(st.loop, usable, cap)
           mid == [st EXCEPT !.loop = outcome.loop, !.kind = outcome.kind,
                             !.usable = usable, !.phaseValid = cap.phaseValid,
                             !.phase = cap.phase]
           r == FollowLoop(mid, outcome.entered)
<1>1. /\ usable \in BOOLEAN /\ st.loop \in Loop
      /\ st.state = "FREE_RUN" => usable = FALSE
  BY DEF Status, IsTracking
<1>2. cap.phaseValid \in BOOLEAN /\ cap.phase \in Int
  BY DEF Capture
<1>3. RunLoop(st, cap) = r
  BY DEF RunLoop
<1> HIDE DEF usable
<1>4. outcome.loop \in Loop /\ outcome.kind \in UpdateKinds
  BY <1>1, LoopUpdateResult DEF LoopResult
<1> HIDE DEF outcome
<1>5. /\ mid \in Status /\ Onward(st, mid) /\ mid.state = st.state
      /\ mid.usable = usable /\ mid.hold = st.hold
  BY <1>1, <1>2, <1>4 DEF Status, Onward
<1> HIDE DEF mid
<1>6. /\ "LOCKED" \in States /\ "ACQUIRE" \in States /\ "TRACKING" \in Reasons
      /\ "PHASE_LOST" \in Reasons /\ mid.source \in SourceOrNone
  BY <1>5 DEF States, Reasons, Status
<1>7. LET e == Enter(mid, "LOCKED", mid.source, "TRACKING")
      IN  Onward(st, e) /\ e.state = "LOCKED"
  BY <1>5, <1>6, EnterResult DEF Carried, Onward
<1>8. LET e == Enter(mid, "ACQUIRE", mid.source, "PHASE_LOST")
      IN  Onward(st, e) /\ e.state = "ACQUIRE"
  BY <1>5, <1>6, EnterResult DEF Carried, Onward
<1>9. mid.state = "FREE_RUN" => r = mid
  BY DEF FollowLoop
<1>10. Onward(st, r) /\ (st.state # "FREE_RUN" => r.state # "FREE_RUN")
  BY <1>5, <1>7, <1>8 DEF FollowLoop
<1> QED
  BY <1>1, <1>3, <1>5, <1>9, <1>10

\* The last stages: only keep_time() changes the label, and not with no source
\* in use and a label to count from.
LEMMA HoldoverOnward ==
  ASSUME NEW st \in Status
  PROVE  LET e == FollowHoldover(st)
         IN  /\ Onward(st, e) /\ e.state = st.state
             /\ st.state = "FREE_RUN" /\ ~st.hold.ready => e = st
<1>1. Onward(st, FollowHoldover(st)) /\ FollowHoldover(st).state = st.state
  BY DEF FollowHoldover, Status, Onward
<1>2. st.state = "FREE_RUN" /\ ~st.hold.ready => FollowHoldover(st) = st
  BY DEF FollowHoldover
<1> QED
  BY <1>1, <1>2

LEMMA KeepTimeCarries ==
  ASSUME NEW st \in Status
  PROVE  LET e == KeepTime(st)
         IN  /\ e.usable = st.usable /\ e.state = st.state /\ e.hold = st.hold
             /\ e.trk = st.trk /\ e.aligned = st.aligned
             /\ ~st.usable /\ st.time.known => e.time = st.time
  BY DEF KeepTime, Status

LEMMA EndEpochOnward ==
  ASSUME NEW st \in Status, NEW before, NEW captured
  PROVE  LET e == EndEpoch(st, before, captured)
         IN  /\ Onward(st, e) /\ e.usable = st.usable /\ e.state = st.state
             /\ e.hold = st.hold
  BY DEF EndEpoch, Status, Onward

\* What an epoch may do to the label with no source in use: nothing once a
\* source has steered, and before that take the one set by hand.
TimeKept(st, req, e) ==
  /\ st.steered /\ st.time.known /\ ~e.usable => e.time = st.time
  /\ req.manual /\ ~st.steered /\ ~e.usable
     => e.time = [known |-> TRUE, err |-> req.err, source |-> NoSource]

\* What an epoch promises of the start: the second offered is used before
\* anything steers, and the wait for it ends.
StartKept(st, e) ==
  /\ ~st.steered /\ (\E s \in Sources \ Profiles : Placed(e.trk[s])) => e.aligned
  /\ /\ st.state = "FREE_RUN" /\ st.epochs = AlignWait
     /\ \E s \in Profiles : e.trk[s].goodRun >= QualifyEpochs
     => e.state # "FREE_RUN"

\* What an epoch leaves after a resync, which a single epoch qualifies nothing
\* after: with QualifyEpochs of 1 a source would be back in that very epoch.
ResyncKept(req, e) ==
  req.resync /\ QualifyEpochs > 1 =>
    /\ e.state = "FREE_RUN" /\ e.usable = FALSE /\ e.hold.ready = FALSE
    /\ Unqualified(e)

-----------------------------------------------------------------------------
\* What a source is left for, and whose label is shown

\* The bound of holdover is a natural number, BoundNone at most.
LEMMA HoldoverBoundType ==
  ASSUME NEW st \in Status
  PROVE  HoldoverBound(st) \in 0 .. BoundNone
<1> DEFINE t == st.hold.age
           growth == (DriftPpt * t * t) \div 2000
           sum == st.hold.base + st.hold.freq * t + growth
<1>1. t \in Nat /\ st.hold.base \in Nat /\ st.hold.freq \in Nat
  BY LimitAssumption, BoundAssumption DEF Status, Holdover
<1>2. DriftPpt * t \in Nat
  BY <1>1, LimitAssumption
<1>3. DriftPpt * t * t \in Nat
  BY <1>1, <1>2
<1>4. growth \in Nat
  BY <1>3
<1>5. st.hold.freq * t \in Nat
  BY <1>1
<1> HIDE DEF growth
<1>6. sum \in Nat
  BY <1>1, <1>4, <1>5
<1>7. HoldoverBound(st) = IF ~st.hold.ready THEN BoundNone ELSE Saturate(sum)
  BY DEF HoldoverBound, growth
<1> HIDE DEF sum
<1> QED
  BY <1>6, <1>7, BoundAssumption DEF Saturate

\* A ratio of one or more makes nothing smaller.
LEMMA RatioGrows ==
  ASSUME NEW n \in Nat, NEW ratio \in Nat \ {0}
  PROVE  n <= n * ratio
<1>1. PICK k \in Nat : ratio = k + 1
  <2>1. ratio - 1 \in Nat /\ ratio = (ratio - 1) + 1
    OBVIOUS
  <2> QED
    BY <2>1
<1>2. n * k \in Nat
  OBVIOUS
<1>3. n * (k + 1) = n * k + n
  OBVIOUS
<1> QED
  BY <1>1, <1>2, <1>3

\* What challenge() compares: a qualified source is ahead by the ratio of what is in
\* use, the source or holdover.
AheadOf(st, s) ==
  /\ st.state # "FREE_RUN" /\ s \in Profiles /\ s # st.source
  /\ SourceGood(st, s) /\ st.trk[s].goodRun >= QualifyEpochs
  /\ st.trk[s].bound * SwitchRatio
       < IF IsTracking(st) THEN st.trk[st.source].bound ELSE HoldoverBound(st)

\* For how many epochs running it has been the one.
RunTo(st, s) == IF s = st.challenger THEN st.run + 1 ELSE 1

\* A challenge goes on only against what was in use and stays so.
GoesOn(st, e) ==
  e.run > 0 => /\ e.state = st.state /\ e.source = st.source
               /\ AheadOf(st, e.challenger) /\ e.run = RunTo(st, e.challenger)

\* What could be used on is left only for the end of a challenge.
LeftFor(st, e) ==
  /\ st.state # "FREE_RUN" /\ e.source \notin {st.source, NoSource}
  /\ IsTracking(st) => SourceUsable(st, st.source)
  => AheadOf(st, e.source) /\ RunTo(st, e.source) >= SwitchEpochs

\* challenge(): what it counts.
LEMMA ChallengedRun ==
  ASSUME NEW st \in Status, NEW s \in SourceOrNone, NEW incumbent
  PROVE  LET c == Challenged(st, s, incumbent)
         IN  /\ c.state = st.state /\ c.source = st.source
             /\ c.run > 0 => /\ Beats(st, s, incumbent) /\ c.challenger = s
                             /\ c.run = RunTo(st, s)
<1>1. CASE ~Beats(st, s, incumbent)
  BY <1>1 DEF Challenged, Status
<1>2. CASE Beats(st, s, incumbent)
  BY <1>2 DEF Challenged, Status, RunTo
<1> QED
  BY <1>1, <1>2

\* A source that beats what is in use is ahead of it.
LEMMA BeatsIsAhead ==
  ASSUME NEW st \in Status, st.state # "FREE_RUN", NEW s \in Profiles, s # st.source,
         NEW incumbent, Beats(st, s, incumbent),
         incumbent = IF IsTracking(st) THEN st.trk[st.source].bound ELSE HoldoverBound(st)
  PROVE  AheadOf(st, s)
<1>1. s \in Sources /\ s # Hold
  BY SourceAssumption
<1>4. st.trk[s].goodRun \in Nat
  BY <1>1, QualifyAssumption DEF Status, Tracker
<1>2. CandidateBound(st, s) # BoundNone
  BY BoundAssumption DEF Beats
<1>3. /\ SourceGood(st, s) /\ st.trk[s].goodRun >= QualifyEpochs
      /\ CandidateBound(st, s) = st.trk[s].bound
  BY <1>1, <1>2, <1>4 DEF CandidateBound
<1> QED
  BY <1>3 DEF Beats, AheadOf

\* follow_sources(): what is challenged, and what is left.
LEMMA FollowSourcesLeaves ==
  ASSUME NEW st \in Status, Mid(st), RunsJudged(st), st.state = "FREE_RUN" => st.run = 0
  PROVE  GoesOn(st, FollowSources(st)) /\ LeftFor(st, FollowSources(st))
<1>1. /\ "QUALIFIED" \in Reasons /\ "BETTER_SOURCE" \in Reasons
      /\ "ALTERNATIVE" \in Reasons /\ "SOURCE_LOST" \in Reasons
      /\ "SOURCE_BACK" \in Reasons /\ "EXPIRED" \in Reasons
      /\ "FREE_RUN" \in States /\ "HOLDOVER" \in States /\ "LOCKED" \in States
      /\ NoSource \in SourceOrNone /\ FALSE \in BOOLEAN
  BY DEF Reasons, States, SourceOrNone
<1>2. ASSUME NEW e \in Status, NEW source \in Profiles, NEW reason \in Reasons,
             NEW fallback \in BOOLEAN
      PROVE  LET a == Acquire(e, source, reason, fallback)
             IN  a.source = source /\ a.run = 0
  <2> DEFINE a == Acquire(e, source, reason, fallback)
  <2>1. Acquired(e, source, fallback, a)
    BY <1>2, AcquireResult
  <2>2. a.source = source /\ a.run = 0
    <3> HIDE DEF a
    <3> QED
      BY <2>1 DEF Acquired
  <2> QED
    BY <2>2
<1>3. ASSUME NEW e \in Status, NEW state \in States, NEW source \in SourceOrNone,
             NEW reason \in Reasons
      PROVE  LET m == Enter(e, state, source, reason)
             IN  m.source = source /\ m.run = 0
  BY EnterResult
<1>4. ASSUME NEW except PROVE BestSource(st, except) # NoSource
                              => /\ BestSource(st, except) \in Profiles
                                 /\ BestSource(st, except) # except
  BY BestSourceIn
<1>5. st.run < SwitchEpochs
  BY DEF Mid, Coherent
<1>6. ASSUME NEW best \in SourceOrNone, NEW incumbent
      PROVE  LET c == Challenged(st, best, incumbent)
             IN  /\ c \in Status /\ c.state = st.state /\ c.source = st.source
                 /\ c.run >= SwitchEpochs => best # NoSource
                 /\ c.run > 0 => /\ Beats(st, best, incumbent) /\ c.challenger = best
                                 /\ c.run = RunTo(st, best)
  BY <1>5, ChallengedResult, ChallengedRun
<1>7. CASE st.state = "FREE_RUN"
  <2>1. FollowSources(st) = FollowFreeRun(st)
    BY <1>7 DEF FollowSources, IsTracking
  <2> DEFINE best == BestSource(st, NoSource)
             back == BestFallback(st)
             only == ~SourceGood(st, back)
             taken  == Acquire(st, best, "QUALIFIED", FALSE)
             backed == Acquire(st, back, "QUALIFIED", only)
  <2>2. best # NoSource => best \in Profiles
    BY <1>4
  <2>3. back # NoSource => back \in Profiles
    BY BestFallbackIn
  <2>4. only \in BOOLEAN
    OBVIOUS
  <2>5. \/ FollowFreeRun(st) = st
        \/ best # NoSource /\ FollowFreeRun(st) = taken
        \/ back # NoSource /\ FollowFreeRun(st) = backed
    BY DEF FollowFreeRun
  <2> HIDE DEF best, back, only
  <2>6. /\ best # NoSource => taken.run = 0
        /\ back # NoSource => backed.run = 0
    BY <1>1, <1>2, <2>2, <2>3, <2>4
  <2> HIDE DEF taken, backed
  <2> QED
    BY <1>7, <2>1, <2>5, <2>6 DEF GoesOn, LeftFor
<1>8. CASE IsTracking(st)
  <2>1. FollowSources(st) = FollowTracking(st) /\ st.state # "FREE_RUN"
    BY <1>8 DEF FollowSources, IsTracking
  <2> DEFINE best == BestSource(st, st.source)
             c == Challenged(st, best, CurrentBound(st))
             better == Acquire(c, best, "BETTER_SOURCE", FALSE)
             away   == Acquire(st, best, "ALTERNATIVE", FALSE)
             held   == Enter(st, "HOLDOVER", st.hold.source, "SOURCE_LOST")
             free   == Enter(st, "FREE_RUN", NoSource, "SOURCE_LOST")
  <2>2. best # NoSource => best \in Profiles /\ best # st.source
    BY <1>4
  <2>3. best \in SourceOrNone
    BY <2>2, SourceAssumption DEF SourceOrNone
  <2>4. /\ c \in Status /\ c.state = st.state /\ c.source = st.source
        /\ c.run >= SwitchEpochs => best # NoSource
        /\ c.run > 0 => /\ Beats(st, best, CurrentBound(st)) /\ c.challenger = best
                        /\ c.run = RunTo(st, best)
    <3> HIDE DEF best
    <3> QED
      BY <1>6, <2>3
  <2>5. st.hold.source \in SourceOrNone
    BY DEF Status, Holdover
  <2>6. \/ SourceUsable(st, st.source) /\ FollowTracking(st) = c
        \/ /\ SourceUsable(st, st.source) /\ c.run >= SwitchEpochs
           /\ FollowTracking(st) = better
        \/ ~SourceUsable(st, st.source) /\ FollowTracking(st) = held
        \/ ~SourceUsable(st, st.source) /\ best # NoSource /\ FollowTracking(st) = away
        \/ ~SourceUsable(st, st.source) /\ FollowTracking(st) = free
    BY DEF FollowTracking
  <2> HIDE DEF best, c
  <2>7. ASSUME SourceUsable(st, st.source), c.run > 0 PROVE AheadOf(st, best)
    <3>1. Beats(st, best, CurrentBound(st)) /\ best \in Profiles /\ best # st.source
      BY <2>2, <2>4, <2>7 DEF Beats
    <3>2. st.source # Hold /\ st.source \in Profiles
      BY <1>8, SourceAssumption DEF Mid, Coherent, IsTracking
    <3>3. CurrentBound(st) = st.trk[st.source].bound
      <4>1. CurrentBound(st) = CandidateBound(st, st.source)
        BY <1>8 DEF CurrentBound, IsTracking
      <4> QED
        BY <1>8, <2>7, <3>2, <4>1 DEF CandidateBound
    <3> QED
      BY <1>8, <2>1, <3>1, <3>3, BeatsIsAhead
  <2>12. ASSUME c.run >= SwitchEpochs PROVE better.source = best /\ better.run = 0
    BY <1>1, <1>2, <2>2, <2>4, <2>12
  <2>13. ASSUME best # NoSource PROVE away.run = 0
    BY <1>1, <1>2, <2>2, <2>13
  <2>14. held.run = 0 /\ free.run = 0 /\ free.source = NoSource
    BY <1>1, <1>3, <2>5
  <2>8. /\ c.run >= SwitchEpochs => better.source = best /\ better.run = 0
        /\ best # NoSource => away.run = 0
        /\ held.run = 0 /\ free.run = 0
    BY <2>12, <2>13, <2>14
  <2>9. c.run \in Nat /\ SwitchEpochs \in Nat \ {0}
    BY <2>4, LimitAssumption DEF Status
  <2> HIDE DEF better, away, held, free
  <2>10. CASE SourceUsable(st, st.source) /\ FollowTracking(st) = c
    BY <2>1, <2>4, <2>7, <2>10 DEF GoesOn, LeftFor
  <2>11. CASE /\ SourceUsable(st, st.source) /\ c.run >= SwitchEpochs
              /\ FollowTracking(st) = better
    BY <2>1, <2>4, <2>7, <2>8, <2>9, <2>11 DEF GoesOn, LeftFor
  <2> QED
    BY <1>8, <2>1, <2>6, <2>8, <2>10, <2>11 DEF GoesOn, LeftFor
<1>9. CASE st.state = "HOLDOVER"
  <2>1. FollowSources(st) = FollowHolding(st) /\ ~IsTracking(st) /\ st.state # "FREE_RUN"
    BY <1>9 DEF FollowSources, IsTracking
  <2> DEFINE best == BestSource(st, NoSource)
             bound == HoldoverBound(st)
             c == Challenged(st, best, bound)
             back == Enter(st, "LOCKED", st.source, "SOURCE_BACK")
             again == Acquire(st, best, "SOURCE_BACK", FALSE)
             away == Acquire(c, best, "ALTERNATIVE", FALSE)
             free == Enter(c, "FREE_RUN", NoSource, "EXPIRED")
             Back == /\ SourceUsable(st, st.source) /\ st.trk[st.source].rep.captured
                     /\ st.trk[st.source].bound <= bound
             Again == best = st.source /\ ~st.trk[st.source].rep.captured
  <2>2. best # NoSource => best \in Profiles
    BY <1>4
  <2>3. best \in SourceOrNone
    BY <2>2, SourceAssumption DEF SourceOrNone
  <2>4. /\ c \in Status /\ c.state = st.state /\ c.source = st.source
        /\ c.run >= SwitchEpochs => best # NoSource
        /\ c.run > 0 => /\ Beats(st, best, bound) /\ c.challenger = best
                        /\ c.run = RunTo(st, best)
    <3> HIDE DEF best, bound
    <3> QED
      BY <1>6, <2>3
  <2>5. st.source \in SourceOrNone /\ st.source # NoSource
    BY <1>9 DEF Status, Mid, Coherent
  <2>6. \/ ~Back /\ ~Again /\ FollowHolding(st) = c
        \/ FollowHolding(st) = back
        \/ best = st.source /\ FollowHolding(st) = again
        \/ /\ ~Back /\ ~Again /\ c.run >= SwitchEpochs
           /\ FollowHolding(st) = away
        \/ FollowHolding(st) = free
    BY DEF FollowHolding
  <2>7. ASSUME ~Back, ~Again, c.run > 0 PROVE AheadOf(st, best)
    <3>1. Beats(st, best, bound) /\ best \in Profiles
      BY <2>2, <2>4, <2>7 DEF Beats
    <3>2. best # st.source
      <4> SUFFICES ASSUME best = st.source PROVE FALSE
        OBVIOUS
      <4>1. SourceGood(st, best)
        BY <2>1, <3>1, SourceAssumption, BestSourceIn
      <4>2. ~(st.trk[best].bound <= bound)
        BY <2>7, <4>1 DEF SourceUsable
      <4>3. best # Hold /\ CandidateBound(st, best) # BoundNone
        BY <3>1, SourceAssumption, BoundAssumption DEF Beats
      <4>4. CandidateBound(st, best) = st.trk[best].bound
        BY <2>1, <3>1, <4>3 DEF CandidateBound
      <4>5. st.trk[best].bound * SwitchRatio < bound
        BY <3>1, <4>4 DEF Beats
      <4>6. st.trk[best].bound \in Nat /\ bound \in Int /\ SwitchRatio \in Nat \ {0}
        <5>1. best \in Sources
          BY <3>1, SourceAssumption
        <5>2. st.trk[best].bound \in Nat
          BY <5>1, BoundAssumption DEF Status, Tracker
        <5>3. bound \in Int
          BY HoldoverBoundType, BoundAssumption
        <5> QED
          BY <5>2, <5>3, LimitAssumption
      <4> HIDE DEF best, bound
      <4>7. st.trk[best].bound <= st.trk[best].bound * SwitchRatio
        BY <4>6, RatioGrows
      <4>8. st.trk[best].bound * SwitchRatio \in Int
        BY <4>6
      <4> QED
        BY <4>2, <4>5, <4>6, <4>7, <4>8
    <3> QED
      BY <2>1, <3>1, <3>2, BeatsIsAhead
  <2> HIDE DEF best, bound, c, Back, Again
  <2>8. /\ back.source = st.source /\ back.run = 0
        /\ best = st.source => again.source = st.source /\ again.run = 0
        /\ c.run >= SwitchEpochs => away.source = best /\ away.run = 0
        /\ free.source = NoSource /\ free.run = 0
    <3>1. back.source = st.source /\ back.run = 0
      BY <1>1, <1>3, <2>5
    <3>2. ASSUME best = st.source PROVE again.source = st.source /\ again.run = 0
      BY <1>1, <1>2, <2>2, <2>5, <3>2
    <3>3. ASSUME c.run >= SwitchEpochs PROVE away.source = best /\ away.run = 0
      BY <1>1, <1>2, <2>2, <2>4, <3>3
    <3>4. free.source = NoSource /\ free.run = 0
      BY <1>1, <1>3, <2>4
    <3> QED
      BY <3>1, <3>2, <3>3, <3>4
  <2>9. c.run \in Nat /\ SwitchEpochs \in Nat \ {0}
    BY <2>4, LimitAssumption DEF Status
  <2> HIDE DEF back, again, away, free
  <2>10. CASE ~Back /\ ~Again /\ FollowHolding(st) = c
    BY <2>1, <2>4, <2>7, <2>10 DEF GoesOn, LeftFor
  <2>11. CASE /\ ~Back /\ ~Again /\ c.run >= SwitchEpochs
              /\ FollowHolding(st) = away
    BY <2>1, <2>4, <2>7, <2>8, <2>9, <2>11 DEF GoesOn, LeftFor
  <2> QED
    BY <2>1, <2>6, <2>8, <2>10, <2>11 DEF GoesOn, LeftFor
<1> QED
  BY <1>7, <1>8, <1>9 DEF Status, States, IsTracking

\* The stages before the selection: a challenge outlives them, but for a resync.
SameRun(st, e) ==
  /\ e.run = st.run /\ e.challenger = st.challenger

LEMMA EarlyStagesRun ==
  ASSUME NEW st \in Status, NEW reports, NEW epochSeen, NEW edgeTaken,
         NEW manual, NEW given
  PROVE  /\ SameRun(st, JudgeSources(st, reports, epochSeen, edgeTaken))
         /\ JudgeSources(st, reports, epochSeen, edgeTaken).fallback = st.fallback
         /\ SameRun(st, ApplyManualTime(st, manual, given))
         /\ ApplyManualTime(st, manual, given).fallback = st.fallback
         /\ SameRun(st, PromoteFallback(st))
         /\ PromoteFallback(st).fallback = (st.fallback /\ ~SourceGood(st, st.source))
         /\ SameRun(st, AlignToTimeOfDay(st))
         /\ AlignToTimeOfDay(st).fallback = st.fallback
<1>1. /\ SameRun(st, JudgeSources(st, reports, epochSeen, edgeTaken))
      /\ JudgeSources(st, reports, epochSeen, edgeTaken).fallback = st.fallback
  BY DEF JudgeSources, Status, SameRun
<1>2. /\ SameRun(st, ApplyManualTime(st, manual, given))
      /\ ApplyManualTime(st, manual, given).fallback = st.fallback
  BY DEF ApplyManualTime, Status, SameRun
<1>3. /\ SameRun(st, PromoteFallback(st))
      /\ PromoteFallback(st).fallback = (st.fallback /\ ~SourceGood(st, st.source))
  BY DEF PromoteFallback, Status, SameRun
<1>4. /\ SameRun(st, AlignToTimeOfDay(st))
      /\ AlignToTimeOfDay(st).fallback = st.fallback
  BY DEF AlignToTimeOfDay, Status, SameRun
<1> QED
  BY <1>1, <1>2, <1>3, <1>4

\* A resync ends any challenge; without one the stage changes nothing.
LEMMA ResyncRun ==
  ASSUME NEW st \in Status, NEW resync \in BOOLEAN
  PROVE  LET e == ApplyResync(st, resync)
         IN  /\ ~resync => e = st
             /\ resync => e.run = 0
<1>1. ~resync => ApplyResync(st, resync) = st
  BY DEF ApplyResync
<1>2. resync => ApplyResync(st, resync).run = 0
  BY DEF ApplyResync, Enter, Status
<1> QED
  BY <1>1, <1>2

\* The loop's turn: it measures only by a captured edge of the source in use, it
\* steps only by what it measures, and nothing is locked before it has measured.
LEMMA RunLoopMeasures ==
  ASSUME NEW st \in Status, NEW cap \in Capture
  PROVE  LET e == RunLoop(st, cap)
         IN  /\ e.hold = st.hold /\ e.source = st.source
             /\ e.phaseValid = cap.phaseValid /\ e.phase = cap.phase
             /\ e.kind = "MEASURED"
                => /\ cap.phaseValid /\ SourceUsable(st, st.source)
                   /\ st.trk[st.source].rep.captured
             /\ e.loop.state = "STEP" => e.kind = "MEASURED"
             /\ e.state = "LOCKED" /\ st.state # "LOCKED" => e.kind = "MEASURED"
             /\ e.run > 0 => SameRun(st, e) /\ e.state = st.state
<1> DEFINE usable == /\ IsTracking(st) /\ SourceUsable(st, st.source)
                     /\ st.trk[st.source].rep.captured
           outcome == LoopUpdate(st.loop, usable, cap)
           mid == [st EXCEPT !.loop = outcome.loop, !.kind = outcome.kind,
                             !.usable = usable, !.phaseValid = cap.phaseValid,
                             !.phase = cap.phase]
           r == FollowLoop(mid, outcome.entered)
<1>1. /\ usable \in BOOLEAN /\ st.loop \in Loop
      /\ cap.phaseValid \in BOOLEAN /\ cap.phase \in Int
  BY DEF Status, Capture
<1>2. RunLoop(st, cap) = r
  BY DEF RunLoop
<1>3. usable => SourceUsable(st, st.source) /\ st.trk[st.source].rep.captured
  OBVIOUS
<1> HIDE DEF usable
<1>4. outcome.loop \in Loop /\ outcome.kind \in UpdateKinds
  BY <1>1, LoopUpdateResult DEF LoopResult
<1>5. /\ outcome.kind = "MEASURED" => usable /\ cap.phaseValid
      /\ outcome.loop.state = "STEP" => outcome.kind = "MEASURED"
  BY <1>1, MeasuredResult
<1> HIDE DEF outcome
<1>6. /\ mid \in Status /\ mid.hold = st.hold /\ mid.source = st.source
      /\ mid.state = st.state /\ mid.kind = outcome.kind /\ mid.loop = outcome.loop
      /\ mid.phaseValid = cap.phaseValid /\ mid.phase = cap.phase
      /\ SameRun(st, mid)
  BY <1>1, <1>4 DEF Status, SameRun
<1> HIDE DEF mid
<1>7. /\ "LOCKED" \in States /\ "ACQUIRE" \in States /\ "TRACKING" \in Reasons
      /\ "PHASE_LOST" \in Reasons /\ mid.source \in SourceOrNone
  BY <1>6 DEF States, Reasons, Status
<1> DEFINE Same(e) == /\ e.hold = mid.hold /\ e.source = mid.source /\ e.kind = mid.kind
                      /\ e.loop = mid.loop /\ e.phaseValid = mid.phaseValid
                      /\ e.phase = mid.phase
<1>8. LET e == Enter(mid, "LOCKED", mid.source, "TRACKING") IN Same(e) /\ e.run = 0
  BY <1>6, <1>7, EnterResult DEF Carried
<1>9. LET e == Enter(mid, "ACQUIRE", mid.source, "PHASE_LOST")
      IN  Same(e) /\ e.state = "ACQUIRE" /\ e.run = 0
  BY <1>6, <1>7, EnterResult DEF Carried
<1>10. /\ Same(r) /\ (r.state = "LOCKED" /\ mid.state # "LOCKED" => mid.kind = "MEASURED")
       /\ r.run > 0 => r = mid
  BY <1>8, <1>9 DEF FollowLoop
<1> HIDE DEF r
<1> QED
  BY <1>2, <1>3, <1>5, <1>6, <1>10 DEF SameRun

\* What the stages after the loop's turn leave of it.
Measures(st, e) ==
  /\ e.state = st.state /\ e.source = st.source /\ e.kind = st.kind /\ e.loop = st.loop
  /\ e.trk = st.trk /\ e.phaseValid = st.phaseValid /\ e.phase = st.phase
  /\ SameRun(st, e)

LEMMA TailMeasures ==
  ASSUME NEW st \in Status, NEW before, NEW captured
  PROVE  /\ Measures(st, FollowHoldover(st))
         /\ Measures(st, KeepTime(st)) /\ KeepTime(st).hold = st.hold
         /\ Measures(st, EndEpoch(st, before, captured))
         /\ EndEpoch(st, before, captured).hold = st.hold
<1>1. Measures(st, FollowHoldover(st))
  BY DEF FollowHoldover, Status, Measures, SameRun
<1>2. Measures(st, KeepTime(st)) /\ KeepTime(st).hold = st.hold
  BY DEF KeepTime, Status, Measures, SameRun
<1>3. /\ Measures(st, EndEpoch(st, before, captured))
      /\ EndEpoch(st, before, captured).hold = st.hold
  BY DEF EndEpoch, Status, Measures, SameRun
<1> QED
  BY <1>1, <1>2, <1>3

\* Holdover that is ready stays so.
LEMMA HoldoverStays ==
  ASSUME NEW st \in Status, st.hold.ready = TRUE
  PROVE  FollowHoldover(st).hold.ready = TRUE
  BY DEF FollowHoldover, Status, Holdover

\* The label shown is that of the source in use.
LEMMA KeepTimeShows ==
  ASSUME NEW st \in Status, st.usable, st.source \in Profiles
  PROVE  KeepTime(st).time.err = LabelEpoch(st.trk[st.source])
<1>1. st.source # NoSource
  BY SourceAssumption
<1>2. KeepTime(st) = [st EXCEPT !.time = [known |-> TRUE,
                        err |-> LabelEpoch(st.trk[st.source]), source |-> st.source]]
  BY <1>1 DEF KeepTime
<1> QED
  BY <1>2 DEF Status

\* A verdict of GOOD says that the label follows on from the one before, and that our
\* epoch is placed if its own edge was seen.
GoodFollowsOn(st, e, epochSeen) ==
  \A s \in Sources : e.trk[s].check = "GOOD" =>
    /\ e.trk[s].phaseValid = epochSeen
    /\ st.trk[s].hasLabel = TRUE => st.trk[s].lastErr = e.trk[s].rep.utcErr

LEMMA JudgedFollowsOn ==
  ASSUME NEW st \in Status, NEW reports, NEW epochSeen \in BOOLEAN, NEW edgeTaken
  PROVE  GoodFollowsOn(st, JudgeSources(st, reports, epochSeen, edgeTaken), epochSeen)
<1> DEFINE e == JudgeSources(st, reports, epochSeen, edgeTaken)
<1> SUFFICES ASSUME NEW s \in Sources, e.trk[s].check = "GOOD"
             PROVE  /\ e.trk[s].phaseValid = epochSeen
                    /\ st.trk[s].hasLabel = TRUE => st.trk[s].lastErr = e.trk[s].rep.utcErr
  BY DEF GoodFollowsOn
<1> DEFINE t == st.trk[s]
           rep == [reports[s] EXCEPT !.captured =
                     reports[s].edge /\ s = st.route /\ edgeTaken]
           limit == IF s = st.source THEN HoldLimit[s] ELSE QualifyLimit[s]
           j == Judge(t, rep, limit, BoundScale[s], BoundFloor[s], epochSeen)
<1>1. e.trk[s] = j
  BY DEF JudgeSources, Status
<1> HIDE DEF rep, limit, e
<1>2. /\ j.check = Verdict(t, rep, limit) /\ j.rep = rep
      /\ j.phaseValid = (rep.edge /\ epochSeen)
  BY DEF Judge
<1> HIDE DEF j
<1>3. Classify(rep, limit) = "GOOD"
  BY <1>1, <1>2 DEF Verdict
<1>4. rep.present /\ rep.timeValid /\ rep.edge /\ rep.labelled
  BY <1>3 DEF Classify
<1>5. LabelFollowsOn(t, rep)
  BY <1>1, <1>2, <1>3, <1>4 DEF Verdict, LabelJudged
<1>6. t.hasLabel = TRUE => LabelKept(t, rep)
  BY <1>4 DEF LabelKept
<1>7. e.trk[s].phaseValid = epochSeen
  BY <1>1, <1>2, <1>4
<1> QED
  BY <1>1, <1>2, <1>5, <1>6, <1>7 DEF LabelFollowsOn

\* From LOCKED, free run is entered only with holdover no candidate.
LEMMA LockedFallsBack ==
  ASSUME NEW st \in Status, Mid(st), RunsJudged(st), st.state = "LOCKED",
         FollowSources(st).state = "FREE_RUN"
  PROVE  HoldoverBound(st) > SyncLimit /\ FollowSources(st).hold = st.hold
<1>1. FollowSources(st) = FollowTracking(st)
  BY DEF FollowSources, IsTracking
<1> DEFINE best == BestSource(st, st.source)
           c == Challenged(st, best, CurrentBound(st))
           lost == Enter(st, "FREE_RUN", NoSource, "SOURCE_LOST")
<1>2. /\ "BETTER_SOURCE" \in Reasons /\ "ALTERNATIVE" \in Reasons
      /\ "SOURCE_LOST" \in Reasons /\ FALSE \in BOOLEAN
      /\ "FREE_RUN" \in States /\ "HOLDOVER" \in States /\ NoSource \in SourceOrNone
  BY DEF Reasons, States, SourceOrNone
<1>3. best # NoSource => best \in Profiles
  BY BestSourceIn
<1>4. best \in SourceOrNone /\ st.run < SwitchEpochs
  BY <1>3, SourceAssumption DEF SourceOrNone, Mid, Coherent
<1>5. st.hold.source \in SourceOrNone /\ st.hold.ready = TRUE
  BY DEF Status, Holdover, Mid, Coherent
<1>6. \/ FollowTracking(st) = c
      \/ /\ c.run >= SwitchEpochs
         /\ FollowTracking(st) = Acquire(c, best, "BETTER_SOURCE", FALSE)
      \/ FollowTracking(st) = Enter(st, "HOLDOVER", st.hold.source, "SOURCE_LOST")
      \/ best # NoSource /\ FollowTracking(st) = Acquire(st, best, "ALTERNATIVE", FALSE)
      \/ /\ CandidateBound(st, Hold) = BoundNone
         /\ FollowTracking(st) = lost
  BY DEF FollowTracking
<1> HIDE DEF best
<1>7. c.state = "LOCKED"
  BY DEF Challenged, Status
<1>8. c \in Status /\ (c.run >= SwitchEpochs => best \in Profiles)
  BY <1>3, <1>4, ChallengedResult
<1> HIDE DEF c
<1>9. c.run >= SwitchEpochs => Acquire(c, best, "BETTER_SOURCE", FALSE).state = "ACQUIRE"
  <2>1. ASSUME best \in Profiles
        PROVE  Acquired(c, best, FALSE, Acquire(c, best, "BETTER_SOURCE", FALSE))
    BY <1>2, <1>8, <2>1, AcquireResult
  <2> QED
    BY <1>8, <2>1 DEF Acquired
<1>10. Enter(st, "HOLDOVER", st.hold.source, "SOURCE_LOST").state = "HOLDOVER"
  BY <1>2, <1>5, EnterResult
<1>11. best # NoSource => Acquire(st, best, "ALTERNATIVE", FALSE).state = "ACQUIRE"
  <2>1. ASSUME best \in Profiles
        PROVE  Acquired(st, best, FALSE, Acquire(st, best, "ALTERNATIVE", FALSE))
    BY <1>2, <2>1, AcquireResult
  <2> QED
    BY <1>3, <2>1 DEF Acquired
<1>12. lost.hold = st.hold
  BY <1>2, EnterResult DEF Carried
<1> HIDE DEF lost
<1>13. CandidateBound(st, Hold) = BoundNone /\ FollowTracking(st) = lost
  BY <1>1, <1>6, <1>7, <1>9, <1>10, <1>11
<1>14. HoldoverBound(st) \in Int => HoldoverBound(st) > SyncLimit
  BY <1>5, <1>13, LimitAssumption, BoundAssumption DEF CandidateBound
<1>15. HoldoverBound(st) \in Int
  BY HoldoverBoundType, BoundAssumption
<1> QED
  BY <1>1, <1>12, <1>13, <1>14, <1>15

\* What an epoch that started in st keeps of a challenge, and what it leaves a source
\* for: one that was ahead for the whole of it.
LeadKept(st, req, e) ==
  (st.state = "FREE_RUN" => st.run = 0)
  => /\ e.run > 0
        => /\ e.state = st.state /\ e.source = st.source /\ e.challenger \in Profiles
           /\ Outdoes(st, e, e.challenger) /\ e.run = RunTo(st, e.challenger)
     /\ /\ ~req.resync /\ st.state # "FREE_RUN" /\ e.source \notin {st.source, NoSource}
        /\ IsTracking(st) => StillUsable(st, e)
        => Outdoes(st, e, e.source) /\ RunTo(st, e.source) >= SwitchEpochs

\* A locked clock is not put into free run while holdover would do.
FreeRunKept(st, req, e) ==
  st.state = "LOCKED" /\ ~req.resync /\ e.state = "FREE_RUN"
    => e.hold.ready = TRUE /\ HoldoverBound(st) > SyncLimit

\* ... and of the label shown.
LabelKeptOn(st, req, e) ==
  ~req.resync /\ e.usable /\ SourceGood(e, e.source) /\ st.trk[e.source].hasLabel
    => LET t == st.trk[e.source]
       IN  \/ t.lastErr = e.time.err
           \/ t.lastErr - 1 = e.time.err /\ ~e.phaseValid /\ e.trk[e.source].rep.past

-----------------------------------------------------------------------------
\* The epoch

\* sync_update() keeps the inductive invariant, and the label, stage by stage.
LEMMA SyncUpdateKept ==
  ASSUME NEW st \in Status, Kept(st), NEW req \in Requests, NEW reports \in [Sources -> Report],
         NEW epochSeen \in BOOLEAN, NEW edgeTaken \in BOOLEAN, NEW refused \in BOOLEAN
  PROVE  LET e == SyncUpdate(st, req, reports, epochSeen, edgeTaken, refused)
         IN  /\ Kept(e) /\ TimeKept(st, req, e) /\ StartKept(st, e)
             /\ ResyncKept(req, e) /\ LeadKept(st, req, e) /\ FreeRunKept(st, req, e)
             /\ LabelKeptOn(st, req, e)
<1> DEFINE cleared  == [st EXCEPT !.history = <<>>]
           fresh    == ApplyResync(cleared, req.resync)
           judged   == JudgeSources(fresh, reports, epochSeen, edgeTaken)
           timed    == ApplyManualTime(judged, req.manual, req.err)
           promoted == PromoteFallback(timed)
           aligned  == AlignToTimeOfDay(promoted)
           followed == FollowSources(aligned)
           steered  == RunLoop(followed, CaptureOf(st, judged, epochSeen, refused))
           held     == FollowHoldover(steered)
           kept     == KeepTime(held)
           end      == EndEpoch(kept, st, judged.trk[st.route].rep.captured)
<1>1. req.resync \in BOOLEAN /\ req.manual \in BOOLEAN /\ req.err \in Int
  BY DEF Requests
<1>2. /\ Mid(cleared) /\ cleared.route = st.route
      /\ cleared.time = st.time /\ cleared.steered = st.steered
      /\ cleared.epochs = st.epochs /\ cleared.state = st.state
      /\ cleared.source = st.source /\ cleared.trk = st.trk /\ cleared.hold = st.hold
      /\ SameRun(st, cleared) /\ cleared.fallback = st.fallback
  <2>1. /\ cleared \in Status /\ cleared.hold = st.hold /\ cleared.state = st.state
        /\ cleared.source = st.source /\ cleared.route = st.route
        /\ cleared.steered = st.steered /\ cleared.time = st.time
        /\ cleared.epochs = st.epochs
        /\ cleared.run = st.run /\ cleared.loop = st.loop
        /\ cleared.trk = st.trk /\ cleared.challenger = st.challenger
        /\ cleared.fallback = st.fallback
    <3>1. <<>> \in Seq(Transition)
      OBVIOUS
    <3> QED
      BY <3>1 DEF Status
  <2> HIDE DEF cleared
  <2>2. Coherent(cleared)
    BY <2>1 DEF Kept, Coherent, IsTracking
  <2>3. cleared.loop.freeStep = TRUE => cleared.loop.state = "ACQUIRE"
    BY <2>1 DEF Kept, Processed
  <2> QED
    BY <2>1, <2>2, <2>3 DEF Mid, SameRun
<1>3. SyncUpdate(st, req, reports, epochSeen, edgeTaken, refused) = end
  BY DEF SyncUpdate
<1> HIDE DEF cleared
<1>4. /\ Mid(fresh) /\ fresh.time = st.time /\ fresh.steered = st.steered
      /\ fresh.epochs = st.epochs /\ (st.state = "FREE_RUN" => fresh.state = "FREE_RUN")
      /\ req.resync => /\ fresh.state = "FREE_RUN" /\ fresh.hold.ready = FALSE
                       /\ fresh.trk = [s \in Sources |-> NewTracker]
      /\ ~req.resync => fresh = cleared
      /\ req.resync => fresh.run = 0
  <2>1. cleared \in Status
    BY <1>2 DEF Mid
  <2>2. /\ Mid(fresh) /\ fresh.time = cleared.time /\ fresh.steered = cleared.steered
        /\ fresh.epochs = cleared.epochs
        /\ cleared.state = "FREE_RUN" => fresh.state = "FREE_RUN"
        /\ req.resync => /\ fresh.state = "FREE_RUN" /\ fresh.hold.ready = FALSE
                         /\ fresh.trk = [s \in Sources |-> NewTracker]
    BY <1>1, <1>2, <2>1, ApplyResyncMid
  <2>3. (~req.resync => fresh = cleared) /\ (req.resync => fresh.run = 0)
    BY <1>1, <2>1, ResyncRun
  <2> HIDE DEF fresh
  <2> QED
    BY <1>2, <2>2, <2>3
<1> HIDE DEF fresh
<1>5. /\ Mid(judged) /\ Routed(judged) /\ RunsJudged(judged) /\ judged \in Status
      /\ judged.time = st.time /\ judged.steered = st.steered
      /\ judged.epochs = st.epochs /\ (st.state = "FREE_RUN" => judged.state = "FREE_RUN")
      /\ req.resync /\ QualifyEpochs > 1
         => /\ judged.state = "FREE_RUN" /\ judged.hold.ready = FALSE
            /\ Unqualified(judged)
  <2>1. fresh \in Status
    BY <1>4 DEF Mid
  <2>2. Mid(judged) /\ Routed(judged) /\ RunsJudged(judged)
    BY <1>4, <2>1, JudgeSourcesMid
  <2>3. /\ judged.time = fresh.time /\ judged.steered = fresh.steered
        /\ judged.epochs = fresh.epochs /\ judged.state = fresh.state
        /\ judged.hold = fresh.hold /\ judged.source = fresh.source
    BY <2>1, JudgedCarries
  <2>4. req.resync /\ QualifyEpochs > 1 => Unqualified(judged)
    BY <1>4, <2>1, JudgedAnew
  <2> HIDE DEF judged
  <2> QED
    BY <1>4, <2>2, <2>3, <2>4 DEF Mid
<1>6. fresh \in Status
  BY <1>4 DEF Mid
<1>7. /\ judged.source = fresh.source /\ SameRun(fresh, judged)
      /\ judged.hold = fresh.hold /\ judged.state = fresh.state
      /\ judged.fallback = fresh.fallback
  BY <1>6, JudgedCarries, EarlyStagesRun
<1>8. GoodFollowsOn(fresh, judged, epochSeen)
  BY <1>6, JudgedFollowsOn
<1> HIDE DEF judged
<1>9. Mid(timed) /\ SameSources(judged, timed)
  BY <1>1, <1>5, ApplyManualTimeMid DEF Mid
<1>10. SameRun(judged, timed) /\ timed.fallback = judged.fallback
  BY <1>5, EarlyStagesRun
<1>11. /\ timed.epochs = judged.epochs
       /\ st.steered => timed.time = st.time
       /\ req.manual /\ ~st.steered
          => timed.time = [known |-> TRUE, err |-> req.err, source |-> NoSource]
  BY <1>1, <1>5, TimeSetByHand
<1> HIDE DEF timed
<1>12. /\ Mid(promoted) /\ SameSources(timed, promoted)
       /\ promoted.time = timed.time /\ promoted.epochs = timed.epochs
       /\ SameRun(timed, promoted)
       /\ promoted.fallback = (timed.fallback /\ ~SourceGood(timed, timed.source))
  BY <1>9, PromoteFallbackMid, PromotedCarries, EarlyStagesRun DEF Mid
<1> HIDE DEF promoted
<1>13. /\ Mid(aligned) /\ SameSources(promoted, aligned)
       /\ aligned.time = promoted.time /\ aligned.epochs = promoted.epochs
       /\ ~promoted.steered /\ (\E s \in Sources \ Profiles : Placed(promoted.trk[s]))
          => aligned.aligned
       /\ SameRun(promoted, aligned) /\ aligned.fallback = promoted.fallback
  BY <1>12, AlignMid, AlignedCarries, EarlyStagesRun DEF Mid
<1> HIDE DEF aligned
<1>14. Routed(aligned) /\ RunsJudged(aligned)
  BY <1>5, <1>9, <1>12, <1>13 DEF SameSources, Routed, RunsJudged
<1>15. Followed(followed) /\ Onward(aligned, followed)
  BY <1>13, <1>14, FollowSourcesFollowed, FollowSourcesChosen DEF Mid, Chosen
<1>16. ASSUME aligned.state = "FREE_RUN", aligned.epochs = AlignWait,
              NEW s \in Profiles, aligned.trk[s].goodRun >= QualifyEpochs
       PROVE  followed.state = "ACQUIRE"
  BY <1>13, <1>14, <1>16, FreeRunEnds DEF Mid
<1>17. aligned.state = "FREE_RUN" /\ Unqualified(aligned) => followed = aligned
  BY <1>13, FreeRunGoesOn DEF Mid
<1>18. (aligned.state = "FREE_RUN" => aligned.run = 0)
         => GoesOn(aligned, followed) /\ LeftFor(aligned, followed)
  BY <1>13, <1>14, FollowSourcesLeaves DEF Mid
<1>19. aligned.state = "LOCKED" /\ followed.state = "FREE_RUN"
         => HoldoverBound(aligned) > SyncLimit /\ followed.hold = aligned.hold
  BY <1>13, <1>14, LockedFallsBack DEF Mid
<1> HIDE DEF followed
<1>20. /\ Steered(steered) /\ Onward(followed, steered)
       /\ followed.state # "FREE_RUN" => steered.state # "FREE_RUN"
       /\ followed.state = "FREE_RUN"
          => /\ steered.state = "FREE_RUN" /\ steered.usable = FALSE
             /\ steered.hold = followed.hold
  <2>1. CaptureOf(st, judged, epochSeen, refused) \in Capture
    BY <1>5, CaptureType
  <2>2. followed \in Status
    BY <1>15 DEF Followed, Mid
  <2> QED
    BY <1>15, <2>1, <2>2, RunLoopSteered, RunLoopOnward
<1>21. /\ steered.source = followed.source
       /\ steered.run > 0 => SameRun(followed, steered) /\ steered.state = followed.state
       /\ steered.phaseValid => epochSeen
  <2>1. CaptureOf(st, judged, epochSeen, refused) \in Capture
    BY <1>5, CaptureType
  <2>2. followed \in Status
    BY <1>15 DEF Followed, Mid
  <2>3. CaptureOf(st, judged, epochSeen, refused).phaseValid => epochSeen
    BY DEF CaptureOf
  <2> QED
    BY <2>1, <2>2, <2>3, RunLoopMeasures
<1> HIDE DEF steered
<1>22. /\ Kept(held) /\ (held.usable => held.source \in Profiles)
       /\ Onward(steered, held) /\ held.state = steered.state
       /\ steered.state = "FREE_RUN" /\ ~steered.hold.ready => held = steered
       /\ steered.hold.ready = TRUE => held.hold.ready = TRUE
       /\ Measures(steered, held)
  BY <1>20, FollowHoldoverCoherent, HoldoverOnward, HoldoverStays, TailMeasures
     DEF Steered, Kept
<1> HIDE DEF held
<1>23. /\ Kept(kept) /\ kept.usable = held.usable /\ kept.state = held.state
       /\ kept.trk = held.trk /\ kept.aligned = held.aligned /\ kept.hold = held.hold
       /\ ~held.usable /\ held.time.known => kept.time = held.time
       /\ Measures(held, kept)
       /\ held.usable => kept.time.err = LabelEpoch(held.trk[held.source])
  BY <1>22, KeepTimeKept, KeepTimeCarries, KeepTimeShows, TailMeasures DEF Kept
<1> HIDE DEF kept
<1>24. judged.trk[st.route].rep.captured \in BOOLEAN
  BY <1>5, SourceAssumption DEF Status, Tracker, Report
<1>25. /\ Kept(end) /\ Onward(kept, end)
       /\ end.usable = kept.usable /\ end.state = kept.state /\ end.hold = kept.hold
       /\ Measures(kept, end)
  BY <1>23, <1>24, EndEpochKept, EndEpochOnward, TailMeasures DEF Kept
<1> HIDE DEF end
<1>26. held.time = timed.time
  BY <1>12, <1>13, <1>15, <1>20, <1>22 DEF Onward
<1>27. TimeKept(st, req, end)
  <2>1. ~end.usable /\ timed.time.known => end.time = timed.time
    BY <1>23, <1>25, <1>26 DEF Onward
  <2>2. st.steered /\ st.time.known /\ ~end.usable => end.time = st.time
    BY <1>11, <2>1
  <2>3. ASSUME req.manual, ~st.steered, ~end.usable
        PROVE  end.time = [known |-> TRUE, err |-> req.err, source |-> NoSource]
    <3>1. timed.time = [known |-> TRUE, err |-> req.err, source |-> NoSource]
      BY <1>11, <2>3
    <3> QED
      BY <2>1, <2>3, <3>1
  <2> QED
    BY <2>2, <2>3 DEF TimeKept
<1>28. /\ end.trk = promoted.trk /\ end.trk = aligned.trk
       /\ end.aligned = aligned.aligned
  BY <1>13, <1>15, <1>20, <1>22, <1>23, <1>25 DEF Onward, SameSources
<1>29. promoted.steered = st.steered
  BY <1>5, <1>9, <1>12 DEF SameSources
<1>30. /\ st.state = "FREE_RUN" => aligned.state = "FREE_RUN"
       /\ aligned.epochs = st.epochs
  <2>1. judged.state = aligned.state
    BY <1>9, <1>12, <1>13 DEF SameSources
  <2>2. timed.epochs = judged.epochs
    BY <1>11
  <2> QED
    BY <1>5, <1>12, <1>13, <2>1, <2>2
<1>31. followed.state # "FREE_RUN" => end.state # "FREE_RUN"
  BY <1>20, <1>22, <1>23, <1>25
<1>32. StartKept(st, end)
  <2>1. ~st.steered /\ (\E s \in Sources \ Profiles : Placed(end.trk[s])) => end.aligned
    BY <1>13, <1>28, <1>29
  <2>2. ASSUME st.state = "FREE_RUN", st.epochs = AlignWait,
               NEW s \in Profiles, end.trk[s].goodRun >= QualifyEpochs
        PROVE  end.state # "FREE_RUN"
    <3>1. followed.state = "ACQUIRE"
      BY <1>16, <1>28, <1>30, <2>2
    <3> QED
      BY <1>31, <3>1
  <2> QED
    BY <2>1, <2>2 DEF StartKept
<1>33. ResyncKept(req, end)
  <2> SUFFICES ASSUME req.resync, QualifyEpochs > 1
               PROVE  /\ end.state = "FREE_RUN" /\ end.usable = FALSE
                      /\ end.hold.ready = FALSE /\ Unqualified(end)
    BY DEF ResyncKept
  <2>1. /\ aligned.state = "FREE_RUN" /\ aligned.hold.ready = FALSE
        /\ aligned.trk = judged.trk
    BY <1>5, <1>9, <1>12, <1>13 DEF SameSources
  <2>2. Unqualified(aligned)
    BY <1>5, <2>1 DEF Unqualified
  <2>3. /\ steered.state = "FREE_RUN" /\ steered.usable = FALSE
        /\ steered.hold.ready = FALSE
    BY <1>20, <1>17, <2>1, <2>2
  <2>4. held = steered
    BY <1>22, <2>3
  <2>5. Unqualified(end)
    BY <1>28, <2>2 DEF Unqualified
  <2> QED
    BY <1>23, <1>25, <2>3, <2>4, <2>5
<1>34. Measures(steered, end)
  BY <1>22, <1>23, <1>25 DEF Measures, SameRun
<1>35. /\ ~req.resync => /\ SameRun(st, aligned) /\ aligned.state = st.state
                         /\ aligned.source = st.source /\ aligned.hold = st.hold
                         /\ aligned.fallback
                              = (st.fallback /\ ~SourceGood(aligned, st.source))
       /\ req.resync => aligned.run = 0 /\ aligned.state = "FREE_RUN"
  <2>1. /\ aligned.run = fresh.run /\ aligned.challenger = fresh.challenger
        /\ aligned.state = fresh.state /\ aligned.source = fresh.source
        /\ aligned.hold = fresh.hold /\ timed.source = fresh.source
        /\ timed.trk = aligned.trk
        /\ aligned.fallback = (fresh.fallback /\ ~SourceGood(timed, timed.source))
    BY <1>7, <1>9, <1>10, <1>12, <1>13 DEF SameSources, SameRun
  <2>2. SourceGood(timed, timed.source) <=> SourceGood(aligned, aligned.source)
    BY <2>1 DEF SourceGood
  <2> QED
    BY <1>2, <1>4, <2>1, <2>2 DEF SameRun
<1>36. LeadKept(st, req, end)
  <2> SUFFICES ASSUME st.state = "FREE_RUN" => st.run = 0
               PROVE  LeadKept(st, req, end)
    BY DEF LeadKept
  <2>1. GoesOn(aligned, followed) /\ LeftFor(aligned, followed)
    BY <1>18, <1>35 DEF SameRun
  <2>2. /\ end.source = followed.source
        /\ end.run > 0 => SameRun(followed, end) /\ end.state = followed.state
    BY <1>21, <1>34 DEF Measures, SameRun
  <2>3. ASSUME ~req.resync, NEW s, AheadOf(aligned, s)
        PROVE  s \in Profiles /\ Outdoes(st, end, s) /\ RunTo(aligned, s) = RunTo(st, s)
    <3>1. HoldoverBound(aligned) = HoldoverBound(st) /\ (IsTracking(aligned) <=> IsTracking(st))
      BY <1>35, <2>3 DEF HoldoverBound, IsTracking
    <3>2. SourceGood(aligned, s) => SourceGood(end, s)
      BY <1>28 DEF SourceGood
    <3>3. /\ aligned.state # "FREE_RUN" /\ s \in Profiles /\ s # aligned.source
          /\ SourceGood(aligned, s) /\ aligned.trk[s].goodRun >= QualifyEpochs
          /\ aligned.trk[s].bound * SwitchRatio
               < IF IsTracking(aligned) THEN aligned.trk[aligned.source].bound
                 ELSE HoldoverBound(aligned)
      BY <2>3 DEF AheadOf
    <3>4. aligned.state = st.state /\ aligned.source = st.source /\ SameRun(st, aligned)
      BY <1>35, <2>3
    <3>5. Outdoes(st, end, s)
      BY <1>28, <3>1, <3>2, <3>3, <3>4 DEF Outdoes
    <3>6. RunTo(aligned, s) = RunTo(st, s)
      BY <3>4 DEF RunTo, SameRun
    <3> QED
      BY <3>3, <3>5, <3>6
  <2>4. ASSUME end.run > 0
        PROVE  /\ end.state = st.state /\ end.source = st.source
               /\ end.challenger \in Profiles
               /\ Outdoes(st, end, end.challenger) /\ end.run = RunTo(st, end.challenger)
    <3>1. /\ end.run = followed.run /\ end.challenger = followed.challenger
          /\ end.state = followed.state
      BY <2>2, <2>4 DEF SameRun
    <3>2. /\ followed.state = aligned.state /\ followed.source = aligned.source
          /\ AheadOf(aligned, end.challenger) /\ end.run = RunTo(aligned, end.challenger)
      BY <2>1, <2>4, <3>1 DEF GoesOn
    <3>3. ~req.resync
      BY <1>35, <3>2 DEF AheadOf
    <3>4. /\ end.challenger \in Profiles /\ Outdoes(st, end, end.challenger)
          /\ end.run = RunTo(st, end.challenger)
      BY <2>3, <3>2, <3>3
    <3> QED
      BY <1>35, <2>2, <3>1, <3>2, <3>3, <3>4
  <2>5. ASSUME ~req.resync, st.state # "FREE_RUN", end.source \notin {st.source, NoSource},
               IsTracking(st) => StillUsable(st, end)
        PROVE  Outdoes(st, end, end.source) /\ RunTo(st, end.source) >= SwitchEpochs
    <3>1. IsTracking(aligned) => SourceUsable(aligned, aligned.source)
      <4> SUFFICES ASSUME IsTracking(aligned) PROVE SourceUsable(aligned, aligned.source)
        OBVIOUS
      <4>1. IsTracking(st) /\ st.source \in Sources
        BY <1>35, <2>5, SourceAssumption DEF IsTracking, Kept, Coherent
      <4>2. CASE SourceGood(end, st.source)
        BY <1>28, <1>35, <2>5, <4>2 DEF SourceUsable, SourceGood
      <4>3. CASE st.fallback /\ end.trk[st.source].check = "INACCURATE"
        <5>1. ~SourceGood(aligned, st.source) /\ aligned.trk[st.source].check = "INACCURATE"
          BY <1>28, <4>3 DEF SourceGood
        <5>2. aligned.fallback
          BY <1>35, <2>5, <4>3, <5>1
        <5> QED
          BY <1>35, <2>5, <4>1, <5>1, <5>2 DEF SourceUsable
      <4> QED
        BY <2>5, <4>1, <4>2, <4>3 DEF StillUsable
    <3>2. AheadOf(aligned, end.source) /\ RunTo(aligned, end.source) >= SwitchEpochs
      BY <1>35, <2>1, <2>2, <2>5, <3>1 DEF LeftFor
    <3> QED
      BY <2>3, <2>5, <3>2
  <2> QED
    BY <2>4, <2>5 DEF LeadKept
<1>37. FreeRunKept(st, req, end)
  <2> SUFFICES ASSUME st.state = "LOCKED", ~req.resync, end.state = "FREE_RUN"
               PROVE  end.hold.ready = TRUE /\ HoldoverBound(st) > SyncLimit
    BY DEF FreeRunKept
  <2>1. aligned.state = "LOCKED" /\ aligned.hold = st.hold
    BY <1>35
  <2>2. followed.state = "FREE_RUN"
    BY <1>31
  <2>3. HoldoverBound(aligned) = HoldoverBound(st)
    BY <2>1 DEF HoldoverBound
  <2>4. st.hold.ready = TRUE
    BY DEF Kept, Coherent, Status, Holdover
  <2>5. steered.hold.ready = TRUE
    BY <1>20, <1>19, <2>1, <2>2, <2>4
  <2> QED
    BY <1>22, <1>23, <1>25, <1>19, <2>1, <2>2, <2>3, <2>5
<1>38. LabelKeptOn(st, req, end)
  <2> DEFINE s == end.source
  <2> SUFFICES ASSUME ~req.resync, end.usable, SourceGood(end, s), st.trk[s].hasLabel
               PROVE  \/ st.trk[s].lastErr = end.time.err
                      \/ /\ st.trk[s].lastErr - 1 = end.time.err
                         /\ ~end.phaseValid /\ end.trk[s].rep.past
    BY DEF LabelKeptOn
  <2>1. s \in Sources /\ end.trk[s].check = "GOOD"
    BY DEF SourceGood
  <2>2. end.trk = judged.trk /\ held.trk = judged.trk
    BY <1>9, <1>12, <1>22, <1>23, <1>25, <1>28 DEF SameSources, Onward
  <2>3. fresh.trk = st.trk
    BY <1>2, <1>4
  <2>4. held.source = s /\ held.usable
    BY <1>23, <1>25 DEF Measures
  <2> HIDE DEF s
  <2>5. st.trk[s].hasLabel = TRUE
    BY <2>1 DEF Status, Tracker
  <2>6. /\ judged.trk[s].phaseValid = epochSeen
        /\ st.trk[s].lastErr = judged.trk[s].rep.utcErr
    BY <1>8, <2>1, <2>2, <2>3, <2>5 DEF GoodFollowsOn
  <2>7. end.time.err = LabelEpoch(judged.trk[s])
    BY <1>23, <1>25, <2>2, <2>4 DEF Onward
  <2>8. end.phaseValid => epochSeen
    BY <1>21, <1>34 DEF Measures
  <2>9. judged.trk[s].rep.utcErr \in Int /\ judged.trk[s].rep.past \in BOOLEAN
    BY <1>5, <2>1 DEF Status, Tracker, Report
  <2>10. CASE judged.trk[s].rep.past /\ ~judged.trk[s].phaseValid
    BY <2>2, <2>6, <2>7, <2>8, <2>10 DEF LabelEpoch
  <2>11. CASE ~(judged.trk[s].rep.past /\ ~judged.trk[s].phaseValid)
    BY <2>6, <2>7, <2>9, <2>11 DEF LabelEpoch
  <2> QED
    BY <2>10, <2>11
<1>39. /\ Kept(end) /\ TimeKept(st, req, end) /\ StartKept(st, end)
       /\ ResyncKept(req, end) /\ LeadKept(st, req, end) /\ FreeRunKept(st, req, end)
       /\ LabelKeptOn(st, req, end)
  BY <1>25, <1>27, <1>32, <1>33, <1>36, <1>37, <1>38
<1> QED
  BY <1>3, <1>39, Zenon

\* sync_init() establishes the invariant.
LEMMA InitKept == Init => SyncInv
<1> SUFFICES ASSUME Init PROVE SyncInv
  OBVIOUS
<1> DEFINE st == NewStatus(FirstProfile)
           trk  == [s \in Sources |-> NewTracker]
           hold == [ready |-> FALSE, source |-> NoSource, age |-> 0, base |-> 0, freq |-> 0]
           time == [known |-> FALSE, err |-> 0, source |-> NoSource]
<1>1. 0 \in 0 .. QualifyEpochs /\ 0 \in 0 .. BoundNone - 1 /\ 0 \in 0 .. MaxAge
      /\ 0 \in 0 .. SwitchEpochs /\ 0 \in 0 .. AlignWait
  BY QualifyAssumption, BoundAssumption, LimitAssumption
<1>2. trk \in [Sources -> Tracker]
  BY <1>1 DEF NewTracker, Tracker, Checks, NoReport, Report
<1>3. hold \in Holdover /\ time \in Time
  BY <1>1 DEF Holdover, Time, SourceOrNone
<1>4. <<>> \in Seq(Transition)
  OBVIOUS
<1>5. NewLoop.state = "ACQUIRE" /\ NewLoop.freeStep = FALSE /\ NewLoop.profile = FirstProfile
  BY DEF NewLoop
<1>6. st = [state |-> "FREE_RUN", source |-> NoSource, fallback |-> FALSE,
            trk |-> trk, hold |-> hold, time |-> time,
            challenger |-> NoSource, run |-> 0, epochs |-> 0,
            phaseValid |-> FALSE, phase |-> 0, steered |-> FALSE, aligned |-> FALSE,
            resyncSlew |-> FALSE, history |-> <<>>, kind |-> "FREE_RUN", usable |-> FALSE,
            loop |-> NewLoop, route |-> FirstProfile, paired |-> FALSE]
  BY DEF NewStatus
<1>7. hold.ready = FALSE
  OBVIOUS
<1> HIDE DEF trk, hold, time
<1>8. st \in Status
  BY <1>1, <1>2, <1>3, <1>4, <1>6, NewLoopType, LoopAssumption
     DEF Status, States, SourceOrNone, UpdateKinds
<1>9. Coherent(st) /\ Processed(st)
  BY <1>5, <1>6, <1>7, LimitAssumption DEF Coherent, Processed, IsTracking
<1>10. requests \in Requests
  BY DEF Init, NoRequests, Requests
<1>11. leads \in [Profiles -> 0 .. SwitchEpochs]
  BY <1>1 DEF Init
<1>12. st.run = 0
  BY <1>6
<1> QED
  BY <1>8, <1>9, <1>10, <1>11, <1>12 DEF Init, SyncInv, TypeOK, ChallengeLed

\* What the capture may be refused for is a truth value.
LEMMA RefusalType ==
  ASSUME NEW reports
  PROVE  Refusals(reports) \subseteq BOOLEAN
  BY DEF Refusals

\* The history of who was ahead is of its type, and goes on for who still is.
LEMMA LedType ==
  ASSUME NEW st, NEW next, NEW led \in [Profiles -> 0 .. SwitchEpochs]
  PROVE  /\ Led(st, next, led) \in [Profiles -> 0 .. SwitchEpochs]
         /\ \A s \in Profiles :
              /\ Outdoes(st, next, s) /\ next.source = st.source /\ next.state = st.state
              => \/ Led(st, next, led)[s] = led[s] + 1
                 \/ Led(st, next, led)[s] = SwitchEpochs
<1> DEFINE on(s) == /\ Outdoes(st, next, s)
                    /\ next.source = st.source /\ IsTracking(next) = IsTracking(st)
           now(s) == IF on(s) THEN IF led[s] < SwitchEpochs THEN led[s] + 1 ELSE led[s] ELSE 0
<1>1. ASSUME NEW s \in Profiles
      PROVE  /\ now(s) \in 0 .. SwitchEpochs
             /\ on(s) => now(s) = led[s] + 1 \/ now(s) = SwitchEpochs
  <2>1. led[s] \in 0 .. SwitchEpochs /\ SwitchEpochs \in Nat
    BY LimitAssumption
  <2> HIDE DEF on
  <2> QED
    BY <2>1
<1>2. Led(st, next, led) = [s \in Profiles |-> now(s)]
  BY DEF Led
<1>3. ASSUME NEW s \in Profiles, Outdoes(st, next, s), next.source = st.source,
             next.state = st.state
      PROVE  on(s)
  BY <1>3 DEF IsTracking
<1> HIDE DEF on, now
<1> QED
  BY <1>1, <1>2, <1>3

\* An epoch keeps the invariant, whatever is reported in it.
LEMMA EpochKept ==
  ASSUME SyncInv, NEW reports \in [Sources -> Report],
         NEW epochSeen \in BOOLEAN, NEW edgeTaken \in BOOLEAN, NEW refused \in BOOLEAN,
         status' = SyncUpdate(status, requests, reports, epochSeen, edgeTaken, refused),
         requests' \in Requests, leads' = Led(status, status', leads)
  PROVE  SyncInv'
<1>1. /\ status \in Status /\ requests \in Requests /\ Kept(status)
      /\ leads \in [Profiles -> 0 .. SwitchEpochs]
  BY DEF SyncInv, TypeOK, Kept
<1>2. Kept(status') /\ LeadKept(status, requests, status')
  BY <1>1, SyncUpdateKept
<1>3. leads' \in [Profiles -> 0 .. SwitchEpochs]
  BY <1>1, LedType
<1>4. ChallengeLed'
  <2> SUFFICES ASSUME status'.run > 0
               PROVE  /\ status'.state # "FREE_RUN" /\ status'.challenger \in Profiles
                      /\ status'.run <= leads'[status'.challenger]
    BY DEF ChallengeLed
  <2> DEFINE s == status'.challenger
  <2>1. status.run \in Nat /\ SwitchEpochs \in Nat \ {0}
    BY <1>1, LimitAssumption DEF Status
  <2>2. status.state = "FREE_RUN" => status.run = 0
    BY <2>1 DEF SyncInv, ChallengeLed
  <2>3. /\ status'.state = status.state /\ status'.source = status.source
        /\ s \in Profiles /\ Outdoes(status, status', s)
        /\ status'.run = RunTo(status, s)
    BY <1>2, <2>2 DEF LeadKept
  <2>4. status'.state # "FREE_RUN"
    BY <2>3 DEF Outdoes
  <2>5. status'.run < SwitchEpochs /\ status'.run \in Nat
    BY <1>2, <2>1 DEF Kept, Coherent, Status
  <2> HIDE DEF s
  <2>6. leads'[s] = leads[s] + 1 \/ leads'[s] = SwitchEpochs
    BY <1>1, <2>3, LedType
  <2>7. leads[s] \in Nat
    BY <1>1, <2>1, <2>3
  <2>8. status'.run <= leads[s] + 1
    <3>1. CASE s = status.challenger /\ status.run > 0
      BY <2>1, <2>3, <2>7, <3>1 DEF RunTo, SyncInv, ChallengeLed
    <3>2. CASE ~(s = status.challenger /\ status.run > 0)
      BY <2>1, <2>3, <2>7, <3>2 DEF RunTo
    <3> QED
      BY <3>1, <3>2
  <2>9. status'.run <= leads'[s]
    BY <2>1, <2>5, <2>6, <2>7, <2>8
  <2> QED
    BY <2>3, <2>4, <2>9 DEF s
<1> QED
  BY <1>2, <1>3, <1>4 DEF Kept, SyncInv, TypeOK

\* Every epoch and every request between epochs keeps it.
LEMMA NextKept == SyncInv /\ [Next]_vars => SyncInv'
<1> SUFFICES ASSUME SyncInv, [Next]_vars PROVE SyncInv'
  OBVIOUS
<1>1. status \in Status /\ requests \in Requests /\ Kept(status)
  BY DEF SyncInv, TypeOK, Kept
<1>2. CASE Epoch
  <2>1. PICK reports \in Reports, epochSeen \in BOOLEAN, edgeTaken \in BOOLEAN,
             refused \in BOOLEAN :
          status' = SyncUpdate(status, requests, reports, epochSeen, edgeTaken, refused)
    BY <1>2, RefusalType DEF Epoch, UpdateStatus
  <2>2. requests' \in Requests /\ leads' = Led(status, status', leads)
    BY <1>2 DEF Epoch, UpdateStatus, NoRequests, Requests
  <2> QED
    BY <2>1, <2>2, InputAssumption, EpochKept
<1>3. CASE SetTime
  <2>1. requests' \in Requests
    BY <1>1, <1>3, InputAssumption DEF SetTime, Requests
  <2> QED
    BY <1>3, <2>1 DEF SetTime, SyncInv, TypeOK, ChallengeLed
<1>4. CASE Resync
  <2>1. requests' \in Requests
    BY <1>1, <1>4 DEF Resync, Requests
  <2> QED
    BY <1>4, <2>1 DEF Resync, SyncInv, TypeOK, ChallengeLed
<1>5. CASE UNCHANGED vars
  BY <1>5 DEF vars, SyncInv, TypeOK, ChallengeLed
<1> QED
  BY <1>2, <1>3, <1>4, <1>5 DEF Next

\* A step that is not an epoch leaves the status alone, and a request pending.
LEMMA NextPromises ==
  SyncInv /\ [Next]_vars => /\ [ManualIsTaken /\ ManualGivesWay]_vars
                            /\ [AlignedBeforeSteering /\ NotHeldUp]_vars
<1> SUFFICES ASSUME SyncInv, [Next]_vars
             PROVE  /\ [ManualIsTaken /\ ManualGivesWay]_vars
                    /\ [AlignedBeforeSteering /\ NotHeldUp]_vars
  OBVIOUS
<1>1. status \in Status /\ requests \in Requests /\ Kept(status)
  BY DEF SyncInv, TypeOK, Kept
<1>2. CASE Epoch
  <2>1. PICK reports \in Reports, epochSeen \in BOOLEAN, edgeTaken \in BOOLEAN,
             refused \in BOOLEAN :
          status' = SyncUpdate(status, requests, reports, epochSeen, edgeTaken, refused)
    BY <1>2, RefusalType DEF Epoch, UpdateStatus
  <2>2. TimeKept(status, requests, status') /\ StartKept(status, status')
    BY <1>1, <2>1, InputAssumption, SyncUpdateKept
  <2> QED
    BY <2>2 DEF TimeKept, StartKept, ManualIsTaken, ManualGivesWay,
                AlignedBeforeSteering, NotHeldUp
<1>3. CASE SetTime
  <2>1. status' = status /\ requests'.manual = TRUE
    BY <1>1, <1>3 DEF SetTime, Requests
  <2> QED
    BY <2>1 DEF ManualIsTaken, ManualGivesWay, AlignedBeforeSteering, NotHeldUp
<1>4. CASE Resync
  <2>1. status' = status /\ requests'.manual = requests.manual
    BY <1>1, <1>4 DEF Resync, Requests
  <2> QED
    BY <2>1 DEF ManualIsTaken, ManualGivesWay, AlignedBeforeSteering, NotHeldUp
<1>5. CASE UNCHANGED vars
  BY <1>5
<1> QED
  BY <1>2, <1>3, <1>4, <1>5 DEF Next

\* After an epoch that took up a resync there is no candidate at all.
LEMMA NextStartsOver ==
  ASSUME QualifyEpochs > 1, SyncInv, Next, requests.resync, ~requests'.resync
  PROVE  /\ status'.state = "FREE_RUN" /\ ~status'.usable
         /\ \A c \in Candidates : CandidateBound(status', c) = BoundNone
<1>1. status \in Status /\ requests \in Requests /\ Kept(status)
  BY DEF SyncInv, TypeOK, Kept
<1>2. ~SetTime
  BY <1>1 DEF SetTime, Requests
<1>3. ~Resync
  BY <1>1 DEF Resync, Requests
<1>4. PICK reports \in Reports, epochSeen \in BOOLEAN, edgeTaken \in BOOLEAN,
           refused \in BOOLEAN :
        status' = SyncUpdate(status, requests, reports, epochSeen, edgeTaken, refused)
  BY <1>2, <1>3, RefusalType DEF Next, Epoch, UpdateStatus
<1>5. Kept(status') /\ ResyncKept(requests, status')
  BY <1>1, <1>4, InputAssumption, SyncUpdateKept
<1>6. /\ status'.state = "FREE_RUN" /\ status'.usable = FALSE
      /\ status'.hold.ready = FALSE /\ Unqualified(status') /\ status' \in Status
  BY <1>5 DEF ResyncKept, Kept
<1>7. ASSUME NEW c \in Candidates PROVE CandidateBound(status', c) = BoundNone
  <2>1. CASE c = Hold
    BY <1>6, <2>1 DEF CandidateBound
  <2>2. CASE c # Hold
    <3>1. c \in Sources
      BY <2>2 DEF Candidates
    <3>2. ~(status'.trk[c].goodRun >= QualifyEpochs)
      BY <1>6, <3>1, QualifyAssumption DEF Unqualified, Status, Tracker
    <3>3. ~IsTracking(status')
      BY <1>6 DEF IsTracking
    <3> QED
      BY <2>2, <3>2, <3>3 DEF CandidateBound
  <2> QED
    BY <2>1, <2>2
<1> QED
  BY <1>6, <1>7

\* An epoch leaves no source without a cause; nothing else moves the status.
LEMMA NextLeaves ==
  SyncInv /\ [Next]_vars => [LeavesOnlyForBetter /\ NoNeedlessFreeRun]_vars
<1> SUFFICES ASSUME SyncInv, [Next]_vars
             PROVE  [LeavesOnlyForBetter /\ NoNeedlessFreeRun]_vars
  OBVIOUS
<1>1. status \in Status /\ requests \in Requests /\ Kept(status)
  BY DEF SyncInv, TypeOK, Kept
<1>2. CASE Epoch
  <2>1. PICK reports \in Reports, epochSeen \in BOOLEAN, edgeTaken \in BOOLEAN,
             refused \in BOOLEAN :
          status' = SyncUpdate(status, requests, reports, epochSeen, edgeTaken, refused)
    BY <1>2, RefusalType DEF Epoch, UpdateStatus
  <2>2. LeadKept(status, requests, status') /\ FreeRunKept(status, requests, status')
    BY <1>1, <2>1, InputAssumption, SyncUpdateKept
  <2>3. LeavesOnlyForBetter
    <3> DEFINE s == status'.source
    <3> SUFFICES ASSUME ~requests.resync, status.state # "FREE_RUN",
                        s \notin {status.source, NoSource},
                        IsTracking(status) => StillUsable(status, status')
                 PROVE  Outdoes(status, status', s) /\ leads[s] + 1 >= SwitchEpochs
      BY DEF LeavesOnlyForBetter
    <3>1. Outdoes(status, status', s) /\ RunTo(status, s) >= SwitchEpochs
      BY <2>2 DEF LeadKept
    <3>2. Kept(status') /\ s \in Profiles
      BY <1>1, <2>1, InputAssumption, SyncUpdateKept DEF Kept, Coherent
    <3> HIDE DEF s
    <3>3. /\ leads[s] \in Nat /\ status.run \in Nat /\ SwitchEpochs \in Nat \ {0}
          /\ status.run > 0 => status.run <= leads[status.challenger]
      BY <1>1, <3>2, LimitAssumption DEF SyncInv, TypeOK, ChallengeLed, Status
    <3>4. RunTo(status, s) <= leads[s] + 1
      BY <3>3 DEF RunTo
    <3>5. RunTo(status, s) \in Nat
      BY <3>3 DEF RunTo
    <3> QED
      BY <3>1, <3>3, <3>4, <3>5 DEF s
  <2>4. NoNeedlessFreeRun
    BY <2>2 DEF FreeRunKept, NoNeedlessFreeRun
  <2> QED
    BY <2>3, <2>4
<1>3. CASE status' = status
  BY <1>3 DEF LeavesOnlyForBetter, NoNeedlessFreeRun
<1> QED
  BY <1>2, <1>3 DEF Next, SetTime, Resync, vars

\* The label of a good source is shown only if it follows on.
LEMMA NextFollowsOn ==
  ASSUME QualifyEpochs > 1, SyncInv, Next, status' # status,
         status'.usable, SourceGood(status', status'.source),
         status.trk[status'.source].hasLabel
  PROVE  LET t == status.trk[status'.source]
         IN  \/ t.lastErr = status'.time.err
             \/ /\ t.lastErr - 1 = status'.time.err
                /\ ~status'.phaseValid /\ status'.trk[status'.source].rep.past
<1>1. status \in Status /\ requests \in Requests /\ Kept(status)
  BY DEF SyncInv, TypeOK, Kept
<1>2. PICK reports \in Reports, epochSeen \in BOOLEAN, edgeTaken \in BOOLEAN,
           refused \in BOOLEAN :
        status' = SyncUpdate(status, requests, reports, epochSeen, edgeTaken, refused)
  BY RefusalType DEF Next, Epoch, UpdateStatus, SetTime, Resync
<1>3. LabelKeptOn(status, requests, status') /\ ResyncKept(requests, status')
  BY <1>1, <1>2, InputAssumption, SyncUpdateKept
<1>4. ~requests.resync
  BY <1>3 DEF ResyncKept
<1> QED
  BY <1>3, <1>4 DEF LabelKeptOn

-----------------------------------------------------------------------------
\* The ranking shown

\* The bounds it compares.
LEMMA CandidateBoundType ==
  ASSUME NEW st \in Status, NEW c \in Candidates
  PROVE  CandidateBound(st, c) \in 0 .. BoundNone
<1>1. HoldoverBound(st) \in 0 .. BoundNone
  BY HoldoverBoundType
<1>2. BoundNone \in 0 .. BoundNone
  BY BoundAssumption
<1>3. c # Hold => st.trk[c].bound \in 0 .. BoundNone
  BY BoundAssumption DEF Candidates, Status, Tracker
<1> QED
  BY <1>1, <1>2, <1>3 DEF CandidateBound

\* Two candidates are placed one way round and not the other, and the order is
\* transitive: holdover loses every tie, and no two sources are preferred alike.
LEMMA BeforeIsOrder ==
  ASSUME NEW st \in Status, NEW c \in Candidates, NEW d \in Candidates, c # d
  PROVE  /\ Before(st, c, d) <=> ~Before(st, d, c)
         /\ \A e \in Candidates \ {c, d} :
              Before(st, c, d) /\ Before(st, d, e) => Before(st, c, e)
<1> DEFINE b(x) == CandidateBound(st, x)
<1>1. ASSUME NEW x \in Candidates PROVE b(x) \in Int
  BY CandidateBoundType, BoundAssumption
<1>2. \A x \in Candidates : x # Hold => x \in Sources /\ Preference[x] \in Nat
  BY SourceAssumption DEF Candidates
<1>3. ASSUME NEW x \in Candidates, NEW y \in Candidates
      PROVE  Before(st, x, y) <=> \/ b(x) < b(y)
                                  \/ /\ b(x) = b(y)
                                     /\ y = Hold \/ (x # Hold /\ Preference[x] < Preference[y])
  BY DEF Before
<1> HIDE DEF b
<1>4. Before(st, c, d) <=> ~Before(st, d, c)
  BY <1>1, <1>2, <1>3, SourceAssumption
<1>5. ASSUME NEW e \in Candidates \ {c, d}, Before(st, c, d), Before(st, d, e)
      PROVE  Before(st, c, e)
  BY <1>1, <1>2, <1>3, <1>5
<1> QED
  BY <1>4, <1>5

\* Those of a set placed before one of them.
Ahead(st, set, c) == {d \in set \ {c} : Before(st, d, c)}

LEMMA AheadGrows ==
  ASSUME NEW st \in Status, NEW set \in SUBSET Candidates, IsFiniteSet(set),
         NEW c \in set, NEW d \in set, c # d, Before(st, c, d)
  PROVE  Cardinality(Ahead(st, set, c)) < Cardinality(Ahead(st, set, d))
<1> DEFINE C == Ahead(st, set, c)
           D == Ahead(st, set, d)
<1>1. ASSUME NEW e \in C PROVE e \in D
  <2>1. e \in set /\ e # c /\ Before(st, e, c)
    BY DEF Ahead
  <2>2. e # d
    BY <2>1, BeforeIsOrder
  <2>3. Before(st, e, d)
    BY <2>1, <2>2, BeforeIsOrder
  <2> QED
    BY <2>1, <2>2, <2>3 DEF Ahead
<1>2. c \in D /\ c \notin C
  BY DEF Ahead
<1>3. IsFiniteSet(D) /\ C \in SUBSET D
  BY <1>1, FS_Subset DEF Ahead
<1> HIDE DEF C, D
<1>4. C # D
  BY <1>2
<1>5. IsFiniteSet(C) /\ Cardinality(C) <= Cardinality(D) /\ Cardinality(C) # Cardinality(D)
  BY <1>3, <1>4, FS_Subset
<1>6. Cardinality(C) \in Nat /\ Cardinality(D) \in Nat
  BY <1>3, <1>5, FS_CardinalityType
<1>7. Cardinality(C) < Cardinality(D)
  BY <1>5, <1>6
<1> QED
  BY <1>7 DEF C, D

\* The candidates of a set are placed 1, 2, ... with none left out.
LEMMA PlacesFilled ==
  ASSUME NEW st \in Status, NEW set \in SUBSET Candidates
  PROVE  /\ IsFiniteSet(set)
         /\ {1 + Cardinality(Ahead(st, set, c)) : c \in set} = 1 .. Cardinality(set)
<1> DEFINE n == Cardinality(set)
           place == [c \in set |-> 1 + Cardinality(Ahead(st, set, c))]
<1>1. IsFiniteSet(set)
  <2>1. IsFiniteSet(Candidates)
    BY SourceAssumption, FS_AddElement DEF Candidates
  <2> QED
    BY <2>1, FS_Subset
<1>2. n \in Nat
  BY <1>1, FS_CardinalityType
<1>3. IsFiniteSet(1 .. n) /\ Cardinality(1 .. n) = n
  BY <1>2, FS_Interval
<1>4. ASSUME NEW c \in set
      PROVE  Cardinality(Ahead(st, set, c)) \in 0 .. n - 1
  <2>1. IsFiniteSet(set \ {c}) /\ Cardinality(set \ {c}) = n - 1
    BY <1>1, FS_RemoveElement
  <2>2. Ahead(st, set, c) \in SUBSET (set \ {c})
    BY DEF Ahead
  <2>3. /\ IsFiniteSet(Ahead(st, set, c))
        /\ Cardinality(Ahead(st, set, c)) <= Cardinality(set \ {c})
    BY <2>1, <2>2, FS_Subset
  <2>4. Cardinality(Ahead(st, set, c)) \in Nat
    BY <2>3, FS_CardinalityType
  <2> HIDE DEF n
  <2> QED
    BY <1>2, <2>1, <2>3, <2>4
<1>5. place \in [set -> 1 .. n]
  <2> HIDE DEF n
  <2> QED
    BY <1>2, <1>4
<1>6. ASSUME NEW c \in set, NEW d \in set, place[c] = place[d] PROVE c = d
  <2> SUFFICES ASSUME c # d PROVE FALSE
    OBVIOUS
  <2>1. Cardinality(Ahead(st, set, c)) = Cardinality(Ahead(st, set, d))
    <3> HIDE DEF n
    <3> QED
      BY <1>2, <1>4, <1>6
  <2>2. Before(st, c, d) \/ Before(st, d, c)
    BY BeforeIsOrder
  <2>3. Cardinality(Ahead(st, set, c)) \in Int
    <3> HIDE DEF n
    <3> QED
      BY <1>2, <1>4
  <2> QED
    BY <1>1, <2>1, <2>2, <2>3, AheadGrows
<1> HIDE DEF n
<1>7. place \in Injection(set, 1 .. n)
  <2> HIDE DEF place
  <2> QED
    BY <1>5, <1>6 DEF Injection, IsInjective
<1>8. place \in Surjection(set, 1 .. n)
  <2> HIDE DEF place
  <2> QED
    BY <1>3, <1>7, FS_Injection DEF n
<1>9. {place[c] : c \in set} = 1 .. n
  <2> HIDE DEF place
  <2> QED
    BY <1>5, <1>8 DEF Surjection
<1> QED
  BY <1>1, <1>9 DEF n

\* The ranks of a status in its type: sync_candidate_rank() fills the places of
\* the candidates, and rank_second() finds the next one to that in use.
LEMMA RankOfCandidate ==
  ASSUME NEW st \in Status, NEW c \in Candidates, CandidateBound(st, c) # BoundNone
  PROVE  LET ready == {d \in Candidates : CandidateBound(st, d) # BoundNone}
         IN  Rank(st, c) = 1 + Cardinality(Ahead(st, ready, c))
<1> DEFINE ready == {d \in Candidates : CandidateBound(st, d) # BoundNone}
           all == {d \in Candidates \ {c} : Before(st, d, c)}
<1>1. ASSUME NEW d \in all PROVE d \in ready
  <2>1. CandidateBound(st, d) <= CandidateBound(st, c)
    BY CandidateBoundType, BoundAssumption DEF Before
  <2> QED
    BY <2>1, CandidateBoundType, BoundAssumption
<1>2. all = Ahead(st, ready, c)
  BY <1>1 DEF Ahead
<1>3. Rank(st, c) = 1 + Cardinality(all)
  BY DEF Rank
<1> QED
  BY <1>2, <1>3

LEMMA RanksAgree ==
  ASSUME NEW st \in Status
  PROVE  LET ranks == {Rank(st, c) : c \in Candidates} \ {0}
         IN  /\ ranks = 1 .. Cardinality({c \in Candidates : Rank(st, c) # 0})
             /\ Second(st) # NoSource => Rank(st, Second(st)) \in 1 .. 2
<1> DEFINE ready == {d \in Candidates : CandidateBound(st, d) # BoundNone}
           ranks == {Rank(st, c) : c \in Candidates} \ {0}
           n == Cardinality(ready)
<1>1. /\ IsFiniteSet(ready)
      /\ {1 + Cardinality(Ahead(st, ready, c)) : c \in ready} = 1 .. n
  BY PlacesFilled
<1>2. ASSUME NEW c \in ready
      PROVE  /\ Rank(st, c) = 1 + Cardinality(Ahead(st, ready, c))
             /\ Rank(st, c) \in 1 .. n
  <2>1. Rank(st, c) = 1 + Cardinality(Ahead(st, ready, c))
    BY RankOfCandidate
  <2> HIDE DEF ready
  <2> QED
    BY <1>1, <2>1
<1>3. ASSUME NEW c \in Candidates PROVE c \notin ready <=> Rank(st, c) = 0
  <2>1. c \notin ready => Rank(st, c) = 0
    BY DEF Rank
  <2>2. n \in Nat
    BY <1>1, FS_CardinalityType
  <2>3. c \in ready => Rank(st, c) # 0
    <3> HIDE DEF ready, n
    <3> QED
      BY <1>2, <2>2
  <2> QED
    BY <2>1, <2>3
<1>4. ready \in SUBSET Candidates
  OBVIOUS
<1>5. ranks = {1 + Cardinality(Ahead(st, ready, c)) : c \in ready}
  <2> HIDE DEF ready, n
  <2> QED
    BY <1>2, <1>3, <1>4
<1>6. ready = {c \in Candidates : Rank(st, c) # 0}
  <2> HIDE DEF ready, n
  <2> QED
    BY <1>3, <1>4
<1>7. ranks = 1 .. Cardinality({c \in Candidates : Rank(st, c) # 0})
  <2> HIDE DEF ready, ranks
  <2> QED
    BY <1>1, <1>5, <1>6
<1>8. ASSUME Second(st) # NoSource PROVE Rank(st, Second(st)) \in 1 .. 2
  <2> DEFINE others == {c \in Candidates \ {InUse(st)} : CandidateBound(st, c) < BoundNone}
             first(c) == c \in others /\ \A d \in others \ {c} : Before(st, c, d)
  <2>1. others # {}
    BY <1>8 DEF Second
  <2>2. /\ IsFiniteSet(others)
        /\ {1 + Cardinality(Ahead(st, others, c)) : c \in others} = 1 .. Cardinality(others)
    BY PlacesFilled
  <2>3. others \subseteq ready
    BY BoundAssumption
  <2>4. \E c \in others : \A d \in others \ {c} : Before(st, c, d)
    <3> HIDE DEF others
    <3>1. Cardinality(others) \in Nat /\ Cardinality(others) # 0
      BY <2>1, <2>2, FS_CardinalityType, FS_EmptySet
    <3>2. 1 \in 1 .. Cardinality(others)
      BY <3>1
    <3>3. PICK c \in others : 1 + Cardinality(Ahead(st, others, c)) = 1
      BY <2>2, <3>2
    <3>4. IsFiniteSet(Ahead(st, others, c))
      BY <2>2, FS_Subset DEF Ahead
    <3>5. Cardinality(Ahead(st, others, c)) \in Nat
      BY <3>4, FS_CardinalityType
    <3>6. Ahead(st, others, c) = {}
      BY <3>3, <3>4, <3>5, FS_EmptySet
    <3>7. ASSUME NEW d \in others \ {c} PROVE Before(st, c, d)
      <4>1. ~Before(st, d, c)
        BY <3>6 DEF Ahead
      <4>2. c \in Candidates /\ d \in Candidates
        BY DEF others
      <4> QED
        BY <4>1, <4>2, BeforeIsOrder
    <3> QED
      BY <3>7
  <2>5. Second(st) \in others /\ \A d \in others \ {Second(st)} : Before(st, Second(st), d)
    <3>1. Second(st) = CHOOSE c \in others : \A d \in others \ {c} : Before(st, c, d)
      BY <2>1 DEF Second
    <3> HIDE DEF others
    <3> QED
      BY <2>4, <3>1
  <2> DEFINE c == Second(st)
  <2>6. c \in ready
    BY <2>3, <2>5
  <2>7. Ahead(st, ready, c) \subseteq {InUse(st)}
    <3> SUFFICES ASSUME NEW d \in Ahead(st, ready, c), d # InUse(st) PROVE FALSE
      OBVIOUS
    <3>1. d \in ready /\ d # c /\ Before(st, d, c)
      BY DEF Ahead
    <3>2. CandidateBound(st, d) < BoundNone
      BY <3>1, CandidateBoundType, BoundAssumption
    <3>3. d \in others \ {c}
      BY <3>1, <3>2
    <3>4. Before(st, c, d)
      <4> HIDE DEF others
      <4> QED
        BY <2>5, <3>3
    <3>5. c \in Candidates /\ d \in Candidates
      BY <2>6, <3>1
    <3> HIDE DEF c, ready, others
    <3>6. Before(st, c, d) <=> ~Before(st, d, c)
      BY <3>1, <3>5, BeforeIsOrder
    <3> QED
      BY <3>1, <3>4, <3>6
  <2>8. Cardinality(Ahead(st, ready, c)) \in 0 .. 1
    <3>1. IsFiniteSet({InUse(st)}) /\ Cardinality({InUse(st)}) = 1
      BY FS_Singleton
    <3>2. /\ IsFiniteSet(Ahead(st, ready, c))
          /\ Cardinality(Ahead(st, ready, c)) <= 1
      <4> HIDE DEF ready, c
      <4> QED
        BY <2>7, <3>1, FS_Subset
    <3>3. Cardinality(Ahead(st, ready, c)) \in Nat
      BY <3>2, FS_CardinalityType
    <3> QED
      BY <3>2, <3>3
  <2>9. Rank(st, c) = 1 + Cardinality(Ahead(st, ready, c))
    <3> HIDE DEF ready, c
    <3> QED
      BY <1>2, <2>6
  <2> QED
    BY <2>8, <2>9
<1> QED
  BY <1>7, <1>8

-----------------------------------------------------------------------------
\* The theorems

\* The inductive invariant of the synchroniser: from any reports, in any order,
\* with any resync and any time set by hand between epochs, the state, the
\* source, the route, the loop and holdover hang together (sync_update).
THEOREM SyncInvariant == Spec => []SyncInv
  BY InitKept, NextKept, PTL DEF Spec

\* SyncStatus keeps the ranges of its fields.
THEOREM TypeCorrect == Spec => []TypeOK
<1>1. SyncInv => TypeOK
  BY DEF SyncInv
<1> QED
  BY <1>1, SyncInvariant, PTL

\* A step of the epoch, of either kind, is never left pending into an epoch
\* that is not acquiring (epoch_control_update).
THEOREM StepsWhenAcquiring == Spec => []StepOnlyWhenAcquiring
<1>1. SyncInv => StepOnlyWhenAcquiring
  BY DEF SyncInv, StepOnlyWhenAcquiring, Processed
<1> QED
  BY <1>1, SyncInvariant, PTL

\* A time set by hand is counted from unless a source labels that very epoch,
\* and gives way for good to any source that has steered (apply_manual_time,
\* keep_time): whatever path the epoch takes through the selection.
THEOREM ManualTimeKept == Spec => ManualTime
  BY SyncInvariant, NextPromises, PTL DEF Spec, ManualTime

\* At start-up a second that is offered is used before anything steers, and the
\* wait for it ends with the first qualified source (align_to_time_of_day,
\* time_of_day_pending): for any number of sources and any order they come in.
THEOREM StartsRightly == Spec => StartsRight
  BY SyncInvariant, NextPromises, PTL DEF Spec, StartsRight

\* A resync starts over: with more than one epoch asked of a source before it
\* qualifies, nothing known before the resync is a candidate after it
\* (apply_resync), whatever the sources report in that very epoch.
THEOREM ResyncForgets ==
  ASSUME QualifyEpochs > 1
  PROVE  Spec => ResyncStartsOver
<1>1. SyncInv /\ [Next]_vars =>
        [requests.resync /\ ~requests'.resync =>
           /\ status'.state = "FREE_RUN" /\ ~status'.usable
           /\ \A c \in Candidates : CandidateBound(status', c) = BoundNone]_vars
  BY NextStartsOver
<1> QED
  BY <1>1, SyncInvariant, PTL DEF Spec, ResyncStartsOver

\* What is in use and could be used on is left only for a source that has been ahead of
\* it by the ratio for SwitchEpochs epochs running, on whichever path of the state
\* machine; and a locked clock is never put into free run while holdover is a candidate
\* (challenge, enter, follow_sources): for any sources, bounds and preferences.
THEOREM LeftForCause == Spec => LeavesForCause
  BY SyncInvariant, NextLeaves, PTL DEF Spec, LeavesForCause

\* A label that jumps is never shown while its source is trusted: with more than one
\* epoch asked of a source before it qualifies, the label shown for a good source follows
\* on from its last, or, in an epoch whose own edge was missed, is the second before it
\* (sync_source_judge, label_epoch, keep_time).
THEOREM LabelsFollow ==
  ASSUME QualifyEpochs > 1
  PROVE  Spec => ShownLabelFollows
<1>1. SyncInv /\ [Next]_vars =>
        [/\ status.time.known /\ status'.usable
         /\ SourceGood(status', status'.source)
         /\ status'.time.err # status.time.err
         => LET t == status.trk[status'.source]
            IN  \/ ~t.hasLabel \/ t.lastErr = status'.time.err
                \/ /\ t.lastErr - 1 = status'.time.err
                   /\ ~status'.phaseValid /\ status'.trk[status'.source].rep.past]_vars
  BY NextFollowsOn
<1> QED
  BY <1>1, SyncInvariant, PTL DEF Spec, ShownLabelFollows

\* What the reports show is one ranking of the candidates, and the runner-up
\* stands next to the one in use (sync_candidate_rank, rank_second): for any
\* number of sources, whatever their bounds.
THEOREM RankingIsOne == Spec => []RankingAgrees
<1>1. SyncInv => RankingAgrees
  BY RanksAgree DEF SyncInv, TypeOK, RankingAgrees
<1> QED
  BY <1>1, SyncInvariant, PTL

-----------------------------------------------------------------------------
\* What the stages of an epoch measure and hold

\* judge_sources() takes over a report's phase, marks as captured only an edge,
\* and gives the bound the report stands for to a source that may be used.
LEMMA JudgedMeasure ==
  ASSUME NEW st \in Status, NEW reports \in [Sources -> Report],
         NEW epochSeen \in BOOLEAN, NEW edgeTaken \in BOOLEAN, NEW s \in Sources
  PROVE  LET t == JudgeSources(st, reports, epochSeen, edgeTaken).trk[s]
         IN  /\ t.rep.captured => reports[s].edge
             /\ t.rep.phase = reports[s].phase
             /\ t.check \in {"GOOD", "INACCURATE"}
                => t.bound = Saturate(reports[s].unc * BoundScale[s] + BoundFloor[s])
<1> DEFINE taken == reports[s].edge /\ s = st.route /\ edgeTaken
           rep   == [reports[s] EXCEPT !.captured = taken]
           limit == IF s = st.source THEN HoldLimit[s] ELSE QualifyLimit[s]
           j     == Judge(st.trk[s], rep, limit, BoundScale[s], BoundFloor[s], epochSeen)
<1>1. JudgeSources(st, reports, epochSeen, edgeTaken).trk[s] = j
  BY DEF JudgeSources, Status
<1>2. rep.captured = taken /\ rep.phase = reports[s].phase /\ rep.unc = reports[s].unc
  BY DEF Report
<1> HIDE DEF rep, limit
<1>3. /\ j.rep = rep
      /\ j.check \in {"GOOD", "INACCURATE"}
         => j.bound = Saturate(rep.unc * BoundScale[s] + BoundFloor[s])
  BY DEF Judge
<1> HIDE DEF j
<1> QED
  BY <1>1, <1>2, <1>3

\* What a report of the source routed tells of an epoch e: its phase and bound.
Tells(e, r, rep) ==
  /\ e.source = r /\ rep.edge /\ e.phase = rep.phase
  /\ e.trk[r].bound = Saturate(rep.unc * BoundScale[r] + BoundFloor[r])

\* Holdover as an epoch e leaves it: restarted by what was measured while locked,
\* or a second older.
Holds(st, e) ==
  /\ Restarted(e)
     => e.hold = [ready |-> TRUE, source |-> e.source, age |-> 0,
                  base |-> Saturate(e.trk[e.source].bound + Magnitude(e.phase)),
                  freq |-> HoldoverFreq[e.source]]
  /\ ~Restarted(e)
     => e.hold = IF st.hold.ready /\ st.hold.age < MaxAge
                 THEN [st.hold EXCEPT !.age = @ + 1] ELSE st.hold

\* An epoch that measures, or that is locked and gives a bound, does so by the
\* edge routed before it, whatever was selected, lost or switched to.
LEMMA EpochMeasures ==
  ASSUME NEW st \in Status, Kept(st), NEW reports \in [Sources -> Report],
         NEW epochSeen \in BOOLEAN, NEW edgeTaken \in BOOLEAN, NEW refused \in BOOLEAN
  PROVE  LET e == SyncUpdate(st, NoRequests, reports, epochSeen, edgeTaken, refused)
         IN  /\ Kept(e) /\ Holds(st, e)
             /\ e.kind = "MEASURED" \/ (e.state = "LOCKED" /\ e.phaseValid)
                => Tells(e, st.route, reports[st.route])
             /\ e.loop.state = "STEP" => e.kind = "MEASURED"
<1> DEFINE cleared  == [st EXCEPT !.history = <<>>]
           judged   == JudgeSources(cleared, reports, epochSeen, edgeTaken)
           promoted == PromoteFallback(judged)
           aligned  == AlignToTimeOfDay(promoted)
           followed == FollowSources(aligned)
           cap      == CaptureOf(st, judged, epochSeen, refused)
           steered  == RunLoop(followed, cap)
           held     == FollowHoldover(steered)
           kept     == KeepTime(held)
           captured == judged.trk[st.route].rep.captured
           end      == EndEpoch(kept, st, captured)
           r        == st.route
<1>1. NoRequests \in Requests /\ NoRequests.resync = FALSE /\ NoRequests.manual = FALSE
  BY DEF NoRequests, Requests
<1>2. SyncUpdate(st, NoRequests, reports, epochSeen, edgeTaken, refused) = end
  BY <1>1 DEF SyncUpdate, ApplyResync, ApplyManualTime
<1>3. Kept(end)
  <2> HIDE DEF end
  <2> QED
    BY <1>1, <1>2, SyncUpdateKept
<1>4. /\ cleared \in Status /\ Mid(cleared) /\ cleared.route = r
      /\ cleared.hold = st.hold
  <2>1. /\ cleared \in Status /\ cleared.hold = st.hold /\ cleared.state = st.state
        /\ cleared.source = st.source /\ cleared.route = st.route
        /\ cleared.steered = st.steered /\ cleared.run = st.run /\ cleared.loop = st.loop
    <3>1. <<>> \in Seq(Transition)
      OBVIOUS
    <3> QED
      BY <3>1 DEF Status
  <2> HIDE DEF cleared
  <2>2. Coherent(cleared)
    BY <2>1 DEF Kept, Coherent, IsTracking
  <2>3. cleared.loop.freeStep = TRUE => cleared.loop.state = "ACQUIRE"
    BY <2>1 DEF Kept, Processed
  <2> QED
    BY <2>1, <2>2, <2>3 DEF Mid
<1> HIDE DEF cleared
<1>5. /\ Mid(judged) /\ judged \in Status /\ Routed(judged) /\ RunsJudged(judged)
      /\ judged.route = r /\ judged.hold = st.hold
  <2>1. Mid(judged) /\ Routed(judged) /\ RunsJudged(judged) /\ judged.route = r
    BY <1>4, JudgeSourcesMid
  <2>2. judged.hold = st.hold
    BY <1>4, JudgedCarries
  <2> HIDE DEF judged
  <2> QED
    BY <2>1, <2>2 DEF Mid
<1>6. r \in Sources
  BY SourceAssumption DEF Status
<1>7. /\ judged.trk[r].rep.captured => reports[r].edge
      /\ judged.trk[r].rep.phase = reports[r].phase
      /\ judged.trk[r].check \in {"GOOD", "INACCURATE"}
         => judged.trk[r].bound = Saturate(reports[r].unc * BoundScale[r] + BoundFloor[r])
  BY <1>4, <1>6, JudgedMeasure
<1> HIDE DEF judged
<1>8. Mid(promoted) /\ SameSources(judged, promoted)
  BY <1>5, PromoteFallbackMid
<1> HIDE DEF promoted
<1>9. Mid(aligned) /\ SameSources(promoted, aligned)
  BY <1>8, AlignMid DEF Mid
<1> HIDE DEF aligned
<1>10. /\ aligned \in Status /\ Mid(aligned) /\ Routed(aligned) /\ RunsJudged(aligned)
       /\ aligned.route = r /\ aligned.hold = st.hold /\ aligned.trk = judged.trk
  BY <1>5, <1>8, <1>9 DEF SameSources, Routed, RunsJudged, Mid
<1>11. /\ followed \in Status /\ Followed(followed) /\ Chosen(aligned, followed)
  BY <1>10, FollowSourcesFollowed, FollowSourcesChosen DEF Followed, Mid
<1> HIDE DEF followed
<1>12. followed.hold = st.hold /\ followed.trk = judged.trk
  BY <1>10, <1>11 DEF Chosen, Onward
<1>13. /\ cap \in Capture
       /\ cap.phaseValid => judged.trk[r].rep.captured /\ cap.phase = judged.trk[r].rep.phase
  <2>1. cap \in Capture
    BY <1>5, CaptureType
  <2> QED
    BY <2>1 DEF CaptureOf
<1> HIDE DEF cap
<1>14. /\ Steered(steered) /\ steered \in Status /\ steered.trk = judged.trk
       /\ steered.hold = st.hold /\ steered.source = followed.source
       /\ steered.phaseValid = cap.phaseValid /\ steered.phase = cap.phase
       /\ steered.kind = "MEASURED"
          => /\ cap.phaseValid /\ SourceUsable(followed, followed.source)
             /\ followed.trk[followed.source].rep.captured
       /\ steered.loop.state = "STEP" => steered.kind = "MEASURED"
       /\ steered.state = "LOCKED" /\ followed.state # "LOCKED" => steered.kind = "MEASURED"
  <2>1. Steered(steered) /\ steered.trk = judged.trk
    BY <1>11, <1>12, <1>13, RunLoopSteered, RunLoopOnward DEF Onward
  <2>2. /\ steered.hold = followed.hold /\ steered.source = followed.source
        /\ steered.phaseValid = cap.phaseValid /\ steered.phase = cap.phase
        /\ steered.kind = "MEASURED"
           => /\ cap.phaseValid /\ SourceUsable(followed, followed.source)
              /\ followed.trk[followed.source].rep.captured
        /\ steered.loop.state = "STEP" => steered.kind = "MEASURED"
        /\ steered.state = "LOCKED" /\ followed.state # "LOCKED"
           => steered.kind = "MEASURED"
    BY <1>11, <1>13, RunLoopMeasures
  <2> HIDE DEF steered
  <2> QED
    BY <1>12, <2>1, <2>2 DEF Steered
<1> HIDE DEF steered
<1>15. /\ held \in Status /\ Measures(steered, held)
  BY <1>14, FollowHoldoverCoherent, TailMeasures
<1>16. held.hold = IF Restarted(steered)
                   THEN [ready |-> TRUE, source |-> steered.source, age |-> 0,
                         base |-> Saturate(steered.trk[steered.source].bound
                                           + Magnitude(steered.phase)),
                         freq |-> HoldoverFreq[steered.source]]
                   ELSE IF st.hold.ready /\ st.hold.age < MaxAge
                   THEN [st.hold EXCEPT !.age = @ + 1] ELSE st.hold
  BY <1>14 DEF FollowHoldover, Restarted, Status
<1>17. Kept(held) /\ (held.usable => held.source \in Profiles)
  BY <1>14, FollowHoldoverCoherent DEF Kept
<1> HIDE DEF held
<1>18. kept \in Status /\ Measures(held, kept) /\ kept.hold = held.hold
  BY <1>15, <1>17, TailMeasures, KeepTimeKept DEF Kept
<1> HIDE DEF kept
<1>19. Measures(kept, end) /\ end.hold = kept.hold
  BY <1>18, TailMeasures
<1> HIDE DEF end, captured
<1>20. Measures(steered, end) /\ end.hold = held.hold
  BY <1>15, <1>18, <1>19 DEF Measures, SameRun
<1>21. Holds(st, end)
  <2>1. Restarted(end) <=> Restarted(steered)
    BY <1>20 DEF Measures, Restarted
  <2> QED
    BY <1>16, <1>20, <2>1 DEF Holds, Measures
<1>22. ASSUME end.kind = "MEASURED" \/ (end.state = "LOCKED" /\ end.phaseValid)
       PROVE  Tells(end, r, reports[r])
  <2>1. cap.phaseValid
    BY <1>14, <1>20, <1>22 DEF Measures
  <2>2. reports[r].edge /\ end.phase = reports[r].phase
    BY <1>7, <1>13, <1>14, <1>20, <2>1 DEF Measures
  <2>3. end.source = followed.source /\ end.trk = judged.trk
    BY <1>14, <1>20 DEF Measures
  <2>4. CASE end.kind = "MEASURED"
    <3>1. SourceUsable(followed, followed.source) /\ followed.trk[followed.source].rep.captured
      BY <1>14, <1>20, <2>4 DEF Measures
    <3>2. followed.source \in Sources
      BY <3>1 DEF SourceUsable, SourceGood
    <3>3. followed.source = r
      BY <1>5, <1>12, <3>1, <3>2 DEF Routed
    <3>4. judged.trk[r].check \in {"GOOD", "INACCURATE"}
      BY <1>12, <3>1, <3>3 DEF SourceUsable, SourceGood
    <3> QED
      BY <1>7, <2>2, <2>3, <3>3, <3>4 DEF Tells
  <2>5. CASE end.kind # "MEASURED" /\ end.state = "LOCKED"
    <3>1. followed.state = "LOCKED"
      BY <1>14, <1>20, <2>5 DEF Measures
    <3>2. followed.source = r
      BY <1>10, <1>11, <3>1 DEF Chosen, Followed, Mid, Coherent, IsTracking
    <3>3. SourceUsable(end, end.source)
      BY <1>3, <2>5 DEF Kept, Processed, IsTracking
    <3>4. judged.trk[r].check \in {"GOOD", "INACCURATE"}
      BY <2>3, <3>2, <3>3 DEF SourceUsable, SourceGood
    <3> QED
      BY <1>7, <2>2, <2>3, <3>2, <3>4 DEF Tells
  <2> QED
    BY <1>22, <2>4, <2>5
<1>23. end.loop.state = "STEP" => end.kind = "MEASURED"
  BY <1>14, <1>20 DEF Measures
<1> HIDE DEF r
<1> QED
  BY <1>2, <1>3, <1>21, <1>22, <1>23 DEF r

-----------------------------------------------------------------------------
\* The arithmetic of the bounds

\* How far out the epoch may be once held for t seconds, before it is saturated.
Reach(h, t) == h.base + h.freq * t + (DriftPpt * t * t) \div 2000

\* Each second held adds to it at least what the held frequency may be wrong by.
LEMMA ReachGrows ==
  ASSUME NEW h \in Holdover, NEW t \in Nat
  PROVE  /\ Reach(h, t) \in Nat /\ h.base <= Reach(h, t)
         /\ Reach(h, t) + h.freq <= Reach(h, t + 1)
<1> DEFINE x == DriftPpt * t * t
           y == DriftPpt * (t + 1) * (t + 1)
           f == h.freq * t
           g == h.freq * (t + 1)
<1>1. h.base \in Nat /\ h.freq \in Nat /\ DriftPpt \in Nat
  BY LimitAssumption, BoundAssumption DEF Holdover
<1>2. f \in Nat /\ g = f + h.freq
  BY <1>1
<1>3. x \in Nat /\ y \in Nat
  BY <1>1
<1>4. x <= y
  <2>1. y = x + DriftPpt * t + DriftPpt * t + DriftPpt
    BY <1>1
  <2>2. DriftPpt * t \in Nat
    BY <1>1
  <2> QED
    BY <1>1, <1>3, <2>1, <2>2
<1> HIDE DEF x, y, f, g
<1>5. x \div 2000 \in Nat /\ y \div 2000 \in Nat /\ x \div 2000 <= y \div 2000
  BY <1>3, <1>4
<1>6. Reach(h, t) = h.base + f + x \div 2000 /\ Reach(h, t + 1) = h.base + g + y \div 2000
  BY DEF Reach, f, g, x, y
<1> QED
  BY <1>1, <1>2, <1>5, <1>6

\* By the greatest age no error is out of reach.
LEMMA ReachEnds ==
  ASSUME NEW h \in Holdover, NEW p \in Profiles, h.freq = HoldoverFreq[p]
  PROVE  MaxErr <= Reach(h, MaxAge)
<1> DEFINE d == HoldoverFreq[p] * MaxAge + (DriftPpt * MaxAge * MaxAge) \div 2000
<1>1. MaxErr <= d /\ MaxErr \in Nat
  BY BoundedError, BoundAssumption
<1>2. d \in Int /\ h.base \in Nat
  BY LimitAssumption, BoundAssumption DEF Holdover
<1>3. Reach(h, MaxAge) = h.base + d
  BY LimitAssumption, BoundAssumption DEF Reach, Holdover
<1> HIDE DEF d
<1> QED
  BY <1>1, <1>2, <1>3

\* What a phase tells of an error e, measured against a second that is out by k at
\* most: the error is within the bound and the phase, and what it aims at within
\* the bound, unless that is saturated.
LEMMA PhaseTells ==
  ASSUME NEW e \in Errors, NEW k \in Nat, NEW w \in {-1, 1}, NEW phase,
         phase = e - w * k
  PROVE  /\ phase \in Int /\ Saturate(k) \in 0 .. BoundNone - 1
         /\ Magnitude(e) <= Saturate(Saturate(k) + Magnitude(phase))
         /\ \/ Magnitude(e - phase) <= Saturate(k)
            \/ Saturate(k) = BoundNone - 1
<1>1. /\ MaxErr \in Int /\ MaxErr <= BoundNone - 1 /\ BoundNone \in Nat \ {0}
      /\ e \in Int /\ -MaxErr <= e /\ e <= MaxErr
  BY BoundedError, BoundAssumption DEF Errors
<1>2. CASE w = 1
  <2>1. phase = e - k
    BY <1>1, <1>2
  <2> QED
    BY <1>1, <2>1 DEF Saturate, Magnitude
<1>3. CASE w = -1
  <2>1. phase = e + k
    BY <1>1, <1>3
  <2> QED
    BY <1>1, <2>1 DEF Saturate, Magnitude
<1> QED
  BY <1>2, <1>3

\* Where the running interval can take the epoch when it is not a step: between
\* where it is and where the correction in force aimed, and the drift on.
LEMMA TargetReached ==
  ASSUME NEW st, st.loop.state # "STEP", NEW asked, NEW e \in Errors,
         NEW far \in Nat, Magnitude(e) <= far,
         \A a \in asked : a.at \in Int /\ (Magnitude(a.at) <= far \/ MaxErr <= far)
  PROVE  /\ Target(st, asked, e) \subseteq Errors
         /\ \A x \in Target(st, asked, e) : Magnitude(x) <= far + Drift
<1>1. MaxErr \in Int /\ Drift \in Nat /\ e \in Int
  BY BoundedError, BoundAssumption DEF Errors
<1>2. ASSUME NEW x \in {e} \cup UNION {Span(e, a.at) : a \in asked}
      PROVE  x \in Int /\ Magnitude(x) <= far
  <2>1. CASE x = e
    BY <1>1, <2>1
  <2>2. CASE \E a \in asked : x \in Span(e, a.at)
    <3>1. PICK a \in asked : x \in Span(e, a.at)
      BY <2>2
    <3>2. /\ x \in Int /\ -MaxErr <= x /\ x <= MaxErr
          /\ (e <= x /\ x <= a.at) \/ (a.at <= x /\ x <= e)
      BY <1>1, <3>1 DEF Span, Errors
    <3> QED
      BY <1>1, <3>2 DEF Magnitude
  <2> QED
    BY <2>1, <2>2
<1>3. ASSUME NEW x \in Int, Magnitude(x) <= far, NEW y \in Near(x)
      PROVE  y \in Errors /\ Magnitude(y) <= far + Drift
  <2>1. y \in Errors /\ y \in Int /\ Magnitude(y - x) <= Drift
    BY <1>1 DEF Near, Errors
  <2> QED
    BY <1>1, <1>3, <2>1 DEF Magnitude
<1>4. Target(st, asked, e) = UNION {Near(x) : x \in {e} \cup UNION {Span(e, a.at) : a \in asked}}
  BY DEF Target
<1> QED
  BY <1>2, <1>3, <1>4

-----------------------------------------------------------------------------
\* The inductive invariant

\* What is aimed at is as far out as the bound it was measured with, at most.
AimsKnown ==
  \A a \in aim : /\ a.at \in Int /\ a.bound \in 0 .. BoundNone - 1
                 /\ Magnitude(a.at) <= a.bound \/ a.bound = BoundNone - 1

\* Holdover allows for the frequency of the source it is of.
HoldsSource ==
  status.hold.ready => status.hold.freq = HoldoverFreq[status.hold.source]

\* Unless the epoch was moved by what it does not account for, holdover will
\* reach as far as the running interval can take the epoch.
HoldReaches ==
  status.hold.ready /\ ~moved =>
    \A x \in target : Magnitude(x) <= Reach(status.hold, status.hold.age + 1)

BoundInv ==
  /\ SyncInv /\ requests = NoRequests
  /\ err \in Errors /\ target \in SUBSET Errors /\ moved \in BOOLEAN
  /\ AimsKnown /\ HoldsSource /\ HoldReaches /\ LockedBoundHolds

\* At the start nothing is aimed at, and there is nothing to hold.
LEMMA BoundInitKept == BoundInit => BoundInv
<1> SUFFICES ASSUME BoundInit PROVE BoundInv
  OBVIOUS
<1>1. SyncInv /\ requests = NoRequests
  BY InitKept DEF BoundInit, Init
<1>2. status.hold.ready = FALSE /\ status.state = "FREE_RUN"
  BY DEF BoundInit, Init, NewStatus
<1>3. err \in Errors /\ target \in SUBSET Errors /\ moved \in BOOLEAN
  <2>1. -MaxErr \in Errors /\ MaxErr \in Errors
    BY BoundedError, BoundAssumption DEF Errors
  <2>2. err \in Errors
    BY <2>1 DEF BoundInit
  <2> QED
    BY <2>2 DEF BoundInit
<1>4. AimsKnown
  BY DEF BoundInit, AimsKnown
<1>5. HoldsSource /\ HoldReaches
  BY <1>2 DEF HoldsSource, HoldReaches
<1>6. LockedBoundHolds
  BY <1>2 DEF LockedBoundHolds
<1> QED
  BY <1>1, <1>3, <1>4, <1>5, <1>6 DEF BoundInv

\* The adapters measure our epoch against their own second.
LEMMA MeasuredReports ==
  ASSUME NEW reports \in [Sources -> Report], NEW e \in Int,
         NEW side \in [Sources -> {-1, 1}], NEW s \in Sources
  PROVE  LET m == Measured(reports, e, side)
             k == reports[s].unc * BoundScale[s] + BoundFloor[s]
         IN  /\ m \in [Sources -> Report] /\ k \in Nat
             /\ m[s].unc * BoundScale[s] + BoundFloor[s] = k
             /\ m[s].edge => m[s].phase = e - side[s] * k
<1> DEFINE k(n) == reports[n].unc * BoundScale[n] + BoundFloor[n]
           phase(n) == IF reports[n].edge THEN e - SourceErr(n, reports[n], side[n]) ELSE 0
<1>1. ASSUME NEW n \in Sources PROVE k(n) \in Nat /\ phase(n) \in Int
  <2>1. reports[n].unc \in Nat /\ BoundScale[n] \in Nat /\ BoundFloor[n] \in Nat
    BY LimitAssumption DEF Report
  <2>2. k(n) \in Nat
    BY <2>1
  <2>3. side[n] = 1 \/ side[n] = -1
    OBVIOUS
  <2>4. SourceErr(n, reports[n], side[n]) = side[n] * k(n)
    BY DEF SourceErr
  <2> HIDE DEF k
  <2>5. side[n] * k(n) \in Int
    BY <2>2, <2>3
  <2> QED
    BY <2>2, <2>4, <2>5
<1>2. SourceErr(s, reports[s], side[s]) = side[s] * k(s)
  BY DEF SourceErr
<1>3. Measured(reports, e, side) = [n \in Sources |-> [reports[n] EXCEPT !.phase = phase(n)]]
  BY DEF Measured
<1>4. ASSUME NEW n \in Sources
      PROVE  /\ [reports[n] EXCEPT !.phase = phase(n)] \in Report
             /\ [reports[n] EXCEPT !.phase = phase(n)].unc = reports[n].unc
             /\ [reports[n] EXCEPT !.phase = phase(n)].edge = reports[n].edge
             /\ [reports[n] EXCEPT !.phase = phase(n)].phase = phase(n)
  <2>1. phase(n) \in Int
    BY <1>1
  <2> HIDE DEF phase
  <2> QED
    BY <2>1 DEF Report
<1>5. k(s) \in Nat
  BY <1>1
<1> QED
  BY <1>2, <1>3, <1>4, <1>5

\* What an epoch of BoundSpec does to the bound, and to what it is based on.
LEMMA BoundEpochKept == BoundInv /\ BoundEpoch => BoundInv'
<1> SUFFICES ASSUME BoundInv, BoundEpoch PROVE BoundInv'
  OBVIOUS
<1>1. PICK e \in target, reports \in Reports, taken \in BOOLEAN,
           side \in [Sources -> {-1, 1}], refused \in BOOLEAN :
        /\ status' = SyncUpdate(status, requests, Measured(reports, e, side),
                                taken, taken, refused)
        /\ err' = e
        /\ target' = Target(status, aim, e)
        /\ aim' = Aim(status, status', e)
        /\ moved' = /\ status'.hold.ready
                    /\ \/ moved /\ ~Restarted(status')
                       \/ status.loop.state = "STEP"
                       \/ \E a \in aim : a.bound > status'.hold.base
        /\ requests' = NoRequests
        /\ leads' = Led(status, status', leads)
  BY RefusalType DEF BoundEpoch
<1> DEFINE r == status.route
           m == Measured(reports, e, side)
           k == reports[r].unc * BoundScale[r] + BoundFloor[r]
<1>2. /\ Kept(status) /\ status \in Status /\ requests = NoRequests
      /\ e \in Errors /\ e \in Int /\ target \in SUBSET Errors
  <2>1. /\ Kept(status) /\ status \in Status /\ requests = NoRequests
        /\ e \in Errors /\ target \in SUBSET Errors
    BY DEF BoundInv, SyncInv, TypeOK, Kept
  <2>2. e \in Int
    BY <2>1, BoundedError, BoundAssumption DEF Errors
  <2> QED
    BY <2>1, <2>2
<1>3. r \in Sources /\ reports \in [Sources -> Report]
  BY <1>2, SourceAssumption, InputAssumption DEF Status
<1> HIDE DEF r
<1>4. /\ m \in [Sources -> Report] /\ k \in Nat
      /\ m[r].unc * BoundScale[r] + BoundFloor[r] = k
      /\ m[r].edge => m[r].phase = e - side[r] * k
  BY <1>2, <1>3, MeasuredReports
<1> HIDE DEF m
<1>5. /\ Kept(status') /\ Holds(status, status')
      /\ status'.kind = "MEASURED" \/ (status'.state = "LOCKED" /\ status'.phaseValid)
         => Tells(status', r, m[r])
      /\ status'.loop.state = "STEP" => status'.kind = "MEASURED"
  BY <1>1, <1>2, <1>4, EpochMeasures DEF m, r
<1>6. status' \in Status /\ status'.source \in SourceOrNone
  BY <1>5 DEF Kept, Status
<1> DEFINE phase == status'.phase
           bound == status'.trk[status'.source].bound
<1>7. ASSUME status'.kind = "MEASURED" \/ (status'.state = "LOCKED" /\ status'.phaseValid)
      PROVE  /\ phase \in Int /\ bound \in 0 .. BoundNone - 1
             /\ Magnitude(e) <= Saturate(bound + Magnitude(phase))
             /\ Magnitude(e - phase) <= bound \/ bound = BoundNone - 1
  <2>1. /\ status'.source = r /\ phase = e - side[r] * k /\ bound = Saturate(k)
    BY <1>4, <1>5, <1>7 DEF Tells
  <2>2. side[r] \in {-1, 1}
    BY <1>3
  <2> HIDE DEF phase, bound, k, r
  <2> QED
    BY <1>2, <1>4, <2>1, <2>2, PhaseTells
<1> HIDE DEF k, phase, bound
<1>8. SyncInv' /\ requests' = NoRequests
  <2>1. SyncInv /\ requests' \in Requests
    BY <1>1 DEF BoundInv, NoRequests, Requests
  <2>2. status' = SyncUpdate(status, requests, m, taken, taken, refused)
    BY <1>1 DEF m
  <2> QED
    BY <1>1, <1>4, <2>1, <2>2, EpochKept
<1>9. AimsKnown'
  <2>1. ASSUME NEW a \in aim'
        PROVE  /\ a.at \in Int /\ a.bound \in 0 .. BoundNone - 1
               /\ Magnitude(a.at) <= a.bound \/ a.bound = BoundNone - 1
    <3>1. /\ status'.kind = "MEASURED"
          /\ a = [at |-> e - phase, bound |-> bound]
      BY <1>1, <1>5 DEF Aim, phase, bound
    <3>2. a.at = e - phase /\ a.bound = bound
      BY <3>1
    <3> QED
      BY <1>2, <1>7, <3>1, <3>2
  <2> QED
    BY <2>1 DEF AimsKnown
<1> DEFINE h == status.hold
           g == status'.hold
<1>10. /\ h \in Holdover /\ g \in Holdover /\ h.age \in Nat /\ g.age \in Nat
       /\ h.ready => h.source \in Profiles
       /\ g.ready => g.source \in Profiles
  <2>1. h \in Holdover /\ g \in Holdover
    BY <1>2, <1>5 DEF Kept, Status
  <2>2. /\ h.ready => h.source \in Profiles
        /\ g.ready => g.source \in Profiles
    BY <1>2, <1>5 DEF Kept, Coherent
  <2>3. h.age \in Nat /\ g.age \in Nat
    BY <2>1, LimitAssumption DEF Holdover
  <2> QED
    BY <2>1, <2>2, <2>3
<1>11. HoldsSource'
  <2>1. CASE Restarted(status')
    BY <1>5, <2>1 DEF Holds, HoldsSource
  <2>2. CASE ~Restarted(status')
    <3>1. g.ready = h.ready /\ g.source = h.source /\ g.freq = h.freq
      BY <1>5, <1>10, <2>2 DEF Holds, Holdover
    <3> QED
      BY <3>1 DEF BoundInv, HoldsSource
  <2> QED
    BY <2>1, <2>2
<1>12. /\ target' \in SUBSET Errors /\ moved' \in BOOLEAN
  BY <1>1 DEF Target, Near
<1>13. ASSUME g.ready, ~moved'
       PROVE  Magnitude(e) <= Reach(g, g.age)
  <2>1. CASE Restarted(status')
    <3>1. g.base = Saturate(bound + Magnitude(phase))
      BY <1>5, <2>1 DEF Holds, bound, phase
    <3>2. Magnitude(e) <= g.base
      BY <1>7, <2>1, <3>1 DEF Restarted
    <3>3. g.base <= Reach(g, g.age) /\ Reach(g, g.age) \in Nat /\ g.base \in Int
      BY <1>10, ReachGrows DEF Holdover
    <3>4. Magnitude(e) \in Int
      BY <1>2 DEF Magnitude
    <3> QED
      BY <3>2, <3>3, <3>4
  <2>2. CASE ~Restarted(status')
    <3>1. h.ready = TRUE /\ moved = FALSE
      BY <1>1, <1>5, <1>10, <1>13, <2>2 DEF Holds, Holdover, BoundInv
    <3>2. Magnitude(e) <= Reach(h, h.age + 1)
      BY <3>1 DEF BoundInv, HoldReaches
    <3>3. CASE h.age < MaxAge
      <4>1. /\ g.age = h.age + 1 /\ g.base = h.base /\ g.freq = h.freq
        BY <1>5, <1>10, <2>2, <3>1, <3>3 DEF Holds, Holdover
      <4> QED
        BY <3>2, <4>1 DEF Reach
    <3>4. CASE ~(h.age < MaxAge)
      <4>1. g = h
        BY <1>5, <2>2, <3>4 DEF Holds
      <4>2. h.age = MaxAge
        BY <1>10, <3>4, LimitAssumption DEF Holdover
      <4>3. h.freq = HoldoverFreq[h.source]
        BY <3>1 DEF BoundInv, HoldsSource
      <4>4. MaxErr <= Reach(h, MaxAge) /\ Reach(h, MaxAge) \in Nat
        BY <1>10, <3>1, <4>2, <4>3, ReachEnds, ReachGrows
      <4>5. Magnitude(e) <= MaxErr /\ MaxErr \in Int /\ Magnitude(e) \in Int
        BY <1>2, BoundedError, BoundAssumption DEF Errors, Magnitude
      <4> QED
        BY <4>1, <4>2, <4>4, <4>5
    <3> QED
      BY <3>3, <3>4
  <2> QED
    BY <2>1, <2>2
<1>14. HoldReaches'
  <2> SUFFICES ASSUME g.ready, ~moved', NEW x \in target'
               PROVE  Magnitude(x) <= Reach(g, g.age + 1)
    BY DEF HoldReaches
  <2> DEFINE far == Reach(g, g.age)
  <2>1. /\ far \in Nat /\ g.base <= far /\ far + g.freq <= Reach(g, g.age + 1)
        /\ Reach(g, g.age + 1) \in Nat /\ g.freq \in Nat /\ g.base \in Nat
    <3>1. g.age + 1 \in Nat /\ g.freq \in Nat /\ g.base \in Nat
      BY <1>10, BoundAssumption DEF Holdover
    <3> QED
      BY <1>10, <3>1, ReachGrows
  <2>2. Drift <= g.freq /\ Drift \in Nat /\ MaxErr <= BoundNone - 1
        /\ MaxErr \in Nat /\ BoundNone \in Nat
    BY <1>10, <1>11, BoundedError, BoundAssumption DEF HoldsSource
  <2>3. Magnitude(e) <= far
    BY <1>13
  <2>4. /\ status.loop.state # "STEP"
        /\ \A a \in aim : ~(a.bound > g.base)
    BY <1>1
  <2> HIDE DEF far
  <2>5. ASSUME NEW a \in aim
        PROVE  a.at \in Int /\ (Magnitude(a.at) <= far \/ MaxErr <= far)
    <3>1. /\ a.at \in Int /\ a.bound \in Int
          /\ Magnitude(a.at) <= a.bound \/ a.bound = BoundNone - 1
      BY BoundAssumption DEF BoundInv, AimsKnown
    <3>2. a.bound <= far
      BY <2>1, <2>4, <3>1
    <3>3. Magnitude(a.at) \in Int
      BY <3>1 DEF Magnitude
    <3> QED
      BY <2>1, <2>2, <3>1, <3>2, <3>3
  <2>6. x \in Errors /\ Magnitude(x) <= far + Drift
    BY <1>1, <1>2, <2>1, <2>3, <2>4, <2>5, TargetReached
  <2>7. Magnitude(x) \in Int
    BY <2>2, <2>6 DEF Errors, Magnitude
  <2> QED
    BY <2>1, <2>2, <2>6, <2>7 DEF far
<1>15. LockedBoundHolds'
  <2>1. ASSUME status'.state = "LOCKED", Uncertainty(status') < BoundNone
        PROVE  Magnitude(e) <= Uncertainty(status')
    <3>1. /\ status'.phaseValid
          /\ Uncertainty(status') = Saturate(bound + Magnitude(phase))
      BY <2>1, BoundAssumption DEF Uncertainty, bound, phase
    <3> QED
      BY <1>7, <2>1, <3>1
  <2>2. ASSUME status'.state = "HOLDOVER", ~moved', Uncertainty(status') < BoundNone
        PROVE  Magnitude(e) <= Uncertainty(status')
    <3>1. g.ready = TRUE
      BY <1>5, <1>10, <2>2 DEF Kept, Coherent, Holdover
    <3>2. Uncertainty(status') = Saturate(Reach(g, g.age))
      BY <2>2, <3>1, BoundAssumption DEF Uncertainty, HoldoverBound, Reach
    <3>3. Magnitude(e) <= Reach(g, g.age) /\ Reach(g, g.age) \in Nat
      BY <1>10, <1>13, <2>2, <3>1, ReachGrows
    <3>4. Magnitude(e) <= BoundNone - 1 /\ Magnitude(e) \in Int /\ BoundNone \in Nat
      BY <1>2, BoundedError, BoundAssumption DEF Errors, Magnitude
    <3> QED
      BY <3>2, <3>3, <3>4 DEF Saturate
  <2>3. /\ status'.state = "LOCKED" => Within'
        /\ status'.state = "HOLDOVER" /\ ~moved' => Within'
    BY <1>1, <2>1, <2>2 DEF Within
  <2> QED
    BY <2>3 DEF LockedBoundHolds
<1> QED
  BY <1>1, <1>2, <1>8, <1>9, <1>11, <1>12, <1>14, <1>15 DEF BoundInv

LEMMA BoundNextKept == BoundInv /\ [BoundNext]_boundVars => BoundInv'
<1> SUFFICES ASSUME BoundInv, UNCHANGED boundVars PROVE BoundInv'
  BY BoundEpochKept DEF BoundNext
<1>1. UNCHANGED <<status, requests, leads, err, target, aim, moved>>
  BY DEF boundVars
<1>2. SyncInv'
  BY <1>1 DEF BoundInv, SyncInv, TypeOK, ChallengeLed
<1>3. AimsKnown' /\ HoldsSource' /\ HoldReaches'
  BY <1>1 DEF BoundInv, AimsKnown, HoldsSource, HoldReaches
<1>4. LockedBoundHolds'
  BY <1>1 DEF BoundInv, LockedBoundHolds, Within
<1> QED
  BY <1>1, <1>2, <1>3, <1>4 DEF BoundInv

\* sync_uncertainty() bounds the error of our epoch in every epoch that is locked,
\* and in holdover unless the epoch was moved by what holdover does not account
\* for: for all sources, limits, errors and histories (sync.c).
THEOREM LockedBound == BoundSpec => []LockedBoundHolds
<1>1. BoundInit => BoundInv
  BY BoundInitKept
<1>2. BoundInv /\ [BoundNext]_boundVars => BoundInv'
  BY BoundNextKept
<1>3. BoundInv => LockedBoundHolds
  BY DEF BoundInv
<1> QED
  BY <1>1, <1>2, <1>3, PTL DEF BoundSpec
=============================================================================
