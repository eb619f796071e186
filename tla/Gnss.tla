-------------------------------- MODULE Gnss --------------------------------
(***************************************************************************)
(* The GNSS receiver as the PIC sees it: the messages that describe a      *)
(* second are assembled into one epoch (gnss/gnss_epoch.c), the epoch      *)
(* labels the latest PPS edge, and the label is counted on, edge by edge,  *)
(* to the one a report is made of (gnss/gnss.c, sync/source_gnss.c).  The  *)
(* link is restarted when the receiver falls silent, and the receiver      *)
(* identified again (gnss/gnss_detect.c).                                  *)
(*                                                                         *)
(* Time is in ticks; edges, messages and times of week carry the number of *)
(* their second.  Counting over a leap second is Utc's.  Positions, time   *)
(* marks, accuracies and statistics are left out.                          *)
(***************************************************************************)
EXTENDS Integers, Sequences, SequencesExt

CONSTANTS GnssSecond,    \* ticks of a second
          PpsWindow,     \* GNSS_PPS_ASSOCIATION_WINDOW_MS
          EpochMaxAge,   \* GNSS_EPOCH_MAX_AGE_MS
          EpochFail,     \* GNSS_EPOCH_FAIL_S
          MeasuredAt,    \* the slot of the measurement, in ticks from the edge
          Recovery,      \* GNSS_LINK_RECOVERY_MS
          DetectTimeout, \* GNSS_DETECT_TIMEOUT_MS
          DetectAttempts,
          LastEdge,      \* bounds: on the seconds,
          Losable,       \* the kinds of messages lost,
          MaxLost,       \* how many of them,
          MaxMissing     \* and the pulses the receiver leaves out

ASSUME GnssAssumption ==
  /\ {GnssSecond, PpsWindow, EpochMaxAge, EpochFail, MeasuredAt} \subseteq Nat
  /\ {Recovery, DetectTimeout, DetectAttempts, LastEdge, MaxLost, MaxMissing} \subseteq Nat
  /\ MeasuredAt < GnssSecond

VARIABLES gps,        \* the receiver: the time, what it knows, what it has sent
          lost,       \* what the line has lost and which pulses were missing
          edgeSeen,   \* the latest PPS edge: GnssPpsReference
          assembler,  \* GnssEpochAssembler
          timePulse,  \* GnssTimePulse
          talk        \* the link: silence, recoveries and detection

gnssVars == <<gps, lost, edgeSeen, assembler, timePulse, talk>>

Ticks == (gps.second * GnssSecond) + gps.phase

\* The messages of a second, in the order they are sent.  A receiver with no fix
\* says so in NAV-STATUS, one that does not know UTC in NAV-TIMEUTC: only what is
\* sure is true, and the other of the two may look well.
SentKinds == <<"TIM-TP", "STATUS", "TIMEUTC", "CLOCK", "EOE">>
Sureness  == {"SURE", "NOFIX", "NOTUTC"}
MessageOf(kind, second, knows) ==
  [kind |-> kind, second |-> second,
   ok  |-> IF kind = "STATUS" THEN knows # "NOFIX" ELSE knows # "NOTUTC",
   utc |-> IF knows = "SURE" THEN second ELSE second + 1]

NoParts == [second |-> -1, parts |-> {}, clock |-> FALSE, fixOk |-> FALSE, utcOk |-> FALSE, utc |-> 0]
NoneYet == [second |-> -1, clock |-> FALSE, ended |-> FALSE, valid |-> FALSE,
            associated |-> FALSE, sequence |-> 0, utc |-> 0, completed |-> 0]

-----------------------------------------------------------------------------
\* The assembler, on a message m with the edge seen when it is handled

Recent == edgeSeen.sequence > 0 /\ Ticks - edgeSeen.at < PpsWindow

\* publish(), with derive_time() and associate_pps()
Publish(a, b) ==
  LET associated == Recent /\ a.labelled # edgeSeen.sequence
  IN  [building  |-> NoParts,
       labelled  |-> IF associated THEN edgeSeen.sequence ELSE a.labelled,
       published |-> [second |-> b.second, clock |-> b.clock, ended |-> FALSE,
                      valid |-> b.fixOk /\ b.utcOk, associated |-> associated,
                      sequence |-> edgeSeen.sequence, utc |-> b.utc, completed |-> Ticks]]

BuildingAny(a, second) ==   \* mutant: what is under construction is of any second
  IF a.building.second >= 0 THEN [a.building EXCEPT !.second = second]
  ELSE [NoParts EXCEPT !.second = second]

\* building_epoch()
Building(a, second) ==
  IF a.building.second = second THEN a.building ELSE [NoParts EXCEPT !.second = second]

\* gnss_epoch_add_status(), gnss_epoch_add_time_utc(), add_required_part()
AddPart(a, m) ==
  LET b    == Building(a, m.second)
      with == IF m.kind = "STATUS" THEN [b EXCEPT !.parts = @ \union {m.kind}, !.fixOk = m.ok]
              ELSE [b EXCEPT !.parts = @ \union {m.kind}, !.utcOk = m.ok, !.utc = m.utc]
  IN  IF a.published.second = m.second THEN a
      ELSE IF with.parts = {"STATUS", "TIMEUTC"} THEN Publish(a, with)
      ELSE [a EXCEPT !.building = with]

\* gnss_epoch_add_clock(); a position is added the same way
AddClock(a, m) ==
  IF a.published.second = m.second THEN [a EXCEPT !.published.clock = TRUE]
  ELSE [a EXCEPT !.building = [Building(a, m.second) EXCEPT !.clock = TRUE]]

\* gnss_epoch_end()
EndOfEpoch(a, m) ==
  IF a.published.second = m.second THEN [a EXCEPT !.published.ended = TRUE]
  ELSE IF a.building.second = m.second THEN [a EXCEPT !.building = NoParts]
  ELSE a

\* handle_navigation()
Assembled(a, m) ==
  CASE m.kind \in {"STATUS", "TIMEUTC"} -> AddPart(a, m)
    [] m.kind = "CLOCK"                 -> AddClock(a, m)
    [] m.kind = "EOE"                   -> EndOfEpoch(a, m)
    [] OTHER                            -> a

\* handle_time_pulse(): the message is of the edge after the latest.
PulseTold(m) == [sequence |-> edgeSeen.sequence + 1, associated |-> Recent, second |-> m.second + 1]

-----------------------------------------------------------------------------
\* gnss_fresh_epoch(), gnss_utc_at_pps(), gnss_time_pulse()

FreshEpoch == assembler.published.second >= 0 /\ Ticks - assembler.published.completed < EpochMaxAge

EdgesSince == edgeSeen.sequence - assembler.published.sequence

HasLabel ==
  /\ FreshEpoch /\ assembler.published.valid /\ assembler.published.associated
  /\ EdgesSince < EpochFail

LabelOfEdge == assembler.published.utc + EdgesSince

PulseErrorKnown == timePulse.associated /\ timePulse.sequence = edgeSeen.sequence

-----------------------------------------------------------------------------
\* The link: gnss_detect_start(), gnss_detect_service(), recover_silent_link()

Polling(t) == [t EXCEPT !.detection = "PENDING", !.attempts = 1, !.sincePoll = 0]

Detecting(t) ==
  IF t.detection # "PENDING" \/ t.sincePoll < DetectTimeout THEN t
  ELSE IF t.attempts < DetectAttempts THEN [t EXCEPT !.attempts = @ + 1, !.sincePoll = 0]
  ELSE [t EXCEPT !.detection = "FAILED"]

Silent(t) ==
  /\ t.frameSeen /\ t.silence >= Recovery
  /\ t.recovered => t.sinceRecovery >= Recovery

Recovered(t) ==
  IF Silent(t) THEN Polling([t EXCEPT !.recovered = TRUE, !.sinceRecovery = 0]) ELSE t

\* handle_message(): any frame, and what it means for the detection.
Heard(t, ms) ==
  IF ms = <<>> THEN t ELSE [t EXCEPT !.frameSeen = TRUE, !.silence = 0]

\* gnss_service() takes what has come so far; a poll is answered at once, or not
\* at all.  A restart of the UART loses what is still on its way.
GnssService ==
  \E n \in {0, 1, Len(gps.sent)} \intersect 0 .. Len(gps.sent), answered \in BOOLEAN :
    LET taken == SubSeq(gps.sent, 1, n)
        heard == Heard(talk, taken)
        named == IF answered THEN Heard([heard EXCEPT !.detection = "CONFIRMED"], <<"MON-VER">>)
                 ELSE heard
    IN  /\ answered => talk.detection = "PENDING" /\ gps.talks
        /\ n > 0 \/ answered \/ Recovered(Detecting(talk)) # talk
        /\ assembler' = FoldLeft(Assembled, assembler, taken)
        /\ timePulse' = FoldLeft(LAMBDA p, m : IF m.kind = "TIM-TP" THEN PulseTold(m) ELSE p,
                                 timePulse, taken)
        /\ talk' = Recovered(Detecting(named))
        /\ IF Silent(named)
           THEN /\ gps' = [gps EXCEPT !.sent = <<>>]
                /\ lost' = [lost EXCEPT !.messages = @ \union
                              {<<gps.second, gps.sent[i].kind>> : i \in n + 1 .. Len(gps.sent)}]
           ELSE /\ gps' = [gps EXCEPT !.sent = SubSeq(@, n + 1, Len(@))]
                /\ UNCHANGED lost
        /\ UNCHANGED edgeSeen

-----------------------------------------------------------------------------
\* The receiver.  What it sends of a second is taken before the next edge: the
\* foreground is never away that long.  It may be unplugged for a while.

Passing(t) == [t EXCEPT !.silence = IF @ < Recovery THEN @ + 1 ELSE @,
                        !.sinceRecovery = IF @ < Recovery THEN @ + 1 ELSE @,
                        !.sincePoll = IF @ < DetectTimeout THEN @ + 1 ELSE @]

Wait ==
  /\ gps.phase < GnssSecond - 1
  /\ gps' = [gps EXCEPT !.phase = @ + 1]
  /\ talk' = Passing(talk)
  /\ UNCHANGED <<lost, edgeSeen, assembler, timePulse>>

SecondBegins ==
  LET second == gps.second + 1
  IN  /\ gps.phase = GnssSecond - 1 /\ gps.sent = <<>> /\ second <= LastEdge
      /\ \E knows \in Sureness, pulse \in BOOLEAN, talks \in BOOLEAN, drop \in SUBSET Losable :
           /\ lost.dropped + Cardinality(drop) <= MaxLost
           /\ ~pulse => Cardinality(lost.pulses) < MaxMissing
           /\ ~talks => drop = {} /\ knows = "SURE"
           /\ gps' = [second |-> second, phase |-> 0, talks |-> talks,
                      sent |-> IF ~talks THEN <<>>
                               ELSE LET kept == SelectSeq(SentKinds, LAMBDA k : k \notin drop)
                                    IN  [i \in DOMAIN kept |-> MessageOf(kept[i], second, knows)]]
           /\ edgeSeen' = IF pulse THEN [sequence |-> edgeSeen.sequence + 1, at |-> second * GnssSecond]
                          ELSE edgeSeen
           /\ lost' = [dropped  |-> lost.dropped + Cardinality(drop),
                       pulses   |-> IF pulse THEN lost.pulses ELSE lost.pulses \union {second},
                       messages |-> lost.messages \union
                         (IF talks THEN {<<second, k>> : k \in drop}
                          ELSE {<<second, k>> : k \in Range(SentKinds)})]
      /\ talk' = Passing(talk)
      /\ UNCHANGED <<assembler, timePulse>>

GnssInit ==
  /\ gps = [second |-> 0, phase |-> GnssSecond - 1, talks |-> TRUE, sent |-> <<>>]
  /\ lost = [dropped |-> 0, pulses |-> {}, messages |-> {}]
  /\ edgeSeen = [sequence |-> 0, at |-> 0]
  /\ assembler = [building |-> NoParts, published |-> NoneYet, labelled |-> 0]
  /\ timePulse = [sequence |-> 0, associated |-> FALSE, second |-> 0]
  /\ talk = [frameSeen |-> FALSE, silence |-> 0, recovered |-> FALSE, sinceRecovery |-> 0,
             detection |-> "PENDING", attempts |-> 1, sincePoll |-> 0]

GnssNext == GnssService \/ Wait \/ SecondBegins

GnssSpec == GnssInit /\ [][GnssNext]_gnssVars

-----------------------------------------------------------------------------
(***************************************************************************)
(* Edges are counted, not timed: if a pulse is missing and so is every     *)
(* word of its second, nothing tells the next edge from the one missing    *)
(* (the label check of sync_source.c then does).  Such seconds are blind.  *)
(***************************************************************************)
Blind(second, kinds) ==
  second \in lost.pulses /\ \E k \in kinds : <<second, k>> \in lost.messages

InWindow == edgeSeen.at = gps.second * GnssSecond /\ gps.phase = MeasuredAt

\* A report's label is its edge's second, and only of what the receiver was sure
\* of (source_gnss.c: "the label is counted on from the last one it did").
LabelIsOfEdge ==
  InWindow /\ HasLabel /\ LabelOfEdge # gps.second =>
    \E s \in assembler.published.second + 1 .. gps.second - 1 : Blind(s, {"STATUS", "TIMEUTC"})

\* What is published is of one second, both parts of it (gnss_epoch.h).
EpochIsOfOneSecond ==
  assembler.published.valid => assembler.published.utc = assembler.published.second

\* A quantisation error is used of no edge but the one it was told of (gnss.c:
\* "TIM-TP describes the next pulse").
ErrorIsOfEdge ==
  InWindow /\ PulseErrorKnown /\ timePulse.second # gps.second =>
    \E s \in timePulse.second .. gps.second - 1 : Blind(s, {"TIM-TP"})

\* The receiver is not given up while polls are left, nor polled for ever.
DetectionEnds ==
  /\ talk.attempts <= DetectAttempts
  /\ talk.detection = "FAILED" => talk.attempts = DetectAttempts

\* What a report to the synchroniser is made of is of its own edge, and the
\* receiver is found or given up (gnss.c, gnss_epoch.c, gnss_detect.c).
GnssSound == LabelIsOfEdge /\ EpochIsOfOneSecond /\ ErrorIsOfEdge /\ DetectionEnds
=============================================================================
