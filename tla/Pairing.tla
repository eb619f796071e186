------------------------------ MODULE Pairing ------------------------------
(***************************************************************************)
(* Each processor labels the other's second by a message that follows its  *)
(* edge: TIME-AUTH for the PIC's epoch (esp_src/src/pic/pic_link.cpp,      *)
(* pair_time) and TIME-NTP for the ESP's PPS (esp_src/src/timing/ntp.cpp,  *)
(* dspic_src/sync/source_ntp.c).  An edge is timed by an interrupt; the    *)
(* message waits on the line and for the loop of its receiver, and the     *)
(* ESP's loop may be held up for seconds.                                  *)
(*                                                                         *)
(* Both sides' edges carry the number of the second they begin.  Phases,   *)
(* flags, their averages and the reports' other fields are left out.       *)
(***************************************************************************)
EXTENDS Integers, Sequences

CONSTANTS SecondTicks,  \* ticks of a second
          PairWindow,   \* PAIR_WINDOW_US
          Backlog,      \* BACKLOG_MS
          Association,  \* SOURCE_NTP_ASSOCIATION_MS
          Transit,      \* the longest a message is on its way, once sent
          EspPhases,    \* when in the PIC's second the ESP's edge may rise
          MaxLoop,      \* the ESP's loop goes round at least this often,
          MaxHeld,      \* but for once, when it is held up this long
          LastSecond    \* the bound on the seconds counted

ASSUME PairingAssumption ==
  /\ SecondTicks \in Nat \ {0} /\ PairWindow \in Nat /\ Backlog \in Nat /\ Association \in Nat
  /\ Transit \in Nat /\ MaxLoop \in Nat /\ MaxHeld \in Nat /\ LastSecond \in Nat
  /\ EspPhases \subseteq 0 .. SecondTicks - 1
  /\ MaxLoop <= Backlog /\ Transit + Backlog < SecondTicks /\ PairWindow < SecondTicks
  /\ MaxLoop + Transit <= Association

VARIABLES tick,     \* the time, and the phase of the ESP's edge
          picEpoch, \* the PIC's epoch edge, in the ESP's slot: pic_edge
          espOutput, \* the ESP's own edge: output_edge, and what was taken of it
          loop,     \* the ESP's loop: when it last went round, and was held up
          auth,     \* TIME-AUTH on its way, or in the ESP's receive buffer
          ntpSent,  \* TIME-NTP on its way
          picTime,  \* pic_time of pic_link.cpp
          ntpLabel  \* the label of source_ntp.c, and whether the last was lost

pairingVars == <<tick, picEpoch, espOutput, loop, auth, ntpSent, picTime, ntpLabel>>

NoEdge  == [at |-> 0, second |-> -1]
NoLabel == [edge |-> NoEdge, utc |-> -1]

-----------------------------------------------------------------------------
\* Time: edges are recorded as they come (on_pic_epoch, on_alarm).  No message
\* is on its way for longer than Transit.

TickPasses ==
  /\ picEpoch.second < LastSecond
  /\ \A i \in DOMAIN auth : auth[i].arrived \/ tick.now - auth[i].sent < Transit
  /\ \A i \in DOMAIN ntpSent : tick.now - ntpSent[i].sent < Transit
  /\ tick.now - loop.last < (IF loop.held THEN MaxHeld ELSE MaxLoop)
  /\ tick' = [tick EXCEPT !.now = @ + 1]
  /\ LET next == tick.now + 1
     IN  /\ picEpoch' = IF next % SecondTicks = 0 THEN [at |-> next, second |-> picEpoch.second + 1]
                     ELSE picEpoch
         /\ auth' = IF next % SecondTicks = 0
                    THEN Append(auth, [utc |-> picEpoch.second + 1, sent |-> next, arrived |-> FALSE])
                    ELSE auth
         /\ espOutput' = IF next % SecondTicks = tick.phase
                      THEN [espOutput EXCEPT !.edge = [at |-> next, second |-> @.second + 1],
                                          !.sequence = @ + 1]
                      ELSE espOutput
  /\ UNCHANGED <<loop, ntpSent, picTime, ntpLabel>>

\* The loop is held up: an update, a page, a console command.
HeldUp ==
  /\ ~loop.held /\ ~loop.heldOnce
  /\ loop' = [loop EXCEPT !.held = TRUE, !.heldOnce = TRUE]
  /\ UNCHANGED <<tick, picEpoch, espOutput, auth, ntpSent, picTime, ntpLabel>>

Arrive ==
  /\ \E i \in DOMAIN auth :
       /\ ~auth[i].arrived /\ \A j \in 1 .. i - 1 : auth[j].arrived
       /\ auth' = [auth EXCEPT ![i].arrived = TRUE]
  /\ UNCHANGED <<tick, picEpoch, espOutput, loop, ntpSent, picTime, ntpLabel>>

-----------------------------------------------------------------------------
\* The ESP's loop

PairBacklog(message, backlog) ==   \* mutant: paired after the loop was held up, too
  IF picEpoch.second < 0 \/ tick.now - picEpoch.at > PairWindow THEN picTime
  ELSE [edge |-> picEpoch, utc |-> message.utc]

\* pair_time()
PairTime(message, backlog) ==
  IF backlog \/ picEpoch.second < 0 \/ tick.now - picEpoch.at > PairWindow THEN picTime
  ELSE [edge |-> picEpoch, utc |-> message.utc]

\* pic_link_service() takes what has been received; what a later one pairs, an
\* earlier one's pairing does not outlast.  Then service_pps() reports an edge
\* not yet taken, and service_ntp_report() sends it.
MainLoop ==
  LET backlog == tick.now - loop.last > Backlog
      waiting == {i \in DOMAIN auth : auth[i].arrived}
  IN  /\ loop' = [loop EXCEPT !.last = tick.now, !.held = FALSE]
      /\ IF waiting = {} THEN UNCHANGED <<auth, picTime>>
         ELSE \E last \in waiting :
                /\ \A i \in waiting : i <= last
                /\ picTime' = PairTime(auth[last], backlog)
                /\ auth' = SubSeq(auth, last + 1, Len(auth))
      /\ IF espOutput.taken = espOutput.sequence THEN UNCHANGED <<espOutput, ntpSent>>
         ELSE /\ espOutput' = [espOutput EXCEPT !.taken = espOutput.sequence]
              /\ ntpSent' = Append(ntpSent, [utc |-> espOutput.edge.second, sent |-> tick.now])
      /\ UNCHANGED <<tick, picEpoch, ntpLabel>>

-----------------------------------------------------------------------------
\* The PIC: source_ntp_received() and source_ntp_service()

Labelled(message) ==
  IF espOutput.edge.second < 0 \/ tick.now - espOutput.edge.at > Association THEN ntpLabel.last
  ELSE [edge |-> espOutput.edge, utc |-> message.utc]

TakeNtp ==
  /\ ntpSent # <<>>
  /\ ntpLabel' = [last |-> Labelled(Head(ntpSent)), lost |-> FALSE]
  /\ ntpSent' = Tail(ntpSent)
  /\ UNCHANGED <<tick, picEpoch, espOutput, loop, auth, picTime>>

\* A frame is damaged on the line.
LoseNtp ==
  /\ ntpSent # <<>>
  /\ ntpLabel' = [ntpLabel EXCEPT !.lost = TRUE]
  /\ ntpSent' = Tail(ntpSent)
  /\ UNCHANGED <<tick, picEpoch, espOutput, loop, auth, picTime>>

LoseAuth ==
  /\ \E i \in DOMAIN auth :
       /\ ~auth[i].arrived
       /\ auth' = SubSeq(auth, 1, i - 1) \o SubSeq(auth, i + 1, Len(auth))
  /\ UNCHANGED <<tick, picEpoch, espOutput, loop, ntpSent, picTime, ntpLabel>>

\* source_ntp_report(): counted on from the edge that was labelled.
CountedOn == ntpLabel.last.utc + (espOutput.edge.second - ntpLabel.last.edge.second)

-----------------------------------------------------------------------------

PairingInit ==
  /\ tick \in [now : {0}, phase : EspPhases]
  /\ picEpoch = NoEdge /\ espOutput = [edge |-> NoEdge, sequence |-> 0, taken |-> 0]
  /\ loop = [last |-> 0, held |-> FALSE, heldOnce |-> FALSE]
  /\ auth = <<>> /\ ntpSent = <<>>
  /\ picTime = NoLabel /\ ntpLabel = [last |-> NoLabel, lost |-> FALSE]

PairingNext ==
  \/ TickPasses \/ HeldUp \/ Arrive \/ MainLoop \/ TakeNtp \/ LoseNtp \/ LoseAuth

PairingSpec == PairingInit /\ [][PairingNext]_pairingVars

-----------------------------------------------------------------------------
\* Properties

\* However long the loop was held up and whatever was lost, the ESP never
\* gives an epoch edge the UTC of another (pic_link.cpp, pair_time).
EpochLabelIsItsOwn == picTime # NoLabel => picTime.utc = picTime.edge.second

\* When nothing is on its way and the latest message was not lost, the label
\* the PIC counts on is that of the edge it is given: what was sent late by a
\* loop held up has been put right by the message behind it (source_ntp.c).
PpsLabelSettles ==
  /\ ntpSent = <<>> /\ espOutput.taken = espOutput.sequence
  /\ ~ntpLabel.lost /\ ntpLabel.last # NoLabel
  => CountedOn = espOutput.edge.second

\* Neither side takes a label for another edge's (pic_link.cpp, source_ntp.c).
LabelsOfTheirEdges == EpochLabelIsItsOwn /\ PpsLabelSettles
=============================================================================
