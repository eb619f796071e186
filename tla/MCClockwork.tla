---------------------------- MODULE MCClockwork -----------------------------
(***************************************************************************)
(* From the choice of a source down to the ticks that are counted, part by *)
(* part.  The parts share no variable here: a behaviour is of one of them, *)
(* and the view is of that one.                                            *)
(*                                                                         *)
(* SYNC: on the instance of MCSync.  TIMER: twelve slots of four ticks in  *)
(* an epoch, a flash operation longer than a slot, and passes of more than *)
(* three, so that the store's slot may be found late; periods that end     *)
(* before, on and after a slot boundary, and a step longer than nominal by *)
(* a slot and a half.  CAPTURE: two inputs, a wrap of the lower timer      *)
(* every three ticks, one change of route at any point.  PULSES: five      *)
(* counts and a quarter in a second, and two steps of the clock, small     *)
(* ones either way or one of seconds.  PAIRING: three seconds of ten       *)
(* ticks, with one long hold of the ESP's loop.                            *)
(***************************************************************************)
EXTENDS MCSync, Scheduler, Capture, PpsOutput, Pairing

VARIABLE part

MCPeriods   == {47, 48, 49, 50, 54}
MCTaskSlots == <<2, 5>>
MCOffsets   == {0, 1}
MCRises     == {<<0, 0>>, <<0, 1>>}
MCSteps     == {0, -2, 1, -12}

\* Only differences of epoch numbers are ever used.
SchedulerView ==
  LET since(e) == (sw.sequence - e) % Epochs
  IN  <<hw, [sw EXCEPT !.sequence = 0], held, stalled, epoch,
        [pass EXCEPT !.epoch = since(@)],
        [task \in Tasks |-> since(last[task])],
        [record EXCEPT !.measured = since(@), !.ran = [task \in Tasks |-> since(@[task])]]>>

PartView ==
  <<part,
    CASE part = "SYNC"    -> SyncView
      [] part = "TIMER"   -> SchedulerView
      [] part = "CAPTURE" -> captureVars
      [] part = "PULSES"  -> ppsVars
      [] part = "PAIRING" -> pairingVars >>

MCInit ==
  /\ part \in {"SYNC", "TIMER", "CAPTURE", "PULSES", "PAIRING"}
  /\ Init /\ SchedulerInit /\ CaptureInit /\ PpsInit /\ PairingInit

InSync ==
  /\ part = "SYNC" /\ Epoch
  /\ UNCHANGED <<part, schedulerVars, captureVars, ppsVars, pairingVars>>

InTimer ==
  /\ part = "TIMER" /\ SchedulerNext
  /\ UNCHANGED <<part, vars, captureVars, ppsVars, pairingVars>>

InCapture ==
  /\ part = "CAPTURE" /\ CaptureNext
  /\ UNCHANGED <<part, vars, schedulerVars, ppsVars, pairingVars>>

InPulses ==
  /\ part = "PULSES" /\ PpsNext
  /\ UNCHANGED <<part, vars, schedulerVars, captureVars, pairingVars>>

InPairing ==
  /\ part = "PAIRING" /\ PairingNext
  /\ UNCHANGED <<part, vars, schedulerVars, captureVars, ppsVars>>

MCSpec ==
  /\ MCInit
  /\ [][InSync \/ InTimer \/ InCapture \/ InPulses \/ InPairing]_
       <<part, vars, schedulerVars, captureVars, ppsVars, pairingVars>>
=============================================================================
