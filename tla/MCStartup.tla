------------------------------ MODULE MCStartup ------------------------------
(***************************************************************************)
(* How the clock comes to show the time, and what it is served by from the *)
(* start, part by part.  The parts share no variable here: a behaviour is  *)
(* of one of them, and the view is of that one.                            *)
(*                                                                         *)
(* START: on the instance of MCSync.  UART: rings of three and two bytes,  *)
(* four bytes either way.  FRAMES: two frames, one of which holds the      *)
(* marks of another in its payload, with noise, one byte changed or lost   *)
(* and one silence.  LIGHT: two faults or resets.  PANEL: four epochs,     *)
(* three redraws, one epoch late.                                          *)
(***************************************************************************)
EXTENDS MCSync, Uart, Frames, Light, Panel

VARIABLE part

MCSent     == {[kind |-> 1, payload |-> <<>>], [kind |-> 2, payload |-> <<10, 11>>]}
MCExpected == [k \in {1} |-> 0]

MCLevelOf == [LAMP |-> 2]
MCPwm     == <<1, 2>>

PartView ==
  <<part,
    CASE part = "START"  -> SyncView
      [] part = "UART"   -> uartVars
      [] part = "FRAMES" -> frameVars
      [] part = "LIGHT"  -> lightVars
      [] part = "PANEL"  -> panelVars >>

MCInit ==
  /\ part \in {"START", "UART", "FRAMES", "LIGHT", "PANEL"}
  /\ LightInit /\ (part # "LIGHT" => chip.there)
  /\ Init /\ UartInit /\ FramesInit /\ PanelInit

InStart ==
  /\ part = "START" /\ Next
  /\ UNCHANGED <<part, uartVars, frameVars, lightVars, panelVars>>

InUart ==
  /\ part = "UART" /\ UartNext
  /\ UNCHANGED <<part, vars, frameVars, lightVars, panelVars>>

InFrames ==
  /\ part = "FRAMES" /\ FramesNext
  /\ UNCHANGED <<part, vars, uartVars, lightVars, panelVars>>

InLight ==
  /\ part = "LIGHT" /\ LightNext
  /\ UNCHANGED <<part, vars, uartVars, frameVars, panelVars>>

InPanel ==
  /\ part = "PANEL" /\ PanelNext
  /\ UNCHANGED <<part, vars, uartVars, frameVars, lightVars>>

MCSpec ==
  /\ MCInit
  /\ [][InStart \/ InUart \/ InFrames \/ InLight \/ InPanel]_
       <<part, vars, uartVars, frameVars, lightVars, panelVars>>
=============================================================================
