------------------------------- MODULE Panel -------------------------------
(***************************************************************************)
(* What the tubes show and when (dspic_src/ui/display.c, drivers/tubes.c). *)
(* The frame of the next second is rendered after each epoch, shifted into *)
(* the drivers once the epoch pulse has closed their latch, and latched by *)
(* the next pulse.  A change of mode, the menu's frames and the hundredths *)
(* are shown at once, and what was loaded for the epoch is shifted back.   *)
(*                                                                         *)
(* A frame is what it is rendered from: the second, its hundredths, the    *)
(* mode and the settings drawn with it.  Segments, wiring, the SPI and the *)
(* zone are left out; a shift is one step.                                 *)
(***************************************************************************)
EXTENDS Integers

CONSTANTS Modes,        \* DisplayMode, in the order of the button: 0 .. Modes - 1
          Hundredths,   \* the mode that shows them (SSMM)
          CycleEpochs,  \* DISPLAY_CYCLE_EPOCHS
          Overlays,     \* the menu's frames
          LastEpoch,    \* bounds: on the epochs,
          MaxRedraws,   \* the changes made,
          MaxLate       \* and the epochs whose frame is not loaded in time

ASSUME PanelAssumption ==
  /\ {Modes, Hundredths, CycleEpochs, LastEpoch, MaxRedraws, MaxLate} \subseteq Nat
  /\ Modes > 0 /\ Hundredths \in 0 .. Modes - 1

VARIABLES tubes,   \* the drivers: the shift register, their outputs, the latch
          loading, \* tubes.c: shown, loaded, load_pending
          screen,  \* display.c: the mode, its settings, the seconds and frames
          beat     \* the epoch, how far in it, and what was done in it

panelVars == <<tubes, loading, screen, beat>>

Unknown == [known |-> FALSE, second |-> 0, hundredths |-> 0]
Dashes  == [frame |-> "DASHES"]
NoFrame == "NONE"

-----------------------------------------------------------------------------
\* display.c: drawn_mode(), render()

DrawnMode(s) == IF s.preview = Modes THEN s.mode ELSE s.preview

Render(s, second) ==
  IF s.overlay # NoFrame THEN [frame |-> s.overlay]
  ELSE IF ~second.known THEN Dashes
  ELSE [frame |-> "CLOCK", second |-> second.second, mode |-> DrawnMode(s), drawn |-> s.setting,
        hundredths |-> IF DrawnMode(s) = Hundredths THEN second.hundredths ELSE 0]

-----------------------------------------------------------------------------
\* tubes.c, on a record p of the drivers and what tubes.c keeps of them

\* shift(): an open latch lets the register through to the outputs.
ShiftIn(p, frame) ==
  [p EXCEPT !.hw.register = frame, !.hw.lit = IF p.hw.open THEN frame ELSE @]

LatchPulse(p) == [p EXCEPT !.hw.lit = p.hw.register]

TubesLoad(p, frame) == [ShiftIn(p, frame) EXCEPT !.sw.loaded = frame, !.sw.pending = TRUE]

TubesShow(p, frame) ==
  LET now == [LatchPulse(ShiftIn(p, frame)) EXCEPT !.sw.shown = frame]
  IN  IF p.sw.pending /\ ~p.hw.open THEN ShiftIn(now, p.sw.loaded)
      ELSE [now EXCEPT !.sw.loaded = frame, !.sw.pending = FALSE]

\* tubes_epoch()
TubesEpoch(sw) == IF sw.pending THEN [sw EXCEPT !.shown = sw.loaded, !.pending = FALSE] ELSE sw

Drivers == [hw |-> tubes, sw |-> loading]
Driven(p) == tubes' = p.hw /\ loading' = p.sw

-----------------------------------------------------------------------------
\* redraw(): the second on the tubes now, and the one prepared for the epoch.

RedrawLazy(s) ==   \* mutant: what is loaded already is not drawn again
  LET p == TubesShow(Drivers, Render(s, s.shown))
  IN  /\ screen' = [s EXCEPT !.prepared = Render(s, s.next)]
      /\ Driven(p)

Redraw(s) ==
  IF s.overlay = NoFrame /\ ~s.shown.known /\ ~s.next.known
  THEN screen' = s /\ UNCHANGED <<tubes, loading>>
  ELSE LET prepared == Render(s, s.next)
           p        == TubesShow(Drivers, Render(s, s.shown))
       IN  /\ screen' = [s EXCEPT !.prepared = prepared, !.ended = FALSE]
           /\ Driven(IF ~s.pending /\ ~tubes.open THEN TubesLoad(p, prepared) ELSE p)

\* A change from the button, the settings, the alarm or the menu.  Those made
\* before the epoch's work has been done are counted as such.
MayChange ==
  /\ beat.redraws < MaxRedraws
  /\ beat' = [beat EXCEPT !.redraws = @ + 1, !.raced = @ \/ beat.due]

SetMode ==   \* display_set_mode()
  /\ MayChange
  /\ \E m \in 0 .. Modes - 1 \ {screen.selected} :
       Redraw([screen EXCEPT !.selected = m, !.mode = m])

\* display_set_alarm_dot(), display_set_12h(), display_set_delta_epoch()
SetDrawn == MayChange /\ Redraw([screen EXCEPT !.setting = ~@])

Cycle ==   \* display_cycle()
  /\ MayChange /\ screen.shown.known
  /\ Redraw([screen EXCEPT !.mode = (@ + 1) % Modes, !.cycled = 0])

SetOverlay ==   \* display_set_overlay()
  /\ MayChange
  /\ \E o \in (Overlays \union {NoFrame}) \ {screen.overlay} : Redraw([screen EXCEPT !.overlay = o])

Preview ==   \* display_preview()
  /\ MayChange
  /\ \E m \in 0 .. Modes \ {screen.preview} : Redraw([screen EXCEPT !.preview = m])

-----------------------------------------------------------------------------
\* The hardware: the pulse latches the register and holds the latch open until
\* epoch_output_end().  The foreground does each epoch's work within it.

EpochPulse ==
  /\ ~tubes.open /\ ~beat.due /\ beat.epoch < LastEpoch
  /\ screen.pending => beat.late < MaxLate
  /\ tubes' = [tubes EXCEPT !.lit = tubes.register, !.open = TRUE]
  /\ beat' = [beat EXCEPT !.epoch = @ + 1, !.due = TRUE, !.raced = FALSE,
                          !.stale = screen.pending, !.late = IF screen.pending THEN @ + 1 ELSE @]
  /\ UNCHANGED <<loading, screen>>

PulseEnds ==
  /\ tubes.open
  /\ tubes' = [tubes EXCEPT !.open = FALSE]
  /\ UNCHANGED <<loading, screen, beat>>

\* display_prepare(), after the synchroniser has labelled the epoch: the time of
\* day may have become known, or have been lost.
Prepare ==
  /\ beat.due
  /\ \E known \in BOOLEAN :
       LET back == screen.mode # screen.selected /\ screen.cycled + 1 >= CycleEpochs
           next == IF known THEN [known |-> TRUE, second |-> beat.epoch + 1, hundredths |-> 0]
                   ELSE [screen.next EXCEPT !.known = FALSE]
           s    == [screen EXCEPT
                      !.shown = screen.next, !.next = next, !.pending = TRUE, !.ended = back,
                      !.mode = IF back THEN screen.selected ELSE @,
                      !.cycled = IF screen.mode # screen.selected THEN @ + 1 ELSE @]
       IN  screen' = [s EXCEPT !.prepared = Render(s, next)]
  /\ loading' = TubesEpoch(loading)
  /\ beat' = [beat EXCEPT !.due = FALSE]
  /\ UNCHANGED tubes

\* display_service(), from its slot on
Service ==
  /\ screen.pending /\ ~tubes.open
  /\ Driven(TubesLoad(Drivers, screen.prepared))
  /\ screen' = [screen EXCEPT !.pending = FALSE]
  /\ UNCHANGED beat

\* display_tick(), after the epoch's frame is prepared and until 10 ms before the
\* next epoch
Tick ==
  /\ ~beat.due /\ screen.overlay = NoFrame /\ DrawnMode(screen) = Hundredths
  /\ screen.shown.known /\ screen.shown.hundredths = 0
  /\ LET s == [screen EXCEPT !.shown.hundredths = 1]
     IN  screen' = s /\ Driven(TubesShow(Drivers, Render(s, s.shown)))
  /\ UNCHANGED beat

\* display_init(), with the settings' mode; tubes_init()
PanelInit ==
  /\ tubes = [register |-> Dashes, lit |-> Dashes, open |-> FALSE]
  /\ loading = [shown |-> Dashes, loaded |-> Dashes, pending |-> FALSE]
  /\ screen = [selected |-> 0, mode |-> 0, preview |-> Modes, overlay |-> NoFrame, setting |-> FALSE,
               cycled |-> 0, shown |-> Unknown, next |-> Unknown, prepared |-> Dashes,
               pending |-> FALSE, ended |-> FALSE]
  /\ beat = [epoch |-> 0, due |-> FALSE, raced |-> FALSE, stale |-> FALSE, redraws |-> 0, late |-> 0]

PanelNext ==
  \/ SetMode \/ SetDrawn \/ Cycle \/ SetOverlay \/ Preview
  \/ EpochPulse \/ PulseEnds \/ Prepare \/ Service \/ Tick

PanelSpec == PanelInit /\ [][PanelNext]_panelVars

-----------------------------------------------------------------------------
\* Between an epoch's work and the next pulse, and unless it was missed or
\* something was shown before that work, the tubes show the second that is, as
\* the settings say; a mode cycled to gives way from the next second.
ShowsTheSecond ==
  ~beat.due /\ ~beat.raced /\ ~beat.stale =>
    /\ screen.shown.known =>
         /\ screen.shown.second = beat.epoch
         /\ ~screen.ended => tubes.lit = Render(screen, screen.shown)
    /\ tubes.lit = loading.shown

\* Once loaded, the next second's frame stays in the register, as the settings
\* are now, whatever is shown in between (tubes.h: "A frame already loaded for
\* the next epoch is shifted back in afterwards").
LoadedForTheEpoch ==
  ~beat.due /\ ~screen.pending /\ beat.epoch > 0 /\ ~tubes.open =>
    tubes.register = Render(screen, screen.next) \/ ~screen.next.known

\* Each second is shown in its time, and nothing shown in between costs it
\* (display.c, tubes.c).
PanelSound == ShowsTheSecond /\ LoadedForTheEpoch
=============================================================================
