----------------------------- MODULE Scheduler -----------------------------
(***************************************************************************)
(* The foreground over the epoch timer: the cooperative scheduler of       *)
(* dspic_src/timing/scheduler.c and the main loop of main.c that it paces. *)
(* A pass reads the epoch and the slot once; takes the epoch's snapshot if *)
(* it is due and runs the epoch's work; and then asks of each slot task in *)
(* turn whether it is due.  The last of them writes the settings to flash. *)
(* Time passes between any two steps of a pass, PassTicks of it at most.   *)
(***************************************************************************)
EXTENDS EpochTimer, Sequences

CONSTANTS TaskSlots,   \* the slots of the slot tasks, in the order of main()
          LastSlot,    \* SETTINGS_STORE_LAST_SLOT
          FlashTicks,  \* the longest flash operation
          PassTicks    \* the longest pass, but for flash

ASSUME TaskAssumption ==
  /\ LastSlot \in Nat /\ TaskSlots \in Seq(1 .. LastSlot) /\ Len(TaskSlots) > 0
  /\ FlashTicks \in Nat \ {0} /\ PassTicks \in Nat

\* Flash operations (25 ms) and passes are short against any epoch, also one that
\* a step has made of half a second.
ASSUME PassAssumption ==
  \A p \in Periods :
    /\ p > 2 * Latency + 2 * FlashTicks + PassTicks + 1
    /\ p > (PulseEndSlot + 1) * SlotTicks + 2 * Latency + 2 * FlashTicks + 1

VARIABLES pass,    \* what this pass has read, and how far it is
          last,    \* last_epoch of each task
          record   \* a history (below)

schedulerVars == <<hw, sw, held, stalled, epoch, pass, last, record>>

\* at: 0 between passes, 1 the epoch's work, then the tasks in turn.
Tasks   == DOMAIN TaskSlots
Store   == Len(TaskSlots)
Pass    == [epoch : 0 .. Epochs - 1, slot : Nat, at : 0 .. Store + 1,
            ticks : 0 .. PassTicks, writing : BOOLEAN]

\* Histories: the epoch last measured and the ones the tasks last ran in, and
\* whether any epoch was missed between two.  Epoch 0, before the first edge,
\* has no slots.
Record == [measured : 0 .. Epochs - 1, ran : [Tasks -> 0 .. Epochs - 1], missed : BOOLEAN]

Free == stalled = 0 /\ ~pass.writing

\* scheduler_pass(): epoch_timer_position() reads the two together.
PassTorn ==    \* mutant: the epoch is read at the end of the last pass
  /\ Free /\ pass.at = 0
  /\ \E e \in {sw.sequence, (sw.sequence + Epochs - 1) % Epochs} :
       pass' = [pass EXCEPT !.epoch = e, !.slot = sw.slot, !.at = 1, !.ticks = 0]
  /\ UNCHANGED <<hw, sw, held, stalled, epoch, last, record>>

SchedulerPass ==
  /\ Free /\ pass.at = 0
  /\ pass' = [pass EXCEPT !.epoch = sw.sequence, !.slot = sw.slot, !.at = 1, !.ticks = 0]
  /\ UNCHANGED <<hw, sw, held, stalled, epoch, last, record>>

Follows(e, before) == e = (before + 1) % Epochs

\* timing_snapshot() and run_epoch(), which requests the next period.
Snapshot ==
  /\ Free /\ pass.at = 1 /\ sw.due
  /\ \E period \in Periods :
       sw' = [sw EXCEPT !.due = FALSE, !.requested = period]
  /\ pass' = [pass EXCEPT !.at = 2]
  /\ record' = [record EXCEPT !.measured = sw.sequence,
                              !.missed = @ \/ ~Follows(sw.sequence, record.measured)]
  /\ UNCHANGED <<hw, held, stalled, epoch, last>>

NoSnapshot ==
  /\ Free /\ pass.at = 1 /\ ~sw.due
  /\ pass' = [pass EXCEPT !.at = 2]
  /\ UNCHANGED <<hw, sw, held, stalled, epoch, last, record>>

\* slot_due(), and the task: the last may find the flash quiet and something
\* to be saved.
SlotDue(task) == pass.epoch # last[task] /\ pass.slot >= TaskSlots[task]

\* flash_quiet(): the I2C bus or the RTC source may be in its way as well.
FlashQuiet == pass.slot <= LastSlot

TaskTurn ==
  LET task == pass.at - 1
      due  == SlotDue(task)
  IN  /\ Free /\ task \in Tasks
      /\ last' = IF due THEN [last EXCEPT ![task] = pass.epoch] ELSE last
      /\ \E writing \in {FALSE} \cup {due /\ task = Store /\ FlashQuiet} :
           pass' = [pass EXCEPT !.at = IF task = Store THEN 0 ELSE @ + 1,
                                !.writing = writing]
      /\ record' = IF ~due THEN record
                   ELSE [record EXCEPT !.ran[task] = pass.epoch,
                                       !.missed = @ \/ ~Follows(pass.epoch, record.ran[task])]
      /\ UNCHANGED <<hw, sw, held, stalled, epoch>>

\* The write: one flash operation (store.c makes several in a row).
Writes == pass.writing /\ FlashStarts /\ UNCHANGED <<pass, last, record>>

Written ==
  /\ FlashEnds
  /\ pass' = [pass EXCEPT !.writing = FALSE]
  /\ UNCHANGED <<last, record>>

\* Time: a pass takes PassTicks at most, a flash operation FlashTicks.
Tick ==
  /\ IF stalled > 0 THEN stalled <= FlashTicks ELSE pass.ticks < PassTicks
  /\ TimePasses
  /\ pass' = IF stalled > 0 THEN pass ELSE [pass EXCEPT !.ticks = @ + 1]
  /\ UNCHANGED <<last, record>>

Interrupt == (T3Interrupt \/ T4Interrupt) /\ UNCHANGED <<pass, last, record>>

\* Due in the epoch in which they are first asked (enrol).
SchedulerInit ==
  /\ TimerInit
  /\ pass = [epoch |-> 0, slot |-> 0, at |-> 0, ticks |-> 0, writing |-> FALSE]
  /\ last = [task \in Tasks |-> Epochs - 1]
  /\ record = [measured |-> 0, ran |-> [task \in Tasks |-> 0], missed |-> FALSE]

SchedulerNext ==
  \/ SchedulerPass \/ Snapshot \/ NoSnapshot \/ TaskTurn
  \/ Writes \/ Written \/ Tick \/ Interrupt

SchedulerSpec == SchedulerInit /\ [][SchedulerNext]_schedulerVars

-----------------------------------------------------------------------------
\* Properties

\* Each epoch is measured and each slot task run exactly once in it, in the
\* order of the epochs: none is skipped, and none is run twice for a slot read
\* with another epoch (scheduler.c, timing_snapshot).
NothingMissed == ~record.missed

\* A flash operation is never across an epoch (settings.h, of
\* SETTINGS_STORE_LAST_SLOT: "leaving an erase (~25 ms) well clear of the
\* epoch").
FlashClearOfEpoch == epoch.phase \notin {"SPANNED", "OUT"}

\* The loop keeps up with the epochs, and what it does stays clear of them.
EpochsServed == NothingMissed /\ FlashClearOfEpoch
=============================================================================
