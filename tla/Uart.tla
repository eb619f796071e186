-------------------------------- MODULE Uart --------------------------------
(***************************************************************************)
(* The serial drivers, dspic_src/drivers/uart1.c and uart2.c: a ring each  *)
(* way, shared with the interrupt handlers without a lock.  The two files  *)
(* hold the same code but for uart1_tx_poll(); each definition is          *)
(* translated from one of them and holds of both.  A handler is a step,    *)
(* the foreground goes from one access of what it shares to the next.      *)
(*                                                                         *)
(* Bytes are numbered in the order they are written or come in.  The baud  *)
(* rate and the statistics are left out.                                   *)
(***************************************************************************)
EXTENDS Integers, Sequences, SequencesExt

CONSTANTS TxRing, RxRing,   \* UART_TX_RING_SIZE, UART_RX_RING_SIZE
          TxFifo, RxFifo,   \* the depth of the hardware's
          Lengths,          \* of what is written at once
          MaxBytes,         \* the bound on bytes each way
          MaxToggles        \* and on disabling, discarding and recovering

ASSUME UartAssumption ==
  /\ TxRing \in Nat \ {0, 1} /\ RxRing \in Nat \ {0, 1}
  /\ TxFifo \in Nat \ {0} /\ RxFifo \in Nat \ {0}
  /\ Lengths \subseteq Nat /\ MaxBytes \in Nat /\ MaxToggles \in Nat

VARIABLES tx,       \* the ring, the FIFO, the flag and the enable of the sender
          rx,       \* and of the receiver
          on,       \* uart_enabled
          fore,     \* the foreground's step, and what it holds in registers
          wire,     \* a history: what went out, and what was popped
          uartBudget

uartVars == <<tx, rx, on, fore, wire, uartBudget>>

\* ring: tx_ring[tx_tail .. tx_head - 1].
NewTx == [ring |-> <<>>, fifo |-> <<>>, flag |-> FALSE, ie |-> FALSE, next |-> 1]
NewRx == [ring |-> <<>>, fifo |-> <<>>, flag |-> FALSE, ie |-> FALSE, next |-> 1,
          overrun |-> FALSE, errors |-> FALSE]
AtRest == [step |-> "REST", saved |-> FALSE]

\* The step that follows, which holds on to whether the sender was enabled.
Go(step) == fore' = [fore EXCEPT !.step = step]

-----------------------------------------------------------------------------
\* The hardware

Shift ==
  /\ on /\ tx.fifo # <<>>
  /\ wire' = [wire EXCEPT !.out = Append(@, Head(tx.fifo))]
  /\ tx' = [tx EXCEPT !.fifo = Tail(@), !.flag = @ \/ Len(tx.fifo) = 1]
  /\ UNCHANGED <<rx, on, fore, uartBudget>>

\* A byte comes in, perhaps damaged; the FIFO may be full.
ByteIn(damaged) ==
  /\ on /\ rx.next <= MaxBytes
  /\ rx' = IF Len(rx.fifo) = RxFifo
           THEN [rx EXCEPT !.overrun = TRUE, !.flag = TRUE, !.next = @ + 1]
           ELSE [rx EXCEPT !.fifo = Append(@, [byte |-> rx.next, damaged |-> damaged]),
                           !.flag = TRUE, !.next = @ + 1]
  /\ UNCHANGED <<tx, on, fore, wire, uartBudget>>

-----------------------------------------------------------------------------
\* Interrupt handlers

\* fill_tx_fifo()
Filled(t) ==
  LET room == TxFifo - Len(t.fifo)
      n    == IF Len(t.ring) < room THEN Len(t.ring) ELSE room
  IN  [t EXCEPT !.fifo = @ \o SubSeq(t.ring, 1, n), !.ring = SubSeq(@, n + 1, Len(@))]

\* _U1TXInterrupt()
TxInterrupt ==
  /\ tx.flag /\ tx.ie
  /\ tx' = LET t == Filled([tx EXCEPT !.flag = FALSE])
           IN  [t EXCEPT !.ie = @ /\ t.ring # <<>>]
  /\ UNCHANGED <<rx, on, fore, wire, uartBudget>>

\* One byte of _U2RXInterrupt().
Received(r, received) ==
  IF received.damaged \/ Len(r.ring) = RxRing - 1 THEN [r EXCEPT !.errors = TRUE]
  ELSE [r EXCEPT !.ring = Append(@, received.byte)]

\* _U1RXInterrupt(): drains the FIFO, then clears an overrun.
RxInterrupt ==
  /\ rx.flag /\ rx.ie
  /\ rx' = LET r == FoldLeft(Received, [rx EXCEPT !.flag = FALSE], rx.fifo)
           IN  [r EXCEPT !.fifo = <<>>, !.overrun = FALSE, !.errors = @ \/ rx.overrun]
  /\ UNCHANGED <<tx, on, fore, wire, uartBudget>>

-----------------------------------------------------------------------------
\* The foreground

TxFree == TxRing - 1 - Len(tx.ring)

\* uart1_tx_write(), uart1_tx_write_some(): tx_enqueue() publishes the bytes.
TxWrite(n) ==
  /\ fore.step = "REST" /\ on /\ n <= TxFree /\ tx.next + n <= MaxBytes + 1
  /\ tx' = [tx EXCEPT !.ring = @ \o [i \in 1 .. n |-> tx.next + i - 1], !.next = @ + n]
  /\ Go("MASK") /\ UNCHANGED <<rx, on, wire, uartBudget>>

\* uart1_tx_poll()
TxPoll ==
  /\ fore.step = "REST" /\ on
  /\ Go("POLL") /\ UNCHANGED <<tx, rx, on, wire, uartBudget>>

\* mask_interrupts(): what was enabled, then the enable bit.
Mask ==
  /\ fore.step \in {"MASK", "POLL"}
  /\ fore' = [step |-> IF fore.step = "POLL" THEN "POLLING" ELSE "MASKING", saved |-> tx.ie]
  /\ UNCHANGED <<tx, rx, on, wire, uartBudget>>

Masked ==
  /\ fore.step \in {"MASKING", "POLLING"}
  /\ tx' = [(IF fore.step = "POLLING" THEN Filled(tx) ELSE tx) EXCEPT !.ie = FALSE]
  /\ Go("RESTORE") /\ UNCHANGED <<rx, on, wire, uartBudget>>

\* restore_interrupts()
Restore ==
  /\ fore.step = "RESTORE"
  /\ tx' = [tx EXCEPT !.ie = @ \/ fore.saved]
  /\ Go("START") /\ UNCHANGED <<rx, on, wire, uartBudget>>

\* start_tx(): the test, the flag, the enable.
StartTx ==
  /\ fore.step = "START"
  /\ Go(IF on /\ tx.ring # <<>> THEN "FLAG" ELSE "REST")
  /\ UNCHANGED <<tx, rx, on, wire, uartBudget>>

FlagUnset ==    \* mutant: the interrupt is enabled, but not made pending
  /\ fore.step = "FLAG"
  /\ Go("ENABLE") /\ UNCHANGED <<tx, rx, on, wire, uartBudget>>

SetFlag ==
  /\ fore.step = "FLAG"
  /\ tx' = [tx EXCEPT !.flag = TRUE]
  /\ Go("ENABLE") /\ UNCHANGED <<rx, on, wire, uartBudget>>

SetEnable ==
  /\ fore.step = "ENABLE"
  /\ tx' = [tx EXCEPT !.ie = TRUE]
  /\ Go("REST") /\ UNCHANGED <<rx, on, wire, uartBudget>>

\* uart2_rx_pop(): the tail is released after the byte is read.
RxPop ==
  /\ fore.step = "REST" /\ rx.ring # <<>>
  /\ wire' = [wire EXCEPT !.popped = Append(@, Head(rx.ring))]
  /\ rx' = [rx EXCEPT !.ring = Tail(@)]
  /\ UNCHANGED <<tx, on, fore, uartBudget>>

\* uart2_rx_recover() of errors seen, or uart2_rx_discard(), masked: what was
\* queued goes, and a gap is known of.
RxRecover ==
  /\ fore.step = "REST" /\ uartBudget > 0 /\ uartBudget' = uartBudget - 1
  /\ rx.errors
  /\ rx' = [rx EXCEPT !.ring = <<>>, !.errors = FALSE]
  /\ wire' = [wire EXCEPT !.popped = <<>>]
  /\ UNCHANGED <<tx, on, fore>>

\* uart1_disable(): the hardware forgets what it held.
Disable ==
  /\ fore.step = "REST" /\ on /\ uartBudget > 0 /\ uartBudget' = uartBudget - 1
  /\ on' = FALSE
  /\ tx' = [tx EXCEPT !.ie = FALSE, !.fifo = <<>>]
  /\ rx' = [rx EXCEPT !.ie = FALSE, !.errors = @ \/ rx.fifo # <<>> \/ rx.overrun,
                      !.fifo = <<>>, !.overrun = FALSE]
  /\ wire' = [wire EXCEPT !.out = @ \o tx.fifo]
  /\ UNCHANGED fore

\* uart1_enable(), which ends in start_tx().
Enable ==
  /\ fore.step = "REST" /\ ~on
  /\ on' = TRUE
  /\ tx' = [tx EXCEPT !.flag = FALSE]
  /\ rx' = [rx EXCEPT !.flag = FALSE, !.ie = TRUE]
  /\ Go("START") /\ UNCHANGED <<wire, uartBudget>>

-----------------------------------------------------------------------------

\* uart1_init()
UartInit ==
  /\ tx = NewTx /\ rx = [NewRx EXCEPT !.ie = TRUE] /\ on = TRUE /\ fore = AtRest
  /\ wire = [out |-> <<>>, popped |-> <<>>] /\ uartBudget = MaxToggles

UartNext ==
  \/ Shift \/ TxInterrupt \/ RxInterrupt
  \/ \E damaged \in BOOLEAN : ByteIn(damaged)
  \/ \E n \in Lengths : TxWrite(n)
  \/ TxPoll \/ Mask \/ Masked \/ Restore \/ StartTx \/ SetFlag \/ SetEnable
  \/ RxPop \/ RxRecover \/ Disable \/ Enable

UartSpec == UartInit /\ [][UartNext]_uartVars

-----------------------------------------------------------------------------
\* Properties

\* Whatever the foreground and the handlers overtook of one another, once the
\* foreground has returned a sender with something in its ring is going to
\* send it: its handler is pending, or will be when the FIFO empties.
NeverStuck ==
  on /\ fore.step = "REST" /\ tx.ring # <<>> => tx.ie /\ (tx.flag \/ tx.fifo # <<>>)

\* What was written goes out once, whole and in order (uart1.c).
SentInOrder ==
  wire.out \o tx.fifo \o tx.ring = [i \in 1 .. tx.next - 1 |-> i]

\* What is popped has no gap in it that the driver does not own up to: the
\* errors are pending until the reader has discarded and started afresh.
NoSilentGap ==
  \/ rx.errors \/ rx.overrun \/ \E i \in DOMAIN rx.fifo : rx.fifo[i].damaged
  \/ LET read == wire.popped \o rx.ring \o [i \in DOMAIN rx.fifo |-> rx.fifo[i].byte]
     IN  \A i \in 2 .. Len(read) : read[i] = read[i - 1] + 1

\* Neither ring loses, repeats or keeps a byte (uart1.c, uart2.c).
UartSound == NeverStuck /\ SentInOrder /\ NoSilentGap
=============================================================================
