------------------------------- MODULE I2cBus -------------------------------
(***************************************************************************)
(* The I2C master of dspic_src/drivers/i2c1.c: a queue of transfers that   *)
(* callers own, carried through event by event by the interrupt, and a     *)
(* service in the main loop that ends one that takes too long and recovers *)
(* the bus.  i2c1_submit() and i2c1_service() mask the interrupt, so each  *)
(* is one step.                                                            *)
(*                                                                         *)
(* The module on the bus either finishes the event it was given, with the  *)
(* interrupt flag raised, or hangs; a collision may come at any time that  *)
(* it is at work.  A byte is only its acknowledgement.                     *)
(***************************************************************************)
EXTENDS Integers, Sequences

CONSTANTS Transfers,     \* the callers' transfers
          WriteLength, ReadLength,
          TimeoutServices,   \* services that make up I2C1_TIMEOUT_MS
          None           \* no event

ASSUME I2cAssumption ==
  /\ WriteLength \in [Transfers -> Nat] /\ ReadLength \in [Transfers -> Nat]
  /\ TimeoutServices \in Nat \ {0}

VARIABLES queue,      \* head to tail
          result,     \* of each transfer
          bus,        \* state, position, address_sent and pending
          raised,     \* what the module has finished with, flag MI2C1IF
          watch,      \* services since the one that saw this transfer start
          moved,      \* history: the bytes of a transfer that the device took or gave
          round       \* the parity of the services

busVars == <<queue, result, bus, raised, watch, moved, round>>

NotWatched == -1

\* A start, a stop or an acknowledgement is DONE; a byte is acknowledged or not.
Finishes(state) ==
  IF state \in {"WRITE", "ADDRESS_R"} THEN {"ACKED", "REFUSED"}
  ELSE IF state \in {"IDLE", "FAULT"} THEN {}
  ELSE {"DONE"}

-----------------------------------------------------------------------------
\* A step's result is what it leaves of the queue, the results and the bus.
Now == [queue |-> queue, result |-> result, bus |-> bus, watch |-> watch]

\* start_next()
StartNext(m) ==
  IF m.queue = <<>> THEN [m EXCEPT !.bus.state = "IDLE"]
  ELSE [queue |-> m.queue, result |-> [m.result EXCEPT ![Head(m.queue)] = "BUSY"],
        bus |-> [state |-> "START", position |-> 0, addressSent |-> FALSE, pending |-> "OK"],
        watch |-> NotWatched]

\* finish()
Finish(m, outcome) ==
  [m EXCEPT !.queue = Tail(@), !.result = [@ EXCEPT ![Head(m.queue)] = outcome]]

\* stop()
Stop(m, outcome) == [m EXCEPT !.bus.state = "STOP", !.bus.pending = outcome]

\* write_next()
WriteNext(m, t) ==
  IF m.bus.position < WriteLength[t]
  THEN [m EXCEPT !.bus.state = "WRITE", !.bus.position = @ + 1]
  ELSE IF ReadLength[t] # 0 THEN [m EXCEPT !.bus.state = "RESTART"]
  ELSE Stop(m, "OK")

Becomes(m) == queue' = m.queue /\ result' = m.result /\ bus' = m.bus /\ watch' = m.watch

-----------------------------------------------------------------------------
\* i2c1_submit()
Submit(t) ==
  /\ result[t] \notin {"QUEUED", "BUSY"}
  /\ LET m == [Now EXCEPT !.queue = Append(@, t), !.result = [@ EXCEPT ![t] = "QUEUED"]]
     IN  Becomes(IF bus.state = "IDLE" THEN StartNext(m) ELSE m)
  /\ moved' = [moved EXCEPT ![t] = 0]
  /\ UNCHANGED <<raised, round>>

\* The module on the bus: what it was given is done, or lost.
BusEvent ==
  /\ raised = None
  /\ raised' \in Finishes(bus.state) \cup (IF bus.state \in {"IDLE", "FAULT"} THEN {} ELSE {"COLLISION"})
  /\ UNCHANGED <<queue, result, bus, watch, moved, round>>

-----------------------------------------------------------------------------
\* _MI2C1Interrupt()

\* BCL or IWCOL
Collided ==
  LET gone == IF queue # <<>> /\ bus.state \notin {"IDLE", "FAULT"}
              THEN Finish(Now, "BUS_ERROR") ELSE Now
  IN  [gone EXCEPT !.bus.state = "FAULT"]

AfterStart(t) ==
  [Now EXCEPT !.bus.state = IF WriteLength[t] # 0 \/ ReadLength[t] = 0 THEN "WRITE"
                            ELSE "ADDRESS_R"]

AfterWriteUnchecked(t) ==    \* mutant: only the address need be acknowledged
  IF raised = "REFUSED" /\ ~bus.addressSent THEN Stop(Now, "NACK_ADDRESS")
  ELSE WriteNext([Now EXCEPT !.bus.addressSent = TRUE], t)

AfterWrite(t) ==
  IF raised = "REFUSED"
  THEN Stop(Now, IF bus.addressSent THEN "NACK_DATA" ELSE "NACK_ADDRESS")
  ELSE WriteNext([Now EXCEPT !.bus.addressSent = TRUE], t)

AfterAddress(t) ==
  IF raised = "REFUSED"
  THEN Stop(Now, IF WriteLength[t] # 0 THEN "NACK_DATA" ELSE "NACK_ADDRESS")
  ELSE [Now EXCEPT !.bus.state = "READ", !.bus.position = 0]

AfterAck(t) ==
  IF bus.position < ReadLength[t] THEN [Now EXCEPT !.bus.state = "READ"]
  ELSE Stop(Now, "OK")

Handled(t) ==
  CASE bus.state = "START"     -> AfterStart(t)
    [] bus.state = "WRITE"     -> AfterWrite(t)
    [] bus.state = "RESTART"   -> [Now EXCEPT !.bus.state = "ADDRESS_R"]
    [] bus.state = "ADDRESS_R" -> AfterAddress(t)
    [] bus.state = "READ"      -> [Now EXCEPT !.bus.state = "ACK", !.bus.position = @ + 1]
    [] bus.state = "ACK"       -> AfterAck(t)
    [] bus.state = "STOP"      -> StartNext(Finish(Now, bus.pending))
    [] OTHER                   -> Now

\* A byte of data went over, one way or the other.
Counts == bus.state = "READ" \/ (bus.state = "WRITE" /\ bus.addressSent /\ raised = "ACKED")

Interrupt ==
  /\ raised # None
  /\ Becomes(IF raised = "COLLISION" THEN Collided
             ELSE IF queue = <<>> THEN [Now EXCEPT !.bus.state = "IDLE"]
             ELSE Handled(Head(queue)))
  /\ moved' = IF raised # "COLLISION" /\ queue # <<>> /\ Counts
              THEN [moved EXCEPT ![Head(queue)] = @ + 1] ELSE moved
  /\ raised' = None
  /\ UNCHANGED round

-----------------------------------------------------------------------------
\* i2c1_service(), every 10 ms: what the module has raised meanwhile is dropped
\* with the bus it belonged to.
Service ==
  LET fault   == bus.state = "FAULT"
      expired == ~fault /\ bus.state # "IDLE" /\ watch >= TimeoutServices
      gone    == IF expired /\ queue # <<>> THEN Finish(Now, "TIMEOUT") ELSE Now
  IN  /\ round' = 1 - round
      /\ IF fault \/ expired
         THEN Becomes(StartNext([gone EXCEPT !.watch = NotWatched])) /\ raised' = None
         ELSE /\ Becomes([Now EXCEPT !.watch = IF bus.state = "IDLE" THEN NotWatched ELSE @ + 1])
              /\ UNCHANGED raised
      /\ UNCHANGED moved

-----------------------------------------------------------------------------
\* i2c1_init()
BusInit ==
  /\ queue = <<>> /\ result = [t \in Transfers |-> "IDLE"]
  /\ bus = [state |-> "IDLE", position |-> 0, addressSent |-> FALSE, pending |-> "OK"]
  /\ raised = None /\ watch = NotWatched
  /\ moved = [t \in Transfers |-> 0] /\ round = 0

BusNext == (\E t \in Transfers : Submit(t)) \/ BusEvent \/ Interrupt \/ Service

\* The 10 ms task never stops being run; nothing is asked of the bus.
ServicesGoOn == []<>(round = 0) /\ []<>(round = 1)

BusSpec == BusInit /\ [][BusNext]_busVars /\ ServicesGoOn

-----------------------------------------------------------------------------
\* Properties

\* A result of OK is of the transfer it is given to: every byte of it went over
\* the bus and was acknowledged, and none of another's (_MI2C1Interrupt, the
\* service racing it).
OkMeansAll(t) == result[t] = "OK" => moved[t] = WriteLength[t] + ReadLength[t]

\* Whoever asked the bus for a transfer gets an answer, with a bus that may collide,
\* hang or never answer at any time and while others are submitted (i2c1_service),
\* and an answer of OK means done.
BusKeepsWord ==
  \A t \in Transfers :
    result[t] \in {"QUEUED", "BUSY"} ~> result[t] \notin {"QUEUED", "BUSY"} /\ OkMeansAll(t)
=============================================================================
