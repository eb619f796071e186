------------------------------ MODULE KeyValue ------------------------------
(***************************************************************************)
(* What the settings store promises (dspic_src/settings/store.h): the      *)
(* latest record of each type, kept intact.  A record being written takes  *)
(* effect at once and for good, or not at all, whatever fails and whenever *)
(* the power is cut.                                                       *)
(***************************************************************************)
CONSTANTS Types, Values, NoValue

VARIABLES kept,       \* the record of each type that a restart would find
          pending     \* the record being written, if any

vars == <<kept, pending>>

Nothing == [type |-> NoValue, value |-> NoValue]

Init == kept = [t \in Types |-> NoValue] /\ pending = Nothing

Begin ==
  /\ pending = Nothing
  /\ \E t \in Types, v \in Values : pending' = [type |-> t, value |-> v]
  /\ UNCHANGED kept

\* The write is done, and only its own type has changed.
Commit ==
  /\ pending # Nothing
  /\ kept' = [kept EXCEPT ![pending.type] = pending.value]
  /\ pending' = Nothing

\* The write was refused by the flash, or the power was cut: as if never begun.
Abandon == pending # Nothing /\ pending' = Nothing /\ UNCHANGED kept

Next == Begin \/ Commit \/ Abandon

Spec == Init /\ [][Next]_vars
=============================================================================
