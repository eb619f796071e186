----------------------------- MODULE SyncBound -----------------------------
(***************************************************************************)
(* What sync_uncertainty() promises (sync.h: "a +/- bound on the UTC error *)
(* of our epoch"), checked against the error itself.  The synchroniser of  *)
(* Sync runs against a physical clock it cannot see: err is our epoch      *)
(* minus the true second, and each source's own second is wrong by at most *)
(* the bound that its report gives.  What an adapter reports as the phase  *)
(* is then the difference of the two.                                      *)
(*                                                                         *)
(* How the epoch moves from one to the next follows from what the loop     *)
(* asked of the timer: a period requested in an epoch takes effect from    *)
(* the next epoch edge (epoch_timer.c), so what is measured in an epoch    *)
(* moves the one after the next, whatever becomes of the loop meanwhile.   *)
(***************************************************************************)
EXTENDS Sync

CONSTANTS MaxErr,    \* the epoch is never further out than this
          Drift      \* how far the held frequency moves it in one epoch

\* An error is half a second at most, and what is held is good to the frequency that
\* holdover allows for: long before its age saturates the bound is past any error.
ASSUME BoundedError ==
  /\ MaxErr \in 0 .. BoundNone - 1 /\ Drift \in Nat
  /\ \A p \in Profiles :
       /\ Drift <= HoldoverFreq[p]
       /\ MaxErr <= HoldoverFreq[p] * MaxAge + (DriftPpt * MaxAge * MaxAge) \div 2000

VARIABLES err,       \* our epoch minus the true second
          target,    \* where the running interval takes it: a set of errors
          aim,       \* where the period asked for last is to take it, if anywhere
          moved      \* history: since holdover was last restarted, the epoch was moved
                     \* by what it does not account for

boundVars == <<status, requests, leads, err, target, aim, moved>>

Errors == -MaxErr .. MaxErr

\* Everything from one error to another.
Span(a, b) == {e \in Errors : (a <= e /\ e <= b) \/ (b <= e /\ e <= a)}
Near(a)    == {e \in Errors : Magnitude(e - a) <= Drift}

\* A source's second is as far out as the bound its report stands for allows,
\* to one side or the other (the extremes suffice: the phase is linear in it).
SourceErr(s, rep, side) == side * (rep.unc * BoundScale[s] + BoundFloor[s])

\* The phase every adapter measures: our epoch against its own second.
Measured(reports, e, side) ==
  [s \in Sources |->
     [reports[s] EXCEPT !.phase =
        IF reports[s].edge THEN e - SourceErr(s, reports[s], side[s]) ELSE 0]]

\* The period asked for before is in force now: a step, or a correction by any part of
\* what was measured then.
Target(st, asked, e) ==
  IF st.loop.state = "STEP" THEN UNION {Near(a.at) : a \in asked}
  ELSE UNION {Near(x) : x \in {e} \cup UNION {Span(e, a.at) : a \in asked}}

\* acquire() and track(): what is aimed at is the second of the source as measured.
\* An epoch that enters TRACK only asks for the frequency.
Aim(before, st, e) ==
  IF \/ st.loop.state = "STEP"
     \/ st.loop.state = "TRACK" /\ st.kind = "MEASURED" /\ before.loop.state # "STEP"
  THEN {[at |-> e - st.phase, bound |-> st.trk[st.source].bound]} ELSE {}

Restarted(st) == st.state = "LOCKED" /\ st.kind = "MEASURED"

BoundInit ==
  /\ Init
  /\ err \in {-MaxErr, MaxErr} /\ target = {err} /\ aim = {} /\ moved = FALSE

BoundEpoch ==
  \E e \in target, reports \in Reports, taken \in BOOLEAN :
  \E side \in [Sources -> {-1, 1}] : \E refused \in Refusals(Measured(reports, e, side)) :
    /\ \A s \in Sources : ~reports[s].edge => side[s] = 1
    /\ status' = SyncUpdate(status, requests, Measured(reports, e, side),
                            taken, taken, refused)
    /\ err' = e
    /\ target' = Target(status, aim, e)
    /\ aim' = Aim(status, status', e)
    /\ moved' = /\ status'.hold.ready
                /\ \/ moved /\ ~Restarted(status')
                   \/ status.loop.state = "STEP"
                   \/ \E a \in aim : a.bound > status'.hold.base
    /\ requests' = NoRequests /\ leads' = Led(status, status', leads)

BoundNext == BoundEpoch

BoundSpec == BoundInit /\ [][BoundNext]_boundVars

-----------------------------------------------------------------------------
\* Properties

Within == Uncertainty(status) < BoundNone => Magnitude(err) <= Uncertainty(status)

\* The bound given is one, while locked and, once the source is gone, while
\* holding what the loop was last steered to: whatever mixture of failures,
\* outliers and switches led there (sync_uncertainty, follow_holdover, sync.c).
\* It is not of holdover after the epoch was stepped without being locked since, nor
\* after the last correction but one had been measured by a report with a bound
\* greater than all that holdover starts from, and was still to come into force.
LockedBoundHolds ==
  \/ status.state = "LOCKED"
  \/ status.state = "HOLDOVER" /\ ~moved
  => Within

\* The same of every epoch in holdover, as sync.h states it of
\* sync_uncertainty(): "or the holdover bound".
HoldoverBoundHolds == status.state = "HOLDOVER" => Within
=============================================================================
