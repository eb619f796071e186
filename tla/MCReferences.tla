---------------------------- MODULE MCReferences ----------------------------
(***************************************************************************)
(* What the clock is told of the time, and how good it says that is, part  *)
(* by part.  The parts share no variable here: a behaviour is of one of    *)
(* them, and the view is of that one.                                      *)
(*                                                                         *)
(* BOUND: on the instance of MCSyncBound.  GNSS: three edges, with any     *)
(* three messages and any one pulse lost.  ESP: a clock that drifts by 3   *)
(* in 16, samples good to 2 or 20.  NTP: two servers that disagree, one    *)
(* change of a setting.                                                    *)
(***************************************************************************)
EXTENDS MCSyncBound, Gnss, EspClock, Ntp

CONSTANTS h1, h2

VARIABLE part

MCEspDrift == [k \in 0 .. 2 |-> CASE k = 0 -> 4 [] k = 1 -> 2 [] k = 2 -> 1]
MCOffsetOf == [h \in NtpHosts |-> IF h = h1 THEN 0 ELSE 9]

PartView ==
  <<part,
    CASE part = "BOUND" -> BoundView
      [] part = "GNSS"  -> gnssVars
      [] part = "ESP"   -> espVars
      [] part = "NTP"   -> <<prefs, ntp, client, netUp, changes>> >>

MCInit ==
  /\ part \in {"BOUND", "GNSS", "ESP", "NTP"}
  /\ BoundInit /\ GnssInit /\ EspInit /\ NtpInit
  /\ prefs = <<h1, h2>>

InBound ==
  /\ part = "BOUND" /\ BoundNext
  /\ UNCHANGED <<part, gnssVars, espVars, ntpVars>>

InGnss ==
  /\ part = "GNSS" /\ GnssNext
  /\ UNCHANGED <<part, boundVars, espVars, ntpVars>>

InEsp ==
  /\ part = "ESP" /\ EspNext
  /\ UNCHANGED <<part, boundVars, gnssVars, ntpVars>>

InNtp ==
  /\ part = "NTP" /\ NtpNext
  /\ UNCHANGED <<part, boundVars, gnssVars, espVars>>

MCSpec ==
  /\ MCInit
  /\ [][InBound \/ InGnss \/ InEsp \/ InNtp]_
       <<part, boundVars, gnssVars, espVars, ntpVars>>
=============================================================================
