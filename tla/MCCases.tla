------------------------------ MODULE MCCases -------------------------------
(***************************************************************************)
(* The least instances of two components in which what a comment of theirs *)
(* says is found not to hold, each by itself: a behaviour is of the one or *)
(* of the other.                                                           *)
(*                                                                         *)
(* The menu has no section but that of the time, whose fields have one     *)
(* value each, so that two times may be set by hand, one after the other;  *)
(* the RTC is to be given up to two epochs to be written in.  NTP has one  *)
(* server, which is configured as one host and then as another.            *)
(***************************************************************************)
EXTENDS Menu, Ntp, TLC

CONSTANTS h1, h2

MCFactory ==
  [i \in {"tzOffset", "alarmTime"} |-> <<0, 0>>]
  @@ [i \in {"tzAuto", "dstAuto", "dstActive", "dstOffset", "alarmOn", "beepOn", "hours",
             "mode", "brightness"} |-> <<0>>]
MCHighs ==
  MCFactory @@ [i \in {"tzRemote", "resetWifi", "resetSettings", "resetAll"} |-> <<0>>]
            @@ [time |-> <<0, 0, 0, 0, 0, 0>>]
MCDays == <<0>>

MCOffsetOf == [h \in NtpHosts |-> IF h = h1 THEN 0 ELSE 9]

MCInit == MenuInit /\ NtpInit

MenuCase == MCInit /\ [][MenuNext /\ UNCHANGED ntpVars]_<<menuVars, ntpVars>>
NtpCase  == MCInit /\ [][NtpNext /\ UNCHANGED menuVars]_<<menuVars, ntpVars>> /\ NtpFairness
=============================================================================
