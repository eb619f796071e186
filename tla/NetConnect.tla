----------------------------- MODULE NetConnect -----------------------------
(***************************************************************************)
(* Connections with fallback, esp_src/src/net/net_connect.cpp: the order   *)
(* in which a name's IPv6 and IPv4 addresses are tried, learnt from every  *)
(* connection and NTP poll.  HTTP(S) connects within one pass of the loop  *)
(* task; a poll takes seconds, in the client task, on addresses put in     *)
(* order when it starts, and is noted when the loop takes its result       *)
(* (ntp.cpp).  When the families failed is kept as which did so later,     *)
(* which is all that failed_ms is compared for.                            *)
(***************************************************************************)
EXTENDS Integers, Sequences

VARIABLES failed,    \* of each family: 0, or it failed lately, the higher the later
          reach,     \* the families that the network carries and servers answer on
          poll,      \* the NTP poll under way: the targets of its server, and the client
          wasted     \* history: timeouts noted of each in vain (below)

connectVars == <<failed, reach, poll, wasted>>

Families == {"IPv4", "IPv6"}

\* targets, target and polling of ntp.cpp; the client has yet to poll the target, or
\* has heard from it or not.
NoPoll == [targets |-> <<>>, target |-> 0, result |-> "NONE"]

\* prefer_ipv6(): IPv6 unless it failed lately and IPv4 has not failed since.
PreferIpv6(f) == f["IPv6"] = 0 \/ f["IPv4"] > f["IPv6"]

\* net_resolve(): the families of the addresses found, in the order to try them.  A
\* literal has one, and IPv6 is not even looked up without an address of our own.
NetResolve(f, found) ==
  SelectSeq(IF PreferIpv6(f) THEN <<"IPv6", "IPv4">> ELSE <<"IPv4", "IPv6">>,
            LAMBDA family : family \in found)


\* net_note_result()
NetNoteResult(f, family, worked) ==
  [g \in Families |-> IF g = family THEN IF worked THEN 0 ELSE 2
                      ELSE IF worked \/ f[g] = 0 THEN f[g] ELSE 1]

MostCounted == 5    \* the bound on what is counted

\* A timeout noted of a family is in vain where the other would have answered.
Counted(family, inVain) ==
  wasted' = IF inVain /\ reach # {} /\ wasted[family] < MostCounted
            THEN [wasted EXCEPT ![family] = @ + 1] ELSE wasted

\* net_http_connect(): each address in turn until one answers.  A URL that
\* parse_url() refuses changes nothing.
NetHttpConnect(found) ==
  LET order  == NetResolve(failed, found)
      first  == order[1]
      works  == first \in reach
      noted  == NetNoteResult(failed, first, works)
  IN  /\ found # {}
      /\ failed' = IF works \/ Len(order) = 1 THEN noted
                   ELSE NetNoteResult(noted, order[2], order[2] \in reach)
      /\ Counted(first, ~works /\ Len(order) = 2)
      /\ UNCHANGED <<reach, poll>>

\* ntp_service(): the poll of the server that is due, if it has an address.
StartPoll(found) ==
  /\ poll = NoPoll /\ found # {}
  /\ poll' = [targets |-> NetResolve(failed, found), target |-> 1, result |-> "AWAITED"]
  /\ UNCHANGED <<failed, reach, wasted>>

\* The client's burst ends: with any reply, a refusal or a bad one too, or with none.
PollEnds ==
  /\ poll.result = "AWAITED"
  /\ poll' = [poll EXCEPT !.result = IF poll.targets[poll.target] \in reach
                                     THEN "REPLIES" ELSE "SILENT"]
  /\ UNCHANGED <<failed, reach, wasted>>

\* take_result(), of a poll whose server's setting has not changed since: after no
\* reply at all, the other address is polled.
TakeResult(networkUp) ==
  LET family == poll.targets[poll.target]
      silent == poll.result = "SILENT"
  IN  /\ poll.result \in {"REPLIES", "SILENT"}
      /\ failed' = NetNoteResult(failed, family, ~silent)
      /\ Counted(family, silent /\ family \notin reach /\ Len(poll.targets) = 2)
      /\ poll' = IF silent /\ poll.target < Len(poll.targets) /\ networkUp
                 THEN [poll EXCEPT !.target = @ + 1, !.result = "AWAITED"] ELSE NoPoll
      /\ UNCHANGED reach

\* take_result(), of one whose server's setting has: nothing is learnt from it.
DropResult ==
  /\ poll.result \in {"REPLIES", "SILENT"}
  /\ poll' = NoPoll
  /\ UNCHANGED <<failed, reach, wasted>>

\* held(): NET_FAMILY_HOLD_MS have passed since it failed.
HoldEnds(family) ==
  /\ failed[family] # 0 /\ failed' = [failed EXCEPT ![family] = 0]
  /\ wasted' = [wasted EXCEPT ![family] = 0]
  /\ UNCHANGED <<reach, poll>>

ReachChanges ==
  /\ \E r \in SUBSET Families : reach' = r
  /\ wasted' = [family \in Families |-> 0]
  /\ UNCHANGED <<failed, poll>>

ConnectInit ==
  /\ failed = [family \in Families |-> 0] /\ reach \in SUBSET Families
  /\ poll = NoPoll /\ wasted = [family \in Families |-> 0]

ConnectNext ==
  \/ \E found \in SUBSET Families : NetHttpConnect(found) \/ StartPoll(found)
  \/ PollEnds \/ DropResult \/ \E networkUp \in BOOLEAN : TakeResult(networkUp)
  \/ \E family \in Families : HoldEnds(family)
  \/ ReachChanges

ConnectSpec == ConnectInit /\ [][ConnectNext]_connectVars

-----------------------------------------------------------------------------
\* Properties

=============================================================================
