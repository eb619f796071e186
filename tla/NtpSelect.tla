----------------------------- MODULE NtpSelect -----------------------------
(***************************************************************************)
(* The choice of the NTP server that the ESP's clock follows, ntp_select() *)
(* of esp_src/src/timing/ntp_select.cpp.  A candidate says that the clock  *)
(* is off by offset, give or take distance.  The sets of bits of the code  *)
(* are sets of servers here.                                               *)
(***************************************************************************)
EXTENDS Integers, FiniteSets

CONSTANT ServerCount    \* NTP_SERVERS

ASSUME ServerCountAssumption == ServerCount \in Nat \ {0}

NtpServers == 1 .. ServerCount

NoServer == 0

LowEnd(c)  == c.offset - c.distance
HighEnd(c) == c.offset + c.distance

\* holding(): the usable servers whose intervals hold point.
Holding(candidates, point) ==
  {i \in NtpServers : candidates[i].usable /\ LowEnd(candidates[i]) <= point /\ point <= HighEnd(candidates[i])}

Lowest(set) == CHOOSE i \in set : \A j \in set : i <= j

\* better(): more servers, then the one in use, then the lowest-numbered server.
BetterAnySize(set, best, current) ==    \* mutant: the server in use before the number of servers
  IF (current \in set) # (current \in best) THEN current \in set
  ELSE Cardinality(set) > Cardinality(best)

Better(set, best, current) ==
  IF Cardinality(set) # Cardinality(best) THEN Cardinality(set) > Cardinality(best)
  ELSE IF (current \in set) # (current \in best) THEN current \in set
  ELSE set # {} /\ Lowest(set) < Lowest(best)

\* The points tried, in the order in which the code tries them.
Tried(candidates) ==
  [n \in 1 .. 2 * ServerCount |->
     LET c == candidates[(n + 1) \div 2]
     IN  IF ~c.usable THEN {} ELSE Holding(candidates, IF n % 2 = 1 THEN LowEnd(c) ELSE HighEnd(c))]

Agreeing(candidates, current) ==
  LET tried == Tried(candidates)
      best[n \in 0 .. 2 * ServerCount] ==
        IF n = 0 THEN {}
        ELSE IF Better(tried[n], best[n - 1], current) THEN tried[n] ELSE best[n - 1]
  IN  best[2 * ServerCount]

\* The closest of those that agree, the lowest-numbered of equals; but the
\* server in use unless another is twice as close.
Followed(candidates, current) ==
  LET best    == Agreeing(candidates, current)
      nearer(i, j) == \/ candidates[i].distance < candidates[j].distance
                      \/ candidates[i].distance = candidates[j].distance /\ i <= j
      closest == CHOOSE i \in best : \A j \in best : nearer(i, j)
  IN  IF best = {} THEN NoServer
      ELSE IF current \in best /\ candidates[closest].distance * 2 >= candidates[current].distance
           THEN current
      ELSE closest

UsableServers(candidates) == {i \in NtpServers : candidates[i].usable}

Majority(candidates, current) ==
  Cardinality(Agreeing(candidates, current)) * 2 > Cardinality(UsableServers(candidates))

-----------------------------------------------------------------------------
\* What ntp_select.h promises, said without points: sets of servers any two of
\* which overlap (intervals that overlap in pairs share a point).

Overlap(a, b) == LowEnd(a) <= HighEnd(b) /\ LowEnd(b) <= HighEnd(a)

Consistent(candidates) ==
  {s \in SUBSET UsableServers(candidates) : \A i, j \in s : Overlap(candidates[i], candidates[j])}

Largest(candidates) ==
  {s \in Consistent(candidates) : \A t \in Consistent(candidates) : Cardinality(t) <= Cardinality(s)}

\* The choice is of a largest set of servers that agree, one that holds the
\* server in use if any does, and the first of those; and it is left for another
\* only if that is twice as close.
ChoiceIsOfLargest(candidates, current) ==
  LET best  == Agreeing(candidates, current)
      rival == {s \in Largest(candidates) :
                  (\E t \in Largest(candidates) : current \in t) => current \in s}
      pick  == Followed(candidates, current)
  IN  /\ best \in rival
      /\ best # {} => \A s \in rival : Lowest(best) <= Lowest(s)
      /\ (pick = NoServer) = (UsableServers(candidates) = {})
      /\ pick # NoServer => /\ pick \in best
                            /\ \A i \in best : candidates[pick].distance <= 2 * candidates[i].distance
      /\ current \in best /\ pick # current =>
           2 * candidates[pick].distance < candidates[current].distance

\* Choosing again with nothing changed never goes back to a server it has left:
\* the clock does not swing between two servers.
NeverSwings(candidates, current) ==
  LET second == Followed(candidates, current)
      third  == Followed(candidates, second)
  IN  third # second => third # current \/ UsableServers(candidates) = {}
=============================================================================
