-------------------------------- MODULE Ntp --------------------------------
(***************************************************************************)
(* NTP on the ESP: the servers and their polls (timing/ntp.cpp), the task  *)
(* that makes the exchanges (ntp_client.cpp) and what the clock keeps of   *)
(* whose samples (esp_clock.cpp).  ntp_service() and the console run in    *)
(* the loop task; the client's task outranks it on the same core, so its   *)
(* result and its being free again are one step.                           *)
(*                                                                         *)
(* A sample is the host that gave it, each with an offset of its own; a    *)
(* server's root distance is any of Distances each time it is worked out.  *)
(* A name has up to two addresses, tried in an order that NetConnect is    *)
(* about.  Of the schedule only the order is kept: a server has never been *)
(* scheduled, waits for a time still to come, or is late, in the order in  *)
(* which they became so.                                                   *)
(***************************************************************************)
EXTENDS NtpSelect, Sequences

CONSTANTS NtpHosts, NoHost,   \* what a server may be configured as
          OffsetOf, Distances,
          ReachPolls,         \* the polls of REACH_RECENT
          Burst,              \* NTP_CLIENT_BURST
          MaxChanges          \* bound on the changes of the settings

ASSUME NtpAssumption ==
  /\ NoHost \notin NtpHosts /\ OffsetOf \in [NtpHosts -> Int] /\ Distances \subseteq Nat \ {0}
  /\ ReachPolls \in Nat \ {0} /\ Burst \in Nat \ {0} /\ MaxChanges \in Nat

VARIABLES prefs,     \* user_prefs: the host of each server
          ntp,       \* ntp and the clock's window, which the loop task keeps
          client,    \* the client's task
          netUp,     \* whether the network is up, for ntp_service()
          changes,   \* the changes of the settings so far
          turn       \* the parity of the passes of the loop

ntpVars == <<prefs, ntp, client, netUp, changes, turn>>

Without(s, x) == SelectSeq(s, LAMBDA y : y # x)

NotPolling == 0
FedByOther == -2
NotFed     == -1
NoResult   == [ok |-> FALSE, silent |-> FALSE, sample |-> NoHost]

-----------------------------------------------------------------------------
\* The client's task (ntp_client.cpp)

\* poll_server(): a burst of exchanges, cut short by a kiss-o'-death.
Bursts ==
  {b \in UNION {[1 .. n -> {"OK", "SILENT", "KISS", "BAD"}] : n \in 1 .. Burst} :
     /\ \A k \in 1 .. Len(b) - 1 : b[k] # "KISS"
     /\ Len(b) < Burst => b[Len(b)] = "KISS"}

\* What comes of it: a sample if any exchange was good; silent if nothing was heard.
PollResult(b, host) ==
  LET ok == \E k \in DOMAIN b : b[k] = "OK"
  IN  [ok |-> ok, silent |-> \A k \in DOMAIN b : b[k] = "SILENT",
       sample |-> IF ok THEN host ELSE NoHost]

ClientTask ==
  /\ client.busy
  /\ \E b \in Bursts :
       client' = [client EXCEPT !.busy = FALSE, !.ready = TRUE,
                                !.result = PollResult(b, client.host)]
  /\ UNCHANGED <<prefs, ntp, netUp, changes, turn>>

-----------------------------------------------------------------------------
\* Samples and selection (ntp.cpp).  m is what the loop task has of ntp and of
\* the client; d the servers' root distances in this pass.

NoVote(m, i) == m.server[i].sample = NoHost

\* usable()
Usable(m, i) ==
  LET s == m.server[i]
  IN  s.host # NoHost /\ ~NoVote(m, i) /\ s.sinceGood < ReachPolls

\* apply() and esp_clock_update(): the window of raw samples that the frequency
\* is fitted to starts again when they come from another server.
ApplyAnyway(m, i) ==    \* mutant: the window goes on with another server's samples
  IF NoVote(m, i) \/ m.server[i].given THEN m
  ELSE [m EXCEPT !.server[i].given = TRUE, !.fedBy = i, !.valid = TRUE,
                 !.window = @ \cup {m.server[i].sample}]

Apply(m, i) ==
  IF NoVote(m, i) \/ m.server[i].given THEN m
  ELSE [m EXCEPT !.server[i].given = TRUE, !.fedBy = i, !.valid = TRUE,
                 !.window = (IF m.fedBy \in {i, NotFed} THEN @ ELSE {})
                            \cup {m.server[i].sample}]

\* select_server(): the first good sample of all sets the clock; then the vote.
SelectServer(m, fresh, d) ==
  LET first == ~m.valid /\ fresh # NoServer
      m1    == IF first THEN Apply([m EXCEPT !.peer = fresh], fresh) ELSE m
      candidates == [i \in NtpServers |->
                       [usable |-> Usable(m1, i), offset |-> IF NoVote(m1, i) THEN 0 ELSE OffsetOf[m1.server[i].sample],
                        distance |-> d[i]]]
      peer  == Followed(candidates, m1.peer)
      m2    == [m1 EXCEPT !.peer = peer,
                          !.disagree = /\ ~Majority(candidates, m1.peer)
                                       /\ Cardinality(UsableServers(candidates)) >= 2]
  IN  IF ~m.valid /\ ~first THEN m
      ELSE IF peer = NoServer THEN m2 ELSE Apply(m2, peer)

\* schedule_next(): how long the delay is only decides when it is over.
ScheduleNext(m, i) ==
  [m EXCEPT !.server[i].next = "LATER", !.server[i].due = m.server[i].resync,
            !.late = Without(@, i)]

\* handle_poll()
HandlePoll(m, i, result, d) ==
  IF result.ok
  THEN ScheduleNext(SelectServer([m EXCEPT !.server[i].sample = result.sample,
                                           !.server[i].given = FALSE,
                                           !.server[i].sinceGood = 0], i, d), i)
  ELSE SelectServer(ScheduleNext([m EXCEPT !.server[i].sinceGood =
                                             IF @ < ReachPolls THEN @ + 1 ELSE @], i),
                    NoServer, d)

-----------------------------------------------------------------------------
\* Polling (ntp.cpp)

\* reset_server()
ResetServer(m, i) ==
  [m EXCEPT !.server[i] = [host |-> prefs[i], next |-> "NEVER", due |-> TRUE, resync |-> FALSE,
                           sinceGood |-> ReachPolls, sample |-> NoHost, given |-> FALSE],
            !.late = Without(@, i),
            !.peer = IF @ = i THEN NoServer ELSE @,
            !.fedBy = IF @ = i THEN FedByOther ELSE @]

\* check_settings(): a server whose setting has changed starts again; one being
\* polled when its poll has ended.
CheckSettings(m, d) ==
  LET done[i \in {0} \cup NtpServers] ==
        IF i = 0 THEN m
        ELSE IF i = m.polling \/ m.server[i].host = prefs[i] THEN done[i - 1]
        ELSE SelectServer(ResetServer(done[i - 1], i), NoServer, d)
  IN  done[ServerCount]

\* start_poll()
StartPoll(m, i, addresses) ==
  [m EXCEPT !.polling = i, !.addresses = addresses,
            !.client.busy = TRUE, !.client.host = m.server[i].host]

\* take_result(): one that never answered is tried at its other address.
TakeResult(m, d) ==
  LET i    == m.polling
      r    == m.client.result
      m1   == [m EXCEPT !.client.ready = FALSE, !.client.result = NoResult, !.polling = NotPolling]
  IN  IF m.polling = NotPolling \/ ~m.client.ready THEN m
      ELSE IF m.server[i].host # prefs[i] THEN m1
      ELSE IF r.silent /\ m.addresses > 1 /\ netUp THEN StartPoll(m1, i, m.addresses - 1)
      ELSE HandlePoll(m1, i, r, d)

\* next_due(): those asked for first, then the longest late.  Which of two times
\* still to come is the earlier is open.
NextDue(m) ==
  LET ready == {i \in NtpServers : /\ m.server[i].host # NoHost
                                   /\ m.server[i].due \/ m.server[i].next # "LATER"}
      asked == {i \in ready : m.server[i].due}
      first == IF asked # {} THEN asked ELSE ready
      never == {i \in first : m.server[i].next = "NEVER"}
      late  == SelectSeq(m.late, LAMBDA i : i \in first)
  IN  IF never # {} THEN {Lowest(never)}
      ELSE IF late # <<>> THEN {Head(late)} ELSE first

\* The rest of ntp_service() with the network up: addresses is how many its name has.
PollNext(m, i, addresses, d) ==
  LET m1 == [m EXCEPT !.mayPoll = TRUE, !.server[i].due = FALSE, !.server[i].resync = FALSE]
  IN  IF addresses = 0 THEN HandlePoll(m1, i, NoResult, d) ELSE StartPoll(m1, i, addresses)

LoopState ==
  [server |-> ntp.server, late |-> ntp.late, peer |-> ntp.peer, polling |-> ntp.polling,
   addresses |-> ntp.addresses, fedBy |-> ntp.fedBy, valid |-> ntp.valid,
   window |-> ntp.window, disagree |-> ntp.disagree, mayPoll |-> ntp.mayPoll,
   client |-> client]

Becomes(m) ==
  /\ ntp' = [f \in DOMAIN ntp |-> m[f]] /\ client' = m.client /\ turn' = 1 - turn
  /\ UNCHANGED <<prefs, netUp, changes>>

\* root_distance_us() of each server, with its jitter_us().
RootDistances == [NtpServers -> Distances]

\* ntp_service().  mayPoll: polled_on_link, or IPV6_WAIT_MS since the link came up.
ServiceDown ==
  /\ ~netUp
  /\ \E d \in RootDistances :
       \E m \in {TakeResult(CheckSettings(LoopState, d), d)} :
           Becomes([m EXCEPT !.server = [i \in NtpServers |-> [m.server[i] EXCEPT !.due = TRUE]],
                             !.mayPoll = FALSE])

ServiceUp ==
  /\ netUp
  /\ \E d \in RootDistances, ipv6 \in BOOLEAN :
       \E m \in {TakeResult(CheckSettings(LoopState, d), d)} :
           IF \/ ~m.mayPoll /\ ~ipv6
              \/ m.polling # NotPolling \/ m.client.busy \/ NextDue(m) = {}
           THEN Becomes(m)
           ELSE \E i \in NextDue(m), addresses \in 0 .. (IF ipv6 THEN 2 ELSE 1) :
                  \E after \in {PollNext(m, i, addresses, d)} : Becomes(after)

-----------------------------------------------------------------------------
\* Time: a poll comes due, a sample grows too old, the wait for IPv6 is over.
Elapse(i) ==
  /\ ntp.server[i].next = "LATER"
  /\ ntp' = [ntp EXCEPT !.server[i].next = "LATE", !.late = Append(@, i)]
  /\ UNCHANGED <<prefs, client, netUp, changes, turn>>

\* As good as no poll that answered: both last until the next good one.
Grow(i) ==
  /\ ntp.server[i].sample # NoHost /\ ntp.server[i].sinceGood < ReachPolls
  /\ ntp' = [ntp EXCEPT !.server[i].sinceGood = ReachPolls]
  /\ UNCHANGED <<prefs, client, netUp, changes, turn>>

WaitIpv6 ==
  /\ netUp /\ ~ntp.mayPoll
  /\ ntp' = [ntp EXCEPT !.mayPoll = TRUE]
  /\ UNCHANGED <<prefs, client, netUp, changes, turn>>

\* The console: a server's setting, or a poll of every server now.
ChangeServer(i) ==
  /\ changes < MaxChanges
  /\ \E h \in NtpHosts \cup {NoHost} : prefs' = [prefs EXCEPT ![i] = h]
  /\ changes' = changes + 1
  /\ UNCHANGED <<ntp, client, netUp, turn>>

NtpResync ==
  /\ changes < MaxChanges /\ changes' = changes + 1
  /\ ntp' = [ntp EXCEPT !.server =
               [i \in NtpServers |-> [ntp.server[i] EXCEPT !.due = TRUE, !.resync = TRUE]]]
  /\ UNCHANGED <<prefs, client, netUp, turn>>

NetworkChanges ==
  /\ netUp' = ~netUp
  /\ UNCHANGED <<prefs, ntp, client, changes, turn>>

\* ntp_init(): every server as it is configured, none polled.
NtpInit ==
  /\ prefs \in [NtpServers -> NtpHosts \cup {NoHost}]
  /\ ntp = [server |-> [i \in NtpServers |->
                          [host |-> prefs[i], next |-> "NEVER", due |-> TRUE, resync |-> FALSE,
                           sinceGood |-> ReachPolls, sample |-> NoHost, given |-> FALSE]],
            late |-> <<>>, peer |-> NoServer, polling |-> NotPolling, addresses |-> 0,
            fedBy |-> NotFed, valid |-> FALSE, window |-> {}, disagree |-> FALSE,
            mayPoll |-> FALSE]
  /\ client = [busy |-> FALSE, ready |-> FALSE, host |-> NoHost, result |-> NoResult]
  /\ netUp = FALSE /\ changes = 0 /\ turn = 0

NtpService == ServiceUp \/ ServiceDown

NtpNext ==
  \/ NtpService \/ ClientTask \/ NtpResync \/ NetworkChanges \/ WaitIpv6
  \/ \E i \in NtpServers : Elapse(i) \/ Grow(i) \/ ChangeServer(i)

\* The loop goes round, the client's exchanges time out, time passes.
NtpFairness ==
  /\ []<>(turn = 0) /\ []<>(turn = 1) /\ WF_ntpVars(ClientTask) /\ WF_ntpVars(WaitIpv6)
  /\ \A i \in NtpServers : WF_ntpVars(Elapse(i))

NtpSpec == NtpInit /\ [][NtpNext]_ntpVars /\ NtpFairness

-----------------------------------------------------------------------------
\* Properties

\* A sample is held only by the server that is configured as the host it came
\* from, whatever is changed while it is under way (check_settings,
\* take_result).
SamplesAreOfHost ==
  \A i \in NtpServers : LET s == ntp.server[i]
                        IN  s.sample # NoHost => s.sample = s.host

\* The clock's frequency is never fitted through samples of two hosts (apply,
\* reset_server), and the server followed is one that has a sample.
WindowIsOfOne ==
  /\ Cardinality(ntp.window) <= 1
  /\ ntp.peer # NoServer => ~NoVote(ntp, ntp.peer)
  /\ ntp.fedBy \in NtpServers => ntp.server[ntp.fedBy].sample \in ntp.window

\* The poll in flight is the client's: it is never without one to wait for, and
\* its result is never left for the next (take_result, start_poll).
PollIsClients ==
  /\ (ntp.polling # NotPolling) = (client.busy \/ client.ready)
  /\ ~(client.busy /\ client.ready)

\* Samples, votes and polls belong to the servers configured (ntp.cpp).
NtpSound == SamplesAreOfHost /\ WindowIsOfOne /\ PollIsClients

\* "A server's setting changed (ntp server, defaults): it starts again", after
\* the poll that is under way (check_settings, take_result).
ChangeTakesEffect ==
  \A i \in NtpServers : ntp.server[i].host # prefs[i] ~> ntp.server[i].host = prefs[i]
=============================================================================
