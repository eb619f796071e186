----------------------------- MODULE ZoneService -----------------------------
(***************************************************************************)
(* The time zone service between requests: tzinfo_service.py, one worker   *)
(* of it, which answers one request at a time.  It reads two files that    *)
(* others replace under it: the GeoIP database, kept open and looked at    *)
(* now and then, and tzdata's table of leap seconds, read anew each time.  *)
(*                                                                         *)
(* A database is its signature and whether it can be opened; a table is    *)
(* the changes of TAI-UTC that it knows of and when it expires.  What the  *)
(* zone of a place is, and its answer, are in Zone; an address is whether  *)
(* it can be looked up.                                                    *)
(***************************************************************************)
EXTENDS Integers, FiniteSets

CONSTANTS MmdbCheckInterval, \* mmdb_check_interval
          Validity,         \* DEFAULT_VALIDITY_SECONDS
          LeapSteps,        \* when TAI-UTC really changes, by one each time
          TableSpan,        \* how long a table is good for: no change is announced later
          Databases,        \* bound: databases that are ever installed
          MaxTables,        \* bound: tables that are
          LastSecond        \* bound on the time

ASSUME ZoneServiceAssumption ==
  /\ MmdbCheckInterval \in Nat /\ Validity \in Nat /\ LeapSteps \subseteq Nat
  /\ TableSpan \in Nat /\ Databases \in Nat /\ MaxTables \in Nat /\ LastSecond \in Nat

VARIABLES disk,      \* the files: db, its version or 0, good, since; table, tables
          seconds,   \* the time
          worker,    \* geoip_reader, _geoip_signature, _last_mmdb_check
          given      \* history: the last answer by address, and the last TAI one

serviceVars == <<disk, seconds, worker, given>>

\* TAI-UTC at a time; the table of a time knows what is announced by then.
TaiAt(time) == 1 + Cardinality({s \in LeapSteps : s <= time})
TableOf(time) ==
  [known |-> {s \in LeapSteps : s < time + TableSpan}, expires |-> time + TableSpan]

-----------------------------------------------------------------------------
\* LeapSecondTable.state(): the value in force, the next change, the expiry.  A table
\* that is missing or has expired is an error.
TableUsable(time) == disk.table.expires # 0 /\ time < disk.table.expires

TaiOffset(time) == 1 + Cardinality({s \in disk.table.known : s <= time})
NextChanges(time) == {s \in disk.table.known : s > time}

\* build_special_response(): of TAI, good until the next change or the expiry.
ValidUntil(time) ==
  CHOOSE t \in {time + Validity, disk.table.expires} \cup NextChanges(time) :
    \A u \in {time + Validity, disk.table.expires} \cup NextChanges(time) : t <= u

\* _reload_geoip_if_changed(): a database that cannot be opened, or is gone, leaves the
\* one that is open.
ReloadForgets(w, force) ==    \* mutant: what is gone or broken is closed
  IF ~force /\ seconds - w.checked < MmdbCheckInterval THEN w
  ELSE IF disk.db = w.signature THEN [w EXCEPT !.checked = seconds]
  ELSE [w EXCEPT !.checked = seconds, !.signature = disk.db,
                 !.reader = IF disk.good THEN disk.db ELSE 0]

Reload(w, force) ==
  IF ~force /\ seconds - w.checked < MmdbCheckInterval THEN w
  ELSE IF disk.db = w.signature \/ ~disk.good THEN [w EXCEPT !.checked = seconds]
  ELSE [checked |-> seconds, signature |-> disk.db, reader |-> disk.db]

\* tzinfo_endpoint(): with coordinates it needs no database.  An address that cannot be
\* looked up is an error, and so is any while there is no reader.
ByAddress ==
  LET w == Reload(worker, FALSE)
  IN  /\ worker' = w
      /\ given' = [given EXCEPT !.reader = w.reader, !.had = @ \/ w.reader # 0,
                                !.newest = IF disk.good /\ seconds - disk.since >= MmdbCheckInterval
                                           THEN disk.db ELSE 0]
      /\ UNCHANGED <<disk, seconds>>

\* special_endpoint(), asked for TAI
Tai ==
  /\ TableUsable(seconds)
  /\ given' = [given EXCEPT !.tai = TaiOffset(seconds), !.until = ValidUntil(seconds)]
  /\ UNCHANGED <<disk, seconds, worker>>

\* ready_endpoint(), geoip_ready()
Ready ==
  /\ worker' = Reload(worker, FALSE)
  /\ UNCHANGED <<disk, seconds, given>>

-----------------------------------------------------------------------------
\* A database is installed, some of them unusable, or is gone.
InstallDb ==
  /\ \E good \in BOOLEAN, db \in {0, disk.installed + 1} :
       /\ db <= Databases /\ (db = 0 => ~good)
       /\ disk' = [disk EXCEPT !.db = db, !.good = good, !.since = seconds,
                               !.installed = IF db = 0 THEN @ ELSE db]
  /\ UNCHANGED <<seconds, worker, given>>

\* tzdata is updated.
InstallTable ==
  /\ disk.tables < MaxTables
  /\ disk' = [disk EXCEPT !.table = TableOf(seconds), !.tables = @ + 1]
  /\ UNCHANGED <<seconds, worker, given>>

SecondPasses ==
  /\ seconds < LastSecond /\ seconds' = seconds + 1
  /\ UNCHANGED <<disk, worker, given>>

NoWorker == [reader |-> 0, signature |-> 0, checked |-> 0]
NothingGiven == [reader |-> 0, had |-> FALSE, newest |-> 0, tai |-> 0, until |-> 0]

\* TzInfoService(): the database is looked at once.
WorkerStarts ==
  /\ worker' = Reload(NoWorker, TRUE)
  /\ given' = [NothingGiven EXCEPT !.tai = given.tai, !.until = given.until]
  /\ UNCHANGED <<disk, seconds>>

ServiceInit ==
  /\ disk = [db |-> 0, good |-> FALSE, since |-> 0, installed |-> 0,
             table |-> [known |-> {}, expires |-> 0], tables |-> 0]
  /\ seconds = 0 /\ worker = NoWorker /\ given = NothingGiven

ServiceNext ==
  \/ ByAddress \/ Tai \/ Ready \/ InstallDb \/ InstallTable \/ SecondPasses \/ WorkerStarts

ServiceSpec == ServiceInit /\ [][ServiceNext]_serviceVars

-----------------------------------------------------------------------------
\* Properties

\* "Open a newly installed MMDB without disrupting a known-good reader": whatever was
\* installed, broken or removed meanwhile, addresses are never answered without a
\* database once they have been with one, and a good database that has been there for
\* the check interval is the one used (_reload_geoip_if_changed).
ReaderIsKept ==
  /\ given.had => given.reader # 0
  /\ given.newest # 0 => given.reader = given.newest

\* A TAI answer may be used until its valid_until, with any table replaced or left to
\* expire meanwhile, and is right (build_special_response: "only TAI's validity is
\* bounded by its next change or its expiry").
TaiUntilValid == seconds < given.until => given.tai = TaiAt(seconds)

\* Files replaced under the service do it no harm (tzinfo_service.py).
ServiceSound == ReaderIsKept /\ TaiUntilValid
=============================================================================
