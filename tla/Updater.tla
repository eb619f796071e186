------------------------------ MODULE Updater ------------------------------
(***************************************************************************)
(* The ESP's own updates, esp_src/src/net/updater.cpp.  A check, by the    *)
(* console or once a day by itself, fetches a manifest; its first profile  *)
(* for this device with a later version (or, forced, any other) is written *)
(* to the other partition, from which the ESP then starts.  The loop waits *)
(* for all of it; the power may go at any time.                            *)
(*                                                                         *)
(* A version is its numbers, an image a number of chunks, a day DayHours   *)
(* hours.  A profile is of this device or of another.                      *)
(***************************************************************************)
EXTENDS Integers, Sequences

CONSTANTS Versions,      \* sequences of numbers
          FirstVersion,  \* what runs to begin with
          MaxProfiles,   \* bound on the profiles of a manifest
          ImageChunks,   \* chunks of an image
          DayHours, LastHour,   \* hours of local time, the last a bound
          AutoHour,      \* updater.flags.auto_time
          MaxCuts        \* bound on the power cuts

ASSUME UpdaterAssumption ==
  /\ Versions \subseteq Seq(Nat) /\ FirstVersion \in Versions /\ MaxProfiles \in Nat
  /\ ImageChunks \in Nat \ {0} /\ DayHours \in Nat \ {0} /\ AutoHour \in 0 .. DayHours - 1
  /\ LastHour \in Nat /\ MaxCuts \in Nat

VARIABLES hour,      \* of local time, since some midnight
          upd,       \* the request under way: its phase, action, image
          sched,     \* day_known, checked_day, available
          images,    \* the image that runs and the one that the next start runs
          cuts,
          checks     \* history: the automatic checks begun in this hour

updaterVars == <<hour, upd, sched, images, cuts, checks>>

UpdaterIdle == [phase |-> "IDLE", action |-> "CHECK", any |-> FALSE, auto |-> FALSE,
         version |-> FirstVersion, offset |-> 0]
Actions == {"CHECK", "INSTALL", "INSTALL_BOOT"}

Profile == [mine : BOOLEAN, version : Versions]
Manifests == UNION {[1 .. n -> Profile] : n \in 0 .. MaxProfiles}

-----------------------------------------------------------------------------
\* compare_versions(): number by number, one that is missing as 0.
VersionPart(v, k) == IF k \in DOMAIN v THEN v[k] ELSE 0

LaterAnywhere(v, w) ==    \* mutant: any number that is higher
  \E k \in DOMAIN v : VersionPart(v, k) > VersionPart(w, k)

NewerVersion(v, w) ==
  \E k \in DOMAIN v :
    /\ VersionPart(v, k) > VersionPart(w, k)
    /\ \A j \in 1 .. k - 1 : VersionPart(v, j) = VersionPart(w, j)

\* check_manifest(): the first profile that is the update, if any is.  Forced,
\* it need only differ from 0.0.0.
Offered(profiles, any) ==
  LET current == IF any THEN <<0, 0, 0>> ELSE images.runs.version
      fit     == {k \in DOMAIN profiles :
                    profiles[k].mine /\ NewerVersion(profiles[k].version, current)}
  IN  {profiles[k].version : k \in {f \in fit : \A g \in fit : f <= g}}

-----------------------------------------------------------------------------
\* request()
Begin(action, any, auto) ==
  upd' = [UpdaterIdle EXCEPT !.phase = "MANIFEST", !.action = action, !.any = any, !.auto = auto]

\* updater_check(), updater_pull(), updater_force()
Console ==
  /\ upd.phase = "IDLE"
  /\ \E action \in Actions : Begin(action, action = "INSTALL_BOOT", FALSE)
  /\ UNCHANGED <<hour, sched, images, cuts, checks>>

\* updater_service(): within the update hour of a start, today is skipped: it may
\* have been the update.
Started(at) ==
  IF sched.dayKnown THEN sched
  ELSE [sched EXCEPT !.dayKnown = TRUE,
                     !.checkedDay = IF at % DayHours = AutoHour THEN at \div DayHours
                                    ELSE at \div DayHours - 1]

UpdaterService ==
  LET s   == Started(hour)
      due == s.checkedDay # hour \div DayHours /\ hour % DayHours = AutoHour
  IN  /\ upd.phase = "IDLE"
      /\ IF due
         THEN /\ Begin("CHECK", FALSE, TRUE)
              /\ sched' = [s EXCEPT !.checkedDay = hour \div DayHours]
              /\ checks' = IF checks < 2 THEN checks + 1 ELSE checks
         ELSE UNCHANGED <<upd, checks>> /\ sched' = s
      /\ UNCHANGED <<hour, images, cuts>>

\* Back in request() with a result; an automatic check that found one goes on.
Ends(found) ==
  /\ sched' = [sched EXCEPT !.available = found /\ upd.action = "CHECK"]
  /\ IF found /\ upd.action = "CHECK" /\ upd.auto
     THEN Begin("INSTALL_BOOT", FALSE, FALSE) ELSE upd' = UpdaterIdle

\* check_manifest(): no connection, a bad status or bad JSON are a failure.
CheckManifest ==
  /\ upd.phase = "MANIFEST"
  /\ \/ Ends(FALSE)
     \/ \E profiles \in Manifests :
          LET offer == Offered(profiles, upd.any)
          IN  IF offer = {} \/ upd.action = "CHECK" THEN Ends(offer # {})
              ELSE /\ upd' = [upd EXCEPT !.phase = "WRITING", !.version = CHOOSE v \in offer : TRUE]
                   /\ UNCHANGED sched
  /\ UNCHANGED <<hour, images, cuts, checks>>

\* install(): a chunk, or the loop is left: closed, idle for DOWNLOAD_IDLE_MS, or
\* not taken by the flash.
WriteImage ==
  /\ upd.phase = "WRITING" /\ upd.offset < ImageChunks
  /\ upd' \in {[upd EXCEPT !.offset = @ + 1], [upd EXCEPT !.phase = "LEFT"]}
  /\ UNCHANGED <<hour, sched, images, cuts, checks>>

\* ESP.restart(), or the power comes back: what was known of the day is lost.
Restarts(image) ==
  /\ images' = [runs |-> image, next |-> image]
  /\ upd' = UpdaterIdle
  /\ sched' = [dayKnown |-> FALSE, checkedDay |-> 0, available |-> FALSE]

\* ... and after it: with all of it written and verified, Update.end() makes it the
\* image to start.
Finished(s) == s.offset = ImageChunks

Image == [version |-> upd.version, whole |-> upd.offset = ImageChunks]

Install ==
  /\ upd.phase = "LEFT" \/ (upd.phase = "WRITING" /\ upd.offset = ImageChunks)
  /\ \/ Ends(FALSE) /\ UNCHANGED images
     \/ Finished(upd) /\ upd.action = "INSTALL_BOOT" /\ Restarts(Image)
     \/ /\ Finished(upd) /\ upd.action = "INSTALL"
        /\ Ends(FALSE) /\ images' = [images EXCEPT !.next = Image]
  /\ UNCHANGED <<hour, cuts, checks>>

UpdaterPowerCut ==
  /\ cuts < MaxCuts /\ cuts' = cuts + 1
  /\ Restarts(images.next)
  /\ UNCHANGED <<hour, checks>>

\* An hour ends, requests under way or not.
HourPasses ==
  /\ hour < LastHour /\ hour' = hour + 1 /\ checks' = 0
  /\ UNCHANGED <<upd, sched, images, cuts>>

UpdaterInit ==
  /\ hour = DayHours /\ upd = UpdaterIdle /\ cuts = 0 /\ checks = 0
  /\ sched = [dayKnown |-> FALSE, checkedDay |-> 0, available |-> FALSE]
  /\ images = LET first == [version |-> FirstVersion, whole |-> TRUE]
             IN  [runs |-> first, next |-> first]

UpdaterNext ==
  Console \/ UpdaterService \/ CheckManifest \/ WriteImage \/ Install \/ UpdaterPowerCut \/ HourPasses

UpdaterSpec == UpdaterInit /\ [][UpdaterNext]_updaterVars

-----------------------------------------------------------------------------
\* Properties

\* Whatever the download comes to and whenever the power goes, what runs, and what
\* the next start runs, is a whole image (install).
OnlyWholeImages == images.runs.whole /\ images.next.whole

\* The ESP does not update itself again and again: one automatic check at most in
\* the hour for it, across the restart that an update ends with and any other
\* (updater_service: "Started inside the update hour: skip today").
OneCheckAnHour == checks <= 1

\* Only a version that is later than the one that runs is ever installed, unless
\* forced; in particular never the same one again (check_manifest).
UpdatesForward ==
  images'.next # images.next /\ ~upd.any =>
    /\ NewerVersion(images'.next.version, images.runs.version)
    /\ ~NewerVersion(images.runs.version, images'.next.version)

\* At every point of an update the ESP can start, and does not start over; and
\* what it is to start is only ever replaced by what is later (updater.cpp).
UpdatesHold == [](OnlyWholeImages /\ OneCheckAnHour) /\ [][UpdatesForward]_updaterVars
=============================================================================
