------------------------------- MODULE MCLink -------------------------------
(***************************************************************************)
(* The view leaves out what is not read again before it is next assigned:  *)
(* the revision an ESP knows that is not valid or is about to be told, the *)
(* result of a save nobody waits for, the revision in an answer to         *)
(* anything but a write.  Versions are told apart only by whether they are *)
(* the one that runs now, one of before the last restart, or neither.      *)
(***************************************************************************)
EXTENDS SettingsLink

Age(v) == IF v = pic.version THEN "NOW" ELSE IF v < pic.era THEN "BEFORE" ELSE "SINCE"

PicSeen ==
  <<pic.body, pic.revision, pic.kept, pic.sml, pic.saving, pic.version, pic.answer,
    pic.answer # 0 /\ pic.failed, pic.since,
    IF pic.sent # <<>> /\ Head(pic.sent) = pic.revision THEN pic.sent ELSE <<>>>>

EspSeen ==
  <<esp.valid, esp.writing, esp.waiting, Range(esp.pending),
    IF esp.valid THEN esp.body ELSE Default,
    IF esp.valid /\ ~esp.writing THEN <<esp.revision, Age(esp.base)>> ELSE <<>>>>

WriteSeen(f) ==
  IF f.command = "WRITE" THEN <<f.token, f.body, f.revision, Age(f.base)>>
  ELSE <<f.token, f.command>>

FrameSeen(f) ==
  CASE f.kind = "STAT" -> <<f.body, f.revision, Age(f.version)>>
    [] OTHER -> <<f.token, f.result,
                  IF [token |-> f.token, command |-> "WRITE"] \in Range(esp.pending)
                  THEN <<f.revision, Age(f.version)>> ELSE <<>>>>

LinkView ==
  <<PicSeen, menu.editing, menu.changed, EspSeen, [i \in DOMAIN toPic |-> WriteSeen(toPic[i])],
    [i \in DOMAIN toEsp |-> FrameSeen(toEsp[i])], restarts>>
=============================================================================
