---------------------------- MODULE SettingsLink ----------------------------
(***************************************************************************)
(* The settings, which the menu changes on the dsPIC and the console from  *)
(* the ESP: dspic_src/settings/settings.c with menu/menu.c and             *)
(* esp/esp_link.c on one side, esp_src/src/pic/pic_link.cpp on the other,  *)
(* over a serial line that keeps the order of frames but may lose any.     *)
(* The settings are written whole, and a write from the ESP names the      *)
(* revision it was built on.  Either side may restart: the dsPIC then has  *)
(* what was last saved, with the revision of that time.                    *)
(*                                                                         *)
(* Of the flash the module takes what store.h promises (KeyValue): a write *)
(* takes effect as a whole or fails.  A body is a whole set of settings;   *)
(* bodies that settings_check() refuses are not sent by the console.       *)
(***************************************************************************)
EXTENDS Integers, Sequences, SequencesExt, FiniteSetsExt

CONSTANTS Bodies,       \* the settings there may be
          Default,      \* settings_defaults()
          NoRecord,     \* nothing has been saved yet
          PendingMax,   \* PENDING_MAX
          LastToken,    \* bound: requests of the ESP that are still about
          LastVersion,  \* bound: changes of the settings, and restarts
          MaxRestarts,  \* bound: restarts of either side
          MaxFrames     \* bound: frames on the line, each way

ASSUME LinkAssumption ==
  /\ Default \in Bodies /\ NoRecord \notin [body : Bodies, revision : Nat]
  /\ PendingMax \in Nat \ {0} /\ LastToken \in Nat \ {0} /\ LastVersion \in Nat
  /\ MaxRestarts \in Nat /\ MaxFrames \in Nat \ {0, 1}

VARIABLES pic,        \* settings.c, esp_link.c
          menu,       \* menu.c
          esp,        \* pic_link.cpp
          toPic, toEsp,   \* the frames on the line
          restarts

linkVars == <<pic, menu, esp, toPic, toEsp, restarts>>

\* version is a history: it names each body the dsPIC has ever run, across
\* restarts, and era the one it last started with.  since: the bodies run
\* since the save that is to be answered was asked for.
Commands == {"ASK", "SAVE", "DEFAULTS", "RESET", "WRITE"}

Pic == [body : Bodies, revision : Nat, kept : [body : Bodies, revision : Nat] \cup {NoRecord},
        sml : BOOLEAN, sent : {<<>>} \cup (Nat \X BOOLEAN \X BOOLEAN), saving : BOOLEAN, failed : BOOLEAN,
        answer : Nat, version : Nat, era : Nat, since : SUBSET Bodies]

Menu == [editing : BOOLEAN, changed : BOOLEAN, base : Nat]

Esp == [valid : BOOLEAN, revision : Nat, body : Bodies, writing : BOOLEAN,
        waiting : BOOLEAN, base : Nat, pending : Seq([token : Nat, command : Commands])]

-----------------------------------------------------------------------------
\* settings.c

StoredBody(p) == IF p.kept = NoRecord THEN Default ELSE p.kept.body

\* settings_flags()
Flags(p) == <<p.body # StoredBody(p), p.body = Default>>

\* settings_write(): one that changes nothing has no revision of its own.
SettingsWrite(p, body) ==
  IF body = p.body THEN p
  ELSE [p EXCEPT !.body = body, !.revision = @ + 1, !.version = @ + 1,
                 !.since = IF p.answer = 0 THEN {} ELSE @ \cup {body}]

SettingsSave(p) == [p EXCEPT !.saving = TRUE]

\* settings_init() and esp_link_init(): the revision is that of the record.
Started(p) ==
  LET record == IF p.kept = NoRecord THEN [body |-> Default, revision |-> 0] ELSE p.kept
  IN  [body |-> record.body, revision |-> record.revision, kept |-> p.kept,
       sml |-> FALSE, sent |-> <<>>, saving |-> FALSE, failed |-> FALSE, answer |-> 0,
       version |-> p.version + 1, era |-> p.version + 1, since |-> {}]

NoMenu == [editing |-> FALSE, changed |-> FALSE, base |-> 0]

\* save_settings(), from settings_service(): the store takes the record or not.
SettingsService ==
  LET asStored == pic.kept # NoRecord /\ ~Flags(pic)[1]
  IN  /\ pic.saving
      /\ \E ok \in IF asStored THEN {TRUE} ELSE BOOLEAN :
           pic' = [pic EXCEPT
             !.saving = FALSE, !.failed = ~ok,
             !.kept = IF asStored \/ ~ok THEN @
                      ELSE [body |-> pic.body, revision |-> pic.revision]]
      /\ UNCHANGED <<menu, esp, toPic, toEsp, restarts>>

-----------------------------------------------------------------------------
\* menu.c

\* start_editing() takes the settings as they are; what is confirmed, some
\* presses later, is written whole.
MenuEdits ==
  /\ ~menu.editing
  /\ menu' = [menu EXCEPT !.editing = TRUE, !.base = pic.version]
  /\ UNCHANGED <<pic, esp, toPic, toEsp, restarts>>

MenuConfirms ==
  /\ menu.editing /\ pic.version < LastVersion
  /\ \E body \in Bodies : pic' = SettingsWrite(pic, body)
  /\ menu' = [editing |-> FALSE, base |-> 0,
              changed |-> menu.changed \/ pic'.revision # pic.revision]
  /\ UNCHANGED <<esp, toPic, toEsp, restarts>>

\* close_menu(), by hand or by the timeout.
MenuCloses ==
  /\ menu.editing \/ menu.changed
  /\ pic' = IF menu.changed THEN SettingsSave(pic) ELSE pic
  /\ menu' = NoMenu
  /\ UNCHANGED <<esp, toPic, toEsp, restarts>>

\* reset_pic(), an item of the menu
MenuResets ==
  /\ menu.editing /\ pic.version < LastVersion
  /\ pic' = SettingsSave(SettingsWrite(pic, Default))
  /\ menu' = NoMenu
  /\ UNCHANGED <<esp, toPic, toEsp, restarts>>

-----------------------------------------------------------------------------
\* esp_link.c

Answer(p, token, result) ==
  [kind |-> "ANSWER", token |-> token, result |-> result,
   revision |-> p.revision, version |-> p.version]

StatSettings(p) ==
  [kind |-> "STAT", revision |-> p.revision, body |-> p.body, version |-> p.version]

StatSent(p) == [p EXCEPT !.sent = <<p.revision>> \o Flags(p)]

\* esp_link_epoch(), as far as the settings go.
LinkEpoch ==
  /\ pic.sml /\ pic.sent # <<pic.revision>> \o Flags(pic)
  /\ Len(toEsp) < MaxFrames
  /\ pic' = StatSent(pic)
  /\ toEsp' = Append(toEsp, StatSettings(pic))
  /\ UNCHANGED <<menu, esp, toPic, restarts>>

\* handle_settings()
HandleUnchecked(p, frame) ==    \* mutant: whatever it was built on
  LET done == SettingsWrite(p, frame.body)
  IN  [pic |-> done, frames |-> <<Answer(done, frame.token, "ACK")>>]

HandleSettings(p, frame) ==
  LET done == SettingsWrite(p, frame.body)
  IN  IF frame.revision # p.revision
      THEN [pic |-> p, frames |-> <<Answer(p, frame.token, "NACK")>>]
      ELSE [pic |-> done, frames |-> <<Answer(done, frame.token, "ACK")>>]

\* handle_command(), run_command() and start_save(): one save at a time.  SHOW,
\* SET_RTC and RESYNC touch no settings; the debug mask, which SET_DEBUG changes,
\* is not in what the two sides compare.
HandleCommand(p, frame) ==
  CASE frame.command = "ASK" ->
         [pic |-> StatSent(p), frames |-> <<StatSettings(p), Answer(p, frame.token, "ACK")>>]
    [] frame.command = "SAVE" /\ p.answer # 0 ->
         [pic |-> p, frames |-> <<Answer(p, frame.token, "NACK")>>]
    [] frame.command = "SAVE" /\ p.answer = 0 ->
         [pic |-> [SettingsSave(p) EXCEPT !.answer = frame.token, !.since = {p.body}],
          frames |-> <<Answer(p, frame.token, "ACCEPTED")>>]
    [] frame.command = "DEFAULTS" ->
         LET done == SettingsWrite(p, Default)
         IN  [pic |-> done, frames |-> <<Answer(done, frame.token, "ACK")>>]
    [] frame.command = "RESET" ->
         [pic |-> Started(p), frames |-> <<Answer(p, frame.token, "ACK")>>]

\* handle_frame(): any frame puts the link in SML mode.
PicReceive ==
  /\ toPic # <<>> /\ Len(toEsp) + 1 < MaxFrames
  /\ LET frame == Head(toPic)
         heard == [pic EXCEPT !.sml = TRUE]
         done  == IF frame.command = "WRITE" THEN HandleSettings(heard, frame)
                  ELSE HandleCommand(heard, frame)
     IN  /\ pic' = done.pic
         /\ menu' = IF frame.command = "RESET" THEN NoMenu ELSE menu
         /\ toEsp' = toEsp \o done.frames
         /\ toPic' = Tail(toPic)
         /\ restarts' = IF frame.command = "RESET" THEN restarts + 1 ELSE restarts
  /\ UNCHANGED esp

\* The end of esp_link_service(): the save is done, one way or the other.
AnswerEarly ==    \* mutant: the save is not waited for
  /\ pic.answer # 0
  /\ Len(toEsp) < MaxFrames
  /\ toEsp' = Append(toEsp, Answer(pic, pic.answer, IF pic.failed THEN "NACK" ELSE "ACK"))
  /\ pic' = [pic EXCEPT !.answer = 0, !.since = {}]
  /\ UNCHANGED <<menu, esp, toPic, restarts>>

AnswerSave ==
  /\ pic.answer # 0 /\ ~pic.saving
  /\ Len(toEsp) < MaxFrames
  /\ toEsp' = Append(toEsp, Answer(pic, pic.answer, IF pic.failed THEN "NACK" ELSE "ACK"))
  /\ pic' = [pic EXCEPT !.answer = 0, !.since = {}]
  /\ UNCHANGED <<menu, esp, toPic, restarts>>

-----------------------------------------------------------------------------
\* pic_link.cpp

\* next_token: one that nothing still holds, there being 65535 of them.
UnderWay(token) ==
  \/ \E i \in DOMAIN toPic : toPic[i].token = token
  \/ \E i \in DOMAIN toEsp : toEsp[i].kind = "ANSWER" /\ toEsp[i].token = token

SlotOf(e, token) == {i \in DOMAIN e.pending : e.pending[i].token = token}

NextToken(e) ==
  Min({t \in 1 .. LastToken + 1 :
         ~UnderWay(t) /\ SlotOf(e, t) = {} /\ pic.answer # t})

\* take_slot(): when all are taken, the oldest is used again.
TakeSlot(e, command) ==
  [e EXCEPT !.pending = Append(IF Len(@) = PendingMax THEN Tail(@) ELSE @,
                               [token |-> NextToken(e), command |-> command])]

\* pic_link_request()
Request(e, command) ==
  [esp |-> TakeSlot(e, command),
   frames |-> <<[token |-> NextToken(e), command |-> command]>>]

\* send_settings()
SendSettings(e) ==
  [esp |-> [TakeSlot(e, "WRITE") EXCEPT !.writing = TRUE],
   frames |-> <<[token |-> NextToken(e), command |-> "WRITE", revision |-> e.revision,
                 body |-> e.body, base |-> e.base]>>]

\* ask_for_settings()
AskForSettings(e) == Request(e, "ASK")

\* pic_link_write_settings(), of a body that pic_link_settings() gave and the
\* console changed.
ConsoleChange(e, body) ==
  IF ~e.valid THEN AskForSettings(e)
  ELSE IF e.writing
  THEN [esp |-> [e EXCEPT !.body = body, !.waiting = TRUE], frames |-> <<>>]
  ELSE SendSettings([e EXCEPT !.body = body])

\* settings_answered(): by ACK, or by anything else or nothing at all.
SettingsAcked(e, answer) ==
  LET known == [e EXCEPT !.writing = FALSE, !.waiting = FALSE,
                         !.revision = answer.revision, !.base = answer.version]
  IN  IF e.waiting THEN SendSettings(known) ELSE [esp |-> known, frames |-> <<>>]

SettingsRefused(e) ==
  AskForSettings([e EXCEPT !.writing = FALSE, !.waiting = FALSE, !.valid = FALSE])

\* handle_response()
HandleResponse(e, answer) ==
  LET slot  == CHOOSE i \in SlotOf(e, answer.token) : TRUE
      freed == [e EXCEPT !.pending = RemoveAt(@, slot)]
  IN  IF SlotOf(e, answer.token) = {} \/ answer.result = "ACCEPTED"
      THEN [esp |-> e, frames |-> <<>>]
      ELSE IF e.pending[slot].command # "WRITE" THEN [esp |-> freed, frames |-> <<>>]
      ELSE IF answer.result = "ACK" THEN SettingsAcked(freed, answer)
      ELSE SettingsRefused(freed)

\* note_settings(): the answer to our own write comes first.
NoteWhileWriting(e, stat) ==    \* mutant: it is not waited for
  [e EXCEPT !.valid = TRUE, !.revision = stat.revision, !.body = stat.body,
            !.base = stat.version]

NoteSettings(e, stat) ==
  IF e.writing THEN e
  ELSE [e EXCEPT !.valid = TRUE, !.revision = stat.revision, !.body = stat.body,
                 !.base = stat.version]

\* The ESP does something, and sends what that gives.
EspDoes(done) ==
  /\ Len(toPic) + Len(done.frames) <= MaxFrames
  /\ \A i \in DOMAIN done.frames : done.frames[i].token <= LastToken
  /\ esp' = done.esp
  /\ toPic' = toPic \o done.frames
  /\ UNCHANGED <<pic, menu, restarts>>

EspReceive ==
  /\ toEsp # <<>>
  /\ LET frame == Head(toEsp)
     IN  IF frame.kind = "STAT"
         THEN EspDoes([esp |-> NoteSettings(esp, frame), frames |-> <<>>])
         ELSE EspDoes(HandleResponse(esp, frame))
  /\ toEsp' = Tail(toEsp)

ConsoleSettings ==
  /\ pic.version < LastVersion
  /\ \E body \in Bodies : EspDoes(ConsoleChange(esp, body))
  /\ UNCHANGED toEsp

ConsoleCommand ==
  /\ pic.version < LastVersion
  /\ \E command \in {"SAVE", "DEFAULTS", "RESET"} :
       /\ command = "RESET" => restarts < MaxRestarts
       /\ EspDoes(Request(esp, command))
  /\ UNCHANGED toEsp

\* expire_requests(): what was received has been handled by then, and the
\* timeout is longer than any answer but that of a save takes.
Expire(e, i) ==
  LET freed == [e EXCEPT !.pending = RemoveAt(@, i)]
  IN  IF e.pending[i].command = "WRITE" THEN SettingsRefused(freed)
      ELSE [esp |-> freed, frames |-> <<>>]

ExpireRequest ==
  /\ \E i \in DOMAIN esp.pending :
       ~UnderWay(esp.pending[i].token) /\ EspDoes(Expire(esp, i))
  /\ UNCHANGED toEsp

-----------------------------------------------------------------------------
\* The line, and restarts

\* A frame is lost on the way: when it would have arrived, the order being kept.
Lose ==
  \/ /\ toPic # <<>> /\ toPic' = Tail(toPic)
     /\ UNCHANGED <<pic, menu, esp, toEsp, restarts>>
  \/ /\ toEsp # <<>> /\ toEsp' = Tail(toEsp)
     /\ UNCHANGED <<pic, menu, esp, toPic, restarts>>

PicRestart ==
  /\ restarts < MaxRestarts /\ pic.version < LastVersion
  /\ pic' = Started(pic) /\ menu' = NoMenu
  /\ restarts' = restarts + 1
  /\ UNCHANGED <<esp, toPic, toEsp>>

\* pic_link_init(): the settings are asked for.
AskAtStart == <<[token |-> 1, command |-> "ASK"]>>

NewEsp ==
  [valid |-> FALSE, revision |-> 0, body |-> Default, writing |-> FALSE,
   waiting |-> FALSE, base |-> 0, pending |-> AskAtStart]

\* The ESP takes longer to start than the dsPIC to handle what was on the line
\* and to answer a save: the answers are lost.
EspRestart ==
  /\ restarts < MaxRestarts /\ toPic = <<>> /\ pic.answer = 0
  /\ esp' = NewEsp /\ toPic' = AskAtStart /\ toEsp' = <<>>
  /\ restarts' = restarts + 1
  /\ UNCHANGED <<pic, menu>>

-----------------------------------------------------------------------------
LinkInit ==
  /\ pic = [Started([kept |-> NoRecord, version |-> 0]) EXCEPT !.version = 0, !.era = 0]
  /\ menu = NoMenu
  /\ esp = NewEsp /\ toPic = AskAtStart /\ toEsp = <<>>
  /\ restarts = 0

PicNext ==
  \/ SettingsService \/ MenuEdits \/ MenuConfirms \/ MenuCloses \/ MenuResets
  \/ LinkEpoch \/ PicReceive \/ AnswerSave \/ PicRestart

EspNext ==
  \/ EspReceive \/ ConsoleSettings \/ ConsoleCommand \/ ExpireRequest \/ EspRestart

LinkNext == PicNext \/ EspNext \/ Lose

LinkSpec == LinkInit /\ [][LinkNext]_linkVars

-----------------------------------------------------------------------------
\* Properties

\* Every variable has its type, and there are never more requests waiting than
\* slots (take_slot, pic_link.cpp).
LinkTypeOK ==
  /\ pic \in Pic /\ menu \in Menu /\ esp \in Esp
  /\ Len(esp.pending) <= PendingMax

\* The settings are the ones that this frame has just written.
Applies(frame) ==
  /\ frame.command = "WRITE"
  /\ pic'.version # pic.version /\ pic'.era = pic.era /\ toPic' = Tail(toPic)

\* A write from the console is only ever applied to the settings it was built
\* on: whatever was lost, late, refused or asked again, no change from the menu
\* is overwritten unseen (handle_settings; SML_PROTOCOL.md: "so the ESP never
\* overwrites a change it has not seen").  One that was built before the dsPIC
\* restarted may meet its revision again by chance.
ConsoleHasSeen ==
  [][toPic # <<>> /\ Applies(Head(toPic)) =>
       Head(toPic).base = pic.version \/ Head(toPic).base < pic.era]_linkVars

\* What the console shows, and builds the next change on, is what the dsPIC
\* runs whenever the revisions say so: an answer that is lost, late or refused
\* never leaves it believing a change that was not made (settings_answered).
ViewAgrees ==
  /\ esp.valid /\ ~esp.writing /\ esp.revision = pic.revision /\ esp.base >= pic.era
  => esp.body = pic.body

\* A write is never waited for without a slot for its answer: it ends, by an
\* answer or by the timeout, and the settings are then known or asked for again
\* (settings_answered: "Anything else, or no answer, leaves what the PIC holds
\* unknown until it sends STAT-SETTINGS again, which is asked for").
WriteEnds ==
  esp.writing => \E i \in DOMAIN esp.pending : esp.pending[i].command = "WRITE"

\* What the console believes is so, or is on its way to be (settings_answered);
\* and the state keeps its type.
ConsoleInStep == LinkTypeOK /\ ViewAgrees /\ WriteEnds

\* A save that is answered ACK has been made: the flash holds settings that were
\* running when it was asked for or since, whatever the menu saved or changed
\* meanwhile (start_save, esp_link_service).
SaveMeansSaved ==
  [][pic.answer # 0 /\ pic'.answer = 0 /\ pic'.era = pic.era
       /\ Last(toEsp').result = "ACK"
     => pic.kept # NoRecord /\ pic.kept.body \in pic.since]_linkVars

\* Nor does the menu overwrite a change it has not seen (SML_PROTOCOL.md: "so a
\* change from the menu and one from the console cannot overwrite each other
\* unseen").
MenuHasSeen ==
  [][menu.editing /\ ~menu'.editing /\ menu'.changed /\ pic'.version # pic.version
     => menu.base = pic.version]_linkVars
=============================================================================
