------------------------------- MODULE Frames -------------------------------
(***************************************************************************)
(* Frames out of a stream of bytes: the SML parser that both processors    *)
(* share, common/sml.c, with the stream around it that shows the text in   *)
(* between (esp_src/src/pic/sml_stream.cpp), and the parser of the GNSS    *)
(* receiver's UBX frames, dspic_src/gnss/ubx_parser.c.  Both read the same *)
(* line here: frames sent whole, noise that may look like a header, bytes  *)
(* lost or changed, bytes the receiver lost, and silence.                  *)
(*                                                                         *)
(* A frame is two marks, a kind (class and message id), a length of one    *)
(* byte, the payload and a check.  The check is ideal: it is right of a    *)
(* frame that was sent and of nothing else.                                *)
(***************************************************************************)
EXTENDS Integers, Sequences

CONSTANTS Symbols,      \* what noise may be: numbers, and the two marks
          Mark1, Mark2, \* SML_MAGIC_*, UBX_SYNC_CHAR_*
          CheckByte,    \* the symbol a check happens to be
          FramesSent,   \* the frames there are, [kind, payload]
          Expected,     \* kind -> the one length of a message expected (UBX)
          MaxPayload,   \* SML_MAX_PAYLOAD_BYTES, UBX_PARSER_MAX_PAYLOAD
          MaxFrames,    \* bound: frames sent
          MaxNoise,     \* bound: bytes of noise, and changed or lost
          MaxDamage,    \* bound: of these, changed or lost
          MaxSilences   \* bound: times the line falls silent

ASSUME FrameAssumption ==
  /\ {Mark1, Mark2, CheckByte} \subseteq Symbols /\ Mark1 # Mark2
  /\ \A k \in DOMAIN Expected : Expected[k] \in 0 .. MaxPayload
  /\ \A f \in FramesSent :
       /\ Len(f.payload) <= MaxPayload
       /\ f.kind \in DOMAIN Expected => Len(f.payload) = Expected[f.kind]
  /\ {MaxFrames, MaxNoise, MaxDamage, MaxSilences} \subseteq Nat

VARIABLES sent,     \* the frames sent so far, [kind, payload]
          sending,  \* the bytes of the last of them that are still to come
          harmed,   \* the frames that did not arrive as they were sent
          cut,      \* those that were in the SML buffer when it timed out
          sml,      \* the SML parser, the mirror of its buffer, and its sinks: the frames
                    \* handed on, and those of which bytes were shown as text
          ubx,      \* the UBX parser and its handler
          trouble   \* the noise, the damage and the silences left

frameVars == <<sent, sending, harmed, cut, sml, ubx, trouble>>

-----------------------------------------------------------------------------
\* A byte, with the frame it is of (0: none) and its place in it.

Byte(symbol, of, at) == [symbol |-> symbol, of |-> of, at |-> at]

HeaderLength == 4
Total(length) == HeaderLength + length + 1

\* sml_frame()
FrameBytes(frame, n) ==
  LET symbols == <<Mark1, Mark2, frame.kind, Len(frame.payload)>> \o frame.payload \o <<CheckByte>>
  IN  [j \in 1 .. Len(symbols) |-> Byte(symbols[j], n, j)]

\* sml_crc(), ubx_checksum()
CrcMatches(bytes, total) ==
  /\ bytes[1].of # 0
  /\ \A j \in 1 .. total : bytes[j].of = bytes[1].of /\ bytes[j].at = j
  /\ total = Total(Len(sent[bytes[1].of].payload))

\* The frames that bytes are of.
Frames(bytes) == {bytes[j].of : j \in 1 .. Len(bytes)} \ {0}

LengthOf(bytes) == bytes[4].symbol
IsLength(symbol) == symbol \in 0 .. MaxPayload

\* find_rule(), length_matches(), header_is_plausible()
LengthMatches(rules, kind, length) == kind \in DOMAIN rules => length = rules[kind]

\* Whether a frame may still start here: the marks as far as they have come,
\* and a header that is plausible.
MayStart(bytes, rules) ==
  /\ bytes[1].symbol = Mark1
  /\ Len(bytes) >= 2 => bytes[2].symbol = Mark2
  /\ Len(bytes) >= HeaderLength =>
       IsLength(LengthOf(bytes)) /\ LengthMatches(rules, bytes[3].symbol, LengthOf(bytes))

Complete(bytes) == Len(bytes) >= HeaderLength /\ Len(bytes) >= Total(LengthOf(bytes))

\* scan(), process_frames(): one byte at a time is dropped until a frame could
\* start; a frame that checks is taken whole, one that does not moves on by a
\* single byte.  flush: what is incomplete will stay so.
Scanned(bytes, rules, flush) ==
  LET at[n \in 0 .. Len(bytes)] ==
        LET rest == SubSeq(bytes, n + 1, Len(bytes))
        IN  IF rest = <<>> THEN [frames |-> <<>>, noise |-> <<>>, rest |-> <<>>]
            ELSE IF MayStart(rest, rules) /\ Complete(rest) /\ CrcMatches(rest, Total(LengthOf(rest)))
            THEN [at[n + Total(LengthOf(rest))] EXCEPT !.frames = <<rest[1].of>> \o @]
            ELSE IF MayStart(rest, rules) /\ ~Complete(rest) /\ ~flush
            THEN [frames |-> <<>>, noise |-> <<>>, rest |-> rest]
            ELSE [at[n + 1] EXCEPT !.noise = <<rest[1]>> \o @]
  IN  at[0]

-----------------------------------------------------------------------------
\* SML: any kind is framed, at any length.

NoRules == [kind \in {} |-> 0]

\* sml_stream_push(): the mirror loses, as text, what the parser counted as
\* noise, and silently what it made a frame of.
SmlPush(s, byte) ==
  LET r == Scanned(Append(s.buffer, byte), NoRules, FALSE)
      taken == Len(s.buffer) + 1 - Len(r.rest) - Len(r.noise)
      mirror == Append(s.mirror, byte)
  IN  [s EXCEPT !.buffer = r.rest, !.frames = @ \o r.frames,
                !.text = @ \cup Frames(r.noise),
                !.mirror = SubSeq(mirror, Len(r.noise) + taken + 1, Len(mirror))]

\* sml_parser_timeout() and sml_stream_timeout(): what is buffered is dropped.
SmlTimeout(s) == [s EXCEPT !.buffer = <<>>, !.mirror = <<>>, !.text = @ \cup Frames(s.mirror)]

-----------------------------------------------------------------------------
\* UBX: a message that is expected has the length it must have.

IsExpected(n) == sent[n].kind \in DOMAIN Expected

UbxProcess(u, bytes, flush) ==
  LET r == Scanned(bytes, Expected, flush)
  IN  [u EXCEPT !.buffer = r.rest, !.frames = @ \o SelectSeq(r.frames, IsExpected),
                !.unexpected = @ + Len(r.frames) - Len(SelectSeq(r.frames, IsExpected))]

UbxDropped(u) == [u EXCEPT !.buffer = <<>>]   \* mutant: the timeout does not look again

\* ubx_parser_feed(), ubx_parser_check_timeout(), ubx_parser_discontinuity()
UbxFeed(u, byte) == UbxProcess(u, Append(u.buffer, byte), FALSE)
UbxTimeout(u) == UbxProcess(u, u.buffer, TRUE)
UbxReset(u) == [u EXCEPT !.buffer = <<>>]

-----------------------------------------------------------------------------
\* The line

Receive(byte) == sml' = SmlPush(sml, byte) /\ ubx' = UbxFeed(ubx, byte)

\* A frame is sent once the one before it is out.
SendFrame ==
  /\ sending = <<>> /\ Len(sent) < MaxFrames
  /\ \E frame \in FramesSent :
       sent' = Append(sent, frame) /\ sending' = FrameBytes(frame, Len(sent) + 1)
  /\ UNCHANGED <<harmed, cut, sml, ubx, trouble>>

SendByte ==
  /\ sending # <<>>
  /\ Receive(Head(sending)) /\ sending' = Tail(sending)
  /\ UNCHANGED <<sent, harmed, cut, trouble>>

\* A byte that no one sent.
Noise ==
  /\ trouble.noise > 0 /\ trouble' = [trouble EXCEPT !.noise = @ - 1]
  /\ \E symbol \in Symbols : Receive(Byte(symbol, 0, 0))
  /\ harmed' = IF sending # <<>> /\ Head(sending).at > 1 THEN harmed \cup {Len(sent)} ELSE harmed
  /\ UNCHANGED <<sent, sending, cut>>

Damages ==
  /\ trouble.noise > 0 /\ trouble.damage > 0
  /\ trouble' = [trouble EXCEPT !.noise = @ - 1, !.damage = @ - 1]

\* The next byte of a frame comes as another.
ByteChanged ==
  /\ Damages
  /\ sending # <<>>
  /\ \E symbol \in Symbols : Receive(Byte(symbol, 0, 0))
  /\ sending' = Tail(sending) /\ harmed' = harmed \cup {Len(sent)}
  /\ UNCHANGED <<sent, cut>>

ByteLost ==
  /\ Damages
  /\ sending # <<>>
  /\ sending' = Tail(sending) /\ harmed' = harmed \cup {Len(sent)}
  /\ UNCHANGED <<sent, cut, sml, ubx>>

\* The UART of the GNSS receiver has lost bytes: what is buffered is given up
\* (ubx_parser_service), and with it the frames it is of.
Discontinuity ==
  /\ Damages
  /\ ubx' = UbxReset(ubx)
  /\ harmed' = harmed \cup Frames(ubx.buffer)
                      \cup IF sending = <<>> THEN {} ELSE {Len(sent)}
  /\ UNCHANGED <<sent, sending, cut, sml>>

\* Long enough between two frames for both parsers' timeouts.
Silence ==
  /\ sending = <<>> /\ trouble.silences > 0
  /\ trouble' = [trouble EXCEPT !.silences = @ - 1]
  /\ sml' = SmlTimeout(sml) /\ ubx' = UbxTimeout(ubx)
  /\ cut' = cut \cup Frames(sml.buffer)
  /\ UNCHANGED <<sent, sending, harmed>>

-----------------------------------------------------------------------------

\* sml_parser_init(), sml_stream_init(), ubx_parser_init()
FramesInit ==
  /\ sent = <<>> /\ sending = <<>> /\ harmed = {} /\ cut = {}
  /\ sml = [buffer |-> <<>>, mirror |-> <<>>, frames |-> <<>>, text |-> {}]
  /\ ubx = [buffer |-> <<>>, frames |-> <<>>, unexpected |-> 0]
  /\ trouble = [noise |-> MaxNoise, damage |-> MaxDamage, silences |-> MaxSilences]

FramesNext ==
  \/ SendFrame \/ SendByte \/ Silence
  \/ Noise \/ ByteChanged \/ ByteLost \/ Discontinuity

FramesSpec == FramesInit /\ [][FramesNext]_frameVars

-----------------------------------------------------------------------------
\* Properties

SetOf(seq) == {seq[j] : j \in 1 .. Len(seq)}
Rising(seq) == \A j \in 1 .. Len(seq) - 1 : seq[j] < seq[j + 1]

\* The frames that have come whole.
Arrived == (1 .. Len(sent)) \ (harmed \cup IF sending = <<>> THEN {} ELSE {Len(sent)})

\* What is delivered was sent, once and in order (sml.h, ubx_parser.h), and
\* the buffer never holds more than a frame.
DeliveredInOrder ==
  /\ Rising(sml.frames) /\ Rising(ubx.frames)
  /\ Len(sml.buffer) < Total(MaxPayload) /\ Len(ubx.buffer) < Total(MaxPayload)

\* "A stray B5 62 in noise can delay the frames behind it but never lose them"
\* (ubx_parser.h): once nothing is buffered, every frame that came whole and
\* is of a message in use has been handed on.
UbxLosesNothing ==
  ubx.buffer = <<>> => \A n \in Arrived : IsExpected(n) => n \in SetOf(ubx.frames)

\* Of SML only a silence can take a frame that came whole, and only one that
\* was held behind a header: "a real frame that began inside a false header is
\* not lost" (sml.h).
SmlLosesNothing ==
  sml.buffer = <<>> => \A n \in Arrived \ cut : n \in SetOf(sml.frames)

\* A byte is of a frame delivered, or shown as text, or still held, and never
\* two of these (sml_stream.h): no text is lost and no frame is printed.
TextIsNoise ==
  /\ sml.mirror = sml.buffer
  /\ sml.text \cap SetOf(sml.frames) = {}

\* What is sent whole comes out whole, and what is text stays text (sml.c,
\* sml_stream.cpp, ubx_parser.c).
FramesSound == DeliveredInOrder /\ UbxLosesNothing /\ SmlLosesNothing /\ TextIsNoise
=============================================================================
