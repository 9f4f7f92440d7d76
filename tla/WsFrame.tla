------------------------------- MODULE WsFrame -------------------------------
(***************************************************************************)
(* The frames of a websocket (websocket_handle.hpp): the header and the    *)
(* payload that are taken from what one read brought, and the header that  *)
(* is put before what is sent.                                             *)
(*                                                                         *)
(* What was read is a sequence of bytes in a buffer of zeros.              *)
(* An operator marked "Fault" is a wrong version of the one below it.      *)
(***************************************************************************)
EXTENDS Integers, Sequences, SequencesExt, Bitwise, Functions

Types == 0 :> "text" @@ 1 :> "text" @@ 2 :> "binary" @@ 8 :> "close" @@ 9 :> "ping" @@ 10 :> "pong"

At(buf, i) == IF i \in DOMAIN buf THEN buf[i] ELSE 0

\* Fault: a length of two bytes is read as it is in memory.
LittleLength(buf, pos) == At(buf, pos) + 256 * At(buf, pos + 1)

\* ntohs of what memcpy brought.
ShortLength(buf, pos) == At(buf, pos) * 256 + At(buf, pos + 1)

\* parse_header: of a length of eight bytes the first two are used and four skipped;
\* and four bytes of key are skipped if there are any or not.
ParseHeader(buf) ==
  LET field == At(buf, 2) % 128
      long == field >= 126
      pos == CASE field = 126 -> 5 [] field = 127 -> 7 [] OTHER -> 3
  IN [fin |-> At(buf, 1) \div 128, opcode |-> At(buf, 1) % 16, masked |-> At(buf, 2) \div 128,
      length |-> IF long THEN ShortLength(buf, 3) ELSE field,
      key |-> [i \in 1..4 |-> At(buf, pos + i - 1)], pos |-> pos + 4]

\* parse_payload: a frame is incomplete when its payload is longer than all that was
\* read; what the buffer has behind it is taken for the rest of one that is not.
ParsePayload(h, buf) ==
  IF h.length > Len(buf) THEN [type |-> "incomplete", payload |-> << >>]
  ELSE [type |-> IF h.opcode \in {0, 1, 2} /\ h.fin = 0 THEN "part"
                 ELSE IF h.opcode \in DOMAIN Types THEN Types[h.opcode] ELSE "binary",
        payload |-> [i \in 1..h.length |->
                       IF h.masked = 1 THEN At(buf, h.pos + i - 1) ^^ h.key[((i - 1) % 4) + 1]
                       ELSE At(buf, h.pos + i - 1)]]

\* encode_header: a length of more than two bytes is put where the first four of the
\* eight are.
EncodeHeader(length, opcode) ==
  <<128 | opcode>> \o
  (CASE length < 126 -> <<length>>
     [] length \in 126..65535 -> <<126, length \div 256, length % 256>>
     [] OTHER -> <<127, length \div 16777216, (length \div 65536) % 256, (length \div 256) % 256, length % 256, 0, 0, 0, 0>>)

\* format_close_payload: a code of two bytes, then the message.
ClosePayload(code, message) ==
  IF code = 0 THEN << >> ELSE <<code \div 256, code % 256>> \o message

----------------------------------------------------------------------------
(* What the other side sends and understands *)

RfcHeader(length, fin, opcode, masked) ==
  <<fin * 128 + opcode>> \o
  (CASE length < 126 -> <<masked * 128 + length>>
     [] length \in 126..65535 -> <<masked * 128 + 126, length \div 256, length % 256>>
     [] OTHER -> <<masked * 128 + 127, 0, 0, 0, 0, length \div 16777216, (length \div 65536) % 256, (length \div 256) % 256, length % 256>>)

ClientFrame(payload, fin, opcode, key) ==
  RfcHeader(Len(payload), fin, opcode, 1) \o key \o
  [i \in DOMAIN payload |-> payload[i] ^^ key[((i - 1) % 4) + 1]]

\* A frame of a client that one read brings whole comes out as the payload that was
\* put in, whatever its key, and the header of an answer of the same length is the
\* one the client expects: with payloads of fewer than 65536 bytes.
FrameComesOut(payload, fin, opcode, key) ==
  LET frame == ClientFrame(payload, fin, opcode, key)
      got == ParsePayload(ParseHeader(frame), frame)
  IN /\ got.payload = payload
     /\ got.type = IF fin = 0 /\ opcode \in {0, 1, 2} THEN "part" ELSE Types[opcode]
     /\ EncodeHeader(Len(payload), opcode) = RfcHeader(Len(payload), 1, opcode, 0)

=============================================================================
