---------------------------- MODULE WebSocketApp ----------------------------
(***************************************************************************)
(* websocket_app (src/app/websocket_app.cpp): the frames of a WebSocket    *)
(* connection, read and written, and what is done with a message.          *)
(*                                                                         *)
(* The layout of a frame is kept and its widths are scaled down: a byte of *)
(* a length, of a key or of a payload is one bit, a 16-bit length has      *)
(* width16 of them, a 64-bit length width64, a masking key key_bytes, and  *)
(* size_t wraps at 2^width64.  The first byte is 16 * fin + opcode, the    *)
(* second 4 * mask + length, where the lengths 0 and 1 stand for 0..125,   *)
(* and 2 and 3 for the escapes 126 and 127.                                *)
(*                                                                         *)
(* An operator takes the record of a connection and returns the record the *)
(* call leaves behind.                                                     *)
(***************************************************************************)
EXTENDS Integers, Sequences

CONSTANTS
    max_buffer,     \* bytes buffered before a connection is closed (1024000)
    Unparsable      \* the payloads that ParseFromArray refuses

width16 == 2
width64 == 4
key_bytes == 2
escape16 == 2
escape64 == 3
size_max == 2^width64

(* std::string refuses to be longer: the 2^63 - 1 of the real size_t.      *)
max_size == size_max \div 2 - 1

RE == {"READ", "ERR"}
RWE == {"READ", "WRITE", "ERR"}

event_mod(c, events) == [c EXCEPT !.interest = events]

Closing(c) == event_mod([c EXCEPT !.is_close = TRUE], RWE)

(***************************************************************************)
(* Lengths, most significant byte first.                                   *)
(***************************************************************************)
Digits(n, width) == [i \in 1..width |-> (n \div 2^(width - i)) % 2]

RECURSIVE Value(_)
Value(digits) ==
    IF digits = <<>> THEN 0
    ELSE 2 * Value(SubSeq(digits, 1, Len(digits) - 1)) + digits[Len(digits)]

LengthBytes(n) ==
    IF n < escape16 THEN <<n>>
    ELSE IF n < 2^width16 THEN <<escape16>> \o Digits(n, width16)
    ELSE <<escape64>> \o Digits(n, width64)

Xor(a, b) == (a + b) % 2

Masked(payload, key) == [i \in DOMAIN payload |-> Xor(payload[i], key[((i - 1) % key_bytes) + 1])]

(***************************************************************************)
(* One pass of the loop of on_process_connection over data: index is the   *)
(* number of bytes taken so far.                                           *)
(***************************************************************************)
TEXT_FRAME == 1
BINARY_FRAME == 2
CONTINUATION_FRAME == 0

Opcode(data) == data[1] % 16
Fin(data) == data[1] >= 16
Mask(data) == data[2] >= 4
Length7(data) == data[2] % 4

LengthWidth(data) ==
    CASE Length7(data) = escape16 -> width16
      [] Length7(data) = escape64 -> width64
      [] OTHER -> 0

PayloadLength(data) ==
    IF LengthWidth(data) = 0 THEN Length7(data)
    ELSE Value(SubSeq(data, 3, 2 + LengthWidth(data)))

HeaderBytes(data) == 2 + LengthWidth(data) + (IF Mask(data) THEN key_bytes ELSE 0)

(* What the frame needs is in the buffer; the sum is one of size_t.        *)
HasHeader(data) == Len(data) >= 2 /\ Len(data) >= HeaderBytes(data)

HasPayload(data) == (HeaderBytes(data) + PayloadLength(data) - 1) % size_max < Len(data)

Payload(data) ==
    LET index == HeaderBytes(data)
        raw == SubSeq(data, index + 1, index + PayloadLength(data))
    IN  IF Mask(data) THEN Masked(raw, SubSeq(data, index - key_bytes + 1, index)) ELSE raw

(* The whole message goes to the Lua VM of the other thread.               *)
on_process_frame(c) ==
    LET taken == [c EXCEPT !.frame_payload_data = <<>>]
    IN  IF c.frame_payload_data \in Unparsable THEN Closing(taken)
        ELSE [taken EXCEPT !.forwarded = Append(@, c.frame_payload_data)]

TakeFrame(c) ==
    LET data == c.recv_buffer
        end == HeaderBytes(data) + PayloadLength(data)
    IN  [c EXCEPT !.frame_payload_data = @ \o Payload(data),
                  !.recv_buffer = SubSeq(data, end + 1, Len(data))]

(* The loop, as the set of the one record it ends with.  A length that no  *)
(* string can have throws, to on_event.                                    *)
RECURSIVE TakeFrames(_)
TakeFrames(c) ==
    LET data == c.recv_buffer
        allowed == Opcode(data) \in {TEXT_FRAME, BINARY_FRAME, CONTINUATION_FRAME}
        taken == {IF Fin(data) THEN on_process_frame(x) ELSE x : x \in {TakeFrame(c)}}
    IN  IF data = <<>> THEN {c}
        ELSE IF ~allowed THEN {Closing(c)}
        ELSE IF ~HasHeader(data) THEN {c}
        ELSE IF ~HasPayload(data) THEN {c}
        ELSE IF PayloadLength(data) > max_size THEN {[c EXCEPT !.threw = TRUE]}
        ELSE UNION {TakeFrames(x) : x \in taken}

on_process_connection(c) ==
    {IF x.threw THEN x
     ELSE IF Len(x.recv_buffer) > max_buffer \/ Len(x.frame_payload_data) > max_buffer
     THEN Closing(x)
     ELSE x : x \in TakeFrames(c)}

(***************************************************************************)
(* The frame of a package for the client: never masked, never fragmented.  *)
(***************************************************************************)
FrameOf(opcode, data) == <<16 + opcode>> \o LengthBytes(Len(data)) \o data

(* send_sync_package up to send_data: a full send buffer closes instead.   *)
Overfull(c) == Len(c.send_buffer) > max_buffer
=============================================================================
