------------------------------- MODULE Codec -------------------------------
(***************************************************************************)
(* The framing of protocol/src/codec.rs, and the streaming decoder both    *)
(* ends read with.                                                         *)
(*                                                                         *)
(* A stream is a sequence of pieces: 0 is the terminator byte 0x00, which  *)
(* COBS keeps out of everything else, and m > 0 is what encode writes of   *)
(* message m before it.  A frame that is not exactly one such piece fails  *)
(* its COBS decoding or its CRC.                                           *)
(***************************************************************************)
EXTENDS Naturals, Sequences

CONSTANT MaxPieces   \* max_frame_len: what the decoder's buffer holds

ASSUME MaxPiecesAssumption == MaxPieces \in Nat

Terminator == 0
NoMessage == 0

Encode(m) == <<m, Terminator>>

\* Mutant: the bound is not looked at.
PushUnbounded(buf, chunk) == buf \o chunk

\* What does not fit clears the buffer and is dropped as well.
Push(buf, chunk) ==
    IF Len(buf) + Len(chunk) > MaxPieces THEN <<>> ELSE buf \o chunk

HasFrame(buf) == \E i \in DOMAIN buf : buf[i] = Terminator

\* Mutant: the frame stays in the buffer.
NextFrameKeeps(buf) ==
    IF HasFrame(buf) /\ Len(buf) > 1 /\ buf[2] = Terminator
       THEN [msg |-> buf[1], rest |-> buf]
       ELSE [msg |-> NoMessage, rest |-> buf]

\* The pieces up to the first terminator, whatever they are, leave the buffer.
\* A lone terminator and a corrupt frame yield no message, as no frame does.
NextFrame(buf) ==
    IF HasFrame(buf)
       THEN LET end == CHOOSE i \in DOMAIN buf :
                          /\ buf[i] = Terminator
                          /\ \A j \in 1 .. i - 1 : buf[j] # Terminator
            IN [msg  |-> IF end = 2 THEN buf[1] ELSE NoMessage,
                rest |-> SubSeq(buf, end + 1, Len(buf))]
       ELSE [msg |-> NoMessage, rest |-> buf]
=============================================================================
