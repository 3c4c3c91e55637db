---------------------------- MODULE MCRingBuffer ----------------------------
(***************************************************************************)
(* RingBuffer with two bytes, chunks of one to three of them and a buffer  *)
(* that starts with room for three.                                        *)
(***************************************************************************)
EXTENDS RingBuffer

MCChunk == UNION {[1 .. n -> Byte] : n \in 1 .. 3}
=============================================================================
