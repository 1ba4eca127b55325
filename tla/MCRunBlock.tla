---------------------------- MODULE MCRunBlock ----------------------------
(* Two caller threads on a run of two 4-bit bitmap words.  Block sizes 1,   *)
(* 2 and 4 cover single bits, a mask shifted inside a word and the         *)
(* full-word mask (size_idx = BITS_PER_VALUE).                              *)
EXTENDS RunBlock

MCBitsPerValue == 4
MCNWords == 2
MCSizeIdxs == {1, 2, 4}
=============================================================================
