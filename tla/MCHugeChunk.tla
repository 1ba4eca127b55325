--------------------------- MODULE MCHugeChunk ---------------------------
(* A zone of four chunk header slots: room for chunks of one to four units, *)
(* for a coalesce whose footer lands on a one-unit chunk's head, and for    *)
(* every initial split of the zone into free chunks.                        *)
EXTENDS HugeChunk

MCNChunks == 4
MCOneType == {"HEADER_COMPACT"}
MCTwoTypes == {"HEADER_LEGACY", "HEADER_COMPACT"}
=============================================================================
