---------------------------- MODULE MCHeaderOps ----------------------------
(* 128 bytes of run data (16 cells): a legacy run of 64-byte units, and    *)
(* compact and header-none runs of 32-byte units, so that a compact block  *)
(* of two units on a cache-line boundary is widened and one of one unit,   *)
(* or off the boundary, is not.  Words of 16 bits, 12 of them size.        *)
EXTENDS HeaderOps

MCRunKinds == {[flavour |-> LEGACY, unit |-> 8],
               [flavour |-> COMPACT, unit |-> 4],
               [flavour |-> NONE, unit |-> 4]}
MCCompactRun == {[flavour |-> COMPACT, unit |-> 4]}
=============================================================================
