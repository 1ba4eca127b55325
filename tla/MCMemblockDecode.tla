-------------------------- MODULE MCMemblockDecode --------------------------
(* One zone of three 32-byte chunks (CHUNKSIZE scaled from 256 KiB), run   *)
(* metadata of 8 bytes, headers of 4 (legacy) and 1 (compact) bytes, runs *)
(* of 8- and 16-byte units aligned to 8 or 16 (alignment below, equal to  *)
(* the unit, padding larger than a header), allocations of one and two     *)
(* units.                                                                  *)
EXTENDS MemblockDecode

MCUnitSizes == {8, 16}
MCAlignments == {8, 16}
MCAllocSizes == {1, 2}
MCAddrMod == 2^16
=============================================================================
