--------------------------- MODULE MCVirtualRange ---------------------------
(***************************************************************************)
(* AMD64 with pages of the session's size and an index of one bit; a       *)
(* larger granule; and one whose first index is narrower than the others,  *)
(* as with 16 KiB granules and 48 address bits.                            *)
(***************************************************************************)
EXTENDS VirtualRange

MCGeometries ==
    {[addressBits |-> 5, pageShift |-> 1, indexBits |-> 1],
     [addressBits |-> 5, pageShift |-> 2, indexBits |-> 1],
     [addressBits |-> 5, pageShift |-> 2, indexBits |-> 2]}

=============================================================================
