---------------------------- MODULE MCVmiSession ----------------------------
(***************************************************************************)
(* A guest with two virtual pages, whose page-table entries are locations  *)
(* 1 and 2, and one data frame, location 3.  A word is the location it     *)
(* points to, or 0.  The second translator decodes the same entries to     *)
(* other frames.  With Levels = 2 a walk also reads the entry of the other *)
(* page first, as an upper level that must be present.                     *)
(***************************************************************************)
EXTENDS VmiSession, TLC

CONSTANTS Levels, p1, p2, amd64, aarch64, cr3

MCPages == {p1, p2}
MCLocs == 1..3
MCWords == {0, 1, 3}
MCPte(p) == IF p = p1 THEN 1 ELSE 2
MCPath == [root \in Roots |-> [page \in Pages |->
             IF Levels = 1 THEN <<MCPte(page)>> ELSE <<2, MCPte(page)>>]]
MCDecode(tag, ws) ==
  IF \E i \in DOMAIN ws : ws[i] = 0 THEN Fault
  ELSE LET leaf == ws[Len(ws)] IN IF tag = amd64 THEN leaf ELSE 4 - leaf
MCRequests == {<<>>, <<p1>>, <<p1, p2>>}
MCInitialMemory == (1 :> 3) @@ (2 :> 1) @@ (3 :> 0)
MCSymmetry == Permutations(Threads)

=============================================================================
