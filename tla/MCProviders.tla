----------------------------- MODULE MCProviders ----------------------------
(***************************************************************************)
(* The instance of Providers that TLC checks.                              *)
(***************************************************************************)
EXTENDS Providers

\* What callers require: nothing, what only some providers have, and a mixture.
MCRequests == {{}, {"RegisterWrite"}, {"MemoryRead", "Control"}}

\* The contents of a descriptor that nobody refers to are of no consequence.
MCView ==
  <<[d \in Descriptors |-> IF References(d) = 0 THEN {} ELSE heap[d]],
    driver, builder, registry, call, session>>

=============================================================================
