----------------------------- MODULE MCProfiles -----------------------------
(***************************************************************************)
(* The instance of Profiles that TLC checks.                               *)
(***************************************************************************)
EXTENDS Profiles

\* Member sequences that repeat a field, contradict one, and exceed the limit.
MCMembers == {<<<<1, 1>>>>, <<<<1, 2>>, <<2, 1>>>>, <<<<2, 1>>, <<3, 1>>>>}

=============================================================================
