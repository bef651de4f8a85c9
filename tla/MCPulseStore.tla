---------------------------- MODULE MCPulseStore ----------------------------
(* PulseStore for TLC; the .cfg files give the constants their values.     *)
EXTENDS PulseStore, TLC

Symmetry == Permutations(Traces) \cup Permutations(Conversations)
              \cup Permutations(Users) \cup Permutations(Instances)
=============================================================================
