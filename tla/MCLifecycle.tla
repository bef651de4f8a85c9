---------------------------- MODULE MCLifecycle ----------------------------
(***************************************************************************)
(* Two instances for TLC: one that serves requests of the lock orders that *)
(* differ, with a background pass, and one that comes and goes beside it.  *)
(***************************************************************************)
EXTENDS Lifecycle, TLC

CONSTANTS old, new

MCRequests == (old :> {"post logs", "post traces", "annotate", "logs"}) @@ (new :> {"post traces"})
MCPasses == (old :> {"evaluate"}) @@ (new :> {})
=============================================================================
