----------------------------- MODULE CallStates -----------------------------
(***************************************************************************)
(* The states of a call (internal/core/call/call.go) and the transition    *)
(* table of its actor (internal/core/call/actor.go).                       *)
(***************************************************************************)

States == {"new", "routing", "ringing", "early_media", "answered", "held",
           "terminating", "terminated", "failed"}

NoState == ""        \* Go's zero value of State

isTerminal(s) == s \in {"terminated", "failed"}

\* The switch of the actor, one row per state.
allowedTransition(from, to) ==
  \/ from = "new" /\ to \in {"routing", "failed", "terminating"}
  \/ from = "routing" /\ to \in {"ringing", "early_media", "answered", "failed",
                                 "terminating"}
  \/ from = "ringing" /\ to \in {"early_media", "answered", "failed",
                                 "terminating"}
  \/ from = "early_media" /\ to \in {"answered", "failed", "terminating"}
  \/ from = "answered" /\ to \in {"held", "terminating"}
  \/ from = "held" /\ to \in {"answered", "terminating"}
  \/ from = "terminating" /\ to \in {"terminated", "failed"}
=============================================================================
