----------------------------- MODULE MCSmpWorkers -----------------------------
(* Event sets for TLC. *)
EXTENDS SmpWorkers

Halts   == {"step", "jump", "reset", "ctrlc", "sigint", "watch"}
NoHalts == {"stop", "step", "thread", "jump", "reset", "ipi"}
Signals == {"jump", "sigint"}
==============================================================================
