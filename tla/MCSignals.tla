----------------------------- MODULE MCSignals -----------------------------
(***************************************************************************)
(* Signals for TLC: one process that moves between two harts and is sent    *)
(* two signals and SIGKILL, and two processes with fork() on one hart.      *)
(***************************************************************************)
EXTENDS Signals

CONSTANTS h1, h2

Alone == [harts |-> {h1, h2}, sigs |-> Sig, sends |-> 3, forks |-> FALSE]
Family == [harts |-> {h1}, sigs |-> {Least(Sig)}, sends |-> 1, forks |-> TRUE]
MCLoad == {Alone, Family}
=============================================================================
