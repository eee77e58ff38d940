----------------------------- MODULE AtomicDisk -----------------------------
(***************************************************************************)
(* What the log promises its callers: a disk whose updates become durable    *)
(* in groups of whole operations.  `current' is what a reader sees now,       *)
(* `durable' is what a reader would see after a crash at this moment.         *)
(***************************************************************************)
CONSTANTS Proc, Block, Val, InitVal

VARIABLES current, durable, open

absVars == <<current, durable, open>>

Init ==
  /\ current = [b \in Block |-> InitVal]
  /\ durable = current
  /\ open = {}

Begin(p) ==
  /\ p \notin open
  /\ open' = open \cup {p}
  /\ UNCHANGED <<current, durable>>

Write(p, b, v) ==
  /\ p \in open
  /\ current' = [current EXCEPT ![b] = v]
  /\ UNCHANGED <<durable, open>>

End(p) ==
  /\ p \in open
  /\ open' = open \ {p}
  /\ UNCHANGED <<current, durable>>

\* Everything written so far becomes durable at once, and only when no
\* operation is half done.
Commit ==
  /\ open = {}
  /\ durable' = current
  /\ UNCHANGED <<current, open>>

\* A crash loses exactly what was not durable.
Crash ==
  /\ current' = durable
  /\ open' = {}
  /\ UNCHANGED durable

Next ==
  \/ \E p \in Proc : Begin(p) \/ End(p)
  \/ \E p \in Proc, b \in Block, v \in Val : Write(p, b, v)
  \/ Commit
  \/ Crash

Spec == Init /\ [][Next]_absVars
=============================================================================
