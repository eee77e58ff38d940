----------------------------- MODULE MCConsole -----------------------------
(***************************************************************************)
(* Instances of Console: a reader while lines are typed and edited, and     *)
(* writers beside printf() and the echo of one character.                   *)
(***************************************************************************)
EXTENDS Console, TLC
CONSTANTS h1, h2
Input == [calls |-> (h1 :> {"read", "kill"} @@ h2 :> {}),
          keys |-> {"x", "cr", "D", "U", "H"}, typed |-> 4]
Output == [calls |-> (h1 :> {"write", "printf"} @@ h2 :> {"write", "printf"}),
           keys |-> {"x"}, typed |-> 1]
Loads == {Input, Output}
=============================================================================
