-------------------------- MODULE MCProteusIVLinks --------------------------
(* Instances of ProteusIVLinks for TLC: which functions a run calls.       *)
EXTENDS ProteusIVLinks

CONSTANT Called     \* the functions the callers of this run use

Scripts == [op \in Called |-> Functions[op]] @@ <<>>

(* What the constants stand for: TLC keeps the value of a definition, but  *)
(* evaluates the one that a constant is given whenever it is used.         *)
Script_MC     == Scripts
Reply_MC      == Replies
Recorded_MC   == RecordedCommands
Statusless_MC == StatuslessCommands
BootFrames_MC == <<Startup>>
=============================================================================
