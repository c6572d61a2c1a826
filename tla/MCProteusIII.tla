---------------------------- MODULE MCProteusIII ----------------------------
(* Instances of ProteusIII for TLC: which functions a run calls.           *)
EXTENDS ProteusIII

CONSTANT Called     \* the functions the callers of this run use

AllFunctions == DOMAIN Functions \ {"InitByUart"}

Scripts == [op \in Called |-> Functions[op]] @@ <<>>

(* What the constants stand for: TLC keeps the value of a definition, but  *)
(* evaluates the one that a constant is given whenever it is used.         *)
Script_MC     == Scripts
Reply_MC      == Replies
Recorded_MC   == RecordedCommands
Statusless_MC == StatuslessCommands

BootFrames_MC == <<Ready>>

LinkOnly_MC == LinkFrames
WithData_MC == LinkFrames \cup {Part("DATA_IND", "")}
=============================================================================
