---------------------------- MODULE MCPrintRing ----------------------------
(* Instances of PrintRing for TLC.                                         *)
EXTENDS PrintRing, TLC

CONSTANTS main, low

(* Thread mode, and a SysTick-like handler below the print UART.           *)
ThreadAndLow == (main :> 16) @@ (low :> 15)
=============================================================================
