------------------------------ MODULE MCUartDma ------------------------------
(* Instances of UartDma for TLC; the constants are plain numbers.          *)
EXTENDS UartDma
=============================================================================
