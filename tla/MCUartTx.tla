------------------------------- MODULE MCUartTx -------------------------------
(* A ring of a few bytes, for TLC. *)
EXTENDS UartTx, TLC

CONSTANTS low, high, a, b

\* The UART's interrupt is above the tasks and below the I2C interrupts.
MCPrio == low :> 1 @@ Isr :> 3 @@ high :> 4

=============================================================================
