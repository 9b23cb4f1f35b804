------------------------------ MODULE MCI2cSlaveRx ------------------------------
(* Two buses and a buffer of two bytes, which a message of one bus overruns, for TLC. *)
EXTENDS I2cSlaveRx, TLC

CONSTANTS primary, secondary, long, other

MCBusOf == long :> primary @@ other :> secondary
MCSize == long :> 2 @@ other :> 1

=============================================================================
