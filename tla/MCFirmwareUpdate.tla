--------------------------- MODULE MCFirmwareUpdate ---------------------------
(* An update of a small image, for TLC. *)
EXTENDS FirmwareUpdate

MCN == 3
MCData == 0..MCN

=============================================================================
