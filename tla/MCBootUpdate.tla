----------------------------- MODULE MCBootUpdate -----------------------------
(* The bootloader with an arbitrary host, for TLC. *)
EXTENDS BootUpdate

\* Block numbers wrap within the area, which is full after PnMod blocks.
MCPnMod == 3
MCBlocks == 3
MCMaxPage == 3

=============================================================================
