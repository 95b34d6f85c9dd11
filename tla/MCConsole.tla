----------------------------- MODULE MCConsole ------------------------------
(* Small instances of the console for TLC. *)
EXTENDS Console

MCSources == {"TX", "RX"}
MCBoth == BOOLEAN
MCUnlocked == {FALSE}
=============================================================================
