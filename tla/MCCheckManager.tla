--------------------------- MODULE MCCheckManager ---------------------------
(***************************************************************************)
(* Small instances of CheckManager.                                        *)
(***************************************************************************)
EXTENDS CheckManager, TLC

CONSTANTS on1, on2, off
=============================================================================
