----------------------------- MODULE MCDevices -----------------------------
(***************************************************************************)
(* Devices.tla on a screen of two rows and four columns, with two ticks to *)
(* the second. Line 14 is the disk's, which has no handler.                *)
(***************************************************************************)
EXTENDS Devices

MCMessage == <<"m", "newline">>
=============================================================================
