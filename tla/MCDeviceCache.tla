--------------------------- MODULE MCDeviceCache ---------------------------
(* Constants of DeviceCache for TLC: a node a in the device directory and a *)
(* node x in its subdirectory "pseudo", whose minor is 0.                   *)
EXTENDS DeviceCache, TLC

CONSTANTS a, x, i0, i1

MCNumbers == (a :> {i1}) @@ (x :> {i0})
=============================================================================
