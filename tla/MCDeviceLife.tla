---------------------------- MODULE MCDeviceLife ----------------------------
(* Small instances of DeviceLife.                                          *)
EXTENDS DeviceLife, TLC

\* The first two use the defaults, the third a name of its own.
MCCallers == 1 .. 3
MCName == 1 :> "lattis0" @@ 2 :> "lattis0" @@ 3 :> "lattis1"
MCPort == 1 :> 52171 @@ 2 :> 52171 @@ 3 :> 52171
=============================================================================
