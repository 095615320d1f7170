-------------------------- MODULE MCDeviceRuntime --------------------------
(* A small instance of DeviceRuntime.                                      *)
EXTENDS DeviceRuntime, TLC

CONSTANTS k1, k2

\* Endpoint 9 is dead. The first device is told by its endpoint 1, alone or after
\* the dead one, and also sends from 3; the second is told by 2, or by 1, which
\* is then an endpoint of both.
First == [public_key |-> k1, endpoints |-> <<1>>]
FirstLater == [public_key |-> k1, endpoints |-> <<9, 1>>]
Second == [public_key |-> k2, endpoints |-> <<2>>]
SecondShared == [public_key |-> k2, endpoints |-> <<1>>]

MCScenarios ==
    {{"events"}, {"events", "roaming"}, {"user", "remote"},
     {"load", "remote", "loss"}, {"load", "remote", "roaming"},
     {"packets", "timeouts", "roaming"}, {"packets", "loss"}, {"failure", "remote"}}

\* All of them where the table changes.
MCInfosIn ==
    [s \in MCScenarios |->
       CASE s = {"events"} -> {First, FirstLater, Second, SecondShared}
         [] s = {"events", "roaming"} -> {First, Second, SecondShared}
         [] s \in {{"user", "remote"}, {"packets", "timeouts", "roaming"}} -> {First}
         [] OTHER -> {First, Second}]

\* A user asks for the endpoint the first device has not advertised.
MCUserEndpoints == k1 :> {3} @@ k2 :> {}

MCHome == k1 :> {1, 3} @@ k2 :> {2}
=============================================================================
