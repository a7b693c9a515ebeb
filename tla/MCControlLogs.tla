---------------------------- MODULE MCControlLogs ----------------------------
(***************************************************************************)
(* Small instances of ControlLogs.                                         *)
(***************************************************************************)
EXTENDS ControlLogs

\* A packet of each direction.
MCUids == {"join", "data"}
MCSender == [u \in MCUids |-> IF u = "join" THEN "client" ELSE "server"]
MCEnvironments ==
  {{"browser"}, {"browser", "send", "truncate", "restart"},
   {"packets", "restart"}, {"packets", "truncate", "restart"}}
NoFaults == {{"packets"}}
==============================================================================
