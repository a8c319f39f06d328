--------------------------- MODULE MCDeviceReadings ---------------------------
(* DeviceReadings with the two rounds in the scheduler and «Interroga» in    *)
(* the routes.                                                               *)
EXTENDS DeviceReadings, TLC

CONSTANTS arp, job, tu, a1, a2

LettureMC == arp :> {"vlan"} @@ job :> {"info", "vlan"} @@ tu :> {"vlan"}
CopiaMC == arp :> "scheduler" @@ job :> "scheduler" @@ tu :> "rotte"
=============================================================================
