------------------------- MODULE MCDeviceProvisioning -------------------------
(***************************************************************************)
(* A small instance of DeviceProvisioning: requests one after another and  *)
(* one recovery beside them.                                               *)
(***************************************************************************)
EXTENDS DeviceProvisioning

CONSTANTS c1, r1

OneCall == {c1}
OneRecovery == {r1}

=============================================================================
