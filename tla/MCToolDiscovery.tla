---------------------------- MODULE MCToolDiscovery ----------------------------
(***************************************************************************)
(* Two turns of one agent on one registry.                                 *)
(***************************************************************************)
EXTENDS ToolDiscovery

CONSTANTS inbox, beside, h1, h2

TwoLoops == {inbox, beside}
TwoHidden == {h1, h2}

=============================================================================
