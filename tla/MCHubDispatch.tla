---------------------------- MODULE MCHubDispatch ----------------------------
(* MCHubClaims: two processes race for one dispatch.  MCHubDelivery: one      *)
(* process and two dispatches, of which its device can run one.               *)
EXTENDS HubDispatch

CONSTANTS first, second, left, right
=============================================================================
