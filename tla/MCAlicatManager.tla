-------------------------- MODULE MCAlicatManager --------------------------
(* Two devices, a port with two paths and the caller's own client, for TLC. *)
EXTENDS AlicatManager, TLC

CONSTANTS n1, n2, usb0, byId, bus, l1, l2

Names2 == {n1, n2}
Paths == {usb0, byId}
Leads == (usb0 :> usb0) @@ (byId :> usb0)
Givens == {bus}
Links2 == {l1, l2}

=============================================================================
