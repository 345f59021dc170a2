------------------------ MODULE MCWireGuardWindows ------------------------
(* Model-checking instance of WireGuardWindows. *)
EXTENDS WireGuardWindows, TLC

CONSTANTS c1, c2, d1, d2, nilIP

MCCallers == {c1, c2}
MCDNSValues == {d1, d2}

(* Callers are interchangeable goroutines. *)
MCSymmetry == Permutations(MCCallers)
=============================================================================
