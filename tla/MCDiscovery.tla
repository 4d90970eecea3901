----------------------------- MODULE MCDiscovery -----------------------------
(* Two workers with an address, one without, a channel of two places.       *)
EXTENDS Discovery

CONSTANTS k1, k2, k6
MCKeys == {k1, k2, k6}
MCAddressless == {k6}
=============================================================================
