------------------------- MODULE MCNetworkInterface -------------------------
(* NetworkInterfaceSpec for TLC.  No definition tells two hosts, or two *)
(* addresses of hosts, apart.                                           *)
EXTENDS NetworkInterfaceSpec, TLC

Symmetry == Permutations(Hosts) \cup Permutations(Addresses)
=============================================================================
