------------------------------ MODULE MCRouter ------------------------------
(* RouterSpec with the routes that matter: a default route, two routes of   *)
(* equal length on different interfaces, longer ones inside them, one of    *)
(* them given with bits beyond its length.                                  *)
EXTENDS RouterSpec

To(route_prefix, prefix_length, next_hop, interface_num) ==
  [route_prefix |-> route_prefix, prefix_length |-> prefix_length,
   next_hop |-> next_hop, interface_num |-> interface_num]

SomeRoutes ==
  {To(1, 0, 3, 1), To(0, 1, Direct, 1), To(1, 1, Direct, 2), To(1, 2, 3, 2), To(2, 1, 3, 1)}
=============================================================================
