--------------------------- MODULE MCLoadBalancer ---------------------------
(* Model-checking instances of LoadBalancer; each cfg gives one its values. *)
EXTENDS LoadBalancer
=============================================================================
