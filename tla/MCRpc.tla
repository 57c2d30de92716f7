-------------------------------- MODULE MCRpc ---------------------------------
(***************************************************************************)
(* One client: two calls on one connection, where the queues of one        *)
(* message fill; one call over a network that may break; or one call and   *)
(* two connections, one after the other.  The methods are one that is      *)
(* routed, one the configuration leaves out and one in a disabled group.   *)
(***************************************************************************)
EXTENDS Rpc

MCScopes ==
  {[calls |-> {1, 2}, dials |-> 1, breaks |-> FALSE],
   [calls |-> {1}, dials |-> 1, breaks |-> TRUE],
   [calls |-> {3}, dials |-> 2, breaks |-> FALSE]}

MCMethodOf == <<"ping", "rebalance", "apps">>

MCGroupOf == [ping |-> "node.v1", rebalance |-> "app_sessions", apps |-> "apps"]
===============================================================================
