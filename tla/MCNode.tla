-------------------------------- MODULE MCNode --------------------------------
(***************************************************************************)
(* Two users.  Both may have funded channels, so that they can pay each    *)
(* other at the same time; one may be new, and be paid before it has a     *)
(* channel; one may have closed its channel, and be paid or reopen.        *)
(***************************************************************************)
EXTENDS Node, TLC

CONSTANTS u1, u2

MCPasts ==
  {u1 :> "funded" @@ u2 :> "new",
   u1 :> "funded" @@ u2 :> "funded",
   u1 :> "closed" @@ u2 :> "funded"}
===============================================================================
