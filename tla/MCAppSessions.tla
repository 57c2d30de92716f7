---------------------------- MODULE MCAppSessions ----------------------------
(***************************************************************************)
(* Two users and three definitions of one application.  The weights of s1  *)
(* exceed a uint8 together and still reach its quorum of 44; s2 needs both *)
(* users; the weights of s3 wrap to 1, below its quorum of 2.              *)
(***************************************************************************)
EXTENDS AppSessions, TLC

CONSTANTS u1, u2, s1, s2, s3, k1, game

MCDefinition ==
  s1 :> [application |-> game, participants |-> (u1 :> 200 @@ u2 :> 100), quorum |-> 44]
  @@ s2 :> [application |-> game, participants |-> (u1 :> 1 @@ u2 :> 1), quorum |-> 2]
  @@ s3 :> [application |-> game, participants |-> (u1 :> 255 @@ u2 :> 2), quorum |-> 2]

MCOrder == <<u1, u2>>
MCOwners == game :> u1
MCSignerSets == {{u1, u2}, {k1}}
MCKeyScopes == <<[sessions |-> {}, applications |-> {game}, expires |-> FALSE],
                 [sessions |-> {s2, s3}, applications |-> {}, expires |-> TRUE]>>
===============================================================================
