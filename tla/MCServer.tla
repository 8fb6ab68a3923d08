------------------------------ MODULE MCServer ------------------------------
(* Two clients, whose statements take turns in every order *)
EXTENDS Server, TLC

CONSTANTS c1, c2

MCMaxRequests == c1 :> 3 @@ c2 :> 1
=============================================================================
