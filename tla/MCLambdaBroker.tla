--------------------------- MODULE MCLambdaBroker ---------------------------
(***************************************************************************)
(* A small instance of LambdaBroker for TLC: one repository whose          *)
(* approvers are all the users but mallory.                                *)
(***************************************************************************)
EXTENDS LambdaBroker, TLC

CONSTANTS alice, bob, mallory, repo, r1

MCApproverMap == repo :> (Users \ {mallory})
MCRepoOf      == r1 :> repo

Symmetry == Permutations(Clicks) \cup Permutations(Users \ {mallory})
=============================================================================
