-------------------------- MODULE MCExpressBroker --------------------------
(***************************************************************************)
(* Small instances of ExpressBroker for TLC: one repository whose          *)
(* approvers are all the users but mallory.                                *)
(***************************************************************************)
EXTENDS ExpressBroker, TLC

CONSTANTS mallory, repo

MCApproverMap == repo :> (Users \ {mallory})
MCRepoOf      == [r \in Requests |-> repo]

Symmetry == Permutations(Requests) \cup Permutations(Clicks) \cup Permutations(Users \ {mallory})
=============================================================================
