------------------------- MODULE BreakGlassApproval -------------------------
(***************************************************************************)
(* What a break-glass broker promises, without stores, handlers or clocks: *)
(* a request is opened once; while it is pending it may be withdrawn,      *)
(* expire, or be claimed by one authorized approver; a claim settles to    *)
(* the decision it named; a settled decision is published at most once.    *)
(* Nothing else ever happens to a request.                                 *)
(***************************************************************************)
EXTENDS Sequences

CONSTANTS
  Requests,    \* request identifiers
  Users,
  ApproversOf, \* the users that may decide each request
  NoClaim      \* what claim[r] holds while nobody claimed r

VARIABLES
  phase,       \* where each request is in its life
  claim,       \* who claimed it, and for which decision
  published    \* the audit comments about it

vars == <<phase, claim, published>>

Decisions == {"approved", "denied"}
Phases    == {"none", "pending", "processing", "expired", "withdrawn"} \cup Decisions
Claim     == [decision : Decisions, userId : Users]

Init ==
  /\ phase     = [r \in Requests |-> "none"]
  /\ claim     = [r \in Requests |-> NoClaim]
  /\ published = [r \in Requests |-> <<>>]

Move(r, from, to) ==
  /\ phase[r] = from
  /\ phase' = [phase EXCEPT ![r] = to]

Open(r)     == Move(r, "none", "pending")      /\ UNCHANGED <<claim, published>>
Withdraw(r) == Move(r, "pending", "withdrawn") /\ UNCHANGED <<claim, published>>
Expire(r)   == Move(r, "pending", "expired")   /\ UNCHANGED <<claim, published>>

Seize(r, u, d) ==
  /\ Move(r, "pending", "processing")
  /\ u \in ApproversOf[r]
  /\ claim' = [claim EXCEPT ![r] = [decision |-> d, userId |-> u]]
  /\ UNCHANGED published

Settle(r) ==
  /\ Move(r, "processing", claim[r].decision)
  /\ UNCHANGED <<claim, published>>

Publish(r) ==
  /\ phase[r] \in Decisions
  /\ published[r] = <<>>
  /\ published' = [published EXCEPT ![r] = <<claim[r]>>]
  /\ UNCHANGED <<phase, claim>>

Next ==
  \E r \in Requests :
    \/ Open(r) \/ Withdraw(r) \/ Expire(r) \/ Settle(r) \/ Publish(r)
    \/ \E u \in Users, d \in Decisions : Seize(r, u, d)

Spec == Init /\ [][Next]_vars
=============================================================================
