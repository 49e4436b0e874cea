----------------------------- MODULE DynamoStore ----------------------------
(***************************************************************************)
(* The DynamoDB request store (lambda/dynamodb-store.mjs).  Each operation *)
(* is one request to DynamoDB, atomic for its item: a condition on the     *)
(* stored item and the item it is replaced with.  The item repeats parts   *)
(* of the document (status, expiresAt, the claimant) as the attributes the *)
(* conditions test, and keeps the Slack message reference outside it.      *)
(* A definition marked "Variant" is a faulty version of the one after it:  *)
(* no specification uses it, and each shows that some property notices it. *)
(***************************************************************************)
EXTENDS BreakGlassDecision

Item ==
  [ status      : Statuses \cup {"absent"},
    expiresAt   : Nat,
    claimUserId : Users \cup {NoUser},
    slackRef    : BOOLEAN,       \* slackChannel and slackTs are set
    sideEffects : BOOLEAN,       \* sideEffectsAt is set
    doc         : Request ]

\* No item under this key.
NoItem ==
  [ status |-> "absent", expiresAt |-> 0, claimUserId |-> NoUser,
    slackRef |-> FALSE, sideEffects |-> FALSE, doc |-> NoRequest ]

Exists(item) == item.status # "absent"

ToItem(request) ==
  [NoItem EXCEPT !.status = request.status, !.expiresAt = request.expiresAt,
                 !.doc = request]

\* A recorded message reference overrides what the document says.
FromItem(item) ==
  IF item.slackRef THEN [item.doc EXCEPT !.slack = TRUE] ELSE item.doc

-----------------------------------------------------------------------------

PutPendingCondition(item) == ~Exists(item)

SetSlackRefCondition(item) == Exists(item)

\* Variant: the pending request is written back with its reference.
SetSlackRefOverwrites(item) ==
  [item EXCEPT !.status = "pending", !.claimUserId = NoUser, !.slackRef = TRUE,
               !.doc.status = "pending", !.doc.claim = NoClaim, !.doc.approver = NoUser]
SetSlackRefUpdate(item) == [item EXCEPT !.slackRef = TRUE]

\* Variant: deletes whatever it finds.
DeletePendingAlways(item)    == Exists(item)
DeletePendingCondition(item) == item.status = "pending"

\* Variant: the status is not tested.
ClaimUnguarded(item, nowIso) == Exists(item) /\ item.expiresAt > nowIso
ClaimCondition(item, nowIso) == item.status = "pending" /\ item.expiresAt > nowIso

ClaimUpdate(item, request) ==
  [item EXCEPT !.status = "processing", !.claimUserId = request.claim.userId,
               !.doc = request]

FinalizeCondition(item, userId) ==
  item.status = "processing" /\ item.claimUserId = userId

\* Variant: claimUserId is not removed.
FinalizeKeepsClaim(item, request) ==
  [item EXCEPT !.status = request.status, !.doc = request]
FinalizeUpdate(item, request) ==
  [item EXCEPT !.status = request.status, !.claimUserId = NoUser, !.doc = request]

\* Variant: a claim in flight expires too.
ExpireOpen(item, nowIso) ==
  item.status \in {"pending", "processing"} /\ item.expiresAt =< nowIso
\* Variant: an UpdateItem that creates the item it does not find.
ExpireUpsert(item, nowIso) ==
  item.status \in {"absent", "pending"} /\ item.expiresAt =< nowIso
ExpireCondition(item, nowIso) == item.status = "pending" /\ item.expiresAt =< nowIso

\* Variant: an expired request is deleted.
ExpireDeletes(item, request) == NoItem
ExpireUpdate(item, request) ==
  [item EXCEPT !.status = "expired",
               !.doc = [request EXCEPT !.status = "expired", !.slack = FALSE]]

\* Variant: attribute_not_exists(sideEffectsAt) is missing.
SideEffectsRepeatable(item) == item.status \in Decisions
ClaimSideEffectsCondition(item) == ~item.sideEffects /\ item.status \in Decisions
ClaimSideEffectsUpdate(item)    == [item EXCEPT !.sideEffects = TRUE]
=============================================================================
