------------------------- MODULE BreakGlassDecision -------------------------
(***************************************************************************)
(* The pure rules of a break-glass decision, as both brokers import them:  *)
(* who may decide (slack-authorize.mjs), what a click does to a stored     *)
(* request (break-glass-decision.mjs) and what a new request looks like    *)
(* (request.mjs).  Identifiers, digests, findings and texts are dropped: a *)
(* request is what the decision rules read and write.  A request that is   *)
(* not stored (JavaScript's undefined) is NoRequest, whose status is       *)
(* "absent".                                                               *)
(***************************************************************************)
EXTENDS Naturals

CONSTANTS
  Users,          \* Slack user ids
  NoUser,         \* no user (an absent claim or approver)
  Repos,          \* repositories
  ApproverMap,    \* SLACK_APPROVER_IDS_BY_REPO: repository -> set of users
  MinSeconds,     \* limits.minSeconds, in ticks of the model's clock
  DefaultSeconds, \* limits.defaultSeconds
  MaxSeconds      \* limits.maxSeconds

ASSUME NoUserAssumption == NoUser \notin Users

\* parseApproverMapFromEnv may leave repositories out of the map.
ASSUME ApproverMapAssumption ==
  /\ DOMAIN ApproverMap \subseteq Repos
  /\ \A repo \in DOMAIN ApproverMap : ApproverMap[repo] \subseteq Users

ASSUME LimitsAssumption ==
  /\ MinSeconds \in Nat \ {0} /\ DefaultSeconds \in Nat /\ MaxSeconds \in Nat
  /\ MinSeconds =< DefaultSeconds /\ DefaultSeconds =< MaxSeconds

-----------------------------------------------------------------------------

Actions   == {"approve", "deny"}
Decisions == {"approved", "denied"}
Statuses  == {"pending", "processing", "expired"} \cup Decisions

NoClaim == [decision |-> "none", userId |-> NoUser]
Claim   == [decision : Decisions, userId : Users]

Request ==
  [ status    : Statuses \cup {"absent"},
    expiresAt : Nat,
    claim     : Claim \cup {NoClaim},
    approver  : Users \cup {NoUser},
    slack     : BOOLEAN ]              \* is the message reference recorded?

NoRequest ==
  [ status |-> "absent", expiresAt |-> 0, claim |-> NoClaim,
    approver |-> NoUser, slack |-> FALSE ]

\* A request whose outcome can no longer change.
IsDecided(request)  == request.status \in Decisions
IsTerminal(request) == request.status \in Decisions \cup {"expired"}

-----------------------------------------------------------------------------
(* request.mjs *)

AtMost(a, b)  == IF a =< b THEN a ELSE b
AtLeast(a, b) == IF a >= b THEN a ELSE b

\* Number(payload.timeoutSeconds) || default: 0 stands for every falsy value.
ClampTimeout(seconds) ==
  AtMost(AtLeast(IF seconds = 0 THEN DefaultSeconds ELSE seconds, MinSeconds),
         MaxSeconds)

CreatePendingRequest(seconds, now) ==
  [NoRequest EXCEPT !.status = "pending", !.expiresAt = now + ClampTimeout(seconds)]

-----------------------------------------------------------------------------
(* slack-authorize.mjs *)

\* A repository without an entry authorizes nobody.
IsAuthorizedApprover(userId, repo) ==
  repo \in DOMAIN ApproverMap /\ userId \in ApproverMap[repo]

-----------------------------------------------------------------------------
(* break-glass-decision.mjs *)

\* Variant: the button's value is stored as the decision.
DecisionVerbatim(action) == action
DecisionOf(action) == IF action = "approve" THEN "approved" ELSE "denied"

IsExpired(request, now) == request.expiresAt =< now

\* Variant: a claim does not need a pending request.
ClaimOutcomeAnytime(request, now) ==
  CASE request.status = "absent" -> "rejected"
    [] request.status # "absent" /\ IsExpired(request, now) -> "expired"
    [] OTHER -> "claimed"

\* What claimDecision answers, in the order the code tests.
ClaimOutcome(request, now) ==
  CASE request.status = "absent"      -> "rejected"
    [] request.status # "absent" /\ IsExpired(request, now) -> "expired"
    [] request.status # "absent" /\ ~IsExpired(request, now)
         /\ request.status # "pending" -> "duplicate"
    [] OTHER -> "claimed"

\* The request as claimDecision leaves it when the outcome is "claimed".
ClaimedRequest(request, action, userId) ==
  [request EXCEPT !.status = "processing",
                  !.claim  = [decision |-> DecisionOf(action), userId |-> userId]]

\* finalizeDecision throws unless the claim in flight is the caller's.
CanFinalize(request, userId) ==
  request.status = "processing" /\ request.claim.userId = userId

FinalizedRequest(request) ==
  [request EXCEPT !.status   = request.claim.decision,
                  !.approver = request.claim.userId,
                  !.claim    = NoClaim]

\* Who decided what, as the audit comment reports it: the claim in flight if
\* there is one, else the recorded approver.
BuildAuditComment(request) ==
  IF request.claim # NoClaim
  THEN request.claim
  ELSE [decision |-> request.status, userId |-> request.approver]
=============================================================================
