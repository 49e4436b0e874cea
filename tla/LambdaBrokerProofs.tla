------------------------- MODULE LambdaBrokerProofs -------------------------
(***************************************************************************)
(* Proofs about the Lambda broker for any requests, clicks, workers and    *)
(* faults: the variables keep their types, the inductive invariant that    *)
(* the safety properties follow from, and the properties themselves.       *)
(***************************************************************************)
EXTENDS LambdaBroker, SequenceTheorems, TLAPS

-----------------------------------------------------------------------------
(* Types of the helpers *)

\* A request that is not stored is typed like one that is.
LEMMA NoRequestType == NoRequest \in Request
BY DEF NoRequest, Request

\* So is an item that is not there.
LEMMA NoItemType == NoItem \in Item
BY NoRequestType DEF NoItem, Item

\* A new pending request, stored, has its type.
LEMMA CreateType ==
  ASSUME NEW seconds \in Nat, NEW t \in Nat
  PROVE  ToItem(CreatePendingRequest(seconds, t)) \in Item
<1>1. ClampTimeout(seconds) \in Nat
  BY LimitsAssumption DEF ClampTimeout, AtMost, AtLeast
<1>2. t + ClampTimeout(seconds) \in Nat
  BY <1>1
<1>3. CreatePendingRequest(seconds, t) \in Request
  BY <1>2, NoRequestType DEF CreatePendingRequest, Request, Statuses
<1> QED BY <1>3, NoItemType DEF ToItem, Item, Request

\* A button's action names a decision.
LEMMA DecisionOfType ==
  ASSUME NEW a \in Actions
  PROVE  DecisionOf(a) \in Decisions
BY DEF DecisionOf, Decisions

\* claimDecision and finalizeDecision keep a request's type.
LEMMA DecisionTypes ==
  ASSUME NEW q \in Request, NEW u \in Users, NEW a \in Actions
  PROVE  /\ ClaimedRequest(q, a, u) \in Request
         /\ CanFinalize(q, u) => FinalizedRequest(q) \in Request
<1>1. [decision |-> DecisionOf(a), userId |-> u] \in Claim
  BY DecisionOfType DEF Claim
<1>2. ClaimedRequest(q, a, u) \in Request
  BY <1>1 DEF ClaimedRequest, Request, Statuses
<1>3. ASSUME CanFinalize(q, u) PROVE FinalizedRequest(q) \in Request
  <2>1. q.claim \in Claim
    BY <1>3, NoUserAssumption DEF CanFinalize, Request, NoClaim
  <2> QED BY <2>1 DEF FinalizedRequest, Request, Claim, Statuses, Decisions
<1> QED BY <1>2, <1>3

\* Reading an item, and the updates that leave its document alone, keep types.
LEMMA ItemTypes ==
  ASSUME NEW i \in Item
  PROVE  /\ FromItem(i) \in Request
         /\ SetSlackRefUpdate(i) \in Item
         /\ ClaimSideEffectsUpdate(i) \in Item
BY DEF FromItem, SetSlackRefUpdate, ClaimSideEffectsUpdate, Item, Request

\* The updates that replace an item's document keep its type.
LEMMA UpdateTypes ==
  ASSUME NEW i \in Item, NEW q \in Request
  PROVE  /\ ClaimUpdate(i, q) \in Item
         /\ FinalizeUpdate(i, q) \in Item
         /\ ExpireUpdate(i, q) \in Item
<1>1. q.status \in Statuses \cup {"absent"} /\ q.claim.userId \in Users \cup {NoUser}
  BY DEF Request, Claim, NoClaim
<1>2. ClaimUpdate(i, q) \in Item
  BY <1>1 DEF ClaimUpdate, Item, Statuses
<1>3. FinalizeUpdate(i, q) \in Item
  BY <1>1 DEF FinalizeUpdate, Item
<1>4. [q EXCEPT !.status = "expired", !.slack = FALSE] \in Request
  BY DEF Request, Statuses
<1>5. ExpireUpdate(i, q) \in Item
  BY <1>4 DEF ExpireUpdate, Item, Statuses
<1> QED BY <1>2, <1>3, <1>5

-----------------------------------------------------------------------------
(* Every step keeps the types *)

\* Every step of every handler keeps the variables' types.
LEMMA TypeStep ==
  ASSUME TypeOK, ClickInv, FxInv, Next
  PROVE  TypeOK'
<1>1. CASE Tick
  BY <1>1, RequestsAssumption DEF Tick, TypeOK
<1>2. ASSUME NEW r \in Requests, NotifyRefused(r) \/ NotifyPut(r) \/ NotifyStep(r) \/ NotifyCrash(r)
      PROVE  TypeOK'
  <2>0. SetSlackRefUpdate(table[r]) \in Item
    BY ItemTypes DEF TypeOK
  <2>1. CASE NotifyRefused(r)
    BY <2>1 DEF NotifyRefused, NotifyGoto, TypeOK, NotifyStates
  <2>2. CASE NotifyPut(r)
    <3>1. PICK seconds \in RequestedSeconds :
            table' = [table EXCEPT ![r] = ToItem(CreatePendingRequest(seconds, now))]
      BY <2>2 DEF NotifyPut
    <3>2. ToItem(CreatePendingRequest(seconds, now)) \in Item
      BY CreateType, RequestsAssumption DEF TypeOK
    <3> QED BY <2>2, <3>1, <3>2 DEF NotifyPut, NotifyGoto, TypeOK, NotifyStates
  <2>3. CASE NotifyPost(r)
    BY <2>3 DEF NotifyPost, NotifyGoto, TypeOK, NotifyStates
  <2>4. CASE NotifyPostFails(r)
    BY <2>4 DEF NotifyPostFails, NotifyGoto, TypeOK, NotifyStates
  <2>5. CASE NotifyRecord(r)
    BY <2>0, <2>5 DEF NotifyRecord, NotifyGoto, TypeOK, NotifyStates
  <2>6. CASE NotifyRecordFails(r)
    BY <2>0, <2>6 DEF NotifyRecordFails, NotifyGoto, TypeOK, NotifyStates
  <2>7. CASE NotifyRollback(r)
    BY <2>7, NoItemType DEF NotifyRollback, NotifyGoto, TypeOK, NotifyStates
  <2>8. CASE NotifyRollbackLost(r)
    BY <2>8 DEF NotifyRollbackLost, NotifyGoto, TypeOK, NotifyStates
  <2>9. CASE NotifyCrash(r)
    BY <2>9 DEF NotifyCrash, NotifyGoto, TypeOK, NotifyStates
  <2> QED BY <1>2, <2>1, <2>2, <2>3, <2>4, <2>5, <2>6, <2>7, <2>8, <2>9 DEF NotifyStep
<1>3. ASSUME NEW r \in Requests, PollStep(r) \/ PollCrash(r)
      PROVE  TypeOK'
  <2>0. /\ now \in Nat /\ poll[r] \in Poll /\ IdlePoll \in Poll /\ poll[r].request \in Request
        /\ table[r] \in Item /\ FromItem(table[r]) \in Request
    BY NoRequestType, ItemTypes, RequestsAssumption DEF TypeOK, IdlePoll, Poll
  <2>1. CASE PollGet(r)
    BY <2>0, <2>1 DEF PollGet, TypeOK, Poll
  <2>5. ASSUME NEW status \in Statuses \cup {"absent"}, Tell(r, status),
               UNCHANGED <<now, table, message, comments, notify, click, fx, queue>>
        PROVE  TypeOK'
    BY <2>0, <2>5 DEF Tell, TypeOK
  <2>2. CASE PollAnswer(r)
    <3> DEFINE late == poll[r].request.status = "pending" /\ IsExpired(poll[r].request, now)
    <3>1. CASE late
      <4>1. [poll[r] EXCEPT !.pc = "expire", !.at = now] \in Poll
        BY <2>0 DEF Poll
      <4>2. poll' \in [Requests -> Poll]
        BY <2>2, <3>1, <4>1 DEF PollAnswer, TypeOK
      <4> QED BY <2>2, <3>1, <4>2 DEF PollAnswer, TypeOK
    <3>2. CASE ~late
      BY <2>0, <2>2, <2>5, <3>2 DEF PollAnswer, Request
    <3> QED BY <3>1, <3>2
  <2>3. CASE PollExpire(r)
    <3>1. table' \in [Requests -> Item]
      <4>1. ExpireUpdate(table[r], poll[r].request) \in Item
        BY <2>0, UpdateTypes
      <4> QED BY <2>3, <4>1 DEF PollExpire, Expire, TypeOK
    <3> QED BY <2>0, <2>3, <3>1 DEF PollExpire, TypeOK, Poll
  <2>4. CASE PollRefresh(r)
    BY <2>0, <2>4, <2>5 DEF PollRefresh, Request
  <2>6. CASE PollCrash(r)
    BY <2>0, <2>6 DEF PollCrash, TypeOK
  <2> QED BY <1>3, <2>1, <2>2, <2>3, <2>4, <2>6 DEF PollStep
<1>4. ASSUME NEW r \in Requests, DropJob(r)
      PROVE  TypeOK'
  BY <1>4 DEF DropJob, TypeOK
<1>5. ASSUME NEW c \in Clicks, ClickArrive(c) \/ ClickStep(c) \/ ClickCrash(c)
      PROVE  TypeOK'
  <2> DEFINE cl == click[c]
             r  == cl.requestId
  <2>0. cl \in Click /\ cl.request \in Request /\ IdleClick \in Click /\ now \in Nat
    BY NoRequestType, RequestsAssumption DEF TypeOK, Click, IdleClick
  <2>00. ASSUME NEW outcome \in {"unauthorized", "expired", "duplicate", "claimed"}
         PROVE  Answered(cl, outcome) \in Click
    BY <2>0, NoRequestType DEF Answered, Click
  <2>000. cl.pc # "idle" => r \in Requests /\ cl.userId \in Users /\ cl.action \in Actions
    BY DEF ClickInv
  <2>1. CASE ClickArrive(c)
    <3>1. PICK q \in Requests, u \in Users, a \in Actions :
            click' = [click EXCEPT ![c] =
              [IdleClick EXCEPT !.pc = "get", !.requestId = q, !.userId = u, !.action = a]]
      BY <2>1 DEF ClickArrive
    <3> QED BY <2>0, <2>1, <3>1 DEF ClickArrive, TypeOK, Click
  <2>2. CASE ClickGet(c)
    <3>1. FromItem(table[r]) \in Request
      BY <2>2, <2>000, ItemTypes DEF ClickGet, TypeOK
    <3> QED BY <2>0, <2>2, <3>1 DEF ClickGet, TypeOK, Click
  <2>3. CASE ClickUnauthorized(c)
    BY <2>00, <2>3 DEF ClickUnauthorized, Answer, TypeOK
  <2>4. CASE ClickDecide(c)
    <3>1. click' \in [Clicks -> Click]
      <4>1. CASE ClaimOutcome(cl.request, now) = "expired"
        <5>1. [cl EXCEPT !.pc = "expire", !.at = now] \in Click
          BY <2>0 DEF Click
        <5> QED BY <2>4, <4>1, <5>1 DEF ClickDecide, TypeOK
      <4>2. CASE ClaimOutcome(cl.request, now) = "duplicate"
        BY <2>00, <2>4, <4>2 DEF ClickDecide, Answer, TypeOK
      <4>3. CASE ClaimOutcome(cl.request, now) = "claimed"
        <5>1. ClaimedRequest(cl.request, cl.action, cl.userId) \in Request
          BY <2>0, <2>000, <2>4, DecisionTypes DEF ClickDecide
        <5>2. [cl EXCEPT !.pc = "claim", !.at = now,
                         !.request = ClaimedRequest(cl.request, cl.action, cl.userId)] \in Click
          BY <2>0, <5>1 DEF Click
        <5> QED BY <2>4, <4>3, <5>2 DEF ClickDecide, TypeOK
      <4> QED BY <2>4, <4>1, <4>2, <4>3 DEF ClickDecide
    <3> QED BY <2>4, <3>1 DEF ClickDecide, TypeOK
  <2>5. CASE ClickExpire(c)
    <3>1. table[r] \in Item
      BY <2>000, <2>5 DEF ClickExpire, TypeOK
    <3>2. ExpireUpdate(table[r], cl.request) \in Item
      BY <2>0, <3>1, UpdateTypes
    <3> QED BY <2>00, <2>5, <3>2 DEF ClickExpire, Expire, Answer, TypeOK
  <2>6. ASSUME cl.pc = "claim",
               table' \in {table, [table EXCEPT ![r] = ClaimUpdate(@, cl.request)]}
        PROVE  table' \in [Requests -> Item]
    <3>1. ClaimUpdate(table[r], cl.request) \in Item
      BY <2>0, <2>000, <2>6, UpdateTypes DEF TypeOK
    <3> QED BY <2>6, <3>1 DEF TypeOK
  <2>7. CASE ClickClaim(c)
    <3>1. click' \in [Clicks -> Click]
      <4>1. [cl EXCEPT !.pc = "finalize"] \in Click
        BY <2>0 DEF Click
      <4> QED BY <2>00, <2>7, <4>1 DEF ClickClaim, Answer, TypeOK
    <3> QED BY <2>6, <2>7, <3>1 DEF ClickClaim, TypeOK
  <2>8. CASE ClickClaimRetried(c)
    <3>1. click' \in [Clicks -> Click]
      BY <2>00, <2>8 DEF ClickClaimRetried, Answer, TypeOK
    <3> QED BY <2>6, <2>8, <3>1 DEF ClickClaimRetried, TypeOK
  <2>9. CASE ClickFinalize(c)
    <3>1. click' \in [Clicks -> Click]
      <4>1. /\ [cl EXCEPT !.pc = "enqueue", !.outcome = "claimed"] \in Click
            /\ [cl EXCEPT !.pc = "crashed"] \in Click
        BY <2>0 DEF Click
      <4> QED BY <2>9, <4>1 DEF ClickFinalize, TypeOK
    <3>2. table' \in [Requests -> Item]
      <4>1. CASE ~CanFinalize(cl.request, cl.userId)
        BY <2>9, <4>1 DEF ClickFinalize, TypeOK
      <4>2. CASE CanFinalize(cl.request, cl.userId)
        <5>1. FinalizeUpdate(table[r], FinalizedRequest(cl.request)) \in Item
          BY <2>0, <2>000, <2>9, <4>2, DecisionTypes, UpdateTypes DEF ClickFinalize, TypeOK
        <5> QED BY <2>9, <5>1 DEF ClickFinalize, TypeOK
      <4> QED BY <4>1, <4>2
    <3> QED BY <2>9, <3>1, <3>2 DEF ClickFinalize, TypeOK
  <2>10. CASE ClickEnqueue(c)
    BY <2>00, <2>000, <2>10 DEF ClickEnqueue, Answer, TypeOK
  <2>11. CASE ClickEnqueueFails(c)
    <3>1. [IdleFx EXCEPT !.pc = "claim", !.requestId = r] \in FollowUp
      BY <2>000, <2>11, NoRequestType DEF ClickEnqueueFails, IdleFx, FollowUp
    <3>2. queue' \subseteq Requests
      BY <2>000, <2>11 DEF ClickEnqueueFails, TypeOK
    <3> QED BY <2>00, <2>11, <3>1, <3>2
        DEF ClickEnqueueFails, StartFollowUp, Answer, TypeOK, Executions
  <2>12. CASE ClickCrash(c)
    BY <2>0, <2>12, NoRequestType DEF ClickCrash, TypeOK, Click
  <2> QED BY <1>5, <2>1, <2>2, <2>3, <2>4, <2>5, <2>7, <2>8, <2>9, <2>10, <2>11, <2>12
      DEF ClickStep
<1>6. ASSUME NEW w \in Workers, Deliver(w)
      PROVE  TypeOK'
  <2>1. PICK r \in queue : StartFollowUp(w, r) /\ queue' \in {queue, queue \ {r}}
    BY <1>6 DEF Deliver
  <2>2. [IdleFx EXCEPT !.pc = "claim", !.requestId = r] \in FollowUp
    BY <2>1, NoRequestType DEF IdleFx, FollowUp, TypeOK
  <2> QED BY <1>6, <2>1, <2>2 DEF Deliver, StartFollowUp, TypeOK, Executions
<1>7. ASSUME NEW e \in Executions, FxStep(e) \/ FxCrash(e)
      PROVE  TypeOK'
  <2> DEFINE f == fx[e]
             r == f.requestId
  <2>0. f \in FollowUp /\ f.request \in Request /\ IdleFx \in FollowUp
    BY NoRequestType DEF TypeOK, FollowUp, IdleFx
  <2>00. f.pc # "idle" => r \in Requests
    BY DEF FxInv
  <2>1. ASSUME f.pc = "claim",
               table' \in {table, [table EXCEPT ![r] = ClaimSideEffectsUpdate(@)]}
        PROVE  table' \in [Requests -> Item]
    BY <2>00, <2>1, ItemTypes DEF TypeOK
  <2>2. CASE FxClaim(e)
    <3>1. fx' \in [Executions -> FollowUp]
      <4>1. [f EXCEPT !.pc = "get"] \in FollowUp
        BY <2>0 DEF FollowUp
      <4> QED BY <2>0, <2>2, <4>1 DEF FxClaim, Finish, TypeOK
    <3> QED BY <2>1, <2>2, <3>1 DEF FxClaim, TypeOK
  <2>3. CASE FxClaimRetried(e)
    BY <2>0, <2>1, <2>3 DEF FxClaimRetried, Finish, TypeOK
  <2>4. CASE FxGet(e)
    <3>1. FromItem(table[r]) \in Request
      BY <2>00, <2>4, ItemTypes DEF FxGet, TypeOK
    <3> QED BY <2>0, <2>4, <3>1 DEF FxGet, TypeOK, FollowUp
  <2>5. ASSUME NEW effect \in {"comment", "update"}, Settled(e, effect)
        PROVE  fx' \in [Executions -> FollowUp]
    <3>1. [f EXCEPT !.effects = f.effects \ {effect}] \in FollowUp
      <4>1. f.effects \ {effect} \in SUBSET {"comment", "update"}
        BY <2>0 DEF FollowUp
      <4> QED BY <2>0, <4>1 DEF FollowUp
    <3> QED BY <2>0, <2>5, <3>1 DEF Settled, TypeOK
  <2>6. CASE FxComment(e)
    <3>1. r \in Requests /\ BuildAuditComment(f.request) \in Claim
      BY <2>0, <2>00, <2>6 DEF FxComment, Settled, FxInv, AgreesWith, WellFormed, IsDecided,
                               BuildAuditComment, Request, Claim, Decisions
    <3> QED BY <2>5, <2>6, <3>1 DEF FxComment, TypeOK
  <2>7. CASE FxUpdate(e)
    <3>1. f.request.status \in Decisions
      BY <2>7 DEF FxUpdate, Settled, FxInv, IsDecided
    <3> QED BY <2>5, <2>7, <3>1 DEF FxUpdate, TypeOK
  <2>8. CASE FxCommentFails(e)
    BY <2>5, <2>8 DEF FxCommentFails, TypeOK
  <2>9. CASE FxUpdateFails(e)
    BY <2>5, <2>9 DEF FxUpdateFails, TypeOK
  <2>10. CASE FxCrash(e)
    BY <2>0, <2>10 DEF FxCrash, Finish, TypeOK
  <2> QED BY <1>7, <2>2, <2>3, <2>4, <2>6, <2>7, <2>8, <2>9, <2>10 DEF FxStep
<1> QED BY <1>1, <1>2, <1>3, <1>4, <1>5, <1>6, <1>7 DEF Next

-----------------------------------------------------------------------------
(* What one step may do to one item *)

\* TableInv for a single item.
GoodItem(item) ==
  /\ item.doc.status = item.status
  /\ item.doc.expiresAt = item.expiresAt
  /\ item.claimUserId = item.doc.claim.userId
  /\ (item.status = "processing") <=> (item.doc.claim # NoClaim)
  /\ IsDecided(item.doc) <=> (item.doc.approver # NoUser)
  /\ item.sideEffects => IsDecided(item.doc)
  /\ WellFormed(item.doc)
  /\ ~Exists(item) => item = NoItem

\* How an item may change: its deadline never, its status only forwards, a
\* claim only to its own decision, an end not at all.
Evolves(i, j) ==
  /\ Exists(i) /\ Exists(j) => j.expiresAt = i.expiresAt
  /\ i.status \notin {"absent", "pending"} => j.status \notin {"absent", "pending"}
  /\ i.status = "processing" =>
       \/ j.status = "processing" /\ j.doc.claim = i.doc.claim
       \/ /\ j.status = i.doc.claim.decision
          /\ j.doc.approver = i.doc.claim.userId
  /\ IsTerminal(i.doc) => j.status = i.status /\ j.doc.approver = i.doc.approver
  /\ i.sideEffects => j.sideEffects

\* TableInv speaks of each item on its own.
LEMMA TableInvByItem == TableInv <=> \A r \in Requests : GoodItem(table[r])
BY DEF TableInv, DocumentMatchesItem, GoodItem

\* An item that is not written evolves to itself.
LEMMA EvolvesRefl ==
  ASSUME NEW i \in Item, GoodItem(i)
  PROVE  Evolves(i, i)
BY DEF Evolves

\* An old copy still agrees with the item after the item evolved.
LEMMA AgreesPreserved ==
  ASSUME NEW q \in Request, NEW i \in Item, NEW j \in Item,
         AgreesWith(q, i), GoodItem(i), Evolves(i, j), Exists(j) => Exists(i)
  PROVE  AgreesWith(q, j)
BY DEF AgreesWith, Evolves, GoodItem, IsTerminal, IsDecided, Exists, WellFormed

\* What store.get returns agrees with the item it was read from.
LEMMA FreshCopyAgrees ==
  ASSUME NEW i \in Item, GoodItem(i)
  PROVE  AgreesWith(FromItem(i), i) /\ FromItem(i).status = i.status
<1>1. /\ FromItem(i).status = i.doc.status /\ FromItem(i).expiresAt = i.doc.expiresAt
      /\ FromItem(i).claim = i.doc.claim /\ FromItem(i).approver = i.doc.approver
  BY DEF FromItem, Item, Request
<1> QED BY <1>1 DEF AgreesWith, GoodItem, WellFormed, IsTerminal, IsDecided, Exists

\* putPending stores a consistent pending item.
LEMMA PutItem ==
  ASSUME NEW seconds \in Nat, NEW t \in Nat
  PROVE  LET j == ToItem(CreatePendingRequest(seconds, t)) IN
         GoodItem(j) /\ Evolves(NoItem, j) /\ Exists(j) /\ j.status = "pending"
<1> DEFINE q == CreatePendingRequest(seconds, t)
           j == ToItem(q)
<1>1. /\ q.status = "pending" /\ q.claim = NoClaim /\ q.approver = NoUser
  BY DEF CreatePendingRequest, NoRequest
<1>2. /\ j.status = q.status /\ j.expiresAt = q.expiresAt /\ j.doc = q
      /\ j.claimUserId = NoUser /\ j.sideEffects = FALSE
  BY DEF ToItem, NoItem
<1>3. NoClaim.userId = NoUser
  BY DEF NoClaim
<1>4. NoItem.status = "absent" /\ NoItem.doc = NoRequest /\ ~NoItem.sideEffects
  BY DEF NoItem
<1>5. ~IsTerminal(NoRequest)
  BY DEF NoRequest, IsTerminal, Decisions
<1> HIDE DEF q, j
<1>6. GoodItem(j)
  BY <1>1, <1>2, <1>3 DEF GoodItem, WellFormed, IsDecided, Decisions, Exists
<1>7. Evolves(NoItem, j)
  BY <1>4, <1>5 DEF Evolves, Exists
<1> QED BY <1>1, <1>2, <1>6, <1>7 DEF q, j, Exists

\* deletePending removes only a pending item.
LEMMA DeleteItem ==
  ASSUME NEW i \in Item, GoodItem(i), DeletePendingCondition(i)
  PROVE  GoodItem(NoItem) /\ Evolves(i, NoItem) /\ ~Exists(NoItem)
<1>1. /\ NoItem.status = "absent" /\ NoItem.doc = NoRequest /\ ~NoItem.sideEffects
      /\ NoItem.claimUserId = NoUser /\ NoItem.expiresAt = 0
  BY DEF NoItem
<1>2. /\ NoRequest.status = "absent" /\ NoRequest.claim = NoClaim /\ NoRequest.approver = NoUser
      /\ NoRequest.expiresAt = 0
  BY DEF NoRequest
<1>3. NoClaim.userId = NoUser
  BY DEF NoClaim
<1>4. GoodItem(NoItem)
  BY <1>1, <1>2, <1>3 DEF GoodItem, WellFormed, IsDecided, Decisions, Exists
<1>5. Evolves(i, NoItem)
  BY <1>1 DEF Evolves, DeletePendingCondition, GoodItem, IsTerminal, IsDecided, Decisions, Exists
<1> QED BY <1>1, <1>4, <1>5 DEF Exists

\* setSlackRef changes nothing but the message reference.
LEMMA SetSlackRefItem ==
  ASSUME NEW i \in Item, GoodItem(i), SetSlackRefCondition(i)
  PROVE  LET j == SetSlackRefUpdate(i) IN
         /\ GoodItem(j) /\ Evolves(i, j) /\ Exists(j)
         /\ j.status = i.status /\ j.doc = i.doc /\ j.claimUserId = i.claimUserId
<1> DEFINE j == SetSlackRefUpdate(i)
<1>1. /\ j.status = i.status /\ j.doc = i.doc /\ j.claimUserId = i.claimUserId
      /\ j.expiresAt = i.expiresAt /\ j.sideEffects = i.sideEffects
  BY DEF SetSlackRefUpdate, Item
<1> HIDE DEF j
<1>2. GoodItem(j) /\ Evolves(i, j) /\ Exists(j)
  BY <1>1 DEF GoodItem, Evolves, Exists, SetSlackRefCondition
<1> QED BY <1>1, <1>2 DEF j

\* claimSideEffects marks a decided item, and nothing else.
LEMMA ClaimSideEffectsItem ==
  ASSUME NEW i \in Item, GoodItem(i), ClaimSideEffectsCondition(i)
  PROVE  LET j == ClaimSideEffectsUpdate(i) IN
         /\ GoodItem(j) /\ Evolves(i, j) /\ Exists(j) /\ j.sideEffects
         /\ j.status = i.status /\ j.doc = i.doc /\ j.claimUserId = i.claimUserId
<1> DEFINE j == ClaimSideEffectsUpdate(i)
<1>1. /\ j.status = i.status /\ j.doc = i.doc /\ j.claimUserId = i.claimUserId
      /\ j.expiresAt = i.expiresAt /\ j.sideEffects = TRUE
  BY DEF ClaimSideEffectsUpdate, Item
<1> HIDE DEF j
<1>2. GoodItem(j) /\ Evolves(i, j) /\ Exists(j)
  BY <1>1 DEF GoodItem, Evolves, Exists, ClaimSideEffectsCondition, IsDecided, Decisions
<1> QED BY <1>1, <1>2 DEF j

\* Expiring from an old copy writes a consistent document, because a copy that
\* agrees with a pending item was itself pending.
LEMMA ExpireItem ==
  ASSUME NEW i \in Item, GoodItem(i), NEW q \in Request, AgreesWith(q, i),
         q.status # "absent", NEW t \in Nat, ExpireCondition(i, t)
  PROVE  LET j == ExpireUpdate(i, q) IN
         GoodItem(j) /\ Evolves(i, j) /\ Exists(j) /\ j.status = "expired"
<1> DEFINE j == ExpireUpdate(i, q)
<1>1. /\ j.status = "expired" /\ j.expiresAt = i.expiresAt /\ j.sideEffects = i.sideEffects
      /\ j.claimUserId = i.claimUserId /\ j.doc.status = "expired"
      /\ j.doc.claim = q.claim /\ j.doc.approver = q.approver /\ j.doc.expiresAt = q.expiresAt
  BY DEF ExpireUpdate, Item, Request
<1> HIDE DEF j
<1>2. i.status = "pending" /\ i.doc.claim = NoClaim /\ i.doc.status = "pending"
  BY DEF ExpireCondition, GoodItem
<1>3. q.status = "pending" /\ q.expiresAt = i.expiresAt
  BY <1>2 DEF AgreesWith, Request, Statuses, IsTerminal, Exists, Decisions
<1>4. q.claim = NoClaim /\ q.approver = NoUser
  BY <1>3 DEF AgreesWith, WellFormed, IsDecided, Decisions
<1>5. GoodItem(j)
  BY <1>1, <1>2, <1>3, <1>4 DEF GoodItem, WellFormed, IsDecided, Decisions, Exists
<1>6. Evolves(i, j)
  BY <1>1, <1>2 DEF Evolves, GoodItem, IsTerminal, IsDecided, Decisions
<1> QED BY <1>1, <1>5, <1>6 DEF j, Exists

\* claim takes a pending item to processing, with the claim of the handler's copy.
LEMMA ClaimItem ==
  ASSUME NEW i \in Item, GoodItem(i), NEW q \in Request, NEW u \in Users, NEW d \in Decisions,
         NEW t \in Nat, ClaimCondition(i, t),
         q.status = "processing", q.claim = [decision |-> d, userId |-> u],
         q.approver = NoUser, i.expiresAt = q.expiresAt
  PROVE  LET j == ClaimUpdate(i, q) IN
         /\ GoodItem(j) /\ Evolves(i, j) /\ Exists(j) /\ j.status = "processing"
         /\ j.doc = q /\ j.claimUserId = u /\ j.expiresAt = i.expiresAt
         /\ t < i.expiresAt
<1> DEFINE j == ClaimUpdate(i, q)
<1>1. /\ j.status = "processing" /\ j.expiresAt = i.expiresAt /\ j.sideEffects = i.sideEffects
      /\ j.claimUserId = u /\ j.doc = q
  BY DEF ClaimUpdate, Item
<1> HIDE DEF j
<1>2. i.status = "pending" /\ t < i.expiresAt
  BY DEF ClaimCondition, Item
<1>3. q.claim # NoClaim
  BY NoUserAssumption DEF NoClaim
<1>4. GoodItem(j)
  BY <1>1, <1>2, <1>3 DEF GoodItem, WellFormed, IsDecided, Decisions, Exists
<1>5. Evolves(i, j)
  BY <1>1, <1>2 DEF Evolves, GoodItem, IsTerminal, IsDecided, Decisions
<1> QED BY <1>1, <1>2, <1>4, <1>5 DEF j, Exists

\* finalize gives a claimed item the decision of the claim it holds.
LEMMA FinalizeItem ==
  ASSUME NEW i \in Item, GoodItem(i), NEW q \in Request, NEW u \in Users, NEW d \in Decisions,
         i.doc = q, i.status = "processing", q.claim = [decision |-> d, userId |-> u]
  PROVE  LET j == FinalizeUpdate(i, FinalizedRequest(q)) IN
         /\ GoodItem(j) /\ Evolves(i, j) /\ Exists(j) /\ j.status = d
         /\ j.doc.approver = u /\ j.expiresAt = i.expiresAt
<1> DEFINE p == FinalizedRequest(q)
           j == FinalizeUpdate(i, p)
<1>1. /\ p.status = d /\ p.approver = u /\ p.claim = NoClaim /\ p.expiresAt = q.expiresAt
  BY DEF FinalizedRequest, Request
<1> HIDE DEF p
<1>2. /\ j.status = d /\ j.expiresAt = i.expiresAt /\ j.sideEffects = i.sideEffects
      /\ j.claimUserId = NoUser /\ j.doc = p
  BY <1>1 DEF FinalizeUpdate, Item
<1> HIDE DEF j
<1>3. NoClaim.userId = NoUser /\ u # NoUser
  BY NoUserAssumption DEF NoClaim
<1>4. GoodItem(j)
  BY <1>1, <1>2, <1>3 DEF GoodItem, WellFormed, IsDecided, Decisions, Exists
<1>5. Evolves(i, j)
  BY <1>1, <1>2 DEF Evolves, GoodItem, IsTerminal, IsDecided, Decisions
<1> QED BY <1>1, <1>2, <1>4, <1>5 DEF j, p, Exists, Decisions

\* What a step may make of the item of r: the item stays good and evolves; only
\* notify creates and deletes it; it leaves "pending" only when CI or a click can
\* know it; a claim in flight is touched by nobody but its claimant.
ItemEffect(r, j) ==
  /\ GoodItem(j)
  /\ Evolves(table[r], j)
  /\ Exists(j) /\ ~Exists(table[r]) =>
       notify[r] = "idle" /\ notify'[r] = "posting" /\ j.status = "pending"
  /\ Exists(table[r]) /\ ~Exists(j) => notify[r] = "rollback" /\ notify'[r] = "failed"
  /\ j.status = table[r].status \/ j.status \in {"absent", "pending"}
       \/ notify[r] = "created" \/ \E c \in Clicks : click[c].requestId = r
  /\ table[r].status = "processing" =>
       \/ /\ j.status = "processing" /\ j.doc = table[r].doc
          /\ j.claimUserId = table[r].claimUserId
       \/ \E c \in Clicks : /\ click[c].pc = "finalize" /\ click[c].requestId = r
                            /\ click'[c].pc = "enqueue"

TableEffect == \A r \in Requests : ItemEffect(r, table'[r])

\* Whatever the step, every item stays consistent and evolves as Evolves allows.
LEMMA TableStep ==
  ASSUME IInv, Next
  PROVE  TableEffect
<1>0. /\ table \in [Requests -> Item] /\ now \in Nat
      /\ \A r \in Requests : GoodItem(table[r]) /\ table[r] \in Item
  BY TableInvByItem, RequestsAssumption DEF IInv, TypeOK
<1>1. ASSUME UNCHANGED table
      PROVE  TableEffect
  BY <1>0, <1>1, EvolvesRefl DEF TableEffect, ItemEffect
<1>2. ASSUME NEW r \in Requests, NEW j, table' = [table EXCEPT ![r] = j], ItemEffect(r, j)
      PROVE  TableEffect
  BY <1>0, <1>2, EvolvesRefl DEF TableEffect, ItemEffect
<1>3. CASE Tick
  BY <1>1, <1>3 DEF Tick
<1>4. ASSUME NEW r \in Requests,
             NotifyRefused(r) \/ NotifyPut(r) \/ NotifyStep(r) \/ NotifyCrash(r)
      PROVE  TableEffect
  <2>1. CASE NotifyPut(r)
    <3>1. PICK seconds \in RequestedSeconds :
            table' = [table EXCEPT ![r] = ToItem(CreatePendingRequest(seconds, now))]
      BY <2>1 DEF NotifyPut
    <3>2. table[r] = NoItem /\ notify[r] = "idle" /\ seconds \in Nat
      BY <2>1, RequestsAssumption DEF NotifyPut, IInv, NotifyInv
    <3> DEFINE j == ToItem(CreatePendingRequest(seconds, now))
    <3>3. GoodItem(j) /\ Evolves(NoItem, j) /\ j.status = "pending"
      BY <1>0, <3>2, PutItem
    <3>4. notify'[r] = "posting" /\ ~Exists(NoItem) /\ NoItem.status # "processing"
      BY <2>1 DEF NotifyPut, NotifyGoto, IInv, TypeOK, NoItem, Exists
    <3> HIDE DEF j
    <3>5. ItemEffect(r, j)
      BY <3>2, <3>3, <3>4 DEF ItemEffect
    <3> QED BY <1>2, <3>1, <3>5 DEF j
  <2>0. CASE /\ SetSlackRefCondition(table[r])
             /\ table' = [table EXCEPT ![r] = SetSlackRefUpdate(table[r])]
    <3> DEFINE j == SetSlackRefUpdate(table[r])
    <3>1. /\ GoodItem(j) /\ Evolves(table[r], j) /\ Exists(j)
          /\ j.status = table[r].status /\ j.doc = table[r].doc
          /\ j.claimUserId = table[r].claimUserId
      BY <1>0, <2>0, SetSlackRefItem
    <3> HIDE DEF j
    <3>2. ItemEffect(r, j)
      BY <2>0, <3>1 DEF ItemEffect, SetSlackRefCondition
    <3> QED BY <1>2, <2>0, <3>2 DEF j
  <2>2. CASE NotifyRecord(r)
    <3>1. CASE SetSlackRefCondition(table[r])
      BY <2>0, <2>2, <3>1 DEF NotifyRecord
    <3>2. CASE ~SetSlackRefCondition(table[r])
      BY <1>1, <2>2, <3>2 DEF NotifyRecord
    <3> QED BY <3>1, <3>2
  <2>3. CASE NotifyRecordFails(r)
    <3>1. CASE UNCHANGED table
      BY <1>1, <3>1
    <3> QED BY <2>0, <2>3, <3>1 DEF NotifyRecordFails
  <2>4. CASE NotifyRollback(r)
    <3>1. CASE DeletePendingCondition(table[r])
      <4>1. /\ GoodItem(NoItem) /\ Evolves(table[r], NoItem) /\ ~Exists(NoItem)
            /\ notify[r] = "rollback" /\ notify'[r] = "failed"
        BY <1>0, <2>4, <3>1, DeleteItem DEF NotifyRollback, NotifyGoto, IInv, TypeOK
      <4>2. ItemEffect(r, NoItem)
        BY <3>1, <4>1 DEF ItemEffect, DeletePendingCondition, Exists
      <4> QED BY <1>2, <2>4, <3>1, <4>2 DEF NotifyRollback
    <3>2. CASE ~DeletePendingCondition(table[r])
      BY <1>1, <2>4, <3>2 DEF NotifyRollback
    <3> QED BY <3>1, <3>2
  <2>5. CASE NotifyRefused(r) \/ NotifyPost(r) \/ NotifyPostFails(r) \/ NotifyRollbackLost(r)
             \/ NotifyCrash(r)
    BY <1>1, <2>5
    DEF NotifyRefused, NotifyPost, NotifyPostFails, NotifyRollbackLost, NotifyCrash
  <2> QED BY <1>4, <2>1, <2>2, <2>3, <2>4, <2>5 DEF NotifyStep
<1>5. ASSUME NEW r \in Requests, NEW q \in Request, NEW t \in Nat, Expire(r, q, t),
             AgreesWith(q, table[r]), q.status # "absent",
             notify[r] = "created" \/ \E c \in Clicks : click[c].requestId = r
      PROVE  TableEffect
  <2>1. CASE ExpireCondition(table[r], t)
    <3>1. table' = [table EXCEPT ![r] = ExpireUpdate(table[r], q)]
      BY <1>5, <2>1 DEF Expire
    <3>2. Exists(table[r]) /\ table[r].status = "pending"
      BY <2>1 DEF ExpireCondition, Exists
    <3> DEFINE j == ExpireUpdate(table[r], q)
    <3>3. GoodItem(j) /\ Evolves(table[r], j) /\ Exists(j)
      BY <1>0, <1>5, <2>1, ExpireItem
    <3> HIDE DEF j
    <3>4. ItemEffect(r, j)
      BY <1>5, <3>2, <3>3 DEF ItemEffect
    <3> QED BY <1>2, <3>1, <3>4 DEF j
  <2>2. CASE ~ExpireCondition(table[r], t)
    BY <1>1, <1>5, <2>2 DEF Expire
  <2> QED BY <2>1, <2>2
<1>6. ASSUME NEW r \in Requests, PollStep(r) \/ PollCrash(r)
      PROVE  TableEffect
  <2>1. CASE PollExpire(r)
    <3>1. poll[r].request \in Request /\ poll[r].at \in Nat
      BY DEF IInv, TypeOK, Poll
    <3>2. /\ AgreesWith(poll[r].request, table[r]) /\ poll[r].request.status # "absent"
          /\ notify[r] = "created"
      BY <2>1 DEF PollExpire, IInv, PollInv
    <3> QED BY <1>5, <2>1, <3>1, <3>2 DEF PollExpire
  <2>2. CASE PollGet(r) \/ PollAnswer(r) \/ PollRefresh(r) \/ PollCrash(r)
    BY <1>1, <2>2 DEF PollGet, PollAnswer, PollRefresh, PollCrash
  <2> QED BY <1>6, <2>1, <2>2 DEF PollStep
<1>7. ASSUME NEW c \in Clicks, ClickArrive(c) \/ ClickStep(c) \/ ClickCrash(c)
      PROVE  TableEffect
  <2> DEFINE cl == click[c]
             r  == cl.requestId
  <2>0. /\ cl.request \in Request /\ cl.at \in Nat
        /\ cl.pc # "idle" => r \in Requests /\ cl.userId \in Users /\ cl.action \in Actions
    BY DEF IInv, TypeOK, Click, ClickInv
  <2>1. CASE ClickExpire(c)
    <3>1. cl.pc = "expire"
      BY <2>1 DEF ClickExpire
    <3>2. AgreesWith(cl.request, table[r]) /\ cl.request.status # "absent"
      BY <3>1 DEF IInv, ClickInv
    <3> QED BY <1>5, <2>0, <2>1, <3>1, <3>2 DEF ClickExpire
  <2>2. CASE cl.pc = "claim" /\ ClaimCondition(table[r], cl.at)
             /\ table' = [table EXCEPT ![r] = ClaimUpdate(table[r], cl.request)]
    <3>1. r \in Requests /\ Exists(table[r])
      BY <2>0, <2>2 DEF ClaimCondition, Exists
    <3>2. /\ cl.request.status = "processing"
          /\ cl.request.claim = [decision |-> DecisionOf(cl.action), userId |-> cl.userId]
          /\ cl.request.approver = NoUser
          /\ table[r].expiresAt = cl.request.expiresAt
      BY <2>2, <3>1 DEF IInv, ClickInv
    <3>3. DecisionOf(cl.action) \in Decisions
      BY <2>0, <2>2, DecisionOfType
    <3> DEFINE j == ClaimUpdate(table[r], cl.request)
    <3>4. /\ table[r] \in Item /\ GoodItem(table[r])
          /\ cl.userId \in Users /\ cl.at \in Nat /\ cl.request \in Request
      BY <1>0, <2>0, <2>2, <3>1
    <3>5. GoodItem(j) /\ Evolves(table[r], j) /\ Exists(j)
      BY <2>2, <3>2, <3>3, <3>4, ClaimItem
    <3> HIDE DEF j
    <3>6. ItemEffect(r, j)
      BY <2>2, <3>1, <3>5 DEF ItemEffect, ClaimCondition
    <3> QED BY <1>2, <2>2, <3>1, <3>6 DEF j
  <2>3. CASE cl.pc = "finalize" /\ click'[c].pc = "enqueue"
             /\ table' = [table EXCEPT ![r] = FinalizeUpdate(table[r], FinalizedRequest(cl.request))]
    <3>1. /\ cl.request.claim = [decision |-> DecisionOf(cl.action), userId |-> cl.userId]
          /\ table[r].doc = cl.request /\ table[r].status = "processing"
      BY <2>3 DEF IInv, ClickInv
    <3>2. DecisionOf(cl.action) \in Decisions /\ Exists(table[r])
      BY <2>0, <2>3, <3>1, DecisionOfType DEF Exists
    <3> DEFINE j == FinalizeUpdate(table[r], FinalizedRequest(cl.request))
    <3>3. /\ r \in Requests /\ table[r] \in Item /\ GoodItem(table[r])
          /\ cl.userId \in Users /\ cl.request \in Request
      BY <1>0, <2>0, <2>3
    <3>4. GoodItem(j) /\ Evolves(table[r], j) /\ Exists(j)
      BY <3>1, <3>2, <3>3, FinalizeItem
    <3> HIDE DEF j
    <3>5. ItemEffect(r, j)
      BY <2>3, <3>2, <3>4 DEF ItemEffect
    <3> QED BY <1>2, <2>3, <3>3, <3>5 DEF j
  <2>4. CASE ClickClaim(c) \/ ClickClaimRetried(c)
    BY <1>1, <2>2, <2>4 DEF ClickClaim, ClickClaimRetried
  <2>5. CASE ClickFinalize(c)
    <3>1. UNCHANGED table \/ click'[c] = [cl EXCEPT !.pc = "enqueue", !.outcome = "claimed"]
      BY <2>5 DEF ClickFinalize, IInv, TypeOK
    <3>2. [cl EXCEPT !.pc = "enqueue", !.outcome = "claimed"].pc = "enqueue"
      BY DEF IInv, TypeOK, Click
    <3> QED BY <1>1, <2>3, <2>5, <3>1, <3>2 DEF ClickFinalize
  <2>6. CASE ClickArrive(c) \/ ClickGet(c) \/ ClickUnauthorized(c) \/ ClickDecide(c)
             \/ ClickEnqueue(c) \/ ClickEnqueueFails(c) \/ ClickCrash(c)
    BY <1>1, <2>6 DEF ClickArrive, ClickGet, ClickUnauthorized, ClickDecide, ClickEnqueue,
                      ClickEnqueueFails, ClickCrash
  <2> QED BY <1>7, <2>1, <2>4, <2>5, <2>6 DEF ClickStep
<1>8. ASSUME NEW e \in Executions, FxStep(e) \/ FxCrash(e)
      PROVE  TableEffect
  <2> DEFINE r == fx[e].requestId
  <2>1. CASE fx[e].pc = "claim" /\ ClaimSideEffectsCondition(table[r])
             /\ table' = [table EXCEPT ![r] = ClaimSideEffectsUpdate(table[r])]
    <3>1. r \in Requests
      BY <2>1 DEF IInv, FxInv
    <3>2. Exists(table[r])
      BY <2>1 DEF ClaimSideEffectsCondition, Exists, Decisions
    <3> DEFINE j == ClaimSideEffectsUpdate(table[r])
    <3>3. /\ GoodItem(j) /\ Evolves(table[r], j) /\ Exists(j)
          /\ j.status = table[r].status /\ j.doc = table[r].doc
          /\ j.claimUserId = table[r].claimUserId
      BY <1>0, <2>1, <3>1, ClaimSideEffectsItem
    <3> HIDE DEF j
    <3>4. ItemEffect(r, j)
      BY <3>2, <3>3 DEF ItemEffect
    <3> QED BY <1>2, <2>1, <3>1, <3>4 DEF j
  <2>2. CASE FxClaim(e) \/ FxClaimRetried(e)
    BY <1>1, <2>1, <2>2 DEF FxClaim, FxClaimRetried
  <2>3. CASE FxGet(e) \/ FxComment(e) \/ FxUpdate(e) \/ FxCommentFails(e) \/ FxUpdateFails(e)
             \/ FxCrash(e)
    BY <1>1, <2>3 DEF FxGet, FxComment, FxUpdate, FxCommentFails, FxUpdateFails, FxCrash
  <2> QED BY <1>8, <2>2, <2>3 DEF FxStep
<1>9. CASE (\E r \in Requests : DropJob(r)) \/ (\E w \in Workers : Deliver(w))
  BY <1>1, <1>9 DEF DropJob, Deliver
<1> QED BY <1>3, <1>4, <1>6, <1>7, <1>8, <1>9 DEF Next

\* No write makes an item appear under a request that a click or a poll knows.
LEMMA KnownNotCreated ==
  ASSUME IInv, TableEffect, NEW r \in Requests,
         notify[r] # "idle" \/ \E c \in Clicks : click[c].requestId = r
  PROVE  Exists(table'[r]) => Exists(table[r])
BY DEF TableEffect, ItemEffect, IInv, NotifyInv

-----------------------------------------------------------------------------
(* Clicks *)

\* ClickInv for a single click and the item of its request.
ClickOK(cl, item) ==
  /\ cl.pc # "idle" =>
       cl.requestId \in Requests /\ cl.userId \in Users /\ cl.action \in Actions
  /\ cl.pc = "idle" => cl = IdleClick
  /\ cl.outcome = "claimed" => cl.pc \in {"enqueue", "done", "crashed"}
  /\ cl.pc \in {"decide", "expire"} => AgreesWith(cl.request, item)
  /\ cl.pc = "expire" => cl.request.status # "absent"
  /\ cl.pc \in {"claim", "finalize"} =>
       /\ cl.request.status = "processing"
       /\ cl.request.claim = [decision |-> DecisionOf(cl.action), userId |-> cl.userId]
       /\ cl.request.approver = NoUser
       /\ IsAuthorizedApprover(cl.userId, RepoOf[cl.requestId])
       /\ Exists(item) => item.expiresAt = cl.request.expiresAt
  /\ cl.pc = "finalize" =>
       item.doc = cl.request /\ item.status = "processing" /\ item.claimUserId = cl.userId
  /\ cl.pc = "enqueue" => cl.outcome = "claimed"
  /\ cl.outcome = "claimed" =>
       /\ item.status = DecisionOf(cl.action)
       /\ item.doc.approver = cl.userId

OneHolder ==
  \A c \in Clicks : \A d \in Clicks \ {c} : \A r \in Requests : ~(Holds(c, r) /\ Holds(d, r))

\* ClickInv speaks of each click and its item, and of one holder per request.
LEMMA ClickInvByClick ==
  ClickInv <=> /\ \A c \in Clicks : ClickOK(click[c], table[click[c].requestId])
               /\ OneHolder
BY DEF ClickInv, ClickOK, OneHolder

\* Whatever others write, a click that does not move keeps its part of ClickInv.
LEMMA ClickKept ==
  ASSUME IInv, TypeOK', TableEffect, NEW c \in Clicks, click'[c] = click[c]
  PROVE  ClickOK(click'[c], table'[click'[c].requestId])
<1> DEFINE cl == click[c]
           r  == cl.requestId
           i  == table[r]
           j  == table'[r]
<1>0. ClickOK(cl, i) /\ OneHolder
  BY ClickInvByClick DEF IInv
<1>1. CASE cl.pc = "idle"
  <2>1. cl = IdleClick /\ IdleClick.pc = "idle" /\ IdleClick.outcome = "none"
    BY <1>0, <1>1 DEF ClickOK, IdleClick
  <2> QED BY <1>1, <2>1 DEF ClickOK
<1>2. CASE cl.pc # "idle"
  <2>1. r \in Requests
    BY <1>0, <1>2 DEF ClickOK
  <2>2. i \in Item /\ j \in Item /\ cl.request \in Request
    BY <2>1 DEF IInv, TypeOK, Click
  <2>3. GoodItem(i) /\ ItemEffect(r, j) /\ Evolves(i, j)
    BY <2>1, TableInvByItem DEF IInv, TableEffect, ItemEffect
  <2>4. Exists(j) => Exists(i)
    BY <2>1, KnownNotCreated
  <2>5. cl.pc \in {"decide", "expire"} => AgreesWith(cl.request, j)
    BY <1>0, <2>2, <2>3, <2>4, AgreesPreserved DEF ClickOK
  <2>6. Exists(j) => j.expiresAt = i.expiresAt
    BY <2>3, <2>4 DEF Evolves
  <2>7. cl.pc = "finalize" =>
          j.doc = cl.request /\ j.status = "processing" /\ j.claimUserId = cl.userId
    <3>1. ASSUME cl.pc = "finalize", NEW d \in Clicks, click[d].pc = "finalize",
                 click[d].requestId = r, click'[d].pc = "enqueue"
          PROVE  FALSE
      <4>1. d # c
        BY <3>1
      <4>2. Holds(c, r) /\ Holds(d, r)
        BY <3>1 DEF Holds
      <4> QED BY <1>0, <2>1, <4>1, <4>2 DEF OneHolder
    <3> QED BY <1>0, <2>3, <3>1 DEF ClickOK, ItemEffect
  <2>8. cl.outcome = "claimed" => j.status = i.status /\ j.doc.approver = i.doc.approver
    <3>1. cl.outcome = "claimed" => i.doc.status \in Decisions
      BY <1>0, <1>2, <2>3, DecisionOfType DEF ClickOK, GoodItem
    <3> QED BY <2>3, <3>1 DEF Evolves, IsTerminal
  <2> HIDE DEF cl, r, i, j
  <2>9. ClickOK(cl, j)
    BY <1>0, <2>4, <2>5, <2>6, <2>7, <2>8 DEF ClickOK
  <2> QED BY <2>9 DEF cl, r, j
<1> QED BY <1>1, <1>2

\* A click that holds a request has taken it out of "pending".
LEMMA HolderNotPending ==
  ASSUME IInv, NEW c \in Clicks, NEW r \in Requests, Holds(c, r)
  PROVE  table[r].status # "pending"
<1>1. ClickOK(click[c], table[r]) /\ click[c].requestId = r
  BY ClickInvByClick DEF IInv, Holds
<1>2. click[c].outcome = "claimed" => DecisionOf(click[c].action) \in Decisions
  BY <1>1, DecisionOfType DEF ClickOK
<1> QED BY <1>1, <1>2 DEF ClickOK, Holds, Decisions

\* An answered click asks nothing of the item, unless it was answered "claimed".
LEMMA AnsweredOK ==
  ASSUME NEW cl \in Click, NEW i, ClickOK(cl, i), cl.pc # "idle", NEW item,
         NEW outcome \in {"unauthorized", "expired", "duplicate", "claimed"},
         outcome = "claimed" => cl.outcome = "claimed" /\ item = i
  PROVE  /\ Answered(cl, outcome) \in Click
         /\ ClickOK(Answered(cl, outcome), item)
<1> DEFINE an == Answered(cl, outcome)
<1>1. /\ an.pc = "done" /\ an.outcome = outcome /\ an.requestId = cl.requestId
      /\ an.userId = cl.userId /\ an.action = cl.action /\ an \in Click
  BY NoRequestType DEF Answered, Click
<1> HIDE DEF an
<1>2. ClickOK(an, item)
  BY <1>1 DEF ClickOK
<1> QED BY <1>1, <1>2 DEF an

\* A step of a click re-establishes its part of ClickInv, moves no other click,
\* and wins a request only while the request is pending.
LEMMA ClickActor ==
  ASSUME IInv, TypeOK', TableEffect, NEW c \in Clicks,
         ClickArrive(c) \/ ClickStep(c) \/ ClickCrash(c)
  PROVE  /\ ClickOK(click'[c], table'[click'[c].requestId])
         /\ \A d \in Clicks \ {c} : click'[d] = click[d]
         /\ \A r \in Requests : Holds(c, r)' => Holds(c, r) \/ table[r].status = "pending"
<1> DEFINE cl == click[c]
           r  == cl.requestId
           i  == table[r]
           Goal == /\ ClickOK(click'[c], table'[click'[c].requestId])
                   /\ \A d \in Clicks \ {c} : click'[d] = click[d]
                   /\ \A q \in Requests : Holds(c, q)' => Holds(c, q) \/ table[q].status = "pending"
<1>0. /\ cl \in Click /\ cl.request \in Request /\ now \in Nat
      /\ click \in [Clicks -> Click] /\ IdleClick \in Click
      /\ ClickOK(cl, i)
      /\ cl.pc # "idle" => r \in Requests /\ i \in Item /\ GoodItem(i)
  BY ClickInvByClick, TableInvByItem, NoRequestType, RequestsAssumption
  DEF IInv, TypeOK, Click, IdleClick, ClickOK
<1>1. ASSUME NEW new \in Click, click' = [click EXCEPT ![c] = new],
             ClickOK(new, table'[new.requestId]),
             \/ /\ new.pc # "finalize"
                /\ new.outcome = "claimed" =>
                     new.requestId = r /\ (cl.outcome = "claimed" \/ cl.pc = "finalize")
             \/ table[new.requestId].status = "pending"
      PROVE  Goal
  <2>1. click'[c] = new
    BY <1>0, <1>1
  <2> QED BY <1>0, <1>1, <2>1 DEF Holds
<1>2. ASSUME NEW outcome \in {"unauthorized", "expired", "duplicate", "claimed"},
             Answer(c, outcome), cl.pc # "idle",
             outcome = "claimed" => cl.outcome = "claimed" /\ UNCHANGED table
      PROVE  Goal
  <2> DEFINE new == Answered(cl, outcome)
  <2>1. new \in Click /\ ClickOK(new, table'[r])
    BY <1>0, <1>2, AnsweredOK
  <2>2. new.pc = "done" /\ new.outcome = outcome /\ new.requestId = r
    BY <1>0 DEF Answered, Click
  <2>3. click' = [click EXCEPT ![c] = new]
    BY <1>2 DEF Answer
  <2> HIDE DEF new
  <2> QED BY <1>1, <1>2, <2>1, <2>2, <2>3
<1>3. CASE ClickArrive(c)
  <2>1. PICK q \in Requests, u \in Users, a \in Actions :
          click' = [click EXCEPT ![c] =
            [IdleClick EXCEPT !.pc = "get", !.requestId = q, !.userId = u, !.action = a]]
    BY <1>3 DEF ClickArrive
  <2> DEFINE new == [IdleClick EXCEPT !.pc = "get", !.requestId = q, !.userId = u, !.action = a]
  <2>2. /\ new \in Click /\ new.pc = "get" /\ new.outcome = "none"
        /\ new.requestId = q /\ new.userId = u /\ new.action = a
    BY <1>0 DEF Click, IdleClick
  <2> HIDE DEF new
  <2>3. ClickOK(new, table'[new.requestId])
    BY <2>2 DEF ClickOK
  <2> QED BY <1>1, <2>1, <2>2, <2>3 DEF new
<1>4. CASE ClickGet(c)
  <2> DEFINE new == [cl EXCEPT !.pc = "decide", !.request = FromItem(i)]
  <2>1. /\ click' = [click EXCEPT ![c] = new] /\ cl.pc = "get" /\ table' = table
    BY <1>4 DEF ClickGet
  <2>2. FromItem(i) \in Request /\ AgreesWith(FromItem(i), i)
    BY <1>0, <2>1, ItemTypes, FreshCopyAgrees
  <2>3. /\ new \in Click /\ new.pc = "decide" /\ new.outcome = cl.outcome
        /\ new.requestId = r /\ new.userId = cl.userId /\ new.action = cl.action
        /\ new.request = FromItem(i)
    BY <1>0, <2>2 DEF Click
  <2> HIDE DEF new
  <2>4. ClickOK(new, table'[new.requestId])
    BY <1>0, <2>1, <2>2, <2>3 DEF ClickOK
  <2> QED BY <1>0, <1>1, <2>1, <2>3, <2>4
<1>5. CASE ClickUnauthorized(c)
  BY <1>2, <1>5 DEF ClickUnauthorized
<1>6. CASE ClickDecide(c)
  <2>0. /\ cl.pc = "decide" /\ ClickAuthorized(cl) /\ table' = table
        /\ AgreesWith(cl.request, i) /\ cl.request.status # "absent"
    BY <1>0, <1>6 DEF ClickDecide, ClickAuthorized, ClickOK
  <2>1. CASE ClaimOutcome(cl.request, now) = "expired"
    <3> DEFINE new == [cl EXCEPT !.pc = "expire", !.at = now]
    <3>1. click' = [click EXCEPT ![c] = new]
      BY <1>6, <2>1 DEF ClickDecide
    <3>2. /\ new \in Click /\ new.pc = "expire" /\ new.outcome = cl.outcome
          /\ new.requestId = r /\ new.userId = cl.userId /\ new.action = cl.action
          /\ new.request = cl.request
      BY <1>0 DEF Click
    <3> HIDE DEF new
    <3>3. ClickOK(new, table'[new.requestId])
      BY <1>0, <2>0, <3>2 DEF ClickOK
    <3> QED BY <1>0, <1>1, <3>1, <3>2, <3>3
  <2>2. CASE ClaimOutcome(cl.request, now) = "duplicate"
    BY <1>2, <1>6, <2>0, <2>2 DEF ClickDecide
  <2>3. CASE ClaimOutcome(cl.request, now) = "claimed"
    <3> DEFINE p == ClaimedRequest(cl.request, cl.action, cl.userId)
               new == [cl EXCEPT !.pc = "claim", !.at = now, !.request = p]
    <3>1. click' = [click EXCEPT ![c] = new]
      BY <1>6, <2>3 DEF ClickDecide
    <3>2. cl.request.status = "pending"
      BY <1>0, <2>0, <2>3 DEF ClaimOutcome
    <3>3. /\ p \in Request /\ p.status = "processing"
          /\ p.claim = [decision |-> DecisionOf(cl.action), userId |-> cl.userId]
          /\ p.approver = cl.request.approver /\ p.expiresAt = cl.request.expiresAt
      <4>1. p \in Request
        BY <1>0, <2>0, DecisionTypes DEF ClickOK
      <4> QED BY <1>0, <4>1 DEF ClaimedRequest, Request
    <3> HIDE DEF p
    <3>4. p.approver = NoUser
      BY <2>0, <3>2, <3>3 DEF AgreesWith, WellFormed, IsDecided, Decisions
    <3>5. /\ new \in Click /\ new.pc = "claim" /\ new.outcome = cl.outcome
          /\ new.requestId = r /\ new.userId = cl.userId /\ new.action = cl.action
          /\ new.request = p
      BY <1>0, <3>3 DEF Click
    <3> HIDE DEF new
    <3>6. Exists(i) => i.expiresAt = p.expiresAt
      BY <2>0, <3>3 DEF AgreesWith
    <3>7. ClickOK(new, table'[new.requestId])
      BY <1>0, <2>0, <3>3, <3>4, <3>5, <3>6 DEF ClickOK, ClickAuthorized
    <3> QED BY <1>0, <1>1, <3>1, <3>5, <3>7 DEF p
  <2> QED BY <1>6, <2>1, <2>2, <2>3 DEF ClickDecide
<1>7. CASE ClickExpire(c)
  BY <1>2, <1>7 DEF ClickExpire
<1>8. CASE ClickClaim(c)
  <2>1. CASE ClaimCondition(i, cl.at)
    <3> DEFINE new == [cl EXCEPT !.pc = "finalize"]
    <3>1. /\ click' = [click EXCEPT ![c] = new] /\ cl.pc = "claim" /\ i.status = "pending"
          /\ table' = [table EXCEPT ![r] = ClaimUpdate(i, cl.request)]
      BY <1>8, <2>1 DEF ClickClaim, ClaimCondition
    <3>2. /\ new \in Click /\ new.pc = "finalize" /\ new.outcome = cl.outcome
          /\ new.requestId = r /\ new.userId = cl.userId /\ new.action = cl.action
          /\ new.request = cl.request
      BY <1>0 DEF Click
    <3> HIDE DEF new
    <3>3. table'[r] = ClaimUpdate(i, cl.request)
      BY <1>0, <3>1 DEF IInv, TypeOK
    <3>4. /\ table'[r].status = "processing" /\ table'[r].doc = cl.request
          /\ table'[r].claimUserId = cl.userId /\ table'[r].expiresAt = i.expiresAt
      <4>1. cl.request.claim = [decision |-> DecisionOf(cl.action), userId |-> cl.userId]
        BY <1>0, <3>1 DEF ClickOK
      <4>2. i \in Item
        BY <1>0, <3>1
      <4> QED BY <3>3, <4>1, <4>2 DEF ClaimUpdate, Item
    <3>5. Exists(i)
      BY <3>1 DEF Exists
    <3>6. ClickOK(new, table'[r])
      BY <1>0, <3>1, <3>2, <3>4, <3>5 DEF ClickOK
    <3> QED BY <1>1, <3>1, <3>2, <3>6
  <2>2. CASE ~ClaimCondition(i, cl.at)
    BY <1>2, <1>8, <2>2 DEF ClickClaim
  <2> QED BY <2>1, <2>2
<1>9. CASE ClickClaimRetried(c)
  BY <1>2, <1>9 DEF ClickClaimRetried
<1>10. CASE ClickFinalize(c)
  <2> DEFINE new == [cl EXCEPT !.pc = "enqueue", !.outcome = "claimed"]
             p == FinalizedRequest(cl.request)
  <2>1. /\ cl.pc = "finalize" /\ i.doc = cl.request /\ i.status = "processing"
        /\ i.claimUserId = cl.userId /\ cl.request.status = "processing"
        /\ cl.request.claim = [decision |-> DecisionOf(cl.action), userId |-> cl.userId]
    BY <1>0, <1>10 DEF ClickFinalize, ClickOK
  <2>2. CanFinalize(cl.request, cl.userId) /\ FinalizeCondition(i, cl.userId)
    BY <2>1 DEF CanFinalize, FinalizeCondition
  <2>3. /\ click' = [click EXCEPT ![c] = new]
        /\ table' = [table EXCEPT ![r] = FinalizeUpdate(i, p)]
    BY <1>10, <2>2 DEF ClickFinalize
  <2>4. /\ new \in Click /\ new.pc = "enqueue" /\ new.outcome = "claimed"
        /\ new.requestId = r /\ new.userId = cl.userId /\ new.action = cl.action
    BY <1>0 DEF Click
  <2> HIDE DEF new
  <2>5. p.status = DecisionOf(cl.action) /\ p.approver = cl.userId
    BY <1>0, <2>1 DEF FinalizedRequest, Request
  <2> HIDE DEF p
  <2>6. table'[r].status = DecisionOf(cl.action) /\ table'[r].doc.approver = cl.userId
    <3>1. table'[r] = FinalizeUpdate(i, p)
      BY <1>0, <2>1, <2>3 DEF IInv, TypeOK
    <3> QED BY <1>0, <2>1, <2>5, <3>1 DEF FinalizeUpdate, Item
  <2>7. ClickOK(new, table'[r])
    BY <1>0, <2>1, <2>4, <2>6 DEF ClickOK
  <2> QED BY <1>1, <2>1, <2>3, <2>4, <2>7
<1>11. CASE ClickEnqueue(c)
  <2>1. cl.outcome = "claimed"
    BY <1>0, <1>11 DEF ClickEnqueue, ClickOK
  <2> QED BY <1>2, <1>11, <2>1 DEF ClickEnqueue
<1>12. CASE ClickEnqueueFails(c)
  <2>1. cl.outcome = "claimed"
    BY <1>0, <1>12 DEF ClickEnqueueFails, ClickOK
  <2> QED BY <1>2, <1>12, <2>1 DEF ClickEnqueueFails
<1>13. CASE ClickCrash(c)
  <2> DEFINE new == [cl EXCEPT !.pc = "crashed", !.request = NoRequest]
  <2>1. click' = [click EXCEPT ![c] = new] /\ table' = table /\ cl.pc # "idle"
    BY <1>13 DEF ClickCrash
  <2>2. /\ new \in Click /\ new.pc = "crashed" /\ new.outcome = cl.outcome
        /\ new.requestId = r /\ new.userId = cl.userId /\ new.action = cl.action
    BY <1>0, NoRequestType DEF Click
  <2> HIDE DEF new
  <2>3. ClickOK(new, table'[r])
    BY <1>0, <2>1, <2>2 DEF ClickOK
  <2> QED BY <1>0, <1>1, <2>1, <2>2, <2>3
<1> QED BY <1>3, <1>4, <1>5, <1>6, <1>7, <1>8, <1>9, <1>10, <1>11, <1>12, <1>13 DEF ClickStep

\* The steps of everyone else leave the clicks alone.
LEMMA OtherSteps ==
  ASSUME Next
  PROVE  \/ UNCHANGED click
         \/ \E c \in Clicks : ClickArrive(c) \/ ClickStep(c) \/ ClickCrash(c)
BY DEF Next, Tick, NotifyRefused, NotifyPut, NotifyStep, NotifyPost, NotifyPostFails,
       NotifyRecord, NotifyRecordFails, NotifyRollback, NotifyRollbackLost, NotifyCrash,
       PollStep, PollGet, PollAnswer, PollExpire, PollRefresh, PollCrash, DropJob, Deliver,
       FxStep, FxClaim, FxClaimRetried, FxGet, FxComment, FxUpdate, FxCommentFails,
       FxUpdateFails, FxCrash

\* ClickInv is kept: by the click that moves (ClickActor) and by all others (ClickKept).
LEMMA ClickInvStep ==
  ASSUME IInv, TypeOK', TableEffect, Next
  PROVE  ClickInv'
<1>1. ASSUME \A c \in Clicks : ClickOK(click'[c], table'[click'[c].requestId]), OneHolder'
      PROVE  ClickInv'
  BY <1>1 DEF ClickInv, ClickOK, OneHolder
<1>2. OneHolder
  BY ClickInvByClick DEF IInv
<1>3. CASE UNCHANGED click
  <2>1. \A c \in Clicks : ClickOK(click'[c], table'[click'[c].requestId])
    BY <1>3, ClickKept
  <2>2. OneHolder'
    BY <1>2, <1>3 DEF OneHolder, Holds
  <2> QED BY <1>1, <2>1, <2>2
<1>4. ASSUME NEW c \in Clicks, ClickArrive(c) \/ ClickStep(c) \/ ClickCrash(c)
      PROVE  ClickInv'
  <2>1. /\ ClickOK(click'[c], table'[click'[c].requestId])
        /\ \A d \in Clicks \ {c} : click'[d] = click[d]
        /\ \A r \in Requests : Holds(c, r)' => Holds(c, r) \/ table[r].status = "pending"
    BY <1>4, ClickActor
  <2>2. \A d \in Clicks : ClickOK(click'[d], table'[click'[d].requestId])
    BY <2>1, ClickKept
  <2>3. \A d \in Clicks \ {c} : \A r \in Requests :
          Holds(d, r)' => Holds(d, r) /\ table[r].status # "pending"
    BY <2>1, HolderNotPending DEF Holds
  <2>4. OneHolder'
    <3>1. ASSUME NEW d \in Clicks, NEW g \in Clicks \ {d}, NEW r \in Requests,
                 Holds(d, r)', Holds(g, r)'
          PROVE  FALSE
      <4>1. CASE d = c
        BY <1>2, <2>1, <2>3, <3>1, <4>1 DEF OneHolder
      <4>2. CASE g = c
        BY <1>2, <2>1, <2>3, <3>1, <4>2 DEF OneHolder
      <4>3. CASE d # c /\ g # c
        BY <1>2, <2>3, <3>1, <4>3 DEF OneHolder
      <4> QED BY <4>1, <4>2, <4>3
    <3> QED BY <3>1 DEF OneHolder
  <2> QED BY <1>1, <2>2, <2>4
<1> QED BY <1>3, <1>4, OtherSteps

-----------------------------------------------------------------------------
(* The notify invocation and what it shows *)

\* A decided request that follow-ups act on was shown first.
LEMMA DeliveredWasShown ==
  ASSUME IInv, NEW e \in Executions, fx[e].pc = "effects"
  PROVE  /\ fx[e].requestId \in Requests
         /\ message[fx[e].requestId] # "none"
<1> DEFINE r == fx[e].requestId
<1>1. r \in Requests /\ table[r].sideEffects
  BY DEF IInv, FxInv
<1>2. table[r].status \in Decisions
  BY <1>1 DEF IInv, TableInv, DocumentMatchesItem, IsDecided
<1> QED BY <1>1, <1>2 DEF IInv, NotifyInv, Decisions

\* Once shown a message never goes away, and only notify shows it.
LEMMA MessageStep ==
  ASSUME IInv, Next, NEW r \in Requests
  PROVE  \/ message'[r] = message[r]
         \/ message[r] # "none" /\ message'[r] # "none"
         \/ notify[r] = "posting" /\ notify'[r] \in {"recording", "rollback"}
<1>0. message \in [Requests -> {"none", "buttons"} \cup Decisions]
      /\ notify \in [Requests -> NotifyStates] /\ fx \in [Executions -> FollowUp]
  BY DEF IInv, TypeOK
<1>1. CASE UNCHANGED message
  BY <1>1
<1>2. ASSUME NEW q \in Requests, NotifyPost(q) \/ NotifyPostFails(q)
      PROVE  \/ message'[r] = message[r]
             \/ notify[r] = "posting" /\ notify'[r] \in {"recording", "rollback"}
  BY <1>0, <1>2 DEF NotifyPost, NotifyPostFails, NotifyGoto
<1>3. ASSUME NEW e \in Executions, FxUpdate(e)
      PROVE  \/ message'[r] = message[r]
             \/ message[r] # "none" /\ message'[r] # "none"
  <2>1. fx[e].pc = "effects" /\ fx[e].request.status \in Decisions
    BY <1>3 DEF FxUpdate, Settled, IInv, FxInv, IsDecided
  <2>2. message' = [message EXCEPT ![fx[e].requestId] = fx[e].request.status]
    BY <1>3 DEF FxUpdate
  <2>3. message[fx[e].requestId] # "none"
    BY <2>1, DeliveredWasShown
  <2> QED BY <1>0, <2>1, <2>2, <2>3 DEF Decisions
<1>4. \/ UNCHANGED message
      \/ \E q \in Requests : NotifyPost(q) \/ NotifyPostFails(q)
      \/ \E e \in Executions : FxUpdate(e)
  BY DEF Next, Tick, NotifyRefused, NotifyPut, NotifyStep,
         NotifyRecord, NotifyRecordFails, NotifyRollback, NotifyRollbackLost, NotifyCrash,
         PollStep, PollGet, PollAnswer, PollExpire, PollRefresh, PollCrash, DropJob, Deliver,
         ClickArrive, ClickStep, ClickGet, ClickUnauthorized, ClickDecide, ClickExpire,
         ClickClaim, ClickClaimRetried, ClickFinalize, ClickEnqueue, ClickEnqueueFails,
         ClickCrash, FxStep, FxClaim, FxClaimRetried, FxGet, FxComment, FxCommentFails,
         FxUpdateFails, FxCrash
<1> QED BY <1>1, <1>2, <1>3, <1>4

\* A click learns of a request only from its message.
LEMMA ArrivalStep ==
  ASSUME IInv, TypeOK', Next, NEW c \in Clicks, NEW r \in Requests, click'[c].requestId = r
  PROVE  click[c].requestId = r \/ message[r] # "none"
<1>0. click \in [Clicks -> Click]
  BY DEF IInv, TypeOK
<1>1. CASE UNCHANGED click
  BY <1>1
<1>2. ASSUME NEW d \in Clicks, ClickArrive(d)
      PROVE  click[c].requestId = r \/ message[r] # "none"
  <2>1. PICK q \in Requests, u \in Users, a \in Actions :
          /\ message[q] # "none"
          /\ click' = [click EXCEPT ![d] =
               [IdleClick EXCEPT !.pc = "get", !.requestId = q, !.userId = u, !.action = a]]
    BY <1>2 DEF ClickArrive
  <2>2. [IdleClick EXCEPT !.pc = "get", !.requestId = q, !.userId = u, !.action = a].requestId = q
    BY DEF IdleClick
  <2> QED BY <1>0, <2>1, <2>2
<1>3. ASSUME NEW d \in Clicks, ClickStep(d) \/ ClickCrash(d)
      PROVE  click[c].requestId = r
  <2>1. click[d] \in Click
    BY <1>0
  <2>2. \A o : Answered(click[d], o).requestId = click[d].requestId
    BY <2>1 DEF Answered, Click
  <2>3. CASE d # c
    BY <1>0, <1>3, <2>3 DEF ClickStep, ClickGet, ClickUnauthorized, ClickDecide, ClickExpire,
       ClickClaim, ClickClaimRetried, ClickFinalize, ClickEnqueue, ClickEnqueueFails,
       ClickCrash, Answer
  <2>4. CASE d = c
    <3>1. CASE ClickUnauthorized(c) \/ ClickExpire(c) \/ ClickClaimRetried(c) \/ ClickEnqueue(c)
               \/ ClickEnqueueFails(c)
      BY <1>0, <2>2, <2>4, <3>1 DEF ClickUnauthorized, ClickExpire, ClickClaimRetried,
                                    ClickEnqueue, ClickEnqueueFails, Answer
    <3>2. CASE ClickGet(c)
      BY <1>0, <3>2 DEF ClickGet, Click
    <3>5. CASE ClickFinalize(c)
      <4>1. /\ [click[c] EXCEPT !.pc = "enqueue", !.outcome = "claimed"].requestId = click[c].requestId
            /\ [click[c] EXCEPT !.pc = "crashed"].requestId = click[c].requestId
        BY <1>0 DEF Click
      <4> QED BY <1>0, <2>4, <3>5, <4>1 DEF ClickFinalize
    <3>6. CASE ClickCrash(c)
      <4>1. [click[c] EXCEPT !.pc = "crashed", !.request = NoRequest].requestId = click[c].requestId
        BY <1>0 DEF Click
      <4> QED BY <1>0, <2>4, <3>6, <4>1 DEF ClickCrash
    <3>3. CASE ClickDecide(c)
      <4> DEFINE p == ClaimedRequest(click[c].request, click[c].action, click[c].userId)
      <4>1. /\ [click[c] EXCEPT !.pc = "expire", !.at = now].requestId = click[c].requestId
            /\ [click[c] EXCEPT !.pc = "claim", !.at = now, !.request = p].requestId
                 = click[c].requestId
        BY <1>0 DEF Click
      <4> QED BY <1>0, <2>2, <2>4, <3>3, <4>1 DEF ClickDecide, Answer
    <3>4. CASE ClickClaim(c)
      BY <1>0, <2>2, <2>4, <3>4 DEF ClickClaim, Answer, Click
    <3> QED BY <1>3, <2>4, <3>1, <3>2, <3>3, <3>4, <3>5, <3>6 DEF ClickStep
  <2> QED BY <2>3, <2>4
<1> QED BY <1>1, <1>2, <1>3, OtherSteps

\* The notify invocation of a request runs once, forwards.
NotifyMoves(r) ==
  \/ notify'[r] = notify[r]
  \/ notify[r] = "idle" /\ notify'[r] = "refused" /\ UNCHANGED table
  \/ notify[r] = "idle" /\ notify'[r] = "posting" /\ Exists(table'[r])
  \/ notify[r] = "posting" /\ notify'[r] = "recording" /\ message'[r] = "buttons"
  \/ notify[r] \in {"posting", "recording"} /\ notify'[r] = "rollback"
  \/ notify[r] = "recording" /\ notify'[r] = "created"
  \/ notify[r] \in {"posting", "recording", "rollback"} /\ notify'[r] \in {"failed", "crashed"}

\* Only notify's own steps move notify, in the order of its code.
LEMMA NotifyMovesStep ==
  ASSUME IInv, Next, NEW r \in Requests
  PROVE  NotifyMoves(r)
<1>0. /\ notify \in [Requests -> NotifyStates] /\ table \in [Requests -> Item]
      /\ message \in [Requests -> {"none", "buttons"} \cup Decisions]
  BY DEF IInv, TypeOK
<1>1. CASE UNCHANGED notify
  BY <1>1 DEF NotifyMoves
<1>2. ASSUME NEW q \in Requests, NotifyPut(q)
      PROVE  NotifyMoves(r)
  <2>1. PICK seconds \in RequestedSeconds :
          table' = [table EXCEPT ![q] = ToItem(CreatePendingRequest(seconds, now))]
    BY <1>2 DEF NotifyPut
  <2>2. Exists(ToItem(CreatePendingRequest(seconds, now)))
    <3>1. seconds \in Nat /\ now \in Nat
      BY RequestsAssumption DEF IInv, TypeOK
    <3> QED BY <3>1, PutItem
  <2> QED BY <1>0, <1>2, <2>1, <2>2 DEF NotifyPut, NotifyGoto, NotifyMoves
<1>3. ASSUME NEW q \in Requests, NotifyRefused(q) \/ NotifyStep(q) \/ NotifyCrash(q)
      PROVE  NotifyMoves(r)
  BY <1>0, <1>3 DEF NotifyRefused, NotifyStep, NotifyPost, NotifyPostFails, NotifyRecord,
     NotifyRecordFails, NotifyRollback, NotifyRollbackLost, NotifyCrash, NotifyGoto, NotifyMoves
<1>4. \/ UNCHANGED notify
      \/ \E q \in Requests : NotifyPut(q) \/ NotifyRefused(q) \/ NotifyStep(q) \/ NotifyCrash(q)
  BY DEF Next, Tick,
         PollStep, PollGet, PollAnswer, PollExpire, PollRefresh, PollCrash, DropJob, Deliver,
         ClickArrive, ClickStep, ClickGet, ClickUnauthorized, ClickDecide, ClickExpire,
         ClickClaim, ClickClaimRetried, ClickFinalize, ClickEnqueue, ClickEnqueueFails,
         ClickCrash, FxStep, FxClaim, FxClaimRetried, FxGet, FxComment, FxUpdate,
         FxCommentFails, FxUpdateFails, FxCrash
<1> QED BY <1>1, <1>2, <1>3, <1>4

\* NotifyInv is kept.
LEMMA NotifyInvStep ==
  ASSUME IInv, TypeOK', TableEffect, Next
  PROVE  NotifyInv'
<1> SUFFICES ASSUME NEW r \in Requests
             PROVE  /\ notify'[r] \in {"idle", "refused"} => table'[r] = NoItem
                    /\ notify'[r] \in {"posting", "recording", "rollback", "created"} => Exists(table'[r])
                    /\ notify'[r] \in {"recording", "created"} => message'[r] # "none"
                    /\ notify'[r] \in {"idle", "refused", "posting"} => message'[r] = "none"
                    /\ message'[r] = "none" => /\ table'[r].status \in {"absent", "pending"}
                                               /\ \A c \in Clicks : click'[c].requestId # r
  BY DEF NotifyInv
<1>1. NotifyMoves(r)
  BY NotifyMovesStep
<1>2. \/ message'[r] = message[r]
      \/ message[r] # "none" /\ message'[r] # "none"
      \/ notify[r] = "posting" /\ notify'[r] \in {"recording", "rollback"}
  BY MessageStep
<1>3. /\ notify[r] \in {"idle", "refused"} => table[r] = NoItem
      /\ notify[r] \in {"posting", "recording", "rollback", "created"} => Exists(table[r])
      /\ notify[r] \in {"recording", "created"} => message[r] # "none"
      /\ notify[r] \in {"idle", "refused", "posting"} => message[r] = "none"
      /\ message[r] = "none" => /\ table[r].status \in {"absent", "pending"}
                                /\ \A c \in Clicks : click[c].requestId # r
  BY DEF IInv, NotifyInv
<1>4. ItemEffect(r, table'[r])
  BY DEF TableEffect
<1>5. notify'[r] \in {"idle", "refused"} => table'[r] = NoItem
  <2>1. ~Exists(NoItem)
    BY DEF NoItem, Exists
  <2> QED BY <1>1, <1>3, <1>4, <2>1 DEF NotifyMoves, ItemEffect, GoodItem
<1>6. notify'[r] \in {"posting", "recording", "rollback", "created"} => Exists(table'[r])
  BY <1>1, <1>3, <1>4 DEF NotifyMoves, ItemEffect
<1>7. notify'[r] \in {"recording", "created"} => message'[r] # "none"
  BY <1>1, <1>2, <1>3 DEF NotifyMoves
<1>8. notify'[r] \in {"idle", "refused", "posting"} => message'[r] = "none"
  BY <1>1, <1>2, <1>3 DEF NotifyMoves
<1>9. message'[r] = "none" => message[r] = "none"
  BY <1>2, <1>3
<1>10. message'[r] = "none" => table'[r].status \in {"absent", "pending"}
  BY <1>3, <1>4, <1>9 DEF ItemEffect
<1>11. message'[r] = "none" => \A c \in Clicks : click'[c].requestId # r
  BY <1>3, <1>9, ArrivalStep
<1> QED BY <1>5, <1>6, <1>7, <1>8, <1>10, <1>11

-----------------------------------------------------------------------------
(* The polls, and what CI is told *)

\* PollInv, CIToldTheTruth and CIFindsItsRequest for a single request.
PollOK(created, p, status, item) ==
  /\ p.pc # "idle" => created
  /\ p.pc \in {"answer", "expire"} => AgreesWith(p.request, item) /\ p.request.status # "absent"
  /\ p.pc = "expire" => p.request.status = "pending"
  /\ status \in Decisions \cup {"expired"} => item.status = status
  /\ created => Exists(item)
  /\ status # "unknown_request"

\* The poll's part of the invariant speaks of each request on its own.
LEMMA PollInvByRequest ==
  PollInv /\ CIToldTheTruth /\ CIFindsItsRequest
    <=> \A r \in Requests : PollOK(notify[r] = "created", poll[r], told[r], table[r])
BY DEF PollInv, CIToldTheTruth, CIFindsItsRequest, PollOK

\* The step of a poll, on the request it is about.
LEMMA PollActor ==
  ASSUME IInv, NEW r \in Requests, PollStep(r) \/ PollCrash(r)
  PROVE  PollOK(notify'[r] = "created", poll'[r], told'[r], table'[r])
<1> DEFINE p == poll[r]
           i == table[r]
<1>0. /\ poll \in [Requests -> Poll] /\ p \in Poll /\ p.request \in Request
      /\ table \in [Requests -> Item] /\ i \in Item /\ GoodItem(i)
      /\ told \in [Requests -> Statuses \cup {"none", "unknown_request"}]
  BY TableInvByItem DEF IInv, TypeOK, Poll
<1>1. PollOK(notify[r] = "created", p, told[r], i)
  BY PollInvByRequest DEF IInv
<1>2. ASSUME NEW status, Tell(r, status), notify' = notify, table' = table,
             notify[r] = "created", status = i.status \/ status = "pending" \/ status = "processing"
      PROVE  PollOK(notify'[r] = "created", poll'[r], told'[r], table'[r])
  <2>1. Exists(i)
    BY <1>1, <1>2 DEF PollOK
  <2>2. status # "absent"
    BY <1>2, <2>1 DEF Exists
  <2>3. told'[r] = status /\ poll'[r] = IdlePoll
    BY <1>0, <1>2, <2>2 DEF Tell
  <2>4. IdlePoll.pc = "idle"
    BY DEF IdlePoll
  <2>5. status \in Decisions \cup {"expired"} => i.status = status
    BY <1>2 DEF Decisions
  <2>6. status # "unknown_request"
    BY <1>0, <1>2 DEF Item, Statuses, Decisions
  <2> QED BY <1>2, <2>1, <2>3, <2>4, <2>5, <2>6 DEF PollOK
<1>3. CASE PollGet(r)
  <2> DEFINE new == [pc |-> "answer", request |-> FromItem(i), at |-> 0]
  <2>1. /\ poll'[r] = new /\ told' = told /\ table' = table /\ notify' = notify
        /\ notify[r] = "created"
    BY <1>0, <1>3 DEF PollGet
  <2>2. new.pc = "answer" /\ new.request = FromItem(i)
    OBVIOUS
  <2> HIDE DEF new
  <2>3. Exists(i)
    BY <1>1, <2>1 DEF PollOK
  <2>4. AgreesWith(FromItem(i), i) /\ FromItem(i).status # "absent"
    BY <1>0, <2>3, FreshCopyAgrees DEF Exists
  <2> QED BY <1>1, <2>1, <2>2, <2>4 DEF PollOK
<1>4. CASE PollAnswer(r)
  <2>0. /\ p.pc = "answer" /\ notify[r] = "created" /\ notify' = notify /\ table' = table
        /\ AgreesWith(p.request, i)
    BY <1>1, <1>4 DEF PollAnswer, PollOK
  <2>1. CASE p.request.status = "pending" /\ IsExpired(p.request, now)
    <3> DEFINE new == [p EXCEPT !.pc = "expire", !.at = now]
    <3>1. poll'[r] = new /\ told' = told
      BY <1>0, <1>4, <2>1 DEF PollAnswer
    <3>2. new.pc = "expire" /\ new.request = p.request
      BY <1>0 DEF Poll
    <3> HIDE DEF new
    <3> QED BY <1>1, <2>0, <2>1, <3>1, <3>2 DEF PollOK
  <2>2. CASE ~(p.request.status = "pending" /\ IsExpired(p.request, now))
    <3>1. Tell(r, p.request.status)
      BY <1>4, <2>2 DEF PollAnswer
    <3>2. p.request.status \in {i.status, "pending", "processing"}
      <4>1. p.request.status # "absent"
        BY <1>1, <2>0 DEF PollOK
      <4>2. p.request.status \in Decisions \cup {"expired"} => i.status = p.request.status
        BY <2>0 DEF AgreesWith, IsTerminal
      <4> QED BY <1>0, <4>1, <4>2 DEF Request, Statuses
    <3> QED BY <1>2, <2>0, <3>1, <3>2
  <2> QED BY <2>1, <2>2
<1>5. CASE PollExpire(r)
  <2> DEFINE new == [p EXCEPT !.pc = "refresh"]
  <2>1. /\ poll'[r] = new /\ told' = told /\ notify' = notify /\ p.pc = "expire"
        /\ notify[r] = "created" /\ Expire(r, p.request, p.at)
    BY <1>0, <1>1, <1>5 DEF PollExpire, PollOK
  <2>2. new.pc = "refresh"
    BY <1>0 DEF Poll
  <2> HIDE DEF new
  <2>3. CASE ExpireCondition(i, p.at)
    <3>1. table'[r] = ExpireUpdate(i, p.request) /\ i.status = "pending"
      BY <1>0, <2>1, <2>3 DEF Expire, ExpireCondition
    <3>2. table'[r].status = "expired"
      BY <1>0, <3>1 DEF ExpireUpdate, Item
    <3>3. told[r] \notin Decisions \cup {"expired"}
      BY <1>1, <3>1 DEF PollOK, Decisions
    <3> QED BY <1>1, <2>1, <2>2, <3>2, <3>3 DEF PollOK, Exists
  <2>4. CASE ~ExpireCondition(i, p.at)
    <3>1. table' = table
      BY <2>1, <2>4 DEF Expire
    <3> QED BY <1>1, <2>1, <2>2, <3>1 DEF PollOK
  <2> QED BY <2>3, <2>4
<1>6. CASE PollRefresh(r)
  <2>1. /\ Tell(r, FromItem(i).status) /\ notify' = notify /\ table' = table
        /\ notify[r] = "created"
    BY <1>1, <1>6 DEF PollRefresh, PollOK
  <2>2. FromItem(i).status = i.status
    BY <1>0, FreshCopyAgrees
  <2> QED BY <1>2, <2>1, <2>2
<1>7. CASE PollCrash(r)
  <2>1. poll'[r] = IdlePoll /\ told' = told /\ notify' = notify /\ table' = table
    BY <1>0, <1>7 DEF PollCrash
  <2>2. IdlePoll.pc = "idle"
    BY DEF IdlePoll
  <2> QED BY <1>1, <2>1, <2>2 DEF PollOK
<1> QED BY <1>3, <1>4, <1>5, <1>6, <1>7 DEF PollStep

\* The steps of everyone but the poll of r leave that poll and its answer alone.
LEMMA OtherPolls ==
  ASSUME IInv, Next, NEW r \in Requests, ~PollStep(r), ~PollCrash(r)
  PROVE  poll'[r] = poll[r] /\ told'[r] = told[r]
<1>0. poll \in [Requests -> Poll] /\ told \in [Requests -> Statuses \cup {"none", "unknown_request"}]
  BY DEF IInv, TypeOK
<1>1. ASSUME NEW q \in Requests \ {r}, PollStep(q) \/ PollCrash(q)
      PROVE  poll'[r] = poll[r] /\ told'[r] = told[r]
  BY <1>0, <1>1 DEF PollStep, PollGet, PollAnswer, PollExpire, PollRefresh, PollCrash, Tell
<1>2. UNCHANGED <<poll, told>> \/ \E q \in Requests : PollStep(q) \/ PollCrash(q)
  BY DEF Next, Tick, NotifyRefused, NotifyPut, NotifyStep, NotifyPost, NotifyPostFails,
         NotifyRecord, NotifyRecordFails, NotifyRollback, NotifyRollbackLost, NotifyCrash,
         DropJob, Deliver,
         ClickArrive, ClickStep, ClickGet, ClickUnauthorized, ClickDecide, ClickExpire,
         ClickClaim, ClickClaimRetried, ClickFinalize, ClickEnqueue, ClickEnqueueFails,
         ClickCrash, FxStep, FxClaim, FxClaimRetried, FxGet, FxComment, FxUpdate,
         FxCommentFails, FxUpdateFails, FxCrash
<1> QED BY <1>1, <1>2

\* The poll's part of the invariant is kept.
LEMMA PollInvStep ==
  ASSUME IInv, TypeOK', TableEffect, Next
  PROVE  PollInv' /\ CIToldTheTruth' /\ CIFindsItsRequest'
<1>1. SUFFICES ASSUME NEW r \in Requests
               PROVE  PollOK(notify'[r] = "created", poll'[r], told'[r], table'[r])
  BY DEF PollInv, CIToldTheTruth, CIFindsItsRequest, PollOK
<1>2. CASE PollStep(r) \/ PollCrash(r)
  BY <1>2, PollActor
<1>3. CASE ~PollStep(r) /\ ~PollCrash(r)
  <2> DEFINE p == poll[r]
             i == table[r]
             j == table'[r]
  <2>1. poll'[r] = p /\ told'[r] = told[r]
    BY <1>3, OtherPolls
  <2>2. PollOK(notify[r] = "created", p, told[r], i)
    BY PollInvByRequest DEF IInv
  <2>3. /\ i \in Item /\ j \in Item /\ p.request \in Request /\ GoodItem(i)
        /\ ItemEffect(r, j) /\ Evolves(i, j) /\ NotifyMoves(r)
    BY TableInvByItem, NotifyMovesStep DEF IInv, TypeOK, Poll, TableEffect, ItemEffect
  <2>4. notify[r] = "created" => notify'[r] = "created" /\ Exists(j)
    BY <2>2, <2>3 DEF NotifyMoves, ItemEffect, PollOK
  <2>5. p.pc # "idle" => notify[r] = "created"
    BY <2>2 DEF PollOK
  <2>6. p.pc \in {"answer", "expire"} => AgreesWith(p.request, j)
    <3>1. p.pc \in {"answer", "expire"} => Exists(i)
      BY <2>2 DEF PollOK
    <3> QED BY <2>2, <2>3, <3>1, AgreesPreserved DEF PollOK
  <2>7. told[r] \in Decisions \cup {"expired"} => j.status = told[r]
    <3>1. told[r] \in Decisions \cup {"expired"} => i.status = told[r] /\ IsTerminal(i.doc)
      BY <2>2, <2>3 DEF PollOK, GoodItem, IsTerminal
    <3> QED BY <2>3, <3>1 DEF Evolves
  <2>8. notify'[r] = "created" => Exists(j)
    <3>1. notify'[r] = "created" => notify[r] \in {"recording", "created"}
      BY <2>3 DEF NotifyMoves
    <3>2. notify[r] \in {"recording", "created"} => Exists(i)
      BY DEF IInv, NotifyInv
    <3> QED BY <2>3, <3>1, <3>2 DEF ItemEffect
  <2> QED BY <2>1, <2>2, <2>4, <2>5, <2>6, <2>7, <2>8 DEF PollOK
<1> QED BY <1>2, <1>3

-----------------------------------------------------------------------------
(* Follow-ups and what they publish *)

\* FxInv for a single follow-up, the item and the comments of its request.
FxOK(f, item, posted) ==
  /\ f.pc # "idle" => f.requestId \in Requests
  /\ f.pc = "idle" => f = IdleFx
  /\ f.pc \in {"claim", "get"} => f.effects = {}
  /\ f.pc \in {"get", "effects"} => item.sideEffects
  /\ f.pc = "effects" => AgreesWith(f.request, item) /\ IsDecided(f.request)
  /\ f.pc = "get" \/ "comment" \in f.effects => posted = <<>>

OneDeliverer ==
  \A e \in Executions : \A g \in Executions \ {e} : \A r \in Requests :
    ~(Delivers(e, r) /\ Delivers(g, r))

\* FxInv speaks of each follow-up and its item, and of one deliverer per request.
LEMMA FxInvByFollowUp ==
  FxInv <=> /\ \A e \in Executions : FxOK(fx[e], table[fx[e].requestId], comments[fx[e].requestId])
            /\ OneDeliverer
            /\ \A r \in Requests : comments[r] # <<>> => table[r].sideEffects
BY DEF FxInv, FxOK, OneDeliverer

\* An old follow-up keeps its part of FxInv when its item evolves and nothing is
\* posted about its request.
LEMMA FxKept ==
  ASSUME IInv, TypeOK', TableEffect, NEW e \in Executions, fx'[e] = fx[e],
         fx[e].pc = "get" \/ "comment" \in fx[e].effects =>
           comments'[fx[e].requestId] = comments[fx[e].requestId]
  PROVE  FxOK(fx'[e], table'[fx'[e].requestId], comments'[fx'[e].requestId])
<1> DEFINE f == fx[e]
           r == f.requestId
           i == table[r]
           j == table'[r]
<1>0. FxOK(f, i, comments[r])
  BY FxInvByFollowUp DEF IInv
<1>1. CASE f.pc = "idle"
  <2>1. f = IdleFx /\ IdleFx.pc = "idle" /\ IdleFx.effects = {}
    BY <1>0, <1>1 DEF FxOK, IdleFx
  <2> QED BY <2>1 DEF FxOK
<1>2. CASE f.pc # "idle"
  <2>1. r \in Requests
    BY <1>0, <1>2 DEF FxOK
  <2>2. /\ i \in Item /\ j \in Item /\ f.request \in Request /\ GoodItem(i)
        /\ ItemEffect(r, j) /\ Evolves(i, j)
    <3>1. i \in Item /\ j \in Item
      BY <2>1 DEF IInv, TypeOK
    <3>2. f.request \in Request
      BY DEF IInv, TypeOK, FollowUp
    <3> QED BY <2>1, <3>1, <3>2, TableInvByItem DEF IInv, TableEffect, ItemEffect
  <2>3. i.sideEffects => j.sideEffects
    BY <2>2 DEF Evolves
  <2>4. f.pc = "effects" => AgreesWith(f.request, j)
    <3>1. f.pc = "effects" => i.sideEffects
      BY <1>0 DEF FxOK
    <3>2. f.pc = "effects" => Exists(i)
      BY <2>2, <3>1 DEF GoodItem, IsDecided, Exists, Decisions
    <3>3. f.pc = "effects" => AgreesWith(f.request, i)
      BY <1>0 DEF FxOK
    <3> QED BY <2>2, <3>2, <3>3, AgreesPreserved
  <2> QED BY <1>0, <2>3, <2>4 DEF FxOK
<1> QED BY <1>1, <1>2

\* What the follow-ups of a step do to each other's business.
FxEffect(e) ==
  /\ FxOK(fx'[e], table'[fx'[e].requestId], comments'[fx'[e].requestId])
  /\ \A g \in Executions \ {e} : fx'[g] = fx[g]
  /\ \A r \in Requests : Delivers(e, r)' => Delivers(e, r) \/ ~table[r].sideEffects
  /\ \/ UNCHANGED comments
     \/ /\ fx[e].pc = "effects" /\ fx[e].requestId \in Requests
        /\ comments[fx[e].requestId] = <<>>
        /\ comments' = [comments EXCEPT ![fx[e].requestId] =
             <<[decision |-> table[fx[e].requestId].status,
                userId   |-> table[fx[e].requestId].doc.approver]>>]
        /\ UNCHANGED table
  /\ \/ UNCHANGED message
     \/ /\ fx[e].requestId \in Requests
        /\ message' = [message EXCEPT ![fx[e].requestId] = table[fx[e].requestId].status]
        /\ UNCHANGED table

\* A job that starts, delivered or inline.
LEMMA FxStarts ==
  ASSUME IInv, TypeOK', NEW e \in Executions, NEW r \in Requests, StartFollowUp(e, r),
         UNCHANGED <<table, comments, message>>
  PROVE  FxEffect(e)
<1> DEFINE new == [IdleFx EXCEPT !.pc = "claim", !.requestId = r]
<1>1. new.pc = "claim" /\ new.requestId = r /\ new.effects = {}
  BY DEF IdleFx
<1>2. fx' = [fx EXCEPT ![e] = new] /\ fx \in [Executions -> FollowUp]
  BY DEF StartFollowUp, IInv, TypeOK
<1> HIDE DEF new
<1>3. fx'[e] = new
  BY <1>2
<1>4. FxOK(new, table'[r], comments'[r])
  BY <1>1 DEF FxOK
<1> QED BY <1>1, <1>2, <1>3, <1>4 DEF FxEffect, Delivers

\* A step of a follow-up, or its crash, does what FxEffect says.
LEMMA FxActor ==
  ASSUME IInv, TypeOK', TableEffect, NEW e \in Executions, FxStep(e) \/ FxCrash(e)
  PROVE  FxEffect(e)
<1> DEFINE f == fx[e]
           r == f.requestId
           i == table[r]
<1>0. /\ fx \in [Executions -> FollowUp] /\ f \in FollowUp /\ f.request \in Request
      /\ IdleFx.pc = "idle" /\ IdleFx.effects = {}
      /\ FxOK(f, i, comments[r])
      /\ f.pc # "idle" => r \in Requests /\ i \in Item /\ GoodItem(i)
      /\ comments \in [Requests -> Seq(Claim)]
  BY FxInvByFollowUp, TableInvByItem DEF IInv, TypeOK, FollowUp, FxOK, IdleFx
<1>1. ASSUME Finish(e), UNCHANGED <<comments, message>>
      PROVE  FxEffect(e)
  <2>1. fx'[e] = IdleFx /\ \A g \in Executions \ {e} : fx'[g] = fx[g]
    BY <1>0, <1>1 DEF Finish
  <2>2. FxOK(IdleFx, table'[fx'[e].requestId], comments'[fx'[e].requestId])
    BY <1>0 DEF FxOK
  <2> QED BY <1>0, <1>1, <2>1, <2>2 DEF FxEffect, Delivers
<1>2. CASE FxClaim(e)
  <2>1. CASE ClaimSideEffectsCondition(i)
    <3> DEFINE new == [f EXCEPT !.pc = "get"]
    <3>1. /\ fx' = [fx EXCEPT ![e] = new] /\ UNCHANGED <<comments, message>>
          /\ table' = [table EXCEPT ![r] = ClaimSideEffectsUpdate(i)] /\ f.pc = "claim"
      BY <1>2, <2>1 DEF FxClaim
    <3>2. new.pc = "get" /\ new.requestId = r /\ new.effects = f.effects
      BY <1>0 DEF FollowUp
    <3> HIDE DEF new
    <3>3. fx'[e] = new /\ \A g \in Executions \ {e} : fx'[g] = fx[g]
      BY <1>0, <3>1
    <3>4. table'[r] = ClaimSideEffectsUpdate(i)
      BY <1>0, <3>1 DEF IInv, TypeOK
    <3>5. table'[r].sideEffects
      BY <1>0, <3>1, <3>4 DEF ClaimSideEffectsUpdate, Item
    <3>6. ~i.sideEffects /\ comments[r] = <<>>
      BY <1>0, <2>1, <3>1, FxInvByFollowUp DEF ClaimSideEffectsCondition, IInv
    <3>7. FxOK(new, table'[r], comments'[r])
      BY <1>0, <3>1, <3>2, <3>5, <3>6 DEF FxOK
    <3> QED BY <3>1, <3>2, <3>3, <3>6, <3>7 DEF FxEffect, Delivers
  <2>2. CASE ~ClaimSideEffectsCondition(i)
    BY <1>1, <1>2, <2>2 DEF FxClaim
  <2> QED BY <2>1, <2>2
<1>3. CASE FxClaimRetried(e)
  BY <1>1, <1>3 DEF FxClaimRetried
<1>4. CASE FxGet(e)
  <2> DEFINE q == FromItem(i)
             new == [f EXCEPT !.pc = "effects", !.request = q,
                       !.effects = {"comment"} \cup IF q.slack THEN {"update"} ELSE {}]
  <2>1. /\ fx' = [fx EXCEPT ![e] = new] /\ UNCHANGED <<comments, message, table>>
        /\ f.pc = "get"
    BY <1>4 DEF FxGet
  <2>2. new.pc = "effects" /\ new.requestId = r /\ new.request = q
    BY <1>0 DEF FollowUp
  <2> HIDE DEF new
  <2>3. fx'[e] = new /\ \A g \in Executions \ {e} : fx'[g] = fx[g]
    BY <1>0, <2>1
  <2>4. AgreesWith(q, i) /\ q.status = i.status
    BY <1>0, <2>1, FreshCopyAgrees
  <2>5. IsDecided(q)
    BY <1>0, <2>1, <2>4 DEF FxOK, GoodItem, IsDecided
  <2> HIDE DEF q
  <2>6. FxOK(new, table'[r], comments'[r])
    BY <1>0, <2>1, <2>2, <2>4, <2>5 DEF FxOK
  <2> QED BY <2>1, <2>2, <2>3, <2>6 DEF FxEffect, Delivers
<1>5. ASSUME NEW effect \in {"comment", "update"}, Settled(e, effect), UNCHANGED table,
             UNCHANGED comments \/ effect = "comment",
             \/ UNCHANGED comments
             \/ comments' = [comments EXCEPT ![r] =
                  <<[decision |-> i.status, userId |-> i.doc.approver]>>],
             UNCHANGED message \/ message' = [message EXCEPT ![r] = i.status],
             UNCHANGED comments \/ comments[r] = <<>>
      PROVE  FxEffect(e)
  <2> DEFINE left == f.effects \ {effect}
             new == IF left = {} THEN IdleFx ELSE [f EXCEPT !.effects = left]
  <2>1. fx' = [fx EXCEPT ![e] = new] /\ f.pc = "effects" /\ effect \in f.effects
    BY <1>5 DEF Settled
  <2>2. new = IdleFx \/ /\ new.pc = "effects" /\ new.requestId = r /\ new.request = f.request
                        /\ new.effects = left
    BY <1>0, <2>1 DEF FollowUp
  <2> HIDE DEF new
  <2>3. fx'[e] = new /\ \A g \in Executions \ {e} : fx'[g] = fx[g]
    BY <1>0, <2>1
  <2>4. FxOK(new, table'[new.requestId], comments'[new.requestId])
    <3>1. CASE new = IdleFx
      BY <1>0, <3>1 DEF FxOK
    <3>2. CASE new # IdleFx
      <4>1. "comment" \in left => effect # "comment" /\ "comment" \in f.effects
        OBVIOUS
      <4> QED BY <1>0, <1>5, <2>1, <2>2, <3>2, <4>1 DEF FxOK
    <3> QED BY <3>1, <3>2
  <2>5. \A q \in Requests : Delivers(e, q)' => Delivers(e, q)
    BY <1>0, <2>1, <2>2, <2>3 DEF Delivers
  <2> QED BY <1>0, <1>5, <2>1, <2>3, <2>4, <2>5 DEF FxEffect
<1>6. ASSUME f.pc = "effects"
      PROVE  /\ f.request.status = i.status
             /\ BuildAuditComment(f.request) = [decision |-> i.status, userId |-> i.doc.approver]
  <2>1. AgreesWith(f.request, i) /\ IsDecided(f.request)
    BY <1>0, <1>6 DEF FxOK
  <2>2. f.request.status = i.status /\ f.request.approver = i.doc.approver
    BY <2>1 DEF AgreesWith, IsTerminal, IsDecided
  <2>3. f.request.claim = NoClaim
    BY <2>1 DEF AgreesWith, WellFormed, IsDecided, Decisions
  <2> QED BY <2>2, <2>3 DEF BuildAuditComment
<1>7. CASE FxComment(e)
  <2>1. Settled(e, "comment") /\ UNCHANGED <<table, message>> /\ f.pc = "effects"
        /\ "comment" \in f.effects
    BY <1>7 DEF FxComment, Settled
  <2>2. comments[r] = <<>>
    BY <1>0, <2>1 DEF FxOK
  <2>3. comments' = [comments EXCEPT ![r] = Append(<<>>, BuildAuditComment(f.request))]
    BY <1>7, <2>2 DEF FxComment
  <2>4. \A x : Append(<<>>, x) = <<x>>
    OBVIOUS
  <2>5. comments' = [comments EXCEPT ![r] = <<[decision |-> i.status, userId |-> i.doc.approver]>>]
    BY <1>6, <2>1, <2>3, <2>4
  <2> QED BY <1>5, <2>1, <2>2, <2>5
<1>8. CASE FxUpdate(e)
  <2>1. /\ Settled(e, "update") /\ UNCHANGED <<table, comments>> /\ f.pc = "effects"
        /\ message' = [message EXCEPT ![r] = f.request.status]
    BY <1>8 DEF FxUpdate, Settled
  <2> QED BY <1>5, <1>6, <2>1
<1>9. CASE FxCommentFails(e)
  BY <1>5, <1>9 DEF FxCommentFails
<1>10. CASE FxUpdateFails(e)
  BY <1>5, <1>10 DEF FxUpdateFails
<1>11. CASE FxCrash(e)
  BY <1>1, <1>11 DEF FxCrash
<1> QED BY <1>2, <1>3, <1>4, <1>7, <1>8, <1>9, <1>10, <1>11 DEF FxStep

\* Nobody else touches follow-ups, comments or decided messages.
LEMMA FxSteps ==
  ASSUME IInv, TypeOK', TableEffect, Next
  PROVE  \/ \E e \in Executions : FxEffect(e)
         \/ /\ UNCHANGED <<fx, comments>>
            /\ \A r \in Requests : message'[r] = message[r] \/ message'[r] \in {"none", "buttons"}
<1>0. message \in [Requests -> {"none", "buttons"} \cup Decisions]
  BY DEF IInv, TypeOK
<1>1. ASSUME NEW e \in Executions, FxStep(e) \/ FxCrash(e)
      PROVE  FxEffect(e)
  BY <1>1, FxActor
<1>2. ASSUME NEW w \in Workers, Deliver(w)
      PROVE  \E e \in Executions : FxEffect(e)
  <2>1. PICK r \in queue : StartFollowUp(w, r)
    BY <1>2 DEF Deliver
  <2>2. r \in Requests /\ w \in Executions
    BY <2>1 DEF IInv, TypeOK, Executions
  <2>3. FxEffect(w)
    BY <1>2, <2>1, <2>2, FxStarts DEF Deliver
  <2> QED BY <2>2, <2>3
<1>3. ASSUME NEW c \in Clicks, ClickEnqueueFails(c)
      PROVE  \E e \in Executions : FxEffect(e)
  <2>1. click[c].requestId \in Requests /\ c \in Executions
    BY <1>3 DEF ClickEnqueueFails, IInv, ClickInv, Executions
  <2>2. FxEffect(c)
    BY <1>3, <2>1, FxStarts DEF ClickEnqueueFails
  <2> QED BY <2>1, <2>2
<1>4. ASSUME NEW q \in Requests, NotifyPost(q) \/ NotifyPostFails(q)
      PROVE  /\ UNCHANGED <<fx, comments>>
             /\ \A r \in Requests : message'[r] = message[r] \/ message'[r] \in {"none", "buttons"}
  BY <1>0, <1>4 DEF NotifyPost, NotifyPostFails
<1>5. \/ \E e \in Executions : FxStep(e) \/ FxCrash(e)
      \/ \E w \in Workers : Deliver(w)
      \/ \E c \in Clicks : ClickEnqueueFails(c)
      \/ \E q \in Requests : NotifyPost(q) \/ NotifyPostFails(q)
      \/ UNCHANGED <<fx, comments, message>>
  BY DEF Next, Tick, NotifyRefused, NotifyPut, NotifyStep,
         NotifyRecord, NotifyRecordFails, NotifyRollback, NotifyRollbackLost, NotifyCrash,
         PollStep, PollGet, PollAnswer, PollExpire, PollRefresh, PollCrash, DropJob,
         ClickArrive, ClickStep, ClickGet, ClickUnauthorized, ClickDecide, ClickExpire,
         ClickClaim, ClickClaimRetried, ClickFinalize, ClickEnqueue, ClickCrash
<1> QED BY <1>1, <1>2, <1>3, <1>4, <1>5

\* FxInv is kept.
LEMMA FxInvStep ==
  ASSUME IInv, TypeOK', TableEffect, Next
  PROVE  FxInv'
<1>1. ASSUME \A e \in Executions : FxOK(fx'[e], table'[fx'[e].requestId], comments'[fx'[e].requestId]),
             OneDeliverer',
             \A r \in Requests : comments'[r] # <<>> => table'[r].sideEffects
      PROVE  FxInv'
  BY <1>1 DEF FxInv, FxOK, OneDeliverer
<1>2. /\ \A e \in Executions : FxOK(fx[e], table[fx[e].requestId], comments[fx[e].requestId])
      /\ OneDeliverer
      /\ \A r \in Requests : comments[r] # <<>> => table[r].sideEffects
      /\ fx \in [Executions -> FollowUp]
  BY FxInvByFollowUp DEF IInv, TypeOK
<1>3. \A r \in Requests : table[r].sideEffects => table'[r].sideEffects
  BY DEF TableEffect, ItemEffect, Evolves
<1>4. CASE UNCHANGED <<fx, comments>>
  <2>1. \A e \in Executions : FxOK(fx'[e], table'[fx'[e].requestId], comments'[fx'[e].requestId])
    BY <1>4, FxKept
  <2>2. OneDeliverer'
    BY <1>2, <1>4 DEF OneDeliverer, Delivers
  <2> QED BY <1>1, <1>2, <1>3, <1>4, <2>1, <2>2
<1>5. ASSUME NEW e \in Executions, FxEffect(e)
      PROVE  FxInv'
  <2>1. \A g \in Executions \ {e} : fx'[g] = fx[g]
    BY <1>5 DEF FxEffect
  <2>2. ASSUME NEW g \in Executions \ {e}, fx[g].pc = "get" \/ "comment" \in fx[g].effects
        PROVE  comments'[fx[g].requestId] = comments[fx[g].requestId]
    <3>1. fx[g].pc \in {"get", "effects"} /\ fx[g].requestId \in Requests
      BY <1>2, <2>2 DEF FxOK, FollowUp, IdleFx
    <3>2. CASE UNCHANGED comments
      BY <3>2
    <3>3. CASE /\ fx[e].pc = "effects"
               /\ \E posted : comments' = [comments EXCEPT ![fx[e].requestId] = posted]
      <4>1. fx[g].requestId # fx[e].requestId
        BY <1>2, <3>1, <3>3 DEF OneDeliverer, Delivers
      <4> QED BY <3>1, <3>3, <4>1 DEF IInv, TypeOK
    <3> QED BY <1>5, <3>2, <3>3 DEF FxEffect
  <2>3. \A g \in Executions : FxOK(fx'[g], table'[fx'[g].requestId], comments'[fx'[g].requestId])
    BY <1>5, <2>1, <2>2, FxKept DEF FxEffect
  <2>4. OneDeliverer'
    <3>1. ASSUME NEW g \in Executions \ {e}, NEW r \in Requests, Delivers(e, r)', Delivers(g, r)'
          PROVE  FALSE
      <4>1. Delivers(g, r) /\ table[r].sideEffects
        BY <1>2, <2>1, <3>1 DEF Delivers, FxOK
      <4>2. Delivers(e, r)
        BY <1>5, <3>1, <4>1 DEF FxEffect
      <4> QED BY <1>2, <4>1, <4>2 DEF OneDeliverer
    <3>2. ASSUME NEW g \in Executions \ {e}, NEW r \in Requests, Delivers(g, r)'
          PROVE  Delivers(g, r)
      BY <2>1, <3>2 DEF Delivers
    <3> QED BY <1>2, <3>1, <3>2 DEF OneDeliverer
  <2>5. \A r \in Requests : comments'[r] # <<>> => table'[r].sideEffects
    <3>1. fx[e].pc = "effects" => table[fx[e].requestId].sideEffects
      BY <1>2 DEF FxOK
    <3> QED BY <1>2, <1>3, <1>5, <3>1 DEF FxEffect, IInv, TypeOK
  <2> QED BY <1>1, <2>3, <2>4, <2>5
<1> QED BY <1>4, <1>5, FxSteps

\* A sequence of length one at most is empty or has one element.
LEMMA AtMostOne ==
  ASSUME NEW S, NEW s \in Seq(S), Len(s) =< 1
  PROVE  s = <<>> \/ (s = <<s[1]>> /\ Len(s) = 1)
<1>1. CASE Len(s) = 0
  BY <1>1, EmptySeq
<1>2. CASE Len(s) = 1
  <2>1. s[1] \in S
    BY <1>2, ElementOfSeq
  <2>2. <<s[1]>> \in Seq(S) /\ Len(<<s[1]>>) = 1 /\ <<s[1]>>[1] = s[1]
    BY <2>1
  <2>3. \A k \in 1..Len(s) : s[k] = <<s[1]>>[k]
    BY <1>2, <2>2
  <2>4. s = <<s[1]>>
    BY <1>2, <2>2, <2>3, SeqEqual
  <2> QED BY <1>2, <2>4
<1>3. Len(s) \in Nat
  BY LenProperties
<1>4. Len(s) = 0 \/ Len(s) = 1
  <2>1. \A n \in Nat : n =< 1 => n = 0 \/ n = 1
    OBVIOUS
  <2> QED BY <1>3, <2>1
<1> QED BY <1>1, <1>2, <1>4

\* PublishedOnceAndTrue is kept: what is published of a decided item stays true.
LEMMA PublishedStep ==
  ASSUME IInv, TypeOK', TableEffect, Next
  PROVE  PublishedOnceAndTrue'
<1> DEFINE Says(r) == <<[decision |-> table[r].status, userId |-> table[r].doc.approver]>>
<1>1. ASSUME NEW r \in Requests
      PROVE  /\ comments[r] = <<>> \/ (comments[r] = Says(r) /\ IsTerminal(table[r].doc))
             /\ message[r] \in Decisions => message[r] = table[r].status /\ IsTerminal(table[r].doc)
  <2>1. /\ comments[r] \in Seq(Claim) /\ GoodItem(table[r])
        /\ comments[r] # <<>> => table[r].sideEffects
    BY TableInvByItem DEF IInv, TypeOK, FxInv
  <2>2. /\ Len(comments[r]) =< 1
        /\ Len(comments[r]) = 1 =>
             comments[r][1] = [decision |-> table[r].status, userId |-> table[r].doc.approver]
        /\ message[r] \in Decisions => message[r] = table[r].status
    BY DEF IInv, PublishedOnceAndTrue
  <2>3. comments[r] = <<>> \/ comments[r] = Says(r)
    BY <2>1, <2>2, AtMostOne
  <2>4. comments[r] # <<>> => IsTerminal(table[r].doc)
    BY <2>1 DEF GoodItem, IsDecided, IsTerminal
  <2>5. message[r] \in Decisions => IsTerminal(table[r].doc)
    BY <2>1, <2>2 DEF GoodItem, IsTerminal
  <2> QED BY <2>2, <2>3, <2>4, <2>5
<1>2. ASSUME NEW r \in Requests, IsTerminal(table[r].doc)
      PROVE  table'[r].status = table[r].status /\ table'[r].doc.approver = table[r].doc.approver
  BY <1>2 DEF TableEffect, ItemEffect, Evolves
<1>3. ASSUME NEW x
      PROVE  Len(<<>>) = 0 /\ Len(<<x>>) = 1 /\ <<x>>[1] = x
  OBVIOUS
<1>4. SUFFICES ASSUME NEW r \in Requests
               PROVE  /\ comments'[r] = <<>> \/ comments'[r] =
                           <<[decision |-> table'[r].status, userId |-> table'[r].doc.approver]>>
                      /\ message'[r] \in Decisions => message'[r] = table'[r].status
  <2>1. ASSUME NEW s, NEW x, s = <<>> \/ s = <<x>>
        PROVE  Len(s) =< 1 /\ (Len(s) = 1 => s[1] = x)
    BY <1>3, <2>1
  <2> QED BY <2>1 DEF PublishedOnceAndTrue
<1>5. /\ comments'[r] = comments[r] \/ (comments'[r] = Says(r) /\ UNCHANGED table)
      /\ \/ message'[r] = message[r] \/ message'[r] \in {"none", "buttons"}
         \/ message'[r] = table[r].status /\ UNCHANGED table
  <2>1. ASSUME NEW e \in Executions, FxEffect(e)
        PROVE  /\ comments'[r] = comments[r] \/ (comments'[r] = Says(r) /\ UNCHANGED table)
               /\ message'[r] = message[r] \/ (message'[r] = table[r].status /\ UNCHANGED table)
    <3> DEFINE q == fx[e].requestId
    <3>0. /\ comments \in [Requests -> Seq(Claim)]
          /\ message \in [Requests -> {"none", "buttons"} \cup Decisions]
      BY DEF IInv, TypeOK
    <3>1. UNCHANGED comments \/ (comments' = [comments EXCEPT ![q] = Says(q)] /\ UNCHANGED table)
      BY <2>1 DEF FxEffect
    <3>2. UNCHANGED message \/ (message' = [message EXCEPT ![q] = table[q].status] /\ UNCHANGED table)
      BY <2>1 DEF FxEffect
    <3> HIDE DEF q, Says
    <3>3. comments'[r] = comments[r] \/ (comments'[r] = Says(r) /\ UNCHANGED table)
      BY <3>0, <3>1
    <3>4. message'[r] = message[r] \/ (message'[r] = table[r].status /\ UNCHANGED table)
      BY <3>0, <3>2
    <3> QED BY <3>3, <3>4
  <2> QED BY <2>1, FxSteps
<1>6. comments'[r] = <<>> \/ comments'[r] =
        <<[decision |-> table'[r].status, userId |-> table'[r].doc.approver]>>
  BY <1>1, <1>2, <1>5
<1>7. message'[r] \in Decisions => message'[r] = table'[r].status
  BY <1>1, <1>2, <1>5 DEF Decisions
<1> QED BY <1>6, <1>7

-----------------------------------------------------------------------------
(* Who decided *)

Claimed   == {"processing"} \cup Decisions
Committed == {"finalize", "enqueue", "done", "crashed"}

\* A claim, once made, names the same decision and user for ever.
LEMMA ClaimKept ==
  ASSUME NEW i \in Item, NEW j \in Item, GoodItem(i), GoodItem(j), Evolves(i, j),
         i.status \in Claimed
  PROVE  /\ BuildAuditComment(j.doc) = BuildAuditComment(i.doc)
         /\ j.status \in Claimed /\ j.expiresAt = i.expiresAt
<1>1. i.status \notin {"absent", "pending"} /\ Exists(i)
  BY DEF Claimed, Decisions, Exists
<1>2. j.status \notin {"absent", "pending"} /\ Exists(j)
  BY <1>1 DEF Evolves, Exists
<1>3. j.expiresAt = i.expiresAt
  BY <1>1, <1>2 DEF Evolves
<1>4. CASE i.status = "processing"
  <2>1. i.doc.claim # NoClaim /\ i.doc.claim \in Claim
    BY <1>4 DEF GoodItem, Item, Request
  <2>2. BuildAuditComment(i.doc) = i.doc.claim
    BY <2>1 DEF BuildAuditComment
  <2>3. CASE j.status = "processing" /\ j.doc.claim = i.doc.claim
    BY <1>3, <2>1, <2>2, <2>3 DEF BuildAuditComment, Claimed
  <2>4. CASE j.status = i.doc.claim.decision /\ j.doc.approver = i.doc.claim.userId
    <3>1. j.status \in Decisions
      BY <2>1, <2>4 DEF Claim
    <3>2. j.doc.claim = NoClaim /\ j.doc.status = j.status
      BY <3>1 DEF GoodItem, Decisions
    <3>3. BuildAuditComment(j.doc) = [decision |-> i.doc.claim.decision, userId |-> i.doc.claim.userId]
      BY <2>4, <3>2 DEF BuildAuditComment
    <3>4. i.doc.claim = [decision |-> i.doc.claim.decision, userId |-> i.doc.claim.userId]
      BY <2>1 DEF Claim
    <3> QED BY <1>3, <2>2, <3>1, <3>3, <3>4 DEF Claimed
  <2> QED BY <1>4, <2>3, <2>4 DEF Evolves
<1>5. CASE i.status \in Decisions
  <2>1. i.doc.claim = NoClaim /\ i.doc.status = i.status /\ IsTerminal(i.doc)
    BY <1>5 DEF GoodItem, Decisions, IsTerminal
  <2>2. j.status = i.status /\ j.doc.approver = i.doc.approver
    BY <2>1 DEF Evolves
  <2>3. j.doc.claim = NoClaim /\ j.doc.status = j.status
    BY <1>5, <2>2 DEF GoodItem, Decisions
  <2> QED BY <1>3, <1>5, <2>1, <2>2, <2>3 DEF BuildAuditComment, Claimed
<1> QED BY <1>4, <1>5 DEF Claimed

\* What a click is about does not change once it sent its claim.
LEMMA CommittedKept ==
  ASSUME IInv, TypeOK', TableEffect, Next, NEW c \in Clicks,
         click[c].pc \in Committed
  PROVE  /\ click'[c].pc \in Committed
         /\ click'[c].requestId = click[c].requestId /\ click'[c].userId = click[c].userId
         /\ click'[c].action = click[c].action /\ click'[c].at = click[c].at
<1> DEFINE Goal == /\ click'[c].pc \in Committed
                   /\ click'[c].requestId = click[c].requestId /\ click'[c].userId = click[c].userId
                   /\ click'[c].action = click[c].action /\ click'[c].at = click[c].at
<1>0. click \in [Clicks -> Click] /\ click[c] \in Click
  BY DEF IInv, TypeOK
<1>1. CASE click'[c] = click[c]
  BY <1>1
<1>2. ASSUME NEW o, Answer(c, o)
      PROVE  Goal
  <2>1. click'[c] = Answered(click[c], o)
    BY <1>0, <1>2 DEF Answer
  <2> QED BY <1>0, <2>1 DEF Answered, Click, Committed
<1>3. CASE ClickFinalize(c)
  <2>1. \/ click'[c] = [click[c] EXCEPT !.pc = "enqueue", !.outcome = "claimed"]
        \/ click'[c] = [click[c] EXCEPT !.pc = "crashed"]
    BY <1>0, <1>3 DEF ClickFinalize
  <2> QED BY <1>0, <2>1 DEF Click, Committed
<1>4. CASE ClickCrash(c)
  <2>1. click'[c] = [click[c] EXCEPT !.pc = "crashed", !.request = NoRequest]
    BY <1>0, <1>4 DEF ClickCrash
  <2> QED BY <1>0, <2>1 DEF Click, Committed
<1>5. CASE ClickEnqueue(c) \/ ClickEnqueueFails(c)
  BY <1>2, <1>5 DEF ClickEnqueue, ClickEnqueueFails
<1>6. ASSUME ClickArrive(c) \/ ClickStep(c) \/ ClickCrash(c)
      PROVE  ClickFinalize(c) \/ ClickCrash(c) \/ ClickEnqueue(c) \/ ClickEnqueueFails(c)
  BY <1>6 DEF ClickArrive, ClickStep, ClickGet, ClickUnauthorized, ClickDecide, ClickExpire,
              ClickClaim, ClickClaimRetried, Committed
<1>7. ASSUME NEW d \in Clicks \ {c}, ClickArrive(d) \/ ClickStep(d) \/ ClickCrash(d)
      PROVE  click'[c] = click[c]
  BY <1>7, ClickActor
<1> QED BY <1>1, <1>3, <1>4, <1>5, <1>6, <1>7, OtherSteps

\* A request leaves "pending" for a claim only by the claim of a click that read
\* it, was authorized, and was in time by its own clock.
LEMMA ClaimStep ==
  ASSUME IInv, TypeOK', TableEffect, Next, NEW r \in Requests,
         table[r].status \notin Claimed, table'[r].status \in Claimed
  PROVE  \E c \in Clicks :
           /\ ClickClaim(c) \/ ClickClaimRetried(c)
           /\ click[c].requestId = r /\ ClaimCondition(table[r], click[c].at)
           /\ table' = [table EXCEPT ![r] = ClaimUpdate(table[r], click[c].request)]
<1> DEFINE Goal == \E c \in Clicks :
             /\ ClickClaim(c) \/ ClickClaimRetried(c)
             /\ click[c].requestId = r /\ ClaimCondition(table[r], click[c].at)
             /\ table' = [table EXCEPT ![r] = ClaimUpdate(table[r], click[c].request)]
<1>0. table \in [Requests -> Item] /\ now \in Nat
  BY RequestsAssumption DEF IInv, TypeOK
<1>1. table' # table
  OBVIOUS
<1>2. ASSUME NEW q, NEW j, table' = [table EXCEPT ![q] = j]
      PROVE  q = r /\ j.status \in Claimed
  <2>1. CASE q # r
    <3>1. table'[r] = table[r]
      BY <1>0, <1>2, <2>1
    <3> QED BY <3>1
  <2>2. CASE q = r
    BY <1>0, <1>2, <2>2
  <2> QED BY <2>1, <2>2
<1>3. ASSUME NEW q \in Requests, NotifyPut(q)
      PROVE  FALSE
  <2>1. PICK seconds \in RequestedSeconds :
          table' = [table EXCEPT ![q] = ToItem(CreatePendingRequest(seconds, now))]
    BY <1>3 DEF NotifyPut
  <2>2. ToItem(CreatePendingRequest(seconds, now)).status = "pending"
    BY <1>0, RequestsAssumption, PutItem
  <2> QED BY <1>2, <2>1, <2>2 DEF Claimed, Decisions
<1>4. ASSUME NEW q \in Requests, NotifyRecord(q) \/ NotifyRecordFails(q)
      PROVE  FALSE
  <2>1. table' = [table EXCEPT ![q] = SetSlackRefUpdate(table[q])]
    BY <1>1, <1>4 DEF NotifyRecord, NotifyRecordFails
  <2>2. SetSlackRefUpdate(table[q]).status = table[q].status
    BY <1>0 DEF SetSlackRefUpdate, Item
  <2> QED BY <1>2, <2>1, <2>2
<1>5. ASSUME NEW q \in Requests, NotifyRollback(q)
      PROVE  FALSE
  <2>1. table' = [table EXCEPT ![q] = NoItem]
    BY <1>1, <1>5 DEF NotifyRollback
  <2> QED BY <1>2, <2>1 DEF NoItem, Claimed, Decisions
<1>6. ASSUME NEW q \in Requests, NEW p, NEW t, Expire(q, p, t)
      PROVE  FALSE
  <2>1. table' = [table EXCEPT ![q] = ExpireUpdate(table[q], p)]
    BY <1>1, <1>6 DEF Expire
  <2>2. ExpireUpdate(table[q], p).status = "expired"
    BY <1>0 DEF ExpireUpdate, Item
  <2> QED BY <1>2, <2>1, <2>2 DEF Claimed, Decisions
<1>7. ASSUME NEW e \in Executions, FxClaim(e) \/ FxClaimRetried(e)
      PROVE  FALSE
  <2> DEFINE q == fx[e].requestId
  <2>1. table' = [table EXCEPT ![q] = ClaimSideEffectsUpdate(table[q])]
    BY <1>1, <1>7 DEF FxClaim, FxClaimRetried
  <2>2. q \in Requests
    BY <1>7 DEF FxClaim, FxClaimRetried, IInv, FxInv
  <2>3. ClaimSideEffectsUpdate(table[q]).status = table[q].status
    BY <1>0, <2>2 DEF ClaimSideEffectsUpdate, Item
  <2> QED BY <1>2, <2>1, <2>3
<1>8. ASSUME NEW c \in Clicks, ClickFinalize(c)
      PROVE  FALSE
  <2> DEFINE q == click[c].requestId
             j == FinalizeUpdate(table[q], FinalizedRequest(click[c].request))
  <2>1. table' = [table EXCEPT ![q] = j] /\ click[c].pc = "finalize"
    BY <1>1, <1>8 DEF ClickFinalize
  <2> HIDE DEF j
  <2>2. table[q].status = "processing"
    BY <2>1 DEF IInv, ClickInv
  <2> QED BY <1>2, <2>1, <2>2 DEF Claimed
<1>9. ASSUME NEW c \in Clicks, ClickClaim(c) \/ ClickClaimRetried(c)
      PROVE  Goal
  <2> DEFINE q == click[c].requestId
  <2>1. /\ table' = [table EXCEPT ![q] = ClaimUpdate(table[q], click[c].request)]
        /\ ClaimCondition(table[q], click[c].at)
    BY <1>1, <1>9 DEF ClickClaim, ClickClaimRetried
  <2>2. q = r
    BY <1>2, <2>1
  <2> QED BY <1>9, <2>1, <2>2
<1>10. ASSUME NEW q \in Requests, PollExpire(q)
       PROVE  FALSE
  BY <1>6, <1>10 DEF PollExpire
<1>11. ASSUME NEW c \in Clicks, ClickExpire(c)
       PROVE  FALSE
  <2>1. click[c].requestId \in Requests
    BY <1>11 DEF ClickExpire, IInv, ClickInv
  <2> QED BY <1>6, <1>11, <2>1 DEF ClickExpire
<1>12. \/ UNCHANGED table
       \/ \E q \in Requests : \/ NotifyPut(q) \/ NotifyRecord(q) \/ NotifyRecordFails(q)
                              \/ NotifyRollback(q) \/ PollExpire(q)
       \/ \E c \in Clicks : \/ ClickExpire(c) \/ ClickClaim(c) \/ ClickClaimRetried(c)
                            \/ ClickFinalize(c)
       \/ \E e \in Executions : FxClaim(e) \/ FxClaimRetried(e)
  BY DEF Next, Tick, NotifyRefused, NotifyStep, NotifyPost, NotifyPostFails,
         NotifyRollbackLost, NotifyCrash, PollStep, PollGet, PollAnswer, PollRefresh,
         PollCrash, DropJob, Deliver, ClickArrive, ClickStep, ClickGet, ClickUnauthorized, ClickDecide,
         ClickEnqueue, ClickEnqueueFails, ClickCrash, FxStep, FxGet, FxComment, FxUpdate,
         FxCommentFails, FxUpdateFails, FxCrash
<1> QED BY <1>1, <1>3, <1>4, <1>5, <1>7, <1>8, <1>9, <1>10, <1>11, <1>12

\* DecidedByApprover for one request, with the click that is the witness.
Witness(cl, r, comment, deadline) ==
  /\ cl.pc \in Committed
  /\ cl.requestId = r
  /\ cl.userId = comment.userId
  /\ DecisionOf(cl.action) = comment.decision
  /\ cl.at < deadline

\* DecidedByApprover is kept: an old claim keeps its witness, a new one brings its own.
LEMMA DecidedStep ==
  ASSUME IInv, TypeOK', TableEffect, Next
  PROVE  DecidedByApprover'
<1> SUFFICES ASSUME NEW r \in Requests, table'[r].status \in Claimed
             PROVE  /\ IsAuthorizedApprover(BuildAuditComment(table'[r].doc).userId, RepoOf[r])
                    /\ \E c \in Clicks :
                         Witness(click'[c], r, BuildAuditComment(table'[r].doc), table'[r].expiresAt)
  BY DEF DecidedByApprover, Witness, Claimed, Committed
<1> DEFINE i == table[r]
           j == table'[r]
<1>0. /\ i \in Item /\ j \in Item /\ GoodItem(i) /\ GoodItem(j) /\ Evolves(i, j)
      /\ table \in [Requests -> Item]
  BY TableInvByItem DEF IInv, TypeOK, TableEffect, ItemEffect
<1>1. CASE i.status \in Claimed
  <2>1. BuildAuditComment(j.doc) = BuildAuditComment(i.doc) /\ j.expiresAt = i.expiresAt
    BY <1>0, <1>1, ClaimKept
  <2>2. PICK c \in Clicks : Witness(click[c], r, BuildAuditComment(i.doc), i.expiresAt)
    BY <1>1 DEF IInv, DecidedByApprover, Witness, Claimed, Committed
  <2>3. Witness(click'[c], r, BuildAuditComment(j.doc), j.expiresAt)
    BY <2>1, <2>2, CommittedKept DEF Witness
  <2>4. IsAuthorizedApprover(BuildAuditComment(i.doc).userId, RepoOf[r])
    BY <1>1 DEF IInv, DecidedByApprover, Claimed
  <2> QED BY <2>1, <2>3, <2>4
<1>2. CASE i.status \notin Claimed
  <2>1. PICK c \in Clicks :
          /\ ClickClaim(c) \/ ClickClaimRetried(c)
          /\ click[c].requestId = r /\ ClaimCondition(i, click[c].at)
          /\ table' = [table EXCEPT ![r] = ClaimUpdate(i, click[c].request)]
    BY <1>2, ClaimStep
  <2> DEFINE cl == click[c]
  <2>2. /\ cl.pc = "claim" /\ cl \in Click /\ cl.at \in Nat /\ click \in [Clicks -> Click]
    BY <2>1 DEF ClickClaim, ClickClaimRetried, IInv, TypeOK, Click
  <2>3. /\ cl.request.status = "processing"
        /\ cl.request.claim = [decision |-> DecisionOf(cl.action), userId |-> cl.userId]
        /\ IsAuthorizedApprover(cl.userId, RepoOf[r])
        /\ cl.userId \in Users
    BY <2>1, <2>2 DEF IInv, ClickInv
  <2>4. j.doc = cl.request /\ j.expiresAt = i.expiresAt
    <3>1. j = ClaimUpdate(i, cl.request)
      BY <1>0, <2>1
    <3> QED BY <1>0, <3>1 DEF ClaimUpdate, Item
  <2>5. BuildAuditComment(j.doc) = [decision |-> DecisionOf(cl.action), userId |-> cl.userId]
    <3>1. cl.request.claim # NoClaim
      BY <2>3, NoUserAssumption DEF NoClaim
    <3> QED BY <2>3, <2>4, <3>1 DEF BuildAuditComment
  <2>6. /\ click'[c].pc \in Committed /\ click'[c].requestId = r /\ click'[c].userId = cl.userId
        /\ click'[c].action = cl.action /\ click'[c].at = cl.at
    <3>1. \/ click'[c] = [cl EXCEPT !.pc = "finalize"]
          \/ click'[c] = Answered(cl, "duplicate")
      BY <2>1, <2>2 DEF ClickClaim, ClickClaimRetried, Answer
    <3>2. CASE click'[c] = [cl EXCEPT !.pc = "finalize"]
      BY <2>1, <2>2, <3>2 DEF Click, Committed
    <3>3. CASE click'[c] = Answered(cl, "duplicate")
      BY <2>1, <2>2, <3>3 DEF Answered, Click, Committed
    <3> QED BY <3>1, <3>2, <3>3
  <2>7. cl.at < j.expiresAt
    BY <1>0, <2>1, <2>2, <2>4 DEF ClaimCondition, Item
  <2>8. Witness(click'[c], r, BuildAuditComment(j.doc), j.expiresAt)
    BY <2>5, <2>6, <2>7 DEF Witness
  <2> QED BY <2>3, <2>5, <2>8
<1> QED BY <1>1, <1>2

-----------------------------------------------------------------------------
(* The inductive invariant holds *)

\* The inductive invariant holds before any invocation.
LEMMA InitInv == Init => IInv
<1> SUFFICES ASSUME Init PROVE IInv
  OBVIOUS
<1>1. TypeOK
  <2>1. IdlePoll \in Poll /\ IdleClick \in Click /\ IdleFx \in FollowUp
    BY NoRequestType DEF IdlePoll, IdleClick, IdleFx, Poll, Click, FollowUp
  <2>2. <<>> \in Seq(Claim)
    BY EmptySeq
  <2> QED BY <2>1, <2>2, NoItemType, RequestsAssumption DEF Init, TypeOK, NotifyStates
<1>2. \A r \in Requests : table[r] = NoItem /\ ~Exists(table[r]) /\ table[r].status = "absent"
  BY DEF Init, NoItem, Exists
<1>3. GoodItem(NoItem)
  <2>1. /\ NoItem.status = "absent" /\ NoItem.doc = NoRequest /\ ~NoItem.sideEffects
        /\ NoItem.claimUserId = NoUser /\ NoItem.expiresAt = 0
    BY DEF NoItem
  <2>2. /\ NoRequest.status = "absent" /\ NoRequest.claim = NoClaim /\ NoRequest.approver = NoUser
        /\ NoRequest.expiresAt = 0
    BY DEF NoRequest
  <2>3. NoClaim.userId = NoUser
    BY DEF NoClaim
  <2> QED BY <2>1, <2>2, <2>3 DEF GoodItem, WellFormed, IsDecided, Decisions, Exists
<1>4. TableInv
  BY <1>2, <1>3, TableInvByItem
<1>5. \A c \in Clicks : click[c] = IdleClick /\ click[c].pc = "idle" /\ click[c].outcome = "none"
                        /\ click[c].requestId = "none"
  BY DEF Init, IdleClick
<1>6. NotifyInv
  BY <1>2, <1>5, RequestsAssumption DEF Init, NotifyInv
<1>7. PollInv /\ CIToldTheTruth /\ CIFindsItsRequest
  BY DEF Init, PollInv, IdlePoll, CIToldTheTruth, CIFindsItsRequest, Decisions
<1>8. ClickInv
  BY <1>5 DEF ClickInv, Holds
<1>9. \A e \in Executions : fx[e] = IdleFx /\ fx[e].pc = "idle" /\ fx[e].effects = {}
  BY DEF Init, IdleFx
<1>10. FxInv
  BY <1>9 DEF Init, FxInv, Delivers
<1>11. DecidedByApprover
  BY <1>2 DEF DecidedByApprover, Decisions
<1>12. PublishedOnceAndTrue
  <2>1. Len(<<>>) = 0
    OBVIOUS
  <2> QED BY <2>1 DEF Init, PublishedOnceAndTrue, Decisions
<1> QED BY <1>1, <1>4, <1>6, <1>7, <1>8, <1>10, <1>11, <1>12 DEF IInv

\* Every step, and every stutter, keeps the inductive invariant.
LEMMA NextInv == IInv /\ [Next]_vars => IInv'
<1>1. ASSUME IInv, Next
      PROVE  IInv'
  <2>1. TypeOK' /\ TableEffect
    BY <1>1, TypeStep, TableStep DEF IInv
  <2>2. TableInv'
    BY <2>1 DEF TableEffect, ItemEffect, TableInv, DocumentMatchesItem, GoodItem
  <2> QED BY <1>1, <2>1, <2>2, NotifyInvStep, PollInvStep, ClickInvStep, FxInvStep,
             DecidedStep, PublishedStep DEF IInv
<1>2. ASSUME IInv, UNCHANGED vars
      PROVE  IInv'
  <2>1. TypeOK' /\ TableInv' /\ NotifyInv' /\ PollInv'
    BY <1>2 DEF vars, IInv, TypeOK, TableInv, DocumentMatchesItem, NotifyInv, PollInv
  <2>2. ClickInv' /\ FxInv'
    BY <1>2 DEF vars, IInv, ClickInv, FxInv, Holds, Delivers
  <2>3. DecidedByApprover' /\ PublishedOnceAndTrue' /\ CIToldTheTruth' /\ CIFindsItsRequest'
    BY <1>2 DEF vars, IInv, DecidedByApprover, PublishedOnceAndTrue, CIToldTheTruth,
                CIFindsItsRequest
  <2> QED BY <2>1, <2>2, <2>3 DEF IInv
<1> QED BY <1>1, <1>2

\* IInv holds in every reachable state, whatever the environment does.
THEOREM Invariance == Spec => []IInv
<1>1. Init => IInv
  BY InitInv
<1>2. IInv /\ [Next]_vars => IInv'
  BY NextInv
<1> QED BY <1>1, <1>2, PTL DEF Spec

-----------------------------------------------------------------------------
(* The safety properties *)

\* Every variable keeps its type.
THEOREM TypeCorrectness == Spec => []TypeOK
<1>1. IInv => TypeOK
  BY DEF IInv
<1> QED BY <1>1, Invariance, PTL

\* The attributes the store's conditions test always agree with the document.
THEOREM DocumentsMatch == Spec => []DocumentMatchesItem
<1>1. IInv => DocumentMatchesItem
  BY DEF IInv, TableInv
<1> QED BY <1>1, Invariance, PTL

\* Only an authorized approver, by a click in time, claims or decides a request.
THEOREM ApproversDecide == Spec => []DecidedByApprover
<1>1. IInv => DecidedByApprover
  BY DEF IInv
<1> QED BY <1>1, Invariance, PTL

\* At most one click wins, and the store holds its decision from then on.
THEOREM OneWinner == Spec => []OneClickWins
<1>1. ASSUME IInv, NEW c \in Clicks, click[c].outcome = "claimed",
             NEW d \in Clicks \ {c}, click[d].requestId = click[c].requestId,
             click[d].outcome = "claimed"
      PROVE  FALSE
  <2>1. click[c].requestId \in Requests
    BY <1>1 DEF IInv, ClickInv
  <2>2. Holds(c, click[c].requestId) /\ Holds(d, click[c].requestId)
    BY <1>1 DEF Holds
  <2> QED BY <1>1, <2>1, <2>2 DEF IInv, ClickInv
<1>2. IInv => OneClickWins
  BY <1>1 DEF OneClickWins, IInv, ClickInv
<1> QED BY <1>2, Invariance, PTL

\* One audit comment at most; it and the message name the stored decision.
THEOREM PublishedOnce == Spec => []PublishedOnceAndTrue
<1>1. IInv => PublishedOnceAndTrue
  BY DEF IInv
<1> QED BY <1>1, Invariance, PTL

\* CI is never told an end that is not, or does not stay, the stored one.
THEOREM CITold == Spec => []CIToldTheTruth
<1>1. IInv => CIToldTheTruth
  BY DEF IInv
<1> QED BY <1>1, Invariance, PTL

\* The request CI knows the id of is there for every poll.
THEOREM CIFinds == Spec => []CIFindsItsRequest
<1>1. IInv => CIFindsItsRequest
  BY DEF IInv
<1> QED BY <1>1, Invariance, PTL

\* A click that won the claim finds it in place when it finalizes.
THEOREM ClaimSurvives == Spec => []ClaimSurvivesToFinalize
<1>1. ASSUME IInv, NEW c \in Clicks, click[c].pc = "finalize"
      PROVE  /\ CanFinalize(click[c].request, click[c].userId)
             /\ FinalizeCondition(table[click[c].requestId], click[c].userId)
  <2>1. ClickOK(click[c], table[click[c].requestId])
    BY <1>1, ClickInvByClick DEF IInv
  <2>2. click[c].request.claim.userId = click[c].userId
    BY <1>1, <2>1 DEF ClickOK
  <2> QED BY <1>1, <2>1, <2>2 DEF ClickOK, CanFinalize, FinalizeCondition
<1>2. IInv => ClaimSurvivesToFinalize
  BY <1>1 DEF ClaimSurvivesToFinalize
<1> QED BY <1>2, Invariance, PTL

-----------------------------------------------------------------------------
(* What a step may never do *)

\* Every step, of anybody, makes each stored request evolve.
LEMMA EvolveStep ==
  ASSUME IInv, [Next]_vars, NEW r \in Requests
  PROVE  /\ Evolves(table[r], table'[r]) /\ GoodItem(table[r])
         /\ notify[r] # "idle" /\ ~Exists(table[r]) => ~Exists(table'[r])
<1>0. GoodItem(table[r]) /\ table[r] \in Item
  BY TableInvByItem DEF IInv, TypeOK
<1>1. CASE Next
  <2>1. ItemEffect(r, table'[r])
    BY <1>1, TableStep DEF TableEffect
  <2> QED BY <1>0, <2>1 DEF ItemEffect
<1>2. CASE UNCHANGED vars
  BY <1>0, <1>2, EvolvesRefl DEF vars
<1> QED BY <1>1, <1>2

\* A claimed request stays claimed or gets the decision its claimant chose.
THEOREM ClaimsBind == Spec => ClaimIsBinding
<1> DEFINE Binds == \A r \in Requests :
             table[r].status = "processing" =>
               \/ table'[r].status = "processing" /\ table'[r].doc.claim = table[r].doc.claim
               \/ /\ table'[r].status = table[r].doc.claim.decision
                  /\ table'[r].doc.approver = table[r].doc.claim.userId
<1>1. IInv /\ [Next]_vars => Binds
  BY EvolveStep DEF Evolves
<1> QED BY <1>1, Invariance, PTL DEF Spec, ClaimIsBinding

\* An approved, denied or expired request stays what it is.
THEOREM EndsAreFinal == Spec => EndIsFinal
<1>1. IInv /\ [Next]_vars =>
        \A r \in Requests :
          IsTerminal(table[r].doc) =>
            /\ table'[r].status = table[r].status
            /\ table'[r].doc.approver = table[r].doc.approver
  BY EvolveStep DEF Evolves
<1> QED BY <1>1, Invariance, PTL DEF Spec, EndIsFinal

\* A request that was rolled back never comes back.
THEOREM RolledBackGone == Spec => RolledBackStaysGone
<1>1. IInv /\ [Next]_vars =>
        \A r \in Requests :
          notify[r] \notin {"idle"} /\ ~Exists(table[r]) => ~Exists(table'[r])
  BY EvolveStep
<1> QED BY <1>1, Invariance, PTL DEF Spec, RolledBackStaysGone

-----------------------------------------------------------------------------
(* The broker implements the abstract approval *)

\* A step concerns the item of one request.
LEMMA OneItem ==
  ASSUME IInv, Next
  PROVE  UNCHANGED table \/ \E r \in Requests : \A q \in Requests \ {r} : table'[q] = table[q]
<1>0. table \in [Requests -> Item]
  BY DEF IInv, TypeOK
<1>1. ASSUME NEW c \in Clicks, ClickExpire(c) \/ ClickClaim(c) \/ ClickClaimRetried(c)
                               \/ ClickFinalize(c)
      PROVE  \E r \in Requests : \A q \in Requests \ {r} : table'[q] = table[q]
  <2>1. click[c].requestId \in Requests
    BY <1>1 DEF ClickExpire, ClickClaim, ClickClaimRetried, ClickFinalize, IInv, ClickInv
  <2> QED BY <1>0, <1>1, <2>1
          DEF ClickExpire, Expire, ClickClaim, ClickClaimRetried, ClickFinalize
<1>2. ASSUME NEW e \in Executions, FxClaim(e) \/ FxClaimRetried(e)
      PROVE  \E r \in Requests : \A q \in Requests \ {r} : table'[q] = table[q]
  <2>1. fx[e].requestId \in Requests
    BY <1>2 DEF FxClaim, FxClaimRetried, IInv, FxInv
  <2> QED BY <1>0, <1>2, <2>1 DEF FxClaim, FxClaimRetried
<1>3. ASSUME NEW r \in Requests, NotifyPut(r) \/ NotifyRecord(r) \/ NotifyRecordFails(r)
                                 \/ NotifyRollback(r) \/ PollExpire(r)
      PROVE  \A q \in Requests \ {r} : table'[q] = table[q]
  BY <1>0, <1>3 DEF NotifyPut, NotifyRecord, NotifyRecordFails, NotifyRollback, PollExpire, Expire
<1>4. \/ UNCHANGED table
      \/ \E q \in Requests : \/ NotifyPut(q) \/ NotifyRecord(q) \/ NotifyRecordFails(q)
                             \/ NotifyRollback(q) \/ PollExpire(q)
      \/ \E c \in Clicks : \/ ClickExpire(c) \/ ClickClaim(c) \/ ClickClaimRetried(c)
                           \/ ClickFinalize(c)
      \/ \E e \in Executions : FxClaim(e) \/ FxClaimRetried(e)
  BY DEF Next, Tick, NotifyRefused, NotifyStep, NotifyPost, NotifyPostFails,
         NotifyRollbackLost, NotifyCrash, PollStep, PollGet, PollAnswer, PollRefresh,
         PollCrash, DropJob, Deliver, ClickArrive, ClickStep, ClickGet, ClickUnauthorized, ClickDecide,
         ClickEnqueue, ClickEnqueueFails, ClickCrash, FxStep, FxGet, FxComment, FxUpdate,
         FxCommentFails, FxUpdateFails, FxCrash
<1> QED BY <1>1, <1>2, <1>3, <1>4

Stays(r) == PhaseOf(r)' = PhaseOf(r) /\ ClaimOf(r)' = ClaimOf(r)

\* An unchanged item leaves the phase and the claim of its request alone.
LEMMA SameItemStays ==
  ASSUME IInv, Next, NEW r \in Requests, table'[r] = table[r]
  PROVE  Stays(r)
<1>1. NotifyMoves(r)
  BY NotifyMovesStep
<1>2. notify[r] \in {"idle", "refused"} => ~Exists(table[r])
  BY DEF IInv, NotifyInv, NoItem, Exists
<1>3. notify[r] \in {"posting", "recording", "rollback", "created"} => Exists(table[r])
  BY DEF IInv, NotifyInv
<1>4. PhaseOf(r)' = PhaseOf(r)
  BY <1>1, <1>2, <1>3 DEF PhaseOf, NotifyMoves
<1> QED BY <1>4 DEF Stays, ClaimOf

\* How a step may move one request, as the abstract approval has it.
PhaseMove(r) ==
  \/ Stays(r)
  \/ /\ PhaseOf(r) = "none" /\ PhaseOf(r)' = "pending"
     /\ ClaimOf(r)' = ClaimOf(r)
  \/ /\ PhaseOf(r) = "pending" /\ PhaseOf(r)' \in {"withdrawn", "expired"}
     /\ ClaimOf(r)' = ClaimOf(r)
  \/ /\ PhaseOf(r) = "pending" /\ PhaseOf(r)' = "processing"
     /\ \E u \in Users, d \in Decisions :
          /\ IsAuthorizedApprover(u, RepoOf[r])
          /\ ClaimOf(r)' = [decision |-> d, userId |-> u]
  \/ /\ PhaseOf(r) = "processing" /\ PhaseOf(r)' = ClaimOf(r).decision
     /\ ClaimOf(r)' = ClaimOf(r)

\* One request moves as the abstract approval has it, or stays.
LEMMA PhaseStep ==
  ASSUME IInv, Next, NEW r \in Requests
  PROVE  PhaseMove(r)
<1> DEFINE i == table[r]
           j == table'[r]
<1>0. TypeOK' /\ TableEffect /\ IInv'
  BY TypeStep, TableStep, NextInv DEF IInv
<1>1. /\ i \in Item /\ j \in Item /\ GoodItem(i) /\ GoodItem(j) /\ Evolves(i, j)
      /\ ItemEffect(r, j)
  BY <1>0, TableInvByItem DEF IInv, TypeOK, TableEffect, ItemEffect
<1>2. /\ Exists(i) => PhaseOf(r) = i.status
      /\ Exists(j) => PhaseOf(r)' = j.status
      /\ i.status \in Claimed => ClaimOf(r) = BuildAuditComment(i.doc)
      /\ i.status \notin Claimed => ClaimOf(r) = NoClaim
      /\ j.status \in Claimed => ClaimOf(r)' = BuildAuditComment(j.doc)
      /\ j.status \notin Claimed => ClaimOf(r)' = NoClaim
  BY DEF PhaseOf, ClaimOf, Claimed
<1>3. /\ i.status \in {"absent", "pending", "processing", "expired"} \cup Decisions
      /\ j.status \in {"absent", "pending", "processing", "expired"} \cup Decisions
  BY <1>1 DEF Item, Statuses
<1>4. NotifyMoves(r)
  BY NotifyMovesStep
<1>5. CASE ~Exists(i) /\ ~Exists(j)
  <2>1. notify[r] \notin {"posting", "recording", "rollback", "created"}
    BY <1>5 DEF IInv, NotifyInv
  <2>2. notify'[r] \notin {"posting", "recording", "rollback", "created"}
    BY <1>0, <1>5 DEF IInv, NotifyInv
  <2>3. PhaseOf(r)' = PhaseOf(r)
    BY <1>4, <1>5, <2>1, <2>2 DEF NotifyMoves, PhaseOf
  <2>4. i.status \notin Claimed /\ j.status \notin Claimed
    BY <1>5 DEF Exists, Claimed, Decisions
  <2> QED BY <1>2, <2>3, <2>4 DEF Stays, PhaseMove
<1>6. CASE ~Exists(i) /\ Exists(j)
  <2>1. notify[r] = "idle" /\ j.status = "pending"
    BY <1>1, <1>6 DEF ItemEffect
  <2>2. PhaseOf(r) = "none" /\ PhaseOf(r)' = "pending"
    BY <1>2, <1>6, <2>1 DEF PhaseOf
  <2>3. i.status \notin Claimed /\ j.status \notin Claimed
    BY <1>6, <2>1 DEF Exists, Claimed, Decisions
  <2> QED BY <1>2, <2>2, <2>3 DEF PhaseMove
<1>7. CASE Exists(i) /\ ~Exists(j)
  <2>1. notify'[r] = "failed" /\ i.status = "pending"
    BY <1>1, <1>7 DEF ItemEffect, Evolves, Exists
  <2>2. PhaseOf(r) = "pending" /\ PhaseOf(r)' = "withdrawn"
    BY <1>2, <1>7, <2>1 DEF PhaseOf
  <2>3. i.status \notin Claimed /\ j.status \notin Claimed
    BY <1>7, <2>1 DEF Exists, Claimed, Decisions
  <2> QED BY <1>2, <2>2, <2>3 DEF PhaseMove
<1>8. CASE Exists(i) /\ Exists(j) /\ i.status \in Claimed
  <2>1. BuildAuditComment(j.doc) = BuildAuditComment(i.doc) /\ j.status \in Claimed
    BY <1>1, <1>8, ClaimKept
  <2>2. ClaimOf(r)' = ClaimOf(r) /\ PhaseOf(r) = i.status /\ PhaseOf(r)' = j.status
    BY <1>2, <1>8, <2>1
  <2>3. CASE i.status = "processing"
    <3>1. i.doc.claim # NoClaim
      BY <1>1, <2>3 DEF GoodItem
    <3>2. ClaimOf(r) = i.doc.claim
      BY <1>2, <1>8, <3>1 DEF BuildAuditComment
    <3> QED BY <1>1, <2>2, <2>3, <3>2 DEF Evolves, PhaseMove, Stays
  <2>4. CASE i.status \in Decisions
    <3>1. IsTerminal(i.doc)
      BY <1>1, <2>4 DEF GoodItem, IsTerminal
    <3> QED BY <1>1, <2>2, <3>1 DEF Evolves, PhaseMove, Stays
  <2> QED BY <1>8, <2>3, <2>4 DEF Claimed
<1>9. CASE Exists(i) /\ Exists(j) /\ i.status \notin Claimed /\ j.status \notin Claimed
  <2>1. ClaimOf(r)' = ClaimOf(r) /\ PhaseOf(r) = i.status /\ PhaseOf(r)' = j.status
    BY <1>2, <1>9
  <2>2. i.status = "expired" => j.status = "expired"
    BY <1>1 DEF GoodItem, IsTerminal, Evolves
  <2>3. i.status \in {"pending", "expired"} /\ j.status \in {"pending", "expired"}
    BY <1>3, <1>9 DEF Exists, Claimed
  <2> QED BY <2>1, <2>2, <2>3 DEF PhaseMove, Stays
<1>10. CASE Exists(i) /\ i.status \notin Claimed /\ j.status \in Claimed
  <2>1. PICK c \in Clicks :
          /\ ClickClaim(c) \/ ClickClaimRetried(c)
          /\ click[c].requestId = r /\ ClaimCondition(i, click[c].at)
          /\ table' = [table EXCEPT ![r] = ClaimUpdate(i, click[c].request)]
    BY <1>0, <1>10, ClaimStep
  <2> DEFINE cl == click[c]
  <2>2. cl.pc = "claim" /\ table \in [Requests -> Item]
    BY <2>1 DEF ClickClaim, ClickClaimRetried, IInv, TypeOK
  <2>3. /\ cl.request.claim = [decision |-> DecisionOf(cl.action), userId |-> cl.userId]
        /\ IsAuthorizedApprover(cl.userId, RepoOf[r])
        /\ cl.userId \in Users /\ cl.action \in Actions
    BY <2>1, <2>2 DEF IInv, ClickInv
  <2>4. j.doc = cl.request /\ j.status = "processing" /\ i.status = "pending"
    <3>1. j = ClaimUpdate(i, cl.request)
      BY <2>1, <2>2
    <3>2. i.status = "pending"
      BY <2>1 DEF ClaimCondition
    <3>3. j.doc = cl.request /\ j.status = "processing"
      BY <1>1, <3>1 DEF ClaimUpdate, Item
    <3> QED BY <3>2, <3>3
  <2>5. ClaimOf(r)' = [decision |-> DecisionOf(cl.action), userId |-> cl.userId]
    <3>1. cl.request.claim # NoClaim
      BY <2>3, NoUserAssumption DEF NoClaim
    <3> QED BY <1>2, <1>10, <2>3, <2>4, <3>1 DEF BuildAuditComment
  <2>6. PhaseOf(r) = "pending" /\ PhaseOf(r)' = "processing"
    BY <1>2, <2>4 DEF Exists
  <2>7. DecisionOf(cl.action) \in Decisions
    BY <2>3, DecisionOfType
  <2> QED BY <2>3, <2>5, <2>6, <2>7 DEF PhaseMove
<1>11. j.status \in Claimed => Exists(j)
  BY DEF Exists, Claimed, Decisions
<1> QED BY <1>5, <1>6, <1>7, <1>8, <1>9, <1>10, <1>11

\* A step of the broker is a step of the abstract approval, or a stutter.
LEMMA ApprovalStep ==
  ASSUME IInv, Next
  PROVE  [Approval!Next]_(Approval!vars)
<1> DEFINE phase == [r \in Requests |-> PhaseOf(r)]
           claim == [r \in Requests |-> ClaimOf(r)]
<1>0. TypeOK' /\ TableEffect
  BY TypeStep, TableStep DEF IInv
<1>1. CASE UNCHANGED table
  <2>1. UNCHANGED <<phase, claim>>
    BY <1>1, SameItemStays DEF Stays
  <2>2. CASE UNCHANGED comments
    BY <2>1, <2>2 DEF Approval!vars
  <2>3. ASSUME NEW e \in Executions, FxEffect(e), comments' # comments
        PROVE  Approval!Next
    <3> DEFINE r == fx[e].requestId
    <3>1. /\ fx[e].pc = "effects" /\ r \in Requests /\ comments[r] = <<>>
          /\ comments' = [comments EXCEPT ![r] =
               <<[decision |-> table[r].status, userId |-> table[r].doc.approver]>>]
      BY <2>3 DEF FxEffect
    <3>2. table[r].sideEffects /\ GoodItem(table[r])
      BY <3>1, TableInvByItem DEF IInv, FxInv
    <3>3. table[r].status \in Decisions /\ table[r].doc.claim = NoClaim
          /\ table[r].doc.status = table[r].status
      BY <3>2 DEF GoodItem, IsDecided, Decisions
    <3>4. PhaseOf(r) \in Decisions
      BY <3>3 DEF PhaseOf, Exists, Decisions
    <3>5. ClaimOf(r) = [decision |-> table[r].status, userId |-> table[r].doc.approver]
      BY <3>3 DEF ClaimOf, BuildAuditComment
    <3>6. Approval!Publish(r)
      BY <2>1, <3>1, <3>4, <3>5 DEF Approval!Publish, Approval!Decisions, Decisions
    <3> QED BY <3>1, <3>6 DEF Approval!Next
  <2> QED BY <1>0, <2>2, <2>3, FxSteps
<1>2. CASE ~UNCHANGED table
  <2>1. comments' = comments
    BY <1>0, <1>2, FxSteps DEF FxEffect
  <2>2. PICK r \in Requests : \A q \in Requests \ {r} : table'[q] = table[q]
    BY <1>2, OneItem
  <2>3. \A q \in Requests \ {r} : PhaseOf(q)' = PhaseOf(q) /\ ClaimOf(q)' = ClaimOf(q)
    BY <2>2, SameItemStays DEF Stays
  <2>4. /\ phase' = [phase EXCEPT ![r] = PhaseOf(r)']
        /\ claim' = [claim EXCEPT ![r] = ClaimOf(r)']
        /\ phase[r] = PhaseOf(r) /\ claim[r] = ClaimOf(r)
    BY <2>3
  <2>5. ClaimOf(r)' = ClaimOf(r) => claim' = claim
    BY <2>3
  <2>6. PhaseMove(r)
    BY PhaseStep
  <2>7. CASE Stays(r)
    <3>1. phase' = phase /\ claim' = claim
      BY <2>3, <2>7 DEF Stays
    <3> QED BY <2>1, <3>1 DEF Approval!vars
  <2>8. CASE /\ PhaseOf(r) = "none" /\ PhaseOf(r)' = "pending"
             /\ ClaimOf(r)' = ClaimOf(r)
    <3>1. Approval!Open(r)
      BY <2>1, <2>4, <2>5, <2>8 DEF Approval!Open, Approval!Move
    <3> QED BY <3>1 DEF Approval!Next
  <2>9. CASE /\ PhaseOf(r) = "pending" /\ PhaseOf(r)' \in {"withdrawn", "expired"}
             /\ ClaimOf(r)' = ClaimOf(r)
    <3>1. Approval!Withdraw(r) \/ Approval!Expire(r)
      BY <2>1, <2>4, <2>5, <2>9 DEF Approval!Withdraw, Approval!Expire, Approval!Move
    <3> QED BY <3>1 DEF Approval!Next
  <2>10. ASSUME PhaseOf(r) = "pending", PhaseOf(r)' = "processing",
                NEW u \in Users, NEW d \in Decisions,
                IsAuthorizedApprover(u, RepoOf[r]),
                ClaimOf(r)' = [decision |-> d, userId |-> u]
         PROVE  Approval!Next
    <3>1. Approval!Seize(r, u, d)
      BY <2>1, <2>4, <2>10 DEF Approval!Seize, Approval!Move
    <3> QED BY <3>1 DEF Approval!Next, Approval!Decisions, Decisions
  <2>11. CASE /\ PhaseOf(r) = "processing" /\ PhaseOf(r)' = ClaimOf(r).decision
              /\ ClaimOf(r)' = ClaimOf(r)
    <3>1. Approval!Settle(r)
      BY <2>1, <2>4, <2>5, <2>11 DEF Approval!Settle, Approval!Move
    <3> QED BY <3>1 DEF Approval!Next
  <2> QED BY <2>6, <2>7, <2>8, <2>9, <2>10, <2>11 DEF PhaseMove
<1> QED BY <1>1, <1>2

\* Every behaviour of the broker is one of the abstract approval.
THEOREM BrokerImplementsApproval == Spec => ImplementsApproval
<1>1. Init => Approval!Init
  <2>1. ASSUME Init, NEW r \in Requests
        PROVE  PhaseOf(r) = "none" /\ ClaimOf(r) = NoClaim
    BY <2>1 DEF Init, PhaseOf, ClaimOf, NoItem, Exists, Decisions
  <2> QED BY <2>1 DEF Init, Approval!Init
<1>2. IInv /\ [Next]_vars => [Approval!Next]_(Approval!vars)
  <2>1. ASSUME UNCHANGED vars
        PROVE  UNCHANGED Approval!vars
    BY <2>1 DEF vars, Approval!vars, PhaseOf, ClaimOf
  <2> QED BY <2>1, ApprovalStep
<1> QED BY <1>1, <1>2, Invariance, PTL DEF Spec, ImplementsApproval, Approval!Spec
=============================================================================
