---------------------------- MODULE LambdaBroker ----------------------------
(***************************************************************************)
(* The Lambda break-glass broker (lambda/broker.mjs, handlers.mjs,         *)
(* runtime.mjs) over the DynamoDB store.  Any number of Lambda invocations *)
(* run at once; each is cut at its awaits: one action is one request to    *)
(* DynamoDB, Slack or GitHub, or the synchronous code between two of them. *)
(*                                                                         *)
(*   notify[r]  the CI invocation that creates request r                   *)
(*   poll[r]    the CI invocation that asks for the status of r            *)
(*   click[c]   the invocation of one signed button click in Slack         *)
(*   fx[e]      a follow-up (audit comment, message update), run by an     *)
(*              asynchronous invocation or inline by a click               *)
(*                                                                         *)
(* The environment may misbehave in the ways Faults names:                 *)
(*   slack    Slack reports an error, having done the work or not          *)
(*   github   posting the audit comment fails                              *)
(*   db       a write is applied (or not) and its caller sees a failure    *)
(*   enqueue  the asynchronous self-invocation reports an error, having    *)
(*            been accepted or not                                         *)
(*   drop     an accepted asynchronous invocation is never run             *)
(*   crash    an invocation ends anywhere (time limit, thrown error)       *)
(* An accepted asynchronous invocation may always be delivered again.      *)
(***************************************************************************)
EXTENDS DynamoStore, Sequences

CONSTANTS
  Requests,          \* requests CI may open, one notify invocation each
  RepoOf,            \* the repository each request is about
  RequestedSeconds,  \* payload.timeoutSeconds; 0 when absent
  Clicks,            \* invocations of the interactions function by a click
  Workers,           \* concurrent asynchronous follow-up invocations
  Faults,            \* how the environment may misbehave
  MaxTime            \* the bound of the model's clock

FaultKinds == {"slack", "github", "db", "enqueue", "drop", "crash"}

ASSUME RequestsAssumption ==
  /\ "none" \notin Requests
  /\ RepoOf \in [Requests -> Repos]
  /\ RequestedSeconds \subseteq Nat
  /\ MaxTime \in Nat
  /\ Faults \subseteq FaultKinds

ASSUME ExecutionsAssumption == Clicks \cap Workers = {}

Executions == Clicks \cup Workers

VARIABLES
  now,       \* the time new Date() reads
  table,     \* the DynamoDB table
  message,   \* the Slack message of each request
  comments,  \* the audit comments on the pull request of each request
  notify, poll, click, fx,
  queue,     \* requests with an accepted asynchronous follow-up invocation
  told       \* the last status CI was told of each request

vars == <<now, table, message, comments, notify, poll, click, fx, queue, told>>

NotifyStates ==
  {"idle", "refused", "posting", "recording", "rollback", "created", "failed", "crashed"}

Poll == [pc : {"idle", "answer", "expire", "refresh"}, request : Request, at : Nat]

Click ==
  [ pc : {"idle", "get", "decide", "expire", "claim", "finalize", "enqueue",
          "done", "crashed"},
    requestId : Requests \cup {"none"},
    action    : Actions \cup {"none"},
    userId    : Users \cup {NoUser},
    request   : Request,              \* the handler's copy of the document
    at        : Nat,                  \* its nowDate
    outcome   : {"none", "unauthorized", "expired", "duplicate", "claimed"} ]

FollowUp ==
  [ pc : {"idle", "claim", "get", "effects"},
    requestId : Requests \cup {"none"},
    request   : Request,
    effects   : SUBSET {"comment", "update"} ]

IdlePoll  == [pc |-> "idle", request |-> NoRequest, at |-> 0]
IdleClick == [pc |-> "idle", requestId |-> "none", action |-> "none", userId |-> NoUser,
              request |-> NoRequest, at |-> 0, outcome |-> "none"]
IdleFx    == [pc |-> "idle", requestId |-> "none", request |-> NoRequest, effects |-> {}]

TypeOK ==
  /\ now \in 0..MaxTime
  /\ table    \in [Requests -> Item]
  /\ message  \in [Requests -> {"none", "buttons"} \cup Decisions]
  /\ comments \in [Requests -> Seq(Claim)]
  /\ notify   \in [Requests -> NotifyStates]
  /\ poll     \in [Requests -> Poll]
  /\ click    \in [Clicks -> Click]
  /\ fx       \in [Executions -> FollowUp]
  /\ queue    \subseteq Requests
  /\ told     \in [Requests -> Statuses \cup {"none", "unknown_request"}]

Init ==
  /\ now      = 0
  /\ table    = [r \in Requests |-> NoItem]
  /\ message  = [r \in Requests |-> "none"]
  /\ comments = [r \in Requests |-> <<>>]
  /\ notify   = [r \in Requests |-> "idle"]
  /\ poll     = [r \in Requests |-> IdlePoll]
  /\ click    = [c \in Clicks |-> IdleClick]
  /\ fx       = [e \in Executions |-> IdleFx]
  /\ queue    = {}
  /\ told     = [r \in Requests |-> "none"]

-----------------------------------------------------------------------------
(* Time *)

Tick ==
  /\ now < MaxTime
  /\ now' = now + 1
  /\ UNCHANGED <<table, message, comments, notify, poll, click, fx, queue, told>>

-----------------------------------------------------------------------------
(* notify: the CI invocation that creates a request *)

NotifyGoto(r, state) == notify' = [notify EXCEPT ![r] = state]

\* The payload is invalid (400) or no channel is configured (500).
NotifyRefused(r) ==
  /\ notify[r] = "idle"
  /\ NotifyGoto(r, "refused")
  /\ UNCHANGED <<now, table, message, comments, poll, click, fx, queue, told>>

\* store.putPending, before Slack shows anything.
NotifyPut(r) ==
  /\ notify[r] = "idle"
  /\ PutPendingCondition(table[r])
  /\ \E seconds \in RequestedSeconds :
       /\ now + ClampTimeout(seconds) =< MaxTime    \* a deadline the model reaches
       /\ table' = [table EXCEPT ![r] = ToItem(CreatePendingRequest(seconds, now))]
  /\ NotifyGoto(r, "posting")
  /\ UNCHANGED <<now, message, comments, poll, click, fx, queue, told>>

\* slack.postMessage resolves: the buttons are visible.
NotifyPost(r) ==
  /\ notify[r] = "posting"
  /\ message' = [message EXCEPT ![r] = "buttons"]
  /\ NotifyGoto(r, "recording")
  /\ UNCHANGED <<now, table, comments, poll, click, fx, queue, told>>

\* slack.postMessage rejects, although the message may have been posted.
NotifyPostFails(r) ==
  /\ notify[r] = "posting"
  /\ "slack" \in Faults
  /\ \E shown \in {"none", "buttons"} : message' = [message EXCEPT ![r] = shown]
  /\ NotifyGoto(r, "rollback")
  /\ UNCHANGED <<now, table, comments, poll, click, fx, queue, told>>

\* store.setSlackRef, then the 201 that tells CI the request's id.
NotifyRecord(r) ==
  /\ notify[r] = "recording"
  /\ IF SetSlackRefCondition(table[r])
     THEN /\ table' = [table EXCEPT ![r] = SetSlackRefUpdate(@)]
          /\ NotifyGoto(r, "created")
     ELSE UNCHANGED table /\ NotifyGoto(r, "rollback")
  /\ UNCHANGED <<now, message, comments, poll, click, fx, queue, told>>

\* store.setSlackRef rejects: the write is lost, or applied without its answer.
NotifyRecordFails(r) ==
  /\ notify[r] = "recording"
  /\ "db" \in Faults
  /\ \/ UNCHANGED table
     \/ /\ SetSlackRefCondition(table[r])
        /\ table' = [table EXCEPT ![r] = SetSlackRefUpdate(@)]
  /\ NotifyGoto(r, "rollback")
  /\ UNCHANGED <<now, message, comments, poll, click, fx, queue, told>>

\* store.deletePending, its failure swallowed; then the 502.
NotifyRollback(r) ==
  /\ notify[r] = "rollback"
  /\ IF DeletePendingCondition(table[r])
     THEN table' = [table EXCEPT ![r] = NoItem]
     ELSE UNCHANGED table
  /\ NotifyGoto(r, "failed")
  /\ UNCHANGED <<now, message, comments, poll, click, fx, queue, told>>

NotifyRollbackLost(r) ==
  /\ notify[r] = "rollback"
  /\ "db" \in Faults
  /\ NotifyGoto(r, "failed")
  /\ UNCHANGED <<now, table, message, comments, poll, click, fx, queue, told>>

NotifyCrash(r) ==
  /\ notify[r] \in {"posting", "recording", "rollback"}
  /\ "crash" \in Faults
  /\ NotifyGoto(r, "crashed")
  /\ UNCHANGED <<now, table, message, comments, poll, click, fx, queue, told>>

NotifyStep(r) ==
  \/ NotifyPost(r) \/ NotifyPostFails(r)
  \/ NotifyRecord(r) \/ NotifyRecordFails(r)
  \/ NotifyRollback(r) \/ NotifyRollbackLost(r)

-----------------------------------------------------------------------------
(* status: the CI invocation that polls a request *)

\* CI knows the id from the 201, and asks about one request at a time.
PollGet(r) ==
  /\ poll[r].pc = "idle"
  /\ notify[r] = "created"
  /\ poll' = [poll EXCEPT ![r] = [pc |-> "answer", request |-> FromItem(table[r]), at |-> 0]]
  /\ UNCHANGED <<now, table, message, comments, notify, click, fx, queue, told>>

Tell(r, status) ==
  /\ told' = [told EXCEPT ![r] = IF status = "absent" THEN "unknown_request" ELSE status]
  /\ poll' = [poll EXCEPT ![r] = IdlePoll]

\* The answer, unless a pending request turns out to be past its deadline.
PollAnswer(r) ==
  LET request == poll[r].request IN
  /\ poll[r].pc = "answer"
  /\ IF request.status = "pending" /\ IsExpired(request, now)
     THEN /\ poll' = [poll EXCEPT ![r] = [@ EXCEPT !.pc = "expire", !.at = now]]
          /\ UNCHANGED told
     ELSE Tell(r, request.status)
  /\ UNCHANGED <<now, table, message, comments, notify, click, fx, queue>>

\* store.expire: a lost race changes nothing.
Expire(r, request, nowDate) ==
  IF ExpireCondition(table[r], nowDate)
  THEN table' = [table EXCEPT ![r] = ExpireUpdate(@, request)]
  ELSE UNCHANGED table

PollExpire(r) ==
  /\ poll[r].pc = "expire"
  /\ Expire(r, poll[r].request, poll[r].at)
  /\ poll' = [poll EXCEPT ![r].pc = "refresh"]
  /\ UNCHANGED <<now, message, comments, notify, click, fx, queue, told>>

\* Variant: takes the expiry for granted instead of reading again.
PollStale(r) ==
  /\ poll[r].pc = "refresh"
  /\ Tell(r, "expired")
  /\ UNCHANGED <<now, table, message, comments, notify, click, fx, queue>>

\* The answer comes from a second store.get.
PollRefresh(r) ==
  /\ poll[r].pc = "refresh"
  /\ Tell(r, FromItem(table[r]).status)
  /\ UNCHANGED <<now, table, message, comments, notify, click, fx, queue>>

\* CI is told nothing.  Its script then gives up; asking again, as this model lets
\* it, is one behaviour more.
PollCrash(r) ==
  /\ poll[r].pc # "idle"
  /\ "crash" \in Faults
  /\ poll' = [poll EXCEPT ![r] = IdlePoll]
  /\ UNCHANGED <<now, table, message, comments, notify, click, fx, queue, told>>

PollStep(r) == PollGet(r) \/ PollAnswer(r) \/ PollExpire(r) \/ PollRefresh(r)

-----------------------------------------------------------------------------
(* handleInteraction: one click on a button *)

\* The click as it leaves the handler, keeping who clicked what and when.
Answered(cl, outcome) ==
  [cl EXCEPT !.pc = "done", !.outcome = outcome, !.request = NoRequest]

Answer(c, outcome) == click' = [click EXCEPT ![c] = Answered(@, outcome)]

\* A verified click on a message that was shown; the message may since have been
\* updated, and the request rolled back.  A bad signature (401), a body that does
\* not parse (400), an interaction that is no button or a value that is no
\* decision ends the invocation before anything is read or written.
ClickArrive(c) ==
  /\ click[c].pc = "idle"
  /\ \E r \in Requests, u \in Users, a \in Actions :
       /\ message[r] # "none"
       /\ click' = [click EXCEPT ![c] =
            [IdleClick EXCEPT !.pc = "get", !.requestId = r, !.userId = u, !.action = a]]
  /\ UNCHANGED <<now, table, message, comments, notify, poll, fx, queue, told>>

ClickGet(c) ==
  /\ click[c].pc = "get"
  /\ click' = [click EXCEPT ![c] =
       [@ EXCEPT !.pc = "decide", !.request = FromItem(table[click[c].requestId])]]
  /\ UNCHANGED <<now, table, message, comments, notify, poll, fx, queue, told>>

\* The repository is the stored request's: an unknown request authorizes nobody.
ClickAuthorized(cl) ==
  /\ cl.request.status # "absent"
  /\ IsAuthorizedApprover(cl.userId, RepoOf[cl.requestId])

\* The synchronous code between the read and the write: authorization, the
\* clock, claimDecision on the handler's own copy.
ClickUnauthorized(c) ==
  /\ click[c].pc = "decide"
  /\ ~ClickAuthorized(click[c])
  /\ Answer(c, "unauthorized")
  /\ UNCHANGED <<now, table, message, comments, notify, poll, fx, queue, told>>

ClickDecide(c) ==
  LET cl == click[c]
      outcome == ClaimOutcome(cl.request, now)
  IN
  /\ cl.pc = "decide"
  /\ ClickAuthorized(cl)
  /\ CASE outcome = "expired"   -> click' = [click EXCEPT ![c] = [@ EXCEPT !.pc = "expire", !.at = now]]
       [] outcome = "duplicate" -> Answer(c, "duplicate")
       [] outcome = "claimed"   ->
            click' = [click EXCEPT ![c] = [@ EXCEPT !.pc = "claim", !.at = now,
              !.request = ClaimedRequest(cl.request, cl.action, cl.userId)]]
       [] OTHER -> FALSE        \* "rejected": excluded by ClickAuthorized
  /\ UNCHANGED <<now, table, message, comments, notify, poll, fx, queue, told>>

ClickExpire(c) ==
  /\ click[c].pc = "expire"
  /\ Expire(click[c].requestId, click[c].request, click[c].at)
  /\ Answer(c, "expired")
  /\ UNCHANGED <<now, message, comments, notify, poll, fx, queue, told>>

\* store.claim, with the clock read before the write was sent; a lost race is
\* answered as a duplicate.
ClickClaim(c) ==
  LET cl == click[c] IN
  /\ cl.pc = "claim"
  /\ IF ClaimCondition(table[cl.requestId], cl.at)
     THEN /\ table' = [table EXCEPT ![cl.requestId] = ClaimUpdate(@, cl.request)]
          /\ click' = [click EXCEPT ![c].pc = "finalize"]
     ELSE UNCHANGED table /\ Answer(c, "duplicate")
  /\ UNCHANGED <<now, message, comments, notify, poll, fx, queue, told>>

\* The claim is applied, its answer is lost, and the SDK's own retry fails the
\* condition: the handler believes that someone else was first.
ClickClaimRetried(c) ==
  LET cl == click[c] IN
  /\ cl.pc = "claim"
  /\ "db" \in Faults
  /\ ClaimCondition(table[cl.requestId], cl.at)
  /\ table' = [table EXCEPT ![cl.requestId] = ClaimUpdate(@, cl.request)]
  /\ Answer(c, "duplicate")
  /\ UNCHANGED <<now, message, comments, notify, poll, fx, queue, told>>

\* Variant: the Slack message is updated first, and its failure thrown.
ClickFinalizeAfterUpdate(c) ==
  LET cl == click[c] IN
  /\ cl.pc = "finalize"
  /\ \/ /\ table' = [table EXCEPT ![cl.requestId] =
                         FinalizeUpdate(@, FinalizedRequest(cl.request))]
        /\ click' = [click EXCEPT ![c] = [@ EXCEPT !.pc = "enqueue", !.outcome = "claimed"]]
     \/ /\ "slack" \in Faults
        /\ UNCHANGED table /\ click' = [click EXCEPT ![c].pc = "crashed"]
  /\ UNCHANGED <<now, message, comments, notify, poll, fx, queue, told>>

\* finalizeDecision and store.finalize; either throws if the claim changed.
ClickFinalize(c) ==
  LET cl == click[c] IN
  /\ cl.pc = "finalize"
  /\ IF /\ CanFinalize(cl.request, cl.userId)
        /\ FinalizeCondition(table[cl.requestId], cl.userId)
     THEN /\ table' = [table EXCEPT ![cl.requestId] =
                         FinalizeUpdate(@, FinalizedRequest(cl.request))]
          /\ click' = [click EXCEPT ![c] = [@ EXCEPT !.pc = "enqueue", !.outcome = "claimed"]]
     ELSE UNCHANGED table /\ click' = [click EXCEPT ![c].pc = "crashed"]
  /\ UNCHANGED <<now, message, comments, notify, poll, fx, queue, told>>

StartFollowUp(e, r) ==
  fx' = [fx EXCEPT ![e] = [IdleFx EXCEPT !.pc = "claim", !.requestId = r]]

\* The interactions function invokes itself asynchronously with the job.
ClickEnqueue(c) ==
  /\ click[c].pc = "enqueue"
  /\ queue' = queue \cup {click[c].requestId}
  /\ Answer(c, "claimed")
  /\ UNCHANGED <<now, table, message, comments, notify, poll, fx, told>>

\* Variant: a failed enqueue is only logged.
ClickEnqueueDropped(c) ==
  /\ click[c].pc = "enqueue"
  /\ "enqueue" \in Faults
  /\ Answer(c, "claimed")
  /\ UNCHANGED <<now, table, message, comments, notify, poll, queue, fx, told>>

\* The invocation reports an error, accepted or not: run the job inline.
ClickEnqueueFails(c) ==
  /\ click[c].pc = "enqueue"
  /\ "enqueue" \in Faults
  /\ queue' \in {queue, queue \cup {click[c].requestId}}
  /\ StartFollowUp(c, click[c].requestId)
  /\ Answer(c, "claimed")
  /\ UNCHANGED <<now, table, message, comments, notify, poll, told>>

\* The invocation ends here: a time limit, or a failed call that throws.
ClickCrash(c) ==
  /\ click[c].pc \notin {"idle", "done", "crashed"}
  /\ "crash" \in Faults
  /\ click' = [click EXCEPT ![c] = [@ EXCEPT !.pc = "crashed", !.request = NoRequest]]
  /\ UNCHANGED <<now, table, message, comments, notify, poll, fx, queue, told>>

ClickStep(c) ==
  \/ ClickGet(c) \/ ClickUnauthorized(c) \/ ClickDecide(c) \/ ClickExpire(c)
  \/ ClickClaim(c) \/ ClickClaimRetried(c) \/ ClickFinalize(c)
  \/ ClickEnqueue(c) \/ ClickEnqueueFails(c)

-----------------------------------------------------------------------------
(* runFollowUp: the side effects of a decision, after the ack *)

\* Lambda runs an accepted invocation, and may run it again later.
Deliver(w) ==
  /\ fx[w].pc = "idle"
  /\ \E r \in queue :
       /\ StartFollowUp(w, r)
       /\ queue' \in {queue, queue \ {r}}
  /\ UNCHANGED <<now, table, message, comments, notify, poll, click, told>>

DropJob(r) ==
  /\ "drop" \in Faults
  /\ r \in queue
  /\ queue' = queue \ {r}
  /\ UNCHANGED <<now, table, message, comments, notify, poll, click, fx, told>>

Finish(e) == fx' = [fx EXCEPT ![e] = IdleFx]

\* store.claimSideEffects: only the first follow-up of a decided request goes on.
FxClaim(e) ==
  LET r == fx[e].requestId IN
  /\ fx[e].pc = "claim"
  /\ IF ClaimSideEffectsCondition(table[r])
     THEN /\ table' = [table EXCEPT ![r] = ClaimSideEffectsUpdate(@)]
          /\ fx' = [fx EXCEPT ![e].pc = "get"]
     ELSE UNCHANGED table /\ Finish(e)
  /\ UNCHANGED <<now, message, comments, notify, poll, click, queue, told>>

\* Applied, but the SDK's retry fails the condition: nobody will deliver.
FxClaimRetried(e) ==
  LET r == fx[e].requestId IN
  /\ fx[e].pc = "claim"
  /\ "db" \in Faults
  /\ ClaimSideEffectsCondition(table[r])
  /\ table' = [table EXCEPT ![r] = ClaimSideEffectsUpdate(@)]
  /\ Finish(e)
  /\ UNCHANGED <<now, message, comments, notify, poll, click, queue, told>>

\* The effects work from the stored request; the message is updated only if its
\* reference was recorded.
FxGet(e) ==
  LET request == FromItem(table[fx[e].requestId]) IN
  /\ fx[e].pc = "get"
  /\ fx' = [fx EXCEPT ![e] = [@ EXCEPT !.pc = "effects", !.request = request,
              !.effects = {"comment"} \cup IF request.slack THEN {"update"} ELSE {}]]
  /\ UNCHANGED <<now, table, message, comments, notify, poll, click, queue, told>>

\* Promise.allSettled: each effect ends on its own, the last one ends the job.
Settled(e, effect) ==
  LET left == fx[e].effects \ {effect} IN
  /\ fx[e].pc = "effects"
  /\ effect \in fx[e].effects
  /\ fx' = [fx EXCEPT ![e] = IF left = {} THEN IdleFx ELSE [@ EXCEPT !.effects = left]]

FxComment(e) ==
  LET r == fx[e].requestId IN
  /\ Settled(e, "comment")
  /\ comments' = [comments EXCEPT ![r] = Append(@, BuildAuditComment(fx[e].request))]
  /\ UNCHANGED <<now, table, message, notify, poll, click, queue, told>>

FxUpdate(e) ==
  /\ Settled(e, "update")
  /\ message' = [message EXCEPT ![fx[e].requestId] = fx[e].request.status]
  /\ UNCHANGED <<now, table, comments, notify, poll, click, queue, told>>

\* A rejected effect is logged, and never tried again.
FxCommentFails(e) ==
  /\ "github" \in Faults
  /\ Settled(e, "comment")
  /\ UNCHANGED <<now, table, message, comments, notify, poll, click, queue, told>>

FxUpdateFails(e) ==
  /\ "slack" \in Faults
  /\ Settled(e, "update")
  /\ UNCHANGED <<now, table, message, comments, notify, poll, click, queue, told>>

FxCrash(e) ==
  /\ fx[e].pc # "idle"
  /\ "crash" \in Faults
  /\ Finish(e)
  /\ UNCHANGED <<now, table, message, comments, notify, poll, click, queue, told>>

FxStep(e) ==
  \/ FxClaim(e) \/ FxClaimRetried(e) \/ FxGet(e)
  \/ FxComment(e) \/ FxUpdate(e) \/ FxCommentFails(e) \/ FxUpdateFails(e)

-----------------------------------------------------------------------------

Next ==
  \/ Tick
  \/ \E r \in Requests :
       \/ NotifyRefused(r) \/ NotifyPut(r) \/ NotifyStep(r) \/ NotifyCrash(r)
       \/ PollStep(r) \/ PollCrash(r)
       \/ DropJob(r)
  \/ \E c \in Clicks :
       ClickArrive(c) \/ ClickStep(c) \/ ClickCrash(c)
  \/ \E w \in Workers : Deliver(w)
  \/ \E e \in Executions : FxStep(e) \/ FxCrash(e)

Spec == Init /\ [][Next]_vars

\* Lambda runs a started invocation to its end, delivers accepted asynchronous
\* invocations, time passes, and CI keeps polling.
Fairness ==
  /\ WF_vars(Tick)
  /\ \A r \in Requests : WF_vars(NotifyStep(r)) /\ WF_vars(PollStep(r))
  /\ \A c \in Clicks   : WF_vars(ClickStep(c))
  /\ \A w \in Workers  : WF_vars(Deliver(w))
  /\ \A e \in Executions : WF_vars(FxStep(e))

FairSpec == Spec /\ Fairness

-----------------------------------------------------------------------------
(* Safety *)

\* The conditions test the item's attributes while the decision rules read its
\* document: the two must always tell the same story, or a condition guards
\* something else than what was decided (dynamodb-store.mjs writes both).
DocumentMatchesItem ==
  \A r \in Requests :
    LET item == table[r] IN
    /\ item.doc.status = item.status
    /\ item.doc.expiresAt = item.expiresAt
    /\ item.claimUserId = item.doc.claim.userId
    /\ (item.status = "processing") <=> (item.doc.claim # NoClaim)
    /\ IsDecided(item.doc) <=> (item.doc.approver # NoUser)
    /\ item.sideEffects => IsDecided(item.doc)

\* Only a user the repository's allowlist names, who clicked that very button
\* while the handler's clock was before the deadline, is ever recorded as
\* claiming or deciding (the click may reach the store later than that).
DecidedByApprover ==
  \A r \in Requests :
    table[r].status \in {"processing"} \cup Decisions =>
      LET comment == BuildAuditComment(table[r].doc) IN
      /\ IsAuthorizedApprover(comment.userId, RepoOf[r])
      /\ \E c \in Clicks :
           /\ click[c].pc \in {"finalize", "enqueue", "done", "crashed"}
           /\ click[c].requestId = r
           /\ click[c].userId = comment.userId
           /\ DecisionOf(click[c].action) = comment.decision
           /\ click[c].at < table[r].expiresAt

\* Of all concurrent clicks on a request, at most one is answered "claimed",
\* and its user and button are what the store holds from then on.
OneClickWins ==
  \A c \in Clicks :
    click[c].outcome = "claimed" =>
      /\ table[click[c].requestId].status = DecisionOf(click[c].action)
      /\ table[click[c].requestId].doc.approver = click[c].userId
      /\ \A d \in Clicks \ {c} :
           click[d].requestId = click[c].requestId => click[d].outcome # "claimed"

\* However often follow-ups are delivered or retried inline, one audit comment
\* at most is posted, and both it and the message name the stored decision.
PublishedOnceAndTrue ==
  \A r \in Requests :
    /\ Len(comments[r]) =< 1
    /\ Len(comments[r]) = 1 =>
         comments[r][1] = [decision |-> table[r].status, userId |-> table[r].doc.approver]
    /\ message[r] \in Decisions => message[r] = table[r].status

\* What CI was last told is what the store holds, once it was told an end:
\* a late answer never reports a decision that did not happen or not last.
CIToldTheTruth ==
  \A r \in Requests :
    told[r] \in Decisions \cup {"expired"} => table[r].status = told[r]

\* Once CI has the id of a request the store never loses it, so the poll gets no
\* 404 and the second read of an expiring request finds something to answer.
CIFindsItsRequest ==
  \A r \in Requests :
    notify[r] = "created" => Exists(table[r]) /\ told[r] # "unknown_request"

\* No handler ever fails on its own claim: when a click that won the claim comes
\* to finalize, nothing has taken the request from it.
ClaimSurvivesToFinalize ==
  \A c \in Clicks :
    click[c].pc = "finalize" =>
      /\ CanFinalize(click[c].request, click[c].userId)
      /\ FinalizeCondition(table[click[c].requestId], click[c].userId)

-----------------------------------------------------------------------------
(* The inductive invariant, part by part *)

\* A document is consistent with itself: a claim while processing, an approver
\* once decided.
WellFormed(request) ==
  /\ (request.status = "processing") <=> (request.claim # NoClaim)
  /\ IsDecided(request) <=> (request.approver # NoUser)

\* What a handler's copy, however old, still says about the stored item: the
\* deadline is the same, an end is the same end, and what has left "pending" has
\* not gone back to it, nor away.
AgreesWith(request, item) ==
  /\ WellFormed(request)
  /\ Exists(item) /\ request.status # "absent" => item.expiresAt = request.expiresAt
  /\ IsTerminal(request) => /\ item.status = request.status
                            /\ item.doc.approver = request.approver
  /\ request.status \notin {"absent", "pending"} => item.status \notin {"absent", "pending"}

\* A stored document is consistent, and what is not stored is not there at all.
TableInv ==
  /\ DocumentMatchesItem
  /\ \A r \in Requests :
       /\ WellFormed(table[r].doc)
       /\ ~Exists(table[r]) => table[r] = NoItem

\* The notify invocation alone creates and deletes the request, and nobody acts
\* on the request before its message is shown.
NotifyInv ==
  \A r \in Requests :
    /\ notify[r] \in {"idle", "refused"} => table[r] = NoItem
    /\ notify[r] \in {"posting", "recording", "rollback", "created"} => Exists(table[r])
    /\ notify[r] \in {"recording", "created"} => message[r] # "none"
    /\ notify[r] \in {"idle", "refused", "posting"} => message[r] = "none"
    /\ message[r] = "none" => /\ table[r].status \in {"absent", "pending"}
                              /\ \A c \in Clicks : click[c].requestId # r

PollInv ==
  \A r \in Requests :
    /\ poll[r].pc # "idle" => notify[r] = "created"
    /\ poll[r].pc \in {"answer", "expire"} =>
         AgreesWith(poll[r].request, table[r]) /\ poll[r].request.status # "absent"
    /\ poll[r].pc = "expire" => poll[r].request.status = "pending"
    /\ told[r] # "unknown_request"

\* The winner of r: the click whose claim is in flight, or was finalized.
Holds(c, r) ==
  click[c].requestId = r /\ (click[c].pc = "finalize" \/ click[c].outcome = "claimed")

ClickInv ==
  \A c \in Clicks :
    LET cl == click[c]
        item == table[cl.requestId]
    IN
    /\ cl.pc # "idle" =>
         cl.requestId \in Requests /\ cl.userId \in Users /\ cl.action \in Actions
    /\ cl.pc = "idle" => cl = IdleClick
    /\ cl.outcome = "claimed" => cl.pc \in {"enqueue", "done", "crashed"}
    /\ cl.pc \in {"decide", "expire"} => AgreesWith(cl.request, item)
    /\ cl.pc = "expire" => cl.request.status # "absent"
    /\ cl.pc \in {"claim", "finalize"} =>
         /\ cl.request.status = "processing"
         /\ cl.request.claim = [decision |-> DecisionOf(cl.action), userId |-> cl.userId]
         /\ cl.request.approver = NoUser
         /\ IsAuthorizedApprover(cl.userId, RepoOf[cl.requestId])
         /\ Exists(item) => item.expiresAt = cl.request.expiresAt
    /\ cl.pc = "finalize" =>
         item.doc = cl.request /\ item.status = "processing" /\ item.claimUserId = cl.userId
    /\ cl.pc = "enqueue" => cl.outcome = "claimed"
    /\ cl.outcome = "claimed" =>
         /\ item.status = DecisionOf(cl.action)
         /\ item.doc.approver = cl.userId
    /\ \A d \in Clicks \ {c} : \A r \in Requests : ~(Holds(c, r) /\ Holds(d, r))

\* The follow-up that won the right to deliver, until its comment is settled.
Delivers(e, r) == fx[e].requestId = r /\ fx[e].pc \in {"get", "effects"}

FxInv ==
  /\ \A e \in Executions :
       LET f == fx[e]
           item == table[f.requestId]
       IN
       /\ f.pc # "idle" => f.requestId \in Requests
       /\ f.pc = "idle" => f = IdleFx
       /\ f.pc \in {"claim", "get"} => f.effects = {}
       /\ f.pc \in {"get", "effects"} => item.sideEffects
       /\ f.pc = "effects" => AgreesWith(f.request, item) /\ IsDecided(f.request)
       /\ f.pc = "get" \/ "comment" \in f.effects => comments[f.requestId] = <<>>
       /\ \A g \in Executions \ {e} : \A r \in Requests : ~(Delivers(e, r) /\ Delivers(g, r))
  /\ \A r \in Requests : comments[r] # <<>> => table[r].sideEffects

IInv ==
  /\ TypeOK /\ TableInv /\ NotifyInv /\ PollInv /\ ClickInv /\ FxInv
  /\ DecidedByApprover /\ PublishedOnceAndTrue /\ CIToldTheTruth /\ CIFindsItsRequest

-----------------------------------------------------------------------------
(* Action properties *)

\* A claim binds: whatever rollbacks, expiries and other clicks run meanwhile, a
\* claimed request stays claimed or gets the decision its claimant chose.
ClaimIsBinding ==
  [][\A r \in Requests :
       table[r].status = "processing" =>
         \/ table'[r].status = "processing" /\ table'[r].doc.claim = table[r].doc.claim
         \/ /\ table'[r].status = table[r].doc.claim.decision
            /\ table'[r].doc.approver = table[r].doc.claim.userId]_vars

\* An approved, denied or expired request stays what it is, with its approver.
EndIsFinal ==
  [][\A r \in Requests :
       IsTerminal(table[r].doc) =>
         /\ table'[r].status = table[r].status
         /\ table'[r].doc.approver = table[r].doc.approver]_vars

\* A request that was rolled back never comes back: every later write of a
\* handler that still holds a copy of it is conditional on the stored status.
RolledBackStaysGone ==
  [][\A r \in Requests :
       notify[r] \notin {"idle"} /\ ~Exists(table[r]) => ~Exists(table'[r])]_vars

-----------------------------------------------------------------------------
(* The broker implements the abstract approval *)

PhaseOf(r) ==
  IF Exists(table[r]) THEN table[r].status
  ELSE IF notify[r] \in {"idle", "refused"} THEN "none" ELSE "withdrawn"

ClaimOf(r) ==
  IF table[r].status \in {"processing"} \cup Decisions
  THEN BuildAuditComment(table[r].doc) ELSE NoClaim

Approval ==
  INSTANCE BreakGlassApproval WITH
    ApproversOf <- [r \in Requests |-> {u \in Users : IsAuthorizedApprover(u, RepoOf[r])}],
    phase       <- [r \in Requests |-> PhaseOf(r)],
    claim       <- [r \in Requests |-> ClaimOf(r)],
    published   <- comments

\* Every behaviour of the broker, under every fault, is one of the abstract
\* approval: that is what the handlers and the store promise together.
ImplementsApproval == Approval!Spec

-----------------------------------------------------------------------------
(* Liveness, under FairSpec, without crashes and lost writes *)

\* A decision's audit comment is posted although Slack fails, the enqueue fails
\* or the job is delivered more than once.
DecisionIsAudited ==
  \A r \in Requests :
    table[r].status \in Decisions ~> comments[r] # <<>>

\* A CI that keeps polling is told the end of every request it created, whoever
\* clicks or does not.
CILearnsTheEnd ==
  \A r \in Requests :
    notify[r] = "created" ~> told[r] \in Decisions \cup {"expired"}
=============================================================================
