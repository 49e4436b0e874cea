--------------------------- MODULE ExpressBroker ---------------------------
(***************************************************************************)
(* The Express break-glass broker (app.mjs, store.mjs, server.mjs): one    *)
(* Node process with all requests in memory and a copy of them in a file.  *)
(* Handlers interleave at their awaits.  Every change goes through         *)
(* store.update: its mutator runs when the chain of earlier updates is     *)
(* done, then the whole store is written to disk, then its caller goes on. *)
(* A caller goes on before the next mutator runs (the order of promise     *)
(* reactions), so "written" and "the caller's code up to its next await"   *)
(* are one step.                                                           *)
(*                                                                         *)
(*   notify[r]  POST /break-glass/notify, which creates request r          *)
(*   poll[r]    GET /break-glass/status for r                              *)
(*   click[c]   POST /slack/interactions with one signed button click      *)
(*                                                                         *)
(* store.get answers from memory, whatever the disk says.  Faults names    *)
(* how the environment may misbehave:                                      *)
(*   post    Slack refuses the approval message                            *)
(*   lost    Slack shows it, but its answer never arrives (15 s timeout)   *)
(*   update  updating the message fails                                    *)
(*   github  posting the audit comment fails                               *)
(*   disk    writing the file fails, leaving the old one                   *)
(*   crash   the process dies and is started again from the file           *)
(***************************************************************************)
EXTENDS BreakGlassDecision, Sequences

CONSTANTS
  Requests,          \* requests CI may open, one notify each
  RepoOf,            \* the repository each request is about
  RequestedSeconds,  \* payload.timeoutSeconds; 0 when absent
  Clicks,            \* button clicks
  Faults,            \* how the environment may misbehave
  MaxTime            \* the bound of the model's clock

FaultKinds == {"post", "lost", "update", "github", "disk", "crash"}

ASSUME ExpressAssumption ==
  /\ "none" \notin Requests
  /\ Requests \cap Clicks = {}
  /\ RepoOf \in [Requests -> Repos]
  /\ RequestedSeconds \subseteq Nat
  /\ MaxTime \in Nat
  /\ Faults \subseteq FaultKinds

VARIABLES
  now,       \* the time now() reads
  mem,       \* the store's requests
  disk,      \* data/requests.json
  chain,     \* the updates that are not done, oldest first
  writing,   \* has the oldest one run its mutator (and is being written)?
  message,   \* the Slack message of each request
  comments,  \* the audit comments on the pull request of each request
  notify, poll, click,
  told       \* the last status CI was told of each request

vars == <<now, mem, disk, chain, writing, message, comments, notify, poll, click, told>>

store    == <<mem, disk, chain, writing>>
handlers == <<notify, poll, click>>
outside  == <<message, comments, told>>

NotifyPcs ==
  {"idle", "refused", "putting", "posting", "posted", "recording", "rollback",
   "created",  \* 201
   "failed",   \* 502, 500, or cut off, once the request was stored
   "aborted"}  \* 500 or cut off while it was being stored

Notify ==
  [ pc      : NotifyPcs,
    request : Request,                         \* as created, before it is stored
    answer  : Statuses \cup {"none"} ]         \* the status in the 201

Click ==
  [ pc : {"idle", "claiming", "finalizing", "effects", "done", "failed"},
    requestId : Requests \cup {"none"},
    action    : Actions \cup {"none"},
    userId    : Users \cup {NoUser},
    outcome   : {"none", "unauthorized", "rejected", "expired", "duplicate", "claimed"},
    request   : Request,                        \* what the effects speak of
    effects   : SUBSET {"comment", "update"} ]

IdleNotify == [pc |-> "idle", request |-> NoRequest, answer |-> "none"]

IdleClick ==
  [ pc |-> "idle", requestId |-> "none", action |-> "none", userId |-> NoUser,
    outcome |-> "none", request |-> NoRequest, effects |-> {} ]

\* An update: what its mutator does, and the request or click it belongs to.
Job ==
  [op : {"put", "slackRef", "rollback", "expire"}, id : Requests]
    \cup [op : {"claim", "finalize"}, id : Clicks]

TypeOK ==
  /\ now \in 0..MaxTime
  /\ mem      \in [Requests -> Request]
  /\ disk     \in [Requests -> Request]
  /\ chain    \in Seq(Job)
  /\ writing  \in BOOLEAN
  /\ message  \in [Requests -> {"none", "buttons"} \cup Decisions]
  /\ comments \in [Requests -> Seq(Claim)]
  /\ notify   \in [Requests -> Notify]
  /\ poll     \in [Requests -> {"idle", "expiring"}]
  /\ click    \in [Clicks -> Click]
  /\ told     \in [Requests -> Statuses \cup {"none", "unknown_request"}]

Init ==
  /\ now      = 0
  /\ mem      = [r \in Requests |-> NoRequest]
  /\ disk     = mem
  /\ chain    = <<>>
  /\ writing  = FALSE
  /\ message  = [r \in Requests |-> "none"]
  /\ comments = [r \in Requests |-> <<>>]
  /\ notify   = [r \in Requests |-> IdleNotify]
  /\ poll     = [r \in Requests |-> "idle"]
  /\ click    = [c \in Clicks |-> IdleClick]
  /\ told     = [r \in Requests |-> "none"]

Exists(request) == request.status # "absent"

Tick ==
  /\ now < MaxTime
  /\ now' = now + 1
  /\ UNCHANGED <<store, handlers, outside>>

-----------------------------------------------------------------------------
(* store.update *)

Update(op, id) == chain' = Append(chain, [op |-> op, id |-> id])

\* The oldest update belongs to id and is about to run its mutator.
Runs(op, id) == chain # <<>> /\ ~writing /\ Head(chain) = [op |-> op, id |-> id]

\* Its mutator makes request r of the store this; the write begins.
Mutate(r, request) ==
  /\ mem' = [mem EXCEPT ![r] = request]
  /\ writing' = TRUE
  /\ UNCHANGED <<disk, chain>>

\* The oldest update belongs to id and is being written.
Writes(op, id) == writing /\ Head(chain) = [op |-> op, id |-> id]

\* The file is replaced by all that is in memory, and the update is done.
Persist == disk' = mem /\ writing' = FALSE /\ UNCHANGED mem

\* The write rejects: memory keeps the change, the caller gets the error.
PersistFails ==
  /\ "disk" \in Faults
  /\ writing' = FALSE
  /\ UNCHANGED <<mem, disk>>

\* The next update's turn.
Done == chain' = Tail(chain)

\* The same, and the caller at once asks for another update, behind all others.
DoneThenUpdate(op, id) == chain' = Append(Tail(chain), [op |-> op, id |-> id])

-----------------------------------------------------------------------------
(* POST /break-glass/notify *)

NotifyGoto(r, pc) == notify' = [notify EXCEPT ![r].pc = pc]

\* A wrong token (401) or an invalid payload (400).
NotifyRefused(r) ==
  /\ notify[r].pc = "idle"
  /\ NotifyGoto(r, "refused")
  /\ UNCHANGED <<now, store, poll, click, outside>>

\* Variant: the update that stores the request is not awaited.
NotifyArriveHastily(r) ==
  /\ notify[r].pc = "idle"
  /\ \E seconds \in RequestedSeconds :
       /\ now + ClampTimeout(seconds) =< MaxTime
       /\ notify' = [notify EXCEPT ![r] =
            [@ EXCEPT !.pc = "posting", !.request = CreatePendingRequest(seconds, now)]]
  /\ Update("put", r)
  /\ UNCHANGED <<now, mem, disk, writing, poll, click, outside>>

NotifyArrive(r) ==
  /\ notify[r].pc = "idle"
  /\ \E seconds \in RequestedSeconds :
       /\ now + ClampTimeout(seconds) =< MaxTime    \* a deadline the model reaches
       /\ notify' = [notify EXCEPT ![r] =
            [@ EXCEPT !.pc = "putting", !.request = CreatePendingRequest(seconds, now)]]
  /\ Update("put", r)
  /\ UNCHANGED <<now, mem, disk, writing, poll, click, outside>>

PutRuns(r) ==
  /\ Runs("put", r)
  /\ Mutate(r, notify[r].request)
  /\ UNCHANGED <<now, handlers, outside>>

\* The request is stored; slack.postMessage is called.
PutWritten(r) ==
  /\ Writes("put", r)
  /\ Persist
  /\ Done
  /\ NotifyGoto(r, "posting")
  /\ UNCHANGED <<now, poll, click, outside>>

\* Outside the handler's try: a 500, and the request stays in memory.
PutFails(r) ==
  /\ Writes("put", r)
  /\ PersistFails
  /\ Done
  /\ NotifyGoto(r, "aborted")
  /\ UNCHANGED <<now, poll, click, outside>>

\* Slack shows the message; the handler still waits for its answer.
SlackPosts(r) ==
  /\ notify[r].pc = "posting"
  /\ message' = [message EXCEPT ![r] = "buttons"]
  /\ NotifyGoto(r, "posted")
  /\ UNCHANGED <<now, store, poll, click, comments, told>>

PostAnswered(r) ==
  /\ notify[r].pc = "posted"
  /\ Update("slackRef", r)
  /\ NotifyGoto(r, "recording")
  /\ UNCHANGED <<now, mem, disk, writing, poll, click, outside>>

\* slack.postMessage rejects, before or after Slack has shown the message.
PostFails(r) ==
  /\ \/ notify[r].pc = "posting" /\ "post" \in Faults
     \/ notify[r].pc = "posted"  /\ "lost" \in Faults
  /\ Update("rollback", r)
  /\ NotifyGoto(r, "rollback")
  /\ UNCHANGED <<now, mem, disk, writing, poll, click, outside>>

\* The request is there: only the rollback of this very handler deletes it.
SlackRefRuns(r) ==
  /\ Runs("slackRef", r)
  /\ Mutate(r, [mem[r] EXCEPT !.slack = TRUE])
  /\ UNCHANGED <<now, handlers, outside>>

\* The 201 that tells CI the request's id.  The handler holds the stored object
\* itself, so the status it answers is the one of now.
SlackRefWritten(r) ==
  /\ Writes("slackRef", r)
  /\ Persist
  /\ Done
  /\ notify' = [notify EXCEPT ![r] = [@ EXCEPT !.pc = "created", !.answer = mem[r].status]]
  /\ UNCHANGED <<now, poll, click, outside>>

\* Variant: CI gets its 201 although the reference could not be written.
SlackRefFailsUnnoticed(r) ==
  /\ Writes("slackRef", r)
  /\ PersistFails
  /\ Done
  /\ notify' = [notify EXCEPT ![r] = [@ EXCEPT !.pc = "created", !.answer = mem[r].status]]
  /\ UNCHANGED <<now, poll, click, outside>>

\* Inside the try: the request is rolled back.
SlackRefFails(r) ==
  /\ Writes("slackRef", r)
  /\ PersistFails
  /\ DoneThenUpdate("rollback", r)
  /\ NotifyGoto(r, "rollback")
  /\ UNCHANGED <<now, poll, click, outside>>

\* Whatever became of the request meanwhile, it is deleted.
RollbackRuns(r) ==
  /\ Runs("rollback", r)
  /\ Mutate(r, NoRequest)
  /\ UNCHANGED <<now, handlers, outside>>

\* A 502, or a 500 if the write fails.
RollbackEnds(r) ==
  /\ Writes("rollback", r)
  /\ Persist \/ PersistFails
  /\ Done
  /\ NotifyGoto(r, "failed")
  /\ UNCHANGED <<now, poll, click, outside>>

NotifyStep(r) ==
  \/ PutRuns(r) \/ PutWritten(r) \/ PutFails(r)
  \/ SlackPosts(r) \/ PostAnswered(r) \/ PostFails(r)
  \/ SlackRefRuns(r) \/ SlackRefWritten(r) \/ SlackRefFails(r)
  \/ RollbackRuns(r) \/ RollbackEnds(r)

-----------------------------------------------------------------------------
(* GET /break-glass/status *)

Tell(r, status) ==
  told' = [told EXCEPT ![r] = IF status = "absent" THEN "unknown_request" ELSE status]

\* Variant: marks the expiry in memory, without an update of the store.
PollExpiresInPlace(r) ==
  /\ notify[r].pc = "created" /\ notify[r].answer = "pending"
  /\ poll[r] = "idle"
  /\ LET late == mem[r].status = "pending" /\ IsExpired(mem[r], now) IN
     /\ mem' = [mem EXCEPT ![r].status = IF late THEN "expired" ELSE @]
     /\ Tell(r, mem'[r].status)
  /\ UNCHANGED <<now, disk, chain, writing, handlers, message, comments>>

\* CI polls a request only if the 201 said it is pending (break-glass-notify.mjs
\* fails otherwise).  store.get answers at once, unless a pending request turns
\* out to be past its deadline.
PollArrive(r) ==
  /\ notify[r].pc = "created" /\ notify[r].answer = "pending"
  /\ poll[r] = "idle"
  /\ IF mem[r].status = "pending" /\ IsExpired(mem[r], now)
     THEN /\ poll' = [poll EXCEPT ![r] = "expiring"]
          /\ Update("expire", r)
          /\ UNCHANGED told
     ELSE /\ Tell(r, mem[r].status)
          /\ UNCHANGED <<poll, chain>>
  /\ UNCHANGED <<now, mem, disk, writing, notify, click, message, comments>>

ExpireRuns(r) ==
  /\ Runs("expire", r)
  /\ Mutate(r, IF mem[r].status = "pending" THEN [mem[r] EXCEPT !.status = "expired"]
               ELSE mem[r])
  /\ UNCHANGED <<now, handlers, outside>>

\* The answer is the status of now, not the one that was read on arrival.
ExpireWritten(r) ==
  /\ Writes("expire", r)
  /\ Persist
  /\ Done
  /\ poll' = [poll EXCEPT ![r] = "idle"]
  /\ Tell(r, mem[r].status)
  /\ UNCHANGED <<now, notify, click, message, comments>>

\* A 500.  CI's script then gives up; asking again, as this model lets it, is one
\* behaviour more.
ExpireFails(r) ==
  /\ Writes("expire", r)
  /\ PersistFails
  /\ Done
  /\ poll' = [poll EXCEPT ![r] = "idle"]
  /\ UNCHANGED <<now, notify, click, outside>>

ExpireStep(r) == ExpireRuns(r) \/ ExpireWritten(r) \/ ExpireFails(r)

-----------------------------------------------------------------------------
(* POST /slack/interactions *)

ClickEnds(c, pc, outcome) ==
  click' = [click EXCEPT ![c] = [@ EXCEPT !.pc = pc, !.outcome = outcome,
                                          !.request = NoRequest, !.effects = {}]]

\* The repository is the stored request's: an unknown request authorizes nobody.
Authorized(r, userId) == Exists(mem[r]) /\ IsAuthorizedApprover(userId, RepoOf[r])

\* A verified click on a message that was shown, acknowledged and authorized in
\* one go.  A bad signature (401), a body that does not parse (400), an
\* interaction that is no button or a value that is no decision ends the handler
\* before anything is read.
ClickArrive(c) ==
  /\ click[c].pc = "idle"
  /\ \E r \in Requests, u \in Users, a \in Actions :
       /\ message[r] # "none"
       /\ LET cl == [IdleClick EXCEPT !.requestId = r, !.userId = u, !.action = a] IN
          IF Authorized(r, u)
          THEN /\ click' = [click EXCEPT ![c] = [cl EXCEPT !.pc = "claiming"]]
               /\ Update("claim", c)
          ELSE /\ click' = [click EXCEPT ![c] =
                    [cl EXCEPT !.pc = "done", !.outcome = "unauthorized"]]
               /\ UNCHANGED chain
  /\ UNCHANGED <<now, mem, disk, writing, notify, poll, outside>>

\* claimDecision on the store's own object, with the clock of now.
ClaimRuns(c) ==
  LET r       == click[c].requestId
      outcome == ClaimOutcome(mem[r], now)
  IN
  /\ Runs("claim", c)
  /\ Mutate(r, CASE outcome = "claimed" -> ClaimedRequest(mem[r], click[c].action, click[c].userId)
                 [] outcome = "expired" /\ mem[r].status = "pending" ->
                      [mem[r] EXCEPT !.status = "expired"]
                 [] OTHER -> mem[r])
  /\ click' = [click EXCEPT ![c].outcome = outcome]
  /\ UNCHANGED <<now, notify, poll, outside>>

\* Variant: the message is updated first, and its failure thrown.
ClaimWrittenUpdatesFirst(c) ==
  /\ Writes("claim", c)
  /\ Persist
  /\ IF click[c].outcome = "claimed"
     THEN \/ click' = [click EXCEPT ![c].pc = "finalizing"] /\ DoneThenUpdate("finalize", c)
          \/ "update" \in Faults /\ click' = [click EXCEPT ![c].pc = "failed"] /\ Done
     ELSE click' = [click EXCEPT ![c].pc = "done"] /\ Done
  /\ UNCHANGED <<now, notify, poll, outside>>

\* The claimant goes on to finalize; anybody else is told what happened.
ClaimWritten(c) ==
  /\ Writes("claim", c)
  /\ Persist
  /\ IF click[c].outcome = "claimed"
     THEN click' = [click EXCEPT ![c].pc = "finalizing"] /\ DoneThenUpdate("finalize", c)
     ELSE click' = [click EXCEPT ![c].pc = "done"] /\ Done
  /\ UNCHANGED <<now, notify, poll, outside>>

\* Variant: the claim counts although it could not be written.
ClaimFailsUnnoticed(c) ==
  /\ Writes("claim", c)
  /\ PersistFails
  /\ IF click[c].outcome = "claimed"
     THEN click' = [click EXCEPT ![c].pc = "finalizing"] /\ DoneThenUpdate("finalize", c)
     ELSE click' = [click EXCEPT ![c].pc = "done"] /\ Done
  /\ UNCHANGED <<now, notify, poll, outside>>

\* The handler dies of the write's error, and leaves its claim in memory.
ClaimFails(c) ==
  /\ Writes("claim", c)
  /\ PersistFails
  /\ Done
  /\ click' = [click EXCEPT ![c].pc = "failed"]
  /\ UNCHANGED <<now, notify, poll, outside>>

\* Variant: the audit comment goes out before the decision is on disk.
FinalizePublishesFirst(c) ==
  LET r == click[c].requestId IN
  /\ Runs("finalize", c)
  /\ CanFinalize(mem[r], click[c].userId)
  /\ Mutate(r, FinalizedRequest(mem[r]))
  /\ comments' = [comments EXCEPT ![r] = Append(@, BuildAuditComment(mem[r]))]
  /\ UNCHANGED <<now, handlers, message, told>>

FinalizeRuns(c) ==
  LET r == click[c].requestId IN
  /\ Runs("finalize", c)
  /\ CanFinalize(mem[r], click[c].userId)
  /\ Mutate(r, FinalizedRequest(mem[r]))
  /\ UNCHANGED <<now, handlers, outside>>

\* finalizeDecision throws: nothing is written, and the next update runs.
FinalizeThrows(c) ==
  /\ Runs("finalize", c)
  /\ ~CanFinalize(mem[click[c].requestId], click[c].userId)
  /\ Done
  /\ click' = [click EXCEPT ![c].pc = "failed"]
  /\ UNCHANGED <<now, mem, disk, writing, notify, poll, outside>>

\* store.get, then both side effects are started; building the message update
\* throws, before either is, if the message's reference is not recorded.
FinalizeWritten(c) ==
  LET request == mem[click[c].requestId] IN
  /\ Writes("finalize", c)
  /\ Persist
  /\ Done
  /\ click' = [click EXCEPT ![c] =
       IF request.slack
       THEN [@ EXCEPT !.pc = "effects", !.request = request, !.effects = {"comment", "update"}]
       ELSE [@ EXCEPT !.pc = "done"]]
  /\ UNCHANGED <<now, notify, poll, outside>>

FinalizeFails(c) ==
  /\ Writes("finalize", c)
  /\ PersistFails
  /\ Done
  /\ click' = [click EXCEPT ![c].pc = "failed"]
  /\ UNCHANGED <<now, notify, poll, outside>>

\* Promise.allSettled: each effect ends on its own, the last one ends the handler.
Settled(c, effect) ==
  LET left == click[c].effects \ {effect} IN
  /\ effect \in click[c].effects
  /\ IF left = {} THEN ClickEnds(c, "done", click[c].outcome)
     ELSE click' = [click EXCEPT ![c].effects = left]

PostComment(c) ==
  LET r == click[c].requestId IN
  /\ Settled(c, "comment")
  /\ comments' = [comments EXCEPT ![r] = Append(@, BuildAuditComment(click[c].request))]
  /\ UNCHANGED <<now, store, notify, poll, message, told>>

UpdateMessage(c) ==
  /\ Settled(c, "update")
  /\ message' = [message EXCEPT ![click[c].requestId] = click[c].request.status]
  /\ UNCHANGED <<now, store, notify, poll, comments, told>>

\* A rejected effect is logged, and never tried again.
EffectFails(c) ==
  /\ \/ "github" \in Faults /\ Settled(c, "comment")
     \/ "update" \in Faults /\ Settled(c, "update")
  /\ UNCHANGED <<now, store, notify, poll, outside>>

ClickStep(c) ==
  \/ ClaimRuns(c) \/ ClaimWritten(c) \/ ClaimFails(c)
  \/ FinalizeRuns(c) \/ FinalizeThrows(c) \/ FinalizeWritten(c) \/ FinalizeFails(c)
  \/ PostComment(c) \/ UpdateMessage(c) \/ EffectFails(c)

-----------------------------------------------------------------------------
(* server.mjs *)

\* The process dies, its handlers and the chain with it, and starts again from
\* the file, which the write that was under way may have replaced or not.
Restart ==
  /\ "crash" \in Faults
  /\ disk' \in {disk} \cup (IF writing THEN {mem} ELSE {})
  /\ mem' = disk'
  /\ chain' = <<>> /\ writing' = FALSE
  /\ notify' = [r \in Requests |->
       CASE notify[r].pc = "putting" -> [notify[r] EXCEPT !.pc = "aborted"]
         [] notify[r].pc \in {"posting", "posted", "recording", "rollback"} ->
              [notify[r] EXCEPT !.pc = "failed"]
         [] OTHER -> notify[r]]
  /\ poll' = [r \in Requests |-> "idle"]
  /\ click' = [c \in Clicks |->
       IF click[c].pc \in {"claiming", "finalizing", "effects"}
       THEN [click[c] EXCEPT !.pc = "failed", !.request = NoRequest, !.effects = {}]
       ELSE click[c]]
  /\ UNCHANGED <<now, outside>>

-----------------------------------------------------------------------------

Next ==
  \/ Tick
  \/ Restart
  \/ \E r \in Requests :
       \/ NotifyRefused(r) \/ NotifyArrive(r) \/ NotifyStep(r)
       \/ PollArrive(r) \/ ExpireStep(r)
  \/ \E c \in Clicks : ClickArrive(c) \/ ClickStep(c)

Spec == Init /\ [][Next]_vars

\* The process runs what is ready to run, calls to Slack and GitHub end (by their
\* 15 s timeout at the latest), time passes, and CI keeps polling.
Fairness ==
  /\ WF_vars(Tick)
  /\ \A r \in Requests :
       WF_vars(NotifyStep(r)) /\ WF_vars(PollArrive(r)) /\ WF_vars(ExpireStep(r))
  /\ \A c \in Clicks : WF_vars(ClickStep(c))

FairSpec == Spec /\ Fairness

-----------------------------------------------------------------------------
(* Safety, under every fault *)

\* The request was, or is about to be, rolled back by its notify handler.
RolledBack(r) == notify[r].pc \in {"rollback", "failed"} /\ ~Exists(disk[r])

\* CI reads memory, which a crash or a failed write can leave ahead of the disk:
\* an end it was told is nevertheless never contradicted.  The most a restart
\* undoes is the finalization of the claim that led to it, or an expiry that the
\* clock will impose again.
CINotMisled ==
  \A r \in Requests :
    /\ told[r] \in Decisions =>
         \/ mem[r].status = told[r]
         \/ mem[r].status = "processing" /\ mem[r].claim.decision = told[r]
    /\ told[r] = "expired" =>
         \/ mem[r].status = "expired"
         \/ mem[r].status = "pending" /\ IsExpired(mem[r], now)

\* At most one audit comment, about a decision that no crash can take back: it is
\* on disk (unless notify withdrew the request).  The message says the same.
PublishedIsDurable ==
  \A r \in Requests :
    /\ Len(comments[r]) =< 1
    /\ Len(comments[r]) = 1 =>
         \/ comments[r][1] = [decision |-> disk[r].status, userId |-> disk[r].approver]
         \/ RolledBack(r)
    /\ message[r] \in Decisions => message[r] = disk[r].status \/ RolledBack(r)

\* The click's handler ran to the end of its decision.
Decided(c) == click[c].outcome = "claimed" /\ click[c].pc \in {"effects", "done"}

\* Across interleaved clicks, crashes and failed writes, one click at most decides
\* a request, and the file holds its user and button (unless notify withdrew it).
OneClickDecides ==
  \A c \in Clicks :
    LET r == click[c].requestId IN
    Decided(c) =>
      /\ \/ /\ disk[r].status   = DecisionOf(click[c].action)
            /\ disk[r].approver = click[c].userId
         \/ RolledBack(r)
      /\ \A d \in Clicks \ {c} : Decided(d) => click[d].requestId # r

\* A request whose id CI was given survives every crash and failed write, with the
\* reference that updating its message needs.
KnownRequestIsDurable ==
  \A r \in Requests :
    notify[r].pc = "created" =>
      Exists(disk[r]) /\ disk[r].slack /\ Exists(mem[r]) /\ mem[r].slack

-----------------------------------------------------------------------------
(* Safety, unless writes fail or Slack's answer is lost *)

\* A button that is shown belongs to a request that is on disk, so even a click
\* right after it, or right after a restart, finds it.
ShownIsStored == \A r \in Requests : message[r] # "none" => Exists(disk[r])

\* Nothing that was queued between a claim and its finalization takes the request
\* from the claimant: finalizeDecision never throws.
ClaimSurvivesToFinalize ==
  \A c \in Clicks : Runs("finalize", c) => CanFinalize(mem[click[c].requestId], click[c].userId)

PhaseOf(r) ==
  IF Exists(disk[r]) THEN disk[r].status
  ELSE IF notify[r].pc = "failed" THEN "withdrawn" ELSE "none"

ClaimOf(r) ==
  IF disk[r].status \in {"processing"} \cup Decisions
  THEN BuildAuditComment(disk[r]) ELSE NoClaim

Approval ==
  INSTANCE BreakGlassApproval WITH
    ApproversOf <- [r \in Requests |-> {u \in Users : IsAuthorizedApprover(u, RepoOf[r])}],
    phase       <- [r \in Requests |-> PhaseOf(r)],
    claim       <- [r \in Requests |-> ClaimOf(r)],
    published   <- comments

\* What is on disk, with the comments, goes through the abstract approval and
\* nothing else, whatever memory said in between and wherever the process died.
DiskImplementsApproval == Approval!Spec

-----------------------------------------------------------------------------
(* Liveness, under FairSpec *)

\* A CI that keeps polling is told the end of every request it may poll, whoever
\* clicks or does not.
CILearnsTheEnd ==
  \A r \in Requests :
    notify[r].pc = "created" /\ notify[r].answer = "pending"
      ~> told[r] \in Decisions \cup {"expired"}

-----------------------------------------------------------------------------
(* What the repository says and this broker does not keep *)

\* README.md: a click "runs the shared claim/finalize logic, then chat.update's the
\* message and posts the GitHub PR audit comment".
DecisionIsAudited ==
  \A r \in Requests : mem[r].status \in Decisions ~> comments[r] # <<>>

=============================================================================
