-------------------------- MODULE ExpressBrokerProofs --------------------------
(***************************************************************************)
(* Proofs about the Express broker for any requests, clicks and faults:    *)
(* its types, and what crashes, failed writes and lost answers leave true. *)
(* The inductive invariant relates the two copies of each request (the     *)
(* file follows memory, Follows), the queue of updates and the handlers    *)
(* that wait for them (ChainInv), and what each click that claimed a       *)
(* request finds in both copies (ClickInv).                                *)
(***************************************************************************)
EXTENDS ExpressBroker, SequenceTheorems, TLAPS

-----------------------------------------------------------------------------
(* The inductive invariant *)

QueuedIn(queue) == {queue[i] : i \in 1..Len(queue)}

NoRepeats(queue) == \A i, j \in 1..Len(queue) : queue[i] = queue[j] => i = j

\* The handler that asked for an update waits for it.
Waits(job) ==
  /\ job.op = "put"      => notify[job.id].pc = "putting"
  /\ job.op = "slackRef" => notify[job.id].pc = "recording"
  /\ job.op = "rollback" => notify[job.id].pc = "rollback"
  /\ job.op = "expire"   => poll[job.id] = "expiring"
  /\ job.op = "claim"    => click[job.id].pc = "claiming"
  /\ job.op = "finalize" => click[job.id].pc = "finalizing"

ChainInv ==
  /\ NoRepeats(chain)
  /\ \A job \in QueuedIn(chain) : Waits(job)
  /\ writing => chain # <<>>

\* A copy of a request about this repository.
Stored(q, repository, time) ==
  /\ q.status = "processing" <=> q.claim # NoClaim
  /\ IsDecided(q) <=> q.approver # NoUser
  /\ q.claim # NoClaim => IsAuthorizedApprover(q.claim.userId, repository)
  /\ q.approver # NoUser => IsAuthorizedApprover(q.approver, repository)
  /\ ~Exists(q) => q = NoRequest
  /\ q.status = "expired" => IsExpired(q, time)

\* What memory (m) may have made of a request that is on disk (d).
Follows(d, m) ==
  /\ ~Exists(d) => m.status \in {"absent", "pending"}
  /\ Exists(d) /\ Exists(m) => m.expiresAt = d.expiresAt /\ (d.slack => m.slack)
  /\ d.status = "pending" => m.status \in {"absent", "pending", "processing", "expired"}
  /\ d.status = "processing" =>
       \/ ~Exists(m)
       \/ m.status = "processing" /\ m.claim = d.claim
       \/ m.status = d.claim.decision /\ m.approver = d.claim.userId
  /\ IsTerminal(d) =>
       \/ ~Exists(m)
       \/ m.status = d.status /\ m.approver = d.approver

StoreInv(r) ==
  /\ Stored(mem[r], RepoOf[r], now)
  /\ Stored(disk[r], RepoOf[r], now)
  /\ Follows(disk[r], mem[r])

WritingInv(r) ==
  /\ Writes("put", r)      => mem[r] = notify[r].request
  /\ Writes("slackRef", r) => mem[r].slack
  /\ Writes("rollback", r) => mem[r] = NoRequest

NotifyInv(r) ==
  LET pc == notify[r].pc IN
  /\ pc \in {"idle", "refused", "putting", "posting", "aborted"} => message[r] = "none"
  /\ pc \in {"posted", "recording", "created"} => message[r] # "none"
  /\ message[r] = "none" =>
       /\ mem[r].status \in {"absent", "pending"}
       /\ disk[r].status \in {"absent", "pending"}
  /\ pc \in {"idle", "refused"} => ~Exists(mem[r])
  /\ pc = "putting" =>
       /\ ~Exists(disk[r])
       /\ Exists(mem[r]) => Writes("put", r)
       /\ notify[r].request = [NoRequest EXCEPT !.status = "pending",
                                                !.expiresAt = notify[r].request.expiresAt]
  /\ pc \in {"posting", "posted", "recording", "created"} => Exists(mem[r]) /\ Exists(disk[r])
  /\ pc = "created" => mem[r].slack /\ disk[r].slack
  /\ Exists(disk[r]) /\ ~Exists(mem[r]) => pc \in {"rollback", "failed"}
  /\ Exists(mem[r]) /\ ~Exists(disk[r]) => pc \in {"putting", "aborted"}

PollInv(r) ==
  poll[r] = "expiring" => notify[r].pc = "created" /\ IsExpired(mem[r], now)

\* What CI was told of a request is true of either copy, or will be again.
Bears(q, answer, time) ==
  /\ answer \in Decisions =>
       \/ q.status = answer
       \/ q.status = "processing" /\ q.claim.decision = answer
  /\ answer = "expired" => q.status = "expired" \/ (q.status = "pending" /\ IsExpired(q, time))

ToldInv(r) ==
  /\ told[r] # "none" => notify[r].pc = "created"
  /\ Bears(mem[r], told[r], now)
  /\ Bears(disk[r], told[r], now)

PublishedInv(r) ==
  /\ Len(comments[r]) =< 1
  /\ Len(comments[r]) = 1 =>
       \/ IsDecided(disk[r])
            /\ comments[r][1] = [decision |-> disk[r].status, userId |-> disk[r].approver]
       \/ RolledBack(r)
  /\ message[r] \in Decisions => message[r] = disk[r].status \/ RolledBack(r)

RequestInv(r) ==
  /\ StoreInv(r) /\ WritingInv(r) /\ NotifyInv(r)
  /\ PollInv(r) /\ ToldInv(r) /\ PublishedInv(r)

HeldBy(q, c) ==
  /\ q.status = "processing"
  /\ q.claim = [decision |-> DecisionOf(click[c].action), userId |-> click[c].userId]

DecidedBy(q, c) ==
  q.status = DecisionOf(click[c].action) /\ q.approver = click[c].userId

ClickInv(c) ==
  LET cl == click[c]
      r  == cl.requestId
  IN
  /\ cl.pc # "idle" => r \in Requests /\ cl.userId \in Users /\ cl.action \in Actions
  /\ cl.pc = "idle" => cl.outcome = "none"
  /\ cl.pc \in {"claiming", "finalizing", "effects"} =>
       message[r] # "none" /\ IsAuthorizedApprover(cl.userId, RepoOf[r])
  /\ cl.pc = "claiming" /\ cl.outcome # "none" => Writes("claim", c)
  /\ cl.pc = "claiming" /\ cl.outcome = "claimed" => HeldBy(mem[r], c)
  /\ cl.pc \in {"finalizing", "effects"} => cl.outcome = "claimed"
  /\ Writes("finalize", c) => DecidedBy(mem[r], c) /\ HeldBy(disk[r], c)
  /\ cl.pc = "finalizing" /\ ~Writes("finalize", c) =>
       \/ ~Exists(mem[r])
       \/ HeldBy(mem[r], c) /\ HeldBy(disk[r], c)
  /\ Decided(c) => DecidedBy(disk[r], c) \/ RolledBack(r)
  /\ cl.pc = "effects" => DecidedBy(cl.request, c) /\ cl.request.claim = NoClaim
  /\ "comment" \in cl.effects => comments[r] = <<>>
  /\ cl.effects # {} => cl.pc = "effects"

\* A click whose claim counts: no handler of it has failed since.
Winner(c) ==
  /\ click[c].outcome = "claimed"
  /\ click[c].pc \in {"claiming", "finalizing", "effects", "done"}

OneWinner ==
  \A c, d \in Clicks : Winner(c) /\ Winner(d) /\ click[c].requestId = click[d].requestId => c = d

IInv ==
  /\ TypeOK
  /\ ChainInv
  /\ \A r \in Requests : RequestInv(r)
  /\ \A c \in Clicks : ClickInv(c)
  /\ OneWinner

-----------------------------------------------------------------------------
(* Types of the helpers *)

\* A request that is not stored is typed like one that is.
LEMMA NoRequestType == NoRequest \in Request
BY DEF NoRequest, Request

\* A new pending request has its type, and nothing but a deadline is new in it.
LEMMA CreateType ==
  ASSUME NEW seconds \in Nat, NEW t \in Nat
  PROVE  /\ CreatePendingRequest(seconds, t) \in Request
         /\ CreatePendingRequest(seconds, t) =
              [NoRequest EXCEPT !.status = "pending",
                                !.expiresAt = CreatePendingRequest(seconds, t).expiresAt]
<1>1. ClampTimeout(seconds) \in Nat
  BY LimitsAssumption DEF ClampTimeout, AtMost, AtLeast
<1>2. t + ClampTimeout(seconds) \in Nat
  BY <1>1
<1>3. CreatePendingRequest(seconds, t) \in Request
  BY <1>2, NoRequestType DEF CreatePendingRequest, Request, Statuses
<1>4. CreatePendingRequest(seconds, t).expiresAt = t + ClampTimeout(seconds)
  BY DEF CreatePendingRequest, NoRequest
<1> QED BY <1>3, <1>4 DEF CreatePendingRequest

\* A button's action names a decision.
LEMMA DecisionOfType ==
  ASSUME NEW a \in Actions
  PROVE  DecisionOf(a) \in Decisions
BY DEF DecisionOf, Decisions

\* claimDecision keeps a request's type, and finalizeDecision does if it may run.
LEMMA DecisionTypes ==
  ASSUME NEW q \in Request, NEW u \in Users, NEW a \in Actions
  PROVE  /\ ClaimedRequest(q, a, u) \in Request
         /\ CanFinalize(q, u) => FinalizedRequest(q) \in Request
<1>1. [decision |-> DecisionOf(a), userId |-> u] \in Claim
  BY DecisionOfType DEF Claim
<1>2. ClaimedRequest(q, a, u) \in Request
  BY <1>1 DEF ClaimedRequest, Request, Statuses
<1>3. ASSUME CanFinalize(q, u) PROVE FinalizedRequest(q) \in Request
  <2>1. q.claim \in Claim
    BY <1>3, NoUserAssumption DEF CanFinalize, Request, NoClaim
  <2> QED BY <2>1 DEF FinalizedRequest, Request, Claim, Statuses, Decisions
<1> QED BY <1>2, <1>3

\* The updates that only set a field keep a request's type.
LEMMA FieldTypes ==
  ASSUME NEW q \in Request
  PROVE  /\ [q EXCEPT !.slack = TRUE] \in Request
         /\ [q EXCEPT !.status = "expired"] \in Request
BY DEF Request, Statuses

-----------------------------------------------------------------------------
(* The queue of updates *)

\* The first of a queue is in it, and once it is done the others are left.
LEMMA TailFacts ==
  ASSUME NEW S, NEW s \in Seq(S), s # <<>>, NoRepeats(s)
  PROVE  /\ Tail(s) \in Seq(S) /\ Head(s) \in S
         /\ Head(s) \in QueuedIn(s)
         /\ QueuedIn(Tail(s)) = QueuedIn(s) \ {Head(s)}
         /\ NoRepeats(Tail(s))
<1>1. /\ Head(s) \in S /\ Tail(s) \in Seq(S)
      /\ Len(Tail(s)) = Len(s) - 1
      /\ \A i \in 1..Len(Tail(s)) : Tail(s)[i] = s[i+1]
  BY HeadTailProperties
<1>2. Len(s) \in Nat \ {0} /\ Head(s) = s[1]
  BY EmptySeq
<1>3. Head(s) \in QueuedIn(s)
  BY <1>2 DEF QueuedIn
<1>4. NoRepeats(Tail(s))
  <2> SUFFICES ASSUME NEW i \in 1..Len(Tail(s)), NEW j \in 1..Len(Tail(s)),
                      Tail(s)[i] = Tail(s)[j]
               PROVE  i = j
    BY DEF NoRepeats
  <2>1. s[i+1] = s[j+1] /\ i+1 \in 1..Len(s) /\ j+1 \in 1..Len(s)
    BY <1>1, <1>2
  <2>2. i+1 = j+1
    BY <2>1 DEF NoRepeats
  <2> QED BY <2>2
<1>5. QueuedIn(Tail(s)) \subseteq QueuedIn(s) \ {Head(s)}
  <2> SUFFICES ASSUME NEW i \in 1..Len(Tail(s))
               PROVE  Tail(s)[i] \in QueuedIn(s) \ {Head(s)}
    BY DEF QueuedIn
  <2>1. Tail(s)[i] = s[i+1] /\ i+1 \in 1..Len(s) /\ 1 \in 1..Len(s) /\ i+1 # 1
    BY <1>1, <1>2
  <2>2. s[i+1] # s[1]
    BY <2>1 DEF NoRepeats
  <2> QED BY <1>2, <2>1, <2>2 DEF QueuedIn
<1>6. QueuedIn(s) \ {Head(s)} \subseteq QueuedIn(Tail(s))
  <2> SUFFICES ASSUME NEW i \in 1..Len(s), s[i] # Head(s)
               PROVE  s[i] \in QueuedIn(Tail(s))
    BY DEF QueuedIn
  <2>1. i # 1 /\ i - 1 \in 1..Len(Tail(s))
    BY <1>1, <1>2
  <2>2. Tail(s)[i - 1] = s[(i - 1) + 1] /\ (i - 1) + 1 = i
    BY <1>1, <2>1
  <2>3. Tail(s)[i - 1] = s[i]
    BY <2>2
  <2> QED BY <2>1, <2>3 DEF QueuedIn
<1> QED BY <1>1, <1>3, <1>4, <1>5, <1>6

\* A new update goes behind all others.
LEMMA AppendFacts ==
  ASSUME NEW S, NEW s \in Seq(S), NEW e \in S, NoRepeats(s), e \notin QueuedIn(s)
  PROVE  /\ Append(s, e) \in Seq(S) /\ Append(s, e) # <<>>
         /\ QueuedIn(Append(s, e)) = QueuedIn(s) \cup {e}
         /\ NoRepeats(Append(s, e))
         /\ s # <<>> => Head(Append(s, e)) = Head(s)
<1> DEFINE t == Append(s, e)
<1>1. /\ t \in Seq(S) /\ Len(t) = Len(s) + 1 /\ Len(s) \in Nat
      /\ \A i \in 1..Len(s) : t[i] = s[i]
      /\ t[Len(s) + 1] = e
  OBVIOUS
<1>2. t # <<>>
  BY <1>1, EmptySeq
<1>3. QueuedIn(t) = QueuedIn(s) \cup {e}
  <2>1. ASSUME NEW i \in 1..Len(t) PROVE t[i] \in QueuedIn(s) \cup {e}
    <3>1. i \in 1..Len(s) \/ i = Len(s) + 1
      BY <1>1
    <3> QED BY <1>1, <3>1 DEF QueuedIn
  <2>2. ASSUME NEW i \in 1..Len(s) PROVE s[i] \in QueuedIn(t)
    <3>1. i \in 1..Len(t) /\ t[i] = s[i]
      BY <1>1
    <3> QED BY <3>1 DEF QueuedIn
  <2>3. e \in QueuedIn(t)
    <3>1. Len(s) + 1 \in 1..Len(t)
      BY <1>1
    <3> QED BY <1>1, <3>1 DEF QueuedIn
  <2> QED BY <2>1, <2>2, <2>3 DEF QueuedIn
<1>4. NoRepeats(t)
  <2> SUFFICES ASSUME NEW i \in 1..Len(t), NEW j \in 1..Len(t), t[i] = t[j]
               PROVE  i = j
    BY DEF NoRepeats
  <2>1. \A k \in 1..Len(s) : s[k] # e
    BY DEF QueuedIn
  <2>2. (i \in 1..Len(s) \/ i = Len(s) + 1) /\ (j \in 1..Len(s) \/ j = Len(s) + 1)
    BY <1>1
  <2>3. CASE i \in 1..Len(s) /\ j \in 1..Len(s)
    BY <1>1, <2>3 DEF NoRepeats
  <2> QED BY <1>1, <2>1, <2>2, <2>3
<1>5. s # <<>> => Head(t) = Head(s)
  <2>1. s # <<>> => 1 \in 1..Len(s)
    BY EmptySeq
  <2> QED BY <1>1, <1>2, <2>1
<1> QED BY <1>1, <1>2, <1>3, <1>4, <1>5

\* When an update's turn has come, its handler is waiting for it.
LEMMA Turn ==
  ASSUME TypeOK, ChainInv, NEW op, NEW id, Runs(op, id) \/ Writes(op, id)
  PROVE  /\ chain # <<>> /\ Head(chain) = [op |-> op, id |-> id]
         /\ [op |-> op, id |-> id] \in Job
         /\ Waits([op |-> op, id |-> id])
<1>1. chain # <<>> /\ Head(chain) = [op |-> op, id |-> id]
  BY DEF Runs, Writes, ChainInv
<1>2. Head(chain) \in Job /\ Head(chain) \in QueuedIn(chain)
  BY <1>1, TailFacts DEF TypeOK, ChainInv
<1> QED BY <1>1, <1>2 DEF ChainInv

\* So the updates of a notify handler or a poll are about a request ...
LEMMA RequestTurn ==
  ASSUME TypeOK, ChainInv, NEW r
  PROVE  /\ Runs("put", r) \/ Writes("put", r) => notify[r].pc = "putting"
         /\ Runs("slackRef", r) \/ Writes("slackRef", r) => notify[r].pc = "recording"
         /\ Runs("rollback", r) \/ Writes("rollback", r) => notify[r].pc = "rollback"
         /\ Runs("expire", r) \/ Writes("expire", r) => poll[r] = "expiring"
<1>1. \A op \in {"put", "slackRef", "rollback", "expire"} :
        Runs(op, r) \/ Writes(op, r) => Waits([op |-> op, id |-> r])
  BY Turn
<1> QED BY <1>1 DEF Waits

\* ... and those of a click, about a click.
LEMMA ClickTurn ==
  ASSUME TypeOK, ChainInv, NEW c
  PROVE  /\ Runs("claim", c) \/ Writes("claim", c) => click[c].pc = "claiming"
         /\ Runs("finalize", c) \/ Writes("finalize", c) => click[c].pc = "finalizing"
<1>1. \A op \in {"claim", "finalize"} :
        Runs(op, c) \/ Writes(op, c) => Waits([op |-> op, id |-> c])
  BY Turn
<1> QED BY <1>1 DEF Waits

-----------------------------------------------------------------------------
(* Types of the state *)

StoreTypes ==
  /\ mem \in [Requests -> Request] /\ disk \in [Requests -> Request]
  /\ chain \in Seq(Job) /\ writing \in BOOLEAN

\* Asking for an update, running its mutator and being done with it, with or
\* without the file changed, keep the store's types.
LEMMA StoreTypesKept ==
  ASSUME TypeOK, ChainInv, NEW op, NEW id
  PROVE  /\ Update(op, id) /\ [op |-> op, id |-> id] \in Job => chain' \in Seq(Job)
         /\ \A r \in Requests, q \in Request : Mutate(r, q) => StoreTypes'
         /\ chain # <<>> /\ Done => chain' \in Seq(Job)
         /\ chain # <<>> /\ DoneThenUpdate(op, id) /\ [op |-> op, id |-> id] \in Job
              => chain' \in Seq(Job)
         /\ (Persist \/ PersistFails) /\ chain' \in Seq(Job) => StoreTypes'
<1>1. Update(op, id) /\ [op |-> op, id |-> id] \in Job => chain' \in Seq(Job)
  BY DEF Update, TypeOK
<1>2. \A r \in Requests, q \in Request : Mutate(r, q) => StoreTypes'
  BY DEF Mutate, TypeOK, StoreTypes
<1>3. chain # <<>> => Tail(chain) \in Seq(Job)
  BY HeadTailProperties DEF TypeOK
<1>4. (Persist \/ PersistFails) /\ chain' \in Seq(Job) => StoreTypes'
  BY DEF Persist, PersistFails, TypeOK, StoreTypes
<1> QED BY <1>1, <1>2, <1>3, <1>4 DEF Done, DoneThenUpdate

\* Notify's steps keep the types.
LEMMA NotifyTypes ==
  ASSUME TypeOK, ChainInv, NEW r \in Requests, RequestInv(r),
         NotifyRefused(r) \/ NotifyArrive(r) \/ NotifyStep(r)
  PROVE  TypeOK'
<1> USE DEF outside, store, handlers
<1>0. /\ \A pc \in NotifyPcs : NotifyGoto(r, pc) => notify' \in [Requests -> Notify]
      /\ notify[r].request \in Request
      /\ {"refused", "posting", "posted", "recording", "rollback", "failed", "aborted"}
           \subseteq NotifyPcs
      /\ \A op \in {"put", "slackRef", "rollback"} : [op |-> op, id |-> r] \in Job
  <2>1. \A pc \in NotifyPcs : NotifyGoto(r, pc) => notify' \in [Requests -> Notify]
    <3> SUFFICES ASSUME NEW pc \in NotifyPcs, NotifyGoto(r, pc)
                 PROVE  notify' \in [Requests -> Notify]
      OBVIOUS
    <3>1. notify \in [Requests -> Notify]
      BY DEF TypeOK
    <3>2. [notify[r] EXCEPT !.pc = pc] \in Notify
      BY <3>1 DEF Notify
    <3> QED BY <3>1, <3>2 DEF NotifyGoto
  <2>2. notify[r].request \in Request
    BY DEF TypeOK, Notify
  <2>3. \A op \in {"put", "slackRef", "rollback"} : [op |-> op, id |-> r] \in Job
    BY DEF Job
  <2> QED BY <2>1, <2>2, <2>3 DEF NotifyPcs
<1>1. CASE NotifyRefused(r)
  BY <1>0, <1>1 DEF NotifyRefused, TypeOK
<1>2. CASE NotifyArrive(r)
  <2>1. PICK seconds \in RequestedSeconds :
          notify' = [notify EXCEPT ![r] =
            [@ EXCEPT !.pc = "putting", !.request = CreatePendingRequest(seconds, now)]]
    BY <1>2 DEF NotifyArrive
  <2>2. CreatePendingRequest(seconds, now) \in Request
    <3>1. seconds \in Nat /\ now \in Nat
      BY ExpressAssumption DEF TypeOK
    <3> QED BY <3>1, CreateType
  <2>3. notify' \in [Requests -> Notify]
    BY <2>1, <2>2 DEF TypeOK, Notify, NotifyPcs
  <2>4. chain' \in Seq(Job)
    BY <1>0, <1>2, StoreTypesKept DEF NotifyArrive
  <2> QED BY <1>2, <2>3, <2>4 DEF NotifyArrive, TypeOK
<1>3. CASE PutRuns(r)
  BY <1>0, <1>3, StoreTypesKept DEF PutRuns, TypeOK, StoreTypes
<1>4. CASE PutWritten(r) \/ PutFails(r)
  <2>1. chain # <<>>
    BY <1>4, Turn DEF PutWritten, PutFails
  <2>2. StoreTypes'
    BY <1>4, <2>1, StoreTypesKept DEF PutWritten, PutFails
  <2> QED BY <1>0, <1>4, <2>2 DEF PutWritten, PutFails, TypeOK, StoreTypes
<1>5. CASE SlackPosts(r)
  BY <1>0, <1>5 DEF SlackPosts, TypeOK
<1>6. CASE PostAnswered(r) \/ PostFails(r)
  <2>1. chain' \in Seq(Job)
    BY <1>0, <1>6, StoreTypesKept DEF PostAnswered, PostFails
  <2> QED BY <1>0, <1>6, <2>1 DEF PostAnswered, PostFails, TypeOK
<1>7. CASE SlackRefRuns(r)
  <2>1. [mem[r] EXCEPT !.slack = TRUE] \in Request
    BY FieldTypes DEF TypeOK
  <2>2. StoreTypes'
    BY <1>7, <2>1, StoreTypesKept DEF SlackRefRuns
  <2> QED BY <1>7, <2>2 DEF SlackRefRuns, TypeOK, StoreTypes
<1>8. CASE SlackRefWritten(r)
  <2>1. chain # <<>> /\ notify[r].pc = "recording"
    BY <1>8, Turn, RequestTurn DEF SlackRefWritten
  <2>2. StoreTypes'
    BY <1>8, <2>1, StoreTypesKept DEF SlackRefWritten
  <2>3. mem[r].status \in Statuses
    BY <2>1 DEF RequestInv, NotifyInv, Exists, TypeOK, Request
  <2>4. notify' \in [Requests -> Notify]
    BY <1>8, <2>3 DEF SlackRefWritten, TypeOK, Notify, NotifyPcs
  <2> QED BY <1>8, <2>2, <2>4 DEF SlackRefWritten, TypeOK, StoreTypes
<1>9. CASE SlackRefFails(r)
  <2>1. chain # <<>>
    BY <1>9, Turn DEF SlackRefFails
  <2>2. StoreTypes'
    BY <1>0, <1>9, <2>1, StoreTypesKept DEF SlackRefFails
  <2> QED BY <1>0, <1>9, <2>2 DEF SlackRefFails, TypeOK, StoreTypes
<1>10. CASE RollbackRuns(r)
  BY <1>10, StoreTypesKept, NoRequestType DEF RollbackRuns, TypeOK, StoreTypes
<1>11. CASE RollbackEnds(r)
  <2>1. chain # <<>>
    BY <1>11, Turn DEF RollbackEnds
  <2>2. StoreTypes'
    BY <1>11, <2>1, StoreTypesKept DEF RollbackEnds
  <2> QED BY <1>0, <1>11, <2>2 DEF RollbackEnds, TypeOK, StoreTypes
<1> QED BY <1>1, <1>2, <1>3, <1>4, <1>5, <1>6, <1>7, <1>8, <1>9, <1>10, <1>11 DEF NotifyStep

\* A poll's steps keep the types.
LEMMA PollTypes ==
  ASSUME TypeOK, ChainInv, NEW r \in Requests, PollArrive(r) \/ ExpireStep(r)
  PROVE  TypeOK'
<1> USE DEF outside, store, handlers
<1>0. Tell(r, mem[r].status) => told' \in [Requests -> Statuses \cup {"none", "unknown_request"}]
  BY DEF Tell, TypeOK, Request
<1>1. CASE PollArrive(r)
  <2>1. [op |-> "expire", id |-> r] \in Job
    BY DEF Job
  <2>2. /\ chain' \in Seq(Job) /\ poll' \in [Requests -> {"idle", "expiring"}]
        /\ told' \in [Requests -> Statuses \cup {"none", "unknown_request"}]
    BY <1>0, <1>1, <2>1, StoreTypesKept DEF PollArrive, TypeOK
  <2> QED BY <1>1, <2>2 DEF PollArrive, TypeOK
<1>2. CASE ExpireRuns(r)
  <2>1. mem[r] \in Request /\ [mem[r] EXCEPT !.status = "expired"] \in Request
    BY FieldTypes DEF TypeOK
  <2>2. StoreTypes'
    BY <1>2, <2>1, StoreTypesKept DEF ExpireRuns
  <2> QED BY <1>2, <2>2 DEF ExpireRuns, TypeOK, StoreTypes
<1>3. CASE ExpireWritten(r) \/ ExpireFails(r)
  <2>1. chain # <<>>
    BY <1>3, Turn DEF ExpireWritten, ExpireFails
  <2>2. StoreTypes'
    BY <1>3, <2>1, StoreTypesKept DEF ExpireWritten, ExpireFails
  <2>3. /\ poll' \in [Requests -> {"idle", "expiring"}]
        /\ told' \in [Requests -> Statuses \cup {"none", "unknown_request"}]
    BY <1>0, <1>3 DEF ExpireWritten, ExpireFails, TypeOK
  <2> QED BY <1>3, <2>2, <2>3 DEF ExpireWritten, ExpireFails, TypeOK, StoreTypes
<1> QED BY <1>1, <1>2, <1>3 DEF ExpireStep

\* A click's handler moves between typed states.
LEMMA ClickMoves ==
  ASSUME TypeOK, NEW c \in Clicks,
         NEW pc \in {"idle", "claiming", "finalizing", "effects", "done", "failed"}
  PROVE  /\ click' = [click EXCEPT ![c].pc = pc] => click' \in [Clicks -> Click]
         /\ ClickEnds(c, pc, click[c].outcome) => click' \in [Clicks -> Click]
<1>1. click \in [Clicks -> Click] /\ click[c] \in Click
  BY DEF TypeOK
<1>2. [click[c] EXCEPT !.pc = pc] \in Click
  BY <1>1 DEF Click
<1>3. [click[c] EXCEPT !.pc = pc, !.outcome = click[c].outcome,
                       !.request = NoRequest, !.effects = {}] \in Click
  BY <1>1, NoRequestType DEF Click
<1> QED BY <1>1, <1>2, <1>3 DEF ClickEnds

\* One effect of a click ends: the handler is in its effects, and keeps its type.
LEMMA SettledTypes ==
  ASSUME TypeOK, NEW c \in Clicks, ClickInv(c), NEW effect, Settled(c, effect)
  PROVE  /\ click' \in [Clicks -> Click]
         /\ click[c].pc = "effects" /\ click[c].requestId \in Requests
         /\ click[c].request.status \in Decisions
         /\ BuildAuditComment(click[c].request) \in Claim
<1>1. click \in [Clicks -> Click] /\ click[c] \in Click
  BY DEF TypeOK
<1>2. [click[c] EXCEPT !.effects = click[c].effects \ {effect}] \in Click
  BY <1>1 DEF Click
<1>3. click' \in [Clicks -> Click]
  BY <1>1, <1>2, ClickMoves DEF Settled
<1>4. click[c].pc = "effects"
  BY DEF Settled, ClickInv
<1>5. /\ click[c].requestId \in Requests
      /\ click[c].userId \in Users /\ click[c].action \in Actions
      /\ click[c].request.status = DecisionOf(click[c].action)
      /\ click[c].request.approver = click[c].userId
      /\ click[c].request.claim = NoClaim
  BY <1>4 DEF ClickInv, DecidedBy
<1>6. DecisionOf(click[c].action) \in Decisions
  BY <1>5, DecisionOfType
<1> QED BY <1>3, <1>4, <1>5, <1>6 DEF BuildAuditComment, Claim

\* A click's steps keep the types.
LEMMA ClickTypes ==
  ASSUME TypeOK, ChainInv, NEW c \in Clicks, ClickInv(c),
         ClickArrive(c) \/ ClickStep(c)
  PROVE  TypeOK'
<1> USE DEF outside, store, handlers
<1>0. /\ \A op \in {"claim", "finalize"} : [op |-> op, id |-> c] \in Job
      /\ click \in [Clicks -> Click] /\ click[c] \in Click
  BY DEF Job, TypeOK
<1>1. CASE ClickArrive(c)
  <2>1. PICK r \in Requests, u \in Users, a \in Actions :
          LET cl == [IdleClick EXCEPT !.requestId = r, !.userId = u, !.action = a] IN
          IF Authorized(r, u)
          THEN /\ click' = [click EXCEPT ![c] = [cl EXCEPT !.pc = "claiming"]]
               /\ Update("claim", c)
          ELSE /\ click' = [click EXCEPT ![c] =
                    [cl EXCEPT !.pc = "done", !.outcome = "unauthorized"]]
               /\ UNCHANGED chain
    BY <1>1 DEF ClickArrive
  <2> DEFINE cl == [IdleClick EXCEPT !.requestId = r, !.userId = u, !.action = a]
  <2>2. cl \in Click
    BY NoRequestType DEF IdleClick, Click
  <2>3. /\ [cl EXCEPT !.pc = "claiming"] \in Click
        /\ [cl EXCEPT !.pc = "done", !.outcome = "unauthorized"] \in Click
    BY <2>2 DEF Click
  <2> HIDE DEF cl
  <2>4. click' \in [Clicks -> Click]
    BY <1>0, <2>1, <2>3 DEF cl
  <2>5. chain' \in Seq(Job)
    BY <1>0, <2>1, StoreTypesKept DEF TypeOK
  <2> QED BY <1>1, <2>4, <2>5 DEF ClickArrive, TypeOK
<1>2. CASE ClaimRuns(c)
  <2> DEFINE r == click[c].requestId
  <2>1. click[c].pc = "claiming"
    BY <1>2, ClickTurn DEF ClaimRuns
  <2>2. r \in Requests /\ click[c].userId \in Users /\ click[c].action \in Actions
    BY <2>1 DEF ClickInv
  <2>3. /\ mem[r] \in Request /\ [mem[r] EXCEPT !.status = "expired"] \in Request
        /\ ClaimedRequest(mem[r], click[c].action, click[c].userId) \in Request
    BY <2>2, FieldTypes, DecisionTypes DEF TypeOK
  <2>4. StoreTypes'
    <3> HIDE DEF r
    <3>1. PICK q \in Request : Mutate(r, q)
      BY <1>2, <2>3 DEF ClaimRuns, r
    <3> QED BY <2>2, <3>1, StoreTypesKept
  <2>5. ClaimOutcome(mem[r], now) \in {"rejected", "expired", "duplicate", "claimed"}
    BY DEF ClaimOutcome
  <2>6. click' \in [Clicks -> Click]
    <3>1. [click[c] EXCEPT !.outcome = ClaimOutcome(mem[r], now)] \in Click
      BY <1>0, <2>5 DEF Click
    <3> QED BY <1>0, <1>2, <3>1 DEF ClaimRuns
  <2> QED BY <1>2, <2>4, <2>6 DEF ClaimRuns, TypeOK, StoreTypes
<1>3. CASE ClaimWritten(c) \/ ClaimFails(c)
  <2>1. chain # <<>>
    BY <1>3, Turn DEF ClaimWritten, ClaimFails
  <2>2. StoreTypes'
    BY <1>0, <1>3, <2>1, StoreTypesKept DEF ClaimWritten, ClaimFails
  <2>3. click' \in [Clicks -> Click]
    BY <1>3, ClickMoves DEF ClaimWritten, ClaimFails
  <2> QED BY <1>3, <2>2, <2>3 DEF ClaimWritten, ClaimFails, TypeOK, StoreTypes
<1>4. CASE FinalizeRuns(c)
  <2> DEFINE r == click[c].requestId
  <2>1. click[c].pc = "finalizing"
    BY <1>4, ClickTurn DEF FinalizeRuns
  <2>2. r \in Requests /\ click[c].userId \in Users /\ click[c].action \in Actions
    BY <2>1 DEF ClickInv
  <2>3. FinalizedRequest(mem[r]) \in Request
    BY <1>4, <2>2, DecisionTypes DEF FinalizeRuns, TypeOK
  <2>4. StoreTypes'
    BY <1>4, <2>2, <2>3, StoreTypesKept DEF FinalizeRuns
  <2> QED BY <1>4, <2>4 DEF FinalizeRuns, TypeOK, StoreTypes
<1>5. CASE FinalizeThrows(c)
  <2>1. chain' \in Seq(Job)
    BY <1>5, Turn, StoreTypesKept DEF FinalizeThrows
  <2>2. click' \in [Clicks -> Click]
    BY <1>5, ClickMoves DEF FinalizeThrows
  <2> QED BY <1>5, <2>1, <2>2 DEF FinalizeThrows, TypeOK
<1>6. CASE FinalizeWritten(c) \/ FinalizeFails(c)
  <2>1. chain # <<>> /\ click[c].pc = "finalizing"
    BY <1>6, Turn, ClickTurn DEF FinalizeWritten, FinalizeFails
  <2>2. StoreTypes'
    BY <1>6, <2>1, StoreTypesKept DEF FinalizeWritten, FinalizeFails
  <2>3. mem[click[c].requestId] \in Request
    BY <2>1 DEF ClickInv, TypeOK
  <2>4. [click[c] EXCEPT !.pc = "effects", !.request = mem[click[c].requestId],
                         !.effects = {"comment", "update"}] \in Click
    BY <1>0, <2>3 DEF Click
  <2>5. [click[c] EXCEPT !.pc = "done"] \in Click
    BY <1>0 DEF Click
  <2>6. click' \in [Clicks -> Click]
    BY <1>0, <1>6, <2>4, <2>5, ClickMoves DEF FinalizeWritten, FinalizeFails
  <2> QED BY <1>6, <2>2, <2>6 DEF FinalizeWritten, FinalizeFails, TypeOK, StoreTypes
<1>7. CASE PostComment(c)
  <2>1. /\ click' \in [Clicks -> Click] /\ click[c].requestId \in Requests
        /\ BuildAuditComment(click[c].request) \in Claim
    BY <1>7, SettledTypes DEF PostComment
  <2>2. comments' \in [Requests -> Seq(Claim)]
    BY <1>7, <2>1 DEF PostComment, TypeOK
  <2> QED BY <1>7, <2>1, <2>2 DEF PostComment, TypeOK
<1>8. CASE UpdateMessage(c)
  <2>1. /\ click' \in [Clicks -> Click] /\ click[c].requestId \in Requests
        /\ click[c].request.status \in Decisions
    BY <1>8, SettledTypes DEF UpdateMessage
  <2> QED BY <1>8, <2>1 DEF UpdateMessage, TypeOK
<1>9. CASE EffectFails(c)
  <2>1. click' \in [Clicks -> Click]
    BY <1>9, SettledTypes DEF EffectFails
  <2> QED BY <1>9, <2>1 DEF EffectFails, TypeOK
<1> QED BY <1>1, <1>2, <1>3, <1>4, <1>5, <1>6, <1>7, <1>8, <1>9 DEF ClickStep

\* Every step keeps the types.
LEMMA TypeStep ==
  ASSUME IInv, Next
  PROVE  TypeOK'
<1>1. CASE Tick
  BY <1>1, ExpressAssumption DEF Tick, IInv, TypeOK, store, handlers, outside
<1>2. CASE Restart
  <2>1. /\ mem' \in [Requests -> Request] /\ disk' \in [Requests -> Request]
        /\ chain' \in Seq(Job) /\ writing' \in BOOLEAN
    <3>1. (disk' = disk \/ disk' = mem) /\ mem' = disk' /\ chain' = <<>> /\ writing' = FALSE
      BY <1>2 DEF Restart
    <3>2. <<>> \in Seq(Job)
      BY EmptySeq
    <3>3. mem \in [Requests -> Request] /\ disk \in [Requests -> Request]
      BY DEF IInv, TypeOK
    <3> QED BY <3>1, <3>2, <3>3
  <2>2. notify' \in [Requests -> Notify]
    <3> SUFFICES ASSUME NEW r \in Requests
                 PROVE  (CASE notify[r].pc = "putting" -> [notify[r] EXCEPT !.pc = "aborted"]
                           [] notify[r].pc \in {"posting", "posted", "recording", "rollback"} ->
                                [notify[r] EXCEPT !.pc = "failed"]
                           [] OTHER -> notify[r]) \in Notify
      BY <1>2 DEF Restart
    <3>1. notify[r] \in Notify
      BY DEF IInv, TypeOK
    <3>2. /\ [notify[r] EXCEPT !.pc = "aborted"] \in Notify
          /\ [notify[r] EXCEPT !.pc = "failed"] \in Notify
      BY <3>1 DEF Notify, NotifyPcs
    <3> QED BY <3>1, <3>2
  <2>3. click' \in [Clicks -> Click]
    <3> SUFFICES ASSUME NEW c \in Clicks
                 PROVE  (IF click[c].pc \in {"claiming", "finalizing", "effects"}
                         THEN [click[c] EXCEPT !.pc = "failed", !.request = NoRequest,
                                               !.effects = {}]
                         ELSE click[c]) \in Click
      BY <1>2 DEF Restart
    <3>1. click[c] \in Click
      BY DEF IInv, TypeOK
    <3> QED BY <3>1, NoRequestType DEF Click
  <2> QED BY <1>2, <2>1, <2>2, <2>3 DEF Restart, IInv, TypeOK, outside
<1>3. CASE \E r \in Requests :
             NotifyRefused(r) \/ NotifyArrive(r) \/ NotifyStep(r)
  BY <1>3, NotifyTypes DEF IInv
<1>4. CASE \E r \in Requests : PollArrive(r) \/ ExpireStep(r)
  BY <1>4, PollTypes DEF IInv
<1>5. CASE \E c \in Clicks : ClickArrive(c) \/ ClickStep(c)
  BY <1>5, ClickTypes DEF IInv
<1> QED BY <1>1, <1>2, <1>3, <1>4, <1>5 DEF Next

-----------------------------------------------------------------------------
(* Steps and the queue: each step asks for an update, or runs, ends or fails *)
(* the oldest one                                                            *)

\* Every handler but the one job belongs to still waits for what it waited for.
OthersWait(job) == \A e \in Job \ {job} : Waits(e) => Waits(e)'

\* A handler that did not wait for this update has just asked for it.
NewlyWaits(e) == e \in Job /\ ~Waits(e) /\ Waits(e)'

\* Nobody's turn: at most an update is asked for.
Asks ==
  /\ UNCHANGED <<mem, disk, writing>>
  /\ \/ chain' = chain
     \/ \E e \in Job : NewlyWaits(e) /\ chain' = Append(chain, e)
  /\ \A e \in Job : Waits(e) => Waits(e)'

\* The update's mutator changes request r of the store at most.
RunsOn(job, r) ==
  /\ ~writing /\ writing' /\ chain # <<>> /\ Head(chain) = job
  /\ UNCHANGED <<disk, chain>>
  /\ \A q \in Requests \ {r} : mem'[q] = mem[q]
  /\ \A e \in Job : Waits(e) => Waits(e)'

\* The update is written, or its write has failed.
Ends(job) ==
  /\ writing /\ ~writing' /\ chain # <<>> /\ Head(chain) = job
  /\ mem' = mem /\ disk' \in {disk, mem}
  /\ \/ chain' = Tail(chain)
     \/ \E e \in Job : NewlyWaits(e) /\ chain' = Append(Tail(chain), e)
  /\ OthersWait(job)

\* Its mutator throws.
Throws(job) ==
  /\ ~writing /\ chain # <<>> /\ Head(chain) = job
  /\ UNCHANGED <<mem, disk, writing>>
  /\ chain' = Tail(chain)
  /\ OthersWait(job)

\* Whatever the step, the queue holds exactly the updates handlers wait for.
LEMMA ChainKept ==
  ASSUME TypeOK, ChainInv, NEW job, NEW r,
         Asks \/ RunsOn(job, r) \/ Ends(job) \/ Throws(job)
  PROVE  ChainInv'
<1>0. chain \in Seq(Job) /\ NoRepeats(chain) /\ \A e \in QueuedIn(chain) : Waits(e)
  BY DEF TypeOK, ChainInv
<1>1. QueuedIn(chain) \subseteq Job
  BY <1>0, ElementOfSeq DEF QueuedIn
<1>2. CASE Asks
  <2>1. CASE chain' = chain
    BY <1>0, <1>1, <1>2, <2>1 DEF Asks, ChainInv
  <2>2. ASSUME NEW e \in Job, NewlyWaits(e), chain' = Append(chain, e)
        PROVE  ChainInv'
    <3>1. e \notin QueuedIn(chain)
      BY <1>0, <2>2 DEF NewlyWaits
    <3>2. /\ chain' # <<>> /\ NoRepeats(chain')
          /\ QueuedIn(chain') = QueuedIn(chain) \cup {e}
      BY <1>0, <2>2, <3>1, AppendFacts
    <3> QED BY <1>0, <1>1, <1>2, <2>2, <3>2 DEF Asks, NewlyWaits, ChainInv
  <2> QED BY <1>2, <2>1, <2>2 DEF Asks
<1>3. CASE RunsOn(job, r)
  BY <1>0, <1>1, <1>3 DEF RunsOn, ChainInv
<1>4. CASE Ends(job) \/ Throws(job)
  <2>1. chain # <<>> /\ Head(chain) = job /\ OthersWait(job) /\ ~writing'
    BY <1>4 DEF Ends, Throws
  <2>2. /\ Tail(chain) \in Seq(Job) /\ NoRepeats(Tail(chain))
        /\ QueuedIn(Tail(chain)) = QueuedIn(chain) \ {job}
    BY <1>0, <2>1, TailFacts
  <2>3. CASE chain' = Tail(chain)
    BY <1>0, <1>1, <2>1, <2>2, <2>3 DEF OthersWait, ChainInv
  <2>4. ASSUME NEW e \in Job, NewlyWaits(e), chain' = Append(Tail(chain), e)
        PROVE  ChainInv'
    <3>1. e \notin QueuedIn(Tail(chain))
      BY <1>0, <2>2, <2>4 DEF NewlyWaits
    <3>2. /\ NoRepeats(chain')
          /\ QueuedIn(chain') = QueuedIn(Tail(chain)) \cup {e}
      BY <2>2, <2>4, <3>1, AppendFacts
    <3> QED BY <1>0, <1>1, <2>1, <2>2, <2>4, <3>2 DEF OthersWait, NewlyWaits, ChainInv
  <2> QED BY <1>4, <2>3, <2>4 DEF Ends, Throws
<1> QED BY <1>2, <1>3, <1>4

\* An update that is not job is being written after the step if it was before.
LEMMA WriterKept ==
  ASSUME TypeOK, ChainInv, NEW job, NEW r,
         Asks \/ RunsOn(job, r) \/ Ends(job) \/ Throws(job),
         NEW op, NEW id, [op |-> op, id |-> id] # job \/ Asks
  PROVE  Writes(op, id)' <=> Writes(op, id)
<1>1. CASE Asks
  <2>1. writing' = writing /\ (writing => chain # <<>>)
    BY <1>1 DEF Asks, ChainInv
  <2>2. chain # <<>> => Head(chain') = Head(chain)
    <3>1. ASSUME NEW e \in Job, NewlyWaits(e), chain' = Append(chain, e), chain # <<>>
          PROVE  Head(chain') = Head(chain)
      BY <3>1, AppendFacts DEF NewlyWaits, ChainInv, TypeOK
    <3> QED BY <1>1, <3>1 DEF Asks
  <2> QED BY <2>1, <2>2 DEF Writes
<1>2. CASE RunsOn(job, r) /\ ~Asks
  BY <1>2 DEF RunsOn, Writes
<1>3. CASE Ends(job) /\ ~Asks
  BY <1>3 DEF Ends, Writes
<1>4. CASE Throws(job) /\ ~Asks
  BY <1>4 DEF Throws, Writes
<1> QED BY <1>1, <1>2, <1>3, <1>4

\* Which of these each step of a notify handler is.
LEMMA NotifyKinds ==
  ASSUME TypeOK, ChainInv, NEW r \in Requests
  PROVE  /\ NotifyRefused(r) \/ NotifyArrive(r) \/ SlackPosts(r) \/ PostAnswered(r)
              \/ PostFails(r) => Asks
         /\ PutRuns(r) => RunsOn([op |-> "put", id |-> r], r)
         /\ SlackRefRuns(r) => RunsOn([op |-> "slackRef", id |-> r], r)
         /\ RollbackRuns(r) => RunsOn([op |-> "rollback", id |-> r], r)
         /\ PutWritten(r) \/ PutFails(r) => Ends([op |-> "put", id |-> r])
         /\ SlackRefWritten(r) \/ SlackRefFails(r) => Ends([op |-> "slackRef", id |-> r])
         /\ RollbackEnds(r) => Ends([op |-> "rollback", id |-> r])
<1> USE DEF store, handlers, outside
<1>0. /\ \A op \in {"put", "slackRef", "rollback"} : [op |-> op, id |-> r] \in Job
      /\ mem \in [Requests -> Request] /\ notify \in [Requests -> Notify]
  BY DEF Job, TypeOK
<1>1. ASSUME NotifyRefused(r) \/ SlackPosts(r) PROVE Asks
  <2>1. \A e \in Job : Waits(e) => Waits(e)'
    BY <1>0, <1>1 DEF NotifyRefused, SlackPosts, NotifyGoto, Waits, Job
  <2> QED BY <1>1, <2>1 DEF NotifyRefused, SlackPosts, Asks
<1>2. ASSUME NotifyArrive(r) PROVE Asks
  <2>1. \A e \in Job : Waits(e) => Waits(e)'
    BY <1>0, <1>2 DEF NotifyArrive, Waits, Job
  <2>2. NewlyWaits([op |-> "put", id |-> r])
    BY <1>0, <1>2 DEF NotifyArrive, Waits, NewlyWaits
  <2> QED BY <1>0, <1>2, <2>1, <2>2 DEF NotifyArrive, Update, Asks
<1>3. ASSUME PostAnswered(r) PROVE Asks
  <2>1. \A e \in Job : Waits(e) => Waits(e)'
    BY <1>0, <1>3 DEF PostAnswered, NotifyGoto, Waits, Job
  <2>2. NewlyWaits([op |-> "slackRef", id |-> r])
    BY <1>0, <1>3 DEF PostAnswered, NotifyGoto, Waits, NewlyWaits
  <2> QED BY <1>0, <1>3, <2>1, <2>2 DEF PostAnswered, Update, Asks
<1>4. ASSUME PostFails(r) PROVE Asks
  <2>1. \A e \in Job : Waits(e) => Waits(e)'
    BY <1>0, <1>4 DEF PostFails, NotifyGoto, Waits, Job
  <2>2. NewlyWaits([op |-> "rollback", id |-> r])
    BY <1>0, <1>4 DEF PostFails, NotifyGoto, Waits, NewlyWaits
  <2> QED BY <1>0, <1>4, <2>1, <2>2 DEF PostFails, Update, Asks
<1>5. PutRuns(r) => RunsOn([op |-> "put", id |-> r], r)
  BY <1>0 DEF PutRuns, Mutate, Runs, RunsOn, Waits
<1>6. SlackRefRuns(r) => RunsOn([op |-> "slackRef", id |-> r], r)
  BY <1>0 DEF SlackRefRuns, Mutate, Runs, RunsOn, Waits
<1>7. RollbackRuns(r) => RunsOn([op |-> "rollback", id |-> r], r)
  BY <1>0 DEF RollbackRuns, Mutate, Runs, RunsOn, Waits
<1>8. ASSUME PutWritten(r) \/ PutFails(r) PROVE Ends([op |-> "put", id |-> r])
  <2>1. OthersWait([op |-> "put", id |-> r])
    BY <1>0, <1>8, RequestTurn DEF PutWritten, PutFails, NotifyGoto, OthersWait, Waits, Job
  <2>2. chain # <<>>
    BY <1>8, Turn DEF PutWritten, PutFails
  <2> QED BY <1>8, <2>1, <2>2
          DEF PutWritten, PutFails, Persist, PersistFails, Done, Writes, Ends
<1>9. ASSUME SlackRefWritten(r) PROVE Ends([op |-> "slackRef", id |-> r])
  <2>1. OthersWait([op |-> "slackRef", id |-> r])
    BY <1>0, <1>9, RequestTurn DEF SlackRefWritten, OthersWait, Waits, Job
  <2>2. chain # <<>>
    BY <1>9, Turn DEF SlackRefWritten
  <2> QED BY <1>9, <2>1, <2>2 DEF SlackRefWritten, Persist, Done, Writes, Ends
<1>10. ASSUME SlackRefFails(r) PROVE Ends([op |-> "slackRef", id |-> r])
  <2>1. OthersWait([op |-> "slackRef", id |-> r])
    BY <1>0, <1>10, RequestTurn DEF SlackRefFails, NotifyGoto, OthersWait, Waits, Job
  <2>2. chain # <<>> /\ notify[r].pc = "recording"
    BY <1>10, Turn, RequestTurn DEF SlackRefFails
  <2>3. NewlyWaits([op |-> "rollback", id |-> r])
    BY <1>0, <1>10, <2>2 DEF SlackRefFails, NotifyGoto, Waits, NewlyWaits
  <2> QED BY <1>0, <1>10, <2>1, <2>2, <2>3
          DEF SlackRefFails, PersistFails, DoneThenUpdate, Writes, Ends
<1>11. ASSUME RollbackEnds(r) PROVE Ends([op |-> "rollback", id |-> r])
  <2>1. OthersWait([op |-> "rollback", id |-> r])
    BY <1>0, <1>11, RequestTurn DEF RollbackEnds, NotifyGoto, OthersWait, Waits, Job
  <2>2. chain # <<>>
    BY <1>11, Turn DEF RollbackEnds
  <2> QED BY <1>11, <2>1, <2>2 DEF RollbackEnds, Persist, PersistFails, Done, Writes, Ends
<1> QED BY <1>1, <1>2, <1>3, <1>4, <1>5, <1>6, <1>7, <1>8, <1>9, <1>10, <1>11

\* Which of these each step of a poll is.
LEMMA PollKinds ==
  ASSUME TypeOK, ChainInv, NEW r \in Requests
  PROVE  /\ PollArrive(r) => Asks
         /\ ExpireRuns(r) => RunsOn([op |-> "expire", id |-> r], r)
         /\ ExpireWritten(r) \/ ExpireFails(r) => Ends([op |-> "expire", id |-> r])
<1> USE DEF store, handlers, outside
<1>0. /\ [op |-> "expire", id |-> r] \in Job
      /\ mem \in [Requests -> Request] /\ poll \in [Requests -> {"idle", "expiring"}]
  BY DEF Job, TypeOK
<1>1. ASSUME PollArrive(r) PROVE Asks
  <2>1. \A e \in Job : Waits(e) => Waits(e)'
    BY <1>0, <1>1 DEF PollArrive, Waits, Job
  <2>2. CASE chain' = chain
    BY <1>1, <2>1, <2>2 DEF PollArrive, Asks
  <2>3. CASE chain' # chain
    <3>1. poll' = [poll EXCEPT ![r] = "expiring"] /\ poll[r] = "idle"
          /\ chain' = Append(chain, [op |-> "expire", id |-> r])
      BY <1>1, <2>3 DEF PollArrive, Update
    <3>2. NewlyWaits([op |-> "expire", id |-> r])
      BY <1>0, <3>1 DEF Waits, NewlyWaits
    <3> QED BY <1>0, <1>1, <2>1, <3>1, <3>2 DEF PollArrive, Asks
  <2> QED BY <2>2, <2>3
<1>2. ExpireRuns(r) => RunsOn([op |-> "expire", id |-> r], r)
  BY <1>0 DEF ExpireRuns, Mutate, Runs, RunsOn, Waits
<1>3. ASSUME ExpireWritten(r) \/ ExpireFails(r) PROVE Ends([op |-> "expire", id |-> r])
  <2>1. OthersWait([op |-> "expire", id |-> r])
    BY <1>0, <1>3 DEF ExpireWritten, ExpireFails, OthersWait, Waits, Job
  <2>2. chain # <<>>
    BY <1>3, Turn DEF ExpireWritten, ExpireFails
  <2> QED BY <1>3, <2>1, <2>2
          DEF ExpireWritten, ExpireFails, Persist, PersistFails, Done, Writes, Ends
<1> QED BY <1>1, <1>2, <1>3

\* Which of these each step of a click's handler is.
LEMMA ClickKinds ==
  ASSUME TypeOK, ChainInv, NEW c \in Clicks, ClickInv(c)
  PROVE  /\ ClickArrive(c) \/ PostComment(c) \/ UpdateMessage(c) \/ EffectFails(c) => Asks
         /\ ClaimRuns(c) => RunsOn([op |-> "claim", id |-> c], click[c].requestId)
         /\ FinalizeRuns(c) => RunsOn([op |-> "finalize", id |-> c], click[c].requestId)
         /\ ClaimWritten(c) \/ ClaimFails(c) => Ends([op |-> "claim", id |-> c])
         /\ FinalizeWritten(c) \/ FinalizeFails(c) => Ends([op |-> "finalize", id |-> c])
         /\ FinalizeThrows(c) => Throws([op |-> "finalize", id |-> c])
<1> USE DEF store, handlers, outside
<1>0. /\ \A op \in {"claim", "finalize"} : [op |-> op, id |-> c] \in Job
      /\ mem \in [Requests -> Request] /\ click \in [Clicks -> Click]
  BY DEF Job, TypeOK
<1>1. ASSUME ClickArrive(c) PROVE Asks
  <2>1. PICK cl : click' = [click EXCEPT ![c] = cl]
    BY <1>1 DEF ClickArrive
  <2>2. \A e \in Job : Waits(e) => Waits(e)'
    BY <1>0, <1>1, <2>1 DEF ClickArrive, Waits, Job
  <2>3. CASE chain' = chain
    BY <1>1, <2>2, <2>3 DEF ClickArrive, Asks
  <2>4. CASE chain' # chain
    <3>1. click[c].pc = "idle" /\ click'[c].pc = "claiming"
          /\ chain' = Append(chain, [op |-> "claim", id |-> c])
      BY <1>0, <1>1, <2>4 DEF ClickArrive, Update, IdleClick
    <3>2. NewlyWaits([op |-> "claim", id |-> c])
      BY <1>0, <3>1 DEF Waits, NewlyWaits
    <3> QED BY <1>0, <1>1, <2>2, <3>1, <3>2 DEF ClickArrive, Asks
  <2> QED BY <2>3, <2>4
<1>2. ASSUME PostComment(c) \/ UpdateMessage(c) \/ EffectFails(c) PROVE Asks
  <2>1. PICK effect : Settled(c, effect)
    BY <1>2 DEF PostComment, UpdateMessage, EffectFails
  <2>2. click[c].pc = "effects"
    BY <2>1 DEF Settled, ClickInv
  <2>3. PICK cl : click' = [click EXCEPT ![c] = cl]
    BY <2>1 DEF Settled, ClickEnds
  <2>4. \A e \in Job : Waits(e) => Waits(e)'
    BY <1>0, <1>2, <2>2, <2>3 DEF PostComment, UpdateMessage, EffectFails, Waits, Job
  <2> QED BY <1>2, <2>4 DEF PostComment, UpdateMessage, EffectFails, Asks
<1>3. ASSUME ClaimRuns(c) PROVE RunsOn([op |-> "claim", id |-> c], click[c].requestId)
  <2>1. click' = [click EXCEPT ![c].outcome = ClaimOutcome(mem[click[c].requestId], now)]
    BY <1>3 DEF ClaimRuns
  <2>2. \A e \in Job : Waits(e) => Waits(e)'
    BY <1>0, <1>3, <2>1 DEF ClaimRuns, Waits, Job
  <2> QED BY <1>0, <1>3, <2>2 DEF ClaimRuns, Mutate, Runs, RunsOn
<1>4. FinalizeRuns(c) => RunsOn([op |-> "finalize", id |-> c], click[c].requestId)
  BY <1>0 DEF FinalizeRuns, Mutate, Runs, RunsOn, Waits
<1>5. ASSUME ClaimWritten(c) PROVE Ends([op |-> "claim", id |-> c])
  <2>1. chain # <<>> /\ click[c].pc = "claiming"
    BY <1>5, Turn, ClickTurn DEF ClaimWritten
  <2>2. OthersWait([op |-> "claim", id |-> c])
    BY <1>0, <1>5, <2>1 DEF ClaimWritten, OthersWait, Waits, Job
  <2>3. CASE click[c].outcome = "claimed"
    <3>0. click'[c].pc = "finalizing"
      <4>1. click' = [click EXCEPT ![c].pc = "finalizing"]
        BY <1>5, <2>3 DEF ClaimWritten
      <4> QED BY <1>0, <4>1 DEF Click
    <3>1. NewlyWaits([op |-> "finalize", id |-> c])
      BY <1>0, <2>1, <3>0 DEF Waits, NewlyWaits
    <3>2. /\ chain' = Append(Tail(chain), [op |-> "finalize", id |-> c])
          /\ [op |-> "finalize", id |-> c] \in Job
      BY <1>0, <1>5, <2>3 DEF ClaimWritten, DoneThenUpdate
    <3> QED BY <1>5, <2>1, <2>2, <3>1, <3>2 DEF ClaimWritten, Persist, Writes, Ends
  <2>4. CASE click[c].outcome # "claimed"
    BY <1>5, <2>1, <2>2, <2>4 DEF ClaimWritten, Persist, Done, Writes, Ends
  <2> QED BY <2>3, <2>4
<1>6. ASSUME ClaimFails(c) PROVE Ends([op |-> "claim", id |-> c])
  <2>1. OthersWait([op |-> "claim", id |-> c]) /\ chain # <<>>
    BY <1>0, <1>6, Turn, ClickTurn DEF ClaimFails, OthersWait, Waits, Job
  <2> QED BY <1>6, <2>1 DEF ClaimFails, PersistFails, Done, Writes, Ends
<1>7. ASSUME FinalizeWritten(c) \/ FinalizeFails(c)
      PROVE  Ends([op |-> "finalize", id |-> c])
  <2>1. chain # <<>> /\ click[c].pc = "finalizing"
    BY <1>7, Turn, ClickTurn DEF FinalizeWritten, FinalizeFails
  <2>2. PICK cl : click' = [click EXCEPT ![c] = cl]
    BY <1>7 DEF FinalizeWritten, FinalizeFails
  <2>3. OthersWait([op |-> "finalize", id |-> c])
    BY <1>0, <1>7, <2>1, <2>2 DEF FinalizeWritten, FinalizeFails, OthersWait, Waits, Job
  <2> QED BY <1>7, <2>1, <2>3
          DEF FinalizeWritten, FinalizeFails, Persist, PersistFails, Done, Writes, Ends
<1>8. ASSUME FinalizeThrows(c) PROVE Throws([op |-> "finalize", id |-> c])
  <2>1. OthersWait([op |-> "finalize", id |-> c])
    BY <1>0, <1>8, ClickTurn DEF FinalizeThrows, OthersWait, Waits, Job
  <2> QED BY <1>8, <2>1 DEF FinalizeThrows, Done, Runs, Throws
<1> QED BY <1>1, <1>2, <1>3, <1>4, <1>5, <1>6, <1>7, <1>8

\* Time's passing asks for nothing.
LEMMA TickAsks == Tick => Asks
BY DEF Tick, Asks, Waits, store, handlers

\* After a restart the queue is empty.
LEMMA RestartChain == Restart => ChainInv'
<1> SUFFICES ASSUME Restart PROVE ChainInv'
  OBVIOUS
<1>1. chain' = <<>> /\ writing' = FALSE
  BY DEF Restart
<1>2. NoRepeats(<<>>) /\ QueuedIn(<<>>) = {}
  BY DEF NoRepeats, QueuedIn
<1> QED BY <1>1, <1>2 DEF ChainInv

-----------------------------------------------------------------------------
(* What a step leaves true of a request that it does not change in memory *)

\* Memory keeps request r, and its copy on disk may catch up; time may pass.
CatchesUp(r) ==
  /\ mem'[r] = mem[r]
  /\ disk'[r] \in {disk[r], mem[r]}
  /\ now \in Nat /\ now' \in Nat /\ now =< now'

\* Nothing else happens to it either.
Quiet(r) ==
  /\ CatchesUp(r)
  /\ disk'[r] = disk[r] \/ ~Writes("put", r)
  /\ notify'[r] = notify[r] /\ poll'[r] = poll[r] /\ told'[r] = told[r]
  /\ message'[r] = message[r] /\ comments'[r] = comments[r]
  /\ \A op \in {"put", "slackRef", "rollback"} : Writes(op, r)' => Writes(op, r)
  /\ Writes("put", r) => Writes("put", r)'

\* Both copies stay what may be stored, and the file follows memory.
LEMMA StoreKept ==
  ASSUME TypeOK, NEW r \in Requests, StoreInv(r), CatchesUp(r)
  PROVE  StoreInv(r)'
<1>1. mem[r] \in Request /\ disk[r] \in Request
  BY DEF TypeOK
<1>2. \A q \in Request : q.status = "expired" /\ IsExpired(q, now) => IsExpired(q, now')
  BY DEF CatchesUp, IsExpired, Request
<1>3. Stored(mem[r], RepoOf[r], now') /\ Stored(disk[r], RepoOf[r], now')
  BY <1>1, <1>2 DEF StoreInv, Stored
<1>4. Follows(mem[r], mem[r])
  BY <1>1 DEF Follows, Exists, Request, Statuses
<1> QED BY <1>3, <1>4 DEF CatchesUp, StoreInv

\* CI is still told the truth.
LEMMA ToldKept ==
  ASSUME TypeOK, NEW r \in Requests, ToldInv(r), CatchesUp(r), told'[r] = told[r],
         notify[r].pc = "created" => notify'[r].pc = "created"
  PROVE  ToldInv(r)'
<1>1. mem[r] \in Request /\ disk[r] \in Request
  BY DEF TypeOK
<1>2. \A q \in Request : IsExpired(q, now) => IsExpired(q, now')
  BY DEF CatchesUp, IsExpired, Request
<1>3. Bears(mem[r], told[r], now') /\ Bears(disk[r], told[r], now')
  BY <1>1, <1>2 DEF ToldInv, Bears
<1> QED BY <1>3 DEF CatchesUp, ToldInv

\* A decision on disk stays there, unless notify withdraws the request.
LEMMA DecisionKept ==
  ASSUME TypeOK, NEW r \in Requests, StoreInv(r), NotifyInv(r),
         disk'[r] \in {disk[r], mem[r]},
         notify[r].pc \in {"rollback", "failed"} => notify'[r].pc \in {"rollback", "failed"}
  PROVE  /\ IsTerminal(disk[r]) =>
              \/ disk'[r].status = disk[r].status /\ disk'[r].approver = disk[r].approver
              \/ RolledBack(r)'
         /\ RolledBack(r) => RolledBack(r)'
<1>1. ~Exists(mem[r]) /\ Exists(disk[r]) => notify[r].pc \in {"rollback", "failed"}
  BY DEF NotifyInv
<1>2. Exists(mem[r]) /\ ~Exists(disk[r]) => notify[r].pc \in {"putting", "aborted"}
  BY DEF NotifyInv
<1>3. IsTerminal(disk[r]) => Exists(disk[r])
  BY DEF IsTerminal, Exists, Decisions
<1> QED BY <1>1, <1>2, <1>3 DEF StoreInv, Follows, RolledBack

\* So what is published stays true.
LEMMA PublishedKept ==
  ASSUME TypeOK, NEW r \in Requests, StoreInv(r), NotifyInv(r), PublishedInv(r),
         disk'[r] \in {disk[r], mem[r]},
         message'[r] \in {message[r], "buttons"}, comments'[r] = comments[r],
         notify[r].pc \in {"rollback", "failed"} => notify'[r].pc \in {"rollback", "failed"}
  PROVE  PublishedInv(r)'
<1>1. /\ IsDecided(disk[r]) =>
           \/ disk'[r].status = disk[r].status /\ disk'[r].approver = disk[r].approver
           \/ RolledBack(r)'
      /\ RolledBack(r) => RolledBack(r)'
  BY DecisionKept DEF IsDecided, IsTerminal
<1>2. "buttons" \notin Decisions
  BY DEF Decisions
<1>3. message[r] \in Decisions /\ message[r] = disk[r].status => IsDecided(disk[r])
  BY DEF IsDecided
<1> QED BY <1>1, <1>2, <1>3 DEF PublishedInv, IsDecided

\* What the update under way has made of memory stays so.
LEMMA WritingKept ==
  ASSUME NEW r \in Requests, WritingInv(r), mem'[r] = mem[r],
         \A op \in {"put", "slackRef", "rollback"} : Writes(op, r)' => Writes(op, r),
         Writes("put", r) => notify'[r].request = notify[r].request
  PROVE  WritingInv(r)'
BY DEF WritingInv

\* A request nothing happens to keeps the invariant.
LEMMA RequestKept ==
  ASSUME TypeOK, NEW r \in Requests, RequestInv(r), Quiet(r)
  PROVE  RequestInv(r)'
<1>0. /\ CatchesUp(r) /\ mem'[r] = mem[r] /\ notify'[r] = notify[r]
      /\ told'[r] = told[r] /\ message'[r] = message[r] /\ comments'[r] = comments[r]
      /\ \A op \in {"put", "slackRef", "rollback"} : Writes(op, r)' => Writes(op, r)
      /\ StoreInv(r) /\ WritingInv(r) /\ NotifyInv(r) /\ ToldInv(r) /\ PublishedInv(r)
  BY DEF Quiet, CatchesUp, RequestInv
<1>1. StoreInv(r)' /\ ToldInv(r)' /\ PublishedInv(r)' /\ WritingInv(r)'
  <2>1. StoreInv(r)' /\ ToldInv(r)'
    BY <1>0, StoreKept, ToldKept
  <2>2. PublishedInv(r)'
    BY <1>0, PublishedKept DEF CatchesUp
  <2>3. WritingInv(r)'
    BY <1>0, WritingKept
  <2> QED BY <2>1, <2>2, <2>3
<1>2. NotifyInv(r)'
  <2>1. /\ mem[r].status \in {"absent", "pending"}
        /\ disk[r].status \in {"absent", "pending"}
        => disk'[r].status \in {"absent", "pending"}
    BY DEF Quiet, CatchesUp
  <2>2. notify[r].pc = "putting" => ~Exists(disk'[r])
    BY DEF RequestInv, NotifyInv, Quiet, CatchesUp
  <2>3. /\ Exists(disk'[r]) /\ ~Exists(mem'[r]) => notify'[r].pc \in {"rollback", "failed"}
        /\ Exists(mem'[r]) /\ ~Exists(disk'[r]) => notify'[r].pc \in {"putting", "aborted"}
    BY DEF RequestInv, NotifyInv, Quiet, CatchesUp
  <2> QED BY <2>1, <2>2, <2>3 DEF RequestInv, NotifyInv, Quiet, CatchesUp
<1>3. PollInv(r)'
  <2>1. mem[r].expiresAt \in Nat /\ now \in Nat /\ now' \in Nat /\ now =< now'
    BY DEF TypeOK, Request, Quiet, CatchesUp
  <2>2. IsExpired(mem[r], now) => IsExpired(mem[r], now')
    BY <2>1 DEF IsExpired
  <2> QED BY <2>2 DEF RequestInv, PollInv, Quiet, CatchesUp
<1> QED BY <1>1, <1>2, <1>3 DEF RequestInv

\* That is every request but the one whose turn it is.
LEMMA QuietByKind ==
  ASSUME TypeOK, TypeOK', ChainInv, NEW job, NEW p, NEW r \in Requests,
         Asks \/ (RunsOn(job, p) /\ p # r) \/ Ends(job) \/ Throws(job),
         \A op \in {"put", "slackRef", "rollback"} : job # [op |-> op, id |-> r],
         notify'[r] = notify[r], poll'[r] = poll[r], told'[r] = told[r],
         message'[r] = message[r], comments'[r] = comments[r],
         now' \in {now, now + 1}
  PROVE  Quiet(r)
<1>1. \A op \in {"put", "slackRef", "rollback"} : Writes(op, r)' <=> Writes(op, r)
  BY WriterKept
<1>2. mem'[r] = mem[r] /\ disk'[r] \in {disk[r], mem[r]}
  BY DEF Asks, RunsOn, Ends, Throws
<1>3. disk'[r] = disk[r] \/ ~Writes("put", r)
  BY DEF Asks, RunsOn, Ends, Throws, Writes
<1>4. now \in Nat /\ now' \in Nat /\ now =< now'
  BY ExpressAssumption DEF TypeOK
<1> QED BY <1>1, <1>2, <1>3, <1>4 DEF Quiet, CatchesUp

-----------------------------------------------------------------------------
(* The requests, after the steps of a notify handler *)

\* A notify handler that has not answered asks for an update or is done with one:
\* what is left to show of its request is NotifyInv.
LEMMA NotifierKept ==
  ASSUME TypeOK, TypeOK', ChainInv, NEW r \in Requests, RequestInv(r), NEW job,
         Asks \/ Ends(job), now' = now, poll'[r] = poll[r], told'[r] = told[r],
         message'[r] \in {message[r], "buttons"}, comments'[r] = comments[r],
         notify[r].pc # "created",
         notify[r].pc \in {"rollback", "failed"} => notify'[r].pc \in {"rollback", "failed"},
         Asks /\ Writes("put", r) => notify'[r].request = notify[r].request
  PROVE  NotifyInv(r)' => RequestInv(r)'
<1>1. CatchesUp(r)
  BY ExpressAssumption DEF Asks, Ends, CatchesUp, TypeOK
<1>2. StoreInv(r)' /\ ToldInv(r)' /\ PublishedInv(r)'
  <2>1. StoreInv(r) /\ NotifyInv(r) /\ ToldInv(r) /\ PublishedInv(r)
        /\ disk'[r] \in {disk[r], mem[r]}
    BY <1>1 DEF RequestInv, CatchesUp
  <2> QED BY <1>1, <2>1, StoreKept, ToldKept, PublishedKept
<1>3. WritingInv(r)'
  <2>1. CASE Asks
    <3>1. \A op \in {"put", "slackRef", "rollback"} : Writes(op, r)' <=> Writes(op, r)
      BY <2>1, WriterKept
    <3> QED BY <1>1, <2>1, <3>1, WritingKept DEF CatchesUp, RequestInv
  <2>2. CASE Ends(job)
    BY <2>2 DEF Ends, Writes, WritingInv
  <2> QED BY <2>1, <2>2
<1>4. PollInv(r)'
  BY DEF RequestInv, PollInv
<1> QED BY <1>2, <1>3, <1>4 DEF RequestInv

\* The steps that ask for an update, or for none.
LEMMA NotifyAskRequests ==
  ASSUME IInv, TypeOK', NEW r \in Requests,
         NotifyRefused(r) \/ NotifyArrive(r) \/ SlackPosts(r) \/ PostAnswered(r) \/ PostFails(r)
  PROVE  RequestInv(r)'
<1> USE DEF store, handlers, outside
<1>0. /\ TypeOK /\ ChainInv /\ RequestInv(r) /\ Asks
      /\ notify \in [Requests -> Notify] /\ notify[r] \in Notify
      /\ NotifyInv(r) /\ mem' = mem /\ disk' = disk
  BY NotifyKinds DEF IInv, TypeOK, RequestInv, Asks
<1>1. CASE NotifyRefused(r)
  <2>1. notify[r].pc = "idle" /\ notify'[r].pc = "refused"
    BY <1>0, <1>1 DEF NotifyRefused, NotifyGoto, Notify
  <2>2. NotifyInv(r)'
    BY <1>0, <1>1, <2>1 DEF NotifyRefused, NotifyInv
  <2> QED BY <1>0, <1>1, <2>1, <2>2, NotifierKept, RequestTurn DEF NotifyRefused
<1>2. CASE NotifyArrive(r)
  <2>1. PICK seconds \in RequestedSeconds :
          notify' = [notify EXCEPT ![r] =
            [@ EXCEPT !.pc = "putting", !.request = CreatePendingRequest(seconds, now)]]
    BY <1>2 DEF NotifyArrive
  <2>2. seconds \in Nat /\ now \in Nat
    BY <1>0, ExpressAssumption DEF TypeOK
  <2>3. /\ notify[r].pc = "idle" /\ notify'[r].pc = "putting"
        /\ notify'[r].request = CreatePendingRequest(seconds, now)
    BY <1>0, <1>2, <2>1 DEF NotifyArrive, Notify
  <2>4. notify'[r].request = [NoRequest EXCEPT !.status = "pending",
                                               !.expiresAt = notify'[r].request.expiresAt]
    <3>1. CreatePendingRequest(seconds, now) =
            [NoRequest EXCEPT !.status = "pending",
                              !.expiresAt = CreatePendingRequest(seconds, now).expiresAt]
      BY <2>2, CreateType
    <3> QED BY <2>3, <3>1
  <2>5. ~Exists(mem[r]) /\ ~Exists(disk[r]) /\ message[r] = "none"
    BY <1>0, <2>3 DEF NotifyInv
  <2>6. NotifyInv(r)'
    BY <1>0, <1>2, <2>3, <2>4, <2>5 DEF NotifyArrive, NotifyInv, Exists
  <2>7. ~Writes("put", r)
    BY <1>0, <2>3, RequestTurn
  <2> QED BY <1>0, <1>2, <2>3, <2>6, <2>7, NotifierKept DEF NotifyArrive
<1>3. CASE SlackPosts(r)
  <2>1. /\ notify[r].pc = "posting" /\ notify'[r].pc = "posted"
        /\ message'[r] = "buttons"
    BY <1>0, <1>3 DEF SlackPosts, NotifyGoto, Notify, TypeOK
  <2>2. NotifyInv(r)'
    BY <1>0, <1>3, <2>1 DEF NotifyInv
  <2>3. ~Writes("put", r)
    BY <1>0, <2>1, RequestTurn
  <2> QED BY <1>0, <1>3, <2>1, <2>2, <2>3, NotifierKept DEF SlackPosts
<1>4. CASE PostAnswered(r)
  <2>1. notify[r].pc = "posted" /\ notify'[r].pc = "recording"
    BY <1>0, <1>4 DEF PostAnswered, NotifyGoto, Notify
  <2>2. NotifyInv(r)'
    BY <1>0, <1>4, <2>1 DEF PostAnswered, NotifyInv
  <2>3. ~Writes("put", r)
    BY <1>0, <2>1, RequestTurn
  <2> QED BY <1>0, <1>4, <2>1, <2>2, <2>3, NotifierKept DEF PostAnswered
<1>5. CASE PostFails(r)
  <2>1. notify[r].pc \in {"posting", "posted"} /\ notify'[r].pc = "rollback"
    BY <1>0, <1>5 DEF PostFails, NotifyGoto, Notify
  <2>2. NotifyInv(r)'
    BY <1>0, <1>5, <2>1 DEF PostFails, NotifyInv
  <2>3. ~Writes("put", r)
    BY <1>0, <2>1, RequestTurn
  <2> QED BY <1>0, <1>5, <2>1, <2>2, <2>3, NotifierKept DEF PostFails
<1> QED BY <1>1, <1>2, <1>3, <1>4, <1>5

\* The steps that end an update.
LEMMA NotifyEndRequests ==
  ASSUME IInv, TypeOK', NEW r \in Requests,
         PutWritten(r) \/ PutFails(r) \/ SlackRefWritten(r) \/ SlackRefFails(r) \/ RollbackEnds(r)
  PROVE  RequestInv(r)'
<1> USE DEF store, handlers, outside
<1>0. /\ TypeOK /\ ChainInv /\ RequestInv(r)
      /\ notify \in [Requests -> Notify] /\ notify[r] \in Notify
      /\ NotifyInv(r) /\ WritingInv(r)
  BY DEF IInv, TypeOK, RequestInv
<1>1. CASE PutWritten(r)
  <2>1. /\ notify[r].pc = "putting" /\ notify'[r].pc = "posting"
        /\ mem' = mem /\ disk' = mem /\ ~Writes("put", r)'
    BY <1>0, <1>1, RequestTurn DEF PutWritten, NotifyGoto, Notify, Persist, Writes
  <2>2. mem[r].status = "pending"
    BY <1>0, <1>1, <2>1 DEF PutWritten, WritingInv, NotifyInv, NoRequest
  <2>3. NotifyInv(r)'
    BY <1>0, <1>1, <2>1, <2>2 DEF PutWritten, NotifyInv, Exists
  <2>4. Ends([op |-> "put", id |-> r]) /\ notify'[r].request = notify[r].request
    BY <1>0, <1>1, NotifyKinds DEF PutWritten, NotifyGoto, Notify
  <2> QED BY <1>0, <1>1, <2>1, <2>3, <2>4, NotifierKept DEF PutWritten
<1>2. CASE PutFails(r)
  <2>1. /\ notify[r].pc = "putting" /\ notify'[r].pc = "aborted"
        /\ mem' = mem /\ disk' = disk
    BY <1>0, <1>2, RequestTurn DEF PutFails, NotifyGoto, Notify, PersistFails
  <2>2. NotifyInv(r)'
    BY <1>0, <1>2, <2>1 DEF PutFails, NotifyInv
  <2>3. Ends([op |-> "put", id |-> r]) /\ notify'[r].request = notify[r].request
    BY <1>0, <1>2, NotifyKinds DEF PutFails, NotifyGoto, Notify
  <2> QED BY <1>0, <1>2, <2>1, <2>2, <2>3, NotifierKept DEF PutFails
<1>3. CASE SlackRefWritten(r)
  <2>1. /\ notify[r].pc = "recording" /\ notify'[r].pc = "created"
        /\ mem' = mem /\ disk' = mem
    BY <1>0, <1>3, RequestTurn DEF SlackRefWritten, Notify, Persist
  <2>2. mem[r].slack
    BY <1>0, <1>3 DEF SlackRefWritten, WritingInv
  <2>3. NotifyInv(r)'
    BY <1>0, <1>3, <2>1, <2>2 DEF SlackRefWritten, NotifyInv
  <2>4. Ends([op |-> "slackRef", id |-> r]) /\ ~Writes("put", r)
    BY <1>0, <1>3, <2>1, NotifyKinds, RequestTurn
  <2> QED BY <1>0, <1>3, <2>1, <2>3, <2>4, NotifierKept DEF SlackRefWritten
<1>4. CASE SlackRefFails(r)
  <2>1. /\ notify[r].pc = "recording" /\ notify'[r].pc = "rollback"
        /\ mem' = mem /\ disk' = disk
    BY <1>0, <1>4, RequestTurn DEF SlackRefFails, NotifyGoto, Notify, PersistFails
  <2>2. NotifyInv(r)'
    BY <1>0, <1>4, <2>1 DEF SlackRefFails, NotifyInv
  <2>3. Ends([op |-> "slackRef", id |-> r]) /\ ~Writes("put", r)
    BY <1>0, <1>4, <2>1, NotifyKinds, RequestTurn
  <2> QED BY <1>0, <1>4, <2>1, <2>2, <2>3, NotifierKept DEF SlackRefFails
<1>5. CASE RollbackEnds(r)
  <2>1. /\ notify[r].pc = "rollback" /\ notify'[r].pc = "failed"
        /\ mem' = mem /\ disk' \in {disk, mem}
    BY <1>0, <1>5, RequestTurn DEF RollbackEnds, NotifyGoto, Notify, Persist, PersistFails
  <2>2. mem[r] = NoRequest
    BY <1>0, <1>5 DEF RollbackEnds, WritingInv
  <2>3. NotifyInv(r)'
    BY <1>0, <1>5, <2>1, <2>2 DEF RollbackEnds, NotifyInv, Exists, NoRequest
  <2>4. Ends([op |-> "rollback", id |-> r]) /\ ~Writes("put", r)
    BY <1>0, <1>5, <2>1, NotifyKinds, RequestTurn
  <2> QED BY <1>0, <1>5, <2>1, <2>3, <2>4, NotifierKept DEF RollbackEnds
<1> QED BY <1>1, <1>2, <1>3, <1>4, <1>5

-----------------------------------------------------------------------------
(* The requests, after a mutator *)

\* What has to be shown of the request a mutator changes, for everything else
\* about it stays.
LEMMA RunKept ==
  ASSUME TypeOK, NEW r \in Requests, RequestInv(r), NEW job, RunsOn(job, r),
         now' = now, notify'[r] = notify[r], poll'[r] = poll[r], told'[r] = told[r],
         message'[r] = message[r], comments'[r] = comments[r],
         Stored(mem'[r], RepoOf[r], now), Follows(disk[r], mem'[r]),
         Bears(mem'[r], told[r], now), NotifyInv(r)', WritingInv(r)', PollInv(r)'
  PROVE  RequestInv(r)'
<1>1. disk' = disk
  BY DEF RunsOn
<1>2. StoreInv(r)' /\ ToldInv(r)'
  BY <1>1 DEF RequestInv, StoreInv, ToldInv
<1>3. PublishedInv(r)'
  BY <1>1 DEF RequestInv, PublishedInv, RolledBack, Exists
<1> QED BY <1>2, <1>3 DEF RequestInv

\* A mutator belongs to one update: it writes no other.
LEMMA RunWrites ==
  ASSUME NEW op, NEW id, NEW r, RunsOn([op |-> op, id |-> id], r), NEW op2, NEW id2,
         Writes(op2, id2)'
  PROVE  op2 = op /\ id2 = id
BY DEF RunsOn, Writes

\* The mutators of notify: storing the request, its message's reference, deleting it.
LEMMA NotifyRunRequests ==
  ASSUME IInv, TypeOK', NEW r \in Requests,
         PutRuns(r) \/ SlackRefRuns(r) \/ RollbackRuns(r)
  PROVE  RequestInv(r)'
<1> USE DEF store, handlers, outside
<1>0. /\ TypeOK /\ ChainInv /\ RequestInv(r)
      /\ mem \in [Requests -> Request] /\ mem[r] \in Request /\ disk[r] \in Request
      /\ StoreInv(r) /\ NotifyInv(r)
  BY DEF IInv, TypeOK, RequestInv
<1>1. CASE PutRuns(r)
  <2>1. /\ notify[r].pc = "putting" /\ ~Exists(disk[r])
        /\ RunsOn([op |-> "put", id |-> r], r)
    BY <1>0, <1>1, RequestTurn, NotifyKinds DEF PutRuns, NotifyInv
  <2>2. mem'[r] = notify[r].request /\ disk' = disk /\ notify' = notify /\ poll' = poll
        /\ now' = now /\ told' = told /\ message' = message /\ comments' = comments
    BY <1>0, <1>1 DEF PutRuns, Mutate
  <2>3. /\ mem'[r].status = "pending" /\ mem'[r].claim = NoClaim
        /\ mem'[r].approver = NoUser
    BY <1>0, <2>1, <2>2 DEF NotifyInv, NoRequest
  <2>4. Stored(mem'[r], RepoOf[r], now) /\ Follows(disk[r], mem'[r])
    BY <2>1, <2>3 DEF Stored, Follows, Exists, IsDecided, IsTerminal, Decisions
  <2>5. told[r] = "none" /\ poll[r] # "expiring"
    BY <1>0, <2>1 DEF RequestInv, ToldInv, PollInv
  <2>6. Bears(mem'[r], told[r], now) /\ PollInv(r)'
    BY <2>2, <2>5 DEF Bears, PollInv, Decisions
  <2>7. WritingInv(r)'
    BY <2>1, <2>2, RunWrites DEF WritingInv
  <2>8. NotifyInv(r)'
    <3>1. Writes("put", r)'
      BY <2>1 DEF RunsOn, Writes
    <3> QED BY <1>0, <2>1, <2>2, <2>3, <3>1 DEF NotifyInv, Exists
  <2> QED BY <1>0, <2>1, <2>2, <2>4, <2>6, <2>7, <2>8, RunKept
<1>2. CASE SlackRefRuns(r)
  <2>1. /\ notify[r].pc = "recording" /\ RunsOn([op |-> "slackRef", id |-> r], r)
    BY <1>0, <1>2, RequestTurn, NotifyKinds DEF SlackRefRuns
  <2>2. mem'[r] = [mem[r] EXCEPT !.slack = TRUE] /\ disk' = disk /\ notify' = notify
        /\ poll' = poll /\ now' = now /\ told' = told /\ message' = message
        /\ comments' = comments
    BY <1>0, <1>2 DEF SlackRefRuns, Mutate
  <2>3. /\ mem'[r].status = mem[r].status /\ mem'[r].claim = mem[r].claim
        /\ mem'[r].approver = mem[r].approver /\ mem'[r].expiresAt = mem[r].expiresAt
        /\ mem'[r].slack
    BY <1>0, <2>2 DEF Request
  <2>4. Exists(mem[r])
    BY <1>0, <2>1 DEF NotifyInv
  <2>5. Stored(mem'[r], RepoOf[r], now)
    BY <1>0, <2>3, <2>4 DEF StoreInv, Stored, Exists, IsDecided, IsExpired
  <2>6. Follows(disk[r], mem'[r])
    BY <1>0, <2>3 DEF StoreInv, Follows, Exists
  <2>7. told[r] = "none" /\ poll[r] # "expiring"
    BY <1>0, <2>1 DEF RequestInv, ToldInv, PollInv
  <2>8. Bears(mem'[r], told[r], now) /\ PollInv(r)'
    BY <2>2, <2>7 DEF Bears, PollInv, Decisions
  <2>9. WritingInv(r)'
    BY <2>1, <2>3, RunWrites DEF WritingInv
  <2>10. NotifyInv(r)'
    BY <1>0, <2>1, <2>2, <2>3 DEF NotifyInv, Exists
  <2> QED BY <1>0, <2>1, <2>2, <2>5, <2>6, <2>8, <2>9, <2>10, RunKept
<1>3. CASE RollbackRuns(r)
  <2>1. /\ notify[r].pc = "rollback" /\ RunsOn([op |-> "rollback", id |-> r], r)
    BY <1>0, <1>3, RequestTurn, NotifyKinds DEF RollbackRuns
  <2>2. mem'[r] = NoRequest /\ disk' = disk /\ notify' = notify
        /\ poll' = poll /\ now' = now /\ told' = told /\ message' = message
        /\ comments' = comments
    BY <1>0, <1>3 DEF RollbackRuns, Mutate
  <2>3. Stored(mem'[r], RepoOf[r], now) /\ Follows(disk[r], mem'[r])
    BY <2>2 DEF Stored, Follows, Exists, IsDecided, IsTerminal, Decisions, NoRequest
  <2>4. told[r] = "none" /\ poll[r] # "expiring"
    BY <1>0, <2>1 DEF RequestInv, ToldInv, PollInv
  <2>5. Bears(mem'[r], told[r], now) /\ PollInv(r)'
    BY <2>2, <2>4 DEF Bears, PollInv, Decisions
  <2>6. WritingInv(r)'
    BY <2>1, <2>2, RunWrites DEF WritingInv
  <2>7. NotifyInv(r)'
    BY <1>0, <2>1, <2>2 DEF NotifyInv, Exists, NoRequest
  <2> QED BY <1>0, <2>1, <2>2, <2>3, <2>5, <2>6, <2>7, RunKept
<1> QED BY <1>1, <1>2, <1>3

\* What request r may become while its message is shown.
MayBecome(r, q) ==
  /\ q.expiresAt = mem[r].expiresAt /\ q.slack = mem[r].slack
  /\ Exists(q) <=> Exists(mem[r])
  /\ Stored(q, RepoOf[r], now) /\ Follows(disk[r], q) /\ Bears(q, told[r], now)

\* The mutator of this update, which is not of a notify handler, is all that happens.
OnlyRuns(job, r) ==
  /\ RunsOn(job, r) /\ job.op \notin {"put", "slackRef", "rollback"}
  /\ now' = now /\ notify' = notify /\ poll' = poll /\ told' = told
  /\ message' = message /\ comments' = comments

\* An expiry, a claim and a finalization change a request whose message is shown:
\* what is left to show is that it may become what it did.
LEMMA ShownRunKept ==
  ASSUME TypeOK, NEW r \in Requests, RequestInv(r), message[r] # "none",
         NEW job, OnlyRuns(job, r), MayBecome(r, mem'[r])
  PROVE  RequestInv(r)'
<1>0. RunsOn(job, r) /\ disk' = disk
  BY DEF OnlyRuns, RunsOn
<1>1. WritingInv(r)'
  BY DEF OnlyRuns, RunsOn, Writes, WritingInv
<1>2. NotifyInv(r)'
  BY <1>0 DEF RequestInv, NotifyInv, Exists, OnlyRuns, MayBecome
<1>3. PollInv(r)'
  BY DEF RequestInv, PollInv, IsExpired, OnlyRuns, MayBecome
<1>4. /\ now' = now /\ notify'[r] = notify[r] /\ poll'[r] = poll[r] /\ told'[r] = told[r]
      /\ message'[r] = message[r] /\ comments'[r] = comments[r]
  BY DEF OnlyRuns
<1>5. Stored(mem'[r], RepoOf[r], now) /\ Follows(disk[r], mem'[r]) /\ Bears(mem'[r], told[r], now)
  BY DEF MayBecome
<1> QED BY <1>0, <1>1, <1>2, <1>3, <1>4, <1>5, RunKept

\* A pending request that is shown may expire past its deadline.
LEMMA ExpiryAllowed ==
  ASSUME TypeOK, NEW r \in Requests, RequestInv(r), message[r] # "none",
         mem[r].status = "pending", IsExpired(mem[r], now),
         NEW q, q = [mem[r] EXCEPT !.status = "expired"]
  PROVE  MayBecome(r, q)
<1>1. /\ q.status = "expired" /\ q.claim = mem[r].claim /\ q.approver = mem[r].approver
      /\ q.expiresAt = mem[r].expiresAt /\ q.slack = mem[r].slack
      /\ disk[r] \in Request
  BY DEF TypeOK, Request
<1>2. Exists(mem[r]) /\ Exists(disk[r])
  BY DEF RequestInv, NotifyInv, Exists
<1>3. Stored(q, RepoOf[r], now)
  BY <1>1 DEF RequestInv, StoreInv, Stored, Exists, IsDecided, IsExpired, Decisions
<1>4. disk[r].status = "pending"
  BY <1>1, <1>2 DEF RequestInv, StoreInv, Follows, Stored, Exists, IsTerminal, Request, Statuses,
                    Decisions, NoClaim, Claim
<1>5. Follows(disk[r], q)
  BY <1>1, <1>2, <1>4 DEF RequestInv, StoreInv, Follows, Exists, IsTerminal, Decisions
<1>6. Bears(q, told[r], now)
  BY <1>1 DEF RequestInv, ToldInv, Bears, Decisions
<1> QED BY <1>1, <1>2, <1>3, <1>5, <1>6 DEF Exists, MayBecome

\* So may one that stays as it is.
LEMMA StayAllowed ==
  ASSUME NEW r \in Requests, RequestInv(r)
  PROVE  MayBecome(r, mem[r])
BY DEF RequestInv, StoreInv, ToldInv, MayBecome

\* The mutator of a poll: the expiry.
LEMMA ExpireRunRequest ==
  ASSUME IInv, TypeOK', NEW r \in Requests, ExpireRuns(r)
  PROVE  RequestInv(r)'
<1> USE DEF store, handlers, outside
<1>0. /\ TypeOK /\ ChainInv /\ RequestInv(r) /\ mem \in [Requests -> Request]
  BY DEF IInv, TypeOK
<1>1. /\ poll[r] = "expiring" /\ RunsOn([op |-> "expire", id |-> r], r)
  BY <1>0, RequestTurn, PollKinds DEF ExpireRuns
<1>2. notify[r].pc = "created" /\ IsExpired(mem[r], now) /\ message[r] # "none"
  BY <1>0, <1>1 DEF RequestInv, PollInv, NotifyInv
<1>3. /\ notify' = notify /\ poll' = poll /\ now' = now /\ told' = told
      /\ message' = message /\ comments' = comments
      /\ mem'[r] = IF mem[r].status = "pending" THEN [mem[r] EXCEPT !.status = "expired"]
                   ELSE mem[r]
  BY <1>0 DEF ExpireRuns, Mutate
<1>4. OnlyRuns([op |-> "expire", id |-> r], r)
  BY <1>1, <1>3 DEF OnlyRuns
<1>5. MayBecome(r, mem'[r])
  BY <1>0, <1>2, <1>3, ExpiryAllowed, StayAllowed
<1> QED BY <1>0, <1>2, <1>4, <1>5, ShownRunKept

\* The mutator of a click: the claim, or what else claimDecision finds.
LEMMA ClaimRunRequest ==
  ASSUME IInv, TypeOK', NEW c \in Clicks, ClaimRuns(c),
         NEW r \in Requests, r = click[c].requestId
  PROVE  RequestInv(r)'
<1> USE DEF store, handlers, outside
<1>0. /\ TypeOK /\ ChainInv /\ ClickInv(c) /\ click[c].pc = "claiming"
      /\ mem \in [Requests -> Request]
  BY ClickTurn DEF IInv, TypeOK, ClaimRuns
<1>1. /\ r \in Requests /\ click[c].userId \in Users /\ click[c].action \in Actions
      /\ message[r] # "none" /\ IsAuthorizedApprover(click[c].userId, RepoOf[r])
  BY <1>0 DEF ClickInv
<1>2. RunsOn([op |-> "claim", id |-> c], r)
  BY <1>0, ClickKinds
<1>3. /\ notify' = notify /\ poll' = poll /\ now' = now /\ told' = told
      /\ message' = message /\ comments' = comments
      /\ mem'[r] = CASE ClaimOutcome(mem[r], now) = "claimed" ->
                          ClaimedRequest(mem[r], click[c].action, click[c].userId)
                     [] ClaimOutcome(mem[r], now) = "expired" /\ mem[r].status = "pending" ->
                          [mem[r] EXCEPT !.status = "expired"]
                     [] OTHER -> mem[r]
  BY <1>0, <1>1 DEF ClaimRuns, Mutate
<1>4. RequestInv(r) /\ mem[r] \in Request /\ disk[r] \in Request
  BY <1>0, <1>1 DEF IInv, TypeOK
<1>5. OnlyRuns([op |-> "claim", id |-> c], r)
  BY <1>2, <1>3 DEF OnlyRuns
<1>6. CASE ClaimOutcome(mem[r], now) = "claimed"
  <2> DEFINE claim == [decision |-> DecisionOf(click[c].action), userId |-> click[c].userId]
  <2>1. mem[r].status = "pending" /\ ~IsExpired(mem[r], now)
    BY <1>6 DEF ClaimOutcome
  <2>2. mem'[r] = ClaimedRequest(mem[r], click[c].action, click[c].userId)
    BY <1>3, <1>6
  <2>3. /\ mem'[r].status = "processing" /\ mem'[r].claim = claim
        /\ mem'[r].approver = mem[r].approver /\ mem'[r].expiresAt = mem[r].expiresAt
        /\ mem'[r].slack = mem[r].slack
    BY <1>4, <2>2 DEF ClaimedRequest, Request
  <2>4. claim # NoClaim /\ claim.userId = click[c].userId
    BY <1>1, NoUserAssumption DEF NoClaim
  <2> HIDE DEF claim
  <2>5. mem[r].approver = NoUser
    BY <1>4, <2>1 DEF RequestInv, StoreInv, Stored, IsDecided, Decisions
  <2>6. Stored(mem'[r], RepoOf[r], now)
    BY <1>1, <2>3, <2>4, <2>5 DEF Stored, Exists, IsDecided, Decisions
  <2>7. Exists(mem[r]) /\ Exists(disk[r]) /\ Exists(mem'[r])
    BY <1>1, <1>4, <2>1, <2>3 DEF RequestInv, NotifyInv, Exists
  <2>8. disk[r].status = "pending"
    BY <1>4, <2>1, <2>7 DEF RequestInv, StoreInv, Follows, Stored, Exists, IsTerminal, Request,
                            Statuses, Decisions, NoClaim, Claim
  <2>9. Follows(disk[r], mem'[r])
    BY <1>4, <2>3, <2>7, <2>8 DEF RequestInv, StoreInv, Follows, IsTerminal, Decisions
  <2>10. Bears(mem'[r], told[r], now)
    BY <1>4, <2>1 DEF RequestInv, ToldInv, Bears, Decisions
  <2>11. MayBecome(r, mem'[r])
    BY <2>3, <2>6, <2>7, <2>9, <2>10 DEF MayBecome
  <2> QED BY <1>0, <1>1, <1>4, <1>5, <2>11, ShownRunKept
<1>7. CASE ClaimOutcome(mem[r], now) = "expired" /\ mem[r].status = "pending"
  <2>1. IsExpired(mem[r], now)
    BY <1>7 DEF ClaimOutcome
  <2>2. mem'[r] = [mem[r] EXCEPT !.status = "expired"]
    BY <1>3, <1>7
  <2>3. MayBecome(r, mem'[r])
    BY <1>0, <1>1, <1>4, <1>7, <2>1, <2>2, ExpiryAllowed
  <2> QED BY <1>0, <1>1, <1>4, <1>5, <2>3, ShownRunKept
<1>8. CASE /\ ClaimOutcome(mem[r], now) # "claimed"
           /\ ~(ClaimOutcome(mem[r], now) = "expired" /\ mem[r].status = "pending")
  <2>1. mem'[r] = mem[r]
    BY <1>3, <1>8
  <2>2. MayBecome(r, mem'[r])
    BY <1>1, <1>4, <2>1, StayAllowed
  <2> QED BY <1>0, <1>1, <1>4, <1>5, <2>2, ShownRunKept
<1> QED BY <1>6, <1>7, <1>8

\* Who finalizes holds both copies of the request.
LEMMA FinalizeHolds ==
  ASSUME IInv, NEW c \in Clicks, FinalizeRuns(c)
  PROVE  LET r == click[c].requestId IN
         /\ click[c].pc = "finalizing" /\ r \in Requests /\ message[r] # "none"
         /\ click[c].userId \in Users /\ click[c].action \in Actions
         /\ IsAuthorizedApprover(click[c].userId, RepoOf[r])
         /\ HeldBy(mem[r], c) /\ HeldBy(disk[r], c)
<1> DEFINE r == click[c].requestId
<1>1. /\ click[c].pc = "finalizing" /\ ClickInv(c) /\ ~Writes("finalize", c)
  BY ClickTurn DEF IInv, FinalizeRuns, Runs, Writes
<1>2. Exists(mem[r])
  BY DEF FinalizeRuns, CanFinalize, Exists
<1> QED BY <1>1, <1>2 DEF ClickInv

\* The mutator of the claimant: the decision.
LEMMA FinalizeRunRequest ==
  ASSUME IInv, TypeOK', NEW c \in Clicks, FinalizeRuns(c),
         NEW r \in Requests, r = click[c].requestId
  PROVE  RequestInv(r)'
<1> USE DEF store, handlers, outside
<1>0. /\ TypeOK /\ ChainInv /\ ClickInv(c) /\ mem \in [Requests -> Request]
  BY DEF IInv, TypeOK
<1>1. /\ r \in Requests /\ click[c].userId \in Users /\ click[c].action \in Actions
      /\ message[r] # "none" /\ IsAuthorizedApprover(click[c].userId, RepoOf[r])
      /\ HeldBy(mem[r], c) /\ HeldBy(disk[r], c)
  BY FinalizeHolds
<1>2. RunsOn([op |-> "finalize", id |-> c], r)
  BY <1>0, ClickKinds
<1>3. /\ notify' = notify /\ poll' = poll /\ now' = now /\ told' = told
      /\ message' = message /\ comments' = comments
      /\ mem'[r] = FinalizedRequest(mem[r])
  BY <1>0, <1>1 DEF FinalizeRuns, Mutate
<1>4. RequestInv(r) /\ mem[r] \in Request /\ disk[r] \in Request
  BY <1>0, <1>1 DEF IInv, TypeOK
<1>5. /\ mem[r].status = "processing" /\ disk[r].status = "processing"
      /\ mem[r].claim = disk[r].claim
      /\ mem[r].claim.decision = DecisionOf(click[c].action)
      /\ mem[r].claim.userId = click[c].userId
  BY <1>1 DEF HeldBy
<1>6. DecisionOf(click[c].action) \in Decisions /\ click[c].userId # NoUser
  BY <1>1, DecisionOfType, NoUserAssumption
<1>7. /\ mem'[r].status = mem[r].claim.decision /\ mem'[r].claim = NoClaim
      /\ mem'[r].approver = mem[r].claim.userId /\ mem'[r].expiresAt = mem[r].expiresAt
      /\ mem'[r].slack = mem[r].slack
  BY <1>3, <1>4 DEF FinalizedRequest, Request
<1>8. Exists(mem[r]) /\ Exists(mem'[r]) /\ Exists(disk[r])
  BY <1>5, <1>6, <1>7 DEF Exists, Decisions
<1>9. Stored(mem'[r], RepoOf[r], now)
  BY <1>1, <1>5, <1>6, <1>7, <1>8 DEF Stored, IsDecided, Decisions
<1>10. Follows(disk[r], mem'[r])
  BY <1>4, <1>5, <1>7, <1>8 DEF RequestInv, StoreInv, Follows, IsTerminal, Decisions
<1>11. Bears(mem'[r], told[r], now)
  BY <1>4, <1>5, <1>7 DEF RequestInv, ToldInv, Bears, Decisions
<1>12. MayBecome(r, mem'[r])
  BY <1>7, <1>8, <1>9, <1>10, <1>11 DEF MayBecome
<1>13. OnlyRuns([op |-> "finalize", id |-> c], r)
  BY <1>2, <1>3 DEF OnlyRuns
<1>14. RequestInv(r)'
  BY <1>0, <1>1, <1>4, <1>12, <1>13, ShownRunKept
<1> QED BY <1>14

-----------------------------------------------------------------------------
(* The requests, after the other steps of polls and clicks *)

\* A poll answers the truth: what memory says, the file says or will say again.
LEMMA AnswerBears ==
  ASSUME TypeOK, NEW r \in Requests, RequestInv(r), notify[r].pc = "created"
  PROVE  /\ Bears(mem[r], mem[r].status, now) /\ Bears(disk[r], mem[r].status, now)
         /\ Tell(r, mem[r].status) => told'[r] = mem[r].status
<1>1. /\ Exists(mem[r]) /\ Exists(disk[r])
      /\ mem[r] \in Request /\ disk[r] \in Request
      /\ StoreInv(r)
  BY DEF RequestInv, NotifyInv, TypeOK
<1>2. Bears(mem[r], mem[r].status, now)
  BY <1>1 DEF Bears
<1>3. mem[r].status \in Decisions => Bears(disk[r], mem[r].status, now)
  BY <1>1 DEF StoreInv, Follows, IsTerminal, Bears, Exists, Request, Statuses, Decisions
<1>4. mem[r].status = "expired" => Bears(disk[r], mem[r].status, now)
  <2>1. mem[r].status = "expired" => IsExpired(disk[r], now)
    BY <1>1 DEF StoreInv, Stored, Follows, IsExpired
  <2>2. disk[r].status = "processing" => mem[r].status # "expired"
    <3>1. disk[r].status = "processing" => disk[r].claim \in Claim
      BY <1>1 DEF StoreInv, Stored, Request
    <3> QED BY <1>1, <3>1 DEF StoreInv, Follows, Claim, Decisions
  <2> QED BY <1>1, <2>1, <2>2
          DEF StoreInv, Follows, IsTerminal, Bears, Exists, Request, Statuses, Decisions
<1>5. mem[r].status \notin Decisions \cup {"expired"} => Bears(disk[r], mem[r].status, now)
  BY DEF Bears
<1>6. Tell(r, mem[r].status) => told'[r] = mem[r].status
  BY <1>1 DEF Tell, Exists, TypeOK
<1> QED BY <1>2, <1>3, <1>4, <1>5, <1>6

\* A poll's steps other than the mutator.
LEMMA PollRequest ==
  ASSUME IInv, TypeOK', NEW r \in Requests, PollArrive(r) \/ ExpireWritten(r) \/ ExpireFails(r)
  PROVE  RequestInv(r)'
<1> USE DEF store, handlers, outside
<1> DEFINE job == [op |-> "expire", id |-> r]
<1>0. /\ TypeOK /\ ChainInv /\ RequestInv(r)
      /\ StoreInv(r) /\ WritingInv(r) /\ NotifyInv(r) /\ ToldInv(r) /\ PublishedInv(r)
      /\ poll \in [Requests -> {"idle", "expiring"}]
  BY DEF IInv, TypeOK, RequestInv
<1>1. Asks \/ Ends(job)
  BY <1>0, PollKinds
<1>2. /\ notify' = notify /\ message' = message /\ comments' = comments /\ now' = now
      /\ mem' = mem /\ disk'[r] \in {disk[r], mem[r]}
  BY <1>1 DEF PollArrive, ExpireWritten, ExpireFails, Asks, Ends
<1>3. CatchesUp(r)
  BY <1>0, <1>2, ExpressAssumption DEF CatchesUp, TypeOK
<1>4. StoreInv(r)' /\ PublishedInv(r)'
  BY <1>0, <1>2, <1>3, StoreKept, PublishedKept
<1>5. WritingInv(r)'
  <2>0. \A op \in {"put", "slackRef", "rollback"} : [op |-> op, id |-> r] # job
    OBVIOUS
  <2> HIDE DEF job
  <2>1. \A op \in {"put", "slackRef", "rollback"} : Writes(op, r)' <=> Writes(op, r)
    BY <1>0, <1>1, <2>0, WriterKept
  <2> QED BY <1>0, <1>2, <2>1, WritingKept
<1>6. notify[r].pc = "created"
  BY <1>0, RequestTurn DEF PollArrive, ExpireWritten, ExpireFails, RequestInv, PollInv
<1>7. NotifyInv(r)'
  BY <1>0, <1>2, <1>6 DEF NotifyInv
<1>8. PollInv(r)'
  BY <1>0, <1>2, <1>6
     DEF PollArrive, ExpireWritten, ExpireFails, PollInv, RequestInv, Update
<1>9. ToldInv(r)'
  <2>1. CASE told'[r] = told[r]
    BY <1>0, <1>2, <1>3, <2>1, ToldKept
  <2>2. CASE Tell(r, mem[r].status)
    BY <1>0, <1>2, <1>6, <2>2, AnswerBears DEF ToldInv
  <2> QED BY <2>1, <2>2 DEF PollArrive, ExpireWritten, ExpireFails
<1> QED BY <1>4, <1>5, <1>7, <1>8, <1>9 DEF RequestInv

\* A click's effect says what its handler decided: it is on disk, or withdrawn.
LEMMA EffectSays ==
  ASSUME IInv, NEW c \in Clicks, NEW effect, Settled(c, effect),
         NEW r \in Requests, r = click[c].requestId
  PROVE  /\ click[c].pc = "effects" /\ message[r] # "none"
         /\ click[c].request.status \in Decisions
         /\ BuildAuditComment(click[c].request) =
              [decision |-> click[c].request.status, userId |-> click[c].userId]
         /\ \/ /\ disk[r].status = click[c].request.status
               /\ disk[r].approver = click[c].userId
            \/ RolledBack(r)
         /\ effect = "comment" => comments[r] = <<>>
<1>1. ClickInv(c) /\ click[c].pc = "effects" /\ effect \in click[c].effects
  BY DEF IInv, Settled, ClickInv
<1>2. /\ click[c].action \in Actions /\ click[c].outcome = "claimed" /\ message[r] # "none"
      /\ DecidedBy(click[c].request, c) /\ click[c].request.claim = NoClaim
      /\ effect = "comment" => comments[r] = <<>>
  BY <1>1 DEF ClickInv
<1>3. DecidedBy(disk[r], c) \/ RolledBack(r)
  BY <1>1, <1>2 DEF ClickInv, Decided
<1> QED BY <1>1, <1>2, <1>3, DecisionOfType DEF DecidedBy, BuildAuditComment

\* The audit comment or the message's update, of the request it is about.
LEMMA EffectRequest ==
  ASSUME IInv, TypeOK', NEW c \in Clicks, PostComment(c) \/ UpdateMessage(c),
         NEW r \in Requests, r = click[c].requestId
  PROVE  RequestInv(r)'
<1> USE DEF store, handlers, outside
<1>0. /\ TypeOK /\ ChainInv /\ RequestInv(r) /\ ClickInv(c) /\ Asks
      /\ StoreInv(r) /\ WritingInv(r) /\ NotifyInv(r) /\ ToldInv(r) /\ PublishedInv(r)
  BY ClickKinds DEF IInv, RequestInv
<1>1. /\ notify' = notify /\ poll' = poll /\ told' = told /\ now' = now
      /\ mem' = mem /\ disk' = disk
  BY DEF PostComment, UpdateMessage
<1>2. CatchesUp(r)
  BY <1>0, <1>1, ExpressAssumption DEF CatchesUp, TypeOK
<1>3. StoreInv(r)' /\ ToldInv(r)'
  BY <1>0, <1>1, <1>2, StoreKept, ToldKept
<1>4. WritingInv(r)'
  <2>1. \A op \in {"put", "slackRef", "rollback"} : Writes(op, r)' <=> Writes(op, r)
    BY <1>0, WriterKept
  <2> QED BY <1>0, <1>1, <2>1, WritingKept
<1>5. PollInv(r)'
  BY <1>0, <1>1 DEF RequestInv, PollInv
<1>6. CASE PostComment(c)
  <2> DEFINE said == BuildAuditComment(click[c].request)
  <2>1. message' = message /\ comments' = [comments EXCEPT ![r] = Append(@, said)]
    BY <1>6 DEF PostComment
  <2>2. Settled(c, "comment")
    BY <1>6 DEF PostComment
  <2>3. /\ click[c].request.status \in Decisions /\ comments[r] = <<>>
        /\ said = [decision |-> click[c].request.status, userId |-> click[c].userId]
        /\ \/ /\ disk[r].status = click[c].request.status
              /\ disk[r].approver = click[c].userId
           \/ RolledBack(r)
    BY <2>2, EffectSays
  <2> HIDE DEF said
  <2>4. comments'[r] = <<said>>
    <3>1. comments'[r] = Append(<<>>, said)
      BY <1>0, <2>1, <2>3 DEF TypeOK
    <3>2. Append(<<>>, said) = <<said>>
      OBVIOUS
    <3> QED BY <3>1, <3>2
  <2>5. Len(comments'[r]) = 1 /\ comments'[r][1] = said
    BY <2>4
  <2>6. PublishedInv(r)'
    BY <1>0, <1>1, <2>1, <2>3, <2>5 DEF PublishedInv, IsDecided, RolledBack, Exists
  <2>7. NotifyInv(r)'
    <3>1. Writes("put", r) => Writes("put", r)'
      BY <1>0, WriterKept
    <3> QED BY <1>0, <1>1, <2>1, <3>1 DEF NotifyInv
  <2> QED BY <1>3, <1>4, <1>5, <2>6, <2>7 DEF RequestInv
<1>7. CASE UpdateMessage(c)
  <2>1. Settled(c, "update") /\ comments' = comments
    BY <1>7 DEF UpdateMessage
  <2>2. message'[r] = click[c].request.status
    BY <1>0, <1>7 DEF UpdateMessage, TypeOK
  <2>3. /\ message[r] # "none" /\ click[c].request.status \in Decisions
        /\ disk[r].status = click[c].request.status \/ RolledBack(r)
    BY <2>1, EffectSays
  <2>4. message'[r] # "none"
    BY <2>2, <2>3 DEF Decisions
  <2>5. PublishedInv(r)'
    BY <1>0, <1>1, <2>1, <2>2, <2>3 DEF PublishedInv, RolledBack, Exists
  <2>6. NotifyInv(r)'
    BY <1>0, <1>1, <2>3, <2>4 DEF NotifyInv
  <2> QED BY <1>3, <1>4, <1>5, <2>5, <2>6 DEF RequestInv
<1> QED BY <1>6, <1>7

\* A restart.
LEMMA RestartRequest ==
  ASSUME IInv, TypeOK', NEW r \in Requests, Restart
  PROVE  RequestInv(r)'
<1>0. /\ TypeOK /\ ChainInv /\ RequestInv(r)
      /\ StoreInv(r) /\ NotifyInv(r) /\ ToldInv(r) /\ PublishedInv(r)
  BY DEF IInv, RequestInv
<1>1. /\ mem' = disk' /\ disk'[r] \in {disk[r], mem[r]} /\ ~writing' /\ poll'[r] = "idle"
      /\ now' = now /\ message' = message /\ comments' = comments /\ told' = told
  BY DEF Restart, outside
<1>2. /\ notify[r].pc = "putting" => notify'[r].pc = "aborted"
      /\ notify[r].pc \in {"posting", "posted", "recording", "rollback"}
           => notify'[r].pc = "failed"
      /\ notify[r].pc \in {"idle", "refused", "created", "failed", "aborted"}
           => notify'[r].pc = notify[r].pc
      /\ notify[r].pc \in {"idle", "refused", "putting", "posting", "posted", "recording",
                           "rollback", "created", "failed", "aborted"}
  <2>1. notify[r] \in Notify
    BY <1>0 DEF TypeOK
  <2>2. notify'[r] =
          CASE notify[r].pc = "putting" -> [notify[r] EXCEPT !.pc = "aborted"]
            [] notify[r].pc \in {"posting", "posted", "recording", "rollback"} ->
                 [notify[r] EXCEPT !.pc = "failed"]
            [] OTHER -> notify[r]
    BY DEF Restart
  <2> QED BY <2>1, <2>2 DEF Notify, NotifyPcs
<1>3. StoreInv(r)'
  <2>1. mem[r] \in Request /\ disk[r] \in Request
    BY <1>0 DEF TypeOK
  <2>2. Follows(mem[r], mem[r]) /\ Follows(disk[r], disk[r])
    BY <2>1 DEF Follows, Exists, Request, Statuses
  <2> QED BY <1>0, <1>1, <2>2 DEF StoreInv
<1>4. WritingInv(r)' /\ PollInv(r)'
  BY <1>1 DEF WritingInv, Writes, PollInv
<1>5. ToldInv(r)'
  BY <1>0, <1>1, <1>2 DEF ToldInv
<1>6. PublishedInv(r)'
  BY <1>0, <1>1, <1>2, PublishedKept
<1>7. NotifyInv(r)'
  BY <1>0, <1>1, <1>2 DEF NotifyInv
<1> QED BY <1>3, <1>4, <1>5, <1>6, <1>7 DEF RequestInv

\* Requests that a step is not about are quiet.
LEMMA TickQuiet ==
  ASSUME IInv, Tick, TypeOK', NEW q \in Requests
  PROVE  Quiet(q)
<1>1. TypeOK /\ ChainInv
  BY DEF IInv
<1>2. \A op \in {"put", "slackRef", "rollback"} :
        [op |-> "expire", id |-> q] # [op |-> op, id |-> q]
  OBVIOUS
<1> QED BY <1>1, <1>2, TickAsks, QuietByKind DEF Tick, handlers, outside

\* ... those another notify handler works for,
LEMMA NotifyQuiet ==
  ASSUME IInv, TypeOK', NEW r \in Requests, NEW q \in Requests, q # r,
         NotifyRefused(r) \/ NotifyArrive(r) \/ NotifyStep(r)
  PROVE  Quiet(q)
<1>0. /\ TypeOK /\ ChainInv /\ notify \in [Requests -> Notify]
      /\ DOMAIN message = Requests
  BY DEF IInv, TypeOK
<1>1. PICK op \in {"put", "slackRef", "rollback"} :
        LET job == [op |-> op, id |-> r] IN Asks \/ RunsOn(job, r) \/ Ends(job)
  BY <1>0, NotifyKinds DEF NotifyStep
<1>2. /\ notify'[q] = notify[q] /\ poll' = poll /\ told' = told
      /\ message'[q] = message[q] /\ comments' = comments /\ now' = now
  BY <1>0
     DEF NotifyRefused, NotifyArrive, NotifyStep, NotifyGoto, PutRuns, PutWritten, PutFails,
         SlackPosts, PostAnswered, PostFails, SlackRefRuns, SlackRefWritten, SlackRefFails,
         RollbackRuns, RollbackEnds, handlers, outside
<1> QED BY <1>0, <1>1, <1>2, QuietByKind

\* ... those another poll is about,
LEMMA PollQuiet ==
  ASSUME IInv, TypeOK', NEW r \in Requests, NEW q \in Requests, q # r,
         PollArrive(r) \/ ExpireStep(r)
  PROVE  Quiet(q)
<1>0. /\ TypeOK /\ ChainInv /\ poll \in [Requests -> {"idle", "expiring"}]
      /\ DOMAIN told = Requests
  BY DEF IInv, TypeOK
<1>1. LET job == [op |-> "expire", id |-> r] IN Asks \/ RunsOn(job, r) \/ Ends(job)
  BY <1>0, PollKinds DEF ExpireStep
<1>2. /\ notify' = notify /\ poll'[q] = poll[q] /\ told'[q] = told[q]
      /\ message' = message /\ comments' = comments /\ now' = now
  BY <1>0 DEF PollArrive, ExpireStep, ExpireRuns, ExpireWritten, ExpireFails, Tell,
              handlers, outside
<1> QED BY <1>0, <1>1, <1>2, QuietByKind

\* ... those another click is about, and even this click's unless it is changed.
LEMMA ClickQuiet ==
  ASSUME IInv, TypeOK', NEW c \in Clicks, NEW q \in Requests, ClickArrive(c) \/ ClickStep(c),
         \/ q # click[c].requestId
         \/ ~(ClaimRuns(c) \/ FinalizeRuns(c) \/ PostComment(c) \/ UpdateMessage(c))
  PROVE  Quiet(q)
<1>0. /\ TypeOK /\ ChainInv /\ ClickInv(c)
      /\ DOMAIN message = Requests /\ DOMAIN comments = Requests
  BY DEF IInv, TypeOK
<1>1. /\ notify' = notify /\ poll' = poll /\ told' = told
      /\ message'[q] = message[q] /\ comments'[q] = comments[q] /\ now' = now
  BY <1>0 DEF ClickArrive, ClickStep, ClaimRuns, ClaimWritten, ClaimFails, FinalizeRuns,
              FinalizeThrows, FinalizeWritten, FinalizeFails, PostComment, UpdateMessage,
              EffectFails, handlers, outside
<1>2. PICK op \in {"claim", "finalize"} :
        LET job == [op |-> op, id |-> c] IN
        \/ Asks \/ Ends(job) \/ Throws(job)
        \/ RunsOn(job, click[c].requestId) /\ (ClaimRuns(c) \/ FinalizeRuns(c))
  BY <1>0, ClickKinds DEF ClickStep
<1> DEFINE job == [op |-> op, id |-> c]
<1>3. PICK p : Asks \/ Ends(job) \/ Throws(job) \/ (RunsOn(job, p) /\ p # q)
  BY <1>2
<1>4. \A o \in {"put", "slackRef", "rollback"} : job # [op |-> o, id |-> q]
  OBVIOUS
<1> HIDE DEF job
<1> QED BY <1>0, <1>1, <1>3, <1>4, QuietByKind

\* Every request keeps its part of the invariant.
LEMMA RequestStep ==
  ASSUME IInv, Next, TypeOK', NEW q \in Requests
  PROVE  RequestInv(q)'
<1>0. Quiet(q) => RequestInv(q)'
  BY RequestKept DEF IInv
<1>1. CASE Tick
  BY <1>0, <1>1, TickQuiet
<1>2. CASE Restart
  BY <1>2, RestartRequest
<1>3. ASSUME NEW r \in Requests, NotifyRefused(r) \/ NotifyArrive(r) \/ NotifyStep(r)
      PROVE  RequestInv(q)'
  <2>1. CASE q = r
    BY <1>3, <2>1, NotifyAskRequests, NotifyEndRequests, NotifyRunRequests DEF NotifyStep
  <2> QED BY <1>0, <1>3, <2>1, NotifyQuiet
<1>4. ASSUME NEW r \in Requests, PollArrive(r) \/ ExpireStep(r)
      PROVE  RequestInv(q)'
  <2>1. CASE q = r
    BY <1>4, <2>1, PollRequest, ExpireRunRequest DEF ExpireStep
  <2> QED BY <1>0, <1>4, <2>1, PollQuiet
<1>5. ASSUME NEW c \in Clicks, ClickArrive(c) \/ ClickStep(c)
      PROVE  RequestInv(q)'
  <2>1. CASE q = click[c].requestId /\ (ClaimRuns(c) \/ FinalizeRuns(c))
    BY <2>1, ClaimRunRequest, FinalizeRunRequest
  <2>2. CASE q = click[c].requestId /\ (PostComment(c) \/ UpdateMessage(c))
    BY <2>2, EffectRequest
  <2> QED BY <1>0, <1>5, <2>1, <2>2, ClickQuiet
<1> QED BY <1>1, <1>2, <1>3, <1>4, <1>5 DEF Next

-----------------------------------------------------------------------------
(* The clicks *)

\* What a step other than a restart may do to a request that clicks are about.
Progress(r) ==
  /\ disk'[r] \in {disk[r], mem[r]}
  /\ notify[r].pc \in {"rollback", "failed"} => notify'[r].pc \in {"rollback", "failed"}
  /\ message[r] # "none" => message'[r] # "none"
  /\ writing => mem'[r] = mem[r]
  /\ ~Exists(mem[r]) /\ message[r] # "none" => ~Exists(mem'[r])
  /\ mem[r].status = "processing" =>
       \/ mem'[r].status = "processing" /\ mem'[r].claim = mem[r].claim
       \/ ~Exists(mem'[r])
       \/ \E c \in Clicks : FinalizeRuns(c) /\ click[c].requestId = r
  /\ comments'[r] = comments[r] \/ \E c \in Clicks : PostComment(c) /\ click[c].requestId = r

\* A request that is quiet makes that progress.
LEMMA QuietProgress ==
  ASSUME NEW r \in Requests, Quiet(r)
  PROVE  Progress(r)
BY DEF Quiet, CatchesUp, Progress

\* Steps of notify make that progress.
LEMMA NotifyProgress ==
  ASSUME IInv, TypeOK', NEW r \in Requests,
         NotifyRefused(r) \/ NotifyArrive(r) \/ NotifyStep(r)
  PROVE  Progress(r)
<1> USE DEF store, handlers, outside
<1>0. /\ TypeOK /\ ChainInv /\ NotifyInv(r) /\ WritingInv(r)
      /\ notify \in [Requests -> Notify] /\ notify[r] \in Notify
      /\ mem \in [Requests -> Request] /\ mem[r] \in Request
      /\ message \in [Requests -> {"none", "buttons"} \cup Decisions]
  BY DEF IInv, TypeOK, RequestInv
<1>1. ASSUME UNCHANGED mem, disk'[r] \in {disk[r], mem[r]}, comments' = comments,
             message'[r] \in {message[r], "buttons"},
             notify[r].pc \in {"rollback", "failed"} => notify'[r].pc \in {"rollback", "failed"}
      PROVE  Progress(r)
  BY <1>1 DEF Progress
<1>2. CASE NotifyRefused(r) \/ NotifyArrive(r) \/ SlackPosts(r) \/ PostAnswered(r) \/ PostFails(r)
  <2>1. mem' = mem /\ disk' = disk /\ comments' = comments
    BY <1>2 DEF NotifyRefused, NotifyArrive, SlackPosts, PostAnswered, PostFails
  <2>2. notify[r].pc \notin {"rollback", "failed"}
    BY <1>2 DEF NotifyRefused, NotifyArrive, SlackPosts, PostAnswered, PostFails
  <2>3. message'[r] \in {message[r], "buttons"}
    BY <1>0, <1>2 DEF NotifyRefused, NotifyArrive, SlackPosts, PostAnswered, PostFails
  <2> QED BY <1>1, <2>1, <2>2, <2>3
<1>3. CASE PutWritten(r) \/ PutFails(r) \/ SlackRefWritten(r) \/ SlackRefFails(r) \/ RollbackEnds(r)
  <2>1. /\ mem' = mem /\ disk'[r] \in {disk[r], mem[r]} /\ comments' = comments
        /\ message' = message
    BY <1>3 DEF PutWritten, PutFails, SlackRefWritten, SlackRefFails, RollbackEnds,
                Persist, PersistFails
  <2>2. /\ notify[r].pc \notin {"rollback", "failed"} \/ RollbackEnds(r)
    BY <1>0, <1>3, RequestTurn DEF PutWritten, PutFails, SlackRefWritten, SlackRefFails
  <2>3. RollbackEnds(r) => notify'[r].pc = "failed"
    BY <1>0 DEF RollbackEnds, NotifyGoto, Notify
  <2> QED BY <1>1, <2>1, <2>2, <2>3
<1>4. CASE PutRuns(r)
  <2>1. notify[r].pc = "putting" /\ ~writing
    BY <1>0, <1>4, RequestTurn DEF PutRuns, Runs
  <2>2. message[r] = "none" /\ mem[r].status # "processing"
    BY <1>0, <2>1 DEF NotifyInv
  <2>3. disk' = disk /\ notify' = notify /\ message' = message /\ comments' = comments
    BY <1>4 DEF PutRuns, Mutate
  <2> QED BY <2>1, <2>2, <2>3 DEF Progress
<1>5. CASE SlackRefRuns(r)
  <2>1. notify[r].pc = "recording" /\ ~writing
    BY <1>0, <1>5, RequestTurn DEF SlackRefRuns, Runs
  <2>2. Exists(mem[r])
    BY <1>0, <2>1 DEF NotifyInv
  <2>3. /\ disk' = disk /\ notify' = notify /\ message' = message /\ comments' = comments
        /\ mem'[r].status = mem[r].status /\ mem'[r].claim = mem[r].claim
    BY <1>0, <1>5 DEF SlackRefRuns, Mutate, Request
  <2> QED BY <2>1, <2>2, <2>3 DEF Progress
<1>6. CASE RollbackRuns(r)
  <2>1. ~writing
    BY <1>6 DEF RollbackRuns, Runs
  <2>2. /\ disk' = disk /\ notify' = notify /\ message' = message /\ comments' = comments
        /\ ~Exists(mem'[r])
    BY <1>0, <1>6 DEF RollbackRuns, Mutate, Exists, NoRequest
  <2> QED BY <2>1, <2>2 DEF Progress
<1> QED BY <1>2, <1>3, <1>4, <1>5, <1>6 DEF NotifyStep

\* So do the steps of a poll.
LEMMA PollProgress ==
  ASSUME IInv, TypeOK', NEW r \in Requests, PollArrive(r) \/ ExpireStep(r)
  PROVE  Progress(r)
<1> USE DEF store, handlers, outside
<1>0. TypeOK /\ ChainInv /\ mem \in [Requests -> Request]
  BY DEF IInv, TypeOK
<1>1. notify' = notify /\ message' = message /\ comments' = comments
  BY DEF PollArrive, ExpireStep, ExpireRuns, ExpireWritten, ExpireFails
<1>2. CASE PollArrive(r) \/ ExpireWritten(r) \/ ExpireFails(r)
  <2>1. mem' = mem /\ disk'[r] \in {disk[r], mem[r]}
    BY <1>2 DEF PollArrive, ExpireWritten, ExpireFails, Persist, PersistFails
  <2> QED BY <1>1, <2>1 DEF Progress
<1>3. CASE ExpireRuns(r)
  <2>1. ~writing /\ disk' = disk
    BY <1>3 DEF ExpireRuns, Runs, Mutate
  <2>2. mem'[r] = mem[r] \/ mem[r].status = "pending"
    BY <1>0, <1>3 DEF ExpireRuns, Mutate
  <2> QED BY <1>1, <2>1, <2>2 DEF Progress, Exists
<1> QED BY <1>2, <1>3 DEF ExpireStep

\* So does every step of a click, for the request it is about.
LEMMA ClickProgress ==
  ASSUME IInv, TypeOK', NEW c \in Clicks, ClickArrive(c) \/ ClickStep(c),
         NEW r \in Requests, r = click[c].requestId
  PROVE  Progress(r)
<1> USE DEF store, handlers, outside
<1>0. TypeOK /\ ChainInv /\ mem \in [Requests -> Request]
      /\ message \in [Requests -> {"none", "buttons"} \cup Decisions]
  BY DEF IInv, TypeOK
<1>1. notify' = notify
  BY DEF ClickArrive, ClickStep, ClaimRuns, ClaimWritten, ClaimFails, FinalizeRuns,
         FinalizeThrows, FinalizeWritten, FinalizeFails, PostComment, UpdateMessage, EffectFails
<1>2. CASE \/ ClickArrive(c) \/ ClaimWritten(c) \/ ClaimFails(c) \/ FinalizeThrows(c)
           \/ FinalizeWritten(c) \/ FinalizeFails(c) \/ EffectFails(c)
  <2>1. /\ mem' = mem /\ disk'[r] \in {disk[r], mem[r]}
        /\ message' = message /\ comments' = comments
    BY <1>2 DEF ClickArrive, ClaimWritten, ClaimFails, FinalizeThrows, FinalizeWritten,
                FinalizeFails, EffectFails, Persist, PersistFails
  <2> QED BY <1>1, <2>1 DEF Progress
<1>3. CASE PostComment(c)
  <2>1. mem' = mem /\ disk' = disk /\ message' = message
    BY <1>3 DEF PostComment
  <2> QED BY <1>1, <1>3, <2>1 DEF Progress
<1>4. CASE UpdateMessage(c)
  <2>1. mem' = mem /\ disk' = disk /\ comments' = comments
    BY <1>4 DEF UpdateMessage
  <2>2. message'[r] \in Decisions
    BY <1>0, <1>4, EffectSays DEF UpdateMessage
  <2> QED BY <1>1, <2>1, <2>2 DEF Progress, Decisions
<1>5. CASE ClaimRuns(c)
  <2>1. /\ ~writing /\ disk' = disk /\ message' = message /\ comments' = comments
    BY <1>5 DEF ClaimRuns, Runs, Mutate
  <2>2. mem'[r] = mem[r] \/ mem[r].status = "pending"
    BY <1>0, <1>5 DEF ClaimRuns, Mutate, ClaimOutcome
  <2> QED BY <1>1, <2>1, <2>2 DEF Progress, Exists
<1>6. CASE FinalizeRuns(c)
  <2>1. /\ ~writing /\ disk' = disk /\ message' = message /\ comments' = comments
        /\ mem[r].status = "processing"
    BY <1>6 DEF FinalizeRuns, Runs, Mutate, CanFinalize
  <2> QED BY <1>1, <1>6, <2>1 DEF Progress, Exists
<1> QED BY <1>2, <1>3, <1>4, <1>5, <1>6 DEF ClickStep

\* So does every step, but for a restart.
LEMMA ProgressStep ==
  ASSUME IInv, Next, ~Restart, TypeOK', NEW q \in Requests
  PROVE  Progress(q)
<1>1. CASE Tick
  BY <1>1, TickQuiet, QuietProgress
<1>2. ASSUME NEW r \in Requests, NotifyRefused(r) \/ NotifyArrive(r) \/ NotifyStep(r)
      PROVE  Progress(q)
  BY <1>2, NotifyQuiet, QuietProgress, NotifyProgress
<1>3. ASSUME NEW r \in Requests, PollArrive(r) \/ ExpireStep(r)
      PROVE  Progress(q)
  BY <1>3, PollQuiet, QuietProgress, PollProgress
<1>4. ASSUME NEW c \in Clicks, ClickArrive(c) \/ ClickStep(c)
      PROVE  Progress(q)
  BY <1>4, ClickQuiet, QuietProgress, ClickProgress
<1> QED BY <1>1, <1>2, <1>3, <1>4 DEF Next

\* A step that is not this click's moves neither its handler nor its update.
ClickStays(d) ==
  /\ click'[d] = click[d]
  /\ \A op \in {"claim", "finalize"} : Writes(op, d)' <=> Writes(op, d)
  /\ Writes("finalize", d) => disk' = disk
  /\ ~FinalizeRuns(d) /\ ~PostComment(d)

\* Such a click keeps the invariant: while its update is written nobody else changes
\* memory, and between two updates of its own nobody else decides the request.
LEMMA ClickKept ==
  ASSUME IInv, Next, ~Restart, TypeOK', NEW d \in Clicks, ClickStays(d)
  PROVE  ClickInv(d)'
<1>0. TypeOK /\ ChainInv /\ ClickInv(d)
  BY DEF IInv
<1>1. CASE click[d].pc = "idle"
  <2>1. ~Writes("claim", d) /\ ~Writes("finalize", d)
    BY <1>0, <1>1, ClickTurn
  <2> QED BY <1>0, <1>1, <2>1 DEF ClickStays, ClickInv, Decided
<1>2. ASSUME click[d].pc # "idle", NEW r \in Requests, r = click[d].requestId
      PROVE  ClickInv(d)'
  <2>0. /\ Progress(r) /\ StoreInv(r) /\ NotifyInv(r)
        /\ mem[r] \in Request /\ mem'[r] \in Request
        /\ click'[d] = click[d] /\ click'[d].requestId = r
    BY <1>2, ProgressStep DEF IInv, RequestInv, TypeOK, ClickStays
  <2>1. Winner(d) => \A c \in Clicks :
          FinalizeRuns(c) \/ PostComment(c) => click[c].requestId # r
    <3> SUFFICES ASSUME NEW c \in Clicks, FinalizeRuns(c) \/ PostComment(c), Winner(d),
                        click[c].requestId = r
                 PROVE  FALSE
      OBVIOUS
    <3>1. c # d
      BY DEF ClickStays
    <3>2. click[c].pc \in {"finalizing", "effects"} /\ ClickInv(c)
      BY <1>0, ClickTurn DEF IInv, FinalizeRuns, PostComment, Settled, ClickInv
    <3>3. Winner(c)
      BY <3>2 DEF Winner, ClickInv
    <3> QED BY <1>2, <3>1, <3>3 DEF IInv, OneWinner
  <2>2. click[d].pc = "claiming" /\ click[d].outcome # "none" => Writes("claim", d)'
    BY <1>0 DEF ClickInv, ClickStays
  <2>3. click[d].pc = "claiming" /\ click[d].outcome = "claimed" => HeldBy(mem[r], d)'
    BY <1>0, <1>2, <2>0 DEF ClickInv, Progress, Writes, HeldBy
  <2>4. Writes("finalize", d)' => (DecidedBy(mem[r], d) /\ HeldBy(disk[r], d))'
    BY <1>0, <1>2, <2>0 DEF ClickInv, Progress, Writes, HeldBy, DecidedBy, ClickStays
  <2>5. ASSUME click[d].pc = "finalizing", ~Writes("finalize", d)'
        PROVE  ~Exists(mem'[r]) \/ (HeldBy(mem[r], d) /\ HeldBy(disk[r], d))'
    <3>1. ~Exists(mem[r]) \/ (HeldBy(mem[r], d) /\ HeldBy(disk[r], d))
      BY <1>0, <1>2, <2>5 DEF ClickInv, ClickStays
    <3>2. message[r] # "none" /\ Winner(d)
      BY <1>0, <1>2, <2>5 DEF ClickInv, Winner
    <3>3. CASE ~Exists(mem[r])
      BY <2>0, <3>2, <3>3 DEF Progress
    <3>4. CASE HeldBy(mem[r], d) /\ HeldBy(disk[r], d)
      BY <2>0, <2>1, <3>2, <3>4 DEF Progress, HeldBy
    <3> QED BY <3>1, <3>3, <3>4
  <2>6. Decided(d)' => (DecidedBy(disk[r], d) \/ RolledBack(r))'
    <3>1. Decided(d)' => Decided(d)
      BY <2>0 DEF Decided
    <3>2. Decided(d) => DecidedBy(disk[r], d) \/ RolledBack(r)
      BY <1>0, <1>2 DEF ClickInv
    <3>3. DecidedBy(disk[r], d) => IsTerminal(disk[r])
      BY <1>0, <1>2, DecisionOfType DEF ClickInv, DecidedBy, IsTerminal
    <3>4. /\ IsTerminal(disk[r]) =>
                \/ disk'[r].status = disk[r].status /\ disk'[r].approver = disk[r].approver
                \/ RolledBack(r)'
          /\ RolledBack(r) => RolledBack(r)'
      BY <1>0, <2>0, DecisionKept DEF Progress
    <3> QED BY <2>0, <3>1, <3>2, <3>3, <3>4 DEF DecidedBy
  <2>7. "comment" \in click[d].effects => comments'[r] = <<>>
    <3>1. "comment" \in click[d].effects => Winner(d) /\ comments[r] = <<>>
      BY <1>0, <1>2 DEF ClickInv, Winner
    <3> QED BY <2>0, <2>1, <3>1 DEF Progress
  <2>8. click[d].pc \in {"claiming", "finalizing", "effects"} => message'[r] # "none"
    BY <1>0, <1>2, <2>0 DEF ClickInv, Progress
  <2> QED BY <1>0, <1>2, <2>0, <2>2, <2>3, <2>4, <2>5, <2>6, <2>7, <2>8 DEF ClickInv, DecidedBy
<1>3. click[d].pc # "idle" => click[d].requestId \in Requests
  BY <1>0 DEF ClickInv
<1> QED BY <1>1, <1>2, <1>3

\* A click stays in every step about somebody else's update or none.
LEMMA StaysByKind ==
  ASSUME IInv, TypeOK', NEW d \in Clicks, click'[d] = click[d], NEW job, NEW p,
         Asks \/ RunsOn(job, p) \/ Ends(job) \/ Throws(job),
         \A op \in {"claim", "finalize"} : job # [op |-> op, id |-> d]
  PROVE  ClickStays(d)
<1>0. TypeOK /\ ChainInv /\ ClickInv(d) /\ click \in [Clicks -> Click]
  BY DEF IInv, TypeOK
<1>1. \A op \in {"claim", "finalize"} : Writes(op, d)' <=> Writes(op, d)
  BY <1>0, WriterKept
<1>2. Writes("finalize", d) => disk' = disk
  BY DEF Asks, RunsOn, Ends, Throws, Writes
<1>3. ~FinalizeRuns(d)
  BY DEF FinalizeRuns, Runs, Mutate, Asks, RunsOn, Ends, Throws
<1>4. ~PostComment(d)
  <2> SUFFICES ASSUME PostComment(d) PROVE FALSE
    OBVIOUS
  <2>1. "comment" \in click[d].effects
    BY DEF PostComment, Settled
  <2>2. "comment" \notin click'[d].effects
    <3>1. click[d] \in Click
      BY <1>0
    <3>2. \/ click' = [click EXCEPT ![d].effects = click[d].effects \ {"comment"}]
          \/ ClickEnds(d, "done", click[d].outcome)
      BY DEF PostComment, Settled
    <3>3. CASE click' = [click EXCEPT ![d].effects = click[d].effects \ {"comment"}]
      BY <1>0, <3>1, <3>3 DEF Click
    <3>4. CASE ClickEnds(d, "done", click[d].outcome)
      <4>1. click'[d] = [click[d] EXCEPT !.pc = "done", !.outcome = click[d].outcome,
                                         !.request = NoRequest, !.effects = {}]
        BY <1>0, <3>4 DEF ClickEnds
      <4>2. click'[d].effects = {}
        BY <3>1, <4>1 DEF Click
      <4> QED BY <4>2
    <3> QED BY <3>2, <3>3, <3>4
  <2> QED BY <2>1, <2>2
<1> QED BY <1>1, <1>2, <1>3, <1>4 DEF ClickStays

\* Steps of requests leave every click where it is ...
LEMMA RequestStepStays ==
  ASSUME IInv, TypeOK', NEW d \in Clicks, NEW r \in Requests,
         \/ Tick
         \/ NotifyRefused(r) \/ NotifyArrive(r) \/ NotifyStep(r)
         \/ PollArrive(r) \/ ExpireStep(r)
  PROVE  ClickStays(d)
<1>0. TypeOK /\ ChainInv
  BY DEF IInv
<1>1. click' = click
  BY DEF Tick, NotifyRefused, NotifyArrive, NotifyStep, PutRuns, PutWritten, PutFails,
         SlackPosts, PostAnswered, PostFails, SlackRefRuns, SlackRefWritten, SlackRefFails,
         RollbackRuns, RollbackEnds, PollArrive, ExpireStep, ExpireRuns, ExpireWritten,
         ExpireFails, handlers
<1>2. PICK op \in {"put", "slackRef", "rollback", "expire"} :
        LET job == [op |-> op, id |-> r] IN Asks \/ RunsOn(job, r) \/ Ends(job)
  BY <1>0, TickAsks, NotifyKinds, PollKinds DEF NotifyStep, ExpireStep
<1> DEFINE job == [op |-> op, id |-> r]
<1>3. \A o \in {"claim", "finalize"} : job # [op |-> o, id |-> d]
  OBVIOUS
<1>4. Asks \/ RunsOn(job, r) \/ Ends(job)
  BY <1>2
<1> HIDE DEF job
<1> QED BY <1>1, <1>3, <1>4, StaysByKind

\* ... and so do steps of another click.
LEMMA ClickStepStays ==
  ASSUME IInv, TypeOK', NEW d \in Clicks, NEW c \in Clicks, c # d,
         ClickArrive(c) \/ ClickStep(c)
  PROVE  ClickStays(d)
<1>0. TypeOK /\ ChainInv /\ ClickInv(c) /\ click \in [Clicks -> Click]
  BY DEF IInv, TypeOK
<1>1. click'[d] = click[d]
  BY <1>0 DEF ClickArrive, ClickStep, ClaimRuns, ClaimWritten, ClaimFails, FinalizeRuns,
              FinalizeThrows, FinalizeWritten, FinalizeFails, PostComment, UpdateMessage,
              EffectFails, Settled, ClickEnds, handlers
<1>2. PICK op \in {"claim", "finalize"} :
        LET job == [op |-> op, id |-> c] IN
        Asks \/ Ends(job) \/ Throws(job) \/ RunsOn(job, click[c].requestId)
  BY <1>0, ClickKinds DEF ClickStep
<1> DEFINE job == [op |-> op, id |-> c]
<1>3. \A o \in {"claim", "finalize"} : job # [op |-> o, id |-> d]
  OBVIOUS
<1>4. Asks \/ Ends(job) \/ Throws(job) \/ RunsOn(job, click[c].requestId)
  BY <1>2
<1> HIDE DEF job
<1>5. PICK p : Asks \/ Ends(job) \/ Throws(job) \/ RunsOn(job, p)
  BY <1>4
<1> QED BY <1>1, <1>3, <1>5, StaysByKind

\* A click whose handler has nothing left to do satisfies the invariant if what it
\* decided is still there.
LEMMA ClickOver ==
  ASSUME NEW c \in Clicks, NEW r \in Requests, ClickInv(c),
         click[c].pc # "idle", r = click[c].requestId, ~Writes("finalize", c)',
         click'[c].pc \in {"done", "failed"}, click'[c].requestId = r,
         click'[c].userId = click[c].userId, click'[c].action = click[c].action,
         click'[c].effects = {},
         Decided(c)' => (DecidedBy(disk[r], c) \/ RolledBack(r))'
  PROVE  ClickInv(c)'
BY DEF ClickInv

\* The request of a click stays the same, and it wins only by claiming it.
KeepsWinning(c) ==
  Winner(c)' =>
    /\ click'[c].requestId = click[c].requestId
    /\ Winner(c) \/ (ClaimRuns(c) /\ mem[click[c].requestId].status = "pending")

\* A click arrives.
LEMMA ArriveClick ==
  ASSUME IInv, TypeOK', NEW c \in Clicks, ClickArrive(c)
  PROVE  ClickInv(c)' /\ KeepsWinning(c)
<1> USE DEF store, handlers, outside
<1>0. TypeOK /\ ChainInv /\ click \in [Clicks -> Click] /\ Asks /\ click[c].pc = "idle"
  BY ClickKinds DEF IInv, TypeOK, ClickArrive
<1>1. ~Writes("finalize", c)'
  <2>1. ~Writes("finalize", c)
    BY <1>0, ClickTurn
  <2> QED BY <1>0, <2>1, WriterKept
<1>2. PICK r \in Requests, u \in Users, a \in Actions :
        /\ message[r] # "none"
        /\ LET cl == [IdleClick EXCEPT !.requestId = r, !.userId = u, !.action = a] IN
           IF Authorized(r, u)
           THEN /\ click' = [click EXCEPT ![c] = [cl EXCEPT !.pc = "claiming"]]
                /\ Update("claim", c)
           ELSE /\ click' = [click EXCEPT ![c] =
                     [cl EXCEPT !.pc = "done", !.outcome = "unauthorized"]]
                /\ UNCHANGED chain
  BY DEF ClickArrive
<1>3. message' = message
  BY DEF ClickArrive
<1>4. CASE Authorized(r, u)
  <2>1. /\ click'[c].pc = "claiming" /\ click'[c].requestId = r /\ click'[c].userId = u
        /\ click'[c].action = a /\ click'[c].outcome = "none" /\ click'[c].effects = {}
    BY <1>0, <1>2, <1>4 DEF IdleClick
  <2>2. IsAuthorizedApprover(u, RepoOf[r])
    BY <1>4 DEF Authorized
  <2> QED BY <1>1, <1>2, <1>3, <2>1, <2>2 DEF ClickInv, Decided, KeepsWinning, Winner
<1>5. CASE ~Authorized(r, u)
  <2>1. /\ click'[c].pc = "done" /\ click'[c].requestId = r /\ click'[c].userId = u
        /\ click'[c].action = a /\ click'[c].outcome = "unauthorized"
        /\ click'[c].effects = {}
    BY <1>0, <1>2, <1>5 DEF IdleClick
  <2> QED BY <1>1, <1>2, <1>3, <2>1 DEF ClickInv, Decided, KeepsWinning, Winner
<1> QED BY <1>4, <1>5

\* It claims, or finds that it cannot.
LEMMA ClaimClick ==
  ASSUME IInv, TypeOK', NEW c \in Clicks,
         ClaimRuns(c) \/ ClaimWritten(c) \/ ClaimFails(c)
  PROVE  ClickInv(c)' /\ KeepsWinning(c)
<1> USE DEF store, handlers, outside
<1>0. /\ TypeOK /\ ChainInv /\ ClickInv(c) /\ click \in [Clicks -> Click] /\ click[c] \in Click
      /\ click[c].pc = "claiming" /\ mem \in [Requests -> Request]
  BY ClickTurn DEF IInv, TypeOK, ClaimRuns, ClaimWritten, ClaimFails
<1>1. PICK r \in Requests :
        /\ r = click[c].requestId /\ click[c].userId \in Users /\ click[c].action \in Actions
        /\ message[r] # "none" /\ IsAuthorizedApprover(click[c].userId, RepoOf[r])
        /\ click[c].effects = {}
  BY <1>0 DEF ClickInv
<1>2. message' = message
  BY DEF ClaimRuns, ClaimWritten, ClaimFails
<1>3. CASE ClaimRuns(c)
  <2>1. RunsOn([op |-> "claim", id |-> c], r)
    BY <1>0, <1>1, <1>3, ClickKinds
  <2>2. Writes("claim", c)' /\ ~Writes("finalize", c)'
    BY <2>1 DEF RunsOn, Writes
  <2>3. /\ click'[c].pc = "claiming" /\ click'[c].requestId = r
        /\ click'[c].userId = click[c].userId /\ click'[c].action = click[c].action
        /\ click'[c].outcome = ClaimOutcome(mem[r], now) /\ click'[c].effects = {}
    BY <1>0, <1>1, <1>3 DEF ClaimRuns, Click
  <2>4. ClaimOutcome(mem[r], now) = "claimed" =>
          /\ mem[r].status = "pending"
          /\ mem'[r] = ClaimedRequest(mem[r], click[c].action, click[c].userId)
    BY <1>0, <1>1, <1>3 DEF ClaimRuns, Mutate, ClaimOutcome
  <2>5. ClaimOutcome(mem[r], now) = "claimed" => HeldBy(mem[r], c)'
    <3>1. mem[r] \in Request
      BY <1>0
    <3> QED BY <2>3, <2>4, <3>1 DEF HeldBy, ClaimedRequest, Request
  <2>6. ClickInv(c)'
    BY <1>1, <1>2, <2>2, <2>3, <2>5 DEF ClickInv, Decided
  <2>7. KeepsWinning(c)
    BY <1>1, <1>3, <2>3, <2>4 DEF KeepsWinning, Winner
  <2> QED BY <2>6, <2>7
<1>4. CASE ClaimWritten(c) /\ click[c].outcome = "claimed"
  <2>1. Writes("claim", c) /\ ~writing' /\ mem' = mem /\ disk' = mem
    BY <1>4 DEF ClaimWritten, Persist
  <2>2. /\ click'[c].pc = "finalizing" /\ click'[c].requestId = r
        /\ click'[c].userId = click[c].userId /\ click'[c].action = click[c].action
        /\ click'[c].outcome = "claimed" /\ click'[c].effects = {}
    BY <1>0, <1>1, <1>4 DEF ClaimWritten, Click
  <2>3. HeldBy(mem[r], c)
    BY <1>0, <1>1, <1>4 DEF ClickInv
  <2>4. (HeldBy(mem[r], c) /\ HeldBy(disk[r], c))'
    BY <2>1, <2>2, <2>3 DEF HeldBy
  <2>5. ~Writes("finalize", c)'
    BY <2>1 DEF Writes
  <2>6. ClickInv(c)'
    BY <1>1, <1>2, <2>2, <2>4, <2>5 DEF ClickInv, Decided
  <2>7. KeepsWinning(c)
    BY <1>0, <1>1, <1>4, <2>2 DEF KeepsWinning, Winner
  <2> QED BY <2>6, <2>7
<1>5. CASE (ClaimWritten(c) /\ click[c].outcome # "claimed") \/ ClaimFails(c)
  <2>1. ~writing' 
    BY <1>5 DEF ClaimWritten, ClaimFails, Persist, PersistFails
  <2>2. \E pc \in {"done", "failed"} :
          /\ click' = [click EXCEPT ![c].pc = pc]
          /\ pc = "done" => click[c].outcome # "claimed"
    BY <1>5 DEF ClaimWritten, ClaimFails
  <2>3. /\ click'[c].pc \in {"done", "failed"} /\ click'[c].requestId = r
        /\ click'[c].userId = click[c].userId /\ click'[c].action = click[c].action
        /\ click'[c].effects = {}
        /\ click'[c].pc = "done" => click'[c].outcome # "claimed"
    BY <1>0, <1>1, <2>2 DEF Click
  <2>4. ~Writes("finalize", c)'
    BY <2>1 DEF Writes
  <2>5. ~Decided(c)' /\ ~Winner(c)'
    BY <2>3 DEF Decided, Winner
  <2>6. ClickInv(c)'
    BY <1>0, <1>1, <2>3, <2>4, <2>5, ClickOver
  <2> QED BY <2>5, <2>6 DEF KeepsWinning
<1> QED BY <1>3, <1>4, <1>5

\* A sequence of at most one element, and not of one, is empty.
LEMMA ShortSequence ==
  ASSUME NEW S, NEW s \in Seq(S), Len(s) =< 1, Len(s) # 1
  PROVE  s = <<>>
<1>1. s # <<>> => Len(s) \in Nat \ {0}
  BY EmptySeq
<1>2. \A n \in Nat \ {0} : n =< 1 => n = 1
  OBVIOUS
<1> QED BY <1>1, <1>2

\* The claimant finalizes, or fails.
LEMMA FinalizeClick ==
  ASSUME IInv, TypeOK', NEW c \in Clicks,
         FinalizeRuns(c) \/ FinalizeThrows(c) \/ FinalizeWritten(c) \/ FinalizeFails(c)
  PROVE  ClickInv(c)' /\ KeepsWinning(c)
<1> USE DEF store, handlers, outside
<1>0. /\ TypeOK /\ ChainInv /\ ClickInv(c) /\ click \in [Clicks -> Click] /\ click[c] \in Click
      /\ click[c].pc = "finalizing" /\ mem \in [Requests -> Request]
  BY ClickTurn DEF IInv, TypeOK, FinalizeRuns, FinalizeThrows, FinalizeWritten, FinalizeFails
<1>1. PICK r \in Requests :
        /\ r = click[c].requestId /\ click[c].userId \in Users /\ click[c].action \in Actions
        /\ message[r] # "none" /\ IsAuthorizedApprover(click[c].userId, RepoOf[r])
        /\ click[c].effects = {} /\ click[c].outcome = "claimed"
  BY <1>0 DEF ClickInv
<1>2. message' = message /\ comments' = comments
  BY DEF FinalizeRuns, FinalizeThrows, FinalizeWritten, FinalizeFails
<1>3. DecisionOf(click[c].action) \in Decisions /\ Winner(c)
  BY <1>0, <1>1, DecisionOfType DEF Winner
<1>4. CASE FinalizeRuns(c)
  <2>1. RunsOn([op |-> "finalize", id |-> c], r) /\ click' = click
    BY <1>0, <1>1, <1>4, ClickKinds DEF FinalizeRuns
  <2>2. Writes("finalize", c)'
    BY <2>1 DEF RunsOn, Writes
  <2>3. HeldBy(mem[r], c) /\ HeldBy(disk[r], c)
    BY <1>1, <1>4, FinalizeHolds
  <2>4. (DecidedBy(mem[r], c) /\ HeldBy(disk[r], c))'
    <3>1. mem'[r] = FinalizedRequest(mem[r]) /\ mem[r] \in Request /\ disk' = disk
      BY <1>0, <1>1, <1>4 DEF FinalizeRuns, Mutate
    <3>2. mem'[r].status = mem[r].claim.decision /\ mem'[r].approver = mem[r].claim.userId
      BY <3>1 DEF FinalizedRequest, Request
    <3> QED BY <2>1, <2>3, <3>1, <3>2 DEF HeldBy, DecidedBy
  <2> QED BY <1>0, <1>1, <1>2, <1>3, <2>1, <2>2, <2>4 DEF ClickInv, Decided, KeepsWinning
<1>5. CASE FinalizeThrows(c) \/ FinalizeFails(c)
  <2>1. ~writing'
    BY <1>5 DEF FinalizeThrows, FinalizeFails, PersistFails, Runs
  <2>2. /\ click'[c].pc = "failed" /\ click'[c].requestId = r
        /\ click'[c].userId = click[c].userId /\ click'[c].action = click[c].action
        /\ click'[c].effects = {}
    BY <1>0, <1>1, <1>5 DEF FinalizeThrows, FinalizeFails, Click
  <2>3. ~Writes("finalize", c)'
    BY <2>1 DEF Writes
  <2>4. ~Decided(c)' /\ ~Winner(c)'
    BY <2>2 DEF Decided, Winner
  <2>5. ClickInv(c)'
    BY <1>0, <1>1, <2>2, <2>3, <2>4, ClickOver
  <2> QED BY <2>4, <2>5 DEF KeepsWinning
<1>6. CASE FinalizeWritten(c)
  <2>1. Writes("finalize", c) /\ ~writing' /\ mem' = mem /\ disk' = mem
    BY <1>6 DEF FinalizeWritten, Persist
  <2>2. DecidedBy(mem[r], c) /\ HeldBy(disk[r], c)
    BY <1>0, <1>1, <2>1 DEF ClickInv
  <2>3. ~Writes("finalize", c)'
    BY <2>1 DEF Writes
  <2>4. CASE mem[r].slack
    <3>1. /\ click'[c].pc = "effects" /\ click'[c].requestId = r
          /\ click'[c].userId = click[c].userId /\ click'[c].action = click[c].action
          /\ click'[c].outcome = "claimed" /\ click'[c].request = mem[r]
          /\ click'[c].effects = {"comment", "update"}
      BY <1>0, <1>1, <1>6, <2>4 DEF FinalizeWritten, Click
    <3>2. mem[r].claim = NoClaim
      BY <1>3, <2>2 DEF IInv, RequestInv, StoreInv, Stored, DecidedBy, Decisions
    <3>3. comments[r] = <<>>
      <4>1. ~IsDecided(disk[r]) /\ ~RolledBack(r)
        BY <2>2 DEF HeldBy, IsDecided, RolledBack, Exists, Decisions
      <4>2. comments[r] \in Seq(Claim) /\ Len(comments[r]) # 1 /\ Len(comments[r]) =< 1
        BY <1>0, <4>1 DEF IInv, RequestInv, PublishedInv, TypeOK
      <4> QED BY <4>2, ShortSequence
    <3>4. DecidedBy(disk[r], c)'
      BY <2>1, <2>2, <3>1 DEF DecidedBy
    <3>5. (DecidedBy(click[c].request, c) /\ click[c].request.claim = NoClaim)'
      BY <2>2, <3>1, <3>2 DEF DecidedBy
    <3> QED BY <1>1, <1>2, <1>3, <2>3, <3>1, <3>3, <3>4, <3>5 DEF ClickInv, KeepsWinning
  <2>5. CASE ~mem[r].slack
    <3>1. /\ click'[c].pc = "done" /\ click'[c].requestId = r
          /\ click'[c].userId = click[c].userId /\ click'[c].action = click[c].action
          /\ click'[c].effects = {}
      BY <1>0, <1>1, <1>6, <2>5 DEF FinalizeWritten, Click
    <3>2. DecidedBy(disk[r], c)'
      BY <2>1, <2>2, <3>1 DEF DecidedBy
    <3>3. ClickInv(c)'
      BY <1>0, <1>1, <2>3, <3>1, <3>2, ClickOver
    <3> QED BY <1>1, <1>3, <3>1, <3>3 DEF KeepsWinning
  <2> QED BY <2>4, <2>5
<1> QED BY <1>4, <1>5, <1>6

\* Its handler publishes the decision, or fails to.
LEMMA EffectClick ==
  ASSUME IInv, TypeOK', NEW c \in Clicks,
         PostComment(c) \/ UpdateMessage(c) \/ EffectFails(c)
  PROVE  ClickInv(c)' /\ KeepsWinning(c)
<1> USE DEF store, handlers, outside
<1>0. /\ TypeOK /\ ChainInv /\ ClickInv(c) /\ click \in [Clicks -> Click] /\ click[c] \in Click
      /\ Asks
  BY ClickKinds DEF IInv, TypeOK
<1>1. PICK effect \in {"comment", "update"} :
        /\ Settled(c, effect)
        /\ comments' # comments => PostComment(c) /\ effect = "comment"
  BY DEF PostComment, UpdateMessage, EffectFails
<1>2. click[c].pc = "effects" /\ effect \in click[c].effects
  BY <1>0, <1>1 DEF ClickInv, Settled
<1>3. PICK r \in Requests :
        /\ r = click[c].requestId /\ click[c].userId \in Users /\ click[c].action \in Actions
        /\ message[r] # "none" /\ IsAuthorizedApprover(click[c].userId, RepoOf[r])
        /\ click[c].outcome = "claimed"
  BY <1>0, <1>2 DEF ClickInv
<1>4. /\ Decided(c) /\ Winner(c)
      /\ DecidedBy(disk[r], c) \/ RolledBack(r)
  BY <1>0, <1>2, <1>3 DEF ClickInv, Decided, Winner
<1>5. disk' = disk /\ notify' = notify /\ message'[r] # "none"
  <2>1. CASE UpdateMessage(c)
    <3>1. click[c].request.status \in Decisions
      BY <1>1, <1>3, EffectSays
    <3>2. message' = [message EXCEPT ![r] = click[c].request.status]
      BY <1>3, <2>1 DEF UpdateMessage
    <3> QED BY <1>0, <2>1, <3>1, <3>2 DEF UpdateMessage, Decisions, TypeOK
  <2> QED BY <1>3, <2>1 DEF PostComment, EffectFails
<1>6. ~Writes("finalize", c)'
  <2>1. ~Writes("finalize", c)
    BY <1>0, <1>2, ClickTurn
  <2> QED BY <1>0, <2>1, WriterKept
<1>7. CASE click[c].effects \ {effect} = {}
  <2>1. /\ click'[c].pc = "done" /\ click'[c].requestId = r
        /\ click'[c].userId = click[c].userId /\ click'[c].action = click[c].action
        /\ click'[c].effects = {}
    <3>1. ClickEnds(c, "done", click[c].outcome)
      BY <1>1, <1>7 DEF Settled
    <3> QED BY <1>0, <1>3, <3>1 DEF ClickEnds, Click
  <2>2. (DecidedBy(disk[r], c) \/ RolledBack(r))'
    BY <1>4, <1>5, <2>1 DEF DecidedBy, RolledBack
  <2>3. ClickInv(c)'
    BY <1>0, <1>2, <1>3, <1>6, <2>1, <2>2, ClickOver
  <2> QED BY <1>3, <1>4, <2>1, <2>3 DEF KeepsWinning
<1>8. CASE click[c].effects \ {effect} # {}
  <2>1. /\ click'[c].pc = "effects" /\ click'[c].requestId = r
        /\ click'[c].userId = click[c].userId /\ click'[c].action = click[c].action
        /\ click'[c].outcome = "claimed" /\ click'[c].request = click[c].request
        /\ click'[c].effects = click[c].effects \ {effect}
    BY <1>0, <1>1, <1>2, <1>3, <1>8 DEF Settled, Click
  <2>2. (DecidedBy(disk[r], c) \/ RolledBack(r))'
    BY <1>4, <1>5, <2>1 DEF DecidedBy, RolledBack
  <2>3. (DecidedBy(click[c].request, c) /\ click[c].request.claim = NoClaim)'
    BY <1>0, <1>2, <2>1 DEF ClickInv, DecidedBy
  <2>4. "comment" \in click'[c].effects => comments'[r] = <<>>
    BY <1>0, <1>1, <1>3, <2>1 DEF ClickInv
  <2>5. ClickInv(c)'
    BY <1>3, <1>5, <1>6, <2>1, <2>2, <2>3, <2>4 DEF ClickInv, Decided
  <2> QED BY <1>3, <1>4, <2>1, <2>5 DEF KeepsWinning
<1> QED BY <1>7, <1>8

\* Whatever this click does, it keeps its invariant.
LEMMA ClickMove ==
  ASSUME IInv, TypeOK', NEW c \in Clicks, ClickArrive(c) \/ ClickStep(c)
  PROVE  ClickInv(c)' /\ KeepsWinning(c)
BY ArriveClick, ClaimClick, FinalizeClick, EffectClick DEF ClickStep

\* A restart ends the handlers that were under way; a decision stays made.
LEMMA RestartClick ==
  ASSUME IInv, TypeOK', NEW c \in Clicks, Restart
  PROVE  ClickInv(c)' /\ KeepsWinning(c)
<1> USE DEF outside
<1>0. /\ TypeOK /\ ClickInv(c) /\ click \in [Clicks -> Click] /\ click[c] \in Click
      /\ notify \in [Requests -> Notify] /\ ~Writes("finalize", c)' /\ ~Writes("claim", c)'
  BY DEF IInv, TypeOK, Restart, Writes
<1>1. CASE click[c].pc \in {"claiming", "finalizing", "effects"}
  <2>1. PICK r \in Requests : r = click[c].requestId
    BY <1>0, <1>1 DEF ClickInv
  <2>2. /\ click'[c].pc = "failed" /\ click'[c].requestId = r
        /\ click'[c].userId = click[c].userId /\ click'[c].action = click[c].action
        /\ click'[c].effects = {}
    BY <1>0, <1>1, <2>1 DEF Restart, Click
  <2>3. ~Decided(c)' /\ ~Winner(c)'
    BY <2>2 DEF Decided, Winner
  <2>4. ClickInv(c)'
    BY <1>0, <1>1, <2>1, <2>2, <2>3, ClickOver
  <2> QED BY <2>3, <2>4 DEF KeepsWinning
<1>2. CASE click[c].pc \in {"done", "failed"}
  <2>1. PICK r \in Requests : r = click[c].requestId
    BY <1>0, <1>2 DEF ClickInv
  <2>2. click'[c] = click[c] /\ click[c].effects = {}
    BY <1>0, <1>2 DEF Restart, ClickInv
  <2>3. Decided(c)' => (DecidedBy(disk[r], c) \/ RolledBack(r))'
    <3> SUFFICES ASSUME Decided(c)'
                 PROVE  (DecidedBy(disk[r], c) \/ RolledBack(r))'
      OBVIOUS
    <3>1. Decided(c)
      BY <2>2 DEF Decided
    <3>2. DecidedBy(disk[r], c) \/ RolledBack(r)
      BY <1>0, <2>1, <3>1 DEF ClickInv
    <3>3. disk'[r] \in {disk[r], mem[r]}
      BY DEF Restart
    <3>4. notify[r].pc \in {"rollback", "failed"} => notify'[r].pc \in {"rollback", "failed"}
      BY <1>0 DEF Restart, Notify
    <3>5. /\ IsTerminal(disk[r]) =>
              \/ disk'[r].status = disk[r].status /\ disk'[r].approver = disk[r].approver
              \/ RolledBack(r)'
          /\ RolledBack(r) => RolledBack(r)'
      BY <1>0, <3>3, <3>4, DecisionKept DEF IInv, RequestInv
    <3>6. DecidedBy(disk[r], c) => IsTerminal(disk[r])
      <4>1. DecisionOf(click[c].action) \in Decisions
        BY <1>0, <1>2, DecisionOfType DEF ClickInv
      <4> QED BY <4>1 DEF DecidedBy, IsTerminal
    <3> QED BY <2>2, <3>2, <3>5, <3>6 DEF DecidedBy
  <2>4. ClickInv(c)'
    BY <1>0, <1>2, <2>1, <2>2, <2>3, ClickOver
  <2> QED BY <2>2, <2>4 DEF KeepsWinning, Winner
<1>3. CASE click[c].pc = "idle"
  <2>1. click'[c] = click[c]
    BY <1>3 DEF Restart
  <2>2. click[c].outcome = "none" /\ click[c].effects = {}
    BY <1>0, <1>3 DEF ClickInv
  <2> QED BY <1>0, <1>3, <2>1, <2>2 DEF ClickInv, Decided, Winner, KeepsWinning
<1> QED BY <1>0, <1>1, <1>2, <1>3 DEF Click

\* Every click keeps its part of the invariant.
LEMMA ClickEach ==
  ASSUME IInv, Next, TypeOK', NEW d \in Clicks
  PROVE  ClickInv(d)' /\ KeepsWinning(d)
<1>1. CASE Restart
  BY <1>1, RestartClick
<1>2. CASE ClickArrive(d) \/ ClickStep(d)
  BY <1>2, ClickMove
<1>3. CASE ~Restart /\ ~(ClickArrive(d) \/ ClickStep(d))
  <2>1. ClickStays(d)
    <3>1. CASE Tick
      <4>1. Tick => Asks
        BY TickAsks
      <4>2. click' = click
        BY <3>1 DEF Tick, handlers
      <4> DEFINE job == [op |-> "none", id |-> d]
      <4>3. \A o \in {"claim", "finalize"} : job # [op |-> o, id |-> d]
        OBVIOUS
      <4> HIDE DEF job
      <4> QED BY <3>1, <4>1, <4>2, <4>3, StaysByKind
    <3>2. ASSUME NEW r \in Requests,
                 \/ NotifyRefused(r) \/ NotifyArrive(r) \/ NotifyStep(r)
                 \/ PollArrive(r) \/ ExpireStep(r)
          PROVE  ClickStays(d)
      BY <3>2, RequestStepStays
    <3>3. ASSUME NEW c \in Clicks, ClickArrive(c) \/ ClickStep(c) PROVE ClickStays(d)
      <4>1. c # d
        BY <1>3, <3>3
      <4> QED BY <3>3, <4>1, ClickStepStays
    <3> QED BY <1>3, <3>1, <3>2, <3>3 DEF Next
  <2>2. ClickInv(d)'
    BY <1>3, <2>1, ClickKept
  <2> QED BY <2>1, <2>2 DEF ClickStays, KeepsWinning, Winner
<1> QED BY <1>1, <1>2, <1>3

\* Every step keeps the queue and the handlers together.
LEMMA ChainStep ==
  ASSUME IInv, Next
  PROVE  ChainInv'
<1>0. TypeOK /\ ChainInv
  BY DEF IInv
<1>1. CASE Restart
  BY <1>1, RestartChain
<1>2. CASE Tick
  BY <1>0, <1>2, TickAsks, ChainKept
<1>3. ASSUME NEW r \in Requests,
             \/ NotifyRefused(r) \/ NotifyArrive(r) \/ NotifyStep(r)
             \/ PollArrive(r) \/ ExpireStep(r)
      PROVE  ChainInv'
  <2>1. PICK op \in {"put", "slackRef", "rollback", "expire"} :
          LET job == [op |-> op, id |-> r] IN Asks \/ Ends(job) \/ RunsOn(job, r)
    BY <1>0, <1>3, NotifyKinds, PollKinds DEF NotifyStep, ExpireStep
  <2> QED BY <1>0, <2>1, ChainKept
<1>4. ASSUME NEW c \in Clicks, ClickArrive(c) \/ ClickStep(c)
      PROVE  ChainInv'
  <2>0. ClickInv(c)
    BY DEF IInv
  <2>1. PICK op \in {"claim", "finalize"} :
          LET job == [op |-> op, id |-> c] IN
          Asks \/ Ends(job) \/ Throws(job) \/ RunsOn(job, click[c].requestId)
    BY <1>0, <1>4, <2>0, ClickKinds DEF ClickStep
  <2>2. PICK p : LET job == [op |-> op, id |-> c] IN
          Asks \/ Ends(job) \/ Throws(job) \/ RunsOn(job, p)
    BY <2>1
  <2> QED BY <1>0, <2>2, ChainKept
<1> QED BY <1>1, <1>2, <1>3, <1>4 DEF Next

\* While no update is written, a request that a click won is not pending in memory:
\* it is claimed, decided or gone.
LEMMA WonIsNotPending ==
  ASSUME IInv, NEW d \in Clicks, Winner(d), ~writing,
         NEW r \in Requests, r = click[d].requestId
  PROVE  mem[r].status # "pending"
<1>0. /\ ClickInv(d) /\ StoreInv(r) /\ NotifyInv(r)
      /\ click[d].outcome = "claimed" /\ ~Writes("claim", d) /\ ~Writes("finalize", d)
  BY DEF IInv, RequestInv, Winner, Writes
<1>1. CASE click[d].pc = "claiming"
  BY <1>0, <1>1 DEF ClickInv
<1>2. CASE click[d].pc = "finalizing"
  BY <1>0, <1>2 DEF ClickInv, HeldBy, Exists
<1>3. CASE click[d].pc \in {"effects", "done"}
  <2>1. DecidedBy(disk[r], d) \/ RolledBack(r)
    BY <1>0, <1>3 DEF ClickInv, Decided
  <2>2. CASE DecidedBy(disk[r], d)
    <3>1. DecisionOf(click[d].action) \in Decisions
      BY <1>0, <1>3, DecisionOfType DEF ClickInv
    <3>2. disk[r].status \in Decisions
      BY <2>2, <3>1 DEF DecidedBy
    <3>3. ~Exists(mem[r]) \/ mem[r].status = disk[r].status
      BY <1>0, <3>2 DEF StoreInv, Follows, IsTerminal
    <3> QED BY <3>2, <3>3 DEF Exists, Decisions
  <2>3. CASE RolledBack(r)
    BY <1>0, <2>3 DEF RolledBack, NotifyInv, Exists
  <2> QED BY <2>1, <2>2, <2>3
<1> QED BY <1>1, <1>2, <1>3 DEF Winner

\* So no second click wins.
LEMMA WinnerStep ==
  ASSUME IInv, Next, TypeOK'
  PROVE  OneWinner'
<1> SUFFICES ASSUME NEW c \in Clicks, NEW d \in Clicks, Winner(c)', Winner(d)',
                    click'[c].requestId = click'[d].requestId
             PROVE  c = d
  BY DEF OneWinner
<1>1. KeepsWinning(c) /\ KeepsWinning(d)
  BY ClickEach
<1>2. click[c].requestId = click[d].requestId
  BY <1>1 DEF KeepsWinning
<1>3. CASE Winner(c) /\ Winner(d)
  BY <1>2, <1>3 DEF IInv, OneWinner
<1>4. ASSUME NEW b \in Clicks, NEW e \in Clicks, Winner(e),
             ClaimRuns(b), mem[click[b].requestId].status = "pending",
             click[b].requestId = click[e].requestId
      PROVE  FALSE
  <2>1. ~writing
    BY <1>4 DEF ClaimRuns, Runs
  <2>2. PICK r \in Requests : r = click[e].requestId
    BY <1>4 DEF IInv, ClickInv, Winner
  <2> QED BY <1>4, <2>1, <2>2, WonIsNotPending
<1>5. CASE ClaimRuns(c) /\ ClaimRuns(d)
  BY <1>5 DEF ClaimRuns, Runs
<1> QED BY <1>1, <1>2, <1>3, <1>4, <1>5 DEF KeepsWinning

-----------------------------------------------------------------------------
(* The invariant, and what follows from it *)

\* The invariant holds at the start.
LEMMA InitInv == Init => IInv
<1> SUFFICES ASSUME Init PROVE IInv
  OBVIOUS
<1>1. TypeOK
  <2>1. IdleNotify \in Notify
    BY NoRequestType DEF IdleNotify, Notify, NotifyPcs
  <2>2. IdleClick \in Click
    BY NoRequestType DEF IdleClick, Click
  <2>3. 0 \in 0..MaxTime
    BY ExpressAssumption
  <2>4. notify \in [Requests -> Notify] /\ click \in [Clicks -> Click]
    BY <2>1, <2>2 DEF Init
  <2>5. mem \in [Requests -> Request] /\ disk \in [Requests -> Request]
    BY NoRequestType DEF Init
  <2>6. <<>> \in Seq(Job) /\ <<>> \in Seq(Claim)
    BY EmptySeq
  <2> QED BY <2>3, <2>4, <2>5, <2>6 DEF Init, TypeOK
<1>2. ChainInv
  BY DEF Init, ChainInv, NoRepeats, QueuedIn
<1>3. ASSUME NEW r \in Requests PROVE RequestInv(r)
  <2>1. /\ mem[r] = NoRequest /\ disk[r] = NoRequest /\ message[r] = "none"
        /\ comments[r] = <<>> /\ notify[r].pc = "idle" /\ poll[r] = "idle"
        /\ told[r] = "none" /\ ~writing
    BY DEF Init, IdleNotify
  <2>2. StoreInv(r)
    BY <2>1, NoUserAssumption
       DEF StoreInv, Stored, Follows, NoRequest, IsDecided, IsTerminal, Exists, Decisions
  <2>3. WritingInv(r)
    BY <2>1 DEF WritingInv, Writes
  <2>4. NotifyInv(r)
    <3>1. ~Exists(mem[r]) /\ ~Exists(disk[r]) /\ mem[r].status = "absent"
          /\ disk[r].status = "absent"
      BY <2>1 DEF NoRequest, Exists
    <3> QED BY <2>1, <3>1 DEF NotifyInv
  <2>5. PollInv(r) /\ ToldInv(r)
    BY <2>1 DEF PollInv, ToldInv, Bears, Decisions
  <2>6. PublishedInv(r)
    BY <2>1 DEF PublishedInv, Decisions
  <2> QED BY <2>2, <2>3, <2>4, <2>5, <2>6 DEF RequestInv
<1>4. ASSUME NEW c \in Clicks PROVE ClickInv(c) /\ ~Winner(c)
  <2>1. /\ click[c].pc = "idle" /\ click[c].outcome = "none" /\ click[c].effects = {}
        /\ ~writing
    BY DEF Init, IdleClick
  <2> QED BY <2>1 DEF ClickInv, Winner, Decided, Writes
<1> QED BY <1>1, <1>2, <1>3, <1>4 DEF IInv, OneWinner

\* Every step keeps it.
LEMMA NextInv == IInv /\ [Next]_vars => IInv'
<1> SUFFICES ASSUME IInv, [Next]_vars PROVE IInv'
  OBVIOUS
<1>1. CASE Next
  <2>1. TypeOK'
    BY <1>1, TypeStep
  <2>2. ChainInv'
    BY <1>1, ChainStep
  <2>3. \A r \in Requests : RequestInv(r)'
    BY <1>1, <2>1, RequestStep
  <2>4. \A c \in Clicks : ClickInv(c)'
    BY <1>1, <2>1, ClickEach
  <2>5. OneWinner'
    BY <1>1, <2>1, WinnerStep
  <2> QED BY <2>1, <2>2, <2>3, <2>4, <2>5 DEF IInv
<1>2. CASE UNCHANGED vars
  <2> USE <1>2 DEF vars
  <2>1. TypeOK'
    BY DEF IInv, TypeOK
  <2>2. ChainInv'
    BY DEF IInv, ChainInv, Waits
  <2>3. ASSUME NEW r \in Requests PROVE RequestInv(r)'
    BY DEF IInv, RequestInv, StoreInv, WritingInv, NotifyInv, PollInv, ToldInv, PublishedInv,
           Writes, RolledBack
  <2>4. ASSUME NEW c \in Clicks PROVE ClickInv(c)'
    BY DEF IInv, ClickInv, Writes, HeldBy, DecidedBy, Decided, RolledBack
  <2>5. OneWinner'
    BY DEF IInv, OneWinner, Winner
  <2> QED BY <2>1, <2>2, <2>3, <2>4, <2>5 DEF IInv
<1> QED BY <1>1, <1>2

\* It always holds.
THEOREM Invariance == Spec => []IInv
BY InitInv, NextInv, PTL DEF Spec

\* Every variable keeps its type, through crashes and failed writes.
THEOREM TypeCorrect == Spec => []TypeOK
BY Invariance, PTL DEF IInv

\* CI is never told an end that memory contradicts later, although it reads memory
\* and a crash or a failed write leaves memory ahead of the file.
THEOREM CIIsNotMisled == Spec => []CINotMisled
<1>1. IInv => CINotMisled
  BY DEF IInv, RequestInv, ToldInv, Bears, CINotMisled
<1> QED BY <1>1, Invariance, PTL

\* What is published, at most once, is on disk (or notify withdrew the request).
THEOREM PublishedStays == Spec => []PublishedIsDurable
<1>1. IInv => PublishedIsDurable
  BY DEF IInv, RequestInv, PublishedInv, PublishedIsDurable
<1> QED BY <1>1, Invariance, PTL

\* At most one click decides a request, and the file holds its user and button.
THEOREM OneDecider == Spec => []OneClickDecides
<1>1. IInv => OneClickDecides
  <2> SUFFICES ASSUME IInv, NEW c \in Clicks, Decided(c)
               PROVE  LET r == click[c].requestId IN
                      /\ \/ /\ disk[r].status   = DecisionOf(click[c].action)
                            /\ disk[r].approver = click[c].userId
                         \/ RolledBack(r)
                      /\ \A d \in Clicks \ {c} : Decided(d) => click[d].requestId # r
    BY DEF OneClickDecides
  <2>1. DecidedBy(disk[click[c].requestId], c) \/ RolledBack(click[c].requestId)
    BY DEF IInv, ClickInv
  <2>2. ASSUME NEW d \in Clicks \ {c}, Decided(d)
        PROVE  click[d].requestId # click[c].requestId
    <3>1. Winner(c) /\ Winner(d) /\ c # d
      BY <2>2 DEF Decided, Winner
    <3> QED BY <3>1 DEF IInv, OneWinner
  <2> QED BY <2>1, <2>2 DEF DecidedBy
<1> QED BY <1>1, Invariance, PTL

\* A request whose id CI was given is stored with its message's reference, in memory
\* and on disk.
THEOREM KnownRequestStays == Spec => []KnownRequestIsDurable
<1>1. IInv => KnownRequestIsDurable
  BY DEF IInv, RequestInv, NotifyInv, KnownRequestIsDurable
<1> QED BY <1>1, Invariance, PTL

\* Only users the map names for the request's repository claim or decide it.
OnlyApproversDecide ==
  \A r \in Requests : \A q \in {mem[r], disk[r]} :
    /\ q.claim # NoClaim => IsAuthorizedApprover(q.claim.userId, RepoOf[r])
    /\ IsDecided(q) => IsAuthorizedApprover(q.approver, RepoOf[r])

\* Whatever a button or a restart does, memory and file name such users only.
THEOREM ApproversDecide == Spec => []OnlyApproversDecide
<1>1. IInv => OnlyApproversDecide
  BY DEF IInv, RequestInv, StoreInv, Stored, OnlyApproversDecide
<1> QED BY <1>1, Invariance, PTL

\* A request that has ended on disk keeps its end and its approver there, unless
\* notify withdraws it.
EndStays ==
  \A r \in Requests : IsTerminal(disk[r]) =>
    \/ disk'[r].status = disk[r].status /\ disk'[r].approver = disk[r].approver
    \/ RolledBack(r)'

\* No step, crash or failed write changes what the file says of an ended request.
THEOREM EndIsFinal == Spec => [][EndStays]_vars
<1>1. IInv /\ [Next]_vars => [EndStays]_vars
  <2> SUFFICES ASSUME IInv, Next, NEW r \in Requests, IsTerminal(disk[r])
               PROVE  \/ /\ disk'[r].status = disk[r].status
                         /\ disk'[r].approver = disk[r].approver
                      \/ RolledBack(r)'
    BY DEF EndStays
  <2>1. TypeOK /\ TypeOK' /\ StoreInv(r) /\ NotifyInv(r)
    BY TypeStep DEF IInv, RequestInv
  <2>2. /\ disk'[r] \in {disk[r], mem[r]}
        /\ notify[r].pc \in {"rollback", "failed"} => notify'[r].pc \in {"rollback", "failed"}
    <3>1. CASE Restart
      <4>1. notify[r] \in Notify
        BY <2>1 DEF TypeOK
      <4> QED BY <3>1, <4>1 DEF Restart, Notify
    <3>2. CASE ~Restart
      BY <2>1, <3>2, ProgressStep DEF Progress
    <3> QED BY <3>1, <3>2
  <2> QED BY <2>1, <2>2, DecisionKept
<1> QED BY <1>1, Invariance, PTL DEF Spec

-----------------------------------------------------------------------------
(* Where writes succeed and Slack's answers arrive *)

Reliable == "disk" \notin Faults /\ "lost" \notin Faults

\* A message is shown for a request that is stored and not being withdrawn; the file
\* differs from memory in nothing but what the update under way has changed.
CalmRequest(r) ==
  /\ message[r] # "none" => notify[r].pc # "rollback" /\ Exists(mem[r]) /\ Exists(disk[r])
  /\ notify[r].pc = "rollback" => Exists(disk[r])
  /\ Exists(disk[r]) /\ ~Exists(mem[r]) => Writes("rollback", r)
  /\ ~writing => mem[r] = disk[r]

OneDirty == \A p, q \in Requests : mem[p] # disk[p] /\ mem[q] # disk[q] => p = q

Calm ==
  /\ \A r \in Requests : CalmRequest(r)
  /\ OneDirty

\* The file catches up with memory, by a completed write or by a restart.
Syncs == ~writing' /\ mem' = disk' /\ (disk' = disk \/ (writing /\ disk' = mem))

\* A step leaves the store alone, changes one request in memory, or writes memory out.
StoreMoves ==
  \/ UNCHANGED <<mem, disk, writing>>
  \/ /\ ~writing /\ writing' /\ disk' = disk
     /\ \E p \in Requests : \A q \in Requests \ {p} : mem'[q] = mem[q]
  \/ Syncs

\* Every step does one of these.
LEMMA StoreMovesStep ==
  ASSUME IInv, Reliable, Next
  PROVE  StoreMoves
<1> USE DEF store, handlers, outside
<1>0. TypeOK /\ ChainInv /\ mem \in [Requests -> Request]
  BY DEF IInv, TypeOK
<1>1. CASE Restart
  BY <1>1 DEF Restart, StoreMoves, Syncs
<1>2. ASSUME NEW r \in Requests, PutRuns(r) \/ SlackRefRuns(r) \/ RollbackRuns(r) \/ ExpireRuns(r)
      PROVE  StoreMoves
  <2>1. \E op \in {"put", "slackRef", "rollback", "expire"} : RunsOn([op |-> op, id |-> r], r)
    BY <1>0, <1>2, NotifyKinds, PollKinds
  <2> QED BY <2>1 DEF RunsOn, StoreMoves
<1>3. ASSUME NEW c \in Clicks, ClaimRuns(c) \/ FinalizeRuns(c)
      PROVE  StoreMoves
  <2>0. ClickInv(c) /\ click[c].requestId \in Requests
    <3>1. click[c].pc # "idle"
      BY <1>0, <1>3, ClickTurn DEF ClaimRuns, FinalizeRuns
    <3> QED BY <3>1 DEF IInv, ClickInv
  <2>1. \E op \in {"claim", "finalize"} :
          RunsOn([op |-> op, id |-> c], click[c].requestId)
    BY <1>0, <1>3, <2>0, ClickKinds
  <2> QED BY <2>0, <2>1 DEF RunsOn, StoreMoves
<1>4. ASSUME writing, Persist PROVE StoreMoves
  BY <1>4 DEF Persist, StoreMoves, Syncs
<1>5. ~PersistFails
  BY DEF PersistFails, Reliable
<1>6. ASSUME NEW r \in Requests,
             \/ NotifyRefused(r) \/ NotifyArrive(r) \/ NotifyStep(r)
             \/ PollArrive(r) \/ ExpireStep(r)
      PROVE  StoreMoves
  <2>1. CASE NotifyRefused(r) \/ NotifyArrive(r) \/ SlackPosts(r) \/ PostAnswered(r)
             \/ PostFails(r) \/ PollArrive(r)
    BY <2>1 DEF NotifyRefused, NotifyArrive, SlackPosts, PostAnswered, PostFails, PollArrive,
                StoreMoves
  <2>2. CASE PutWritten(r) \/ PutFails(r) \/ SlackRefWritten(r) \/ SlackRefFails(r)
             \/ RollbackEnds(r) \/ ExpireWritten(r) \/ ExpireFails(r)
    BY <1>4, <1>5, <2>2 DEF PutWritten, PutFails, SlackRefWritten, SlackRefFails, RollbackEnds,
                ExpireWritten, ExpireFails, Writes
  <2> QED BY <1>2, <1>6, <2>1, <2>2 DEF NotifyStep, ExpireStep
<1>7. ASSUME NEW c \in Clicks, ClickArrive(c) \/ ClickStep(c)
      PROVE  StoreMoves
  <2>1. CASE ClickArrive(c) \/ FinalizeThrows(c) \/ PostComment(c) \/ UpdateMessage(c)
             \/ EffectFails(c)
    BY <2>1 DEF ClickArrive, FinalizeThrows, PostComment, UpdateMessage, EffectFails, StoreMoves
  <2>2. CASE ClaimWritten(c) \/ ClaimFails(c) \/ FinalizeWritten(c) \/ FinalizeFails(c)
    BY <1>4, <1>5, <2>2 DEF ClaimWritten, ClaimFails, FinalizeWritten, FinalizeFails, Writes
  <2> QED BY <1>3, <1>7, <2>1, <2>2 DEF ClickStep
<1>8. CASE Tick
  BY <1>8 DEF Tick, StoreMoves
<1> QED BY <1>1, <1>6, <1>7, <1>8 DEF Next

\* Memory loses a request by its rollback or a restart only.
LEMMA MemoryLoses ==
  ASSUME IInv, Next, TypeOK', NEW r \in Requests, Exists(mem[r]), ~Exists(mem'[r])
  PROVE  RollbackRuns(r) \/ Restart
<1> USE DEF store, handlers, outside
<1>0. /\ TypeOK /\ ChainInv /\ NotifyInv(r) /\ ToldInv(r)
      /\ mem \in [Requests -> Request] /\ mem[r] \in Request
  BY DEF IInv, TypeOK, RequestInv
<1>1. mem'[r] # mem[r] /\ ~Quiet(r)
  BY DEF Exists, Quiet, CatchesUp
<1>2. ASSUME NEW q \in Requests, NotifyRefused(q) \/ NotifyArrive(q) \/ NotifyStep(q)
      PROVE  RollbackRuns(r)
  <2>1. q = r
    BY <1>1, <1>2, NotifyQuiet
  <2>2. CASE PutRuns(r)
    <3>1. notify[r].pc = "putting" /\ mem'[r] = notify[r].request
      BY <1>0, <2>2, RequestTurn DEF PutRuns, Mutate
    <3>2. notify[r].request.status = "pending"
      BY <1>0, <3>1 DEF NotifyInv, NoRequest
    <3> QED BY <3>1, <3>2 DEF Exists
  <2>3. CASE SlackRefRuns(r)
    <3>1. mem'[r].status = mem[r].status
      BY <1>0, <2>3 DEF SlackRefRuns, Mutate, Request
    <3> QED BY <3>1 DEF Exists
  <2>4. mem' = mem \/ PutRuns(r) \/ SlackRefRuns(r) \/ RollbackRuns(r)
    BY <1>2, <2>1 DEF NotifyRefused, NotifyArrive, NotifyStep, PutWritten, PutFails, SlackPosts,
         PostAnswered, PostFails, SlackRefWritten, SlackRefFails, RollbackEnds, Persist,
         PersistFails
  <2> QED BY <1>1, <2>2, <2>3, <2>4
<1>3. ASSUME NEW q \in Requests, PollArrive(q) \/ ExpireStep(q)
      PROVE  FALSE
  <2>1. q = r
    BY <1>1, <1>3, PollQuiet
  <2>2. CASE ExpireRuns(r)
    <3>1. mem'[r] = mem[r] \/ mem'[r] = [mem[r] EXCEPT !.status = "expired"]
      BY <1>0, <2>2 DEF ExpireRuns, Mutate
    <3> QED BY <1>0, <1>1, <3>1 DEF Exists, Request
  <2>3. mem' = mem \/ ExpireRuns(r)
    BY <1>3, <2>1 DEF PollArrive, ExpireStep, ExpireWritten, ExpireFails, Persist, PersistFails
  <2> QED BY <1>1, <2>2, <2>3
<1>4. ASSUME NEW c \in Clicks, ClickArrive(c) \/ ClickStep(c)
      PROVE  FALSE
  <2>1. r = click[c].requestId
    BY <1>1, <1>4, ClickQuiet
  <2>2. mem' = mem \/ ClaimRuns(c) \/ FinalizeRuns(c)
    BY <1>4 DEF ClickArrive, ClickStep, ClaimWritten, ClaimFails, FinalizeThrows,
         FinalizeWritten, FinalizeFails, PostComment, UpdateMessage, EffectFails, Persist,
         PersistFails
  <2>3. CASE ClaimRuns(c)
    <3>1. \/ mem'[r] = mem[r] \/ mem'[r] = [mem[r] EXCEPT !.status = "expired"]
          \/ mem'[r] = ClaimedRequest(mem[r], click[c].action, click[c].userId)
      BY <1>0, <2>1, <2>3 DEF ClaimRuns, Mutate
    <3>2. mem'[r].status \in {mem[r].status, "expired", "processing"}
      BY <1>0, <3>1 DEF ClaimedRequest, Request
    <3> QED BY <3>2 DEF Exists
  <2>4. CASE FinalizeRuns(c)
    <3>1. HeldBy(mem[r], c) /\ click[c].action \in Actions
      BY <2>1, <2>4, FinalizeHolds
    <3>2. mem'[r] = FinalizedRequest(mem[r])
      BY <1>0, <2>1, <2>4 DEF FinalizeRuns, Mutate
    <3>3. mem'[r].status = DecisionOf(click[c].action)
      BY <1>0, <3>1, <3>2 DEF FinalizedRequest, HeldBy, Request
    <3>4. DecisionOf(click[c].action) \in Decisions
      BY <3>1, DecisionOfType
    <3> QED BY <3>3, <3>4 DEF Exists, Decisions
  <2> QED BY <1>1, <2>2, <2>3, <2>4
<1>5. ~Tick
  BY <1>1 DEF Tick
<1> QED BY <1>2, <1>3, <1>4, <1>5 DEF Next

\* While a rollback is being written nothing happens to the store until it is done.
LEMMA RollbackWriter ==
  ASSUME IInv, Reliable, Next, NEW r \in Requests, Writes("rollback", r)
  PROVE  \/ UNCHANGED <<mem, disk>> /\ Writes("rollback", r)'
         \/ Syncs /\ notify'[r].pc = "failed"
<1> USE DEF store, handlers, outside
<1>0. /\ TypeOK /\ ChainInv /\ notify \in [Requests -> Notify] /\ notify[r] \in Notify
      /\ notify[r].pc = "rollback"
      /\ writing /\ Head(chain) = [op |-> "rollback", id |-> r]
  BY RequestTurn DEF IInv, TypeOK, Writes
<1>1. ASSUME Asks PROVE UNCHANGED <<mem, disk>> /\ Writes("rollback", r)'
  <2>1. Writes("rollback", r)'
    BY <1>0, <1>1, WriterKept
  <2> QED BY <1>1, <2>1 DEF Asks
<1>2. \A job, p : ~RunsOn(job, p) /\ ~Throws(job)
  BY <1>0 DEF RunsOn, Throws
<1>3. \A job : Ends(job) => job = [op |-> "rollback", id |-> r]
  BY <1>0 DEF Ends
<1>4. CASE Restart
  <2>1. notify'[r].pc = "failed"
    BY <1>0, <1>4 DEF Restart, Notify
  <2> QED BY <1>4, <2>1 DEF Restart, Syncs
<1>5. CASE Tick
  BY <1>1, <1>5, TickAsks
<1>6. ASSUME NEW q \in Requests, NotifyRefused(q) \/ NotifyArrive(q) \/ NotifyStep(q)
      PROVE  Asks \/ (RollbackEnds(q) /\ q = r)
  <2>1. \/ Asks \/ RollbackEnds(q)
        \/ \E p : RunsOn([op |-> "put", id |-> q], p) \/ RunsOn([op |-> "slackRef", id |-> q], p)
                    \/ RunsOn([op |-> "rollback", id |-> q], p)
        \/ Ends([op |-> "put", id |-> q]) \/ Ends([op |-> "slackRef", id |-> q])
    BY <1>0, <1>6, NotifyKinds DEF NotifyStep
  <2>2. RollbackEnds(q) => q = r
    BY <1>0 DEF RollbackEnds, Writes
  <2>3. [op |-> "put", id |-> q] # [op |-> "rollback", id |-> r]
        /\ [op |-> "slackRef", id |-> q] # [op |-> "rollback", id |-> r]
    OBVIOUS
  <2> QED BY <1>2, <1>3, <2>1, <2>2, <2>3
<1>7. CASE RollbackEnds(r)
  <2>1. Syncs
    BY <1>0, <1>7 DEF RollbackEnds, Persist, PersistFails, Reliable, Syncs
  <2>2. notify'[r].pc = "failed"
    BY <1>0, <1>7 DEF RollbackEnds, NotifyGoto, Notify
  <2> QED BY <2>1, <2>2
<1>8. ASSUME NEW q \in Requests, PollArrive(q) \/ ExpireStep(q)
      PROVE  Asks
  <2>1. \/ Asks \/ \E p : RunsOn([op |-> "expire", id |-> q], p)
        \/ Ends([op |-> "expire", id |-> q])
    BY <1>0, <1>8, PollKinds DEF ExpireStep
  <2>2. [op |-> "expire", id |-> q] # [op |-> "rollback", id |-> r]
    OBVIOUS
  <2> QED BY <1>2, <1>3, <2>1, <2>2
<1>9. ASSUME NEW c \in Clicks, ClickArrive(c) \/ ClickStep(c)
      PROVE  Asks
  <2>0. ClickInv(c)
    BY DEF IInv
  <2>1. PICK op \in {"claim", "finalize"} :
          \/ Asks \/ Ends([op |-> op, id |-> c]) \/ Throws([op |-> op, id |-> c])
          \/ \E p : RunsOn([op |-> op, id |-> c], p)
    BY <1>0, <1>9, <2>0, ClickKinds DEF ClickStep
  <2>2. [op |-> op, id |-> c] # [op |-> "rollback", id |-> r]
    OBVIOUS
  <2> QED BY <1>2, <1>3, <2>1, <2>2
<1> QED BY <1>1, <1>4, <1>5, <1>6, <1>7, <1>8, <1>9 DEF Next

\* When Slack's answer arrives and the file is written, a handler withdraws its request
\* only if Slack refused it, and shows the message before it is created.
LEMMA NotifierMoves ==
  ASSUME IInv, Reliable, Next, TypeOK', NEW r \in Requests
  PROVE  /\ notify'[r].pc = "rollback" /\ notify[r].pc # "rollback" =>
              notify[r].pc = "posting" /\ disk' = disk
         /\ notify[r].pc = "failed" => notify'[r].pc = "failed"
         /\ notify'[r].pc = "failed" =>
              notify[r].pc = "failed" \/ Writes("rollback", r) \/ Restart
         /\ message[r] = "none" /\ message'[r] # "none" =>
              /\ notify[r].pc = "posting" /\ notify'[r].pc = "posted"
              /\ mem' = mem /\ disk' = disk
<1> USE DEF store, handlers, outside
<1>0. /\ TypeOK /\ ChainInv /\ notify \in [Requests -> Notify] /\ notify[r] \in Notify
      /\ message \in [Requests -> {"none", "buttons"} \cup Decisions]
  BY DEF IInv, TypeOK
<1>1. CASE notify'[r] = notify[r] /\ message'[r] = message[r]
  BY <1>1
<1>2. CASE Restart
  BY <1>0, <1>2 DEF Restart, Notify
<1>3. ASSUME NEW q \in Requests, NotifyRefused(q) \/ NotifyArrive(q) \/ NotifyStep(q),
             q # r
      PROVE  notify'[r] = notify[r] /\ message'[r] = message[r]
  BY <1>3, NotifyQuiet DEF Quiet
<1>4. ASSUME NEW q \in Requests, PollArrive(q) \/ ExpireStep(q)
      PROVE  notify'[r] = notify[r] /\ message'[r] = message[r]
  BY <1>4 DEF PollArrive, ExpireStep, ExpireRuns, ExpireWritten, ExpireFails
<1>5. ASSUME NEW c \in Clicks, ClickArrive(c) \/ ClickStep(c)
      PROVE  notify'[r] = notify[r] /\ (message'[r] = message[r] \/ message[r] # "none")
  <2>1. notify' = notify /\ (message' = message \/ UpdateMessage(c))
    BY <1>5 DEF ClickArrive, ClickStep, ClaimRuns, ClaimWritten, ClaimFails, FinalizeRuns,
         FinalizeThrows, FinalizeWritten, FinalizeFails, PostComment, UpdateMessage, EffectFails
  <2>2. CASE UpdateMessage(c)
    <3>1. r = click[c].requestId => message[r] # "none"
      BY <2>2, EffectSays DEF UpdateMessage
    <3>2. r # click[c].requestId => message'[r] = message[r]
      BY <1>0, <2>2 DEF UpdateMessage
    <3> QED BY <2>1, <3>1, <3>2
  <2> QED BY <2>1, <2>2
<1>6. CASE NotifyRefused(r) \/ NotifyArrive(r) \/ PutRuns(r) \/ PutWritten(r) \/ PutFails(r)
           \/ PostAnswered(r) \/ SlackRefRuns(r) \/ SlackRefWritten(r) \/ RollbackRuns(r)
  <2>1. message' = message
    BY <1>6 DEF NotifyRefused, NotifyArrive, PutRuns, PutWritten, PutFails, PostAnswered,
                SlackRefRuns, SlackRefWritten, RollbackRuns
  <2>2. \/ notify' = notify
        \/ /\ notify'[r].pc \in {"refused", "putting", "posting", "recording", "created", "aborted"}
           /\ notify[r].pc # "failed"
    <3>1. CASE NotifyRefused(r) \/ NotifyArrive(r) \/ PostAnswered(r)
      BY <1>0, <3>1 DEF NotifyRefused, NotifyArrive, PostAnswered, NotifyGoto, Notify
    <3>2. CASE PutWritten(r) \/ PutFails(r)
      <4>1. notify[r].pc = "putting"
        BY <1>0, <3>2, RequestTurn DEF PutWritten, PutFails
      <4> QED BY <1>0, <3>2, <4>1 DEF PutWritten, PutFails, NotifyGoto, Notify
    <3>3. CASE SlackRefWritten(r)
      <4>1. notify[r].pc = "recording"
        BY <1>0, <3>3, RequestTurn DEF SlackRefWritten
      <4> QED BY <1>0, <3>3, <4>1 DEF SlackRefWritten, Notify
    <3> QED BY <1>6, <3>1, <3>2, <3>3 DEF PutRuns, SlackRefRuns, RollbackRuns
  <2> QED BY <2>1, <2>2
<1>7. CASE SlackPosts(r)
  BY <1>0, <1>7 DEF SlackPosts, NotifyGoto, Notify
<1>8. CASE PostFails(r)
  <2>1. notify[r].pc = "posting" /\ notify'[r].pc = "rollback"
    BY <1>0, <1>8 DEF PostFails, NotifyGoto, Notify, Reliable
  <2> QED BY <1>8, <2>1 DEF PostFails
<1>9. CASE SlackRefFails(r)
  BY <1>9 DEF SlackRefFails, PersistFails, Reliable
<1>10. CASE RollbackEnds(r)
  <2>1. notify[r].pc = "rollback" /\ Writes("rollback", r)
    BY <1>0, <1>10, RequestTurn DEF RollbackEnds
  <2>2. notify'[r].pc = "failed"
    BY <1>0, <1>10 DEF RollbackEnds, NotifyGoto, Notify
  <2> QED BY <1>10, <2>1, <2>2 DEF RollbackEnds
<1>11. CASE Tick
  BY <1>1, <1>11 DEF Tick
<1>12. ASSUME NotifyRefused(r) \/ NotifyArrive(r) \/ NotifyStep(r)
       PROVE  \/ NotifyRefused(r) \/ NotifyArrive(r) \/ PutRuns(r) \/ PutWritten(r) \/ PutFails(r)
              \/ PostAnswered(r) \/ SlackRefRuns(r) \/ SlackRefWritten(r) \/ RollbackRuns(r)
              \/ SlackPosts(r) \/ PostFails(r) \/ SlackRefFails(r) \/ RollbackEnds(r)
  BY <1>12 DEF NotifyStep
<1>13. \/ Tick \/ Restart
       \/ NotifyRefused(r) \/ NotifyArrive(r) \/ NotifyStep(r)
       \/ notify'[r] = notify[r] /\ message'[r] = message[r]
       \/ notify'[r] = notify[r] /\ message[r] # "none"
  BY <1>3, <1>4, <1>5 DEF Next
<1> QED BY <1>1, <1>2, <1>6, <1>7, <1>8, <1>9, <1>10, <1>11, <1>12, <1>13

\* Every request stays calm.
LEMMA CalmRequestStep ==
  ASSUME IInv, Calm, Reliable, Next, TypeOK', NEW r \in Requests
  PROVE  CalmRequest(r)'
<1> DEFINE Gone == Exists(mem[r]) /\ ~Exists(mem'[r])
<1>0. /\ TypeOK /\ ChainInv /\ NotifyInv(r) /\ CalmRequest(r) /\ StoreMoves
      /\ mem \in [Requests -> Request] /\ disk \in [Requests -> Request]
  BY StoreMovesStep DEF IInv, TypeOK, RequestInv, Calm
<1>1. disk'[r] \in {disk[r], mem[r]}
  BY <1>0 DEF StoreMoves, Syncs
<1>2. Gone => Writes("rollback", r)' \/ Syncs
  <2>1. RollbackRuns(r) => Writes("rollback", r)'
    BY <1>0, NotifyKinds DEF RunsOn, Writes
  <2>2. Restart => Syncs
    BY DEF Restart, Syncs
  <2> QED BY <2>1, <2>2, MemoryLoses
<1>3. Gone => notify[r].pc = "rollback" \/ Syncs
  <2>1. RollbackRuns(r) => notify[r].pc = "rollback"
    BY <1>0, RequestTurn DEF RollbackRuns
  <2>2. Restart => Syncs
    BY DEF Restart, Syncs
  <2> QED BY <2>1, <2>2, MemoryLoses
<1>4. message'[r] # "none" =>
        notify'[r].pc # "rollback" /\ Exists(mem'[r]) /\ Exists(disk'[r])
  <2>1. CASE message[r] = "none"
    BY <1>0, <2>1, NotifierMoves DEF NotifyInv
  <2>2. CASE message[r] # "none"
    <3>1. notify[r].pc # "rollback" /\ Exists(mem[r]) /\ Exists(disk[r])
      BY <1>0, <2>2 DEF CalmRequest
    <3>2. Exists(disk'[r])
      BY <1>1, <3>1
    <3>3. Exists(mem'[r])
      BY <1>3, <3>1, <3>2 DEF Syncs
    <3>4. notify'[r].pc # "rollback"
      BY <1>0, <2>2, <3>1, NotifierMoves DEF NotifyInv
    <3> QED BY <3>2, <3>3, <3>4
  <2> QED BY <2>1, <2>2
<1>5. notify'[r].pc = "rollback" => Exists(disk'[r])
  <2>1. CASE notify[r].pc # "rollback"
    BY <1>0, <2>1, NotifierMoves DEF NotifyInv
  <2>2. CASE notify[r].pc = "rollback" /\ Writes("rollback", r)
    BY <1>0, <2>2, RollbackWriter DEF CalmRequest
  <2>3. CASE notify[r].pc = "rollback" /\ ~Writes("rollback", r)
    BY <1>0, <1>1, <2>3 DEF CalmRequest
  <2> QED BY <2>1, <2>2, <2>3
<1>6. Exists(disk'[r]) /\ ~Exists(mem'[r]) => Writes("rollback", r)'
  <2> SUFFICES ASSUME Exists(disk'[r]), ~Exists(mem'[r])
               PROVE  Writes("rollback", r)'
    OBVIOUS
  <2>1. ~Syncs
    BY DEF Syncs
  <2>2. CASE Exists(mem[r])
    BY <1>2, <2>1, <2>2
  <2>3. CASE ~Exists(mem[r])
    <3>1. Exists(disk[r])
      BY <1>1, <2>3
    <3> QED BY <1>0, <2>1, <2>3, <3>1, RollbackWriter DEF CalmRequest
  <2> QED BY <2>2, <2>3
<1>7. ~writing' => mem'[r] = disk'[r]
  BY <1>0 DEF StoreMoves, Syncs, CalmRequest
<1> QED BY <1>4, <1>5, <1>6, <1>7 DEF CalmRequest

\* So does the store.
LEMMA CalmStep == IInv /\ Calm /\ Reliable /\ [Next]_vars => Calm'
<1> SUFFICES ASSUME IInv, Calm, Reliable, [Next]_vars PROVE Calm'
  OBVIOUS
<1>1. CASE Next
  <2>1. TypeOK'
    BY <1>1, TypeStep
  <2>2. \A r \in Requests : CalmRequest(r)'
    BY <1>1, <2>1, CalmRequestStep
  <2>3. OneDirty'
    <3>1. StoreMoves
      BY <1>1, StoreMovesStep
    <3>2. CASE Syncs
      BY <3>2 DEF Syncs, OneDirty
    <3>3. CASE UNCHANGED <<mem, disk, writing>>
      BY <3>3 DEF Calm, OneDirty
    <3>4. ASSUME ~writing, disk' = disk,
                 NEW p \in Requests, \A q \in Requests \ {p} : mem'[q] = mem[q]
          PROVE  OneDirty'
      <4>1. \A q \in Requests \ {p} : mem'[q] = disk'[q]
        BY <3>4 DEF Calm, CalmRequest
      <4> QED BY <4>1 DEF OneDirty
    <3> QED BY <3>1, <3>2, <3>3, <3>4 DEF StoreMoves
  <2> QED BY <2>2, <2>3 DEF Calm
<1>2. CASE UNCHANGED vars
  BY <1>2 DEF vars, Calm, CalmRequest, OneDirty, Writes
<1> QED BY <1>1, <1>2

\* Without these two faults the store is always calm.
LEMMA Calmness ==
  ASSUME Reliable
  PROVE  Spec => []Calm
<1>1. Init => Calm
  BY DEF Init, Calm, CalmRequest, OneDirty, IdleNotify, NoRequest, Exists
<1>2. IInv /\ Calm /\ [Next]_vars => Calm'
  BY CalmStep
<1> QED BY <1>1, <1>2, Invariance, PTL DEF Spec

\* A button that is shown belongs to a request on disk, unless a write fails or Slack's
\* answer is lost.
THEOREM ShownStays ==
  ASSUME Reliable
  PROVE  Spec => []ShownIsStored
<1>1. Calm => ShownIsStored
  BY DEF Calm, CalmRequest, ShownIsStored
<1> QED BY <1>1, Calmness, PTL

\* Then the claimant always finds its claim when it finalizes.
THEOREM ClaimSurvives ==
  ASSUME Reliable
  PROVE  Spec => []ClaimSurvivesToFinalize
<1>1. IInv /\ Calm => ClaimSurvivesToFinalize
  <2> SUFFICES ASSUME IInv, Calm, NEW c \in Clicks, Runs("finalize", c)
               PROVE  CanFinalize(mem[click[c].requestId], click[c].userId)
    BY DEF ClaimSurvivesToFinalize
  <2>1. click[c].pc = "finalizing" /\ ~Writes("finalize", c) /\ ClickInv(c)
    BY ClickTurn DEF IInv, Runs, Writes
  <2>2. PICK r \in Requests : r = click[c].requestId /\ message[r] # "none"
    BY <2>1 DEF ClickInv
  <2>3. HeldBy(mem[r], c)
    BY <2>1, <2>2 DEF ClickInv, Calm, CalmRequest
  <2> QED BY <2>2, <2>3 DEF HeldBy, CanFinalize
<1> QED BY <1>1, Calmness, Invariance, PTL

-----------------------------------------------------------------------------
(* What is on disk goes through the abstract approval *)

Stays(r) == PhaseOf(r)' = PhaseOf(r) /\ ClaimOf(r)' = ClaimOf(r)

\* A request whose copy on disk is unchanged stays where it is.
LEMMA SameCopyStays ==
  ASSUME IInv, Calm, Reliable, Next, TypeOK', NEW r \in Requests, disk'[r] = disk[r]
  PROVE  Stays(r)
<1>1. CASE Exists(disk[r])
  BY <1>1 DEF Stays, PhaseOf, ClaimOf, Exists
<1>2. CASE ~Exists(disk[r])
  <2>0. NotifyInv(r) /\ CalmRequest(r) /\ notify[r] \in Notify /\ TypeOK /\ ChainInv
    BY DEF IInv, RequestInv, Calm, TypeOK
  <2>1. notify[r].pc \notin {"posting", "posted", "recording", "rollback"}
    BY <1>2, <2>0 DEF NotifyInv, CalmRequest
  <2>2. ~Writes("rollback", r)
    BY <2>0, <2>1, RequestTurn
  <2>3. Restart => (notify'[r].pc = "failed" => notify[r].pc = "failed")
    <3>1. CASE Restart /\ notify[r].pc = "putting"
      <4>1. notify'[r] = [notify[r] EXCEPT !.pc = "aborted"]
        BY <3>1 DEF Restart
      <4> QED BY <2>0, <4>1 DEF Notify
    <3>2. CASE Restart /\ notify[r].pc # "putting"
      <4>1. notify'[r] = notify[r]
        BY <2>1, <3>2 DEF Restart
      <4> QED BY <4>1
    <3> QED BY <3>1, <3>2
  <2>4. notify'[r].pc = "failed" <=> notify[r].pc = "failed"
    BY <2>2, <2>3, NotifierMoves
  <2> QED BY <1>2, <2>4 DEF Stays, PhaseOf, ClaimOf, Exists
<1> QED BY <1>1, <1>2

\* How a step may move one request, as the abstract approval has it.
PhaseMove(r) ==
  \/ Stays(r)
  \/ /\ PhaseOf(r) = "none" /\ PhaseOf(r)' = "pending"
     /\ ClaimOf(r)' = ClaimOf(r)
  \/ /\ PhaseOf(r) = "pending" /\ PhaseOf(r)' \in {"withdrawn", "expired"}
     /\ ClaimOf(r)' = ClaimOf(r)
  \/ /\ PhaseOf(r) = "pending" /\ PhaseOf(r)' = "processing"
     /\ \E u \in Users, d \in Decisions :
          /\ IsAuthorizedApprover(u, RepoOf[r])
          /\ ClaimOf(r)' = [decision |-> d, userId |-> u]
  \/ /\ PhaseOf(r) = "processing" /\ PhaseOf(r)' = ClaimOf(r).decision
     /\ ClaimOf(r)' = ClaimOf(r)

\* The claim a stored copy stands for: the one it carries, or the one that decided it.
LEMMA ClaimOfCopy ==
  ASSUME NEW q \in Request, NEW repository, NEW time, Stored(q, repository, time)
  PROVE  /\ q.status = "processing" =>
              q.claim \in Claim /\ BuildAuditComment(q) = q.claim
         /\ IsDecided(q) =>
              BuildAuditComment(q) = [decision |-> q.status, userId |-> q.approver]
BY DEF Stored, IsDecided, Request, BuildAuditComment, Decisions

\* One request moves as the abstract approval has it, or stays.
LEMMA PhaseStep ==
  ASSUME IInv, Calm, Reliable, Next, TypeOK', NEW r \in Requests
  PROVE  PhaseMove(r)
<1> DEFINE d == disk[r]
           m == mem[r]
<1>0. /\ NotifyInv(r) /\ CalmRequest(r) /\ TypeOK /\ ChainInv /\ StoreMoves
      /\ d \in Request /\ m \in Request
      /\ Stored(d, RepoOf[r], now) /\ Stored(m, RepoOf[r], now) /\ Follows(d, m)
  BY StoreMovesStep DEF IInv, RequestInv, StoreInv, Calm, TypeOK
<1>1. disk'[r] \in {d, m}
  BY <1>0 DEF StoreMoves, Syncs
<1>2. CASE disk'[r] = d
  BY <1>2, SameCopyStays DEF PhaseMove
<1> SUFFICES ASSUME disk'[r] = m, m # d
             PROVE  PhaseMove(r)
  BY <1>1, <1>2
<1>3. /\ Exists(d) => PhaseOf(r) = d.status
      /\ Exists(m) => PhaseOf(r)' = m.status
      /\ d.status \in {"processing"} \cup Decisions => ClaimOf(r) = BuildAuditComment(d)
      /\ d.status \notin {"processing"} \cup Decisions => ClaimOf(r) = NoClaim
      /\ m.status \in {"processing"} \cup Decisions => ClaimOf(r)' = BuildAuditComment(m)
      /\ m.status \notin {"processing"} \cup Decisions => ClaimOf(r)' = NoClaim
  BY DEF PhaseOf, ClaimOf
<1>4. CASE ~Exists(d)
  <2>1. d = NoRequest /\ (~Exists(m) => m = NoRequest)
    BY <1>0, <1>4 DEF Stored
  <2>2. m.status = "pending" /\ d.status = "absent"
    BY <1>0, <1>4, <2>1 DEF Follows, Exists
  <2>3. notify[r].pc \in {"putting", "aborted"}
    BY <1>0, <1>4, <2>2 DEF NotifyInv, Exists
  <2>4. PhaseOf(r) = "none" /\ PhaseOf(r)' = "pending"
    BY <1>3, <1>4, <2>2, <2>3 DEF PhaseOf, Exists
  <2>5. ClaimOf(r)' = ClaimOf(r)
    BY <1>3, <2>2 DEF Decisions
  <2> QED BY <2>4, <2>5 DEF PhaseMove
<1>5. CASE Exists(d) /\ ~Exists(m)
  <2>1. Writes("rollback", r)
    BY <1>0, <1>5 DEF CalmRequest
  <2>2. d.status = "pending" /\ m.status = "absent"
    <3>1. notify[r].pc = "rollback"
      BY <1>0, <2>1, RequestTurn
    <3>2. message[r] = "none"
      BY <1>0, <3>1 DEF CalmRequest
    <3> QED BY <1>0, <1>5, <3>2 DEF NotifyInv, Exists
  <2>3. notify'[r].pc = "failed"
    BY <2>1, RollbackWriter
  <2>4. PhaseOf(r) = "pending" /\ PhaseOf(r)' = "withdrawn"
    BY <1>3, <1>5, <2>2, <2>3 DEF PhaseOf
  <2>5. ClaimOf(r)' = ClaimOf(r)
    BY <1>3, <2>2 DEF Decisions
  <2> QED BY <2>4, <2>5 DEF PhaseMove
<1>6. CASE Exists(d) /\ Exists(m) /\ d.status = "pending"
  <2>1. PhaseOf(r) = "pending" /\ ClaimOf(r) = NoClaim /\ PhaseOf(r)' = m.status
    BY <1>3, <1>6 DEF Decisions
  <2>2. m.status \in {"pending", "processing", "expired"}
    BY <1>0, <1>6 DEF Follows, Exists
  <2>3. CASE m.status = "processing"
    <3>1. m.claim \in Claim /\ ClaimOf(r)' = m.claim
      BY <1>0, <1>3, <2>3, ClaimOfCopy
    <3>2. IsAuthorizedApprover(m.claim.userId, RepoOf[r])
      BY <1>0, <2>3 DEF Stored
    <3>3. /\ m.claim.userId \in Users /\ m.claim.decision \in Decisions
          /\ m.claim = [decision |-> m.claim.decision, userId |-> m.claim.userId]
      BY <3>1 DEF Claim
    <3> QED BY <2>1, <2>3, <3>1, <3>2, <3>3 DEF PhaseMove
  <2>4. CASE m.status \in {"pending", "expired"}
    <3>1. ClaimOf(r)' = NoClaim
      BY <1>3, <2>4 DEF Decisions
    <3> QED BY <2>1, <2>4, <3>1 DEF PhaseMove, Stays
  <2> QED BY <2>2, <2>3, <2>4
<1>7. CASE Exists(d) /\ Exists(m) /\ d.status = "processing"
  <2>1. PhaseOf(r) = "processing" /\ ClaimOf(r) = d.claim /\ PhaseOf(r)' = m.status
        /\ d.claim \in Claim
    BY <1>0, <1>3, <1>7, ClaimOfCopy
  <2>2. \/ m.status = "processing" /\ m.claim = d.claim
        \/ m.status = d.claim.decision /\ m.approver = d.claim.userId
    BY <1>0, <1>7 DEF Follows
  <2>3. CASE m.status = "processing" /\ m.claim = d.claim
    <3>1. ClaimOf(r)' = d.claim
      BY <1>0, <1>3, <2>3, ClaimOfCopy
    <3> QED BY <2>1, <2>3, <3>1 DEF PhaseMove, Stays
  <2>4. CASE m.status = d.claim.decision /\ m.approver = d.claim.userId
    <3>1. IsDecided(m) /\ d.claim = [decision |-> d.claim.decision, userId |-> d.claim.userId]
      BY <2>1, <2>4 DEF Claim, IsDecided
    <3>2. ClaimOf(r)' = BuildAuditComment(m)
      BY <1>3, <3>1 DEF IsDecided
    <3>3. ClaimOf(r)' = d.claim
      BY <1>0, <2>4, <3>1, <3>2, ClaimOfCopy
    <3> QED BY <2>1, <2>4, <3>3 DEF PhaseMove
  <2> QED BY <2>2, <2>3, <2>4
<1>8. CASE Exists(d) /\ Exists(m) /\ IsTerminal(d)
  <2>1. m.status = d.status /\ m.approver = d.approver
    BY <1>0, <1>8 DEF Follows
  <2>2. IsDecided(d) => ClaimOf(r)' = ClaimOf(r)
    <3> SUFFICES ASSUME IsDecided(d) PROVE ClaimOf(r)' = ClaimOf(r)
      OBVIOUS
    <3>1. IsDecided(m)
      BY <2>1 DEF IsDecided
    <3>2. BuildAuditComment(m) = BuildAuditComment(d)
      BY <1>0, <2>1, <3>1, ClaimOfCopy
    <3> QED BY <1>3, <3>1, <3>2 DEF IsDecided
  <2>3. ~IsDecided(d) => ClaimOf(r)' = ClaimOf(r)
    BY <1>3, <1>8, <2>1 DEF IsDecided, IsTerminal, Decisions
  <2> QED BY <1>3, <1>8, <2>1, <2>2, <2>3 DEF PhaseMove, Stays
<1>9. d.status \in {"absent", "pending", "processing", "expired"} \cup Decisions
  BY <1>0 DEF Request, Statuses
<1> QED BY <1>4, <1>5, <1>6, <1>7, <1>8, <1>9 DEF Exists, IsTerminal

\* At most one request changes on disk in a step.
LEMMA OneCopy ==
  ASSUME IInv, Calm, Reliable, Next, disk' # disk
  PROVE  \E r \in Requests : \A q \in Requests \ {r} : disk'[q] = disk[q]
<1>1. mem \in [Requests -> Request] /\ disk \in [Requests -> Request] /\ disk' = mem
  BY StoreMovesStep DEF StoreMoves, Syncs, IInv, TypeOK
<1>2. PICK r \in Requests : mem[r] # disk[r]
  BY <1>1
<1>3. \A q \in Requests \ {r} : mem[q] = disk[q]
  BY <1>2 DEF Calm, OneDirty
<1> QED BY <1>1, <1>3

\* A step of the broker is a step of the abstract approval, or a stutter.
LEMMA ApprovalStep ==
  ASSUME IInv, Calm, Reliable, Next
  PROVE  [Approval!Next]_(Approval!vars)
<1> DEFINE phase == [r \in Requests |-> PhaseOf(r)]
           claim == [r \in Requests |-> ClaimOf(r)]
<1>0. TypeOK' /\ TypeOK
  BY TypeStep DEF IInv
<1>1. CASE disk' = disk
  <2>1. UNCHANGED <<phase, claim>>
    BY <1>0, <1>1, SameCopyStays DEF Stays
  <2>2. CASE UNCHANGED comments
    BY <2>1, <2>2 DEF Approval!vars
  <2>3. ASSUME NEW c \in Clicks, PostComment(c), NEW r \in Requests, r = click[c].requestId
        PROVE  Approval!Next
    <3>1. Settled(c, "comment")
          /\ comments' = [comments EXCEPT ![r] = Append(@, BuildAuditComment(click[c].request))]
      BY <2>3 DEF PostComment
    <3>2. /\ message[r] # "none" /\ click[c].request.status \in Decisions
          /\ BuildAuditComment(click[c].request) =
               [decision |-> click[c].request.status, userId |-> click[c].userId]
          /\ \/ /\ disk[r].status = click[c].request.status
                /\ disk[r].approver = click[c].userId
             \/ RolledBack(r)
          /\ comments[r] = <<>>
      BY <2>3, <3>1, EffectSays
    <3>3. /\ disk[r].status = click[c].request.status
          /\ disk[r].approver = click[c].userId
      BY <3>2 DEF RolledBack, Calm, CalmRequest
    <3>4. BuildAuditComment(disk[r]) = BuildAuditComment(click[c].request)
      <4>1. disk[r] \in Request /\ Stored(disk[r], RepoOf[r], now) /\ IsDecided(disk[r])
        BY <1>0, <3>2, <3>3 DEF TypeOK, IInv, RequestInv, StoreInv, IsDecided
      <4> QED BY <3>2, <3>3, <4>1, ClaimOfCopy
    <3>5. PhaseOf(r) \in Decisions
      BY <3>2, <3>3 DEF PhaseOf, Exists, Decisions
    <3>6. ClaimOf(r) = BuildAuditComment(click[c].request)
      BY <3>2, <3>3, <3>4 DEF ClaimOf
    <3>7. comments' = [comments EXCEPT ![r] = <<ClaimOf(r)>>]
      BY <3>1, <3>2, <3>6
    <3>8. Approval!Publish(r)
      BY <2>1, <3>2, <3>5, <3>7 DEF Approval!Publish, Approval!Decisions, Decisions
    <3> QED BY <3>8 DEF Approval!Next
  <2>4. ASSUME NEW c \in Clicks, PostComment(c)
        PROVE  Approval!Next
    <3>1. PICK r \in Requests : r = click[c].requestId
      BY <2>4 DEF PostComment, Settled, IInv, ClickInv
    <3> QED BY <2>3, <2>4, <3>1
  <2>5. UNCHANGED comments \/ \E c \in Clicks : PostComment(c)
    BY DEF Next, Tick, Restart, NotifyRefused, NotifyArrive, NotifyStep, PutRuns, PutWritten,
       PutFails, SlackPosts, PostAnswered, PostFails, SlackRefRuns, SlackRefWritten,
       SlackRefFails, RollbackRuns, RollbackEnds, PollArrive, ExpireStep, ExpireRuns,
       ExpireWritten, ExpireFails, ClickArrive, ClickStep, ClaimRuns, ClaimWritten, ClaimFails,
       FinalizeRuns, FinalizeThrows, FinalizeWritten, FinalizeFails, UpdateMessage, EffectFails,
       outside
  <2> QED BY <2>2, <2>4, <2>5
<1>2. CASE disk' # disk
  <2>1. comments' = comments
    BY <1>2 DEF Next, Tick, Restart, NotifyRefused, NotifyArrive, NotifyStep, PutRuns, PutWritten,
       PutFails, SlackPosts, PostAnswered, PostFails, SlackRefRuns, SlackRefWritten,
       SlackRefFails, RollbackRuns, RollbackEnds, PollArrive, ExpireStep, ExpireRuns,
       ExpireWritten, ExpireFails, ClickArrive, ClickStep, ClaimRuns, ClaimWritten, ClaimFails,
       FinalizeRuns, FinalizeThrows, FinalizeWritten, FinalizeFails, PostComment, UpdateMessage,
       EffectFails, outside, store
  <2>2. PICK r \in Requests : \A q \in Requests \ {r} : disk'[q] = disk[q]
    BY <1>2, OneCopy
  <2>3. \A q \in Requests \ {r} : PhaseOf(q)' = PhaseOf(q) /\ ClaimOf(q)' = ClaimOf(q)
    BY <1>0, <2>2, SameCopyStays DEF Stays
  <2>4. /\ phase' = [phase EXCEPT ![r] = PhaseOf(r)']
        /\ phase[r] = PhaseOf(r) /\ claim[r] = ClaimOf(r)
        /\ claim' = [claim EXCEPT ![r] = ClaimOf(r)']
    BY <2>3
  <2>5. ClaimOf(r)' = ClaimOf(r) => claim' = claim
    BY <2>3
  <2>6. PhaseMove(r)
    BY <1>0, PhaseStep
  <2>7. CASE Stays(r)
    <3>1. phase' = phase /\ claim' = claim
      BY <2>3, <2>7 DEF Stays
    <3> QED BY <2>1, <3>1 DEF Approval!vars
  <2>8. CASE /\ PhaseOf(r) = "none" /\ PhaseOf(r)' = "pending"
             /\ ClaimOf(r)' = ClaimOf(r)
    <3>1. Approval!Open(r)
      BY <2>1, <2>4, <2>5, <2>8 DEF Approval!Open, Approval!Move
    <3> QED BY <3>1 DEF Approval!Next
  <2>9. CASE /\ PhaseOf(r) = "pending" /\ PhaseOf(r)' \in {"withdrawn", "expired"}
             /\ ClaimOf(r)' = ClaimOf(r)
    <3>1. Approval!Withdraw(r) \/ Approval!Expire(r)
      BY <2>1, <2>4, <2>5, <2>9 DEF Approval!Withdraw, Approval!Expire, Approval!Move
    <3> QED BY <3>1 DEF Approval!Next
  <2>10. ASSUME PhaseOf(r) = "pending", PhaseOf(r)' = "processing",
                NEW u \in Users, NEW e \in Decisions,
                IsAuthorizedApprover(u, RepoOf[r]),
                ClaimOf(r)' = [decision |-> e, userId |-> u]
         PROVE  Approval!Next
    <3>1. Approval!Seize(r, u, e)
      BY <2>1, <2>4, <2>10 DEF Approval!Seize, Approval!Move
    <3> QED BY <3>1 DEF Approval!Next, Approval!Decisions, Decisions
  <2>11. CASE /\ PhaseOf(r) = "processing" /\ PhaseOf(r)' = ClaimOf(r).decision
              /\ ClaimOf(r)' = ClaimOf(r)
    <3>1. Approval!Settle(r)
      BY <2>1, <2>4, <2>5, <2>11 DEF Approval!Settle, Approval!Move
    <3> QED BY <3>1 DEF Approval!Next
  <2> QED BY <2>6, <2>7, <2>8, <2>9, <2>10, <2>11 DEF PhaseMove
<1> QED BY <1>1, <1>2

\* What is on disk, with the comments, is the abstract approval's, wherever the process
\* dies, unless a write fails or Slack's answer is lost.
THEOREM DiskIsAnApproval ==
  ASSUME Reliable
  PROVE  Spec => DiskImplementsApproval
<1>1. Init => Approval!Init
  <2>1. ASSUME Init, NEW r \in Requests
        PROVE  PhaseOf(r) = "none" /\ ClaimOf(r) = NoClaim
    BY <2>1 DEF Init, PhaseOf, ClaimOf, NoRequest, IdleNotify, Exists, Decisions
  <2> QED BY <2>1 DEF Init, Approval!Init
<1>2. IInv /\ Calm /\ [Next]_vars => [Approval!Next]_(Approval!vars)
  <2>1. ASSUME UNCHANGED vars
        PROVE  UNCHANGED Approval!vars
    BY <2>1 DEF vars, Approval!vars, PhaseOf, ClaimOf
  <2> QED BY <2>1, ApprovalStep
<1> QED BY <1>1, <1>2, Invariance, Calmness, PTL DEF Spec, DiskImplementsApproval, Approval!Spec

=============================================================================
