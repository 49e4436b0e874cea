--------------------------- MODULE SourceGateProofs --------------------------
(***************************************************************************)
(* Theorems about SourceGate, for every set of users, requests, runs and   *)
(* findings: its invariants and TimeoutIsFinal.  The runner's generic      *)
(* facts come first, then what can change each part of the state, then     *)
(* one lemma per conjunct of the inductive invariant.                      *)
(***************************************************************************)
EXTENDS SourceGate, TLAPS

-----------------------------------------------------------------------------
(* The runner *)

\* The steps by position.
LEMMA StepNames ==
  /\ Len(StepList) = 14
  /\ StepList[1] = "setup" /\ StepList[2] = "guard" /\ StepList[3] = "synthetic"
  /\ StepList[4] = "evaluate" /\ StepList[5] = "verdict" /\ StepList[6] = "confirm"
  /\ StepList[7] = "transport" /\ StepList[8] = "assume" /\ StepList[9] = "notify"
  /\ StepList[10] = "poll" /\ StepList[11] = "post" /\ StepList[12] = "flag"
  /\ StepList[13] = "upload" /\ StepList[14] = "enforce"
BY DEF StepList

\* No step occurs twice.
LEMMA StepsDiffer ==
  ASSUME NEW i \in 1..Len(StepList), NEW j \in 1..Len(StepList),
         StepList[i] = StepList[j]
  PROVE  i = j
<1>1. /\ i \in 1..14 /\ j \in 1..14
  BY StepNames
<1> QED BY <1>1, StepNames

LEMMA StepsAreListed ==
  Steps = { "setup", "guard", "synthetic", "evaluate", "verdict", "confirm",
            "transport", "assume", "notify", "poll", "post", "flag", "upload", "enforce" }
<1>1. Steps = {StepList[i] : i \in 1..14}
  BY StepNames DEF Steps
<1>2. \A i \in 1..14 : i \in {1, 2, 3, 4, 5, 6, 7, 8, 9, 10, 11, 12, 13, 14}
  OBVIOUS
<1> QED BY <1>1, <1>2, StepNames

\* Where the named steps stand.
LEMMA AtPosition ==
  ASSUME TypeOK
  PROVE  /\ At("evaluate") => pos = 4
         /\ At("confirm")  => pos = 6
         /\ At("transport") => pos = 7
         /\ At("assume")   => pos = 8
         /\ At("notify")   => pos = 9
         /\ At("poll")     => pos = 10
         /\ At("flag")     => pos = 12
         /\ At("enforce")  => pos = 14
<1>1. pos \in 1..15
  BY StepNames DEF TypeOK
<1>2. ASSUME NEW s, At(s) PROVE pos \in 1..Len(StepList) /\ StepList[pos] = s
  BY <1>1, <1>2, StepNames DEF At
<1>3. \A k \in 1..Len(StepList) : At(StepList[k]) => pos = k
  BY <1>2, StepsDiffer
<1> QED BY <1>3, StepNames

Outcomes == {"success", "failure", "skipped", "cancelled"}

\* A step has ended, and what its outcome tells.
StepEnds(s, o) ==
  /\ At(s) /\ Ends(s, o)
  /\ o \in Outcomes
  /\ o = "skipped" <=> ~Condition(s)
  /\ o = "cancelled" => s \notin AlwaysSteps
  /\ s = "confirm" /\ o = "success" => ValidateEligibleGate(gate)
  /\ s = "notify" /\ o = "success" => sent # <<>>
  /\ s = "poll" /\ o = "success" => told' = "approved"
  /\ s = "enforce" => o = EnforceVerdict
  /\ s = "verdict" => o # "failure"

SomeStepEnds == \E s \in Steps, o \in Outcomes : StepEnds(s, o)

\* Steps that only end.
LEMMA PlainEnds ==
  ASSUME NEW s \in Steps, NEW o \in {"success", "failure"}, Plain(s, o),
         s = "confirm" /\ o = "success" => ValidateEligibleGate(gate),
         s = "notify" /\ o = "success" => sent # <<>>,
         s # "poll",
         s = "enforce" => o = EnforceVerdict,
         s = "verdict" => o # "failure"
  PROVE  SomeStepEnds
<1>1. StepEnds(s, o)
  BY DEF StepEnds, Plain, Runs, Outcomes
<1> QED BY <1>1 DEF SomeStepEnds, Outcomes

\* Every step of the system ends one step of the job or none.
LEMMA RunnerStep ==
  ASSUME TypeOK, Next
  PROVE  SomeStepEnds \/ UNCHANGED <<inputs, pos, outcome>>
<1> USE StepsAreListed
<1>1. ASSUME NEW s \in Steps, Skip(s) PROVE SomeStepEnds
  <2>1. StepEnds(s, "skipped")
    BY <1>1 DEF Skip, StepEnds, Outcomes, Condition, AlwaysSteps, ApprovalSteps
  <2> QED BY <2>1 DEF SomeStepEnds, Outcomes
<1>2. ASSUME NEW s \in Steps, ToolFails(s) PROVE SomeStepEnds
  <2>1. s \in {"setup", "synthetic", "assume", "post", "flag", "upload"} /\ Plain(s, "failure")
    BY <1>2 DEF ToolFails
  <2> QED BY <2>1, PlainEnds
<1>3. CASE Setup BY <1>3, PlainEnds DEF Setup
<1>4. CASE Guard BY <1>4, PlainEnds DEF Guard
<1>5. CASE ApplySynthetic BY <1>5, PlainEnds DEF ApplySynthetic
<1>6. CASE Evaluate
  <2>1. PICK o \in {"success", "failure"} : Runs("evaluate") /\ Ends("evaluate", o)
    BY <1>6 DEF Evaluate
  <2>2. StepEnds("evaluate", o)
    BY <2>1 DEF StepEnds, Runs, Outcomes
  <2> QED BY <2>2 DEF SomeStepEnds, Outcomes
<1>7. CASE EvaluateCrashes
  <2>1. Runs("evaluate") /\ Ends("evaluate", "failure")
    BY <1>7 DEF EvaluateCrashes
  <2>2. StepEnds("evaluate", "failure")
    BY <2>1 DEF StepEnds, Runs, Outcomes
  <2> QED BY <2>2 DEF SomeStepEnds, Outcomes
<1>8. CASE Verdict BY <1>8, PlainEnds DEF Verdict
<1>9. CASE Confirm BY <1>9, PlainEnds DEF Confirm
<1>10. CASE ValidateTransport BY <1>10, PlainEnds DEF ValidateTransport
<1>11. CASE AssumeRole BY <1>11, PlainEnds DEF AssumeRole
<1>12. CASE NotifyStep
  <2>1. ASSUME NEW r \in Requests, NotifyReaches(r) PROVE UNCHANGED <<inputs, pos, outcome>>
    BY <2>1 DEF NotifyReaches, runner
  <2>2. CASE NotifyAnswered BY <2>2, PlainEnds DEF NotifyAnswered
  <2>3. CASE NotifyFails BY <2>3, PlainEnds DEF NotifyFails
  <2> QED BY <1>12, <2>1, <2>2, <2>3 DEF NotifyStep
<1>13. CASE PollStep
  <2>1. ASSUME NEW status, NEW o \in {"success", "failure"}, Runs("poll"), PollEnds(status, o),
               o = "success" => status = "approved"
        PROVE  SomeStepEnds
    <3>1. StepEnds("poll", o)
      BY <2>1 DEF StepEnds, PollEnds, Runs, Outcomes
    <3> QED BY <3>1 DEF SomeStepEnds, Outcomes
  <2>2. CASE PollTimesOut BY <2>2, <2>1 DEF PollTimesOut
  <2>3. CASE PollIsTold BY <2>3, <2>1 DEF PollIsTold
  <2>4. CASE PollFails BY <2>4, <2>1 DEF PollFails
  <2>5. CASE PollStarts \/ PollAsks \/ BrokerAnswers \/ PollSleeps \/ PollWakes
    BY <2>5 DEF PollStarts, PollAsks, BrokerAnswers, PollSleeps, PollWakes, runner
  <2> QED BY <1>13, <2>2, <2>3, <2>4, <2>5 DEF PollStep
<1>14. CASE Post BY <1>14, PlainEnds DEF Post
<1>15. CASE Flag BY <1>15, PlainEnds DEF Flag
<1>16. CASE Upload BY <1>16, PlainEnds DEF Upload
<1>17. CASE Enforce BY <1>17, PlainEnds DEF Enforce, EnforceVerdict
<1>18. CASE Cancel
  <2>1. PICK s \in Steps \ AlwaysSteps : Runs(s) /\ Ends(s, "cancelled")
    BY <1>18 DEF Cancel
  <2>2. StepEnds(s, "cancelled")
    BY <2>1 DEF StepEnds, Runs, Outcomes, AlwaysSteps
  <2> QED BY <2>1, <2>2 DEF SomeStepEnds, Outcomes
<1>19. CASE NotifyWithdrawn \/ Click \/ Decide \/ Settle \/ Expire \/ Tick
  BY <1>19 DEF NotifyWithdrawn, Click, Decide, Settle, Expire, Tick, runner
<1> QED
  BY <1>1, <1>2, <1>3, <1>4, <1>5, <1>6, <1>7, <1>8, <1>9, <1>10, <1>11, <1>12, <1>13,
     <1>14, <1>15, <1>16, <1>17, <1>18, <1>19
  DEF Next, JobStep

-----------------------------------------------------------------------------
(* What can change each part of the state *)

LEMMA InputsAreTyped ==
  ASSUME TypeOK
  PROVE  /\ inputs.timeout \in Nat
         /\ TimeoutSeconds \in Nat
         /\ ClampTimeout(TimeoutSeconds) \in Nat
         /\ TimeoutSeconds >= MinSeconds => ClampTimeout(TimeoutSeconds) =< TimeoutSeconds
<1>1. inputs \in InputRecords
  BY InputsAssumption DEF TypeOK
<1>2. inputs.timeout \in Nat
  BY <1>1 DEF InputRecords
<1>3. TimeoutSeconds \in Nat
  BY <1>2, LimitsAssumption DEF TimeoutSeconds
<1> QED BY <1>2, <1>3, LimitsAssumption DEF ClampTimeout, AtMost, AtLeast

LEMMA InputsStay ==
  ASSUME Next PROVE inputs' = inputs
<1> QED
  BY DEF Next, JobStep, NotifyStep, PollStep, Skip, ToolFails, Plain, Ends,
         Setup, Guard, ApplySynthetic, Evaluate, EvaluateCrashes, Verdict, Confirm,
         ValidateTransport, AssumeRole, NotifyReaches, NotifyAnswered, NotifyFails,
         PollStarts, PollAsks, PollTimesOut, BrokerAnswers, PollIsTold, PollSleeps,
         PollWakes, PollFails, PollEnds, Post, Flag, Upload, Enforce, Cancel,
         NotifyWithdrawn, Click, Decide, Settle, Expire, Tick, runner

\* Only the evaluate step writes the gate result.
LEMMA GateChanges ==
  ASSUME TypeOK, Next
  PROVE  /\ gate' \in [written : BOOLEAN, findings : SUBSET FindingKinds]
         /\ gate' # gate => At("evaluate")
<1>1. CASE Evaluate
  <2>1. PICK F \in GateResults : gate' = [written |-> TRUE, findings |-> F]
    BY <1>1 DEF Evaluate
  <2>2. F \subseteq FindingKinds
    BY FindingsAssumption DEF GateResults, FindingKinds, BlockKinds
  <2> QED BY <1>1, <2>1, <2>2 DEF Evaluate, Runs
<1>2. CASE EvaluateCrashes
  <2>1. PICK g \in {Unwritten} \cup [written : {TRUE}, findings : GateResults] : gate' = g
    BY <1>2 DEF EvaluateCrashes
  <2>2. \A F \in GateResults : F \subseteq FindingKinds
    BY FindingsAssumption DEF GateResults, FindingKinds, BlockKinds
  <2>3. g \in [written : BOOLEAN, findings : SUBSET FindingKinds]
    <3>1. CASE g = Unwritten BY <3>1 DEF Unwritten
    <3>2. CASE g \in [written : {TRUE}, findings : GateResults] BY <3>2, <2>2
    <3> QED BY <2>1, <3>1, <3>2
  <2> QED BY <1>2, <2>1, <2>3 DEF EvaluateCrashes, Runs
<1>3. CASE ~Evaluate /\ ~EvaluateCrashes
  <2>1. gate' = gate
    BY <1>3
    DEF Next, JobStep, NotifyStep, PollStep, Skip, ToolFails, Plain,
        Setup, Guard, ApplySynthetic, Verdict, Confirm,
        ValidateTransport, AssumeRole, NotifyReaches, NotifyAnswered, NotifyFails,
        PollStarts, PollAsks, PollTimesOut, BrokerAnswers, PollIsTold, PollSleeps,
        PollWakes, PollFails, PollEnds, Post, Flag, Upload, Enforce, Cancel,
        NotifyWithdrawn, Click, Decide, Settle, Expire, Tick, runner
  <2> QED BY <2>1 DEF TypeOK
<1> QED BY <1>1, <1>2, <1>3

\* Requests are opened by the notify step alone; the clock never goes back.
LEMMA SentChanges ==
  ASSUME TypeOK, Next
  PROVE  /\ now' \in Nat /\ now' >= now
         /\ \/ \E r \in Requests : NotifyReaches(r)
            \/ UNCHANGED <<sent, expiresAt>>
<1>1. now \in Nat
  BY DEF TypeOK
<1>2. CASE Tick
  BY <1>1, <1>2 DEF Tick, client, broker
<1>3. CASE NotifyStep
  BY <1>1, <1>3 DEF NotifyStep, NotifyReaches, NotifyAnswered, NotifyFails, Plain, client, broker
<1>4. CASE PollStep
  BY <1>1, <1>4
  DEF PollStep, PollStarts, PollAsks, PollTimesOut, BrokerAnswers, PollIsTold, PollSleeps,
      PollWakes, PollFails, PollEnds, client, broker
<1>5. CASE Next /\ ~Tick /\ ~NotifyStep /\ ~PollStep
  <2>1. UNCHANGED <<now, sent, expiresAt>>
    BY <1>5
    DEF Next, JobStep, Skip, ToolFails, Plain, Setup, Guard, ApplySynthetic, Evaluate,
        EvaluateCrashes, Verdict, Confirm, ValidateTransport, AssumeRole, Post, Flag,
        Upload, Enforce, Cancel, NotifyWithdrawn, Click, Decide, Settle, Expire,
        client, broker
  <2> QED BY <1>1, <2>1
<1> QED BY <1>2, <1>3, <1>4, <1>5

\* The broker's requests move as BreakGlassApproval lets them.
Moves(r) ==
  \/ phase'[r] = phase[r] /\ claim'[r] = claim[r]
  \/ /\ phase[r] = "none" /\ phase'[r] = "pending" /\ claim'[r] = claim[r]
     /\ sent' # <<>>
  \/ phase[r] = "pending" /\ phase'[r] \in {"withdrawn", "expired"} /\ claim'[r] = claim[r]
  \/ /\ phase[r] = "pending" /\ phase'[r] = "processing"
     /\ claim'[r] \in Claim
     /\ IsAuthorizedApprover(claim'[r].userId, Repository)
  \/ /\ phase[r] = "processing" /\ phase'[r] = claim[r].decision
     /\ claim'[r] = claim[r]

BrokerMoves ==
  \/ UNCHANGED <<phase, claim>>
  \/ \E r \in Requests :
       \/ Broker!Open(r) /\ sent' # <<>>
       \/ Broker!Withdraw(r) \/ Broker!Expire(r) \/ Broker!Settle(r)
       \/ \E u \in Users, d \in Decisions : Broker!Seize(r, u, d)

LEMMA BrokerStep ==
  ASSUME TypeOK, Next PROVE BrokerMoves
<1>1. CASE NotifyStep
  <2>1. ASSUME NEW r \in Requests, NotifyReaches(r) PROVE BrokerMoves
    <3>1. Broker!Open(r) /\ sent' = Append(sent, r) /\ sent \in Seq(Requests)
      BY <2>1 DEF NotifyReaches, TypeOK
    <3>2. sent' # <<>>
      BY <3>1
    <3> QED BY <3>1, <3>2 DEF BrokerMoves
  <2>2. CASE NotifyAnswered \/ NotifyFails
    BY <2>2 DEF NotifyAnswered, NotifyFails, Plain, broker, BrokerMoves
  <2> QED BY <1>1, <2>1, <2>2 DEF NotifyStep
<1>2. CASE PollStep
  <2>1. CASE BrokerAnswers
    <3>1. CASE phase[Mine] = "pending" /\ expiresAt[Mine] =< now
      <4>1. Broker!Expire(Mine)
        BY <2>1, <3>1 DEF BrokerAnswers
      <4>2. CASE Mine \in Requests
        BY <4>1, <4>2 DEF BrokerMoves
      <4>3. CASE Mine \notin Requests
        <5>1. UNCHANGED phase
          BY <4>1, <4>3 DEF Broker!Expire, Broker!Move, TypeOK
        <5> QED BY <4>1, <5>1 DEF Broker!Expire, BrokerMoves
      <4> QED BY <4>2, <4>3
    <3>2. CASE ~(phase[Mine] = "pending" /\ expiresAt[Mine] =< now)
      BY <2>1, <3>2 DEF BrokerAnswers, BrokerMoves
    <3> QED BY <3>1, <3>2
  <2>2. CASE PollStep /\ ~BrokerAnswers
    BY <2>2
    DEF PollStep, PollStarts, PollAsks, PollTimesOut, PollIsTold, PollSleeps,
        PollWakes, PollFails, PollEnds, broker, BrokerMoves
  <2> QED BY <1>2, <2>1, <2>2
<1>3. CASE NotifyWithdrawn
  <2>1. sent \in Seq(Requests) /\ sent # <<>> /\ Broker!Withdraw(Mine)
    BY <1>3 DEF NotifyWithdrawn, TypeOK
  <2>2. Mine \in Requests
    BY <2>1 DEF Mine
  <2> QED BY <2>1, <2>2 DEF BrokerMoves
<1>4. CASE Decide
  <2>1. PICK r \in Requests :
          click[r] # NoClaim /\ Broker!Seize(r, click[r].userId, click[r].decision)
    BY <1>4 DEF Decide
  <2>2. click[r] \in Claim
    BY <2>1 DEF TypeOK
  <2>3. click[r].userId \in Users /\ click[r].decision \in Decisions
    BY <2>2 DEF Claim
  <2> QED BY <2>1, <2>3 DEF BrokerMoves
<1>5. CASE Settle \/ Expire \/ Click \/ Tick
  BY <1>5 DEF Settle, Expire, Click, Tick, broker, BrokerMoves
<1>6. CASE Next /\ ~NotifyStep /\ ~PollStep /\ ~NotifyWithdrawn /\ ~Decide
           /\ ~Settle /\ ~Expire /\ ~Click /\ ~Tick
  BY <1>6
  DEF Next, JobStep, Skip, ToolFails, Plain, Setup, Guard, ApplySynthetic, Evaluate,
      EvaluateCrashes, Verdict, Confirm, ValidateTransport, AssumeRole, Post, Flag,
      Upload, Enforce, Cancel, broker, BrokerMoves
<1> QED BY <1>1, <1>2, <1>3, <1>4, <1>5, <1>6

\* Each request moves in that way, and the types are kept.
LEMMA RequestMoves ==
  ASSUME TypeOK, BrokerInv, BrokerMoves
  PROVE  /\ phase' \in [Requests -> Broker!Phases]
         /\ claim' \in [Requests -> Claim \cup {NoClaim}]
         /\ \A r \in Requests : Moves(r)
<1> USE DEF Broker!Phases, Broker!Decisions, Decisions
<1>1. /\ phase \in [Requests -> Broker!Phases]
      /\ claim \in [Requests -> Claim \cup {NoClaim}]
  BY DEF TypeOK
<1>2. CASE UNCHANGED <<phase, claim>>
  BY <1>1, <1>2 DEF Moves
<1>3. ASSUME NEW r \in Requests,
             (Broker!Open(r) /\ sent' # <<>>) \/ Broker!Withdraw(r) \/ Broker!Expire(r)
      PROVE  /\ phase' \in [Requests -> Broker!Phases]
             /\ claim' \in [Requests -> Claim \cup {NoClaim}]
             /\ \A q \in Requests : Moves(q)
  BY <1>1, <1>3
  DEF Broker!Open, Broker!Withdraw, Broker!Expire, Broker!Move, Moves
<1>4. ASSUME NEW r \in Requests, Broker!Settle(r)
      PROVE  /\ phase' \in [Requests -> Broker!Phases]
             /\ claim' \in [Requests -> Claim \cup {NoClaim}]
             /\ \A q \in Requests : Moves(q)
  <2>1. phase[r] = "processing" /\ phase' = [phase EXCEPT ![r] = claim[r].decision]
        /\ claim' = claim
    BY <1>4 DEF Broker!Settle, Broker!Move
  <2>2. claim[r] \in Claim
    BY <2>1 DEF BrokerInv
  <2>3. claim[r].decision \in Decisions
    BY <2>2 DEF Claim
  <2> QED BY <1>1, <2>1, <2>3 DEF Moves
<1>5. ASSUME NEW r \in Requests, NEW u \in Users, NEW d \in Decisions, Broker!Seize(r, u, d)
      PROVE  /\ phase' \in [Requests -> Broker!Phases]
             /\ claim' \in [Requests -> Claim \cup {NoClaim}]
             /\ \A q \in Requests : Moves(q)
  <2>1. /\ phase[r] = "pending" /\ phase' = [phase EXCEPT ![r] = "processing"]
        /\ claim' = [claim EXCEPT ![r] = [decision |-> d, userId |-> u]]
        /\ IsAuthorizedApprover(u, Repository)
    BY <1>5 DEF Broker!Seize, Broker!Move
  <2>2. [decision |-> d, userId |-> u] \in Claim
    BY DEF Claim
  <2>3. \A q \in Requests : Moves(q)
    BY <1>1, <2>1, <2>2 DEF Moves
  <2> QED BY <1>1, <2>1, <2>2, <2>3
<1> QED BY <1>2, <1>3, <1>4, <1>5 DEF BrokerMoves

\* The poll's state and the status it ended with change in the poll step alone.
LEMMA PollChanges ==
  ASSUME Next
  PROVE  PollStep \/ UNCHANGED <<poll, told>>
<1>1. CASE NotifyStep
  BY <1>1 DEF NotifyStep, NotifyReaches, NotifyAnswered, NotifyFails, Plain, client
<1>2. CASE Next /\ ~PollStep /\ ~NotifyStep
  BY <1>2
  DEF Next, JobStep, Skip, ToolFails, Plain, Setup, Guard, ApplySynthetic, Evaluate,
      EvaluateCrashes, Verdict, Confirm, ValidateTransport, AssumeRole, Post, Flag,
      Upload, Enforce, Cancel, NotifyWithdrawn, Click, Decide, Settle, Expire, Tick, client
<1> QED BY <1>1, <1>2

-----------------------------------------------------------------------------
(* The order of the steps *)

\* The named steps have ended when the job is past them.
LEMMA StepsInOrder ==
  ASSUME TypeOK, StepInv
  PROVE  /\ pos \in 1..15
         /\ outcome["evaluate"] = "waiting" <=> pos =< 4
         /\ outcome["confirm"]  = "waiting" <=> pos =< 6
         /\ outcome["transport"] = "waiting" <=> pos =< 7
         /\ outcome["assume"]   = "waiting" <=> pos =< 8
         /\ outcome["notify"]   = "waiting" <=> pos =< 9
         /\ outcome["poll"]     = "waiting" <=> pos =< 10
         /\ outcome["flag"]     = "waiting" <=> pos =< 12
         /\ outcome["enforce"]  = "waiting" <=> pos =< 14
BY StepNames DEF TypeOK, StepInv

\* A step's outcome is set once, when the step is the current one.
LEMMA OutcomeIsSetOnce ==
  ASSUME TypeOK, StepInv, Next, NEW s \in Steps
  PROVE  \/ outcome'[s] = outcome[s]
         \/ outcome[s] = "waiting" /\ At(s) /\ StepEnds(s, outcome'[s])
<1>1. CASE SomeStepEnds
  <2>1. PICK t \in Steps, o \in Outcomes : StepEnds(t, o)
    BY <1>1 DEF SomeStepEnds
  <2>2. outcome' = [outcome EXCEPT ![t] = o] /\ At(t)
    BY <2>1 DEF StepEnds, Ends
  <2>3. pos \in 1..Len(StepList) /\ StepList[pos] = t
    BY <2>2, StepNames DEF At, TypeOK
  <2>4. outcome[t] = "waiting"
    BY <2>3 DEF StepInv
  <2>5. CASE s = t
    <3>1. outcome'[s] = o
      BY <2>2, <2>5 DEF TypeOK
    <3> QED BY <2>1, <2>2, <2>4, <2>5, <3>1
  <2>6. CASE s # t
    BY <2>2, <2>6 DEF TypeOK
  <2> QED BY <2>5, <2>6
<1>2. CASE UNCHANGED outcome
  BY <1>2
<1> QED BY <1>1, <1>2, RunnerStep

\* A job that succeeds has succeeded so far.
LEMMA SucceededBefore ==
  ASSUME TypeOK, StepInv, Next, Succeeding'
  PROVE  Succeeding
<1>1. \A s \in Steps : outcome'[s] # "cancelled" /\ (s \notin ContinueOnError => outcome'[s] # "failure")
  BY DEF Succeeding, Cancelled
<1>2. ASSUME NEW s \in Steps
      PROVE  outcome[s] # "cancelled" /\ (s \notin ContinueOnError => outcome[s] # "failure")
  BY <1>1, <1>2, OutcomeIsSetOnce
<1> QED BY <1>2 DEF Succeeding, Cancelled

\* The gate result, and whether break-glass is entered, are final after evaluate.
LEMMA GateIsFinal ==
  ASSUME TypeOK, StepInv, Next, pos > 4
  PROVE  /\ gate' = gate
         /\ EntersBreakGlass' <=> EntersBreakGlass
         /\ ValidateEligibleGate(gate)' <=> ValidateEligibleGate(gate)
<1>1. gate' = gate
  BY GateChanges, AtPosition
<1>2. outcome'["evaluate"] = outcome["evaluate"]
  <2>1. "evaluate" \in Steps /\ outcome["evaluate"] # "waiting"
    BY StepsAreListed, StepsInOrder
  <2> QED BY <2>1, OutcomeIsSetOnce
<1>3. EntersBreakGlass' <=> EntersBreakGlass
  BY <1>2, InputsStay DEF EntersBreakGlass
<1> QED BY <1>1, <1>3

LEMMA TimeoutStays ==
  ASSUME Next PROVE TimeoutSeconds' = TimeoutSeconds
BY InputsStay DEF TimeoutSeconds

\* The last request stays the last, once the notify step has ended.
LEMMA MineStays ==
  ASSUME TypeOK, StepInv, Next, pos > 9
  PROVE  UNCHANGED <<sent, expiresAt>> /\ Mine' = Mine
<1>1. \A r \in Requests : ~NotifyReaches(r)
  BY AtPosition DEF NotifyReaches, Runs
<1> QED BY <1>1, SentChanges DEF Mine

\* A request that was opened is never forgotten.
LEMMA SentIsKept ==
  ASSUME TypeOK, Next, sent # <<>> PROVE sent' # <<>>
<1>1. ASSUME NEW r \in Requests, NotifyReaches(r) PROVE sent' # <<>>
  <2>1. sent \in Seq(Requests) /\ sent' = Append(sent, r)
    BY <1>1 DEF NotifyReaches, TypeOK
  <2> QED BY <2>1
<1> QED BY <1>1, SentChanges

LEMMA MineIsRequest ==
  ASSUME TypeOK, sent # <<>> PROVE Mine \in Requests
BY DEF TypeOK, Mine

-----------------------------------------------------------------------------
(* One lemma per part of the inductive invariant *)

LEMMA PollIsTyped ==
  ASSUME TypeOK, PollInv, Next
  PROVE  /\ poll' \in [ at       : {"idle", "check", "asked", "answered", "sleeping"},
                         deadline : Nat,
                         wake     : Nat,
                         answer   : {"none"} \cup Broker!Phases ]
         /\ told' \in {"none", "timeout", "approved", "denied", "expired"}
<1> USE DEF Broker!Phases, Broker!Decisions
<1>1. /\ now \in Nat /\ Interval \in Nat /\ TimeoutSeconds \in Nat
      /\ now + TimeoutSeconds \in Nat /\ now + Interval \in Nat
  BY InputsAreTyped, ClockAssumption DEF TypeOK
<1>2. IdlePoll \in [ at       : {"idle", "check", "asked", "answered", "sleeping"},
                      deadline : Nat,
                      wake     : Nat,
                      answer   : {"none"} \cup Broker!Phases ]
  BY DEF IdlePoll
<1>3. CASE UNCHANGED <<poll, told>>
  BY <1>3 DEF TypeOK
<1>4. CASE PollStarts BY <1>1, <1>4 DEF PollStarts, TypeOK
<1>5. CASE PollAsks BY <1>5 DEF PollAsks, PollGoto, TypeOK
<1>6. CASE PollTimesOut BY <1>2, <1>6 DEF PollTimesOut, PollEnds
<1>7. CASE BrokerAnswers
  <2>1. sent # <<>>
    BY <1>7 DEF BrokerAnswers, PollInv
  <2>2. phase[Mine] \in Broker!Phases
    BY <2>1, MineIsRequest DEF TypeOK
  <2>3. told' = told
    BY <1>7 DEF BrokerAnswers
  <2> QED BY <1>7, <2>2, <2>3 DEF BrokerAnswers, Answer, TypeOK
<1>8. CASE PollIsTold BY <1>2, <1>8 DEF PollIsTold, PollEnds, Terminal
<1>9. CASE PollSleeps BY <1>1, <1>9 DEF PollSleeps, TypeOK
<1>10. CASE PollWakes BY <1>10 DEF PollWakes, PollGoto, TypeOK
<1>11. CASE PollFails BY <1>2, <1>11 DEF PollFails, PollEnds
<1> QED
  BY <1>3, <1>4, <1>5, <1>6, <1>7, <1>8, <1>9, <1>10, <1>11, PollChanges DEF PollStep

\* A click is begun by Click and ended by Decide.
LEMMA ClickStays ==
  ASSUME Next, ~Click, ~Decide PROVE click' = click
<1>1. CASE NotifyStep
  BY <1>1 DEF NotifyStep, NotifyReaches, NotifyAnswered, NotifyFails, Plain, broker
<1>2. CASE PollStep
  BY <1>2
  DEF PollStep, PollStarts, PollAsks, PollTimesOut, BrokerAnswers, PollIsTold, PollSleeps,
      PollWakes, PollFails, PollEnds, broker
<1>3. CASE Next /\ ~Click /\ ~Decide /\ ~NotifyStep /\ ~PollStep
  BY <1>3
  DEF Next, JobStep, Skip, ToolFails, Plain, Setup, Guard, ApplySynthetic, Evaluate,
      EvaluateCrashes, Verdict, Confirm, ValidateTransport, AssumeRole, Post, Flag,
      Upload, Enforce, Cancel, NotifyWithdrawn, Settle, Expire, Tick, broker
<1> QED BY <1>1, <1>2, <1>3

LEMMA ClickIsTyped ==
  ASSUME TypeOK, Next PROVE click' \in [Requests -> Claim \cup {NoClaim}]
<1>1. CASE Click
  <2>1. PICK r \in Requests, u \in Users, d \in Decisions :
          click' = [click EXCEPT ![r] = [decision |-> d, userId |-> u]]
    BY <1>1 DEF Click
  <2>2. [decision |-> d, userId |-> u] \in Claim
    BY DEF Claim
  <2> QED BY <2>1, <2>2 DEF TypeOK
<1>2. CASE Decide
  BY <1>2 DEF Decide, TypeOK
<1>3. CASE ~Click /\ ~Decide
  BY <1>3, ClickStays DEF TypeOK
<1> QED BY <1>1, <1>2, <1>3

LEMMA SentIsTyped ==
  ASSUME TypeOK, Next PROVE sent' \in Seq(Requests) /\ expiresAt' \in [Requests -> Nat]
<1>1. CASE UNCHANGED <<sent, expiresAt>>
  BY <1>1 DEF TypeOK
<1>2. ASSUME NEW r \in Requests, NotifyReaches(r)
      PROVE  sent' \in Seq(Requests) /\ expiresAt' \in [Requests -> Nat]
  <2>1. /\ sent' = Append(sent, r)
        /\ expiresAt' = [expiresAt EXCEPT ![r] = now + ClampTimeout(TimeoutSeconds)]
    BY <1>2 DEF NotifyReaches
  <2>2. now + ClampTimeout(TimeoutSeconds) \in Nat
    BY InputsAreTyped DEF TypeOK
  <2> QED BY <2>1, <2>2 DEF TypeOK
<1> QED BY <1>1, <1>2, SentChanges

LEMMA RunnerIsTyped ==
  ASSUME TypeOK, Next
  PROVE  /\ inputs' \in Inputs
         /\ pos' \in 1..(Len(StepList) + 1)
         /\ outcome' \in [Steps -> {"waiting", "success", "failure", "skipped", "cancelled"}]
<1>1. CASE SomeStepEnds
  <2>1. PICK s \in Steps, o \in Outcomes : At(s) /\ Ends(s, o)
    BY <1>1 DEF SomeStepEnds, StepEnds
  <2>2. pos' \in 1..(Len(StepList) + 1)
    BY <2>1, StepNames DEF At, Ends, TypeOK
  <2> QED BY <2>1, <2>2 DEF Ends, Outcomes, TypeOK
<1>2. CASE UNCHANGED <<inputs, pos, outcome>>
  BY <1>2 DEF TypeOK
<1> QED BY <1>1, <1>2, RunnerStep

LEMMA TypeIsKept ==
  ASSUME TypeOK, PollInv, BrokerInv, Next PROVE TypeOK'
<1>1. /\ phase' \in [Requests -> Broker!Phases]
      /\ claim' \in [Requests -> Claim \cup {NoClaim}]
  BY BrokerStep, RequestMoves
<1>2. gate' \in [written : BOOLEAN, findings : SUBSET FindingKinds]
  BY GateChanges
<1>3. now' \in Nat
  BY SentChanges
<1> QED
  BY <1>1, <1>2, <1>3, RunnerIsTyped, SentIsTyped, PollIsTyped, ClickIsTyped DEF TypeOK

LEMMA StepInvIsKept ==
  ASSUME TypeOK, StepInv, Next PROVE StepInv'
<1>1. CASE SomeStepEnds
  <2>1. PICK s \in Steps, o \in Outcomes : At(s) /\ Ends(s, o)
    BY <1>1 DEF SomeStepEnds, StepEnds
  <2>2. /\ pos \in 1..Len(StepList) /\ StepList[pos] = s
        /\ outcome' = [outcome EXCEPT ![s] = o] /\ pos' = pos + 1
    BY <2>1, StepNames DEF At, Ends, TypeOK
  <2>3. ASSUME NEW i \in 1..Len(StepList)
        PROVE  outcome'[StepList[i]] = "waiting" <=> pos' =< i
    <3>1. StepList[i] \in Steps
      BY DEF Steps
    <3>2. CASE i = pos
      <4>1. outcome'[StepList[i]] = o
        BY <2>2, <3>1, <3>2 DEF TypeOK
      <4> QED BY <4>1, <2>2, <3>2, StepNames DEF Outcomes
    <3>3. CASE i # pos
      <4>1. StepList[i] # s
        BY <2>2, <3>3, StepsDiffer
      <4>2. outcome'[StepList[i]] = outcome[StepList[i]]
        BY <2>2, <3>1, <4>1 DEF TypeOK
      <4>3. pos =< i <=> pos' =< i
        BY <2>2, <3>3, StepNames
      <4> QED BY <4>2, <4>3 DEF StepInv
    <3> QED BY <3>2, <3>3
  <2> QED BY <2>3 DEF StepInv
<1>2. CASE UNCHANGED <<inputs, pos, outcome>>
  BY <1>2 DEF StepInv
<1> QED BY <1>1, <1>2, RunnerStep

LEMMA BrokerInvIsKept ==
  ASSUME TypeOK, BrokerInv, Next PROVE BrokerInv'
<1>1. \A r \in Requests : Moves(r)
  BY BrokerStep, RequestMoves
<1>2. ASSUME NEW r \in Requests
      PROVE  /\ phase'[r] \in {"processing"} \cup Decisions =>
                  claim'[r] \in Claim /\ IsAuthorizedApprover(claim'[r].userId, Repository)
             /\ phase'[r] \in Decisions => phase'[r] = claim'[r].decision
  BY <1>1 DEF Moves, BrokerInv, Decisions
<1> QED BY <1>2 DEF BrokerInv

LEMMA OutcomeInvIsKept ==
  ASSUME TypeOK, StepInv, OutcomeInv, PollInv, Next PROVE OutcomeInv'
<1> USE StepsAreListed
<1>1. \A s \in Steps : \/ outcome'[s] = outcome[s]
                       \/ outcome[s] = "waiting" /\ At(s) /\ StepEnds(s, outcome'[s])
  BY OutcomeIsSetOnce
<1>2. outcome'["confirm"] # "waiting" /\ Succeeding' /\ EntersBreakGlass' =>
        ValidateEligibleGate(gate)'
  <2> SUFFICES ASSUME outcome'["confirm"] # "waiting", Succeeding', EntersBreakGlass'
               PROVE  ValidateEligibleGate(gate)'
    OBVIOUS
  <2>1. pos > 4
    BY <1>1, AtPosition, StepsInOrder
  <2>2. Succeeding /\ EntersBreakGlass /\ gate' = gate
    BY <2>1, SucceededBefore, GateIsFinal
  <2>3. CASE outcome["confirm"] # "waiting"
    BY <2>1, <2>2, <2>3, GateIsFinal DEF OutcomeInv
  <2>4. CASE outcome["confirm"] = "waiting"
    <3>1. StepEnds("confirm", outcome'["confirm"])
      BY <1>1, <2>4
    <3>2. outcome'["confirm"] \notin {"failure", "cancelled"}
      BY DEF Succeeding, Cancelled, ContinueOnError
    <3>3. Condition("confirm")
      BY <2>2 DEF Condition
    <3>4. outcome'["confirm"] = "success"
      BY <3>1, <3>2, <3>3 DEF StepEnds, Outcomes
    <3> QED BY <2>1, <3>1, <3>4, GateIsFinal DEF StepEnds
  <2> QED BY <2>3, <2>4
<1>3. outcome'["assume"] = "success" => ValidateEligibleGate(gate)'
  <2> SUFFICES ASSUME outcome'["assume"] = "success"
               PROVE  ValidateEligibleGate(gate)'
    OBVIOUS
  <2>1. pos > 6
    BY <1>1, AtPosition, StepsInOrder
  <2>2. ValidateEligibleGate(gate)
    <3>1. CASE outcome["assume"] = "success"
      BY <3>1 DEF OutcomeInv
    <3>2. CASE outcome["assume"] # "success"
      <4>1. StepEnds("assume", "success")
        BY <1>1, <3>2
      <4>2. Succeeding /\ EntersBreakGlass
        BY <4>1 DEF StepEnds, Condition, AlwaysSteps, ApprovalSteps
      <4> QED BY <4>2, <2>1, StepsInOrder DEF OutcomeInv
    <3> QED BY <3>1, <3>2
  <2> QED BY <2>1, <2>2, GateIsFinal, StepsInOrder
<1>4. outcome'["notify"] # "waiting" /\ Succeeding' /\ EntersBreakGlass' => sent' # <<>>
  <2> SUFFICES ASSUME outcome'["notify"] # "waiting", Succeeding', EntersBreakGlass'
               PROVE  sent' # <<>>
    OBVIOUS
  <2>1. pos > 4
    BY <1>1, AtPosition, StepsInOrder
  <2>2. Succeeding /\ EntersBreakGlass
    BY <2>1, SucceededBefore, GateIsFinal
  <2>3. CASE outcome["notify"] # "waiting"
    BY <2>2, <2>3, StepsInOrder, MineStays DEF OutcomeInv
  <2>4. CASE outcome["notify"] = "waiting"
    <3>1. StepEnds("notify", outcome'["notify"])
      BY <1>1, <2>4
    <3>2. outcome'["notify"] \notin {"failure", "cancelled"}
      BY DEF Succeeding, Cancelled, ContinueOnError
    <3>3. Condition("notify")
      BY <2>2 DEF Condition
    <3>4. sent # <<>>
      BY <3>1, <3>2, <3>3 DEF StepEnds, Outcomes
    <3> QED BY <3>4, SentIsKept
  <2> QED BY <2>3, <2>4
<1>5. outcome'["poll"] = "success" => told' = "approved"
  <2>1. CASE outcome["poll"] = "waiting"
    BY <1>1, <2>1 DEF StepEnds
  <2>2. CASE outcome["poll"] # "waiting"
    <3>1. outcome'["poll"] = outcome["poll"]
      BY <1>1, <2>2
    <3>2. ~At("poll")
      BY <2>2, AtPosition, StepsInOrder
    <3>3. told' = told
      BY <3>2, PollChanges
      DEF PollStep, PollStarts, PollAsks, PollTimesOut, BrokerAnswers, PollIsTold,
          PollSleeps, PollWakes, PollFails, Runs
    <3> QED BY <3>1, <3>3 DEF OutcomeInv
  <2> QED BY <2>1, <2>2
<1>6. outcome'["flag"] # "waiting" /\ ~IntegrityTrusted(gate)' =>
        outcome'["flag"] \in {"success", "failure"}
  <2> SUFFICES ASSUME outcome'["flag"] # "waiting", ~IntegrityTrusted(gate)'
               PROVE  outcome'["flag"] \in {"success", "failure"}
    OBVIOUS
  <2>1. pos > 4
    BY <1>1, AtPosition, StepsInOrder
  <2>2. ~IntegrityTrusted(gate)
    BY <2>1, GateIsFinal
  <2>3. CASE outcome["flag"] # "waiting"
    BY <1>1, <2>2, <2>3 DEF OutcomeInv
  <2>4. CASE outcome["flag"] = "waiting"
    <3>1. StepEnds("flag", outcome'["flag"])
      BY <1>1, <2>4
    <3>2. Condition("flag")
      BY <2>2 DEF Condition, AlwaysSteps, ApprovalSteps
    <3> QED BY <3>1, <3>2 DEF StepEnds, Outcomes, AlwaysSteps
  <2> QED BY <2>3, <2>4
<1>7. outcome'["enforce"] # "waiting" => outcome'["enforce"] = EnforceVerdict'
  <2> SUFFICES ASSUME outcome'["enforce"] # "waiting"
               PROVE  outcome'["enforce"] = EnforceVerdict'
    OBVIOUS
  <2>1. pos > 10
    BY <1>1, AtPosition, StepsInOrder
  <2>2. outcome'["poll"] = outcome["poll"]
    BY <1>1, <2>1, StepsInOrder
  <2>3. EnforceVerdict' = EnforceVerdict
    BY <2>1, <2>2, GateIsFinal, InputsStay, StepsInOrder DEF EnforceVerdict
  <2>4. outcome'["enforce"] = EnforceVerdict
    BY <1>1 DEF StepEnds, OutcomeInv
  <2> QED BY <2>3, <2>4
<1>8. outcome'["verdict"] # "failure"
  BY <1>1 DEF StepEnds, OutcomeInv
<1>9. ASSUME NEW s \in ApprovalSteps, outcome'[s] \in {"success", "failure"}
      PROVE  EntersBreakGlass'
  <2>1. s \in Steps
    BY DEF ApprovalSteps
  <2>2. CASE outcome'[s] = outcome[s]
    <3>1. EntersBreakGlass
      BY <1>9, <2>2 DEF OutcomeInv
    <3>2. pos > 4
      BY <1>9, <2>2, StepsInOrder DEF ApprovalSteps
    <3> QED BY <3>1, <3>2, GateIsFinal
  <2>3. CASE At(s) /\ StepEnds(s, outcome'[s])
    <3>1. EntersBreakGlass
      BY <1>9, <2>3 DEF StepEnds, Condition
    <3>2. pos > 4
      BY <2>3, AtPosition DEF ApprovalSteps
    <3> QED BY <3>1, <3>2, GateIsFinal
  <2> QED BY <1>1, <2>1, <2>2, <2>3
<1> QED BY <1>2, <1>3, <1>4, <1>5, <1>6, <1>7, <1>8, <1>9 DEF OutcomeInv

LEMMA SentInvIsKept ==
  ASSUME TypeOK, StepInv, OutcomeInv, SentInv, BrokerInv, Next PROVE SentInv'
<1>1. sent' # <<>> =>
        /\ outcome'["assume"] # "waiting"
        /\ EntersBreakGlass' /\ ValidateEligibleGate(gate)'
        /\ (expiresAt[Mine] =< now + ClampTimeout(TimeoutSeconds))'
  <2>1. ASSUME NEW r \in Requests, NotifyReaches(r)
        PROVE  /\ outcome["assume"] # "waiting"
               /\ EntersBreakGlass /\ ValidateEligibleGate(gate)
               /\ expiresAt'[Mine'] =< now' + ClampTimeout(TimeoutSeconds)
    <3>1. /\ At("notify") /\ Condition("notify") /\ NotifyIsValid
          /\ sent' = Append(sent, r) /\ now' = now
          /\ expiresAt' = [expiresAt EXCEPT ![r] = now + ClampTimeout(TimeoutSeconds)]
      BY <2>1 DEF NotifyReaches, Runs
    <3>2. outcome["assume"] # "waiting"
      BY <3>1, AtPosition, StepsInOrder
    <3>3. EntersBreakGlass /\ ValidateEligibleGate(gate)
      BY <3>1 DEF Condition, ApprovalSteps, NotifyIsValid
    <3>4. Mine' = r
      BY <3>1 DEF Mine, TypeOK
    <3>5. expiresAt'[r] = now + ClampTimeout(TimeoutSeconds)
      BY <3>1 DEF TypeOK
    <3>6. now + ClampTimeout(TimeoutSeconds) \in Nat
      BY InputsAreTyped DEF TypeOK
    <3> QED BY <3>1, <3>2, <3>3, <3>4, <3>5, <3>6
  <2>2. ASSUME UNCHANGED <<sent, expiresAt>>, sent # <<>>
        PROVE  /\ outcome["assume"] # "waiting"
               /\ EntersBreakGlass /\ ValidateEligibleGate(gate)
               /\ expiresAt'[Mine'] =< now' + ClampTimeout(TimeoutSeconds)
    <3>1. Mine' = Mine /\ Mine \in Requests
      BY <2>2, MineIsRequest DEF Mine
    <3>2. expiresAt[Mine] \in Nat /\ now \in Nat /\ now' \in Nat /\ now' >= now
      BY <3>1, SentChanges DEF TypeOK
    <3>3. expiresAt[Mine] =< now' + ClampTimeout(TimeoutSeconds)
      BY <2>2, <3>2, InputsAreTyped DEF SentInv
    <3> QED BY <2>2, <3>1, <3>3 DEF SentInv
  <2> SUFFICES ASSUME sent' # <<>>
               PROVE  /\ outcome'["assume"] # "waiting"
                      /\ EntersBreakGlass' /\ ValidateEligibleGate(gate)'
                      /\ (expiresAt[Mine] =< now + ClampTimeout(TimeoutSeconds))'
    OBVIOUS
  <2>3. /\ outcome["assume"] # "waiting"
        /\ EntersBreakGlass /\ ValidateEligibleGate(gate)
        /\ expiresAt'[Mine'] =< now' + ClampTimeout(TimeoutSeconds)
    BY <2>1, <2>2, SentChanges
  <2>4. pos > 8 /\ outcome'["assume"] = outcome["assume"]
    BY <2>3, StepsInOrder, OutcomeIsSetOnce, StepsAreListed
  <2>5. EntersBreakGlass' /\ ValidateEligibleGate(gate)'
    BY <2>3, <2>4, GateIsFinal, StepsInOrder
  <2>6. ClampTimeout(TimeoutSeconds)' = ClampTimeout(TimeoutSeconds)
    BY TimeoutStays DEF ClampTimeout
  <2> QED BY <2>3, <2>4, <2>5, <2>6
<1>2. sent' = <<>> => \A r \in Requests : phase'[r] = "none"
  <2> SUFFICES ASSUME sent' = <<>>, NEW r \in Requests PROVE phase'[r] = "none"
    OBVIOUS
  <2>1. sent = <<>>
    BY SentIsKept
  <2>2. phase[r] = "none" /\ Moves(r)
    BY <2>1, BrokerStep, RequestMoves DEF SentInv
  <2> QED BY <2>2 DEF Moves
<1> QED BY <1>1, <1>2 DEF SentInv

\* An end of a request is never left, whatever the step.
LEMMA EndStays ==
  ASSUME TypeOK, StepInv, BrokerInv, Next, pos > 9, sent # <<>>, phase[Mine] \in Terminal
  PROVE  phase'[Mine'] = phase[Mine]
<1>1. Mine \in Requests /\ Mine' = Mine
  BY MineIsRequest, MineStays
<1>2. Moves(Mine)
  BY <1>1, BrokerStep, RequestMoves
<1> QED BY <1>1, <1>2 DEF Moves, Terminal

LEMMA PollInvIsKept ==
  ASSUME TypeOK, StepInv, OutcomeInv, SentInv, PollInv, BrokerInv, Next PROVE PollInv'
<1>1. CASE PollStep
  <2>1. /\ At("poll") /\ Condition("poll") /\ sent \in Seq(Requests)
        /\ now \in Nat
    BY <1>1
    DEF PollStep, PollStarts, PollAsks, PollTimesOut, BrokerAnswers, PollIsTold,
        PollSleeps, PollWakes, PollFails, Runs, TypeOK
  <2>2. pos = 10
    BY <2>1, AtPosition
  <2>3. Succeeding /\ EntersBreakGlass
    BY <2>1 DEF Condition, AlwaysSteps, ApprovalSteps
  <2>4. sent # <<>> /\ outcome["notify"] # "waiting"
    BY <2>2, <2>3, StepsInOrder DEF OutcomeInv
  <2>5. sent' = sent /\ Mine' = Mine /\ expiresAt' = expiresAt /\ sent' # <<>>
    BY <2>2, <2>4, MineStays
  <2>6. outcome'["notify"] # "waiting"
    BY <2>4, OutcomeIsSetOnce, StepsAreListed
  <2>7. Mine \in Requests /\ expiresAt[Mine] \in Nat
    BY <2>4, MineIsRequest DEF TypeOK
  <2>8. outcome["poll"] = "waiting" /\ told = "none"
    BY <2>2, StepsInOrder DEF PollInv
  <2>9. now' = now
    BY <1>1
    DEF PollStep, PollStarts, PollAsks, PollTimesOut, BrokerAnswers, PollIsTold,
        PollSleeps, PollWakes, PollFails, PollEnds
  <2>10. TimeoutSeconds' = TimeoutSeconds
    BY TimeoutStays
  <2>11. poll \in [ at       : {"idle", "check", "asked", "answered", "sleeping"},
                    deadline : Nat, wake : Nat,
                    answer   : {"none"} \cup Broker!Phases ]
    BY DEF TypeOK
  <2>12. CASE PollStarts
    <3>1. poll'.at = "check" /\ poll'.deadline = now + TimeoutSeconds /\ told' = told
      BY <2>11, <2>12 DEF PollStarts
    <3>2. TimeoutSeconds >= MinSeconds => expiresAt[Mine] =< poll'.deadline
      BY <2>1, <2>4, <2>7, <3>1, InputsAreTyped, LimitsAssumption DEF SentInv
    <3> QED
      BY <2>5, <2>6, <2>8, <2>10, <3>1, <3>2 DEF PollInv, Terminal
  <2>13. CASE PollAsks \/ PollSleeps \/ PollWakes
    <3>1. /\ poll'.at \in {"asked", "sleeping", "check"} /\ poll'.deadline = poll.deadline
          /\ told' = told /\ poll.at # "idle"
      BY <2>11, <2>13 DEF PollAsks, PollSleeps, PollWakes, PollGoto
    <3> QED
      BY <2>5, <2>6, <2>8, <2>10, <3>1 DEF PollInv, Terminal
  <2>14. CASE BrokerAnswers
    <3>1. /\ poll'.at = "answered" /\ poll'.deadline = poll.deadline
          /\ told' = told /\ poll.at = "asked"
      BY <2>11, <2>14 DEF BrokerAnswers
    <3>2. poll'.answer = phase'[Mine]
      <4>1. CASE phase[Mine] = "pending" /\ expiresAt[Mine] =< now
        <5>1. poll'.answer = "expired" /\ Broker!Expire(Mine)
          BY <2>11, <2>14, <4>1 DEF BrokerAnswers
        <5>2. phase' = [phase EXCEPT ![Mine] = "expired"]
          BY <5>1 DEF Broker!Expire, Broker!Move
        <5> QED BY <2>7, <5>1, <5>2 DEF TypeOK
      <4>2. CASE ~(phase[Mine] = "pending" /\ expiresAt[Mine] =< now)
        BY <2>11, <2>14, <4>2 DEF BrokerAnswers, Answer
      <4> QED BY <4>1, <4>2
    <3> QED
      BY <2>5, <2>6, <2>8, <2>10, <3>1, <3>2 DEF PollInv, Terminal
  <2>15. CASE PollTimesOut \/ PollIsTold \/ PollFails
    <3>1. poll'.at = "idle" /\ poll.at # "idle" /\ phase' = phase
      BY <2>15 DEF PollTimesOut, PollIsTold, PollFails, PollEnds, IdlePoll, broker
    <3>2. outcome'["poll"] \in {"success", "failure"}
      BY <2>15, StepsAreListed DEF PollTimesOut, PollIsTold, PollFails, PollEnds, Ends, TypeOK
    <3>3. told' \in Terminal => phase[Mine] = told'
      BY <2>15 DEF PollTimesOut, PollIsTold, PollFails, PollEnds, PollInv, Terminal
    <3>4. told' = "timeout" /\ TimeoutSeconds >= MinSeconds => expiresAt[Mine] =< now
      <4>1. CASE PollTimesOut
        <5>1. ~(now < poll.deadline) /\ poll.deadline \in Nat
          BY <2>11, <4>1 DEF PollTimesOut, PollGoesOn
        <5> QED BY <2>1, <2>7, <3>1, <5>1 DEF PollInv
      <4>2. CASE PollIsTold \/ PollFails
        BY <4>2 DEF PollIsTold, PollFails, PollEnds, Terminal
      <4> QED BY <2>15, <4>1, <4>2
    <3> QED
      BY <2>5, <2>9, <2>10, <3>1, <3>2, <3>3, <3>4 DEF PollInv
  <2> QED
    BY <1>1, <2>12, <2>13, <2>14, <2>15 DEF PollStep
<1>2. CASE ~PollStep
  <2>1. poll' = poll /\ told' = told
    BY <1>2, PollChanges
  <2>2. CASE poll.at = "idle" /\ told = "none"
    BY <2>1, <2>2 DEF PollInv, Terminal
  <2>3. CASE poll.at # "idle" \/ told # "none"
    <3>1. sent # <<>> /\ pos > 9
      BY <2>3, StepsInOrder DEF PollInv
    <3>2. sent' = sent /\ Mine' = Mine /\ expiresAt' = expiresAt
      BY <3>1, MineStays
    <3>3. TimeoutSeconds' = TimeoutSeconds
      BY TimeoutStays
    <3>4. /\ outcome["notify"] # "waiting" => outcome'["notify"] # "waiting"
          /\ outcome["poll"] # "waiting" => outcome'["poll"] # "waiting"
      BY OutcomeIsSetOnce, StepsAreListed
    <3>5. phase[Mine] \in Terminal => phase'[Mine'] = phase[Mine]
      BY <3>1, EndStays
    <3>6. expiresAt[Mine] =< now => expiresAt[Mine] =< now'
      <4>1. expiresAt[Mine] \in Nat /\ now \in Nat /\ now' \in Nat /\ now' >= now
        BY <3>1, MineIsRequest, SentChanges DEF TypeOK
      <4> QED BY <4>1
    <3> QED
      BY <2>1, <3>1, <3>2, <3>3, <3>4, <3>5, <3>6 DEF PollInv
  <2> QED BY <2>2, <2>3
<1> QED BY <1>1, <1>2

LEMMA IInvHoldsAtFirst ==
  ASSUME Init PROVE IInv
<1> USE DEF Init
<1>1. TypeOK
  <2>1. gate \in [written : BOOLEAN, findings : SUBSET FindingKinds]
    BY DEF Unwritten
  <2>2. 1 \in 1..(Len(StepList) + 1)
    BY StepNames
  <2>3. <<>> \in Seq(Requests)
    OBVIOUS
  <2> QED
    BY <2>1, <2>2, <2>3 DEF TypeOK, IdlePoll, Broker!Phases
<1>2. StepInv
  <2>1. ASSUME NEW i \in 1..Len(StepList) PROVE outcome[StepList[i]] = "waiting" /\ pos =< i
    <3>1. StepList[i] \in Steps
      BY DEF Steps
    <3> QED BY <3>1, StepNames
  <2> QED BY <2>1 DEF StepInv
<1>3. OutcomeInv
  BY StepsAreListed DEF OutcomeInv, ApprovalSteps
<1>4. SentInv
  BY DEF SentInv
<1>5. PollInv
  BY DEF PollInv, IdlePoll, Terminal
<1>6. BrokerInv
  BY DEF BrokerInv, Decisions
<1> QED BY <1>1, <1>2, <1>3, <1>4, <1>5, <1>6 DEF IInv

LEMMA IInvIsKept ==
  ASSUME IInv, [Next]_vars PROVE IInv'
<1>1. CASE Next
  BY <1>1, TypeIsKept, StepInvIsKept, OutcomeInvIsKept, SentInvIsKept, PollInvIsKept,
     BrokerInvIsKept
  DEF IInv
<1>2. CASE UNCHANGED vars
  <2> USE <1>2 DEF IInv, vars, runner, client, broker
  <2>1. TypeOK' BY DEF TypeOK
  <2>2. StepInv' BY DEF StepInv
  <2>3. OutcomeInv'
    BY DEF OutcomeInv, Succeeding, Cancelled, EntersBreakGlass, EnforceVerdict
  <2>4. SentInv'
    BY DEF SentInv, Mine, EntersBreakGlass, TimeoutSeconds, ClampTimeout
  <2>5. PollInv' BY DEF PollInv, Mine, TimeoutSeconds
  <2>6. BrokerInv' BY DEF BrokerInv
  <2> QED BY <2>1, <2>2, <2>3, <2>4, <2>5, <2>6
<1> QED BY <1>1, <1>2

-----------------------------------------------------------------------------
(* The theorems *)

\* The inductive invariant holds throughout every run of the source-gate job.
THEOREM SourceGateIsInductive == Spec => []IInv
<1> QED BY IInvHoldsAtFirst, IInvIsKept, PTL DEF Spec

\* Every variable of the job, its poll and its requests keeps its type.
THEOREM SourceGateTypes == Spec => []TypeOK
<1>1. IInv => TypeOK
  BY DEF IInv
<1> QED BY <1>1, SourceGateIsInductive, PTL

\* _source-security.yml's enforce step with break-glass-poll.mjs: an enforced BLOCK
\* passes only over an approver's approval of the request that was polled.
THEOREM BlocksNeedApproval == Spec => []BlockNeedsApproval
<1>1. ASSUME IInv, JobPasses, inputs.mode # "log-only", VerdictOf(gate) = "BLOCK"
      PROVE  /\ sent # <<>> /\ phase[Mine] = "approved"
             /\ claim[Mine].decision = "approved"
             /\ IsAuthorizedApprover(claim[Mine].userId, Repository)
             /\ ValidateEligibleGate(gate)
  <2>1. Succeeding /\ pos > 14
    BY <1>1, StepNames DEF JobPasses, Ended
  <2>2. outcome["enforce"] = EnforceVerdict
    BY <1>1, <2>1, StepsInOrder DEF IInv, OutcomeInv
  <2>3. outcome["enforce"] # "failure"
    BY <2>1, StepsAreListed DEF Succeeding, ContinueOnError
  <2>4. outcome["poll"] = "success"
    BY <1>1, <2>2, <2>3 DEF EnforceVerdict
  <2>5. told = "approved"
    BY <1>1, <2>4 DEF IInv, OutcomeInv
  <2>6. sent # <<>> /\ phase[Mine] = "approved"
    BY <1>1, <2>5 DEF IInv, PollInv, Terminal
  <2>7. Mine \in Requests
    BY <1>1, <2>6, MineIsRequest DEF IInv
  <2>8. claim[Mine].decision = "approved" /\ IsAuthorizedApprover(claim[Mine].userId, Repository)
    BY <1>1, <2>6, <2>7 DEF IInv, BrokerInv, Decisions
  <2>9. ValidateEligibleGate(gate)
    BY <1>1, <2>6 DEF IInv, SentInv
  <2> QED BY <2>6, <2>8, <2>9
<1>2. IInv => BlockNeedsApproval
  BY <1>1 DEF BlockNeedsApproval
<1> QED BY <1>2, SourceGateIsInductive, PTL

\* The confirm step and validateEligibleGate: no request, and no credentials of the
\* invoker, for a hard block or a run that does not enforce.
THEOREM HardBlocksAreNeverAsked == Spec => []HardBlockNeverAsked
<1>1. ASSUME IInv, outcome["assume"] = "success" \/ (\E r \in Requests : phase[r] # "none")
      PROVE  EntersBreakGlass /\ ValidateEligibleGate(gate)
  <2>1. CASE outcome["assume"] = "success"
    BY <1>1, <2>1 DEF IInv, OutcomeInv, ApprovalSteps
  <2>2. CASE \E r \in Requests : phase[r] # "none"
    BY <1>1, <2>2 DEF IInv, SentInv
  <2> QED BY <1>1, <2>1, <2>2
<1>2. ASSUME IInv, EntersBreakGlass, ValidateEligibleGate(gate)
      PROVE  /\ VerdictOf(gate) = "BLOCK"
             /\ gate.findings # {}
             /\ gate.findings \cap {"verified_secret", "malicious_package", "report_integrity"} = {}
             /\ inputs.mode = "enforce" /\ inputs.enabled
  <2>1. inputs \in InputRecords
    BY <1>2, InputsAssumption DEF IInv, TypeOK
  <2>2. inputs.mode \in {"enforce", "log-only"}
    BY <2>1 DEF InputRecords
  <2>3. VerdictOf(gate) = "BLOCK" /\ BreakGlassEligible(gate.findings)
    BY <1>2 DEF ValidateEligibleGate
  <2> QED
    BY <1>2, <2>2, <2>3 DEF BreakGlassEligible, BlockKinds, EligibleKinds, EntersBreakGlass
<1>3. IInv => HardBlockNeverAsked
  BY <1>1, <1>2 DEF HardBlockNeverAsked
<1> QED BY <1>3, SourceGateIsInductive, PTL

\* pollUntilTerminal: the end that the poll reports is the request's, and stays so.
THEOREM ToldEndsAreEnds == Spec => []ToldIsTheEnd
<1>1. IInv => ToldIsTheEnd
  BY DEF IInv, PollInv, ToldIsTheEnd
<1> QED BY <1>1, SourceGateIsInductive, PTL

\* The workflow's conditions in log-only mode: neither the findings nor the approval
\* exchange keep the job from passing.
THEOREM LogOnlyRunsPass == Spec => []LogOnlyNeverBlocks
<1>1. ASSUME IInv, Ended, inputs.mode = "log-only", ~Cancelled,
             NEW s \in Steps \ ContinueOnError, outcome[s] = "failure"
      PROVE  s \in {"setup", "guard", "synthetic", "flag", "upload"}
  <2>1. ~EntersBreakGlass
    BY <1>1 DEF EntersBreakGlass
  <2>2. s \notin ApprovalSteps
    BY <1>1, <2>1 DEF IInv, OutcomeInv
  <2>3. s # "verdict"
    BY <1>1 DEF IInv, OutcomeInv
  <2>4. outcome["enforce"] = EnforceVerdict
    BY <1>1, StepNames, StepsInOrder DEF IInv, OutcomeInv, Ended
  <2>5. s # "enforce"
    BY <1>1, <2>4 DEF EnforceVerdict
  <2> QED
    BY <1>1, <2>2, <2>3, <2>5, StepsAreListed DEF ContinueOnError, ApprovalSteps
<1>2. IInv => LogOnlyNeverBlocks
  BY <1>1 DEF LogOnlyNeverBlocks, JobPasses, Succeeding
<1> QED BY <1>2, SourceGateIsInductive, PTL

\* The flag step's condition: a job that passes over unknown findings carries the
\* marker that warns against a baseline from it.
THEOREM UntrustedRunsAreFlagged == Spec => []UntrustedIsFlagged
<1>1. ASSUME IInv, JobPasses, ~IntegrityTrusted(gate) PROVE outcome["flag"] = "success"
  <2>1. Succeeding /\ pos > 14
    BY <1>1, StepNames DEF JobPasses, Ended
  <2>2. outcome["flag"] \in {"success", "failure"}
    BY <1>1, <2>1, StepsInOrder DEF IInv, OutcomeInv
  <2> QED BY <2>1, <2>2, StepsAreListed DEF Succeeding, ContinueOnError
<1>2. IInv => UntrustedIsFlagged
  BY <1>1 DEF UntrustedIsFlagged
<1> QED BY <1>2, SourceGateIsInductive, PTL

\* break-glass-poll.mjs's deadline and ClampTimeout: no click is accepted on a
\* request whose wait CI has given up.
THEOREM TimeoutsAreFinal == Spec => TimeoutIsFinal
<1>1. ASSUME IInv, [Next]_vars, told = "timeout", TimeoutSeconds >= MinSeconds,
             click[Mine] = NoClaim
      PROVE  click'[Mine] = NoClaim
  <2>1. sent # <<>> /\ expiresAt[Mine] =< now
    BY <1>1 DEF IInv, PollInv
  <2>2. Mine \in Requests /\ expiresAt[Mine] \in Nat /\ now \in Nat
    BY <1>1, <2>1, MineIsRequest DEF IInv, TypeOK
  <2>3. CASE Click
    <3>1. PICK r \in Requests, u \in Users, d \in Decisions :
            now < expiresAt[r] /\ click' = [click EXCEPT ![r] = [decision |-> d, userId |-> u]]
      BY <2>3 DEF Click
    <3>2. r # Mine
      BY <2>1, <2>2, <3>1
    <3> QED BY <1>1, <2>2, <3>1, <3>2 DEF IInv, TypeOK
  <2>4. CASE Decide
    BY <1>1, <2>2, <2>4 DEF Decide, IInv, TypeOK
  <2>5. CASE ~Click /\ ~Decide
    BY <1>1, <2>5, ClickStays DEF vars, broker
  <2> QED BY <2>3, <2>4, <2>5
<1>2. IInv /\ [Next]_vars =>
        (told = "timeout" /\ TimeoutSeconds >= MinSeconds /\ click[Mine] = NoClaim
           => click'[Mine] = NoClaim)
  BY <1>1
<1> QED BY <1>2, SourceGateIsInductive, PTL DEF Spec, TimeoutIsFinal
=============================================================================
