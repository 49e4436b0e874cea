------------------------------ MODULE SourceGate -----------------------------
(***************************************************************************)
(* The source-gate job (_source-security.yml) and the CI side of the       *)
(* break-glass exchange (break-glass-notify.mjs, break-glass-poll.mjs,     *)
(* break-glass-lambda-invoke.mjs).  The runner executes the job's steps in *)
(* order: it skips a step whose condition is false and goes on after a     *)
(* failed one, as GitHub Actions does.  The broker the job talks to is     *)
(* BreakGlassApproval, which LambdaBroker is shown to implement, with the  *)
(* deadline every request carries.  The scanners are the sets of findings  *)
(* their reports may give; one clock serves CI and the broker.             *)
(* A definition marked "Variant" is a faulty version of the one after it.  *)
(***************************************************************************)
EXTENDS BreakGlassDecision, Sequences, FiniteSets

CONSTANTS
  Requests,         \* the requests that the notify step may cause to be opened
  Repository,       \* CI_REPOSITORY
  Inputs,           \* the workflow_call inputs of the runs
  FindingSets,      \* the sets of findings that the reports may give
  Interval,         \* BREAK_GLASS_POLL_INTERVAL_MS
  Faults,           \* what may go wrong: a subset of FaultKinds
  MaxLag,           \* bound: ticks between the first request and the poll
  MaxTime           \* bound: the clock's last tick

\* A runner's tool fails; a call to the broker is lost; the run is cancelled.
FaultKinds == {"tool", "transport", "cancel"}

Transports == {"http", "lambda", "other"}

InputRecords ==
  [ mode      : {"enforce", "log-only"},
    enabled   : BOOLEAN,                 \* break_glass_enabled
    transport : Transports,
    urls      : BOOLEAN,                 \* both break_glass_*_url are set
    lambda    : BOOLEAN,                 \* function, region and role are set
    synthetic : {"none", "sast", "dependency", "other"},
    timeout   : Nat,                     \* break_glass_timeout_seconds, 0 if empty
    pr        : BOOLEAN ]                \* CI_PULL_REQUEST is not empty

EligibleKinds == {"sast_new", "dependency_with_fix"}
BlockKinds    == EligibleKinds \cup
                 {"verified_secret", "malicious_package", "report_integrity"}
FindingKinds  == BlockKinds \cup {"exception", "log"}

ASSUME InputsAssumption     == Inputs \subseteq InputRecords
ASSUME FindingsAssumption   == FindingSets \subseteq SUBSET FindingKinds
ASSUME RepositoryAssumption == Repository \in Repos
ASSUME ClockAssumption      == Interval \in Nat \ {0} /\ MaxLag \in Nat /\ MaxTime \in Nat
ASSUME FaultsAssumption     == Faults \subseteq FaultKinds

VARIABLES
  inputs,    \* the inputs of this run
  gate,      \* reports/security-gate.json
  pos,       \* the position of the current step in StepList
  outcome,   \* steps.*.outcome
  sent,      \* the requests opened for the notify step's calls, in order
  poll,      \* the poll step's local state
  told,      \* the status the poll step ended with
  now,
  phase, claim, expiresAt,  \* the broker's requests
  click      \* the click on each request that is being handled, or NoClaim

runner == <<inputs, gate, pos, outcome>>
client == <<sent, poll, told>>
broker == <<phase, claim, expiresAt, click>>
vars   == <<runner, client, now, broker>>

-----------------------------------------------------------------------------
(* The job's steps *)

StepList ==
  << "setup", "guard", "synthetic", "evaluate", "verdict", "confirm",
     "transport", "assume", "notify", "poll", "post", "flag", "upload", "enforce" >>

Steps           == {StepList[i] : i \in 1..Len(StepList)}
AlwaysSteps     == {"verdict", "post", "flag", "upload", "enforce"}
ContinueOnError == {"evaluate", "post"}
ApprovalSteps   == {"confirm", "transport", "assume", "notify", "poll"}

At(s) == pos =< Len(StepList) /\ StepList[pos] = s
Ended == pos > Len(StepList)

Cancelled == \E s \in Steps : outcome[s] = "cancelled"

\* success() of a step's condition, and the job's own result at its end.
Succeeding == ~Cancelled /\ \A s \in Steps \ ContinueOnError : outcome[s] # "failure"
JobPasses  == Ended /\ Succeeding

Synthetic == inputs.synthetic # "none"

EntersBreakGlass ==
  /\ outcome["evaluate"] = "failure"
  /\ inputs.mode # "log-only"
  /\ inputs.enabled

-----------------------------------------------------------------------------
(* security-gate.json *)

Unwritten == [written |-> FALSE, findings |-> {}]

\* The worst of the findings' actions.
GateVerdict(F) ==
  CASE F \cap BlockKinds # {} -> "BLOCK"
    [] F \cap BlockKinds = {} /\ "exception" \in F -> "PASS-WITH-EXCEPTIONS"
    [] OTHER -> "PASS"

\* What the verdict step publishes: an unreadable gate is an untrusted BLOCK.
VerdictOf(g)        == IF g.written THEN GateVerdict(g.findings) ELSE "BLOCK"
IntegrityTrusted(g) == g.written /\ "report_integrity" \notin g.findings

\* Variant: one eligible finding makes the whole BLOCK eligible.
EligibleIfAny(F) == F \cap EligibleKinds # {}
BreakGlassEligible(F) ==
  F \cap EligibleKinds # {} /\ F \cap BlockKinds \subseteq EligibleKinds

\* What break-glass-notify.mjs insists on, with --check-only and without.
ValidateEligibleGate(g) ==
  g.written /\ VerdictOf(g) = "BLOCK" /\ BreakGlassEligible(g.findings)

\* What a synthetic fixture puts in the reports.
Injected == CASE inputs.synthetic = "sast"       -> {"sast_new"}
              [] inputs.synthetic = "dependency" -> {"dependency_with_fix"}
              [] OTHER -> {}

\* What runSecurityGate may conclude: what the reports say, or that one of them
\* cannot be interpreted, which hides everything else.
GateResults == {F \in FindingSets : Injected \subseteq F} \cup {{"report_integrity"}}

-----------------------------------------------------------------------------
(* The runner *)

\* Variant: only a run that is enforced is flagged.
ConditionFlagsEnforced(s) ==
  /\ s \notin AlwaysSteps => Succeeding
  /\ s = "guard" => Synthetic /\ ~inputs.urls
  /\ s = "synthetic" => Synthetic
  /\ s \in ApprovalSteps => EntersBreakGlass
  /\ s = "assume" => inputs.transport = "lambda"
  /\ s = "flag" => ~IntegrityTrusted(gate) /\ inputs.mode # "log-only"
Condition(s) ==
  /\ s \notin AlwaysSteps => Succeeding
  /\ s = "guard" => Synthetic /\ ~inputs.urls
  /\ s = "synthetic" => Synthetic
  /\ s \in ApprovalSteps => EntersBreakGlass
  /\ s = "assume" => inputs.transport = "lambda"
  /\ s = "flag" => ~IntegrityTrusted(gate)

Runs(s) == At(s) /\ Condition(s)

Ends(s, o) ==
  /\ outcome' = [outcome EXCEPT ![s] = o]
  /\ pos' = pos + 1
  /\ UNCHANGED inputs

Skip(s) ==
  /\ At(s) /\ ~Condition(s)
  /\ Ends(s, "skipped")
  /\ UNCHANGED <<gate, client, now, broker>>

\* Steps that change nothing but their own outcome.
Plain(s, o) == Runs(s) /\ Ends(s, o) /\ UNCHANGED <<gate, client, now, broker>>

\* Checkout, Node; the downloads only decide what the reports say.
Setup == Plain("setup", "success")

Guard == Plain("guard", "failure")

ApplySynthetic ==
  Plain("synthetic", IF inputs.synthetic = "other" THEN "failure" ELSE "success")

\* The exit status is the verdict.
Evaluate ==
  \E F \in GateResults :
    LET g == [written |-> TRUE, findings |-> F] IN
    /\ Runs("evaluate")
    /\ gate' = g
    /\ Ends("evaluate", IF VerdictOf(g) = "BLOCK" THEN "failure" ELSE "success")
    /\ UNCHANGED <<client, now, broker>>

\* A result file cannot be written: the first of the two, or the second.
EvaluateCrashes ==
  \E g \in {Unwritten} \cup [written : {TRUE}, findings : GateResults] :
    /\ "tool" \in Faults
    /\ Runs("evaluate")
    /\ gate' = g
    /\ Ends("evaluate", "failure")
    /\ UNCHANGED <<client, now, broker>>

Verdict == Plain("verdict", "success")

Confirm ==
  Plain("confirm", IF ValidateEligibleGate(gate) THEN "success" ELSE "failure")

TransportValid ==
  inputs.transport = "http" \/ (inputs.transport = "lambda" /\ inputs.lambda)

ValidateTransport == Plain("transport", IF TransportValid THEN "success" ELSE "failure")

AssumeRole == Plain("assume", "success")

\* notify.mjs cannot read a gate that was never written.
Post == Plain("post", IF gate.written THEN "success" ELSE "failure")

Flag == Plain("flag", "success")

Upload == Plain("upload", "success")

\* Variant: only a poll that failed keeps a BLOCK.
EnforceUnlessPollFailed ==
  IF inputs.mode # "log-only" /\ VerdictOf(gate) = "BLOCK" /\ outcome["poll"] = "failure"
  THEN "failure" ELSE "success"
EnforceVerdict ==
  IF inputs.mode # "log-only" /\ VerdictOf(gate) = "BLOCK" /\ outcome["poll"] # "success"
  THEN "failure" ELSE "success"

Enforce == Plain("enforce", EnforceVerdict)

ToolFails(s) ==
  /\ "tool" \in Faults
  /\ s \in {"setup", "synthetic", "assume", "post", "flag", "upload"}
  /\ Plain(s, "failure")

\* Cancelling the run interrupts the step that runs, unless it is an always() one.
Cancel ==
  \E s \in Steps \ AlwaysSteps :
    /\ "cancel" \in Faults
    /\ Runs(s)
    /\ Ends(s, "cancelled")
    /\ UNCHANGED <<gate, client, now, broker>>

-----------------------------------------------------------------------------
(* The broker *)

Broker ==
  INSTANCE BreakGlassApproval WITH
    ApproversOf <- [r \in Requests |-> {u \in Users : IsAuthorizedApprover(u, Repository)}],
    published   <- [r \in Requests |-> <<>>]

\* The handler reads the clock and the pending request, and only then claims it:
\* an accepted click may claim after the deadline.  At most one click per request
\* is under way; clicks that race each other are LambdaBroker's subject.
Click ==
  \E r \in Requests, u \in Users, d \in Decisions :
    /\ phase[r] = "pending" /\ now < expiresAt[r]
    /\ IsAuthorizedApprover(u, Repository)
    /\ click[r] = NoClaim
    /\ click' = [click EXCEPT ![r] = [decision |-> d, userId |-> u]]
    /\ UNCHANGED <<runner, client, now, phase, claim, expiresAt>>

Decide ==
  \E r \in Requests :
    /\ click[r] # NoClaim
    /\ Broker!Seize(r, click[r].userId, click[r].decision)
    /\ click' = [click EXCEPT ![r] = NoClaim]
    /\ UNCHANGED <<runner, client, now, expiresAt>>

Settle ==
  \E r \in Requests :
    /\ Broker!Settle(r)
    /\ UNCHANGED <<runner, client, now, expiresAt, click>>

\* A click that comes too late, or somebody's status call.
Expire ==
  \E r \in Requests :
    /\ expiresAt[r] =< now
    /\ Broker!Expire(r)
    /\ UNCHANGED <<runner, client, now, expiresAt, click>>

-----------------------------------------------------------------------------
(* break-glass-notify.mjs *)

\* Number(BREAK_GLASS_TIMEOUT_SECONDS || 900); 900 is the broker's default too.
TimeoutSeconds == IF inputs.timeout = 0 THEN DefaultSeconds ELSE inputs.timeout

Configured ==
  IF inputs.transport = "lambda" THEN inputs.lambda ELSE inputs.urls

\* What makes the client or validateNotifyPayload refuse.
NotifyIsValid == ValidateEligibleGate(gate) /\ Configured /\ inputs.pr

NotifyReaches(r) ==
  /\ Runs("notify")
  /\ NotifyIsValid
  /\ inputs.transport # "lambda" => sent = <<>>  \* the AWS CLI may retry a call
  /\ Broker!Open(r)
  /\ sent' = Append(sent, r)
  /\ expiresAt' = [expiresAt EXCEPT ![r] = now + ClampTimeout(TimeoutSeconds)]
  /\ UNCHANGED <<runner, now, poll, told, click>>

\* The request that break-glass-request.json names: the last one answered for.
Mine == sent[Len(sent)]

\* The broker takes a request back whose message it could not post.
NotifyWithdrawn ==
  /\ "transport" \in Faults
  /\ Runs("notify") /\ sent # <<>>
  /\ Broker!Withdraw(Mine)
  /\ UNCHANGED <<runner, client, now, expiresAt, click>>

\* Express answers the request as it is by then, and only "pending" is accepted.
NotifyAnswered ==
  /\ sent # <<>>
  /\ phase[Mine] # "withdrawn"
  /\ inputs.transport = "http" => phase[Mine] = "pending"
  /\ Plain("notify", "success")

\* The request is refused, its answer is not "pending", or the call fails.
NotifyFails ==
  /\ \/ ~NotifyIsValid
     \/ sent # <<>> /\ phase[Mine] = "withdrawn"
     \/ sent # <<>> /\ inputs.transport = "http" /\ phase[Mine] # "pending"
     \/ "transport" \in Faults
  /\ Plain("notify", "failure")

-----------------------------------------------------------------------------
(* break-glass-poll.mjs *)

IdlePoll == [at |-> "idle", deadline |-> 0, wake |-> 0, answer |-> "none"]

PollGoto(at) == poll' = [poll EXCEPT !.at = at]

PollStarts ==
  /\ Runs("poll") /\ poll.at = "idle"
  /\ poll' = [poll EXCEPT !.at = "check", !.deadline = now + TimeoutSeconds]
  /\ UNCHANGED <<runner, sent, told, now, broker>>

\* Variant: does not start a wait it cannot finish.
PollGoesOnIfSleepFits == now + Interval < poll.deadline
PollGoesOn == now < poll.deadline

PollAsks ==
  /\ Runs("poll") /\ poll.at = "check" /\ PollGoesOn
  /\ PollGoto("asked")
  /\ UNCHANGED <<runner, sent, told, now, broker>>

PollEnds(status, o) ==
  /\ poll' = IdlePoll
  /\ told' = status
  /\ Ends("poll", o)
  /\ UNCHANGED <<gate, sent, now, broker>>

PollTimesOut ==
  /\ Runs("poll") /\ poll.at = "check" /\ ~PollGoesOn
  /\ PollEnds("timeout", "failure")

\* Variant: a claim in flight is answered with its decision.
AnswerFromClaim(r) ==
  IF phase[r] = "processing" THEN claim[r].decision ELSE phase[r]
Answer(r) == phase[r]

\* The status handlers expire a pending request before they answer.
BrokerAnswers ==
  /\ Runs("poll") /\ poll.at = "asked"
  /\ IF phase[Mine] = "pending" /\ expiresAt[Mine] =< now
     THEN /\ Broker!Expire(Mine)
          /\ poll' = [poll EXCEPT !.at = "answered", !.answer = "expired"]
     ELSE /\ poll' = [poll EXCEPT !.at = "answered", !.answer = Answer(Mine)]
          /\ UNCHANGED <<phase, claim>>
  /\ UNCHANGED <<runner, sent, told, now, expiresAt, click>>

\* Variant: "processing" is an end.
TerminalUnlessPending == {"processing", "approved", "denied", "expired"}
Terminal == {"approved", "denied", "expired"}

PollIsTold ==
  /\ Runs("poll") /\ poll.at = "answered" /\ poll.answer \in Terminal
  /\ PollEnds(poll.answer, IF poll.answer = "approved" THEN "success" ELSE "failure")

PollSleeps ==
  /\ Runs("poll") /\ poll.at = "answered" /\ poll.answer \notin Terminal
  /\ poll' = [poll EXCEPT !.at = "sleeping", !.wake = now + Interval]
  /\ UNCHANGED <<runner, sent, told, now, broker>>

\* Variant: asks again whatever the time is.
PollWakesToAsk ==
  /\ Runs("poll") /\ poll.at = "sleeping" /\ poll.wake =< now
  /\ PollGoto("asked")
  /\ UNCHANGED <<runner, sent, told, now, broker>>
PollWakes ==
  /\ Runs("poll") /\ poll.at = "sleeping" /\ poll.wake =< now
  /\ PollGoto("check")
  /\ UNCHANGED <<runner, sent, told, now, broker>>

\* A call that fails, for whatever reason, ends the poll.
PollFails ==
  /\ "transport" \in Faults
  /\ Runs("poll") /\ poll.at \in {"asked", "answered"}
  /\ PollEnds("none", "failure")

-----------------------------------------------------------------------------

\* Nobody reads the clock before the first request, and it may stop once the job
\* waits for nothing and its request has expired.
Tick ==
  /\ now < MaxTime
  /\ \/ sent # <<>> /\ pos =< Len(StepList) /\ poll.at = "idle" /\ now < MaxLag
     \/ poll.at # "idle" /\ now < poll.deadline
     \/ poll.at = "sleeping" /\ now < poll.wake
     \/ told = "timeout" /\ now < expiresAt[Mine]
  /\ now' = now + 1
  /\ UNCHANGED <<runner, client, broker>>

Init ==
  /\ inputs  \in Inputs
  /\ gate    = Unwritten
  /\ pos     = 1
  /\ outcome = [s \in Steps |-> "waiting"]
  /\ sent    = <<>>
  /\ poll    = IdlePoll
  /\ told    = "none"
  /\ now     = 0
  /\ phase     = [r \in Requests |-> "none"]
  /\ claim     = [r \in Requests |-> NoClaim]
  /\ expiresAt = [r \in Requests |-> 0]
  /\ click     = [r \in Requests |-> NoClaim]

NotifyStep == (\E r \in Requests : NotifyReaches(r)) \/ NotifyAnswered \/ NotifyFails

PollStep ==
  \/ PollStarts \/ PollAsks \/ PollTimesOut \/ BrokerAnswers
  \/ PollIsTold \/ PollSleeps \/ PollWakes \/ PollFails

JobStep ==
  \/ \E s \in Steps : Skip(s) \/ ToolFails(s)
  \/ Setup \/ Guard \/ ApplySynthetic \/ Evaluate \/ EvaluateCrashes \/ Verdict
  \/ Confirm \/ ValidateTransport \/ AssumeRole \/ NotifyStep \/ PollStep
  \/ Post \/ Flag \/ Upload \/ Enforce

Next ==
  JobStep \/ Cancel \/ NotifyWithdrawn \/ Click \/ Decide \/ Settle \/ Expire \/ Tick

Spec == Init /\ [][Next]_vars

\* The runner works through the job, every call of it has a timeout, and time
\* passes.  Nobody is assumed to decide, nor the broker to finish what it began.
Fairness == WF_vars(JobStep) /\ WF_vars(Tick)
FairSpec == Spec /\ Fairness

-----------------------------------------------------------------------------
(* Safety *)

TypeOK ==
  /\ inputs \in Inputs
  /\ gate \in [written : BOOLEAN, findings : SUBSET FindingKinds]
  /\ pos \in 1..(Len(StepList) + 1)
  /\ outcome \in [Steps -> {"waiting", "success", "failure", "skipped", "cancelled"}]
  /\ sent \in Seq(Requests)
  /\ poll \in [ at       : {"idle", "check", "asked", "answered", "sleeping"},
                deadline : Nat,
                wake     : Nat,
                answer   : {"none"} \cup Broker!Phases ]
  /\ told \in {"none", "timeout", "approved", "denied", "expired"}
  /\ now \in Nat
  /\ phase \in [Requests -> Broker!Phases]
  /\ claim \in [Requests -> Claim \cup {NoClaim}]
  /\ expiresAt \in [Requests -> Nat]
  /\ click \in [Requests -> Claim \cup {NoClaim}]

\* "Only an approved decision makes the source-gate job successful"
\* (docs/gating.md): an enforced BLOCK passes only when an approver of the
\* repository approved the very request this job polls, and every finding that
\* blocks may be overridden.
BlockNeedsApproval ==
  JobPasses /\ inputs.mode # "log-only" /\ VerdictOf(gate) = "BLOCK" =>
    /\ sent # <<>>
    /\ phase[Mine] = "approved"
    /\ claim[Mine].decision = "approved"
    /\ IsAuthorizedApprover(claim[Mine].userId, Repository)
    /\ ValidateEligibleGate(gate)

\* "Hard blocks never invoke the notification endpoint" (docs/gating.md): before
\* a request exists, and before the job holds the invoker's credentials, the
\* BLOCK was found to have nothing but eligible findings, in an enforced run.
HardBlockNeverAsked ==
  outcome["assume"] = "success" \/ (\E r \in Requests : phase[r] # "none") =>
    /\ VerdictOf(gate) = "BLOCK"
    /\ gate.findings # {}
    /\ gate.findings \cap {"verified_secret", "malicious_package", "report_integrity"} = {}
    /\ inputs.mode = "enforce" /\ inputs.enabled

\* The end the poll reports is the end of the request it was given, and stays so,
\* however late the answer came and however often the request was opened.
ToldIsTheEnd ==
  told \in Terminal => phase[Mine] = told

\* A log-only run never fails over what it found, nor over an approval: only its
\* own tools, a demo's inputs or a cancellation keep it from passing.
LogOnlyNeverBlocks ==
  Ended /\ inputs.mode = "log-only" =>
    \/ JobPasses
    \/ Cancelled
    \/ \E s \in {"setup", "guard", "synthetic", "flag", "upload"} : outcome[s] = "failure"

\* A job that passes although its findings are unknown says so: the marker that
\* warns against taking a baseline from this run is written in every mode.
UntrustedIsFlagged ==
  JobPasses /\ ~IntegrityTrusted(gate) => outcome["flag"] = "success"

-----------------------------------------------------------------------------
(* The inductive invariant, part by part *)

\* The steps before the current one have ended, the others wait.
StepInv ==
  \A i \in 1..Len(StepList) : outcome[StepList[i]] = "waiting" <=> pos =< i

\* What an ended step leaves behind for the rest of the job.  An approval step is
\* not skipped as long as the job succeeds and has entered break-glass.
OutcomeInv ==
  /\ outcome["confirm"] # "waiting" /\ Succeeding /\ EntersBreakGlass =>
       ValidateEligibleGate(gate)
  /\ outcome["assume"] = "success" => ValidateEligibleGate(gate)
  /\ outcome["notify"] # "waiting" /\ Succeeding /\ EntersBreakGlass => sent # <<>>
  /\ outcome["poll"] = "success" => told = "approved"
  /\ outcome["flag"] # "waiting" /\ ~IntegrityTrusted(gate) =>
       outcome["flag"] \in {"success", "failure"}
  /\ outcome["enforce"] # "waiting" => outcome["enforce"] = EnforceVerdict
  /\ outcome["verdict"] # "failure"
  /\ \A s \in ApprovalSteps : outcome[s] \in {"success", "failure"} => EntersBreakGlass

\* Requests come from the notify step of an eligible BLOCK, and from nowhere else.
SentInv ==
  /\ sent # <<>> =>
       /\ outcome["assume"] # "waiting"
       /\ EntersBreakGlass /\ ValidateEligibleGate(gate)
       /\ expiresAt[Mine] =< now + ClampTimeout(TimeoutSeconds)
  /\ sent = <<>> => \A r \in Requests : phase[r] = "none"

\* The poll knows the request; an end it has heard of is the end; its deadline is
\* not before the broker's.
PollInv ==
  /\ poll.at # "idle" => sent # <<>> /\ outcome["notify"] # "waiting"
  /\ poll.at # "idle" /\ TimeoutSeconds >= MinSeconds => expiresAt[Mine] =< poll.deadline
  /\ poll.at = "answered" /\ poll.answer \in Terminal => phase[Mine] = poll.answer
  /\ told # "none" => sent # <<>> /\ outcome["poll"] # "waiting"
  /\ told \in Terminal => phase[Mine] = told
  /\ told = "timeout" /\ TimeoutSeconds >= MinSeconds => expiresAt[Mine] =< now

\* A claimed or decided request has the claim of an approver, and its decision.
BrokerInv ==
  \A r \in Requests :
    /\ phase[r] \in {"processing"} \cup Decisions =>
         claim[r] \in Claim /\ IsAuthorizedApprover(claim[r].userId, Repository)
    /\ phase[r] \in Decisions => phase[r] = claim[r].decision

IInv == TypeOK /\ StepInv /\ OutcomeInv /\ SentInv /\ PollInv /\ BrokerInv

-----------------------------------------------------------------------------
(* Action properties *)

\* Both deadlines come from the same number of seconds, and CI starts to count
\* after the broker: once CI has given up waiting, the broker accepts no further
\* click on the request.  A wait shorter than the broker's minimum is the exception.
TimeoutIsFinal ==
  [][told = "timeout" /\ TimeoutSeconds >= MinSeconds /\ click[Mine] = NoClaim
       => click'[Mine] = NoClaim]_vars

-----------------------------------------------------------------------------
(* Liveness *)

\* The job ends, whoever decides or does not, and whatever the broker leaves
\* unfinished.
JobEnds == <>Ended

-----------------------------------------------------------------------------
(* What a document says and the code does not do *)

\* "Break-glass has to work on a pull request as well as on push"
\* (docs/workflow-contracts.md): a configured notify step of an eligible BLOCK
\* whose calls all arrive gets its request opened.
EligibleBlockIsAsked ==
  outcome["notify"] = "failure" /\ Configured => sent # <<>>
=============================================================================
