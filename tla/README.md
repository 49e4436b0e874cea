# A TLA+ development of the software delivery toolkit

This directory specifies, model-checks and proves properties of the program in
this repository: a CI/CD toolkit that scans a project, blocks it on findings,
lets named people override some of those blocks ("break-glass"), gates the image
and deploys it. Paths below are relative to the repository's root. `PROJECT.json`
lists, for machines, what this file explains: the components, the TLC runs, the
lines every definition stands for, the hazards and the theorems.

To check a run: `tlc -config X.cfg MCX.tla`, with the pairs of module and
configuration named under "Runs"; to check the proofs: `tlapm M.tla` for each of
`LambdaBrokerProofs`, `ExpressBrokerProofs`, `SourceGateProofs`,
`EcrScanPollProofs`, `DeliveryPipelineProofs` and `PullRequestChecksProofs`.

## 1. Inventory

### 1.1 Break-glass brokers

A CI job whose security gate says BLOCK on overridable findings asks a broker for
a decision. The broker stores a pending request, posts a message with an Approve
and a Deny button to Slack, and answers CI's polls. A click by someone the
repository's allowlist names claims the request, finalizes it, updates the
message and posts an audit comment on the pull request. There are two brokers
with the same rules and very different execution models.

| part | code | state | operations |
| --- | --- | --- | --- |
| decision rules | `security/scripts/break-glass-decision.mjs`, `slack-authorize.mjs`, `server/break-glass/request.mjs` | none (pure) | create a request with a clamped deadline; authorize; claim; finalize; audit text |
| Lambda broker | `server/break-glass/lambda/broker.mjs`, `handlers.mjs`, `runtime.mjs` | none between invocations; each invocation's local copy of the request | `notify`, `status`, `handleInteraction`, `runFollowUp` |
| DynamoDB store | `lambda/dynamodb-store.mjs` | one item per request: the document, and attributes repeated for the conditions | `putPending`, `setSlackRef`, `deletePending`, `claim`, `finalize`, `expire`, `claimSideEffects`, `get` |
| Express broker | `server/break-glass/app.mjs`, `store.mjs`, `server.mjs` | all requests in memory, a file, a promise chain of updates | `POST notify`, `GET status`, `POST /slack/interactions`, `store.update`, start |

*Interactions.* CI calls notify and status; Slack calls interactions, once per
click, at any time after the message was shown; the brokers call Slack (post,
update) and GitHub (comment). The Lambda interactions function also invokes
itself asynchronously to run the side effects after its acknowledgement.

*What is hard.* Lambda: any number of invocations run at once and share only the
table, so everything read is stale when used; a write may be applied without its
answer, and the SDK then retries it against its own effect; an asynchronous
invocation may be accepted and reported as failed, delivered twice, or never;
an invocation may die between any two calls. Express: handlers interleave at
awaits and share live objects, memory runs ahead of the file, the file may fail
to be written, a crash returns to an older state, and the rollback of a
notification is unconditional.

*What makes them correct.* One authorized click decides a request; a decision is
final, published at most once, truthfully, and only when it is durable; nothing
takes a claimed request away; CI is never told an end that is not the end;
without crashes a claim is always finalized, and a polling CI always learns an end.

### 1.2 CI clients and the source gate

`security/scripts/break-glass-notify.mjs` validates that a gate result may be
overridden, sends it and writes the request's id; `break-glass-poll.mjs` polls
until a terminal status or its own deadline, and gives up on the first error;
`break-glass-lambda-invoke.mjs` carries both over IAM. The job `source-gate` of
`.github/workflows/_source-security.yml` runs the gate, then (in `enforce` mode,
when it failed and break-glass is enabled) the check, notify and poll steps, and
passes or fails on the verdict and the outcome of the poll. State: the steps'
outcomes, files between steps. Hard: two deadlines (CI's and the broker's) on two
clocks; step conditions (`always()`, `continue-on-error`, skipped steps) that
decide together whether a BLOCK can pass. Correct: a job passes in `enforce` mode
only with a verdict that is not BLOCK, or an approval of that very gate result by
an authorized approver; integrity failures are never overridable.

### 1.3 Gate policies

`security-gate.mjs` evaluates the reports of secret, dependency and SAST scanners
against a policy and a baseline into a verdict, break-glass eligibility and
integrity; `image-gate.mjs` does so for registry and Trivy findings of an image;
`generate-semgrep-baseline.mjs` writes the accepted findings of a log-only run.
Pure functions of their input files. Hard: precedence of actions, malformed input
that must fail closed, severity and fix information from several sources.
Correct: the verdict is the worst of the findings' actions; a malformed or missing
report blocks and is not eligible; a baseline never comes from an untrusted scan.

### 1.4 Registry scan polling and deployment

`poll-ecr-scan.mjs` waits for a registry scan of a digest, reconciles its counts
with its findings, and confirms a clean enhanced scan with Amazon Inspector;
`ssm-deploy.mjs` sends a deployment command and polls its invocation; the
workflows `deploy.yml`, `_ecr-collect.yml`, `_image-scan-prepush.yml` and
`_artifact-gate.yml` order jobs by each other's outcome and hand an image and its
digests from build to gate to deployment. State: the jobs' results and outputs,
the artifacts, the repository of images with its mutable tag, the instance's
container. Hard: ECR says that a scan is complete before its findings are there;
attempts are bounded; runs are not serialized, so the tag and the container are
shared; log-only turns failures into successes. Correct: what is deployed was
built, scanned and gated under that digest by the same run; a failed deploy is
never called a success; polls end.

### 1.5 Pull request checks and the comment

`security.yml` runs the source gate and, on a pull request, the image gate, and
concludes three checks from their results and outputs. `notify.mjs` (with the
routing of `format-findings.mjs`) keeps one comment per pull request, found by a
marker. Hard: two jobs and later runs share that comment by list-then-write;
`GATE_MODE` is a repository variable that each job reads for itself; a baseline
made from one run decides the verdict of the next. Correct: green checks hide no
block that nobody approved; the comment is that of the last run.

### 1.6 Not planned

Slack signature verification (HMAC over bytes) is the guard of a click's arrival;
the Slack and GitHub clients, Block Kit messages and configuration are the
environment; the Discord handler is an earlier, frozen implementation; the n8n
workflows and the Jenkinsfile run in external engines; the infrastructure scripts
provision AWS; the demo application is stateless.

## 2. Plan

Ordered by how much depends on it. Done: 1-10.

1. `BreakGlassDecision` (rules), `BreakGlassApproval` (what any broker promises).
2. `DynamoStore`, `LambdaBroker`: safety, liveness, refinement of 1.
3. `LambdaBrokerProofs`: the safety properties and the refinement as theorems.
4. `ExpressBroker`: safety under crashes and failed writes, refinement of 1 by the
   file, liveness.
5. `ExpressBrokerProofs`: the safety properties, and the refinement where no write
   fails and no answer of Slack is lost.
6. `SourceGate` and `SourceGateProofs`: the source-gate job with the CI clients,
   composed with `BreakGlassApproval` standing for either broker.
7. `ImageGate` and `SecurityGate` (the policies), `EcrScanPoll`: a bounded poll of
   services whose answers are late, partial or wrong.
8. `DeliveryPipeline` and `DeliveryPipelineProofs`: the jobs of concurrent runs, the
   registry, and the deployment with the script on the instance.
9. `PullRequestChecks`: the gates over trees of findings, the checks, the comment
   and the baseline.
10. `EcrScanPollProofs` and `PullRequestChecksProofs`: what a report, a verdict, a
    green check and a comment are worth, for any findings.
11. To do: lemmas about the policies (one more finding never improves a verdict).

## 3. Modules

| module | stands for |
| --- | --- |
| `BreakGlassDecision` | the pure rules both brokers import |
| `DynamoStore` | the item layout and each conditional write as a condition and an update |
| `LambdaBroker` | the Lambda broker; extends `DynamoStore` |
| `ExpressBroker` | the Express broker; extends `BreakGlassDecision` |
| `BreakGlassApproval` | the abstract specification both implement |
| `SourceGate` | the source-gate job and the CI clients; composed with `BreakGlassApproval` |
| `ImageGate` | the image gate's policy as operators |
| `SecurityGate` | the source gate's policy as operators; extends `ImageGate` |
| `EcrScanPoll` | the poll of a registry scan; extends `ImageGate` |
| `DeliveryPipeline` | runs of `deploy.yml`, the registry and the instance; extends `ImageGate` |
| `PullRequestChecks` | runs of `security.yml`, the comment and the baseline; extends `SecurityGate` |
| `MC*` | the instances TLC checks |
| `*Proofs` | theorems about the module they are named after |

**Data.** A request keeps what the rules read and write: status, deadline, claim
(decision and user), approver, and whether the Slack reference is recorded. Ids,
digests, findings, texts, usernames and timestamps other than the deadline are
dropped. Time is a small counter; `CreatePendingRequest` clamps as
`request.mjs` does. `undefined` is `NoRequest`, of status `"absent"`.

**Definitions called "Variant".** Some definitions are preceded by another whose
comment begins with *Variant*: it is the definition with a plausible bug. No
specification uses it. Putting it in the place of the definition it precedes must
break the property `PROJECT.json` pairs it with, which shows that the property
depends on that line of the code.

### 3.1 LambdaBroker

Every invocation is a record with a program counter; one action is one call to
DynamoDB, Slack or GitHub, or the synchronous code between two calls. `notify[r]`
(broker.mjs 38-69), `poll[r]` (72-82), `click[c]` (88-177) and `fx[e]` (180-201)
are the invocations; `table`, `message`, `comments`, `queue` (accepted
asynchronous invocations) and `told` (what CI was last told) are what they share.
A handler's local copy of the request is in its record, so staleness is explicit:
`ClickDecide` works on the copy `ClickGet` took, and only the condition of
`ClickClaim` looks at the table again. The time a handler read is in `at`, so a
write can reach the store after the deadline.

Faults are actions or disjuncts guarded by the constant `Faults`: a write that is
applied and reported as failed (`NotifyRecordFails`, `NotifyRollbackLost`,
`ClickClaimRetried`, `FxClaimRetried`: the SDK's retry fails the condition
against its own effect), Slack and GitHub errors, an enqueue that is reported as
failed after it was accepted (`ClickEnqueueFails` then also runs the job inline,
handlers.mjs 50), double delivery (always possible), loss (`DropJob`), and the
end of an invocation anywhere (`NotifyCrash`, `PollCrash`, `ClickCrash`,
`FxCrash`), which also stands for a thrown error such as a lost `finalize`.

Left out: ephemeral replies (they change no state), the TTL deletion (days after
the deadline), and the reading of secrets and clients, which only can end an
invocation.

### 3.2 ExpressBroker

`mem` is the object the store shares with its handlers, `disk` the file. An
update is a job in `chain`; the oldest one first runs its mutator (`PutRuns`,
`ClaimRuns`, ...: `mem` changes, `writing` becomes TRUE) and later is written
(`PutWritten`, ...: `disk' = mem`, the job leaves the chain and its caller runs up
to its next await) or fails to be (`PutFails`, ...: memory keeps the change).
That the caller runs before the next mutator is the order in which promise
reactions are queued: `update` registers the chain's reaction first, and the
chain's next job starts one reaction after it. `FinalizeThrows` is the one
mutator that can throw; nothing is written then. `PollArrive` and
`SlackRefWritten` answer from the live object, as the handlers do. `Restart` is
crash and start: memory becomes the file, which has or has not got the write
that was under way, and every handler is gone.

The handler of a click authorizes and queues its claim in the same synchronous
run as the acknowledgement, so `ClickArrive` is one action. Building the message
update precedes both side effects and throws without a Slack reference:
`FinalizeWritten` then starts none.

### 3.3 SourceGate

The job's steps are the elements of `StepList`; `pos` is the current one and
`outcome[s]` is `steps.s.outcome`. `Condition(s)` is the step's `if:`, with the
`success()` that GitHub Actions adds to a condition without `always()`. A step
is one action, except notify and poll, whose calls to the broker interleave with
everything else the broker does. `Setup` stands for checkout and Node; the
downloads may fail without failing the job, which shows only in what the gate
concludes. `Evaluate` picks any set of findings the reports may give
(`FindingSets`, which must contain what a synthetic fixture injects), or only
`report_integrity`, when `runSecurityGate` throws; `EvaluateCrashes` covers a
result file that cannot be written, the first or the second one, so later steps
may find no gate, or one beside a failed step. A finding is reduced to what
decides its action and its eligibility.

The broker's `phase` and `claim` change only by actions of `BreakGlassApproval`,
which `LambdaBroker` and (where its writes succeed) `ExpressBroker` implement; added
are the deadline of a request and the moment at which a click's handler read the
clock (`Click`), because the claim may follow after the deadline. `sent` has the
requests opened for the notify step: the AWS CLI may repeat a call, so there can
be two, and `Mine` is the one CI was answered about. The poll step is
`PollStarts` (its own deadline), `PollAsks`, `BrokerAnswers` (the answer is a
snapshot that may be stale when received), `PollIsTold`, `PollSleeps`,
`PollWakes`, `PollTimesOut`; any failed call ends it (`PollFails`), as in the
code. `published` plays no part in what CI sees and is left out.

Assumed: CI and the broker read the same time. Left out: what the post step
writes to Slack and the pull request, uploaded files, temporary files of the
Lambda transport.

### 3.4 ImageGate and SecurityGate

Operators without state, one per evaluator of `image-gate.mjs` and
`security-gate.mjs`: what a report must satisfy (`...IsSound`, the code's
assertions) and the findings it becomes (`Evaluate...`). Every failed assertion
ends in the same result, `Untrusted` or `UntrustedSource`, so their order does not
matter and a conjunction stands for them. A rule such as `image.high_no_fix` is a
pair of severity and suffix; ids, packages and scores are small values; the parse
of a CVSS vector is the score it gives. Where the code keeps the first of two
entries of the same id and package (Trivy, pip-audit), the report is a sequence
(`FirstListed`). The operators have no properties of their own: the modules that
follow compute verdicts with them and compare these with what the facts deserve.

### 3.5 EcrScanPoll

`poller` is the script, at one of its calls: `Describe`, `ListCoverage`,
`ListFindings`, or asleep (`Wake`). ECR (`scan`) and Inspector (`inspector`) move by
themselves between any two calls: ECR completes a scan and attaches the findings
of an enhanced one later (`EcrAttaches`) or, if there are none, never; Inspector
scans, publishes, and may find more by a rescan (`Drift`). `truth` is what a scan of
the image finds now. `Bodies` are the answers ECR may give, `NormalizeAccepts` and
`NormalizeEcrResponse` are `normalizeEcrResponse` with its count reconciliation,
`MayBeClean`, `CoverageConfirms` and `ListFindings` are
`confirmCleanEnhancedScan`. `NotReady` is the one place where an attempt ends, as
in the code's loop: next attempt or polling limit. The properties judge the report
by `RunImageGate` on it, compared with `Intended`, the policy on the scanner's raw
findings. The assumption that makes the confirmation sound is explicit: findings
are published at most `Lag` after the scan, and `Lag < Settle`
(`CLEAN_SETTLE_SECONDS`, whose comment at `poll-ecr-scan.mjs:366` has 22 s and
60 s). It has to be strict: with `Lag = Settle` the findings may come in the
second in which the body is taken to have settled, and TLC then finds a clean
report of an image that is not.

### 3.6 DeliveryPipeline

Each of `Runs` is a run of `deploy.yml`; `Needs` is its graph of jobs, `Ready` and
`Skip` what GitHub makes of `needs` and `if`. A job is an action, except
`ecr-collect` (push, tag, poll) and `deploy` (send, polls), whose steps other runs
can get between. An image stands for both its config digest and its manifest
digest; `tarball`, `imageId`, `digest` and `report` are the names under which jobs
pass it on, and `SwapTarball` and `SwapReport` replace an artifact behind their
back. What a run shares with others is `registry`, its tag `demo` (moved by every
push, read by no deploy), and the instance: `command[r]` is the SSM command of a
run, whose script (`Pull`, `Rm`, `RunContainer`, `Prune`) interleaves with another
run's on the one container name. The result of the source gate is nondeterministic,
as `SourceGate` shows it; Trivy's and the registry's reports of an image are
constants (any, in the proofs), judged by `RunImageGate`.

### 3.7 PullRequestChecks

A push or a scheduled run brings a tree: the facts (code findings, secrets,
packages, Trivy's report) that scanners can find. `SourceReports` is how they look
in the reports, including the difference with the merge base and the duplicates of
pip-audit; `SourceGate(n)` runs `RunSecurityGate` on them and `ImageSecurity(n)`
`RunImageGate`. `ListComments` and `WriteComment` are the two calls of
`upsertPrComment`, between which the other job or another run can write.
The policy is `policy.yaml`'s own: `PullRequestAssumption` fixes its actions and the
severities of Semgrep's levels and leaves the thresholds open. `TreesAssumption` is
what a tree's facts may look like (finitely many packages, one entry per package
and advisory, severities that the gate knows), `NoReportAssumption` that a missing
report is not one of the reports. `GenerateBaseline` takes the report of any run and any of the gate results, as an
operator may, and later runs read what it wrote. The three checks are the
operators `...IsGreen`. Faults are counted (`MaxFaults`).

## 4. Runs

`CHECK_DEADLOCK FALSE` everywhere: a behaviour ends when all invocations have
ended, the clock is at its bound and CI asks no more; a real broker is then idle.
A job, a workflow run or a poll ends when its steps have.

| run | module, configuration | what it shows |
| --- | --- | --- |
| `lambda_broker` | `MCLambdaBroker`, `LambdaBroker.cfg` | all safety and action properties and the refinement, under all six kinds of fault (about 1 million states) |
| `lambda_broker_live` | `MCLambdaBroker`, `LambdaBrokerLive.cfg` | liveness with Slack and enqueue failures |
| `express_broker` | `MCExpressBroker`, `ExpressBroker.cfg` | safety with crashes, failed writes and lost answers (about 1.3 million states) |
| `express_approval` | `MCExpressBroker`, `ExpressApproval.cfg` | the file implements the abstract approval |
| `express_live` | `MCExpressBroker`, `ExpressLive.cfg` | liveness with Slack failures |
| `source_gate` | `MCSourceGate`, `SourceGate.cfg` | the job in every mode and transport, with failing tools, lost and repeated calls, cancellation: safety, the two deadlines, and that it ends (about 450,000 states) |
| `ecr_scan` | `MCEcrScanPoll`, `EcrScanPoll.cfg` | the poller in both scanning modes, by digest and by tag, with all eight kinds of fault: what it reports is what the scan found, a clean report is the truth, and it ends (about 214,000 states) |
| `delivery` | `MCDeliveryPipeline`, `DeliveryPipeline.cfg` | two concurrent runs on one registry and instance: only gated images are pushed and run, an outage shows as a failed deploy, every run ends (about 345,000 states) |
| `pr_checks` | `MCPullRequestChecks`, `PullRequestChecks.cfg` | two pushes or scheduled runs over six trees, each kind of fault once: verdicts are what the tree deserves, green checks hide nothing, the comment is the last run's (about 1 million states) |
| `source_gate_push` | `MCSourceGate`, `SourceGatePush.cfg` | expected violation, see section 6 |
| `express_fast_click_audit` | `MCExpressBroker`, `ExpressAudit.cfg` | expected violation, see section 6 |
| `pr_comment` | `MCPullRequestChecks`, `PullRequestComment.cfg` | expected violation, see section 6 |

**Bounds.** Requests are independent in the Lambda broker (every handler touches
the item of one request), so one is enough; in the Express broker they share the
chain and the file, so `express_approval` has two. Two clicks can race each other
and a third adds only another loser; `express_broker` has three all the same. Two
approvers and `mallory`, who is not on the allowlist, cover same-user double
clicks, rival approvers and outsiders; the approvers and the clicks are
interchangeable, hence the symmetry (used only where no liveness is checked). One
worker and two clicks give three executions of follow-ups, of which two can run
at once with a third queued. `MaxTime` bounds the clock; with a deadline at 1, time 0 is before and
1 at the deadline, where the code's comparisons differ (`<=`, `>`), and no
comparison distinguishes later times; `express_broker` also has deadlines 1 and 2.
A request is only created if the clock can reach its deadline, or liveness would
hold for want of time.

`source_gate` has one approver and two requests, enough for one retried call.
The broker's limits are 2 ticks (minimum, default and maximum); a requested wait
of 0 (none given) and of 1 tick, below the minimum, are the two cases the clamp
tells apart. `MaxLag` lets the poll start at the same tick as the request or one
later, so the two deadlines coincide or differ; `MaxTime` is beyond every deadline
(or `JobEnds` would fail). `MCInputs` fixes inputs a run does not read.

`ecr_scan` has four attempts one tick apart and a settling time of two, so the poll
can give up before the time has passed, while it settles, at the confirmation and
never; `Lag` is one less than `Settle`, so a publication can fall on either side of
each call. `MaxTime` stops the clock only when nobody waits. The images have no
finding, one of each kind of severity and fix (mapped, unmapped, unusable), and two.
In `delivery` everything may go wrong in the first run, which may build an image
that Trivy blocks, one that only the registry blocks and a clean one; the second is
enforced and its calls and commands may fail, which is enough for one to move the
tag or take the container between any two steps of the other. Two polls show an
answer that is late and one that is too late. In `pr_checks` two runs are enough for
a baseline that the second reads and for two writers of the comment; one fault at a
time, because a second one adds only another job that has already failed.

**Fairness.** Weak fairness of each running invocation's next step (Lambda and
Node run what is ready; calls to Slack and GitHub end, by their 15 s timeout at
the latest), of the delivery of accepted asynchronous invocations, of the clock,
and of CI's polling. The last one is justified as long as CI's own deadline has
not passed; both deadlines come from the same `timeoutSeconds` (the broker clamps
it to 60..3600 s, CI counts from when its poll starts), and what happens when
they differ is the subject of `SourceGate`. There, fairness is that of the runner
(each call has a timeout, so each step ends) and of the clock; neither people nor
the broker's unfinished claims are assumed to move. Nothing is assumed of people: no click need ever come.
In `ecr_scan` the poller's process runs and time passes, as its calls and its sleeps
end, and Inspector publishes what is overdue (the assumption of 3.5, without which
time would not pass); ECR need never finish a scan. In `delivery` GitHub runs the
jobs of every run; SSM and the instance owe nothing, so that `PipelineEnds` rests on
the polling limit. `pr_checks` has no liveness.
The liveness runs exclude crashes, lost writes and dropped jobs because the code
does not recover from them: a claim whose invocation dies stays in "processing",
and a comment whose poster dies is lost.

## 5. Proofs

`LambdaBrokerProofs` proves, for all sets of users, repositories, requests,
clicks and workers, all allowlists, limits and faults allowed by the `ASSUME`s:
`TypeOK`, `DocumentMatchesItem`, `DecidedByApprover`, `OneClickWins`,
`PublishedOnceAndTrue`, `CIToldTheTruth`, `CIFindsItsRequest`,
`ClaimSurvivesToFinalize` as invariants, `ClaimIsBinding`, `EndIsFinal`,
`RolledBackStaysGone` as action properties, and `ImplementsApproval`. No run checks
`DecidedByApprover` and `EndIsFinal`, which follow from `ImplementsApproval`.

The properties are not inductive by themselves: what a click may write depends on
what its copy, however old, still guarantees about the table. `IInv` says so. Its
parts are `TableInv` (an item is consistent), `NotifyInv` (who can have touched
the request by when), `PollInv` and `ClickInv` (what each local copy says about
the item, `AgreesWith`; the click that holds a claim holds it alone) and `FxInv`
(one follow-up at most delivers, and only a decided request). The proof has a
lemma per write of the store (which items it can lead to, `Evolves`), one
per conjunct of `IInv` and handler, and one step per action; action properties
and the refinement then follow from `IInv` and `[Next]_vars`. The refinement maps
a request to its stored status, or to "none" or "withdrawn" depending on its
notify invocation (`PhaseOf`), and its claim to the claim in flight or the
recorded approver (`ClaimOf`).

`SourceGateProofs` proves, for all users, allowlists, limits, requests, inputs,
findings, intervals, bounds of the clock and faults: `TypeOK`,
`BlockNeedsApproval`, `HardBlockNeverAsked`, `ToldIsTheEnd`, `LogOnlyNeverBlocks`
and `UntrustedIsFlagged` as invariants, and `TimeoutIsFinal`. What a passed job
says of its gate and its approval was settled in different steps, so the
inductive invariant `IInv` carries it from one to the next: `StepInv` (the steps
before the current one have an outcome, the others none), `OutcomeInv` (what the
outcome of each step that matters tells of the gate, the requests and the poll),
`SentInv` (requests exist only for an eligible BLOCK, and the last one's deadline
is at most the clamped wait from now), `PollInv` (the poll's deadline is not
before the broker's unless the wait is below the minimum; a reported end is the
request's) and `BrokerInv` (a claim is an approver's). The proof first reduces
each step of the system to what it does to the runner (`RunnerStep`: it ends the
current step or none), to the requests (`RequestMoves`) and to the poll
(`PollChanges`), then keeps each part of `IInv` with a lemma of its own. TLC
checked `IInv` under `SourceGate.cfg` before it was proved. The broker in these
theorems is `BreakGlassApproval` with deadlines; that every step of the Lambda
broker is one of its steps is the refinement theorem above.

`LogOnlyNeverBlocks` is proved though no run checks it.

`DeliveryPipelineProofs` proves `TypeOK`, `OnlyGatedImages` and `OutageIsSeen` for
all sets of runs and images, all reports, policies, modes, numbers of attempts and
faults; its assumptions (`ImagesAssumption`, `RunsAssumption`) are that Trivy and
the registry report an image under its own digest or none, and the types of the
constants. When an image runs, the jobs that judged it ended long before and in
variables that other jobs wrote, so `IInv` has, for each run: `Ancestry` (which jobs
have succeeded if a later one has started), `Gating` (what a gate's success says of
the image it judged), `Naming` (the image's names agree from the push on) and
`Deploying` (where its command is, and that the image it names is `Gated`); and
across runs `Published` (each image in the registry has a run that gated it),
`Hosted` (so has the container) and `Outage`. What is `Gated` stays so because a
run's outputs do not change once a job that reads them has started. The proof has
one step per action, and separate lemmas for what the jobs' graph and
`RunImageGate` give.

`ExpressBrokerProofs` proves, for all requests, users, allowlists, clicks, limits and
faults: `TypeOK`, `CINotMisled`, `PublishedIsDurable`, `OneClickDecides`,
`KnownRequestIsDurable`, and, which no run checks, that only authorized users are
ever recorded (`OnlyApproversDecide`) and that the file never takes back an end
(`EndStays`). Memory runs ahead of the file and a restart throws it back, so the
inductive invariant is about both copies: `Follows` lists what memory may have made
of the request that is on disk, `Stored` holds of either copy, `ToldInv` and
`PublishedInv` of both. `ChainInv` ties each queued update to the one handler that
waits for it, and `ClickInv` says, for each stage of a click, what it finds in
memory and on disk. The proof has a lemma per kind of update (queued, run, written,
failed), one per handler and one for the restart.

`ShownIsStored`, `ClaimSurvivesToFinalize` and the refinement `DiskImplementsApproval`
are proved under the hypothesis `Reliable`: no write of the file fails and no answer
of Slack is lost, while crashes, refused posts, updates and comments happen. Without
it they are false, as section 6 says of the rollback; `express_approval` checks them
under the same restriction. They need a second invariant, `Calm`: a shown message
belongs to a stored request that is not being withdrawn, and memory differs from the
file in at most the request of the update under way (`OneDirty`), so that a write or
a restart moves one request of the file at a time, by a step of the abstract
approval (`PhaseMove`).

`EcrScanPollProofs` proves `TypeOK`, `VerdictIsEarned` and `CleanIsTrue` for any
finite sets of findings, policies, limits of attempts, delays and faults. A report
with findings is earned because of the counts: ECR's own count of each severity and
the number of findings parsed agree, and as the parsed ones are a subset of the
counted ones, finitely many, none is missing (`WholeBody`). A clean report is true
because of the time: `OnTime` bounds what Inspector has not published yet, and
`PollerInv` says that the kept body has settled, is of the pushed image and that
Inspector's scan followed ECR's completion, whatever happens between the three
calls. The attempt to prove it with `Lag <= Settle` showed that the bound is strict.

`PullRequestChecksProofs` proves `TypeOK`, `VerdictIsDeserved`, `GreenIsEarned` and
`CommentIsCurrent` for any trees, merge base, thresholds, image policy, number of
runs and faults, under the actions of `policy.yaml`. The first half is about the
operators of `SecurityGate`: a lemma per evaluator says which findings block for
good and which may be lifted (`SecretsBlock`, `NpmBlocks`, `PipBlocks`, `OsvBlocks`,
`SemgrepBlocks`), `ReportsAreReadable` and `GoodIsTrusted` that the reports of a tree
pass every assertion, `BadIsUntrusted` that a bad one does not, and `GateIsDeserved`
puts them together. Of the recorded baselines it needs that their fingerprints are
those of the findings they accept (`GeneratedBaseline`), which `GenerateBaseline`
keeps. The second half is the invariant of the runs: `SourceInv` and `ImageInv` (what
a gate left in its job, and over what it passes), and `LastInv`, the last run's claim
on the comment. While that run has the pull request for itself all earlier ones are
over, and each of its jobs (`Heard`) that found no comment still knows that there is
none but its own run's, each that delivered that the first comment is its run's or
that there was nothing to say.

Each inductive invariant was checked by TLC, under the component's configuration,
before it was proved. Every safety property, action property and refinement that a
passing run checks is a theorem. Only model-checked: liveness (`DecisionIsAudited`
and `CILearnsTheEnd` of the brokers, `JobEnds`, `PollEnds`, `PipelineEnds`), which is
out of the prover's reach, as it rests on fairness. `EligibleBlockIsAsked`,
`CommentIsHonest` and the Express broker's `DecisionIsAudited` are refuted, not proved.

## 6. Where the code and its texts disagree

* `express_fast_click_audit` needs no fault, only a click that is handled while
  `notify` still waits for Slack's answer or for its record, the "fast click" of the
  comment at `server/break-glass/app.mjs:90`. The click is claimed and finalized
  before `request.slack` exists; `buildDecisionUpdate` throws while the array of side
  effects is built, so the audit comment is not posted either. The same click makes
  the 201 of `app.mjs:110` report the live status, "processing" or "approved", where
  `security/scripts/break-glass-notify.mjs:109` accepts only "pending" and fails the
  CI step. The Lambda broker has neither: it tests `request.slack` before it
  updates, and answers a copy.

* `source_gate_push`: `docs/workflow-contracts.md:75` wants break-glass to work
  "as well as on push". On a push there is no pull request number, `deploy.yml`
  passes none, and `request.mjs:23` refuses a notification without one: the
  notify step fails, and the eligible BLOCK cannot be approved. With a number
  the property holds in the same configuration.

* `pr_comment`: both gates post under one marker (`format-findings.mjs:17`), so the
  clean image gate of a run replaces the red comment of the same run's blocked
  source gate by a green one, against `notify.mjs:39` and `format-findings.mjs:325`.
  `CommentIsCurrent`, which only wants the comment to be the last run's, holds.

Observations made while modelling, which no run is about:

* When Slack shows the message but its answer is lost (fault `lost`), the rollback
  at `app.mjs:101` deletes the request even if a click has decided it. CI has been
  told 502 by then and fails closed; `express_broker` includes the case
  (`RolledBack`), `express_approval` excludes it, because the abstract approval
  withdraws only pending requests. The Lambda store's `deletePending` is conditional.
* `deploy.yml:205` says that a Critical or High image finding "can never reach a
  deploy"; one without a fix is an EXCEPTION and does, and log-only lets all through.
  `Gated` says exactly which.
* Of two Trivy entries for the same vulnerability and package only the first counts,
  whatever the second says about a fix (`image-gate.mjs:240`); the same in
  pip-audit's reports (`security-gate.mjs:317`).
* Two deploys may interleave on the instance, so the image that ends up running may
  be the older commit's; it is gated all the same. The SSM poll gives up after 300 s
  while the command may run for 600 s, and a failed prune fails the command: a deploy
  may be reported as failed that did start its image, never the converse.
* The check `gate-mode` compares with the source gate's mode (`security.yml:94`): if
  `GATE_MODE` is changed between the two gates of a run, a suppressed image block can
  be green. `GreenIsEarned` is therefore about runs whose gates ran in one mode.
* Two jobs that both list no comment both create one, and the second stays as it is;
  only the first 100 comments are searched. `CommentIsCurrent` is about the first
  comment with the marker, and about runs that did not overlap.
* On a pull request Semgrep reports only what the merge base lacks, so a baseline
  made from such a run accepts only that. `docs/onboarding.md:38` has the raw Semgrep
  report committed as a baseline, which the gate refuses (`schemaVersion`).
* `Jenkinsfile:409` polls by tag only, so a clean enhanced scan is never confirmed
  there: the poll ends at its limit and the gate blocks.

## 7. Not modelled

Section 1.6 lists the parts left out and why. Of the parts that are modelled: the
install, login, upload and summary steps of the workflows; the three scanner jobs
as such (their reports are modelled, and a job that fails by itself); the routing of
Slack messages and the wording of comments and summaries; the TTL deletion of the
Lambda broker's items; the ephemeral replies of both brokers; the parsing of
arguments, ids, CVSS vectors and locations. The order of the workflows' steps within
a job is kept where a later step reads what an earlier one wrote.
