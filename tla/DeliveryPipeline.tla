--------------------------- MODULE DeliveryPipeline --------------------------
(***************************************************************************)
(* deploy.yml with the reusable workflows it calls and ssm-deploy.mjs:     *)
(* runs on main, concurrent and unordered, that share one repository of    *)
(* images and one instance.  The source gate's job is what SourceGate      *)
(* shows of it, the registry's scan what EcrScanPoll shows of it, and      *)
(* image-gate.mjs is ImageGate.  An image stands for its config digest and *)
(* for the manifest digest it is pushed under.  A definition marked        *)
(* "Variant" is a faulty version of the one after it.                      *)
(***************************************************************************)
EXTENDS ImageGate

CONSTANTS
  Runs,          \* the workflow runs
  Images,
  NoImage,       \* a job output that is empty
  TrivyOf,       \* what Trivy reports of an image
  RegistryOf,    \* what the poll of a digest reports, when it reports
  Builds,        \* the images that a run may build
  Setups,        \* what a run may start from
  Faults,        \* what may go wrong in a run: a subset of FaultKinds
  MaxAttempts    \* ssm-deploy.mjs: maxAttempts

\* A job's tool or its runner fails; Trivy reports nothing; a job downloads an
\* artifact other than the one its predecessor saw; the pushed digest cannot be
\* read; the poll fails; a call to SSM fails; a command fails or times out.
FaultKinds == {"tool", "trivy", "swap", "digest", "poll", "call", "command"}

Gates == {"source", "image", "artifact"}
Modes == {"enforce", "log-only"}

\* configured: the variables that aws-configuration looks for are all set.
\* GATE_MODE is read by each gate for itself.
SetupRecords(policies) ==
  [main : BOOLEAN, configured : BOOLEAN, policy : policies, mode : [Gates -> Modes]]

ASSUME ImagesAssumption ==
  /\ NoImage \notin Images
  /\ TrivyOf \in [Images -> {TrivyOf[i] : i \in Images}]
  /\ \A i \in Images : TrivyOf[i].imageId \in {i, "none"}
  /\ RegistryOf \in [Images -> {RegistryOf[i] : i \in Images}]
  /\ \A i \in Images : RegistryOf[i] # NoReport => RegistryOf[i].imageDigest = i
ASSUME RunsAssumption ==
  /\ Builds \in [Runs -> SUBSET Images]
  /\ \A r \in Runs : Setups[r] \subseteq SetupRecords({s.policy : s \in Setups[r]})
  /\ Faults \in [Runs -> SUBSET FaultKinds]
  /\ MaxAttempts \in Nat \ {0}

VARIABLES
  setup,
  job,       \* the jobs' results, and where collect and deploy are
  tarball,   \* application-image-<sha>: the image in the run's artifact
  imageId,   \* outputs.image_id of image-security: what Trivy scanned
  digest,    \* outputs.image_digest of ecr-collect: what was pushed
  report,    \* registry-image-scan
  verdict,   \* the gates' verdicts
  attempt,   \* the deploy job's poll
  registry,  \* the images in the repository
  demo,      \* the image that its mutable tag names
  command,   \* SSM: the run's command, the image it names, if it started a container
  container  \* the instance's container, and the run that started it

scans    == <<tarball, imageId, digest, report, verdict>>
aws      == <<registry, demo>>
instance == <<command, container>>
vars     == <<setup, job, scans, attempt, aws, instance>>

-----------------------------------------------------------------------------
(* The graph of jobs *)

Needs ==
  [ source |-> {}, build |-> {}, image |-> {"build"}, configuration |-> {"source", "image"},
    collect |-> {"source", "build", "image", "configuration"},
    artifact |-> {"collect"}, deploy |-> {"artifact", "collect"} ]

Jobs == DOMAIN Needs

\* A job that has no status function in its condition needs success().
If(r, j) ==
  /\ j \in {"configuration", "collect"} => setup[r].main
  /\ j = "collect" => setup[r].configured

NeedsEnded(r, j)     == \A n \in Needs[j] : job[r][n] \in {"success", "failure", "skipped"}
NeedsSucceeded(r, j) == \A n \in Needs[j] : job[r][n] = "success"

Ready(r, j) == job[r][j] = "waiting" /\ NeedsSucceeded(r, j) /\ If(r, j)

Running(r, j) == job[r][j] \in {"pushed", "tagged", "polling"}

Becomes(r, j, status) == job' = [job EXCEPT ![r][j] = status]

Skip(r, j) ==
  /\ job[r][j] = "waiting" /\ NeedsEnded(r, j)
  /\ ~(NeedsSucceeded(r, j) /\ If(r, j))
  /\ Becomes(r, j, "skipped")
  /\ UNCHANGED <<setup, scans, attempt, aws, instance>>

ToolFails(r, j) ==
  /\ "tool" \in Faults[r]
  /\ Ready(r, j) \/ Running(r, j)
  /\ Becomes(r, j, "failure")
  /\ UNCHANGED <<setup, scans, attempt, aws, instance>>

\* The steps that enforce a verdict: a warning in log-only, or exit 1 on a block.
Enforced(r, g, v) ==
  IF setup[r].mode[g] = "enforce" /\ v \in {"BLOCK", "BLOCK_DEPLOY"} THEN "failure" ELSE "success"

Init ==
  /\ setup \in {s \in [Runs -> UNION {Setups[r] : r \in Runs}] : \A r \in Runs : s[r] \in Setups[r]}
  /\ job = [r \in Runs |-> [j \in Jobs |-> "waiting"]]
  /\ tarball = [r \in Runs |-> NoImage]
  /\ imageId = [r \in Runs |-> NoImage]
  /\ digest = [r \in Runs |-> NoImage]
  /\ report = [r \in Runs |-> NoReport]
  /\ verdict = [r \in Runs |-> [g \in Gates |-> "none"]]
  /\ attempt = [r \in Runs |-> 1]
  /\ registry = {} /\ demo = NoImage
  /\ command = [r \in Runs |-> [state |-> "none", image |-> NoImage, ran |-> FALSE]]
  /\ container = [run |-> "none", image |-> NoImage]

-----------------------------------------------------------------------------
(* Before anything is pushed *)

\* _source-security.yml: "APPROVED" is a block that a decision has lifted.
SourceSecurity(r) ==
  /\ Ready(r, "source")
  /\ \E v \in {"PASS", "BLOCK"} \cup
             (IF setup[r].mode["source"] = "enforce" THEN {"APPROVED"} ELSE {}) :
       /\ verdict' = [verdict EXCEPT ![r]["source"] = v]
       /\ Becomes(r, "source", Enforced(r, "source", v))
  /\ UNCHANGED <<setup, tarball, imageId, digest, report, attempt, aws, instance>>

ContainerBuild(r) ==
  /\ Ready(r, "build")
  /\ \E i \in Builds[r] : tarball' = [tarball EXCEPT ![r] = i]
  /\ Becomes(r, "build", "success")
  /\ UNCHANGED <<setup, imageId, digest, report, verdict, attempt, aws, instance>>

\* A report without an image id fails the step that records it, in every mode,
\* and the verdict of a gate that did not run is a block.
ImageSecurity(r) ==
  /\ Ready(r, "image")
  /\ \E trivy \in {TrivyOf[tarball[r]]} \cup (IF "trivy" \in Faults[r] THEN {NoReport} ELSE {}) :
       IF trivy = NoReport \/ trivy.imageId = "none"
       THEN /\ verdict' = [verdict EXCEPT ![r]["image"] = "BLOCK_DEPLOY"]
            /\ Becomes(r, "image", "failure")
            /\ UNCHANGED imageId
       ELSE LET v == RunImageGate("trivy", setup[r].policy, trivy).verdict
            IN /\ verdict' = [verdict EXCEPT ![r]["image"] = v]
               /\ Becomes(r, "image", Enforced(r, "image", v))
               /\ imageId' = [imageId EXCEPT ![r] = trivy.imageId]
  /\ UNCHANGED <<setup, tarball, digest, report, attempt, aws, instance>>

AwsConfiguration(r) ==
  /\ Ready(r, "configuration")
  /\ Becomes(r, "configuration", "success")
  /\ UNCHANGED <<setup, scans, attempt, aws, instance>>

\* "A different image slipped in between scan and push."
SwapTarball(r) ==
  /\ "swap" \in Faults[r]
  /\ job[r]["build"] = "success" /\ job[r]["collect"] = "waiting"
  /\ \E i \in Images : tarball' = [tarball EXCEPT ![r] = i]
  /\ UNCHANGED <<setup, job, imageId, digest, report, verdict, attempt, aws, instance>>

-----------------------------------------------------------------------------
(* _ecr-collect.yml *)

IdentityHolds(r) == tarball[r] = imageId[r]

PushImmutable(r) ==
  /\ Ready(r, "collect")
  /\ IF IdentityHolds(r)
     THEN registry' = registry \cup {tarball[r]} /\ Becomes(r, "collect", "pushed")
     ELSE Becomes(r, "collect", "failure") /\ UNCHANGED registry
  /\ UNCHANGED <<setup, scans, attempt, demo, instance>>

\* The pipe that reads the digest fails as an empty digest.
PushDemo(r) ==
  /\ job[r]["collect"] = "pushed"
  /\ demo' = tarball[r]
  /\ \E d \in {tarball[r]} \cup (IF "digest" \in Faults[r] THEN {NoImage} ELSE {}) :
       digest' = [digest EXCEPT ![r] = d]
  /\ Becomes(r, "collect", "tagged")
  /\ UNCHANGED <<setup, tarball, imageId, report, verdict, attempt, registry, instance>>

\* The step continues on error: a poll that failed leaves an empty report.
PollScan(r) ==
  /\ job[r]["collect"] = "tagged"
  /\ \/ /\ digest[r] # NoImage
        /\ report' = [report EXCEPT ![r] = RegistryOf[digest[r]]]
     \/ /\ "poll" \in Faults[r] \/ digest[r] = NoImage
        /\ report' = [report EXCEPT ![r] = NoReport]
  /\ Becomes(r, "collect", "success")
  /\ UNCHANGED <<setup, tarball, imageId, digest, verdict, attempt, aws, instance>>

-----------------------------------------------------------------------------
(* _artifact-gate.yml *)

SwapReport(r) ==
  /\ "swap" \in Faults[r]
  /\ job[r]["collect"] = "success" /\ job[r]["artifact"] = "waiting"
  /\ \E i \in Images : report' = [report EXCEPT ![r] = RegistryOf[i]]
  /\ UNCHANGED <<setup, job, tarball, imageId, digest, verdict, attempt, aws, instance>>

\* An unreadable report names no digest; the gate itself judges it.
DigestHolds(r) == report[r] = NoReport \/ report[r].imageDigest = digest[r]

ArtifactGate(r) ==
  /\ Ready(r, "artifact")
  /\ LET v == IF DigestHolds(r)
              THEN RunImageGate("ecr", setup[r].policy, report[r]).verdict
              ELSE "BLOCK_DEPLOY"
     IN /\ verdict' = [verdict EXCEPT ![r]["artifact"] = v]
        /\ Becomes(r, "artifact", IF DigestHolds(r) THEN Enforced(r, "artifact", v) ELSE "failure")
  /\ UNCHANGED <<setup, tarball, imageId, digest, report, attempt, aws, instance>>

-----------------------------------------------------------------------------
(* The deploy job: ssm-deploy.mjs *)

\* Variant: by tag, as Jenkins and the earlier script did.
ImageByTag(r) == demo
BuildImage(r) == digest[r]

Send(r) == command' = [command EXCEPT ![r] = [@ EXCEPT !.state = "queued", !.image = BuildImage(r)]]

\* send-command: an accepted command may still be reported as failed.
SendCommand(r) ==
  /\ Ready(r, "deploy")
  /\ \/ /\ BuildImage(r) # NoImage /\ Send(r)
        /\ Becomes(r, "deploy", "polling")
     \/ /\ BuildImage(r) # NoImage /\ "call" \in Faults[r]
        /\ Send(r) \/ UNCHANGED command
        /\ Becomes(r, "deploy", "failure")
     \/ /\ BuildImage(r) = NoImage
        /\ Becomes(r, "deploy", "failure")
        /\ UNCHANGED command
  /\ UNCHANGED <<setup, scans, attempt, aws, container>>

\* Variant: the attempts are not limited.
PollWithoutLimit(r) == UNCHANGED <<job, attempt>>
\* Variant: one attempt too many.
PollOnceMore(r) ==
  \/ /\ attempt[r] =< MaxAttempts
     /\ attempt' = [attempt EXCEPT ![r] = @ + 1]
     /\ UNCHANGED job
  \/ /\ attempt[r] > MaxAttempts
     /\ Becomes(r, "deploy", "failure")
     /\ UNCHANGED attempt
PollAgain(r) ==
  \/ /\ attempt[r] < MaxAttempts
     /\ attempt' = [attempt EXCEPT ![r] = @ + 1]
     /\ UNCHANGED job
  \/ /\ attempt[r] = MaxAttempts
     /\ Becomes(r, "deploy", "failure")
     /\ UNCHANGED attempt

\* get-command-invocation: an invocation that does not exist yet is pending, and
\* any other error (PollFails) is permanent.
PollInvocation(r) ==
  /\ job[r]["deploy"] = "polling"
  /\ \/ /\ command[r].state = "Success"
        /\ Becomes(r, "deploy", "success") /\ UNCHANGED attempt
     \/ /\ command[r].state = "Failed"
        /\ Becomes(r, "deploy", "failure") /\ UNCHANGED attempt
     \/ command[r].state \notin {"Success", "Failed"} /\ PollAgain(r)
  /\ UNCHANGED <<setup, scans, aws, instance>>

PollFails(r) ==
  /\ "call" \in Faults[r]
  /\ job[r]["deploy"] = "polling"
  /\ Becomes(r, "deploy", "failure")
  /\ UNCHANGED <<setup, scans, attempt, aws, instance>>

-----------------------------------------------------------------------------
(* The instance runs a command's script: any commands at once, each in order *)

NoContainer == [run |-> "none", image |-> NoImage]

Goto(r, state) == command' = [command EXCEPT ![r] = [@ EXCEPT !.state = state]]

Pull(r) ==
  /\ command[r].state = "queued" /\ command[r].image \in registry
  /\ Goto(r, "pulled")
  /\ UNCHANGED <<setup, job, scans, attempt, aws, container>>

\* "docker rm -f ... || true"
Rm(r) ==
  /\ command[r].state = "pulled"
  /\ Goto(r, "removed")
  /\ container' = NoContainer \/ ("command" \in Faults[r] /\ container' = container)
  /\ UNCHANGED <<setup, job, scans, attempt, aws>>

\* Variant: the script goes on after the failure, for want of "set -e".
ConflictIgnored(r) == Goto(r, "started")
Conflict(r) == Goto(r, "Failed")

\* The name of a container that is still there makes docker run fail.
RunContainer(r) ==
  /\ command[r].state = "removed"
  /\ \/ /\ container = NoContainer
        /\ container' = [run |-> r, image |-> command[r].image]
        /\ command' = [command EXCEPT ![r] = [@ EXCEPT !.state = "started", !.ran = TRUE]]
     \/ /\ container # NoContainer
        /\ Conflict(r) /\ UNCHANGED container
  /\ UNCHANGED <<setup, job, scans, attempt, aws>>

Prune(r) ==
  /\ command[r].state = "started"
  /\ Goto(r, "Success")
  /\ UNCHANGED <<setup, job, scans, attempt, aws, container>>

\* A step of the script fails, or the command times out.
CommandFails(r) ==
  /\ "command" \in Faults[r]
  /\ command[r].state \in {"queued", "pulled", "removed", "started"}
  /\ Goto(r, "Failed")
  /\ UNCHANGED <<setup, job, scans, attempt, aws, container>>

-----------------------------------------------------------------------------

Runner(r) ==
  \/ \E j \in Jobs : Skip(r, j)
  \/ SourceSecurity(r) \/ ContainerBuild(r) \/ ImageSecurity(r) \/ AwsConfiguration(r)
  \/ PushImmutable(r) \/ PushDemo(r) \/ PollScan(r)
  \/ ArtifactGate(r)
  \/ SendCommand(r) \/ PollInvocation(r)

Instance(r) == Pull(r) \/ Rm(r) \/ RunContainer(r) \/ Prune(r) \/ CommandFails(r)

Next ==
  \E r \in Runs :
    \/ Runner(r)
    \/ (\E j \in Jobs : ToolFails(r, j)) \/ PollFails(r)
    \/ SwapTarball(r) \/ SwapReport(r)
    \/ Instance(r)

Spec == Init /\ [][Next]_vars

\* GitHub runs the jobs of every run.  SSM and the instance owe nothing.
FairSpec == Spec /\ \A r \in Runs : WF_vars(Runner(r))

-----------------------------------------------------------------------------
(* Properties *)

Statuses == {"waiting", "success", "failure", "skipped"}

TypeOK ==
  /\ DOMAIN setup = Runs /\ \A r \in Runs : setup[r] \in Setups[r]
  /\ job \in [Runs -> [Jobs -> Statuses \cup {"pushed", "tagged", "polling"}]]
  /\ \A r \in Runs : \A j \in Jobs \ {"collect", "deploy"} : job[r][j] \in Statuses
  /\ tarball \in [Runs -> Images \cup {NoImage}]
  /\ imageId \in [Runs -> Images \cup {NoImage}]
  /\ digest \in [Runs -> Images \cup {NoImage}]
  /\ report \in [Runs -> {RegistryOf[i] : i \in Images} \cup {NoReport}]
  /\ verdict \in [Runs -> [Gates -> Verdicts \cup {"none", "PASS", "BLOCK", "APPROVED"}]]
  /\ attempt \in [Runs -> 1..MaxAttempts]
  /\ registry \subseteq Images /\ demo \in Images \cup {NoImage}
  /\ command \in [Runs -> [state : {"none", "queued", "pulled", "removed", "started",
                                    "Success", "Failed"},
                           image : Images \cup {NoImage}, ran : BOOLEAN]]
  /\ container \in [run : Runs, image : Images] \cup {NoContainer}

\* What a run must have shown of an image to push it.
PrePushGated(r, i) ==
  /\ setup[r].main
  /\ job[r]["source"] = "success" /\ job[r]["image"] = "success"
  /\ imageId[r] = i
  /\ setup[r].mode["source"] = "enforce" => verdict[r]["source"] # "BLOCK"
  /\ setup[r].mode["image"] = "enforce" =>
       RunImageGate("trivy", setup[r].policy, TrivyOf[i]).verdict # "BLOCK_DEPLOY"

\* ... and to deploy it.
Gated(r, i) ==
  /\ PrePushGated(r, i)
  /\ job[r]["artifact"] = "success"
  /\ digest[r] = i
  /\ setup[r].mode["artifact"] = "enforce" =>
       RunImageGate("ecr", setup[r].policy, RegistryOf[i]).verdict # "BLOCK_DEPLOY"

\* "The thing scanned is provably the thing deployed": whatever other runs push,
\* the repository holds only images that a run gated, and the instance pulls and
\* runs only the image that the gates of the same run passed, unless log-only.
OnlyGatedImages ==
  /\ \A i \in registry : \E r \in Runs : PrePushGated(r, i)
  /\ \A r \in Runs : command[r].image # NoImage => Gated(r, command[r].image)
  /\ container # NoContainer => Gated(container.run, container.image)

\* "Any failed step surfaces as a Failed command invocation, not a false success":
\* a deploy that is reported as a success did start its image, and an instance
\* whose container is gone has a deploy that is still in flight or has failed.
OutageIsSeen ==
  /\ \A r \in Runs : job[r]["deploy"] = "success" => command[r].ran
  /\ container = NoContainer /\ (\E r \in Runs : command[r].ran) =>
       \E r \in Runs : /\ command[r].state \in {"removed", "Failed"}
                       /\ job[r]["deploy"] \in {"polling", "failure"}

\* Every job of every run ends, whatever the services do.
PipelineEnds ==
  <>(\A r \in Runs : \A j \in Jobs : job[r][j] \in {"success", "failure", "skipped"})
=============================================================================
