------------------------ MODULE DeliveryPipelineProofs ------------------------
(***************************************************************************)
(* For every set of runs, images, reports, policies, modes and faults of   *)
(* DeliveryPipeline: its types, that only gated images are pushed, pulled  *)
(* and run, and that an outage is seen.  The inductive invariant says, for *)
(* each run, which jobs have succeeded before it (Ancestry), what a gate's *)
(* success says of its image (Gating), that the image's names agree        *)
(* (Naming), and where its command is (Deploying).                         *)
(***************************************************************************)
EXTENDS DeliveryPipeline, TLAPS

Ancestry(r) ==
  /\ job[r]["collect"] \notin {"waiting", "skipped"} =>
       /\ setup[r].main
       /\ job[r]["source"] = "success" /\ job[r]["build"] = "success"
       /\ job[r]["image"] = "success"
  /\ job[r]["artifact"] \notin {"waiting", "skipped"} => job[r]["collect"] = "success"
  /\ job[r]["deploy"] \notin {"waiting", "skipped"} =>
       job[r]["artifact"] = "success" /\ job[r]["collect"] = "success"

Gating(r) ==
  /\ job[r]["source"] = "success" /\ setup[r].mode["source"] = "enforce" =>
       verdict[r]["source"] # "BLOCK"
  /\ job[r]["image"] = "success" =>
       /\ imageId[r] \in Images
       /\ setup[r].mode["image"] = "enforce" =>
            RunImageGate("trivy", setup[r].policy, TrivyOf[imageId[r]]).verdict # "BLOCK_DEPLOY"
  /\ job[r]["artifact"] = "success" /\ digest[r] # NoImage /\ setup[r].mode["artifact"] = "enforce" =>
       RunImageGate("ecr", setup[r].policy, RegistryOf[digest[r]]).verdict # "BLOCK_DEPLOY"

Naming(r) ==
  /\ job[r]["build"] = "success" => tarball[r] \in Images
  /\ job[r]["collect"] \in {"pushed", "tagged", "success"} => tarball[r] = imageId[r]
  /\ job[r]["collect"] \in {"tagged", "success"} => digest[r] \in {tarball[r], NoImage}

Deploying(r) ==
  /\ command[r].state = "none" <=> command[r].image = NoImage
  /\ command[r].image # NoImage => Gated(r, command[r].image)
  /\ command[r].state = "none" => ~command[r].ran
  /\ command[r].state # "none" => job[r]["deploy"] \in {"polling", "success", "failure"}
  /\ command[r].state \in {"started", "Success"} => command[r].ran
  /\ job[r]["deploy"] = "success" => command[r].state = "Success"

RunInv(r) == Ancestry(r) /\ Gating(r) /\ Naming(r) /\ Deploying(r)

Published == \A i \in registry : \E r \in Runs : PrePushGated(r, i)

Hosted == container # NoContainer => Gated(container.run, container.image)

Outage ==
  container = NoContainer /\ (\E r \in Runs : command[r].ran) =>
    \E r \in Runs : /\ command[r].state \in {"removed", "Failed"}
                    /\ job[r]["deploy"] \in {"polling", "failure"}

IInv == TypeOK /\ (\A r \in Runs : RunInv(r)) /\ Published /\ Hosted /\ Outage

-----------------------------------------------------------------------------
(* Helpers *)

LEMMA JobNames ==
  /\ Jobs = {"source", "build", "image", "configuration", "collect", "artifact", "deploy"}
  /\ Needs["source"] = {} /\ Needs["build"] = {} /\ Needs["image"] = {"build"}
  /\ Needs["configuration"] = {"source", "image"}
  /\ Needs["collect"] = {"source", "build", "image", "configuration"}
  /\ Needs["artifact"] = {"collect"} /\ Needs["deploy"] = {"artifact", "collect"}
BY DEF Jobs, Needs

\* What a job that is ready has waited for.
LEMMA ReadyFacts ==
  ASSUME NEW r \in Runs
  PROVE  /\ Ready(r, "image") => job[r]["build"] = "success"
         /\ Ready(r, "collect") =>
              /\ setup[r].main /\ job[r]["source"] = "success"
              /\ job[r]["build"] = "success" /\ job[r]["image"] = "success"
         /\ Ready(r, "artifact") => job[r]["collect"] = "success"
         /\ Ready(r, "deploy") => job[r]["artifact"] = "success" /\ job[r]["collect"] = "success"
         /\ \A j \in Jobs : Ready(r, j) => job[r][j] = "waiting"
<1>1. Ready(r, "image") => job[r]["build"] = "success"
  BY JobNames DEF Ready, NeedsSucceeded
<1>2. Ready(r, "collect") =>
        /\ setup[r].main /\ job[r]["source"] = "success"
        /\ job[r]["build"] = "success" /\ job[r]["image"] = "success"
  BY JobNames DEF Ready, NeedsSucceeded, If
<1>3. Ready(r, "artifact") => job[r]["collect"] = "success"
  BY JobNames DEF Ready, NeedsSucceeded
<1>4. Ready(r, "deploy") => job[r]["artifact"] = "success" /\ job[r]["collect"] = "success"
  BY JobNames DEF Ready, NeedsSucceeded
<1> QED BY <1>1, <1>2, <1>3, <1>4 DEF Ready

AllStatuses == Statuses \cup {"pushed", "tagged", "polling"}

\* One job of one run changes its status.
LEMMA BecomesAt ==
  ASSUME TypeOK, NEW r \in Runs, NEW j \in Jobs, NEW x \in AllStatuses, Becomes(r, j, x)
  PROVE  /\ job' \in [Runs -> [Jobs -> AllStatuses]]
         /\ job'[r][j] = x
         /\ \A k \in Jobs \ {j} : job'[r][k] = job[r][k]
         /\ \A s \in Runs \ {r} : job'[s] = job[s]
BY DEF TypeOK, Becomes, AllStatuses

LEMMA GateVerdicts ==
  ASSUME NEW source, NEW policy, NEW x
  PROVE  RunImageGate(source, policy, x).verdict \in Verdicts
<1>1. \A f : Judged(f).verdict \in Verdicts
  <2> SUFFICES ASSUME NEW f PROVE Judged(f).verdict \in Verdicts
    OBVIOUS
  <2>1. VerdictOn(f) \in Verdicts
    BY DEF VerdictOn, Verdicts
  <2> QED BY <2>1 DEF Judged
<1>2. Untrusted.verdict \in Verdicts
  BY DEF Untrusted, Verdicts
<1>3. EvaluateTrivy(policy, x).verdict \in Verdicts
  BY <1>1 DEF EvaluateTrivy
<1>4. EvaluateRegistry(policy, x).verdict \in Verdicts
  BY <1>1 DEF EvaluateRegistry
<1> QED BY <1>2, <1>3, <1>4 DEF RunImageGate

\* A gate never passes what cannot be read.
LEMMA NoReportBlocks ==
  ASSUME NEW source, NEW policy, source # "trivy"
  PROVE  RunImageGate(source, policy, NoReport).verdict = "BLOCK_DEPLOY"
<1>1. ~RegistryReportIsSound(NoReport)
  BY DEF RegistryReportIsSound
<1>2. RunImageGate(source, policy, NoReport) = Untrusted
  BY <1>1 DEF RunImageGate
<1> QED BY <1>2 DEF Untrusted

-----------------------------------------------------------------------------
(* The types *)

\* A job that is running is at an intermediate status only if it is one of two.
JobTypes ==
  /\ job \in [Runs -> [Jobs -> AllStatuses]]
  /\ \A r \in Runs : \A j \in Jobs \ {"collect", "deploy"} : job[r][j] \in Statuses

LEMMA JobTypesStep ==
  ASSUME TypeOK, NEW r \in Runs, NEW j \in Jobs, NEW x \in AllStatuses, Becomes(r, j, x),
         x \in Statuses \/ j \in {"collect", "deploy"}
  PROVE  JobTypes'
<1>1. job' \in [Runs -> [Jobs -> AllStatuses]]
  BY BecomesAt
<1>2. ASSUME NEW s \in Runs, NEW k \in Jobs \ {"collect", "deploy"} PROVE job'[s][k] \in Statuses
  <2>1. job[s][k] \in Statuses
    BY DEF TypeOK
  <2>2. CASE s = r /\ k = j
    BY <2>2, BecomesAt
  <2>3. CASE ~(s = r /\ k = j)
    BY <2>1, <2>3, BecomesAt
  <2> QED BY <2>2, <2>3
<1> QED BY <1>1, <1>2 DEF JobTypes

SetupTypes ==
  DOMAIN setup = Runs /\ \A r \in Runs : setup[r] \in Setups[r]

ScanTypes ==
  /\ tarball \in [Runs -> Images \cup {NoImage}]
  /\ imageId \in [Runs -> Images \cup {NoImage}]
  /\ digest \in [Runs -> Images \cup {NoImage}]
  /\ report \in [Runs -> {RegistryOf[i] : i \in Images} \cup {NoReport}]
  /\ verdict \in [Runs -> [Gates -> Verdicts \cup {"none", "PASS", "BLOCK", "APPROVED"}]]

AwsTypes == registry \subseteq Images /\ demo \in Images \cup {NoImage}

CommandTypes ==
  command \in [Runs -> [state : {"none", "queued", "pulled", "removed", "started",
                                 "Success", "Failed"},
                        image : Images \cup {NoImage}, ran : BOOLEAN]]

ContainerTypes == container \in [run : Runs, image : Images] \cup {NoContainer}

LEMMA TypeParts ==
  TypeOK <=> /\ SetupTypes /\ JobTypes /\ ScanTypes /\ AwsTypes
             /\ attempt \in [Runs -> 1..MaxAttempts] /\ CommandTypes /\ ContainerTypes
BY DEF TypeOK, SetupTypes, JobTypes, ScanTypes, AwsTypes, CommandTypes, ContainerTypes, AllStatuses

LEMMA TypePartsNext ==
  ASSUME SetupTypes', JobTypes', ScanTypes', AwsTypes',
         attempt' \in [Runs -> 1..MaxAttempts], CommandTypes', ContainerTypes'
  PROVE  TypeOK'
BY DEF TypeOK, SetupTypes, JobTypes, ScanTypes, AwsTypes, CommandTypes, ContainerTypes, AllStatuses

THEOREM TypeInit == Init => TypeOK
<1> SUFFICES ASSUME Init PROVE TypeOK
  OBVIOUS
<1>1. SetupTypes
  BY DEF Init, SetupTypes
<1>2. JobTypes
  BY DEF Init, JobTypes, AllStatuses, Statuses
<1>3. ScanTypes
  BY DEF Init, ScanTypes
<1>4. AwsTypes
  BY DEF Init, AwsTypes
<1>5. attempt \in [Runs -> 1..MaxAttempts]
  BY RunsAssumption DEF Init
<1>6. CommandTypes
  BY DEF Init, CommandTypes
<1>7. ContainerTypes
  BY DEF Init, ContainerTypes, NoContainer
<1> QED BY <1>1, <1>2, <1>3, <1>4, <1>5, <1>6, <1>7, TypeParts

\* What a step may leave alone.
LEMMA SetupKept     == ASSUME TypeOK, UNCHANGED setup PROVE SetupTypes'
BY TypeParts DEF SetupTypes
LEMMA JobKept       == ASSUME TypeOK, UNCHANGED job PROVE JobTypes'
BY TypeParts DEF JobTypes
LEMMA ScansKept     == ASSUME TypeOK, UNCHANGED scans PROVE ScanTypes'
BY TypeParts DEF ScanTypes, scans
LEMMA AwsKept       == ASSUME TypeOK, UNCHANGED aws PROVE AwsTypes'
BY TypeParts DEF AwsTypes, aws
LEMMA AttemptKept   == ASSUME TypeOK, UNCHANGED attempt PROVE attempt' \in [Runs -> 1..MaxAttempts]
BY TypeParts
LEMMA CommandKept   == ASSUME TypeOK, UNCHANGED command PROVE CommandTypes'
BY TypeParts DEF CommandTypes
LEMMA ContainerKept == ASSUME TypeOK, UNCHANGED container PROVE ContainerTypes'
BY TypeParts DEF ContainerTypes, NoContainer

\* The steps that only end a job.
LEMMA OnlyAJob ==
  ASSUME TypeOK, NEW r \in Runs, NEW j \in Jobs, NEW x \in Statuses, Becomes(r, j, x),
         UNCHANGED <<setup, scans, attempt, aws, instance>>
  PROVE  TypeOK'
<1>1. JobTypes'
  BY JobTypesStep DEF AllStatuses
<1>2. UNCHANGED command /\ UNCHANGED container
  BY DEF instance
<1> QED BY <1>1, <1>2, SetupKept, ScansKept, AttemptKept, AwsKept, CommandKept, ContainerKept,
           TypePartsNext

LEMMA EnforcedIsAStatus ==
  ASSUME NEW r, NEW g, NEW v PROVE Enforced(r, g, v) \in {"success", "failure"}
BY DEF Enforced

LEMMA TypeRunner ==
  ASSUME TypeOK, NEW r \in Runs, RunInv(r), Runner(r) \/ (\E j \in Jobs : ToolFails(r, j)) \/ PollFails(r)
  PROVE  TypeOK'
<1> USE DEF Statuses
<1>1. ASSUME NEW j \in Jobs, Skip(r, j) PROVE TypeOK'
  BY <1>1, OnlyAJob DEF Skip
<1>2. ASSUME NEW j \in Jobs, ToolFails(r, j) PROVE TypeOK'
  BY <1>2, OnlyAJob DEF ToolFails
<1>3. CASE PollFails(r)
  BY <1>3, OnlyAJob, JobNames DEF PollFails
<1>4. CASE AwsConfiguration(r)
  BY <1>4, OnlyAJob, JobNames DEF AwsConfiguration
<1>5. CASE SourceSecurity(r)
  <2>1. PICK v \in {"PASS", "BLOCK", "APPROVED"} :
          /\ verdict' = [verdict EXCEPT ![r]["source"] = v]
          /\ Becomes(r, "source", Enforced(r, "source", v))
    BY <1>5 DEF SourceSecurity
  <2>2. ScanTypes'
    <3>1. verdict' \in [Runs -> [Gates -> Verdicts \cup {"none", "PASS", "BLOCK", "APPROVED"}]]
      BY <2>1 DEF TypeOK, Gates
    <3> QED BY <3>1, <1>5, TypeParts DEF ScanTypes, SourceSecurity
  <2>3. JobTypes'
    BY <2>1, EnforcedIsAStatus, JobTypesStep, JobNames DEF AllStatuses
  <2> QED BY <2>2, <2>3, <1>5, SetupKept, AttemptKept, AwsKept, CommandKept, ContainerKept,
             TypePartsNext DEF SourceSecurity, instance
<1>6. CASE ContainerBuild(r)
  <2>1. JobTypes'
    BY <1>6, JobTypesStep, JobNames DEF AllStatuses, ContainerBuild
  <2>2. ScanTypes'
    <3>1. tarball' \in [Runs -> Images \cup {NoImage}]
      BY <1>6, RunsAssumption DEF TypeOK, ContainerBuild
    <3> QED BY <3>1, <1>6, TypeParts DEF ScanTypes, ContainerBuild
  <2> QED BY <2>1, <2>2, <1>6, SetupKept, AttemptKept, AwsKept, CommandKept, ContainerKept,
             TypePartsNext DEF ContainerBuild, instance
<1>7. CASE ImageSecurity(r)
  <2>1. tarball[r] \in Images
    BY <1>7, ReadyFacts DEF ImageSecurity, RunInv, Naming
  <2>2. JobTypes'
    BY <1>7, JobTypesStep, JobNames, EnforcedIsAStatus DEF AllStatuses, ImageSecurity
  <2>3. imageId' \in [Runs -> Images \cup {NoImage}]
    <3>1. TrivyOf[tarball[r]].imageId \in {tarball[r], "none"}
      BY <2>1, ImagesAssumption
    <3>2. UNCHANGED imageId \/ imageId' = [imageId EXCEPT ![r] = tarball[r]]
      <4>1. PICK trivy \in {TrivyOf[tarball[r]], NoReport} :
              IF trivy = NoReport \/ trivy.imageId = "none"
              THEN UNCHANGED imageId
              ELSE imageId' = [imageId EXCEPT ![r] = trivy.imageId]
        BY <1>7 DEF ImageSecurity
      <4> QED BY <4>1, <3>1
    <3> QED BY <2>1, <3>2 DEF TypeOK
  <2>4. verdict' \in [Runs -> [Gates -> Verdicts \cup {"none", "PASS", "BLOCK", "APPROVED"}]]
    <3>1. PICK v \in Verdicts : verdict' = [verdict EXCEPT ![r]["image"] = v]
      BY <1>7, GateVerdicts DEF ImageSecurity, Verdicts
    <3> QED BY <3>1 DEF TypeOK, Gates
  <2>5. ScanTypes'
    BY <2>3, <2>4, <1>7, TypeParts DEF ScanTypes, ImageSecurity
  <2> QED BY <2>2, <2>5, <1>7, SetupKept, AttemptKept, AwsKept, CommandKept, ContainerKept,
             TypePartsNext DEF ImageSecurity, instance
<1>8. CASE PushImmutable(r)
  <2>1. tarball[r] \in Images
    BY <1>8, ReadyFacts DEF PushImmutable, RunInv, Naming
  <2>2. JobTypes'
    BY <1>8, JobTypesStep, JobNames DEF AllStatuses, PushImmutable
  <2>3. AwsTypes'
    BY <1>8, <2>1, TypeParts DEF AwsTypes, PushImmutable
  <2> QED BY <2>2, <2>3, <1>8, SetupKept, ScansKept, AttemptKept, CommandKept, ContainerKept,
             TypePartsNext DEF PushImmutable, instance
<1>9. CASE PushDemo(r)
  <2>1. JobTypes'
    BY <1>9, JobTypesStep, JobNames DEF AllStatuses, PushDemo
  <2>2. tarball[r] \in Images \cup {NoImage}
    BY DEF TypeOK
  <2>3. AwsTypes'
    BY <1>9, <2>2, TypeParts DEF AwsTypes, PushDemo
  <2>4. ScanTypes'
    <3>1. digest' \in [Runs -> Images \cup {NoImage}]
      BY <1>9, <2>2 DEF TypeOK, PushDemo
    <3> QED BY <3>1, <1>9, TypeParts DEF ScanTypes, PushDemo
  <2> QED BY <2>1, <2>3, <2>4, <1>9, SetupKept, AttemptKept, CommandKept, ContainerKept,
             TypePartsNext DEF PushDemo, instance
<1>10. CASE PollScan(r)
  <2>1. JobTypes'
    BY <1>10, JobTypesStep, JobNames DEF AllStatuses, PollScan
  <2>2. ScanTypes'
    <3>1. digest[r] # NoImage => digest[r] \in Images
      BY DEF TypeOK
    <3>2. report' \in [Runs -> {RegistryOf[i] : i \in Images} \cup {NoReport}]
      <4>1. PICK x \in {RegistryOf[i] : i \in Images} \cup {NoReport} :
              report' = [report EXCEPT ![r] = x]
        BY <1>10, <3>1 DEF PollScan
      <4> QED BY <4>1 DEF TypeOK
    <3> QED BY <3>2, <1>10, TypeParts DEF ScanTypes, PollScan
  <2> QED BY <2>1, <2>2, <1>10, SetupKept, AttemptKept, AwsKept, CommandKept, ContainerKept,
             TypePartsNext DEF PollScan, instance
<1>11. CASE ArtifactGate(r)
  <2>1. PICK v \in Verdicts : verdict' = [verdict EXCEPT ![r]["artifact"] = v]
    BY <1>11, GateVerdicts DEF ArtifactGate, Verdicts
  <2>2. JobTypes'
    BY <1>11, JobTypesStep, JobNames, EnforcedIsAStatus DEF AllStatuses, ArtifactGate
  <2>3. ScanTypes'
    <3>1. verdict' \in [Runs -> [Gates -> Verdicts \cup {"none", "PASS", "BLOCK", "APPROVED"}]]
      BY <2>1 DEF TypeOK, Gates
    <3> QED BY <3>1, <1>11, TypeParts DEF ScanTypes, ArtifactGate
  <2> QED BY <2>2, <2>3, <1>11, SetupKept, AttemptKept, AwsKept, CommandKept, ContainerKept,
             TypePartsNext DEF ArtifactGate, instance
<1>12. CASE SendCommand(r)
  <2>1. JobTypes'
    BY <1>12, JobTypesStep, JobNames DEF AllStatuses, SendCommand
  <2>2. digest[r] \in Images \cup {NoImage}
    BY DEF TypeOK
  <2>3. Send(r) => CommandTypes'
    BY <2>2, TypeParts DEF Send, BuildImage, CommandTypes
  <2>4. CommandTypes'
    BY <2>3, <1>12, CommandKept DEF SendCommand
  <2> QED BY <2>1, <2>4, <1>12, SetupKept, ScansKept, AttemptKept, AwsKept, ContainerKept,
             TypePartsNext DEF SendCommand
<1>13. CASE PollInvocation(r)
  <2>1. attempt[r] \in 1..MaxAttempts
    BY DEF TypeOK
  <2>2. CASE \E x \in {"success", "failure"} : Becomes(r, "deploy", x) /\ UNCHANGED attempt
    BY <1>13, <2>2, OnlyAJob, JobNames DEF PollInvocation
  <2>3. CASE /\ attempt[r] < MaxAttempts /\ attempt' = [attempt EXCEPT ![r] = @ + 1]
             /\ UNCHANGED job
    <3>1. attempt[r] + 1 \in 1..MaxAttempts
      BY <2>1, <2>3, RunsAssumption
    <3>2. attempt' \in [Runs -> 1..MaxAttempts]
      BY <2>3, <3>1 DEF TypeOK
    <3> QED BY <3>2, <2>3, <1>13, SetupKept, JobKept, ScansKept, AwsKept, CommandKept,
               ContainerKept, TypePartsNext DEF PollInvocation, instance
  <2> QED BY <1>13, <2>2, <2>3 DEF PollInvocation, PollAgain
<1> QED BY <1>1, <1>2, <1>3, <1>4, <1>5, <1>6, <1>7, <1>8, <1>9, <1>10, <1>11, <1>12, <1>13
        DEF Runner

LEMMA TypeSwaps ==
  ASSUME TypeOK, NEW r \in Runs, SwapTarball(r) \/ SwapReport(r)
  PROVE  TypeOK'
<1>1. CASE SwapTarball(r)
  <2>1. tarball' \in [Runs -> Images \cup {NoImage}]
    BY <1>1 DEF TypeOK, SwapTarball
  <2>2. ScanTypes'
    BY <2>1, <1>1, TypeParts DEF ScanTypes, SwapTarball
  <2> QED BY <2>2, <1>1, SetupKept, JobKept, AttemptKept, AwsKept, CommandKept, ContainerKept,
             TypePartsNext DEF SwapTarball, instance
<1>2. CASE SwapReport(r)
  <2>1. PICK x \in {RegistryOf[i] : i \in Images} : report' = [report EXCEPT ![r] = x]
    BY <1>2 DEF SwapReport
  <2>2. report' \in [Runs -> {RegistryOf[i] : i \in Images} \cup {NoReport}]
    BY <2>1 DEF TypeOK
  <2>3. ScanTypes'
    BY <2>2, <1>2, TypeParts DEF ScanTypes, SwapReport
  <2> QED BY <2>3, <1>2, SetupKept, JobKept, AttemptKept, AwsKept, CommandKept, ContainerKept,
             TypePartsNext DEF SwapReport, instance
<1> QED BY <1>1, <1>2

LEMMA TypeInstance ==
  ASSUME TypeOK, NEW r \in Runs, RunInv(r), Instance(r)
  PROVE  TypeOK'
<1>1. CommandTypes'
  <2>1. ASSUME NEW x \in {"pulled", "removed", "Success", "Failed"}, Goto(r, x) PROVE CommandTypes'
    BY <2>1, TypeParts DEF Goto, CommandTypes
  <2>2. RunContainer(r) => CommandTypes'
    <3>1. command' = [command EXCEPT ![r] = [@ EXCEPT !.state = "started", !.ran = TRUE]]
            => CommandTypes'
      BY TypeParts DEF CommandTypes
    <3> QED BY <2>1, <3>1 DEF RunContainer, Conflict
  <2> QED BY <2>1, <2>2 DEF Instance, Pull, Rm, Prune, CommandFails
<1>2. ContainerTypes'
  <2>1. CASE container' = container \/ container' = NoContainer
    BY <2>1, TypeParts DEF ContainerTypes, NoContainer
  <2>2. CASE RunContainer(r)
    <3>1. command[r].image \in Images
      BY <2>2 DEF RunContainer, RunInv, Deploying, TypeOK
    <3> QED BY <2>1, <2>2, <3>1 DEF RunContainer, ContainerTypes
  <2> QED BY <2>1, <2>2 DEF Instance, Pull, Rm, Prune, CommandFails
<1>3. UNCHANGED <<setup, job, scans, attempt, aws>>
  BY DEF Instance, Pull, Rm, RunContainer, Prune, CommandFails
<1> QED BY <1>1, <1>2, <1>3, SetupKept, JobKept, ScansKept, AttemptKept, AwsKept, TypePartsNext

RunActs(r) ==
  \/ Runner(r) \/ (\E j \in Jobs : ToolFails(r, j)) \/ PollFails(r)
  \/ SwapTarball(r) \/ SwapReport(r)
  \/ Instance(r)

LEMMA TypeStep ==
  ASSUME TypeOK, NEW r \in Runs, RunInv(r), RunActs(r)
  PROVE  TypeOK'
BY TypeRunner, TypeSwaps, TypeInstance DEF RunActs

-----------------------------------------------------------------------------
(* What a step does not undo *)

\* A run's step leaves everything of the other runs alone.
OfRun(s) ==
  << setup[s], job[s], tarball[s], imageId[s], digest[s], report[s], verdict[s], command[s] >>

Ended == {"success", "failure", "skipped"}

\* Within the run: an ended job stays, and with it what it put out.
Kept(r) ==
  /\ setup' = setup
  /\ \A j \in Jobs : job[r][j] \in Ended => job'[r][j] = job[r][j]
  /\ job[r]["source"] # "waiting" => verdict'[r]["source"] = verdict[r]["source"]
  /\ job[r]["image"] # "waiting" => imageId'[r] = imageId[r]
  /\ job[r]["collect"] # "pushed" => digest'[r] = digest[r]
  /\ command[r].image # NoImage => command'[r].image = command[r].image

LEMMA OthersKept ==
  ASSUME TypeOK, NEW r \in Runs, NEW s \in Runs \ {r}, RunActs(r)
  PROVE  UNCHANGED OfRun(s)
<1>0. ASSUME NEW j, NEW x, Becomes(r, j, x) PROVE job'[s] = job[s]
  BY <1>0 DEF Becomes, TypeOK
<1> USE DEF RunActs, Runner, Instance, Skip, ToolFails, PollFails, SwapTarball, SwapReport,
      SourceSecurity, ContainerBuild, ImageSecurity, AwsConfiguration, PushImmutable, PushDemo,
      PollScan, ArtifactGate, SendCommand, PollInvocation, Pull, Rm, RunContainer, Prune,
      CommandFails
<1>1. job'[s] = job[s]
  BY <1>0 DEF PollAgain
<1>2. setup' = setup
  OBVIOUS
<1>3. tarball'[s] = tarball[s]
  BY DEF TypeOK, scans
<1>4. imageId'[s] = imageId[s]
  BY DEF TypeOK, scans
<1>5. digest'[s] = digest[s]
  BY DEF TypeOK, scans
<1>6. report'[s] = report[s]
  BY DEF TypeOK, scans
<1>7. verdict'[s] = verdict[s]
  BY DEF TypeOK, scans
<1>8. command'[s] = command[s]
  BY DEF TypeOK, instance, Send, Goto, Conflict
<1> QED BY <1>1, <1>2, <1>3, <1>4, <1>5, <1>6, <1>7, <1>8 DEF OfRun

LEMMA OwnKept ==
  ASSUME TypeOK, NEW r \in Runs, RunInv(r), RunActs(r)
  PROVE  Kept(r)
<1>0. ASSUME NEW j \in Jobs, NEW x \in AllStatuses, Becomes(r, j, x), job[r][j] \notin Ended
      PROVE  \A k \in Jobs : job[r][k] \in Ended => job'[r][k] = job[r][k]
  BY <1>0, BecomesAt
<1> USE JobNames DEF RunActs, Runner, Instance, Skip, ToolFails, PollFails, SwapTarball, SwapReport,
      SourceSecurity, ContainerBuild, ImageSecurity, AwsConfiguration, PushImmutable, PushDemo,
      PollScan, ArtifactGate, SendCommand, PollInvocation, Pull, Rm, RunContainer, Prune,
      CommandFails
<1>1. setup' = setup
  OBVIOUS
<1>2. \A j \in Jobs : job[r][j] \in Ended => job'[r][j] = job[r][j]
  <2> DEFINE Moves == \E j \in Jobs : \E x \in AllStatuses : Becomes(r, j, x) /\ job[r][j] \notin Ended
  <2> USE DEF Ended, AllStatuses, Statuses, Ready
  <2>1. (\E j \in Jobs : Skip(r, j)) => Moves
    OBVIOUS
  <2>2. (\E j \in Jobs : ToolFails(r, j)) => Moves
    BY DEF Running
  <2>3. SourceSecurity(r) \/ ContainerBuild(r) \/ ImageSecurity(r) \/ AwsConfiguration(r) => Moves
    BY EnforcedIsAStatus
  <2>4. PushImmutable(r) \/ PushDemo(r) \/ PollScan(r) => Moves
    OBVIOUS
  <2>5. ArtifactGate(r) => Moves
    BY EnforcedIsAStatus
  <2>6. SendCommand(r) => Moves
    OBVIOUS
  <2>7. PollInvocation(r) => Moves \/ UNCHANGED job
    BY DEF PollAgain
  <2>8. PollFails(r) => Moves
    OBVIOUS
  <2>9. SwapTarball(r) \/ SwapReport(r) \/ Instance(r) => UNCHANGED job
    OBVIOUS
  <2> HIDE DEF Instance, Skip, ToolFails, PollFails, SwapTarball, SwapReport, SourceSecurity,
        ContainerBuild, ImageSecurity, AwsConfiguration, PushImmutable, PushDemo, PollScan,
        ArtifactGate, SendCommand, PollInvocation, Moves
  <2>10. Moves \/ UNCHANGED job
    BY <2>1, <2>2, <2>3, <2>4, <2>5, <2>6, <2>7, <2>8, <2>9
  <2> QED BY <1>0, <2>10 DEF Moves
<1>3. job[r]["source"] # "waiting" => verdict'[r]["source"] = verdict[r]["source"]
  BY DEF TypeOK, scans, Ready, Gates
<1>4. job[r]["image"] # "waiting" => imageId'[r] = imageId[r]
  BY DEF TypeOK, scans, Ready
<1>5. job[r]["collect"] # "pushed" => digest'[r] = digest[r]
  BY DEF TypeOK, scans
<1>6. command[r].image # NoImage => command'[r].image = command[r].image
  <2>1. SendCommand(r) => command[r].image = NoImage
    <3>1. SendCommand(r) => job[r]["deploy"] = "waiting"
      BY DEF Ready
    <3> QED BY <3>1 DEF RunInv, Deploying
  <2>2. ASSUME NEW x, Goto(r, x) PROVE command'[r].image = command[r].image
    BY <2>2 DEF Goto, TypeOK
  <2>3. Instance(r) => command'[r].image = command[r].image
    <3>1. command' = [command EXCEPT ![r] = [@ EXCEPT !.state = "started", !.ran = TRUE]]
            => command'[r].image = command[r].image
      BY DEF TypeOK
    <3> QED BY <2>2, <3>1 DEF Conflict
  <2>4. ~SendCommand(r) /\ ~Instance(r) => UNCHANGED command
    BY DEF instance
  <2> QED BY <2>1, <2>3, <2>4
<1> QED BY <1>1, <1>2, <1>3, <1>4, <1>5, <1>6 DEF Kept

\* Which step takes a job forward, and from where.
LEMMA WhoMoves ==
  ASSUME TypeOK, NEW r \in Runs, RunActs(r)
  PROVE  /\ \A j \in Jobs :
              job[r][j] \in {"waiting", "skipped"} /\ job'[r][j] \notin {"waiting", "skipped"}
                => Ready(r, j)
         /\ job'[r]["source"] = "success" => job[r]["source"] = "success" \/ SourceSecurity(r)
         /\ job'[r]["build"] = "success" => job[r]["build"] = "success" \/ ContainerBuild(r)
         /\ job'[r]["image"] = "success" => job[r]["image"] = "success" \/ ImageSecurity(r)
         /\ job'[r]["artifact"] = "success" => job[r]["artifact"] = "success" \/ ArtifactGate(r)
         /\ job'[r]["collect"] \in {"pushed", "tagged", "success"} =>
              job[r]["collect"] \in {"pushed", "tagged", "success"} \/ PushImmutable(r)
         /\ job'[r]["collect"] \in {"tagged", "success"} =>
              job[r]["collect"] \in {"tagged", "success"} \/ PushDemo(r)
         /\ job'[r]["deploy"] = "success" =>
              job[r]["deploy"] = "success" \/ command[r].state = "Success"
<1>0. ASSUME NEW j \in Jobs, NEW x \in AllStatuses, Becomes(r, j, x)
      PROVE  \A k \in Jobs : job'[r][k] = IF k = j THEN x ELSE job[r][k]
  BY <1>0, BecomesAt
<1> DEFINE Skips(j)    == Becomes(r, j, "skipped")
           Fails(j)    == Becomes(r, j, "failure") /\ (Ready(r, j) \/ Running(r, j))
           Gates3(j)   == /\ Ready(r, j)
                          /\ \E x \in {"success", "failure"} : Becomes(r, j, x)
<1>1. (\E j \in Jobs : Skip(r, j)) => \E j \in Jobs : Skips(j)
  BY DEF Skip
<1>2. (\E j \in Jobs : ToolFails(r, j)) \/ PollFails(r) => \E j \in Jobs : Fails(j)
  BY JobNames DEF ToolFails, PollFails, Running
<1>3. /\ SourceSecurity(r) => Gates3("source")
      /\ ContainerBuild(r) => Gates3("build")
      /\ ImageSecurity(r) => Gates3("image")
      /\ AwsConfiguration(r) => Gates3("configuration")
      /\ ArtifactGate(r) => Gates3("artifact")
  BY EnforcedIsAStatus DEF SourceSecurity, ContainerBuild, ImageSecurity, AwsConfiguration,
     ArtifactGate
<1>4. /\ PushImmutable(r) => Ready(r, "collect") /\ \E x \in {"pushed", "failure"} : Becomes(r, "collect", x)
      /\ PushDemo(r) => job[r]["collect"] = "pushed" /\ Becomes(r, "collect", "tagged")
      /\ PollScan(r) => job[r]["collect"] = "tagged" /\ Becomes(r, "collect", "success")
  BY DEF PushImmutable, PushDemo, PollScan
<1>5. /\ SendCommand(r) => Ready(r, "deploy") /\ \E x \in {"polling", "failure"} : Becomes(r, "deploy", x)
      /\ PollInvocation(r) => /\ job[r]["deploy"] = "polling"
                              /\ \/ UNCHANGED job \/ Becomes(r, "deploy", "failure")
                                 \/ Becomes(r, "deploy", "success") /\ command[r].state = "Success"
  BY DEF SendCommand, PollInvocation, PollAgain
<1>6. SwapTarball(r) \/ SwapReport(r) \/ Instance(r) => UNCHANGED job
  BY DEF SwapTarball, SwapReport, Instance, Pull, Rm, RunContainer, Prune, CommandFails
<1>7. CASE UNCHANGED job
  BY <1>7
<1>8. ASSUME NEW j \in Jobs, Skips(j) \/ Fails(j)
      PROVE  /\ job'[r][j] \in {"skipped", "failure"}
             /\ \A k \in Jobs \ {j} : job'[r][k] = job[r][k]
             /\ job'[r][j] = "failure" => Ready(r, j) \/ Running(r, j)
  BY <1>0, <1>8 DEF AllStatuses, Statuses
<1>9. CASE \E j \in Jobs : Skips(j) \/ Fails(j)
  BY <1>8, <1>9, JobNames DEF Running
<1>10. ASSUME NEW j \in Jobs, Gates3(j)
       PROVE  /\ \A k \in Jobs \ {j} : job'[r][k] = job[r][k]
              /\ Ready(r, j)
  BY <1>0, <1>10 DEF AllStatuses, Statuses
<1>11. CASE SourceSecurity(r) \/ ContainerBuild(r) \/ ImageSecurity(r) \/ AwsConfiguration(r)
            \/ ArtifactGate(r)
  BY <1>3, <1>10, <1>11, JobNames
<1>12. CASE PushImmutable(r) \/ PushDemo(r) \/ PollScan(r)
  BY <1>0, <1>4, <1>12, JobNames DEF AllStatuses, Statuses
<1>13. CASE SendCommand(r) \/ PollInvocation(r)
  BY <1>0, <1>5, <1>7, <1>13, JobNames DEF AllStatuses, Statuses
<1> QED BY <1>1, <1>2, <1>6, <1>7, <1>9, <1>11, <1>12, <1>13 DEF RunActs, Runner

-----------------------------------------------------------------------------
(* What the gates passed stays passed *)

AllRuns == \A s \in Runs : RunInv(s)

LEMMA GatedStable ==
  ASSUME TypeOK, AllRuns, NEW r \in Runs, RunActs(r), NEW s \in Runs, NEW i
  PROVE  /\ PrePushGated(s, i) => PrePushGated(s, i)'
         /\ Gated(s, i) => Gated(s, i)'
<1>1. setup'[s] = setup[s]
  BY OthersKept, OwnKept DEF OfRun, Kept, AllRuns
<1>2. ASSUME NEW j \in Jobs, job[s][j] = "success" PROVE job'[s][j] = "success"
  BY <1>2, OthersKept, OwnKept DEF OfRun, Kept, AllRuns, Ended
<1>3. job[s]["source"] = "success" => verdict'[s]["source"] = verdict[s]["source"]
  BY OthersKept, OwnKept DEF OfRun, Kept, AllRuns
<1>4. job[s]["image"] = "success" => imageId'[s] = imageId[s]
  BY OthersKept, OwnKept DEF OfRun, Kept, AllRuns
<1>5. job[s]["artifact"] = "success" => digest'[s] = digest[s]
  BY OthersKept, OwnKept DEF OfRun, Kept, AllRuns, RunInv, Ancestry
<1>6. PrePushGated(s, i) => PrePushGated(s, i)'
  BY <1>1, <1>2, <1>3, <1>4, JobNames DEF PrePushGated
<1>7. Gated(s, i) => Gated(s, i)'
  BY <1>1, <1>2, <1>5, <1>6, JobNames DEF Gated
<1> QED BY <1>6, <1>7

-----------------------------------------------------------------------------
(* The invariant of a run *)

LEMMA OtherRuns ==
  ASSUME TypeOK, AllRuns, NEW r \in Runs, RunActs(r), NEW s \in Runs \ {r}
  PROVE  RunInv(s)'
<1>1. UNCHANGED OfRun(s) /\ RunInv(s)
  BY OthersKept DEF AllRuns
<1>2. Ancestry(s)'
  BY <1>1 DEF OfRun, RunInv, Ancestry
<1>3. Gating(s)'
  BY <1>1 DEF OfRun, RunInv, Gating
<1>4. Naming(s)'
  BY <1>1 DEF OfRun, RunInv, Naming
<1>5. Deploying(s)'
  BY <1>1, GatedStable DEF OfRun, RunInv, Deploying
<1> QED BY <1>2, <1>3, <1>4, <1>5 DEF RunInv

LEMMA AncestryStep ==
  ASSUME TypeOK, AllRuns, NEW r \in Runs, RunActs(r)
  PROVE  Ancestry(r)'
<1>1. Ancestry(r) /\ Kept(r)
  BY OwnKept DEF AllRuns, RunInv
<1>2. \A j \in Jobs : job[r][j] = "success" => job'[r][j] = "success"
  BY <1>1 DEF Kept, Ended
<1>3. \A j \in Jobs : job'[r][j] \notin {"waiting", "skipped"} =>
                        job[r][j] \notin {"waiting", "skipped"} \/ Ready(r, j)
  BY WhoMoves
<1> QED BY <1>1, <1>2, <1>3, ReadyFacts, JobNames DEF Ancestry, Kept

LEMMA GatingStep ==
  ASSUME TypeOK, AllRuns, NEW r \in Runs, RunActs(r)
  PROVE  Gating(r)'
<1>1. RunInv(r) /\ Kept(r)
  BY OwnKept DEF AllRuns
<1>2. job'[r]["source"] = "success" /\ setup'[r].mode["source"] = "enforce" =>
        verdict'[r]["source"] # "BLOCK"
  <2>1. CASE job[r]["source"] = "success"
    BY <1>1, <2>1 DEF RunInv, Gating, Kept
  <2>2. CASE SourceSecurity(r)
    <3>1. PICK v \in {"PASS", "BLOCK", "APPROVED"} :
            /\ verdict' = [verdict EXCEPT ![r]["source"] = v]
            /\ Becomes(r, "source", Enforced(r, "source", v))
      BY <2>2 DEF SourceSecurity
    <3>2. verdict'[r]["source"] = v
      BY <3>1 DEF TypeOK, Gates
    <3>3. job'[r]["source"] = Enforced(r, "source", v)
      BY <3>1, BecomesAt, EnforcedIsAStatus, JobNames DEF AllStatuses, Statuses
    <3> QED BY <1>1, <3>2, <3>3 DEF Enforced, Kept
  <2> QED BY <2>1, <2>2, WhoMoves
<1>3. job'[r]["image"] = "success" =>
        /\ imageId'[r] \in Images
        /\ setup'[r].mode["image"] = "enforce" =>
             RunImageGate("trivy", setup'[r].policy, TrivyOf[imageId'[r]]).verdict # "BLOCK_DEPLOY"
  <2>1. CASE job[r]["image"] = "success"
    BY <1>1, <2>1 DEF RunInv, Gating, Kept
  <2>2. CASE ImageSecurity(r) /\ job'[r]["image"] = "success"
    <3>1. tarball[r] \in Images
      BY <1>1, <2>2, ReadyFacts DEF ImageSecurity, RunInv, Naming
    <3>2. \A x \in {"success", "failure"} : Becomes(r, "image", x) => x = "success"
      BY <2>2, BecomesAt, JobNames DEF AllStatuses, Statuses
    <3>3. PICK trivy \in {TrivyOf[tarball[r]], NoReport} :
            /\ trivy # NoReport /\ trivy.imageId # "none"
            /\ Becomes(r, "image", Enforced(r, "image",
                           RunImageGate("trivy", setup[r].policy, trivy).verdict))
            /\ imageId' = [imageId EXCEPT ![r] = trivy.imageId]
      BY <2>2, <3>2 DEF ImageSecurity
    <3>4. trivy = TrivyOf[tarball[r]] /\ trivy.imageId = tarball[r]
      BY <3>1, <3>3, ImagesAssumption
    <3>5. imageId'[r] = tarball[r]
      BY <3>3, <3>4 DEF TypeOK
    <3>6. Enforced(r, "image", RunImageGate("trivy", setup[r].policy, trivy).verdict) = "success"
      BY <3>2, <3>3, EnforcedIsAStatus
    <3>7. setup[r].mode["image"] = "enforce" =>
            RunImageGate("trivy", setup[r].policy, trivy).verdict # "BLOCK_DEPLOY"
      BY <3>6 DEF Enforced
    <3> QED BY <1>1, <3>1, <3>4, <3>5, <3>7 DEF Kept
  <2> QED BY <2>1, <2>2, WhoMoves
<1>4. /\ job'[r]["artifact"] = "success" /\ digest'[r] # NoImage
      /\ setup'[r].mode["artifact"] = "enforce"
      => RunImageGate("ecr", setup'[r].policy, RegistryOf[digest'[r]]).verdict # "BLOCK_DEPLOY"
  <2>1. CASE job[r]["artifact"] = "success"
    BY <1>1, <2>1 DEF RunInv, Gating, Kept, Ancestry
  <2>2. CASE ArtifactGate(r) /\ job'[r]["artifact"] = "success" /\ setup[r].mode["artifact"] = "enforce"
    <3>1. \A x \in {"success", "failure"} : Becomes(r, "artifact", x) => x = "success"
      BY <2>2, BecomesAt, JobNames DEF AllStatuses, Statuses
    <3>2. DigestHolds(r)
      BY <2>2, <3>1 DEF ArtifactGate
    <3>3. Enforced(r, "artifact", RunImageGate("ecr", setup[r].policy, report[r]).verdict) = "success"
      BY <2>2, <3>1, <3>2, EnforcedIsAStatus DEF ArtifactGate
    <3>4. RunImageGate("ecr", setup[r].policy, report[r]).verdict # "BLOCK_DEPLOY"
      BY <2>2, <3>3 DEF Enforced
    <3>5. report[r] # NoReport
      BY <3>4, NoReportBlocks
    <3>6. PICK i \in Images : report[r] = RegistryOf[i]
      BY <3>5 DEF TypeOK
    <3>7. i = digest[r]
      BY <3>2, <3>5, <3>6, ImagesAssumption DEF DigestHolds
    <3>8. digest'[r] = digest[r]
      BY <2>2 DEF ArtifactGate
    <3> QED BY <1>1, <3>4, <3>6, <3>7, <3>8 DEF Kept
  <2> QED BY <1>1, <2>1, <2>2, WhoMoves DEF Kept
<1> QED BY <1>2, <1>3, <1>4 DEF Gating

\* The tarball changes only where nothing has been read from it, or before the push.
LEMMA TarballMoves ==
  ASSUME TypeOK, NEW r \in Runs, RunActs(r)
  PROVE  \/ tarball'[r] = tarball[r]
         \/ tarball'[r] \in Images /\ (job[r]["build"] = "waiting" \/ job[r]["collect"] = "waiting")
<1>1. CASE ContainerBuild(r)
  <2>1. PICK i \in Images : tarball' = [tarball EXCEPT ![r] = i]
    BY <1>1, RunsAssumption DEF ContainerBuild
  <2>2. job[r]["build"] = "waiting"
    BY <1>1 DEF ContainerBuild, Ready
  <2> QED BY <2>1, <2>2 DEF TypeOK
<1>2. CASE SwapTarball(r)
  BY <1>2 DEF SwapTarball, TypeOK
<1>3. CASE ~ContainerBuild(r) /\ ~SwapTarball(r)
  BY <1>3 DEF scans, RunActs, Runner, Instance, Skip, ToolFails, PollFails, SwapReport,
     SourceSecurity, ImageSecurity, AwsConfiguration, PushImmutable, PushDemo, PollScan,
     ArtifactGate, SendCommand, PollInvocation, Pull, Rm, RunContainer, Prune, CommandFails
<1> QED BY <1>1, <1>2, <1>3

LEMMA NamingStep ==
  ASSUME TypeOK, AllRuns, NEW r \in Runs, RunActs(r)
  PROVE  Naming(r)'
<1>1. RunInv(r) /\ Kept(r)
  BY OwnKept DEF AllRuns
<1>2. job'[r]["build"] = "success" => tarball'[r] \in Images
  <2>1. CASE job[r]["build"] = "success"
    BY <1>1, <2>1, TarballMoves DEF RunInv, Naming
  <2>2. CASE ContainerBuild(r)
    BY <2>2, RunsAssumption DEF ContainerBuild, TypeOK
  <2> QED BY <2>1, <2>2, WhoMoves
<1>3. job'[r]["collect"] \in {"pushed", "tagged", "success"} => tarball'[r] = imageId'[r]
  <2>1. CASE job[r]["collect"] \in {"pushed", "tagged", "success"}
    BY <1>1, <2>1, TarballMoves DEF RunInv, Naming, Ancestry, Kept
  <2>2. CASE PushImmutable(r) /\ job'[r]["collect"] \in {"pushed", "tagged", "success"}
    <3>1. ~Becomes(r, "collect", "failure")
      BY <2>2, BecomesAt, JobNames DEF AllStatuses, Statuses
    <3>2. tarball[r] = imageId[r]
      BY <2>2, <3>1 DEF PushImmutable, IdentityHolds
    <3> QED BY <2>2, <3>2 DEF PushImmutable, scans
  <2> QED BY <2>1, <2>2, WhoMoves
<1>4. job'[r]["collect"] \in {"tagged", "success"} => digest'[r] \in {tarball'[r], NoImage}
  <2>1. CASE job[r]["collect"] \in {"tagged", "success"}
    BY <1>1, <2>1, TarballMoves DEF RunInv, Naming, Ancestry, Kept
  <2>2. CASE PushDemo(r)
    BY <2>2 DEF PushDemo, TypeOK
  <2> QED BY <2>1, <2>2, WhoMoves
<1> QED BY <1>2, <1>3, <1>4 DEF Naming

\* What a ready deploy job would send is gated.
LEMMA SendIsGated ==
  ASSUME TypeOK, AllRuns, NEW r \in Runs, Ready(r, "deploy"), digest[r] # NoImage
  PROVE  Gated(r, digest[r])
<1>1. RunInv(r)
  BY DEF AllRuns
<1>2. job[r]["artifact"] = "success" /\ job[r]["collect"] = "success"
  BY ReadyFacts
<1>3. setup[r].main /\ job[r]["source"] = "success" /\ job[r]["image"] = "success"
  BY <1>1, <1>2 DEF RunInv, Ancestry
<1>4. digest[r] = imageId[r]
  BY <1>1, <1>2 DEF RunInv, Naming
<1> QED BY <1>1, <1>2, <1>3, <1>4 DEF RunInv, Gating, Gated, PrePushGated

\* A command goes from state to state, and starts its container on the way.
LEMMA InstanceMoves ==
  ASSUME TypeOK, NEW r \in Runs, Instance(r)
  PROVE  /\ command[r].state \in {"queued", "pulled", "removed", "started"}
         /\ command'[r].image = command[r].image
         /\ command'[r].state \in {"pulled", "removed", "started", "Success", "Failed"}
         /\ command[r].ran => command'[r].ran
         /\ \/ command'[r].state \in {"started", "Success"} /\
                 (command'[r].ran \/ command[r].state = "started")
            \/ command'[r].state \in {"pulled", "removed", "Failed"}
<1>1. ASSUME NEW x, Goto(r, x)
      PROVE  /\ command'[r].image = command[r].image /\ command'[r].state = x
             /\ command'[r].ran = command[r].ran
  BY <1>1 DEF Goto, TypeOK
<1>2. ASSUME command' = [command EXCEPT ![r] = [@ EXCEPT !.state = "started", !.ran = TRUE]]
      PROVE  /\ command'[r].image = command[r].image /\ command'[r].state = "started"
             /\ command'[r].ran
  BY <1>2 DEF TypeOK
<1>3. CASE Pull(r)
  BY <1>1, <1>3 DEF Pull
<1>4. CASE Rm(r)
  BY <1>1, <1>4 DEF Rm
<1>5. CASE RunContainer(r)
  BY <1>1, <1>2, <1>5 DEF RunContainer, Conflict
<1>6. CASE Prune(r)
  BY <1>1, <1>6 DEF Prune
<1>7. CASE CommandFails(r)
  BY <1>1, <1>7 DEF CommandFails
<1> QED BY <1>3, <1>4, <1>5, <1>6, <1>7 DEF Instance

LEMMA DeployingStep ==
  ASSUME TypeOK, AllRuns, NEW r \in Runs, RunActs(r)
  PROVE  Deploying(r)'
<1>1. RunInv(r) /\ Kept(r)
  BY OwnKept DEF AllRuns
<1>2. \A i : Gated(r, i) => Gated(r, i)'
  BY GatedStable
<1>3. CASE Instance(r)
  <2>1. job' = job
    BY <1>3 DEF Instance, Pull, Rm, RunContainer, Prune, CommandFails
  <2>2. command[r].image # NoImage /\ command[r].state # "none" /\ command[r].state # "Success"
    BY <1>1, <1>3, InstanceMoves DEF RunInv, Deploying
  <2>3. command'[r].state \in {"started", "Success"} => command'[r].ran
    BY <1>1, <1>3, InstanceMoves DEF RunInv, Deploying
  <2> QED BY <1>1, <1>2, <1>3, <2>1, <2>2, <2>3, InstanceMoves DEF RunInv, Deploying
<1>4. CASE SendCommand(r)
  <2>1. job[r]["deploy"] = "waiting" /\ command[r].state = "none" /\ command[r].image = NoImage
    BY <1>1, <1>4, ReadyFacts, JobNames DEF SendCommand, RunInv, Deploying
  <2>2. job'[r]["deploy"] \in {"polling", "failure"}
    BY <1>4, BecomesAt, JobNames DEF SendCommand, AllStatuses, Statuses
  <2>3. CASE UNCHANGED command
    BY <1>1, <1>2, <2>1, <2>2, <2>3 DEF RunInv, Deploying
  <2>4. CASE Send(r) /\ digest[r] # NoImage
    <3>1. /\ command'[r].state = "queued" /\ command'[r].image = digest[r]
          /\ command'[r].ran = command[r].ran
      BY <2>4 DEF Send, BuildImage, TypeOK
    <3>2. PICK i : i = digest[r] /\ Gated(r, i)
      BY <1>4, <2>4, SendIsGated DEF SendCommand
    <3>3. Gated(r, i)' /\ command'[r].image = i /\ i # NoImage
      BY <1>2, <2>4, <3>1, <3>2
    <3> QED BY <2>1, <2>2, <3>1, <3>3 DEF Deploying, Gated, PrePushGated
  <2> QED BY <1>4, <2>3, <2>4 DEF SendCommand, BuildImage
<1>5. CASE ~Instance(r) /\ ~SendCommand(r)
  <2>1. UNCHANGED command
    BY <1>5 DEF instance, RunActs, Runner, Skip, ToolFails, PollFails, SwapTarball, SwapReport,
       SourceSecurity, ContainerBuild, ImageSecurity, AwsConfiguration, PushImmutable, PushDemo,
       PollScan, ArtifactGate, PollInvocation
  <2>2. job[r]["deploy"] \in {"success", "failure"} => job'[r]["deploy"] = job[r]["deploy"]
    BY <1>1, JobNames DEF Kept, Ended
  <2>3. job[r]["deploy"] = "polling" => job'[r]["deploy"] \in {"polling", "success", "failure"}
    <3> USE BecomesAt, JobNames DEF AllStatuses, Statuses
    <3>1. ASSUME NEW j \in Jobs, NEW x \in AllStatuses, Becomes(r, j, x),
                 j # "deploy" \/ x \in {"success", "failure"}, job[r]["deploy"] = "polling"
          PROVE  job'[r]["deploy"] \in {"polling", "success", "failure"}
      BY <3>1
    <3> QED
      BY <1>5, <3>1, EnforcedIsAStatus DEF RunActs, Runner, Skip, ToolFails, PollFails, SwapTarball,
         SwapReport, SourceSecurity, ContainerBuild, ImageSecurity, AwsConfiguration,
         PushImmutable, PushDemo, PollScan, ArtifactGate, PollInvocation, PollAgain
  <2>4. job'[r]["deploy"] = "success" => command[r].state = "Success"
    BY <1>1, WhoMoves DEF RunInv, Deploying
  <2> QED BY <1>1, <1>2, <2>1, <2>2, <2>3, <2>4 DEF RunInv, Deploying
<1> QED BY <1>3, <1>4, <1>5

-----------------------------------------------------------------------------
(* The invariant of what the runs share *)

LEMMA PublishedStep ==
  ASSUME TypeOK, AllRuns, Published, NEW r \in Runs, RunActs(r)
  PROVE  Published'
<1> SUFFICES ASSUME NEW i \in registry' PROVE \E s \in Runs : PrePushGated(s, i)'
  BY DEF Published
<1>1. CASE i \in registry
  BY <1>1, GatedStable DEF Published
<1>2. CASE PushImmutable(r) /\ i = tarball[r]
  <2>1. /\ setup[r].main /\ job[r]["source"] = "success"
        /\ job[r]["image"] = "success"
    BY <1>2, ReadyFacts DEF PushImmutable
  <2>2. CASE IdentityHolds(r)
    <3>1. imageId[r] = i
      BY <1>2, <2>2 DEF IdentityHolds
    <3>2. PrePushGated(r, i)
      BY <2>1, <3>1 DEF AllRuns, RunInv, Gating, PrePushGated
    <3> QED BY <3>2, GatedStable
  <2>3. CASE ~IdentityHolds(r)
    BY <1>1, <1>2, <2>3 DEF PushImmutable
  <2> QED BY <2>2, <2>3
<1>3. i \in registry \/ (PushImmutable(r) /\ i = tarball[r])
  BY DEF aws, RunActs, Runner, Instance, Skip, ToolFails, PollFails, SwapTarball, SwapReport,
     SourceSecurity, ContainerBuild, ImageSecurity, AwsConfiguration, PushImmutable, PushDemo,
     PollScan, ArtifactGate, SendCommand, PollInvocation, Pull, Rm, RunContainer, Prune,
     CommandFails
<1> QED BY <1>1, <1>2, <1>3

LEMMA ContainerMoves ==
  ASSUME TypeOK, NEW r \in Runs, RunActs(r)
  PROVE  \/ container' = container
         \/ container' = NoContainer /\ command[r].state = "pulled" /\ command'[r].state = "removed"
         \/ /\ container' = [run |-> r, image |-> command[r].image]
            /\ command[r].state = "removed" /\ command'[r].ran
<1>1. CASE Rm(r)
  BY <1>1 DEF Rm, Goto, TypeOK
<1>2. CASE RunContainer(r)
  BY <1>2 DEF RunContainer, TypeOK
<1>3. CASE ~Rm(r) /\ ~RunContainer(r)
  BY <1>3 DEF instance, RunActs, Runner, Instance, Skip, ToolFails, PollFails, SwapTarball,
     SwapReport, SourceSecurity, ContainerBuild, ImageSecurity, AwsConfiguration, PushImmutable,
     PushDemo, PollScan, ArtifactGate, SendCommand, PollInvocation, Pull, Prune, CommandFails
<1> QED BY <1>1, <1>2, <1>3

LEMMA HostedStep ==
  ASSUME TypeOK, AllRuns, Hosted, NEW r \in Runs, RunActs(r)
  PROVE  Hosted'
<1>1. CASE container' = container
  <2>1. ASSUME container # NoContainer
        PROVE  container.run \in Runs /\ Gated(container.run, container.image)
    BY <2>1 DEF Hosted, TypeOK
  <2>2. ASSUME container # NoContainer
        PROVE  \E s \in Runs : \E i : /\ s = container.run /\ i = container.image
                                      /\ Gated(s, i)'
    BY <2>1, <2>2, GatedStable
  <2> QED BY <1>1, <2>2 DEF Hosted, NoContainer, Gated, PrePushGated
<1>2. CASE container' = NoContainer
  BY <1>2 DEF Hosted, NoContainer
<1>3. CASE container' = [run |-> r, image |-> command[r].image] /\ command[r].state = "removed"
  <2>1. PICK i : i = command[r].image /\ Gated(r, i)
    BY <1>3 DEF AllRuns, RunInv, Deploying
  <2>2. Gated(r, i)'
    BY <2>1, GatedStable
  <2>3. container'.run = r /\ container'.image = i
    BY <1>3, <2>1
  <2> QED BY <2>2, <2>3 DEF Hosted, Gated, PrePushGated
<1> QED BY <1>1, <1>2, <1>3, ContainerMoves

\* Only a command that starts its container leaves these two states, or comes to have run.
LEMMA RanMoves ==
  ASSUME TypeOK, AllRuns, NEW r \in Runs, RunActs(r), container' = NoContainer
  PROVE  /\ command'[r].ran => command[r].ran
         /\ command[r].state \in {"removed", "Failed"} => command'[r].state \in {"removed", "Failed"}
<1>1. ASSUME NEW x, Goto(r, x)
      PROVE  command'[r].ran = command[r].ran /\ command'[r].state = x
  BY <1>1 DEF Goto, TypeOK
<1>2. CASE Pull(r) \/ Rm(r) \/ Prune(r) \/ CommandFails(r)
  BY <1>1, <1>2 DEF Pull, Rm, Prune, CommandFails
<1>3. CASE RunContainer(r)
  <2>1. command[r].image \in Images
    BY <1>3 DEF RunContainer, AllRuns, RunInv, Deploying, TypeOK
  <2>2. container # NoContainer /\ Goto(r, "Failed")
    BY <1>3, <2>1, ImagesAssumption DEF RunContainer, Conflict, NoContainer
  <2> QED BY <1>1, <2>2
<1>4. CASE SendCommand(r)
  <2>1. command[r].state = "none"
    BY <1>4, ReadyFacts, JobNames DEF SendCommand, AllRuns, RunInv, Deploying
  <2>2. Send(r) => command'[r].ran = command[r].ran
    BY DEF Send, TypeOK
  <2> QED BY <1>4, <2>1, <2>2 DEF SendCommand
<1>5. CASE ~Instance(r) /\ ~SendCommand(r)
  <2>1. UNCHANGED command
    BY <1>5 DEF instance, RunActs, Runner, Skip, ToolFails, PollFails, SwapTarball, SwapReport,
       SourceSecurity, ContainerBuild, ImageSecurity, AwsConfiguration, PushImmutable, PushDemo,
       PollScan, ArtifactGate, PollInvocation
  <2> QED BY <2>1
<1> QED BY <1>2, <1>3, <1>4, <1>5 DEF Instance

LEMMA OutageStep ==
  ASSUME TypeOK, AllRuns, Outage, NEW r \in Runs, RunActs(r), TypeOK', AllRuns'
  PROVE  Outage'
<1> SUFFICES ASSUME container' = NoContainer, NEW s \in Runs, command'[s].ran
             PROVE  \E t \in Runs : /\ command'[t].state \in {"removed", "Failed"}
                                    /\ job'[t]["deploy"] \in {"polling", "failure"}
  BY DEF Outage, NoContainer
<1>0. ASSUME NEW t \in Runs, command'[t].state \in {"removed", "Failed"}
      PROVE  job'[t]["deploy"] \in {"polling", "failure"}
  BY <1>0 DEF AllRuns, RunInv, Deploying
<1>1. CASE command[r].state = "pulled" /\ command'[r].state = "removed"
  BY <1>0, <1>1
<1>2. CASE container' = container
  <2>1. container = NoContainer /\ container' = NoContainer
    BY <1>2 DEF NoContainer
  <2>2. \A t \in Runs \ {r} : command'[t] = command[t]
    BY OthersKept DEF OfRun
  <2>3. command[s].ran
    BY <2>1, <2>2, RanMoves DEF NoContainer
  <2>4. PICK t \in Runs : command[t].state \in {"removed", "Failed"}
    BY <2>1, <2>3 DEF Outage
  <2>5. command'[t].state \in {"removed", "Failed"}
    BY <2>1, <2>2, <2>4, RanMoves DEF NoContainer
  <2> QED BY <1>0, <2>5
<1>3. CASE container' = [run |-> r, image |-> command[r].image] /\ command[r].state = "removed"
  <2>1. command[r].image \in Images
    BY <1>3 DEF AllRuns, RunInv, Deploying, TypeOK
  <2> QED BY <1>3, <2>1, ImagesAssumption DEF NoContainer
<1> QED BY <1>1, <1>2, <1>3, ContainerMoves

-----------------------------------------------------------------------------
(* The invariant is inductive *)

LEMMA InvInit == Init => IInv
<1> SUFFICES ASSUME Init PROVE IInv
  OBVIOUS
<1>1. TypeOK
  BY TypeInit
<1>2. ASSUME NEW r \in Runs PROVE RunInv(r)
  <2>1. \A j \in Jobs : job[r][j] = "waiting"
    BY DEF Init
  <2>2. Ancestry(r) /\ Gating(r) /\ Naming(r)
    BY <2>1, JobNames DEF Ancestry, Gating, Naming
  <2>3. Deploying(r)
    BY <2>1, JobNames DEF Init, Deploying
  <2> QED BY <2>2, <2>3 DEF RunInv
<1>3. Published /\ Hosted /\ Outage
  BY DEF Init, Published, Hosted, Outage, NoContainer
<1> QED BY <1>1, <1>2, <1>3 DEF IInv

LEMMA InvStep == IInv /\ [Next]_vars => IInv'
<1> SUFFICES ASSUME IInv, [Next]_vars PROVE IInv'
  OBVIOUS
<1>1. CASE Next
  <2>1. PICK r \in Runs : RunActs(r)
    BY <1>1 DEF Next, RunActs
  <2>2. TypeOK /\ AllRuns /\ Published /\ Hosted /\ Outage
    BY DEF IInv, AllRuns
  <2>3. TypeOK'
    BY <2>1, <2>2, TypeStep DEF AllRuns
  <2>4. AllRuns'
    <3>1. RunInv(r)'
      BY <2>1, <2>2, AncestryStep, GatingStep, NamingStep, DeployingStep DEF RunInv
    <3>2. \A s \in Runs \ {r} : RunInv(s)'
      BY <2>1, <2>2, OtherRuns
    <3> QED BY <3>1, <3>2 DEF AllRuns
  <2>5. Published' /\ Hosted' /\ Outage'
    BY <2>1, <2>2, <2>3, <2>4, PublishedStep, HostedStep, OutageStep
  <2> QED BY <2>3, <2>4, <2>5 DEF IInv, AllRuns
<1>2. CASE UNCHANGED vars
  BY <1>2 DEF vars, scans, aws, instance, IInv, TypeOK, RunInv, Ancestry, Gating, Naming,
     Deploying, Gated, PrePushGated, Published, Hosted, Outage, NoContainer
<1> QED BY <1>1, <1>2

-----------------------------------------------------------------------------
(* The theorems *)

THEOREM PipelineIsInductive == Spec => []IInv
BY InvInit, InvStep, PTL DEF Spec

\* deploy.yml's state is always of the kinds that its jobs and SSM know.
THEOREM PipelineTypes == Spec => []TypeOK
<1>1. IInv => TypeOK
  BY DEF IInv
<1> QED BY <1>1, PipelineIsInductive, PTL

\* "The thing scanned is provably the thing deployed", with any number of
\* concurrent runs, whatever tools, artifacts, polls and calls do.
THEOREM OnlyGatedImagesRun == Spec => []OnlyGatedImages
<1>1. IInv => OnlyGatedImages
  BY DEF IInv, OnlyGatedImages, Published, Hosted, RunInv, Deploying
<1> QED BY <1>1, PipelineIsInductive, PTL

\* ssm-deploy.mjs reports no false success, and no outage that it caused is
\* without a deploy job that is still polling or has failed.
THEOREM OutagesAreSeen == Spec => []OutageIsSeen
<1>1. IInv => OutageIsSeen
  BY DEF IInv, OutageIsSeen, Outage, RunInv, Deploying
<1> QED BY <1>1, PipelineIsInductive, PTL
=============================================================================
