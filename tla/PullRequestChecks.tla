-------------------------- MODULE PullRequestChecks ---------------------------
(***************************************************************************)
(* security.yml: the runs that the pushes of a pull request and a schedule *)
(* start.  Each has a source gate and an image gate that end on their own  *)
(* and post to one comment (notify.mjs), and checks that read both.        *)
(* generate-semgrep-baseline.mjs makes the baseline that a later push may  *)
(* commit.  A tree is the facts that scanners can find in it; the verdicts *)
(* are SecurityGate's and ImageGate's, from reports made of those facts.   *)
(* A definition marked "Variant" is a faulty version of the one after it.  *)
(***************************************************************************)
EXTENDS SecurityGate, SequencesExt

CONSTANTS
  Trees,        \* what a push may bring
  Base,         \* the code findings at the merge base with main
  SourcePolicy, ImagePolicy,
  Faults,       \* what may go wrong: a subset of FaultKinds
  MaxRuns,      \* bound: the runs of one pull request
  MaxFaults     \* bound: how often something goes wrong in all of them

\* A scanner's report is bad; a gate leaves no result; the image is not built; a
\* call to GitHub fails; the merge base is not found; GATE_MODE is changed between
\* the gates of a run; a run starts while another is still going.
FaultKinds == {"scanner", "crash", "build", "http", "history", "mode", "overlap"}

Gates    == {"source", "image"}
Modes    == {"enforce", "log-only"}
BadScans == {"semgrep", "osv", "npm"}

\* policy.yaml: the actions, and the severities of Semgrep's own levels.
PolicyActions ==
  [ rule \in SourceRules |->
      CASE rule \in {Graded("dependencies", s, "no_fix") : s \in Serious} -> "EXCEPTION"
        [] rule \in {Graded("dependencies", s, "with_fix") : s \in Serious}
                    \cup {Graded("sast", s, "new") : s \in Serious}
                    \cup {Malicious, <<"secrets", <<"verified", "">> >>,
                          <<"secrets", <<"demo_dummy", "">> >>} -> "BLOCK"
        [] OTHER -> "LOG" ]

SemgrepSeverities == [ERROR |-> "high", WARNING |-> "medium", INFO |-> "low"]

ASSUME PullRequestAssumption ==
  /\ Faults \subseteq FaultKinds
  /\ MaxRuns \in Nat \ {0} /\ MaxFaults \in Nat
  /\ ValidatePolicy(SourcePolicy) /\ PolicyIsValid(ImagePolicy)
  /\ SourcePolicy.actions = PolicyActions /\ SourcePolicy.semgrep = SemgrepSeverities
  /\ SourcePolicy.thresholds \in [critical : Nat, high : Nat, medium : Nat]

\* What scanners can find in a tree, in the terms that the gates know.
ASSUME TreesAssumption ==
  \A tree \in Trees :
    /\ \A f \in tree.code : f.severity \in Severities \cup DOMAIN SemgrepSeverities
    /\ \A s \in tree.secrets : s.kind \in {"verified", "unverified", "demo", "pattern"}
    /\ IsFiniteSet(tree.packages) /\ tree.manifests \subseteq {"npm", "pip"}
    /\ \A p, q \in tree.packages : p.package = q.package /\ p.id = q.id => p = q
    /\ \A p \in tree.packages :
         /\ p.malicious \in BOOLEAN /\ p.fix \in BOOLEAN /\ p.scores \subseteq Nat
         /\ p.malicious \/ p.affected
         /\ p.ecosystem = "npm" => NormalizeSeverity(p.severity) \in Severities

VARIABLES
  runs,       \* in the order in which they started
  baseline,   \* the candidate baseline, and the findings it was generated from
  comments,   \* the pull request's comments with the marker: the last writer of each
  faults      \* what has gone wrong so far

vars == <<runs, baseline, comments, faults>>

Waiting ==
  [state |-> "waiting", mode |-> "none", result |-> NoReport, passes |-> FALSE,
   target |-> 0, delivered |-> FALSE]

Init ==
  /\ runs = <<>>
  /\ baseline = [schemaVersion |-> 1, fingerprints |-> {}, accepted |-> {}]
  /\ comments = <<>>
  /\ faults = 0

\* The kinds of fault that this step meets.
Meets(kinds) ==
  /\ kinds \subseteq Faults
  /\ faults' = faults + Cardinality(kinds) /\ faults' =< MaxFaults

If(condition, kind) == IF condition THEN {kind} ELSE {}

Over(run)  == \A g \in Gates : run.jobs[g].state \in {"ended", "skipped"}
AllOver    == \A n \in 1..Len(runs) : Over(runs[n])

SetJob(n, g, job) == runs' = [runs EXCEPT ![n].jobs[g] = job]

-----------------------------------------------------------------------------
(* Pushes and the schedule *)

\* A scheduled run builds no image and scans the whole tree.
Start ==
  /\ Len(runs) < MaxRuns
  /\ \E tree \in Trees, scheduled, found \in BOOLEAN, mode \in Modes :
       /\ scheduled => found
       /\ Meets(If(~found, "history") \cup If(~AllOver, "overlap"))
       /\ runs' = Append(runs,
            [ tree |-> tree, scheduled |-> scheduled, incremental |-> found /\ ~scheduled,
              mode |-> mode, baseline |-> baseline, alone |-> AllOver,
              badScan |-> "none", semgrep |-> NoReport,
              jobs |-> [source |-> Waiting,
                        image |-> IF scheduled THEN [Waiting EXCEPT !.state = "skipped"]
                                  ELSE Waiting] ])
  /\ UNCHANGED <<baseline, comments>>

-----------------------------------------------------------------------------
(* The scanners: what the facts of a tree look like in their reports *)

\* Semgrep's --baseline-commit: only what the base did not have.
Scanned(run) ==
  {f \in run.tree.code : run.incremental =>
     \A b \in Base : <<b.check, b.path, b.text>> # <<f.check, f.path, f.text>>}

SemgrepReport(run, bad) ==
  IF bad = "semgrep" THEN [errors |-> TRUE, results |-> {}]
  ELSE [errors |-> FALSE, results |-> Scanned(run)]

OfEcosystem(run, e) == {p \in run.tree.packages : p.ecosystem = e}

SourceReports(run, bad) ==
  [ gitleaks   |-> {[id |-> s.id, demo |-> s.kind = "demo"] :
                      s \in {x \in run.tree.secrets : x.kind \in {"demo", "pattern"}}},
    trufflehog |-> {[id |-> s.id, verified |-> s.kind = "verified"] :
                      s \in {x \in run.tree.secrets : x.kind \in {"verified", "unverified"}}},
    npm        |-> IF "npm" \notin run.tree.manifests THEN Absent
                   ELSE [total |-> Cardinality(OfEcosystem(run, "npm"))
                                     + IF bad = "npm" THEN 1 ELSE 0,
                         vulnerabilities |-> OfEcosystem(run, "npm")],
    pip        |-> IF "pip" \notin run.tree.manifests THEN Absent
                   ELSE SetToSeq(OfEcosystem(run, "pip")) \o SetToSeq(OfEcosystem(run, "pip")),
    osv        |-> IF bad = "osv" THEN NoReport ELSE run.tree.packages,
    semgrep    |-> SemgrepReport(run, bad),
    baseline   |-> run.baseline ]

\* The values of the reports are none of the values for a report that is not there.
AllCode     == UNION {tree.code : tree \in Trees}
AllPackages == UNION {tree.packages : tree \in Trees}
SecretIds   == {s.id : s \in UNION {tree.secrets : tree \in Trees}}

Baselines ==
  [ schemaVersion : {1}, fingerprints : SUBSET {SemgrepFingerprint(f) : f \in AllCode},
    accepted : SUBSET AllCode ]

ASSUME NoReportAssumption ==
  /\ NoReport # Absent
  /\ \A none \in {NoReport, Absent} :
       /\ \A S \in SUBSET [id : SecretIds, demo : BOOLEAN] : S # none
       /\ \A S \in SUBSET [id : SecretIds, verified : BOOLEAN] : S # none
       /\ \A S \in SUBSET AllPackages : S # none
       /\ none \notin [total : Nat, vulnerabilities : SUBSET AllPackages]
       /\ none \notin Seq(AllPackages)
       /\ none \notin [errors : BOOLEAN, results : SUBSET AllCode]
       /\ none \notin Baselines

-----------------------------------------------------------------------------
(* The gates *)

\* Variant: a gate that left no result is taken to pass.
VerdictOrPass(g, job) == IF job.result = NoReport THEN "PASS" ELSE job.result.verdict
Verdict(g, job) ==
  IF job.result = NoReport THEN IF g = "source" THEN "BLOCK" ELSE "BLOCK_DEPLOY"
  ELSE job.result.verdict

Trusted(job) == job.result # NoReport /\ job.result.trusted

Blocks(g, job) == Verdict(g, job) \in {"BLOCK", "BLOCK_DEPLOY"}

Done(g, mode, result, tool, approved) ==
  LET job == [Waiting EXCEPT !.state = "judged", !.mode = mode, !.result = result]
  IN [job EXCEPT !.passes = tool /\ (Blocks(g, job) => mode = "log-only" \/ approved)]

\* A bad report may also fail the job that made it.
SourceGate(n) ==
  LET run == runs[n]
  IN /\ run.jobs["source"].state = "waiting"
     /\ \E bad \in BadScans \cup {"none"}, tool, approved, crash \in BOOLEAN, mode \in Modes :
          LET gate   == RunSecurityGate(SourcePolicy, run.tree.manifests, SourceReports(run, bad))
              result == IF crash THEN NoReport ELSE gate
          IN /\ Meets(If(bad # "none", "scanner") \cup If(crash, "crash")
                      \cup If(mode # run.mode, "mode"))
             /\ bad = "npm" => "npm" \in run.tree.manifests
             /\ ~tool => bad # "none"
             /\ approved => result # NoReport /\ result.eligible /\ mode = "enforce"
             /\ runs' = [runs EXCEPT
                  ![n] = [@ EXCEPT !.badScan = bad, !.semgrep = SemgrepReport(run, bad),
                    !.jobs["source"] = Done("source", mode, result, tool, approved)]]
  /\ UNCHANGED <<baseline, comments>>

\* A Trivy report without an image id fails the job before its gate, in every mode.
ImageSecurity(n) ==
  LET trivy == runs[n].tree.trivy
  IN /\ runs[n].jobs["image"].state = "waiting"
     /\ \E crash \in BOOLEAN, mode \in Modes :
          LET result == IF crash \/ trivy.imageId = "none" THEN NoReport
                        ELSE RunImageGate("trivy", ImagePolicy, trivy)
          IN /\ Meets(If(crash, "crash") \cup If(mode # runs[n].mode, "mode"))
             /\ SetJob(n, "image", Done("image", mode, result, trivy.imageId # "none", FALSE))
     /\ UNCHANGED <<baseline, comments>>

ContainerBuildFails(n) ==
  /\ runs[n].jobs["image"].state = "waiting"
  /\ Meets({"build"})
  /\ SetJob(n, "image", [Waiting EXCEPT !.state = "skipped"])
  /\ UNCHANGED <<baseline, comments>>

-----------------------------------------------------------------------------
(* notify.mjs: the pull request's comment *)

\* Nothing that blocks, no exception, no integrity failure.
Clean(job) ==
  job.result.trusted /\ \A f \in job.result.findings : f.action = "LOG"

Posted(job, delivered) == [job EXCEPT !.state = "ended", !.delivered = delivered]

ListComments(n, g) ==
  LET job == runs[n].jobs[g]
  IN /\ job.state = "judged"
     /\ \/ /\ job.result # NoReport /\ ~runs[n].scheduled
           /\ Meets({})
           /\ SetJob(n, g, [job EXCEPT !.state = "listed",
                                       !.target = IF comments = <<>> THEN 0 ELSE 1])
        \/ /\ job.result # NoReport /\ runs[n].scheduled
           /\ Meets({})
           /\ SetJob(n, g, Posted(job, TRUE))
        \/ /\ job.result # NoReport => ~runs[n].scheduled
           /\ Meets(If(job.result # NoReport, "http"))
           /\ SetJob(n, g, Posted(job, FALSE))
     /\ UNCHANGED <<baseline, comments>>

Comment(n, g) == [run |-> n, gate |-> g, red |-> Blocks(g, runs[n].jobs[g])]

\* Variant: a clean run leaves the comment that is there alone.
WrittenUnlessClean(n, g) ==
  IF Clean(runs[n].jobs[g]) THEN comments
  ELSE IF runs[n].jobs[g].target # 0
  THEN [comments EXCEPT ![runs[n].jobs[g].target] = Comment(n, g)]
  ELSE Append(comments, Comment(n, g))
\* Update the comment that was found; create one unless the run is clean.
Written(n, g) ==
  LET job == runs[n].jobs[g]
  IN CASE job.target # 0 -> [comments EXCEPT ![job.target] = Comment(n, g)]
       [] job.target = 0 /\ ~Clean(job) -> Append(comments, Comment(n, g))
       [] OTHER -> comments

WriteComment(n, g) ==
  /\ runs[n].jobs[g].state = "listed"
  /\ \/ /\ comments' = Written(n, g)
        /\ Meets({})
        /\ SetJob(n, g, Posted(runs[n].jobs[g], TRUE))
     \/ /\ Meets({"http"})
        /\ SetJob(n, g, Posted(runs[n].jobs[g], FALSE))
        /\ UNCHANGED comments
  /\ UNCHANGED baseline

-----------------------------------------------------------------------------
(* generate-semgrep-baseline.mjs, from the artifacts of runs *)

BaselineFingerprint(f) == <<f.check, f.path, f.text>>

AssertScansTrusted(gates) == gates # {} /\ \A job \in gates : Trusted(job)

GenerateBaseline ==
  \E n, m \in 1..Len(runs) : \E gates \in SUBSET Gates :
    LET report == runs[n].semgrep
    IN /\ \A g \in gates : runs[m].jobs[g].result # NoReport
       /\ AssertScansTrusted({runs[m].jobs[g] : g \in gates})
       /\ report # NoReport /\ ~report.errors
       /\ baseline' = [ schemaVersion |-> 1,
                        fingerprints  |-> {BaselineFingerprint(f) : f \in report.results},
                        accepted      |-> report.results ]
       /\ UNCHANGED <<runs, comments, faults>>

-----------------------------------------------------------------------------
(* The checks, which are functions of the jobs' results and outputs *)

SecurityGateIsGreen(run) == run.jobs["source"].passes
ImageGateIsGreen(run)    == run.jobs["image"].passes

\* Variant: what is suppressed of the image is not looked at.
GateModeOfSource(run) ==
  LET source == run.jobs["source"]
  IN Trusted(source) /\ (source.mode = "log-only" => ~Blocks("source", source))
GateModeIsGreen(run) ==
  LET source == run.jobs["source"]
      image  == run.jobs["image"]
  IN /\ Trusted(source)
     /\ image.state # "skipped" => Trusted(image)
     /\ source.mode = "log-only" =>
          ~Blocks("source", source) /\ (image.state # "skipped" => ~Blocks("image", image))

-----------------------------------------------------------------------------

Next ==
  \/ Start \/ GenerateBaseline
  \/ \E n \in 1..Len(runs) :
       \/ SourceGate(n) \/ ImageSecurity(n) \/ ContainerBuildFails(n)
       \/ \E g \in Gates : ListComments(n, g) \/ WriteComment(n, g)

Spec == Init /\ [][Next]_vars

-----------------------------------------------------------------------------
(* Properties *)

TypeOK ==
  /\ faults \in 0..MaxFaults
  /\ Len(runs) =< MaxRuns
  /\ \A n \in 1..Len(runs) :
       /\ runs[n].tree \in Trees /\ runs[n].badScan \in BadScans \cup {"none"}
       /\ \A g \in Gates :
            LET job == runs[n].jobs[g]
            IN /\ job.state \in {"waiting", "judged", "listed", "ended", "skipped"}
               /\ job.mode \in Modes \cup {"none"}
               /\ job.target \in 0..Len(comments)
               /\ job.passes => job.result # NoReport \/ job.mode = "log-only"
  /\ \A c \in 1..Len(comments) : comments[c].run \in 1..Len(runs) /\ comments[c].gate \in Gates

Grave(p, manifests) ==
  \/ p.scores = {} \/ \E s \in p.scores : s >= SourcePolicy.thresholds.high
  \/ p.ecosystem = "npm" /\ "npm" \in manifests /\ p.severity \in Serious
  \/ p.ecosystem = "pip" /\ "pip" \in manifests

NewCode(run) ==
  {f \in Scanned(run) :
     /\ f.severity \in {"critical", "high", "ERROR"}
     /\ \A a \in run.baseline.accepted :
          <<a.check, a.path, a.text>> # <<f.check, f.path, f.text>>}

Fixable(run) ==
  {p \in run.tree.packages : ~p.malicious /\ p.fix /\ Grave(p, run.tree.manifests)}

NeverLifted(run) ==
  {s \in run.tree.secrets : s.kind \in {"verified", "demo"}}
  \cup {p \in run.tree.packages : p.malicious}

\* "Block only what a change introduces": when every scanner has reported, the
\* source gate blocks exactly the facts of the tree that the policy blocks, code
\* findings among them that neither the base nor the reports a baseline was made
\* from had; what cannot be lifted is never eligible; and a bad report blocks.
VerdictIsDeserved ==
  \A n \in 1..Len(runs) :
    LET run    == runs[n]
        result == run.jobs["source"].result
        liftable == NewCode(run) \cup Fixable(run)
    IN result # NoReport =>
         IF run.badScan = "none"
         THEN /\ result.trusted
              /\ result.verdict = "BLOCK" <=> liftable \cup NeverLifted(run) # {}
              /\ result.eligible <=> liftable # {} /\ NeverLifted(run) = {}
         ELSE ~result.trusted /\ result.verdict = "BLOCK" /\ ~result.eligible

\* A run whose gates ran in one mode and whose checks are all green has no
\* finding that the policy blocks, in source or image, unless somebody approved
\* it, and it has read every report: log-only hides nothing from "gate-mode".
GreenIsEarned ==
  \A n \in 1..Len(runs) :
    LET run   == runs[n]
        image == run.jobs["image"]
    IN /\ Over(run) /\ (run.scheduled \/ image.mode = run.jobs["source"].mode)
       /\ SecurityGateIsGreen(run) /\ GateModeIsGreen(run)
       /\ run.scheduled \/ ImageGateIsGreen(run)
       => /\ run.badScan = "none" /\ NeverLifted(run) = {}
          /\ NewCode(run) \cup Fixable(run) # {} => run.jobs["source"].mode = "enforce"
          /\ ~run.scheduled =>
               RunImageGate("trivy", ImagePolicy, run.tree.trivy).verdict # "BLOCK_DEPLOY"

\* The last run, once it is over, has delivered, and no other was going on with it.
Settled ==
  LET run == runs[Len(runs)]
  IN /\ runs # <<>> /\ Over(run)
     /\ run.alone /\ ~run.scheduled
     /\ \A g \in Gates : run.jobs[g].delivered

\* "Repeated pushes update one comment": when the last run has settled, the first
\* comment with the marker is its own, or there is none and its gates are clean.
CommentIsCurrent ==
  Settled =>
    LET run == runs[Len(runs)]
    IN IF comments = <<>> THEN \A g \in Gates : Clean(run.jobs[g])
       ELSE comments[1].run = Len(runs)

\* "Keeps a stale red comment honest", and red comments flip "to green once
\* fixed": the comment of a settled run is red exactly when one of its gates blocks.
CommentIsHonest ==
  Settled /\ comments # <<>> =>
    LET run == runs[Len(runs)]
    IN comments[1].red <=> \E g \in Gates : Blocks(g, run.jobs[g])
=============================================================================
