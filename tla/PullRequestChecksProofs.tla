------------------------ MODULE PullRequestChecksProofs ------------------------
(***************************************************************************)
(* Proofs about the checks of a pull request, for any trees, runs and      *)
(* faults, under the actions of policy.yaml: the verdict of the source     *)
(* gate is the one that a tree deserves, green checks hide nothing, and    *)
(* the comment is the last run's.  The gate's operators come first, then   *)
(* the state and what each step does to it, then the invariants.           *)
(***************************************************************************)
EXTENDS PullRequestChecks, FiniteSetTheorems, SequenceTheorems, TLAPS

-----------------------------------------------------------------------------
(* The rules of policy.yaml *)

\* The rules that block, of which the first kind is eligible for break-glass.
EligibleRules ==
  {Graded("dependencies", s, "with_fix") : s \in Serious}
  \cup {Graded("sast", s, "new") : s \in Serious}
HardRules ==
  {Malicious, <<"secrets", <<"verified", "">> >>, <<"secrets", <<"demo_dummy", "">> >>}

\* A graded rule of dependencies or code is one of the policy's.
LEMMA GradedRule ==
  ASSUME NEW section \in {"dependencies", "sast"}, NEW s \in Severities,
         NEW suffix, section = "dependencies" => suffix \in {"with_fix", "no_fix"},
         section = "sast" => suffix \in {"new", "existing"}
  PROVE  Graded(section, s, suffix) \in SourceRules
BY DEF Graded, SourceRules, Plain, Severities, Serious

\* The action of every rule.
LEMMA ActionOfRule ==
  ASSUME NEW rule \in SourceRules
  PROVE  SourcePolicy.actions[rule] = "BLOCK" <=> rule \in EligibleRules \cup HardRules
<1>1. SourcePolicy.actions[rule] = PolicyActions[rule]
  BY PullRequestAssumption
<1>2. rule \in EligibleRules \cup HardRules
        => rule \notin {Graded("dependencies", s, "no_fix") : s \in Serious}
  <2>1. \A s \in Serious : Graded("dependencies", s, "no_fix")[2][2] = "no_fix"
    BY DEF Graded
  <2>2. \A s \in Serious : /\ Graded("dependencies", s, "with_fix")[2][2] # "no_fix"
                          /\ Graded("sast", s, "new")[2][2] # "no_fix"
    BY DEF Graded
  <2>3. \A other \in EligibleRules : other[2][2] # "no_fix"
    BY <2>2 DEF EligibleRules
  <2>4. \A other \in HardRules : other[2][2] # "no_fix"
    <3>1. Malicious[2][2] = "" /\ <<"secrets", <<"verified", "">> >>[2][2] = ""
          /\ <<"secrets", <<"demo_dummy", "">> >>[2][2] = ""
      BY DEF Malicious
    <3> QED BY <3>1, Zenon DEF HardRules
  <2> QED BY <2>1, <2>3, <2>4
<1>3. CASE rule \in {Graded("dependencies", s, "no_fix") : s \in Serious}
  BY <1>1, <1>2, <1>3 DEF PolicyActions, EligibleRules, HardRules
<1>4. CASE rule \in EligibleRules \cup HardRules
  BY <1>1, <1>2, <1>4 DEF PolicyActions, EligibleRules, HardRules
<1>5. CASE /\ rule \notin {Graded("dependencies", s, "no_fix") : s \in Serious}
           /\ rule \notin EligibleRules \cup HardRules
  BY <1>1, <1>5 DEF PolicyActions, EligibleRules, HardRules
<1> QED BY <1>3, <1>4, <1>5

\* The eligible ones are what their name says.
LEMMA EligibilityOfRule ==
  /\ \A rule \in EligibleRules : IsEligible(rule)
  /\ \A rule \in HardRules : ~IsEligible(rule)
BY DEF EligibleRules, HardRules, IsEligible, Graded, Malicious, Serious

\* When a graded rule blocks.
LEMMA GradedBlocks ==
  /\ \A s \in Severities, fix \in BOOLEAN :
       Graded("dependencies", s, FixSuffix(fix)) \in EligibleRules \cup HardRules
         <=> s \in Serious /\ fix
  /\ \A s \in Severities, suffix \in {"new", "existing"} :
       Graded("sast", s, suffix) \in EligibleRules \cup HardRules
         <=> s \in Serious /\ suffix = "new"
  /\ \A s \in Severities : \A suffix : Graded("dependencies", s, suffix) \notin HardRules
  /\ \A s \in Severities : \A suffix : Graded("sast", s, suffix) \notin HardRules
BY DEF EligibleRules, HardRules, Graded, FixSuffix, Severities, Serious, Malicious

\* A finding that blocks, and may or may not be lifted.
SoftBlock(d) == d.action = "BLOCK" /\ IsEligible(d.rule)
HardBlock(d) == d.action = "BLOCK" /\ ~IsEligible(d.rule)

\* Which added findings block.
LEMMA AddedBlocks ==
  ASSUME NEW source, NEW id, NEW rule \in SourceRules
  PROVE  /\ SoftBlock(Added(SourcePolicy, source, id, rule)) <=> rule \in EligibleRules
         /\ HardBlock(Added(SourcePolicy, source, id, rule)) <=> rule \in HardRules
<1>1. /\ Added(SourcePolicy, source, id, rule).action = SourcePolicy.actions[rule]
      /\ Added(SourcePolicy, source, id, rule).rule = rule
  BY DEF Added
<1> QED BY <1>1, ActionOfRule, EligibilityOfRule DEF SoftBlock, HardBlock

-----------------------------------------------------------------------------
(* The evaluators on the reports of a tree *)

\* Only leaked secrets that are verified, and the demo's own, block, and for good.
LEMMA SecretsBlock ==
  ASSUME NEW gitleaks, NEW trufflehog,
         \A f \in gitleaks : f.demo \in BOOLEAN, \A f \in trufflehog : f.verified \in BOOLEAN
  PROVE  LET F == EvaluateSecrets(SourcePolicy, gitleaks, trufflehog)
         IN /\ \A d \in F : ~SoftBlock(d)
            /\ (\E d \in F : HardBlock(d))
                 <=> (\E f \in gitleaks : f.demo) \/ (\E f \in trufflehog : f.verified)
<1> DEFINE Secret(kind) == <<"secrets", <<kind, "">> >>
           A == { Added(SourcePolicy, "gitleaks", f.id,
                        Secret(IF f.demo THEN "demo_dummy" ELSE "unverified")) : f \in gitleaks }
           B == { Added(SourcePolicy, "trufflehog", f.id,
                        Secret(IF f.verified THEN "verified" ELSE "unverified")) :
                    f \in trufflehog }
<1>1. EvaluateSecrets(SourcePolicy, gitleaks, trufflehog) = A \cup B
  BY DEF EvaluateSecrets
<1>2. /\ Secret("demo_dummy") \in SourceRules /\ Secret("unverified") \in SourceRules
      /\ Secret("verified") \in SourceRules
  BY DEF SourceRules, Plain
<1>3. /\ Secret("demo_dummy") \in HardRules /\ Secret("verified") \in HardRules
      /\ Secret("demo_dummy") \notin EligibleRules /\ Secret("verified") \notin EligibleRules
      /\ Secret("unverified") \notin HardRules /\ Secret("unverified") \notin EligibleRules
  BY DEF HardRules, EligibleRules, Graded, Malicious
<1> HIDE DEF Secret
<1>4. \A f \in gitleaks :
        LET d == Added(SourcePolicy, "gitleaks", f.id,
                       Secret(IF f.demo THEN "demo_dummy" ELSE "unverified"))
        IN ~SoftBlock(d) /\ (HardBlock(d) <=> f.demo)
  BY <1>2, <1>3, AddedBlocks
<1>5. \A f \in trufflehog :
        LET d == Added(SourcePolicy, "trufflehog", f.id,
                       Secret(IF f.verified THEN "verified" ELSE "unverified"))
        IN ~SoftBlock(d) /\ (HardBlock(d) <=> f.verified)
  BY <1>2, <1>3, AddedBlocks
<1>6. \A d \in A : ~SoftBlock(d)
  BY <1>4
<1>7. (\E d \in A : HardBlock(d)) <=> \E f \in gitleaks : f.demo
  BY <1>4
<1>8. \A d \in B : ~SoftBlock(d)
  BY <1>5
<1>9. (\E d \in B : HardBlock(d)) <=> \E f \in trufflehog : f.verified
  BY <1>5
<1> HIDE DEF A, B
<1> QED BY <1>1, <1>6, <1>7, <1>8, <1>9

\* npm's advisories that block are the serious ones with a fix; all may be lifted.
LEMMA NpmBlocks ==
  ASSUME NEW report,
         \A v \in report.vulnerabilities :
           v.fix \in BOOLEAN /\ NormalizeSeverity(v.severity) \in Severities
  PROVE  LET F == EvaluateNpmAudit(SourcePolicy, report)
         IN /\ \A d \in F : ~HardBlock(d)
            /\ (\E d \in F : SoftBlock(d))
                 <=> \E v \in report.vulnerabilities : v.fix /\ v.severity \in Serious
<1> DEFINE rule(v) == Graded("dependencies", NormalizeSeverity(v.severity), FixSuffix(v.fix))
           D(v) == Added(SourcePolicy, "npm-audit", v.package, rule(v))
<1>1. ASSUME NEW v \in report.vulnerabilities
      PROVE  ~HardBlock(D(v)) /\ (SoftBlock(D(v)) <=> v.fix /\ v.severity \in Serious)
  <2>1. NormalizeSeverity(v.severity) \in Serious <=> v.severity \in Serious
    BY DEF NormalizeSeverity, Serious, Severities
  <2>2. rule(v) \in SourceRules
    BY GradedRule DEF FixSuffix
  <2>3. rule(v) \notin HardRules
    BY GradedBlocks
  <2>4. rule(v) \in EligibleRules <=> NormalizeSeverity(v.severity) \in Serious /\ v.fix
    BY <2>3, GradedBlocks
  <2> HIDE DEF rule
  <2> QED BY <2>1, <2>2, <2>3, <2>4, AddedBlocks
<1>2. EvaluateNpmAudit(SourcePolicy, report) = {D(v) : v \in report.vulnerabilities}
  BY DEF EvaluateNpmAudit
<1> HIDE DEF D
<1> QED BY <1>1, <1>2

\* The finding of a malicious package blocks for good.
LEMMA MaliciousBlocks ==
  ASSUME NEW source, NEW id
  PROVE  /\ HardBlock(Added(SourcePolicy, source, id, Malicious))
         /\ ~SoftBlock(Added(SourcePolicy, source, id, Malicious))
<1>1. Malicious \in SourceRules /\ Malicious \in HardRules
  BY DEF Malicious, SourceRules, Plain, HardRules
<1>2. Malicious \notin EligibleRules
  BY <1>1, EligibilityOfRule
<1> QED BY <1>1, <1>2, AddedBlocks

\* The severity of an advisory is serious when it has no score, or a high one.
LEMMA OsvSeriousness ==
  ASSUME NEW scores \in SUBSET Nat
  PROVE  /\ OsvSeverity(SourcePolicy, scores) \in Severities
         /\ OsvSeverity(SourcePolicy, scores) \in Serious
              <=> scores = {} \/ \E s \in scores : s >= SourcePolicy.thresholds.high
<1> DEFINE Reaches(level) == \E s \in scores : s >= SourcePolicy.thresholds[level]
<1>1. /\ SourcePolicy.thresholds \in [critical : Nat, high : Nat, medium : Nat]
      /\ SourcePolicy.thresholds.critical > SourcePolicy.thresholds.high
      /\ SourcePolicy.thresholds.high > SourcePolicy.thresholds.medium
  BY PullRequestAssumption DEF ValidatePolicy
<1>2. (Reaches("critical") => Reaches("high")) /\ (Reaches("high") => Reaches("medium"))
  <2> DEFINE c == SourcePolicy.thresholds["critical"]
             h == SourcePolicy.thresholds["high"]
             m == SourcePolicy.thresholds["medium"]
  <2>1. c \in Nat /\ h \in Nat /\ m \in Nat /\ c > h /\ h > m
    BY <1>1
  <2> HIDE DEF c, h, m
  <2>2. \A s \in scores : (s >= c => s >= h) /\ (s >= h => s >= m)
    BY <2>1
  <2> QED BY <2>2 DEF c, h, m
<1>3. Reaches("critical") \/ Reaches("high") \/ Reaches("medium") => scores # {}
  OBVIOUS
<1>4. OsvSeverity(SourcePolicy, scores) =
        CASE scores = {} -> "high"
          [] scores # {} /\ Reaches("critical") -> "critical"
          [] scores # {} /\ ~Reaches("critical") /\ Reaches("high") -> "high"
          [] scores # {} /\ ~Reaches("high") /\ Reaches("medium") -> "medium"
          [] OTHER -> "low"
  BY DEF OsvSeverity
<1>5. Reaches("high") <=> \E s \in scores : s >= SourcePolicy.thresholds.high
  OBVIOUS
<1> HIDE DEF Reaches
<1> QED BY <1>2, <1>3, <1>4, <1>5 DEF Severities, Serious

\* OSV's advisories that block are malicious packages, for good, and the serious ones
\* with a fix.
LEMMA OsvBlocks ==
  ASSUME NEW report, \A v \in report : /\ v.malicious \in BOOLEAN /\ v.fix \in BOOLEAN
                                       /\ v.scores \subseteq Nat
  PROVE  LET F == EvaluateOsv(SourcePolicy, report)
         IN /\ (\E d \in F : HardBlock(d)) <=> \E v \in report : v.malicious
            /\ (\E d \in F : SoftBlock(d)) <=>
                 \E v \in report :
                   /\ ~v.malicious /\ v.fix
                   /\ v.scores = {} \/ \E s \in v.scores : s >= SourcePolicy.thresholds.high
<1> DEFINE High(v) == v.scores = {} \/ \E s \in v.scores : s >= SourcePolicy.thresholds.high
           rule(v) == Graded("dependencies", OsvSeverity(SourcePolicy, v.scores), FixSuffix(v.fix))
           D(v) == Added(SourcePolicy, "osv-scanner", v.id, IF v.malicious THEN Malicious ELSE rule(v))
<1>1. ASSUME NEW v \in report
      PROVE  /\ HardBlock(D(v)) <=> v.malicious
             /\ SoftBlock(D(v)) <=> ~v.malicious /\ v.fix /\ High(v)
  <2>1. CASE v.malicious
    <3>1. D(v) = Added(SourcePolicy, "osv-scanner", v.id, Malicious)
      BY <2>1
    <3> HIDE DEF D, High
    <3> QED BY <2>1, <3>1, MaliciousBlocks
  <2>2. CASE ~v.malicious
    <3>1. /\ OsvSeverity(SourcePolicy, v.scores) \in Severities
          /\ OsvSeverity(SourcePolicy, v.scores) \in Serious <=> High(v)
      BY OsvSeriousness
    <3>2. D(v) = Added(SourcePolicy, "osv-scanner", v.id, rule(v))
      BY <2>2
    <3>3. rule(v) \in SourceRules
      BY <3>1, GradedRule DEF FixSuffix
    <3>4. rule(v) \notin HardRules
      BY <3>1, GradedBlocks
    <3> HIDE DEF High
    <3>5. rule(v) \in EligibleRules <=> High(v) /\ v.fix
      BY <3>1, <3>4, GradedBlocks
    <3> HIDE DEF D, rule
    <3> QED BY <2>2, <3>2, <3>3, <3>4, <3>5, AddedBlocks
  <2> QED BY <2>1, <2>2
<1>2. EvaluateOsv(SourcePolicy, report) = {D(v) : v \in report}
  BY DEF EvaluateOsv
<1> HIDE DEF D
<1> QED BY <1>1, <1>2

\* A finite set's sequence lists each member once.
LEMMA SequenceOfSet ==
  ASSUME NEW S, IsFiniteSet(S)
  PROVE  /\ Cardinality(S) \in Nat
         /\ SetToSeq(S) \in [1..Cardinality(S) -> S]
         /\ IsInjective(SetToSeq(S))
         /\ \A x \in S : \E i \in 1..Cardinality(S) : SetToSeq(S)[i] = x
<1> DEFINE n == Cardinality(S)
<1>1. n \in Nat /\ ExistsBijection(1..n, S)
  BY FS_CardinalityType
<1>2. PICK g : g \in Bijection(1..n, S)
  BY <1>1 DEF ExistsBijection
<1>3. g \in [1..n -> S] /\ IsInjective(g)
  BY <1>2 DEF Bijection, Injection
<1>4. SetToSeq(S) \in [1..n -> S] /\ IsInjective(SetToSeq(S))
  BY <1>3 DEF SetToSeq
<1>5. SetToSeq(S) \in Injection(1..n, S)
  BY <1>4 DEF Injection
<1>6. Cardinality(1..n) = n /\ IsFiniteSet(1..n)
  BY <1>1, FS_Interval
<1>7. SetToSeq(S) \in Surjection(1..n, S)
  <2> HIDE DEF n
  <2>1. Cardinality(1..n) = Cardinality(S)
    BY <1>6 DEF n
  <2> QED BY <1>5, <2>1, FS_Injection
<1> QED BY <1>1, <1>4, <1>7 DEF Surjection

\* The packages that a report lists twice over are found once each, where no two of
\* them have the same name and advisory.
LEMMA ListedTwice ==
  ASSUME NEW S, IsFiniteSet(S),
         \A p, q \in S : p.package = q.package /\ p.id = q.id => p = q
  PROVE  /\ SetToSeq(S) \o SetToSeq(S) \in Seq(S)
         /\ FirstListed(SetToSeq(S) \o SetToSeq(S)) = S
<1> DEFINE n == Cardinality(S)
           s == SetToSeq(S)
           l == s \o s
<1>1. n \in Nat /\ s \in [1..n -> S] /\ IsInjective(s)
      /\ \A x \in S : \E i \in 1..n : s[i] = x
  BY SequenceOfSet
<1> HIDE DEF n, s
<1>2. s \in Seq(S) /\ Len(s) = n
  BY <1>1
<1>3. /\ l \in Seq(S) /\ Len(l) = n + n
      /\ \A i \in 1..(n + n) : l[i] = IF i <= n THEN s[i] ELSE s[i - n]
  BY <1>2, ConcatProperties
<1> HIDE DEF l
<1>4. FirstListed(l) \subseteq S
  BY <1>3, ElementOfSeq DEF FirstListed
<1>5. ASSUME NEW x \in S PROVE x \in FirstListed(l)
  <2>1. PICK i \in 1..n : s[i] = x
    BY <1>1
  <2>2. i \in 1..Len(l) /\ l[i] = x
    BY <1>1, <1>3, <2>1
  <2>3. ASSUME NEW k \in 1..(i - 1) PROVE l[k].id # l[i].id \/ l[k].package # l[i].package
    <3>1. k \in 1..n /\ k # i /\ l[k] = s[k]
      BY <1>1, <1>3
    <3>2. s[k] # s[i] /\ s[k] \in S
      BY <1>1, <3>1 DEF IsInjective
    <3> QED BY <2>1, <2>2, <3>1, <3>2
  <2> QED BY <2>2, <2>3 DEF FirstListed
<1> QED BY <1>3, <1>4, <1>5 DEF l, s

\* Every advisory of pip-audit is high: those with a fix block, and malicious packages
\* block for good.
LEMMA PipBlocks ==
  ASSUME NEW report,
         \A v \in FirstListed(report) : v.malicious \in BOOLEAN /\ v.fix \in BOOLEAN
  PROVE  LET F == EvaluatePipAudit(SourcePolicy, report)
         IN /\ (\E d \in F : HardBlock(d)) <=> \E v \in FirstListed(report) : v.malicious
            /\ (\E d \in F : SoftBlock(d)) <=>
                 \E v \in FirstListed(report) : ~v.malicious /\ v.fix
<1> DEFINE rule(v) == Graded("dependencies", "high", FixSuffix(v.fix))
           D(v) == Added(SourcePolicy, "pip-audit", v.id, IF v.malicious THEN Malicious ELSE rule(v))
<1>1. ASSUME NEW v \in FirstListed(report)
      PROVE  /\ HardBlock(D(v)) <=> v.malicious
             /\ SoftBlock(D(v)) <=> ~v.malicious /\ v.fix
  <2>1. CASE v.malicious
    <3>1. D(v) = Added(SourcePolicy, "pip-audit", v.id, Malicious)
      BY <2>1
    <3> HIDE DEF D
    <3> QED BY <2>1, <3>1, MaliciousBlocks
  <2>2. CASE ~v.malicious
    <3>1. "high" \in Severities /\ "high" \in Serious
      BY DEF Severities, Serious
    <3>2. D(v) = Added(SourcePolicy, "pip-audit", v.id, rule(v))
      BY <2>2
    <3>3. rule(v) \in SourceRules
      BY <3>1, GradedRule DEF FixSuffix
    <3>4. rule(v) \notin HardRules
      BY <3>1, GradedBlocks
    <3>5. rule(v) \in EligibleRules <=> v.fix
      BY <3>1, <3>4, GradedBlocks
    <3> HIDE DEF D, rule
    <3> QED BY <2>2, <3>2, <3>3, <3>4, <3>5, AddedBlocks
  <2> QED BY <2>1, <2>2
<1>2. EvaluatePipAudit(SourcePolicy, report) = {D(v) : v \in FirstListed(report)}
  BY DEF EvaluatePipAudit
<1> HIDE DEF D
<1> QED BY <1>1, <1>2

\* Of the code findings, the serious ones that are not in the baseline block; all may be
\* lifted.
LEMMA SemgrepBlocks ==
  ASSUME NEW report, NEW known,
         \A f \in report.results : f.severity \in Severities \cup DOMAIN SemgrepSeverities
  PROVE  LET F == EvaluateSemgrep(SourcePolicy, report, known)
         IN /\ \A d \in F : ~HardBlock(d)
            /\ (\E d \in F : SoftBlock(d)) <=>
                 \E f \in report.results :
                   /\ f.severity \in {"critical", "high", "ERROR"}
                   /\ SemgrepFingerprint(f) \notin known.fingerprints
<1> DEFINE severity(f) == SemgrepSeverity(SourcePolicy, f.severity)
           suffix(f) == IF SemgrepFingerprint(f) \in known.fingerprints THEN "existing" ELSE "new"
           rule(f) == Graded("sast", severity(f), suffix(f))
           D(f) == Added(SourcePolicy, "semgrep", f.check, rule(f))
           New(f) == /\ f.severity \in {"critical", "high", "ERROR"}
                     /\ SemgrepFingerprint(f) \notin known.fingerprints
<1>1. ASSUME NEW f \in report.results
      PROVE  ~HardBlock(D(f)) /\ (SoftBlock(D(f)) <=> New(f))
  <2>1. /\ severity(f) \in Severities
        /\ severity(f) \in Serious <=> f.severity \in {"critical", "high", "ERROR"}
    <3>1. SourcePolicy.semgrep = SemgrepSeverities
      BY PullRequestAssumption
    <3>2. DOMAIN SemgrepSeverities = {"ERROR", "WARNING", "INFO"}
          /\ SemgrepSeverities["ERROR"] = "high" /\ SemgrepSeverities["WARNING"] = "medium"
          /\ SemgrepSeverities["INFO"] = "low"
      BY DEF SemgrepSeverities
    <3>3. CASE f.severity \in Severities
      BY <3>3 DEF SemgrepSeverity, Severities, Serious
    <3>4. CASE f.severity \in {"ERROR", "WARNING", "INFO"}
      <4>1. severity(f) = NormalizeSeverity(SemgrepSeverities[f.severity])
        BY <3>1, <3>4 DEF SemgrepSeverity, Severities
      <4>2. /\ NormalizeSeverity("high") = "high" /\ NormalizeSeverity("medium") = "medium"
            /\ NormalizeSeverity("low") = "low"
        BY DEF NormalizeSeverity
      <4> HIDE DEF severity
      <4> QED BY <3>2, <3>4, <4>1, <4>2 DEF Severities, Serious
    <3> QED BY <3>2, <3>3, <3>4
  <2>2. suffix(f) \in {"new", "existing"}
        /\ (suffix(f) = "new" <=> SemgrepFingerprint(f) \notin known.fingerprints)
    OBVIOUS
  <2> HIDE DEF severity, suffix
  <2>3. rule(f) \in SourceRules
    BY <2>1, <2>2, GradedRule
  <2>4. rule(f) \notin HardRules
    BY <2>1, GradedBlocks
  <2>5. rule(f) \in EligibleRules <=> severity(f) \in Serious /\ suffix(f) = "new"
    BY <2>1, <2>2, <2>4, GradedBlocks
  <2> HIDE DEF rule
  <2> QED BY <2>1, <2>2, <2>3, <2>4, <2>5, AddedBlocks
<1>2. EvaluateSemgrep(SourcePolicy, report, known) = {D(f) : f \in report.results}
  BY DEF EvaluateSemgrep
<1> HIDE DEF D
<1> QED BY <1>1, <1>2

-----------------------------------------------------------------------------
(* The gate on the reports of a tree *)

\* The verdict and the eligibility of the findings are those of what blocks in them.
LEMMA ResultBlocks ==
  ASSUME NEW F, NEW trusted, NEW result, result = SourceResult(F, trusted)
  PROVE  /\ result.trusted = trusted
         /\ result.verdict = "BLOCK" <=> (\E d \in F : SoftBlock(d)) \/ (\E d \in F : HardBlock(d))
         /\ result.eligible <=> (\E d \in F : SoftBlock(d)) /\ ~\E d \in F : HardBlock(d)
<1>1. /\ SourceResult(F, trusted).trusted = trusted
      /\ SourceResult(F, trusted).verdict = SourceVerdict(F)
      /\ SourceResult(F, trusted).eligible
           <=> Blocked(F) # {} /\ \A f \in Blocked(F) : IsEligible(f.rule)
  BY DEF SourceResult
<1>2. Blocked(F) # {} <=> (\E d \in F : SoftBlock(d)) \/ \E d \in F : HardBlock(d)
  BY DEF Blocked, SoftBlock, HardBlock
<1>3. SourceVerdict(F) = "BLOCK" <=> Blocked(F) # {}
  BY DEF SourceVerdict
<1>4. (\A f \in Blocked(F) : IsEligible(f.rule)) <=> ~\E d \in F : HardBlock(d)
  BY DEF Blocked, HardBlock
<1> QED BY <1>1, <1>2, <1>3, <1>4

\* A result without trust blocks and is not eligible.
LEMMA UntrustedBlocks ==
  ~UntrustedSource.trusted /\ UntrustedSource.verdict = "BLOCK" /\ ~UntrustedSource.eligible
<1> DEFINE f == [source |-> "security-gate", id |-> "report-integrity",
                 rule |-> <<"gate", <<"report_integrity", "">> >>, action |-> "BLOCK"]
<1>1. HardBlock(f)
  BY DEF HardBlock, IsEligible
<1>2. UntrustedSource = SourceResult({f}, FALSE)
  BY DEF UntrustedSource
<1> HIDE DEF f
<1>3. \E d \in {f} : HardBlock(d)
  BY <1>1
<1>4. ASSUME NEW F, F = {f}, NEW trusted, trusted = FALSE, NEW result, result = UntrustedSource
      PROVE  ~result.trusted /\ result.verdict = "BLOCK" /\ ~result.eligible
  <2>1. result = SourceResult(F, trusted)
    BY <1>2, <1>4
  <2>2. \E d \in F : HardBlock(d)
    BY <1>3, <1>4
  <2> QED BY <1>4, <2>1, <2>2, ResultBlocks
<1> QED BY <1>4

\* A baseline that was generated from the findings it accepts.
GeneratedBaseline(b) ==
  b \in Baselines /\ b.fingerprints = {BaselineFingerprint(f) : f \in b.accepted}

\* The source gate's result on a run's tree.
GateOf(run, bad) ==
  RunSecurityGate(SourcePolicy, run.tree.manifests, SourceReports(run, bad))

\* The packages of an ecosystem are packages of the tree.
LEMMA EcosystemPackages ==
  ASSUME NEW run, run.tree \in Trees, NEW e
  PROVE  /\ OfEcosystem(run, e) \in SUBSET AllPackages
         /\ OfEcosystem(run, e) \subseteq run.tree.packages
         /\ IsFiniteSet(OfEcosystem(run, e))
         /\ Cardinality(OfEcosystem(run, e)) \in Nat
<1>1. OfEcosystem(run, e) \in SUBSET run.tree.packages
  BY DEF OfEcosystem
<1>2. run.tree.packages \subseteq AllPackages
  BY DEF AllPackages
<1>3. IsFiniteSet(run.tree.packages)
  BY TreesAssumption
<1> QED BY <1>1, <1>2, <1>3, FS_Subset, FS_CardinalityType

\* A scan reports code findings of the tree.
LEMMA SemgrepType ==
  ASSUME NEW run, run.tree \in Trees, NEW bad
  PROVE  /\ SemgrepReport(run, bad) \in [errors : BOOLEAN, results : SUBSET AllCode]
         /\ SemgrepReport(run, bad).errors <=> bad = "semgrep"
         /\ bad # "semgrep" => SemgrepReport(run, bad).results = Scanned(run)
         /\ Scanned(run) \subseteq run.tree.code
<1>1. Scanned(run) \subseteq run.tree.code /\ run.tree.code \subseteq AllCode
  BY DEF Scanned, AllCode
<1> QED BY <1>1 DEF SemgrepReport

\* Every report of a tree is there, unless it is bad or not asked for.
LEMMA ReportsAreReadable ==
  ASSUME NEW run, run.tree \in Trees, run.baseline \in Baselines, NEW bad, bad # "osv"
  PROVE  Readable(SourceReports(run, bad), run.tree.manifests)
<1> DEFINE m == run.tree.manifests
<1> SUFFICES ASSUME NEW r, r = SourceReports(run, bad) PROVE Readable(r, m)
  OBVIOUS
<1>1. /\ r.gitleaks \in SUBSET [id : SecretIds, demo : BOOLEAN]
      /\ r.trufflehog \in SUBSET [id : SecretIds, verified : BOOLEAN]
  <2>1. \A s \in run.tree.secrets : s.id \in SecretIds
    BY DEF SecretIds
  <2>2. ASSUME NEW f \in r.gitleaks PROVE f \in [id : SecretIds, demo : BOOLEAN]
    <3>1. PICK s \in run.tree.secrets : f = [id |-> s.id, demo |-> s.kind = "demo"]
      BY DEF SourceReports
    <3> QED BY <2>1, <3>1
  <2>3. ASSUME NEW f \in r.trufflehog PROVE f \in [id : SecretIds, verified : BOOLEAN]
    <3>1. PICK s \in run.tree.secrets : f = [id |-> s.id, verified |-> s.kind = "verified"]
      BY DEF SourceReports
    <3> QED BY <2>1, <3>1
  <2> QED BY <2>2, <2>3
<1>2. "npm" \in m => r.npm \in [total : Nat, vulnerabilities : SUBSET AllPackages]
  BY EcosystemPackages DEF SourceReports
<1>3. "pip" \in m => r.pip \in Seq(AllPackages)
  <2> DEFINE S == OfEcosystem(run, "pip")
  <2>1. IsFiniteSet(S) /\ S \in SUBSET AllPackages /\ S \subseteq run.tree.packages
    BY EcosystemPackages
  <2>2. \A p, q \in S : p.package = q.package /\ p.id = q.id => p = q
    BY <2>1, TreesAssumption
  <2>3. "pip" \in m => r.pip = SetToSeq(S) \o SetToSeq(S)
    BY DEF SourceReports
  <2> HIDE DEF S
  <2>4. SetToSeq(S) \o SetToSeq(S) \in Seq(S)
    BY <2>1, <2>2, ListedTwice
  <2> QED BY <2>1, <2>3, <2>4, SeqMonotonic
<1>4. r.osv \in SUBSET AllPackages
  BY DEF SourceReports, AllPackages
<1>5. r.semgrep \in [errors : BOOLEAN, results : SUBSET AllCode]
  BY SemgrepType DEF SourceReports
<1>6. r.baseline \in Baselines
  BY DEF SourceReports
<1>7. /\ "npm" \notin m => r.npm = Absent
      /\ "pip" \notin m => r.pip = Absent
  BY DEF SourceReports
<1>8. DOMAIN r = {"gitleaks", "trufflehog", "npm", "pip", "osv", "semgrep", "baseline"}
  BY DEF SourceReports
<1>9. Absent # NoReport
  BY NoReportAssumption
<1>10. \A s \in DOMAIN r : r[s] # NoReport
  BY <1>1, <1>2, <1>3, <1>4, <1>5, <1>6, <1>7, <1>8, <1>9, NoReportAssumption
<1>11. \A s \in {"gitleaks", "trufflehog", "osv", "semgrep", "baseline"} : r[s] # Absent
  BY <1>1, <1>4, <1>5, <1>6, NoReportAssumption
<1>12. \A s \in m \cap DOMAIN r : r[s] # Absent
  BY <1>2, <1>3, <1>8, <1>11, TreesAssumption, NoReportAssumption
<1> QED BY <1>8, <1>10, <1>11, <1>12 DEF Readable, RequiredReports

\* The verdict that the source gate should give on a run's tree (VerdictIsDeserved).
Deserved(run, bad, result) ==
  LET liftable == NewCode(run) \cup Fixable(run)
  IN IF bad = "none"
     THEN /\ result.trusted
          /\ result.verdict = "BLOCK" <=> liftable \cup NeverLifted(run) # {}
          /\ result.eligible <=> liftable # {} /\ NeverLifted(run) = {}
     ELSE ~result.trusted /\ result.verdict = "BLOCK" /\ ~result.eligible

\* The gate does not trust reports of which one is bad.
LEMMA BadIsUntrusted ==
  ASSUME NEW run, run.tree \in Trees, NEW bad \in BadScans,
         bad = "npm" => "npm" \in run.tree.manifests
  PROVE  GateOf(run, bad) = UntrustedSource
<1> DEFINE m == run.tree.manifests
<1> SUFFICES ASSUME NEW r, r = SourceReports(run, bad)
             PROVE  RunSecurityGate(SourcePolicy, m, r) = UntrustedSource
  BY DEF GateOf
<1>1. CASE bad = "semgrep"
  <2>1. r.semgrep.errors
    BY <1>1, SemgrepType DEF SourceReports
  <2>2. ~SemgrepIsSound(SourcePolicy, r.semgrep, r.baseline)
    BY <2>1 DEF SemgrepIsSound
  <2> QED BY <2>2 DEF RunSecurityGate
<1>2. CASE bad = "osv"
  <2>1. "osv" \in DOMAIN r /\ r["osv"] = NoReport
    BY <1>2 DEF SourceReports
  <2>2. ~Readable(r, m)
    BY <2>1 DEF Readable
  <2> QED BY <2>2 DEF RunSecurityGate
<1>3. CASE bad = "npm"
  <2> DEFINE S == OfEcosystem(run, "npm")
  <2>1. Cardinality(S) \in Nat /\ S \in SUBSET AllPackages
    BY EcosystemPackages
  <2>2. r.npm = [total |-> Cardinality(S) + 1, vulnerabilities |-> S]
    BY <1>3 DEF SourceReports
  <2> HIDE DEF S
  <2>3. ~NpmIsSound(r.npm)
    BY <2>1, <2>2 DEF NpmIsSound
  <2>4. r.npm \in [total : Nat, vulnerabilities : SUBSET AllPackages]
    BY <2>1, <2>2
  <2>5. r.npm # Absent
    BY <2>4, NoReportAssumption
  <2> QED BY <2>3, <2>5 DEF RunSecurityGate
<1> QED BY <1>1, <1>2, <1>3 DEF BadScans

\* The findings of the five evaluators.
GateFindings(r) ==
  EvaluateSecrets(SourcePolicy, r.gitleaks, r.trufflehog)
  \cup (IF r.npm = Absent THEN {} ELSE EvaluateNpmAudit(SourcePolicy, r.npm))
  \cup (IF r.pip = Absent THEN {} ELSE EvaluatePipAudit(SourcePolicy, r.pip))
  \cup EvaluateOsv(SourcePolicy, r.osv)
  \cup EvaluateSemgrep(SourcePolicy, r.semgrep, r.baseline)

\* Good reports are trusted.
LEMMA GoodIsTrusted ==
  ASSUME NEW run, run.tree \in Trees, run.baseline \in Baselines
  PROVE  GateOf(run, "none") = SourceResult(GateFindings(SourceReports(run, "none")), TRUE)
<1> DEFINE m == run.tree.manifests
<1> SUFFICES ASSUME NEW r, r = SourceReports(run, "none")
             PROVE  RunSecurityGate(SourcePolicy, m, r) = SourceResult(GateFindings(r), TRUE)
  BY DEF GateOf
<1>1. ValidatePolicy(SourcePolicy)
  BY PullRequestAssumption
<1>2. Readable(r, m)
  BY ReportsAreReadable
<1>3. r.npm # Absent => NpmIsSound(r.npm)
  <2> DEFINE S == OfEcosystem(run, "npm")
  <2>1. Cardinality(S) \in Nat /\ S \subseteq run.tree.packages
    BY EcosystemPackages
  <2>2. \A p \in S : NormalizeSeverity(p.severity) \in Severities
    BY <2>1, TreesAssumption DEF OfEcosystem
  <2>3. r.npm # Absent => r.npm = [total |-> Cardinality(S) + 0, vulnerabilities |-> S]
    BY DEF SourceReports
  <2> HIDE DEF S
  <2> QED BY <2>1, <2>2, <2>3 DEF NpmIsSound
<1>4. OsvIsSound(r.osv)
  BY TreesAssumption DEF SourceReports, OsvIsSound
<1>5. SemgrepIsSound(SourcePolicy, r.semgrep, r.baseline)
  <2>1. r.semgrep = SemgrepReport(run, "none") /\ r.baseline = run.baseline
    BY DEF SourceReports
  <2>2. ~r.semgrep.errors /\ r.semgrep.results \subseteq run.tree.code
    BY <2>1, SemgrepType
  <2>3. r.baseline.schemaVersion = 1
    BY <2>1 DEF Baselines
  <2>4. \A f \in r.semgrep.results : f.severity \in Severities \cup DOMAIN SourcePolicy.semgrep
    BY <2>2, TreesAssumption, PullRequestAssumption
  <2> QED BY <2>2, <2>3, <2>4 DEF SemgrepIsSound
<1> QED BY <1>1, <1>2, <1>3, <1>4, <1>5 DEF RunSecurityGate, GateFindings

\* What blocks among them.
LEMMA FindingsBlock ==
  ASSUME NEW run, run.tree \in Trees, GeneratedBaseline(run.baseline),
         NEW r, r = SourceReports(run, "none")
  PROVE  /\ (\E d \in GateFindings(r) : HardBlock(d)) <=> NeverLifted(run) # {}
         /\ NewCode(run) \cup Fixable(run) # {} => \E d \in GateFindings(r) : SoftBlock(d)
         /\ (\E d \in GateFindings(r) : SoftBlock(d)) =>
              NewCode(run) \cup Fixable(run) \cup NeverLifted(run) # {}
<1> DEFINE m == run.tree.manifests
           packages == run.tree.packages
           Npm == OfEcosystem(run, "npm")
           Pip == OfEcosystem(run, "pip")
           High(p) == p.scores = {} \/ \E s \in p.scores : s >= SourcePolicy.thresholds.high
           A == EvaluateSecrets(SourcePolicy, r.gitleaks, r.trufflehog)
           B == IF r.npm = Absent THEN {} ELSE EvaluateNpmAudit(SourcePolicy, r.npm)
           C == IF r.pip = Absent THEN {} ELSE EvaluatePipAudit(SourcePolicy, r.pip)
           D == EvaluateOsv(SourcePolicy, r.osv)
           E == EvaluateSemgrep(SourcePolicy, r.semgrep, r.baseline)
<1>1. /\ Npm = {p \in packages : p.ecosystem = "npm"}
      /\ Pip = {p \in packages : p.ecosystem = "pip"}
  BY DEF OfEcosystem
<1>2. \A p \in packages : /\ p.malicious \in BOOLEAN /\ p.fix \in BOOLEAN /\ p.scores \subseteq Nat
                          /\ p.ecosystem = "npm" => NormalizeSeverity(p.severity) \in Severities
  BY TreesAssumption
<1>3. /\ \A d \in A : ~SoftBlock(d)
      /\ (\E d \in A : HardBlock(d))
           <=> \E s \in run.tree.secrets : s.kind \in {"verified", "demo"}
  <2>1. ASSUME NEW f \in r.gitleaks
        PROVE  /\ f.demo \in BOOLEAN
               /\ f.demo => \E s \in run.tree.secrets : s.kind = "demo"
    <3>1. PICK s \in run.tree.secrets : f = [id |-> s.id, demo |-> s.kind = "demo"]
      BY DEF SourceReports
    <3> QED BY <3>1
  <2>2. ASSUME NEW f \in r.trufflehog
        PROVE  /\ f.verified \in BOOLEAN
               /\ f.verified => \E s \in run.tree.secrets : s.kind = "verified"
    <3>1. PICK s \in run.tree.secrets : f = [id |-> s.id, verified |-> s.kind = "verified"]
      BY DEF SourceReports
    <3> QED BY <3>1
  <2>3. ASSUME NEW s \in run.tree.secrets, s.kind = "demo" PROVE \E f \in r.gitleaks : f.demo
    <3>1. [id |-> s.id, demo |-> s.kind = "demo"] \in r.gitleaks
      BY <2>3 DEF SourceReports
    <3> QED BY <2>3, <3>1
  <2>4. ASSUME NEW s \in run.tree.secrets, s.kind = "verified"
        PROVE  \E f \in r.trufflehog : f.verified
    <3>1. [id |-> s.id, verified |-> s.kind = "verified"] \in r.trufflehog
      BY <2>4 DEF SourceReports
    <3> QED BY <2>4, <3>1
  <2>5. (\E f \in r.gitleaks : f.demo) \/ (\E f \in r.trufflehog : f.verified)
          <=> \E s \in run.tree.secrets : s.kind \in {"verified", "demo"}
    BY <2>1, <2>2, <2>3, <2>4
  <2>6. /\ \A d \in A : ~SoftBlock(d)
        /\ (\E d \in A : HardBlock(d))
             <=> (\E f \in r.gitleaks : f.demo) \/ (\E f \in r.trufflehog : f.verified)
    BY <2>1, <2>2, SecretsBlock
  <2> HIDE DEF A
  <2> QED BY <2>5, <2>6
<1>4. /\ \A d \in B : ~HardBlock(d)
      /\ (\E d \in B : SoftBlock(d))
           <=> "npm" \in m /\ \E p \in Npm : p.fix /\ p.severity \in Serious
  <2>1. CASE "npm" \notin m
    <3>1. r.npm = Absent
      BY <2>1 DEF SourceReports
    <3> QED BY <2>1, <3>1
  <2>2. CASE "npm" \in m
    <3> HIDE DEF Npm
    <3>1. r.npm = [total |-> Cardinality(Npm) + 0, vulnerabilities |-> Npm]
      BY <2>2 DEF SourceReports, Npm
    <3>2. Cardinality(Npm) \in Nat /\ Npm \in SUBSET AllPackages
      BY EcosystemPackages DEF Npm
    <3>3. r.npm \in [total : Nat, vulnerabilities : SUBSET AllPackages]
      BY <3>1, <3>2
    <3>4. r.npm # Absent
      BY <3>3, NoReportAssumption
    <3>5. B = EvaluateNpmAudit(SourcePolicy, r.npm) /\ r.npm.vulnerabilities = Npm
      BY <3>1, <3>4
    <3>6. \A v \in r.npm.vulnerabilities :
            v.fix \in BOOLEAN /\ NormalizeSeverity(v.severity) \in Severities
      BY <1>1, <1>2, <3>5
    <3> HIDE DEF B
    <3> QED BY <2>2, <3>5, <3>6, NpmBlocks
  <2> QED BY <2>1, <2>2
<1>5. /\ (\E d \in C : HardBlock(d)) <=> "pip" \in m /\ \E p \in Pip : p.malicious
      /\ (\E d \in C : SoftBlock(d)) <=> "pip" \in m /\ \E p \in Pip : ~p.malicious /\ p.fix
  <2>1. CASE "pip" \notin m
    <3>1. r.pip = Absent
      BY <2>1 DEF SourceReports
    <3> QED BY <2>1, <3>1
  <2>2. CASE "pip" \in m
    <3>1. r.pip = SetToSeq(Pip) \o SetToSeq(Pip)
      BY <2>2 DEF SourceReports
    <3>2. IsFiniteSet(Pip) /\ Pip \subseteq packages /\ Pip \in SUBSET AllPackages
      BY EcosystemPackages
    <3>3. \A p, q \in Pip : p.package = q.package /\ p.id = q.id => p = q
      BY <3>2, TreesAssumption
    <3> HIDE DEF Pip
    <3>4. r.pip \in Seq(Pip) /\ FirstListed(r.pip) = Pip
      BY <3>1, <3>2, <3>3, ListedTwice
    <3>5. r.pip \in Seq(AllPackages)
      BY <3>2, <3>4, SeqMonotonic
    <3>6. r.pip # Absent
      BY <3>5, NoReportAssumption
    <3>7. C = EvaluatePipAudit(SourcePolicy, r.pip)
      BY <3>6
    <3>8. \A v \in FirstListed(r.pip) : v.malicious \in BOOLEAN /\ v.fix \in BOOLEAN
      BY <1>2, <3>2, <3>4
    <3> HIDE DEF C
    <3> QED BY <2>2, <3>4, <3>7, <3>8, PipBlocks
  <2> QED BY <2>1, <2>2
<1>6. /\ (\E d \in D : HardBlock(d)) <=> \E p \in packages : p.malicious
      /\ (\E d \in D : SoftBlock(d)) <=> \E p \in packages : ~p.malicious /\ p.fix /\ High(p)
  <2>1. r.osv = packages
    BY DEF SourceReports
  <2> QED BY <1>2, <2>1, OsvBlocks
<1>7. /\ \A d \in E : ~HardBlock(d)
      /\ (\E d \in E : SoftBlock(d)) <=> NewCode(run) # {}
  <2>1. r.semgrep = SemgrepReport(run, "none") /\ r.baseline = run.baseline
    BY DEF SourceReports
  <2>2. r.semgrep.results = Scanned(run) /\ Scanned(run) \subseteq run.tree.code
    BY <2>1, SemgrepType
  <2>3. \A f \in r.semgrep.results : f.severity \in Severities \cup DOMAIN SemgrepSeverities
    BY <2>2, TreesAssumption
  <2>4. \A f : SemgrepFingerprint(f) \notin run.baseline.fingerprints <=>
               \A a \in run.baseline.accepted :
                 <<a.check, a.path, a.text>> # <<f.check, f.path, f.text>>
    BY DEF GeneratedBaseline, SemgrepFingerprint, BaselineFingerprint
  <2>5. NewCode(run) # {} <=>
          \E f \in Scanned(run) : /\ f.severity \in {"critical", "high", "ERROR"}
                                  /\ SemgrepFingerprint(f) \notin run.baseline.fingerprints
    BY <2>4 DEF NewCode
  <2> QED BY <2>1, <2>2, <2>3, <2>5, SemgrepBlocks
<1>8. GateFindings(r) = A \cup B \cup C \cup D \cup E
  BY DEF GateFindings
<1>9. NeverLifted(run) # {} <=> \/ \E s \in run.tree.secrets : s.kind \in {"verified", "demo"}
                               \/ \E p \in packages : p.malicious
  BY DEF NeverLifted
<1>10. Fixable(run) # {} <=>
         \E p \in packages :
           /\ ~p.malicious /\ p.fix
           /\ \/ High(p)
              \/ p.ecosystem = "npm" /\ "npm" \in m /\ p.severity \in Serious
              \/ p.ecosystem = "pip" /\ "pip" \in m
  BY DEF Fixable, Grave
<1> HIDE DEF A, B, C, D, E, High
<1>11. (\E d \in GateFindings(r) : HardBlock(d)) <=> NeverLifted(run) # {}
  BY <1>1, <1>3, <1>4, <1>5, <1>6, <1>7, <1>8, <1>9
<1>12. NewCode(run) \cup Fixable(run) # {} => \E d \in GateFindings(r) : SoftBlock(d)
  BY <1>1, <1>4, <1>5, <1>6, <1>7, <1>8, <1>10
<1>13. (\E d \in GateFindings(r) : SoftBlock(d)) =>
         NewCode(run) \cup Fixable(run) \cup NeverLifted(run) # {}
  BY <1>1, <1>3, <1>4, <1>5, <1>6, <1>7, <1>8, <1>9, <1>10
<1> QED BY <1>11, <1>12, <1>13

\* The gate gives the verdict that the tree deserves, or trusts nothing.
LEMMA GateIsDeserved ==
  ASSUME NEW run, run.tree \in Trees, GeneratedBaseline(run.baseline),
         NEW bad \in BadScans \cup {"none"}, bad = "npm" => "npm" \in run.tree.manifests
  PROVE  Deserved(run, bad, GateOf(run, bad))
<1>1. CASE bad = "none"
  <2> DEFINE F == GateFindings(SourceReports(run, "none"))
             liftable == NewCode(run) \cup Fixable(run)
  <2>1. GateOf(run, bad) = SourceResult(F, TRUE)
    BY <1>1, GoodIsTrusted DEF GeneratedBaseline
  <2>2. /\ (\E d \in F : HardBlock(d)) <=> NeverLifted(run) # {}
        /\ liftable # {} => \E d \in F : SoftBlock(d)
        /\ (\E d \in F : SoftBlock(d)) => liftable \cup NeverLifted(run) # {}
    BY FindingsBlock
  <2> HIDE DEF F, liftable
  <2>3. /\ GateOf(run, bad).trusted
        /\ GateOf(run, bad).verdict = "BLOCK"
             <=> (\E d \in F : SoftBlock(d)) \/ (\E d \in F : HardBlock(d))
        /\ GateOf(run, bad).eligible
             <=> (\E d \in F : SoftBlock(d)) /\ ~(\E d \in F : HardBlock(d))
    BY <2>1, ResultBlocks
  <2>4. liftable \cup NeverLifted(run) # {} <=> liftable # {} \/ NeverLifted(run) # {}
    OBVIOUS
  <2> QED BY <1>1, <2>2, <2>3, <2>4 DEF Deserved, liftable
<1>2. CASE bad # "none"
  <2>1. GateOf(run, bad) = UntrustedSource
    BY <1>2, BadIsUntrusted
  <2> QED BY <1>2, <2>1, UntrustedBlocks DEF Deserved
<1> QED BY <1>1, <1>2

-----------------------------------------------------------------------------
(* Sequences, of runs and of comments *)

IsSeq(s) == s \in Seq({s[i] : i \in 1..Len(s)})

\* What a sequence of anything is after an element is appended.
LEMMA Appended ==
  ASSUME NEW s, IsSeq(s), NEW e
  PROVE  /\ Len(s) \in Nat
         /\ IsSeq(Append(s, e))
         /\ Len(Append(s, e)) = Len(s) + 1
         /\ \A i \in 1..Len(s) : Append(s, e)[i] = s[i]
         /\ Append(s, e)[Len(s) + 1] = e
<1> DEFINE S == {s[i] : i \in 1..Len(s)}
           t == Append(s, e)
<1>1. s \in Seq(S)
  BY DEF IsSeq
<1> HIDE DEF S
<1>2. s \in Seq(S \cup {e})
  BY <1>1, SeqMonotonic
<1>3. /\ Len(t) = Len(s) + 1
      /\ \A i \in 1..Len(s) : t[i] = s[i]
      /\ t[Len(s) + 1] = e
      /\ t \in Seq(S \cup {e}) /\ Len(s) \in Nat
  BY <1>2, AppendProperties, LenProperties
<1> HIDE DEF t
<1> DEFINE T == {t[i] : i \in 1..Len(t)}
<1>4. t \in [1..Len(t) -> S \cup {e}] /\ Len(t) \in Nat
  BY <1>3, LenProperties
<1>5. t \in [1..Len(t) -> T]
  BY <1>4
<1> HIDE DEF T
<1>6. t \in Seq(T)
  BY <1>4, <1>5, SeqDef
<1> QED BY <1>3, <1>6 DEF t, T, IsSeq

\* What it is after an element is put in the place of another.
LEMMA Replaced ==
  ASSUME NEW s, IsSeq(s), NEW n \in 1..Len(s), NEW e
  PROVE  /\ IsSeq([s EXCEPT ![n] = e])
         /\ Len([s EXCEPT ![n] = e]) = Len(s)
         /\ [s EXCEPT ![n] = e][n] = e
         /\ \A i \in 1..Len(s) : i # n => [s EXCEPT ![n] = e][i] = s[i]
<1> DEFINE S == {s[i] : i \in 1..Len(s)}
           t == [s EXCEPT ![n] = e]
<1>1. s \in Seq(S)
  BY DEF IsSeq
<1> HIDE DEF S
<1>2. s \in Seq(S \cup {e})
  BY <1>1, SeqMonotonic
<1>3. /\ Len(t) = Len(s) /\ t \in Seq(S \cup {e})
      /\ \A i \in 1..Len(s) : t[i] = IF i = n THEN e ELSE s[i]
  BY <1>2, ExceptSeq
<1> HIDE DEF t
<1> DEFINE T == {t[i] : i \in 1..Len(t)}
<1>4. t \in [1..Len(t) -> S \cup {e}] /\ Len(t) \in Nat
  BY <1>3, LenProperties
<1>5. t \in [1..Len(t) -> T]
  BY <1>4
<1> HIDE DEF T
<1>6. t \in Seq(T)
  BY <1>4, <1>5, SeqDef
<1> QED BY <1>3, <1>6 DEF t, T, IsSeq

-----------------------------------------------------------------------------
(* The inductive invariant *)

JobFields == {"state", "mode", "result", "passes", "target", "delivered"}
RunFields ==
  {"tree", "scheduled", "incremental", "mode", "baseline", "alone", "badScan", "semgrep", "jobs"}

JobInv(job) ==
  /\ DOMAIN job = JobFields
  /\ job.state \in {"waiting", "judged", "listed", "ended", "skipped"}
  /\ job.mode \in Modes \cup {"none"}
  /\ job.passes \in BOOLEAN /\ job.delivered \in BOOLEAN /\ job.target \in {0, 1}
  /\ job.state \in {"waiting", "skipped"} => job.result = NoReport /\ ~job.passes
  /\ job.result # NoReport => job.mode \in Modes
  /\ job.delivered => job.state = "ended"

\* The source gate left the verdict that the tree deserves, or none, and
\* passes over what blocks in log-only mode or with somebody's approval.
SourceInv(run) ==
  LET job == run.jobs["source"]
  IN /\ job.result # NoReport => Deserved(run, run.badScan, job.result)
     /\ job.passes /\ Blocks("source", job) =>
          \/ job.mode = "log-only"
          \/ job.mode = "enforce" /\ job.result # NoReport /\ job.result.eligible

ImageInv(run) ==
  LET job == run.jobs["image"]
  IN /\ job.result \in {NoReport, RunImageGate("trivy", ImagePolicy, run.tree.trivy)}
     /\ job.passes /\ Blocks("image", job) => job.mode = "log-only"

RunInv(run) ==
  /\ DOMAIN run = RunFields /\ DOMAIN run.jobs = Gates
  /\ run.tree \in Trees /\ run.alone \in BOOLEAN /\ run.scheduled \in BOOLEAN
  /\ GeneratedBaseline(run.baseline)
  /\ run.badScan \in BadScans \cup {"none"}
  /\ run.semgrep \in [errors : BOOLEAN, results : SUBSET AllCode] \cup {NoReport}
  /\ \A g \in Gates : JobInv(run.jobs[g])
  /\ SourceInv(run) /\ ImageInv(run)

\* While a run is the last and has the pull request for itself, what it found
\* (a job that is to write a comment) or left there is its own.
Heard(job, n, cs) ==
  /\ job.state = "listed" /\ job.target = 0 => cs = <<>> \/ cs[1].run = n
  /\ job.delivered => IF cs = <<>> THEN Clean(job) ELSE cs[1].run = n

LastInv(rs, cs) ==
  rs # <<>> /\ rs[Len(rs)].alone =>
    /\ \A m \in 1..(Len(rs) - 1) : Over(rs[m])
    /\ ~rs[Len(rs)].scheduled =>
         \A g \in Gates : Heard(rs[Len(rs)].jobs[g], Len(rs), cs)

CommentsInv(rs, cs) ==
  /\ IsSeq(cs)
  /\ \A c \in 1..Len(cs) : cs[c].run \in 1..Len(rs) /\ cs[c].gate \in Gates
  /\ \A n \in 1..Len(rs), g \in Gates : rs[n].jobs[g].target = 1 => cs # <<>>

RunsInv(rs) ==
  IsSeq(rs) /\ Len(rs) =< MaxRuns /\ \A n \in 1..Len(rs) : RunInv(rs[n])

IInv ==
  /\ RunsInv(runs)
  /\ CommentsInv(runs, comments)
  /\ LastInv(runs, comments)
  /\ GeneratedBaseline(baseline)
  /\ faults \in 0..MaxFaults

-----------------------------------------------------------------------------
(* What a step does to the runs *)

\* A run after one of its jobs moved: the rest of it is as before.
Kin(run, g, new) ==
  /\ DOMAIN new = RunFields /\ DOMAIN new.jobs = Gates
  /\ new.tree = run.tree /\ new.alone = run.alone /\ new.scheduled = run.scheduled
  /\ new.incremental = run.incremental /\ new.baseline = run.baseline
  /\ \A h \in Gates : h # g => new.jobs[h] = run.jobs[h]

Moved(rs, n, g, new) ==
  /\ IsSeq(new) /\ Len(new) = Len(rs)
  /\ \A m \in 1..Len(rs) : m # n => new[m] = rs[m]
  /\ Kin(rs[n], g, new[n])

\* What a tree deserves depends on nothing that a step of a job changes.
LEMMA DeservedStays ==
  ASSUME NEW run, NEW g, NEW new, Kin(run, g, new), NEW bad, NEW result,
         Deserved(run, bad, result)
  PROVE  Deserved(new, bad, result)
<1>1. /\ new.tree = run.tree /\ new.incremental = run.incremental
      /\ new.baseline = run.baseline
  BY DEF Kin
<1>2. Scanned(new) = Scanned(run)
  BY <1>1 DEF Scanned
<1>3. NewCode(new) = NewCode(run)
  BY <1>1, <1>2 DEF NewCode
<1>4. Fixable(new) = Fixable(run)
  BY <1>1 DEF Fixable
<1>5. NeverLifted(new) = NeverLifted(run)
  BY <1>1 DEF NeverLifted
<1> QED BY <1>3, <1>4, <1>5, Zenon DEF Deserved

\* What SetJob makes of the runs.
JobSet(rs, n, g, job, new) == new = [rs EXCEPT ![n].jobs[g] = job]

\* It moves one job and leaves the scanners' part of the run alone.
LEMMA SetJobMoves ==
  ASSUME NEW rs, RunsInv(rs), NEW n \in 1..Len(rs), NEW g \in Gates, NEW job,
         NEW new, JobSet(rs, n, g, job, new)
  PROVE  /\ Moved(rs, n, g, new)
         /\ new[n].jobs[g] = job
         /\ new[n].badScan = rs[n].badScan /\ new[n].semgrep = rs[n].semgrep
<1> DEFINE run == rs[n]
           moved == [run EXCEPT !.jobs[g] = job]
<1>1. DOMAIN run = RunFields /\ DOMAIN run.jobs = Gates
  BY DEF RunsInv, RunInv
<1>2. new = [rs EXCEPT ![n] = moved]
  BY DEF JobSet
<1> HIDE DEF run
<1>3. /\ Kin(run, g, moved) /\ moved.jobs[g] = job
      /\ moved.badScan = run.badScan /\ moved.semgrep = run.semgrep
  BY <1>1 DEF Kin, RunFields
<1> HIDE DEF moved
<1>4. /\ IsSeq(new) /\ Len(new) = Len(rs) /\ new[n] = moved
      /\ \A m \in 1..Len(rs) : m # n => new[m] = rs[m]
  <2>1. IsSeq(rs)
    BY DEF RunsInv
  <2>2. \A e : /\ IsSeq([rs EXCEPT ![n] = e])
               /\ Len([rs EXCEPT ![n] = e]) = Len(rs)
               /\ [rs EXCEPT ![n] = e][n] = e
               /\ \A i \in 1..Len(rs) : i # n => [rs EXCEPT ![n] = e][i] = rs[i]
    BY <2>1, Replaced
  <2> QED BY <1>2, <2>2
<1> QED BY <1>3, <1>4 DEF Moved, run

\* The part of a run's invariant that is about one gate.
GateInv(run, g) ==
  /\ JobInv(run.jobs[g])
  /\ g = "source" => SourceInv(run)
  /\ g = "image" => ImageInv(run)

\* A run keeps its invariant when the job that moved has its own.
LEMMA KinKeeps ==
  ASSUME NEW run, RunInv(run), NEW g \in Gates, NEW new, Kin(run, g, new), GateInv(new, g),
         g = "image" => new.badScan = run.badScan,
         new.badScan \in BadScans \cup {"none"},
         new.semgrep \in [errors : BOOLEAN, results : SUBSET AllCode] \cup {NoReport}
  PROVE  RunInv(new)
<1>1. /\ new.tree = run.tree /\ new.alone = run.alone /\ new.scheduled = run.scheduled
      /\ new.baseline = run.baseline
      /\ DOMAIN new = RunFields /\ DOMAIN new.jobs = Gates
      /\ \A h \in Gates : h # g => new.jobs[h] = run.jobs[h]
  BY DEF Kin
<1>2. \A h \in Gates : JobInv(new.jobs[h])
  BY <1>1 DEF RunInv, GateInv
<1>3. SourceInv(new)
  <2>1. CASE g = "source"
    BY <2>1 DEF GateInv
  <2>2. CASE g = "image"
    <3>1. new.jobs["source"] = run.jobs["source"] /\ new.badScan = run.badScan
      BY <1>1, <2>2 DEF Gates
    <3>2. SourceInv(run)
      BY DEF RunInv
    <3> QED BY <3>1, <3>2, DeservedStays DEF SourceInv
  <2> QED BY <2>1, <2>2 DEF Gates
<1>4. ImageInv(new)
  <2>1. CASE g = "image"
    BY <2>1 DEF GateInv
  <2>2. CASE g = "source"
    <3>1. new.jobs["image"] = run.jobs["image"]
      BY <1>1, <2>2 DEF Gates
    <3>2. ImageInv(run)
      BY DEF RunInv
    <3> QED BY <1>1, <3>1, <3>2 DEF ImageInv
  <2> QED BY <2>1, <2>2 DEF Gates
<1> QED BY <1>1, <1>2, <1>3, <1>4 DEF RunInv

\* The runs keep their invariant when the one that moved has its own.
LEMMA MovedKeeps ==
  ASSUME NEW rs, RunsInv(rs), NEW n \in 1..Len(rs), NEW g, NEW new, Moved(rs, n, g, new),
         RunInv(new[n])
  PROVE  RunsInv(new)
BY DEF RunsInv, Moved

\* While a gate is at work, its run is the last, or the last is not alone.
LEMMA OnlyTheLastMoves ==
  ASSUME NEW rs, RunsInv(rs), NEW cs, LastInv(rs, cs), NEW n \in 1..Len(rs), NEW g \in Gates,
         rs[n].jobs[g].state \notin {"ended", "skipped"}, rs[Len(rs)].alone
  PROVE  n = Len(rs)
<1>1. Len(rs) \in Nat /\ rs # <<>>
  BY LenProperties DEF RunsInv, IsSeq
<1>2. ~Over(rs[n])
  BY DEF Over
<1> QED BY <1>1, <1>2 DEF LastInv

\* The last run's claim on the comment survives a move of a job that respects it.
LEMMA LastMoves ==
  ASSUME NEW rs, RunsInv(rs), NEW cs, LastInv(rs, cs), NEW n \in 1..Len(rs), NEW g \in Gates,
         rs[n].jobs[g].state \notin {"ended", "skipped"},
         NEW new, Moved(rs, n, g, new), NEW written,
         ~rs[n].scheduled /\ (\A h \in Gates : Heard(rs[n].jobs[h], n, cs)) =>
           \A h \in Gates : Heard(new[n].jobs[h], n, written)
  PROVE  LastInv(new, written)
<1> SUFFICES ASSUME new # <<>>, new[Len(new)].alone
             PROVE  /\ \A m \in 1..(Len(new) - 1) : Over(new[m])
                    /\ ~new[Len(new)].scheduled =>
                         \A h \in Gates : Heard(new[Len(new)].jobs[h], Len(new), written)
  BY DEF LastInv
<1>1. Len(rs) \in Nat /\ Len(new) = Len(rs) /\ rs # <<>>
  BY LenProperties DEF RunsInv, IsSeq, Moved
<1>2. rs[Len(rs)].alone
  BY <1>1 DEF Moved, Kin
<1>3. n = Len(rs)
  BY <1>2, OnlyTheLastMoves
<1>4. /\ \A m \in 1..(Len(rs) - 1) : Over(rs[m])
      /\ ~rs[n].scheduled => \A h \in Gates : Heard(rs[n].jobs[h], n, cs)
  BY <1>1, <1>2, <1>3 DEF LastInv
<1>5. /\ \A m \in 1..(Len(rs) - 1) : new[m] = rs[m]
      /\ new[n].scheduled = rs[n].scheduled
  BY <1>1, <1>3 DEF Moved, Kin
<1> QED BY <1>1, <1>3, <1>4, <1>5

\* A step of one job that writes no comment keeps the invariant's parts.
LEMMA JobStep ==
  ASSUME NEW rs, RunsInv(rs), NEW cs, CommentsInv(rs, cs), LastInv(rs, cs),
         NEW n \in 1..Len(rs), NEW g \in Gates,
         rs[n].jobs[g].state \notin {"ended", "skipped"},
         NEW new, Moved(rs, n, g, new), GateInv(new[n], g),
         g = "image" => new[n].badScan = rs[n].badScan,
         new[n].badScan \in BadScans \cup {"none"},
         new[n].semgrep \in [errors : BOOLEAN, results : SUBSET AllCode] \cup {NoReport},
         new[n].jobs[g].target = 1 => cs # <<>>,
         rs[n].scheduled \/ Heard(new[n].jobs[g], n, cs)
  PROVE  RunsInv(new) /\ CommentsInv(new, cs) /\ LastInv(new, cs)
<1>1. RunInv(rs[n]) /\ Kin(rs[n], g, new[n])
  BY DEF RunsInv, Moved
<1>2. RunInv(new[n])
  BY <1>1, KinKeeps
<1>3. RunsInv(new)
  BY <1>2, MovedKeeps
<1>4. CommentsInv(new, cs)
  BY DEF CommentsInv, Moved, Kin
<1>5. \A h \in Gates : h # g => new[n].jobs[h] = rs[n].jobs[h]
  BY <1>1 DEF Kin
<1>6. LastInv(new, cs)
  BY <1>5, LastMoves
<1> QED BY <1>3, <1>4, <1>6

\* A step meets a few kinds of fault at most, and no more than there may be.
LEMMA FaultsAreBounded ==
  ASSUME faults \in 0..MaxFaults, \E kinds : Meets(kinds)
  PROVE  faults' \in 0..MaxFaults
<1>1. PICK kinds : Meets(kinds)
  OBVIOUS
<1>2. IsFiniteSet(FaultKinds)
  <2>1. FaultKinds = {"scanner"} \cup {"crash"} \cup {"build"} \cup {"http"} \cup {"history"}
                     \cup {"mode"} \cup {"overlap"}
    BY DEF FaultKinds
  <2>2. \A x : IsFiniteSet({x})
    BY FS_Singleton
  <2> QED BY <2>1, <2>2, FS_Union, Zenon
<1>3. kinds \subseteq FaultKinds
  BY <1>1, PullRequestAssumption DEF Meets
<1>4. Cardinality(kinds) \in Nat
  BY <1>2, <1>3, FS_Subset, FS_CardinalityType
<1> QED BY <1>1, <1>4, PullRequestAssumption DEF Meets

\* What a gate leaves in its job.
LEMMA DoneFields ==
  ASSUME NEW g, NEW mode, NEW result, NEW tool \in BOOLEAN,
         NEW approved \in BOOLEAN, NEW job, job = Done(g, mode, result, tool, approved)
  PROVE  /\ DOMAIN job = JobFields /\ job.state = "judged" /\ job.mode = mode
         /\ job.result = result /\ job.target = 0 /\ ~job.delivered
         /\ job.passes \in BOOLEAN /\ job.delivered \in BOOLEAN
         /\ job.passes => tool /\ (Blocks(g, job) => mode = "log-only" \/ approved)
<1> DEFINE judged == [Waiting EXCEPT !.state = "judged", !.mode = mode, !.result = result]
           green == tool /\ (Blocks(g, judged) => mode = "log-only" \/ approved)
<1>1. job = [judged EXCEPT !.passes = green]
  BY DEF Done
<1>2. /\ DOMAIN judged = JobFields /\ judged.state = "judged" /\ judged.mode = mode
      /\ judged.result = result /\ judged.target = 0 /\ judged.delivered = FALSE
  BY DEF Waiting, JobFields
<1>3. green \in BOOLEAN
  OBVIOUS
<1> HIDE DEF judged, green
<1>4. /\ DOMAIN job = JobFields /\ job.state = "judged" /\ job.mode = mode
      /\ job.result = result /\ job.target = 0 /\ job.delivered = FALSE
      /\ job.passes = green
  BY <1>1, <1>2 DEF JobFields
<1>5. Blocks(g, job) <=> Blocks(g, judged)
  BY <1>2, <1>4 DEF Blocks, Verdict
<1> QED BY <1>3, <1>4, <1>5 DEF green

\* The source gate leaves what a tree deserves.
LEMMA SourceGateJudges ==
  ASSUME NEW run, RunInv(run), NEW bad \in BadScans \cup {"none"},
         NEW tool \in BOOLEAN, NEW approved \in BOOLEAN, NEW mode \in Modes,
         NEW result \in {NoReport, GateOf(run, bad)},
         bad = "npm" => "npm" \in run.tree.manifests,
         approved => result # NoReport /\ result.eligible /\ mode = "enforce",
         NEW new, Kin(run, "source", new), new.badScan = bad,
         new.jobs["source"] = Done("source", mode, result, tool, approved)
  PROVE  /\ GateInv(new, "source")
         /\ new.jobs["source"].state = "judged" /\ new.jobs["source"].target = 0
         /\ ~new.jobs["source"].delivered
<1> DEFINE job == new.jobs["source"]
<1>1. /\ DOMAIN job = JobFields /\ job.state = "judged" /\ job.mode = mode
      /\ job.result = result /\ job.target = 0 /\ ~job.delivered
      /\ job.passes \in BOOLEAN /\ job.delivered \in BOOLEAN
      /\ job.passes => tool /\ (Blocks("source", job) => mode = "log-only" \/ approved)
  BY DoneFields
<1>2. JobInv(job)
  BY <1>1 DEF JobInv
<1>3. result # NoReport => Deserved(new, bad, result)
  <2>1. run.tree \in Trees /\ GeneratedBaseline(run.baseline)
    BY DEF RunInv
  <2>2. result # NoReport => Deserved(run, bad, result)
    BY <2>1, GateIsDeserved
  <2> QED BY <2>2, DeservedStays
<1>4. SourceInv(new)
  BY <1>1, <1>3 DEF SourceInv
<1> QED BY <1>1, <1>2, <1>4 DEF GateInv

\* The image gate leaves its verdict on the image's report, or none.
LEMMA ImageGateJudges ==
  ASSUME NEW run, RunInv(run), NEW tool \in BOOLEAN, NEW mode \in Modes,
         NEW result \in {NoReport, RunImageGate("trivy", ImagePolicy, run.tree.trivy)},
         NEW new, Kin(run, "image", new),
         NEW approved \in BOOLEAN, ~approved,
         new.jobs["image"] = Done("image", mode, result, tool, approved)
  PROVE  /\ GateInv(new, "image")
         /\ new.jobs["image"].state = "judged" /\ new.jobs["image"].target = 0
         /\ ~new.jobs["image"].delivered
<1> DEFINE job == new.jobs["image"]
<1>1. /\ DOMAIN job = JobFields /\ job.state = "judged" /\ job.mode = mode
      /\ job.result = result /\ job.target = 0 /\ ~job.delivered
      /\ job.passes \in BOOLEAN /\ job.delivered \in BOOLEAN
      /\ job.passes => tool /\ (Blocks("image", job) => mode = "log-only" \/ approved)
  BY DoneFields
<1>2. JobInv(job)
  BY <1>1 DEF JobInv
<1>3. new.tree = run.tree
  BY DEF Kin
<1>4. ImageInv(new)
  BY <1>1, <1>3 DEF ImageInv
<1> QED BY <1>1, <1>2, <1>4 DEF GateInv

\* A job that listed or posted keeps what its gate left.
LEMMA PostingKeeps ==
  ASSUME NEW run, RunInv(run), NEW g \in Gates, NEW new, Kin(run, g, new),
         new.badScan = run.badScan,
         NEW job, job = new.jobs[g], NEW old, old = run.jobs[g],
         old.state \notin {"waiting", "skipped"},
         DOMAIN job = DOMAIN old, job.result = old.result, job.mode = old.mode,
         job.passes = old.passes, job.state \in {"listed", "ended"},
         job.delivered \in BOOLEAN, job.target \in {0, 1},
         job.delivered => job.state = "ended"
  PROVE  GateInv(new, g)
<1>1. JobInv(old) /\ SourceInv(run) /\ ImageInv(run)
  BY DEF RunInv
<1>2. JobInv(job)
  BY <1>1 DEF JobInv
<1>3. Blocks(g, job) <=> Blocks(g, old)
  BY DEF Blocks, Verdict
<1>4. ASSUME g = "source" PROVE SourceInv(new)
  <2>1. /\ old.result # NoReport => Deserved(run, run.badScan, old.result)
        /\ old.passes /\ Blocks("source", old) =>
             \/ old.mode = "log-only"
             \/ old.mode = "enforce" /\ old.result # NoReport /\ old.result.eligible
    BY <1>1, <1>4 DEF SourceInv
  <2>2. old.result # NoReport => Deserved(new, run.badScan, old.result)
    BY <2>1, DeservedStays
  <2> QED BY <1>3, <1>4, <2>1, <2>2 DEF SourceInv
<1>5. ASSUME g = "image" PROVE ImageInv(new)
  <2>1. new.tree = run.tree
    BY DEF Kin
  <2> QED BY <1>1, <1>3, <1>5, <2>1 DEF ImageInv
<1> QED BY <1>2, <1>4, <1>5 DEF GateInv

PutComment(cs, c, target, job) ==
  CASE target # 0 -> [cs EXCEPT ![target] = c]
    [] target = 0 /\ ~Clean(job) -> Append(cs, c)
    [] OTHER -> cs

\* What the comments are after a job wrote its own, in place of the one it found
\* or else after the others, unless it is clean.
LEMMA WrittenComments ==
  ASSUME NEW cs, IsSeq(cs), NEW c, NEW target \in {0, 1}, target = 1 => cs # <<>>,
         NEW job, NEW new, new = PutComment(cs, c, target, job)
  PROVE  /\ IsSeq(new)
         /\ \A i \in 1..Len(new) : new[i] = c \/ (i \in 1..Len(cs) /\ new[i] = cs[i])
         /\ cs # <<>> => new # <<>> /\ (new[1] = c \/ (target = 0 /\ new[1] = cs[1]))
         /\ cs = <<>> /\ Clean(job) => new = <<>>
         /\ cs = <<>> /\ ~Clean(job) => new # <<>> /\ new[1] = c
<1>1. Len(cs) \in Nat /\ (cs = <<>> <=> Len(cs) = 0)
  BY LenProperties, EmptySeq DEF IsSeq
<1>2. CASE target = 1
  <2>1. cs # <<>> /\ target \in 1..Len(cs)
    BY <1>1, <1>2
  <2>2. \A e : /\ IsSeq([cs EXCEPT ![target] = e]) /\ Len([cs EXCEPT ![target] = e]) = Len(cs)
               /\ [cs EXCEPT ![target] = e][target] = e
               /\ \A i \in 1..Len(cs) : i # target => [cs EXCEPT ![target] = e][i] = cs[i]
    BY <2>1, Replaced
  <2>3. new = [cs EXCEPT ![target] = c]
    BY <1>2 DEF PutComment
  <2>4. /\ IsSeq(new) /\ Len(new) = Len(cs) /\ new[target] = c
        /\ \A i \in 1..Len(cs) : i # target => new[i] = cs[i]
    BY <2>2, <2>3
  <2> QED BY <1>1, <1>2, <2>1, <2>4
<1>3. CASE target = 0 /\ ~Clean(job)
  <2>1. new = Append(cs, c)
    BY <1>3 DEF PutComment
  <2>2. /\ IsSeq(new) /\ Len(new) = Len(cs) + 1 /\ new[Len(cs) + 1] = c
        /\ \A i \in 1..Len(cs) : new[i] = cs[i]
    BY <2>1, Appended
  <2>3. new # <<>>
    BY <1>1, <2>2
  <2> QED BY <1>1, <1>3, <2>2, <2>3
<1>4. CASE target = 0 /\ Clean(job)
  BY <1>1, <1>4 DEF PutComment
<1> QED BY <1>2, <1>3, <1>4

-----------------------------------------------------------------------------
(* The invariant holds at first, and every step keeps it *)

\* It holds at first.
LEMMA InitHolds == Init => IInv
<1> SUFFICES ASSUME Init PROVE IInv
  OBVIOUS
<1>1. runs = <<>> /\ comments = <<>> /\ faults = 0
  BY DEF Init
<1>2. Len(<<>>) = 0 /\ \A S : <<>> \in Seq(S)
  BY EmptySeq
<1>3. RunsInv(runs) /\ CommentsInv(runs, comments) /\ LastInv(runs, comments)
  BY <1>1, <1>2, PullRequestAssumption DEF RunsInv, CommentsInv, LastInv, IsSeq
<1>4. GeneratedBaseline(baseline)
  BY DEF Init, GeneratedBaseline, Baselines
<1> QED BY <1>1, <1>3, <1>4, PullRequestAssumption DEF IInv

\* A new run has two jobs that wait, or one whose image gate is skipped.
LEMMA StartKeeps ==
  ASSUME IInv, Start
  PROVE  IInv'
<1>1. PICK tree \in Trees, scheduled \in BOOLEAN, found \in BOOLEAN, mode \in Modes :
        runs' = Append(runs,
          [ tree |-> tree, scheduled |-> scheduled, incremental |-> found /\ ~scheduled,
            mode |-> mode, baseline |-> baseline, alone |-> AllOver,
            badScan |-> "none", semgrep |-> NoReport,
            jobs |-> [source |-> Waiting,
                      image |-> IF scheduled THEN [Waiting EXCEPT !.state = "skipped"]
                                ELSE Waiting] ])
  BY DEF Start
<1> DEFINE image == IF scheduled THEN [Waiting EXCEPT !.state = "skipped"] ELSE Waiting
           run == [ tree |-> tree, scheduled |-> scheduled, incremental |-> found /\ ~scheduled,
                    mode |-> mode, baseline |-> baseline, alone |-> AllOver,
                    badScan |-> "none", semgrep |-> NoReport,
                    jobs |-> [source |-> Waiting, image |-> image] ]
<1>2. /\ Len(runs) < MaxRuns /\ comments' = comments /\ baseline' = baseline
      /\ \E kinds : Meets(kinds)
  BY DEF Start
<1>3. faults' \in 0..MaxFaults
  BY <1>2, FaultsAreBounded DEF IInv
<1>4. /\ JobInv(Waiting) /\ JobInv(image)
      /\ Waiting.result = NoReport /\ ~Waiting.passes /\ Waiting.target = 0
      /\ Waiting.state = "waiting" /\ ~Waiting.delivered
      /\ image.result = NoReport /\ ~image.passes /\ image.target = 0
      /\ image.state \in {"waiting", "skipped"} /\ ~image.delivered
  BY DEF Waiting, JobInv, JobFields
<1> HIDE DEF image
<1>5. /\ run.tree = tree /\ run.scheduled = scheduled /\ run.baseline = baseline
      /\ run.alone = AllOver /\ run.badScan = "none" /\ run.semgrep = NoReport
      /\ run.jobs["source"] = Waiting /\ run.jobs["image"] = image
      /\ DOMAIN run = RunFields /\ DOMAIN run.jobs = Gates
  BY DEF RunFields, Gates
<1>6. runs' = Append(runs, run)
  BY <1>1 DEF image
<1>7. AllOver \in BOOLEAN
  BY DEF AllOver
<1> HIDE DEF run
<1>8. \A g \in Gates : /\ JobInv(run.jobs[g]) /\ run.jobs[g].target = 0
                       /\ run.jobs[g].state # "listed" /\ ~run.jobs[g].delivered
  BY <1>4, <1>5 DEF Gates
<1>9. RunInv(run)
  BY <1>4, <1>5, <1>7, <1>8 DEF RunInv, SourceInv, ImageInv, IInv
<1>10. /\ Len(runs) \in Nat /\ IsSeq(runs') /\ Len(runs') = Len(runs) + 1
       /\ \A m \in 1..Len(runs) : runs'[m] = runs[m]
       /\ runs'[Len(runs')] = run
  <2>1. IsSeq(runs)
    BY DEF IInv, RunsInv
  <2> QED BY <1>6, <2>1, Appended
<1>11. RunsInv(runs')
  <2>1. Len(runs') =< MaxRuns
    BY <1>2, <1>10, PullRequestAssumption
  <2>2. \A m \in 1..Len(runs') : m \in 1..Len(runs) \/ m = Len(runs')
    BY <1>10
  <2> QED BY <1>9, <1>10, <2>1, <2>2 DEF RunsInv, IInv
<1>12. CommentsInv(runs', comments')
  BY <1>2, <1>8, <1>10 DEF CommentsInv, IInv
<1>13. LastInv(runs', comments')
  <2>1. AllOver => \A m \in 1..(Len(runs') - 1) : Over(runs'[m])
    BY <1>10 DEF AllOver
  <2>2. \A g \in Gates : Heard(run.jobs[g], Len(runs'), comments')
    BY <1>8 DEF Heard
  <2> QED BY <1>5, <1>10, <2>1, <2>2 DEF LastInv
<1> QED BY <1>2, <1>3, <1>11, <1>12, <1>13 DEF IInv

\* The source gate's job gets what the tree deserves.
LEMMA SourceGateKeeps ==
  ASSUME IInv, NEW n \in 1..Len(runs), SourceGate(n)
  PROVE  IInv'
<1> DEFINE run == runs[n]
<1>1. PICK bad \in BadScans \cup {"none"}, tool \in BOOLEAN, approved \in BOOLEAN,
           crash \in BOOLEAN, mode \in Modes :
        LET result == IF crash THEN NoReport ELSE GateOf(run, bad)
        IN /\ Meets(If(bad # "none", "scanner") \cup If(crash, "crash")
                      \cup If(mode # run.mode, "mode"))
           /\ bad = "npm" => "npm" \in run.tree.manifests
           /\ ~tool => bad # "none"
           /\ approved => result # NoReport /\ result.eligible /\ mode = "enforce"
           /\ runs' = [runs EXCEPT
                ![n] = [@ EXCEPT !.badScan = bad, !.semgrep = SemgrepReport(run, bad),
                  !.jobs["source"] = Done("source", mode, result, tool, approved)]]
  BY Zenon DEF SourceGate, GateOf
<1>2. /\ run.jobs["source"].state = "waiting" /\ \E kinds : Meets(kinds)
      /\ baseline' = baseline /\ comments' = comments
  BY DEF SourceGate
<1>3. faults' \in 0..MaxFaults
  BY <1>2, FaultsAreBounded DEF IInv
<1> DEFINE result == IF crash THEN NoReport ELSE GateOf(run, bad)
           job == Done("source", mode, result, tool, approved)
           report == SemgrepReport(run, bad)
           new == [run EXCEPT !.badScan = bad, !.semgrep = report, !.jobs["source"] = job]
<1>4. /\ bad = "npm" => "npm" \in run.tree.manifests
      /\ approved => result # NoReport /\ result.eligible /\ mode = "enforce"
      /\ runs' = [runs EXCEPT ![n] = new]
  BY <1>1
<1>5. result \in {NoReport, GateOf(run, bad)}
  OBVIOUS
<1>6. RunInv(run) /\ IsSeq(runs) /\ RunsInv(runs)
  BY DEF IInv, RunsInv
<1>7. DOMAIN run = RunFields /\ DOMAIN run.jobs = Gates /\ run.tree \in Trees
  BY <1>6 DEF RunInv
<1>8. report \in [errors : BOOLEAN, results : SUBSET AllCode] \cup {NoReport}
  BY <1>7, SemgrepType
<1> HIDE DEF run, result, job, report
<1>9. Kin(run, "source", new) /\ new.badScan = bad /\ new.semgrep = report
      /\ new.jobs["source"] = job
  BY <1>7 DEF Kin, RunFields, Gates
<1> HIDE DEF new
<1>10. /\ IsSeq(runs') /\ Len(runs') = Len(runs) /\ runs'[n] = new
       /\ \A m \in 1..Len(runs) : m # n => runs'[m] = runs[m]
  <2>1. \A e : /\ IsSeq([runs EXCEPT ![n] = e])
               /\ Len([runs EXCEPT ![n] = e]) = Len(runs)
               /\ [runs EXCEPT ![n] = e][n] = e
               /\ \A i \in 1..Len(runs) : i # n => [runs EXCEPT ![n] = e][i] = runs[i]
    BY <1>6, Replaced
  <2> QED BY <1>4, <2>1
<1>11. Moved(runs, n, "source", runs')
  BY <1>9, <1>10 DEF Moved, run
<1>12. /\ GateInv(new, "source")
       /\ new.jobs["source"].state = "judged" /\ new.jobs["source"].target = 0
       /\ ~new.jobs["source"].delivered
  BY <1>4, <1>5, <1>6, <1>9, SourceGateJudges DEF job
<1>13. Heard(new.jobs["source"], n, comments)
  BY <1>12 DEF Heard
<1>14. RunsInv(runs') /\ CommentsInv(runs', comments) /\ LastInv(runs', comments)
  <2>1. CommentsInv(runs, comments) /\ LastInv(runs, comments)
    BY DEF IInv
  <2>2. runs[n].jobs["source"].state \notin {"ended", "skipped"}
    BY <1>2 DEF run
  <2>3. "source" \in Gates
    BY DEF Gates
  <2> QED BY <1>6, <1>8, <1>9, <1>10, <1>11, <1>12, <1>13, <2>1, <2>2, <2>3, JobStep
<1> QED BY <1>2, <1>3, <1>14 DEF IInv

\* The image gate's job gets what the image deserves.
LEMMA ImageSecurityKeeps ==
  ASSUME IInv, NEW n \in 1..Len(runs), ImageSecurity(n)
  PROVE  IInv'
<1> DEFINE trivy == runs[n].tree.trivy
           tool == trivy.imageId # "none"
<1>1. PICK crash \in BOOLEAN, mode \in Modes :
        LET result == IF crash \/ trivy.imageId = "none" THEN NoReport
                      ELSE RunImageGate("trivy", ImagePolicy, trivy)
        IN /\ Meets(If(crash, "crash") \cup If(mode # runs[n].mode, "mode"))
           /\ SetJob(n, "image", Done("image", mode, result, trivy.imageId # "none", FALSE))
  BY Zenon DEF ImageSecurity
<1>2. /\ runs[n].jobs["image"].state = "waiting" /\ \E kinds : Meets(kinds)
      /\ baseline' = baseline /\ comments' = comments
  BY DEF ImageSecurity
<1>3. faults' \in 0..MaxFaults
  BY <1>2, FaultsAreBounded DEF IInv
<1> DEFINE result == IF crash \/ trivy.imageId = "none" THEN NoReport
                     ELSE RunImageGate("trivy", ImagePolicy, trivy)
<1>4. PICK approved \in BOOLEAN : approved = FALSE
  OBVIOUS
<1>5. JobSet(runs, n, "image", Done("image", mode, result, tool, approved), runs')
  BY <1>1, <1>4 DEF SetJob, JobSet
<1>6. result \in {NoReport, RunImageGate("trivy", ImagePolicy, runs[n].tree.trivy)}
      /\ tool \in BOOLEAN
  OBVIOUS
<1> HIDE DEF result, tool
<1> DEFINE job == Done("image", mode, result, tool, approved)
<1>7. RunsInv(runs) /\ RunInv(runs[n]) /\ "image" \in Gates
  BY DEF IInv, RunsInv, Gates
<1> HIDE DEF job
<1>8. /\ Moved(runs, n, "image", runs') /\ runs'[n].jobs["image"] = job
      /\ runs'[n].badScan = runs[n].badScan /\ runs'[n].semgrep = runs[n].semgrep
  BY <1>5, <1>7, SetJobMoves DEF job
<1>9. Kin(runs[n], "image", runs'[n])
  BY <1>8 DEF Moved
<1>10. /\ GateInv(runs'[n], "image")
       /\ runs'[n].jobs["image"].state = "judged" /\ runs'[n].jobs["image"].target = 0
       /\ ~runs'[n].jobs["image"].delivered
  BY <1>4, <1>6, <1>7, <1>8, <1>9, ImageGateJudges DEF job
<1>11. Heard(runs'[n].jobs["image"], n, comments)
  BY <1>10 DEF Heard
<1>12. RunsInv(runs') /\ CommentsInv(runs', comments) /\ LastInv(runs', comments)
  <2>1. CommentsInv(runs, comments) /\ LastInv(runs, comments)
    BY DEF IInv
  <2>2. runs[n].jobs["image"].state \notin {"ended", "skipped"}
    BY <1>2
  <2>3. /\ runs[n].badScan \in BadScans \cup {"none"}
        /\ runs[n].semgrep \in [errors : BOOLEAN, results : SUBSET AllCode] \cup {NoReport}
    BY <1>7 DEF RunInv
  <2> QED BY <1>7, <1>8, <1>10, <1>11, <2>1, <2>2, <2>3, JobStep
<1> QED BY <1>2, <1>3, <1>12 DEF IInv

\* An image that is not built leaves its gate skipped.
LEMMA ContainerBuildFailsKeeps ==
  ASSUME IInv, NEW n \in 1..Len(runs), ContainerBuildFails(n)
  PROVE  IInv'
<1> DEFINE job == [Waiting EXCEPT !.state = "skipped"]
<1>1. /\ runs[n].jobs["image"].state = "waiting" /\ \E kinds : Meets(kinds)
      /\ baseline' = baseline /\ comments' = comments
      /\ JobSet(runs, n, "image", job, runs')
  BY DEF ContainerBuildFails, SetJob, JobSet
<1>2. faults' \in 0..MaxFaults
  BY <1>1, FaultsAreBounded DEF IInv
<1>3. RunsInv(runs) /\ RunInv(runs[n]) /\ "image" \in Gates
  BY DEF IInv, RunsInv, Gates
<1>4. /\ JobInv(job) /\ job.result = NoReport /\ ~job.passes /\ job.target = 0
      /\ job.state = "skipped" /\ ~job.delivered
  BY DEF Waiting, JobInv, JobFields
<1> HIDE DEF job
<1>5. /\ Moved(runs, n, "image", runs') /\ runs'[n].jobs["image"] = job
      /\ runs'[n].badScan = runs[n].badScan /\ runs'[n].semgrep = runs[n].semgrep
  BY <1>1, <1>3, SetJobMoves
<1>6. GateInv(runs'[n], "image")
  BY <1>4, <1>5 DEF GateInv, ImageInv
<1>7. Heard(job, n, comments)
  BY <1>4 DEF Heard
<1>8. RunsInv(runs') /\ CommentsInv(runs', comments) /\ LastInv(runs', comments)
  <2>1. CommentsInv(runs, comments) /\ LastInv(runs, comments)
    BY DEF IInv
  <2>2. runs[n].jobs["image"].state \notin {"ended", "skipped"}
    BY <1>1
  <2>3. /\ runs[n].badScan \in BadScans \cup {"none"}
        /\ runs[n].semgrep \in [errors : BOOLEAN, results : SUBSET AllCode] \cup {NoReport}
    BY <1>3 DEF RunInv
  <2> QED BY <1>3, <1>4, <1>5, <1>6, <1>7, <2>1, <2>2, <2>3, JobStep
<1> QED BY <1>1, <1>2, <1>8 DEF IInv

\* A job that listed the comments remembers one only if there is one, and none
\* only if there is none; a job that ends here delivered only on a schedule.
LEMMA ListCommentsKeeps ==
  ASSUME IInv, NEW n \in 1..Len(runs), NEW g \in Gates, ListComments(n, g)
  PROVE  IInv'
<1> DEFINE old == runs[n].jobs[g]
           target == IF comments = <<>> THEN 0 ELSE 1
<1>1. RunsInv(runs) /\ CommentsInv(runs, comments) /\ LastInv(runs, comments)
  BY DEF IInv
<1>2. RunInv(runs[n])
  BY <1>1 DEF RunsInv
<1>3. JobInv(old)
  BY <1>2 DEF RunInv
<1>4. /\ old.state = "judged" /\ \E kinds : Meets(kinds)
      /\ baseline' = baseline /\ comments' = comments
  BY DEF ListComments
<1>5. faults' \in 0..MaxFaults
  BY <1>4, FaultsAreBounded DEF IInv
<1>6. \/ JobSet(runs, n, g, [old EXCEPT !.state = "listed", !.target = target], runs')
      \/ runs[n].scheduled /\ JobSet(runs, n, g, Posted(old, TRUE), runs')
      \/ JobSet(runs, n, g, Posted(old, FALSE), runs')
  BY DEF ListComments, SetJob, JobSet
<1>7. old.target = 1 => comments # <<>>
  BY <1>1 DEF CommentsInv
<1>8. PICK job :
        /\ JobSet(runs, n, g, job, runs')
        /\ DOMAIN job = DOMAIN old /\ job.result = old.result /\ job.mode = old.mode
        /\ job.passes = old.passes /\ job.delivered \in BOOLEAN /\ job.target \in {0, 1}
        /\ job.target = 1 => comments # <<>>
        /\ \/ job.state = "listed" /\ ~job.delivered /\ (job.target = 0 => comments = <<>>)
           \/ job.state = "ended" /\ (job.delivered => runs[n].scheduled)
  <2>1. CASE JobSet(runs, n, g, [old EXCEPT !.state = "listed", !.target = target], runs')
    <3> DEFINE job == [old EXCEPT !.state = "listed", !.target = target]
    <3>1. /\ DOMAIN job = DOMAIN old /\ job.result = old.result /\ job.mode = old.mode
          /\ job.passes = old.passes /\ job.delivered = old.delivered /\ job.target = target
          /\ job.state = "listed"
      BY <1>3 DEF JobInv, JobFields
    <3>2. old.delivered \in BOOLEAN /\ ~old.delivered
      BY <1>3, <1>4 DEF JobInv
    <3> HIDE DEF job, old
    <3>3. /\ target \in {0, 1} /\ (target = 1 => comments # <<>>)
          /\ (target = 0 => comments = <<>>)
      OBVIOUS
    <3> WITNESS job
    <3> QED BY <2>1, <3>1, <3>2, <3>3 DEF job
  <2>2. ASSUME NEW delivered \in BOOLEAN, delivered => runs[n].scheduled,
               JobSet(runs, n, g, Posted(old, delivered), runs')
        PROVE  \E job :
                 /\ JobSet(runs, n, g, job, runs')
                 /\ DOMAIN job = DOMAIN old /\ job.result = old.result /\ job.mode = old.mode
                 /\ job.passes = old.passes /\ job.delivered \in BOOLEAN
                 /\ job.target \in {0, 1} /\ (job.target = 1 => comments # <<>>)
                 /\ job.state = "ended" /\ (job.delivered => runs[n].scheduled)
    <3> DEFINE job == Posted(old, delivered)
    <3>1. /\ DOMAIN job = DOMAIN old /\ job.result = old.result /\ job.mode = old.mode
          /\ job.passes = old.passes /\ job.delivered = delivered /\ job.target = old.target
          /\ job.state = "ended"
      BY <1>3 DEF Posted, JobInv, JobFields
    <3>2. old.target \in {0, 1}
      BY <1>3 DEF JobInv
    <3> HIDE DEF job, old
    <3> WITNESS job
    <3> QED BY <1>7, <2>2, <3>1, <3>2 DEF job
  <2> HIDE DEF old
  <2>3. CASE runs[n].scheduled /\ JobSet(runs, n, g, Posted(old, TRUE), runs')
    BY <2>2, <2>3
  <2>4. CASE JobSet(runs, n, g, Posted(old, FALSE), runs')
    BY <2>2, <2>4
  <2> QED BY <1>6, <2>1, <2>3, <2>4 DEF old
<1>9. /\ Moved(runs, n, g, runs') /\ runs'[n].jobs[g] = job
      /\ runs'[n].badScan = runs[n].badScan /\ runs'[n].semgrep = runs[n].semgrep
  BY <1>1, <1>8, SetJobMoves
<1> HIDE DEF old
<1>10. GateInv(runs'[n], g)
  <2>1. Kin(runs[n], g, runs'[n])
    BY <1>9 DEF Moved
  <2> QED BY <1>2, <1>4, <1>8, <1>9, <2>1, PostingKeeps DEF old
<1>11. runs[n].scheduled \/ Heard(job, n, comments)
  BY <1>8 DEF Heard
<1>12. RunsInv(runs') /\ CommentsInv(runs', comments) /\ LastInv(runs', comments)
  <2>1. runs[n].jobs[g].state \notin {"ended", "skipped"}
    BY <1>4 DEF old
  <2>2. /\ runs[n].badScan \in BadScans \cup {"none"}
        /\ runs[n].semgrep \in [errors : BOOLEAN, results : SUBSET AllCode] \cup {NoReport}
    BY <1>2 DEF RunInv
  <2> QED BY <1>1, <1>8, <1>9, <1>10, <1>11, <2>1, <2>2, JobStep
<1> QED BY <1>4, <1>5, <1>12 DEF IInv

\* A job that wrote has the first comment, or found none and has nothing to say;
\* what the other gate of its run may claim of the comment stays true.
LEMMA WriteCommentKeeps ==
  ASSUME IInv, NEW n \in 1..Len(runs), NEW g \in Gates, WriteComment(n, g)
  PROVE  IInv'
<1> DEFINE old == runs[n].jobs[g]
<1>1. RunsInv(runs) /\ CommentsInv(runs, comments) /\ LastInv(runs, comments)
  BY DEF IInv
<1>2. RunInv(runs[n])
  BY <1>1 DEF RunsInv
<1>3. JobInv(old)
  BY <1>2 DEF RunInv
<1>4. old.state = "listed" /\ (\E kinds : Meets(kinds)) /\ baseline' = baseline
  BY DEF WriteComment
<1>5. faults' \in 0..MaxFaults
  BY <1>4, FaultsAreBounded DEF IInv
<1>6. PICK delivered \in BOOLEAN :
        /\ JobSet(runs, n, g, Posted(old, delivered), runs')
        /\ comments' = IF delivered THEN Written(n, g) ELSE comments
  BY DEF WriteComment, SetJob, JobSet
<1>7. PICK job : job = Posted(old, delivered)
  OBVIOUS
<1>8. /\ DOMAIN job = DOMAIN old /\ job.result = old.result /\ job.mode = old.mode
      /\ job.passes = old.passes /\ job.delivered = delivered /\ job.target = old.target
      /\ job.state = "ended"
  BY <1>3, <1>7 DEF Posted, JobInv, JobFields
<1>9. old.target \in {0, 1} /\ (old.target = 1 => comments # <<>>)
  BY <1>1, <1>3 DEF JobInv, CommentsInv
<1>10. /\ Moved(runs, n, g, runs') /\ runs'[n].jobs[g] = job
       /\ runs'[n].badScan = runs[n].badScan /\ runs'[n].semgrep = runs[n].semgrep
  BY <1>1, <1>6, <1>7, SetJobMoves
<1>11. Kin(runs[n], g, runs'[n])
  BY <1>10 DEF Moved
<1> HIDE DEF old
<1>12. GateInv(runs'[n], g)
  BY <1>2, <1>4, <1>8, <1>9, <1>10, <1>11, PostingKeeps DEF old
<1>13. RunsInv(runs')
  <2>1. /\ runs[n].badScan \in BadScans \cup {"none"}
        /\ runs[n].semgrep \in [errors : BOOLEAN, results : SUBSET AllCode] \cup {NoReport}
    BY <1>2 DEF RunInv
  <2>2. RunInv(runs'[n])
    BY <1>2, <1>10, <1>11, <1>12, <2>1, KinKeeps
  <2> QED BY <1>1, <1>10, <2>2, MovedKeeps
<1>14. PICK c : c = Comment(n, g)
  OBVIOUS
<1>15. c.run = n /\ c.gate = g
  BY <1>14 DEF Comment
<1>16. Clean(job) <=> Clean(old)
  BY <1>8 DEF Clean
<1>17. /\ IsSeq(comments')
       /\ \A i \in 1..Len(comments') :
            comments'[i] = c \/ (i \in 1..Len(comments) /\ comments'[i] = comments[i])
       /\ comments # <<>> =>
            /\ comments' # <<>>
            /\ comments'[1] = comments[1] \/ comments'[1] = c
            /\ delivered => comments'[1] = c \/ (old.target = 0 /\ comments'[1] = comments[1])
       /\ comments = <<>> =>
            IF delivered /\ ~Clean(job) THEN comments' # <<>> /\ comments'[1] = c
            ELSE comments' = <<>>
  <2>1. CASE delivered
    <3>1. PICK target, written : target = old.target /\ written = PutComment(comments, c, target, job)
      OBVIOUS
    <3>2. comments' = written
      BY <1>6, <1>14, <1>16, <2>1, <3>1 DEF Written, PutComment, old
    <3>3. IsSeq(comments) /\ target \in {0, 1} /\ (target = 1 => comments # <<>>)
      BY <1>1, <1>9, <3>1 DEF CommentsInv
    <3>4. /\ IsSeq(written)
          /\ \A i \in 1..Len(written) :
               written[i] = c \/ (i \in 1..Len(comments) /\ written[i] = comments[i])
          /\ comments # <<>> =>
               written # <<>> /\ (written[1] = c \/ (target = 0 /\ written[1] = comments[1]))
          /\ comments = <<>> /\ Clean(job) => written = <<>>
          /\ comments = <<>> /\ ~Clean(job) => written # <<>> /\ written[1] = c
      BY <3>1, <3>3, WrittenComments
    <3> QED BY <2>1, <3>1, <3>2, <3>4
  <2>2. CASE ~delivered
    BY <1>1, <1>6, <2>2 DEF CommentsInv
  <2> QED BY <2>1, <2>2
<1>18. CommentsInv(runs', comments')
  <2>1. Len(runs') = Len(runs)
    BY <1>10 DEF Moved
  <2>2. \A i \in 1..Len(comments') :
          comments'[i].run \in 1..Len(runs') /\ comments'[i].gate \in Gates
    BY <1>1, <1>15, <1>17, <2>1 DEF CommentsInv
  <2>3. ASSUME NEW m \in 1..Len(runs'), NEW h \in Gates, runs'[m].jobs[h].target = 1
        PROVE  comments' # <<>>
    <3>1. CASE m = n /\ h = g
      BY <1>8, <1>9, <1>10, <1>17, <2>3, <3>1
    <3>2. CASE ~(m = n /\ h = g)
      <4>1. runs'[m].jobs[h] = runs[m].jobs[h]
        BY <1>10, <1>11, <2>1, <3>2 DEF Moved, Kin
      <4> QED BY <1>1, <1>17, <2>1, <2>3, <4>1 DEF CommentsInv
    <3> QED BY <3>1, <3>2
  <2> QED BY <1>17, <2>2, <2>3 DEF CommentsInv
<1>19. LastInv(runs', comments')
  <2>1. runs[n].jobs[g].state \notin {"ended", "skipped"}
    BY <1>4 DEF old
  <2>2. ASSUME \A h \in Gates : Heard(runs[n].jobs[h], n, comments), NEW h \in Gates
        PROVE  Heard(runs'[n].jobs[h], n, comments')
    <3>1. CASE h = g
      <4>1. Heard(old, n, comments)
        BY <2>2 DEF old
      <4>2. old.target = 0 => comments = <<>> \/ comments[1].run = n
        BY <1>4, <4>1 DEF Heard
      <4>3. Heard(job, n, comments')
        BY <1>8, <1>15, <1>16, <1>17, <4>2 DEF Heard
      <4> QED BY <1>10, <3>1, <4>3
    <3>2. CASE h # g
      <4>1. runs'[n].jobs[h] = runs[n].jobs[h]
        BY <1>11, <3>2 DEF Kin
      <4>2. Heard(runs[n].jobs[h], n, comments)
        BY <2>2
      <4>3. Heard(runs[n].jobs[h], n, comments')
        BY <1>15, <1>17, <4>2 DEF Heard
      <4> QED BY <4>1, <4>3
    <3> QED BY <3>1, <3>2
  <2>3. (\A h \in Gates : Heard(runs[n].jobs[h], n, comments)) =>
          \A h \in Gates : Heard(runs'[n].jobs[h], n, comments')
    BY <2>2
  <2> QED BY <1>1, <1>10, <2>1, <2>3, LastMoves
<1> QED BY <1>4, <1>5, <1>13, <1>18, <1>19 DEF IInv

\* A generated baseline has the fingerprints of the findings it accepts.
LEMMA GenerateBaselineKeeps ==
  ASSUME IInv, GenerateBaseline
  PROVE  IInv'
<1>1. PICK n \in 1..Len(runs) :
        /\ runs[n].semgrep # NoReport
        /\ baseline' = [ schemaVersion |-> 1,
                         fingerprints  |-> {BaselineFingerprint(f) : f \in runs[n].semgrep.results},
                         accepted      |-> runs[n].semgrep.results ]
  BY DEF GenerateBaseline
<1>2. runs' = runs /\ comments' = comments /\ faults' = faults
  BY DEF GenerateBaseline
<1>3. runs[n].semgrep \in [errors : BOOLEAN, results : SUBSET AllCode]
  BY <1>1 DEF IInv, RunsInv, RunInv
<1> DEFINE results == runs[n].semgrep.results
<1>4. results \subseteq AllCode
  BY <1>3
<1> HIDE DEF results
<1>5. {BaselineFingerprint(f) : f \in results} \subseteq {SemgrepFingerprint(f) : f \in AllCode}
  BY <1>4 DEF BaselineFingerprint, SemgrepFingerprint
<1>6. GeneratedBaseline(baseline')
  BY <1>1, <1>4, <1>5 DEF GeneratedBaseline, Baselines, results
<1> QED BY <1>2, <1>6 DEF IInv

\* Every step keeps it.
LEMMA NextKeeps == IInv /\ [Next]_vars => IInv'
<1> SUFFICES ASSUME IInv, [Next]_vars PROVE IInv'
  OBVIOUS
<1>1. CASE Start
  BY <1>1, StartKeeps
<1>2. CASE GenerateBaseline
  BY <1>2, GenerateBaselineKeeps
<1>3. ASSUME NEW n \in 1..Len(runs),
             \/ SourceGate(n) \/ ImageSecurity(n) \/ ContainerBuildFails(n)
             \/ \E g \in Gates : ListComments(n, g) \/ WriteComment(n, g)
      PROVE  IInv'
  BY <1>3, SourceGateKeeps, ImageSecurityKeeps, ContainerBuildFailsKeeps,
     ListCommentsKeeps, WriteCommentKeeps
<1>4. CASE UNCHANGED vars
  BY <1>4 DEF vars, IInv
<1> QED BY <1>1, <1>2, <1>3, <1>4 DEF Next

-----------------------------------------------------------------------------
(* Theorems *)

\* The inductive invariant holds in every state.
THEOREM Invariance == Spec => []IInv
BY InitHolds, NextKeeps, PTL DEF Spec

\* The types of security.yml's runs, jobs and comments; a job is green without a
\* result in log-only mode only; and a job updates only a comment that is there.
THEOREM TypeCorrect == Spec => []TypeOK
<1>1. IInv => TypeOK
  <2> SUFFICES ASSUME IInv PROVE TypeOK
    OBVIOUS
  <2>1. RunsInv(runs) /\ CommentsInv(runs, comments)
    BY DEF IInv
  <2>2. Len(comments) \in Nat /\ (comments # <<>> => Len(comments) # 0)
    BY <2>1, LenProperties, EmptySeq DEF CommentsInv, IsSeq
  <2>3. ASSUME NEW n \in 1..Len(runs), NEW g \in Gates, NEW job, job = runs[n].jobs[g]
        PROVE  /\ job.state \in {"waiting", "judged", "listed", "ended", "skipped"}
               /\ job.mode \in Modes \cup {"none"}
               /\ job.target \in 0..Len(comments)
               /\ job.passes => job.result # NoReport \/ job.mode = "log-only"
    <3>1. JobInv(job) /\ SourceInv(runs[n]) /\ ImageInv(runs[n])
      BY <2>1, <2>3 DEF RunsInv, RunInv
    <3>2. job.target = 1 => comments # <<>>
      BY <2>1, <2>3 DEF CommentsInv
    <3>3. job.result = NoReport => Blocks(g, job)
      BY DEF Blocks, Verdict
    <3>4. job.passes => job.result # NoReport \/ job.mode = "log-only"
      BY <2>3, <3>1, <3>3 DEF SourceInv, ImageInv, Gates
    <3>5. job.target \in {0, 1}
      BY <3>1 DEF JobInv
    <3>6. job.target \in 0..Len(comments)
      BY <2>2, <3>2, <3>5
    <3> QED BY <3>1, <3>4, <3>6 DEF JobInv
  <2>4. \A n \in 1..Len(runs) : runs[n].tree \in Trees /\ runs[n].badScan \in BadScans \cup {"none"}
    BY <2>1 DEF RunsInv, RunInv
  <2> QED BY <2>1, <2>3, <2>4 DEF TypeOK, IInv, RunsInv, CommentsInv
<1> QED BY <1>1, Invariance, PTL

\* The source gate gives the verdict that the tree, the base and the baseline
\* deserve, or blocks because of a report that it does not trust.
THEOREM VerdictsAreDeserved == Spec => []VerdictIsDeserved
<1>1. IInv => VerdictIsDeserved
  <2> SUFFICES ASSUME IInv PROVE VerdictIsDeserved
    OBVIOUS
  <2>1. ASSUME NEW n \in 1..Len(runs), runs[n].jobs["source"].result # NoReport
        PROVE  Deserved(runs[n], runs[n].badScan, runs[n].jobs["source"].result)
    BY <2>1 DEF IInv, RunsInv, RunInv, SourceInv
  <2> QED BY <2>1, Zenon DEF VerdictIsDeserved, Deserved
<1> QED BY <1>1, Invariance, PTL

\* Checks that are all green, of gates that ran in one mode, hide nothing: every
\* report was read, nothing that blocks for good is there, what may be lifted was
\* approved, and the image holds nothing that blocks.
THEOREM GreenEarned == Spec => []GreenIsEarned
<1>1. IInv => GreenIsEarned
  <2> SUFFICES ASSUME IInv, NEW n \in 1..Len(runs), NEW run, run = runs[n],
                      NEW source, source = run.jobs["source"],
                      NEW image, image = run.jobs["image"],
                      run.scheduled \/ image.mode = source.mode,
                      SecurityGateIsGreen(run), GateModeIsGreen(run),
                      run.scheduled \/ ImageGateIsGreen(run)
               PROVE  /\ run.badScan = "none" /\ NeverLifted(run) = {}
                      /\ NewCode(run) \cup Fixable(run) # {} => source.mode = "enforce"
                      /\ ~run.scheduled =>
                           RunImageGate("trivy", ImagePolicy, run.tree.trivy).verdict
                             # "BLOCK_DEPLOY"
    BY DEF GreenIsEarned
  <2>1. /\ SourceInv(run) /\ ImageInv(run)
        /\ JobInv(source) /\ JobInv(image) /\ run.badScan \in BadScans \cup {"none"}
    BY DEF IInv, RunsInv, RunInv, Gates
  <2>2. /\ source.passes /\ source.result # NoReport /\ source.result.trusted
        /\ image.state # "skipped" => image.result # NoReport
        /\ source.mode = "log-only" =>
             ~Blocks("source", source) /\ (image.state # "skipped" => ~Blocks("image", image))
    BY DEF SecurityGateIsGreen, GateModeIsGreen, Trusted
  <2> DEFINE liftable == NewCode(run) \cup Fixable(run)
  <2>3. Deserved(run, run.badScan, source.result)
    BY <2>1, <2>2 DEF SourceInv
  <2>4. run.badScan = "none"
    BY <2>2, <2>3 DEF Deserved
  <2>5. /\ source.result.verdict = "BLOCK" <=> liftable \cup NeverLifted(run) # {}
        /\ source.result.eligible <=> liftable # {} /\ NeverLifted(run) = {}
    BY <2>3, <2>4 DEF Deserved
  <2> HIDE DEF liftable
  <2>6. liftable # {} \/ NeverLifted(run) # {} => Blocks("source", source)
    <3>1. liftable # {} \/ NeverLifted(run) # {} => source.result.verdict = "BLOCK"
      BY <2>5
    <3> QED BY <2>2, <3>1 DEF Blocks, Verdict
  <2>7. Blocks("source", source) => source.mode = "enforce" /\ source.result.eligible
    <3>1. source.passes /\ Blocks("source", source) =>
            \/ source.mode = "log-only"
            \/ source.mode = "enforce" /\ source.result # NoReport /\ source.result.eligible
      BY <2>1 DEF SourceInv
    <3> QED BY <2>2, <3>1
  <2>8. NeverLifted(run) = {} /\ (liftable # {} => source.mode = "enforce")
    BY <2>5, <2>6, <2>7
  <2>9. ASSUME ~run.scheduled
        PROVE  RunImageGate("trivy", ImagePolicy, run.tree.trivy).verdict # "BLOCK_DEPLOY"
    <3>1. image.passes /\ image.mode = source.mode
      BY <2>9 DEF ImageGateIsGreen
    <3>2. image.state # "skipped"
      BY <2>1, <3>1 DEF JobInv
    <3>3. image.result = RunImageGate("trivy", ImagePolicy, run.tree.trivy)
      BY <2>1, <2>2, <3>2 DEF ImageInv
    <3>4. ~Blocks("image", image)
      <4>1. image.passes /\ Blocks("image", image) => image.mode = "log-only"
        BY <2>1 DEF ImageInv
      <4> QED BY <2>2, <3>1, <3>2, <4>1
    <3>5. image.result # NoReport
      BY <2>2, <3>2
    <3> QED BY <3>3, <3>4, <3>5 DEF Blocks, Verdict
  <2> QED BY <2>4, <2>8, <2>9 DEF liftable
<1> QED BY <1>1, Invariance, PTL

\* When the last run had the pull request for itself and both its gates
\* delivered, the comment is its own, or there is none and it is clean.
THEOREM CommentCurrent == Spec => []CommentIsCurrent
<1>1. IInv => CommentIsCurrent
  <2> SUFFICES ASSUME IInv, Settled, NEW run, run = runs[Len(runs)]
               PROVE  IF comments = <<>> THEN \A g \in Gates : Clean(run.jobs[g])
                      ELSE comments[1].run = Len(runs)
    BY DEF CommentIsCurrent
  <2>1. /\ runs # <<>> /\ run.alone /\ ~run.scheduled
        /\ \A g \in Gates : run.jobs[g].delivered
    BY DEF Settled
  <2>2. \A g \in Gates : Heard(run.jobs[g], Len(runs), comments)
    BY <2>1 DEF IInv, LastInv
  <2>3. \A g \in Gates : IF comments = <<>> THEN Clean(run.jobs[g])
                         ELSE comments[1].run = Len(runs)
    BY <2>1, <2>2 DEF Heard
  <2> QED BY <2>3 DEF Gates
<1> QED BY <1>1, Invariance, PTL

=============================================================================
