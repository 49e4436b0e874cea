------------------------- MODULE MCPullRequestChecks --------------------------
(***************************************************************************)
(* A small instance of PullRequestChecks for TLC: trees with and without   *)
(* something of every kind that the gates tell apart.                      *)
(***************************************************************************)
EXTENDS PullRequestChecks

MCPolicy ==
  [ actions    |-> PolicyActions,
    thresholds |-> [critical |-> 90, high |-> 70, medium |-> 40],
    semgrep    |-> SemgrepSeverities,
    breakGlass |-> BreakGlassPolicy ]

Code(path, line, text, severity) ==
  [check |-> "rule", path |-> path, line |-> line, text |-> text, severity |-> severity]

MCBase == {Code("a.js", 1, "old", "ERROR")}

Package(name, ecosystem, severity, scores, fix, malicious) ==
  [package |-> name, id |-> name, ecosystem |-> ecosystem, severity |-> severity,
   scores |-> scores, fix |-> fix, malicious |-> malicious, affected |-> TRUE]

Trivy(imageId, fixes) ==
  [ schemaVersion |-> 2, imageId |-> imageId, os |-> TRUE, osPackages |-> TRUE,
    endOfLife |-> FALSE, secrets |-> {},
    vulnerabilities |-> [i \in 1..Len(fixes) |->
      [id |-> i, package |-> i, severity |-> "unknown", fix |-> fixes[i]]] ]

Tree(code, secrets, packages, trivy) ==
  [code |-> code, secrets |-> secrets, packages |-> packages, manifests |-> {"npm"},
   trivy |-> trivy]

MCTrees ==
  { Tree(MCBase, {}, {}, Trivy("id", <<>>)),
    Tree(MCBase \cup {Code("a.js", 2, "new", "ERROR"), Code("b.js", 2, "old", "WARNING")},
         {}, {}, Trivy("id", <<"no">>)),
    Tree({Code("a.js", 3, "new", "critical")}, {[id |-> "token", kind |-> "verified"]},
         {}, Trivy("id", <<"no", "yes">>)),
    Tree({Code("b.js", 2, "new", "ERROR")}, {[id |-> "token", kind |-> "pattern"]},
         {Package("p", "npm", "moderate", {75, 30}, TRUE, FALSE)}, Trivy("none", <<>>)),
    [Tree({}, {[id |-> "token", kind |-> "unverified"]},
          {Package("p", "pip", "none", {}, FALSE, FALSE),
           Package("q", "go", "none", {50}, TRUE, FALSE)}, Trivy("id", <<"yes">>))
       EXCEPT !.manifests = {"pip"}],
    Tree({}, {}, {Package("m", "npm", "info", {10}, TRUE, TRUE)}, Trivy("id", <<>>)) }
=============================================================================
