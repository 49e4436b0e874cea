-------------------------- MODULE MCDeliveryPipeline --------------------------
(***************************************************************************)
(* A small instance of DeliveryPipeline for TLC: two runs.  Everything may *)
(* go wrong in r1, which may build an image that Trivy blocks, one that    *)
(* only the registry's scanner blocks, and a clean one; r2, enforced on    *)
(* main, builds a clean one, and its deploy may fail.                      *)
(***************************************************************************)
EXTENDS DeliveryPipeline, TLC

CONSTANTS r1, r2, clean, late, fixable

Counts(findings) == [s \in Severities |-> CountOf(findings, s)]

Trivy(i, vulnerabilities) ==
  [ schemaVersion |-> 2, imageId |-> i, os |-> TRUE, osPackages |-> TRUE, endOfLife |-> FALSE,
    vulnerabilities |-> vulnerabilities, secrets |-> {} ]

Registry(i, findings) ==
  [ schemaVersion |-> 1, source |-> "aws-ecr-enhanced", scanStatus |-> "COMPLETE",
    imageDigest |-> i, severityCounts |-> Counts(findings), findings |-> findings ]

Listed(fix) == [id |-> 1, package |-> 1, severity |-> "high", fix |-> fix]
Found(fix)  == [id |-> 1, severity |-> "high", fix |-> fix]

MCTrivyOf ==
  [ i \in Images |->
      CASE i = late    -> Trivy(i, <<Listed("no")>>)
        [] i = fixable -> Trivy(i, <<Listed("yes")>>)
        [] OTHER       -> Trivy(i, <<>>) ]

MCRegistryOf ==
  [i \in Images |-> Registry(i, IF i = clean THEN {} ELSE {Found("yes")})]

MCBuilds == (r1 :> Images) @@ (r2 :> {clean})

MCFaults == (r1 :> FaultKinds) @@ (r2 :> {"call", "command"})

Setup(main, configured, mode) ==
  [main |-> main, configured |-> configured, policy |-> ExpectedPolicy, mode |-> mode]

Everywhere(m) == [g \in Gates |-> m]

MCSetups ==
  (r1 :> {Setup(TRUE, TRUE, Everywhere("enforce")), Setup(TRUE, TRUE, Everywhere("log-only")),
          Setup(TRUE, TRUE, [Everywhere("log-only") EXCEPT !["artifact"] = "enforce"]),
          Setup(TRUE, FALSE, Everywhere("enforce")), Setup(FALSE, TRUE, Everywhere("enforce"))})
  @@ (r2 :> {Setup(TRUE, TRUE, Everywhere("enforce"))})
=============================================================================
