---------------------------- MODULE MCEcrScanPoll ----------------------------
(***************************************************************************)
(* A small instance of EcrScanPoll for TLC: images with no finding, with   *)
(* one of every kind, and with two; policies that are and are not valid.   *)
(***************************************************************************)
EXTENDS EcrScanPoll

Raw(id, severity, fix, usable) ==
  [id |-> id, severity |-> severity, fixAvailable |-> fix, usable |-> usable]

MCTruths ==
  { {}, {Raw(1, "CRITICAL", "PARTIAL", TRUE)}, {Raw(1, "UNTRIAGED", "YES", TRUE)},
    {Raw(1, "HIGH", "NO", TRUE), Raw(2, "UNDEFINED", "YES", TRUE)},
    {Raw(1, "LOW", "other", TRUE)}, {Raw(1, "MEDIUM", "YES", FALSE)},
    {Raw(1, "unmapped", "NO", TRUE)} }

MCNews == {Raw(3, "HIGH", "YES", TRUE)}

\* With the valid one, a policy that would let a fixable High finding pass.
MCPolicies == {ExpectedPolicy, [ExpectedPolicy EXCEPT ![<<"high", "with_fix">>] = "LOG"]}
=============================================================================
