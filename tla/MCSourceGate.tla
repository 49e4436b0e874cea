---------------------------- MODULE MCSourceGate -----------------------------
(***************************************************************************)
(* A small instance of SourceGate for TLC: one repository whose only       *)
(* approver is alice, every kind of run, and the sets of findings that the *)
(* gate tells apart.                                                       *)
(***************************************************************************)
EXTENDS SourceGate, TLC

CONSTANTS alice, mallory, repo, Timeouts

MCApproverMap == repo :> {alice}

MCFindingSets ==
  { {}, {"log"}, {"exception"}, {"sast_new", "dependency_with_fix"},
    {"sast_new", "verified_secret"}, {"malicious_package"} }

\* Every kind of run, but inputs that the run does not read, or that a demo or a
\* push reads like any other run, are fixed.
MCInputs ==
  { i \in [ mode      : {"enforce", "log-only"},
            enabled   : BOOLEAN,
            transport : Transports,
            urls      : BOOLEAN,
            lambda    : BOOLEAN,
            synthetic : {"none", "sast", "dependency", "other"},
            timeout   : Timeouts,
            pr        : BOOLEAN ] :
      /\ ~i.enabled \/ i.mode = "log-only" =>
           i.transport = "http" /\ i.pr /\ i.timeout = 0
      /\ i.transport # "lambda" => ~i.lambda
      /\ i.transport # "http" => ~i.urls
      /\ i.synthetic # "none" => i.pr /\ i.timeout = 0
      /\ i.synthetic = "dependency" => i.mode = "log-only"
      /\ ~i.pr \/ i.transport # "http" => i.timeout = 0 }
=============================================================================
