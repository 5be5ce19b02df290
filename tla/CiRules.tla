------------------------------ MODULE CiRules -------------------------------
(***************************************************************************)
(* The pure rules of blastoise's CI layer: the verdicts of a file and of a *)
(* run (report/model.py, ci/model.py) and the exit code a verdict ends the *)
(* job with (ci/runner.py).                                                *)
(***************************************************************************)
EXTENDS Integers

FileVerdicts == {"proceed", "requires_approval", "block"}

VerdictRank(v) ==
    CASE v = "proceed"           -> 0
      [] v = "requires_approval" -> 1
      [] v = "block"             -> 2

\* The worst of some verdicts; nothing to judge is proceed.
RunVerdict(V) ==
    IF V = {} THEN "proceed"
    ELSE CHOOSE v \in V : \A u \in V : VerdictRank(u) <= VerdictRank(v)

FailOns == {"block", "requires_approval", "never"}
ExitToolError == 3
ExitCodes == 0..ExitToolError

\* Slip: the exit code follows the setting alone, so "requires_approval"
\* fails only what requires approval.
ExitCodeExactMatch(v, failOn) == IF v = failOn THEN VerdictRank(v) ELSE 0

ExitCode(v, failOn) ==
    IF \/ failOn = "never"
       \/ v = "requires_approval" /\ failOn # "requires_approval"
    THEN 0
    ELSE VerdictRank(v)
=============================================================================
