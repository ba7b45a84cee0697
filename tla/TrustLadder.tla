----------------------------- MODULE TrustLadder -----------------------------
(***************************************************************************)
(* The score of an agent and the status it stands for (gpp-trust): the     *)
(* arithmetic alone, over a common denominator instead of floats.          *)
(***************************************************************************)
EXTENDS Integers

TrustStatus == {"auto-merge", "review-required", "sandboxed", "blocked"}

(* compute_score: 100 * (survived + 1) / (survived + 1.5 * regressions + 2) *)
(* as a fraction; the clamp to 0 .. 100 never bites.                       *)
ScoreNum(survived, regressions) == 200 * (survived + 1)
ScoreDen(survived, regressions) == 2 * survived + 3 * regressions + 4

AtLeast(limit, survived, regressions) ==
  ScoreNum(survived, regressions) >= limit * ScoreDen(survived, regressions)

(* TrustPolicy::default and status_for.                                    *)
StatusFor(survived, regressions) ==
  IF AtLeast(90, survived, regressions) THEN "auto-merge"
  ELSE IF AtLeast(70, survived, regressions) THEN "review-required"
  ELSE IF AtLeast(50, survived, regressions) THEN "sandboxed"
  ELSE "blocked"

Standing(status) ==
  CASE status = "blocked" -> 0 [] status = "sandboxed" -> 1
    [] status = "review-required" -> 2 [] status = "auto-merge" -> 3
=============================================================================
