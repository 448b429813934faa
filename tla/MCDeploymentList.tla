--------------------------- MODULE MCDeploymentList ---------------------------
(***************************************************************************)
(* Instances of DeploymentList for TLC, and the promises of Labels around  *)
(* each place where a label changes its unit.                              *)
(***************************************************************************)
EXTENDS DeploymentList, Labels

Boundary == {0, Minute, Hour - 30, Hour, Day - 1830, Day, 2 * Day, 30 * Day - 45030, 400 * Day}
Around == UNION {(b - 3)..(b + 3) : b \in Boundary}
Past == {-s : s \in Around}
Millisecond == UNION {(b - 2)..(b + 2) : b \in {2, 1000, 1500, 59500, 60000, 90000}}

ASSUME DurationSamples == \A ms \in Millisecond : DurationIsClose(ms)
ASSUME RelativeSamples ==
  \A s \in Past \cup Around : RelativeIsClose(s) /\ \A t \in Past \cup Around : OlderReadsOlder(s, t)
ASSUME UptimeSamples ==
  \A s \in Around \cap Nat : UptimeIsExact(s) /\ \A t \in Around \cap Nat : UptimeGrows(s, t)
=============================================================================
