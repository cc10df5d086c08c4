---------------------------- MODULE MCDashboard -----------------------------
(* Instances of Dashboard. Digits take two values, so four ticks make a      *)
(* second, and three that follow each other have fractions of every length.  *)
EXTENDS Dashboard, TLC

\* A failing and a clean scan of one project, and a scan of another.
MCBodies ==
  {[project |-> "web", findings |-> {"PF-AZ-001", "PF-K8S-005"},
    sbom |-> "bom", provenance |-> ""],
   [project |-> "web", findings |-> {}, sbom |-> "", provenance |-> ""],
   [project |-> "api", findings |-> {"PF-K8S-002"}, sbom |-> "", provenance |-> "slsa"]}

\* Uploads are interchangeable and the properties are invariants.
UploadSymmetry == Permutations(Uploads)

\* For the order of the list alone, what the scans hold does not matter.
OneBody == {[project |-> "web", findings |-> {}, sbom |-> "", provenance |-> ""]}

\* From one digit of fraction over two to none, as the second changes; or just
\* before it does.
OneDigit == {2}
LastTick == {3}
Forward == {1}

UTC(t) == 0
\* The clocks go back by two seconds after the first four ticks.
DST(t) == IF t < 4 THEN 4 ELSE 2
=============================================================================
