------------------------------ MODULE MCCIJob -------------------------------
(* Instances of CIJob: a directory with a Terraform file, a manifest and a   *)
(* chart, which has a Bicep file, a subchart, and a directory of tests among *)
(* its templates.                                                            *)
EXTENDS CIJob

\* The subchart is called charts, like the directory it is in.
DB == <<"app", "charts", "charts">>
MCOrder ==
  <<<<>>, <<"app">>, <<"app", "Chart.yaml">>, <<"app", "charts">>, DB, ChartFile(DB),
    DB \o <<"templates">>, DB \o <<"templates", "db.yaml">>, <<"app", "infra.bicep">>,
    <<"app", "templates">>, <<"app", "templates", "tests">>,
    <<"app", "templates", "tests", "web.yaml">>, <<"main.tf">>, <<"svc.yaml">>>>

MCLanguage(p) ==
  IF p = <<>> THEN "directory"
  ELSE CASE Last(p) = "main.tf" -> "terraform"
         [] Last(p) = "infra.bicep" -> "bicep"
         [] Last(p) \in {"Chart.yaml", "db.yaml", "web.yaml", "svc.yaml"} -> "kubernetes"
         [] OTHER -> "directory"

Content(ok, yaml, severities) ==
  [ok |-> ok, yaml |-> yaml, resources |-> ok, severities |-> severities, raw |-> {}, name |-> ""]
Chart(name) ==
  [ok |-> TRUE, yaml |-> TRUE, resources |-> FALSE, severities |-> {}, raw |-> {}, name |-> name]

Clean == Content(TRUE, TRUE, {})
Failing == Content(TRUE, TRUE, {"MEDIUM", "CRITICAL"})
Broken == Content(FALSE, FALSE, {})
Templated == Content(TRUE, FALSE, {})
Risky == [Content(TRUE, TRUE, {"HIGH"}) EXCEPT !.raw = {"MEDIUM"}]

\* The chart's name is not its directory's; the subchart's may be.
MCVersions(f) ==
  CASE Last(f) = "main.tf" -> {Clean, Broken}
    [] Last(f) = "infra.bicep" -> {Clean}
    [] Last(f) = "svc.yaml" -> {Clean, Failing, [Clean EXCEPT !.resources = FALSE]}
    [] f = ChartFile(<<"app">>) -> {Chart("shop")}
    [] f = ChartFile(DB) -> {Chart("charts"), Chart("postgres")}
    [] Last(f) = "web.yaml" -> {Templated, Risky, Broken}
    [] Last(f) = "db.yaml" -> {Clean}

\* A tree with every file and no findings, and those that differ from it in
\* one file; outside of charts a file that is gone at the start shows nothing
\* that an edit does not.
Base ==
  [f \in Files |-> CASE f = ChartFile(DB) -> Chart("charts")
                     [] Last(f) \in {"main.tf", "svc.yaml"} -> Clean
                     [] Last(f) = "web.yaml" -> Templated
                     [] OTHER -> CHOOSE c \in MCVersions(f) : TRUE]
MayBeGone(f) == IF Last(f) \in {"Chart.yaml", "web.yaml"} THEN {Gone} ELSE {}
MCTrees ==
  {Base} \cup
    UNION {{[Base EXCEPT ![f] = c] : c \in MCVersions(f) \cup MayBeGone(f)} : f \in Files}
=============================================================================
