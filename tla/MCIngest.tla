------------------------------ MODULE MCIngest ------------------------------
(* Instances of Ingest: bodies without documents, with one, with both and    *)
(* one that is refused; a right credential and a wrong one.                  *)
EXTENDS Ingest

MCBodies ==
  {[project |-> "web", findings |-> {}, sbom |-> "", provenance |-> ""],
   [project |-> "web", findings |-> {"PF-AZ-001"}, sbom |-> "bom", provenance |-> ""],
   [project |-> "api", findings |-> {"PF-AZ-001"}, sbom |-> "bom2", provenance |-> "slsa"],
   [project |-> "", findings |-> {}, sbom |-> "", provenance |-> ""]}
MCCredentials == {<<"ci", "secret">>, <<"eve", "guess">>}

MCStart == {0}
MCSteps == {1}
=============================================================================
