----------------------------- MODULE Compliance -----------------------------
(* The compliance rollup: the latest scan of each project, and the controls  *)
(* of two frameworks its findings bear on. A scan's findings are the set of  *)
(* the rule ids it reports; org and project are one name.                    *)
EXTENDS Integers, Sequences

soc2Controls ==
  [CC6_1 |-> {"PF-AZ-001", "PF-AWS-001"},
   CC6_6 |-> {"PF-AZ-010", "PF-AWS-010", "PF-K8S-002"},
   CC6_7 |-> {"PF-AZ-002"},
   CC6_8 |-> {"PF-K8S-001", "PF-K8S-003", "PF-K8S-004"},
   A1_2  |-> {"PF-AZ-020", "PF-K8S-005"}]

pciControls ==
  [P1_3   |-> {"PF-AZ-010", "PF-AWS-010", "PF-K8S-002"},
   P3_6   |-> {"PF-AZ-020"},
   P4_2_1 |-> {"PF-AZ-002"},
   P7_1   |-> {"PF-AZ-001", "PF-AWS-001"},
   P7_2_1 |-> {"PF-K8S-001", "PF-K8S-003", "PF-K8S-004"}]

frameworks == [SOC2 |-> soc2Controls, PCI |-> pciControls]

\* Variant: the rule without a PCI control is left out.
allRuleIDs_Incomplete ==
  {"PF-AZ-001", "PF-AZ-002", "PF-AZ-010", "PF-AZ-020", "PF-AWS-001", "PF-AWS-010",
   "PF-K8S-001", "PF-K8S-002", "PF-K8S-003", "PF-K8S-004"}

allRuleIDs ==
  {"PF-AZ-001", "PF-AZ-002", "PF-AZ-010", "PF-AZ-020", "PF-AWS-001", "PF-AWS-010",
   "PF-K8S-001", "PF-K8S-002", "PF-K8S-003", "PF-K8S-004", "PF-K8S-005"}
-----------------------------------------------------------------------------
\* Variant: every row does, so the last one listed is kept.
Replaces_Always(row, kept) == TRUE

\* A row takes the place of the one kept so far for its project only if it is
\* newer.
Replaces(row, kept) == row.createdAt > kept.createdAt

\* The n-th row listed is the one its project is left with: it is newer than
\* those of the project before it, and none after it is newer.
KeptToTheEnd(table, listed, n) ==
  \A l \in DOMAIN listed :
    table[listed[l]].project = table[listed[n]].project =>
      /\ l < n => Replaces(table[listed[n]], table[listed[l]])
      /\ l > n => ~Replaces(table[listed[l]], table[listed[n]])

\* The ids of the latest scans, from the rows in the order they are listed.
latestScanPerProject(table, listed) ==
  {listed[n] : n \in {m \in DOMAIN listed : KeptToTheEnd(table, listed, m)}}

\* What one control shows: every latest scan with a finding it maps.
ProjectFailures(table, latest, rules) ==
  {[project |-> table[i].project, scan |-> i,
    findings |-> table[i].findings \cap rules] :
     i \in {j \in latest : table[j].findings \cap rules # {}}}

buildControlStatuses(controls, table, latest) ==
  [c \in DOMAIN controls |-> ProjectFailures(table, latest, controls[c])]

unmappedRuleIDs(controls) ==
  allRuleIDs \ UNION {controls[c] : c \in DOMAIN controls}

BuildComplianceReport(table, listed) ==
  LET latest == latestScanPerProject(table, listed) IN
    [failing |-> [f \in DOMAIN frameworks |->
                    buildControlStatuses(frameworks[f], table, latest)],
     unmapped |-> [f \in DOMAIN frameworks |-> unmappedRuleIDs(frameworks[f])]]
=============================================================================
