----------------------------- MODULE Dashboard ------------------------------
(* What the dashboard's read handlers show while uploads go on: the scan     *)
(* list, a scan's detail view and the compliance report are each built from  *)
(* one SELECT, so they are functions of the tables at the moment it runs.    *)
EXTENDS Ingest, ScanOrder, Compliance

VARIABLE earlier   \* earlier[u]: the uploads acknowledged when u was posted

dashboardVars == <<vars, earlier>>

AckedNow == {u \in Uploads : client[u].state = "uploaded"}

DashboardInit == Init /\ earlier = [u \in Uploads |-> {}]

\* earlier only remembers: it guards nothing.
DashboardNext ==
  \/ \E u \in Uploads : Post(u) /\ earlier' = [earlier EXCEPT ![u] = AckedNow]
  \/ \E u \in Uploads : (Disconnect(u) \/ Serve(u)) /\ UNCHANGED earlier
  \/ Crash /\ UNCHANGED earlier

DashboardSpec == DashboardInit /\ [][DashboardNext]_dashboardVars
-----------------------------------------------------------------------------
\* Store.All, and the list handleScansList makes of it.
All == NewestTextFirst(scans)

\* Variant: one column stands for both tags.
scanSummary_OneTag(id, row) ==
  [id |-> id, project |-> row.project,
   hasSBOM |-> row.sbom # "", hasProvenance |-> row.sbom # ""]

\* What the list shows of a scan, the counts aside; a NULL column reads as "".
scanSummary(id, row) ==
  [id |-> id, project |-> row.project,
   hasSBOM |-> row.sbom # "", hasProvenance |-> row.provenance # ""]

handleScansList ==
  LET listed == All IN [k \in DOMAIN listed |-> scanSummary(listed[k], scans[listed[k]])]

\* Store.Get: the row, if the id is one.
Get(id) == {scans[i] : i \in DOMAIN scans \cap {id}}

\* The detail view of a scan; an id without a row is a 404.
handleScanDetailAPI(id) ==
  {[summary |-> scanSummary(id, row), findings |-> row.findings,
    sbom |-> row.sbom, provenance |-> row.provenance] : row \in Get(id)}

handleComplianceReport == BuildComplianceReport(scans, All)

\* The scans a report calls failing, under any control of any framework.
Failing(report) ==
  {x.scan : x \in UNION {UNION {report.failing[f][c] : c \in DOMAIN frameworks[f]} :
                           f \in DOMAIN frameworks}}
-----------------------------------------------------------------------------
\* The rules of the embedded packs, as the packs themselves have them.
Packs == INSTANCE RulePacks
PackRules == UNION {{rule.id : rule \in m.rules} : m \in Packs!embedded}

\* No scan of the same project carries a later time.
Newest(i) ==
  \A j \in DOMAIN scans :
    scans[j].project = scans[i].project => scans[j].createdAt <= scans[i].createdAt

\* A scan answered before a rescan of its project was even posted is out of
\* the report once the rescan is answered, whatever else is being ingested
\* and in whatever order the list came (BuildComplianceReport's comment).
SupersededIsGone ==
  LET failing == Failing(handleComplianceReport) IN
    \A u, v \in Uploads :
      /\ client[u].state = "uploaded"
      /\ client[v].state = "uploaded"
      /\ u \in earlier[v]
      /\ Body(u).project = Body(v).project
      => client[u].id \notin failing

\* Every project that was scanned is in the report with a newest scan of its
\* own: each finding that is a pack's is shown under some control of the
\* framework for that scan, or its rule is listed as unmapped (the comments on
\* latestScanPerProject and allRuleIDs).
NoFindingHidden ==
  LET report == handleComplianceReport IN
    \A f \in DOMAIN frameworks : \A p \in {scans[i].project : i \in DOMAIN scans} :
      \E i \in DOMAIN scans :
        /\ scans[i].project = p /\ Newest(i)
        /\ \A r \in scans[i].findings \cap PackRules :
             \/ r \in report.unmapped[f]
             \/ \E c \in DOMAIN frameworks[f] : \E x \in report.failing[f][c] :
                  x.scan = i /\ x.project = p /\ r \in x.findings

\* The address a 201 gives opens the scan exactly as it was posted, and keeps
\* doing so; the scan is in the list once, with a tag for each document it
\* came with; and each line of the list leads to a detail
\* view that agrees with it.
AckedIsListed ==
  LET list == handleScansList IN
    /\ \A u \in Uploads : client[u].state = "uploaded" =>
         LET id == client[u].id
             summary == [id |-> id, project |-> Body(u).project,
                         hasSBOM |-> Body(u).sbom # "",
                         hasProvenance |-> Body(u).provenance # ""]
         IN /\ handleScanDetailAPI(id) =
                 {[summary |-> summary, findings |-> Body(u).findings,
                   sbom |-> Body(u).sbom, provenance |-> Body(u).provenance]}
            /\ \E k \in DOMAIN list : list[k] = summary
    /\ \A k \in DOMAIN list :
         /\ \E detail \in handleScanDetailAPI(list[k].id) : detail.summary = list[k]
         /\ \A l \in DOMAIN list : list[l].id = list[k].id => l = k

\* On a server whose zone never changes its offset, the texts sort as the
\* times do, but for scans of the same second (in UTC, "12:00:00.5Z" sorts after
\* "12:00:00.51Z"): no scan is listed above one of a later second.
OrderedToTheSecond ==
  LET list == All IN
    \A k, l \in DOMAIN list :
      k < l => scans[list[k]].createdAt \div Second >= scans[list[l]].createdAt \div Second

\* Store.All's comment: most recently ingested first.
AllMostRecentFirst ==
  \A k, l \in DOMAIN All :
    k < l => scans[All[k]].createdAt >= scans[All[l]].createdAt
=============================================================================
