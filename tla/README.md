# PolicyForge: specifications, model checks and proofs

PolicyForge scans infrastructure code (Terraform, Bicep, Kubernetes, Helm) with
Rego rule packs, prints findings, SBOMs and provenance, uploads scan records to
a small portal, and compares declared with deployed Azure resources. This
directory holds TLA+ models of that program, TLC configurations that check them
on small instances, and TLAPS proofs of what matters most for every value of
the parameters. Paths below are relative to the repository (`src/`).

Run `tlc -config MCIngest.cfg MCIngest` for a check and `tlapm PortalProofs.tla`
for the proofs of a module.

## 1. Inventory

| Part | State | Operations | What makes it correct |
|---|---|---|---|
| Portal ingestion: `enterprise/portal/{handlers,store,auth}.go` | tables `scans` and `audit_events`; one goroutine per request | `POST /api/scans`: credentials, body checks, `Add`, `SetArtifacts`, `AddAuditEvent`, answer | a 201 means stored, whole and logged; no upload touches another's row; nothing is stored twice or for strangers |
| Portal reads: `handlers.go`, `store.go` | none of its own | scan list, compliance report, details, session, audit list | acknowledged scans stay listed, in order, and open as posted; a report shows no superseded scan |
| Portal start-up: `main.go` | settings | open the store, check the OIDC settings, serve | it comes up unless half of its sign-on settings are missing or something fails |
| Compliance rollup: `compliance.go` | two control tables | `BuildComplianceReport` | no finding of a newest scan is hidden |
| Single sign-on: `sso.go`, `store.go` | table `sessions`; two cookies per browser | login, callback, logout, `requireSession` | sessions stay with their browser, are logged before they serve, and end at logout |
| Store schema: `NewStore` | the file's tables and columns | five idempotent statements at each start | a portal that serves has the whole schema; it comes up after any interruption |
| CLI scan: `cmd/policyforge/main.go` | one process: parse results, documents, files | parse with four parsers, evaluate, print, SBOM, provenance, upload, gate | exit code 0 vouches for all that is made but what is printed; the outputs agree with each other |
| CI wrappers: `integrations/` | the job's verdict | run the scan, publish SARIF, gate | no job passes what it should stop |
| Policy engine: `internal/engine` | loaded modules | load packs, compile, evaluate, walk results, gate | no rule is silently left out; severities are the pack's own |
| Rule packs: `policies/` | data | 11 rules in 6 files | languages are judged alike |
| Normalizer: `internal/normalizer` | a table | `Normalize` | equal resources get equal types |
| Drift: `internal/drift` | one answer of Azure Resource Graph | query, match, compare | drift reported is a difference in the declared resource |
| Bicep parser | two counters | a line scanner | finds what is declared, no more |
| Terraform, Kubernetes, Helm parsers | none | HCL and YAML walks, `helm template` | attributes survive; files are shared out once, and resources keep their file |
| Signer: `internal/signer` | two files on disk | one `cosign` command each for `sign` and `attest` | a results file is attested to with the predicate of its own scan |
| Web dashboard | none | rendering and a proxy | not modelled, see section 7 |

How they interact: the CLI parses with the four parsers, normalizes, evaluates
the packs and prints; with `--upload` it POSTs one record to the portal and
waits for the answer, with neither a timeout nor a retry. The portal's handlers
share one SQLite file and otherwise know nothing of each other. The dashboard
reads through the same handlers, behind SSO sessions if those are configured.
Each CI integration wraps one CLI run. `drift` uses the Terraform and Bicep
parsers, the type table, and the Bicep parser's property table for both the
declared and the live side.

What is hard here: handlers run concurrently and make several statements with
no transaction around them; every statement may fail and the portal may stop
between two; tabs of a browser share cookies; the order of lists is that of
texts, not times; two wrappers map one exit code to a verdict; four walks, in
which two parsers decide about charts on their own, and a second reading for
digests see a tree that may be edited; files of an earlier run lie about; a parser counts braces instead of parsing; tables in four packages
have to agree on names. `PROJECT.json` lists these hazards at their lines with
the properties that cover them.

## 2. Modules

| Module | Models | Composes |
|---|---|---|
| `ScanLedger` | the abstract promise about an upload: recorded, complete, audited, acknowledged, in this order, never back | |
| `Ingest` | the handler and the CLI around it, statement by statement | refines `ScanLedger` |
| `ScanOrder` | `created_at` as text and SQLite's order of texts | |
| `Compliance` | the control tables and the report, as pure operators | |
| `Dashboard` | list, detail view and report over the table while uploads go on | `Ingest`, `ScanOrder`, `Compliance`, `RulePacks` |
| `PortalProofs` | theorems about `Ingest` and `Dashboard`, and that `Ingest` implements `ScanLedger` | `Dashboard`, `TLAPS` |
| `Sso` | browsers, cookies, sessions, the four endpoints | |
| `SsoProofs` | theorems about `Sso` | `Sso`, `TLAPS` |
| `Migration` | a start: `NewStore` on a file of any earlier shape, then the settings, by several portals | |
| `MigrationProofs` | theorems about `Migration` | `Migration`, `TLAPS` |
| `SourceTree` | the four parsers' walks over a tree that may be edited | |
| `ScanRun` | one CLI scan from flags to exit code | `SourceTree` |
| `CIJob` | the job around it: Azure, GitHub, a shell, the README's supply chain of two scans, a signature and an attestation | `ScanRun` |
| `SourceTreeProofs` | what the four walks have read at any point | `SourceTree`, `TLAPS` |
| `CIJobProofs` | theorems about `CIJob`, the scan inside and its reading of the tree | `CIJob`, `SourceTreeProofs` |
| `Normalizer` | the type table and the property table | |
| `RulePacks` | every rule of the six packs, as data | |
| `Evaluation` | declarations to findings, with a user's policy directory | `Normalizer`, `RulePacks` |
| `EvaluationProofs` | theorems about `Evaluation` and the tables and packs it uses | `Evaluation`, `TLAPS` |
| `BicepScanner` | `ParseFile` of the Bicep parser, line by line | |
| `BicepScannerProofs` | theorems about `BicepScanner` | `BicepScanner`, `TLAPS` |
| `Drift` | the drift command from flags to exit code | `Normalizer` |
| `DriftProofs` | theorems about `Drift` | `Drift`, `TLAPS` |

Those that run by themselves have an `MC` module with the sets TLC needs and one
or two configurations (`MCCIJob` stands for `SourceTree`, `ScanRun` and `CIJob`).
Operators named `X_Something` in front of `X` are plausible bugs of `X`
("Variant"): they are used by nothing, and each property listed for a passing
run is violated when its variant takes `X`'s place. They show that the property
can fail.

### How state and actions correspond to the code

**Ingest.** `scans` and `audit` are the tables, a row's id its position.
`handler[u]` is the goroutine that serves upload `u`: `pc` is the statement it
is about to run, and `createdAt`, `id` and `code` are its locals. `Receive` is
`basicAuth` and the body checks, `Stamp` the `time.Now()` of `Store.Add` (read
before the INSERT, so commits may come in another order than times), then
`Add`, `SetArtifacts` (only with documents), `AddAuditEvent`, and `Respond` or
`Reply`. `ExecFails` is an error of the statement at hand; `Disconnect` a client
that is gone, `Crash` a restart that loses goroutines and keeps tables. A row's
field `req` is not a column: it records who wrote the row, for the properties.

**Dashboard.** Adds no step to `Ingest`, only the variable `earlier`, which
remembers what had been acknowledged when an upload was posted. List, detail
view and report are one SELECT each and so are functions of the tables.
The order of the list is the one in which each row is above all later ones;
the report keeps, of a project, the row that no other of the project replaces on
the way through the list. `ScanOrder` keeps the shape of RFC3339Nano that matters: fixed width down to
the second, trailing zeros and a bare dot dropped, then the zone.

**Sso.** `flow` is a login from its state value to its spent code; `cookies`
are shared by the tabs of a browser; `request[r]` is a goroutine with its
locals, one action per statement. The identity provider is external: `Grant`
issues a code for a state, once, perhaps to an account without an address.
`SendCallback` carries any granted state in any browser, which stands for
reloads, copied addresses and overwritten cookies; it brings the code along that
was issued for the state, as the provider puts the two into one address (the
handler reads them as two parameters, `sso.go:99,104`). `TypeOK` says besides the
types that a session is stored only for a callback that has been told who logs
in, in that person's name. `Tick` and `StateExpires`
are time.

**Migration.** `at[p]` is the statement process `p` is at. A start may be given
what any interrupted one has left (`After`) or the file of an older version
(`Older`: scans came first, then sign-on, the audit trail, and the two columns
last, by `docs/roadmap.md`), so the columns may be missing from a file that has
every table. `Create` is a
`CREATE TABLE IF NOT EXISTS`, `AddColumn` an `ALTER TABLE` whose error
"duplicate column name" is swallowed; `Configure` is main's check of the OIDC
settings, which either ends the start or leads to service; `Fault` is any other
error, an issuer that cannot be reached, a taken port, or a kill.

**SourceTree.** `Order` lists all paths a tree may have in the order WalkDir
visits them. `walk` is the parser at work and `at` the place its walk has come
to; `Stop` takes it to the next path at which that parser does anything.
`ReadFile` is one file (not there, well formed, or an error that ends the scan),
`EnterDirectory` the Kubernetes parser's look for a `Chart.yaml`, `RenderChart`
one `helm template` and the split of its output, `NextWalk` parseAll's next
call. `Edit` is whoever works in the directory; a file added or removed since
the walk began may or may not have been listed (`changed`). `helm template` is external: it renders what is below `templates/` of the chart
at hand (`Templates`), at any depth, and of its subcharts `charts/x`,
`charts/x/charts/y` and so on (`ChartDirs`), no other directories. Contents are
abstract: well formed or not, YAML as it stands or only once rendered, with
which severities once values are filled in and which when a template is read as
it stands (`raw`). `resources` are batches, one per file and parser, with the
path they carry (`file`) and the file they come from (`from`).

**ScanRun.** `pc` walks through `runScan`; every early return leads to an exit
code. `ParseStep` is one step of `SourceTree`. `Hash` opens one file for its
digest, under the path its resources carry; `WritePredicate` may fail and leave
the file cut short (`Torn`) or as an earlier run left it (`Stale`). Errors of
writing to stdout are dropped in the code, so `ToStdout` may leave what is
printed cut short and the run goes on. `posted` is a record that came to the
portal, `acked` one it answered with a 201.

**CIJob.** `AzureTask` and `GitHubAction` turn the exit code and the printed
SARIF into the job's verdict. A supply chain is the README's (`README.md:53-59`):
a scan, `Sign`, the scan again with `--provenance` and its output in the same
results file (`Rescan`), `Attest`. `first` remembers what the signed scan had
read, `strict` is a script that stops at the first error.

**Evaluation.** `LoadUserModule` reads one policy file, `Prepare` compiles,
`EvalResource` evaluates one resource and walks the result. A declaration goes
through its language's parser operator (`TerraformAttributes`,
`BicepAttributes`, `podSecurityAttributes`) and the type table. A Rego rule is a
conjunction in which a condition on a missing attribute is undefined, so it
does not fire; two values for one severity key are an evaluation error.
`SameSettings`, `StatedSettings` and `PodSpecs` model no code: they say, for the
properties, what is the same setting in Terraform's and Azure's schemas, what the
packs' comments call wrong, and where Kubernetes has a pod's spec. The code's
own tables are checked against them.

**BicepScanner.** A file is chosen a line at a time as the scanner comes to it;
`path` is the true nesting, which the scanner does not know, and `declared` what
the file really declares. `depth`, `propertiesDepth`, `r` and `resources` are
the scanner's variables. Each action is one kind of line.

**Drift.** `cloud` is what is deployed, `live` the rows of the answer, in any
order and cut at `PageSize`. `CompareNext` is one turn of the loop of `Compare`. `Name` is what the lookup
goes by, for Terraform the block's label; `Deployed` goes by the name in the
cloud.

## 3. Runs

| Run | Instance | What it shows |
|---|---|---|
| `ingest` | two uploads; bodies with no, one and two documents and a refused one; a right, a wrong and no credential | a 201 is durable and complete, no cross-talk between rows, the log only names whole scans, one POST stores at most one row, only authenticated clients store; the handler implements `ScanLedger`; every POST ends |
| `dashboard` | three uploads of two projects, clock moving forward, zone of fixed offset | a rescan supersedes whatever it was posted after; every finding of a pack in a newest scan of each project is under a control, or its rule is listed as unmapped (the portal's tables against the packs' own rules); acknowledged scans stay listed with their tags and open as they were posted, and list and detail view agree; the order is right to the second |
| `list_dst` | two uploads around the end of summer time | *violated*: "most recently ingested first" (`store.go:280`) fails when the offset changes |
| `sso` | two logins, two browsers, two accounts, one logout, one read; all statements but DELETE may fail | nobody is served and no logout is logged without a logged login; a session stays with its browser; one login yields one session; a logout is final |
| `sso_revoke` | the same with one login and a failing DELETE | *violated*: "deletes the session server-side" (`sso.go:161`); the error is dropped |
| `migration` | two portals, the file of each older version and of each interrupted start, no, some or all OIDC settings, faults at any statement | a serving portal has the schema, only faults and half settings stop a start, all others come up |
| `scan_run` | a tree of seven files (Terraform, a manifest, a chart with a template below `templates/tests/`, a Bicep file and a subchart `charts/charts`), every variant of one file, every directory as `--path`, with and without helm, every flag, stdout cut short or not, four kinds of job, one edit at any point of either scan's reading | each file is read once, by the parser it belongs to; resources keep their file; what exit 0, the outputs, a signature, an attestation and a passed job vouch for; every run ends |
| `scan_run_fail_on_high` | the same, without an edit | *violated*: the GitHub action's `fail-on-high` (`action.yml:13`) is read by nothing |
| `policies` | every two of 23 declarations under every two of 8 policy files | no rule is left out of a scan that succeeds; the same resource in Terraform and in Bicep is judged alike; what a declaration says in so many words does not escape |
| `bicep` | files of any length, blocks four deep, two resources | what is found is what is declared |
| `drift` | every two of 9 declarations against every three of 8 live resources, answers of two rows | a reported drift is a declared value and a live one that differ and, with the command's own query, both are of the declared resource, unless its label is the name of another; under stated conditions the report is exact |
| `drift_missing` | the same, answers of three rows | *violated*: a deployed resource is reported missing (`drift.go:57-58`) because Terraform's is looked up by its block label |

**Why the bounds are enough.** Interference between handlers is pairwise: each
property speaks of one upload and one other, or of one row and one other, so
two uploads show every order of their statements; the report needs a third to
tell "latest of the project" from "latest of all". Two logins and two browsers
give every mix-up of state, cookie and session. Two portals and three faults let
one fail, restart and fail again at every statement while the other is at any.
The tree of `scan_run` has one file of each language, a manifest on either side
of a chart's boundary and a subchart two directories down, so that each rule of
the walks has a file it applies to and one it does not; one edit is one file
that differs between any two of the five readings. Four levels are `properties`
within a block within `properties` within a resource; the proofs remove this
bound. Two declarations suffice for drift and
policies because each is treated on its own; the second is there for results
that might leak from one to the other. `PageSize` is 1,000 rows in reality and
`Radix` ten: only whether an answer is cut, and whether a digit is zero, is
told apart. The three times of `dashboard` have one digit of fraction, two and
none, and the second changes at the last: texts of every length, within one
second and across two. A zero in front of another digit does not come up;
`ListIsInOrder` is for all times. In the tree of `scan_run` the subchart is
called `charts` and the chart's template lies below `templates/tests/`, where a
rule about directories would first go wrong. The one edit may come in the first
scan or in the second, so a chain meets a tree that stays and one that changes.

Symmetry is used in `dashboard`, `list_dst`, `sso` and `sso_revoke` alone, over
sets of model values the specifications never tell apart, and with invariants
only. Deadlock checking is off where a system really ends: each client posts
once, a scan exits.

**What the `sso` run assumes.** `LogoutRevokes` is checked with a DELETE that
does not fail; `sso_revoke` is the other case. **What `dashboard` assumes.**
`SupersededIsGone` needs a clock that is not set back, `OrderedToTheSecond` a
zone of fixed offset; `list_dst` drops the latter.

## 4. Fairness

- `Ingest`: weak fairness of `Serve(u)`, the handler's own steps. net/http keeps
  running a goroutine, and each database call returns, if with an error
  (`ExecFails` is among these steps). Clients and crashes owe nothing: an upload
  whose portal stops ends with a broken connection. Used by
  `EveryUploadAnswered`.
- `Migration`: weak fairness of a process's start (`Start`) and of its restart
  (`docker-compose.yml:22`, `restart: unless-stopped`). Faults are bounded by
  `MaxFaults` and owe nothing. Used by `ComesUp`.
- `CIJob`: weak fairness of the scan's steps and of the job's. That the POST
  returns is assumed: the client sets no timeout, so against a portal that
  accepts and never answers a scan hangs. That `helm` and `cosign` return is
  assumed as well. Edits owe nothing. Used by `EveryRunReports`.
- `Dashboard`, `Sso`, `Evaluation`, `BicepScanner`, `Drift`: no fairness, no
  liveness property.

## 5. Proofs

Every safety property that a passing run checks is also proved, for every value
of the constants, from the assumptions and premises named below. The assumptions
are `ASSUME`s of the models, which TLC evaluates on the instances; a premise is
a hypothesis of one theorem that the instance of the run meets.

### The portal

`PortalProofs`, for any set of uploads, bodies, credentials and any clock,
forward or backward:

| Theorem | States |
|---|---|
| `TypeCorrect` | `[]TypeOK` |
| `Invariance` | `[]IInv` |
| `AckedDurable` | `[]AckedIsDurable` |
| `NoCrossTalk` | `[]ArtifactsBelongToScan` |
| `AuditIsTrue` | `[]AuditNamesCompleteScan` |
| `AtMostOnce` | `[]OneRowPerRequest` |
| `Authenticated` | `[]OnlyAuthenticatedIngest` |
| `LedgerImplemented` | `ImplementsLedger`, the refinement of `ScanLedger` |
| `ListIsTrue` | `[]AckedIsListed` |
| `NothingHidden` | `[]NoFindingHidden` |
| `ListIsInOrder` | `[]OrderedToTheSecond`, in a zone of one offset |
| `RescanSupersedes` | `[]SupersededIsGone`, if the clock moves on |

None of the safety properties is inductive: that a 201 is durable depends on
what the goroutine had done before it got there. `IInv` says, for each point of
the handler, what is already in the tables in its name: nothing before `Add`, a
row of its own after it, a whole row before `AddAuditEvent`, everything
(`Settled`) before a 201. `RowsInv` and `EventsInv` say that rows are unique per
request and hold its data. The proof has one lemma per action. It rests on two
observations: each statement touches one row or appends one (`OthersKept`,
`Unwritten`), and what is settled stays settled (`SettledStays`), so that a step
of one upload only has to re-establish its own part (`OwnPartSuffices`).
This is why three statements without a transaction are enough for an
acknowledged upload. Assumptions: `BodiesAssumption`, `HeaderAssumption` (no
header is not a credential), `ClockAssumption` (readings are integers) and
`RadixAssumption`.

The refinement goes by the mapping `stages` (how far an upload has come, read
off the tables and the client). The initial states map to "absent"; a step that
writes no table and makes no client succeed is a stutter (`UnwrittenStays`), and
each of the four others advances one upload by one stage (`AddAdvances` and its
like). `IInv` is needed there too: without it an INSERT of the log could come
before the row is whole, and the log would run ahead of the ledger.

The list is a CHOOSE over all ways to put the rows in the order of their texts,
so first comes that there is one: `TextOrder` and `RowOrder` show that the texts
with the id as tie-break order the rows linearly, `Sortable` that then a sorted
list exists, one row longer at a time (`Inserted`, and `Least` for the
induction), and `EachListedOnce` that each row is in it once. `OneIsKept` and
`KeptIsNewest` say that the report keeps exactly one row of each project and
that none of the project is above it; `PackRulesAreKnown` that the portal's
control tables and its list of rule ids between them have every rule of every
pack. For `RescanSupersedes` the invariant `TimesInv` says that whatever is in
the table, or has its stamp and is not in it yet, is later than everything that
had been acknowledged when its upload was posted. Premises: `Offsets` (a zone's
offset is an integer), one offset for all times in `ListIsInOrder` (`list_dst`
shows why), `ClockMovesOn` in `RescanSupersedes` (no reading is repeated).

### The Bicep scanner

`BicepScannerProofs`, for any types and key map, files of any length and
nesting:

| Theorem | States |
|---|---|
| `Invariance` | `[]IInv` |
| `TypeCorrect` | `[]TypeOK` |
| `CountersTell` | `[]CountersTellPath` |
| `FindsDeclared` | `[]FindsWhatIsDeclared` |

Here `FindsWhatIsDeclared` only compares two lists and says nothing of the
counters; `CountersTellPath` ties `depth` to the length of the true path and
`propertiesDepth` to its first two blocks, and is inductive together with the
types. The lemmas say what a line does to the counters: `SamePath` for lines
that open no block, `Outer` for one that closes one, and one `...Keeps` per
action. Assumptions: `NamesAssumption`, `BoundsAssumption`, `KeysAssumption`
(`name` is nobody's mapped key, as in `armAttrKeyMap`), `TypesAssumption`.
`MaxDepth` and `MaxResources` are parameters of the theorems: they hold for
every value.

### Sign-on and schema

`SsoProofs`, for any browsers, accounts, logins, logouts and reads, any lifetime
of a session and any set of failing statements:

| Theorem | States |
|---|---|
| `TypeCorrect` | `[]TypeOK` |
| `ServiceFollowsLog` | `[]ServedLoginIsAudited` |
| `SessionsStayPut` | `[]SessionStaysWithItsBrowser` |
| `LoginsAreSpentOnce` | `[]OneSessionPerLogin` |
| `LogoutIsFinal` | `[]LogoutRevokes`, if no DELETE fails |

Who is served depends on a cookie, the cookie on a row, the row on a callback
and that on a login, each made by another goroutine at another time. The
invariant says for each goroutine what is behind its point (`RequestsOK`: a
callback hands out its cookie only when its login is logged), whose the rows
and cookies are (`SessionsOK`, `CookiesOK`), that a code is exchanged once
(`OneExchange`), and that a logged logout has its login before it
(`LogoutsLogged`). `Grows` collects what no step undoes (spent codes, finished
callbacks, the log), so that a step only has to account for the request it
moves. For `LogoutIsFinal` a second invariant on top says that the rows of
finished logouts are gone; a session row is created only by a callback that has
not finished, and a logout only has sessions of callbacks that have. Assumption:
`NamesAssumption`.

`MigrationProofs`, for any number of portals and faults: `TypeCorrect`
(`[]TypeOK`), `ServesWholeSchema` (`[]ReadyHasSchema`, from the file of any older
version too) and `StartsSurvive`
(`OnlyFaultsStopAStart`). The invariant `DoneStays` says that the work of every
statement a portal is past is in the file; it holds across restarts and other
portals because nothing is ever dropped from the schema.

### The scan and its job

`SourceTreeProofs` and `CIJobProofs`, for every tree, every way it is edited,
any flags and job:

| Theorem | States |
|---|---|
| `TypeCorrect` | `[]TypeOK` |
| `FilesSharedOut` | `[]SharedOut` |
| `RightPaths` | `[]AttributedToItsFile` |
| `OneReading` | `[]OutputsAgree` |
| `QuietProvenance` | `[]QuietTreeProvenance` |
| `ZeroIsTrue` | `[]ZeroMeansAllDone` |
| `StrictAttestation` | `[]AttestedTogether` |
| `NoFalsePass` | `[]GateHolds` |

That two parsers which each decide about charts on their own share the files out
is seen from a place in `Order`. `TreeInv` says, as long as nobody has edited the
tree: what a walk has come past has been read (`ReadBehind`), or rendered with
the topmost chart around it (`RenderedBehind`); nothing else has been read
(`Sound`), and no file twice (`Once`); and the walks that leave charts out never
stand inside one (`WalkOutside`). `Advance` is the step all walks share: between
two places at which a parser does something there is nothing for it to do.
`BehindChart` is SkipDir: behind a chart comes the first path outside of it,
because `Order` lists what is in a directory next to each other. At the end each
file is behind the one walk that owns it (`OwnerHasRead`, `Sharing`). That a
rendered resource carries its own path comes from `NamesBelow` and `Resolved`:
dropping the first segment of the path helm prints and keeping the rest is right
whatever the chart is called, if subcharts are called like their directories.

On top of that, `ResultsInv` says what each point of `runScan` has behind it and
`JobInv` what the job has made of it; `resources` changes only before the first
result of its scan is made, which is why one reading feeds them all. `ReadingInv`
ties the digests to the tree: each is of a content the file has had, and on a
tree nobody edits of the one that was scanned. A second scan begins with nothing
read and so meets `TreeInv` again (`RestartInv`). That it reads the same on a
tree nobody edits, and that what is attested to is then what was signed, is
`ChainInv`: `SameReading` says that two readings which have each come to their
end on one tree have the same resources, as `TreeInv` fixes them from both sides.
`StrictAttestation` and `ZeroIsTrue` speak of a printed file that is whole or
`Torn`: the write's error is dropped, so more cannot be had. Assumptions: `OrderAssumption` (each path
once, and each directory's contents next to each other after it),
`TreesAssumption`, `EditsAssumption` and `NoneAssumption`.

### Evaluation

`EvaluationProofs`, for any declarations, any policy files and any number of
both:

| Theorem | States |
|---|---|
| `TypeCorrect` | `[]TypeOK` |
| `NoRuleLeftOut` | `[]EveryRuleIsHeard` |
| `StatedFlawsFound` | `[]NoStatedFlawEscapes` |
| `TwinsAgree` | `[]LanguagesAgree`, if users' rules ask for known attributes |

`LoadedInv` says that what is loaded is the packs and the files walked so far,
all of the namespace; `HeardInv` that the findings are exactly those of the
resources evaluated so far. The rest is about the tables, of which the proofs
expand every row: `SettingKept` and `ContainerFires` follow a setting from its
declaration through the parser, the property table and the type table to the
condition of a rule that asks for it; `TablesMeet` says that the parsers' two
names of a setting become one, and that none collides with another, so twins are
the same resource to any rule that asks for what both tables know
(`TwinResources`, `TwinsFire`). Premise of `TwinsAgree`: `UserRulesKnown`. A
user's rule about any other attribute does tell the languages apart, because
Bicep's parser drops what is not in its table. Assumptions: `FilesAssumption`
(a policy file is compiled or not, has a package, rules and severities) and
`BoundsAssumption`.

### Drift

`DriftProofs`, for all declarations, live resources, pages and foldings of
names:

| Theorem | States |
|---|---|
| `TypeCorrect` | `[]TypeOK` |
| `NoInventedDrift` | `[]DriftIsReal` |
| `WholeTruth` | `[]ReportIsExact` |

Since `Compare` takes the first row of a name whatever its type,
`NoInventedDrift` (both values are of the declared resource, unless its label is
the name of another: `LabelMisleads`) rests on the property table: no ARM key is known for two types
(`KeysTellTypes`), so a row of another type has no attribute to differ in. The
invariant `RowsAreLive` says that each row is a live resource of a comparable
type; a query of the user's own breaks it, hence the condition in the property.
For `WholeTruth`, `AllAnswered` says that an answer that is not cut has every
comparable resource, and `ExactSoFar` that the report is right for the
declarations before `k`; where names are unique the first row is the right one
(`FoundIsDeployed`). Assumptions: `DeclarationsAssumption`,
`DeployablesAssumption`, `FiniteAssumption` (finitely many resources are
deployed) and `BoundsAssumption`.

### Only model-checked

`EveryUploadAnswered`, `ComesUp` and `EveryRunReports`: liveness under fairness
is out of the prover's reach, as is anything about ENABLED. The four violated
properties have their counterexamples from TLC. Recursion over data does not come
up: the models have no recursive operator.

## 6. Where code and documentation differ

Shown by a run that TLC violates: `list_dst`, `sso_revoke`,
`scan_run_fail_on_high`, `drift_missing`. Further ones met while modelling,
which the models contain and no run singles out:

- A stored scan may have no audit event, and its documents may be missing, if a
  later statement fails or the portal stops in between. The uploader gets an
  error or no answer, and the scan is listed all the same
  (`enterprise/portal/README.md` has one event per scan ingested).
- With authentication off, the log's actor is whatever name the client sent,
  or "anonymous".
- Within one second texts sort wrongly when one fraction is a prefix of the
  other ("12:00:00.5Z" is after "12:00:00.51Z").
- A clock set back makes the older scan the latest of its project. Of two scans
  of one project with the same time only the one listed first is in the report.
- Findings of a rule of the user's own are under no control, and not listed as
  unmapped either (`compliance.go:60-70`): the report does not show them.
- The error of the audit event of a logout is dropped.
- `--provenance` hashes files read a second time, and files without resources
  are no materials.
- The Azure task's wrapper tells findings, broken files and failed uploads apart
  by nothing: all are exit code 1.
- Errors of printing are dropped (`main.go:131-138`, `147`): on a full disk the
  results file is cut short and the exit code is 0 all the same. The Azure task
  passes, `sign` and `attest` take the file as it is; only GitHub's upload of a
  SARIF file refuses it (`Torn`).
- The README's supply chain signs the results of one scan and attests to those of
  another (`README.md:54-59`): when a file is edited in between they differ, and
  neither command can tell.
- With some of the four OIDC settings the portal does not start, and so never
  does while it is restarted (`main.go:40-42`); `sso.go:18-20` says that with any
  of them unset the dashboard stays on Basic Auth.
- A missing `helm` binary skips charts with a warning; exit 0 then says nothing
  of them.
- Manifests of a chart outside of its `templates/` (in `crds/`, say) are read by
  neither parser: the one skips the chart, and `helm template` leaves them out.
- A subchart in a directory of another name than its own, under an alias or
  packed, gets a path that does not exist, or even that of another file: its
  findings point to the wrong place, and `--provenance` fails or hashes the
  wrong file (`AttributedToItsFile` leaves it out). A rendered
  line that begins with `# Source: ` itself would split a document.
- With `--path` inside a chart nothing tells that its templates are templates;
  they are read as plain YAML.
- The README's supply chain scans its own examples, which have findings: exit
  code 1, so a script that stops at the first error never signs. One that goes
  on may attest to the predicate an earlier run has left.
- `--sbom` prints a second JSON document behind the first one on stdout.
- SARIF without findings has `null` for its results, which a consumer of the
  file may refuse.
- A vault that does not mention purge protection passes PF-AZ-020, a storage
  account without a TLS version PF-AZ-002: in Rego a condition on an undefined
  value is not true.
- A user's package with a component called `deny` or `severity` passes the
  namespace check and is never walked (`EveryRuleIsHeard` leaves it out).
- Of an expression, Terraform's parser keeps nothing and Bicep's the text, so
  the two may be judged differently (`LanguagesAgree` is about literals).
- The Bicep scanner's layout: a header and its block's end on one line, a pair in
  an inline `properties: { ... }`, trailing comments and braces in strings are
  read otherwise than meant, and a resource under `= if (...) {` or `= [for ...`
  is not found at all (`parser.go:29`). The model takes files of plain resources
  as the formatter leaves them.
- PF-AZ-002 fires for any TLS version but 1.2, so for 1.3 as well; its comment
  asks for "TLS 1.2 minimum" (`storage_account.rego:17`). `NoStatedFlawEscapes`
  takes 1.0 and 1.1 for flaws only.
- Drift matches by name alone, first row first, and never asks for a second
  page of an answer. A Terraform label that happens to be the name of another
  resource of the same type has that one compared, and drift reported that is
  not there (`LabelMisleads`). With a `--query` of the user's own a row of another type
  may share the name and an attribute's key, and differ.

## 7. Not modelled

- Terraform's HCL, Rego's evaluator, SQLite, cosign, helm and the identity
  provider are external; they appear as far as the code uses them.
- A single file as `--path` (the walks are over directories), symbolic links, and
  the sorting within one directory beyond what `Order` fixes.
- The web dashboard renders and forwards; it keeps nothing.
- The audit list: the same SELECT in the same text order as the scan list, over
  rows `Ingest` and `Sso` write. Its times are not among their columns.
- Of helm: dependencies switched off by a condition, `.helmignore`, partials
  (`_helpers.tpl`) and the directories it skips by their first character, a
  template that gives its `kind` by a value.
- Rows of one time are listed by id in `ScanOrder`. `store.go:282` leaves their
  order open; this is the one SQLite's sorter gives. The run's clock moves at
  every reading and has no such rows, the theorems' may.
- A callback whose address was put together by hand from the code of one login
  and the state of another.
- Flags that only choose a format or a file name, and those of `cosign`.
- Layouts of SARIF, SBOM and in-toto documents: only which files, findings and
  digests they name.

## 8. Plan

Done, in this order: `Ingest` with its ledger and proofs; `Dashboard`, `Sso`,
`Migration`; `BicepScanner` with proofs; `Drift`; `Evaluation`; `SourceTree`,
`ScanRun` and `CIJob`; the refinement of the ledger in TLAPS; the proofs of
`Migration`, `Sso` and `CIJob`; the walks of `SourceTree` and what the scan's
exit code, provenance and attestation say of them; the rest of `Drift`; the list
and the report of `Dashboard`; `Evaluation`.

Next:

1. Portal and SSO together: reads behind sessions while scans are ingested, and
   the order of the audit list, with the theorems of both carried over.
2. The audit list in the form of `ScanOrder`, over rows of both writers.
3. The cases of section 7 that a scan meets most: a single file as `--path`, a
   subchart under another name, Bicep's conditional and repeated resources.
4. The safety half of the liveness properties as theorems: that a request that
   has not been answered always has a step left.
