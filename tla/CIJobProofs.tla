---------------------------- MODULE CIJobProofs -----------------------------
(* Proofs about a scan and the job around it, for every tree, every way it   *)
(* changes under the scan, all flags and all kinds of job: what is printed,  *)
(* written, posted and passed is the outcome of one reading of the tree; on  *)
(* a tree nobody edits that reading is the whole of it, and the second one   *)
(* of a supply chain is the same.                                            *)
EXTENDS CIJob, SourceTreeProofs

BeforeResults == {"flags", "parse", "evaluate"}
BeforeUpload == BeforeResults \cup {"sbom", "hash"}
BeforeExit == BeforeUpload \cup {"upload", "gate"}

\* The SBOM asked for, and a predicate for each file with resources.
Document == IF flags.sbom THEN [artifacts |-> materialFiles] ELSE None
Whole == flags.provenance => onDisk = digests /\ DOMAIN digests = materialFiles

\* Everything asked for was made of the resources read.
Made == printed \in {findings, Torn} /\ sbom = Document /\ Whole

\* What each point of runScan has behind it.
ResultsInv ==
  /\ pc \in Points \cup {"sign", "rescan", "attest", "reported"}
  /\ flags \in Flags
  /\ printed \in {None, Torn, findings} /\ sbom \in {None, Document}
  /\ DOMAIN digests \subseteq materialFiles
  /\ onDisk \in {None, Stale, Torn, digests}
  /\ exit \in {None, 0, 1, 2}
  /\ pc \in BeforeResults => printed = None /\ sbom = None /\ digests = <<>>
  /\ pc \in BeforeUpload => posted = {} /\ acked = {} /\ onDisk \in {None, Stale}
  /\ pc \in BeforeExit => exit = None
  /\ pc \in {"sbom", "hash"} => printed \in {findings, Torn}
  /\ pc = "hash" => sbom = Document /\ flags.provenance
  /\ ~flags.provenance => onDisk \in {None, Stale}
  /\ pc \in {"upload", "gate"} => Made
  /\ acked \subseteq posted /\ posted \subseteq {Record}
  /\ posted # {} => Made /\ flags.upload # "no"
  /\ (pc = "gate" \/ exit = 0) /\ flags.upload # "no" => acked = {Record}
  /\ exit = 0 => Made /\ ~HasFailures

\* What the tree has to do with it.
ReadingInv ==
  /\ TreeTypeOK /\ TreeInv
  /\ DOMAIN digests \subseteq Files /\ digests \in Predicates(DOMAIN digests)
  /\ edits = 0 => \A f \in DOMAIN digests : digests[f] = tree[f]
  /\ onDisk \notin {None, Stale, Torn} => onDisk = digests /\ DOMAIN digests = materialFiles
  /\ pc \in BeforeExit \ {"flags", "parse"} \/ exit = 0 => Parsed

\* What the job does with it: nothing is signed before the first scan of a
\* chain is over, nor attested to before the second, which is the one with a
\* predicate.
JobInv ==
  /\ job \in Jobs /\ first \subseteq Batches
  /\ job.kind = "supply" => flags.upload = "no"
  /\ pc # "reported" => job.verdict = "running"
  /\ pc \in {"sign", "rescan", "attest"} => job.kind = "supply"
  /\ pc \in {"sign", "attest"} /\ job.strict => exit = 0
  /\ pc \in {"sign", "rescan"} => ~flags.provenance
  /\ pc = "attest" => flags.provenance
  /\ pc \notin {"rescan", "reported"} /\ ~flags.provenance => signed = {}
  /\ pc \in BeforeExit \cup {"exited", "sign", "rescan"} => attested = {}
  /\ job.verdict = "passed" => /\ job.kind = "azure" /\ job.strict => exit = 0
                               /\ job.kind = "github" => printed = findings
  /\ signed \subseteq {None, Torn, FindingsOf(first)}
  /\ \A a \in attested : /\ a.results \in {None, Torn, findings}
                          /\ a.predicate \in {Stale, digests}
  /\ job.strict =>
       /\ signed \subseteq {FindingsOf(first), Torn}
       /\ \A a \in attested : a.results \in {findings, Torn} /\ a.predicate = digests
       /\ attested # {} => DOMAIN digests = materialFiles /\ exit = 0

\* As long as the tree stays as it is, a strict chain has signed what a whole
\* scan of it yields.
ChainInv == job.strict /\ edits = 0 /\ signed # {} => \A b : b \in first <=> Yields(b)

IInv == ResultsInv /\ ReadingInv /\ JobInv /\ ChainInv
-----------------------------------------------------------------------------
\* Nothing has been made before the flags are read.
LEMMA InitInvariant == Init => IInv
<1> SUFFICES ASSUME Init PROVE IInv
  OBVIOUS
<1>1. /\ pc = "flags" /\ printed = None /\ sbom = None /\ posted = {} /\ acked = {}
      /\ exit = None /\ digests = <<>> /\ onDisk \in {None, Stale} /\ flags \in Flags
      /\ first = {} /\ signed = {} /\ attested = {}
  BY DEF Init, ScanInit
<1>2. job \in Jobs /\ job.verdict = "running"
  BY DEF Init, Jobs
<1>3. job.kind = "supply" => flags.upload = "no"
  BY DEF Init, Runs
<1>4. ResultsInv
  BY <1>1, NoneAssumption DEF ResultsInv, Points, BeforeResults, BeforeUpload, BeforeExit
<1>5. JobInv
  BY <1>1, <1>2, <1>3 DEF JobInv, BeforeResults, BeforeUpload, BeforeExit
<1>6. ReadingInv
  <2>1. TreeTypeOK /\ TreeInv
    BY TreeInitTypes, TreeInitInv DEF Init, ScanInit
  <2>2. DOMAIN digests = {} /\ digests \in Predicates(DOMAIN digests)
    BY <1>1 DEF Predicates
  <2>3. pc \notin BeforeExit \ {"flags", "parse"} /\ exit # 0
    BY <1>1, NoneAssumption
  <2> QED
    BY <1>1, <2>1, <2>2, <2>3 DEF ReadingInv
<1> QED
  BY <1>1, <1>4, <1>5, <1>6 DEF IInv, ChainInv

\* While a scan runs the job waits.
LEMMA JobWaits ==
  ASSUME IInv, pc \in BeforeExit, pc' \in Points, UNCHANGED jobVars, flags' = flags
  PROVE  JobInv'
<1>1. /\ pc' \notin {"sign", "rescan", "attest", "reported"}
      /\ pc \notin {"sign", "rescan", "attest", "reported"}
  BY DEF Points, BeforeExit, BeforeUpload, BeforeResults
<1>2. attested' = {} /\ job'.verdict = "running" /\ FindingsOf(first)' = FindingsOf(first)
  BY <1>1 DEF IInv, JobInv, jobVars, FindingsOf
<1> QED
  BY <1>1, <1>2 DEF IInv, JobInv, jobVars

\* What is derived from the resources alone.
LEMMA SameResources ==
  ASSUME resources' = resources, flags' = flags
  PROVE  /\ findings' = findings /\ materialFiles' = materialFiles
         /\ HasFailures' = HasFailures /\ Document' = Document
BY DEF findings, FindingsOf, materialFiles, HasFailures, Document
-----------------------------------------------------------------------------
(* runScan.                                                                  *)

\* A point left for the exit or the next one.
LEMMA Stages ==
  /\ BeforeResults = {"flags", "parse", "evaluate"}
  /\ BeforeUpload = {"flags", "parse", "evaluate", "sbom", "hash"}
  /\ BeforeExit = {"flags", "parse", "evaluate", "sbom", "hash", "upload", "gate"}
  /\ BeforeExit \subseteq Points /\ "exited" \in Points \ BeforeExit
BY DEF BeforeResults, BeforeUpload, BeforeExit, Points

\* Until the findings are printed nothing is made; a scan that ends here has
\* an exit code other than 0.
LEMMA ReadingKeeps ==
  ASSUME IInv, flags' = flags, ParseFlags \/ ParseStep
  PROVE  ResultsInv' /\ pc \in BeforeExit /\ pc' \in Points
<1>1. /\ pc \in BeforeResults /\ printed = None /\ sbom = None /\ digests = <<>>
      /\ posted = {} /\ acked = {} /\ exit = None /\ onDisk \in {None, Stale} /\ flags \in Flags
  BY Stages DEF ParseFlags, ParseStep, IInv, ResultsInv
<1>2. UNCHANGED results /\ \/ pc' \in BeforeResults /\ exit' = exit
                           \/ pc' = "exited" /\ exit' \in {1, 2}
  BY <1>1, Stages DEF ParseFlags, ParseStep, Exit, Goto
<1>3. DOMAIN digests' = {}
  BY <1>1, <1>2 DEF results
<1> QED
  BY <1>1, <1>2, <1>3, Stages, NoneAssumption DEF ResultsInv, results

\* What is printed is what the rules found.
LEMMA EvaluateKeeps ==
  ASSUME IInv, flags' = flags, Evaluate
  PROVE  ResultsInv' /\ pc \in BeforeExit /\ pc' \in Points
<1>1. /\ pc = "evaluate" /\ printed = None /\ sbom = None /\ digests = <<>>
      /\ posted = {} /\ acked = {} /\ exit = None /\ onDisk \in {None, Stale} /\ flags \in Flags
  BY Stages DEF Evaluate, IInv, ResultsInv
<1>2. /\ resources' = resources /\ sbom' = sbom /\ digests' = digests
      /\ onDisk' = onDisk /\ posted' = posted /\ acked' = acked
  BY DEF Evaluate, treeVars, walkVars
<1>3. DOMAIN digests' = {}
  BY <1>1, <1>2
<1>4. \/ printed' \in {findings, Torn} /\ pc' = "sbom" /\ exit' = exit
      \/ printed' = printed /\ pc' = "exited" /\ exit' = 1
  BY DEF Evaluate, ToStdout, Goto, Exit
<1> QED
  BY <1>1, <1>2, <1>3, <1>4, Stages, SameResources, NoneAssumption DEF ResultsInv

\* The SBOM is made of the resources read.
LEMMA GenerateSBOMKeeps ==
  ASSUME IInv, flags' = flags, GenerateSBOM
  PROVE  ResultsInv' /\ pc \in BeforeExit /\ pc' \in Points
<1>1. /\ pc = "sbom" /\ printed \in {findings, Torn} /\ posted = {} /\ acked = {} /\ exit = None
      /\ onDisk \in {None, Stale} /\ flags \in Flags
      /\ DOMAIN digests \subseteq materialFiles
  BY Stages DEF GenerateSBOM, IInv, ResultsInv
<1>2. /\ resources' = resources /\ printed' \in {printed, Torn} /\ digests' = digests
      /\ onDisk' = onDisk /\ posted' = posted /\ acked' = acked /\ sbom' = Document
  BY DEF GenerateSBOM, ToStdout, treeVars, walkVars, Document, materialFiles
<1>3. pc' = (IF flags.provenance THEN "hash" ELSE "upload") /\ exit' = exit
  BY DEF GenerateSBOM, Goto
<1> QED
  BY <1>1, <1>2, <1>3, Stages, SameResources, NoneAssumption DEF ResultsInv, Made, Whole

\* Each digest is one of a file with resources.
LEMMA HashKeeps ==
  ASSUME IInv, flags' = flags, Hash
  PROVE  ResultsInv' /\ pc \in BeforeExit /\ pc' \in Points
<1>1. /\ pc = "hash" /\ printed \in {findings, Torn} /\ sbom = Document /\ posted = {}
      /\ acked = {} /\ flags.provenance /\ exit = None /\ onDisk \in {None, Stale} /\ flags \in Flags
      /\ DOMAIN digests \subseteq materialFiles
  BY Stages DEF Hash, IInv, ResultsInv
<1>2. /\ resources' = resources /\ printed' = printed /\ sbom' = sbom
      /\ onDisk' = onDisk /\ posted' = posted /\ acked' = acked
  BY DEF Hash, treeVars, walkVars
<1>3. \/ pc' = "hash" /\ exit' = exit
      \/ pc' = "exited" /\ exit' = 1
  BY DEF Hash, Goto, Exit
<1>4. DOMAIN digests' \subseteq materialFiles
  <2> DEFINE f == CHOOSE f \in Unhashed : TRUE
  <2>1. f \in materialFiles
    BY DEF Hash, Unhashed
  <2>2. \/ DOMAIN digests' = DOMAIN digests \cup {f}
        \/ digests' = digests
    BY DEF Hash
  <2> QED
    BY <1>1, <2>1, <2>2
<1> QED
  BY <1>1, <1>2, <1>3, <1>4, Stages, SameResources, NoneAssumption DEF ResultsInv

\* The predicate on disk covers every such file, or the run ends in an error.
LEMMA WritePredicateKeeps ==
  ASSUME IInv, flags' = flags, WritePredicate
  PROVE  ResultsInv' /\ pc \in BeforeExit /\ pc' \in Points
<1>1. /\ pc = "hash" /\ printed \in {findings, Torn} /\ sbom = Document /\ posted = {}
      /\ acked = {} /\ flags.provenance /\ exit = None /\ onDisk \in {None, Stale} /\ flags \in Flags
      /\ DOMAIN digests = materialFiles
  BY Stages DEF WritePredicate, IInv, ResultsInv, Unhashed
<1>2. /\ resources' = resources /\ printed' = printed /\ sbom' = sbom
      /\ posted' = posted /\ acked' = acked /\ digests' = digests
  BY DEF WritePredicate, treeVars, walkVars
<1>3. \/ onDisk' = digests /\ pc' = "upload" /\ exit' = exit
      \/ onDisk' \in {onDisk, Torn} /\ pc' = "exited" /\ exit' = 1
  BY DEF WritePredicate, Goto, Exit
<1> QED
  BY <1>1, <1>2, <1>3, Stages, SameResources, NoneAssumption DEF ResultsInv, Made, Whole

\* What is posted is the record of the results made.
LEMMA UploadKeeps ==
  ASSUME IInv, flags' = flags, Upload
  PROVE  ResultsInv' /\ pc \in BeforeExit /\ pc' \in Points
<1>1. /\ pc = "upload" /\ Made /\ exit = None /\ DOMAIN digests \subseteq materialFiles
      /\ sbom \in {None, Document} /\ onDisk \in {None, Stale, Torn, digests}
      /\ acked \subseteq posted /\ posted \subseteq {Record} /\ flags \in Flags
      /\ posted # {} => flags.upload # "no"
      /\ ~flags.provenance => onDisk \in {None, Stale}
  BY Stages DEF Upload, IInv, ResultsInv
<1>2. /\ resources' = resources /\ printed' = printed /\ sbom' = sbom
      /\ digests' = digests /\ onDisk' = onDisk
      /\ \/ UNCHANGED <<posted, acked>>
         \/ flags.upload # "no" /\ posted' = {Record} /\ acked' \in {acked, {Record}}
  BY DEF Upload, treeVars, walkVars
<1>3. \/ pc' = "gate" /\ exit' = exit /\ (flags.upload # "no" => acked' = {Record})
      \/ pc' = "exited" /\ exit' = 1
  BY DEF Upload, Goto, Exit
<1>4. Made' /\ Record' = Record
  BY <1>1, <1>2, SameResources DEF Made, Whole, Record
<1> QED
  BY <1>1, <1>2, <1>3, <1>4, Stages, SameResources, NoneAssumption DEF ResultsInv, Made

\* Exit code 0 is given last, and not with failures.
LEMMA GateKeeps ==
  ASSUME IInv, flags' = flags, Gate
  PROVE  ResultsInv' /\ pc \in BeforeExit /\ pc' \in Points
<1>1. /\ pc = "gate" /\ Made /\ DOMAIN digests \subseteq materialFiles
      /\ sbom \in {None, Document} /\ onDisk \in {None, Stale, Torn, digests}
      /\ acked \subseteq posted /\ posted \subseteq {Record} /\ flags \in Flags
      /\ posted # {} => flags.upload # "no"
      /\ ~flags.provenance => onDisk \in {None, Stale}
  BY Stages DEF Gate, IInv, ResultsInv
<1>0. flags.upload # "no" => acked = {Record}
  BY <1>1 DEF IInv, ResultsInv
<1>2. /\ resources' = resources /\ printed' = printed /\ sbom' = sbom
      /\ digests' = digests /\ onDisk' = onDisk /\ posted' = posted /\ acked' = acked
  BY DEF Gate, treeVars, walkVars, results
<1>3. pc' = "exited" /\ exit' = IF HasFailures THEN 1 ELSE 0
  BY DEF Gate, Exit
<1>4. Made' /\ Record' = Record
  BY <1>1, <1>2, SameResources DEF Made, Whole, Record
<1> QED
  BY <1>0, <1>1, <1>2, <1>3, <1>4, Stages, SameResources, NoneAssumption DEF ResultsInv, Made
-----------------------------------------------------------------------------
(* Everything else leaves the scan's results alone.                          *)

\* Nothing the scan has made changes, and it does not go back.
LEMMA ResultsStay ==
  ASSUME IInv, UNCHANGED <<resources, flags, results, exit>>,
         pc' = pc \/ pc' \in {"sign", "rescan", "attest", "reported"}
  PROVE  ResultsInv'
<1>1. Record' = Record /\ (Made => Made')
  BY SameResources DEF Made, Whole, Record, results
<1> QED
  BY <1>1, Stages, SameResources DEF IInv, ResultsInv, results, BeforeUpload, BeforeExit, Made

\* A verdict leaves the rest of the job.
LEMMA VerdictIs ==
  ASSUME job \in Jobs, NEW v \in {"running", "passed", "failed"},
         job' = [job EXCEPT !.verdict = v]
  PROVE  /\ job' \in Jobs /\ job'.kind = job.kind /\ job'.strict = job.strict
         /\ job'.verdict = v
BY DEF Jobs

\* The job's verdict follows the exit code of its scan.
LEMMA ExitedKeeps == IInv /\ Exited => ResultsInv' /\ JobInv'
<1> SUFFICES ASSUME IInv, Exited PROVE ResultsInv' /\ JobInv'
  OBVIOUS
<1>1. /\ resources' = resources /\ UNCHANGED <<flags, results, exit, first, signed, attested>>
      /\ pc = "exited"
  BY DEF Exited, scanVarsButPc, treeVars, walkVars
<1>2. /\ printed' = printed /\ digests' = digests /\ findings' = findings
      /\ materialFiles' = materialFiles /\ FindingsOf(first)' = FindingsOf(first)
  BY <1>1, SameResources DEF results, FindingsOf
<1>3. /\ job \in Jobs /\ job.verdict = "running" /\ attested = {}
      /\ ~flags.provenance => signed = {}
      /\ flags \in Flags /\ printed \in {None, Torn, findings}
  BY <1>1 DEF IInv, ResultsInv, JobInv
<1>4. \/ job' = [job EXCEPT !.verdict = "failed"] /\ pc' = "reported"
      \/ /\ job' = [job EXCEPT !.verdict = "passed"] /\ pc' = "reported"
         /\ job.kind = "azure" /\ job.strict => exit = 0
         /\ job.kind = "github" => printed \notin {None, Torn}
      \/ /\ job' = job /\ job.kind = "supply" /\ (job.strict => exit = 0)
         /\ pc' = IF flags.provenance THEN "attest" ELSE "sign"
  BY DEF Exited, AzureTask, GitHubAction, Shell, Proceed, PassedIf, Verdict
<1>5. /\ job' \in Jobs /\ job'.kind = job.kind /\ job'.strict = job.strict
      /\ \/ pc' = "reported" /\ job'.verdict = "failed"
         \/ /\ pc' = "reported" /\ job'.verdict = "passed"
            /\ job.kind = "azure" /\ job.strict => exit = 0
            /\ job.kind = "github" => printed \notin {None, Torn}
         \/ /\ job' = job /\ job.kind = "supply" /\ (job.strict => exit = 0)
            /\ pc' = IF flags.provenance THEN "attest" ELSE "sign"
  BY <1>3, <1>4, VerdictIs
<1>6. ResultsInv'
  BY <1>1, <1>5, ResultsStay
<1>7. job'.verdict = "passed" => /\ job.kind = "azure" /\ job.strict => exit = 0
                                 /\ job.kind = "github" => printed = findings
  BY <1>3, <1>5
<1>8. JobInv'
  BY <1>1, <1>2, <1>3, <1>5, <1>7, Stages DEF IInv, JobInv
<1> QED
  BY <1>6, <1>8

\* A strict chain comes to sign with everything made.
LEMMA SignKeeps == IInv /\ Sign => ResultsInv' /\ JobInv'
<1> SUFFICES ASSUME IInv, Sign PROVE ResultsInv' /\ JobInv'
  OBVIOUS
<1>1. /\ resources' = resources /\ UNCHANGED <<flags, results, exit, attested>>
      /\ pc = "sign" /\ first' = resources
  BY DEF Sign, scanVarsButPc, treeVars, walkVars
<1>2. /\ printed' = printed /\ digests' = digests /\ findings' = findings
      /\ materialFiles' = materialFiles /\ FindingsOf(first)' = findings
  BY <1>1, SameResources DEF results, FindingsOf, findings
<1>3. /\ job \in Jobs /\ job.verdict = "running" /\ job.kind = "supply"
      /\ printed \in {None, Torn, findings} /\ signed = {} /\ attested = {}
      /\ ~flags.provenance /\ resources \subseteq Batches
      /\ job.strict => printed \in {findings, Torn}
  BY <1>1 DEF IInv, JobInv, ResultsInv, Made, ReadingInv, TreeTypeOK
<1>4. signed' \in {{}, {printed}}
  BY <1>3 DEF Sign, SignBlob
<1>5. \/ job' = job /\ pc' = "rescan"
      \/ job' = [job EXCEPT !.verdict = "failed"] /\ pc' = "reported"
  BY DEF Sign, Proceed, Verdict
<1>6. /\ job' \in Jobs /\ job'.kind = job.kind /\ job'.strict = job.strict
      /\ job'.verdict # "passed"
      /\ pc' \in {"rescan", "reported"} /\ (pc' = "rescan" => job' = job)
  BY <1>3, <1>5 DEF Jobs
<1>7. ResultsInv'
  BY <1>1, <1>6, ResultsStay
<1>8. /\ signed' \subseteq {None, Torn, FindingsOf(first)'}
      /\ job.strict => signed' \subseteq {FindingsOf(first)', Torn}
  BY <1>2, <1>3, <1>4
<1>9. JobInv'
  BY <1>1, <1>2, <1>3, <1>6, <1>8, Stages DEF IInv, JobInv
<1> QED
  BY <1>7, <1>9

\* The second scan starts with nothing made, the signature apart.
LEMMA RescanKeeps == IInv /\ Rescan => ResultsInv' /\ JobInv'
<1> SUFFICES ASSUME IInv, Rescan PROVE ResultsInv' /\ JobInv'
  OBVIOUS
<1>1. /\ pc = "rescan" /\ pc' = "flags" /\ printed' = None /\ sbom' = None
      /\ digests' = <<>> /\ exit' = None /\ flags' = [flags EXCEPT !.provenance = TRUE]
      /\ UNCHANGED <<onDisk, posted, acked, job, first, signed, attested>>
  BY DEF Rescan, jobVars
<1>2. /\ job.kind = "supply" /\ job \in Jobs /\ flags.upload = "no" /\ flags \in Flags
      /\ ~flags.provenance /\ onDisk \in {None, Stale} /\ posted = {} /\ acked = {}
      /\ attested = {} /\ job.verdict = "running"
  BY <1>1 DEF IInv, ResultsInv, JobInv
<1>3. flags' \in Flags /\ flags'.upload = "no" /\ flags'.provenance
  BY <1>1, <1>2 DEF Flags
<1>4. FindingsOf(first)' = FindingsOf(first) /\ DOMAIN digests' = {}
  BY <1>1 DEF FindingsOf
<1>5. ResultsInv'
  BY <1>1, <1>2, <1>3, <1>4, Stages, NoneAssumption DEF ResultsInv
<1>6. JobInv'
  BY <1>1, <1>2, <1>3, <1>4 DEF IInv, JobInv
<1> QED
  BY <1>5, <1>6

\* A strict chain comes to attest with everything made by its second scan.
LEMMA AttestKeeps == IInv /\ Attest => ResultsInv' /\ JobInv'
<1> SUFFICES ASSUME IInv, Attest PROVE ResultsInv' /\ JobInv'
  OBVIOUS
<1>1. /\ resources' = resources /\ UNCHANGED <<flags, results, exit, first, signed>>
      /\ pc = "attest" /\ pc' = "reported"
  BY DEF Attest, Verdict, scanVarsButPc, treeVars, walkVars
<1>2. /\ printed' = printed /\ digests' = digests /\ findings' = findings
      /\ materialFiles' = materialFiles /\ FindingsOf(first)' = FindingsOf(first)
  BY <1>1, SameResources DEF results, FindingsOf
<1>3. /\ job \in Jobs /\ job.verdict = "running" /\ job.kind = "supply" /\ flags.provenance
      /\ printed \in {None, Torn, findings} /\ onDisk \in {None, Stale, Torn, digests}
      /\ job.strict => /\ printed \in {findings, Torn} /\ onDisk = digests /\ exit = 0
                       /\ DOMAIN digests = materialFiles
  BY <1>1 DEF IInv, JobInv, ResultsInv, Made, Whole
<1>4. \/ attested' = attested
      \/ /\ attested' = attested \cup {[results |-> printed, predicate |-> onDisk]}
         /\ onDisk \notin {None, Torn}
  BY DEF Attest, AttestBlob
<1>5. /\ job' \in Jobs /\ job'.kind = "supply" /\ job'.strict = job.strict
  BY <1>3 DEF Attest, Verdict, Jobs
<1>6. ResultsInv'
  BY <1>1, ResultsStay
<1>7. /\ \A a \in attested' : /\ a.results \in {None, Torn, findings}
                              /\ a.predicate \in {Stale, digests}
      /\ job.strict =>
           /\ \A a \in attested' : a.results \in {findings, Torn} /\ a.predicate = digests
           /\ attested' # {} => DOMAIN digests = materialFiles /\ exit = 0
  BY <1>3, <1>4 DEF IInv, JobInv
<1>8. JobInv'
  BY <1>1, <1>2, <1>3, <1>5, <1>7, Stages DEF IInv, JobInv
<1> QED
  BY <1>6, <1>8
-----------------------------------------------------------------------------
(* The tree, what has been read of it, and the digests.                      *)

\* A step reads the tree, changes it, or leaves it.
LEMMA TreeKeeps ==
  ASSUME IInv, [Next]_vars
  PROVE  (TreeTypeOK /\ TreeInv)'
<1>1. TreeTypeOK /\ TreeInv
  BY DEF IInv, ReadingInv
<1>2. Parse \/ Edit \/ Restart \/ UNCHANGED treeVars
  BY DEF Next, Scan, ParseFlags, ParseStep, Evaluate, GenerateSBOM, Hash, WritePredicate,
         Upload, Gate, EditDuring, Job, Exited, Sign, Rescan, Attest,
         vars, scanVars, scanVarsButPc
<1>3. CASE UNCHANGED treeVars
  <2>1. TreeTypeOK'
    BY <1>1, <1>3 DEF TreeTypeOK, treeVars, walkVars
  <2>2. TreeInv'
    BY <1>1, <1>3, TreeStays DEF treeVars, walkVars
  <2> QED
    BY <2>1, <2>2
<1> QED
  BY <1>1, <1>2, <1>3, ParseTypes, ParseInv, EditTypes, EditInv, RestartInv

\* While neither the tree nor the digests change, and the walks have ended
\* where they had, the digests vouch for what they did.
LEMMA DigestsStay ==
  ASSUME IInv, (TreeTypeOK /\ TreeInv)', UNCHANGED <<treeVars, digests, onDisk>>,
         pc' \in BeforeExit \ {"flags", "parse"} \/ exit' = 0 => Parsed
  PROVE  ReadingInv'
<1>1. materialFiles' = materialFiles /\ Parsed' = Parsed
  BY DEF materialFiles, Parsed, treeVars, walkVars
<1> QED
  BY <1>1 DEF IInv, ReadingInv, treeVars, walkVars

\* Reading makes no digests.
LEMMA ReadingReads ==
  ASSUME IInv, (TreeTypeOK /\ TreeInv)', ParseFlags \/ ParseStep
  PROVE  ReadingInv'
<1>1. /\ pc \in {"flags", "parse"} /\ digests = <<>> /\ onDisk \in {None, Stale}
      /\ exit = None /\ UNCHANGED <<digests, onDisk>>
  BY Stages DEF ParseFlags, ParseStep, IInv, ResultsInv, results
<1>2. DOMAIN digests' = {} /\ digests' \in Predicates(DOMAIN digests')
  BY <1>1 DEF Predicates
<1>3. exit' \in {None, 1, 2}
  BY <1>1 DEF ParseFlags, ParseStep, Exit, Goto
<1>4. \/ pc' \in {"flags", "parse", "exited"}
      \/ Parsed'
  BY <1>1 DEF ParseFlags, ParseStep, Exit, Goto, Parsed, treeVars, walkVars
<1> QED
  BY <1>1, <1>2, <1>3, <1>4, Stages, NoneAssumption DEF ReadingInv

\* Each digest is that of the file as it is then.
LEMMA HashReads ==
  ASSUME IInv, (TreeTypeOK /\ TreeInv)', Hash
  PROVE  ReadingInv'
<1>1. /\ pc = "hash" /\ Parsed /\ onDisk \in {None, Stale} /\ exit = None
      /\ UNCHANGED <<treeVars, onDisk>>
  BY Stages DEF Hash, IInv, ResultsInv, ReadingInv
<1>2. /\ DOMAIN digests \subseteq Files /\ digests \in Predicates(DOMAIN digests)
      /\ edits = 0 => \A f \in DOMAIN digests : digests[f] = tree[f]
  BY DEF IInv, ReadingInv
<1>3. exit' \in {None, 1} /\ Parsed' /\ tree' = tree /\ edits' = edits
  BY <1>1 DEF Hash, Exit, Goto, Parsed, treeVars, walkVars
<1> DEFINE f == CHOOSE f \in Unhashed : TRUE
<1>4. CASE digests' = digests
  BY <1>1, <1>2, <1>3, <1>4, NoneAssumption DEF ReadingInv
<1>5. CASE f \in Files /\ tree[f] # Gone
           /\ digests' = [g \in DOMAIN digests \cup {f} |-> IF g = f THEN tree[f] ELSE digests[g]]
  <2> HIDE DEF f
  <2>1. tree[f] \in Contents
    BY <1>5, Holds DEF IInv, ReadingInv
  <2>2. DOMAIN digests' = DOMAIN digests \cup {f}
    BY <1>5
  <2>3. DOMAIN digests' \subseteq Files /\ digests' \in Predicates(DOMAIN digests')
    BY <1>2, <1>5, <2>1, <2>2 DEF Predicates
  <2>4. edits = 0 => \A g \in DOMAIN digests' : digests'[g] = tree[g]
    BY <1>2, <1>5, <2>2
  <2> QED
    BY <1>1, <1>3, <2>3, <2>4, NoneAssumption DEF ReadingInv
<1> QED
  BY <1>4, <1>5 DEF Hash

\* The predicate written is that of all the files there are resources of.
LEMMA WritePredicateReads ==
  ASSUME IInv, (TreeTypeOK /\ TreeInv)', WritePredicate
  PROVE  ReadingInv'
<1>1. /\ pc = "hash" /\ Parsed /\ onDisk \in {None, Stale} /\ exit = None
      /\ DOMAIN digests = materialFiles /\ UNCHANGED <<treeVars, digests>>
  BY Stages DEF WritePredicate, IInv, ResultsInv, ReadingInv, Unhashed
<1>2. /\ DOMAIN digests \subseteq Files /\ digests \in Predicates(DOMAIN digests)
      /\ edits = 0 => \A f \in DOMAIN digests : digests[f] = tree[f]
  BY DEF IInv, ReadingInv
<1>3. /\ exit' \in {None, 1} /\ Parsed' /\ tree' = tree /\ edits' = edits
      /\ materialFiles' = materialFiles /\ onDisk' \in {digests, onDisk, Torn}
  BY <1>1 DEF WritePredicate, Exit, Goto, Parsed, materialFiles, treeVars, walkVars
<1> QED
  BY <1>1, <1>2, <1>3, NoneAssumption DEF ReadingInv

\* Whatever happens, the digests vouch for what has been read.
LEMMA ReadingKeepsOn == IInv /\ [Next]_vars => ReadingInv'
<1> SUFFICES ASSUME IInv, [Next]_vars PROVE ReadingInv'
  OBVIOUS
<1>1. (TreeTypeOK /\ TreeInv)'
  BY TreeKeeps
<1>2. CASE ParseFlags \/ ParseStep
  BY <1>1, <1>2, ReadingReads
<1>3. CASE Evaluate \/ GenerateSBOM \/ Upload \/ Gate
  <2>1. UNCHANGED <<treeVars, digests, onDisk>> /\ pc \in BeforeExit \ {"flags", "parse"}
    BY <1>3, Stages DEF Evaluate, GenerateSBOM, Upload, Gate, results
  <2> QED
    BY <1>1, <2>1, DigestsStay DEF IInv, ReadingInv
<1>4. CASE Hash
  BY <1>1, <1>4, HashReads
<1>5. CASE WritePredicate
  BY <1>1, <1>5, WritePredicateReads
<1>6. CASE EditDuring
  <2>1. /\ UNCHANGED <<pc, exit, digests, onDisk, walk, resources>> /\ edits' = edits + 1
    BY <1>6 DEF EditDuring, Edit, walkVars, results
  <2>2. edits' # 0
    BY <2>1, EditsAssumption DEF IInv, ReadingInv, TreeTypeOK
  <2> QED
    BY <1>1, <2>1, <2>2 DEF IInv, ReadingInv, materialFiles, Parsed
<1>7. CASE Exited \/ Sign \/ Attest \/ UNCHANGED vars
  <2>1. UNCHANGED <<treeVars, digests, onDisk, exit>>
    BY <1>7 DEF Exited, Sign, Attest, vars, scanVars, scanVarsButPc, results
  <2>2. pc' = pc \/ pc' \in {"sign", "rescan", "attest", "reported"}
    BY <1>7 DEF Exited, AzureTask, GitHubAction, Shell, PassedIf, Verdict, Proceed, Sign,
                Attest, vars, scanVars
  <2> QED
    BY <1>1, <2>1, <2>2, DigestsStay, Stages DEF IInv, ReadingInv
<1>8. CASE Rescan
  <2>1. /\ pc = "rescan" /\ pc' = "flags" /\ digests' = <<>> /\ exit' = None
        /\ onDisk' = onDisk
    BY <1>8 DEF Rescan
  <2>2. onDisk \in {None, Stale}
    BY <2>1 DEF IInv, ResultsInv, JobInv
  <2>3. DOMAIN digests' = {} /\ digests' \in Predicates(DOMAIN digests')
    BY <2>1 DEF Predicates
  <2>4. exit' # 0 /\ pc' \notin BeforeExit \ {"flags", "parse"}
    BY <2>1, NoneAssumption
  <2> QED
    BY <1>1, <2>1, <2>2, <2>3, <2>4 DEF ReadingInv
<1> QED
  BY <1>2, <1>3, <1>4, <1>5, <1>6, <1>7, <1>8 DEF Next, Scan, Job
-----------------------------------------------------------------------------
\* Edits only add up.
LEMMA EditsAddUp == IInv /\ [Next]_vars /\ edits' = 0 => edits = 0 /\ UNCHANGED <<tree, path, helm>>
<1> SUFFICES ASSUME IInv, [Next]_vars, edits' = 0 PROVE edits = 0 /\ UNCHANGED <<tree, path, helm>>
  OBVIOUS
<1>1. \/ Parse \/ Restart \/ UNCHANGED treeVars
      \/ edits' = edits + 1
  BY DEF Next, Scan, ParseFlags, ParseStep, Evaluate, GenerateSBOM, Hash, WritePredicate,
         Upload, Gate, EditDuring, Edit, Job, Exited, Sign, Rescan, Attest,
         vars, scanVars, scanVarsButPc
<1>2. edits \in Nat
  BY EditsAssumption DEF IInv, ReadingInv, TreeTypeOK
<1> QED
  BY <1>1, <1>2 DEF Parse, Restart, treeVars

\* The scan a strict chain signs the results of is a whole one.
LEMMA ChainKeeps == IInv /\ [Next]_vars => ChainInv'
<1> SUFFICES ASSUME IInv, [Next]_vars, job'.strict, edits' = 0, signed' # {}, NEW b
             PROVE  (b \in first <=> Yields(b))'
  BY DEF ChainInv
<1>1. edits = 0 /\ UNCHANGED <<tree, path, helm>>
  BY EditsAddUp
<1>2. Yields(b)' <=> Yields(b)
  BY <1>1, Static DEF Yields
<1>3. job \in Jobs
  BY DEF IInv, JobInv
<1>4. job'.strict = job.strict
  BY <1>3 DEF Next, Job, Exited, AzureTask, GitHubAction, Shell, PassedIf, Verdict, Proceed,
              Sign, Rescan, Attest, vars, jobVars, Jobs
<1>5. CASE Sign
  <2>1. pc = "sign" /\ first' = resources
    BY <1>5 DEF Sign
  <2>2. TreeTypeOK /\ TreeInv /\ Parsed
    BY <1>4, <2>1 DEF IInv, JobInv, ReadingInv
  <2>3. b \in resources <=> Yields(b)
    BY <1>1, <2>2, SameReading
  <2> QED
    BY <1>2, <2>1, <2>3
<1>6. CASE ~Sign
  <2>1. UNCHANGED <<first, signed>>
    BY <1>6 DEF Next, Job, Exited, Rescan, Attest, vars, jobVars
  <2> QED
    BY <1>1, <1>2, <1>4, <2>1 DEF IInv, ChainInv
<1> QED
  BY <1>5, <1>6

\* Every step keeps the invariant.
LEMMA StepInvariant == IInv /\ [Next]_vars => IInv'
<1> SUFFICES ASSUME IInv, [Next]_vars PROVE ResultsInv' /\ JobInv'
  BY ReadingKeepsOn, ChainKeeps DEF IInv
<1>1. CASE Scan /\ UNCHANGED jobVars
  <2>1. flags' = flags
    BY <1>1 DEF Scan
  <2>2. ResultsInv' /\ pc \in BeforeExit /\ pc' \in Points
    BY <1>1, <2>1, ReadingKeeps, EvaluateKeeps, GenerateSBOMKeeps, HashKeeps,
       WritePredicateKeeps, UploadKeeps, GateKeeps DEF Scan
  <2> QED
    BY <1>1, <2>1, <2>2, JobWaits DEF IInv
<1>2. CASE EditDuring /\ UNCHANGED jobVars
  <2>1. /\ resources' = resources /\ UNCHANGED <<flags, pc, results, exit>>
        /\ pc \in BeforeExit
    BY <1>2, Stages DEF EditDuring, Edit, walkVars
  <2> QED
    BY <1>2, <2>1, ResultsStay, JobWaits, Stages DEF IInv
<1>3. CASE UNCHANGED vars
  <2>1. UNCHANGED <<resources, flags, pc, results, exit, jobVars>>
    BY <1>3 DEF vars, scanVars, scanVarsButPc, treeVars, walkVars
  <2>2. /\ findings' = findings /\ printed' = printed /\ digests' = digests
        /\ materialFiles' = materialFiles /\ FindingsOf(first)' = FindingsOf(first)
    BY <2>1, SameResources DEF results, jobVars, FindingsOf
  <2> QED
    BY <2>1, <2>2, ResultsStay DEF IInv, JobInv, jobVars
<1> QED
  BY <1>1, <1>2, <1>3, ExitedKeeps, SignKeeps, RescanKeeps, AttestKeeps DEF Next, Job

\* The invariant holds throughout.
LEMMA CIJobInvariance == Spec => []IInv
BY InitInvariant, StepInvariant, PTL DEF Spec
-----------------------------------------------------------------------------
\* What is posted of a run agrees with what it printed and wrote, whatever
\* happens to the tree meanwhile.
THEOREM OneReading == Spec => []OutputsAgree
<1>1. IInv => OutputsAgree
  <2> SUFFICES ASSUME IInv, NEW record \in posted
               PROVE  /\ printed # Torn => record.findings = printed
                      /\ record.sbom # None =>
                           \A b \in record.findings : b.file \in record.sbom.artifacts
                      /\ flags.provenance =>
                           /\ record.provenance = onDisk
                           /\ record.sbom # None => DOMAIN onDisk = record.sbom.artifacts
    BY DEF OutputsAgree
  <2>1. record = Record /\ printed \in {findings, Torn} /\ sbom = Document /\ Whole
    BY DEF IInv, ResultsInv, Made
  <2>2. /\ record.findings = findings /\ record.sbom = sbom
        /\ flags.provenance => record.provenance = digests
    BY <2>1 DEF Record
  <2>3. sbom # None => sbom.artifacts = materialFiles
    BY <2>1 DEF Document
  <2>4. \A b \in findings : b.file \in materialFiles
    BY DEF findings, FindingsOf, materialFiles
  <2> QED
    BY <2>1, <2>2, <2>3, <2>4 DEF Whole
<1> QED
  BY <1>1, CIJobInvariance, PTL

\* No job that gates on findings passes a run that has them or ended early.
THEOREM NoFalsePass == Spec => []GateHolds
<1>1. IInv => GateHolds
  BY DEF IInv, ResultsInv, JobInv, GateHolds
<1> QED
  BY <1>1, CIJobInvariance, PTL

\* The types of a scan and its job.
THEOREM TypeCorrect == Spec => []TypeOK
<1>1. IInv => TypeOK
  <2> SUFFICES ASSUME IInv PROVE TypeOK
    OBVIOUS
  <2>1. /\ TreeTypeOK /\ flags \in Flags /\ printed \in {None, Torn, findings}
        /\ sbom \in {None, Document}
        /\ DOMAIN digests \subseteq Files /\ digests \in Predicates(DOMAIN digests)
        /\ onDisk \in {None, Stale, Torn, digests} /\ exit \in {None, 0, 1, 2}
    BY DEF IInv, ResultsInv, ReadingInv
  <2>2. printed \in {None, Torn} \/ printed \subseteq resources
    BY <2>1 DEF findings, FindingsOf
  <2>3. materialFiles \in SUBSET Seq(STRING)
    BY <2>1 DEF materialFiles, TreeTypeOK, Batches
  <2>4. sbom \in Documents \cup {None}
    BY <2>1, <2>3 DEF Document, Documents
  <2> QED
    BY <2>1, <2>2, <2>4 DEF IInv, ResultsInv, JobInv, TypeOK, ScanTypeOK
<1> QED
  BY <1>1, CIJobInvariance, PTL

\* On a quiet tree the parsers share the files out: each file's resources reach
\* the scan once, through its own parser or its topmost chart.
THEOREM FilesSharedOut == Spec => []SharedOut
<1>1. IInv => SharedOut
  BY Sharing DEF IInv, ReadingInv
<1> QED
  BY <1>1, CIJobInvariance, PTL

\* On a quiet tree each resource carries the path of the file it comes from, if
\* subcharts go by the names of their directories.
THEOREM RightPaths == Spec => []AttributedToItsFile
<1>1. IInv => AttributedToItsFile
  BY Attribution DEF IInv, ReadingInv
<1> QED
  BY <1>1, CIJobInvariance, PTL

\* The digests of a whole predicate vouch for the files the resources name.
LEMMA DigestsVouch == IInv /\ DOMAIN digests = materialFiles => VouchesFor(digests)
<1> SUFFICES ASSUME IInv, DOMAIN digests = materialFiles, edits = 0, NEW b \in resources
             PROVE  /\ b.file \in DOMAIN digests \cap Files /\ digests[b.file] = tree[b.file]
                    /\ SubchartsNamed => digests[b.file] = b.content
  BY DEF VouchesFor
<1>1. b.file \in DOMAIN digests
  BY DEF materialFiles
<1>2. b.file \in Files /\ digests[b.file] = tree[b.file]
  BY <1>1 DEF IInv, ReadingInv
<1>3. b.content = tree[b.from] /\ (SubchartsNamed => b.file = b.from)
  BY ThroughOwner DEF IInv, ReadingInv
<1> QED
  BY <1>1, <1>2, <1>3

\* On a quiet tree a predicate this run has written vouches for what is under
\* each path the findings carry.
THEOREM QuietProvenance == Spec => []QuietTreeProvenance
<1>1. IInv => QuietTreeProvenance
  BY DigestsVouch DEF IInv, ReadingInv, QuietTreeProvenance
<1> QED
  BY <1>1, CIJobInvariance, PTL

\* What a strict supply chain signs are the findings of its first scan, and what
\* it attests to those of its second, with a predicate of its own; on a quiet
\* tree the predicate vouches for them, and both scans found the same.
THEOREM StrictAttestation == Spec => []AttestedTogether
<1>1. IInv => AttestedTogether
  <2> SUFFICES ASSUME IInv, job.strict
               PROVE  /\ signed \subseteq {FindingsOf(first), Torn}
                      /\ \A a \in attested :
                           /\ a.results \in {findings, Torn} /\ a.predicate = digests
                           /\ VouchesFor(a.predicate)
                      /\ edits = 0 => \A s \in signed, a \in attested :
                                        s = a.results \/ Torn \in {s, a.results}
    BY DEF AttestedTogether
  <2>1. /\ signed \subseteq {FindingsOf(first), Torn}
        /\ \A a \in attested : a.results \in {findings, Torn} /\ a.predicate = digests
        /\ attested # {} => DOMAIN digests = materialFiles /\ exit = 0
    BY DEF IInv, JobInv
  <2>2. attested # {} => VouchesFor(digests)
    BY <2>1, DigestsVouch
  <2>3. ASSUME edits = 0, signed # {}, attested # {} PROVE FindingsOf(first) = findings
    <3>1. \A b : b \in first <=> Yields(b)
      BY <2>3 DEF IInv, ChainInv
    <3>2. TreeTypeOK /\ TreeInv /\ Parsed
      BY <2>1, <2>3 DEF IInv, ReadingInv
    <3>3. \A b : b \in resources <=> Yields(b)
      BY <2>3, <3>2, SameReading
    <3>4. first = resources
      BY <3>1, <3>3
    <3> QED
      BY <3>4 DEF findings
  <2> QED
    BY <2>1, <2>2, <2>3
<1> QED
  BY <1>1, CIJobInvariance, PTL

\* Exit code 0 means that all of it was read, found well formed and without HIGH
\* and CRITICAL findings, that SBOM and predicate are there if asked for, and that
\* the portal has answered with a 201; stdout may have been cut short.
THEOREM ZeroIsTrue == Spec => []ZeroMeansAllDone
<1>1. IInv => ZeroMeansAllDone
  <2> SUFFICES ASSUME IInv, exit = 0 PROVE ZeroMeansAllDone
    BY DEF ZeroMeansAllDone
  <2>1. /\ TreeTypeOK /\ TreeInv /\ Parsed /\ Made /\ ~HasFailures
        /\ flags.upload # "no" => Record \in acked \cap posted
    BY DEF IInv, ResultsInv, ReadingInv
  <2>2. edits = 0 => \A f \in InScope :
          (Owner(f) = "helm" => helm /\ IsTemplate(f)) => WellFormed(Owner(f), f)
    BY <2>1, OwnerHasRead
  <2>3. \A b \in resources : b.severities \cap {"HIGH", "CRITICAL"} = {}
    BY <2>1 DEF HasFailures, findings, FindingsOf
  <2>4. /\ printed \in {findings, Torn}
        /\ flags.sbom => sbom = [artifacts |-> materialFiles]
        /\ flags.provenance => onDisk = digests /\ DOMAIN digests = materialFiles
    BY <2>1 DEF Made, Document, Whole
  <2>5. /\ Record.findings = findings /\ Record.sbom = sbom
        /\ flags.provenance => Record.provenance = onDisk
    BY <2>4 DEF Record
  <2> QED
    BY <2>1, <2>2, <2>3, <2>4, <2>5 DEF ZeroMeansAllDone
<1> QED
  BY <1>1, CIJobInvariance, PTL
=============================================================================
