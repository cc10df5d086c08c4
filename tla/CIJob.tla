------------------------------- MODULE CIJob --------------------------------
(* The job around a scan: the Azure DevOps task, the GitHub action, and the  *)
(* README's supply chain, which scans and signs the results file, then scans *)
(* again, for the predicate, and attests to the results file it has written  *)
(* anew. Results and predicate are plain files; the predicate may be one     *)
(* that an earlier run has left behind.                                      *)
EXTENDS ScanRun

VARIABLES
  job,       \* the kind of job, its setting, and how it ended
  first,     \* the resources read by the scan a chain has signed the results of
  signed,    \* the results cosign has signed
  attested   \* the results cosign has attested to, each with its predicate

jobVars == <<job, first, signed, attested>>
vars == <<scanVars, jobVars>>
-----------------------------------------------------------------------------
\* strict: the failOnHigh input of the two integrations; a supply chain that
\* stops at the first command that fails.
Jobs == [kind : {"shell", "azure", "github", "supply"}, strict : BOOLEAN,
         verdict : {"running", "passed", "failed"}]

TypeOK ==
  /\ ScanTypeOK
  /\ pc \in Points \cup {"sign", "rescan", "attest", "reported"}
  /\ job \in Jobs
  /\ acked \subseteq posted /\ posted \subseteq {Record}
  /\ first \subseteq Batches /\ signed \subseteq {None, Torn, FindingsOf(first)}
  /\ \A a \in attested : /\ a.results \in {None, Torn, findings}
                          /\ a.predicate \in {Stale, digests}

\* The flags each kind of job gives its first scan; a shell's are its user's.
Runs(kind) ==
  IF kind = "shell" THEN Flags
  ELSE [sbom : {FALSE}, provenance : {FALSE}, upload : {"no"}]

Init ==
  /\ job \in [kind : {"shell", "azure", "github", "supply"}, strict : BOOLEAN,
              verdict : {"running"}]
  /\ job.kind = "shell" => ~job.strict
  /\ ScanInit
  /\ flags \in Runs(job.kind)
  /\ onDisk = Stale => flags.provenance \/ job.kind = "supply"
  /\ first = {} /\ signed = {} /\ attested = {}
-----------------------------------------------------------------------------
Verdict(v) == job' = [job EXCEPT !.verdict = v] /\ pc' = "reported"
PassedIf(ok) == Verdict(IF ok THEN "passed" ELSE "failed")

\* Variant: the scan's exit code is lost in a pipe.
AzureTask_ExitLost == job.kind = "azure" /\ PassedIf(TRUE)

\* scan.sh takes every exit code but 0 for HIGH or CRITICAL findings.
AzureTask == job.kind = "azure" /\ PassedIf(exit = 0 \/ ~job.strict)

\* action.yml never looks at its input: the scan step may fail, and only the
\* upload of the SARIF file ends the job. A file that was not written, or not to
\* its end, is an error; one without findings has null for its results, and may
\* be.
GitHubAction ==
  /\ job.kind = "github"
  /\ \/ printed \notin {None, Torn} /\ PassedIf(TRUE)
     \/ printed \in {None, Torn, {}} /\ PassedIf(FALSE)

Shell == job.kind = "shell" /\ PassedIf(exit = 0)

\* The next command of the supply chain, or its end.
Proceed(ok, next) ==
  IF job.strict /\ ~ok THEN Verdict("failed") ELSE pc' = next /\ UNCHANGED job

\* The second scan of a chain is the one with a predicate.
Exited ==
  /\ pc = "exited"
  /\ \/ AzureTask \/ GitHubAction \/ Shell
     \/ job.kind = "supply" /\ Proceed(exit = 0, IF flags.provenance THEN "attest" ELSE "sign")
  /\ UNCHANGED <<scanVarsButPc, first, signed, attested>>

\* cosign signs whatever the file holds; an attestation needs a predicate file
\* that is there and whole.
SignBlob(file) == signed' = signed \cup {file}
AttestBlob(file, predicate) ==
  /\ predicate \notin {None, Torn}
  /\ attested' = attested \cup {[results |-> file, predicate |-> predicate]}

\* `policyforge sign results.json`: cosign may be missing or fail.
Sign ==
  /\ pc = "sign"
  /\ first' = resources
  /\ \/ SignBlob(printed) /\ Proceed(TRUE, "rescan")
     \/ UNCHANGED signed /\ Proceed(FALSE, "rescan")
  /\ UNCHANGED <<scanVarsButPc, attested>>

\* The same scan with --provenance; the shell empties results.json for it.
Rescan ==
  /\ pc = "rescan" /\ pc' = "flags"
  /\ flags' = [flags EXCEPT !.provenance = TRUE]
  /\ Restart
  /\ printed' = None /\ sbom' = None /\ digests' = <<>> /\ exit' = None
  /\ UNCHANGED <<onDisk, posted, acked, jobVars>>

\* `policyforge attest --predicate p results.json`, the last command.
Attest ==
  /\ pc = "attest"
  /\ \/ AttestBlob(printed, onDisk) /\ Verdict("passed")
     \/ UNCHANGED attested /\ Verdict("failed")
  /\ UNCHANGED <<scanVarsButPc, first, signed>>

Job == Exited \/ Sign \/ Rescan \/ Attest

Next == ((Scan \/ EditDuring) /\ UNCHANGED jobVars) \/ Job

\* Processes run; the portal answers each POST or the connection breaks; edits
\* owe nothing.
Spec == Init /\ [][Next]_vars /\ WF_vars(Scan /\ UNCHANGED jobVars) /\ WF_vars(Job)
-----------------------------------------------------------------------------
\* A job that gates on findings never passes a run with HIGH or CRITICAL
\* ones, or one that ended early; and no GitHub job passes without the whole
\* SARIF file, whose upload then fails.
GateHolds ==
  job.verdict = "passed" =>
    /\ job.kind = "azure" /\ job.strict => ~HasFailures /\ exit = 0
    /\ job.kind = "github" => printed = findings

\* In a supply chain that stops at the first error, what is signed are the
\* findings of its first scan, and what is attested to are those of its second
\* with the predicate of that same scan, never one that an earlier run has
\* left; either file may only have been cut short while it was printed. On a
\* tree that stays as it is the predicate vouches for every file the attested
\* results were made of, and they are the signed ones. (With an edit between
\* the two scans they are not, and nothing tells.)
AttestedTogether ==
  job.strict =>
    /\ signed \subseteq {FindingsOf(first), Torn}
    /\ \A a \in attested :
         /\ a.results \in {findings, Torn} /\ a.predicate = digests
         /\ VouchesFor(a.predicate)
    /\ edits = 0 => \A s \in signed, a \in attested :
                      s = a.results \/ Torn \in {s, a.results}

\* Every job comes to a verdict.
EveryRunReports == <>(pc = "reported")

\* action.yml: fail the workflow if HIGH or CRITICAL findings are present.
FailsOnHigh ==
  job.kind \in {"azure", "github"} /\ job.strict /\ pc = "reported" /\ HasFailures
    => job.verdict = "failed"
=============================================================================
