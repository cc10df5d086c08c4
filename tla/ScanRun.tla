------------------------------ MODULE ScanRun -------------------------------
(* One `policyforge scan`, from its flags to its exit code, over a tree that *)
(* may change while it runs. Each file is read while parsing; --provenance   *)
(* opens the files the resources name again, for their digests.              *)
EXTENDS SourceTree

CONSTANTS
  None,    \* not made, not known
  Stale,   \* the predicate an earlier scan has left
  Torn     \* a file cut short

VARIABLES
  flags,     \* the command line
  pc,        \* where runScan stands
  printed,   \* what has come of the findings on stdout, which is a file in a job
  sbom,      \* the SBOM document made
  digests,   \* digests[f]: the content hashed for the predicate
  onDisk,    \* the file --provenance names
  posted,    \* the record the POST has brought to the portal, if it did
  acked,     \* the record the portal has answered with a 201, if it did
  exit       \* the exit code

results == <<printed, sbom, digests, onDisk, posted, acked>>
scanVarsButPc == <<treeVars, flags, results, exit>>
scanVars == <<scanVarsButPc, pc>>
-----------------------------------------------------------------------------
Flags == [sbom : BOOLEAN, provenance : BOOLEAN,
          upload : {"no", "unnamed", "named"}]   \* named: --org and --project given

Points == {"flags", "parse", "evaluate", "sbom", "hash", "upload", "gate", "exited"}

\* A digest stands for the content it was made of; an artifact of an SBOM, for
\* the file it is at.
Predicates(files) == [files -> Contents]
Documents == [artifacts : SUBSET Seq(STRING)]

ASSUME NoneAssumption ==
  /\ None \notin {0, 1, 2}
  /\ None \notin Documents
  /\ \A files \in SUBSET Files : None \notin Predicates(files)

\* Each result is made of what the parsers have read.
ScanTypeOK ==
  /\ TreeTypeOK
  /\ flags \in Flags
  /\ printed \in {None, Torn} \/ printed \subseteq resources
  /\ sbom \in Documents \cup {None}
  /\ DOMAIN digests \subseteq Files /\ digests \in Predicates(DOMAIN digests)
  /\ onDisk \in {None, Stale, Torn, digests}
  /\ exit \in {None, 0, 1, 2}

ScanInit ==
  /\ TreeInit
  /\ flags \in Flags
  /\ pc = "flags"
  /\ printed = None /\ sbom = None /\ posted = {} /\ acked = {} /\ exit = None
  /\ digests = <<>>
  /\ onDisk \in {None, Stale}
-----------------------------------------------------------------------------
Exit(code) == pc' = "exited" /\ exit' = code
Goto(point) == pc' = point /\ UNCHANGED exit

\* Variant: the exit code sysexits.h has for a usage error.
ParseFlags_Usage ==
  /\ pc = "flags"
  /\ IF flags.upload = "unnamed" THEN Exit(64) ELSE Goto("parse")
  /\ UNCHANGED <<treeVars, results>>

ParseFlags ==
  /\ pc = "flags"
  /\ IF flags.upload = "unnamed" THEN Exit(2) ELSE Goto("parse")
  /\ UNCHANGED <<treeVars, results>>

\* One step of parseAll, or its return.
ParseStep ==
  /\ pc = "parse"
  /\ \/ Parse /\ UNCHANGED <<pc, exit>>
     \/ broken /\ Exit(1) /\ UNCHANGED treeVars
     \/ Parsed /\ Goto("evaluate") /\ UNCHANGED treeVars
  /\ UNCHANGED results

FindingsOf(batches) == {b \in batches : b.severities # {}}
findings == FindingsOf(resources)

\* Writing to stdout may fail, and nobody looks at the error.
ToStdout(document) == printed' \in {document, Torn}

\* The rule packs run, or a custom one does not compile; the findings are
\* printed before anything else is made of them.
Evaluate ==
  /\ pc = "evaluate"
  /\ \/ ToStdout(findings) /\ Goto("sbom")
     \/ Exit(1) /\ UNCHANGED printed
  /\ UNCHANGED <<treeVars, sbom, digests, onDisk, posted, acked>>

\* The SBOM has an artifact for each resource, at the file it carries; it is
\* printed behind the findings.
GenerateSBOM ==
  /\ pc = "sbom"
  /\ IF flags.sbom
       THEN sbom' = [artifacts |-> {b.file : b \in resources}] /\ ToStdout(printed)
       ELSE sbom' = None /\ UNCHANGED printed
  /\ Goto(IF flags.provenance THEN "hash" ELSE "upload")
  /\ UNCHANGED <<treeVars, digests, onDisk, posted, acked>>

\* Variant: only files with findings.
materialFiles_WithFindings == {b.file : b \in findings}

materialFiles == {b.file : b \in resources}
Unhashed == materialFiles \ DOMAIN digests

\* Generate opens the materials one by one, in an order of its own: one that is
\* gone by now, or was never there under this path, is an error.
Hash ==
  /\ pc = "hash" /\ Unhashed # {}
  /\ LET f == CHOOSE f \in Unhashed : TRUE IN
       \/ /\ f \in Files /\ tree[f] # Gone
          /\ digests' = [g \in DOMAIN digests \cup {f} |->
                           IF g = f THEN tree[f] ELSE digests[g]]
          /\ Goto("hash")
       \/ /\ ~(f \in Files /\ tree[f] # Gone)
          /\ Exit(1) /\ UNCHANGED digests
  /\ UNCHANGED <<treeVars, printed, sbom, onDisk, posted, acked>>

\* Variant: an error of the write is dropped.
WritePredicate_ErrorDropped ==
  /\ pc = "hash" /\ Unhashed = {}
  /\ onDisk' \in {digests, onDisk, Torn}
  /\ Goto("upload")
  /\ UNCHANGED <<treeVars, printed, sbom, digests, posted, acked>>

\* A write that fails may leave the file as it was or cut it short.
WritePredicate ==
  /\ pc = "hash" /\ Unhashed = {}
  /\ \/ onDisk' = digests /\ Goto("upload")
     \/ onDisk' \in {onDisk, Torn} /\ Exit(1)
  /\ UNCHANGED <<treeVars, printed, sbom, digests, posted, acked>>

\* Variant: the predicate is left out of the payload.
Record_WithoutProvenance ==
  [findings |-> findings, sbom |-> sbom, provenance |-> None]

\* The record uploadFindings posts.
Record ==
  [findings |-> findings, sbom |-> sbom,
   provenance |-> IF flags.provenance THEN digests ELSE None]

\* Variant: only a connection that breaks is an error, and not what is answered.
Upload_AnyAnswer ==
  /\ pc = "upload"
  /\ \/ flags.upload = "no" /\ Goto("gate") /\ UNCHANGED <<posted, acked>>
     \/ flags.upload = "named" /\ posted' = {Record} /\ acked' = {Record} /\ Goto("gate")
     \/ flags.upload = "named" /\ UNCHANGED <<posted, acked>> /\ (Goto("gate") \/ Exit(1))
  /\ UNCHANGED <<treeVars, printed, sbom, digests, onDisk>>

\* One POST. Without a 201 and a body that can be read the run fails, though
\* the portal may have stored the scan all the same (Ingest says what it makes
\* of a record).
Upload ==
  /\ pc = "upload"
  /\ \/ flags.upload = "no" /\ Goto("gate") /\ UNCHANGED <<posted, acked>>
     \/ flags.upload = "named" /\ posted' = {Record} /\ acked' = {Record} /\ Goto("gate")
     \/ flags.upload = "named" /\ posted' \in {posted, {Record}} /\ UNCHANGED acked /\ Exit(1)
  /\ UNCHANGED <<treeVars, printed, sbom, digests, onDisk>>

HasFailures == \E b \in findings : b.severities \cap {"HIGH", "CRITICAL"} # {}

Gate ==
  /\ pc = "gate"
  /\ Exit(IF HasFailures THEN 1 ELSE 0)
  /\ UNCHANGED <<treeVars, results>>

Scan == /\ \/ ParseFlags \/ ParseStep \/ Evaluate \/ GenerateSBOM \/ Hash
           \/ WritePredicate \/ Upload \/ Gate
        /\ UNCHANGED flags

\* The tree changes under the scan, as long as the scan still reads it.
EditDuring == pc \in {"parse", "evaluate", "sbom", "hash"} /\ Edit /\ UNCHANGED <<flags, pc, results, exit>>
-----------------------------------------------------------------------------
\* An exit code of 0 means that, with nobody editing, every file in scope is
\* well formed (of charts, the templates helm renders), that no resource read
\* has HIGH or CRITICAL findings, that the SBOM and the predicate are there if
\* asked for and leave out no file with resources, and that the portal has
\* answered a POST of all of it with a 201 (runScan's early returns). What is
\* on stdout is another matter: whole, or cut short by a write whose error is
\* dropped.
ZeroMeansAllDone ==
  exit = 0 =>
    /\ edits = 0 => \A f \in InScope :
                      (Owner(f) = "helm" => helm /\ IsTemplate(f)) => WellFormed(Owner(f), f)
    /\ \A b \in resources : b.severities \cap {"HIGH", "CRITICAL"} = {}
    /\ printed \in {findings, Torn}
    /\ flags.sbom => sbom = [artifacts |-> materialFiles]
    /\ flags.provenance => onDisk = digests /\ DOMAIN digests = materialFiles
    /\ flags.upload # "no" => \E record \in acked \cap posted :
                                /\ record.findings = findings
                                /\ flags.sbom => record.sbom = sbom
                                /\ flags.provenance => record.provenance = onDisk

\* Whatever is posted of a run, failed or not, agrees with what the run wrote
\* and, unless that was cut short, printed: one parse feeds all of its outputs.
OutputsAgree ==
  \A record \in posted :
    /\ printed # Torn => record.findings = printed
    /\ record.sbom # None => \A b \in record.findings : b.file \in record.sbom.artifacts
    /\ flags.provenance => /\ record.provenance = onDisk
                           /\ record.sbom # None => DOMAIN onDisk = record.sbom.artifacts

\* As long as nobody edits the tree, a predicate this run has written vouches
\* for what is under each path the findings carry; and that is the content the
\* resource comes from, as long as subcharts go by the names of their
\* directories. (The path of one that does not may be another file's.)
VouchesFor(predicate) ==
  edits = 0 =>
    \A b \in resources :
      /\ b.file \in DOMAIN predicate \cap Files /\ predicate[b.file] = tree[b.file]
      /\ SubchartsNamed => predicate[b.file] = b.content

QuietTreeProvenance == onDisk \notin {None, Stale, Torn} => VouchesFor(onDisk)
=============================================================================
