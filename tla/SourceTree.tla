----------------------------- MODULE SourceTree -----------------------------
(* parseAll: four parsers walk the scanned path one after the other and      *)
(* share its files out. Terraform and Bicep take files by their extension,   *)
(* wherever they are; a directory with a Chart.yaml is left out by the       *)
(* Kubernetes parser and rendered as a whole by the Helm parser, subcharts   *)
(* included. Someone may edit the tree between any two reads.                *)
EXTENDS Integers, Sequences, SequencesExt, FiniteSets, FiniteSetsExt

CONSTANTS
  Order,         \* every path a tree may have, in the order WalkDir visits them
  Language(_),   \* of a path: "directory", or the parser its extension belongs to
  Versions(_),   \* what the file at a path may hold
  Trees,         \* the trees a scan may begin with
  Gone,          \* a file that is not there
  MaxEdits       \* bound: changes to the tree while the scan runs

\* A path is the sequence of names on the way to it. A content is well formed
\* (rendered, if it is a template) or not, is YAML as it stands or not, has
\* resources or not, and leads to findings, a template that is read as it stands
\* to findings of its own; a Chart.yaml's has a name.
Severities == {"LOW", "MEDIUM", "HIGH", "CRITICAL"}
Paths == ToSet(Order)
Files == {p \in Paths : Language(p) # "directory"}
Contents == UNION {Versions(f) : f \in Files}
Snapshots == [Files -> Contents \cup {Gone}]

\* WalkDir: a directory before what is in it, and all of that together.
ASSUME OrderAssumption ==
  /\ Order \in Seq(Seq(STRING))
  /\ \A i, j \in DOMAIN Order : IsPrefix(Order[i], Order[j]) =>
       i <= j /\ \A k \in i..j : IsPrefix(Order[i], Order[k])
  /\ \A p, q \in Paths : IsStrictPrefix(p, q) => Language(p) = "directory"
  /\ \A p \in Paths : Language(p) \in {"directory", "terraform", "bicep", "kubernetes"}
ASSUME TreesAssumption ==
  /\ Gone \notin Contents
  /\ Trees \subseteq Snapshots
  /\ Contents \subseteq [ok : BOOLEAN, yaml : BOOLEAN, resources : BOOLEAN,
                         severities : SUBSET Severities, raw : SUBSET Severities,
                         name : STRING]
ASSUME EditsAssumption == MaxEdits \in Nat

VARIABLES
  tree,       \* tree[f]: what the file at f holds now
  edits,      \* changes to the tree so far
  changed,    \* the files added or removed since the walk under way began
  path,       \* --path
  helm,       \* the helm binary is installed
  walk,       \* the parser at work
  at,         \* the place in Order its walk has come to
  resources,  \* the resources so far, those of one file by one parser together
  broken      \* a parser has returned an error that ends the scan

walkVars == <<walk, at, resources, broken>>
treeVars == <<tree, edits, changed, path, helm, walkVars>>
-----------------------------------------------------------------------------
Walks == <<"terraform", "bicep", "kubernetes", "helm">>
Parser == Walks[walk]

\* file is the path the resources carry, from the file they really come from.
Batches == [parser : ToSet(Walks), file : Seq(STRING), from : Files,
            content : Contents, severities : SUBSET Severities]

TreeTypeOK ==
  /\ tree \in Snapshots
  /\ edits \in 0..MaxEdits
  /\ changed \subseteq Files
  /\ path \in Paths
  /\ helm \in BOOLEAN
  /\ walk \in 1..(Len(Walks) + 1)
  /\ at \in 1..(Len(Order) + 1)
  /\ resources \subseteq Batches
  /\ broken \in BOOLEAN

ChartFile(d) == Append(d, "Chart.yaml")
HasChart(d) == ChartFile(d) \in Files /\ tree[ChartFile(d)] # Gone
Named(d) == tree[ChartFile(d)].name

\* Where a walk does something: at the files of its language and, for the
\* two that look for charts, at the directories that may be one.
Acts(parser, p) ==
  /\ IsPrefix(path, p)
  /\ \/ Language(p) = parser
     \/ parser \in {"kubernetes", "helm"} /\ ChartFile(p) \in Files

End == Len(Order) + 1
Stop(parser, i) == Min({j \in i..Len(Order) : Acts(parser, Order[j])} \cup {End})

\* The place behind everything below d: SkipDir.
Behind(d) == Min({j \in at..Len(Order) : ~IsPrefix(d, Order[j])} \cup {End})

TreeInit ==
  /\ tree \in Trees
  /\ edits = 0 /\ changed = {}
  /\ path \in {p \in Paths : Language(p) = "directory"}
  /\ helm \in BOOLEAN
  /\ walk = 1 /\ at = Stop("terraform", 1)
  /\ resources = {}
  /\ broken = FALSE

\* Someone edits, adds or removes a file.
Edit ==
  /\ edits < MaxEdits
  /\ edits' = edits + 1
  /\ \E f \in Files : \E c \in Versions(f) \cup {Gone} :
       /\ tree[f] # c
       /\ tree' = [tree EXCEPT ![f] = c]
       /\ changed' = IF Gone \in {tree[f], c} THEN changed \cup {f} ELSE changed
  /\ UNCHANGED <<path, helm, walkVars>>
-----------------------------------------------------------------------------
(* The walks of the three parsers that read files.                           *)

\* A chart's template, read as it stands and not as helm renders it.
Raw(parser, f) == parser = "kubernetes" /\ \E i \in 1..(Len(f) - 1) : f[i] = "templates"

WellFormed(parser, f) == IF Raw(parser, f) THEN tree[f].yaml ELSE tree[f].ok

\* What the rules find in a file depends on whether values have been filled in.
Found(parser, f) == IF Raw(parser, f) THEN tree[f].raw ELSE tree[f].severities

Batch(parser, file, from) ==
  [parser |-> parser, file |-> file, from |-> from, content |-> tree[from],
   severities |-> Found(parser, from)]

GoTo(i) == at' = Stop(Parser, i) /\ UNCHANGED walk
Break == broken' = TRUE /\ UNCHANGED <<at, walk, resources>>

\* Variant: nothing becomes of a file that does not parse.
ReadFile_NoError ==
  LET f == Order[at] IN
    /\ at < End /\ Language(f) = Parser
    /\ \/ /\ tree[f] = Gone \/ f \in changed
          /\ GoTo(at + 1) /\ UNCHANGED <<resources, broken>>
       \/ /\ tree[f] # Gone /\ WellFormed(Parser, f)
          /\ resources' = IF tree[f].resources
                            THEN resources \cup {Batch(Parser, f, f)} ELSE resources
          /\ GoTo(at + 1) /\ UNCHANGED broken

\* A directory is listed when the walk enters it, so a file added since may be
\* missed, and one that was listed may be gone: an error, like a file that does
\* not parse.
ReadFile ==
  LET f == Order[at] IN
    /\ at < End /\ Language(f) = Parser
    /\ \/ /\ tree[f] = Gone \/ f \in changed
          /\ GoTo(at + 1) /\ UNCHANGED <<resources, broken>>
       \/ /\ tree[f] # Gone /\ WellFormed(Parser, f)
          /\ resources' = IF tree[f].resources
                            THEN resources \cup {Batch(Parser, f, f)} ELSE resources
          /\ GoTo(at + 1) /\ UNCHANGED broken
       \/ /\ IF tree[f] = Gone THEN f \in changed ELSE ~WellFormed(Parser, f)
          /\ Break

\* Variant: charts are walked like any directory.
EnterDirectory_NoSkip ==
  /\ at < End /\ Parser = "kubernetes" /\ Language(Order[at]) = "directory"
  /\ GoTo(at + 1)
  /\ UNCHANGED <<resources, broken>>

\* The Kubernetes parser returns SkipDir for a chart.
EnterDirectory ==
  /\ at < End /\ Parser = "kubernetes" /\ Language(Order[at]) = "directory"
  /\ GoTo(IF HasChart(Order[at]) THEN Behind(Order[at]) ELSE at + 1)
  /\ UNCHANGED <<resources, broken>>
-----------------------------------------------------------------------------
(* `helm template d` and what the Helm parser makes of its output.           *)

\* The chart at d and its subcharts: d/charts/x, d/charts/x/charts/y, and so on.
ChartDirs(d) ==
  {c \in Paths :
     /\ Language(c) = "directory" /\ IsPrefix(d, c)
     /\ \E k \in 0..Len(c) : /\ Len(c) = Len(d) + 2 * k
                              /\ \A i \in 1..k : c[Len(d) + 2 * i - 1] = "charts"}
Subcharts(d) == ChartDirs(d) \ {d}

\* All below a chart's templates/, those in YAML: no others are modelled.
Templates(d) ==
  {f \in Files : /\ Language(f) = "kubernetes" /\ tree[f] # Gone
                 /\ \E c \in ChartDirs(d) : IsStrictPrefix(Append(c, "templates"), f)}

\* A subchart without a Chart.yaml fails its parent.
Renders(d) ==
  /\ \A c \in ChartDirs(d) :
       (\E f \in Files : IsStrictPrefix(c, f) /\ tree[f] # Gone)
         => HasChart(c) /\ tree[ChartFile(c)].ok
  /\ \A f \in Templates(d) : tree[f].ok

\* The path helm prints in front of a template's output: chart and subcharts
\* go by their names, not by their directories.
Source(d, f) ==
  <<Named(d)>> \o
  [i \in 1..(Len(f) - Len(d)) |->
     LET p == SubSeq(f, 1, Len(d) + i) IN
       IF p \in Subcharts(d) THEN Named(p) ELSE Last(p)]

\* Variant: helm's path is taken to be relative to the chart.
resolveSourcePath_Whole(d, source) == d \o source

\* The first segment is dropped, whatever the chart is called.
resolveSourcePath(d, source) ==
  d \o (IF Len(source) > 1 THEN Tail(source) ELSE source)

Rendering(d) ==
  {Batch("helm", resolveSourcePath(d, Source(d, f)), f) :
     f \in {g \in Templates(d) : tree[g].resources}}

\* The topmost chart is rendered and skipped. Without the binary the walk ends
\* with an error that parseAll only warns of.
RenderChart ==
  LET d == Order[at] IN
    /\ at < End /\ Parser = "helm"
    /\ \/ ~HasChart(d) /\ GoTo(at + 1) /\ UNCHANGED <<resources, broken>>
       \/ /\ HasChart(d) /\ ~helm
          /\ walk' = walk + 1 /\ UNCHANGED <<at, resources, broken>>
       \/ /\ HasChart(d) /\ helm /\ Renders(d)
          /\ resources' = resources \cup Rendering(d)
          /\ GoTo(Behind(d)) /\ UNCHANGED broken
       \/ HasChart(d) /\ helm /\ ~Renders(d) /\ Break

\* parseAll turns to the next parser.
NextWalk ==
  /\ at = End
  /\ walk' = walk + 1
  /\ at' = IF walk < Len(Walks) THEN Stop(Walks[walk + 1], 1) ELSE at
  /\ UNCHANGED <<resources, broken>>

\* Another scan of the same path begins.
Restart ==
  /\ walk' = 1 /\ at' = Stop("terraform", 1)
  /\ resources' = {} /\ broken' = FALSE /\ changed' = {}
  /\ UNCHANGED <<tree, edits, path, helm>>

Parsed == walk = Len(Walks) + 1

Parse ==
  /\ ~Parsed /\ ~broken
  /\ \/ (ReadFile \/ EnterDirectory \/ RenderChart) /\ UNCHANGED changed
     \/ NextWalk /\ changed' = {}
  /\ UNCHANGED <<tree, edits, path, helm>>
-----------------------------------------------------------------------------
Charts == {d \in Paths : Language(d) = "directory" /\ HasChart(d)}

\* The charts the walk can see around a file.
Around(f) == {c \in Charts : IsPrefix(path, c) /\ IsStrictPrefix(c, f)}

Owner(f) == IF Language(f) = "kubernetes" /\ Around(f) # {} THEN "helm" ELSE Language(f)

\* The files below --path, unless that is itself inside a chart: then nothing
\* tells the parsers that its templates are templates.
InScope == IF \E c \in Charts : IsStrictPrefix(c, path) THEN {}
           ELSE {f \in Files : IsPrefix(path, f) /\ tree[f] # Gone}

\* What helm reads of the topmost chart around f: its templates, not the other
\* files it may have.
Top(f) == CHOOSE c \in Around(f) : \A e \in Around(f) : IsPrefix(c, e)
IsTemplate(f) == Around(f) # {} /\ f \in Templates(Top(f))

\* ParseDir's comments: each file's resources reach the scan once, through its
\* own parser or through the rendering of the topmost chart around it, never
\* both and, in a chart, never as a raw template; charts are left out without
\* the helm binary, and nothing else is but what helm does not render: files of
\* a chart that are in the templates of neither it nor its subcharts.
SharedOut ==
  Parsed /\ edits = 0 =>
    \A f \in {g \in InScope : tree[g].resources} :
      LET read == {b \in resources : b.from = f} IN
        IF Owner(f) = "helm" /\ ~(helm /\ IsTemplate(f)) THEN read = {}
        ELSE \E b \in read : /\ read = {b}
                             /\ b.parser = Owner(f)
                             /\ b.severities = Found(Owner(f), f)

\* A subchart has to go by the name of its directory: helm's path has the name.
SubchartsNamed ==
  \A d \in Charts : \A c \in Charts \cap Subcharts(d) : Named(c) = Last(c)

\* ParseChart's comment: a resource carries the path of the template it comes
\* from, whatever the chart is called and wherever it is.
AttributedToItsFile == edits = 0 /\ SubchartsNamed => \A b \in resources : b.file = b.from
=============================================================================
