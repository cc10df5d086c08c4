-------------------------- MODULE SourceTreeProofs --------------------------
(* Proofs about parseAll, for every tree and every path: on a tree nobody    *)
(* edits, the four walks share the files out, none twice and none left out,  *)
(* and each resource carries the path of its own file. The walks are seen    *)
(* from a place in Order: what is behind each walk has been read, and        *)
(* nothing else.                                                             *)
EXTENDS SourceTree, SequenceTheorems, WellFoundedInduction, TLAPS
-----------------------------------------------------------------------------
(* Paths.                                                                    *)
\* A prefix agrees with the whole wherever it has an element.
LEMMA PrefixIs ==
  ASSUME NEW T, NEW s \in Seq(T), NEW t \in Seq(T)
  PROVE  IsPrefix(s, t) <=> Len(s) <= Len(t) /\ \A i \in 1..Len(s) : s[i] = t[i]
<1>1. Len(s) \in Nat /\ Len(t) \in Nat
  BY LenProperties
<1>2. CASE Len(s) <= Len(t)
  <2>1. \A i \in 1..Len(s) : s[i] \in T /\ t[i] \in T
    BY <1>1, <1>2, ElementOfSeq
  <2> DEFINE u == SubSeq(s, 1, Len(s))
             v == SubSeq(t, 1, Len(s))
  <2>2. u \in Seq(T) /\ Len(u) = Len(s) /\ \A i \in 1..Len(s) : u[i] = s[i]
    BY <1>1, <2>1, SubSeqProperties
  <2>3. v \in Seq(T) /\ Len(v) = Len(s) /\ \A i \in 1..Len(s) : v[i] = t[i]
    BY <1>1, <2>1, SubSeqProperties
  <2> HIDE DEF u, v
  <2>4. u = v <=> \A i \in 1..Len(s) : s[i] = t[i]
    BY <1>1, <2>2, <2>3, SeqEqual
  <2> QED
    BY <1>2, <2>4 DEF IsPrefix, u, v
<1>3. CASE ~(Len(s) <= Len(t))
  BY <1>3 DEF IsPrefix
<1> QED
  BY <1>2, <1>3

\* Paths are ordered by what is in what.
LEMMA PrefixOrder ==
  ASSUME NEW T, NEW s \in Seq(T), NEW t \in Seq(T), NEW u \in Seq(T)
  PROVE  /\ IsPrefix(s, s)
         /\ IsPrefix(s, t) /\ IsPrefix(t, u) => IsPrefix(s, u)
         /\ IsPrefix(s, t) /\ IsPrefix(t, s) => s = t
         /\ IsPrefix(s, u) /\ IsPrefix(t, u) => IsPrefix(s, t) \/ IsPrefix(t, s)
<1>1. Len(s) \in Nat /\ Len(t) \in Nat /\ Len(u) \in Nat
  BY LenProperties
<1>2. IsPrefix(s, s) /\ (IsPrefix(s, t) /\ IsPrefix(t, u) => IsPrefix(s, u))
  BY <1>1, PrefixIs
<1>3. IsPrefix(s, t) /\ IsPrefix(t, s) => s = t
  BY <1>1, PrefixIs, SeqEqual
<1>4. IsPrefix(s, u) /\ IsPrefix(t, u) => IsPrefix(s, t) \/ IsPrefix(t, s)
  BY <1>1, PrefixIs
<1> QED
  BY <1>2, <1>3, <1>4

\* One name more.
LEMMA AppendPrefix ==
  ASSUME NEW T, NEW s \in Seq(T), NEW t \in Seq(T), NEW x \in T
  PROVE  /\ Append(s, x) \in Seq(T) /\ IsStrictPrefix(s, Append(s, x))
         /\ IsStrictPrefix(t, Append(s, x)) => IsPrefix(t, s)
<1>1. Len(s) \in Nat /\ Len(t) \in Nat
  BY LenProperties
<1> DEFINE a == Append(s, x)
<1>2. /\ a \in Seq(T) /\ Len(a) = Len(s) + 1 /\ a[Len(s) + 1] = x
      /\ \A i \in 1..Len(s) : a[i] = s[i]
  BY <1>1
<1> HIDE DEF a
<1>3. IsPrefix(s, a) /\ s # a
  BY <1>1, <1>2, PrefixIs
<1>4. ASSUME IsPrefix(t, a), t # a PROVE IsPrefix(t, s)
  <2>1. Len(t) <= Len(a) /\ \A i \in 1..Len(t) : t[i] = a[i]
    BY <1>2, <1>4, PrefixIs
  <2>2. Len(t) # Len(a)
    BY <1>1, <1>2, <1>4, <2>1, SeqEqual
  <2>3. Len(t) <= Len(s) /\ \A i \in 1..Len(t) : t[i] = s[i]
    BY <1>1, <1>2, <2>1, <2>2
  <2> QED
    BY <2>3, PrefixIs
<1> QED
  BY <1>2, <1>3, <1>4 DEF a, IsStrictPrefix
-----------------------------------------------------------------------------
(* Places in the order of the walk.                                          *)

\* The provers do not know that a literal is a string.
Names == STRING \cup {"templates", "Chart.yaml"}

\* Every path has a place, and only paths do.
LEMMA Places ==
  /\ Len(Order) \in Nat /\ DOMAIN Order = 1..Len(Order) /\ End = Len(Order) + 1
  /\ \A i \in 1..Len(Order) : Order[i] \in Paths
  /\ \A p \in Paths : /\ p \in Seq(STRING) /\ p \in Seq(Names)
                      /\ \E i \in 1..Len(Order) : p = Order[i]
  /\ Files \subseteq Paths
<1>1. Len(Order) \in Nat /\ DOMAIN Order = 1..Len(Order)
      /\ \A i \in 1..Len(Order) : Order[i] \in Seq(STRING)
  BY OrderAssumption, LenProperties, ElementOfSeq
<1>2. \A p \in Seq(STRING) : p \in Seq(Names)
  BY SeqMonotonic DEF Names
<1>3. /\ \A i \in 1..Len(Order) : Order[i] \in Paths
      /\ \A p \in Paths : \E i \in 1..Len(Order) : p = Order[i]
  BY <1>1 DEF Paths, ToSet
<1>4. End = Len(Order) + 1 /\ Files \subseteq Paths
  BY DEF End, Files
<1> QED
  BY <1>1, <1>2, <1>3, <1>4

\* A directory comes first, and together with what is in it.
LEMMA WalkOrder ==
  ASSUME NEW i \in 1..Len(Order), NEW j \in 1..Len(Order), IsPrefix(Order[i], Order[j])
  PROVE  i <= j /\ \A k \in i..j : IsPrefix(Order[i], Order[k])
BY Places, OrderAssumption

\* What has something in it is a directory.
LEMMA InDirectory ==
  ASSUME NEW p \in Paths, NEW q \in Paths, IsStrictPrefix(p, q)
  PROVE  Language(p) = "directory" /\ p \notin Files
BY OrderAssumption DEF Files

\* A Chart.yaml lies in its chart.
LEMMA BelowChart ==
  ASSUME NEW d \in Paths
  PROVE  IsStrictPrefix(d, ChartFile(d))
<1>1. d \in Seq(Names)
  BY Places
<1>2. \A x \in Names : IsStrictPrefix(d, Append(d, x))
  BY <1>1, AppendPrefix
<1> QED
  BY <1>2, Zenon DEF Names, ChartFile

\* The least of some numbers.
LEMMA MinIs ==
  ASSUME NEW S \in SUBSET Nat, S # {}
  PROVE  Min(S) \in S /\ \A y \in S : Min(S) <= y
<1>1. PICK x \in S : \A y \in S : ~(<<y, x>> \in OpToRel(<, Nat))
  BY WFMin, NatLessThanWellFounded, Zenon
<1>2. \A y \in S : ~(y < x)
  BY <1>1, Zenon DEF OpToRel
<1>3. \A y \in S : x =< y
  BY <1>2
<1> QED
  BY <1>3 DEF Min

\* From i on, a walk stops where it first has something to do.
LEMMA StopIs ==
  ASSUME NEW parser, NEW i \in 1..End
  PROVE  /\ Stop(parser, i) \in i..End
         /\ Stop(parser, i) < End => Acts(parser, Order[Stop(parser, i)])
         /\ \A j \in i..Len(Order) : j < Stop(parser, i) => ~Acts(parser, Order[j])
<1> DEFINE S == {j \in i..Len(Order) : Acts(parser, Order[j])} \cup {End}
<1>1. S \in SUBSET Nat /\ S # {} /\ S \subseteq i..End
  BY Places
<1>2. Min(S) \in S /\ \A y \in S : Min(S) <= y
  BY <1>1, MinIs
<1>3. Stop(parser, i) = Min(S)
  BY DEF Stop
<1> DEFINE m == Stop(parser, i)
<1> HIDE DEF m
<1>4. m \in S /\ m \in i..End
  BY <1>1, <1>2, <1>3 DEF m
<1>5. m < End => Acts(parser, Order[m])
  BY <1>4, Places
<1>6. ASSUME NEW j \in i..Len(Order), j < m PROVE ~Acts(parser, Order[j])
  <2>1. ~(m <= j)
    BY <1>4, <1>6, Places
  <2>2. j \notin S
    BY <1>2, <1>3, <2>1 DEF m
  <2> QED
    BY <2>2
<1> QED
  BY <1>4, <1>5, <1>6 DEF m

\* Behind a directory there is nothing of it.
LEMMA BehindIs ==
  ASSUME at \in 1..Len(Order), NEW d, d = Order[at]
  PROVE  /\ Behind(d) \in (at + 1)..End
         /\ Behind(d) < End => ~IsPrefix(d, Order[Behind(d)])
         /\ \A j \in at..Len(Order) : j < Behind(d) => IsPrefix(d, Order[j])
<1> DEFINE S == {j \in at..Len(Order) : ~IsPrefix(d, Order[j])} \cup {End}
<1>1. S \in SUBSET Nat /\ S # {} /\ S \subseteq at..End
  BY Places
<1>2. Min(S) \in S /\ \A y \in S : Min(S) <= y
  BY <1>1, MinIs
<1>3. Behind(d) = Min(S)
  BY DEF Behind
<1> DEFINE m == Behind(d)
<1> HIDE DEF m
<1>4. m \in S /\ m \in at..End
  BY <1>1, <1>2, <1>3 DEF m
<1>5. m < End => ~IsPrefix(d, Order[m])
  BY <1>4, Places
<1>6. at \notin S
  BY Places, PrefixOrder
<1>7. m \in (at + 1)..End
  BY <1>4, <1>6, Places
<1>8. ASSUME NEW j \in at..Len(Order), j < m PROVE IsPrefix(d, Order[j])
  <2>1. ~(m <= j)
    BY <1>4, <1>8, Places
  <2>2. j \notin S
    BY <1>2, <1>3, <2>1 DEF m
  <2> QED
    BY <2>2
<1> QED
  BY <1>5, <1>7, <1>8 DEF m
-----------------------------------------------------------------------------
(* What helm makes of a chart.                                               *)

\* A file holds one of the contents it may have.
LEMMA Holds ==
  ASSUME TreeTypeOK, NEW f \in Files, tree[f] # Gone
  PROVE  /\ tree[f] \in Contents
         /\ tree[f].name \in STRING /\ tree[f].severities \in SUBSET Severities
         /\ \A parser : Found(parser, f) \in SUBSET Severities
<1>1. tree[f] \in Contents
  BY DEF TreeTypeOK, Snapshots
<1>2. tree[f] \in [ok : BOOLEAN, yaml : BOOLEAN, resources : BOOLEAN,
                   severities : SUBSET Severities, raw : SUBSET Severities, name : STRING]
  BY <1>1, TreesAssumption
<1> QED
  BY <1>1, <1>2 DEF Found

\* Where the charts of d lie, and where their templates.
LEMMA InChart ==
  ASSUME NEW d \in Paths
  PROVE  /\ \A c \in ChartDirs(d) : c \in Paths /\ IsPrefix(d, c)
         /\ \A f \in Templates(d) :
              f \in Files /\ tree[f] # Gone /\ Language(f) = "kubernetes" /\ IsStrictPrefix(d, f)
<1>1. d \in Seq(Names)
  BY Places
<1>2. \A c \in ChartDirs(d) : c \in Paths /\ IsPrefix(d, c)
  BY DEF ChartDirs
<1>3. ASSUME NEW f \in Templates(d)
      PROVE  f \in Files /\ tree[f] # Gone /\ Language(f) = "kubernetes" /\ IsStrictPrefix(d, f)
  <2>1. PICK c \in ChartDirs(d) : IsStrictPrefix(Append(c, "templates"), f)
    BY <1>3 DEF Templates
  <2>2. f \in Files /\ f \in Seq(Names) /\ c \in Seq(Names) /\ IsPrefix(d, c)
    BY <1>2, <1>3, Places DEF Templates
  <2> DEFINE a == Append(c, "templates")
  <2>3. a \in Seq(Names) /\ IsStrictPrefix(c, a)
    <3>1. \A x \in Names : Append(c, x) \in Seq(Names) /\ IsStrictPrefix(c, Append(c, x))
      BY <2>2, AppendPrefix
    <3> QED
      BY <3>1, Zenon DEF Names
  <2> HIDE DEF a
  <2>4. IsPrefix(a, f) /\ a # f
    BY <2>1 DEF a, IsStrictPrefix
  <2>5. IsPrefix(d, a) /\ IsPrefix(d, f)
    BY <1>1, <2>2, <2>3, <2>4, PrefixOrder DEF IsStrictPrefix
  <2>6. d # f
    BY <1>1, <2>2, <2>3, <2>4, <2>5, PrefixOrder
  <2> QED
    BY <1>3, <2>2, <2>5, <2>6 DEF Templates, IsStrictPrefix
<1> QED
  BY <1>2, <1>3

\* The places of f that are below d, named as helm does.
Below(d, f) ==
  [i \in 1..(Len(f) - Len(d)) |->
     LET p == SubSeq(f, 1, Len(d) + i) IN
       IF p \in Subcharts(d) THEN Named(p) ELSE Last(p)]

\* Each name helm prints of a template is a name, and the right one if charts
\* go by their directories.
LEMMA NamesBelow ==
  ASSUME TreeTypeOK, NEW d \in Paths, HasChart(d), Renders(d), NEW f \in Templates(d)
  PROVE  /\ Len(f) \in Nat /\ Len(d) \in Nat /\ Len(d) < Len(f)
         /\ Below(d, f) \in Seq(STRING) /\ Len(Below(d, f)) = Len(f) - Len(d)
         /\ SubchartsNamed => \A i \in 1..(Len(f) - Len(d)) : Below(d, f)[i] = f[Len(d) + i]
<1>1. /\ f \in Files /\ f \in Paths /\ tree[f] # Gone
      /\ d \in Seq(STRING) /\ f \in Seq(STRING) /\ IsPrefix(d, f) /\ d # f
  BY InChart, Places DEF IsStrictPrefix
<1>2. Len(f) \in Nat /\ Len(d) \in Nat
  BY <1>1, LenProperties
<1>3. Len(d) < Len(f)
  <2>1. Len(d) <= Len(f) /\ \A i \in 1..Len(d) : d[i] = f[i]
    BY <1>1, PrefixIs
  <2>2. Len(d) # Len(f)
    BY <1>1, <2>1, SeqEqual
  <2> QED
    BY <1>2, <2>1, <2>2
<1> DEFINE name(i) == LET p == SubSeq(f, 1, Len(d) + i) IN
                        IF p \in Subcharts(d) THEN Named(p) ELSE Last(p)
<1>4. ASSUME NEW i \in 1..(Len(f) - Len(d))
      PROVE  name(i) \in STRING /\ (SubchartsNamed => name(i) = f[Len(d) + i])
  <2> DEFINE p == SubSeq(f, 1, Len(d) + i)
             n == Len(d) + i
  <2>1. n \in Nat /\ n <= Len(f) /\ n > Len(d)
    BY <1>2
  <2>2. \A j \in 1..n : f[j] \in STRING
    BY <1>1, <1>2, <2>1, ElementOfSeq
  <2>3. p \in Seq(STRING) /\ Len(p) = n /\ \A j \in 1..n : p[j] = f[j]
    BY <2>1, <2>2, SubSeqProperties
  <2>4. Last(p) = f[n] /\ f[n] \in STRING
    BY <2>1, <2>2, <2>3 DEF Last
  <2> HIDE DEF p, n
  <2>5. CASE p \in Subcharts(d)
    <3>1. p \in ChartDirs(d) /\ p \in Paths /\ Language(p) = "directory"
      BY <2>5 DEF Subcharts, ChartDirs
    <3>2. IsPrefix(p, f)
      BY <1>1, <2>1, <2>3, PrefixIs
    <3>3. IsStrictPrefix(p, f)
      BY <1>1, <3>1, <3>2 DEF IsStrictPrefix, Files
    <3>4. HasChart(p)
      BY <1>1, <3>1, <3>3 DEF Renders
    <3>5. Named(p) \in STRING
      BY <3>4, Holds DEF HasChart, Named
    <3>6. p \in Charts /\ d \in Charts
      BY <3>1, <3>4, <1>1, InDirectory, InChart DEF Charts
    <3>7. SubchartsNamed => Named(p) = Last(p)
      BY <2>5, <3>6 DEF SubchartsNamed
    <3> QED
      BY <2>4, <2>5, <3>5, <3>7 DEF p, n
  <2>6. CASE p \notin Subcharts(d)
    BY <2>4, <2>6 DEF p, n
  <2> QED
    BY <2>5, <2>6
<1>5. Below(d, f) = [i \in 1..(Len(f) - Len(d)) |-> name(i)]
  BY DEF Below
<1> HIDE DEF name
<1> QED
  BY <1>2, <1>3, <1>4, <1>5
\* What comes behind the first element.
LEMMA OneBefore ==
  ASSUME NEW T, NEW n \in T, NEW s \in Seq(T)
  PROVE  Len(<<n>> \o s) = 1 + Len(s) /\ Tail(<<n>> \o s) = s
<1>1. Len(s) \in Nat /\ <<n>> \in Seq(T) /\ Len(<<n>>) = 1
  BY LenProperties
<1> DEFINE t == <<n>> \o s
<1>2. /\ t \in Seq(T) /\ Len(t) = 1 + Len(s)
      /\ \A i \in 1..(1 + Len(s)) : t[i] = IF i <= 1 THEN <<n>>[i] ELSE s[i - 1]
  BY <1>1, ConcatProperties
<1> HIDE DEF t
<1>3. \A i \in 1..Len(s) : t[i + 1] = s[i]
  BY <1>1, <1>2
<1>4. t # <<>>
  BY <1>1, <1>2
<1>5. /\ Tail(t) \in Seq(T) /\ Len(Tail(t)) = Len(s)
      /\ \A i \in 1..Len(s) : Tail(t)[i] = s[i]
  BY <1>1, <1>2, <1>3, <1>4, HeadTailProperties
<1>6. Tail(t) = s
  BY <1>1, <1>5, SeqEqual
<1> QED
  BY <1>2, <1>6 DEF t

\* Without the chart's name, and below the chart's directory.
LEMMA Resolved ==
  ASSUME TreeTypeOK, NEW d \in Paths, HasChart(d), Renders(d), NEW f \in Templates(d)
  PROVE  /\ resolveSourcePath(d, Source(d, f)) \in Seq(STRING)
         /\ SubchartsNamed => resolveSourcePath(d, Source(d, f)) = f
<1> DEFINE s == Below(d, f)
           n == Named(d)
<1>1. /\ Len(f) \in Nat /\ Len(d) \in Nat /\ Len(d) < Len(f)
      /\ s \in Seq(STRING) /\ Len(s) = Len(f) - Len(d)
      /\ SubchartsNamed => \A i \in 1..(Len(f) - Len(d)) : s[i] = f[Len(d) + i]
  BY NamesBelow
<1>2. n \in STRING
  BY Holds DEF HasChart, Named
<1>3. /\ d \in Seq(STRING) /\ f \in Seq(STRING)
      /\ \A i \in 1..Len(d) : d[i] = f[i]
  <2>1. f \in Paths /\ IsPrefix(d, f)
    BY InChart, Places DEF IsStrictPrefix
  <2> QED
    BY <2>1, Places, PrefixIs
<1>4. Source(d, f) = <<n>> \o s
  BY DEF Source, Below
<1> HIDE DEF s, n
<1>5. Len(<<n>> \o s) > 1 /\ Tail(<<n>> \o s) = s
  BY <1>1, <1>2, OneBefore
<1>6. resolveSourcePath(d, Source(d, f)) = d \o s
  BY <1>4, <1>5 DEF resolveSourcePath
<1> DEFINE r == d \o s
<1> HIDE DEF r
<1>7. /\ r \in Seq(STRING) /\ Len(r) = Len(f)
      /\ \A i \in 1..Len(f) : r[i] = IF i <= Len(d) THEN d[i] ELSE s[i - Len(d)]
  BY <1>1, <1>3, ConcatProperties DEF r
<1>8. ASSUME SubchartsNamed, NEW i \in 1..Len(f) PROVE r[i] = f[i]
  <2>1. CASE i <= Len(d)
    BY <1>1, <1>3, <1>7, <2>1
  <2>2. CASE ~(i <= Len(d))
    <3> DEFINE k == i - Len(d)
    <3>1. k \in 1..(Len(f) - Len(d)) /\ Len(d) + k = i
      BY <1>1, <2>2
    <3>2. s[k] = f[Len(d) + k]
      BY <1>1, <1>8, <3>1
    <3> QED
      BY <1>7, <2>2, <3>1, <3>2
  <2> QED
    BY <2>1, <2>2
<1>9. SubchartsNamed => r = f
  BY <1>3, <1>7, <1>8, SeqEqual
<1> QED
  BY <1>6, <1>7, <1>9 DEF r

\* What a chart renders to.
LEMMA RenderedBatch ==
  ASSUME TreeTypeOK, NEW d \in Paths, HasChart(d), Renders(d)
  PROVE  \A b \in Rendering(d) :
           /\ b \in Batches /\ b.from \in Templates(d) /\ tree[b.from].resources
           /\ b.parser = "helm" /\ b.content = tree[b.from]
           /\ b.severities = tree[b.from].severities
           /\ SubchartsNamed => b.file = b.from
<1> SUFFICES ASSUME NEW b \in Rendering(d)
             PROVE  /\ b \in Batches /\ b.from \in Templates(d) /\ tree[b.from].resources
                    /\ b.parser = "helm" /\ b.content = tree[b.from]
                    /\ b.severities = tree[b.from].severities
                    /\ SubchartsNamed => b.file = b.from
  OBVIOUS
<1>1. PICK f \in Templates(d) :
        /\ tree[f].resources
        /\ b = Batch("helm", resolveSourcePath(d, Source(d, f)), f)
  BY DEF Rendering
<1>2. f \in Files /\ tree[f] # Gone
  BY InChart
<1>3. /\ tree[f] \in Contents /\ Found("helm", f) \in SUBSET Severities
      /\ Found("helm", f) = tree[f].severities
  BY <1>2, Holds DEF Found, Raw
<1>4. "helm" \in ToSet(Walks)
  BY DEF ToSet, Walks
<1>5. /\ resolveSourcePath(d, Source(d, f)) \in Seq(STRING)
      /\ SubchartsNamed => resolveSourcePath(d, Source(d, f)) = f
  BY Resolved
<1>6. b \in Batches
  BY <1>1, <1>2, <1>3, <1>4, <1>5 DEF Batch, Batches
<1> QED
  BY <1>1, <1>3, <1>5, <1>6 DEF Batch

\* What the parsers that read files make of one.
LEMMA ReadBatch ==
  ASSUME TreeTypeOK, NEW w \in 1..4, NEW f \in Files, tree[f] # Gone
  PROVE  Batch(Walks[w], f, f) \in Batches
<1>1. tree[f] \in Contents /\ Found(Walks[w], f) \in SUBSET Severities
  BY Holds
<1>2. Walks[w] \in ToSet(Walks)
  BY DEF ToSet, Walks
<1>3. f \in Seq(STRING)
  BY Places
<1> QED
  BY <1>1, <1>2, <1>3 DEF Batch, Batches
-----------------------------------------------------------------------------
(* The steps of parseAll.                                                    *)

\* Where a walk under way stands.
LEMMA Standing ==
  ASSUME TreeTypeOK, ~Parsed
  PROVE  /\ walk \in 1..4 /\ Parser = Walks[walk] /\ Parser # "directory"
         /\ walk = 3 <=> Parser = "kubernetes"
         /\ walk = 4 <=> Parser = "helm"
         /\ at \in 1..End /\ Len(Walks) = 4
         /\ at < End => at \in 1..Len(Order) /\ Order[at] \in Paths
         /\ at < End /\ Language(Order[at]) = Parser => Order[at] \in Files
<1>1. walk \in 1..4 /\ Parser = Walks[walk] /\ Len(Walks) = 4
  BY DEF TreeTypeOK, Parsed, Parser, Walks
<1>2. /\ Parser # "directory" /\ (walk = 3 <=> Parser = "kubernetes")
      /\ (walk = 4 <=> Parser = "helm")
  BY <1>1 DEF Parser, Walks
<1>3. at \in 1..End /\ (at < End => at \in 1..Len(Order) /\ Order[at] \in Paths)
  BY Places DEF TreeTypeOK
<1> QED
  BY <1>1, <1>2, <1>3 DEF Files

\* A walk goes on to a later place.
LEMMA GoesOn ==
  ASSUME TreeTypeOK, ~Parsed, at < End, NEW i \in (at + 1)..End, GoTo(i)
  PROVE  walk' = walk /\ at' = Stop(Parser, i) /\ at' \in (at + 1)..End
<1>1. i \in 1..End /\ at \in 1..End /\ End \in Nat
  BY Standing, Places
<1>2. at' = Stop(Parser, i) /\ walk' = walk
  BY DEF GoTo
<1>3. Stop(Parser, i) \in i..End
  BY <1>1, StopIs
<1> QED
  BY <1>1, <1>2, <1>3

\* What a step that reads a file does, changes to the tree aside.
LEMMA ReadFileIs ==
  ASSUME TreeTypeOK, ~Parsed, ReadFile, NEW f, f = Order[at]
  PROVE  /\ at < End /\ f \in Files /\ Language(f) = Parser
         /\ \/ UNCHANGED <<at, walk, resources>>
            \/ /\ GoTo(at + 1)
               /\ \/ /\ tree[f] = Gone \/ f \in changed
                     /\ resources' = resources
                  \/ /\ tree[f] # Gone /\ WellFormed(Parser, f)
                     /\ resources' = IF tree[f].resources
                                       THEN resources \cup {Batch(Parser, f, f)} ELSE resources
<1>1. at < End /\ Language(f) = Parser
  BY DEF ReadFile
<1>2. f \in Files
  BY <1>1, Standing
<1> QED
  BY <1>1, <1>2 DEF ReadFile, Break

\* What a step at a directory does.
LEMMA EnterDirectoryIs ==
  ASSUME EnterDirectory, NEW d, d = Order[at]
  PROVE  /\ at < End /\ Parser = "kubernetes" /\ Language(d) = "directory"
         /\ resources' = resources
         /\ \/ HasChart(d) /\ GoTo(Behind(d))
            \/ ~HasChart(d) /\ GoTo(at + 1)
BY DEF EnterDirectory

\* What a step of the Helm parser does.
LEMMA RenderChartIs ==
  ASSUME RenderChart, NEW d, d = Order[at]
  PROVE  /\ at < End /\ Parser = "helm"
         /\ \/ ~HasChart(d) /\ GoTo(at + 1) /\ resources' = resources
            \/ ~helm /\ walk' = walk + 1 /\ UNCHANGED <<at, resources>>
            \/ /\ HasChart(d) /\ helm /\ Renders(d) /\ GoTo(Behind(d))
               /\ resources' = resources \cup Rendering(d)
            \/ UNCHANGED <<at, walk, resources>>
BY DEF RenderChart, Break

\* The next parser starts at its first place.
LEMMA NextWalkIs ==
  ASSUME TreeTypeOK, ~Parsed, NextWalk
  PROVE  /\ at = End /\ walk' = walk + 1 /\ resources' = resources
         /\ at' \in 1..End
         /\ walk < 4 => at' = Stop(Walks[walk'], 1)
<1>1. 1 \in 1..End /\ Len(Walks) = 4
  BY Places, Standing
<1>2. Stop(Walks[walk + 1], 1) \in 1..End
  BY <1>1, StopIs
<1> QED
  BY <1>1, <1>2, Standing DEF NextWalk

\* The walks start with nothing read.
LEMMA TreeInitTypes == TreeInit => TreeTypeOK
<1> SUFFICES ASSUME TreeInit PROVE TreeTypeOK
  OBVIOUS
<1>1. 1 \in 1..End /\ Len(Order) \in Nat /\ End = Len(Order) + 1
  BY Places
<1>2. at \in 1..End
  BY <1>1, StopIs DEF TreeInit
<1>3. tree \in Snapshots
  BY TreesAssumption DEF TreeInit
<1>4. walk \in 1..(Len(Walks) + 1)
  BY DEF TreeInit, Walks
<1>5. edits \in 0..MaxEdits /\ changed \subseteq Files /\ resources \subseteq Batches
  BY EditsAssumption DEF TreeInit
<1>7. path \in Paths /\ helm \in BOOLEAN /\ broken \in BOOLEAN
  BY Zenon DEF TreeInit
<1>6. at \in 1..(Len(Order) + 1)
  BY <1>1, <1>2
<1> QED
  BY <1>3, <1>4, <1>5, <1>6, <1>7, Zenon DEF TreeTypeOK

\* A step of a parser keeps the types.
LEMMA ParseTypes == TreeTypeOK /\ Parse => TreeTypeOK'
<1> SUFFICES ASSUME TreeTypeOK, Parse PROVE TreeTypeOK'
  OBVIOUS
<1>1. /\ ~Parsed /\ UNCHANGED <<tree, edits, path, helm>> /\ broken' \in BOOLEAN
      /\ changed' = changed \/ changed' = {}
  BY DEF Parse, ReadFile, EnterDirectory, RenderChart, NextWalk, Break, TreeTypeOK
<1> DEFINE Fits == /\ walk' \in 1..5 /\ at' \in 1..End
                   /\ resources' \subseteq Batches
<1>2. walk \in 1..4 /\ at \in 1..End /\ resources \subseteq Batches /\ Len(Walks) = 4
      /\ End = Len(Order) + 1 /\ Len(Order) \in Nat
  BY <1>1, Standing, Places DEF TreeTypeOK
<1>3. ASSUME ReadFile PROVE Fits
  <2> DEFINE f == Order[at]
  <2>1. /\ at < End /\ f \in Files
        /\ \/ UNCHANGED <<at, walk, resources>>
           \/ /\ GoTo(at + 1)
              /\ \/ resources' = resources
                 \/ /\ tree[f] # Gone
                    /\ resources' = IF tree[f].resources
                                      THEN resources \cup {Batch(Parser, f, f)} ELSE resources
    BY <1>1, <1>3, ReadFileIs
  <2> HIDE DEF f
  <2>2. resources' \subseteq Batches
    <3>1. tree[f] # Gone => Batch(Parser, f, f) \in Batches
      BY <1>1, <1>2, <2>1, ReadBatch, Standing
    <3> QED
      BY <1>2, <2>1, <3>1
  <2>3. GoTo(at + 1) => walk' = walk /\ at' \in (at + 1)..End
    BY <1>1, <1>2, <2>1, GoesOn
  <2> QED
    BY <1>2, <2>1, <2>2, <2>3
<1>4. ASSUME EnterDirectory PROVE Fits
  <2> DEFINE d == Order[at]
  <2>1. at < End /\ resources' = resources /\ (GoTo(Behind(d)) \/ GoTo(at + 1))
    BY <1>4, EnterDirectoryIs
  <2>2. Behind(d) \in (at + 1)..End
    BY <1>2, <2>1, BehindIs
  <2> HIDE DEF d
  <2>3. walk' = walk /\ at' \in (at + 1)..End
    BY <1>1, <1>2, <2>1, <2>2, GoesOn
  <2> QED
    BY <1>2, <2>1, <2>3
<1>5. ASSUME RenderChart PROVE Fits
  <2> DEFINE d == Order[at]
  <2>1. /\ at < End /\ Parser = "helm"
        /\ \/ GoTo(at + 1) /\ resources' = resources
           \/ walk' = walk + 1 /\ UNCHANGED <<at, resources>>
           \/ /\ HasChart(d) /\ Renders(d) /\ GoTo(Behind(d))
              /\ resources' = resources \cup Rendering(d)
           \/ UNCHANGED <<at, walk, resources>>
    BY <1>5, RenderChartIs
  <2>2. Behind(d) \in (at + 1)..End /\ d \in Paths
    BY <1>1, <1>2, <2>1, BehindIs, Standing
  <2> HIDE DEF d
  <2>3. HasChart(d) /\ Renders(d) => Rendering(d) \subseteq Batches
    BY <2>2, RenderedBatch
  <2>4. GoTo(at + 1) \/ GoTo(Behind(d)) => walk' = walk /\ at' \in (at + 1)..End
    BY <1>1, <1>2, <2>1, <2>2, GoesOn
  <2> QED
    BY <1>2, <2>1, <2>3, <2>4
<1>6. ASSUME NextWalk PROVE Fits
  BY <1>1, <1>2, <1>6, NextWalkIs
<1>7. Fits
  BY <1>3, <1>4, <1>5, <1>6 DEF Parse
<1> QED
  BY <1>1, <1>2, <1>7 DEF TreeTypeOK

\* An edit keeps the types.
LEMMA EditTypes == TreeTypeOK /\ Edit => TreeTypeOK'
<1> SUFFICES ASSUME TreeTypeOK, Edit PROVE TreeTypeOK'
  OBVIOUS
<1>1. PICK f \in Files : \E c \in Versions(f) \cup {Gone} :
        tree' = [tree EXCEPT ![f] = c] /\ (changed' = changed \cup {f} \/ changed' = changed)
  BY DEF Edit
<1>2. tree' \in Snapshots
  BY <1>1 DEF TreeTypeOK, Snapshots, Contents
<1>3. edits' \in 0..MaxEdits
  BY EditsAssumption DEF Edit, TreeTypeOK
<1> QED
  BY <1>1, <1>2, <1>3 DEF Edit, TreeTypeOK, walkVars
-----------------------------------------------------------------------------
(* What the walks have behind them, on a tree that nobody edits.             *)

\* The w-th walk has come past the j-th place.
Past(w, j) == walk > w \/ (walk = w /\ j < at)

\* The charts the walks can see, those not inside another one, and what is in
\* none of them.
Visible == {c \in Charts : IsPrefix(path, c)}
Topmost(c) == c \in Visible /\ \A e \in Visible : ~IsStrictPrefix(e, c)
OutOfCharts(p) == \A c \in Visible : ~IsStrictPrefix(c, p)

\* The w-th parser reads the file f.
Reads(w, f) ==
  /\ f \in Files /\ tree[f] # Gone /\ IsPrefix(path, f) /\ Language(f) = Walks[w]
  /\ w = 3 => OutOfCharts(f)

\* What comes of reading the file, or rendering the chart, at a place.
ReadAt(b, w, j) ==
  /\ Reads(w, Order[j]) /\ tree[Order[j]].resources
  /\ b = Batch(Walks[w], Order[j], Order[j])
RenderedAt(b, j) ==
  /\ helm /\ Topmost(Order[j]) /\ Renders(Order[j])
  /\ b \in Rendering(Order[j])

ReadWell(w, f) ==
  /\ WellFormed(Walks[w], f)
  /\ tree[f].resources => \E b \in resources : b.from = f /\ b.parser = Walks[w]

\* The walks that leave charts out do not stand in one.
WalkOutside == walk \in {3, 4} /\ at < End => OutOfCharts(Order[at])

\* Every walk stands where it has something to do.
WalkInside == walk \in 1..4 /\ at < End => Acts(Walks[walk], Order[at])

\* Each file a walk has come past has been read.
ReadBehind ==
  \A w \in 1..3, j \in 1..Len(Order) :
    Past(w, j) /\ Reads(w, Order[j]) => ReadWell(w, Order[j])

\* Each topmost chart the last walk has come past has been rendered.
RenderedBehind ==
  helm => \A j \in 1..Len(Order) :
            Past(4, j) /\ Topmost(Order[j]) =>
              Renders(Order[j]) /\ Rendering(Order[j]) \subseteq resources

\* Nothing else has been read or rendered,
Sound ==
  \A b \in resources :
    \/ \E w \in 1..3, j \in 1..Len(Order) : Past(w, j) /\ ReadAt(b, w, j)
    \/ \E j \in 1..Len(Order) : Past(4, j) /\ RenderedAt(b, j)

\* and no file twice.
Once == \A b, c \in resources : b.from = c.from => b = c

TreeInv ==
  edits = 0 => /\ changed = {}
               /\ WalkOutside /\ WalkInside /\ ReadBehind /\ RenderedBehind /\ Sound /\ Once
-----------------------------------------------------------------------------
\* None of that depends on where the walks are.
LEMMA Static ==
  ASSUME tree' = tree, path' = path, helm' = helm
  PROVE  /\ Visible' = Visible
         /\ \A p : Topmost(p)' <=> Topmost(p)
         /\ \A p : OutOfCharts(p)' <=> OutOfCharts(p)
         /\ \A w, f : Reads(w, f)' <=> Reads(w, f)
         /\ \A d : (Renders(d)' <=> Renders(d)) /\ Rendering(d)' = Rendering(d)
         /\ \A w, f : WellFormed(w, f)' <=> WellFormed(w, f)
         /\ \A b, w, j : ReadAt(b, w, j)' <=> ReadAt(b, w, j)
         /\ \A b, j : RenderedAt(b, j)' <=> RenderedAt(b, j)
<1>1. Charts' = Charts /\ Visible' = Visible
  BY DEF Visible, Charts, HasChart
<1>2. /\ \A p : Topmost(p)' <=> Topmost(p)
      /\ \A p : OutOfCharts(p)' <=> OutOfCharts(p)
  BY <1>1 DEF Topmost, OutOfCharts
<1>3. \A w, f : Reads(w, f)' <=> Reads(w, f)
  BY <1>2 DEF Reads
<1>4. \A d : Templates(d)' = Templates(d)
  BY DEF Templates
<1>5. \A d : Renders(d)' <=> Renders(d)
  BY <1>4 DEF Renders, HasChart
<1>6. ASSUME NEW d PROVE Rendering(d)' = Rendering(d)
  <2>1. ASSUME NEW f PROVE Source(d, f)' = Source(d, f)
    <3>1. \A p : Named(p)' = Named(p)
      BY DEF Named
    <3> QED
      BY <3>1, Zenon DEF Source
  <2>2. ASSUME NEW f
        PROVE  Batch("helm", resolveSourcePath(d, Source(d, f)), f)'
                 = Batch("helm", resolveSourcePath(d, Source(d, f)), f)
    <3>1. Source(d, f)' = Source(d, f)
      BY <2>1
    <3>2. resolveSourcePath(d, Source(d, f))' = resolveSourcePath(d, Source(d, f))
      BY <3>1, Zenon DEF resolveSourcePath
    <3> QED
      BY <3>2, Zenon DEF Batch, Found
  <2> QED
    BY <1>4, <2>2 DEF Rendering
<1>7. \A w, f : WellFormed(w, f)' <=> WellFormed(w, f)
  BY DEF WellFormed
<1>8. \A b, w, j : ReadAt(b, w, j)' <=> ReadAt(b, w, j)
  BY <1>3 DEF ReadAt, Found, Batch
<1>9. \A b, j : RenderedAt(b, j)' <=> RenderedAt(b, j)
  BY <1>2, <1>5, <1>6 DEF RenderedAt
<1> QED
  BY <1>1, <1>2, <1>3, <1>5, <1>6, <1>7, <1>8, <1>9

\* A visible chart is a directory both walks stop at.
LEMMA ChartActs ==
  ASSUME NEW c \in Visible
  PROVE  /\ c \in Paths /\ HasChart(c) /\ IsPrefix(path, c) /\ Language(c) = "directory"
         /\ Acts("kubernetes", c) /\ Acts("helm", c)
BY DEF Visible, Charts, HasChart, Acts

\* A place no walk has to stop at has nothing to read or render.
LEMMA NothingThere ==
  ASSUME NEW w \in 1..4, NEW p
  PROVE  /\ w \in 1..3 /\ Reads(w, p) => Acts(Walks[w], p)
         /\ w = 4 /\ Topmost(p) => Acts(Walks[w], p)
         /\ \A c \in Visible : IsStrictPrefix(c, p) => ~Topmost(p) /\ ~(w = 3 /\ Reads(w, p))
<1>1. Reads(w, p) => Acts(Walks[w], p)
  BY DEF Reads, Acts
<1>2. w = 4 /\ Topmost(p) => Acts(Walks[w], p)
  BY ChartActs DEF Topmost, Walks
<1> QED
  BY <1>1, <1>2 DEF Topmost, Reads, OutOfCharts

\* A reading tells its place,
LEMMA ReadFrom ==
  ASSUME NEW b, NEW w \in 1..3, NEW j \in 1..Len(Order), ReadAt(b, w, j)
  PROVE  /\ b.from = Order[j] /\ b.file = Order[j] /\ b.parser = Walks[w]
         /\ b.content = tree[b.from] /\ b.severities = Found(Walks[w], b.from)
         /\ Reads(w, b.from) /\ tree[b.from].resources
BY DEF ReadAt, Batch

\* and there is one reading of a place at most.
LEMMA SamePlace ==
  ASSUME NEW w \in 1..3, NEW j \in 1..Len(Order), NEW v \in 1..3, NEW i \in 1..Len(Order),
         Reads(w, Order[j]), Reads(v, Order[i]), Order[j] = Order[i]
  PROVE  w = v /\ i = j
<1>1. Walks[w] = Walks[v]
  BY DEF Reads
<1>2. w = v
  BY <1>1 DEF Walks
<1>3. IsPrefix(Order[i], Order[j]) /\ IsPrefix(Order[j], Order[i])
  BY Places, PrefixOrder
<1>4. i <= j /\ j <= i
  BY <1>3, WalkOrder
<1> QED
  BY <1>2, <1>4

\* What is rendered comes from a template of the chart.
LEMMA RenderedFrom ==
  ASSUME TreeTypeOK, NEW b, NEW j \in 1..Len(Order), RenderedAt(b, j)
  PROVE  /\ b.from \in Templates(Order[j]) /\ b.from \in Files /\ tree[b.from] # Gone
         /\ Language(b.from) = "kubernetes" /\ IsStrictPrefix(Order[j], b.from)
         /\ tree[b.from].resources /\ b.parser = "helm" /\ b.content = tree[b.from]
         /\ b.severities = tree[b.from].severities
         /\ SubchartsNamed => b.file = b.from
         /\ Order[j] \in Visible /\ helm /\ IsPrefix(path, b.from)
<1>1. /\ helm /\ Order[j] \in Visible /\ Renders(Order[j]) /\ b \in Rendering(Order[j])
      /\ Order[j] \in Paths /\ HasChart(Order[j])
  BY Places, ChartActs DEF RenderedAt, Topmost
<1>2. /\ b.from \in Templates(Order[j]) /\ tree[b.from].resources
      /\ b.parser = "helm" /\ b.content = tree[b.from]
      /\ b.severities = tree[b.from].severities
      /\ SubchartsNamed => b.file = b.from
  BY <1>1, RenderedBatch
<1>3. /\ b.from \in Files /\ tree[b.from] # Gone
      /\ Language(b.from) = "kubernetes" /\ IsStrictPrefix(Order[j], b.from)
  BY <1>1, <1>2, InChart
<1>4. IsPrefix(path, b.from)
  <2>1. IsPrefix(path, Order[j]) /\ IsPrefix(Order[j], b.from) /\ b.from \in Paths
        /\ path \in Paths
    BY <1>1, <1>3, ChartActs, Places DEF IsStrictPrefix, TreeTypeOK
  <2> QED
    BY <1>1, <2>1, Places, PrefixOrder
<1> QED
  BY <1>1, <1>2, <1>3, <1>4

\* A file is rendered as part of one chart at most.
LEMMA OneRendering ==
  ASSUME TreeTypeOK, NEW b, NEW j \in 1..Len(Order), RenderedAt(b, j),
         NEW c, NEW i \in 1..Len(Order), RenderedAt(c, i), b.from = c.from
  PROVE  b = c
<1> DEFINE d == Order[j]
           e == Order[i]
           f == b.from
<1>1. /\ d \in Paths /\ e \in Paths /\ f \in Paths
      /\ IsPrefix(d, f) /\ IsPrefix(e, f) /\ Topmost(d) /\ Topmost(e)
      /\ d \in Visible /\ e \in Visible
  BY Places, RenderedFrom DEF IsStrictPrefix, RenderedAt
<1>2. d = e
  <2>1. IsPrefix(d, e) \/ IsPrefix(e, d)
    BY <1>1, Places, PrefixOrder
  <2> QED
    BY <1>1, <2>1 DEF Topmost, IsStrictPrefix
<1>3. PICK g \in Templates(d) :
        b = Batch("helm", resolveSourcePath(d, Source(d, g)), g)
  BY DEF RenderedAt, Rendering
<1>4. PICK h \in Templates(e) :
        c = Batch("helm", resolveSourcePath(e, Source(e, h)), h)
  BY DEF RenderedAt, Rendering
<1>5. g = h
  BY <1>3, <1>4 DEF Batch
<1> QED
  BY <1>2, <1>3, <1>4, <1>5

\* No file is both read as it stands and rendered.
LEMMA NotBoth ==
  ASSUME TreeTypeOK, NEW b, NEW w \in 1..3, NEW j \in 1..Len(Order), ReadAt(b, w, j),
         NEW c, NEW i \in 1..Len(Order), RenderedAt(c, i)
  PROVE  b.from # c.from
<1> SUFFICES ASSUME b.from = c.from PROVE FALSE
  OBVIOUS
<1>1. Language(b.from) = Walks[w] /\ Language(b.from) = "kubernetes"
      /\ (w = 3 => OutOfCharts(b.from))
  BY ReadFrom, RenderedFrom DEF Reads
<1>2. w = 3
  BY <1>1 DEF Walks
<1> QED
  BY <1>1, <1>2, RenderedFrom DEF OutOfCharts
\* Where a walk stops is in no chart, if it left the last one it met.
LEMMA StopsOutside ==
  ASSUME TreeTypeOK, NEW w \in {3, 4}, NEW i \in 1..End,
         NEW n, n = Stop(Walks[w], i), n < End,
         \A c \in Visible : \A m \in 1..Len(Order) :
           c = Order[m] /\ m < i => ~IsStrictPrefix(c, Order[n])
  PROVE  OutOfCharts(Order[n])
<1>1. n \in 1..Len(Order) /\ i \in Nat /\ n \in Nat /\ i <= n
  BY StopIs, Places
<1>2. ASSUME NEW c \in Visible, IsStrictPrefix(c, Order[n]) PROVE FALSE
  <2>1. PICK m \in 1..Len(Order) : c = Order[m]
    BY ChartActs, Places
  <2>2. m <= n /\ m # n
    BY <1>1, <1>2, <2>1, WalkOrder DEF IsStrictPrefix
  <2>3. ~(m < i)
    BY <1>2, <2>1
  <2>4. m \in i..Len(Order) /\ m < n
    BY <1>1, <2>2, <2>3
  <2>5. ~Acts(Walks[w], Order[m])
    BY <2>4, StopIs
  <2>6. Acts(Walks[w], c)
    BY ChartActs DEF Walks
  <2> QED
    BY <2>1, <2>5, <2>6
<1> QED
  BY <1>2 DEF OutOfCharts

\* Nothing is behind the first walk when it starts.
Fresh == walk = 1 /\ at = Stop("terraform", 1) /\ resources = {} /\ changed = {}

LEMMA FreshInv == Fresh => TreeInv
<1> SUFFICES ASSUME Fresh PROVE TreeInv
  OBVIOUS
<1>1. walk = 1 /\ resources = {} /\ changed = {}
  BY DEF Fresh
<1>2. at = Stop(Walks[1], 1) /\ 1 \in 1..End
  BY Places DEF Fresh, Walks
<1>3. ASSUME NEW w \in 1..4, NEW j \in 1..Len(Order), Past(w, j)
      PROVE  w = 1 /\ ~Acts(Walks[w], Order[j])
  <2>1. w = 1 /\ j < at
    BY <1>1, <1>3 DEF Past
  <2> QED
    BY <1>2, <2>1, StopIs
<1>4. ReadBehind
  BY <1>3, NothingThere DEF ReadBehind
<1>5. RenderedBehind
  <2>1. \A j \in 1..Len(Order) : ~Past(4, j)
    BY <1>3
  <2> QED
    BY <2>1 DEF RenderedBehind
<1>6. WalkInside
  BY <1>1, <1>2, StopIs DEF WalkInside
<1> QED
  BY <1>1, <1>4, <1>5, <1>6 DEF TreeInv, WalkOutside, Sound, Once

LEMMA TreeInitInv == TreeInit => TreeInv
BY FreshInv DEF TreeInit, Fresh

\* A scan that begins anew does so like the first one.
LEMMA RestartInv == TreeTypeOK /\ Restart => (TreeTypeOK /\ TreeInv)'
<1> SUFFICES ASSUME TreeTypeOK, Restart PROVE TreeTypeOK' /\ TreeInv'
  OBVIOUS
<1>1. 1 \in 1..End /\ Len(Order) \in Nat /\ End = Len(Order) + 1
  BY Places
<1>2. /\ walk' = 1 /\ at' = Stop("terraform", 1) /\ resources' = {} /\ broken' = FALSE
      /\ changed' = {} /\ UNCHANGED <<tree, edits, path, helm>>
  BY DEF Restart
<1>3. at' \in 1..(Len(Order) + 1)
  BY <1>1, <1>2, StopIs
<1>4. walk' \in 1..(Len(Walks) + 1)
  BY <1>2 DEF Walks
<1>5. TreeTypeOK'
  BY <1>2, <1>3, <1>4 DEF TreeTypeOK
<1>6. Fresh'
  BY <1>2 DEF Fresh, Stop, Acts, End
<1>7. (Fresh => TreeInv)'
  BY FreshInv, PTL
<1> QED
  BY <1>5, <1>6, <1>7

\* A walk that goes on has the place it stood at behind it, and some where it
\* has nothing to do.
LEMMA Advance ==
  ASSUME TreeTypeOK, TreeInv, ~Parsed, edits = 0, at < End,
         UNCHANGED <<tree, edits, path, helm, changed, walk>>,
         NEW i \in (at + 1)..End, at' = Stop(Parser, i),
         \A j \in (at + 1)..Len(Order) : j < i =>
           /\ walk \in {3, 4} /\ Order[at] \in Visible
           /\ IsStrictPrefix(Order[at], Order[j]),
         \A n \in i..Len(Order), c \in Visible :
           c = Order[at] => ~IsStrictPrefix(c, Order[n]),
         resources \subseteq resources',
         \A w \in 1..3 : \A f : w = walk /\ f = Order[at] /\ Reads(w, f) => ReadWell(w, f)',
         walk = 4 /\ helm /\ Topmost(Order[at]) =>
           Renders(Order[at]) /\ Rendering(Order[at]) \subseteq resources',
         \A b \in resources' : \/ b \in resources
                               \/ walk \in 1..3 /\ ReadAt(b, walk, at)
                               \/ walk = 4 /\ RenderedAt(b, at),
         \A b, c \in resources' : \/ b \in resources \/ c \in resources
                                  \/ b.from = c.from => b = c
  PROVE  TreeInv'
<1>1. /\ walk \in 1..4 /\ at \in 1..Len(Order) /\ Parser = Walks[walk]
      /\ i \in 1..End /\ End = Len(Order) + 1 /\ Len(Order) \in Nat
  BY Standing, Places
<1>2. at' \in i..End /\ \A j \in i..Len(Order) : j < at' => ~Acts(Walks[walk], Order[j])
  BY <1>1, StopIs
<1>3. /\ WalkOutside /\ ReadBehind /\ RenderedBehind /\ Sound /\ Once /\ changed = {}
  BY DEF TreeInv
<1>4. at < at' /\ walk' = walk /\ \A j \in 1..Len(Order) : j < at => j < at'
  BY <1>1, <1>2
<1>5. /\ \A w \in 1..4, j \in 1..Len(Order) : Past(w, j) => Past(w, j)'
      /\ \A w \in 1..4, j \in 1..Len(Order) : w = walk /\ j = at => Past(w, j)'
  BY <1>4 DEF Past
<1>6. ASSUME NEW w \in 1..4, NEW j \in 1..Len(Order), Past(w, j)', ~Past(w, j), j # at
      PROVE  /\ w \in 1..3 => ~Reads(w, Order[j])
             /\ w = 4 => ~Topmost(Order[j])
  <2>1. w = walk /\ j \in (at + 1)..Len(Order) /\ j < at'
    BY <1>1, <1>2, <1>6 DEF Past
  <2>2. CASE j < i
    <3>1. Order[at] \in Visible /\ IsStrictPrefix(Order[at], Order[j]) /\ w \in {3, 4}
      BY <2>1, <2>2
    <3> QED
      BY <3>1, NothingThere
  <2>3. CASE ~(j < i)
    <3>1. ~Acts(Walks[w], Order[j])
      BY <1>1, <1>2, <2>1, <2>3
    <3> QED
      BY <3>1, NothingThere
  <2> QED
    BY <2>2, <2>3
<1>7. \A w \in 1..4, j \in 1..Len(Order) : Past(w, j)' /\ ~Past(w, j) /\ j = at => w = walk
  BY <1>1, <1>2 DEF Past
<1>8. WalkOutside'
  <2> SUFFICES ASSUME walk \in {3, 4}, at' < End PROVE OutOfCharts(Order[at'])
    BY Static DEF WalkOutside, End
  <2>1. at' \in 1..Len(Order) /\ at < at' /\ at' \in i..Len(Order)
    BY <1>1, <1>2
  <2>2. ASSUME NEW c \in Visible, NEW m \in 1..Len(Order), c = Order[m], m < i,
               IsStrictPrefix(c, Order[at'])
        PROVE  FALSE
    <3>1. CASE m = at
      BY <2>1, <2>2, <3>1
    <3>2. CASE m < at
      <4>1. at \in m..at'
        BY <1>1, <2>1, <3>2
      <4>2. IsPrefix(c, Order[at])
        BY <2>1, <2>2, <4>1, WalkOrder DEF IsStrictPrefix
      <4>3. c = Order[at]
        BY <1>1, <1>3, <2>2, <4>2 DEF WalkOutside, OutOfCharts, IsStrictPrefix
      <4> QED
        BY <2>1, <2>2, <4>3
    <3>3. CASE m > at
      <4>1. m \in (at + 1)..Len(Order)
        BY <1>1, <3>3
      <4>2. Order[at] \in Visible /\ IsPrefix(Order[at], Order[m])
        BY <2>2, <4>1 DEF IsStrictPrefix
      <4>3. IsPrefix(Order[at], Order[at'])
        BY <1>1, <2>1, <2>2, <4>2, Places, PrefixOrder DEF IsStrictPrefix
      <4>4. Order[at] # Order[at']
        <5>1. IsPrefix(Order[at'], Order[at']) /\ ~(at' <= at)
          BY <1>1, <2>1, Places, PrefixOrder
        <5> QED
          BY <1>1, <2>1, <5>1, WalkOrder
      <4> QED
        BY <2>1, <4>2, <4>3, <4>4 DEF IsStrictPrefix
    <3> QED
      BY <1>1, <3>1, <3>2, <3>3
  <2> QED
    BY <1>1, <2>1, <2>2, StopsOutside
<1>9. ReadBehind'
  <2> SUFFICES ASSUME NEW w \in 1..3, NEW j \in 1..Len(Order), Past(w, j)', Reads(w, Order[j])
               PROVE  ReadWell(w, Order[j])'
    BY Static DEF ReadBehind
  <2>1. CASE Past(w, j)
    <3>1. ReadWell(w, Order[j])
      BY <1>3, <2>1 DEF ReadBehind
    <3> QED
      BY <3>1, Static DEF ReadWell
  <2>2. CASE ~Past(w, j)
    <3>1. j = at /\ w = walk
      BY <1>6, <1>7, <2>2
    <3> QED
      BY <3>1
  <2> QED
    BY <2>1, <2>2
<1>10. RenderedBehind'
  <2> SUFFICES ASSUME helm, NEW j \in 1..Len(Order), Past(4, j)', Topmost(Order[j])
               PROVE  Renders(Order[j]) /\ Rendering(Order[j]) \subseteq resources'
    BY Static DEF RenderedBehind
  <2>1. CASE Past(4, j)
    BY <1>3, <2>1 DEF RenderedBehind
  <2>2. CASE ~Past(4, j)
    <3>1. j = at /\ walk = 4
      BY <1>6, <1>7, <2>2
    <3> QED
      BY <3>1
  <2> QED
    BY <2>1, <2>2
<1>11. ASSUME NEW b \in resources'
       PROVE  \/ \E w \in 1..3, j \in 1..Len(Order) : Past(w, j)' /\ ReadAt(b, w, j)
              \/ \E j \in 1..Len(Order) : Past(4, j)' /\ RenderedAt(b, j)
  BY <1>1, <1>3, <1>5 DEF Sound
<1>12. Sound'
  BY <1>11, Static DEF Sound
<1>13. Once'
  <2> SUFFICES ASSUME NEW b \in resources', NEW c \in resources', b.from = c.from
               PROVE  b = c
    BY DEF Once
  <2>1. CASE b \in resources /\ c \in resources
    BY <1>3, <2>1 DEF Once
  <2>2. ASSUME NEW new \in resources', new \notin resources,
               NEW old \in resources, new.from = old.from
        PROVE  new = old
    <3>1. CASE walk \in 1..3 /\ ReadAt(new, walk, at)
      <4>1. ASSUME NEW w \in 1..3, NEW j \in 1..Len(Order), Past(w, j), ReadAt(old, w, j)
            PROVE  FALSE
        <5>1. w = walk /\ j = at
          BY <1>1, <2>2, <3>1, <4>1, ReadFrom, SamePlace
        <5> QED
          BY <1>1, <4>1, <5>1 DEF Past
      <4>2. ASSUME NEW j \in 1..Len(Order), RenderedAt(old, j) PROVE FALSE
        BY <1>1, <2>2, <3>1, <4>2, NotBoth
      <4> QED
        BY <1>3, <4>1, <4>2 DEF Sound
    <3>2. CASE walk = 4 /\ RenderedAt(new, at)
      <4>1. ASSUME NEW w \in 1..3, NEW j \in 1..Len(Order), ReadAt(old, w, j)
            PROVE  FALSE
        BY <1>1, <2>2, <3>2, <4>1, NotBoth
      <4>2. ASSUME NEW j \in 1..Len(Order), RenderedAt(old, j) PROVE new = old
        BY <1>1, <2>2, <3>2, <4>2, OneRendering
      <4> QED
        BY <1>3, <4>1, <4>2 DEF Sound
    <3> QED
      BY <2>2, <3>1, <3>2
  <2> QED
    BY <2>1, <2>2
<1>14. WalkInside'
  <2>1. at' < End => Acts(Walks[walk], Order[at'])
    BY <1>1, StopIs
  <2> QED
    BY <1>4, <2>1 DEF WalkInside, End, Acts
<1> QED
  BY <1>3, <1>8, <1>9, <1>10, <1>12, <1>13, <1>14 DEF TreeInv

\* The next walk begins with nothing behind it; the last one may be cut short
\* only without the helm binary.
LEMMA TurnsToNext ==
  ASSUME TreeTypeOK, TreeInv, ~Parsed, edits = 0, at = End \/ (walk = 4 /\ ~helm),
         UNCHANGED <<tree, edits, path, helm, resources>>, changed' = {},
         walk' = walk + 1, at' \in 1..End,
         walk < 4 => at' = Stop(Walks[walk'], 1)
  PROVE  TreeInv'
<1>1. /\ walk \in 1..4 /\ 1 \in 1..End /\ End = Len(Order) + 1 /\ Len(Order) \in Nat
      /\ \A j \in 1..Len(Order) : j < End
  BY Standing, Places
<1>2. /\ WalkOutside /\ ReadBehind /\ RenderedBehind /\ Sound /\ Once
  BY DEF TreeInv
<1>3. \A w \in 1..4, j \in 1..Len(Order) : Past(w, j) => Past(w, j)'
  BY <1>1 DEF Past
<1>4. ASSUME NEW w \in 1..4, NEW j \in 1..Len(Order), Past(w, j)', w = 4 => helm
      PROVE  \/ Past(w, j)
             \/ ~Acts(Walks[w], Order[j])
  <2>1. CASE w <= walk
    BY <1>1, <1>4, <2>1 DEF Past
  <2>2. CASE ~(w <= walk)
    <3>1. w = walk' /\ j < at' /\ walk < 4
      BY <1>1, <1>4, <2>2 DEF Past
    <3> QED
      BY <1>1, <3>1, StopIs
  <2> QED
    BY <2>1, <2>2
<1>5. ReadBehind'
  <2> SUFFICES ASSUME NEW w \in 1..3, NEW j \in 1..Len(Order), Past(w, j)', Reads(w, Order[j])
               PROVE  ReadWell(w, Order[j])'
    BY Static DEF ReadBehind
  <2>1. ReadWell(w, Order[j])
    BY <1>2, <1>4, NothingThere DEF ReadBehind
  <2> QED
    BY <2>1, Static DEF ReadWell
<1>6. RenderedBehind'
  <2> SUFFICES ASSUME helm, NEW j \in 1..Len(Order), Past(4, j)', Topmost(Order[j])
               PROVE  Renders(Order[j]) /\ Rendering(Order[j]) \subseteq resources
    BY Static DEF RenderedBehind
  <2> QED
    BY <1>2, <1>4, NothingThere DEF RenderedBehind
<1>7. Sound'
  <2>1. \A b \in resources :
          \/ \E w \in 1..3, j \in 1..Len(Order) : Past(w, j)' /\ ReadAt(b, w, j)
          \/ \E j \in 1..Len(Order) : Past(4, j)' /\ RenderedAt(b, j)
    BY <1>2, <1>3 DEF Sound
  <2> QED
    BY <2>1, Static DEF Sound
<1>8. Once'
  BY <1>2 DEF Once
<1>9. walk' \in 1..4 /\ at' < End =>
        /\ Acts(Walks[walk'], Order[at'])
        /\ walk' \in {3, 4} => OutOfCharts(Order[at'])
  <2> SUFFICES ASSUME walk' \in 1..4, at' < End
               PROVE  /\ Acts(Walks[walk'], Order[at'])
                      /\ walk' \in {3, 4} => OutOfCharts(Order[at'])
    OBVIOUS
  <2>1. at' = Stop(Walks[walk'], 1)
    BY <1>1
  <2>2. \A m \in 1..Len(Order) : ~(m < 1)
    OBVIOUS
  <2> QED
    BY <1>1, <2>1, <2>2, StopIs, StopsOutside
<1>10. WalkOutside' /\ WalkInside'
  BY <1>9, Static DEF WalkOutside, WalkInside, End, Acts
<1> QED
  BY <1>5, <1>6, <1>7, <1>8, <1>10 DEF TreeInv

\* What follows the place of a directory, and what is behind it.
LEMMA BehindChart ==
  ASSUME at \in 1..Len(Order), NEW d, d = Order[at]
  PROVE  /\ Behind(d) \in (at + 1)..End
         /\ \A j \in (at + 1)..Len(Order) : j < Behind(d) => IsStrictPrefix(d, Order[j])
         /\ \A n \in Behind(d)..Len(Order) : ~IsPrefix(d, Order[n])
<1>1. /\ Behind(d) \in (at + 1)..End /\ End = Len(Order) + 1 /\ Len(Order) \in Nat
      /\ d \in Paths
      /\ Behind(d) < End => ~IsPrefix(d, Order[Behind(d)])
  BY BehindIs, Places
<1>2. ASSUME NEW j \in (at + 1)..Len(Order), j < Behind(d)
      PROVE  IsStrictPrefix(d, Order[j])
  <2>1. j \in at..Len(Order) /\ j \in 1..Len(Order) /\ ~(j <= at)
    BY <1>1
  <2>2. IsPrefix(d, Order[j])
    BY <1>2, <2>1, BehindIs
  <2>3. d # Order[j]
    <3>1. IsPrefix(Order[j], Order[j])
      BY <2>1, Places, PrefixOrder
    <3> QED
      BY <2>1, <3>1, WalkOrder
  <2> QED
    BY <2>2, <2>3 DEF IsStrictPrefix
<1>3. ASSUME NEW n \in Behind(d)..Len(Order), IsPrefix(d, Order[n]) PROVE FALSE
  <2>1. n \in 1..Len(Order) /\ Behind(d) \in at..n /\ Behind(d) < End
    BY <1>1
  <2>2. IsPrefix(d, Order[Behind(d)])
    BY <1>3, <2>1, WalkOrder
  <2> QED
    BY <1>1, <2>1, <2>2
<1> QED
  BY <1>1, <1>2, <1>3

\* Nothing happens to the walks or the tree.
LEMMA TreeStays ==
  ASSUME TreeInv, UNCHANGED <<tree, edits, path, helm, changed, walk, at, resources>>
  PROVE  TreeInv'
<1> SUFFICES ASSUME edits = 0 PROVE TreeInv'
  BY DEF TreeInv
<1>1. changed = {} /\ WalkOutside /\ WalkInside /\ ReadBehind /\ RenderedBehind /\ Sound /\ Once
  BY DEF TreeInv
<1>2. \A w, j : Past(w, j)' <=> Past(w, j)
  BY DEF Past
<1>3. \A w, f : ReadWell(w, f)' <=> ReadWell(w, f)
  BY Static DEF ReadWell
<1>4. WalkOutside' /\ WalkInside'
  BY <1>1, Static DEF WalkOutside, WalkInside, End, Acts
<1>5. ReadBehind' /\ RenderedBehind'
  BY <1>1, <1>2, <1>3, Static DEF ReadBehind, RenderedBehind
<1>6. Sound' /\ Once'
  BY <1>1, <1>2, Static DEF Sound, Once
<1> QED
  BY <1>1, <1>4, <1>5, <1>6 DEF TreeInv

\* A file read is behind its walk.
LEMMA ReadFileInv ==
  ASSUME TreeTypeOK, TreeInv, ~Parsed, edits = 0, ReadFile,
         UNCHANGED <<tree, edits, path, helm, changed>>
  PROVE  TreeInv'
<1> DEFINE f == Order[at]
<1>1. /\ at < End /\ f \in Files /\ Language(f) = Parser
      /\ \/ UNCHANGED <<at, walk, resources>>
         \/ /\ GoTo(at + 1)
            /\ \/ /\ tree[f] = Gone \/ f \in changed
                  /\ resources' = resources
               \/ /\ tree[f] # Gone /\ WellFormed(Parser, f)
                  /\ resources' = IF tree[f].resources
                                    THEN resources \cup {Batch(Parser, f, f)} ELSE resources
  BY ReadFileIs
<1>2. /\ changed = {} /\ WalkOutside /\ WalkInside
  BY DEF TreeInv
<1>3. walk \in 1..3 /\ Parser = Walks[walk]
  <2>1. Parser # "helm"
    BY <1>1, Places, OrderAssumption
  <2> QED
    BY <2>1, Standing
<1>4. at + 1 \in (at + 1)..End /\ at \in 1..Len(Order)
  BY <1>1, Standing, Places
<1>5. \A c \in Visible : c # f
  BY <1>1, ChartActs DEF Files
<1>6. tree[f] # Gone => Reads(walk, f)
  BY <1>1, <1>2, <1>3 DEF Reads, WalkOutside, WalkInside, Acts
<1>7. CASE UNCHANGED <<at, walk, resources>>
  BY <1>7, TreeStays
<1>8. CASE GoTo(at + 1)
  <2>1. walk' = walk /\ at' = Stop(Parser, at + 1)
    BY <1>1, <1>4, <1>8, GoesOn
  <2>2. CASE tree[f] = Gone
    <3>1. resources' = resources
      <4>1. CASE UNCHANGED <<at, walk, resources>>
        BY <4>1
      <4> QED
        BY <1>1, <2>2, <4>1
    <3>2. ~Reads(walk, f)
      BY <2>2 DEF Reads
    <3>3. \A j \in (at + 1)..Len(Order) : ~(j < at + 1)
      BY <1>4, Places
    <3> HIDE DEF f
    <3> QED
      BY <1>1, <1>3, <1>4, <1>5, <2>1, <3>1, <3>2, <3>3, Advance DEF f
  <2>3. CASE tree[f] # Gone /\ ~UNCHANGED <<at, walk, resources>>
    <3>1. WellFormed(Parser, f)
      BY <1>1, <1>2, <2>3
    <3>2. resources' = IF tree[f].resources
                         THEN resources \cup {Batch(Parser, f, f)} ELSE resources
      BY <1>1, <1>2, <2>3
    <3>3. /\ resources \subseteq resources'
          /\ \A b \in resources' : b \in resources \/ ReadAt(b, walk, at)
          /\ \A b, c \in resources' : b \in resources \/ c \in resources \/ b = c
      BY <1>3, <1>6, <2>3, <3>2 DEF ReadAt
    <3>4. ASSUME NEW w \in 1..3, NEW g, w = walk, g = f PROVE ReadWell(w, g)'
      <4>1. WellFormed(Walks[w], g)'
        BY <1>3, <3>1, <3>4, Static
      <4>2. ASSUME tree[g].resources
            PROVE  \E b \in resources' : b.from = g /\ b.parser = Walks[w]
        <5> DEFINE b == Batch(Walks[w], g, g)
        <5>1. b.from = g /\ b.parser = Walks[w]
          BY DEF Batch
        <5>2. b \in resources'
          BY <1>3, <3>2, <3>4, <4>2
        <5> HIDE DEF b
        <5> QED
          BY <5>1, <5>2
      <4>3. UNCHANGED <<tree, walk>>
        BY <2>1
      <4> QED
        BY <4>1, <4>2, <4>3, Zenon DEF ReadWell
    <3>5. \A j \in (at + 1)..Len(Order) : ~(j < at + 1)
      BY <1>4, Places
    <3> HIDE DEF f
    <3> QED
      BY <1>1, <1>3, <1>4, <1>5, <2>1, <3>3, <3>4, <3>5, Advance DEF f
  <2> QED
    BY <1>7, <2>2, <2>3
<1> QED
  BY <1>1, <1>7, <1>8

\* A directory is left behind, a chart with all there is in it.
LEMMA DirectoryInv ==
  ASSUME TreeTypeOK, TreeInv, ~Parsed, edits = 0, at < End, walk \in {3, 4},
         UNCHANGED <<tree, edits, path, helm, changed>>,
         NEW d, d = Order[at], Language(d) = "directory",
         \/ ~HasChart(d) /\ GoTo(at + 1) /\ resources' = resources
         \/ /\ HasChart(d) /\ GoTo(Behind(d))
            /\ \/ walk = 3 /\ resources' = resources
               \/ walk = 4 /\ helm /\ Renders(d) /\ resources' = resources \cup Rendering(d)
  PROVE  TreeInv'
<1>1. /\ at \in 1..Len(Order) /\ d \in Paths /\ d \notin Files
      /\ at + 1 \in (at + 1)..End
  BY Standing, Places DEF Files
<1>2. OutOfCharts(d) /\ IsPrefix(path, d)
  BY DEF TreeInv, WalkOutside, WalkInside, Acts
<1>3. \A w \in 1..3 : ~Reads(w, d)
  BY <1>1 DEF Reads
<1>4. CASE ~HasChart(d)
  <2>1. walk' = walk /\ at' = Stop(Parser, at + 1) /\ resources' = resources
    BY <1>1, <1>4, GoesOn
  <2>2. d \notin Visible /\ ~Topmost(d)
    BY <1>4, ChartActs DEF Topmost
  <2>3. \A j \in (at + 1)..Len(Order) : ~(j < at + 1)
    BY <1>1, Places
  <2> QED
    BY <1>1, <1>3, <2>1, <2>2, <2>3, Advance
<1>5. CASE HasChart(d)
  <2>1. /\ Behind(d) \in (at + 1)..End
        /\ \A j \in (at + 1)..Len(Order) : j < Behind(d) => IsStrictPrefix(d, Order[j])
        /\ \A n \in Behind(d)..Len(Order) : ~IsPrefix(d, Order[n])
    BY <1>1, BehindChart
  <2>2. walk' = walk /\ at' = Stop(Parser, Behind(d))
    BY <1>5, <2>1, GoesOn
  <2>3. d \in Visible /\ Topmost(d)
    BY <1>1, <1>2, <1>5 DEF Visible, Charts, Topmost, OutOfCharts
  <2>4. /\ resources \subseteq resources'
        /\ walk = 4 /\ helm => Renders(d) /\ Rendering(d) \subseteq resources'
        /\ \A b \in resources' : b \in resources \/ (walk = 4 /\ RenderedAt(b, at))
    BY <1>5, <2>3 DEF RenderedAt
  <2>5. \A b, c \in resources' : \/ b \in resources \/ c \in resources
                                 \/ b.from = c.from => b = c
    BY <1>1, <2>4, OneRendering
  <2>6. \A n \in Behind(d)..Len(Order), c \in Visible :
          c = Order[at] => ~IsStrictPrefix(c, Order[n])
    BY <2>1 DEF IsStrictPrefix
  <2> DEFINE i == Behind(d)
  <2> HIDE DEF i
  <2>7. i \in (at + 1)..End /\ at' = Stop(Parser, i)
    BY <2>1, <2>2 DEF i
  <2>8. \A j \in (at + 1)..Len(Order) : j < i =>
           /\ walk \in {3, 4} /\ Order[at] \in Visible
           /\ IsStrictPrefix(Order[at], Order[j])
    BY <2>1, <2>3 DEF i
  <2>9. \A n \in i..Len(Order), c \in Visible :
          c = Order[at] => ~IsStrictPrefix(c, Order[n])
    BY <2>6 DEF i
  <2> QED
    BY <1>1, <1>3, <2>2, <2>3, <2>4, <2>5, <2>7, <2>8, <2>9, Advance
<1> QED
  BY <1>4, <1>5

\* A step of a parser keeps what the walks have behind them.
LEMMA ParseInv == TreeTypeOK /\ TreeInv /\ Parse => TreeInv'
<1> SUFFICES ASSUME TreeTypeOK, TreeInv, Parse, edits = 0 PROVE TreeInv'
  BY DEF TreeInv, Parse
<1>1. /\ ~Parsed /\ UNCHANGED <<tree, edits, path, helm>>
      /\ ReadFile \/ EnterDirectory \/ RenderChart => changed' = changed \/ NextWalk
      /\ NextWalk => changed' = {} \/ ReadFile \/ EnterDirectory \/ RenderChart
  BY DEF Parse
<1>2. changed = {}
  BY DEF TreeInv
<1>3. UNCHANGED changed
  BY <1>1, <1>2 DEF Parse
<1>4. CASE ReadFile
  BY <1>1, <1>3, <1>4, ReadFileInv
<1>5. CASE EnterDirectory
  BY <1>1, <1>3, <1>5, EnterDirectoryIs, Standing, DirectoryInv
<1>6. CASE RenderChart
  <2> DEFINE d == Order[at]
  <2>1. /\ at < End /\ Parser = "helm"
        /\ \/ ~HasChart(d) /\ GoTo(at + 1) /\ resources' = resources
           \/ ~helm /\ walk' = walk + 1 /\ UNCHANGED <<at, resources>>
           \/ /\ HasChart(d) /\ helm /\ Renders(d) /\ GoTo(Behind(d))
              /\ resources' = resources \cup Rendering(d)
           \/ UNCHANGED <<at, walk, resources>>
    BY <1>6, RenderChartIs
  <2>2. walk = 4 /\ at \in 1..End
    BY <1>1, <2>1, Standing
  <2>3. CASE UNCHANGED <<at, walk, resources>>
    BY <1>1, <1>3, <2>3, TreeStays
  <2>4. CASE ~helm /\ walk' = walk + 1 /\ UNCHANGED <<at, resources>>
    BY <1>1, <1>2, <1>3, <2>2, <2>4, TurnsToNext
  <2>5. Language(d) = "directory"
    <3>1. d \in Paths /\ Acts("helm", d)
      BY <2>1, <2>2, Standing, Places DEF TreeInv, WalkInside, Walks
    <3>2. Language(d) # "helm"
      BY <3>1, OrderAssumption
    <3>3. ChartFile(d) \in Paths
      BY <3>1, <3>2, Places DEF Acts
    <3> QED
      BY <3>1, <3>3, BelowChart, InDirectory
  <2> HIDE DEF d
  <2> QED
    BY <1>1, <1>3, <2>1, <2>2, <2>3, <2>4, <2>5, DirectoryInv DEF d
<1>7. CASE NextWalk
  BY <1>1, <1>2, <1>3, <1>7, NextWalkIs, TurnsToNext
<1> QED
  BY <1>4, <1>5, <1>6, <1>7 DEF Parse

\* An edit ends what is known.
LEMMA EditInv == TreeTypeOK /\ Edit => TreeInv'
BY EditsAssumption DEF TreeTypeOK, Edit, TreeInv
-----------------------------------------------------------------------------
(* What that comes to once all four walks are over.                          *)

\* Of the charts around a file the topmost one is in none that can be seen.
LEMMA TopIs ==
  ASSUME TreeTypeOK, NEW f \in Files, Around(f) # {}
  PROVE  /\ Top(f) \in Around(f) /\ Topmost(Top(f))
         /\ \A e \in Around(f) : IsPrefix(Top(f), e)
<1>1. \A e \in Around(f) : e \in Visible /\ IsStrictPrefix(e, f) /\ e \in Paths /\ e \notin Files
  BY ChartActs DEF Around, Visible, Files
<1>2. \A e \in Around(f) : e \in Seq(STRING) /\ Len(e) \in Nat
  BY <1>1, Places, LenProperties
<1>3. f \in Seq(STRING)
  BY Places
<1>4. PICK c \in Around(f) : \A e \in Around(f) : Len(c) <= Len(e)
  <2> DEFINE L == {Len(e) : e \in Around(f)}
  <2>1. L \in SUBSET Nat /\ L # {}
    BY <1>2
  <2>2. Min(L) \in L /\ \A y \in L : Min(L) <= y
    BY <2>1, MinIs
  <2> QED
    BY <2>2
<1>5. ASSUME NEW e \in Around(f) PROVE IsPrefix(c, e)
  <2>1. IsPrefix(c, f) /\ IsPrefix(e, f) /\ Len(c) <= Len(e)
    BY <1>1, <1>4 DEF IsStrictPrefix
  <2>2. CASE IsPrefix(e, c)
    <3>1. Len(e) <= Len(c) /\ \A i \in 1..Len(e) : e[i] = c[i]
      BY <1>2, <2>2, PrefixIs
    <3>2. Len(e) = Len(c)
      BY <1>2, <2>1, <3>1
    <3> QED
      BY <1>2, <3>1, <3>2, PrefixIs
  <2> QED
    BY <1>2, <1>3, <2>1, <2>2, PrefixOrder
<1>6. Top(f) \in Around(f) /\ \A e \in Around(f) : IsPrefix(Top(f), e)
  BY <1>5 DEF Top
<1>7. ASSUME NEW e \in Visible, IsStrictPrefix(e, Top(f)) PROVE FALSE
  <2>1. e \in Paths /\ e \notin Files /\ e \in Seq(STRING)
    BY ChartActs, Places DEF Files
  <2>2. IsPrefix(e, f)
    BY <1>1, <1>2, <1>3, <1>6, <1>7, <2>1, PrefixOrder DEF IsStrictPrefix
  <2>3. e \in Around(f)
    BY <2>1, <2>2 DEF Around, Visible, IsStrictPrefix
  <2> QED
    BY <1>2, <1>6, <1>7, <2>1, <2>3, PrefixOrder DEF IsStrictPrefix
<1> QED
  BY <1>1, <1>6, <1>7 DEF Topmost

\* A chart nothing renders a file of but the topmost one around it.
LEMMA RenderedByTop ==
  ASSUME TreeTypeOK, NEW b, NEW j \in 1..Len(Order), RenderedAt(b, j)
  PROVE  Around(b.from) # {} /\ Order[j] = Top(b.from) /\ helm /\ IsTemplate(b.from)
<1> DEFINE f == b.from
           d == Order[j]
<1>1. /\ f \in Files /\ f \in Templates(d) /\ IsStrictPrefix(d, f) /\ helm
      /\ d \in Visible /\ Topmost(d) /\ d \in Paths
  BY RenderedFrom, Places DEF RenderedAt
<1> HIDE DEF f, d
<1>2. d \in Around(f)
  BY <1>1 DEF Around, Visible
<1>3. Top(f) \in Visible /\ Top(f) \in Paths /\ IsPrefix(Top(f), d)
  BY <1>1, <1>2, TopIs, ChartActs DEF Topmost
<1>4. d = Top(f)
  BY <1>1, <1>3 DEF Topmost, IsStrictPrefix
<1> QED
  BY <1>1, <1>2, <1>4 DEF IsTemplate, f, d

\* Where a file goes.
LEMMA OwnerIs ==
  ASSUME TreeTypeOK, NEW f \in InScope
  PROVE  /\ f \in Files /\ tree[f] # Gone /\ IsPrefix(path, f)
         /\ Owner(f) = "helm" => Language(f) = "kubernetes" /\ Around(f) # {} /\ ~Reads(3, f)
         /\ Owner(f) # "helm" => \E w \in 1..3 : Owner(f) = Walks[w] /\ Reads(w, f)
<1>1. f \in Files /\ tree[f] # Gone /\ IsPrefix(path, f)
  BY DEF InScope
<1>2. Language(f) \in {"terraform", "bicep", "kubernetes"}
  BY <1>1, OrderAssumption, Places DEF Files
<1>3. Owner(f) = "helm" => Language(f) = "kubernetes" /\ Around(f) # {}
  BY <1>2 DEF Owner
<1>4. Around(f) # {} => ~OutOfCharts(f)
  BY DEF Around, OutOfCharts, Visible
<1>5. Language(f) = "kubernetes" /\ Owner(f) # "helm" => OutOfCharts(f)
  BY DEF Owner, Around, OutOfCharts, Visible
<1>6. Owner(f) # "helm" => Owner(f) = Language(f)
  BY DEF Owner
<1>7. Walks[1] = "terraform" /\ Walks[2] = "bicep" /\ Walks[3] = "kubernetes"
  BY DEF Walks
<1>8. ASSUME Owner(f) # "helm" PROVE \E w \in 1..3 : Owner(f) = Walks[w] /\ Reads(w, f)
  BY <1>1, <1>2, <1>5, <1>6, <1>7, <1>8 DEF Reads
<1>9. Owner(f) = "helm" => ~Reads(3, f)
  BY <1>3, <1>4 DEF Reads
<1> QED
  BY <1>1, <1>3, <1>8, <1>9

\* Parsed, everything is behind the walks.
LEMMA AllBehind ==
  ASSUME Parsed
  PROVE  \A w \in 1..4 : \A j : Past(w, j)
BY DEF Parsed, Past, Walks

\* A resource comes through the owner of its file.
LEMMA ThroughOwner ==
  ASSUME TreeTypeOK, TreeInv, edits = 0, NEW b \in resources
  PROVE  /\ b.from \in Files /\ b.content = tree[b.from]
         /\ SubchartsNamed => b.file = b.from
         /\ b.from \in InScope =>
              /\ b.parser = Owner(b.from)
              /\ b.severities = Found(Owner(b.from), b.from)
              /\ Owner(b.from) = "helm" => helm /\ IsTemplate(b.from)
<1> DEFINE f == b.from
<1>1. CASE \E w \in 1..3, j \in 1..Len(Order) : Past(w, j) /\ ReadAt(b, w, j)
  <2>1. PICK w \in 1..3 : \E j \in 1..Len(Order) : ReadAt(b, w, j)
    BY <1>1
  <2>2. PICK j \in 1..Len(Order) : ReadAt(b, w, j)
    BY <2>1
  <2>3. /\ b.file = f /\ b.parser = Walks[w] /\ b.content = tree[f]
        /\ b.severities = Found(Walks[w], f) /\ Reads(w, f)
    BY <2>2, ReadFrom
  <2>4. f \in Files /\ Language(f) = Walks[w]
    BY <2>3 DEF Reads
  <2>6. Walks[w] = "kubernetes" => w = 3
    BY DEF Walks
  <2>7. f \in InScope => Owner(f) # "helm"
    BY <2>3, <2>4, <2>6, OwnerIs
  <2>8. f \in InScope => b.parser = Owner(f)
    BY <2>3, <2>4, <2>7 DEF Owner
  <2> QED
    BY <2>3, <2>4, <2>7, <2>8
<1>2. CASE \E j \in 1..Len(Order) : Past(4, j) /\ RenderedAt(b, j)
  <2>1. PICK j \in 1..Len(Order) : RenderedAt(b, j)
    BY <1>2
  <2>2. /\ f \in Files /\ Language(f) = "kubernetes" /\ b.parser = "helm"
        /\ b.content = tree[f] /\ b.severities = tree[f].severities
        /\ SubchartsNamed => b.file = f
    BY <2>1, RenderedFrom
  <2>3. Around(f) # {} /\ helm /\ IsTemplate(f)
    BY <2>1, RenderedByTop
  <2>4. Owner(f) = "helm" /\ Found("helm", f) = tree[f].severities
    BY <2>2, <2>3 DEF Owner, Found, Raw
  <2> QED
    BY <2>2, <2>3, <2>4
<1> QED
  BY <1>1, <1>2 DEF TreeInv, Sound

\* Parsed, each file in scope has been read well by its owner, if that reads it.
LEMMA OwnerHasRead ==
  ASSUME TreeTypeOK, TreeInv, edits = 0, Parsed, NEW f \in InScope,
         Owner(f) = "helm" => helm /\ IsTemplate(f)
  PROVE  /\ WellFormed(Owner(f), f)
         /\ tree[f].resources => \E b \in resources : b.from = f
<1>1. CASE Owner(f) # "helm"
  <2>1. PICK w \in 1..3 : Owner(f) = Walks[w] /\ Reads(w, f)
    BY <1>1, OwnerIs
  <2>2. PICK j \in 1..Len(Order) : f = Order[j]
    BY OwnerIs, Places
  <2>3. ReadWell(w, f)
    BY <2>1, <2>2, AllBehind DEF TreeInv, ReadBehind
  <2> QED
    BY <2>1, <2>3 DEF ReadWell
<1>2. CASE Owner(f) = "helm"
  <2> DEFINE d == Top(f)
  <2>1. f \in Files /\ Around(f) # {} /\ f \in Templates(d) /\ helm
    BY <1>2, OwnerIs DEF IsTemplate
  <2>2. Topmost(d) /\ d \in Paths
    BY <2>1, TopIs, ChartActs DEF Topmost
  <2>3. PICK j \in 1..Len(Order) : d = Order[j]
    BY <2>2, Places
  <2> HIDE DEF d
  <2>4. Renders(d) /\ Rendering(d) \subseteq resources
    BY <2>1, <2>2, <2>3, AllBehind DEF TreeInv, RenderedBehind
  <2>5. WellFormed("helm", f)
    BY <2>1, <2>4 DEF Renders, WellFormed, Raw
  <2>6. ASSUME tree[f].resources PROVE \E b \in resources : b.from = f
    <3> DEFINE b == Batch("helm", resolveSourcePath(d, Source(d, f)), f)
    <3>1. b \in Rendering(d)
      BY <2>1, <2>6 DEF Rendering
    <3>2. b.from = f
      BY DEF Batch
    <3> HIDE DEF b
    <3> QED
      BY <2>4, <3>1, <3>2
  <2> QED
    BY <1>2, <2>5, <2>6
<1> QED
  BY <1>1, <1>2

\* So the files are shared out,
LEMMA Sharing == TreeTypeOK /\ TreeInv => SharedOut
<1> SUFFICES ASSUME TreeTypeOK, TreeInv, Parsed, edits = 0,
                    NEW f \in {g \in InScope : tree[g].resources},
                    NEW read, read = {b \in resources : b.from = f}
             PROVE  IF Owner(f) = "helm" /\ ~(helm /\ IsTemplate(f)) THEN read = {}
                    ELSE \E b \in read : /\ read = {b}
                                         /\ b.parser = Owner(f)
                                         /\ b.severities = Found(Owner(f), f)
  BY DEF SharedOut
<1>1. CASE Owner(f) = "helm" /\ ~(helm /\ IsTemplate(f))
  <2>1. ASSUME NEW b \in read PROVE FALSE
    BY <1>1, <2>1, ThroughOwner
  <2> QED
    BY <1>1, <2>1
<1>2. CASE ~(Owner(f) = "helm" /\ ~(helm /\ IsTemplate(f)))
  <2>1. PICK b \in resources : b.from = f
    BY <1>2, OwnerHasRead
  <2>2. b \in read /\ \A c \in read : c = b
    BY <2>1 DEF TreeInv, Once
  <2>3. read = {b}
    BY <2>2
  <2>4. b.parser = Owner(f) /\ b.severities = Found(Owner(f), f)
    BY <2>1, ThroughOwner
  <2>5. \E c \in read : /\ read = {c} /\ c.parser = Owner(f)
                        /\ c.severities = Found(Owner(f), f)
    BY <2>2, <2>3, <2>4
  <2> QED
    BY <1>2, <2>5
<1> QED
  BY <1>1, <1>2

\* What a whole scan reads of a tree that stays as it is: the same each time.
Yields(b) == \/ \E w \in 1..3, j \in 1..Len(Order) : ReadAt(b, w, j)
             \/ \E j \in 1..Len(Order) : RenderedAt(b, j)

LEMMA SameReading ==
  ASSUME TreeTypeOK, TreeInv, edits = 0, Parsed
  PROVE  \A b : b \in resources <=> Yields(b)
<1>1. ASSUME NEW b \in resources PROVE Yields(b)
  BY DEF TreeInv, Sound, Yields
<1>2. ASSUME NEW b, NEW w \in 1..3, NEW j \in 1..Len(Order), ReadAt(b, w, j)
      PROVE  b \in resources
  <2>1. Reads(w, Order[j]) /\ tree[Order[j]].resources
    BY <1>2 DEF ReadAt
  <2>2. ReadWell(w, Order[j])
    BY <2>1, AllBehind DEF TreeInv, ReadBehind
  <2>3. PICK c \in resources : c.from = Order[j] /\ c.parser = Walks[w]
    BY <2>1, <2>2 DEF ReadWell
  <2>4. ASSUME NEW i \in 1..Len(Order), RenderedAt(c, i) PROVE FALSE
    <3>1. c.parser = "helm"
      BY <2>4, RenderedFrom
    <3> QED
      BY <2>3, <3>1 DEF Walks
  <2>5. PICK v \in 1..3 : \E i \in 1..Len(Order) : ReadAt(c, v, i)
    BY <2>4 DEF TreeInv, Sound
  <2>6. PICK i \in 1..Len(Order) : ReadAt(c, v, i)
    BY <2>5
  <2>7. Order[i] = Order[j] /\ Walks[v] = Walks[w]
    BY <2>3, <2>6, ReadFrom
  <2>8. c = b
    BY <1>2, <2>6, <2>7 DEF ReadAt
  <2> QED
    BY <2>3, <2>8
<1>3. ASSUME NEW b, NEW j \in 1..Len(Order), RenderedAt(b, j) PROVE b \in resources
  <2>1. helm /\ Topmost(Order[j]) /\ b \in Rendering(Order[j])
    BY <1>3 DEF RenderedAt
  <2> QED
    BY <2>1, AllBehind DEF TreeInv, RenderedBehind
<1> QED
  BY <1>1, <1>2, <1>3 DEF Yields

\* and each resource is attributed to its file.
LEMMA Attribution == TreeTypeOK /\ TreeInv => AttributedToItsFile
BY ThroughOwner DEF AttributedToItsFile
=============================================================================
