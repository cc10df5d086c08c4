-------------------------- MODULE MigrationProofs ---------------------------
(* Proofs about Migration, for every set of portals and every number of      *)
(* faults: the safety properties its run checks.                             *)
EXTENDS Migration, TLAPS

\* A portal has behind it only statements whose work is in the file: nothing
\* ever leaves the schema, so neither a restart nor another portal undoes it.
DoneStays ==
  \A p \in Portals : \A k \in DOMAIN Statements :
    k < at[p] => Statements[k].object \in schema

\* What every step preserves.
IInv == TypeOK /\ DoneStays
-----------------------------------------------------------------------------
(* The list of statements.                                                   *)

\* There are five statements, then the settings, then service.
LEMMA FiveStatements ==
  /\ DOMAIN Statements = 1..5
  /\ Configuring = 6 /\ Serving = 7 /\ Failed = 0
<1>1. Len(Statements) = 5
  BY DEF Statements
<1>2. DOMAIN Statements = 1..5
  BY DEF Statements
<1> QED
  BY <1>1, <1>2 DEF Configuring, Serving, Failed

\* The table comes before the columns that are added to it.
LEMMA TableFirst ==
  /\ Statements[1].object = "scans"
  /\ Statements[1].kind = "create"
BY DEF Statements

\* Each statement makes an object of the schema.
LEMMA KnownObject ==
  ASSUME NEW k \in DOMAIN Statements
  PROVE  Statements[k].object \in Objects
BY DEF Objects
-----------------------------------------------------------------------------
\* Nothing is behind a portal that has just started.
LEMMA InitInvariant == Init => IInv
<1> SUFFICES ASSUME Init PROVE IInv
  OBVIOUS
<1>1. at = [p \in Portals |-> 1]
  BY DEF Init
<1>2. schema \subseteq Objects
  <2>1. ASSUME NEW n \in 0..Len(Statements), schema = After(n) PROVE schema \subseteq Objects
    <3>1. 1..n \subseteq DOMAIN Statements
      BY FiveStatements DEF Statements
    <3> QED
      BY <2>1, <3>1, KnownObject DEF After
  <2>2. ASSUME schema \in Older PROVE schema \subseteq Objects
    <3>1. {1, 4, 5} \subseteq DOMAIN Statements
      BY FiveStatements
    <3>2. /\ Statements[1].object = "scans" /\ Statements[4].object = "sessions"
          /\ Statements[5].object = "audit_events"
      BY DEF Statements
    <3>3. {"scans", "sessions", "audit_events"} \subseteq Objects
      BY <3>1, <3>2, KnownObject
    <3> QED
      BY <2>2, <3>3 DEF Older
  <2> QED
    BY <2>1, <2>2 DEF Init
<1>3. TypeOK
  BY <1>1, <1>2, FaultAssumption, FiveStatements DEF Init, TypeOK
<1>4. DoneStays
  BY <1>1, FiveStatements DEF DoneStays
<1> QED
  BY <1>3, <1>4 DEF IInv

\* A portal moves on to statement n with its work up to n in the file, which
\* keeps what it had: the others are not disturbed.
LEMMA MovesOn ==
  ASSUME IInv, NEW p \in Portals, NEW n \in Failed..Serving,
         at' = [at EXCEPT ![p] = n],
         schema \subseteq schema', schema' \subseteq Objects,
         \A k \in DOMAIN Statements : k < n => Statements[k].object \in schema',
         oidc' = oidc,
         faults' \in 0..MaxFaults
  PROVE  IInv'
<1>1. at \in [Portals -> Failed..Serving]
  BY DEF IInv, TypeOK
<1>2. \A q \in Portals : at'[q] = IF q = p THEN n ELSE at[q]
  BY <1>1
<1>3. TypeOK'
  BY <1>1 DEF IInv, TypeOK
<1>4. DoneStays'
  <2> SUFFICES ASSUME NEW q \in Portals, NEW k \in DOMAIN Statements, k < at'[q]
               PROVE  Statements[k].object \in schema'
    BY DEF DoneStays
  <2>1. CASE q = p
    BY <2>1, <1>2
  <2>2. CASE q # p
    BY <2>2, <1>2 DEF IInv, DoneStays
  <2> QED
    BY <2>1, <2>2
<1> QED
  BY <1>3, <1>4 DEF IInv

\* One more statement done.
LEMMA DoneUpTo ==
  ASSUME IInv, NEW p \in Portals, Running(p), schema \subseteq schema',
         Statements[at[p]].object \in schema'
  PROVE  /\ at[p] + 1 \in Failed..Serving
         /\ \A k \in DOMAIN Statements : k < at[p] + 1 => Statements[k].object \in schema'
<1>1. at[p] \in 1..5
  BY FiveStatements DEF Running
<1>2. \A k \in DOMAIN Statements : k < at[p] + 1 => k < at[p] \/ k = at[p]
  BY <1>1, FiveStatements
<1> QED
  BY <1>1, <1>2, FiveStatements DEF IInv, DoneStays

\* Every step keeps the invariant: the schema only grows.
LEMMA StepInvariant == IInv /\ [Next]_vars => IInv'
<1> SUFFICES ASSUME IInv, [Next]_vars PROVE IInv'
  OBVIOUS
<1>t. schema \subseteq Objects /\ faults \in 0..MaxFaults
  BY DEF IInv, TypeOK
<1>z. \A k \in DOMAIN Statements : ~(k < Failed) /\ ~(k < 1)
  BY FiveStatements
<1>r. Failed \in Failed..Serving /\ 1 \in Failed..Serving
  BY FiveStatements
<1>1. ASSUME NEW p \in Portals, Create(p) PROVE IInv'
  <2>1. /\ Running(p) /\ schema' = schema \cup {Statements[at[p]].object}
        /\ at' = [at EXCEPT ![p] = at[p] + 1] /\ oidc' = oidc /\ faults' = faults
    BY <1>1 DEF Create
  <2>2. schema' \subseteq Objects
    BY <2>1, <1>t, KnownObject DEF Running
  <2> QED
    BY <2>1, <2>2, <1>t, DoneUpTo, MovesOn
<1>2. ASSUME NEW p \in Portals, AddColumn(p) PROVE IInv'
  <2>0. Running(p) /\ oidc' = oidc /\ faults' = faults
    BY <1>2 DEF AddColumn
  <2>1. CASE /\ schema' = schema \cup {Statements[at[p]].object}
             /\ at' = [at EXCEPT ![p] = at[p] + 1]
    <3>1. schema' \subseteq Objects
      BY <2>0, <2>1, <1>t, KnownObject DEF Running
    <3> QED
      BY <2>0, <2>1, <3>1, <1>t, DoneUpTo, MovesOn
  <2>2. CASE /\ Statements[at[p]].object \in schema /\ schema' = schema
             /\ at' = [at EXCEPT ![p] = at[p] + 1]
    BY <2>0, <2>2, <1>t, DoneUpTo, MovesOn
  <2>3. CASE schema' = schema /\ at' = [at EXCEPT ![p] = Failed]
    BY <2>0, <2>3, <1>t, <1>z, <1>r, MovesOn
  <2> QED
    BY <1>2, <2>1, <2>2, <2>3 DEF AddColumn
<1>3. ASSUME NEW p \in Portals, Configure(p) PROVE IInv'
  <2>1. /\ at[p] = Configuring /\ schema' = schema /\ oidc' = oidc /\ faults' = faults
        /\ at' = [at EXCEPT ![p] = IF oidc = "some" THEN Failed ELSE Serving]
    BY <1>3 DEF Configure
  <2>2. \A k \in DOMAIN Statements : Statements[k].object \in schema
    BY <2>1, FiveStatements DEF IInv, DoneStays
  <2>3. CASE oidc = "some"
    BY <2>1, <2>3, <1>t, <1>z, <1>r, MovesOn
  <2>4. CASE oidc # "some"
    <3>1. Serving \in Failed..Serving
      BY FiveStatements
    <3> QED
      BY <2>1, <2>2, <2>4, <3>1, <1>t, MovesOn
  <2> QED
    BY <2>3, <2>4
<1>4. ASSUME NEW p \in Portals, Fault(p) PROVE IInv'
  <2>1. /\ schema' = schema /\ oidc' = oidc /\ at' = [at EXCEPT ![p] = Failed]
        /\ faults' \in 0..MaxFaults
    BY <1>4, <1>t, FaultAssumption DEF Fault
  <2> QED
    BY <2>1, <1>t, <1>z, <1>r, MovesOn
<1>5. ASSUME NEW p \in Portals, Restart(p) PROVE IInv'
  <2>1. /\ schema' = schema /\ oidc' = oidc /\ faults' = faults
        /\ at' = [at EXCEPT ![p] = 1]
    BY <1>5 DEF Restart
  <2> QED
    BY <2>1, <1>t, <1>z, <1>r, MovesOn
<1>6. CASE UNCHANGED vars
  BY <1>6 DEF vars, IInv, TypeOK, DoneStays
<1> QED
  BY <1>1, <1>2, <1>3, <1>4, <1>5, <1>6 DEF Next

\* The invariant holds throughout.
LEMMA MigrationInvariance == Spec => []IInv
BY InitInvariant, StepInvariant, PTL DEF Spec
-----------------------------------------------------------------------------
\* The file never has an unknown object and no portal is anywhere else than at
\* a statement of NewStore, past them or failed.
THEOREM TypeCorrect == Spec => []TypeOK
<1>1. IInv => TypeOK
  BY DEF IInv
<1> QED
  BY <1>1, MigrationInvariance, PTL

\* However many portals open one file of whichever version and fail at whatever
\* statement, one that serves has the whole schema.
THEOREM ServesWholeSchema == Spec => []ReadyHasSchema
<1>1. IInv => ReadyHasSchema
  <2> SUFFICES ASSUME IInv, NEW p \in Portals, at[p] = Serving
               PROVE  schema = Objects
    BY DEF ReadyHasSchema
  <2>1. \A k \in DOMAIN Statements : Statements[k].object \in schema
    BY FiveStatements DEF IInv, DoneStays
  <2>2. Objects \subseteq schema
    BY <2>1 DEF Objects
  <2> QED
    BY <2>2 DEF IInv, TypeOK
<1> QED
  BY <1>1, MigrationInvariance, PTL

\* The only way AddColumn fails is never open: no portal gets to a column
\* before the table is there, created by whichever portal was first.
LEMMA ColumnHasTable ==
  ASSUME IInv, NEW p \in Portals, Running(p), Statements[at[p]].kind = "alter"
  PROVE  "scans" \in schema
<1>1. at[p] \in 1..5 /\ at[p] # 1
  BY FiveStatements, TableFirst DEF Running
<1>2. 1 \in DOMAIN Statements /\ 1 < at[p]
  BY <1>1, FiveStatements
<1> QED
  BY <1>2, TableFirst DEF IInv, DoneStays

\* A start that meets nothing but work already done does not fail for it.
THEOREM StartsSurvive == Spec => OnlyFaultsStopAStart
<1> DEFINE Stops == \A p \in Portals : at[p] # Failed /\ at'[p] = Failed =>
                      faults' = faults + 1 \/ (at[p] = Configuring /\ oidc = "some")
<1>1. IInv /\ [Next]_vars => [Stops]_vars
  <2> SUFFICES ASSUME IInv, Next, NEW q \in Portals, at[q] # Failed, at'[q] = Failed
               PROVE  faults' = faults + 1 \/ (at[q] = Configuring /\ oidc = "some")
    OBVIOUS
  <2>t. at \in [Portals -> Failed..Serving]
    BY DEF IInv, TypeOK
  <2>1. PICK p \in Portals : Create(p) \/ AddColumn(p) \/ Configure(p) \/ Fault(p) \/ Restart(p)
    BY DEF Next
  <2>2. CASE Create(p)
    <3>1. at[p] \in 1..5 /\ at' = [at EXCEPT ![p] = at[p] + 1]
      BY <2>2, FiveStatements DEF Create, Running
    <3> QED
      BY <3>1, <2>t, FiveStatements
  <2>3. CASE AddColumn(p)
    <3>1. at[p] \in 1..5 /\ "scans" \in schema
      BY <2>3, FiveStatements, ColumnHasTable DEF AddColumn, Running
    <3>2. at' = [at EXCEPT ![p] = at[p] + 1]
      BY <2>3, <3>1 DEF AddColumn
    <3> QED
      BY <3>1, <3>2, <2>t, FiveStatements
  <2>4. CASE Configure(p)
    BY <2>4, <2>t, FiveStatements DEF Configure
  <2>5. CASE Fault(p)
    BY <2>5 DEF Fault
  <2>6. CASE Restart(p)
    BY <2>6, <2>t, FiveStatements DEF Restart
  <2> QED
    BY <2>1, <2>2, <2>3, <2>4, <2>5, <2>6
<1> QED
  BY <1>1, MigrationInvariance, PTL DEF Spec, OnlyFaultsStopAStart
=============================================================================
