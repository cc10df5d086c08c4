----------------------------- MODULE Migration ------------------------------
(* A start of the portal: NewStore brings the database file up to the        *)
(* current schema, then main sets up single sign-on. There is no version     *)
(* number and no transaction: five statements, each harmless when its work   *)
(* was done before, by an older version, by a start that was interrupted or  *)
(* by another portal starting on the same file at the same time.             *)
EXTENDS Integers, Sequences

CONSTANTS
  Portals,     \* the processes that open the file
  MaxFaults    \* bound: statements that fail, and crashes, in all

ASSUME FaultAssumption == MaxFaults \in Nat

VARIABLES
  oidc,     \* how many of the four OIDC settings are there (never changes)
  schema,   \* the tables and added columns the file has
  at,       \* at[p]: the statement p is about to run, or how its start ended
  faults    \* failures so far

vars == <<oidc, schema, at, faults>>
-----------------------------------------------------------------------------
\* NewStore's statements, in order.
Statements == <<[kind |-> "create", object |-> "scans"],
                [kind |-> "alter", object |-> "sbom_json"],
                [kind |-> "alter", object |-> "provenance_json"],
                [kind |-> "create", object |-> "sessions"],
                [kind |-> "create", object |-> "audit_events"]>>

Objects == {Statements[k].object : k \in DOMAIN Statements}
Configuring == Len(Statements) + 1   \* NewStore has returned a Store
Serving == Configuring + 1
Failed == 0                          \* main has exited

\* What a run of these statements leaves when it stops after n of them.
After(n) == {Statements[k].object : k \in 1..n}

\* The files of older versions: scans came first, then sign-on, the audit trail
\* and, last of all, the columns (docs/roadmap.md).
Older == {{"scans"}, {"scans", "sessions"}, {"scans", "sessions", "audit_events"}}

\* The file has known objects and each process is at a statement or past them.
TypeOK == /\ oidc \in {"none", "some", "all"}
          /\ schema \subseteq Objects
          /\ at \in [Portals -> Failed..Serving]
          /\ faults \in 0..MaxFaults

Init == /\ oidc \in {"none", "some", "all"}
        /\ schema \in {After(n) : n \in 0..Len(Statements)} \cup Older
        /\ at = [p \in Portals |-> 1]
        /\ faults = 0
-----------------------------------------------------------------------------
Running(p) == at[p] \in DOMAIN Statements

\* Variant: any table is taken to bring the rest of its file along.
Create_SkipsRest(p) ==
  /\ Running(p)
  /\ Statements[at[p]].kind = "create"
  /\ schema' = schema \cup {Statements[at[p]].object}
  /\ at' = [at EXCEPT ![p] = @ + 4]
  /\ UNCHANGED <<oidc, faults>>

\* Variant: the columns are only added along with a new table.
Create_SkipsMigration(p) ==
  /\ Running(p)
  /\ Statements[at[p]].kind = "create"
  /\ schema' = schema \cup {Statements[at[p]].object}
  /\ at' = [at EXCEPT ![p] = IF @ = 1 /\ "scans" \in schema THEN 4 ELSE @ + 1]
  /\ UNCHANGED <<oidc, faults>>

\* CREATE TABLE IF NOT EXISTS succeeds either way.
Create(p) ==
  /\ Running(p)
  /\ Statements[at[p]].kind = "create"
  /\ schema' = schema \cup {Statements[at[p]].object}
  /\ at' = [at EXCEPT ![p] = @ + 1]
  /\ UNCHANGED <<oidc, faults>>

\* Variant: a duplicate column is an error like any other.
AddColumn_DuplicateFails(p) ==
  LET column == Statements[at[p]].object IN
    /\ Running(p)
    /\ Statements[at[p]].kind = "alter"
    /\ \/ /\ "scans" \in schema /\ column \notin schema
          /\ schema' = schema \cup {column}
          /\ at' = [at EXCEPT ![p] = @ + 1]
       \/ /\ "scans" \notin schema \/ column \in schema
          /\ at' = [at EXCEPT ![p] = Failed]
          /\ UNCHANGED schema
    /\ UNCHANGED <<oidc, faults>>

\* migrateAddColumn: ALTER TABLE without the table is an error; an existing
\* column is an error as well, and that one counts as success.
AddColumn(p) ==
  LET column == Statements[at[p]].object IN
    /\ Running(p)
    /\ Statements[at[p]].kind = "alter"
    /\ \/ /\ "scans" \in schema /\ column \notin schema
          /\ schema' = schema \cup {column}
          /\ at' = [at EXCEPT ![p] = @ + 1]
       \/ /\ column \in schema
          /\ at' = [at EXCEPT ![p] = @ + 1]
          /\ UNCHANGED schema
       \/ /\ "scans" \notin schema
          /\ at' = [at EXCEPT ![p] = Failed]
          /\ UNCHANGED schema
    /\ UNCHANGED <<oidc, faults>>

\* Some of the OIDC settings without the others end the start; with all of
\* them reads will need a session, with none the Basic Auth password.
Configure(p) ==
  /\ at[p] = Configuring
  /\ at' = [at EXCEPT ![p] = IF oidc = "some" THEN Failed ELSE Serving]
  /\ UNCHANGED <<oidc, schema, faults>>

\* A statement fails for another reason (file locked, disk full), the issuer
\* cannot be reached or the port is taken, and main exits; or the process is
\* killed, ready or not.
Fault(p) ==
  /\ at[p] # Failed
  /\ faults < MaxFaults
  /\ faults' = faults + 1
  /\ at' = [at EXCEPT ![p] = Failed]
  /\ UNCHANGED <<oidc, schema>>

\* The container is started again (restart: unless-stopped).
Restart(p) ==
  /\ at[p] = Failed
  /\ at' = [at EXCEPT ![p] = 1]
  /\ UNCHANGED <<oidc, schema, faults>>

Next ==
  \E p \in Portals : Create(p) \/ AddColumn(p) \/ Configure(p) \/ Fault(p) \/ Restart(p)

Start(p) == Create(p) \/ AddColumn(p) \/ Configure(p) \/ Restart(p)

Spec == Init /\ [][Next]_vars /\ \A p \in Portals : WF_vars(Start(p))
-----------------------------------------------------------------------------
\* A portal that serves has every table and column its queries name, whichever
\* version's file it was given, wherever the migration of that was interrupted
\* and whoever else was at it (NewStore's comment).
ReadyHasSchema == \A p \in Portals : at[p] = Serving => schema = Objects

\* A start that only meets work already done never fails for it: without a
\* fault, all that stops one is its settings (migrateAddColumn's comment).
OnlyFaultsStopAStart ==
  [][\A p \in Portals : at[p] # Failed /\ at'[p] = Failed =>
       faults' = faults + 1 \/ (at[p] = Configuring /\ oidc = "some")]_vars

\* Once the faults end, every portal with whole settings comes up by itself,
\* from whatever the interrupted starts have left.
ComesUp == oidc # "some" => \A p \in Portals : <>[](at[p] = Serving)
=============================================================================
