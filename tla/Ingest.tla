------------------------------- MODULE Ingest -------------------------------
(* POST /api/scans of the portal, from the CLI's upload to its answer.       *)
(*                                                                           *)
(* The handler makes up to three separate statements on the database (Add,   *)
(* SetArtifacts, AddAuditEvent) with no transaction around them, and net/http*)
(* runs one handler per request concurrently. Each statement is atomic by    *)
(* itself, may fail, and the portal may stop between any two of them. The    *)
(* client posts once, with neither a timeout nor a retry, and may go away.   *)
EXTENDS Integers, Sequences

CONSTANTS
  Uploads,       \* the POSTs made: one per `policyforge scan --upload`
  Bodies,        \* the request bodies they may carry
  Credentials,   \* the <<user, password>> pairs a client may send
  NoHeader,      \* no Authorization header
  PortalUser,    \* --auth-user, "" when unset
  PortalPass,    \* --auth-pass, "" when unset
  StartTimes,    \* the readings of the wall clock at the first request
  ClockSteps     \* how far the clock may move from one reading to the next

Projects == {b.project : b \in Bodies}
FindingSets == {b.findings : b \in Bodies}
Documents == {b.sbom : b \in Bodies} \cup {b.provenance : b \in Bodies} \cup {""}
Actors == {c[1] : c \in Credentials} \cup {"anonymous"}

\* An empty document stands for one that was not sent.
ASSUME BodiesAssumption ==
  Bodies \subseteq [project : Projects, findings : FindingSets,
                    sbom : Documents, provenance : Documents]
ASSUME HeaderAssumption ==
  NoHeader \notin Credentials \cup {<<PortalUser, PortalPass>>}
ASSUME ClockAssumption == StartTimes \subseteq Int /\ ClockSteps \subseteq Int

VARIABLES
  request,   \* request[u]: what upload u carries (never changes)
  client,    \* client[u]: where the CLI stands, and the id it was given
  handler,   \* handler[u]: the goroutine serving u and its local variables
  scans,     \* table scans; the row's id is its position
  audit,     \* table audit_events
  clock      \* what time.Now() returns next

vars == <<request, client, handler, scans, audit, clock>>
-----------------------------------------------------------------------------
Steps == {"none", "receive", "stamp", "Add", "SetArtifacts", "AddAuditEvent",
          "respond"}
Codes == {0, 201, 400, 401, 500}

Requests == [body : Bodies, header : Credentials \cup {NoHeader}]
Clients == [state : {"ready", "waiting", "uploaded", "failed"}, id : Nat]
Handlers == [pc : Steps, createdAt : Int, id : Nat, code : Codes]

\* req is not a column: it records which request wrote the row.
Rows == [req : Uploads, project : Projects, findings : FindingSets,
         createdAt : Int, sbom : Documents, provenance : Documents]
Events == [req : Uploads, event : {"scan_ingested"}, actor : Actors, scan : Nat]

\* The tables hold rows of the declared columns, and every goroutine and
\* client is at one of the points of the code.
TypeOK ==
  /\ request \in [Uploads -> Requests]
  /\ client \in [Uploads -> Clients]
  /\ handler \in [Uploads -> Handlers]
  /\ scans \in Seq(Rows)
  /\ audit \in Seq(Events)
  /\ clock \in Int

Idle == [pc |-> "none", createdAt |-> 0, id |-> 0, code |-> 0]

Init ==
  /\ request \in [Uploads -> Requests]
  /\ client = [u \in Uploads |-> [state |-> "ready", id |-> 0]]
  /\ handler = [u \in Uploads |-> Idle]
  /\ scans = <<>>
  /\ audit = <<>>
  /\ clock \in StartTimes
-----------------------------------------------------------------------------
Body(u) == request[u].body
Header(u) == request[u].header

AuthDisabled == PortalUser = "" \/ PortalPass = ""

\* Variant: a header is enough.
Authorized_AnyHeader(u) == AuthDisabled \/ Header(u) # NoHeader

\* The basicAuth middleware lets the request through.
Authorized(u) == AuthDisabled \/ Header(u) = <<PortalUser, PortalPass>>

\* r.BasicAuth() succeeds on any Basic header, checked by the middleware or not.
Actor(u) == IF Header(u) = NoHeader THEN "anonymous" ELSE Header(u)[1]

\* A body that does not parse and one without org or project get the same 400.
Accepted(u) == Body(u).project # ""

HasArtifacts(u) == Body(u).sbom # "" \/ Body(u).provenance # ""

Goto(u, pc) == handler' = [handler EXCEPT ![u].pc = pc]
Reply(u, code) ==
  handler' = [handler EXCEPT ![u].pc = "respond", ![u].code = code]
-----------------------------------------------------------------------------
(* The client.                                                               *)

\* uploadFindings posts the scan.
Post(u) ==
  /\ client[u].state = "ready"
  /\ client' = [client EXCEPT ![u].state = "waiting"]
  /\ Goto(u, "receive")
  /\ UNCHANGED <<request, scans, audit, clock>>

\* The connection breaks. The handler does not notice: no statement takes the
\* request's context.
Disconnect(u) ==
  /\ client[u].state = "waiting"
  /\ client' = [client EXCEPT ![u].state = "failed"]
  /\ UNCHANGED <<request, handler, scans, audit, clock>>
-----------------------------------------------------------------------------
(* The handler.                                                              *)

\* Variant: nothing is answered to a refused body.
Receive_NoBadRequest(u) ==
  /\ handler[u].pc = "receive"
  /\ \/ ~Authorized(u) /\ Reply(u, 401)
     \/ Authorized(u) /\ Accepted(u) /\ Goto(u, "stamp")
  /\ UNCHANGED <<request, client, scans, audit, clock>>

\* basicAuth, then the checks on the body.
Receive(u) ==
  /\ handler[u].pc = "receive"
  /\ \/ ~Authorized(u) /\ Reply(u, 401)
     \/ Authorized(u) /\ ~Accepted(u) /\ Reply(u, 400)
     \/ Authorized(u) /\ Accepted(u) /\ Goto(u, "stamp")
  /\ UNCHANGED <<request, client, scans, audit, clock>>

\* Add reads the clock before it goes to the database.
Stamp(u) ==
  /\ handler[u].pc = "stamp"
  /\ handler' = [handler EXCEPT ![u].pc = "Add", ![u].createdAt = clock]
  /\ \E d \in ClockSteps : clock' = clock + d
  /\ UNCHANGED <<request, client, scans, audit>>

\* The columns Add fills; the other two are NULL, which reads as "".
NewRow(u) == [req |-> u, project |-> Body(u).project, findings |-> Body(u).findings,
              createdAt |-> handler[u].createdAt, sbom |-> "", provenance |-> ""]

\* Variant: the documents are never attached.
Add_DropsArtifacts(u) ==
  /\ handler[u].pc = "Add"
  /\ scans' = Append(scans, NewRow(u))
  /\ handler' = [handler EXCEPT ![u].id = Len(scans) + 1, ![u].pc = "AddAuditEvent"]
  /\ UNCHANGED <<request, client, audit, clock>>

\* Add's INSERT; the id is the one this statement's own result carries.
Add(u) ==
  /\ handler[u].pc = "Add"
  /\ scans' = Append(scans, NewRow(u))
  /\ handler' = [handler EXCEPT
       ![u].id = Len(scans) + 1,
       ![u].pc = IF HasArtifacts(u) THEN "SetArtifacts" ELSE "AddAuditEvent"]
  /\ UNCHANGED <<request, client, audit, clock>>

\* Variant: the newest row of the table is updated.
SetArtifacts_NewestRow(u) ==
  /\ handler[u].pc = "SetArtifacts"
  /\ scans' = [scans EXCEPT ![Len(scans)] =
                 [@ EXCEPT !.sbom = Body(u).sbom, !.provenance = Body(u).provenance]]
  /\ Goto(u, "AddAuditEvent")
  /\ UNCHANGED <<request, client, audit, clock>>

\* Variant: an error of the UPDATE is dropped.
SetArtifacts_ErrorDropped(u) ==
  /\ handler[u].pc = "SetArtifacts"
  /\ scans' \in {scans, [scans EXCEPT ![handler[u].id] =
                 [@ EXCEPT !.sbom = Body(u).sbom, !.provenance = Body(u).provenance]]}
  /\ Goto(u, "AddAuditEvent")
  /\ UNCHANGED <<request, client, audit, clock>>

\* One UPDATE sets both columns of the row Add returned.
SetArtifacts(u) ==
  /\ handler[u].pc = "SetArtifacts"
  /\ scans' = [scans EXCEPT ![handler[u].id] =
                 [@ EXCEPT !.sbom = Body(u).sbom, !.provenance = Body(u).provenance]]
  /\ Goto(u, "AddAuditEvent")
  /\ UNCHANGED <<request, client, audit, clock>>

\* Variant: the event type of another handler.
NewEvent_WrongType(u) == [req |-> u, event |-> "login", actor |-> Actor(u),
                          scan |-> handler[u].id]

NewEvent(u) == [req |-> u, event |-> "scan_ingested", actor |-> Actor(u),
                scan |-> handler[u].id]

\* Variant: an error of the INSERT is dropped.
AddAuditEvent_ErrorDropped(u) ==
  /\ handler[u].pc = "AddAuditEvent"
  /\ audit' \in {audit, Append(audit, NewEvent(u))}
  /\ Reply(u, 201)
  /\ UNCHANGED <<request, client, scans, clock>>

AddAuditEvent(u) ==
  /\ handler[u].pc = "AddAuditEvent"
  /\ audit' = Append(audit, NewEvent(u))
  /\ Reply(u, 201)
  /\ UNCHANGED <<request, client, scans, clock>>

\* Variant: a failed statement makes the handler begin anew.
ExecFails_Retried(u) ==
  /\ handler[u].pc \in {"Add", "SetArtifacts", "AddAuditEvent"}
  /\ Goto(u, "stamp")
  /\ UNCHANGED <<request, client, scans, audit, clock>>

\* A statement fails (database locked, disk full): nothing written earlier
\* is taken back.
ExecFails(u) ==
  /\ handler[u].pc \in {"Add", "SetArtifacts", "AddAuditEvent"}
  /\ Reply(u, 500)
  /\ UNCHANGED <<request, client, scans, audit, clock>>

\* The answer is written. A client still there takes 201 as success and
\* anything else as an error.
Respond(u) ==
  /\ handler[u].pc = "respond"
  /\ Goto(u, "none")
  /\ IF client[u].state = "waiting"
       THEN client' = [client EXCEPT
              ![u] = IF handler[u].code = 201
                       THEN [state |-> "uploaded", id |-> handler[u].id]
                       ELSE [state |-> "failed", id |-> 0]]
       ELSE UNCHANGED client
  /\ UNCHANGED <<request, scans, audit, clock>>

Serve(u) == \/ Receive(u) \/ Stamp(u) \/ Add(u) \/ SetArtifacts(u)
            \/ AddAuditEvent(u) \/ ExecFails(u) \/ Respond(u)

\* The portal stops and is started again: every goroutine is gone, every
\* waiting client sees its connection reset, the database stays.
Crash ==
  /\ \E u \in Uploads : handler[u].pc # "none"
  /\ handler' = [u \in Uploads |-> Idle]
  /\ client' = [u \in Uploads |-> IF client[u].state = "waiting"
                                    THEN [client[u] EXCEPT !.state = "failed"]
                                    ELSE client[u]]
  /\ UNCHANGED <<request, scans, audit, clock>>
-----------------------------------------------------------------------------
Next == \/ \E u \in Uploads : Post(u) \/ Disconnect(u) \/ Serve(u)
        \/ Crash

\* A goroutine keeps running and each of its statements returns, with success
\* or an error; neither clients nor crashes owe anything.
Spec == Init /\ [][Next]_vars /\ \A u \in Uploads : WF_vars(Serve(u))
-----------------------------------------------------------------------------
\* The row holds what request u carried, documents included.
Complete(row, u) == /\ row.req = u
                    /\ row.project = Body(u).project
                    /\ row.findings = Body(u).findings
                    /\ row.sbom = Body(u).sbom
                    /\ row.provenance = Body(u).provenance

Stored(u) == {i \in DOMAIN scans : scans[i].req = u}
Logged(u) == {i \in DOMAIN audit : audit[i].req = u}

\* An upload the CLI reports as done can be opened under the id it was given,
\* holds everything it carried, and is in the audit log under that id
\* (handleIngest answers 201 only after all three statements).
AckedIsDurable ==
  \A u \in Uploads : client[u].state = "uploaded" =>
    /\ client[u].id \in DOMAIN scans
    /\ Complete(scans[client[u].id], u)
    /\ \E i \in Logged(u) : audit[i].scan = client[u].id

\* A row never shows another upload's documents, whatever handlers run at the
\* same time: SetArtifacts updates the row its own Add inserted.
ArtifactsBelongToScan ==
  \A i \in DOMAIN scans :
    LET body == Body(scans[i].req) IN
      \/ scans[i].sbom = "" /\ scans[i].provenance = ""
      \/ scans[i].sbom = body.sbom /\ scans[i].provenance = body.provenance

\* The audit log only names scans that are stored whole, and names each once.
AuditNamesCompleteScan ==
  \A i \in DOMAIN audit :
    /\ audit[i].scan \in DOMAIN scans
    /\ Complete(scans[audit[i].scan], audit[i].req)
    /\ \A j \in DOMAIN audit : audit[j].scan = audit[i].scan => j = i

\* Crashes, errors and lost answers never store one POST twice.
OneRowPerRequest ==
  \A i, j \in DOMAIN scans : scans[i].req = scans[j].req => i = j

\* With authentication on, whoever the log names as actor knew the password,
\* and no scan is stored for anyone else (basicAuth wraps handleIngest).
OnlyAuthenticatedIngest ==
  ~AuthDisabled =>
    /\ \A i \in DOMAIN scans : Header(scans[i].req) = <<PortalUser, PortalPass>>
    /\ \A i \in DOMAIN audit : audit[i].actor = PortalUser

\* Every upload that is posted ends: the CLI has no timeout of its own, so it
\* relies on the handler always answering.
EveryUploadAnswered ==
  \A u \in Uploads :
    client[u].state = "waiting" ~> client[u].state \in {"uploaded", "failed"}
-----------------------------------------------------------------------------
(* The ledger this implements.                                               *)

\* How far upload u has come, read off the tables and the client.
Stage(u) == IF client[u].state = "uploaded" THEN "acknowledged"
            ELSE IF Logged(u) # {} THEN "audited"
            ELSE IF \E i \in Stored(u) : Complete(scans[i], u) THEN "complete"
            ELSE IF Stored(u) # {} THEN "recorded"
            ELSE "absent"

stages == [u \in Uploads |-> Stage(u)]

Ledger == INSTANCE ScanLedger WITH Uploads <- Uploads, phase <- stages

\* The handler records, completes, logs and acknowledges in this order, one
\* stage at a time, and never falls back (the contract of ScanLedger).
ImplementsLedger == Ledger!Spec
-----------------------------------------------------------------------------
(* The inductive invariant behind the safety properties: what each goroutine *)
(* has already written, and what the two tables hold of it.                  *)

\* Everything request u has to leave behind is there, under this id.
Settled(u, id) == /\ id \in DOMAIN scans
                  /\ Complete(scans[id], u)
                  /\ \E i \in DOMAIN audit : audit[i].req = u /\ audit[i].scan = id

BeforeAdd(u) == \/ client[u].state = "ready"
                \/ handler[u].pc \in {"receive", "stamp", "Add"}
BeforeAudit(u) == BeforeAdd(u) \/ handler[u].pc \in {"SetArtifacts", "AddAuditEvent"}

HandlerInv(u) ==
  /\ client[u].state = "ready" => handler[u].pc = "none"
  /\ BeforeAdd(u) => \A i \in DOMAIN scans : scans[i].req # u
  /\ BeforeAudit(u) => \A i \in DOMAIN audit : audit[i].req # u
  /\ handler[u].pc \in {"stamp", "Add", "SetArtifacts", "AddAuditEvent"} => Authorized(u)
  /\ handler[u].pc \in {"SetArtifacts", "AddAuditEvent"} =>
       handler[u].id \in DOMAIN scans /\ scans[handler[u].id].req = u
  /\ handler[u].pc = "AddAuditEvent" => Complete(scans[handler[u].id], u)
  /\ handler[u].pc = "respond" /\ handler[u].code = 201 => Settled(u, handler[u].id)
  /\ client[u].state = "uploaded" => Settled(u, client[u].id)

HandlersInv == \A u \in Uploads : HandlerInv(u)

RowsInv ==
  \A i \in DOMAIN scans :
    /\ Authorized(scans[i].req)
    /\ scans[i].project = Body(scans[i].req).project
    /\ scans[i].findings = Body(scans[i].req).findings
    /\ \A j \in DOMAIN scans : scans[i].req = scans[j].req => i = j

EventsInv ==
  \A i \in DOMAIN audit :
    /\ Authorized(audit[i].req)
    /\ audit[i].actor = Actor(audit[i].req)
    /\ audit[i].scan \in DOMAIN scans
    /\ Complete(scans[audit[i].scan], audit[i].req)
    /\ \A j \in DOMAIN audit : audit[i].req = audit[j].req => i = j

\* Each statement's effect stays until the answer, and nothing else touches
\* it: the reason why three statements without a transaction are enough for
\* an acknowledged upload.
IInv == /\ TypeOK
        /\ HandlersInv
        /\ RowsInv
        /\ ArtifactsBelongToScan
        /\ EventsInv
=============================================================================
