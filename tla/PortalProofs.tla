---------------------------- MODULE PortalProofs ----------------------------
(* Proofs about the portal, for any uploads, bodies and credentials and any  *)
(* behaviour of the wall clock: what a 201 promises and what the tables hold *)
(* (Ingest), that the handler implements the ledger (ScanLedger), and what   *)
(* the dashboard shows of it all (Dashboard).                                *)
EXTENDS Dashboard, SequenceTheorems, FiniteSetTheorems, WellFoundedInduction, TLAPS
-----------------------------------------------------------------------------
(* The handler.                                                              *)

\* What Receive and the statements put into the tables has the columns' types.
LEMMA RequestTypes ==
  ASSUME TypeOK, NEW u \in Uploads
  PROVE  /\ Body(u).project \in Projects
         /\ Body(u).findings \in FindingSets
         /\ Body(u).sbom \in Documents
         /\ Body(u).provenance \in Documents
         /\ Actor(u) \in Actors
<1>1. request[u] \in Requests
  BY DEF TypeOK
<1>2. Body(u) \in [project : Projects, findings : FindingSets,
                   sbom : Documents, provenance : Documents]
  BY <1>1, BodiesAssumption DEF Body, Requests
<1>3. Header(u) \in Credentials \cup {NoHeader}
  BY <1>1 DEF Header, Requests
<1>4. Actor(u) \in Actors
  BY <1>3 DEF Actor, Actors
<1>5. QED BY <1>2, <1>4

\* The row Add inserts is a row of the scans table (store.go, Add).
LEMMA RowTypes ==
  ASSUME TypeOK, NEW u \in Uploads
  PROVE  /\ NewRow(u) \in Rows
         /\ NewEvent(u) \in Events
<1>1. handler[u].createdAt \in Int /\ handler[u].id \in Nat
  BY DEF TypeOK, Handlers
<1>2. NewRow(u) \in Rows
  BY <1>1, RequestTypes DEF NewRow, Rows, Documents
<1>3. NewEvent(u) \in Events
  BY <1>1, RequestTypes DEF NewEvent, Events
<1>4. QED BY <1>2, <1>3

\* The event handleIngest logs is a row of the audit table.
LEMMA EventTypes ==
  ASSUME TypeOK
  PROVE  \A i \in DOMAIN audit : audit[i].req \in Uploads /\ audit[i].scan \in Nat
<1>1. \A i \in DOMAIN audit : audit[i] \in Events
  BY DEF TypeOK
<1>2. QED BY <1>1 DEF Events

\* The row SetArtifacts leaves behind, and the rest of the table.
LEMMA AttachedRow ==
  ASSUME TypeOK, HandlersInv, NEW u \in Uploads, SetArtifacts(u)
  PROVE  /\ handler[u].id \in DOMAIN scans
         /\ scans' \in Seq(Rows)
         /\ DOMAIN scans' = DOMAIN scans
         /\ \A i \in DOMAIN scans : i # handler[u].id => scans'[i] = scans[i]
         /\ scans'[handler[u].id] =
              [scans[handler[u].id] EXCEPT !.sbom = Body(u).sbom,
                                           !.provenance = Body(u).provenance]
<1> DEFINE id == handler[u].id
           row == [scans[id] EXCEPT !.sbom = Body(u).sbom,
                                    !.provenance = Body(u).provenance]
<1>1. id \in DOMAIN scans
  BY DEF SetArtifacts, HandlersInv, HandlerInv
<1>2. scans \in Seq(Rows) /\ id \in 1..Len(scans)
  BY <1>1 DEF TypeOK
<1>3. row \in Rows
  <2>1. scans[id] \in Rows
    BY <1>2
  <2>2. QED BY <2>1, RequestTypes DEF Rows
<1>4. scans' = [scans EXCEPT ![id] = row]
  BY DEF SetArtifacts
<1> HIDE DEF id, row
<1>5. scans' \in Seq(Rows) /\ Len(scans') = Len(scans)
  BY <1>2, <1>3, <1>4, ExceptSeq
<1>6. \A i \in DOMAIN scans : scans'[i] = IF i = id THEN row ELSE scans[i]
  BY <1>2, <1>4
<1>7. DOMAIN scans' = DOMAIN scans
  BY <1>2, <1>4
<1>8. QED BY <1>1, <1>5, <1>6, <1>7 DEF id, row

\* An empty database and idle clients are well typed.
LEMMA TypeInit == Init => TypeOK
<1> SUFFICES ASSUME Init PROVE TypeOK
  OBVIOUS
<1>1. scans \in Seq(Rows) /\ audit \in Seq(Events)
  BY DEF Init
<1>2. client \in [Uploads -> Clients] /\ handler \in [Uploads -> Handlers]
  BY DEF Init, Clients, Handlers, Idle, Steps, Codes
<1>3. clock \in Int
  BY ClockAssumption DEF Init
<1>4. QED BY <1>1, <1>2, <1>3 DEF Init, TypeOK

\* Moving a goroutine on, with or without an answer, keeps its record's shape.
LEMMA HandlerTypes ==
  ASSUME TypeOK, NEW u \in Uploads
  PROVE  /\ \A pc \in Steps : Goto(u, pc) => handler' \in [Uploads -> Handlers]
         /\ \A code \in Codes : Reply(u, code) => handler' \in [Uploads -> Handlers]
<1>1. ASSUME NEW pc \in Steps, Goto(u, pc) PROVE handler' \in [Uploads -> Handlers]
  BY <1>1 DEF TypeOK, Goto, Handlers
<1>2. ASSUME NEW code \in Codes, Reply(u, code)
      PROVE  handler' \in [Uploads -> Handlers]
  BY <1>2 DEF TypeOK, Reply, Handlers, Steps
<1>3. QED BY <1>1, <1>2

\* No step of a client or of handleIngest leaves the declared shapes; the
\* handlers' part is needed for the id SetArtifacts updates.
LEMMA TypeNext == TypeOK /\ HandlersInv /\ [Next]_vars => TypeOK'
<1> SUFFICES ASSUME TypeOK, HandlersInv, [Next]_vars PROVE TypeOK'
  OBVIOUS
<1>1. ASSUME NEW u \in Uploads, Post(u) PROVE TypeOK'
  <2>1. client' \in [Uploads -> Clients]
    BY <1>1 DEF Post, TypeOK, Clients
  <2>2. handler' \in [Uploads -> Handlers]
    BY <1>1, HandlerTypes DEF Post, Steps
  <2>3. QED BY <1>1, <2>1, <2>2 DEF Post, TypeOK
<1>2. ASSUME NEW u \in Uploads, Disconnect(u) PROVE TypeOK'
  <2>1. client' \in [Uploads -> Clients]
    BY <1>2 DEF Disconnect, TypeOK, Clients
  <2>2. QED BY <1>2, <2>1 DEF Disconnect, TypeOK
<1>3. ASSUME NEW u \in Uploads, Receive(u) PROVE TypeOK'
  <2>1. handler' \in [Uploads -> Handlers]
    BY <1>3, HandlerTypes DEF Receive, Steps, Codes
  <2>2. QED BY <1>3, <2>1 DEF Receive, TypeOK
<1>4. ASSUME NEW u \in Uploads, Stamp(u) PROVE TypeOK'
  <2>1. handler' \in [Uploads -> Handlers]
    BY <1>4 DEF Stamp, TypeOK, Handlers, Steps
  <2>2. clock' \in Int
    BY <1>4, ClockAssumption DEF Stamp, TypeOK
  <2>3. QED BY <1>4, <2>1, <2>2 DEF Stamp, TypeOK
<1>5. ASSUME NEW u \in Uploads, Add(u) PROVE TypeOK'
  <2>1. scans' = Append(scans, NewRow(u)) /\ NewRow(u) \in Rows
    BY <1>5, RowTypes DEF Add
  <2>2. scans' \in Seq(Rows)
    BY <2>1 DEF TypeOK
  <2>3. handler' \in [Uploads -> Handlers]
    <3>1. Len(scans) + 1 \in Nat
      BY DEF TypeOK
    <3>2. PICK pc \in Steps :
            handler' = [handler EXCEPT ![u].id = Len(scans) + 1, ![u].pc = pc]
      BY <1>5 DEF Add, Steps
    <3>3. handler \in [Uploads -> Handlers]
      BY DEF TypeOK
    <3>4. QED BY <3>1, <3>2, <3>3 DEF Handlers
  <2>4. QED BY <1>5, <2>2, <2>3 DEF Add, TypeOK
<1>6. ASSUME NEW u \in Uploads, SetArtifacts(u) PROVE TypeOK'
  <2>1. scans' \in Seq(Rows)
    BY <1>6, AttachedRow
  <2>2. handler' \in [Uploads -> Handlers]
    BY <1>6, HandlerTypes DEF SetArtifacts, Steps
  <2>3. QED BY <1>6, <2>1, <2>2 DEF SetArtifacts, TypeOK
<1>7. ASSUME NEW u \in Uploads, AddAuditEvent(u) PROVE TypeOK'
  <2>1. audit' = Append(audit, NewEvent(u)) /\ NewEvent(u) \in Events
    BY <1>7, RowTypes DEF AddAuditEvent
  <2>2. audit' \in Seq(Events)
    BY <2>1 DEF TypeOK
  <2>3. handler' \in [Uploads -> Handlers]
    BY <1>7, HandlerTypes DEF AddAuditEvent, Codes
  <2>4. QED BY <1>7, <2>2, <2>3 DEF AddAuditEvent, TypeOK
<1>8. ASSUME NEW u \in Uploads, ExecFails(u) PROVE TypeOK'
  <2>1. handler' \in [Uploads -> Handlers]
    BY <1>8, HandlerTypes DEF ExecFails, Codes
  <2>2. QED BY <1>8, <2>1 DEF ExecFails, TypeOK
<1>9. ASSUME NEW u \in Uploads, Respond(u) PROVE TypeOK'
  <2>1. handler' \in [Uploads -> Handlers]
    BY <1>9, HandlerTypes DEF Respond, Steps
  <2>2. client' \in [Uploads -> Clients]
    <3>1. client \in [Uploads -> Clients] /\ handler[u].id \in Nat
      BY DEF TypeOK, Handlers
    <3>2. \/ UNCHANGED client
          \/ client' = [client EXCEPT ![u] = [state |-> "uploaded", id |-> handler[u].id]]
          \/ client' = [client EXCEPT ![u] = [state |-> "failed", id |-> 0]]
      BY <1>9 DEF Respond
    <3>3. QED BY <3>1, <3>2 DEF Clients
  <2>3. QED BY <1>9, <2>1, <2>2 DEF Respond, TypeOK
<1>10. ASSUME Crash PROVE TypeOK'
  <2>1. handler' \in [Uploads -> Handlers]
    BY <1>10 DEF Crash, Idle, Handlers, Steps, Codes
  <2>2. client' \in [Uploads -> Clients]
    BY <1>10 DEF Crash, TypeOK, Clients
  <2>3. QED BY <1>10, <2>1, <2>2 DEF Crash, TypeOK
<1>11. ASSUME UNCHANGED vars PROVE TypeOK'
  BY <1>11 DEF vars, TypeOK
<1>12. QED
  BY <1>1, <1>2, <1>3, <1>4, <1>5, <1>6, <1>7, <1>8, <1>9, <1>10, <1>11
  DEF Next, Serve

-----------------------------------------------------------------------------
\* No statement removes anything: rows keep their request and stay complete
\* once they are, events are never touched.
TablesKept ==
  /\ request' = request
  /\ \A i \in DOMAIN scans :
       /\ i \in DOMAIN scans'
       /\ scans'[i].req = scans[i].req
       /\ \A u \in Uploads : Complete(scans[i], u) => Complete(scans[i], u)'
  /\ \A i \in DOMAIN audit : i \in DOMAIN audit' /\ audit'[i] = audit[i]

\* This step writes nothing for u.
NothingFor(u) ==
  /\ \A i \in DOMAIN scans' : scans'[i].req = u => i \in DOMAIN scans
  /\ \A i \in DOMAIN audit' : audit'[i].req = u => i \in DOMAIN audit

\* What an upload has left behind survives every step that only adds to it.
LEMMA SettledStays ==
  ASSUME TablesKept, NEW u \in Uploads, NEW id, Settled(u, id)
  PROVE  Settled(u, id)'
BY DEF TablesKept, Settled

\* A step that is not about u, and writes nothing for it, leaves its part of
\* the invariant alone.
LEMMA OthersKept ==
  ASSUME TablesKept, NEW u \in Uploads, HandlerInv(u), NothingFor(u),
         handler'[u] = handler[u], client'[u] = client[u]
  PROVE  HandlerInv(u)'
<1>1. \A id : Settled(u, id) => Settled(u, id)'
  BY SettledStays
<1>2. BeforeAdd(u)' = BeforeAdd(u) /\ BeforeAudit(u)' = BeforeAudit(u)
  BY DEF BeforeAdd, BeforeAudit
<1>3. (Authorized(u)) = (Authorized(u)')
  BY DEF TablesKept, Authorized, Header, AuthDisabled
<1>4. BeforeAdd(u) => \A i \in DOMAIN scans' : scans'[i].req # u
  BY DEF HandlerInv, TablesKept, NothingFor
<1>5. BeforeAudit(u) => \A i \in DOMAIN audit' : audit'[i].req # u
  BY DEF HandlerInv, TablesKept, NothingFor
<1>6. handler[u].pc \in {"SetArtifacts", "AddAuditEvent"} =>
        handler[u].id \in DOMAIN scans' /\ scans'[handler[u].id].req = u
  BY DEF HandlerInv, TablesKept
<1>7. handler[u].pc = "AddAuditEvent" => Complete(scans[handler[u].id], u)'
  BY DEF HandlerInv, TablesKept
<1>8. QED BY <1>1, <1>2, <1>3, <1>4, <1>5, <1>6, <1>7 DEF HandlerInv

\* Steps that write neither table.
LEMMA Unwritten ==
  ASSUME UNCHANGED <<request, scans, audit>>
  PROVE  /\ TablesKept
         /\ \A u \in Uploads : NothingFor(u)
         /\ RowsInv => RowsInv'
         /\ ArtifactsBelongToScan => ArtifactsBelongToScan'
         /\ EventsInv => EventsInv'
<1>1. TablesKept
  BY DEF TablesKept, Complete, Body
<1>2. \A u \in Uploads : NothingFor(u)
  BY DEF NothingFor
<1>3. RowsInv => RowsInv'
  BY DEF RowsInv, Authorized, Header, Body
<1>4. ArtifactsBelongToScan => ArtifactsBelongToScan'
  BY DEF ArtifactsBelongToScan, Body
<1>5. EventsInv => EventsInv'
  BY DEF EventsInv, Authorized, Header, Body, Actor, Complete
<1>6. QED BY <1>1, <1>2, <1>3, <1>4, <1>5
-----------------------------------------------------------------------------
\* A step of one upload that writes neither table keeps the invariant when it
\* keeps that upload's own part.
LEMMA OwnPartSuffices ==
  ASSUME IInv, TypeOK', NEW u \in Uploads, UNCHANGED <<request, scans, audit>>,
         \A v \in Uploads : v # u => handler'[v] = handler[v] /\ client'[v] = client[v],
         HandlerInv(u)'
  PROVE  IInv'
<1>1. \A v \in Uploads : v # u => HandlerInv(v)'
  BY Unwritten, OthersKept DEF IInv, HandlersInv
<1>2. HandlersInv'
  BY <1>1 DEF HandlersInv
<1>3. QED BY <1>2, Unwritten DEF IInv

\* Post: the request has not written anything yet.
LEMMA PostKeeps ==
  ASSUME IInv, TypeOK', NEW u \in Uploads, Post(u)
  PROVE  IInv'
<1>1. handler'[u].pc = "receive" /\ client'[u].state = "waiting"
  BY DEF Post, Goto, IInv, TypeOK
<1>2. BeforeAdd(u)
  BY DEF Post, BeforeAdd
<1>3. HandlerInv(u)'
  BY <1>1, <1>2 DEF HandlerInv, IInv, HandlersInv, Post, BeforeAdd, BeforeAudit
<1>4. \A v \in Uploads : v # u => handler'[v] = handler[v] /\ client'[v] = client[v]
  BY DEF Post, Goto, IInv, TypeOK
<1>5. UNCHANGED <<request, scans, audit>>
  BY DEF Post
<1>6. QED BY <1>3, <1>4, <1>5, OwnPartSuffices

\* A broken connection changes only what the client knows.
LEMMA DisconnectKeeps ==
  ASSUME IInv, TypeOK', NEW u \in Uploads, Disconnect(u)
  PROVE  IInv'
<1>1. client'[u].state = "failed" /\ handler'[u] = handler[u]
  BY DEF Disconnect, IInv, TypeOK
<1>2. UNCHANGED <<request, scans, audit>>
  BY DEF Disconnect
<1>3. HandlerInv(u)'
  BY <1>1, <1>2, Unwritten, SettledStays
  DEF HandlerInv, IInv, HandlersInv, Disconnect, BeforeAdd, BeforeAudit, Authorized,
      Header, Complete, Body
<1>4. \A v \in Uploads : v # u => handler'[v] = handler[v] /\ client'[v] = client[v]
  BY DEF Disconnect, IInv, TypeOK
<1>5. QED BY <1>2, <1>3, <1>4, OwnPartSuffices

\* basicAuth and the body checks: only authorized requests go on to Add.
LEMMA ReceiveKeeps ==
  ASSUME IInv, TypeOK', NEW u \in Uploads, Receive(u)
  PROVE  IInv'
<1>1. /\ handler[u].pc = "receive"
      /\ client[u].state # "ready"
      /\ UNCHANGED <<request, client, scans, audit>>
  BY DEF Receive, IInv, HandlersInv, HandlerInv
<1>2. \/ handler'[u].pc = "respond" /\ handler'[u].code \in {400, 401}
      \/ handler'[u].pc = "stamp" /\ Authorized(u)
  BY DEF Receive, Reply, Goto, IInv, TypeOK, Handlers
<1>3. HandlerInv(u)'
  <2>1. client[u].state = "uploaded" => Settled(u, client[u].id)'
    BY <1>1, Unwritten, SettledStays DEF IInv, HandlersInv, HandlerInv
  <2>2. QED BY <1>1, <1>2, <2>1
        DEF HandlerInv, IInv, HandlersInv, BeforeAdd, BeforeAudit, Authorized, Header
<1>4. \A v \in Uploads : v # u => handler'[v] = handler[v] /\ client'[v] = client[v]
  BY <1>1 DEF Receive, Reply, Goto, IInv, TypeOK
<1>5. QED BY <1>1, <1>3, <1>4, OwnPartSuffices

\* Reading the clock writes nothing.
LEMMA StampKeeps ==
  ASSUME IInv, TypeOK', NEW u \in Uploads, Stamp(u)
  PROVE  IInv'
<1>1. /\ handler[u].pc = "stamp"
      /\ client[u].state # "ready"
      /\ UNCHANGED <<request, client, scans, audit>>
  BY DEF Stamp, IInv, HandlersInv, HandlerInv
<1>2. handler'[u].pc = "Add"
  BY DEF Stamp, IInv, TypeOK, Handlers
<1>3. HandlerInv(u)'
  <2>1. client[u].state = "uploaded" => Settled(u, client[u].id)'
    BY <1>1, Unwritten, SettledStays DEF IInv, HandlersInv, HandlerInv
  <2>2. QED BY <1>1, <1>2, <2>1
        DEF HandlerInv, IInv, HandlersInv, BeforeAdd, BeforeAudit, Authorized, Header
<1>4. \A v \in Uploads : v # u => handler'[v] = handler[v] /\ client'[v] = client[v]
  BY <1>1 DEF Stamp, IInv, TypeOK
<1>5. QED BY <1>1, <1>3, <1>4, OwnPartSuffices

\* A failed statement ends the handler with 500 and takes nothing back.
LEMMA ExecFailsKeeps ==
  ASSUME IInv, TypeOK', NEW u \in Uploads, ExecFails(u)
  PROVE  IInv'
<1>1. /\ handler[u].pc # "none"
      /\ client[u].state # "ready"
      /\ UNCHANGED <<request, client, scans, audit>>
  BY DEF ExecFails, IInv, HandlersInv, HandlerInv
<1>2. handler'[u].pc = "respond" /\ handler'[u].code = 500
  BY DEF ExecFails, Reply, IInv, TypeOK, Handlers
<1>3. HandlerInv(u)'
  <2>1. client[u].state = "uploaded" => Settled(u, client[u].id)'
    BY <1>1, Unwritten, SettledStays DEF IInv, HandlersInv, HandlerInv
  <2>2. QED BY <1>1, <1>2, <2>1 DEF HandlerInv, BeforeAdd, BeforeAudit
<1>4. \A v \in Uploads : v # u => handler'[v] = handler[v] /\ client'[v] = client[v]
  BY <1>1 DEF ExecFails, Reply, IInv, TypeOK
<1>5. QED BY <1>1, <1>3, <1>4, OwnPartSuffices

\* The answer: a client is told 201 only about a settled upload.
LEMMA RespondKeeps ==
  ASSUME IInv, TypeOK', NEW u \in Uploads, Respond(u)
  PROVE  IInv'
<1>1. /\ handler[u].pc = "respond"
      /\ client[u].state # "ready"
      /\ UNCHANGED <<request, scans, audit>>
  BY DEF Respond, IInv, HandlersInv, HandlerInv
<1>2. handler'[u].pc = "none"
  BY DEF Respond, Goto, IInv, TypeOK, Handlers
<1>3. \/ client'[u].state = "failed"
      \/ client'[u] = client[u]
      \/ /\ client'[u] = [state |-> "uploaded", id |-> handler[u].id]
         /\ handler[u].code = 201
  BY DEF Respond, IInv, TypeOK
<1>4. HandlerInv(u)'
  <2>1. client'[u].state = "uploaded" => Settled(u, client'[u].id)
    BY <1>1, <1>3 DEF IInv, HandlersInv, HandlerInv
  <2>2. client'[u].state = "uploaded" => Settled(u, client[u].id)'
    BY <1>1, <2>1 DEF Settled, Complete, Body
  <2>3. client'[u].state # "ready"
    BY <1>1, <1>3
  <2>4. QED BY <1>2, <2>2, <2>3 DEF HandlerInv, BeforeAdd, BeforeAudit
<1>5. \A v \in Uploads : v # u => handler'[v] = handler[v] /\ client'[v] = client[v]
  BY DEF Respond, Goto, IInv, TypeOK
<1>6. QED BY <1>1, <1>4, <1>5, OwnPartSuffices

\* A restart loses the goroutines and nothing of the tables.
LEMMA CrashKeeps ==
  ASSUME IInv, TypeOK', Crash
  PROVE  IInv'
<1>1. UNCHANGED <<request, scans, audit>>
  BY DEF Crash
<1>2. ASSUME NEW u \in Uploads PROVE HandlerInv(u)'
  <2>1. handler'[u].pc = "none"
    BY DEF Crash, Idle
  <2>2. /\ client'[u].state = "ready" => client[u].state = "ready"
        /\ client'[u].state = "uploaded" => client'[u] = client[u]
    BY DEF Crash, IInv, TypeOK, Clients
  <2>3. client'[u].state = "uploaded" => Settled(u, client'[u].id)
    BY <2>2 DEF IInv, HandlersInv, HandlerInv
  <2>4. client'[u].state = "uploaded" => Settled(u, client[u].id)'
    BY <1>1, <2>3 DEF Settled, Complete, Body
  <2>5. QED BY <1>1, <2>1, <2>2, <2>4
        DEF IInv, HandlersInv, HandlerInv, BeforeAdd, BeforeAudit
<1>3. QED BY <1>1, <1>2, Unwritten DEF IInv, HandlersInv
-----------------------------------------------------------------------------
\* The row Add leaves behind, and the rest of the table.
LEMMA AddedRow ==
  ASSUME TypeOK, NEW u \in Uploads, Add(u), NEW n, n = Len(scans) + 1
  PROVE  /\ DOMAIN scans' = DOMAIN scans \cup {n}
         /\ n \notin DOMAIN scans
         /\ \A i \in DOMAIN scans : scans'[i] = scans[i]
         /\ scans'[n].req = u
         /\ scans'[n].project = Body(u).project
         /\ scans'[n].findings = Body(u).findings
         /\ scans'[n].sbom = ""
         /\ scans'[n].provenance = ""
<1>1. scans \in Seq(Rows) /\ scans' = Append(scans, NewRow(u)) /\ NewRow(u) \in Rows
  BY RowTypes DEF Add, TypeOK
<1>2. DOMAIN scans = 1..Len(scans) /\ DOMAIN scans' = 1..n
  BY <1>1
<1>3. scans'[n] = NewRow(u)
  BY <1>1
<1>4. /\ NewRow(u).req = u
      /\ NewRow(u).project = Body(u).project
      /\ NewRow(u).findings = Body(u).findings
      /\ NewRow(u).sbom = ""
      /\ NewRow(u).provenance = ""
  BY DEF NewRow
<1>5. /\ DOMAIN scans' = DOMAIN scans \cup {n}
      /\ n \notin DOMAIN scans
      /\ \A i \in DOMAIN scans : scans'[i] = scans[i]
  BY <1>1, <1>2
<1>6. QED BY <1>3, <1>4, <1>5

\* INSERT: a row of u's own at a new id, everything else as it was.
LEMMA AddKeeps ==
  ASSUME IInv, TypeOK', NEW u \in Uploads, Add(u)
  PROVE  IInv'
<1>0. PICK n : n = Len(scans) + 1
  OBVIOUS
<1>1. /\ handler[u].pc = "Add"
      /\ Authorized(u)
      /\ client[u].state # "ready"
      /\ \A i \in DOMAIN scans : scans[i].req # u
      /\ \A i \in DOMAIN audit : audit[i].req # u
      /\ UNCHANGED <<request, client, audit>>
  BY DEF Add, IInv, HandlersInv, HandlerInv, BeforeAdd, BeforeAudit
<1>2. /\ DOMAIN scans' = DOMAIN scans \cup {n}
      /\ n \notin DOMAIN scans
      /\ \A i \in DOMAIN scans : scans'[i] = scans[i]
      /\ scans'[n].req = u
  BY <1>0, AddedRow DEF IInv
<1>20. /\ scans'[n].project = Body(u).project
       /\ scans'[n].findings = Body(u).findings
       /\ scans'[n].sbom = ""
       /\ scans'[n].provenance = ""
  BY <1>0, AddedRow DEF IInv
<1>3. TablesKept
  BY <1>1, <1>2 DEF TablesKept, Complete, Body
<1>4. \A v \in Uploads : v # u => NothingFor(v)
  BY <1>1, <1>2 DEF NothingFor
<1>5. HandlerInv(u)'
  <2>1. /\ handler'[u].id = n
        /\ handler'[u].pc = IF HasArtifacts(u) THEN "SetArtifacts" ELSE "AddAuditEvent"
    BY <1>0 DEF Add, IInv, TypeOK, Handlers
  <2>2. ~HasArtifacts(u) => Complete(scans[n], u)'
    BY <1>1, <1>2, <1>20 DEF Complete, HasArtifacts, Body
  <2>3. (n \in DOMAIN scans /\ scans[n].req = u)'
    BY <1>2
  <2>4. client[u].state = "uploaded" => Settled(u, client[u].id)'
    BY <1>1, <1>3, SettledStays DEF IInv, HandlersInv, HandlerInv
  <2>5. Authorized(u)'
    BY <1>1 DEF Authorized, Header
  <2>6. handler'[u].pc = "AddAuditEvent" => Complete(scans[handler[u].id], u)'
    BY <2>1, <2>2
  <2>7. (handler[u].id \in DOMAIN scans /\ scans[handler[u].id].req = u)'
    BY <2>1, <2>3
  <2>8. QED BY <1>1, <2>1, <2>4, <2>5, <2>6, <2>7 DEF HandlerInv, BeforeAdd, BeforeAudit
<1>6. HandlersInv'
  <2>1. \A v \in Uploads : v # u => handler'[v] = handler[v] /\ client'[v] = client[v]
    BY DEF Add, IInv, TypeOK
  <2>2. QED BY <1>3, <1>4, <1>5, <2>1, OthersKept DEF IInv, HandlersInv
<1>7. RowsInv'
  <2>1. \A i \in DOMAIN scans' :
          /\ Authorized(scans'[i].req)
          /\ scans'[i].project = Body(scans'[i].req).project
          /\ scans'[i].findings = Body(scans'[i].req).findings
    BY <1>1, <1>2, <1>20 DEF IInv, RowsInv
  <2>2. \A i, j \in DOMAIN scans' : scans'[i].req = scans'[j].req => i = j
    BY <1>1, <1>2, <1>20 DEF IInv, RowsInv
  <2>3. QED BY <1>1, <2>1, <2>2 DEF RowsInv, Authorized, Header, Body
<1>8. ArtifactsBelongToScan'
  BY <1>1, <1>2, <1>20 DEF IInv, ArtifactsBelongToScan, Body
<1>9. EventsInv'
  BY <1>1, <1>2 DEF IInv, EventsInv, Authorized, Header, Actor, Complete, Body
<1>10. QED BY <1>6, <1>7, <1>8, <1>9 DEF IInv

\* UPDATE: the row is u's own, so no other upload loses anything by it.
LEMMA SetArtifactsKeeps ==
  ASSUME IInv, TypeOK', NEW u \in Uploads, SetArtifacts(u)
  PROVE  IInv'
<1>0. PICK id : id = handler[u].id
  OBVIOUS
<1>1. /\ handler[u].pc = "SetArtifacts"
      /\ Authorized(u)
      /\ client[u].state # "ready"
      /\ id \in DOMAIN scans
      /\ scans[id].req = u
      /\ \A i \in DOMAIN audit : audit[i].req # u
      /\ UNCHANGED <<request, client, audit>>
  BY <1>0 DEF SetArtifacts, IInv, HandlersInv, HandlerInv, BeforeAudit
<1>2. /\ DOMAIN scans' = DOMAIN scans
      /\ \A i \in DOMAIN scans : i # id => scans'[i] = scans[i]
      /\ scans'[id] = [scans[id] EXCEPT !.sbom = Body(u).sbom,
                                        !.provenance = Body(u).provenance]
  BY <1>0, AttachedRow DEF IInv
<1>3. /\ scans'[id].req = u
      /\ scans'[id].project = Body(u).project
      /\ scans'[id].findings = Body(u).findings
      /\ scans'[id].sbom = Body(u).sbom
      /\ scans'[id].provenance = Body(u).provenance
  <2>1. scans[id] \in Rows
    BY <1>1 DEF IInv, TypeOK
  <2>2. scans[id].project = Body(u).project /\ scans[id].findings = Body(u).findings
    BY <1>1 DEF IInv, RowsInv
  <2>3. QED BY <1>1, <1>2, <2>1, <2>2 DEF Rows
<1>4. Complete(scans[id], u)'
  BY <1>1, <1>3 DEF Complete, Body
<1>5. TablesKept
  <2>1. ASSUME NEW i \in DOMAIN scans
        PROVE  /\ scans'[i].req = scans[i].req
               /\ \A v \in Uploads : Complete(scans[i], v) => Complete(scans[i], v)'
    <3>1. CASE i # id
      BY <1>1, <1>2, <3>1 DEF Complete, Body
    <3>2. CASE i = id
      BY <1>1, <1>3, <1>4, <3>2 DEF Complete
    <3>3. QED BY <3>1, <3>2
  <2>2. QED BY <1>1, <1>2, <2>1 DEF TablesKept
<1>6. \A v \in Uploads : NothingFor(v)
  BY <1>1, <1>2 DEF NothingFor
<1>7. HandlerInv(u)'
  <2>1. handler'[u].id = id /\ handler'[u].pc = "AddAuditEvent"
    BY <1>0 DEF SetArtifacts, Goto, IInv, TypeOK, Handlers
  <2>2. client[u].state = "uploaded" => Settled(u, client[u].id)'
    BY <1>1, <1>5, SettledStays DEF IInv, HandlersInv, HandlerInv
  <2>3. Authorized(u)'
    BY <1>1 DEF Authorized, Header
  <2>4. Complete(scans[handler[u].id], u)'
    BY <1>4, <2>1
  <2>5. (handler[u].id \in DOMAIN scans /\ scans[handler[u].id].req = u)'
    BY <1>1, <1>2, <1>3, <2>1
  <2>6. QED BY <1>1, <2>1, <2>2, <2>3, <2>4, <2>5 DEF HandlerInv, BeforeAdd, BeforeAudit
<1>8. HandlersInv'
  <2>1. \A v \in Uploads : v # u => handler'[v] = handler[v] /\ client'[v] = client[v]
    BY DEF SetArtifacts, Goto, IInv, TypeOK
  <2>2. QED BY <1>5, <1>6, <1>7, <2>1, OthersKept DEF IInv, HandlersInv
<1>9. RowsInv'
  <2>1. \A i \in DOMAIN scans : /\ scans'[i].req = scans[i].req
                                /\ scans'[i].project = scans[i].project
                                /\ scans'[i].findings = scans[i].findings
    BY <1>1, <1>2, <1>3 DEF IInv, RowsInv
  <2>2. QED BY <1>1, <1>2, <2>1 DEF IInv, RowsInv, Authorized, Header, Body
<1>10. ArtifactsBelongToScan'
  <2>1. \A i \in DOMAIN scans' : i # id => scans'[i] = scans[i]
    BY <1>2
  <2>2. QED BY <1>1, <1>2, <1>3, <2>1 DEF IInv, ArtifactsBelongToScan, Body
<1>11. EventsInv'
  <2>1. \A i \in DOMAIN audit : Complete(scans[audit[i].scan], audit[i].req)'
    <3>1. ASSUME NEW i \in DOMAIN audit
          PROVE  /\ audit[i].scan \in DOMAIN scans
                 /\ audit[i].req \in Uploads
                 /\ Complete(scans[audit[i].scan], audit[i].req)
      BY EventTypes DEF IInv, EventsInv
    <3>2. \A i \in DOMAIN audit : audit'[i] = audit[i]
      BY <1>1
    <3>3. QED BY <1>5, <3>1, <3>2 DEF TablesKept
  <2>2. QED BY <1>1, <1>2, <2>1 DEF IInv, EventsInv, Authorized, Header, Actor
<1>12. QED BY <1>8, <1>9, <1>10, <1>11 DEF IInv

\* The audit log grows by an event for a row that is already complete.
LEMMA AddAuditEventKeeps ==
  ASSUME IInv, TypeOK', NEW u \in Uploads, AddAuditEvent(u)
  PROVE  IInv'
<1>0. PICK n : n = Len(audit) + 1
  OBVIOUS
<1>1. /\ handler[u].pc = "AddAuditEvent"
      /\ Authorized(u)
      /\ client[u].state # "ready"
      /\ handler[u].id \in DOMAIN scans
      /\ Complete(scans[handler[u].id], u)
      /\ \A i \in DOMAIN audit : audit[i].req # u
      /\ UNCHANGED <<request, client, scans>>
  BY DEF AddAuditEvent, IInv, HandlersInv, HandlerInv, BeforeAudit
<1>2. /\ DOMAIN audit' = DOMAIN audit \cup {n}
      /\ n \notin DOMAIN audit
      /\ \A i \in DOMAIN audit : audit'[i] = audit[i]
      /\ audit'[n] = NewEvent(u)
  <2>1. /\ audit \in Seq(Events)
        /\ audit' = Append(audit, NewEvent(u))
        /\ NewEvent(u) \in Events
    BY RowTypes DEF AddAuditEvent, IInv, TypeOK
  <2>2. DOMAIN audit = 1..Len(audit) /\ DOMAIN audit' = 1..n
    BY <1>0, <2>1
  <2>3. QED BY <1>0, <2>1, <2>2
<1>3. TablesKept
  BY <1>1, <1>2 DEF TablesKept, Complete, Body
<1>4. \A v \in Uploads : v # u => NothingFor(v)
  BY <1>1, <1>2 DEF NothingFor, NewEvent
<1>5. HandlerInv(u)'
  <2>1. handler'[u].id = handler[u].id /\ handler'[u].pc = "respond"
    BY DEF AddAuditEvent, Reply, IInv, TypeOK, Handlers
  <2>2. Settled(u, handler[u].id)'
    <3>1. n \in DOMAIN audit' /\ audit'[n].req = u /\ audit'[n].scan = handler[u].id
      BY <1>2 DEF NewEvent
    <3>2. Complete(scans[handler[u].id], u)'
      BY <1>1, <2>1 DEF Complete, Body
    <3>3. QED BY <1>1, <2>1, <3>1, <3>2 DEF Settled
  <2>3. client[u].state = "uploaded" => Settled(u, client[u].id)'
    BY <1>1, <1>3, SettledStays DEF IInv, HandlersInv, HandlerInv
  <2>4. QED BY <1>1, <2>1, <2>2, <2>3 DEF HandlerInv, BeforeAdd, BeforeAudit
<1>6. HandlersInv'
  <2>1. \A v \in Uploads : v # u => handler'[v] = handler[v] /\ client'[v] = client[v]
    BY DEF AddAuditEvent, Reply, IInv, TypeOK
  <2>2. QED BY <1>3, <1>4, <1>5, <2>1, OthersKept DEF IInv, HandlersInv
<1>7. RowsInv' /\ ArtifactsBelongToScan'
  BY <1>1 DEF IInv, RowsInv, ArtifactsBelongToScan, Authorized, Header, Body
<1>8. EventsInv'
  <2>1. \A i \in DOMAIN audit' :
          /\ Authorized(audit'[i].req)
          /\ audit'[i].actor = Actor(audit'[i].req)
          /\ audit'[i].scan \in DOMAIN scans
          /\ Complete(scans[audit'[i].scan], audit'[i].req)
    BY <1>1, <1>2 DEF IInv, EventsInv, NewEvent
  <2>2. \A i, j \in DOMAIN audit' : audit'[i].req = audit'[j].req => i = j
    BY <1>1, <1>2 DEF IInv, EventsInv, NewEvent
  <2>3. QED BY <1>1, <2>1, <2>2 DEF EventsInv, Authorized, Header, Actor, Complete, Body
<1>9. QED BY <1>6, <1>7, <1>8 DEF IInv
-----------------------------------------------------------------------------
\* Nothing is stored and nobody is served at the start.
LEMMA InvInit == Init => IInv
<1> SUFFICES ASSUME Init PROVE IInv
  OBVIOUS
<1>1. DOMAIN scans = {} /\ DOMAIN audit = {}
  BY DEF Init
<1>2. HandlersInv
  BY <1>1 DEF Init, Idle, HandlersInv, HandlerInv, BeforeAdd, BeforeAudit
<1>3. RowsInv /\ ArtifactsBelongToScan /\ EventsInv
  BY <1>1 DEF RowsInv, ArtifactsBelongToScan, EventsInv
<1>4. QED BY <1>2, <1>3, TypeInit DEF IInv

\* The invariant is inductive: one lemma for each step of the handler.
LEMMA InvNext == IInv /\ [Next]_vars => IInv'
<1> SUFFICES ASSUME IInv, [Next]_vars PROVE IInv'
  OBVIOUS
<1>1. TypeOK'
  BY TypeNext DEF IInv
<1>2. CASE UNCHANGED vars
  <2>1. UNCHANGED <<request, scans, audit>> /\ UNCHANGED <<handler, client>>
    BY <1>2 DEF vars
  <2>2. HandlersInv'
    BY <2>1, Unwritten, OthersKept DEF IInv, HandlersInv
  <2>3. QED BY <1>1, <2>1, <2>2, Unwritten DEF IInv
<1>3. CASE Next
  BY <1>1, <1>3, PostKeeps, DisconnectKeeps, ReceiveKeeps, StampKeeps, AddKeeps,
     SetArtifactsKeeps, AddAuditEventKeeps, ExecFailsKeeps, RespondKeeps, CrashKeeps
  DEF Next, Serve
<1>4. QED BY <1>2, <1>3

\* The statements' effects stay until the answer, in every run of the portal.
THEOREM Invariance == Spec => []IInv
<1>1. QED BY InvInit, InvNext, PTL DEF Spec

\* The tables, the goroutines and the clients keep the shape the code gives
\* them (the columns of store.go, the local variables of handleIngest).
THEOREM TypeCorrect == Spec => []TypeOK
<1>1. IInv => TypeOK
  BY DEF IInv
<1>2. QED BY <1>1, Invariance, PTL

\* A 201 means the scan, its documents and its audit event are all stored.
THEOREM AckedDurable == Spec => []AckedIsDurable
<1>1. IInv => AckedIsDurable
  BY DEF IInv, HandlersInv, HandlerInv, Settled, AckedIsDurable, Logged
<1>2. QED BY <1>1, Invariance, PTL

\* No row ever carries another upload's SBOM or provenance.
THEOREM NoCrossTalk == Spec => []ArtifactsBelongToScan
<1>1. IInv => ArtifactsBelongToScan
  BY DEF IInv
<1>2. QED BY <1>1, Invariance, PTL

\* Whatever the log names was stored whole before, and is named once.
THEOREM AuditIsTrue == Spec => []AuditNamesCompleteScan
<1>1. IInv => AuditNamesCompleteScan
  BY DEF IInv, EventsInv, AuditNamesCompleteScan, Complete
<1>2. QED BY <1>1, Invariance, PTL

\* One POST stores at most one row.
THEOREM AtMostOnce == Spec => []OneRowPerRequest
<1>1. IInv => OneRowPerRequest
  BY DEF IInv, RowsInv, OneRowPerRequest
<1>2. QED BY <1>1, Invariance, PTL

\* With authentication on, nothing is stored or logged for anyone else.
THEOREM Authenticated == Spec => []OnlyAuthenticatedIngest
<1>1. ASSUME IInv, ~AuthDisabled PROVE OnlyAuthenticatedIngest
  <2>1. \A i \in DOMAIN scans : Header(scans[i].req) = <<PortalUser, PortalPass>>
    BY <1>1 DEF IInv, RowsInv, Authorized
  <2>2. ASSUME NEW i \in DOMAIN audit PROVE audit[i].actor = PortalUser
    <3>1. /\ audit[i].req \in Uploads
          /\ audit[i].actor = Actor(audit[i].req)
          /\ Header(audit[i].req) = <<PortalUser, PortalPass>>
      BY <1>1, EventTypes DEF IInv, EventsInv, Authorized
    <3>2. Header(audit[i].req) # NoHeader
      BY <3>1, HeaderAssumption
    <3>3. QED BY <3>1, <3>2 DEF Actor
  <2>3. QED BY <2>1, <2>2 DEF OnlyAuthenticatedIngest
<1>2. IInv => OnlyAuthenticatedIngest
  BY <1>1 DEF OnlyAuthenticatedIngest
<1>3. QED BY <1>2, Invariance, PTL
-----------------------------------------------------------------------------
(* The handler implements the ledger: every step of clients, handlers and    *)
(* crashes is one stage of one upload or none.                               *)

\* Whatever belongs to v in the two tables is as it was.
SameRows(v) ==
  /\ \A i \in DOMAIN scans : i \in DOMAIN scans' /\ scans'[i].req = scans[i].req
  /\ \A i \in DOMAIN scans : scans[i].req = v => scans'[i] = scans[i]

\* An upload stays at its stage while neither its rows, its events nor its
\* client's success change.
LEMMA StageStays ==
  ASSUME TablesKept, NEW v \in Uploads, NothingFor(v), SameRows(v),
         (client'[v].state = "uploaded") <=> (client[v].state = "uploaded")
  PROVE  Stage(v)' = Stage(v)
<1>1. Stored(v)' = Stored(v)
  BY DEF Stored, SameRows, NothingFor
<1>2. Logged(v)' = Logged(v)
  BY DEF Logged, TablesKept, NothingFor
<1>3. \A i \in Stored(v) : (Complete(scans[i], v))' <=> Complete(scans[i], v)
  BY DEF Stored, SameRows, Complete, Body, TablesKept
<1>4. (\E i \in Stored(v) : Complete(scans[i], v))' <=>
        \E i \in Stored(v) : Complete(scans[i], v)
  BY <1>1, <1>3
<1>5. QED BY <1>1, <1>2, <1>4 DEF Stage

\* Steps that write neither table and make no client succeed: Post, a broken
\* connection, the steps of a handler between its statements, a crash.
LEMMA UnwrittenStays ==
  ASSUME UNCHANGED <<request, scans, audit>>,
         \A v \in Uploads : (client'[v].state = "uploaded") <=> (client[v].state = "uploaded")
  PROVE  stages' = stages
<1>1. TablesKept /\ \A v \in Uploads : NothingFor(v)
  BY Unwritten
<1>2. \A v \in Uploads : SameRows(v)
  BY DEF SameRows
<1>3. \A v \in Uploads : Stage(v)' = Stage(v)
  BY <1>1, <1>2, StageStays
<1>4. QED BY <1>3 DEF stages

\* Only u changes its stage.
LEMMA OneAdvances ==
  ASSUME NEW u \in Uploads, NEW to, Stage(u)' = to,
         \A v \in Uploads : v # u => Stage(v)' = Stage(v)
  PROVE  stages' = [stages EXCEPT ![u] = to]
BY DEF stages

\* An upload nobody has acknowledged or logged, and one with no row at all.
LEMMA NotYetLogged ==
  ASSUME IInv, NEW u \in Uploads, BeforeAudit(u)
  PROVE  client[u].state # "uploaded" /\ Logged(u) = {}
<1>1. \A i \in DOMAIN audit : audit[i].req # u
  BY DEF IInv, HandlersInv, HandlerInv
<1>2. client[u].state # "uploaded"
  BY <1>1 DEF IInv, HandlersInv, HandlerInv, Settled
<1>3. QED BY <1>1, <1>2 DEF Logged

\* Add's INSERT records the upload; without documents it is complete at once.
LEMMA AddAdvances ==
  ASSUME IInv, NEW u \in Uploads, Add(u)
  PROVE  Ledger!Record(u)
<1>0. PICK n : n = Len(scans) + 1
  OBVIOUS
<1>1. /\ handler[u].pc = "Add"
      /\ client[u].state # "uploaded" /\ Logged(u) = {}
      /\ \A i \in DOMAIN scans : scans[i].req # u
      /\ UNCHANGED <<request, client, audit>>
  BY NotYetLogged DEF Add, IInv, HandlersInv, HandlerInv, BeforeAdd, BeforeAudit
<1>2. /\ DOMAIN scans' = DOMAIN scans \cup {n}
      /\ n \notin DOMAIN scans
      /\ \A i \in DOMAIN scans : scans'[i] = scans[i]
      /\ scans'[n].req = u
  BY <1>0, AddedRow DEF IInv
<1>3. TablesKept
  BY <1>1, <1>2 DEF TablesKept, Complete, Body
<1>4. \A v \in Uploads : v # u => Stage(v)' = Stage(v)
  <2>1. \A v \in Uploads : v # u => NothingFor(v) /\ SameRows(v)
    BY <1>1, <1>2 DEF NothingFor, SameRows
  <2>2. QED BY <1>1, <1>3, <2>1, StageStays
<1>5. Stage(u) = "absent"
  BY <1>1 DEF Stage, Stored
<1>6. Stage(u)' \in {"recorded", "complete"}
  <2>1. n \in Stored(u)'
    BY <1>2 DEF Stored
  <2>2. client'[u].state # "uploaded" /\ Logged(u)' = {}
    BY <1>1 DEF Logged
  <2>3. QED BY <2>1, <2>2 DEF Stage
<1>7. stages' = [stages EXCEPT ![u] = Stage(u)']
  BY <1>4, OneAdvances
<1>8. stages[u] = "absent"
  BY <1>5 DEF stages
<1>9. QED BY <1>6, <1>7, <1>8 DEF Ledger!Record, Ledger!Advance

\* SetArtifacts completes the row its upload has recorded.
LEMMA SetArtifactsAdvances ==
  ASSUME IInv, NEW u \in Uploads, SetArtifacts(u)
  PROVE  Ledger!Complete(u) \/ stages' = stages
<1> DEFINE id == handler[u].id
<1>1. /\ id \in DOMAIN scans /\ scans[id].req = u
      /\ client[u].state # "uploaded" /\ Logged(u) = {}
      /\ UNCHANGED <<request, client, audit>>
  BY NotYetLogged DEF SetArtifacts, IInv, HandlersInv, HandlerInv, BeforeAudit
<1>2. /\ DOMAIN scans' = DOMAIN scans
      /\ \A i \in DOMAIN scans : i # id => scans'[i] = scans[i]
      /\ scans'[id] = [scans[id] EXCEPT !.sbom = Body(u).sbom,
                                        !.provenance = Body(u).provenance]
  BY AttachedRow DEF IInv
<1>3. scans[id] \in Rows
  BY <1>1 DEF IInv, TypeOK
<1>4. /\ scans'[id].req = u
      /\ scans'[id].project = scans[id].project
      /\ scans'[id].findings = scans[id].findings
      /\ scans'[id].sbom = Body(u).sbom
      /\ scans'[id].provenance = Body(u).provenance
  BY <1>1, <1>2, <1>3 DEF Rows
<1>5. (Complete(scans[id], u))'
  <2>1. id' = id
    BY DEF SetArtifacts, Goto, IInv, TypeOK, Handlers
  <2>2. scans[id].project = Body(u).project /\ scans[id].findings = Body(u).findings
    BY <1>1 DEF IInv, RowsInv
  <2>3. QED BY <1>1, <1>4, <2>1, <2>2 DEF Complete, Body
<1>6. \A v \in Uploads : v # u => Stage(v)' = Stage(v)
  <2>1. ASSUME NEW v \in Uploads, v # u PROVE NothingFor(v) /\ SameRows(v)
    BY <1>1, <1>2, <1>4, <2>1 DEF NothingFor, SameRows
  <2>2. TablesKept
    <3>1. ASSUME NEW i \in DOMAIN scans, NEW v \in Uploads, Complete(scans[i], v)
          PROVE  (Complete(scans[i], v))'
      <4>1. CASE i # id
        BY <1>1, <1>2, <3>1, <4>1 DEF Complete, Body
      <4>2. CASE i = id
        <5>1. v = u
          BY <1>1, <3>1, <4>2 DEF Complete
        <5>2. i = id'
          BY <4>2 DEF SetArtifacts, Goto, IInv, TypeOK, Handlers
        <5>3. QED BY <1>5, <5>1, <5>2
      <4>3. QED BY <4>1, <4>2
    <3>2. \A i \in DOMAIN scans : i \in DOMAIN scans' /\ scans'[i].req = scans[i].req
      BY <1>1, <1>2, <1>4
    <3>3. QED BY <1>1, <3>1, <3>2 DEF TablesKept
  <2>3. QED BY <1>1, <2>1, <2>2, StageStays
<1>7. Stage(u)' = "complete"
  <2>1. id' = id
    BY DEF SetArtifacts, Goto, IInv, TypeOK, Handlers
  <2>2. \E i \in Stored(u)' : (Complete(scans[i], u))'
    BY <1>1, <1>2, <1>4, <1>5, <2>1 DEF Stored
  <2>3. client'[u].state # "uploaded" /\ Logged(u)' = {}
    BY <1>1 DEF Logged
  <2>4. QED BY <2>2, <2>3 DEF Stage
<1>8. Stage(u) \in {"recorded", "complete"}
  <2>1. id \in Stored(u)
    BY <1>1 DEF Stored
  <2>2. QED BY <1>1, <2>1 DEF Stage
<1>9. stages[u] = Stage(u) /\ stages = [stages EXCEPT ![u] = Stage(u)]
  BY DEF stages
<1>10. stages' = [stages EXCEPT ![u] = "complete"]
  BY <1>6, <1>7, OneAdvances
<1>11. QED BY <1>8, <1>9, <1>10 DEF Ledger!Complete, Ledger!Advance

\* The audit event is a stage of its own.
LEMMA AddAuditEventAdvances ==
  ASSUME IInv, NEW u \in Uploads, AddAuditEvent(u)
  PROVE  Ledger!Audit(u)
<1>0. PICK n : n = Len(audit) + 1
  OBVIOUS
<1>1. /\ client[u].state # "uploaded" /\ Logged(u) = {}
      /\ handler[u].id \in DOMAIN scans
      /\ Complete(scans[handler[u].id], u)
      /\ UNCHANGED <<request, client, scans>>
  BY NotYetLogged DEF AddAuditEvent, IInv, HandlersInv, HandlerInv, BeforeAudit
<1>2. /\ DOMAIN audit' = DOMAIN audit \cup {n}
      /\ \A i \in DOMAIN audit : audit'[i] = audit[i]
      /\ audit'[n] = NewEvent(u)
  <2>1. /\ audit \in Seq(Events)
        /\ audit' = Append(audit, NewEvent(u))
        /\ NewEvent(u) \in Events
    BY RowTypes DEF AddAuditEvent, IInv, TypeOK
  <2>2. DOMAIN audit = 1..Len(audit) /\ DOMAIN audit' = 1..n
    BY <1>0, <2>1
  <2>3. QED BY <1>0, <2>1, <2>2
<1>3. audit'[n].req = u
  BY <1>2 DEF NewEvent
<1>4. \A v \in Uploads : v # u => Stage(v)' = Stage(v)
  <2>1. TablesKept
    BY <1>1, <1>2 DEF TablesKept, Complete, Body
  <2>2. \A v \in Uploads : v # u => NothingFor(v) /\ SameRows(v)
    BY <1>1, <1>2, <1>3 DEF NothingFor, SameRows
  <2>3. QED BY <1>1, <2>1, <2>2, StageStays
<1>5. Stage(u) = "complete"
  <2>1. handler[u].id \in Stored(u)
    BY <1>1 DEF Stored, Complete
  <2>2. QED BY <1>1, <2>1 DEF Stage
<1>6. Stage(u)' = "audited"
  <2>1. n \in Logged(u)'
    BY <1>2, <1>3 DEF Logged
  <2>2. QED BY <1>1, <2>1 DEF Stage
<1>7. stages' = [stages EXCEPT ![u] = "audited"]
  BY <1>4, <1>6, OneAdvances
<1>8. stages[u] = "complete"
  BY <1>5 DEF stages
<1>9. QED BY <1>7, <1>8 DEF Ledger!Audit, Ledger!Advance

\* A 201 that reaches its client acknowledges the upload; no other answer
\* changes a stage.
LEMMA RespondAdvances ==
  ASSUME IInv, NEW u \in Uploads, Respond(u)
  PROVE  Ledger!Acknowledge(u) \/ stages' = stages
<1>1. UNCHANGED <<request, scans, audit>>
  BY DEF Respond
<1>2. \A v \in Uploads : v # u => client'[v] = client[v]
  BY DEF Respond, IInv, TypeOK
<1>3. CASE client[u].state = "waiting" /\ handler[u].code = 201
  <2>1. client'[u].state = "uploaded"
    BY <1>3 DEF Respond, IInv, TypeOK
  <2>2. Logged(u) # {}
    BY <1>3 DEF Respond, IInv, HandlersInv, HandlerInv, Settled, Logged
  <2>3. Stage(u) = "audited" /\ Stage(u)' = "acknowledged"
    BY <1>3, <2>1, <2>2 DEF Stage
  <2>4. \A v \in Uploads : v # u => Stage(v)' = Stage(v)
    <3>1. TablesKept /\ \A v \in Uploads : NothingFor(v) /\ SameRows(v)
      BY <1>1, Unwritten DEF SameRows
    <3>2. QED BY <1>2, <3>1, StageStays
  <2>5. stages' = [stages EXCEPT ![u] = "acknowledged"]
    BY <2>3, <2>4, OneAdvances
  <2>6. stages[u] = "audited"
    BY <2>3 DEF stages
  <2>7. QED BY <2>5, <2>6 DEF Ledger!Acknowledge, Ledger!Advance
<1>4. CASE ~(client[u].state = "waiting" /\ handler[u].code = 201)
  <2>1. (client'[u].state = "uploaded") <=> (client[u].state = "uploaded")
    BY <1>4 DEF Respond, IInv, TypeOK
  <2>2. QED BY <1>1, <1>2, <2>1, UnwrittenStays
<1>5. QED BY <1>3, <1>4

\* A broken connection or a crash never makes a client succeed.
LEMMA OthersStay ==
  ASSUME IInv, NEW u \in Uploads,
         \/ Post(u) \/ Disconnect(u) \/ Receive(u) \/ Stamp(u) \/ ExecFails(u) \/ Crash
  PROVE  stages' = stages
<1>1. UNCHANGED <<request, scans, audit>>
  BY DEF Post, Disconnect, Receive, Stamp, ExecFails, Crash
<1>2. \A v \in Uploads : (client'[v].state = "uploaded") <=> (client[v].state = "uploaded")
  <2>1. CASE Post(u) \/ Disconnect(u)
    BY <2>1 DEF Post, Disconnect, IInv, TypeOK, Clients
  <2>2. CASE Crash
    BY <2>2 DEF Crash, IInv, TypeOK, Clients
  <2>3. CASE Receive(u) \/ Stamp(u) \/ ExecFails(u)
    BY <2>3 DEF Receive, Stamp, ExecFails
  <2>4. QED BY <2>1, <2>2, <2>3
<1>3. QED BY <1>1, <1>2, UnwrittenStays
-----------------------------------------------------------------------------
\* Nothing is stored, logged or acknowledged at the start.
LEMMA LedgerInit == Init => Ledger!Init
<1> SUFFICES ASSUME Init PROVE Ledger!Init
  OBVIOUS
<1>1. DOMAIN scans = {} /\ DOMAIN audit = {}
  BY DEF Init
<1>2. \A u \in Uploads : Stored(u) = {} /\ Logged(u) = {}
  BY <1>1 DEF Stored, Logged
<1>3. \A u \in Uploads : client[u].state = "ready"
  BY DEF Init
<1>4. \A u \in Uploads : Stage(u) = "absent"
  BY <1>2, <1>3 DEF Stage
<1>5. QED BY <1>4 DEF stages, Ledger!Init

\* Every step of the portal and its clients is a step of the ledger or none.
LEMMA LedgerStep == IInv /\ [Next]_vars => [Ledger!Next]_stages
<1> SUFFICES ASSUME IInv, [Next]_vars PROVE Ledger!Next \/ stages' = stages
  OBVIOUS
<1>1. CASE UNCHANGED vars
  BY <1>1, UnwrittenStays DEF vars
<1>2. ASSUME NEW u \in Uploads, Add(u) \/ AddAuditEvent(u) PROVE Ledger!Next
  BY <1>2, AddAdvances, AddAuditEventAdvances DEF Ledger!Next
<1>3. ASSUME NEW u \in Uploads, SetArtifacts(u) \/ Respond(u)
      PROVE  Ledger!Next \/ stages' = stages
  BY <1>3, SetArtifactsAdvances, RespondAdvances DEF Ledger!Next
<1>4. ASSUME NEW u \in Uploads,
             Post(u) \/ Disconnect(u) \/ Receive(u) \/ Stamp(u) \/ ExecFails(u)
      PROVE  stages' = stages
  BY <1>4, OthersStay
<1>5. CASE Crash
  BY <1>5, OthersStay DEF Crash
<1>6. QED BY <1>1, <1>2, <1>3, <1>4, <1>5 DEF Next, Serve

\* The handler implements the ledger: each upload is recorded, completed,
\* logged and acknowledged in this order, and never falls back.
THEOREM LedgerImplemented == Spec => ImplementsLedger
<1>1. QED BY LedgerInit, LedgerStep, Invariance, PTL
      DEF Spec, ImplementsLedger, Ledger!Spec
-----------------------------------------------------------------------------
(* The dashboard: the list has every scan once and leads to it, the report   *)
(* has a newest scan of every project and none that was superseded.          *)
-----------------------------------------------------------------------------
(* Sorting.                                                                  *)

\* Some numbers have a least one.
LEMMA Least ==
  ASSUME NEW S \in SUBSET Nat, S # {}
  PROVE  \E x \in S : \A y \in S : x <= y
<1>1. PICK x \in S : \A y \in S : ~(<<y, x>> \in OpToRel(<, Nat))
  BY WFMin, NatLessThanWellFounded, Zenon
<1>2. \A y \in S : ~(y < x)
  BY <1>1, Zenon DEF OpToRel
<1>3. \A y \in S : x <= y
  BY <1>2
<1> QED
  BY <1>3

\* One row more finds its place in a sorted list.
LEMMA Inserted ==
  ASSUME NEW R, NEW m \in Nat, NEW s \in [1..m -> 1..m],
         \A i, j \in 1..(m + 1) : i = j \/ <<i, j>> \in R \/ <<j, i>> \in R,
         \A i, j, k \in 1..(m + 1) : <<i, j>> \in R /\ <<j, k>> \in R => <<i, k>> \in R,
         \A k, l \in 1..m : k < l => <<s[k], s[l]>> \in R
  PROVE  \E t \in [1..(m + 1) -> 1..(m + 1)] :
           \A k, l \in 1..(m + 1) : k < l => <<t[k], t[l]>> \in R
<1> DEFINE S == {p \in 0..m : p < m => <<s[p + 1], m + 1>> \notin R}
<1>1. S \in SUBSET Nat /\ m \in S
  OBVIOUS
<1>2. PICK p \in S : \A q \in S : p <= q
  BY <1>1, Least
<1>3. p \in 0..m /\ (p < m => <<s[p + 1], m + 1>> \notin R)
  BY <1>2
<1>4. ASSUME NEW k \in 1..m, k <= p PROVE <<s[k], m + 1>> \in R
  <2>1. k - 1 \in 0..m /\ k - 1 < m /\ ~(p <= k - 1) /\ (k - 1) + 1 = k
    BY <1>3, <1>4
  <2>2. k - 1 \notin S
    BY <1>2, <2>1
  <2> QED
    BY <2>1, <2>2
<1>5. ASSUME NEW k \in 1..m, p < k PROVE <<m + 1, s[k]>> \in R
  <2>1. p < m /\ p + 1 \in 1..m /\ p + 1 <= k
    BY <1>3, <1>5
  <2>2. /\ s[p + 1] \in 1..(m + 1) /\ s[k] \in 1..(m + 1) /\ m + 1 \in 1..(m + 1)
        /\ s[p + 1] # m + 1
    <3>1. s[p + 1] \in 1..m /\ s[k] \in 1..m
      BY <2>1
    <3> QED
      BY <3>1
  <2>3. <<m + 1, s[p + 1]>> \in R
    BY <1>3, <2>1, <2>2
  <2>4. p + 1 = k \/ <<s[p + 1], s[k]>> \in R
    BY <2>1
  <2> QED
    BY <2>2, <2>3, <2>4
<1> HIDE DEF S
<1> DEFINE t == [k \in 1..(m + 1) |-> IF k <= p THEN s[k]
                                      ELSE IF k = p + 1 THEN m + 1 ELSE s[k - 1]]
<1>6. t \in [1..(m + 1) -> 1..(m + 1)]
  <2>1. ASSUME NEW k \in 1..(m + 1) PROVE t[k] \in 1..(m + 1)
    <3>1. CASE k <= p
      <4>1. k \in 1..m /\ t[k] = s[k]
        BY <1>3, <3>1
      <4>2. s[k] \in 1..m
        BY <4>1
      <4> QED
        BY <4>1, <4>2
    <3>2. CASE k = p + 1
      BY <1>3, <3>2
    <3>3. CASE k > p + 1
      <4>1. k - 1 \in 1..m /\ t[k] = s[k - 1]
        BY <1>3, <3>3
      <4>2. s[k - 1] \in 1..m
        BY <4>1
      <4> QED
        BY <4>1, <4>2
    <3> QED
      BY <1>3, <3>1, <3>2, <3>3
  <2> QED
    BY <2>1
<1>7. ASSUME NEW k \in 1..(m + 1), NEW l \in 1..(m + 1), k < l
      PROVE  <<t[k], t[l]>> \in R
  <2>1. CASE l <= p
    BY <1>3, <1>7, <2>1
  <2>2. CASE l = p + 1
    BY <1>3, <1>4, <1>7, <2>2
  <2>3. CASE k <= p /\ l > p + 1
    <3>1. k \in 1..m /\ l - 1 \in 1..m /\ k < l - 1 /\ t[k] = s[k] /\ t[l] = s[l - 1]
      BY <1>3, <1>7, <2>3
    <3> QED
      BY <3>1
  <2>4. CASE k = p + 1
    <3>1. l - 1 \in 1..m /\ p < l - 1 /\ t[k] = m + 1 /\ t[l] = s[l - 1]
      BY <1>3, <1>7, <2>4
    <3> QED
      BY <1>5, <3>1
  <2>5. CASE k > p + 1
    <3>1. /\ k - 1 \in 1..m /\ l - 1 \in 1..m /\ k - 1 < l - 1
          /\ t[k] = s[k - 1] /\ t[l] = s[l - 1]
      BY <1>3, <1>7, <2>5
    <3> QED
      BY <3>1
  <2> QED
    BY <1>3, <1>7, <2>1, <2>2, <2>3, <2>4, <2>5
<1> HIDE DEF t
<1> QED
  BY <1>6, <1>7

\* Rows 1 to n can be listed in any strict order without ties.
LEMMA Sortable ==
  ASSUME NEW R, NEW n \in Nat,
         \A i, j \in 1..n : i = j \/ <<i, j>> \in R \/ <<j, i>> \in R,
         \A i, j, k \in 1..n : <<i, j>> \in R /\ <<j, k>> \in R => <<i, k>> \in R
  PROVE  \E s \in [1..n -> 1..n] : \A k, l \in 1..n : k < l => <<s[k], s[l]>> \in R
<1> DEFINE Done(m) == \E s \in [1..m -> 1..m] :
                        \A k, l \in 1..m : k < l => <<s[k], s[l]>> \in R
           S == {m \in 0..n : ~Done(m)}
<1> HIDE DEF Done
<1>1. Done(0)
  <2> DEFINE e == [k \in {} |-> 0]
  <2>1. 1..0 = {}
    OBVIOUS
  <2>2. e \in [1..0 -> 1..0]
    BY <2>1
  <2>3. \A k, l \in 1..0 : k < l => <<e[k], e[l]>> \in R
    BY <2>1
  <2> HIDE DEF e
  <2> QED
    BY <2>2, <2>3, Zenon DEF Done
<1> SUFFICES S = {}
  <2>1. Done(n)
    OBVIOUS
  <2> QED
    BY <2>1, Zenon DEF Done
<1> SUFFICES ASSUME S # {} PROVE FALSE
  OBVIOUS
<1>2. PICK m \in S : \A k \in S : m <= k
  <2>1. S \in SUBSET Nat
    OBVIOUS
  <2> HIDE DEF S
  <2> QED
    BY <2>1, Least
<1>3. m \in 0..n /\ ~Done(m)
  OBVIOUS
<1>4. m - 1 \in 0..n /\ ~(m <= m - 1) /\ (m - 1) + 1 = m
  BY <1>1, <1>3
<1>5. Done(m - 1)
  BY <1>2, <1>4
<1> DEFINE p == m - 1
<1>6. p \in Nat /\ p + 1 = m /\ p + 1 <= n /\ Done(p)
  BY <1>3, <1>4, <1>5
<1> HIDE DEF p
<1>7. PICK s \in [1..p -> 1..p] : \A k, l \in 1..p : k < l => <<s[k], s[l]>> \in R
  BY <1>6, Zenon DEF Done
<1>8. /\ \A i, j \in 1..(p + 1) : i = j \/ <<i, j>> \in R \/ <<j, i>> \in R
      /\ \A i, j, k \in 1..(p + 1) : <<i, j>> \in R /\ <<j, k>> \in R => <<i, k>> \in R
  BY <1>6
<1>9. Done(p + 1)
  <2>1. \E t \in [1..(p + 1) -> 1..(p + 1)] :
          \A k, l \in 1..(p + 1) : k < l => <<t[k], t[l]>> \in R
    BY <1>6, <1>7, <1>8, Inserted
  <2> QED
    BY <2>1, Zenon DEF Done
<1> QED
  BY <1>3, <1>6, <1>9

\* A list of n rows of n without repetition has them all.
LEMMA NoneLeftOut ==
  ASSUME NEW n \in Nat, NEW s \in [1..n -> 1..n],
         \A k, l \in 1..n : s[k] = s[l] => k = l
  PROVE  \A i \in 1..n : \E k \in 1..n : s[k] = i
<1> DEFINE S == 1..n
<1>1. IsFiniteSet(S)
  BY FS_Interval
<1>2. s \in Injection(S, S)
  BY DEF Injection, IsInjective
<1> HIDE DEF S
<1>3. s \in Surjection(S, S)
  BY <1>1, <1>2, FS_Injection
<1> QED
  BY <1>3 DEF Surjection, S
-----------------------------------------------------------------------------
(* The order of texts.                                                       *)

\* Two texts differ first at k.
LEMMA DifferAt ==
  ASSUME NEW a \in Seq(Int), NEW b \in Seq(Int), NEW k \in 1..Len(b),
         k <= Len(a) + 1,
         \A j \in 1..(k - 1) : a[j] = b[j],
         k = Len(a) + 1 \/ (k <= Len(a) /\ a[k] < b[k])
  PROVE  TextBefore(a, b)
BY Zenon DEF TextBefore

\* Byte order has neither cycles nor ties.
LEMMA TextOrder ==
  ASSUME NEW a \in Seq(Int), NEW b \in Seq(Int), NEW c \in Seq(Int)
  PROVE  /\ ~TextBefore(a, a)
         /\ TextBefore(a, b) /\ TextBefore(b, c) => TextBefore(a, c)
         /\ a = b \/ TextBefore(a, b) \/ TextBefore(b, a)
<1>1. /\ Len(a) \in Nat /\ Len(b) \in Nat /\ Len(c) \in Nat
      /\ \A i \in 1..Len(a) : a[i] \in Int
      /\ \A i \in 1..Len(b) : b[i] \in Int
      /\ \A i \in 1..Len(c) : c[i] \in Int
  BY LenProperties, ElementOfSeq
<1>2. ~TextBefore(a, a)
  BY <1>1 DEF TextBefore
<1>3. ASSUME TextBefore(a, b), TextBefore(b, c) PROVE TextBefore(a, c)
  <2>1. PICK k \in 1..Len(b) :
          /\ k <= Len(a) + 1
          /\ \A j \in 1..(k - 1) : a[j] = b[j]
          /\ k = Len(a) + 1 \/ (k <= Len(a) /\ a[k] < b[k])
    BY <1>3 DEF TextBefore
  <2>2. PICK l \in 1..Len(c) :
          /\ l <= Len(b) + 1
          /\ \A j \in 1..(l - 1) : b[j] = c[j]
          /\ l = Len(b) + 1 \/ (l <= Len(b) /\ b[l] < c[l])
    BY <1>3 DEF TextBefore
  <2>3. CASE k < l
    <3>1. \A j \in 1..k : b[j] = c[j]
      BY <2>2, <2>3
    <3>2. \A j \in 1..(k - 1) : a[j] = c[j]
      BY <2>1, <3>1
    <3>3. k = Len(a) + 1 \/ (k <= Len(a) /\ a[k] < c[k])
      BY <2>1, <3>1
    <3> QED
      <4>1. k \in 1..Len(c)
        BY <2>1, <2>2, <2>3, <1>1
      <4> QED
        BY <2>1, <3>2, <3>3, <4>1, DifferAt
  <2>4. CASE l < k
    <3>1. \A j \in 1..l : a[j] = b[j]
      BY <2>1, <2>4
    <3>2. \A j \in 1..(l - 1) : a[j] = c[j]
      BY <2>2, <3>1
    <3>3. l <= Len(a) /\ a[l] < c[l]
      BY <2>1, <2>2, <2>4, <3>1, <1>1
    <3> QED
      <4>1. l <= Len(a) + 1
        BY <2>2, <3>3, <1>1
      <4> QED
        BY <2>2, <3>2, <3>3, <4>1, DifferAt
  <2>5. CASE k = l
    <3>1. \A j \in 1..(k - 1) : a[j] = c[j]
      BY <2>1, <2>2, <2>5
    <3>2. k = Len(a) + 1 \/ (k <= Len(a) /\ a[k] < c[k])
      BY <2>1, <2>2, <2>5, <1>1
    <3> QED
      <4>1. k \in 1..Len(c)
        BY <2>2, <2>5
      <4> QED
        BY <2>1, <3>1, <3>2, <4>1, DifferAt
  <2> QED
    BY <2>3, <2>4, <2>5
<1>4. a = b \/ TextBefore(a, b) \/ TextBefore(b, a)
  <2> DEFINE S == {k \in Nat \ {0} : \/ k > Len(a) \/ k > Len(b) \/ a[k] # b[k]}
  <2>1. S \in SUBSET Nat /\ Len(a) + 1 \in S
    BY <1>1
  <2>2. PICK k \in S : \A j \in S : k <= j
    BY <2>1, Least
  <2>3. k \in Nat /\ k >= 1 /\ (k > Len(a) \/ k > Len(b) \/ a[k] # b[k])
    OBVIOUS
  <2>4. ASSUME NEW j \in 1..(k - 1) PROVE j <= Len(a) /\ j <= Len(b) /\ a[j] = b[j]
    <3>1. j \in Nat \ {0} /\ ~(k <= j)
      BY <2>3
    <3>2. j \notin S
      BY <2>2, <3>1
    <3> QED
      BY <1>1, <3>1, <3>2
  <2> HIDE DEF S
  <2>5. k <= Len(a) + 1 /\ k <= Len(b) + 1
    <3>1. k = 1 \/ (k - 1 \in 1..(k - 1))
      BY <2>3
    <3>2. k = 1 \/ (k - 1 <= Len(a) /\ k - 1 <= Len(b))
      BY <2>4, <3>1
    <3> QED
      BY <1>1, <2>3, <3>2
  <2>6. CASE k > Len(a) /\ k > Len(b)
    <3>1. Len(a) = Len(b) /\ \A j \in 1..Len(a) : a[j] = b[j]
      BY <1>1, <2>3, <2>4, <2>5, <2>6
    <3> QED
      BY <3>1, SeqEqual
  <2>7. CASE k > Len(a) /\ k <= Len(b)
    <3>1. k \in 1..Len(b) /\ k = Len(a) + 1 /\ \A j \in 1..(k - 1) : a[j] = b[j]
      BY <1>1, <2>3, <2>4, <2>5, <2>7
    <3> QED
      BY <2>5, <3>1, DifferAt
  <2>8. CASE k <= Len(a) /\ k > Len(b)
    <3>1. k \in 1..Len(a) /\ k = Len(b) + 1
      BY <1>1, <2>3, <2>5, <2>8
    <3>2. \A j \in 1..(k - 1) : b[j] = a[j]
      BY <2>4
    <3> QED
      BY <2>5, <3>1, <3>2, DifferAt
  <2>9. CASE k <= Len(a) /\ k <= Len(b)
    <3>1. a[k] < b[k] \/ b[k] < a[k]
      BY <1>1, <2>3, <2>9
    <3> QED
      <4>1. /\ k \in 1..Len(a) /\ k \in 1..Len(b)
            /\ \A j \in 1..(k - 1) : a[j] = b[j] /\ b[j] = a[j]
        BY <1>1, <2>3, <2>4, <2>9
      <4> QED
        BY <2>5, <2>9, <3>1, <4>1, DifferAt, SMT
  <2> QED
    BY <1>1, <2>3, <2>6, <2>7, <2>8, <2>9
<1> QED
  BY <1>2, <1>3, <1>4

\* A time reads as a text of at least one field, the seconds.
LEMMA Texts ==
  ASSUME \A r \in Int : Offset(r) \in Int, NEW t \in Int
  PROVE  /\ Second \in Nat /\ Second > 0
         /\ Text(t) \in Seq(Int) /\ Len(Text(t)) >= 1
         /\ Text(t)[1] = (t \div Second) + Offset(t)
<1>1. Second \in Nat /\ Second > 0
  BY RadixAssumption DEF Second
<1>2. (t \div Second) + Offset(t) \in Int
  BY <1>1
<1>3. (t \div Radix) % Radix \in Int /\ t % Radix \in Int
  BY RadixAssumption
<1> DEFINE s == (t \div Second) + Offset(t)
           f == Fraction(t)
           z == Zone(t)
<1>4. f \in Seq(Int)
  BY <1>3 DEF Fraction, Dot, Digit
<1>5. z \in Seq(Int)
  BY DEF Zone, Zulu, Plus, Minus
<1>6. Text(t) = (<<s>> \o f) \o z
  BY DEF Text
<1>7. s \in Int
  BY <1>2
<1> HIDE DEF s, f, z
<1>8. <<s>> \o f \in Seq(Int) /\ Len(<<s>> \o f) = 1 + Len(f) /\ (<<s>> \o f)[1] = s
  BY <1>4, <1>7
<1>9. /\ Text(t) \in Seq(Int) /\ Len(Text(t)) = 1 + Len(f) + Len(z)
      /\ Text(t)[1] = s
  BY <1>4, <1>5, <1>6, <1>8
<1> QED
  BY <1>1, <1>4, <1>5, <1>9 DEF s
-----------------------------------------------------------------------------
(* The list.                                                                 *)

\* The zone's distance from UTC is a number of seconds at every reading.
Offsets == \A r \in Int : Offset(r) \in Int

\* A row is above another or below it.
LEMMA RowOrder ==
  ASSUME Offsets, TypeOK
  PROVE  /\ \A i, j \in DOMAIN scans :
              i = j \/ ListedBefore(scans, i, j) \/ ListedBefore(scans, j, i)
         /\ \A i \in DOMAIN scans : ~ListedBefore(scans, i, i)
         /\ \A i, j, k \in DOMAIN scans :
              ListedBefore(scans, i, j) /\ ListedBefore(scans, j, k) => ListedBefore(scans, i, k)
<1> DEFINE text(i) == Text(scans[i].createdAt)
<1>1. DOMAIN scans \subseteq Nat
  BY DEF TypeOK
<1>2. ASSUME NEW i \in DOMAIN scans PROVE text(i) \in Seq(Int)
  <2>1. scans[i] \in Rows
    BY DEF TypeOK
  <2>2. scans[i].createdAt \in Int
    BY <2>1 DEF Rows
  <2> QED
    BY <2>2, Texts DEF Offsets
<1>3. \A i, j \in DOMAIN scans :
        ListedBefore(scans, i, j)
          <=> TextBefore(text(j), text(i)) \/ (text(i) = text(j) /\ i < j)
  BY DEF ListedBefore
<1> HIDE DEF text
<1>4. ASSUME NEW i \in DOMAIN scans, NEW j \in DOMAIN scans
      PROVE  i = j \/ ListedBefore(scans, i, j) \/ ListedBefore(scans, j, i)
  BY <1>1, <1>2, <1>3, TextOrder
<1>5. ASSUME NEW i \in DOMAIN scans PROVE ~ListedBefore(scans, i, i)
  BY <1>1, <1>2, <1>3, TextOrder
<1>6. ASSUME NEW i \in DOMAIN scans, NEW j \in DOMAIN scans, NEW k \in DOMAIN scans,
             ListedBefore(scans, i, j), ListedBefore(scans, j, k)
      PROVE  ListedBefore(scans, i, k)
  <2>1. /\ TextBefore(text(j), text(i)) \/ (text(i) = text(j) /\ i < j)
        /\ TextBefore(text(k), text(j)) \/ (text(j) = text(k) /\ j < k)
    BY <1>3, <1>6
  <2>2. TextBefore(text(k), text(j)) /\ TextBefore(text(j), text(i))
          => TextBefore(text(k), text(i))
    BY <1>2, TextOrder
  <2>3. TextBefore(text(k), text(i)) \/ (text(i) = text(k) /\ i < k)
    BY <1>1, <2>1, <2>2
  <2> QED
    BY <1>3, <2>3
<1> QED
  BY <1>4, <1>5, <1>6

\* The list has each row of the table once, in the order of the texts.
LEMMA EachListedOnce ==
  ASSUME Offsets, TypeOK
  PROVE  /\ DOMAIN All = DOMAIN scans
         /\ \A k \in DOMAIN scans : All[k] \in DOMAIN scans
         /\ \A k, l \in DOMAIN scans : k < l => ListedBefore(scans, All[k], All[l])
         /\ \A k, l \in DOMAIN scans : All[k] = All[l] => k = l
         /\ \A i \in DOMAIN scans : \E k \in DOMAIN scans : All[k] = i
<1> DEFINE n == Len(scans)
           R == {x \in (1..n) \X (1..n) : ListedBefore(scans, x[1], x[2])}
<1>1. n \in Nat /\ DOMAIN scans = 1..n
  BY DEF TypeOK
<1>2. \A i, j \in 1..n : <<i, j>> \in R <=> ListedBefore(scans, i, j)
  OBVIOUS
<1> HIDE DEF R, n
<1>3. \A i, j \in 1..n : i = j \/ <<i, j>> \in R \/ <<j, i>> \in R
  BY <1>1, <1>2, RowOrder
<1>4. \A i, j, k \in 1..n : <<i, j>> \in R /\ <<j, k>> \in R => <<i, k>> \in R
  BY <1>1, <1>2, RowOrder
<1>5. PICK s \in [1..n -> 1..n] : \A k, l \in 1..n : k < l => <<s[k], s[l]>> \in R
  BY <1>1, <1>3, <1>4, Sortable
<1>6. \A k, l \in 1..n : k < l => ListedBefore(scans, s[k], s[l])
  BY <1>2, <1>5
<1>7. All = CHOOSE list \in [1..n -> 1..n] :
              \A k, l \in 1..n : k < l => ListedBefore(scans, list[k], list[l])
  BY <1>1 DEF All, NewestTextFirst
<1>8. /\ All \in [1..n -> 1..n]
      /\ \A k, l \in 1..n : k < l => ListedBefore(scans, All[k], All[l])
  BY <1>5, <1>6, <1>7, Zenon
<1>9. ASSUME NEW k \in 1..n, NEW l \in 1..n, All[k] = All[l] PROVE k = l
  <2>1. All[k] \in 1..n
    BY <1>8
  <2>2. ~ListedBefore(scans, All[k], All[l]) /\ ~ListedBefore(scans, All[l], All[k])
    BY <1>1, <1>9, <2>1, RowOrder
  <2> QED
    BY <1>1, <1>8, <2>2
<1>10. \A i \in 1..n : \E k \in 1..n : All[k] = i
  BY <1>1, <1>8, <1>9, NoneLeftOut
<1> QED
  BY <1>1, <1>8, <1>9, <1>10
-----------------------------------------------------------------------------
(* The report.                                                               *)

\* The loop of latestScanPerProject is left with one row of each project it met.
LEMMA OneIsKept ==
  ASSUME NEW table, NEW n \in Nat, NEW listed, DOMAIN listed = 1..n,
         \A k \in 1..n : table[listed[k]].createdAt \in Int,
         NEW p, \E k \in 1..n : table[listed[k]].project = p
  PROVE  \E k \in 1..n : table[listed[k]].project = p /\ KeptToTheEnd(table, listed, k)
<1> DEFINE of(k) == table[listed[k]].project = p
           time(k) == table[listed[k]].createdAt
           Kept(k, m) == \A l \in 1..m :
                           of(l) => (l < k => time(k) > time(l)) /\ (l > k => ~(time(l) > time(k)))
           Loop(m) == (\E k \in 1..m : of(k)) => \E k \in 1..m : of(k) /\ Kept(k, m)
           S == {m \in 0..n : ~Loop(m)}
<1>1. \A k \in 1..n : of(k) /\ Kept(k, n) => KeptToTheEnd(table, listed, k)
  BY DEF KeptToTheEnd, Replaces
<1>2. \A k \in 1..n : time(k) \in Int
  OBVIOUS
<1>3. \E k \in 1..n : of(k)
  OBVIOUS
<1> HIDE DEF of, time, Loop
<1> SUFFICES S = {}
  <2>1. Loop(n)
    OBVIOUS
  <2>2. \E k \in 1..n : of(k) /\ Kept(k, n)
    BY <1>3, <2>1 DEF Loop
  <2> QED
    BY <1>1, <2>2 DEF of
<1> SUFFICES ASSUME S # {} PROVE FALSE
  OBVIOUS
<1>4. PICK m \in S : \A k \in S : m <= k
  <2>1. S \in SUBSET Nat
    OBVIOUS
  <2> HIDE DEF S
  <2> QED
    BY <2>1, Least
<1>5. m \in 0..n /\ ~Loop(m)
  OBVIOUS
<1>6. Loop(0)
  BY DEF Loop
<1>7. m - 1 \in 0..n /\ ~(m <= m - 1) /\ m \in 1..n
  BY <1>5, <1>6
<1>8. Loop(m - 1)
  BY <1>4, <1>7
<1>9. Loop(m)
  <2>1. CASE ~of(m) /\ \E k \in 1..m : of(k)
    <3>1. \E k \in 1..(m - 1) : of(k)
      BY <1>7, <2>1
    <3>2. PICK k \in 1..(m - 1) : of(k) /\ Kept(k, m - 1)
      BY <1>8, <3>1 DEF Loop
    <3>3. Kept(k, m)
      BY <1>7, <2>1, <3>2
    <3> QED
      BY <1>7, <3>2, <3>3 DEF Loop
  <2>2. CASE of(m) /\ ~(\E k \in 1..(m - 1) : of(k))
    <3>1. Kept(m, m)
      BY <1>7, <2>2
    <3> QED
      BY <1>7, <2>2, <3>1 DEF Loop
  <2>3. CASE of(m) /\ \E k \in 1..(m - 1) : of(k)
    <3>1. PICK k \in 1..(m - 1) : of(k) /\ Kept(k, m - 1)
      BY <1>8, <2>3 DEF Loop
    <3>2. CASE time(m) > time(k)
      <4>1. Kept(m, m)
        <5>1. ASSUME NEW l \in 1..m, of(l), l < m PROVE time(m) > time(l)
          <6>1. l \in 1..(m - 1) /\ l \in 1..n /\ k \in 1..n
            BY <1>7, <3>1, <5>1
          <6>2. l = k \/ time(k) > time(l) \/ ~(time(l) > time(k))
            BY <3>1, <5>1, <6>1
          <6> QED
            BY <1>2, <1>7, <3>2, <6>1, <6>2
        <5> QED
          BY <1>7, <5>1
      <4> QED
        BY <1>7, <2>3, <4>1 DEF Loop
    <3>3. CASE ~(time(m) > time(k))
      <4>1. Kept(k, m)
        BY <1>7, <3>1, <3>3
      <4> QED
        BY <1>7, <3>1, <4>1 DEF Loop
    <3> QED
      BY <3>2, <3>3
  <2>4. CASE ~(\E k \in 1..m : of(k))
    BY <2>4 DEF Loop
  <2> QED
    BY <2>1, <2>2, <2>3, <2>4
<1> QED
  BY <1>5, <1>9

\* The report's table of rules has every rule of the packs.
LEMMA PackRulesAreKnown == PackRules \subseteq allRuleIDs
<1>1. /\ \A rule \in Packs!storage_account.rules : rule.id \in allRuleIDs
      /\ \A rule \in Packs!nsg.rules : rule.id \in allRuleIDs
      /\ \A rule \in Packs!key_vault.rules : rule.id \in allRuleIDs
  BY DEF Packs!storage_account, Packs!nsg, Packs!key_vault, Packs!Azure, Packs!Deny, allRuleIDs
<1>2. /\ \A rule \in Packs!s3.rules : rule.id \in allRuleIDs
      /\ \A rule \in Packs!security_group.rules : rule.id \in allRuleIDs
  BY DEF Packs!s3, Packs!security_group, Packs!Aws, Packs!Deny, allRuleIDs
<1>3. \A fact \in Packs!podFacts : fact[1] \in allRuleIDs
  BY DEF Packs!podFacts, allRuleIDs
<1>4. \A rule \in Packs!pod_security.rules : rule.id \in allRuleIDs
  BY <1>3 DEF Packs!pod_security, Packs!Deny
<1> QED
  BY <1>1, <1>2, <1>4 DEF PackRules, Packs!embedded

\* A row that is kept is a newest one of its project.
LEMMA KeptIsNewest ==
  ASSUME Offsets, TypeOK, NEW k \in DOMAIN scans, KeptToTheEnd(scans, All, k)
  PROVE  Newest(All[k])
<1> SUFFICES ASSUME NEW j \in DOMAIN scans, scans[j].project = scans[All[k]].project
             PROVE  scans[j].createdAt <= scans[All[k]].createdAt
  BY DEF Newest
<1>1. PICK l \in DOMAIN scans : All[l] = j
  BY EachListedOnce
<1>2. /\ k \in Nat /\ l \in Nat /\ All[k] \in DOMAIN scans
  <2>1. DOMAIN scans \subseteq Nat
    BY DEF TypeOK
  <2> QED
    BY <2>1, EachListedOnce
<1>3. scans[j] \in Rows /\ scans[All[k]] \in Rows
  BY <1>2 DEF TypeOK
<1>4. scans[j].createdAt \in Int /\ scans[All[k]].createdAt \in Int
  BY <1>3 DEF Rows
<1>5. /\ l < k => scans[All[k]].createdAt > scans[j].createdAt
      /\ l > k => ~(scans[j].createdAt > scans[All[k]].createdAt)
  BY <1>1, EachListedOnce DEF KeptToTheEnd, Replaces
<1> QED
  BY <1>1, <1>2, <1>4, <1>5

\* What a control shows of a latest scan.
LEMMA ShownIf ==
  ASSUME NEW i \in latestScanPerProject(scans, All), NEW f \in DOMAIN frameworks,
         NEW c \in DOMAIN frameworks[f], NEW r \in scans[i].findings \cap frameworks[f][c]
  PROVE  \E x \in handleComplianceReport.failing[f][c] :
           x.scan = i /\ x.project = scans[i].project /\ r \in x.findings
<1> DEFINE latest == latestScanPerProject(scans, All)
           x == [project |-> scans[i].project, scan |-> i,
                 findings |-> scans[i].findings \cap frameworks[f][c]]
<1>1. handleComplianceReport.failing[f][c] = ProjectFailures(scans, latest, frameworks[f][c])
  BY DEF handleComplianceReport, BuildComplianceReport, buildControlStatuses
<1> HIDE DEF latest
<1>2. x \in ProjectFailures(scans, latest, frameworks[f][c])
  BY DEF ProjectFailures, latest
<1> QED
  BY <1>1, <1>2

\* A rule of the packs has a control or is listed as unmapped.
LEMMA MappedOrNot ==
  ASSUME NEW f \in DOMAIN frameworks, NEW r \in PackRules
  PROVE  \/ r \in handleComplianceReport.unmapped[f]
         \/ \E c \in DOMAIN frameworks[f] : r \in frameworks[f][c]
<1>1. handleComplianceReport.unmapped[f] = unmappedRuleIDs(frameworks[f])
  BY DEF handleComplianceReport, BuildComplianceReport
<1>2. r \in allRuleIDs
  BY PackRulesAreKnown
<1> QED
  BY <1>1, <1>2 DEF unmappedRuleIDs

\* Every project has a newest scan in the report.
LEMMA ReportIsWhole == Offsets /\ TypeOK => NoFindingHidden
<1> SUFFICES ASSUME Offsets, TypeOK,
                    NEW f \in DOMAIN frameworks,
                    NEW p \in {scans[i].project : i \in DOMAIN scans}
             PROVE  \E i \in DOMAIN scans :
                      /\ scans[i].project = p /\ Newest(i)
                      /\ \A r \in scans[i].findings \cap PackRules :
                           \/ r \in handleComplianceReport.unmapped[f]
                           \/ \E c \in DOMAIN frameworks[f] :
                                \E x \in handleComplianceReport.failing[f][c] :
                                  x.scan = i /\ x.project = p /\ r \in x.findings
  BY DEF NoFindingHidden
<1> DEFINE n == Len(scans)
<1>1. n \in Nat /\ DOMAIN scans = 1..n /\ \A i \in DOMAIN scans : scans[i] \in Rows
  BY DEF TypeOK
<1> HIDE DEF n
<1>2. DOMAIN All = 1..n /\ \A k \in 1..n : scans[All[k]].createdAt \in Int
  BY <1>1, EachListedOnce DEF Rows
<1>3. \E k \in 1..n : scans[All[k]].project = p
  BY <1>1, EachListedOnce
<1>4. PICK k \in 1..n : scans[All[k]].project = p /\ KeptToTheEnd(scans, All, k)
  BY <1>1, <1>2, <1>3, OneIsKept
<1>5. All[k] \in DOMAIN scans /\ Newest(All[k]) /\ All[k] \in latestScanPerProject(scans, All)
  BY <1>1, <1>2, <1>4, EachListedOnce, KeptIsNewest DEF latestScanPerProject
<1>6. ASSUME NEW r \in scans[All[k]].findings \cap PackRules
      PROVE  \/ r \in handleComplianceReport.unmapped[f]
             \/ \E c \in DOMAIN frameworks[f] :
                  \E x \in handleComplianceReport.failing[f][c] :
                    x.scan = All[k] /\ x.project = p /\ r \in x.findings
  BY <1>4, <1>5, MappedOrNot, ShownIf
<1> QED
  BY <1>4, <1>5, <1>6

\* A list line and the detail view it leads to are of the same row.
LEMMA ListLeadsToScans == Offsets /\ IInv => AckedIsListed
<1> SUFFICES ASSUME Offsets, IInv PROVE AckedIsListed
  OBVIOUS
<1> DEFINE list == handleScansList
<1>1. TypeOK
  BY DEF IInv
<1>2. /\ DOMAIN list = DOMAIN scans
      /\ \A k \in DOMAIN scans : list[k] = scanSummary(All[k], scans[All[k]])
      /\ \A k \in DOMAIN scans : list[k].id = All[k]
  BY <1>1, EachListedOnce DEF handleScansList, scanSummary
<1> HIDE DEF list
<1>3. ASSUME NEW i \in DOMAIN scans
      PROVE  handleScanDetailAPI(i) =
               {[summary |-> scanSummary(i, scans[i]), findings |-> scans[i].findings,
                 sbom |-> scans[i].sbom, provenance |-> scans[i].provenance]}
  BY DEF handleScanDetailAPI, Get
<1>4. ASSUME NEW u \in Uploads, client[u].state = "uploaded"
      PROVE  LET id == client[u].id
                 summary == [id |-> id, project |-> Body(u).project,
                             hasSBOM |-> Body(u).sbom # "",
                             hasProvenance |-> Body(u).provenance # ""]
             IN /\ handleScanDetailAPI(id) =
                     {[summary |-> summary, findings |-> Body(u).findings,
                       sbom |-> Body(u).sbom, provenance |-> Body(u).provenance]}
                /\ \E k \in DOMAIN list : list[k] = summary
  <2>1. client[u].id \in DOMAIN scans /\ Complete(scans[client[u].id], u)
    BY <1>4 DEF IInv, HandlersInv, HandlerInv, Settled
  <2>2. scanSummary(client[u].id, scans[client[u].id]) =
          [id |-> client[u].id, project |-> Body(u).project,
           hasSBOM |-> Body(u).sbom # "", hasProvenance |-> Body(u).provenance # ""]
    BY <2>1 DEF scanSummary, Complete
  <2>3. PICK k \in DOMAIN scans : All[k] = client[u].id
    BY <1>1, <2>1, EachListedOnce
  <2>4. list[k] = scanSummary(client[u].id, scans[client[u].id])
    BY <1>2, <2>3
  <2> QED
    BY <1>2, <1>3, <2>1, <2>2, <2>4 DEF Complete
<1>5. ASSUME NEW k \in DOMAIN list
      PROVE  /\ \E detail \in handleScanDetailAPI(list[k].id) : detail.summary = list[k]
             /\ \A l \in DOMAIN list : list[l].id = list[k].id => l = k
  <2>1. k \in DOMAIN scans /\ All[k] \in DOMAIN scans /\ list[k].id = All[k]
    BY <1>1, <1>2, <1>5, EachListedOnce
  <2>2. list[k] = scanSummary(All[k], scans[All[k]])
    BY <1>2, <2>1
  <2>3. ASSUME NEW l \in DOMAIN list, list[l].id = list[k].id PROVE l = k
    <3>1. l \in DOMAIN scans /\ All[l] = All[k]
      BY <1>2, <2>1, <2>3
    <3> QED
      BY <1>1, <2>1, <3>1, EachListedOnce
  <2>4. \E detail \in handleScanDetailAPI(All[k]) : detail.summary = list[k]
    <3> DEFINE i == All[k]
               view == [summary |-> scanSummary(i, scans[i]), findings |-> scans[i].findings,
                        sbom |-> scans[i].sbom, provenance |-> scans[i].provenance]
    <3>1. view \in handleScanDetailAPI(i)
      BY <1>3, <2>1
    <3>2. view.summary = list[k]
      BY <2>2
    <3> HIDE DEF view
    <3> QED
      BY <3>1, <3>2
  <2> QED
    BY <2>1, <2>3, <2>4, Zenon
<1> QED
  BY <1>4, <1>5 DEF AckedIsListed, list

\* Where the zone stays the same, earlier seconds have smaller texts.
LEMMA SecondsInOrder ==
  ASSUME Offsets, \A r, q \in Int : Offset(r) = Offset(q)
  PROVE  TypeOK => OrderedToTheSecond
<1> SUFFICES ASSUME TypeOK, NEW k \in DOMAIN All, NEW l \in DOMAIN All, k < l
             PROVE  scans[All[k]].createdAt \div Second >= scans[All[l]].createdAt \div Second
  BY DEF OrderedToTheSecond
<1> DEFINE s == scans[All[k]].createdAt
           t == scans[All[l]].createdAt
<1>1. All[k] \in DOMAIN scans /\ All[l] \in DOMAIN scans /\ ListedBefore(scans, All[k], All[l])
  BY EachListedOnce
<1>2. scans[All[k]] \in Rows /\ scans[All[l]] \in Rows
  BY <1>1 DEF TypeOK
<1>3. s \in Int /\ t \in Int
  BY <1>2 DEF Rows
<1>4. TextBefore(Text(t), Text(s)) \/ Text(s) = Text(t)
  BY <1>1 DEF ListedBefore
<1> HIDE DEF s, t
<1>5. /\ Second \in Nat /\ Second > 0
      /\ Text(s) \in Seq(Int) /\ Len(Text(s)) >= 1 /\ Text(s)[1] = (s \div Second) + Offset(s)
      /\ Text(t) \in Seq(Int) /\ Len(Text(t)) >= 1 /\ Text(t)[1] = (t \div Second) + Offset(t)
  BY <1>3, Texts DEF Offsets
<1>6. Offset(s) = Offset(t) /\ Offset(s) \in Int
  BY <1>3 DEF Offsets
<1>7. Text(t)[1] <= Text(s)[1]
  <2>1. Text(s)[1] \in Int /\ Text(t)[1] \in Int
    BY <1>5
  <2> DEFINE a == Text(t)
             b == Text(s)
  <2> HIDE DEF a, b
  <2>2. ASSUME TextBefore(a, b), Len(a) \in Nat, Len(b) \in Nat, Len(a) >= 1,
               a[1] \in Int, b[1] \in Int
        PROVE  a[1] <= b[1]
    BY <2>2 DEF TextBefore
  <2> QED
    BY <1>4, <1>5, <2>1, <2>2, LenProperties DEF a, b
<1>8. s \div Second \in Int /\ t \div Second \in Int
  BY <1>3, <1>5
<1> QED
  BY <1>5, <1>6, <1>7, <1>8 DEF s, t
-----------------------------------------------------------------------------
(* Rescans.                                                                  *)

\* The clock is never set back, and never read twice alike.
ClockMovesOn == \A d \in ClockSteps : d > 0

\* Whose row or stamp this is, it is later than the scans that had been
\* acknowledged when it was posted.
Later(v, t) == \A u \in earlier[v] : t > scans[client[u].id].createdAt

\* Every time in the table or about to go there has been read from the clock,
\* and after everything its upload came after.
TimesInv ==
  /\ earlier \in [Uploads -> SUBSET Uploads]
  /\ \A v \in Uploads : \A u \in earlier[v] : client[u].state = "uploaded"
  /\ \A i \in DOMAIN scans :
       scans[i].createdAt < clock /\ Later(scans[i].req, scans[i].createdAt)
  /\ \A v \in Uploads : handler[v].pc = "Add" =>
       handler[v].createdAt < clock /\ Later(v, handler[v].createdAt)

LEMMA TimesInit == DashboardInit => TimesInv
BY DEF DashboardInit, Init, TimesInv, Idle

\* What a step does to times: rows keep theirs, new rows have the handler's,
\* and a handler has its own from the clock.
LEMMA TimesStep ==
  ASSUME ClockMovesOn, IInv, [Next]_vars
  PROVE  /\ clock \in Int /\ clock' \in Int /\ clock <= clock'
         /\ \A u \in Uploads : client[u].state = "uploaded" => client'[u] = client[u]
         /\ \A i \in DOMAIN scans :
              /\ i \in DOMAIN scans' /\ scans'[i].createdAt = scans[i].createdAt
              /\ scans'[i].req = scans[i].req
         /\ \A i \in DOMAIN scans' \ DOMAIN scans :
              LET u == scans'[i].req IN
                /\ u \in Uploads /\ handler[u].pc = "Add"
                /\ scans'[i].createdAt = handler[u].createdAt
         /\ \A u \in Uploads : handler'[u].pc = "Add" =>
              \/ handler[u].pc = "Add" /\ handler'[u].createdAt = handler[u].createdAt
              \/ /\ handler[u].pc = "stamp" /\ handler'[u].createdAt = clock
                 /\ clock < clock' /\ scans' = scans
<1> DEFINE Conclusion ==
      /\ clock \in Int /\ clock' \in Int /\ clock <= clock'
      /\ \A u \in Uploads : client[u].state = "uploaded" => client'[u] = client[u]
      /\ \A i \in DOMAIN scans :
           /\ i \in DOMAIN scans' /\ scans'[i].createdAt = scans[i].createdAt
           /\ scans'[i].req = scans[i].req
      /\ \A i \in DOMAIN scans' \ DOMAIN scans :
           /\ scans'[i].req \in Uploads /\ handler[scans'[i].req].pc = "Add"
           /\ scans'[i].createdAt = handler[scans'[i].req].createdAt
      /\ \A u \in Uploads : handler'[u].pc = "Add" =>
           \/ handler[u].pc = "Add" /\ handler'[u].createdAt = handler[u].createdAt
           \/ /\ handler[u].pc = "stamp" /\ handler'[u].createdAt = clock
              /\ clock < clock' /\ scans' = scans
<1> SUFFICES Conclusion
  OBVIOUS
<1>1. TypeOK /\ HandlersInv /\ clock \in Int /\ handler \in [Uploads -> Handlers]
      /\ client \in [Uploads -> Clients]
  BY DEF IInv, TypeOK
<1>2. CASE UNCHANGED vars
  BY <1>1, <1>2 DEF vars
<1>3. ASSUME NEW u \in Uploads, Post(u) \/ Disconnect(u) \/ Receive(u) \/ ExecFails(u)
                                 \/ AddAuditEvent(u) \/ Respond(u)
      PROVE  Conclusion
  <2>1. UNCHANGED <<scans, clock>>
    BY <1>3 DEF Post, Disconnect, Receive, ExecFails, AddAuditEvent, Respond
  <2>2. \A v \in Uploads : client[v].state = "uploaded" => client'[v] = client[v]
    BY <1>1, <1>3 DEF Post, Disconnect, Receive, ExecFails, AddAuditEvent, Respond
  <2>3. \A v \in Uploads : handler'[v].pc = "Add" => handler'[v] = handler[v]
    BY <1>1, <1>3 DEF Post, Disconnect, Receive, ExecFails, AddAuditEvent, Respond,
                      Goto, Reply, Handlers
  <2> QED
    BY <1>1, <2>1, <2>2, <2>3
<1>4. ASSUME NEW u \in Uploads, Stamp(u) PROVE Conclusion
  <2>1. UNCHANGED <<scans, client>> /\ handler[u].pc = "stamp"
    BY <1>4 DEF Stamp
  <2>2. PICK d \in ClockSteps : clock' = clock + d
    BY <1>4 DEF Stamp
  <2>3. d \in Int /\ d > 0
    BY ClockAssumption DEF ClockMovesOn
  <2>4. \A v \in Uploads : v # u => handler'[v] = handler[v]
    BY <1>1, <1>4 DEF Stamp
  <2>5. handler'[u].createdAt = clock
    BY <1>1, <1>4 DEF Stamp, Handlers
  <2>6. clock' \in Int /\ clock < clock'
    BY <1>1, <2>2, <2>3
  <2>7. clock \in Int /\ clock <= clock'
    BY <1>1, <2>6
  <2> QED
    BY <2>1, <2>4, <2>5, <2>6, <2>7
<1>5. ASSUME NEW u \in Uploads, Add(u) PROVE Conclusion
  <2> DEFINE n == Len(scans) + 1
  <2>1. UNCHANGED <<client, clock>> /\ handler[u].pc = "Add"
    BY <1>5 DEF Add
  <2>2. \A v \in Uploads : handler'[v].pc = "Add" => handler'[v] = handler[v]
    BY <1>1, <1>5 DEF Add, Handlers
  <2>3. /\ DOMAIN scans' = DOMAIN scans \cup {n}
        /\ \A i \in DOMAIN scans : scans'[i] = scans[i]
        /\ scans'[n].req = u
    BY <1>1, <1>5, AddedRow
  <2>4. scans'[n].createdAt = handler[u].createdAt
    <3>1. scans' = Append(scans, NewRow(u)) /\ scans \in Seq(Rows) /\ NewRow(u) \in Rows
      BY <1>1, <1>5, RowTypes DEF Add, TypeOK
    <3>2. scans'[n] = NewRow(u)
      BY <3>1
    <3>3. NewRow(u).createdAt = handler[u].createdAt
      BY DEF NewRow
    <3> HIDE DEF n
    <3> QED
      BY <3>2, <3>3
  <2> HIDE DEF n
  <2> QED
    BY <1>1, <2>1, <2>2, <2>3, <2>4
<1>6. ASSUME NEW u \in Uploads, SetArtifacts(u) PROVE Conclusion
  <2>1. UNCHANGED <<client, clock>>
    BY <1>6 DEF SetArtifacts
  <2>2. \A v \in Uploads : handler'[v].pc = "Add" => handler'[v] = handler[v]
    BY <1>1, <1>6 DEF SetArtifacts, Goto, Handlers
  <2> DEFINE id == handler[u].id
  <2>3. /\ id \in DOMAIN scans /\ DOMAIN scans' = DOMAIN scans
        /\ \A i \in DOMAIN scans : i # id => scans'[i] = scans[i]
        /\ scans'[id] = [scans[id] EXCEPT !.sbom = Body(u).sbom,
                                         !.provenance = Body(u).provenance]
    BY <1>1, <1>6, AttachedRow, Zenon
  <2> HIDE DEF id
  <2>4. scans[id] \in Rows
    BY <1>1, <2>3 DEF TypeOK
  <2>5. scans'[id].req = scans[id].req /\ scans'[id].createdAt = scans[id].createdAt
    BY <2>3, <2>4 DEF Rows
  <2>6. \A i \in DOMAIN scans :
          scans'[i].req = scans[i].req /\ scans'[i].createdAt = scans[i].createdAt
    BY <2>3, <2>5, Zenon
  <2> QED
    BY <1>1, <2>1, <2>2, <2>3, <2>6
<1>7. CASE Crash
  <2>1. UNCHANGED <<scans, clock>>
    BY <1>7 DEF Crash
  <2>2. \A v \in Uploads : client[v].state = "uploaded" => client'[v] = client[v]
    BY <1>1, <1>7 DEF Crash
  <2>3. \A v \in Uploads : handler'[v].pc # "Add"
    BY <1>7 DEF Crash, Idle
  <2> QED
    BY <1>1, <2>1, <2>2, <2>3
<1> HIDE DEF Conclusion
<1> QED
  BY <1>2, <1>3, <1>4, <1>5, <1>6, <1>7 DEF Next, Serve

\* No step sets a time that is not later than what its upload came after.
LEMMA TimesNext ==
  ASSUME ClockMovesOn, IInv, TimesInv, [DashboardNext]_dashboardVars
  PROVE  TimesInv'
<1>1. [Next]_vars
  BY DEF DashboardNext, dashboardVars, Next
<1>2. TypeOK /\ HandlersInv /\ handler \in [Uploads -> Handlers]
  BY DEF IInv, TypeOK
<1>3. ASSUME NEW u \in Uploads, client[u].state = "uploaded"
      PROVE  /\ client'[u] = client[u] /\ client[u].id \in DOMAIN scans
             /\ client'[u].id \in DOMAIN scans'
             /\ scans'[client'[u].id].createdAt = scans[client[u].id].createdAt
  BY <1>1, <1>2, <1>3, TimesStep DEF HandlersInv, HandlerInv, Settled
<1>4. ASSUME NEW i \in DOMAIN scans PROVE scans[i].req \in Uploads /\ scans[i].createdAt \in Int
  <2>1. scans[i] \in Rows
    BY <1>2 DEF TypeOK
  <2> QED
    BY <2>1 DEF Rows
<1>5. /\ earlier' \in [Uploads -> SUBSET Uploads]
      /\ \A v \in Uploads : \/ earlier'[v] = earlier[v]
                            \/ /\ earlier'[v] = AckedNow /\ Post(v)
  BY DEF DashboardNext, dashboardVars, AckedNow, TimesInv
<1>6. ASSUME NEW v \in Uploads, NEW u \in earlier'[v]
      PROVE  u \in Uploads /\ client[u].state = "uploaded"
  BY <1>5, <1>6 DEF AckedNow, TimesInv
<1>7. \A v \in Uploads : \A u \in earlier'[v] : client'[u].state = "uploaded"
  BY <1>3, <1>6
<1>8. ASSUME NEW v \in Uploads, earlier'[v] = earlier[v], NEW t, Later(v, t)
      PROVE  \A u \in earlier'[v] : t > scans'[client'[u].id].createdAt
  BY <1>3, <1>6, <1>8 DEF Later
<1>9. ASSUME NEW v \in Uploads, Post(v)
      PROVE  /\ handler'[v].pc # "Add"
             /\ \A i \in DOMAIN scans' : i \in DOMAIN scans /\ scans'[i].req # v
  <2>1. handler'[v].pc = "receive"
    BY <1>2, <1>9 DEF Post, Goto
  <2>2. scans' = scans /\ client[v].state = "ready"
    BY <1>9 DEF Post
  <2> QED
    BY <1>2, <2>1, <2>2 DEF HandlersInv, HandlerInv, BeforeAdd
<1>10. ASSUME NEW i \in DOMAIN scans'
       PROVE  /\ scans'[i].createdAt < clock'
              /\ \A u \in earlier'[scans'[i].req] :
                   scans'[i].createdAt > scans'[client'[u].id].createdAt
  <2> DEFINE v == scans'[i].req
             t == scans'[i].createdAt
  <2>1. v \in Uploads /\ t < clock /\ Later(v, t)
    <3>1. CASE i \in DOMAIN scans
      BY <1>1, <1>4, <3>1, TimesStep DEF TimesInv
    <3>2. CASE i \notin DOMAIN scans
      BY <1>1, <3>2, TimesStep DEF TimesInv
    <3> QED
      BY <3>1, <3>2
  <2>2. t \in Int /\ clock \in Int /\ clock' \in Int /\ clock <= clock'
    <3>1. CASE i \in DOMAIN scans
      BY <1>1, <1>4, <3>1, TimesStep
    <3>2. CASE i \notin DOMAIN scans
      BY <1>1, <1>2, <3>2, TimesStep DEF Handlers
    <3> QED
      BY <3>1, <3>2
  <2>3. earlier'[v] = earlier[v]
    BY <1>5, <1>9, <2>1
  <2> HIDE DEF v, t
  <2>4. t < clock'
    BY <2>1, <2>2
  <2>5. \A u \in earlier'[v] : t > scans'[client'[u].id].createdAt
    BY <1>8, <2>1, <2>3
  <2> QED
    BY <2>4, <2>5 DEF v, t
<1>11. ASSUME NEW v \in Uploads, handler'[v].pc = "Add"
       PROVE  /\ handler'[v].createdAt < clock'
              /\ \A u \in earlier'[v] :
                   handler'[v].createdAt > scans'[client'[u].id].createdAt
  <2>1. earlier'[v] = earlier[v]
    BY <1>5, <1>9, <1>11
  <2>2. clock \in Int /\ clock' \in Int /\ clock <= clock' /\ handler[v].createdAt \in Int
    BY <1>1, <1>2, TimesStep DEF Handlers
  <2>3. CASE handler[v].pc = "Add" /\ handler'[v].createdAt = handler[v].createdAt
    <3>1. handler[v].createdAt < clock /\ Later(v, handler[v].createdAt)
      BY <2>3 DEF TimesInv
    <3> QED
      BY <1>8, <2>1, <2>2, <2>3, <3>1
  <2>4. CASE handler'[v].createdAt = clock /\ clock < clock'
    <3>1. Later(v, clock)
      BY <1>3, <1>4, <1>6, <2>1, <2>2 DEF Later, TimesInv
    <3> QED
      BY <1>8, <2>1, <2>4, <3>1
  <2> QED
    BY <1>1, <1>11, <2>3, <2>4, TimesStep
<1> QED
  BY <1>5, <1>7, <1>10, <1>11 DEF TimesInv, Later

\* A row that was there before a rescan was posted has no chance against the
\* rescan's row.
LEMMA Superseded ==
  ASSUME Offsets, IInv, TimesInv
  PROVE  SupersededIsGone
<1> SUFFICES ASSUME NEW u \in Uploads, NEW v \in Uploads,
                    client[u].state = "uploaded", client[v].state = "uploaded",
                    u \in earlier[v], Body(u).project = Body(v).project
             PROVE  client[u].id \notin Failing(handleComplianceReport)
  BY DEF SupersededIsGone
<1> DEFINE a == client[u].id
           b == client[v].id
<1>1. /\ TypeOK
      /\ a \in DOMAIN scans /\ Complete(scans[a], u)
      /\ b \in DOMAIN scans /\ Complete(scans[b], v)
  BY DEF IInv, HandlersInv, HandlerInv, Settled
<1>2. scans[b].createdAt > scans[a].createdAt /\ scans[b].project = scans[a].project
  BY <1>1 DEF TimesInv, Later, Complete
<1>3. scans[a].createdAt \in Int /\ scans[b].createdAt \in Int /\ DOMAIN scans \subseteq Nat
  <2>1. scans[a] \in Rows /\ scans[b] \in Rows /\ DOMAIN scans \subseteq Nat
    BY <1>1 DEF TypeOK
  <2> QED
    BY <2>1 DEF Rows
<1> HIDE DEF a, b
<1>4. PICK l \in DOMAIN scans : All[l] = b
  BY <1>1, EachListedOnce
<1>5. a \notin latestScanPerProject(scans, All)
  <2> SUFFICES ASSUME NEW k \in DOMAIN scans, All[k] = a, KeptToTheEnd(scans, All, k)
               PROVE  FALSE
    BY <1>1, EachListedOnce DEF latestScanPerProject
  <2>1. /\ l < k => Replaces(scans[a], scans[b])
        /\ l > k => ~Replaces(scans[b], scans[a])
    BY <1>1, <1>2, <1>4, EachListedOnce DEF KeptToTheEnd
  <2>2. k # l
    BY <1>2, <1>3, <1>4
  <2> QED
    BY <1>2, <1>3, <2>1, <2>2 DEF Replaces
<1>6. \A f \in DOMAIN frameworks : \A c \in DOMAIN frameworks[f] :
        \A x \in handleComplianceReport.failing[f][c] :
          x.scan \in latestScanPerProject(scans, All)
  BY DEF handleComplianceReport, BuildComplianceReport, buildControlStatuses, ProjectFailures
<1>7. a \notin Failing(handleComplianceReport)
  BY <1>5, <1>6 DEF Failing
<1> QED
  BY <1>7 DEF a
-----------------------------------------------------------------------------
\* The dashboard's steps are the portal's.
LEMMA DashboardInvariance == DashboardSpec => []IInv
<1>1. DashboardInit => IInv
  BY InvInit DEF DashboardInit
<1>2. IInv /\ [DashboardNext]_dashboardVars => IInv'
  <2>1. [DashboardNext]_dashboardVars => [Next]_vars
    BY DEF DashboardNext, dashboardVars, Next
  <2> QED
    BY <2>1, InvNext
<1> QED
  BY <1>1, <1>2, PTL DEF DashboardSpec

\* Whatever is uploaded meanwhile, each acknowledged scan is in the list once,
\* with its tags, opens as it was posted, and each line of the list leads to
\* the scan it shows (handleScansList, handleScanDetailAPI).
THEOREM ListIsTrue ==
  ASSUME Offsets
  PROVE  DashboardSpec => []AckedIsListed
<1>1. IInv => AckedIsListed
  BY ListLeadsToScans
<1> QED
  BY <1>1, DashboardInvariance, PTL

\* In one zone the list never shows a scan above one of a later second
\* (Store.All orders texts).
THEOREM ListIsInOrder ==
  ASSUME Offsets, \A r, q \in Int : Offset(r) = Offset(q)
  PROVE  DashboardSpec => []OrderedToTheSecond
<1>1. IInv => OrderedToTheSecond
  BY SecondsInOrder DEF IInv
<1> QED
  BY <1>1, DashboardInvariance, PTL

\* The report has every finding of a pack's rule in a newest scan of each
\* project, or names the rule as one it has no control for.
THEOREM NothingHidden ==
  ASSUME Offsets
  PROVE  DashboardSpec => []NoFindingHidden
<1>1. IInv => NoFindingHidden
  BY ReportIsWhole DEF IInv
<1> QED
  BY <1>1, DashboardInvariance, PTL

\* On a clock that moves on, a scan is out of the report once a rescan that
\* was posted after its 201 is answered (BuildComplianceReport's comment).
THEOREM RescanSupersedes ==
  ASSUME Offsets, ClockMovesOn
  PROVE  DashboardSpec => []SupersededIsGone
<1>1. IInv /\ TimesInv /\ [DashboardNext]_dashboardVars => TimesInv'
  BY TimesNext
<1>2. IInv /\ TimesInv => SupersededIsGone
  BY Superseded
<1> QED
  BY <1>1, <1>2, TimesInit, DashboardInvariance, PTL DEF DashboardSpec
=============================================================================
