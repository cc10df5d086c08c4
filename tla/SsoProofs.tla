----------------------------- MODULE SsoProofs ------------------------------
(* Proofs about Sso, for any number of browsers, logins and requests, any    *)
(* clock and any choice of statements that may fail: the properties its run  *)
(* checks. Only the last one, that a logout revokes, needs a statement that  *)
(* does not fail.                                                            *)
EXTENDS Sso, TLAPS

\* The callback has the identity of its user.
Exchanged(c) == request[c].email # None

\* A callback's state is its own browser's; its session carries its name; and
\* it hands out the cookie only after the login is logged.
CallbackOK(c) ==
  LET q == request[c] IN
    /\ q.pc \in {"unsent", "Exchange", "CreateSession", "AuditLogin", "SetCookie",
                 "done", "error", "lost"}
    /\ q.pc = "unsent" => q.email = None
    /\ q.pc # "unsent" => q.session = c /\ q.browser \in Browsers /\ q.state \in States
    /\ q.pc = "Exchange" => /\ flow[q.state].browser = q.browser
                            /\ flow[q.state].stage \in {"granted", "spent"}
    /\ q.pc \in {"CreateSession", "AuditLogin", "SetCookie", "done"} => q.email # None
    /\ q.email # None => /\ q.state \in States
                         /\ flow[q.state].stage = "spent"
                         /\ flow[q.state].email = q.email
                         /\ flow[q.state].browser = q.browser
    /\ q.pc \in {"SetCookie", "done"} => LoggedIn(c, q.email, Len(audit) + 1)

\* A logout is for a session whose callback was answered, and logs its account.
LogoutOK(l) ==
  LET q == request[l] IN
    /\ q.pc \in {"unsent", "GetSession", "AuditLogout", "DeleteSession", "ClearCookie",
                 "done", "lost"}
    /\ q.pc # "unsent" => q.browser \in Browsers
    /\ q.session # None => request[q.session].pc = "done"
    /\ q.pc \in {"GetSession", "AuditLogout", "DeleteSession"} => q.session # None
    /\ q.pc = "AuditLogout" => q.email = request[q.session].email

\* So is a read that got past its cookie, and it is served in its account's name.
ReadOK(a) ==
  LET q == request[a] IN
    /\ q.pc \in {"unsent", "check", "serve", "done", "error", "lost"}
    /\ q.pc \in {"check", "serve", "done"} =>
         q.session # None /\ request[q.session].pc = "done"
    /\ q.pc \in {"serve", "done"} => q.email = request[q.session].email

RequestsOK == /\ \A c \in Callbacks : CallbackOK(c)
              /\ \A l \in Logouts : LogoutOK(l)
              /\ \A a \in Reads : ReadOK(a)

\* A row is its callback's, a cookie its browser's.
SessionsOK == \A s \in sessions : s.email = request[s.id].email
CookiesOK ==
  \A b \in Browsers :
    /\ cookies[b].session # None => /\ request[cookies[b].session].pc = "done"
                                    /\ request[cookies[b].session].browser = b
    /\ cookies[b].state # None => /\ flow[cookies[b].state].browser = b
                                  /\ flow[cookies[b].state].stage # "unused"

\* A code is good for one callback.
OneExchange ==
  \A c, d \in Callbacks :
    Exchanged(c) /\ Exchanged(d) /\ request[c].state = request[d].state => c = d

\* What is logged stays accounted for.
LogoutsLogged ==
  \A i \in DOMAIN audit : audit[i].event = "logout" =>
    LoggedIn(audit[i].session, audit[i].email, i)

\* What every step preserves.
IInv == /\ ValuesOK /\ RequestsOK /\ SessionsOK /\ CookiesOK /\ OneExchange
        /\ LogoutsLogged
-----------------------------------------------------------------------------
(* Types.                                                                    *)

\* A request is of one kind.
LEMMA RequestKinds ==
  /\ \A c \in Callbacks : c \in Requests /\ c \notin Logouts /\ c \notin Reads /\ c # None
  /\ \A l \in Logouts : l \in Requests /\ l \notin Callbacks /\ l \notin Reads
  /\ \A a \in Reads : a \in Requests /\ a \notin Callbacks /\ a \notin Logouts
BY NamesAssumption DEF Requests

\* At first nobody has a cookie or a session.
LEMMA InitInvariant == Init => IInv
<1> SUFFICES ASSUME Init PROVE IInv
  OBVIOUS
<1>1. ValuesOK
  BY TimeAssumption, RequestKinds DEF Init, ValuesOK, RequestRecords, Points
<1>2. \A r \in Requests :
        request[r].pc = "unsent" /\ request[r].email = None /\ request[r].session = None
  BY DEF Init
<1>3. RequestsOK
  BY <1>2, RequestKinds DEF RequestsOK, CallbackOK, LogoutOK, ReadOK
<1>4. SessionsOK /\ LogoutsLogged
  BY DEF Init, SessionsOK, LogoutsLogged
<1>5. CookiesOK
  BY DEF Init, CookiesOK
<1>6. OneExchange
  BY <1>2, RequestKinds DEF OneExchange, Exchanged
<1> QED
  BY <1>1, <1>3, <1>4, <1>5, <1>6 DEF IInv

\* A request that goes somewhere keeps the rest of its record.
LEMMA GotoTyped ==
  ASSUME ValuesOK, NEW r \in Requests, NEW pc \in Points, Goto(r, pc)
  PROVE  request' \in [Requests -> RequestRecords]
BY DEF Goto, ValuesOK, RequestRecords

\* So does one that learns whose it is.
LEMMA IdentifiedTyped ==
  ASSUME ValuesOK, NEW r \in Requests, NEW pc \in Points, NEW e \in Emails,
         request' = [request EXCEPT ![r].pc = pc, ![r].email = e]
  PROVE  request' \in [Requests -> RequestRecords]
BY DEF ValuesOK, RequestRecords

\* What browsers send is typed.
LEMMA BrowseTyped == IInv /\ (Browse \/ \E a \in Reads : SendRead(a)) => ValuesOK'
<1> SUFFICES ASSUME IInv, Browse \/ \E a \in Reads : SendRead(a) PROVE ValuesOK'
  OBVIOUS
<1>t. ValuesOK
  BY DEF IInv
<1>1. ASSUME NEW b \in Browsers, NEW s \in States, Login(b, s) PROVE ValuesOK'
  BY <1>1, <1>t DEF Login, ValuesOK
<1>2. ASSUME NEW b \in Browsers, NEW s \in States, NEW c \in Callbacks, SendCallback(c, b, s)
      PROVE  ValuesOK'
  <2>1. request' \in [Requests -> RequestRecords]
    BY <1>2, <1>t, RequestKinds DEF SendCallback, ValuesOK, RequestRecords, Points
  <2> QED
    BY <1>2, <1>t, <2>1 DEF SendCallback, ValuesOK
<1>3. ASSUME NEW b \in Browsers, StateExpires(b) PROVE ValuesOK'
  BY <1>3, <1>t DEF StateExpires, ValuesOK
<1>4. ASSUME NEW b \in Browsers, NEW l \in Logouts, SendLogout(l, b) PROVE ValuesOK'
  <2>1. request' \in [Requests -> RequestRecords]
    BY <1>4, <1>t, RequestKinds DEF SendLogout, ValuesOK, RequestRecords, Points
  <2> QED
    BY <1>4, <1>t, <2>1 DEF SendLogout, ValuesOK
<1>5. ASSUME NEW a \in Reads, SendRead(a) PROVE ValuesOK'
  <2>1. Over \subseteq Callbacks
    <3>1. \A l \in Logouts : request[l].session \in Callbacks \cup {None}
      BY <1>t, RequestKinds DEF ValuesOK, RequestRecords
    <3> QED
      BY <3>1 DEF Over
  <2>2. HandedOut \subseteq Callbacks
    BY DEF HandedOut
  <2>3. PICK id \in Callbacks \cup {None} :
          request' = [request EXCEPT ![a].session = id, ![a].over = Over,
                                     ![a].pc = IF id # None THEN "check" ELSE "error"]
    BY <1>5, <2>2 DEF SendRead
  <2>4. request' \in [Requests -> RequestRecords]
    BY <2>1, <2>3, <1>t, RequestKinds DEF ValuesOK, RequestRecords, Points
  <2> QED
    BY <1>5, <1>t, <2>4 DEF SendRead, ValuesOK
<1> QED
  BY <1>1, <1>2, <1>3, <1>4, <1>5 DEF Browse

\* An account's name is written down by a session's callback.
LEMMA EventTyped ==
  ASSUME ValuesOK, NEW r \in Requests, NEW e \in {"login", "logout"},
         request[r].email # None, request[r].session # None
  PROVE  Event(e, r, request[r].email) \in Events
BY DEF ValuesOK, RequestRecords, Event, Events

\* What the handlers do is typed.
LEMMA StepTyped == ASSUME IInv, NEW r \in Requests, Step(r) PROVE ValuesOK'
<1>t. ValuesOK
  BY DEF IInv
<1>1. ASSUME r \in Callbacks, Exchange(r) PROVE ValuesOK'
  <2>1. request[r].state \in States /\ flow[request[r].state].email \in Emails \cup {None}
    BY <1>1, <1>t DEF Exchange, IInv, RequestsOK, CallbackOK, ValuesOK
  <2>2. request' \in [Requests -> RequestRecords]
    <3>1. CASE Goto(r, "error")
      BY <3>1, <1>t, GotoTyped DEF Points
    <3>2. CASE /\ flow[request[r].state].email # None
               /\ request' = [request EXCEPT ![r].pc = "CreateSession",
                                             ![r].email = flow[request[r].state].email]
      BY <3>2, <2>1, <1>t, IdentifiedTyped DEF Points
    <3> QED
      BY <1>1, <3>1, <3>2 DEF Exchange
  <2>3. flow' \in {flow, [flow EXCEPT ![request[r].state].stage = "spent"]}
    BY <1>1 DEF Exchange
  <2> QED
    BY <1>1, <1>t, <2>1, <2>2, <2>3 DEF Exchange, ValuesOK
<1>2. ASSUME r \in Callbacks, CreateSession(r) PROVE ValuesOK'
  <2>1. request' \in [Requests -> RequestRecords]
    BY <1>2, <1>t, GotoTyped DEF CreateSession, Points
  <2>2. request[r].email \in Emails
    BY <1>2, <1>t DEF CreateSession, IInv, RequestsOK, CallbackOK, ValuesOK, RequestRecords
  <2>3. now + TTL \in 0..(MaxTime + TTL)
    BY <1>t, TimeAssumption DEF ValuesOK
  <2>4. [id |-> r, email |-> request[r].email, expires |-> now + TTL] \in Sessions
    BY <1>2, <2>2, <2>3 DEF Sessions
  <2>5. sessions' \subseteq Sessions
    BY <1>2, <1>t, <2>4 DEF CreateSession, ValuesOK
  <2> QED
    BY <1>2, <1>t, <2>1, <2>5 DEF CreateSession, ValuesOK
<1>3. ASSUME r \in Callbacks, AuditLogin(r) PROVE ValuesOK'
  <2>1. request' \in [Requests -> RequestRecords]
    BY <1>3, <1>t, GotoTyped DEF AuditLogin, Points
  <2>2. request[r].email # None /\ request[r].session # None
    BY <1>3, RequestKinds DEF AuditLogin, IInv, RequestsOK, CallbackOK
  <2>3. Event("login", r, request[r].email) \in Events
    BY <1>t, <2>2, EventTyped
  <2>4. audit' \in Seq(Events)
    BY <1>3, <1>t, <2>3 DEF AuditLogin, ValuesOK
  <2> QED
    BY <1>3, <1>t, <2>1, <2>4 DEF AuditLogin, ValuesOK
<1>4. ASSUME r \in Callbacks, SetCookie(r) PROVE ValuesOK'
  <2>1. request' \in [Requests -> RequestRecords]
    BY <1>4, <1>t, GotoTyped DEF SetCookie, Points
  <2> QED
    BY <1>4, <1>t, <2>1 DEF SetCookie, ValuesOK
<1>5. ASSUME r \in Logouts, LookUp(r) PROVE ValuesOK'
  <2>1. CASE \E s \in Valid(request[r].session) :
               request' = [request EXCEPT ![r].pc = "AuditLogout", ![r].email = s.email]
    <3>1. PICK s \in Sessions :
            request' = [request EXCEPT ![r].pc = "AuditLogout", ![r].email = s.email]
      BY <1>t, <2>1 DEF Valid, ValuesOK
    <3>2. s.email \in Emails
      BY DEF Sessions
    <3>3. request' \in [Requests -> RequestRecords]
      BY <3>1, <3>2, <1>t, IdentifiedTyped DEF Points
    <3> QED
      BY <1>5, <1>t, <3>3 DEF LookUp, ValuesOK
  <2>2. CASE Goto(r, "DeleteSession")
    <3>1. request' \in [Requests -> RequestRecords]
      BY <2>2, <1>t, GotoTyped DEF Points
    <3> QED
      BY <1>5, <1>t, <3>1 DEF LookUp, ValuesOK
  <2> QED
    BY <1>5, <2>1, <2>2 DEF LookUp
<1>6. ASSUME r \in Logouts, AuditLogout(r) PROVE ValuesOK'
  <2>1. request' \in [Requests -> RequestRecords]
    BY <1>6, <1>t, GotoTyped DEF AuditLogout, Points
  <2>2. /\ request[r].session # None
        /\ request[request[r].session].pc = "done"
        /\ request[r].email = request[request[r].session].email
    BY <1>6 DEF AuditLogout, IInv, RequestsOK, LogoutOK
  <2>3. request[r].session \in Callbacks
    BY <1>t, <2>2 DEF ValuesOK, RequestRecords
  <2>4. request[r].email # None
    BY <2>2, <2>3 DEF IInv, RequestsOK, CallbackOK
  <2>5. Event("logout", r, request[r].email) \in Events
    BY <1>t, <2>2, <2>4, EventTyped
  <2>6. audit' \in Seq(Events)
    BY <1>6, <1>t, <2>5 DEF AuditLogout, ValuesOK
  <2> QED
    BY <1>6, <1>t, <2>1, <2>6 DEF AuditLogout, ValuesOK
<1>7. ASSUME r \in Logouts, DeleteSession(r) PROVE ValuesOK'
  <2>1. request' \in [Requests -> RequestRecords]
    BY <1>7, <1>t, GotoTyped DEF DeleteSession, Points
  <2> QED
    BY <1>7, <1>t, <2>1 DEF DeleteSession, ValuesOK
<1>8. ASSUME r \in Logouts, ClearCookie(r) PROVE ValuesOK'
  <2>1. request' \in [Requests -> RequestRecords]
    BY <1>8, <1>t, GotoTyped DEF ClearCookie, Points
  <2> QED
    BY <1>8, <1>t, <2>1 DEF ClearCookie, ValuesOK
<1>9. ASSUME r \in Reads, Check(r) PROVE ValuesOK'
  <2>1. CASE \E s \in Valid(request[r].session) :
               request' = [request EXCEPT ![r].pc = "serve", ![r].email = s.email]
    <3>1. PICK s \in Sessions :
            request' = [request EXCEPT ![r].pc = "serve", ![r].email = s.email]
      BY <1>t, <2>1 DEF Valid, ValuesOK
    <3>2. s.email \in Emails
      BY DEF Sessions
    <3>3. request' \in [Requests -> RequestRecords]
      BY <3>1, <3>2, <1>t, IdentifiedTyped DEF Points
    <3> QED
      BY <1>9, <1>t, <3>3 DEF Check, ValuesOK
  <2>2. CASE Goto(r, "error")
    <3>1. request' \in [Requests -> RequestRecords]
      BY <2>2, <1>t, GotoTyped DEF Points
    <3> QED
      BY <1>9, <1>t, <3>1 DEF Check, ValuesOK
  <2> QED
    BY <1>9, <2>1, <2>2 DEF Check
<1>10. ASSUME r \in Reads, ServeRead(r) PROVE ValuesOK'
  <2>1. request' \in [Requests -> RequestRecords]
    BY <1>10, <1>t, GotoTyped DEF ServeRead, Points
  <2> QED
    BY <1>10, <1>t, <2>1 DEF ServeRead, ValuesOK
<1> QED
  BY <1>1, <1>2, <1>3, <1>4, <1>5, <1>6, <1>7, <1>8, <1>9, <1>10 DEF Step

\* Every step keeps the types.
LEMMA NextTyped == IInv /\ [Next]_vars => ValuesOK'
<1> SUFFICES ASSUME IInv, [Next]_vars PROVE ValuesOK'
  OBVIOUS
<1>t. ValuesOK
  BY DEF IInv
<1>1. ASSUME NEW s \in States, NEW e \in Emails \cup {None}, Grant(s, e) PROVE ValuesOK'
  BY <1>1, <1>t DEF Grant, ValuesOK
<1>2. CASE Crash
  <2>1. request' \in [Requests -> RequestRecords]
    <3>1. \A r \in Requests : request[r] \in RequestRecords
      BY <1>t DEF ValuesOK
    <3>2. \A r \in Requests : [request[r] EXCEPT !.pc = "lost"] \in RequestRecords
      BY <3>1 DEF RequestRecords, Points
    <3> QED
      BY <1>2, <3>1, <3>2 DEF Crash
  <2> QED
    BY <1>2, <1>t, <2>1 DEF Crash, ValuesOK
<1>3. CASE Tick
  BY <1>3, <1>t, TimeAssumption DEF Tick, ValuesOK
<1>4. CASE UNCHANGED vars
  BY <1>4, <1>t DEF vars, ValuesOK
<1> QED
  BY <1>1, <1>2, <1>3, <1>4, BrowseTyped, StepTyped DEF Next
-----------------------------------------------------------------------------
(* What a step leaves as it was.                                             *)

\* A login only goes forward, an answered or exchanged callback keeps its
\* values and the log only grows.
Grows ==
  /\ \A s \in States :
       /\ flow[s].stage # "unused" => /\ flow'[s].stage # "unused"
                                      /\ flow'[s].browser = flow[s].browser
       /\ flow[s].stage \in {"granted", "spent"} =>
            /\ flow'[s].stage \in {"granted", "spent"}
            /\ flow'[s].email = flow[s].email
       /\ flow[s].stage = "spent" => flow'[s].stage = "spent"
  /\ \A c \in Callbacks :
       /\ request[c].pc = "done" => request'[c] = request[c]
       /\ Exchanged(c) => /\ request'[c].email = request[c].email
                          /\ request'[c].state = request[c].state
                          /\ request'[c].browser = request[c].browser
  /\ Len(audit) <= Len(audit')
  /\ \A i \in 1..Len(audit) : audit'[i] = audit[i]

\* No request but r changes.
Only(r) == \A q \in Requests \ {r} : request'[q] = request[q]

\* Goto moves one request and leaves its other locals alone.
LEMMA GotoOnly ==
  ASSUME ValuesOK, NEW r \in Requests, NEW pc \in Points, Goto(r, pc)
  PROVE  /\ Only(r) /\ request'[r].pc = pc
         /\ request'[r].browser = request[r].browser
         /\ request'[r].state = request[r].state
         /\ request'[r].session = request[r].session
         /\ request'[r].email = request[r].email
BY DEF Goto, Only, ValuesOK, RequestRecords

\* A request that was not answered may change, as long as a callback keeps what
\* its exchange gave it.
LEMMA QuietGrows ==
  ASSUME IInv, NEW r \in Requests, Only(r), flow' = flow, audit' = audit,
         r \in Callbacks => /\ request[r].pc # "done"
                            /\ Exchanged(r) => /\ request'[r].email = request[r].email
                                               /\ request'[r].state = request[r].state
                                               /\ request'[r].browser = request[r].browser
  PROVE  Grows
<1>1. audit \in Seq(Events) /\ Len(audit) \in Nat
  BY DEF IInv, ValuesOK
<1> QED
  BY <1>1, RequestKinds DEF Grows, Only

\* A login in the log stays there.
LEMMA LoggedStays ==
  ASSUME Grows, NEW x, NEW e, NEW n \in 1..(Len(audit) + 1), NEW m \in Nat, n <= m,
         audit \in Seq(Events), LoggedIn(x, e, n)
  PROVE  LoggedIn(x, e, m)'
<1>1. Len(audit) \in Nat
  OBVIOUS
<1>2. PICK i \in 1..(n - 1) : audit[i] = [event |-> "login", email |-> e, session |-> x]
  BY DEF LoggedIn
<1>3. i \in 1..(m - 1) /\ i \in 1..Len(audit)
  BY <1>1
<1> QED
  BY <1>2, <1>3 DEF LoggedIn, Grows

\* A callback that does not move keeps what is known of it.
LEMMA CallbackKept ==
  ASSUME IInv, ValuesOK', Grows, NEW c \in Callbacks, request'[c] = request[c]
  PROVE  CallbackOK(c)'
<1>1. CallbackOK(c)
  BY DEF IInv, RequestsOK
<1>2. audit \in Seq(Events) /\ Len(audit) \in Nat /\ Len(audit') \in Nat
  BY DEF IInv, ValuesOK
<1>3. ASSUME request'[c].pc \in {"SetCookie", "done"}
      PROVE  LoggedIn(c, request[c].email, Len(audit) + 1)'
  <2>1. LoggedIn(c, request[c].email, Len(audit) + 1)
    BY <1>1, <1>3 DEF CallbackOK
  <2>2. Len(audit) + 1 \in 1..(Len(audit) + 1) /\ Len(audit') + 1 \in Nat
    BY <1>2
  <2>3. Len(audit) + 1 <= Len(audit') + 1
    BY <1>2 DEF Grows
  <2>4. \A m \in Nat : Len(audit) + 1 <= m => LoggedIn(c, request[c].email, m)'
    BY <1>2, <2>1, <2>2, LoggedStays
  <2> QED
    BY <2>2, <2>3, <2>4, <1>3
<1>4. request'[c].pc \in {"SetCookie", "done"} =>
        LoggedIn(c, request[c].email, Len(audit) + 1)'
  BY <1>3
<1> QED
  BY <1>1, <1>4 DEF CallbackOK, Grows

\* So does a logout.
LEMMA LogoutKept ==
  ASSUME IInv, Grows, NEW l \in Logouts, request'[l] = request[l]
  PROVE  LogoutOK(l)'
<1>1. LogoutOK(l) /\ request[l].session \in Callbacks \cup {None}
  BY RequestKinds DEF IInv, RequestsOK, ValuesOK, RequestRecords
<1> QED
  BY <1>1 DEF LogoutOK, Grows

\* So does a read.
LEMMA ReadKept ==
  ASSUME IInv, Grows, NEW a \in Reads, request'[a] = request[a]
  PROVE  ReadOK(a)'
<1>1. ReadOK(a) /\ request[a].session \in Callbacks \cup {None}
  BY RequestKinds DEF IInv, RequestsOK, ValuesOK, RequestRecords
<1> QED
  BY <1>1 DEF ReadOK, Grows

\* When r takes a step, only r has to be looked at.
LEMMA OneRequest ==
  ASSUME IInv, ValuesOK', Grows, NEW r \in Requests, Only(r),
         r \in Callbacks => CallbackOK(r)',
         r \in Logouts => LogoutOK(r)',
         r \in Reads => ReadOK(r)'
  PROVE  RequestsOK'
<1>1. ASSUME NEW c \in Callbacks PROVE CallbackOK(c)'
  BY CallbackKept, RequestKinds DEF Only
<1>2. ASSUME NEW l \in Logouts PROVE LogoutOK(l)'
  BY LogoutKept, RequestKinds DEF Only
<1>3. ASSUME NEW a \in Reads PROVE ReadOK(a)'
  BY ReadKept, RequestKinds DEF Only
<1> QED
  BY <1>1, <1>2, <1>3 DEF RequestsOK

\* If no request moves, all of them keep it.
LEMMA NoneChanges ==
  ASSUME IInv, ValuesOK', Grows, request' = request
  PROVE  RequestsOK'
BY CallbackKept, LogoutKept, ReadKept DEF RequestsOK

\* Rows that stay keep their account.
LEMMA SessionsKept ==
  ASSUME IInv, Grows, sessions' \subseteq sessions
  PROVE  SessionsOK'
<1> SUFFICES ASSUME NEW s \in sessions PROVE s.email = request'[s.id].email
  BY DEF SessionsOK
<1>1. s.id \in Callbacks /\ s.email \in Emails
  BY DEF IInv, ValuesOK, Sessions
<1>2. Exchanged(s.id)
  BY <1>1, NamesAssumption DEF IInv, SessionsOK, Exchanged
<1> QED
  BY <1>1, <1>2 DEF IInv, SessionsOK, Grows

\* So do cookies; each browser's are the same, gone or not.
LEMMA CookiesKept ==
  ASSUME IInv, Grows,
         \A b \in Browsers : /\ cookies'[b].session \in {cookies[b].session, None}
                             /\ cookies'[b].state \in {cookies[b].state, None}
  PROVE  CookiesOK'
<1> SUFFICES ASSUME NEW b \in Browsers
             PROVE  /\ cookies'[b].session # None =>
                         /\ request'[cookies'[b].session].pc = "done"
                         /\ request'[cookies'[b].session].browser = b
                    /\ cookies'[b].state # None =>
                         /\ flow'[cookies'[b].state].browser = b
                         /\ flow'[cookies'[b].state].stage # "unused"
  BY DEF CookiesOK
<1>1. /\ cookies[b].session \in Callbacks \cup {None}
      /\ cookies[b].state \in States \cup {None}
  BY DEF IInv, ValuesOK
<1> QED
  BY <1>1 DEF IInv, CookiesOK, Grows

\* Without a new exchange no code is spent twice.
LEMMA ExchangesKept ==
  ASSUME IInv, Grows, \A c \in Callbacks : Exchanged(c)' => Exchanged(c)
  PROVE  OneExchange'
BY DEF IInv, OneExchange, Exchanged, Grows

\* Without a new event the log stays accounted for.
LEMMA LogKept ==
  ASSUME IInv, audit' = audit
  PROVE  LogoutsLogged'
BY DEF IInv, LogoutsLogged, LoggedIn

\* An event that is a login, or the logout of an account that is logged in, may
\* be added to the log.
LEMMA LogExtended ==
  ASSUME IInv, Grows, NEW e \in Events, audit' = Append(audit, e),
         e.event = "logout" => LoggedIn(e.session, e.email, Len(audit) + 1)
  PROVE  LogoutsLogged'
<1>1. audit \in Seq(Events) /\ Len(audit) \in Nat
  BY DEF IInv, ValuesOK
<1>2. DOMAIN audit' = 1..(Len(audit) + 1) /\ audit'[Len(audit) + 1] = e
  BY <1>1
<1>3. \A i \in 1..Len(audit) : audit'[i] = audit[i]
  BY DEF Grows
<1> SUFFICES ASSUME NEW i \in 1..(Len(audit) + 1), audit'[i].event = "logout"
             PROVE  LoggedIn(audit[i].session, audit[i].email, i)'
  BY <1>2 DEF LogoutsLogged
<1>4. \A x, y : LoggedIn(x, y, i) => LoggedIn(x, y, i)'
  BY <1>1, LoggedStays
<1>5. LoggedIn(audit'[i].session, audit'[i].email, i)
  <2>1. CASE i = Len(audit) + 1
    BY <2>1, <1>2
  <2>2. CASE i \in 1..Len(audit)
    BY <2>2, <1>1, <1>3 DEF IInv, LogoutsLogged
  <2> QED
    BY <1>1, <2>1, <2>2
<1> QED
  BY <1>4, <1>5
-----------------------------------------------------------------------------
(* What the browser and the identity provider do.                            *)

\* A login takes an unused state and sets its browser's cookie to it.
LEMMA LoginKeeps ==
  ASSUME IInv, ValuesOK', NEW b \in Browsers, NEW s \in States, Login(b, s)
  PROVE  IInv'
<1>t. ValuesOK /\ audit \in Seq(Events)
  BY DEF IInv, ValuesOK
<1>1. Grows
  BY <1>t DEF Login, Grows, ValuesOK
<1>2. RequestsOK' /\ SessionsOK' /\ LogoutsLogged' /\ OneExchange'
  BY <1>1, NoneChanges, SessionsKept, LogKept, ExchangesKept DEF Login, Exchanged
<1>3. CookiesOK'
  <2> SUFFICES ASSUME NEW x \in Browsers
               PROVE  /\ cookies'[x].session # None =>
                           /\ request'[cookies'[x].session].pc = "done"
                           /\ request'[cookies'[x].session].browser = x
                      /\ cookies'[x].state # None =>
                           /\ flow'[cookies'[x].state].browser = x
                           /\ flow'[cookies'[x].state].stage # "unused"
    BY DEF CookiesOK
  <2>1. cookies'[x].session = cookies[x].session
    BY <1>t DEF Login, ValuesOK
  <2>2. cookies'[x].state = IF x = b THEN s ELSE cookies[x].state
    BY <1>t DEF Login, ValuesOK
  <2>3. flow'[s].browser = b /\ flow'[s].stage = "begun"
    BY <1>t DEF Login, ValuesOK
  <2>4. cookies[x].state \in States \cup {None}
    BY <1>t DEF ValuesOK
  <2>5. request' = request
    BY DEF Login
  <2>6. cookies'[x].session # None => /\ request'[cookies'[x].session].pc = "done"
                                      /\ request'[cookies'[x].session].browser = x
    BY <2>1, <2>5 DEF IInv, CookiesOK
  <2>7. cookies[x].state # None => /\ flow'[cookies[x].state].browser = x
                                   /\ flow'[cookies[x].state].stage # "unused"
    BY <1>1, <2>4 DEF IInv, CookiesOK, Grows
  <2> QED
    BY <2>2, <2>3, <2>6, <2>7
<1> QED
  BY <1>2, <1>3 DEF IInv

\* A state cookie that expires is gone.
LEMMA StateExpiresKeeps ==
  ASSUME IInv, ValuesOK', NEW b \in Browsers, StateExpires(b)
  PROVE  IInv'
<1>t. ValuesOK /\ audit \in Seq(Events)
  BY DEF IInv, ValuesOK
<1>1. Grows
  BY <1>t DEF StateExpires, Grows
<1>2. RequestsOK' /\ SessionsOK' /\ LogoutsLogged' /\ OneExchange'
  BY <1>1, NoneChanges, SessionsKept, LogKept, ExchangesKept DEF StateExpires, Exchanged
<1>3. CookiesOK'
  BY <1>1, <1>t, CookiesKept DEF StateExpires, ValuesOK
<1> QED
  BY <1>2, <1>3 DEF IInv

\* The provider settles whose login it is, once.
LEMMA GrantKeeps ==
  ASSUME IInv, ValuesOK', NEW s \in States, NEW e \in Emails \cup {None}, Grant(s, e)
  PROVE  IInv'
<1>t. ValuesOK /\ audit \in Seq(Events)
  BY DEF IInv, ValuesOK
<1>1. Grows
  BY <1>t DEF Grant, Grows, ValuesOK
<1>2. RequestsOK' /\ SessionsOK' /\ LogoutsLogged' /\ OneExchange'
  BY <1>1, NoneChanges, SessionsKept, LogKept, ExchangesKept DEF Grant, Exchanged
<1>3. CookiesOK'
  BY <1>1, CookiesKept DEF Grant
<1> QED
  BY <1>2, <1>3 DEF IInv

\* What follows for the tables and the other browsers when a request that was
\* not answered changes without an exchange.
LEMMA QuietKeeps ==
  ASSUME IInv, ValuesOK', Grows, NEW r \in Requests, Only(r),
         r \in Callbacks /\ Exchanged(r)' => Exchanged(r),
         sessions' \subseteq sessions, cookies' = cookies
  PROVE  SessionsOK' /\ CookiesOK' /\ OneExchange'
<1>1. \A c \in Callbacks : Exchanged(c)' => Exchanged(c)
  BY RequestKinds DEF Only, Exchanged
<1> QED
  BY <1>1, SessionsKept, CookiesKept, ExchangesKept

\* A callback is let through in the browser whose cookie holds its state.
LEMMA SendCallbackKeeps ==
  ASSUME IInv, ValuesOK', NEW c \in Callbacks, NEW b \in Browsers, NEW s \in States,
         SendCallback(c, b, s)
  PROVE  IInv'
<1>t. ValuesOK /\ c \in Requests /\ c # None
  BY RequestKinds DEF IInv
<1>1. /\ request[c].pc = "unsent" /\ request[c].email = None
      /\ flow[s].stage \in {"granted", "spent"}
      /\ request'[c].browser = b /\ request'[c].state = s /\ request'[c].session = c
      /\ request'[c].pc = IF cookies[b].state = s THEN "Exchange" ELSE "error"
      /\ request'[c].email = None
      /\ Only(c)
  BY <1>t DEF SendCallback, IInv, RequestsOK, CallbackOK, ValuesOK, RequestRecords, Only
<1>2. flow' = flow /\ audit' = audit /\ sessions' = sessions /\ cookies' = cookies
  BY DEF SendCallback
<1>3. Grows
  BY <1>t, <1>1, <1>2, QuietGrows DEF Exchanged
<1>4. CallbackOK(c)'
  <2>1. cookies[b].state = s => flow[s].browser = b
    BY NamesAssumption DEF IInv, CookiesOK
  <2> QED
    BY <1>1, <1>2, <2>1 DEF CallbackOK
<1>5. RequestsOK'
  BY <1>t, <1>1, <1>3, <1>4, OneRequest, RequestKinds
<1>6. SessionsOK' /\ CookiesOK' /\ OneExchange'
  BY <1>t, <1>1, <1>2, <1>3, QuietKeeps DEF Exchanged
<1> QED
  BY <1>2, <1>5, <1>6, LogKept DEF IInv

\* A logout carries its browser's session.
LEMMA SendLogoutKeeps ==
  ASSUME IInv, ValuesOK', NEW l \in Logouts, NEW b \in Browsers, SendLogout(l, b)
  PROVE  IInv'
<1>t. ValuesOK /\ l \in Requests /\ l \notin Callbacks /\ l \notin Reads
  BY RequestKinds DEF IInv
<1>1. /\ request'[l].browser = b /\ request'[l].session = cookies[b].session
      /\ request'[l].pc = IF cookies[b].session # None THEN "GetSession" ELSE "ClearCookie"
      /\ Only(l)
  BY <1>t DEF SendLogout, ValuesOK, RequestRecords, Only
<1>2. flow' = flow /\ audit' = audit /\ sessions' = sessions /\ cookies' = cookies
  BY DEF SendLogout
<1>3. Grows
  BY <1>t, <1>1, <1>2, QuietGrows
<1>4. LogoutOK(l)'
  <2>1. cookies[b].session \in Callbacks \cup {None}
    BY <1>t DEF ValuesOK
  <2>2. cookies[b].session # None => request'[cookies[b].session].pc = "done"
    BY <1>3, <2>1 DEF IInv, CookiesOK, Grows
  <2> QED
    BY <1>1, <2>2 DEF LogoutOK
<1>5. RequestsOK'
  BY <1>t, <1>1, <1>3, <1>4, OneRequest
<1>6. SessionsOK' /\ CookiesOK' /\ OneExchange'
  BY <1>t, <1>1, <1>2, <1>3, QuietKeeps
<1> QED
  BY <1>2, <1>5, <1>6, LogKept DEF IInv

\* A read carries its browser's session.
LEMMA SendReadKeeps ==
  ASSUME IInv, ValuesOK', NEW a \in Reads, SendRead(a)
  PROVE  IInv'
<1>t. ValuesOK /\ a \in Requests /\ a \notin Callbacks /\ a \notin Logouts
  BY RequestKinds DEF IInv
<1>0. PICK id \in HandedOut \cup {None} :
        request' = [request EXCEPT ![a].session = id, ![a].over = Over,
                                   ![a].pc = IF id # None THEN "check" ELSE "error"]
  BY DEF SendRead
<1>1. /\ request'[a].session = id
      /\ request'[a].pc = IF id # None THEN "check" ELSE "error"
      /\ Only(a)
  BY <1>t, <1>0 DEF ValuesOK, RequestRecords, Only
<1>2. flow' = flow /\ audit' = audit /\ sessions' = sessions /\ cookies' = cookies
  BY DEF SendRead
<1>3. Grows
  BY <1>t, <1>1, <1>2, QuietGrows
<1>4. ReadOK(a)'
  <2>1. id # None => id \in Callbacks /\ request[id].pc = "done"
    BY DEF HandedOut
  <2>2. id # None => request'[id].pc = "done"
    BY <1>3, <2>1 DEF Grows
  <2> QED
    BY <1>1, <2>2 DEF ReadOK
<1>5. RequestsOK'
  BY <1>t, <1>1, <1>3, <1>4, OneRequest
<1>6. SessionsOK' /\ CookiesOK' /\ OneExchange'
  BY <1>t, <1>1, <1>2, <1>3, QuietKeeps
<1> QED
  BY <1>2, <1>5, <1>6, LogKept DEF IInv
-----------------------------------------------------------------------------
(* The handlers' steps.                                                      *)

\* The first exchange spends the code; a second one fails.
LEMMA ExchangeKeeps ==
  ASSUME IInv, ValuesOK', NEW c \in Callbacks, Exchange(c)
  PROVE  IInv'
<1> DEFINE s == request[c].state
<1>t. ValuesOK /\ c \in Requests /\ c # None /\ c \notin Logouts /\ c \notin Reads
  BY RequestKinds DEF IInv
<1>u. audit \in Seq(Events)
  BY <1>t DEF ValuesOK
<1>0. /\ request[c].pc = "Exchange" /\ CallbackOK(c) /\ s \in States
      /\ request[c].session = c /\ request[c].browser \in Browsers
      /\ flow[s].browser = request[c].browser /\ flow[s].stage \in {"granted", "spent"}
  BY DEF Exchange, IInv, RequestsOK, CallbackOK
<1>1. audit' = audit /\ sessions' = sessions /\ cookies' = cookies
  BY DEF Exchange
<1>2. CASE /\ flow[s].stage = "granted" /\ flow[s].email # None
           /\ flow' = [flow EXCEPT ![s].stage = "spent"]
           /\ request' = [request EXCEPT ![c].pc = "CreateSession",
                                         ![c].email = flow[s].email]
  <2>1. /\ request'[c].pc = "CreateSession" /\ request'[c].email = flow[s].email
        /\ request'[c].browser = request[c].browser /\ request'[c].state = s
        /\ request'[c].session = c /\ Only(c)
    BY <1>t, <1>0, <1>2 DEF ValuesOK, RequestRecords, Only
  <2>2. /\ flow'[s].stage = "spent" /\ flow'[s].email = flow[s].email
        /\ flow'[s].browser = flow[s].browser
        /\ \A x \in States : x # s => flow'[x] = flow[x]
    BY <1>t, <1>0, <1>2 DEF ValuesOK
  <2>3. ~Exchanged(c) /\ \A d \in Callbacks : Exchanged(d) => request[d].state # s
    BY <1>0, <1>2 DEF IInv, RequestsOK, CallbackOK, Exchanged
  <2>4. Grows
    BY <1>0, <1>1, <1>u, <2>1, <2>2, <2>3, RequestKinds DEF Grows, Only
  <2>5. CallbackOK(c)'
    BY <1>0, <1>2, <2>1, <2>2 DEF CallbackOK
  <2>6. RequestsOK'
    BY <1>t, <2>1, <2>4, <2>5, OneRequest
  <2>7. OneExchange'
    <3>1. \A d \in Callbacks : d # c => request'[d] = request[d]
      BY <2>1, RequestKinds DEF Only
    <3> QED
      BY <2>1, <2>3, <3>1 DEF IInv, OneExchange, Exchanged
  <2> QED
    BY <1>1, <2>4, <2>6, <2>7, SessionsKept, CookiesKept, LogKept DEF IInv
<1>3. CASE /\ flow' \in {flow, [flow EXCEPT ![s].stage = "spent"]}
           /\ Goto(c, "error")
  <2>1. /\ request'[c].pc = "error" /\ request'[c].email = request[c].email
        /\ request'[c].browser = request[c].browser /\ request'[c].state = s
        /\ request'[c].session = c /\ Only(c)
    BY <1>t, <1>0, <1>3, GotoOnly DEF Points
  <2>2. /\ flow'[s].stage \in {flow[s].stage, "spent"} /\ flow'[s].email = flow[s].email
        /\ flow'[s].browser = flow[s].browser
        /\ \A x \in States : x # s => flow'[x] = flow[x]
    BY <1>t, <1>0, <1>3 DEF ValuesOK
  <2>3. Grows
    BY <1>0, <1>1, <1>u, <2>1, <2>2, RequestKinds DEF Grows, Only
  <2>4. CallbackOK(c)'
    BY <1>0, <2>1, <2>2 DEF CallbackOK
  <2>5. RequestsOK'
    BY <1>t, <2>1, <2>3, <2>4, OneRequest
  <2>6. SessionsOK' /\ CookiesOK' /\ OneExchange'
    BY <1>t, <1>1, <2>1, <2>3, QuietKeeps DEF Exchanged
  <2> QED
    BY <1>1, <2>5, <2>6, LogKept DEF IInv
<1> QED
  BY <1>2, <1>3 DEF Exchange

\* A callback past its exchange goes on to the next statement or to an error.
LEMMA CallbackGoes ==
  ASSUME IInv, NEW c \in Callbacks, NEW pc \in {"AuditLogin", "SetCookie", "done", "error"},
         request[c].pc \in {"CreateSession", "AuditLogin", "SetCookie"},
         Goto(c, pc), flow' = flow, Grows,
         pc \in {"SetCookie", "done"} => LoggedIn(c, request[c].email, Len(audit) + 1)'
  PROVE  CallbackOK(c)' /\ Only(c)
<1>t. ValuesOK /\ c \in Requests /\ pc \in Points
  BY RequestKinds DEF IInv, Points
<1>1. /\ request'[c].pc = pc /\ request'[c].email = request[c].email
      /\ request'[c].browser = request[c].browser
      /\ request'[c].state = request[c].state
      /\ request'[c].session = request[c].session /\ Only(c)
  BY <1>t, GotoOnly
<1>2. CallbackOK(c)
  BY DEF IInv, RequestsOK
<1> QED
  BY <1>1, <1>2 DEF CallbackOK

\* Moving a request that is not a finished callback undoes nothing.
LEMMA GotoGrows ==
  ASSUME IInv, NEW r \in Requests, NEW pc \in Points, Goto(r, pc),
         r \in Callbacks => request[r].pc # "done",
         flow' = flow, audit' = audit
  PROVE  Grows
BY GotoOnly, QuietGrows DEF IInv

\* The row is stored under the callback's own id and account.
LEMMA CreateSessionKeeps ==
  ASSUME IInv, ValuesOK', NEW c \in Callbacks, CreateSession(c)
  PROVE  IInv'
<1>t. ValuesOK /\ c \in Requests /\ c # None /\ c \notin Logouts /\ c \notin Reads
  BY RequestKinds DEF IInv
<1>1. /\ request[c].pc = "CreateSession"
      /\ flow' = flow /\ cookies' = cookies /\ audit' = audit
  BY DEF CreateSession
<1>2. PICK pc \in {"AuditLogin", "error"} : Goto(c, pc)
  BY DEF CreateSession
<1>3. pc \in Points
  BY DEF Points
<1>4. Grows
  BY <1>t, <1>1, <1>2, <1>3, GotoGrows
<1>5. CallbackOK(c)' /\ Only(c)
  BY <1>1, <1>2, <1>4, CallbackGoes
<1>6. RequestsOK'
  BY <1>t, <1>4, <1>5, OneRequest
<1>7. request'[c].email = request[c].email
  BY <1>t, <1>2, <1>3, GotoOnly
<1>8. CookiesOK' /\ OneExchange'
  <2>1. \A d \in Callbacks : Exchanged(d)' => Exchanged(d)
    BY <1>5, <1>7, RequestKinds DEF Only, Exchanged
  <2> QED
    BY <1>1, <1>4, <2>1, CookiesKept, ExchangesKept
<1>9. SessionsOK'
  <2>1. \A s \in sessions : s.email = request'[s.id].email
    <3> SUFFICES ASSUME NEW s \in sessions PROVE s.email = request'[s.id].email
      OBVIOUS
    <3>1. s.id \in Callbacks
      BY <1>t DEF ValuesOK, Sessions
    <3> QED
      BY <1>5, <1>7, <3>1, RequestKinds DEF IInv, SessionsOK, Only
  <2>2. \A s \in sessions' : s \in sessions \/ (s.id = c /\ s.email = request[c].email)
    BY DEF CreateSession
  <2> QED
    BY <1>7, <2>1, <2>2 DEF SessionsOK
<1> QED
  BY <1>1, <1>6, <1>8, <1>9, LogKept DEF IInv

\* The login is logged before the cookie is handed out.
LEMMA AuditLoginKeeps ==
  ASSUME IInv, ValuesOK', NEW c \in Callbacks, AuditLogin(c)
  PROVE  IInv'
<1>t. ValuesOK /\ c \in Requests /\ c # None /\ c \notin Logouts /\ c \notin Reads
  BY RequestKinds DEF IInv
<1>u. audit \in Seq(Events) /\ Len(audit) \in Nat
  BY <1>t DEF ValuesOK
<1>0. /\ request[c].pc = "AuditLogin"
      /\ flow' = flow /\ cookies' = cookies /\ sessions' = sessions
  BY DEF AuditLogin
<1>1. ASSUME NEW pc \in {"SetCookie", "error"}, Goto(c, pc), Grows, LogoutsLogged',
             pc = "SetCookie" => LoggedIn(c, request[c].email, Len(audit) + 1)'
      PROVE  IInv'
  <2>1. pc \in Points
    BY DEF Points
  <2>2. CallbackOK(c)' /\ Only(c)
    BY <1>0, <1>1, CallbackGoes
  <2>3. RequestsOK'
    BY <1>t, <1>1, <2>2, OneRequest
  <2>4. request'[c].email = request[c].email
    BY <1>t, <1>1, <2>1, GotoOnly
  <2>5. SessionsOK' /\ CookiesOK' /\ OneExchange'
    BY <1>t, <1>0, <1>1, <2>2, <2>4, QuietKeeps DEF Exchanged
  <2> QED
    BY <1>1, <2>3, <2>5 DEF IInv
<1>2. CASE audit' = Append(audit, Event("login", c, request[c].email)) /\ Goto(c, "SetCookie")
  <2> DEFINE e == Event("login", c, request[c].email)
  <2>1. request[c].session = c /\ request[c].email # None
    BY <1>0 DEF IInv, RequestsOK, CallbackOK
  <2>2. e \in Events /\ e = [event |-> "login", email |-> request[c].email, session |-> c]
    BY <1>t, <2>1, EventTyped DEF Event
  <2>3. "SetCookie" \in Points
    BY DEF Points
  <2>4. /\ Len(audit') = Len(audit) + 1 /\ audit'[Len(audit) + 1] = e
        /\ \A i \in 1..Len(audit) : audit'[i] = audit[i]
    BY <1>2, <1>u, <2>2
  <2>5. Grows
    <3>1. /\ Only(c) /\ request'[c].email = request[c].email
          /\ request'[c].state = request[c].state /\ request'[c].browser = request[c].browser
      BY <1>t, <1>2, <2>3, GotoOnly
    <3> QED
      BY <1>0, <1>u, <2>4, <3>1, RequestKinds DEF Grows, Only
  <2>6. e.event = "login"
    BY <2>2
  <2>7. LogoutsLogged'
    BY <1>2, <2>2, <2>5, <2>6, LogExtended
  <2>8. LoggedIn(c, request[c].email, Len(audit) + 1)'
    <3>1. request'[c].email = request[c].email
      BY <1>t, <1>2, <2>3, GotoOnly
    <3>2. Len(audit) + 1 \in 1..(Len(audit') + 1 - 1)
      BY <1>u, <2>4
    <3> QED
      BY <2>2, <2>4, <3>1, <3>2 DEF LoggedIn
  <2> QED
    BY <1>1, <1>2, <2>5, <2>7, <2>8
<1>3. CASE Goto(c, "error") /\ audit' = audit
  <2>1. "error" \in Points
    BY DEF Points
  <2>2. Grows /\ LogoutsLogged'
    BY <1>t, <1>0, <1>3, <2>1, GotoGrows, LogKept
  <2> QED
    BY <1>1, <1>3, <2>2
<1> QED
  BY <1>2, <1>3 DEF AuditLogin

\* The cookie goes to the browser that began the login.
LEMMA SetCookieKeeps ==
  ASSUME IInv, ValuesOK', NEW c \in Callbacks, SetCookie(c)
  PROVE  IInv'
<1>t. ValuesOK /\ c \in Requests /\ c # None /\ c \notin Logouts /\ c \notin Reads
  BY RequestKinds DEF IInv
<1>u. audit \in Seq(Events) /\ "done" \in Points
  BY <1>t DEF ValuesOK, Points
<1>0. /\ request[c].pc = "SetCookie" /\ Goto(c, "done")
      /\ flow' = flow /\ audit' = audit /\ sessions' = sessions
  BY DEF SetCookie
<1>1. Grows
  BY <1>t, <1>u, <1>0, GotoGrows
<1>2. /\ Only(c) /\ request'[c].pc = "done" /\ request'[c].email = request[c].email
      /\ request'[c].browser = request[c].browser
  BY <1>t, <1>u, <1>0, GotoOnly
<1>3. LoggedIn(c, request[c].email, Len(audit) + 1)'
  BY <1>0, <1>2 DEF IInv, RequestsOK, CallbackOK, LoggedIn
<1>4. RequestsOK'
  BY <1>t, <1>0, <1>1, <1>2, <1>3, CallbackGoes, OneRequest
<1>5. SessionsOK' /\ OneExchange'
  <2>1. \A d \in Callbacks : Exchanged(d)' => Exchanged(d)
    BY <1>2, RequestKinds DEF Only, Exchanged
  <2> QED
    BY <1>0, <1>1, <2>1, SessionsKept, ExchangesKept
<1>6. CookiesOK'
  <2> SUFFICES ASSUME NEW b \in Browsers
               PROVE  /\ cookies'[b].session # None =>
                           /\ request'[cookies'[b].session].pc = "done"
                           /\ request'[cookies'[b].session].browser = b
                      /\ cookies'[b].state # None =>
                           /\ flow'[cookies'[b].state].browser = b
                           /\ flow'[cookies'[b].state].stage # "unused"
    BY DEF CookiesOK
  <2>1. /\ cookies'[b].state = cookies[b].state
        /\ cookies'[b].session = IF b = request[c].browser THEN c ELSE cookies[b].session
    BY <1>t DEF SetCookie, ValuesOK
  <2>2. cookies[b].session \in Callbacks \cup {None}
    BY <1>t DEF ValuesOK
  <2>3. cookies[b].session # None => /\ request'[cookies[b].session].pc = "done"
                                     /\ request'[cookies[b].session].browser = b
    BY <1>1, <2>2 DEF IInv, CookiesOK, Grows
  <2> QED
    BY <1>0, <1>2, <2>1, <2>3 DEF IInv, CookiesOK
<1> QED
  BY <1>0, <1>4, <1>5, <1>6, LogKept DEF IInv

\* A logout's or a read's step touches neither the logins nor the callbacks.
LEMMA OtherGoes ==
  ASSUME IInv, ValuesOK', NEW r \in Logouts \cup Reads, Only(r), Grows,
         r \in Logouts => LogoutOK(r)', r \in Reads => ReadOK(r)',
         sessions' \subseteq sessions,
         \A b \in Browsers : /\ cookies'[b].session \in {cookies[b].session, None}
                             /\ cookies'[b].state \in {cookies[b].state, None}
  PROVE  RequestsOK' /\ SessionsOK' /\ CookiesOK' /\ OneExchange'
<1>t. r \in Requests /\ r \notin Callbacks
  BY RequestKinds
<1>1. RequestsOK'
  BY <1>t, OneRequest
<1>2. \A c \in Callbacks : Exchanged(c)' => Exchanged(c)
  BY <1>t, RequestKinds DEF Only, Exchanged
<1> QED
  BY <1>1, <1>2, SessionsKept, CookiesKept, ExchangesKept

\* A logout logs only sessions whose login is logged.
LEMMA LogoutStepKeeps ==
  ASSUME IInv, ValuesOK', NEW l \in Logouts,
         LookUp(l) \/ AuditLogout(l) \/ DeleteSession(l) \/ ClearCookie(l)
  PROVE  IInv'
<1>t. ValuesOK /\ l \in Requests /\ l \notin Callbacks /\ l \notin Reads
  BY RequestKinds DEF IInv
<1>u. audit \in Seq(Events) /\ Len(audit) \in Nat
  BY <1>t DEF ValuesOK
<1>0. LogoutOK(l) /\ request[l].session \in Callbacks \cup {None}
  BY <1>t DEF IInv, RequestsOK, ValuesOK, RequestRecords
<1>p. {"AuditLogout", "DeleteSession", "ClearCookie", "done"} \subseteq Points
  BY DEF Points
<1>d. Grows /\ request[l].session # None =>
        request'[request[l].session] = request[request[l].session]
  BY <1>0 DEF LogoutOK, Grows
<1>1. CASE LookUp(l)
  <2>0. /\ request[l].pc = "GetSession" /\ flow' = flow /\ cookies' = cookies
        /\ sessions' = sessions /\ audit' = audit
    BY <1>1 DEF LookUp
  <2>1. CASE \E s \in Valid(request[l].session) :
               request' = [request EXCEPT ![l].pc = "AuditLogout", ![l].email = s.email]
    <3>1. PICK s \in sessions :
            /\ s.id = request[l].session
            /\ request' = [request EXCEPT ![l].pc = "AuditLogout", ![l].email = s.email]
      BY <2>1 DEF Valid
    <3>2. /\ request'[l].pc = "AuditLogout" /\ request'[l].email = s.email
          /\ request'[l].session = request[l].session
          /\ request'[l].browser = request[l].browser /\ Only(l)
      BY <1>t, <3>1 DEF ValuesOK, RequestRecords, Only
    <3>3. Grows
      BY <1>t, <2>0, <3>2, QuietGrows
    <3>4. LogoutOK(l)'
      BY <1>0, <1>d, <2>0, <3>1, <3>2, <3>3 DEF LogoutOK, IInv, SessionsOK
    <3> QED
      BY <1>t, <2>0, <3>2, <3>3, <3>4, OtherGoes, LogKept DEF IInv
  <2>2. CASE Goto(l, "DeleteSession")
    <3>1. /\ Only(l) /\ request'[l].pc = "DeleteSession"
          /\ request'[l].browser = request[l].browser
          /\ request'[l].session = request[l].session
      BY <1>t, <1>p, <2>2, GotoOnly
    <3>2. Grows
      BY <1>t, <2>0, <3>1, QuietGrows
    <3>3. LogoutOK(l)'
      BY <1>0, <1>d, <2>0, <3>1, <3>2 DEF LogoutOK
    <3> QED
      BY <1>t, <2>0, <3>1, <3>2, <3>3, OtherGoes, LogKept DEF IInv
  <2> QED
    BY <1>1, <2>1, <2>2 DEF LookUp
<1>2. CASE AuditLogout(l)
  <2>0. /\ request[l].pc = "AuditLogout" /\ Goto(l, "DeleteSession")
        /\ flow' = flow /\ cookies' = cookies /\ sessions' = sessions
    BY <1>2 DEF AuditLogout
  <2>1. /\ Only(l) /\ request'[l].pc = "DeleteSession"
        /\ request'[l].browser = request[l].browser
        /\ request'[l].session = request[l].session
    BY <1>t, <1>p, <2>0, GotoOnly
  <2>2. Grows /\ LogoutsLogged'
    <3>1. CASE audit' = Append(audit, Event("logout", l, request[l].email))
      <4> DEFINE e == Event("logout", l, request[l].email)
                 c == request[l].session
      <4>1. c \in Callbacks /\ request[c].pc = "done" /\ request[l].email = request[c].email
        BY <1>0, <2>0 DEF LogoutOK
      <4>2. request[c].email # None /\ LoggedIn(c, request[c].email, Len(audit) + 1)
        BY <4>1 DEF IInv, RequestsOK, CallbackOK
      <4>3. e \in Events
        BY <1>t, <4>1, <4>2, NamesAssumption, EventTyped
      <4>4. e.session = c /\ e.email = request[c].email
        BY <4>1 DEF Event
      <4>5. /\ Len(audit') = Len(audit) + 1
            /\ \A i \in 1..Len(audit) : audit'[i] = audit[i]
        BY <1>u, <3>1, <4>3
      <4>6. Grows
        BY <1>t, <1>u, <2>0, <2>1, <4>5, RequestKinds DEF Grows, Only, Exchanged
      <4>7. LogoutsLogged'
        BY <3>1, <4>2, <4>3, <4>4, <4>6, LogExtended
      <4> QED
        BY <4>6, <4>7
    <3>2. CASE audit' = audit
      BY <1>t, <2>0, <2>1, <3>2, QuietGrows, LogKept
    <3> QED
      BY <1>2, <3>1, <3>2 DEF AuditLogout
  <2>3. LogoutOK(l)'
    BY <1>0, <1>d, <2>0, <2>1, <2>2 DEF LogoutOK
  <2> QED
    BY <1>t, <2>0, <2>1, <2>2, <2>3, OtherGoes DEF IInv
<1>3. CASE DeleteSession(l)
  <2>0. /\ request[l].pc = "DeleteSession" /\ Goto(l, "ClearCookie")
        /\ flow' = flow /\ cookies' = cookies /\ audit' = audit
        /\ sessions' \subseteq sessions
    BY <1>3 DEF DeleteSession
  <2>1. /\ Only(l) /\ request'[l].pc = "ClearCookie"
        /\ request'[l].browser = request[l].browser
        /\ request'[l].session = request[l].session
    BY <1>t, <1>p, <2>0, GotoOnly
  <2>2. Grows
    BY <1>t, <2>0, <2>1, QuietGrows
  <2>3. LogoutOK(l)'
    BY <1>0, <1>d, <2>0, <2>1, <2>2 DEF LogoutOK
  <2> QED
    BY <1>t, <2>0, <2>1, <2>2, <2>3, OtherGoes, LogKept DEF IInv
<1>4. CASE ClearCookie(l)
  <2>0. /\ request[l].pc = "ClearCookie" /\ Goto(l, "done")
        /\ flow' = flow /\ sessions' = sessions /\ audit' = audit
    BY <1>4 DEF ClearCookie
  <2>1. /\ Only(l) /\ request'[l].pc = "done"
        /\ request'[l].browser = request[l].browser
        /\ request'[l].session = request[l].session
    BY <1>t, <1>p, <2>0, GotoOnly
  <2>2. Grows
    BY <1>t, <2>0, <2>1, QuietGrows
  <2>3. LogoutOK(l)'
    BY <1>0, <1>d, <2>0, <2>1, <2>2 DEF LogoutOK
  <2>4. \A b \in Browsers : /\ cookies'[b].session \in {cookies[b].session, None}
                            /\ cookies'[b].state \in {cookies[b].state, None}
    BY <1>t, <1>4 DEF ClearCookie, ValuesOK
  <2> QED
    BY <1>t, <2>0, <2>1, <2>2, <2>3, <2>4, OtherGoes, LogKept DEF IInv
<1> QED
  BY <1>1, <1>2, <1>3, <1>4

\* A read is served under the account of its session.
LEMMA ReadStepKeeps ==
  ASSUME IInv, ValuesOK', NEW a \in Reads, Check(a) \/ ServeRead(a)
  PROVE  IInv'
<1>t. ValuesOK /\ a \in Requests /\ a \notin Callbacks /\ a \notin Logouts
  BY RequestKinds DEF IInv
<1>0. /\ ReadOK(a) /\ request[a].session \in Callbacks \cup {None}
      /\ flow' = flow /\ cookies' = cookies /\ sessions' = sessions /\ audit' = audit
  BY <1>t DEF IInv, RequestsOK, ValuesOK, RequestRecords, Check, ServeRead
<1>p. {"error", "done"} \subseteq Points
  BY DEF Points
<1>1. ASSUME Only(a), ReadOK(a)' PROVE IInv'
  <2>1. Grows
    BY <1>t, <1>0, <1>1, QuietGrows
  <2> QED
    BY <1>t, <1>0, <1>1, <2>1, OtherGoes, LogKept DEF IInv
<1>2. CASE Check(a)
  <2>1. CASE \E s \in Valid(request[a].session) :
               request' = [request EXCEPT ![a].pc = "serve", ![a].email = s.email]
    <3>1. PICK s \in sessions :
            /\ s.id = request[a].session
            /\ request' = [request EXCEPT ![a].pc = "serve", ![a].email = s.email]
      BY <2>1 DEF Valid
    <3>2. /\ request'[a].pc = "serve" /\ request'[a].email = s.email
          /\ request'[a].session = request[a].session /\ Only(a)
      BY <1>t, <3>1 DEF ValuesOK, RequestRecords, Only
    <3>3. request[a].session # None /\ request'[request[a].session] = request[request[a].session]
      BY <1>0, <1>2, <3>2, RequestKinds DEF ReadOK, Check, Only
    <3>4. ReadOK(a)'
      BY <1>0, <1>2, <3>1, <3>2, <3>3 DEF ReadOK, Check, IInv, SessionsOK
    <3> QED
      BY <1>1, <3>2, <3>4
  <2>2. CASE Goto(a, "error")
    <3>1. Only(a) /\ request'[a].pc = "error"
      BY <1>t, <1>p, <2>2, GotoOnly
    <3>2. ReadOK(a)'
      BY <3>1 DEF ReadOK
    <3> QED
      BY <1>1, <3>1, <3>2
  <2> QED
    BY <1>2, <2>1, <2>2 DEF Check
<1>3. CASE ServeRead(a)
  <2>0. request[a].pc = "serve" /\ Goto(a, "done")
    BY <1>3 DEF ServeRead
  <2>1. /\ Only(a) /\ request'[a].pc = "done" /\ request'[a].email = request[a].email
        /\ request'[a].session = request[a].session
    BY <1>t, <1>p, <2>0, GotoOnly
  <2>2. request[a].session # None /\ request'[request[a].session] = request[request[a].session]
    BY <1>0, <2>0, <2>1, RequestKinds DEF ReadOK, Only
  <2>3. ReadOK(a)'
    BY <1>0, <2>0, <2>1, <2>2 DEF ReadOK
  <2> QED
    BY <1>1, <2>1, <2>3
<1> QED
  BY <1>2, <1>3

\* A restart ends requests and leaves all they have done so far.
LEMMA CrashKeeps == ASSUME IInv, ValuesOK', Crash PROVE IInv'
<1>t. ValuesOK /\ audit \in Seq(Events)
  BY DEF IInv, ValuesOK
<1>0. flow' = flow /\ cookies' = cookies /\ sessions' = sessions /\ audit' = audit
  BY DEF Crash
<1>1. \A r \in Requests :
        \/ request'[r] = request[r]
        \/ /\ Sent(r) /\ request'[r].pc = "lost"
           /\ request'[r].email = request[r].email
           /\ request'[r].state = request[r].state
           /\ request'[r].session = request[r].session
           /\ request'[r].browser = request[r].browser
  BY <1>t DEF Crash, ValuesOK, RequestRecords
<1>2. Grows
  BY <1>t, <1>0, <1>1, RequestKinds DEF Grows, Exchanged, Sent
<1>3. ASSUME NEW c \in Callbacks PROVE CallbackOK(c)'
  <2>1. CASE request'[c] = request[c]
    BY <1>2, <2>1, CallbackKept
  <2>2. CASE Sent(c) /\ request'[c].pc = "lost"
    <3>1. CallbackOK(c) /\ request[c].pc # "unsent"
      BY <2>2 DEF IInv, RequestsOK, Sent
    <3> QED
      BY <1>0, <1>1, <2>2, <3>1, RequestKinds DEF CallbackOK
  <2> QED
    BY <1>1, <2>1, <2>2, RequestKinds
<1>4. ASSUME NEW l \in Logouts PROVE LogoutOK(l)'
  <2>1. CASE request'[l] = request[l]
    BY <1>2, <2>1, LogoutKept
  <2>2. CASE Sent(l) /\ request'[l].pc = "lost"
    <3>1. /\ LogoutOK(l) /\ request[l].pc # "unsent"
          /\ request[l].session \in Callbacks \cup {None}
      BY <1>t, <2>2, RequestKinds DEF IInv, RequestsOK, Sent, ValuesOK, RequestRecords
    <3>2. request[l].session # None => request'[request[l].session].pc = "done"
      BY <1>2, <3>1 DEF LogoutOK, Grows
    <3>3. request'[l].session = request[l].session /\ request'[l].browser = request[l].browser
      BY <1>1, <2>2, RequestKinds
    <3> QED
      BY <2>2, <3>1, <3>2, <3>3 DEF LogoutOK
  <2> QED
    BY <1>1, <2>1, <2>2, RequestKinds
<1>5. ASSUME NEW a \in Reads PROVE ReadOK(a)'
  <2>1. CASE request'[a] = request[a]
    BY <1>2, <2>1, ReadKept
  <2>2. CASE request'[a].pc = "lost"
    BY <2>2 DEF ReadOK
  <2> QED
    BY <1>1, <2>1, <2>2, RequestKinds
<1>6. RequestsOK'
  BY <1>3, <1>4, <1>5 DEF RequestsOK
<1>7. SessionsOK' /\ CookiesOK' /\ OneExchange'
  <2>1. \A c \in Callbacks : Exchanged(c)' => Exchanged(c)
    BY <1>1, RequestKinds DEF Exchanged
  <2> QED
    BY <1>0, <1>2, <2>1, SessionsKept, CookiesKept, ExchangesKept
<1> QED
  BY <1>0, <1>6, <1>7, LogKept DEF IInv

\* Every step keeps the invariant.
LEMMA StepInvariant == IInv /\ [Next]_vars => IInv'
<1> SUFFICES ASSUME IInv, [Next]_vars PROVE IInv'
  OBVIOUS
<1>t. ValuesOK'
  BY NextTyped
<1>1. CASE Browse
  BY <1>t, <1>1, LoginKeeps, SendCallbackKeeps, StateExpiresKeeps, SendLogoutKeeps DEF Browse
<1>2. CASE \E r \in Requests : Step(r)
  BY <1>t, <1>2, ExchangeKeeps, CreateSessionKeeps, AuditLoginKeeps, SetCookieKeeps,
     LogoutStepKeeps, ReadStepKeeps DEF Step
<1>3. CASE Tick \/ UNCHANGED vars
  <2>1. /\ flow' = flow /\ cookies' = cookies /\ request' = request
        /\ sessions' = sessions /\ audit' = audit
    BY <1>3 DEF Tick, vars
  <2>2. audit \in Seq(Events)
    BY DEF IInv, ValuesOK
  <2>3. Grows
    BY <2>1, <2>2 DEF Grows
  <2> QED
    BY <1>t, <2>1, <2>3, NoneChanges, SessionsKept, CookiesKept, ExchangesKept, LogKept
    DEF IInv, Exchanged
<1> QED
  BY <1>t, <1>1, <1>2, <1>3, SendReadKeeps, GrantKeeps, CrashKeeps DEF Next

\* The invariant holds throughout.
LEMMA SsoInvariance == Spec => []IInv
BY InitInvariant, StepInvariant, PTL DEF Spec
-----------------------------------------------------------------------------
\* Cookies, goroutines and rows only ever hold values of their kind.
THEOREM TypeCorrect == Spec => []TypeOK
<1>1. IInv => TypeOK
  BY DEF IInv, SessionsOK, TypeOK
<1> QED
  BY <1>1, SsoInvariance, PTL

\* Whatever fails and whenever the portal restarts, nobody is served and no
\* logout is logged whose login is not in the audit log before.
THEOREM ServiceFollowsLog == Spec => []ServedLoginIsAudited
<1>1. IInv => ServedLoginIsAudited
  <2> SUFFICES ASSUME IInv PROVE ServedLoginIsAudited
    OBVIOUS
  <2>1. ASSUME NEW a \in Reads, request[a].pc \in {"serve", "done"}
        PROVE  LoggedIn(request[a].session, request[a].email, Len(audit) + 1)
    <3>1. /\ request[a].session \in Callbacks \cup {None} /\ request[a].session # None
          /\ request[request[a].session].pc = "done"
          /\ request[a].email = request[request[a].session].email
      BY <2>1, RequestKinds DEF IInv, RequestsOK, ReadOK, ValuesOK, RequestRecords
    <3> QED
      BY <3>1 DEF IInv, RequestsOK, CallbackOK
  <2> QED
    BY <2>1 DEF ServedLoginIsAudited, IInv, LogoutsLogged
<1> QED
  BY <1>1, SsoInvariance, PTL

\* A browser never holds the session of a login another browser began.
THEOREM SessionsStayPut == Spec => []SessionStaysWithItsBrowser
<1>1. IInv => SessionStaysWithItsBrowser
  <2> SUFFICES ASSUME IInv, NEW b \in Browsers, cookies[b].session # None
               PROVE  /\ flow[request[cookies[b].session].state].browser = b
                      /\ flow[request[cookies[b].session].state].email
                           = request[cookies[b].session].email
    BY DEF SessionStaysWithItsBrowser
  <2>1. cookies[b].session \in Callbacks
    BY DEF IInv, ValuesOK
  <2>2. /\ request[cookies[b].session].pc = "done"
        /\ request[cookies[b].session].browser = b
        /\ CallbackOK(cookies[b].session)
    BY <2>1 DEF IInv, CookiesOK, RequestsOK
  <2> QED
    BY <2>2 DEF CallbackOK
<1> QED
  BY <1>1, SsoInvariance, PTL

\* One login never yields two sessions.
THEOREM LoginsAreSpentOnce == Spec => []OneSessionPerLogin
<1>1. IInv => OneSessionPerLogin
  <2> SUFFICES ASSUME IInv PROVE OneSessionPerLogin
    OBVIOUS
  <2>1. ASSUME NEW s \in sessions PROVE s.id \in Callbacks /\ Exchanged(s.id)
    <3>1. s.id \in Callbacks /\ s.email \in Emails /\ s.email = request[s.id].email
      BY DEF IInv, ValuesOK, Sessions, SessionsOK
    <3> QED
      BY <3>1, NamesAssumption DEF Exchanged
  <2> QED
    BY <2>1 DEF OneSessionPerLogin, IInv, OneExchange
<1> QED
  BY <1>1, SsoInvariance, PTL
-----------------------------------------------------------------------------
(* Revocation.                                                               *)

\* A logout past its deletion has no row left, and reads know of no logout
\* that is not over.
Revoked(l) ==
  request[l].pc \in {"ClearCookie", "done"} /\ request[l].session # None =>
    \A s \in sessions : s.id # request[l].session
RInv == /\ \A l \in Logouts : Revoked(l)
        /\ \A a \in Reads : request[a].over \subseteq Over
        /\ LogoutRevokes

\* No deleted session comes back: a logged-out session was a finished
\* callback's, which does not create another row.
LEMMA RevokedKept ==
  ASSUME IInv, RInv, [Next]_vars, NEW l \in Logouts, request'[l] = request[l]
  PROVE  Revoked(l)'
<1>t. request[l].session \in Callbacks \cup {None}
  BY RequestKinds DEF IInv, ValuesOK, RequestRecords
<1>1. ASSUME NEW c \in Callbacks, CreateSession(c), request[l].session # None
      PROVE  c # request[l].session
  BY <1>1 DEF CreateSession, IInv, RequestsOK, LogoutOK
<1>2. \A s \in sessions' :
        s \in sessions \/ \E c \in Callbacks : CreateSession(c) /\ s.id = c
  <2>1. ASSUME NEW r \in Requests, Step(r)
        PROVE  \A s \in sessions' :
                 s \in sessions \/ \E c \in Callbacks : CreateSession(c) /\ s.id = c
    <3>1. CASE r \in Callbacks /\ CreateSession(r)
      BY <3>1 DEF CreateSession
    <3>2. CASE sessions' \subseteq sessions
      BY <3>2
    <3> QED
      BY <2>1, <3>1, <3>2 DEF Step, Exchange, AuditLogin, SetCookie, LookUp, AuditLogout,
         DeleteSession, ClearCookie, Check, ServeRead
  <2> QED
    BY <2>1 DEF Next, Browse, Login, SendCallback, StateExpires, SendLogout, SendRead, Grant,
       Crash, Tick, vars
<1> QED
  BY <1>1, <1>2 DEF RInv, Revoked

\* A step of one request: what is left to show is about that request.
LEMMA RevocationOf ==
  ASSUME IInv, RInv, [Next]_vars, NEW r \in Requests, Only(r),
         r \in Logouts => request[r].pc # "done" /\ Revoked(r)',
         r \in Reads => /\ request'[r].over \subseteq Over
                        /\ request'[r].pc \in {"serve", "done"} =>
                             request'[r].session \notin request'[r].over
  PROVE  RInv'
<1>1. \A l \in Logouts : Revoked(l)'
  BY RevokedKept, RequestKinds DEF Only
<1>2. Over \subseteq Over'
  BY RequestKinds DEF Over, Only
<1>3. ASSUME NEW a \in Reads
      PROVE  /\ request'[a].over \subseteq Over'
             /\ request'[a].pc \in {"serve", "done"} => request'[a].session \notin request'[a].over
  <2>1. CASE a = r
    BY <1>2, <2>1
  <2>2. CASE a # r
    <3>1. request'[a] = request[a]
      BY <2>2, RequestKinds DEF Only
    <3> QED
      BY <1>2, <3>1 DEF RInv, LogoutRevokes
  <2> QED
    BY <2>1, <2>2
<1> QED
  BY <1>1, <1>3 DEF RInv, LogoutRevokes

\* Every step keeps what is known of revoked sessions.
LEMMA RevocationStep ==
  ASSUME "DeleteSession" \notin Faults, IInv, RInv, [Next]_vars
  PROVE  RInv'
<1>t. ValuesOK
  BY DEF IInv
<1>p. Points = {"unsent", "Exchange", "CreateSession", "AuditLogin", "SetCookie",
                "GetSession", "AuditLogout", "DeleteSession", "ClearCookie",
                "check", "serve", "done", "error", "lost"}
  BY DEF Points
<1>0. ASSUME request' = request PROVE RInv'
  BY <1>0, RevokedKept DEF RInv, Over, LogoutRevokes
<1>1. ASSUME NEW c \in Callbacks, Only(c) PROVE RInv'
  BY <1>1, RevocationOf, RequestKinds
<1>2. ASSUME NEW c \in Callbacks, NEW b \in Browsers, NEW s \in States, SendCallback(c, b, s)
      PROVE  RInv'
  BY <1>t, <1>1, <1>2, RequestKinds DEF SendCallback, ValuesOK, Only
<1>3. ASSUME NEW l \in Logouts, NEW b \in Browsers, SendLogout(l, b) PROVE RInv'
  <2>1. /\ Only(l) /\ request[l].pc = "unsent" /\ request'[l].session = cookies[b].session
        /\ request'[l].pc = IF cookies[b].session # None THEN "GetSession" ELSE "ClearCookie"
    BY <1>t, <1>3, RequestKinds DEF SendLogout, ValuesOK, RequestRecords, Only
  <2>2. Revoked(l)'
    BY <2>1 DEF Revoked
  <2> QED
    BY <2>1, <2>2, RevocationOf, RequestKinds
<1>4. ASSUME NEW a \in Reads, SendRead(a) PROVE RInv'
  <2>1. PICK id \in HandedOut \cup {None} :
          request' = [request EXCEPT ![a].session = id, ![a].over = Over,
                                     ![a].pc = IF id # None THEN "check" ELSE "error"]
    BY <1>4 DEF SendRead
  <2>2. Only(a) /\ request'[a].over = Over /\ request'[a].pc \in {"check", "error"}
    BY <1>t, <2>1, RequestKinds DEF ValuesOK, RequestRecords, Only
  <2> QED
    BY <2>2, RevocationOf, RequestKinds
<1>5. ASSUME NEW c \in Callbacks,
             Exchange(c) \/ CreateSession(c) \/ AuditLogin(c) \/ SetCookie(c)
      PROVE  RInv'
  <2>1. Only(c)
    BY <1>t, <1>5, RequestKinds
    DEF Exchange, CreateSession, AuditLogin, SetCookie, Goto, ValuesOK, Only
  <2> QED
    BY <1>1, <2>1
<1>6. ASSUME NEW l \in Logouts,
             LookUp(l) \/ AuditLogout(l) \/ DeleteSession(l) \/ ClearCookie(l)
      PROVE  RInv'
  <2>1. l \in Requests /\ l \notin Reads
    BY RequestKinds
  <2>2. CASE LookUp(l) \/ AuditLogout(l)
    <3>1. /\ Only(l) /\ request[l].pc # "done"
          /\ request'[l].pc \in {"AuditLogout", "DeleteSession"}
      BY <1>t, <2>1, <2>2 DEF LookUp, AuditLogout, Goto, ValuesOK, RequestRecords, Only
    <3>2. Revoked(l)'
      BY <3>1 DEF Revoked
    <3> QED
      BY <2>1, <3>1, <3>2, RevocationOf
  <2>3. CASE DeleteSession(l)
    <3>1. /\ request[l].pc = "DeleteSession" /\ Goto(l, "ClearCookie")
          /\ sessions' = {s \in sessions : s.id # request[l].session}
      BY <2>3 DEF DeleteSession, MayFail
    <3>2. Only(l) /\ request'[l].session = request[l].session
      BY <1>t, <1>p, <2>1, <3>1, GotoOnly
    <3>3. Revoked(l)'
      BY <3>1, <3>2 DEF Revoked
    <3> QED
      BY <2>1, <3>1, <3>2, <3>3, RevocationOf
  <2>4. CASE ClearCookie(l)
    <3>1. request[l].pc = "ClearCookie" /\ Goto(l, "done") /\ sessions' = sessions
      BY <2>4 DEF ClearCookie
    <3>2. Only(l) /\ request'[l].session = request[l].session
      BY <1>t, <1>p, <2>1, <3>1, GotoOnly
    <3>3. Revoked(l)'
      BY <3>1, <3>2 DEF RInv, Revoked
    <3> QED
      BY <2>1, <3>1, <3>2, <3>3, RevocationOf
  <2> QED
    BY <1>6, <2>2, <2>3, <2>4
<1>7. ASSUME NEW a \in Reads, Check(a) PROVE RInv'
  <2>1. a \in Requests /\ a \notin Logouts
    BY RequestKinds
  <2>2. CASE \E s \in Valid(request[a].session) :
               request' = [request EXCEPT ![a].pc = "serve", ![a].email = s.email]
    <3>1. PICK s \in sessions :
            /\ s.id = request[a].session
            /\ request' = [request EXCEPT ![a].pc = "serve", ![a].email = s.email]
      BY <2>2 DEF Valid
    <3>2. /\ Only(a) /\ request'[a].over = request[a].over
          /\ request'[a].session = request[a].session
      BY <1>t, <2>1, <3>1 DEF ValuesOK, RequestRecords, Only
    <3>3. \A id \in Over : s.id # id
      BY DEF RInv, Revoked, Over
    <3>4. request[a].over \subseteq Over
      BY DEF RInv
    <3> QED
      BY <2>1, <3>1, <3>2, <3>3, <3>4, RevocationOf
  <2>3. CASE Goto(a, "error")
    <3>1. /\ Only(a) /\ request'[a].pc = "error"
          /\ request'[a].over = request[a].over
      BY <1>t, <2>1, <2>3 DEF Goto, ValuesOK, RequestRecords, Only
    <3> QED
      BY <2>1, <3>1, RevocationOf DEF RInv
  <2> QED
    BY <1>7, <2>2, <2>3 DEF Check
<1>8. ASSUME NEW a \in Reads, ServeRead(a) PROVE RInv'
  <2>1. /\ Only(a) /\ request[a].pc = "serve" /\ request'[a].over = request[a].over
        /\ request'[a].session = request[a].session
    BY <1>t, <1>8, RequestKinds DEF ServeRead, Goto, ValuesOK, RequestRecords, Only
  <2> QED
    BY <2>1, RevocationOf, RequestKinds DEF RInv, LogoutRevokes
<1>9. CASE Crash
  <2>1. \A r \in Requests : \/ request'[r] = request[r]
                            \/ /\ request'[r].pc = "lost" /\ request[r].pc # "done"
                               /\ request'[r].over = request[r].over
    BY <1>t, <1>9 DEF Crash, Sent, ValuesOK, RequestRecords
  <2>2. \A l \in Logouts : Revoked(l)'
    <3> SUFFICES ASSUME NEW l \in Logouts PROVE Revoked(l)'
      OBVIOUS
    <3>1. CASE request'[l] = request[l]
      BY <3>1, RevokedKept
    <3>2. CASE request'[l].pc = "lost"
      BY <3>2 DEF Revoked
    <3> QED
      BY <2>1, <3>1, <3>2, RequestKinds
  <2>3. Over \subseteq Over'
    BY <2>1, RequestKinds DEF Over
  <2>4. \A a \in Reads : request'[a].over \subseteq Over'
    BY <2>1, <2>3, RequestKinds DEF RInv
  <2>5. LogoutRevokes'
    BY <2>1, RequestKinds DEF RInv, LogoutRevokes
  <2> QED
    BY <2>2, <2>4, <2>5 DEF RInv
<1>10. ASSUME NEW r \in Requests, Step(r) PROVE RInv'
  BY <1>5, <1>6, <1>7, <1>8, <1>10 DEF Step
<1>11. ASSUME Browse PROVE RInv'
  BY <1>0, <1>2, <1>3, <1>11 DEF Browse, Login, StateExpires
<1> QED
  BY <1>0, <1>4, <1>9, <1>10, <1>11 DEF Next, Grant, Tick, vars

\* Where no deletion fails, a request sent after a logout was answered is not
\* served under the session it ended, expired, replayed or raced by others.
THEOREM LogoutIsFinal ==
  ASSUME "DeleteSession" \notin Faults
  PROVE  Spec => []LogoutRevokes
<1>1. Init => RInv
  BY RequestKinds DEF Init, RInv, Revoked, LogoutRevokes
<1>2. IInv /\ RInv /\ [Next]_vars => RInv'
  BY RevocationStep
<1>3. RInv => LogoutRevokes
  BY DEF RInv
<1> QED
  BY <1>1, <1>2, <1>3, SsoInvariance, PTL DEF Spec
=============================================================================
