-------------------------------- MODULE Sso ---------------------------------
(* Dashboard login by OpenID Connect: /login, /auth/callback, /logout and the*)
(* session check in front of every read handler. A browser holds two cookies *)
(* and shares them among its tabs; the portal holds the sessions table; the  *)
(* identity provider holds the codes. Requests run concurrently, each of     *)
(* their database statements may fail, and the portal may stop between any   *)
(* two of them.                                                              *)
EXTENDS Integers, Sequences

CONSTANTS
  Browsers,    \* user agents, each with its own cookies
  States,      \* the random values handleLogin draws, each drawn once
  Callbacks,   \* requests for /auth/callback; also names the session id drawn
  Logouts,     \* requests for /logout
  Reads,       \* requests for an endpoint behind requireSession
  Emails,      \* the accounts of the identity provider that have an address
  None,        \* no cookie, no address
  Faults,      \* the statements that may fail
  TTL,         \* sessionTTL
  MaxTime      \* bound: the clock stops here

ASSUME TimeAssumption == TTL \in Nat /\ MaxTime \in Nat

\* A request is for one handler, and None is no value of any kind.
ASSUME NamesAssumption ==
  /\ Callbacks \cap Logouts = {} /\ Callbacks \cap Reads = {} /\ Logouts \cap Reads = {}
  /\ None \notin Browsers \cup States \cup Callbacks \cup Emails

VARIABLES
  flow,       \* flow[s]: the login begun with state value s
  cookies,    \* cookies[b]: the browser's oidc_state and session cookies
  request,    \* request[r]: the goroutine serving r and its local variables
  sessions,   \* table sessions
  audit,      \* table audit_events
  now         \* the server's clock

vars == <<flow, cookies, request, sessions, audit, now>>
-----------------------------------------------------------------------------
Requests == Callbacks \cup Logouts \cup Reads
Statements == {"CreateSession", "AddAuditEvent", "GetSession", "DeleteSession"}
Points == {"unsent", "Exchange", "CreateSession", "AuditLogin", "SetCookie",
           "GetSession", "AuditLogout", "DeleteSession", "ClearCookie",
           "check", "serve", "done", "error", "lost"}

Sessions == [id : Callbacks, email : Emails, expires : 0..(MaxTime + TTL)]
Events == [event : {"login", "logout"}, email : Emails, session : Callbacks]

\* over is not in the code: the sessions whose logout had been answered when
\* the request was sent.
RequestRecords ==
  [pc : Points, browser : Browsers \cup {None}, state : States \cup {None},
   session : Callbacks \cup {None}, email : Emails \cup {None},
   over : SUBSET Callbacks]

\* Cookies, goroutines and rows hold values of their kind.
ValuesOK ==
  /\ flow \in [States -> [stage : {"unused", "begun", "granted", "spent"},
                          browser : Browsers \cup {None},
                          email : Emails \cup {None}]]
  /\ cookies \in [Browsers -> [state : States \cup {None},
                               session : Callbacks \cup {None}]]
  /\ request \in [Requests -> RequestRecords]
  /\ sessions \subseteq Sessions
  /\ audit \in Seq(Events)
  /\ now \in 0..MaxTime

\* And a session is stored only for a callback that has been told who logs in,
\* in that person's name (handleCallback).
TypeOK == ValuesOK /\ \A s \in sessions : s.email = request[s.id].email

Init ==
  /\ flow = [s \in States |-> [stage |-> "unused", browser |-> None, email |-> None]]
  /\ cookies = [b \in Browsers |-> [state |-> None, session |-> None]]
  /\ request = [r \in Requests |-> [pc |-> "unsent", browser |-> None, state |-> None,
                                    session |-> None, email |-> None, over |-> {}]]
  /\ sessions = {}
  /\ audit = <<>>
  /\ now = 0
-----------------------------------------------------------------------------
Goto(r, pc) == request' = [request EXCEPT ![r].pc = pc]
MayFail(statement) == statement \in Faults

\* GetSession: the row, unless there is none or it has expired.
Valid(id) == {s \in sessions : s.id = id /\ ~(now > s.expires)}

Event(e, r, email) == [event |-> e, email |-> email, session |-> request[r].session]

\* The sessions a logout answered so far was for.
Over == {request[l].session : l \in {m \in Logouts : request[m].pc = "done"}} \ {None}
-----------------------------------------------------------------------------
(* The browser and the identity provider.                                    *)

\* /login: a fresh state value goes into the one oidc_state cookie, over the
\* value of a login begun in another tab.
Login(b, s) ==
  /\ flow[s].stage = "unused"
  /\ flow' = [flow EXCEPT ![s].stage = "begun", ![s].browser = b]
  /\ cookies' = [cookies EXCEPT ![b].state = s]
  /\ UNCHANGED <<request, sessions, audit, now>>

\* The cookie's five minutes are over.
StateExpires(b) ==
  /\ cookies[b].state # None
  /\ cookies' = [cookies EXCEPT ![b].state = None]
  /\ UNCHANGED <<flow, request, sessions, audit, now>>

\* The provider authenticates someone, perhaps without an address, and issues
\* a code for this login.
Grant(s, email) ==
  /\ flow[s].stage = "begun"
  /\ flow' = [flow EXCEPT ![s].stage = "granted", ![s].email = email]
  /\ UNCHANGED <<cookies, request, sessions, audit, now>>

\* Variant: the state cookie is not compared.
SendCallback_NoStateCheck(c, b, s) ==
  /\ request[c].pc = "unsent"
  /\ flow[s].stage \in {"granted", "spent"}
  /\ request' = [request EXCEPT ![c].browser = b, ![c].state = s, ![c].session = c,
                                ![c].pc = "Exchange"]
  /\ UNCHANGED <<flow, cookies, sessions, audit, now>>

\* The redirect back is followed, in any browser it was carried to and as
\* often as the page is reloaded. The state check is handleCallback's first.
SendCallback(c, b, s) ==
  /\ request[c].pc = "unsent"
  /\ flow[s].stage \in {"granted", "spent"}
  /\ request' = [request EXCEPT
       ![c].browser = b, ![c].state = s, ![c].session = c,
       ![c].pc = IF cookies[b].state = s THEN "Exchange" ELSE "error"]
  /\ UNCHANGED <<flow, cookies, sessions, audit, now>>

\* Without a session cookie the handler only answers.
SendLogout(l, b) ==
  /\ request[l].pc = "unsent"
  /\ request' = [request EXCEPT
       ![l].browser = b, ![l].session = cookies[b].session,
       ![l].pc = IF cookies[b].session # None THEN "GetSession" ELSE "ClearCookie"]
  /\ UNCHANGED <<flow, cookies, sessions, audit, now>>

HandedOut == {c \in Callbacks : request[c].pc = "done"}

\* A read carries a session cookie that was once handed out, whether or not
\* its browser was told to forget it since, or none: then requireSession
\* turns it away.
SendRead(a) ==
  /\ request[a].pc = "unsent"
  /\ \E id \in HandedOut \cup {None} :
       request' = [request EXCEPT
         ![a].session = id, ![a].over = Over,
         ![a].pc = IF id # None THEN "check" ELSE "error"]
  /\ UNCHANGED <<flow, cookies, sessions, audit, now>>

Tick == /\ now < MaxTime
        /\ now' = now + 1
        /\ UNCHANGED <<flow, cookies, request, sessions, audit>>
-----------------------------------------------------------------------------
(* handleCallback.                                                           *)

\* Variant: an account without an address is let in.
Exchange_NoEmailCheck(c) ==
  LET s == request[c].state IN
    /\ request[c].pc = "Exchange"
    /\ \/ /\ flow[s].stage = "granted"
          /\ flow' = [flow EXCEPT ![s].stage = "spent"]
          /\ request' = [request EXCEPT ![c].pc = "CreateSession",
                                        ![c].email = flow[s].email]
       \/ /\ flow' \in {flow, [flow EXCEPT ![s].stage = "spent"]}
          /\ Goto(c, "error")
    /\ UNCHANGED <<cookies, sessions, audit, now>>

\* Variant: the callback goes on after the provider refused the code.
Exchange_ErrorDropped(c) ==
  LET s == request[c].state IN
    /\ request[c].pc = "Exchange"
    /\ flow[s].email # None
    /\ flow' = [flow EXCEPT ![s].stage = "spent"]
    /\ request' = [request EXCEPT ![c].pc = "CreateSession", ![c].email = flow[s].email]
    /\ UNCHANGED <<cookies, sessions, audit, now>>

\* A code is good once. The exchange and the checks of the token may also fail
\* for the network's or the provider's reasons, with the code used up or not.
Exchange(c) ==
  LET s == request[c].state IN
    /\ request[c].pc = "Exchange"
    /\ \/ /\ flow[s].stage = "granted" /\ flow[s].email # None
          /\ flow' = [flow EXCEPT ![s].stage = "spent"]
          /\ request' = [request EXCEPT ![c].pc = "CreateSession",
                                        ![c].email = flow[s].email]
       \/ /\ flow' \in {flow, [flow EXCEPT ![s].stage = "spent"]}
          /\ Goto(c, "error")
    /\ UNCHANGED <<cookies, sessions, audit, now>>

\* The expiry is reckoned just before the INSERT.
CreateSession(c) ==
  /\ request[c].pc = "CreateSession"
  /\ \/ /\ sessions' = sessions \cup
             {[id |-> c, email |-> request[c].email, expires |-> now + TTL]}
        /\ Goto(c, "AuditLogin")
     \/ MayFail("CreateSession") /\ Goto(c, "error") /\ UNCHANGED sessions
  /\ UNCHANGED <<flow, cookies, audit, now>>

\* Variant: the error is dropped, as handleLogout drops it.
AuditLogin_ErrorDropped(c) ==
  /\ request[c].pc = "AuditLogin"
  /\ \/ audit' = Append(audit, Event("login", c, request[c].email))
     \/ MayFail("AddAuditEvent") /\ UNCHANGED audit
  /\ Goto(c, "SetCookie")
  /\ UNCHANGED <<flow, cookies, sessions, now>>

\* An error here leaves the session stored with nobody to use it.
AuditLogin(c) ==
  /\ request[c].pc = "AuditLogin"
  /\ \/ /\ audit' = Append(audit, Event("login", c, request[c].email))
        /\ Goto(c, "SetCookie")
     \/ MayFail("AddAuditEvent") /\ Goto(c, "error") /\ UNCHANGED audit
  /\ UNCHANGED <<flow, cookies, sessions, now>>

\* The answer reaches the browser with the session cookie.
SetCookie(c) ==
  /\ request[c].pc = "SetCookie"
  /\ cookies' = [cookies EXCEPT ![request[c].browser].session = c]
  /\ Goto(c, "done")
  /\ UNCHANGED <<flow, sessions, audit, now>>
-----------------------------------------------------------------------------
(* handleLogout: every error is dropped.                                     *)

\* Variant: only a session that was found is deleted.
LookUp_DeleteIfFound(l) ==
  /\ request[l].pc = "GetSession"
  /\ \/ \E s \in Valid(request[l].session) :
          request' = [request EXCEPT ![l].pc = "AuditLogout", ![l].email = s.email]
     \/ /\ Valid(request[l].session) = {} \/ MayFail("GetSession")
        /\ Goto(l, "ClearCookie")
  /\ UNCHANGED <<flow, cookies, sessions, audit, now>>

LookUp(l) ==
  /\ request[l].pc = "GetSession"
  /\ \/ \E s \in Valid(request[l].session) :
          request' = [request EXCEPT ![l].pc = "AuditLogout", ![l].email = s.email]
     \/ /\ Valid(request[l].session) = {} \/ MayFail("GetSession")
        /\ Goto(l, "DeleteSession")
  /\ UNCHANGED <<flow, cookies, sessions, audit, now>>

AuditLogout(l) ==
  /\ request[l].pc = "AuditLogout"
  /\ \/ audit' = Append(audit, Event("logout", l, request[l].email))
     \/ MayFail("AddAuditEvent") /\ UNCHANGED audit
  /\ Goto(l, "DeleteSession")
  /\ UNCHANGED <<flow, cookies, sessions, now>>

DeleteSession(l) ==
  /\ request[l].pc = "DeleteSession"
  /\ \/ sessions' = {s \in sessions : s.id # request[l].session}
     \/ MayFail("DeleteSession") /\ UNCHANGED sessions
  /\ Goto(l, "ClearCookie")
  /\ UNCHANGED <<flow, cookies, audit, now>>

\* The answer clears whatever session cookie the browser has by then.
ClearCookie(l) ==
  /\ request[l].pc = "ClearCookie"
  /\ cookies' = [cookies EXCEPT ![request[l].browser].session = None]
  /\ Goto(l, "done")
  /\ UNCHANGED <<flow, sessions, audit, now>>
-----------------------------------------------------------------------------
(* requireSession and the handler behind it.                                 *)

Check(a) ==
  /\ request[a].pc = "check"
  /\ \/ \E s \in Valid(request[a].session) :
          request' = [request EXCEPT ![a].pc = "serve", ![a].email = s.email]
     \/ /\ Valid(request[a].session) = {} \/ MayFail("GetSession")
        /\ Goto(a, "error")
  /\ UNCHANGED <<flow, cookies, sessions, audit, now>>

\* The session is not looked at again: the data goes out in its name.
ServeRead(a) ==
  /\ request[a].pc = "serve"
  /\ Goto(a, "done")
  /\ UNCHANGED <<flow, cookies, sessions, audit, now>>
-----------------------------------------------------------------------------
Sent(r) == request[r].pc \notin {"unsent", "done", "error", "lost"}

\* The portal restarts: requests are gone, cookies and tables stay.
Crash ==
  /\ \E r \in Requests : Sent(r)
  /\ request' = [r \in Requests |-> IF Sent(r) THEN [request[r] EXCEPT !.pc = "lost"]
                                               ELSE request[r]]
  /\ UNCHANGED <<flow, cookies, sessions, audit, now>>

Step(r) ==
  \/ r \in Callbacks /\ (Exchange(r) \/ CreateSession(r) \/ AuditLogin(r) \/ SetCookie(r))
  \/ r \in Logouts /\ (LookUp(r) \/ AuditLogout(r) \/ DeleteSession(r) \/ ClearCookie(r))
  \/ r \in Reads /\ (Check(r) \/ ServeRead(r))

Browse ==
  \E b \in Browsers :
    \/ \E s \in States : Login(b, s) \/ \E c \in Callbacks : SendCallback(c, b, s)
    \/ StateExpires(b)
    \/ \E l \in Logouts : SendLogout(l, b)

Next == \/ Browse
        \/ \E a \in Reads : SendRead(a)
        \/ \E s \in States : \E e \in Emails \cup {None} : Grant(s, e)
        \/ \E r \in Requests : Step(r)
        \/ Crash
        \/ Tick

Spec == Init /\ [][Next]_vars
-----------------------------------------------------------------------------
\* The log holds the login of the session, of this account, before place n.
LoggedIn(session, email, n) ==
  \E i \in 1..(n - 1) :
    audit[i] = [event |-> "login", email |-> email, session |-> session]

\* Data is only ever served, and a logout only ever logged, in the name of an
\* account whose login is in the audit log before: the cookie is not handed
\* out before the event is written.
ServedLoginIsAudited ==
  /\ \A a \in Reads : request[a].pc \in {"serve", "done"} =>
       LoggedIn(request[a].session, request[a].email, Len(audit) + 1)
  /\ \A i \in DOMAIN audit : audit[i].event = "logout" =>
       LoggedIn(audit[i].session, audit[i].email, i)

\* A session ends up only in the browser that began the login it comes from,
\* however callback addresses are carried around, tabs overwrite each other's
\* state cookie and answers come late.
SessionStaysWithItsBrowser ==
  \A b \in Browsers : LET c == cookies[b].session IN
    c # None => /\ flow[request[c].state].browser = b
                /\ flow[request[c].state].email = request[c].email

\* Reloading the callback's address never makes a second session: one login,
\* one session.
OneSessionPerLogin ==
  \A c, d \in {s.id : s \in sessions} :
    request[c].state = request[d].state => c = d

\* handleLogout's comment: it deletes the session server-side. A request sent
\* after a logout was answered is not served under the session it ended.
LogoutRevokes ==
  \A a \in Reads : request[a].pc \in {"serve", "done"} =>
    request[a].session \notin request[a].over
=============================================================================
