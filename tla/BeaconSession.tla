---------------------------- MODULE BeaconSession ----------------------------
(***************************************************************************)
(* beacon/beacon_client.py, the one BeaconClient of the agent: its token,  *)
(* its login with the back-off after a locked account, and the threads     *)
(* that share it: the main thread (agent.py run, stop), the heartbeat      *)
(* thread, the senders (send_event, send_traffic) and the pollers of the   *)
(* firewall (get_firewall_desired_state, post_firewall_status,             *)
(* fetch_firewall_commands).                                               *)
(*                                                                         *)
(* Requests go out under _session_lock; a request whose thread does        *)
(* nothing else under the lock is one step.  Time is not modelled: a       *)
(* token grows old, a back-off ends and a server forgets an agent at any   *)
(* moment.  Registration has no effect on any of this and is left out.     *)
(***************************************************************************)
EXTENDS Integers, FiniteSets

CONSTANTS
  Senders, Pollers,  \* the threads that call the two kinds of method
  NoThread,
  MaxTroubles        \* bound on outages, account locks, revocations and failed requests

Callers == Senders \cup Pollers
Threads == Callers \cup {"main", "hb"}

ASSUME SessionAssumption ==
  /\ Senders \cap Pollers = {}
  /\ Callers \cap {"main", "hb"} = {} /\ NoThread \notin Threads
  /\ MaxTroubles \in Nat

VARIABLES
  lock,       \* the holder of _session_lock
  token,      \* "none", or how the server and the clock see it: see Accepted and NearExpiry
  backoff,    \* less than _auth_backoff_seconds ago a login was answered 423
  password,   \* not cleared yet
  heartbeat_running,
  main,       \* the step of run() and stop()
  hb,         \* the heartbeat thread: its step, and the payload it built before it has the lock
  call,       \* call[c]: the step of caller c and its attempt
  server,     \* is it up; is the account locked; does the account need a code the agent lacks
  online,     \* the server's view of the agent
  troubles,
  hasty,      \* (history) logins posted during the present back-off
  revoked,    \* (history) has a token ever been revoked?
  wasted      \* (history) wasted[c]: good tokens c has thrown away since the last revocation

clientVars == <<token, backoff, password>>
serverVars == <<server, online>>
vars == <<lock, clientVars, heartbeat_running, main, hb, call, serverVars,
          troubles, hasty, revoked, wasted>>

Tokens == {"none", "valid", "aging", "revoked", "expired"}
MainPcs == {"login", "beat", "running", "disconnect", "stop_heartbeat", "clear", "exit", "exited"}
HbPcs == {"none", "sleep", "fresh", "renew", "beat", "need", "login", "beat2"}
CallPcs == {"idle", "enter", "renew", "auth", "post", "unauth", "relogin"}

\* _api_call's default, and what the pollers give; of those get_firewall_desired_state gives 3,
\* which one more round of the same steps would show.
max_retries(c) == IF c \in Senders THEN 3 ELSE 2

TypeOK ==
  /\ lock \in Threads \cup {NoThread}
  /\ token \in Tokens
  /\ backoff \in BOOLEAN /\ password \in BOOLEAN /\ heartbeat_running \in BOOLEAN
  /\ main \in MainPcs
  /\ hb \in [pc : HbPcs, password : BOOLEAN]
  /\ call \in [Callers -> [pc : CallPcs, attempt : 1 .. 3]]
  /\ server \in [up : BOOLEAN, locked : BOOLEAN, mfa : BOOLEAN]
  /\ online \in BOOLEAN
  /\ troubles \in 0 .. MaxTroubles
  /\ hasty \in Nat /\ revoked \in BOOLEAN /\ wasted \in [Callers -> Nat]
  /\ \A c \in Callers : call[c].pc \in {"renew", "auth", "post", "relogin"} <=> lock = c
  /\ hb.pc = "renew" <=> lock = "hb"

Idle == [pc |-> "idle", attempt |-> 1]
Gone == [pc |-> "none", password |-> FALSE]

Init ==
  /\ lock = NoThread
  /\ token = "none" /\ backoff = FALSE /\ password = TRUE
  /\ heartbeat_running = FALSE
  /\ main = "login"
  /\ hb = Gone
  /\ call = [c \in Callers |-> Idle]
  /\ server \in [up : BOOLEAN, locked : BOOLEAN, mfa : BOOLEAN]
  /\ online = FALSE
  /\ troubles = 0
  /\ hasty = 0 /\ revoked = FALSE /\ wasted = [c \in Callers |-> 0]

-----------------------------------------------------------------------------
\* Requests.

Trouble == troubles < MaxTroubles /\ troubles' = troubles + 1

\* The server takes the token.
Accepted == token \in {"valid", "aging"}

\* exp is less than jwt_refresh_before_exp_seconds away, or past.
NearExpiry == token \in {"aging", "expired"}

\* What a request with the token's header comes back with: a status, or no answer.
Answer(a) ==
  \/ /\ a = IF ~server.up THEN "no answer" ELSE IF Accepted THEN "ok" ELSE "unauthorized"
     /\ UNCHANGED troubles
  \/ a \in {"no answer", "error"} /\ server.up /\ Trouble

\* The POST of _authenticate and what it makes of the answer; pw: does the payload hold the
\* password?  A 200 or 202 without a token is a success all the same.
PostLogin(pw, ok) ==
  \/ /\ server.up /\ ~server.locked /\ pw
     /\ ok = TRUE
     /\ token' = IF server.mfa THEN "none" ELSE "valid"
     /\ backoff' = FALSE
     /\ hasty' = 0
     /\ UNCHANGED troubles
  \/ /\ server.up /\ server.locked
     /\ ok = FALSE
     /\ backoff' = TRUE
     /\ hasty' = IF backoff THEN hasty + 1 ELSE 0
     /\ UNCHANGED <<token, troubles>>
  \/ /\ ok = FALSE
     /\ IF server.up /\ pw THEN ~server.locked /\ Trouble ELSE UNCHANGED troubles
     /\ server.up => ~server.locked
     /\ hasty' = IF backoff THEN hasty + 1 ELSE 0
     /\ UNCHANGED <<token, backoff>>

NeverBackOff == FALSE

\* "now - _last_auth_failure_time < _auth_backoff_seconds"
BackoffActive == backoff

\* _authenticate by a thread that has the lock from the check on.
Authenticate(ok) ==
  IF BackoffActive
  THEN ok = FALSE /\ UNCHANGED <<token, backoff, hasty, troubles>>
  ELSE PostLogin(password, ok)

-----------------------------------------------------------------------------
\* The methods of the senders and the pollers.

KeepLock == UNCHANGED lock
Release == lock' = NoThread

Goto(c, pc) == call' = [call EXCEPT ![c].pc = pc]
Return(c) == call' = [call EXCEPT ![c] = Idle]

\* The end of an attempt that may be repeated.
Retry(c) ==
  IF call[c].attempt < max_retries(c)
  THEN call' = [call EXCEPT ![c] = [pc |-> "enter", attempt |-> @.attempt + 1]]
  ELSE Return(c)

\* The end of an attempt for which a poller gives up and a sender does not.
RetryOrGiveUp(c) == IF c \in Senders THEN Retry(c) ELSE Return(c)

\* Monitors and pollers are started after the login, and run until the process ends.
Begin(c) ==
  /\ call[c].pc = "idle"
  /\ main \notin {"login", "beat", "exited"}
  /\ Goto(c, "enter")
  /\ UNCHANGED <<lock, token, backoff, hasty, troubles, revoked, wasted>>

\* with _session_lock: _ensure_token_fresh() up to its login
Enter(c) ==
  /\ call[c].pc = "enter"
  /\ lock = NoThread
  /\ lock' = c
  /\ token' = IF NearExpiry THEN "none" ELSE token
  /\ Goto(c, IF NearExpiry THEN "renew" ELSE IF token = "none" THEN "auth" ELSE "post")
  /\ UNCHANGED <<backoff, hasty, troubles, revoked, wasted>>

Renew(c) ==
  /\ call[c].pc = "renew"
  /\ \E ok \in BOOLEAN : Authenticate(ok)
  /\ Goto(c, IF token' = "none" THEN "auth" ELSE "post")
  /\ UNCHANGED <<lock, revoked, wasted>>

\* if not self.token: a sender then needs a token, a poller only the success.  A poller that
\* fails sleeps before it lets the lock go.
Auth(c) ==
  /\ call[c].pc = "auth"
  /\ \E ok \in BOOLEAN :
       /\ Authenticate(ok)
       /\ IF token' # "none" \/ (ok /\ c \in Pollers)
          THEN Goto(c, "post") /\ UNCHANGED lock
          ELSE Retry(c) /\ Release
  /\ UNCHANGED <<revoked, wasted>>

AnyFailure(a) == a # "ok"

\* if response.status_code == 401
IsUnauthorized(a) == a = "unauthorized"

Post(c) ==
  /\ call[c].pc = "post"
  /\ \E a \in {"ok", "unauthorized", "error", "no answer"} :
       /\ Answer(a)
       /\ \/ a = "ok" /\ Return(c)
          \/ IsUnauthorized(a) /\ Goto(c, "unauth")
          \/ a = "error" /\ ~IsUnauthorized(a) /\ RetryOrGiveUp(c)
          \/ a = "no answer" /\ ~IsUnauthorized(a) /\ Retry(c)
  /\ Release
  /\ UNCHANGED <<token, backoff, hasty, revoked, wasted>>

\* The lock was free since the 401: the token may be a newer one.
Unauthorized(c) ==
  /\ call[c].pc = "unauth"
  /\ lock = NoThread
  /\ lock' = c
  /\ token' = "none"
  /\ wasted' = IF Accepted THEN [wasted EXCEPT ![c] = @ + 1] ELSE wasted
  /\ Goto(c, "relogin")
  /\ UNCHANGED <<backoff, hasty, troubles, revoked>>

Relogin(c) ==
  /\ call[c].pc = "relogin"
  /\ \E ok \in BOOLEAN :
       /\ Authenticate(ok)
       /\ IF ok THEN Retry(c) ELSE RetryOrGiveUp(c)
  /\ Release
  /\ UNCHANGED <<revoked, wasted>>

CallStep(c) ==
  /\ Enter(c) \/ Renew(c) \/ Auth(c) \/ Post(c) \/ Unauthorized(c) \/ Relogin(c)
  /\ UNCHANGED <<password, heartbeat_running, main, hb, serverVars>>

Caller(c) ==
  \/ CallStep(c)
  \/ Begin(c) /\ UNCHANGED <<password, heartbeat_running, main, hb, serverVars>>

-----------------------------------------------------------------------------
\* The heartbeat thread.

HbGoto(pc) == hb' = [Gone EXCEPT !.pc = pc]

\* while self.heartbeat_running
HbLoop == HbGoto(IF heartbeat_running THEN "sleep" ELSE "none")

\* _ensure_token_fresh() up to its login
HbFresh ==
  /\ hb.pc = "fresh"
  /\ lock = NoThread
  /\ lock' = IF NearExpiry THEN "hb" ELSE NoThread
  /\ token' = IF NearExpiry THEN "none" ELSE token
  /\ HbGoto(IF NearExpiry THEN "renew" ELSE "beat")
  /\ UNCHANGED <<backoff, online, hasty, troubles>>

HbRenew ==
  /\ hb.pc = "renew"
  /\ \E ok \in BOOLEAN : Authenticate(ok)
  /\ Release
  /\ HbGoto("beat")
  /\ UNCHANGED online

KeepsToken == token

\* A heartbeat's 401 clears the token under the lock it was sent with.
AfterUnauthorized == "none"

\* _send_heartbeat
SendHeartbeat(a) ==
  /\ lock = NoThread
  /\ Answer(a)
  /\ online' = (online \/ a = "ok")
  /\ token' = IF a = "unauthorized" THEN AfterUnauthorized ELSE token
  /\ UNCHANGED <<lock, backoff, hasty>>

HbBeat ==
  /\ hb.pc = "beat"
  /\ \E a \in {"ok", "unauthorized", "error", "no answer"} :
       /\ SendHeartbeat(a)
       /\ IF a = "ok" THEN HbLoop ELSE HbGoto("need")

\* need_reauth and the check of _authenticate, without the lock.  login_is_old: the last
\* login was more than login_timeout ago.
HbNeedReauth ==
  /\ hb.pc = "need"
  /\ \E login_is_old \in BOOLEAN :
       IF (token = "none" \/ login_is_old) /\ ~BackoffActive
       THEN hb' = [pc |-> "login", password |-> password]
       ELSE HbLoop
  /\ UNCHANGED <<lock, token, backoff, online, hasty, troubles>>

HbLogin ==
  /\ hb.pc = "login"
  /\ lock = NoThread
  /\ \E ok \in BOOLEAN :
       /\ PostLogin(hb.password, ok)
       /\ IF ok THEN HbGoto("beat2") ELSE HbLoop
  /\ UNCHANGED <<lock, online>>

HbBeatAgain ==
  /\ hb.pc = "beat2"
  /\ \E a \in {"ok", "unauthorized", "error", "no answer"} : SendHeartbeat(a)
  /\ HbLoop

HbWake ==
  /\ hb.pc = "sleep"
  /\ HbGoto("fresh")
  /\ UNCHANGED <<lock, token, backoff, online, hasty, troubles>>

Heartbeat ==
  /\ HbWake \/ HbFresh \/ HbRenew \/ HbBeat \/ HbNeedReauth \/ HbLogin \/ HbBeatAgain
  /\ UNCHANGED <<password, heartbeat_running, main, call, server, revoked, wasted>>

-----------------------------------------------------------------------------
\* The main thread: run() and stop().

\* client.login(): when it fails the agent goes on without a heartbeat thread.
Login ==
  /\ main = "login"
  /\ \E ok \in BOOLEAN :
       /\ Authenticate(ok)
       /\ main' = IF ok THEN "beat" ELSE "running"
  /\ UNCHANGED <<lock, password, heartbeat_running, hb, call, online>>

StartHeartbeat ==
  /\ main = "beat"
  /\ IF token = "none" THEN UNCHANGED <<lock, token, backoff, online, hasty, troubles>>
     ELSE \E a \in {"ok", "unauthorized", "error", "no answer"} : SendHeartbeat(a)
  /\ heartbeat_running' = TRUE
  /\ HbGoto("sleep")
  /\ main' = "running"
  /\ UNCHANGED <<password, call>>

Disconnect ==
  /\ main = "disconnect"
  /\ lock = NoThread
  /\ IF token = "none" THEN UNCHANGED <<online, troubles>>
     ELSE \E a \in {"ok", "unauthorized", "error", "no answer"} :
            Answer(a) /\ online' = (online /\ a # "ok")
  /\ main' = "stop_heartbeat"
  /\ UNCHANGED <<lock, clientVars, heartbeat_running, hb, call, hasty>>

\* join(timeout=2): the thread may still be there.
StopHeartbeat ==
  /\ main = "stop_heartbeat"
  /\ heartbeat_running' = FALSE
  /\ main' = "clear"
  /\ UNCHANGED <<lock, clientVars, hb, call, online, hasty, troubles>>

ClearCredentials ==
  /\ main = "clear"
  /\ lock = NoThread
  /\ token' = "none" /\ password' = FALSE
  /\ main' = "exit"
  /\ UNCHANGED <<lock, backoff, heartbeat_running, hb, call, online, hasty, troubles>>

\* sys.exit: every other thread is a daemon.
Exit ==
  /\ main = "exit"
  /\ main' = "exited"
  /\ lock' = NoThread
  /\ hb' = Gone
  /\ call' = [c \in Callers |-> Idle]
  /\ UNCHANGED <<clientVars, heartbeat_running, online, hasty, troubles>>

\* A signal, while run() sleeps.
Stop ==
  /\ main = "running"
  /\ main' = "disconnect"
  /\ UNCHANGED <<lock, clientVars, heartbeat_running, hb, call, online, hasty, troubles>>

MainStep ==
  /\ Login \/ StartHeartbeat \/ Disconnect \/ StopHeartbeat \/ ClearCredentials \/ Exit
  /\ UNCHANGED <<server, revoked, wasted>>

Main == MainStep \/ (Stop /\ UNCHANGED <<server, revoked, wasted>>)

-----------------------------------------------------------------------------
\* The server and the clock.

Outage == server.up /\ Trouble /\ server' = [server EXCEPT !.up = FALSE]
Recover == ~server.up /\ server' = [server EXCEPT !.up = TRUE] /\ UNCHANGED troubles
LockAccount == ~server.locked /\ Trouble /\ server' = [server EXCEPT !.locked = TRUE]
UnlockAccount == server.locked /\ server' = [server EXCEPT !.locked = FALSE] /\ UNCHANGED troubles

Server ==
  /\ Outage \/ Recover \/ LockAccount \/ UnlockAccount
  /\ UNCHANGED <<token, revoked, wasted>>

\* The token ends before the client renews it: revoked by the server, or expired.
Revoke ==
  /\ Accepted
  /\ Trouble
  /\ token' = IF token = "valid" THEN "revoked" ELSE "expired"
  /\ revoked' = TRUE
  /\ wasted' = [c \in Callers |-> 0]
  /\ UNCHANGED server

\* exp comes near.
Age ==
  /\ token \in {"valid", "revoked"}
  /\ token' = IF token = "valid" THEN "aging" ELSE "expired"
  /\ UNCHANGED <<server, troubles, revoked, wasted>>

BackoffEnds ==
  /\ backoff
  /\ backoff' = FALSE
  /\ hasty' = 0
  /\ UNCHANGED <<lock, token, password, heartbeat_running, main, hb, call, serverVars,
                 troubles, revoked, wasted>>

\* No heartbeat for about a minute.
Forget ==
  /\ online
  /\ online' = FALSE
  /\ UNCHANGED <<lock, clientVars, heartbeat_running, main, hb, call, server,
                 troubles, hasty, revoked, wasted>>

Environment ==
  \/ /\ Server \/ Revoke \/ Age
     /\ UNCHANGED <<lock, backoff, password, heartbeat_running, main, hb, call, online, hasty>>
  \/ BackoffEnds
  \/ Forget

Next ==
  \/ \E c \in Callers : Caller(c)
  \/ Heartbeat
  \/ Main
  \/ Environment

Spec == Init /\ [][Next]_vars

\* Every thread goes on, and gets the lock in the end: the others let it go when their request
\* is answered or times out, and sleep or work without it.
FairSpec ==
  /\ Spec
  /\ \A c \in Callers : SF_vars(CallStep(c))
  /\ SF_vars(Heartbeat)
  /\ SF_vars(MainStep)
  /\ WF_vars(BackoffEnds)

-----------------------------------------------------------------------------
(* A locked account is not hammered: of all the threads at most one login is posted in a  *)
(* back-off, by the thread that had checked before the back-off began.                    *)
(* (beacon_client.py 224-239)                                                             *)
OneHastyLogin == hasty <= 1

(* Threads that hold a 401 of the same dead token do not throw each other's new tokens    *)
(* away for ever: each discards at most one good token per revocation, and none when no   *)
(* token was revoked.  (beacon_client.py 465-498, 522-547, 597-605)                       *)
FewWastedTokens == \A c \in Callers : wasted[c] <= IF revoked THEN 1 ELSE 0

(* While the server answers and the account is in order, an agent whose heartbeat thread  *)
(* runs comes online again and again, whatever tokens the other threads discard and renew.*)
(* (beacon_client.py 362-383)                                                             *)
HeartbeatsResume ==
  <>[](server.up /\ ~server.locked /\ ~server.mfa /\ main = "running" /\ hb.pc # "none")
    => []<>online

(* Every call of a sender or a poller returns, and a stop gets to the end.                *)
(* (beacon_client.py 457-709, agent.py 654-675)                                           *)
CallsEnd ==
  /\ \A c \in Callers : call[c].pc # "idle" ~> call[c].pc = "idle"
  /\ main = "disconnect" ~> main = "exited"

-----------------------------------------------------------------------------
(* agent.py:635: an initial login that failed is retried automatically, so the agent      *)
(* comes online when the server recovers.                                                 *)
LoginRetried ==
  <>[](server.up /\ ~server.locked /\ ~server.mfa /\ main = "running") => <>online
=============================================================================
