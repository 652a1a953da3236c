------------------------- MODULE BeaconSessionProofs -------------------------
(***************************************************************************)
(* Proofs about BeaconSession, for any number of callers and any number of *)
(* troubles.  The invariant says, beside the types, who can be about to    *)
(* post a hasty login, and what a caller that holds a 401 knows.           *)
(***************************************************************************)
EXTENDS BeaconSession, TLAPS

\* No back-off, no hasty login; the heartbeat's login can only be the first one of a back-off.
LoginInv ==
  /\ ~backoff => hasty = 0
  /\ hb.pc = "login" => hasty = 0
  /\ hasty <= 1

\* A dead token is one revoked after every discard counted; whoever holds a 401 has not
\* discarded a good token since.
TokenInv ==
  /\ server.mfa => token = "none"
  /\ ~revoked => token \notin {"revoked", "expired"}
  /\ \A c \in Callers :
       /\ wasted[c] <= 1
       /\ server.mfa \/ token \in {"revoked", "expired"} \/ ~revoked => wasted[c] = 0
       /\ call[c].pc = "unauth" => wasted[c] = 0 /\ (server.mfa \/ revoked)
       /\ call[c].pc = "post" /\ token = "none" => server.mfa

IInv == TypeOK /\ LoginInv /\ TokenInv

\* There is no heartbeat thread before the main thread starts it.
StartInv == main \in {"login", "beat"} => hb.pc = "none"

-----------------------------------------------------------------------------
(***************************************************************************)
(* What requests do.                                                       *)
(***************************************************************************)

LEMMA TroubleEffect ==
  ASSUME TypeOK, Trouble \/ UNCHANGED troubles
  PROVE  troubles' \in 0 .. MaxTroubles
<1>1. troubles \in 0 .. MaxTroubles /\ MaxTroubles \in Nat
  BY SessionAssumption DEF TypeOK
<1> QED
  BY <1>1 DEF Trouble

\* A request whose answer is used for nothing but the step of its thread.
LEMMA AnswerEffect ==
  ASSUME TypeOK, NEW x, Answer(x)
  PROVE  troubles' \in 0 .. MaxTroubles
  BY TroubleEffect DEF Answer

LEMMA PostLoginEffect ==
  ASSUME TypeOK, NEW pw \in BOOLEAN, NEW ok \in BOOLEAN, PostLogin(pw, ok)
  PROVE  /\ backoff' \in BOOLEAN /\ troubles' \in 0 .. MaxTroubles /\ hasty' \in Nat
         /\ \/ token' = token
            \/ token' = "none" /\ server.mfa
            \/ token' = "valid" /\ ~server.mfa
         /\ ok => (token' = "none" <=> server.mfa)
         /\ ~ok => token' = token
         /\ hasty' \in {0, hasty + 1}
         /\ ~backoff => hasty' = 0
         /\ backoff => backoff' \/ hasty' = 0
<1>1. troubles' \in 0 .. MaxTroubles
  BY TroubleEffect DEF PostLogin
<1>2. backoff \in BOOLEAN /\ hasty \in Nat /\ hasty + 1 \in Nat
  BY DEF TypeOK
<1>3. CASE ok
  <2>1. token' = (IF server.mfa THEN "none" ELSE "valid") /\ backoff' = FALSE /\ hasty' = 0
    BY <1>3 DEF PostLogin
  <2> QED
    BY <1>1, <1>3, <2>1
<1>4. CASE ~ok
  <2>1. token' = token /\ backoff' \in {backoff, TRUE} /\ hasty' = (IF backoff THEN hasty + 1 ELSE 0)
    BY <1>4 DEF PostLogin
  <2>2. CASE backoff
    BY <1>1, <1>2, <1>4, <2>1, <2>2
  <2>3. CASE ~backoff
    BY <1>1, <1>2, <1>4, <2>1, <2>3
  <2> QED
    BY <2>2, <2>3
<1> QED
  BY <1>3, <1>4

\* A login of a thread that checks under the lock is never hasty.
LEMMA AuthenticateEffect ==
  ASSUME TypeOK, ~backoff => hasty = 0, NEW ok \in BOOLEAN, Authenticate(ok)
  PROVE  /\ backoff' \in BOOLEAN /\ troubles' \in 0 .. MaxTroubles /\ hasty' \in Nat
         /\ \/ token' = token
            \/ token' = "none" /\ server.mfa
            \/ token' = "valid" /\ ~server.mfa
         /\ ok => (token' = "none" <=> server.mfa)
         /\ ~ok => token' = token
         /\ ~backoff' => hasty' = 0
         /\ hasty' \in {0, hasty}
<1>1. CASE backoff
  BY <1>1 DEF Authenticate, BackoffActive, TypeOK
<1>2. CASE ~backoff
  <2>1. PostLogin(password, ok) /\ password \in BOOLEAN
    BY <1>2 DEF Authenticate, BackoffActive, TypeOK
  <2> QED
    BY <1>2, <2>1, PostLoginEffect
<1> QED
  BY <1>1, <1>2

\* The lock-holding steps of a caller.
Locked == {"renew", "auth", "post", "relogin"}

\* c alone has moved, to a step in pcs.
Moved(c, pcs) ==
  /\ call' \in [Callers -> [pc : CallPcs, attempt : 1 .. 3]]
  /\ call'[c].pc \in pcs
  /\ \A d \in Callers \ {c} : call'[d] = call[d]

LEMMA GotoMoves ==
  ASSUME TypeOK, NEW c \in Callers, NEW pc \in CallPcs, Goto(c, pc)
  PROVE  Moved(c, {pc})
  BY DEF TypeOK, Goto, Moved

LEMMA RetryMoves ==
  ASSUME TypeOK, NEW c \in Callers, Retry(c) \/ RetryOrGiveUp(c) \/ Return(c)
  PROVE  Moved(c, {"idle", "enter"})
<1>1. CASE Return(c)
  BY <1>1 DEF TypeOK, Return, Moved, Idle, CallPcs
<1>2. CASE Retry(c) /\ ~Return(c)
  <2>1. call[c].attempt \in 1 .. 3 /\ call[c].attempt < max_retries(c)
    BY <1>2 DEF TypeOK, Retry
  <2>2. call[c].attempt + 1 \in 1 .. 3
    BY <2>1 DEF max_retries
  <2>3. call' = [call EXCEPT ![c] = [pc |-> "enter", attempt |-> call[c].attempt + 1]]
    BY <1>2 DEF Retry
  <2> QED
    BY <2>2, <2>3 DEF TypeOK, Moved, CallPcs
<1> QED
  BY <1>1, <1>2 DEF RetryOrGiveUp

\* The types, from those of what a step changed and from who has the lock afterwards.
LEMMA CallerTypes ==
  ASSUME TypeOK, NEW c \in Callers, Caller(c), NEW pcs, Moved(c, pcs),
         token' \in Tokens, backoff' \in BOOLEAN, troubles' \in 0 .. MaxTroubles,
         hasty' \in Nat, revoked' = revoked, wasted' \in [Callers -> Nat],
         \/ lock = NoThread /\ lock' = c /\ pcs \subseteq Locked
         \/ lock = c /\ lock' = c /\ pcs \subseteq Locked
         \/ lock = c /\ lock' = NoThread /\ pcs \cap Locked = {}
         \/ lock' = lock /\ lock # c /\ pcs \cap Locked = {}
  PROVE  TypeOK'
<1>1. UNCHANGED <<password, heartbeat_running, main, hb, serverVars>>
  BY DEF Caller, CallStep
<1>2. lock' \in Threads \cup {NoThread} /\ c # NoThread /\ c # "hb"
  BY SessionAssumption DEF TypeOK, Threads, Callers
<1>3. \A d \in Callers : call'[d].pc \in Locked <=> lock' = d
  <2> SUFFICES ASSUME NEW d \in Callers
               PROVE  call'[d].pc \in Locked <=> lock' = d
    OBVIOUS
  <2>1. d # NoThread
    BY SessionAssumption DEF Threads
  <2>2. CASE d = c
    BY <1>2, <2>1, <2>2 DEF Moved
  <2>3. CASE d # c
    BY <1>2, <2>1, <2>3 DEF Moved, TypeOK, Locked
  <2> QED
    BY <2>2, <2>3
<1>4. hb'.pc = "renew" <=> lock' = "hb"
  BY <1>1, <1>2, SessionAssumption DEF TypeOK, Threads
<1> QED
  BY <1>1, <1>2, <1>3, <1>4 DEF TypeOK, Moved, Locked, serverVars

-----------------------------------------------------------------------------
(***************************************************************************)
(* A step of a caller keeps the invariant.                                 *)
(***************************************************************************)

\* What a caller knows after a step of its own or of another, from the step's effects.
LEMMA CallerTokens ==
  ASSUME IInv, NEW c \in Callers, Caller(c), NEW pcs, Moved(c, pcs),
         wasted' = wasted, revoked' = revoked, server' = server,
         \/ token' = token
         \/ token' = "none" /\ (server.mfa \/ \A d \in Callers \ {c} : call[d].pc # "post")
         \/ token' = "valid" /\ ~server.mfa,
         "unauth" \in pcs => call[c].pc = "post" /\ token' = token /\ ~Accepted,
         "post" \in pcs => token' # "none" \/ server.mfa
  PROVE  TokenInv'
<1>1. TypeOK /\ TokenInv /\ server.mfa \in BOOLEAN /\ revoked \in BOOLEAN /\ token \in Tokens
  BY DEF IInv, TypeOK
<1>2. (server.mfa => token' = "none") /\ (~revoked => token' \notin {"revoked", "expired"})
  BY <1>1 DEF TokenInv
<1>3. ASSUME NEW d \in Callers
      PROVE  /\ wasted[d] <= 1
             /\ server.mfa \/ token' \in {"revoked", "expired"} \/ ~revoked => wasted[d] = 0
             /\ call'[d].pc = "unauth" => wasted[d] = 0 /\ (server.mfa \/ revoked)
             /\ call'[d].pc = "post" /\ token' = "none" => server.mfa
  <2>1. /\ wasted[d] <= 1
        /\ server.mfa \/ token' \in {"revoked", "expired"} \/ ~revoked => wasted[d] = 0
    BY <1>1 DEF TokenInv
  <2>2. CASE d # c
    <3>1. call'[d] = call[d]
      BY <2>2 DEF Moved
    <3>2. call[d].pc = "post" /\ token' = "none" => token = "none" \/ server.mfa
      BY <2>2
    <3> QED
      BY <1>1, <2>1, <3>1, <3>2 DEF TokenInv
  <2>3. CASE d = c
    <3>1. call'[c].pc = "post" /\ token' = "none" => server.mfa
      BY DEF Moved
    <3>2. ASSUME call'[c].pc = "unauth"
          PROVE  wasted[c] = 0 /\ (server.mfa \/ revoked)
      <4>1. call[c].pc = "post" /\ token \in {"none", "revoked", "expired"}
        BY <1>1, <3>2 DEF Moved, Accepted, Tokens
      <4> QED
        BY <1>1, <4>1 DEF TokenInv
    <3> QED
      BY <2>1, <2>3, <3>1, <3>2
  <2> QED
    BY <2>2, <2>3
<1> QED
  BY <1>2, <1>3 DEF TokenInv

LEMMA CallerKeeps ==
  ASSUME IInv, NEW c \in Callers, Caller(c)
  PROVE  IInv'
<1> USE DEF IInv
<1>a. /\ TypeOK /\ LoginInv /\ (~backoff => hasty = 0)
      /\ UNCHANGED <<hb, server>>
      /\ token \in Tokens /\ backoff \in BOOLEAN /\ troubles \in 0 .. MaxTroubles
      /\ hasty \in Nat /\ wasted \in [Callers -> Nat]
  BY DEF TypeOK, LoginInv, Caller, CallStep, serverVars
\* Who has the lock keeps the others from posting.
<1>b. \A d \in Callers : call[d].pc = "post" => lock = d
  BY DEF TypeOK
<1>c. {"none", "valid"} \subseteq Tokens
  BY DEF Tokens
<1>1. CASE Begin(c)
  <2>1. Moved(c, {"enter"})
    BY <1>a, <1>1, GotoMoves DEF Begin, CallPcs
  <2>2. TypeOK'
    BY <1>a, <1>1, <2>1, CallerTypes DEF Begin, Locked, TypeOK
  <2>3. TokenInv'
    BY <1>a, <1>1, <2>1, CallerTokens DEF Begin
  <2> QED
    BY <1>a, <1>1, <2>2, <2>3 DEF Begin, LoginInv
<1>2. CASE Enter(c)
  <2>1. Moved(c, {IF NearExpiry THEN "renew" ELSE IF token = "none" THEN "auth" ELSE "post"})
    BY <1>a, <1>2, GotoMoves DEF Enter, CallPcs
  <2>2. TypeOK'
    BY <1>a, <1>c, <1>2, <2>1, CallerTypes DEF Enter, Locked
  <2>3. \A d \in Callers : call[d].pc # "post"
    BY <1>b, <1>2, SessionAssumption DEF Enter, Threads
  <2>4. TokenInv'
    BY <1>a, <1>2, <2>1, <2>3, CallerTokens DEF Enter, NearExpiry
  <2> QED
    BY <1>a, <1>2, <2>2, <2>4 DEF Enter, LoginInv
<1>3. CASE Renew(c)
  <2>1. PICK ok \in BOOLEAN : Authenticate(ok)
    BY <1>3 DEF Renew
  <2>2. Moved(c, {IF token' = "none" THEN "auth" ELSE "post"})
    BY <1>a, <1>3, GotoMoves DEF Renew, CallPcs
  <2>3. lock = c /\ lock' = c
    BY <1>a, <1>3 DEF Renew, TypeOK
  <2>4. /\ token' \in Tokens /\ backoff' \in BOOLEAN /\ troubles' \in 0 .. MaxTroubles
        /\ hasty' \in Nat /\ (~backoff' => hasty' = 0) /\ hasty' \in {0, hasty}
        /\ token' = token \/ (token' = "none" /\ server.mfa) \/ (token' = "valid" /\ ~server.mfa)
    BY <1>a, <1>c, <2>1, AuthenticateEffect
  <2>5. TypeOK'
    BY <1>a, <1>3, <2>2, <2>3, <2>4, CallerTypes DEF Renew, Locked
  <2>6. TokenInv'
    BY <1>a, <1>3, <2>2, <2>4, CallerTokens DEF Renew
  <2> QED
    BY <1>a, <2>4, <2>5, <2>6 DEF LoginInv
<1>4. CASE Auth(c)
  <2>1. PICK ok \in BOOLEAN :
          /\ Authenticate(ok)
          /\ IF token' # "none" \/ (ok /\ c \in Pollers)
             THEN Goto(c, "post") /\ UNCHANGED lock
             ELSE Retry(c) /\ Release
    BY <1>4 DEF Auth
  <2>3. lock = c
    BY <1>a, <1>4 DEF Auth, TypeOK
  <2>4. /\ token' \in Tokens /\ backoff' \in BOOLEAN /\ troubles' \in 0 .. MaxTroubles
        /\ hasty' \in Nat /\ (~backoff' => hasty' = 0) /\ hasty' \in {0, hasty}
        /\ token' = token \/ (token' = "none" /\ server.mfa) \/ (token' = "valid" /\ ~server.mfa)
        /\ ok => (token' = "none" <=> server.mfa)
    BY <1>a, <1>c, <2>1, AuthenticateEffect
  <2>5. CASE token' # "none" \/ (ok /\ c \in Pollers)
    <3>1. Moved(c, {"post"})
      BY <1>a, <2>1, <2>5, GotoMoves DEF CallPcs
    <3>2. TypeOK'
      BY <1>a, <1>4, <2>1, <2>3, <2>4, <2>5, <3>1, CallerTypes DEF Auth, Locked
    <3>3. TokenInv'
      BY <1>a, <1>4, <2>4, <2>5, <3>1, CallerTokens DEF Auth
    <3> QED
      BY <1>a, <2>4, <3>2, <3>3 DEF LoginInv
  <2>6. CASE ~(token' # "none" \/ (ok /\ c \in Pollers))
    <3>1. Moved(c, {"idle", "enter"})
      BY <1>a, <2>1, <2>6, RetryMoves
    <3>2. TypeOK'
      BY <1>a, <1>4, <2>1, <2>3, <2>4, <2>6, <3>1, CallerTypes DEF Auth, Locked, Release
    <3>3. TokenInv'
      BY <1>a, <1>4, <2>4, <3>1, CallerTokens DEF Auth
    <3> QED
      BY <1>a, <2>4, <3>2, <3>3 DEF LoginInv
  <2> QED
    BY <2>5, <2>6
<1>5. CASE Post(c)
  <2>1. PICK x \in {"ok", "unauthorized", "error", "no answer"} :
          /\ Answer(x)
          /\ \/ x = "ok" /\ Return(c)
             \/ IsUnauthorized(x) /\ Goto(c, "unauth")
             \/ x = "error" /\ ~IsUnauthorized(x) /\ RetryOrGiveUp(c)
             \/ x = "no answer" /\ ~IsUnauthorized(x) /\ Retry(c)
    BY <1>5 DEF Post
  <2>2. lock = c /\ lock' = NoThread /\ UNCHANGED <<token, backoff, hasty, revoked, wasted>>
    BY <1>a, <1>5 DEF Post, TypeOK, Release
  <2>3. troubles' \in 0 .. MaxTroubles
    BY <1>a, <2>1, AnswerEffect
  <2>4. CASE x = "unauthorized" /\ Goto(c, "unauth")
    <3>1. Moved(c, {"unauth"})
      BY <1>a, <2>4, GotoMoves DEF CallPcs
    <3>2. ~Accepted
      BY <2>1, <2>4 DEF Answer
    <3>3. TypeOK'
      BY <1>a, <2>2, <2>3, <3>1, CallerTypes DEF Locked
    <3>4. TokenInv'
      BY <1>a, <1>5, <2>2, <3>1, <3>2, CallerTokens DEF Post
    <3> QED
      BY <1>a, <2>2, <3>3, <3>4 DEF LoginInv
  <2>5. CASE Return(c) \/ RetryOrGiveUp(c) \/ Retry(c)
    <3>1. Moved(c, {"idle", "enter"})
      BY <1>a, <2>5, RetryMoves
    <3>2. TypeOK'
      BY <1>a, <2>2, <2>3, <3>1, CallerTypes DEF Locked
    <3>3. TokenInv'
      BY <1>a, <2>2, <3>1, CallerTokens
    <3> QED
      BY <1>a, <2>2, <3>2, <3>3 DEF LoginInv
  <2> QED
    BY <2>1, <2>4, <2>5 DEF IsUnauthorized
<1>6. CASE Unauthorized(c)
  <2>1. Moved(c, {"relogin"})
    BY <1>a, <1>6, GotoMoves DEF Unauthorized, CallPcs
  <2>2. wasted' \in [Callers -> Nat]
    BY <1>a, <1>6 DEF Unauthorized
  <2>3. TypeOK'
    BY <1>a, <1>c, <1>6, <2>1, <2>2, CallerTypes DEF Unauthorized, Locked
  <2>4. \A d \in Callers : call[d].pc # "post"
    BY <1>b, <1>6, SessionAssumption DEF Unauthorized, Threads
  <2>5. TokenInv'
    <3>1. revoked' = revoked /\ server' = server /\ token' = "none" /\ revoked \in BOOLEAN
      BY <1>a, <1>6 DEF Unauthorized, TypeOK
    <3>2. ASSUME NEW d \in Callers
          PROVE  /\ wasted'[d] <= 1
                 /\ server.mfa \/ ~revoked => wasted'[d] = 0
                 /\ call'[d].pc = "unauth" => wasted'[d] = 0 /\ (server.mfa \/ revoked)
                 /\ call'[d].pc # "post"
      <4>1. CASE d = c
        <5>1. wasted[c] = 0 /\ (server.mfa \/ revoked)
          BY <1>6 DEF Unauthorized, TokenInv
        <5>2. wasted'[c] \in {0, 1} /\ (wasted'[c] = 0 \/ Accepted)
          BY <1>a, <1>6, <5>1 DEF Unauthorized
        <5>3. Accepted => ~server.mfa
          BY DEF TokenInv, Accepted
        <5> QED
          BY <2>1, <4>1, <5>1, <5>2, <5>3 DEF Moved
      <4>2. CASE d # c
        <5>1. wasted'[d] = wasted[d] /\ call'[d] = call[d]
          BY <1>a, <1>6, <2>1, <4>2 DEF Unauthorized, Moved
        <5> QED
          BY <2>4, <5>1 DEF TokenInv
      <4> QED
        BY <4>1, <4>2
    <3> QED
      BY <3>1, <3>2 DEF TokenInv
  <2> QED
    BY <1>a, <1>6, <2>3, <2>5 DEF Unauthorized, LoginInv
<1>7. CASE Relogin(c)
  <2>1. PICK ok \in BOOLEAN : Authenticate(ok) /\ (Retry(c) \/ RetryOrGiveUp(c))
    BY <1>7 DEF Relogin
  <2>2. Moved(c, {"idle", "enter"})
    BY <1>a, <2>1, RetryMoves
  <2>3. lock = c /\ lock' = NoThread
    BY <1>a, <1>7 DEF Relogin, Release, TypeOK
  <2>4. /\ token' \in Tokens /\ backoff' \in BOOLEAN /\ troubles' \in 0 .. MaxTroubles
        /\ hasty' \in Nat /\ (~backoff' => hasty' = 0) /\ hasty' \in {0, hasty}
        /\ token' = token \/ (token' = "none" /\ server.mfa) \/ (token' = "valid" /\ ~server.mfa)
    BY <1>a, <1>c, <2>1, AuthenticateEffect
  <2>5. TypeOK'
    BY <1>a, <1>7, <2>2, <2>3, <2>4, CallerTypes DEF Relogin, Locked
  <2>6. TokenInv'
    BY <1>a, <1>7, <2>2, <2>4, CallerTokens DEF Relogin
  <2> QED
    BY <1>a, <2>4, <2>5, <2>6 DEF LoginInv
<1> QED
  BY <1>1, <1>2, <1>3, <1>4, <1>5, <1>6, <1>7 DEF Caller, CallStep

-----------------------------------------------------------------------------
(***************************************************************************)
(* So does a step of any other part.                                       *)
(***************************************************************************)

LEMMA OthersTypes ==
  ASSUME TypeOK, call' = call, lock \in {NoThread, "hb"}, lock' \in {NoThread, "hb"}
  PROVE  /\ lock' \in Threads \cup {NoThread}
         /\ call' \in [Callers -> [pc : CallPcs, attempt : 1 .. 3]]
         /\ \A c \in Callers : call'[c].pc \in {"renew", "auth", "post", "relogin"} <=> lock' = c
  BY SessionAssumption DEF TypeOK, Threads

LEMMA OthersTokens ==
  ASSUME TypeOK, TokenInv, call' = call, wasted' = wasted, revoked' = revoked, server' = server,
         \/ token' = token
         \/ token' = "none" /\ (server.mfa \/ \A d \in Callers : call[d].pc # "post")
         \/ token' = "valid" /\ ~server.mfa
  PROVE  TokenInv'
<1>1. server.mfa \in BOOLEAN /\ revoked \in BOOLEAN /\ token \in Tokens
  BY DEF TypeOK
<1> QED
  BY <1>1 DEF TokenInv

\* Whoever takes or finds the lock free knows that nobody posts.
LEMMA NobodyPosts ==
  ASSUME TypeOK, lock \in {NoThread, "hb"}
  PROVE  \A c \in Callers : call[c].pc # "post"
  BY SessionAssumption DEF TypeOK, Threads

LEMMA HeartbeatKeeps ==
  ASSUME IInv, Heartbeat
  PROVE  IInv'
<1> USE DEF IInv
<1>a. /\ TypeOK /\ LoginInv /\ TokenInv /\ (~backoff => hasty = 0)
      /\ UNCHANGED <<password, heartbeat_running, main, call, server, revoked, wasted>>
      /\ token \in Tokens /\ backoff \in BOOLEAN /\ password \in BOOLEAN
      /\ heartbeat_running \in BOOLEAN /\ online \in BOOLEAN
      /\ troubles \in 0 .. MaxTroubles /\ hasty \in Nat
      /\ hb \in [pc : HbPcs, password : BOOLEAN] /\ server.mfa \in BOOLEAN
      /\ (hb.pc = "renew" <=> lock = "hb")
  BY DEF TypeOK, LoginInv, Heartbeat
<1>b. {"none", "valid"} \subseteq Tokens /\ NoThread # "hb"
  BY SessionAssumption DEF Tokens, Threads
\* It is enough to look at what the step changes.
<1>c. ASSUME lock \in {NoThread, "hb"}, lock' \in {NoThread, "hb"}, hb'.pc = "renew" <=> lock' = "hb",
             hb' \in [pc : HbPcs, password : BOOLEAN], token' \in Tokens, backoff' \in BOOLEAN,
             online' \in BOOLEAN, troubles' \in 0 .. MaxTroubles, hasty' \in Nat
      PROVE  TypeOK'
  BY <1>a, <1>c, OthersTypes DEF TypeOK
<1>d. ASSUME NEW pc \in HbPcs, HbGoto(pc)
      PROVE  hb' \in [pc : HbPcs, password : BOOLEAN] /\ hb'.pc = pc
  BY <1>d DEF HbGoto, Gone
<1>e. ASSUME HbLoop
      PROVE  hb' \in [pc : HbPcs, password : BOOLEAN] /\ hb'.pc \in {"sleep", "none"}
  BY <1>e, <1>d DEF HbLoop, HbPcs
<1>f. ASSUME NEW x, SendHeartbeat(x)
      PROVE  /\ lock = NoThread /\ UNCHANGED <<lock, backoff, hasty>>
             /\ token' \in {token, "none"} /\ online' \in BOOLEAN /\ troubles' \in 0 .. MaxTroubles
  BY <1>a, <1>f, AnswerEffect DEF SendHeartbeat, AfterUnauthorized
<1>1. CASE HbWake
  <2>1. hb' \in [pc : HbPcs, password : BOOLEAN] /\ hb'.pc = "fresh"
    BY <1>1, <1>d DEF HbWake, HbPcs
  <2>2. TypeOK'
    BY <1>a, <1>1, <2>1 DEF HbWake, TypeOK
  <2> QED
    BY <1>a, <1>1, <2>1, <2>2, OthersTokens DEF HbWake, LoginInv
<1>2. CASE HbFresh
  <2>1. hb' \in [pc : HbPcs, password : BOOLEAN] /\ hb'.pc = (IF NearExpiry THEN "renew" ELSE "beat")
    BY <1>2, <1>d DEF HbFresh, HbPcs
  <2>2. TypeOK'
    BY <1>a, <1>b, <1>c, <1>2, <2>1 DEF HbFresh
  <2>3. TokenInv'
    BY <1>a, <1>2, NobodyPosts, OthersTokens DEF HbFresh
  <2> QED
    BY <1>a, <1>2, <2>1, <2>2, <2>3 DEF HbFresh, LoginInv
<1>3. CASE HbRenew
  <2>1. PICK ok \in BOOLEAN : Authenticate(ok)
    BY <1>3 DEF HbRenew
  <2>2. hb' \in [pc : HbPcs, password : BOOLEAN] /\ hb'.pc = "beat"
    BY <1>3, <1>d DEF HbRenew, HbPcs
  <2>3. /\ token' \in Tokens /\ backoff' \in BOOLEAN /\ troubles' \in 0 .. MaxTroubles
        /\ hasty' \in Nat /\ (~backoff' => hasty' = 0) /\ hasty' \in {0, hasty}
        /\ token' = token \/ (token' = "none" /\ server.mfa) \/ (token' = "valid" /\ ~server.mfa)
    BY <1>a, <1>b, <2>1, AuthenticateEffect
  <2>4. TypeOK'
    BY <1>a, <1>b, <1>c, <1>3, <2>2, <2>3 DEF HbRenew, Release
  <2>5. TokenInv'
    BY <1>a, <2>3, OthersTokens
  <2> QED
    BY <1>a, <2>2, <2>3, <2>4, <2>5 DEF LoginInv
<1>4. CASE HbBeat
  <2>1. PICK x : SendHeartbeat(x) /\ IF x = "ok" THEN HbLoop ELSE HbGoto("need")
    BY <1>4 DEF HbBeat
  <2>2. hb' \in [pc : HbPcs, password : BOOLEAN] /\ hb'.pc \in {"sleep", "none", "need"}
    BY <2>1, <1>d, <1>e DEF HbPcs
  <2>3. TypeOK'
    BY <1>a, <1>b, <1>c, <1>f, <2>1, <2>2
  <2>4. TokenInv'
    BY <1>a, <1>f, <2>1, NobodyPosts, OthersTokens
  <2> QED
    BY <1>a, <1>f, <2>1, <2>2, <2>3, <2>4 DEF LoginInv
<1>5. CASE HbNeedReauth
  <2>1. /\ hb' \in [pc : HbPcs, password : BOOLEAN]
        /\ hb'.pc \in {"sleep", "none"} \/ (hb'.pc = "login" /\ ~backoff)
    <3>1. CASE HbLoop
      BY <3>1, <1>e
    <3>2. CASE ~backoff /\ hb' = [pc |-> "login", password |-> password]
      BY <1>a, <3>2 DEF HbPcs
    <3> QED
      BY <1>5, <3>1, <3>2 DEF HbNeedReauth, BackoffActive
  <2>2. lock' = lock /\ UNCHANGED <<token, backoff, online, hasty, troubles>>
    BY <1>5 DEF HbNeedReauth
  <2>3. TypeOK'
    BY <1>a, <1>5, <2>1, <2>2 DEF HbNeedReauth, TypeOK
  <2>4. TokenInv'
    BY <1>a, <2>2, OthersTokens
  <2> QED
    BY <1>a, <2>1, <2>2, <2>3, <2>4 DEF LoginInv
<1>6. CASE HbLogin
  <2>1. PICK ok \in BOOLEAN : PostLogin(hb.password, ok) /\ IF ok THEN HbGoto("beat2") ELSE HbLoop
    BY <1>6 DEF HbLogin
  <2>2. hb' \in [pc : HbPcs, password : BOOLEAN] /\ hb'.pc \in {"sleep", "none", "beat2"}
    BY <2>1, <1>d, <1>e DEF HbPcs
  <2>3. /\ backoff' \in BOOLEAN /\ troubles' \in 0 .. MaxTroubles /\ hasty' \in Nat
        /\ token' = token \/ (token' = "none" /\ server.mfa) \/ (token' = "valid" /\ ~server.mfa)
        /\ hasty' \in {0, hasty + 1}
        /\ ~backoff => hasty' = 0
        /\ backoff => backoff' \/ hasty' = 0
    <3>1. hb.password \in BOOLEAN
      BY <1>a
    <3> QED
      BY <1>a, <2>1, <3>1, PostLoginEffect
  <2>4. hasty = 0
    BY <1>6 DEF HbLogin, LoginInv
  <2>5. TypeOK'
    BY <1>a, <1>b, <1>c, <1>6, <2>2, <2>3 DEF HbLogin
  <2>6. TokenInv'
    BY <1>a, <2>3, OthersTokens
  <2>7. LoginInv'
    BY <1>a, <2>2, <2>3, <2>4 DEF LoginInv
  <2> QED
    BY <2>5, <2>6, <2>7
<1>7. CASE HbBeatAgain
  <2>1. PICK x : SendHeartbeat(x) /\ HbLoop
    BY <1>7 DEF HbBeatAgain
  <2>2. hb' \in [pc : HbPcs, password : BOOLEAN] /\ hb'.pc \in {"sleep", "none"}
    BY <2>1, <1>e
  <2>3. TypeOK'
    BY <1>a, <1>b, <1>c, <1>f, <2>1, <2>2
  <2>4. TokenInv'
    BY <1>a, <1>f, <2>1, NobodyPosts, OthersTokens
  <2> QED
    BY <1>a, <1>f, <2>1, <2>2, <2>3, <2>4 DEF LoginInv
<1> QED
  BY <1>1, <1>2, <1>3, <1>4, <1>5, <1>6, <1>7 DEF Heartbeat

LEMMA MainKeeps ==
  ASSUME IInv, StartInv, Main
  PROVE  IInv'
<1> USE DEF IInv
<1>a. /\ TypeOK /\ LoginInv /\ TokenInv /\ (~backoff => hasty = 0)
      /\ UNCHANGED <<server, revoked, wasted>>
      /\ token \in Tokens /\ backoff \in BOOLEAN /\ password \in BOOLEAN
      /\ heartbeat_running \in BOOLEAN /\ online \in BOOLEAN
      /\ troubles \in 0 .. MaxTroubles /\ hasty \in Nat /\ main \in MainPcs
      /\ hb \in [pc : HbPcs, password : BOOLEAN] /\ server.mfa \in BOOLEAN
      /\ (hb.pc = "renew" <=> lock = "hb")
  BY DEF TypeOK, LoginInv, Main, MainStep
<1>b. {"none", "valid"} \subseteq Tokens /\ NoThread # "hb" /\ Gone \in [pc : HbPcs, password : BOOLEAN]
  BY SessionAssumption DEF Tokens, Threads, Gone, HbPcs
\* It is enough to look at what the step changes, when it leaves the lock and the calls alone.
<1>c. ASSUME lock' = lock, call' = call, hb' = hb \/ (hb.pc # "renew" /\ hb'.pc # "renew"),
             hb' \in [pc : HbPcs, password : BOOLEAN], token' \in Tokens, backoff' \in BOOLEAN,
             password' \in BOOLEAN, heartbeat_running' \in BOOLEAN, main' \in MainPcs,
             online' \in BOOLEAN, troubles' \in 0 .. MaxTroubles, hasty' \in Nat
      PROVE  TypeOK'
  BY <1>a, <1>c DEF TypeOK
<1>f. ASSUME NEW x, SendHeartbeat(x)
      PROVE  /\ lock = NoThread /\ UNCHANGED <<lock, backoff, hasty>>
             /\ token' \in {token, "none"} /\ online' \in BOOLEAN /\ troubles' \in 0 .. MaxTroubles
  BY <1>a, <1>f, AnswerEffect DEF SendHeartbeat, AfterUnauthorized
<1>1. CASE Login
  <2>1. PICK ok \in BOOLEAN : Authenticate(ok) /\ main' = IF ok THEN "beat" ELSE "running"
    BY <1>1 DEF Login
  <2>2. /\ token' \in Tokens /\ backoff' \in BOOLEAN /\ troubles' \in 0 .. MaxTroubles
        /\ hasty' \in Nat /\ (~backoff' => hasty' = 0) /\ hasty' \in {0, hasty}
        /\ token' = token \/ (token' = "none" /\ server.mfa) \/ (token' = "valid" /\ ~server.mfa)
    BY <1>a, <1>b, <2>1, AuthenticateEffect
  <2>3. TypeOK'
    BY <1>a, <1>c, <1>1, <2>1, <2>2 DEF Login, MainPcs
  <2>4. TokenInv'
    BY <1>a, <1>1, <2>2, OthersTokens DEF Login
  <2> QED
    BY <1>a, <1>1, <2>2, <2>3, <2>4 DEF Login, LoginInv
<1>2. CASE StartHeartbeat
  <2>1. hb' \in [pc : HbPcs, password : BOOLEAN] /\ hb'.pc = "sleep"
    BY <1>2 DEF StartHeartbeat, HbGoto, Gone, HbPcs
  <2>2. CASE UNCHANGED <<lock, token, backoff, online, hasty, troubles>>
    <3>1. TypeOK'
      BY <1>2, <2>1, <2>2, <1>a, <1>c DEF StartHeartbeat, MainPcs, StartInv
    <3> QED
      BY <1>2, <2>1, <2>2, <3>1, <1>a, OthersTokens DEF StartHeartbeat, LoginInv
  <2>3. ASSUME NEW x, SendHeartbeat(x)
        PROVE  IInv'
    <3>1. TypeOK'
      BY <1>2, <2>1, <2>3, <1>a, <1>b, <1>c, <1>f DEF StartHeartbeat, MainPcs
    <3>2. TokenInv'
      BY <1>2, <2>3, <1>a, <1>f, NobodyPosts, OthersTokens DEF StartHeartbeat
    <3> QED
      BY <2>1, <2>3, <3>1, <3>2, <1>a, <1>f DEF LoginInv
  <2> QED
    BY <1>2, <2>2, <2>3 DEF StartHeartbeat
<1>3. CASE Disconnect
  <2>1. online' \in BOOLEAN /\ troubles' \in 0 .. MaxTroubles
    BY <1>3, <1>a, AnswerEffect DEF Disconnect
  <2>2. TypeOK'
    BY <1>3, <2>1, <1>a, <1>c DEF Disconnect, clientVars, MainPcs
  <2> QED
    BY <1>3, <2>2, <1>a, OthersTokens DEF Disconnect, clientVars, LoginInv
<1>4. CASE StopHeartbeat
  <2>1. TypeOK'
    BY <1>4, <1>a, <1>c DEF StopHeartbeat, clientVars, MainPcs
  <2> QED
    BY <1>4, <2>1, <1>a, OthersTokens DEF StopHeartbeat, clientVars, LoginInv
<1>5. CASE ClearCredentials
  <2>1. TypeOK'
    BY <1>5, <1>a, <1>b, <1>c DEF ClearCredentials, MainPcs
  <2>2. TokenInv'
    BY <1>5, <1>a, NobodyPosts, OthersTokens DEF ClearCredentials
  <2> QED
    BY <1>5, <2>1, <2>2, <1>a DEF ClearCredentials, LoginInv
<1>6. CASE Exit
  <2>1. /\ call' \in [Callers -> [pc : CallPcs, attempt : 1 .. 3]]
        /\ \A c \in Callers : call'[c].pc = "idle"
    BY <1>6 DEF Exit, Idle, CallPcs
  <2>2. hb' = Gone /\ hb'.pc = "none" /\ lock' = NoThread /\ main' \in MainPcs
    BY <1>6 DEF Exit, Gone, MainPcs
  <2>3. \A c \in Callers : lock' # c
    BY <2>2, SessionAssumption DEF Threads
  <2>4. TypeOK'
    BY <1>6, <2>1, <2>2, <2>3, <1>a, <1>b DEF Exit, TypeOK, clientVars
  <2>5. TokenInv'
    BY <1>6, <2>1, <1>a DEF Exit, TokenInv, clientVars
  <2> QED
    BY <1>6, <2>2, <2>4, <2>5, <1>a DEF Exit, LoginInv, clientVars
<1>7. CASE Stop
  <2>1. TypeOK'
    BY <1>7, <1>a, <1>c DEF Stop, clientVars, MainPcs
  <2> QED
    BY <1>7, <2>1, <1>a, OthersTokens DEF Stop, clientVars, LoginInv
<1> QED
  BY <1>1, <1>2, <1>3, <1>4, <1>5, <1>6, <1>7 DEF Main, MainStep

LEMMA EnvironmentKeeps ==
  ASSUME IInv, Environment
  PROVE  IInv'
<1> USE DEF IInv
<1>a. /\ TypeOK /\ LoginInv /\ TokenInv
      /\ UNCHANGED <<lock, password, heartbeat_running, main, hb, call>>
      /\ token \in Tokens /\ backoff \in BOOLEAN /\ online \in BOOLEAN
      /\ troubles \in 0 .. MaxTroubles /\ hasty \in Nat /\ revoked \in BOOLEAN
      /\ wasted \in [Callers -> Nat]
      /\ server \in [up : BOOLEAN, locked : BOOLEAN, mfa : BOOLEAN]
  BY DEF TypeOK, Environment, BackoffEnds, Forget, clientVars
\* It is enough to look at what the step changes.
<1>c. ASSUME token' \in Tokens, backoff' \in BOOLEAN, online' \in BOOLEAN,
             troubles' \in 0 .. MaxTroubles, hasty' \in Nat, revoked' \in BOOLEAN,
             wasted' \in [Callers -> Nat],
             server' \in [up : BOOLEAN, locked : BOOLEAN, mfa : BOOLEAN]
      PROVE  TypeOK'
  BY <1>a, <1>c DEF TypeOK
<1>1. CASE Server /\ UNCHANGED <<backoff, online, hasty>>
  <2>1. /\ server' \in [up : BOOLEAN, locked : BOOLEAN, mfa : BOOLEAN]
        /\ server'.mfa = server.mfa
        /\ UNCHANGED <<token, revoked, wasted>>
    BY <1>1, <1>a DEF Server, Outage, Recover, LockAccount, UnlockAccount
  <2>2. troubles' \in 0 .. MaxTroubles
    BY <1>1, <1>a, TroubleEffect DEF Server, Outage, Recover, LockAccount, UnlockAccount
  <2>3. TypeOK'
    BY <1>1, <2>1, <2>2, <1>a, <1>c
  <2>4. TokenInv'
    BY <2>1, <1>a DEF TokenInv
  <2> QED
    BY <1>1, <2>3, <2>4, <1>a DEF LoginInv
<1>2. CASE Revoke /\ UNCHANGED <<backoff, online, hasty>>
  <2>1. /\ token' \in {"revoked", "expired"} /\ token # "none"
        /\ revoked' = TRUE /\ wasted' = [c \in Callers |-> 0] /\ server' = server
    BY <1>2 DEF Revoke, Accepted
  <2>2. troubles' \in 0 .. MaxTroubles
    BY <1>2, <1>a, TroubleEffect DEF Revoke
  <2>3. TypeOK'
    BY <1>2, <2>1, <2>2, <1>a, <1>c DEF Tokens
  <2>4. TokenInv'
    BY <2>1, <1>a DEF TokenInv
  <2> QED
    BY <1>2, <2>3, <2>4, <1>a DEF LoginInv
<1>3. CASE Age /\ UNCHANGED <<backoff, online, hasty>>
  <2>1. /\ \/ token = "valid" /\ token' = "aging"
           \/ token = "revoked" /\ token' = "expired"
        /\ UNCHANGED <<server, troubles, revoked, wasted>>
    BY <1>3 DEF Age
  <2>2. TypeOK'
    BY <1>3, <2>1, <1>a, <1>c DEF Tokens
  <2>3. TokenInv'
    BY <2>1, <1>a DEF TokenInv
  <2> QED
    BY <1>3, <2>2, <2>3, <1>a DEF LoginInv
<1>4. CASE BackoffEnds
  <2>1. /\ backoff' = FALSE /\ hasty' = 0
        /\ UNCHANGED <<token, server, online, troubles, revoked, wasted>>
    BY <1>4 DEF BackoffEnds, serverVars
  <2>2. TypeOK'
    BY <2>1, <1>a, <1>c
  <2>3. TokenInv'
    BY <2>1, <1>a, OthersTokens
  <2> QED
    BY <2>1, <2>2, <2>3, <1>a DEF LoginInv
<1>5. CASE Forget
  <2>1. /\ online' = FALSE
        /\ UNCHANGED <<token, backoff, server, troubles, hasty, revoked, wasted>>
    BY <1>5 DEF Forget, clientVars
  <2>2. TypeOK'
    BY <2>1, <1>a, <1>c
  <2>3. TokenInv'
    BY <2>1, <1>a, OthersTokens
  <2> QED
    BY <2>1, <2>2, <2>3, <1>a DEF LoginInv
<1> QED
  BY <1>1, <1>2, <1>3, <1>4, <1>5 DEF Environment

-----------------------------------------------------------------------------

LEMMA Initially == Init => IInv
<1> SUFFICES ASSUME Init PROVE IInv
  OBVIOUS
<1>1. /\ Idle \in [pc : CallPcs, attempt : 1 .. 3] /\ Idle.pc = "idle"
      /\ Gone \in [pc : HbPcs, password : BOOLEAN] /\ Gone.pc = "none"
  BY DEF Idle, Gone, CallPcs, HbPcs
<1>2. \A c \in Callers : c # NoThread
  BY SessionAssumption DEF Threads
<1>3. TypeOK
  <2>1. /\ lock \in Threads \cup {NoThread}
        /\ token \in Tokens /\ backoff \in BOOLEAN /\ password \in BOOLEAN
        /\ heartbeat_running \in BOOLEAN /\ main \in MainPcs
    BY DEF Init, Tokens, MainPcs
  <2>2. /\ hb \in [pc : HbPcs, password : BOOLEAN]
        /\ call \in [Callers -> [pc : CallPcs, attempt : 1 .. 3]]
    BY <1>1 DEF Init
  <2>3. /\ server \in [up : BOOLEAN, locked : BOOLEAN, mfa : BOOLEAN]
        /\ online \in BOOLEAN /\ revoked \in BOOLEAN
    BY DEF Init
  <2>4. troubles \in 0 .. MaxTroubles /\ hasty \in Nat
    BY SessionAssumption DEF Init
  <2>5. wasted \in [Callers -> Nat]
    BY DEF Init
  <2>6. \A c \in Callers : call[c].pc \in {"renew", "auth", "post", "relogin"} <=> lock = c
    BY <1>1, <1>2 DEF Init
  <2>7. hb.pc = "renew" <=> lock = "hb"
    BY <1>1, SessionAssumption DEF Init, Threads
  <2> QED
    BY <2>1, <2>2, <2>3, <2>4, <2>5, <2>6, <2>7 DEF TypeOK
<1> QED
  BY <1>1, <1>3 DEF Init, IInv, LoginInv, TokenInv

LEMMA Stuttering == IInv /\ UNCHANGED vars => IInv'
<1> SUFFICES ASSUME IInv, UNCHANGED vars PROVE IInv'
  OBVIOUS
<1>1. /\ UNCHANGED <<lock, token, backoff, password, heartbeat_running, main, hb, call>>
      /\ UNCHANGED <<server, online, troubles, hasty, revoked, wasted>>
  BY DEF vars, clientVars, serverVars
<1>2. TypeOK'
  BY <1>1 DEF IInv, TypeOK
<1>3. LoginInv' /\ TokenInv'
  BY <1>1 DEF IInv, LoginInv, TokenInv
<1> QED
  BY <1>2, <1>3 DEF IInv

LEMMA OneStart == StartInv /\ [Next]_vars => StartInv'
<1> SUFFICES ASSUME StartInv, [Next]_vars PROVE StartInv'
  OBVIOUS
<1>1. CASE Main
  BY <1>1 DEF StartInv, Main, MainStep, Login, StartHeartbeat, Disconnect, StopHeartbeat,
              ClearCredentials, Exit, Stop
<1>2. CASE Heartbeat
  <2>1. hb.pc # "none" /\ main' = main
    BY <1>2 DEF Heartbeat, HbWake, HbFresh, HbRenew, HbBeat, HbNeedReauth, HbLogin, HbBeatAgain
  <2> QED
    BY <2>1 DEF StartInv
<1>3. CASE UNCHANGED <<main, hb>>
  BY <1>3 DEF StartInv
<1> QED
  BY <1>1, <1>2, <1>3
     DEF Next, Caller, CallStep, Environment, BackoffEnds, Forget, vars, clientVars

LEMMA Invariance == Spec => [](IInv /\ StartInv)
<1>1. Init => StartInv
  BY DEF Init, StartInv, Gone
<1>2. IInv /\ StartInv /\ [Next]_vars => IInv'
  BY CallerKeeps, HeartbeatKeeps, MainKeeps, EnvironmentKeeps, Stuttering DEF Next
<1> QED
  BY <1>1, <1>2, Initially, OneStart, PTL DEF Spec

(* The client's state is well-typed, and a thread holds _session_lock exactly in the      *)
(* steps that need it: no answer or failure leaves the lock behind.                       *)
(* (beacon_client.py 192-383, 457-709)                                                    *)
THEOREM TypeCorrect == Spec => []TypeOK
  BY Invariance, PTL DEF IInv

(* Whatever number of threads share the client, at most one login is posted in a back-off *)
(* of a locked account: the check without the lock lets the heartbeat's through, and no   *)
(* second one.  (beacon_client.py 224-268, 376-383)                                       *)
THEOREM HastyLoginCorrect == Spec => []OneHastyLogin
<1>1. IInv => OneHastyLogin
  BY DEF IInv, LoginInv, OneHastyLogin
<1> QED
  BY <1>1, Invariance, PTL

(* Each thread that holds the 401 of a dead token discards at most one good token, and    *)
(* none when no token was revoked, for any number of threads.                             *)
(* (beacon_client.py 491-498, 541-547, 597-605, 646-651, 692-697)                         *)
THEOREM FewWastedCorrect == Spec => []FewWastedTokens
<1>1. IInv => FewWastedTokens
  BY DEF IInv, TypeOK, TokenInv, FewWastedTokens
<1> QED
  BY <1>1, Invariance, PTL
=============================================================================
