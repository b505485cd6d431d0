--------------------------------- MODULE WebLogin ---------------------------------
(***************************************************************************)
(* POST /api/login and /api/logout: the per-IP limiter of failed attempts, *)
(* the session store, and the requests between them.  A login looks at the *)
(* limiter, awaits its body, looks again, and from there to the verdict    *)
(* nothing interleaves.  Everything is in memory: a restart forgets it.    *)
(***************************************************************************)
EXTENDS Naturals, Sequences

CONSTANTS
  Browser,      \* who sends requests; at most one login each is under way
  Ip,           \* socket addresses
  IpOf,         \* the address of a browser
  NoToken,      \* no session cookie
  MaxAttempts,  \* WEB_LOGIN_MAX_ATTEMPTS
  Lockout,      \* WEB_LOGIN_LOCKOUT_MS
  Ttl,          \* SessionStore.ttlMs
  MaxSessions,  \* bound: sessions that are created
  MaxTime       \* bound: the clock

Token == 1..MaxSessions

ASSUME WebLoginAssumption ==
  /\ IpOf \in [Browser -> Ip]
  /\ MaxAttempts \in Nat \ {0} /\ Lockout \in Nat \ {0} /\ Ttl \in Nat \ {0}
  /\ MaxSessions \in Nat /\ MaxTime \in Nat \ {0}
  /\ NoToken \notin Token

VARIABLES
  attempts,  \* LoginRateLimiter.attempts; until is 0 when not locked
  expiresAt, \* SessionStore.sessions, 0 for a token that is not there
  created,   \* how many sessions were created
  cookie,    \* the session cookie a browser holds
  request,   \* what a browser's login request is waiting for
  now,       \* the clock
  wrong      \* history: when wrong passwords of an address were verified since its last success

loginVars == <<attempts, expiresAt, created, cookie, request, now, wrong>>

sessions == <<expiresAt, created, cookie>>

Record == [failures : 0..MaxAttempts, last : Nat, until : Nat]

NoRecord == [failures |-> 0, last |-> 0, until |-> 0]

LoginTypeOK ==
  /\ attempts \in [Ip -> Record]
  /\ expiresAt \in [Token -> Nat] /\ created \in 0..MaxSessions
  /\ cookie \in [Browser -> Token \cup {NoToken}]
  /\ request \in [Browser -> {"none", "body"}]
  /\ now \in 1..MaxTime
  /\ wrong \in [Ip -> Seq(1..MaxTime)]

LoginInit ==
  /\ attempts = [i \in Ip |-> NoRecord]
  /\ expiresAt = [t \in Token |-> 0] /\ created = 0
  /\ cookie = [b \in Browser |-> NoToken]
  /\ request = [b \in Browser |-> "none"]
  /\ now = 1
  /\ wrong = [i \in Ip |-> <<>>]

--------------------------------------------------------------------------------

\* currentRecord: a lock, or the failures before one, last for Lockout.
Outdated(r) == IF r.until > 0 THEN r.until <= now ELSE r.last + Lockout <= now

Current(i) == IF Outdated(attempts[i]) THEN NoRecord ELSE attempts[i]

Allowed(i) == Current(i).until = 0

IsValid(t) == t # NoToken /\ expiresAt[t] > now

Becomes(b, place) == request' = [request EXCEPT ![b] = place]

\* check() before the body is read; a locked address is answered at once.
Check(b) ==
  /\ request[b] = "none"
  /\ attempts' = [attempts EXCEPT ![IpOf[b]] = Current(IpOf[b])]
  /\ Becomes(b, IF Allowed(IpOf[b]) THEN "body" ELSE "none")
  /\ UNCHANGED <<now, wrong, sessions>>

\* Faulty variant: what the first check said still counts.
StillAllowedAlways(i) == TRUE

\* check() again, when the body has arrived.
StillAllowed(i) == Allowed(i)

\* The body does not arrive, or is not a JSON object.
BodyFails(b) ==
  /\ request[b] = "body"
  /\ Becomes(b, "none")
  /\ UNCHANGED <<attempts, now, wrong, sessions>>

LockedMeanwhile(b) ==
  /\ request[b] = "body" /\ ~StillAllowed(IpOf[b])
  /\ Becomes(b, "none")
  /\ UNCHANGED <<attempts, now, wrong, sessions>>

\* recordFailure: at the limit the address is locked; a locked one stays as it is.
WrongPassword(b) ==
  LET i == IpOf[b] IN
  /\ request[b] = "body" /\ StillAllowed(i)
  /\ attempts' = [attempts EXCEPT ![i] =
       IF ~Allowed(i) THEN Current(i)
       ELSE [failures |-> Current(i).failures + 1, last |-> now,
             until |-> IF Current(i).failures + 1 >= MaxAttempts THEN now + Lockout ELSE 0]]
  /\ wrong' = [wrong EXCEPT ![i] = Append(@, now)]
  /\ Becomes(b, "none")
  /\ UNCHANGED <<now, sessions>>

\* recordSuccess, createSession, and a cookie that replaces the one before.
RightPassword(b) ==
  /\ request[b] = "body" /\ StillAllowed(IpOf[b]) /\ created < MaxSessions
  /\ attempts' = [attempts EXCEPT ![IpOf[b]] = NoRecord]
  /\ wrong' = [wrong EXCEPT ![IpOf[b]] = <<>>]
  /\ created' = created + 1
  /\ expiresAt' = [t \in Token |->
       IF t = created + 1 THEN now + Ttl ELSE IF expiresAt[t] <= now THEN 0 ELSE expiresAt[t]]
  /\ cookie' = [cookie EXCEPT ![b] = created + 1]
  /\ Becomes(b, "none")
  /\ UNCHANGED now

\* The session is checked in front of the route, then revoked.
Logout(b) ==
  /\ IsValid(cookie[b])
  /\ expiresAt' = [expiresAt EXCEPT ![cookie[b]] = 0]
  /\ cookie' = [cookie EXCEPT ![b] = NoToken]
  /\ UNCHANGED <<attempts, created, request, now, wrong>>

\* The minute's cleanup of expired sessions and outdated records.
Cleanup ==
  /\ attempts' = [i \in Ip |-> Current(i)]
  /\ expiresAt' = [t \in Token |-> IF expiresAt[t] <= now THEN 0 ELSE expiresAt[t]]
  /\ UNCHANGED <<created, cookie, request, now, wrong>>

Tick == now < MaxTime /\ now' = now + 1 /\ UNCHANGED <<attempts, request, wrong, sessions>>

LoginNext ==
  \/ \E b \in Browser :
       Check(b) \/ BodyFails(b) \/ LockedMeanwhile(b) \/ WrongPassword(b) \/ RightPassword(b) \/ Logout(b)
  \/ Cleanup \/ Tick

LoginSpec == LoginInit /\ [][LoginNext]_loginVars

--------------------------------------------------------------------------------
(* GuessesAreBounded: however many logins of one address are under way at   *)
(* once, no more than MaxAttempts wrong passwords are verified within one   *)
(* lockout period, as long as none of them succeeds between.                *)
GuessesAreBounded ==
  \A i \in Ip : \A k \in DOMAIN wrong[i] :
    k > MaxAttempts => wrong[i][k] >= wrong[i][k - MaxAttempts] + Lockout

===============================================================================
