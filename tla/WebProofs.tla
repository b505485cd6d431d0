-------------------------------- MODULE WebProofs --------------------------------
(***************************************************************************)
(* The web interface, for any number of browsers, addresses, instances and *)
(* entries and for any limit.  Three parts: the login limiter, the pages,  *)
(* and the composition.                                                    *)
(***************************************************************************)
EXTENDS Web, EnvFileProofs, SequenceTheorems, FiniteSetTheorems

--------------------------------------------------------------------------------
(* The limiter: it keeps a count and two times; the argument is what those  *)
(* say about the guesses that were made.                                    *)

\* Guesses w are in order, and up to now.
Ordered(w) == \A k \in 1..Len(w) : w[k] <= now /\ \A l \in k..Len(w) : w[k] <= w[l]

\* A record r counts the newest guesses; the others are a lockout period old.
Counts(r, w) ==
  r.until = 0 =>
    /\ r.failures < MaxAttempts /\ r.failures <= Len(w)
    /\ r.failures > 0 => r.last = w[Len(w)]
    /\ \A k \in 1..(Len(w) - r.failures) : w[k] + Lockout <= now

\* A lock runs from the newest guess.
Locks(r, w) == r.until > 0 => Len(w) > 0 /\ r.until = w[Len(w)] + Lockout

Bounded(w) == \A k \in 1..Len(w) : k > MaxAttempts => w[k] >= w[k - MaxAttempts] + Lockout

Tracks(r, w) == Ordered(w) /\ Counts(r, w) /\ Locks(r, w)

\* What recordFailure makes of a record that is not locked.
OneMore(r) == [failures |-> r.failures + 1, last |-> now,
               until |-> IF r.failures + 1 >= MaxAttempts THEN now + Lockout ELSE 0]

LimiterInv == \A i \in Ip : Tracks(attempts[i], wrong[i]) /\ Bounded(wrong[i])

--------------------------------------------------------------------------------

LEMMA NoRecordTyping == NoRecord \in Record
BY WebLoginAssumption DEF NoRecord, Record

(* A record that is dropped counts no guess of this lockout period.         *)
LEMMA CurrentTracks ==
  ASSUME LoginTypeOK, NEW i \in Ip, Tracks(attempts[i], wrong[i])
  PROVE  Current(i) \in Record /\ Tracks(Current(i), wrong[i])
<1> USE WebLoginAssumption
<1> DEFINE r == attempts[i]
           w == wrong[i]
<1>1. r \in Record /\ w \in Seq(1..MaxTime) /\ now \in Nat /\ Lockout \in Nat
  BY DEF LoginTypeOK
<1>2. r.until \in Nat /\ r.last \in Nat /\ r.failures \in Nat
  BY <1>1 DEF Record
<1>3. Len(w) \in Nat /\ \A k \in 1..Len(w) : w[k] \in Nat
  BY <1>1
<1>4. Tracks(r, w)
  OBVIOUS
<1>5. CASE ~Outdated(r)
  BY <1>1, <1>4, <1>5 DEF Current
<1>6. CASE Outdated(r)
  <2>1. Current(i) = NoRecord
    BY <1>6 DEF Current
  <2> HIDE DEF r, w
  <2>2. \A k \in 1..Len(w) : w[k] + Lockout <= now
    <3>0. ASSUME Len(w) > 0, w[Len(w)] + Lockout <= now PROVE \A k \in 1..Len(w) : w[k] + Lockout <= now
      <4> SUFFICES ASSUME NEW k \in 1..Len(w) PROVE w[k] + Lockout <= now
        OBVIOUS
      <4>1. Len(w) \in k..Len(w) /\ Len(w) \in 1..Len(w)
        BY <1>3, <3>0
      <4>2. w[k] <= w[Len(w)]
        BY <1>4, <4>1 DEF Tracks, Ordered
      <4>3. w[k] \in Nat /\ w[Len(w)] \in Nat /\ now \in Nat /\ Lockout \in Nat
        BY <1>1, <1>3, <4>1
      <4> QED
        BY <3>0, <4>2, <4>3
    <3>1. CASE r.until > 0
      <4>1. Len(w) > 0 /\ w[Len(w)] + Lockout <= now
        BY <1>4, <1>6, <3>1 DEF Tracks, Locks, Outdated
      <4> QED
        BY <3>0, <4>1
    <3>2. CASE r.until = 0 /\ r.failures = 0
      BY <1>3, <1>4, <3>2 DEF Tracks, Counts
    <3>3. CASE r.until = 0 /\ r.failures > 0
      <4>1. Len(w) > 0 /\ w[Len(w)] + Lockout <= now
        BY <1>2, <1>3, <1>4, <1>6, <3>3 DEF Tracks, Counts, Outdated
      <4> QED
        BY <3>0, <4>1
    <3> QED
      BY <1>2, <3>1, <3>2, <3>3
  <2>3. Counts(NoRecord, w) /\ Locks(NoRecord, w)
    BY <1>3, <2>2 DEF Counts, Locks, NoRecord
  <2>4. Tracks(NoRecord, w)
    BY <1>4, <2>3 DEF Tracks
  <2> QED
    BY <2>1, <2>4, NoRecordTyping DEF w
<1> QED
  BY <1>5, <1>6

(* One more guess of an address that is not locked: the one MaxAttempts     *)
(* before it is not among those the record counts.                          *)
LEMMA GuessTracks ==
  ASSUME LoginTypeOK, NEW r \in Record, NEW w \in Seq(1..MaxTime),
         Tracks(r, w), Bounded(w), r.until = 0
  PROVE  /\ OneMore(r) \in Record /\ Append(w, now) \in Seq(1..MaxTime)
         /\ Tracks(OneMore(r), Append(w, now)) /\ Bounded(Append(w, now))
<1> USE WebLoginAssumption
<1> DEFINE v == Append(w, now)
           n == Len(w)
           k == OneMore(r)
<1>1. now \in 1..MaxTime /\ now \in Nat /\ Lockout \in Nat /\ Lockout > 0 /\ MaxAttempts \in Nat
  BY DEF LoginTypeOK
<1>2. r.failures \in Nat /\ r.failures < MaxAttempts /\ r.failures <= n
  BY DEF Tracks, Counts, Record
<1>3. k.failures = r.failures + 1 /\ k.last = now
      /\ k.until = IF r.failures + 1 >= MaxAttempts THEN now + Lockout ELSE 0
  BY DEF OneMore
<1>4. k \in Record
  BY <1>1, <1>2 DEF OneMore, Record
<1>5. n \in Nat /\ v \in Seq(1..MaxTime) /\ Len(v) = n + 1 /\ v[n + 1] = now
      /\ \A j \in 1..n : v[j] = w[j] /\ w[j] \in Nat
  BY <1>1
<1>6. \A j \in 1..n : w[j] <= now
  BY <1>5 DEF Tracks, Ordered
<1>7. \A j \in 1..(n - r.failures) : w[j] + Lockout <= now
  BY DEF Tracks, Counts
<1> HIDE DEF v, n, k
<1>8. Ordered(v)
  <2> SUFFICES ASSUME NEW a \in 1..Len(v) PROVE v[a] <= now /\ \A b \in a..Len(v) : v[a] <= v[b]
    BY DEF Ordered
  <2>0. a \in 1..n \/ a = n + 1
    BY <1>5
  <2>1. v[a] <= now
    <3>1. CASE a \in 1..n
      <4>1. v[a] = w[a]
        BY <1>5, <3>1
      <4>2. w[a] <= now
        BY <1>6, <3>1
      <4> QED
        BY <4>1, <4>2
    <3>2. CASE a = n + 1
      <4>1. v[a] = now
        BY <1>5, <3>2
      <4> QED
        BY <1>1, <4>1
    <3> QED
      BY <2>0, <3>1, <3>2
  <2>2. ASSUME NEW b \in a..Len(v) PROVE v[a] <= v[b]
    <3>1. CASE b = n + 1
      BY <1>5, <2>1, <3>1
    <3>2. CASE b # n + 1
      <4>1. a \in 1..n /\ b \in a..n /\ b \in 1..n
        BY <1>5, <3>2
      <4> QED
        BY <1>5, <4>1 DEF Tracks, Ordered, n
    <3> QED
      BY <3>1, <3>2
  <2> QED
    BY <2>1, <2>2
<1>9. Counts(k, v)
  <2> SUFFICES ASSUME k.until = 0
               PROVE  /\ k.failures < MaxAttempts /\ k.failures <= Len(v)
                      /\ k.last = v[Len(v)]
                      /\ \A j \in 1..(Len(v) - k.failures) : v[j] + Lockout <= now
    BY DEF Counts
  <2>0. now + Lockout # 0
    BY <1>1
  <2>1. r.failures + 1 < MaxAttempts
    BY <1>1, <1>2, <1>3, <2>0
  <2>2. Len(v) - k.failures = n - r.failures
    <3>1. \A x, y \in Nat : (x + 1) - (y + 1) = x - y
      OBVIOUS
    <3>2. Len(v) = n + 1 /\ k.failures = r.failures + 1
      BY <1>3, <1>5
    <3>3. n \in Nat /\ r.failures \in Nat
      BY <1>2, <1>5
    <3>4. (n + 1) - (r.failures + 1) = n - r.failures
      BY <3>1, <3>3, Zenon
    <3> QED
      BY <3>2, <3>4, Zenon
  <2>3. \A j \in 1..(n - r.failures) : j \in 1..n
    BY <1>2, <1>5
  <2>4. \A j \in 1..(n - r.failures) : v[j] + Lockout <= now
    BY <1>5, <1>7, <2>3
  <2>5. k.failures <= Len(v) /\ k.last = v[Len(v)] /\ k.failures < MaxAttempts
    BY <1>2, <1>3, <1>5, <2>1
  <2> QED
    BY <2>2, <2>4, <2>5
<1>10. Locks(k, v)
  BY <1>1, <1>2, <1>3, <1>5 DEF Locks
<1>11. Bounded(v)
  <2> SUFFICES ASSUME NEW j \in 1..Len(v), j > MaxAttempts PROVE v[j] >= v[j - MaxAttempts] + Lockout
    BY DEF Bounded
  <2>1. CASE j = n + 1
    <3>1. j - MaxAttempts \in 1..(n - r.failures) /\ j - MaxAttempts \in 1..n
      BY <1>1, <1>2, <1>5, <2>1
    <3> QED
      BY <1>1, <1>5, <1>7, <2>1, <3>1
  <2>2. CASE j # n + 1
    <3>1. j \in 1..n /\ j - MaxAttempts \in 1..n
      BY <1>1, <1>5, <2>2
    <3> QED
      BY <1>5, <3>1 DEF Bounded, n
  <2> QED
    BY <2>1, <2>2
<1>12. Tracks(k, v)
  BY <1>8, <1>9, <1>10 DEF Tracks
<1> QED
  BY <1>4, <1>5, <1>11, <1>12 DEF v, k

--------------------------------------------------------------------------------

LEMMA LoginStep ==
  ASSUME LoginTypeOK, LimiterInv, [LoginNext]_loginVars
  PROVE  (LoginTypeOK /\ LimiterInv)'
<1> USE WebLoginAssumption DEF LoginTypeOK
<1>0. \A i \in Ip : Current(i) \in Record /\ Tracks(Current(i), wrong[i]) /\ Bounded(wrong[i])
  BY CurrentTracks DEF LimiterInv
<1>1. ASSUME NEW i \in Ip, NEW r \in Record, NEW w \in Seq(1..MaxTime), Tracks(r, w), Bounded(w),
             attempts' = [attempts EXCEPT ![i] = r], wrong' = [wrong EXCEPT ![i] = w], now' = now
      PROVE  /\ LimiterInv' /\ attempts' \in [Ip -> Record] /\ wrong' \in [Ip -> Seq(1..MaxTime)]
  <2>1. \A j \in Ip : /\ attempts'[j] = IF j = i THEN r ELSE attempts[j]
                      /\ wrong'[j] = IF j = i THEN w ELSE wrong[j]
    BY <1>1
  <2>2. \A j \in Ip : Tracks(attempts'[j], wrong'[j]) /\ Bounded(wrong'[j])
    BY <1>1, <2>1 DEF LimiterInv
  <2>3. LimiterInv'
    BY <1>1, <2>2 DEF LimiterInv, Tracks, Ordered, Counts, Locks, Bounded
  <2> QED
    BY <1>1, <2>3
<1>2. ASSUME UNCHANGED <<attempts, wrong, now>> PROVE LimiterInv'
  BY <1>2 DEF LimiterInv, Tracks, Ordered, Counts, Locks, Bounded
<1>3. ASSUME NEW b \in Browser, Check(b) PROVE (LoginTypeOK /\ LimiterInv)'
  <2> DEFINE i == IpOf[b]
  <2>1. wrong' = [wrong EXCEPT ![i] = wrong[i]] /\ attempts' = [attempts EXCEPT ![i] = Current(i)] /\ i \in Ip
    BY <1>3 DEF Check
  <2>2. now' = now /\ UNCHANGED sessions
    BY <1>3 DEF Check
  <2> HIDE DEF i
  <2>3. LimiterInv' /\ attempts' \in [Ip -> Record] /\ wrong' \in [Ip -> Seq(1..MaxTime)]
    BY <1>0, <1>1, <2>1, <2>2
  <2>4. request' \in [Browser -> {"none", "body"}]
    BY <1>3 DEF Check, Becomes
  <2> QED
    BY <2>2, <2>3, <2>4 DEF sessions
<1>4. ASSUME NEW b \in Browser, BodyFails(b) \/ LockedMeanwhile(b) PROVE (LoginTypeOK /\ LimiterInv)'
  BY <1>2, <1>4 DEF BodyFails, LockedMeanwhile, Becomes, sessions
<1>5. ASSUME NEW b \in Browser, WrongPassword(b) PROVE (LoginTypeOK /\ LimiterInv)'
  <2> DEFINE i == IpOf[b]
             r == Current(i)
  <2>1. i \in Ip /\ r.until = 0 /\ r \in Record /\ Tracks(r, wrong[i]) /\ Bounded(wrong[i])
    BY <1>0, <1>5 DEF WrongPassword, StillAllowed, Allowed
  <2>2. attempts' = [attempts EXCEPT ![i] = OneMore(r)] /\ wrong' = [wrong EXCEPT ![i] = Append(wrong[i], now)]
    BY <1>5, <2>1 DEF WrongPassword, Allowed, OneMore
  <2>3. now' = now /\ UNCHANGED sessions /\ request' \in [Browser -> {"none", "body"}]
    BY <1>5 DEF WrongPassword, Becomes
  <2> HIDE DEF i, r
  <2>4. wrong[i] \in Seq(1..MaxTime)
    BY <2>1
  <2>5. /\ OneMore(r) \in Record /\ Append(wrong[i], now) \in Seq(1..MaxTime)
        /\ Tracks(OneMore(r), Append(wrong[i], now)) /\ Bounded(Append(wrong[i], now))
    BY <2>1, <2>4, GuessTracks
  <2>6. LimiterInv' /\ attempts' \in [Ip -> Record] /\ wrong' \in [Ip -> Seq(1..MaxTime)]
    BY <1>1, <2>1, <2>2, <2>3, <2>5
  <2> QED
    BY <2>3, <2>6 DEF sessions
<1>6. ASSUME NEW b \in Browser, RightPassword(b) PROVE (LoginTypeOK /\ LimiterInv)'
  <2>1. /\ attempts' = [attempts EXCEPT ![IpOf[b]] = NoRecord] /\ wrong' = [wrong EXCEPT ![IpOf[b]] = <<>>]
        /\ now' = now /\ IpOf[b] \in Ip
    BY <1>6 DEF RightPassword
  <2>2. <<>> \in Seq(1..MaxTime) /\ Tracks(NoRecord, <<>>) /\ Bounded(<<>>)
    BY DEF Tracks, Ordered, Counts, Locks, Bounded, NoRecord
  <2>3. LimiterInv' /\ attempts' \in [Ip -> Record] /\ wrong' \in [Ip -> Seq(1..MaxTime)]
    BY <1>1, <2>1, <2>2, NoRecordTyping
  <2>4. created' \in 0..MaxSessions /\ created + 1 \in Token
    BY <1>6 DEF RightPassword, Token
  <2>5. cookie' \in [Browser -> Token \cup {NoToken}] /\ request' \in [Browser -> {"none", "body"}]
    BY <1>6, <2>4 DEF RightPassword, Becomes
  <2>6. expiresAt' \in [Token -> Nat]
    BY <1>6 DEF RightPassword
  <2> QED
    BY <2>1, <2>3, <2>4, <2>5, <2>6
<1>7. ASSUME NEW b \in Browser, Logout(b) PROVE (LoginTypeOK /\ LimiterInv)'
  BY <1>2, <1>7 DEF Logout
<1>8. CASE Cleanup
  <2>1. attempts' = [i \in Ip |-> Current(i)] /\ wrong' = wrong /\ now' = now
    BY <1>8 DEF Cleanup
  <2>2. \A i \in Ip : attempts'[i] = Current(i) /\ wrong'[i] = wrong[i]
    BY <2>1
  <2>3. \A i \in Ip : Tracks(attempts'[i], wrong'[i]) /\ Bounded(wrong'[i])
    BY <1>0, <2>2
  <2>4. LimiterInv'
    BY <2>1, <2>3 DEF LimiterInv, Tracks, Ordered, Counts, Locks, Bounded
  <2> QED
    BY <1>0, <1>8, <2>1, <2>4 DEF Cleanup
<1>9. CASE Tick
  <2>1. now' = now + 1 /\ now' \in 1..MaxTime /\ UNCHANGED <<attempts, request, wrong, sessions>>
    BY <1>9 DEF Tick
  <2>2. ASSUME NEW i \in Ip PROVE Tracks(attempts[i], wrong[i])'
    <3>1. Tracks(attempts[i], wrong[i])
      BY DEF LimiterInv
    <3>2. attempts'[i] = attempts[i] /\ wrong'[i] = wrong[i]
      BY <2>1
    <3>3. wrong[i] \in Seq(1..MaxTime) /\ Len(wrong[i]) \in Nat /\ attempts[i].failures \in Nat
      BY DEF Record
    <3>4. \A k \in 1..Len(wrong[i]) : wrong[i][k] \in Nat
      BY <3>3
    <3>5. now \in Nat /\ now' \in Nat /\ Lockout \in Nat /\ now' > now
      BY <2>1
    <3>6. Ordered(wrong[i])'
      <4>1. \A k \in 1..Len(wrong[i]) : wrong[i][k] <= now'
        BY <3>1, <3>4, <3>5 DEF Tracks, Ordered
      <4>2. \A k \in 1..Len(wrong[i]) : \A l \in k..Len(wrong[i]) : wrong[i][k] <= wrong[i][l]
        BY <3>1 DEF Tracks, Ordered
      <4> QED
        BY <3>2, <4>1, <4>2 DEF Ordered
    <3>7. Counts(attempts[i], wrong[i])'
      <4>1. ASSUME attempts[i].until = 0
            PROVE  \A k \in 1..(Len(wrong[i]) - attempts[i].failures) : wrong[i][k] + Lockout <= now'
        <5> SUFFICES ASSUME NEW k \in 1..(Len(wrong[i]) - attempts[i].failures)
                     PROVE  wrong[i][k] + Lockout <= now'
          OBVIOUS
        <5>1. wrong[i][k] + Lockout <= now
          BY <3>1, <4>1 DEF Tracks, Counts
        <5>2. wrong[i][k] \in Nat
          BY <3>3, <3>4
        <5> QED
          BY <3>5, <5>1, <5>2
      <4> QED
        BY <3>1, <3>2, <4>1 DEF Tracks, Counts
    <3>8. Locks(attempts[i], wrong[i])'
      BY <3>1, <3>2 DEF Tracks, Locks
    <3> QED
      BY <3>6, <3>7, <3>8 DEF Tracks
  <2>3. LimiterInv'
    BY <2>1, <2>2 DEF LimiterInv, Bounded
  <2> QED
    BY <2>1, <2>3 DEF sessions
<1>10. CASE UNCHANGED loginVars
  BY <1>2, <1>10 DEF loginVars, sessions
<1> QED
  BY <1>3, <1>4, <1>5, <1>6, <1>7, <1>8, <1>9, <1>10 DEF LoginNext

THEOREM LoginInvariant == LoginSpec => [](LoginTypeOK /\ LimiterInv)
<1>1. LoginInit => LoginTypeOK /\ LimiterInv
  <2> SUFFICES ASSUME LoginInit PROVE LoginTypeOK /\ LimiterInv
    OBVIOUS
  <2> USE WebLoginAssumption DEF LoginInit
  <2>1. <<>> \in Seq(1..MaxTime) /\ Tracks(NoRecord, <<>>) /\ Bounded(<<>>)
    BY DEF Tracks, Ordered, Counts, Locks, Bounded, NoRecord
  <2>2. LoginTypeOK
    BY <2>1, NoRecordTyping DEF LoginTypeOK
  <2>3. \A i \in Ip : attempts[i] = NoRecord /\ wrong[i] = <<>>
    OBVIOUS
  <2> QED
    BY <2>1, <2>2, <2>3 DEF LimiterInv
<1>2. LoginTypeOK /\ LimiterInv /\ [LoginNext]_loginVars => (LoginTypeOK /\ LimiterInv)'
  BY LoginStep
<1> QED
  BY <1>1, <1>2, PTL DEF LoginSpec

(* GuessesAreBounded for any number of logins under way at once             *)
(* (loginRateLimiter.ts:42-91, auth.ts:26-66).                              *)
THEOREM GuessesStayBounded == LoginSpec => []GuessesAreBounded
<1>1. LoginTypeOK /\ LimiterInv => GuessesAreBounded
  <2> SUFFICES ASSUME LoginTypeOK, LimiterInv, NEW i \in Ip, NEW k \in DOMAIN wrong[i], k > MaxAttempts
               PROVE  wrong[i][k] >= wrong[i][k - MaxAttempts] + Lockout
    BY DEF GuessesAreBounded
  <2>1. wrong[i] \in Seq(1..MaxTime)
    BY DEF LoginTypeOK
  <2>2. k \in 1..Len(wrong[i])
    BY <2>1
  <2> QED
    BY <2>2 DEF LimiterInv, Bounded
<1> QED
  BY <1>1, LoginInvariant, PTL

--------------------------------------------------------------------------------
(* The dashboard *)

\* While the stream is open there is room for the notice that ends it.
RoomForNotice == stream # "closed" => Len(wire) <= MaxWire

(* Typing: whatever the server and the page do, in whatever order, the wire *)
(* holds snapshots and, at its end, the notice that the session is over     *)
(* (dashboard.ts:44-192, app.js:113-181).                                  *)
THEOREM DashboardTyping == DashboardSpec => []DashboardTypeOK
<1> USE DashboardAssumption
<1> DEFINE Inv == DashboardTypeOK /\ RoomForNotice
           Event == Snapshot \cup {AuthExpired}
<1>1. DashboardInit => Inv
  <2>1. <<>> \in Seq(Event) /\ Len(<<>>) = 0 /\ 0 \in Snapshot
    BY DEF Snapshot
  <2> SUFFICES ASSUME DashboardInit PROVE Inv
    OBVIOUS
  <2>2. wire \in Seq(Event) /\ Len(wire) <= MaxWire + 1
    BY <2>1 DEF DashboardInit
  <2>3. RoomForNotice
    BY DEF DashboardInit, RoomForNotice
  <2>4. latest \in Snapshot /\ losses \in 0..MaxLosses /\ pending \in Snapshot \cup {Nothing} /\ shown \in Snapshot \cup {Nothing}
    BY <2>1 DEF DashboardInit
  <2>5. valid \in BOOLEAN /\ asked \in BOOLEAN /\ refused \in BOOLEAN
    BY DEF DashboardInit
  <2>6. stream = "closed" /\ page = "absent" /\ source = "none"
    BY DEF DashboardInit
  <2> HIDE DEF Event
  <2> QED
    BY <2>1, <2>2, <2>3, <2>4, <2>5, <2>6 DEF DashboardTypeOK, Event
<1>2. Inv /\ [DashboardNext]_dashboardVars => Inv'
  <2> SUFFICES ASSUME DashboardTypeOK, RoomForNotice, [DashboardNext]_dashboardVars PROVE Inv'
    OBVIOUS
  <2> USE DEF DashboardTypeOK, RoomForNotice
  <2>0. wire \in Seq(Event) /\ Len(wire) \in Nat /\ Len(wire) <= MaxWire + 1
    OBVIOUS
  <2>1. \A s \in Event : Append(wire, s) \in Seq(Event) /\ Len(Append(wire, s)) = Len(wire) + 1
    BY <2>0, AppendProperties
  <2>e. <<>> \in Seq(Event) /\ Len(<<>>) = 0
    OBVIOUS
  <2>2. CASE Change
    BY <2>2 DEF Change, client, Snapshot
  <2>3. CASE SessionEnds
    BY <2>3 DEF SessionEnds, client
  <2>4. CASE Open
    BY <2>1, <2>4 DEF Open, Writes
  <2>5. CASE Reject \/ Refuse
    <3>1. /\ source' = "none" /\ asked' = TRUE /\ refused' \in {refused, TRUE}
          /\ UNCHANGED <<latest, valid, stream, pending, wire, page, shown, losses>>
      BY <2>5 DEF Reject, Refuse, GivesUp
    <3> QED
      BY <3>1
  <2>6. CASE Expire
    BY <2>1, <2>6 DEF Expire, client
  <2>7. CASE Update
    <3>1. CASE stream = "ready"
      BY <2>1, <2>7, <3>1 DEF Update, Writes, client
    <3>2. CASE stream # "ready"
      BY <2>7, <3>2 DEF Update, client
    <3> QED
      BY <3>1, <3>2
  <2>8. CASE Heartbeat
    BY <2>8 DEF Heartbeat, client
  <2>9. CASE Drain
    <3>1. CASE pending = Nothing
      BY <2>9, <3>1 DEF Drain, client
    <3>2. CASE pending # Nothing
      <4>1. pending \in Snapshot
        BY <3>2
      <4>2. /\ wire' = Append(wire, pending) /\ Len(wire) < MaxWire /\ stream' \in {"ready", "blocked"}
            /\ pending' = Nothing /\ UNCHANGED <<latest, valid, losses, page, source, refused, asked, shown>>
        BY <2>9, <3>2 DEF Drain, Writes, client
      <4> QED
        BY <2>0, <2>1, <4>1, <4>2
    <3> QED
      BY <3>1, <3>2
  <2>10. CASE Visit
    BY <2>10 DEF Visit
  <2>11. CASE Answers
    <3>1. CASE Loaded
      BY <3>1 DEF Loaded, Answered, Following
    <3>2. CASE LoadFails
      BY <3>2 DEF LoadFails, Answered, Following
    <3>3. CASE Unauthorised
      <4>1. /\ page' = "login" /\ source' = "none" /\ stream' = "closed" /\ pending' = Nothing
            /\ wire' = <<>> /\ asked' = FALSE /\ UNCHANGED <<shown, latest, valid, refused, losses>>
        BY <3>3 DEF Unauthorised, Answered, Following
      <4>2. wire' \in Seq(Event) /\ Len(wire') <= MaxWire + 1
        BY <2>e, <4>1
      <4>3. latest' \in Snapshot /\ losses' \in 0..MaxLosses /\ pending' \in Snapshot \cup {Nothing} /\ shown' \in Snapshot \cup {Nothing}
        BY <4>1
      <4>4. valid' \in BOOLEAN /\ asked' \in BOOLEAN /\ refused' \in BOOLEAN
        BY <4>1
      <4> QED
        BY <4>1, <4>2, <4>3, <4>4
    <3>4. CASE StillAuthorised
      BY <3>4 DEF StillAuthorised, Answered
    <3> QED
      BY <2>11, <3>1, <3>2, <3>3, <3>4 DEF Answers
  <2>12. CASE Receive
    <3>1. CASE Head(wire) = AuthExpired
      BY <2>e, <2>12, <3>1 DEF Receive, Following
    <3>2. CASE Head(wire) # AuthExpired
      <4>1. /\ wire # <<>> /\ shown' = Head(wire) /\ wire' = Tail(wire)
            /\ UNCHANGED <<stream, pending, page, source, refused, asked, latest, valid, losses>>
        BY <2>12, <3>2 DEF Receive
      <4>2. Head(wire) \in Event /\ Tail(wire) \in Seq(Event) /\ Len(Tail(wire)) = Len(wire) - 1
        BY <2>0, <4>1, HeadTailProperties
      <4> QED
        BY <2>0, <3>2, <4>1, <4>2
    <3> QED
      BY <3>1, <3>2
  <2>13. CASE Lose
    BY <2>e, <2>13 DEF Lose
  <2>14. CASE UNCHANGED dashboardVars
    BY <2>14 DEF dashboardVars
  <2> QED
    BY <2>2, <2>3, <2>4, <2>5, <2>6, <2>7, <2>8, <2>9, <2>10, <2>11, <2>12, <2>13, <2>14
       DEF DashboardNext, Server, Page
<1> QED
  BY <1>1, <1>2, PTL DEF DashboardSpec

--------------------------------------------------------------------------------
(* The operators of the log page: picking and sorting *)

\* Whoever counts those up to itself has a place of its own, and every place is taken.
LEMMA EveryPlaceIsTaken ==
  ASSUME NEW K, IsFiniteSet(K), NEW upTo \in [K -> SUBSET K],
         \A k \in K : k \in upTo[k],
         \A k, l \in K : k # l => \/ upTo[k] \subseteq upTo[l] /\ l \notin upTo[k]
                                  \/ upTo[l] \subseteq upTo[k] /\ k \notin upTo[l]
  PROVE  /\ Cardinality(K) \in Nat
         /\ \A k \in K : Cardinality(upTo[k]) \in 1..Cardinality(K)
         /\ \A n \in 1..Cardinality(K) : \E k \in K : Cardinality(upTo[k]) = n
         /\ \A k, l \in K : Cardinality(upTo[k]) = Cardinality(upTo[l]) => k = l
<1> DEFINE c == Cardinality(K)
           rank == [k \in K |-> Cardinality(upTo[k])]
<1>1. c \in Nat
  BY FS_CardinalityType
<1>2. \A k \in K : IsFiniteSet(upTo[k]) /\ rank[k] \in Nat /\ rank[k] <= c
  BY FS_Subset, FS_CardinalityType
<1>3. \A k \in K : rank[k] # 0
  BY <1>2, FS_EmptySet
<1>4. ASSUME NEW k \in K, NEW l \in K, upTo[k] \subseteq upTo[l], l \notin upTo[k] PROVE rank[k] # rank[l]
  BY <1>2, <1>4, FS_Subset
<1>5. rank \in [K -> 1..c]
  BY <1>1, <1>2, <1>3
<1>6. \A k, l \in K : rank[k] = rank[l] => k = l
  BY <1>4
<1>7. rank \in Injection(K, 1..c)
  BY <1>5, <1>6 DEF Injection, IsInjective
<1>8. IsFiniteSet(1..c) /\ Cardinality(1..c) = c
  BY <1>1, FS_Interval
<1>9. rank \in Surjection(K, 1..c)
  BY <1>7, <1>8, FS_Injection
<1> QED
  BY <1>1, <1>5, <1>6, <1>9 DEF Surjection

\* What is picked is what stands at those positions.
LEMMA PickedElements ==
  ASSUME NEW E, NEW s \in Seq(E), NEW K \in SUBSET DOMAIN s
  PROVE  /\ Picked(s, K) \in Seq(E) /\ Cardinality(K) \in Nat /\ Len(Picked(s, K)) = Cardinality(K)
         /\ Range(Picked(s, K)) = {s[k] : k \in K}
<1> DEFINE upTo == [k \in K |-> K \cap (1..k)]
           nth == [n \in 1..Cardinality(K) |-> CHOOSE k \in K : Cardinality(K \cap (1..k)) = n]
           picked == [n \in 1..Cardinality(K) |-> s[nth[n]]]
<1>1. Len(s) \in Nat /\ DOMAIN s = 1..Len(s) /\ \A k \in DOMAIN s : s[k] \in E
  BY LenProperties, ElementOfSeq
<1>2. K \in SUBSET (1..Len(s)) /\ IsFiniteSet(1..Len(s))
  BY <1>1, FS_Interval
<1>3. IsFiniteSet(K)
  BY <1>2, FS_Subset
<1>4. upTo \in [K -> SUBSET K] /\ \A k \in K : k \in upTo[k]
  BY <1>2
<1>5. \A k, l \in K : k # l => \/ upTo[k] \subseteq upTo[l] /\ l \notin upTo[k]
                               \/ upTo[l] \subseteq upTo[k] /\ k \notin upTo[l]
  BY <1>2
<1> HIDE DEF upTo
<1>6. /\ Cardinality(K) \in Nat
      /\ \A k \in K : Cardinality(upTo[k]) \in 1..Cardinality(K)
      /\ \A n \in 1..Cardinality(K) : \E k \in K : Cardinality(upTo[k]) = n
      /\ \A k, l \in K : Cardinality(upTo[k]) = Cardinality(upTo[l]) => k = l
  BY <1>3, <1>4, <1>5, EveryPlaceIsTaken
<1>7. \A k \in K : upTo[k] = K \cap (1..k)
  BY DEF upTo
<1>8. \A n \in 1..Cardinality(K) : nth[n] \in K /\ Cardinality(upTo[nth[n]]) = n
  <2> SUFFICES ASSUME NEW n \in 1..Cardinality(K) PROVE nth[n] \in K /\ Cardinality(upTo[nth[n]]) = n
    OBVIOUS
  <2>1. nth[n] = CHOOSE k \in K : Cardinality(K \cap (1..k)) = n
    OBVIOUS
  <2>2. \E k \in K : Cardinality(K \cap (1..k)) = n
    BY <1>6, <1>7
  <2> HIDE DEF nth
  <2>3. nth[n] \in K /\ Cardinality(K \cap (1..nth[n])) = n
    BY <2>1, <2>2
  <2> QED
    BY <1>7, <2>3
<1>9. \A k \in K : \E n \in 1..Cardinality(K) : nth[n] = k
  <2> SUFFICES ASSUME NEW k \in K PROVE \E n \in 1..Cardinality(K) : nth[n] = k
    OBVIOUS
  <2> HIDE DEF nth
  <2>1. Cardinality(upTo[k]) \in 1..Cardinality(K)
    BY <1>6
  <2>2. nth[Cardinality(upTo[k])] = k
    BY <1>6, <1>8, <2>1
  <2> QED
    BY <2>1, <2>2
<1>10. Picked(s, K) = picked
  BY DEF Picked
<1> HIDE DEF nth
<1>11. picked \in [1..Cardinality(K) -> E]
  BY <1>1, <1>8
<1>12. picked \in Seq(E) /\ Len(picked) = Cardinality(K)
  BY <1>6, <1>11
<1>13. Range(picked) = {s[k] : k \in K}
  BY <1>8, <1>9, <1>11 DEF Range
<1> QED
  BY <1>6, <1>10, <1>12, <1>13

\* Sorting keeps what there is.
LEMMA SortedElements ==
  ASSUME NEW E, \A e \in E : e[2] \in Nat, NEW s \in Seq(E)
  PROVE  Sorted(s) \in Seq(E) /\ Len(Sorted(s)) = Len(s) /\ Range(Sorted(s)) = Range(s)
<1> DEFINE K == DOMAIN s
           before(k) == {m \in K : s[m][2] < s[k][2] \/ (s[m][2] = s[k][2] /\ m <= k)}
           upTo == [k \in K |-> before(k)]
           nth == [n \in K |-> CHOOSE k \in K : Place(s, k) = n]
           sorted == [n \in K |-> s[nth[n]]]
<1>1. Len(s) \in Nat /\ K = 1..Len(s) /\ \A k \in K : s[k] \in E
  BY LenProperties, ElementOfSeq
<1>2. IsFiniteSet(K) /\ Cardinality(K) = Len(s)
  <2>1. \A x \in Nat : IsFiniteSet(1..x) /\ Cardinality(1..x) = x
    BY FS_Interval
  <2> HIDE DEF K
  <2> QED
    BY <1>1, <2>1
<1>3. \A k \in K : k \in Nat /\ s[k][2] \in Nat
  BY <1>1
<1> HIDE DEF K
<1>4. upTo \in [K -> SUBSET K] /\ \A k \in K : k \in upTo[k]
  BY <1>3
<1>5. ASSUME NEW k \in K, NEW l \in K, k # l
      PROVE  \/ upTo[k] \subseteq upTo[l] /\ l \notin upTo[k]
             \/ upTo[l] \subseteq upTo[k] /\ k \notin upTo[l]
  <2>1. CASE s[k][2] < s[l][2] \/ (s[k][2] = s[l][2] /\ k < l)
    BY <1>3, <1>5, <2>1
  <2>2. CASE s[l][2] < s[k][2] \/ (s[l][2] = s[k][2] /\ l < k)
    BY <1>3, <1>5, <2>2
  <2> QED
    BY <1>3, <1>5, <2>1, <2>2
<1>6. \A k \in K : Place(s, k) = Cardinality(upTo[k])
  BY DEF Place, K
<1> HIDE DEF upTo
<1>7. 1..Cardinality(K) = K
  BY <1>1, <1>2
<1>8. /\ \A k \in K : Cardinality(upTo[k]) \in 1..Cardinality(K)
      /\ \A n \in 1..Cardinality(K) : \E k \in K : Cardinality(upTo[k]) = n
      /\ \A k, l \in K : Cardinality(upTo[k]) = Cardinality(upTo[l]) => k = l
  BY <1>2, <1>4, <1>5, EveryPlaceIsTaken
<1>9. /\ \A k \in K : Place(s, k) \in K
      /\ \A n \in K : \E k \in K : Place(s, k) = n
      /\ \A k, l \in K : Place(s, k) = Place(s, l) => k = l
  <2>1. /\ \A k \in K : Cardinality(upTo[k]) \in K
        /\ \A n \in K : \E k \in K : Cardinality(upTo[k]) = n
    BY <1>7, <1>8, Zenon
  <2> QED
    BY <1>6, <1>8, <2>1
<1>10. \A n \in K : nth[n] \in K /\ Place(s, nth[n]) = n
  <2> SUFFICES ASSUME NEW n \in K PROVE nth[n] \in K /\ Place(s, nth[n]) = n
    OBVIOUS
  <2>1. nth[n] = CHOOSE k \in K : Place(s, k) = n
    OBVIOUS
  <2> HIDE DEF nth
  <2> QED
    BY <1>9, <2>1
<1>11. \A k \in K : \E n \in K : nth[n] = k
  BY <1>9, <1>10
<1>12. Sorted(s) = sorted
  BY DEF Sorted, K
<1> HIDE DEF nth
<1>13. sorted \in [1..Len(s) -> E]
  BY <1>1, <1>10
<1>14. sorted \in Seq(E) /\ Len(sorted) = Len(s)
  BY <1>1, <1>13
<1>15. Range(sorted) = Range(s)
  BY <1>10, <1>11 DEF Range, K
<1> QED
  BY <1>12, <1>14, <1>15

\* How often an entry is there.
LEMMA OccurrencesCount ==
  ASSUME NEW E, NEW s \in Seq(E), NEW e
  PROVE  /\ IsFiniteSet({m \in DOMAIN s : s[m] = e})
         /\ Occurrences(e, s) \in Nat
         /\ Occurrences(e, s) = 0 <=> e \notin Range(s)
<1> DEFINE there == {m \in DOMAIN s : s[m] = e}
<1>1. DOMAIN s = 1..Len(s) /\ Len(s) \in Nat
  BY LenProperties
<1>2. IsFiniteSet(DOMAIN s)
  BY <1>1, FS_Interval
<1>3. there \in SUBSET DOMAIN s
  OBVIOUS
<1>4. there = {} <=> e \notin Range(s)
  BY DEF Range
<1> HIDE DEF there
<1>5. IsFiniteSet(there)
  BY <1>2, <1>3, FS_Subset
<1>6. Cardinality(there) \in Nat /\ (Cardinality(there) = 0 <=> there = {})
  BY <1>5, FS_CardinalityType, FS_EmptySet
<1> QED
  BY <1>4, <1>5, <1>6 DEF there, Occurrences

\* The beginning of a list has what stands there.
LEMMA Beginning ==
  ASSUME NEW E, NEW s \in Seq(E), NEW n \in DOMAIN s
  PROVE  /\ SubSeq(s, 1, n) \in Seq(E) /\ DOMAIN SubSeq(s, 1, n) = 1..n /\ n \in Nat /\ n >= 1
         /\ \A m \in 1..n : m \in DOMAIN s /\ SubSeq(s, 1, n)[m] = s[m]
         /\ s[n] \in Range(SubSeq(s, 1, n))
<1>1. DOMAIN s = 1..Len(s) /\ Len(s) \in Nat /\ n \in Nat /\ 1 <= n /\ n <= Len(s)
  BY LenProperties
<1>2. /\ SubSeq(s, 1, n) \in Seq(E) /\ Len(SubSeq(s, 1, n)) = n
      /\ \A m \in 1..n : SubSeq(s, 1, n)[m] = s[m]
  BY <1>1, SubSeqProperties
<1>3. DOMAIN SubSeq(s, 1, n) = 1..n
  BY <1>1, <1>2, LenProperties
<1>4. s[n] \in Range(SubSeq(s, 1, n))
  <2> DEFINE beginning == SubSeq(s, 1, n)
  <2>1. n \in DOMAIN beginning /\ beginning[n] = s[n]
    BY <1>1, <1>2, <1>3
  <2> HIDE DEF beginning
  <2>2. s[n] \in Range(beginning)
    BY <2>1 DEF Range
  <2> QED
    BY <2>2 DEF beginning
<1> QED
  BY <1>1, <1>2, <1>3, <1>4

\* Merging keeps what is in either list, and the first of them as it is.
LEMMA MergedElements ==
  ASSUME NEW E, NEW first \in Seq(E), NEW second \in Seq(E)
  PROVE  /\ MergeUnique(first, second) \in Seq(E)
         /\ Range(MergeUnique(first, second)) = Range(first) \cup Range(second)
         /\ Len(MergeUnique(first, second)) >= Len(first)
<1> DEFINE kept == {n \in DOMAIN second :
                      Occurrences(second[n], SubSeq(second, 1, n)) > Occurrences(second[n], first)}
           added == Picked(second, kept)
<1>1. MergeUnique(first, second) = first \o added
  BY DEF MergeUnique
<1>2. kept \in SUBSET DOMAIN second
  OBVIOUS
<1>3. ASSUME NEW n \in DOMAIN second, second[n] \notin Range(first) PROVE n \in kept
  <2>1. Occurrences(second[n], first) = 0
    BY <1>3, OccurrencesCount
  <2>2. second[n] \in Range(SubSeq(second, 1, n))
    BY Beginning
  <2>3. Occurrences(second[n], SubSeq(second, 1, n)) \in Nat /\ Occurrences(second[n], SubSeq(second, 1, n)) # 0
    BY <2>2, Beginning, OccurrencesCount
  <2> QED
    BY <2>1, <2>3
<1> HIDE DEF kept
<1>4. added \in Seq(E) /\ Len(added) \in Nat /\ Range(added) = {second[k] : k \in kept}
  BY <1>2, PickedElements
<1> HIDE DEF added
<1>5. first \o added \in Seq(E) /\ Len(first \o added) = Len(first) + Len(added) /\ Len(first) \in Nat
  BY <1>4, ConcatProperties, LenProperties
<1>6. Range(first \o added) = Range(first) \cup Range(added)
  BY <1>4, RangeConcatenation
<1>7. Range(first) \cup Range(added) = Range(first) \cup Range(second)
  BY <1>2, <1>3, <1>4 DEF Range
<1> QED
  BY <1>1, <1>4, <1>5, <1>6, <1>7

\* A page has an entry once, so the list it is merged with does not become shorter.
LEMMA MergedLength ==
  ASSUME NEW E, NEW first \in Seq(E), NEW second \in Seq(E),
         \A p, q \in DOMAIN first : first[p] = first[q] => p = q
  PROVE  Len(MergeUnique(first, second)) >= Len(second)
<1>0. ASSUME NEW n \in DOMAIN second PROVE second[n] \in Range(SubSeq(second, 1, n))
  BY Beginning
<1>14. \A s \in Seq(E) : Len(first \o s) = Len(first) + Len(s)
  BY ConcatProperties
<1> DEFINE kept == {n \in DOMAIN second :
                      Occurrences(second[n], SubSeq(second, 1, n)) > Occurrences(second[n], first)}
           left == DOMAIN second \ kept
           place == [n \in left |-> CHOOSE p \in DOMAIN first : first[p] = second[n]]
<1>1. /\ DOMAIN first = 1..Len(first) /\ Len(first) \in Nat
      /\ DOMAIN second = 1..Len(second) /\ Len(second) \in Nat
  BY LenProperties
<1>2. kept \in SUBSET DOMAIN second
  OBVIOUS
<1>3. ASSUME NEW n \in left
      PROVE  /\ Occurrences(second[n], SubSeq(second, 1, n)) <= Occurrences(second[n], first)
             /\ second[n] \in Range(first)
  <2>1. /\ Occurrences(second[n], SubSeq(second, 1, n)) \in Nat /\ Occurrences(second[n], first) \in Nat
        /\ Occurrences(second[n], first) = 0 <=> second[n] \notin Range(first)
    BY Beginning, OccurrencesCount
  <2>2. second[n] \in Range(SubSeq(second, 1, n))
    BY <1>0
  <2>3. Occurrences(second[n], SubSeq(second, 1, n)) # 0
    BY <2>2, Beginning, OccurrencesCount
  <2> QED
    BY <2>1, <2>3
<1>4. \A n \in left : place[n] \in DOMAIN first /\ first[place[n]] = second[n]
  <2> SUFFICES ASSUME NEW n \in left PROVE place[n] \in DOMAIN first /\ first[place[n]] = second[n]
    OBVIOUS
  <2>1. place[n] = CHOOSE p \in DOMAIN first : first[p] = second[n]
    OBVIOUS
  <2>2. \E p \in DOMAIN first : first[p] = second[n]
    BY <1>3 DEF Range
  <2> HIDE DEF place
  <2> QED
    BY <2>1, <2>2
<1>5. ASSUME NEW n \in left, NEW l \in left, n < l PROVE second[n] # second[l]
  <2> SUFFICES ASSUME second[n] = second[l] PROVE FALSE
    OBVIOUS
  <2> DEFINE e == second[l]
             here == {m \in DOMAIN SubSeq(second, 1, l) : SubSeq(second, 1, l)[m] = e}
             there == {p \in DOMAIN first : first[p] = e}
  <2>1. n \in 1..l /\ l \in 1..l /\ n # l
    BY <1>1, <1>5
  <2>0. l \in DOMAIN second
    OBVIOUS
  <2>2. {n, l} \in SUBSET here
    <3>1. DOMAIN SubSeq(second, 1, l) = 1..l /\ \A m \in 1..l : SubSeq(second, 1, l)[m] = second[m]
      BY <2>0, Beginning
    <3> QED
      BY <2>1, <3>1
  <2>3. IsFiniteSet(here) /\ IsFiniteSet(there) /\ Cardinality(here) \in Nat /\ Cardinality(there) \in Nat
    <3>1. SubSeq(second, 1, l) \in Seq(E)
      BY <2>0, Beginning
    <3>2. IsFiniteSet(here) /\ IsFiniteSet(there)
      BY <3>1, OccurrencesCount
    <3> QED
      BY <3>2, FS_CardinalityType
  <2>4. Cardinality(here) <= Cardinality(there)
    BY <1>3 DEF Occurrences
  <2>5. PICK p \in DOMAIN first : first[p] = e
    BY <1>3 DEF Range
  <2>6. there = {p}
    BY <2>5
  <2> HIDE DEF here, there
  <2>7. Cardinality(there) = 1
    BY <2>6, FS_Singleton
  <2>8. Cardinality(here) # 0
    BY <2>2, <2>3, FS_EmptySet
  <2>9. Cardinality(here) = 1
    BY <2>3, <2>4, <2>7, <2>8
  <2>10. \E x : here = {x}
    BY <2>3, <2>9, FS_Singleton
  <2> QED
    BY <2>1, <2>2, <2>10
<1> HIDE DEF kept
<1>6. left \in SUBSET Nat /\ place \in [left -> 1..Len(first)]
  BY <1>1, <1>4
<1> HIDE DEF place
<1>7. \A n, l \in left : place[n] = place[l] => n = l
  <2> SUFFICES ASSUME NEW n \in left, NEW l \in left, place[n] = place[l], n # l PROVE FALSE
    OBVIOUS
  <2>1. second[n] = second[l]
    BY <1>4
  <2>2. n < l \/ l < n
    BY <1>6
  <2> QED
    BY <1>5, <2>1, <2>2
<1>8. place \in Injection(left, 1..Len(first))
  BY <1>6, <1>7 DEF Injection, IsInjective
<1>9. /\ IsFiniteSet(1..Len(first)) /\ Cardinality(1..Len(first)) = Len(first)
      /\ IsFiniteSet(1..Len(second)) /\ Cardinality(1..Len(second)) = Len(second)
  <2>1. \A x \in Nat : IsFiniteSet(1..x) /\ Cardinality(1..x) = x
    BY FS_Interval
  <2> QED
    BY <1>1, <2>1
<1>10. Cardinality(left) <= Len(first)
  BY <1>8, <1>9, FS_Injection
<1>11. Cardinality(left) = Len(second) - Cardinality(kept)
  <2>1. DOMAIN second \cap kept = kept
    BY <1>2
  <2>2. IsFiniteSet(DOMAIN second) /\ Cardinality(DOMAIN second) = Len(second)
    BY <1>1, <1>9
  <2>3. Cardinality(left) = Cardinality(DOMAIN second) - Cardinality(DOMAIN second \cap kept)
    BY <2>2, FS_Difference
  <2> QED
    BY <2>1, <2>2, <2>3
<1>12. /\ Picked(second, kept) \in Seq(E) /\ Cardinality(kept) \in Nat
       /\ Len(Picked(second, kept)) = Cardinality(kept)
  BY <1>2, PickedElements
<1>13. Len(MergeUnique(first, second)) = Len(first) + Cardinality(kept)
  <2>1. MergeUnique(first, second) = first \o Picked(second, kept)
    BY DEF MergeUnique, kept
  <2> DEFINE added == Picked(second, kept)
  <2>2. added \in Seq(E) /\ Len(added) = Cardinality(kept)
    BY <1>12
  <2> HIDE DEF added
  <2>3. Len(first \o added) = Len(first) + Len(added)
    BY <1>14, <2>2
  <2> QED
    BY <2>1, <2>2, <2>3 DEF added
<1> HIDE DEF left
<1> QED
  BY <1>1, <1>10, <1>11, <1>12, <1>13

\* Trimming only drops.
LEMMA TrimmedElements ==
  ASSUME NEW E, NEW s \in Seq(E)
  PROVE  /\ Trimmed(s) \in Seq(E) /\ Range(Trimmed(s)) \subseteq Range(s)
         /\ Len(Trimmed(s)) < MaxLive => Trimmed(s) = s
<1> USE LogViewerAssumption
<1>1. Len(s) \in Nat /\ MaxLive \in Nat /\ MaxLive >= 1
  BY LenProperties
<1>2. CASE Len(s) <= MaxLive
  BY <1>2 DEF Trimmed
<1>3. CASE Len(s) > MaxLive
  <2> DEFINE first == Len(s) - MaxLive + 1
             trimmed == SubSeq(s, first, Len(s))
  <2>1. first \in 1..Len(s)
    BY <1>1, <1>3
  <2>2. /\ trimmed \in Seq(E) /\ Len(trimmed) = MaxLive
        /\ \A n \in 1..Len(trimmed) : trimmed[n] = s[first + n - 1] /\ first + n - 1 \in 1..Len(s)
    <3>1. /\ first \in Int /\ first <= Len(s) /\ Len(s) - first + 1 = MaxLive
          /\ \A n \in 1..MaxLive : first + n - 1 \in 1..Len(s)
      BY <1>1, <1>3
    <3> DEFINE last == Len(s)
    <3>2. \A n \in first..last : s[n] \in E
      BY <1>1, <2>1, ElementOfSeq
    <3>3. first \in Int /\ last \in Int /\ trimmed = SubSeq(s, first, last)
      BY <1>1, <3>1
    <3> HIDE DEF first, trimmed, last
    <3>4. /\ trimmed \in Seq(E) /\ Len(trimmed) = IF first <= last THEN last - first + 1 ELSE 0
          /\ \A n \in 1..(last - first + 1) : trimmed[n] = s[first + n - 1]
      BY <3>2, <3>3, SubSeqProperties
    <3> QED
      BY <3>1, <3>4 DEF last
  <2>3. Trimmed(s) = trimmed
    BY <1>1, <1>3 DEF Trimmed
  <2> HIDE DEF trimmed
  <2>4. Range(trimmed) \subseteq Range(s)
    <3>0. trimmed \in Seq(E)
      BY <2>2
    <3>1. Range(trimmed) = {trimmed[n] : n \in 1..Len(trimmed)} /\ Range(s) = {s[n] : n \in 1..Len(s)}
      BY <3>0, RangeEquality
    <3> HIDE DEF first
    <3> QED
      BY <2>2, <3>1
  <2> QED
    BY <1>1, <2>2, <2>3, <2>4
<1> QED
  BY <1>1, <1>2, <1>3

\* One entry more at the end of a list.
LEMMA Appended ==
  ASSUME NEW E, NEW s \in Seq(E), NEW e \in E
  PROVE  Append(s, e) \in Seq(E) /\ Range(Append(s, e)) = Range(s) \cup {e}
<1> DEFINE t == Append(s, e)
<1>1. /\ t \in Seq(E) /\ Len(t) = Len(s) + 1 /\ Len(s) \in Nat
      /\ t[Len(s) + 1] = e /\ \A k \in 1..Len(s) : t[k] = s[k]
  BY AppendProperties, LenProperties
<1> HIDE DEF t
<1>2. Range(s) = {s[k] : k \in 1..Len(s)} /\ Range(t) = {t[k] : k \in 1..Len(t)}
  BY <1>1, RangeEquality
<1>3. Range(t) = Range(s) \cup {e}
  BY <1>1, <1>2
<1> QED
  BY <1>1, <1>3 DEF t

LEMMA Joins ==
  ASSUME NEW E, NEW s \in Seq(E), NEW e \in E
  PROVE  s \o <<e>> \in Seq(E) /\ Range(s \o <<e>>) = Range(s) \cup {e}
<1>1. Append(s, e) = s \o <<e>>
  BY AppendIsConcat
<1>2. Append(s, e) \in Seq(E) /\ Range(Append(s, e)) = Range(s) \cup {e}
  BY Appended
<1> QED
  BY <1>1, <1>2

\* The first of a list is taken.
LEMMA Leaves ==
  ASSUME NEW E, NEW s \in Seq(E), s # <<>>
  PROVE  /\ Head(s) \in E /\ Tail(s) \in Seq(E)
         /\ Range(s) = Range(Tail(s)) \cup {Head(s)}
<1>1. Head(s) \in E /\ Tail(s) \in Seq(E) /\ s = <<Head(s)>> \o Tail(s)
  BY HeadTailProperties
<1> DEFINE one == <<Head(s)>>
           rest == Tail(s)
<1>2. one \in Seq(E) /\ Len(one) = 1 /\ one[1] = Head(s)
  BY <1>1
<1>3. rest \in Seq(E) /\ s = one \o rest
  BY <1>1
<1> HIDE DEF one, rest
<1>4. Range(one) = {Head(s)}
  <2>1. Range(one) = {one[n] : n \in 1..1}
    BY <1>2, RangeEquality
  <2> QED
    BY <1>2, <2>1
<1>5. Range(one \o rest) = Range(one) \cup Range(rest)
  BY <1>2, <1>3, RangeConcatenation
<1> QED
  BY <1>1, <1>3, <1>4, <1>5 DEF rest

\* A list is cut in two.
LEMMA Splits ==
  ASSUME NEW E, NEW s \in Seq(E), NEW n \in 1..Len(s)
  PROVE  /\ SubSeq(s, 1, n) \in Seq(E) /\ SubSeq(s, n + 1, Len(s)) \in Seq(E)
         /\ Len(SubSeq(s, n + 1, Len(s))) <= Len(s)
         /\ Range(s) = Range(SubSeq(s, 1, n)) \cup Range(SubSeq(s, n + 1, Len(s)))
<1> DEFINE t == SubSeq(s, 1, n)
           u == SubSeq(s, n + 1, Len(s))
<1>1. Len(s) \in Nat /\ n \in Nat /\ 1 <= n /\ n <= Len(s)
  BY LenProperties
<1>2. t \in Seq(E) /\ Len(t) = n /\ \A k \in 1..n : t[k] = s[k]
  BY <1>1, SubSeqProperties
<1>3. u \in Seq(E) /\ Len(u) = Len(s) - n /\ \A k \in 1..(Len(s) - n) : u[k] = s[n + k]
  BY <1>1, SubSeqProperties
<1> HIDE DEF t, u
<1>4. Range(t) = {s[k] : k \in 1..n} /\ Range(s) = {s[k] : k \in 1..Len(s)}
  BY <1>2, RangeEquality
<1>5. Range(u) = {s[k] : k \in (n + 1)..Len(s)}
  <2>1. Range(u) = {u[k] : k \in 1..(Len(s) - n)}
    BY <1>3, RangeEquality
  <2>2. ASSUME NEW k \in 1..(Len(s) - n) PROVE \E j \in (n + 1)..Len(s) : u[k] = s[j]
    <3>1. n + k \in (n + 1)..Len(s) /\ u[k] = s[n + k]
      BY <1>1, <1>3
    <3> QED
      BY <3>1
  <2>3. ASSUME NEW j \in (n + 1)..Len(s) PROVE \E k \in 1..(Len(s) - n) : u[k] = s[j]
    <3>1. j - n \in 1..(Len(s) - n) /\ n + (j - n) = j
      BY <1>1
    <3> QED
      BY <1>3, <3>1
  <2> HIDE DEF u
  <2>4. Range(u) \subseteq {s[k] : k \in (n + 1)..Len(s)}
    BY <2>1, <2>2
  <2>5. {s[k] : k \in (n + 1)..Len(s)} \subseteq Range(u)
    BY <2>1, <2>3
  <2> QED
    BY <2>4, <2>5
<1>6. 1..Len(s) = (1..n) \cup ((n + 1)..Len(s))
  BY <1>1
<1> QED
  BY <1>1, <1>2, <1>3, <1>4, <1>5, <1>6 DEF t, u

\* A page has the entries it was read for, each once.
LEMMA PageElements ==
  ASSUME NEW r, r.of \in Instance, r.from \in 1..(MaxEntries + 1), r.until \in 0..MaxEntries
  PROVE  /\ HistoryPage(r) \in Seq(Entries)
         /\ Range(HistoryPage(r)) = {<<r.of, k>> : k \in r.from..r.until}
         /\ \A p, q \in DOMAIN HistoryPage(r) : HistoryPage(r)[p] = HistoryPage(r)[q] => p = q
<1> USE LogViewerAssumption
<1> DEFINE answer == HistoryPage(r)
           i == r.of
           a == r.from
           b == r.until
<1>1. MaxEntries \in Nat /\ a \in Nat /\ a >= 1 /\ b \in Nat /\ b <= MaxEntries /\ i \in Instance
  OBVIOUS
<1>2. answer = [n \in 1..((b + 1) - a) |-> <<i, a + n - 1>>]
  BY DEF HistoryPage
<1> HIDE DEF answer, i, a, b
<1>3. DOMAIN answer = 1..((b + 1) - a) /\ \A n \in 1..((b + 1) - a) : answer[n] = <<i, a + n - 1>> /\ a + n - 1 \in a..b
  <2>1. DOMAIN answer = 1..((b + 1) - a) /\ \A n \in 1..((b + 1) - a) : answer[n] = <<i, a + n - 1>>
    BY <1>2
  <2>2. \A n \in 1..((b + 1) - a) : a + n - 1 \in a..b
    BY <1>1
  <2> QED
    BY <2>1, <2>2
<1>4. \A k \in a..b : <<i, k>> \in Entries
  BY <1>1 DEF Entries
<1>5. answer \in Seq(Entries)
  <2>1. CASE b + 1 >= a
    <3>1. PICK size \in Nat : size = (b + 1) - a
      BY <1>1, <2>1
    <3>2. answer \in [1..size -> Entries]
      BY <1>2, <1>3, <1>4, <3>1
    <3> QED
      BY <3>2
  <2>2. CASE b + 1 < a
    <3>1. 1..((b + 1) - a) = 1..0
      BY <1>1, <2>2
    <3>2. answer \in [1..((b + 1) - a) -> Entries]
      BY <1>2, <1>3, <1>4
    <3>3. answer \in [1..0 -> Entries]
      BY <3>1, <3>2, Zenon
    <3> QED
      BY <3>3
  <2> QED
    BY <1>1, <2>1, <2>2
<1>6. Range(answer) = {<<i, k>> : k \in a..b}
  <2>1. Range(answer) \subseteq {<<i, k>> : k \in a..b}
    BY <1>3 DEF Range
  <2>2. ASSUME NEW k \in a..b PROVE <<i, k>> \in Range(answer)
    <3>1. (k - a) + 1 \in 1..((b + 1) - a) /\ a + ((k - a) + 1) - 1 = k
      BY <1>1
    <3>2. answer[(k - a) + 1] = <<i, k>>
      BY <1>3, <3>1
    <3> QED
      BY <1>3, <3>1, <3>2 DEF Range
  <2> QED
    BY <2>1, <2>2
<1>7. ASSUME NEW p \in DOMAIN answer, NEW q \in DOMAIN answer, answer[p] = answer[q] PROVE p = q
  <2>1. p \in 1..((b + 1) - a) /\ q \in 1..((b + 1) - a)
    BY <1>3
  <2>2. answer[p] = <<i, a + p - 1>> /\ answer[q] = <<i, a + q - 1>>
    BY <1>3, <2>1
  <2> DEFINE x == a + p - 1
             y == a + q - 1
  <2>3. answer[p] = <<i, x>> /\ answer[q] = <<i, y>>
    BY <2>2
  <2>4. x = y => p = q
    BY <1>1, <2>1
  <2> HIDE DEF x, y
  <2>5. <<i, x>> = <<i, y>>
    BY <1>7, <2>3, Zenon
  <2>6. x = y
    BY <2>5
  <2> QED
    BY <2>4, <2>6
<1> QED
  BY <1>5, <1>6, <1>7 DEF answer, i, a, b

--------------------------------------------------------------------------------
(* The log page *)

\* What the page has, and what the stream has for it.
Known == Range(records) \cup Range(logWire) \cup Range(queued)

\* Requests are about an instance, and about this one if they were made for this choice.
RequestsAgree ==
  \A r \in requests :
    /\ r.of \in Instance /\ r.generation <= generation /\ r.losses <= logLosses
    /\ r.generation = generation => r.of = instance
    /\ r.kind = "recent" => r.before = 0
    /\ r.from = 1 \/ r.from <= r.until

\* Only a page that follows an instance has a stream, and a closed stream holds nothing.
StreamAgrees ==
  /\ nextBefore # 0 \/ logSource # "none" => instance \in Instance
  /\ logStream # "closed" => logSource # "none"
  /\ logStream = "closed" => logWire = <<>> /\ queued = <<>>

\* The list, and everything on its way to it, is of the instance that is selected.
OwnEntries == \A e \in Known : e = Opened \/ e[1] = instance

ViewerInv == ViewerTypeOK /\ RequestsAgree /\ StreamAgrees /\ OwnEntries

\* Everything the instance has written since its n-th entry is known.
Since(n) == \A k \in n..length[instance] : <<instance, k>> \in Known

\* A request of this connection for the newest entries.
IsRecent(r) == r.kind = "recent" /\ r.generation = generation /\ r.losses = logLosses

\* What a request for the newest entries does not bring, the stream has brought or will;
\* unless the list is full, it stays so.
NothingIsMissing ==
  /\ recovered # 0 => logStream # "closed" /\ (Len(records) < MaxLive => Since(recovered))
  /\ \A r \in requests :
       IsRecent(r) => logStream # "closed" /\ (r.answered /\ Len(records) < MaxLive => Since(r.until + 1))

LEMMA ViewerBegins == ViewerInit => ViewerInv /\ NothingIsMissing
<1> USE LogViewerAssumption
<1> SUFFICES ASSUME ViewerInit PROVE ViewerInv /\ NothingIsMissing
  OBVIOUS
<1>1. /\ records = <<>> /\ logWire = <<>> /\ queued = <<>> /\ requests = {} /\ nextBefore = 0
      /\ generation = 0 /\ logLosses = 0 /\ recovered = 0 /\ logSource = "none" /\ logStream = "closed"
      /\ loading = FALSE /\ hasOpened = FALSE /\ instance = NoInstance /\ length \in [Instance -> 0..MaxEntries]
  BY DEF ViewerInit
<1>2. \A S : <<>> \in Seq(S) /\ Len(<<>>) = 0
  OBVIOUS
<1>3. Range(<<>>) = {}
  BY DEF Range
<1>4. ViewerTypeOK
  <2>1. /\ generation \in 0..MaxSelections /\ nextBefore \in Cursor /\ logLosses \in 0..MaxLogLosses
        /\ recovered \in 0..(MaxEntries + 1) /\ Len(queued) <= MaxPending
    BY <1>1, <1>2 DEF Cursor
  <2>2. records \in Seq(Entries) /\ logWire \in Seq(Entries \cup {Opened}) /\ queued \in Seq(Entries)
    BY <1>1, <1>2
  <2>3. loading \in BOOLEAN /\ hasOpened \in BOOLEAN /\ requests \subseteq Request
    BY <1>1
  <2> QED
    BY <1>1, <2>1, <2>2, <2>3 DEF ViewerTypeOK
<1>5. RequestsAgree /\ StreamAgrees /\ OwnEntries /\ NothingIsMissing
  BY <1>1, <1>3 DEF RequestsAgree, StreamAgrees, OwnEntries, Known, NothingIsMissing
<1> QED
  BY <1>4, <1>5 DEF ViewerInv

\* The types, as facts for the provers.
LEMMA ViewerNumbers ==
  ASSUME ViewerInv
  PROVE  /\ MaxEntries \in Nat /\ MaxLive \in Nat \ {0} /\ MaxPending \in Nat \ {0}
         /\ MaxSelections \in Nat /\ MaxLogLosses \in Nat
         /\ nextBefore \in Cursor /\ generation \in 0..MaxSelections /\ logLosses \in 0..MaxLogLosses
         /\ generation \in Nat /\ logLosses \in Nat
         /\ Len(records) \in Nat /\ Len(queued) \in Nat /\ Len(queued) <= MaxPending
BY LogViewerAssumption, LenProperties DEF ViewerInv, ViewerTypeOK

LEMMA ViewerLists ==
  ASSUME ViewerInv
  PROVE  /\ records \in Seq(Entries) /\ logWire \in Seq(Entries \cup {Opened}) /\ queued \in Seq(Entries)
         /\ Opened \notin Entries /\ \A e \in Entries : e[2] \in Nat
<1>1. Opened \notin Entries /\ \A e \in Entries : e[2] \in Nat
  BY LogViewerAssumption DEF Entries
<1> QED
  BY <1>1 DEF ViewerInv, ViewerTypeOK

LEMMA ViewerLengths ==
  ASSUME ViewerInv
  PROVE  /\ MaxEntries \in Nat /\ length \in [Instance -> 0..MaxEntries]
         /\ \A i \in Instance : length[i] \in 0..MaxEntries /\ length[i] \in Nat
<1>1. MaxEntries \in Nat
  BY LogViewerAssumption
<1>2. length \in [Instance -> 0..MaxEntries]
  BY DEF ViewerInv, ViewerTypeOK
<1> QED
  BY <1>1, <1>2

\* A step that touches neither the list nor what is on its way to it.
LEMMA KnownStays ==
  ASSUME UNCHANGED <<records, logWire, queued>>
  PROVE  Known' = Known /\ Len(records') = Len(records)
BY DEF Known

LEMMA SinceStays ==
  ASSUME ViewerInv, instance \in Instance, UNCHANGED instance, length'[instance] = length[instance],
         Known \ {Opened} \subseteq Known', NEW n \in Nat, Since(n)
  PROVE  Since(n)'
<1> SUFFICES ASSUME NEW k \in n..length[instance] PROVE <<instance, k>> \in Known'
  BY DEF Since
<1>1. <<instance, k>> \in Known
  BY DEF Since
<1>2. length[instance] \in Nat
  BY ViewerLengths
<1>3. k \in Nat
  BY <1>2
<1>4. <<instance, k>> # Opened
  BY <1>3, LogViewerAssumption
<1> QED
  BY <1>1, <1>4

\* The connection and the choice stay, and nothing that was known is lost unless the list is full.
LEMMA ConnectionStays ==
  ASSUME ViewerInv, NothingIsMissing,
         UNCHANGED <<instance, generation, logLosses>>,
         instance \in Instance => length'[instance] = length[instance],
         logStream # "closed" => logStream' # "closed",
         Len(records') < MaxLive => Len(records) < MaxLive /\ Known \ {Opened} \subseteq Known',
         \/ recovered' = recovered
         \/ logStream # "closed" /\ (Len(records') < MaxLive => Since(recovered)'),
         \A r \in requests' :
           \/ r \in requests
           \/ IsRecent(r) => logStream # "closed" /\ (r.answered => r.until \in Nat /\ Since(r.until + 1))
  PROVE  NothingIsMissing'
<1>1. logStream # "closed" => instance \in Instance
  BY DEF ViewerInv, StreamAgrees
<1>2. recovered \in Nat /\ \A r \in requests : r.until \in Nat
  BY LogViewerAssumption DEF ViewerInv, ViewerTypeOK, Request, Cursor
<1>3. ASSUME NEW n \in Nat, logStream # "closed", Len(records) < MaxLive => Since(n)
      PROVE  Len(records') < MaxLive => Since(n)'
  BY <1>1, <1>3, SinceStays
<1>4. recovered' # 0 => logStream' # "closed" /\ (Len(records') < MaxLive => Since(recovered)')
  <2>1. CASE recovered' = recovered
    <3> SUFFICES ASSUME recovered # 0 PROVE logStream' # "closed" /\ (Len(records') < MaxLive => Since(recovered)')
      BY <2>1
    <3>1. PICK n \in Nat : n = recovered
      BY <1>2
    <3>2. logStream # "closed" /\ (Len(records) < MaxLive => Since(n))
      BY <3>1 DEF NothingIsMissing
    <3>3. Len(records') < MaxLive => Since(n)'
      BY <1>3, <3>2
    <3>4. Since(recovered)' <=> Since(n)'
      BY <2>1, <3>1 DEF Since
    <3> QED
      BY <3>2, <3>3, <3>4
  <2> QED
    BY <2>1
<1>5. ASSUME NEW r \in requests', IsRecent(r)'
      PROVE  logStream' # "closed" /\ (r.answered /\ Len(records') < MaxLive => Since(r.until + 1)')
  <2>1. IsRecent(r)
    BY <1>5 DEF IsRecent
  <2>2. CASE r \in requests
    <3>1. logStream # "closed" /\ (r.answered /\ Len(records) < MaxLive => Since(r.until + 1))
      BY <2>1, <2>2 DEF NothingIsMissing
    <3>2. r.until + 1 \in Nat
      BY <1>2, <2>2
    <3> QED
      BY <1>3, <3>1, <3>2
  <2>3. CASE r \notin requests
    <3>1. logStream # "closed" /\ (r.answered => r.until \in Nat /\ Since(r.until + 1))
      BY <2>1, <2>3
    <3>2. r.answered => r.until + 1 \in Nat
      BY <3>1
    <3> QED
      BY <1>3, <3>1, <3>2
  <2> QED
    BY <2>2, <2>3
<1> QED
  BY <1>4, <1>5 DEF NothingIsMissing

\* A lost connection, or another choice: no request is of this connection any more.
LEMMA NothingRecovered ==
  ASSUME recovered' = 0, \A r \in requests' : ~IsRecent(r)'
  PROVE  NothingIsMissing'
BY DEF NothingIsMissing

--------------------------------------------------------------------------------
(* The store and the server's side of the stream *)

LEMMA AcceptKeeps ==
  ASSUME ViewerInv, NothingIsMissing, Accept
  PROVE  ViewerInv' /\ NothingIsMissing'
<1>1. /\ logSource = "connecting" /\ logStream = "closed" /\ logStream' \in {"ready", "blocked"}
      /\ logWire' = logWire \o <<Opened>>
      /\ UNCHANGED <<length, loading, requests, logSource, hasOpened, queued, logLosses, recovered,
                     records, nextBefore, instance, generation>>
  BY DEF Accept, WritesLog, list, choice
<1>2. logWire' \in Seq(Entries \cup {Opened}) /\ Range(logWire') = Range(logWire) \cup {Opened}
  <2> DEFINE E == Entries \cup {Opened}
  <2>1. logWire \in Seq(E) /\ Opened \in E
    BY ViewerLists
  <2> HIDE DEF E
  <2>2. logWire \o <<Opened>> \in Seq(E) /\ Range(logWire \o <<Opened>>) = Range(logWire) \cup {Opened}
    BY <2>1, Joins
  <2> QED
    BY <1>1, <2>2 DEF E
<1>3. Known' = Known \cup {Opened}
  BY <1>1, <1>2 DEF Known
<1>4. ViewerTypeOK'
  BY <1>1, <1>2 DEF ViewerInv, ViewerTypeOK
<1>5. RequestsAgree' /\ StreamAgrees' /\ OwnEntries'
  BY <1>1, <1>3 DEF ViewerInv, RequestsAgree, StreamAgrees, OwnEntries
<1>6. NothingIsMissing'
  BY <1>1, <1>3, ConnectionStays
<1> QED
  BY <1>4, <1>5, <1>6 DEF ViewerInv

LEMMA RefuseLogKeeps ==
  ASSUME ViewerInv, NothingIsMissing, RefuseLog
  PROVE  ViewerInv' /\ NothingIsMissing'
<1>1. /\ logStream = "closed" /\ logSource' = "none"
      /\ UNCHANGED <<length, loading, requests, hasOpened, logStream, logWire, queued, logLosses, recovered,
                     records, nextBefore, instance, generation>>
  BY DEF RefuseLog, list, choice
<1>2. instance \in Instance
  BY DEF RefuseLog, ViewerInv, StreamAgrees
<1>3. Known' = Known
  BY <1>1 DEF Known
<1>4. ViewerTypeOK'
  BY <1>1 DEF ViewerInv, ViewerTypeOK
<1>5. RequestsAgree' /\ StreamAgrees' /\ OwnEntries'
  BY <1>1, <1>2, <1>3 DEF ViewerInv, RequestsAgree, StreamAgrees, OwnEntries
<1>6. NothingIsMissing'
  BY <1>1, <1>3 DEF NothingIsMissing, IsRecent, Since
<1> QED
  BY <1>4, <1>5, <1>6 DEF ViewerInv

LEMMA DrainLogKeeps ==
  ASSUME ViewerInv, NothingIsMissing, DrainLog
  PROVE  ViewerInv' /\ NothingIsMissing'
<1>1. /\ logStream = "blocked" /\ logWire = <<>>
      /\ UNCHANGED <<length, loading, requests, logSource, hasOpened, logLosses, recovered,
                     records, nextBefore, instance, generation>>
  BY DEF DrainLog, list, choice
<1>2. /\ logStream' \in {"ready", "blocked"} /\ logWire' \in Seq(Entries \cup {Opened})
      /\ queued' \in Seq(Entries) /\ Len(queued') <= MaxPending
      /\ Known' = Known
  <2>1. CASE queued = <<>>
    BY <1>1, <2>1, ViewerNumbers, ViewerLists DEF DrainLog, Known
  <2>2. CASE queued # <<>>
    <3>1. PICK n \in 1..Len(queued) :
            /\ logWire' = logWire \o SubSeq(queued, 1, n) /\ logStream' \in {"ready", "blocked"}
            /\ queued' = SubSeq(queued, n + 1, Len(queued))
      BY <2>2 DEF DrainLog, WritesLog
    <3>2. /\ SubSeq(queued, 1, n) \in Seq(Entries) /\ queued' \in Seq(Entries) /\ Len(queued') <= Len(queued)
          /\ Range(queued) = Range(SubSeq(queued, 1, n)) \cup Range(queued')
      BY <3>1, ViewerLists, Splits
    <3>3. logWire' = SubSeq(queued, 1, n)
      BY <1>1, <3>1, <3>2, ConcatEmptySeq
    <3>4. logWire' \in Seq(Entries \cup {Opened})
      BY <3>2, <3>3
    <3>5. Range(logWire) = {}
      BY <1>1 DEF Range
    <3>6. Known' = Known
      BY <1>1, <3>2, <3>3, <3>5 DEF Known
    <3>7. Len(queued') <= MaxPending
      BY <3>2, ViewerNumbers, LenProperties
    <3> QED
      BY <3>1, <3>2, <3>4, <3>6, <3>7
  <2> QED
    BY <2>1, <2>2
<1>3. ViewerTypeOK'
  BY <1>1, <1>2 DEF ViewerInv, ViewerTypeOK
<1>4. RequestsAgree' /\ StreamAgrees' /\ OwnEntries'
  BY <1>1, <1>2 DEF ViewerInv, RequestsAgree, StreamAgrees, OwnEntries
<1>5. NothingIsMissing'
  BY <1>1, <1>2, ConnectionStays
<1> QED
  BY <1>3, <1>4, <1>5 DEF ViewerInv

\* The connection is lost, by itself or because the page is too slow.
LEMMA LosingKeeps ==
  ASSUME ViewerInv, logStream # "closed", logLosses < MaxLogLosses, Cut,
         logSource' = "connecting", logLosses' = logLosses + 1, recovered' = 0,
         length' \in [Instance -> 0..MaxEntries],
         UNCHANGED <<loading, requests, hasOpened, records, nextBefore, instance, generation>>
  PROVE  ViewerInv' /\ NothingIsMissing'
<1>1. logStream' = "closed" /\ logWire' = <<>> /\ queued' = <<>>
  BY DEF Cut
<1>2. instance \in Instance
  BY DEF ViewerInv, StreamAgrees
<1>3. \A S : <<>> \in Seq(S) /\ Len(<<>>) = 0
  OBVIOUS
<1>4. Known' \subseteq Known
  BY <1>1 DEF Known, Range
<1>5. logLosses' \in 0..MaxLogLosses /\ recovered' \in 0..(MaxEntries + 1) /\ Len(queued') <= MaxPending
  <2>1. logLosses' \in 0..MaxLogLosses /\ recovered' \in 0..(MaxEntries + 1)
    BY ViewerNumbers
  <2>2. Len(queued') = 0
    BY <1>1, <1>3
  <2> QED
    BY <2>1, <2>2, ViewerNumbers
<1>6. logWire' \in Seq(Entries \cup {Opened}) /\ queued' \in Seq(Entries)
  BY <1>1, <1>3
<1>7. ViewerTypeOK'
  BY <1>1, <1>5, <1>6 DEF ViewerInv, ViewerTypeOK
<1>8. \A r \in requests : r.losses \in Nat /\ r.losses <= logLosses
  BY DEF ViewerInv, ViewerTypeOK, Request, RequestsAgree
<1>9. RequestsAgree'
  BY <1>8, ViewerNumbers DEF ViewerInv, RequestsAgree
<1>10. StreamAgrees' /\ OwnEntries'
  BY <1>1, <1>2, <1>4 DEF ViewerInv, StreamAgrees, OwnEntries
<1>11. NothingIsMissing'
  BY <1>8, ViewerNumbers, NothingRecovered DEF IsRecent
<1> QED
  BY <1>7, <1>9, <1>10, <1>11 DEF ViewerInv

LEMMA PublishKeeps ==
  ASSUME ViewerInv, NothingIsMissing, NEW i \in Instance, Publish(i)
  PROVE  ViewerInv' /\ NothingIsMissing'
<1> DEFINE entry == <<i, length[i] + 1>>
<1>1. /\ length[i] < MaxEntries /\ length' = [length EXCEPT ![i] = @ + 1]
      /\ UNCHANGED <<loading, requests, hasOpened, records, nextBefore, instance, generation>>
  BY DEF Publish, list, choice
<1>2. /\ length' \in [Instance -> 0..MaxEntries] /\ length[i] \in Nat /\ length'[i] = length[i] + 1
      /\ \A j \in Instance \ {i} : length'[j] = length[j]
  BY <1>1, ViewerLengths
<1>3. entry \in Entries
  BY <1>1, <1>2, ViewerLengths DEF Entries
<1> HIDE DEF entry
<1>4. CASE ~(i = instance /\ logStream # "closed")
  <2>1. UNCHANGED <<logStream, logWire, queued, logSource, logLosses, recovered>>
    BY <1>4 DEF Publish
  <2>2. Known' = Known
    BY <1>1, <2>1, KnownStays
  <2>3. ViewerTypeOK'
    BY <1>1, <1>2, <2>1 DEF ViewerInv, ViewerTypeOK
  <2>4. RequestsAgree' /\ StreamAgrees' /\ OwnEntries'
    BY <1>1, <2>1, <2>2 DEF ViewerInv, RequestsAgree, StreamAgrees, OwnEntries
  <2>5. NothingIsMissing'
    <3>1. CASE i # instance
      BY <1>1, <1>2, <2>1, <2>2, <3>1, ConnectionStays
    <3>2. CASE logStream = "closed"
      <4>1. recovered = 0 /\ \A r \in requests : ~IsRecent(r)
        BY <3>2 DEF NothingIsMissing
      <4> QED
        BY <1>1, <2>1, <4>1, NothingRecovered DEF IsRecent
    <3> QED
      BY <1>4, <3>1, <3>2
  <2> QED
    BY <2>3, <2>4, <2>5 DEF ViewerInv
<1>5. CASE i = instance /\ logStream # "closed"
  <2>1. Enqueue(entry)
    BY <1>5 DEF Publish, entry
  <2>2. CASE logStream = "blocked" /\ Len(queued) = MaxPending /\ logLosses < MaxLogLosses /\ Cut
               /\ logSource' = "connecting" /\ logLosses' = logLosses + 1 /\ recovered' = 0
    BY <1>1, <1>2, <2>2, LosingKeeps
  <2>3. ASSUME logStream' \in {"ready", "blocked"}, UNCHANGED <<logSource, logLosses, recovered>>,
               logWire' \in Seq(Entries \cup {Opened}), queued' \in Seq(Entries), Len(queued') <= MaxPending,
               Known' = Known \cup {entry}
        PROVE  ViewerInv' /\ NothingIsMissing'
    <3>1. ViewerTypeOK'
      BY <1>1, <1>2, <2>3 DEF ViewerInv, ViewerTypeOK
    <3>2. entry[1] = instance /\ entry = <<instance, length[instance] + 1>>
      BY <1>5 DEF entry
    <3>3. OwnEntries'
      BY <1>1, <2>3, <3>2 DEF ViewerInv, OwnEntries
    <3>4. RequestsAgree' /\ StreamAgrees'
      BY <1>1, <1>5, <2>3 DEF ViewerInv, RequestsAgree, StreamAgrees
    <3>5. ASSUME NEW n \in Nat, Since(n) PROVE Since(n)'
      <4> SUFFICES ASSUME NEW k \in n..length'[instance] PROVE <<instance, k>> \in Known'
        BY <1>1 DEF Since
      <4>1. CASE k = length[instance] + 1
        BY <2>3, <3>2, <4>1
      <4>2. CASE k # length[instance] + 1
        <5>1. k \in n..length[instance]
          BY <1>2, <1>5, <4>2
        <5> QED
          BY <2>3, <3>5, <5>1 DEF Since
      <4> QED
        BY <4>1, <4>2
    <3>6. NothingIsMissing'
      <4>1. recovered \in Nat /\ \A r \in requests : r.until \in Nat
        BY LogViewerAssumption DEF ViewerInv, ViewerTypeOK, Request, Cursor
      <4>2. recovered # 0 /\ Len(records) < MaxLive => Since(recovered)'
        <5> SUFFICES ASSUME recovered # 0, Len(records) < MaxLive PROVE Since(recovered)'
          OBVIOUS
        <5>1. PICK n \in Nat : n = recovered
          BY <4>1
        <5>2. Since(n)
          BY <5>1 DEF NothingIsMissing
        <5>3. Since(n)'
          BY <3>5, <5>2
        <5> QED
          BY <2>3, <5>1, <5>3 DEF Since
      <4>3. ASSUME NEW r \in requests, IsRecent(r), r.answered, Len(records) < MaxLive
            PROVE  Since(r.until + 1)'
        <5>1. Since(r.until + 1) /\ r.until + 1 \in Nat
          BY <4>1, <4>3 DEF NothingIsMissing
        <5> QED
          BY <3>5, <5>1
      <4>4. \A r \in requests : IsRecent(r)' => IsRecent(r)
        BY <1>1, <2>3 DEF IsRecent
      <4> QED
        BY <1>1, <2>3, <4>2, <4>3, <4>4 DEF NothingIsMissing
    <3> QED
      BY <3>1, <3>3, <3>4, <3>6 DEF ViewerInv
  <2>4. CASE logStream = "ready" /\ WritesLog(<<entry>>) /\ UNCHANGED <<queued, logSource, logLosses, recovered>>
    <3> DEFINE E == Entries \cup {Opened}
    <3>1. logWire \in Seq(E) /\ entry \in E
      BY <1>3, ViewerLists
    <3> HIDE DEF E
    <3>2. logWire \o <<entry>> \in Seq(E) /\ Range(logWire \o <<entry>>) = Range(logWire) \cup {entry}
      BY <3>1, Joins
    <3>3. logWire' = logWire \o <<entry>> /\ logStream' \in {"ready", "blocked"}
      BY <2>4 DEF WritesLog
    <3>4. Known' = Known \cup {entry}
      BY <1>1, <2>4, <3>2, <3>3 DEF Known
    <3>5. queued' \in Seq(Entries) /\ Len(queued') <= MaxPending
      BY <2>4, ViewerNumbers, ViewerLists
    <3> QED
      BY <2>3, <2>4, <3>2, <3>3, <3>4, <3>5 DEF E
  <2>5. CASE /\ logStream = "blocked" /\ Len(queued) < MaxPending /\ queued' = Append(queued, entry)
             /\ UNCHANGED <<logStream, logWire, logSource, logLosses, recovered>>
    <3>1. /\ queued' \in Seq(Entries) /\ Len(queued') = Len(queued) + 1
          /\ Range(queued') = Range(queued) \cup {entry}
      <4>1. queued \in Seq(Entries)
        BY ViewerLists
      <4>2. Append(queued, entry) \in Seq(Entries) /\ Range(Append(queued, entry)) = Range(queued) \cup {entry}
        BY <1>3, <4>1, Appended
      <4>3. Len(Append(queued, entry)) = Len(queued) + 1
        BY <1>3, <4>1
      <4>4. queued' = Append(queued, entry)
        BY <2>5
      <4> QED
        BY <4>2, <4>3, <4>4
    <3>2. Len(queued') <= MaxPending
      BY <2>5, <3>1, ViewerNumbers
    <3>3. Known' = Known \cup {entry}
      BY <1>1, <2>5, <3>1 DEF Known
    <3>4. logWire' \in Seq(Entries \cup {Opened}) /\ logStream' \in {"ready", "blocked"}
      BY <2>5, ViewerLists
    <3> QED
      BY <2>3, <2>5, <3>1, <3>2, <3>3, <3>4
  <2> QED
    BY <2>1, <2>2, <2>4, <2>5 DEF Enqueue
<1> QED
  BY <1>4, <1>5

LEMMA LoseLogKeeps ==
  ASSUME ViewerInv, NothingIsMissing, LoseLog
  PROVE  ViewerInv' /\ NothingIsMissing'
<1>1. length' \in [Instance -> 0..MaxEntries]
  BY ViewerLengths DEF LoseLog
<1> QED
  BY <1>1, LosingKeeps DEF LoseLog, list, choice

--------------------------------------------------------------------------------
(* The page asks *)

\* A request as it is sent.
LEMMA AskingIsTyped ==
  ASSUME ViewerInv, NEW kind \in Kind, NEW i \in Instance, NEW g \in 0..MaxSelections, NEW before \in Cursor,
         kind = "recent" => before = 0
  PROVE  LET r == Asking(kind, i, g, before)
         IN  /\ r \in Request /\ r.kind = kind /\ r.of = i /\ r.generation = g /\ r.before = before
             /\ r.losses = logLosses /\ ~r.answered /\ r.from = 1
<1>1. 0 \in Cursor /\ 1 \in 1..(MaxEntries + 1) /\ logLosses \in 0..MaxLogLosses
  BY ViewerNumbers DEF Cursor
<1> QED
  BY <1>1 DEF Asking, Request

LEMMA LoadOlderKeeps ==
  ASSUME ViewerInv, NothingIsMissing, LoadOlder
  PROVE  ViewerInv' /\ NothingIsMissing'
<1> DEFINE r == Asking("older", instance, generation, nextBefore)
<1>1. /\ nextBefore # 0 /\ loading' = TRUE /\ requests' = requests \cup {r}
      /\ UNCHANGED <<length, recovered, records, nextBefore, instance, generation, logSource, hasOpened,
                     logStream, logWire, queued, logLosses>>
  BY DEF LoadOlder, list, choice, connection
<1>2. instance \in Instance /\ nextBefore \in Cursor /\ generation \in 0..MaxSelections /\ "older" \in Kind
  BY <1>1 DEF ViewerInv, ViewerTypeOK, StreamAgrees, Kind
<1>3. /\ r \in Request /\ r.kind = "older" /\ r.of = instance /\ r.generation = generation
      /\ r.losses = logLosses /\ r.from = 1
  BY <1>2, AskingIsTyped
<1> HIDE DEF r
<1>4. Known' = Known
  BY <1>1, KnownStays
<1>5. ViewerTypeOK'
  BY <1>1, <1>3 DEF ViewerInv, ViewerTypeOK
<1>6. RequestsAgree'
  BY <1>1, <1>2, <1>3, ViewerNumbers DEF ViewerInv, RequestsAgree
<1>7. StreamAgrees' /\ OwnEntries'
  BY <1>1, <1>4 DEF ViewerInv, StreamAgrees, OwnEntries
<1>8. \A q \in requests' : q \in requests \/ ~IsRecent(q)
  BY <1>1, <1>3 DEF IsRecent
<1>9. NothingIsMissing'
  BY <1>1, <1>4, <1>8, ConnectionStays
<1> QED
  BY <1>5, <1>6, <1>7, <1>9 DEF ViewerInv

LEMMA SelectInstanceKeeps ==
  ASSUME ViewerInv, NothingIsMissing, NEW i \in Instance, SelectInstance(i)
  PROVE  ViewerInv' /\ NothingIsMissing'
<1> DEFINE r == Asking("initial", i, generation + 1, 0)
<1>1. /\ generation < MaxSelections /\ instance' = i /\ generation' = generation + 1
      /\ records' = <<>> /\ nextBefore' = 0 /\ recovered' = 0 /\ logSource' = "connecting" /\ hasOpened' = FALSE
      /\ logStream' = "closed" /\ logWire' = <<>> /\ queued' = <<>> /\ requests' = requests \cup {r}
      /\ UNCHANGED <<length, loading, logLosses>>
  BY DEF SelectInstance, Cut
<1>2. 0 \in Cursor /\ generation + 1 \in 0..MaxSelections /\ "initial" \in Kind
  BY <1>1, ViewerNumbers DEF Cursor, Kind
<1>3. /\ r \in Request /\ r.kind = "initial" /\ r.of = i /\ r.generation = generation + 1
      /\ r.losses = logLosses /\ r.from = 1
  BY <1>2, AskingIsTyped
<1> HIDE DEF r
<1>4. \A S : <<>> \in Seq(S) /\ Len(<<>>) = 0
  OBVIOUS
<1>5. Known' = {}
  BY <1>1 DEF Known, Range
<1>6. ViewerTypeOK'
  <2>1. records' \in Seq(Entries) /\ logWire' \in Seq(Entries \cup {Opened}) /\ queued' \in Seq(Entries)
    BY <1>1, <1>4
  <2>2. Len(queued') <= MaxPending /\ recovered' \in 0..(MaxEntries + 1)
    BY <1>1, <1>4, ViewerNumbers
  <2>3. hasOpened' \in BOOLEAN
    BY <1>1
  <2> QED
    BY <1>1, <1>2, <1>3, <2>1, <2>2, <2>3 DEF ViewerInv, ViewerTypeOK
<1>7. \A q \in requests : q.generation \in Nat /\ q.generation <= generation
  BY DEF ViewerInv, ViewerTypeOK, Request, RequestsAgree
<1>8. RequestsAgree'
  BY <1>1, <1>3, <1>7, ViewerNumbers DEF ViewerInv, RequestsAgree
<1>9. StreamAgrees' /\ OwnEntries'
  BY <1>1, <1>5 DEF ViewerInv, StreamAgrees, OwnEntries
<1>10. \A q \in requests' : ~IsRecent(q)'
  BY <1>1, <1>3, <1>7, ViewerNumbers DEF IsRecent
<1>11. NothingIsMissing'
  BY <1>1, <1>10, NothingRecovered
<1> QED
  BY <1>6, <1>8, <1>9, <1>11 DEF ViewerInv

LEMMA OnOpenKeeps ==
  ASSUME ViewerInv, NothingIsMissing, OnOpen
  PROVE  ViewerInv' /\ NothingIsMissing'
<1> DEFINE r == Asking("recent", instance, generation, 0)
<1>1. /\ logWire # <<>> /\ Head(logWire) = Opened /\ logWire' = Tail(logWire)
      /\ logSource' = "open" /\ hasOpened' = TRUE
      /\ requests' = IF hasOpened THEN requests \cup {r} ELSE requests
      /\ UNCHANGED <<length, loading, logStream, queued, logLosses, recovered, records, nextBefore,
                     instance, generation>>
  BY DEF OnOpen, list, choice
<1>2. logStream # "closed" /\ instance \in Instance
  BY <1>1 DEF ViewerInv, StreamAgrees
<1>3. 0 \in Cursor /\ generation \in 0..MaxSelections /\ "recent" \in Kind
  BY ViewerNumbers DEF Cursor, Kind
<1>4. /\ r \in Request /\ r.kind = "recent" /\ r.of = instance /\ r.generation = generation
      /\ r.losses = logLosses /\ r.from = 1 /\ r.before = 0 /\ ~r.answered
  BY <1>2, <1>3, AskingIsTyped
<1> HIDE DEF r
<1>5. logWire' \in Seq(Entries \cup {Opened}) /\ Range(logWire) = Range(logWire') \cup {Opened}
  BY <1>1, ViewerLists, Leaves
<1>6. Known = Known' \cup {Opened}
  BY <1>1, <1>5 DEF Known
<1>7. requests' \subseteq requests \cup {r}
  BY <1>1
<1>8. ViewerTypeOK'
  BY <1>1, <1>4, <1>5, <1>7 DEF ViewerInv, ViewerTypeOK
<1>9. RequestsAgree'
  BY <1>1, <1>2, <1>4, <1>7, ViewerNumbers DEF ViewerInv, RequestsAgree
<1>10. StreamAgrees' /\ OwnEntries'
  BY <1>1, <1>2, <1>6 DEF ViewerInv, StreamAgrees, OwnEntries
<1>11. \A q \in requests' : q \in requests \/ (logStream # "closed" /\ ~q.answered)
  BY <1>2, <1>4, <1>7
<1>12. NothingIsMissing'
  BY <1>1, <1>6, <1>11, ConnectionStays
<1> QED
  BY <1>8, <1>9, <1>10, <1>12 DEF ViewerInv

LEMMA OnMessageKeeps ==
  ASSUME ViewerInv, NothingIsMissing, OnMessage
  PROVE  ViewerInv' /\ NothingIsMissing'
<1> DEFINE e == Head(logWire)
           longer == Append(records, e)
<1>1. /\ logWire # <<>> /\ e # Opened /\ logWire' = Tail(logWire) /\ records' = Trimmed(longer)
      /\ UNCHANGED <<length, nextBefore, loading, requests, logSource, hasOpened, logStream, queued,
                     logLosses, recovered, instance, generation>>
  BY DEF OnMessage, choice
<1>2. logStream # "closed"
  BY <1>1 DEF ViewerInv, StreamAgrees
<1>3. e \in Entries /\ logWire' \in Seq(Entries \cup {Opened}) /\ Range(logWire) = Range(logWire') \cup {e}
  BY <1>1, ViewerLists, Leaves
<1> HIDE DEF e
<1>4. longer \in Seq(Entries) /\ Len(longer) = Len(records) + 1 /\ Range(longer) = Range(records) \cup {e}
  <2>1. records \in Seq(Entries)
    BY ViewerLists
  <2>2. longer \in Seq(Entries) /\ Range(longer) = Range(records) \cup {e}
    BY <1>3, <2>1, Appended
  <2>3. Len(longer) = Len(records) + 1
    BY <1>3, <2>1
  <2> QED
    BY <2>2, <2>3
<1> HIDE DEF longer
<1>5. /\ records' \in Seq(Entries) /\ Range(records') \subseteq Range(records) \cup {e}
      /\ Len(records') < MaxLive => records' = longer
  BY <1>1, <1>4, TrimmedElements
<1>6. Known' \subseteq Known
  BY <1>1, <1>3, <1>5 DEF Known
<1>7. Len(records') < MaxLive => Len(records) < MaxLive /\ Known \subseteq Known'
  <2> SUFFICES ASSUME Len(records') < MaxLive PROVE Len(records) < MaxLive /\ Known \subseteq Known'
    OBVIOUS
  <2>1. Len(records) < MaxLive
    BY <1>4, <1>5, ViewerNumbers
  <2>2. Known \subseteq Known'
    BY <1>1, <1>3, <1>4, <1>5 DEF Known
  <2> QED
    BY <2>1, <2>2
<1>8. ViewerTypeOK'
  BY <1>1, <1>3, <1>5 DEF ViewerInv, ViewerTypeOK
<1>9. RequestsAgree' /\ StreamAgrees' /\ OwnEntries'
  BY <1>1, <1>2, <1>6 DEF ViewerInv, RequestsAgree, StreamAgrees, OwnEntries
<1>10. NothingIsMissing'
  BY <1>1, <1>7, ConnectionStays
<1> QED
  BY <1>8, <1>9, <1>10 DEF ViewerInv

--------------------------------------------------------------------------------
(* The history answers *)

LEMMA AnswerKeeps ==
  ASSUME ViewerInv, NothingIsMissing, NEW r \in requests, Answer(r)
  PROVE  ViewerInv' /\ NothingIsMissing'
<1> USE LogViewerAssumption
<1> DEFINE end == Latest(r)
           first == IF end <= LimitOf(r.kind) THEN 1 ELSE end - LimitOf(r.kind) + 1
           a == [r EXCEPT !.answered = TRUE, !.from = first, !.until = end]
<1>1. /\ ~r.answered /\ requests' = (requests \ {r}) \cup {a}
      /\ UNCHANGED <<length, loading, recovered, records, nextBefore, instance, generation, logSource,
                     hasOpened, logStream, logWire, queued, logLosses>>
  BY DEF Answer, list, choice, connection
<1>2. /\ r \in Request /\ r.of \in Instance /\ r.before \in 0..MaxEntries
      /\ r.kind = "recent" => r.before = 0
      /\ r.generation = generation => r.of = instance
      /\ r.generation <= generation /\ r.losses <= logLosses
  BY DEF ViewerInv, ViewerTypeOK, RequestsAgree, Request, Cursor
<1>3. end \in 0..MaxEntries /\ (r.before = 0 => end = length[r.of])
  <2>1. length[r.of] \in 0..MaxEntries /\ MaxEntries \in Nat
    BY <1>2, ViewerLengths
  <2>2. CASE r.before = 0
    BY <2>1, <2>2 DEF Latest
  <2>3. CASE r.before # 0
    <3>1. end = r.before - 1
      BY <2>3 DEF Latest
    <3> HIDE DEF end
    <3> QED
      BY <1>2, <2>1, <2>3, <3>1
  <2> QED
    BY <2>2, <2>3
<1>4. LimitOf(r.kind) \in Nat \ {0}
  BY DEF LimitOf
<1> HIDE DEF end
<1>5. first \in 1..(MaxEntries + 1) /\ (first = 1 \/ first <= end)
  BY <1>3, <1>4
<1> HIDE DEF first
<1>6. /\ a \in Request /\ a.kind = r.kind /\ a.of = r.of /\ a.generation = r.generation /\ a.before = r.before
      /\ a.losses = r.losses /\ a.from = first /\ a.until = end
  BY <1>2, <1>3, <1>5 DEF Request, Cursor
<1> HIDE DEF a
<1>7. Known' = Known
  BY <1>1, KnownStays
<1>8. ViewerTypeOK'
  BY <1>1, <1>6 DEF ViewerInv, ViewerTypeOK
<1>9. RequestsAgree'
  BY <1>1, <1>2, <1>5, <1>6 DEF ViewerInv, RequestsAgree
<1>10. StreamAgrees' /\ OwnEntries'
  BY <1>1, <1>7 DEF ViewerInv, StreamAgrees, OwnEntries
<1>11. ASSUME IsRecent(a) PROVE logStream # "closed" /\ a.until \in Nat /\ Since(a.until + 1)
  <2>1. IsRecent(r)
    BY <1>6, <1>11 DEF IsRecent
  <2>2. logStream # "closed"
    BY <2>1 DEF NothingIsMissing
  <2>3. end = length[instance]
    BY <1>2, <1>3, <2>1 DEF IsRecent
  <2>4. Since(end + 1)
    BY <1>3, <2>3 DEF Since
  <2> QED
    BY <1>3, <1>6, <2>2, <2>4
<1>12. NothingIsMissing'
  BY <1>1, <1>7, <1>11, ConnectionStays
<1> QED
  BY <1>8, <1>9, <1>10, <1>12 DEF ViewerInv

LEMMA RequestFailsKeeps ==
  ASSUME ViewerInv, NothingIsMissing, NEW r \in requests, RequestFails(r)
  PROVE  ViewerInv' /\ NothingIsMissing'
<1>1. /\ requests' = requests \ {r} /\ loading' = (loading /\ r.kind # "older")
      /\ UNCHANGED <<length, recovered, records, nextBefore, instance, generation, logSource,
                     hasOpened, logStream, logWire, queued, logLosses>>
  BY DEF RequestFails, list, choice, connection
<1>2. Known' = Known
  BY <1>1, KnownStays
<1>3. loading' \in BOOLEAN
  BY <1>1
<1>4. ViewerTypeOK'
  BY <1>1, <1>3 DEF ViewerInv, ViewerTypeOK
<1>5. RequestsAgree' /\ StreamAgrees' /\ OwnEntries'
  BY <1>1, <1>2 DEF ViewerInv, RequestsAgree, StreamAgrees, OwnEntries
<1>6. NothingIsMissing'
  BY <1>1, <1>2, ConnectionStays
<1> QED
  BY <1>4, <1>5, <1>6 DEF ViewerInv

\* A page is shown: the list gains its entries, and loses none unless it is full.
LEMMA ReceiveHistoryKeeps ==
  ASSUME ViewerInv, NothingIsMissing, NEW r \in requests, ReceiveHistory(r)
  PROVE  ViewerInv' /\ NothingIsMissing'
<1> USE LogViewerAssumption
<1> DEFINE answer == HistoryPage(r)
<1>1. /\ r.answered /\ requests' = requests \ {r} /\ loading' = (loading /\ r.kind # "older")
      /\ UNCHANGED <<length, instance, generation, logSource, hasOpened, logStream, logWire, queued, logLosses>>
  BY DEF ReceiveHistory, choice, connection
<1>2. /\ r.of \in Instance /\ r.from \in 1..(MaxEntries + 1) /\ r.until \in 0..MaxEntries
      /\ r.kind \in Kind /\ (r.from = 1 \/ r.from <= r.until)
      /\ r.generation = generation => r.of = instance
  BY DEF ViewerInv, ViewerTypeOK, RequestsAgree, Request, Cursor
<1>3. /\ answer \in Seq(Entries) /\ Range(answer) = {<<r.of, k>> : k \in r.from..r.until}
      /\ \A p, q \in DOMAIN answer : answer[p] = answer[q] => p = q
  BY <1>2, PageElements
<1>4. loading' \in BOOLEAN
  BY <1>1
<1> HIDE DEF answer
\* Whatever becomes of the list.
<1>5. ASSUME records' \in Seq(Entries), nextBefore' \in Cursor, recovered' \in 0..(MaxEntries + 1),
             nextBefore' # 0 => instance \in Instance,
             Range(records') \subseteq Range(records) \cup {<<instance, k>> : k \in r.from..r.until},
             Len(records') < MaxLive => Len(records) < MaxLive /\ Range(records) \subseteq Range(records'),
             \/ recovered' = recovered
             \/ logStream # "closed" /\ (Len(records') < MaxLive => Since(recovered)')
      PROVE  ViewerInv' /\ NothingIsMissing'
  <2>1. Known' \subseteq Known \cup {<<instance, k>> : k \in r.from..r.until}
    BY <1>1, <1>5 DEF Known
  <2>2. Len(records') < MaxLive => Len(records) < MaxLive /\ Known \subseteq Known'
    BY <1>1, <1>5 DEF Known
  <2>3. ViewerTypeOK'
    BY <1>1, <1>4, <1>5 DEF ViewerInv, ViewerTypeOK
  <2>4. RequestsAgree' /\ StreamAgrees'
    BY <1>1, <1>5 DEF ViewerInv, RequestsAgree, StreamAgrees
  <2>5. OwnEntries'
    BY <1>1, <2>1 DEF ViewerInv, OwnEntries
  <2>6. NothingIsMissing'
    BY <1>1, <1>5, <2>2, ConnectionStays
  <2> QED
    BY <2>3, <2>4, <2>5, <2>6 DEF ViewerInv
<1>6. CASE ~IsCurrent(r)
  <2>1. UNCHANGED <<recovered, records, nextBefore>>
    BY <1>6 DEF ReceiveHistory, list
  <2>2. /\ records \in Seq(Entries) /\ nextBefore \in Cursor /\ recovered \in 0..(MaxEntries + 1)
        /\ nextBefore # 0 => instance \in Instance
    BY DEF ViewerInv, ViewerTypeOK, StreamAgrees
  <2> QED
    BY <1>5, <2>1, <2>2
<1>7. CASE IsCurrent(r)
  <2>1. r.of = instance /\ instance \in Instance
    BY <1>2, <1>7 DEF IsCurrent
  <2>2. /\ records' = CASE r.kind = "initial" -> MergeUnique(answer, records)
                        [] r.kind = "older"   -> answer \o records
                        [] r.kind = "recent"  -> WithRecent(answer)
        /\ nextBefore' = IF r.kind = "recent" THEN nextBefore ELSE More(r)
        /\ recovered' = IF r.kind = "recent" /\ r.losses = logLosses THEN r.from ELSE recovered
    BY <1>7 DEF ReceiveHistory, answer
  <2>3. nextBefore' \in Cursor
    <3>1. MaxEntries \in Nat /\ nextBefore \in Cursor
      BY ViewerNumbers
    <3>2. More(r) \in Cursor
      BY <1>2, <3>1 DEF More, Cursor
    <3> QED
      BY <2>2, <3>1, <3>2
  <2>4. recovered' \in 0..(MaxEntries + 1)
    <3>1. recovered \in 0..(MaxEntries + 1)
      BY DEF ViewerInv, ViewerTypeOK
    <3>2. r.from \in 0..(MaxEntries + 1)
      BY <1>2
    <3> QED
      BY <2>2, <3>1, <3>2
  <2>5. Range(answer) = {<<instance, k>> : k \in r.from..r.until}
    BY <1>3, <2>1
  <2>6. CASE r.kind = "initial"
    <3>1. records' = MergeUnique(answer, records) /\ recovered' = recovered
      BY <2>2, <2>6
    <3>2. /\ MergeUnique(answer, records) \in Seq(Entries)
          /\ Range(MergeUnique(answer, records)) = Range(answer) \cup Range(records)
      BY <1>3, ViewerLists, MergedElements
    <3>3. Len(MergeUnique(answer, records)) >= Len(records)
      BY <1>3, ViewerLists, MergedLength
    <3>4. Len(records') < MaxLive => Len(records) < MaxLive
      BY <3>1, <3>2, <3>3, ViewerNumbers, LenProperties
    <3> QED
      BY <1>5, <2>1, <2>3, <2>4, <2>5, <3>1, <3>2, <3>4
  <2>7. CASE r.kind = "older"
    <3>1. records' = answer \o records /\ recovered' = recovered
      BY <2>2, <2>7
    <3>2. answer \o records \in Seq(Entries) /\ Range(answer \o records) = Range(answer) \cup Range(records)
      BY <1>3, ViewerLists, ConcatProperties, RangeConcatenation
    <3>3. Len(answer \o records) = Len(answer) + Len(records) /\ Len(answer) \in Nat
      BY <1>3, ViewerLists, ConcatProperties, LenProperties
    <3>4. Len(records') < MaxLive => Len(records) < MaxLive
      BY <3>1, <3>3, ViewerNumbers
    <3> QED
      BY <1>5, <2>1, <2>3, <2>4, <2>5, <3>1, <3>2, <3>4
  <2>8. CASE r.kind = "recent"
    <3> DEFINE merged == MergeUnique(records, answer)
               sorted == Sorted(merged)
    <3>1. /\ merged \in Seq(Entries) /\ Range(merged) = Range(records) \cup Range(answer)
          /\ Len(merged) >= Len(records)
      BY <1>3, ViewerLists, MergedElements
    <3>2. records' = Trimmed(sorted)
      BY <2>2, <2>8 DEF WithRecent
    <3> HIDE DEF merged
    <3>3. sorted \in Seq(Entries) /\ Range(sorted) = Range(merged) /\ Len(sorted) = Len(merged)
      BY <3>1, ViewerLists, SortedElements
    <3> HIDE DEF sorted
    <3>4. /\ records' \in Seq(Entries) /\ Range(records') \subseteq Range(sorted)
          /\ Len(records') < MaxLive => records' = sorted
      BY <3>2, <3>3, TrimmedElements
    <3>5. Range(records') \subseteq Range(records) \cup {<<instance, k>> : k \in r.from..r.until}
      BY <2>5, <3>1, <3>3, <3>4
    <3>6. Len(records') < MaxLive => /\ Len(records) < MaxLive /\ Range(records) \subseteq Range(records')
                                     /\ Range(answer) \subseteq Range(records')
      <4> SUFFICES ASSUME Len(records') < MaxLive
                   PROVE  /\ Len(records) < MaxLive /\ Range(records) \subseteq Range(records')
                          /\ Range(answer) \subseteq Range(records')
        OBVIOUS
      <4>1. Len(merged) \in Nat /\ Len(records') = Len(merged)
        BY <3>1, <3>3, <3>4, LenProperties
      <4> QED
        BY <3>1, <3>3, <3>4, <4>1, ViewerNumbers
    <3>7. CASE r.losses # logLosses
      BY <1>5, <2>1, <2>2, <2>3, <2>4, <3>4, <3>5, <3>6, <3>7
    <3>8. CASE r.losses = logLosses
      <4>1. IsRecent(r)
        BY <1>7, <2>8, <3>8 DEF IsRecent, IsCurrent
      <4>2. logStream # "closed" /\ (Len(records) < MaxLive => Since(r.until + 1))
        BY <1>1, <4>1 DEF NothingIsMissing
      <4>3. recovered' = r.from
        BY <2>2, <2>8, <3>8
      <4>4. ASSUME Len(records') < MaxLive PROVE Since(recovered)'
        <5> SUFFICES ASSUME NEW k \in r.from..length[instance] PROVE <<instance, k>> \in Known'
          BY <1>1, <4>3 DEF Since
        <5>1. CASE k <= r.until
          <6>1. <<instance, k>> \in Range(answer)
            BY <1>2, <2>1, <2>5, <5>1, ViewerLengths
          <6> QED
            BY <3>6, <4>4, <6>1 DEF Known
        <5>2. CASE ~(k <= r.until)
          <6>1. k \in (r.until + 1)..length[instance]
            BY <1>2, <2>1, <5>2, ViewerLengths
          <6>2. <<instance, k>> \in Known
            BY <3>6, <4>2, <4>4, <6>1 DEF Since
          <6> QED
            BY <1>1, <3>6, <4>4, <6>2 DEF Known
        <5> QED
          BY <5>1, <5>2
      <4> QED
        BY <1>5, <2>1, <2>3, <2>4, <3>4, <3>5, <3>6, <4>2, <4>4
    <3> QED
      BY <3>7, <3>8
  <2> QED
    BY <1>2, <2>6, <2>7, <2>8 DEF Kind
<1> QED
  BY <1>6, <1>7

--------------------------------------------------------------------------------

(* What ties the list, the stream and the requests together, whatever is    *)
(* written, lost, reconnected, selected or answered late (logs.ts:59-176,   *)
(* app.js:465-634).                                                         *)
THEOREM ViewerInvariant == ViewerSpec => [](ViewerInv /\ NothingIsMissing)
<1>1. ViewerInv /\ NothingIsMissing /\ [ViewerNext]_viewerVars => (ViewerInv /\ NothingIsMissing)'
  <2> SUFFICES ASSUME ViewerInv, NothingIsMissing, [ViewerNext]_viewerVars
               PROVE  ViewerInv' /\ NothingIsMissing'
    OBVIOUS
  <2>1. ASSUME NEW i \in Instance, Publish(i) \/ SelectInstance(i) PROVE ViewerInv' /\ NothingIsMissing'
    BY <2>1, PublishKeeps, SelectInstanceKeeps
  <2>2. ASSUME NEW r \in requests, Answer(r) \/ ReceiveHistory(r) \/ RequestFails(r)
        PROVE  ViewerInv' /\ NothingIsMissing'
    BY <2>2, AnswerKeeps, ReceiveHistoryKeeps, RequestFailsKeeps
  <2>3. CASE Accept \/ RefuseLog \/ DrainLog \/ LoseLog
    BY <2>3, AcceptKeeps, RefuseLogKeeps, DrainLogKeeps, LoseLogKeeps
  <2>4. CASE OnOpen \/ OnMessage \/ LoadOlder
    BY <2>4, OnOpenKeeps, OnMessageKeeps, LoadOlderKeeps
  <2>5. CASE UNCHANGED viewerVars
    BY <2>5 DEF viewerVars, ViewerInv, ViewerTypeOK, RequestsAgree, StreamAgrees, OwnEntries, Known,
                NothingIsMissing, IsRecent, Since
  <2> QED
    BY <2>1, <2>2, <2>3, <2>4, <2>5 DEF ViewerNext
<1> QED
  BY <1>1, ViewerBegins, PTL DEF ViewerSpec

(* NoForeignEntries for any number of instances, selections and requests: a *)
(* late answer or a late event never shows on the list of another instance  *)
(* (the generation checks, app.js:483, 511, 539, 545, 589).                 *)
THEOREM NothingForeign == ViewerSpec => []NoForeignEntries
<1>1. ViewerInv => NoForeignEntries
  <2> SUFFICES ASSUME ViewerInv, NEW n \in DOMAIN records PROVE records[n][1] = instance
    BY DEF NoForeignEntries
  <2>1. records[n] \in Entries
    BY ViewerLists, ElementOfSeq, LenProperties
  <2>2. records[n] \in Known
    BY DEF Known, Range
  <2>3. records[n] # Opened
    BY <2>1, ViewerLists
  <2> QED
    BY <2>2, <2>3 DEF ViewerInv, OwnEntries
<1> QED
  BY <1>1, ViewerInvariant, PTL

(* ReconnectLeavesNoGap for any number of entries, losses and selections and *)
(* any limits: what a page recovered after a reconnect, the stream continues *)
(* (openStream, app.js:526-567; reconcileAfterReconnect, app.js:586-602;     *)
(* logs.ts:75-176).                                                          *)
THEOREM NoGapAfterReconnect == ViewerSpec => []ReconnectLeavesNoGap
<1>1. ViewerInv /\ NothingIsMissing => ReconnectLeavesNoGap
  <2> SUFFICES ASSUME NothingIsMissing, recovered # 0, logWire = <<>>, queued = <<>>, Len(records) < MaxLive,
                      NEW k \in recovered..length[instance]
               PROVE  <<instance, k>> \in Range(records)
    BY DEF ReconnectLeavesNoGap
  <2>1. <<instance, k>> \in Known
    BY DEF NothingIsMissing, Since
  <2>2. Known = Range(records)
    BY DEF Known, Range
  <2> QED
    BY <2>1, <2>2
<1> QED
  BY <1>1, ViewerInvariant, PTL

--------------------------------------------------------------------------------
(* All parts together *)

(* The password, the login, the dashboard and the log page share no state:  *)
(* a behaviour of the four together is one of each, so all that is shown of *)
(* one holds of them together (web/server.ts puts them side by side).       *)
THEOREM WebPartsBehave == Spec => EnvSpec /\ LoginSpec /\ DashboardSpec /\ ViewerSpec
<1>1. Init => EnvInit /\ LoginInit /\ DashboardInit /\ ViewerInit
  BY DEF Init
<1>2. [Next]_vars => [EnvNext]_envVars /\ [LoginNext]_loginVars /\ [DashboardNext]_dashboardVars
                     /\ [ViewerNext]_viewerVars
  <2> SUFFICES ASSUME [Next]_vars
               PROVE  [EnvNext]_envVars /\ [LoginNext]_loginVars /\ [DashboardNext]_dashboardVars
                      /\ [ViewerNext]_viewerVars
    OBVIOUS
  <2> QED
    BY DEF Next, vars
<1> QED
  BY <1>1, <1>2, PTL DEF Spec, EnvSpec, LoginSpec, DashboardSpec, ViewerSpec

(* Typing of the four together (envFile.ts, loginRateLimiter.ts, session.ts, *)
(* dashboard.ts, logs.ts, app.js).                                           *)
THEOREM WebTyping == Spec => []TypeOK
<1> DEFINE Follows == moving \in Component
<1>1. Init => Follows
  BY DEF Init
<1>2. Follows /\ [Next]_vars => Follows'
  BY DEF Next, vars
<1>3. Follows /\ EnvTypeOK /\ LoginTypeOK /\ LimiterInv /\ DashboardTypeOK /\ ViewerInv => TypeOK
  BY DEF TypeOK, ViewerInv
<1> HIDE DEF Follows
<1> QED
  BY <1>1, <1>2, <1>3, WebPartsBehave, EnvTyping, LoginInvariant, DashboardTyping, ViewerInvariant, PTL DEF Spec

================================================================================
