--------------------------------- MODULE Dashboard ---------------------------------
(***************************************************************************)
(* The dashboard page and its event stream.  The server sends a full       *)
(* snapshot when the stream opens and on every interval; while the socket  *)
(* does not take more, only the newest one is kept.  Every interval and    *)
(* heartbeat first asks whether the session is still valid, and ends the   *)
(* stream with 'auth-expired' when it is not.  The page shows the snapshot *)
(* that arrived last, reconnects by itself, and goes to /login when it     *)
(* learns that its session is gone.                                        *)
(*                                                                         *)
(* EventSource reconnects when a connection breaks, but any answer that is *)
(* not a stream ends it for good, and nothing opens it again.  A server    *)
(* that cannot take the first snapshot gives such an answer (500) to a     *)
(* session that is valid.                                                  *)
(*                                                                         *)
(* A snapshot is named after the state of the instances it was taken of.   *)
(* A session that has become invalid stays so (see WebLogin): logging in   *)
(* again loads the page anew.                                              *)
(***************************************************************************)
EXTENDS Naturals, Sequences

CONSTANTS
  MaxChanges,  \* bound: changes of the instances' state
  MaxLosses,   \* bound: lost connections
  MaxWire,     \* bound: events on their way to the page
  Nothing,     \* no snapshot
  AuthExpired  \* the event that ends a stream

ASSUME DashboardAssumption ==
  /\ MaxChanges \in Nat /\ MaxLosses \in Nat /\ MaxWire \in Nat \ {0}
  /\ Nothing \notin Nat /\ AuthExpired \notin Nat

VARIABLES
  latest,    \* the state of the instances
  valid,     \* the session of the page is valid
  stream,    \* the server's side: whether it is open, and whether the socket takes more
  pending,   \* the newest snapshot the socket has not taken
  wire,      \* what is on its way to the page, in order
  page,      \* the page: not open, loading the first snapshot, following the stream, or left for /login
  source,    \* the page's EventSource
  refused,   \* history: EventSource gave up although the session was valid
  asked,     \* the page has sent a request whose answer tells it whether to log in
  shown,     \* the snapshot on the page
  losses     \* how many connections were lost

dashboardVars == <<latest, valid, stream, pending, wire, page, source, refused, asked, shown, losses>>

client == <<page, source, refused, asked, shown>>

Snapshot == 0..MaxChanges

DashboardTypeOK ==
  /\ latest \in Snapshot /\ valid \in BOOLEAN /\ losses \in 0..MaxLosses
  /\ stream \in {"closed", "ready", "blocked"}
  /\ pending \in Snapshot \cup {Nothing}
  /\ wire \in Seq(Snapshot \cup {AuthExpired}) /\ Len(wire) <= MaxWire + 1
  /\ page \in {"absent", "loading", "following", "login"}
  /\ source \in {"none", "connecting", "open"}
  /\ refused \in BOOLEAN /\ asked \in BOOLEAN /\ shown \in Snapshot \cup {Nothing}

DashboardInit ==
  /\ latest = 0 /\ valid = TRUE /\ losses = 0
  /\ stream = "closed" /\ pending = Nothing /\ wire = <<>>
  /\ page = "absent" /\ source = "none" /\ refused = FALSE /\ asked = FALSE /\ shown = Nothing

--------------------------------------------------------------------------------
(* The instances and the session *)

Change ==
  /\ latest < MaxChanges
  /\ latest' = latest + 1
  /\ UNCHANGED <<valid, stream, pending, wire, losses, client>>

\* Logout in another tab, expiry, or a revoked cookie.
SessionEnds ==
  /\ valid
  /\ valid' = FALSE
  /\ UNCHANGED <<latest, stream, pending, wire, losses, client>>

--------------------------------------------------------------------------------
(* The server *)

\* response.write: the socket takes the event, and may be full then.
Writes(event) ==
  /\ Len(wire) < MaxWire
  /\ wire' = Append(wire, event)
  /\ stream' \in {"ready", "blocked"}

\* The stream is accepted with its first snapshot.
Open ==
  /\ source = "connecting" /\ stream = "closed" /\ valid
  /\ wire = <<>>
  /\ source' = "open"
  /\ Writes(latest)
  /\ UNCHANGED <<latest, valid, pending, page, refused, asked, shown, losses>>

\* An answer that is no stream: EventSource gives up, and onerror asks why, once.
GivesUp ==
  /\ source = "connecting"
  /\ source' = "none" /\ asked' = TRUE
  /\ UNCHANGED <<latest, valid, stream, pending, wire, page, shown, losses>>

\* 401: the session is over.
Reject ==
  /\ ~valid /\ GivesUp
  /\ UNCHANGED refused

\* 500: the snapshot that is taken before the headers are sent has failed.
Refuse ==
  /\ valid /\ GivesUp
  /\ refused' = TRUE

\* Faulty variant: the timers stop, and the response is left open.
ExpireSilently ==
  /\ stream # "closed" /\ ~valid
  /\ stream' = "closed" /\ pending' = Nothing
  /\ UNCHANGED <<wire, latest, valid, losses, client>>

\* expireAuthentication, by the next interval or heartbeat.
Expire ==
  /\ stream # "closed" /\ ~valid
  /\ stream' = "closed" /\ pending' = Nothing
  /\ wire' = Append(wire, AuthExpired)
  /\ UNCHANGED <<latest, valid, losses, client>>

Update ==
  /\ valid
  /\ \/ stream = "ready" /\ Writes(latest) /\ UNCHANGED pending
     \/ stream = "blocked" /\ pending' = latest /\ UNCHANGED <<wire, stream>>
  /\ UNCHANGED <<latest, valid, losses, client>>

\* A heartbeat is no event for the page, yet it may fill the socket.
Heartbeat ==
  /\ valid /\ stream = "ready"
  /\ stream' = "blocked"
  /\ UNCHANGED <<latest, valid, pending, wire, losses, client>>

\* Faulty variant: canWrite is not set again, and what is pending is dropped.
DrainForgets ==
  /\ stream = "blocked" /\ wire = <<>>
  /\ pending' = Nothing
  /\ stream' = "blocked"
  /\ UNCHANGED <<latest, valid, wire, losses, client>>

\* onDrain: the page has taken everything that was written.
Drain ==
  /\ stream = "blocked" /\ wire = <<>>
  /\ IF pending = Nothing THEN stream' = "ready" /\ UNCHANGED wire ELSE Writes(pending)
  /\ pending' = Nothing
  /\ UNCHANGED <<latest, valid, losses, client>>

--------------------------------------------------------------------------------
(* The page *)

Following(p, s) == page' = p /\ source' = s

Answered == asked /\ asked' = FALSE /\ UNCHANGED <<latest, valid, losses>>

\* The page is served to a valid session, and asks for a first snapshot.
Visit ==
  /\ page = "absent" /\ valid
  /\ page' = "loading" /\ asked' = TRUE
  /\ UNCHANGED <<latest, valid, losses, source, refused, shown, stream, pending, wire>>

\* initializeDashboard: the first snapshot, then the stream.
Loaded ==
  /\ Answered
  /\ page = "loading" /\ valid
  /\ shown' = latest /\ Following("following", "connecting")
  /\ UNCHANGED <<refused, stream, pending, wire>>

LoadFails ==
  /\ Answered
  /\ page = "loading"
  /\ Following("following", "connecting")
  /\ UNCHANGED <<refused, shown, stream, pending, wire>>

\* apiFetch: 401 leads to the login page, which ends the stream.
Unauthorised ==
  /\ Answered
  /\ ~valid
  /\ Following("login", "none")
  /\ stream' = "closed" /\ pending' = Nothing /\ wire' = <<>>
  /\ UNCHANGED <<refused, shown>>

\* The question is answered with anything but 401, or lost with the network.  The
\* last one, after EventSource gave up, is taken not to be lost when the session
\* is over.
StillAuthorised ==
  /\ Answered
  /\ page = "following" /\ (valid \/ source # "none")
  /\ UNCHANGED <<page, source, refused, shown, stream, pending, wire>>

Receive ==
  /\ source = "open" /\ wire # <<>>
  /\ IF Head(wire) = AuthExpired
     THEN /\ Following("login", "none") /\ stream' = "closed" /\ pending' = Nothing /\ wire' = <<>>
          /\ UNCHANGED <<asked, shown>>
     ELSE /\ shown' = Head(wire) /\ wire' = Tail(wire)
          /\ UNCHANGED <<stream, pending, page, source, asked>>
  /\ UNCHANGED <<latest, valid, refused, losses>>

\* The connection breaks, or cannot be made, or an interval that could not take its
\* snapshot destroys the stream: EventSource connects again, to be accepted or not,
\* and onerror asks whether the session is still good.
Lose ==
  /\ source # "none" /\ losses < MaxLosses
  /\ losses' = losses + 1
  /\ source' = "connecting" /\ asked' = TRUE
  /\ stream' = "closed" /\ pending' = Nothing /\ wire' = <<>>
  /\ UNCHANGED <<latest, valid, page, refused, shown>>

--------------------------------------------------------------------------------

Server == Open \/ Reject \/ Refuse \/ Expire \/ Update \/ Heartbeat \/ Drain

Answers == Loaded \/ LoadFails \/ Unauthorised \/ StillAuthorised

Page == Visit \/ Answers \/ Receive

DashboardNext == Server \/ Page \/ Change \/ SessionEnds \/ Lose

\* Intervals and heartbeats tick, requests are answered, and the page reads on.
DashboardFairness ==
  /\ WF_dashboardVars(Open) /\ WF_dashboardVars(Reject) /\ WF_dashboardVars(Expire)
  /\ WF_dashboardVars(Update) /\ WF_dashboardVars(Drain)
  /\ WF_dashboardVars(Answers) /\ WF_dashboardVars(Receive)

DashboardSpec == DashboardInit /\ [][DashboardNext]_dashboardVars /\ DashboardFairness

--------------------------------------------------------------------------------
(* SignedOutEverywhere: once its session is gone, the stream of the page is *)
(* closed and the page leaves for the login form, also when the socket was  *)
(* full, the connection broke, or the page was just loading.  Only a page   *)
(* whose stream was refused while the session was valid, and whose one      *)
(* question was answered then, stays: nothing on it asks again.             *)
SignedOutEverywhere ==
  ~valid ~> (stream = "closed" /\ (page \in {"absent", "login"} \/ (refused /\ ~asked)))

(* CatchesUp: an open page with a valid session shows the latest state      *)
(* again and again, although a slow one is sent only the newest of what it  *)
(* could not take, and whatever connections break; unless its stream was    *)
(* refused once, after which it never gets another.                         *)
CatchesUp == []<>(shown = latest \/ ~valid \/ page = "absent" \/ refused)

===============================================================================
