--------------------------------- MODULE LogViewer ---------------------------------
(***************************************************************************)
(* The log page.  Choosing an instance opens an event stream and asks for  *)
(* the newest page of its history at the same time; "load older" asks for  *)
(* the page before; a stream that opens again after a loss asks for the    *)
(* newest entries once more and merges them.  Answers arrive whenever they *)
(* do, and a generation number tells the ones that came too late.          *)
(*                                                                         *)
(* The server subscribes to the store when it accepts a stream.  While the *)
(* socket does not take more it queues up to a limit, and then drops the   *)
(* connection.  EventSource reconnects by itself unless it is refused, and *)
(* a source that was closed delivers nothing more.                         *)
(*                                                                         *)
(* The k-th entry of instance i is <<i, k>>; an entry is published with    *)
(* the append that makes it readable (see LogStore).  Left out: filters,   *)
(* selection and rendering, heartbeats, and the session (see Dashboard).   *)
(***************************************************************************)
EXTENDS Naturals, Sequences, SequencesExt

CONSTANTS
  Instance,       \* the instances with a log store
  NoInstance,     \* nothing is selected
  Opened,         \* the headers of a stream, which make onopen run
  PageLimit,      \* entries on a page of history
  RecentLimit,    \* entries asked for after a reconnect
  MaxLive,        \* MAX_LIVE_RECORDS
  MaxPending,     \* MAX_PENDING_SSE_MESSAGES
  MaxEntries,     \* bound: entries of an instance
  MaxSelections,  \* bound: selections
  MaxLogLosses       \* bound: lost connections

ASSUME LogViewerAssumption ==
  /\ NoInstance \notin Instance /\ Opened \notin Instance \X Nat
  /\ {PageLimit, RecentLimit, MaxLive, MaxPending} \subseteq Nat \ {0}
  /\ {MaxEntries, MaxSelections, MaxLogLosses} \subseteq Nat

VARIABLES
  length,      \* the number of entries in the journal of an instance
  instance,    \* state.instanceId
  generation,  \* state.generation
  records,     \* state.records
  nextBefore,  \* state.nextBefore: the entries before this one are not loaded; 0 for none
  loading,     \* state.loadingOlder
  requests,    \* history requests that are under way
  logSource,   \* state.source
  hasOpened,   \* this source has opened before
  logStream,   \* the server's side: whether it is open, and whether the socket takes more
  logWire,     \* what is on its way to the page, in order
  queued,      \* what the socket has not taken
  logLosses,   \* how many connections were lost
  recovered    \* history: where the page begins that was merged for this connection; 0 for none

viewerVars == <<length, instance, generation, records, nextBefore, loading, requests, logSource,
                hasOpened, logStream, logWire, queued, logLosses, recovered>>

list       == <<records, nextBefore>>
choice     == <<instance, generation>>
connection == <<logSource, hasOpened, logStream, logWire, queued, logLosses>>

Entries == Instance \X (1..MaxEntries)
Cursor  == 0..MaxEntries
Kind    == {"initial", "older", "recent"}

\* until is 0 before the server has read the page from..until.
Request == [kind : Kind, of : Instance \cup {NoInstance}, generation : 0..MaxSelections, before : Cursor,
            losses : 0..MaxLogLosses, answered : BOOLEAN, from : 1..(MaxEntries + 1), until : Cursor]

ViewerTypeOK ==
  /\ length \in [Instance -> 0..MaxEntries]
  /\ instance \in Instance \cup {NoInstance} /\ generation \in 0..MaxSelections
  /\ records \in Seq(Entries) /\ nextBefore \in Cursor
  /\ loading \in BOOLEAN /\ requests \subseteq Request
  /\ logSource \in {"none", "connecting", "open"} /\ hasOpened \in BOOLEAN
  /\ logStream \in {"closed", "ready", "blocked"}
  /\ logWire \in Seq(Entries \cup {Opened}) /\ queued \in Seq(Entries) /\ Len(queued) <= MaxPending
  /\ logLosses \in 0..MaxLogLosses /\ recovered \in 0..(MaxEntries + 1)

ViewerInit ==
  /\ length \in [Instance -> 0..MaxEntries]
  /\ instance = NoInstance /\ generation = 0
  /\ records = <<>> /\ nextBefore = 0 /\ loading = FALSE /\ requests = {}
  /\ logSource = "none" /\ hasOpened = FALSE
  /\ logStream = "closed" /\ logWire = <<>> /\ queued = <<>>
  /\ logLosses = 0 /\ recovered = 0

--------------------------------------------------------------------------------
(* The store and the server's side of a stream *)

Cut == logStream' = "closed" /\ logWire' = <<>> /\ queued' = <<>>

\* Writing to the socket may fill it.
WritesLog(events) == logWire' = logWire \o events /\ logStream' \in {"ready", "blocked"}

\* Faulty variant: a busy stream queues without a limit.
EnqueueUnbounded(entry) ==
  IF logStream = "ready" THEN WritesLog(<<entry>>) /\ UNCHANGED <<queued, logSource, logLosses, recovered>>
  ELSE /\ queued' = Append(queued, entry)
       /\ UNCHANGED <<logStream, logWire, logSource, logLosses, recovered>>

\* enqueue: a stream that never drains is destroyed, and the page learns of it.
Enqueue(entry) ==
  \/ /\ logStream = "ready"
     /\ WritesLog(<<entry>>)
     /\ UNCHANGED <<queued, logSource, logLosses, recovered>>
  \/ /\ logStream = "blocked" /\ Len(queued) < MaxPending
     /\ queued' = Append(queued, entry)
     /\ UNCHANGED <<logStream, logWire, logSource, logLosses, recovered>>
  \/ /\ logStream = "blocked" /\ Len(queued) = MaxPending /\ logLosses < MaxLogLosses
     /\ Cut
     /\ logSource' = "connecting" /\ logLosses' = logLosses + 1 /\ recovered' = 0

Publish(i) ==
  /\ length[i] < MaxEntries
  /\ length' = [length EXCEPT ![i] = @ + 1]
  /\ IF i = instance /\ logStream # "closed" THEN Enqueue(<<i, length[i] + 1>>)
     ELSE UNCHANGED <<logStream, logWire, queued, logSource, logLosses, recovered>>
  /\ UNCHANGED <<loading, requests, hasOpened, list, choice>>

\* openLogStream: the headers, and the subscription.
Accept ==
  /\ logSource = "connecting" /\ logStream = "closed"
  /\ WritesLog(<<Opened>>)
  /\ UNCHANGED <<length, loading, requests, logSource, hasOpened, queued, logLosses, recovered, list, choice>>

\* An answer that is no stream (the session is over, the instance or its store is
\* gone): EventSource gives up until an instance is selected again.
RefuseLog ==
  /\ logSource = "connecting" /\ logStream = "closed"
  /\ logSource' = "none"
  /\ UNCHANGED <<length, loading, requests, hasOpened, logStream, logWire, queued, logLosses, recovered,
                 list, choice>>

\* drain: some of what is queued, until the socket is full again.
DrainLog ==
  /\ logStream = "blocked" /\ logWire = <<>>
  /\ IF queued = <<>> THEN logStream' = "ready" /\ UNCHANGED <<logWire, queued>>
     ELSE \E n \in 1..Len(queued) :
            /\ WritesLog(SubSeq(queued, 1, n)) /\ (n < Len(queued) => logStream' = "blocked")
            /\ queued' = SubSeq(queued, n + 1, Len(queued))
  /\ UNCHANGED <<length, loading, requests, logSource, hasOpened, logLosses, recovered, list, choice>>

LoseLog ==
  /\ logStream # "closed" /\ logLosses < MaxLogLosses
  /\ Cut
  /\ logSource' = "connecting" /\ logLosses' = logLosses + 1 /\ recovered' = 0
  /\ UNCHANGED <<length, loading, requests, hasOpened, list, choice>>

--------------------------------------------------------------------------------
(* The history API: readRecent with a cursor and a limit *)

LimitOf(kind) == IF kind = "recent" THEN RecentLimit ELSE PageLimit

Latest(r) == IF r.before = 0 THEN length[r.of] ELSE r.before - 1

Answer(r) ==
  LET end   == Latest(r)
      first == IF end <= LimitOf(r.kind) THEN 1 ELSE end - LimitOf(r.kind) + 1
  IN /\ ~r.answered
     /\ requests' = (requests \ {r}) \cup {[r EXCEPT !.answered = TRUE, !.from = first, !.until = end]}
     /\ UNCHANGED <<length, loading, recovered, list, choice, connection>>

HistoryPage(r) == [n \in 1..((r.until + 1) - r.from) |-> <<r.of, r.from + n - 1>>]

\* nextBefore of an answer.
More(r) == IF r.from > 1 THEN r.from ELSE 0

--------------------------------------------------------------------------------
(* The page *)

Asking(kind, i, g, before) ==
  [kind |-> kind, of |-> i, generation |-> g, before |-> before, losses |-> logLosses,
   answered |-> FALSE, from |-> 1, until |-> 0]

\* selectInstance
SelectInstance(i) ==
  /\ generation < MaxSelections
  /\ instance' = i /\ generation' = generation + 1
  /\ records' = <<>> /\ nextBefore' = 0 /\ recovered' = 0
  /\ logSource' = "connecting" /\ hasOpened' = FALSE /\ Cut
  /\ requests' = requests \cup {Asking("initial", i, generation + 1, 0)}
  /\ UNCHANGED <<length, loading, logLosses>>

LoadOlder ==
  /\ nextBefore # 0 /\ ~loading
  /\ loading' = TRUE
  /\ requests' = requests \cup {Asking("older", instance, generation, nextBefore)}
  /\ UNCHANGED <<length, recovered, list, choice, connection>>

\* onopen: a source that has opened before has been away.
OnOpen ==
  /\ logWire # <<>> /\ Head(logWire) = Opened
  /\ logWire' = Tail(logWire) /\ logSource' = "open" /\ hasOpened' = TRUE
  /\ requests' = IF hasOpened THEN requests \cup {Asking("recent", instance, generation, 0)} ELSE requests
  /\ UNCHANGED <<length, loading, logStream, queued, logLosses, recovered, list, choice>>

\* trimLiveRecords drops the oldest.
Trimmed(s) == IF Len(s) <= MaxLive THEN s ELSE SubSeq(s, Len(s) - MaxLive + 1, Len(s))

\* onmessage, appendLiveRecord
OnMessage ==
  /\ logWire # <<>> /\ Head(logWire) # Opened
  /\ logWire' = Tail(logWire)
  /\ records' = Trimmed(Append(records, Head(logWire)))
  /\ UNCHANGED <<length, nextBefore, loading, requests, logSource, hasOpened, logStream, queued,
                 logLosses, recovered, choice>>

Occurrences(e, s) == Cardinality({n \in DOMAIN s : s[n] = e})

\* What s has at the positions in K, in the order of s.
Picked(s, K) == [n \in 1..Cardinality(K) |-> s[CHOOSE k \in K : Cardinality(K \cap (1..k)) = n]]

\* mergeUnique: an entry of the second is left out as often as it is in the first.
MergeUnique(first, second) ==
  first \o Picked(second, {n \in DOMAIN second :
             Occurrences(second[n], SubSeq(second, 1, n)) > Occurrences(second[n], first)})

\* Where s[k] stands once s is in order; equal entries stay as they were.
Place(s, k) == Cardinality({m \in DOMAIN s : s[m][2] < s[k][2] \/ (s[m][2] = s[k][2] /\ m <= k)})

Sorted(s) == [n \in DOMAIN s |-> s[CHOOSE k \in DOMAIN s : Place(s, k) = n]]

\* Faulty variant: an answer is shown whatever was selected since.
IsCurrentAlways(r) == TRUE

IsCurrent(r) == r.generation = generation

\* Faulty variant: the page recovered replaces the list.
WithRecentReplaced(page) == Trimmed(Sorted(page))

\* reconcileAfterReconnect
WithRecent(page) == Trimmed(Sorted(MergeUnique(records, page)))

ReceiveHistory(r) ==
  /\ r.answered
  /\ requests' = requests \ {r}
  /\ loading' = (loading /\ r.kind # "older")
  /\ IF IsCurrent(r)
     THEN /\ records' = CASE r.kind = "initial" -> MergeUnique(HistoryPage(r), records)
                          [] r.kind = "older"   -> HistoryPage(r) \o records
                          [] r.kind = "recent"  -> WithRecent(HistoryPage(r))
          /\ nextBefore' = IF r.kind = "recent" THEN nextBefore ELSE More(r)
          /\ recovered' = IF r.kind = "recent" /\ r.losses = logLosses THEN r.from ELSE recovered
     ELSE UNCHANGED <<recovered, list>>
  /\ UNCHANGED <<length, choice, connection>>

\* The request or its answer is lost, or the answer is an error.
RequestFails(r) ==
  /\ requests' = requests \ {r}
  /\ loading' = (loading /\ r.kind # "older")
  /\ UNCHANGED <<length, recovered, list, choice, connection>>

--------------------------------------------------------------------------------

ViewerNext ==
  \/ \E i \in Instance : Publish(i) \/ SelectInstance(i)
  \/ \E r \in requests : Answer(r) \/ ReceiveHistory(r) \/ RequestFails(r)
  \/ Accept \/ RefuseLog \/ DrainLog \/ LoseLog \/ OnOpen \/ OnMessage \/ LoadOlder

ViewerSpec == ViewerInit /\ [][ViewerNext]_viewerVars

--------------------------------------------------------------------------------
(* NoForeignEntries: however late the answers come, the list only shows     *)
(* entries of the instance that is selected.                                *)
NoForeignEntries == \A n \in DOMAIN records : records[n][1] = instance

(* ReconnectLeavesNoGap: after a reconnect was made up for, and once what    *)
(* is under way has arrived, every entry since the page that was recovered   *)
(* is on the list, whatever was written, sent or queued in the meantime.     *)
(* (A list that was cut to MAX_LIVE_RECORDS has lost its oldest entries.)    *)
ReconnectLeavesNoGap ==
  recovered # 0 /\ logWire = <<>> /\ queued = <<>> /\ Len(records) < MaxLive =>
    \A k \in recovered..length[instance] : <<instance, k>> \in Range(records)

===============================================================================
