--------------------------------- MODULE LogStore ---------------------------------
(***************************************************************************)
(* The log directory of one instance: <day>.jsonl for the day in use,      *)
(* <day>.jsonl.gz for a closed day.  Appends, rotations and reads run one  *)
(* at a time on the store's promise chain, so the only thing that          *)
(* interleaves with the file operations of a job is the world: a crash, a  *)
(* failing operation, the clock, the timer, close().                       *)
(*                                                                         *)
(* Compressing a day makes the archive under a temporary name, renames it  *)
(* into place and then removes the plain file; a crash or a failure        *)
(* between the two leaves both.  A day that the clock brings back has an   *)
(* archive and a plain file with what came later.                          *)
(*                                                                         *)
(* An append that waits on the chain is one that has not begun: which      *)
(* waits is not kept.  A reader pages through the history while all this   *)
(* goes on.  Entry contents, redaction and the gzip format are left out.   *)
(* An append writes its line or fails: the partial line a crash may leave  *)
(* is left out.                                                            *)
(***************************************************************************)
EXTENDS Naturals, Sequences, FiniteSets

CONSTANTS
  MaxDay,        \* bound: the last day of the calendar
  MaxEntries,    \* bound: entries that are written
  MaxFaults,     \* bound: crashes and failed file operations
  MaxRollbacks,  \* bound: times the clock or a late timer takes the store back a day
  Limit,         \* entries on a page
  NoFile, NoDay, NoReader

Day   == 1..MaxDay
Entry == 1..MaxEntries

ASSUME LogAssumption ==
  /\ MaxDay \in Nat \ {0} /\ MaxEntries \in Nat /\ Limit \in Nat \ {0}
  /\ MaxFaults \in Nat /\ MaxRollbacks \in Nat
  /\ NoDay \notin Day /\ NoFile \notin Seq(Entry)

VARIABLES
  plain,      \* <day>.jsonl
  gz,         \* <day>.jsonl.gz
  activeDay,  \* the day the store writes to
  job,        \* the work at the head of the chain and how far it is
  fired,      \* the day the rotation timer saw when it fired, until its job runs
  closed,     \* close() was called, or the process is not there
  clock,      \* the day it is
  written,    \* history: entries written so far, which also names them
  faults,     \* history: crashes and failed operations so far
  rollbacks,  \* history: times the clock, or a timer that was late, went back
  reader      \* somebody who pages back through the history

storeVars == <<plain, gz, activeDay, job, fired, closed, clock, written, faults, rollbacks, reader>>

world == <<clock, rollbacks>>

\* A job compresses the days in todo, enters its day, and writes some entries there.
Job == [kind : {"start", "append", "rotate"}, day : Day, stage : {"compress", "unlink", "write"},
        todo : SUBSET Day, writes : Nat]
NoJob == [kind |-> "none"]

Position == [day : Day, line : Nat]

StoreTypeOK ==
  /\ plain \in [Day -> Seq(Entry) \cup {NoFile}]
  /\ gz \in [Day -> Seq(Entry) \cup {NoFile}]
  /\ activeDay \in Day
  /\ job \in Job \cup {NoJob}
  /\ fired \in Day \cup {NoDay}
  /\ closed \in BOOLEAN /\ clock \in Day
  /\ written \in 0..MaxEntries /\ faults \in 0..MaxFaults /\ rollbacks \in 0..MaxRollbacks
  /\ reader = NoReader \/ reader \in
       [existing : SUBSET Entry, read : SUBSET Entry, twice : BOOLEAN, before : Position, more : BOOLEAN]

StoreInit ==
  /\ plain = [d \in Day |-> NoFile] /\ gz = [d \in Day |-> NoFile]
  /\ activeDay = 1 /\ clock = 1
  /\ job = NoJob /\ fired = NoDay /\ closed = FALSE
  /\ written = 0 /\ faults = 0 /\ rollbacks = 0
  /\ reader = NoReader

--------------------------------------------------------------------------------

Content(file) == IF file = NoFile THEN <<>> ELSE file

\* What is read of a day: the archive first, then the plain file.
Lines(d) == Content(gz[d]) \o Content(plain[d])

Earliest(S) == CHOOSE d \in S : \A e \in S : d <= e

\* Plain files of the days before the one that is entered.
ClosedBefore(day) == {d \in Day : plain[d] # NoFile /\ d < day}

Entering(kind, day, writes) ==
  [kind |-> kind, day |-> day, stage |-> "compress", todo |-> ClosedBefore(day), writes |-> writes]

GoesBack == rollbacks < MaxRollbacks /\ rollbacks' = rollbacks + 1

(* The head of the chain *)

\* rotateIfNeeded writes one notice, and then the append itself one entry.
BeginAppend ==
  /\ job = NoJob /\ ~closed
  /\ job' = IF clock = activeDay
            THEN [kind |-> "append", day |-> clock, stage |-> "write", todo |-> {}, writes |-> 1]
            ELSE Entering("append", clock, 2)
  /\ UNCHANGED <<plain, gz, activeDay, fired, closed, written, faults, reader, world>>

\* The timer's own job takes the day it saw when it fired.  An append that was
\* queued before it may have entered a later day since: then it leads back.
BeginRotation ==
  /\ job = NoJob /\ fired # NoDay
  /\ fired' = NoDay
  /\ job' = IF fired = activeDay THEN NoJob ELSE Entering("rotate", fired, 1)
  /\ IF fired < activeDay THEN GoesBack ELSE UNCHANGED rollbacks
  /\ UNCHANGED <<plain, gz, activeDay, closed, written, faults, reader, clock>>

\* scheduleNextRotation: one timer at a time, at midnight by its own count.
TimerFires ==
  /\ ~closed /\ fired = NoDay /\ job.kind # "rotate"
  /\ fired' = clock
  /\ UNCHANGED <<plain, gz, activeDay, job, closed, written, faults, reader, world>>

--------------------------------------------------------------------------------
(* compressClosedDays, the earliest day first; a compressed day earns a notice. *)

Compressing(d) == job.kind # "none" /\ job.stage = "compress" /\ job.todo # {} /\ d = Earliest(job.todo)

DayDone(d)       == job' = [job EXCEPT !.stage = "compress", !.todo = @ \ {d}, !.writes = @ + 1]
DayLeft(d)       == job' = [job EXCEPT !.todo = @ \ {d}]

\* createCompressedFile: the archive appears whole, then the plain file goes.
MakeArchive(d) ==
  /\ Compressing(d) /\ gz[d] = NoFile
  /\ gz' = [gz EXCEPT ![d] = plain[d]]
  /\ job' = [job EXCEPT !.stage = "unlink"]
  /\ UNCHANGED <<plain, activeDay, fired, closed, written, faults, reader, world>>

RemovePlain ==
  /\ job.kind # "none" /\ job.stage = "unlink"
  /\ LET d == Earliest(job.todo) IN plain' = [plain EXCEPT ![d] = NoFile] /\ DayDone(d)
  /\ UNCHANGED <<gz, activeDay, fired, closed, written, faults, reader, world>>

\* Faulty variants: an archive that exists is taken for a copy; and never for one.
AlwaysCopy(d) == gz[d] # NoFile
NeverCopy(d)  == FALSE

\* compressFile: an archive that exists must hold the same bytes.
IsCopy(d) == gz[d] = plain[d]

RemoveCopy(d) ==
  /\ Compressing(d) /\ gz[d] # NoFile /\ IsCopy(d)
  /\ plain' = [plain EXCEPT ![d] = NoFile]
  /\ DayDone(d)
  /\ UNCHANGED <<gz, activeDay, fired, closed, written, faults, reader, world>>

KeepBoth(d) ==
  /\ Compressing(d) /\ gz[d] # NoFile /\ ~IsCopy(d)
  /\ DayLeft(d)
  /\ UNCHANGED <<plain, gz, activeDay, fired, closed, written, faults, reader, world>>

\* Faulty variant: a start goes on to write, as an append does.
EnterDayWrites ==
  /\ job.kind # "none" /\ job.stage = "compress" /\ job.todo = {}
  /\ activeDay' = job.day
  /\ job' = [job EXCEPT !.stage = "write"]
  /\ UNCHANGED <<plain, gz, fired, closed, written, faults, reader, world>>

\* Every closed day was tried: the store enters the day of the job.
EnterDay ==
  /\ job.kind # "none" /\ job.stage = "compress" /\ job.todo = {}
  /\ activeDay' = job.day
  /\ job' = IF job.writes = 0 THEN NoJob ELSE [job EXCEPT !.stage = "write"]
  /\ UNCHANGED <<plain, gz, fired, closed, written, faults, reader, world>>

WriteEntry ==
  /\ job.kind # "none" /\ job.stage = "write" /\ written < MaxEntries
  /\ written' = written + 1
  /\ plain' = [plain EXCEPT ![job.day] = Append(Content(@), written + 1)]
  /\ job' = IF job.writes = 1 THEN NoJob ELSE [job EXCEPT !.writes = @ - 1]
  /\ UNCHANGED <<gz, activeDay, fired, closed, faults, reader, world>>

--------------------------------------------------------------------------------
(* What goes wrong *)

Fault == faults < MaxFaults /\ faults' = faults + 1

\* A failed gzip, rename, unlink or append rejects the job; index.ts closes every
\* store when one rejects its start (what a POST /api/bots leaves open is not modelled).
JobFails ==
  /\ Fault
  /\ job.kind # "none" /\ ~(job.stage = "compress" /\ job.todo = {})
  /\ job' = NoJob
  /\ closed' = (closed \/ job.kind = "start")
  /\ UNCHANGED <<plain, gz, activeDay, fired, written, reader, world>>

\* A failure while an archive is compared or its copy removed is caught: both stay.
CompareFails(d) ==
  /\ Fault
  /\ Compressing(d) /\ gz[d] # NoFile
  /\ DayLeft(d)
  /\ UNCHANGED <<plain, gz, activeDay, fired, closed, written, reader, world>>

Crash ==
  /\ Fault
  /\ job' = NoJob /\ fired' = NoDay /\ closed' = TRUE
  /\ UNCHANGED <<plain, gz, activeDay, written, reader, world>>

\* The timer goes; work that is on the chain already is still done.
Close ==
  /\ ~closed
  /\ closed' = TRUE
  /\ UNCHANGED <<plain, gz, activeDay, job, fired, written, faults, reader, world>>

\* A new LogStore on the same directory, once the old one has come to rest.
Open ==
  /\ closed /\ job = NoJob /\ fired = NoDay
  /\ closed' = FALSE /\ activeDay' = clock
  /\ job' = Entering("start", clock, 0)
  /\ UNCHANGED <<plain, gz, fired, written, faults, reader, world>>

Midnight ==
  /\ clock < MaxDay
  /\ clock' = clock + 1
  /\ UNCHANGED <<plain, gz, activeDay, job, fired, closed, written, faults, rollbacks, reader>>

ClockSetBack ==
  /\ clock > 1 /\ GoesBack
  /\ clock' = clock - 1
  /\ UNCHANGED <<plain, gz, activeDay, job, fired, closed, written, faults, reader>>

--------------------------------------------------------------------------------
(* readRecent: a cursor is a day and a physical line of that day. *)

Positions == {p \in [day : Day, line : 1..(2 * MaxEntries)] : p.line <= Len(Lines(p.day))}

IsBefore(p, q) == p.day < q.day \/ (p.day = q.day /\ p.line < q.line)

\* The newest Limit records of a set of positions.
Page(S) == {p \in S : Cardinality({q \in S : IsBefore(p, q)}) < Limit}

Oldest(page) == CHOOSE p \in page : \A q \in page \ {p} : IsBefore(p, q)

EntriesAt(S) == {Lines(p.day)[p.line] : p \in S}

\* Faulty variant: only the days before the cursor's are left.
OlderDays(before) == {p \in Positions : p.day < before.day}

Older(before) == {p \in Positions : IsBefore(p, before)}

\* The client starts from the newest page, and remembers what there was.
ReadNewest ==
  /\ job = NoJob /\ reader = NoReader /\ Positions # {}
  /\ LET page == Page(Positions) IN
       reader' = [existing |-> EntriesAt(Positions), read |-> EntriesAt(page),
                  twice |-> Cardinality(EntriesAt(page)) # Cardinality(page),
                  before |-> Oldest(page), more |-> page # Positions]
  /\ UNCHANGED <<plain, gz, activeDay, job, fired, closed, written, faults, world>>

\* The next, older page; there may be nothing on it.
ReadOlder ==
  /\ job = NoJob /\ reader # NoReader
  /\ reader.more
  /\ LET rest == Older(reader.before)
         page == Page(rest)
         new  == EntriesAt(page)
     IN  reader' = [reader EXCEPT
           !.read = @ \cup new,
           !.twice = @ \/ Cardinality(new) # Cardinality(page) \/ new \cap reader.read # {},
           !.before = IF page = {} THEN @ ELSE Oldest(page),
           !.more = page # rest]
  /\ UNCHANGED <<plain, gz, activeDay, job, fired, closed, written, faults, world>>

--------------------------------------------------------------------------------

Work ==
  \/ BeginAppend \/ BeginRotation
  \/ \E d \in Day : MakeArchive(d) \/ RemoveCopy(d) \/ KeepBoth(d)
  \/ RemovePlain \/ EnterDay \/ WriteEntry

StoreNext ==
  \/ Work
  \/ TimerFires \/ Open \/ Close \/ ReadNewest \/ ReadOlder
  \/ JobFails \/ (\E d \in Day : CompareFails(d)) \/ Crash
  \/ Midnight \/ ClockSetBack

StoreSpec == StoreInit /\ [][StoreNext]_storeVars

--------------------------------------------------------------------------------
(* A day's entries, each counted once: a plain file that begins with what   *)
(* the archive holds is its leftover, perhaps with more behind.             *)
Recorded(d) ==
  LET a == Content(gz[d])
      b == Content(plain[d])
  IN  IF Len(a) <= Len(b) /\ SubSeq(b, 1, Len(a)) = a THEN b ELSE a \o b

Kept == INSTANCE Journal WITH days <- [d \in Day |-> Recorded(d)]

(* ImplementsJournal: whatever crashes or fails between the steps of a      *)
(* rotation, and whatever the clock does, no entry that was written is ever *)
(* deleted, changed or moved: the two files of a day always hold them all.  *)
ImplementsJournal == Kept!Spec

(* ClosedDaysReadOnce: a single mishap (a crash anywhere, a failed file     *)
(* operation, the clock set back over midnight, or a rotation that comes    *)
(* late) never makes a day before the active one show an entry twice: the   *)
(* next start or rotation finds the plain file left over, and it is a copy. *)
ClosedDaysReadOnce ==
  job = NoJob /\ ~closed /\ faults + rollbacks <= 1 =>
    \A d \in Day : d < activeDay =>
      \A i, j \in DOMAIN Lines(d) : Lines(d)[i] = Lines(d)[j] => i = j

(* PagesAreStable: a client that pages back by cursor while entries are     *)
(* appended and days are rotated and compressed has seen, at the end, every *)
(* entry there was when it began; and none of them twice, unless a crash or *)
(* a failure has left a day in two files.                                   *)
PagesAreStable ==
  reader # NoReader =>
    /\ ~reader.more => reader.existing \subseteq reader.read
    /\ faults = 0 => ~reader.twice

===============================================================================
