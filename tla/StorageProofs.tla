------------------------------ MODULE StorageProofs ------------------------------
(***************************************************************************)
(* Theorems about the log store, and about the storage of an instance.     *)
(*                                                                         *)
(* The argument has three layers.  BaseInv says what the files and the job *)
(* are; from it, every step leaves the record of every day as it is or     *)
(* writes the next entry of one, which is the Journal.  ReadInv adds that  *)
(* no entry is recorded twice, that without a fault a day is in two files  *)
(* only between the rename and the unlink, and where the cursor of a       *)
(* reader stands between what it has seen and what it has not.  ClosedInv  *)
(* follows one mishap: what it leaves behind is a copy that the next start *)
(* or rotation has on its list.                                            *)
(***************************************************************************)
EXTENDS Storage, ChatServicesProofs, WellFoundedInduction, FiniteSetTheorems, SequenceTheorems

--------------------------------------------------------------------------------
(* The inductive invariants *)

Working == job.kind # "none"

\* A job compresses plain files of the days before its own; what it is about to
\* remove it has just archived; and it has something to write when it writes.
JobInv ==
  Working =>
    /\ \A d \in job.todo : plain[d] # NoFile /\ d < job.day
    /\ job.stage = "unlink" => job.todo # {} /\ gz[Earliest(job.todo)] = plain[Earliest(job.todo)]
    /\ job.stage = "write" => job.writes > 0 /\ job.todo = {}

\* Every file holds entries that were written, and no more of them.
Past(file) == Len(Content(file)) <= written /\ \A k \in DOMAIN Content(file) : Content(file)[k] <= written

PastInv == \A d \in Day : Past(plain[d]) /\ Past(gz[d])

\* No entry is in the journal twice.
JournalInv ==
  \A d, e \in Day : \A i \in DOMAIN Recorded(d), j \in DOMAIN Recorded(e) :
    Recorded(d)[i] = Recorded(e)[j] => d = e /\ i = j

\* The archive of a day is (the beginning of) its plain file.
Copied(d) ==
  LET a == Content(gz[d])
      b == Content(plain[d])
  IN  a # <<>> /\ Len(a) <= Len(b) /\ SubSeq(b, 1, Len(a)) = a

\* Without a fault, only between the rename and the unlink.
CleanInv ==
  faults = 0 => \A d \in Day : Copied(d) => Working /\ job.stage = "unlink" /\ d = Earliest(job.todo)

\* What the reader has not seen is older than its cursor.
UnreadInv ==
  reader # NoReader =>
    \A e \in reader.existing \ reader.read :
      reader.more /\ \E p \in Positions : IsBefore(p, reader.before) /\ Lines(p.day)[p.line] = e

\* Without a fault, what it has seen is not.
SeenInv ==
  reader # NoReader /\ faults = 0 =>
    /\ ~reader.twice
    /\ \A e \in reader.read : \E d \in Day : \E k \in DOMAIN Recorded(d) :
         ~IsBefore([day |-> d, line |-> k], reader.before) /\ Recorded(d)[k] = e

ReaderInv == UnreadInv /\ SeenInv

\* As long as time goes on, so does the store.
ForwardInv ==
  rollbacks = 0 =>
    /\ activeDay <= clock
    /\ fired # NoDay => fired <= clock
    /\ \A d \in Day : plain[d] # NoFile => d <= activeDay
    /\ Working => /\ activeDay <= job.day /\ job.day <= clock
                  /\ job.stage = "write" \/ job.kind = "start" => job.day = activeDay

\* Without any mishap, a day has two files only between the rename and the unlink;
\* a day before the active one has a plain file only until a start has archived it;
\* a job has every plain file of the days before its own still on its list.
TidyInv ==
  faults = 0 /\ rollbacks = 0 =>
    \A d \in Day :
      /\ gz[d] # NoFile => d < activeDay \/ (Working /\ job.stage # "write" /\ d < job.day)
      /\ gz[d] # NoFile /\ plain[d] # NoFile => Working /\ job.stage = "unlink" /\ d = Earliest(job.todo)
      /\ plain[d] # NoFile /\ d < activeDay
           => Working /\ job.kind = "start" /\ job.stage # "write" /\ d \in job.todo
      /\ Working /\ job.stage # "write" /\ plain[d] # NoFile /\ d < job.day => d \in job.todo

\* After one fault, what was left over is a copy, and the next start or rotation
\* has it on its list before the store enters another day.
LeftoverInv ==
  faults <= 1 /\ rollbacks = 0 =>
    \A d \in Day : Copied(d) =>
      /\ gz[d] = plain[d] /\ d < clock
      /\ Working => job.stage # "write" /\ d \in job.todo
      /\ ~Working => closed \/ d = activeDay

--------------------------------------------------------------------------------
(* Least elements, and the two files of a day *)

\* A set of naturals has a least element.
LEMMA LeastNatural ==
  ASSUME NEW S \in SUBSET Nat, S # {}
  PROVE  \E n \in S : \A m \in S : n <= m
<1> DEFINE R == OpToRel(<, Nat)
<1>1. IsWellFoundedOn(R, Nat)
  BY NatLessThanWellFounded
<1>2. \A m, n \in Nat : m < n => <<m, n>> \in R
  BY DEF OpToRel
<1> HIDE DEF R
<1>3. PICK n \in S : \A m \in S : ~(<<m, n>> \in R)
  BY <1>1, WFMin
<1>4. ASSUME NEW m \in S PROVE n <= m
  <2>1. m \in Nat /\ n \in Nat
    OBVIOUS
  <2>2. ~(m < n)
    BY <1>2, <1>3, <2>1
  <2> QED
    BY <2>1, <2>2
<1> QED
  BY <1>4

\* The day a job compresses next is one of those on its list.
LEMMA EarliestIsFirst ==
  ASSUME NEW S \in SUBSET Day, S # {}
  PROVE  Earliest(S) \in S /\ \A d \in S : Earliest(S) <= d
<1>1. S \in SUBSET Nat
  BY DEF Day
<1>2. \E d \in S : \A e \in S : d <= e
  BY <1>1, LeastNatural
<1> QED
  BY <1>2 DEF Earliest

\* What is read of an archive and a plain file that share a beginning.
Merged(a, b) == IF Len(a) <= Len(b) /\ SubSeq(b, 1, Len(a)) = a THEN b ELSE a \o b

\* A beginning, entry by entry.
LEMMA PrefixByEntry ==
  ASSUME NEW a \in Seq(Entry), NEW b \in Seq(Entry), Len(a) <= Len(b)
  PROVE  SubSeq(b, 1, Len(a)) = a <=> \A k \in 1..Len(a) : b[k] = a[k]
<1>1. Len(a) \in Nat /\ Len(b) \in Nat /\ \A k \in 1..Len(a) : b[k] \in Entry
  OBVIOUS
<1>2. /\ SubSeq(b, 1, Len(a)) \in Seq(Entry) /\ Len(SubSeq(b, 1, Len(a))) = Len(a)
      /\ \A k \in 1..Len(a) : SubSeq(b, 1, Len(a))[k] = b[k]
  BY <1>1, SubSeqProperties
<1> QED
  BY <1>2, SeqEqual

\* The cases in which the two files hold one record.
LEMMA MergedFiles ==
  ASSUME NEW a \in Seq(Entry)
  PROVE  Merged(a, a) = a /\ Merged(<<>>, a) = a /\ Merged(a, <<>>) = a
<1>1. Merged(a, a) = a
  BY PrefixByEntry DEF Merged
<1>2. <<>> \in Seq(Entry) /\ Len(<<>>) = 0 /\ Len(a) \in Nat
  OBVIOUS
<1>3. Merged(<<>>, a) = a
  BY <1>2, PrefixByEntry DEF Merged
<1>4. Merged(a, <<>>) = a
  <2>1. CASE a = <<>>
    BY <1>1, <2>1
  <2>2. CASE a # <<>>
    <3>1. ~(Len(a) <= Len(<<>>))
      BY <1>2, <2>2
    <3>2. a \o <<>> = a
      BY ConcatEmptySeq
    <3> QED
      BY <3>1, <3>2 DEF Merged
  <2> QED
    BY <2>1, <2>2
<1> QED
  BY <1>1, <1>3, <1>4

\* A new entry in the plain file is the next entry of the record.
LEMMA MergedGrows ==
  ASSUME NEW a \in Seq(Entry), NEW b \in Seq(Entry), NEW e \in Entry,
         \A k \in 1..Len(a) : a[k] # e
  PROVE  /\ Merged(a, Append(b, e)) = Append(Merged(a, b), e)
         /\ Merged(a, b) \in Seq(Entry)
         /\ (Len(a) <= Len(Append(b, e)) /\ SubSeq(Append(b, e), 1, Len(a)) = a)
              <=> (Len(a) <= Len(b) /\ SubSeq(b, 1, Len(a)) = a)
<1> DEFINE c == Append(b, e)
<1>1. /\ c \in Seq(Entry) /\ Len(c) = Len(b) + 1 /\ c[Len(b) + 1] = e
      /\ \A k \in 1..Len(b) : c[k] = b[k]
      /\ Len(a) \in Nat /\ Len(b) \in Nat
  BY AppendProperties
<1> HIDE DEF c
<1>2. CASE Len(a) <= Len(b)
  <2>1. Len(a) <= Len(c) /\ \A k \in 1..Len(a) : k \in 1..Len(b)
    BY <1>1, <1>2
  <2>2. (\A k \in 1..Len(a) : c[k] = a[k]) <=> (\A k \in 1..Len(a) : b[k] = a[k])
    BY <1>1, <2>1
  <2>3. SubSeq(c, 1, Len(a)) = a <=> SubSeq(b, 1, Len(a)) = a
    BY <1>1, <1>2, <2>1, <2>2, PrefixByEntry
  <2>4. a \o c = Append(a \o b, e)
    BY DEF c
  <2> QED
    BY <1>1, <1>2, <2>1, <2>3, <2>4 DEF Merged, c
<1>3. CASE ~(Len(a) <= Len(b))
  <2>1. ~(Len(a) <= Len(c) /\ SubSeq(c, 1, Len(a)) = a)
    <3>1. CASE Len(a) <= Len(c)
      <4>1. Len(a) = Len(b) + 1 /\ Len(a) \in 1..Len(a)
        BY <1>1, <1>3, <3>1
      <4>2. c[Len(a)] # a[Len(a)]
        BY <1>1, <4>1
      <4> QED
        BY <1>1, <3>1, <4>1, <4>2, PrefixByEntry
    <3> QED
      BY <3>1
  <2>2. a \o c = Append(a \o b, e)
    BY DEF c
  <2> QED
    BY <1>1, <1>3, <2>1, <2>2 DEF Merged, c
<1> QED
  BY <1>2, <1>3

--------------------------------------------------------------------------------
(* Pages of the history *)

\* Some position of a set is before all others of it.
LEMMA OldestIsFirst ==
  ASSUME NEW S \in SUBSET Position, S # {}
  PROVE  Oldest(S) \in S /\ \A q \in S \ {Oldest(S)} : IsBefore(Oldest(S), q)
<1>1. \A p \in S : p \in Position /\ p.day \in Nat /\ p.line \in Nat
  BY DEF Position, Day
<1>2. PICK d \in {p.day : p \in S} : \A e \in {p.day : p \in S} : d <= e
  <2>1. {p.day : p \in S} \in SUBSET Nat /\ {p.day : p \in S} # {}
    BY <1>1
  <2> QED
    BY <2>1, LeastNatural
<1>3. PICK l \in {p.line : p \in {q \in S : q.day = d}} :
        \A k \in {p.line : p \in {q \in S : q.day = d}} : l <= k
  <2>1. {p.line : p \in {q \in S : q.day = d}} \in SUBSET Nat /\ {p.line : p \in {q \in S : q.day = d}} # {}
    BY <1>1, <1>2
  <2> QED
    BY <2>1, LeastNatural
<1>4. PICK p \in S : p.day = d /\ p.line = l
  BY <1>3
<1>5. ASSUME NEW q \in S, q # p PROVE IsBefore(p, q)
  <2>1. d <= q.day /\ (q.day = d => l <= q.line)
    BY <1>2, <1>3
  <2>2. q.day = d => q.line # l
    BY <1>1, <1>4, <1>5 DEF Position
  <2> QED
    BY <1>1, <1>4, <2>1, <2>2 DEF IsBefore
<1> QED
  BY <1>5 DEF Oldest

\* Positions are in one order.
LEMMA OneOrder ==
  ASSUME NEW p \in Position, NEW q \in Position
  PROVE  /\ p = q \/ IsBefore(p, q) \/ IsBefore(q, p)
         /\ ~IsBefore(p, p)
         /\ \A r \in Position : IsBefore(p, q) /\ IsBefore(q, r) => IsBefore(p, r)
<1>1. p.day \in Nat /\ p.line \in Nat /\ q.day \in Nat /\ q.line \in Nat
  BY DEF Position, Day
<1>2. p.day = q.day /\ p.line = q.line => p = q
  BY DEF Position
<1>3. \A r \in Position : r.day \in Nat /\ r.line \in Nat
  BY DEF Position, Day
<1> QED
  BY <1>1, <1>2, <1>3 DEF IsBefore

\* The page is not empty when there is something to read, and what is not on it is
\* before all that is.
LEMMA PageIsNewest ==
  ASSUME NEW S \in SUBSET Position, IsFiniteSet(S)
  PROVE  /\ Page(S) \subseteq S
         /\ S # {} => Page(S) # {}
         /\ \A p \in S \ Page(S), q \in Page(S) : IsBefore(p, q)
<1> DEFINE After(p) == {q \in S : IsBefore(p, q)}
<1>1. ASSUME NEW p \in S PROVE IsFiniteSet(After(p)) /\ Cardinality(After(p)) \in Nat
  <2>1. After(p) \in SUBSET S
    OBVIOUS
  <2> QED
    BY <2>1, FS_Subset, FS_CardinalityType
<1>2. ASSUME NEW p \in S, NEW q \in S, IsBefore(p, q)
      PROVE  After(q) \subseteq After(p) /\ q \in After(p) /\ q \notin After(q)
    <2>1. p \in Position /\ q \in Position
      OBVIOUS
    <2>2. \A r \in S : IsBefore(q, r) => IsBefore(p, r)
      BY <1>2, <2>1, OneOrder
    <2> QED
      BY <1>2, <2>1, <2>2, OneOrder
<1>3. ASSUME NEW p \in S, NEW q \in S, IsBefore(p, q)
      PROVE  Cardinality(After(q)) < Cardinality(After(p))
  <2>1. IsFiniteSet(After(p)) /\ After(q) \in SUBSET After(p) /\ After(q) # After(p)
    BY <1>1, <1>2, <1>3
  <2>2. Cardinality(After(q)) <= Cardinality(After(p)) /\ Cardinality(After(q)) # Cardinality(After(p))
    BY <2>1, FS_Subset
  <2> QED
    BY <1>1, <2>2
<1>4. Page(S) = {p \in S : Cardinality(After(p)) < Limit}
  BY DEF Page
<1> HIDE DEF After
<1>5. Limit \in Nat \ {0}
  BY LogAssumption
<1>6. S # {} => Page(S) # {}
  <2> SUFFICES ASSUME S # {} PROVE Page(S) # {}
    OBVIOUS
  <2>1. {Cardinality(After(p)) : p \in S} \in SUBSET Nat /\ {Cardinality(After(p)) : p \in S} # {}
    BY <1>1
  <2>2. PICK n \in {Cardinality(After(p)) : p \in S} : \A m \in {Cardinality(After(p)) : p \in S} : n <= m
    BY <2>1, LeastNatural
  <2>3. PICK p \in S : n = Cardinality(After(p))
    BY <2>2
  <2>4. \A q \in S : ~IsBefore(p, q)
    <3> SUFFICES ASSUME NEW q \in S, IsBefore(p, q) PROVE FALSE
      OBVIOUS
    <3>1. Cardinality(After(q)) < n /\ n <= Cardinality(After(q))
      BY <1>3, <2>2, <2>3
    <3> QED
      BY <1>1, <2>3, <3>1
  <2>5. Cardinality(After(p)) = 0
    BY <2>4, FS_EmptySet DEF After
  <2> QED
    BY <1>4, <1>5, <2>3, <2>5
<1>7. ASSUME NEW p \in S \ Page(S), NEW q \in Page(S) PROVE IsBefore(p, q)
  <2>1. p \in S /\ q \in S /\ p \in Position /\ q \in Position /\ p # q
    BY <1>4
  <2>2. ~IsBefore(q, p)
    <3> SUFFICES ASSUME IsBefore(q, p) PROVE FALSE
      OBVIOUS
    <3>1. Cardinality(After(p)) < Cardinality(After(q)) /\ Cardinality(After(q)) < Limit
      BY <1>3, <1>4, <2>1
    <3>2. Cardinality(After(p)) < Limit
      BY <1>1, <1>5, <2>1, <3>1
    <3> QED
      BY <1>4, <2>1, <3>2
  <2> QED
    BY <2>1, <2>2, OneOrder
<1> QED
  BY <1>4, <1>6, <1>7

--------------------------------------------------------------------------------
(* Types, and what a job is about *)

BaseInv == StoreTypeOK /\ JobInv /\ PastInv

\* What is in a file.
LEMMA Contents ==
  ASSUME StoreTypeOK, PastInv, NEW d \in Day
  PROVE  /\ \A file \in {plain[d], gz[d]} :
              /\ Content(file) \in Seq(Entry) /\ Len(Content(file)) \in Nat
              /\ Content(file) \in [1..Len(Content(file)) -> Entry]
              /\ Len(Content(file)) <= written
              /\ \A k \in 1..Len(Content(file)) : Content(file)[k] <= written
              /\ file # NoFile => Content(file) = file
         /\ Lines(d) \in Seq(Entry) /\ Len(Lines(d)) = Len(Content(gz[d])) + Len(Content(plain[d]))
         /\ \A k \in 1..Len(Lines(d)) :
              Lines(d)[k] = IF k <= Len(Content(gz[d])) THEN Content(gz[d])[k]
                            ELSE Content(plain[d])[k - Len(Content(gz[d]))]
         /\ Recorded(d) = Merged(Content(gz[d]), Content(plain[d]))
<1>1. \A file \in {plain[d], gz[d]} :
        /\ Content(file) \in Seq(Entry)
        /\ file # NoFile => Content(file) = file
        /\ Past(file)
  BY DEF StoreTypeOK, PastInv, Content
<1>2. \A file \in {plain[d], gz[d]} :
        /\ Len(Content(file)) \in Nat
        /\ Content(file) \in [1..Len(Content(file)) -> Entry]
  BY <1>1
<1>3. \A file \in {plain[d], gz[d]} :
        /\ Len(Content(file)) <= written
        /\ \A k \in 1..Len(Content(file)) : Content(file)[k] <= written
  BY <1>1, <1>2 DEF Past
<1>4. /\ Lines(d) \in Seq(Entry) /\ Len(Lines(d)) = Len(Content(gz[d])) + Len(Content(plain[d]))
      /\ \A k \in 1..Len(Lines(d)) :
           Lines(d)[k] = IF k <= Len(Content(gz[d])) THEN Content(gz[d])[k]
                         ELSE Content(plain[d])[k - Len(Content(gz[d]))]
  BY <1>1, ConcatProperties DEF Lines
<1>5. Recorded(d) = Merged(Content(gz[d]), Content(plain[d]))
  BY DEF Recorded, Merged
<1> QED
  BY <1>1, <1>2, <1>3, <1>4, <1>5

\* The positions are the lines there are, and they are not many.
LEMMA PositionsAre ==
  ASSUME StoreTypeOK, PastInv
  PROVE  /\ Positions \in SUBSET Position /\ IsFiniteSet(Positions)
         /\ \A d \in Day : \A k \in 1..Len(Lines(d)) :
              [day |-> d, line |-> k] \in Positions
         /\ \A p \in Positions : p.day \in Day /\ p.line \in 1..Len(Lines(p.day))
                                 /\ Lines(p.day)[p.line] \in Entry
<1> DEFINE Lns == 1..(2 * MaxEntries)
<1>1. MaxEntries \in Nat /\ MaxDay \in Nat /\ written \in Nat /\ written <= MaxEntries
  BY LogAssumption DEF StoreTypeOK
<1>2. \A d \in Day : Len(Lines(d)) \in Nat /\ Len(Lines(d)) <= 2 * MaxEntries
                     /\ \A k \in 1..Len(Lines(d)) : Lines(d)[k] \in Entry
  <2> SUFFICES ASSUME NEW d \in Day
               PROVE  Len(Lines(d)) \in Nat /\ Len(Lines(d)) <= 2 * MaxEntries
                      /\ \A k \in 1..Len(Lines(d)) : Lines(d)[k] \in Entry
    OBVIOUS
  <2>1. /\ Len(Lines(d)) = Len(Content(gz[d])) + Len(Content(plain[d]))
        /\ Len(Content(gz[d])) \in Nat /\ Len(Content(plain[d])) \in Nat
        /\ Len(Content(gz[d])) <= written /\ Len(Content(plain[d])) <= written
        /\ Lines(d) \in Seq(Entry)
    BY Contents
  <2> QED
    BY <1>1, <2>1
<1>3. IsFiniteSet([day : Day, line : Lns])
  <2>1. IsFiniteSet(Day) /\ IsFiniteSet(Lns)
    BY <1>1, FS_Interval DEF Day
  <2>2. IsFiniteSet(Day \X Lns)
    BY <2>1, FS_Product
  <2> DEFINE f == [x \in Day \X Lns |-> [day |-> x[1], line |-> x[2]]]
  <2>3. f \in [Day \X Lns -> [day : Day, line : Lns]]
    OBVIOUS
  <2>4. ASSUME NEW p \in [day : Day, line : Lns]
        PROVE  \E x \in Day \X Lns : f[x] = p
    <3>1. <<p.day, p.line>> \in Day \X Lns /\ f[<<p.day, p.line>>] = p
      OBVIOUS
    <3> QED
      BY <3>1
  <2>5. f \in Surjection(Day \X Lns, [day : Day, line : Lns])
    BY <2>3, <2>4 DEF Surjection
  <2> QED
    BY <2>2, <2>5, FS_Surjection
<1>4. Positions \in SUBSET [day : Day, line : Lns]
  BY DEF Positions
<1>5. Lns \subseteq Nat
  BY <1>1
<1>6. Positions \in SUBSET Position
  BY <1>4, <1>5 DEF Position
<1>7. IsFiniteSet(Positions)
  BY <1>3, <1>4, FS_Subset
<1>8. ASSUME NEW d \in Day, NEW k \in 1..Len(Lines(d))
      PROVE  [day |-> d, line |-> k] \in Positions
  <2>1. k \in Lns
    BY <1>1, <1>2
  <2> QED
    BY <1>2, <2>1 DEF Positions
<1>9. ASSUME NEW p \in Positions
      PROVE  p.day \in Day /\ p.line \in 1..Len(Lines(p.day)) /\ Lines(p.day)[p.line] \in Entry
  <2>1. p.day \in Day /\ p.line \in Lns /\ p.line <= Len(Lines(p.day))
    BY DEF Positions
  <2> QED
    BY <1>1, <1>2, <2>1
<1> QED
  BY <1>6, <1>7, <1>8, <1>9

\* A job that begins has the plain files of the days before its own to compress.
LEMMA EnteringIsJob ==
  ASSUME StoreTypeOK, NEW kind \in {"start", "append", "rotate"}, NEW day \in Day, NEW writes \in Nat
  PROVE  /\ Entering(kind, day, writes) \in Job /\ Entering(kind, day, writes).kind = kind
         /\ Entering(kind, day, writes).day = day /\ Entering(kind, day, writes).stage = "compress"
         /\ Entering(kind, day, writes).todo = ClosedBefore(day)
         /\ \A d \in Day : d \in ClosedBefore(day) <=> plain[d] # NoFile /\ d < day
BY DEF Entering, Job, ClosedBefore

\* What a job at work is.
LEMMA JobIs ==
  ASSUME StoreTypeOK
  PROVE  /\ Working => /\ job \in Job /\ job.kind \in {"start", "append", "rotate"} /\ job.day \in Day
                       /\ job.stage \in {"compress", "unlink", "write"} /\ job.writes \in Nat
                       /\ job.todo \in SUBSET Day
         /\ Working <=> job # NoJob
BY DEF StoreTypeOK, Job, NoJob, Working

\* Work that leaves the files and the job to other steps.
LEMMA BaseAlone ==
  ASSUME BaseInv, UNCHANGED <<plain, gz, written, job>>,
         activeDay' \in Day, fired' \in Day \cup {NoDay}, closed' \in BOOLEAN, clock' \in Day,
         faults' \in 0..MaxFaults, rollbacks' \in 0..MaxRollbacks, UNCHANGED reader
  PROVE  BaseInv'
<1>1. StoreTypeOK'
  BY DEF BaseInv, StoreTypeOK
<1>2. JobInv'
  BY DEF BaseInv, JobInv, Working
<1>3. PastInv'
  BY DEF BaseInv, PastInv, Past
<1> QED
  BY <1>1, <1>2, <1>3 DEF BaseInv

\* A job begins, goes on or is given up; the files stay.
LEMMA BaseJob ==
  ASSUME BaseInv, UNCHANGED <<plain, gz, written, reader>>, job' \in Job \cup {NoJob},
         activeDay' \in Day, fired' \in Day \cup {NoDay}, closed' \in BOOLEAN, clock' \in Day,
         faults' \in 0..MaxFaults, rollbacks' \in 0..MaxRollbacks,
         job'.kind # "none" =>
           /\ \A d \in job'.todo : plain[d] # NoFile /\ d < job'.day
           /\ job'.stage # "unlink"
           /\ job'.stage = "write" => job'.writes > 0 /\ job'.todo = {}
  PROVE  BaseInv'
<1>1. StoreTypeOK'
  BY DEF BaseInv, StoreTypeOK
<1>2. JobInv'
  BY DEF BaseInv, JobInv, Working
<1>3. PastInv'
  BY DEF BaseInv, PastInv, Past
<1> QED
  BY <1>1, <1>2, <1>3 DEF BaseInv

\* A job begins that has days to compress.
LEMMA BaseEntering ==
  ASSUME BaseInv, UNCHANGED <<plain, gz, written, reader>>,
         NEW kind \in {"start", "append", "rotate"}, NEW day \in Day, NEW writes \in Nat,
         job' = Entering(kind, day, writes),
         activeDay' \in Day, fired' \in Day \cup {NoDay}, closed' \in BOOLEAN, clock' \in Day,
         faults' \in 0..MaxFaults, rollbacks' \in 0..MaxRollbacks
  PROVE  BaseInv'
<1>1. job' \in Job /\ job'.stage = "compress" /\ job'.day = day /\ job'.todo = ClosedBefore(day)
  BY EnteringIsJob DEF BaseInv
<1>2. \A d \in job'.todo : plain[d] # NoFile /\ d < job'.day
  BY <1>1 DEF ClosedBefore
<1> QED
  BY <1>1, <1>2, BaseJob

\* Counting a mishap stays within its bound.
LEMMA MishapTypes ==
  ASSUME StoreTypeOK
  PROVE  (Fault => faults' \in 0..MaxFaults) /\ (GoesBack => rollbacks' \in 0..MaxRollbacks)
BY LogAssumption DEF StoreTypeOK, Fault, GoesBack

\* An archive appears beside its plain file.
LEMMA ArchiveKeepsBase ==
  ASSUME BaseInv, NEW d \in Day, MakeArchive(d)
  PROVE  BaseInv'
<1>1. /\ Working /\ job.stage = "compress" /\ d = Earliest(job.todo) /\ job.todo # {}
      /\ job \in Job /\ job.todo \in SUBSET Day
  BY JobIs DEF MakeArchive, Compressing, Working, BaseInv
<1>2. d \in job.todo
  BY <1>1, EarliestIsFirst
<1>3. plain[d] # NoFile
  BY <1>1, <1>2 DEF BaseInv, JobInv
<1>4. StoreTypeOK'
  <2>1. job' \in Job /\ gz' \in [Day -> Seq(Entry) \cup {NoFile}]
    BY <1>1 DEF MakeArchive, BaseInv, StoreTypeOK, Job
  <2> QED
    BY <2>1 DEF MakeArchive, BaseInv, StoreTypeOK, world
<1>5. JobInv'
  <2>1. job' = [job EXCEPT !.stage = "unlink"] /\ plain' = plain
    BY DEF MakeArchive
  <2>2. job'.todo = job.todo /\ job'.day = job.day /\ job'.stage = "unlink" /\ job'.kind = job.kind
    BY <1>1, <2>1 DEF Job
  <2>3. gz'[d] = plain[d]
    BY DEF MakeArchive, BaseInv, StoreTypeOK
  <2> QED
    BY <1>1, <2>1, <2>2, <2>3 DEF BaseInv, JobInv, Working
<1>6. PastInv'
  <2>1. \A e \in Day : gz'[e] = gz[e] \/ gz'[e] = plain[e]
    BY DEF MakeArchive, BaseInv, StoreTypeOK
  <2>2. \A e \in Day : Past(plain[e]) /\ Past(gz[e])
    BY DEF BaseInv, PastInv
  <2>3. plain' = plain /\ written' = written
    BY DEF MakeArchive
  <2> QED
    BY <2>1, <2>2, <2>3 DEF PastInv, Past
<1> QED
  BY <1>4, <1>5, <1>6 DEF BaseInv

\* A plain file goes, and its day is done.
LEMMA RemovalKeepsBase ==
  ASSUME BaseInv, NEW d \in Day, Working, d \in job.todo,
         plain' = [plain EXCEPT ![d] = NoFile], DayDone(d),
         UNCHANGED <<gz, activeDay, fired, closed, written, faults, reader, world>>
  PROVE  BaseInv'
<1>1. job \in Job /\ job.todo \in SUBSET Day /\ job.writes \in Nat
  BY JobIs DEF BaseInv
<1>2. /\ job' \in Job /\ job'.stage = "compress" /\ job'.todo = job.todo \ {d}
      /\ job'.day = job.day /\ job'.kind = job.kind
  <2>1. job.todo \ {d} \in SUBSET Day /\ job.writes + 1 \in Nat
    BY <1>1
  <2>2. job' = [job EXCEPT !.stage = "compress", !.todo = job.todo \ {d}, !.writes = job.writes + 1]
    BY DEF DayDone
  <2> QED
    BY <1>1, <2>1, <2>2 DEF Job
<1>3. StoreTypeOK'
  <2>1. plain' \in [Day -> Seq(Entry) \cup {NoFile}]
    BY DEF BaseInv, StoreTypeOK
  <2> QED
    BY <1>2, <2>1 DEF BaseInv, StoreTypeOK, world
<1>4. \A e \in Day : e # d => plain'[e] = plain[e]
  BY DEF BaseInv, StoreTypeOK
<1>5. JobInv'
  <2>1. \A e \in job'.todo : e \in Day /\ plain'[e] # NoFile /\ e < job'.day
    BY <1>1, <1>2, <1>4 DEF BaseInv, JobInv
  <2> QED
    BY <1>2, <2>1 DEF JobInv
<1>6. PastInv'
  <2>1. plain'[d] = NoFile /\ Content(NoFile) = <<>> /\ written \in Nat
    BY DEF BaseInv, StoreTypeOK, Content
  <2>2. Past(NoFile)
    BY <2>1 DEF Past
  <2>3. \A e \in Day : Past(plain'[e]) /\ Past(gz[e])
    BY <1>4, <2>1, <2>2 DEF BaseInv, PastInv
  <2> QED
    BY <2>3 DEF PastInv, Past
<1> QED
  BY <1>3, <1>5, <1>6 DEF BaseInv

\* An entry is written, within the bound.
LEMMA WriteKeepsBase ==
  ASSUME BaseInv, WriteEntry
  PROVE  BaseInv'
<1>1. Working /\ job \in Job /\ job.stage = "write" /\ job.writes \in Nat \ {0} /\ job.day \in Day /\ job.todo = {}
  BY JobIs DEF BaseInv, JobInv, WriteEntry, Working
<1>2. /\ written' = written + 1 /\ written \in Nat /\ written' \in Entry /\ written' \in 0..MaxEntries
      /\ plain' = [plain EXCEPT ![job.day] = Append(Content(@), written + 1)]
      /\ UNCHANGED <<gz, activeDay, fired, closed, faults, reader, world>>
  BY LogAssumption DEF WriteEntry, BaseInv, StoreTypeOK, Entry
<1> DEFINE b == Content(plain[job.day])
<1>3. b \in Seq(Entry) /\ Len(b) \in Nat /\ Len(b) <= written /\ \A k \in 1..Len(b) : b[k] <= written
  BY <1>1, Contents DEF BaseInv
<1> DEFINE c == Append(b, written + 1)
<1>4. /\ c \in Seq(Entry) /\ Len(c) = Len(b) + 1 /\ c[Len(b) + 1] = written + 1
      /\ \A k \in 1..Len(b) : c[k] = b[k]
  BY <1>2, <1>3, AppendProperties
<1>5. plain'[job.day] = c /\ \A e \in Day : e # job.day => plain'[e] = plain[e]
  BY <1>1, <1>2 DEF BaseInv, StoreTypeOK
<1> HIDE DEF c
<1>6. job' \in Job \cup {NoJob} /\ (job' # NoJob => job'.stage = "write" /\ job'.writes > 0 /\ job'.todo = {})
  BY <1>1 DEF WriteEntry, Job
<1>7. StoreTypeOK'
  <2>1. plain' \in [Day -> Seq(Entry) \cup {NoFile}]
    BY <1>1, <1>2, <1>4, <1>5 DEF BaseInv, StoreTypeOK
  <2> QED
    BY <1>2, <1>6, <2>1 DEF BaseInv, StoreTypeOK, world
<1>8. JobInv'
  BY <1>6 DEF JobInv, Working, NoJob
<1>9. PastInv'
  <2>1. ASSUME NEW file \in Seq(Entry) \cup {NoFile}, Past(file)
        PROVE  Past(file)'
    <3>1. Content(file) \in Seq(Entry)
      BY DEF Content
    <3>2. \A k \in DOMAIN Content(file) : Content(file)[k] \in Nat
      BY <3>1, LogAssumption DEF Entry
    <3> QED
      BY <1>2, <2>1, <3>1, <3>2 DEF Past
  <2>2. Content(c) = c /\ Len(c) <= written' /\ \A k \in DOMAIN c : c[k] <= written'
    <3>1. Content(c) = c
      BY <1>4, LogAssumption DEF Content
    <3>2. \A k \in 1..Len(c) : k = Len(b) + 1 \/ (k \in 1..Len(b) /\ b[k] \in Nat)
      BY <1>3, <1>4, LogAssumption DEF Entry
    <3>3. \A k \in 1..Len(c) : c[k] <= written'
      BY <1>2, <1>3, <1>4, <3>2
    <3> QED
      BY <1>2, <1>3, <1>4, <3>1, <3>3
  <2>4. \A e \in Day : Past(plain[e]) /\ Past(gz[e]) /\ plain[e] \in Seq(Entry) \cup {NoFile}
                       /\ gz[e] \in Seq(Entry) \cup {NoFile}
    BY DEF BaseInv, PastInv, StoreTypeOK
  <2>5. ASSUME NEW e \in Day PROVE Past(plain[e])' /\ Past(gz[e])'
    <3>1. Past(gz[e])'
      BY <1>2, <2>1, <2>4
    <3>2. CASE e = job.day
      BY <1>5, <2>2, <3>1, <3>2 DEF Past
    <3>3. CASE e # job.day
      BY <1>5, <2>1, <2>4, <3>1, <3>3 DEF Past
    <3> QED
      BY <3>2, <3>3
  <2> QED
    BY <2>5 DEF PastInv
<1> QED
  BY <1>7, <1>8, <1>9 DEF BaseInv

\* Only the reader moves.
LEMMA BaseReader ==
  ASSUME BaseInv, UNCHANGED <<plain, gz, activeDay, job, fired, closed, written, faults, world>>,
         reader' \in [existing : SUBSET Entry, read : SUBSET Entry, twice : BOOLEAN,
                      before : Position, more : BOOLEAN]
  PROVE  BaseInv'
<1>1. StoreTypeOK'
  BY DEF BaseInv, StoreTypeOK, world
<1>2. JobInv'
  BY DEF BaseInv, JobInv, Working
<1>3. PastInv'
  BY DEF BaseInv, PastInv, Past
<1> QED
  BY <1>1, <1>2, <1>3 DEF BaseInv

\* What a reader holds is entries, and its cursor is a position.
LEMMA ReadsKeepBase ==
  ASSUME BaseInv, ReadNewest \/ ReadOlder
  PROVE  BaseInv'
<1>1. StoreTypeOK /\ PastInv
  BY DEF BaseInv
<1>2. \A S \in SUBSET Positions : /\ S \in SUBSET Position /\ IsFiniteSet(S)
                                  /\ EntriesAt(S) \in SUBSET Entry
  <2> SUFFICES ASSUME NEW S \in SUBSET Positions
               PROVE  S \in SUBSET Position /\ IsFiniteSet(S) /\ EntriesAt(S) \in SUBSET Entry
    OBVIOUS
  <2>1. \A p \in S : Lines(p.day)[p.line] \in Entry
    BY <1>1, PositionsAre
  <2>2. S \in SUBSET Position /\ IsFiniteSet(S)
    BY <1>1, PositionsAre, FS_Subset
  <2> QED
    BY <2>1, <2>2 DEF EntriesAt
<1>3. CASE ReadNewest
  <2> DEFINE page == Page(Positions)
  <2>1. page \in SUBSET Positions /\ page # {}
    BY <1>2, <1>3, PageIsNewest DEF ReadNewest
  <2>2. Oldest(page) \in Position
    BY <1>2, <2>1, OldestIsFirst
  <2> HIDE DEF page
  <2>3. reader' = [existing |-> EntriesAt(Positions), read |-> EntriesAt(page),
                   twice |-> Cardinality(EntriesAt(page)) # Cardinality(page),
                   before |-> Oldest(page), more |-> page # Positions]
    BY <1>3 DEF ReadNewest, page
  <2>4. EntriesAt(Positions) \in SUBSET Entry /\ EntriesAt(page) \in SUBSET Entry
    BY <1>2, <2>1
  <2>5. reader' \in [existing : SUBSET Entry, read : SUBSET Entry, twice : BOOLEAN,
                     before : Position, more : BOOLEAN]
    BY <2>2, <2>3, <2>4
  <2> QED
    BY <1>3, <2>5, BaseReader DEF ReadNewest
<1>4. CASE ReadOlder
  <2>1. reader \in [existing : SUBSET Entry, read : SUBSET Entry, twice : BOOLEAN,
                    before : Position, more : BOOLEAN]
    BY <1>1, <1>4 DEF ReadOlder, StoreTypeOK
  <2> DEFINE rest == Older(reader.before)
             page == Page(rest)
             new  == EntriesAt(page)
  <2>2. rest \in SUBSET Positions
    BY DEF Older
  <2>3. page \in SUBSET Positions
    BY <1>2, <2>2, PageIsNewest
  <2>4. new \in SUBSET Entry
    BY <1>2, <2>3
  <2>5. page # {} => Oldest(page) \in Position
    BY <1>2, <2>3, OldestIsFirst
  <2>6. reader' = [reader EXCEPT
           !.read = reader.read \cup new,
           !.twice = reader.twice \/ Cardinality(new) # Cardinality(page) \/ new \cap reader.read # {},
           !.before = IF page = {} THEN reader.before ELSE Oldest(page),
           !.more = page # rest]
    BY <1>4 DEF ReadOlder
  <2> HIDE DEF rest, page, new
  <2>7. reader.read \cup new \in SUBSET Entry /\ (IF page = {} THEN reader.before ELSE Oldest(page)) \in Position
    BY <2>1, <2>4, <2>5
  <2> DEFINE twice == reader.twice \/ Cardinality(new) # Cardinality(page) \/ new \cap reader.read # {}
             more == page # rest
  <2>8. twice \in BOOLEAN /\ more \in BOOLEAN
    BY <2>1
  <2> HIDE DEF twice, more
  <2>9. reader' \in [existing : SUBSET Entry, read : SUBSET Entry, twice : BOOLEAN,
                     before : Position, more : BOOLEAN]
    <3>1. reader' = [reader EXCEPT !.read = reader.read \cup new, !.twice = twice,
                       !.before = IF page = {} THEN reader.before ELSE Oldest(page), !.more = more]
      BY <2>6 DEF twice, more
    <3> QED
      BY <2>1, <2>7, <2>8, <3>1
  <2> QED
    BY <1>4, <2>9, BaseReader DEF ReadOlder
<1> QED
  BY <1>3, <1>4

\* Files and jobs stay in step.
LEMMA BaseKept == BaseInv /\ [StoreNext]_storeVars => BaseInv'
<1> SUFFICES ASSUME BaseInv, [StoreNext]_storeVars PROVE BaseInv'
  OBVIOUS
<1>1. StoreTypeOK /\ JobInv /\ PastInv
  BY DEF BaseInv
<1>2. CASE UNCHANGED storeVars
  BY <1>1, <1>2, BaseAlone DEF storeVars, StoreTypeOK
<1>3. CASE BeginAppend
  <2>1. clock \in Day /\ 2 \in Nat /\ NoJob.kind = "none"
    BY <1>1 DEF StoreTypeOK, NoJob
  <2>2. CASE clock = activeDay
    <3>1. job' = [kind |-> "append", day |-> clock, stage |-> "write", todo |-> {}, writes |-> 1]
      BY <1>3, <2>2 DEF BeginAppend
    <3>2. job' \in Job /\ job'.stage = "write" /\ job'.writes = 1 /\ job'.todo = {}
      BY <2>1, <3>1 DEF Job
    <3> QED
      BY <1>1, <1>3, <3>2, BaseJob DEF BeginAppend, StoreTypeOK, world
  <2>3. CASE clock # activeDay
    <3>1. job' = Entering("append", clock, 2) /\ UNCHANGED <<plain, gz, written, reader, activeDay, fired,
                                                              closed, faults, clock, rollbacks>>
      BY <1>3, <2>3 DEF BeginAppend, world
    <3> QED
      BY <1>1, <2>1, <3>1, BaseEntering DEF StoreTypeOK
  <2> QED
    BY <2>2, <2>3
<1>4. CASE BeginRotation
  <2>1. fired \in Day /\ 1 \in Nat /\ NoJob.kind = "none"
    BY <1>1, <1>4 DEF BeginRotation, StoreTypeOK, NoJob
  <2>2. rollbacks' \in 0..MaxRollbacks
    BY <1>1, <1>4, MishapTypes DEF BeginRotation, StoreTypeOK
  <2> QED
    <3>1. /\ job' = NoJob \/ job' = Entering("rotate", fired, 1)
          /\ UNCHANGED <<plain, gz, written, reader, activeDay, closed, faults, clock>> /\ fired' = NoDay
      BY <1>4 DEF BeginRotation
    <3>2. CASE job' = NoJob
      BY <1>1, <2>1, <2>2, <3>1, <3>2, BaseJob DEF StoreTypeOK
    <3>3. CASE job' = Entering("rotate", fired, 1)
      BY <1>1, <2>1, <2>2, <3>1, <3>3, BaseEntering DEF StoreTypeOK
    <3> QED
      BY <3>1, <3>2, <3>3
<1>5. CASE TimerFires
  BY <1>1, <1>5, BaseAlone DEF TimerFires, StoreTypeOK, world
<1>6. CASE \E d \in Day : MakeArchive(d)
  BY <1>6, ArchiveKeepsBase
<1>7. CASE RemovePlain
  <2>1. Working /\ job.stage = "unlink" /\ job.todo # {} /\ job.todo \in SUBSET Day
    BY <1>1, <1>7, JobIs DEF RemovePlain, JobInv, Working
  <2>2. Earliest(job.todo) \in job.todo
    BY <2>1, EarliestIsFirst
  <2> QED
    BY <1>7, <2>1, <2>2, RemovalKeepsBase DEF RemovePlain
<1>8. CASE \E d \in Day : RemoveCopy(d)
  <2>1. PICK d \in Day : RemoveCopy(d)
    BY <1>8
  <2>2. Working /\ job.todo # {} /\ job.todo \in SUBSET Day /\ d = Earliest(job.todo)
    BY <1>1, <2>1, JobIs DEF RemoveCopy, Compressing, Working
  <2>3. d \in job.todo
    BY <2>2, EarliestIsFirst
  <2> QED
    BY <2>1, <2>2, <2>3, RemovalKeepsBase DEF RemoveCopy
<1>9. ASSUME NEW d \in Day, KeepBoth(d) \/ CompareFails(d) PROVE BaseInv'
  <2>1. Working /\ job.stage = "compress" /\ job \in Job
    BY <1>1, <1>9, JobIs DEF KeepBoth, CompareFails, Compressing, Working
  <2>2. /\ job' \in Job /\ job'.todo \subseteq job.todo /\ job'.stage = "compress"
        /\ job'.day = job.day
    BY <1>9, <2>1 DEF KeepBoth, CompareFails, DayLeft, Job
  <2>3. faults' \in 0..MaxFaults
    BY <1>1, <1>9, MishapTypes DEF KeepBoth, CompareFails, StoreTypeOK
  <2>4. \A e \in job'.todo : plain[e] # NoFile /\ e < job'.day
    BY <1>1, <2>1, <2>2 DEF JobInv
  <2>5. UNCHANGED <<plain, gz, written, reader, activeDay, fired, closed, clock, rollbacks>>
    BY <1>9 DEF KeepBoth, CompareFails, world
  <2> QED
    BY <1>1, <2>2, <2>3, <2>4, <2>5, BaseJob DEF StoreTypeOK
<1>10. CASE EnterDay
  <2>1. Working /\ job \in Job /\ job.todo = {} /\ job.day \in Day /\ job.writes \in Nat
    BY <1>1, <1>10, JobIs DEF EnterDay, Working
  <2>2. \/ job' = NoJob
        \/ job' \in Job /\ job'.stage = "write" /\ job'.writes > 0 /\ job'.todo = {}
    BY <1>10, <2>1 DEF EnterDay, Job
  <2> QED
    BY <1>1, <1>10, <2>1, <2>2, BaseJob DEF EnterDay, StoreTypeOK, NoJob, world
<1>11. CASE WriteEntry
  BY <1>11, WriteKeepsBase
<1>12. CASE JobFails
  <2>1. faults' \in 0..MaxFaults /\ closed' \in BOOLEAN /\ job' = NoJob /\ NoJob.kind = "none"
    BY <1>1, <1>12, MishapTypes DEF JobFails, NoJob, StoreTypeOK
  <2> QED
    BY <1>1, <1>12, <2>1, BaseJob DEF JobFails, StoreTypeOK, world
<1>13. CASE Crash
  <2>1. faults' \in 0..MaxFaults /\ job' = NoJob /\ NoJob.kind = "none" /\ fired' = NoDay /\ closed'
    BY <1>1, <1>13, MishapTypes DEF Crash, NoJob
  <2> QED
    BY <1>1, <1>13, <2>1, BaseJob DEF Crash, StoreTypeOK, world
<1>14. CASE Close
  BY <1>1, <1>14, BaseAlone DEF Close, StoreTypeOK, world
<1>15. CASE Open
  <2>1. clock \in Day /\ 0 \in Nat
    BY <1>1 DEF StoreTypeOK
  <2> QED
    <3>1. /\ job' = Entering("start", clock, 0) /\ activeDay' = clock /\ closed' = FALSE
          /\ UNCHANGED <<plain, gz, written, reader, fired, faults, clock, rollbacks>>
      BY <1>15 DEF Open, world
    <3> QED
      BY <1>1, <2>1, <3>1, BaseEntering DEF StoreTypeOK
<1>16. CASE Midnight
  <2>1. clock' \in Day
    BY <1>1, <1>16, LogAssumption DEF Midnight, StoreTypeOK, Day
  <2> QED
    BY <1>1, <1>16, <2>1, BaseAlone DEF Midnight, StoreTypeOK
<1>17. CASE ClockSetBack
  <2>1. clock' \in Day /\ rollbacks' \in 0..MaxRollbacks
    BY <1>1, <1>17, LogAssumption, MishapTypes DEF ClockSetBack, StoreTypeOK, Day
  <2> QED
    BY <1>1, <1>17, <2>1, BaseAlone DEF ClockSetBack, StoreTypeOK
<1>18. CASE ReadNewest \/ ReadOlder
  BY <1>18, ReadsKeepBase
<1> QED
  BY <1>2, <1>3, <1>4, <1>5, <1>6, <1>7, <1>8, <1>9, <1>10, <1>11, <1>12, <1>13, <1>14, <1>15,
     <1>16, <1>17, <1>18 DEF StoreNext, Work

\* Nothing is written at first.
LEMMA InitBase == StoreInit => BaseInv
<1> SUFFICES ASSUME StoreInit PROVE BaseInv
  OBVIOUS
<1>1. MaxEntries \in Nat /\ MaxFaults \in Nat /\ MaxRollbacks \in Nat /\ 1 \in Day
  BY LogAssumption DEF Day
<1>2. StoreTypeOK
  <2>1. plain \in [Day -> Seq(Entry) \cup {NoFile}] /\ gz \in [Day -> Seq(Entry) \cup {NoFile}]
    BY DEF StoreInit
  <2>2. written \in 0..MaxEntries /\ faults \in 0..MaxFaults /\ rollbacks \in 0..MaxRollbacks
    BY <1>1 DEF StoreInit
  <2> QED
    BY <1>1, <2>1, <2>2 DEF StoreInit, StoreTypeOK
<1>3. JobInv
  BY DEF StoreInit, JobInv, Working, NoJob
<1>4. PastInv
  BY DEF StoreInit, PastInv, Past, Content
<1> QED
  BY <1>2, <1>3, <1>4 DEF BaseInv

(* Every file of the log directory holds entries, a job compresses files    *)
(* that are there, and counters stay within their bounds                    *)
(* (core/log-store.ts).                                                     *)
THEOREM StoreTyping == StoreSpec => []BaseInv
<1>1. StoreInit => BaseInv
  BY InitBase
<1>2. BaseInv /\ [StoreNext]_storeVars => BaseInv'
  BY BaseKept
<1> QED
  BY <1>1, <1>2, PTL DEF StoreSpec

--------------------------------------------------------------------------------
(* The journal *)

\* The archive of a day appears; its plain file is there as well.
Archived(d) == /\ gz[d] = NoFile /\ plain[d] # NoFile
               /\ gz' = [gz EXCEPT ![d] = plain[d]] /\ plain' = plain

\* The plain file of a day goes; its archive is a copy of it.
Unlinked(d) == /\ gz[d] = plain[d] /\ plain[d] # NoFile
               /\ plain' = [plain EXCEPT ![d] = NoFile] /\ gz' = gz

\* The day that the job compresses next.
AtHead(d) == Working /\ d \in job.todo /\ d = Earliest(job.todo) /\ plain[d] # NoFile /\ d < job.day

\* The job goes on: it is at some stage and has some days left.
GoesOn(stage, todo) ==
  Working' /\ job'.kind = job.kind /\ job'.day = job.day /\ job'.stage = stage /\ job'.todo = todo

\* What each step of a rotation does to its job and to the files.
LEMMA JobMoves ==
  ASSUME BaseInv, NEW d \in Day
  PROVE  /\ MakeArchive(d) => /\ AtHead(d) /\ job.stage = "compress"
                              /\ GoesOn("unlink", job.todo) /\ Archived(d)
         /\ RemovePlain /\ d = Earliest(job.todo) =>
              /\ AtHead(d) /\ job.stage = "unlink"
              /\ GoesOn("compress", job.todo \ {d}) /\ Unlinked(d)
         /\ RemoveCopy(d) => /\ AtHead(d) /\ job.stage = "compress"
                             /\ GoesOn("compress", job.todo \ {d}) /\ Unlinked(d)
         /\ KeepBoth(d) \/ CompareFails(d) =>
              /\ AtHead(d) /\ job.stage = "compress" /\ gz[d] # NoFile
              /\ GoesOn("compress", job.todo \ {d})
         /\ EnterDay => /\ Working /\ job.stage = "compress" /\ job.todo = {} /\ activeDay' = job.day
                        /\ job' = NoJob \/ GoesOn("write", {})
         /\ WriteEntry => job' = NoJob \/ GoesOn("write", {})
<1>1. /\ StoreTypeOK
      /\ Working => job \in Job /\ job.todo \in SUBSET Day
      /\ Working => \A e \in job.todo : plain[e] # NoFile /\ e < job.day
  BY JobIs DEF BaseInv, JobInv
<1>2. Compressing(d) => AtHead(d) /\ job.stage = "compress" /\ job \in Job
  BY <1>1, EarliestIsFirst DEF Compressing, AtHead, Working
<1>3. MakeArchive(d) => /\ AtHead(d) /\ job.stage = "compress"
                        /\ GoesOn("unlink", job.todo) /\ Archived(d)
  <2> SUFFICES ASSUME MakeArchive(d)
               PROVE  AtHead(d) /\ job.stage = "compress" /\ GoesOn("unlink", job.todo) /\ Archived(d)
    OBVIOUS
  <2>1. AtHead(d) /\ job.stage = "compress" /\ job \in Job
    BY <1>2 DEF MakeArchive
  <2>2. GoesOn("unlink", job.todo)
    BY <2>1 DEF MakeArchive, GoesOn, Job, Working, AtHead
  <2> QED
    BY <2>1, <2>2 DEF MakeArchive, Archived, AtHead
<1>4. DayDone(d) /\ job \in Job /\ Working => GoesOn("compress", job.todo \ {d})
  <2> SUFFICES ASSUME DayDone(d), job \in Job, Working PROVE GoesOn("compress", job.todo \ {d})
    OBVIOUS
  <2>1. job' = [job EXCEPT !.stage = "compress", !.todo = job.todo \ {d}, !.writes = job.writes + 1]
    BY DEF DayDone
  <2> QED
    BY <2>1 DEF GoesOn, Job, Working
<1>5. DayLeft(d) /\ job \in Job /\ Working /\ job.stage = "compress" => GoesOn("compress", job.todo \ {d})
  BY DEF DayLeft, GoesOn, Job, Working
<1>6. RemovePlain /\ d = Earliest(job.todo) =>
              /\ AtHead(d) /\ job.stage = "unlink"
              /\ GoesOn("compress", job.todo \ {d}) /\ Unlinked(d)
  <2> SUFFICES ASSUME RemovePlain, d = Earliest(job.todo)
               PROVE  /\ AtHead(d) /\ job.stage = "unlink"
                      /\ GoesOn("compress", job.todo \ {d}) /\ Unlinked(d)
    OBVIOUS
  <2>1. Working /\ job.stage = "unlink" /\ job.todo # {} /\ gz[d] = plain[d]
    BY DEF RemovePlain, BaseInv, JobInv, Working
  <2>2. AtHead(d)
    BY <1>1, <2>1, EarliestIsFirst DEF AtHead
  <2>3. DayDone(d) /\ plain' = [plain EXCEPT ![d] = NoFile] /\ gz' = gz
    BY DEF RemovePlain
  <2>4. Unlinked(d)
    BY <2>1, <2>2, <2>3 DEF Unlinked, AtHead
  <2> QED
    BY <1>1, <1>4, <2>1, <2>2, <2>3, <2>4
<1>7. RemoveCopy(d) => /\ AtHead(d) /\ job.stage = "compress"
                       /\ GoesOn("compress", job.todo \ {d}) /\ Unlinked(d)
  BY <1>2, <1>4 DEF RemoveCopy, IsCopy, Unlinked, AtHead
<1>8. KeepBoth(d) \/ CompareFails(d) =>
        /\ AtHead(d) /\ job.stage = "compress" /\ gz[d] # NoFile
        /\ GoesOn("compress", job.todo \ {d})
  BY <1>2, <1>5 DEF KeepBoth, CompareFails, AtHead
<1>9. EnterDay => /\ Working /\ job.stage = "compress" /\ job.todo = {} /\ activeDay' = job.day
                  /\ job' = NoJob \/ GoesOn("write", {})
  BY <1>1 DEF EnterDay, GoesOn, Job, Working
<1>10. WriteEntry => job' = NoJob \/ GoesOn("write", {})
  <2> SUFFICES ASSUME WriteEntry, job' # NoJob PROVE GoesOn("write", {})
    OBVIOUS
  <2>1. job \in Job /\ job.kind # "none" /\ job.stage = "write" /\ job.todo = {}
    BY <1>1 DEF WriteEntry, Working, BaseInv, JobInv
  <2>2. job' = [job EXCEPT !.writes = job.writes - 1]
    BY DEF WriteEntry
  <2> QED
    BY <2>1, <2>2 DEF GoesOn, Job, Working
<1> QED
  BY <1>3, <1>6, <1>7, <1>8, <1>9, <1>10

\* Steps that leave the files alone.
LEMMA FilesStay ==
  ASSUME [StoreNext]_storeVars,
         ~(\E d \in Day : MakeArchive(d) \/ RemoveCopy(d)), ~RemovePlain, ~WriteEntry
  PROVE  UNCHANGED <<plain, gz, written>>
BY DEF StoreNext, Work, BeginAppend, BeginRotation, TimerFires, KeepBoth, CompareFails, EnterDay, JobFails,
       Crash, Close, Open, Midnight, ClockSetBack, ReadNewest, ReadOlder, storeVars

\* A step changes at most one file.
LEMMA FilesChange ==
  ASSUME BaseInv, [StoreNext]_storeVars
  PROVE  \/ UNCHANGED <<plain, gz>>
         \/ \E d \in Day : Archived(d) \/ Unlinked(d)
         \/ WriteEntry
<1>1. ASSUME RemovePlain PROVE \E d \in Day : Unlinked(d)
  <2>1. Working /\ job.todo # {} /\ job.todo \in SUBSET Day
    BY <1>1, JobIs DEF RemovePlain, JobInv, Working, BaseInv
  <2>2. Earliest(job.todo) \in Day
    BY <2>1, EarliestIsFirst
  <2> QED
    BY <1>1, <2>2, JobMoves
<1> QED
  BY <1>1, JobMoves, FilesStay

\* What was written is not written again: the next entry is in no file.
LEMMA NextIsNew ==
  ASSUME BaseInv, NEW d \in Day
  PROVE  /\ \A k \in 1..Len(Content(gz[d])) : Content(gz[d])[k] # written + 1
         /\ \A k \in 1..Len(Content(plain[d])) : Content(plain[d])[k] # written + 1
<1>1. /\ \A k \in 1..Len(Content(gz[d])) : Content(gz[d])[k] \in Entry /\ Content(gz[d])[k] <= written
      /\ \A k \in 1..Len(Content(plain[d])) : Content(plain[d])[k] \in Entry /\ Content(plain[d])[k] <= written
  BY Contents DEF BaseInv
<1>2. written \in Nat /\ \A e \in Entry : e \in Nat
  BY LogAssumption DEF BaseInv, StoreTypeOK, Entry
<1> QED
  BY <1>1, <1>2

\* An entry is written behind the plain file of a day.
Wrote(d) ==
  /\ Working /\ job.stage = "write" /\ job.day = d
  /\ written + 1 \in Entry /\ written' = written + 1
  /\ plain'[d] # NoFile /\ Content(plain'[d]) = Append(Content(plain[d]), written + 1)
  /\ \A e \in Day : e # d => plain'[e] = plain[e]
  /\ gz' = gz

\* What a write does to the files.
LEMMA WriteAppends ==
  ASSUME BaseInv, WriteEntry
  PROVE  \E d \in Day : Wrote(d)
<1>1. Working /\ job.day \in Day /\ job.stage = "write"
  BY JobIs DEF BaseInv, WriteEntry, Working
<1> PICK d \in Day : job.day = d
  BY <1>1
<1>2. written + 1 \in Entry /\ written' = written + 1 /\ gz' = gz
      /\ plain' = [plain EXCEPT ![d] = Append(Content(@), written + 1)]
  BY LogAssumption DEF WriteEntry, BaseInv, StoreTypeOK, Entry
<1>3. Content(plain[d]) \in Seq(Entry)
  BY <1>1, Contents DEF BaseInv
<1> DEFINE c == Append(Content(plain[d]), written + 1)
<1>4. c \in Seq(Entry)
  BY <1>2, <1>3, AppendProperties
<1>5. plain'[d] = c /\ \A e \in Day : e # d => plain'[e] = plain[e]
  BY <1>1, <1>2 DEF BaseInv, StoreTypeOK
<1> HIDE DEF c
<1>6. Content(c) = c /\ c # NoFile
  BY <1>4, LogAssumption DEF Content
<1>7. Content(plain'[d]) = c /\ plain'[d] # NoFile
  BY <1>5, <1>6
<1>8. Wrote(d)
  BY <1>1, <1>2, <1>5, <1>7 DEF c, Wrote
<1> QED
  BY <1>8

\* Every step leaves every day's record as it is, or writes the next entry of one.
LEMMA RecordsGrow ==
  ASSUME BaseInv, [StoreNext]_storeVars
  PROVE  \/ ~WriteEntry /\ \A d \in Day : Recorded(d)' = Recorded(d)
         \/ /\ WriteEntry
            /\ \E d \in Day :
                 /\ Wrote(d) /\ Recorded(d)' = Append(Recorded(d), written + 1)
                 /\ \A e \in Day : e # d => Recorded(e)' = Recorded(e)
<1>1. \A d \in Day : /\ Recorded(d) = Merged(Content(gz[d]), Content(plain[d]))
                     /\ Recorded(d)' = Merged(Content(gz'[d]), Content(plain'[d]))
                     /\ Content(gz[d]) \in Seq(Entry) /\ Content(plain[d]) \in Seq(Entry)
  <2>1. \A d \in Day : Recorded(d)' = Merged(Content(gz'[d]), Content(plain'[d]))
    BY DEF Recorded, Merged, Content
  <2> QED
    BY <2>1, Contents DEF BaseInv
<1>2. Content(NoFile) = <<>>
  BY DEF Content
<1>3. CASE WriteEntry
  <2>1. PICK d \in Day : Wrote(d)
    BY <1>3, WriteAppends
  <2>2. Recorded(d)' = Append(Recorded(d), written + 1)
    <3>1. Recorded(d)' = Merged(Content(gz[d]), Append(Content(plain[d]), written + 1))
      BY <1>1, <2>1 DEF Wrote
    <3>2. \A k \in 1..Len(Content(gz[d])) : Content(gz[d])[k] # written + 1
      BY <2>1, NextIsNew
    <3>3. /\ Content(gz[d]) \in Seq(Entry) /\ Content(plain[d]) \in Seq(Entry)
          /\ Recorded(d) = Merged(Content(gz[d]), Content(plain[d]))
          /\ written + 1 \in Entry
      BY <1>1, <2>1 DEF Wrote
    <3> QED
      BY <2>1, <3>1, <3>2, <3>3, MergedGrows
  <2>3. \A e \in Day : e # d => Recorded(e)' = Recorded(e)
    BY <1>1, <2>1 DEF Wrote
  <2> QED
    BY <1>3, <2>1, <2>2, <2>3
<1>4. ASSUME ~WriteEntry, NEW d \in Day PROVE Recorded(d)' = Recorded(d)
  <2>1. CASE UNCHANGED <<plain, gz>>
    BY <1>1, <2>1
  <2>2. ASSUME NEW e \in Day, Archived(e) PROVE Recorded(d)' = Recorded(d)
    <3>1. /\ d # e => gz'[d] = gz[d]
          /\ d = e => gz'[d] = plain[d] /\ gz[d] = NoFile
          /\ plain'[d] = plain[d]
      BY <2>2 DEF Archived, BaseInv, StoreTypeOK
    <3>2. CASE d # e
      BY <1>1, <3>1, <3>2
    <3>3. CASE d = e
      BY <1>1, <1>2, <3>1, <3>3, MergedFiles
    <3> QED
      BY <3>2, <3>3
  <2>3. ASSUME NEW e \in Day, Unlinked(e) PROVE Recorded(d)' = Recorded(d)
    <3>1. /\ d # e => plain'[d] = plain[d]
          /\ d = e => plain'[d] = NoFile /\ gz[d] = plain[d]
          /\ gz'[d] = gz[d]
      BY <2>3 DEF Unlinked, BaseInv, StoreTypeOK
    <3>2. CASE d # e
      BY <1>1, <3>1, <3>2
    <3>3. CASE d = e
      BY <1>1, <1>2, <3>1, <3>3, MergedFiles
    <3> QED
      BY <3>2, <3>3
  <2> QED
    BY <1>4, <2>1, <2>2, <2>3, FilesChange
<1> QED
  BY <1>3, <1>4

\* What is recorded was written.
LEMMA RecordsArePast ==
  ASSUME BaseInv, NEW d \in Day
  PROVE  Recorded(d) \in Seq(Entry) /\ \A k \in 1..Len(Recorded(d)) : Recorded(d)[k] <= written
<1> DEFINE a == Content(gz[d])
           b == Content(plain[d])
<1>1. /\ a \in Seq(Entry) /\ b \in Seq(Entry) /\ Recorded(d) = Merged(a, b)
      /\ \A k \in 1..Len(a) : a[k] <= written
      /\ \A k \in 1..Len(b) : b[k] <= written
  BY Contents DEF BaseInv
<1> HIDE DEF a, b
<1>2. Recorded(d) = b \/ Recorded(d) = a \o b
  BY <1>1 DEF Merged
<1>3. CASE Recorded(d) = b
  BY <1>1, <1>3
<1>4. CASE Recorded(d) = a \o b
  BY <1>1, <1>4, ConcatProperties
<1> QED
  BY <1>2, <1>3, <1>4

\* Nothing in the journal is the next entry.
LEMMA NextIsUnrecorded ==
  ASSUME BaseInv
  PROVE  written + 1 \notin Kept!Written
<1>1. \A d \in Day : \A k \in DOMAIN Recorded(d) : Recorded(d)[k] # written + 1
  <2> SUFFICES ASSUME NEW d \in Day, NEW k \in DOMAIN Recorded(d) PROVE Recorded(d)[k] # written + 1
    OBVIOUS
  <2>1. Recorded(d)[k] \in Entry /\ Recorded(d)[k] <= written
    BY RecordsArePast
  <2>2. Recorded(d)[k] \in Nat /\ written \in Nat
    BY <2>1, LogAssumption DEF Entry, BaseInv, StoreTypeOK
  <2> QED
    BY <2>1, <2>2
<1> QED
  BY <1>1 DEF Kept!Written

\* A step of the store is a record of the journal, or nothing happens there.
LEMMA JournalStep ==
  ASSUME BaseInv, [StoreNext]_storeVars
  PROVE  [Kept!Next]_([d \in Day |-> Recorded(d)])
<1> DEFINE days == [d \in Day |-> Recorded(d)]
<1>1. CASE ~WriteEntry /\ \A d \in Day : Recorded(d)' = Recorded(d)
  <2>1. days' = days
    BY <1>1
  <2> QED
    BY <2>1
<1>2. CASE /\ WriteEntry
           /\ \E d \in Day :
                /\ Wrote(d) /\ Recorded(d)' = Append(Recorded(d), written + 1)
                /\ \A e \in Day : e # d => Recorded(e)' = Recorded(e)
  <2>1. PICK d \in Day : /\ Wrote(d) /\ Recorded(d)' = Append(Recorded(d), written + 1)
                         /\ \A e \in Day : e # d => Recorded(e)' = Recorded(e)
    BY <1>2
  <2>2. days' = [days EXCEPT ![d] = Append(@, written + 1)]
    BY <2>1
  <2>3. Kept!Record(d, written + 1)
    BY <2>2, NextIsUnrecorded DEF Kept!Record
  <2>4. written + 1 \in Entry
    BY <2>1 DEF Wrote
  <2> QED
    BY <2>3, <2>4 DEF Kept!Next
<1> QED
  BY <1>1, <1>2, RecordsGrow

(* Whatever crashes or fails between the steps of a rotation, and whatever  *)
(* the clock does, no entry that was written is ever deleted, changed or    *)
(* moved (core/log-store.ts: rotate, compressClosedDays, append).           *)
THEOREM JournalIsKept == StoreSpec => ImplementsJournal
<1>1. StoreInit => Kept!Init
  <2> SUFFICES ASSUME StoreInit PROVE Kept!Init
    OBVIOUS
  <2>1. \A d \in Day : Recorded(d) \in Seq(Entry)
    BY InitBase, RecordsArePast
  <2> QED
    BY <2>1 DEF Kept!Init
<1>2. BaseInv /\ [StoreNext]_storeVars => [Kept!Next]_([d \in Day |-> Recorded(d)])
  BY JournalStep
<1> QED
  BY <1>1, <1>2, StoreTyping, PTL DEF StoreSpec, ImplementsJournal, Kept!Spec

--------------------------------------------------------------------------------
(* Nothing is recorded twice; two files of a day are an accident *)

\* No entry joins the journal that is in it.
LEMMA JournalInvKept ==
  ASSUME BaseInv, JournalInv, [StoreNext]_storeVars
  PROVE  JournalInv'
<1> SUFFICES ASSUME NEW d \in Day, NEW e \in Day,
                    NEW i \in DOMAIN Recorded(d)', NEW j \in DOMAIN Recorded(e)',
                    Recorded(d)'[i] = Recorded(e)'[j]
             PROVE  d = e /\ i = j
  BY DEF JournalInv
<1>1. CASE \A f \in Day : Recorded(f)' = Recorded(f)
  BY <1>1 DEF JournalInv
<1>2. ASSUME NEW w \in Day, Wrote(w), Recorded(w)' = Append(Recorded(w), written + 1),
             \A f \in Day : f # w => Recorded(f)' = Recorded(f)
      PROVE  d = e /\ i = j
  <2>1. \A f \in Day : /\ Recorded(f) \in Seq(Entry)
                       /\ \A k \in DOMAIN Recorded(f) : Recorded(f)[k] # written + 1
    BY NextIsUnrecorded, RecordsArePast DEF Kept!Written
  <2>2. /\ DOMAIN Recorded(w)' = DOMAIN Recorded(w) \cup {Len(Recorded(w)) + 1}
        /\ \A k \in DOMAIN Recorded(w) : Recorded(w)'[k] = Recorded(w)[k]
        /\ Recorded(w)'[Len(Recorded(w)) + 1] = written + 1
    <3>1. written + 1 \in Entry /\ Recorded(w) \in Seq(Entry)
      BY <1>2, <2>1 DEF Wrote
    <3> QED
      BY <1>2, <3>1, AppendProperties
  <2>3. d # w => i \in DOMAIN Recorded(d) /\ Recorded(d)'[i] = Recorded(d)[i]
    BY <1>2
  <2>4. e # w => j \in DOMAIN Recorded(e) /\ Recorded(e)'[j] = Recorded(e)[j]
    BY <1>2
  <2>5. CASE d = w /\ i = Len(Recorded(w)) + 1
    BY <2>1, <2>2, <2>4, <2>5
  <2>6. CASE e = w /\ j = Len(Recorded(w)) + 1
    BY <2>1, <2>2, <2>3, <2>6
  <2>7. CASE ~(d = w /\ i = Len(Recorded(w)) + 1) /\ ~(e = w /\ j = Len(Recorded(w)) + 1)
    <3>1. i \in DOMAIN Recorded(d) /\ Recorded(d)'[i] = Recorded(d)[i]
      BY <2>2, <2>3, <2>7
    <3>2. j \in DOMAIN Recorded(e) /\ Recorded(e)'[j] = Recorded(e)[j]
      BY <2>2, <2>4, <2>7
    <3>3. Recorded(d)[i] = Recorded(e)[j]
      BY <3>1, <3>2
    <3>4. \A k \in DOMAIN Recorded(d), l \in DOMAIN Recorded(e) :
            Recorded(d)[k] = Recorded(e)[l] => d = e /\ k = l
      BY DEF JournalInv
    <3> QED
      BY <3>1, <3>2, <3>3, <3>4
  <2> QED
    BY <2>5, <2>6, <2>7
<1> QED
  BY <1>1, <1>2, RecordsGrow

\* A plain file is removed by the job that has its day at its head.
LEMMA RemovalIsAtHead ==
  ASSUME BaseInv, RemovePlain
  PROVE  \E d \in Day : d = Earliest(job.todo)
<1>1. Working /\ job.todo # {} /\ job.todo \in SUBSET Day
  BY JobIs DEF RemovePlain, JobInv, Working, BaseInv
<1> QED
  BY <1>1, EarliestIsFirst

\* Only a fault comes between an archive and the removal of its plain file.
LEMMA UnlinkWaits ==
  ASSUME StoreTypeOK, [StoreNext]_storeVars, Working, job.stage = "unlink", ~RemovePlain, faults' = 0
  PROVE  job' = job
<1>1. NoJob.kind = "none"
  BY DEF NoJob
<1>2. ~Fault
  BY LogAssumption DEF Fault, StoreTypeOK
<1>3. ~JobFails /\ ~Crash /\ ~(\E d \in Day : CompareFails(d))
  BY <1>2 DEF JobFails, Crash, CompareFails
<1>4. ASSUME NEW d \in Day PROVE ~MakeArchive(d) /\ ~RemoveCopy(d) /\ ~KeepBoth(d)
  BY DEF MakeArchive, RemoveCopy, KeepBoth, Compressing
<1>5. ~EnterDay /\ ~WriteEntry /\ ~BeginAppend /\ ~BeginRotation /\ ~Open
  BY <1>1 DEF EnterDay, WriteEntry, BeginAppend, BeginRotation, Open, Working
<1>6. TimerFires \/ Close \/ Midnight \/ ClockSetBack \/ ReadNewest \/ ReadOlder \/ UNCHANGED storeVars
  BY <1>3, <1>4, <1>5 DEF StoreNext, Work
<1> QED
  BY <1>6 DEF TimerFires, Close, Midnight, ClockSetBack, ReadNewest, ReadOlder, storeVars

\* A copy takes two files.
LEMMA CopiedIs ==
  ASSUME BaseInv, NEW d \in Day
  PROVE  /\ gz[d] = NoFile => ~Copied(d)
         /\ plain[d] = NoFile => ~Copied(d)
<1>1. Content(NoFile) = <<>> /\ Len(<<>>) = 0
  BY DEF Content
<1>2. ASSUME plain[d] = NoFile, Copied(d) PROVE FALSE
  <2>1. Content(gz[d]) \in Seq(Entry) /\ Content(gz[d]) # <<>> /\ Len(Content(gz[d])) <= 0
    BY <1>1, <1>2, Contents DEF Copied, BaseInv
  <2> QED
    BY <2>1
<1> QED
  BY <1>1, <1>2 DEF Copied

\* A day whose plain file is removed is in one file.
LEMMA RemovedIsNoCopy ==
  ASSUME BaseInv, NEW d \in Day, Unlinked(d)
  PROVE  ~Copied(d)'
<1>1. plain'[d] = NoFile /\ gz'[d] = gz[d] /\ Content(NoFile) = <<>> /\ Len(<<>>) = 0
  BY DEF Unlinked, BaseInv, StoreTypeOK, Content
<1>2. Copied(d)' => Content(gz[d]) # <<>> /\ Len(Content(gz[d])) <= 0
  BY <1>1 DEF Copied, Content
<1>3. Content(gz[d]) \in Seq(Entry)
  BY Contents DEF BaseInv
<1> QED
  BY <1>2, <1>3

\* A write neither makes nor ends a copy, and other steps make one only with an archive.
LEMMA CopiesStay ==
  ASSUME BaseInv, [StoreNext]_storeVars, NEW d \in Day, Copied(d)'
  PROVE  \/ Copied(d)
         \/ MakeArchive(d)
<1> SUFFICES ASSUME ~MakeArchive(d) PROVE Copied(d)
  OBVIOUS
<1> DEFINE Copy(a, b) == a # <<>> /\ Len(a) <= Len(b) /\ SubSeq(b, 1, Len(a)) = a
<1>1. /\ Copied(d) = Copy(Content(gz[d]), Content(plain[d]))
      /\ Copied(d)' = Copy(Content(gz'[d]), Content(plain'[d]))
  BY DEF Copied, Content
<1>2. CASE gz'[d] = gz[d] /\ plain'[d] = plain[d]
  BY <1>1, <1>2
<1>3. CASE WriteEntry
  <2>1. PICK w \in Day : Wrote(w)
    BY <1>3, WriteAppends
  <2>2. CASE w # d
    BY <1>2, <2>1, <2>2 DEF Wrote
  <2>3. CASE w = d
    <3>1. Content(plain'[d]) = Append(Content(plain[d]), written + 1) /\ gz'[d] = gz[d] /\ written + 1 \in Entry
      BY <2>1, <2>3 DEF Wrote
    <3>2. Content(gz[d]) \in Seq(Entry) /\ Content(plain[d]) \in Seq(Entry)
      BY Contents DEF BaseInv
    <3>3. \A k \in 1..Len(Content(gz[d])) : Content(gz[d])[k] # written + 1
      BY NextIsNew
    <3> QED
      BY <1>1, <3>1, <3>2, <3>3, MergedGrows
  <2> QED
    BY <2>2, <2>3
<1>4. ASSUME NEW e \in Day, MakeArchive(e) PROVE Copied(d)
  BY <1>2, <1>4 DEF MakeArchive, BaseInv, StoreTypeOK
<1>5. ASSUME NEW e \in Day, Unlinked(e) PROVE Copied(d)
  <2>1. d # e
    BY <1>5, RemovedIsNoCopy
  <2> QED
    BY <1>2, <1>5, <2>1 DEF Unlinked, BaseInv, StoreTypeOK
<1>6. CASE RemovePlain
  <2>1. PICK e \in Day : e = Earliest(job.todo)
    BY <1>6, RemovalIsAtHead
  <2> QED
    BY <1>5, <1>6, <2>1, JobMoves
<1>7. CASE \E e \in Day : RemoveCopy(e)
  BY <1>5, <1>7, JobMoves
<1> QED
  BY <1>2, <1>3, <1>4, <1>6, <1>7, FilesStay

\* Faults do not go away.
LEMMA FaultsAreCounted ==
  ASSUME StoreTypeOK, [StoreNext]_storeVars
  PROVE  /\ faults' \in Nat /\ faults <= faults'
         /\ rollbacks' \in Nat /\ rollbacks <= rollbacks'
<1>1. faults \in Nat /\ rollbacks \in Nat
  BY DEF StoreTypeOK
<1>2. faults' = faults \/ faults' = faults + 1
  BY DEF StoreNext, Work, BeginAppend, BeginRotation, TimerFires, MakeArchive, RemoveCopy, RemovePlain, KeepBoth,
         CompareFails, EnterDay, WriteEntry, JobFails, Crash, Fault, Close, Open, Midnight, ClockSetBack,
         ReadNewest, ReadOlder, storeVars
<1>3. rollbacks' = rollbacks \/ rollbacks' = rollbacks + 1
  BY DEF StoreNext, Work, BeginAppend, BeginRotation, TimerFires, MakeArchive, RemoveCopy, RemovePlain, KeepBoth,
         CompareFails, EnterDay, WriteEntry, JobFails, Crash, GoesBack, Close, Open, Midnight, ClockSetBack,
         ReadNewest, ReadOlder, storeVars, world
<1> QED
  BY <1>1, <1>2, <1>3

\* Without a fault a copy is one that is about to be removed.
LEMMA CleanInvKept ==
  ASSUME BaseInv, CleanInv, [StoreNext]_storeVars
  PROVE  CleanInv'
<1> SUFFICES ASSUME faults' = 0, NEW d \in Day, Copied(d)'
             PROVE  (Working /\ job.stage = "unlink" /\ d = Earliest(job.todo))'
  BY DEF CleanInv
<1>1. faults = 0 /\ StoreTypeOK
  BY FaultsAreCounted DEF BaseInv, StoreTypeOK
<1>2. CASE MakeArchive(d)
  <2>1. AtHead(d) /\ GoesOn("unlink", job.todo)
    BY <1>2, JobMoves
  <2> QED
    BY <2>1 DEF AtHead, GoesOn
<1>3. CASE Copied(d) /\ ~MakeArchive(d)
  <2>1. Working /\ job.stage = "unlink" /\ d = Earliest(job.todo)
    BY <1>1, <1>3 DEF CleanInv
  <2>2. ~RemovePlain
    BY <2>1, JobMoves, RemovedIsNoCopy
  <2>3. job' = job
    BY <1>1, <2>1, <2>2, UnlinkWaits
  <2> QED
    BY <2>1, <2>3 DEF Working
<1> QED
  BY <1>2, <1>3, CopiesStay

--------------------------------------------------------------------------------
(* Paging *)

\* A line that is there stays, at its place or above it.
LEMMA LinesStay ==
  ASSUME BaseInv, [StoreNext]_storeVars, NEW d \in Day, NEW k \in 1..Len(Lines(d))
  PROVE  \E l \in 1..Len(Lines(d)') : l <= k /\ Lines(d)'[l] = Lines(d)[k]
<1> DEFINE a == Content(gz[d])
           b == Content(plain[d])
<1>1. /\ a \in Seq(Entry) /\ b \in Seq(Entry) /\ Len(a) \in Nat /\ Len(b) \in Nat
      /\ Lines(d) = a \o b /\ Len(Lines(d)) = Len(a) + Len(b)
      /\ Lines(d)[k] = IF k <= Len(a) THEN a[k] ELSE b[k - Len(a)]
      /\ k \in Nat
  BY Contents DEF BaseInv, Lines
<1>2. Lines(d)' = Content(gz'[d]) \o Content(plain'[d])
  BY DEF Lines, Content
<1>3. Content(NoFile) = <<>> /\ <<>> \o b = b /\ a \o <<>> = a
  BY <1>1, ConcatEmptySeq DEF Content
<1>4. CASE gz'[d] = gz[d] /\ plain'[d] = plain[d]
  BY <1>1, <1>2, <1>4
<1>5. CASE WriteEntry
  <2>1. PICK w \in Day : Wrote(w)
    BY <1>5, WriteAppends
  <2>2. CASE w # d
    BY <1>4, <2>1, <2>2 DEF Wrote
  <2>3. CASE w = d
    <3>1. Lines(d)' = a \o Append(b, written + 1) /\ written + 1 \in Entry
      BY <1>2, <2>1, <2>3 DEF Wrote
    <3>2. a \o Append(b, written + 1) = Append(a \o b, written + 1) /\ a \o b \in Seq(Entry)
      BY <1>1, <3>1
    <3>3. Len(Lines(d)') = Len(Lines(d)) + 1 /\ Lines(d)'[k] = Lines(d)[k]
      BY <1>1, <3>1, <3>2, AppendProperties
    <3> QED
      BY <1>1, <3>3
  <2> QED
    BY <2>2, <2>3
<1>6. ASSUME NEW e \in Day, Archived(e)
      PROVE  \E l \in 1..Len(Lines(d)') : l <= k /\ Lines(d)'[l] = Lines(d)[k]
  <2>1. CASE e # d
    BY <1>4, <1>6, <2>1 DEF Archived, BaseInv, StoreTypeOK
  <2>2. CASE e = d
    <3>1. a = <<>> /\ Content(gz'[d]) = b /\ plain'[d] = plain[d]
      BY <1>3, <1>6, <2>2 DEF Archived, BaseInv, StoreTypeOK
    <3>2. Lines(d)' = b \o b /\ Lines(d) = b
      BY <1>1, <1>2, <1>3, <3>1
    <3>3. Len(Lines(d)') = Len(b) + Len(b) /\ Lines(d)'[k] = b[k]
      BY <1>1, <3>2, ConcatProperties
    <3> QED
      BY <1>1, <3>2, <3>3
  <2> QED
    BY <2>1, <2>2
<1>7. ASSUME NEW e \in Day, Unlinked(e)
      PROVE  \E l \in 1..Len(Lines(d)') : l <= k /\ Lines(d)'[l] = Lines(d)[k]
  <2>1. CASE e # d
    BY <1>4, <1>7, <2>1 DEF Unlinked, BaseInv, StoreTypeOK
  <2>2. CASE e = d
    <3>1. a = b /\ Content(gz'[d]) = a /\ Content(plain'[d]) = <<>>
      BY <1>3, <1>7, <2>2 DEF Unlinked, BaseInv, StoreTypeOK
    <3>2. Lines(d)' = a
      BY <1>2, <1>3, <3>1
    <3>3. CASE k <= Len(a)
      BY <1>1, <3>2, <3>3
    <3>4. CASE k > Len(a)
      <4>1. k - Len(a) \in 1..Len(a) /\ k - Len(a) <= k /\ a[k - Len(a)] = Lines(d)[k]
        BY <1>1, <3>1, <3>4
      <4> QED
        BY <3>2, <4>1
    <3> QED
      BY <1>1, <3>3, <3>4
  <2> QED
    BY <2>1, <2>2
<1> QED
  BY <1>4, <1>5, <1>6, <1>7, FilesChange

\* A record that is there stays.
LEMMA RecordsStay ==
  ASSUME BaseInv, [StoreNext]_storeVars, NEW d \in Day, NEW k \in DOMAIN Recorded(d)
  PROVE  k \in DOMAIN Recorded(d)' /\ Recorded(d)'[k] = Recorded(d)[k]
<1>1. CASE Recorded(d)' = Recorded(d)
  BY <1>1
<1>2. CASE Recorded(d)' = Append(Recorded(d), written + 1) /\ written + 1 \in Entry
  BY <1>2, RecordsArePast, AppendProperties
<1> QED
  BY <1>1, <1>2, RecordsGrow DEF Wrote

\* What is not on a page is before it; nothing on it is before its oldest.
LEMMA PageSplits ==
  ASSUME BaseInv, NEW S \in SUBSET Positions
  PROVE  /\ Page(S) \in SUBSET S
         /\ Page(S) # {} => Oldest(Page(S)) \in Page(S)
         /\ \A p \in Page(S) : ~IsBefore(p, Oldest(Page(S)))
         /\ \A e \in EntriesAt(S) \ EntriesAt(Page(S)) :
              /\ Page(S) # {} /\ Page(S) # S
              /\ \E p \in S : IsBefore(p, Oldest(Page(S))) /\ Lines(p.day)[p.line] = e
<1> DEFINE page == Page(S)
<1>1. S \in SUBSET Position /\ IsFiniteSet(S)
  BY PositionsAre, FS_Subset DEF BaseInv
<1>2. /\ page \in SUBSET S /\ (S # {} => page # {})
      /\ \A p \in S \ page, q \in page : IsBefore(p, q)
  BY <1>1, PageIsNewest
<1>3. page # {} => /\ Oldest(page) \in page
                   /\ \A q \in page \ {Oldest(page)} : IsBefore(Oldest(page), q)
  BY <1>1, <1>2, OldestIsFirst
<1> HIDE DEF page
<1>4. ASSUME NEW p \in page PROVE ~IsBefore(p, Oldest(page))
  <2>1. p \in Position /\ Oldest(page) \in Position /\ (p = Oldest(page) \/ IsBefore(Oldest(page), p))
    BY <1>1, <1>2, <1>3
  <2> QED
    BY <2>1, OneOrder
<1>5. ASSUME NEW e \in EntriesAt(S) \ EntriesAt(page)
      PROVE  /\ page # {} /\ page # S
             /\ \E p \in S : IsBefore(p, Oldest(page)) /\ Lines(p.day)[p.line] = e
  <2>1. PICK p \in S : Lines(p.day)[p.line] = e
    BY DEF EntriesAt
  <2>2. p \notin page
    BY <2>1 DEF EntriesAt
  <2>3. IsBefore(p, Oldest(page))
    BY <1>2, <1>3, <2>2
  <2> QED
    BY <1>2, <2>1, <2>2, <2>3
<1> QED
  BY <1>2, <1>3, <1>4, <1>5 DEF page

\* The lines of a day that has no copy are its record.
LEMMA UncopiedLines ==
  ASSUME BaseInv, NEW d \in Day, ~Copied(d)
  PROVE  Lines(d) = Recorded(d)
<1> DEFINE a == Content(gz[d])
           b == Content(plain[d])
<1>1. a \in Seq(Entry) /\ b \in Seq(Entry) /\ Lines(d) = a \o b /\ Recorded(d) = Merged(a, b)
  BY Contents DEF BaseInv, Lines
<1>2. a = <<>> \/ ~(Len(a) <= Len(b) /\ SubSeq(b, 1, Len(a)) = a)
  BY DEF Copied
<1> HIDE DEF a, b
<1>3. CASE a = <<>>
  <2>1. <<>> \o b = b /\ Merged(<<>>, b) = b
    BY <1>1, ConcatEmptySeq, MergedFiles
  <2> QED
    BY <1>1, <1>3, <2>1
<1>4. CASE ~(Len(a) <= Len(b) /\ SubSeq(b, 1, Len(a)) = a)
  BY <1>1, <1>4 DEF Merged
<1> QED
  BY <1>2, <1>3, <1>4

\* Without a fault, and between the jobs, that is every day.
LEMMA LinesAreRecords ==
  ASSUME BaseInv, CleanInv, faults = 0, ~(Working /\ job.stage = "unlink"), NEW d \in Day
  PROVE  Lines(d) = Recorded(d)
BY UncopiedLines DEF CleanInv

\* Then no two positions hold the same entry, and a page has as many entries as lines.
LEMMA EntriesOnce ==
  ASSUME BaseInv, JournalInv, CleanInv, faults = 0, ~(Working /\ job.stage = "unlink"),
         NEW S \in SUBSET Positions
  PROVE  Cardinality(EntriesAt(S)) = Cardinality(S)
<1>1. /\ S \in SUBSET Position /\ IsFiniteSet(S)
      /\ \A p \in S : p.day \in Day /\ p.line \in 1..Len(Lines(p.day))
  BY PositionsAre, FS_Subset DEF BaseInv
<1>2. \A d \in Day : Lines(d) = Recorded(d) /\ DOMAIN Recorded(d) = 1..Len(Lines(d))
  BY LinesAreRecords, RecordsArePast
<1>3. ASSUME NEW p \in S, NEW q \in S, Lines(p.day)[p.line] = Lines(q.day)[q.line]
      PROVE  p = q
  <2>1. p.day = q.day /\ p.line = q.line
    BY <1>1, <1>2, <1>3 DEF JournalInv
  <2> QED
    BY <1>1, <2>1 DEF Position
<1> DEFINE f == [p \in S |-> Lines(p.day)[p.line]]
<1>4. f \in Bijection(S, EntriesAt(S))
  <2>1. f \in [S -> EntriesAt(S)] /\ \A e \in EntriesAt(S) : \E p \in S : f[p] = e
    BY DEF EntriesAt
  <2>2. \A p, q \in S : f[p] = f[q] => p = q
    BY <1>3
  <2> HIDE DEF f
  <2>3. f \in Injection(S, EntriesAt(S))
    BY <2>1, <2>2 DEF Injection, IsInjective
  <2>4. f \in Surjection(S, EntriesAt(S))
    BY <2>1 DEF Surjection
  <2> QED
    BY <2>3, <2>4 DEF Bijection
<1> QED
  BY <1>1, <1>4, FS_Bijection DEF ExistsBijection

\* What the reader has not seen stays before its cursor, and what it has seen behind it.
LEMMA ReaderStays ==
  ASSUME BaseInv, ReaderInv, [StoreNext]_storeVars, reader' = reader
  PROVE  ReaderInv'
<1>1. UnreadInv'
  <2> SUFFICES ASSUME reader # NoReader, NEW e \in reader.existing \ reader.read
               PROVE  reader.more /\ \E p \in Positions' : IsBefore(p, reader.before) /\ Lines(p.day)'[p.line] = e
    BY DEF UnreadInv
  <2>1. reader.more
    BY DEF ReaderInv, UnreadInv
  <2>2. PICK p \in Positions : IsBefore(p, reader.before) /\ Lines(p.day)[p.line] = e
    BY DEF ReaderInv, UnreadInv
  <2>3. p.day \in Day /\ p.line \in 1..Len(Lines(p.day)) /\ p \in Position
    BY PositionsAre DEF BaseInv
  <2>4. PICK l \in 1..Len(Lines(p.day)') : l <= p.line /\ Lines(p.day)'[l] = Lines(p.day)[p.line]
    BY <2>3, LinesStay
  <2> DEFINE q == [day |-> p.day, line |-> l]
  <2>5. q \in Positions'
    <3>1. p.line \in 1..(2 * MaxEntries) /\ p.line \in Nat /\ l \in Nat /\ l >= 1
      BY <2>3, <2>4 DEF Positions, Position
    <3>2. MaxEntries \in Nat
      BY LogAssumption
    <3>3. l \in 1..(2 * MaxEntries)
      BY <2>4, <3>1, <3>2
    <3>4. l <= Len(Lines(p.day)')
      BY <2>4
    <3> QED
      BY <2>3, <3>3, <3>4 DEF Positions
  <2>6. IsBefore(q, reader.before)
    <3>1. p.day \in Nat /\ p.line \in Nat /\ l \in Nat /\ reader.before.day \in Nat /\ reader.before.line \in Nat
      BY <2>3, <2>4 DEF BaseInv, StoreTypeOK, Position, Day
    <3> QED
      BY <2>2, <2>4, <3>1 DEF IsBefore
  <2>7. Lines(q.day)'[q.line] = e
    BY <2>2, <2>4
  <2> QED
    BY <2>1, <2>5, <2>6, <2>7
<1>2. SeenInv'
  <2> SUFFICES ASSUME reader # NoReader, faults' = 0
               PROVE  /\ ~reader.twice
                      /\ \A e \in reader.read : \E d \in Day : \E k \in DOMAIN Recorded(d)' :
                           ~IsBefore([day |-> d, line |-> k], reader.before) /\ Recorded(d)'[k] = e
    BY DEF SeenInv
  <2>1. faults = 0
    BY FaultsAreCounted DEF BaseInv, StoreTypeOK
  <2>2. /\ ~reader.twice
        /\ \A e \in reader.read : \E d \in Day : \E k \in DOMAIN Recorded(d) :
             ~IsBefore([day |-> d, line |-> k], reader.before) /\ Recorded(d)[k] = e
    BY <2>1 DEF ReaderInv, SeenInv
  <2>3. \A d \in Day : \A k \in DOMAIN Recorded(d) :
          k \in DOMAIN Recorded(d)' /\ Recorded(d)'[k] = Recorded(d)[k]
    BY RecordsStay
  <2>4. ASSUME NEW e \in reader.read
        PROVE  \E d \in Day : \E k \in DOMAIN Recorded(d)' :
                 ~IsBefore([day |-> d, line |-> k], reader.before) /\ Recorded(d)'[k] = e
    <3>1. PICK d \in Day : \E k \in DOMAIN Recorded(d) :
                 ~IsBefore([day |-> d, line |-> k], reader.before) /\ Recorded(d)[k] = e
      BY <2>2
    <3>2. PICK k \in DOMAIN Recorded(d) :
                 ~IsBefore([day |-> d, line |-> k], reader.before) /\ Recorded(d)[k] = e
      BY <3>1
    <3>3. k \in DOMAIN Recorded(d)' /\ Recorded(d)'[k] = e
      BY <2>3, <3>2
    <3> QED
      BY <3>2, <3>3
  <2> QED
    BY <2>2, <2>4
<1> QED
  BY <1>1, <1>2 DEF ReaderInv

\* The newest page begins the tour.
LEMMA NewestKeepsReader ==
  ASSUME BaseInv, JournalInv, CleanInv, ReadNewest
  PROVE  ReaderInv'
<1> DEFINE page == Page(Positions)
<1>1. /\ page \in SUBSET Positions
      /\ page # {} => Oldest(page) \in page
      /\ \A p \in page : ~IsBefore(p, Oldest(page))
      /\ \A e \in EntriesAt(Positions) \ EntriesAt(page) :
           /\ page # {} /\ page # Positions
           /\ \E p \in Positions : IsBefore(p, Oldest(page)) /\ Lines(p.day)[p.line] = e
  BY PageSplits
<1>2. /\ UNCHANGED <<plain, gz, faults>> /\ ~(Working /\ job.stage = "unlink")
      /\ reader' = [existing |-> EntriesAt(Positions), read |-> EntriesAt(page),
                    twice |-> Cardinality(EntriesAt(page)) # Cardinality(page),
                    before |-> Oldest(page), more |-> page # Positions]
  BY DEF ReadNewest, Working, NoJob
<1> HIDE DEF page
<1>3. /\ reader'.existing = EntriesAt(Positions) /\ reader'.read = EntriesAt(page)
      /\ reader'.twice = (Cardinality(EntriesAt(page)) # Cardinality(page))
      /\ reader'.before = Oldest(page) /\ reader'.more = (page # Positions)
  BY <1>2
<1>4. \A d : Lines(d)' = Lines(d) /\ Recorded(d)' = Recorded(d)
  BY <1>2 DEF Lines, Recorded, Content
<1>5. Positions' = Positions
  BY <1>4 DEF Positions
<1>6. UnreadInv'
  BY <1>1, <1>3, <1>4, <1>5 DEF UnreadInv
<1>7. SeenInv'
  <2> SUFFICES ASSUME faults' = 0, reader' # NoReader
               PROVE  /\ ~reader'.twice
                      /\ \A e \in reader'.read : \E d \in Day : \E k \in DOMAIN Recorded(d)' :
                           ~IsBefore([day |-> d, line |-> k], reader'.before) /\ Recorded(d)'[k] = e
    BY DEF SeenInv
  <2>1. Cardinality(EntriesAt(page)) = Cardinality(page) /\ faults = 0
    BY <1>1, <1>2, EntriesOnce
  <2>2. ASSUME NEW e \in EntriesAt(page)
        PROVE  \E d \in Day : \E k \in DOMAIN Recorded(d)' :
                 ~IsBefore([day |-> d, line |-> k], reader'.before) /\ Recorded(d)'[k] = e
    <3>1. PICK p \in page : Lines(p.day)[p.line] = e
      BY DEF EntriesAt
    <3>2. p.day \in Day /\ p.line \in 1..Len(Lines(p.day)) /\ p \in Position
      BY <1>1, PositionsAre DEF BaseInv
    <3>3. Lines(p.day) = Recorded(p.day) /\ DOMAIN Recorded(p.day) = 1..Len(Recorded(p.day))
      BY <1>2, <2>1, <3>2, LinesAreRecords, RecordsArePast
    <3>4. p = [day |-> p.day, line |-> p.line]
      BY <3>2 DEF Position
    <3> QED
      BY <1>1, <1>3, <1>4, <3>1, <3>2, <3>3, <3>4
  <2> QED
    BY <1>3, <2>1, <2>2
<1> QED
  BY <1>6, <1>7 DEF ReaderInv

\* An older page takes up where the last one ended.
LEMMA OlderKeepsReader ==
  ASSUME BaseInv, JournalInv, CleanInv, ReaderInv, ReadOlder
  PROVE  ReaderInv'
<1> DEFINE rest == Older(reader.before)
           page == Page(rest)
           new  == EntriesAt(page)
<1>1. /\ rest \in SUBSET Positions
      /\ \A p \in Positions : p \in rest <=> IsBefore(p, reader.before)
  BY DEF Older
<1>2. /\ page \in SUBSET rest
      /\ page # {} => Oldest(page) \in page
      /\ \A p \in page : ~IsBefore(p, Oldest(page))
      /\ \A e \in EntriesAt(rest) \ new :
           /\ page # {} /\ page # rest
           /\ \E p \in rest : IsBefore(p, Oldest(page)) /\ Lines(p.day)[p.line] = e
  BY <1>1, PageSplits
<1>3. /\ UNCHANGED <<plain, gz, faults>> /\ ~(Working /\ job.stage = "unlink") /\ reader # NoReader
      /\ reader' = [reader EXCEPT
           !.read = reader.read \cup new,
           !.twice = reader.twice \/ Cardinality(new) # Cardinality(page) \/ new \cap reader.read # {},
           !.before = IF page = {} THEN reader.before ELSE Oldest(page),
           !.more = page # rest]
  BY DEF ReadOlder, Working, NoJob
<1>4. reader \in [existing : SUBSET Entry, read : SUBSET Entry, twice : BOOLEAN,
                  before : Position, more : BOOLEAN]
  BY <1>3 DEF BaseInv, StoreTypeOK
<1> HIDE DEF rest, page, new
<1>5. /\ reader'.existing = reader.existing /\ reader'.read = reader.read \cup new
      /\ reader'.twice = (reader.twice \/ Cardinality(new) # Cardinality(page) \/ new \cap reader.read # {})
      /\ reader'.before = IF page = {} THEN reader.before ELSE Oldest(page)
      /\ reader'.more = (page # rest)
  BY <1>3, <1>4
<1>6. \A d : Lines(d)' = Lines(d) /\ Recorded(d)' = Recorded(d)
  BY <1>3 DEF Lines, Recorded, Content
<1>7. Positions' = Positions
  BY <1>6 DEF Positions
<1>8. UnreadInv'
  <2> SUFFICES ASSUME NEW e \in reader'.existing \ reader'.read
               PROVE  reader'.more /\ \E p \in Positions' : IsBefore(p, reader'.before) /\ Lines(p.day)'[p.line] = e
    BY DEF UnreadInv
  <2>1. e \in reader.existing \ reader.read /\ e \notin new
    BY <1>5
  <2>2. PICK p \in Positions : IsBefore(p, reader.before) /\ Lines(p.day)[p.line] = e
    BY <1>3, <2>1 DEF ReaderInv, UnreadInv
  <2>3. p \in rest /\ e \in EntriesAt(rest)
    BY <1>1, <2>2 DEF EntriesAt
  <2> QED
    BY <1>1, <1>2, <1>5, <1>6, <1>7, <2>1, <2>3
<1>9. SeenInv'
  <2> SUFFICES ASSUME faults' = 0, reader' # NoReader
               PROVE  /\ ~reader'.twice
                      /\ \A e \in reader'.read : \E d \in Day : \E k \in DOMAIN Recorded(d)' :
                           ~IsBefore([day |-> d, line |-> k], reader'.before) /\ Recorded(d)'[k] = e
    BY DEF SeenInv
  <2>1. faults = 0 /\ page \in SUBSET Positions
    BY <1>1, <1>2, <1>3
  <2>2. Cardinality(new) = Cardinality(page)
    BY <1>3, <2>1, EntriesOnce DEF new
  <2>3. /\ ~reader.twice
        /\ \A e \in reader.read : \E d \in Day : \E k \in DOMAIN Recorded(d) :
             ~IsBefore([day |-> d, line |-> k], reader.before) /\ Recorded(d)[k] = e
    BY <1>3, <2>1 DEF ReaderInv, SeenInv
  <2>4. ASSUME NEW e \in new
        PROVE  \E d \in Day : \E k \in DOMAIN Recorded(d) :
                 /\ [day |-> d, line |-> k] \in page /\ Recorded(d)[k] = e
    <3>1. PICK p \in page : Lines(p.day)[p.line] = e
      BY DEF EntriesAt, new
    <3>2. p.day \in Day /\ p.line \in 1..Len(Lines(p.day)) /\ p \in Position
      BY <2>1, PositionsAre DEF BaseInv
    <3>3. Lines(p.day) = Recorded(p.day) /\ DOMAIN Recorded(p.day) = 1..Len(Recorded(p.day))
      BY <1>3, <2>1, <3>2, LinesAreRecords, RecordsArePast
    <3>4. p = [day |-> p.day, line |-> p.line]
      BY <3>2 DEF Position
    <3> QED
      BY <3>1, <3>2, <3>3, <3>4
  <2>5. new \cap reader.read = {}
    <3> SUFFICES ASSUME NEW e \in new, e \in reader.read PROVE FALSE
      OBVIOUS
    <3>1. PICK d \in Day : \E k \in DOMAIN Recorded(d) :
                 /\ [day |-> d, line |-> k] \in page /\ Recorded(d)[k] = e
      BY <2>4
    <3>2. PICK k \in DOMAIN Recorded(d) : [day |-> d, line |-> k] \in page /\ Recorded(d)[k] = e
      BY <3>1
    <3>3. PICK c \in Day : \E l \in DOMAIN Recorded(c) :
             ~IsBefore([day |-> c, line |-> l], reader.before) /\ Recorded(c)[l] = e
      BY <2>3
    <3>4. PICK l \in DOMAIN Recorded(c) :
             ~IsBefore([day |-> c, line |-> l], reader.before) /\ Recorded(c)[l] = e
      BY <3>3
    <3>5. d = c /\ k = l
      BY <3>2, <3>4 DEF JournalInv
    <3>6. IsBefore([day |-> d, line |-> k], reader.before)
      BY <1>1, <1>2, <2>1, <3>2
    <3> QED
      BY <3>4, <3>5, <3>6
  <2>6. ASSUME NEW e \in reader'.read
        PROVE  \E d \in Day : \E k \in DOMAIN Recorded(d)' :
                 ~IsBefore([day |-> d, line |-> k], reader'.before) /\ Recorded(d)'[k] = e
    <3>1. CASE e \in new
      <4>1. PICK d \in Day : \E k \in DOMAIN Recorded(d) :
                 /\ [day |-> d, line |-> k] \in page /\ Recorded(d)[k] = e
        BY <2>4, <3>1
      <4>2. PICK k \in DOMAIN Recorded(d) : [day |-> d, line |-> k] \in page /\ Recorded(d)[k] = e
        BY <4>1
      <4>3. ~IsBefore([day |-> d, line |-> k], reader'.before)
        BY <1>2, <1>5, <4>2
      <4> QED
        BY <1>6, <4>2, <4>3
    <3>2. CASE e \in reader.read
      <4>1. PICK d \in Day : \E k \in DOMAIN Recorded(d) :
             ~IsBefore([day |-> d, line |-> k], reader.before) /\ Recorded(d)[k] = e
        BY <2>3, <3>2
      <4>2. PICK k \in DOMAIN Recorded(d) :
             ~IsBefore([day |-> d, line |-> k], reader.before) /\ Recorded(d)[k] = e
        BY <4>1
      <4>3. ~IsBefore([day |-> d, line |-> k], reader'.before)
        <5>1. CASE page = {}
          BY <1>5, <4>2, <5>1
        <5>2. CASE page # {}
          <6>1. Oldest(page) \in Position /\ IsBefore(Oldest(page), reader.before)
            BY <1>1, <1>2, <2>1, <5>2, PositionsAre DEF BaseInv
          <6>2. [day |-> d, line |-> k] \in Position /\ reader.before \in Position
            BY <1>4, <4>2, RecordsArePast DEF Position
          <6> QED
            BY <1>5, <4>2, <5>2, <6>1, <6>2, OneOrder
        <5> QED
          BY <5>1, <5>2
      <4> QED
        BY <1>6, <4>2, <4>3
    <3> QED
      BY <1>5, <3>1, <3>2
  <2> QED
    BY <1>5, <2>2, <2>3, <2>5, <2>6
<1> QED
  BY <1>8, <1>9 DEF ReaderInv

\* The invariants of the journal and its readers.
ReadInv == BaseInv /\ JournalInv /\ CleanInv /\ ReaderInv

\* They are inductive.
LEMMA ReadInvKept == ReadInv /\ [StoreNext]_storeVars => ReadInv'
<1> SUFFICES ASSUME ReadInv, [StoreNext]_storeVars PROVE ReadInv'
  OBVIOUS
<1>1. BaseInv /\ JournalInv /\ CleanInv /\ ReaderInv
  BY DEF ReadInv
<1>2. BaseInv' /\ JournalInv' /\ CleanInv'
  BY <1>1, BaseKept, JournalInvKept, CleanInvKept
<1>3. reader' = reader \/ ReadNewest \/ ReadOlder
  BY DEF StoreNext, Work, BeginAppend, BeginRotation, TimerFires, MakeArchive, RemoveCopy, RemovePlain, KeepBoth,
         CompareFails, EnterDay, WriteEntry, JobFails, Crash, Close, Open, Midnight, ClockSetBack, storeVars
<1>4. ReaderInv'
  BY <1>1, <1>3, ReaderStays, NewestKeepsReader, OlderKeepsReader
<1> QED
  BY <1>2, <1>4 DEF ReadInv

\* An empty directory, and nobody who reads.
LEMMA InitRead == StoreInit => ReadInv
<1> SUFFICES ASSUME StoreInit PROVE ReadInv
  OBVIOUS
<1>1. BaseInv
  BY InitBase
<1>2. \A d \in Day : gz[d] = NoFile /\ plain[d] = NoFile
  BY DEF StoreInit
<1>3. CleanInv
  BY <1>1, <1>2, CopiedIs DEF CleanInv
<1>4. \A d \in Day : Recorded(d) = <<>>
  BY <1>2 DEF Recorded, Content
<1>5. JournalInv
  BY <1>4 DEF JournalInv
<1>6. ReaderInv
  BY DEF StoreInit, ReaderInv, UnreadInv, SeenInv
<1> QED
  BY <1>1, <1>3, <1>5, <1>6 DEF ReadInv

(* A client that pages back by cursor, while entries are appended and days  *)
(* are rotated and compressed, has seen every entry there was when it       *)
(* began; and without a fault none of them twice (core/log-store.ts:        *)
(* readRecent, compressClosedDays).                                         *)
THEOREM PagesStayStable == StoreSpec => []PagesAreStable
<1>1. ReadInv => PagesAreStable
  BY DEF ReadInv, ReaderInv, UnreadInv, SeenInv, PagesAreStable
<1> QED
  BY <1>1, InitRead, ReadInvKept, PTL DEF StoreSpec

--------------------------------------------------------------------------------
(* Closed days *)

\* The days and the clock, as numbers.
LEMMA DaysAreNumbers ==
  ASSUME StoreTypeOK
  PROVE  /\ \A d \in Day : d \in Nat
         /\ activeDay \in Nat /\ clock \in Nat /\ (fired # NoDay => fired \in Day)
         /\ faults \in Nat /\ rollbacks \in Nat
BY DEF StoreTypeOK, Day

\* While the clock does not go back, neither does the store.
LEMMA ForwardKept ==
  ASSUME BaseInv, ForwardInv, [StoreNext]_storeVars
  PROVE  ForwardInv'
<1> SUFFICES ASSUME rollbacks' = 0
             PROVE  /\ activeDay' <= clock'
                    /\ fired' # NoDay => fired' <= clock'
                    /\ \A d \in Day : plain'[d] # NoFile => d <= activeDay'
                    /\ Working' =>
                         /\ activeDay' <= job'.day /\ job'.day <= clock'
                         /\ job'.stage = "write" \/ job'.kind = "start" => job'.day = activeDay'
  BY DEF ForwardInv
<1> DEFINE Onward == /\ activeDay' <= clock'
                     /\ fired' # NoDay => fired' <= clock'
                     /\ \A d \in Day : plain'[d] # NoFile => d <= activeDay'
                     /\ Working' =>
                          /\ activeDay' <= job'.day /\ job'.day <= clock'
                          /\ job'.stage = "write" \/ job'.kind = "start" => job'.day = activeDay'
<1>1. /\ \A d \in Day : d \in Nat
      /\ StoreTypeOK /\ activeDay \in Nat /\ clock \in Nat /\ (fired # NoDay => fired \in Nat)
      /\ Working => job.day \in Nat
  BY DaysAreNumbers, JobIs DEF BaseInv
<1>2. /\ rollbacks = 0 /\ ~GoesBack
  BY FaultsAreCounted DEF BaseInv, StoreTypeOK, GoesBack
<1>3. /\ activeDay <= clock
      /\ fired # NoDay => fired <= clock
      /\ \A d \in Day : plain[d] # NoFile => d <= activeDay
      /\ Working => /\ activeDay <= job.day /\ job.day <= clock
                    /\ job.stage = "write" \/ job.kind = "start" => job.day = activeDay
  BY <1>2 DEF ForwardInv
<1>4. job' = NoJob => ~Working'
  BY DEF NoJob, Working
<1>5. CASE BeginAppend
  <2>1. UNCHANGED <<plain, activeDay, fired, clock>>
    BY <1>5 DEF BeginAppend, world
  <2>2. \/ clock = activeDay /\ job'.day = clock
        \/ job'.day = clock /\ job'.stage = "compress" /\ job'.kind = "append"
    BY <1>5 DEF BeginAppend, Entering
  <2> QED
    BY <1>1, <1>3, <2>1, <2>2
<1>6. CASE BeginRotation
  <2>1. UNCHANGED <<plain, activeDay, clock>> /\ fired' = NoDay /\ fired # NoDay
    BY <1>6 DEF BeginRotation
  <2>2. fired >= activeDay
    BY <1>1, <1>2, <1>6 DEF BeginRotation
  <2>3. \/ job' = NoJob
        \/ job'.day = fired /\ job'.stage = "compress" /\ job'.kind = "rotate"
    BY <1>6 DEF BeginRotation, Entering
  <2> QED
    BY <1>1, <1>3, <1>4, <2>1, <2>2, <2>3
<1>7. CASE TimerFires
  <2>1. UNCHANGED <<plain, activeDay, clock, job>> /\ fired' = clock
    BY <1>7 DEF TimerFires, world
  <2> QED
    BY <1>1, <1>3, <2>1 DEF Working
<1>8. ASSUME NEW d \in Day, MakeArchive(d) \/ KeepBoth(d) \/ CompareFails(d) PROVE Onward
  <2>1. UNCHANGED <<plain, activeDay, fired, clock>>
    BY <1>8 DEF MakeArchive, KeepBoth, CompareFails, world
  <2>2. Working /\ job'.day = job.day /\ job'.kind = job.kind /\ job'.stage # "write"
    BY <1>8, JobMoves DEF GoesOn, AtHead
  <2> QED
    BY <1>3, <2>1, <2>2
<1>9. ASSUME NEW d \in Day, RemoveCopy(d) \/ (RemovePlain /\ d = Earliest(job.todo)) PROVE Onward
  <2>1. UNCHANGED <<activeDay, fired, clock>>
    BY <1>9 DEF RemoveCopy, RemovePlain, world
  <2>2. Working /\ job'.day = job.day /\ job'.kind = job.kind /\ job'.stage # "write" /\ Unlinked(d)
    BY <1>9, JobMoves DEF GoesOn, AtHead
  <2>3. \A e \in Day : plain'[e] # NoFile => plain[e] # NoFile
    BY <1>1, <2>2 DEF Unlinked, StoreTypeOK
  <2> QED
    BY <1>3, <2>1, <2>2, <2>3
<1>10. CASE RemovePlain
  BY <1>9, <1>10, RemovalIsAtHead
<1>11. CASE EnterDay
  <2>1. UNCHANGED <<plain, fired, clock>>
    BY <1>11 DEF EnterDay, world
  <2>2. \A d \in Day : /\ Working /\ activeDay' = job.day
                       /\ job' = NoJob \/ job'.day = job.day
    BY <1>11, JobMoves DEF GoesOn
  <2>3. Working /\ activeDay' = job.day /\ (job' = NoJob \/ job'.day = job.day)
    BY <2>2, LogAssumption DEF BaseInv, StoreTypeOK
  <2> QED
    BY <1>1, <1>3, <1>4, <2>1, <2>3
<1>12. CASE WriteEntry
  <2>1. UNCHANGED <<activeDay, fired, clock>>
    BY <1>12 DEF WriteEntry, world
  <2>2. PICK w \in Day : Wrote(w)
    BY <1>12, WriteAppends
  <2>3. w = activeDay /\ Working /\ \A d \in Day : plain'[d] # NoFile => plain[d] # NoFile \/ d = w
    BY <1>3, <2>2 DEF Wrote
  <2>4. job' = NoJob \/ job'.day = job.day
    BY <1>12, <2>2, JobMoves DEF GoesOn
  <2>5. job.day = activeDay
    BY <2>2, <2>3 DEF Wrote
  <2> QED
    BY <1>1, <1>3, <1>4, <2>1, <2>3, <2>4, <2>5
<1>13. CASE JobFails \/ Crash
  <2>1. UNCHANGED <<plain, activeDay, clock>> /\ (fired' = fired \/ fired' = NoDay) /\ job' = NoJob
    BY <1>13 DEF JobFails, Crash, world
  <2> QED
    BY <1>3, <1>4, <2>1
<1>14. CASE Open
  <2>1. UNCHANGED <<plain, fired, clock>> /\ activeDay' = clock /\ job'.day = clock
    BY <1>14 DEF Open, Entering, world
  <2>2. \A d \in Day : plain[d] # NoFile => d <= clock
    BY <1>1, <1>3
  <2> QED
    BY <1>1, <1>3, <2>1, <2>2
<1>15. CASE Midnight
  <2>1. UNCHANGED <<plain, fired, activeDay, job>> /\ clock' = clock + 1
    BY <1>15 DEF Midnight
  <2> QED
    BY <1>1, <1>3, <2>1 DEF Working
<1>16. CASE Close \/ ReadNewest \/ ReadOlder \/ UNCHANGED storeVars
  <2>1. UNCHANGED <<plain, fired, activeDay, job, clock>>
    BY <1>16 DEF Close, ReadNewest, ReadOlder, storeVars, world
  <2> QED
    BY <1>1, <1>3, <2>1 DEF Working
<1>17. ~ClockSetBack
  BY <1>2 DEF ClockSetBack
<1> QED
  BY <1>5, <1>6, <1>7, <1>8, <1>9, <1>10, <1>11, <1>12, <1>13, <1>14, <1>15, <1>16, <1>17 DEF StoreNext, Work

\* Without a mishap every plain file of a closed day is archived, and then goes.
LEMMA TidyKept ==
  ASSUME BaseInv, ForwardInv, TidyInv, [StoreNext]_storeVars
  PROVE  TidyInv'
<1> DEFINE Tidy(d) ==
      /\ gz'[d] # NoFile => d < activeDay' \/ (Working' /\ job'.stage # "write" /\ d < job'.day)
      /\ gz'[d] # NoFile /\ plain'[d] # NoFile => Working' /\ job'.stage = "unlink" /\ d = Earliest(job'.todo)
      /\ plain'[d] # NoFile /\ d < activeDay'
           => Working' /\ job'.kind = "start" /\ job'.stage # "write" /\ d \in job'.todo
      /\ Working' /\ job'.stage # "write" /\ plain'[d] # NoFile /\ d < job'.day => d \in job'.todo
<1> SUFFICES ASSUME faults' = 0, rollbacks' = 0, NEW d \in Day
             PROVE  Tidy(d)
  BY DEF TidyInv
<1>1. /\ \A e \in Day : e \in Nat
      /\ StoreTypeOK /\ activeDay \in Nat /\ clock \in Nat /\ (fired # NoDay => fired \in Day)
      /\ Working => job.day \in Nat
  BY DaysAreNumbers, JobIs DEF BaseInv
<1>2. /\ rollbacks = 0 /\ faults = 0 /\ ~GoesBack /\ ~Fault
  BY <1>1, FaultsAreCounted DEF StoreTypeOK, GoesBack, Fault
<1>3. /\ activeDay <= clock
      /\ \A e \in Day : plain[e] # NoFile => e <= activeDay
      /\ Working => /\ activeDay <= job.day /\ job.day <= clock
                    /\ job.stage = "write" \/ job.kind = "start" => job.day = activeDay
  BY <1>2 DEF ForwardInv
<1>4. /\ gz[d] # NoFile => d < activeDay \/ (Working /\ job.stage # "write" /\ d < job.day)
      /\ gz[d] # NoFile /\ plain[d] # NoFile => Working /\ job.stage = "unlink" /\ d = Earliest(job.todo)
      /\ plain[d] # NoFile /\ d < activeDay
           => Working /\ job.kind = "start" /\ job.stage # "write" /\ d \in job.todo
      /\ Working /\ job.stage # "write" /\ plain[d] # NoFile /\ d < job.day => d \in job.todo
  BY <1>2 DEF TidyInv
<1>5. /\ job' = NoJob => ~Working'
      /\ job = NoJob => ~Working
  BY DEF NoJob, Working
<1>6. ASSUME NEW day \in Day, NEW kind \in {"start", "append", "rotate"}, NEW writes \in Nat,
             job = NoJob, job' = Entering(kind, day, writes), UNCHANGED <<plain, gz>>,
             activeDay <= day, activeDay' = activeDay \/ (activeDay' = day /\ kind = "start")
      PROVE  Tidy(d)
  <2>1. /\ job'.day = day /\ job'.stage = "compress" /\ job'.kind = kind
        /\ \A e \in Day : e \in job'.todo <=> plain[e] # NoFile /\ e < day
    BY <1>1, <1>6, EnteringIsJob
  <2>2. Working'
    BY <1>6, <2>1 DEF Working
  <2> QED
    BY <1>1, <1>4, <1>5, <1>6, <2>1, <2>2
<1>7. CASE BeginAppend
  <2>1. job = NoJob /\ UNCHANGED <<plain, gz, activeDay>>
    BY <1>7 DEF BeginAppend
  <2>2. CASE clock = activeDay
    <3>1. job'.stage = "write" /\ activeDay' = activeDay
      BY <1>7, <2>2 DEF BeginAppend
    <3> QED
      BY <1>4, <1>5, <2>1, <3>1
  <2>3. CASE clock # activeDay
    <3>1. job' = Entering("append", clock, 2) /\ clock \in Day /\ 2 \in Nat
      BY <1>1, <1>7, <2>3 DEF BeginAppend, StoreTypeOK
    <3> QED
      BY <1>3, <1>6, <2>1, <3>1
  <2> QED
    BY <2>2, <2>3
<1>8. CASE BeginRotation
  <2>1. job = NoJob /\ UNCHANGED <<plain, gz, activeDay>> /\ fired \in Day
    BY <1>1, <1>8 DEF BeginRotation
  <2>2. fired >= activeDay
    BY <1>1, <1>2, <1>8, <2>1 DEF BeginRotation
  <2>3. CASE job' = NoJob
    BY <1>4, <1>5, <2>1, <2>3
  <2>4. CASE job' = Entering("rotate", fired, 1)
    <3>1. 1 \in Nat /\ activeDay <= fired
      BY <1>1, <2>1, <2>2
    <3> QED
      BY <1>6, <2>1, <2>4, <3>1
  <2> QED
    BY <1>8, <2>3, <2>4 DEF BeginRotation
<1>9. CASE Open
  <2>1. /\ job = NoJob /\ UNCHANGED <<plain, gz>> /\ activeDay' = clock /\ clock \in Day /\ 0 \in Nat
        /\ job' = Entering("start", clock, 0)
    BY <1>1, <1>9 DEF Open, StoreTypeOK
  <2> QED
    BY <1>3, <1>6, <2>1
<1>10. ASSUME NEW e \in Day, MakeArchive(e) PROVE Tidy(d)
  <2>1. AtHead(e) /\ job.stage = "compress" /\ GoesOn("unlink", job.todo) /\ Archived(e) /\ activeDay' = activeDay
    BY <1>10, JobMoves DEF MakeArchive
  <2>2. CASE d = e
    BY <1>4, <2>1, <2>2 DEF AtHead, GoesOn, Archived
  <2>3. CASE d # e
    <3>1. gz'[d] = gz[d] /\ plain'[d] = plain[d]
      BY <1>1, <2>1, <2>3 DEF Archived, StoreTypeOK
    <3> QED
      BY <1>4, <2>1, <3>1 DEF AtHead, GoesOn
  <2> QED
    BY <2>2, <2>3
<1>11. ASSUME NEW e \in Day, RemoveCopy(e) \/ (RemovePlain /\ e = Earliest(job.todo)) PROVE Tidy(d)
  <2>1. AtHead(e) /\ GoesOn("compress", job.todo \ {e}) /\ Unlinked(e) /\ activeDay' = activeDay
        /\ (job.stage = "compress" \/ job.stage = "unlink")
    BY <1>11, JobMoves DEF RemoveCopy, RemovePlain
  <2>2. CASE d = e
    <3>1. plain'[d] = NoFile /\ gz'[d] = gz[d] /\ d < job.day
      BY <1>1, <2>1, <2>2 DEF Unlinked, StoreTypeOK, AtHead
    <3> QED
      BY <1>4, <2>1, <3>1 DEF AtHead, GoesOn
  <2>3. CASE d # e
    <3>1. gz'[d] = gz[d] /\ plain'[d] = plain[d]
      BY <1>1, <2>1, <2>3 DEF Unlinked, StoreTypeOK
    <3>2. ~(gz[d] # NoFile /\ plain[d] # NoFile)
      BY <1>4, <2>1, <2>3 DEF AtHead
    <3> QED
      BY <1>4, <2>1, <2>3, <3>1, <3>2 DEF AtHead, GoesOn
  <2> QED
    BY <2>2, <2>3
<1>12. CASE RemovePlain
  BY <1>11, <1>12, RemovalIsAtHead
<1>13. ASSUME NEW e \in Day, KeepBoth(e) PROVE FALSE
  <2>1. plain[e] # NoFile /\ gz[e] # NoFile /\ job.stage = "compress"
    BY <1>13, JobMoves DEF AtHead
  <2> QED
    BY <1>2, <2>1 DEF TidyInv
<1>14. CASE EnterDay
  <2>1. /\ Working /\ job.stage = "compress" /\ job.todo = {} /\ activeDay' = job.day
        /\ job' = NoJob \/ GoesOn("write", {})
        /\ UNCHANGED <<plain, gz>>
    BY <1>14, JobMoves DEF EnterDay
  <2>2. job' = NoJob \/ job'.stage = "write"
    BY <2>1 DEF GoesOn
  <2> QED
    BY <1>1, <1>3, <1>4, <1>5, <2>1, <2>2
<1>15. CASE WriteEntry
  <2>1. PICK w \in Day : Wrote(w)
    BY <1>15, WriteAppends
  <2>2. w = activeDay /\ activeDay' = activeDay /\ Working /\ job.stage = "write" /\ gz' = gz
    BY <1>3, <1>15, <2>1 DEF Wrote, WriteEntry
  <2>3. job' = NoJob \/ job'.stage = "write"
    BY <1>15, JobMoves DEF GoesOn
  <2>4. plain'[d] = plain[d] \/ d = w
    BY <2>1 DEF Wrote
  <2> QED
    BY <1>1, <1>4, <1>5, <2>2, <2>3, <2>4
<1>16. ~JobFails /\ ~Crash /\ ~ClockSetBack /\ ~(\E e \in Day : CompareFails(e))
  BY <1>2 DEF JobFails, Crash, ClockSetBack, CompareFails
<1>17. CASE TimerFires \/ Midnight \/ Close \/ ReadNewest \/ ReadOlder \/ UNCHANGED storeVars
  <2>1. UNCHANGED <<plain, gz, activeDay, job>>
    BY <1>17 DEF TimerFires, Midnight, Close, ReadNewest, ReadOlder, storeVars
  <2> QED
    BY <1>4, <2>1 DEF Working
<1> QED
  BY <1>7, <1>8, <1>9, <1>10, <1>11, <1>12, <1>13, <1>14, <1>15, <1>16, <1>17 DEF StoreNext, Work

\* After one fault the plain file that is left over is a copy, and it is on the
\* list of the next start or rotation.
LEMMA LeftoverKept ==
  ASSUME BaseInv, ForwardInv, TidyInv, LeftoverInv, [StoreNext]_storeVars
  PROVE  LeftoverInv'
<1> DEFINE Left(d) == /\ gz'[d] = plain'[d] /\ d < clock'
                      /\ Working' => job'.stage # "write" /\ d \in job'.todo
                      /\ ~Working' => closed' \/ d = activeDay'
<1> SUFFICES ASSUME faults' <= 1, rollbacks' = 0, NEW d \in Day, Copied(d)'
             PROVE  Left(d)
  BY DEF LeftoverInv
<1>1. /\ \A e \in Day : e \in Nat
      /\ StoreTypeOK /\ activeDay \in Nat /\ clock \in Nat /\ (fired # NoDay => fired \in Day)
      /\ faults \in Nat /\ (Working => job.day \in Nat /\ job.kind \in {"start", "append", "rotate"})
  BY DaysAreNumbers, JobIs DEF BaseInv
<1>2. rollbacks = 0 /\ faults <= 1 /\ ~GoesBack /\ (Fault => faults = 0)
  BY <1>1, FaultsAreCounted DEF StoreTypeOK, GoesBack, Fault
<1>3. /\ fired # NoDay => fired <= clock
      /\ \A e \in Day : plain[e] # NoFile => e <= activeDay
      /\ Working => job.day <= clock
  BY <1>2 DEF ForwardInv
<1>4. Copied(d) => /\ gz[d] = plain[d] /\ d < clock /\ plain[d] # NoFile /\ gz[d] # NoFile
                   /\ Working => job.stage # "write" /\ d \in job.todo
                   /\ ~Working => closed \/ d = activeDay
  BY <1>2, CopiedIs DEF LeftoverInv
<1>5. /\ job' = NoJob => ~Working'
      /\ job = NoJob => ~Working
  BY DEF NoJob, Working
<1>6. CASE MakeArchive(d)
  <2>1. AtHead(d) /\ GoesOn("unlink", job.todo) /\ Archived(d) /\ clock' = clock
    BY <1>6, JobMoves DEF MakeArchive, world
  <2>2. gz'[d] = plain'[d]
    BY <1>1, <2>1 DEF Archived, StoreTypeOK
  <2>3. d < clock
    BY <1>1, <1>3, <2>1 DEF AtHead
  <2> QED
    BY <2>1, <2>2, <2>3 DEF GoesOn, AtHead
<1>7. CASE Copied(d) /\ ~MakeArchive(d)
  <2>1. /\ gz[d] = plain[d] /\ d < clock /\ plain[d] # NoFile /\ gz[d] # NoFile /\ d <= activeDay
        /\ Working => job.stage # "write" /\ d \in job.todo
        /\ ~Working => closed \/ d = activeDay
    BY <1>3, <1>4, <1>7
  <2>2. ASSUME NEW day \in Day, NEW kind \in {"start", "append", "rotate"}, NEW writes \in Nat,
               job' = Entering(kind, day, writes), UNCHANGED <<plain, gz, clock>>, d < day
        PROVE  Left(d)
    <3>1. /\ job'.stage = "compress" /\ job'.kind = kind /\ d \in job'.todo
      BY <1>1, <2>1, <2>2, EnteringIsJob
    <3>2. Working'
      BY <3>1 DEF Working
    <3> QED
      BY <2>1, <2>2, <3>1, <3>2
  <2>3. CASE BeginAppend
    <3>1. job = NoJob /\ ~closed /\ UNCHANGED <<plain, gz, clock>> /\ clock \in Day /\ 2 \in Nat
      BY <1>1, <2>3 DEF BeginAppend, world, StoreTypeOK
    <3>2. d = activeDay /\ clock # activeDay
      BY <1>1, <1>5, <2>1, <3>1
    <3>3. job' = Entering("append", clock, 2)
      BY <2>3, <3>2 DEF BeginAppend
    <3> QED
      BY <2>1, <2>2, <3>1, <3>3
  <2>4. CASE BeginRotation
    <3>1. job = NoJob /\ UNCHANGED <<plain, gz, clock, closed, activeDay>> /\ fired \in Day /\ fired >= activeDay
      BY <1>1, <1>2, <2>4 DEF BeginRotation
    <3>2. CASE fired = activeDay
      <4>1. job' = NoJob
        BY <2>4, <3>2 DEF BeginRotation
      <4> QED
        BY <1>5, <2>1, <3>1, <4>1
    <3>3. CASE fired # activeDay
      <4>1. job' = Entering("rotate", fired, 1) /\ 1 \in Nat
        BY <2>4, <3>3 DEF BeginRotation
      <4>2. d < fired
        BY <1>1, <2>1, <3>1, <3>3
      <4> QED
        BY <2>2, <3>1, <4>1, <4>2
    <3> QED
      BY <3>2, <3>3
  <2>5. CASE Open
    <3>1. UNCHANGED <<plain, gz, clock>> /\ clock \in Day /\ 0 \in Nat /\ job' = Entering("start", clock, 0)
      BY <1>1, <2>5 DEF Open, world, StoreTypeOK
    <3> QED
      BY <2>1, <2>2, <3>1
  <2>6. ASSUME NEW e \in Day, MakeArchive(e) PROVE Left(d)
    <3>1. AtHead(e) /\ GoesOn("unlink", job.todo) /\ Archived(e) /\ clock' = clock /\ e # d
      BY <1>7, <2>6, JobMoves DEF MakeArchive, world
    <3>2. gz'[d] = gz[d] /\ plain'[d] = plain[d]
      BY <1>1, <3>1 DEF Archived, StoreTypeOK
    <3> QED
      BY <2>1, <3>1, <3>2 DEF AtHead, GoesOn
  <2>7. ASSUME NEW e \in Day, RemoveCopy(e) \/ (RemovePlain /\ e = Earliest(job.todo)) PROVE Left(d)
    <3>1. AtHead(e) /\ GoesOn("compress", job.todo \ {e}) /\ Unlinked(e) /\ clock' = clock
      BY <2>7, JobMoves DEF RemoveCopy, RemovePlain, world
    <3>2. d # e
      BY <3>1, RemovedIsNoCopy
    <3>3. gz'[d] = gz[d] /\ plain'[d] = plain[d]
      BY <1>1, <3>1, <3>2 DEF Unlinked, StoreTypeOK
    <3> QED
      BY <2>1, <3>1, <3>2, <3>3 DEF AtHead, GoesOn
  <2>8. CASE RemovePlain
    BY <2>7, <2>8, RemovalIsAtHead
  <2>9. ASSUME NEW e \in Day, KeepBoth(e) PROVE Left(d)
    <3>1. AtHead(e) /\ GoesOn("compress", job.todo \ {e}) /\ UNCHANGED <<plain, gz, clock>>
      BY <2>9, JobMoves DEF KeepBoth, world
    <3>2. d # e
      BY <2>1, <2>9 DEF KeepBoth, IsCopy
    <3> QED
      BY <2>1, <3>1, <3>2 DEF AtHead, GoesOn
  <2>10. ASSUME NEW e \in Day, CompareFails(e) PROVE FALSE
    <3>1. plain[e] # NoFile /\ gz[e] # NoFile /\ job.stage = "compress" /\ faults = 0
      BY <1>2, <2>10, JobMoves DEF AtHead, CompareFails
    <3> QED
      BY <1>2, <3>1 DEF TidyInv
  <2>11. CASE EnterDay
    <3>1. Working /\ job.todo = {}
      BY <2>11, JobMoves
    <3> QED
      BY <2>1, <3>1
  <2>12. CASE WriteEntry
    <3>1. Working /\ job.stage = "write"
      BY <2>12 DEF WriteEntry, Working
    <3> QED
      BY <2>1, <3>1
  <2>13. CASE JobFails
    <3>1. /\ faults = 0 /\ UNCHANGED <<plain, gz, clock, activeDay>> /\ job' = NoJob /\ Working
          /\ closed' = (closed \/ job.kind = "start")
      BY <1>2, <2>13 DEF JobFails, world, Working
    <3>2. d < activeDay => job.kind = "start"
      BY <1>2, <2>1, <3>1 DEF TidyInv
    <3>3. d = activeDay \/ d < activeDay
      BY <1>1, <2>1
    <3>4. job.kind = "start" => closed'
      BY <3>1
    <3> QED
      BY <1>5, <2>1, <3>1, <3>2, <3>3, <3>4
  <2>14. CASE Crash
    <3>1. UNCHANGED <<plain, gz, clock>> /\ job' = NoJob /\ closed'
      BY <2>14 DEF Crash, world
    <3> QED
      BY <1>5, <2>1, <3>1
  <2>15. CASE Close
    <3>1. UNCHANGED <<plain, gz, clock, job>> /\ closed'
      BY <2>15 DEF Close, world
    <3> QED
      BY <2>1, <3>1 DEF Working
  <2>16. CASE Midnight
    <3>1. UNCHANGED <<plain, gz, job, activeDay, closed>> /\ d < clock'
      BY <1>1, <2>1, <2>16 DEF Midnight
    <3> QED
      BY <2>1, <3>1 DEF Working
  <2>17. CASE TimerFires \/ ReadNewest \/ ReadOlder \/ UNCHANGED storeVars
    <3>1. UNCHANGED <<plain, gz, activeDay, job, clock, closed>>
      BY <2>17 DEF TimerFires, ReadNewest, ReadOlder, storeVars, world
    <3> QED
      BY <2>1, <3>1 DEF Working
  <2>18. ~ClockSetBack
    BY <1>2 DEF ClockSetBack
  <2> QED
    BY <2>3, <2>4, <2>5, <2>6, <2>8, <2>7, <2>9, <2>10, <2>11, <2>12, <2>13, <2>14, <2>15, <2>16, <2>17, <2>18
       DEF StoreNext, Work
<1> QED
  BY <1>6, <1>7, CopiesStay

\* The invariants of closed days.
ClosedInv == ReadInv /\ ForwardInv /\ TidyInv /\ LeftoverInv

\* They hold together.
LEMMA ClosedInvHolds == StoreSpec => []ClosedInv
<1>1. StoreInit => ClosedInv
  <2> SUFFICES ASSUME StoreInit PROVE ClosedInv
    OBVIOUS
  <2>1. ReadInv
    BY InitRead
  <2>2. \A d \in Day : gz[d] = NoFile /\ plain[d] = NoFile
    BY DEF StoreInit
  <2>3. ForwardInv
    BY <2>2 DEF StoreInit, ForwardInv, Working, NoJob
  <2>4. TidyInv
    BY <2>2 DEF StoreInit, TidyInv, Working, NoJob
  <2>5. LeftoverInv
    BY <2>1, <2>2, CopiedIs DEF LeftoverInv, ReadInv
  <2> QED
    BY <2>1, <2>3, <2>4, <2>5 DEF ClosedInv
<1>2. ClosedInv /\ [StoreNext]_storeVars => ClosedInv'
  BY ReadInvKept, ForwardKept, TidyKept, LeftoverKept DEF ClosedInv, ReadInv
<1> QED
  BY <1>1, <1>2, PTL DEF StoreSpec

(* A single mishap (a crash anywhere, a failed file operation, the clock    *)
(* set back over midnight, or a rotation that comes late) never makes a     *)
(* day before the active one show an entry twice (core/log-store.ts:        *)
(* compressClosedDays, compressFile, rotateIfNeeded).                       *)
THEOREM ClosedDaysAreReadOnce == StoreSpec => []ClosedDaysReadOnce
<1>1. ClosedInv => ClosedDaysReadOnce
  <2> SUFFICES ASSUME ClosedInv, job = NoJob, ~closed, faults + rollbacks <= 1,
                      NEW d \in Day, d < activeDay,
                      NEW i \in DOMAIN Lines(d), NEW j \in DOMAIN Lines(d), Lines(d)[i] = Lines(d)[j]
               PROVE  i = j
    BY DEF ClosedDaysReadOnce
  <2>1. BaseInv /\ JournalInv /\ CleanInv /\ LeftoverInv /\ ~Working
    BY DEF ClosedInv, ReadInv, Working, NoJob
  <2>2. faults \in Nat /\ rollbacks \in Nat /\ d \in Nat /\ activeDay \in Nat
    BY <2>1, DaysAreNumbers DEF BaseInv
  <2>3. faults = 0 \/ (faults <= 1 /\ rollbacks = 0)
    BY <2>2
  <2>4. ~Copied(d)
    <3>1. CASE faults = 0
      BY <2>1, <3>1 DEF CleanInv
    <3>2. CASE faults <= 1 /\ rollbacks = 0
      BY <2>1, <2>2, <3>2 DEF LeftoverInv
    <3> QED
      BY <2>3, <3>1, <3>2
  <2>5. Lines(d) = Recorded(d)
    BY <2>1, <2>4, UncopiedLines
  <2> QED
    BY <2>1, <2>5 DEF JournalInv
<1> QED
  BY <1>1, ClosedInvHolds, PTL

--------------------------------------------------------------------------------
(* Both parts together *)

(* The chat services and the log store share no state: a behaviour of the   *)
(* two together is one of each, so all that is shown of either holds of     *)
(* both (permission-service.ts, cooldown-service.ts, log-store.ts).         *)
THEOREM PartsBehave == Spec => ChatSpec /\ StoreSpec
<1>1. Init => ChatInit /\ StoreInit
  BY DEF Init
<1>2. [Next]_vars => [ChatNext]_chatVars /\ [StoreNext]_storeVars
  <2> SUFFICES ASSUME [Next]_vars PROVE [ChatNext]_chatVars /\ [StoreNext]_storeVars
    OBVIOUS
  <2> QED
    BY DEF Next, vars
<1> QED
  BY <1>1, <1>2, PTL DEF Spec, ChatSpec, StoreSpec

(* Typing of the two together: roles, homes and saves, and the files, the   *)
(* job and the reader of the log directory (permission-service.ts,          *)
(* home-service.ts, log-store.ts).                                          *)
THEOREM StorageTyping == Spec => []TypeOK
<1> DEFINE Typed == moving \in {"chat", "store"}
<1>1. Init => Typed
  BY DEF Init
<1>2. Typed /\ [Next]_vars => Typed'
  BY DEF Next, vars
<1>3. Typed /\ ChatTypeOK /\ BaseInv => TypeOK
  BY DEF TypeOK, BaseInv
<1> HIDE DEF Typed
<1> QED
  BY <1>1, <1>2, <1>3, PartsBehave, ChatTyping, StoreTyping, PTL DEF Spec

================================================================================
