---------------------------- MODULE BotManagerHandles ----------------------------
(***************************************************************************)
(* What the manager's handles do, for any number of instances, calls and   *)
(* handles: nothing runs that the map does not name, a handle that is      *)
(* leaving stays down, and a call that waits on a handle waits on its own  *)
(* operation there.  One invariant is proved for the three: it says who    *)
(* waits for each operation of a chain.  Every handle is then shown to be  *)
(* driven only as InstanceQueue allows.                                    *)
(***************************************************************************)
EXTENDS BotManagerProofs

Ops(r) == {r.running} \cup {r.waiting[k] : k \in 1..Len(r.waiting)}

Live(r) == r.active \/ \E op \in Ops(r) : op.kind = "connect"

\* An operation that has a caller is the one its caller waits for.
Awaited(op, h) ==
  op.by # NoCall =>
    /\ call[op.by].handle = h /\ call[op.by].answer = "none"
    /\ \/ op.kind = "connect" /\ call[op.by].at = "connecting"
       \/ op.kind = "disconnect" /\ call[op.by].at = "disconnecting"

\* No caller has two operations on a chain.
Once(r) ==
  \A k \in 1..Len(r.waiting) : r.waiting[k].by # NoCall =>
    /\ r.waiting[k].by # r.running.by
    /\ \A l \in 1..Len(r.waiting) : r.waiting[l].by = r.waiting[k].by => l = k

\* A boot connect waits alone on its chain, before the first call is queued.
Boots(r) ==
  \A k \in 1..Len(r.waiting) : r.waiting[k].kind = "connect" /\ r.waiting[k].by = NoCall
    => crudQueue = <<>> /\ r.running = Nothing /\ Len(r.waiting) = 1

Kinds(r) ==
  /\ \A op \in Ops(r) : op.kind = "disconnect" => op.by # NoCall
  /\ r.running.kind = "connect" => r.active

ChainInv ==
  \A h \in Handle : /\ \A op \in Ops(inst[h]) : Awaited(op, h)
                    /\ Once(inst[h]) /\ Boots(inst[h]) /\ Kinds(inst[h])

AnswerInv ==
  \A c \in Call : call[c].answer # "none" => call[c].at \in {"disconnecting", "connecting"}

\* Once its disconnect is answered, nothing brings a leaving handle back.
StoppedIsAtRest == \A c \in Call : Stopped(c) => ~Connecting(call[c].handle)

HandleInv ==
  ChainInv /\ AnswerInv /\ StoppedIsAtRest /\ LeavingIsAtRest /\ UntrackedIsAtRest /\ WaitsForItsOwn

--------------------------------------------------------------------------------

\* A handle connects when its record is live.
LEMMA ConnectingIsLive ==
  ASSUME NEW h
  PROVE  /\ OperationsOf(h) = Ops(inst[h]) /\ (Connecting(h) <=> Live(inst[h]))
         /\ OperationsOf(h)' = Ops(inst'[h]) /\ (Connecting(h)' <=> Live(inst'[h]))
BY DEF OperationsOf, Ops, Connecting, Live

\* The running operation and the waiting ones are operations, or none.
LEMMA ChainTypes ==
  ASSUME NEW r \in Instance
  PROVE  /\ r.waiting \in Seq(Operation) /\ Len(r.waiting) \in Nat
         /\ r.running \in Operation \cup {Nothing} /\ r.active \in BOOLEAN
         /\ \A k \in 1..Len(r.waiting) : r.waiting[k] \in Operation
         /\ \A op \in Ops(r) : op \in Operation \cup {Nothing}
         /\ \A op \in Ops(r) : op.by \in Call \cup {NoCall}
<1>1. r.waiting \in Seq(Operation) /\ r.running \in Operation \cup {Nothing} /\ r.active \in BOOLEAN
  BY DEF Instance
<1>2. Len(r.waiting) \in Nat /\ \A k \in 1..Len(r.waiting) : r.waiting[k] \in Operation
  BY <1>1
<1>3. \A op \in Ops(r) : op \in Operation \cup {Nothing}
  BY <1>1, <1>2 DEF Ops
<1>4. \A op \in Ops(r) : op.by \in Call \cup {NoCall}
  BY <1>3 DEF Operation, Nothing
<1> QED
  BY <1>1, <1>2, <1>3, <1>4

\* Two calls that have begun are one.
LEMMA OneAtATime ==
  ASSUME QueueInv, NEW c \in Call, NEW d \in Call,
         call[c].at \notin {"idle", "queued"}, call[d].at \notin {"idle", "queued"}
  PROVE  c = d
BY DEF QueueInv, Turn

\* A call that waits on no handle, or has its answer, has no operation.
LEMMA NoneBy ==
  ASSUME TypeOK, HandleInv, NEW c \in Call,
         call[c].at \notin {"disconnecting", "connecting"} \/ call[c].answer # "none"
  PROVE  \A h \in Handle : \A op \in Ops(inst[h]) : op.by # c
<1> SUFFICES ASSUME NEW h \in Handle, NEW op \in Ops(inst[h]), op.by = c PROVE FALSE
  OBVIOUS
<1>1. Awaited(op, h)
  BY DEF HandleInv, ChainInv
<1> QED
  BY <1>1, NameAssumption DEF Awaited

\* While a call is queued, no boot connect waits.
LEMMA NoBoots ==
  ASSUME HandleInv, crudQueue # <<>>, NEW h \in Handle
  PROVE  \A k \in 1..Len(inst[h].waiting) :
           ~(inst[h].waiting[k].kind = "connect" /\ inst[h].waiting[k].by = NoCall)
BY DEF HandleInv, ChainInv, Boots

\* When everything has settled, neither.
LEMMA NoBootsSettled ==
  ASSUME TypeOK, HandleInv, Settled, NEW h \in Handle
  PROVE  \A k \in 1..Len(inst[h].waiting) :
           ~(inst[h].waiting[k].kind = "connect" /\ inst[h].waiting[k].by = NoCall)
<1> SUFFICES ASSUME NEW k \in 1..Len(inst[h].waiting),
                    inst[h].waiting[k].kind = "connect", inst[h].waiting[k].by = NoCall
             PROVE  FALSE
  OBVIOUS
<1>1. inst[h].running = Nothing
  BY DEF HandleInv, ChainInv, Boots
<1>2. inst[h].waiting # <<>>
  <2>1. inst[h] \in Instance
    BY DEF TypeOK
  <2>2. Len(inst[h].waiting) # 0
    BY <2>1, ChainTypes
  <2> QED
    BY <2>2
<1> QED
  BY <1>1, <1>2 DEF Settled, ChainIsDue

--------------------------------------------------------------------------------

\* A call that waits on no handle, or no longer does, changes its closure only.
LEMMA CallAlone ==
  ASSUME TypeOK, HandleInv, NEW c \in Call, NEW k,
         call' = [call EXCEPT ![c] = k], UNCHANGED <<instances, inst>>,
         \A h \in Handle : \A op \in Ops(inst[h]) : op.by # c,
         \A h \in Handle : \A n \in 1..Len(inst[h].waiting) :
           ~(inst[h].waiting[n].kind = "connect" /\ inst[h].waiting[n].by = NoCall),
         k.answer = "none", k.at \notin {"disconnecting", "connecting"},
         k.at \in {"saving", "saved"} /\ k.job.kind # "add" => ~Connecting(k.handle)
  PROVE  HandleInv'
<1>1. \A d \in Call : call'[d] = IF d = c THEN k ELSE call[d]
  BY DEF TypeOK
<1>2. \A h : OperationsOf(h)' = OperationsOf(h) /\ (Connecting(h)' <=> Connecting(h))
  BY DEF OperationsOf, Connecting
<1>3. ChainInv'
  <2> SUFFICES ASSUME NEW h \in Handle
               PROVE  (/\ \A op \in Ops(inst[h]) : Awaited(op, h)
                       /\ Once(inst[h]) /\ Boots(inst[h]) /\ Kinds(inst[h]))'
    BY DEF ChainInv
  <2>1. inst[h] \in Instance /\ inst'[h] = inst[h]
    BY DEF TypeOK
  <2>2. /\ \A op \in Ops(inst[h]) : Awaited(op, h)
        /\ Once(inst[h]) /\ Kinds(inst[h])
    BY DEF HandleInv, ChainInv
  <2>3. ASSUME NEW op \in Ops(inst'[h]) PROVE Awaited(op, h)'
    <3>1. op \in Ops(inst[h]) /\ op.by # c /\ op.by \in Call \cup {NoCall} /\ Awaited(op, h)
      BY <2>1, <2>2, <2>3, ChainTypes
    <3> QED
      BY <1>1, <3>1 DEF Awaited
  <2>4. Once(inst[h])' /\ Kinds(inst[h])'
    BY <2>1, <2>2 DEF Once, Kinds, Ops
  <2>5. Boots(inst[h])'
    BY <2>1 DEF Boots
  <2> QED
    BY <2>3, <2>4, <2>5
<1>4. AnswerInv'
  BY <1>1 DEF HandleInv, AnswerInv
<1>5. StoppedIsAtRest'
  BY <1>1, <1>2 DEF HandleInv, StoppedIsAtRest, Stopped
<1>6. LeavingIsAtRest'
  BY <1>1, <1>2 DEF HandleInv, LeavingIsAtRest
<1>7. UntrackedIsAtRest'
  BY <1>2 DEF HandleInv, UntrackedIsAtRest, Tracked
<1>8. WaitsForItsOwn'
  BY <1>1, <1>2 DEF HandleInv, WaitsForItsOwn
<1> QED
  BY <1>3, <1>4, <1>5, <1>6, <1>7, <1>8 DEF HandleInv

\* A call sends an operation to a handle of the map, and waits for it.
LEMMA CallSends ==
  ASSUME TypeOK, CrudInv, HandleInv, NEW c \in Call, NEW h \in Handle,
         NEW kind \in {"connect", "disconnect"}, Turn(c), call[c].at # "idle",
         \A g \in Handle : \A op \in Ops(inst[g]) : op.by # c,
         Tracked(h), Send(h, Op(kind, c)), NEW k, call' = [call EXCEPT ![c] = k],
         k.at = IF kind = "connect" THEN "connecting" ELSE "disconnecting",
         k.handle = h, k.answer = "none", UNCHANGED <<instances, crudQueue>>
  PROVE  HandleInv'
<1> DEFINE op == Op(kind, c)
<1>0. PICK r : r = inst'[h]
  OBVIOUS
<1>1. \A d \in Call : /\ call'[d] = IF d = c THEN k ELSE call[d]
                      /\ d # c => call'[d].at \in {"idle", "queued"}
  BY OthersWait DEF TypeOK, CrudInv
<1>2. inst[h] \in Instance /\ op \in Operation /\ op.by = c /\ op.kind = kind /\ c # NoCall
  BY NameAssumption DEF TypeOK, Op, Operation
<1>3. /\ r.waiting = Append(inst[h].waiting, op)
      /\ r.running = inst[h].running /\ r.active = inst[h].active
  BY <1>0, <1>2 DEF Send, TypeOK, Instance
<1>4. \A g \in Handle : g # h => inst'[g] = inst[g]
  BY DEF Send, TypeOK
<1>5. /\ Len(r.waiting) = Len(inst[h].waiting) + 1 /\ Len(inst[h].waiting) \in Nat
      /\ \A n \in 1..Len(inst[h].waiting) : r.waiting[n] = inst[h].waiting[n]
      /\ r.waiting[Len(r.waiting)] = op
  BY <1>2, <1>3, ChainTypes
<1> HIDE DEF op
<1>6. Ops(r) = Ops(inst[h]) \cup {op}
  BY <1>3, <1>5 DEF Ops
<1>7. \A g \in Handle : /\ \A o \in Ops(inst[g]) : Awaited(o, g)
                        /\ Once(inst[g]) /\ Kinds(inst[g])
  BY DEF HandleInv, ChainInv
<1>8. ChainInv'
  <2>1. ASSUME NEW g \in Handle, NEW o \in Ops(inst[g]) PROVE Awaited(o, g)'
    <3>1. inst[g] \in Instance
      BY DEF TypeOK
    <3>2. o.by # c /\ o.by \in Call \cup {NoCall} /\ Awaited(o, g)
      BY <1>7, <3>1, ChainTypes
    <3> QED
      BY <1>1, <3>2 DEF Awaited
  <2>2. Awaited(op, h)'
    BY <1>1, <1>2 DEF Awaited
  <2>3. crudQueue # <<>>
    BY DEF Turn
  <2>4. ASSUME NEW g \in Handle, g # h
        PROVE  (/\ \A o \in Ops(inst[g]) : Awaited(o, g)
                /\ Once(inst[g]) /\ Boots(inst[g]) /\ Kinds(inst[g]))'
    <3>1. inst'[g] = inst[g]
      BY <1>4, <2>4
    <3>2. Boots(inst[g])'
      BY <2>3, <3>1, NoBoots DEF Boots
    <3> QED
      BY <1>7, <2>1, <3>1, <3>2 DEF Once, Kinds, Ops
  <2>5. ASSUME NEW o \in Ops(r) PROVE Awaited(o, h)'
    BY <1>6, <2>1, <2>2, <2>5
  <2>6. \A n \in 1..Len(inst[h].waiting) : inst[h].waiting[n].by # c
    BY DEF Ops
  <2>7. inst[h].running.by # c
    BY DEF Ops
  <2>8. Once(r)
    <3> SUFFICES ASSUME NEW n \in 1..Len(r.waiting), r.waiting[n].by # NoCall
                 PROVE  /\ r.waiting[n].by # r.running.by
                        /\ \A l \in 1..Len(r.waiting) : r.waiting[l].by = r.waiting[n].by => l = n
      BY DEF Once
    <3>1. CASE n = Len(r.waiting)
      <4>1. \A l \in 1..Len(r.waiting) : l # n => l \in 1..Len(inst[h].waiting)
        BY <1>5, <3>1
      <4>2. r.waiting[n].by = c /\ r.running.by # c
        BY <1>2, <1>3, <1>5, <2>7, <3>1
      <4>3. \A l \in 1..Len(r.waiting) : r.waiting[l].by = c => l = n
        BY <1>5, <2>6, <4>1
      <4> QED
        BY <4>2, <4>3
    <3>2. CASE n # Len(r.waiting)
      <4>1. n \in 1..Len(inst[h].waiting) /\ r.waiting[n] = inst[h].waiting[n]
        BY <1>5, <3>2
      <4>2. \A l \in 1..Len(r.waiting) : l \in 1..Len(inst[h].waiting) \/ l = Len(r.waiting)
        BY <1>5
      <4> QED
        BY <1>2, <1>3, <1>5, <1>7, <2>6, <4>1, <4>2 DEF Once
    <3> QED
      BY <3>1, <3>2
  <2>9. Boots(r)'
    <3>1. \A n \in 1..Len(r.waiting) : n \in 1..Len(inst[h].waiting) \/ n = Len(r.waiting)
      BY <1>5
    <3>2. \A n \in 1..Len(r.waiting) : ~(r.waiting[n].kind = "connect" /\ r.waiting[n].by = NoCall)
      <4>1. ASSUME NEW n \in 1..Len(inst[h].waiting)
            PROVE  ~(r.waiting[n].kind = "connect" /\ r.waiting[n].by = NoCall)
        BY <1>5, <2>3, NoBoots
      <4> QED
        BY <1>2, <1>5, <3>1, <4>1
    <3> QED
      BY <3>2 DEF Boots
  <2>10. Kinds(r)
    BY <1>2, <1>3, <1>6, <1>7 DEF Kinds
  <2> QED
    <3>1. (/\ \A o \in Ops(inst[h]) : Awaited(o, h)
           /\ Once(inst[h]) /\ Boots(inst[h]) /\ Kinds(inst[h]))'
      BY <1>0, <2>5, <2>8, <2>9, <2>10 DEF Once, Boots, Kinds, Ops
    <3> QED
      BY <2>4, <3>1 DEF ChainInv
<1>9. AnswerInv'
  BY <1>1 DEF HandleInv, AnswerInv
<1>10. StoppedIsAtRest'
  BY <1>1 DEF StoppedIsAtRest, Stopped
<1>11. LeavingIsAtRest'
  BY <1>1 DEF LeavingIsAtRest
<1>12. UntrackedIsAtRest'
  <2> SUFFICES ASSUME NEW g \in Handle, Connecting(g)' PROVE Tracked(g)'
    BY DEF UntrackedIsAtRest
  <2>1. Tracked(g)' <=> Tracked(g)
    BY DEF Tracked
  <2>2. g # h => Connecting(g)
    BY <1>4 DEF Connecting, OperationsOf
  <2> QED
    BY <2>1, <2>2 DEF HandleInv, UntrackedIsAtRest
<1>13. WaitsForItsOwn'
  <2>1. op \in OperationsOf(h)'
    BY <1>0, <1>6, ConnectingIsLive
  <2> QED
    BY <1>1, <1>2, <2>1 DEF WaitsForItsOwn
<1> QED
  BY <1>8, <1>9, <1>10, <1>11, <1>12, <1>13 DEF HandleInv

--------------------------------------------------------------------------------

\* Operations nobody waits for.
Quiet == [kind : {"sign_in", "stale", "none"}, by : {NoCall}]

\* A handle h becomes r: operation op, if it is one, is over and answered, and
\* what else is new on the chain concerns nobody.
Settles(h, r, op, answer) ==
  /\ inst' = [inst EXCEPT ![h] = r] /\ Answered(op, answer)
  /\ UNCHANGED <<instances, crudQueue>>
  /\ Live(r) => Live(inst[h])
  /\ \A o \in Ops(r) : (o \in Ops(inst[h]) /\ (o.by # NoCall => o.by # op.by)) \/ o \in Quiet
  /\ \A o \in Ops(inst[h]) : o.by \in {NoCall, op.by} \/ o \in Ops(r)
  /\ op.kind = "disconnect" /\ answer = "resolved" => ~r.active
  /\ Once(r) /\ Boots(r) /\ Kinds(r)

\* An answer changes only the call of the operation.
LEMMA OneAnswer ==
  ASSUME TypeOK, NEW op, NEW answer, Answered(op, answer)
  PROVE  \A d \in Call : /\ d # op.by => call'[d] = call[d]
                         /\ d = op.by => call'[d] = [call[d] EXCEPT !.answer = answer]
BY NameAssumption DEF Answered, TypeOK

\* A handle whose operation settles, with its answer given or not, keeps HandleInv
\* when the record it is left with is a sound one.
LEMMA SettlesKeeps ==
  ASSUME TypeOK, CrudInv, HandleInv, NEW h \in Handle, NEW r \in Instance,
         NEW op \in Ops(inst[h]) \cup {Nothing}, NEW answer \in {"resolved", "rejected"},
         Settles(h, r, op, answer)
  PROVE  HandleInv'
<1> USE DEF Settles
<1>0. inst[h] \in Instance /\ inst'[h] = r /\ \A g \in Handle : g # h => inst'[g] = inst[g]
  BY DEF TypeOK
<1>1. op.by \in Call \cup {NoCall}
  BY <1>0, ChainTypes DEF Nothing
<1>2. \A g \in Handle : /\ \A o \in Ops(inst[g]) : Awaited(o, g)
                        /\ Once(inst[g]) /\ Boots(inst[g]) /\ Kinds(inst[g])
  BY DEF HandleInv, ChainInv
<1>3. \A d \in Call : /\ call'[d].at = call[d].at /\ call'[d].job = call[d].job
                      /\ call'[d].handle = call[d].handle
                      /\ d # op.by => call'[d] = call[d]
                      /\ d = op.by => call'[d].answer = answer
  <2> SUFFICES ASSUME NEW d \in Call
               PROVE  /\ call'[d].at = call[d].at /\ call'[d].job = call[d].job
                      /\ call'[d].handle = call[d].handle
                      /\ d # op.by => call'[d] = call[d]
                      /\ d = op.by => call'[d].answer = answer
    OBVIOUS
  <2>1. call[d] \in Closure
    BY DEF TypeOK
  <2>2. CASE d # op.by
    BY <2>2, OneAnswer
  <2>3. CASE d = op.by
    <3>1. call'[d] = [call[d] EXCEPT !.answer = answer]
      BY <2>3, OneAnswer
    <3> QED
      BY <2>1, <2>3, <3>1 DEF Closure
  <2> QED
    BY <2>2, <2>3
<1>4. op.by # NoCall => /\ call[op.by].handle = h /\ op \in Ops(inst[h])
                        /\ \/ op.kind = "connect" /\ call[op.by].at = "connecting"
                           \/ op.kind = "disconnect" /\ call[op.by].at = "disconnecting"
  BY <1>2 DEF Awaited, Nothing
<1>5. ChainInv'
  <2>1. ASSUME NEW g \in Handle, NEW o \in Ops(inst'[g]) PROVE Awaited(o, g)'
    <3> SUFFICES ASSUME o.by # NoCall PROVE Awaited(o, g)'
      BY DEF Awaited
    <3>1. o \in Ops(inst[g]) /\ (g = h => o.by # op.by)
      BY <1>0, <2>1 DEF Quiet
    <3>2. inst[g] \in Instance
      BY DEF TypeOK
    <3>3. Awaited(o, g) /\ o.by \in Call
      BY <1>2, <3>1, <3>2, ChainTypes
    <3>4. o.by # op.by
      BY <1>4, <3>1, <3>3 DEF Awaited
    <3> QED
      BY <1>3, <3>3, <3>4 DEF Awaited
  <2>2. ASSUME NEW g \in Handle PROVE (Once(inst[g]) /\ Boots(inst[g]) /\ Kinds(inst[g]))'
    <3>1. CASE g = h
      BY <1>0, <3>1 DEF Once, Boots, Kinds, Ops
    <3>2. CASE g # h
      BY <1>0, <1>2, <3>2 DEF Once, Boots, Kinds, Ops
    <3> QED
      BY <3>1, <3>2
  <2>3. ASSUME NEW g \in Handle PROVE (\A o \in Ops(inst[g]) : Awaited(o, g))'
    BY <2>1 DEF Ops
  <2> QED
    BY <2>2, <2>3 DEF ChainInv
<1>6. AnswerInv'
  BY <1>3, <1>4, NameAssumption DEF HandleInv, AnswerInv
<1>7. \A g \in Handle : Live(inst'[g]) => Live(inst[g])
  BY <1>0
<1>8. \A d \in Call : Connecting(call[d].handle)' <=> Live(inst'[call[d].handle])
  <2>1. \A d \in Call : Connecting(call[d].handle)' <=> Live(inst'[call'[d].handle])
    BY DEF Connecting, OperationsOf, Live, Ops
  <2> QED
    BY <1>3, <2>1
<1>9. StoppedIsAtRest'
  <2> SUFFICES ASSUME NEW d \in Call, Stopped(d)' PROVE ~Live(inst'[call[d].handle])
    BY <1>8 DEF StoppedIsAtRest
  <2>0. call[d].handle \in Handle
    <3>1. call[d].at = "disconnecting"
      BY <1>3 DEF Stopped
    <3>2. call[d].handle # NoHandle
      BY <3>1 DEF CrudInv, ClosureInv
    <3>3. call[d] \in Closure
      BY DEF TypeOK
    <3> QED
      BY <3>2, <3>3 DEF Closure
  <2>1. CASE d # op.by
    <3>1. Stopped(d)
      BY <1>3, <2>1 DEF Stopped
    <3>2. ~Live(inst[call[d].handle])
      BY <3>1, ConnectingIsLive DEF HandleInv, StoppedIsAtRest
    <3> QED
      BY <1>7, <2>0, <3>2
  <2>2. CASE d = op.by
    <3>1. call[d].handle = h /\ op.kind = "disconnect" /\ call[d].at = "disconnecting" /\ ~r.active
      BY <1>3, <1>4, <2>2, NameAssumption DEF Stopped
    <3>2. crudQueue # <<>>
      BY <3>1, CallInQueue DEF CrudInv
    <3>3. ASSUME NEW o \in Ops(r), o.kind = "connect" PROVE FALSE
      <4>1. o # r.running
        BY <3>1, <3>3 DEF Kinds
      <4>2. PICK n \in 1..Len(r.waiting) : o = r.waiting[n]
        BY <4>1 DEF Ops
      <4>3. o.by # NoCall
        BY <3>2, <3>3, <4>2 DEF Boots
      <4>4. o \in Ops(inst[h]) /\ Awaited(o, h) /\ o.by \in Call
        BY <1>0, <1>2, <3>3, <4>3, ChainTypes DEF Quiet
      <4>5. call[o.by].at = "connecting"
        BY <3>3, <4>3, <4>4 DEF Awaited
      <4> QED
        BY <3>1, <4>4, <4>5, OneAtATime DEF CrudInv
    <3> QED
      BY <1>0, <3>1, <3>3 DEF Live
  <2> QED
    BY <2>1, <2>2
<1>10. LeavingIsAtRest'
  <2> SUFFICES ASSUME NEW d \in Call, call'[d].at \in {"saving", "saved"}, call'[d].job.kind # "add"
               PROVE  ~Live(inst'[call[d].handle])
    BY <1>8 DEF LeavingIsAtRest
  <2>1. call[d].handle \in Handle
    <3>1. /\ call[d].at # "idle" /\ call[d].handle = Target(d)
          /\ call[d].job.kind = "add" <=> Target(d) = NoHandle
      BY <1>3 DEF CrudInv, ClosureInv
    <3>2. call[d].job \in Job
      BY <3>1, CallInQueue DEF CrudInv
    <3> QED
      BY <1>3, <3>1, <3>2, JobTypes DEF Target, TypeOK
  <2> QED
    BY <1>3, <1>7, <2>1, ConnectingIsLive DEF HandleInv, LeavingIsAtRest
<1>11. UntrackedIsAtRest'
  <2>1. \A g \in Handle : Tracked(g)' <=> Tracked(g)
    BY DEF Tracked
  <2> QED
    BY <1>7, <2>1, ConnectingIsLive DEF HandleInv, UntrackedIsAtRest
<1>12. WaitsForItsOwn'
  <2> SUFFICES ASSUME NEW d \in Call, call'[d].at \in {"connecting", "disconnecting"}, call'[d].answer = "none"
               PROVE  \E o \in Ops(inst'[call[d].handle]) : o.by = d
    BY <1>3 DEF WaitsForItsOwn, OperationsOf, Ops
  <2>1. d # op.by /\ call[d].at \in {"connecting", "disconnecting"} /\ call[d].answer = "none"
    BY <1>3
  <2>2. call[d].handle \in Handle
    BY <2>1 DEF CrudInv, ClosureInv, TypeOK, Closure
  <2>3. PICK o \in Ops(inst[call[d].handle]) : o.by = d
    BY <2>1, ConnectingIsLive DEF HandleInv, WaitsForItsOwn
  <2>4. o \in Ops(inst'[call[d].handle])
    <3>1. o.by \notin {NoCall, op.by}
      BY <2>1, <2>3, NameAssumption
    <3>2. CASE call[d].handle = h
      BY <1>0, <2>3, <3>1, <3>2
    <3>3. CASE call[d].handle # h
      BY <1>0, <2>2, <2>3, <3>3
    <3> QED
      BY <3>2, <3>3
  <2> QED
    BY <2>3, <2>4
<1> QED
  BY <1>5, <1>6, <1>9, <1>10, <1>11, <1>12 DEF HandleInv

--------------------------------------------------------------------------------

Alike(r, s) == r.active = s.active /\ r.running = s.running /\ r.waiting = s.waiting

\* The map changes at the entry of the call that has saved: the handle it had is
\* left behind, the one it gets, if any, is free and may connect for the call.
LEMMA EntryChanges ==
  ASSUME TypeOK, CrudInv, HandleInv, NEW c \in Call, Turn(c), call[c].at = "saved",
         call[c].job \in Job, NEW h \in Handle \cup {NoHandle},
         instances' = [instances EXCEPT ![call[c].job.id] = h],
         \A g \in Handle \ {h} : Alike(inst'[g], inst[g]),
         NEW k, call' = [call EXCEPT ![c] = k], k.answer = "none", k.at \in {"idle", "connecting"},
         k.at = "connecting" => h \in Handle /\ k.handle = h,
         h \in Handle => /\ ~inst'[h].active /\ inst'[h].running = Nothing
                         /\ inst'[h].waiting = IF k.at = "connecting" THEN <<Op("connect", c)>> ELSE <<>>
  PROVE  HandleInv'
<1>1. \A d \in Call : /\ call'[d] = IF d = c THEN k ELSE call[d]
                      /\ d # c => call'[d].at \in {"idle", "queued"}
  BY OthersWait DEF TypeOK, CrudInv
<1>2. crudQueue # <<>>
  BY DEF Turn
<1>3. \A g \in Handle : \A o \in Ops(inst[g]) : o.by # c
  BY NoneBy
<1>4. ASSUME NEW g \in Handle, g # h
      PROVE  Ops(inst'[g]) = Ops(inst[g]) /\ (Live(inst'[g]) <=> Live(inst[g]))
  BY <1>4 DEF Alike, Ops, Live
<1>5. h \in Handle => Ops(inst'[h]) = IF k.at = "connecting" THEN {Nothing, Op("connect", c)} ELSE {Nothing}
  BY DEF Ops
<1>6. ChainInv'
  <2>1. ASSUME NEW g \in Handle, NEW o \in Ops(inst'[g]) PROVE Awaited(o, g)'
    <3>1. CASE g # h
      <4>1. o \in Ops(inst[g]) /\ inst[g] \in Instance
        BY <1>4, <2>1, <3>1 DEF TypeOK
      <4>2. Awaited(o, g) /\ o.by # c /\ o.by \in Call \cup {NoCall}
        BY <1>3, <4>1, ChainTypes DEF HandleInv, ChainInv
      <4> QED
        BY <1>1, <4>2 DEF Awaited
    <3>2. CASE g = h
      <4>1. CASE k.at = "connecting" /\ o = Op("connect", c)
        BY <1>1, <3>2, <4>1 DEF Awaited, Op
      <4>2. CASE o = Nothing
        BY <4>2 DEF Awaited, Nothing
      <4> QED
        BY <1>5, <2>1, <3>2, <4>1, <4>2
    <3> QED
      BY <3>1, <3>2
  <2>2. ASSUME NEW g \in Handle PROVE (Once(inst[g]) /\ Boots(inst[g]) /\ Kinds(inst[g]))'
    <3>1. CASE g # h
      <4>1. Once(inst[g]) /\ Kinds(inst[g])
        BY DEF HandleInv, ChainInv
      <4>2. Once(inst'[g]) /\ Kinds(inst'[g])
        BY <1>4, <3>1, <4>1 DEF Once, Kinds, Alike
      <4>3. \A n \in 1..Len(inst'[g].waiting) :
              ~(inst'[g].waiting[n].kind = "connect" /\ inst'[g].waiting[n].by = NoCall)
        BY <1>2, <3>1, NoBoots DEF Alike
      <4> QED
        BY <4>2, <4>3 DEF Once, Boots, Kinds, Ops
    <3>2. CASE g = h
      <4>1. CASE inst'[h].waiting = <<>>
        <5>1. \A o \in Ops(inst'[h]) : o = Nothing
          BY <3>2, <4>1 DEF Ops
        <5> QED
          BY <3>2, <4>1, <5>1 DEF Once, Boots, Kinds, Nothing, Ops
      <4>2. CASE inst'[h].waiting = <<Op("connect", c)>>
        <5>1. /\ Len(inst'[h].waiting) = 1
              /\ inst'[h].waiting[1].by = c /\ inst'[h].waiting[1].kind = "connect" /\ c # NoCall
          BY <4>2, NameAssumption DEF Op
        <5>2. \A o \in Ops(inst'[h]) : o = Nothing \/ o = inst'[h].waiting[1]
          BY <3>2, <4>2 DEF Ops
        <5>3. \A n \in 1..Len(inst'[h].waiting) : n = 1
          BY <5>1
        <5>4. inst'[h].running = Nothing
          BY <3>2
        <5>5. Once(inst'[h])
          BY <5>1, <5>3, <5>4 DEF Once, Nothing
        <5>6. Boots(inst[h])'
          BY <5>1, <5>3 DEF Boots
        <5>7. Kinds(inst'[h])
          BY <5>1, <5>2, <5>4 DEF Kinds, Nothing
        <5> QED
          BY <3>2, <5>5, <5>6, <5>7 DEF Once, Kinds, Ops
      <4> QED
        BY <3>2, <4>1, <4>2
    <3> QED
      BY <3>1, <3>2
  <2>3. ASSUME NEW g \in Handle PROVE (\A o \in Ops(inst[g]) : Awaited(o, g))'
    BY <2>1 DEF Ops
  <2> QED
    BY <2>2, <2>3 DEF ChainInv
<1>7. AnswerInv'
  BY <1>1 DEF HandleInv, AnswerInv
<1>8. StoppedIsAtRest'
  BY <1>1 DEF StoppedIsAtRest, Stopped
<1>9. LeavingIsAtRest'
  BY <1>1 DEF LeavingIsAtRest
<1>10. UntrackedIsAtRest'
  <2> SUFFICES ASSUME NEW g \in Handle, Live(inst'[g]) PROVE \E i \in Id : instances'[i] = g
    BY ConnectingIsLive DEF UntrackedIsAtRest, Tracked
  <2>1. call[c].job.id \in Id
    BY JobTypes
  <2>2. CASE g = h
    BY <2>1, <2>2 DEF TypeOK
  <2>3. CASE g # h
    <3>1. PICK i \in Id : instances[i] = g
      BY <1>4, <2>3, ConnectingIsLive DEF HandleInv, UntrackedIsAtRest, Tracked
    <3>2. i # call[c].job.id
      <4> SUFFICES ASSUME i = call[c].job.id PROVE FALSE
        OBVIOUS
      <4>1. call[c].handle = g /\ call[c].job.kind # "add"
        BY <3>1, NameAssumption DEF CrudInv, ClosureInv, Target
      <4>2. ~Live(inst[g])
        BY <4>1, ConnectingIsLive DEF HandleInv, LeavingIsAtRest
      <4> QED
        BY <1>4, <2>3, <4>2
    <3> QED
      BY <3>1, <3>2 DEF TypeOK
  <2> QED
    BY <2>2, <2>3
<1>11. WaitsForItsOwn'
  <2> SUFFICES ASSUME NEW d \in Call, call'[d].at \in {"connecting", "disconnecting"}
               PROVE  \E o \in Ops(inst'[call'[d].handle]) : o.by = d
    BY DEF WaitsForItsOwn, OperationsOf, Ops
  <2>1. d = c /\ k.at = "connecting" /\ call'[d].handle = h /\ h \in Handle
    BY <1>1
  <2>2. Op("connect", c) \in Ops(inst'[h]) /\ Op("connect", c).by = c
    BY <1>5, <2>1 DEF Op
  <2> QED
    BY <2>1, <2>2
<1> QED
  BY <1>6, <1>7, <1>8, <1>9, <1>10, <1>11 DEF HandleInv

--------------------------------------------------------------------------------

\* With a call at its turn that connects nothing, a handle that is down stays down.
LEMMA DownIsAtRest ==
  ASSUME TypeOK, CrudInv, HandleInv, NEW c \in Call, Turn(c), call[c].at # "connecting",
         NEW h \in Handle, ~inst[h].active
  PROVE  ~Connecting(h)
<1> SUFFICES ASSUME NEW o \in Ops(inst[h]), o.kind = "connect" PROVE FALSE
  BY ConnectingIsLive DEF Live
<1>1. Awaited(o, h) /\ Kinds(inst[h]) /\ inst[h] \in Instance
  BY DEF HandleInv, ChainInv, TypeOK
<1>2. PICK n \in 1..Len(inst[h].waiting) : o = inst[h].waiting[n]
  BY <1>1 DEF Kinds, Ops
<1>3. o.by # NoCall
  BY <1>2, NoBoots DEF Turn
<1>4. o.by \in Call /\ call[o.by].at = "connecting"
  BY <1>1, <1>3, ChainTypes DEF Awaited
<1>5. Turn(o.by)
  BY <1>4 DEF CrudInv, QueueInv
<1> QED
  BY <1>4, <1>5 DEF Turn

\* A call that returns leaves nothing behind.
LEMMA FinishKeepsHandles ==
  ASSUME TypeOK, HandleInv, NEW c \in Call, Turn(c), Finish(c), UNCHANGED <<instances, inst>>,
         \A h \in Handle : \A op \in Ops(inst[h]) : op.by # c
  PROVE  HandleInv'
<1>1. crudQueue # <<>>
  BY DEF Turn
<1>2. Idle.at = "idle" /\ Idle.answer = "none"
  BY DEF Idle
<1> QED
  BY <1>1, <1>2, NoBoots, CallAlone DEF Finish

\* handle.connect(), accepted or refused, of a handle of the map.
LEMMA TryConnectKeepsHandles ==
  ASSUME TypeOK, CrudInv, HandleInv, NEW c \in Call, Turn(c), call[c].at # "idle",
         NEW h \in Handle, Tracked(h), TryConnect(c, h), UNCHANGED instances,
         \A g \in Handle : \A op \in Ops(inst[g]) : op.by # c
  PROVE  HandleInv'
<1>1. CASE Refuses(h)
  BY <1>1, FinishKeepsHandles DEF TryConnect
<1>2. CASE ~Refuses(h)
  <2> DEFINE k == [call[c] EXCEPT !.at = "connecting", !.handle = h, !.answer = "none"]
  <2>1. k.at = "connecting" /\ k.handle = h /\ k.answer = "none"
    BY DEF TypeOK, Closure
  <2>2. call' = [call EXCEPT ![c] = k] /\ Send(h, Op("connect", c)) /\ UNCHANGED crudQueue
    BY <1>2 DEF TryConnect
  <2> HIDE DEF k
  <2> QED
    BY <2>1, <2>2, CallSends
<1> QED
  BY <1>1, <1>2

\* The call at its turn goes on.
LEMMA ContinueKeepsHandles ==
  ASSUME TypeOK, CrudInv, HandleInv, NEW c \in Call, Continue(c)
  PROVE  HandleInv'
<1>1. call[c].at \notin {"idle", "saved", "saving"} /\ UNCHANGED <<up, file, instances>>
  <2>1. call[c].answer # "none" => call[c].at \in {"disconnecting", "connecting"}
    BY DEF HandleInv, AnswerInv
  <2> QED
    BY <2>1 DEF Continue, Begins, Stopped, CallRefused, CallDisconnect, CallConnect, CallSaves, CallReturns
<1>2. Turn(c) /\ call[c].job \in Job /\ call[c].job.id \in Id /\ Target(c) \in Handle \cup {NoHandle}
  <2>1. call[c].job \in Job
    BY <1>1, CallInQueue DEF CrudInv
  <2>2. Turn(c)
    BY <1>1 DEF Continue, Begins, CallRefused, CallDisconnect, CallConnect, CallSaves, CallReturns,
                Stopped, CrudInv, QueueInv
  <2> QED
    BY <2>1, <2>2, JobTypes DEF Target, TypeOK
<1>3. Target(c) \in Handle => Tracked(Target(c))
  BY <1>2 DEF Tracked, Target
<1>4. \A h \in Handle : \A op \in Ops(inst[h]) : op.by # c
  <2>1. call[c].at \notin {"disconnecting", "connecting"} \/ call[c].answer # "none"
    BY DEF Continue, Begins, CallRefused, CallDisconnect, CallConnect, CallSaves, CallReturns, Stopped
  <2> QED
    BY <2>1, NoneBy
<1>5. CASE CallRefused(c)
  BY <1>2, <1>4, <1>5, FinishKeepsHandles DEF CallRefused
<1>6. CASE CallDisconnect(c)
  <2> DEFINE k == [call[c] EXCEPT !.at = "disconnecting", !.handle = Target(c),
                                  !.wasActive = call[c].job.kind = "update"]
  <2>1. call[c].answer = "none"
    BY <1>6 DEF CallDisconnect, Begins, HandleInv, AnswerInv
  <2>2. k.at = "disconnecting" /\ k.handle = Target(c) /\ k.answer = "none"
    BY <2>1 DEF TypeOK, Closure
  <2>3. call' = [call EXCEPT ![c] = k]
    BY <1>6, Zenon DEF CallDisconnect
  <2> HIDE DEF k
  <2>4. Target(c) \in Handle /\ Send(Target(c), Op("disconnect", c)) /\ UNCHANGED crudQueue
    BY <1>2, <1>6 DEF CallDisconnect
  <2> QED
    BY <1>1, <1>2, <1>3, <1>4, <2>2, <2>3, <2>4, CallSends
<1>7. CASE CallConnect(c)
  <2>1. Target(c) \in Handle /\ TryConnect(c, Target(c))
    BY <1>2, <1>7 DEF CallConnect, Stopped, CrudInv, ClosureInv
  <2> QED
    BY <1>1, <1>2, <1>3, <1>4, <2>1, TryConnectKeepsHandles
<1>8. CASE CallSaves(c)
  <2> DEFINE k == [call[c] EXCEPT !.at = "saving", !.handle = Target(c), !.answer = "none",
                      !.image = [Memory EXCEPT ![call[c].job.id] = call[c].job.config]]
  <2>1. k.at = "saving" /\ k.handle = Target(c) /\ k.job = call[c].job /\ k.answer = "none"
    BY DEF TypeOK, Closure
  <2>2. call' = [call EXCEPT ![c] = k] /\ UNCHANGED <<inst, crudQueue>>
    BY <1>8 DEF CallSaves
  <2> HIDE DEF k
  <2>3. call[c].job.kind # "add" => ~Connecting(Target(c))
    <3>1. CASE Stopped(c)
      BY <3>1 DEF HandleInv, StoppedIsAtRest, Stopped, CrudInv, ClosureInv
    <3>2. CASE Begins(c) /\ call[c].job.kind \in {"remove", "update"} /\ Target(c) # NoHandle
                 /\ ~StopsFirst(c)
      <4>1. Target(c) \in Handle /\ ~inst[Target(c)].active /\ call[c].at # "connecting"
        BY <1>2, <3>2 DEF StopsFirst, Begins
      <4> QED
        BY <1>2, <4>1, DownIsAtRest
    <3> QED
      BY <1>8, <3>1, <3>2 DEF CallSaves
  <2>4. crudQueue # <<>>
    BY <1>2 DEF Turn
  <2> QED
    BY <1>1, <1>4, <2>1, <2>2, <2>3, <2>4, NoBoots, CallAlone
<1>9. CASE CallReturns(c)
  BY <1>2, <1>4, <1>9, FinishKeepsHandles DEF CallReturns
<1> QED
  BY <1>5, <1>6, <1>7, <1>8, <1>9 DEF Continue

\* A save settles: the rename, the rollback, or the change of the map.
LEMMA SaveSettlesKeepsHandles ==
  ASSUME TypeOK, CrudInv, HandleInv, NEW c \in Call, SaveSettles(c)
  PROVE  HandleInv'
<1>1. call[c].at \in {"saving", "saved"}
  BY DEF SaveSettles, Renamed, SaveFails, Swap, Drop
<1>2. /\ Turn(c) /\ crudQueue # <<>> /\ call[c].job \in Job /\ call[c].job.id \in Id
      /\ Target(c) \in Handle \cup {NoHandle} /\ call[c].handle = Target(c)
      /\ call[c].job.kind = "add" <=> Target(c) = NoHandle
      /\ call[c].answer = "none"
  <2>1. call[c].job \in Job /\ crudQueue # <<>>
    BY <1>1, CallInQueue DEF CrudInv
  <2> QED
    BY <1>1, <2>1, JobTypes DEF Target, TypeOK, CrudInv, QueueInv, ClosureInv, HandleInv, AnswerInv
<1>3. \A h \in Handle : \A op \in Ops(inst[h]) : op.by # c
  BY <1>1, NoneBy
<1>4. CASE Renamed(c)
  <2> DEFINE k == [call[c] EXCEPT !.at = "saved"]
  <2>1. k.at = "saved" /\ k.handle = call[c].handle /\ k.job = call[c].job /\ k.answer = "none"
    BY <1>2 DEF TypeOK, Closure
  <2>2. call' = [call EXCEPT ![c] = k] /\ UNCHANGED <<instances, inst>>
    BY <1>4 DEF Renamed
  <2> HIDE DEF k
  <2>3. call[c].job.kind # "add" => ~Connecting(call[c].handle)
    BY <1>1 DEF HandleInv, LeavingIsAtRest
  <2> QED
    BY <1>2, <1>3, <2>1, <2>2, <2>3, NoBoots, CallAlone
<1>5. CASE SaveFails(c)
  <2>1. CASE call[c].job.kind = "update" /\ call[c].wasActive
    <3>1. call[c].handle \in Handle /\ Tracked(call[c].handle)
      BY <1>2, <2>1 DEF Tracked, Target
    <3>2. TryConnect(c, call[c].handle) /\ UNCHANGED instances
      BY <1>5, <2>1 DEF SaveFails, FailedSaveIsUndone
    <3> QED
      BY <1>1, <1>2, <1>3, <3>1, <3>2, TryConnectKeepsHandles
  <2>2. CASE ~(call[c].job.kind = "update" /\ call[c].wasActive)
    BY <1>2, <1>3, <1>5, <2>2, FinishKeepsHandles DEF SaveFails, FailedSaveIsUndone
  <2> QED
    BY <2>1, <2>2
<1>6. ASSUME NEW g \in Handle PROVE Alike(Forgotten(g), inst[g])
  <2>1. inst[g] \in Instance
    BY DEF TypeOK
  <2> QED
    BY <2>1 DEF Alike, Forgotten, AtRest, Unused, Instance
<1>7. Idle.at = "idle" /\ Idle.answer = "none"
  BY DEF Idle
<1>8. CASE Swap(c)
  <2>1. call[c].at = "saved"
    BY <1>8 DEF Swap
  <2>2. PICK h \in Handle :
          /\ Replaced(c, h)
          /\ \/ /\ inst'[h].waiting # <<>>
                /\ call' = [call EXCEPT ![c] = [@ EXCEPT !.at = "connecting", !.handle = h]]
             \/ inst'[h].waiting = <<>> /\ Finish(c)
    BY <1>8, Zenon DEF Swap, FreeHandles
  <2>3. instances' = [instances EXCEPT ![call[c].job.id] = h]
    BY <2>2 DEF Replaced
  <2>4. inst'[h] = StartedWith(call[c].job.id, call[c].job.config, Connects(c), c)
    BY <2>2 DEF Replaced
  <2>5. /\ ~inst'[h].active /\ inst'[h].running = Nothing
        /\ inst'[h].waiting \in {<<>>, <<Op("connect", c)>>}
    BY <2>4 DEF StartedWith, Unused
  <2>6. \A g \in Handle \ {h} : Alike(inst'[g], inst[g])
    BY <1>6, <2>2 DEF Replaced, Alike
  <2>7. CASE inst'[h].waiting # <<>>
    <3> DEFINE k == [call[c] EXCEPT !.at = "connecting", !.handle = h]
    <3>1. k.at = "connecting" /\ k.handle = h /\ k.answer = "none"
      BY <1>2 DEF TypeOK, Closure
    <3>2. call' = [call EXCEPT ![c] = k]
      BY <2>2, <2>7
    <3> HIDE DEF k
    <3> QED
      BY <1>2, <2>1, <2>3, <2>5, <2>6, <2>7, <3>1, <3>2, EntryChanges
  <2>8. CASE inst'[h].waiting = <<>>
    <3>1. call' = [call EXCEPT ![c] = Idle]
      BY <2>2, <2>8 DEF Finish
    <3> QED
      BY <1>2, <1>7, <2>1, <2>3, <2>5, <2>6, <2>8, <3>1, EntryChanges
  <2> QED
    BY <2>7, <2>8
<1>9. CASE Drop(c)
  <2>1. call[c].at = "saved" /\ call' = [call EXCEPT ![c] = Idle]
        /\ instances' = [instances EXCEPT ![call[c].job.id] = NoHandle]
    BY <1>9 DEF Drop, Finish
  <2>2. call[c].handle \in Handle
    BY <1>2, <1>9 DEF Drop
  <2>3. \A g \in Handle : Alike(inst'[g], inst[g])
    BY <1>6, <1>9, <2>2 DEF Drop, TypeOK, Alike
  <2> QED
    BY <1>2, <1>7, <2>1, <2>3, NameAssumption, EntryChanges
<1> QED
  BY <1>4, <1>5, <1>8, <1>9 DEF SaveSettles

--------------------------------------------------------------------------------

\* The chain of a handle without its head.
LEMMA TailOfChain ==
  ASSUME NEW r \in Instance, r.waiting # <<>>
  PROVE  /\ Head(r.waiting) = r.waiting[1] /\ 1 \in 1..Len(r.waiting)
         /\ Len(Tail(r.waiting)) = Len(r.waiting) - 1
         /\ \A k \in 1..Len(Tail(r.waiting)) :
              Tail(r.waiting)[k] = r.waiting[k + 1] /\ k + 1 \in 1..Len(r.waiting)
         /\ \A k \in 1..Len(r.waiting) :
              k = 1 \/ (k - 1 \in 1..Len(Tail(r.waiting)) /\ Tail(r.waiting)[k - 1] = r.waiting[k])
<1>1. r.waiting \in Seq(Operation) /\ Len(r.waiting) \in Nat /\ Len(r.waiting) # 0
  BY ChainTypes
<1>2. Head(r.waiting) = r.waiting[1]
  BY <1>1
<1>3. Len(Tail(r.waiting)) = Len(r.waiting) - 1
  BY <1>1
<1>4. \A k \in 1..Len(Tail(r.waiting)) :
        Tail(r.waiting)[k] = r.waiting[k + 1] /\ k + 1 \in 1..Len(r.waiting)
  BY <1>1, <1>3
<1>5. \A k \in 1..Len(r.waiting) : k = 1 \/ k - 1 \in 1..Len(Tail(r.waiting))
  BY <1>1, <1>3
<1>6. \A k \in 1..Len(r.waiting) : k = 1 \/ Tail(r.waiting)[k - 1] = r.waiting[k]
  <2> SUFFICES ASSUME NEW k \in 1..Len(r.waiting), k # 1 PROVE Tail(r.waiting)[k - 1] = r.waiting[k]
    OBVIOUS
  <2>1. Tail(r.waiting)[k - 1] = r.waiting[(k - 1) + 1]
    BY <1>4, <1>5
  <2>2. (k - 1) + 1 = k
    BY <1>1
  <2> QED
    BY <2>1, <2>2
<1> QED
  BY <1>1, <1>2, <1>3, <1>4, <1>5, <1>6

\* The head of a chain becomes the running operation, or is over at once.
LEMMA HeadLeaves ==
  ASSUME TypeOK, HandleInv, NEW h \in Handle, ChainIsDue(h), NEW r \in Instance,
         r.waiting = Tail(inst[h].waiting), r.running \in {Nothing, Head(inst[h].waiting)},
         r.running.kind = "connect" => r.active
  PROVE  /\ Ops(r) \subseteq Ops(inst[h]) /\ Head(inst[h].waiting) \in Ops(inst[h])
         /\ r.running = Nothing =>
              /\ \A o \in Ops(r) : o.by # NoCall => o.by # Head(inst[h].waiting).by
              /\ \A o \in Ops(inst[h]) : o = Head(inst[h].waiting) \/ o \in Ops(r)
         /\ r.running = Head(inst[h].waiting) => \A o \in Ops(inst[h]) : o = Nothing \/ o \in Ops(r)
         /\ Once(r) /\ Boots(r) /\ Kinds(r)
<1> DEFINE s == inst[h]
           w == Tail(s.waiting)
<1>1. s \in Instance /\ s.waiting # <<>> /\ s.running = Nothing
  BY DEF TypeOK, ChainIsDue
<1>2. Once(s) /\ Boots(s) /\ Kinds(s)
  BY DEF HandleInv, ChainInv
<1>3. /\ Head(s.waiting) = s.waiting[1] /\ 1 \in 1..Len(s.waiting)
      /\ Len(w) = Len(s.waiting) - 1 /\ Len(s.waiting) \in Nat
      /\ \A k \in 1..Len(w) : w[k] = s.waiting[k + 1] /\ k + 1 \in 1..Len(s.waiting)
      /\ \A k \in 1..Len(s.waiting) : k = 1 \/ (k - 1 \in 1..Len(w) /\ w[k - 1] = s.waiting[k])
  BY <1>1, TailOfChain, ChainTypes
<1>4. r.waiting = w
  OBVIOUS
<1> HIDE DEF w
<1>5. Ops(r) \subseteq Ops(s)
  BY <1>1, <1>3, <1>4 DEF Ops
<1>6. Head(s.waiting) \in Ops(s)
  BY <1>3 DEF Ops
<1>7. \A o \in Ops(s) : o = Nothing \/ o = Head(s.waiting) \/ \E k \in 1..Len(w) : o = w[k]
  <2>1. \A k \in 1..Len(s.waiting) : k = 1 \/ \E l \in 1..Len(w) : s.waiting[k] = w[l]
    <3> SUFFICES ASSUME NEW k \in 1..Len(s.waiting), k # 1 PROVE \E l \in 1..Len(w) : s.waiting[k] = w[l]
      OBVIOUS
    <3>1. k - 1 \in 1..Len(w) /\ w[k - 1] = s.waiting[k]
      BY <1>3
    <3> QED
      BY <3>1
  <2>2. ASSUME NEW o \in Ops(s), o # Nothing
        PROVE  \E k \in 1..Len(s.waiting) : o = s.waiting[k]
    BY <1>1, <2>2 DEF Ops
  <2>3. ASSUME NEW o \in Ops(s), o # Nothing
        PROVE  o = Head(s.waiting) \/ \E k \in 1..Len(w) : o = w[k]
    <3>1. PICK k \in 1..Len(s.waiting) : o = s.waiting[k]
      BY <2>2, <2>3
    <3>2. k = 1 => o = Head(s.waiting)
      BY <1>3, <3>1
    <3> QED
      BY <2>1, <3>1, <3>2
  <2> QED
    BY <2>3
<1>8. \A k \in 1..Len(w) : w[k].by # NoCall => w[k].by # Head(s.waiting).by
  <2> SUFFICES ASSUME NEW k \in 1..Len(w), w[k].by # NoCall, w[k].by = Head(s.waiting).by PROVE FALSE
    OBVIOUS
  <2>1. s.waiting[1].by = s.waiting[k + 1].by /\ k + 1 \in 1..Len(s.waiting) /\ s.waiting[k + 1].by # NoCall
    BY <1>3
  <2>2. 1 = k + 1
    BY <1>2, <1>3, <2>1 DEF Once
  <2> QED
    BY <1>3, <2>2
<1>9. r.running = Nothing =>
        /\ \A o \in Ops(r) : o.by # NoCall => o.by # Head(s.waiting).by
        /\ \A o \in Ops(s) : o = Head(s.waiting) \/ o \in Ops(r)
  <2> SUFFICES ASSUME r.running = Nothing
               PROVE  /\ \A o \in Ops(r) : o.by # NoCall => o.by # Head(s.waiting).by
                      /\ \A o \in Ops(s) : o = Head(s.waiting) \/ o \in Ops(r)
    OBVIOUS
  <2>1. \A o \in Ops(r) : o = Nothing \/ \E k \in 1..Len(w) : o = w[k]
    BY <1>4 DEF Ops
  <2>2. Nothing \in Ops(r) /\ \A k \in 1..Len(w) : w[k] \in Ops(r)
    BY <1>4 DEF Ops
  <2>3. Nothing.by = NoCall
    BY DEF Nothing
  <2> HIDE DEF s
  <2> QED
    BY <1>7, <1>8, <2>1, <2>2, <2>3
<1>10. r.running = Head(s.waiting) => \A o \in Ops(s) : o = Nothing \/ o \in Ops(r)
  BY <1>4, <1>7 DEF Ops
<1>11. Once(r)
  <2> SUFFICES ASSUME NEW k \in 1..Len(w), w[k].by # NoCall
               PROVE  w[k].by # r.running.by /\ \A l \in 1..Len(w) : w[l].by = w[k].by => l = k
    BY <1>4 DEF Once
  <2>1. w[k].by # r.running.by
    BY <1>8 DEF Nothing
  <2>2. ASSUME NEW l \in 1..Len(w), w[l].by = w[k].by PROVE l = k
    <3>1. s.waiting[l + 1].by = s.waiting[k + 1].by /\ s.waiting[k + 1].by # NoCall
          /\ k + 1 \in 1..Len(s.waiting) /\ l + 1 \in 1..Len(s.waiting)
      BY <1>3, <2>2
    <3>2. l + 1 = k + 1
      BY <1>2, <3>1 DEF Once
    <3> QED
      BY <1>3, <3>2
  <2> QED
    BY <2>1, <2>2
<1>12. Boots(r)
  <2> SUFFICES ASSUME NEW k \in 1..Len(w), w[k].kind = "connect", w[k].by = NoCall PROVE FALSE
    BY <1>4 DEF Boots
  <2>1. s.waiting[k + 1].kind = "connect" /\ s.waiting[k + 1].by = NoCall /\ k + 1 \in 1..Len(s.waiting)
    BY <1>3
  <2>2. Len(s.waiting) = 1
    BY <1>2, <2>1 DEF Boots
  <2> QED
    BY <1>3, <2>2
<1>13. Kinds(r)
  BY <1>2, <1>5 DEF Kinds
<1> QED
  BY <1>5, <1>6, <1>9, <1>10, <1>11, <1>12, <1>13

\* An operation begins.
LEMMA BeginsKeepsHandles ==
  ASSUME TypeOK, CrudInv, HandleInv, NEW h \in Handle, OperationBegins(h)
  PROVE  HandleInv'
<1> DEFINE op   == Head(inst[h].waiting)
           rest == [inst[h] EXCEPT !.waiting = Tail(@)]
<1>1. inst[h] \in Instance /\ ChainIsDue(h) /\ inst[h].running = Nothing /\ UNCHANGED <<instances, crudQueue>>
  BY DEF TypeOK, OperationBegins, ChainIsDue
<1>2. inst[h].waiting # <<>> /\ op \in Operation /\ op \in Ops(inst[h])
  <2>1. inst[h].waiting # <<>> /\ op \in Operation
    BY <1>1, InstanceTypes DEF ChainIsDue
  <2> QED
    BY <1>1, <2>1, TailOfChain DEF Ops
<1>3. \/ \E active \in BOOLEAN :
           /\ inst' = [inst EXCEPT ![h] = [rest EXCEPT !.running = op, !.active = active]]
           /\ UNCHANGED call
           /\ active => inst[h].active \/ op.kind = "connect"
           /\ op.kind = "connect" => active
      \/ \E active \in BOOLEAN, answer \in {"resolved", "rejected"} :
           /\ inst' = [inst EXCEPT ![h] = [rest EXCEPT !.active = active]]
           /\ Answered(op, answer)
           /\ active => inst[h].active
           /\ op.kind = "disconnect" /\ answer = "resolved" => ~active
  BY <1>1, <1>2 DEF OperationBegins, Operation, Instance
<1>4. CASE \E active \in BOOLEAN :
             /\ inst' = [inst EXCEPT ![h] = [rest EXCEPT !.running = op, !.active = active]]
             /\ UNCHANGED call
             /\ active => inst[h].active \/ op.kind = "connect"
             /\ op.kind = "connect" => active
  <2>1. PICK active \in BOOLEAN :
             /\ inst' = [inst EXCEPT ![h] = [rest EXCEPT !.running = op, !.active = active]]
             /\ UNCHANGED call
             /\ active => inst[h].active \/ op.kind = "connect"
             /\ op.kind = "connect" => active
    BY <1>4
  <2> DEFINE r == [rest EXCEPT !.running = op, !.active = active]
  <2>2. r \in Instance
    BY <1>1, <1>2, InstanceTypes
  <2>3. r.waiting = Tail(inst[h].waiting) /\ r.running = op /\ r.active = active
    BY <1>1 DEF Instance
  <2>4. inst' = [inst EXCEPT ![h] = r]
    BY <2>1
  <2> HIDE DEF r, rest
  <2>5. Ops(r) \subseteq Ops(inst[h]) /\ (\A o \in Ops(inst[h]) : o = Nothing \/ o \in Ops(r))
        /\ Once(r) /\ Boots(r) /\ Kinds(r)
    BY <1>1, <2>1, <2>2, <2>3, HeadLeaves
  <2>6. Live(r) => Live(inst[h])
    BY <1>2, <2>1, <2>3, <2>5 DEF Live
  <2>7. Answered(Nothing, "resolved") /\ Nothing.by = NoCall /\ Nothing.kind = "none"
    BY <2>1 DEF Answered, Nothing
  <2>8. Settles(h, r, Nothing, "resolved")
    BY <1>1, <2>4, <2>5, <2>6, <2>7 DEF Settles
  <2> QED
    BY <2>2, <2>8, SettlesKeeps
<1>5. CASE \E active \in BOOLEAN, answer \in {"resolved", "rejected"} :
             /\ inst' = [inst EXCEPT ![h] = [rest EXCEPT !.active = active]]
             /\ Answered(op, answer)
             /\ active => inst[h].active
             /\ op.kind = "disconnect" /\ answer = "resolved" => ~active
  <2>1. PICK active \in BOOLEAN, answer \in {"resolved", "rejected"} :
             /\ inst' = [inst EXCEPT ![h] = [rest EXCEPT !.active = active]]
             /\ Answered(op, answer)
             /\ active => inst[h].active
             /\ op.kind = "disconnect" /\ answer = "resolved" => ~active
    BY <1>5
  <2> DEFINE r == [rest EXCEPT !.active = active]
  <2>2. r \in Instance
    BY <1>1, <1>2, InstanceTypes
  <2>3. r.waiting = Tail(inst[h].waiting) /\ r.running = Nothing /\ r.active = active
    BY <1>1 DEF Instance
  <2>4. inst' = [inst EXCEPT ![h] = r]
    BY <2>1
  <2> HIDE DEF r, rest
  <2>5. Ops(r) \subseteq Ops(inst[h]) /\ (\A o \in Ops(inst[h]) : o = op \/ o \in Ops(r))
        /\ (\A o \in Ops(r) : o.by # NoCall => o.by # op.by)
        /\ Once(r) /\ Boots(r) /\ Kinds(r)
    BY <1>1, <2>2, <2>3, HeadLeaves DEF Nothing
  <2>6. Live(r) => Live(inst[h])
    BY <2>1, <2>3, <2>5 DEF Live
  <2>7. Settles(h, r, op, answer)
    BY <1>1, <2>1, <2>3, <2>4, <2>5, <2>6 DEF Settles
  <2> QED
    BY <1>2, <2>1, <2>2, <2>7, SettlesKeeps
<1> QED
  BY <1>3, <1>4, <1>5

\* An operation ends, or a connection is lost.
LEMMA EndsKeepsHandles ==
  ASSUME TypeOK, CrudInv, HandleInv, NEW h \in Handle, OperationEnds(h) \/ ConnectionLost(h)
  PROVE  HandleInv'
<1> DEFINE s == inst[h]
<1>1. s \in Instance /\ Once(s) /\ Boots(s) /\ Kinds(s) /\ UNCHANGED <<instances, crudQueue>>
  BY DEF TypeOK, HandleInv, ChainInv, OperationEnds, ConnectionLost
<1>2. \A k \in 1..Len(s.waiting) : s.waiting[k] \in Ops(s)
  BY DEF Ops
<1>3. Nothing.by = NoCall /\ Nothing.kind = "none" /\ Nothing \in Quiet
  BY DEF Nothing, Quiet
<1>4. CASE OperationEnds(h)
  <2>1. PICK active \in BOOLEAN, answer \in {"resolved", "rejected"} :
          /\ inst' = [inst EXCEPT ![h] = [s EXCEPT !.running = Nothing, !.active = active]]
          /\ Answered(s.running, answer)
          /\ active => s.active
          /\ s.running.kind = "disconnect" /\ answer = "resolved" => ~active
    BY <1>1, <1>4 DEF OperationEnds, TypeOK, Instance
  <2>2. s.running # Nothing /\ s.running \in Ops(s)
    BY <1>3, <1>4 DEF OperationEnds, Ops
  <2> DEFINE r == [s EXCEPT !.running = Nothing, !.active = active]
  <2>3. r \in Instance
    BY <1>1, InstanceTypes
  <2>4. r.waiting = s.waiting /\ r.running = Nothing /\ r.active = active
    BY <1>1 DEF Instance
  <2>5. inst' = [inst EXCEPT ![h] = r]
    BY <2>1
  <2> HIDE DEF r, s
  <2>6. \A o \in Ops(r) : o = Nothing \/ \E k \in 1..Len(s.waiting) : o = s.waiting[k]
    BY <2>4 DEF Ops
  <2>7. \A o \in Ops(s) : o = s.running \/ o \in Ops(r)
    BY <2>4 DEF Ops
  <2>8. Ops(r) \subseteq Ops(s) \cup {Nothing}
    BY <1>2, <2>6
  <2>9. \A o \in Ops(r) : o.by # NoCall => o.by # s.running.by
    BY <1>1, <1>3, <2>6 DEF Once
  <2>10. Once(r)
    BY <1>1, <1>3, <2>4 DEF Once
  <2>11. Boots(r)
    BY <1>1, <2>2, <2>4 DEF Boots
  <2>12. Kinds(r)
    BY <1>1, <1>3, <2>4, <2>8 DEF Kinds
  <2>13. Live(r) => Live(s)
    BY <1>3, <2>1, <2>4, <2>8 DEF Live
  <2>14. Settles(h, r, s.running, answer)
    BY <1>1, <1>3, <2>1, <2>4, <2>5, <2>7, <2>8, <2>9, <2>10, <2>11, <2>12, <2>13 DEF Settles, s
  <2> QED
    BY <2>2, <2>3, <2>14, SettlesKeeps DEF s
<1>5. CASE ConnectionLost(h)
  <2> DEFINE r == [s EXCEPT !.active = FALSE]
  <2>1. r \in Instance
    BY <1>1, InstanceTypes
  <2>2. r.waiting = s.waiting /\ r.running = s.running /\ ~r.active
    BY <1>1 DEF Instance
  <2>3. inst' = [inst EXCEPT ![h] = r] /\ s.running.kind # "connect" /\ UNCHANGED call
    BY <1>5 DEF ConnectionLost
  <2> HIDE DEF r, s
  <2>4. Ops(r) = Ops(s)
    BY <2>2 DEF Ops
  <2>5. Once(r) /\ Boots(r) /\ Kinds(r)
    BY <1>1, <2>2, <2>3, <2>4 DEF Once, Boots, Kinds
  <2>6. Settles(h, r, Nothing, "resolved")
    BY <1>1, <1>3, <2>2, <2>3, <2>4, <2>5 DEF Settles, Live, Answered, s
  <2> QED
    BY <2>1, <2>6, SettlesKeeps
<1> QED
  BY <1>4, <1>5

\* A sign-in is put on a chain: nobody waits for it, and it connects nothing.
LEMMA AuthenticateKeepsHandles ==
  ASSUME TypeOK, CrudInv, HandleInv, NEW i \in Id, Authenticate(i)
  PROVE  HandleInv'
<1> DEFINE h  == instances[i]
           op == Op("sign_in", NoCall)
           r  == [inst[h] EXCEPT !.waiting = Append(@, op)]
<1>1. h \in Handle /\ inst[h] \in Instance /\ UNCHANGED <<instances, crudQueue, call>>
  BY DEF Authenticate, TypeOK
<1>2. op \in Operation /\ op \in Quiet /\ op.by = NoCall /\ op.kind = "sign_in"
  BY DEF Op, Operation, Quiet
<1>3. r \in Instance
  <2>1. Append(inst[h].waiting, op) \in Seq(Operation)
    BY <1>1, <1>2, ChainTypes
  <2> QED
    BY <1>1, <2>1 DEF Instance
<1>4. inst' = [inst EXCEPT ![h] = r]
  BY DEF Authenticate, Send
<1>5. \A k \in 1..Len(inst[h].waiting) : ~(inst[h].waiting[k].kind = "connect" /\ inst[h].waiting[k].by = NoCall)
  BY <1>1, NoBootsSettled DEF Authenticate
<1>6. r.waiting = Append(inst[h].waiting, op) /\ r.running = inst[h].running /\ r.active = inst[h].active
  BY <1>1 DEF Instance
<1>7. /\ Len(r.waiting) = Len(inst[h].waiting) + 1 /\ Len(inst[h].waiting) \in Nat
      /\ \A k \in 1..Len(inst[h].waiting) : r.waiting[k] = inst[h].waiting[k]
      /\ r.waiting[Len(r.waiting)] = op
  BY <1>1, <1>2, <1>6, ChainTypes
<1> HIDE DEF r, op
<1>8. \A k \in 1..Len(r.waiting) : k \in 1..Len(inst[h].waiting) \/ k = Len(r.waiting)
  BY <1>7
<1>9. Ops(r) = Ops(inst[h]) \cup {op}
  <2>1. \A o \in Ops(r) : o \in Ops(inst[h]) \cup {op}
    BY <1>6, <1>7, <1>8 DEF Ops
  <2>2. op \in Ops(r)
    <3>1. Len(r.waiting) \in 1..Len(r.waiting)
      BY <1>7
    <3> QED
      BY <1>7, <3>1 DEF Ops
  <2>3. \A o \in Ops(inst[h]) : o \in Ops(r)
    <3>1. \A k \in 1..Len(inst[h].waiting) : k \in 1..Len(r.waiting)
      BY <1>7
    <3> QED
      BY <1>6, <1>7, <3>1 DEF Ops
  <2> QED
    BY <2>1, <2>2, <2>3
<1>10. Once(inst[h]) /\ Kinds(inst[h])
  BY <1>1 DEF HandleInv, ChainInv
<1>11. Once(r)
  <2> SUFFICES ASSUME NEW k \in 1..Len(r.waiting), r.waiting[k].by # NoCall
               PROVE  /\ r.waiting[k].by # r.running.by
                      /\ \A l \in 1..Len(r.waiting) : r.waiting[l].by = r.waiting[k].by => l = k
    BY DEF Once
  <2>1. k \in 1..Len(inst[h].waiting) /\ r.waiting[k] = inst[h].waiting[k]
    BY <1>2, <1>7, <1>8
  <2>2. ASSUME NEW l \in 1..Len(r.waiting), r.waiting[l].by = r.waiting[k].by PROVE l = k
    <3>1. l \in 1..Len(inst[h].waiting) /\ r.waiting[l] = inst[h].waiting[l]
      BY <1>2, <1>7, <1>8, <2>2
    <3> QED
      BY <1>10, <2>1, <2>2, <3>1 DEF Once
  <2> QED
    BY <1>6, <1>10, <2>1, <2>2 DEF Once
<1>12. Boots(r)
  <2> SUFFICES ASSUME NEW k \in 1..Len(r.waiting), r.waiting[k].kind = "connect", r.waiting[k].by = NoCall
               PROVE  FALSE
    BY DEF Boots
  <2>1. k \in 1..Len(inst[h].waiting) /\ r.waiting[k] = inst[h].waiting[k]
    BY <1>2, <1>7, <1>8
  <2> QED
    BY <1>5, <2>1
<1>13. Kinds(r)
  BY <1>2, <1>6, <1>9, <1>10 DEF Kinds
<1>14. Live(r) => Live(inst[h])
  BY <1>2, <1>6, <1>9 DEF Live
<1>15. Answered(Nothing, "resolved") /\ Nothing.by = NoCall /\ Nothing.kind = "none"
  BY <1>1 DEF Answered, Nothing
<1>16. Settles(h, r, Nothing, "resolved")
  BY <1>1, <1>2, <1>4, <1>9, <1>11, <1>12, <1>13, <1>14, <1>15 DEF Settles
<1> QED
  BY <1>1, <1>3, <1>16, SettlesKeeps

\* A cancelled sign-in is still on its chain; nothing else there is touched.
LEMMA CancelKeepsHandles ==
  ASSUME TypeOK, CrudInv, HandleInv, NEW i \in Id, CancelAuthentication(i)
  PROVE  HandleInv'
<1> DEFINE h    == instances[i]
           s    == inst[h]
           rest == [k \in 1..Len(s.waiting) |-> Cancelled(s.waiting[k])]
           r    == [s EXCEPT !.running = Cancelled(s.running), !.waiting = rest]
<1>1. h \in Handle /\ s \in Instance /\ UNCHANGED <<instances, crudQueue, call>>
  BY DEF CancelAuthentication, TypeOK
<1>2. \A o \in Operation \cup {Nothing} :
        /\ Cancelled(o) = o \/ Cancelled(o) \in Quiet
        /\ Cancelled(o).by = o.by
        /\ o.by # NoCall => Cancelled(o) = o
        /\ Cancelled(o).kind \in {"connect", "disconnect"} => Cancelled(o) = o
        /\ Cancelled(o) \in Operation \cup {Nothing}
  BY DEF Cancelled, Op, Operation, Nothing, Quiet
<1>3. \A o \in Operation : Cancelled(o) \in Operation
  BY DEF Cancelled, Op, Operation
<1>4. /\ Len(s.waiting) \in Nat /\ s.running \in Operation \cup {Nothing}
      /\ \A k \in 1..Len(s.waiting) : s.waiting[k] \in Operation
      /\ \A o \in Ops(s) : o \in Operation \cup {Nothing}
  BY <1>1, ChainTypes
<1>5. rest \in Seq(Operation) /\ Len(rest) = Len(s.waiting)
  BY <1>3, <1>4
<1>6. r \in Instance
  BY <1>1, <1>2, <1>4, <1>5 DEF Instance
<1>7. inst' = [inst EXCEPT ![h] = r]
  BY <1>1 DEF CancelAuthentication, TypeOK, Instance
<1>8. r.waiting = rest /\ r.running = Cancelled(s.running) /\ r.active = s.active
  BY <1>1 DEF Instance
<1>9. /\ Len(r.waiting) = Len(s.waiting)
      /\ \A k \in 1..Len(s.waiting) : r.waiting[k] = Cancelled(s.waiting[k])
  BY <1>5, <1>8
<1>10. Once(s) /\ Kinds(s)
  BY <1>1 DEF HandleInv, ChainInv
<1>11. \A k \in 1..Len(s.waiting) : ~(s.waiting[k].kind = "connect" /\ s.waiting[k].by = NoCall)
  BY <1>1, NoBootsSettled DEF CancelAuthentication
<1> HIDE DEF r, rest, s
<1>12. \A o \in Ops(s) : Cancelled(o) \in Ops(r)
  BY <1>8, <1>9 DEF Ops
<1>13. \A o \in Ops(r) : \E p \in Ops(s) : o = Cancelled(p)
  <2> SUFFICES ASSUME NEW o \in Ops(r) PROVE \E p \in Ops(s) : o = Cancelled(p)
    OBVIOUS
  <2>1. CASE o = r.running
    BY <1>8, <2>1 DEF Ops
  <2>2. CASE o # r.running
    <3>1. PICK k \in 1..Len(s.waiting) : o = Cancelled(s.waiting[k])
      BY <1>9, <2>2 DEF Ops
    <3>2. s.waiting[k] \in Ops(s)
      BY DEF Ops
    <3> QED
      BY <3>1, <3>2
  <2> QED
    BY <2>1, <2>2
<1>14. \A o \in Ops(r) : o \in Ops(s) \/ o \in Quiet
  BY <1>2, <1>4, <1>13
<1>15. \A o \in Ops(s) : o.by = NoCall \/ o \in Ops(r)
  BY <1>2, <1>4, <1>12
<1>16. Once(r)
  BY <1>2, <1>4, <1>8, <1>9, <1>10 DEF Once
<1>17. Boots(r)
  BY <1>2, <1>4, <1>9, <1>11 DEF Boots
<1>18. Kinds(r)
  BY <1>2, <1>4, <1>8, <1>10, <1>14 DEF Kinds, Quiet
<1>19. Live(r) => Live(s)
  BY <1>8, <1>14 DEF Live, Quiet
<1>20. Answered(Nothing, "resolved") /\ Nothing.by = NoCall /\ Nothing.kind = "none"
  BY <1>1 DEF Answered, Nothing
<1>21. Settles(h, r, Nothing, "resolved")
  BY <1>1, <1>7, <1>14, <1>15, <1>16, <1>17, <1>18, <1>19, <1>20 DEF Settles, s
<1> QED
  BY <1>1, <1>6, <1>21, SettlesKeeps

\* A request is queued.
LEMMA RequestKeepsHandles ==
  ASSUME TypeOK, CrudInv, HandleInv, NEW c \in Call, NEW job \in Job, Request(c, job)
  PROVE  HandleInv'
<1> DEFINE k == [Idle EXCEPT !.job = job, !.at = "queued"]
<1>1. k.at = "queued" /\ k.answer = "none"
  BY DEF Idle
<1>2. call' = [call EXCEPT ![c] = k] /\ UNCHANGED <<instances, inst>> /\ Settled /\ call[c].at = "idle"
  BY DEF Request
<1> HIDE DEF k
<1> QED
  BY <1>1, <1>2, NoneBy, NoBootsSettled, CallAlone

--------------------------------------------------------------------------------

\* Before the first call: every handle is unused, or in the map with a connect
\* to boot with.
Booted(r) == /\ ~r.active /\ r.running = Nothing
             /\ r.waiting = <<>> \/ r.waiting = <<Op("connect", NoCall)>>

\* Such a record satisfies what HandleInv says of a chain.
LEMMA BootedChain ==
  ASSUME NEW r, Booted(r)
  PROVE  /\ \A op \in Ops(r) : op.by = NoCall /\ op.kind # "disconnect"
         /\ Once(r) /\ Kinds(r)
         /\ \A k \in 1..Len(r.waiting) : Len(r.waiting) = 1
         /\ Live(r) => r.waiting # <<>>
<1>1. CASE r.waiting = <<>>
  <2>1. Ops(r) = {Nothing} /\ Len(r.waiting) = 0
    BY <1>1 DEF Booted, Ops
  <2>2. ~\E k \in 1..Len(r.waiting) : TRUE
    BY <2>1
  <2> QED
    BY <2>1, <2>2 DEF Once, Kinds, Live, Booted, Nothing
<1>2. CASE r.waiting = <<Op("connect", NoCall)>>
  <2>1. /\ Ops(r) = {Nothing, Op("connect", NoCall)} /\ Len(r.waiting) = 1
        /\ r.waiting[1] = Op("connect", NoCall)
    BY <1>2 DEF Booted, Ops
  <2>2. \A k \in 1..Len(r.waiting) : r.waiting[k].by = NoCall
    BY <2>1 DEF Op
  <2>3. Once(r)
    BY <2>2 DEF Once
  <2>4. Kinds(r)
    BY <2>1 DEF Kinds, Booted, Nothing, Op
  <2> QED
    BY <1>2, <2>1, <2>3, <2>4 DEF Nothing, Op
<1> QED
  BY <1>1, <1>2 DEF Booted

\* startAll.
LEMMA StartAllKeepsHandles ==
  ASSUME TypeOK, CrudInv, HandleInv, StartAll
  PROVE  HandleInv'
<1>1. crudQueue = <<>> /\ UNCHANGED <<crudQueue, call>>
  BY DEF CrudInv, QueueInv, StartAll
<1>2. \A c \in Call : call[c].at = "idle" /\ call[c].answer = "none"
  BY <1>1 DEF CrudInv, QueueInv, HandleInv, AnswerInv
<1>3. ASSUME NEW h \in Handle
      PROVE  Booted(inst'[h]) /\ (inst'[h].waiting # <<>> => \E i \in Id : instances'[i] = h)
  <2>1. CASE \E i \in Id : instances'[i] = h
    <3>1. PICK i : inst'[h] = StartedWith(i, file[i], file[i] \in AutoConnect, NoCall)
      BY <2>1 DEF StartAll
    <3> QED
      BY <2>1, <3>1 DEF StartedWith, Unused, Booted
  <2>2. CASE ~\E i \in Id : instances'[i] = h
    <3>1. inst'[h] = Unused
      BY <2>2 DEF StartAll
    <3> QED
      BY <3>1 DEF Unused, Booted
  <2> QED
    BY <2>1, <2>2
<1>4. ChainInv'
  <2> SUFFICES ASSUME NEW h \in Handle
               PROVE  (/\ \A op \in Ops(inst[h]) : Awaited(op, h)
                       /\ Once(inst[h]) /\ Boots(inst[h]) /\ Kinds(inst[h]))'
    BY DEF ChainInv
  <2>1. /\ \A op \in Ops(inst'[h]) : op.by = NoCall
        /\ Once(inst'[h]) /\ Kinds(inst'[h])
        /\ \A k \in 1..Len(inst'[h].waiting) : Len(inst'[h].waiting) = 1
        /\ inst'[h].running = Nothing
    BY <1>3, BootedChain DEF Booted
  <2>2. Boots(inst[h])'
    BY <1>1, <2>1 DEF Boots
  <2> QED
    BY <2>1, <2>2 DEF Ops, Once, Kinds, Awaited
<1>5. AnswerInv' /\ StoppedIsAtRest' /\ LeavingIsAtRest' /\ WaitsForItsOwn'
  BY <1>1, <1>2 DEF AnswerInv, StoppedIsAtRest, Stopped, LeavingIsAtRest, WaitsForItsOwn
<1>6. UntrackedIsAtRest'
  <2> SUFFICES ASSUME NEW h \in Handle, Live(inst'[h]) PROVE \E i \in Id : instances'[i] = h
    BY ConnectingIsLive DEF UntrackedIsAtRest, Tracked
  <2> QED
    BY <1>3, BootedChain
<1> QED
  BY <1>4, <1>5, <1>6 DEF HandleInv

\* The end of the process leaves no operation and no call.
LEMMA CrashKeepsHandles ==
  ASSUME Crash
  PROVE  HandleInv'
<1>1. \A c \in Call : call'[c].at = "idle" /\ call'[c].answer = "none"
  BY DEF Crash, Idle
<1>2. \A h \in Handle : Booted(inst'[h]) /\ inst'[h].waiting = <<>>
  BY DEF Crash, Unused, Booted
<1>3. ChainInv'
  <2> SUFFICES ASSUME NEW h \in Handle
               PROVE  (/\ \A op \in Ops(inst[h]) : Awaited(op, h)
                       /\ Once(inst[h]) /\ Boots(inst[h]) /\ Kinds(inst[h]))'
    BY DEF ChainInv
  <2>1. /\ \A op \in Ops(inst'[h]) : op.by = NoCall
        /\ Once(inst'[h]) /\ Kinds(inst'[h])
    BY <1>2, BootedChain
  <2>2. Boots(inst[h])'
    BY <1>2 DEF Boots
  <2> QED
    BY <2>1, <2>2 DEF Ops, Once, Kinds, Awaited
<1>4. AnswerInv' /\ StoppedIsAtRest' /\ LeavingIsAtRest' /\ WaitsForItsOwn'
  BY <1>1 DEF AnswerInv, StoppedIsAtRest, Stopped, LeavingIsAtRest, WaitsForItsOwn
<1>5. UntrackedIsAtRest'
  <2>1. \A h \in Handle : ~Live(inst'[h])
    BY <1>2, BootedChain
  <2> QED
    BY <2>1, ConnectingIsLive DEF UntrackedIsAtRest
<1> QED
  BY <1>3, <1>4, <1>5 DEF HandleInv

\* Before startAll there is nothing.
LEMMA InitHandles == Init => HandleInv
<1> SUFFICES ASSUME Init PROVE HandleInv
  OBVIOUS
<1>1. \A c \in Call : call[c].at = "idle" /\ call[c].answer = "none"
  BY DEF Init, Idle
<1>2. \A h \in Handle : Booted(inst[h]) /\ inst[h].waiting = <<>>
  BY DEF Init, Unused, Booted
<1>3. ChainInv
  <2> SUFFICES ASSUME NEW h \in Handle
               PROVE  /\ \A op \in Ops(inst[h]) : Awaited(op, h)
                      /\ Once(inst[h]) /\ Boots(inst[h]) /\ Kinds(inst[h])
    BY DEF ChainInv
  <2>1. /\ \A op \in Ops(inst[h]) : op.by = NoCall
        /\ Once(inst[h]) /\ Kinds(inst[h])
    BY <1>2, BootedChain
  <2>2. Boots(inst[h])
    BY <1>2 DEF Boots
  <2> QED
    BY <2>1, <2>2 DEF Awaited
<1>4. AnswerInv /\ StoppedIsAtRest /\ LeavingIsAtRest /\ WaitsForItsOwn
  BY <1>1 DEF AnswerInv, StoppedIsAtRest, Stopped, LeavingIsAtRest, WaitsForItsOwn
<1>5. UntrackedIsAtRest
  BY <1>2, BootedChain, ConnectingIsLive DEF UntrackedIsAtRest
<1> QED
  BY <1>3, <1>4, <1>5 DEF HandleInv

\* Every step keeps the invariant.
LEMMA NextHandles == TypeOK /\ CrudInv /\ HandleInv /\ [Next]_vars => HandleInv'
<1> SUFFICES ASSUME TypeOK, CrudInv, HandleInv, [Next]_vars PROVE HandleInv'
  OBVIOUS
<1>1. CASE StartAll \/ Crash
  BY <1>1, StartAllKeepsHandles, CrashKeepsHandles
<1>2. CASE Requests
  BY <1>2, RequestKeepsHandles, AuthenticateKeepsHandles, CancelKeepsHandles DEF Requests
<1>3. CASE \E c \in Call : Continue(c) \/ SaveSettles(c)
  BY <1>3, ContinueKeepsHandles, SaveSettlesKeepsHandles
<1>4. CASE \E h \in Handle : OperationBegins(h) \/ OperationEnds(h) \/ ConnectionLost(h)
  BY <1>4, BeginsKeepsHandles, EndsKeepsHandles
<1>5. CASE UNCHANGED vars
  <2>1. ChainInv'
    BY <1>5 DEF vars, HandleInv, ChainInv, Awaited, Once, Boots, Kinds, Ops
  <2>2. AnswerInv' /\ LeavingIsAtRest' /\ UntrackedIsAtRest'
    BY <1>5 DEF vars, HandleInv, AnswerInv, LeavingIsAtRest, UntrackedIsAtRest, Tracked,
                Connecting, OperationsOf
  <2>3. StoppedIsAtRest' /\ WaitsForItsOwn'
    BY <1>5 DEF vars, HandleInv, StoppedIsAtRest, Stopped, WaitsForItsOwn, Connecting, OperationsOf
  <2> QED
    BY <2>1, <2>2, <2>3 DEF HandleInv
<1> QED
  BY <1>1, <1>2, <1>3, <1>4, <1>5 DEF Next

--------------------------------------------------------------------------------

(* Who waits for what on every chain, in every reachable state of the       *)
(* manager (bot-manager.ts:80-246).                                         *)
THEOREM HandleInvariant == Spec => []HandleInv
<1>1. Init => HandleInv
  BY InitHandles
<1>2. TypeOK /\ CrudInv /\ HandleInv /\ [Next]_vars => HandleInv'
  BY NextHandles
<1> QED
  BY <1>1, <1>2, CrudInvariant, PTL DEF Spec

(* No instance runs that the manager does not know: a handle that was       *)
(* removed or replaced is not connected, and nothing on its chain will      *)
(* connect it (bot-manager.ts:106-175).                                     *)
THEOREM NothingRunsUntracked == Spec => []UntrackedIsAtRest
<1>1. HandleInv => UntrackedIsAtRest
  BY DEF HandleInv
<1> QED
  BY <1>1, HandleInvariant, PTL

(* From the disconnect to the change of the map, nothing connects the       *)
(* handle an edit or a removal is about (bot-manager.ts:106-162).           *)
THEOREM LeavingStaysDown == Spec => []LeavingIsAtRest
<1>1. HandleInv => LeavingIsAtRest
  BY DEF HandleInv
<1> QED
  BY <1>1, HandleInvariant, PTL

(* A call that waits on a handle has its own operation there, and only its  *)
(* own answer ends the wait (bot-manager.ts:185-204).                       *)
THEOREM CallsWaitForTheirOwn == Spec => []WaitsForItsOwn
<1>1. HandleInv => WaitsForItsOwn
  BY DEF HandleInv
<1> QED
  BY <1>1, HandleInvariant, PTL

--------------------------------------------------------------------------------

\* The kinds of a chain follow its appends and its tails.
LEMMA KindsOfChain ==
  ASSUME NEW w \in Seq(Operation)
  PROVE  /\ Len(KindsOf(w)) = Len(w) /\ KindsOf(w) \in Seq({"connect", "disconnect", "sign_in", "stale"})
         /\ \A op \in Operation : KindsOf(Append(w, op)) = Append(KindsOf(w), op.kind)
         /\ w # <<>> => /\ KindsOf(w) # <<>> /\ Head(KindsOf(w)) = Head(w).kind
                        /\ KindsOf(Tail(w)) = Tail(KindsOf(w))
         /\ KindsOf(<<>>) = <<>>
<1> DEFINE v == KindsOf(w)
           Kind == {"connect", "disconnect", "sign_in", "stale"}
<1>1. Len(w) \in Nat /\ \A k \in 1..Len(w) : w[k] \in Operation /\ w[k].kind \in Kind
  BY DEF Operation
<1>2. v \in Seq(Kind) /\ Len(v) = Len(w) /\ \A k \in 1..Len(w) : v[k] = w[k].kind
  BY <1>1 DEF KindsOf
<1> HIDE DEF v
<1>3. ASSUME NEW op \in Operation PROVE KindsOf(Append(w, op)) = Append(v, op.kind)
  <2> DEFINE a == KindsOf(Append(w, op))
             b == Append(v, op.kind)
  <2>1. Append(w, op) \in Seq(Operation) /\ Len(Append(w, op)) = Len(w) + 1
    OBVIOUS
  <2>2. op.kind \in Kind
    BY DEF Operation
  <2>3. a = [k \in 1..(Len(w) + 1) |-> Append(w, op)[k].kind]
    BY <2>1 DEF KindsOf
  <2>4. b \in Seq(Kind) /\ Len(b) = Len(w) + 1 /\ \A k \in 1..(Len(w) + 1) : b[k] = Append(w, op)[k].kind
    BY <1>1, <1>2, <2>2
  <2>5. a \in Seq(Kind) /\ Len(a) = Len(w) + 1
    <3>1. \A k \in 1..(Len(w) + 1) : Append(w, op)[k].kind \in Kind
      BY <1>1, <1>2, <2>2
    <3> QED
      BY <1>1, <2>3, <3>1
  <2>6. \A k \in 1..(Len(w) + 1) : a[k] = b[k]
    BY <2>3, <2>4
  <2> HIDE DEF a, b
  <2>7. a = b
    BY <2>4, <2>5, <2>6, SeqEqual
  <2> QED
    BY <2>7 DEF a, b
<1>4. ASSUME w # <<>>
      PROVE  v # <<>> /\ Head(v) = Head(w).kind /\ KindsOf(Tail(w)) = Tail(v)
  <2>1. v # <<>> /\ Head(v) = Head(w).kind
    <3>1. Len(w) # 0
      BY <1>4
    <3>2. 1 \in 1..Len(w) /\ v # <<>>
      BY <1>1, <1>2, <3>1
    <3>3. Head(v) = v[1] /\ Head(w) = w[1]
      BY <1>2, <1>4, <3>2
    <3> QED
      BY <1>2, <3>2, <3>3
  <2> DEFINE a == KindsOf(Tail(w))
             b == Tail(v)
  <2>2. /\ Len(Tail(w)) = Len(w) - 1 /\ Len(w) - 1 \in Nat
        /\ \A k \in 1..(Len(w) - 1) : Tail(w)[k] = w[k + 1] /\ k + 1 \in 1..Len(w)
    BY <1>1, <1>4
  <2>3. a = [k \in 1..(Len(w) - 1) |-> Tail(w)[k].kind]
    BY <2>2 DEF KindsOf
  <2>4. b \in Seq(Kind) /\ Len(b) = Len(w) - 1 /\ \A k \in 1..(Len(w) - 1) : b[k] = v[k + 1]
    BY <1>2, <2>1, <2>2
  <2>5. \A k \in 1..(Len(w) - 1) : b[k] = Tail(w)[k].kind /\ Tail(w)[k].kind \in Kind
    BY <1>1, <1>2, <2>2, <2>4
  <2>6. a \in Seq(Kind) /\ Len(a) = Len(w) - 1
    BY <2>2, <2>3, <2>5
  <2>7. \A k \in 1..(Len(w) - 1) : a[k] = b[k]
    BY <2>3, <2>5
  <2> HIDE DEF a, b
  <2>8. a = b
    BY <2>4, <2>6, <2>7, SeqEqual
  <2> QED
    BY <2>1, <2>8 DEF a, b
<1>5. KindsOf(<<>>) = <<>>
  BY DEF KindsOf
<1> QED
  BY <1>2, <1>3, <1>4, <1>5 DEF v

\* A handle whose chain and connection stay as they are takes no step.
LEMMA QueueRests ==
  ASSUME NEW h \in Handle, Alike(inst'[h], inst[h])
  PROVE  UNCHANGED H(h)!vars
BY DEF Alike, H!vars

\* The sign-ins of a chain are seen by their kinds.
LEMMA QueueSignsIn ==
  ASSUME NEW h \in Handle, inst[h].waiting \in Seq(Operation)
  PROVE  H(h)!Authenticating <=> Authenticating(h)
<1>1. Len(KindsOf(inst[h].waiting)) = Len(inst[h].waiting)
  BY KindsOfChain
<1>2. \A k \in 1..Len(inst[h].waiting) : KindsOf(inst[h].waiting)[k] = inst[h].waiting[k].kind
  BY DEF KindsOf
<1> QED
  BY <1>1, <1>2 DEF H!Authenticating, Authenticating, OperationsOf

\* What is sent to a handle is a call of InstanceQueue.
LEMMA QueueTakesCall ==
  ASSUME TypeOK, NEW h \in Handle, NEW op \in Operation,
         inst'[h].active = inst[h].active, inst'[h].running = inst[h].running,
         inst'[h].waiting = Append(inst[h].waiting, op),
         op.kind \in {"connect", "sign_in"} => ~Authenticating(h),
         op.kind = "sign_in" => ~inst[h].active,
         op.kind # "stale"
  PROVE  H(h)!Next
<1> DEFINE w == inst[h].waiting
<1>1. w \in Seq(Operation)
  BY ChainTypes DEF TypeOK
<1>2. KindsOf(Append(w, op)) = Append(KindsOf(w), op.kind)
  BY <1>1, KindsOfChain
<1>3. H(h)!Enqueue(op.kind)
  <2>1. KindsOf(inst[h].waiting)' = Append(KindsOf(w), op.kind)
    BY <1>2
  <2> QED
    BY <2>1 DEF H!Enqueue
<1>4. H(h)!Authenticating => Authenticating(h)
  BY <1>1, QueueSignsIn
<1>5. op.kind \in {"connect", "disconnect", "sign_in"}
  BY DEF Operation
<1> QED
  BY <1>3, <1>4, <1>5 DEF H!Next, H!Calls, H!Connect, H!Disconnect, H!Authenticate

\* A cancelled sign-in is a call of InstanceQueue.
LEMMA QueueCancels ==
  ASSUME TypeOK, NEW i \in Id, CancelAuthentication(i)
  PROVE  \A h \in Handle : [H(h)!Next]_(H(h)!vars)
<1>0. PICK h \in Handle : h = instances[i]
  BY DEF CancelAuthentication, TypeOK
<1> DEFINE s == inst[h]
<1>1. s \in Instance /\ Authenticating(h)
  BY <1>0 DEF CancelAuthentication, TypeOK
<1>2. /\ inst'[h].waiting = [k \in 1..Len(s.waiting) |-> Cancelled(s.waiting[k])]
      /\ inst'[h].running = Cancelled(s.running) /\ inst'[h].active = s.active
      /\ \A g \in Handle : g # h => inst'[g] = inst[g]
  BY <1>0, <1>1 DEF CancelAuthentication, TypeOK, Instance
<1>3. /\ Len(s.waiting) \in Nat /\ s.running \in Operation \cup {Nothing}
      /\ s.waiting \in Seq(Operation)
      /\ \A k \in 1..Len(s.waiting) : s.waiting[k] \in Operation
  BY <1>1, ChainTypes
<1>4. \A o \in Operation \cup {Nothing} : Cancelled(o).kind = H(h)!Cancelled(o.kind)
  BY DEF Cancelled, Op, H!Cancelled
<1> HIDE DEF s
<1>5. KindsOf(inst'[h].waiting) = [k \in 1..Len(KindsOf(s.waiting)) |-> H(h)!Cancelled(KindsOf(s.waiting)[k])]
  <2>1. Len(inst'[h].waiting) = Len(s.waiting) /\ Len(KindsOf(s.waiting)) = Len(s.waiting)
    BY <1>2, <1>3, KindsOfChain
  <2>2. \A k \in 1..Len(s.waiting) : inst'[h].waiting[k].kind = H(h)!Cancelled(KindsOf(s.waiting)[k])
    BY <1>2, <1>3, <1>4 DEF KindsOf
  <2>3. KindsOf(inst'[h].waiting) = [k \in 1..Len(s.waiting) |-> inst'[h].waiting[k].kind]
    BY <2>1 DEF KindsOf
  <2> QED
    BY <2>1, <2>2, <2>3
<1>6. H(h)!CancelAuthentication
  <2>1. H(h)!Authenticating
    BY <1>1, <1>3, QueueSignsIn DEF s
  <2>2. inst'[h].running.kind = H(h)!Cancelled(s.running.kind)
    BY <1>2, <1>3, <1>4
  <2>3. KindsOf(inst[h].waiting)' = KindsOf(inst'[h].waiting)
    OBVIOUS
  <2> QED
    BY <1>2, <1>5, <2>1, <2>2, <2>3 DEF H!CancelAuthentication, s
<1>7. H(h)!Next
  BY <1>6 DEF H!Next, H!Calls
<1> QED
  <2>1. ASSUME NEW g \in Handle, g # h PROVE UNCHANGED H(g)!vars
    BY <1>2, <2>1, QueueRests DEF Alike
  <2> QED
    BY <1>7, <2>1

\* What begins on a handle is an operation of InstanceQueue.
LEMMA QueueBegins ==
  ASSUME TypeOK, NEW h \in Handle, OperationBegins(h)
  PROVE  H(h)!Next
<1> DEFINE s  == inst[h]
           op == Head(s.waiting)
<1>1. s \in Instance /\ s.waiting # <<>> /\ s.waiting \in Seq(Operation) /\ s.running = Nothing
  BY ChainTypes DEF OperationBegins, ChainIsDue, TypeOK
<1>2. op \in Operation /\ op.kind \in {"connect", "disconnect", "sign_in", "stale"}
  BY <1>1 DEF Operation
<1>3. /\ KindsOf(s.waiting) # <<>> /\ Head(KindsOf(s.waiting)) = op.kind
      /\ KindsOf(Tail(s.waiting)) = Tail(KindsOf(s.waiting))
  BY <1>1, KindsOfChain
<1> DEFINE rest == [s EXCEPT !.waiting = Tail(s.waiting)]
           Runs(active, running) ==
             \/ op.kind = "connect" /\ (s.active \/ Authenticating(h)) /\ running = Nothing /\ active = s.active
             \/ op.kind = "connect" /\ ~s.active /\ ~Authenticating(h) /\ running = op /\ active = TRUE
             \/ op.kind = "disconnect" /\ ~s.active /\ running = Nothing /\ active = FALSE
             \/ op.kind = "disconnect" /\ s.active /\ running = op /\ active = TRUE
             \/ op.kind = "disconnect" /\ s.active /\ running = Nothing /\ active = FALSE
             \/ op.kind = "sign_in" /\ running = op /\ active = s.active
             \/ op.kind = "stale" /\ running = Nothing /\ active = s.active
<1>4. \/ \E active : /\ inst' = [inst EXCEPT ![h] = [rest EXCEPT !.running = op, !.active = active]]
                     /\ Runs(active, op)
      \/ \E active : /\ inst' = [inst EXCEPT ![h] = [rest EXCEPT !.active = active]]
                     /\ Runs(active, Nothing)
  <2>1. op.kind = "connect" \/ op.kind = "disconnect" \/ op.kind = "sign_in" \/ op.kind = "stale"
    BY <1>2
  <2>2. CASE op.kind = "connect"
    BY <2>2 DEF OperationBegins
  <2>3. CASE op.kind = "disconnect"
    <3>1. s.active \in BOOLEAN
      BY <1>1 DEF Instance
    <3> QED
      BY <2>3, <3>1 DEF OperationBegins
  <2>4. CASE op.kind = "sign_in"
    BY <2>4 DEF OperationBegins
  <2>5. CASE op.kind = "stale"
    BY <2>5 DEF OperationBegins
  <2> QED
    BY <2>1, <2>2, <2>3, <2>4, <2>5
<1>7. PICK active, running :
        /\ inst'[h].waiting = Tail(s.waiting) /\ inst'[h].active = active /\ inst'[h].running = running
        /\ Runs(active, running)
  <2> HIDE DEF Runs
  <2>1. inst \in [Handle -> Instance]
    BY DEF TypeOK
  <2>2. CASE \E active : /\ inst' = [inst EXCEPT ![h] = [rest EXCEPT !.running = op, !.active = active]]
                        /\ Runs(active, op)
    BY <1>1, <2>1, <2>2 DEF Instance
  <2>3. CASE \E active : /\ inst' = [inst EXCEPT ![h] = [rest EXCEPT !.active = active]]
                        /\ Runs(active, Nothing)
    BY <1>1, <2>1, <2>3 DEF Instance
  <2> QED
    BY <1>4, <2>2, <2>3
<1>5. H(h)!Take(op.kind)
  <2>1. KindsOf(inst[h].waiting)' = KindsOf(Tail(s.waiting))
    BY <1>7
  <2> QED
    BY <1>1, <1>3, <2>1 DEF H!Take, Nothing
<1>6. H(h)!Authenticating <=> Authenticating(h)
  BY <1>1, QueueSignsIn
<1>8. s.active \in BOOLEAN
  BY <1>1 DEF Instance
<1>9. CASE op.kind = "connect"
  BY <1>1, <1>5, <1>6, <1>7, <1>8, <1>9 DEF H!Next, H!Operations, H!ConnectBegins, H!ConnectRefused
<1>10. CASE op.kind = "disconnect"
  BY <1>1, <1>5, <1>7, <1>8, <1>10
     DEF H!Next, H!Operations, H!DisconnectBegins, H!DisconnectAtOnce, H!DisconnectRefused, H!Begins
<1>11. CASE op.kind = "sign_in"
  BY <1>1, <1>5, <1>7, <1>11 DEF H!Next, H!Operations, H!SignInBegins, H!Begins
<1>12. CASE op.kind = "stale"
  BY <1>1, <1>5, <1>7, <1>12 DEF H!Next, H!Operations, H!StaleSkipped
<1> QED
  BY <1>2, <1>9, <1>10, <1>11, <1>12

\* What ends on a handle, and the loss of its connection, likewise.
LEMMA QueueEnds ==
  ASSUME TypeOK, NEW h \in Handle, OperationEnds(h) \/ ConnectionLost(h)
  PROVE  H(h)!Next
<1> DEFINE s == inst[h]
<1>1. s \in Instance /\ s.active \in BOOLEAN
  BY ChainTypes DEF TypeOK
<1>2. Nothing.kind = "none"
  BY DEF Nothing
<1>3. CASE OperationEnds(h)
  <2>1. \E active :
          /\ inst' = [inst EXCEPT ![h] = [s EXCEPT !.running = Nothing, !.active = active]]
          /\ \/ s.running.kind = "connect" /\ active \in {s.active, FALSE}
             \/ s.running.kind = "disconnect" /\ active = FALSE
             \/ s.running.kind \in {"sign_in", "stale"} /\ active = s.active
    BY <1>1, <1>3 DEF OperationEnds, TypeOK, Instance
  <2>2. PICK active :
          /\ inst' = [inst EXCEPT ![h] = [s EXCEPT !.running = Nothing, !.active = active]]
          /\ \/ s.running.kind = "connect" /\ active \in {s.active, FALSE}
             \/ s.running.kind = "disconnect" /\ active = FALSE
             \/ s.running.kind \in {"sign_in", "stale"} /\ active = s.active
    BY <2>1
  <2>3. inst'[h] = [s EXCEPT !.running = Nothing, !.active = active]
    BY <2>2 DEF TypeOK
  <2>4. inst'[h].waiting = s.waiting /\ inst'[h].active = active /\ inst'[h].running = Nothing
    BY <1>1, <2>3 DEF Instance
  <2> QED
    BY <1>2, <2>2, <2>4 DEF H!Next, H!Operations, H!ConnectEnds, H!DisconnectEnds, H!SignInEnds, H!Ends, H!SignIns
<1>4. CASE ConnectionLost(h)
  <2>1. /\ inst'[h].waiting = s.waiting /\ inst'[h].active = FALSE /\ inst'[h].running = s.running
        /\ s.active /\ s.running.kind # "connect"
    BY <1>1, <1>4 DEF ConnectionLost, TypeOK, Instance
  <2> QED
    BY <2>1 DEF H!Next, H!Lost
<1> QED
  BY <1>3, <1>4

\* An operation sent to one handle is a call there, and nothing on the others.
LEMMA QueueSent ==
  ASSUME TypeOK, NEW h \in Handle, NEW op \in Operation, Send(h, op),
         op.kind \in {"connect", "sign_in"} => ~Authenticating(h),
         op.kind = "sign_in" => ~inst[h].active,
         op.kind # "stale"
  PROVE  \A g \in Handle : [H(g)!Next]_(H(g)!vars)
<1>1. /\ inst'[h].waiting = Append(inst[h].waiting, op)
      /\ inst'[h].running = inst[h].running /\ inst'[h].active = inst[h].active
      /\ \A g \in Handle : g # h => inst'[g] = inst[g]
  BY DEF Send, TypeOK, Instance
<1>2. H(h)!Next
  BY <1>1, QueueTakesCall
<1>3. ASSUME NEW g \in Handle, g # h PROVE UNCHANGED H(g)!vars
  BY <1>1, <1>3, QueueRests DEF Alike
<1> QED
  BY <1>2, <1>3

\* handle.connect(), accepted or refused.
LEMMA QueueTryConnect ==
  ASSUME TypeOK, NEW c \in Call, NEW h \in Handle, TryConnect(c, h)
  PROVE  \A g \in Handle : [H(g)!Next]_(H(g)!vars)
<1>1. CASE Refuses(h)
  <2>1. ASSUME NEW g \in Handle PROVE UNCHANGED H(g)!vars
    BY <1>1, QueueRests DEF TryConnect, Alike
  <2> QED
    BY <2>1
<1>2. CASE ~Refuses(h)
  <2>1. Op("connect", c) \in Operation /\ Op("connect", c).kind = "connect"
    BY DEF Op, Operation
  <2>2. Send(h, Op("connect", c)) /\ ~Authenticating(h)
    BY <1>2 DEF TryConnect, Refuses
  <2> QED
    BY <2>1, <2>2, QueueSent
<1> QED
  BY <1>1, <1>2

\* A handle that was free stays so, or has been told to connect.
LEMMA QueueStarts ==
  ASSUME NEW h \in Handle, AtRest(h), inst[h].active \in BOOLEAN,
         inst'[h].active = FALSE, inst'[h].running = Nothing,
         inst'[h].waiting = <<>> \/ \E c \in Call \cup {NoCall} : inst'[h].waiting = <<Op("connect", c)>>
  PROVE  [H(h)!Next]_(H(h)!vars)
<1>1. inst[h].active = FALSE /\ inst[h].running = Nothing /\ inst[h].waiting = <<>>
  BY DEF AtRest
<1>2. CASE inst'[h].waiting = <<>>
  BY <1>1, <1>2, QueueRests DEF Alike
<1>3. ASSUME NEW c \in Call \cup {NoCall}, inst'[h].waiting = <<Op("connect", c)>>
      PROVE  H(h)!Next
  <2>1. Op("connect", c) \in Operation /\ Op("connect", c).kind = "connect"
    BY DEF Op, Operation
  <2>2. <<>> \in Seq(Operation) /\ Append(<<>>, Op("connect", c)) = <<Op("connect", c)>>
    BY <2>1
  <2>3. KindsOf(Append(<<>>, Op("connect", c))) = Append(KindsOf(<<>>), "connect")
    BY <2>1, <2>2, KindsOfChain
  <2>4. KindsOf(inst[h].waiting)' = Append(KindsOf(inst[h].waiting), "connect")
    BY <1>1, <1>3, <2>2, <2>3
  <2>5. H(h)!Enqueue("connect")
    BY <1>1, <2>4 DEF H!Enqueue
  <2>6. ~H(h)!Authenticating
    <3>1. ~Authenticating(h)
      <4>1. OperationsOf(h) = {Nothing}
        BY <1>1 DEF OperationsOf
      <4> QED
        BY <4>1 DEF Authenticating, Nothing
    <3> QED
      BY <1>1, <2>2, <3>1, QueueSignsIn
  <2> QED
    BY <2>5, <2>6 DEF H!Next, H!Calls, H!Connect
<1> QED
  BY <1>2, <1>3

\* The handles no step touches rest.
LEMMA QueuesRest ==
  ASSUME UNCHANGED inst
  PROVE  \A h \in Handle : [H(h)!Next]_(H(h)!vars)
<1>1. ASSUME NEW h \in Handle PROVE UNCHANGED H(h)!vars
  BY <1>1, QueueRests DEF Alike
<1> QED
  BY <1>1

\* A handle that is forgotten keeps its chain.
LEMMA ForgottenIsAlike ==
  ASSUME TypeOK, NEW h \in Handle
  PROVE  Alike(Forgotten(h), inst[h])
<1>1. inst[h] \in Instance
  BY DEF TypeOK
<1> QED
  BY <1>1 DEF Alike, Forgotten, AtRest, Unused, Instance

\* The change of the map.
LEMMA QueueSwap ==
  ASSUME TypeOK, NEW c \in Call, Swap(c)
  PROVE  \A h \in Handle : [H(h)!Next]_(H(h)!vars)
<1>1. PICK h \in FreeHandles : Replaced(c, h)
  BY DEF Swap
<1>2. h \in Handle /\ AtRest(h) /\ inst[h].active \in BOOLEAN
  BY ChainTypes DEF FreeHandles, TypeOK
<1>3. inst'[h] = StartedWith(call[c].job.id, call[c].job.config, Connects(c), c)
  BY <1>1, <1>2 DEF Replaced
<1>4. /\ inst'[h].active = FALSE /\ inst'[h].running = Nothing
      /\ inst'[h].waiting = <<>> \/ inst'[h].waiting = <<Op("connect", c)>>
  BY <1>3 DEF StartedWith, Unused
<1>5. [H(h)!Next]_(H(h)!vars)
  BY <1>2, <1>4, QueueStarts
<1>6. ASSUME NEW g \in Handle, g # h PROVE UNCHANGED H(g)!vars
  <2>1. Alike(inst'[g], inst[g])
    BY <1>1, <1>6, ForgottenIsAlike DEF Replaced, Alike
  <2> QED
    BY <2>1, QueueRests
<1> QED
  BY <1>5, <1>6

\* startAll makes every handle anew.
LEMMA QueueStartAll ==
  ASSUME TypeOK, CrudInv, StartAll
  PROVE  \A h \in Handle : [H(h)!Next]_(H(h)!vars)
<1> SUFFICES ASSUME NEW h \in Handle PROVE [H(h)!Next]_(H(h)!vars)
  OBVIOUS
<1>1. inst[h] = Unused
  BY DEF StartAll, CrudInv, QueueInv
<1>2. AtRest(h) /\ inst[h].active \in BOOLEAN
  BY <1>1 DEF AtRest, Unused
<1>3. /\ inst'[h].active = FALSE /\ inst'[h].running = Nothing
      /\ inst'[h].waiting = <<>> \/ inst'[h].waiting = <<Op("connect", NoCall)>>
  <2>1. CASE \E i \in Id : instances'[i] = h
    <3>1. PICK i : inst'[h] = StartedWith(i, file[i], file[i] \in AutoConnect, NoCall)
      BY <2>1 DEF StartAll
    <3> QED
      BY <3>1 DEF StartedWith, Unused
  <2>2. CASE ~\E i \in Id : instances'[i] = h
    <3>1. inst'[h] = Unused
      BY <2>2 DEF StartAll
    <3> QED
      BY <3>1 DEF Unused
  <2> QED
    BY <2>1, <2>2
<1> QED
  BY <1>2, <1>3, QueueStarts

\* A call goes on.
LEMMA QueueContinue ==
  ASSUME TypeOK, CrudInv, NEW c \in Call, Continue(c)
  PROVE  \A h \in Handle : [H(h)!Next]_(H(h)!vars)
<1>1. CASE CallRefused(c) \/ CallSaves(c) \/ CallReturns(c)
  BY <1>1, QueuesRest DEF CallRefused, CallSaves, CallReturns
<1>2. CASE CallDisconnect(c) \/ CallConnect(c)
  <2>1. call[c].at # "idle"
    BY <1>2 DEF CallDisconnect, CallConnect, Begins, Stopped
  <2>2. Target(c) \in Handle \cup {NoHandle}
    BY <2>1, CallInQueue, JobTypes DEF CrudInv, Target, TypeOK
  <2>3. CASE CallDisconnect(c)
    <3>1. Target(c) \in Handle /\ Send(Target(c), Op("disconnect", c))
      BY <2>2, <2>3 DEF CallDisconnect
    <3>2. Op("disconnect", c) \in Operation /\ Op("disconnect", c).kind = "disconnect"
      BY DEF Op, Operation
    <3> QED
      BY <3>1, <3>2, QueueSent
  <2>4. CASE CallConnect(c)
    <3>1. Target(c) \in Handle /\ TryConnect(c, Target(c))
      BY <2>2, <2>4 DEF CallConnect, Stopped, CrudInv, ClosureInv
    <3> QED
      BY <3>1, QueueTryConnect
  <2> QED
    BY <1>2, <2>3, <2>4
<1> QED
  BY <1>1, <1>2 DEF Continue

\* A save settles.
LEMMA QueueSaveSettles ==
  ASSUME TypeOK, CrudInv, NEW c \in Call, SaveSettles(c)
  PROVE  \A h \in Handle : [H(h)!Next]_(H(h)!vars)
<1>1. CASE Renamed(c)
  BY <1>1, QueuesRest DEF Renamed
<1>2. CASE SaveFails(c)
  <2>1. CASE call[c].job.kind = "update" /\ call[c].wasActive
    <3>1. call[c].handle \in Handle
      BY <1>2, <2>1 DEF SaveFails, CrudInv, ClosureInv, TypeOK, Closure
    <3>2. TryConnect(c, call[c].handle)
      BY <1>2, <2>1 DEF SaveFails, FailedSaveIsUndone
    <3> QED
      BY <3>1, <3>2, QueueTryConnect
  <2>2. CASE ~(call[c].job.kind = "update" /\ call[c].wasActive)
    BY <1>2, <2>2, QueuesRest DEF SaveFails, FailedSaveIsUndone
  <2> QED
    BY <2>1, <2>2
<1>3. CASE Swap(c)
  BY <1>3, QueueSwap
<1>4. CASE Drop(c)
  <2>1. ASSUME NEW h \in Handle PROVE Alike(inst'[h], inst[h])
    <3>1. inst'[h] = inst[h] \/ inst'[h] = Forgotten(h)
      BY <1>4 DEF Drop, TypeOK
    <3> QED
      BY <3>1, ForgottenIsAlike DEF Alike
  <2>2. ASSUME NEW h \in Handle PROVE UNCHANGED H(h)!vars
    BY <2>1, QueueRests
  <2> QED
    BY <2>2
<1> QED
  BY <1>1, <1>2, <1>3, <1>4 DEF SaveSettles

\* A sign-in that is accepted.
LEMMA QueueAuthenticate ==
  ASSUME TypeOK, NEW i \in Id, Authenticate(i)
  PROVE  \A h \in Handle : [H(h)!Next]_(H(h)!vars)
<1>1. instances[i] \in Handle /\ Send(instances[i], Op("sign_in", NoCall))
      /\ ~inst[instances[i]].active /\ ~Authenticating(instances[i])
  BY DEF Authenticate, TypeOK
<1>2. Op("sign_in", NoCall) \in Operation /\ Op("sign_in", NoCall).kind = "sign_in"
  BY DEF Op, Operation
<1> QED
  BY <1>1, <1>2, QueueSent

(* Every handle is driven as InstanceQueue allows, which BotInstance        *)
(* implements: what is shown of the manager holds over real instances       *)
(* (bot-manager.ts:80-246).                                                 *)
THEOREM HandlesImplementQueue == Spec => HandlesBehave
<1>1. ASSUME TypeOK, CrudInv, [Next]_vars
      PROVE  [Crash \/ \A h \in Handle : [H(h)!Next]_(H(h)!vars)]_vars
  <2>1. CASE StartAll
    BY <1>1, <2>1, QueueStartAll
  <2>2. CASE Requests
    <3>1. CASE \E c \in Call, job \in Job : Request(c, job)
      BY <3>1, QueuesRest DEF Request
    <3>2. CASE \E i \in Id : Authenticate(i) \/ CancelAuthentication(i)
      BY <1>1, <3>2, QueueAuthenticate, QueueCancels
    <3> QED
      BY <2>2, <3>1, <3>2 DEF Requests
  <2>3. CASE \E c \in Call : Continue(c) \/ SaveSettles(c)
    BY <1>1, <2>3, QueueContinue, QueueSaveSettles
  <2>4. CASE \E h \in Handle : OperationBegins(h) \/ OperationEnds(h) \/ ConnectionLost(h)
    <3>1. PICK h \in Handle : OperationBegins(h) \/ OperationEnds(h) \/ ConnectionLost(h)
      BY <2>4
    <3>2. H(h)!Next
      BY <1>1, <3>1, QueueBegins, QueueEnds
    <3>3. ASSUME NEW g \in Handle, g # h PROVE UNCHANGED H(g)!vars
      <4>1. inst'[g] = inst[g]
        BY <1>1, <3>1, <3>3, OperationSteps
      <4> QED
        BY <4>1, QueueRests DEF Alike
    <3>4. \A g \in Handle : [H(g)!Next]_(H(g)!vars)
      BY <3>2, <3>3
    <3> QED
      BY <3>4
  <2> QED
    BY <1>1, <2>1, <2>2, <2>3, <2>4 DEF Next
<1> QED
  BY <1>1, CrudInvariant, PTL DEF Spec, HandlesBehave

================================================================================
