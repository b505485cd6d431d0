---------------------------- MODULE SteeringProofs ----------------------------
(***************************************************************************)
(* Proofs about Steering for every set of runs and every loop bound.       *)
(***************************************************************************)
EXTENDS Steering, TLAPS

-------------------------------------------------------------------------------
(* Operators *)

\* Every command drives the pathfinder under the name of its module.
LEMMA OwnerTyped == \A k \in Kind : OwnerOf(k) \in Owner
BY DEF OwnerOf, Kind, NavKind, LoopKind, Owner

\* A release leaves the lock with a module or with nobody.
LEMMA ReleasedTyped ==
  ASSUME lock \in Owner \cup {NoOwner}, NEW o
  PROVE  Released(o) \in Owner \cup {NoOwner}
BY DEF Released

-------------------------------------------------------------------------------
(* Types *)

\* A new runInstance is typed.
LEMMA InitTyped == Init => TypeOK
BY VisitsAssumption DEF Init, TypeOK, Kind, NavKind, Await

\* A command that begins keeps its run typed.
LEMMA BeginTyped ==
  ASSUME TypeOK, NEW r \in Run, NEW k \in Kind, Begin(r, k)
  PROVE  /\ active' \in Run \cup {NoRun}
         /\ lock' \in Owner \cup {NoOwner}
         /\ kind' \in [Run -> Kind]
         /\ visits' \in [Run -> 0..MaxVisits]
         /\ aborted' \in SUBSET Run /\ live' \in SUBSET Run
         /\ connected' \in BOOLEAN
BY OwnerTyped, VisitsAssumption DEF TypeOK, Begin

\* Starting a command keeps everything typed.
LEMMA StartsTyped == TypeOK /\ Starts => TypeOK'
<1> SUFFICES ASSUME TypeOK, NEW r \in Run,
                    StartEquipping(r) \/ \E k \in Kind : StartNavigation(r, k) \/ StartWalk(r, k)
             PROVE  TypeOK'
  BY DEF Starts
<1> USE DEF Awaits, Await
<1>1. ASSUME NEW k \in Kind, StartNavigation(r, k) PROVE TypeOK'
  BY <1>1, BeginTyped DEF TypeOK, StartNavigation
<1>2. ASSUME NEW k \in Kind, StartWalk(r, k) PROVE TypeOK'
  BY <1>2, BeginTyped DEF TypeOK, StartWalk
<1>3. CASE StartEquipping(r)
  <2>1. "mine" \in Kind
    BY DEF Kind, LoopKind
  <2>2. QED
    BY <1>3, <2>1, BeginTyped DEF TypeOK, StartEquipping
<1>4. QED
  BY <1>1, <1>2, <1>3

\* What the pathfinder reports keeps everything typed.
LEMMA PathfinderTyped == TypeOK /\ (GoalReached \/ NavigationGivesUp) => TypeOK'
<1> SUFFICES ASSUME TypeOK, GoalReached \/ NavigationGivesUp PROVE TypeOK'
  OBVIOUS
<1> USE DEF shared, Await
<1>1. Released("navigation") \in Owner \cup {NoOwner}
  BY ReleasedTyped DEF TypeOK
<1>2. CASE GoalReached
  <2> DEFINE walkDone == activeNav # NoRun /\ kind[activeNav] # "follow"
  <2>1. pc' \in [Run -> Await]
    BY <1>2 DEF TypeOK, GoalReached
  <2>2. active' \in Run \cup {NoRun} /\ lock' \in Owner \cup {NoOwner}
        /\ activeNav' \in Run \cup {NoRun} /\ live' \in SUBSET Run
    <3>1. CASE walkDone
      BY <1>1, <1>2, <3>1 DEF TypeOK, GoalReached, ClearActiveNav, SlotAfterFinish
    <3>2. CASE ~walkDone
      BY <1>2, <3>2 DEF TypeOK, GoalReached
    <3>3. QED
      BY <3>1, <3>2
  <2>3. goal' \in Run \cup {NoRun}
    BY <1>2 DEF TypeOK, GoalReached
  <2>4. QED
    BY <1>2, <2>1, <2>2, <2>3 DEF TypeOK, GoalReached
<1>3. CASE NavigationGivesUp
  BY <1>1, <1>3 DEF TypeOK, NavigationGivesUp, ClearActiveNav, SlotAfterFinish, Awaits
<1>4. QED
  BY <1>2, <1>3

\* Ending a task keeps everything typed.
LEMMA EndTaskTyped ==
  ASSUME TypeOK, EndTask
  PROVE  /\ active' \in Run \cup {NoRun} /\ lock' \in Owner \cup {NoOwner}
         /\ activeNav' \in Run \cup {NoRun}
         /\ kind' \in [Run -> Kind] /\ pc' \in [Run -> Await]
         /\ visits' \in [Run -> 0..MaxVisits] /\ aborted' \in SUBSET Run
<1>1. lock' \in Owner \cup {NoOwner}
  BY ReleasedTyped DEF TypeOK, EndTask, ReleasedAtEnd
<1>2. active \in Run
  BY DEF TypeOK, EndTask
<1>3. pc' \in [Run -> Await] /\ aborted' \in SUBSET Run
  BY <1>2 DEF TypeOK, EndTask, Awaits, Await
<1>4. QED
  BY <1>1, <1>2, <1>3 DEF TypeOK, EndTask

\* What ends a task from outside keeps everything typed.
LEMMA InterruptsTyped ==
  TypeOK /\ (TaskStopped \/ Death \/ Disconnect \/ Reconnect) => TypeOK'
<1> SUFFICES ASSUME TypeOK, TaskStopped \/ Death \/ Disconnect \/ Reconnect PROVE TypeOK'
  OBVIOUS
<1>1. Interrupt \in SUBSET Run
  BY DEF TypeOK, Interrupt
<1>2. CASE TaskStopped
  BY <1>1, <1>2, EndTaskTyped DEF TypeOK, TaskStopped
<1>3. CASE Death
  BY <1>1, <1>3, EndTaskTyped DEF TypeOK, Death
<1>4. CASE Disconnect
  BY <1>4, EndTaskTyped DEF TypeOK, Disconnect, shared
<1>5. CASE Reconnect
  BY <1>5 DEF TypeOK, Reconnect, shared
<1>6. QED
  BY <1>2, <1>3, <1>4, <1>5

\* The finally block of a run keeps everything typed.
LEMMA FinallyTyped ==
  ASSUME TypeOK, NEW r \in Run, Finally(r)
  PROVE  TypeOK'
<1>1. Released(OwnerOf(kind[r])) \in Owner \cup {NoOwner}
  BY ReleasedTyped DEF TypeOK
<1>2. QED
  BY <1>1 DEF TypeOK, Finally, Awaits, Await, SlotAfterFinish, Gone

\* A run that goes on stays typed.
LEMMA ContinueTyped ==
  ASSUME TypeOK, NEW r \in Run, NEW what \in Await, Continue(r, what)
  PROVE  TypeOK'
BY DEF TypeOK, Continue, Awaits, shared

\* A turn of a loop command stays within the visits.
LEMMA LoopTyped ==
  ASSUME TypeOK, NEW r \in Run, Loop(r)
  PROVE  TypeOK'
<1>1. CASE NextVisit(r)
  <2>1. visits' \in [Run -> 0..MaxVisits]
    BY <1>1, VisitsAssumption DEF TypeOK, NextVisit, CountVisit
  <2>2. QED
    BY <1>1, <2>1 DEF TypeOK, NextVisit, SetGoal, Awaits, Await, shared
<1>2. QED
  BY <1>1, FinallyTyped DEF Loop

\* Every turn of a run keeps everything typed.
LEMMA StepTyped ==
  ASSUME TypeOK, NEW r \in Run, Step(r)
  PROVE  TypeOK'
<1>1. {"pickup", "digging", "opening", "transfer", "whispering"} \subseteq Await
  BY DEF Await
<1>2. CASE WalkTimesOut(r) \/ TransferOver(r)
  BY <1>2, FinallyTyped DEF WalkTimesOut, TransferOver
<1>3. CASE PickupOver(r) \/ DigOver(r)
  BY <1>3, LoopTyped DEF PickupOver, DigOver
<1>4. CASE MineArrives(r)
  BY <1>1, <1>4, ContinueTyped, LoopTyped DEF MineArrives
<1>5. CASE CollectArrives(r) \/ SignToggled(r)
  BY <1>1, <1>5, ContinueTyped DEF CollectArrives, SignToggled
<1>6. CASE ChestArrives(r) \/ ChestOpened(r)
  BY <1>1, <1>6, ContinueTyped, FinallyTyped DEF ChestArrives, ChestOpened
<1>7. CASE Equipped(r)
  <2>1. CASE Finally(r)
    BY <2>1, FinallyTyped
  <2>2. CASE SetGoal(r) /\ Awaits(r, "walking")
             /\ UNCHANGED <<shared, kind, visits, aborted, live, connected>>
    BY <2>2 DEF TypeOK, SetGoal, Awaits, Await, shared
  <2>3. QED
    BY <1>7, <2>1, <2>2 DEF Equipped
<1>8. CASE SignArrives(r)
  <2>1. lock' \in Owner \cup {NoOwner}
    BY <1>8, ReleasedTyped DEF TypeOK, SignArrives
  <2>2. QED
    BY <1>8, <2>1 DEF TypeOK, SignArrives, FinishSign, Awaits, Await, SlotAfterFinish, Gone
<1>9. CASE SignWhispered(r)
  BY <1>9 DEF TypeOK, SignWhispered, FinishSign, Awaits, Await, SlotAfterFinish, Gone
<1>10. QED
  BY <1>2, <1>3, <1>4, <1>5, <1>6, <1>7, <1>8, <1>9 DEF Step

\* Every reachable state is well typed: the loops stay within their bound.
THEOREM TypeCorrect == Spec => []TypeOK
<1>1. TypeOK /\ [Next]_vars => TypeOK'
  <2> SUFFICES ASSUME TypeOK, [Next]_vars PROVE TypeOK'
    OBVIOUS
  <2>1. CASE Next
    BY <2>1, StartsTyped, PathfinderTyped, InterruptsTyped, StepTyped DEF Next
  <2>2. CASE UNCHANGED vars
    BY <2>2 DEF TypeOK, vars, shared
  <2>3. QED
    BY <2>1, <2>2
<1>2. QED
  BY <1>1, InitTyped, PTL DEF Spec

-------------------------------------------------------------------------------
(* The task slot, the lock, the navigation's record and the runs agree *)

\* The invariant holds of a new runInstance.
LEMMA InitAgrees == Init => SteeringInv
BY RunAssumption DEF Init, SteeringInv, LockHasTask, BusyIsReal, OneWantedRun, NavigationAgrees,
                     RunsAgree, NavKind

\* An owner id tells the navigation module from the others, and a release
\* frees the lock of that owner alone.
LEMMA OwnerFacts ==
  /\ \A k \in Kind : /\ OwnerOf(k) # NoOwner
                     /\ OwnerOf(k) = "navigation" <=> k \in NavKind
  /\ \A o : lock = o => Released(o) = NoOwner
  /\ \A o : lock # o => Released(o) = lock
BY DEF OwnerOf, Kind, NavKind, LoopKind, NoOwner, Released

\* What is known before any command starts: the lock is free, nothing steers.
LEMMA IdleFacts ==
  ASSUME TypeOK, SteeringInv, active = NoRun
  PROVE  lock = NoOwner /\ activeNav = NoRun
BY RunAssumption DEF TypeOK, SteeringInv, LockHasTask, NavigationAgrees

\* Starting a command keeps slot, lock, navigation and runs in agreement.
LEMMA StartsAgree == TypeOK /\ SteeringInv /\ Starts => SteeringInv'
<1> SUFFICES ASSUME TypeOK, SteeringInv, NEW r \in Run, NEW k \in Kind,
                    NEW what \in {"steering", "walking", "equipping"},
                    Begin(r, k), Awaits(r, what),
                    IF what = "steering" THEN k \in NavKind /\ activeNav' = r
                                         ELSE k \notin NavKind /\ UNCHANGED activeNav
             PROVE  SteeringInv'
  BY DEF Starts, StartNavigation, StartWalk, StartEquipping, Kind, NavKind, LoopKind
<1>1. active = NoRun /\ lock = NoOwner /\ activeNav = NoRun /\ pc[r] = "none"
  BY IdleFacts DEF Begin, Fresh
<1>2. /\ active' = r /\ lock' = OwnerOf(k) /\ kind' = [kind EXCEPT ![r] = k]
      /\ live' = live \cup {r} /\ aborted' = aborted /\ connected' = connected /\ connected
      /\ pc' = [pc EXCEPT ![r] = what]
  BY DEF Begin, Awaits
<1>3. \A s \in Run : kind'[s] = (IF s = r THEN k ELSE kind[s])
                     /\ pc'[s] = (IF s = r THEN what ELSE pc[s])
  BY <1>2 DEF TypeOK
<1>4. r # NoRun /\ r \notin aborted
  BY <1>1, RunAssumption DEF SteeringInv, RunsAgree
<1>5. LockHasTask' /\ BusyIsReal'
  BY <1>2, <1>3, <1>4 DEF LockHasTask, BusyIsReal
<1>6. OneWantedRun'
  BY <1>1, <1>2, <1>3, RunAssumption DEF SteeringInv, OneWantedRun
<1>7. NavigationAgrees'
  BY <1>1, <1>2, <1>3, OwnerFacts DEF NavigationAgrees
<1>8. RunsAgree'
  <2> SUFFICES ASSUME NEW s \in Run
               PROVE  /\ pc'[s] = "none" => s \notin aborted' \cup live'
                      /\ pc'[s] # "none" => (kind'[s] \in NavKind <=> pc'[s] = "steering")
                      /\ pc'[s] = "steering" <=> activeNav' = s
                      /\ pc'[s] \in {"toggling", "whispering"} => kind'[s] = "sign"
                      /\ pc'[s] \in {"toggling", "whispering"} /\ active' = s => lock' = NoOwner
    BY DEF RunsAgree
  <2>1. CASE s = r
    BY <1>1, <1>2, <1>3, <1>4, <2>1 DEF SteeringInv, RunsAgree
  <2>2. CASE s # r
    BY <1>1, <1>2, <1>3, <1>4, <2>2, RunAssumption DEF SteeringInv, RunsAgree
  <2>3. QED
    BY <2>1, <2>2
<1>9. QED
  BY <1>5, <1>6, <1>7, <1>8 DEF SteeringInv

\* A navigation that is over leaves nothing behind.
LEMMA NavigationOver ==
  ASSUME TypeOK, SteeringInv, activeNav # NoRun, ClearActiveNav,
         pc' \in [Run -> Await], UNCHANGED <<kind, aborted, connected>>,
         \A s \in Run : \/ s = activeNav /\ pc'[s] = "none"
                        \/ s # activeNav /\ pc'[s] = pc[s]
                        \/ s # activeNav /\ pc[s] = "walking" /\ pc'[s] = "arrived"
  PROVE  SteeringInv'
<1> USE DEF SteeringInv
<1>1. active = activeNav /\ lock = "navigation" /\ activeNav \in Run
  BY DEF TypeOK, NavigationAgrees
<1>2. active' = NoRun /\ activeNav' = NoRun /\ lock' = NoOwner /\ live' = live \ {activeNav}
  BY <1>1, OwnerFacts DEF ClearActiveNav, SlotAfterFinish
<1>3. activeNav \notin aborted
  BY <1>1, RunAssumption DEF BusyIsReal
<1>4. LockHasTask' /\ BusyIsReal' /\ NavigationAgrees'
  BY <1>2 DEF LockHasTask, BusyIsReal, NavigationAgrees
<1>5. OneWantedRun'
  BY <1>1, <1>2 DEF OneWantedRun
<1>6. RunsAgree'
  <2> SUFFICES ASSUME NEW s \in Run
               PROVE  /\ pc'[s] = "none" => s \notin aborted' \cup live'
                      /\ pc'[s] # "none" => (kind'[s] \in NavKind <=> pc'[s] = "steering")
                      /\ pc'[s] = "steering" <=> activeNav' = s
                      /\ pc'[s] \in {"toggling", "whispering"} => kind'[s] = "sign"
                      /\ pc'[s] \in {"toggling", "whispering"} /\ active' = s => lock' = NoOwner
    BY DEF RunsAgree
  <2>1. CASE s = activeNav
    BY <1>2, <1>3, <2>1, RunAssumption DEF RunsAgree
  <2>2. CASE s # activeNav
    BY <1>2, <2>2, RunAssumption DEF RunsAgree
  <2>3. QED
    BY <2>1, <2>2
<1>7. QED
  BY <1>4, <1>5, <1>6

\* What the pathfinder reports keeps them in agreement.
LEMMA PathfinderAgrees ==
  TypeOK /\ SteeringInv /\ (GoalReached \/ NavigationGivesUp) => SteeringInv'
<1> SUFFICES ASSUME TypeOK, SteeringInv, GoalReached \/ NavigationGivesUp PROVE SteeringInv'
  OBVIOUS
<1>1. pc' \in [Run -> Await]
  BY PathfinderTyped DEF TypeOK
<1>2. CASE GoalReached
  <2> DEFINE walkDone == activeNav # NoRun /\ kind[activeNav] # "follow"
  <2>1. \A s \in Run : pc'[s] = IF s \in live /\ pc[s] = "walking" THEN "arrived"
                                ELSE IF walkDone /\ s = activeNav THEN "none" ELSE pc[s]
    BY <1>2 DEF GoalReached
  <2>2. CASE walkDone
    <3>1. pc[activeNav] # "walking"
      BY <2>2 DEF TypeOK, SteeringInv, RunsAgree
    <3>2. QED
      BY <1>1, <1>2, <2>1, <2>2, <3>1, NavigationOver DEF GoalReached
  <2>3. CASE ~walkDone
    <3>1. UNCHANGED <<active, lock, activeNav, live, kind, aborted, connected>>
      BY <1>2, <2>3 DEF GoalReached, shared
    <3>2. \A s \in Run : pc'[s] = pc[s] \/ (pc[s] = "walking" /\ pc'[s] = "arrived")
      BY <2>1, <2>3
    <3>3. LockHasTask' /\ NavigationAgrees'
      BY <3>1 DEF SteeringInv, LockHasTask, NavigationAgrees
    <3>4. BusyIsReal' /\ OneWantedRun'
      BY <3>1, <3>2 DEF SteeringInv, TypeOK, BusyIsReal, OneWantedRun
    <3>5. RunsAgree'
      BY <3>1, <3>2 DEF SteeringInv, RunsAgree
    <3>6. QED
      BY <3>3, <3>4, <3>5 DEF SteeringInv
  <2>4. QED
    BY <2>2, <2>3
<1>3. CASE NavigationGivesUp
  <2>1. \A s \in Run : pc'[s] = IF s = activeNav THEN "none" ELSE pc[s]
    BY <1>3 DEF TypeOK, NavigationGivesUp, Awaits
  <2>2. QED
    BY <1>1, <1>3, <2>1, NavigationOver DEF NavigationGivesUp
<1>4. QED
  BY <1>2, <1>3

\* Whatever ends a task leaves slot, lock and navigation record free.
LEMMA TaskEnded ==
  ASSUME TypeOK, SteeringInv, EndTask,
         live' = Interrupt \/ live' = {},
         connected' \in BOOLEAN
  PROVE  SteeringInv'
<1> USE DEF SteeringInv
<1>1. active \in Run /\ active # NoRun /\ active \notin aborted
  BY DEF TypeOK, EndTask, BusyIsReal
<1>2. lock' = NoOwner /\ active' = NoRun /\ UNCHANGED kind
  <2>1. lock = NoOwner \/ lock = OwnerOf(kind[active])
    BY DEF LockHasTask
  <2>2. kind[active] \in Kind
    BY <1>1 DEF TypeOK
  <2>3. QED
    BY <2>1, <2>2, OwnerFacts DEF EndTask, ReleasedAtEnd
<1>3. activeNav' = NoRun /\ (activeNav # NoRun => activeNav = active /\ Interrupted(active))
  <2>1. activeNav # NoRun => activeNav = active /\ pc[active] = "steering"
    BY <1>1 DEF NavigationAgrees, RunsAgree
  <2>2. activeNav # NoRun => kind[active] \in NavKind
    BY <1>1, <2>1 DEF RunsAgree
  <2>3. QED
    BY <2>1, <2>2 DEF EndTask, Interrupted
<1>4. \/ /\ pc' = [pc EXCEPT ![active] = "none"] /\ aborted' = aborted
         /\ active \notin live' /\ live' \subseteq live
      \/ /\ pc' = pc /\ aborted' = aborted \cup {active}
         /\ ~Interrupted(active) /\ live' \subseteq live
  BY <1>1 DEF EndTask, Awaits, Interrupt
<1>5. LockHasTask' /\ BusyIsReal'
  BY <1>2 DEF LockHasTask, BusyIsReal
<1>6. NavigationAgrees'
  BY <1>2, <1>3 DEF NavigationAgrees
<1>7. OneWantedRun'
  <2> SUFFICES ASSUME NEW s \in Run, pc'[s] # "none", s \notin aborted' PROVE FALSE
    BY DEF OneWantedRun
  <2>1. s # active
    BY <1>1, <1>4 DEF TypeOK
  <2>2. pc[s] # "none" /\ s \notin aborted
    BY <1>4, <2>1 DEF TypeOK
  <2>3. QED
    BY <2>1, <2>2 DEF OneWantedRun
<1>8. RunsAgree'
  <2> SUFFICES ASSUME NEW s \in Run
               PROVE  /\ pc'[s] = "none" => s \notin aborted' \cup live'
                      /\ pc'[s] # "none" => (kind'[s] \in NavKind <=> pc'[s] = "steering")
                      /\ pc'[s] = "steering" <=> activeNav' = s
                      /\ pc'[s] \in {"toggling", "whispering"} => kind'[s] = "sign"
                      /\ pc'[s] \in {"toggling", "whispering"} /\ active' = s => lock' = NoOwner
    BY DEF RunsAgree
  <2>1. s # NoRun
    BY RunAssumption
  <2>2. CASE s = active
    BY <1>1, <1>2, <1>3, <1>4, <2>1, <2>2 DEF TypeOK, BusyIsReal, RunsAgree, Interrupted
  <2>3. CASE s # active
    BY <1>1, <1>2, <1>3, <1>4, <2>1, <2>3 DEF TypeOK, RunsAgree
  <2>4. QED
    BY <2>2, <2>3
<1>9. QED
  BY <1>5, <1>6, <1>7, <1>8

\* What ends a task from outside keeps them in agreement.
LEMMA InterruptsAgree ==
  TypeOK /\ SteeringInv /\ (TaskStopped \/ Death \/ Disconnect \/ Reconnect) => SteeringInv'
<1> SUFFICES ASSUME TypeOK, SteeringInv, TaskStopped \/ Death \/ Disconnect \/ Reconnect
             PROVE  SteeringInv'
  OBVIOUS
<1> USE DEF shared
<1>1. CASE TaskStopped
  BY <1>1, TaskEnded DEF TypeOK, TaskStopped
<1>2. CASE Death
  BY <1>2, TaskEnded DEF TypeOK, Death
<1>3. CASE Disconnect
  <2>1. CASE active # NoRun
    BY <1>3, <2>1, TaskEnded DEF Disconnect
  <2>2. CASE active = NoRun
    BY <1>3, <2>2 DEF Disconnect, SteeringInv, LockHasTask, BusyIsReal, OneWantedRun,
                      NavigationAgrees, RunsAgree
  <2>3. QED
    BY <2>1, <2>2
<1>4. CASE Reconnect
  BY <1>4 DEF Reconnect, SteeringInv, LockHasTask, BusyIsReal, OneWantedRun,
              NavigationAgrees, RunsAgree
<1>5. QED
  BY <1>1, <1>2, <1>3, <1>4

\* A run that goes on to await something else disturbs nothing.
LEMMA RunContinues ==
  ASSUME TypeOK, SteeringInv, NEW r \in Run, NEW what \in Await,
         pc[r] \notin {"none", "steering"}, what \notin {"none", "steering"},
         what \in {"toggling", "whispering"} => kind[r] = "sign" /\ (active = r => lock' = NoOwner),
         Awaits(r, what), lock' = lock \/ lock' = NoOwner,
         activeNav # NoRun => lock' = lock,
         UNCHANGED <<active, activeNav, kind, aborted, live, connected>>
  PROVE  SteeringInv'
<1> USE DEF SteeringInv
<1>1. \A s \in Run : pc'[s] = IF s = r THEN what ELSE pc[s]
  BY DEF TypeOK, Awaits
<1>2. LockHasTask' /\ BusyIsReal'
  BY <1>1 DEF TypeOK, LockHasTask, BusyIsReal
<1>3. OneWantedRun' /\ NavigationAgrees'
  BY <1>1 DEF OneWantedRun, NavigationAgrees
<1>4. RunsAgree'
  BY <1>1 DEF RunsAgree
<1>5. QED
  BY <1>2, <1>3, <1>4

\* A run that is over gives back its slot, and a lock only of its own module.
LEMMA RunOver ==
  ASSUME TypeOK, SteeringInv, NEW r \in Run,
         pc[r] \notin {"none", "steering"}, Awaits(r, "none"), Gone(r),
         active' = SlotAfterFinish(r),
         lock' = Released(OwnerOf(kind[r])) \/ (lock' = lock /\ (active = r => lock = NoOwner)),
         UNCHANGED <<activeNav, kind, connected>>
  PROVE  SteeringInv'
<1> USE DEF SteeringInv
<1>1. \A s \in Run : pc'[s] = IF s = r THEN "none" ELSE pc[s]
  BY DEF TypeOK, Awaits
<1>2. r # NoRun /\ kind[r] \in Kind /\ kind[r] \notin NavKind /\ activeNav # r
  BY RunAssumption DEF TypeOK, RunsAgree
<1>3. lock' = lock \/ lock' = NoOwner
  BY DEF Released
<1>4. activeNav # NoRun => lock' = lock /\ active' = active
  BY <1>2, OwnerFacts DEF NavigationAgrees, SlotAfterFinish
<1>5. active = r => active' = NoRun /\ lock' = NoOwner
  BY <1>2, OwnerFacts DEF LockHasTask, SlotAfterFinish
<1>6. active # r => active' = active
  BY DEF SlotAfterFinish
<1>7. LockHasTask' /\ NavigationAgrees'
  BY <1>2, <1>3, <1>4, <1>5, <1>6 DEF LockHasTask, NavigationAgrees
<1>8. BusyIsReal'
  BY <1>1, <1>5, <1>6 DEF TypeOK, BusyIsReal, Gone
<1>9. OneWantedRun'
  BY <1>1, <1>5, <1>6 DEF OneWantedRun, Gone
<1>10. RunsAgree'
  <2> SUFFICES ASSUME NEW s \in Run
               PROVE  /\ pc'[s] = "none" => s \notin aborted' \cup live'
                      /\ pc'[s] # "none" => (kind'[s] \in NavKind <=> pc'[s] = "steering")
                      /\ pc'[s] = "steering" <=> activeNav' = s
                      /\ pc'[s] \in {"toggling", "whispering"} => kind'[s] = "sign"
                      /\ pc'[s] \in {"toggling", "whispering"} /\ active' = s => lock' = NoOwner
    BY DEF RunsAgree
  <2>1. CASE s = r
    BY <1>1, <1>2, <2>1 DEF Gone
  <2>2. CASE s # r
    BY <1>1, <1>3, <1>5, <1>6, <2>2, RunAssumption DEF RunsAgree, Gone
  <2>3. QED
    BY <2>1, <2>2
<1>11. QED
  BY <1>7, <1>8, <1>9, <1>10

\* A turn of a loop command keeps them in agreement.
LEMMA LoopAgrees ==
  ASSUME TypeOK, SteeringInv, NEW r \in Run, pc[r] \notin {"none", "steering"}, Loop(r)
  PROVE  SteeringInv'
<1>1. CASE NextVisit(r)
  BY <1>1, RunContinues DEF NextVisit, Await, shared
<1>2. CASE Finally(r)
  BY <1>2, RunOver DEF Finally
<1>3. QED
  BY <1>1, <1>2 DEF Loop

\* Every turn of a run keeps them in agreement.
LEMMA StepAgrees ==
  ASSUME TypeOK, SteeringInv, NEW r \in Run, Step(r)
  PROVE  SteeringInv'
<1> USE DEF shared, Await
<1>1. CASE WalkTimesOut(r) \/ TransferOver(r)
  BY <1>1, RunOver DEF WalkTimesOut, TransferOver, Finally
<1>2. CASE PickupOver(r) \/ DigOver(r)
  BY <1>2, LoopAgrees DEF PickupOver, DigOver
<1>3. CASE CollectArrives(r)
  BY <1>3, RunContinues DEF CollectArrives, Continue
<1>4. CASE MineArrives(r)
  <2>1. CASE Continue(r, "digging")
    BY <1>4, <2>1, RunContinues DEF MineArrives, Continue
  <2>2. CASE Loop(r)
    BY <1>4, <2>2, LoopAgrees DEF MineArrives
  <2>3. QED
    BY <1>4, <2>1, <2>2 DEF MineArrives
<1>5. CASE Equipped(r)
  <2>1. CASE Finally(r)
    BY <1>5, <2>1, RunOver DEF Equipped, Finally
  <2>2. CASE ~Finally(r)
    BY <1>5, <2>2, RunContinues DEF Equipped
  <2>3. QED
    BY <2>1, <2>2
<1>6. CASE ChestArrives(r) \/ ChestOpened(r)
  <2>1. CASE Finally(r)
    BY <1>6, <2>1, RunOver DEF ChestArrives, ChestOpened, Finally
  <2>2. CASE ~Finally(r)
    BY <1>6, <2>2, RunContinues DEF ChestArrives, ChestOpened, Continue
  <2>3. QED
    BY <2>1, <2>2
<1>7. CASE SignArrives(r)
  <2>1. pc[r] = "arrived" /\ kind[r] = "sign" /\ OwnerOf(kind[r]) = "sign"
    BY <1>7 DEF SignArrives, OwnerOf, NavKind
  <2>2. CASE FinishSign(r)
    BY <1>7, <2>1, <2>2, RunOver DEF SignArrives, FinishSign
  <2>3. CASE Awaits(r, "toggling") /\ UNCHANGED <<active, aborted, live>>
    <3>1. lock' = Released("sign") /\ UNCHANGED <<activeNav, kind, connected>>
      BY <1>7 DEF SignArrives
    <3>2. active = r => lock' = NoOwner
      BY <2>1, <3>1, RunAssumption, OwnerFacts DEF SteeringInv, LockHasTask
    <3>3. activeNav # NoRun => lock' = lock
      BY <3>1, OwnerFacts DEF SteeringInv, NavigationAgrees
    <3>4. lock' = lock \/ lock' = NoOwner
      BY <3>1 DEF Released
    <3>5. QED
      BY <2>1, <2>3, <3>1, <3>2, <3>3, <3>4, RunContinues
  <2>4. QED
    BY <1>7, <2>2, <2>3 DEF SignArrives
<1>8. CASE SignToggled(r)
  <2>1. kind[r] = "sign" /\ (active = r => lock = NoOwner)
    BY <1>8 DEF SignToggled, SteeringInv, RunsAgree
  <2>2. QED
    BY <1>8, <2>1, RunContinues DEF SignToggled, Continue
<1>9. CASE SignWhispered(r)
  <2>1. active = r => lock = NoOwner
    BY <1>9 DEF SignWhispered, SteeringInv, RunsAgree
  <2>2. QED
    BY <1>9, <2>1, RunOver DEF SignWhispered, FinishSign
<1>10. QED
  BY <1>1, <1>2, <1>3, <1>4, <1>5, <1>6, <1>7, <1>8, <1>9 DEF Step

\* The inductive invariant: slot, lock, navigation record and runs agree in
\* every reachable state, for any number of commands over any time.
THEOREM SteeringInvariant == Spec => []SteeringInv
<1>1. TypeOK /\ SteeringInv /\ [Next]_vars => SteeringInv'
  <2> SUFFICES ASSUME TypeOK, SteeringInv, [Next]_vars PROVE SteeringInv'
    OBVIOUS
  <2>1. CASE Next
    BY <2>1, StartsAgree, PathfinderAgrees, InterruptsAgree, StepAgrees DEF Next
  <2>2. CASE UNCHANGED vars
    BY <2>2 DEF vars, shared, SteeringInv, LockHasTask, BusyIsReal, OneWantedRun,
                NavigationAgrees, RunsAgree
  <2>3. QED
    BY <2>1, <2>2
<1>2. QED
  BY <1>1, InitAgrees, TypeCorrect, PTL DEF Spec

\* The pathfinder lock never outlives the task it was taken for.
THEOREM LockIsReleased == Spec => []LockHasTask
<1>1. SteeringInv => LockHasTask
  BY DEF SteeringInv
<1>2. QED
  BY <1>1, SteeringInvariant, PTL

\* "Busy" is said only while a run that was not ended is at work.
THEOREM NeverBusyForNothing == Spec => []BusyIsReal
<1>1. SteeringInv => BusyIsReal
  BY DEF SteeringInv
<1>2. QED
  BY <1>1, SteeringInvariant, PTL

\* However commands are started and ended, at most one is at work that was not
\* ended from outside.
THEOREM OneAtWork == Spec => []OneWantedRun
<1>1. SteeringInv => OneWantedRun
  BY DEF SteeringInv
<1>2. QED
  BY <1>1, SteeringInvariant, PTL

\* The navigation module's record is the task slot's, under the module's lock.
THEOREM NavigationInStep == Spec => []NavigationAgrees
<1>1. SteeringInv => NavigationAgrees
  BY DEF SteeringInv
<1>2. QED
  BY <1>1, SteeringInvariant, PTL

===============================================================================
