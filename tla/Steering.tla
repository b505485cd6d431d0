------------------------------- MODULE Steering -------------------------------
(***************************************************************************)
(* The long-running chat commands of one runInstance: they share the task  *)
(* slot (core/task-manager.ts) and the pathfinder lock                     *)
(* (core/pathfinder-lock.ts), both of which outlive a reconnect, and drive *)
(* the pathfinder of the bot they were started on                          *)
(* (modules/navigation, gathering, chests, sign-trapdoor).                 *)
(*                                                                         *)
(* A run is one execution of a command.  The code between two awaits is    *)
(* one turn of the event loop, hence one action.  !cancel, the task        *)
(* timeout, death and disconnect end the task of a run; the run itself     *)
(* goes on until the promise it awaits settles.                            *)
(***************************************************************************)
EXTENDS Naturals, FiniteSets

CONSTANTS
  Run,        \* executions; a name is reused once nothing refers to it
  NoRun,
  MaxVisits   \* bound: iterations of a !collect or !mine loop (20 and 30)

ASSUME RunAssumption    == NoRun \notin Run
ASSUME VisitsAssumption == MaxVisits \in Nat \ {0}

VARIABLES
  active,     \* TaskManager.active, named by its run
  lock,       \* PathfinderLock.owner
  activeNav,  \* the navigation module's activeNav, named by its run
  goal,       \* the run whose goal the live bot's pathfinder has
  kind, pc,   \* per run: its command, and what it awaits
  visits,     \* per run: loop iterations begun
  aborted,    \* runs whose task.signal has fired
  live,       \* runs whose closure holds the bot that is connected now
  connected

shared == <<active, lock, activeNav>>
vars == <<shared, goal, kind, pc, visits, aborted, live, connected>>

NavKind  == {"walk", "follow"}                    \* !come and !goto; !follow
LoopKind == {"collect", "mine"}
Kind     == NavKind \cup LoopKind \cup {"chest", "sign"}
Owner    == {"navigation", "collect", "mine", "chest", "sign"}
NoOwner  == "none"
OwnerOf(k) == IF k \in NavKind THEN "navigation" ELSE k

Await == {"none", "steering", "walking", "arrived", "pickup", "equipping", "digging",
          "opening", "transfer", "toggling", "whispering"}

TypeOK ==
  /\ active \in Run \cup {NoRun}
  /\ lock \in Owner \cup {NoOwner}
  /\ activeNav \in Run \cup {NoRun}
  /\ goal \in Run \cup {NoRun}
  /\ kind \in [Run -> Kind]
  /\ pc \in [Run -> Await]
  /\ visits \in [Run -> 0..MaxVisits]
  /\ aborted \in SUBSET Run /\ live \in SUBSET Run
  /\ connected \in BOOLEAN

Init ==
  /\ active = NoRun /\ lock = NoOwner /\ activeNav = NoRun /\ goal = NoRun
  /\ kind = [r \in Run |-> "walk"] /\ pc = [r \in Run |-> "none"]
  /\ visits = [r \in Run |-> 0]
  /\ aborted = {} /\ live = {} /\ connected = TRUE

-------------------------------------------------------------------------------
(* Pieces of the turns below *)

\* Promise continuations run before the next timer, packet or chat message.
Settled == \A r \in Run : pc[r] # "arrived"

\* Faulty variants: release without the owner id, finish without the task id.
ReleasedBlindly(owner) == IF owner = NoOwner THEN lock ELSE NoOwner
SlotCleared(r) == IF r = NoRun THEN active ELSE NoRun

Released(owner) == IF lock = owner THEN NoOwner ELSE lock

SlotAfterFinish(r) == IF active = r THEN NoRun ELSE active

Awaits(r, what) == pc' = [pc EXCEPT ![r] = what]

\* pathfinder.setGoal on the bot of the run's closure.
SetGoal(r) == goal' = IF r \in live THEN r ELSE goal

\* A run with no effect left: its names may be reused.
Gone(r) ==
  /\ aborted' = aborted \ {r}
  /\ live' = live \ {r}

\* The finally block: the lock is released by owner id, the task by task id.
Finally(r) ==
  /\ Awaits(r, "none")
  /\ lock' = Released(OwnerOf(kind[r]))
  /\ active' = SlotAfterFinish(r)
  /\ Gone(r)
  /\ UNCHANGED <<activeNav, goal, kind, visits, connected>>

Continue(r, what) ==
  /\ Awaits(r, what)
  /\ UNCHANGED <<shared, goal, kind, visits, aborted, live, connected>>

-------------------------------------------------------------------------------
(* Starting a command: getActive, acquire and tasks.start are one turn. *)

Fresh == {r \in Run : pc[r] = "none" /\ r # goal}

Begin(r, k) ==
  /\ Settled /\ connected
  /\ r \in Fresh
  /\ active = NoRun
  /\ lock \in {NoOwner, OwnerOf(k)}
  /\ active' = r
  /\ lock' = OwnerOf(k)
  /\ kind' = [kind EXCEPT ![r] = k]
  /\ live' = live \cup {r}
  /\ visits' = [visits EXCEPT ![r] = IF k \in LoopKind THEN 1 ELSE 0]
  /\ UNCHANGED <<aborted, connected>>

StartNavigation(r, k) ==
  /\ k \in NavKind
  /\ Begin(r, k)
  /\ goal' = r
  /\ activeNav' = r
  /\ Awaits(r, "steering")

\* performCollect, performMine, performChestOperation, triggerTrapdoorForLabel
\* up to waitForGoalReached.
StartWalk(r, k) ==
  /\ k \notin NavKind
  /\ Begin(r, k)
  /\ goal' = r
  /\ Awaits(r, "walking")
  /\ UNCHANGED activeNav

\* !mine puts the harvest tool in hand before it walks.
StartEquipping(r) ==
  /\ Begin(r, "mine")
  /\ Awaits(r, "equipping")
  /\ UNCHANGED <<activeNav, goal>>

-------------------------------------------------------------------------------
(* The pathfinder's events *)

\* clearActiveNav: the task is finished and the lock released.
ClearActiveNav ==
  /\ active' = SlotAfterFinish(activeNav)
  /\ activeNav' = NoRun
  /\ lock' = Released("navigation")
  /\ live' = live \ {activeNav}

\* goal_reached: whoever waits on this bot is woken, whosever goal it was.
GoalReached ==
  /\ Settled /\ goal # NoRun
  /\ goal' = IF kind[goal] = "follow" THEN goal ELSE NoRun
  /\ LET walkDone == activeNav # NoRun /\ kind[activeNav] # "follow"
     IN  /\ IF walkDone THEN ClearActiveNav ELSE UNCHANGED <<shared, live>>
         /\ pc' = [r \in Run |-> IF r \in live /\ pc[r] = "walking" THEN "arrived"
                                 ELSE IF walkDone /\ r = activeNav THEN "none" ELSE pc[r]]
  /\ UNCHANGED <<kind, visits, aborted, connected>>

\* noPath and stuck end a navigation, a player leaving ends a follow; the
\* pathfinder keeps its goal.
NavigationGivesUp ==
  /\ Settled /\ activeNav # NoRun
  /\ ClearActiveNav
  /\ Awaits(activeNav, "none")
  /\ UNCHANGED <<goal, kind, visits, aborted, connected>>

\* waitForGoalReached rejects after its own timeout.
WalkTimesOut(r) == Settled /\ pc[r] = "walking" /\ Finally(r)

-------------------------------------------------------------------------------
(* TaskManager.end: abort the signal, free the slot, call onEnd. *)

\* What the signal and onEnd interrupt: the walk and, by stopDigging, the dig.
Interrupted(r) == pc[r] \in {"steering", "walking", "digging"}

ReleasedAtEnd(k) == Released(OwnerOf(k))

EndTask ==
  /\ active # NoRun
  /\ active' = NoRun
  /\ lock' = ReleasedAtEnd(kind[active])
  /\ activeNav' = IF kind[active] \in NavKind THEN NoRun ELSE activeNav
  /\ IF Interrupted(active)
     THEN Awaits(active, "none") /\ UNCHANGED aborted
     ELSE aborted' = aborted \cup {active} /\ UNCHANGED pc
  /\ UNCHANGED <<kind, visits>>

Interrupt == IF Interrupted(active) THEN live \ {active} ELSE live

\* Faulty variant: a follow has no timeout.
TaskStoppedExceptFollow ==
  /\ active # NoRun /\ kind[active] # "follow"
  /\ Settled /\ EndTask
  /\ goal' = NoRun /\ live' = Interrupt /\ UNCHANGED connected

\* !cancel, !stop, !unfollow, and the task timeout.
TaskStopped ==
  /\ Settled /\ EndTask
  /\ goal' = NoRun
  /\ live' = Interrupt
  /\ UNCHANGED connected

\* navigation's onTaskEnd does not stop the pathfinder on death.
Death ==
  /\ Settled /\ connected /\ EndTask
  /\ goal' = IF kind[active] \in NavKind THEN goal ELSE NoRun
  /\ live' = Interrupt
  /\ UNCHANGED connected

\* Faulty variant: 'end' does not abort the task.
DisconnectKeepsTask ==
  /\ Settled /\ connected
  /\ connected' = FALSE /\ goal' = NoRun /\ live' = {}
  /\ UNCHANGED <<shared, kind, pc, visits, aborted>>

\* 'end': tasks.abort('disconnected'); the next bot has no goal and no listener.
Disconnect ==
  /\ Settled /\ connected
  /\ connected' = FALSE
  /\ goal' = NoRun
  /\ live' = {}
  /\ IF active # NoRun THEN EndTask
     ELSE UNCHANGED <<shared, kind, pc, visits, aborted>>

Reconnect ==
  /\ Settled /\ ~connected
  /\ connected' = TRUE
  /\ UNCHANGED <<shared, goal, kind, pc, visits, aborted, live>>

-------------------------------------------------------------------------------
(* !collect and !mine *)

\* Faulty variants of the loop's counter: one visit too many, never counted.
CountLate(r)  == visits[r] <= MaxVisits /\ visits' = [visits EXCEPT ![r] = @ + 1]
CountNever(r) == visits[r] < MaxVisits /\ UNCHANGED visits

CountVisit(r) == visits[r] < MaxVisits /\ visits' = [visits EXCEPT ![r] = @ + 1]

\* The next iteration of the loop; nothing in it asks whether the run was ended.
NextVisit(r) ==
  /\ CountVisit(r)
  /\ \/ SetGoal(r) /\ Awaits(r, "walking")
     \/ kind[r] = "mine" /\ Awaits(r, "equipping") /\ UNCHANGED goal
  /\ UNCHANGED <<shared, kind, aborted, live, connected>>

Loop(r) == NextVisit(r) \/ Finally(r)

CollectArrives(r) == pc[r] = "arrived" /\ kind[r] = "collect" /\ Continue(r, "pickup")

PickupOver(r) == Settled /\ pc[r] = "pickup" /\ Loop(r)

\* The tool is in hand, or bot.equip rejects.
Equipped(r) ==
  /\ Settled /\ pc[r] = "equipping"
  /\ \/ /\ SetGoal(r) /\ Awaits(r, "walking")
        /\ UNCHANGED <<shared, kind, visits, aborted, live, connected>>
     \/ Finally(r)

\* The block is dug, is gone by now, or cannot be dug.
MineArrives(r) ==
  /\ pc[r] = "arrived" /\ kind[r] = "mine"
  /\ Continue(r, "digging") \/ Loop(r)

DigOver(r) == Settled /\ pc[r] = "digging" /\ Loop(r)

(* !deposit and !withdraw *)

ChestArrives(r) ==
  /\ pc[r] = "arrived" /\ kind[r] = "chest"
  /\ Continue(r, "opening") \/ Finally(r)

\* The items are moved whether or not the run was ended meanwhile.
ChestOpened(r) ==
  /\ Settled /\ pc[r] = "opening"
  /\ Continue(r, "transfer") \/ Finally(r)

TransferOver(r) == Settled /\ pc[r] = "transfer" /\ Finally(r)

(* !s: the lock is released on arrival, the task after the toggles. *)

FinishSign(r) == Awaits(r, "none") /\ active' = SlotAfterFinish(r) /\ Gone(r)

SignArrives(r) ==
  /\ pc[r] = "arrived" /\ kind[r] = "sign"
  /\ lock' = Released("sign")
  /\ \/ Awaits(r, "toggling") /\ UNCHANGED <<active, aborted, live>>
     \/ FinishSign(r)
  /\ UNCHANGED <<activeNav, goal, kind, visits, connected>>

SignToggled(r) == Settled /\ pc[r] = "toggling" /\ Continue(r, "whispering")

SignWhispered(r) ==
  /\ Settled /\ pc[r] = "whispering"
  /\ FinishSign(r)
  /\ UNCHANGED <<lock, activeNav, goal, kind, visits, connected>>

-------------------------------------------------------------------------------

Starts == \E r \in Run : \/ \E k \in Kind : StartNavigation(r, k) \/ StartWalk(r, k)
                         \/ StartEquipping(r)

\* A run's own awaits, each bounded by a timer or by the game's answer.
Step(r) ==
  \/ WalkTimesOut(r)
  \/ CollectArrives(r) \/ PickupOver(r)
  \/ MineArrives(r) \/ Equipped(r) \/ DigOver(r)
  \/ ChestArrives(r) \/ ChestOpened(r) \/ TransferOver(r)
  \/ SignArrives(r) \/ SignToggled(r) \/ SignWhispered(r)

Next ==
  \/ Starts
  \/ GoalReached \/ NavigationGivesUp
  \/ TaskStopped \/ Death \/ Disconnect \/ Reconnect
  \/ \E r \in Run : Step(r)

Spec == Init /\ [][Next]_vars

\* Every task has a timeout; every await of a run settles.  Strong, because
\* Settled is false again and again while promise continuations run ahead of
\* the timers: each time it is a finite turn, so a timer that is due still fires.
Fairness == SF_vars(TaskStopped) /\ \A r \in Run : SF_vars(Step(r))

FairSpec == Spec /\ Fairness

-------------------------------------------------------------------------------
(* Properties *)

\* docs/tasks.md, "Cleanup guarantees": the lock never outlives the task it was
\* taken for, whichever of finish, cancel, timeout, death and disconnect wins;
\* a held lock without a task would refuse every other command for good.
LockHasTask == lock # NoOwner => active # NoRun /\ lock = OwnerOf(kind[active])

\* A busy slot belongs to a run that is still at work on the connected bot, so
\* "I'm busy" is never said for a run that is over or already cancelled.
BusyIsReal ==
  active # NoRun => /\ pc[active] # "none" /\ active \notin aborted
                    /\ active \in live /\ connected

\* docs/tasks.md:30: no two commands are at work at a time, not counting those
\* whose task was ended from outside.
OneWantedRun == \A r \in Run : pc[r] # "none" /\ r \notin aborted => active = r

\* navigation's own record, the task slot and the lock agree, although runs of
\* other commands finish, release and raise goal_reached around it.
NavigationAgrees ==
  /\ activeNav # NoRun => active = activeNav /\ lock = "navigation"
  /\ active # NoRun /\ kind[active] \in NavKind => activeNav = active

\* What a run's record says of the run; with the properties above, the
\* inductive invariant of SteeringProofs.
RunsAgree ==
  \A r \in Run :
    /\ pc[r] = "none" => r \notin aborted \cup live
    /\ pc[r] # "none" => (kind[r] \in NavKind <=> pc[r] = "steering")
    /\ pc[r] = "steering" <=> activeNav = r
    /\ pc[r] \in {"toggling", "whispering"} => kind[r] = "sign"
    /\ pc[r] \in {"toggling", "whispering"} /\ active = r => lock = NoOwner

SteeringInv == LockHasTask /\ BusyIsReal /\ OneWantedRun /\ NavigationAgrees /\ RunsAgree

\* The slot is always given back, and every execution of a command ends, the
\* cancelled ones included.
SlotIsFreed  == \A r \in Run : active = r ~> active # r
EveryRunEnds == \A r \in Run : pc[r] # "none" ~> pc[r] = "none"

\* docs/architecture.md:70: "Only one module should be allowed to drive
\* bot.pathfinder at a time".
SingleDriver == Cardinality({r \in live : pc[r] \in {"steering", "walking"}}) <= 1

===============================================================================
