--------------------------------- MODULE Web ---------------------------------
(***************************************************************************)
(* The web interface, side by side: the password it starts with, logging   *)
(* in, the dashboard page and the log page.  Each has its own state (the   *)
(* pages know the session only as valid or not), so a behaviour follows    *)
(* one of them and no interleaving is lost; the others stay as they began. *)
(* The properties are those of the four modules.                           *)
(***************************************************************************)
EXTENDS EnvFile, WebLogin, Dashboard, LogViewer

VARIABLE moving  \* the component this behaviour follows

vars == <<moving, envVars, loginVars, dashboardVars, viewerVars>>

Component == {"env", "login", "dashboard", "viewer"}

TypeOK == moving \in Component /\ EnvTypeOK /\ LoginTypeOK /\ DashboardTypeOK /\ ViewerTypeOK

\* How a component begins that stays as it began does not matter.
Init ==
  /\ moving \in Component /\ EnvInit /\ LoginInit /\ DashboardInit /\ ViewerInit
  /\ moving # "env" => env = NoPassword
  /\ moving # "viewer" => length = [i \in Instance |-> 0]

Next ==
  /\ UNCHANGED moving
  /\ \/ moving = "env" /\ EnvNext /\ UNCHANGED <<loginVars, dashboardVars, viewerVars>>
     \/ moving = "login" /\ LoginNext /\ UNCHANGED <<envVars, dashboardVars, viewerVars>>
     \/ moving = "dashboard" /\ DashboardNext /\ UNCHANGED <<envVars, loginVars, viewerVars>>
     \/ moving = "viewer" /\ ViewerNext /\ UNCHANGED <<envVars, loginVars, dashboardVars>>

\* A page that is not open, and a process that did not start, have no step to be fair to.
Spec == Init /\ [][Next]_vars /\ EnvFairness /\ DashboardFairness

===============================================================================
