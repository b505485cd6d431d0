--------------------------------- MODULE EnvFile ---------------------------------
(***************************************************************************)
(* Processes that start together and find no WEB_PASSWORD.  Each runs      *)
(* ensureEnvVariableAtomic on the same .env: a lock file made with the     *)
(* exclusive 'wx' flag, a pid and a nonce inside it, a second exclusive    *)
(* file to elect who removes the lock of a process that died, and the      *)
(* password written once under the lock.                                   *)
(*                                                                         *)
(* A file is created by one system call and signed by the next, so a crash *)
(* or a failed write can leave it unsigned.  Any file operation may fail,  *)
(* and a process may die between any two of them.                          *)
(***************************************************************************)
EXTENDS Naturals

CONSTANTS
  Proc,        \* the processes that start
  NoFile,      \* no such file
  NoPassword,  \* WEB_PASSWORD is not assigned
  Blank        \* WEB_PASSWORD is assigned and empty

\* A file: who made it, whether it is signed, whether its lease is over.
File == [by : Proc, signed : BOOLEAN, old : BOOLEAN]

ASSUME ProcAssumption == NoFile \notin File /\ NoPassword \notin Proc \cup {Blank} /\ Blank \notin Proc

VARIABLES
  lock,      \* <env>.lock
  recovery,  \* <env>.lock.recovery
  env,       \* the password in the env file; a generated one is named after its maker
  at,        \* what a process is about to do
  late,      \* 5 s have passed since the process began to wait
  failing,   \* the process only cleans up before it rejects
  password   \* what ensureWebPassword resolved to

envVars == <<lock, recovery, env, at, late, failing, password>>

Passwords == Proc \cup {NoPassword, Blank}
Holding   == {"sign", "read", "write", "leave", "unlock"}
Electing  == {"sign_recovery", "recheck", "remove", "concede", "retract"}
Over      == {"done", "failed", "dead"}
Waiting   == {"open", "look", "elect"}

EnvTypeOK ==
  /\ lock \in File \cup {NoFile}
  /\ recovery \in File \cup {NoFile}
  /\ env \in Passwords
  /\ at \in [Proc -> {"idle"} \cup Waiting \cup Holding \cup Electing \cup Over]
  /\ late \in [Proc -> BOOLEAN] /\ failing \in [Proc -> BOOLEAN]
  /\ password \in [Proc -> Proc \cup {NoPassword}]

EnvInit ==
  /\ lock = NoFile /\ recovery = NoFile
  /\ env \in {NoPassword, Blank}
  /\ at = [p \in Proc |-> "idle"]
  /\ late = [p \in Proc |-> FALSE] /\ failing = [p \in Proc |-> FALSE]
  /\ password = [p \in Proc |-> NoPassword]

--------------------------------------------------------------------------------

Goes(p, place) == at' = [at EXCEPT ![p] = place]

Fresh(p) == [by |-> p, signed |-> FALSE, old |-> FALSE]

Alive(p) == at[p] \notin {"failed", "dead"}

\* A signed lock is stale when its process is gone, any other after 30 s.
IsStale == lock # NoFile /\ IF lock.signed THEN ~Alive(lock.by) ELSE lock.old

Owns(file, p) == file # NoFile /\ file.by = p /\ file.signed

\* The write goes to the file that was opened, whatever its path names by now.
Signed(file, p) == IF file # NoFile /\ file.by = p THEN [file EXCEPT !.signed = TRUE] ELSE file

(* Startup: dotenv has read the env file into the environment. *)
Start(p) ==
  /\ at[p] = "idle"
  /\ CASE env = NoPassword -> Goes(p, "open") /\ UNCHANGED password
       [] env = Blank      -> Goes(p, "failed") /\ UNCHANGED password
       [] OTHER            -> Goes(p, "done") /\ password' = [password EXCEPT ![p] = env]
  /\ UNCHANGED <<lock, recovery, env, late, failing>>

(* acquireLock *)

OpenLock(p) ==
  /\ at[p] = "open"
  /\ IF lock = NoFile THEN lock' = Fresh(p) /\ Goes(p, "sign")
                      ELSE UNCHANGED lock /\ Goes(p, "look")
  /\ UNCHANGED <<recovery, env, late, failing, password>>

SignLock(p) ==
  /\ at[p] = "sign"
  /\ lock' = Signed(lock, p)
  /\ Goes(p, "read")
  /\ UNCHANGED <<recovery, env, late, failing, password>>

Look(p) ==
  /\ at[p] = "look"
  /\ Goes(p, IF IsStale THEN "elect" ELSE IF late[p] THEN "failed" ELSE "open")
  /\ UNCHANGED <<lock, recovery, env, late, failing, password>>

(* recoverStaleLock *)

Elect(p) ==
  /\ at[p] = "elect"
  /\ IF recovery = NoFile THEN recovery' = Fresh(p) /\ Goes(p, "sign_recovery")
                          ELSE UNCHANGED recovery /\ Goes(p, "open")
  /\ UNCHANGED <<lock, env, late, failing, password>>

SignRecovery(p) ==
  /\ at[p] = "sign_recovery"
  /\ recovery' = Signed(recovery, p)
  /\ Goes(p, "recheck")
  /\ UNCHANGED <<lock, env, late, failing, password>>

\* Faulty variant: the winner of the election trusts what it saw before.
RecheckTrusts(p) ==
  /\ at[p] = "recheck"
  /\ Goes(p, "remove")
  /\ UNCHANGED <<lock, recovery, env, late, failing, password>>

Recheck(p) ==
  /\ at[p] = "recheck"
  /\ Goes(p, IF IsStale THEN "remove" ELSE "concede")
  /\ UNCHANGED <<lock, recovery, env, late, failing, password>>

RemoveStale(p) ==
  /\ at[p] = "remove"
  /\ lock' = NoFile
  /\ Goes(p, "concede")
  /\ UNCHANGED <<recovery, env, late, failing, password>>

\* removeLockIfOwned reads the nonce, then removes by path.
AfterRecovery(p) == Goes(p, IF failing[p] THEN "failed" ELSE "open")

\* Faulty variant: the winner of the election leaves its file behind.
ConcedeForgets(p) ==
  /\ at[p] = "concede"
  /\ AfterRecovery(p)
  /\ UNCHANGED <<lock, recovery, env, late, failing, password>>

Concede(p) ==
  /\ at[p] = "concede"
  /\ IF Owns(recovery, p) THEN Goes(p, "retract") ELSE AfterRecovery(p)
  /\ UNCHANGED <<lock, recovery, env, late, failing, password>>

Retract(p) ==
  /\ at[p] = "retract"
  /\ recovery' = NoFile
  /\ AfterRecovery(p)
  /\ UNCHANGED <<lock, env, late, failing, password>>

--------------------------------------------------------------------------------
(* ensureEnvVariableAtomic, under the lock *)

Resolves(p, value) == password' = [password EXCEPT ![p] = value]

ReadEnv(p) ==
  /\ at[p] = "read"
  /\ CASE env = NoPassword -> Goes(p, "write") /\ UNCHANGED <<failing, password>>
       [] env = Blank      -> Goes(p, "leave") /\ failing' = [failing EXCEPT ![p] = TRUE]
                              /\ UNCHANGED password
       [] OTHER            -> Goes(p, "leave") /\ Resolves(p, env) /\ UNCHANGED failing
  /\ UNCHANGED <<lock, recovery, env, late>>

\* writeFileAtomic: a temporary file of a random name, then a rename.
WriteEnv(p) ==
  /\ at[p] = "write"
  /\ env' = p /\ Resolves(p, p)
  /\ Goes(p, "leave")
  /\ UNCHANGED <<lock, recovery, late, failing>>

Finished(p) == Goes(p, IF failing[p] THEN "failed" ELSE "done")

Leave(p) ==
  /\ at[p] = "leave"
  /\ IF Owns(lock, p) THEN Goes(p, "unlock") ELSE Finished(p)
  /\ UNCHANGED <<lock, recovery, env, late, failing, password>>

Unlock(p) ==
  /\ at[p] = "unlock"
  /\ lock' = NoFile
  /\ Finished(p)
  /\ UNCHANGED <<recovery, env, late, failing, password>>

--------------------------------------------------------------------------------
(* Faults and time *)

\* A lock that could not be signed is removed by path, if that works.
SignFails(p) ==
  /\ at[p] = "sign"
  /\ lock' \in {lock, NoFile}
  /\ Goes(p, "failed")
  /\ UNCHANGED <<recovery, env, late, failing, password>>

StepFails(p) ==
  /\ \/ at[p] \in Waiting \cup {"concede", "retract", "leave", "unlock"}
        /\ Goes(p, "failed") /\ UNCHANGED failing
     \/ at[p] \in {"sign_recovery", "recheck", "remove"}
        /\ Goes(p, "concede") /\ failing' = [failing EXCEPT ![p] = TRUE]
     \/ at[p] \in {"read", "write"}
        /\ Goes(p, "leave") /\ failing' = [failing EXCEPT ![p] = TRUE]
  /\ UNCHANGED <<lock, recovery, env, late, password>>

\* LOCK_TIMEOUT_MS is over for a process that waits.
Deadline(p) ==
  /\ at[p] \in Waiting \cup Electing /\ ~late[p]
  /\ late' = [late EXCEPT ![p] = TRUE]
  /\ UNCHANGED <<lock, recovery, env, at, failing, password>>

\* STALE_LOCK_MS is over for an unsigned lock; a live process signs before that.
Age ==
  /\ lock # NoFile
  /\ ~lock.signed /\ ~lock.old /\ ~Alive(lock.by)
  /\ lock' = [lock EXCEPT !.old = TRUE]
  /\ UNCHANGED <<recovery, env, at, late, failing, password>>

Crash(p) ==
  /\ at[p] \notin Over \cup {"idle"}
  /\ Goes(p, "dead")
  /\ UNCHANGED <<lock, recovery, env, late, failing, password>>

--------------------------------------------------------------------------------

Step(p) ==
  \/ OpenLock(p) \/ SignLock(p) \/ Look(p)
  \/ Elect(p) \/ SignRecovery(p) \/ Recheck(p) \/ RemoveStale(p) \/ Concede(p) \/ Retract(p)
  \/ ReadEnv(p) \/ WriteEnv(p) \/ Leave(p) \/ Unlock(p)

EnvNext ==
  \/ \E p \in Proc : Start(p) \/ Step(p) \/ SignFails(p) \/ StepFails(p) \/ Deadline(p) \/ Crash(p)
  \/ Age

\* A process keeps running its own steps, and time passes for a lock left behind.
EnvFairness == (\A p \in Proc : WF_envVars(Step(p))) /\ WF_envVars(Age)

EnvSpec == EnvInit /\ [][EnvNext]_envVars /\ EnvFairness

--------------------------------------------------------------------------------
(* Whoever waits for a stale lock to go can tell that nobody will remove it. *)
RecoveryOrphaned == recovery # NoFile /\ ~Alive(recovery.by)

(* OnePassword: every process that starts resolves to the password that is  *)
(* in the env file, whichever of them generated it, also when a waiter saw  *)
(* the lock of a dead process and another one has taken it over since.      *)
OnePassword == \A p \in Proc : password[p] # NoPassword => password[p] = env

(* EnsureReturns: nobody waits for ever on the lock; the one exception is a *)
(* recovery file whose maker is gone, which no code removes.                *)
EnsureReturns == \A p \in Proc : at[p] = "open" ~> (at[p] \in Over \/ RecoveryOrphaned)

===============================================================================
