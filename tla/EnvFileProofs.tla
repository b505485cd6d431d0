------------------------------- MODULE EnvFileProofs -------------------------------
(***************************************************************************)
(* For any number of processes: everyone who gets a password gets the one  *)
(* that is in the env file.  The argument is that the lock is exclusive    *)
(* although a file is made by one call and signed by the next, and         *)
(* although a lock is removed by path: the one process that may remove a   *)
(* lock it does not own was elected, and what it removes stays stale.      *)
(***************************************************************************)
EXTENDS EnvFile, TLAPS

\* Whoever is past the exclusive open owns the lock, and has signed it.
HoldersOwnTheLock ==
  \A p \in Proc : at[p] \in Holding =>
    lock # NoFile /\ lock.by = p /\ (at[p] # "sign" => lock.signed)

\* Whoever is past the exclusive open of the recovery file made it.
ElectedMadeRecovery == \A p \in Proc : at[p] \in Electing => recovery # NoFile /\ recovery.by = p

\* Only a lock whose process is gone grows old.
OldIsAbandoned == lock # NoFile /\ lock.old => ~Alive(lock.by)

\* What the elected process found stale is stale until it removes it.
RemovedIsStale == \A p \in Proc : at[p] = "remove" => IsStale

\* Whoever writes still finds what it read.
WriterSawNone == \A p \in Proc : at[p] = "write" => env = NoPassword

EnvInv ==
  /\ HoldersOwnTheLock
  /\ ElectedMadeRecovery
  /\ OldIsAbandoned
  /\ RemovedIsStale
  /\ WriterSawNone
  /\ OnePassword

--------------------------------------------------------------------------------

(* Typing: the state stays well formed, whatever fails (envFile.ts:85-211). *)
THEOREM EnvTyping == EnvSpec => []EnvTypeOK
<1> USE ProcAssumption
<1>1. EnvInit => EnvTypeOK
  BY DEF EnvInit, EnvTypeOK, Passwords
<1>2. EnvTypeOK /\ [EnvNext]_envVars => EnvTypeOK'
  <2> SUFFICES ASSUME EnvTypeOK, [EnvNext]_envVars PROVE EnvTypeOK'
    OBVIOUS
  <2> USE DEF EnvTypeOK, File, Passwords, Holding, Electing, Over, Waiting, Goes
  <2>1. ASSUME NEW p \in Proc, Start(p) PROVE EnvTypeOK'
    BY <2>1 DEF Start
  <2>2. ASSUME NEW p \in Proc, Step(p) PROVE EnvTypeOK'
    <3>0. Fresh(p) \in File
      BY DEF Fresh
    <3>1. CASE OpenLock(p)
      BY <3>0, <3>1 DEF OpenLock
    <3>2. CASE SignLock(p) BY <3>2 DEF SignLock, Signed
    <3>3. CASE Look(p) BY <3>3 DEF Look
    <3>4. CASE Elect(p)
      BY <3>0, <3>4 DEF Elect
    <3>5. CASE SignRecovery(p) BY <3>5 DEF SignRecovery, Signed
    <3>6. CASE Recheck(p) BY <3>6 DEF Recheck
    <3>7. CASE RemoveStale(p) BY <3>7 DEF RemoveStale
    <3>8. CASE Concede(p) BY <3>8 DEF Concede, AfterRecovery
    <3>9. CASE Retract(p) BY <3>9 DEF Retract, AfterRecovery
    <3>10. CASE ReadEnv(p)
      <4>1. UNCHANGED <<lock, recovery, env, late>> /\ at[p] = "read"
        BY <3>10 DEF ReadEnv
      <4>2. CASE env = NoPassword
        <5>1. Goes(p, "write") /\ UNCHANGED <<failing, password>>
          BY <3>10, <4>2 DEF ReadEnv
        <5> QED
          BY <4>1, <5>1
      <4>3. CASE env # NoPassword /\ env = Blank
        <5>1. Goes(p, "leave") /\ failing' = [failing EXCEPT ![p] = TRUE] /\ UNCHANGED password
          BY <3>10, <4>3 DEF ReadEnv
        <5> QED
          BY <4>1, <5>1
      <4>4. CASE env # NoPassword /\ env # Blank
        <5>1. Goes(p, "leave") /\ password' = [password EXCEPT ![p] = env] /\ UNCHANGED failing
          BY <3>10, <4>4 DEF ReadEnv, Resolves
        <5> QED
          BY <4>1, <4>4, <5>1
      <4> QED
        BY <4>2, <4>3, <4>4
    <3>11. CASE WriteEnv(p) BY <3>11 DEF WriteEnv, Resolves
    <3>12. CASE Leave(p) BY <3>12 DEF Leave, Finished
    <3>13. CASE Unlock(p) BY <3>13 DEF Unlock, Finished
    <3> QED
      BY <2>2, <3>1, <3>2, <3>3, <3>4, <3>5, <3>6, <3>7, <3>8, <3>9, <3>10, <3>11, <3>12, <3>13 DEF Step
  <2>3. ASSUME NEW p \in Proc, SignFails(p) PROVE EnvTypeOK'
    BY <2>3 DEF SignFails
  <2>4. ASSUME NEW p \in Proc, StepFails(p) PROVE EnvTypeOK'
    BY <2>4 DEF StepFails
  <2>5. ASSUME NEW p \in Proc, Deadline(p) PROVE EnvTypeOK'
    BY <2>5 DEF Deadline
  <2>6. ASSUME NEW p \in Proc, Crash(p) PROVE EnvTypeOK'
    BY <2>6 DEF Crash
  <2>7. CASE Age
    BY <2>7 DEF Age
  <2>8. CASE UNCHANGED envVars
    BY <2>8 DEF envVars
  <2> QED
    BY <2>1, <2>2, <2>3, <2>4, <2>5, <2>6, <2>7, <2>8 DEF EnvNext
<1> QED
  BY <1>1, <1>2, PTL DEF EnvSpec

--------------------------------------------------------------------------------

(* A step that leaves both files, the env file and the passwords alone, and *)
(* neither takes a place of a holder or of an elected process for the first *)
(* time nor brings anyone back.                                             *)
LEMMA Moving ==
  ASSUME EnvTypeOK, EnvInv, NEW p \in Proc, NEW place,
         at' = [at EXCEPT ![p] = place],
         place \in Holding => at[p] \in Holding /\ at[p] # "sign" /\ place # "sign",
         place \in Electing => at[p] \in Electing,
         place = "remove" => IsStale,
         place = "write" => env = NoPassword,
         Alive(p) \/ place \in {"failed", "dead"},
         UNCHANGED <<lock, recovery, env, password>>
  PROVE  EnvInv'
<1> USE DEF EnvTypeOK, EnvInv
<1>1. HoldersOwnTheLock'
  BY DEF HoldersOwnTheLock, Holding
<1>2. ElectedMadeRecovery'
  BY DEF ElectedMadeRecovery
<1>3. \A q \in Proc : ~Alive(q) => ~Alive(q)'
  BY DEF Alive
<1>4. OldIsAbandoned'
  BY <1>3 DEF OldIsAbandoned, File
<1>5. IsStale => IsStale'
  BY <1>3 DEF IsStale, File
<1>6. RemovedIsStale'
  BY <1>5 DEF RemovedIsStale
<1>7. WriterSawNone'
  BY DEF WriterSawNone
<1>8. OnePassword'
  BY DEF OnePassword
<1> QED
  BY <1>1, <1>2, <1>4, <1>6, <1>7, <1>8

(* The holder of the lock removes it: nobody else holds it, and nobody is   *)
(* about to remove it, since it is not stale.                               *)
LEMMA Letting ==
  ASSUME EnvTypeOK, EnvInv, NEW p \in Proc, NEW place \in {"done", "failed"},
         at' = [at EXCEPT ![p] = place], at[p] \in Holding,
         lock' = NoFile,
         UNCHANGED <<recovery, env, password>>
  PROVE  EnvInv'
<1> USE DEF EnvTypeOK, EnvInv
<1>1. lock # NoFile /\ lock.by = p /\ Alive(p)
  BY DEF HoldersOwnTheLock, Holding, Alive
<1>2. \A q \in Proc \ {p} : at[q] \notin Holding
  BY <1>1 DEF HoldersOwnTheLock
<1>3. ~IsStale
  BY <1>1 DEF IsStale, OldIsAbandoned
<1>4. HoldersOwnTheLock' /\ WriterSawNone'
  BY <1>2 DEF HoldersOwnTheLock, WriterSawNone, Holding
<1>5. ElectedMadeRecovery'
  BY DEF ElectedMadeRecovery, Electing
<1>6. RemovedIsStale' /\ OldIsAbandoned'
  BY <1>3 DEF RemovedIsStale, OldIsAbandoned
<1>7. OnePassword'
  BY DEF OnePassword
<1> QED
  BY <1>4, <1>5, <1>6, <1>7

--------------------------------------------------------------------------------

(* Nobody takes the lock while it exists, so the new holder is alone.       *)
LEMMA OpenLockKeeps ==
  ASSUME EnvTypeOK, EnvInv, NEW p \in Proc, OpenLock(p)
  PROVE  EnvInv'
<1>1. CASE lock # NoFile
  <2>1. at' = [at EXCEPT ![p] = "look"]
    BY <1>1 DEF OpenLock, Goes
  <2> QED
    BY <1>1, <2>1, Moving DEF OpenLock, Holding, Electing, Alive
<1>2. CASE lock = NoFile
  <2> DEFINE k == Fresh(p)
  <2>1. k.by = p /\ ~k.signed /\ ~k.old /\ k \in File
    BY DEF Fresh, File
  <2>2. k # NoFile
    BY <2>1, ProcAssumption
  <2>3. lock' = k /\ at' = [at EXCEPT ![p] = "sign"] /\ at[p] = "open"
    BY <1>2 DEF OpenLock, Goes
  <2>4. UNCHANGED <<recovery, env, password>>
    BY DEF OpenLock
  <2> HIDE DEF k
  <2> USE DEF EnvTypeOK, EnvInv
  <2>5. \A q \in Proc : at[q] \notin Holding /\ at[q] # "remove"
    BY <1>2 DEF HoldersOwnTheLock, RemovedIsStale, IsStale
  <2>6. HoldersOwnTheLock' /\ WriterSawNone' /\ RemovedIsStale'
    BY <2>1, <2>2, <2>5, <2>3 DEF HoldersOwnTheLock, WriterSawNone, RemovedIsStale, Holding
  <2>7. ElectedMadeRecovery' /\ OnePassword'
    BY <2>4, <2>3 DEF ElectedMadeRecovery, Electing, OnePassword
  <2>8. OldIsAbandoned'
    BY <2>1, <2>3 DEF OldIsAbandoned
  <2> QED
    BY <2>6, <2>7, <2>8
<1> QED
  BY <1>1, <1>2

(* Signing changes neither who made the lock nor its age.                   *)
LEMMA SignLockKeeps ==
  ASSUME EnvTypeOK, EnvInv, NEW p \in Proc, SignLock(p)
  PROVE  EnvInv'
<1> USE DEF EnvTypeOK, EnvInv
<1> DEFINE k == [lock EXCEPT !.signed = TRUE]
<1>1. at[p] = "sign" /\ lock # NoFile /\ lock.by = p /\ Alive(p)
  BY DEF SignLock, HoldersOwnTheLock, Holding, Alive
<1>2. k.by = p /\ k.signed /\ (k.old <=> lock.old) /\ k \in File
  BY <1>1 DEF File
<1>3. lock' = k /\ at' = [at EXCEPT ![p] = "read"] /\ UNCHANGED <<recovery, env, password>>
  BY <1>1 DEF SignLock, Signed, Goes
<1> HIDE DEF k
<1>4. ~IsStale
  BY <1>1 DEF IsStale, OldIsAbandoned
<1>5. \A q \in Proc \ {p} : at[q] \notin Holding
  BY <1>1 DEF HoldersOwnTheLock
<1>6. k # NoFile
  BY <1>2, ProcAssumption
<1>7. HoldersOwnTheLock' /\ WriterSawNone'
  BY <1>1, <1>2, <1>3, <1>5, <1>6 DEF HoldersOwnTheLock, WriterSawNone, Holding
<1>8. ElectedMadeRecovery' /\ OnePassword'
  BY <1>1, <1>3 DEF ElectedMadeRecovery, Electing, OnePassword
<1>9. RemovedIsStale'
  BY <1>3, <1>4 DEF RemovedIsStale
<1>10. OldIsAbandoned'
  BY <1>1, <1>2, <1>3 DEF OldIsAbandoned
<1> QED
  BY <1>7, <1>8, <1>9, <1>10

(* Nobody makes the recovery file while it exists: one process is elected.  *)
LEMMA ElectKeeps ==
  ASSUME EnvTypeOK, EnvInv, NEW p \in Proc, Elect(p)
  PROVE  EnvInv'
<1>1. CASE recovery # NoFile
  <2>1. at' = [at EXCEPT ![p] = "open"]
    BY <1>1 DEF Elect, Goes
  <2> QED
    BY <1>1, <2>1, Moving DEF Elect, Holding, Electing, Alive
<1>2. CASE recovery = NoFile
  <2> USE DEF EnvTypeOK, EnvInv
  <2>1. Fresh(p).by = p /\ Fresh(p) \in File
    BY DEF Fresh, File
  <2> DEFINE k == Fresh(p)
  <2>2. recovery' = k /\ at' = [at EXCEPT ![p] = "sign_recovery"] /\ at[p] = "elect"
    BY <1>2 DEF Elect, Goes
  <2>3. UNCHANGED <<lock, env, password>>
    BY DEF Elect
  <2>4. k.by = p /\ k # NoFile
    BY <2>1, ProcAssumption
  <2> HIDE DEF k
  <2>5. \A q \in Proc : at[q] \notin Electing
    BY <1>2 DEF ElectedMadeRecovery
  <2>6. ElectedMadeRecovery'
    BY <2>2, <2>4, <2>5 DEF ElectedMadeRecovery, Electing
  <2>7. HoldersOwnTheLock' /\ WriterSawNone' /\ OnePassword'
    BY <2>2, <2>3 DEF HoldersOwnTheLock, WriterSawNone, OnePassword, Holding
  <2>8. RemovedIsStale'
    BY <2>2, <2>5 DEF RemovedIsStale, Electing
  <2>9. OldIsAbandoned'
    BY <2>2, <2>3 DEF OldIsAbandoned, Alive, File
  <2> QED
    BY <2>6, <2>7, <2>8, <2>9
<1> QED
  BY <1>1, <1>2

LEMMA SignRecoveryKeeps ==
  ASSUME EnvTypeOK, EnvInv, NEW p \in Proc, SignRecovery(p)
  PROVE  EnvInv'
<1> USE DEF EnvTypeOK, EnvInv
<1>1. at[p] = "sign_recovery" /\ recovery # NoFile /\ recovery.by = p
  BY DEF SignRecovery, ElectedMadeRecovery, Electing
<1> DEFINE k == [recovery EXCEPT !.signed = TRUE]
<1>2. k.by = p /\ k \in File
  BY <1>1 DEF File
<1>3. recovery' = k /\ at' = [at EXCEPT ![p] = "recheck"] /\ UNCHANGED <<lock, env, password>>
  BY <1>1 DEF SignRecovery, Signed, Goes
<1> HIDE DEF k
<1>4. \A q \in Proc \ {p} : at[q] \notin Electing
  BY <1>1 DEF ElectedMadeRecovery
<1>5. k # NoFile
  BY <1>2, ProcAssumption
<1>6. ElectedMadeRecovery'
  BY <1>2, <1>3, <1>4, <1>5 DEF ElectedMadeRecovery, Electing
<1>7. HoldersOwnTheLock' /\ WriterSawNone' /\ OnePassword'
  BY <1>3 DEF HoldersOwnTheLock, WriterSawNone, OnePassword, Holding
<1>8. RemovedIsStale'
  BY <1>3, <1>4 DEF RemovedIsStale, Electing
<1>9. OldIsAbandoned'
  BY <1>1, <1>3 DEF OldIsAbandoned, Alive, File
<1> QED
  BY <1>6, <1>7, <1>8, <1>9

(* What is removed by path was stale, so no live process holds it.          *)
LEMMA RemoveStaleKeeps ==
  ASSUME EnvTypeOK, EnvInv, NEW p \in Proc, RemoveStale(p)
  PROVE  EnvInv'
<1> USE DEF EnvTypeOK, EnvInv
<1>1. at[p] = "remove" /\ lock' = NoFile /\ at' = [at EXCEPT ![p] = "concede"]
  BY DEF RemoveStale, Goes
<1>2. UNCHANGED <<recovery, env, password>>
  BY DEF RemoveStale
<1>3. IsStale
  BY <1>1 DEF RemovedIsStale
<1>4. lock # NoFile /\ ~Alive(lock.by)
  BY <1>3 DEF IsStale, OldIsAbandoned
<1>5. \A q \in Proc : at[q] \notin Holding
  BY <1>4 DEF HoldersOwnTheLock, Alive, Holding
<1>6. \A q \in Proc \ {p} : at[q] \notin Electing
  BY <1>1 DEF ElectedMadeRecovery, Electing
<1>7. HoldersOwnTheLock' /\ WriterSawNone'
  BY <1>1, <1>5 DEF HoldersOwnTheLock, WriterSawNone, Holding
<1>8. ElectedMadeRecovery' /\ OnePassword'
  BY <1>1, <1>2 DEF ElectedMadeRecovery, Electing, OnePassword
<1>9. RemovedIsStale'
  BY <1>1, <1>6 DEF RemovedIsStale, Electing
<1>10. OldIsAbandoned'
  BY <1>1 DEF OldIsAbandoned
<1> QED
  BY <1>7, <1>8, <1>9, <1>10

LEMMA RetractKeeps ==
  ASSUME EnvTypeOK, EnvInv, NEW p \in Proc, Retract(p)
  PROVE  EnvInv'
<1> USE DEF EnvTypeOK, EnvInv
<1> DEFINE place == IF failing[p] THEN "failed" ELSE "open"
<1>1. place \in {"failed", "open"}
  OBVIOUS
<1>2. at[p] = "retract" /\ recovery' = NoFile /\ at' = [at EXCEPT ![p] = place]
  BY DEF Retract, AfterRecovery, Goes
<1>3. UNCHANGED <<lock, env, password>>
  BY DEF Retract
<1> HIDE DEF place
<1>4. \A q \in Proc \ {p} : at[q] \notin Electing
  BY <1>2 DEF ElectedMadeRecovery, Electing
<1>5. ElectedMadeRecovery' /\ RemovedIsStale'
  BY <1>1, <1>2, <1>4 DEF ElectedMadeRecovery, RemovedIsStale, Electing
<1>6. HoldersOwnTheLock' /\ WriterSawNone' /\ OnePassword'
  BY <1>1, <1>2, <1>3 DEF HoldersOwnTheLock, WriterSawNone, OnePassword, Holding
<1>7. OldIsAbandoned'
  BY <1>1, <1>2, <1>3 DEF OldIsAbandoned, Alive, File
<1> QED
  BY <1>5, <1>6, <1>7

--------------------------------------------------------------------------------

(* Reading keeps the lock; what is read resolves the caller, or leads to    *)
(* the write when there was nothing.                                        *)
LEMMA ReadEnvKeeps ==
  ASSUME EnvTypeOK, EnvInv, NEW p \in Proc, ReadEnv(p)
  PROVE  EnvInv'
<1>1. CASE env = NoPassword
  <2>1. at' = [at EXCEPT ![p] = "write"] /\ UNCHANGED password
    BY <1>1, ProcAssumption DEF ReadEnv, Goes
  <2>2. at[p] = "read" /\ UNCHANGED <<lock, recovery, env>>
    BY DEF ReadEnv
  <2> QED
    BY <1>1, <2>1, <2>2, Moving DEF Holding, Electing, Alive
<1>2. CASE env = Blank
  <2>1. at' = [at EXCEPT ![p] = "leave"] /\ UNCHANGED password
    BY <1>2, ProcAssumption DEF ReadEnv, Goes
  <2> QED
    BY <1>2, <2>1, Moving DEF ReadEnv, Holding, Electing, Alive
<1>3. CASE env # NoPassword /\ env # Blank
  <2> USE DEF EnvTypeOK, EnvInv
  <2>1. at[p] = "read" /\ at' = [at EXCEPT ![p] = "leave"]
    BY <1>3 DEF ReadEnv, Goes
  <2>2. password' = [password EXCEPT ![p] = env] /\ UNCHANGED <<lock, recovery, env>>
    BY <1>3 DEF ReadEnv, Resolves
  <2>3. HoldersOwnTheLock' /\ WriterSawNone'
    BY <2>1, <2>2 DEF HoldersOwnTheLock, WriterSawNone, Holding
  <2>4. ElectedMadeRecovery' /\ RemovedIsStale'
    BY <2>1, <2>2 DEF ElectedMadeRecovery, RemovedIsStale, Electing, IsStale, Alive, File
  <2>5. OnePassword'
    BY <2>2 DEF OnePassword
  <2>6. OldIsAbandoned'
    BY <2>1, <2>2 DEF OldIsAbandoned, Alive, File
  <2> QED
    BY <2>3, <2>4, <2>5, <2>6
<1> QED
  BY <1>1, <1>2, <1>3

(* The only writer finds no password, so nobody has got one before.         *)
LEMMA WriteEnvKeeps ==
  ASSUME EnvTypeOK, EnvInv, NEW p \in Proc, WriteEnv(p)
  PROVE  EnvInv'
<1> USE DEF EnvTypeOK, EnvInv
<1>1. at[p] = "write" /\ env = NoPassword /\ at' = [at EXCEPT ![p] = "leave"]
  BY DEF WriteEnv, WriterSawNone, Goes
<1>2. env' = p /\ password' = [password EXCEPT ![p] = p] /\ UNCHANGED <<lock, recovery>>
  BY DEF WriteEnv, Resolves
<1>3. \A q \in Proc : password[q] = NoPassword
  BY <1>1 DEF OnePassword
<1>4. \A q \in Proc \ {p} : at[q] # "write"
  BY <1>1 DEF HoldersOwnTheLock, Holding
<1>5. OnePassword'
  BY <1>2, <1>3 DEF OnePassword
<1>6. HoldersOwnTheLock' /\ WriterSawNone'
  BY <1>1, <1>2, <1>4 DEF HoldersOwnTheLock, WriterSawNone, Holding
<1>7. ElectedMadeRecovery' /\ RemovedIsStale'
  BY <1>1, <1>2 DEF ElectedMadeRecovery, RemovedIsStale, Electing, IsStale, Alive, File
<1>8. OldIsAbandoned'
  BY <1>1, <1>2 DEF OldIsAbandoned, Alive, File
<1> QED
  BY <1>5, <1>6, <1>7, <1>8

LEMMA StartKeeps ==
  ASSUME EnvTypeOK, EnvInv, NEW p \in Proc, Start(p)
  PROVE  EnvInv'
<1> USE DEF EnvTypeOK, EnvInv
<1> DEFINE place == CASE env = NoPassword -> "open" [] env = Blank -> "failed" [] OTHER -> "done"
<1>1. at[p] = "idle" /\ at' = [at EXCEPT ![p] = place] /\ UNCHANGED <<lock, recovery, env>>
  BY ProcAssumption DEF Start, Goes
<1>2. place \in {"open", "failed", "done"}
  BY ProcAssumption
<1> HIDE DEF place
<1>3. password' = password \/ password' = [password EXCEPT ![p] = env]
  BY DEF Start
<1>4. OnePassword'
  BY <1>1, <1>3 DEF OnePassword
<1>5. HoldersOwnTheLock' /\ WriterSawNone'
  BY <1>1, <1>2 DEF HoldersOwnTheLock, WriterSawNone, Holding
<1>6. ElectedMadeRecovery' /\ RemovedIsStale'
  BY <1>1, <1>2 DEF ElectedMadeRecovery, RemovedIsStale, Electing, IsStale, Alive, File
<1>7. OldIsAbandoned'
  BY <1>1, <1>2 DEF OldIsAbandoned, Alive, File
<1> QED
  BY <1>4, <1>5, <1>6, <1>7

(* A lock that could not be signed stays unsigned, or goes: its process has *)
(* failed either way.                                                       *)
LEMMA SignFailsKeeps ==
  ASSUME EnvTypeOK, EnvInv, NEW p \in Proc, SignFails(p)
  PROVE  EnvInv'
<1>1. at[p] = "sign" /\ at' = [at EXCEPT ![p] = "failed"] /\ UNCHANGED <<recovery, env, password>>
  BY DEF SignFails, Goes
<1>2. CASE lock' = lock
  <2>1. UNCHANGED <<lock, recovery, env, password>> /\ Alive(p)
    BY <1>1, <1>2 DEF Alive
  <2>2. "failed" \notin Holding \cup Electing
    BY DEF Holding, Electing
  <2> QED
    BY <1>1, <2>1, <2>2, Moving
<1>3. CASE lock' = NoFile
  BY <1>1, <1>3, Letting DEF Holding
<1> QED
  BY <1>2, <1>3 DEF SignFails

LEMMA AgeKeeps ==
  ASSUME EnvTypeOK, EnvInv, Age
  PROVE  EnvInv'
<1> USE DEF EnvTypeOK, EnvInv
<1> DEFINE k == [lock EXCEPT !.old = TRUE]
<1>1. lock # NoFile /\ ~lock.signed /\ ~lock.old /\ ~Alive(lock.by)
  BY DEF Age
<1>2. k.by = lock.by /\ k.signed = lock.signed /\ k \in File
  BY <1>1 DEF File
<1>3. lock' = k /\ UNCHANGED <<recovery, env, at, password>>
  BY DEF Age
<1> HIDE DEF k
<1>4. ~IsStale
  BY <1>1 DEF IsStale
<1>5. \A q \in Proc : at[q] \notin Holding
  BY <1>1 DEF HoldersOwnTheLock, Alive, Holding
<1>6. HoldersOwnTheLock' /\ WriterSawNone' /\ ElectedMadeRecovery' /\ OnePassword'
  BY <1>3, <1>5 DEF HoldersOwnTheLock, WriterSawNone, ElectedMadeRecovery, OnePassword, Holding
<1>7. RemovedIsStale'
  BY <1>3, <1>4 DEF RemovedIsStale
<1>8. OldIsAbandoned'
  BY <1>1, <1>2, <1>3 DEF OldIsAbandoned, Alive
<1> QED
  BY <1>6, <1>7, <1>8

--------------------------------------------------------------------------------

THEOREM EnvInvariant == EnvSpec => []EnvInv
<1>1. EnvInit => EnvInv
  BY DEF EnvInit, EnvInv, HoldersOwnTheLock, ElectedMadeRecovery, OldIsAbandoned,
    RemovedIsStale, WriterSawNone, OnePassword, Holding, Electing
<1>2. EnvTypeOK /\ EnvInv /\ [EnvNext]_envVars => EnvInv'
  <2> SUFFICES ASSUME EnvTypeOK, EnvInv, [EnvNext]_envVars PROVE EnvInv'
    OBVIOUS
  <2>1. ASSUME NEW p \in Proc, Step(p) PROVE EnvInv'
    <3> USE DEF Holding, Electing, Alive, Goes
    <3>1. CASE Look(p)
      <4> DEFINE place == IF IsStale THEN "elect" ELSE IF late[p] THEN "failed" ELSE "open"
      <4>1. at' = [at EXCEPT ![p] = place] /\ place \in {"elect", "failed", "open"}
        BY <3>1 DEF Look
      <4> HIDE DEF place
      <4> QED
        BY <3>1, <4>1, Moving DEF Look
    <3>2. CASE Recheck(p)
      <4> DEFINE place == IF IsStale THEN "remove" ELSE "concede"
      <4>1. at' = [at EXCEPT ![p] = place] /\ place \in {"remove", "concede"}
        BY <3>2 DEF Recheck
      <4>2. place = "remove" => IsStale
        OBVIOUS
      <4> HIDE DEF place
      <4> QED
        BY <3>2, <4>1, <4>2, Moving DEF Recheck
    <3>3. CASE Concede(p)
      <4> DEFINE place == IF Owns(recovery, p) THEN "retract" ELSE IF failing[p] THEN "failed" ELSE "open"
      <4>1. at' = [at EXCEPT ![p] = place] /\ place \in {"retract", "failed", "open"}
        BY <3>3 DEF Concede, AfterRecovery
      <4> HIDE DEF place
      <4> QED
        BY <3>3, <4>1, Moving DEF Concede
    <3>4. CASE Leave(p)
      <4> DEFINE place == IF Owns(lock, p) THEN "unlock" ELSE IF failing[p] THEN "failed" ELSE "done"
      <4>1. at' = [at EXCEPT ![p] = place] /\ place \in {"unlock", "failed", "done"}
        BY <3>4 DEF Leave, Finished
      <4> HIDE DEF place
      <4> QED
        BY <3>4, <4>1, Moving DEF Leave
    <3>5. CASE Unlock(p)
      <4> DEFINE place == IF failing[p] THEN "failed" ELSE "done"
      <4>1. at' = [at EXCEPT ![p] = place] /\ place \in {"failed", "done"}
        BY <3>5 DEF Unlock, Finished
      <4> HIDE DEF place
      <4> QED
        BY <3>5, <4>1, Letting DEF Unlock
    <3> QED
      BY <2>1, <3>1, <3>2, <3>3, <3>4, <3>5, OpenLockKeeps, SignLockKeeps, ElectKeeps,
        SignRecoveryKeeps, RemoveStaleKeeps, RetractKeeps, ReadEnvKeeps, WriteEnvKeeps DEF Step
  <2>2. ASSUME NEW p \in Proc, StepFails(p) PROVE EnvInv'
    <3> USE DEF Holding, Electing, Alive, Goes, Waiting
    <3>1. UNCHANGED <<lock, recovery, env, password>>
      BY <2>2 DEF StepFails
    <3>2. CASE at' = [at EXCEPT ![p] = "failed"]
      BY <3>1, <3>2, Moving
    <3>3. CASE at[p] \in {"sign_recovery", "recheck", "remove"} /\ at' = [at EXCEPT ![p] = "concede"]
      <4>1. at[p] \in Electing /\ "concede" \notin Holding /\ Alive(p)
        BY <3>3
      <4> QED
        BY <3>1, <3>3, <4>1, Moving
    <3>4. CASE at[p] \in {"read", "write"} /\ at' = [at EXCEPT ![p] = "leave"]
      <4>1. at[p] \in Holding \ {"sign"} /\ "leave" \notin Electing /\ Alive(p)
        BY <3>4
      <4> QED
        BY <3>1, <3>4, <4>1, Moving
    <3> QED
      BY <2>2, <3>2, <3>3, <3>4 DEF StepFails
  <2>3. ASSUME NEW p \in Proc, Crash(p) PROVE EnvInv'
    BY <2>3, Moving DEF Crash, Goes, Holding, Electing, Over, Alive
  <2>4. ASSUME NEW p \in Proc, Deadline(p) PROVE EnvInv'
    BY <2>4 DEF Deadline, EnvInv, HoldersOwnTheLock, ElectedMadeRecovery, OldIsAbandoned,
      RemovedIsStale, WriterSawNone, OnePassword, IsStale, Alive
  <2>5. CASE UNCHANGED envVars
    BY <2>5 DEF envVars, EnvInv, HoldersOwnTheLock, ElectedMadeRecovery, OldIsAbandoned,
      RemovedIsStale, WriterSawNone, OnePassword, IsStale, Alive
  <2> QED
    BY <2>1, <2>2, <2>3, <2>4, <2>5, StartKeeps, SignFailsKeeps, AgeKeeps DEF EnvNext
<1> QED
  BY <1>1, <1>2, EnvTyping, PTL DEF EnvSpec

(* OnePassword, for any number of processes and wherever any of them fails  *)
(* or dies (ensureEnvVariableAtomic, envFile.ts:213-251).                   *)
THEOREM EveryonesPassword == EnvSpec => []OnePassword
BY EnvInvariant, PTL DEF EnvInv

(* The lock is exclusive: two processes are never past it together          *)
(* (acquireLock, envFile.ts:128-171).                                       *)
THEOREM LockIsExclusive ==
  EnvSpec => [](\A p, q \in Proc : at[p] \in Holding /\ at[q] \in Holding => p = q)
<1>1. EnvInv => \A p, q \in Proc : at[p] \in Holding /\ at[q] \in Holding => p = q
  BY DEF EnvInv, HoldersOwnTheLock
<1> QED
  BY <1>1, EnvInvariant, PTL

================================================================================
