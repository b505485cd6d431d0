--------------------------------- MODULE Storage ---------------------------------
(***************************************************************************)
(* What an instance keeps on disk, side by side: the roles, homes and      *)
(* cooldowns of the chat services, and the log directory.  They are        *)
(* separate files behind separate modules and share no state, so a         *)
(* behaviour follows one of them and no interleaving is lost; the other    *)
(* stays as it began.  The properties are those of the two modules.        *)
(***************************************************************************)
EXTENDS ChatServices, LogStore

VARIABLE moving  \* the component this behaviour follows

vars == <<moving, chatVars, storeVars>>

TypeOK == moving \in {"chat", "store"} /\ ChatTypeOK /\ StoreTypeOK

\* How a component begins that stays as it began does not matter.
Init ==
  /\ moving \in {"chat", "store"} /\ ChatInit /\ StoreInit
  /\ moving = "store" => roles = CHOOSE r \in StoredRoles : TRUE

Next ==
  /\ UNCHANGED moving
  /\ \/ moving = "chat" /\ ChatNext /\ UNCHANGED storeVars
     \/ moving = "store" /\ StoreNext /\ UNCHANGED chatVars

Spec == Init /\ [][Next]_vars

===============================================================================
