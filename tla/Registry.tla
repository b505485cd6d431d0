------------------------------- MODULE Registry -------------------------------
(***************************************************************************)
(* What BotManager promises about bots.config.json: a durable map from ids *)
(* to configs that is only ever changed one entry at a time.               *)
(***************************************************************************)
CONSTANTS Id, Config, NoConfig

VARIABLE registry

Init == registry \in [Id -> Config \cup {NoConfig}]

Add(i, c)    == registry[i] = NoConfig /\ registry' = [registry EXCEPT ![i] = c]
Update(i, c) == registry[i] # NoConfig /\ registry' = [registry EXCEPT ![i] = c]
Remove(i)    == registry' = [registry EXCEPT ![i] = NoConfig]

Next == \E i \in Id : Remove(i) \/ \E c \in Config : Add(i, c) \/ Update(i, c)

Spec == Init /\ [][Next]_registry
================================================================================
