----------------------------- MODULE MCBotManager -----------------------------
(* The instances of BotManager that TLC explores. *)
EXTENDS BotManager, TLC

\* Ids, handles and calls are only compared with each other.
Symmetry == Permutations(Id) \cup Permutations(Handle) \cup Permutations(Call)

===============================================================================
