---------------------------- MODULE MCBotInstance ----------------------------
(* The instances of BotInstance that TLC explores. *)
EXTENDS BotInstance, TLC

\* Bot objects and attempts are only compared with each other.
Symmetry == Permutations(Bot) \cup Permutations(Attempt)

==============================================================================
