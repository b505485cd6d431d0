--------------------------------- MODULE Journal ---------------------------------
(***************************************************************************)
(* What a LogStore promises to its readers: one growing list of entries    *)
(* for every day.  Rotation, compression and restarts never delete, change *)
(* or reorder what was written ("Rotation and compression never delete     *)
(* history", docs/web.md).                                                 *)
(***************************************************************************)
EXTENDS Sequences

CONSTANTS
  Day,    \* calendar days
  Entry   \* log entries; each is written once

VARIABLE days

Written == UNION {{days[d][k] : k \in DOMAIN days[d]} : d \in Day}

Init == days \in [Day -> Seq(Entry)]

\* An entry joins the end of one day.
Record(d, e) ==
  /\ days' = [days EXCEPT ![d] = Append(@, e)]
  /\ e \notin Written

Next == \E d \in Day, e \in Entry : Record(d, e)

Spec == Init /\ [][Next]_days

===============================================================================
