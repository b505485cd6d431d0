--------------------------- MODULE InstanceLifecycle ---------------------------
(***************************************************************************)
(* What an instance handle promises to BotManager and to the web panel     *)
(* (interfaces/bot-instance.ts): the status a control surface shows always *)
(* agrees with what the instance is doing about its connection.            *)
(*                                                                         *)
(* `link' is that activity: "none" (nothing is open and nothing will be),  *)
(* "live" (one connection), "retry" (a reconnect is scheduled).            *)
(***************************************************************************)

VARIABLES status, link

vars == <<status, link>>

Statuses == {"disconnected", "connecting", "online", "reconnecting", "errored"}
Active   == {"connecting", "online", "reconnecting"}
Inactive == Statuses \ Active
Links    == {"none", "live", "retry"}

Init == status = "disconnected" /\ link = "none"

Start  == status \in Inactive /\ status' = "connecting" /\ UNCHANGED link

\* The connection of a start, or the reason there will be none.
Open   == status = "connecting" /\ link = "none" /\ link' = "live" /\ UNCHANGED status
Fail   == status = "connecting" /\ link = "none" /\ status' = "errored" /\ UNCHANGED link

Join   == status \in {"connecting", "reconnecting"} /\ link = "live"
          /\ status' = "online" /\ UNCHANGED link

\* A lost connection is retried, unless retrying is pointless.
Drop   == link = "live" /\ status' = "reconnecting" /\ link' = "retry"
Refuse == link = "live" /\ status' = "errored" /\ link' = "none"
Retry  == link = "retry" /\ link' = "live" /\ UNCHANGED status

\* A requested disconnect: nothing is open or scheduled afterwards.
Stop   == link # "none" /\ status' = "disconnected" /\ link' = "none"

Next == Start \/ Open \/ Fail \/ Join \/ Drop \/ Refuse \/ Retry \/ Stop

\* A start always gets its verdict and a scheduled retry is always made.
Spec == Init /\ [][Next]_vars /\ WF_vars(Open \/ Fail) /\ WF_vars(Retry)

================================================================================
