----------------------------- MODULE InstanceQueue -----------------------------
(***************************************************************************)
(* A bot instance as BotManager uses it: is it active, and which calls are *)
(* still on its promise chain.  BotInstance implements this module, and    *)
(* every handle of BotManager behaves like it, so what is shown of the     *)
(* manager holds with the real instances in place.                         *)
(*                                                                         *)
(* A sign-in is "stale" once it was cancelled: it no longer counts as      *)
(* authenticating, but keeps its place on the chain.                       *)
(***************************************************************************)
EXTENDS Sequences, Naturals

VARIABLES active, running, waiting

vars == <<active, running, waiting>>

SignIns == {"sign_in", "stale"}

Init == ~active /\ running = "none" /\ waiting = <<>>

Authenticating == running = "sign_in" \/ \E k \in 1..Len(waiting) : waiting[k] = "sign_in"

Cancelled(kind) == IF kind = "sign_in" THEN "stale" ELSE kind

--------------------------------------------------------------------------------
(* Calls: what passes its synchronous guard takes its place on the chain. *)

Enqueue(kind) == waiting' = Append(waiting, kind) /\ UNCHANGED <<active, running>>

Connect      == ~Authenticating /\ Enqueue("connect")
Disconnect   == Enqueue("disconnect")
Authenticate == ~active /\ ~Authenticating /\ Enqueue("sign_in")

CancelAuthentication ==
  /\ Authenticating
  /\ running' = Cancelled(running)
  /\ waiting' = [k \in 1..Len(waiting) |-> Cancelled(waiting[k])]
  /\ UNCHANGED active

(* The chain: one operation at a time, in the order of the calls. *)

Take(kind) == /\ running = "none" /\ waiting # <<>> /\ Head(waiting) = kind
              /\ waiting' = Tail(waiting)

Begins(kind) == Take(kind) /\ running' = kind /\ UNCHANGED active

ConnectBegins ==
  /\ Take("connect") /\ ~active /\ ~Authenticating
  /\ running' = "connect" /\ active' = TRUE

ConnectRefused    == Take("connect") /\ (active \/ Authenticating) /\ UNCHANGED <<active, running>>
DisconnectBegins  == active /\ Begins("disconnect")
DisconnectAtOnce  == Take("disconnect") /\ active /\ active' = FALSE /\ UNCHANGED running
DisconnectRefused == Take("disconnect") /\ ~active /\ UNCHANGED <<active, running>>
SignInBegins      == Begins("sign_in")
StaleSkipped      == Take("stale") /\ UNCHANGED <<active, running>>

Ends(kinds) == running \in kinds /\ running' = "none" /\ UNCHANGED waiting

ConnectEnds    == Ends({"connect"}) /\ active' \in {active, FALSE}
DisconnectEnds == Ends({"disconnect"}) /\ active' = FALSE
SignInEnds     == Ends(SignIns) /\ UNCHANGED active

\* The connection ends for good: a fatal error, or a disconnect's own 'end'.
Lost == active /\ running # "connect" /\ active' = FALSE /\ UNCHANGED <<running, waiting>>

--------------------------------------------------------------------------------

Calls == Connect \/ Disconnect \/ Authenticate \/ CancelAuthentication

Operations ==
  \/ ConnectBegins \/ ConnectRefused \/ ConnectEnds
  \/ DisconnectBegins \/ DisconnectAtOnce \/ DisconnectRefused \/ DisconnectEnds
  \/ SignInBegins \/ StaleSkipped \/ SignInEnds

Next == Calls \/ Operations \/ Lost

\* Every operation, once its turn has come, settles.
Spec == Init /\ [][Next]_vars /\ WF_vars(Operations)

================================================================================
