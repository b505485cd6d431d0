----------------------------- MODULE ChatServicesProofs -----------------------------
(***************************************************************************)
(* For any players, groups, commands and cooldowns, and any length of run: *)
(* nobody gains a rank no admin gave, overlapping saves lose nothing that  *)
(* is not remembered as unsaved, and no use of a command comes early.      *)
(***************************************************************************)
EXTENDS ChatServices, TLAPS

\* What a record must be for nobody to have been promoted behind an admin's back.
Harmless(r, promoted) == r.operators \subseteq promoted /\ r.blacklist \cap Admins = {}

(* Whatever !access does to the roles, it saves what it leaves in memory,   *)
(* and neither promotes past the history nor blacklists an admin.           *)
LEMMA AccessIsHarmless ==
  ASSUME ChatTypeOK, NoEscalation, NEW a \in Player, Access(a)
  PROVE  \E r \in Roles : /\ Becomes(r) /\ Harmless(r, granted')
                          /\ granted \subseteq granted' /\ granted' \subseteq Player
<1>0. roles \in Roles /\ Harmless(roles, granted) /\ granted \subseteq Player
  BY DEF ChatTypeOK, NoEscalation, Known, Harmless
<1>1. ASSUME NEW t \in Player, ChangeRole(a, t)
      PROVE  \E r \in Roles : /\ Becomes(r) /\ Harmless(r, granted')
                              /\ granted \subseteq granted' /\ granted' \subseteq Player
  <2>1. CASE GrantOperator(a, t)
    <3> DEFINE r == [roles EXCEPT !.members = @ \ {t}, !.operators = @ \cup {t}]
    <3>1. r \in Roles /\ r.operators = roles.operators \cup {t} /\ r.blacklist = roles.blacklist
      BY <1>0 DEF Roles
    <3>2. Becomes(r) /\ granted' = granted \cup {t}
      BY <2>1 DEF GrantOperator
    <3> HIDE DEF r
    <3> QED
      BY <1>0, <3>1, <3>2 DEF Harmless
  <2>2. CASE RevokeOperator(a, t)
    <3> DEFINE r == [roles EXCEPT !.operators = @ \ {t}]
    <3>1. r \in Roles /\ r.operators = roles.operators \ {t} /\ r.blacklist = roles.blacklist
      BY <1>0 DEF Roles
    <3>2. Becomes(r) /\ granted' = granted
      BY <2>2 DEF RevokeOperator
    <3> HIDE DEF r
    <3> QED
      BY <1>0, <3>1, <3>2 DEF Harmless
  <2>3. CASE AddMember(a, t)
    <3> DEFINE r == [roles EXCEPT !.members = @ \cup {t}]
    <3>1. r \in Roles /\ r.operators = roles.operators /\ r.blacklist = roles.blacklist
      BY <1>0 DEF Roles
    <3>2. Becomes(r) /\ granted' = granted
      BY <2>3 DEF AddMember
    <3> HIDE DEF r
    <3> QED
      BY <1>0, <3>1, <3>2 DEF Harmless
  <2>4. CASE RemoveMember(a, t)
    <3> DEFINE r == [roles EXCEPT !.members = @ \ {t}]
    <3>1. r \in Roles /\ r.operators = roles.operators /\ r.blacklist = roles.blacklist
      BY <1>0 DEF Roles
    <3>2. Becomes(r) /\ granted' = granted
      BY <2>4 DEF RemoveMember
    <3> HIDE DEF r
    <3> QED
      BY <1>0, <3>1, <3>2 DEF Harmless
  <2>5. CASE AddToBlacklist(a, t)
    <3> DEFINE r == [roles EXCEPT !.blacklist = @ \cup {t}]
    <3>1. r \in Roles /\ r.operators = roles.operators /\ r.blacklist = roles.blacklist \cup {t}
      BY <1>0 DEF Roles
    <3>2. Becomes(r) /\ granted' = granted /\ t \notin Admins
      BY <2>5 DEF AddToBlacklist, MayTouch, LevelOf
    <3> HIDE DEF r
    <3> QED
      BY <1>0, <3>1, <3>2 DEF Harmless
  <2>6. CASE RemoveFromBlacklist(a, t)
    <3> DEFINE r == [roles EXCEPT !.blacklist = @ \ {t}]
    <3>1. r \in Roles /\ r.operators = roles.operators /\ r.blacklist = roles.blacklist \ {t}
      BY <1>0 DEF Roles
    <3>2. Becomes(r) /\ granted' = granted
      BY <2>6 DEF RemoveFromBlacklist
    <3> HIDE DEF r
    <3> QED
      BY <1>0, <3>1, <3>2 DEF Harmless
  <2> QED
    BY <1>1, <2>1, <2>2, <2>3, <2>4, <2>5, <2>6 DEF ChangeRole
<1>2. ASSUME NEW g \in Group, ChangeGroup(a, g)
      PROVE  \E r \in Roles : /\ Becomes(r) /\ Harmless(r, granted')
                              /\ granted \subseteq granted' /\ granted' \subseteq Player
  <2>1. ASSUME NEW m \in Membership \cup {NoGroup}, Regroups(g, m)
        PROVE  \E r \in Roles : /\ Becomes(r) /\ Harmless(r, granted')
                                /\ granted \subseteq granted' /\ granted' \subseteq Player
    <3> DEFINE r == [roles EXCEPT !.groups[g] = m]
    <3>1. r \in Roles /\ r.operators = roles.operators /\ r.blacklist = roles.blacklist
      BY <1>0 DEF Roles
    <3>2. Becomes(r) /\ granted' = granted
      BY <2>1 DEF Regroups
    <3> HIDE DEF r
    <3> QED
      BY <1>0, <3>1, <3>2 DEF Harmless
  <2>2. roles.groups[g] # NoGroup =>
          /\ roles.groups[g].members \subseteq Player /\ roles.groups[g].commands \subseteq Command
    BY <1>0 DEF Roles, Membership
  <2>3. CASE CreateGroup(a, g)
    BY <2>1, <2>3 DEF CreateGroup, Membership
  <2>4. CASE DeleteGroup(a, g)
    BY <2>1, <2>4 DEF DeleteGroup
  <2>5. ASSUME NEW new \in Group, RenameGroup(a, g, new)
        PROVE  \E r \in Roles : /\ Becomes(r) /\ Harmless(r, granted')
                                /\ granted \subseteq granted' /\ granted' \subseteq Player
    <3> DEFINE gs == [roles.groups EXCEPT ![g] = NoGroup, ![new] = roles.groups[g]]
               r  == [roles EXCEPT !.groups = gs]
    <3>1. gs \in [Group -> Membership \cup {NoGroup}]
      BY <1>0 DEF Roles
    <3>2. Becomes(r) /\ granted' = granted
      BY <2>5 DEF RenameGroup
    <3> HIDE DEF gs
    <3>3. r \in Roles /\ r.operators = roles.operators /\ r.blacklist = roles.blacklist
      BY <1>0, <3>1 DEF Roles
    <3> HIDE DEF r
    <3> QED
      BY <1>0, <3>2, <3>3 DEF Harmless
  <2>6. ASSUME NEW t \in Player, AddGroupMember(a, g, t) \/ RemoveGroupMember(a, g, t)
        PROVE  \E r \in Roles : /\ Becomes(r) /\ Harmless(r, granted')
                                /\ granted \subseteq granted' /\ granted' \subseteq Player
    BY <2>1, <2>2, <2>6 DEF AddGroupMember, RemoveGroupMember, Membership
  <2>7. ASSUME NEW c \in Command, AddGroupCommand(a, g, c) \/ RemoveGroupCommand(a, g, c)
        PROVE  \E r \in Roles : /\ Becomes(r) /\ Harmless(r, granted')
                                /\ granted \subseteq granted' /\ granted' \subseteq Player
    BY <2>1, <2>2, <2>7 DEF AddGroupCommand, RemoveGroupCommand, Membership
  <2> QED
    BY <1>2, <2>3, <2>4, <2>5, <2>6, <2>7 DEF ChangeGroup
<1> QED
  BY <1>1, <1>2 DEF Access

--------------------------------------------------------------------------------
(* What a save that shares groups with the services carries of a change:    *)
(* groups, and nothing else.                                                *)
LEMMA CarriedIsSave ==
  ASSUME NEW s \in Save, NEW r \in Roles
  PROVE  /\ Carried(s, r) \in Save /\ Carried(s, r).store = s.store
         /\ s.store = "homes" => Carried(s, r) = s
         /\ s.store = "access" => /\ Carried(s, r).data.operators = s.data.operators
                                  /\ Carried(s, r).data.blacklist = s.data.blacklist
<1>1. CASE s.shared = {}
  BY <1>1 DEF Carried
<1>2. CASE s.shared # {}
  <2> DEFINE live == {g \in s.shared : r.groups[g] # NoGroup}
             gs   == [g \in Group |-> IF g \in live THEN r.groups[g] ELSE s.data.groups[g]]
             data == [s.data EXCEPT !.groups = gs]
  <2>1. s \in [id : 1..MaxMessages, store : {"access"}, data : Roles, shared : SUBSET Group]
    BY <1>2 DEF Save
  <2>2. gs \in [Group -> Membership \cup {NoGroup}] /\ live \in SUBSET Group
    BY <2>1 DEF Roles
  <2>3. Carried(s, r) = [s EXCEPT !.data = data, !.shared = live]
    BY <1>2 DEF Carried
  <2> HIDE DEF gs, live
  <2>4. data \in Roles /\ data.operators = s.data.operators /\ data.blacklist = s.data.blacklist
    BY <2>1, <2>2 DEF Roles
  <2> HIDE DEF data
  <2>5. LET t == [s EXCEPT !.data = data, !.shared = live] IN
          /\ t \in [id : 1..MaxMessages, store : {"access"}, data : Roles, shared : SUBSET Group]
          /\ t.store = s.store /\ t.data = data
    BY <2>1, <2>2, <2>4
  <2> QED
    BY <2>1, <2>2, <2>3, <2>4, <2>5 DEF Save
<1> QED
  BY <1>1, <1>2

LEMMA AloneIsSave ==
  ASSUME NEW s \in Save
  PROVE  Alone(s) \in Save /\ Alone(s).store = s.store /\ Alone(s).data = s.data
BY DEF Alone, Save

(* What is on its way after a change of the roles.                          *)
LEMMA SavesAfterChange ==
  ASSUME ChatTypeOK, NEW r \in Roles, Becomes(r), messages + 1 \in 1..MaxMessages
  PROVE  /\ saves' \subseteq Save /\ unsaved' \subseteq {"access", "homes"}
         /\ InFlight("homes")' = InFlight("homes")
         /\ InFlight("access") = {} => \E new \in saves' : InFlight("access")' = {new} /\ new.data = r
         /\ \A t \in InFlight("access")' :
              \/ t.data = r
              \/ \E s \in InFlight("access") : /\ t.data.operators = s.data.operators
                                              /\ t.data.blacklist = s.data.blacklist
<1> DEFINE shared  == {g \in Group : r.groups[g] # NoGroup}
           new     == [id |-> messages + 1, store |-> "access", data |-> r, shared |-> shared]
           earlier == {Carried(s, r) : s \in saves}
<1>1. new \in Save /\ new.store = "access" /\ new.data = r
  BY DEF Save
<1>2. saves' = earlier \cup {new}
      /\ unsaved' = IF InFlight("access") = {} THEN unsaved \ {"access"} ELSE unsaved \cup {"access"}
  BY DEF Becomes, Saves, Begins
<1> HIDE DEF new
<1>3. saves \subseteq Save
  BY DEF ChatTypeOK
<1>4. \A s \in saves : Carried(s, r) \in Save /\ Carried(s, r).store = s.store
                       /\ (s.store = "homes" => Carried(s, r) = s)
  BY <1>3, CarriedIsSave
<1>5. saves' \subseteq Save /\ unsaved' \subseteq {"access", "homes"}
  BY <1>1, <1>2, <1>4 DEF ChatTypeOK
<1>6. InFlight("homes")' = InFlight("homes")
  BY <1>1, <1>2, <1>4 DEF InFlight
<1>7. InFlight("access") = {} => InFlight("access")' = {new} /\ new \in saves'
  BY <1>1, <1>2, <1>4 DEF InFlight
<1>8. ASSUME NEW t \in InFlight("access")', t # new
      PROVE  \E s \in InFlight("access") : /\ t.data.operators = s.data.operators
                                          /\ t.data.blacklist = s.data.blacklist
  <2>1. PICK s \in saves : t = Carried(s, r)
    BY <1>2, <1>8 DEF InFlight
  <2>2. s \in InFlight("access")
    BY <1>4, <1>8, <2>1 DEF InFlight
  <2> QED
    BY <1>3, <2>1, <2>2, CarriedIsSave DEF InFlight
<1> QED
  BY <1>1, <1>5, <1>6, <1>7, <1>8

--------------------------------------------------------------------------------
(* Typing: also the files and what is on its way to them are whole records. *)

LEMMA RecordUseTyping ==
  ASSUME ChatTypeOK, NEW a \in Player, NEW c \in Command, UseCommand(a, c)
  PROVE  /\ playerExpiry' \in [Command -> [Player -> Nat]] /\ globalExpiry' \in [Command -> Nat]
         /\ used' \in [Command -> [Player -> 0..(MaxTime + 1)]]
<1> USE DEF ChatTypeOK
<1>0. now \in Nat /\ now \in 0..(MaxTime + 1) /\ PerPlayer[c] \in Nat /\ Global[c] \in Nat
  BY AccessAssumption
<1>1. \A n \in Nat : Swept(n) \in Nat
  BY DEF Swept
<1>2. playerExpiry' \in [Command -> [Player -> Nat]]
  <2>1. \A d \in Command, p \in Player :
          (IF d = c /\ p = a /\ PerPlayer[c] > 0 THEN now + PerPlayer[c] ELSE playerExpiry[d][p]) \in Nat
    BY <1>0
  <2> QED
    BY <1>1, <2>1 DEF UseCommand, RecordUse
<1>3. globalExpiry' \in [Command -> Nat]
  <2>1. \A d \in Command : (IF d = c /\ Global[c] > 0 THEN now + Global[c] ELSE globalExpiry[d]) \in Nat
    BY <1>0
  <2> QED
    BY <1>1, <2>1 DEF UseCommand, RecordUse
<1>4. used' \in [Command -> [Player -> 0..(MaxTime + 1)]]
  BY <1>0 DEF UseCommand
<1> QED
  BY <1>2, <1>3, <1>4

LEMMA NoTimersTyping ==
  /\ NoTimers \in [Command -> [Player -> Nat]] /\ NoTimers \in [Command -> [Player -> 0..(MaxTime + 1)]]
  /\ [c \in Command |-> 0] \in [Command -> Nat]
BY AccessAssumption DEF NoTimers

(* What a message changes: the roles and a save of them, the homes and a    *)
(* save of them, or the cooldowns.                                          *)
LEMMA SaysTyping ==
  ASSUME ChatTypeOK, NoEscalation, NEW a \in Player, Says(a)
  PROVE  ChatTypeOK'
<1> USE DEF ChatTypeOK
<1>0. messages + 1 \in 1..MaxMessages /\ messages' = messages + 1
  BY AccessAssumption DEF Says
<1>1. CASE Access(a)
  <2>1. PICK r \in Roles : Becomes(r) /\ granted' \subseteq Player
    BY <1>1, AccessIsHarmless
  <2>2. saves' \subseteq Save /\ unsaved' \subseteq {"access", "homes"}
    BY <1>0, <2>1, SavesAfterChange
  <2> QED
    BY <1>0, <2>1, <2>2 DEF Becomes, Saves, Begins, cooldowns
<1>2. ASSUME NEW place \in Location, SetHome(a, place) PROVE ChatTypeOK'
  <2> DEFINE h == [homes EXCEPT ![a] = place]
  <2>1. h \in Homes
    BY DEF Homes
  <2>2. homes' = h /\ Begins("homes", h, {}, saves) /\ UNCHANGED <<roles, granted, cooldowns>>
    BY <1>2 DEF SetHome
  <2> HIDE DEF h
  <2>3. [id |-> messages + 1, store |-> "homes", data |-> h, shared |-> {}] \in Save
    BY <1>0, <2>1 DEF Save
  <2>4. saves' \subseteq Save /\ unsaved' \subseteq {"access", "homes"}
    BY <2>2, <2>3 DEF Begins
  <2> QED
    BY <1>0, <2>1, <2>2, <2>4 DEF Begins, cooldowns
<1>3. ASSUME NEW c \in Command, UseCommand(a, c) PROVE ChatTypeOK'
  <2>1. UNCHANGED <<roles, homes, files, saves, now, granted, unsaved>>
    BY <1>3 DEF UseCommand
  <2>2. messages' \in 0..MaxMessages
    BY <1>0
  <2>3. /\ playerExpiry' \in [Command -> [Player -> Nat]] /\ globalExpiry' \in [Command -> Nat]
        /\ used' \in [Command -> [Player -> 0..(MaxTime + 1)]]
    BY <1>3, RecordUseTyping
  <2> QED
    BY <2>1, <2>2, <2>3
<1> QED
  BY <1>1, <1>2, <1>3 DEF Says

LEMMA RenamedTyping ==
  ASSUME ChatTypeOK, NEW s \in saves
  PROVE  /\ s.store \in {"access", "homes"}
         /\ s.store = "access" => s.data \in Roles
         /\ s.store = "homes" => s.data \in Homes
         /\ [files EXCEPT ![s.store] = s.data] \in [access : Roles, homes : Homes]
<1>1. s \in Save
  BY DEF ChatTypeOK
<1>2. CASE s.store = "access"
  <2>1. s.data \in Roles
    BY <1>1, <1>2 DEF Save
  <2> QED
    BY <1>2, <2>1 DEF ChatTypeOK
<1>3. CASE s.store = "homes"
  <2>1. s.data \in Homes
    BY <1>1, <1>3 DEF Save
  <2> QED
    BY <1>3, <2>1 DEF ChatTypeOK
<1> QED
  BY <1>1, <1>2, <1>3 DEF Save

LEMMA TypingKept == ChatTypeOK /\ NoEscalation /\ [ChatNext]_chatVars => ChatTypeOK'
<1> SUFFICES ASSUME ChatTypeOK, NoEscalation, [ChatNext]_chatVars PROVE ChatTypeOK'
  OBVIOUS
<1>1. ASSUME NEW a \in Player, Says(a) PROVE ChatTypeOK'
  BY <1>1, SaysTyping
<1> USE DEF ChatTypeOK
<1>0. ASSUME NEW s \in saves, MakeText(s) PROVE ChatTypeOK'
  <2>1. Alone(s) \in Save
    BY AloneIsSave
  <2> QED
    BY <1>0, <2>1 DEF MakeText, cooldowns
<1>2. ASSUME NEW s \in saves, Renamed(s) PROVE ChatTypeOK'
  BY <1>2, RenamedTyping DEF Renamed, cooldowns
<1>3. ASSUME NEW s \in saves, SaveFails(s) PROVE ChatTypeOK'
  BY <1>3, RenamedTyping DEF SaveFails, cooldowns
<1>4. CASE Tick
  BY <1>4, AccessAssumption DEF Tick, cooldowns
<1>5. CASE Connect
  <2>1. unsaved' \subseteq {"access", "homes"}
    BY <1>5, RenamedTyping DEF Connect
  <2>2. saves' \subseteq Save
    BY <1>5, AloneIsSave DEF Connect
  <2> QED
    BY <1>5, <2>1, <2>2, NoTimersTyping DEF Connect, NewServices
<1>6. CASE Restart
  BY <1>6, NoTimersTyping DEF Restart, NewServices
<1>7. CASE UNCHANGED chatVars
  BY <1>7 DEF chatVars
<1> QED
  BY <1>0, <1>1, <1>2, <1>3, <1>4, <1>5, <1>6, <1>7 DEF ChatNext

LEMMA InitTyping == ChatInit => ChatTypeOK /\ NoEscalation
<1> SUFFICES ASSUME ChatInit PROVE ChatTypeOK /\ NoEscalation
  OBVIOUS
<1> USE AccessAssumption
<1>1. PICK r \in StoredRoles : roles = r /\ files.access = r /\ granted = r.operators
                               /\ files = [access |-> r, homes |-> [p \in Player |-> NoHome]]
  BY DEF ChatInit
<1>2. r \in Roles /\ Admins \cap r.blacklist = {}
  BY <1>1
<1>3. NoEscalation
  BY <1>1, <1>2 DEF NoEscalation, Known, InFlight, ChatInit
<1>4. granted \subseteq Player
  BY <1>1, <1>2 DEF Roles
<1>5. files \in [access : Roles, homes : Homes] /\ homes \in Homes
  BY <1>1, <1>2 DEF ChatInit, Homes
<1> QED
  BY <1>1, <1>2, <1>3, <1>4, <1>5, NoTimersTyping DEF ChatInit, ChatTypeOK

--------------------------------------------------------------------------------
(* NoEscalation *)

LEMMA EscalationKept == ChatTypeOK /\ NoEscalation /\ [ChatNext]_chatVars => NoEscalation'
<1> SUFFICES ASSUME ChatTypeOK, NoEscalation, [ChatNext]_chatVars PROVE NoEscalation'
  OBVIOUS
<1>0. \A r \in Known : Harmless(r, granted)
  BY DEF NoEscalation, Harmless
<1>1. ASSUME NEW a \in Player, Says(a), Access(a) PROVE NoEscalation'
  <2>1. PICK r \in Roles : Becomes(r) /\ Harmless(r, granted') /\ granted \subseteq granted'
    BY <1>1, AccessIsHarmless
  <2>2. messages + 1 \in 1..MaxMessages
    BY <1>1, AccessAssumption DEF Says, ChatTypeOK
  <2>3. roles' = r /\ files' = files
    BY <2>1 DEF Becomes, Saves, Begins
  <2>4. ASSUME NEW t \in InFlight("access")' PROVE Harmless(t.data, granted')
    <3>1. \/ t.data = r
          \/ \E s \in InFlight("access") : /\ t.data.operators = s.data.operators
                                          /\ t.data.blacklist = s.data.blacklist
      BY <2>1, <2>2, SavesAfterChange
    <3>2. \A s \in InFlight("access") : Harmless(s.data, granted)
      BY <1>0 DEF Known
    <3> QED
      BY <2>1, <3>1, <3>2 DEF Harmless
  <2>5. Harmless(r, granted') /\ Harmless(files.access, granted')
    BY <1>0, <2>1 DEF Known, Harmless
  <2> QED
    BY <2>3, <2>4, <2>5 DEF NoEscalation, Known, Harmless
<1>2. ASSUME NEW a \in Player, NEW place \in Location, SetHome(a, place) PROVE NoEscalation'
  BY <1>2 DEF SetHome, Begins, NoEscalation, Known, InFlight
<1>3. ASSUME NEW a \in Player, NEW c \in Command, UseCommand(a, c) PROVE NoEscalation'
  BY <1>3 DEF UseCommand, NoEscalation, Known, InFlight
<1>9. ASSUME NEW s \in saves, MakeText(s) PROVE NoEscalation'
  <2>1. Alone(s).data = s.data /\ Alone(s).store = s.store
    BY AloneIsSave DEF ChatTypeOK
  <2>2. Known' = Known /\ granted' = granted
    BY <1>9, <2>1 DEF MakeText, Known, InFlight
  <2> QED
    BY <1>0, <2>2 DEF NoEscalation, Harmless
<1>4. ASSUME NEW s \in saves, Renamed(s) PROVE NoEscalation'
  <2>1. files'.access \in Known
    BY <1>4, RenamedTyping DEF Renamed, Known, InFlight, ChatTypeOK
  <2>2. roles' = roles /\ granted' = granted /\ InFlight("access")' \subseteq InFlight("access")
    BY <1>4 DEF Renamed, InFlight
  <2> QED
    BY <1>0, <2>1, <2>2 DEF NoEscalation, Known, Harmless
<1>5. ASSUME NEW s \in saves, SaveFails(s) PROVE NoEscalation'
  BY <1>5 DEF SaveFails, NoEscalation, Known, InFlight
<1>6. CASE Tick
  BY <1>6 DEF Tick, NoEscalation, Known, InFlight
<1>7. CASE Connect
  <2>1. \A s \in saves : Alone(s).data = s.data /\ Alone(s).store = s.store
    BY AloneIsSave DEF ChatTypeOK
  <2>2. Known' \subseteq Known /\ granted' = granted
    BY <1>7, <2>1 DEF Connect, NewServices, Known, InFlight
  <2> QED
    BY <1>0, <2>2 DEF NoEscalation, Harmless
<1>10. CASE Restart
  BY <1>10 DEF Restart, NewServices, NoEscalation, Known, InFlight
<1>8. CASE UNCHANGED chatVars
  BY <1>8 DEF chatVars, NoEscalation, Known, InFlight
<1> QED
  BY <1>1, <1>2, <1>3, <1>4, <1>5, <1>6, <1>7, <1>8, <1>9, <1>10 DEF ChatNext, Says

(* Typing of the chat services (permission-service.ts:36-67,                *)
(* cooldown-service.ts:5-9): the records stay well formed.                  *)
THEOREM ChatTyping == ChatSpec => []ChatTypeOK
BY InitTyping, TypingKept, EscalationKept, PTL DEF ChatSpec

(* NoEscalation for any players and groups, any number of messages, failing *)
(* and overlapping saves and restarts (permission-service.ts:112-243).      *)
THEOREM RanksAreGranted == ChatSpec => []NoEscalation
BY InitTyping, TypingKept, EscalationKept, PTL DEF ChatSpec

--------------------------------------------------------------------------------
(* QuietMeansSaved: a store about which nothing is remembered as unsaved    *)
(* has at most one save on its way, and that one carries what it holds.     *)

SavesAgree ==
  \A store \in {"access", "homes"} : store \notin unsaved =>
    \/ InFlight(store) = {} /\ files[store] = Current(store)
    \/ \E s \in saves : InFlight(store) = {s} /\ s.data = Current(store)

LEMMA AgreementKept == ChatTypeOK /\ NoEscalation /\ SavesAgree /\ [ChatNext]_chatVars => SavesAgree'
<1> SUFFICES ASSUME ChatTypeOK, NoEscalation, SavesAgree, [ChatNext]_chatVars PROVE SavesAgree'
  OBVIOUS
<1>1. ASSUME NEW a \in Player, Says(a), Access(a) PROVE SavesAgree'
  <2>1. PICK r \in Roles : Becomes(r)
    BY <1>1, AccessIsHarmless
  <2>2. messages + 1 \in 1..MaxMessages
    BY <1>1, AccessAssumption DEF Says, ChatTypeOK
  <2>3. roles' = r /\ homes' = homes /\ files' = files
        /\ unsaved' = IF InFlight("access") = {} THEN unsaved \ {"access"} ELSE unsaved \cup {"access"}
    BY <2>1 DEF Becomes, Saves, Begins
  <2>4. ASSUME "access" \notin unsaved'
        PROVE  \E s \in saves' : InFlight("access")' = {s} /\ s.data = Current("access")'
    BY <2>1, <2>2, <2>3, <2>4, SavesAfterChange DEF Current
  <2>5. ASSUME "homes" \notin unsaved'
        PROVE  \/ InFlight("homes")' = {} /\ files'["homes"] = Current("homes")'
               \/ \E s \in saves' : InFlight("homes")' = {s} /\ s.data = Current("homes")'
    <3>1. InFlight("homes")' = InFlight("homes") /\ Current("homes")' = Current("homes")
      BY <2>1, <2>2, <2>3, SavesAfterChange DEF Current
    <3>2. \A s \in InFlight("homes")' : s \in saves'
      BY DEF InFlight
    <3> QED
      BY <2>3, <2>5, <3>1, <3>2 DEF SavesAgree
  <2> QED
    BY <2>4, <2>5 DEF SavesAgree
<1>2. ASSUME NEW a \in Player, NEW place \in Location, SetHome(a, place) PROVE SavesAgree'
  <2> DEFINE h   == [homes EXCEPT ![a] = place]
             new == [id |-> messages + 1, store |-> "homes", data |-> h, shared |-> {}]
  <2>1. new.store = "homes" /\ new.data = h
    OBVIOUS
  <2>2. saves' = saves \cup {new} /\ homes' = h /\ UNCHANGED <<roles, files>>
        /\ unsaved' = IF InFlight("homes") = {} THEN unsaved \ {"homes"} ELSE unsaved \cup {"homes"}
    BY <1>2 DEF SetHome, Begins
  <2> HIDE DEF new, h
  <2>3. ASSUME "homes" \notin unsaved'
        PROVE  \E s \in saves' : InFlight("homes")' = {s} /\ s.data = Current("homes")'
    <3>1. InFlight("homes")' = {new} /\ new \in saves'
      BY <2>1, <2>2, <2>3 DEF InFlight
    <3> QED
      BY <2>1, <2>2, <3>1 DEF Current
  <2>4. ASSUME "access" \notin unsaved'
        PROVE  \/ InFlight("access")' = {} /\ files'["access"] = Current("access")'
               \/ \E s \in saves' : InFlight("access")' = {s} /\ s.data = Current("access")'
    <3>1. InFlight("access")' = InFlight("access") /\ Current("access")' = Current("access")
      BY <2>1, <2>2 DEF InFlight, Current
    <3> QED
      BY <2>2, <2>4, <3>1 DEF SavesAgree
  <2> QED
    BY <2>3, <2>4 DEF SavesAgree
<1>7. ASSUME NEW s \in saves, MakeText(s) PROVE SavesAgree'
  <2>1. Alone(s).data = s.data /\ Alone(s).store = s.store
    BY AloneIsSave DEF ChatTypeOK
  <2>2. saves' = (saves \ {s}) \cup {Alone(s)} /\ UNCHANGED <<roles, homes, files, unsaved>>
    BY <1>7 DEF MakeText
  <2>3. ASSUME NEW store \in {"access", "homes"}, store \notin unsaved'
        PROVE  \/ InFlight(store)' = {} /\ files'[store] = Current(store)'
               \/ \E t \in saves' : InFlight(store)' = {t} /\ t.data = Current(store)'
    <3>1. Current(store)' = Current(store) /\ store \notin unsaved
      BY <2>2, <2>3 DEF Current
    <3>2. CASE s.store = store
      <4>1. InFlight(store) = {s} /\ s.data = Current(store)
        BY <3>1, <3>2 DEF SavesAgree, InFlight
      <4>2. InFlight(store)' = {Alone(s)} /\ Alone(s) \in saves'
        BY <2>1, <2>2, <3>2, <4>1 DEF InFlight
      <4> QED
        BY <2>1, <3>1, <4>1, <4>2
    <3>3. CASE s.store # store
      <4>1. InFlight(store)' = InFlight(store) /\ \A t \in InFlight(store) : t \in saves'
        BY <2>1, <2>2, <3>3 DEF InFlight
      <4> QED
        BY <2>2, <3>1, <4>1 DEF SavesAgree
    <3> QED
      BY <3>2, <3>3
  <2> QED
    BY <2>3 DEF SavesAgree
<1>3. ASSUME NEW s \in saves, Renamed(s) PROVE SavesAgree'
  <2>1. saves' = saves \ {s} /\ files' = [files EXCEPT ![s.store] = s.data]
        /\ roles' = roles /\ homes' = homes /\ unsaved' = unsaved
    BY <1>3 DEF Renamed
  <2>2. ASSUME NEW store \in {"access", "homes"}, store \notin unsaved'
        PROVE  \/ InFlight(store)' = {} /\ files'[store] = Current(store)'
               \/ \E t \in saves' : InFlight(store)' = {t} /\ t.data = Current(store)'
    <3>1. Current(store)' = Current(store)
      BY <2>1 DEF Current
    <3>2. CASE s.store = store
      <4>1. s \in InFlight(store)
        BY <3>2 DEF InFlight
      <4>2. InFlight(store) = {s} /\ s.data = Current(store)
        BY <2>1, <2>2, <4>1 DEF SavesAgree
      <4>3. InFlight(store)' = {}
        BY <2>1, <4>2 DEF InFlight
      <4>4. files'[store] = s.data
        BY <2>1, <3>2 DEF ChatTypeOK
      <4> QED
        BY <3>1, <4>2, <4>3, <4>4
    <3>3. CASE s.store # store
      <4>1. InFlight(store)' = InFlight(store)
        BY <2>1, <3>3 DEF InFlight
      <4>2. files'[store] = files[store]
        BY <2>1, <3>3 DEF ChatTypeOK
      <4>3. \A t \in saves : InFlight(store) = {t} => t \in saves'
        BY <2>1, <3>3 DEF InFlight
      <4> QED
        BY <2>1, <2>2, <3>1, <4>1, <4>2, <4>3 DEF SavesAgree
    <3> QED
      BY <3>2, <3>3
  <2> QED
    BY <2>2 DEF SavesAgree
<1>4. ASSUME NEW s \in saves, SaveFails(s) PROVE SavesAgree'
  <2>1. saves' = saves \ {s} /\ unsaved' = unsaved \cup {s.store} /\ UNCHANGED <<roles, homes, files>>
    BY <1>4 DEF SaveFails
  <2>2. ASSUME NEW store \in {"access", "homes"}, store \notin unsaved'
        PROVE  \/ InFlight(store)' = {} /\ files'[store] = Current(store)'
               \/ \E t \in saves' : InFlight(store)' = {t} /\ t.data = Current(store)'
    <3>1. store # s.store /\ store \notin unsaved
      BY <2>1, <2>2
    <3>2. InFlight(store)' = InFlight(store) /\ Current(store)' = Current(store)
      BY <2>1, <3>1 DEF InFlight, Current
    <3>3. \A t \in saves : InFlight(store) = {t} => t \in saves'
      BY <2>1, <3>1 DEF InFlight
    <3> QED
      BY <2>1, <3>1, <3>2, <3>3 DEF SavesAgree
  <2> QED
    BY <2>2 DEF SavesAgree
<1>5. CASE Connect \/ Restart
  <2>1. \A store \in {"access", "homes"} : files'[store] = Current(store)'
    BY <1>5 DEF Connect, Restart, NewServices, Current
  <2>2. \A store \in {"access", "homes"} : store \notin unsaved' => InFlight(store)' = {}
    <3>1. \A s \in saves : Alone(s).store = s.store
      BY AloneIsSave DEF ChatTypeOK
    <3> QED
      BY <1>5, <3>1 DEF Connect, Restart, InFlight
  <2> QED
    BY <2>1, <2>2 DEF SavesAgree
<1>6. ASSUME UNCHANGED <<roles, homes, files, saves, unsaved>> PROVE SavesAgree'
  BY <1>6 DEF SavesAgree, InFlight, Current
<1> QED
  BY <1>1, <1>2, <1>3, <1>4, <1>5, <1>6, <1>7 DEF ChatNext, Says, UseCommand, Tick, chatVars

(* QuietMeansSaved for any players and any number of overlapping saves      *)
(* (permission-service.ts:119-131, home-service.ts:20-30).                  *)
THEOREM QuietIsSaved == ChatSpec => []QuietMeansSaved
<1>1. ChatInit => SavesAgree
  BY DEF ChatInit, SavesAgree, InFlight, Current
<1>2. SavesAgree => QuietMeansSaved
  BY DEF SavesAgree, QuietMeansSaved, InFlight
<1> QED
  BY <1>1, <1>2, InitTyping, TypingKept, EscalationKept, AgreementKept, PTL DEF ChatSpec

--------------------------------------------------------------------------------
(* CooldownIsKept: an entry that the sweep has forgotten has run out, so    *)
(* forgetting it changes nothing.                                           *)

TimersCount ==
  \A c \in Command, p \in Player : used[c][p] > 0 =>
    /\ now >= used[c][p]
    /\ now >= used[c][p] + Global[c] \/ globalExpiry[c] >= used[c][p] + Global[c]
    /\ now >= used[c][p] + PerPlayer[c] \/ playerExpiry[c][p] >= used[c][p] + PerPlayer[c]

(* A command that is not on cooldown comes late enough.                     *)
LEMMA UseIsLate ==
  ASSUME ChatTypeOK, TimersCount, NEW a \in Player, NEW c \in Command, UseCommand(a, c)
  PROVE  \A p \in Player : used[c][p] > 0 =>
           now >= used[c][p] + Global[c] /\ (p = a => now >= used[c][a] + PerPlayer[c])
<1> USE AccessAssumption DEF ChatTypeOK
<1>1. now \in Nat /\ Global[c] \in Nat /\ PerPlayer[c] \in Nat /\ globalExpiry[c] \in Nat
      /\ playerExpiry[c][a] \in Nat
  OBVIOUS
<1>2. (Global[c] > 0 => globalExpiry[c] <= now) /\ (PerPlayer[c] > 0 => playerExpiry[c][a] <= now)
  BY <1>1 DEF UseCommand, Remaining
<1> SUFFICES ASSUME NEW p \in Player, used[c][p] > 0
             PROVE  now >= used[c][p] + Global[c] /\ (p = a => now >= used[c][a] + PerPlayer[c])
  OBVIOUS
<1>3. used[c][p] \in Nat
  OBVIOUS
<1> QED
  BY <1>1, <1>2, <1>3 DEF TimersCount

LEMMA TimersKept == ChatTypeOK /\ TimersCount /\ [ChatNext]_chatVars => TimersCount'
<1> SUFFICES ASSUME ChatTypeOK, TimersCount, [ChatNext]_chatVars PROVE TimersCount'
  OBVIOUS
<1> USE AccessAssumption
<1>0. \A c \in Command, p \in Player :
        /\ used[c][p] \in Nat /\ playerExpiry[c][p] \in Nat
        /\ globalExpiry[c] \in Nat /\ Global[c] \in Nat /\ PerPlayer[c] \in Nat /\ now \in Nat
  BY DEF ChatTypeOK
<1>1. ASSUME NEW a \in Player, NEW c \in Command, UseCommand(a, c) PROVE TimersCount'
  <2>1. now' = now /\ used' = [used EXCEPT ![c] = [@ EXCEPT ![a] = now]]
    BY <1>1 DEF UseCommand
  <2> SUFFICES ASSUME NEW d \in Command, NEW p \in Player, used'[d][p] > 0
               PROVE  /\ now >= used'[d][p]
                      /\ now >= used'[d][p] + Global[d] \/ globalExpiry'[d] >= used'[d][p] + Global[d]
                      /\ now >= used'[d][p] + PerPlayer[d] \/ playerExpiry'[d][p] >= used'[d][p] + PerPlayer[d]
    BY <2>1 DEF TimersCount
  <2>2. used'[d][p] = IF d = c /\ p = a THEN now ELSE used[d][p]
    BY <2>1 DEF ChatTypeOK
  <2> DEFINE own == IF d = c /\ p = a /\ PerPlayer[c] > 0 THEN now + PerPlayer[c] ELSE playerExpiry[d][p]
             all == IF d = c /\ Global[c] > 0 THEN now + Global[c] ELSE globalExpiry[d]
  <2>3. playerExpiry'[d][p] = Swept(own) /\ globalExpiry'[d] = Swept(all)
    BY <1>1 DEF UseCommand, RecordUse
  <2>4. own \in Nat /\ all \in Nat
    BY <1>0
  <2>5. \A n \in Nat, m \in Nat : now >= m \/ n >= m => now >= m \/ Swept(n) >= m
    BY <1>0 DEF Swept
  <2>6. used'[d][p] \in Nat /\ now >= used'[d][p]
    BY <1>0, <2>2 DEF TimersCount
  <2>7. now >= used'[d][p] + Global[d] \/ all >= used'[d][p] + Global[d]
    BY <1>0, <2>2, <2>6 DEF TimersCount
  <2>8. now >= used'[d][p] + PerPlayer[d] \/ own >= used'[d][p] + PerPlayer[d]
    BY <1>0, <2>2, <2>6 DEF TimersCount
  <2> HIDE DEF own, all
  <2>9. used'[d][p] + Global[d] \in Nat /\ used'[d][p] + PerPlayer[d] \in Nat
    BY <1>0, <2>6
  <2> QED
    BY <2>3, <2>4, <2>5, <2>6, <2>7, <2>8, <2>9
<1>2. CASE Tick
  BY <1>0, <1>2 DEF Tick, TimersCount, cooldowns
<1>3. CASE Connect \/ Restart
  <2>1. \A c \in Command, p \in Player : used'[c][p] = 0
    BY <1>3 DEF Connect, Restart, NewServices, NoTimers
  <2> QED
    BY <2>1 DEF TimersCount
<1>4. ASSUME UNCHANGED <<now, cooldowns>> PROVE TimersCount'
  BY <1>4 DEF TimersCount, cooldowns
<1>9. ASSUME NEW r, Becomes(r) PROVE UNCHANGED <<now, cooldowns>>
  BY <1>9 DEF Becomes, Saves, Begins
<1>5. ASSUME NEW a \in Player, Access(a) PROVE UNCHANGED <<now, cooldowns>>
  BY <1>5, <1>9 DEF Access, ChangeRole, ChangeGroup, GrantOperator, RevokeOperator, AddMember, RemoveMember,
    AddToBlacklist, RemoveFromBlacklist, CreateGroup, DeleteGroup, RenameGroup, AddGroupMember,
    RemoveGroupMember, AddGroupCommand, RemoveGroupCommand, Regroups
<1>6. ASSUME NEW a \in Player, NEW place \in Location, SetHome(a, place) PROVE UNCHANGED <<now, cooldowns>>
  BY <1>6 DEF SetHome, Begins
<1>7. ASSUME NEW s \in saves, MakeText(s) \/ Renamed(s) \/ SaveFails(s) PROVE UNCHANGED <<now, cooldowns>>
  BY <1>7 DEF MakeText, Renamed, SaveFails
<1>8. ASSUME UNCHANGED chatVars PROVE UNCHANGED <<now, cooldowns>>
  BY <1>8 DEF chatVars, cooldowns
<1> QED
  BY <1>1, <1>2, <1>3, <1>4, <1>5, <1>6, <1>7, <1>8 DEF ChatNext, Says

(* Only a use that came late enough moves a player's last use forward.      *)
LEMMA UseKeepsCooldown ==
  ASSUME ChatTypeOK, TimersCount, [ChatNext]_chatVars,
         NEW c \in Command, NEW a \in Player, used'[c][a] > used[c][a],
         NEW p \in Player, used[c][p] > 0
  PROVE  used'[c][a] >= used[c][p] + Global[c] /\ (p = a => used'[c][a] >= used[c][a] + PerPlayer[c])
<1>0. used[c][a] \in Nat
  BY DEF ChatTypeOK
<1>1. ASSUME NEW b \in Player, NEW d \in Command, UseCommand(b, d)
      PROVE  used'[c][a] >= used[c][p] + Global[c] /\ (p = a => used'[c][a] >= used[c][a] + PerPlayer[c])
  <2>1. used'[c][a] = IF c = d /\ a = b THEN now ELSE used[c][a]
    BY <1>1 DEF UseCommand, ChatTypeOK
  <2>2. c = d /\ a = b /\ used'[c][a] = now
    BY <1>0, <2>1
  <2> QED
    BY <1>1, <2>2, UseIsLate
<1>2. ASSUME UNCHANGED used PROVE FALSE
  BY <1>0, <1>2
<1>3. ASSUME used' = NoTimers PROVE FALSE
  BY <1>0, <1>3 DEF NoTimers
<1>4. ASSUME NEW b \in Player, Access(b) PROVE UNCHANGED used
  BY <1>4 DEF Access, ChangeRole, ChangeGroup, GrantOperator, RevokeOperator, AddMember, RemoveMember,
    AddToBlacklist, RemoveFromBlacklist, CreateGroup, DeleteGroup, RenameGroup, AddGroupMember,
    RemoveGroupMember, AddGroupCommand, RemoveGroupCommand, Regroups, Becomes, cooldowns
<1> QED
  BY <1>1, <1>2, <1>3, <1>4 DEF ChatNext, Says, SetHome, MakeText, Renamed, SaveFails, Tick, Connect, Restart,
    NewServices, cooldowns, chatVars

(* CooldownIsKept for any cooldowns, and any uses and sweeps between        *)
(* (cooldown-service.ts:11-53, commands.ts:39-73).                          *)
THEOREM UsesKeepApart == ChatSpec => CooldownIsKept
<1>1. ChatInit => TimersCount
  BY DEF ChatInit, TimersCount, NoTimers
<1>2. ChatTypeOK /\ TimersCount /\ [ChatNext]_chatVars =>
        [\A c \in Command, a \in Player : used'[c][a] > used[c][a] =>
           \A p \in Player : used[c][p] > 0 =>
             /\ used'[c][a] >= used[c][p] + Global[c]
             /\ p = a => used'[c][a] >= used[c][a] + PerPlayer[c]]_chatVars
  BY UseKeepsCooldown
<1> QED
  BY <1>1, <1>2, InitTyping, TypingKept, EscalationKept, TimersKept, PTL DEF ChatSpec, CooldownIsKept

================================================================================
