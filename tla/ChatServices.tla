------------------------------- MODULE ChatServices -------------------------------
(***************************************************************************)
(* What a chat message reaches in one bot instance: the permission gate    *)
(* and the cooldown gate of CommandRegistry, the changes !access makes to  *)
(* roles, blacklist and groups, the homes !sethome keeps, and the two JSON *)
(* files behind them.                                                      *)
(*                                                                         *)
(* A change is made in memory at once, and the whole record is written out *)
(* afterwards, by a temporary file and a rename.  What a save writes is    *)
(* copied with the change, but for the groups: it holds these until it     *)
(* makes its text, and carries what happens to them meanwhile.  No save    *)
(* waits for another, a save may fail, and a manual connect() builds new services    *)
(* from the files while saves of the old ones may still be on their way.   *)
(* The services survive an automatic reconnect, which changes nothing here.*)
(*                                                                         *)
(* A refused message only answers, so it is no step.  Names are members of *)
(* Player and Group: normalisation and the name patterns are left out.     *)
(***************************************************************************)
EXTENDS Naturals, FiniteSets

CONSTANTS
  Player,         \* who writes in the chat, and whom a command names
  Admins,         \* the players config.admins lists
  Group,          \* group names
  NoGroup,        \* no group of that name
  Location,       \* places a home can be
  NoHome,         \* no home was set
  Command,        \* the registered commands
  RequiredLevel,  \* ICommand.requiredLevel
  PerPlayer,      \* cooldown.perPlayerMs, 0 when absent
  Global,         \* cooldown.globalMs, 0 when absent
  StoredRoles,    \* contents of permissions.json a process may start with
  MaxMessages,    \* bound: messages that are obeyed
  MaxTime         \* bound: the clock

Level == {"user", "member", "operator", "admin"}
Rank  == [user |-> 0, member |-> 1, operator |-> 2, admin |-> 3]

Membership == [members : SUBSET Player, commands : SUBSET Command]

Roles == [operators : SUBSET Player, members : SUBSET Player, blacklist : SUBSET Player,
          groups : [Group -> Membership \cup {NoGroup}]]
Homes == [Player -> Location \cup {NoHome}]

ASSUME AccessAssumption ==
  /\ Admins \subseteq Player
  /\ {"access", "sethome"} \subseteq Command
  /\ RequiredLevel \in [Command -> Level]
  /\ PerPlayer \in [Command -> Nat] /\ Global \in [Command -> Nat]
  /\ StoredRoles \subseteq Roles
  /\ \A r \in StoredRoles : Admins \cap (r.operators \cup r.blacklist) = {}
  /\ MaxMessages \in Nat /\ MaxTime \in Nat

VARIABLES
  roles,         \* PermissionService: operators, members, blacklist, groups
  homes,         \* HomeService
  files,         \* permissions.json and homes.json
  saves,         \* writes that were begun and have not been renamed into place
  playerExpiry,  \* CooldownService.perPlayerExpiry, 0 where there is no entry
  globalExpiry,  \* CooldownService.globalExpiry, likewise
  now,           \* the clock
  messages,      \* how many messages were obeyed; numbers the saves
  granted,       \* history: players an admin made operator, or the first file named
  used,          \* history: when a player last used a command of these services
  unsaved        \* history: what may make a file differ from memory has happened

chatVars == <<roles, homes, files, saves, playerExpiry, globalExpiry, now, messages, granted, used,
              unsaved>>

cooldowns == <<playerExpiry, globalExpiry, used>>

\* The groups a save shares with the services: those that are in memory still, and
\* none once its text is made.
Save == [id : 1..MaxMessages, store : {"access"}, data : Roles, shared : SUBSET Group]
        \cup [id : 1..MaxMessages, store : {"homes"}, data : Homes, shared : {{}}]

ChatTypeOK ==
  /\ roles \in Roles /\ homes \in Homes
  /\ files \in [access : Roles, homes : Homes]
  /\ saves \subseteq Save
  /\ playerExpiry \in [Command -> [Player -> Nat]] /\ globalExpiry \in [Command -> Nat]
  /\ now \in 1..(MaxTime + 1) /\ messages \in 0..MaxMessages
  /\ granted \subseteq Player
  /\ used \in [Command -> [Player -> 0..(MaxTime + 1)]]
  /\ unsaved \subseteq {"access", "homes"}

NoTimers == [c \in Command |-> [p \in Player |-> 0]]

ChatInit ==
  /\ \E r \in StoredRoles :
       /\ roles = r
       /\ files = [access |-> r, homes |-> [p \in Player |-> NoHome]]
       /\ granted = r.operators
  /\ homes = [p \in Player |-> NoHome]
  /\ saves = {} /\ messages = 0 /\ unsaved = {}
  /\ playerExpiry = NoTimers /\ globalExpiry = [c \in Command |-> 0]
  /\ now = 1 /\ used = NoTimers

--------------------------------------------------------------------------------
(* The permission gate *)

LevelOf(p) ==
  CASE p \in Admins          -> "admin"
    [] p \notin Admins /\ p \in roles.operators -> "operator"
    [] p \notin Admins \cup roles.operators /\ p \in roles.members -> "member"
    [] OTHER                 -> "user"

Meets(p, level) == Rank[LevelOf(p)] >= Rank[level]

InGroupWith(p, c) ==
  \E g \in Group : /\ roles.groups[g] # NoGroup
                   /\ c \in roles.groups[g].commands /\ p \in roles.groups[g].members

CanUse(p, c) ==
  /\ p \notin roles.blacklist
  /\ Meets(p, RequiredLevel[c]) \/ (RequiredLevel[c] # "admin" /\ InGroupWith(p, c))

\* targetGuard: admins are out of reach, and operators are for admins only.
MayTouch(actor, target) ==
  /\ LevelOf(target) # "admin"
  /\ LevelOf(actor) = "admin" \/ LevelOf(target) # "operator"

--------------------------------------------------------------------------------
(* Saving: persist() copies the sets and passes the groups; no save waits for another. *)

Current(store) == IF store = "access" THEN roles ELSE homes

InFlight(store) == {s \in saves : s.store = store}

\* A save that is alone on its way makes file and memory agree again.
Begins(store, data, shared, earlier) ==
  /\ saves' = earlier \cup {[id |-> messages + 1, store |-> store, data |-> data, shared |-> shared]}
  /\ unsaved' = IF InFlight(store) = {} THEN unsaved \ {store} ELSE unsaved \cup {store}
  /\ UNCHANGED <<files, now>>

\* A group is changed in place; deleting or renaming it (as a copy) ends the sharing.
Carried(s, r) ==
  LET live   == {g \in s.shared : r.groups[g] # NoGroup}
      groups == [g \in Group |-> IF g \in live THEN r.groups[g] ELSE s.data.groups[g]]
  IN  IF s.shared = {} THEN s ELSE [s EXCEPT !.data = [@ EXCEPT !.groups = groups], !.shared = live]

Alone(s) == [s EXCEPT !.shared = {}]

\* JSON.stringify, when the directory is there.
MakeText(s) ==
  /\ s \in saves /\ s.shared # {}
  /\ saves' = (saves \ {s}) \cup {Alone(s)}
  /\ UNCHANGED <<roles, homes, files, now, messages, granted, unsaved, cooldowns>>

Renamed(s) ==
  /\ s \in saves /\ s.shared = {}
  /\ saves' = saves \ {s}
  /\ files' = [files EXCEPT ![s.store] = s.data]
  /\ UNCHANGED <<roles, homes, now, messages, granted, unsaved, cooldowns>>

SaveFails(s) ==
  /\ s \in saves
  /\ saves' = saves \ {s}
  /\ unsaved' = unsaved \cup {s.store}
  /\ UNCHANGED <<roles, homes, files, now, messages, granted, cooldowns>>

Saves(r, record) ==
  Begins("access", record, {g \in Group : r.groups[g] # NoGroup}, {Carried(s, r) : s \in saves})

\* Faulty variant: the record that is saved leaves out the blacklist.
SavesWithoutBlacklist(r) ==
  /\ roles' = r
  /\ Saves(r, [r EXCEPT !.blacklist = {}])
  /\ UNCHANGED <<homes, cooldowns>>

Becomes(r) ==
  /\ roles' = r
  /\ Saves(r, r)
  /\ UNCHANGED <<homes, cooldowns>>

--------------------------------------------------------------------------------
(* !access grant | revoke | blacklist: each rechecks the actor's authority. *)

\* Faulty variant: an operator may make operators.
GrantOperatorByOperator(a, t) ==
  /\ Meets(a, "operator") /\ LevelOf(t) \notin {"admin", "operator"}
  /\ Becomes([roles EXCEPT !.members = @ \ {t}, !.operators = @ \cup {t}])
  /\ granted' = IF LevelOf(a) = "admin" THEN granted \cup {t} ELSE granted

GrantOperator(a, t) ==
  /\ LevelOf(a) = "admin" /\ LevelOf(t) \notin {"admin", "operator"}
  /\ Becomes([roles EXCEPT !.members = @ \ {t}, !.operators = @ \cup {t}])
  /\ granted' = granted \cup {t}

RevokeOperator(a, t) ==
  /\ LevelOf(a) = "admin" /\ LevelOf(t) = "operator"
  /\ Becomes([roles EXCEPT !.operators = @ \ {t}])
  /\ UNCHANGED granted

\* An operator an admin names stays one, and is a member besides.
AddMember(a, t) ==
  /\ Meets(a, "operator") /\ MayTouch(a, t) /\ LevelOf(t) # "member"
  /\ Becomes([roles EXCEPT !.members = @ \cup {t}])
  /\ UNCHANGED granted

RemoveMember(a, t) ==
  /\ Meets(a, "operator") /\ LevelOf(t) = "member"
  /\ Becomes([roles EXCEPT !.members = @ \ {t}])
  /\ UNCHANGED granted

AddToBlacklist(a, t) ==
  /\ Meets(a, "operator") /\ MayTouch(a, t) /\ t \notin roles.blacklist
  /\ Becomes([roles EXCEPT !.blacklist = @ \cup {t}])
  /\ UNCHANGED granted

RemoveFromBlacklist(a, t) ==
  /\ Meets(a, "operator") /\ t \in roles.blacklist
  /\ Becomes([roles EXCEPT !.blacklist = @ \ {t}])
  /\ UNCHANGED granted

ChangeRole(a, t) ==
  \/ GrantOperator(a, t) \/ RevokeOperator(a, t)
  \/ AddMember(a, t) \/ RemoveMember(a, t)
  \/ AddToBlacklist(a, t) \/ RemoveFromBlacklist(a, t)

(* !access group *)

Regroups(g, membership) == Becomes([roles EXCEPT !.groups[g] = membership]) /\ UNCHANGED granted

CreateGroup(a, g) ==
  /\ Meets(a, "operator") /\ roles.groups[g] = NoGroup
  /\ Regroups(g, [members |-> {}, commands |-> {}])

DeleteGroup(a, g) ==
  /\ Meets(a, "operator") /\ roles.groups[g] # NoGroup
  /\ Regroups(g, NoGroup)

\* Another spelling of the same name is the same group here.
RenameGroup(a, g, new) ==
  /\ Meets(a, "operator") /\ roles.groups[g] # NoGroup /\ roles.groups[new] = NoGroup
  /\ Becomes([roles EXCEPT !.groups = [@ EXCEPT ![g] = NoGroup, ![new] = roles.groups[g]]])
  /\ UNCHANGED granted

AddGroupMember(a, g, t) ==
  /\ Meets(a, "operator") /\ roles.groups[g] # NoGroup /\ t \notin roles.groups[g].members
  /\ Regroups(g, [members |-> roles.groups[g].members \cup {t}, commands |-> roles.groups[g].commands])

RemoveGroupMember(a, g, t) ==
  /\ Meets(a, "operator") /\ roles.groups[g] # NoGroup /\ t \in roles.groups[g].members
  /\ Regroups(g, [members |-> roles.groups[g].members \ {t}, commands |-> roles.groups[g].commands])

AddGroupCommand(a, g, c) ==
  /\ Meets(a, "operator") /\ roles.groups[g] # NoGroup /\ c \notin roles.groups[g].commands
  /\ RequiredLevel[c] # "admin"
  /\ Regroups(g, [members |-> roles.groups[g].members, commands |-> roles.groups[g].commands \cup {c}])

RemoveGroupCommand(a, g, c) ==
  /\ Meets(a, "operator") /\ roles.groups[g] # NoGroup /\ c \in roles.groups[g].commands
  /\ Regroups(g, [members |-> roles.groups[g].members, commands |-> roles.groups[g].commands \ {c}])

ChangeGroup(a, g) ==
  \/ CreateGroup(a, g) \/ DeleteGroup(a, g)
  \/ \E new \in Group : RenameGroup(a, g, new)
  \/ \E t \in Player : AddGroupMember(a, g, t) \/ RemoveGroupMember(a, g, t)
  \/ \E c \in Command : AddGroupCommand(a, g, c) \/ RemoveGroupCommand(a, g, c)

Access(a) ==
  /\ CanUse(a, "access")
  /\ (\E t \in Player : ChangeRole(a, t)) \/ (\E g \in Group : ChangeGroup(a, g))

(* !sethome *)
SetHome(a, place) ==
  /\ CanUse(a, "sethome")
  /\ homes' = [homes EXCEPT ![a] = place]
  /\ Begins("homes", [homes EXCEPT ![a] = place], {}, saves)
  /\ UNCHANGED <<roles, granted, cooldowns>>

--------------------------------------------------------------------------------
(* The cooldown gate, in front of every command that declares one *)

Remaining(a, c) ==
  LET own == IF PerPlayer[c] > 0 /\ playerExpiry[c][a] > now THEN playerExpiry[c][a] - now ELSE 0
      all == IF Global[c] > 0 /\ globalExpiry[c] > now THEN globalExpiry[c] - now ELSE 0
  IN  IF own > all THEN own ELSE all

\* Faulty variant: the sweep takes an entry in its last unit of time for expired.
SweptEarly(expiry) == IF now + 1 >= expiry THEN 0 ELSE expiry

\* sweep: an entry whose time has come is forgotten.
Swept(expiry) == IF now >= expiry THEN 0 ELSE expiry

RecordUse(a, c) ==
  /\ playerExpiry' = [d \in Command |-> [p \in Player |->
       Swept(IF d = c /\ p = a /\ PerPlayer[c] > 0 THEN now + PerPlayer[c] ELSE playerExpiry[d][p])]]
  /\ globalExpiry' = [d \in Command |->
       Swept(IF d = c /\ Global[c] > 0 THEN now + Global[c] ELSE globalExpiry[d])]

\* What the command then does is its own business (see Steering).
UseCommand(a, c) ==
  /\ PerPlayer[c] > 0 \/ Global[c] > 0
  /\ CanUse(a, c) /\ Remaining(a, c) = 0
  /\ RecordUse(a, c)
  /\ used' = [used EXCEPT ![c] = [@ EXCEPT ![a] = now]]
  /\ UNCHANGED <<roles, homes, files, saves, now, granted, unsaved>>

\* Time that no cooldown waits for is not observed.
Tick ==
  /\ now <= MaxTime /\ cooldowns # <<NoTimers, [c \in Command |-> 0], NoTimers>>
  /\ now' = now + 1
  /\ UNCHANGED <<roles, homes, files, saves, messages, granted, unsaved, cooldowns>>

--------------------------------------------------------------------------------
(* New services: by a manual connect() of a live process, or by its restart *)

NewServices ==
  /\ roles' = files.access /\ homes' = files.homes
  /\ playerExpiry' = NoTimers /\ globalExpiry' = [c \in Command |-> 0] /\ used' = NoTimers

\* The old services, and the groups a save shares with them, change no more.
Connect ==
  /\ NewServices
  /\ saves' = {Alone(s) : s \in saves}
  /\ unsaved' = {s.store : s \in saves}
  /\ UNCHANGED <<files, now, messages, granted>>

Restart ==
  /\ NewServices
  /\ saves' = {} /\ unsaved' = {}
  /\ UNCHANGED <<files, now, messages, granted>>

--------------------------------------------------------------------------------

Says(a) ==
  /\ messages < MaxMessages
  /\ messages' = messages + 1
  /\ \/ Access(a)
     \/ \E place \in Location : SetHome(a, place)
     \/ \E c \in Command : UseCommand(a, c)

ChatNext ==
  \/ \E a \in Player : Says(a)
  \/ \E s \in saves : MakeText(s) \/ Renamed(s) \/ SaveFails(s)
  \/ Tick \/ Connect \/ Restart

ChatSpec == ChatInit /\ [][ChatNext]_chatVars

--------------------------------------------------------------------------------
(* QuietMeansSaved: when no save is on its way a file holds what its        *)
(* service holds, unless two saves overlapped, one failed, or new services  *)
(* were built during one; the next save that is alone repairs that.         *)
QuietMeansSaved ==
  \A store \in {"access", "homes"} :
    InFlight(store) = {} /\ store \notin unsaved => files[store] = Current(store)

Known == {roles, files.access} \cup {s.data : s \in InFlight("access")}

(* NoEscalation: whatever operators and members do, together and over       *)
(* restarts, nobody is an operator whom no admin made one, and no admin is  *)
(* ever locked out by the blacklist: in memory, on disk, or on the way.     *)
NoEscalation == \A r \in Known : r.operators \subseteq granted /\ r.blacklist \cap Admins = {}

(* CooldownIsKept: as long as the same services live, two uses of a command *)
(* are at least its global cooldown apart, and two of one player its        *)
(* per-player cooldown, whatever the sweep has forgotten between.           *)
CooldownIsKept ==
  [][\A c \in Command, a \in Player : used'[c][a] > used[c][a] =>
       \A p \in Player : used[c][p] > 0 =>
         /\ used'[c][a] >= used[c][p] + Global[c]
         /\ p = a => used'[c][a] >= used[c][a] + PerPlayer[c]]_chatVars

===============================================================================
