---- MODULE MCStorage ----
EXTENDS Storage, TLC

\* !access, !where, !sethome and !say stand for the levels and cooldowns commands have.
MCRequiredLevel ==
  [c \in Command |-> CASE c = "sethome" -> "member" [] c = "say" -> "operator" [] OTHER -> "user"]

MCPerPlayer == [c \in Command |-> IF c = "where" THEN 2 ELSE 0]

MCGlobal == [c \in Command |-> IF c = "say" THEN 2 ELSE 0]

NoRoles == [operators |-> {}, members |-> {}, blacklist |-> {}, groups |-> [g \in Group |-> NoGroup]]

MCStoredRoles == {NoRoles, [NoRoles EXCEPT !.operators = Player \ Admins]}

\* Players whom config.admins does not list are alike, and so are groups.
Symmetry == Permutations(Player \ Admins) \cup Permutations(Group)
====
