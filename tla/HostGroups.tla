----------------------------- MODULE HostGroups -----------------------------
(* backend/host_management: groups of views.py and services.py, the group paths of
   import_export.py, request_payload_with_default_group.

   Groups form a tree, each with a place among its siblings.  The database keeps
   names distinct below a group but not at the root, where no parent is compared;
   nothing in it keeps the tree a tree.  A request looks, then stores; a move
   stores the group, then reads its siblings, then renumbers them.  A file of an
   export knows groups by their path; a name may have a slash in it. *)
EXTENDS Integers, Sequences, FiniteSets

CONSTANTS
    LastGroup,      \* bound: groups are 1..LastGroup
    LastGroupAsk,   \* bound: requests are 1..LastGroupAsk, in the order they come
    GroupNames,     \* a name is the sequence of what is between its slashes
    DefaultName,
    TreeTop         \* the parent of the groups at the root

Words == UNION {{n[i] : i \in DOMAIN n} : n \in GroupNames}

ASSUME GroupsAssumption ==
    /\ LastGroup \in Nat /\ LastGroupAsk \in Nat /\ TreeTop \notin 1..LastGroup
    /\ GroupNames \subseteq Seq(Words) \ {<<>>} /\ DefaultName \in GroupNames
    /\ \A w \in Words : <<w>> \in GroupNames

VARIABLES
    grp,         \* HostGroup rows, by id
    housed,      \* groups with a host
    grpAsk,      \* requests: what was asked, what was read
    grpRaced,    \* history: pairs of kinds of which one stored while the other was on its way
    moved        \* history: the last move, while nothing was stored since

groupVars == <<grp, housed, grpAsk, grpRaced, moved>>

GroupIds   == 1..LastGroup
GroupAsks  == 1..LastGroupAsk
Tops       == GroupIds \cup {TreeTop}
LiveGroups == {g \in GroupIds : grp[g].is = "live"}
LiveTops   == LiveGroups \cup {TreeTop}
FreeGroups == {g \in GroupIds : grp[g].is = "free"}
NewGroupId == CHOOSE g \in FreeGroups : \A h \in FreeGroups : g <= h
Branch(p)  == {g \in LiveGroups : grp[g].parent = p}
Names(S)   == {grp[g].name : g \in S}
NoGroup    == [is |-> "free", name |-> DefaultName, parent |-> TreeTop, order |-> 0]
NotMoved   == [group |-> 0, target |-> 0, after |-> FALSE]
Unread     == 0 - 1
GroupIdle  == [pc |-> "new", kind |-> "none", group |-> 0, parent |-> TreeTop, name |-> DefaultName,
               target |-> 0, place |-> "last", read |-> [g \in GroupIds |-> Unread]]

\* What the rows are; of siblings, a request reads the numbers.
GroupRows   == [is : {"free", "live", "deleted"}, name : GroupNames, parent : Tops, order : Nat]
GroupAskRow == [pc : {"new", "store", "read", "renumber", "done"},
                kind : {"none", "new", "rename", "move", "delete", "house"}, group : GroupIds \cup {0},
                parent : Tops, name : GroupNames, target : GroupIds \cup {0},
                place : {"first", "last", "after", "before"}, read : [GroupIds -> Nat \cup {Unread}]]

GroupsTypeOK ==
    /\ grp \in [GroupIds -> GroupRows] /\ grpAsk \in [GroupAsks -> GroupAskRow]
    /\ housed \subseteq LiveGroups
    /\ \A g \in LiveGroups : grp[g].parent \in LiveTops
    /\ moved \in [group : GroupIds \cup {0}, target : GroupIds \cup {0}, after : BOOLEAN]

\* collect_descendant_ids: it does not end on a cycle.
Climbs(S) == \A g \in S \ {TreeTop} : grp[g].is = "live" => grp[g].parent \in S
Above(h)  == LET closed == {S \in SUBSET Tops : h \in S /\ Climbs(S)} IN {x \in Tops : \A S \in closed : x \in S}
Beneath(g) == {h \in LiveGroups \cup {g} : g \in Above(h)}
Looped(g) == g \in LiveGroups /\ grp[g].parent \in Beneath(g)

\* next_group_sort_order: first, after a sibling, or last.
OrdersOf(p) == {grp[g].order : g \in Branch(p)}
LeastOrder(S)    == CHOOSE n \in S : \A m \in S : n <= m
MostOrder(S)     == CHOOSE n \in S : \A m \in S : m <= n
NextOrder(p, place, target) ==
    CASE place = "first" -> IF Branch(p) # {} /\ LeastOrder(OrdersOf(p)) >= 10 THEN LeastOrder(OrdersOf(p)) - 10 ELSE 10
      [] place # "first" /\ target \in Branch(p) -> grp[target].order + 1
      [] OTHER -> IF Branch(p) = {} THEN 10 ELSE MostOrder(OrdersOf(p)) + 10
----------------------------------------------------------------------------
GroupComes(r) == grpAsk[r].pc = "new" /\ \A q \in 1..r - 1 : grpAsk[q].pc # "new"
GroupAt(r, pc, kind) == grpAsk[r].pc = pc /\ grpAsk[r].kind = kind
GroupGoes(r, q) == grpAsk' = [grpAsk EXCEPT ![r] = q]
GroupEnds(r) == GroupGoes(r, [GroupIdle EXCEPT !.pc = "done"])
GroupStored(r, kind) ==
    grpRaced' = grpRaced \cup {{kind, grpAsk[q].kind} : q \in {p \in GroupAsks \ {r} : grpAsk[p].pc \notin {"new", "done"}}}
Unmoved == moved' = NotMoved

\* unique_host_group_name_per_parent does not bind at the root.
Binds(g, p, n) == p = TreeTop \/ n \notin Names(Branch(p) \ {g})
\* Mutant: the look for the name is left to the database.
LeavesToBinding(g, p, n) == Binds(g, p, n)
NameFree(g, p, n) == n \notin Names(Branch(p) \ {g})

\* Mutant: a group may move below one of its own.
MovesAnywhere(g, p) == ~Looped(g) /\ p # g
MayMove(g, p) == ~Looped(g) /\ p \notin Beneath(g)

Looks(r, q) ==
    /\ GroupGoes(r, [q EXCEPT !.pc = "store"])
    /\ UNCHANGED <<grp, housed, grpRaced, moved>>

\* host_groups POST
LookForNew(r) ==
    /\ GroupComes(r)
    /\ \E p \in LiveTops : \E n \in GroupNames, t \in Branch(p) \cup {0} :
       \E place \in IF t = 0 THEN {"first", "last"} ELSE {"after"} :
         NameFree(0, p, n) /\ Looks(r, [GroupIdle EXCEPT !.kind = "new", !.parent = p, !.name = n,
                                                   !.target = t, !.place = place])

\* host_group_detail PUT, without a parent and with one.
LookForRename(r) ==
    /\ GroupComes(r)
    /\ \E g \in LiveGroups : \E n \in GroupNames \ {grp[g].name} :
         /\ NameFree(g, grp[g].parent, n)
         /\ Looks(r, [GroupIdle EXCEPT !.kind = "rename", !.group = g, !.name = n])
LookForMove(r) ==
    /\ GroupComes(r)
    /\ \E g \in LiveGroups, p \in LiveTops :
         /\ MayMove(g, p) /\ NameFree(g, p, grp[g].name)
         /\ \E t \in (Branch(p) \ {g}) \cup {0} : \E place \in IF t = 0 THEN {"first", "last"} ELSE {"after", "before"} :
              Looks(r, [GroupIdle EXCEPT !.kind = "move", !.group = g, !.parent = p, !.name = grp[g].name,
                          !.target = t, !.place = place, !.read[g] = grp[g].order])

\* host_group_detail DELETE
LookForDelete(r) ==
    /\ GroupComes(r)
    /\ \E g \in LiveGroups :
         /\ ~Looped(g) /\ Beneath(g) \cap housed = {}
         /\ Looks(r, [GroupIdle EXCEPT !.kind = "delete", !.group = g])

GroupRow(n, p, o) == [is |-> "live", name |-> n, parent |-> p, order |-> o]
NewGroup(r) == LET q == grpAsk[r] IN
    /\ GroupAt(r, "store", "new") /\ q.parent \in LiveTops /\ Binds(0, q.parent, q.name) /\ FreeGroups # {}
    /\ grp' = [grp EXCEPT ![NewGroupId] = GroupRow(q.name, q.parent, NextOrder(q.parent, q.place, q.target))]
    /\ GroupStored(r, "new") /\ Unmoved /\ GroupEnds(r) /\ UNCHANGED housed

\* The name alone, or the name and the parent.
RenameGroup(r) == LET q == grpAsk[r] IN
    /\ GroupAt(r, "store", "rename") /\ q.group \in LiveGroups /\ Binds(q.group, grp[q.group].parent, q.name)
    /\ grp' = [grp EXCEPT ![q.group].name = q.name]
    /\ GroupStored(r, "rename") /\ Unmoved /\ GroupEnds(r) /\ UNCHANGED housed
MoveGroup(r) == LET q == grpAsk[r] IN
    /\ GroupAt(r, "store", "move") /\ q.group \in LiveGroups /\ q.parent \in LiveTops
    /\ Binds(q.group, q.parent, q.name)
    /\ grp' = [grp EXCEPT ![q.group].name = q.name, ![q.group].parent = q.parent]
    /\ GroupGoes(r, [q EXCEPT !.pc = "read"])
    /\ GroupStored(r, "move") /\ Unmoved /\ UNCHANGED housed
----------------------------------------------------------------------------
(* reorder_group *)

\* The order of siblings: by number, then id.
Precedes(numbers, g, h) == numbers[g] < numbers[h] \/ (numbers[g] = numbers[h] /\ g < h)
Place(numbers, S, g) == 1 + Cardinality({h \in S : Precedes(numbers, h, g)})

ReadSiblings(r) == LET q == grpAsk[r] IN
    /\ GroupAt(r, "read", "move")
    /\ GroupGoes(r, [q EXCEPT !.pc = "renumber",
                       !.read = [g \in GroupIds |-> IF g \in Branch(q.parent) \ {q.group} THEN grp[g].order ELSE q.read[g]]])
    /\ UNCHANGED <<grp, housed, grpRaced, moved>>
Siblings(q) == {g \in GroupIds : q.read[g] # Unread} \ {q.group}

\* Mutant: a target is passed before it is reached.
InsertBehind(q) ==
    IF q.target \in Siblings(q) THEN Place(q.read, Siblings(q), q.target) + 1
    ELSE IF q.target = 0 /\ q.place = "first" THEN 1 ELSE Cardinality(Siblings(q)) + 1
\* Where the group goes among the siblings that were read.
InsertIndex(q) ==
    IF q.target \in Siblings(q)
    THEN Place(q.read, Siblings(q), q.target) + IF q.place = "after" THEN 1 ELSE 0
    ELSE IF q.target = 0 /\ q.place = "first" THEN 1 ELSE Cardinality(Siblings(q)) + 1
\* The places once it is there.
NewPlace(q, g) == LET place == Place(q.read, Siblings(q), g) IN
    IF g = q.group THEN InsertIndex(q) ELSE IF place < InsertIndex(q) THEN place ELSE place + 1

\* One sibling is stored, with the parent of the move, if its number is another than the
\* one that was read; a row that is gone, and a name that is taken, end the request.
Renumbers(q, rows, done, i, g) ==
    LET p == q.parent
        taken == p # TreeTop /\ \E h \in GroupIds \ {g} :
                   rows[h].is = "live" /\ rows[h].parent = p /\ rows[h].name = rows[g].name IN
    IF ~done \/ q.read[g] = 10 * i THEN [rows |-> rows, ok |-> done]
    ELSE IF rows[g].is # "live" \/ p \notin LiveTops \/ taken THEN [rows |-> rows, ok |-> FALSE]
    ELSE [rows |-> [rows EXCEPT ![g].parent = p, ![g].order = 10 * i], ok |-> TRUE]
\* The rows when the siblings up to place i are stored.
Renumbered(q) ==
    LET upTo[i \in 0..LastGroup] ==
          IF i = 0 THEN [rows |-> grp, ok |-> TRUE]
          ELSE LET at == {g \in Siblings(q) \cup {q.group} : NewPlace(q, g) = i} IN
               IF at = {} THEN upTo[i - 1]
               ELSE Renumbers(q, upTo[i - 1].rows, upTo[i - 1].ok, i, CHOOSE g \in at : TRUE)
    IN upTo

Renumber(r) ==
    LET q == grpAsk[r]
        all == Renumbered(q)[LastGroup] IN
    /\ GroupAt(r, "renumber", "move")
    /\ grp' = all.rows
    /\ moved' = IF all.ok THEN [group |-> q.group, target |-> q.target, after |-> q.place = "after"] ELSE NotMoved
    /\ GroupStored(r, "move") /\ GroupEnds(r) /\ UNCHANGED housed
----------------------------------------------------------------------------
\* The group and what is below it by now, unless it has a host.
DeleteGroup(r) == LET q == grpAsk[r] IN
    /\ GroupAt(r, "store", "delete") /\ Beneath(q.group) \cap housed = {}
    /\ grp' = [g \in GroupIds |-> IF g \in Beneath(q.group) THEN [NoGroup EXCEPT !.is = "deleted"] ELSE grp[g]]
    /\ GroupStored(r, "delete") /\ Unmoved /\ GroupEnds(r) /\ UNCHANGED housed

\* The database refuses, the row is gone, or a host has come.
GroupRefused(r) == /\ grpAsk[r].pc = "store" /\ GroupEnds(r) /\ UNCHANGED <<grp, housed, grpRaced, moved>>

\* managed_hosts POST: a host in a group, or, while there is no group, in the default one.
LookForDefault(r) ==
    /\ GroupComes(r) /\ LiveGroups = {} /\ FreeGroups # {}
    /\ GroupGoes(r, [GroupIdle EXCEPT !.pc = "store", !.kind = "house"])
    /\ UNCHANGED <<grp, housed, grpRaced, moved>>
MakeDefault(r) ==
    /\ GroupAt(r, "store", "house") /\ FreeGroups # {}
    /\ grp' = [grp EXCEPT ![NewGroupId] = GroupRow(DefaultName, TreeTop, NextOrder(TreeTop, "last", 0))]
    /\ housed' = housed \cup {NewGroupId}
    /\ GroupStored(r, "house") /\ Unmoved /\ GroupEnds(r)
House(r) ==
    /\ GroupComes(r) /\ \E g \in LiveGroups \ housed : housed' = housed \cup {g}
    /\ GroupEnds(r) /\ UNCHANGED <<grp, grpRaced, moved>>
Vacate(r) ==
    /\ GroupComes(r) /\ \E g \in housed : housed' = housed \ {g}
    /\ GroupEnds(r) /\ UNCHANGED <<grp, grpRaced, moved>>

\* ensure_group_by_path, in the transaction of an import: each name of the path is found
\* below the one before it, or made; two that are found at the root are an error.  The
\* file may give the last of them its number.  Bound: one or two names.
ImportGroup(r) ==
    /\ GroupComes(r)
    /\ \E v, w \in Words, deep \in BOOLEAN :
         LET found(p, x) == {g \in Branch(p) : grp[g].name = <<x>>}
             one == found(TreeTop, v)
             first == IF one = {} THEN NewGroupId ELSE CHOOSE g \in one : TRUE
             two == IF one = {} THEN {} ELSE found(first, w)
             left == FreeGroups \ {first}
             spare == CHOOSE g \in left : \A h \in left : g <= h
             made == [g \in GroupIds |->
               IF one = {} /\ g = first THEN GroupRow(<<v>>, TreeTop, NextOrder(TreeTop, "last", 0))
               ELSE IF deep /\ two = {} /\ g = spare
               THEN GroupRow(<<w>>, first, IF one = {} THEN 10 ELSE NextOrder(first, "last", 0))
               ELSE grp[g]]
             last == IF ~deep THEN first ELSE IF two = {} THEN spare ELSE CHOOSE g \in two : TRUE IN
         /\ Cardinality(one) <= 1
         /\ (one = {} => FreeGroups # {}) /\ (deep /\ two = {} => left # {})
         /\ \E o \in {made[last].order, 20} : grp' = [made EXCEPT ![last].order = o]
         /\ (grp' # grp) /\ GroupStored(r, "import")
    /\ Unmoved /\ GroupEnds(r) /\ UNCHANGED housed
----------------------------------------------------------------------------
\* The groups of a portal whose requests have ended.
GroupsInit ==
    /\ grp \in [GroupIds -> {NoGroup} \cup {GroupRow(n, p, o) : n \in GroupNames, p \in Tops, o \in Nat}]
    /\ \A g \in LiveGroups : grp[g].parent \in LiveTops /\ ~Looped(g) /\ NameFree(g, grp[g].parent, grp[g].name)
    /\ housed \in SUBSET LiveGroups
    /\ grpAsk = [r \in GroupAsks |-> GroupIdle] /\ grpRaced = {} /\ moved = NotMoved

GroupsNext ==
    \E r \in GroupAsks :
        \/ LookForNew(r) \/ LookForRename(r) \/ LookForMove(r) \/ LookForDelete(r) \/ NewGroup(r)
        \/ RenameGroup(r) \/ MoveGroup(r) \/ ReadSiblings(r) \/ Renumber(r)
        \/ DeleteGroup(r) \/ GroupRefused(r) \/ LookForDefault(r) \/ MakeDefault(r)
        \/ House(r) \/ Vacate(r) \/ ImportGroup(r)

GroupsSpec == GroupsInit /\ [][GroupsNext]_groupVars
----------------------------------------------------------------------------
(* Properties. *)

\* Every group is shown: it is below the root, unless two moves overlapped.
GroupsShown == {"move"} \notin grpRaced => \A g \in LiveGroups : ~Looped(g)

\* A group that was moved stands where the move put it: next to its target, on the side
\* that was asked for, while nothing else is stored and nothing was in between.
MovedAsAsked == grpRaced = {} /\ moved.target # 0 =>
    LET first  == IF moved.after THEN moved.target ELSE moved.group
        second == IF moved.after THEN moved.group ELSE moved.target
        branch == Branch(grp[moved.group].parent)
        orders == [g \in GroupIds |-> grp[g].order] IN
    /\ {first, second} \subseteq branch /\ Precedes(orders, first, second)
    /\ \A g \in branch : ~(Precedes(orders, first, g) /\ Precedes(orders, g, second))

\* The path a file gives a group leads to that group and no other, so that an import of
\* what was exported adds no group: unless names have slashes, or requests overlapped,
\* which at the root can give two groups one name.
PathOf(g) ==
    LET path[n \in 0..LastGroup + 1] ==
          [h \in Tops |-> IF n = 0 \/ h = TreeTop THEN <<>> ELSE path[n - 1][grp[h].parent] \o grp[h].name]
    IN path[LastGroup + 1][g]
PathsFindGroups ==
    grpRaced = {} /\ (\A g \in LiveGroups : Len(grp[g].name) = 1) =>
        \A g, h \in LiveGroups : PathOf(g) = PathOf(h) => g = h
=============================================================================
