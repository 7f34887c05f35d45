--------------------------- MODULE Administration ---------------------------
(* backend/system_management (services.py, views/users.py, views/roles.py,
   serializers/rbac.py) and backend/accounts/views/users.py: users, their roles,
   the permissions of roles, and what is made sure of: the built-in administrator
   (account 0), its role and the rows of the permissions.

   No request is one transaction.  role_users goes from user to user; an edit saves
   the whole row it has read, then the roles; the built-in account and each
   permission are made in steps of their own, and a page's new actions are handed to
   the roles that have the page after all of them were made.  Permission checks are
   of the caller and left out; one page stands for all. *)
EXTENDS Naturals, FiniteSets

CONSTANTS
    LastUser,        \* bound: accounts are 0..LastUser, in the order of their ids
    Roles, RootRole, \* bound: ids of roles; that of the built-in administrator
    LastAdmin        \* bound: requests are 1..LastAdmin, in the order they come

ASSUME AdministrationAssumption == RootRole \in Roles /\ LastUser \in Nat /\ LastAdmin \in Nat

VARIABLES
    account,     \* auth_user rows
    member,      \* roles of each account
    role,        \* auth_group rows with their permissions
    permission,  \* permission rows
    ready,       \* _feature_permissions_ready, and the cache of the process
    req,         \* requests under way
    born,        \* history: actions whose rows were made
    crashed      \* history: the process stopped; bound: once

adminVars == <<account, member, role, permission, ready, req, born, crashed>>

AdminRequests == 1..LastAdmin
Accounts == 0..LastUser
Ordinary == 1..LastUser
Acts == {"run", "edit"}   \* actions of the page
AllPermissions == {"page"} \cup Acts
AccountRow == [is : {"free", "live", "gone"}, active : BOOLEAN, password : {"none", "old", "mine", "reset"}]
\* held: history, the role has had the page since the start and was not edited.
RoleRow == [is : {"free", "live", "gone"}, perms : SUBSET AllPermissions, held : BOOLEAN]
Ensuring == {"admin", "password", "fix", "page", "run", "edit", "inherit", "hand", "ready", "role", "join"}

NotCalled == [pc |-> "new", kind |-> "none", item |-> 0, target |-> RootRole, users |-> {}, listed |-> {},
              at |-> 1, row |-> [is |-> "free", active |-> TRUE, password |-> "none"], groups |-> {},
              perms |-> {}, made |-> {}, todo |-> {}, members |-> [u \in Accounts |-> {}],
              answer |-> "none", disturbed |-> FALSE]

AdminKinds == {"none", "roleUsers", "editUser", "password", "deleteUser", "newUser", "editRole", "newRole",
               "deleteRole", "ensure", "permissions"}
AdminRow == [pc : Ensuring \cup {"new", "each", "store", "groups", "perms", "end"}, kind : AdminKinds, item : Accounts,
             target : Roles, users : SUBSET Ordinary, listed : SUBSET Ordinary, at : 1..LastUser + 1,
             row : AccountRow, groups : SUBSET SUBSET Roles, perms : SUBSET AllPermissions, made : SUBSET Acts,
             todo : SUBSET Roles, members : [Accounts -> SUBSET Roles],
             answer : {"none", "ok", "error", "killed"}, disturbed : BOOLEAN]

AdminTypeOK ==
    /\ account \in [Accounts -> AccountRow] /\ member \in [Accounts -> SUBSET Roles]
    /\ role \in [Roles -> RoleRow] /\ permission \subseteq AllPermissions
    /\ ready \in BOOLEAN /\ born \subseteq Acts /\ crashed \in BOOLEAN
    /\ req \in [AdminRequests -> AdminRow]
    /\ \A u \in Accounts : member[u] # {} => account[u].is = "live"    \* foreign keys
    /\ \A u \in Accounts : \A x \in member[u] : role[x].is = "live"
    /\ \A x \in Roles : role[x].perms \subseteq permission

LiveUsers == {u \in Ordinary : account[u].is = "live"}
LiveRoles == {x \in Roles : role[x].is = "live"}

\* What a property still speaks of when a request has ended: an undisturbed one of these
\* kinds whole, of the others little.
Judged == {"roleUsers", "editUser", "ensure"}
Shut(q) == IF q.kind \in Judged /\ ~q.disturbed THEN [q EXCEPT !.pc = "end"]
             ELSE [NotCalled EXCEPT !.pc = "end", !.kind = q.kind, !.item = q.item, !.made = q.made,
                                    !.answer = q.answer, !.disturbed = q.disturbed]
\* r goes on to be q; what it stored, the others under way do not know.
Moves(r, q) == req' = [req EXCEPT ![r] = q]
Disturbed(q) == LET d == [q EXCEPT !.disturbed = q.kind \in Judged]
                IN IF q.pc = "end" THEN Shut(d) ELSE d
Saves(r, q) == req' = [x \in AdminRequests |-> IF x = r THEN q ELSE Disturbed(req[x])]
To(r, pc) == [req[r] EXCEPT !.pc = pc]
Ended(r, answer) == Shut([req[r] EXCEPT !.answer = answer])
In(r, pc, kind) == req[r].pc = pc /\ req[r].kind = kind
Calls(r, kind, q) ==
    /\ \A p \in 1..r : req[p].pc = "new" <=> p = r
    /\ Moves(r, [q EXCEPT !.kind = kind, !.members = IF kind \in Judged THEN member ELSE @])

SameUsers  == UNCHANGED <<account, member>>
SameRoles  == UNCHANGED <<role, permission, ready, born>>
----------------------------------------------------------------------------
(* Requests look. *)

\* role_users PUT: users are listed once; selected ones exist and none is built in.
CallRoleUsers(r) == \E x \in LiveRoles, S \in SUBSET LiveUsers :
    Calls(r, "roleUsers", [NotCalled EXCEPT !.pc = "each", !.target = x, !.users = S, !.listed = LiveUsers])

\* system_user_detail PUT and user_detail PUT read the row; groups may be asked for.
\* Bound: a password and the end of access at once or neither; no role or all of them.
CallEditUser(r) ==
    \E u \in LiveUsers \cup {0}, changed \in BOOLEAN, G \in {{}, {{}}, {LiveRoles}} :
      /\ account[u].is = "live" /\ (u = 0 => G = {})
      /\ Calls(r, "editUser", [NotCalled EXCEPT !.pc = "store", !.item = u, !.groups = G,
           !.row = [account[u] EXCEPT !.active = u = 0 \/ ~changed,
                                      !.password = IF changed THEN "reset" ELSE @]])

CallOfUser(r) == \E u \in LiveUsers, kind \in {"password", "deleteUser"} :
    Calls(r, kind, [NotCalled EXCEPT !.pc = "store", !.item = u])

CallNewUser(r) == \E S \in SUBSET LiveRoles, u \in Ordinary :
    /\ account[u].is = "free"
    /\ Calls(r, "newUser", [NotCalled EXCEPT !.pc = "store", !.item = u, !.groups = {S}])

CallOfRole(r) == \E x \in Roles, kind \in {"editRole", "newRole", "deleteRole"}, P \in {{}, permission \ Acts, permission} :
    /\ role[x].is = IF kind = "newRole" THEN "free" ELSE "live"
    /\ kind = "deleteRole" => P = {}
    /\ Calls(r, kind, [NotCalled EXCEPT !.pc = "store", !.target = x, !.perms = P])

\* ensure_builtin_admin; ensure_feature_permissions when the cache has run out.
CallEnsure(r) == \/ Calls(r, "ensure", [NotCalled EXCEPT !.pc = "admin"])
                 \/ Calls(r, "permissions", [NotCalled EXCEPT !.pc = "page"])

Call(r) == /\ \/ CallRoleUsers(r) \/ CallEditUser(r) \/ CallOfUser(r) \/ CallNewUser(r)
              \/ CallOfRole(r) \/ CallEnsure(r)
           /\ SameUsers /\ SameRoles /\ UNCHANGED crashed
----------------------------------------------------------------------------
(* Users and their roles. *)

\* Mutant: the role is added to what a selected user has.
RolesLeft(roles, x, selected) == IF selected THEN roles \cup {x} ELSE roles \ {x}

\* A selected user is given this role only; of the others it is taken.
RolesAfter(roles, x, selected) == IF selected THEN {x} ELSE roles \ {x}

EachUser(r) ==
    LET q == req[r]
        u == q.at
        selected == u \in q.users IN
    /\ q.pc = "each" /\ UNCHANGED <<account, crashed>> /\ SameRoles
    /\ \/ /\ u > LastUser /\ UNCHANGED member
          /\ Moves(r, Ended(r, IF q.target \in LiveRoles THEN "ok" ELSE "error"))
       \/ /\ u \in Ordinary \ q.listed /\ UNCHANGED member
          /\ Moves(r, [q EXCEPT !.at = @ + 1])
       \/ /\ u \in q.listed /\ (selected => u \in LiveUsers /\ q.target \in LiveRoles)
          /\ member' = [member EXCEPT ![u] = RolesAfter(@, q.target, selected)]
          /\ Saves(r, [q EXCEPT !.at = @ + 1])
       \/ /\ u \in q.listed /\ selected /\ (u \notin LiveUsers \/ q.target \notin LiveRoles)
          /\ UNCHANGED member /\ Moves(r, Ended(r, "error"))

\* instance.save(): the whole row; a row that was deleted is inserted again.
\* create_user.
SaveUser(r) == LET q == req[r] IN
    /\ In(r, "store", "editUser") \/ In(r, "store", "newUser")
    /\ account' = [account EXCEPT ![q.item] =
                     IF q.kind = "newUser" THEN [is |-> "live", active |-> TRUE, password |-> "old"] ELSE q.row]
    /\ q.kind = "newUser" => account[q.item].is = "free"
    /\ Saves(r, IF q.groups # {} THEN To(r, "groups")
                ELSE IF q.item = 0 THEN To(r, "admin") ELSE Ended(r, "ok"))
    /\ UNCHANGED <<member, crashed>> /\ SameRoles

\* groups.set: one transaction; the user was saved before.
SaveGroups(r) == LET q == req[r] IN
    /\ q.pc = "groups" /\ UNCHANGED <<account, crashed>> /\ SameRoles
    /\ \E S \in q.groups :
         IF account[q.item].is = "live" /\ S \subseteq LiveRoles
         THEN member' = [member EXCEPT ![q.item] = S] /\ Saves(r, Ended(r, "ok"))
         ELSE UNCHANGED member /\ Moves(r, Ended(r, "error"))

\* profile_password saves one column, and no row is an error.
SavePassword(r) == LET u == req[r].item IN
    /\ In(r, "store", "password") /\ UNCHANGED <<member, crashed>> /\ SameRoles
    /\ IF u \in LiveUsers
       THEN account' = [account EXCEPT ![u].password = "mine"] /\ Saves(r, Ended(r, "ok"))
       ELSE UNCHANGED account /\ Moves(r, Ended(r, "error"))

DeleteUser(r) == LET u == req[r].item IN
    /\ In(r, "store", "deleteUser") /\ UNCHANGED crashed /\ SameRoles
    /\ account' = [account EXCEPT ![u].is = "gone"] /\ member' = [member EXCEPT ![u] = {}]
    /\ Saves(r, Ended(r, "ok"))
----------------------------------------------------------------------------
(* Roles. *)

\* RoleSerializer.save: the name, which inserts a deleted row again ...
SaveRole(r) == LET n == req[r].target IN
    /\ In(r, "store", "editRole") \/ (In(r, "store", "newRole") /\ role[n].is = "free")
    /\ role' = [role EXCEPT ![n] = [is |-> "live", perms |-> @.perms, held |-> FALSE]]
    /\ Saves(r, To(r, "perms")) /\ SameUsers /\ UNCHANGED <<permission, ready, born, crashed>>
\* ... then permissions.set, in a transaction of its own.
SetPermissions(r) == LET n == req[r].target IN
    /\ req[r].pc = "perms" /\ SameUsers /\ UNCHANGED <<permission, ready, born, crashed>>
    /\ IF n \in LiveRoles
       THEN /\ role' = [role EXCEPT ![n] = [is |-> "live", perms |-> req[r].perms, held |-> FALSE]]
            /\ Saves(r, Ended(r, "ok"))
       ELSE UNCHANGED role /\ Moves(r, Ended(r, "error"))

\* Mutant: users keep the role.
DeleteRoleOnly(r) == LET g == req[r].target IN
    /\ In(r, "store", "deleteRole")
    /\ role' = [role EXCEPT ![g] = [is |-> "gone", perms |-> {}, held |-> FALSE]]
    /\ Saves(r, Ended(r, "ok")) /\ UNCHANGED <<account, member, permission, ready, born, crashed>>

DeleteRole(r) == LET g == req[r].target IN
    /\ In(r, "store", "deleteRole")
    /\ role' = [role EXCEPT ![g] = [is |-> "gone", perms |-> {}, held |-> FALSE]]
    /\ member' = [u \in Accounts |-> member[u] \ {g}]
    /\ Saves(r, Ended(r, "ok")) /\ UNCHANGED <<account, permission, ready, born, crashed>>
----------------------------------------------------------------------------
(* What is made sure of. *)

\* Mutant: the new account is left as get_or_create makes it.
EnsureAdminOnly(r) ==
    /\ req[r].pc = "admin" /\ UNCHANGED <<member, crashed>> /\ SameRoles
    /\ IF account[0].is = "live" THEN UNCHANGED account /\ Moves(r, To(r, "fix"))
       ELSE /\ account' = [account EXCEPT ![0] = [is |-> "live", active |-> TRUE, password |-> "none"]]
            /\ Saves(r, To(r, "fix"))

\* get_or_create; the password of a new account is set by a step of its own.
EnsureAdmin(r) ==
    /\ req[r].pc = "admin" /\ UNCHANGED <<member, crashed>> /\ SameRoles
    /\ IF account[0].is = "live" THEN UNCHANGED account /\ Moves(r, To(r, "fix"))
       ELSE /\ account' = [account EXCEPT ![0] = [is |-> "live", active |-> TRUE, password |-> "none"]]
            /\ Saves(r, To(r, "password"))

EnsurePassword(r) ==
    /\ req[r].pc = "password" /\ UNCHANGED <<member, crashed>> /\ SameRoles
    /\ account' = [account EXCEPT ![0].password = "old"] /\ Saves(r, To(r, "fix"))

\* The fields that must have their value, by name.
EnsureFields(r) ==
    /\ req[r].pc = "fix" /\ UNCHANGED <<member, crashed>> /\ SameRoles
    /\ account' = [account EXCEPT ![0].active = TRUE]
    /\ IF account[0].active THEN Moves(r, To(r, "page")) ELSE Saves(r, To(r, "page"))

After(r, q) == IF q.kind = "permissions" THEN [q EXCEPT !.pc = "end", !.answer = "ok"]
               ELSE [q EXCEPT !.pc = "role"]

\* Nothing is made when the process knows that all is there.
EnsurePage(r) ==
    /\ req[r].pc = "page" /\ SameUsers /\ UNCHANGED <<role, ready, born, crashed>>
    /\ \/ ready /\ permission = AllPermissions /\ UNCHANGED permission /\ Moves(r, After(r, req[r]))
       \/ /\ ~ready \/ permission # AllPermissions
          /\ permission' = permission \cup {"page"} /\ Moves(r, To(r, "run"))

\* Mutant: of the actions made, the last is handed on.
MadeLast(made, act) == {act}
Made(made, act) == made \cup {act}

\* One permission row after the other.
EnsureAct(r) ==
    /\ req[r].pc \in Acts /\ SameUsers /\ UNCHANGED <<role, ready, crashed>>
    /\ LET act == req[r].pc
           new == act \notin permission
           next == IF act = "run" THEN "edit" ELSE "inherit" IN
       /\ permission' = permission \cup {act}
       /\ born' = IF new THEN born \cup {act} ELSE born
       /\ Moves(r, [req[r] EXCEPT !.pc = next, !.made = IF new THEN Made(@, act) ELSE @])

\* inherit_created_action_permissions: the roles that have the page now, each in its turn.
InheritFor(r) ==
    /\ req[r].pc = "inherit" /\ SameUsers /\ SameRoles /\ UNCHANGED crashed
    /\ Moves(r, [req[r] EXCEPT !.pc = "hand",
          !.todo = IF req[r].made = {} THEN {} ELSE {x \in LiveRoles : "page" \in role[x].perms}])

Hand(r) ==
    /\ req[r].pc = "hand" /\ SameUsers /\ UNCHANGED <<permission, ready, born, crashed>>
    /\ \/ req[r].todo = {} /\ UNCHANGED role /\ Moves(r, To(r, "ready"))
       \/ \E x \in req[r].todo :
            /\ role' = IF x \in LiveRoles THEN [role EXCEPT ![x].perms = @ \cup req[r].made] ELSE role
            /\ Saves(r, IF x \in LiveRoles THEN [req[r] EXCEPT !.todo = @ \ {x}] ELSE Ended(r, "error"))

EnsureReady(r) ==
    /\ req[r].pc = "ready" /\ SameUsers /\ UNCHANGED <<role, permission, born, crashed>>
    /\ ready' = TRUE /\ Moves(r, After(r, req[r]))

\* ensure_builtin_admin_role
EnsureRole(r) ==
    /\ req[r].pc = "role" /\ SameUsers /\ UNCHANGED <<permission, ready, born, crashed>>
    /\ role' = [role EXCEPT ![RootRole] = [@ EXCEPT !.is = "live", !.perms = permission]]
    /\ Saves(r, To(r, "join"))

EnsureJoined(r) ==
    /\ req[r].pc = "join" /\ UNCHANGED <<account, crashed>> /\ SameRoles
    /\ IF RootRole \in LiveRoles
       THEN member' = [member EXCEPT ![0] = @ \cup {RootRole}] /\ Saves(r, Ended(r, "ok"))
       ELSE UNCHANGED member /\ Moves(r, Ended(r, "error"))
----------------------------------------------------------------------------
Restart ==
    /\ ~crashed /\ crashed' = TRUE /\ ready' = FALSE /\ SameUsers /\ UNCHANGED <<role, permission, born>>
    /\ req' = [r \in AdminRequests |-> IF req[r].pc \in {"new", "end"} THEN req[r] ELSE Ended(r, "killed")]

\* A fresh installation, one whose actions are newer than its roles, or one in use.
AdminInit ==
    /\ permission \in {{}, {"page"}, AllPermissions} /\ ready = FALSE
    /\ \E there, full \in BOOLEAN :
         /\ account = [u \in Accounts |->
              IF u = 0 THEN [is |-> IF there THEN "live" ELSE "free", active |-> TRUE,
                             password |-> IF there THEN "old" ELSE "none"]
              ELSE [is |-> IF u = LastUser /\ ~full THEN "free" ELSE "live", active |-> TRUE, password |-> "old"]]
         /\ role = [x \in Roles |->
              IF x = RootRole /\ ~there THEN [is |-> "free", perms |-> {}, held |-> FALSE]
              ELSE [is |-> "live", perms |-> permission \ Acts, held |-> "page" \in permission]]
         /\ member = [u \in Accounts |-> IF u = 0 THEN IF there THEN {RootRole} ELSE {}
                                         ELSE IF u = LastUser /\ ~full THEN {} ELSE Roles \ {RootRole}]
    /\ req = [r \in AdminRequests |-> NotCalled] /\ born = {} /\ crashed = FALSE

AdminNext == Restart \/ \E r \in AdminRequests :
    \/ Call(r) \/ EachUser(r) \/ SaveUser(r) \/ SaveGroups(r) \/ SavePassword(r) \/ DeleteUser(r)
    \/ SaveRole(r) \/ SetPermissions(r) \/ DeleteRole(r) \/ EnsureAdmin(r) \/ EnsurePassword(r) \/ EnsureFields(r)
    \/ EnsurePage(r) \/ EnsureAct(r) \/ InheritFor(r) \/ Hand(r) \/ EnsureReady(r)
    \/ EnsureRole(r) \/ EnsureJoined(r)

AdminSpec == AdminInit /\ [][AdminNext]_adminVars
----------------------------------------------------------------------------
(* Properties. *)

\* A role's users are those selected, who have no other role, and nobody else has lost a
\* role but this; an edit without roles or password keeps both.  Unless somebody else
\* stored meanwhile: an edit brings back the row as it was read.
RolesAsAsked == \A r \in AdminRequests : LET q == req[r] IN
    q.answer = "ok" /\ ~q.disturbed =>
      /\ q.kind = "roleUsers" =>
           \A u \in Accounts : member[u] = IF u \in q.users THEN {q.target}
                                           ELSE IF u = 0 THEN q.members[u] ELSE q.members[u] \ {q.target}
      /\ q.kind = "editUser" /\ q.item # 0 =>
           /\ account[q.item] = q.row
           /\ \A u \in Accounts : u # q.item \/ q.groups = {} => member[u] = q.members[u]

\* After the built-in administrator was made sure of it is active, in its role, and that
\* has every permission.  It has a password, unless the process stopped before that was
\* set, or an edit saved the row as it was before: then nothing sets it any more.
AdminInCharge ==
    /\ \A r \in AdminRequests : req[r].kind = "ensure" /\ req[r].answer = "ok" /\ ~req[r].disturbed =>
         /\ account[0].is = "live" /\ account[0].active /\ RootRole \in member[0]
         /\ role[RootRole].perms = AllPermissions
    /\ account[0].is = "live" /\ account[0].password = "none" =>
         \/ crashed
         \/ \E r \in AdminRequests :
              \/ req[r].pc = "password"
              \/ req[r].kind = "editUser" /\ req[r].item = 0 /\ req[r].disturbed

\* A role that could use the page before its actions were told apart can use them all
\* after, unless the process stopped between the rows and the roles: rows that are there
\* are not handed on later.
ActionsInherited ==
    ~crashed /\ (\A r \in AdminRequests : req[r].pc \notin {"page"} \cup Acts \cup {"inherit", "hand"}
                                          /\ (req[r].made = {} \/ req[r].answer # "error")) =>
        \A x \in Roles : role[x].held => born \subseteq role[x].perms
=============================================================================
