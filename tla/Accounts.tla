------------------------------- MODULE Accounts -------------------------------
(***************************************************************************)
(* The tables `users` and `groups` and the requests that change them       *)
(* (web/auth.go, web/user_profile.go, manage/manage.go, manage/import.go   *)
(* and the functions of sql_service/service.go they call), one action per  *)
(* statement that writes.  The queries a handler makes before its first    *)
(* write are one step; what it keeps of them is in row, grp and todo.      *)
(*                                                                         *)
(* Handlers that change one thing of an account read its row, change the   *)
(* copy and db.Save it: every column is written back, and a row that is    *)
(* not there any more is inserted again with its old key.  Keys are not    *)
(* used twice.  The database is SQLite, which does not check the foreign   *)
(* key of group_name.                                                      *)
(*                                                                         *)
(* A group keeps whether it has GroupPermission; the other permissions     *)
(* matter to no handler here.  A password stands for its hash.             *)
(***************************************************************************)
EXTENDS WebServer, Sequences

CONSTANTS
    GroupNames,
    Clients,     \* the users who log in
    Imports,     \* uploaded CSV files: sequences of [name, group]
    InitialUsers, InitialGroups,   \* the rows of an installation at work
    FirstUser, FirstGroup          \* and its next keys

Creators == Names \union {"super", ""}

UserRow ==
    [id : Nat, name : Names, group : GroupNames \union {""}, approved : BOOLEAN,
     password : {"first", "second", "generated"}, rating : {"initial", "settled"},
     creator : Creators]

GroupRow == [id : Nat, name : GroupNames, power : BOOLEAN, creator : Creators]

ASSUME AccountsAssumption ==
    /\ "super" \in GroupNames /\ "" \notin GroupNames
    /\ Clients \subseteq Names
    /\ Imports \subseteq Seq([name : Names, group : GroupNames]) \ {<<>>}
    /\ FirstUser \in Nat /\ FirstGroup \in Nat
    /\ InitialUsers \subseteq UserRow
    /\ \A u \in InitialUsers : u.id < FirstUser
    /\ \A u, v \in InitialUsers : u.id = v.id \/ u.name = v.name => u = v
    /\ InitialGroups \subseteq GroupRow
    /\ \A g \in InitialGroups : g.id < FirstGroup
    /\ \A g, h \in InitialGroups : g.id = h.id \/ g.name = h.name => g = h
    /\ \A u \in InitialUsers : \E g \in InitialGroups : g.name = u.group

VARIABLES
    users, groups,         \* the tables
    nextUser, nextGroup,   \* the next keys
    row, grp,              \* the user and the group each request has read
    todo,                  \* the users it has still to create
    wanted,                \* history: the users, had each request written its column only
    crossed,               \* history: keys written while a request held a copy
    raced                  \* history: a group was deleted while somebody entered it

tables == <<users, groups, nextUser, nextGroup>>
held == <<row, grp, todo>>
ghosts == <<wanted, crossed, raced>>
accountVars == <<tables, held, ghosts>>

\* A row that is not in the table yet has no key.
NewUser(n, g, yes, by) ==
    [id |-> 0, name |-> n, group |-> g, approved |-> yes, password |-> "first",
     rating |-> "initial", creator |-> by]

NoRow == NewUser("root", "", FALSE, "")
NoGroup == [id |-> 0, name |-> "super", power |-> FALSE, creator |-> ""]

AccountsTypeOK ==
    /\ users \subseteq UserRow
    /\ groups \subseteq GroupRow
    /\ nextUser \in Nat /\ nextGroup \in Nat
    /\ row \in [Threads -> UserRow]
    /\ grp \in [Threads -> GroupRow]
    /\ todo \in [Threads -> Seq(UserRow)]
    /\ wanted \subseteq UserRow
    /\ crossed \subseteq Nat
    /\ raced \in BOOLEAN

\* An installation at work, or a new one.
AccountsInit ==
    /\ \/ users = InitialUsers /\ groups = InitialGroups
       \/ users = {} /\ groups = {}
    /\ nextUser = FirstUser
    /\ nextGroup = FirstGroup
    /\ row = [t \in Threads |-> NoRow]
    /\ grp = [t \in Threads |-> NoGroup]
    /\ todo = [t \in Threads |-> <<>>]
    /\ wanted = users
    /\ crossed = {}
    /\ raced = FALSE

ForgetRequest(t) ==
    /\ row' = [row EXCEPT ![t] = NoRow]
    /\ grp' = [grp EXCEPT ![t] = NoGroup]
    /\ todo' = [todo EXCEPT ![t] = <<>>]

\* The request has answered.
Ends(t) ==
    /\ GoTo(t, "idle")
    /\ ForgetRequest(t)

ForgetRequests ==
    /\ row' = [t \in Threads |-> NoRow]
    /\ grp' = [t \in Threads |-> NoGroup]
    /\ todo' = [t \in Threads |-> <<>>]
    /\ UNCHANGED <<tables, ghosts>>

-----------------------------------------------------------------------------
(* What the handlers ask of the tables                                     *)

Taken(n) == \E u \in users : u.name = n
HasGroup(g) == \E h \in groups : h.name = g

\* CheckUserPermission(n, "GroupPermission")
Powerful(n) ==
    \E u \in users, g \in groups : u.name = n /\ g.name = u.group /\ g.power

\* The group's creator or a user with GroupPermission
MayManage(n, g) == g.creator = n \/ Powerful(n)

\* AuthMiddleWare: the token is valid, and the name is that of an approved account.
Admitted(n) == n \in sessions /\ \E u \in users : u.name = n /\ u.approved

\* Requests that are to write back a copy of the row with key i
Holders(i) == {t \in Threads : at[t] \in {"approving", "setting_password"} /\ row[t].id = i}

\* History: the rows ids are written by t.
Crosses(t, ids) ==
    crossed' = crossed \union {i \in ids : \E o \in Holders(i) : o # t}

\* The group of the user that t is about to insert or to save
Target(t) ==
    IF at[t] = "inserting" THEN Head(todo[t]).group
    ELSE IF at[t] \in {"approving", "setting_password"} THEN row[t].group
    ELSE ""

\* History: t enters a group whose members have been counted.
Enters(t) ==
    raced' = (raced \/ \E o \in Threads : at[o] = "deleting_group" /\ grp[o].name = Target(t))

-----------------------------------------------------------------------------
(* Starting up, and sessions                                               *)

RootRow ==
    [id |-> nextUser, name |-> "root", group |-> "super", approved |-> TRUE,
     password |-> "generated", rating |-> "initial", creator |-> "root"]

\* Root is made one of super and approved, and gets a new password every time: the one
\* that is stored is compared with the one just drawn.
Ensured(u) ==
    IF u.name # "root" THEN u
    ELSE [u EXCEPT !.group = "super", !.approved = TRUE, !.password = "generated"]

EnsureSuperGroupAndRoot ==
    /\ IF HasGroup("super")
       THEN /\ groups' = {IF g.name # "super" THEN g
                          ELSE [g EXCEPT !.power = TRUE,
                                         !.creator = IF @ = "" THEN "super" ELSE @]
                          : g \in groups}
            /\ UNCHANGED nextGroup
       ELSE /\ groups' = groups \union {[id |-> nextGroup, name |-> "super", power |-> TRUE,
                                        creator |-> "super"]}
            /\ nextGroup' = nextGroup + 1
    /\ IF Taken("root")
       THEN /\ users' = {Ensured(u) : u \in users}
            /\ wanted' = {Ensured(u) : u \in wanted}
            /\ UNCHANGED nextUser
       ELSE /\ users' = users \union {RootRow}
            /\ wanted' = wanted \union {RootRow}
            /\ nextUser' = nextUser + 1
    /\ UNCHANGED <<held, crossed, raced>>

\* LoginHandler: the password is right and the account approved.
Login(n) ==
    /\ \E u \in users : u.name = n /\ u.approved
    /\ OpenSession(n)
    /\ UNCHANGED accountVars

-----------------------------------------------------------------------------
(* Creating users                                                          *)

\* The request has the users rows to create, in this order.
StartCreating(t, rows, p) ==
    /\ Begin(t)
    /\ GoTo(t, p)
    /\ todo' = [todo EXCEPT ![t] = rows]
    /\ UNCHANGED <<life, faults, tables, row, grp, ghosts>>

\* The name is free, and the group is there: its creator will be the user's.
RegisterHandler(t, n) ==
    /\ ~Taken(n)
    /\ \E g \in groups :
        StartCreating(t, <<NewUser(n, g.name, FALSE, g.creator)>>, "inserting")

\* A submission in a name that has no account makes one: no group, not approved.
SubmitHandler(t, w, n) ==
    /\ Admitted(w)
    /\ ~Taken(n)
    /\ StartCreating(t, <<NewUser(n, "", FALSE, "")>>, "inserting")

\* The users of a CSV file, approved by the importer w; CreateUserHandler is a file of one.
ImportUsersCSVHandler(t, w, file) ==
    /\ Admitted(w)
    /\ StartCreating(t, [i \in 1..Len(file) |-> NewUser(file[i].name, file[i].group, TRUE, w)],
                     "finding_group")

\* CreateUserWithGroup, from here to the insertion
FindGroup(t) ==
    /\ At(t, "finding_group")
    /\ GoTo(t, IF HasGroup(Head(todo[t]).group) THEN "inserting" ELSE "creating_group")
    /\ UNCHANGED <<life, budgets, accountVars>>

\* Another request may have created the group since: the insertion fails, and the import.
CreateMissingGroup(t) ==
    LET u == Head(todo[t]) IN
    /\ At(t, "creating_group")
    /\ IF HasGroup(u.group)
       THEN Ends(t) /\ UNCHANGED <<groups, nextGroup>>
       ELSE /\ groups' = groups \union {[id |-> nextGroup, name |-> u.group, power |-> FALSE,
                                        creator |-> u.creator]}
            /\ nextGroup' = nextGroup + 1
            /\ GoTo(t, "inserting")
            /\ UNCHANGED held
    /\ UNCHANGED <<life, budgets, users, nextUser, ghosts>>

\* A name that is taken by now stops the request, with the users before it created.
InsertUser(t) ==
    LET u == [Head(todo[t]) EXCEPT !.id = nextUser] IN
    /\ At(t, "inserting")
    /\ IF Taken(u.name)
       THEN Ends(t) /\ UNCHANGED <<users, nextUser, wanted, raced>>
       ELSE /\ users' = users \union {u}
            /\ wanted' = wanted \union {u}
            /\ nextUser' = nextUser + 1
            /\ Enters(t)
            /\ IF Len(todo[t]) = 1 THEN Ends(t)
               ELSE /\ GoTo(t, "finding_group")
                    /\ todo' = [todo EXCEPT ![t] = Tail(@)]
                    /\ UNCHANGED <<row, grp>>
    /\ UNCHANGED <<life, budgets, groups, nextGroup, crossed>>

-----------------------------------------------------------------------------
(* Changing and deleting users                                             *)

\* The request has read the row u, has changed it to c, and goes on to p.
StartChanging(t, u, c, p) ==
    /\ Begin(t)
    /\ u \in users
    /\ GoTo(t, p)
    /\ row' = [row EXCEPT ![t] = c]
    /\ UNCHANGED <<life, faults, tables, grp, todo, ghosts>>

\* w may decide about the members of u's group; without the group nobody may.
Decides(w, u) ==
    /\ Admitted(w)
    /\ \E g \in groups : g.name = u.group /\ MayManage(w, g)

\* Mutated form: the row was read as the lists of users read it, without the password.
ApproveAsListed(t, w, u) ==
    /\ ~u.approved
    /\ Decides(w, u)
    /\ StartChanging(t, u, [u EXCEPT !.approved = TRUE, !.password = "generated"], "approving")

ApproveUserHandler(t, w, u) ==
    /\ ~u.approved
    /\ Decides(w, u)
    /\ StartChanging(t, u, [u EXCEPT !.approved = TRUE], "approving")

RejectUserHandler(t, w, u) ==
    /\ ~u.approved
    /\ Decides(w, u)
    /\ StartChanging(t, u, u, "deleting")

ResetCreatedUserPassword(t, w, u) ==
    /\ Decides(w, u)
    /\ StartChanging(t, u, [u EXCEPT !.password = "second"], "setting_password")

DeleteCreatedUser(t, w, u) ==
    /\ Decides(w, u)
    /\ StartChanging(t, u, u, "deleting")

ChangePassword(t, u) ==
    /\ Admitted(u.name)
    /\ StartChanging(t, u, [u EXCEPT !.password = "second"], "setting_password")

\* What the handler was asked to change, in the row u.
Change(t, u) ==
    IF at[t] = "approving" THEN [u EXCEPT !.approved = TRUE]
    ELSE [u EXCEPT !.password = "second"]

\* db.Save: UPDATE of every column by key; if no row has the key, INSERT with that key,
\* which fails when the name is taken again.
SaveUser(t) ==
    LET i == row[t].id IN
    /\ At(t, "approving") \/ At(t, "setting_password")
    /\ users' = IF \E u \in users : u.id = i
                THEN {IF u.id = i THEN row[t] ELSE u : u \in users}
                ELSE IF Taken(row[t].name) THEN users ELSE users \union {row[t]}
    /\ wanted' = {IF u.id = i THEN Change(t, u) ELSE u : u \in wanted}
    /\ Crosses(t, {i})
    /\ Enters(t)
    /\ Ends(t)
    /\ UNCHANGED <<life, budgets, groups, nextUser, nextGroup>>

\* DELETE by key
DeleteUser(t) ==
    LET i == row[t].id IN
    /\ At(t, "deleting")
    /\ users' = {u \in users : u.id # i}
    /\ wanted' = {u \in wanted : u.id # i}
    /\ Crosses(t, {i})
    /\ Ends(t)
    /\ UNCHANGED <<life, budgets, groups, nextUser, nextGroup, raced>>

Rated(n, u) == IF u.name = n THEN [u EXCEPT !.rating = "settled"] ELSE u

\* UPDATE users SET rating WHERE username = n: the settlement of a contest, and
\* UpdateUserRatingHandler; UpdateUserBioHandler has the same form.
SetRating(n) ==
    /\ proc # "down" /\ Spend
    /\ \E u \in users : u.name = n /\ u.rating = "initial"
    /\ users' = {Rated(n, u) : u \in users}
    /\ wanted' = {Rated(n, u) : u \in wanted}
    /\ crossed' = crossed \union {u.id : u \in {v \in users : v.name = n /\ Holders(v.id) # {}}}
    /\ UNCHANGED <<life, at, faults, groups, nextUser, nextGroup, held, raced>>

-----------------------------------------------------------------------------
(* Groups                                                                  *)

\* Permissions that the creator lacks are refused; the check and the insertion are one step.
CreateGroupHandler(w, g, power) ==
    /\ proc = "up" /\ Spend
    /\ Admitted(w)
    /\ power => Powerful(w)
    /\ ~HasGroup(g)
    /\ groups' = groups \union {[id |-> nextGroup, name |-> g, power |-> power, creator |-> w]}
    /\ nextGroup' = nextGroup + 1
    /\ UNCHANGED <<life, at, faults, users, nextUser, held, ghosts>>

\* The request has read the group g, has changed it to c, and goes on to p.
StartWithGroup(t, w, g, c, p) ==
    /\ Begin(t)
    /\ Admitted(w)
    /\ g \in groups
    /\ MayManage(w, g)
    /\ GoTo(t, p)
    /\ grp' = [grp EXCEPT ![t] = c]
    /\ UNCHANGED <<life, faults, tables, row, todo, ghosts>>

UpdateGroupCreatorHandler(t, w, g, n) ==
    /\ Taken(n)
    /\ StartWithGroup(t, w, g, [g EXCEPT !.creator = n], "saving_group")

\* db.Save of the group, and then the second statement
SaveGroup(t) ==
    LET g == grp[t] IN
    /\ At(t, "saving_group")
    /\ IF \E h \in groups : h.id = g.id
       THEN /\ groups' = {IF h.id = g.id THEN g ELSE h : h \in groups}
            /\ GoTo(t, "updating_members") /\ UNCHANGED held
       ELSE IF HasGroup(g.name) THEN Ends(t) /\ UNCHANGED groups
       ELSE /\ groups' = groups \union {g}
            /\ GoTo(t, "updating_members") /\ UNCHANGED held
    /\ UNCHANGED <<life, budgets, users, nextUser, nextGroup, ghosts>>

\* Mutated form: the wrong field of the group is written.
MovedToName(t, u) == IF u.group = grp[t].name THEN [u EXCEPT !.creator = grp[t].name] ELSE u

\* A member of the group has its creator.
Moved(t, u) == IF u.group = grp[t].name THEN [u EXCEPT !.creator = grp[t].creator] ELSE u

UpdateMembers(t) ==
    /\ At(t, "updating_members")
    /\ users' = {Moved(t, u) : u \in users}
    /\ wanted' = {Moved(t, u) : u \in wanted}
    /\ Crosses(t, {u.id : u \in {v \in users : v.group = grp[t].name}})
    /\ Ends(t)
    /\ UNCHANGED <<life, budgets, groups, nextUser, nextGroup, raced>>

\* Mutated form: the users of the group are not counted.
DeleteAnyGroup(t, w, g) ==
    /\ g.name # "super"
    /\ StartWithGroup(t, w, g, g, "deleting_group")

\* The group has no users when they are counted.
DeleteGroupHandler(t, w, g) ==
    /\ g.name # "super"
    /\ \A u \in users : u.group # g.name
    /\ StartWithGroup(t, w, g, g, "deleting_group")

RemoveGroup(t) ==
    /\ At(t, "deleting_group")
    /\ groups' = {g \in groups : g.id # grp[t].id}
    /\ raced' = (raced \/ \E o \in Threads : Target(o) = grp[t].name)
    /\ Ends(t)
    /\ UNCHANGED <<life, budgets, users, nextUser, nextGroup, wanted, crossed>>

-----------------------------------------------------------------------------
\* The statements of requests that have begun
Write(t) ==
    \/ FindGroup(t) \/ CreateMissingGroup(t) \/ InsertUser(t)
    \/ SaveUser(t) \/ DeleteUser(t)
    \/ SaveGroup(t) \/ UpdateMembers(t) \/ RemoveGroup(t)

Request(t) ==
    \/ \E n \in Names : RegisterHandler(t, n)
    \/ \E w, n \in Names : SubmitHandler(t, w, n)
    \/ \E w \in Names, file \in Imports : ImportUsersCSVHandler(t, w, file)
    \/ \E w \in Names, u \in users :
        \/ ApproveUserHandler(t, w, u)
        \/ RejectUserHandler(t, w, u)
        \/ ResetCreatedUserPassword(t, w, u)
        \/ DeleteCreatedUser(t, w, u)
    \/ \E u \in users : ChangePassword(t, u)
    \/ \E w, n \in Names, g \in groups : UpdateGroupCreatorHandler(t, w, g, n)
    \/ \E w \in Names, g \in groups : DeleteGroupHandler(t, w, g)

AccountsNext ==
    \/ \E t \in Threads : Request(t) \/ Write(t)
    \/ \E w \in Names, g \in GroupNames, power \in BOOLEAN : CreateGroupHandler(w, g, power)
    \/ \E n \in Names : SetRating(n)
    \/ \E n \in Clients : Login(n)
=============================================================================
