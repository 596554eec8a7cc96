----------------------------- MODULE ServerProofs -----------------------------
(***************************************************************************)
(* The accounts, groups and messages of the web process, for any number of *)
(* requests at once, any names and groups, any files of users and any      *)
(* installation it starts with.                                            *)
(***************************************************************************)
EXTENDS ServerProps, SequenceTheorems, TLAPS

-----------------------------------------------------------------------------
(* What requests begin with                                                *)

Creating == {"finding_group", "creating_group", "inserting"}
SavingUser == {"approving", "setting_password"}

\* Each of these users is given a group.
GroupsGiven(list) == \A i \in 1..Len(list) : list[i].group # ""

\* There is somebody to create next, and who may have to create a group knows its name.
MayCreate(list, p) ==
    /\ Len(list) > 0
    /\ GroupsGiven(list) \/ (p = "inserting" /\ Len(list) = 1)

\* A request that creates users begins.
Creates(t) ==
    \E list \in Seq(UserRow) : \E p \in {"finding_group", "inserting"} :
        /\ MayCreate(list, p)
        /\ p = "inserting" => list[1].group = "" \/ HasGroup(list[1].group)
        /\ StartCreating(t, list, p)

\* A request that changes or deletes a user begins.
Changes(t) ==
    \E u \in users : \E c \in UserRow : \E p \in SavingUser \union {"deleting"} :
        /\ c.id = u.id /\ c.name = u.name /\ c.group = u.group
        /\ p = "approving" => c = [u EXCEPT !.approved = TRUE]
        /\ p = "setting_password" => c = [u EXCEPT !.password = "second"]
        /\ StartChanging(t, u, c, p)

\* A request that changes or deletes a group begins.
Regroups(t) ==
    \E g \in groups : \E c \in GroupRow : \E p \in {"saving_group", "deleting_group"} :
        /\ c.id = g.id /\ c.name = g.name
        /\ p = "deleting_group" => \A u \in users : u.group # g.name
        /\ \E w \in Names : StartWithGroup(t, w, g, c, p)

LEMMA NewUserTyped ==
    ASSUME NEW n \in Names, NEW g \in GroupNames \union {""}, NEW yes \in BOOLEAN,
           NEW by \in Creators
    PROVE  /\ NewUser(n, g, yes, by) \in UserRow
           /\ NewUser(n, g, yes, by).group = g
BY DEF NewUser, UserRow

LEMMA Single ==
    ASSUME NEW u \in UserRow
    PROVE  /\ <<u>> \in Seq(UserRow)
           /\ <<u>>[1] = u
           /\ MayCreate(<<u>>, "inserting")
BY DEF MayCreate

LEMMA RequestForms ==
    ASSUME AccountsTypeOK, NEW t \in Threads, Request(t)
    PROVE  Creates(t) \/ Changes(t) \/ Regroups(t)
<1> USE DEF AccountsTypeOK
<1>1. ASSUME NEW n \in Names, RegisterHandler(t, n) PROVE Creates(t)
  <2>1. PICK g \in groups : StartCreating(t, <<NewUser(n, g.name, FALSE, g.creator)>>, "inserting")
    BY <1>1 DEF RegisterHandler
  <2> DEFINE u == NewUser(n, g.name, FALSE, g.creator)
  <2>2. u \in UserRow /\ u.group = g.name
    BY NewUserTyped DEF GroupRow
  <2> HIDE DEF u
  <2>3. <<u>> \in Seq(UserRow) /\ MayCreate(<<u>>, "inserting") /\ <<u>>[1] = u
    BY <2>2, Single
  <2>4. HasGroup(g.name)
    BY DEF HasGroup
  <2> DEFINE list == <<u>>
  <2>5. /\ list \in Seq(UserRow) /\ MayCreate(list, "inserting") /\ HasGroup(list[1].group)
        /\ StartCreating(t, list, "inserting")
    BY <2>1, <2>2, <2>3, <2>4 DEF u
  <2> HIDE DEF list
  <2> QED
    BY <2>5 DEF Creates
<1>2. ASSUME NEW w \in Names, NEW n \in Names, SubmitHandler(t, w, n) PROVE Creates(t)
  <2> DEFINE u == NewUser(n, "", FALSE, "")
  <2>1. u \in UserRow /\ u.group = ""
    BY NewUserTyped DEF Creators
  <2>2. StartCreating(t, <<u>>, "inserting")
    BY <1>2 DEF SubmitHandler
  <2> HIDE DEF u
  <2>3. <<u>> \in Seq(UserRow) /\ MayCreate(<<u>>, "inserting") /\ <<u>>[1] = u
    BY <2>1, Single
  <2> DEFINE list == <<u>>
  <2>4. /\ list \in Seq(UserRow) /\ MayCreate(list, "inserting") /\ list[1].group = ""
        /\ StartCreating(t, list, "inserting")
    BY <2>1, <2>2, <2>3 DEF u
  <2> HIDE DEF list
  <2> QED
    BY <2>4 DEF Creates
<1>3. ASSUME NEW w \in Names, NEW f \in Imports, ImportUsersCSVHandler(t, w, f)
      PROVE  Creates(t)
  <2> DEFINE list == [i \in 1..Len(f) |-> NewUser(f[i].name, f[i].group, TRUE, w)]
  <2>1. f \in Seq([name : Names, group : GroupNames]) /\ f # <<>>
    BY AccountsAssumption
  <2>2. ASSUME NEW i \in 1..Len(f) PROVE f[i].name \in Names /\ f[i].group \in GroupNames
    <3>1. f[i] \in [name : Names, group : GroupNames]
      BY <2>1, ElementOfSeq
    <3> QED
      BY <3>1
  <2>3. \A i \in 1..Len(f) : NewUser(f[i].name, f[i].group, TRUE, w) \in UserRow
    BY <2>2, NewUserTyped DEF Creators
  <2>4. Len(f) \in Nat /\ Len(f) > 0
    BY <2>1, EmptySeq
  <2>5. list \in [1..Len(f) -> UserRow]
    BY <2>3
  <2>6. StartCreating(t, list, "finding_group")
    BY <1>3 DEF ImportUsersCSVHandler
  <2> HIDE DEF list
  <2>7. list \in Seq(UserRow)
    BY <2>4, <2>5, SeqDef
  <2>8. Len(list) = Len(f)
    BY <2>4, <2>5, <2>7, LenProperties
  <2>9. GroupsGiven(list)
    <3>1. ASSUME NEW i \in 1..Len(f) PROVE NewUser(f[i].name, f[i].group, TRUE, w).group # ""
      BY <2>2, AccountsAssumption DEF NewUser
    <3>2. ASSUME NEW i \in 1..Len(f) PROVE list[i].group # ""
      BY <3>1 DEF list
    <3> QED
      BY <2>8, <3>2 DEF GroupsGiven
  <2>10. MayCreate(list, "finding_group")
    <3>1. Len(list) > 0
      BY <2>4, <2>8
    <3> QED
      BY <2>9, <3>1 DEF MayCreate
  <2> QED
    BY <2>6, <2>7, <2>10 DEF Creates
<1>4. ASSUME NEW w \in Names, NEW u \in users,
             \/ ApproveUserHandler(t, w, u) \/ RejectUserHandler(t, w, u)
             \/ ResetCreatedUserPassword(t, w, u) \/ DeleteCreatedUser(t, w, u)
             \/ ChangePassword(t, u)
      PROVE  Changes(t)
  <2>1. /\ [u EXCEPT !.approved = TRUE] \in UserRow
        /\ [u EXCEPT !.password = "second"] \in UserRow
        /\ u \in UserRow
    BY DEF UserRow
  <2>2. CASE ApproveUserHandler(t, w, u)
    BY <2>1, <2>2 DEF ApproveUserHandler, Changes, UserRow, SavingUser
  <2>3. CASE RejectUserHandler(t, w, u) \/ DeleteCreatedUser(t, w, u)
    BY <2>1, <2>3 DEF RejectUserHandler, DeleteCreatedUser, Changes, UserRow, SavingUser
  <2>4. CASE ResetCreatedUserPassword(t, w, u) \/ ChangePassword(t, u)
    BY <2>1, <2>4 DEF ResetCreatedUserPassword, ChangePassword, Changes, UserRow, SavingUser
  <2> QED
    BY <1>4, <2>2, <2>3, <2>4
<1>5. ASSUME NEW w \in Names, NEW n \in Names, NEW g \in groups,
             UpdateGroupCreatorHandler(t, w, g, n)
      PROVE  Regroups(t)
  <2>1. [g EXCEPT !.creator = n] \in GroupRow
    BY DEF GroupRow, Creators
  <2> QED
    BY <1>5, <2>1 DEF UpdateGroupCreatorHandler, Regroups, GroupRow
<1>6. ASSUME NEW w \in Names, NEW g \in groups, DeleteGroupHandler(t, w, g)
      PROVE  Regroups(t)
  BY <1>6 DEF DeleteGroupHandler, Regroups
<1>7. Names # {}
  BY ServerAssumption
<1> QED
  BY <1>1, <1>2, <1>3, <1>4, <1>5, <1>6, <1>7 DEF Request

-----------------------------------------------------------------------------
(* Types                                                                   *)

\* Requests that create users have users to create.
HasUsers == \A t \in Threads : at[t] \in Creating => MayCreate(todo[t], at[t])

\* Messages are numbered by requests.
TypeInv == TypeOK /\ HasUsers /\ posts <= requests

LEMMA RowsTyped ==
    /\ NoRow \in UserRow
    /\ NoGroup \in GroupRow
    /\ \A i \in Nat : \A u \in UserRow : [u EXCEPT !.id = i] \in UserRow
    /\ \A u \in UserRow : [u EXCEPT !.approved = TRUE] \in UserRow
    /\ \A u \in UserRow : [u EXCEPT !.password = "second"] \in UserRow
    /\ \A u \in UserRow : [u EXCEPT !.rating = "settled"] \in UserRow
    /\ \A u \in UserRow : Ensured(u) \in UserRow
<1>1. NoRow \in UserRow
  BY ServerAssumption, NewUserTyped DEF NoRow, Creators
<1>2. NoGroup \in GroupRow
  BY AccountsAssumption DEF NoGroup, GroupRow, Creators
<1> QED
  BY <1>1, <1>2, AccountsAssumption DEF UserRow, Ensured

\* The tables as the process leaves them when it starts
LEMMA StartTyped ==
    ASSUME AccountsTypeOK, EnsureSuperGroupAndRoot
    PROVE  AccountsTypeOK'
<1> USE DEF AccountsTypeOK
<1>1. RootRow \in UserRow
  BY ServerAssumption, AccountsAssumption DEF RootRow, UserRow, Creators
<1>2. users' \subseteq UserRow /\ wanted' \subseteq UserRow /\ nextUser' \in Nat
  <2>1. CASE Taken("root")
    <3>1. /\ users' = {Ensured(u) : u \in users}
          /\ wanted' = {Ensured(u) : u \in wanted}
          /\ nextUser' = nextUser
      BY <2>1 DEF EnsureSuperGroupAndRoot
    <3>2. \A u \in UserRow : Ensured(u) \in UserRow
      BY RowsTyped
    <3>3. users' \subseteq UserRow
      BY <3>1, <3>2
    <3>4. wanted' \subseteq UserRow
      BY <3>1, <3>2
    <3>5. nextUser' \in Nat
      BY <3>1
    <3> QED
      BY <3>3, <3>4, <3>5
  <2>2. CASE ~Taken("root")
    <3>1. /\ users' = users \union {RootRow}
          /\ wanted' = wanted \union {RootRow}
          /\ nextUser' = nextUser + 1
      BY <2>2 DEF EnsureSuperGroupAndRoot
    <3> QED
      BY <1>1, <3>1
  <2> QED
    BY <2>1, <2>2
<1>3. groups' \subseteq GroupRow /\ nextGroup' \in Nat
  <2>1. CASE HasGroup("super")
    <3>1. \A g \in GroupRow : [g EXCEPT !.power = TRUE,
                                        !.creator = IF @ = "" THEN "super" ELSE @] \in GroupRow
      BY DEF GroupRow, Creators
    <3>2. /\ groups' = {IF g.name # "super" THEN g
                         ELSE [g EXCEPT !.power = TRUE,
                                        !.creator = IF @ = "" THEN "super" ELSE @]
                         : g \in groups}
          /\ nextGroup' = nextGroup
      BY <2>1 DEF EnsureSuperGroupAndRoot
    <3>3. ASSUME NEW g \in groups
          PROVE  IF g.name # "super" THEN g \in GroupRow
                 ELSE [g EXCEPT !.power = TRUE,
                                !.creator = IF @ = "" THEN "super" ELSE @] \in GroupRow
      BY <3>1
    <3>4. groups' \subseteq GroupRow
      BY <3>2, <3>3
    <3>5. nextGroup' \in Nat
      BY <3>2
    <3> QED
      BY <3>4, <3>5
  <2>2. CASE ~HasGroup("super")
    <3> DEFINE super == [id |-> nextGroup, name |-> "super", power |-> TRUE, creator |-> "super"]
    <3>1. super \in GroupRow
      BY AccountsAssumption DEF GroupRow, Creators
    <3>2. groups' = groups \union {super} /\ nextGroup' = nextGroup + 1
      BY <2>2 DEF EnsureSuperGroupAndRoot
    <3> HIDE DEF super
    <3> QED
      BY <3>1, <3>2
  <2> QED
    BY <2>1, <2>2
<1> QED
  BY <1>2, <1>3 DEF EnsureSuperGroupAndRoot, held

\* A request that ends or fails, and all of them at the end of the process
LEMMA ForgetTyped ==
    ASSUME AccountsTypeOK
    PROVE  /\ \A t \in Threads : ForgetRequest(t) /\ UNCHANGED <<tables, ghosts>> => AccountsTypeOK'
           /\ ForgetRequests => AccountsTypeOK'
<1>1. <<>> \in Seq(UserRow)
  BY EmptySeq
<1>2. ASSUME NEW t \in Threads, ForgetRequest(t), UNCHANGED <<tables, ghosts>>
      PROVE  AccountsTypeOK'
  BY <1>1, <1>2, RowsTyped DEF AccountsTypeOK, ForgetRequest, tables, ghosts
<1>3. ASSUME ForgetRequests PROVE AccountsTypeOK'
  BY <1>1, <1>3, RowsTyped DEF AccountsTypeOK, ForgetRequests, tables, ghosts
<1> QED
  BY <1>2, <1>3

LEMMA ServerStepTyped ==
    ASSUME ServerTypeOK, AccountsTypeOK, [Next]_vars
    PROVE  ServerTypeOK'
<1> USE ServerAssumption
<1>1. CASE Start
  BY <1>1 DEF ServerTypeOK, Start, StartProcess, budgets
<1>2. CASE Stop
  BY <1>2 DEF ServerTypeOK, Stop, Exit, Crash, Fault, Die, budgets, Places
<1>3. ASSUME NEW t \in Threads, Fail(t) PROVE ServerTypeOK'
  BY <1>3 DEF ServerTypeOK, Fail, StatementFails, Fault, GoTo, life, Places
<1>4. ASSUME NEW c \in Consoles, Receive(c) PROVE ServerTypeOK'
  <2>1. command' \in [Consoles -> Commands \union {"none"}]
    BY <1>4 DEF ServerTypeOK, Receive
  <2>2. proc' \in {"down", "up", "stopping"} /\ listening' \in {"waiting", "clearing"}
    BY <1>4 DEF ServerTypeOK, Receive
  <2> QED
    BY <1>4, <2>1, <2>2 DEF ServerTypeOK, Receive, budgets
<1>14. ASSUME NEW c \in Consoles, NEW word \in Commands, SendCommand(c, word) PROVE ServerTypeOK'
  BY <1>14 DEF ServerTypeOK, SendCommand, Spend
<1>15. ASSUME NEW c \in Consoles, Console(c) PROVE ServerTypeOK'
  <2>1. CASE Receive(c)
    BY <1>4, <2>1
  <2>2. CASE \E word \in Commands : SendCommand(c, word)
    BY <1>14, <2>2
  <2>3. Receive(c) \/ \E word \in Commands : SendCommand(c, word)
    BY <1>15 DEF Console
  <2> QED
    BY <2>1, <2>2, <2>3
<1>5. ASSUME NEW n \in Names, TokenExpires(n) PROVE ServerTypeOK'
  BY <1>5 DEF ServerTypeOK, TokenExpires, Expire, budgets
<1>6. ASSUME NEW t \in Threads, Creates(t) \/ Changes(t) \/ Regroups(t) PROVE ServerTypeOK'
  <2>1. Creates(t) => \E p \in Places : Begin(t) /\ GoTo(t, p) /\ UNCHANGED <<life, faults>>
    BY DEF Creates, StartCreating, Places
  <2>2. Changes(t) => \E p \in Places : Begin(t) /\ GoTo(t, p) /\ UNCHANGED <<life, faults>>
    BY DEF Changes, StartChanging, Places, SavingUser
  <2>3. Regroups(t) => \E p \in Places : Begin(t) /\ GoTo(t, p) /\ UNCHANGED <<life, faults>>
    BY DEF Regroups, StartWithGroup, Places
  <2>4. \E p \in Places : Begin(t) /\ GoTo(t, p) /\ UNCHANGED <<life, faults>>
    BY <1>6, <2>1, <2>2, <2>3
  <2> QED
    BY <2>4 DEF ServerTypeOK, Begin, Spend, GoTo, life
<1>7. ASSUME NEW t \in Threads, Write(t) PROVE ServerTypeOK'
  <2>1. UNCHANGED <<life, budgets>> /\ \E p \in Places : GoTo(t, p)
    BY <1>7 DEF Write, FindGroup, CreateMissingGroup, InsertUser, SaveUser, DeleteUser, SaveGroup,
                UpdateMembers, RemoveGroup, Ends, Places
  <2> QED
    BY <2>1 DEF ServerTypeOK, life, budgets, GoTo
<1>8. ASSUME NEW w \in Names, NEW g \in GroupNames, NEW power \in BOOLEAN,
             CreateGroupHandler(w, g, power)
      PROVE  ServerTypeOK'
  BY <1>8 DEF ServerTypeOK, CreateGroupHandler, Spend, life
<1>9. ASSUME NEW n \in Names, SetRating(n) PROVE ServerTypeOK'
  BY <1>9 DEF ServerTypeOK, SetRating, Spend, life
<1>10. ASSUME NEW n \in Names, OpenSession(n) PROVE ServerTypeOK'
  BY <1>10 DEF ServerTypeOK, OpenSession, budgets
<1>11. CASE BoardNext
  <2>1. CASE ClearMessages
    BY <2>1 DEF ServerTypeOK, ClearMessages, Cleared, budgets
  <2>2. ASSUME NEW t \in Threads, MessageHandler(t) PROVE ServerTypeOK'
    BY <2>2 DEF ServerTypeOK, MessageHandler, Spend, life
  <2>3. ASSUME NEW t \in Threads, NEW i \in DOMAIN file, DeleteMessage(t, i) PROVE ServerTypeOK'
    BY <2>3 DEF ServerTypeOK, DeleteMessage, Begin, Spend, GoTo, life, Places
  <2>4. ASSUME NEW t \in Threads, TruncateFile(t) \/ WriteLines(t) PROVE ServerTypeOK'
    BY <2>4 DEF ServerTypeOK, TruncateFile, WriteLines, GoTo, life, budgets, Places
  <2> QED
    BY <1>11, <2>1, <2>2, <2>3, <2>4 DEF BoardNext
<1>12. CASE UNCHANGED vars
  BY <1>12 DEF ServerTypeOK, vars, serverVars, life, budgets
<1>13. CASE AccountsNext
  <2>1. ASSUME NEW t \in Threads, Request(t) PROVE ServerTypeOK'
    BY <1>6, <2>1, RequestForms
  <2>2. ASSUME NEW n \in Clients, Login(n) PROVE ServerTypeOK'
    BY <1>10, <2>2, AccountsAssumption DEF Login
  <2> QED
    BY <1>7, <1>8, <1>9, <1>13, <2>1, <2>2 DEF AccountsNext
<1> QED
  BY <1>1, <1>2, <1>3, <1>15, <1>5, <1>11, <1>12, <1>13 DEF Next

\* Requests begin with a row that is one, or with users to create.
LEMMA BeginTyped ==
    ASSUME TypeInv, NEW t \in Threads, Creates(t) \/ Changes(t) \/ Regroups(t)
    PROVE  AccountsTypeOK' /\ HasUsers'
<1> USE DEF TypeInv, TypeOK
<1>1. CASE Creates(t)
  <2>1. PICK list \in Seq(UserRow), p \in {"finding_group", "inserting"} :
            MayCreate(list, p) /\ StartCreating(t, list, p)
    BY <1>1 DEF Creates
  <2>2. todo' \in [Threads -> Seq(UserRow)]
    BY <2>1 DEF AccountsTypeOK, StartCreating
  <2>3. AccountsTypeOK'
    BY <2>1, <2>2 DEF AccountsTypeOK, StartCreating, tables, ghosts
  <2>4. \A o \in Threads : /\ todo'[o] = IF o = t THEN list ELSE todo[o]
                           /\ at'[o] = IF o = t THEN p ELSE at[o]
    BY <2>1 DEF AccountsTypeOK, ServerTypeOK, StartCreating, GoTo
  <2> QED
    BY <2>1, <2>3, <2>4 DEF HasUsers
<1>2. CASE Changes(t)
  <2>1. PICK c \in UserRow, p \in SavingUser \union {"deleting"} :
            \E u \in users : StartChanging(t, u, c, p)
    BY <1>2 DEF Changes
  <2>2. AccountsTypeOK'
    BY <2>1 DEF AccountsTypeOK, StartChanging, tables, ghosts
  <2>3. p \notin Creating
    BY DEF SavingUser, Creating
  <2> QED
    BY <2>1, <2>2, <2>3 DEF HasUsers, StartChanging, GoTo, ServerTypeOK
<1>3. CASE Regroups(t)
  <2>1. PICK c \in GroupRow, p \in {"saving_group", "deleting_group"} :
            \E g \in groups, w \in Names : StartWithGroup(t, w, g, c, p)
    BY <1>3 DEF Regroups
  <2>2. AccountsTypeOK'
    BY <2>1 DEF AccountsTypeOK, StartWithGroup, tables, ghosts
  <2>3. p \notin Creating
    BY DEF Creating
  <2> QED
    BY <2>1, <2>2, <2>3 DEF HasUsers, StartWithGroup, GoTo, ServerTypeOK
<1> QED
  BY <1>1, <1>2, <1>3

\* The users after the first
LEMMA RestOfUsers ==
    ASSUME NEW list \in Seq(UserRow), NEW p, MayCreate(list, p)
    PROVE  /\ Head(list) = list[1] /\ Head(list) \in UserRow
           /\ p # "inserting" => Head(list).group # ""
           /\ Len(list) # 1 => /\ Tail(list) \in Seq(UserRow)
                              /\ MayCreate(Tail(list), "finding_group")
<1>1. Len(list) \in Nat /\ Len(list) > 0
  BY LenProperties DEF MayCreate
<1>2. list # <<>>
  BY <1>1, EmptySeq
<1>3. Head(list) = list[1] /\ Head(list) \in UserRow
  BY <1>2, HeadTailProperties
<1>4. /\ Tail(list) \in Seq(UserRow)
      /\ Len(Tail(list)) = Len(list) - 1
      /\ \A i \in 1..Len(Tail(list)) : Tail(list)[i] = list[i + 1]
  BY <1>2, HeadTailProperties
<1>5. ASSUME p # "inserting" PROVE Head(list).group # ""
  <2>1. GroupsGiven(list)
    BY <1>5 DEF MayCreate
  <2>2. 1 \in 1..Len(list)
    BY <1>1
  <2> QED
    BY <1>3, <2>1, <2>2 DEF GroupsGiven
<1>6. ASSUME Len(list) # 1 PROVE MayCreate(Tail(list), "finding_group")
  <2>1. GroupsGiven(list)
    BY <1>6 DEF MayCreate
  <2>2. ASSUME NEW i \in 1..Len(Tail(list)) PROVE Tail(list)[i].group # ""
    <3>1. i + 1 \in 1..Len(list)
      BY <1>1, <1>4
    <3> QED
      BY <1>4, <2>1, <3>1 DEF GroupsGiven
  <2>3. GroupsGiven(Tail(list))
    BY <2>2 DEF GroupsGiven
  <2> QED
    BY <1>1, <1>4, <1>6, <2>3 DEF MayCreate
<1> QED
  BY <1>3, <1>4, <1>5, <1>6

\* A request that has ended has nobody to create.
LEMMA IdleHasUsers ==
    ASSUME TypeInv, NEW t \in Threads, GoTo(t, "idle"), ForgetRequest(t)
    PROVE  HasUsers'
<1>1. \A o \in Threads : o # t => todo'[o] = todo[o] /\ at'[o] = at[o]
  BY DEF TypeInv, TypeOK, AccountsTypeOK, ServerTypeOK, GoTo, ForgetRequest
<1>2. at'[t] = "idle"
  BY DEF TypeInv, TypeOK, ServerTypeOK, GoTo
<1> QED
  BY <1>1, <1>2 DEF TypeInv, HasUsers, Creating

LEMMA WriteTyped ==
    ASSUME TypeInv, NEW t \in Threads, Write(t)
    PROVE  AccountsTypeOK' /\ HasUsers'
<1> USE DEF TypeInv, TypeOK
<1>1. CASE FindGroup(t)
  <2>1. AccountsTypeOK'
    BY <1>1 DEF FindGroup, AccountsTypeOK, accountVars, tables, held, ghosts
  <2>2. todo' = todo /\ \A o \in Threads : o # t => at'[o] = at[o]
    BY <1>1 DEF FindGroup, GoTo, ServerTypeOK, accountVars, held
  <2>3. MayCreate(todo[t], "finding_group")
    BY <1>1 DEF FindGroup, At, HasUsers, Creating
  <2>4. \A p : MayCreate(todo[t], p)
    BY <2>3 DEF MayCreate
  <2> QED
    BY <2>1, <2>2, <2>4 DEF HasUsers
<1>2. CASE CreateMissingGroup(t)
  <2> DEFINE u == Head(todo[t])
  <2>1. u \in UserRow /\ u.group # ""
    BY <1>2, RestOfUsers DEF CreateMissingGroup, At, Creating, HasUsers, AccountsTypeOK
  <2> HIDE DEF u
  <2>2. CASE HasGroup(u.group)
    <3>1. Ends(t) /\ UNCHANGED <<tables, ghosts>>
      BY <1>2, <2>2 DEF CreateMissingGroup, tables, u
    <3> QED
      BY <3>1, ForgetTyped, IdleHasUsers DEF Ends
  <2>3. CASE ~HasGroup(u.group)
    <3> DEFINE g == [id |-> nextGroup, name |-> u.group, power |-> FALSE, creator |-> u.creator]
    <3>1. /\ groups' = groups \union {g} /\ nextGroup' = nextGroup + 1
          /\ GoTo(t, "inserting")
          /\ UNCHANGED <<held, users, nextUser, ghosts>>
          /\ at[t] \in Creating
          /\ MayCreate(todo[t], "inserting")
      BY <1>2, <2>3 DEF CreateMissingGroup, u, At, Creating, HasUsers, MayCreate
    <3>2. g \in GroupRow
      BY <2>1 DEF GroupRow, UserRow, AccountsTypeOK
    <3> HIDE DEF g
    <3>3. AccountsTypeOK'
      BY <3>1, <3>2 DEF AccountsTypeOK, held, ghosts
    <3>4. /\ todo' = todo /\ \A o \in Threads : o # t => at'[o] = at[o]
          /\ at'[t] = "inserting"
      BY <3>1 DEF GoTo, ServerTypeOK, held
    <3> QED
      BY <3>1, <3>3, <3>4 DEF HasUsers
  <2> QED
    BY <2>2, <2>3
<1>3. CASE InsertUser(t)
  <2> DEFINE first == Head(todo[t])
             u == [first EXCEPT !.id = nextUser]
  <2>1. /\ at[t] = "inserting" /\ todo[t] \in Seq(UserRow)
        /\ MayCreate(todo[t], "inserting")
    BY <1>3 DEF InsertUser, At, HasUsers, Creating, AccountsTypeOK
  <2>2. first \in UserRow
    BY <2>1, RestOfUsers
  <2>3. u \in UserRow
    BY <2>2, RowsTyped DEF AccountsTypeOK
  <2>4. CASE Taken(u.name)
    <3>1. Ends(t) /\ UNCHANGED <<tables, ghosts>>
      BY <1>3, <2>4 DEF InsertUser, tables, ghosts
    <3> QED
      BY <3>1, ForgetTyped, IdleHasUsers DEF Ends
  <2>5. CASE ~Taken(u.name)
    <3>1. /\ users' = users \union {u} /\ wanted' = wanted \union {u} /\ nextUser' = nextUser + 1
          /\ Enters(t)
          /\ UNCHANGED <<groups, nextGroup, crossed>>
      BY <1>3, <2>5 DEF InsertUser
    <3> HIDE DEF u, first
    <3>2. /\ users' \subseteq UserRow /\ wanted' \subseteq UserRow /\ nextUser' \in Nat
          /\ groups' \subseteq GroupRow /\ nextGroup' \in Nat /\ crossed' \subseteq Nat
          /\ raced' \in BOOLEAN
      BY <2>3, <3>1 DEF AccountsTypeOK, Enters
    <3>3. CASE Len(todo[t]) = 1
      <4>1. Ends(t)
        BY <1>3, <2>5, <3>3 DEF InsertUser, u, first
      <4>2. row' \in [Threads -> UserRow] /\ grp' \in [Threads -> GroupRow]
            /\ todo' \in [Threads -> Seq(UserRow)]
        BY <4>1, RowsTyped, EmptySeq DEF Ends, ForgetRequest, AccountsTypeOK
      <4> QED
        BY <3>2, <4>1, <4>2, IdleHasUsers DEF Ends, AccountsTypeOK
    <3>4. CASE Len(todo[t]) # 1
      <4>1. /\ GoTo(t, "finding_group")
            /\ todo' = [todo EXCEPT ![t] = Tail(@)]
            /\ UNCHANGED <<row, grp>>
        BY <1>3, <2>5, <3>4 DEF InsertUser, u, first
      <4>2. Tail(todo[t]) \in Seq(UserRow) /\ MayCreate(Tail(todo[t]), "finding_group")
        BY <2>1, <3>4, RestOfUsers
      <4> DEFINE rest == Tail(todo[t])
      <4>3. todo' = [todo EXCEPT ![t] = rest] /\ rest \in Seq(UserRow)
            /\ MayCreate(rest, "finding_group")
        BY <4>1, <4>2
      <4> HIDE DEF rest
      <4>4. AccountsTypeOK'
        BY <3>2, <4>1, <4>3 DEF AccountsTypeOK
      <4>5. \A o \in Threads : /\ todo'[o] = IF o = t THEN rest ELSE todo[o]
                               /\ at'[o] = IF o = t THEN "finding_group" ELSE at[o]
        BY <4>1, <4>3 DEF AccountsTypeOK, ServerTypeOK, GoTo
      <4> QED
        BY <4>3, <4>4, <4>5 DEF HasUsers
    <3> QED
      BY <3>3, <3>4
  <2> QED
    BY <2>4, <2>5
<1>4. ASSUME Ends(t),
             /\ users' \subseteq UserRow /\ wanted' \subseteq UserRow
             /\ groups' \subseteq GroupRow
             /\ crossed' \subseteq Nat /\ raced' \in BOOLEAN
             /\ UNCHANGED <<nextUser, nextGroup>>
      PROVE  AccountsTypeOK' /\ HasUsers'
  <2>1. /\ row' \in [Threads -> UserRow] /\ grp' \in [Threads -> GroupRow]
        /\ todo' \in [Threads -> Seq(UserRow)]
    BY <1>4, RowsTyped, EmptySeq DEF Ends, ForgetRequest, AccountsTypeOK
  <2> QED
    BY <1>4, <2>1, IdleHasUsers DEF Ends, AccountsTypeOK
<1>5. \A ids : ids \subseteq Nat /\ Crosses(t, ids) => crossed' \subseteq Nat
  BY DEF Crosses, AccountsTypeOK
<1>6. row[t] \in UserRow /\ row[t].id \in Nat /\ grp[t] \in GroupRow /\ grp[t].creator \in Creators
  BY DEF AccountsTypeOK, UserRow, GroupRow
<1>7. CASE SaveUser(t)
  <2>1. /\ Crosses(t, {row[t].id}) /\ Enters(t) /\ Ends(t)
        /\ UNCHANGED <<groups, nextUser, nextGroup>>
    BY <1>7 DEF SaveUser
  <2>2. users' \subseteq UserRow
    BY <1>6, <1>7 DEF SaveUser, AccountsTypeOK
  <2>3. \A u \in UserRow : Change(t, u) \in UserRow
    BY RowsTyped DEF Change
  <2>4. wanted' = {IF u.id = row[t].id THEN Change(t, u) ELSE u : u \in wanted}
    BY <1>7 DEF SaveUser
  <2>5. wanted' \subseteq UserRow
    BY <2>3, <2>4 DEF AccountsTypeOK
  <2>6. crossed' \subseteq Nat /\ raced' \in BOOLEAN
    BY <1>5, <1>6, <2>1 DEF Enters, AccountsTypeOK
  <2>7. groups' \subseteq GroupRow
    BY <2>1 DEF AccountsTypeOK
  <2> QED
    BY <1>4, <2>1, <2>2, <2>5, <2>6, <2>7
<1>8. CASE DeleteUser(t)
  <2>1. /\ Crosses(t, {row[t].id}) /\ Ends(t)
        /\ users' \subseteq users /\ wanted' \subseteq wanted
        /\ UNCHANGED <<groups, nextUser, nextGroup, raced>>
    BY <1>8 DEF DeleteUser
  <2>2. crossed' \subseteq Nat
    BY <1>5, <1>6, <2>1
  <2> QED
    BY <1>4, <2>1, <2>2 DEF AccountsTypeOK
<1>9. CASE SaveGroup(t)
  <2>1. groups' \subseteq GroupRow
    BY <1>6, <1>9 DEF SaveGroup, AccountsTypeOK
  <2>2. UNCHANGED <<users, nextUser, nextGroup, ghosts>>
    BY <1>9 DEF SaveGroup
  <2>3. CASE Ends(t)
    BY <1>4, <2>1, <2>2, <2>3 DEF AccountsTypeOK, ghosts
  <2>4. CASE GoTo(t, "updating_members") /\ UNCHANGED held
    <3>1. AccountsTypeOK'
      BY <2>1, <2>2, <2>4 DEF AccountsTypeOK, held, ghosts
    <3>2. todo' = todo /\ at'[t] = "updating_members" /\ \A o \in Threads : o # t => at'[o] = at[o]
      BY <2>4 DEF GoTo, ServerTypeOK, held
    <3> QED
      BY <3>1, <3>2 DEF HasUsers, Creating
  <2> QED
    BY <1>9, <2>3, <2>4 DEF SaveGroup
<1>10. CASE UpdateMembers(t)
  <2>1. /\ Crosses(t, {u.id : u \in {v \in users : v.group = grp[t].name}}) /\ Ends(t)
        /\ UNCHANGED <<groups, nextUser, nextGroup, raced>>
    BY <1>10 DEF UpdateMembers
  <2>2. \A u \in UserRow : Moved(t, u) \in UserRow
    BY <1>6 DEF Moved, UserRow
  <2>3. users' = {Moved(t, u) : u \in users} /\ wanted' = {Moved(t, u) : u \in wanted}
    BY <1>10 DEF UpdateMembers
  <2>4. users' \subseteq UserRow
    BY <2>2, <2>3 DEF AccountsTypeOK
  <2>5. wanted' \subseteq UserRow
    BY <2>2, <2>3 DEF AccountsTypeOK
  <2>6. {u.id : u \in {v \in users : v.group = grp[t].name}} \subseteq Nat
    BY DEF AccountsTypeOK, UserRow
  <2>7. crossed' \subseteq Nat
    BY <1>5, <2>1, <2>6
  <2> QED
    BY <1>4, <2>1, <2>4, <2>5, <2>7 DEF AccountsTypeOK
<1>11. CASE RemoveGroup(t)
  <2>1. Ends(t) /\ UNCHANGED <<users, nextUser, nextGroup, wanted, crossed>>
    BY <1>11 DEF RemoveGroup
  <2>2. groups' \subseteq GroupRow /\ raced' \in BOOLEAN
    BY <1>11 DEF RemoveGroup, AccountsTypeOK
  <2> QED
    BY <1>4, <2>1, <2>2 DEF AccountsTypeOK
<1> QED
  BY <1>1, <1>2, <1>3, <1>7, <1>8, <1>9, <1>10, <1>11 DEF Write

LEMMA AccountsStepTyped ==
    ASSUME TypeInv, [Next]_vars
    PROVE  AccountsTypeOK' /\ HasUsers'
<1> USE DEF TypeInv, TypeOK
<1>1. ASSUME UNCHANGED accountVars, \A t \in Threads : at'[t] = at[t] \/ at'[t] \notin Creating
      PROVE  AccountsTypeOK' /\ HasUsers'
  BY <1>1 DEF AccountsTypeOK, accountVars, tables, held, ghosts, HasUsers
<1>2. CASE Start
  <2>1. AccountsTypeOK'
    BY <1>2, StartTyped DEF Start
  <2> QED
    BY <1>2, <2>1 DEF Start, StartProcess, EnsureSuperGroupAndRoot, held, HasUsers
<1>3. CASE Stop
  <2>1. AccountsTypeOK'
    BY <1>3, ForgetTyped DEF Stop
  <2>2. at' = [t \in Threads |-> "idle"]
    BY <1>3 DEF Stop, Exit, Crash, Die
  <2> QED
    BY <2>1, <2>2 DEF HasUsers, Creating
<1>4. ASSUME NEW t \in Threads, Fail(t) PROVE AccountsTypeOK' /\ HasUsers'
  BY <1>4, ForgetTyped, IdleHasUsers DEF Fail, StatementFails
<1>5. ASSUME NEW c \in Consoles, Console(c) PROVE AccountsTypeOK' /\ HasUsers'
  BY <1>1, <1>5 DEF Console, Receive, SendCommand
<1>6. ASSUME NEW n \in Names, TokenExpires(n) PROVE AccountsTypeOK' /\ HasUsers'
  BY <1>1, <1>6 DEF TokenExpires, Expire
<1>7. CASE BoardNext /\ UNCHANGED accountVars
  <2>1. CASE ClearMessages
    BY <1>1, <1>7, <2>1 DEF ClearMessages, Cleared
  <2>2. ASSUME NEW t \in Threads, MessageHandler(t) PROVE AccountsTypeOK' /\ HasUsers'
    BY <1>1, <1>7, <2>2 DEF MessageHandler, life
  <2>3. ASSUME NEW t \in Threads, NEW i \in DOMAIN file, DeleteMessage(t, i)
        PROVE  AccountsTypeOK' /\ HasUsers'
    BY <1>1, <1>7, <2>3 DEF DeleteMessage, GoTo, ServerTypeOK, Creating
  <2>4. ASSUME NEW t \in Threads, TruncateFile(t) \/ WriteLines(t)
        PROVE  AccountsTypeOK' /\ HasUsers'
    BY <1>1, <1>7, <2>4 DEF TruncateFile, WriteLines, GoTo, ServerTypeOK, Creating
  <2> QED
    BY <1>7, <2>1, <2>2, <2>3, <2>4 DEF BoardNext
<1>8. ASSUME NEW w \in Names, NEW g \in GroupNames, NEW power \in BOOLEAN,
             CreateGroupHandler(w, g, power)
      PROVE  AccountsTypeOK' /\ HasUsers'
  <2> DEFINE new == [id |-> nextGroup, name |-> g, power |-> power, creator |-> w]
  <2>1. new \in GroupRow
    BY DEF AccountsTypeOK, GroupRow, Creators
  <2>2. groups' = groups \union {new} /\ nextGroup' = nextGroup + 1
        /\ UNCHANGED <<at, users, nextUser, held, ghosts>>
    BY <1>8 DEF CreateGroupHandler
  <2> HIDE DEF new
  <2> QED
    BY <2>1, <2>2 DEF AccountsTypeOK, held, ghosts, HasUsers
<1>9. ASSUME NEW n \in Names, SetRating(n) PROVE AccountsTypeOK' /\ HasUsers'
  <2>1. \A u \in UserRow : Rated(n, u) \in UserRow /\ u.id \in Nat
    BY RowsTyped DEF Rated, UserRow
  <2>2. users' = {Rated(n, u) : u \in users} /\ wanted' = {Rated(n, u) : u \in wanted}
        /\ crossed' = crossed \union {u.id : u \in {v \in users : v.name = n /\ Holders(v.id) # {}}}
    BY <1>9 DEF SetRating
  <2>3. users' \subseteq UserRow
    BY <2>1, <2>2 DEF AccountsTypeOK
  <2>4. wanted' \subseteq UserRow
    BY <2>1, <2>2 DEF AccountsTypeOK
  <2>5. crossed' \subseteq Nat
    BY <2>1, <2>2 DEF AccountsTypeOK
  <2>6. UNCHANGED <<at, groups, nextUser, nextGroup, held, raced>>
    BY <1>9 DEF SetRating
  <2> QED
    BY <2>3, <2>4, <2>5, <2>6 DEF AccountsTypeOK, held, HasUsers
<1>10. ASSUME NEW n \in Clients, Login(n) PROVE AccountsTypeOK' /\ HasUsers'
  BY <1>1, <1>10 DEF Login, OpenSession
<1>11. CASE AccountsNext
  BY <1>8, <1>9, <1>10, <1>11, RequestForms, BeginTyped, WriteTyped DEF AccountsNext
<1>12. CASE UNCHANGED vars
  BY <1>1, <1>12 DEF vars, serverVars
<1> QED
  BY <1>2, <1>3, <1>4, <1>5, <1>6, <1>7, <1>11, <1>12 DEF Next

-----------------------------------------------------------------------------
(* The messages                                                            *)

LEMMA RemoveAtTyped ==
    ASSUME NEW S, NEW s \in Seq(S), NEW i \in DOMAIN s
    PROVE  RemoveAt(s, i) \in Seq(S) /\ Len(RemoveAt(s, i)) = Len(s) - 1
<1>1. Len(s) \in Nat /\ i \in 1..Len(s)
  BY LenProperties
<1>2. SubSeq(s, 1, i - 1) \in Seq(S) /\ SubSeq(s, i + 1, Len(s)) \in Seq(S)
  BY <1>1, SubSeqProperties
<1>3. Len(SubSeq(s, 1, i - 1)) = i - 1 /\ Len(SubSeq(s, i + 1, Len(s))) = Len(s) - i
  BY <1>1, SubSeqProperties
<1>4. /\ SubSeq(s, 1, i - 1) \o SubSeq(s, i + 1, Len(s)) \in Seq(S)
      /\ Len(SubSeq(s, 1, i - 1) \o SubSeq(s, i + 1, Len(s))) = (i - 1) + (Len(s) - i)
  BY <1>2, <1>3, ConcatProperties
<1>5. (i - 1) + (Len(s) - i) = Len(s) - 1
  BY <1>1
<1> QED
  BY <1>4, <1>5 DEF RemoveAt

LEMMA BoardStepTyped ==
    ASSUME TypeInv, [Next]_vars
    PROVE  BoardTypeOK' /\ posts' <= requests'
<1> USE ServerAssumption DEF TypeInv, TypeOK
<1>0. <<>> \in Seq(Messages)
  BY EmptySeq
<1>1. ASSUME UNCHANGED boardVars, requests' = requests \/ requests' = requests + 1
      PROVE  BoardTypeOK' /\ posts' <= requests'
  BY <1>1 DEF BoardTypeOK, boardVars, ServerTypeOK
<1>2. CASE Start
  BY <1>1, <1>2 DEF Start, StartProcess, budgets
<1>3. CASE Stop
  BY <1>0, <1>3 DEF Stop, AbandonBoard, Exit, Crash, budgets, BoardTypeOK
<1>4. ASSUME NEW t \in Threads, Fail(t) PROVE BoardTypeOK' /\ posts' <= requests'
  BY <1>0, <1>4 DEF Fail, AbandonDeletion, StatementFails, BoardTypeOK
<1>5. ASSUME NEW c \in Consoles, Console(c) PROVE BoardTypeOK' /\ posts' <= requests'
  BY <1>1, <1>5 DEF Console, Receive, SendCommand, Spend, budgets
<1>6. ASSUME NEW n \in Names, TokenExpires(n) PROVE BoardTypeOK' /\ posts' <= requests'
  BY <1>1, <1>6 DEF TokenExpires, Expire, budgets
<1>7. CASE AccountsNext /\ UNCHANGED boardVars
  <2>1. requests' = requests \/ requests' = requests + 1
    <3>1. ASSUME NEW t \in Threads, Request(t) PROVE requests' = requests + 1
      BY <3>1, RequestForms DEF Creates, Changes, Regroups, StartCreating, StartChanging,
                                StartWithGroup, Begin, Spend
    <3>2. ASSUME NEW t \in Threads, Write(t) PROVE requests' = requests
      BY <3>2 DEF Write, FindGroup, CreateMissingGroup, InsertUser, SaveUser, DeleteUser, SaveGroup,
                  UpdateMembers, RemoveGroup, budgets
    <3> QED
      BY <1>7, <3>1, <3>2 DEF AccountsNext, CreateGroupHandler, SetRating, Login, OpenSession, Spend,
                              budgets
  <2> QED
    BY <1>1, <1>7, <2>1
<1>8. CASE ClearMessages
  BY <1>0, <1>8 DEF ClearMessages, Cleared, budgets, BoardTypeOK
<1>9. ASSUME NEW t \in Threads, MessageHandler(t) PROVE BoardTypeOK' /\ posts' <= requests'
  <2>1. /\ posts' = posts + 1 /\ requests' = requests + 1 /\ requests < MaxRequests
        /\ file' = Append(file, posts') /\ board' = Append(board, posts')
        /\ UNCHANGED <<kept, index>>
        /\ overlapped' \in BOOLEAN
    BY <1>9 DEF MessageHandler, Spend, Disturbs, BoardTypeOK
  <2>2. posts' \in Messages /\ posts' \in 0..MaxRequests /\ posts' <= requests'
    BY <2>1 DEF Messages, BoardTypeOK, ServerTypeOK
  <2>3. file' \in Seq(Messages) /\ board' \in Seq(Messages)
    BY <2>1, <2>2, AppendProperties DEF BoardTypeOK
  <2> QED
    BY <2>1, <2>2, <2>3 DEF BoardTypeOK
<1>10. ASSUME NEW t \in Threads, NEW i \in DOMAIN file, DeleteMessage(t, i)
      PROVE  BoardTypeOK' /\ posts' <= requests'
  <2>1. RemoveAt(file, i) \in Seq(Messages) /\ i \in Nat
    BY RemoveAtTyped DEF BoardTypeOK
  <2> QED
    BY <1>10, <2>1 DEF DeleteMessage, Begin, Spend, BoardTypeOK, ServerTypeOK
<1>11. ASSUME NEW t \in Threads, TruncateFile(t) PROVE BoardTypeOK' /\ posts' <= requests'
  BY <1>0, <1>11 DEF TruncateFile, Disturbs, BoardTypeOK, budgets
<1>12. ASSUME NEW t \in Threads, WriteLines(t) PROVE BoardTypeOK' /\ posts' <= requests'
  <2>1. kept[t] \in Seq(Messages) /\ file \in Seq(Messages) /\ board \in Seq(Messages)
    BY DEF BoardTypeOK
  <2>2. Len(kept[t]) \in Nat /\ Len(file) \in Nat
    BY <2>1, LenProperties
  <2>3. SubSeq(file, Len(kept[t]) + 1, Len(file)) \in Seq(Messages)
    BY <2>1, <2>2, SubSeqProperties
  <2>4. file' \in Seq(Messages)
    BY <1>12, <2>1, <2>3, ConcatProperties DEF WriteLines
  <2>5. board' \in Seq(Messages)
    BY <1>12, <2>1, RemoveAtTyped DEF WriteLines
  <2> QED
    BY <1>0, <1>12, <2>4, <2>5 DEF WriteLines, Disturbs, BoardTypeOK, budgets
<1>13. CASE BoardNext
  BY <1>8, <1>9, <1>10, <1>11, <1>12, <1>13 DEF BoardNext
<1>14. CASE UNCHANGED vars
  BY <1>1, <1>14 DEF vars, serverVars, budgets
<1> QED
  BY <1>2, <1>3, <1>4, <1>5, <1>6, <1>7, <1>13, <1>14 DEF Next

LEMMA InitTyped == Init => TypeInv
<1> SUFFICES ASSUME Init PROVE TypeInv
  OBVIOUS
<1>1. ServerTypeOK
  <2>1. command \in [Consoles -> Commands \union {"none"}] /\ at \in [Threads -> Places]
    BY DEF Init, ServerInit, Places
  <2>2. requests \in 0..MaxRequests /\ faults \in 0..MaxFaults
    BY ServerAssumption DEF Init, ServerInit
  <2> QED
    BY <2>1, <2>2 DEF Init, ServerInit, ServerTypeOK
<1>2. AccountsTypeOK
  BY AccountsAssumption, RowsTyped, EmptySeq DEF Init, AccountsInit, AccountsTypeOK
<1>3. BoardTypeOK /\ posts <= requests
  <2>1. <<>> \in Seq(Messages)
    BY EmptySeq
  <2>2. posts = 0 /\ requests = 0 /\ 0 \in 0..MaxRequests
    BY ServerAssumption DEF Init, BoardInit, ServerInit
  <2>3. kept \in [Threads -> Seq(Messages)] /\ index \in [Threads -> Nat]
    BY <2>1 DEF Init, BoardInit
  <2>4. file = <<>> /\ board = <<>> /\ overlapped = FALSE
    BY DEF Init, BoardInit
  <2>5. posts <= requests
    BY <2>2
  <2> QED
    BY <2>1, <2>2, <2>3, <2>4, <2>5 DEF BoardTypeOK
<1>4. HasUsers
  BY DEF Init, ServerInit, HasUsers, Creating
<1> QED
  BY <1>1, <1>2, <1>3, <1>4 DEF TypeInv, TypeOK

LEMMA StepTyped == TypeInv /\ [Next]_vars => TypeInv'
BY ServerStepTyped, AccountsStepTyped, BoardStepTyped DEF TypeInv, TypeOK

\* The rows, the requests, the messages and the life of the process keep their types.
THEOREM TypeCorrect == Spec => []TypeOK
<1>1. TypeInv => TypeOK
  BY DEF TypeInv
<1> QED
  BY <1>1, InitTyped, StepTyped, PTL DEF Spec

-----------------------------------------------------------------------------
(* The message file                                                        *)

Rewriting == {"truncating", "writing"}

\* What a deletion is to write is right as long as nothing comes between its steps.
Truncating(t) ==
    at[t] = "truncating" =>
        index[t] \in DOMAIN board /\ kept[t] = RemoveAt(board, index[t])

\* And when it has truncated the file there is no other.
Writing(t) ==
    at[t] = "writing" =>
        /\ file = <<>>
        /\ index[t] \in DOMAIN board /\ kept[t] = RemoveAt(board, index[t])
        /\ \A o \in Threads : o # t => at[o] \notin Rewriting

BoardInv ==
    ~overlapped =>
        /\ \A t \in Threads : Truncating(t) /\ Writing(t)
        /\ (\A t \in Threads : at[t] # "writing") => file = board

\* o does not go to the steps of a deletion, nor does it leave them.
StaysOut(o) == at'[o] = at[o] \/ (at[o] \notin Rewriting /\ at'[o] \notin Rewriting)

LEMMA RewritersKept ==
    ASSUME TypeInv, AccountsNext
    PROVE  \A o \in Threads : StaysOut(o)
<1> USE DEF TypeInv, TypeOK, ServerTypeOK
<1>1. ASSUME NEW t \in Threads, NEW p \in Places \ Rewriting, GoTo(t, p), at[t] \notin Rewriting
      PROVE  \A o \in Threads : StaysOut(o)
  BY <1>1 DEF GoTo, StaysOut
<1>2. ASSUME NEW t \in Threads, Request(t)
      PROVE  at[t] = "idle" /\ \E p \in Places \ Rewriting : GoTo(t, p)
  <2>1. Creates(t) => at[t] = "idle" /\ \E p \in Places \ Rewriting : GoTo(t, p)
    BY DEF Creates, StartCreating, Begin, Places, Rewriting
  <2>2. Changes(t) => at[t] = "idle" /\ \E p \in Places \ Rewriting : GoTo(t, p)
    BY DEF Changes, StartChanging, Begin, Places, Rewriting, SavingUser
  <2>3. Regroups(t) => at[t] = "idle" /\ \E p \in Places \ Rewriting : GoTo(t, p)
    BY DEF Regroups, StartWithGroup, Begin, Places, Rewriting
  <2> QED
    BY <1>2, <2>1, <2>2, <2>3, RequestForms
<1>3. ASSUME NEW t \in Threads, Write(t)
      PROVE  at[t] \notin Rewriting /\ \E p \in Places \ Rewriting : GoTo(t, p)
  BY <1>3 DEF Write, FindGroup, CreateMissingGroup, InsertUser, SaveUser, DeleteUser, SaveGroup,
              UpdateMembers, RemoveGroup, Ends, At, Places, Rewriting
<1>4. "idle" \notin Rewriting
  BY DEF Rewriting
<1>5. ASSUME at' = at
      PROVE  \A o \in Threads : StaysOut(o)
  BY <1>5 DEF StaysOut
<1>6. ASSUME NEW w \in Names, NEW g \in GroupNames, NEW power \in BOOLEAN,
             CreateGroupHandler(w, g, power)
      PROVE  at' = at
  BY <1>6 DEF CreateGroupHandler
<1>7. ASSUME NEW n \in Names, SetRating(n) PROVE at' = at
  BY <1>7 DEF SetRating
<1>8. ASSUME NEW n \in Clients, Login(n) PROVE at' = at
  BY <1>8 DEF Login, OpenSession
<1> QED
  BY <1>1, <1>2, <1>3, <1>4, <1>5, <1>6, <1>7, <1>8 DEF AccountsNext

LEMMA BoardInvStep ==
    ASSUME TypeInv, BoardInv, [Next]_vars, ~overlapped'
    PROVE  /\ \A t \in Threads : Truncating(t)' /\ Writing(t)'
           /\ (\A t \in Threads : at'[t] # "writing") => file' = board'
<1> DEFINE Goal == /\ \A t \in Threads : Truncating(t)' /\ Writing(t)'
                   /\ (\A t \in Threads : at'[t] # "writing") => file' = board'
<1> USE DEF TypeInv, TypeOK
<1>1. ASSUME UNCHANGED <<file, board, overlapped, kept, index>>,
             \A o \in Threads : StaysOut(o)
      PROVE  Goal
  BY <1>1 DEF BoardInv, Truncating, Writing, Rewriting, StaysOut
<1>2. CASE Start
  BY <1>1, <1>2 DEF Start, StartProcess, boardVars, StaysOut
<1>3. CASE Stop
  <2>1. \A t \in Threads : at'[t] = "idle" /\ at[t] # "writing"
    BY <1>3 DEF Stop, Exit, Crash, Die, AbandonBoard
  <2>2. UNCHANGED <<file, board>> /\ ~overlapped
    BY <1>3 DEF Stop, AbandonBoard, BoardTypeOK
  <2> QED
    BY <2>1, <2>2 DEF BoardInv, Truncating, Writing
<1>4. ASSUME NEW t \in Threads, Fail(t) PROVE Goal
  <2>1. at[t] # "writing" /\ ~overlapped
    BY <1>4 DEF Fail, AbandonDeletion, BoardTypeOK
  <2>2. \A o \in Threads : IF o = t THEN at'[o] = "idle"
                          ELSE at'[o] = at[o] /\ kept'[o] = kept[o] /\ index'[o] = index[o]
    BY <1>4 DEF Fail, StatementFails, GoTo, AbandonDeletion, BoardTypeOK, ServerTypeOK
  <2>3. UNCHANGED <<file, board>>
    BY <1>4 DEF Fail, AbandonDeletion
  <2> QED
    BY <2>1, <2>2, <2>3 DEF BoardInv, Truncating, Writing, Rewriting
<1>5. ASSUME NEW c \in Consoles, Console(c) PROVE Goal
  BY <1>1, <1>5 DEF Console, Receive, SendCommand, boardVars, StaysOut
<1>6. ASSUME NEW n \in Names, TokenExpires(n) PROVE Goal
  BY <1>1, <1>6 DEF TokenExpires, Expire, boardVars, StaysOut
<1>7. CASE AccountsNext /\ UNCHANGED boardVars
  BY <1>1, <1>7, RewritersKept DEF boardVars
<1>8. CASE UNCHANGED vars
  BY <1>1, <1>8 DEF vars, serverVars, boardVars, StaysOut
<1>9. CASE ClearMessages
  <2>1. \A t \in Threads : at[t] \notin Rewriting /\ at'[t] = at[t]
    BY <1>9 DEF ClearMessages, Cleared, Rewriters, Rewriting
  <2> QED
    BY <1>9, <2>1 DEF ClearMessages, Truncating, Writing, Rewriting
<1>10. ASSUME NEW t \in Threads, MessageHandler(t) PROVE Goal
  <2>1. /\ at' = at /\ ~overlapped /\ at[t] = "idle"
        /\ file' = Append(file, posts') /\ board' = Append(board, posts')
        /\ Rewriters \ {t} = {}
    BY <1>10 DEF MessageHandler, Disturbs, BoardTypeOK
  <2>2. \A o \in Threads : at[o] \notin Rewriting
    BY <2>1 DEF Rewriters, Rewriting
  <2>3. file = board
    BY <2>1, <2>2 DEF BoardInv, Rewriting
  <2> QED
    BY <2>1, <2>2, <2>3 DEF Truncating, Writing, Rewriting
<1>11. ASSUME NEW t \in Threads, NEW i \in DOMAIN file, DeleteMessage(t, i) PROVE Goal
  <2>1. UNCHANGED <<file, board, overlapped>> /\ at[t] = "idle"
    BY <1>11 DEF DeleteMessage, Begin
  <2>2. \A o \in Threads : IF o = t
                          THEN /\ at'[o] = "truncating" /\ index'[o] = i
                               /\ kept'[o] = RemoveAt(file, i)
                          ELSE at'[o] = at[o] /\ kept'[o] = kept[o] /\ index'[o] = index[o]
    BY <1>11 DEF DeleteMessage, GoTo, BoardTypeOK, ServerTypeOK
  <2>3. file # <<>>
    OBVIOUS
  <2>4. \A o \in Threads : at[o] # "writing"
    BY <2>1, <2>3 DEF BoardInv, Writing
  <2>5. file = board
    BY <2>1, <2>4 DEF BoardInv
  <2> QED
    BY <2>1, <2>2, <2>4, <2>5 DEF BoardInv, Truncating, Writing
<1>12. ASSUME NEW t \in Threads, TruncateFile(t) PROVE Goal
  <2>1. /\ file' = <<>> /\ ~overlapped /\ Rewriters \ {t} = {} /\ at[t] = "truncating"
        /\ UNCHANGED <<kept, index, board>>
    BY <1>12 DEF TruncateFile, Disturbs, BoardTypeOK, At
  <2>2. \A o \in Threads : at'[o] = IF o = t THEN "writing" ELSE at[o]
    BY <1>12 DEF TruncateFile, GoTo, ServerTypeOK
  <2>3. \A o \in Threads : o # t => at[o] \notin Rewriting
    BY <2>1 DEF Rewriters, Rewriting
  <2> QED
    BY <2>1, <2>2, <2>3 DEF BoardInv, Truncating, Writing, Rewriting
<1>13. ASSUME NEW t \in Threads, WriteLines(t) PROVE Goal
  <2>1. /\ ~overlapped /\ Rewriters \ {t} = {} /\ at[t] = "writing"
        /\ file' = kept[t] \o SubSeq(file, Len(kept[t]) + 1, Len(file))
        /\ board' = IF index[t] \in DOMAIN board THEN RemoveAt(board, index[t]) ELSE board
    BY <1>13 DEF WriteLines, Disturbs, BoardTypeOK, At
  <2>2. file = <<>> /\ board' = kept[t]
    BY <2>1 DEF BoardInv, Writing
  <2>3. kept[t] \in Seq(Messages) /\ Len(kept[t]) \in Nat
    BY LenProperties DEF BoardTypeOK
  <2>4. SubSeq(file, Len(kept[t]) + 1, Len(file)) = <<>>
    BY <2>2, <2>3, SubSeqEmpty
  <2>5. file' = kept[t]
    BY <2>1, <2>3, <2>4, ConcatEmptySeq
  <2>6. \A o \in Threads : at'[o] \notin Rewriting
    BY <1>13, <2>1 DEF WriteLines, GoTo, ServerTypeOK, Rewriters, Rewriting
  <2> QED
    BY <2>2, <2>5, <2>6 DEF Truncating, Writing, Rewriting
<1>14. CASE BoardNext
  BY <1>9, <1>10, <1>11, <1>12, <1>13, <1>14 DEF BoardNext
<1> QED
  BY <1>2, <1>3, <1>4, <1>5, <1>6, <1>7, <1>8, <1>14 DEF Next

\* However many requests post and delete at once: when none came between the steps of
\* another, the file has the messages that were posted and not deleted.
THEOREM BoardAsPostedAlways == Spec => []BoardAsPosted
<1>1. Init => BoardInv
  BY DEF Init, ServerInit, BoardInit, BoardInv, Truncating, Writing
<1>2. TypeInv /\ BoardInv /\ [Next]_vars => BoardInv'
  <2> SUFFICES ASSUME TypeInv, BoardInv, [Next]_vars, ~overlapped'
               PROVE  /\ \A t \in Threads : Truncating(t)' /\ Writing(t)'
                      /\ (\A t \in Threads : at'[t] # "writing") => file' = board'
    BY DEF BoardInv
  <2> QED
    BY BoardInvStep
<1>3. BoardInv => BoardAsPosted
  BY DEF BoardInv, BoardAsPosted
<1> QED
  BY <1>1, <1>2, <1>3, InitTyped, StepTyped, PTL DEF Spec

-----------------------------------------------------------------------------
(* Steps, as the accounts see them                                         *)

Elsewhere == {"idle"} \union Rewriting

\* A step that the accounts have no part in
Aside ==
    /\ UNCHANGED accountVars
    /\ \A o \in Threads : at'[o] = at[o] \/ (at[o] \in Elsewhere /\ at'[o] \in Elsewhere)

\* A step of t on the accounts, or one that begins with nothing held
AccountStep ==
    \/ Start
    \/ Stop
    \/ \E t \in Threads : Fail(t)
    \/ \E t \in Threads : Creates(t) \/ Changes(t) \/ Regroups(t)
    \/ \E t \in Threads : Write(t)
    \/ \E w \in Names, g \in GroupNames, power \in BOOLEAN : CreateGroupHandler(w, g, power)
    \/ \E n \in Names : SetRating(n)

LEMMA StepForms ==
    ASSUME TypeInv, [Next]_vars
    PROVE  Aside \/ AccountStep
<1> USE DEF TypeInv, TypeOK
<1>1. ASSUME NEW c \in Consoles, Console(c) PROVE Aside
  BY <1>1 DEF Console, Receive, SendCommand, Aside
<1>2. ASSUME NEW n \in Names, TokenExpires(n) PROVE Aside
  BY <1>2 DEF TokenExpires, Expire, Aside
<1>3. CASE BoardNext /\ UNCHANGED accountVars
  <2>1. CASE ClearMessages
    BY <1>3, <2>1 DEF ClearMessages, Cleared, Aside
  <2>2. ASSUME NEW t \in Threads, MessageHandler(t) PROVE Aside
    BY <1>3, <2>2 DEF MessageHandler, Aside
  <2>3. ASSUME NEW t \in Threads, NEW i \in DOMAIN file, DeleteMessage(t, i) PROVE Aside
    BY <1>3, <2>3 DEF DeleteMessage, Begin, GoTo, ServerTypeOK, Aside, Elsewhere, Rewriting
  <2>4. ASSUME NEW t \in Threads, TruncateFile(t) \/ WriteLines(t) PROVE Aside
    BY <1>3, <2>4 DEF TruncateFile, WriteLines, At, GoTo, ServerTypeOK, Aside, Elsewhere, Rewriting
  <2> QED
    BY <1>3, <2>1, <2>2, <2>3, <2>4 DEF BoardNext
<1>4. ASSUME NEW n \in Clients, Login(n) PROVE Aside
  BY <1>4 DEF Login, OpenSession, Aside
<1>5. CASE UNCHANGED vars
  BY <1>5 DEF vars, serverVars, Aside
<1>6. CASE AccountsNext
  BY <1>4, <1>6, RequestForms DEF AccountsNext, AccountStep
<1> QED
  BY <1>1, <1>2, <1>3, <1>5, <1>6 DEF Next, AccountStep

-----------------------------------------------------------------------------
(* The names of groups                                                     *)

HoldsGroup(t) == at[t] \in {"saving_group", "updating_members", "deleting_group"}

\* The groups of the table, and those that requests have read
Known == groups \union {grp[t] : t \in {o \in Threads : HoldsGroup(o)}}

\* A key has one name, now and later.
GroupKeys ==
    \A g \in Known : g.id < nextGroup /\ \A h \in Known : g.id = h.id => g.name = h.name

LEMMA KeysKept ==
    ASSUME GroupKeys, nextGroup' = nextGroup,
           \A k \in Known' : \E g \in Known : k.id = g.id /\ k.name = g.name
    PROVE  GroupKeys'
BY DEF GroupKeys

LEMMA KeyAdded ==
    ASSUME TypeInv, GroupKeys, NEW n, nextGroup' = nextGroup + 1,
           \A k \in Known' : (k.id = nextGroup /\ k.name = n)
                            \/ \E g \in Known : k.id = g.id /\ k.name = g.name
    PROVE  GroupKeys'
<1>1. \A g \in Known : g.id \in Nat
  BY DEF TypeInv, TypeOK, AccountsTypeOK, Known, GroupRow
<1>2. nextGroup \in Nat
  BY DEF TypeInv, TypeOK, AccountsTypeOK
<1>3. \A k \in Known' : k.id = nextGroup \/ (k.id < nextGroup /\ k.id \in Nat)
  BY <1>1 DEF GroupKeys
<1>4. \A k \in Known' : k.id < nextGroup'
  BY <1>2, <1>3
<1>5. ASSUME NEW k \in Known', NEW l \in Known', k.id = l.id PROVE k.name = l.name
  <2>0. \A g \in Known : g.id # nextGroup
    BY <1>1, <1>2 DEF GroupKeys
  <2>1. CASE k.id = nextGroup
    BY <1>5, <2>0, <2>1
  <2>2. CASE k.id # nextGroup
    <3>1. PICK g \in Known, h \in Known : /\ k.id = g.id /\ k.name = g.name
                                         /\ l.id = h.id /\ l.name = h.name
      BY <1>5, <2>2
    <3> QED
      BY <1>5, <3>1 DEF GroupKeys
  <2> QED
    BY <2>1, <2>2
<1> QED
  BY <1>4, <1>5 DEF GroupKeys

\* A step that reads no group, or one of the table, and writes none, or one that was read
LEMMA KnownKept ==
    ASSUME TypeInv, NEW t \in Threads,
           \A o \in Threads : o # t => grp'[o] = grp[o] /\ (HoldsGroup(o)' => HoldsGroup(o)),
           \A g \in groups' : \E h \in Known : g.id = h.id /\ g.name = h.name,
           HoldsGroup(t)' => \E h \in Known : grp'[t].id = h.id /\ grp'[t].name = h.name
    PROVE  \A k \in Known' : \E g \in Known : k.id = g.id /\ k.name = g.name
<1>1. ASSUME NEW o \in Threads, HoldsGroup(o)'
      PROVE  \E g \in Known : grp'[o].id = g.id /\ grp'[o].name = g.name
  BY <1>1 DEF Known
<1> QED
  BY <1>1 DEF Known

LEMMA GroupKeysStep ==
    ASSUME TypeInv, GroupKeys, [Next]_vars
    PROVE  GroupKeys'
<1> USE DEF TypeInv, TypeOK
<1>1. CASE Aside
  <2>1. \A o \in Threads : HoldsGroup(o)' => HoldsGroup(o)
    BY <1>1 DEF Aside, HoldsGroup, Elsewhere, Rewriting
  <2> QED
    BY <1>1, <2>1, KeysKept DEF Aside, accountVars, tables, held, Known
<1>2. CASE Start
  <2>1. UNCHANGED <<at, grp>>
    BY <1>2 DEF Start, StartProcess, EnsureSuperGroupAndRoot, held
  <2>2. CASE HasGroup("super")
    <3>1. nextGroup' = nextGroup
      BY <1>2, <2>2 DEF Start, EnsureSuperGroupAndRoot
    <3>2. groups' = {IF g.name # "super" THEN g
                     ELSE [g EXCEPT !.power = TRUE,
                                    !.creator = IF @ = "" THEN "super" ELSE @]
                     : g \in groups}
      BY <1>2, <2>2 DEF Start, EnsureSuperGroupAndRoot
    <3>3. \A g \in GroupRow : LET c == [g EXCEPT !.power = TRUE,
                                                 !.creator = IF @ = "" THEN "super" ELSE @]
                             IN  c.id = g.id /\ c.name = g.name
      BY DEF GroupRow
    <3>4. ASSUME NEW g \in groups' PROVE \E h \in groups : g.id = h.id /\ g.name = h.name
      <4>1. PICK h \in groups : g = IF h.name # "super" THEN h
                                   ELSE [h EXCEPT !.power = TRUE,
                                                  !.creator = IF @ = "" THEN "super" ELSE @]
        BY <3>2
      <4>2. h \in GroupRow
        BY DEF AccountsTypeOK
      <4> QED
        BY <3>3, <4>1, <4>2
    <3>5. \A k \in Known' : \E g \in Known : k.id = g.id /\ k.name = g.name
      BY <2>1, <3>4 DEF Known, HoldsGroup
    <3> QED
      BY <3>1, <3>5, KeysKept
  <2>3. CASE ~HasGroup("super")
    <3> DEFINE super == [id |-> nextGroup, name |-> "super", power |-> TRUE, creator |-> "super"]
    <3>1. groups' = groups \union {super} /\ nextGroup' = nextGroup + 1
      BY <1>2, <2>3 DEF Start, EnsureSuperGroupAndRoot
    <3>2. super.id = nextGroup /\ super.name = "super"
      OBVIOUS
    <3> HIDE DEF super
    <3> QED
      BY <2>1, <3>1, <3>2, KeyAdded DEF Known, HoldsGroup
  <2> QED
    BY <2>2, <2>3
<1>3. CASE Stop
  <2>1. UNCHANGED <<groups, nextGroup>>
    BY <1>3 DEF Stop, ForgetRequests, tables
  <2>2. \A t \in Threads : ~HoldsGroup(t)'
    BY <1>3 DEF Stop, Exit, Crash, Die, HoldsGroup
  <2> QED
    BY <2>1, <2>2, KeysKept DEF Known
<1>4. ASSUME NEW t \in Threads, GoTo(t, "idle"), ForgetRequest(t), nextGroup' = nextGroup,
             \A g \in groups' : \E h \in Known : g.id = h.id /\ g.name = h.name
      PROVE  GroupKeys'
  <2>1. \A o \in Threads : o # t => grp'[o] = grp[o] /\ (HoldsGroup(o)' => HoldsGroup(o))
    BY <1>4 DEF GoTo, ForgetRequest, AccountsTypeOK, ServerTypeOK, HoldsGroup
  <2>2. ~HoldsGroup(t)'
    BY <1>4 DEF GoTo, ServerTypeOK, HoldsGroup
  <2> QED
    BY <1>4, <2>1, <2>2, KnownKept, KeysKept
<1>5. \A g \in groups : \E h \in Known : g.id = h.id /\ g.name = h.name
  BY DEF Known
<1>6. ASSUME NEW t \in Threads, Fail(t) PROVE GroupKeys'
  BY <1>4, <1>5, <1>6 DEF Fail, StatementFails, tables
<1>7. ASSUME NEW t \in Threads, NEW p \in Places, GoTo(t, p), UNCHANGED <<groups, nextGroup>>,
             \A o \in Threads : o # t => grp'[o] = grp[o],
             HoldsGroup(t)' => \E h \in Known : grp'[t].id = h.id /\ grp'[t].name = h.name
      PROVE  GroupKeys'
  <2>1. \A o \in Threads : o # t => grp'[o] = grp[o] /\ (HoldsGroup(o)' => HoldsGroup(o))
    BY <1>7 DEF GoTo, ServerTypeOK, HoldsGroup
  <2> QED
    BY <1>5, <1>7, <2>1, KnownKept, KeysKept
<1>8. ASSUME NEW t \in Threads, Creates(t) PROVE GroupKeys'
  BY <1>7, <1>8 DEF Creates, StartCreating, tables, HoldsGroup, GoTo, ServerTypeOK, Places
<1>9. ASSUME NEW t \in Threads, Changes(t) PROVE GroupKeys'
  BY <1>7, <1>9 DEF Changes, StartChanging, tables, HoldsGroup, GoTo, ServerTypeOK, Places, SavingUser
<1>10. ASSUME NEW t \in Threads, Regroups(t) PROVE GroupKeys'
  <2>1. PICK g \in groups, c \in GroupRow, p \in {"saving_group", "deleting_group"} :
            c.id = g.id /\ c.name = g.name /\ \E w \in Names : StartWithGroup(t, w, g, c, p)
    BY <1>10 DEF Regroups
  <2>2. grp' = [grp EXCEPT ![t] = c] /\ GoTo(t, p) /\ UNCHANGED <<groups, nextGroup>>
    BY <2>1 DEF StartWithGroup, tables
  <2>3. \A o \in Threads : grp'[o] = IF o = t THEN c ELSE grp[o]
    BY <2>2 DEF AccountsTypeOK
  <2> QED
    BY <1>7, <2>1, <2>2, <2>3 DEF Known, Places
<1>11. ASSUME NEW w \in Names, NEW g \in GroupNames, NEW power \in BOOLEAN,
              CreateGroupHandler(w, g, power)
       PROVE  GroupKeys'
  <2> DEFINE new == [id |-> nextGroup, name |-> g, power |-> power, creator |-> w]
  <2>1. groups' = groups \union {new} /\ nextGroup' = nextGroup + 1 /\ UNCHANGED <<at, grp>>
    BY <1>11 DEF CreateGroupHandler, held
  <2>2. new.id = nextGroup /\ new.name = g
    OBVIOUS
  <2> HIDE DEF new
  <2> QED
    BY <2>1, <2>2, KeyAdded DEF Known, HoldsGroup
<1>12. ASSUME NEW n \in Names, SetRating(n) PROVE GroupKeys'
  BY <1>12, KeysKept DEF SetRating, held, Known, HoldsGroup
<1>13. ASSUME NEW t \in Threads, Write(t) PROVE GroupKeys'
  <2>1. CASE FindGroup(t)
    BY <1>7, <2>1 DEF FindGroup, accountVars, tables, held, HoldsGroup, GoTo, ServerTypeOK, Places
  <2>2. CASE CreateMissingGroup(t)
    <3> DEFINE u == Head(todo[t])
               g == [id |-> nextGroup, name |-> u.group, power |-> FALSE, creator |-> u.creator]
    <3>1. CASE HasGroup(u.group)
      BY <1>4, <1>5, <2>2, <3>1 DEF CreateMissingGroup, Ends
    <3>2. CASE ~HasGroup(u.group)
      <4>1. /\ groups' = groups \union {g} /\ nextGroup' = nextGroup + 1
            /\ GoTo(t, "inserting") /\ UNCHANGED grp
        BY <2>2, <3>2 DEF CreateMissingGroup, held
      <4>2. g.id = nextGroup /\ g.name = u.group
        OBVIOUS
      <4> HIDE DEF g, u
      <4>3. \A o \in Threads : HoldsGroup(o)' => HoldsGroup(o)
        BY <4>1 DEF GoTo, ServerTypeOK, HoldsGroup
      <4> QED
        BY <4>1, <4>2, <4>3, KeyAdded DEF Known
    <3> QED
      BY <3>1, <3>2
  <2>3. CASE InsertUser(t)
    <3>1. CASE Ends(t)
      BY <1>4, <1>5, <2>3, <3>1 DEF InsertUser, Ends
    <3>2. CASE GoTo(t, "finding_group") /\ UNCHANGED grp
      BY <1>7, <2>3, <3>2 DEF InsertUser, HoldsGroup, GoTo, ServerTypeOK, Places
    <3> QED
      BY <2>3, <3>1, <3>2 DEF InsertUser
  <2>4. CASE SaveUser(t)
    BY <1>4, <1>5, <2>4 DEF SaveUser, Ends
  <2>5. CASE DeleteUser(t)
    BY <1>4, <1>5, <2>5 DEF DeleteUser, Ends
  <2>6. CASE SaveGroup(t)
    <3>1. grp[t] \in Known /\ nextGroup' = nextGroup
      BY <2>6 DEF SaveGroup, At, HoldsGroup, Known
    <3>2. \A g \in groups' : \E h \in Known : g.id = h.id /\ g.name = h.name
      BY <2>6, <3>1 DEF SaveGroup, Known
    <3>3. CASE Ends(t)
      BY <1>4, <3>1, <3>2, <3>3 DEF Ends
    <3>4. CASE GoTo(t, "updating_members") /\ UNCHANGED held
      <4>1. \A o \in Threads : o # t => grp'[o] = grp[o] /\ (HoldsGroup(o)' => HoldsGroup(o))
        BY <3>4 DEF GoTo, ServerTypeOK, HoldsGroup, held
      <4>2. grp'[t] \in Known
        BY <3>1, <3>4 DEF held
      <4> QED
        BY <3>1, <3>2, <4>1, <4>2, KnownKept, KeysKept
    <3> QED
      BY <2>6, <3>3, <3>4 DEF SaveGroup
  <2>7. CASE UpdateMembers(t)
    BY <1>4, <1>5, <2>7 DEF UpdateMembers, Ends
  <2>8. CASE RemoveGroup(t)
    <3>1. groups' \subseteq groups /\ Ends(t) /\ nextGroup' = nextGroup
      BY <2>8 DEF RemoveGroup
    <3> QED
      BY <1>4, <1>5, <3>1 DEF Ends
  <2> QED
    BY <1>13, <2>1, <2>2, <2>3, <2>4, <2>5, <2>6, <2>7, <2>8 DEF Write
<1> QED
  BY <1>1, <1>2, <1>3, <1>6, <1>8, <1>9, <1>10, <1>11, <1>12, <1>13, StepForms DEF AccountStep

-----------------------------------------------------------------------------
(* The groups of users                                                     *)

\* n is the name of no group, or of one that is there.
Exists(n) == n = "" \/ HasGroup(n)

Emptied(t) == at[t] = "deleting_group" => \A u \in users : u.group # grp[t].name

\* What holds unless somebody entered a group that was being deleted
MembersOK ==
    /\ \A u \in users : Exists(u.group)
    /\ \A t \in Threads : Exists(Target(t)) /\ Emptied(t)

\* Only the deletion of a group takes a name away.
LEMMA GroupsStay ==
    ASSUME TypeInv, GroupKeys, [Next]_vars, NEW n, HasGroup(n)
    PROVE  HasGroup(n)' \/ \E t \in Threads : RemoveGroup(t) /\ grp[t].name = n
<1> USE DEF TypeInv, TypeOK
<1>1. PICK g \in groups : g.name = n
  BY DEF HasGroup
<1>2. ASSUME groups \subseteq groups' PROVE HasGroup(n)'
  BY <1>1, <1>2 DEF HasGroup
<1>3. CASE Aside
  BY <1>2, <1>3 DEF Aside, accountVars, tables
<1>4. CASE Start
  <2>1. CASE HasGroup("super")
    <3> DEFINE c == [g EXCEPT !.power = TRUE, !.creator = IF @ = "" THEN "super" ELSE @]
    <3>1. (IF g.name # "super" THEN g ELSE c) \in groups'
      BY <1>4, <2>1 DEF Start, EnsureSuperGroupAndRoot
    <3>2. c.name = g.name
      BY DEF AccountsTypeOK, GroupRow
    <3> HIDE DEF c
    <3> QED
      BY <1>1, <3>1, <3>2 DEF HasGroup
  <2>2. CASE ~HasGroup("super")
    BY <1>2, <1>4, <2>2 DEF Start, EnsureSuperGroupAndRoot
  <2> QED
    BY <2>1, <2>2
<1>5. CASE Stop
  BY <1>2, <1>5 DEF Stop, ForgetRequests, tables
<1>6. ASSUME NEW t \in Threads, Fail(t) PROVE HasGroup(n)'
  BY <1>2, <1>6 DEF Fail, tables
<1>7. ASSUME NEW t \in Threads, Creates(t) \/ Changes(t) \/ Regroups(t) PROVE HasGroup(n)'
  BY <1>2, <1>7 DEF Creates, Changes, Regroups, StartCreating, StartChanging, StartWithGroup, tables
<1>8. ASSUME NEW w \in Names, NEW h \in GroupNames, NEW power \in BOOLEAN,
             CreateGroupHandler(w, h, power)
      PROVE  HasGroup(n)'
  BY <1>2, <1>8 DEF CreateGroupHandler
<1>9. ASSUME NEW m \in Names, SetRating(m) PROVE HasGroup(n)'
  BY <1>2, <1>9 DEF SetRating
<1>10. ASSUME NEW t \in Threads, Write(t), ~RemoveGroup(t) PROVE HasGroup(n)'
  <2>1. CASE SaveGroup(t)
    <3>1. grp[t] \in Known /\ g \in Known
      BY <2>1 DEF SaveGroup, At, HoldsGroup, Known
    <3>2. g.id = grp[t].id => grp[t].name = n
      BY <1>1, <3>1 DEF GroupKeys
    <3> QED
      BY <1>1, <2>1, <3>2 DEF SaveGroup, HasGroup
  <2>2. CASE ~SaveGroup(t)
    BY <1>2, <1>10, <2>2 DEF Write, FindGroup, CreateMissingGroup, InsertUser, SaveUser, DeleteUser,
                             UpdateMembers, accountVars, tables
  <2> QED
    BY <2>1, <2>2
<1>11. ASSUME NEW t \in Threads, RemoveGroup(t), grp[t].name # n PROVE HasGroup(n)'
  <2>1. grp[t] \in Known /\ g \in Known
    BY <1>11 DEF RemoveGroup, At, HoldsGroup, Known
  <2>2. g.id # grp[t].id
    BY <1>1, <1>11, <2>1 DEF GroupKeys
  <2> QED
    BY <1>1, <1>11, <2>2 DEF RemoveGroup, HasGroup
<1> QED
  BY <1>3, <1>4, <1>5, <1>6, <1>7, <1>8, <1>9, <1>10, <1>11, StepForms DEF AccountStep

\* The other requests hold what they held.
Others(t) ==
    \A o \in Threads \ {t} :
        at'[o] = at[o] /\ row'[o] = row[o] /\ grp'[o] = grp[o] /\ todo'[o] = todo[o]

LEMMA OthersKept ==
    ASSUME TypeInv, NEW t \in Threads, NEW p \in Places, GoTo(t, p)
    PROVE  /\ ForgetRequest(t) => Others(t)
           /\ UNCHANGED held => Others(t)
           /\ at'[t] = p
BY DEF TypeInv, TypeOK, ServerTypeOK, AccountsTypeOK, GoTo, ForgetRequest, held, Others

\* No request is served while there is no process.
Quiet == proc = "down" => \A t \in Threads : at[t] = "idle"

LEMMA QuietStep == TypeInv /\ Quiet /\ [Next]_vars => Quiet'
<1> SUFFICES ASSUME TypeInv, Quiet, [Next]_vars PROVE Quiet'
  OBVIOUS
<1>1. CASE Start
  BY <1>1 DEF Start, StartProcess, Quiet
<1>2. CASE Stop
  BY <1>2 DEF Stop, Exit, Crash, Die, Quiet
<1>3. ASSUME NEW t \in Threads, Fail(t) PROVE Quiet'
  BY <1>3 DEF Fail, StatementFails, life, Quiet
<1>4. ASSUME NEW c \in Consoles, Console(c) PROVE Quiet'
  BY <1>4 DEF Console, Receive, SendCommand, Quiet
<1>5. ASSUME NEW n \in Names, TokenExpires(n) PROVE Quiet'
  BY <1>5 DEF TokenExpires, Expire, Quiet
<1>6. CASE AccountsNext
  <2>1. ASSUME NEW t \in Threads, Request(t) PROVE proc = "up" /\ proc' = proc
    BY <2>1, RequestForms DEF Creates, Changes, Regroups, StartCreating, StartChanging, StartWithGroup,
                              Begin, life, TypeInv, TypeOK
  <2>2. ASSUME NEW t \in Threads, Write(t) PROVE proc # "down" /\ proc' = proc
    BY <2>2 DEF Write, FindGroup, CreateMissingGroup, InsertUser, SaveUser, DeleteUser, SaveGroup,
                UpdateMembers, RemoveGroup, At, life
  <2>3. ASSUME NEW n \in Clients, Login(n) PROVE Quiet'
    BY <2>3 DEF Login, OpenSession, Quiet
  <2> QED
    BY <1>6, <2>1, <2>2, <2>3 DEF AccountsNext, CreateGroupHandler, SetRating, life, Quiet
<1>7. CASE BoardNext
  BY <1>7 DEF BoardNext, ClearMessages, Cleared, MessageHandler, DeleteMessage, Begin, TruncateFile,
              WriteLines, At, life, Quiet
<1>8. CASE UNCHANGED vars
  BY <1>8 DEF vars, serverVars, life, Quiet
<1> QED
  BY <1>1, <1>2, <1>3, <1>4, <1>5, <1>6, <1>7, <1>8 DEF Next

LEMMA MembersStep ==
    ASSUME TypeInv, Quiet, GroupKeys, MembersOK, ~raced, [Next]_vars, ~raced'
    PROVE  MembersOK'
<1> USE DEF TypeInv, TypeOK
<1>1. ASSUME NEW t \in Threads, RemoveGroup(t) PROVE MembersOK'
  <2>1. /\ at[t] = "deleting_group" /\ Ends(t) /\ users' = users
        /\ \A o \in Threads : Target(o) # grp[t].name
    BY <1>1 DEF RemoveGroup, At
  <2>2. \A u \in users : u.group # grp[t].name
    BY <2>1 DEF MembersOK, Emptied
  <2>3. Others(t) /\ at'[t] = "idle"
    BY <2>1, OthersKept DEF Ends, Places
  <2>4. ASSUME NEW n, n # grp[t].name, Exists(n) PROVE Exists(n)'
    <3>1. CASE HasGroup(n)
      <4>1. ASSUME NEW o \in Threads, RemoveGroup(o), grp[o].name = n PROVE o = t
        BY <2>1, <2>3, <4>1, OthersKept DEF RemoveGroup, Ends, At, Others, GoTo, ServerTypeOK, Places
      <4> QED
        BY <2>4, <3>1, <4>1, GroupsStay DEF Exists
    <3> QED
      BY <2>4, <3>1 DEF Exists
  <2>5. ASSUME NEW u \in users' PROVE Exists(u.group)'
    BY <2>1, <2>2, <2>4 DEF MembersOK
  <2>6. ASSUME NEW o \in Threads \ {t} PROVE Exists(Target(o))' /\ Emptied(o)'
    <3>1. Target(o)' = Target(o)
      BY <2>3 DEF Others, Target
    <3>2. \A n : n = Target(o) => Exists(n)'
      BY <2>1, <2>4 DEF MembersOK
    <3>3. Emptied(o)'
      BY <2>1, <2>3 DEF Emptied, Others, MembersOK
    <3> QED
      BY <3>1, <3>2, <3>3 DEF Exists
  <2>7. Exists(Target(t))' /\ Emptied(t)'
    BY <2>3 DEF Exists, Target, Emptied
  <2> QED
    BY <2>5, <2>6, <2>7 DEF MembersOK
<1>2. SUFFICES ASSUME \A t \in Threads : ~RemoveGroup(t)
               PROVE  MembersOK'
  BY <1>1
<1>3. ASSUME NEW n, Exists(n) PROVE Exists(n)'
  BY <1>2, <1>3, GroupsStay DEF Exists
<1>4. ASSUME NEW t \in Threads, Others(t),
             \A u \in users' : Exists(u.group)',
             Exists(Target(t))', Emptied(t)',
             \A o \in Threads \ {t} : Emptied(o)'
      PROVE  MembersOK'
  <2>1. ASSUME NEW o \in Threads \ {t} PROVE Exists(Target(o))'
    <3>1. Target(o)' = Target(o)
      BY <1>4 DEF Others, Target
    <3>2. \A n : n = Target(o) => Exists(n)'
      BY <1>3 DEF MembersOK
    <3> QED
      BY <3>1, <3>2 DEF Exists
  <2> QED
    BY <1>4, <2>1 DEF MembersOK
\* Users may change, but none enters a group.
<1>5. ASSUME NEW t \in Threads, Others(t), Exists(Target(t))', Emptied(t)',
             \A u \in users' : \E v \in users : u.group = v.group
      PROVE  MembersOK'
  <2>1. \A u \in users' : Exists(u.group)'
    BY <1>3, <1>5 DEF MembersOK
  <2>2. \A o \in Threads \ {t} : Emptied(o)'
    BY <1>5 DEF MembersOK, Emptied, Others
  <2> QED
    BY <1>4, <1>5, <2>1, <2>2
<1>6. ASSUME NEW t \in Threads, Ends(t),
             \A u \in users' : \E v \in users : u.group = v.group
      PROVE  MembersOK'
  <2>1. Others(t) /\ at'[t] = "idle"
    BY <1>6, OthersKept DEF Ends, Places
  <2> QED
    BY <1>5, <1>6, <2>1 DEF Exists, Target, Emptied
<1>7. CASE Aside
  <2>1. UNCHANGED <<users, held, raced>>
    BY <1>7 DEF Aside, accountVars, tables, ghosts
  <2>2. \A u \in users' : Exists(u.group)'
    BY <1>3, <2>1 DEF MembersOK
  <2>3. ASSUME NEW t \in Threads PROVE Exists(Target(t))' /\ Emptied(t)'
    <3>1. Target(t)' = Target(t) \/ Target(t)' = ""
      BY <1>7, <2>1 DEF Aside, Target, Elsewhere, Rewriting, held
    <3>2. \A n : n = Target(t) => Exists(n)'
      BY <1>3 DEF MembersOK
    <3>3. Emptied(t)'
      BY <1>7, <2>1 DEF Aside, Emptied, Elsewhere, Rewriting, held, MembersOK
    <3> QED
      BY <3>1, <3>2, <3>3 DEF Exists
  <2> QED
    BY <2>2, <2>3 DEF MembersOK
<1>8. CASE Stop
  <2>1. users' = users /\ \A t \in Threads : at'[t] = "idle"
    BY <1>8 DEF Stop, ForgetRequests, tables, Exit, Crash, Die
  <2> QED
    BY <1>3, <2>1 DEF MembersOK, Exists, Target, Emptied
<1>9. ASSUME NEW t \in Threads, Fail(t) PROVE MembersOK'
  BY <1>6, <1>9 DEF Fail, StatementFails, Ends, tables
<1>10. ASSUME NEW w \in Names, NEW g \in GroupNames, NEW power \in BOOLEAN,
              CreateGroupHandler(w, g, power)
       PROVE  MembersOK'
  <2>1. UNCHANGED <<at, users, held>>
    BY <1>10 DEF CreateGroupHandler
  <2>2. ASSUME NEW t \in Threads PROVE Exists(Target(t))' /\ Emptied(t)'
    <3>1. Target(t)' = Target(t)
      BY <2>1 DEF Target, held
    <3>2. \A n : n = Target(t) => Exists(n)'
      BY <1>3 DEF MembersOK
    <3> QED
      BY <2>1, <3>1, <3>2 DEF Exists, Emptied, held, MembersOK
  <2> QED
    BY <1>3, <2>1, <2>2 DEF MembersOK
<1>11. ASSUME NEW n \in Names, SetRating(n) PROVE MembersOK'
  <2>1. UNCHANGED <<at, groups, held>>
    BY <1>11 DEF SetRating
  <2>2. \A u \in UserRow : Rated(n, u).group = u.group
    BY DEF Rated, UserRow
  <2>3. \A u \in users' : \E v \in users : u.group = v.group
    BY <1>11, <2>2 DEF SetRating, AccountsTypeOK
  <2>4. \A u \in users' : Exists(u.group)'
    BY <1>3, <2>3 DEF MembersOK
  <2>5. ASSUME NEW t \in Threads PROVE Exists(Target(t))' /\ Emptied(t)'
    <3>1. Target(t)' = Target(t)
      BY <2>1 DEF Target, held
    <3>2. \A m : m = Target(t) => Exists(m)'
      BY <1>3 DEF MembersOK
    <3> QED
      BY <2>1, <2>3, <3>1, <3>2 DEF Exists, Emptied, held, MembersOK
  <2> QED
    BY <2>4, <2>5 DEF MembersOK
<1>12. CASE Start
  <2>1. \A t \in Threads : at'[t] = "idle"
    BY <1>12 DEF Start, StartProcess, Quiet
  <2>2. Exists("super")'
    <3>1. CASE HasGroup("super")
      BY <1>3, <3>1 DEF Exists
    <3>2. CASE ~HasGroup("super")
      <4> DEFINE super == [id |-> nextGroup, name |-> "super", power |-> TRUE,
                           creator |-> "super"]
      <4>1. groups' = groups \union {super} /\ super.name = "super"
        BY <1>12, <3>2 DEF Start, EnsureSuperGroupAndRoot
      <4> QED
        BY <4>1 DEF Exists, HasGroup
    <3> QED
      BY <3>1, <3>2
  <2>3. ASSUME NEW u \in users' PROVE Exists(u.group)'
    <3>1. CASE Taken("root")
      <4>1. PICK v \in users : u = Ensured(v)
        BY <1>12, <3>1 DEF Start, EnsureSuperGroupAndRoot
      <4>2. u.group = v.group \/ u.group = "super"
        BY <4>1 DEF Ensured, AccountsTypeOK, UserRow
      <4> QED
        BY <1>3, <2>2, <4>2 DEF MembersOK
    <3>2. CASE ~Taken("root")
      <4>1. users' = users \union {RootRow} /\ RootRow.group = "super"
        BY <1>12, <3>2 DEF Start, EnsureSuperGroupAndRoot, RootRow
      <4> QED
        BY <1>3, <2>2, <4>1 DEF MembersOK
    <3> QED
      BY <3>1, <3>2
  <2> QED
    BY <2>1, <2>3 DEF MembersOK, Exists, Target, Emptied
<1>13. ASSUME NEW t \in Threads, Creates(t) PROVE MembersOK'
  <2>1. PICK list \in Seq(UserRow), p \in {"finding_group", "inserting"} :
            /\ MayCreate(list, p)
            /\ p = "inserting" => Exists(list[1].group)
            /\ StartCreating(t, list, p)
    BY <1>13 DEF Creates, Exists
  <2>2. /\ at'[t] = p /\ todo'[t] = list /\ Others(t)
        /\ users' = users
    BY <2>1 DEF StartCreating, GoTo, ServerTypeOK, AccountsTypeOK, Others, tables
  <2>3. Head(list) = list[1]
    BY <2>1, RestOfUsers
  <2>4. \A n : n = list[1].group /\ p = "inserting" => Exists(n)'
    BY <1>3, <2>1
  <2>5. Exists(Target(t))' /\ Emptied(t)'
    BY <2>2, <2>3, <2>4 DEF Exists, Target, Emptied
  <2> QED
    BY <1>5, <2>2, <2>5
<1>14. ASSUME NEW t \in Threads, Changes(t) PROVE MembersOK'
  <2>1. PICK u \in users, c \in UserRow, p \in SavingUser \union {"deleting"} :
            c.group = u.group /\ StartChanging(t, u, c, p)
    BY <1>14 DEF Changes
  <2>2. at'[t] = p /\ row'[t] = c /\ Others(t) /\ users' = users
    BY <2>1 DEF StartChanging, GoTo, ServerTypeOK, AccountsTypeOK, Others, tables
  <2>3. \A n : n = u.group => Exists(n)'
    BY <1>3 DEF MembersOK
  <2>4. Exists(Target(t))' /\ Emptied(t)'
    BY <2>1, <2>2, <2>3 DEF Exists, Target, Emptied, SavingUser
  <2> QED
    BY <1>5, <2>2, <2>4
<1>15. ASSUME NEW t \in Threads, Regroups(t) PROVE MembersOK'
  <2>1. PICK g \in groups, c \in GroupRow, p \in {"saving_group", "deleting_group"} :
            /\ c.name = g.name
            /\ p = "deleting_group" => \A u \in users : u.group # g.name
            /\ \E w \in Names : StartWithGroup(t, w, g, c, p)
    BY <1>15 DEF Regroups
  <2>2. at'[t] = p /\ grp'[t] = c /\ Others(t) /\ users' = users
    BY <2>1 DEF StartWithGroup, GoTo, ServerTypeOK, AccountsTypeOK, Others, tables
  <2>3. Exists(Target(t))' /\ Emptied(t)'
    BY <2>1, <2>2 DEF Exists, Target, Emptied
  <2> QED
    BY <1>5, <2>2, <2>3
<1>16. ASSUME NEW t \in Threads, Enters(t), Others(t),
              \A u \in users' : u.group = Target(t) \/ \E v \in users : u.group = v.group,
              Exists(Target(t))', Emptied(t)'
       PROVE  MembersOK'
  <2>1. \A n : n = Target(t) => Exists(n)'
    BY <1>3 DEF MembersOK
  <2>2. \A u \in users' : Exists(u.group)'
    BY <1>3, <1>16, <2>1 DEF MembersOK
  <2>3. \A o \in Threads : at[o] = "deleting_group" => grp[o].name # Target(t)
    BY <1>16 DEF Enters
  <2>4. \A o \in Threads \ {t} : Emptied(o)'
    BY <1>16, <2>3 DEF MembersOK, Emptied, Others
  <2> QED
    BY <1>4, <1>16, <2>2, <2>4
<1>17. ASSUME NEW t \in Threads, at'[t] \notin {"inserting", "approving", "setting_password",
                                               "deleting_group"}
       PROVE  Exists(Target(t))' /\ Emptied(t)'
  BY <1>17 DEF Exists, Target, Emptied
<1>18. ASSUME NEW t \in Threads, InsertUser(t) PROVE MembersOK'
  <2> DEFINE u == [Head(todo[t]) EXCEPT !.id = nextUser]
  <2>1. CASE Taken(u.name)
    BY <1>6, <1>18, <2>1 DEF InsertUser
  <2>2. CASE ~Taken(u.name)
    <3>1. Head(todo[t]) \in UserRow
      BY <1>18, RestOfUsers DEF InsertUser, At, HasUsers, Creating, AccountsTypeOK
    <3>2. u.group = Target(t)
      BY <1>18, <3>1 DEF InsertUser, At, Target, UserRow
    <3>3. users' = users \union {u} /\ Enters(t)
      BY <1>18, <2>2 DEF InsertUser
    <3> HIDE DEF u
    <3>4. Others(t) /\ at'[t] \in {"idle", "finding_group"}
      <4>1. CASE Ends(t)
        BY <4>1, OthersKept DEF Ends, Places
      <4>2. CASE /\ GoTo(t, "finding_group") /\ todo' = [todo EXCEPT ![t] = Tail(@)]
                 /\ UNCHANGED <<row, grp>>
        BY <4>2 DEF GoTo, Others, ServerTypeOK, AccountsTypeOK
      <4> QED
        BY <1>18, <2>2, <4>1, <4>2 DEF InsertUser, u
    <3>5. \A v \in users' : v.group = Target(t) \/ \E w \in users : v.group = w.group
      BY <3>2, <3>3
    <3> QED
      BY <1>16, <1>17, <3>3, <3>4, <3>5
  <2> QED
    BY <2>1, <2>2
<1>19. ASSUME NEW t \in Threads, SaveUser(t) PROVE MembersOK'
  <2>1. Target(t) = row[t].group
    BY <1>19 DEF SaveUser, At, Target
  <2>2. \A v \in users' : v.group = Target(t) \/ \E w \in users : v.group = w.group
    BY <1>19, <2>1 DEF SaveUser
  <2>3. Enters(t) /\ Ends(t)
    BY <1>19 DEF SaveUser
  <2>4. Others(t) /\ at'[t] = "idle"
    BY <2>3, OthersKept DEF Ends, Places
  <2> QED
    BY <1>16, <1>17, <2>2, <2>3, <2>4
<1>20. ASSUME NEW t \in Threads, DeleteUser(t) PROVE MembersOK'
  BY <1>6, <1>20 DEF DeleteUser
<1>21. ASSUME NEW t \in Threads, UpdateMembers(t) PROVE MembersOK'
  <2>1. \A u \in UserRow : Moved(t, u).group = u.group
    BY DEF Moved, UserRow
  <2>2. users' = {Moved(t, u) : u \in users} /\ Ends(t)
    BY <1>21 DEF UpdateMembers
  <2>3. \A u \in users' : \E v \in users : u.group = v.group
    BY <2>1, <2>2 DEF AccountsTypeOK
  <2> QED
    BY <1>6, <2>2, <2>3
<1>22. ASSUME NEW t \in Threads, SaveGroup(t) PROVE MembersOK'
  <2>1. users' = users
    BY <1>22 DEF SaveGroup
  <2>2. CASE Ends(t)
    BY <1>6, <2>1, <2>2
  <2>3. CASE GoTo(t, "updating_members") /\ UNCHANGED held
    <3>1. Others(t) /\ at'[t] = "updating_members"
      BY <2>3, OthersKept DEF Places
    <3> QED
      BY <1>5, <1>17, <2>1, <3>1
  <2> QED
    BY <1>22, <2>2, <2>3 DEF SaveGroup
<1>23. ASSUME NEW t \in Threads, FindGroup(t) PROVE MembersOK'
  <2>1. UNCHANGED <<users, groups, held>>
    BY <1>23 DEF FindGroup, accountVars, tables
  <2>2. PICK p \in Places : /\ GoTo(t, p)
                            /\ p = "inserting" => HasGroup(Head(todo[t]).group)
                            /\ p \in {"inserting", "creating_group"}
    BY <1>23 DEF FindGroup, Places
  <2>3. Others(t) /\ at'[t] = p
    BY <2>1, <2>2, OthersKept
  <2>4. Exists(Target(t))' /\ Emptied(t)'
    BY <2>1, <2>2, <2>3 DEF Exists, Target, Emptied, HasGroup, held
  <2> QED
    BY <1>5, <2>1, <2>3, <2>4
<1>24. ASSUME NEW t \in Threads, CreateMissingGroup(t) PROVE MembersOK'
  <2> DEFINE u == Head(todo[t])
             g == [id |-> nextGroup, name |-> u.group, power |-> FALSE, creator |-> u.creator]
  <2>1. CASE HasGroup(u.group)
    BY <1>6, <1>24, <2>1 DEF CreateMissingGroup
  <2>2. CASE ~HasGroup(u.group)
    <3>1. /\ groups' = groups \union {g} /\ UNCHANGED <<held, users>>
          /\ GoTo(t, "inserting")
      BY <1>24, <2>2 DEF CreateMissingGroup
    <3>2. g.name = u.group
      OBVIOUS
    <3>3. Others(t) /\ at'[t] = "inserting"
      BY <3>1, OthersKept DEF Places
    <3>4. Target(t)' = u.group
      BY <3>1, <3>3 DEF Target, held
    <3> HIDE DEF u, g
    <3>5. Exists(Target(t))' /\ Emptied(t)'
      BY <3>1, <3>2, <3>3, <3>4 DEF Exists, HasGroup, Emptied
    <3> QED
      BY <1>5, <3>1, <3>3, <3>5
  <2> QED
    BY <2>1, <2>2
<1>25. ASSUME NEW t \in Threads, Write(t) PROVE MembersOK'
  BY <1>2, <1>18, <1>19, <1>20, <1>21, <1>22, <1>23, <1>24, <1>25 DEF Write
<1> QED
  BY <1>7, <1>8, <1>9, <1>10, <1>11, <1>12, <1>13, <1>14, <1>15, <1>25, StepForms DEF AccountStep

LEMMA RacedKept ==
    ASSUME TypeInv, [Next]_vars, raced
    PROVE  raced'
<1>1. CASE Aside
  BY <1>1 DEF Aside, accountVars, ghosts
<1>2. CASE Start
  BY <1>2 DEF Start, EnsureSuperGroupAndRoot
<1>3. CASE Stop
  BY <1>3 DEF Stop, ForgetRequests, ghosts
<1>4. ASSUME NEW t \in Threads, Fail(t) PROVE raced'
  BY <1>4 DEF Fail, ghosts
<1>5. ASSUME NEW t \in Threads, Creates(t) \/ Changes(t) \/ Regroups(t) PROVE raced'
  BY <1>5 DEF Creates, Changes, Regroups, StartCreating, StartChanging, StartWithGroup, ghosts
<1>6. ASSUME NEW t \in Threads, Write(t) PROVE raced'
  BY <1>6 DEF Write, FindGroup, CreateMissingGroup, InsertUser, SaveUser, DeleteUser, SaveGroup,
              UpdateMembers, RemoveGroup, Enters, accountVars, ghosts
<1>7. ASSUME NEW w \in Names, NEW g \in GroupNames, NEW power \in BOOLEAN,
             CreateGroupHandler(w, g, power)
      PROVE  raced'
  BY <1>7 DEF CreateGroupHandler, ghosts
<1>8. ASSUME NEW n \in Names, SetRating(n) PROVE raced'
  BY <1>8 DEF SetRating
<1> QED
  BY <1>1, <1>2, <1>3, <1>4, <1>5, <1>6, <1>7, <1>8, StepForms DEF AccountStep

\* However many registrations, imports, approvals and deletions of groups run at once: when
\* nobody entered a group that was being deleted, every user's group is there.
THEOREM MembersHaveGroupsAlways == Spec => []MembersHaveGroups
<1> DEFINE Inv == Quiet /\ GroupKeys /\ (~raced => MembersOK)
<1>1. Init => Inv
  <2> SUFFICES ASSUME Init PROVE Inv
    OBVIOUS
  <2>1. \A t \in Threads : at[t] = "idle"
    BY DEF Init, ServerInit
  <2>2. Known = groups
    BY <2>1 DEF Known, HoldsGroup
  <2>3. GroupKeys
    BY <2>2, AccountsAssumption DEF GroupKeys, Init, AccountsInit
  <2>4. \A u \in users : HasGroup(u.group)
    BY AccountsAssumption DEF Init, AccountsInit, HasGroup
  <2> QED
    BY <2>1, <2>3, <2>4 DEF Quiet, MembersOK, Exists, Target, Emptied
<1>2. TypeInv /\ Inv /\ [Next]_vars => Inv'
  <2> SUFFICES ASSUME TypeInv, Inv, [Next]_vars PROVE Inv'
    OBVIOUS
  <2>1. Quiet' /\ GroupKeys'
    BY QuietStep, GroupKeysStep
  <2>2. raced => raced'
    BY RacedKept
  <2> QED
    BY <2>1, <2>2, MembersStep
<1>3. Inv => MembersHaveGroups
  BY DEF MembersOK, Exists, MembersHaveGroups
<1> QED
  BY <1>1, <1>2, <1>3, InitTyped, StepTyped, PTL DEF Spec

-----------------------------------------------------------------------------
(* The rows of users                                                       *)

HoldsUser(t) == at[t] \in SavingUser \union {"deleting"}

\* Keys are used once.
UserKeys ==
    /\ \A u \in users \union wanted : u.id < nextUser
    /\ \A t \in Threads : HoldsUser(t) => row[t].id < nextUser
    /\ \A u, v \in users : u.id = v.id => u = v

\* A copy that nobody has crossed differs from the row in what is to be changed.
CopyOK(t) ==
    at[t] \in SavingUser /\ row[t].id \notin crossed =>
        \E u \in users : u.id = row[t].id /\ row[t] = Change(t, u)

SavedInv == UserKeys /\ SavedAsIntended /\ \A t \in Threads : CopyOK(t)

\* A request that is to write a copy had it before.
CopiesKept ==
    /\ crossed \subseteq crossed'
    /\ \A t \in Threads : HoldsUser(t)' => at'[t] = at[t] /\ row'[t] = row[t]

\* Every row is changed in its place, the same way in both tables, and copies that are to
\* be written are of rows that are not changed.
LEMMA SavedMapped ==
    ASSUME TypeInv, SavedInv, NEW f \in [UserRow -> UserRow], \A u \in UserRow : f[u].id = u.id,
           users' = {f[u] : u \in users}, wanted' = {f[u] : u \in wanted},
           nextUser' = nextUser, CopiesKept,
           \A t \in Threads : at'[t] \in SavingUser /\ row'[t].id \notin crossed' =>
               \A u \in users : u.id = row'[t].id => f[u] = u
    PROVE  SavedInv'
<1> USE DEF TypeInv, TypeOK, AccountsTypeOK
<1>1. ASSUME NEW v \in users' \union wanted'
      PROVE  \E u \in users \union wanted : v = f[u] /\ v.id = u.id
  OBVIOUS
<1>2. UserKeys'
  <2>1. ASSUME NEW v \in users' \union wanted' PROVE v.id < nextUser'
    <3>1. PICK u \in users \union wanted : v.id = u.id
      BY <1>1
    <3> QED
      BY <3>1 DEF SavedInv, UserKeys
  <2>2. ASSUME NEW t \in Threads, HoldsUser(t)' PROVE row'[t].id < nextUser'
    BY <2>2 DEF CopiesKept, HoldsUser, SavedInv, UserKeys
  <2>3. ASSUME NEW u \in users', NEW v \in users', u.id = v.id PROVE u = v
    <3>1. PICK x \in users, y \in users : u = f[x] /\ v = f[y]
      OBVIOUS
    <3>2. x.id = y.id
      BY <2>3, <3>1
    <3> QED
      BY <3>1, <3>2 DEF SavedInv, UserKeys
  <2> QED
    BY <2>1, <2>2, <2>3 DEF UserKeys
<1>3. ASSUME NEW v \in users' \union wanted', v.id \notin crossed'
      PROVE  v \in users' /\ v \in wanted'
  <2>1. PICK u \in users \union wanted : v = f[u] /\ v.id = u.id
    BY <1>1
  <2>2. u \in users /\ u \in wanted
    BY <1>3, <2>1 DEF SavedInv, SavedAsIntended, CopiesKept
  <2> QED
    BY <2>1, <2>2
<1>4. ASSUME NEW t \in Threads, at'[t] \in SavingUser, row'[t].id \notin crossed'
      PROVE  \E u \in users' : u.id = row'[t].id /\ row'[t] = Change(t, u)'
  <2>1. at'[t] = at[t] /\ row'[t] = row[t]
    BY <1>4 DEF CopiesKept, HoldsUser
  <2>2. PICK u \in users : u.id = row[t].id /\ row[t] = Change(t, u)
    BY <1>4, <2>1 DEF SavedInv, CopyOK, CopiesKept
  <2>3. u = f[u] /\ u \in users'
    BY <1>4, <2>1, <2>2
  <2> QED
    BY <2>1, <2>2, <2>3 DEF Change
<1> QED
  BY <1>2, <1>3, <1>4 DEF SavedInv, SavedAsIntended, CopyOK

\* The tables stay.
LEMMA SavedKept ==
    ASSUME TypeInv, SavedInv, UNCHANGED <<users, wanted, nextUser>>, CopiesKept
    PROVE  SavedInv'
<1> DEFINE f == [u \in UserRow |-> u]
<1>1. /\ f \in [UserRow -> UserRow] /\ \A u \in UserRow : f[u] = u
      /\ users \subseteq UserRow /\ wanted \subseteq UserRow
  BY DEF TypeInv, TypeOK, AccountsTypeOK
<1> HIDE DEF f
<1>2. users' = {f[u] : u \in users} /\ wanted' = {f[u] : u \in wanted}
  BY <1>1
<1> QED
  BY <1>1, <1>2, SavedMapped

\* A request that ends holds nothing.
LEMMA CopyDropped ==
    ASSUME TypeInv, NEW t \in Threads, NEW p \in Places, GoTo(t, p),
           ForgetRequest(t) \/ UNCHANGED row,
           p \notin SavingUser \union {"deleting"}, crossed \subseteq crossed'
    PROVE  CopiesKept
BY DEF TypeInv, TypeOK, AccountsTypeOK, ServerTypeOK, GoTo, ForgetRequest, CopiesKept, HoldsUser

LEMMA SavedStep ==
    ASSUME TypeInv, Quiet, SavedInv, [Next]_vars
    PROVE  SavedInv'
<1> USE DEF TypeInv, TypeOK
<1>0. users \subseteq UserRow /\ wanted \subseteq UserRow /\ nextUser \in Nat
  BY DEF AccountsTypeOK
<1>1. CASE Aside
  BY <1>1, SavedKept DEF Aside, accountVars, tables, held, ghosts, CopiesKept, HoldsUser, SavingUser,
                         Elsewhere, Rewriting
<1>2. CASE Start
  <2>1. /\ \A t \in Threads : at'[t] = "idle"
        /\ crossed' = crossed
    BY <1>2 DEF Start, StartProcess, EnsureSuperGroupAndRoot, Quiet
  <2>2. CopiesKept /\ \A t \in Threads : at'[t] \notin SavingUser /\ ~HoldsUser(t)'
    BY <2>1 DEF CopiesKept, HoldsUser, SavingUser
  <2>3. CASE Taken("root")
    <3> DEFINE f == [u \in UserRow |-> Ensured(u)]
    <3>1. /\ f \in [UserRow -> UserRow] /\ \A u \in UserRow : f[u] = Ensured(u)
      BY RowsTyped
    <3>2. \A u \in UserRow : Ensured(u).id = u.id
      BY DEF Ensured, UserRow
    <3>3. /\ users' = {Ensured(u) : u \in users} /\ wanted' = {Ensured(u) : u \in wanted}
          /\ nextUser' = nextUser
      BY <1>2, <2>3 DEF Start, EnsureSuperGroupAndRoot
    <3> HIDE DEF f
    <3>4. users' = {f[u] : u \in users} /\ wanted' = {f[u] : u \in wanted}
      BY <1>0, <3>1, <3>3
    <3> QED
      BY <2>2, <3>1, <3>2, <3>3, <3>4, SavedMapped
  <2>4. CASE ~Taken("root")
    <3>1. /\ users' = users \union {RootRow} /\ wanted' = wanted \union {RootRow}
          /\ nextUser' = nextUser + 1 /\ RootRow.id = nextUser
      BY <1>2, <2>4 DEF Start, EnsureSuperGroupAndRoot, RootRow
    <3>2. \A u \in users \union wanted : u.id \in Nat /\ u.id < nextUser
      BY <1>0 DEF SavedInv, UserKeys, UserRow
    <3>3. UserKeys'
      BY <1>0, <2>2, <3>1, <3>2 DEF SavedInv, UserKeys
    <3>4. SavedAsIntended'
      BY <2>1, <3>1 DEF SavedInv, SavedAsIntended
    <3> QED
      BY <2>2, <3>3, <3>4 DEF SavedInv, CopyOK
  <2> QED
    BY <2>3, <2>4
<1>3. CASE Stop
  <2>1. \A t \in Threads : at'[t] = "idle"
    BY <1>3 DEF Stop, Exit, Crash, Die
  <2> QED
    BY <1>3, <2>1, SavedKept DEF Stop, ForgetRequests, tables, ghosts, CopiesKept, HoldsUser, SavingUser
<1>4. ASSUME NEW t \in Threads, GoTo(t, "idle"), ForgetRequest(t), crossed \subseteq crossed'
      PROVE  CopiesKept
  BY <1>4, CopyDropped DEF Places, SavingUser
<1>5. ASSUME NEW t \in Threads, Fail(t) PROVE SavedInv'
  BY <1>4, <1>5, SavedKept DEF Fail, StatementFails, tables, ghosts
<1>6. ASSUME NEW t \in Threads, Creates(t) PROVE SavedInv'
  <2>1. PICK p \in {"finding_group", "inserting"} : \E list \in Seq(UserRow) : StartCreating(t, list, p)
    BY <1>6 DEF Creates
  <2>2. CopiesKept
    BY <2>1, CopyDropped DEF StartCreating, Places, SavingUser, ghosts
  <2> QED
    BY <2>1, <2>2, SavedKept DEF StartCreating, tables, ghosts
<1>7. ASSUME NEW t \in Threads, Regroups(t) PROVE SavedInv'
  <2>1. PICK p \in {"saving_group", "deleting_group"} :
            \E w \in Names, g \in groups, c \in GroupRow : StartWithGroup(t, w, g, c, p)
    BY <1>7 DEF Regroups
  <2>2. CopiesKept
    BY <2>1, CopyDropped DEF StartWithGroup, Places, SavingUser, ghosts
  <2> QED
    BY <2>1, <2>2, SavedKept DEF StartWithGroup, tables, ghosts
<1>8. ASSUME NEW t \in Threads, Changes(t) PROVE SavedInv'
  <2>1. PICK u \in users, c \in UserRow, p \in SavingUser \union {"deleting"} :
            /\ c.id = u.id
            /\ p = "approving" => c = [u EXCEPT !.approved = TRUE]
            /\ p = "setting_password" => c = [u EXCEPT !.password = "second"]
            /\ StartChanging(t, u, c, p)
    BY <1>8 DEF Changes
  <2>2. /\ \A o \in Threads : /\ at'[o] = IF o = t THEN p ELSE at[o]
                             /\ row'[o] = IF o = t THEN c ELSE row[o]
        /\ UNCHANGED <<users, wanted, crossed, nextUser>>
    BY <2>1 DEF StartChanging, GoTo, ServerTypeOK, AccountsTypeOK, tables, ghosts
  <2>3. UserKeys'
    BY <2>1, <2>2 DEF SavedInv, UserKeys, HoldsUser
  <2>4. SavedAsIntended'
    BY <2>2 DEF SavedInv, SavedAsIntended
  <2>5. CopyOK(t)'
    BY <2>1, <2>2 DEF CopyOK, Change, SavingUser
  <2>6. ASSUME NEW o \in Threads \ {t} PROVE CopyOK(o)'
    <3>1. at'[o] = at[o] /\ row'[o] = row[o] /\ users' = users /\ crossed' = crossed
      BY <2>2
    <3>2. \A v : Change(o, v)' = Change(o, v)
      BY <3>1 DEF Change
    <3> QED
      BY <3>1, <3>2 DEF SavedInv, CopyOK
  <2> QED
    BY <2>3, <2>4, <2>5, <2>6 DEF SavedInv
<1>9. ASSUME NEW w \in Names, NEW g \in GroupNames, NEW power \in BOOLEAN,
             CreateGroupHandler(w, g, power)
      PROVE  SavedInv'
  BY <1>9, SavedKept DEF CreateGroupHandler, held, ghosts, CopiesKept, HoldsUser
<1>10. ASSUME NEW n \in Names, SetRating(n) PROVE SavedInv'
  <2> DEFINE f == [u \in UserRow |-> Rated(n, u)]
  <2>1. /\ f \in [UserRow -> UserRow] /\ \A u \in UserRow : f[u] = Rated(n, u)
    BY RowsTyped DEF Rated
  <2>2. \A u \in UserRow : Rated(n, u).id = u.id
    BY DEF Rated, UserRow
  <2>3. /\ users' = {Rated(n, u) : u \in users} /\ wanted' = {Rated(n, u) : u \in wanted}
        /\ crossed' = crossed
                \union {u.id : u \in {v \in users : v.name = n /\ Holders(v.id) # {}}}
        /\ UNCHANGED <<nextUser, at, row>>
    BY <1>10 DEF SetRating, held
  <2> HIDE DEF f
  <2>4. users' = {f[u] : u \in users} /\ wanted' = {f[u] : u \in wanted}
    BY <1>0, <2>1, <2>3
  <2>5. CopiesKept
    BY <2>3 DEF CopiesKept, HoldsUser
  <2>6. ASSUME NEW t \in Threads, at'[t] \in SavingUser, row'[t].id \notin crossed',
               NEW u \in users, u.id = row'[t].id
        PROVE  f[u] = u
    <3>1. t \in Holders(u.id)
      BY <2>3, <2>6 DEF Holders, SavingUser
    <3>2. u.name # n
      BY <2>3, <2>6, <3>1
    <3> QED
      BY <1>0, <2>1, <3>2 DEF Rated
  <2>7. \A t \in Threads : at'[t] \in SavingUser /\ row'[t].id \notin crossed' =>
            \A u \in users : u.id = row'[t].id => f[u] = u
    BY <2>6
  <2>8. nextUser' = nextUser /\ \A u \in UserRow : f[u].id = u.id
    BY <2>1, <2>2, <2>3
  <2> QED
    BY <2>1, <2>4, <2>5, <2>7, <2>8, SavedMapped
<1>11. ASSUME NEW t \in Threads, Ends(t), UNCHANGED <<users, wanted, nextUser>>,
              crossed \subseteq crossed'
       PROVE  SavedInv'
  BY <1>4, <1>11, SavedKept DEF Ends
<1>12. ASSUME NEW t \in Threads, NEW p \in Places \ (SavingUser \union {"deleting"}), GoTo(t, p),
              UNCHANGED <<users, wanted, nextUser, crossed, row>>
       PROVE  SavedInv'
  BY <1>12, SavedKept, CopyDropped
<1>13. ASSUME NEW t \in Threads, FindGroup(t) PROVE SavedInv'
  BY <1>12, <1>13 DEF FindGroup, accountVars, tables, held, ghosts, Places, SavingUser
<1>14. ASSUME NEW t \in Threads, CreateMissingGroup(t) PROVE SavedInv'
  <2>1. UNCHANGED <<users, nextUser, wanted, crossed>>
    BY <1>14 DEF CreateMissingGroup, ghosts
  <2>2. CASE Ends(t)
    BY <1>11, <2>1, <2>2
  <2>3. CASE GoTo(t, "inserting") /\ UNCHANGED held
    BY <1>12, <2>1, <2>3 DEF held, Places, SavingUser
  <2> QED
    BY <1>14, <2>2, <2>3 DEF CreateMissingGroup
<1>15. ASSUME NEW t \in Threads, InsertUser(t) PROVE SavedInv'
  <2> DEFINE u == [Head(todo[t]) EXCEPT !.id = nextUser]
  <2>1. CASE Taken(u.name)
    BY <1>11, <1>15, <2>1 DEF InsertUser
  <2>2. CASE ~Taken(u.name)
    <3>1. /\ users' = users \union {u} /\ wanted' = wanted \union {u}
          /\ nextUser' = nextUser + 1 /\ crossed' = crossed
      BY <1>15, <2>2 DEF InsertUser
    <3>2. Head(todo[t]) \in UserRow
      BY <1>15, RestOfUsers DEF InsertUser, At, HasUsers, Creating, AccountsTypeOK
    <3>3. u.id = nextUser
      BY <3>2 DEF UserRow
    <3>4. CopiesKept
      <4>1. CASE Ends(t)
        BY <1>4, <3>1, <4>1 DEF Ends
      <4>2. CASE GoTo(t, "finding_group") /\ UNCHANGED <<row, grp>>
        BY <3>1, <4>2, CopyDropped DEF Places, SavingUser
      <4> QED
        BY <1>15, <2>2, <4>1, <4>2 DEF InsertUser
    <3> HIDE DEF u
    <3>5. \A v \in users \union wanted : v.id \in Nat /\ v.id < nextUser
      BY <1>0 DEF SavedInv, UserKeys, UserRow
    <3>6. ASSUME NEW o \in Threads, HoldsUser(o)' PROVE row'[o].id < nextUser'
      <4>1. row'[o] = row[o] /\ HoldsUser(o)
        BY <3>4, <3>6 DEF CopiesKept, HoldsUser
      <4>2. row[o].id \in Nat /\ row[o].id < nextUser
        BY <4>1 DEF SavedInv, UserKeys, AccountsTypeOK, UserRow
      <4> QED
        BY <1>0, <3>1, <4>1, <4>2
    <3>7. UserKeys'
      BY <1>0, <3>1, <3>3, <3>5, <3>6 DEF SavedInv, UserKeys
    <3>8. SavedAsIntended'
      BY <3>1 DEF SavedInv, SavedAsIntended
    <3>9. ASSUME NEW o \in Threads, at'[o] \in SavingUser, row'[o].id \notin crossed'
          PROVE  \E v \in users' : v.id = row'[o].id /\ row'[o] = Change(o, v)'
      <4>1. at'[o] = at[o] /\ row'[o] = row[o]
        BY <3>4, <3>9 DEF CopiesKept, HoldsUser
      <4>2. \A v : Change(o, v)' = Change(o, v)
        BY <4>1 DEF Change
      <4> QED
        BY <3>1, <3>9, <4>1, <4>2 DEF SavedInv, CopyOK
    <3> QED
      BY <3>7, <3>8, <3>9 DEF SavedInv, CopyOK
  <2> QED
    BY <2>1, <2>2
<1>16. ASSUME NEW t \in Threads, NEW S, Crosses(t, S) PROVE crossed \subseteq crossed'
  BY <1>16 DEF Crosses
\* Only t touches the rows with key i.
<1>17. ASSUME NEW t \in Threads, NEW i \in Nat, i < nextUser, Ends(t), Crosses(t, {i}),
              nextUser' = nextUser,
              \A u : u.id # i => (u \in users' <=> u \in users) /\ (u \in wanted' <=> u \in wanted),
              \A u, v \in users' : u.id = i /\ v.id = i => u = v,
              i \notin crossed' => \A u \in users' \union wanted' :
                                        u.id = i => u \in users' /\ u \in wanted'
       PROVE  SavedInv'
  <2>1. CopiesKept
    BY <1>4, <1>16, <1>17 DEF Ends
  <2>2. UserKeys'
    <3>1. \A u \in users' \union wanted' : u.id < nextUser'
      BY <1>17 DEF SavedInv, UserKeys
    <3>2. \A o \in Threads : HoldsUser(o)' => row'[o].id < nextUser'
      BY <1>17, <2>1 DEF CopiesKept, HoldsUser, SavedInv, UserKeys
    <3>3. \A u, v \in users' : u.id = v.id => u = v
      BY <1>17 DEF SavedInv, UserKeys
    <3> QED
      BY <3>1, <3>2, <3>3 DEF UserKeys
  <2>3. SavedAsIntended'
    BY <1>17, <2>1 DEF SavedInv, SavedAsIntended, CopiesKept
  <2>4. ASSUME NEW o \in Threads, at'[o] \in SavingUser, row'[o].id \notin crossed'
        PROVE  \E v \in users' : v.id = row'[o].id /\ row'[o] = Change(o, v)'
    <3>1. at'[o] = at[o] /\ row'[o] = row[o] /\ o # t
      BY <1>17, <2>1, <2>4 DEF CopiesKept, HoldsUser, Ends, GoTo, ServerTypeOK, SavingUser
    <3>2. row[o].id # i
      BY <1>17, <2>4, <3>1 DEF Crosses, Holders, SavingUser
    <3>3. \A v : Change(o, v)' = Change(o, v)
      BY <3>1 DEF Change
    <3>4. PICK v \in users : v.id = row[o].id /\ row[o] = Change(o, v)
      BY <2>1, <2>4, <3>1 DEF CopiesKept, SavedInv, CopyOK
    <3> QED
      BY <1>17, <3>1, <3>2, <3>3, <3>4
  <2> QED
    BY <2>2, <2>3, <2>4 DEF SavedInv, CopyOK
<1>18. ASSUME NEW t \in Threads, HoldsUser(t) PROVE row[t].id \in Nat /\ row[t].id < nextUser
  BY <1>18 DEF SavedInv, UserKeys, AccountsTypeOK, UserRow
<1>19. ASSUME NEW t \in Threads, DeleteUser(t) PROVE SavedInv'
  <2> DEFINE i == row[t].id
  <2>1. /\ users' = {u \in users : u.id # i} /\ wanted' = {u \in wanted : u.id # i}
        /\ Crosses(t, {i}) /\ Ends(t) /\ nextUser' = nextUser
    BY <1>19 DEF DeleteUser
  <2>2. i \in Nat /\ i < nextUser
    BY <1>18, <1>19 DEF DeleteUser, At, HoldsUser
  <2> HIDE DEF i
  <2> QED
    BY <1>17, <2>1, <2>2
<1>20. ASSUME NEW t \in Threads, SaveUser(t) PROVE SavedInv'
  <2> DEFINE i == row[t].id
  <2>1. /\ users' = IF \E u \in users : u.id = i
                    THEN {IF u.id = i THEN row[t] ELSE u : u \in users}
                    ELSE IF Taken(row[t].name) THEN users ELSE users \union {row[t]}
        /\ wanted' = {IF u.id = i THEN Change(t, u) ELSE u : u \in wanted}
        /\ Crosses(t, {i}) /\ Ends(t) /\ nextUser' = nextUser
    BY <1>20 DEF SaveUser
  <2>2. i \in Nat /\ i < nextUser /\ at[t] \in SavingUser /\ row[t].id = i
    BY <1>18, <1>20 DEF SaveUser, At, HoldsUser, SavingUser
  <2>3. \A u \in UserRow : Change(t, u).id = u.id
    BY DEF Change, UserRow
  <2> HIDE DEF i
  <2>4. \A u : u.id # i => (u \in users' <=> u \in users)
    BY <2>1, <2>2
  <2>5. \A u : u.id # i => (u \in wanted' <=> u \in wanted)
    BY <1>0, <2>1, <2>3
  <2>6. \A u \in users' : u.id = i => u = row[t] \/ (u \in users /\ ~\E v \in users : v.id = i)
    BY <2>1
  <2>7. ASSUME i \notin crossed', NEW u \in users' \union wanted', u.id = i
        PROVE  u \in users' /\ u \in wanted'
    <3>1. i \notin crossed
      BY <1>16, <2>1, <2>7
    <3>2. PICK v \in users : v.id = i /\ row[t] = Change(t, v)
      BY <2>2, <3>1 DEF SavedInv, CopyOK
    <3>3. v \in wanted
      BY <3>1, <3>2 DEF SavedInv, SavedAsIntended
    <3>4. row[t] \in users' /\ row[t] \in wanted'
      BY <2>1, <3>2, <3>3
    <3>5. u \in users' => u = row[t]
      BY <2>6, <2>7, <3>2
    <3>6. ASSUME u \in wanted' PROVE u = row[t]
      <4>1. PICK w \in wanted : u = IF w.id = i THEN Change(t, w) ELSE w
        BY <2>1, <3>6
      <4>2. w.id = i
        BY <2>7, <4>1
      <4>3. w = v
        BY <3>1, <3>2, <4>2 DEF SavedInv, SavedAsIntended, UserKeys
      <4> QED
        BY <3>2, <4>1, <4>2, <4>3
    <3> QED
      BY <2>7, <3>4, <3>5, <3>6
  <2>8. \A u, v \in users' : u.id = i /\ v.id = i => u = v
    BY <2>6
  <2> QED
    BY <1>17, <2>1, <2>2, <2>4, <2>5, <2>7, <2>8
<1>21. ASSUME NEW t \in Threads, UpdateMembers(t) PROVE SavedInv'
  <2> DEFINE f == [u \in UserRow |-> Moved(t, u)]
  <2>1. \A u \in UserRow : Moved(t, u) \in UserRow /\ Moved(t, u).id = u.id
    BY DEF Moved, UserRow, AccountsTypeOK, GroupRow
  <2>2. /\ f \in [UserRow -> UserRow] /\ \A u \in UserRow : f[u] = Moved(t, u)
    BY <2>1
  <2>3. /\ users' = {Moved(t, u) : u \in users} /\ wanted' = {Moved(t, u) : u \in wanted}
        /\ Crosses(t, {u.id : u \in {v \in users : v.group = grp[t].name}})
        /\ Ends(t) /\ at[t] = "updating_members"
        /\ nextUser' = nextUser
    BY <1>21 DEF UpdateMembers, At
  <2> HIDE DEF f
  <2>4. users' = {f[u] : u \in users} /\ wanted' = {f[u] : u \in wanted}
    BY <1>0, <2>2, <2>3
  <2>5. CopiesKept
    BY <1>4, <1>16, <2>3 DEF Ends
  <2>6. ASSUME NEW o \in Threads, at'[o] \in SavingUser, row'[o].id \notin crossed',
               NEW u \in users, u.id = row'[o].id
        PROVE  f[u] = u
    <3>1. at'[o] = at[o] /\ row'[o] = row[o]
      BY <2>5, <2>6 DEF CopiesKept, HoldsUser
    <3>2. o \in Holders(u.id) /\ o # t
      BY <2>3, <2>6, <3>1 DEF Holders, SavingUser
    <3>3. u.group # grp[t].name
      BY <2>3, <2>6, <3>2 DEF Crosses
    <3> QED
      BY <1>0, <2>2, <3>3 DEF Moved
  <2>7. \A o \in Threads : at'[o] \in SavingUser /\ row'[o].id \notin crossed' =>
            \A u \in users : u.id = row'[o].id => f[u] = u
    BY <2>6
  <2>8. nextUser' = nextUser /\ \A u \in UserRow : f[u].id = u.id
    BY <2>1, <2>2, <2>3
  <2> QED
    BY <2>2, <2>4, <2>5, <2>7, <2>8, SavedMapped
<1>22. ASSUME NEW t \in Threads, SaveGroup(t) PROVE SavedInv'
  <2>1. UNCHANGED <<users, nextUser, wanted, crossed>>
    BY <1>22 DEF SaveGroup, ghosts
  <2>2. CASE Ends(t)
    BY <1>11, <2>1, <2>2
  <2>3. CASE GoTo(t, "updating_members") /\ UNCHANGED held
    BY <1>12, <2>1, <2>3 DEF held, Places, SavingUser
  <2> QED
    BY <1>22, <2>2, <2>3 DEF SaveGroup
<1>23. ASSUME NEW t \in Threads, RemoveGroup(t) PROVE SavedInv'
  BY <1>11, <1>23 DEF RemoveGroup
<1>24. ASSUME NEW t \in Threads, Write(t) PROVE SavedInv'
  BY <1>13, <1>14, <1>15, <1>19, <1>20, <1>21, <1>22, <1>23, <1>24 DEF Write
<1> QED
  BY <1>1, <1>2, <1>3, <1>5, <1>6, <1>7, <1>8, <1>9, <1>10, <1>24, StepForms DEF AccountStep

\* However many requests read and save whole rows at once: an account that nobody wrote while
\* another request held a copy of it is what the requests on it asked for.
THEOREM SavedAsIntendedAlways == Spec => []SavedAsIntended
<1> DEFINE Inv == Quiet /\ SavedInv
<1>1. Init => Inv
  <2> SUFFICES ASSUME Init PROVE Inv
    OBVIOUS
  <2>1. \A t \in Threads : at[t] = "idle"
    BY DEF Init, ServerInit
  <2>2. UserKeys
    BY <2>1, AccountsAssumption DEF UserKeys, HoldsUser, SavingUser, Init, AccountsInit
  <2>3. SavedAsIntended
    BY DEF SavedAsIntended, Init, AccountsInit
  <2> QED
    BY <2>1, <2>2, <2>3 DEF Quiet, SavedInv, CopyOK, SavingUser
<1>2. TypeInv /\ Inv /\ [Next]_vars => Inv'
  BY QuietStep, SavedStep
<1>3. Inv => SavedAsIntended
  BY DEF SavedInv
<1> QED
  BY <1>1, <1>2, <1>3, InitTyped, StepTyped, PTL DEF Spec
=============================================================================
