----------------------------- MODULE UserManager -----------------------------
(***************************************************************************)
(* The user directory of the chat server: class UserManager (its list of   *)
(* cached users and its two id counters) together with the two MySQL       *)
(* tables it writes through MySqlManager, t_user and t_user_relationship.  *)
(*                                                                         *)
(* The whole directory is one record `mgr'; every method of the class is   *)
(* an operator from a directory (and the outcome of the SQL statement it   *)
(* executes) to [ok |-> what the method returns, mgr |-> the new           *)
(* directory], so that a message handler that calls several methods can    *)
(* thread the directory through them.                                      *)
(***************************************************************************)
EXTENDS Integers, Sequences, FiniteSets

CONSTANTS
  Names,            \* user names clients register with, a subset of Text
  Passwords,        \* passwords clients choose; "" is the one of a group
  Infos,            \* profiles clients send to UpdateUserInfo
  Boundary,         \* GROUPID_BOUBDARY
  DbFaults,         \* ways a statement may fail: a subset of {"fail", "lost"}
  HasOwnerColumn    \* does the deployed t_user have the column f_owner_id?

(***************************************************************************)
(* A user name is a text.  The texts that matter are words that clients    *)
(* choose, the decimal text of an id (a client may choose that one too)    *)
(* and the empty text: a pair of a tag and a number stands for each.       *)
(***************************************************************************)
Text == {"word", "decimal", "empty"} \X Nat

Decimal(n) == <<"decimal", n>>

EmptyText == <<"empty", 0>>

ASSUME NamesAssumption == Names \subseteq Text
ASSUME BoundaryAssumption == Boundary \in Nat \ {0}
ASSUME FaultsAssumption == DbFaults \subseteq {"fail", "lost"}
ASSUME OwnerColumnAssumption == HasOwnerColumn \in BOOLEAN

(***************************************************************************)
(* Outcome of one MySqlManager::Excute.  "ok": applied and reported.       *)
(* "fail": not applied, FALSE returned.  "lost": applied by the database,  *)
(* but the connection broke before the reply, so FALSE is returned.        *)
(***************************************************************************)
Outcomes == {"ok"} \cup DbFaults

Applied(o) == o \in {"ok", "lost"}

Reported(o) == o = "ok"

-----------------------------------------------------------------------------

(***************************************************************************)
(* Tables and cache.  A profile is one value: "schema" is the column       *)
(* defaults of t_user, "registered" the values AddUser puts in the cached  *)
(* copy, "unset" those of the User constructor, "zero" those read from a   *)
(* row without contents (0 and empty texts).  The birthday tells the four  *)
(* apart: 19900101, 20000101, -1 and 0.                                    *)
(***************************************************************************)
Profiles == Infos \cup {"schema", "registered", "unset", "zero"}

StoredPasswords == Passwords \cup {""}

UserRow == [id : Nat, username : Text, password : StoredPasswords, info : Profiles]

User == [userid : Nat, username : Text, password : StoredPasswords,
         info : Profiles, friends : SUBSET Int]

Directory == [t_user              : SUBSET UserRow,
              t_user_relationship : SUBSET (Int \X Int),
              m_cachedUsers       : Seq(User),
              m_baseUserID        : Nat,
              m_baseGrupID        : Nat]

StoredIds(m) == {row.id : row \in m.t_user}

CachedIds(m) == {m.m_cachedUsers[i].userid : i \in DOMAIN m.m_cachedUsers}

\* snprintf(szUserName, 12, "%d", groupid)
GroupName(groupid) == Decimal(groupid)

\* INSERT INTO t_user: the primary key refuses an id that is already there.
Inserted(m, row, o) ==
  IF Applied(o) /\ row.id \notin StoredIds(m)
  THEN [m EXCEPT !.t_user = @ \cup {row}]
  ELSE m

\* Mutated: without the primary key every executed INSERT is reported.
InsertReportedUnkeyed(m, row, o) == Reported(o)

InsertReported(m, row, o) == Reported(o) /\ row.id \notin StoredIds(m)

-----------------------------------------------------------------------------
(* Lookups *)

\* The first cached user of a non-empty set of list positions.
FirstOf(m, positions) ==
  m.m_cachedUsers[CHOOSE i \in positions : \A j \in positions : i <= j]

PositionsByUsername(m, name) ==
  {i \in DOMAIN m.m_cachedUsers : m.m_cachedUsers[i].username = name}

PositionsByUserId(m, userid) ==
  {i \in DOMAIN m.m_cachedUsers : m.m_cachedUsers[i].userid = userid}

\* GetUserInfoByUsername and GetUserInfoByUserId return the first match.
KnowsUsername(m, name) == PositionsByUsername(m, name) # {}
GetUserInfoByUsername(m, name) == FirstOf(m, PositionsByUsername(m, name))

KnowsUserId(m, userid) == PositionsByUserId(m, userid) # {}
GetUserInfoByUserId(m, userid) == FirstOf(m, PositionsByUserId(m, userid))

\* The ids of the users GetFriendInfoByUserId lists (in ascending order):
\* the friends of the first match that are themselves cached.
GetFriendInfoByUserId(m, userid) ==
  IF KnowsUserId(m, userid)
  THEN GetUserInfoByUserId(m, userid).friends \cap CachedIds(m)
  ELSE {}

-----------------------------------------------------------------------------
(* Updates *)

\* Mutated: the result of Excute is not tested before the push_back.
AddUserUnchecked(m, username, password, o) ==
  LET id   == m.m_baseUserID + 1
      row  == [id |-> id, username |-> username, password |-> password,
               info |-> "schema"]
      user == [userid |-> id, username |-> username, password |-> password,
               info |-> "registered", friends |-> {}]
      db   == Inserted([m EXCEPT !.m_baseUserID = id], row, o)
  IN  [ok |-> TRUE, mgr |-> [db EXCEPT !.m_cachedUsers = Append(@, user)]]

AddUser(m, username, password, o) ==
  LET id   == m.m_baseUserID + 1
      base == [m EXCEPT !.m_baseUserID = id]
      row  == [id |-> id, username |-> username, password |-> password,
               info |-> "schema"]
      user == [userid |-> id, username |-> username, password |-> password,
               info |-> "registered", friends |-> {}]
      db   == Inserted(base, row, o)
  IN  IF InsertReported(base, row, o)
      THEN [ok  |-> TRUE,
            mgr |-> [db EXCEPT !.m_cachedUsers = Append(@, user)]]
      ELSE [ok |-> FALSE, mgr |-> db]

\* Mutated: the cached group keeps the userid of the User constructor, -1.
AddGroupUnset(m, o) ==
  LET id   == m.m_baseGrupID + 1
      row  == [id |-> id, username |-> GroupName(id), password |-> "",
               info |-> "schema"]
      user == [userid |-> -1, username |-> GroupName(id), password |-> "",
               info |-> "unset", friends |-> {}]
      db   == Inserted([m EXCEPT !.m_baseGrupID = id], row, o)
  IN  [ok |-> TRUE, mgr |-> [db EXCEPT !.m_cachedUsers = Append(@, user)]]

\* Mutated: the group is stored and not cached.
AddGroupUncached(m, o) ==
  LET id  == m.m_baseGrupID + 1
      row == [id |-> id, username |-> GroupName(id), password |-> "",
              info |-> "schema"]
  IN  [ok  |-> InsertReported(m, row, o),
       mgr |-> Inserted([m EXCEPT !.m_baseGrupID = id], row, o)]

\* The INSERT names the column f_owner_id, which the schema of MySqlManager does
\* not have (it has f_owner): on a table made by CreateTable HasOwnerColumn is
\* FALSE and every attempt fails.  TRUE is a t_user to which the column was
\* added by hand; CheckTable must also get past that column at start-up, which
\* it does only when an earlier column's type differs from its description.
\* (The owner itself is written and never read back: it is left out.)
AddGroup(m, o) ==
  LET id   == m.m_baseGrupID + 1
      base == [m EXCEPT !.m_baseGrupID = id]
      row  == [id |-> id, username |-> GroupName(id), password |-> "",
               info |-> "schema"]
      user == [userid |-> id, username |-> GroupName(id), password |-> "",
               info |-> "unset", friends |-> {}]
      db   == Inserted(base, row, o)
  IN  IF ~HasOwnerColumn
      THEN [ok |-> FALSE, mgr |-> base]
      ELSE IF InsertReported(base, row, o)
           THEN [ok  |-> TRUE,
                 mgr |-> [db EXCEPT !.m_cachedUsers = Append(@, user)]]
           ELSE [ok |-> FALSE, mgr |-> db]

\* The ids a cached user gains or loses when a and b become or cease friends.
Counterpart(userid, a, b) == {f \in {a, b} : userid \in {a, b} \ {f}}

\* Both users are updated when both are cached; one of them may be unknown.
AddFriendToUser(m, a, b) ==
  LET users == m.m_cachedUsers IN
  [m EXCEPT !.m_cachedUsers =
     [i \in DOMAIN users |-> [users[i] EXCEPT
        !.friends = @ \cup Counterpart(users[i].userid, a, b)]]]

DeleteFriendToUser(m, a, b) ==
  LET users == m.m_cachedUsers IN
  [m EXCEPT !.m_cachedUsers =
     [i \in DOMAIN users |-> [users[i] EXCEPT
        !.friends = @ \ Counterpart(users[i].userid, a, b)]]]

\* What both of the above return: were both users found?
KnowsBoth(m, a, b) == {a, b} \subseteq CachedIds(m)

MakeFriendRelationship(m, smallid, greatid, o) ==
  LET db == IF Applied(o)
            THEN [m EXCEPT !.t_user_relationship = @ \cup {<<smallid, greatid>>}]
            ELSE m
  IN  IF smallid >= greatid THEN [ok |-> FALSE, mgr |-> m]
      ELSE IF Reported(o)
           THEN [ok  |-> KnowsBoth(m, smallid, greatid),
                 mgr |-> AddFriendToUser(db, smallid, greatid)]
           ELSE [ok |-> FALSE, mgr |-> db]

\* Mutated: the row is deleted, the cached friends stay.
ReleaseFriendRelationshipKept(m, smallid, greatid, o) ==
  [ok  |-> Reported(o),
   mgr |-> IF Applied(o)
           THEN [m EXCEPT !.t_user_relationship = @ \ {<<smallid, greatid>>}]
           ELSE m]

ReleaseFriendRelationship(m, smallid, greatid, o) ==
  LET db == IF Applied(o)
            THEN [m EXCEPT !.t_user_relationship = @ \ {<<smallid, greatid>>}]
            ELSE m
  IN  IF smallid >= greatid THEN [ok |-> FALSE, mgr |-> m]
      ELSE IF Reported(o)
           THEN [ok  |-> KnowsBoth(m, smallid, greatid),
                 mgr |-> DeleteFriendToUser(db, smallid, greatid)]
           ELSE [ok |-> FALSE, mgr |-> db]

\* The list position a loop over m_cachedUsers that returns at the first
\* match of userid changes.
IsFirstMatch(m, userid, i) ==
  /\ i \in PositionsByUserId(m, userid)
  /\ \A j \in PositionsByUserId(m, userid) : i <= j

\* Mutated: the cache is changed whether or not the statement succeeded.
UpdateUserInfoAnyway(m, userid, info, o) ==
  LET rows  == {IF row.id = userid THEN [row EXCEPT !.info = info] ELSE row :
                  row \in m.t_user}
      db    == IF Applied(o) THEN [m EXCEPT !.t_user = rows] ELSE m
      users == m.m_cachedUsers
  IN  [ok  |-> Reported(o),
       mgr |-> [db EXCEPT !.m_cachedUsers =
                  [i \in DOMAIN users |->
                     IF IsFirstMatch(m, userid, i)
                     THEN [users[i] EXCEPT !.info = info]
                     ELSE users[i]]]]

UpdateUserInfo(m, userid, info, o) ==
  LET rows  == {IF row.id = userid THEN [row EXCEPT !.info = info] ELSE row :
                  row \in m.t_user}
      db    == IF Applied(o) THEN [m EXCEPT !.t_user = rows] ELSE m
      users == m.m_cachedUsers
  IN  [ok  |-> Reported(o) /\ KnowsUserId(m, userid),
       mgr |-> IF Reported(o)
               THEN [db EXCEPT !.m_cachedUsers =
                       [i \in DOMAIN users |->
                          IF IsFirstMatch(m, userid, i)
                          THEN [users[i] EXCEPT !.info = info]
                          ELSE users[i]]]
               ELSE db]

\* Mutated: the cache is changed before the statement is executed.
ModifyUserPasswordEarly(m, userid, password, o) ==
  LET rows  == {IF row.id = userid THEN [row EXCEPT !.password = password]
                                   ELSE row : row \in m.t_user}
      db    == IF Applied(o) THEN [m EXCEPT !.t_user = rows] ELSE m
      users == m.m_cachedUsers
  IN  [ok  |-> Reported(o),
       mgr |-> [db EXCEPT !.m_cachedUsers =
                  [i \in DOMAIN users |->
                     IF IsFirstMatch(m, userid, i)
                     THEN [users[i] EXCEPT !.password = password]
                     ELSE users[i]]]]

ModifyUserPassword(m, userid, password, o) ==
  LET rows  == {IF row.id = userid THEN [row EXCEPT !.password = password]
                                   ELSE row : row \in m.t_user}
      db    == IF Applied(o) THEN [m EXCEPT !.t_user = rows] ELSE m
      users == m.m_cachedUsers
  IN  [ok  |-> Reported(o) /\ KnowsUserId(m, userid),
       mgr |-> IF Reported(o)
               THEN [db EXCEPT !.m_cachedUsers =
                       [i \in DOMAIN users |->
                          IF IsFirstMatch(m, userid, i)
                          THEN [users[i] EXCEPT !.password = password]
                          ELSE users[i]]]
               ELSE db]

-----------------------------------------------------------------------------
(* Start-up *)

\* Mutated: ORDER BY f_user_id without DESC.
RowsAscending(rows) ==
  {s \in [1..Cardinality(rows) -> rows] :
     \A i, j \in DOMAIN s : i < j => s[i] # s[j] /\ s[i].id <= s[j].id}

\* SELECT ... FROM t_user ORDER BY f_user_id DESC
RowsDescending(rows) ==
  {s \in [1..Cardinality(rows) -> rows] :
     \A i, j \in DOMAIN s : i < j => s[i] # s[j] /\ s[i].id >= s[j].id}

(***************************************************************************)
(* A query without rows: the QueryResult constructor calls EndQuery, which *)
(* clears m_CurrentRow, but Fetch returns m_CurrentRow.data(), which is    *)
(* not null after clear().  The loop therefore reads one row of destroyed  *)
(* Fields; their short-string buffers still hold "", so toInt32 gives 0    *)
(* for the id, and for the face type, gender and birthday of the profile.  *)
(***************************************************************************)
NullId == 0

\* Mutated: the phantom row keeps the userid of the User constructor, -1.
NullRowUnset == [id |-> -1, username |-> EmptyText, password |-> "",
                 info |-> "zero"]

NullRow == [id |-> NullId, username |-> EmptyText, password |-> "",
            info |-> "zero"]

LoadRelationshipFromDB(relations, userid) ==
  LET rows == {r \in relations : userid \in {r[1], r[2]}}
  IN  IF rows = {} THEN {NullId}
      ELSE {IF r[1] = userid THEN r[2] ELSE r[1] : r \in rows}

(***************************************************************************)
(* UserManager::Init in a fresh process.  A failed LoadUserFromDB ends the *)
(* process (nothing has started, so that is not a step of this model); a   *)
(* failed LoadRelationshipFromDB is only logged and leaves that user       *)
(* without friends.  m_baseUserID is the largest id of ANY row;            *)
(* m_baseGrupID starts at its initialiser.                                 *)
(***************************************************************************)
UnloadedSets(rows) ==
  IF "fail" \in DbFaults THEN SUBSET {row.id : row \in rows} ELSE {{}}

\* The running maximum of the loop: a set with one element.
Largest(ids) == {x \in ids : \A y \in ids : x >= y}

LoadUserFromDB(rows) ==
  IF rows = {} THEN {<<NullRow>>} ELSE RowsDescending(rows)

Initialized(users, relations, loaded, unloaded, largest) ==
  [t_user              |-> users,
   t_user_relationship |-> relations,
   m_cachedUsers       |->
     [i \in DOMAIN loaded |->
        [userid   |-> loaded[i].id,
         username |-> loaded[i].username,
         password |-> loaded[i].password,
         info     |-> loaded[i].info,
         friends  |-> IF loaded[i].id \in unloaded THEN {}
                      ELSE LoadRelationshipFromDB(relations, loaded[i].id)]],
   m_baseUserID        |-> largest,
   m_baseGrupID        |-> Boundary]

\* The directories a process may have after a start on these tables.
InitDirectories(users, relations) ==
  {Initialized(users, relations, loaded, unloaded, largest) :
     loaded   \in LoadUserFromDB(users),
     unloaded \in UnloadedSets(users),
     largest  \in Largest({0} \cup {row.id : row \in users})}

-----------------------------------------------------------------------------
(* What is expected of a directory; UserDirectory and IMServer state these *)
(* predicates as properties of their runs.                                 *)

\* Rows, cached users and counters are well typed.
DirectoryTyped(m) == m \in Directory /\ IsFiniteSet(m.t_user)

\* Rows of t_user are identified by their id (PRIMARY KEY (f_user_id)).
RowsKeyedIn(m) == \A r, s \in m.t_user : r.id = s.id => r = s

\* No two cached users share an id.
UniqueIdsIn(m) ==
  \A i, j \in DOMAIN m.m_cachedUsers :
    m.m_cachedUsers[i].userid = m.m_cachedUsers[j].userid => i = j

\* Every cached user but the phantom one of an empty t_user has a row with the
\* same id and name.
CachedUsersStoredIn(m) ==
  \A i \in DOMAIN m.m_cachedUsers :
    \/ m.m_cachedUsers[i].userid = NullId
    \/ \E row \in m.t_user : /\ row.id = m.m_cachedUsers[i].userid
                             /\ row.username = m.m_cachedUsers[i].username

\* Cached passwords are the stored ones.
PasswordsStoredIn(m) ==
  \A i \in DOMAIN m.m_cachedUsers, row \in m.t_user :
    m.m_cachedUsers[i].userid = row.id
      => m.m_cachedUsers[i].password = row.password

Related(relations, a, b) == {<<a, b>>, <<b, a>>} \cap relations # {}

\* Cached friends are rows of t_user_relationship, or the phantom id.
FriendsStoredIn(m) ==
  \A i \in DOMAIN m.m_cachedUsers : \A f \in m.m_cachedUsers[i].friends :
    \/ f = NullId
    \/ Related(m.t_user_relationship, m.m_cachedUsers[i].userid, f)
=============================================================================
