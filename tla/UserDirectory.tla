---------------------------- MODULE UserDirectory ----------------------------
(***************************************************************************)
(* The directory as a state machine: the calls that the message handlers   *)
(* make on UserManager, one per step, and restarts of the server.  The     *)
(* event loop of the chat server is single threaded, so a handler (and a   *)
(* fortiori a method) is one step; ClientSession calls MakeFriend... and   *)
(* ReleaseFriend... with ids taken from the message of the client.         *)
(***************************************************************************)
EXTENDS UserManager

CONSTANTS
  ClientIds,        \* user and group ids that appear in client messages
  MaxBase,          \* bound: no id counter is increased beyond this value
  MaxUsers,         \* bound: rows of t_user
  MaxRelations      \* bound: rows of t_user_relationship

ASSUME ClientIdsAssumption == ClientIds \subseteq Int

VARIABLE mgr

Init == mgr \in InitDirectories({}, {})

Register(username, password, o) ==
  /\ mgr.m_baseUserID < MaxBase
  /\ Cardinality(mgr.t_user) < MaxUsers
  /\ mgr' = AddUser(mgr, username, password, o).mgr

CreateGroup(o) ==
  /\ mgr.m_baseGrupID < MaxBase
  /\ Cardinality(mgr.t_user) < MaxUsers
  /\ mgr' = AddGroup(mgr, o).mgr

MakeFriends(a, b, o) ==
  /\ Cardinality(mgr.t_user_relationship) < MaxRelations
  /\ mgr' = MakeFriendRelationship(mgr, a, b, o).mgr

ReleaseFriends(a, b, o) ==
  mgr' = ReleaseFriendRelationship(mgr, a, b, o).mgr

ChangeInfo(userid, info, o) ==
  mgr' = UpdateUserInfo(mgr, userid, info, o).mgr

ChangePassword(userid, password, o) ==
  mgr' = ModifyUserPassword(mgr, userid, password, o).mgr

\* The process ends (or crashes) and main() starts again on the same tables.
Restart == mgr' \in InitDirectories(mgr.t_user, mgr.t_user_relationship)

Next ==
  \/ \E o \in Outcomes :
       \/ \E n \in Names, p \in Passwords : Register(n, p, o)
       \/ CreateGroup(o)
       \/ \E a, b \in ClientIds : MakeFriends(a, b, o)
       \/ \E a, b \in ClientIds : ReleaseFriends(a, b, o)
       \/ \E u \in ClientIds, i \in Infos : ChangeInfo(u, i, o)
       \/ \E u \in ClientIds, p \in Passwords : ChangePassword(u, p, o)
  \/ Restart

Spec == Init /\ [][Next]_mgr

-----------------------------------------------------------------------------
(* Properties *)

\* The directory is well typed: rows, cached users and counters.
TypeOK == DirectoryTyped(mgr)

\* No two cached users share an id, so that the loops over m_cachedUsers that
\* stop at the first match and those that do not agree.  Nothing in
\* UserManager ensures it: after a restart m_baseGrupID is back at its
\* initialiser and m_baseUserID may be in the range of group ids, so both
\* counters may produce an id that exists.  Only the primary key of t_user,
\* checked before the push_back, keeps the ids distinct.
UniqueIds == UniqueIdsIn(mgr)

\* Every cached user but the phantom one of an empty t_user is backed by a
\* row with the same id and name: a failed or unanswered INSERT never leaves
\* a user that can log in until the next restart and not after it.
CachedUsersStored == CachedUsersStoredIn(mgr)

\* While no reply of the database is lost ("lost" is not in DbFaults), the
\* converse holds too: every row of t_user is a cached user, so that whoever
\* AddUser and AddGroup have stored can log in, or be joined, without a restart.
StoredUsersCached == StoredIds(mgr) \subseteq CachedIds(mgr)

\* While no reply of the database is lost ("lost" is not in DbFaults), the
\* password a login is compared with is the stored one: ModifyUserPassword and
\* AddUser change the cache only after the statement succeeded.
PasswordsStored == PasswordsStoredIn(mgr)

\* While no reply of the database is lost, whoever the cache shows as a friend
\* is one in t_user_relationship (or the phantom id 0 of an empty result): a
\* removed friend does not come back, and none appears before its INSERT.
FriendsStored == FriendsStoredIn(mgr)

\* While no reply of the database is lost, the cached profile is the stored one
\* once the user has sent one.  Before that they differ: AddUser and the
\* constructor of User have other defaults than the schema.
ProfilesStored ==
  \A i \in DOMAIN mgr.m_cachedUsers, row \in mgr.t_user :
    mgr.m_cachedUsers[i].userid = row.id
      => \/ mgr.m_cachedUsers[i].info = row.info
         \/ /\ row.info = "schema"
            /\ mgr.m_cachedUsers[i].info \in {"registered", "unset"}

\* The id that a login with this name gets.
LoginId(m, name) == GetUserInfoByUsername(m, name).userid

IdsNamed(m, name) == {row.id : row \in {r \in m.t_user : r.username = name}}

\* Whose account a name opens, where several users registered the same name
\* (also because the reply to the first INSERT was lost and the client tried
\* again).  OnLoginResponse takes the first of them in the list.  As long as the
\* process runs that one never changes: AddUser and AddGroup append.  At a
\* restart it may change, because the list is loaded in descending order, but
\* only to the account registered last; and a name that could log in still can.
LoginIdentity ==
  [][\A n \in Names \ {EmptyText} :
       KnowsUsername(mgr, n) =>
         /\ KnowsUsername(mgr', n)
         /\ \/ LoginId(mgr', n) = LoginId(mgr, n)
            \/ /\ Restart
               /\ LoginId(mgr', n) > LoginId(mgr, n)
               /\ \A id \in IdsNamed(mgr, n) : id <= LoginId(mgr', n)]_mgr

-----------------------------------------------------------------------------
(* What comments and declarations of the source say, and the code does not *)
(* ensure.                                                                 *)

\* Ids below GROUPID_BOUBDARY are users ("single chat" in OnChatResponse),
\* the others groups: a row that is not named by its own id, as the row of a
\* group is, has an id below the boundary.
UserIdsBelowBoundary ==
  \A row \in mgr.t_user :
    row.username # GroupName(row.id) => row.id < Boundary
=============================================================================
