--------------------------- MODULE IMServerProofs ---------------------------
(***************************************************************************)
(* The invariants of the chat server for any number of connections, users  *)
(* and messages.  Steps that change the directory reduce to the lemmas of  *)
(* UserManagerProofs.                                                      *)
(***************************************************************************)
EXTENDS IMServer, UserManagerProofs, WellFoundedInduction

(***************************************************************************)
(* NoStranded is inductive on typed states.  SessionUserStored also needs  *)
(* that a user found in the cache at login has a row, which is part of the *)
(* invariant of the directory.                                             *)
(***************************************************************************)
ServerInv ==
  /\ DirectoryInv(mgr)
  /\ TypeOK
  /\ NoStranded
  /\ SessionUserStored

-----------------------------------------------------------------------------
(* The directory *)

\* A lookup that finds a position returns the user at one of the positions:
\* the first one exists.
LEMMA FirstOfIsCached ==
  ASSUME NEW m \in Directory, NEW positions \in SUBSET DOMAIN m.m_cachedUsers,
         positions # {}
  PROVE  \E i \in positions : FirstOf(m, positions) = m.m_cachedUsers[i]
<1>1. m.m_cachedUsers \in Seq(User)
  BY DEF Directory
<1>2. positions \subseteq Nat
  BY <1>1
<1>3. PICK i \in positions : \A j \in positions : ~(<<j, i>> \in OpToRel(<, Nat))
  BY <1>2, NatLessThanWellFounded, WFMin
<1>4. OpToRel(<, Nat) = {ss \in Nat \X Nat : ss[1] < ss[2]}
  BY Zenon DEF OpToRel
<1>5. \A j \in positions : <<j, i>> \notin {ss \in Nat \X Nat : ss[1] < ss[2]}
  BY <1>3, <1>4, Zenon
<1>6. ASSUME NEW j \in positions PROVE i <= j
  <2>1. <<j, i>> \in Nat \X Nat /\ <<j, i>>[1] = j /\ <<j, i>>[2] = i
    BY <1>2
  <2>2. ~(j < i)
    BY <1>5, <2>1, Zenon
  <2>. QED BY <1>2, <2>2
<1>. QED BY <1>6 DEF FirstOf

\* No method of UserManager removes a row from t_user.
Grows(m, n) == StoredIds(m) \subseteq StoredIds(n)

\* Registering a user and creating a group keep the rows that are there.
LEMMA AddGrows ==
  ASSUME NEW m, DirectoryInv(m), NEW username, NEW password, NEW o
  PROVE  /\ Grows(m, AddUser(m, username, password, o).mgr)
         /\ Grows(m, AddGroup(m, o).mgr)
<1>1. m \in Directory
  BY DEF DirectoryInv, DirectoryTyped
<1>2. ASSUME NEW n \in Directory, NEW row
      PROVE  /\ Inserted(n, row, o).t_user \in {n.t_user, n.t_user \cup {row}}
             /\ \A users : [Inserted(n, row, o) EXCEPT !.m_cachedUsers = users].t_user
                             = Inserted(n, row, o).t_user
  BY DEF Inserted, Directory
<1>3. ASSUME NEW k \in Nat
      PROVE  /\ [m EXCEPT !.m_baseUserID = k] \in Directory
             /\ [m EXCEPT !.m_baseUserID = k].t_user = m.t_user
             /\ [m EXCEPT !.m_baseGrupID = k] \in Directory
             /\ [m EXCEPT !.m_baseGrupID = k].t_user = m.t_user
  BY <1>1, WithCounters
<1>4. m.m_baseUserID + 1 \in Nat /\ m.m_baseGrupID + 1 \in Nat
  BY <1>1 DEF Directory
<1>5. ASSUME NEW base \in Directory, base.t_user = m.t_user, NEW row, NEW user
      PROVE  LET db == Inserted(base, row, o) IN
             /\ m.t_user \subseteq db.t_user
             /\ m.t_user \subseteq [db EXCEPT !.m_cachedUsers = Append(@, user)].t_user
  <2>. DEFINE db == Inserted(base, row, o)
  <2>1. m.t_user \subseteq db.t_user
    BY <1>2, <1>5
  <2>2. [db EXCEPT !.m_cachedUsers = Append(db.m_cachedUsers, user)].t_user = db.t_user
    BY <1>2
  <2>. HIDE DEF db
  <2>3. m.t_user \subseteq [db EXCEPT !.m_cachedUsers = Append(@, user)].t_user
    BY <2>1, <2>2
  <2>. QED BY <2>1, <2>3 DEF db
<1>6. m.t_user \subseteq AddUser(m, username, password, o).mgr.t_user
  <2>. DEFINE id   == m.m_baseUserID + 1
              base == [m EXCEPT !.m_baseUserID = id]
              row  == [id |-> id, username |-> username, password |-> password,
                       info |-> "schema"]
              user == [userid |-> id, username |-> username, password |-> password,
                       info |-> "registered", friends |-> {}]
              db   == Inserted(base, row, o)
              new  == [db EXCEPT !.m_cachedUsers = Append(@, user)]
  <2>1. m.t_user \subseteq db.t_user /\ m.t_user \subseteq new.t_user
    <3>1. base \in Directory /\ base.t_user = m.t_user
      BY <1>3, <1>4
    <3>. HIDE DEF base, row, user
    <3>. QED BY <1>5, <3>1
  <2>2. AddUser(m, username, password, o).mgr \in {db, new}
    BY DEF AddUser
  <2>. QED BY <2>1, <2>2
<1>7. m.t_user \subseteq AddGroup(m, o).mgr.t_user
  <2>. DEFINE id   == m.m_baseGrupID + 1
              base == [m EXCEPT !.m_baseGrupID = id]
              row  == [id |-> id, username |-> GroupName(id), password |-> "",
                       info |-> "schema"]
              user == [userid |-> id, username |-> GroupName(id), password |-> "",
                       info |-> "unset", friends |-> {}]
              db   == Inserted(base, row, o)
              new  == [db EXCEPT !.m_cachedUsers = Append(@, user)]
  <2>1. base \in Directory /\ base.t_user = m.t_user
    BY <1>3, <1>4
  <2>2. m.t_user \subseteq db.t_user /\ m.t_user \subseteq new.t_user
    <3>. HIDE DEF base, row, user
    <3>. QED BY <1>5, <2>1
  <2>3. AddGroup(m, o).mgr \in {base, db, new}
    BY DEF AddGroup
  <2>. HIDE DEF base, db, new
  <2>. QED BY <2>1, <2>2, <2>3
<1>. QED BY <1>6, <1>7 DEF Grows, StoredIds

\* Changing relationships does not touch t_user.
LEMMA RelationGrows ==
  ASSUME NEW m, DirectoryInv(m), NEW a \in Int, NEW b \in Int, NEW o
  PROVE  /\ Grows(m, MakeFriendRelationship(m, a, b, o).mgr)
         /\ Grows(m, ReleaseFriendRelationship(m, a, b, o).mgr)
<1>1. m \in Directory
  BY DEF DirectoryInv, DirectoryTyped
<1>2. /\ m.t_user_relationship \cup {<<a, b>>} \in SUBSET (Int \X Int)
      /\ m.t_user_relationship \ {<<a, b>>} \in SUBSET (Int \X Int)
  BY <1>1 DEF Directory
<1>. DEFINE add == [m EXCEPT !.t_user_relationship = @ \cup {<<a, b>>}]
            del == [m EXCEPT !.t_user_relationship = @ \ {<<a, b>>}]
<1>3. /\ add \in Directory /\ add.t_user = m.t_user
      /\ del \in Directory /\ del.t_user = m.t_user
  BY <1>1, <1>2, WithRelations
<1>4. /\ MakeFriendRelationship(m, a, b, o).mgr
           \in {m, add, AddFriendToUser(m, a, b), AddFriendToUser(add, a, b)}
      /\ ReleaseFriendRelationship(m, a, b, o).mgr
           \in {m, del, DeleteFriendToUser(m, a, b), DeleteFriendToUser(del, a, b)}
  BY DEF MakeFriendRelationship, ReleaseFriendRelationship
<1>. HIDE DEF add, del
<1>5. ASSUME NEW n \in {m, add, del}
      PROVE  /\ AddFriendToUser(n, a, b).t_user = m.t_user
             /\ DeleteFriendToUser(n, a, b).t_user = m.t_user
  <2>1. n \in Directory /\ n.t_user = m.t_user
    BY <1>1, <1>3
  <2>2. AddFriendToUser(n, a, b).t_user = n.t_user
    BY ONLY <2>1, AddFriendSame, a \in Int, b \in Int
  <2>3. DeleteFriendToUser(n, a, b).t_user = n.t_user
    BY ONLY <2>1, DeleteFriendSame, a \in Int, b \in Int
  <2>. QED BY <2>1, <2>2, <2>3
<1>6. /\ MakeFriendRelationship(m, a, b, o).mgr.t_user = m.t_user
      /\ ReleaseFriendRelationship(m, a, b, o).mgr.t_user = m.t_user
  BY <1>3, <1>4, <1>5
<1>. QED BY <1>6 DEF Grows, StoredIds

\* An UPDATE of t_user changes rows, not their ids.
LEMMA UpdateGrows ==
  ASSUME NEW m, DirectoryInv(m), NEW u \in Int, NEW info, NEW password, NEW o
  PROVE  /\ Grows(m, UpdateUserInfo(m, u, info, o).mgr)
         /\ Grows(m, ModifyUserPassword(m, u, password, o).mgr)
<1>. DEFINE Info(row) == IF row.id = u THEN [row EXCEPT !.info = info] ELSE row
            Pass(row) == IF row.id = u THEN [row EXCEPT !.password = password] ELSE row
<1>1. m \in Directory
  BY DEF DirectoryInv, DirectoryTyped
<1>2. \A row \in m.t_user : Info(row).id = row.id /\ Pass(row).id = row.id
  BY <1>1 DEF Directory, UserRow
<1>3. ASSUME NEW rows, NEW users
      PROVE  /\ [m EXCEPT !.t_user = rows].t_user = rows
             /\ [m EXCEPT !.m_cachedUsers = users].t_user = m.t_user
             /\ [[m EXCEPT !.t_user = rows] EXCEPT !.m_cachedUsers = users].t_user = rows
  BY <1>1 DEF Directory
<1>4. UpdateUserInfo(m, u, info, o).mgr.t_user
        \in {m.t_user, {Info(row) : row \in m.t_user}}
  BY <1>3 DEF UpdateUserInfo
<1>5. ModifyUserPassword(m, u, password, o).mgr.t_user
        \in {m.t_user, {Pass(row) : row \in m.t_user}}
  BY <1>3 DEF ModifyUserPassword
<1>. HIDE DEF Info, Pass
<1>. QED BY <1>2, <1>4, <1>5 DEF Grows, StoredIds

-----------------------------------------------------------------------------
(* Steps of the server *)

\* A handler that changes the directory only.
LEMMA DirectoryStep ==
  ASSUME ServerInv, DirectoryInv(mgr'), Grows(mgr, mgr'),
         UNCHANGED <<conn, userid, notify, chat>>
  PROVE  ServerInv'
<1>1. TypeOK'
  BY DEF ServerInv, TypeOK, DirectoryInv
<1>2. NoStranded' /\ SessionUserStored'
  BY DEF ServerInv, NoStranded, SessionUserStored, Open, Grows
<1>. QED BY <1>1, <1>2 DEF ServerInv

\* A notification is kept only for a user without a session.
LEMMA NotifyStep ==
  ASSUME ServerInv, DirectoryInv(mgr'), Grows(mgr, mgr'),
         NEW target \in FriendTargets, NEW note \in Notification,
         SendOrKeep(target, note), UNCHANGED <<conn, userid, chat>>
  PROVE  ServerInv'
<1>1. target \in Ids
  BY TargetsAssumption
<1>2. notify \in [Ids -> Seq(Notification)]
  BY DEF ServerInv, TypeOK
<1>3. /\ notify' \in [Ids -> Seq(Notification)]
      /\ \A u \in Ids : IsUserSessionExsit(u) => notify'[u] = notify[u]
  <2>1. CASE IsUserSessionExsit(target)
    BY <1>2, <2>1 DEF SendOrKeep
  <2>2. CASE ~IsUserSessionExsit(target)
    <3>1. notify' = [notify EXCEPT ![target] = Append(notify[target], note)]
      BY <2>2 DEF SendOrKeep, AddNotifyMsgCache
    <3>2. Append(notify[target], note) \in Seq(Notification)
      BY <1>1, <1>2
    <3>. QED BY <1>2, <2>2, <3>1, <3>2
  <2>. QED BY <2>1, <2>2
<1>4. TypeOK'
  BY <1>3 DEF ServerInv, TypeOK, DirectoryInv
<1>5. NoStranded'
  BY <1>3 DEF ServerInv, NoStranded, Open, IsUserSessionExsit, SessionsOf
<1>6. SessionUserStored'
  BY DEF ServerInv, SessionUserStored, Open, Grows
<1>. QED BY <1>4, <1>5, <1>6 DEF ServerInv

\* OnChatResponse keeps a message only for users without a session.
LEMMA ChatResponse ==
  ASSUME NEW w \in ChatState, NEW target, NEW o
  PROVE  /\ OnChatResponse(w, target, o) \in ChatState
         /\ \A u \in Ids : IsUserSessionExsit(u)
              => OnChatResponse(w, target, o).kept[u] = w.kept[u]
<1>. DEFINE n == w.sent + 1
            r == OnChatResponse(w, target, o)
<1>1. /\ w.sent \in Nat /\ w.saved \in SUBSET Nat
      /\ w.kept \in [Ids -> Seq(Packet)] /\ w.received \in [Ids -> Seq(Packet)]
  BY DEF ChatState
<1>2. ASSUME NEW u PROVE WriterAt(n, target, u) \in Packet
  BY <1>1 DEF WriterAt, Packet, Message, HeaderOnly
<1>3. ASSUME NEW u \in Ids
      PROVE  /\ Append(w.kept[u], WriterAt(n, target, u)) \in Seq(Packet)
             /\ Append(w.received[u], WriterAt(n, target, u)) \in Seq(Packet)
  BY <1>1, <1>2
<1>4. r.sent \in Nat /\ r.saved \in SUBSET Nat
  BY <1>1 DEF OnChatResponse
<1>5. r.kept \in [Ids -> Seq(Packet)] /\ r.received \in [Ids -> Seq(Packet)]
  BY <1>1, <1>3 DEF OnChatResponse
<1>6. r \in ChatState
  <2>1. r = [sent |-> r.sent, saved |-> r.saved, kept |-> r.kept,
             received |-> r.received]
    BY DEF OnChatResponse
  <2>. HIDE DEF r
  <2>. QED BY <1>4, <1>5, <2>1 DEF ChatState
<1>7. \A u \in Ids : IsUserSessionExsit(u) => r.kept[u] = w.kept[u]
  BY <1>1 DEF OnChatResponse
<1>. QED BY <1>6, <1>7

\* A step that changes the chat state like that.
LEMMA ChatStepInv ==
  ASSUME ServerInv, chat' \in ChatState,
         \A u \in Ids : IsUserSessionExsit(u) => chat'.kept[u] = chat.kept[u],
         UNCHANGED <<mgr, conn, userid, notify>>
  PROVE  ServerInv'
<1>1. TypeOK' /\ DirectoryInv(mgr)'
  BY DEF ServerInv, TypeOK
<1>2. NoStranded'
  BY DEF ServerInv, NoStranded, Open, IsUserSessionExsit, SessionsOf
<1>3. SessionUserStored'
  BY DEF ServerInv, SessionUserStored, Open
<1>. QED BY <1>1, <1>2, <1>3 DEF ServerInv

\* A session that appears, closes or starts to close has or keeps a user that
\* has nothing in the caches.
LEMMA ConnectionStep ==
  ASSUME ServerInv, NEW c \in Conns,
         OnConnection(c) \/ OnUndecodable(c) \/ OnClose(c)
  PROVE  ServerInv'
<1>1. /\ conn \in [Conns -> {"none", "kConnected", "kDisconnecting"}]
      /\ userid \in [Conns -> Int]
  BY DEF ServerInv, TypeOK
<1>2. UNCHANGED <<mgr, notify, chat>>
  BY DEF OnConnection, OnUndecodable, OnClose
<1>3. /\ conn' \in [Conns -> {"none", "kConnected", "kDisconnecting"}]
      /\ userid' \in [Conns -> Int]
      /\ \A d \in Conns : conn'[d] # "none" =>
           userid'[d] = NoUser \/ (userid'[d] = userid[d] /\ conn[d] # "none")
  BY <1>1 DEF OnConnection, OnUndecodable, OnClose, Open, NoUser
<1>4. TypeOK' /\ DirectoryInv(mgr)'
  BY <1>2, <1>3 DEF ServerInv, TypeOK
<1>5. NoStranded' /\ SessionUserStored'
  BY <1>2, <1>3 DEF ServerInv, NoStranded, SessionUserStored, Open
<1>. QED BY <1>4, <1>5 DEF ServerInv

\* A login empties both caches of the user it finds, and that user is stored.
LEMMA LoginStep ==
  ASSUME ServerInv, NEW c \in Conns, NEW username, NEW password,
         OnLoginResponse(c, username, password)
  PROVE  ServerInv'
<1>. DEFINE user == GetUserInfoByUsername(mgr, username)
            u == user.userid
            online == conn[c] = "kConnected"
<1>1. mgr \in Directory /\ CachedUsersStoredIn(mgr)
  BY DEF ServerInv, DirectoryInv, DirectoryTyped
<1>2. PICK i \in DOMAIN mgr.m_cachedUsers : user = mgr.m_cachedUsers[i]
  <2>1. /\ PositionsByUsername(mgr, username) \in SUBSET DOMAIN mgr.m_cachedUsers
        /\ PositionsByUsername(mgr, username) # {}
    BY DEF OnLoginResponse, KnowsUsername, PositionsByUsername
  <2>. QED BY <1>1, <2>1, FirstOfIsCached DEF GetUserInfoByUsername
<1>3. mgr.m_cachedUsers[i] \in User
  BY <1>1, <1>2 DEF Directory
<1>4. u \in Int /\ u \in StoredIds(mgr) \cup {NullId}
  BY <1>1, <1>2, <1>3 DEF User, CachedUsersStoredIn, StoredIds
<1>5. /\ userid' = [userid EXCEPT ![c] = u]
      /\ notify' = [v \in Ids |-> IF v = u THEN <<>> ELSE notify[v]]
      /\ chat' = GetChatMagCache(chat, u, online)
      /\ UNCHANGED <<mgr, conn>>
  BY DEF OnLoginResponse
<1>. HIDE DEF user, u, online
<1>6. /\ chat \in ChatState /\ userid \in [Conns -> Int]
      /\ notify \in [Ids -> Seq(Notification)]
  BY DEF ServerInv, TypeOK
<1>7. ASSUME NEW v \in Ids
      PROVE  chat.received[v] \o [k \in DOMAIN chat.kept[v] |-> Nested(chat.kept[v][k])]
               \in Seq(Packet)
  <2>1. chat.received[v] \in Seq(Packet) /\ chat.kept[v] \in Seq(Packet)
    BY <1>6 DEF ChatState
  <2>2. [k \in DOMAIN chat.kept[v] |-> Nested(chat.kept[v][k])] \in Seq(Packet)
    <3>1. ASSUME NEW k \in DOMAIN chat.kept[v]
          PROVE  Nested(chat.kept[v][k]) \in Packet
      <4>1. chat.kept[v][k] \in Packet
        BY <2>1
      <4>. QED BY <4>1 DEF Packet, Nested
    <3>2. DOMAIN chat.kept[v] = 1..Len(chat.kept[v]) /\ Len(chat.kept[v]) \in Nat
      BY <2>1
    <3>. QED BY <3>1, <3>2
  <2>. QED BY <2>1, <2>2
<1>8. /\ chat' \in ChatState
      /\ \A v \in Ids : chat'.kept[v] = IF v = u THEN <<>> ELSE chat.kept[v]
  <2>. DEFINE kept == [v \in Ids |-> IF v = u THEN <<>> ELSE chat.kept[v]]
              rcvd == [v \in Ids |->
                         IF v = u /\ online
                         THEN chat.received[v]
                                \o [k \in DOMAIN chat.kept[v] |-> Nested(chat.kept[v][k])]
                         ELSE chat.received[v]]
  <2>1. kept \in [Ids -> Seq(Packet)] /\ rcvd \in [Ids -> Seq(Packet)]
    BY <1>6, <1>7 DEF ChatState
  <2>2. chat' = [chat EXCEPT !.kept = kept, !.received = rcvd]
    BY <1>5 DEF GetChatMagCache
  <2>3. \A v \in Ids : kept[v] = IF v = u THEN <<>> ELSE chat.kept[v]
    OBVIOUS
  <2>. HIDE DEF kept, rcvd
  <2>4. chat' \in ChatState /\ chat'.kept = kept
    BY <1>6, <2>1, <2>2 DEF ChatState
  <2>. QED BY <2>3, <2>4
<1>9. notify' \in [Ids -> Seq(Notification)] /\ userid' \in [Conns -> Int]
  BY <1>4, <1>5, <1>6
<1>10. TypeOK' /\ DirectoryInv(mgr)'
  BY <1>5, <1>8, <1>9 DEF ServerInv, TypeOK
<1>11. NoStranded'
  BY <1>5, <1>6, <1>8 DEF ServerInv, NoStranded, Open
<1>12. SessionUserStored'
  BY <1>4, <1>5, <1>6 DEF ServerInv, SessionUserStored, Open
<1>. QED BY <1>10, <1>11, <1>12 DEF ServerInv

\* A restarted server has a directory loaded from its tables and no session.
LEMMA RestartStep ==
  ASSUME ServerInv, Restart
  PROVE  ServerInv'
<1>1. DirectoryInv(mgr')
  BY InitDirectoriesInv
     DEF Restart, ServerInv, DirectoryInv, DirectoryTyped, Directory,
         RowsNumbered, RowsKeyedIn
<1>2. chat' \in ChatState
  <2>. DEFINE none == [u \in Ids |-> <<>>]
  <2>1. none \in [Ids -> Seq(Packet)]
    OBVIOUS
  <2>2. chat' = [chat EXCEPT !.kept = none] /\ chat \in ChatState
    BY DEF Restart, ServerInv, TypeOK
  <2>. HIDE DEF none
  <2>. QED BY <2>1, <2>2 DEF ChatState
<1>3. TypeOK'
  BY <1>1, <1>2 DEF Restart, TypeOK, DirectoryInv, NoUser
<1>4. NoStranded' /\ SessionUserStored'
  BY DEF Restart, NoStranded, SessionUserStored, Open
<1>. QED BY <1>1, <1>3, <1>4 DEF ServerInv

\* Every handler keeps the invariant.
LEMMA ServerNextInv ==
  ASSUME ServerInv, [Next]_vars
  PROVE  ServerInv'
<1>. USE TargetsAssumption
<1>1. DirectoryInv(mgr) /\ Grows(mgr, mgr) /\ userid \in [Conns -> Int]
  BY DEF ServerInv, TypeOK, Grows
<1>2. ASSUME NEW c \in Conns, NEW o \in Outcomes, AccountStep(c, o)
      PROVE  ServerInv'
  <2>1. ASSUME NEW n \in Names, NEW p \in Passwords, OnRegisterResponse(c, n, p, o)
        PROVE  ServerInv'
    <3>1. DirectoryInv(mgr') /\ Grows(mgr, mgr')
      BY <1>1, <2>1, AddUserInv, AddGrows, NamesAssumption
         DEF OnRegisterResponse, StoredPasswords
    <3>. QED BY <2>1, <3>1, DirectoryStep DEF OnRegisterResponse
  <2>2. ASSUME NEW i \in Infos, OnUpdateUserInfoResponse(c, i, o)
        PROVE  ServerInv'
    <3>1. DirectoryInv(mgr') /\ Grows(mgr, mgr')
      BY <1>1, <2>2, UpdateUserInfoInv, UpdateGrows DEF OnUpdateUserInfoResponse
    <3>. QED BY <2>2, <3>1, DirectoryStep DEF OnUpdateUserInfoResponse
  <2>3. ASSUME NEW p \in StoredPasswords, NEW q \in NewPasswords,
               OnModifyPasswordResponse(c, p, q, o)
        PROVE  ServerInv'
    <3>1. DirectoryInv(mgr') /\ Grows(mgr, mgr')
      BY <1>1, <2>3, ModifyUserPasswordInv, UpdateGrows, InputsAssumption
         DEF OnModifyPasswordResponse
    <3>. QED BY <2>3, <3>1, DirectoryStep DEF OnModifyPasswordResponse
  <2>. QED BY <1>2, <2>1, <2>2, <2>3 DEF AccountStep
<1>3. ASSUME NEW c \in Conns, NEW o \in Outcomes, FriendStep(c, o)
      PROVE  ServerInv'
  <2>1. ASSUME NEW u \in FriendTargets, DeleteFriend(c, u, o)
        PROVE  ServerInv'
    <3>1. DirectoryInv(mgr') /\ Grows(mgr, mgr')
      BY <1>1, <2>1, ReleaseFriendRelationshipInv, RelationGrows DEF DeleteFriend
    <3>. QED BY <2>1, <3>1, DirectoryStep DEF DeleteFriend
  <2>2. ASSUME NEW u \in FriendTargets, OnAddGroupResponse(c, u, o)
        PROVE  ServerInv'
    <3>1. DirectoryInv(mgr') /\ Grows(mgr, mgr')
      BY <1>1, <2>2, MakeFriendRelationshipInv, RelationGrows DEF OnAddGroupResponse
    <3>. QED BY <2>2, <3>1, DirectoryStep DEF OnAddGroupResponse
  <2>3. ASSUME NEW u \in FriendTargets, AcceptFriend(c, u, o)
        PROVE  ServerInv'
    <3>1. DirectoryInv(mgr') /\ Grows(mgr, mgr')
      BY <1>1, <2>3, MakeFriendRelationshipInv, RelationGrows DEF AcceptFriend
    <3>2. [from |-> userid[c], kind |-> "accepted"] \in Notification
      BY <1>1 DEF Notification
    <3>3. \/ SendOrKeep(u, [from |-> userid[c], kind |-> "accepted"])
          \/ UNCHANGED notify
      BY <2>3 DEF AcceptFriend
    <3>4. UNCHANGED <<conn, userid, chat>>
      BY <2>3 DEF AcceptFriend
    <3>. QED BY <3>1, <3>2, <3>3, <3>4, DirectoryStep, NotifyStep
  <2>4. ASSUME NEW g \in Garbage, NEW o2 \in Outcomes,
               OnCreateGroupResponse(c, g, o, o2)
        PROVE  ServerInv'
    <3>. DEFINE added == AddGroup(mgr, o)
                groupid == IF added.ok THEN added.mgr.m_baseGrupID ELSE g
    <3>1. DirectoryInv(added.mgr) /\ Grows(mgr, added.mgr)
      BY <1>1, AddGroupInv, AddGrows
    <3>2. groupid \in Int
      BY <3>1, InputsAssumption DEF DirectoryInv, DirectoryTyped, Directory
    <3>3. /\ mgr' = MakeFriendRelationship(added.mgr, userid[c], groupid, o2).mgr
          /\ UNCHANGED <<conn, userid, notify, chat>>
      BY <2>4 DEF OnCreateGroupResponse
    <3>. HIDE DEF added, groupid
    <3>4. DirectoryInv(mgr') /\ Grows(added.mgr, mgr')
      BY <1>1, <3>1, <3>2, <3>3, MakeFriendRelationshipInv, RelationGrows
    <3>5. Grows(mgr, mgr')
      BY <3>1, <3>4 DEF Grows
    <3>. QED BY <3>3, <3>4, <3>5, DirectoryStep
  <2>. QED BY <1>3, <2>1, <2>2, <2>3, <2>4 DEF FriendStep
<1>4. ASSUME NEW c \in Conns, NEW o \in Outcomes, ChatStep(c, o)
      PROVE  ServerInv'
  <2>1. chat \in ChatState
    BY DEF ServerInv, TypeOK
  <2>2. ASSUME NEW t \in ChatTargets, Chat(c, t, o)
        PROVE  ServerInv'
    BY <2>1, <2>2, ChatResponse, ChatStepInv DEF Chat
  <2>3. ASSUME NEW t \in ChatTargets, NEW u \in ChatTargets, NEW o2 \in Outcomes,
               MultiChat(c, t, u, o, o2)
        PROVE  ServerInv'
    <3>. DEFINE first == OnChatResponse(chat, t, o)
    <3>1. /\ first \in ChatState
          /\ \A v \in Ids : IsUserSessionExsit(v) => first.kept[v] = chat.kept[v]
      BY <2>1, ChatResponse
    <3>2. /\ chat' = OnChatResponse(first, u, o2)
          /\ UNCHANGED <<mgr, conn, userid, notify>>
      BY <2>3 DEF MultiChat
    <3>. HIDE DEF first
    <3>3. /\ chat' \in ChatState
          /\ \A v \in Ids : IsUserSessionExsit(v) => chat'.kept[v] = first.kept[v]
      BY <3>1, <3>2, ChatResponse
    <3>. QED BY <3>1, <3>2, <3>3, ChatStepInv
  <2>. QED BY <1>4, <2>2, <2>3 DEF ChatStep
<1>5. ASSUME NEW c \in Conns, NEW n \in LoginNames, NEW p \in StoredPasswords,
             OnLoginResponse(c, n, p)
      PROVE  ServerInv'
  BY <1>5, LoginStep
<1>6. ASSUME NEW c \in Conns, NEW u \in FriendTargets,
             NEW k \in {"request", "null"}, RequestFriend(c, u, k)
      PROVE  ServerInv'
  <2>1. [from |-> userid[c], kind |-> k] \in Notification
    BY <1>1 DEF Notification
  <2>2. /\ SendOrKeep(u, [from |-> userid[c], kind |-> k])
        /\ UNCHANGED <<mgr, conn, userid, chat>>
    BY <1>6 DEF RequestFriend
  <2>. QED BY <1>1, <2>1, <2>2, NotifyStep
<1>7. ASSUME NEW c \in Conns, NEW u \in FriendTargets, RefuseFriend(c, u)
      PROVE  ServerInv'
  <2>1. [from |-> userid[c], kind |-> "refused"] \in Notification
    BY <1>1 DEF Notification
  <2>2. /\ SendOrKeep(u, [from |-> userid[c], kind |-> "refused"])
        /\ UNCHANGED <<mgr, conn, userid, chat>>
    BY <1>7 DEF RefuseFriend
  <2>. QED BY <1>1, <2>1, <2>2, NotifyStep
<1>8. CASE Restart
  BY <1>8, RestartStep
<1>9. CASE UNCHANGED vars
  BY <1>1, <1>9, DirectoryStep DEF vars
<1>. QED
  BY <1>2, <1>3, <1>4, <1>5, <1>6, <1>7, <1>8, <1>9, ConnectionStep DEF Next

\* The server starts with a loaded directory, no sessions and empty caches.
LEMMA ServerInitInv == Init => ServerInv
<1>. SUFFICES ASSUME Init PROVE ServerInv
  OBVIOUS
<1>1. DirectoryInv(mgr)
  BY InitDirectoriesInv, StartAssumption DEF Init
<1>2. TypeOK
  BY <1>1 DEF Init, TypeOK, DirectoryInv, ChatState, NoUser
<1>3. NoStranded /\ SessionUserStored
  BY DEF Init, NoStranded, SessionUserStored, Open
<1>. QED BY <1>1, <1>2, <1>3 DEF ServerInv

\* In every reachable state the parts of the server are well typed.
THEOREM ServerTypeCorrect == Spec => []TypeOK
<1>1. ServerInv => TypeOK
  BY DEF ServerInv
<1>. QED BY <1>1, ServerInitInv, ServerNextInv, PTL DEF Spec

\* No notification and no chat message waits in a cache for a user who has a
\* session, for any number of connections, users and messages: OnChatResponse
\* and OnOperateFriendResponse keep only what GetSessionByID found no session
\* for, and OnLoginResponse empties both caches before the next packet.
THEOREM NothingStranded == Spec => []NoStranded
<1>1. ServerInv => NoStranded
  BY DEF ServerInv
<1>. QED BY <1>1, ServerInitInv, ServerNextInv, PTL DEF Spec

\* Sessions act for users that have a row in t_user, whatever statements fail
\* or lose their reply, because only stored users are in the cache a login
\* searches and no row is ever deleted.
THEOREM SessionsStored == Spec => []SessionUserStored
<1>1. ServerInv => SessionUserStored
  BY DEF ServerInv
<1>. QED BY <1>1, ServerInitInv, ServerNextInv, PTL DEF Spec
=============================================================================
