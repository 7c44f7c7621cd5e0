------------------------------ MODULE IMServer ------------------------------
(***************************************************************************)
(* The chat server: connections and their ClientSessions (IMServer), the   *)
(* messages kept for users that are offline (MsgCacheManager) and the user *)
(* directory (UserManager), driven by the packets of the clients.          *)
(*                                                                         *)
(* The TcpServer of IMServer has no thread pool, so every handler runs to  *)
(* completion on the one event loop: an action is a whole handler.  What   *)
(* interleaves is packets of different connections, closing connections,   *)
(* failing database statements and restarts of the process.                *)
(*                                                                         *)
(* Handlers that only answer the client (heartbeat, friend list, user      *)
(* search, group members, malformed JSON, a wrong password) leave the      *)
(* state of the server as it is and are not actions.                       *)
(***************************************************************************)
EXTENDS UserManager

CONSTANTS
  Conns,            \* connections; their order is that of m_mapclient's keys
  Ids,              \* the user and group ids that occur
  StartUsers,       \* rows of t_user when the server is first started
  StartRelations,   \* rows of t_user_relationship then
  ChatTargets,      \* ids that clients send chat messages to
  FriendTargets,    \* ids that clients name in friend operations
  NewPasswords,     \* passwords that clients change to
  Garbage,          \* values an uninitialised int32_t may hold
  MaxBase,          \* bound: no id counter is increased beyond this value
  MaxUsers,         \* bound: rows of t_user
  MaxRelations,     \* bound: rows of t_user_relationship
  MaxMsgs,          \* bound: chat messages sent
  MaxNotify         \* bound: notifications kept for a user

ASSUME ConnsAssumption == Conns \subseteq Nat
ASSUME TargetsAssumption ==
  Ids \subseteq Int /\ ChatTargets \subseteq Ids /\ FriendTargets \subseteq Ids
ASSUME InputsAssumption == NewPasswords \subseteq Passwords /\ Garbage \subseteq Int
ASSUME StartAssumption ==
  /\ StartUsers \subseteq UserRow
  /\ IsFiniteSet(StartUsers)
  /\ \A r, s \in StartUsers : r.id # NullId /\ (r.id = s.id => r = s)
  /\ StartRelations \subseteq Int \X Int

VARIABLES
  mgr,       \* UserManager and its tables
  conn,      \* TcpConnection::state_ of each connection, "none" if there is none
  userid,    \* m_user->userid of the session of each connection
  notify,    \* m_listNotifyMsgCache: what is kept for each user, oldest first
  chat       \* chat messages: see ChatState

vars == <<mgr, conn, userid, notify, chat>>

NoUser == -1    \* User(): userid(-1)

-----------------------------------------------------------------------------
(* Packets *)

(***************************************************************************)
(* A packet written by OnChatResponse (command, sequence number, data,     *)
(* sender, target), the 10 bytes of packet header that Send leaves in the  *)
(* writer it was given, and a packet written as the string of another one  *)
(* without a command and a sequence number of its own.                     *)
(***************************************************************************)
Packet == [form : {"message", "header", "nested"}, n : Nat]

Message(n) == [form |-> "message", n |-> n]

HeaderOnly == [form |-> "header", n |-> 0]

Nested(p) == [form |-> "nested", n |-> p.n]

Notification == [from : Int, kind : {"request", "accepted", "refused", "null"}]

(***************************************************************************)
(* sent: number of the last chat message; kept: m_listChatMsgCache, per    *)
(* user; saved: the messages in t_chatmsg; received: history of the chat   *)
(* packets handed to connections of each user.                             *)
(***************************************************************************)
ChatState == [sent : Nat, kept : [Ids -> Seq(Packet)], saved : SUBSET Nat,
              received : [Ids -> Seq(Packet)]]

-----------------------------------------------------------------------------
(* Sessions *)

Open(c) == conn[c] # "none"

SessionsOf(u) == {c \in Conns : Open(c) /\ userid[c] = u}

IsUserSessionExsit(u) == SessionsOf(u) # {}

\* The first session of the map that belongs to the user.
GetSessionByID(u) == CHOOSE c \in SessionsOf(u) : \A d \in SessionsOf(u) : c <= d

\* TcpConnection::send drops the data unless state_ is kConnected.
Reaches(u) == IsUserSessionExsit(u) /\ conn[GetSessionByID(u)] = "kConnected"

-----------------------------------------------------------------------------
(* MsgCacheManager *)

AddNotifyMsgCache(u, note) == [notify EXCEPT ![u] = Append(@, note)]

\* The targets of one chat message, in both senses of m_target.
Recipients(target) ==
  IF target < Boundary THEN {target} ELSE GetFriendInfoByUserId(mgr, target)

(***************************************************************************)
(* What the writer holds when the loop over the members of a group reaches *)
(* u: the loop visits them in ascending order and Send replaces the        *)
(* contents of the writer by the packet header.                            *)
(***************************************************************************)
WriterAt(n, target, u) ==
  IF \E v \in Recipients(target) : v < u /\ IsUserSessionExsit(v)
  THEN HeaderOnly
  ELSE Message(n)

\* Mutated: kept messages are put at the front of the list.
OnChatResponseFront(w, target, o) ==
  LET n == w.sent + 1 IN
  [sent     |-> n,
   saved    |-> w.saved,
   kept     |-> [u \in Ids |->
                   IF u \in Recipients(target) /\ ~IsUserSessionExsit(u)
                   THEN <<WriterAt(n, target, u)>> \o w.kept[u]
                   ELSE w.kept[u]],
   received |-> [u \in Ids |->
                   IF u \in Recipients(target) /\ Reaches(u)
                   THEN Append(w.received[u], WriterAt(n, target, u))
                   ELSE w.received[u]]]

\* OnChatResponse: record the message, then send or keep it for each target.
OnChatResponse(w, target, o) ==
  LET n == w.sent + 1 IN
  [sent     |-> n,
   saved    |-> IF Applied(o) THEN w.saved \cup {n} ELSE w.saved,
   kept     |-> [u \in Ids |->
                   IF u \in Recipients(target) /\ ~IsUserSessionExsit(u)
                   THEN Append(w.kept[u], WriterAt(n, target, u))
                   ELSE w.kept[u]],
   received |-> [u \in Ids |->
                   IF u \in Recipients(target) /\ Reaches(u)
                   THEN Append(w.received[u], WriterAt(n, target, u))
                   ELSE w.received[u]]]

-----------------------------------------------------------------------------
(* Initial state and restarts *)

Init ==
  /\ mgr \in InitDirectories(StartUsers, StartRelations)
  /\ conn = [c \in Conns |-> "none"]
  /\ userid = [c \in Conns |-> NoUser]
  /\ notify = [u \in Ids |-> <<>>]
  /\ chat = [sent |-> 0, kept |-> [u \in Ids |-> <<>>], saved |-> {},
             received |-> [u \in Ids |-> <<>>]]

\* The process stops or crashes and main() runs again: sessions and message
\* caches are gone, the directory is loaded from the tables.
Restart ==
  /\ mgr' \in InitDirectories(mgr.t_user, mgr.t_user_relationship)
  /\ conn' = [c \in Conns |-> "none"]
  /\ userid' = [c \in Conns |-> NoUser]
  /\ notify' = [u \in Ids |-> <<>>]
  /\ chat' = [chat EXCEPT !.kept = [u \in Ids |-> <<>>]]

-----------------------------------------------------------------------------
(* Connections *)

\* IMServer::OnConnection of a new connection: a session without a user.
OnConnection(c) ==
  /\ ~Open(c)
  /\ conn' = [conn EXCEPT ![c] = "kConnected"]
  /\ userid' = [userid EXCEPT ![c] = NoUser]
  /\ UNCHANGED <<mgr, notify, chat>>

\* OnRead: Process fails on a packet that cannot be decoded.  forceClose only
\* schedules the close; OnRead goes on with the packets still in the buffer.
OnUndecodable(c) ==
  /\ conn[c] = "kConnected"
  /\ conn' = [conn EXCEPT ![c] = "kDisconnecting"]
  /\ UNCHANGED <<mgr, userid, notify, chat>>

\* IMServer::OnClose, from handleClose: the peer closed the connection, or the
\* scheduled close runs.
OnClose(c) ==
  /\ Open(c)
  /\ conn' = [conn EXCEPT ![c] = "none"]
  /\ userid' = [userid EXCEPT ![c] = NoUser]
  /\ UNCHANGED <<mgr, notify, chat>>

-----------------------------------------------------------------------------
(* Account handlers *)

OnRegisterResponse(c, username, password, o) ==
  /\ Open(c)
  /\ mgr.m_baseUserID < MaxBase /\ Cardinality(mgr.t_user) < MaxUsers
  /\ mgr' = AddUser(mgr, username, password, o).mgr
  /\ UNCHANGED <<conn, userid, notify, chat>>

(***************************************************************************)
(* A login with the right password: the session gets the user, whatever    *)
(* user it had and whoever else is logged in as that user; the kept        *)
(* notifications and chat messages are taken out of the caches and sent on *)
(* this connection.                                                        *)
(***************************************************************************)
GetChatMagCacheKept(w, u, connected) ==    \* Mutated: nothing is erased.
  [w EXCEPT !.received = [v \in Ids |->
               IF v = u /\ connected
               THEN w.received[v] \o [i \in DOMAIN w.kept[v] |-> Nested(w.kept[v][i])]
               ELSE w.received[v]]]

GetChatMagCacheAll(w, u, connected) ==     \* Mutated: userid is not compared.
  [w EXCEPT !.kept = [v \in Ids |-> <<>>],
            !.received = [v \in Ids |->
               IF v = u /\ connected
               THEN w.received[v] \o [i \in DOMAIN w.kept[v] |-> Nested(w.kept[v][i])]
               ELSE w.received[v]]]

GetChatMagCache(w, u, connected) ==
  [w EXCEPT !.kept = [v \in Ids |-> IF v = u THEN <<>> ELSE w.kept[v]],
            !.received = [v \in Ids |->
               IF v = u /\ connected
               THEN w.received[v] \o [i \in DOMAIN w.kept[v] |-> Nested(w.kept[v][i])]
               ELSE w.received[v]]]

OnLoginResponse(c, username, password) ==
  /\ Open(c)
  /\ KnowsUsername(mgr, username)
  /\ LET user == GetUserInfoByUsername(mgr, username) IN
       /\ user.password = password
       /\ userid' = [userid EXCEPT ![c] = user.userid]
       /\ notify' = [u \in Ids |-> IF u = user.userid THEN <<>> ELSE notify[u]]
       /\ chat' = GetChatMagCache(chat, user.userid, conn[c] = "kConnected")
  /\ UNCHANGED <<mgr, conn>>

OnUpdateUserInfoResponse(c, info, o) ==
  /\ Open(c)
  /\ mgr' = UpdateUserInfo(mgr, userid[c], info, o).mgr
  /\ UNCHANGED <<conn, userid, notify, chat>>

OnModifyPasswordResponse(c, oldpassword, newpassword, o) ==
  /\ Open(c)
  /\ KnowsUserId(mgr, userid[c])
  /\ GetUserInfoByUserId(mgr, userid[c]).password = oldpassword
  /\ mgr' = ModifyUserPassword(mgr, userid[c], newpassword, o).mgr
  /\ UNCHANGED <<conn, userid, notify, chat>>

-----------------------------------------------------------------------------
(* Friends and groups: OnOperateFriendResponse and OnCreateGroupResponse *)

RelationsBounded == Cardinality(mgr.t_user_relationship) < MaxRelations

\* Mutated: every notification is kept, online or not.
SendOrKeepAlways(target, note) ==
  /\ Len(notify[target]) < MaxNotify
  /\ notify' = AddNotifyMsgCache(target, note)

\* The notification goes to a session of the target or is kept.
SendOrKeep(target, note) ==
  IF IsUserSessionExsit(target)
  THEN UNCHANGED notify
  ELSE /\ Len(notify[target]) < MaxNotify
       /\ notify' = AddNotifyMsgCache(target, note)

\* Type 4: leave a friend or a group.  Only online users are told.
DeleteFriend(c, friendid, o) ==
  /\ Open(c)
  /\ mgr' = IF friendid > userid[c]
            THEN ReleaseFriendRelationship(mgr, userid[c], friendid, o).mgr
            ELSE ReleaseFriendRelationship(mgr, friendid, userid[c], o).mgr
  /\ UNCHANGED <<conn, userid, notify, chat>>

\* Any other type with the id of a group: the user joins at once.
OnAddGroupResponse(c, groupid, o) ==
  /\ Open(c)
  /\ groupid >= Boundary
  /\ RelationsBounded
  /\ mgr' = MakeFriendRelationship(mgr, userid[c], groupid, o).mgr
  /\ UNCHANGED <<conn, userid, notify, chat>>

\* Type 1 is a request; a type other than 1, 3 and 4 is passed on as null.
RequestFriend(c, target, kind) ==
  /\ Open(c)
  /\ target < Boundary
  /\ SendOrKeep(target, [from |-> userid[c], kind |-> kind])
  /\ UNCHANGED <<mgr, conn, userid, chat>>

\* Type 3 with accept = 1.  The target is told only if the relationship was
\* made, which includes that both users are cached.
AcceptFriend(c, target, o) ==
  LET me     == userid[c]
      result == IF me > target
                THEN MakeFriendRelationship(mgr, target, me, o)
                ELSE MakeFriendRelationship(mgr, me, target, o)
  IN  /\ Open(c)
      /\ target < Boundary
      /\ RelationsBounded
      /\ mgr' = result.mgr
      /\ IF result.ok
         THEN SendOrKeep(target, [from |-> me, kind |-> "accepted"])
         ELSE UNCHANGED notify
      /\ UNCHANGED <<conn, userid, chat>>

\* Type 3 with another value of accept.
RefuseFriend(c, target) ==
  /\ Open(c)
  /\ target < Boundary
  /\ KnowsUserId(mgr, target)
  /\ SendOrKeep(target, [from |-> userid[c], kind |-> "refused"])
  /\ UNCHANGED <<mgr, conn, userid, chat>>

\* groupid is not initialised, AddGroup sets it on success only, and the user
\* is made a member of `groupid' in either case.
OnCreateGroupResponse(c, garbage, o1, o2) ==
  LET added   == AddGroup(mgr, o1)
      groupid == IF added.ok THEN added.mgr.m_baseGrupID ELSE garbage
  IN  /\ Open(c)
      /\ mgr.m_baseGrupID < MaxBase /\ Cardinality(mgr.t_user) < MaxUsers
      /\ RelationsBounded
      /\ mgr' = MakeFriendRelationship(added.mgr, userid[c], groupid, o2).mgr
      /\ UNCHANGED <<conn, userid, notify, chat>>

-----------------------------------------------------------------------------
(* Chat *)

\* A chat packet that ends before its target leaves m_target as it was: unset
\* or the target of an earlier message, so `target' stands for that case too.
Chat(c, target, o) ==
  /\ Open(c)
  /\ chat.sent < MaxMsgs
  /\ chat' = OnChatResponse(chat, target, o)
  /\ UNCHANGED <<mgr, conn, userid, notify>>

\* OnMultiChatResponse with two targets: OnChatResponse for one after the other.
MultiChat(c, target1, target2, o1, o2) ==
  /\ Open(c)
  /\ chat.sent + 1 < MaxMsgs
  /\ chat' = OnChatResponse(OnChatResponse(chat, target1, o1), target2, o2)
  /\ UNCHANGED <<mgr, conn, userid, notify>>

-----------------------------------------------------------------------------

AccountStep(c, o) ==
  \/ \E n \in Names, p \in Passwords : OnRegisterResponse(c, n, p, o)
  \/ \E i \in Infos : OnUpdateUserInfoResponse(c, i, o)
  \/ \E p \in StoredPasswords, q \in NewPasswords :
       OnModifyPasswordResponse(c, p, q, o)

FriendStep(c, o) ==
  \/ \E u \in FriendTargets : DeleteFriend(c, u, o)
  \/ \E u \in FriendTargets : OnAddGroupResponse(c, u, o)
  \/ \E u \in FriendTargets : AcceptFriend(c, u, o)
  \/ \E g \in Garbage, o2 \in Outcomes : OnCreateGroupResponse(c, g, o, o2)

ChatStep(c, o) ==
  \/ \E t \in ChatTargets : Chat(c, t, o)
  \/ \E t, u \in ChatTargets, o2 \in Outcomes : MultiChat(c, t, u, o, o2)

LoginNames == Names \cup {EmptyText} \cup {Decimal(g) : g \in Ids \cap Nat}

Next ==
  \/ \E c \in Conns :
       \/ OnConnection(c)
       \/ OnUndecodable(c)
       \/ OnClose(c)
       \/ \E n \in LoginNames, p \in StoredPasswords : OnLoginResponse(c, n, p)
       \/ \E u \in FriendTargets, k \in {"request", "null"} : RequestFriend(c, u, k)
       \/ \E u \in FriendTargets : RefuseFriend(c, u)
       \/ \E o \in Outcomes : AccountStep(c, o) \/ FriendStep(c, o) \/ ChatStep(c, o)
  \/ Restart

Spec == Init /\ [][Next]_vars

-----------------------------------------------------------------------------
(* Properties *)

\* Directory, sessions, caches and the history of packets are well typed.
TypeOK ==
  /\ DirectoryTyped(mgr)
  /\ conn \in [Conns -> {"none", "kConnected", "kDisconnecting"}]
  /\ userid \in [Conns -> Int]
  /\ notify \in [Ids -> Seq(Notification)]
  /\ chat \in ChatState

\* Nothing stays in the caches for a user who has a session: the caches are
\* emptied at login only, so a message that was kept while the user is online
\* would wait for the next login.  It holds because the handlers keep a
\* message exactly when GetSessionByID finds no session, even one that is
\* about to close, and because a login empties both caches.
NoStranded ==
  \A c \in Conns :
    Open(c) /\ userid[c] \in Ids \ {NoUser}
      => notify[userid[c]] = <<>> /\ chat.kept[userid[c]] = <<>>

Numbered(p) == p.n # 0

Numbers(packets) == SelectSeq(packets, Numbered)

\* Each user is given the chat messages in the order in which they were sent
\* and none of them twice, whether they went straight to a session, through
\* the cache, or to different sessions of the user.
ChatInOrder ==
  \A u \in Ids :
    LET packets == Numbers(chat.received[u] \o chat.kept[u])
    IN  \A i, j \in DOMAIN packets : i < j => packets[i].n < packets[j].n

IsKept(w, u, n) == \E i \in DOMAIN w.kept[u] : w.kept[u][i].n = n
IsReceived(w, u, n) == \E i \in DOMAIN w.received[u] : w.received[u][i].n = n

\* A kept chat message leaves the cache only towards a session of its user, or
\* when the process ends, or when its user logs in on a connection that is
\* already being closed: whatever else happens to other users and connections.
KeptUntilPushed ==
  [][\A u \in Ids, n \in 1..chat.sent :
       IsKept(chat, u, n) =>
         \/ IsKept(chat', u, n)
         \/ IsReceived(chat', u, n)
         \/ \A c \in Conns : conn'[c] = "none"
         \/ \E c \in Conns : conn[c] = "kDisconnecting" /\ userid'[c] = u]_vars

\* The user of a session has a row in t_user (or is the phantom user of a
\* server that was started on an empty table): handlers that act for a session
\* with UPDATE and INSERT statements name a user that exists, although they
\* never look the id up again after the login.
SessionUserStored ==
  \A c \in Conns :
    Open(c) => userid[c] \in StoredIds(mgr) \cup {NoUser, NullId}

-----------------------------------------------------------------------------
(* What comments of the source say, and the code does not ensure. *)

\* A chat message that is kept for an offline member of a group is the
\* message.
KeptIsTheMessage ==
  \A u \in Ids : \A i \in DOMAIN chat.kept[u] : chat.kept[u][i].form = "message"

\* A user joins the group by itself after the group was created: a step that
\* takes a group id without creating the group adds no member to anything.
JoinsAfterCreation ==
  [][ /\ mgr'.m_baseGrupID > mgr.m_baseGrupID
      /\ mgr'.t_user = mgr.t_user
      => mgr'.t_user_relationship = mgr.t_user_relationship]_vars
=============================================================================
