-------------------------- MODULE UserManagerProofs --------------------------
(***************************************************************************)
(* What every method of UserManager preserves, for every directory.  The   *)
(* state machines that call the methods prove their invariants from these  *)
(* lemmas.                                                                 *)
(***************************************************************************)
EXTENDS UserManager, FiniteSetTheorems, TLAPS

(***************************************************************************)
(* The inductive core.  UniqueIdsIn alone is not inductive: a new user     *)
(* gets an id that no ROW has, so the cached ids have to be ids of rows    *)
(* (or the phantom id, below every counter), and a restart copies the      *)
(* rows, so the rows have to be keyed, by ids other than the phantom one.  *)
(***************************************************************************)
RowsNumbered(m) == RowsKeyedIn(m) /\ \A r \in m.t_user : r.id # NullId

DirectoryInv(m) ==
  /\ DirectoryTyped(m)
  /\ RowsNumbered(m)
  /\ UniqueIdsIn(m)
  /\ CachedUsersStoredIn(m)

(***************************************************************************)
(* What holds besides while no reply of the database is lost.              *)
(***************************************************************************)
Coherent(m) == PasswordsStoredIn(m) /\ FriendsStoredIn(m)

\* Replacing the list of cached users leaves the rest of the directory alone.
LEMMA WithCachedUsers ==
  ASSUME NEW m \in Directory, NEW users \in Seq(User)
  PROVE  LET n == [m EXCEPT !.m_cachedUsers = users] IN
         /\ n \in Directory
         /\ n.m_cachedUsers = users
         /\ n.t_user = m.t_user
         /\ n.t_user_relationship = m.t_user_relationship
         /\ n.m_baseUserID = m.m_baseUserID
         /\ n.m_baseGrupID = m.m_baseGrupID
<1>. DEFINE S == Seq(User)
<1>1. /\ m \in [t_user : SUBSET UserRow, t_user_relationship : SUBSET (Int \X Int),
               m_cachedUsers : S, m_baseUserID : Nat, m_baseGrupID : Nat]
      /\ users \in S
  BY DEF Directory
<1>2. Directory = [t_user : SUBSET UserRow, t_user_relationship : SUBSET (Int \X Int),
               m_cachedUsers : S, m_baseUserID : Nat, m_baseGrupID : Nat]
  BY DEF Directory
<1>. HIDE DEF S
<1>. QED BY <1>1, <1>2

\* Increasing an id counter leaves the tables and the cache alone.
LEMMA WithCounters ==
  ASSUME NEW m \in Directory, NEW k \in Nat
  PROVE  /\ LET n == [m EXCEPT !.m_baseUserID = k] IN
            /\ n \in Directory
            /\ n.m_cachedUsers = m.m_cachedUsers
            /\ n.t_user = m.t_user
            /\ n.t_user_relationship = m.t_user_relationship
         /\ LET n == [m EXCEPT !.m_baseGrupID = k] IN
            /\ n \in Directory
            /\ n.m_cachedUsers = m.m_cachedUsers
            /\ n.t_user = m.t_user
            /\ n.t_user_relationship = m.t_user_relationship
BY DEF Directory

(***************************************************************************)
(* Adding a user: the row and the cached user of AddUser and AddGroup.     *)
(***************************************************************************)

\* Storing a row under an id that is above the phantom id keeps the invariant.
LEMMA InsertedInv ==
  ASSUME NEW m, DirectoryInv(m), NEW row \in UserRow,
         row.id # NullId, NEW o
  PROVE  /\ DirectoryInv(Inserted(m, row, o))
         /\ Inserted(m, row, o).m_cachedUsers = m.m_cachedUsers
         /\ InsertReported(m, row, o) =>
              /\ Inserted(m, row, o).t_user = m.t_user \cup {row}
              /\ row.id \notin StoredIds(m)
         /\ Coherent(m) => Coherent(Inserted(m, row, o))
<1>1. CASE Applied(o) /\ row.id \notin StoredIds(m)
  <2>1. Inserted(m, row, o) = [m EXCEPT !.t_user = @ \cup {row}]
    BY <1>1 DEF Inserted
  <2>2. IsFiniteSet(m.t_user \cup {row})
    BY FS_AddElement DEF DirectoryInv, DirectoryTyped
  <2>3. DirectoryTyped(Inserted(m, row, o))
    BY <2>1, <2>2 DEF DirectoryInv, DirectoryTyped, Directory
  <2>4. RowsNumbered(Inserted(m, row, o))
    BY <1>1, <2>1 DEF DirectoryInv, DirectoryTyped, Directory, RowsNumbered, RowsKeyedIn, StoredIds
  <2>5. /\ UniqueIdsIn(Inserted(m, row, o))
        /\ CachedUsersStoredIn(Inserted(m, row, o))
    BY <2>1 DEF DirectoryInv, DirectoryTyped, Directory, UniqueIdsIn, CachedUsersStoredIn
  <2>6. /\ Inserted(m, row, o).m_cachedUsers = m.m_cachedUsers
        /\ Inserted(m, row, o).t_user = m.t_user \cup {row}
        /\ Inserted(m, row, o).t_user_relationship = m.t_user_relationship
    BY <2>1 DEF DirectoryInv, DirectoryTyped, Directory
  <2>7. \A i \in DOMAIN m.m_cachedUsers : m.m_cachedUsers[i].userid # row.id
    BY <1>1 DEF DirectoryInv, CachedUsersStoredIn, StoredIds
  <2>8. Coherent(m) => Coherent(Inserted(m, row, o))
    BY <2>6, <2>7 DEF Coherent, PasswordsStoredIn, FriendsStoredIn
  <2>. QED
    BY <2>1, <2>3, <2>4, <2>5, <2>6, <2>8
       DEF DirectoryInv, InsertReported, DirectoryTyped, Directory
<1>2. CASE ~(Applied(o) /\ row.id \notin StoredIds(m))
  BY <1>2 DEF Inserted, InsertReported, Applied, Reported
<1>. QED BY <1>1, <1>2

\* Caching the user of a row that was just stored keeps the invariant.
LEMMA CachedInv ==
  ASSUME NEW m, DirectoryInv(m), NEW row \in m.t_user, NEW user \in User,
         user.userid = row.id, user.username = row.username,
         user.userid # NullId, user.userid \notin CachedIds(m)
  PROVE  LET r == [m EXCEPT !.m_cachedUsers = Append(@, user)] IN
         /\ DirectoryInv(r)
         /\ Coherent(m) /\ user.password = row.password /\ user.friends = {}
              => Coherent(r)
<1>. DEFINE users == m.m_cachedUsers
            n == [m EXCEPT !.m_cachedUsers = Append(users, user)]
<1>1. /\ m \in Directory /\ users \in Seq(User) /\ IsFiniteSet(m.t_user)
      BY DEF DirectoryInv, DirectoryTyped, Directory
<1>2. /\ n \in Directory
      /\ n.t_user = m.t_user
      /\ n.m_cachedUsers = Append(users, user)
      /\ n.t_user_relationship = m.t_user_relationship
  BY <1>1, WithCachedUsers
<1>3. /\ DOMAIN Append(users, user) = DOMAIN users \cup {Len(users) + 1}
      /\ \A i \in DOMAIN users : i # Len(users) + 1 /\ Append(users, user)[i] = users[i]
      /\ Append(users, user)[Len(users) + 1] = user
  BY <1>1
<1>4. DirectoryTyped(n) /\ RowsNumbered(n)
  BY <1>1, <1>2 DEF DirectoryTyped, RowsNumbered, RowsKeyedIn, DirectoryInv
<1>5. UniqueIdsIn(n)
  <2>1. \A i \in DOMAIN users : users[i].userid # user.userid
    BY DEF CachedIds
  <2>2. \A i, j \in DOMAIN users : users[i].userid = users[j].userid => i = j
    BY DEF DirectoryInv, UniqueIdsIn
  <2>. HIDE DEF users, n
  <2>. QED BY <1>2, <1>3, <2>1, <2>2 DEF UniqueIdsIn
<1>6. CachedUsersStoredIn(n)
  <2>1. \A i \in DOMAIN users :
           \/ users[i].userid = NullId
           \/ \E r \in m.t_user : r.id = users[i].userid /\ r.username = users[i].username
    BY DEF DirectoryInv, CachedUsersStoredIn
  <2>. HIDE DEF users, n
  <2>. QED BY <1>2, <1>3, <2>1 DEF CachedUsersStoredIn
<1>7. ASSUME Coherent(m), user.password = row.password, user.friends = {}
      PROVE  Coherent(n)
  <2>1. /\ \A i \in DOMAIN users, r \in m.t_user :
             users[i].userid = r.id => users[i].password = r.password
        /\ \A i \in DOMAIN users : \A f \in users[i].friends :
             f = NullId \/ Related(m.t_user_relationship, users[i].userid, f)
    BY <1>7 DEF Coherent, PasswordsStoredIn, FriendsStoredIn
  <2>2. \A r \in m.t_user : user.userid = r.id => user.password = r.password
    BY <1>7 DEF DirectoryInv, RowsNumbered, RowsKeyedIn
  <2>. HIDE DEF users, n
  <2>3. PasswordsStoredIn(n)
    BY <1>2, <1>3, <2>1, <2>2 DEF PasswordsStoredIn
  <2>4. FriendsStoredIn(n)
    BY <1>2, <1>3, <1>7, <2>1 DEF FriendsStoredIn
  <2>. QED BY <2>3, <2>4 DEF Coherent
<1>. QED BY <1>4, <1>5, <1>6, <1>7 DEF DirectoryInv

\* AddUser keeps the invariant: the new user is cached only after its row,
\* whose id the primary key found new, was inserted.
LEMMA AddUserInv ==
  ASSUME NEW m, DirectoryInv(m), NEW username \in Text,
         NEW password \in StoredPasswords, NEW o
  PROVE  LET r == AddUser(m, username, password, o).mgr IN
         DirectoryInv(r) /\ (Coherent(m) => Coherent(r))
<1>. DEFINE id   == m.m_baseUserID + 1
            base == [m EXCEPT !.m_baseUserID = id]
            row  == [id |-> id, username |-> username,
                     password |-> password, info |-> "schema"]
            user == [userid |-> id, username |-> username,
                     password |-> password, info |-> "registered",
                     friends |-> {}]
            db   == Inserted(base, row, o)
<1>1. /\ id \in Nat /\ id # NullId
      /\ row \in UserRow /\ user \in User
      /\ row.id = id /\ user.userid = id /\ user.username = row.username
      /\ user.password = row.password /\ user.friends = {}
  <2>1. m.m_baseUserID \in Nat
    BY DEF DirectoryInv, DirectoryTyped, Directory
  <2>2. id \in Nat /\ id # NullId
    BY <2>1 DEF NullId
  <2>. HIDE DEF id
  <2>. QED BY <2>2 DEF UserRow, User, StoredPasswords, Profiles
<1>2. DirectoryInv(base) /\ (Coherent(m) => Coherent(base))
  <2>1. /\ base \in Directory
        /\ base.t_user = m.t_user
        /\ base.m_cachedUsers = m.m_cachedUsers
        /\ base.t_user_relationship = m.t_user_relationship
    BY WithCounters, <1>1 DEF DirectoryInv, DirectoryTyped
  <2>. HIDE DEF base
  <2>. QED BY <2>1 DEF DirectoryInv, DirectoryTyped, RowsNumbered, RowsKeyedIn, UniqueIdsIn,
                       CachedUsersStoredIn, Coherent, PasswordsStoredIn,
                       FriendsStoredIn
<1>. HIDE DEF base, row, user, id
<1>3. /\ DirectoryInv(db) /\ (Coherent(m) => Coherent(db))
      /\ db.m_cachedUsers = base.m_cachedUsers
      /\ InsertReported(base, row, o) =>
           row \in db.t_user /\ row.id \notin StoredIds(base)
  BY <1>1, <1>2, InsertedInv
<1>. HIDE DEF db
<1>4. CASE InsertReported(base, row, o)
  <2>1. user.userid \notin CachedIds(db)
    BY <1>1, <1>2, <1>3, <1>4 DEF DirectoryInv, CachedUsersStoredIn, CachedIds, StoredIds
  <2>2. LET n == [db EXCEPT !.m_cachedUsers = Append(@, user)] IN
        DirectoryInv(n) /\ (Coherent(m) => Coherent(n))
    BY <1>1, <1>3, <1>4, <2>1, CachedInv
  <2>. QED BY <1>4, <2>2 DEF AddUser, id, base, row, user, db
<1>5. CASE ~InsertReported(base, row, o)
  BY <1>3, <1>5 DEF AddUser, id, base, row, user, db
<1>. QED BY <1>4, <1>5

\* AddGroup keeps the invariant, for the same reason as AddUser.
LEMMA AddGroupInv ==
  ASSUME NEW m, DirectoryInv(m), NEW o
  PROVE  LET r == AddGroup(m, o).mgr IN
         DirectoryInv(r) /\ (Coherent(m) => Coherent(r))
<1>. DEFINE id   == m.m_baseGrupID + 1
            base == [m EXCEPT !.m_baseGrupID = id]
            row  == [id |-> id, username |-> GroupName(id),
                     password |-> "", info |-> "schema"]
            user == [userid |-> id, username |-> GroupName(id),
                     password |-> "", info |-> "unset", friends |-> {}]
            db   == Inserted(base, row, o)
<1>1. /\ id \in Nat /\ id # NullId
      /\ row \in UserRow /\ user \in User
      /\ row.id = id /\ user.userid = id /\ user.username = row.username
      /\ user.password = row.password /\ user.friends = {}
  <2>1. m.m_baseGrupID \in Nat
    BY DEF DirectoryInv, DirectoryTyped, Directory
  <2>2. id \in Nat /\ id # NullId
    BY <2>1 DEF NullId
  <2>3. GroupName(id) \in Text
    BY <2>2 DEF GroupName, Decimal, Text
  <2>. HIDE DEF id
  <2>. QED BY <2>2, <2>3 DEF UserRow, User, StoredPasswords, Profiles
<1>2. DirectoryInv(base) /\ (Coherent(m) => Coherent(base))
  <2>1. /\ base \in Directory
        /\ base.t_user = m.t_user
        /\ base.m_cachedUsers = m.m_cachedUsers
        /\ base.t_user_relationship = m.t_user_relationship
    BY WithCounters, <1>1 DEF DirectoryInv, DirectoryTyped
  <2>. HIDE DEF base
  <2>. QED BY <2>1 DEF DirectoryInv, DirectoryTyped, RowsNumbered, RowsKeyedIn, UniqueIdsIn,
                       CachedUsersStoredIn, Coherent, PasswordsStoredIn,
                       FriendsStoredIn
<1>. HIDE DEF base, row, user, id
<1>3. /\ DirectoryInv(db) /\ (Coherent(m) => Coherent(db))
      /\ db.m_cachedUsers = base.m_cachedUsers
      /\ InsertReported(base, row, o) =>
           row \in db.t_user /\ row.id \notin StoredIds(base)
  BY <1>1, <1>2, InsertedInv
<1>. HIDE DEF db
<1>4. CASE HasOwnerColumn /\ InsertReported(base, row, o)
  <2>1. user.userid \notin CachedIds(db)
    BY <1>1, <1>2, <1>3, <1>4 DEF DirectoryInv, CachedUsersStoredIn, CachedIds, StoredIds
  <2>2. LET n == [db EXCEPT !.m_cachedUsers = Append(@, user)] IN
        DirectoryInv(n) /\ (Coherent(m) => Coherent(n))
    BY <1>1, <1>3, <1>4, <2>1, CachedInv
  <2>. QED BY <1>4, <2>2 DEF AddGroup, id, base, row, user, db
<1>5. CASE HasOwnerColumn /\ ~InsertReported(base, row, o)
  BY <1>3, <1>5 DEF AddGroup, id, base, row, user, db
<1>6. CASE ~HasOwnerColumn
  BY <1>2, <1>6 DEF AddGroup, id, base
<1>. QED BY <1>4, <1>5, <1>6, OwnerColumnAssumption

(***************************************************************************)
(* The other methods keep the users, their ids and their names.            *)
(***************************************************************************)
SameUsers(m, n) ==
  /\ DOMAIN n.m_cachedUsers = DOMAIN m.m_cachedUsers
  /\ \A i \in DOMAIN m.m_cachedUsers :
       /\ n.m_cachedUsers[i].userid = m.m_cachedUsers[i].userid
       /\ n.m_cachedUsers[i].username = m.m_cachedUsers[i].username

\* A directory with the same rows and counters, whose cached users differ in
\* their friends only, satisfies the invariant again.
LEMMA SameUsersInv ==
  ASSUME NEW m, NEW n, DirectoryInv(m), DirectoryTyped(n), RowsNumbered(n),
         SameUsers(m, n),
         \A r \in m.t_user : \E s \in n.t_user :
            s.id = r.id /\ s.username = r.username
  PROVE  DirectoryInv(n)
<1>1. UniqueIdsIn(n)
  BY DEF DirectoryInv, UniqueIdsIn, SameUsers
<1>2. CachedUsersStoredIn(n)
  BY DEF DirectoryInv, CachedUsersStoredIn, SameUsers
<1>. QED BY <1>1, <1>2 DEF DirectoryInv

\* Replacing t_user_relationship leaves the rest of the directory alone.
LEMMA WithRelations ==
  ASSUME NEW m \in Directory, NEW R \in SUBSET (Int \X Int)
  PROVE  LET n == [m EXCEPT !.t_user_relationship = R] IN
         /\ n \in Directory
         /\ n.t_user_relationship = R
         /\ n.m_cachedUsers = m.m_cachedUsers
         /\ n.t_user = m.t_user
BY DEF Directory

\* A list of cached users built position by position from the old one.
LEMMA MappedUsers ==
  ASSUME NEW m \in Directory,
         NEW users, DOMAIN users = DOMAIN m.m_cachedUsers,
         users = [i \in DOMAIN users |-> users[i]],
         \A i \in DOMAIN users : users[i] \in User
  PROVE  users \in Seq(User)
<1>1. m.m_cachedUsers \in Seq(User)
  BY DEF Directory
<1>2. DOMAIN users = 1..Len(m.m_cachedUsers) /\ Len(m.m_cachedUsers) \in Nat
  BY <1>1
<1>. QED BY <1>2

\* AddFriendToUser changes nothing of the cached users but their friends.
LEMMA AddFriendSame ==
  ASSUME NEW m \in Directory, NEW a \in Int, NEW b \in Int
  PROVE  LET n == AddFriendToUser(m, a, b) IN
         /\ n \in Directory
         /\ n.t_user = m.t_user
         /\ n.t_user_relationship = m.t_user_relationship
         /\ SameUsers(m, n)
         /\ \A i \in DOMAIN m.m_cachedUsers :
              /\ n.m_cachedUsers[i].password = m.m_cachedUsers[i].password
              /\ n.m_cachedUsers[i].friends =
                   m.m_cachedUsers[i].friends
                     \cup Counterpart(m.m_cachedUsers[i].userid, a, b)
<1>. DEFINE old == m.m_cachedUsers
            new == [i \in DOMAIN old |-> [old[i] EXCEPT
                      !.friends = @ \cup Counterpart(old[i].userid, a, b)]]
<1>1. \A i \in DOMAIN old : old[i] \in User
  BY DEF Directory
<1>2. \A u : Counterpart(u, a, b) \subseteq Int
  BY DEF Counterpart
<1>3. \A i \in DOMAIN old :
         /\ new[i] \in User
         /\ new[i].userid = old[i].userid
         /\ new[i].username = old[i].username
         /\ new[i].password = old[i].password
         /\ new[i].friends = old[i].friends \cup Counterpart(old[i].userid, a, b)
  BY <1>1, <1>2 DEF User
<1>4. DOMAIN new = DOMAIN old /\ new = [i \in DOMAIN new |-> new[i]]
  OBVIOUS
<1>5. AddFriendToUser(m, a, b) = [m EXCEPT !.m_cachedUsers = new]
  BY DEF AddFriendToUser
<1>. HIDE DEF new
<1>6. new \in Seq(User)
  BY <1>3, <1>4, MappedUsers
<1>. QED BY <1>3, <1>4, <1>5, <1>6, WithCachedUsers DEF SameUsers

\* DeleteFriendToUser changes nothing of the cached users but their friends.
LEMMA DeleteFriendSame ==
  ASSUME NEW m \in Directory, NEW a \in Int, NEW b \in Int
  PROVE  LET n == DeleteFriendToUser(m, a, b) IN
         /\ n \in Directory
         /\ n.t_user = m.t_user
         /\ n.t_user_relationship = m.t_user_relationship
         /\ SameUsers(m, n)
         /\ \A i \in DOMAIN m.m_cachedUsers :
              /\ n.m_cachedUsers[i].password = m.m_cachedUsers[i].password
              /\ n.m_cachedUsers[i].friends =
                   m.m_cachedUsers[i].friends
                     \ Counterpart(m.m_cachedUsers[i].userid, a, b)
<1>. DEFINE old == m.m_cachedUsers
            new == [i \in DOMAIN old |-> [old[i] EXCEPT
                      !.friends = @ \ Counterpart(old[i].userid, a, b)]]
<1>1. \A i \in DOMAIN old : old[i] \in User
  BY DEF Directory
<1>3. \A i \in DOMAIN old :
         /\ new[i] \in User
         /\ new[i].userid = old[i].userid
         /\ new[i].username = old[i].username
         /\ new[i].password = old[i].password
         /\ new[i].friends = old[i].friends \ Counterpart(old[i].userid, a, b)
  BY <1>1 DEF User
<1>4. DOMAIN new = DOMAIN old /\ new = [i \in DOMAIN new |-> new[i]]
  OBVIOUS
<1>5. DeleteFriendToUser(m, a, b) = [m EXCEPT !.m_cachedUsers = new]
  BY DEF DeleteFriendToUser
<1>. HIDE DEF new
<1>6. new \in Seq(User)
  BY <1>3, <1>4, MappedUsers
<1>. QED BY <1>3, <1>4, <1>5, <1>6, WithCachedUsers DEF SameUsers

\* Other rows of t_user_relationship do not disturb the invariant.
LEMMA RelationsInv ==
  ASSUME NEW m, DirectoryInv(m), NEW n \in Directory, n.t_user = m.t_user,
         SameUsers(m, n)
  PROVE  DirectoryInv(n)
<1>1. DirectoryTyped(n) /\ RowsNumbered(n)
  BY DEF DirectoryInv, DirectoryTyped, RowsNumbered, RowsKeyedIn
<1>. QED BY <1>1, SameUsersInv

\* MakeFriendRelationship keeps the invariant.
LEMMA MakeFriendRelationshipInv ==
  ASSUME NEW m, DirectoryInv(m), NEW a \in Int, NEW b \in Int, NEW o
  PROVE  LET r == MakeFriendRelationship(m, a, b, o).mgr IN
         DirectoryInv(r) /\ (Coherent(m) => Coherent(r))
<1>. DEFINE db == IF Applied(o)
                  THEN [m EXCEPT !.t_user_relationship = @ \cup {<<a, b>>}]
                  ELSE m
<1>1. m \in Directory /\ m.t_user_relationship \cup {<<a, b>>} \in SUBSET (Int \X Int)
  BY DEF DirectoryInv, DirectoryTyped, Directory
<1>2. /\ db \in Directory /\ db.t_user = m.t_user
      /\ db.m_cachedUsers = m.m_cachedUsers
      /\ m.t_user_relationship \subseteq db.t_user_relationship
      /\ Applied(o) => <<a, b>> \in db.t_user_relationship
  BY <1>1, WithRelations
<1>3. MakeFriendRelationship(m, a, b, o).mgr \in
        {m, db} \cup (IF Reported(o) THEN {AddFriendToUser(db, a, b)} ELSE {})
  BY DEF MakeFriendRelationship
<1>. HIDE DEF db
<1>4. SameUsers(m, db) /\ SameUsers(m, AddFriendToUser(db, a, b))
  BY <1>2, AddFriendSame DEF SameUsers
<1>5. Coherent(m) => Coherent(db)
  BY <1>2 DEF Coherent, PasswordsStoredIn, FriendsStoredIn, Related
<1>6. ASSUME Coherent(m), Reported(o) PROVE Coherent(AddFriendToUser(db, a, b))
  <2>. DEFINE n == AddFriendToUser(db, a, b)
  <2>1. /\ n.t_user = db.t_user
        /\ n.t_user_relationship = db.t_user_relationship
        /\ SameUsers(db, n)
        /\ \A i \in DOMAIN db.m_cachedUsers :
             /\ n.m_cachedUsers[i].password = db.m_cachedUsers[i].password
             /\ n.m_cachedUsers[i].friends =
                  db.m_cachedUsers[i].friends
                    \cup Counterpart(db.m_cachedUsers[i].userid, a, b)
    BY <1>2, AddFriendSame
  <2>2. \A u : \A f \in Counterpart(u, a, b) :
           Related(db.t_user_relationship, u, f)
    BY <1>2, <1>6 DEF Counterpart, Related, Reported, Applied
  <2>. HIDE DEF n
  <2>3. PasswordsStoredIn(n)
    BY <1>5, <1>6, <2>1 DEF Coherent, PasswordsStoredIn, SameUsers
  <2>4. FriendsStoredIn(n)
    BY <1>5, <1>6, <2>1, <2>2 DEF Coherent, FriendsStoredIn, SameUsers
  <2>. QED BY <2>3, <2>4 DEF Coherent, n
<1>7. DirectoryInv(db) /\ DirectoryInv(AddFriendToUser(db, a, b))
  BY <1>2, <1>4, AddFriendSame, RelationsInv
<1>. QED BY <1>3, <1>5, <1>6, <1>7

\* ReleaseFriendRelationship keeps the invariant.
LEMMA ReleaseFriendRelationshipInv ==
  ASSUME NEW m, DirectoryInv(m), NEW a \in Int, NEW b \in Int,
         NEW o \in Outcomes
  PROVE  LET r == ReleaseFriendRelationship(m, a, b, o).mgr IN
         DirectoryInv(r) /\ (Coherent(m) /\ o # "lost" => Coherent(r))
<1>. DEFINE db == IF Applied(o)
                  THEN [m EXCEPT !.t_user_relationship = @ \ {<<a, b>>}]
                  ELSE m
<1>1. m \in Directory /\ m.t_user_relationship \ {<<a, b>>} \in SUBSET (Int \X Int)
  BY DEF DirectoryInv, DirectoryTyped, Directory
<1>2. /\ db \in Directory /\ db.t_user = m.t_user
      /\ db.m_cachedUsers = m.m_cachedUsers
      /\ m.t_user_relationship \ {<<a, b>>} \subseteq db.t_user_relationship
      /\ ~Applied(o) => db = m
  BY <1>1, WithRelations
<1>3. ReleaseFriendRelationship(m, a, b, o).mgr \in
        {m} \cup (IF Reported(o) THEN {DeleteFriendToUser(db, a, b)} ELSE {db})
  BY DEF ReleaseFriendRelationship
<1>. HIDE DEF db
<1>4. SameUsers(m, db) /\ SameUsers(m, DeleteFriendToUser(db, a, b))
  BY <1>2, DeleteFriendSame DEF SameUsers
<1>5. ASSUME Coherent(m), a # b PROVE Coherent(DeleteFriendToUser(db, a, b))
  <2>. DEFINE n == DeleteFriendToUser(db, a, b)
  <2>1. /\ n.t_user = db.t_user
        /\ n.t_user_relationship = db.t_user_relationship
        /\ SameUsers(db, n)
        /\ \A i \in DOMAIN db.m_cachedUsers :
             /\ n.m_cachedUsers[i].password = db.m_cachedUsers[i].password
             /\ n.m_cachedUsers[i].friends =
                  db.m_cachedUsers[i].friends
                    \ Counterpart(db.m_cachedUsers[i].userid, a, b)
    BY <1>2, DeleteFriendSame
  <2>2. \A u, f : f \notin Counterpart(u, a, b) =>
           <<u, f>> # <<a, b>> /\ <<f, u>> # <<a, b>>
    BY <1>5 DEF Counterpart
  <2>3. \A u, f : f \notin Counterpart(u, a, b)
                    /\ Related(m.t_user_relationship, u, f)
                  => Related(db.t_user_relationship, u, f)
    BY <1>2, <2>2 DEF Related
  <2>. HIDE DEF n
  <2>4. PasswordsStoredIn(n)
    BY <1>2, <1>5, <2>1 DEF Coherent, PasswordsStoredIn, SameUsers
  <2>5. FriendsStoredIn(n)
    BY <1>2, <1>5, <2>1, <2>3 DEF Coherent, FriendsStoredIn, SameUsers
  <2>. QED BY <2>4, <2>5 DEF Coherent, n
<1>6. a >= b => ReleaseFriendRelationship(m, a, b, o).mgr = m
  BY DEF ReleaseFriendRelationship
<1>7. o # "lost" /\ ~Reported(o) => db = m
  BY <1>2, FaultsAssumption DEF Outcomes, Reported, Applied
<1>8. DirectoryInv(db) /\ DirectoryInv(DeleteFriendToUser(db, a, b))
  BY <1>2, <1>4, DeleteFriendSame, RelationsInv
<1>. QED BY <1>3, <1>5, <1>6, <1>7, <1>8

(***************************************************************************)
(* UPDATE t_user: the rows are rewritten one by one, ids and names stay.   *)
(***************************************************************************)
LEMMA RewrittenRows ==
  ASSUME NEW m, DirectoryInv(m), NEW f \in [m.t_user -> UserRow],
         \A r \in m.t_user : f[r].id = r.id /\ f[r].username = r.username
  PROVE  LET n == [m EXCEPT !.t_user = {f[r] : r \in m.t_user}] IN
         /\ DirectoryTyped(n)
         /\ RowsNumbered(n)
         /\ n.t_user = {f[r] : r \in m.t_user}
         /\ n.m_cachedUsers = m.m_cachedUsers
         /\ n.t_user_relationship = m.t_user_relationship
<1>. DEFINE T == {f[r] : r \in m.t_user}
            n == [m EXCEPT !.t_user = T]
<1>1. f \in Surjection(m.t_user, T)
  BY DEF Surjection
<1>2. IsFiniteSet(T)
  BY <1>1, FS_Surjection DEF DirectoryInv, DirectoryTyped
<1>3. m \in Directory /\ T \subseteq UserRow
  BY DEF DirectoryInv, DirectoryTyped
<1>4. \A r, s \in T : r.id # NullId /\ (r.id = s.id => r = s)
  BY DEF DirectoryInv, RowsNumbered, RowsKeyedIn
<1>. HIDE DEF T
<1>5. /\ n \in Directory /\ n.t_user = T
      /\ n.m_cachedUsers = m.m_cachedUsers
      /\ n.t_user_relationship = m.t_user_relationship
  BY <1>3 DEF Directory
<1>6. DirectoryTyped(n) /\ RowsNumbered(n)
  BY <1>2, <1>4, <1>5 DEF DirectoryTyped, RowsNumbered, RowsKeyedIn
<1>. QED BY <1>5, <1>6 DEF T

\* UpdateUserInfo keeps the invariant: it changes neither ids nor names.
LEMMA UpdateUserInfoInv ==
  ASSUME NEW m, DirectoryInv(m), NEW userid \in Int, NEW info \in Infos, NEW o
  PROVE  LET r == UpdateUserInfo(m, userid, info, o).mgr IN
         DirectoryInv(r) /\ (Coherent(m) => Coherent(r))
<1>. DEFINE f     == [row \in m.t_user |->
                        IF row.id = userid THEN [row EXCEPT !.info = info] ELSE row]
            rows  == {f[r] : r \in m.t_user}
            db    == IF Applied(o) THEN [m EXCEPT !.t_user = rows] ELSE m
            old   == m.m_cachedUsers
            new   == [i \in DOMAIN old |->
                        IF IsFirstMatch(m, userid, i)
                        THEN [old[i] EXCEPT !.info = info] ELSE old[i]]
            n     == [db EXCEPT !.m_cachedUsers = new]
<1>1. m \in Directory /\ m.t_user \subseteq UserRow /\ old \in Seq(User)
  BY DEF DirectoryInv, DirectoryTyped, Directory
<1>2. /\ f \in [m.t_user -> UserRow]
      /\ \A r \in m.t_user : /\ f[r].id = r.id /\ f[r].username = r.username
                             /\ f[r].password = r.password
  BY <1>1 DEF UserRow, Profiles
<1>3. {IF row.id = userid THEN [row EXCEPT !.info = info] ELSE row : row \in m.t_user}
        = rows
  OBVIOUS
<1>4. UpdateUserInfo(m, userid, info, o).mgr = IF Reported(o) THEN n ELSE db
  BY <1>3 DEF UpdateUserInfo
<1>. HIDE DEF f
<1>5. /\ DirectoryTyped(db) /\ RowsNumbered(db)
      /\ db.m_cachedUsers = old
      /\ \A r \in m.t_user : \E s \in db.t_user :
           s.id = r.id /\ s.username = r.username
      /\ \A s \in db.t_user : \E r \in m.t_user :
           s.id = r.id /\ s.password = r.password
      /\ db.t_user_relationship = m.t_user_relationship
  BY <1>2, RewrittenRows DEF DirectoryInv
<1>6. \A i \in DOMAIN old : old[i] \in User
  BY <1>1
<1>7. /\ DOMAIN new = DOMAIN old /\ new = [i \in DOMAIN new |-> new[i]]
      /\ \A i \in DOMAIN old :
           /\ new[i] \in User
           /\ new[i].userid = old[i].userid
           /\ new[i].username = old[i].username
           /\ new[i].password = old[i].password
           /\ new[i].friends = old[i].friends
  BY <1>6 DEF User, Profiles
<1>. HIDE DEF new, db
<1>8. new \in Seq(User)
  BY <1>1, <1>7, MappedUsers
<1>9. /\ n \in Directory
      /\ n.t_user = db.t_user
      /\ n.m_cachedUsers = new
      /\ n.t_user_relationship = db.t_user_relationship
  BY <1>5, <1>8, WithCachedUsers DEF DirectoryTyped
<1>. HIDE DEF n
<1>10. DirectoryTyped(n) /\ RowsNumbered(n)
  BY <1>5, <1>9 DEF DirectoryTyped, RowsNumbered, RowsKeyedIn
<1>11. SameUsers(m, db) /\ SameUsers(m, n)
  BY <1>5, <1>7, <1>9 DEF SameUsers
<1>12. DirectoryInv(db)
  BY <1>5, <1>11, SameUsersInv
<1>13. DirectoryInv(n)
  BY <1>5, <1>9, <1>10, <1>11, SameUsersInv
<1>14. ASSUME Coherent(m) PROVE Coherent(db) /\ Coherent(n)
  BY <1>5, <1>7, <1>9, <1>14 DEF Coherent, PasswordsStoredIn, FriendsStoredIn
<1>. QED BY <1>4, <1>12, <1>13, <1>14

\* ModifyUserPassword keeps the invariant, and changes the cached password
\* only when the stored one was changed.
LEMMA ModifyUserPasswordInv ==
  ASSUME NEW m, DirectoryInv(m), NEW userid \in Int, 
         NEW password \in Passwords, NEW o \in Outcomes
  PROVE  LET r == ModifyUserPassword(m, userid, password, o).mgr IN
         DirectoryInv(r) /\ (Coherent(m) /\ o # "lost" => Coherent(r))
<1>. DEFINE f     == [row \in m.t_user |->
                        IF row.id = userid THEN [row EXCEPT !.password = password] ELSE row]
            rows  == {f[r] : r \in m.t_user}
            db    == IF Applied(o) THEN [m EXCEPT !.t_user = rows] ELSE m
            old   == m.m_cachedUsers
            new   == [i \in DOMAIN old |->
                        IF IsFirstMatch(m, userid, i)
                        THEN [old[i] EXCEPT !.password = password] ELSE old[i]]
            n     == [db EXCEPT !.m_cachedUsers = new]
<1>1. m \in Directory /\ m.t_user \subseteq UserRow /\ old \in Seq(User)
  BY DEF DirectoryInv, DirectoryTyped, Directory
<1>2. /\ f \in [m.t_user -> UserRow]
      /\ \A r \in m.t_user : /\ f[r].id = r.id /\ f[r].username = r.username
                             /\ f[r].password = IF r.id = userid THEN password ELSE r.password
  BY <1>1 DEF UserRow, StoredPasswords
<1>3. {IF row.id = userid THEN [row EXCEPT !.password = password] ELSE row : row \in m.t_user}
        = rows
  OBVIOUS
<1>4. ModifyUserPassword(m, userid, password, o).mgr = IF Reported(o) THEN n ELSE db
  BY <1>3 DEF ModifyUserPassword
<1>. HIDE DEF f
<1>5. /\ DirectoryTyped(db) /\ RowsNumbered(db)
      /\ db.m_cachedUsers = old
      /\ \A r \in m.t_user : \E s \in db.t_user :
           s.id = r.id /\ s.username = r.username
      /\ \A s \in db.t_user : \E r \in m.t_user :
           /\ s.id = r.id
           /\ s.password = IF Applied(o) /\ r.id = userid
                            THEN password ELSE r.password
      /\ db.t_user_relationship = m.t_user_relationship
  BY <1>2, RewrittenRows DEF DirectoryInv
<1>6. \A i \in DOMAIN old : old[i] \in User
  BY <1>1
<1>7. /\ DOMAIN new = DOMAIN old /\ new = [i \in DOMAIN new |-> new[i]]
      /\ \A i \in DOMAIN old :
           /\ new[i] \in User
           /\ new[i].userid = old[i].userid
           /\ new[i].username = old[i].username
           /\ new[i].password = IF IsFirstMatch(m, userid, i)
                                  THEN password ELSE old[i].password
           /\ new[i].friends = old[i].friends
  BY <1>6 DEF User, StoredPasswords
<1>. HIDE DEF new, db
<1>8. new \in Seq(User)
  BY <1>1, <1>7, MappedUsers
<1>9. /\ n \in Directory
      /\ n.t_user = db.t_user
      /\ n.m_cachedUsers = new
      /\ n.t_user_relationship = db.t_user_relationship
  BY <1>5, <1>8, WithCachedUsers DEF DirectoryTyped
<1>. HIDE DEF n
<1>10. DirectoryTyped(n) /\ RowsNumbered(n)
  BY <1>5, <1>9 DEF DirectoryTyped, RowsNumbered, RowsKeyedIn
<1>11. SameUsers(m, db) /\ SameUsers(m, n)
  BY <1>5, <1>7, <1>9 DEF SameUsers
<1>12. DirectoryInv(db)
  BY <1>5, <1>11, SameUsersInv
<1>13. DirectoryInv(n)
  BY <1>5, <1>9, <1>10, <1>11, SameUsersInv
<1>14. \A i \in DOMAIN old : IsFirstMatch(m, userid, i) <=> old[i].userid = userid
  <2>1. \A i, j \in DOMAIN old : old[i].userid = old[j].userid => i = j
    BY DEF DirectoryInv, UniqueIdsIn
  <2>2. DOMAIN old \subseteq Nat
    BY <1>1
  <2>. QED BY <2>1, <2>2 DEF IsFirstMatch, PositionsByUserId
<1>15. ASSUME Coherent(m), o = "ok" PROVE Coherent(n)
  BY <1>5, <1>7, <1>9, <1>14, <1>15
     DEF Coherent, PasswordsStoredIn, FriendsStoredIn, Applied
<1>16. ASSUME Coherent(m), o = "fail" PROVE Coherent(db)
  BY <1>16 DEF db, Applied
<1>. QED
  BY <1>4, <1>12, <1>13, <1>15, <1>16, FaultsAssumption DEF Outcomes, Reported

(***************************************************************************)
(* Start-up: the cache is a copy of the tables.                            *)
(***************************************************************************)
LEMMA InitDirectoriesInv ==
  ASSUME NEW users \in SUBSET UserRow, IsFiniteSet(users),
         \A r, s \in users : r.id = s.id => r = s,
         \A r \in users : r.id # NullId,
         NEW relations \in SUBSET (Int \X Int),
         NEW m \in InitDirectories(users, relations)
  PROVE  DirectoryInv(m) /\ Coherent(m) /\ m.t_user = users
<1>. PICK loaded \in LoadUserFromDB(users),
          unloaded \in UnloadedSets(users),
          largest \in Largest({0} \cup {row.id : row \in users}) :
            m = Initialized(users, relations, loaded, unloaded, largest)
  BY DEF InitDirectories
<1>. DEFINE Load(row) ==
       [userid |-> row.id, username |-> row.username,
        password |-> row.password, info |-> row.info,
        friends |-> IF row.id \in unloaded THEN {}
                    ELSE LoadRelationshipFromDB(relations, row.id)]
      cached == [i \in DOMAIN loaded |-> Load(loaded[i])]
<1>1. /\ loaded \in Seq(UserRow)
      /\ \A i \in DOMAIN loaded :
           loaded[i] \in users \/ (users = {} /\ loaded[i] = NullRow)
      /\ \A i, j \in DOMAIN loaded : i # j => loaded[i].id # loaded[j].id
  <2>1. CASE users = {}
    <3>1. loaded = <<NullRow>>
      BY <2>1 DEF LoadUserFromDB
    <3>2. NullRow \in UserRow
      BY DEF NullRow, NullId, UserRow, EmptyText, Text, StoredPasswords, Profiles
    <3>. HIDE DEF NullRow
    <3>. QED BY <2>1, <3>1, <3>2
  <2>2. CASE users # {}
    <3>1. Cardinality(users) \in Nat
      BY FS_CardinalityType
    <3>2. /\ loaded \in [1..Cardinality(users) -> users]
          /\ \A i, j \in DOMAIN loaded : i < j => loaded[i] # loaded[j]
      BY <2>2 DEF LoadUserFromDB, RowsDescending
    <3>3. \A i, j \in DOMAIN loaded : i # j => loaded[i] # loaded[j]
      BY <3>1, <3>2
    <3>4. \A i, j \in DOMAIN loaded : i # j => loaded[i].id # loaded[j].id
      BY <3>2, <3>3
    <3>5. loaded \in Seq(UserRow)
      BY <3>1, <3>2
    <3>. QED BY <3>2, <3>4, <3>5
  <2>. QED BY <2>1, <2>2
<1>2. \A u : LoadRelationshipFromDB(relations, u) \subseteq Int
  BY DEF LoadRelationshipFromDB, NullId
<1>3. \A i \in DOMAIN loaded : loaded[i] \in UserRow /\ Load(loaded[i]) \in User
  <2>1. SUFFICES ASSUME NEW row \in UserRow PROVE Load(row) \in User
    BY <1>1
  <2>. QED BY <1>2 DEF UserRow, User
<1>4. largest \in Nat
  BY DEF Largest, UserRow
<1>5. /\ m.t_user = users /\ m.t_user_relationship = relations
      /\ m.m_cachedUsers = cached
      /\ m.m_baseUserID = largest /\ m.m_baseGrupID = Boundary
      /\ m = [t_user |-> users, t_user_relationship |-> relations,
              m_cachedUsers |-> cached, m_baseUserID |-> largest,
              m_baseGrupID |-> Boundary]
  BY DEF Initialized
<1>6. cached \in Seq(User)
  BY <1>1, <1>3
<1>7. m \in Directory
  <2>. HIDE DEF cached
  <2>. QED BY <1>4, <1>5, <1>6, BoundaryAssumption DEF Directory
<1>8. \A i \in DOMAIN loaded :
         /\ cached[i].userid = loaded[i].id
         /\ cached[i].username = loaded[i].username
         /\ cached[i].password = loaded[i].password
         /\ \A f \in cached[i].friends :
              f \in LoadRelationshipFromDB(relations, loaded[i].id)
  OBVIOUS
<1>9. DOMAIN cached = DOMAIN loaded
  OBVIOUS
<1>. HIDE DEF cached, Load
<1>loaded. \A i \in DOMAIN loaded :
            loaded[i] \in users \/ (users = {} /\ loaded[i].id = NullId)
  <2>1. NullRow.id = NullId
    BY DEF NullRow
  <2>. QED BY <1>1, <2>1
<1>10. DirectoryTyped(m) /\ RowsNumbered(m)
  BY <1>5, <1>7 DEF DirectoryTyped, RowsNumbered, RowsKeyedIn
<1>11. UniqueIdsIn(m)
  BY <1>1, <1>5, <1>8, <1>9 DEF UniqueIdsIn
<1>12. CachedUsersStoredIn(m)
  BY <1>loaded, <1>5, <1>8, <1>9 DEF CachedUsersStoredIn
<1>13. PasswordsStoredIn(m)
  BY <1>loaded, <1>5, <1>8, <1>9 DEF PasswordsStoredIn
<1>14. FriendsStoredIn(m)
  <2>1. \A u : \A f \in LoadRelationshipFromDB(relations, u) :
           f = NullId \/ <<u, f>> \in relations \/ <<f, u>> \in relations
    BY DEF LoadRelationshipFromDB
  <2>. QED BY <1>5, <1>8, <1>9, <2>1 DEF FriendsStoredIn, Related
<1>. QED BY <1>5, <1>10, <1>11, <1>12, <1>13, <1>14 DEF DirectoryInv, Coherent
=============================================================================
