------------------------- MODULE UserDirectoryProofs -------------------------
(***************************************************************************)
(* The invariants of the directory, for every choice of names, ids, bounds *)
(* and faults.  Each action calls one method of UserManager, so each step  *)
(* of the induction is one lemma of UserManagerProofs.  Then what the list *)
(* of cached users keeps from step to step, and whose account a name opens *)
(* therefore.                                                              *)
(***************************************************************************)
EXTENDS UserDirectory, UserManagerProofs

\* One step of any action keeps the inductive invariant, and also keeps cache
\* and tables coherent when the database loses no reply.
LEMMA NextInv ==
  ASSUME DirectoryInv(mgr), [Next]_mgr
  PROVE  /\ DirectoryInv(mgr)'
         /\ "lost" \notin DbFaults /\ Coherent(mgr) => Coherent(mgr)'
<1>. SUFFICES /\ DirectoryInv(mgr')
              /\ "lost" \notin DbFaults /\ Coherent(mgr) => Coherent(mgr')
  OBVIOUS
<1>1. ASSUME NEW o \in Outcomes, NEW n \in Names, NEW p \in Passwords,
             Register(n, p, o)
      PROVE  DirectoryInv(mgr') /\ (Coherent(mgr) => Coherent(mgr'))
  BY <1>1, AddUserInv, NamesAssumption DEF Register, StoredPasswords
<1>2. ASSUME NEW o \in Outcomes, CreateGroup(o)
      PROVE  DirectoryInv(mgr') /\ (Coherent(mgr) => Coherent(mgr'))
  BY <1>2, AddGroupInv DEF CreateGroup
<1>3. ASSUME NEW o \in Outcomes, NEW a \in ClientIds, NEW b \in ClientIds,
             MakeFriends(a, b, o)
      PROVE  DirectoryInv(mgr') /\ (Coherent(mgr) => Coherent(mgr'))
  BY <1>3, MakeFriendRelationshipInv, ClientIdsAssumption DEF MakeFriends
<1>4. ASSUME NEW o \in Outcomes, NEW a \in ClientIds, NEW b \in ClientIds,
             ReleaseFriends(a, b, o)
      PROVE  /\ DirectoryInv(mgr')
             /\ o # "lost" /\ Coherent(mgr) => Coherent(mgr')
  BY <1>4, ReleaseFriendRelationshipInv, ClientIdsAssumption DEF ReleaseFriends
<1>5. ASSUME NEW o \in Outcomes, NEW u \in ClientIds, NEW i \in Infos,
             ChangeInfo(u, i, o)
      PROVE  DirectoryInv(mgr') /\ (Coherent(mgr) => Coherent(mgr'))
  BY <1>5, UpdateUserInfoInv, ClientIdsAssumption DEF ChangeInfo
<1>6. ASSUME NEW o \in Outcomes, NEW u \in ClientIds, NEW p \in Passwords,
             ChangePassword(u, p, o)
      PROVE  /\ DirectoryInv(mgr')
             /\ o # "lost" /\ Coherent(mgr) => Coherent(mgr')
  BY <1>6, ModifyUserPasswordInv, ClientIdsAssumption DEF ChangePassword
<1>7. CASE Restart
  BY <1>7, InitDirectoriesInv
     DEF Restart, DirectoryInv, DirectoryTyped, Directory, RowsNumbered, RowsKeyedIn
<1>8. CASE UNCHANGED mgr
  BY <1>8
<1>9. \A o \in Outcomes : "lost" \notin DbFaults => o # "lost"
  BY DEF Outcomes
<1>. QED
  BY <1>1, <1>2, <1>3, <1>4, <1>5, <1>6, <1>7, <1>8, <1>9 DEF Next

\* A directory loaded from empty tables satisfies both invariants.
LEMMA InitInv == Init => DirectoryInv(mgr) /\ Coherent(mgr)
BY InitDirectoriesInv, FS_EmptySet DEF Init

\* In every reachable directory the rows and the cache are well typed.
THEOREM DirectoryTypeCorrect == Spec => []TypeOK
<1>1. DirectoryInv(mgr) => TypeOK
  BY DEF DirectoryInv, TypeOK
<1>2. DirectoryInv(mgr) /\ [Next]_mgr => DirectoryInv(mgr)'
  BY NextInv
<1>. QED BY <1>1, <1>2, InitInv, PTL DEF Spec

\* Cached ids are distinct whatever the counters do across restarts, because
\* AddUser and AddGroup cache a user only after t_user accepted its row.
THEOREM CachedIdsDistinct == Spec => []UniqueIds
<1>1. DirectoryInv(mgr) => UniqueIds
  BY DEF DirectoryInv, UniqueIds
<1>2. DirectoryInv(mgr) /\ [Next]_mgr => DirectoryInv(mgr)'
  BY NextInv
<1>. QED BY <1>1, <1>2, InitInv, PTL DEF Spec

\* Every cached user but the phantom one has a row: who can log in now can log
\* in after a restart.
THEOREM CacheBacked == Spec => []CachedUsersStored
<1>1. DirectoryInv(mgr) => CachedUsersStored
  BY DEF DirectoryInv, CachedUsersStored
<1>2. DirectoryInv(mgr) /\ [Next]_mgr => DirectoryInv(mgr)'
  BY NextInv
<1>. QED BY <1>1, <1>2, InitInv, PTL DEF Spec

\* If the database never loses a reply, the passwords and the friends in the
\* cache are those of the tables.
THEOREM CacheCoherent ==
  ASSUME "lost" \notin DbFaults
  PROVE  Spec => [](PasswordsStored /\ FriendsStored)
<1>. DEFINE IInv == DirectoryInv(mgr) /\ Coherent(mgr)
<1>1. IInv => PasswordsStored /\ FriendsStored
  BY DEF Coherent, PasswordsStored, FriendsStored
<1>2. IInv /\ [Next]_mgr => IInv'
  BY NextInv
<1>3. Init => IInv
  BY InitInv
<1>. QED BY <1>1, <1>2, <1>3, PTL DEF Spec
-----------------------------------------------------------------------------
(* The list of cached users only grows at its end while the process runs.  *)

\* n has the users of m, with the ids and the names they had, at the positions
\* they had; the others come after them and are not the phantom user.
Extended(m, n) ==
  /\ DOMAIN m.m_cachedUsers \subseteq DOMAIN n.m_cachedUsers
  /\ \A i \in DOMAIN m.m_cachedUsers :
       /\ n.m_cachedUsers[i].userid = m.m_cachedUsers[i].userid
       /\ n.m_cachedUsers[i].username = m.m_cachedUsers[i].username
  /\ \A i \in DOMAIN n.m_cachedUsers \ DOMAIN m.m_cachedUsers :
       /\ n.m_cachedUsers[i].userid # NullId
       /\ \A j \in DOMAIN m.m_cachedUsers : j < i

AllCached(m) == StoredIds(m) \subseteq CachedIds(m)

\* The phantom user of an empty t_user has no name.
PhantomUnnamed(m) ==
  \A i \in DOMAIN m.m_cachedUsers :
    m.m_cachedUsers[i].userid = NullId => m.m_cachedUsers[i].username = EmptyText

\* A method that leaves the positions, ids and names of the cached users alone
\* extends the list by nothing, and keeps the cached ids.
LEMMA SameUsersExtended ==
  ASSUME NEW m, NEW n, SameUsers(m, n)
  PROVE  Extended(m, n) /\ CachedIds(n) = CachedIds(m)
BY DEF SameUsers, Extended, CachedIds

\* Storing a row and, when the INSERT is reported, caching its user: the list is
\* extended by that user, and unless the reply was lost every row is cached.
LEMMA AddsExtended ==
  ASSUME NEW m, DirectoryInv(m), NEW row \in UserRow, row.id # NullId,
         NEW user \in User, user.userid = row.id, NEW o \in Outcomes
  PROVE  LET db  == Inserted(m, row, o)
             new == [db EXCEPT !.m_cachedUsers = Append(@, user)]
             r   == IF InsertReported(m, row, o) THEN new ELSE db
         IN  Extended(m, r) /\ (o # "lost" /\ AllCached(m) => AllCached(r))
<1>. DEFINE db  == Inserted(m, row, o)
            new == [db EXCEPT !.m_cachedUsers = Append(@, user)]
            users == m.m_cachedUsers
<1>1. /\ DirectoryInv(db) /\ db.m_cachedUsers = users
      /\ InsertReported(m, row, o) => db.t_user = m.t_user \cup {row}
  BY InsertedInv
<1>2. ~Applied(o) \/ row.id \in StoredIds(m) => db = m
  BY DEF Inserted
<1>3. o # "lost" => Reported(o) = Applied(o)
  BY FaultsAssumption DEF Outcomes, Reported, Applied
<1>. HIDE DEF db
<1>4. Extended(m, db)
  BY <1>1 DEF Extended
<1>5. o # "lost" /\ ~InsertReported(m, row, o) => db = m
  BY <1>2, <1>3 DEF InsertReported
<1>6. users \in Seq(User) /\ db \in Directory
  BY <1>1 DEF DirectoryInv, DirectoryTyped, Directory
<1>7. /\ DOMAIN Append(users, user) = DOMAIN users \cup {Len(users) + 1}
      /\ \A i \in DOMAIN users : i < Len(users) + 1 /\ Append(users, user)[i] = users[i]
      /\ Append(users, user)[Len(users) + 1] = user
  BY <1>6
<1>8. new.m_cachedUsers = Append(users, user) /\ new.t_user = db.t_user
  BY <1>1, <1>6, WithCachedUsers
<1>. HIDE DEF new, users
<1>9. Extended(m, new)
  BY <1>7, <1>8 DEF Extended, users
<1>10. InsertReported(m, row, o) /\ AllCached(m) => AllCached(new)
  <2>1. CachedIds(m) \cup {row.id} \subseteq CachedIds(new)
    BY <1>7, <1>8 DEF CachedIds, users
  <2>2. InsertReported(m, row, o) => StoredIds(new) \subseteq StoredIds(m) \cup {row.id}
    BY <1>1, <1>8 DEF StoredIds
  <2>. QED BY <2>1, <2>2 DEF AllCached
<1>. QED BY <1>4, <1>5, <1>9, <1>10 DEF db, new

\* AddUser appends the new user, and only once its row is stored.
LEMMA AddUserExtended ==
  ASSUME NEW m, DirectoryInv(m), NEW username \in Text,
         NEW password \in StoredPasswords, NEW o \in Outcomes
  PROVE  LET r == AddUser(m, username, password, o).mgr IN
         Extended(m, r) /\ (o # "lost" /\ AllCached(m) => AllCached(r))
<1>. DEFINE id   == m.m_baseUserID + 1
            base == [m EXCEPT !.m_baseUserID = id]
            row  == [id |-> id, username |-> username,
                     password |-> password, info |-> "schema"]
            user == [userid |-> id, username |-> username,
                     password |-> password, info |-> "registered",
                     friends |-> {}]
            db   == Inserted(base, row, o)
            new  == [db EXCEPT !.m_cachedUsers = Append(@, user)]
            r    == IF InsertReported(base, row, o) THEN new ELSE db
<1>1. m.m_baseUserID \in Nat /\ m \in Directory
  BY DEF DirectoryInv, DirectoryTyped, Directory
<1>2. id \in Nat /\ id # NullId
  BY <1>1 DEF NullId
<1>3. AddUser(m, username, password, o).mgr = r
  BY DEF AddUser
<1>. HIDE DEF id
<1>4. row \in UserRow /\ row.id # NullId /\ user \in User /\ user.userid = row.id
  BY <1>2 DEF UserRow, User, StoredPasswords, Profiles
<1>5. base \in Directory /\ base.t_user = m.t_user /\ base.m_cachedUsers = m.m_cachedUsers
  BY <1>1, <1>2, WithCounters
<1>. HIDE DEF base, row, user
<1>6. DirectoryInv(base) /\ (AllCached(m) => AllCached(base))
  BY <1>5 DEF DirectoryInv, DirectoryTyped, RowsNumbered, RowsKeyedIn, UniqueIdsIn,
              CachedUsersStoredIn, AllCached, StoredIds, CachedIds
<1>7. Extended(base, r) /\ (o # "lost" /\ AllCached(base) => AllCached(r))
  BY <1>4, <1>6, AddsExtended
<1>. HIDE DEF r
<1>8. Extended(m, r)
  BY <1>5, <1>7 DEF Extended
<1>. QED BY <1>3, <1>6, <1>7, <1>8

\* AddGroup appends the new group, and only once its row is stored.
LEMMA AddGroupExtended ==
  ASSUME NEW m, DirectoryInv(m), NEW o \in Outcomes
  PROVE  LET r == AddGroup(m, o).mgr IN
         Extended(m, r) /\ (o # "lost" /\ AllCached(m) => AllCached(r))
<1>. DEFINE id   == m.m_baseGrupID + 1
            base == [m EXCEPT !.m_baseGrupID = id]
            row  == [id |-> id, username |-> GroupName(id),
                     password |-> "", info |-> "schema"]
            user == [userid |-> id, username |-> GroupName(id),
                     password |-> "", info |-> "unset", friends |-> {}]
            db   == Inserted(base, row, o)
            new  == [db EXCEPT !.m_cachedUsers = Append(@, user)]
            r    == IF InsertReported(base, row, o) THEN new ELSE db
<1>1. m.m_baseGrupID \in Nat /\ m \in Directory
  BY DEF DirectoryInv, DirectoryTyped, Directory
<1>2. id \in Nat /\ id # NullId /\ GroupName(id) \in Text
  BY <1>1 DEF NullId, GroupName, Decimal, Text
<1>3. AddGroup(m, o).mgr = IF ~HasOwnerColumn THEN base ELSE r
  BY OwnerColumnAssumption DEF AddGroup
<1>. HIDE DEF id
<1>4. row \in UserRow /\ row.id # NullId /\ user \in User /\ user.userid = row.id
  BY <1>2 DEF UserRow, User, StoredPasswords, Profiles
<1>5. base \in Directory /\ base.t_user = m.t_user /\ base.m_cachedUsers = m.m_cachedUsers
  BY <1>1, <1>2, WithCounters
<1>. HIDE DEF base, row, user
<1>6. DirectoryInv(base) /\ (AllCached(m) => AllCached(base))
  BY <1>5 DEF DirectoryInv, DirectoryTyped, RowsNumbered, RowsKeyedIn, UniqueIdsIn,
              CachedUsersStoredIn, AllCached, StoredIds, CachedIds
<1>7. Extended(base, r) /\ (o # "lost" /\ AllCached(base) => AllCached(r))
  BY <1>4, <1>6, AddsExtended
<1>. HIDE DEF r
<1>8. Extended(m, r) /\ Extended(m, base)
  BY <1>5, <1>7 DEF Extended
<1>. QED BY <1>3, <1>6, <1>7, <1>8

\* A method that keeps the ids of the rows, and the positions, ids and names of
\* the cached users.
LEMMA SameIdsExtended ==
  ASSUME NEW m, NEW n, SameUsers(m, n), StoredIds(n) = StoredIds(m)
  PROVE  Extended(m, n) /\ (AllCached(m) => AllCached(n))
BY SameUsersExtended DEF AllCached

\* The methods that make and release friends change friends and
\* t_user_relationship only.
LEMMA RelationshipExtended ==
  ASSUME NEW m, DirectoryInv(m), NEW a \in Int, NEW b \in Int, NEW o,
         NEW n \in {MakeFriendRelationship(m, a, b, o).mgr,
                    ReleaseFriendRelationship(m, a, b, o).mgr}
  PROVE  Extended(m, n) /\ (AllCached(m) => AllCached(n))
<1>. DEFINE add == [m EXCEPT !.t_user_relationship = @ \cup {<<a, b>>}]
            del == [m EXCEPT !.t_user_relationship = @ \ {<<a, b>>}]
<1>1. m \in Directory
  BY DEF DirectoryInv, DirectoryTyped
<1>2. /\ m.t_user_relationship \cup {<<a, b>>} \in SUBSET (Int \X Int)
      /\ m.t_user_relationship \ {<<a, b>>} \in SUBSET (Int \X Int)
  BY <1>1 DEF Directory
<1>3. /\ add \in Directory /\ add.t_user = m.t_user /\ add.m_cachedUsers = m.m_cachedUsers
      /\ del \in Directory /\ del.t_user = m.t_user /\ del.m_cachedUsers = m.m_cachedUsers
  BY <1>1, <1>2, WithRelations
<1>4. \E d \in {m, add, del} :
        n \in {d, AddFriendToUser(d, a, b), DeleteFriendToUser(d, a, b)}
  BY DEF MakeFriendRelationship, ReleaseFriendRelationship
<1>. HIDE DEF add, del
<1>5. PICK d \in {m, add, del} :
        n \in {d, AddFriendToUser(d, a, b), DeleteFriendToUser(d, a, b)}
  BY <1>4
<1>6. d \in Directory /\ d.t_user = m.t_user /\ d.m_cachedUsers = m.m_cachedUsers
  BY <1>1, <1>3
<1>7. n.t_user = d.t_user /\ SameUsers(d, n)
  BY <1>5, <1>6, AddFriendSame, DeleteFriendSame DEF SameUsers
<1>8. SameUsers(m, n) /\ StoredIds(n) = StoredIds(m)
  BY <1>6, <1>7 DEF SameUsers, StoredIds
<1>. QED BY <1>8, SameIdsExtended

\* An UPDATE of t_user with the matching change of the cache: rows and cached
\* users are rewritten one by one, with the ids and the names they have.
LEMMA RewrittenExtended ==
  ASSUME NEW m, DirectoryInv(m),
         NEW rows \in SUBSET UserRow, {r.id : r \in rows} = StoredIds(m),
         NEW new, DOMAIN new = DOMAIN m.m_cachedUsers,
         new = [i \in DOMAIN new |-> new[i]],
         \A i \in DOMAIN new :
           /\ new[i] \in User
           /\ new[i].userid = m.m_cachedUsers[i].userid
           /\ new[i].username = m.m_cachedUsers[i].username,
         NEW db, db = m \/ db = [m EXCEPT !.t_user = rows],
         NEW n, n = db \/ n = [db EXCEPT !.m_cachedUsers = new]
  PROVE  Extended(m, n) /\ (AllCached(m) => AllCached(n))
<1>1. m \in Directory
  BY DEF DirectoryInv, DirectoryTyped
<1>2. new \in Seq(User)
  BY <1>1, MappedUsers
<1>3. /\ db \in Directory /\ db.m_cachedUsers = m.m_cachedUsers
      /\ db.t_user \in {m.t_user, rows}
  BY <1>1 DEF Directory
<1>4. CASE n = db
  BY <1>3, <1>4, SameIdsExtended DEF StoredIds, SameUsers
<1>5. CASE n = [db EXCEPT !.m_cachedUsers = new]
  <2>1. n.t_user = db.t_user /\ n.m_cachedUsers = new
    BY <1>2, <1>3, <1>5, WithCachedUsers
  <2>2. StoredIds(n) = StoredIds(m)
    BY <1>3, <2>1 DEF StoredIds
  <2>3. SameUsers(m, n)
    BY <2>1 DEF SameUsers
  <2>. QED BY <2>2, <2>3, SameIdsExtended
<1>. QED BY <1>4, <1>5

\* UpdateUserInfo changes profiles only.
LEMMA UpdateUserInfoExtended ==
  ASSUME NEW m, DirectoryInv(m), NEW userid \in Int, NEW info \in Infos, NEW o
  PROVE  LET n == UpdateUserInfo(m, userid, info, o).mgr IN
         Extended(m, n) /\ (AllCached(m) => AllCached(n))
<1>. DEFINE Row(r) == IF r.id = userid THEN [r EXCEPT !.info = info] ELSE r
            rows == {Row(r) : r \in m.t_user}
            old == m.m_cachedUsers
            new == [i \in DOMAIN old |->
                      IF IsFirstMatch(m, userid, i)
                      THEN [old[i] EXCEPT !.info = info] ELSE old[i]]
            db  == IF Applied(o) THEN [m EXCEPT !.t_user = rows] ELSE m
            n   == IF Reported(o) THEN [db EXCEPT !.m_cachedUsers = new] ELSE db
<1>1. m.t_user \subseteq UserRow /\ \A i \in DOMAIN old : old[i] \in User
  BY DEF DirectoryInv, DirectoryTyped, Directory
<1>2. rows \subseteq UserRow /\ {r.id : r \in rows} = StoredIds(m)
  <2>1. \A r \in m.t_user : Row(r) \in UserRow /\ Row(r).id = r.id
    BY <1>1 DEF UserRow, Profiles
  <2>. HIDE DEF Row
  <2>. QED BY <2>1 DEF StoredIds
<1>3. \A i \in DOMAIN new :
        /\ new[i] \in User
        /\ new[i].userid = old[i].userid
        /\ new[i].username = old[i].username
  BY <1>1 DEF User, Profiles
<1>4. /\ DOMAIN new = DOMAIN old
      /\ new = [i \in DOMAIN new |-> new[i]]
  OBVIOUS
<1>6. UpdateUserInfo(m, userid, info, o).mgr = n
  BY DEF UpdateUserInfo
<1>. HIDE DEF rows, new
<1>7. /\ db = m \/ db = [m EXCEPT !.t_user = rows]
      /\ n = db \/ n = [db EXCEPT !.m_cachedUsers = new]
  OBVIOUS
<1>. HIDE DEF db, n
<1>8. Extended(m, n) /\ (AllCached(m) => AllCached(n))
  BY <1>2, <1>3, <1>4, <1>7, RewrittenExtended
<1>. QED BY <1>6, <1>8

\* ModifyUserPassword changes passwords only.
LEMMA ModifyUserPasswordExtended ==
  ASSUME NEW m, DirectoryInv(m), NEW userid \in Int, NEW password \in Passwords, NEW o
  PROVE  LET n == ModifyUserPassword(m, userid, password, o).mgr IN
         Extended(m, n) /\ (AllCached(m) => AllCached(n))
<1>. DEFINE Row(r) == IF r.id = userid THEN [r EXCEPT !.password = password] ELSE r
            rows == {Row(r) : r \in m.t_user}
            old == m.m_cachedUsers
            new == [i \in DOMAIN old |->
                      IF IsFirstMatch(m, userid, i)
                      THEN [old[i] EXCEPT !.password = password] ELSE old[i]]
            db  == IF Applied(o) THEN [m EXCEPT !.t_user = rows] ELSE m
            n   == IF Reported(o) THEN [db EXCEPT !.m_cachedUsers = new] ELSE db
<1>1. m.t_user \subseteq UserRow /\ \A i \in DOMAIN old : old[i] \in User
  BY DEF DirectoryInv, DirectoryTyped, Directory
<1>2. rows \subseteq UserRow /\ {r.id : r \in rows} = StoredIds(m)
  <2>1. \A r \in m.t_user : Row(r) \in UserRow /\ Row(r).id = r.id
    BY <1>1 DEF UserRow, StoredPasswords
  <2>. HIDE DEF Row
  <2>. QED BY <2>1 DEF StoredIds
<1>3. \A i \in DOMAIN new :
        /\ new[i] \in User
        /\ new[i].userid = old[i].userid
        /\ new[i].username = old[i].username
  BY <1>1 DEF User, StoredPasswords
<1>4. /\ DOMAIN new = DOMAIN old
      /\ new = [i \in DOMAIN new |-> new[i]]
  OBVIOUS
<1>6. ModifyUserPassword(m, userid, password, o).mgr = n
  BY DEF ModifyUserPassword
<1>. HIDE DEF rows, new
<1>7. /\ db = m \/ db = [m EXCEPT !.t_user = rows]
      /\ n = db \/ n = [db EXCEPT !.m_cachedUsers = new]
  OBVIOUS
<1>. HIDE DEF db, n
<1>8. Extended(m, n) /\ (AllCached(m) => AllCached(n))
  BY <1>2, <1>3, <1>4, <1>7, RewrittenExtended
<1>. QED BY <1>6, <1>8

-----------------------------------------------------------------------------
(* Whose account a name opens *)

\* A lookup that finds a position returns the user at the smallest one.
LEMMA FirstOfIsFirst ==
  ASSUME NEW m \in Directory, NEW positions \in SUBSET DOMAIN m.m_cachedUsers,
         positions # {}
  PROVE  \E i \in positions : /\ \A j \in positions : i <= j
                              /\ FirstOf(m, positions) = m.m_cachedUsers[i]
<1>1. m.m_cachedUsers \in Seq(User)
  BY DEF Directory
<1>2. positions \subseteq Nat
  BY <1>1
<1>3. PICK k \in positions : \A j \in positions : ~(<<j, k>> \in OpToRel(<, Nat))
  BY <1>2, NatLessThanWellFounded, WFMin
<1>4. OpToRel(<, Nat) = {ss \in Nat \X Nat : ss[1] < ss[2]}
  BY Zenon DEF OpToRel
<1>5. \A j \in positions : <<j, k>> \notin {ss \in Nat \X Nat : ss[1] < ss[2]}
  BY <1>3, <1>4, Zenon
<1>6. ASSUME NEW j \in positions PROVE k <= j
  <2>1. <<j, k>> \in Nat \X Nat /\ <<j, k>>[1] = j /\ <<j, k>>[2] = k
    BY <1>2
  <2>2. ~(j < k)
    BY <1>5, <2>1, Zenon
  <2>. QED BY <1>2, <2>2
<1>. DEFINE i == CHOOSE x \in positions : \A j \in positions : x <= j
<1>7. i \in positions /\ \A j \in positions : i <= j
  BY <1>6
<1>8. FirstOf(m, positions) = m.m_cachedUsers[i]
  BY DEF FirstOf
<1>. HIDE DEF i
<1>. QED BY <1>7, <1>8

\* Positions and ids of cached users are numbers.
LEMMA CacheTyped ==
  ASSUME NEW m, DirectoryInv(m), NEW i \in DOMAIN m.m_cachedUsers
  PROVE  i \in Int /\ m.m_cachedUsers[i].userid \in Int
<1>1. m.m_cachedUsers \in Seq(User)
  BY DEF DirectoryInv, DirectoryTyped, Directory
<1>2. i \in Int /\ m.m_cachedUsers[i] \in User
  BY <1>1
<1>. QED BY <1>2 DEF User

\* The user of a name is the cached one at the first position with that name.
LEMMA LoginIsFirst ==
  ASSUME NEW m, DirectoryInv(m), NEW name, KnowsUsername(m, name)
  PROVE  \E i \in DOMAIN m.m_cachedUsers :
           /\ m.m_cachedUsers[i].username = name
           /\ LoginId(m, name) = m.m_cachedUsers[i].userid
           /\ LoginId(m, name) \in Int
           /\ \A j \in DOMAIN m.m_cachedUsers :
                m.m_cachedUsers[j].username = name => i <= j
<1>1. m \in Directory
  BY DEF DirectoryInv, DirectoryTyped
<1>. DEFINE P == PositionsByUsername(m, name)
<1>2. P \in SUBSET DOMAIN m.m_cachedUsers /\ P # {}
  BY DEF PositionsByUsername, KnowsUsername
<1>3. LoginId(m, name) = FirstOf(m, P).userid
  BY DEF LoginId, GetUserInfoByUsername
<1>. HIDE DEF P
<1>4. PICK i \in P : (\A j \in P : i <= j) /\ FirstOf(m, P) = m.m_cachedUsers[i]
  BY <1>1, <1>2, FirstOfIsFirst
<1>. QED BY <1>3, <1>4, CacheTyped DEF P, PositionsByUsername

\* While the list only grows at its end, a name keeps its account.
LEMMA ExtendedLogin ==
  ASSUME NEW m, DirectoryInv(m), NEW n, DirectoryInv(n), Extended(m, n),
         NEW name, KnowsUsername(m, name)
  PROVE  KnowsUsername(n, name) /\ LoginId(n, name) = LoginId(m, name)
<1>1. PICK i \in DOMAIN m.m_cachedUsers :
        /\ m.m_cachedUsers[i].username = name
        /\ LoginId(m, name) = m.m_cachedUsers[i].userid
        /\ \A j \in DOMAIN m.m_cachedUsers :
             m.m_cachedUsers[j].username = name => i <= j
  BY LoginIsFirst
<1>2. KnowsUsername(n, name)
  BY <1>1 DEF Extended, KnowsUsername, PositionsByUsername
<1>3. PICK k \in DOMAIN n.m_cachedUsers :
        /\ n.m_cachedUsers[k].username = name
        /\ LoginId(n, name) = n.m_cachedUsers[k].userid
        /\ \A j \in DOMAIN n.m_cachedUsers :
             n.m_cachedUsers[j].username = name => k <= j
  BY <1>2, LoginIsFirst
<1>4. i \in Int /\ k \in Int
  BY CacheTyped
<1>5. k <= i
  BY <1>1, <1>3 DEF Extended
<1>6. k \in DOMAIN m.m_cachedUsers
  BY <1>4, <1>5 DEF Extended
<1>7. i <= k
  BY <1>1, <1>3, <1>6 DEF Extended
<1>8. k = i
  BY <1>4, <1>5, <1>7
<1>. QED BY <1>1, <1>2, <1>3, <1>8 DEF Extended

\* A start loads the rows of t_user.
LEMMA StartLoads ==
  ASSUME NEW users, NEW relations, NEW m \in InitDirectories(users, relations)
  PROVE  \E loaded \in LoadUserFromDB(users) : \E unloaded, largest :
           m = Initialized(users, relations, loaded, unloaded, largest)
<1>. DEFINE Maxima == Largest({0} \cup {row.id : row \in users})
<1>1. m \in {Initialized(users, relations, loaded, unloaded, largest) :
               loaded \in LoadUserFromDB(users), unloaded \in UnloadedSets(users),
               largest \in Maxima}
  BY DEF InitDirectories
<1>. HIDE DEF Maxima
<1>. QED BY <1>1

\* A start caches every row, the larger ids first; only without rows does it
\* cache the phantom user, who has no name.
LEMMA StartedList ==
  ASSUME NEW users \in SUBSET UserRow, IsFiniteSet(users),
         NEW relations \in SUBSET (Int \X Int),
         \A r \in users : r.id # NullId,
         NEW m \in InitDirectories(users, relations)
  PROVE  /\ m.t_user = users
         /\ PhantomUnnamed(m)
         /\ \A r \in users : \E i \in DOMAIN m.m_cachedUsers :
              /\ m.m_cachedUsers[i].userid = r.id
              /\ m.m_cachedUsers[i].username = r.username
         /\ users # {} => \A i, j \in DOMAIN m.m_cachedUsers :
              i < j => m.m_cachedUsers[i].userid >= m.m_cachedUsers[j].userid
<1>. PICK loaded \in LoadUserFromDB(users) : \E unloaded, largest :
            m = Initialized(users, relations, loaded, unloaded, largest)
  BY StartLoads
<1>. PICK unloaded, largest :
            m = Initialized(users, relations, loaded, unloaded, largest)
  OBVIOUS
<1>1. /\ m.t_user = users
      /\ DOMAIN m.m_cachedUsers = DOMAIN loaded
      /\ \A i \in DOMAIN loaded :
           /\ m.m_cachedUsers[i].userid = loaded[i].id
           /\ m.m_cachedUsers[i].username = loaded[i].username
  BY DEF Initialized
<1>2. CASE users = {}
  <2>1. loaded = <<NullRow>> /\ NullRow.username = EmptyText
    BY <1>2 DEF LoadUserFromDB, NullRow
  <2>2. PhantomUnnamed(m)
    <3>. HIDE DEF NullRow
    <3>. QED BY <1>1, <2>1 DEF PhantomUnnamed
  <2>. QED BY <1>1, <1>2, <2>2
<1>3. CASE users # {}
  <2>1. /\ loaded \in [1..Cardinality(users) -> users]
        /\ \A i, j \in DOMAIN loaded :
             i < j => loaded[i] # loaded[j] /\ loaded[i].id >= loaded[j].id
    BY <1>3 DEF LoadUserFromDB, RowsDescending
  <2>2. Cardinality(users) \in Nat
    BY FS_CardinalityType
  <2>3. \A i, j \in 1..Cardinality(users) : loaded[i] = loaded[j] => i = j
    BY <2>1, <2>2
  <2>4. loaded \in Injection(1..Cardinality(users), users)
    BY <2>1, <2>3 DEF Injection, IsInjective
  <2>5. Cardinality(1..Cardinality(users)) = Cardinality(users)
    BY <2>2, FS_Interval
  <2>6. loaded \in Surjection(1..Cardinality(users), users)
    BY <2>4, <2>5, FS_Injection
  <2>7. \A r \in users : \E i \in DOMAIN loaded : loaded[i] = r
    BY <2>1, <2>6 DEF Surjection
  <2>8. PhantomUnnamed(m)
    BY <1>1, <2>1 DEF PhantomUnnamed
  <2>. QED BY <1>1, <1>3, <2>1, <2>7, <2>8
<1>. QED BY <1>2, <1>3

\* After a start on the same tables, a name that was known opens the account of
\* the largest id stored under that name.
LEMMA StartedLogin ==
  ASSUME NEW m, DirectoryInv(m), PhantomUnnamed(m),
         NEW n \in InitDirectories(m.t_user, m.t_user_relationship),
         NEW name, name # EmptyText, KnowsUsername(m, name)
  PROVE  /\ KnowsUsername(n, name)
         /\ LoginId(n, name) >= LoginId(m, name)
         /\ \A id \in IdsNamed(m, name) : id <= LoginId(n, name)
<1>1. /\ m.t_user \in SUBSET UserRow /\ IsFiniteSet(m.t_user)
      /\ m.t_user_relationship \in SUBSET (Int \X Int)
      /\ \A r \in m.t_user : r.id # NullId
      /\ \A r, s \in m.t_user : r.id = s.id => r = s
  BY DEF DirectoryInv, DirectoryTyped, Directory, RowsNumbered, RowsKeyedIn
<1>2. DirectoryInv(n)
  BY <1>1, InitDirectoriesInv
<1>3. /\ \A r \in m.t_user : \E i \in DOMAIN n.m_cachedUsers :
           /\ n.m_cachedUsers[i].userid = r.id
           /\ n.m_cachedUsers[i].username = r.username
      /\ m.t_user # {} => \A i, j \in DOMAIN n.m_cachedUsers :
           i < j => n.m_cachedUsers[i].userid >= n.m_cachedUsers[j].userid
  BY <1>1, StartedList
<1>4. PICK row \in m.t_user : row.username = name /\ row.id = LoginId(m, name)
  <2>1. PICK i \in DOMAIN m.m_cachedUsers :
          /\ m.m_cachedUsers[i].username = name
          /\ LoginId(m, name) = m.m_cachedUsers[i].userid
    BY LoginIsFirst
  <2>2. m.m_cachedUsers[i].userid # NullId
    BY <2>1 DEF PhantomUnnamed
  <2>. QED BY <2>1, <2>2 DEF DirectoryInv, CachedUsersStoredIn
<1>5. KnowsUsername(n, name)
  BY <1>3, <1>4 DEF KnowsUsername, PositionsByUsername
<1>6. PICK k \in DOMAIN n.m_cachedUsers :
        /\ LoginId(n, name) = n.m_cachedUsers[k].userid
        /\ \A j \in DOMAIN n.m_cachedUsers :
             n.m_cachedUsers[j].username = name => k <= j
  BY <1>2, <1>5, LoginIsFirst
<1>7. /\ DOMAIN n.m_cachedUsers \subseteq Int
      /\ \A j \in DOMAIN n.m_cachedUsers : n.m_cachedUsers[j].userid \in Int
  BY <1>2, CacheTyped
<1>8. ASSUME NEW r \in m.t_user, r.username = name
      PROVE  r.id <= LoginId(n, name)
  <2>1. PICK j \in DOMAIN n.m_cachedUsers :
          /\ n.m_cachedUsers[j].userid = r.id
          /\ n.m_cachedUsers[j].username = name
    BY <1>3, <1>8
  <2>2. k = j \/ k < j
    BY <1>6, <1>7, <2>1
  <2>3. CASE k = j
    BY <1>6, <1>7, <2>1, <2>3
  <2>4. CASE k < j
    BY <1>3, <1>6, <1>7, <2>1, <2>4
  <2>. QED BY <2>2, <2>3, <2>4
<1>9. LoginId(n, name) \in Int /\ LoginId(m, name) \in Int
  BY <1>1, <1>4, <1>6, <1>7 DEF UserRow
<1>. QED BY <1>4, <1>5, <1>8, <1>9 DEF IdsNamed

\* Every step but a restart extends the list, and unless a reply is lost every
\* row stays cached.
LEMMA NextExtended ==
  ASSUME DirectoryInv(mgr), [Next]_mgr
  PROVE  \/ Restart
         \/ /\ Extended(mgr, mgr')
            /\ "lost" \notin DbFaults /\ AllCached(mgr) => AllCached(mgr')
<1>1. ASSUME NEW o \in Outcomes, NEW n \in Names, NEW p \in Passwords,
             Register(n, p, o)
      PROVE  /\ Extended(mgr, mgr')
             /\ o # "lost" /\ AllCached(mgr) => AllCached(mgr')
  BY <1>1, AddUserExtended, NamesAssumption DEF Register, StoredPasswords
<1>2. ASSUME NEW o \in Outcomes, CreateGroup(o)
      PROVE  /\ Extended(mgr, mgr')
             /\ o # "lost" /\ AllCached(mgr) => AllCached(mgr')
  BY <1>2, AddGroupExtended DEF CreateGroup
<1>3. ASSUME NEW o \in Outcomes, NEW a \in ClientIds, NEW b \in ClientIds,
             MakeFriends(a, b, o) \/ ReleaseFriends(a, b, o)
      PROVE  Extended(mgr, mgr') /\ (AllCached(mgr) => AllCached(mgr'))
  BY <1>3, RelationshipExtended, ClientIdsAssumption DEF MakeFriends, ReleaseFriends
<1>4. ASSUME NEW o \in Outcomes, NEW u \in ClientIds, NEW i \in Infos,
             ChangeInfo(u, i, o)
      PROVE  Extended(mgr, mgr') /\ (AllCached(mgr) => AllCached(mgr'))
  BY <1>4, UpdateUserInfoExtended, ClientIdsAssumption DEF ChangeInfo
<1>5. ASSUME NEW o \in Outcomes, NEW u \in ClientIds, NEW p \in Passwords,
             ChangePassword(u, p, o)
      PROVE  Extended(mgr, mgr') /\ (AllCached(mgr) => AllCached(mgr'))
  BY <1>5, ModifyUserPasswordExtended, ClientIdsAssumption DEF ChangePassword
<1>6. CASE UNCHANGED mgr
  BY <1>6 DEF Extended
<1>7. \A o \in Outcomes : "lost" \notin DbFaults => o # "lost"
  BY DEF Outcomes
<1>. QED BY <1>1, <1>2, <1>3, <1>4, <1>5, <1>6, <1>7 DEF Next

\* A restart caches the rows that are stored.
LEMMA RestartCaches ==
  ASSUME DirectoryInv(mgr), Restart
  PROVE  PhantomUnnamed(mgr') /\ AllCached(mgr')
<1>1. /\ mgr.t_user \in SUBSET UserRow /\ IsFiniteSet(mgr.t_user)
      /\ mgr.t_user_relationship \in SUBSET (Int \X Int)
      /\ \A r \in mgr.t_user : r.id # NullId
  BY DEF DirectoryInv, DirectoryTyped, Directory, RowsNumbered
<1>. QED BY <1>1, StartedList DEF Restart, AllCached, StoredIds, CachedIds

\* A process that starts on empty tables.
LEMMA InitCaches == Init => PhantomUnnamed(mgr) /\ AllCached(mgr)
BY StartedList, FS_EmptySet DEF Init, AllCached, StoredIds

\* A name keeps its account for as long as the process runs, and after a restart
\* opens the account registered last under it; a name that could log in still
\* can.  The invariant needed is that the phantom user has no name, so that the
\* account a name opens has a row, which the next start loads.
THEOREM LoginsKeepTheirAccount == Spec => LoginIdentity
<1>. DEFINE IInv == DirectoryInv(mgr) /\ PhantomUnnamed(mgr)
            Kept(n) == KnowsUsername(mgr, n) =>
              /\ KnowsUsername(mgr', n)
              /\ \/ LoginId(mgr', n) = LoginId(mgr, n)
                 \/ /\ Restart
                    /\ LoginId(mgr', n) > LoginId(mgr, n)
                    /\ \A id \in IdsNamed(mgr, n) : id <= LoginId(mgr', n)
            Stable == \A n \in Names \ {EmptyText} : Kept(n)
<1>1. Init => IInv
  BY InitInv, InitCaches
<1>2. IInv /\ [Next]_mgr => IInv'
  <2>1. SUFFICES ASSUME IInv, [Next]_mgr PROVE PhantomUnnamed(mgr')
    BY NextInv
  <2>2. ASSUME Extended(mgr, mgr') PROVE PhantomUnnamed(mgr')
    BY <2>1, <2>2 DEF Extended, PhantomUnnamed
  <2>. QED BY <2>1, <2>2, NextExtended, RestartCaches
<1>3. ASSUME IInv, [Next]_mgr, NEW n \in Names \ {EmptyText}
      PROVE  Kept(n)
  <2>. SUFFICES ASSUME KnowsUsername(mgr, n)
                PROVE  /\ KnowsUsername(mgr', n)
                       /\ \/ LoginId(mgr', n) = LoginId(mgr, n)
                          \/ /\ Restart
                             /\ LoginId(mgr', n) > LoginId(mgr, n)
                             /\ \A id \in IdsNamed(mgr, n) : id <= LoginId(mgr', n)
    OBVIOUS
  <2>1. DirectoryInv(mgr')
    BY <1>3, NextInv
  <2>2. CASE Extended(mgr, mgr')
    BY <1>3, <2>1, <2>2, ExtendedLogin
  <2>3. CASE Restart
    <3>1. /\ KnowsUsername(mgr', n)
          /\ LoginId(mgr', n) >= LoginId(mgr, n)
          /\ \A id \in IdsNamed(mgr, n) : id <= LoginId(mgr', n)
      BY <1>3, <2>3, StartedLogin DEF Restart
    <3>2. LoginId(mgr', n) \in Int /\ LoginId(mgr, n) \in Int
      BY <1>3, <2>1, <3>1, LoginIsFirst
    <3>. QED BY <2>3, <3>1, <3>2
  <2>. QED BY <1>3, <2>2, <2>3, NextExtended
<1>4. IInv /\ [Next]_mgr => [Stable]_mgr
  BY <1>3
<1>. QED BY <1>1, <1>2, <1>4, PTL DEF Spec, LoginIdentity

\* If the database never loses a reply, every row is cached: whoever AddUser and
\* AddGroup have stored can log in, or be joined, without a restart.
THEOREM RowsCached ==
  ASSUME "lost" \notin DbFaults
  PROVE  Spec => []StoredUsersCached
<1>. DEFINE IInv == DirectoryInv(mgr) /\ AllCached(mgr)
<1>1. Init => IInv
  BY InitInv, InitCaches
<1>2. IInv /\ [Next]_mgr => IInv'
  BY NextInv, NextExtended, RestartCaches
<1>3. IInv => StoredUsersCached
  BY DEF AllCached, StoredUsersCached
<1>. QED BY <1>1, <1>2, <1>3, PTL DEF Spec
=============================================================================
