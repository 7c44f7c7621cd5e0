# Specifications of the EdoyumIM servers

TLA+ models of the chat server and the file server of `src/EdoyumIMServer`, TLC
configurations that check them on small instances, and TLAPS proofs of the main
invariants for every instance. `PROJECT.json` lists components, runs, mutants, the
source lines behind every definition, findings and hazards.

## 1. The system

Two processes, each with ONE event loop thread. `TcpServer::setThreadNum` is never
called (the `EventLoopThreadPool` of `FileServer/main.cpp` is created and not given to
the `TcpServer`), so a message handler runs to completion before the next one starts.
What interleaves is whole handlers of different connections, connections that close,
database statements that fail, and the end and restart of a process.

| part | state | operations | used by |
|---|---|---|---|
| `UserManager` | `m_cachedUsers` (a list), `m_baseUserID`, `m_baseGrupID`; tables `t_user`, `t_user_relationship` | `Init` (load), `AddUser`, `AddGroup`, `MakeFriendRelationship`, `ReleaseFriendRelationship`, `UpdateUserInfo`, `ModifyUserPassword`, lookups | handlers of `ClientSession` |
| `IMServer` | `m_mapclient`, connection name to session | `OnConnection`, `OnClose`, `GetSessionByID`, `IsUserSessionExsit` | handlers |
| `ClientSession` | `m_user`, `m_target`, `m_targets`, `m_seq` | `OnRead`, `Process`, one handler per message type | event loop |
| `MsgCacheManager` | two lists of messages for offline users | `Add...`, `Get...` | chat, friend and login handlers |
| `MySqlManager`, `MySQLTool`, `QueryResult` | connection, result rows | `Init` (schema), `Query`, `Excute` | `UserManager` |
| `BinaryReader`, `BinaryWriter` | a buffer | encoding and decoding of packets | handlers, `Send` |
| `FileServer`, `FileSession`, `FileManager` | `m_listFiles`; per session `m_fp`, `m_offset`, `m_filesize`; `filecache/` | upload and download requests, `IsFileExsit`, `addFile`, `ResetFile` | event loop |
| `net/`, `base/` | event loop, connections, timers, logging | | both servers |

Hard behaviours: two id counters that a restart moves into each other's range; cache and
tables changed by separate steps; statements that are applied and not answered; several
sessions of one user, several users of one session, connections that are still in the map
while they close; messages kept in memory for offline users; one writer shared by the
members of a group; a `FILE*` per session that outlives the transfer it was opened for,
with a buffer that reaches the disk late.

What should be true: ids are unique; a cached user exists in the table, and the other way
round; the account a name opens does not change under a running server; passwords and
friends in the cache are the stored ones; chat messages arrive in order and once; nothing
waits in the cache of a user who is online; nothing leaves the cache except to its user; an
upload writes to its own file; a file that is announced as complete is complete and stays
so; a transfer that was begun ends. The code keeps some of these only in part: §3 says
what is checked, with the exceptions, and what the code does instead.

## 2. Modules

| module | models | notes |
|---|---|---|
| `UserManager` | class `UserManager` and the two tables | pure operators: a method maps a directory record and the outcome of its SQL statement to the result and the new directory |
| `UserDirectory` | the directory as a state machine: one method per step, restarts | `mgr` is the record |
| `IMServer` | `IMServer`, `ClientSession`, the caches, composed with `UserManager` | an action is a whole handler |
| `MsgQueues` | what the caches promise: one queue per user and kind | abstract |
| `MsgCacheManager` | the lists and the erase-while-iterating loop | refines `MsgQueues` |
| `FileServer` | file server with its external clients | block = 512 * 1024 bytes |
| `MCUserDirectory`, `MCIMServer`, `MCFileServer` | values of constants for TLC | |
| `UserManagerProofs`, `UserDirectoryProofs`, `IMServerProofs` | theorems | |

Operators whose comment begins with "Mutated" are faulty variants of the definition that
follows them; no specification uses them, they are there to show which fault each property
detects.

### UserManager and UserDirectory

`mgr.t_user`, `mgr.t_user_relationship` are sets of rows; `mgr.m_cachedUsers` is the list in
list order, because lookups return the first match. A statement has an outcome: `ok`, `fail`
(not applied, reported as failed), `lost` (applied, reported as failed: `mysql_query` returns
an error other than `CR_SERVER_GONE_ERROR` after the server has executed the statement).
`Inserted`/`InsertReported` are the primary key of `t_user`. A profile (nickname, face,
birthday, ...) is one value; `schema`, `registered` and `unset` are the sets of defaults that
the schema, `AddUser` and the constructor of `User` produce, `zero` what `LoadUserFromDB` reads
from a row without contents. A user name is a tagged
number, so that the decimal name of a group is a text that a client may also register.
`HasOwnerColumn` says whether the deployed `t_user` has the column `f_owner_id` that `AddGroup`
names: the schema in `MySqlManager` calls it `f_owner`, so on a table that the server created
every `AddGroup` fails (`FALSE`, checked by `server_group_create`). `TRUE` is a table to which the
column was added by hand. At start-up `CheckTable` must get past that column too: on MySQL 5.7,
where the other columns match their descriptions, the `continue` at `MySqlManager.cpp:188` does
not advance and the server does not start; from MySQL 8.0.19 on `desc` shows the first integer
column without its width, the loop breaks there, the repair fails, `create table if not exists`
succeeds and the server runs. The runs with groups are about such deployments. The relationship table is a set of pairs: its
`f_id` key allows duplicates, but every DELETE removes all of them.

`QueryResult` of a query without rows: `EndQuery` clears the vector of fields, and `Fetch`
returns `data()` of the cleared vector, not null. The loops of `LoadUserFromDB` and
`LoadRelationshipFromDB` therefore see one row of destroyed fields; with the short-string
buffers still in place it reads as empty texts and 0 (`NullRow`, `NullId`). Reading it is
undefined behaviour; the model takes the one outcome derived from reading the code with
libstdc++'s layout of `std::string` (the programs were not executed to confirm it).

### IMServer

`conn[c]` is the state of the connection (`none`, `kConnected`, `kDisconnecting`), `userid[c]`
the user of its session, `notify` and `chat.kept` the caches per user (justified by
`MsgCacheManager`), `chat.saved` the table `t_chatmsg`, `chat.received` a history of the chat
packets handed to connections of each user. `conn = "kDisconnecting"` is the state after
`forceClose`, in which `OnRead` still handles the packets that are in the buffer and `send`
drops data. A packet is a form and a message number: a whole message, the header that `Send`
leaves in the writer, or a string without command and sequence number (push at login).
Actions: `OnConnection`, `OnUndecodable`, `OnClose`, `OnRegisterResponse`, `OnLoginResponse`,
`OnUpdateUserInfoResponse`, `OnModifyPasswordResponse`, `DeleteFriend`, `OnAddGroupResponse`,
`RequestFriend`, `AcceptFriend`, `RefuseFriend` (the branches of `OnOperateFriendResponse`),
`OnCreateGroupResponse`, `Chat`, `MultiChat`, `Restart`. Handlers and early returns that change
no state (heartbeat, lists, searches, wrong password, malformed JSON) are stuttering steps.

### FileServer

`disk[f]` is a sequence of blocks, `sess[c]` the `FileSession` with the state of its connection and
`m_fp` (file, mode, position and a possible write in its buffer), `orphans` the buffers of streams
that no session refers to any more. Two variables are history: `opened[f]` counts how often the
process opened the file for writing, `unflushed` has the files that were listed although their
`fclose` failed. `reply` is what the last step sent. A write reaches the disk at once or with the
next `fseek`, `fclose` or `exit`. `DownloadAborts` is the case of a stale `m_offset` beyond the end:
`append` gets a negative length, throws, and the process ends.

Faults. `"open"`: an `fopen` fails. `"write"`: the disk refuses data. Then `fwrite` fails, nothing or a
part of the block is on disk, the request is not answered and `m_fp` stays open
(`UploadRefused`); or the `fclose` of `ResetFile` fails, whose result is ignored, so that the file is
listed and announced as complete without its end (`UploadEnds`, `Closings`).

Connections. A packet that `Process` refuses makes `OnRead` call `forceClose`, which only schedules the
close (`OnUndecodable`); requests behind it are handled on the `kDisconnecting` connection, and
`send` drops their replies (`Answer`).

Clients are external, and `Requests` is an assumption about them, not a guard of `Process`: a client
runs one transfer at a time, sends the blocks of the file it names in order, and waits for each
reply; it may cancel and start another transfer on the same connection, and it waits if there is
no reply. What the code does for other clients (`fseek` on a null `m_fp` after an unanswered first
block, blocks written into the stream of another file, offsets that skip or repeat) is not
modelled, and `UploadHasStream` says nothing about it.

## 3. Runs

Passing runs:

| run | instance | states | shows |
|---|---|---|---|
| `directory_ids` | a name and the name of the first group, boundary 2, counters to 4, 3 rows, 1 relationship, faults `fail`, `lost` | 40,134 | `TypeOK`, `UniqueIds`, `CachedUsersStored`, `LoginIdentity` |
| `directory_coherence` | 2 passwords, 3 rows, 2 relationships, fault `fail` | 42,802 | `StoredUsersCached`, `PasswordsStored`, `FriendsStored`, `ProfilesStored` |
| `server_chat` | 2 connections, 2 users and a group with both, 3 messages | 194,747 | `ChatInOrder`, `NoStranded`, `KeptUntilPushed` |
| `server_friends` | 2 connections, 1 stored user and 2 names, a group, fault `fail` | 542,996 | `TypeOK`, `NoStranded`, `SessionUserStored` |
| `msg_cache` | 2 users, 2 messages, 4 entries | 97,173 | `ImplementsQueues` (refinement) |
| `file_transfers` | 2 (symmetric) connections, files of 3 and 1 blocks, all faults, restarts, cancels; `VIEW` without the last reply | 569,453 | `TypeOK`, `UploadHasStream`, `SingleUploadWhole`, `BlocksBelong`, `WholeFilesStay` |
| `file_liveness` | 2 connections, a file of 2 blocks, an empty one, one in the working directory, all faults, restarts | 64,176 | `TransfersEnd` |

What the properties about accounts and files say, where it is less than one might expect:

- `LoginIdentity`. Several users may register one name (`OnRegisterResponse` does not look for it), also
  when the reply to the first `INSERT` was lost and the client tried again. A running process
  always logs in the first of them in its list. A restart loads the list in descending order, so
  the name may then open another account: always the one registered last, which may be one
  whose registration was reported as failed.
- `StoredUsersCached`, `PasswordsStored`, `FriendsStored`, `ProfilesStored` are for a database that loses no
  reply. `FriendsStored` is one direction: a stored friend may be missing from the cache, when
  the relationship was made before the user registered or was not loaded at the start.
- `KeptUntilPushed` exempts a restart (the caches are in memory only) and a login on a connection
  that is being closed.
- `SingleUploadWhole` is for files that this process opened once and whose `fclose` succeeded. What a
  restart lists, a second uploader that truncates the file, and the failed `fclose` are the ways in
  which a listed file is not whole. `WholeFilesStay` is for all files: once whole and listed,
  nothing damages it.
- `TransfersEnd` is about transfers of which a request was answered. A first request may stay
  without an answer: an unknown, empty or unopened file, or one that is only in the working
  directory. In the middle only a refused `fwrite` does.

Why the bounds are enough. With boundary 2 and counters up to 4, a group gets id 3, a restart
moves the user counter to 3, and both counters then meet ids that exist. Three rows allow two
users of one name and a group. Two connections are two sessions of one user, or two users;
three messages are one kept, one direct and one behind. A user may register the name of the
first group before or after it exists. The file of three blocks can be left in the middle with
an offset beyond the end of the file of one block; `MaxOpened = 2` allows a
second writer of the same file. The `VIEW` of `file_transfers` leaves out `reply`, which no action reads
and no property of that run mentions.

Runs with a counterexample, each about a sentence of the source that the code does not keep
(`findings` quotes them):

| run | behaviour |
|---|---|
| `directory_boundary` | create a group (on a `t_user` with `f_owner_id`), restart, register: the new user has an id in the range of groups |
| `server_group_chat` | a group message to an online and then an offline member: the header is kept for the second |
| `server_group_create` | `AddGroup` fails, the user joins an uninitialised id |
| `file_restart` | half an upload, restart, upload again: answered as complete |
| `file_named` | a download is cancelled, another file is requested: answered from the first stream |

The models contain more behaviour of this kind, which the properties of the passing runs
mention where they have to allow for it: the phantom friend 0 of a user without relationships
(`FriendsStored`), the defaults of a new profile that differ between cache and schema
(`ProfilesStored`), kept packets that are pushed at login without a command (`Nested`), a login
on a closing connection that drains the cache into a connection that drops it
(`KeptUntilPushed`), a second uploader that truncates the file of the first (`opened` in
`SingleUploadWhole`), empty files that are never answered (`UploadEmpty`), files announced as complete
whose `fclose` failed (`UploadEnds`).

Fairness. Only `file_liveness` needs it (`FairSpec`): weak fairness of each connection's next request
while a transfer is going on, because the loop handles every readable connection and the client
of a transfer sends its next request when it has the reply to the last; and weak fairness of the
close of a `kDisconnecting` connection, because `forceClose` has queued it and the loop runs its
functors. No fault is due: the fair steps leave out `UploadFails`, and a request that fails disables
them. No fairness is assumed of beginning a transfer, of other closes or of restarts.

## 4. Proofs

| theorem | statement |
|---|---|
| `UserDirectoryProofs!DirectoryTypeCorrect` | `Spec => []TypeOK` |
| `UserDirectoryProofs!CachedIdsDistinct` | `Spec => []UniqueIds` |
| `UserDirectoryProofs!CacheBacked` | `Spec => []CachedUsersStored` |
| `UserDirectoryProofs!CacheCoherent` | if `"lost" \notin DbFaults`, `Spec => [](PasswordsStored /\ FriendsStored)` |
| `UserDirectoryProofs!LoginsKeepTheirAccount` | `Spec => LoginIdentity` |
| `UserDirectoryProofs!RowsCached` | if `"lost" \notin DbFaults`, `Spec => []StoredUsersCached` |
| `IMServerProofs!ServerTypeCorrect` | `Spec => []TypeOK` |
| `IMServerProofs!NothingStranded` | `Spec => []NoStranded` |
| `IMServerProofs!SessionsStored` | `Spec => []SessionUserStored` |

They hold for all values of the constants that satisfy the named assumptions in `UserManager`,
`UserDirectory` and `IMServer` (types only: names are texts, the boundary is positive, faults are
`fail` and `lost`, rows of the start tables have distinct ids other than 0).

`DirectoryInv` (`UserManagerProofs`) is the inductive invariant of the directory: typed, rows
with distinct non-zero ids, distinct cached ids, every cached user stored. `UniqueIds` alone is
not inductive: a counter may produce the id of a cached user. The argument is that
`InsertReported` implies that the id is in no row, while every cached id is in a row
(`CachedUsersStored`); the phantom user of an empty table has id 0, which no counter produces.
Each method has a lemma `<method>Inv`, so that `UserDirectory` and `IMServer` share them.
`Coherent` is passwords and friends, preserved by every method whose outcome is not `lost`.

`LoginIdentity` rests on two facts about the list of cached users. Every method extends it at its end
and keeps the ids and names before (`Extended`), so the first position of a name stays the first.
A start loads all the rows, because an injection between finite sets of the same size is onto, in
descending order (`StartedList`), so the first position of a name has its largest id. To go from one
to the other the account of a name has to have a row: `DirectoryInv` exempts the phantom user, and
`PhantomUnnamed` says that it has no name. `StoredUsersCached` follows from the same lemmas.

`ServerInv` (`IMServerProofs`) adds that sessions have stored users and that caches of users with
a session are empty. The chat and friend handlers keep a message only for users without a
session; the login is the only step that gives a connection a user, and it empties both caches.

Only model-checked: `ProfilesStored`, `ChatInOrder`, `KeptUntilPushed`, the refinement of
`MsgQueues` (the sweep is a fold, and its result needs induction over a list), everything about
`FileServer`, and all liveness (outside what the prover handles).

## 5. Not modelled

JSON texts and wording of replies, logging, option parsing, daemon mode; MD5; the parts of the
network library that neither server links (HTTP, inspection, RPC); the vendored JSON library;
the test client.

## 6. Plan

In this order; a new run takes the place of a counterexample run when the list gets long.

1. Network library, the largest part not modelled: life cycle of `TcpConnection` (`send`,
   `shutdown`, `forceClose`, `handleRead/Write/Close`, `connectDestroyed`) with the map of `TcpServer`,
   and `EventLoop` (pending functors, wakeup, quit) with several threads: no lost wakeup, every
   queued functor runs, a connection is destroyed once and after its last callback. `IMServer`'s
   `conn` is to be shown an abstraction of it. Then `TimerQueue`, `Connector` and `TcpClient` (retry).
2. Base library: `AsyncLogging` (buffers handed between threads), `ThreadPool`,
   `BoundedBlockingQueue`, `CountDownLatch`, `LogFile` rolling.
3. Database access: `MySQLTool` reconnect and retry, `CheckDatabase` and `CheckTable` (schema repair,
   termination).
4. Packet codec: variable-length integers of `BinaryReader`/`BinaryWriter`, framing of both `OnRead`
   loops with the length edges, as operators checked against a reference over bounded inputs.
5. Proofs: `FileServer` (`UploadHasStream`, `BlocksBelong`, from an invariant on sessions and pending
   writes), `KeptUntilPushed` from the invariants above, `ProfilesStored`, and
   the safety invariants of the network modules.
