-------------------------- MODULE MsgCacheManager --------------------------
(***************************************************************************)
(* MsgCacheManager: one std::list per kind of message ("notify", "chat")   *)
(* that holds the messages of all users, and is filtered on every Get.     *)
(* The two pairs of methods are the same code for two lists.               *)
(***************************************************************************)
EXTENDS Integers, SequencesExt

CONSTANTS
  Users,       \* user ids
  Msgs,        \* messages
  MaxLen       \* bound: entries of the two lists together

Kinds == {"notify", "chat"}

Entry(u, m) == [userid |-> u, msg |-> m]

VARIABLES
  list,        \* m_listNotifyMsgCache and m_listChatMsgCache
  got          \* the list the last Get filled for its caller

vars == <<list, got>>

Init ==
  /\ list = [k \in Kinds |-> <<>>]
  /\ got = <<>>

\* AddNotifyMsgCache, AddChatMsgCache.
Add(k, u, m) ==
  /\ Len(list["notify"]) + Len(list["chat"]) < MaxLen
  /\ list' = [list EXCEPT ![k] = Append(@, Entry(u, m))]
  /\ UNCHANGED got

(***************************************************************************)
(* The loop of GetNotifyMsgCache and GetChatMagCache: `i' is the position  *)
(* of the iterator, erase returns the position after the erased entry,     *)
(* which is i again.                                                       *)
(***************************************************************************)
SweepStepSkips(u, s) ==     \* Mutated: the iterator also advances after erase.
  IF s.rest[s.i].userid = u
  THEN [rest  |-> RemoveAt(s.rest, s.i),
        cache |-> Append(s.cache, s.rest[s.i]),
        i     |-> s.i + 1]
  ELSE [s EXCEPT !.i = @ + 1]

SweepStep(u, s) ==
  IF s.rest[s.i].userid = u
  THEN [rest  |-> RemoveAt(s.rest, s.i),
        cache |-> Append(s.cache, s.rest[s.i]),
        i     |-> s.i]
  ELSE [s EXCEPT !.i = @ + 1]

\* One step per entry of the list: FoldLeft over the list as a counter.
Sweep(u, l) ==
  FoldLeft(LAMBDA s, unused : IF s.i <= Len(s.rest) THEN SweepStep(u, s) ELSE s,
           [rest |-> l, cache |-> <<>>, i |-> 1], l)

Get(k, u) ==
  LET swept == Sweep(u, list[k])
  IN  /\ got' = swept.cache
      /\ list' = [list EXCEPT ![k] = swept.rest]

Next ==
  \E k \in Kinds, u \in Users : Get(k, u) \/ \E m \in Msgs : Add(k, u, m)

Spec == Init /\ [][Next]_vars

-----------------------------------------------------------------------------

\* The messages of entries, without the user ids.
MsgsOf(entries) == [i \in DOMAIN entries |-> entries[i].msg]

QueueOf(k, u) ==
  LET OfUser(e) == e.userid = u
  IN  MsgsOf(SelectSeq(list[k], OfUser))

Queues ==
  INSTANCE MsgQueues
    WITH queue <- [k \in Kinds |-> [u \in Users |-> QueueOf(k, u)]],
         got   <- MsgsOf(got)

\* The shared lists behave as one queue per user: a Get returns the messages
\* of its user, all of them and in the order they were added, and neither
\* drops, reorders nor returns those of another user or of the other kind,
\* although it erases entries of the list it iterates over.
ImplementsQueues == Queues!Spec
=============================================================================
