----------------------------- MODULE MsgQueues -----------------------------
(***************************************************************************)
(* What MsgCacheManager promises its callers: for each kind of message and *)
(* each user a queue of its own.  Adding appends to the queue of the user, *)
(* getting returns the whole queue in order and leaves it empty.  IMServer *)
(* uses the caches in this form.                                           *)
(***************************************************************************)
EXTENDS Sequences

CONSTANTS Kinds, Users, Msgs

VARIABLES queue, got

Init ==
  /\ queue = [k \in Kinds |-> [u \in Users |-> <<>>]]
  /\ got = <<>>

Add(k, u, m) ==
  /\ queue' = [queue EXCEPT ![k][u] = Append(@, m)]
  /\ UNCHANGED got

Get(k, u) ==
  /\ got' = queue[k][u]
  /\ queue' = [queue EXCEPT ![k][u] = <<>>]

Next ==
  \E k \in Kinds, u \in Users : Get(k, u) \/ \E m \in Msgs : Add(k, u, m)

Spec == Init /\ [][Next]_<<queue, got>>
=============================================================================
