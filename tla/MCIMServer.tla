----------------------------- MODULE MCIMServer -----------------------------
(***************************************************************************)
(* IMServer with small constants: users 1 to 3 named by words, and a group *)
(* above the boundary.                                                     *)
(***************************************************************************)
EXTENDS IMServer

Name(u) == <<"word", u>>

UserNamed(u) == [id |-> u, username |-> Name(u), password |-> "p",
                 info |-> "schema"]

GroupOf(g) == [id |-> g, username |-> Decimal(g), password |-> "",
               info |-> "schema"]

\* Chat: two users, members of group 4, and the boundary 4.
ChatNames == {Name(1), Name(2)}
ChatIds == {-1, 1, 2, 4}
ChatUsers == {UserNamed(1), UserNamed(2), GroupOf(4)}
ChatRelations == {<<1, 4>>, <<2, 4>>}
ChatGoals == {1, 2, 4}

\* Friends and groups: one user and the name of another, boundary 3.
FriendNames == {Name(1), Name(2)}
FriendIds == {-1, 0, 1, 2, 4}
FriendUsers == {UserNamed(1)}
FriendGoals == {2, 4}
NoRows == {}
=============================================================================
