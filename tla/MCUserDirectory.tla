--------------------------- MODULE MCUserDirectory ---------------------------
(* The directory with one name that several users may register, so that    *)
(* the name is ambiguous, and a boundary low enough for a restart to move  *)
(* the ids of users into the range of groups.                              *)
EXTENDS UserDirectory

MCNames == {<<"word", 1>>}

\* The first group (the boundary is 2) is also called 3.
MCNamesOfGroups == {<<"word", 1>>, Decimal(3)}
=============================================================================
