---------------------------- MODULE MCFileServer ----------------------------
(***************************************************************************)
(* FileServer with files of several sizes: "long" has three blocks, so     *)
(* that a session can stop in the middle with an offset beyond the end of  *)
(* "short"; "pair" has a block that is not the last and one that is.       *)
(***************************************************************************)
EXTENDS FileServer, TLC

Sizes == [f \in Md5s |-> CASE f = "long" -> 3 [] f = "pair" -> 2 [] f = "empty" -> 0
                            [] OTHER -> 1]

\* No definition tells the connections apart.
ConnSymmetry == Permutations(Conns)

\* No action reads the last reply.  A run whose properties do not either need not
\* tell apart the states that differ in nothing else.
WithoutReply == <<disk, m_listFiles, opened, unflushed, orphans, sess, client>>
=============================================================================
