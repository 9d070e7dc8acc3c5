------------------------------- MODULE DBLink -------------------------------
(***************************************************************************)
(* What a CedarDB handle promises its callers, without pointers, flags or  *)
(* sessions: each process has, for each database name, one link of its own *)
(* that is not made yet ("none"), "down", "up", or "lost": the process     *)
(* still believes it is connected, but the server has dropped the session. *)
(*                                                                         *)
(* The promise is in what the actions leave out.  A link comes up only     *)
(* from "down": a lost link is never mended by using it, only by releasing *)
(* it.  Only the process that made a link, or the server, changes it.      *)
(***************************************************************************)
CONSTANTS
  Process,  \* the server processes
  Name      \* the database names they ask for

VARIABLE link  \* link[p][n], the link of process p to database n

Status == {"none", "down", "up", "lost"}

TypeOK == link \in [Process -> [Name -> Status]]

Init == link = [p \in Process |-> [n \in Name |-> "none"]]

Moves(p, n, from, to) ==
  /\ link[p][n] \in from
  /\ link' = [link EXCEPT ![p][n] = to]

Make(p, n) == Moves(p, n, {"none"}, "down")

Connect(p, n) == Moves(p, n, {"down"}, "up")

\* The session ends, or a connection just made is gone before its first use.
Lose(p, n) == Moves(p, n, {"up", "down"}, "lost")

\* Links of one process are taken down together or one by one.
Release(p, N) ==
  /\ \A n \in N : link[p][n] \in {"up", "lost"}
  /\ link' = [link EXCEPT ![p] = [n \in Name |-> IF n \in N THEN "down" ELSE @[n]]]

\* The process ends and takes all its links with it.
End(p) == link' = [link EXCEPT ![p] = [n \in Name |-> "none"]]

Next ==
  \E p \in Process :
    \/ \E n \in Name : Make(p, n) \/ Connect(p, n) \/ Lose(p, n)
    \/ \E N \in SUBSET Name : Release(p, N)
    \/ End(p)

Spec == Init /\ [][Next]_link

=============================================================================
