------------------------------ MODULE MemoTable ------------------------------
(***************************************************************************)
(* What a process-wide cache promises: each process has a table of its     *)
(* own, an entry once made never changes, entries are made one at a time   *)
(* and each is a value of its key; the table vanishes with the process.    *)
(* That an entry keeps up with the database is not promised.               *)
(***************************************************************************)
CONSTANTS
  Process,
  Key,
  Entry(_),  \* Entry(k), the values an entry for k may have
  Absent     \* no entry

VARIABLE memo  \* memo[p][k]

Init == memo = [p \in Process |-> [k \in Key |-> Absent]]

Remember(p, k) ==
  /\ memo[p][k] = Absent
  /\ \E e \in Entry(k) : memo' = [memo EXCEPT ![p][k] = e]

Forget(p) == memo' = [memo EXCEPT ![p] = [k \in Key |-> Absent]]

Next == \E p \in Process : Forget(p) \/ \E k \in Key : Remember(p, k)

Spec == Init /\ [][Next]_memo

=============================================================================
