------------------------------ MODULE CedarDB -------------------------------
(***************************************************************************)
(* The database handles of the CEDAR module (CedarDB.cc, CedarMySQLDB.cc,  *)
(* CedarMySQLConnect.cc).                                                  *)
(*                                                                         *)
(* Each server process keeps two statics: db_list, the builders installed  *)
(* by type, and db_map, the handles built by name.  A handle carries the   *)
(* flag _is_open and the pointer _connection, and connects to MySQL when a *)
(* statement first needs it.  The processes share nothing but the MySQL    *)
(* server, whose live sessions are the set `session'.                      *)
(*                                                                         *)
(* A method that throws and leaves the statics as they were is not a step. *)
(* Next is the most general client: any public method, on any handle, at   *)
(* any time.  Other modules EXTEND this one and restrict the calls to      *)
(* those that the code makes.                                              *)
(***************************************************************************)
CONSTANTS
  Process,        \* server processes: the BES forks one for each client
  Name,           \* symbolic database names, as in DB("Catalog")
  Type,           \* database types a builder may be installed for
  TypeKey,        \* TypeKey[n]: the value of the key Cedar.DB.<n>.Type
  Configured,     \* names whose other keys satisfy the handle's constructor
  Session,        \* MySQL sessions; their number is the server's limit
  Uninitialized,  \* _connection as the constructor leaves it
  Null,           \* _connection after close()
  Unconnected     \* a CedarMySQLConnect whose mysql_real_connect failed

Pointer == {Uninitialized, Null, Unconnected}

ASSUME ConfigurationAssumption == Configured \subseteq Name

ASSUME PointerAssumption ==
  /\ Pointer \cap Session = {}
  /\ Uninitialized # Null
  /\ Uninitialized # Unconnected

VARIABLES
  running,     \* the processes that are alive
  db_list,     \* db_list[p]: the types with a builder
  db_map,      \* db_map[p]: the names with a handle
  is_open,     \* is_open[p][n]: the handle's flag
  connection,  \* connection[p][n]: what its _connection points to; a session
               \* stands for a CedarMySQLConnect whose channel was opened
  session      \* the sessions alive at the MySQL server

dbVars == <<running, db_list, db_map, is_open, connection, session>>

NoHandle == [n \in Name |-> FALSE]
NoConnection == [n \in Name |-> Uninitialized]

Init ==
  /\ running = {}
  /\ db_list = [p \in Process |-> {}]
  /\ db_map = [p \in Process |-> {}]
  /\ is_open = [p \in Process |-> NoHandle]
  /\ connection = [p \in Process |-> NoConnection]
  /\ session = {}

-----------------------------------------------------------------------------
(* Processes, and the MySQL server.                                        *)

Start(p) ==
  /\ p \notin running
  /\ running' = running \cup {p}
  /\ UNCHANGED <<db_list, db_map, is_open, connection, session>>

\* The process is gone, and with it its memory and its sockets.
End(p) ==
  /\ running' = running \ {p}
  /\ db_list' = [db_list EXCEPT ![p] = {}]
  /\ db_map' = [db_map EXCEPT ![p] = {}]
  /\ is_open' = [is_open EXCEPT ![p] = NoHandle]
  /\ connection' = [connection EXCEPT ![p] = NoConnection]
  /\ session' = session \ {connection[p][n] : n \in Name}

Exit(p) == p \in running /\ End(p)

\* The server drops a session: a restart, wait_timeout, a network failure.
Drop(s) ==
  /\ s \in session
  /\ session' = session \ {s}
  /\ UNCHANGED <<running, db_list, db_map, is_open, connection>>

-----------------------------------------------------------------------------
(* The registry of handles.                                                *)

Add_DB_Builder(p, t) ==
  /\ p \in running
  /\ t \notin db_list[p]
  /\ db_list' = [db_list EXCEPT ![p] = @ \cup {t}]
  /\ UNCHANGED <<running, db_map, is_open, connection, session>>

\* A slip to guard against: the handle is mapped before it could be built.
MapsUnbuilt(p, n) == TRUE

\* The lookup fails without a type, a builder for it, or the handle's keys.
Buildable(p, n) == TypeKey[n] \in db_list[p] /\ n \in Configured

Available(p, n) == n \in db_map[p] \/ Buildable(p, n)

\* CedarDB::DB returns a handle, the one built before if there is one.
DB(p, n) ==
  /\ p \in running
  /\ Available(p, n)
  /\ db_map' = [db_map EXCEPT ![p] = @ \cup {n}]
  /\ UNCHANGED <<running, db_list, is_open, connection, session>>

-----------------------------------------------------------------------------
(* The methods of a handle.                                                *)

Built(p, n) == p \in running /\ n \in db_map[p]

\* The server gives a session an identity that nobody holds.
Fresh ==
  {s \in Session \ session : \A p \in Process, n \in Name : connection[p][n] # s}

\* The handle is open on channel c from now on.
Opened(p, n, c) ==
  /\ is_open' = [is_open EXCEPT ![p][n] = TRUE]
  /\ connection' = [connection EXCEPT ![p][n] = c]

\* A slip: the flag is set before the connection is known to work.
OpenFlagFirst(p, n) ==
  /\ ~is_open[p][n]
  /\ Opened(p, n, Unconnected)
  /\ UNCHANGED session

\* open() throws: _connection is assigned before the connection is tried.
OpenFails(p, n) ==
  /\ ~is_open[p][n]
  /\ connection' = [connection EXCEPT ![p][n] = Unconnected]
  /\ UNCHANGED <<is_open, session>>

open(p, n) ==
  /\ Built(p, n)
  /\ \/ OpenFails(p, n)
     \/ /\ ~is_open[p][n]
        /\ \E c \in Fresh : Opened(p, n, c) /\ session' = session \cup {c}
  /\ UNCHANGED <<running, db_list, db_map>>

\* A slip: every statement opens the handle afresh.
AlwaysReopens(p, n) == Fresh

\* The channels a statement can run on: it opens a handle that is not open.
Channel(p, n) == IF is_open[p][n] THEN {connection[p][n]} ELSE Fresh

\* A statement can still reach the server.
Reaches(p, n) ==
  /\ Channel(p, n) # {}
  /\ is_open[p][n] => connection[p][n] \in session

\* A slip: a handle whose session is gone connects again by itself.
Reconnects(p, n, r) ==
  \/ r = "unreachable" /\ OpenFails(p, n)
  \/ \E c \in (IF Reaches(p, n) THEN Channel(p, n) ELSE Fresh) :
       /\ Opened(p, n, c)
       /\ \/ r \in {"ok", "refused"} /\ session' = session \cup {c}
          \/ r = "lost" /\ session' = session \ {c}

(***************************************************************************)
(* The part that run_query, insert and update share: open the handle if    *)
(* its flag says so, then send the statement.  The outcome r is            *)
(*   "unreachable"  open() threw, nothing was sent;                        *)
(*   "ok"           the server answered;                                   *)
(*   "refused"      the server answered with an error, the channel stays;  *)
(*   "lost"         the session is gone, now or since the last statement.  *)
(* All but "ok" throw.  None of them closes the handle.                    *)
(***************************************************************************)
Statement(p, n, r) ==
  \/ r = "unreachable" /\ OpenFails(p, n)
  \/ \E c \in Channel(p, n) :
       /\ Opened(p, n, c)
       /\ \/ r \in {"ok", "refused"} /\ Reaches(p, n) /\ session' = session \cup {c}
          \/ r = "lost" /\ session' = session \ {c}

Outcome == {"unreachable", "ok", "refused", "lost"}

\* If the session ends while the rows are fetched, mysql_store_result returns
\* a null result, which mysql_num_rows dereferences: the process dies.
run_query(p, n, r) ==
  /\ Built(p, n)
  /\ \/ Statement(p, n, r) /\ UNCHANGED <<running, db_list, db_map>>
     \/ r = "crash" /\ Reaches(p, n) /\ End(p)

\* insert and update first refuse an empty column list or where clause.
insert(p, n, r) ==
  /\ Built(p, n)
  /\ Statement(p, n, r)
  /\ UNCHANGED <<running, db_list, db_map>>

update(p, n, r) == insert(p, n, r)

\* del does not open the handle: on one that is not open it goes through a
\* pointer that is null, wild, or to an object without a channel.
del(p, n, r) ==
  /\ Built(p, n)
  /\ \/ is_open[p][n] /\ insert(p, n, r)
     \/ ~is_open[p][n] /\ r = "crash" /\ End(p)

\* The handles N are closed: each deletes its connection, hence its channel.
Closes(p, N) ==
  /\ connection' = [connection EXCEPT ![p] = [n \in Name |-> IF n \in N THEN Null ELSE @[n]]]
  /\ is_open' = [is_open EXCEPT ![p] = [n \in Name |-> n \notin N /\ @[n]]]
  /\ session' = session \ {connection[p][n] : n \in N}
  /\ UNCHANGED <<running, db_list, db_map>>

\* Deleting a pointer that was never set is undefined: it may hold zero.
close(p, n) ==
  /\ Built(p, n)
  /\ \/ Closes(p, {n})
     \/ connection[p][n] = Uninitialized /\ End(p)

\* CedarDB::Close, called as the module terminates.
Close(p) ==
  /\ p \in running
  /\ Closes(p, {n \in db_map[p] : is_open[p][n]})

-----------------------------------------------------------------------------
Caller(p) ==
  \/ Start(p)
  \/ Exit(p)
  \/ \E t \in Type : Add_DB_Builder(p, t)
  \/ \E n \in Name :
       \/ DB(p, n)
       \/ open(p, n)
       \/ \E r \in Outcome \cup {"crash"} : run_query(p, n, r) \/ del(p, n, r)
       \/ \E r \in Outcome : insert(p, n, r) \/ update(p, n, r)
       \/ close(p, n)
  \/ Close(p)

Next == (\E p \in Process : Caller(p)) \/ (\E s \in Session : Drop(s))

Spec == Init /\ [][Next]_dbVars

-----------------------------------------------------------------------------
(* Type correctness: values of the right kind; a process that is not       *)
(* running has no memory, and a name without a handle no flag or pointer.  *)
(* Every mapped name has a builder and a complete configuration, because   *)
(* CedarDB::DB (CedarDB.cc:75-86) maps a name only after its constructor   *)
(* has returned.                                                           *)
TypeOK ==
  /\ running \subseteq Process
  /\ db_list \in [Process -> SUBSET Type]
  /\ db_map \in [Process -> SUBSET Configured]
  /\ is_open \in [Process -> [Name -> BOOLEAN]]
  /\ connection \in [Process -> [Name -> Pointer \cup Session]]
  /\ session \subseteq Session
  /\ \A p \in Process \ running : db_list[p] = {} /\ db_map[p] = {}
  /\ \A p \in Process : \A n \in db_map[p] : TypeKey[n] \in db_list[p]
  /\ \A p \in Process : \A n \in Name \ db_map[p] :
       ~is_open[p][n] /\ connection[p][n] = Uninitialized

(* A handle's flag says whether its pointer leads to a channel, both ways: *)
(* an open handle never sends a statement through a null or wild pointer   *)
(* (CedarMySQLDB.cc:164,263,325), although open() may throw between the    *)
(* assignment and the flag (lines 135-138); and a handle that will open    *)
(* again never holds a channel that open() would overwrite and leak.       *)
FlagMatchesPointer ==
  \A p \in Process, n \in Name : is_open[p][n] <=> connection[p][n] \in Session

(* No two handles, of one process or of two, hold the same session, and    *)
(* no session is left at the server that no handle could still close: each *)
(* process costs the server at most one session for each database name,    *)
(* whatever the order of its calls and of the failures.                    *)
SessionsOwned ==
  /\ \A p, q \in Process : \A m, n \in Name :
       connection[p][n] \in Session /\ connection[p][n] = connection[q][m]
         => p = q /\ n = m
  /\ \A s \in session : \E p \in running : \E n \in db_map[p] : connection[p][n] = s

\* The inductive invariant.
IInv == TypeOK /\ FlagMatchesPointer /\ SessionsOwned

(* The link that the handle n of process p amounts to. *)
LinkOf(p, n) ==
  CASE n \notin db_map[p] -> "none"
    [] n \in db_map[p] /\ ~is_open[p][n] -> "down"
    [] n \in db_map[p] /\ is_open[p][n] /\ connection[p][n] \in session -> "up"
    [] n \in db_map[p] /\ is_open[p][n] /\ connection[p][n] \notin session -> "lost"

LinkState == [p \in Process |-> [n \in Name |-> LinkOf(p, n)]]

Link == INSTANCE DBLink WITH link <- LinkState

(* The handles keep the promise of DBLink: whatever run_query, insert,     *)
(* update, del, close and Close do, alone or together, a link that was     *)
(* lost comes up again only after close() or a new process, and no process *)
(* disturbs another one's link.                                            *)
ImplementsDBLink == Link!Spec

=============================================================================
