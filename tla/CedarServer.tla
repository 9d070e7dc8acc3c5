----------------------------- MODULE CedarServer -----------------------------
(***************************************************************************)
(* The requests that a server process serves one after the other           *)
(* (CedarRequestHandler.cc, CedarAuthenticate.cc, CedarReporter.cc, the    *)
(* response handlers), over the database handles of CedarDB.               *)
(*                                                                         *)
(* The BES, which is external, calls the handler of the request's action   *)
(* once for each container, then transmits the response, or the error      *)
(* screen if a call threw, and then calls CedarReporter::report.  Users    *)
(* log in and out through a web front end, which owns cedar_sessions.      *)
(***************************************************************************)
EXTENDS CedarDB, Naturals

CONSTANTS
  User,           \* a user name with its token, as the contexts give them
  Plain,          \* those that SQL reads as they stand, see SessionQuery
  NoUser,         \* the context USER_NAME is empty
  MaxContainers   \* bound on the containers of one request

Authenticator == "Authenticate"
Reporter == "Reporter"

\* get.das stands for get.dds and get.dods too, get.tab for get.flat and
\* get.info; show.version for every request without a container.
Protected == {"get.das", "get.tab"}
Get == Protected \cup {"get.stream"}
Action == Get \cup {"show.version"}

ASSUME ServerAssumption ==
  /\ {Authenticator, Reporter} \subseteq Name
  /\ "mysql" \in Type
  /\ NoUser \notin User
  /\ Plain \subseteq User
  /\ MaxContainers \in Nat \ {0}

VARIABLES
  conf,            \* the keys Cedar.Authenticate.Mode and Cedar.Tab.Buffered
  cedar_sessions,  \* the users that are logged in, a table of the database
  pc,              \* where process p is
  dhi,             \* dhi[p]: the action and the user of its request
  containers,      \* containers[p]: how many are still to be built
  error_info,      \* error_info[p]: a call threw
  output,          \* output[p]: something of the response was sent
  recorded,        \* recorded[p]: where the request was recorded
  logged_in        \* logged_in[p]: the user was logged in at some time since
                   \* the authentication for the current container began
                   \* (an observer, no part of the code)

requestVars == <<pc, dhi, containers, error_info, output, recorded, logged_in>>
outside == <<conf, cedar_sessions>>
servVars == <<dbVars, outside, requestVars>>

NoRequest == [action |-> "show.version", user |-> NoUser]

ServInit ==
  /\ Init
  /\ conf \in [mode : {"on", "off", "unset"}, buffered : BOOLEAN]
  /\ cedar_sessions \in SUBSET User
  /\ pc = [p \in Process |-> "new"]
  /\ dhi = [p \in Process |-> NoRequest]
  /\ containers = [p \in Process |-> 0]
  /\ error_info = [p \in Process |-> FALSE]
  /\ output = [p \in Process |-> FALSE]
  /\ recorded = [p \in Process |-> {}]
  /\ logged_in = [p \in Process |-> FALSE]

-----------------------------------------------------------------------------
Goes(p, l) == pc' = [pc EXCEPT ![p] = l]

\* The handler throws: the BES sets error_info and skips what is left.
Fails(p) ==
  /\ error_info' = [error_info EXCEPT ![p] = TRUE]
  /\ Goes(p, "transmit")

\* The process ended in this step, and its request with it.
Vanishes(p) ==
  /\ Goes(p, "new")
  /\ dhi' = [dhi EXCEPT ![p] = NoRequest]
  /\ containers' = [containers EXCEPT ![p] = 0]
  /\ error_info' = [error_info EXCEPT ![p] = FALSE]
  /\ output' = [output EXCEPT ![p] = FALSE]
  /\ recorded' = [recorded EXCEPT ![p] = {}]
  /\ logged_in' = [logged_in EXCEPT ![p] = FALSE]

\* CedarModule::initialize: the builder, then the reporter's handle.  If that
\* cannot be had the module is not loaded.
Initialize(p) ==
  /\ pc[p] = "new"
  /\ Add_DB_Builder(p, "mysql")
  /\ Goes(p, "loading")
  /\ UNCHANGED <<outside, dhi, containers, error_info, output, recorded, logged_in>>

MakeReporter(p) ==
  /\ pc[p] = "loading"
  /\ DB(p, Reporter)
  /\ Goes(p, "idle")
  /\ UNCHANGED <<outside, dhi, containers, error_info, output, recorded, logged_in>>

\* The handler's first statement: all but the stream's authenticate.
Begins(a) == IF a \in Protected THEN "build" ELSE "read"

Receive(p, a, u, n) ==
  /\ pc[p] = "idle"
  /\ a \in Get <=> n > 0
  /\ dhi' = [dhi EXCEPT ![p] = [action |-> a, user |-> u]]
  /\ containers' = [containers EXCEPT ![p] = n]
  /\ error_info' = [error_info EXCEPT ![p] = FALSE]
  /\ output' = [output EXCEPT ![p] = FALSE]
  /\ recorded' = [recorded EXCEPT ![p] = {}]
  /\ logged_in' = [logged_in EXCEPT ![p] = FALSE]
  /\ Goes(p, IF n > 0 THEN Begins(a) ELSE "transmit")
  /\ UNCHANGED <<outside, dbVars>>

-----------------------------------------------------------------------------
(* Authentication.                                                         *)

\* The mode is read first, then the handle is looked up, then the user name.
AuthenticateThrows(p) ==
  \/ /\ conf.mode = "unset" \/ (conf.mode = "on" /\ ~Available(p, Authenticator))
     /\ UNCHANGED dbVars
  \/ conf.mode = "on" /\ dhi[p].user = NoUser /\ DB(p, Authenticator)

\* A slip: the user name is not looked at.
AuthenticatesNobody(p) ==
  /\ pc[p] = "build"
  /\ \/ conf.mode = "off" /\ Goes(p, "read") /\ UNCHANGED dbVars
     \/ conf.mode = "on" /\ DB(p, Authenticator) /\ Goes(p, "query")
  /\ logged_in' = [logged_in EXCEPT ![p] = dhi[p].user \in cedar_sessions]
  /\ UNCHANGED <<outside, dhi, containers, error_info, output, recorded>>

Authenticate(p) ==
  /\ pc[p] = "build"
  /\ \/ conf.mode = "off" /\ Goes(p, "read") /\ UNCHANGED <<dbVars, error_info>>
     \/ AuthenticateThrows(p) /\ Fails(p)
     \/ /\ conf.mode = "on" /\ dhi[p].user # NoUser
        /\ DB(p, Authenticator) /\ Goes(p, "query")
        /\ UNCHANGED error_info
  /\ logged_in' = [logged_in EXCEPT ![p] = dhi[p].user \in cedar_sessions]
  /\ UNCHANGED <<outside, dhi, containers, output, recorded>>

\* The select on cedar_sessions: no row, or no answer, and the handler throws.
\* The name and the token become part of the statement's text as they are
\* (CedarAuthenticate.cc:179-188).  Of those that SQL reads as they stand the
\* answer tells whether cedar_sessions holds them; about any other text
\* nothing can be said of the answer.
HasRow(u, row) == u \in Plain => (row <=> u \in cedar_sessions)

SessionQuery(p) ==
  /\ pc[p] = "query"
  /\ \/ /\ run_query(p, Authenticator, "ok")
        /\ \E row \in BOOLEAN :
             /\ HasRow(dhi[p].user, row)
             /\ IF row THEN Goes(p, "read") /\ UNCHANGED error_info ELSE Fails(p)
        /\ UNCHANGED <<dhi, containers, output, recorded, logged_in>>
     \/ /\ \E r \in Outcome \ {"ok"} : run_query(p, Authenticator, r)
        /\ Fails(p)
        /\ UNCHANGED <<dhi, containers, output, recorded, logged_in>>
     \/ run_query(p, Authenticator, "crash") /\ Vanishes(p)
  /\ UNCHANGED outside

-----------------------------------------------------------------------------
(* Building and transmitting the response.                                 *)

\* The handler writes to the client as it reads: cedar_read_stream does, and
\* so do the text responses when their buffering is switched off.
WritesThrough(p) ==
  \/ dhi[p].action = "get.stream"
  \/ dhi[p].action = "get.tab" /\ ~conf.buffered

\* One container is read, or reading it throws, perhaps half way.  A handler
\* that writes as it reads may have nothing to send; a stream that was opened
\* ends well with nothing or only a part of the file sent, for a short file,
\* a last block that is not full, a read that is refused or a write whose
\* result is not looked at (cedar_read_stream.cc:61-73; CedarStream).
ReadOk(p, next) ==
  /\ containers' = [containers EXCEPT ![p] = @ - 1]
  /\ \E sent \in BOOLEAN :
       /\ sent => WritesThrough(p)
       /\ output' = [output EXCEPT ![p] = @ \/ sent]
  /\ Goes(p, IF containers[p] = 1 THEN "transmit" ELSE next)
  /\ UNCHANGED error_info

ReadFails(p) ==
  /\ \E partly \in BOOLEAN :
       /\ partly => WritesThrough(p) /\ dhi[p].action # "get.stream"
       /\ output' = [output EXCEPT ![p] = @ \/ partly]
  /\ Fails(p)
  /\ UNCHANGED containers

\* A slip: only the first container of a request is authenticated.
AuthenticatesOnce(p) ==
  /\ pc[p] = "read"
  /\ ReadOk(p, "read") \/ ReadFails(p)
  /\ UNCHANGED <<outside, dbVars, dhi, recorded>>
  /\ logged_in' = [logged_in EXCEPT ![p] = FALSE]

Read(p) ==
  /\ pc[p] = "read"
  /\ ReadOk(p, Begins(dhi[p].action)) \/ ReadFails(p)
  /\ UNCHANGED <<outside, dbVars, dhi, recorded>>
  /\ logged_in' = [logged_in EXCEPT ![p] = FALSE]

\* A slip: the response object is sent whatever happened.
TransmitsAnyway(p) ==
  /\ pc[p] = "transmit"
  /\ output' = [output EXCEPT ![p] = @ \/ dhi[p].action \in Protected]
  /\ Goes(p, "report")
  /\ UNCHANGED <<outside, dbVars, dhi, containers, error_info, recorded, logged_in>>

\* The response, or the error screen in its place; a stream has been sent.
Transmit(p) ==
  /\ pc[p] = "transmit"
  /\ output' = [output EXCEPT ![p] =
       @ \/ (dhi[p].action \in Protected /\ ~error_info[p])]
  /\ Goes(p, "report")
  /\ UNCHANGED <<outside, dbVars, dhi, containers, error_info, recorded, logged_in>>

-----------------------------------------------------------------------------
(* The reporter.                                                           *)

Reportable(p) ==
  /\ ~error_info[p]
  /\ dhi[p].action \in Get
  /\ dhi[p].user # NoUser

\* Where a report ends up when insert ends with r.  If the session is lost
\* the row may be in the table although insert throws.
Lands(p, r) ==
  CASE r = "ok" -> {{"table"}}
    [] r \in {"unreachable", "refused"} -> {{"log"}}
    [] r = "lost" -> {{"log"}} \cup IF Reaches(p, Reporter) THEN {{"table", "log"}} ELSE {}

\* A slip: the exception of insert is not caught.
LosesReport(p) ==
  /\ pc[p] = "report"
  /\ Reportable(p)
  /\ \E r \in Outcome :
       /\ insert(p, Reporter, r)
       /\ recorded' = [recorded EXCEPT ![p] = IF r = "ok" THEN {"table"} ELSE {}]
  /\ Goes(p, "idle")
  /\ UNCHANGED <<outside, dhi, containers, error_info, output, logged_in>>

Report(p) ==
  /\ pc[p] = "report"
  /\ \/ ~Reportable(p) /\ UNCHANGED <<dbVars, recorded>>
     \/ /\ Reportable(p)
        /\ \E r \in Outcome :
             /\ insert(p, Reporter, r)
             /\ \E l \in Lands(p, r) : recorded' = [recorded EXCEPT ![p] = l]
  /\ Goes(p, "idle")
  /\ UNCHANGED <<outside, dhi, containers, error_info, output, logged_in>>

\* CedarModule::terminate, between two requests.
Terminate(p) ==
  /\ pc[p] = "idle"
  /\ Close(p)
  /\ Goes(p, "terminated")
  /\ UNCHANGED <<outside, dhi, containers, error_info, output, recorded, logged_in>>

-----------------------------------------------------------------------------
(* The environment.                                                        *)

ProcessStarts(p) == Start(p) /\ UNCHANGED <<outside, requestVars>>

ProcessExits(p) == Exit(p) /\ Vanishes(p) /\ UNCHANGED outside

SessionDrops == (\E s \in Session : Drop(s)) /\ UNCHANGED <<outside, requestVars>>

\* The web front end inserts or deletes the row of a user.
Login(u) ==
  /\ u \notin cedar_sessions
  /\ cedar_sessions' = cedar_sessions \cup {u}
  /\ logged_in' = [p \in Process |->
       logged_in[p] \/ (pc[p] = "query" /\ dhi[p].user = u)]
  /\ UNCHANGED <<dbVars, conf, pc, dhi, containers, error_info, output, recorded>>

Logout(u) ==
  /\ u \in cedar_sessions
  /\ cedar_sessions' = cedar_sessions \ {u}
  /\ UNCHANGED <<dbVars, conf, requestVars>>

ServProcess(p) ==
  \/ Initialize(p)
  \/ MakeReporter(p)
  \/ \E a \in Action, u \in User \cup {NoUser}, n \in 0..MaxContainers : Receive(p, a, u, n)
  \/ Authenticate(p)
  \/ SessionQuery(p)
  \/ Read(p)
  \/ Transmit(p)
  \/ Report(p)
  \/ Terminate(p)
  \/ ProcessStarts(p)
  \/ ProcessExits(p)

ServNext ==
  \/ \E p \in Process : ServProcess(p)
  \/ SessionDrops
  \/ \E u \in User : Login(u) \/ Logout(u)

ServSpec == ServInit /\ [][ServNext]_servVars

-----------------------------------------------------------------------------
\* What a process knows at each point.
Knows(p) ==
  /\ pc[p] \in {"new", "loading"} => dhi[p] = NoRequest
  /\ pc[p] \notin {"idle", "terminated"} => recorded[p] = {}
  /\ pc[p] \in {"build", "query", "read"} => containers[p] > 0 /\ ~error_info[p]
  /\ pc[p] \in {"build", "query"} => dhi[p].action \in Protected
  /\ pc[p] = "query" =>
       conf.mode = "on" /\ dhi[p].user # NoUser /\ Authenticator \in db_map[p]
  /\ pc[p] \in {"transmit", "report"} /\ ~error_info[p] =>
       /\ containers[p] = 0
       /\ pc[p] = "report" /\ dhi[p].action \in Protected => output[p]
  /\ pc[p] \notin {"new", "loading"} => Reporter \in db_map[p]
  /\ p \notin running => pc[p] = "new"

(* Type correctness, with what a request knows at each point: cedar_       *)
(* sessions is asked only about a user that is named, through a handle     *)
(* that exists (CedarAuthenticate.cc:142-190), and the pointer _db that    *)
(* the reporter keeps always leads to the handle of its name.              *)
ServTypeOK ==
  /\ TypeOK
  /\ conf \in [mode : {"on", "off", "unset"}, buffered : BOOLEAN]
  /\ cedar_sessions \subseteq User
  /\ pc \in [Process -> {"new", "loading", "idle", "build", "query", "read",
                         "transmit", "report", "terminated"}]
  /\ dhi \in [Process -> [action : Action, user : User \cup {NoUser}]]
  /\ containers \in [Process -> 0..MaxContainers]
  /\ error_info \in [Process -> BOOLEAN]
  /\ output \in [Process -> BOOLEAN]
  /\ recorded \in [Process -> SUBSET {"table", "log"}]
  /\ logged_in \in [Process -> BOOLEAN]
  /\ \A p \in Process : Knows(p)

(* Once the reporter has seen a request, it is recorded, in tbl_report or  *)
(* in the log or in both, if and only if it asked for data for a named     *)
(* user, each of its containers was read without an error and, for         *)
(* whatever is not a stream, the response was sent: no failure of the      *)
(* database loses a report, and no request that failed, at any container   *)
(* and after any amount of output, is counted.  A stream is counted        *)
(* whatever was sent of it, nothing included: what a successful call may   *)
(* leave out is in CedarStream.                                            *)
RecordedIffServed ==
  \A p \in Process :
    pc[p] \in {"idle", "terminated"} =>
      (recorded[p] # {} <=> /\ dhi[p].action \in Get /\ dhi[p].user # NoUser
                            /\ containers[p] = 0 /\ ~error_info[p]
                            /\ dhi[p].action \in Protected => output[p])

(* A response that is collected first is sent whole or not at all: when    *)
(* the session of the user ends between two containers, or the second      *)
(* file cannot be read, the client is not left with part of an answer.     *)
AllOrNothing ==
  \A p \in Process :
    output[p] /\ ~WritesThrough(p) => containers[p] = 0 /\ ~error_info[p]

(* The inductive invariant of the requests. *)
ServIInv == IInv /\ ServTypeOK /\ RecordedIffServed /\ AllOrNothing

(* With authentication on, a container of a protected request is read only *)
(* if its user was logged in at some moment since the handler was called   *)
(* for this very container: a log-out between two containers counts.  This *)
(* is said of names and tokens that SQL reads as they stand; that the      *)
(* contexts hold no others, CedarAuthenticate.cc takes for granted.        *)
ProtectedNeedsSession ==
  [][\A p \in Process :
       /\ conf.mode = "on" /\ dhi[p].action \in Protected /\ dhi[p].user \in Plain
       /\ pc[p] = "read" /\ containers'[p] = containers[p] - 1 /\ p \in running'
       => logged_in[p]]_servVars

(* A process whose Authenticate session was lost never lets a protected    *)
(* request through again, whoever is logged in: each one throws on the     *)
(* dead channel, which nothing but the end of the module closes.           *)
LossDenies ==
  [][\A p \in Process :
       /\ LinkOf(p, Authenticator) = "lost" /\ pc[p] # "read" /\ conf.mode = "on"
       /\ p \in running' /\ pc'[p] # "terminated"
       => /\ LinkOf(p, Authenticator)' = "lost"
          /\ dhi'[p].action \in Protected => pc'[p] # "read"]_servVars

(* A process whose Reporter session was lost reports to the log for as     *)
(* long as it serves: tbl_report silently misses its later requests.       *)
LossDivertsReports ==
  [][\A p \in Process :
       LinkOf(p, Reporter) = "lost" /\ p \in running' /\ pc'[p] # "terminated" =>
         /\ LinkOf(p, Reporter)' = "lost"
         /\ "table" \in recorded'[p] => "table" \in recorded[p]]_servVars

(* What the comment in CedarReporter.cc:53-54 says: a request is recorded  *)
(* in the database or in the log, "Not both!".                             *)
NotBoth == \A p \in Process : recorded[p] # {"table", "log"}

=============================================================================
