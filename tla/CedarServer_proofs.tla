------------------------- MODULE CedarServer_proofs --------------------------
(***************************************************************************)
(* The theorems about CedarServer.  As in CedarCatalog_proofs, every step  *)
(* of a request is a step of the database handles or none (ServNextIsDB),  *)
(* so the theorems of CedarDB hold here too.                               *)
(***************************************************************************)
EXTENDS CedarServer, CedarDB_proofs

-----------------------------------------------------------------------------
(* CedarServer calls nothing but the public methods of CedarDB.            *)

LEMMA QueryCalls ==
  ASSUME NEW p \in Process, NEW r \in Outcome \cup {"crash"}, run_query(p, Authenticator, r)
  PROVE  Caller(p)
BY ServerAssumption DEF Caller

LEMMA InsertCalls ==
  ASSUME NEW p \in Process, NEW r \in Outcome, insert(p, Reporter, r)
  PROVE  Caller(p)
BY ServerAssumption DEF Caller

LEMMA ServNextIsDB == ServNext => [Next]_dbVars
<1> SUFFICES ASSUME ServNext
             PROVE  [Next]_dbVars
  OBVIOUS
<1>1. ASSUME NEW p \in Process, ServProcess(p)
      PROVE  Caller(p) \/ UNCHANGED dbVars
  <2>1. CASE Initialize(p) \/ MakeReporter(p)
    BY <2>1, ServerAssumption DEF Initialize, MakeReporter, Caller
  <2>2. CASE \E a \in Action, u \in User \cup {NoUser}, n \in 0..MaxContainers : Receive(p, a, u, n)
    BY <2>2 DEF Receive
  <2>3. CASE Authenticate(p)
    BY <2>3, ServerAssumption DEF Authenticate, AuthenticateThrows, Caller
  <2>4. CASE SessionQuery(p)
    BY <2>4, QueryCalls DEF SessionQuery, Outcome
  <2>5. CASE Read(p) \/ Transmit(p)
    BY <2>5 DEF Read, Transmit
  <2>6. CASE Report(p)
    BY <2>6, InsertCalls DEF Report
  <2>7. CASE Terminate(p)
    BY <2>7 DEF Terminate, Caller
  <2>8. CASE ProcessStarts(p) \/ ProcessExits(p)
    BY <2>8 DEF ProcessStarts, ProcessExits, Caller
  <2> QED BY <1>1, <2>1, <2>2, <2>3, <2>4, <2>5, <2>6, <2>7, <2>8 DEF ServProcess
<1>2. CASE SessionDrops
  BY <1>2 DEF SessionDrops, Next
<1>3. CASE \E u \in User : Login(u) \/ Logout(u)
  BY <1>3 DEF Login, Logout
<1> QED BY <1>1, <1>2, <1>3 DEF ServNext, Next

LEMMA ServIsDB == ServSpec => Spec
<1>1. ServInit => Init
  BY DEF ServInit
<1>2. [ServNext]_servVars => [Next]_dbVars
  BY ServNextIsDB DEF servVars
<1> QED BY <1>1, <1>2, PTL DEF ServSpec, Spec

(* Whatever requests are served, the Authenticate and Reporter handles     *)
(* keep the promise of DBLink, and every session at the server has an      *)
(* owner: a process costs it at most one for each of its handles.          *)
THEOREM ServerLinks == ServSpec => ImplementsDBLink /\ []SessionsOwned
BY ServIsDB, HandlesImplementLinks, NoSessionLeaks, PTL

-----------------------------------------------------------------------------
(* The inductive invariant.                                                *)

LEMMA ServInitIInv == ServInit => ServIInv
<1> SUFFICES ASSUME ServInit
             PROVE  ServIInv
  OBVIOUS
<1> USE DEF ServInit
<1>1. IInv
  BY InitIInv
<1>2. ServTypeOK
  BY <1>1, ServerAssumption DEF ServTypeOK, Knows, NoRequest, Action, IInv, Init
<1>3. RecordedIffServed /\ AllOrNothing
  BY DEF RecordedIffServed, AllOrNothing
<1> QED BY <1>1, <1>2, <1>3 DEF ServIInv

\* The handles of a process that stays alive stay where they are.
Keeps(p) ==
  /\ running' = running
  /\ \A q \in Process : db_map[q] \subseteq db_map'[q]

\* A process that ends takes nobody else along.
Leaves(p) ==
  /\ running' = running \ {p}
  /\ \A q \in Process : q # p => db_map'[q] = db_map[q]

LEMMA StatementKeeps ==
  ASSUME NEW p \in Process, NEW n \in Name, NEW r \in Outcome,
         run_query(p, n, r) \/ insert(p, n, r)
  PROVE  p \in running /\ Keeps(p)
BY DEF run_query, insert, Built, Keeps, Outcome

LEMMA EndLeaves ==
  ASSUME IInv, NEW p \in Process, End(p)
  PROVE  Leaves(p)
BY DEF End, Leaves, IInv, TypeOK

LEMMA LookupKeeps ==
  ASSUME IInv, NEW p \in Process, NEW n \in Name, DB(p, n)
  PROVE  p \in running /\ Keeps(p) /\ n \in db_map'[p]
BY DEF DB, Keeps, IInv, TypeOK

\* A step of process p that leaves the others' requests alone.
Serves(p) ==
  \A q \in Process : q # p =>
    /\ pc'[q] = pc[q] /\ dhi'[q] = dhi[q] /\ containers'[q] = containers[q]
    /\ error_info'[q] = error_info[q] /\ output'[q] = output[q]
    /\ recorded'[q] = recorded[q]

\* What the invariant says of one process.
Good(p) ==
  /\ Knows(p)
  /\ pc[p] \in {"idle", "terminated"} =>
       (recorded[p] # {} <=> /\ dhi[p].action \in Get /\ dhi[p].user # NoUser
                             /\ containers[p] = 0 /\ ~error_info[p]
                             /\ dhi[p].action \in Protected => output[p])
  /\ output[p] /\ ~WritesThrough(p) => containers[p] = 0 /\ ~error_info[p]

ServTypes ==
  /\ conf \in [mode : {"on", "off", "unset"}, buffered : BOOLEAN]
  /\ cedar_sessions \subseteq User
  /\ pc \in [Process -> {"new", "loading", "idle", "build", "query", "read",
                         "transmit", "report", "terminated"}]
  /\ dhi \in [Process -> [action : Action, user : User \cup {NoUser}]]
  /\ containers \in [Process -> 0..MaxContainers]
  /\ error_info \in [Process -> BOOLEAN]
  /\ output \in [Process -> BOOLEAN]
  /\ recorded \in [Process -> SUBSET {"table", "log"}]
  /\ logged_in \in [Process -> BOOLEAN]

LEMMA IInvIsGood == ServIInv <=> IInv /\ ServTypes /\ \A p \in Process : Good(p)
BY DEF ServIInv, IInv, ServTypeOK, ServTypes, RecordedIffServed, AllOrNothing, Good

\* A step of one process need only be good for that process.
LEMMA IInvByProcess ==
  ASSUME ServIInv, IInv', NEW p \in Process, Keeps(p) \/ Leaves(p), Serves(p),
         UNCHANGED conf, ServTypes', Good(p)'
  PROVE  ServIInv'
<1>1. ASSUME NEW q \in Process, q # p
      PROVE  Good(q)'
  <2>1. Good(q)
    BY IInvIsGood
  <2>2. /\ pc'[q] = pc[q] /\ dhi'[q] = dhi[q] /\ containers'[q] = containers[q]
        /\ error_info'[q] = error_info[q] /\ output'[q] = output[q]
        /\ recorded'[q] = recorded[q]
    BY <1>1 DEF Serves
  <2>3. (q \in running' <=> q \in running) /\ db_map[q] \subseteq db_map'[q]
    BY <1>1 DEF Keeps, Leaves
  <2> QED BY <2>1, <2>2, <2>3 DEF Good, Knows, WritesThrough
<1>2. ServIInv' <=> IInv' /\ ServTypes' /\ \A q \in Process : Good(q)'
  BY DEF ServIInv, IInv, ServTypeOK, ServTypes, RecordedIffServed, AllOrNothing, Good
<1> QED BY <1>1, <1>2

LEMMA VanishIInv ==
  ASSUME ServIInv, IInv', NEW p \in Process, End(p), Vanishes(p), UNCHANGED <<conf, cedar_sessions>>
  PROVE  ServIInv'
<1> USE IInvIsGood DEF Vanishes, Goes, ServTypes, NoRequest, Action
<1>1. Leaves(p)
  BY EndLeaves
<1>2. ServTypes'
  BY ServerAssumption
<1>3. Serves(p)
  BY DEF Serves
<1>4. Good(p)'
  BY DEF Good, Knows
<1> QED BY <1>1, <1>2, <1>3, <1>4, IInvByProcess

LEMMA LoadingIInv ==
  ASSUME ServIInv, IInv', NEW p \in Process, Initialize(p) \/ MakeReporter(p),
         UNCHANGED <<conf, cedar_sessions>>
  PROVE  ServIInv'
<1>0. MakeReporter(p) => Reporter \in db_map'[p]
  BY IInvIsGood, LookupKeeps, ServerAssumption DEF MakeReporter
<1>1. p \in running /\ Keeps(p)
  BY IInvIsGood, LookupKeeps, ServerAssumption DEF Initialize, MakeReporter, Add_DB_Builder, Keeps
<1>2. ServTypes'
  BY IInvIsGood DEF Initialize, MakeReporter, Goes, ServTypes
<1>3. Serves(p)
  BY IInvIsGood DEF Initialize, MakeReporter, Goes, Serves, ServTypes
<1>4. /\ dhi[p] = NoRequest /\ recorded[p] = {}
      /\ UNCHANGED <<conf, dhi, containers, error_info, output, recorded>>
      /\ pc'[p] = "loading" \/ (pc'[p] = "idle" /\ Reporter \in db_map'[p])
  BY <1>0, IInvIsGood DEF Initialize, MakeReporter, Goes, Good, Knows, ServTypes
<1>5. Good(p)'
  BY <1>1, <1>4, IInvIsGood DEF Good, Knows, Keeps, WritesThrough, NoRequest, Get, Protected
<1> QED BY <1>1, <1>2, <1>3, <1>5, IInvByProcess

LEMMA ReceiveIInv ==
  ASSUME ServIInv, IInv', NEW p \in Process,
         NEW a \in Action, NEW u \in User \cup {NoUser}, NEW n \in 0..MaxContainers,
         Receive(p, a, u, n), UNCHANGED <<conf, cedar_sessions>>
  PROVE  ServIInv'
<1>1. Keeps(p) /\ n \in Nat
  BY ServerAssumption DEF Receive, dbVars, Keeps
<1>2. ServTypes'
  BY IInvIsGood DEF Receive, Begins, Goes, ServTypes
<1>3. Serves(p)
  BY IInvIsGood DEF Receive, Goes, Serves, ServTypes
<1>4. /\ dhi'[p] = [action |-> a, user |-> u]
      /\ containers'[p] = n /\ ~error_info'[p] /\ ~output'[p]
      /\ pc'[p] = IF n > 0 THEN Begins(a) ELSE "transmit"
      /\ running' = running /\ db_map' = db_map /\ pc[p] = "idle" /\ (a \in Get <=> n > 0)
  BY IInvIsGood DEF Receive, Goes, ServTypes, dbVars
<1>5. pc'[p] \in {"build", "read", "transmit"} /\ (pc'[p] = "build" => a \in Protected)
      /\ (pc'[p] # "transmit" => n > 0)
  BY <1>4 DEF Begins
<1>6. recorded'[p] = {} /\ (pc'[p] = "transmit" => n = 0 /\ a \notin Get)
  BY <1>1, <1>4, IInvIsGood DEF Receive, Begins, ServTypes
<1>7. Good(p)'
  BY <1>4, <1>5, <1>6, IInvIsGood DEF Good, Knows, Get, Protected
<1> QED BY <1>1, <1>2, <1>3, <1>7, IInvByProcess

LEMMA AuthenticateIInv ==
  ASSUME ServIInv, IInv', NEW p \in Process, Authenticate(p), UNCHANGED <<conf, cedar_sessions>>
  PROVE  ServIInv'
<1>0. DB(p, Authenticator) => Authenticator \in db_map'[p]
  BY IInvIsGood, LookupKeeps, ServerAssumption
<1>1. Keeps(p)
  BY IInvIsGood, LookupKeeps, ServerAssumption
     DEF Authenticate, AuthenticateThrows, dbVars, Keeps
<1>2. ServTypes'
  <2> USE IInvIsGood DEF Authenticate, Fails, Goes, ServTypes
  <2> DEFINE b == dhi[p].user \in cedar_sessions
  <2>4. b \in BOOLEAN /\ logged_in' = [logged_in EXCEPT ![p] = b]
    OBVIOUS
  <2> HIDE DEF b
  <2>5. logged_in' \in [Process -> BOOLEAN]
    BY <2>4
  <2>1. error_info' \in [Process -> BOOLEAN]
    OBVIOUS
  <2>2. pc' \in [Process -> {"new", "loading", "idle", "build", "query", "read",
                            "transmit", "report", "terminated"}]
    OBVIOUS
  <2>3. UNCHANGED <<conf, cedar_sessions, dhi, containers, output, recorded>>
    OBVIOUS
  <2> QED BY <2>5, <2>1, <2>2, <2>3
<1>3. Serves(p)
  BY IInvIsGood DEF Authenticate, Fails, Goes, Serves, ServTypes
<1>4. /\ pc[p] = "build" /\ UNCHANGED <<conf, dhi, containers, output, recorded>>
      /\ \/ pc'[p] = "read" /\ error_info'[p] = error_info[p]
         \/ pc'[p] = "transmit" /\ error_info'[p]
         \/ /\ pc'[p] = "query" /\ error_info'[p] = error_info[p]
            /\ conf.mode = "on" /\ dhi[p].user # NoUser /\ Authenticator \in db_map'[p]
  BY <1>0, IInvIsGood DEF Authenticate, Fails, Goes, ServTypes
<1>5. ~output[p] \/ WritesThrough(p)
  BY <1>4, IInvIsGood DEF Good, Knows
<1>6. Good(p)'
  BY <1>1, <1>4, <1>5, IInvIsGood DEF Good, Knows, Keeps, WritesThrough
<1> QED BY <1>1, <1>2, <1>3, <1>6, IInvByProcess

LEMMA SessionQueryIInv ==
  ASSUME ServIInv, IInv', NEW p \in Process, SessionQuery(p), UNCHANGED <<conf, cedar_sessions>>
  PROVE  ServIInv'
<1>1. CASE run_query(p, Authenticator, "crash") /\ Vanishes(p)
  BY <1>1, VanishIInv DEF run_query, Statement, ServIInv
<1>2. CASE ~(run_query(p, Authenticator, "crash") /\ Vanishes(p))
  <2>1. Keeps(p)
    BY <1>2, StatementKeeps, ServerAssumption DEF SessionQuery, Outcome
  <2>2. ServTypes'
    BY <1>2, IInvIsGood DEF SessionQuery, Fails, Goes, ServTypes
  <2>3. Serves(p)
    BY <1>2, IInvIsGood DEF SessionQuery, Fails, Goes, Serves, ServTypes
  <2>4. Good(p)'
    BY <1>2, <2>1, IInvIsGood
       DEF SessionQuery, Fails, Goes, Good, Knows, Keeps, ServTypes, WritesThrough
  <2> QED BY <2>1, <2>2, <2>3, <2>4, IInvByProcess
<1> QED BY <1>1, <1>2

LEMMA ReadIInv ==
  ASSUME ServIInv, IInv', NEW p \in Process, Read(p), UNCHANGED <<conf, cedar_sessions>>
  PROVE  ServIInv'
<1>1. Keeps(p)
  BY DEF Read, dbVars, Keeps
<1>2. containers[p] \in Nat /\ containers[p] > 0 /\ containers[p] <= MaxContainers
      /\ MaxContainers \in Nat /\ ~error_info[p]
  BY IInvIsGood, ServerAssumption DEF Read, ServTypes, Good, Knows
<1>3. CASE ReadOk(p, Begins(dhi[p].action))
  <2>1. ServTypes'
    BY <1>2, <1>3, IInvIsGood DEF Read, ReadOk, Begins, Goes, ServTypes
  <2>2. Serves(p)
    BY <1>3, IInvIsGood DEF Read, ReadOk, Goes, Serves, ServTypes
  <2>3. /\ containers'[p] = containers[p] - 1
        /\ output'[p] => output[p] \/ WritesThrough(p)
        /\ pc'[p] = IF containers[p] = 1 THEN "transmit" ELSE Begins(dhi[p].action)
        /\ UNCHANGED <<dbVars, dhi, error_info, recorded>>
    BY <1>3, IInvIsGood DEF Read, ReadOk, Goes, ServTypes
  <2>4. /\ pc'[p] \in {"build", "read", "transmit"}
        /\ pc'[p] = "build" => dhi[p].action \in Protected
        /\ pc'[p] # "transmit" => containers'[p] > 0
    BY <1>2, <2>3 DEF Begins
  <2>5. /\ ~output[p] \/ WritesThrough(p)
        /\ recorded[p] = {} /\ Reporter \in db_map[p] /\ p \in running
        /\ pc'[p] = "transmit" => containers'[p] = 0
    BY <1>2, <2>3, <2>4, IInvIsGood DEF Read, Good, Knows, WritesThrough, Begins
  <2>6. WritesThrough(p)' <=> WritesThrough(p)
    BY <2>3 DEF WritesThrough
  <2>7. output' \in [Process -> BOOLEAN]
    BY <2>1 DEF ServTypes
  <2>8. Good(p)'
    BY <1>2, <2>3, <2>4, <2>5, <2>6, <2>7 DEF Good, Knows, dbVars
  <2> QED BY <1>1, <2>1, <2>2, <2>8, IInvByProcess
<1>4. CASE ReadFails(p)
  <2>1. ServTypes'
    BY <1>4, IInvIsGood DEF Read, ReadFails, Fails, Goes, ServTypes
  <2>2. Serves(p)
    BY <1>4, IInvIsGood DEF Read, ReadFails, Fails, Goes, Serves, ServTypes
  <2>3. output'[p] => WritesThrough(p)
    BY <1>2, <1>4, IInvIsGood DEF ReadFails, Good, ServTypes
  <2>4. Good(p)'
    BY <1>4, <2>3, IInvIsGood
       DEF Read, ReadFails, Fails, Goes, Good, Knows, WritesThrough, ServTypes, dbVars
  <2> QED BY <1>1, <2>1, <2>2, <2>4, IInvByProcess
<1> QED BY <1>3, <1>4 DEF Read

LEMMA TransmitIInv ==
  ASSUME ServIInv, IInv', NEW p \in Process, Transmit(p), UNCHANGED <<conf, cedar_sessions>>
  PROVE  ServIInv'
<1>1. Keeps(p)
  BY DEF Transmit, dbVars, Keeps
<1>2. ServTypes'
  BY IInvIsGood DEF Transmit, Goes, ServTypes
<1>3. Serves(p)
  BY IInvIsGood DEF Transmit, Goes, Serves, ServTypes
<1>4. /\ pc[p] = "transmit" /\ pc'[p] = "report"
      /\ UNCHANGED <<dbVars, conf, dhi, containers, error_info, recorded>>
      /\ output'[p] <=> output[p] \/ (dhi[p].action \in Protected /\ ~error_info[p])
  BY IInvIsGood DEF Transmit, Goes, ServTypes
<1>5. WritesThrough(p)' <=> WritesThrough(p)
  BY <1>4 DEF WritesThrough
<1>6. Knows(p)'
  BY <1>4, IInvIsGood DEF Good, Knows, Get, dbVars
<1>7. output'[p] /\ ~WritesThrough(p) => containers[p] = 0 /\ ~error_info[p]
  BY <1>4, IInvIsGood DEF Good, Knows
<1>8. Good(p)'
  BY <1>4, <1>5, <1>6, <1>7 DEF Good
<1> QED BY <1>1, <1>2, <1>3, <1>8, IInvByProcess

LEMMA ReportIInv ==
  ASSUME ServIInv, IInv', NEW p \in Process, Report(p), UNCHANGED <<conf, cedar_sessions>>
  PROVE  ServIInv'
<1>1. Keeps(p)
  BY StatementKeeps, ServerAssumption DEF Report, dbVars, Keeps
<1>2. ServTypes'
  BY IInvIsGood DEF Report, Lands, Outcome, Goes, ServTypes
<1>3. Serves(p)
  BY IInvIsGood DEF Report, Goes, Serves, ServTypes
<1>4. recorded'[p] # {} <=> Reportable(p)
  <2>1. CASE ~Reportable(p)
    BY <2>1, IInvIsGood DEF Report, Good, Knows
  <2>2. CASE Reportable(p)
    <3>1. PICK r \in Outcome, l \in {{"table"}, {"log"}, {"table", "log"}} :
            recorded' = [recorded EXCEPT ![p] = l]
      BY <2>2 DEF Report, Lands, Outcome
    <3> QED BY <2>2, <3>1, IInvIsGood DEF ServTypes
  <2> QED BY <2>1, <2>2
<1>5. Good(p)'
  BY <1>1, <1>4, IInvIsGood
     DEF Report, Reportable, Goes, Good, Knows, Keeps, WritesThrough, ServTypes
<1> QED BY <1>1, <1>2, <1>3, <1>5, IInvByProcess

LEMMA TerminateIInv ==
  ASSUME ServIInv, IInv', NEW p \in Process, Terminate(p) \/ ProcessStarts(p),
         UNCHANGED <<conf, cedar_sessions>>
  PROVE  ServIInv'
<1>1. UNCHANGED <<db_map, dhi, containers, error_info, output, recorded, logged_in>>
  BY DEF Terminate, Close, Closes, ProcessStarts, Start, requestVars
<1>2. ServTypes'
  BY <1>1, IInvIsGood DEF Terminate, ProcessStarts, requestVars, Goes, ServTypes
<1>3. ASSUME NEW q \in Process
      PROVE  Good(q)'
  BY <1>1, IInvIsGood
     DEF Terminate, ProcessStarts, requestVars, Goes, ServTypes, Good, Knows, WritesThrough,
         Close, Closes, Start
<1> QED BY <1>2, <1>3 DEF ServIInv, IInv, ServTypeOK, ServTypes, RecordedIffServed, AllOrNothing, Good

LEMMA ServEnvironmentIInv ==
  ASSUME ServIInv, IInv', UNCHANGED <<running, db_map, conf>>,
         UNCHANGED <<pc, dhi, containers, error_info, output, recorded>>,
         cedar_sessions' \subseteq User, logged_in' \in [Process -> BOOLEAN]
  PROVE  ServIInv'
<1>1. ServTypes'
  BY IInvIsGood DEF ServTypes
<1>2. ASSUME NEW q \in Process
      PROVE  Good(q)'
  BY IInvIsGood DEF Good, Knows, WritesThrough
<1> QED BY <1>1, <1>2 DEF ServIInv, IInv, ServTypeOK, ServTypes, RecordedIffServed, AllOrNothing, Good

LEMMA ServNextIInv == ServIInv /\ [ServNext]_servVars => ServIInv'
<1> SUFFICES ASSUME ServIInv, [ServNext]_servVars
             PROVE  ServIInv'
  OBVIOUS
<1>1. IInv'
  BY ServNextIsDB, NextIInv DEF ServIInv, servVars
<1>2. cedar_sessions \subseteq User /\ logged_in \in [Process -> BOOLEAN]
      /\ pc \in [Process -> {"new", "loading", "idle", "build", "query", "read",
                             "transmit", "report", "terminated"}]
  BY DEF ServIInv, ServTypeOK
<1>3. ASSUME NEW p \in Process, ServProcess(p)
      PROVE  ServIInv'
  <2>0. UNCHANGED <<conf, cedar_sessions>>
    BY <1>3 DEF ServProcess, Initialize, MakeReporter, Receive, Authenticate, SessionQuery, Read,
                Transmit, Report, Terminate, ProcessStarts, ProcessExits, outside
  <2>1. CASE Initialize(p) \/ MakeReporter(p)
    BY <1>1, <2>0, <2>1, LoadingIInv
  <2>2. CASE \E a \in Action, u \in User \cup {NoUser}, n \in 0..MaxContainers : Receive(p, a, u, n)
    BY <1>1, <2>0, <2>2, ReceiveIInv
  <2>3. CASE Authenticate(p)
    BY <1>1, <2>0, <2>3, AuthenticateIInv
  <2>4. CASE SessionQuery(p)
    BY <1>1, <2>0, <2>4, SessionQueryIInv
  <2>5. CASE Read(p)
    BY <1>1, <2>0, <2>5, ReadIInv
  <2>6. CASE Transmit(p)
    BY <1>1, <2>0, <2>6, TransmitIInv
  <2>7. CASE Report(p)
    BY <1>1, <2>0, <2>7, ReportIInv
  <2>8. CASE Terminate(p) \/ ProcessStarts(p)
    BY <1>1, <2>0, <2>8, TerminateIInv
  <2>9. CASE ProcessExits(p)
    BY <1>1, <2>0, <2>9, VanishIInv DEF ProcessExits, Exit
  <2> QED BY <1>3, <2>1, <2>2, <2>3, <2>4, <2>5, <2>6, <2>7, <2>8, <2>9 DEF ServProcess
<1>4. CASE SessionDrops
  BY <1>1, <1>2, <1>4, ServEnvironmentIInv DEF SessionDrops, Drop, requestVars, outside
<1>5. CASE \E u \in User : Login(u) \/ Logout(u)
  <2>1. /\ cedar_sessions' \subseteq User
        /\ UNCHANGED <<running, db_map, conf, pc, dhi, containers, error_info, output, recorded>>
    BY <1>2, <1>5 DEF Login, Logout, requestVars, dbVars
  <2>2. logged_in' \in [Process -> BOOLEAN]
    BY <1>2, <1>5 DEF Login, Logout, requestVars
  <2> QED BY <1>1, <1>5, <2>1, <2>2, ServEnvironmentIInv
<1>6. CASE UNCHANGED servVars
  BY <1>1, <1>2, <1>6, ServEnvironmentIInv DEF servVars, dbVars, requestVars, outside
<1> QED BY <1>3, <1>4, <1>5, <1>6 DEF ServNext

LEMMA ServInvariance == ServSpec => []ServIInv
BY ServInitIInv, ServNextIInv, PTL DEF ServSpec

(* At every point of every request the process knows what it needs, for    *)
(* any number of processes, users and containers.                          *)
THEOREM ServTypeCorrect == ServSpec => []ServTypeOK
<1>1. ServIInv => ServTypeOK
  BY DEF ServIInv
<1> QED BY <1>1, ServInvariance, PTL

(* Every data request of a named user that went through without an error   *)
(* is recorded, and no other, whatever the database does to the report.  A *)
(* stream goes through also when little or nothing of its file was sent.   *)
THEOREM ServedIsRecorded == ServSpec => []RecordedIffServed
<1>1. ServIInv => RecordedIffServed
  BY DEF ServIInv
<1> QED BY <1>1, ServInvariance, PTL

(* A response that is collected first is never sent in part, for requests  *)
(* of any number of containers.                                            *)
THEOREM NoPartialResponse == ServSpec => []AllOrNothing
<1>1. ServIInv => AllOrNothing
  BY DEF ServIInv
<1> QED BY <1>1, ServInvariance, PTL

-----------------------------------------------------------------------------
(* Who is let through.                                                     *)

\* Of a plain name a positive answer is only ever given when it has been seen in
\* cedar_sessions, and nothing forgets that before the container is read.
Vouched(p) ==
  /\ pc[p] = "query" /\ dhi[p].user \in cedar_sessions => logged_in[p]
  /\ pc[p] = "read" /\ dhi[p].action \in Protected /\ conf.mode = "on"
     /\ dhi[p].user \in Plain => logged_in[p]

AllVouched == \A p \in Process : Vouched(p)

LEMMA ProcessVouched ==
  ASSUME ServIInv, AllVouched, NEW p \in Process, ServProcess(p)
  PROVE  Vouched(p)'
<1> USE IInvIsGood DEF AllVouched, Vouched, ServTypes, Goes
<1>1. CASE Initialize(p) \/ MakeReporter(p)
  BY <1>1 DEF Initialize, MakeReporter, outside
<1>2. ASSUME NEW a \in Action, NEW u \in User \cup {NoUser}, NEW n \in 0..MaxContainers,
             Receive(p, a, u, n)
      PROVE  Vouched(p)'
  <2>1. pc'[p] \in {Begins(a), "transmit"} /\ dhi'[p].action = a
    BY <1>2 DEF Receive
  <2> QED BY <2>1 DEF Begins
<1>3. CASE Authenticate(p)
  BY <1>3 DEF Authenticate, Fails, outside
<1>4. CASE SessionQuery(p)
  BY <1>4 DEF SessionQuery, HasRow, Fails, Vanishes, outside
<1>5. CASE Read(p)
  BY <1>5 DEF Read, ReadOk, ReadFails, Fails, Begins, Good, Knows, outside
<1>6. CASE Transmit(p) \/ Report(p) \/ Terminate(p)
  BY <1>6 DEF Transmit, Report, Terminate
<1>7. CASE ProcessStarts(p) \/ ProcessExits(p)
  BY <1>7 DEF ProcessStarts, ProcessExits, Vanishes, outside, requestVars
<1> QED BY <1>1, <1>2, <1>3, <1>4, <1>5, <1>6, <1>7 DEF ServProcess

\* What a step of one process leaves alone.
LEMMA OthersRequests ==
  ASSUME ServIInv, NEW p \in Process, NEW q \in Process, q # p, ServProcess(q)
  PROVE  /\ pc'[p] = pc[p] /\ dhi'[p] = dhi[p] /\ containers'[p] = containers[p]
         /\ recorded'[p] = recorded[p] /\ logged_in'[p] = logged_in[p]
         /\ UNCHANGED outside
<1> USE IInvIsGood DEF ServTypes, Goes
<1>1. CASE Initialize(q) \/ MakeReporter(q) \/ Authenticate(q)
  BY <1>1 DEF Initialize, MakeReporter, Authenticate, Fails
<1>2. CASE \E a \in Action, u \in User \cup {NoUser}, n \in 0..MaxContainers : Receive(q, a, u, n)
  BY <1>2 DEF Receive
<1>3. CASE SessionQuery(q)
  BY <1>3 DEF SessionQuery, Fails, Vanishes
<1>4. CASE Read(q)
  BY <1>4 DEF Read, ReadOk, ReadFails, Fails
<1>5. CASE Transmit(q) \/ Report(q) \/ Terminate(q)
  BY <1>5 DEF Transmit, Report, Terminate
<1>6. CASE ProcessStarts(q) \/ ProcessExits(q)
  BY <1>6 DEF ProcessStarts, ProcessExits, Vanishes, requestVars
<1> QED BY <1>1, <1>2, <1>3, <1>4, <1>5, <1>6 DEF ServProcess

LEMMA VouchedStep == ServIInv /\ AllVouched /\ [ServNext]_servVars => AllVouched'
<1> SUFFICES ASSUME ServIInv, AllVouched, [ServNext]_servVars, NEW p \in Process
             PROVE  Vouched(p)'
  BY DEF AllVouched
<1>1. ASSUME NEW q \in Process, ServProcess(q), q # p
      PROVE  Vouched(p)'
  BY <1>1, OthersRequests DEF AllVouched, Vouched, outside
<1>2. CASE ServProcess(p)
  BY <1>2, ProcessVouched
<1>3. CASE SessionDrops \/ UNCHANGED servVars
  BY <1>3 DEF SessionDrops, servVars, outside, requestVars, AllVouched, Vouched
<1>4. CASE \E u \in User : Login(u) \/ Logout(u)
  BY <1>4 DEF Login, Logout, requestVars, AllVouched, Vouched
<1> QED BY <1>1, <1>2, <1>3, <1>4 DEF ServNext

AuthorisedStep ==
  \A p \in Process :
    /\ conf.mode = "on" /\ dhi[p].action \in Protected /\ dhi[p].user \in Plain
    /\ pc[p] = "read" /\ containers'[p] = containers[p] - 1 /\ p \in running'
    => logged_in[p]

(* Whoever logs in and out meanwhile, and in however many processes: no    *)
(* protected container is read for a user who was not logged in, for names *)
(* and tokens that SQL reads as they stand.                                *)
THEOREM ReadsAreAuthorised == ServSpec => ProtectedNeedsSession
<1>1. ServInit => AllVouched
  BY DEF ServInit, AllVouched, Vouched
<1>2. AllVouched /\ [ServNext]_servVars => [AuthorisedStep]_servVars
  BY DEF AllVouched, Vouched, AuthorisedStep
<1>3. [AuthorisedStep]_servVars =>
        [\A p \in Process :
           /\ conf.mode = "on" /\ dhi[p].action \in Protected /\ dhi[p].user \in Plain
           /\ pc[p] = "read" /\ containers'[p] = containers[p] - 1 /\ p \in running'
           => logged_in[p]]_servVars
  BY DEF AuthorisedStep
<1> QED BY <1>1, <1>2, <1>3, VouchedStep, ServInvariance, PTL
        DEF ServSpec, ProtectedNeedsSession

-----------------------------------------------------------------------------
(* What a process can still do after a loss.                               *)

\* A handle that is open stays open as long as its process serves.
LEMMA ProcessStaysOpen ==
  ASSUME ServIInv, NEW p \in Process, NEW q \in Process, NEW n \in Name,
         ServProcess(q), is_open[p][n], p \in running', pc'[p] # "terminated"
  PROVE  is_open'[p][n]
<1> USE IInvIsGood DEF IInv, TypeOK
<1>1. CASE Initialize(q) \/ MakeReporter(q) \/ ProcessStarts(q)
  BY <1>1 DEF Initialize, Add_DB_Builder, MakeReporter, DB, ProcessStarts, Start
<1>2. CASE \/ \E a \in Action, u \in User \cup {NoUser}, m \in 0..MaxContainers : Receive(q, a, u, m)
           \/ Read(q) \/ Transmit(q)
  BY <1>2 DEF Receive, Read, Transmit, dbVars
<1>3. CASE Authenticate(q)
  BY <1>3 DEF Authenticate, AuthenticateThrows, DB, dbVars
<1>4. ASSUME NEW m \in Name, NEW r \in Outcome, run_query(q, m, r) \/ insert(q, m, r)
      PROVE  is_open'[p][n]
  BY <1>4 DEF run_query, insert, Statement, OpenFails, Opened, Outcome
<1>5. CASE SessionQuery(q)
  <2>1. CASE run_query(q, Authenticator, "crash") /\ Vanishes(q)
    BY <2>1 DEF run_query, Statement, End
  <2> QED BY <1>4, <1>5, <2>1, ServerAssumption DEF SessionQuery, Outcome
<1>6. CASE Report(q)
  BY <1>4, <1>6, ServerAssumption DEF Report, dbVars
<1>7. CASE Terminate(q)
  BY <1>7 DEF Terminate, Close, Closes, Goes, ServTypes
<1>8. CASE ProcessExits(q)
  BY <1>8 DEF ProcessExits, Exit, End
<1> QED BY <1>1, <1>2, <1>3, <1>5, <1>6, <1>7, <1>8 DEF ServProcess

LEMMA LossStays ==
  ASSUME ServIInv, ServIInv', [ServNext]_servVars, NEW p \in Process, NEW n \in Name,
         LinkOf(p, n) = "lost", p \in running', pc'[p] # "terminated"
  PROVE  LinkOf(p, n)' = "lost"
<1>1. IInv /\ IInv' /\ [Next]_dbVars
  BY ServNextIsDB DEF ServIInv, servVars
<1>2. is_open[p][n]
  BY <1>1, LostMeans
<1>3. is_open'[p][n]
  <2>1. CASE SessionDrops \/ UNCHANGED servVars
    BY <1>2, <2>1 DEF SessionDrops, Drop, servVars, dbVars
  <2>2. CASE \E u \in User : Login(u) \/ Logout(u)
    BY <1>2, <2>2 DEF Login, Logout, dbVars
  <2> QED BY <1>1, <1>2, <2>1, <2>2, ProcessStaysOpen DEF ServNext
<1> QED BY <1>1, <1>3, LostLasts

\* On a lost link no query has an answer, and no insert ends in the table.
LEMMA LostStatement ==
  ASSUME IInv, NEW p \in Process, NEW n \in Name, LinkOf(p, n) = "lost", NEW r,
         run_query(p, n, r) \/ insert(p, n, r)
  PROVE  r = "lost" /\ ~Reaches(p, n)
<1>1. ~Reaches(p, n) /\ is_open[p][n]
  BY LostMeans
<1> QED BY <1>1 DEF run_query, insert, Statement, OpenFails

DenialStep ==
  \A p \in Process :
    /\ LinkOf(p, Authenticator) = "lost" /\ pc[p] # "read" /\ conf.mode = "on"
    /\ p \in running' /\ pc'[p] # "terminated"
    => /\ LinkOf(p, Authenticator)' = "lost"
       /\ dhi'[p].action \in Protected => pc'[p] # "read"

LEMMA LostDenied ==
  ASSUME ServIInv, NEW p \in Process, ServProcess(p),
         LinkOf(p, Authenticator) = "lost", pc[p] # "read", conf.mode = "on",
         dhi'[p].action \in Protected
  PROVE  pc'[p] # "read"
<1> USE IInvIsGood DEF ServTypes, Goes
<1>1. CASE Initialize(p) \/ MakeReporter(p)
  BY <1>1 DEF Initialize, MakeReporter
<1>2. CASE \E a \in Action, u \in User \cup {NoUser}, n \in 0..MaxContainers : Receive(p, a, u, n)
  BY <1>2 DEF Receive, Begins
<1>3. CASE Authenticate(p)
  BY <1>3 DEF Authenticate, Fails
<1>4. CASE SessionQuery(p)
  BY <1>4, LostStatement, ServerAssumption DEF SessionQuery, Fails, Vanishes
<1>5. CASE Read(p) \/ Transmit(p) \/ Report(p) \/ Terminate(p)
  BY <1>5 DEF Read, Transmit, Report, Terminate
<1>6. CASE ProcessStarts(p) \/ ProcessExits(p)
  BY <1>6 DEF ProcessStarts, ProcessExits, Vanishes, requestVars
<1> QED BY <1>1, <1>2, <1>3, <1>4, <1>5, <1>6 DEF ServProcess

LEMMA DenialHolds == ServIInv /\ ServIInv' /\ [ServNext]_servVars => DenialStep
<1> SUFFICES ASSUME ServIInv, ServIInv', [ServNext]_servVars, NEW p \in Process,
                    LinkOf(p, Authenticator) = "lost", pc[p] # "read", conf.mode = "on",
                    p \in running', pc'[p] # "terminated"
             PROVE  /\ LinkOf(p, Authenticator)' = "lost"
                    /\ dhi'[p].action \in Protected => pc'[p] # "read"
  BY DEF DenialStep
<1>1. LinkOf(p, Authenticator)' = "lost"
  BY LossStays, ServerAssumption
<1>2. dhi'[p].action \in Protected => pc'[p] # "read"
  <2>1. ASSUME NEW q \in Process, ServProcess(q), q # p
        PROVE  pc'[p] # "read"
    BY <2>1, OthersRequests
  <2>2. CASE SessionDrops \/ UNCHANGED servVars
    BY <2>2 DEF SessionDrops, servVars, requestVars
  <2>3. CASE \E u \in User : Login(u) \/ Logout(u)
    BY <2>3 DEF Login, Logout, requestVars
  <2> QED BY <2>1, <2>2, <2>3, LostDenied DEF ServNext
<1> QED BY <1>1, <1>2

(* Whatever is asked of a process that lost its Authenticate session, and  *)
(* whoever is logged in, no protected container is reached any more.       *)
THEOREM LossIsDenial == ServSpec => LossDenies
<1>1. ServIInv /\ ServIInv' /\ [ServNext]_servVars => [DenialStep]_servVars
  BY DenialHolds
<1>2. [DenialStep]_servVars =>
        [\A p \in Process :
           /\ LinkOf(p, Authenticator) = "lost" /\ pc[p] # "read" /\ conf.mode = "on"
           /\ p \in running' /\ pc'[p] # "terminated"
           => /\ LinkOf(p, Authenticator)' = "lost"
              /\ dhi'[p].action \in Protected => pc'[p] # "read"]_servVars
  BY DEF DenialStep
<1> QED BY <1>1, <1>2, ServInvariance, PTL DEF ServSpec, LossDenies

DiversionStep ==
  \A p \in Process :
    LinkOf(p, Reporter) = "lost" /\ p \in running' /\ pc'[p] # "terminated" =>
      /\ LinkOf(p, Reporter)' = "lost"
      /\ "table" \in recorded'[p] => "table" \in recorded[p]

LEMMA LostDiverted ==
  ASSUME ServIInv, NEW p \in Process, ServProcess(p),
         LinkOf(p, Reporter) = "lost", "table" \in recorded'[p]
  PROVE  "table" \in recorded[p]
<1> USE IInvIsGood DEF ServTypes
<1>1. CASE Initialize(p) \/ MakeReporter(p) \/ Authenticate(p)
  BY <1>1 DEF Initialize, MakeReporter, Authenticate
<1>2. CASE \E a \in Action, u \in User \cup {NoUser}, n \in 0..MaxContainers : Receive(p, a, u, n)
  BY <1>2 DEF Receive
<1>3. CASE SessionQuery(p)
  BY <1>3 DEF SessionQuery, Vanishes
<1>4. CASE Read(p) \/ Transmit(p) \/ Terminate(p)
  BY <1>4 DEF Read, Transmit, Terminate
<1>5. CASE Report(p)
  <2>1. CASE UNCHANGED recorded
    BY <2>1
  <2>2. ASSUME NEW r \in Outcome, insert(p, Reporter, r), NEW l \in Lands(p, r),
               recorded' = [recorded EXCEPT ![p] = l]
        PROVE  FALSE
    <3>1. r = "lost" /\ ~Reaches(p, Reporter)
      BY <2>2, LostStatement, ServerAssumption
    <3>2. l = {"log"}
      BY <2>2, <3>1 DEF Lands
    <3> QED BY <2>2, <3>2
  <2> QED BY <1>5, <2>1, <2>2 DEF Report
<1>6. CASE ProcessStarts(p) \/ ProcessExits(p)
  BY <1>6 DEF ProcessStarts, ProcessExits, Vanishes, requestVars
<1> QED BY <1>1, <1>2, <1>3, <1>4, <1>5, <1>6 DEF ServProcess

LEMMA DiversionHolds == ServIInv /\ ServIInv' /\ [ServNext]_servVars => DiversionStep
<1> SUFFICES ASSUME ServIInv, ServIInv', [ServNext]_servVars, NEW p \in Process,
                    LinkOf(p, Reporter) = "lost", p \in running', pc'[p] # "terminated"
             PROVE  /\ LinkOf(p, Reporter)' = "lost"
                    /\ "table" \in recorded'[p] => "table" \in recorded[p]
  BY DEF DiversionStep
<1>1. LinkOf(p, Reporter)' = "lost"
  BY LossStays, ServerAssumption
<1>2. "table" \in recorded'[p] => "table" \in recorded[p]
  <2>1. ASSUME NEW q \in Process, ServProcess(q), q # p
        PROVE  recorded'[p] = recorded[p]
    BY <2>1, OthersRequests
  <2>2. CASE SessionDrops \/ UNCHANGED servVars
    BY <2>2 DEF SessionDrops, servVars, requestVars
  <2>3. CASE \E u \in User : Login(u) \/ Logout(u)
    BY <2>3 DEF Login, Logout, requestVars
  <2> QED BY <2>1, <2>2, <2>3, LostDiverted DEF ServNext
<1> QED BY <1>1, <1>2

(* However many requests follow: after the Reporter session is lost no     *)
(* report of this process reaches tbl_report.                              *)
THEOREM LossIsDiversion == ServSpec => LossDivertsReports
<1>1. ServIInv /\ ServIInv' /\ [ServNext]_servVars => [DiversionStep]_servVars
  BY DiversionHolds
<1>2. [DiversionStep]_servVars =>
        [\A p \in Process :
           LinkOf(p, Reporter) = "lost" /\ p \in running' /\ pc'[p] # "terminated" =>
             /\ LinkOf(p, Reporter)' = "lost"
             /\ "table" \in recorded'[p] => "table" \in recorded[p]]_servVars
  BY DEF DiversionStep
<1> QED BY <1>1, <1>2, ServInvariance, PTL DEF ServSpec, LossDivertsReports

=============================================================================
