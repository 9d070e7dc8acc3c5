--------------------------- MODULE CedarDB_proofs ---------------------------
(***************************************************************************)
(* The theorems about CedarDB, for every set of processes, names, types    *)
(* and sessions and every configuration.                                   *)
(*                                                                         *)
(* Every step is one of eight effects (StepEffects): Start, Exit, Drop,    *)
(* Add_DB_Builder and DB as they are, and                                  *)
(*   FailsToOpen  an attempt to connect that left an unconnected object,   *)
(*   Uses         a statement, or open(), that ran on a channel,           *)
(*   Shuts        a set of handles was closed.                             *)
(* The invariant and the refinement are proved effect by effect.           *)
(***************************************************************************)
EXTENDS CedarDB, TLAPS

FailsToOpen(p, n) ==
  /\ Built(p, n)
  /\ OpenFails(p, n)
  /\ UNCHANGED <<running, db_list, db_map>>

Uses(p, n, c) ==
  /\ Built(p, n)
  /\ c \in Channel(p, n)
  /\ Opened(p, n, c)
  /\ \/ Reaches(p, n) /\ session' = session \cup {c}
     \/ session' = session \ {c}
  /\ UNCHANGED <<running, db_list, db_map>>

Shuts(p, N) ==
  /\ p \in running
  /\ N \subseteq db_map[p]
  /\ Closes(p, N)

CallerEffect(p) ==
  \/ Start(p)
  \/ Exit(p)
  \/ \E t \in Type : Add_DB_Builder(p, t)
  \/ \E n \in Name : DB(p, n)
  \/ \E n \in Name : FailsToOpen(p, n)
  \/ \E n \in Name : \E c \in Session : Uses(p, n, c)
  \/ \E N \in SUBSET Name : Shuts(p, N)

-----------------------------------------------------------------------------
LEMMA ChannelIsSession ==
  ASSUME IInv, NEW p \in Process, NEW n \in Name, NEW c \in Channel(p, n)
  PROVE  c \in Session
BY DEF IInv, FlagMatchesPointer, Channel, Fresh

LEMMA StatementEffect ==
  ASSUME IInv, NEW p \in Process, NEW n \in Name, NEW r,
         Built(p, n), Statement(p, n, r), UNCHANGED <<running, db_list, db_map>>
  PROVE  FailsToOpen(p, n) \/ \E c \in Session : Uses(p, n, c)
<1>1. CASE r = "unreachable" /\ OpenFails(p, n)
  BY <1>1 DEF FailsToOpen
<1>2. CASE \E c \in Channel(p, n) :
             /\ Opened(p, n, c)
             /\ \/ r \in {"ok", "refused"} /\ Reaches(p, n) /\ session' = session \cup {c}
                \/ r = "lost" /\ session' = session \ {c}
  BY <1>2, ChannelIsSession DEF Uses
<1> QED BY <1>1, <1>2 DEF Statement

\* open() of a closed handle has the effect of a statement that was answered.
LEMMA OpenEffect ==
  ASSUME IInv, NEW p \in Process, NEW n \in Name, open(p, n)
  PROVE  FailsToOpen(p, n) \/ \E c \in Session : Uses(p, n, c)
<1>1. CASE OpenFails(p, n)
  BY <1>1 DEF FailsToOpen, open
<1>2. CASE /\ ~is_open[p][n]
           /\ \E c \in Fresh : Opened(p, n, c) /\ session' = session \cup {c}
  <2>1. PICK c \in Fresh : Opened(p, n, c) /\ session' = session \cup {c}
    BY <1>2
  <2>2. c \in Channel(p, n) /\ Reaches(p, n)
    BY <1>2, <2>1 DEF Channel, Reaches
  <2>3. Uses(p, n, c)
    BY <2>1, <2>2 DEF Uses, open
  <2> QED BY <2>2, <2>3, ChannelIsSession
<1> QED BY <1>1, <1>2 DEF open

LEMMA StepEffects ==
  ASSUME IInv, NEW p \in Process, Caller(p)
  PROVE  CallerEffect(p)
<1>1. CASE Start(p) \/ Exit(p) \/ \E t \in Type : Add_DB_Builder(p, t)
  BY <1>1 DEF CallerEffect
<1>2. CASE \E n \in Name : DB(p, n)
  BY <1>2 DEF CallerEffect
<1>3. CASE \E n \in Name : open(p, n)
  BY <1>3, OpenEffect DEF CallerEffect
<1>4. ASSUME NEW n \in Name, NEW r, insert(p, n, r)
      PROVE  CallerEffect(p)
  BY <1>4, StatementEffect DEF CallerEffect, insert
<1>5. ASSUME NEW n \in Name, NEW r, run_query(p, n, r)
      PROVE  CallerEffect(p)
  <2>1. CASE Statement(p, n, r) /\ UNCHANGED <<running, db_list, db_map>>
    BY <1>5, <2>1, StatementEffect DEF CallerEffect, run_query
  <2>2. CASE r = "crash" /\ Reaches(p, n) /\ End(p)
    BY <1>5, <2>2 DEF CallerEffect, run_query, Built, Exit
  <2> QED BY <1>5, <2>1, <2>2 DEF run_query
<1>6. ASSUME NEW n \in Name, NEW r, del(p, n, r)
      PROVE  CallerEffect(p)
  <2>1. CASE insert(p, n, r)
    BY <1>4, <2>1
  <2>2. CASE End(p)
    BY <1>6, <2>2 DEF CallerEffect, del, Built, Exit
  <2> QED BY <1>6, <2>1, <2>2 DEF del
<1>7. ASSUME NEW n \in Name, close(p, n)
      PROVE  CallerEffect(p)
  <2>1. CASE Closes(p, {n})
    <3>1. Shuts(p, {n})
      BY <1>7, <2>1 DEF Shuts, close, Built
    <3> QED BY <3>1 DEF CallerEffect
  <2>2. CASE End(p)
    BY <1>7, <2>2 DEF CallerEffect, close, Built, Exit
  <2> QED BY <1>7, <2>1, <2>2 DEF close
<1>8. CASE Close(p)
  <2> DEFINE N == {n \in db_map[p] : is_open[p][n]}
  <2>1. N \in SUBSET Name
    BY ConfigurationAssumption DEF IInv, TypeOK
  <2>2. Shuts(p, N)
    BY <1>8 DEF Shuts, Close
  <2> QED BY <2>1, <2>2 DEF CallerEffect
<1> QED BY <1>1, <1>2, <1>3, <1>4, <1>5, <1>6, <1>7, <1>8 DEF Caller, update

-----------------------------------------------------------------------------
(* Each effect preserves the inductive invariant.                          *)

LEMMA InitIInv == Init => IInv
<1> SUFFICES ASSUME Init
             PROVE  IInv
  OBVIOUS
<1> USE DEF Init, NoHandle, NoConnection
<1>1. TypeOK
  BY DEF TypeOK, Pointer
<1>2. FlagMatchesPointer
  BY PointerAssumption DEF FlagMatchesPointer, Pointer
<1>3. SessionsOwned
  BY PointerAssumption DEF SessionsOwned, Pointer
<1> QED BY <1>1, <1>2, <1>3 DEF IInv

LEMMA EndIInv ==
  ASSUME IInv, NEW p \in Process, Exit(p)
  PROVE  IInv'
<1> USE DEF Exit, End, NoHandle, NoConnection
<1>1. TypeOK'
  BY DEF IInv, TypeOK, Pointer
<1>2. FlagMatchesPointer'
  BY PointerAssumption DEF IInv, TypeOK, FlagMatchesPointer, Pointer
<1>3. \A q \in Process, m \in Name :
        connection'[q][m] = IF q = p THEN Uninitialized ELSE connection[q][m]
  BY DEF IInv, TypeOK
<1>4. SessionsOwned'
  <2>1. ASSUME NEW q \in Process, NEW r \in Process, NEW m \in Name, NEW k \in Name,
               connection'[q][m] \in Session, connection'[q][m] = connection'[r][k]
        PROVE  q = r /\ m = k
    BY <1>3, <2>1, PointerAssumption DEF IInv, SessionsOwned, Pointer
  <2>2. ASSUME NEW s \in session'
        PROVE  \E q \in running' : \E m \in db_map'[q] : connection'[q][m] = s
    <3>1. PICK q \in running : \E m \in db_map[q] : connection[q][m] = s
      BY <2>2 DEF IInv, SessionsOwned
    <3>2. PICK m \in db_map[q] : connection[q][m] = s
      BY <3>1
    <3>3. m \in Name /\ q \in Process
      BY ConfigurationAssumption DEF IInv, TypeOK
    <3>4. q # p
      BY <2>2, <3>2, <3>3
    <3> QED BY <1>3, <3>2, <3>3, <3>4 DEF IInv, TypeOK
  <2> QED BY <2>1, <2>2 DEF SessionsOwned
<1> QED BY <1>1, <1>2, <1>4 DEF IInv

LEMMA FailsToOpenIInv ==
  ASSUME IInv, NEW p \in Process, NEW n \in Name, FailsToOpen(p, n)
  PROVE  IInv'
<1> USE DEF FailsToOpen, OpenFails, Built
<1>1. TypeOK'
  BY DEF IInv, TypeOK, Pointer
<1>2. FlagMatchesPointer'
  BY PointerAssumption DEF IInv, TypeOK, FlagMatchesPointer, Pointer
<1>3. SessionsOwned'
  \* The handle was not open, so it held no session that it could lose here.
  BY PointerAssumption DEF IInv, TypeOK, FlagMatchesPointer, SessionsOwned, Pointer
<1> QED BY <1>1, <1>2, <1>3 DEF IInv

LEMMA UsesIInv ==
  ASSUME IInv, NEW p \in Process, NEW n \in Name, NEW c \in Session, Uses(p, n, c)
  PROVE  IInv'
<1> USE DEF Uses, Opened, Built
<1>1. TypeOK'
  BY DEF IInv, TypeOK
<1>2. FlagMatchesPointer'
  BY DEF IInv, TypeOK, FlagMatchesPointer
<1>3. \A q \in Process, m \in Name : connection[q][m] = c => q = p /\ m = n
  \* The channel is the handle's own, or a session that nobody holds.
  <2>1. CASE is_open[p][n]
    BY <2>1 DEF IInv, SessionsOwned, Channel, FlagMatchesPointer
  <2>2. CASE ~is_open[p][n]
    BY <2>2 DEF Channel, Fresh
  <2> QED BY <2>1, <2>2
<1>4. is_open[p][n] => connection[p][n] = c
  BY DEF Channel
<1>5. SessionsOwned'
  <2>1. ASSUME NEW q \in Process, NEW r \in Process, NEW m \in Name, NEW k \in Name,
               connection'[q][m] \in Session, connection'[q][m] = connection'[r][k]
        PROVE  q = r /\ m = k
    BY <1>3, <2>1 DEF IInv, TypeOK, SessionsOwned
  <2>2. ASSUME NEW s \in session'
        PROVE  \E q \in running' : \E m \in db_map'[q] : connection'[q][m] = s
    <3>1. CASE s = c
      BY <3>1 DEF IInv, TypeOK
    <3>2. CASE s # c
      <4>1. s \in session
        BY <2>2, <3>2
      <4>2. PICK q \in running : \E m \in db_map[q] : connection[q][m] = s
        BY <4>1 DEF IInv, SessionsOwned
      <4>3. PICK m \in db_map[q] : connection[q][m] = s
        BY <4>2
      <4>4. ~(q = p /\ m = n)
        BY <1>4, <3>2, <4>1, <4>3 DEF IInv, TypeOK, FlagMatchesPointer
      <4>5. connection'[q][m] = s
        BY <4>3, <4>4 DEF IInv, TypeOK
      <4> QED BY <4>2, <4>3, <4>5
    <3> QED BY <3>1, <3>2
  <2> QED BY <2>1, <2>2 DEF SessionsOwned
<1> QED BY <1>1, <1>2, <1>5 DEF IInv

LEMMA ShutsIInv ==
  ASSUME IInv, NEW p \in Process, NEW N \in SUBSET Name, Shuts(p, N)
  PROVE  IInv'
<1>1. TypeOK'
  BY DEF Shuts, Closes, IInv, TypeOK, Pointer
<1>2. \A q \in Process, m \in Name :
        /\ connection'[q][m] = IF q = p /\ m \in N THEN Null ELSE connection[q][m]
        /\ is_open'[q][m] = (~(q = p /\ m \in N) /\ is_open[q][m])
  BY DEF Shuts, Closes, IInv, TypeOK
<1>3. FlagMatchesPointer'
  <2> SUFFICES ASSUME NEW q \in Process, NEW m \in Name
               PROVE  is_open'[q][m] <=> connection'[q][m] \in Session
    BY DEF FlagMatchesPointer
  <2>1. CASE q = p /\ m \in N
    <3>1. connection'[q][m] = Null /\ is_open'[q][m] = FALSE
      BY ONLY <1>2, <2>1, m \in Name, q \in Process
    <3> QED BY ONLY <3>1, PointerAssumption DEF Pointer
  <2>2. CASE ~(q = p /\ m \in N)
    BY <1>2, <2>2 DEF IInv, FlagMatchesPointer
  <2> QED BY <2>1, <2>2
<1>4. SessionsOwned'
  <2>1. ASSUME NEW q \in Process, NEW r \in Process, NEW m \in Name, NEW k \in Name,
               connection'[q][m] \in Session, connection'[q][m] = connection'[r][k]
        PROVE  q = r /\ m = k
    BY <1>2, <2>1, PointerAssumption DEF IInv, SessionsOwned, Pointer
  <2>2. ASSUME NEW s \in session'
        PROVE  \E q \in running' : \E m \in db_map'[q] : connection'[q][m] = s
    <3>1. PICK q \in running : \E m \in db_map[q] : connection[q][m] = s
      BY <2>2 DEF Shuts, Closes, IInv, SessionsOwned
    <3>2. PICK m \in db_map[q] : connection[q][m] = s
      BY <3>1
    <3>3. m \in Name /\ q \in Process
      BY ConfigurationAssumption DEF IInv, TypeOK
    <3>4. ~(q = p /\ m \in N)
      BY <2>2, <3>2 DEF Shuts, Closes
    <3>5. connection'[q][m] = s
      BY <1>2, <3>2, <3>3, <3>4
    <3> QED BY <3>1, <3>2, <3>5 DEF Shuts, Closes
  <2> QED BY <2>1, <2>2 DEF SessionsOwned
<1> QED BY <1>1, <1>3, <1>4 DEF IInv

LEMMA CallerIInv ==
  ASSUME IInv, NEW p \in Process, Caller(p)
  PROVE  IInv'
<1>1. CASE Start(p)
  BY <1>1 DEF Start, IInv, TypeOK, FlagMatchesPointer, SessionsOwned
<1>2. CASE Exit(p)
  BY <1>2, EndIInv
<1>3. CASE \E t \in Type : Add_DB_Builder(p, t)
  BY <1>3 DEF Add_DB_Builder, IInv, TypeOK, FlagMatchesPointer, SessionsOwned
<1>4. CASE \E n \in Name : DB(p, n)
  BY <1>4 DEF DB, Available, Buildable, IInv, TypeOK, FlagMatchesPointer, SessionsOwned
<1>5. CASE \E n \in Name : FailsToOpen(p, n)
  BY <1>5, FailsToOpenIInv
<1>6. CASE \E n \in Name : \E c \in Session : Uses(p, n, c)
  BY <1>6, UsesIInv
<1>7. CASE \E N \in SUBSET Name : Shuts(p, N)
  BY <1>7, ShutsIInv
<1> QED BY <1>1, <1>2, <1>3, <1>4, <1>5, <1>6, <1>7, StepEffects DEF CallerEffect

LEMMA DropIInv ==
  ASSUME IInv, NEW s \in Session, Drop(s)
  PROVE  IInv'
BY DEF Drop, IInv, TypeOK, FlagMatchesPointer, SessionsOwned

LEMMA NextIInv == IInv /\ [Next]_dbVars => IInv'
<1> SUFFICES ASSUME IInv, [Next]_dbVars
             PROVE  IInv'
  OBVIOUS
<1>1. CASE \E p \in Process : Caller(p)
  BY <1>1, CallerIInv
<1>2. CASE \E s \in Session : Drop(s)
  BY <1>2, DropIInv
<1>3. CASE UNCHANGED dbVars
  BY <1>3 DEF dbVars, IInv, TypeOK, FlagMatchesPointer, SessionsOwned
<1> QED BY <1>1, <1>2, <1>3 DEF Next

LEMMA Invariance == Spec => []IInv
BY InitIInv, NextIInv, PTL DEF Spec

(* The state of every process has the declared shape, and a mapped name    *)
(* always has a builder and a complete configuration (CedarDB::DB).        *)
THEOREM TypeCorrect == Spec => []TypeOK
<1>1. IInv => TypeOK
  BY DEF IInv
<1> QED BY <1>1, Invariance, PTL

(* No client can drive CedarMySQLDB::run_query, insert or update through a *)
(* null or wild _connection, nor make open() overwrite a live channel.     *)
THEOREM FlagsCorrect == Spec => []FlagMatchesPointer
<1>1. IInv => FlagMatchesPointer
  BY DEF IInv
<1> QED BY <1>1, Invariance, PTL

(* However many processes and handles there are, each live MySQL session   *)
(* belongs to exactly one handle, which can still close it.                *)
THEOREM NoSessionLeaks == Spec => []SessionsOwned
<1>1. IInv => SessionsOwned
  BY DEF IInv
<1> QED BY <1>1, Invariance, PTL

-----------------------------------------------------------------------------
(* The refinement: each effect is a step of DBLink, or leaves the links be. *)

LEMMA LinkValues ==
  ASSUME NEW p \in Process, NEW n \in Name, is_open[p][n] \in BOOLEAN
  PROVE  /\ n \notin db_map[p] => LinkOf(p, n) = "none"
         /\ n \in db_map[p] /\ ~is_open[p][n] => LinkOf(p, n) = "down"
         /\ n \in db_map[p] /\ is_open[p][n] /\ connection[p][n] \in session
              => LinkOf(p, n) = "up"
         /\ n \in db_map[p] /\ is_open[p][n] /\ connection[p][n] \notin session
              => LinkOf(p, n) = "lost"
BY DEF LinkOf

LEMMA LinksDetermined ==
  ASSUME IInv, IInv', NEW p \in Process, NEW n \in Name,
         (n \in db_map'[p]) <=> (n \in db_map[p]),
         is_open'[p][n] = is_open[p][n],
         is_open[p][n] => ((connection'[p][n] \in session')
                             <=> (connection[p][n] \in session))
  PROVE  LinkOf(p, n)' = LinkOf(p, n)
<1>1. is_open[p][n] \in BOOLEAN
  BY DEF IInv, TypeOK
<1> QED BY <1>1 DEF LinkOf

LEMMA OneLinkMoves ==
  ASSUME NEW p \in Process, NEW n \in Name, NEW v, LinkOf(p, n)' = v,
         \A q \in Process, m \in Name : (q # p \/ m # n) => LinkOf(q, m)' = LinkOf(q, m)
  PROVE  LinkState' = [LinkState EXCEPT ![p][n] = v]
BY DEF LinkState

LEMMA NoLinkMoves ==
  ASSUME \A q \in Process, m \in Name : LinkOf(q, m)' = LinkOf(q, m)
  PROVE  LinkState' = LinkState
BY DEF LinkState

LEMMA InitLink == Init => Link!Init
BY DEF Init, Link!Init, LinkState, LinkOf

LEMMA ExitLink ==
  ASSUME IInv, IInv', NEW p \in Process, Exit(p)
  PROVE  Link!End(p)
<1>1. \A m \in Name : LinkOf(p, m)' = "none"
  BY DEF Exit, End, IInv, TypeOK, LinkOf
<1>2. ASSUME NEW q \in Process, NEW m \in Name, q # p
      PROVE  LinkOf(q, m)' = LinkOf(q, m)
  <2>1. db_map'[q] = db_map[q] /\ is_open'[q][m] = is_open[q][m]
          /\ connection'[q][m] = connection[q][m]
    BY <1>2 DEF Exit, End, IInv, TypeOK
  <2>2. connection[q][m] \in Session => \A k \in Name : connection[p][k] # connection[q][m]
    BY <1>2 DEF IInv, SessionsOwned
  <2>3. is_open[q][m] => ((connection'[q][m] \in session')
                            <=> (connection[q][m] \in session))
    BY <2>1, <2>2 DEF Exit, End, IInv, FlagMatchesPointer
  <2> QED BY <2>1, <2>3, LinksDetermined
<1> QED BY <1>1, <1>2 DEF Link!End, LinkState

LEMMA DBLinkStep ==
  ASSUME IInv, IInv', NEW p \in Process, NEW n \in Name, DB(p, n)
  PROVE  Link!Make(p, n) \/ LinkState' = LinkState
<1>1. ASSUME NEW q \in Process, NEW m \in Name, q # p \/ m # n
      PROVE  LinkOf(q, m)' = LinkOf(q, m)
  <2>1. (m \in db_map'[q]) <=> (m \in db_map[q])
    BY <1>1 DEF DB, IInv, TypeOK
  <2> QED BY <2>1, LinksDetermined DEF DB
<1>2. CASE n \in db_map[p]
  <2>1. LinkOf(p, n)' = LinkOf(p, n)
    BY <1>2, LinksDetermined DEF DB, IInv, TypeOK
  <2> QED BY <1>1, <2>1, NoLinkMoves
<1>3. CASE n \notin db_map[p]
  <2>1. LinkOf(p, n) = "none" /\ LinkOf(p, n)' = "down"
    BY <1>3 DEF DB, LinkOf, IInv, TypeOK
  <2>2. LinkState' = [LinkState EXCEPT ![p][n] = "down"]
    BY <1>1, <2>1, OneLinkMoves
  <2> QED BY <2>1, <2>2 DEF Link!Make, Link!Moves, LinkState
<1> QED BY <1>2, <1>3

LEMMA FailsToOpenLink ==
  ASSUME IInv, IInv', NEW p \in Process, NEW n \in Name, FailsToOpen(p, n)
  PROVE  LinkState' = LinkState
<1>1. ASSUME NEW q \in Process, NEW m \in Name
      PROVE  LinkOf(q, m)' = LinkOf(q, m)
  BY LinksDetermined DEF FailsToOpen, OpenFails, IInv, TypeOK
<1> QED BY <1>1, NoLinkMoves

LEMMA UsesLink ==
  ASSUME IInv, IInv', NEW p \in Process, NEW n \in Name, NEW c \in Session, Uses(p, n, c)
  PROVE  Link!Connect(p, n) \/ Link!Lose(p, n) \/ LinkState' = LinkState
<1>1. ASSUME NEW q \in Process, NEW m \in Name, q # p \/ m # n
      PROVE  LinkOf(q, m)' = LinkOf(q, m)
  <2>1. /\ db_map'[q] = db_map[q]
        /\ is_open'[q][m] = is_open[q][m]
        /\ connection'[q][m] = connection[q][m]
    <3>1. CASE q # p
      BY <3>1 DEF Uses, Opened, IInv, TypeOK
    <3>2. CASE q = p /\ m # n
      BY <3>2 DEF Uses, Opened, IInv, TypeOK
    <3> QED BY <1>1, <3>1, <3>2
  <2>2. connection'[p][n] = c
    BY DEF Uses, Opened, IInv, TypeOK
  \* No other handle holds the channel of this one.
  <2>3. connection'[q][m] # c
    BY <1>1, <2>2 DEF IInv, SessionsOwned
  <2> QED BY <2>1, <2>3, LinksDetermined DEF Uses
<1>2. /\ n \in db_map[p] /\ n \in db_map'[p]
      /\ is_open'[p][n] /\ connection'[p][n] = c
      /\ is_open[p][n] \in BOOLEAN
      /\ is_open[p][n] => connection[p][n] = c
  BY DEF Uses, Opened, Built, Channel, IInv, TypeOK
<1>3. LinkOf(p, n)' = IF c \in session' THEN "up" ELSE "lost"
  BY <1>2 DEF LinkOf
<1>4. LinkOf(p, n) = IF ~is_open[p][n] THEN "down" ELSE IF c \in session THEN "up" ELSE "lost"
  BY <1>2 DEF LinkOf
<1>5. LinkState[p][n] = LinkOf(p, n)
  BY DEF LinkState
<1>6. CASE LinkOf(p, n)' = LinkOf(p, n)
  BY <1>1, <1>6, NoLinkMoves
<1>7. CASE LinkOf(p, n)' = "lost" /\ LinkOf(p, n) \in {"up", "down"}
  BY <1>1, <1>5, <1>7, OneLinkMoves DEF Link!Lose, Link!Moves
<1>8. CASE LinkOf(p, n)' = "up" /\ LinkOf(p, n) = "down"
  BY <1>1, <1>5, <1>8, OneLinkMoves DEF Link!Connect, Link!Moves
\* A lost link does not come up: a statement that is answered Reaches the server.
<1>9. ~(LinkOf(p, n)' = "up" /\ LinkOf(p, n) = "lost")
  BY <1>2, <1>3, <1>4 DEF Uses, Reaches
<1> QED BY <1>3, <1>4, <1>6, <1>7, <1>8, <1>9

LEMMA ShutsLink ==
  ASSUME IInv, IInv', NEW p \in Process, NEW N \in SUBSET Name, Shuts(p, N)
  PROVE  \E M \in SUBSET Name : Link!Release(p, M)
<1> DEFINE M == {n \in N : is_open[p][n]}
<1>1. M \in SUBSET Name
  OBVIOUS
<1>2. \A n \in M : LinkState[p][n] \in {"up", "lost"}
  BY DEF LinkState, LinkOf, Shuts
<1>3. ASSUME NEW q \in Process, NEW m \in Name
      PROVE  LinkOf(q, m)' = IF q = p /\ m \in M THEN "down" ELSE LinkOf(q, m)
  <2>1. /\ db_map'[q] = db_map[q]
        /\ is_open[q][m] \in BOOLEAN
        /\ is_open'[q][m] = (~(q = p /\ m \in N) /\ is_open[q][m])
        /\ connection'[q][m] = IF q = p /\ m \in N THEN Null ELSE connection[q][m]
    BY DEF Shuts, Closes, IInv, TypeOK
  <2>2. CASE q = p /\ m \in M
    <3>1. m \in db_map'[q] /\ ~is_open'[q][m]
      BY <2>1, <2>2 DEF Shuts
    <3> QED BY <2>2, <3>1 DEF LinkOf
  <2>3. CASE ~(q = p /\ m \in M)
    <3>1. is_open'[q][m] = is_open[q][m]
      BY <2>1, <2>3
    <3>2. ASSUME is_open[q][m]
          PROVE  (connection'[q][m] \in session') <=> (connection[q][m] \in session)
      <4>1. ~(q = p /\ m \in N)
        BY <2>3, <3>2
      <4>2. \A k \in N : connection[p][k] # connection[q][m]
        BY <3>2, <4>1 DEF IInv, SessionsOwned, FlagMatchesPointer
      <4>3. connection'[q][m] = connection[q][m]
        BY <2>1, <4>1
      <4> QED BY <4>2, <4>3 DEF Shuts, Closes
    <3> QED BY <2>1, <2>3, <3>1, <3>2, LinksDetermined
  <2> QED BY <2>2, <2>3
<1>4. LinkState' = [LinkState EXCEPT ![p] = [n \in Name |-> IF n \in M THEN "down" ELSE @[n]]]
  BY <1>3 DEF LinkState
<1>5. Link!Release(p, M)
  BY <1>2, <1>4 DEF Link!Release
<1> QED BY <1>1, <1>5

LEMMA DropLink ==
  ASSUME IInv, IInv', NEW s \in Session, Drop(s)
  PROVE  \E p \in Process, n \in Name : Link!Lose(p, n)
\* The session that is dropped is that of exactly one handle.
<1>1. PICK p \in running : \E n \in db_map[p] : connection[p][n] = s
  BY DEF Drop, IInv, SessionsOwned
<1>2. PICK n \in db_map[p] : connection[p][n] = s
  BY <1>1
<1>3. p \in Process /\ n \in Name
  BY ConfigurationAssumption DEF IInv, TypeOK
<1>4. is_open[p][n]
  BY <1>2, <1>3 DEF IInv, FlagMatchesPointer
<1>5. LinkOf(p, n) = "up" /\ LinkOf(p, n)' = "lost"
  BY <1>2, <1>4 DEF Drop, LinkOf
<1>6. ASSUME NEW q \in Process, NEW m \in Name, q # p \/ m # n
      PROVE  LinkOf(q, m)' = LinkOf(q, m)
  <2>1. connection[q][m] # s
    BY <1>2, <1>3, <1>6 DEF IInv, SessionsOwned
  <2> QED BY <2>1, LinksDetermined DEF Drop
<1>7. LinkState' = [LinkState EXCEPT ![p][n] = "lost"]
  BY <1>3, <1>5, <1>6, OneLinkMoves
<1>8. Link!Lose(p, n)
  BY <1>3, <1>5, <1>7 DEF Link!Lose, Link!Moves, LinkState
<1> QED BY <1>3, <1>8

LEMMA CallerLink ==
  ASSUME IInv, IInv', NEW p \in Process, Caller(p)
  PROVE  [Link!Next]_LinkState
<1>1. CASE Start(p)
  <2>1. \A q \in Process, m \in Name : LinkOf(q, m)' = LinkOf(q, m)
    BY <1>1, LinksDetermined DEF Start
  <2> QED BY <2>1, NoLinkMoves
<1>2. CASE Exit(p)
  BY <1>2, ExitLink DEF Link!Next
<1>3. CASE \E t \in Type : Add_DB_Builder(p, t)
  <2>1. \A q \in Process, m \in Name : LinkOf(q, m)' = LinkOf(q, m)
    BY <1>3, LinksDetermined DEF Add_DB_Builder
  <2> QED BY <2>1, NoLinkMoves
<1>4. CASE \E n \in Name : DB(p, n)
  BY <1>4, DBLinkStep DEF Link!Next
<1>5. CASE \E n \in Name : FailsToOpen(p, n)
  BY <1>5, FailsToOpenLink
<1>6. CASE \E n \in Name : \E c \in Session : Uses(p, n, c)
  BY <1>6, UsesLink DEF Link!Next
<1>7. CASE \E N \in SUBSET Name : Shuts(p, N)
  BY <1>7, ShutsLink DEF Link!Next
<1> QED BY <1>1, <1>2, <1>3, <1>4, <1>5, <1>6, <1>7, StepEffects DEF CallerEffect

LEMMA NextLink == IInv /\ IInv' /\ [Next]_dbVars => [Link!Next]_LinkState
<1> SUFFICES ASSUME IInv, IInv', [Next]_dbVars
             PROVE  [Link!Next]_LinkState
  OBVIOUS
<1>1. CASE \E p \in Process : Caller(p)
  BY <1>1, CallerLink
<1>2. CASE \E s \in Session : Drop(s)
  BY <1>2, DropLink DEF Link!Next
<1>3. CASE UNCHANGED dbVars
  <2>1. \A q \in Process, m \in Name : LinkOf(q, m)' = LinkOf(q, m)
    BY <1>3, LinksDetermined DEF dbVars
  <2> QED BY <2>1, NoLinkMoves
<1> QED BY <1>1, <1>2, <1>3 DEF Next

(* The pointers, flags and sessions of CedarMySQLDB keep the promise of    *)
(* DBLink for every number of processes, names and sessions: a link lost   *)
(* at the server is mended only by close() or by the end of the process.   *)
THEOREM HandlesImplementLinks == Spec => ImplementsDBLink
BY InitLink, NextLink, Invariance, PTL DEF Spec, ImplementsDBLink, Link!Spec

-----------------------------------------------------------------------------
(* What a caller finds who does not close a handle after its loss.         *)

LEMMA LostMeans ==
  ASSUME IInv, NEW p \in Process, NEW n \in Name, LinkOf(p, n) = "lost"
  PROVE  /\ n \in db_map[p] /\ is_open[p][n] /\ connection[p][n] \notin session
         /\ ~Reaches(p, n)
BY LinkValues DEF IInv, TypeOK, Reaches

(* By DBLink a lost link goes down or vanishes, if it goes anywhere.       *)
LEMMA LostLasts ==
  ASSUME IInv, IInv', [Next]_dbVars, NEW p \in Process, NEW n \in Name,
         LinkOf(p, n) = "lost", is_open'[p][n]
  PROVE  LinkOf(p, n)' = "lost"
<1>1. [Link!Next]_LinkState
  BY NextLink
<1>2. LinkState[p][n] = "lost" /\ LinkState'[p][n] = LinkOf(p, n)'
  BY DEF LinkState
<1>3. LinkState'[p][n] \in {"lost", "down", "none"}
  <2> USE <1>2 DEF Link!Make, Link!Connect, Link!Lose, Link!Release, Link!End, Link!Moves
  <2>1. LinkState = [q \in Process |-> [m \in Name |-> LinkOf(q, m)]]
    BY DEF LinkState
  <2>2. CASE LinkState' = LinkState
    BY <2>2
  <2>3. ASSUME NEW q \in Process, NEW m \in Name,
               Link!Make(q, m) \/ Link!Connect(q, m) \/ Link!Lose(q, m)
        PROVE  LinkState'[p][n] = "lost"
    BY <2>1, <2>3
  <2>4. ASSUME NEW q \in Process, NEW M \in SUBSET Name, Link!Release(q, M)
        PROVE  LinkState'[p][n] \in {"lost", "down"}
    BY <2>1, <2>4
  <2>5. ASSUME NEW q \in Process, Link!End(q)
        PROVE  LinkState'[p][n] \in {"lost", "none"}
    BY <2>1, <2>5
  <2> QED BY <1>1, <2>2, <2>3, <2>4, <2>5 DEF Link!Next
<1>4. n \in db_map'[p] /\ is_open'[p][n] \in BOOLEAN
  BY DEF IInv, TypeOK
<1> QED BY <1>2, <1>3, <1>4 DEF LinkOf

=============================================================================
