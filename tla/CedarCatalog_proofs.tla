------------------------- MODULE CedarCatalog_proofs -------------------------
(***************************************************************************)
(* The theorems about CedarCatalog.  Every step of the caches is, for the  *)
(* database handles, a step of CedarDB or none (CatNextIsDB), so what is   *)
(* proved of CedarDB holds here without a new proof.                       *)
(***************************************************************************)
EXTENDS CedarCatalog, CedarDB_proofs

-----------------------------------------------------------------------------
(* CedarCatalog calls nothing but the public methods of CedarDB.           *)

LEMMA OutcomeCalls ==
  ASSUME NEW p \in Process, NEW r \in Outcome \cup {"crash"}, run_query(p, Catalog, r)
  PROVE  Caller(p)
BY CatalogAssumption DEF Caller

LEMMA CatNextIsDB == CatNext => [Next]_dbVars
<1> SUFFICES ASSUME CatNext
             PROVE  [Next]_dbVars
  OBVIOUS
<1>1. ASSUME NEW p \in Process, CatProcess(p)
      PROVE  Caller(p)
  <2>1. CASE Initialize(p)
    BY <2>1, CatalogAssumption DEF Initialize, Caller
  <2>2. CASE \E k \in Key : Load(p, k)
    BY <2>2, CatalogAssumption DEF Load, Stored, Caller
  <2>3. CASE MainQuery(p)
    BY <2>3, OutcomeCalls DEF MainQuery, QueryThrows, QueryCrashes, Outcome
  <2>4. CASE SiteQuery(p)
    BY <2>4, OutcomeCalls DEF SiteQuery, SiteAnswer, QueryThrows, QueryCrashes, Outcome
  <2>5. CASE Store(p) \/ Abandon(p)
    BY <2>5, CatalogAssumption DEF Store, Abandon, Caller
  <2>6. CASE Terminate(p)
    BY <2>6 DEF Terminate, Caller
  <2>7. CASE ProcessStarts(p) \/ ProcessExits(p)
    BY <2>7 DEF ProcessStarts, ProcessExits, Caller
  <2> QED BY <1>1, <2>1, <2>2, <2>3, <2>4, <2>5, <2>6, <2>7 DEF CatProcess
<1>2. CASE SessionDrops
  BY <1>2 DEF SessionDrops, Next
<1>3. CASE \E k \in Key : MainChanges(k)
  BY <1>3 DEF MainChanges
<1>4. CASE \E k \in Kinst : SiteChanges(k)
  BY <1>4 DEF SiteChanges
<1> QED BY <1>1, <1>2, <1>3, <1>4 DEF CatNext, Next

LEMMA CatIsDB == CatSpec => Spec
<1>1. CatInit => Init
  BY DEF CatInit
<1>2. [CatNext]_catVars => [Next]_dbVars
  BY CatNextIsDB DEF catVars
<1> QED BY <1>1, <1>2, PTL DEF CatSpec, Spec

(* Whatever the two caches do, the Catalog handles keep the promise of     *)
(* DBLink, and no load ever leaves a session behind that no handle owns.   *)
THEOREM CatalogLinks == CatSpec => ImplementsDBLink /\ []SessionsOwned
BY CatIsDB, HandlesImplementLinks, NoSessionLeaks, PTL

-----------------------------------------------------------------------------
(* The inductive invariant.                                                *)

LEMMA CatInitIInv == CatInit => CatIInv
<1> SUFFICES ASSUME CatInit
             PROVE  CatIInv
  OBVIOUS
<1> USE DEF CatInit
<1>1. IInv
  BY InitIInv
<1>2. CatTypeOK
  BY <1>1 DEF CatTypeOK, Knows, IInv, NoEntry, NothingSeen, EmptyList, Rest, Init
<1>3. ReleasedAtRest
  BY CatalogAssumption DEF ReleasedAtRest, Init, NoHandle
<1>4. FoundIsSeen
  BY DEF FoundIsSeen
<1> QED BY <1>1, <1>2, <1>3, <1>4 DEF CatIInv

\* A query that is answered, or whose exception is passed on.
LEMMA QueryHandle ==
  ASSUME IInv, NEW p \in Process, NEW r \in Outcome, run_query(p, Catalog, r)
  PROVE  /\ p \in running /\ running' = running
         /\ r = "ok" => is_open'[p][Catalog]
         /\ is_open[p][Catalog] => is_open'[p][Catalog]
         /\ \A q \in Process : q # p => is_open'[q] = is_open[q]
<1> USE CatalogAssumption DEF IInv, TypeOK, run_query, Built, Statement, OpenFails, Opened, Outcome
<1> QED OBVIOUS

LEMMA EndHandle ==
  ASSUME IInv, NEW p \in Process, End(p)
  PROVE  /\ running' = running \ {p}
         /\ ~is_open'[p][Catalog]
         /\ \A q \in Process : q # p => is_open'[q] = is_open[q]
BY CatalogAssumption DEF IInv, TypeOK, End, NoHandle

LEMMA CloseHandle ==
  ASSUME IInv, NEW p \in Process, close(p, Catalog), is_open[p][Catalog]
  PROVE  /\ p \in running /\ running' = running
         /\ ~is_open'[p][Catalog]
         /\ \A q \in Process : q # p => is_open'[q] = is_open[q]
<1>1. connection[p][Catalog] # Uninitialized
  BY CatalogAssumption, PointerAssumption DEF IInv, FlagMatchesPointer, Pointer
<1>2. Closes(p, {Catalog}) /\ p \in running
  BY <1>1 DEF close, Built
<1> QED BY <1>2, CatalogAssumption DEF Closes, IInv, TypeOK

LEMMA TerminateHandle ==
  ASSUME IInv, NEW p \in Process, Close(p)
  PROVE  /\ p \in running /\ running' = running
         /\ ~is_open'[p][Catalog]
         /\ \A q \in Process : q # p => is_open'[q] = is_open[q]
BY CatalogAssumption DEF Close, Closes, IInv, TypeOK

-----------------------------------------------------------------------------
(* One lemma for each action: the caches' part of the invariant, given     *)
(* that the handles' part holds after the step (IInv').                    *)

LEMMA InitializeIInv ==
  ASSUME CatIInv, IInv', NEW p \in Process, Initialize(p)
  PROVE  CatIInv'
<1> USE DEF CatIInv, Initialize, Add_DB_Builder, Goes, Rest
<1>1. CatTypeOK'
  BY DEF CatTypeOK, Knows, IInv
<1>2. ReleasedAtRest'
  BY DEF CatTypeOK, Knows, ReleasedAtRest
<1>3. FoundIsSeen'
  BY DEF CatTypeOK, Knows, FoundIsSeen
<1> QED BY <1>1, <1>2, <1>3

LEMMA LoadIInv ==
  ASSUME CatIInv, IInv', NEW p \in Process, NEW k \in Key, Load(p, k)
  PROVE  CatIInv'
<1> USE DEF CatIInv, Load, Stored, DB, Goes, Rest
<1>1. CatTypeOK'
  <2>1. [main |-> {main[k]}, site |-> IF k \in Kinst THEN {site[k]} ELSE {NoRow}]
          \in [main : SUBSET Rows, site : SUBSET Rows]
    BY DEF CatTypeOK, Rows
  <2> QED BY <2>1 DEF CatTypeOK, Knows, IInv, NoEntry
<1>2. ReleasedAtRest'
  BY DEF CatTypeOK, Knows, ReleasedAtRest
<1>3. FoundIsSeen'
  BY DEF CatTypeOK, Knows, FoundIsSeen
<1> QED BY <1>1, <1>2, <1>3

LEMMA ThrowIInv ==
  ASSUME CatIInv, IInv', NEW p \in Process, QueryThrows(p), UNCHANGED <<main, site>>
  PROVE  CatIInv'
<1>1. PICK r \in Outcome : run_query(p, Catalog, r)
  BY DEF QueryThrows
<1>2. /\ p \in running /\ running' = running
      /\ \A q \in Process : q # p => is_open'[q] = is_open[q]
  BY <1>1, QueryHandle DEF CatIInv
<1> USE <1>2 DEF CatIInv, QueryThrows, Goes, Rest
<1>3. CatTypeOK'
  BY DEF CatTypeOK, Knows, IInv
<1>4. ReleasedAtRest'
  BY DEF CatTypeOK, Knows, ReleasedAtRest
<1>5. FoundIsSeen'
  BY DEF CatTypeOK, Knows, FoundIsSeen
<1> QED BY <1>3, <1>4, <1>5

LEMMA VanishIInv ==
  ASSUME CatIInv, IInv', NEW p \in Process, End(p), Vanishes(p), UNCHANGED <<main, site>>
  PROVE  CatIInv'
<1>1. /\ running' = running \ {p}
      /\ ~is_open'[p][Catalog]
      /\ \A q \in Process : q # p => is_open'[q] = is_open[q]
  BY EndHandle DEF CatIInv
<1> USE <1>1 DEF CatIInv, Vanishes, Goes, Rest
<1>2. CatTypeOK'
  <2>1. NoEntry \in [main : Row \cup {NoRow}, site : Row \cup {NoRow}]
    BY DEF NoEntry
  <2>2. NothingSeen \in [main : SUBSET Rows, site : SUBSET Rows]
    BY DEF NothingSeen
  <2> QED BY <2>1, <2>2 DEF CatTypeOK, Knows, IInv, EmptyList
<1>3. ReleasedAtRest'
  BY DEF CatTypeOK, Knows, ReleasedAtRest
<1>4. FoundIsSeen'
  BY DEF CatTypeOK, Knows, FoundIsSeen
<1> QED BY <1>2, <1>3, <1>4

LEMMA MainQueryIInv ==
  ASSUME CatIInv, IInv', NEW p \in Process, MainQuery(p)
  PROVE  CatIInv'
<1>1. CASE QueryThrows(p)
  BY <1>1, ThrowIInv DEF MainQuery
<1>2. CASE QueryCrashes(p)
  BY <1>2, VanishIInv DEF MainQuery, QueryCrashes, run_query, CatIInv, Statement
<1>3. CASE run_query(p, Catalog, "ok") /\ ~QueryThrows(p) /\ ~QueryCrashes(p)
  <2>1. /\ p \in running /\ running' = running
        /\ is_open'[p][Catalog]
        /\ \A q \in Process : q # p => is_open'[q] = is_open[q]
    BY <1>3, QueryHandle DEF CatIInv, Outcome
  <2>2. /\ pc[p] = "main"
        /\ IF main[arg[p]] \in Row
             THEN /\ found' = [found EXCEPT ![p].main = main[arg[p]]]
                  /\ Goes(p, IF arg[p] \in Kinst THEN "site" ELSE "store")
             ELSE Goes(p, "abandon") /\ UNCHANGED found
        /\ UNCHANGED <<stored_list, arg, seen, main, site>>
    BY <1>3 DEF MainQuery, ExactlyOne
  <2>3. found[p] = NoEntry /\ found[p] \in [main : Row \cup {NoRow}, site : Row \cup {NoRow}]
    BY <2>2 DEF CatIInv, CatTypeOK, Knows
  <2>4. CASE main[arg[p]] \in Row
    <3> DEFINE l == IF arg[p] \in Kinst THEN "site" ELSE "store"
    <3>1. /\ pc' = [pc EXCEPT ![p] = l]
          /\ found' = [found EXCEPT ![p] = [main |-> main[arg[p]], site |-> NoRow]]
          /\ UNCHANGED <<stored_list, arg, seen, main, site>>
      BY <2>2, <2>3, <2>4 DEF Goes, CatIInv, CatTypeOK, NoEntry
    <3>2. l = IF arg[p] \in Kinst THEN "site" ELSE "store"
      OBVIOUS
    <3> HIDE DEF l
    <3>3. [main |-> main[arg[p]], site |-> NoRow] \in Entry(arg[p])
      BY <2>4 DEF Entry, Entries
    <3>4. CatTypeOK'
      <4>1. \A q \in Process : Knows(q)'
        <5>1. ASSUME NEW q \in Process, q # p
              PROVE  Knows(q)'
          BY <2>1, <3>1, <5>1 DEF CatIInv, CatTypeOK, Knows
        <5>2. Knows(p)'
          BY <2>1, <2>4, <3>1, <3>2, <3>3 DEF CatIInv, CatTypeOK, Knows
        <5> QED BY <5>1, <5>2
      <4> QED BY <2>4, <3>1, <3>2, <4>1 DEF CatIInv, CatTypeOK, IInv
    <3>5. ReleasedAtRest'
      BY <2>1, <3>1, <3>2 DEF CatIInv, CatTypeOK, ReleasedAtRest, Rest
    <3>6. FoundIsSeen'
      BY <2>2, <2>4, <3>1, <3>2 DEF CatIInv, CatTypeOK, FoundIsSeen
    <3> QED BY <3>4, <3>5, <3>6 DEF CatIInv
  <2>5. CASE main[arg[p]] \notin Row
    <3>1. pc' = [pc EXCEPT ![p] = "abandon"]
          /\ UNCHANGED <<stored_list, arg, found, seen, main, site>>
      BY <2>2, <2>5 DEF Goes
    <3>2. CatTypeOK'
      BY <2>1, <3>1 DEF CatIInv, CatTypeOK, Knows, IInv
    <3>3. ReleasedAtRest'
      BY <2>1, <3>1 DEF CatIInv, CatTypeOK, ReleasedAtRest, Rest
    <3>4. FoundIsSeen'
      BY <3>1 DEF CatIInv, CatTypeOK, FoundIsSeen
    <3> QED BY <3>2, <3>3, <3>4 DEF CatIInv
  <2> QED BY <2>4, <2>5
<1> QED BY <1>1, <1>2, <1>3 DEF MainQuery

LEMMA SiteQueryIInv ==
  ASSUME CatIInv, IInv', NEW p \in Process, SiteQuery(p)
  PROVE  CatIInv'
<1>1. CASE QueryThrows(p)
  BY <1>1, ThrowIInv DEF SiteQuery
<1>2. CASE QueryCrashes(p)
  BY <1>2, VanishIInv DEF SiteQuery, QueryCrashes, run_query, CatIInv, Statement
<1>3. CASE SiteAnswer(p)
  <2>1. /\ p \in running /\ running' = running
        /\ is_open'[p][Catalog]
        /\ \A q \in Process : q # p => is_open'[q] = is_open[q]
    BY <1>3, QueryHandle DEF SiteAnswer, CatIInv, Outcome
  <2>2. pc[p] = "site" /\ arg[p] \in Kinst /\ site[arg[p]] \in Rows
    BY DEF SiteQuery, CatIInv, CatTypeOK, Knows
  <2>3. UNCHANGED <<stored_list, arg, seen, main, site>>
    BY <1>3 DEF SiteQuery, SiteAnswer
  <2>4. CASE site[arg[p]] = ManyRows
    <3>1. pc' = [pc EXCEPT ![p] = "abandon"] /\ UNCHANGED found
      BY <1>3, <2>4 DEF SiteAnswer, Goes
    <3>2. CatTypeOK'
      BY <2>1, <2>3, <3>1 DEF CatIInv, CatTypeOK, Knows, IInv
    <3>3. ReleasedAtRest'
      BY <2>1, <3>1 DEF CatIInv, CatTypeOK, ReleasedAtRest, Rest
    <3>4. FoundIsSeen'
      BY <2>3, <3>1 DEF CatIInv, CatTypeOK, FoundIsSeen
    <3> QED BY <3>2, <3>3, <3>4 DEF CatIInv
  <2>5. CASE site[arg[p]] # ManyRows
    <3>1. /\ pc' = [pc EXCEPT ![p] = "store"]
          /\ found' = [found EXCEPT ![p].site = site[arg[p]]]
      BY <1>3, <2>5 DEF SiteAnswer, Goes
    <3>2. /\ found'[p] = [main |-> found[p].main, site |-> site[arg[p]]]
          /\ found' = [found EXCEPT ![p] = [main |-> found[p].main, site |-> site[arg[p]]]]
      <4>1. /\ found \in [Process -> [main : Row \cup {NoRow}, site : Row \cup {NoRow}]]
            /\ found[p] \in [main : Row \cup {NoRow}, site : Row \cup {NoRow}]
        BY DEF CatIInv, CatTypeOK
      <4>2. [found[p] EXCEPT !.site = site[arg[p]]]
              = [main |-> found[p].main, site |-> site[arg[p]]]
        BY <4>1
      <4>3. found' = [found EXCEPT ![p] = [found[p] EXCEPT !.site = site[arg[p]]]]
        BY <3>1, <4>1
      <4> QED BY <4>1, <4>2, <4>3
    <3>3. [main |-> found[p].main, site |-> site[arg[p]]] \in Entry(arg[p])
      BY <2>2, <2>5 DEF CatIInv, CatTypeOK, Knows, Entry, Entries, Rows
    <3>4. CatTypeOK'
      <4>1. ASSUME NEW q \in Process, q # p
            PROVE  Knows(q)'
        BY <2>1, <2>3, <3>1, <3>2, <4>1 DEF CatIInv, CatTypeOK, Knows
      <4>2. Knows(p)'
        BY <2>1, <2>2, <2>3, <3>1, <3>2, <3>3 DEF CatIInv, CatTypeOK, Knows
      <4>3. found' \in [Process -> [main : Row \cup {NoRow}, site : Row \cup {NoRow}]]
        BY <2>2, <2>5, <3>2 DEF CatIInv, CatTypeOK, Knows, Rows
      <4> QED BY <2>3, <3>1, <4>1, <4>2, <4>3 DEF CatIInv, CatTypeOK, IInv
    <3>5. ReleasedAtRest'
      BY <2>1, <3>1 DEF CatIInv, CatTypeOK, ReleasedAtRest, Rest
    <3>6. FoundIsSeen'
      BY <2>2, <2>3, <3>1, <3>2 DEF CatIInv, CatTypeOK, FoundIsSeen
    <3> QED BY <3>4, <3>5, <3>6 DEF CatIInv
  <2> QED BY <2>4, <2>5
<1> QED BY <1>1, <1>2, <1>3 DEF SiteQuery

LEMMA StoreIInv ==
  ASSUME CatIInv, IInv', NEW p \in Process, Store(p)
  PROVE  CatIInv'
<1>1. is_open[p][Catalog] /\ found[p] \in Entry(arg[p])
  BY DEF Store, CatIInv, CatTypeOK, Knows
<1>2. /\ p \in running /\ running' = running
      /\ ~is_open'[p][Catalog]
      /\ \A q \in Process : q # p => is_open'[q] = is_open[q]
  BY <1>1, CloseHandle DEF Store, CatIInv
<1>3. /\ pc' = [pc EXCEPT ![p] = "idle"]
      /\ stored_list' = [stored_list EXCEPT ![p][arg[p]] = found[p]]
      /\ UNCHANGED <<main, site, arg, found, seen>>
  BY DEF Store, Goes
<1>4. CatTypeOK'
  <2>1. ASSUME NEW q \in Process, q # p
        PROVE  Knows(q)'
    BY <1>2, <1>3, <2>1 DEF CatIInv, CatTypeOK, Knows
  <2>2. Knows(p)'
    BY <1>1, <1>2, <1>3 DEF CatIInv, CatTypeOK, Knows
  <2>3. stored_list' \in [Process -> [Key -> Entries \cup {Absent}]]
    BY <1>1, <1>3 DEF CatIInv, CatTypeOK, Entry
  <2> QED BY <1>3, <2>1, <2>2, <2>3 DEF CatIInv, CatTypeOK, Rest, IInv
<1>5. ReleasedAtRest'
  BY <1>2, <1>3 DEF CatIInv, CatTypeOK, ReleasedAtRest
<1>6. FoundIsSeen'
  BY <1>3 DEF CatIInv, CatTypeOK, FoundIsSeen
<1> QED BY <1>4, <1>5, <1>6 DEF CatIInv

LEMMA AbandonIInv ==
  ASSUME CatIInv, IInv', NEW p \in Process, Abandon(p) \/ Terminate(p)
  PROVE  CatIInv'
<1>1. /\ p \in running /\ running' = running
      /\ ~is_open'[p][Catalog]
      /\ \A q \in Process : q # p => is_open'[q] = is_open[q]
  <2>1. CASE Abandon(p)
    BY <2>1, CloseHandle DEF Abandon, CatIInv, CatTypeOK, Knows
  <2>2. CASE Terminate(p)
    BY <2>2, TerminateHandle DEF Terminate, CatIInv
  <2> QED BY <2>1, <2>2
<1>2. PICK l \in {"idle", "terminated"} :
        /\ pc' = [pc EXCEPT ![p] = l]
        /\ UNCHANGED <<main, site, stored_list, arg, found, seen>>
  BY DEF Abandon, Terminate, Goes
<1>3. CatTypeOK'
  BY <1>1, <1>2 DEF CatIInv, CatTypeOK, Knows, Rest, IInv
<1>4. ReleasedAtRest'
  BY <1>1, <1>2 DEF CatIInv, CatTypeOK, ReleasedAtRest
<1>5. FoundIsSeen'
  BY <1>2 DEF CatIInv, CatTypeOK, FoundIsSeen
<1> QED BY <1>3, <1>4, <1>5 DEF CatIInv

\* Processes that start, sessions that end, tables that change.
LEMMA EnvironmentIInv ==
  ASSUME CatIInv, IInv', UNCHANGED <<is_open, stored_list, pc, arg, found>>,
         running \subseteq running'
  PROVE  /\ UNCHANGED <<main, site, seen>> => CatIInv'
         /\ \A k \in Key : MainChanges(k) => CatIInv'
         /\ \A k \in Kinst : SiteChanges(k) => CatIInv'
<1>1. ReleasedAtRest'
  BY DEF CatIInv, ReleasedAtRest
<1>2. \A p \in Process : Knows(p)'
  BY DEF CatIInv, CatTypeOK, Knows
<1>3. ASSUME UNCHANGED <<main, site, seen>>
      PROVE  CatIInv'
  BY <1>1, <1>2, <1>3 DEF CatIInv, CatTypeOK, FoundIsSeen, IInv
<1>4. ASSUME NEW k \in Key, MainChanges(k)
      PROVE  CatIInv'
  <2>1. PICK rows \in Rows : /\ main' = [main EXCEPT ![k] = rows]
                             /\ Observes(k, "main", rows)
                             /\ UNCHANGED site
    BY <1>4 DEF MainChanges
  <2>2. \A p \in Process :
          /\ seen'[p].site = seen[p].site
          /\ seen'[p].main = IF pc[p] \in {"main", "site"} /\ arg[p] = k
                               THEN seen[p].main \cup {rows} ELSE seen[p].main
          /\ seen'[p] \in [main : SUBSET Rows, site : SUBSET Rows]
    BY <2>1 DEF Observes, CatIInv, CatTypeOK
  <2>3. CatTypeOK'
    BY <1>2, <2>1, <2>2 DEF CatIInv, CatTypeOK, Observes, IInv
  <2>4. FoundIsSeen'
    BY <2>1, <2>2 DEF CatIInv, CatTypeOK, FoundIsSeen
  <2> QED BY <1>1, <2>3, <2>4 DEF CatIInv
<1>5. ASSUME NEW k \in Kinst, SiteChanges(k)
      PROVE  CatIInv'
  <2>1. PICK rows \in Rows : /\ site' = [site EXCEPT ![k] = rows]
                             /\ Observes(k, "site", rows)
                             /\ UNCHANGED main
    BY <1>5 DEF SiteChanges
  <2>2. \A p \in Process :
          /\ seen'[p].main = seen[p].main
          /\ seen'[p].site = IF pc[p] \in {"main", "site"} /\ arg[p] = k
                               THEN seen[p].site \cup {rows} ELSE seen[p].site
          /\ seen'[p] \in [main : SUBSET Rows, site : SUBSET Rows]
    BY <2>1 DEF Observes, CatIInv, CatTypeOK
  <2>3. CatTypeOK'
    BY <1>2, <2>1, <2>2 DEF CatIInv, CatTypeOK, Observes, IInv
  <2>4. FoundIsSeen'
    BY <2>1, <2>2 DEF CatIInv, CatTypeOK, FoundIsSeen
  <2> QED BY <1>1, <2>3, <2>4 DEF CatIInv
<1> QED BY <1>3, <1>4, <1>5

LEMMA CatNextIInv == CatIInv /\ [CatNext]_catVars => CatIInv'
<1> SUFFICES ASSUME CatIInv, [CatNext]_catVars
             PROVE  CatIInv'
  OBVIOUS
<1>1. IInv'
  BY CatNextIsDB, NextIInv DEF CatIInv, catVars
<1>2. ASSUME NEW p \in Process, CatProcess(p)
      PROVE  CatIInv'
  <2>1. CASE Initialize(p)
    BY <1>1, <2>1, InitializeIInv
  <2>2. CASE \E k \in Key : Load(p, k)
    BY <1>1, <2>2, LoadIInv
  <2>3. CASE MainQuery(p)
    BY <1>1, <2>3, MainQueryIInv
  <2>4. CASE SiteQuery(p)
    BY <1>1, <2>4, SiteQueryIInv
  <2>5. CASE Store(p)
    BY <1>1, <2>5, StoreIInv
  <2>6. CASE Abandon(p) \/ Terminate(p)
    BY <1>1, <2>6, AbandonIInv
  <2>7. CASE ProcessStarts(p)
    BY <1>1, <2>7, EnvironmentIInv DEF ProcessStarts, Start, loadVars
  <2>8. CASE ProcessExits(p)
    BY <1>1, <2>8, VanishIInv DEF ProcessExits, Exit
  <2> QED BY <1>2, <2>1, <2>2, <2>3, <2>4, <2>5, <2>6, <2>7, <2>8 DEF CatProcess
<1>3. CASE SessionDrops
  BY <1>1, <1>3, EnvironmentIInv DEF SessionDrops, Drop, loadVars
<1>4. CASE \E k \in Key : MainChanges(k)
  BY <1>1, <1>4, EnvironmentIInv DEF MainChanges, dbVars
<1>5. CASE \E k \in Kinst : SiteChanges(k)
  BY <1>1, <1>5, EnvironmentIInv DEF SiteChanges, dbVars
<1>6. CASE UNCHANGED catVars
  BY <1>1, <1>6, EnvironmentIInv DEF catVars, dbVars, loadVars
<1> QED BY <1>2, <1>3, <1>4, <1>5, <1>6 DEF CatNext

LEMMA CatInvariance == CatSpec => []CatIInv
BY CatInitIInv, CatNextIInv, PTL DEF CatSpec

(* The caches are well formed, and no load closes a handle that it has not *)
(* opened: the unset _connection of a new CedarMySQLDB is never deleted.   *)
THEOREM CatTypeCorrect == CatSpec => []CatTypeOK
<1>1. CatIInv => CatTypeOK
  BY DEF CatIInv
<1> QED BY <1>1, CatInvariance, PTL

(* Between loads a process holds a Catalog session only after a run_query  *)
(* that threw, however many loads of whatever keys came before.            *)
THEOREM CatalogReleased == CatSpec => []ReleasedAtRest
<1>1. CatIInv => ReleasedAtRest
  BY DEF CatIInv
<1> QED BY <1>1, CatInvariance, PTL

-----------------------------------------------------------------------------
(* What a step can do to the caches.                                       *)

Stores(p) ==
  /\ pc[p] = "store"
  /\ stored_list' = [stored_list EXCEPT ![p][arg[p]] = found[p]]

Clears(p) == stored_list' = [stored_list EXCEPT ![p] = EmptyList]

LEMMA CacheSteps ==
  ASSUME [CatNext]_catVars
  PROVE  \/ stored_list' = stored_list
         \/ \E p \in Process : Stores(p) \/ Clears(p)
<1>1. ASSUME NEW p \in Process, CatProcess(p)
      PROVE  stored_list' = stored_list \/ Stores(p) \/ Clears(p)
  <2>1. CASE Initialize(p) \/ Abandon(p) \/ Terminate(p) \/ ProcessStarts(p)
    BY <2>1 DEF Initialize, Abandon, Terminate, ProcessStarts, loadVars
  <2>2. CASE \E k \in Key : Load(p, k)
    BY <2>2 DEF Load, Stored
  <2>3. CASE MainQuery(p) \/ SiteQuery(p)
    BY <2>3 DEF MainQuery, SiteQuery, SiteAnswer, QueryThrows, QueryCrashes, Vanishes, Clears
  <2>4. CASE Store(p)
    BY <2>4 DEF Store, Stores
  <2>5. CASE ProcessExits(p)
    BY <2>5 DEF ProcessExits, Vanishes, Clears
  <2> QED BY <1>1, <2>1, <2>2, <2>3, <2>4, <2>5 DEF CatProcess
<1>2. CASE SessionDrops \/ UNCHANGED catVars
  BY <1>2 DEF SessionDrops, catVars, loadVars
<1>3. CASE (\E k \in Key : MainChanges(k)) \/ (\E k \in Kinst : SiteChanges(k))
  BY <1>3 DEF MainChanges, SiteChanges
<1> QED BY <1>1, <1>2, <1>3 DEF CatNext

(* What one step adds to a cache, the load that adds it has seen. *)
GenuineStep ==
  \A p \in Process, k \in Key :
    stored_list'[p][k] \notin {stored_list[p][k], Absent} =>
      /\ stored_list'[p][k].main \in seen[p].main
      /\ stored_list'[p][k].site \in seen[p].site

LEMMA CacheGenuine == CatIInv /\ [CatNext]_catVars => GenuineStep
<1> SUFFICES ASSUME CatIInv, [CatNext]_catVars
             PROVE  GenuineStep
  OBVIOUS
<1>1. CASE stored_list' = stored_list
  BY <1>1 DEF GenuineStep
<1>2. CASE \E p \in Process : Clears(p)
  BY <1>2 DEF Clears, EmptyList, GenuineStep, CatIInv, CatTypeOK
<1>3. ASSUME NEW p \in Process, Stores(p)
      PROVE  GenuineStep
  <2>1. found[p].main \in seen[p].main /\ found[p].site \in seen[p].site
    <3>1. found[p] \in Entry(arg[p])
      BY <1>3 DEF Stores, CatIInv, CatTypeOK, Knows
    <3> QED BY <1>3, <3>1 DEF Stores, CatIInv, FoundIsSeen, Entry
  <2>2. ASSUME NEW q \in Process, NEW k \in Key,
               stored_list'[q][k] # stored_list[q][k]
        PROVE  q = p /\ stored_list'[q][k] = found[p]
    <3>1. stored_list \in [Process -> [Key -> Entries \cup {Absent}]] /\ arg[p] \in Key
      BY DEF CatIInv, CatTypeOK
    <3>2. CASE q # p
      BY <1>3, <2>2, <3>1, <3>2 DEF Stores
    <3>3. CASE q = p
      BY <1>3, <2>2, <3>1, <3>3 DEF Stores
    <3> QED BY <3>2, <3>3
  <2> QED BY <2>1, <2>2 DEF GenuineStep
<1> QED BY <1>1, <1>2, <1>3, CacheSteps

(* No error, no missing row and no doubled one is ever made into an entry, *)
(* however many sessions are lost and however the tables change meanwhile. *)
THEOREM CatalogGenuine == CatSpec => EntriesGenuine
<1>1. CatIInv /\ [CatNext]_catVars => [GenuineStep]_catVars
  BY CacheGenuine
<1>2. [GenuineStep]_catVars =>
        [\A p \in Process, k \in Key :
           stored_list'[p][k] \notin {stored_list[p][k], Absent} =>
             /\ stored_list'[p][k].main \in seen[p].main
             /\ stored_list'[p][k].site \in seen[p].site]_catVars
  BY DEF GenuineStep
<1> QED BY <1>1, <1>2, CatInvariance, PTL DEF CatSpec, EntriesGenuine

-----------------------------------------------------------------------------
(* The caches are memo tables.                                             *)

\* Nobody stores twice: between the lookup of Load and Store no entry is made.
Missing == \A p \in Process : pc[p] \in {"main", "site", "store"} => stored_list[p][arg[p]] = Absent

\* What a step can do to the control of a load.
LEMMA LoadSteps ==
  ASSUME CatIInv, [CatNext]_catVars, NEW q \in Process,
         pc'[q] \in {"main", "site", "store"}
  PROVE  \/ pc[q] \in {"main", "site", "store"} /\ arg'[q] = arg[q] /\ pc[q] # "store"
         \/ pc'[q] = pc[q] /\ arg'[q] = arg[q]
         \/ stored_list[q][arg'[q]] = Absent /\ stored_list' = stored_list
<1> USE DEF CatIInv, CatTypeOK, Goes, Rest
<1>1. ASSUME NEW p \in Process, CatProcess(p)
      PROVE  \/ pc[q] \in {"main", "site", "store"} /\ arg'[q] = arg[q] /\ pc[q] # "store"
             \/ pc'[q] = pc[q] /\ arg'[q] = arg[q]
             \/ stored_list[q][arg'[q]] = Absent /\ stored_list' = stored_list
  <2>1. CASE Initialize(p) \/ Abandon(p) \/ Terminate(p) \/ ProcessStarts(p)
    BY <2>1 DEF Initialize, Abandon, Terminate, ProcessStarts, loadVars
  <2>2. CASE \E k \in Key : Load(p, k)
    BY <2>2 DEF Load, Stored
  <2>3. CASE MainQuery(p)
    BY <2>3 DEF MainQuery, QueryThrows, QueryCrashes, Vanishes
  <2>4. CASE SiteQuery(p)
    BY <2>4 DEF SiteQuery, SiteAnswer, QueryThrows, QueryCrashes, Vanishes
  <2>5. CASE Store(p)
    BY <2>5 DEF Store
  <2>6. CASE ProcessExits(p)
    BY <2>6 DEF ProcessExits, Vanishes
  <2> QED BY <1>1, <2>1, <2>2, <2>3, <2>4, <2>5, <2>6 DEF CatProcess
<1>2. CASE SessionDrops \/ UNCHANGED catVars
  BY <1>2 DEF SessionDrops, catVars, loadVars
<1>3. CASE (\E k \in Key : MainChanges(k)) \/ (\E k \in Kinst : SiteChanges(k))
  BY <1>3 DEF MainChanges, SiteChanges
<1> QED BY <1>1, <1>2, <1>3 DEF CatNext

LEMMA StoreMoves ==
  ASSUME CatIInv, [CatNext]_catVars, NEW p \in Process, pc[p] = "store",
         stored_list'[p] # stored_list[p]
  PROVE  pc'[p] \in {"idle", "new"}
<1> USE DEF CatIInv, CatTypeOK, Goes
<1>1. ASSUME NEW q \in Process, CatProcess(q)
      PROVE  pc'[p] \in {"idle", "new"}
  <2>1. CASE Initialize(q) \/ Abandon(q) \/ Terminate(q) \/ ProcessStarts(q)
    BY <2>1 DEF Initialize, Abandon, Terminate, ProcessStarts, loadVars
  <2>2. CASE \E k \in Key : Load(q, k)
    BY <2>2 DEF Load, Stored
  <2>3. CASE MainQuery(q) \/ SiteQuery(q)
    BY <2>3 DEF MainQuery, SiteQuery, SiteAnswer, QueryThrows, QueryCrashes, Vanishes
  <2>4. CASE Store(q)
    BY <2>4 DEF Store
  <2>5. CASE ProcessExits(q)
    BY <2>5 DEF ProcessExits, Vanishes
  <2> QED BY <1>1, <2>1, <2>2, <2>3, <2>4, <2>5 DEF CatProcess
<1>2. CASE SessionDrops \/ UNCHANGED catVars
  BY <1>2 DEF SessionDrops, catVars, loadVars
<1>3. CASE (\E k \in Key : MainChanges(k)) \/ (\E k \in Kinst : SiteChanges(k))
  BY <1>3 DEF MainChanges, SiteChanges
<1> QED BY <1>1, <1>2, <1>3 DEF CatNext

LEMMA MissingStep == CatIInv /\ CatIInv' /\ Missing /\ [CatNext]_catVars => Missing'
<1> SUFFICES ASSUME CatIInv, CatIInv', Missing, [CatNext]_catVars,
                    NEW q \in Process, pc'[q] \in {"main", "site", "store"}
             PROVE  stored_list'[q][arg'[q]] = Absent
  BY DEF Missing
<1>1. stored_list[q][arg'[q]] = Absent
  BY LoadSteps DEF Missing
<1>2. CASE stored_list' = stored_list
  BY <1>1, <1>2
<1>3. ASSUME NEW p \in Process, Clears(p)
      PROVE  stored_list'[q][arg'[q]] = Absent
  BY <1>1, <1>3 DEF Clears, EmptyList, CatIInv, CatTypeOK
<1>4. ASSUME NEW p \in Process, Stores(p)
      PROVE  stored_list'[q][arg'[q]] = Absent
  <2>1. CASE q # p
    BY <1>1, <1>4, <2>1 DEF Stores, CatIInv, CatTypeOK
  <2>2. CASE q = p
    BY <1>1, <1>4, <2>2, StoreMoves DEF Stores
  <2> QED BY <2>1, <2>2
<1> QED BY <1>2, <1>3, <1>4, CacheSteps

LEMMA MemoInit == CatInit => Memo!Init
BY DEF CatInit, EmptyList, Memo!Init

LEMMA MemoStep == CatIInv /\ Missing /\ [CatNext]_catVars => [Memo!Next]_stored_list
<1> SUFFICES ASSUME CatIInv, Missing, [CatNext]_catVars
             PROVE  [Memo!Next]_stored_list
  OBVIOUS
<1>1. ASSUME NEW p \in Process, Stores(p)
      PROVE  Memo!Next
  <2>1. /\ arg[p] \in Key /\ found[p] \in Entry(arg[p])
        /\ stored_list[p][arg[p]] = Absent
    BY <1>1 DEF Stores, Missing, CatIInv, CatTypeOK, Knows
  <2>2. Memo!Remember(p, arg[p])
    BY <1>1, <2>1 DEF Stores, Memo!Remember
  <2> QED BY <2>1, <2>2 DEF Memo!Next
<1>2. ASSUME NEW p \in Process, Clears(p)
      PROVE  Memo!Next
  BY <1>2 DEF Clears, EmptyList, Memo!Next, Memo!Forget
<1> QED BY <1>1, <1>2, CacheSteps

(* An entry never changes while its process lives, although loads end in   *)
(* every way a query can fail: an entry is stored only where none was.     *)
THEOREM CatalogIsMemo == CatSpec => CachesAreMemos
<1>1. CatInit => Missing
  BY DEF CatInit, Missing
<1> QED BY <1>1, MissingStep, MemoInit, MemoStep, CatInvariance, PTL
        DEF CatSpec, CachesAreMemos, Memo!Spec

-----------------------------------------------------------------------------
(* A loss before the last answer of a load.                                *)

\* The process that lost its session gains nothing, and does not close.
Denied(p) ==
  /\ is_open'[p][Catalog]
  /\ pc'[p] \notin {"store", "abandon"}
  /\ stored_list'[p] = stored_list[p]

LEMMA StuckQuery ==
  ASSUME CatIInv, NEW p \in Process, Stuck(p), p \in running',
         MainQuery(p) \/ SiteQuery(p)
  PROVE  Denied(p)
<1>1. is_open[p][Catalog] /\ ~Reaches(p, Catalog)
      /\ Channel(p, Catalog) = {connection[p][Catalog]}
      /\ connection[p][Catalog] \notin session
  BY LostMeans, CatalogAssumption DEF CatIInv, Stuck, Channel
<1>2. ~run_query(p, Catalog, "ok")
  BY <1>1 DEF run_query, Statement
<1>3. ~QueryCrashes(p)
  BY <1>1 DEF QueryCrashes, run_query, Statement
<1>4. QueryThrows(p)
  BY <1>2, <1>3 DEF MainQuery, SiteQuery, SiteAnswer
<1>5. is_open'[p][Catalog]
  BY <1>1, <1>4, QueryHandle DEF QueryThrows, CatIInv
<1> QED BY <1>4, <1>5 DEF QueryThrows, Goes, Denied, CatIInv, CatTypeOK

LEMMA StuckProcess ==
  ASSUME CatIInv, NEW p \in Process, Stuck(p), p \in running', pc'[p] # "terminated",
         CatProcess(p)
  PROVE  Denied(p)
<1>0. is_open[p][Catalog] /\ p \in running
  BY LostMeans, CatalogAssumption DEF CatIInv, Stuck, IInv, TypeOK
<1> USE DEF Denied, CatIInv, CatTypeOK, Goes, Stuck
<1>1. CASE Initialize(p)
  BY <1>0, <1>1 DEF Initialize, Add_DB_Builder
<1>2. CASE \E k \in Key : Load(p, k)
  BY <1>0, <1>2 DEF Load, Stored, DB
<1>3. CASE MainQuery(p) \/ SiteQuery(p)
  BY <1>3, StuckQuery
<1>4. CASE Store(p) \/ Abandon(p) \/ Terminate(p)
  BY <1>4 DEF Store, Abandon, Terminate
<1>5. CASE ProcessStarts(p)
  BY <1>0, <1>5 DEF ProcessStarts, Start
<1>6. CASE ProcessExits(p)
  BY <1>6 DEF ProcessExits, Exit, End
<1> QED BY <1>1, <1>2, <1>3, <1>4, <1>5, <1>6 DEF CatProcess

\* The step of another process changes nothing of this one's.
LEMMA OthersProcess ==
  ASSUME CatIInv, NEW p \in Process, NEW q \in Process, q # p, CatProcess(q)
  PROVE  /\ is_open'[p] = is_open[p]
         /\ pc'[p] = pc[p]
         /\ stored_list'[p] = stored_list[p]
<1> USE DEF CatIInv, CatTypeOK, Goes
<1>1. CASE Initialize(q)
  BY <1>1 DEF Initialize, Add_DB_Builder
<1>2. CASE \E k \in Key : Load(q, k)
  BY <1>2 DEF Load, Stored, DB
<1>3. CASE MainQuery(q) \/ SiteQuery(q)
  <2>1. is_open'[p] = is_open[p]
    <3>1. CASE \E r \in Outcome : run_query(q, Catalog, r)
      BY <3>1, QueryHandle
    <3>2. CASE QueryCrashes(q)
      BY <3>2, EndHandle DEF QueryCrashes, run_query, Statement
    <3> QED BY <1>3, <3>1, <3>2 DEF MainQuery, SiteQuery, SiteAnswer, QueryThrows, Outcome
  <2> QED BY <1>3, <2>1 DEF MainQuery, SiteQuery, SiteAnswer, QueryThrows, QueryCrashes, Vanishes
<1>4. CASE Store(q) \/ Abandon(q)
  <2>1. is_open[q][Catalog]
    BY <1>4 DEF Store, Abandon, Knows
  <2> QED BY <1>4, <2>1, CloseHandle DEF Store, Abandon
<1>5. CASE Terminate(q)
  BY <1>5, TerminateHandle DEF Terminate
<1>6. CASE ProcessStarts(q)
  BY <1>6 DEF ProcessStarts, Start, loadVars
<1>7. CASE ProcessExits(q)
  BY <1>7, EndHandle DEF ProcessExits, Exit, Vanishes
<1> QED BY <1>1, <1>2, <1>3, <1>4, <1>5, <1>6, <1>7 DEF CatProcess

LossStep ==
  \A p \in Process :
    Stuck(p) /\ p \in running' /\ pc'[p] # "terminated" =>
      Stuck(p)' /\ stored_list'[p] = stored_list[p]

LEMMA CacheLoss == CatIInv /\ CatIInv' /\ [CatNext]_catVars => LossStep
<1> SUFFICES ASSUME CatIInv, CatIInv', [CatNext]_catVars, NEW p \in Process,
                    Stuck(p), p \in running', pc'[p] # "terminated"
             PROVE  Stuck(p)' /\ stored_list'[p] = stored_list[p]
  BY DEF LossStep
<1>1. is_open[p][Catalog] /\ pc[p] \notin {"store", "abandon"}
  BY LostMeans, CatalogAssumption DEF CatIInv, Stuck
<1>2. Denied(p)
  <2>1. ASSUME NEW q \in Process, CatProcess(q)
        PROVE  Denied(p)
    BY <1>1, <2>1, StuckProcess, OthersProcess DEF Denied
  <2>2. CASE SessionDrops \/ UNCHANGED catVars
    BY <1>1, <2>2 DEF SessionDrops, Drop, catVars, dbVars, loadVars, Denied
  <2>3. CASE (\E k \in Key : MainChanges(k)) \/ (\E k \in Kinst : SiteChanges(k))
    BY <1>1, <2>3 DEF MainChanges, SiteChanges, dbVars, Denied
  <2> QED BY <2>1, <2>2, <2>3 DEF CatNext
<1>3. [Next]_dbVars
  BY CatNextIsDB DEF catVars
<1>4. LinkOf(p, Catalog)' = "lost"
  BY <1>2, <1>3, LostLasts, CatalogAssumption DEF Denied, CatIInv, Stuck
<1> QED BY <1>2, <1>4 DEF Denied, Stuck

(* However many loads are tried: a process whose Catalog session was lost  *)
(* before the last answer of a load adds nothing to its caches, and is not *)
(* connected again, until its module terminates.                           *)
THEOREM LossLasts == CatSpec => LossIsForever
<1>1. CatIInv /\ CatIInv' /\ [CatNext]_catVars => [LossStep]_catVars
  BY CacheLoss
<1>2. [LossStep]_catVars =>
        [\A p \in Process :
           Stuck(p) /\ p \in running' /\ pc'[p] # "terminated" =>
             Stuck(p)' /\ stored_list'[p] = stored_list[p]]_catVars
  BY DEF LossStep
<1> QED BY <1>1, <1>2, CatInvariance, PTL DEF CatSpec, LossIsForever

=============================================================================
