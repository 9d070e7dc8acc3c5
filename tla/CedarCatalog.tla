---------------------------- MODULE CedarCatalog -----------------------------
(***************************************************************************)
(* The catalogue caches (CedarReadKinst.cc, CedarReadParcods.cc) over the  *)
(* database handles of CedarDB.                                            *)
(*                                                                         *)
(* Both caches are statics that are filled on demand and never emptied.  A *)
(* load asks tbl_instrument or tbl_parameter_code for the one row of its   *)
(* key; for an instrument it then asks tbl_site, which may have no row.    *)
(* The server and the owners of the tables act between the two queries.    *)
(*                                                                         *)
(* The load closes the Catalog handle when it is done and when it rejects  *)
(* an answer, but not when run_query throws: pc = "threw" tells the two    *)
(* apart.  The results it leaks are not modelled.                          *)
(***************************************************************************)
EXTENDS CedarDB

CONSTANTS
  Kinst,     \* instrument ids
  Parcod,    \* parameter ids
  Row,       \* what a row can say
  NoRow,     \* a table has no row for the key
  ManyRows,  \* a table has more than one
  Absent     \* the cache has no entry

Key == Kinst \cup Parcod
Catalog == "Catalog"

Rows == Row \cup {NoRow, ManyRows}

\* The position of an instrument that tbl_site does not know is all zeros.
Entries == [main : Row, site : Row \cup {NoRow}]

ASSUME CatalogAssumption ==
  /\ Catalog \in Name
  /\ "mysql" \in Type
  /\ Absent \notin Entries
  /\ Kinst \cap Parcod = {}
  /\ {NoRow, ManyRows, Absent} \cap Row = {}
  /\ NoRow # ManyRows

VARIABLES
  main,         \* main[k]: tbl_instrument or tbl_parameter_code at key k
  site,         \* site[k]: tbl_site at instrument k
  stored_list,  \* stored_list[p]: the two caches of p, by key
  pc,           \* where the load of process p is
  arg,          \* arg[p]: the key it loads
  found,        \* found[p]: the entry it has put together so far
  seen          \* seen[p]: every answer the two tables could have given
                \* since the load began (an observer, no part of the code)

loadVars == <<stored_list, pc, arg, found, seen>>
catVars == <<dbVars, main, site, loadVars>>

\* A load is under way in "main", "site", "store" and "abandon".
Rest == {"new", "idle", "threw", "terminated"}

Entry(k) == {e \in Entries : k \notin Kinst => e.site = NoRow}

NoEntry == [main |-> NoRow, site |-> NoRow]
NothingSeen == [main |-> {}, site |-> {}]
EmptyList == [k \in Key |-> Absent]

CatInit ==
  /\ Init
  /\ main \in [Key -> Rows]
  /\ site \in [Kinst -> Rows]
  /\ stored_list = [p \in Process |-> EmptyList]
  /\ pc = [p \in Process |-> "new"]
  /\ arg \in [Process -> Key]
  /\ found = [p \in Process |-> NoEntry]
  /\ seen = [p \in Process |-> NothingSeen]

-----------------------------------------------------------------------------
Goes(p, l) == pc' = [pc EXCEPT ![p] = l]

\* The process ended in this step: its caches went with it.
Vanishes(p) ==
  /\ stored_list' = [stored_list EXCEPT ![p] = EmptyList]
  /\ Goes(p, "new")
  /\ found' = [found EXCEPT ![p] = NoEntry]
  /\ seen' = [seen EXCEPT ![p] = NothingSeen]
  /\ UNCHANGED arg

\* CedarModule::initialize installs the builder for "mysql".
Initialize(p) ==
  /\ pc[p] = "new"
  /\ Add_DB_Builder(p, "mysql")
  /\ Goes(p, "idle")
  /\ UNCHANGED <<main, site, stored_list, arg, found, seen>>

\* Every getter loads its key and then finds it stored: one that was there
\* before changes nothing, so a step begins only with a key that is not.
Stored(p, k) == stored_list[p][k] # Absent

\* A slip: the load does not look for a stored entry first.
LoadsAgain(p, k) ==
  /\ pc[p] \in {"idle", "threw"}
  /\ DB(p, Catalog)
  /\ Goes(p, "main")
  /\ arg' = [arg EXCEPT ![p] = k]
  /\ found' = [found EXCEPT ![p] = NoEntry]
  /\ seen' = [seen EXCEPT ![p] =
       [main |-> {main[k]}, site |-> IF k \in Kinst THEN {site[k]} ELSE {NoRow}]]
  /\ UNCHANGED <<main, site, stored_list>>

\* A getter calls Load_Instrument or Load_Parameter for a key it lacks.  The
\* lookup of the handle throws if there is no handle to get.
Load(p, k) ==
  /\ pc[p] \in {"idle", "threw"}
  /\ ~Stored(p, k)
  /\ DB(p, Catalog)
  /\ Goes(p, "main")
  /\ arg' = [arg EXCEPT ![p] = k]
  /\ found' = [found EXCEPT ![p] = NoEntry]
  /\ seen' = [seen EXCEPT ![p] =
       [main |-> {main[k]}, site |-> IF k \in Kinst THEN {site[k]} ELSE {NoRow}]]
  /\ UNCHANGED <<main, site, stored_list>>

\* run_query without an answer: its exception leaves the load as it is.
QueryThrows(p) ==
  /\ \E r \in Outcome \ {"ok"} : run_query(p, Catalog, r)
  /\ Goes(p, "threw")
  /\ UNCHANGED <<stored_list, arg, found, seen>>

QueryCrashes(p) == run_query(p, Catalog, "crash") /\ Vanishes(p)

\* A slip: only the empty set is refused.
NotEmpty(rows) == rows # NoRow

\* The answer of the first table is good if it is exactly one row.
ExactlyOne(rows) == rows \in Row

MainQuery(p) ==
  /\ pc[p] = "main"
  /\ \/ /\ run_query(p, Catalog, "ok")
        /\ LET row == main[arg[p]] IN
             IF ExactlyOne(row)
             THEN /\ found' = [found EXCEPT ![p].main = row]
                  /\ Goes(p, IF arg[p] \in Kinst THEN "site" ELSE "store")
             ELSE Goes(p, "abandon") /\ UNCHANGED found
        /\ UNCHANGED <<stored_list, arg, seen>>
     \/ QueryThrows(p)
     \/ QueryCrashes(p)
  /\ UNCHANGED <<main, site>>

\* The answer of tbl_site is good if it is at most one row.
SiteAnswer(p) ==
  LET row == site[arg[p]] IN
    /\ run_query(p, Catalog, "ok")
    /\ IF row = ManyRows
       THEN Goes(p, "abandon") /\ UNCHANGED found
       ELSE found' = [found EXCEPT ![p].site = row] /\ Goes(p, "store")
    /\ UNCHANGED <<stored_list, arg, seen>>

\* A slip: a failed query counts as a site without a row.
SiteErrorMeansNoRow(p) ==
  /\ pc[p] = "site"
  /\ \/ SiteAnswer(p)
     \/ /\ \E r \in Outcome \ {"ok"} : run_query(p, Catalog, r)
        /\ Goes(p, "store")
        /\ UNCHANGED <<stored_list, arg, found, seen>>
  /\ UNCHANGED <<main, site>>

SiteQuery(p) ==
  /\ pc[p] = "site"
  /\ SiteAnswer(p) \/ QueryThrows(p) \/ QueryCrashes(p)
  /\ UNCHANGED <<main, site>>

\* A slip: the handle is left open for the next load.
StoresOnly(p) ==
  /\ pc[p] = "store"
  /\ stored_list' = [stored_list EXCEPT ![p][arg[p]] = found[p]]
  /\ Goes(p, "idle")
  /\ UNCHANGED <<dbVars, main, site, arg, found, seen>>

Store(p) ==
  /\ pc[p] = "store"
  /\ stored_list' = [stored_list EXCEPT ![p][arg[p]] = found[p]]
  /\ close(p, Catalog)
  /\ Goes(p, "idle")
  /\ UNCHANGED <<main, site, arg, found, seen>>

\* No row, or too many: the load closes the handle and throws.
Abandon(p) ==
  /\ pc[p] = "abandon"
  /\ close(p, Catalog)
  /\ Goes(p, "idle")
  /\ UNCHANGED <<main, site, stored_list, arg, found, seen>>

\* CedarModule::terminate closes all databases; the caches are not cleared.
Terminate(p) ==
  /\ pc[p] \in {"idle", "threw"}
  /\ Close(p)
  /\ Goes(p, "terminated")
  /\ UNCHANGED <<main, site, stored_list, arg, found, seen>>

-----------------------------------------------------------------------------
(* The environment.                                                        *)

ProcessStarts(p) == Start(p) /\ UNCHANGED <<main, site, loadVars>>

ProcessExits(p) == Exit(p) /\ Vanishes(p) /\ UNCHANGED <<main, site>>

SessionDrops == (\E s \in Session : Drop(s)) /\ UNCHANGED <<main, site, loadVars>>

\* Whoever keeps the catalogue changes the rows of one key in one table.
Observes(k, table, rows) ==
  seen' = [p \in Process |->
             IF pc[p] \in {"main", "site"} /\ arg[p] = k
             THEN [seen[p] EXCEPT ![table] = @ \cup {rows}]
             ELSE seen[p]]

MainChanges(k) ==
  \E rows \in Rows \ {main[k]} :
    /\ main' = [main EXCEPT ![k] = rows]
    /\ Observes(k, "main", rows)
    /\ UNCHANGED <<dbVars, site, stored_list, pc, arg, found>>

SiteChanges(k) ==
  \E rows \in Rows \ {site[k]} :
    /\ site' = [site EXCEPT ![k] = rows]
    /\ Observes(k, "site", rows)
    /\ UNCHANGED <<dbVars, main, stored_list, pc, arg, found>>

CatProcess(p) ==
  \/ Initialize(p)
  \/ \E k \in Key : Load(p, k)
  \/ MainQuery(p)
  \/ SiteQuery(p)
  \/ Store(p)
  \/ Abandon(p)
  \/ Terminate(p)
  \/ ProcessStarts(p)
  \/ ProcessExits(p)

CatNext ==
  \/ \E p \in Process : CatProcess(p)
  \/ SessionDrops
  \/ \E k \in Key : MainChanges(k)
  \/ \E k \in Kinst : SiteChanges(k)

CatSpec == CatInit /\ [][CatNext]_catVars

-----------------------------------------------------------------------------
\* What a load knows at each point.
Knows(p) ==
  /\ \A k \in Key : stored_list[p][k] \in Entry(k) \cup {Absent}
  /\ pc[p] \in {"new", "main"} => found[p] = NoEntry
  /\ pc[p] = "site" => arg[p] \in Kinst /\ found[p].main \in Row
  /\ pc[p] = "store" => found[p] \in Entry(arg[p])
  /\ pc[p] \in {"site", "store", "abandon"} => is_open[p][Catalog]
  /\ p \notin running => pc[p] = "new"

(* Type correctness, with what a load knows at each point.  In particular  *)
(* a load about to close the handle (CedarReadKinst.cc:88,95,102,121,128,  *)
(* 154) has an open one, so close() never deletes the pointer that the     *)
(* constructor leaves unset.                                               *)
CatTypeOK ==
  /\ TypeOK
  /\ main \in [Key -> Rows]
  /\ site \in [Kinst -> Rows]
  /\ stored_list \in [Process -> [Key -> Entries \cup {Absent}]]
  /\ pc \in [Process -> Rest \cup {"main", "site", "store", "abandon"}]
  /\ arg \in [Process -> Key]
  /\ found \in [Process -> [main : Row \cup {NoRow}, site : Row \cup {NoRow}]]
  /\ seen \in [Process -> [main : SUBSET Rows, site : SUBSET Rows]]
  /\ \A p \in Process : Knows(p)

(* An entry is never made up of a failure: its first part was the one row  *)
(* of its table, and its site the row of tbl_site or, only if that table   *)
(* really had no row, the zeros of CedarReadKinst.cc:134-140, at a moment  *)
(* of the very load that stored it.  The two moments may differ: the pair  *)
(* need never have been in the tables together.                            *)
EntriesGenuine ==
  [][\A p \in Process, k \in Key :
       stored_list'[p][k] \notin {stored_list[p][k], Absent} =>
         /\ stored_list'[p][k].main \in seen[p].main
         /\ stored_list'[p][k].site \in seen[p].site]_catVars

(* While no load is under way the process holds no Catalog session, unless *)
(* the last query threw: CedarReadKinst.cc:85 and 118, CedarReadParcods.cc *)
(* :77 have no handler that would close the handle.                        *)
ReleasedAtRest ==
  \A p \in Process : pc[p] \in Rest \ {"threw"} => ~is_open[p][Catalog]

Stuck(p) == LinkOf(p, Catalog) = "lost" /\ pc[p] \notin {"store", "abandon"}

(* If the Catalog session is lost before the last answer of a load, or     *)
(* while a session that a failed load left open is idle, the process never *)
(* loads another entry: each later load throws on the dead channel and     *)
(* again leaves it open, until the module terminates.                      *)
LossIsForever ==
  [][\A p \in Process :
       Stuck(p) /\ p \in running' /\ pc'[p] # "terminated" =>
         Stuck(p)' /\ stored_list'[p] = stored_list[p]]_catVars

(* What EntriesGenuine rests on: what a load has found, and what it is yet *)
(* to be told, is among the answers seen since it began.                   *)
FoundIsSeen ==
  \A p \in Process :
    /\ pc[p] = "main" => main[arg[p]] \in seen[p].main
    /\ pc[p] \in {"site", "store"} => found[p].main \in seen[p].main
    /\ pc[p] \in {"main", "site"} /\ arg[p] \in Kinst => site[arg[p]] \in seen[p].site
    /\ pc[p] \in {"main", "store"} /\ arg[p] \notin Kinst => NoRow \in seen[p].site
    /\ pc[p] = "store" /\ arg[p] \in Kinst => found[p].site \in seen[p].site

(* The inductive invariant of the caches. *)
CatIInv == IInv /\ CatTypeOK /\ ReleasedAtRest /\ FoundIsSeen

(* The two static lists are memo tables: an entry, once stored, is what    *)
(* every later getter of the process returns, whatever the tables say.     *)
Memo == INSTANCE MemoTable WITH memo <- stored_list
CachesAreMemos == Memo!Spec

=============================================================================
