---------------------------- MODULE CedarReaders -----------------------------
(***************************************************************************)
(* The readers of a data file (cedar_read_descriptors.cc,                  *)
(* cedar_read_attributes.cc, cedar_read_tab.cc, cedar_read_flat.cc,        *)
(* cedar_read_info.cc) over the catalogue caches of CedarCatalog.          *)
(*                                                                         *)
(* Each reader opens the file, deals with its first logical record, and    *)
(* loops over the others.  All but the attributes' pass over the records   *)
(* that the constraint rejects.  What a reader tells of a data record it   *)
(* looks up in the caches, key by key; an exception of a load, or of the   *)
(* file, ends the call, and what it has put together is dropped.  get.dds  *)
(* and get.dods read the file a second time, for its attributes.           *)
(*                                                                         *)
(* A call is for one container.  Each of its steps is one of the caches',  *)
(* or leaves them alone.  What is told of one record is in CedarTables.    *)
(***************************************************************************)
EXTENDS CedarCatalog, Naturals, Sequences

CONSTANTS
  Header,      \* a logical record of type 2 or 3, not of data
  DataRecord,  \* the data records: kindat, kinst and the codes they ask for
  Kindat,      \* record kinds
  MaxRecords,  \* bound on the logical records of a file
  MainRows,    \* MainRows[k]: bound on what main[k] can be
  SiteRows     \* SiteRows[k]: bound on what site[k] can be

ASSUME ReadersAssumption ==
  /\ Header \notin DataRecord
  /\ MaxRecords \in Nat
  /\ \A r \in DataRecord :
       r.kindat \in Kindat /\ r.kinst \in Kinst /\ r.codes \in Seq(Parcod)

File == UNION {[1..n -> DataRecord \cup {Header}] : n \in 0..MaxRecords}
Constraint == [records : SUBSET (1..MaxRecords), codes : SUBSET Parcod]
NoConstraint == [records |-> {}, codes |-> {}]

VARIABLES
  reg,        \* reg[p]: the register of logged(), a static
  walk,       \* walk[p]: the reader that p is in, or how the last one ended
  file,       \* file[p]: the logical records of the file it has open
  at,         \* at[p]: the next one
  qa,         \* qa[p]: the positions and the codes that the constraint selects
  told,       \* told[p]: the positions of the records told so far, in order
  das,        \* das[p]: the kinds described so far
  described,  \* described[p]: the kinds that calls which returned described
  silenced    \* silenced[p]: those that calls which failed registered
              \* (two observers, no part of the code)

callVars == <<walk, file, at, qa, told, das>>
readVars == <<reg, callVars, described, silenced>>
allVars == <<catVars, readVars>>

\* load_dds, send_tab_data and send_flat_data; route_buffer; load_das.
DataWalk == {"descriptors", "text"}
MainWalk == DataWalk \cup {"info"}
Active(p) == walk[p] \in MainWalk \cup {"attributes", "table"}

ReadInit ==
  /\ CatInit
  /\ \A k \in Key : main[k] \in MainRows[k]
  /\ \A k \in Kinst : site[k] \in SiteRows[k]
  /\ reg = [p \in Process |-> {}]
  /\ walk = [p \in Process |-> "none"]
  /\ file = [p \in Process |-> <<>>]
  /\ at = [p \in Process |-> 1]
  /\ qa = [p \in Process |-> NoConstraint]
  /\ told = [p \in Process |-> <<>>]
  /\ das = [p \in Process |-> {}]
  /\ described = [p \in Process |-> {}]
  /\ silenced = [p \in Process |-> {}]

-----------------------------------------------------------------------------
(* The end of a call.                                                      *)

Ends(p, w) ==
  /\ walk' = [walk EXCEPT ![p] = w]
  /\ file' = [file EXCEPT ![p] = <<>>]
  /\ at' = [at EXCEPT ![p] = 1]
  /\ qa' = [qa EXCEPT ![p] = NoConstraint]
  /\ told' = [told EXCEPT ![p] = <<>>]
  /\ das' = [das EXCEPT ![p] = {}]

This(p) == file[p][at[p]]

\* The kinds that the call under way has registered.
Noted(p) == das[p] \cup IF walk[p] = "table" THEN {This(p).kindat} ELSE {}

Returns(p) ==
  /\ Ends(p, "ok")
  /\ described' = [described EXCEPT ![p] = @ \cup das[p]]
  /\ UNCHANGED <<reg, silenced>>

Fails(p) ==
  /\ Ends(p, "error")
  /\ silenced' = [silenced EXCEPT ![p] = @ \cup Noted(p)]
  /\ UNCHANGED <<reg, described>>

\* The process is gone, with its statics.
Forgets(p) ==
  /\ Ends(p, "none")
  /\ reg' = [reg EXCEPT ![p] = {}]
  /\ described' = [described EXCEPT ![p] = {}]
  /\ silenced' = [silenced EXCEPT ![p] = {}]

-----------------------------------------------------------------------------
(* The walk over the records.                                              *)

\* No load is under way.
Idle(p) == pc[p] \in {"idle", "threw"}

\* A reader is called for a file.  Without a first record there is nothing to
\* connect to.
Call(p, w, f, c) ==
  /\ Idle(p) /\ ~Active(p)
  /\ walk' = [walk EXCEPT ![p] = IF f = <<>> THEN "error" ELSE w]
  /\ file' = [file EXCEPT ![p] = f]
  /\ qa' = [qa EXCEPT ![p] = IF f = <<>> THEN NoConstraint ELSE c]
  /\ UNCHANGED <<catVars, reg, at, told, das, described, silenced>>

\* The attributes are read without a constraint.
Begin(p) ==
  \E f \in File :
    \/ \E w \in MainWalk, c \in Constraint :
         c.records \subseteq DOMAIN f /\ Call(p, w, f, c)
    \/ Call(p, "attributes", f, NoConstraint)

\* Parsing the constraint, opening the file, reading a record, the lookup of
\* the Catalog handle or the memory for the response throws.
Throws(p) ==
  /\ Idle(p) /\ Active(p)
  /\ Fails(p)
  /\ UNCHANGED catVars

EndDataset(p) == at[p] > Len(file[p])

\* The first record has been read before the loop, which asks end_dataset()
\* before it reads another one.
BeforeLoop(p) == at[p] = 1

InFile(p) == Idle(p) /\ Active(p) /\ (BeforeLoop(p) \/ ~EndDataset(p))

LoopEnds(p) == Idle(p) /\ ~BeforeLoop(p) /\ EndDataset(p)

\* The reader tells the record i: validate_record accepts it, and it is one
\* of data, or for info one of the others.
Wants(p, i) ==
  /\ i \in qa[p].records
  /\ (walk[p] = "info") <=> (file[p][i] = Header)

\* validate_parameter, code by code.
Selected(s, C) == SelectSeq(s, LAMBDA v : v \in C)

\* The keys that the getters are asked for, in this order.
Keys(p) ==
  IF walk[p] = "table" THEN <<This(p).kinst>> \o This(p).codes
  ELSE IF walk[p] \in DataWalk THEN Selected(This(p).codes, qa[p].codes)
  ELSE <<>>

AllStored(p) == \A j \in DOMAIN Keys(p) : Stored(p, Keys(p)[j])

\* The getter for k is the first one that does not find its key stored.
Lacks(p, k) ==
  \E j \in DOMAIN Keys(p) :
    /\ Keys(p)[j] = k /\ ~Stored(p, k)
    /\ \A i \in 1..(j - 1) : Stored(p, Keys(p)[i])

Telling(p) ==
  /\ InFile(p)
  /\ \/ walk[p] = "table"
     \/ walk[p] \in MainWalk /\ Wants(p, at[p])

\* The getter loads its key.
Ask(p) ==
  /\ Telling(p)
  /\ \E k \in Key : Lacks(p, k) /\ Load(p, k)
  /\ UNCHANGED readVars

Steps(p) == at' = [at EXCEPT ![p] = @ + 1]

\* The record at hand is told.
Tell(p) ==
  /\ Telling(p) /\ walk[p] # "table" /\ AllStored(p)
  /\ told' = [told EXCEPT ![p] = Append(@, at[p])]
  /\ Steps(p)
  /\ UNCHANGED <<catVars, reg, walk, file, qa, das, described, silenced>>

\* The record is of another type, or rejected, or of a kind that is known.
Skip(p) ==
  /\ InFile(p)
  /\ \/ walk[p] \in MainWalk /\ ~Wants(p, at[p])
     \/ walk[p] = "attributes" /\ (This(p) # Header => This(p).kindat \in reg[p])
  /\ Steps(p)
  /\ UNCHANGED <<catVars, reg, walk, file, qa, told, das, described, silenced>>

\* The branches before the loop, and those in it, are code of their own.
TellNext(p) == ~BeforeLoop(p) /\ Tell(p)
SkipNext(p) == ~BeforeLoop(p) /\ Skip(p)

\* A slip: there is no such branch, and the loop begins with the next record.
DropsFirst(p) ==
  /\ BeforeLoop(p) /\ Telling(p) /\ walk[p] # "table"
  /\ Steps(p)
  /\ UNCHANGED <<catVars, reg, walk, file, qa, told, das, described, silenced>>

TellFirst(p) == BeforeLoop(p) /\ Tell(p)
SkipFirst(p) == BeforeLoop(p) /\ Skip(p)

\* A slip: logged() does not write what it has not found.
NeverRegisters(p) ==
  /\ InFile(p) /\ walk[p] = "attributes"
  /\ This(p) # Header /\ This(p).kindat \notin reg[p]
  /\ walk' = [walk EXCEPT ![p] = "table"]
  /\ UNCHANGED <<catVars, reg, file, at, qa, told, das, described, silenced>>

\* logged() registers the kind before load_das asks for anything.
Register(p) ==
  /\ InFile(p) /\ walk[p] = "attributes"
  /\ This(p) # Header /\ This(p).kindat \notin reg[p]
  /\ reg' = [reg EXCEPT ![p] = @ \cup {This(p).kindat}]
  /\ walk' = [walk EXCEPT ![p] = "table"]
  /\ UNCHANGED <<catVars, file, at, qa, told, das, described, silenced>>

\* A slip: the exception of a getter is caught, and the table made without.
AddsPartial(p) ==
  /\ InFile(p) /\ walk[p] = "table"
  /\ das' = [das EXCEPT ![p] = @ \cup {This(p).kindat}]
  /\ walk' = [walk EXCEPT ![p] = "attributes"]
  /\ Steps(p)
  /\ UNCHANGED <<catVars, reg, file, qa, told, described, silenced>>

AddTable(p) ==
  /\ InFile(p) /\ walk[p] = "table" /\ AllStored(p)
  /\ das' = [das EXCEPT ![p] = @ \cup {This(p).kindat}]
  /\ walk' = [walk EXCEPT ![p] = "attributes"]
  /\ Steps(p)
  /\ UNCHANGED <<catVars, reg, file, qa, told, described, silenced>>

\* A slip: the second reading goes on where the first one stopped.
NoRewind(p) ==
  /\ LoopEnds(p) /\ walk[p] = "descriptors"
  /\ \E f \in File \ {<<>>} : file' = [file EXCEPT ![p] = f]
  /\ walk' = [walk EXCEPT ![p] = "attributes"]
  /\ qa' = [qa EXCEPT ![p] = NoConstraint]
  /\ told' = [told EXCEPT ![p] = <<>>]
  /\ UNCHANGED <<catVars, reg, at, das, described, silenced>>

\* The data have been read; the attributes are next.  The path is opened once
\* more: the file may be another one by now.
Reopen(p) ==
  /\ LoopEnds(p) /\ walk[p] = "descriptors"
  /\ \E f \in File \ {<<>>} : file' = [file EXCEPT ![p] = f]
  /\ walk' = [walk EXCEPT ![p] = "attributes"]
  /\ at' = [at EXCEPT ![p] = 1]
  /\ qa' = [qa EXCEPT ![p] = NoConstraint]
  /\ told' = [told EXCEPT ![p] = <<>>]
  /\ UNCHANGED <<catVars, reg, das, described, silenced>>

Finish(p) ==
  /\ LoopEnds(p) /\ walk[p] \in {"text", "info", "attributes"}
  /\ Returns(p)
  /\ UNCHANGED catVars

-----------------------------------------------------------------------------
(* A load, as the reader sees it.                                          *)

Query(p) ==
  /\ MainQuery(p) \/ SiteQuery(p)
  /\ \/ pc'[p] = "threw" /\ Fails(p)
     \/ pc'[p] = "new" /\ Forgets(p)
     \/ pc'[p] \notin {"threw", "new"} /\ UNCHANGED readVars

Keep(p) == Store(p) /\ UNCHANGED readVars

\* A slip: the exception of a rejected answer is caught too early.
AsksAgain(p) == Abandon(p) /\ UNCHANGED readVars

Reject(p) == Abandon(p) /\ Fails(p)

-----------------------------------------------------------------------------
\* What a reader does by itself, without an answer of the database.
Reader(p) ==
  \/ Throws(p) \/ Ask(p)
  \/ TellFirst(p) \/ SkipFirst(p) \/ TellNext(p) \/ SkipNext(p)
  \/ Register(p) \/ AddTable(p) \/ Reopen(p) \/ Finish(p)
  \/ Keep(p) \/ Reject(p)

\* The process around it; the module ends between two calls.
Around(p) ==
  \/ Begin(p)
  \/ Query(p)
  \/ Initialize(p) /\ UNCHANGED readVars
  \/ ~Active(p) /\ Terminate(p) /\ UNCHANGED readVars
  \/ ProcessStarts(p) /\ UNCHANGED readVars
  \/ ProcessExits(p) /\ Forgets(p)

Environment ==
  /\ \/ SessionDrops
     \/ \E k \in Key : MainChanges(k) /\ main'[k] \in MainRows[k]
     \/ \E k \in Kinst : SiteChanges(k) /\ site'[k] \in SiteRows[k]
  /\ UNCHANGED readVars

ReadNext == (\E p \in Process : Reader(p) \/ Around(p)) \/ Environment

ReadSpec == ReadInit /\ [][ReadNext]_allVars

\* A reader goes on while it can; whether a query is answered, and whether
\* there is another call, is not for the module to say.
ReadFairSpec == ReadSpec /\ \A p \in Process : WF_allVars(Reader(p))

-----------------------------------------------------------------------------
\* What a call knows at each point.
Follows(p) ==
  /\ at[p] \in 1..(Len(file[p]) + 1)
  /\ Active(p) => Len(file[p]) > 0
  /\ ~Active(p) => at[p] = 1 /\ told[p] = <<>> /\ das[p] = {} /\ qa[p] = NoConstraint
  /\ das[p] # {} => walk[p] \in {"attributes", "table"}
  /\ walk[p] = "table" => ~EndDataset(p) /\ This(p) # Header
  /\ pc[p] \in {"main", "site", "store", "abandon"} =>
       /\ walk[p] \in DataWalk \cup {"table"}
       /\ ~EndDataset(p) /\ This(p) # Header
       /\ Lacks(p, arg[p])

(* Type correctness, with what a call knows at each point: the walk never  *)
(* leaves the file, no load outlives its call, and each is for the first   *)
(* key of this very record that the caches lack.                           *)
ReadTypeOK ==
  /\ reg \in [Process -> SUBSET Kindat]
  /\ walk \in [Process -> MainWalk \cup {"attributes", "table", "none", "ok", "error"}]
  /\ file \in [Process -> File]
  /\ at \in [Process -> Nat]
  /\ qa \in [Process -> Constraint]
  /\ told \in [Process -> Seq(Nat)]
  /\ das \in [Process -> SUBSET Kindat]
  /\ described \in [Process -> SUBSET Kindat]
  /\ silenced \in [Process -> SUBSET Kindat]
  /\ \A p \in Process : Follows(p)

\* told[p] is the wanted positions before n, each once, in the file's order.
Tells(p, n) ==
  /\ {told[p][j] : j \in DOMAIN told[p]} = {i \in DOMAIN file[p] : i < n /\ Wants(p, i)}
  /\ \A j \in DOMAIN told[p] : \A i \in DOMAIN told[p] : i < j => told[p][i] < told[p][j]

(* A reader that comes to its end has told every record of its sort that   *)
(* the constraint accepts, and no other, each once and in the order of the *)
(* file, although the first record is told by a branch of its own, apart   *)
(* from the loop (cedar_read_tab.cc:302-305 and 306-316, and likewise in   *)
(* flat, descriptors and info), and the catalogue's loads come in between: *)
(* a data response is never silently short.                                *)
ToldExactly ==
  [][\A p \in Process :
       walk[p] \in MainWalk /\ walk'[p] \in {"ok", "attributes"}
         => Tells(p, Len(file[p]) + 1)]_allVars

(* In the life of a process each record kind is described by at most one   *)
(* call of the reader that returns (a call is for one container; its       *)
(* request may still fail at a later one), and a kind that was registered  *)
(* by a call which then failed, at that kind or at any later point, for    *)
(* want of a catalogue row or of a session, is described by none           *)
(* (cedar_read_attributes.cc:124). There is no third fate: a kind that is  *)
(* registered was described, was silenced, or belongs to the call under    *)
(* way.                                                                    *)
DescribedOrSilenced ==
  \A p \in Process :
    /\ reg[p] = described[p] \cup silenced[p] \cup Noted(p)
    /\ described[p] \cap silenced[p] = {}
    /\ Noted(p) \cap (described[p] \cup silenced[p]) = {}

\* The record at hand needs an entry that the caches lack.
Wanting(p) ==
  /\ walk[p] \in MainWalk \cup {"table"} /\ ~EndDataset(p)
  /\ walk[p] # "table" => Wants(p, at[p])
  /\ ~AllStored(p)

(* A call that meets a record with an unknown key after the Catalog        *)
(* session is lost, or loses it while it asks, does not get past this      *)
(* record: it fails, and is never answered with what the caches hold by    *)
(* chance.  The exception of run_query (CedarMySQLDB.cc:165) must find its *)
(* way through the getter and the reader to the handler of the request.    *)
LossFailsCalls ==
  [][\A p \in Process :
       Stuck(p) /\ Wanting(p) /\ p \in running' =>
         Wanting(p)' \/ walk'[p] = "error"]_allVars

(* What ToldExactly rests on: half way, what is told is exactly what was   *)
(* wanted of the records passed so far.                                    *)
ToldSoFar == \A p \in Process : walk[p] \in MainWalk => Tells(p, at[p])

(* The inductive invariant of the readers. *)
ReadIInv == CatIInv /\ ReadTypeOK /\ DescribedOrSilenced /\ ToldSoFar

Querying(p) == pc[p] \in {"main", "site"}

(* A call comes to its end, whatever the file, the tables and the sessions *)
(* do meanwhile, unless a query never comes back (CedarMySQLDB.cc:165 sets *)
(* no limit): no failure of the catalogue is tried again within a call.    *)
CallReturns == \A p \in Process : []<>~Querying(p) => []<>~Active(p)

=============================================================================
