------------------------ MODULE CedarReaders_proofs -------------------------
(***************************************************************************)
(* The theorems about CedarReaders.  Every step of a reader is, for the    *)
(* caches, a step of CedarCatalog or none (ReadNextIsCat), so what is      *)
(* proved of the caches and of the handles holds under the readers without *)
(* a new proof.                                                            *)
(***************************************************************************)
EXTENDS CedarReaders, CedarCatalog_proofs, SequenceTheorems

-----------------------------------------------------------------------------
(* The readers use the caches as CedarCatalog has them used.               *)

\* Before the loop or in it, a record is told or passed over.
LEMMA BothBranches ==
  ASSUME NEW p
  PROVE  /\ TellFirst(p) \/ TellNext(p) <=> Tell(p)
         /\ SkipFirst(p) \/ SkipNext(p) <=> Skip(p)
BY DEF TellFirst, TellNext, SkipFirst, SkipNext

LEMMA ReadNextIsCat == ReadNext => [CatNext]_catVars
<1> SUFFICES ASSUME ReadNext
             PROVE  [CatNext]_catVars
  OBVIOUS
<1>1. ASSUME NEW p \in Process, Reader(p)
      PROVE  [CatNext]_catVars
  <2>1. CASE Ask(p)
    BY <2>1 DEF Ask, CatNext, CatProcess
  <2>2. CASE Keep(p) \/ Reject(p)
    BY <2>2 DEF Keep, Reject, CatNext, CatProcess
  <2>3. CASE Throws(p) \/ Tell(p) \/ Skip(p) \/ Register(p) \/ AddTable(p)
             \/ Reopen(p) \/ Finish(p)
    BY <2>3 DEF Throws, Tell, Skip, Register, AddTable, Reopen, Finish
  <2> QED BY <1>1, <2>1, <2>2, <2>3, BothBranches DEF Reader
<1>2. ASSUME NEW p \in Process, Around(p)
      PROVE  [CatNext]_catVars
  <2>1. CASE Begin(p)
    BY <2>1 DEF Begin, Call
  <2>2. CASE Query(p)
    BY <2>2 DEF Query, CatNext, CatProcess
  <2>3. CASE Initialize(p) \/ Terminate(p) \/ ProcessStarts(p) \/ ProcessExits(p)
    BY <2>3 DEF CatNext, CatProcess
  <2> QED BY <1>2, <2>1, <2>2, <2>3 DEF Around
<1>3. CASE Environment
  BY <1>3 DEF Environment, CatNext
<1> QED BY <1>1, <1>2, <1>3 DEF ReadNext

LEMMA ReadIsCat == ReadSpec => CatSpec
<1>1. ReadInit => CatInit
  BY DEF ReadInit
<1>2. [ReadNext]_allVars => [CatNext]_catVars
  BY ReadNextIsCat DEF allVars
<1> QED BY <1>1, <1>2, PTL DEF ReadSpec, CatSpec

(* Whatever files are read, in whatever order and with whatever failures,  *)
(* the caches stay memo tables of genuine entries, nothing is added to     *)
(* them after a loss, a load that is over holds no session unless its      *)
(* query threw, and no session is left behind.                             *)
THEOREM ReadersUseCaches ==
  ReadSpec => /\ CachesAreMemos /\ EntriesGenuine /\ LossIsForever
              /\ []ReleasedAtRest /\ []SessionsOwned
BY ReadIsCat, CatalogIsMemo, CatalogGenuine, LossLasts, CatalogReleased, CatalogLinks, PTL

-----------------------------------------------------------------------------
(* Files, and what a step leaves alone.                                    *)

LEMMA FileIsSeq ==
  ASSUME NEW f \in File
  PROVE  /\ f \in Seq(DataRecord \cup {Header})
         /\ Len(f) \in Nat
         /\ DOMAIN f = 1..Len(f)
<1>1. PICK n \in 0..MaxRecords : f \in [1..n -> DataRecord \cup {Header}]
  BY DEF File
<1>2. n \in Nat
  BY ReadersAssumption
<1> QED BY <1>1, <1>2, SeqDef, LenProperties

LEMMA EmptyFile == <<>> \in File /\ Len(<<>>) = 0
<1>1. <<>> \in [1..0 -> DataRecord \cup {Header}]
  OBVIOUS
<1>2. 0 \in 0..MaxRecords
  BY ReadersAssumption
<1> QED BY <1>1, <1>2 DEF File

\* What of p the invariant speaks of.
Frame(p) ==
  /\ reg'[p] = reg[p] /\ walk'[p] = walk[p] /\ file'[p] = file[p] /\ at'[p] = at[p]
  /\ qa'[p] = qa[p] /\ told'[p] = told[p] /\ das'[p] = das[p]
  /\ described'[p] = described[p] /\ silenced'[p] = silenced[p]

LEMMA FrameKeeps ==
  ASSUME NEW p \in Process, Frame(p)
  PROVE  /\ Active(p)' = Active(p)
         /\ EndDataset(p)' = EndDataset(p)
         /\ This(p)' = This(p)
         /\ Noted(p)' = Noted(p)
         /\ Keys(p)' = Keys(p)
         /\ \A n : Tells(p, n)' = Tells(p, n)
<1> USE DEF Frame
<1>1. Active(p)' = Active(p) /\ EndDataset(p)' = EndDataset(p) /\ This(p)' = This(p)
  BY DEF Active, EndDataset, This
<1>2. Noted(p)' = Noted(p)
  BY <1>1 DEF Noted
<1>3. Keys(p)' = Keys(p)
  BY <1>1 DEF Keys
<1>4. \A n : Tells(p, n)' = Tells(p, n)
  BY DEF Tells, Wants
<1> QED BY <1>1, <1>2, <1>3, <1>4

-----------------------------------------------------------------------------
(* The inductive invariant, process by process.                            *)

ReadTypes ==
  /\ reg \in [Process -> SUBSET Kindat]
  /\ walk \in [Process -> MainWalk \cup {"attributes", "table", "none", "ok", "error"}]
  /\ file \in [Process -> File]
  /\ at \in [Process -> Nat]
  /\ qa \in [Process -> Constraint]
  /\ told \in [Process -> Seq(Nat)]
  /\ das \in [Process -> SUBSET Kindat]
  /\ described \in [Process -> SUBSET Kindat]
  /\ silenced \in [Process -> SUBSET Kindat]

Fates(p) ==
  /\ reg[p] = described[p] \cup silenced[p] \cup Noted(p)
  /\ described[p] \cap silenced[p] = {}
  /\ Noted(p) \cap (described[p] \cup silenced[p]) = {}

Sound(p) ==
  Follows(p) /\ Fates(p) /\ (walk[p] \in MainWalk => Tells(p, at[p]))

LEMMA SoundInv == ReadIInv <=> CatIInv /\ ReadTypes /\ \A p \in Process : Sound(p)
BY DEF ReadIInv, ReadTypeOK, ReadTypes, DescribedOrSilenced, ToldSoFar, Sound, Fates

Loading(p) == pc[p] \in {"main", "site", "store", "abandon"}

\* A load goes on as it was, or there is none any more.
Calm(p) ==
  Loading(p)' => Loading(p) /\ arg'[p] = arg[p] /\ stored_list'[p] = stored_list[p]

LEMMA SoundKept ==
  ASSUME NEW p \in Process, Sound(p), Frame(p), Calm(p)
  PROVE  Sound(p)'
<1>1. Fates(p)' /\ (walk[p] \in MainWalk => Tells(p, at[p]))'
  BY FrameKeeps DEF Sound, Fates, Frame
<1>2. Follows(p)'
  <2>1. ASSUME Loading(p)'
        PROVE  Lacks(p, arg[p])'
    BY <2>1, FrameKeeps DEF Calm, Sound, Follows, Loading, Lacks, Stored
  <2>2. Loading(p)' => Loading(p) /\ arg'[p] = arg[p]
    BY DEF Calm
  <2>3. /\ at'[p] \in 1..(Len(file'[p]) + 1)
        /\ Active(p)' => Len(file'[p]) > 0
        /\ ~Active(p)' => at'[p] = 1 /\ told'[p] = <<>> /\ das'[p] = {} /\ qa'[p] = NoConstraint
        /\ das'[p] # {} => walk'[p] \in {"attributes", "table"}
        /\ walk'[p] = "table" => ~EndDataset(p)' /\ This(p)' # Header
        /\ Loading(p)' => /\ walk'[p] \in DataWalk \cup {"table"}
                          /\ ~EndDataset(p)' /\ This(p)' # Header
    BY <2>2, FrameKeeps DEF Sound, Follows, Frame, Loading
  <2> QED BY <2>1, <2>2, <2>3 DEF Follows, Loading, Lacks
<1> QED BY <1>1, <1>2 DEF Sound

-----------------------------------------------------------------------------
(* What a step of the caches does to a load.                               *)

\* A step of p is no step of q.
Apart(p) == \A q \in Process : q # p => pc'[q] = pc[q] /\ arg'[q] = arg[q] /\ stored_list'[q] = stored_list[q]

LEMMA StepsApart ==
  ASSUME CatTypeOK, NEW p \in Process, CatProcess(p)
  PROVE  Apart(p)
<1> USE DEF CatTypeOK, Goes, Apart
<1>1. CASE Initialize(p) \/ Abandon(p) \/ Terminate(p) \/ ProcessStarts(p)
  BY <1>1 DEF Initialize, Abandon, Terminate, ProcessStarts, loadVars
<1>2. CASE \E k \in Key : Load(p, k)
  BY <1>2 DEF Load, Stored
<1>3. CASE MainQuery(p) \/ SiteQuery(p)
  BY <1>3 DEF MainQuery, SiteQuery, SiteAnswer, QueryThrows, QueryCrashes, Vanishes
<1>4. CASE Store(p)
  BY <1>4 DEF Store
<1>5. CASE ProcessExits(p)
  BY <1>5 DEF ProcessExits, Vanishes
<1> QED BY <1>1, <1>2, <1>3, <1>4, <1>5 DEF CatProcess

LEMMA OwnStep ==
  ASSUME CatTypeOK, NEW p \in Process
  PROVE  /\ MainQuery(p) \/ SiteQuery(p) => Calm(p) /\ Loading(p)
         /\ Store(p) \/ Abandon(p) => ~Loading(p)' /\ Loading(p)
         /\ Initialize(p) \/ Terminate(p) \/ ProcessExits(p) => ~Loading(p)'
         /\ ProcessStarts(p) \/ UNCHANGED catVars => Calm(p)
<1> USE DEF CatTypeOK, Goes, Calm, Loading
<1>1. MainQuery(p) => Calm(p) /\ Loading(p)
  BY DEF MainQuery, QueryThrows, QueryCrashes, Vanishes
<1>2. SiteQuery(p) => Calm(p) /\ Loading(p)
  BY DEF SiteQuery, SiteAnswer, QueryThrows, QueryCrashes, Vanishes
<1>3. Store(p) \/ Abandon(p) => ~Loading(p)' /\ Loading(p)
  BY DEF Store, Abandon
<1>4. Initialize(p) \/ Terminate(p) \/ ProcessExits(p) => ~Loading(p)'
  BY DEF Initialize, Terminate, ProcessExits, Vanishes
<1>5. ProcessStarts(p) \/ UNCHANGED catVars => Calm(p)
  BY DEF ProcessStarts, loadVars, catVars
<1> QED BY <1>1, <1>2, <1>3, <1>4, <1>5

-----------------------------------------------------------------------------
(* The end of a call, by return, by an exception or with the process.      *)

LEMMA EndsSound ==
  ASSUME ReadTypes, NEW p \in Process, NEW w \in {"none", "ok", "error"},
         Ends(p, w), ~Loading(p)'
  PROVE  /\ Follows(p)' /\ ~(walk'[p] \in MainWalk) /\ Noted(p)' = {}
         /\ walk' \in [Process -> MainWalk \cup {"attributes", "table", "none", "ok", "error"}]
         /\ file' \in [Process -> File] /\ at' \in [Process -> Nat]
         /\ qa' \in [Process -> Constraint] /\ told' \in [Process -> Seq(Nat)]
         /\ das' \in [Process -> SUBSET Kindat]
         /\ \A q \in Process \ {p} :
              /\ walk'[q] = walk[q] /\ file'[q] = file[q] /\ at'[q] = at[q]
              /\ qa'[q] = qa[q] /\ told'[q] = told[q] /\ das'[q] = das[q]
<1>1. /\ walk'[p] = w /\ file'[p] = <<>> /\ at'[p] = 1
      /\ qa'[p] = NoConstraint /\ told'[p] = <<>> /\ das'[p] = {}
  BY DEF Ends, ReadTypes
<1>2. ~(walk'[p] \in MainWalk) /\ ~Active(p)'
  BY <1>1 DEF MainWalk, DataWalk, Active
<1>3. Noted(p)' = {}
  BY <1>1 DEF Noted
<1>4. Follows(p)'
  BY <1>1, <1>2, EmptyFile DEF Follows, Loading
<1>5. NoConstraint \in Constraint
  BY DEF NoConstraint, Constraint
<1>6. <<>> \in Seq(Nat)
  OBVIOUS
<1>7. /\ walk' \in [Process -> MainWalk \cup {"attributes", "table", "none", "ok", "error"}]
      /\ file' \in [Process -> File] /\ at' \in [Process -> Nat]
  BY EmptyFile DEF Ends, ReadTypes
<1>8. /\ qa' \in [Process -> Constraint] /\ told' \in [Process -> Seq(Nat)]
      /\ das' \in [Process -> SUBSET Kindat]
  BY <1>5, <1>6 DEF Ends, ReadTypes
<1> QED BY <1>2, <1>3, <1>4, <1>7, <1>8 DEF Ends, ReadTypes

LEMMA NotedIsKindat ==
  ASSUME ReadTypes, NEW p \in Process, Follows(p)
  PROVE  Noted(p) \subseteq Kindat
<1>1. CASE walk[p] = "table"
  <2>1. ~EndDataset(p) /\ This(p) # Header /\ at[p] \in 1..(Len(file[p]) + 1)
    BY <1>1 DEF Follows
  <2>2. at[p] \in DOMAIN file[p] /\ file[p] \in Seq(DataRecord \cup {Header})
    BY <2>1, FileIsSeq DEF EndDataset, ReadTypes
  <2>3. This(p) \in DataRecord
    BY <2>1, <2>2 DEF This
  <2> QED BY <2>3, ReadersAssumption DEF Noted, ReadTypes
<1>2. CASE walk[p] # "table"
  BY <1>2 DEF Noted, ReadTypes
<1> QED BY <1>1, <1>2

\* A step of p that keeps the readers' invariant, but for the caches' part.
Keeps(p) ==
  ReadTypes' /\ Sound(p)' /\ \A q \in Process : q # p => Frame(q)

LEMMA ReturnsKeeps ==
  ASSUME ReadTypes, NEW p \in Process, Sound(p), Returns(p), walk[p] # "table", ~Loading(p)'
  PROVE  Keeps(p)
<1>1. Ends(p, "ok")
  BY DEF Returns
<1>2. Noted(p) = das[p]
  BY DEF Noted
<1>3. /\ described'[p] = described[p] \cup das[p]
      /\ reg' = reg /\ silenced' = silenced
      /\ described' \in [Process -> SUBSET Kindat]
      /\ \A q \in Process \ {p} : described'[q] = described[q]
  BY DEF Returns, ReadTypes
<1>4. Fates(p)'
  BY <1>1, <1>2, <1>3, EndsSound DEF Sound, Fates
<1>5. ReadTypes' /\ Sound(p)'
  BY <1>1, <1>3, <1>4, EndsSound DEF ReadTypes, Sound
<1> QED BY <1>1, <1>3, <1>5, EndsSound DEF Keeps, Frame

LEMMA FailsKeeps ==
  ASSUME ReadTypes, NEW p \in Process, Sound(p), Fails(p), ~Loading(p)'
  PROVE  Keeps(p)
<1>1. Ends(p, "error")
  BY DEF Fails
<1>2. Noted(p) \subseteq Kindat
  BY NotedIsKindat DEF Sound
<1>3. /\ silenced'[p] = silenced[p] \cup Noted(p)
      /\ reg' = reg /\ described' = described
      /\ silenced' \in [Process -> SUBSET Kindat]
      /\ \A q \in Process \ {p} : silenced'[q] = silenced[q]
  BY <1>2 DEF Fails, ReadTypes
<1>4. Fates(p)'
  BY <1>1, <1>3, EndsSound DEF Sound, Fates
<1>5. ReadTypes' /\ Sound(p)'
  BY <1>1, <1>3, <1>4, EndsSound DEF ReadTypes, Sound
<1> QED BY <1>1, <1>3, <1>5, EndsSound DEF Keeps, Frame

LEMMA ForgetsKeeps ==
  ASSUME ReadTypes, NEW p \in Process, Forgets(p), ~Loading(p)'
  PROVE  Keeps(p)
<1>1. Ends(p, "none")
  BY DEF Forgets
<1>2. /\ reg'[p] = {} /\ described'[p] = {} /\ silenced'[p] = {}
      /\ reg' \in [Process -> SUBSET Kindat]
      /\ described' \in [Process -> SUBSET Kindat]
      /\ silenced' \in [Process -> SUBSET Kindat]
      /\ \A q \in Process \ {p} :
           reg'[q] = reg[q] /\ described'[q] = described[q] /\ silenced'[q] = silenced[q]
  BY DEF Forgets, ReadTypes
<1>3. Fates(p)'
  BY <1>1, <1>2, EndsSound DEF Fates
<1>4. ReadTypes' /\ Sound(p)'
  BY <1>1, <1>2, <1>3, EndsSound DEF ReadTypes, Sound
<1> QED BY <1>1, <1>2, <1>4, EndsSound DEF Keeps, Frame
-----------------------------------------------------------------------------
(* What a reader knows of the record it is at.                             *)

LEMMA HereIsRecord ==
  ASSUME ReadTypes, NEW p \in Process, at[p] \in 1..(Len(file[p]) + 1), ~EndDataset(p)
  PROVE  /\ at[p] \in 1..Len(file[p]) /\ DOMAIN file[p] = 1..Len(file[p])
         /\ Len(file[p]) \in Nat /\ at[p] + 1 \in Nat
         /\ at[p] + 1 \in 1..(Len(file[p]) + 1)
         /\ This(p) \in DataRecord \cup {Header}
         /\ This(p) # Header => This(p).kindat \in Kindat
<1>1. file[p] \in File
  BY DEF ReadTypes
<1>2. /\ file[p] \in Seq(DataRecord \cup {Header}) /\ Len(file[p]) \in Nat
      /\ DOMAIN file[p] = 1..Len(file[p])
  BY <1>1, FileIsSeq
<1>3. at[p] \in 1..Len(file[p]) /\ at[p] + 1 \in Nat /\ at[p] + 1 \in 1..(Len(file[p]) + 1)
  BY <1>2 DEF EndDataset
<1>4. This(p) \in DataRecord \cup {Header}
  BY <1>2, <1>3 DEF This
<1> QED BY <1>2, <1>3, <1>4, ReadersAssumption

\* Before the loop there is a first record, in the loop there is another one.
LEMMA RecordAtHand ==
  ASSUME ReadTypes, NEW p \in Process, Follows(p), InFile(p)
  PROVE  ~EndDataset(p)
<1>1. Len(file[p]) \in Nat /\ Len(file[p]) > 0
  BY FileIsSeq DEF ReadTypes, Follows, InFile
<1> QED BY <1>1 DEF InFile, BeforeLoop, EndDataset

Listed(t) == {t[j] : j \in DOMAIN t}
Rises(t) == \A j \in DOMAIN t : \A i \in DOMAIN t : i < j => t[i] < t[j]
Before(D, n, W) == {i \in D : i < n /\ i \in W}

\* A list of the members of W before n is one of those before n + 1, or with
\* n at its end it is.
LEMMA ListNext ==
  ASSUME NEW D, NEW n \in D, NEW t \in Seq(Nat), NEW W, D \subseteq Nat,
         Listed(t) = Before(D, n, W), Rises(t)
  PROVE  /\ n \notin W => Listed(t) = Before(D, n + 1, W)
         /\ n \in W => /\ Listed(Append(t, n)) = Before(D, n + 1, W)
                       /\ Rises(Append(t, n))
<1>1. Before(D, n + 1, W) = Before(D, n, W) \cup (IF n \in W THEN {n} ELSE {})
  <2>1. \A i \in D : i < n + 1 <=> i < n \/ i = n
    OBVIOUS
  <2> QED BY <2>1 DEF Before
<1>2. ASSUME n \in W, NEW u, u = Append(t, n)
      PROVE  Listed(u) = Listed(t) \cup {n} /\ Rises(u)
  <2>1. /\ DOMAIN u = 1..(Len(t) + 1) /\ DOMAIN t = 1..Len(t) /\ Len(t) \in Nat
        /\ \A j \in 1..Len(t) : u[j] = t[j]
        /\ u[Len(t) + 1] = n
    BY <1>2, AppendProperties, LenProperties
  <2>2. Listed(u) = Listed(t) \cup {n}
    <3>1. ASSUME NEW j \in DOMAIN u PROVE u[j] \in Listed(t) \cup {n}
      <4>1. j \in DOMAIN t \/ j = Len(t) + 1
        BY <2>1
      <4> QED BY <2>1, <4>1 DEF Listed
    <3>2. ASSUME NEW j \in DOMAIN t PROVE t[j] \in Listed(u)
      <4>1. j \in DOMAIN u /\ u[j] = t[j]
        BY <2>1
      <4> QED BY <4>1 DEF Listed
    <3>3. n \in Listed(u)
      <4>1. Len(t) + 1 \in DOMAIN u
        BY <2>1
      <4> QED BY <2>1, <4>1 DEF Listed
    <3> QED BY <3>1, <3>2, <3>3 DEF Listed
  <2>3. \A j \in DOMAIN t : t[j] < n
    BY DEF Listed, Before
  <2>4. ASSUME NEW j \in DOMAIN u, NEW i \in DOMAIN u, i < j
        PROVE  u[i] < u[j]
    <3>1. i \in DOMAIN t /\ u[i] = t[i]
      BY <2>1, <2>4
    <3>2. CASE j \in DOMAIN t
      <4>1. u[j] = t[j]
        BY <2>1, <3>2
      <4> QED BY <2>4, <3>1, <3>2, <4>1 DEF Rises
    <3>3. CASE j = Len(t) + 1
      BY <2>1, <2>3, <3>1, <3>3
    <3> QED BY <2>1, <3>2, <3>3
  <2> QED BY <2>2, <2>4 DEF Rises
<1> QED BY <1>1, <1>2

Wanted(p) == {i \in DOMAIN file[p] : Wants(p, i)}

LEMMA TellsIsList ==
  ASSUME NEW p, NEW n
  PROVE  Tells(p, n) <=> Listed(told[p]) = Before(DOMAIN file[p], n, Wanted(p)) /\ Rises(told[p])
<1>1. Before(DOMAIN file[p], n, Wanted(p)) = {i \in DOMAIN file[p] : i < n /\ Wants(p, i)}
  BY DEF Before, Wanted
<1> QED BY <1>1 DEF Tells, Listed, Rises

\* A step that leaves the file and the constraint, past a record that was
\* told if it was wanted.
LEMMA TellsNext ==
  ASSUME ReadTypes, NEW p \in Process, Tells(p, at[p]), at[p] \in DOMAIN file[p],
         DOMAIN file[p] \subseteq Nat,
         at'[p] = at[p] + 1, UNCHANGED <<walk, file, qa>>,
         IF Wants(p, at[p]) THEN told'[p] = Append(told[p], at[p]) ELSE told'[p] = told[p]
  PROVE  Tells(p, at[p])'
<1>1. /\ told[p] \in Seq(Nat)
      /\ Listed(told[p]) = Before(DOMAIN file[p], at[p], Wanted(p)) /\ Rises(told[p])
      /\ (at[p] \in Wanted(p)) <=> Wants(p, at[p])
  BY TellsIsList DEF ReadTypes, Wanted
<1>2. Listed(told'[p]) = Before(DOMAIN file[p], at[p] + 1, Wanted(p)) /\ Rises(told'[p])
  <2>1. CASE Wants(p, at[p])
    <3>1. /\ Listed(Append(told[p], at[p])) = Before(DOMAIN file[p], at[p] + 1, Wanted(p))
          /\ Rises(Append(told[p], at[p]))
      BY <1>1, <2>1, ListNext
    <3> QED BY <2>1, <3>1
  <2>2. CASE ~Wants(p, at[p])
    <3>1. Listed(told[p]) = Before(DOMAIN file[p], at[p] + 1, Wanted(p))
      BY <1>1, <2>2, ListNext
    <3> QED BY <1>1, <2>2, <3>1
  <2> QED BY <2>1, <2>2
<1>3. Wanted(p)' = Wanted(p)
  BY DEF Wanted, Wants
<1>4. /\ Before(DOMAIN file[p], at[p] + 1, Wanted(p))
           = {i \in DOMAIN file'[p] : i < at'[p] /\ Wants(p, i)'}
      /\ Listed(told'[p]) = {told'[p][j] : j \in DOMAIN told'[p]}
  BY <1>3 DEF Before, Wanted, Wants, Listed
<1> QED BY <1>2, <1>4 DEF Tells, Rises

\* While p does not load, what it does without the caches keeps it so.
LEMMA StaysCalm ==
  ASSUME NEW p \in Process, Idle(p), UNCHANGED catVars
  PROVE  ~Loading(p) /\ ~Loading(p)'
BY DEF Idle, Loading, catVars, loadVars

LEMMA TellKeeps ==
  ASSUME ReadTypes, NEW p \in Process, Sound(p), Tell(p)
  PROVE  Keeps(p)
<1>1. /\ InFile(p) /\ ~EndDataset(p) /\ Wants(p, at[p]) /\ walk[p] \in MainWalk
      /\ ~Loading(p)' /\ Follows(p) /\ Fates(p) /\ Tells(p, at[p])
  BY StaysCalm, RecordAtHand DEF Tell, Telling, InFile, Sound
<1>2. /\ at[p] \in 1..Len(file[p]) /\ DOMAIN file[p] = 1..Len(file[p])
      /\ at[p] + 1 \in Nat /\ at[p] + 1 \in 1..(Len(file[p]) + 1) /\ Len(file[p]) \in Nat
  BY <1>1, HereIsRecord DEF Follows
<1>3. /\ at'[p] = at[p] + 1 /\ told'[p] = Append(told[p], at[p])
      /\ at' \in [Process -> Nat] /\ told[p] \in Seq(Nat) /\ at[p] \in Nat
      /\ told' \in [Process -> Seq(Nat)]
      /\ \A q \in Process \ {p} : at'[q] = at[q] /\ told'[q] = told[q]
      /\ UNCHANGED <<reg, walk, file, qa, das, described, silenced>>
  <2>1. told[p] \in Seq(Nat) /\ at[p] \in Nat
    BY <1>2 DEF ReadTypes
  <2>2. Append(told[p], at[p]) \in Seq(Nat)
    BY <2>1, AppendProperties
  <2> QED BY <1>2, <2>1, <2>2 DEF Tell, Steps, ReadTypes
<1>4. ReadTypes'
  BY <1>3 DEF ReadTypes
<1>5. Active(p) /\ Active(p)' /\ Noted(p)' = Noted(p) /\ walk[p] # "table"
  BY <1>1, <1>3 DEF Active, Noted, MainWalk, DataWalk
<1>6. Follows(p)'
  BY <1>1, <1>2, <1>3, <1>5 DEF Follows, Loading
<1>7. Fates(p)'
  BY <1>1, <1>3, <1>5 DEF Fates
<1>8. Tells(p, at[p])'
  <2>1. /\ at[p] \in DOMAIN file[p] /\ DOMAIN file[p] \subseteq Nat
        /\ UNCHANGED <<walk, file, qa>> /\ Tells(p, at[p])
        /\ IF Wants(p, at[p]) THEN told'[p] = Append(told[p], at[p]) ELSE told'[p] = told[p]
    BY <1>1, <1>2, <1>3
  <2> QED BY <1>3, <2>1, TellsNext
<1> QED BY <1>3, <1>4, <1>6, <1>7, <1>8 DEF Keeps, Sound, Frame

LEMMA SkipKeeps ==
  ASSUME ReadTypes, NEW p \in Process, Sound(p), Skip(p)
  PROVE  Keeps(p)
<1>1. /\ InFile(p) /\ ~EndDataset(p) /\ ~Loading(p)'
      /\ Follows(p) /\ Fates(p) /\ (walk[p] \in MainWalk => Tells(p, at[p]))
      /\ walk[p] \in MainWalk \cup {"attributes"}
      /\ (walk[p] \in MainWalk => ~Wants(p, at[p]))
  BY StaysCalm, RecordAtHand DEF Skip, InFile, Sound, MainWalk, DataWalk
<1>2. /\ at[p] \in 1..Len(file[p]) /\ DOMAIN file[p] = 1..Len(file[p])
      /\ at[p] + 1 \in Nat /\ at[p] + 1 \in 1..(Len(file[p]) + 1) /\ Len(file[p]) \in Nat
  BY <1>1, HereIsRecord DEF Follows
<1>3. /\ at'[p] = at[p] + 1 /\ at' \in [Process -> Nat]
      /\ \A q \in Process \ {p} : at'[q] = at[q]
      /\ UNCHANGED <<reg, walk, file, qa, told, das, described, silenced>>
  BY <1>2 DEF Skip, Steps, ReadTypes
<1>4. ReadTypes'
  BY <1>3 DEF ReadTypes
<1>5. Active(p) /\ Active(p)' /\ Noted(p)' = Noted(p) /\ walk[p] # "table"
  BY <1>1, <1>3 DEF Active, Noted, MainWalk, DataWalk
<1>6. Follows(p)'
  BY <1>1, <1>2, <1>3, <1>5 DEF Follows, Loading
<1>7. Fates(p)'
  BY <1>1, <1>3, <1>5 DEF Fates
<1>8. (walk[p] \in MainWalk) => Tells(p, at[p])'
  BY <1>1, <1>2, <1>3, TellsNext
<1> QED BY <1>3, <1>4, <1>6, <1>7, <1>8 DEF Keeps, Sound, Frame

LEMMA RegisterKeeps ==
  ASSUME ReadTypes, NEW p \in Process, Sound(p), Register(p)
  PROVE  Keeps(p)
<1>1. /\ InFile(p) /\ ~EndDataset(p) /\ ~Loading(p)' /\ walk[p] = "attributes"
      /\ Follows(p) /\ Fates(p)
      /\ This(p) # Header /\ This(p).kindat \notin reg[p]
  BY StaysCalm, RecordAtHand DEF Register, InFile, Sound
<1>2. This(p).kindat \in Kindat
  BY <1>1, HereIsRecord DEF Follows
<1>3. /\ walk'[p] = "table" /\ reg'[p] = reg[p] \cup {This(p).kindat}
      /\ reg' \in [Process -> SUBSET Kindat]
      /\ walk' \in [Process -> MainWalk \cup {"attributes", "table", "none", "ok", "error"}]
      /\ \A q \in Process \ {p} : reg'[q] = reg[q] /\ walk'[q] = walk[q]
      /\ UNCHANGED <<file, at, qa, told, das, described, silenced>>
  BY <1>2 DEF Register, ReadTypes
<1>4. ReadTypes'
  BY <1>3 DEF ReadTypes
<1>5. /\ Active(p) /\ Active(p)'
      /\ This(p)' = This(p) /\ EndDataset(p)' = EndDataset(p)
      /\ Noted(p) = das[p] /\ Noted(p)' = das[p] \cup {This(p).kindat}
  BY <1>1, <1>3 DEF Active, Noted, This, EndDataset
<1>6. Follows(p)'
  BY <1>1, <1>3, <1>5 DEF Follows, Loading
<1>7. Fates(p)'
  BY <1>1, <1>3, <1>5 DEF Fates
<1>8. ~(walk'[p] \in MainWalk)
  BY <1>3 DEF MainWalk, DataWalk
<1> QED BY <1>3, <1>4, <1>6, <1>7, <1>8 DEF Keeps, Sound, Frame

LEMMA AddTableKeeps ==
  ASSUME ReadTypes, NEW p \in Process, Sound(p), AddTable(p)
  PROVE  Keeps(p)
<1>1. /\ InFile(p) /\ ~EndDataset(p) /\ ~Loading(p)' /\ walk[p] = "table"
      /\ Follows(p) /\ Fates(p) /\ This(p) # Header
  <2>1. InFile(p) /\ Idle(p) /\ Follows(p) /\ UNCHANGED catVars
    BY DEF AddTable, InFile, Sound
  <2> QED BY <2>1, StaysCalm, RecordAtHand DEF AddTable, Sound, Follows
<1>2. /\ This(p).kindat \in Kindat
      /\ at[p] + 1 \in Nat /\ at[p] + 1 \in 1..(Len(file[p]) + 1)
  BY <1>1, HereIsRecord DEF Follows
<1>3. /\ walk'[p] = "attributes" /\ das'[p] = das[p] \cup {This(p).kindat} /\ at'[p] = at[p] + 1
      /\ das' \in [Process -> SUBSET Kindat] /\ at' \in [Process -> Nat]
      /\ walk' \in [Process -> MainWalk \cup {"attributes", "table", "none", "ok", "error"}]
      /\ \A q \in Process \ {p} : das'[q] = das[q] /\ walk'[q] = walk[q] /\ at'[q] = at[q]
      /\ UNCHANGED <<reg, file, qa, told, described, silenced>>
  BY <1>2 DEF AddTable, Steps, ReadTypes
<1>4. ReadTypes'
  BY <1>3 DEF ReadTypes
<1>5. Active(p)' /\ Noted(p) = das[p] \cup {This(p).kindat} /\ Noted(p)' = das'[p]
  BY <1>1, <1>3 DEF Active, Noted
<1>6. Follows(p)'
  BY <1>1, <1>2, <1>3, <1>5 DEF Follows, Loading
<1>7. Fates(p)'
  BY <1>1, <1>3, <1>5 DEF Fates
<1>8. ~(walk'[p] \in MainWalk)
  BY <1>3 DEF MainWalk, DataWalk
<1> QED BY <1>3, <1>4, <1>6, <1>7, <1>8 DEF Keeps, Sound, Frame

LEMMA ReopenKeeps ==
  ASSUME ReadTypes, NEW p \in Process, Sound(p), Reopen(p)
  PROVE  Keeps(p)
<1>1. /\ ~Loading(p)' /\ walk[p] = "descriptors" /\ Follows(p) /\ Fates(p)
  BY StaysCalm DEF Reopen, LoopEnds, Sound
<1>2. PICK f \in File \ {<<>>} : file' = [file EXCEPT ![p] = f]
  BY DEF Reopen
<1>3. Len(f) \in Nat /\ 1 \in 1..(Len(f) + 1) /\ Len(f) > 0
  BY FileIsSeq, EmptySeq
<1>4. NoConstraint \in Constraint /\ <<>> \in Seq(Nat)
  BY DEF NoConstraint, Constraint
<1>5. /\ walk'[p] = "attributes" /\ at'[p] = 1 /\ file'[p] = f
      /\ \A q \in Process \ {p} : /\ walk'[q] = walk[q] /\ file'[q] = file[q] /\ at'[q] = at[q]
                                  /\ qa'[q] = qa[q] /\ told'[q] = told[q]
      /\ UNCHANGED <<reg, das, described, silenced>>
  BY <1>2 DEF Reopen, ReadTypes
<1>6. ReadTypes'
  BY <1>2, <1>4, <1>5 DEF Reopen, ReadTypes
<1>7. Active(p)' /\ Noted(p)' = das[p] /\ Noted(p) = das[p]
  BY <1>1, <1>5 DEF Active, Noted
<1>8. Follows(p)'
  BY <1>1, <1>3, <1>5, <1>7 DEF Follows, Loading
<1>9. Fates(p)'
  BY <1>1, <1>5, <1>7 DEF Fates
<1>10. ~(walk'[p] \in MainWalk)
  BY <1>5 DEF MainWalk, DataWalk
<1> QED BY <1>5, <1>6, <1>8, <1>9, <1>10 DEF Keeps, Sound, Frame

LEMMA FinishKeeps ==
  ASSUME ReadTypes, NEW p \in Process, Sound(p), Finish(p) \/ Throws(p)
  PROVE  Keeps(p)
<1>1. CASE Finish(p)
  <2>1. Returns(p) /\ walk[p] # "table" /\ ~Loading(p)'
    BY <1>1, StaysCalm DEF Finish, LoopEnds
  <2> QED BY <2>1, ReturnsKeeps
<1>2. CASE Throws(p)
  <2>1. Fails(p) /\ ~Loading(p)'
    BY <1>2, StaysCalm DEF Throws
  <2> QED BY <2>1, FailsKeeps
<1> QED BY <1>1, <1>2

LEMMA BeginKeeps ==
  ASSUME ReadTypes, NEW p \in Process, Sound(p), Begin(p)
  PROVE  Keeps(p)
<1>1. PICK f \in File, w \in MainWalk \cup {"attributes"}, c \in Constraint : Call(p, w, f, c)
  BY DEF Begin, NoConstraint, Constraint
<1>2. /\ ~Loading(p)' /\ ~Active(p) /\ Follows(p) /\ Fates(p)
      /\ at[p] = 1 /\ told[p] = <<>> /\ das[p] = {}
  BY <1>1, StaysCalm DEF Call, Sound, Follows
<1>3. /\ NoConstraint \in Constraint /\ Len(f) \in Nat /\ 1 \in 1..(Len(f) + 1)
      /\ DOMAIN f = 1..Len(f) /\ (f # <<>> => Len(f) > 0)
  BY FileIsSeq, EmptySeq DEF NoConstraint, Constraint
<1>4. /\ walk'[p] = (IF f = <<>> THEN "error" ELSE w) /\ file'[p] = f
      /\ qa'[p] = (IF f = <<>> THEN NoConstraint ELSE c)
      /\ walk' \in [Process -> MainWalk \cup {"attributes", "table", "none", "ok", "error"}]
      /\ file' \in [Process -> File] /\ qa' \in [Process -> Constraint]
      /\ \A q \in Process \ {p} : walk'[q] = walk[q] /\ file'[q] = file[q] /\ qa'[q] = qa[q]
      /\ UNCHANGED <<reg, at, told, das, described, silenced>>
  BY <1>1, <1>3 DEF Call, ReadTypes
<1>5. ReadTypes'
  BY <1>4 DEF ReadTypes
<1>6. Noted(p) = das[p] /\ Noted(p)' = das[p] /\ (Active(p)' <=> f # <<>>)
  BY <1>2, <1>4 DEF Active, Noted, MainWalk, DataWalk
<1>7. walk'[p] # "table"
  BY <1>4 DEF MainWalk, DataWalk
<1>8. Follows(p)'
  BY <1>2, <1>3, <1>4, <1>6, <1>7 DEF Follows, Loading
<1>9. Fates(p)'
  BY <1>2, <1>4, <1>6 DEF Fates
<1>10. Tells(p, at[p])'
  <2>1. at'[p] = 1 /\ told'[p] = <<>> /\ \A i \in DOMAIN file'[p] : ~(i < 1)
    BY <1>2, <1>3, <1>4
  <2> QED BY <2>1 DEF Tells
<1> QED BY <1>4, <1>5, <1>8, <1>9, <1>10 DEF Keeps, Sound, Frame

LEMMA UnchangedFrame ==
  ASSUME UNCHANGED readVars
  PROVE  \A q \in Process : Frame(q)
BY DEF readVars, callVars, Frame

\* A load that the readers see nothing of.
LEMMA QuietKeeps ==
  ASSUME ReadTypes, NEW p \in Process, Sound(p), UNCHANGED readVars, Calm(p)
  PROVE  Keeps(p)
<1>1. ReadTypes'
  BY DEF ReadTypes, readVars, callVars
<1> QED BY <1>1, UnchangedFrame, SoundKept DEF Keeps

LEMMA AskKeeps ==
  ASSUME CatTypeOK, ReadTypes, NEW p \in Process, Sound(p), Ask(p)
  PROVE  Keeps(p)
<1>1. PICK k \in Key : Lacks(p, k) /\ Load(p, k)
  BY DEF Ask
<1>2. UNCHANGED readVars /\ Telling(p) /\ ~EndDataset(p) /\ Follows(p)
  BY RecordAtHand DEF Ask, Telling, Sound
<1>3. /\ pc'[p] = "main" /\ arg'[p] = k /\ stored_list' = stored_list
  BY <1>1 DEF Load, Goes, CatTypeOK
<1>4. Keys(p) # <<>>
  BY <1>1 DEF Lacks
<1>5. walk[p] \in DataWalk \cup {"table"} /\ This(p) # Header
  <2>1. walk[p] \in DataWalk \cup {"table"}
    BY <1>4 DEF Keys
  <2>2. walk[p] # "table" => Wants(p, at[p]) /\ walk[p] # "info"
    BY <1>2, <2>1 DEF Telling, DataWalk
  <2> QED BY <1>2, <2>1, <2>2 DEF Follows, Wants, This
<1>6. Frame(p)
  BY <1>2, UnchangedFrame
<1>7. Lacks(p, arg[p])'
  BY <1>1, <1>3, <1>6, FrameKeeps DEF Lacks, Stored
<1>8. Follows(p)'
  <2>1. /\ at'[p] \in 1..(Len(file'[p]) + 1)
        /\ Active(p)' => Len(file'[p]) > 0
        /\ ~Active(p)' => at'[p] = 1 /\ told'[p] = <<>> /\ das'[p] = {} /\ qa'[p] = NoConstraint
        /\ das'[p] # {} => walk'[p] \in {"attributes", "table"}
        /\ walk'[p] \in DataWalk \cup {"table"} /\ ~EndDataset(p)' /\ This(p)' # Header
    BY <1>2, <1>5, <1>6, FrameKeeps DEF Follows, Frame
  <2> QED BY <1>7, <2>1 DEF Follows
<1>9. Fates(p)' /\ (walk[p] \in MainWalk => Tells(p, at[p]))'
  BY <1>6, FrameKeeps DEF Sound, Fates, Frame
<1>10. ReadTypes'
  BY <1>2 DEF ReadTypes, readVars, callVars
<1> QED BY <1>2, <1>8, <1>9, <1>10, UnchangedFrame DEF Keeps, Sound

LEMMA QueryKeeps ==
  ASSUME CatTypeOK, ReadTypes, NEW p \in Process, Sound(p), Query(p)
  PROVE  Keeps(p)
<1>1. Calm(p)
  BY OwnStep DEF Query
<1>2. CASE pc'[p] = "threw" /\ Fails(p)
  <2>1. ~Loading(p)'
    BY <1>2 DEF Loading
  <2> QED BY <1>2, <2>1, FailsKeeps
<1>3. CASE pc'[p] = "new" /\ Forgets(p)
  <2>1. ~Loading(p)'
    BY <1>3 DEF Loading
  <2> QED BY <1>3, <2>1, ForgetsKeeps
<1>4. CASE UNCHANGED readVars
  BY <1>1, <1>4, QuietKeeps
<1> QED BY <1>2, <1>3, <1>4 DEF Query

LEMMA AnswerKeeps ==
  ASSUME CatTypeOK, ReadTypes, NEW p \in Process, Sound(p), Keep(p) \/ Reject(p)
  PROVE  Keeps(p)
<1>1. ~Loading(p)'
  BY OwnStep DEF Keep, Reject
<1>2. CASE Keep(p)
  BY <1>1, <1>2, QuietKeeps DEF Keep, Calm
<1>3. CASE Reject(p)
  BY <1>1, <1>3, FailsKeeps DEF Reject
<1> QED BY <1>2, <1>3

LEMMA ReaderKeeps ==
  ASSUME CatTypeOK, ReadTypes, NEW p \in Process, Sound(p), Reader(p) \/ Around(p)
  PROVE  Keeps(p)
<1>1. CASE Reader(p)
  BY <1>1, FinishKeeps, AskKeeps, BothBranches, TellKeeps, SkipKeeps, RegisterKeeps,
     AddTableKeeps, ReopenKeeps, AnswerKeeps DEF Reader
<1>2. CASE Begin(p) \/ Query(p)
  BY <1>2, BeginKeeps, QueryKeeps
<1>3. CASE (Initialize(p) \/ Terminate(p) \/ ProcessStarts(p)) /\ UNCHANGED readVars
  <2>1. Calm(p)
    BY <1>3, OwnStep DEF Calm
  <2> QED BY <1>3, <2>1, QuietKeeps
<1>4. CASE ProcessExits(p) /\ Forgets(p)
  <2>1. ~Loading(p)'
    BY <1>4, OwnStep
  <2> QED BY <1>4, <2>1, ForgetsKeeps
<1> QED BY <1>1, <1>2, <1>3, <1>4 DEF Around

\* For the other processes nothing happens.
LEMMA ReaderApart ==
  ASSUME CatTypeOK, NEW p \in Process, Reader(p) \/ Around(p),
         NEW q \in Process, q # p
  PROVE  Calm(q)
<1>1. CatProcess(p) \/ UNCHANGED catVars
  BY BothBranches
     DEF Reader, Around, Throws, Ask, Tell, Skip, Register, AddTable, Reopen, Finish, Keep,
         Reject, Begin, Call, Query, CatProcess
<1>2. CASE CatProcess(p)
  BY <1>2, StepsApart DEF Apart, Calm, Loading
<1>3. CASE UNCHANGED catVars
  BY <1>3 DEF catVars, loadVars, Calm, Loading
<1> QED BY <1>1, <1>2, <1>3

-----------------------------------------------------------------------------
(* The invariance theorems.                                                *)

LEMMA ReadInitIInv == ReadInit => ReadIInv
<1> SUFFICES ASSUME ReadInit
             PROVE  ReadIInv
  OBVIOUS
<1> USE DEF ReadInit
<1>1. CatIInv
  BY CatInitIInv
<1>2. NoConstraint \in Constraint /\ <<>> \in Seq(Nat)
  BY DEF NoConstraint, Constraint
<1>3. ReadTypes
  BY <1>2, EmptyFile DEF ReadTypes
<1>4. ASSUME NEW p \in Process
      PROVE  Sound(p)
  <2>1. ~Active(p) /\ ~(walk[p] \in MainWalk) /\ Noted(p) = {} /\ ~Loading(p)
    BY DEF Active, MainWalk, DataWalk, Noted, Loading, CatInit
  <2>2. Follows(p) /\ Fates(p)
    BY <2>1, EmptyFile DEF Follows, Fates, Loading
  <2> QED BY <2>1, <2>2 DEF Sound
<1> QED BY <1>1, <1>3, <1>4, SoundInv

LEMMA ReadNextIInv == ReadIInv /\ [ReadNext]_allVars => ReadIInv'
<1> SUFFICES ASSUME ReadIInv, [ReadNext]_allVars
             PROVE  ReadIInv'
  OBVIOUS
<1>1. CatIInv /\ ReadTypes /\ CatTypeOK /\ \A p \in Process : Sound(p)
  BY SoundInv DEF CatIInv
<1>2. CatIInv'
  BY <1>1, CatNextIInv, ReadNextIsCat DEF allVars
<1>3. ASSUME NEW p \in Process, Reader(p) \/ Around(p)
      PROVE  ReadTypes' /\ \A q \in Process : Sound(q)'
  <2>1. Keeps(p)
    BY <1>1, <1>3, ReaderKeeps
  <2>2. ASSUME NEW q \in Process, q # p
        PROVE  Sound(q)'
    BY <1>1, <1>3, <2>1, <2>2, ReaderApart, SoundKept DEF Keeps
  <2> QED BY <2>1, <2>2 DEF Keeps
<1>4. ASSUME UNCHANGED readVars, UNCHANGED <<pc, arg, stored_list>>
      PROVE  ReadTypes' /\ \A q \in Process : Sound(q)'
  <2>1. ReadTypes'
    BY <1>1, <1>4 DEF ReadTypes, readVars, callVars
  <2>2. \A q \in Process : Calm(q)
    BY <1>4 DEF Calm, Loading
  <2> QED BY <1>1, <1>4, <2>1, <2>2, UnchangedFrame, SoundKept
<1>5. ASSUME Environment
      PROVE  ReadTypes' /\ \A q \in Process : Sound(q)'
  <2>1. UNCHANGED readVars
    BY <1>5 DEF Environment
  <2>2. UNCHANGED <<pc, arg, stored_list>>
    BY <1>5 DEF Environment, SessionDrops, MainChanges, SiteChanges, loadVars
  <2> QED BY <1>4, <2>1, <2>2
<1>6. ASSUME UNCHANGED allVars
      PROVE  ReadTypes' /\ \A q \in Process : Sound(q)'
  <2>1. UNCHANGED readVars /\ UNCHANGED <<pc, arg, stored_list>>
    BY <1>6 DEF allVars, catVars, loadVars
  <2> QED BY <1>4, <2>1
<1>7. ReadTypes' /\ \A q \in Process : Sound(q)'
  BY <1>3, <1>5, <1>6 DEF ReadNext
<1>8. ReadTypeOK'
  BY <1>7 DEF ReadTypeOK, ReadTypes, Sound
<1>9. DescribedOrSilenced' /\ ToldSoFar'
  BY <1>7 DEF DescribedOrSilenced, ToldSoFar, Sound, Fates
<1> QED BY <1>2, <1>8, <1>9 DEF ReadIInv

LEMMA ReadInvariance == ReadSpec => []ReadIInv
BY ReadInitIInv, ReadNextIInv, PTL DEF ReadSpec

(* The walk of a reader never leaves its file, and a load never outlives   *)
(* the call that began it: whatever the caches are loading is the first    *)
(* key of the record at hand that they lack.                               *)
THEOREM ReadTypeCorrect == ReadSpec => []ReadTypeOK
<1>1. ReadIInv => ReadTypeOK
  BY DEF ReadIInv
<1> QED BY <1>1, ReadInvariance, PTL

(* A record kind has one fate in the life of a process: one call describes *)
(* it and returns, or one registers it and fails, and then none ever does. *)
THEOREM OneFatePerKind == ReadSpec => []DescribedOrSilenced
<1>1. ReadIInv => DescribedOrSilenced
  BY DEF ReadIInv
<1> QED BY <1>1, ReadInvariance, PTL

-----------------------------------------------------------------------------
(* The end of a reader.                                                    *)

TellingStep ==
  \A p \in Process :
    walk[p] \in MainWalk /\ walk'[p] \in {"ok", "attributes"} => Tells(p, Len(file[p]) + 1)

LEMMA OnlyAtTheEnd ==
  ASSUME ReadTypes, NEW p \in Process, Reader(p) \/ Around(p),
         walk[p] \in MainWalk, walk'[p] \in {"ok", "attributes"}
  PROVE  EndDataset(p)
<1> USE DEF ReadTypes, MainWalk, DataWalk
<1>1. CASE Finish(p) \/ Reopen(p)
  BY <1>1 DEF Finish, Reopen, LoopEnds
<1>2. CASE Throws(p) \/ Reject(p)
  BY <1>2 DEF Throws, Reject, Fails, Ends
<1>3. CASE Ask(p) \/ Tell(p) \/ Skip(p) \/ Keep(p)
  BY <1>3 DEF Ask, Tell, Skip, Keep, readVars, callVars
<1>4. CASE Register(p) \/ AddTable(p)
  BY <1>4 DEF Register, AddTable
<1>5. CASE Begin(p)
  BY <1>5 DEF Begin, Call, Active
<1>6. CASE Query(p)
  BY <1>6 DEF Query, Fails, Forgets, Ends, readVars, callVars
<1>7. CASE UNCHANGED readVars
  BY <1>7 DEF readVars, callVars
<1>8. CASE Forgets(p)
  BY <1>8 DEF Forgets, Ends
<1> QED BY <1>1, <1>2, <1>3, <1>4, <1>5, <1>6, <1>7, <1>8, BothBranches DEF Reader, Around

LEMMA ToldStep == ReadIInv /\ [ReadNext]_allVars => TellingStep
<1> SUFFICES ASSUME ReadIInv, [ReadNext]_allVars, NEW p \in Process,
                    walk[p] \in MainWalk, walk'[p] \in {"ok", "attributes"}
             PROVE  Tells(p, Len(file[p]) + 1)
  BY DEF TellingStep
<1>1. CatTypeOK /\ ReadTypes /\ Sound(p) /\ \A q \in Process : Sound(q)
  BY SoundInv DEF CatIInv
<1>2. walk'[p] # walk[p]
  BY DEF MainWalk, DataWalk
<1>3. PICK q \in Process : Reader(q) \/ Around(q)
  BY <1>2 DEF ReadNext, Environment, allVars, readVars, callVars
<1>4. q = p
  BY <1>1, <1>2, <1>3, ReaderKeeps DEF Keeps, Frame
<1>5. EndDataset(p)
  BY <1>1, <1>3, <1>4, OnlyAtTheEnd
<1>6. /\ Tells(p, at[p]) /\ at[p] \in 1..(Len(file[p]) + 1)
  BY <1>1 DEF Sound, Follows
<1>7. Len(file[p]) \in Nat
  BY <1>1, FileIsSeq DEF ReadTypes
<1>8. at[p] = Len(file[p]) + 1
  BY <1>5, <1>6, <1>7 DEF EndDataset
<1> QED BY <1>6, <1>8

(* For files of any length, any constraint and any behaviour of the        *)
(* catalogue: a reader that comes to its end has told exactly the records  *)
(* that were asked for, each once and in the file's order.                 *)
THEOREM ReadersTellAll == ReadSpec => ToldExactly
<1>1. ReadIInv /\ [ReadNext]_allVars => [TellingStep]_allVars
  BY ToldStep
<1>2. [TellingStep]_allVars =>
        [\A p \in Process :
           walk[p] \in MainWalk /\ walk'[p] \in {"ok", "attributes"}
             => Tells(p, Len(file[p]) + 1)]_allVars
  BY DEF TellingStep
<1> QED BY <1>1, <1>2, ReadInvariance, PTL DEF ReadSpec, ToldExactly

-----------------------------------------------------------------------------
(* A call after a loss.                                                    *)

LEMMA WantingKept ==
  ASSUME NEW p \in Process, Frame(p), stored_list'[p] = stored_list[p], Wanting(p)
  PROVE  Wanting(p)'
<1>1. AllStored(p)' <=> AllStored(p)
  BY FrameKeeps DEF AllStored, Stored
<1>2. Wants(p, at[p])' <=> Wants(p, at[p])
  BY DEF Frame, Wants
<1>3. walk'[p] = walk[p] /\ EndDataset(p)' = EndDataset(p)
  BY FrameKeeps DEF Frame
<1> QED BY <1>1, <1>2, <1>3 DEF Wanting

\* A query on the lost session throws, and the call fails with it.
LEMMA LostQueryFails ==
  ASSUME CatIInv, ReadTypes, NEW p \in Process, Stuck(p), p \in running', Query(p)
  PROVE  walk'[p] = "error"
<1>1. Denied(p)
  BY StuckQuery DEF Query
<1>2. is_open[p][Catalog] /\ ~Reaches(p, Catalog)
      /\ Channel(p, Catalog) = {connection[p][Catalog]}
      /\ connection[p][Catalog] \notin session
  BY LostMeans, CatalogAssumption DEF CatIInv, Stuck, Channel
<1>3. ~run_query(p, Catalog, "ok") /\ ~run_query(p, Catalog, "crash")
  BY <1>2 DEF run_query, Statement
<1>4. QueryThrows(p)
  BY <1>3 DEF Query, MainQuery, SiteQuery, SiteAnswer, QueryCrashes
<1>5. pc'[p] = "threw"
  BY <1>4 DEF QueryThrows, Goes, CatIInv, CatTypeOK
<1> QED BY <1>5 DEF Query, Fails, Ends, ReadTypes

LEMMA LostReaderFails ==
  ASSUME CatIInv, ReadTypes, NEW p \in Process, Stuck(p), Wanting(p), p \in running',
         Reader(p) \/ Around(p)
  PROVE  Wanting(p)' \/ walk'[p] = "error"
<1>1. Active(p)
  BY DEF Wanting, Active
<1>2. CASE Throws(p) \/ Reject(p)
  BY <1>2 DEF Throws, Reject, Fails, Ends, ReadTypes
<1>3. CASE Ask(p)
  BY <1>3, UnchangedFrame, WantingKept DEF Ask, Load
<1>4. CASE Tell(p) \/ AddTable(p)
  BY <1>4 DEF Tell, AddTable, Wanting
<1>5. CASE Skip(p) \/ Register(p)
  BY <1>5 DEF Skip, Register, Wanting, MainWalk, DataWalk
<1>6. CASE Reopen(p) \/ Finish(p)
  BY <1>6 DEF Reopen, Finish, LoopEnds, Wanting
<1>7. CASE Keep(p)
  BY <1>7 DEF Keep, Store, Stuck
<1>8. CASE Begin(p) \/ (~Active(p) /\ Terminate(p))
  BY <1>1, <1>8 DEF Begin, Call
<1>9. CASE Query(p)
  BY <1>9, LostQueryFails
<1>10. CASE (Initialize(p) \/ ProcessStarts(p)) /\ UNCHANGED readVars
  <2>1. stored_list' = stored_list
    BY <1>10 DEF Initialize, ProcessStarts, loadVars
  <2> QED BY <1>10, <2>1, UnchangedFrame, WantingKept
<1>11. CASE ProcessExits(p)
  BY <1>11 DEF ProcessExits, Exit, End
<1> QED BY <1>2, <1>3, <1>4, <1>5, <1>6, <1>7, <1>8, <1>9, <1>10, <1>11, BothBranches
       DEF Reader, Around

FailingStep ==
  \A p \in Process :
    Stuck(p) /\ Wanting(p) /\ p \in running' =>
      Wanting(p)' \/ walk'[p] = "error"

LEMMA LossFails == ReadIInv /\ [ReadNext]_allVars => FailingStep
<1> SUFFICES ASSUME ReadIInv, [ReadNext]_allVars, NEW p \in Process,
                    Stuck(p), Wanting(p), p \in running'
             PROVE  Wanting(p)' \/ walk'[p] = "error"
  BY DEF FailingStep
<1>1. CatIInv /\ CatTypeOK /\ ReadTypes /\ \A q \in Process : Sound(q)
  BY SoundInv DEF CatIInv
<1>2. ASSUME NEW q \in Process, q # p, Reader(q) \/ Around(q)
      PROVE  Wanting(p)'
  <2>1. Frame(p)
    BY <1>1, <1>2, ReaderKeeps DEF Keeps
  <2>2. stored_list'[p] = stored_list[p]
    <3>1. CatProcess(q) \/ UNCHANGED catVars
      BY <1>2, BothBranches
         DEF Reader, Around, Ask, Keep, Reject, Query, Begin, Call, Throws, Tell, Skip,
             Register, AddTable, Reopen, Finish, CatProcess
    <3> QED BY <1>1, <1>2, <3>1, StepsApart DEF Apart, catVars, loadVars
  <2> QED BY <2>1, <2>2, WantingKept
<1>3. CASE Environment \/ UNCHANGED allVars
  <2>1. UNCHANGED readVars /\ stored_list' = stored_list
    BY <1>3 DEF Environment, allVars, catVars, loadVars, SessionDrops, MainChanges, SiteChanges
  <2> QED BY <2>1, UnchangedFrame, WantingKept
<1> QED BY <1>1, <1>2, <1>3, LostReaderFails DEF ReadNext

(* For files, constraints and caches of any size: a call that needs a key  *)
(* that is not stored, on a lost session, ends in an error.                *)
THEOREM LossEndsCalls == ReadSpec => LossFailsCalls
<1>1. ReadIInv /\ [ReadNext]_allVars => [FailingStep]_allVars
  BY LossFails
<1>2. [FailingStep]_allVars =>
        [\A p \in Process :
           Stuck(p) /\ Wanting(p) /\ p \in running' =>
             Wanting(p)' \/ walk'[p] = "error"]_allVars
  BY DEF FailingStep
<1> QED BY <1>1, <1>2, ReadInvariance, PTL DEF ReadSpec, LossFailsCalls

=============================================================================
