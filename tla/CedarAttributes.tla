--------------------------- MODULE CedarAttributes ---------------------------
(***************************************************************************)
(* The attribute tables of a response (cedar_read_attributes.cc).          *)
(*                                                                         *)
(* get.das, get.dds and get.dods read a whole file and add one table for   *)
(* each record kind that the function logged() does not yet know.  Its     *)
(* register is a static of the process: it outlives the request, and a     *)
(* kind enters it before the catalogue is asked for what the table says.   *)
(***************************************************************************)
EXTENDS Naturals, Sequences

CONSTANTS
  Process,     \* server processes
  Kindat,      \* record kinds
  Kinst,       \* instruments
  Header,      \* a logical record that is not a data record
  MaxRecords   \* bound on the logical records of a file

Record == [kindat : Kindat, kinst : Kinst]

ASSUME AttributesAssumption ==
  /\ Header \notin Record
  /\ MaxRecords \in Nat

File == UNION {[1..n -> Record \cup {Header}] : n \in 0..MaxRecords}
EmptyFile == [i \in 1..0 |-> Header]

VARIABLES
  reg,     \* reg[p]: the register of logged()
  file,    \* file[p]: the file that is read, the last one if none is
  at,      \* at[p]: its next logical record
  das,     \* das[p]: the tables of the response in the order of add_table;
           \* the record kind and the instrument make up a table's name
  status,  \* status[p]: "idle", "reading", "ok" or "error"
  before   \* before[p]: the register as the request began (an observer)

attrVars == <<reg, file, at, das, status, before>>

AttrInit ==
  /\ reg = [p \in Process |-> {}]
  /\ file = [p \in Process |-> EmptyFile]
  /\ at = [p \in Process |-> 1]
  /\ das = [p \in Process |-> <<>>]
  /\ status = [p \in Process |-> "idle"]
  /\ before = [p \in Process |-> {}]

-----------------------------------------------------------------------------
Becomes(p, s) == status' = [status EXCEPT ![p] = s]

\* A request names file f; without a first record it cannot be connected to.
Open(p, f) ==
  /\ status[p] # "reading"
  /\ file' = [file EXCEPT ![p] = f]
  /\ at' = [at EXCEPT ![p] = 1]
  /\ das' = [das EXCEPT ![p] = <<>>]
  /\ before' = [before EXCEPT ![p] = reg[p]]
  /\ Becomes(p, IF DOMAIN f = {} THEN "error" ELSE "reading")
  /\ UNCHANGED reg

InFile(p) == status[p] = "reading" /\ at[p] \in DOMAIN file[p]

This(p) == file[p][at[p]]

\* logged() knows the kind of this record.
Logged(p) == This(p).kindat \in reg[p]

\* A slip: the end of the dataset is not noticed.
SkipsPastEnd(p) ==
  /\ status[p] = "reading"
  /\ InFile(p) /\ This(p) # Header => Logged(p)
  /\ at' = [at EXCEPT ![p] = @ + 1]
  /\ UNCHANGED <<reg, file, das, status, before>>

\* The record needs no table: a header, or a kind that is known.
Skip(p) ==
  /\ InFile(p)
  /\ This(p) # Header => Logged(p)
  /\ at' = [at EXCEPT ![p] = @ + 1]
  /\ UNCHANGED <<reg, file, das, status, before>>

\* A slip: logged() never writes what it has not found.
NeverRegisters(p) ==
  /\ InFile(p) /\ This(p) # Header /\ ~Logged(p)
  /\ das' = [das EXCEPT ![p] = Append(@, This(p))]
  /\ at' = [at EXCEPT ![p] = @ + 1]
  /\ UNCHANGED <<reg, file, status, before>>

\* logged() notes the kind; then the table is filled from the catalogue, any
\* of whose getters may throw, and the request fails.
load_das(p) ==
  /\ InFile(p) /\ This(p) # Header /\ ~Logged(p)
  /\ reg' = [reg EXCEPT ![p] = @ \cup {This(p).kindat}]
  /\ \/ /\ das' = [das EXCEPT ![p] = Append(@, This(p))]
        /\ at' = [at EXCEPT ![p] = @ + 1]
        /\ UNCHANGED status
     \/ Becomes(p, "error") /\ UNCHANGED <<at, das>>
  /\ UNCHANGED <<file, before>>

\* Reading the next logical record throws.
Corrupt(p) ==
  /\ status[p] = "reading"
  /\ Becomes(p, "error")
  /\ UNCHANGED <<reg, file, at, das, before>>

EndDataset(p) ==
  /\ status[p] = "reading" /\ at[p] \notin DOMAIN file[p]
  /\ Becomes(p, "ok")
  /\ UNCHANGED <<reg, file, at, das, before>>

\* The process ends; the next one begins with an empty register.
Restart(p) ==
  /\ reg' = [reg EXCEPT ![p] = {}]
  /\ file' = [file EXCEPT ![p] = EmptyFile]
  /\ at' = [at EXCEPT ![p] = 1]
  /\ das' = [das EXCEPT ![p] = <<>>]
  /\ before' = [before EXCEPT ![p] = {}]
  /\ Becomes(p, "idle")

AttrNext ==
  \E p \in Process :
    \/ \E f \in File : Open(p, f)
    \/ Skip(p)
    \/ load_das(p)
    \/ Corrupt(p)
    \/ EndDataset(p)
    \/ Restart(p)

AttrSpec == AttrInit /\ [][AttrNext]_attrVars

-----------------------------------------------------------------------------
\* The positions of the data records of p's file that have been read.
Read(p) == {i \in DOMAIN file[p] : i < at[p] /\ file[p][i] # Header}

\* The record kinds that have been read, and those that have a table.
KindsRead(p) == {file[p][i].kindat : i \in Read(p)}
KindsTold(p) == {das[p][i].kindat : i \in DOMAIN das[p]}

\* The kind of the record at p's position, if it is a data record.
KindAt(p) == IF at[p] \in DOMAIN file[p] /\ This(p) # Header THEN {This(p).kindat} ELSE {}

(* Type correctness; a response's tables are those of records of its file, *)
(* and `at' never leaves the file by more than one.                        *)
AttrTypeOK ==
  /\ reg \in [Process -> SUBSET Kindat]
  /\ file \in [Process -> File]
  /\ at \in [Process -> Nat \ {0}]
  /\ das \in [Process -> Seq(Record)]
  /\ status \in [Process -> {"idle", "reading", "ok", "error"}]
  /\ before \in [Process -> SUBSET Kindat]
  /\ \A p \in Process : at[p] = 1 \/ at[p] - 1 \in DOMAIN file[p]
  /\ \A p \in Process : \A t \in DOMAIN das[p] : \E i \in Read(p) : file[p][i] = das[p][t]

(* A response tells exactly the kinds of the records read so far that the  *)
(* process did not know when the request began: a request is complete if   *)
(* and only if no earlier one, of any file and whether it succeeded or     *)
(* not, met one of its kinds.  The register has grown by what was read     *)
(* and, if the request failed, by nothing else than perhaps the kind of    *)
(* the record at which a getter threw.                                     *)
TellsTheUnknown ==
  \A p \in Process :
    /\ KindsTold(p) = KindsRead(p) \ before[p]
    /\ before[p] \cup KindsRead(p) \subseteq reg[p]
    /\ reg[p] \subseteq before[p] \cup KindsRead(p)
                        \cup (IF status[p] = "error" THEN KindAt(p) ELSE {})

(* No two calls of DAS::add_table in one response are for the same kind:   *)
(* none is given a name twice, for any number of records of a kind and an  *)
(* instrument, and instruments that share a kind share one table.          *)
OneTablePerKind ==
  \A p \in Process : \A i, j \in DOMAIN das[p] :
    das[p][i].kindat = das[p][j].kindat => i = j

(* What cedar_help.txt:50-51 says: the das "contains all the information   *)
(* you need to fill record_type(...)", so each kind of the file has its    *)
(* table.                                                                  *)
DasIsComplete ==
  \A p \in Process : status[p] = "ok" => KindsRead(p) \subseteq KindsTold(p)

=============================================================================
