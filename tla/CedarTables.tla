----------------------------- MODULE CedarTables -----------------------------
(***************************************************************************)
(* What a data record becomes in the three kinds of data response          *)
(* (cedar_read_tab.cc, cedar_read_flat.cc, cedar_read_descriptors.cc).     *)
(*                                                                         *)
(* Each walks the parameters of the record's prologue (JPAR), then those   *)
(* of its rows (MPAR), and keeps the columns and rows that the constraint  *)
(* selects, in code of its own.  The record has passed validate_record;    *)
(* the records of a file do not depend on one another.                     *)
(***************************************************************************)
EXTENDS Integers, Sequences, FiniteSets

CONSTANTS
  Code,     \* parameter codes: -v is the error of the parameter v
  Value,    \* what a cell can hold
  MaxPar,   \* bound on the JPAR and on the MPAR codes of a record
  MaxRows   \* bound on its rows

abs(v) == IF v < 0 THEN -v ELSE v

ASSUME TablesAssumption ==
  /\ Code \subseteq Int
  /\ IsFiniteSet(Code)
  /\ \A v \in Code : abs(v) \in Code
  /\ MaxPar \in Nat
  /\ MaxRows \in Nat

VARIABLES
  record,      \* the codes of its columns, and the values of its rows
  constraint,  \* CedarConstraintEvaluator: the parameters it names and
               \* their ranges, and whether it has a parameters clause
  catalogue,   \* the codes that tbl_parameter_code has a row for
  status,      \* status[f]: whether f has been asked for, and the outcome
  table        \* table[f]: what f told of the record

input == <<record, constraint, catalogue>>
tabVars == <<record, constraint, catalogue, status, table>>

Format == {"tab", "flat", "dds"}

UpTo(n, S) == UNION {[1..k -> S] : k \in 0..n}

Records ==
  UNION {[jpar : UpTo(MaxPar, Code), mpar : {m}, rows : UpTo(MaxRows, [DOMAIN m -> Value])] :
           m \in UpTo(MaxPar, Code)}

Ranges == UNION {[S -> SUBSET Value] : S \in SUBSET Code}

Constraints == {k \in [given : BOOLEAN, range : Ranges] : k.given \/ DOMAIN k.range = {}}

(* A table: the columns that each line of its head and each row of its     *)
(* data fills, and the rows it has.  A cell stands where its column is     *)
(* among the columns of its line, so lines that fill other columns do not  *)
(* line up.                                                                *)
Line == {"name", "scale", "unit", "code", "data"}
Column == {"jpar", "mpar"} \X (1..MaxPar)

NoTable == [head |-> [l \in Line |-> {}], rows |-> {}]

TabInit ==
  /\ record \in Records
  /\ constraint \in Constraints
  /\ catalogue \in SUBSET Code
  /\ status = [f \in Format |-> "none"]
  /\ table = [f \in Format |-> NoTable]

-----------------------------------------------------------------------------
\* CedarConstraintEvaluator::validate_parameter.
Selects(v) == constraint.given => v \in DOMAIN constraint.range

\* The columns of one section whose code satisfies the test T.
Columns(section, T(_)) ==
  {section} \X {i \in DOMAIN record[section] : T(record[section][i])}

JPAR == Columns("jpar", Selects)
MPAR == Columns("mpar", Selects)

CodeAt(x) == record[x[1]][x[2]]

\* get_name_for_parameter, for each of the columns X: the error of v goes by
\* the name of v; the catalogue throws if it does not have the one row.
Named(X) == \A x \in X : abs(CodeAt(x)) \in catalogue

\* CedarParameter::validateValue, for the value in column x of row o.
InRange(x, o) == record.rows[o][x[2]] \in constraint.range[CodeAt(x)]

Rows == DOMAIN record.rows

\* tab and dds do not look at the MPAR section if it has no values.
HasRows == DOMAIN record.mpar # {} /\ Rows # {}

Sends(f, head, rows) ==
  /\ status' = [status EXCEPT ![f] = "ok"]
  /\ table' = [table EXCEPT ![f] = [head |-> head, rows |-> rows]]
  /\ UNCHANGED input

Throws(f) ==
  /\ status' = [status EXCEPT ![f] = "error"]
  /\ UNCHANGED <<input, table>>

-----------------------------------------------------------------------------
\* A slip: a row is printed if one of its values is in range.
TabRowIfAny(o) ==
  \/ ~constraint.given
  \/ Cardinality({x \in MPAR : InRange(x, o)}) > 0

\* The printable items of a row are as many as the valid variables.
TabRow(o) ==
  constraint.given => Cardinality({x \in MPAR : InRange(x, o)}) = Cardinality(MPAR)

TabColumns == JPAR \cup IF HasRows THEN MPAR ELSE {}

send_tab_data ==
  /\ status["tab"] = "none"
  /\ IF Named(TabColumns)
     THEN Sends("tab",
            [l \in Line |-> IF l \in {"name", "code", "data"} THEN TabColumns ELSE {}],
            {o \in Rows : HasRows /\ TabRow(o)})
     ELSE Throws("tab")

\* No value that the constraint looks at is out of range.
FlatRow(o) == constraint.given => \A x \in MPAR : InRange(x, o)

\* A slip: every JPAR column has its scale.
ScalesAll == Columns("jpar", LAMBDA v : TRUE)

\* The JPAR columns that have a scale: those whose parameter is selected.
ScaledJPAR == Columns("jpar", LAMBDA v : Selects(abs(v)))

\* Get_Scale is asked for the JPAR code as it is, sign and all.
Scaled == \A x \in ScaledJPAR : CodeAt(x) \in catalogue

\* Everything else is asked for without the sign.  print_blocked throws if the
\* text of a cell is too long: the texts of the head come from the catalogue,
\* the numbers of the rows always fit.
send_flat_data ==
  /\ status["flat"] = "none"
  /\ \/ /\ Named(JPAR \cup MPAR) /\ Scaled
        /\ Sends("flat",
             [l \in Line |-> (IF l = "scale" THEN ScaledJPAR ELSE JPAR) \cup MPAR],
             {o \in Rows : FlatRow(o)})
     \/ /\ ~Named(JPAR \cup MPAR) \/ ~Scaled \/ JPAR \cup ScaledJPAR \cup MPAR # {}
        /\ Throws("flat")

\* Slips: the rows are counted from zero; the arrays hold only the rows that
\* are in range; the names are looked up whether there are values or not.
DdsRowsFromZero == {o - 1 : o \in Rows}
DdsRowsInRange == {o \in Rows : HasRows /\ FlatRow(o)}
DdsAllColumns == JPAR \cup MPAR

\* Each array of the MPAR structure has every row.
DdsRows == {o \in Rows : HasRows}

DdsColumns == JPAR \cup IF HasRows THEN MPAR ELSE {}

load_dds ==
  /\ status["dds"] = "none"
  /\ IF Named(DdsColumns)
     THEN Sends("dds",
            [l \in Line |-> IF l \in {"name", "data"} THEN DdsColumns ELSE {}],
            DdsRows)
     ELSE Throws("dds")

TabNext == send_tab_data \/ send_flat_data \/ load_dds

TabSpec == TabInit /\ [][TabNext]_tabVars

-----------------------------------------------------------------------------
Ok(f) == status[f] = "ok"

(* Type correctness.                                                       *)
TablesTypeOK ==
  /\ record \in Records
  /\ constraint \in Constraints
  /\ catalogue \subseteq Code
  /\ status \in [Format -> {"none", "ok", "error"}]
  /\ table \in [Format -> [head : [Line -> SUBSET Column], rows : SUBSET (1..MaxRows)]]

(* The two text formats, one of which counts the values in range while the *)
(* other looks for one that is not, give the same rows and columns of a    *)
(* record under any constraint, with two exceptions, both for want of a    *)
(* test in flat (cedar_read_tab.cc:154): of a record that has rows but no  *)
(* MPAR columns flat prints every row and tab none, and of one that has no *)
(* rows the MPAR columns stand in the head of flat alone.                  *)
TextsAgree ==
  Ok("tab") /\ Ok("flat") =>
    /\ table["tab"].rows = IF DOMAIN record.mpar = {} THEN {} ELSE table["flat"].rows
    /\ DOMAIN record.mpar = {} => table["flat"].rows = Rows
    /\ table["tab"].head["data"] \subseteq table["flat"].head["data"]
    /\ Rows # {} => table["tab"].head["data"] = table["flat"].head["data"]

(* A flat response whose head does not line up with its rows can only be   *)
(* one of a record with a JPAR error code that the constraint treats other *)
(* than its parameter: the scales alone are chosen by abs()                *)
(* (cedar_read_flat.cc:192), all other lines by the code itself.           *)
FlatLinesUp ==
  Ok("flat") =>
    \/ \A l \in Line : table["flat"].head[l] = table["flat"].head["data"]
    \/ \E i \in DOMAIN record.jpar :
         LET v == record.jpar[i] IN v < 0 /\ (Selects(v) # Selects(abs(v)))

(* The dds has every column of the tab response, and all rows: the ranges  *)
(* of a constraint choose rows only in the text formats, so a client of    *)
(* get.dods gets the values out of range as well, and nothing that it      *)
(* lacks is in the text.                                                   *)
DdsHoldsTab ==
  Ok("tab") /\ Ok("dds") =>
    /\ table["dds"].head["data"] = table["tab"].head["data"]
    /\ table["tab"].rows \subseteq table["dds"].rows
    /\ HasRows => table["dds"].rows = Rows

(* With the same catalogue, tab and dds serve the same records; and if     *)
(* flat could serve one, which asks the catalogue for more and has narrow  *)
(* cells, so can they.                                                     *)
FlatAsksMost ==
  /\ "none" \notin {status["tab"], status["dds"]} => status["tab"] = status["dds"]
  /\ Ok("flat") => status["tab"] # "error" /\ status["dds"] # "error"

\* What a format told follows from the input alone.
TabTold ==
  /\ Ok("tab") =>
       /\ Named(TabColumns)
       /\ table["tab"].head["data"] = TabColumns
       /\ table["tab"].rows = {o \in Rows : HasRows /\ TabRow(o)}
  /\ status["tab"] = "error" => ~Named(TabColumns)

FlatTold ==
  Ok("flat") =>
    /\ Named(JPAR \cup MPAR)
    /\ \A l \in Line :
         table["flat"].head[l] = (IF l = "scale" THEN ScaledJPAR ELSE JPAR) \cup MPAR
    /\ table["flat"].rows = {o \in Rows : FlatRow(o)}

DdsTold ==
  /\ Ok("dds") =>
       /\ Named(DdsColumns)
       /\ table["dds"].head["data"] = DdsColumns
       /\ table["dds"].rows = DdsRows
  /\ status["dds"] = "error" => ~Named(DdsColumns)

(* The inductive invariant.                                                *)
TabIInv == TablesTypeOK /\ TabTold /\ FlatTold /\ DdsTold

=============================================================================
