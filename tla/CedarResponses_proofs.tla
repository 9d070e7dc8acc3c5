------------------------ MODULE CedarResponses_proofs ------------------------
(***************************************************************************)
(* The responses that one call makes from beginning to end.                *)
(*                                                                         *)
(* What cedar_read_stream sends, for blocks and files of every size:       *)
(* WholeBlocks speaks of a remainder, which says little about the next     *)
(* block; the invariant has the number of blocks instead.                  *)
(*                                                                         *)
(* The three kinds of data response agree, for records of any size, any    *)
(* constraint and any catalogue.  The input never changes, so the          *)
(* invariant says what each format told of it; the properties are then     *)
(* facts about columns and rows, and the one of substance is that counting *)
(* the values in range and looking for one that is not come to the same.   *)
(***************************************************************************)
EXTENDS CedarStream, CedarTables, FiniteSetTheorems, TLAPS

LEMMA BlocksHaveBytes ==
  ASSUME NEW q \in Nat, NEW b \in Nat \ {0}
  PROVE  q <= q * b
<1>1. q * b = q + q * (b - 1)
  OBVIOUS
<1>2. q * (b - 1) >= 0
  OBVIOUS
<1> QED BY <1>1, <1>2

LEMMA StreamInitIInv == StreamInit => StreamIInv
<1> SUFFICES ASSUME StreamInit PROVE StreamIInv
  OBVIOUS
<1>1. StreamTypeOK
  <2>1. Block \in Nat /\ size \in Nat
    BY StreamAssumption DEF StreamInit
  <2>2. 0 \in 0..Block /\ 0 \in 0..size
    BY <2>1
  <2>3. size \in 0..MaxSize /\ offset \in 0..size /\ gcount \in 0..Block
    BY <2>2 DEF StreamInit
  <2>4. gcount <= offset
    BY DEF StreamInit
  <2>5. good \in BOOLEAN /\ short \in BOOLEAN /\ broken \in BOOLEAN
    BY DEF StreamInit
  <2>6. sent \subseteq 0..(size - 1) /\ result \in {"none", "true", "false"}
    BY DEF StreamInit
  <2> QED BY <2>3, <2>4, <2>5, <2>6 DEF StreamTypeOK
<1>2. 0 \in 0..size /\ offset - gcount = 0 * Block
  BY StreamAssumption DEF StreamInit
<1>3. WholeBlocksRead
  BY <1>2 DEF WholeBlocksRead
<1>4. LoopEnds /\ SentSoFar
  BY DEF StreamInit, LoopEnds, SentSoFar
<1> QED BY <1>1, <1>3, <1>4 DEF StreamIInv

LEMMA ReadIInv ==
  ASSUME StreamIInv, Read
  PROVE  StreamIInv'
<1> DEFINE rest == size - offset
<1> USE StreamAssumption DEF StreamIInv
<1>1. /\ rest \in Nat /\ gcount = 0 /\ good /\ result = "none"
      /\ gcount' = IF rest < Block THEN rest ELSE Block
      /\ good' = (rest >= Block)
      /\ offset' = offset + gcount'
      /\ UNCHANGED <<size, sent, short, broken, result>>
  BY DEF Read, StreamTypeOK
<1>2. gcount' \in 0..Block /\ gcount' <= rest
  BY <1>1
<1>3. offset' \in 0..size /\ gcount' <= offset' /\ offset' - gcount' = offset - gcount
  BY <1>1, <1>2 DEF StreamTypeOK
<1>4. StreamTypeOK'
  BY <1>1, <1>2, <1>3 DEF StreamTypeOK
<1>5. WholeBlocksRead' /\ SentSoFar'
  BY <1>1, <1>3 DEF WholeBlocksRead, SentSoFar
<1>6. LoopEnds'
  <2>1. ~broken'
    BY <1>1 DEF LoopEnds
  <2>2. CASE rest < Block
    <3>1. gcount' = rest /\ ~good'
      <4>1. gcount' = rest
        BY <1>1, <2>2
      <4>2. ~(rest >= Block)
        BY <1>1, <2>2
      <4>3. good' = (rest >= Block)
        BY <1>1
      <4>4. ~good'
        BY <4>2, <4>3, Zenon
      <4> QED BY <4>1, <4>4
    <3>2. offset' = size' /\ gcount' < Block
      BY <1>1, <2>2, <3>1 DEF StreamTypeOK
    <3> QED BY <1>1, <2>1, <3>1, <3>2 DEF LoopEnds
  <2>3. CASE ~(rest < Block)
    <3>1. gcount' = Block
      BY <1>1, <2>3
    <3>2. rest >= Block
      BY <1>1, <2>3
    <3>3. good' = TRUE
      BY <1>1, <3>2
    <3> QED BY <1>1, <2>1, <3>1, <3>3 DEF LoopEnds
  <2> QED BY <2>2, <2>3
<1> QED BY <1>4, <1>5, <1>6

LEMMA WriteIInv ==
  ASSUME StreamIInv, Write
  PROVE  StreamIInv'
<1> USE StreamAssumption DEF StreamIInv
<1>1. PICK n \in 0..gcount :
        /\ sent' = sent \cup {i \in 0..(size - 1) : offset - gcount <= i /\ i < offset - gcount + n}
        /\ short' = (short \/ n < gcount)
  BY DEF Write
<1>2. /\ good /\ gcount = Block /\ gcount' = 0
      /\ UNCHANGED <<size, offset, good, broken, result>>
  BY DEF Write, LoopEnds
<1>3. StreamTypeOK'
  <2>1. 0 \in 0..Block /\ 0 <= offset
    BY DEF StreamTypeOK
  <2>2. sent' \subseteq 0..(size - 1)
    BY <1>1 DEF StreamTypeOK
  <2>3. short' \in BOOLEAN
    BY <1>1, <1>2 DEF StreamTypeOK
  <2> QED BY <1>2, <2>1, <2>2, <2>3 DEF StreamTypeOK, Write
<1>4. WholeBlocksRead'
  <2>1. PICK q \in 0..size : offset - gcount = q * Block
    BY DEF WholeBlocksRead
  <2>2. /\ offset \in 0..size /\ size \in Nat /\ q \in Nat
    BY DEF StreamTypeOK
  <2>3. (q + 1) * Block = q * Block + Block
    BY <2>2
  <2>4. offset' - gcount' = (q + 1) * Block
    BY <1>2, <2>1, <2>2, <2>3
  <2>5. q + 1 <= (q + 1) * Block
    BY <2>2, BlocksHaveBytes
  <2>6. q + 1 \in 0..size
    BY <1>2, <2>2, <2>4, <2>5
  <2> QED BY <1>2, <2>4, <2>6 DEF WholeBlocksRead
<1>5. SentSoFar'
  <2> SUFFICES ASSUME ~short' PROVE sent' = 0..(offset' - gcount' - 1)
    BY DEF SentSoFar
  <2>1. n = gcount /\ sent = 0..(offset - gcount - 1)
    <3>1. ~short /\ ~(n < gcount)
      BY <1>1
    <3>2. gcount \in Nat
      BY DEF StreamTypeOK
    <3>3. n = gcount
      BY <3>1, <3>2
    <3> QED BY <3>1, <3>3 DEF SentSoFar
  <2>2. /\ offset \in Nat /\ size \in Nat /\ offset <= size /\ gcount \in Nat /\ gcount <= offset
    BY DEF StreamTypeOK
  <2>3. sent' = {i \in 0..(size - 1) : i < offset}
    BY <1>1, <2>1, <2>2
  <2> QED BY <1>2, <2>2, <2>3
<1>6. LoopEnds'
  BY <1>2 DEF LoopEnds
<1> QED BY <1>3, <1>4, <1>5, <1>6

LEMMA StreamNextIInv == StreamIInv /\ [StreamNext]_streamVars => StreamIInv'
<1> SUFFICES ASSUME StreamIInv, [StreamNext]_streamVars PROVE StreamIInv'
  OBVIOUS
<1> USE DEF StreamIInv
<1>1. CASE Fail \/ ReadFails \/ Finish \/ UNCHANGED streamVars
  <2>1. UNCHANGED <<size, offset, gcount, sent, short>>
    BY <1>1 DEF Fail, ReadFails, Finish, streamVars
  <2>2. StreamTypeOK'
    BY <1>1, <2>1 DEF Fail, ReadFails, Finish, streamVars, StreamTypeOK
  <2>3. WholeBlocksRead' /\ SentSoFar'
    BY <2>1 DEF WholeBlocksRead, SentSoFar
  <2>4. LoopEnds'
    BY <1>1, <2>1 DEF Fail, ReadFails, Finish, streamVars, LoopEnds
  <2> QED BY <2>2, <2>3, <2>4
<1> QED BY <1>1, ReadIInv, WriteIInv DEF StreamNext

LEMMA StreamInvariance == StreamSpec => []StreamIInv
BY StreamInitIInv, StreamNextIInv, PTL DEF StreamSpec

-----------------------------------------------------------------------------
(* No read or write leaves the file or the buffer.                         *)
THEOREM StreamTypeCorrect == StreamSpec => []StreamTypeOK
<1>1. StreamIInv => StreamTypeOK
  BY DEF StreamIInv
<1> QED BY <1>1, StreamInvariance, PTL

(* What is sent is whole blocks in order, and a successful call leaves out *)
(* less than one block, whatever the size of a block and of the file.      *)
THEOREM StreamSendsWholeBlocks == StreamSpec => []WholeBlocks
<1>1. StreamIInv => WholeBlocks
  <2> SUFFICES ASSUME StreamIInv PROVE WholeBlocks
    OBVIOUS
  <2>1. PICK q \in Nat : offset - gcount = q * Block
    BY DEF StreamIInv, StreamTypeOK, WholeBlocksRead
  <2>2. (q * Block) % Block = 0
    BY StreamAssumption
  <2> QED BY <2>1, <2>2 DEF StreamIInv, SentSoFar, LoopEnds, WholeBlocks
<1> QED BY <1>1, StreamInvariance, PTL

-----------------------------------------------------------------------------
\* A record's columns, by type.
LEMMA ShapeOfRecord ==
  ASSUME record \in Records
  PROVE  /\ \E n \in 0..MaxPar : record.jpar \in [1..n -> Code]
         /\ \E n \in 0..MaxPar : record.mpar \in [1..n -> Code]
         /\ \E n \in 0..MaxRows : DOMAIN record.rows = 1..n
<1>1. PICK m \in UpTo(MaxPar, Code) :
        record \in [jpar : UpTo(MaxPar, Code), mpar : {m}, rows : UpTo(MaxRows, [DOMAIN m -> Value])]
  BY DEF Records
<1>2. /\ record.jpar \in UpTo(MaxPar, Code)
      /\ record.mpar \in UpTo(MaxPar, Code)
      /\ record.rows \in UpTo(MaxRows, [DOMAIN m -> Value])
  BY <1>1
<1>3. \E n \in 0..MaxRows : record.rows \in [1..n -> [DOMAIN m -> Value]]
  BY <1>2 DEF UpTo
<1> QED BY <1>2, <1>3 DEF UpTo

LEMMA ColumnsAreColumns ==
  ASSUME record \in Records
  PROVE  /\ JPAR \subseteq Column /\ MPAR \subseteq Column
         /\ ScaledJPAR \subseteq Column
         /\ Rows \subseteq 1..MaxRows
         /\ IsFiniteSet(MPAR)
<1>1. /\ DOMAIN record.jpar \subseteq 1..MaxPar
      /\ DOMAIN record.mpar \subseteq 1..MaxPar
      /\ Rows \subseteq 1..MaxRows
  BY ShapeOfRecord, TablesAssumption DEF Rows
<1>2. JPAR \subseteq Column /\ MPAR \subseteq Column /\ ScaledJPAR \subseteq Column
  <2>1. /\ {i \in DOMAIN record["jpar"] : Selects(record["jpar"][i])} \subseteq 1..MaxPar
        /\ {i \in DOMAIN record["jpar"] : Selects(abs(record["jpar"][i]))} \subseteq 1..MaxPar
        /\ {i \in DOMAIN record["mpar"] : Selects(record["mpar"][i])} \subseteq 1..MaxPar
    BY <1>1
  <2>2. \A S, T : T \in {"jpar", "mpar"} /\ S \subseteq 1..MaxPar => {T} \X S \subseteq Column
    BY DEF Column
  <2> QED BY <2>1, <2>2 DEF JPAR, MPAR, ScaledJPAR, Columns
<1>3. IsFiniteSet(MPAR)
  <2>1. IsFiniteSet(1..MaxPar) /\ IsFiniteSet({"mpar"})
    <3>1. 1 \in Int /\ MaxPar \in Int
      BY TablesAssumption
    <3>2. IsFiniteSet(1..MaxPar)
      BY <3>1, FS_Interval
    <3>3. IsFiniteSet({"mpar"})
      BY FS_Singleton
    <3> QED BY <3>2, <3>3
  <2>2. IsFiniteSet({"mpar"} \X (1..MaxPar))
    BY <2>1, FS_Product
  <2>3. MPAR \subseteq {"mpar"} \X (1..MaxPar)
    BY <1>1 DEF MPAR, Columns
  <2> QED BY <2>2, <2>3, FS_Subset
<1> QED BY <1>1, <1>2, <1>3

(* send_tab_data counts the values in range, send_flat_data looks for one  *)
(* that is not: they print the same rows.                                  *)
LEMMA CountingIsLooking ==
  ASSUME record \in Records, NEW o
  PROVE  TabRow(o) <=> FlatRow(o)
<1> DEFINE Good == {x \in MPAR : InRange(x, o)}
<1>1. IsFiniteSet(MPAR) /\ Good \in SUBSET MPAR
  BY ColumnsAreColumns
<1>2. Cardinality(Good) = Cardinality(MPAR) <=> Good = MPAR
  BY <1>1, FS_Subset
<1>3. Good = MPAR <=> \A x \in MPAR : InRange(x, o)
  OBVIOUS
<1> QED BY <1>2, <1>3 DEF TabRow, FlatRow

-----------------------------------------------------------------------------
(* The inductive invariant.                                                *)

LEMMA TabInitIInv == TabInit => TabIInv
<1> SUFFICES ASSUME TabInit PROVE TabIInv
  OBVIOUS
<1>1. NoTable \in [head : [Line -> SUBSET Column], rows : SUBSET (1..MaxRows)]
  BY DEF NoTable
<1>2. TablesTypeOK
  BY <1>1 DEF TabInit, TablesTypeOK
<1>3. TabTold /\ FlatTold /\ DdsTold
  BY DEF TabInit, TabTold, FlatTold, DdsTold, Ok, Format
<1> QED BY <1>2, <1>3 DEF TabIInv

\* What depends on the input alone.
LEMMA InputStays ==
  ASSUME UNCHANGED input
  PROVE  /\ TabColumns' = TabColumns /\ DdsColumns' = DdsColumns
         /\ JPAR' = JPAR /\ MPAR' = MPAR /\ ScaledJPAR' = ScaledJPAR
         /\ Rows' = Rows /\ HasRows' = HasRows /\ DdsRows' = DdsRows
         /\ \A X : Named(X)' = Named(X)
         /\ \A o : TabRow(o)' = TabRow(o) /\ FlatRow(o)' = FlatRow(o)
<1> USE DEF input
<1>1. JPAR' = JPAR /\ MPAR' = MPAR /\ ScaledJPAR' = ScaledJPAR
  BY DEF JPAR, MPAR, ScaledJPAR, Columns, Selects
<1>2. Rows' = Rows /\ HasRows' = HasRows /\ DdsRows' = DdsRows
  BY DEF Rows, HasRows, DdsRows
<1>3. TabColumns' = TabColumns /\ DdsColumns' = DdsColumns
  BY <1>1, <1>2 DEF TabColumns, DdsColumns
<1>4. \A X : Named(X)' = Named(X)
  BY DEF Named, CodeAt
<1>5. \A o : TabRow(o)' = TabRow(o) /\ FlatRow(o)' = FlatRow(o)
  BY <1>1 DEF TabRow, FlatRow, InRange, CodeAt
<1> QED BY <1>1, <1>2, <1>3, <1>4, <1>5

\* An answer is a table.
LEMMA SendsTypes ==
  ASSUME TablesTypeOK, NEW f \in Format,
         NEW head \in [Line -> SUBSET Column], NEW rows \in SUBSET (1..MaxRows),
         Sends(f, head, rows)
  PROVE  TablesTypeOK'
BY DEF Sends, TablesTypeOK, input

LEMMA ThrowsTypes ==
  ASSUME TablesTypeOK, NEW f \in Format, Throws(f)
  PROVE  TablesTypeOK'
BY DEF Throws, TablesTypeOK, input

LEMMA TabIInvStep ==
  ASSUME TabIInv, send_tab_data
  PROVE  TabIInv'
<1>1. UNCHANGED input
  BY DEF send_tab_data, Sends, Throws
<1>2. /\ status'["flat"] = status["flat"] /\ status'["dds"] = status["dds"]
      /\ table'["flat"] = table["flat"] /\ table'["dds"] = table["dds"]
  BY DEF send_tab_data, Sends, Throws, TabIInv, TablesTypeOK, Format
<1>3. FlatTold' /\ DdsTold'
  BY <1>1, <1>2, InputStays DEF TabIInv, FlatTold, DdsTold, Ok
<1>4. TabColumns \subseteq Column /\ Rows \subseteq 1..MaxRows
  BY ColumnsAreColumns DEF TabIInv, TablesTypeOK, TabColumns
<1>5. TablesTypeOK'
  BY <1>4, SendsTypes, ThrowsTypes DEF send_tab_data, TabIInv, Format
<1>6. TabTold'
  BY <1>1, InputStays DEF send_tab_data, Sends, Throws, TabTold, Ok, TabIInv, TablesTypeOK, Format, Line
<1> QED BY <1>3, <1>5, <1>6 DEF TabIInv

LEMMA FlatIInvStep ==
  ASSUME TabIInv, send_flat_data
  PROVE  TabIInv'
<1>1. UNCHANGED input
  BY DEF send_flat_data, Sends, Throws
<1>2. /\ status'["tab"] = status["tab"] /\ status'["dds"] = status["dds"]
      /\ table'["tab"] = table["tab"] /\ table'["dds"] = table["dds"]
  BY DEF send_flat_data, Sends, Throws, TabIInv, TablesTypeOK, Format
<1>3. TabTold' /\ DdsTold'
  BY <1>1, <1>2, InputStays DEF TabIInv, TabTold, DdsTold, Ok
<1>4. /\ JPAR \subseteq Column /\ MPAR \subseteq Column /\ ScaledJPAR \subseteq Column
      /\ Rows \subseteq 1..MaxRows
  BY ColumnsAreColumns DEF TabIInv, TablesTypeOK
<1>5. TablesTypeOK'
  BY <1>4, SendsTypes, ThrowsTypes DEF send_flat_data, TabIInv, Format
<1>6. FlatTold'
  BY <1>1, InputStays DEF send_flat_data, Sends, Throws, FlatTold, Ok, TabIInv, TablesTypeOK, Format
<1> QED BY <1>3, <1>5, <1>6 DEF TabIInv

LEMMA DdsIInvStep ==
  ASSUME TabIInv, load_dds
  PROVE  TabIInv'
<1>1. UNCHANGED input
  BY DEF load_dds, Sends, Throws
<1>2. /\ status'["tab"] = status["tab"] /\ status'["flat"] = status["flat"]
      /\ table'["tab"] = table["tab"] /\ table'["flat"] = table["flat"]
  BY DEF load_dds, Sends, Throws, TabIInv, TablesTypeOK, Format
<1>3. TabTold' /\ FlatTold'
  BY <1>1, <1>2, InputStays DEF TabIInv, TabTold, FlatTold, Ok
<1>4. DdsColumns \subseteq Column /\ DdsRows \subseteq 1..MaxRows
  BY ColumnsAreColumns DEF TabIInv, TablesTypeOK, DdsColumns, DdsRows
<1>5. TablesTypeOK'
  BY <1>4, SendsTypes, ThrowsTypes DEF load_dds, TabIInv, Format
<1>6. DdsTold'
  BY <1>1, InputStays DEF load_dds, Sends, Throws, DdsTold, Ok, TabIInv, TablesTypeOK, Format, Line
<1> QED BY <1>3, <1>5, <1>6 DEF TabIInv

LEMMA TabNextIInv == TabIInv /\ [TabNext]_tabVars => TabIInv'
<1> SUFFICES ASSUME TabIInv, [TabNext]_tabVars PROVE TabIInv'
  OBVIOUS
<1>1. CASE TabNext
  BY <1>1, TabIInvStep, FlatIInvStep, DdsIInvStep DEF TabNext
<1>2. CASE UNCHANGED tabVars
  <2>1. UNCHANGED input /\ status' = status /\ table' = table
    BY <1>2 DEF tabVars, input
  <2> QED BY <2>1, InputStays DEF TabIInv, TablesTypeOK, TabTold, FlatTold, DdsTold, Ok, input
<1> QED BY <1>1, <1>2

LEMMA TabInvariance == TabSpec => []TabIInv
BY TabInitIInv, TabNextIInv, PTL DEF TabSpec

-----------------------------------------------------------------------------
(* tab and flat give the same rows and columns of every record that has    *)
(* values, whatever the constraint, and of the others they differ just as  *)
(* the lack of a test in flat has it.                                      *)
THEOREM TextFormatsAgree == TabSpec => []TextsAgree
<1>1. TabIInv => TextsAgree
  <2> SUFFICES ASSUME TabIInv, Ok("tab"), Ok("flat")
               PROVE  TextsAgree
    BY DEF TextsAgree
  <2>1. /\ table["tab"].rows = {o \in Rows : HasRows /\ TabRow(o)}
        /\ table["tab"].head["data"] = TabColumns
        /\ table["flat"].rows = {o \in Rows : FlatRow(o)}
        /\ table["flat"].head["data"] = JPAR \cup MPAR
    BY DEF TabIInv, TabTold, FlatTold, Line
  <2>2. CASE DOMAIN record.mpar = {}
    <3>1. MPAR = {} /\ ~HasRows
      BY <2>2 DEF MPAR, Columns, HasRows
    <3>2. table["tab"].rows = {} /\ table["flat"].rows = Rows
      BY <2>1, <3>1 DEF FlatRow
    <3>3. table["tab"].head["data"] = table["flat"].head["data"]
      BY <2>1, <3>1 DEF TabColumns
    <3> QED BY <2>2, <3>2, <3>3 DEF TextsAgree
  <2>3. CASE DOMAIN record.mpar # {}
    <3>1. HasRows <=> Rows # {}
      BY <2>3 DEF HasRows
    <3>2. table["tab"].rows = table["flat"].rows
      BY <2>1, <3>1, CountingIsLooking DEF TabIInv, TablesTypeOK
    <3>3. /\ table["tab"].head["data"] \subseteq table["flat"].head["data"]
          /\ Rows # {} => table["tab"].head["data"] = table["flat"].head["data"]
      BY <2>1, <3>1 DEF TabColumns
    <3> QED BY <2>3, <3>2, <3>3 DEF TextsAgree
  <2> QED BY <2>2, <2>3
<1> QED BY <1>1, TabInvariance, PTL

(* The head of a flat response lines up with its rows, unless the record   *)
(* has an error code that the constraint treats other than its parameter.  *)
THEOREM FlatHeadLinesUp == TabSpec => []FlatLinesUp
<1>1. TabIInv => FlatLinesUp
  <2> SUFFICES ASSUME TabIInv, Ok("flat"),
                      \A i \in DOMAIN record.jpar :
                        LET v == record.jpar[i] IN v < 0 => Selects(v) = Selects(abs(v))
               PROVE  \A l \in Line : table["flat"].head[l] = table["flat"].head["data"]
    BY DEF FlatLinesUp
  <2>1. \A i \in DOMAIN record.jpar : record.jpar[i] \in Int
    BY ShapeOfRecord, TablesAssumption DEF TabIInv, TablesTypeOK
  <2>2. \A i \in DOMAIN record.jpar : Selects(record.jpar[i]) = Selects(abs(record.jpar[i]))
    BY <2>1 DEF abs
  <2>3. ScaledJPAR = JPAR
    BY <2>2 DEF ScaledJPAR, JPAR, Columns
  <2> QED BY <2>3 DEF TabIInv, FlatTold, Line
<1> QED BY <1>1, TabInvariance, PTL

(* The dds holds all that the tab response has, and every row.             *)
THEOREM DdsHoldsAll == TabSpec => []DdsHoldsTab
<1>1. TabIInv => DdsHoldsTab
  BY DEF TabIInv, TabTold, DdsTold, DdsHoldsTab, TabColumns, DdsColumns, DdsRows
<1> QED BY <1>1, TabInvariance, PTL

(* What flat can serve, tab and dds can; these two serve the same records. *)
THEOREM FlatIsNarrowest == TabSpec => []FlatAsksMost
<1>1. TabIInv => FlatAsksMost
  <2> SUFFICES ASSUME TabIInv PROVE FlatAsksMost
    OBVIOUS
  <2>1. TabColumns = DdsColumns /\ TabColumns \subseteq JPAR \cup MPAR
    BY DEF TabColumns, DdsColumns
  <2>2. status["tab"] \in {"none", "ok", "error"} /\ status["dds"] \in {"none", "ok", "error"}
    BY DEF TabIInv, TablesTypeOK, Format
  <2>3. Named(JPAR \cup MPAR) => Named(TabColumns)
    BY <2>1 DEF Named
  <2> QED BY <2>1, <2>2, <2>3 DEF TabIInv, TabTold, FlatTold, DdsTold, Ok, FlatAsksMost
<1> QED BY <1>1, TabInvariance, PTL

(* Each format gives a table of its record: rows it has, columns it has.   *)
THEOREM TablesTypeCorrect == TabSpec => []TablesTypeOK
<1>1. TabIInv => TablesTypeOK
  BY DEF TabIInv
<1> QED BY <1>1, TabInvariance, PTL

=============================================================================
