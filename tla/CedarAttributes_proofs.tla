----------------------- MODULE CedarAttributes_proofs ------------------------
(***************************************************************************)
(* The theorems about CedarAttributes.  The three invariants are inductive *)
(* together: that a kind has one table rests on the register holding all   *)
(* that was read, and that on the types.                                   *)
(***************************************************************************)
EXTENDS CedarAttributes, TLAPS

\* The inductive invariant.
AttrIInv == AttrTypeOK /\ TellsTheUnknown /\ OneTablePerKind

\* What the invariant says of one process.
Sound(p) ==
  /\ at[p] = 1 \/ at[p] - 1 \in DOMAIN file[p]
  /\ \A t \in DOMAIN das[p] : \E i \in Read(p) : file[p][i] = das[p][t]
  /\ KindsTold(p) = KindsRead(p) \ before[p]
  /\ before[p] \cup KindsRead(p) \subseteq reg[p]
  /\ reg[p] \subseteq before[p] \cup KindsRead(p)
                      \cup (IF status[p] = "error" THEN KindAt(p) ELSE {})
  /\ \A i, j \in DOMAIN das[p] : das[p][i].kindat = das[p][j].kindat => i = j

AttrTypes ==
  /\ reg \in [Process -> SUBSET Kindat]
  /\ file \in [Process -> File]
  /\ at \in [Process -> Nat \ {0}]
  /\ das \in [Process -> Seq(Record)]
  /\ status \in [Process -> {"idle", "reading", "ok", "error"}]
  /\ before \in [Process -> SUBSET Kindat]

LEMMA IInvIsSound == AttrIInv <=> AttrTypes /\ \A p \in Process : Sound(p)
BY DEF AttrIInv, AttrTypes, Sound, AttrTypeOK, TellsTheUnknown, OneTablePerKind

LEMMA SoundIsIInv ==
  ASSUME AttrTypes', \A p \in Process : Sound(p)'
  PROVE  AttrIInv'
BY DEF AttrIInv, AttrTypes, Sound, AttrTypeOK, TellsTheUnknown, OneTablePerKind

\* A step of p leaves the others alone.
Alone(p) ==
  \A q \in Process : q # p =>
    /\ reg'[q] = reg[q] /\ file'[q] = file[q] /\ at'[q] = at[q]
    /\ das'[q] = das[q] /\ status'[q] = status[q] /\ before'[q] = before[q]

LEMMA IInvByProcess ==
  ASSUME AttrIInv, NEW p \in Process, Alone(p), AttrTypes', Sound(p)'
  PROVE  AttrIInv'
<1>1. ASSUME NEW q \in Process, q # p
      PROVE  Sound(q)'
  <2>1. Sound(q)
    BY IInvIsSound
  <2> QED BY <1>1, <2>1 DEF Alone, Sound, Read, KindsRead, KindsTold, KindAt, This
<1> QED BY <1>1, SoundIsIInv

LEMMA FilesAreRecords ==
  ASSUME NEW f \in File
  PROVE  \E n \in Nat : DOMAIN f = 1..n /\ \A i \in 1..n : f[i] \in Record \cup {Header}
BY AttributesAssumption DEF File

LEMMA EmptyIsFile == EmptyFile \in File /\ DOMAIN EmptyFile = {}
<1>1. 0 \in 0..MaxRecords /\ EmptyFile \in [1..0 -> Record \cup {Header}]
  BY AttributesAssumption DEF EmptyFile
<1>2. DOMAIN EmptyFile = {}
  BY DEF EmptyFile
<1> QED BY <1>1, <1>2 DEF File

\* The record at p's position joins those that have been read.
LEMMA Advance ==
  ASSUME AttrTypes, NEW p \in Process, InFile(p), at'[p] = at[p] + 1, file'[p] = file[p]
  PROVE  Read(p)' = Read(p) \cup (IF This(p) = Header THEN {} ELSE {at[p]})
<1>1. PICK n \in Nat : DOMAIN file[p] = 1..n
  BY FilesAreRecords DEF AttrTypes
<1>2. at[p] \in 1..n /\ \A i \in 1..n : i < at[p] + 1 <=> i < at[p] \/ i = at[p]
  BY <1>1 DEF InFile, AttrTypes
<1> QED BY <1>1, <1>2 DEF Read, This

LEMMA AttrInitIInv == AttrInit => AttrIInv
<1> SUFFICES ASSUME AttrInit
             PROVE  AttrIInv
  OBVIOUS
<1>1. AttrTypes
  BY EmptyIsFile DEF AttrInit, AttrTypes
<1>2. ASSUME NEW p \in Process
      PROVE  Sound(p)
  <2>1. Read(p) = {}
    BY EmptyIsFile DEF AttrInit, Read
  <2> QED BY <2>1 DEF AttrInit, Sound, KindsRead, KindsTold
<1> QED BY <1>1, <1>2, IInvIsSound

LEMMA OpenIInv ==
  ASSUME AttrIInv, NEW p \in Process, NEW f \in File, Open(p, f)
  PROVE  AttrIInv'
<1> USE IInvIsSound DEF Open, Becomes
<1>1. AttrTypes' /\ Alone(p)
  BY DEF AttrTypes, Alone
<1>2. Read(p)' = {}
  BY FilesAreRecords DEF Read, AttrTypes
<1>3. Sound(p)'
  BY <1>2 DEF Sound, KindsRead, KindsTold, AttrTypes
<1> QED BY <1>1, <1>3, IInvByProcess

LEMMA SkipIInv ==
  ASSUME AttrIInv, NEW p \in Process, Skip(p)
  PROVE  AttrIInv'
<1>1. AttrTypes' /\ Alone(p)
  BY IInvIsSound DEF Skip, AttrTypes, Alone
<1>2. Read(p)' = Read(p) \cup (IF This(p) = Header THEN {} ELSE {at[p]})
  BY Advance, IInvIsSound DEF Skip, AttrTypes
<1>3. at'[p] = at[p] + 1 /\ at[p] \in DOMAIN file[p] /\ status[p] = "reading" /\ at[p] \in Nat
      /\ UNCHANGED <<reg, file, das, status, before>>
  BY IInvIsSound DEF Skip, InFile, AttrTypes
<1>4. KindsRead(p)' = KindsRead(p) \cup (IF This(p) = Header THEN {} ELSE {This(p).kindat})
  BY <1>2, <1>3 DEF KindsRead, This
<1>5. This(p) # Header => This(p).kindat \in before[p] \cup KindsRead(p)
  BY <1>3, IInvIsSound DEF Skip, Logged, Sound
<1>6. Sound(p)'
  BY <1>2, <1>3, <1>4, <1>5, IInvIsSound DEF Sound, KindsTold
<1> QED BY <1>1, <1>6, IInvByProcess

LEMMA LoadIInv ==
  ASSUME AttrIInv, NEW p \in Process, load_das(p)
  PROVE  AttrIInv'
<1> DEFINE k == This(p).kindat
<1>1. /\ at[p] \in DOMAIN file[p] /\ at[p] \in Nat /\ status[p] = "reading"
      /\ This(p) \in Record /\ This(p) # Header /\ k \in Kindat /\ k \notin reg[p]
  BY FilesAreRecords, IInvIsSound DEF load_das, InFile, This, Logged, AttrTypes, Record
<1>2. Alone(p)
  BY IInvIsSound DEF load_das, Becomes, AttrTypes, Alone
<1>3. AttrTypes'
  <2>1. reg' \in [Process -> SUBSET Kindat] /\ UNCHANGED <<file, before>>
    BY <1>1, IInvIsSound DEF load_das, AttrTypes
  <2>2. Append(das[p], This(p)) \in Seq(Record) /\ at[p] + 1 \in Nat \ {0}
    BY <1>1, IInvIsSound DEF AttrTypes
  <2>3. das' \in [Process -> Seq(Record)] /\ at' \in [Process -> Nat \ {0}]
    BY <2>2, IInvIsSound DEF load_das, AttrTypes
  <2>4. status' \in [Process -> {"idle", "reading", "ok", "error"}]
    BY IInvIsSound DEF load_das, Becomes, AttrTypes
  <2> QED BY <2>1, <2>3, <2>4, IInvIsSound DEF AttrTypes
<1>4. /\ reg'[p] = reg[p] \cup {k} /\ UNCHANGED <<file, before>>
      /\ reg[p] = before[p] \cup KindsRead(p)
  BY <1>1, IInvIsSound DEF load_das, AttrTypes, Sound
<1>5. CASE /\ das' = [das EXCEPT ![p] = Append(@, This(p))]
           /\ at' = [at EXCEPT ![p] = @ + 1]
           /\ UNCHANGED status
  <2> DEFINE n == Len(das[p])
  <2>1. /\ das'[p] = Append(das[p], This(p)) /\ at'[p] = at[p] + 1 /\ status'[p] = status[p]
    BY <1>5, IInvIsSound DEF AttrTypes
  <2>2. /\ n \in Nat /\ DOMAIN das[p] = 1..n /\ DOMAIN das'[p] = 1..(n + 1)
        /\ das'[p][n + 1] = This(p) /\ \A i \in 1..n : das'[p][i] = das[p][i]
    BY <1>1, <2>1, IInvIsSound DEF AttrTypes
  <2> HIDE DEF n
  <2>3. Read(p)' = Read(p) \cup {at[p]}
    BY <1>1, <1>4, <2>1, Advance, IInvIsSound DEF load_das
  <2>4. KindsRead(p)' = KindsRead(p) \cup {k}
    BY <1>4, <2>3 DEF KindsRead, This
  <2>5. KindsTold(p)' = KindsTold(p) \cup {k}
    <3>1. 1..(n + 1) = 1..n \cup {n + 1}
      BY <2>2
    <3> QED BY <2>2, <3>1 DEF KindsTold
  <2>6. k \notin KindsTold(p) /\ k \notin before[p]
    BY <1>1, <1>4, IInvIsSound DEF Sound
  <2>7. ASSUME NEW i \in DOMAIN das'[p], NEW j \in DOMAIN das'[p],
               das'[p][i].kindat = das'[p][j].kindat
        PROVE  i = j
    <3>1. CASE i = n + 1 \/ j = n + 1
      BY <2>2, <2>6, <2>7, <3>1 DEF KindsTold
    <3>2. CASE i # n + 1 /\ j # n + 1
      <4>1. i \in 1..n /\ j \in 1..n
        BY <2>2, <3>2
      <4> QED BY <2>2, <2>7, <4>1, IInvIsSound DEF Sound
    <3> QED BY <3>1, <3>2
  <2>8. \A t \in DOMAIN das'[p] : \E i \in Read(p)' : file'[p][i] = das'[p][t]
    <3> SUFFICES ASSUME NEW t \in DOMAIN das'[p]
                 PROVE  \E i \in Read(p)' : file'[p][i] = das'[p][t]
      OBVIOUS
    <3>1. CASE t = n + 1
      BY <1>4, <2>2, <2>3, <3>1 DEF This
    <3>2. CASE t \in 1..n
      BY <1>4, <2>2, <2>3, <3>2, IInvIsSound DEF Sound
    <3> QED BY <2>2, <3>1, <3>2
  <2>9. KindsTold(p)' = KindsRead(p)' \ before'[p]
        /\ before'[p] \cup KindsRead(p)' \subseteq reg'[p]
        /\ reg'[p] \subseteq before'[p] \cup KindsRead(p)'
    BY <1>4, <2>4, <2>5, <2>6, IInvIsSound DEF Sound
  <2>10. at'[p] - 1 \in DOMAIN file'[p]
    BY <1>1, <1>4, <2>1
  <2>11. Sound(p)'
    BY <2>7, <2>8, <2>9, <2>10 DEF Sound
  <2> QED BY <1>2, <1>3, <2>11, IInvByProcess
<1>6. CASE Becomes(p, "error") /\ UNCHANGED <<at, das>>
  <2>1. status'[p] = "error" /\ UNCHANGED <<at, das, file, before>>
    BY <1>4, <1>6, IInvIsSound DEF Becomes, AttrTypes
  <2>2. Sound(p)'
    BY <1>1, <1>4, <2>1, IInvIsSound DEF Sound, Read, KindsRead, KindsTold, KindAt, This
  <2> QED BY <1>2, <1>3, <2>2, IInvByProcess
<1> QED BY <1>5, <1>6 DEF load_das

LEMMA EndIInv ==
  ASSUME AttrIInv, NEW p \in Process, Corrupt(p) \/ EndDataset(p)
  PROVE  AttrIInv'
<1>1. AttrTypes' /\ Alone(p)
  BY IInvIsSound DEF Corrupt, EndDataset, Becomes, AttrTypes, Alone
<1>2. status[p] = "reading" /\ UNCHANGED <<reg, file, at, das, before>>
  BY DEF Corrupt, EndDataset
<1>3. /\ Read(p)' = Read(p) /\ KindsRead(p)' = KindsRead(p)
      /\ KindsTold(p)' = KindsTold(p) /\ KindAt(p)' = KindAt(p)
  BY <1>2 DEF Read, KindsRead, KindsTold, KindAt, This
<1>4. reg[p] \subseteq before[p] \cup KindsRead(p)
  BY <1>2, IInvIsSound DEF Sound
<1>5. Sound(p)'
  BY <1>2, <1>3, <1>4, IInvIsSound DEF Sound
<1> QED BY <1>1, <1>5, IInvByProcess

LEMMA RestartIInv ==
  ASSUME AttrIInv, NEW p \in Process, Restart(p)
  PROVE  AttrIInv'
<1> USE IInvIsSound DEF Restart, Becomes
<1>1. AttrTypes' /\ Alone(p)
  BY EmptyIsFile DEF AttrTypes, Alone
<1>2. Read(p)' = {}
  BY EmptyIsFile DEF Read, AttrTypes
<1>3. Sound(p)'
  BY <1>2 DEF Sound, KindsRead, KindsTold, AttrTypes
<1> QED BY <1>1, <1>3, IInvByProcess

LEMMA AttrNextIInv == AttrIInv /\ [AttrNext]_attrVars => AttrIInv'
<1> SUFFICES ASSUME AttrIInv, [AttrNext]_attrVars
             PROVE  AttrIInv'
  OBVIOUS
<1>1. CASE UNCHANGED attrVars
  <2>1. AttrTypes'
    BY <1>1, IInvIsSound DEF attrVars, AttrTypes
  <2>2. ASSUME NEW p \in Process
        PROVE  Sound(p)'
    BY <1>1, IInvIsSound DEF attrVars, Sound, Read, KindsRead, KindsTold, KindAt, This
  <2> QED BY <2>1, <2>2, SoundIsIInv
<1>2. CASE AttrNext
  BY <1>2, OpenIInv, SkipIInv, LoadIInv, EndIInv, RestartIInv DEF AttrNext
<1> QED BY <1>1, <1>2

LEMMA AttrInvariance == AttrSpec => []AttrIInv
BY AttrInitIInv, AttrNextIInv, PTL DEF AttrSpec

(* The walk never leaves its file by more than one record, and every table *)
(* is that of a record it has read, for files of any length.               *)
THEOREM AttrTypeCorrect == AttrSpec => []AttrTypeOK
<1>1. AttrIInv => AttrTypeOK
  BY DEF AttrIInv
<1> QED BY <1>1, AttrInvariance, PTL

(* For files of any length: a response tells the kinds the process had not *)
(* met before, and no others, after any history of successes and failures. *)
THEOREM ResponsesTellTheUnknown == AttrSpec => []TellsTheUnknown
<1>1. AttrIInv => TellsTheUnknown
  BY DEF AttrIInv
<1> QED BY <1>1, AttrInvariance, PTL

(* However often a kind occurs in the files, and with however many         *)
(* instruments: a response never makes two calls of add_table for it.      *)
THEOREM TablesAreUnique == AttrSpec => []OneTablePerKind
<1>1. AttrIInv => OneTablePerKind
  BY DEF AttrIInv
<1> QED BY <1>1, AttrInvariance, PTL

=============================================================================
