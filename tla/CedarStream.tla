----------------------------- MODULE CedarStream -----------------------------
(***************************************************************************)
(* cedar_read_stream: a file is copied to the standard output in blocks.   *)
(*                                                                         *)
(* A read that meets the end of the file leaves the stream in a failed     *)
(* state, so the loop ends without writing what that read got; and so does *)
(* one that the system refuses, of a bad disk or of a directory.  The      *)
(* result of write() is not looked at: it may have taken only part of the  *)
(* block, or wait for ever for a client that takes no more.                *)
(***************************************************************************)
EXTENDS Naturals

CONSTANTS
  Block,   \* the size of the buffer, 4096 in the code
  MaxSize  \* bound on the size of a file

ASSUME StreamAssumption == Block \in Nat \ {0} /\ MaxSize \in Nat

VARIABLES
  size,    \* the bytes of the file
  offset,  \* how many of them have been read
  gcount,  \* what the last read got
  good,    \* the stream has not failed
  sent,    \* the bytes that were written, by their place in the file
  short,   \* some write() took less than its block (an observer)
  broken,  \* some read was refused (an observer)
  result   \* "none", then what the function returns

streamVars == <<size, offset, gcount, good, sent, short, broken, result>>

StreamInit ==
  /\ size \in 0..MaxSize
  /\ offset = 0
  /\ gcount = 0
  /\ good = TRUE
  /\ sent = {}
  /\ short = FALSE
  /\ broken = FALSE
  /\ result = "none"

-----------------------------------------------------------------------------
\* The file cannot be opened.
Fail ==
  /\ result = "none" /\ offset = 0 /\ gcount = 0 /\ good
  /\ result' = "false"
  /\ UNCHANGED <<size, offset, gcount, good, sent, short, broken>>

\* A slip: what is left of the file is not looked at.
ReadsFullBlocks ==
  /\ result = "none" /\ good /\ gcount = 0
  /\ gcount' = Block
  /\ good' = (size - offset >= Block)
  /\ offset' = offset + Block
  /\ UNCHANGED <<size, sent, short, broken, result>>

\* A slip: a read at the very end of the file is taken for a full one.
ReadsPastEnd ==
  /\ result = "none" /\ good /\ gcount = 0
  /\ LET rest == size - offset IN
       /\ gcount' = IF rest < Block THEN rest ELSE Block
       /\ good' = (rest >= Block \/ rest = 0)
       /\ offset' = offset + gcount'
  /\ UNCHANGED <<size, sent, short, broken, result>>

\* os.read(): a full block, or what is left and the end of the file.
Read ==
  /\ result = "none" /\ good /\ gcount = 0
  /\ LET rest == size - offset IN
       /\ gcount' = IF rest < Block THEN rest ELSE Block
       /\ good' = (rest >= Block)
       /\ offset' = offset + gcount'
  /\ UNCHANGED <<size, sent, short, broken, result>>

\* The system refuses a read: the stream fails, the count is zero.
ReadFails ==
  /\ result = "none" /\ good /\ gcount = 0
  /\ good' = FALSE
  /\ broken' = TRUE
  /\ UNCHANGED <<size, offset, gcount, sent, short, result>>

\* A slip: every block is written from the start of the file on.
WritesFromStart ==
  /\ result = "none" /\ good /\ gcount > 0
  /\ \E n \in 0..gcount :
       /\ sent' = sent \cup 0..(n - 1)
       /\ short' = (short \/ n < gcount)
  /\ gcount' = 0
  /\ UNCHANGED <<size, offset, good, broken, result>>

\* The loop's condition holds: the first n bytes of the block are taken.
Write ==
  /\ result = "none" /\ good /\ gcount > 0
  /\ \E n \in 0..gcount :
       /\ sent' = sent \cup {i \in 0..(size - 1) : offset - gcount <= i /\ i < offset - gcount + n}
       /\ short' = (short \/ n < gcount)
  /\ gcount' = 0
  /\ UNCHANGED <<size, offset, good, broken, result>>

Finish ==
  /\ result = "none" /\ ~good
  /\ result' = "true"
  /\ UNCHANGED <<size, offset, gcount, good, sent, short, broken>>

StreamNext == Fail \/ Read \/ ReadFails \/ Write \/ Finish

StreamSpec == StreamInit /\ [][StreamNext]_streamVars

\* A read of a file comes back, and the loop goes on; a write() may not.
StreamFairSpec ==
  StreamSpec /\ WF_streamVars(Read) /\ WF_streamVars(Finish)

-----------------------------------------------------------------------------
(* Type correctness; a block is never longer than the buffer or the file.  *)
StreamTypeOK ==
  /\ size \in 0..MaxSize
  /\ offset \in 0..size
  /\ gcount \in 0..Block /\ gcount <= offset
  /\ good \in BOOLEAN /\ short \in BOOLEAN /\ broken \in BOOLEAN
  /\ sent \subseteq 0..(size - 1)
  /\ result \in {"none", "true", "false"}

(* While every write() takes its block, what has been sent is exactly the  *)
(* whole blocks read so far: no block is sent twice or skipped; and if no  *)
(* read was refused, what a successful call leaves out is the tail of the  *)
(* file, shorter than one block.                                           *)
WholeBlocks ==
  ~short =>
    /\ sent = 0..(offset - gcount - 1)
    /\ (offset - gcount) % Block = 0
    /\ result = "true" /\ ~broken => offset = size /\ gcount < Block

(* The call returns, for files of every size, those that are a whole       *)
(* number of blocks included, unless the client stops taking bytes and a   *)
(* write() never comes back: nothing in the code would interrupt it.       *)
StreamReturns == <>(result # "none") \/ <>[](good /\ gcount > 0)

(* What cedar_help.txt:8 says of stream: "request the file content as is". *)
StreamedAsIs == result = "true" /\ ~short /\ ~broken => sent = 0..(size - 1)

\* The inductive invariant: the loop's condition holds for full blocks only,
\* and after the first one that is not full the file has been read.
WholeBlocksRead == \E q \in 0..size : offset - gcount = q * Block

LoopEnds ==
  /\ good => gcount \in {0, Block}
  /\ ~good /\ ~broken => offset = size /\ gcount < Block
  /\ broken => ~good /\ gcount = 0
  /\ result = "true" => ~good

SentSoFar == ~short => sent = 0..(offset - gcount - 1)

StreamIInv == StreamTypeOK /\ WholeBlocksRead /\ LoopEnds /\ SentSoFar

=============================================================================
