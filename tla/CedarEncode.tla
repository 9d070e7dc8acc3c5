----------------------------- MODULE CedarEncode -----------------------------
(***************************************************************************)
(* The encoding of the database passwords (CedarEncode.cc).  A tool        *)
(* encodes a text, someone puts what it printed into the configuration,    *)
(* and each connection decodes it: both go through the text in blocks,     *)
(* the last block first, in a buffer on the stack that nothing clears.     *)
(*                                                                         *)
(* A block is Width characters of Bits bits, 8 and 8 in the code, and a     *)
(* buffer has Size cells, 2048 in the code, which nothing checks.           *)
(***************************************************************************)
EXTENDS Integers, Sequences, FiniteSetsExt

CONSTANTS
  Width,    \* the characters of a block
  Bits,     \* the bits of a character
  Blank,    \* the character ' '
  Size,     \* the cells of a buffer
  Cipher,   \* setkey() and encrypt(): a permutation of blocks for each key
  MaxText   \* bound on the length of a text

N == Width * Bits

\* What the bits of a character count: 1, 2, 4 and so on.
Weight[j \in 0..Bits] == IF j = 0 THEN 1 ELSE 2 * Weight[j - 1]

Char == 0..(Weight[Bits] - 1)
Letter == Char \ {0}
BitBlock == [0..(N - 1) -> {0, 1}]
Digit == {48, 49}  \* '0' and '1'
Wild == -1         \* a cell of a buffer that nothing has been written to

ASSUME EncodeAssumption ==
  /\ Width \in Nat \ {0} /\ Bits \in Nat \ {0} /\ Size \in Nat \ {0} /\ MaxText \in Nat
  /\ Blank \in Letter
  /\ Cipher \in [BitBlock -> [BitBlock -> BitBlock]]
  /\ \A k, a, b \in BitBlock : Cipher[k][a] = Cipher[k][b] => a = b

Text == UNION {[1..l -> Letter] : l \in 0..MaxText}

\* How many blocks an encoded text takes: an empty one takes one.
Blocks(l) == IF l = 0 THEN 1 ELSE (l + Width - 1) \div Width

\* The code of s, with its terminator, fits into a buffer.
Fits(s) == N * Blocks(Len(s)) < Size

VARIABLES
  key,         \* "disp_key", in the tool and in CedarMySQLConnect.cc
  text,        \* what the tool was given
  b1,          \* encode's buffer
  configured,  \* what decode is given
  b2,          \* decode's buffer
  block,       \* the block that comes next
  pc           \* "encode", "configure", "decode", "done" or "undefined"

encVars == <<key, text, b1, configured, b2, block, pc>>

Cells == 0..(Size - 1)

EncInit ==
  /\ key \in [0..(Width - 1) -> Letter]
  /\ text \in Text
  /\ b1 = [c \in Cells |-> Wild]
  /\ configured = <<>>
  /\ b2 = [c \in Cells |-> Wild]
  /\ block = Blocks(Len(text)) - 1
  /\ pc = "encode"

-----------------------------------------------------------------------------
sap_bit(val, pos) == (val \div Weight[pos]) % 2

BitsOf(chars) == [i \in 0..(N - 1) |-> sap_bit(chars[i \div Bits], i % Bits)]

Total(bits, c) ==
  LET upTo[j \in 0..Bits] ==
        IF j = 0 THEN 0 ELSE upTo[j - 1] + Weight[j - 1] * bits[c * Bits + (j - 1)]
  IN upTo[Bits]

CharsOf(bits) == [c \in 0..(Width - 1) |-> Total(bits, c)]

my_encode(chars) ==
  LET bits == Cipher[BitsOf(key)][BitsOf(chars)]
  IN [i \in 0..(N - 1) |-> 48 + bits[i]]

my_decode(digits) ==
  LET bits == [i \in 0..(N - 1) |-> digits[i] - 48]
  IN CharsOf(CHOOSE b \in BitBlock : Cipher[BitsOf(key)][b] = bits)

\* What is written to a buffer from cell o on goes where it goes, be it
\* outside the buffer.
Put(buffer, o, cells) ==
  [c \in DOMAIN buffer \cup {o + i : i \in DOMAIN cells} |->
     IF c - o \in DOMAIN cells THEN cells[c - o] ELSE buffer[c]]

Terminated(buffer, o) == Put(buffer, o, [i \in {0} |-> 0])

\* A slip: the terminator is taken for a character.
WithTerminator(buffer) ==
  LET ends == {c \in DOMAIN buffer : buffer[c] = 0}
      l == IF ends = {} THEN Max(DOMAIN buffer) + 1 ELSE Min(ends) + 1
  IN [i \in 1..l |-> buffer[i - 1]]

\* The string that a buffer holds, up to the first terminator.
AsString(buffer) ==
  LET ends == {c \in DOMAIN buffer : buffer[c] = 0}
      l == IF ends = {} THEN Max(DOMAIN buffer) + 1 ELSE Min(ends)
  IN [i \in 1..l |-> buffer[i - 1]]

-----------------------------------------------------------------------------
\* The characters of a block of s; the last one is filled up with blanks.
BlockOf(s, b) ==
  [i \in 0..(Width - 1) |-> IF b * Width + i < Len(s) THEN s[b * Width + i + 1] ELSE Blank]

\* The buffer with the code of the block that comes next, and a terminator
\* after it if it is the last one.
Encoded(last) ==
  LET ended == IF last THEN Terminated(b1, (block + 1) * N) ELSE b1
  IN Put(ended, block * N, my_encode(BlockOf(text, block)))

\* Writing a cell that the buffer does not have is undefined.
EncodeTo(written) ==
  /\ IF DOMAIN written # Cells THEN pc' = "undefined" /\ UNCHANGED <<b1, block>>
     ELSE /\ b1' = written
          /\ IF block > 0 THEN block' = block - 1 /\ UNCHANGED pc
                          ELSE pc' = "configure" /\ UNCHANGED block
  /\ UNCHANGED <<key, text, configured, b2>>

\* A slip: only a block that was filled up is followed by a terminator.
EndsShortOnly == pc = "encode" /\ EncodeTo(Encoded((block + 1) * Width > Len(text)))

\* encode() on its way back: the last block is terminated, then each block
\* before it is put in front.
EncodeBlock == pc = "encode" /\ EncodeTo(Encoded((block + 1) * Width >= Len(text)))

\* What the tool printed is put into the configuration, as far as it goes:
\* the end of a long line may get lost.
Configure(l) ==
  /\ pc = "configure"
  /\ configured' = SubSeq(AsString(b1), 1, l)
  /\ IF l = 0 THEN pc' = "done" /\ UNCHANGED block
              ELSE pc' = "decode" /\ block' = (l - 1) \div N
  /\ UNCHANGED <<key, text, b1, b2>>

-----------------------------------------------------------------------------
\* The blanks at the end of a buffer are made terminators, from cell "from"
\* down; what a wild cell holds, and what lies below the buffer, is not known.
Stripped(buffer, from, to) ==
  [c \in DOMAIN buffer |-> IF c \in (to + 1)..from THEN 0 ELSE buffer[c]]

\* A slip: the loop goes on while there is no blank.
StopsAtBlank(buffer, from) ==
  {m \in -1..from : /\ \A c \in (m + 1)..from : buffer[c] # Blank
                    /\ m = -1 \/ buffer[m] \in {Blank, Wild}}

StopsAt(buffer, from) ==
  {m \in -1..from : /\ \A c \in (m + 1)..from : buffer[c] \in {Blank, Wild}
                    /\ m = -1 \/ buffer[m] # Blank}

\* A slip: each block is ended and stripped as if it were the last.
IsWhole == (block + 1) * N <= Len(configured)

IsLast == (block + 1) * N = Len(configured)

Decoded ==
  LET digits == [i \in 0..(N - 1) |-> configured[block * N + i + 1]]
  IN Put(b2, block * Width, my_decode(digits))

\* A slip: a last block that is not whole ends the whole of the decoding.
GivesUpAtCut == IF block > 0 /\ (block + 1) * N <= Len(configured)
                  THEN block' = block - 1 /\ UNCHANGED pc
                  ELSE pc' = "done" /\ UNCHANGED block

Returns == IF block > 0 THEN block' = block - 1 /\ UNCHANGED pc
                        ELSE pc' = "done" /\ UNCHANGED block

\* decode() on its way back: nothing is done for a last block that is not
\* whole, not even a terminator is written.
DecodeBlock ==
  /\ pc = "decode"
  /\ \/ /\ (block + 1) * N > Len(configured)
        /\ UNCHANGED b2
        /\ Returns
     \/ /\ IsLast
        /\ LET end == (block + 1) * Width
               full == Terminated(Decoded, end)
           IN \E m \in StopsAt(full, end - 1) :
                /\ b2' = Stripped(full, end - 1, m)
                /\ \/ Returns
                   \/ m = -1 /\ pc' = "undefined" /\ UNCHANGED block
     \/ /\ (block + 1) * N < Len(configured)
        /\ b2' = Decoded
        /\ Returns
  /\ UNCHANGED <<key, text, b1, configured>>

EncNext ==
  \/ EncodeBlock
  \/ \E l \in 0..Len(AsString(b1)) : Configure(l)
  \/ DecodeBlock

EncSpec == EncInit /\ [][EncNext]_encVars

-----------------------------------------------------------------------------
(* Type correctness: each buffer has the cells it was declared with, so    *)
(* that neither encode, unless it has become undefined, nor decode has     *)
(* written any other; and what is configured is digits, so that my_decode  *)
(* has a value for each bit.                                               *)
EncTypeOK ==
  /\ key \in [0..(Width - 1) -> Letter]
  /\ text \in Text
  /\ b1 \in [Cells -> Digit \cup {0, Wild}]
  /\ configured \in Seq(Digit)
  /\ b2 \in [Cells -> Char \cup {Wild}]
  /\ block \in 0..(Blocks(MaxText) - 1)
  /\ pc \in {"encode", "configure", "decode", "done", "undefined"}

\* What decode gives back of the first n characters, filled up, of a text:
\* the blanks at the end of the last block go, those before it stay.
Expected(s, n) ==
  LET full == [i \in 1..n |-> IF i <= Len(s) THEN s[i] ELSE Blank]
      kept == {i \in 1..n : full[i] # Blank} \cup {n - Width}
  IN SubSeq(full, 1, Max(kept))

(* Whatever the stack held before, what the tool prints, if it comes to    *)
(* print it, is made of whole blocks, one for each block of the text, and  *)
(* has nothing after them.                                                 *)
EncodedIsWhole ==
  pc \notin {"encode", "undefined"} =>
    /\ Len(AsString(b1)) = N * Blocks(Len(text))
    /\ \A c \in 0..(N * Blocks(Len(text)) - 1) : b1[c] \in Digit

(* What was encoded is what is decoded, but for blanks at its end, of      *)
(* texts of every length; and of a text that lost whole blocks at its end, *)
(* the blocks that are left are.  What the buffers held before, and what   *)
(* lies below them, makes no difference.                                   *)
RoundTrip ==
  pc = "done" /\ configured # <<>> /\ Len(configured) % N = 0 =>
    AsString(b2) = Expected(text, Width * (Len(configured) \div N))

(* Of a text whose code fits into a buffer nothing is undefined but the    *)
(* loop that strips blanks, which leaves the buffer only if the last block *)
(* is nothing but blanks.                                                  *)
OnlyBlanksRunOver ==
  pc = "undefined" /\ Fits(text) =>
    LET n == Width * (Len(configured) \div N)
    IN Len(Expected(text, n)) = n - Width

(* A text that is cut inside a block loses that block and what comes after *)
(* it, and nothing else: decode leaves the blocks before it as they were.  *)
(* What follows them in the buffer is another matter, for it is not ended. *)
CutCostsOneBlock ==
  pc = "done" /\ Len(configured) % N # 0 =>
    \A c \in 0..((Len(configured) \div N) * Width - 1) : b2[c] = text[c + 1]

\* The inductive invariant: the blocks that encode() has returned from are in
\* the buffer, which they fit, and are followed by a terminator; what is
\* configured is a part of them; and of the blocks that decode() has returned
\* from the buffer has what is expected of them, and terminators after it.
EncodedSoFar ==
  LET next == IF pc = "encode" THEN block + 1 ELSE 0
      last == Blocks(Len(text))
  IN /\ block < last
     /\ pc = "encode" => next = last \/ Fits(text)
     /\ pc \notin {"encode", "undefined"} => Fits(text)
     /\ Fits(text) =>
          /\ \A b \in next..(last - 1) : \A i \in 0..(N - 1) :
               b1[b * N + i] = my_encode(BlockOf(text, b))[i]
          /\ next < last => b1[last * N] = 0

ConfiguredIsPrefix ==
  /\ Len(configured) <= N * Blocks(Len(text))
  /\ \A i \in 1..Len(configured) : configured[i] = b1[i - 1]
  /\ pc = "decode" => block * N < Len(configured)

DecodedSoFar ==
  LET next == IF pc = "decode" THEN block + 1 ELSE 0
      n == Len(configured) \div N
      expected == Expected(text, Width * n)
  IN pc \in {"decode", "done"} /\ Len(configured) % N = 0 /\ next < n =>
       \A c \in (next * Width)..(n * Width) :
         b2[c] = IF c < Len(expected) THEN expected[c + 1] ELSE 0

CutSoFar ==
  LET next == IF pc = "decode" THEN block + 1 ELSE 0
      n == Len(configured) \div N
  IN pc \in {"decode", "done"} /\ Len(configured) % N # 0 =>
       \A c \in (next * Width)..(n * Width - 1) : b2[c] = text[c + 1]

EncIInv ==
  /\ EncTypeOK
  /\ EncodedSoFar
  /\ pc \in {"decode", "done"} => ConfiguredIsPrefix
  /\ DecodedSoFar
  /\ CutSoFar
  /\ OnlyBlanksRunOver

=============================================================================
