----------------------------- MODULE RingBuffer -----------------------------
(***************************************************************************)
(* The buffer of a service's output (internals/servicelog): a ring of Size *)
(* bytes with positions that only grow, and the iterators that read it.    *)
(* A write forgets the oldest bytes to make room, and signals the          *)
(* iterators only after it gave the buffer's lock back.  Nothing in the    *)
(* daemon closes the buffer of a service.                                  *)
(***************************************************************************)
EXTENDS Integers, Sequences, FiniteSetsExt

CONSTANTS Byte,     \* what is written: a byte, or a run of bytes that stays together
          Newline,  \* the bytes that end a line
          Size,     \* len(data)
          Reader,   \* who reads; each has one iterator at a time
          Gap       \* truncBytes: "(... output truncated ...)"

\* Of a ring with a single byte the position before its start would be TailPosition
ASSUME SizeAssumption ==
  /\ Size \in Nat /\ Size > 1
  /\ \E b \in Byte : b \notin Newline

TailPosition == -1
Start == 0 .. Size - 1

VARIABLES data,       \* the ring
          readIndex,  \* the position of the oldest byte
          writeIndex, \* the position of the next byte to be written
          signal,     \* a write has yet to signal the iterators
          iter,       \* reader -> its iterator
          written,    \* all that was ever written (history)
          given       \* reader -> what its last Read or WriteTo returned (history)

ringVars == <<data, readIndex, writeIndex, signal, written>>
bufferVars == <<data, readIndex, writeIndex, signal, iter, written, given>>

Closed == [open |-> FALSE, index |-> 0, trunc |-> FALSE, truncWritten |-> FALSE,
           next |-> FALSE, listens |-> FALSE, notify |-> FALSE]

BufferInit ==
  /\ data = [i \in Start |-> CHOOSE b \in Byte : b \notin Newline]
  /\ readIndex = 0 /\ writeIndex = 0
  /\ signal = FALSE
  /\ iter = [r \in Reader |-> Closed]
  /\ written = <<>>
  /\ given = [r \in Reader |-> <<>>]

(***************************************************************************)
(* The ring.                                                               *)
(***************************************************************************)
Smaller(a, b) == IF a < b THEN a ELSE b
Buffered == writeIndex - readIndex

\* Mutant: one byte more than there is.
AvailableOneMore == Size - Buffered + 1
Available == Size - Buffered

\* Where the bytes from position a up to b are in the ring: one run, or two when
\* they cross its end.  A range without bytes is the whole ring.
Slots(a, b) ==
  LET low == a % Size
      high == IF b % Size = 0 THEN Size ELSE b % Size
      Run(i, j) == [k \in 1 .. j - i |-> i + k - 1]
  IN IF low < high THEN Run(low, high) ELSE Run(low, Size) \o Run(0, high)

Bytes(a, b) == [k \in 1 .. Len(Slots(a, b)) |-> data[Slots(a, b)[k]]]

\* Of a write that does not fit in the ring at all only the start is kept
WriteLength(p) == Smaller(Len(p), Size)

Store(p, signals) ==
  LET n == WriteLength(p)
      at == Slots(writeIndex, writeIndex + n)
  IN /\ ~signal
     /\ n > 0
     /\ readIndex' = readIndex + (IF Available < n THEN n - Available ELSE 0)
     /\ data' = [i \in Start |-> IF \E k \in 1 .. n : at[k] = i
                                 THEN p[CHOOSE k \in 1 .. n : at[k] = i]
                                 ELSE data[i]]
     /\ writeIndex' = writeIndex + n
     /\ written' = written \o SubSeq(p, 1, n)
     /\ signal' = signals
     /\ UNCHANGED <<iter, given>>

\* Mutant: only the write into an empty buffer signals.
SignalsWhenEmpty(p) == Store(p, Buffered = 0)

WriteBytes(p) == Store(p, TRUE)

\* Tokens are dropped when one is already there
SignalIterators ==
  /\ signal
  /\ signal' = FALSE
  /\ iter' = [r \in Reader |->
                [iter[r] EXCEPT !.next = @ \/ iter[r].open, !.notify = iter[r].listens]]
  /\ UNCHANGED <<data, readIndex, writeIndex, written, given>>

(***************************************************************************)
(* Where an iterator starts that is to go back n lines.  The scan runs     *)
(* back over the ring until it has passed n newlines and found one more.   *)
(* An empty ring is scanned whole: the position may be before the start.   *)
(***************************************************************************)
PositionAfterNewline(stop) ==
  LET all == Bytes(readIndex, writeIndex)
      Newlines(i) == Cardinality({k \in i .. Len(all) : all[k] \in Newline})
      found == {i \in 1 .. Len(all) : all[i] \in Newline /\ Newlines(i) = stop}
      i == IF found = {} THEN 1 ELSE Max(found)
  IN writeIndex - (Len(all) - i + 1) + (IF all[i] \in Newline THEN 1 ELSE 0)

ReverseLinePosition(n) == IF n <= 0 THEN writeIndex ELSE PositionAfterNewline(n + 1)

NewIterator(i) == [Closed EXCEPT !.open = TRUE, !.index = i]

\* From the tail, or from the head less some lines; listens: Notify gives it a channel
OpenTail(r, listens) ==
  /\ iter' = [iter EXCEPT ![r] = [NewIterator(readIndex) EXCEPT !.listens = listens]]
  /\ given' = [given EXCEPT ![r] = <<>>]

OpenHead(r, lines, listens) ==
  /\ iter' = [iter EXCEPT ![r] =
                [NewIterator(ReverseLinePosition(lines)) EXCEPT !.listens = listens]]
  /\ given' = [given EXCEPT ![r] = <<>>]

CloseIterator(r) ==
  /\ iter' = [iter EXCEPT ![r].open = FALSE, ![r].next = FALSE,
                               ![r].listens = FALSE, ![r].notify = FALSE]
  /\ UNCHANGED given

(***************************************************************************)
(* Iterator.Next: an iterator that was overtaken falls back to the tail    *)
(* and has the text that says so to hand over first.                       *)
(***************************************************************************)

\* Mutant: the iterator goes on at the tail without a word.
TruncatedSilently(i) == [i EXCEPT !.index = TailPosition]

Truncated(i) ==
  [i EXCEPT !.index = TailPosition, !.trunc = i.trunc \/ ~i.truncWritten]

Overtaken(i) == i.index # TailPosition /\ i.index < readIndex

Checked(i) == IF Overtaken(i) THEN Truncated(i) ELSE i

HasMore(i) == (writeIndex # 0 /\ i.index < writeIndex) \/ i.trunc

\* The look that Next takes, before it waits and each time it is woken
Look(r) ==
  /\ iter[r].open
  /\ iter' = [iter EXCEPT ![r] = Checked([iter[r] EXCEPT !.next = FALSE])]
  /\ UNCHANGED given

(***************************************************************************)
(* Iterator.Read and WriteTo: the text first, then up to room bytes from   *)
(* where the iterator stands; one that was overtaken in the meantime gets  *)
(* nothing this time.                                                      *)
(***************************************************************************)
ReadFrom(i) == IF i.index = TailPosition THEN readIndex ELSE i.index

ReadTrunc(r) ==
  /\ iter[r].trunc
  /\ iter' = [iter EXCEPT ![r].trunc = FALSE, ![r].truncWritten = TRUE]
  /\ given' = [given EXCEPT ![r] = <<Gap>>]

ReadOvertaken(r) ==
  /\ ~iter[r].trunc
  /\ ReadFrom(iter[r]) < readIndex
  /\ iter' = [iter EXCEPT ![r] = Truncated(iter[r])]
  /\ UNCHANGED given

ReadBytes(r, room) ==
  LET from == ReadFrom(iter[r])
      n == Smaller(writeIndex - from, room)
  IN /\ ~iter[r].trunc
     /\ from >= readIndex
     /\ from < writeIndex
     /\ iter' = [iter EXCEPT ![r].index = from + n, ![r].truncWritten = FALSE]
     /\ given' = [given EXCEPT ![r] = Bytes(from, from + n)]

\* Nothing to read: the end of the buffer
ReadNothing(r) ==
  /\ ~iter[r].trunc
  /\ ReadFrom(iter[r]) = writeIndex
  /\ UNCHANGED <<iter, given>>

(***************************************************************************)
(* The ring and its iterators as a log that only grows.                    *)
(***************************************************************************)
CONSTANT Lost

ASSUME LostAssumption == Lost \notin Int

Log == INSTANCE AppendLog WITH
         Symbol <- Byte,
         log <- written,
         oldest <- readIndex,
         place <- [r \in Reader |-> IF iter[r].index = TailPosition THEN Lost
                                                                   ELSE iter[r].index],
         owed <- {r \in Reader : iter[r].trunc}

\* What every reader of the buffer of a service relies on (RingBuffer and iterator):
\* the bytes come in the order in which they were written and none is skipped, unless
\* the reader is told, exactly once, that it was overtaken.
ReadsTheLog == Log!Spec

\* The ring holds the last bytes that were written, each at the place of its position
\* (Write, buffers), also when a write or a read crosses the end of the ring.
RingHoldsTail ==
  /\ 0 <= readIndex /\ readIndex <= writeIndex /\ Buffered <= Size
  /\ writeIndex = Len(written)
  /\ \A p \in readIndex .. writeIndex - 1 : data[p % Size] = written[p + 1]
=============================================================================
