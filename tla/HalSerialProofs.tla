--------------------------- MODULE HalSerialProofs ---------------------------
(***************************************************************************)
(* The serial driver: the invariants of HalSerial for queues of any size,  *)
(* any bytes and any number of threads.                                    *)
(***************************************************************************)
EXTENDS HalSerial, ChListProofs, SequenceTheorems

-----------------------------------------------------------------------------
(* The parts of the invariant *)

Cells(B) == B \cup {NoByte}
Queues(B) == [buffer : [0 .. Size - 1 -> Cells(B)], rd : 0 .. Size - 1, wr : 0 .. Size - 1,
              counter : 0 .. Size, waiting : Seq(Calls)]
CallRecords == [at : {"out", "queued", "ready"}, n : Nat]
UsartRecords == [cr1 : SUBSET {"TXEIE", "TCIE"}, dr : Cells(OutBytes),
                 shift : Cells(OutBytes), rdr : Cells(InBytes)]
HandlerRecords == [at : {"none", "rx", "reread", "tx", "tc"}, cr1 : SUBSET {"TXEIE", "TCIE"},
                   sr : SUBSET {"TXE", "TC", "RXNE"}]

\* A queue with c bytes: the write pointer is behind them.
RingOf(q, c) == q.wr = Cell(q.rd, c)

\* The bytes in the transmitter.
Registers(u) == Register(u.shift) \o Register(u.dr)

\* Output: what was written is in the registers and in the queue, and the
\* transmitter's interrupt is enabled while something is in the queue.
OutOK ==
  /\ oq \in Queues(OutBytes) /\ usart \in UsartRecords
  /\ RingOf(oq, Size - oq.counter)
  /\ First(oq, Size - oq.counter) \in Seq(OutBytes)
  /\ written = Registers(usart) \o First(oq, Size - oq.counter)
  /\ oq.counter < Size => "TXEIE" \in usart.cr1

InOK ==
  /\ iq \in Queues(InBytes)
  /\ RingOf(iq, iq.counter)
  /\ received = First(iq, iq.counter)

\* What the handler read of the transmitter is still so when it uses it: no one
\* else puts a byte in the data register.
HandlerOK ==
  /\ handler \in HandlerRecords
  /\ handler.at \in {"rx", "reread", "tx"} /\ "TXE" \in handler.sr => usart.dr = NoByte

\* The threads of ts that sleep, and those that have been made ready.
SleepIn(calls, ts) == {t \in ts : calls[t].at = "queued"}
ReadyIn(calls, ts) == {t \in ts : calls[t].at = "ready"}

\* One side: its queue q lists who sleeps, and whatever c a thread may sleep for
\* has a thread on its way to it.
SideOK(ts, q, calls, c) ==
  /\ Lists(q, SleepIn(calls, ts))
  /\ q # <<>> => c <= Cardinality(ReadyIn(calls, ts))

\* Who is in a call has bytes left.
CallsOK(calls) ==
  /\ calls \in [Calls -> CallRecords]
  /\ \A t \in Calls : calls[t].at # "out" => calls[t].n >= 1

ThreadsOK ==
  /\ CallsOK(call)
  /\ SideOK(Writers, oq.waiting, call, oq.counter)
  /\ SideOK(Readers, iq.waiting, call, iq.counter)

\* Inductive.
SerialInv == SerialConstants /\ OutOK /\ InOK /\ HandlerOK /\ ThreadsOK

-----------------------------------------------------------------------------
(* The rings *)

\* The pointer behind k bytes is where the cell k places behind is.
LEMMA CellFacts ==
  ASSUME SerialConstants, NEW p \in 0 .. Size - 1, NEW k \in 0 .. Size
  PROVE  Cell(p, k) \in 0 .. Size - 1 /\ Behind(p, k) = Cell(p, k)
<1>1. Size \in Nat /\ Size > 0
  BY DEF SerialConstants
<1> QED
  BY <1>1 DEF Cell, Behind

\* Cells behind cells.
LEMMA CellSum ==
  ASSUME SerialConstants, NEW p \in 0 .. Size - 1, NEW a \in 0 .. Size, NEW b \in 0 .. Size
  PROVE  a + b <= Size => Cell(Cell(p, a), b) = Cell(p, a + b)
<1>1. Size \in Nat /\ Size > 0
  BY DEF SerialConstants
<1> QED
  BY <1>1 DEF Cell

\* Places less than a turn apart are different cells.
LEMMA CellOnce ==
  ASSUME SerialConstants, NEW p \in 0 .. Size - 1, NEW a \in 0 .. Size - 1, NEW b \in 0 .. Size - 1,
         Cell(p, a) = Cell(p, b)
  PROVE  a = b
<1>1. Size \in Nat /\ Size > 0
  BY DEF SerialConstants
<1> QED
  BY <1>1 DEF Cell

\* First is a sequence.
LEMMA FirstIs ==
  ASSUME SerialConstants, NEW B, NEW q \in Queues(B), NEW c \in 0 .. Size
  PROVE  /\ First(q, c) \in Seq(Cells(B)) /\ Len(First(q, c)) = c
         /\ \A i \in 1 .. c : First(q, c)[i] = q.buffer[Cell(q.rd, i - 1)]
<1>1. Size \in Nat /\ Size > 0 /\ c \in Nat /\ c <= Size
  BY DEF SerialConstants
<1>2. q.rd \in 0 .. Size - 1 /\ q.buffer \in [0 .. Size - 1 -> Cells(B)]
  BY DEF Queues
<1>3. ASSUME NEW i \in 1 .. c PROVE q.buffer[Cell(q.rd, i - 1)] \in Cells(B)
  <2>1. i - 1 \in 0 .. Size
    BY <1>1
  <2> QED
    BY <1>2, <2>1, CellFacts, Zenon
<1> QED
  BY <1>1, <1>3 DEF First

\* oq_write and iqPutI: the bytes s follow what is in the queue.
LEMMA PutRing ==
  ASSUME SerialConstants, NEW B, NEW q \in Queues(B), NEW c \in 0 .. Size, RingOf(q, c),
         NEW s \in Seq(Cells(B)), Len(s) <= Size - c
  PROVE  /\ Stored(q, s) \in Queues(B)
         /\ Stored(q, s).counter = q.counter /\ Stored(q, s).waiting = q.waiting
         /\ RingOf(Stored(q, s), c + Len(s))
         /\ First(Stored(q, s), c + Len(s)) = First(q, c) \o s
<1> DEFINE z == Stored(q, s)
           b2 == [p \in 0 .. Size - 1 |->
                    IF \E i \in DOMAIN s : Cell(q.wr, i - 1) = p
                    THEN s[CHOOSE i \in DOMAIN s : Cell(q.wr, i - 1) = p]
                    ELSE q.buffer[p]]
           k == Len(s)
<1>1. /\ Size \in Nat /\ Size > 0 /\ c \in Nat /\ c <= Size /\ k \in Nat /\ k <= Size - c
      /\ DOMAIN s = 1 .. k /\ c + k \in 0 .. Size /\ k \in 0 .. Size
  BY DEF SerialConstants
<1>2. q.rd \in 0 .. Size - 1 /\ q.wr \in 0 .. Size - 1 /\ q.buffer \in [0 .. Size - 1 -> Cells(B)]
  BY DEF Queues
<1>3. z = [q EXCEPT !.buffer = b2, !.wr = Behind(q.wr, k)]
  BY DEF Stored
<1>4. Behind(q.wr, k) = Cell(q.wr, k) /\ Cell(q.wr, k) \in 0 .. Size - 1
  BY <1>1, <1>2, CellFacts, Zenon
<1>5. b2 \in [0 .. Size - 1 -> Cells(B)]
  <2>1. ASSUME NEW p \in 0 .. Size - 1, \E i \in DOMAIN s : Cell(q.wr, i - 1) = p
        PROVE  s[CHOOSE i \in DOMAIN s : Cell(q.wr, i - 1) = p] \in Cells(B)
    <3>1. (CHOOSE i \in DOMAIN s : Cell(q.wr, i - 1) = p) \in DOMAIN s
      BY <2>1, Zenon
    <3> QED
      BY <1>1, <3>1
  <2> QED
    BY <1>2, <2>1, Zenon
<1>6. /\ z \in Queues(B) /\ z.counter = q.counter /\ z.waiting = q.waiting /\ z.rd = q.rd
      /\ z.buffer = b2 /\ z.wr = Cell(q.wr, k)
  <2> HIDE DEF b2, z, k
  <2> QED
    BY <1>3, <1>4, <1>5, Zenon DEF Queues
<1>7. ASSUME NEW i \in 1 .. k PROVE b2[Cell(q.wr, i - 1)] = s[i]
  <2> DEFINE p == Cell(q.wr, i - 1)
             j == CHOOSE j \in DOMAIN s : Cell(q.wr, j - 1) = p
  <2>0. i - 1 \in 0 .. Size - 1 /\ i - 1 \in 0 .. Size
    BY <1>1
  <2>1. p \in 0 .. Size - 1 /\ i - 1 \in 0 .. Size - 1
    BY <1>2, <2>0, CellFacts
  <2>2. j \in DOMAIN s /\ Cell(q.wr, j - 1) = p /\ \E x \in DOMAIN s : Cell(q.wr, x - 1) = p
    BY <1>1
  <2>3. b2[p] = s[j]
    BY <2>1, <2>2, Zenon
  <2> HIDE DEF j
  <2>4. j - 1 \in 0 .. Size - 1
    BY <1>1, <2>2
  <2>5. j - 1 = i - 1
    BY <1>2, <2>1, <2>2, <2>4, CellOnce
  <2> QED
    BY <1>1, <2>2, <2>3, <2>5
<1>8. ASSUME NEW p \in 0 .. Size - 1, \A i \in 1 .. k : Cell(q.wr, i - 1) # p PROVE b2[p] = q.buffer[p]
  BY <1>1, <1>8
<1> HIDE DEF b2
<1>9. q.wr = Cell(q.rd, c)
  BY DEF RingOf
<1>10. RingOf(z, c + k)
  <2>1. Cell(Cell(q.rd, c), k) = Cell(q.rd, c + k)
    BY <1>1, <1>2, CellSum
  <2> QED
    BY <1>6, <1>9, <2>1 DEF RingOf
<1> HIDE DEF z
<1>11. ASSUME NEW i \in 1 .. c + k PROVE First(z, c + k)[i] = (First(q, c) \o s)[i]
  <2>1. i \in Nat /\ i >= 1 /\ i <= c + k /\ i - 1 \in 0 .. Size - 1 /\ i - 1 \in 0 .. Size
    BY <1>1
  <2>2. First(z, c + k)[i] = b2[Cell(q.rd, i - 1)]
    BY <1>1, <1>6, FirstIs, ZenonT(60)
  <2>3. First(q, c) \in Seq(Cells(B)) /\ Len(First(q, c)) = c
    BY FirstIs
  <2>4. CASE i <= c
    <3>1. First(q, c)[i] = q.buffer[Cell(q.rd, i - 1)]
      BY <1>1, <2>1, <2>4, FirstIs
    <3>2. ASSUME NEW x \in 1 .. k PROVE Cell(q.wr, x - 1) # Cell(q.rd, i - 1)
      <4>1. x - 1 \in 0 .. Size /\ c + (x - 1) <= Size /\ c + (x - 1) \in 0 .. Size - 1 /\ c + (x - 1) # i - 1
        BY <1>1, <2>1, <2>4
      <4>2. Cell(q.wr, x - 1) = Cell(q.rd, c + (x - 1))
        BY <1>2, <1>9, <4>1, CellSum
      <4> QED
        BY <1>2, <2>1, <4>1, <4>2, CellOnce
    <3>3. Cell(q.rd, i - 1) \in 0 .. Size - 1
      BY <1>2, <2>1, CellFacts, Zenon
    <3>4. b2[Cell(q.rd, i - 1)] = q.buffer[Cell(q.rd, i - 1)]
      BY <1>8, <3>2, <3>3
    <3>5. (First(q, c) \o s)[i] = First(q, c)[i]
      BY <1>1, <2>1, <2>3, <2>4
    <3> QED
      BY <2>2, <3>1, <3>4, <3>5
  <2>5. CASE i > c
    <3>1. i - c \in 1 .. k /\ c + (i - c - 1) = i - 1 /\ i - c - 1 \in 0 .. Size /\ c + (i - c - 1) <= Size
      BY <1>1, <2>1, <2>5
    <3>2. Cell(q.wr, i - c - 1) = Cell(q.rd, i - 1)
      BY <1>2, <1>9, <3>1, CellSum
    <3>3. b2[Cell(q.wr, i - c - 1)] = s[i - c]
      BY <1>7, <3>1
    <3>4. (First(q, c) \o s)[i] = s[i - c]
      <4> DEFINE f == First(q, c)
      <4> HIDE DEF f
      <4>1. f \in Seq(Cells(B)) /\ Len(f) = c /\ i \in 1 .. c + k /\ ~(i <= c)
        BY <1>1, <2>1, <2>3, <2>5 DEF f
      <4>2. (f \o s)[i] = s[i - c]
        BY <4>1, ConcatProperties
      <4> QED
        BY <4>2 DEF f
    <3> QED
      BY <2>2, <3>2, <3>3, <3>4
  <2>6. i <= c \/ i > c
    BY <1>1, <2>1
  <2> QED
    BY <2>4, <2>5, <2>6, Zenon
<1>12. First(z, c + k) = First(q, c) \o s
  <2>1. First(z, c + k) \in Seq(Cells(B)) /\ Len(First(z, c + k)) = c + k
    BY <1>1, <1>6, FirstIs
  <2>2. (First(q, c) \o s) \in Seq(Cells(B)) /\ Len(First(q, c) \o s) = c + k
    <3>1. First(q, c) \in Seq(Cells(B)) /\ Len(First(q, c)) = c
      BY FirstIs
    <3> QED
      BY <3>1
  <2> QED
    BY <1>11, <2>1, <2>2, SeqEqual, Zenon
<1> QED
  BY <1>6, <1>10, <1>12 DEF z

\* iq_read, iqGetI and oqGetI: the first k bytes leave the queue.
LEMMA GetRing ==
  ASSUME SerialConstants, NEW B, NEW q \in Queues(B), NEW c \in 0 .. Size, RingOf(q, c),
         NEW k \in 0 .. c
  PROVE  /\ Fetched(q, k) \in Queues(B)
         /\ Fetched(q, k).counter = q.counter /\ Fetched(q, k).waiting = q.waiting
         /\ RingOf(Fetched(q, k), c - k)
         /\ First(Fetched(q, k), c - k) = SubSeq(First(q, c), k + 1, c)
<1> DEFINE z == Fetched(q, k)
           b2 == [p \in 0 .. Size - 1 |->
                    IF \E i \in 0 .. k - 1 : Cell(q.rd, i) = p THEN NoByte ELSE q.buffer[p]]
<1>1. /\ Size \in Nat /\ Size > 0 /\ c \in Nat /\ c <= Size /\ k \in Nat /\ k <= c
      /\ c - k \in 0 .. Size /\ k \in 0 .. Size
  BY DEF SerialConstants
<1>2. q.rd \in 0 .. Size - 1 /\ q.wr \in 0 .. Size - 1 /\ q.buffer \in [0 .. Size - 1 -> Cells(B)]
  BY DEF Queues
<1>3. z = [q EXCEPT !.buffer = b2, !.rd = Behind(q.rd, k)]
  BY DEF Fetched
<1>4. Behind(q.rd, k) = Cell(q.rd, k) /\ Cell(q.rd, k) \in 0 .. Size - 1
  BY <1>1, <1>2, CellFacts, Zenon
<1>5. b2 \in [0 .. Size - 1 -> Cells(B)]
  BY <1>2, Zenon DEF Cells
<1>6. /\ z \in Queues(B) /\ z.counter = q.counter /\ z.waiting = q.waiting /\ z.wr = q.wr
      /\ z.buffer = b2 /\ z.rd = Cell(q.rd, k)
  <2> HIDE DEF b2, z
  <2> QED
    BY <1>3, <1>4, <1>5, Zenon DEF Queues
<1>7. ASSUME NEW p \in 0 .. Size - 1, \A i \in 0 .. k - 1 : Cell(q.rd, i) # p PROVE b2[p] = q.buffer[p]
  BY <1>7
<1> HIDE DEF b2
<1>8. RingOf(z, c - k)
  <2>1. Cell(Cell(q.rd, k), c - k) = Cell(q.rd, k + (c - k)) /\ k + (c - k) = c
    BY <1>1, <1>2, CellSum
  <2> QED
    BY <1>6, <2>1 DEF RingOf
<1> DEFINE f == First(q, c)
           g == First(z, c - k)
<1> HIDE DEF z
<1>9. /\ f \in Seq(Cells(B)) /\ Len(f) = c
      /\ \A i \in 1 .. c : f[i] = q.buffer[Cell(q.rd, i - 1)]
  BY FirstIs
<1>10. /\ g \in Seq(Cells(B)) /\ Len(g) = c - k
       /\ \A i \in 1 .. c - k : g[i] = b2[Cell(Cell(q.rd, k), i - 1)]
  BY <1>1, <1>6, FirstIs, ZenonT(60)
<1> HIDE DEF f, g
<1>11. /\ SubSeq(f, k + 1, c) \in Seq(Cells(B)) /\ Len(SubSeq(f, k + 1, c)) = c - k
       /\ \A i \in 1 .. c - k : SubSeq(f, k + 1, c)[i] = f[k + i]
  BY <1>1, <1>9
<1>12. ASSUME NEW i \in 1 .. c - k PROVE g[i] = f[k + i]
  <2>1. i - 1 \in 0 .. Size /\ k + (i - 1) <= Size /\ k + (i - 1) \in 0 .. Size - 1
        /\ k + (i - 1) = (k + i) - 1 /\ k + i \in 1 .. c /\ k + (i - 1) \in 0 .. Size
    BY <1>1
  <2>2. Cell(Cell(q.rd, k), i - 1) = Cell(q.rd, k + (i - 1))
    BY <1>1, <1>2, <2>1, CellSum
  <2>3. ASSUME NEW x \in 0 .. k - 1 PROVE Cell(q.rd, x) # Cell(q.rd, k + (i - 1))
    <3>1. x \in 0 .. Size - 1 /\ x # k + (i - 1)
      BY <1>1, <2>1
    <3> QED
      BY <1>2, <2>1, <3>1, CellOnce
  <2>4. Cell(q.rd, k + (i - 1)) \in 0 .. Size - 1
    BY <1>2, <2>1, CellFacts, Zenon
  <2>5. b2[Cell(q.rd, k + (i - 1))] = q.buffer[Cell(q.rd, k + (i - 1))]
    BY <1>7, <2>3, <2>4
  <2>6. f[k + i] = q.buffer[Cell(q.rd, k + (i - 1))]
    BY <1>9, <2>1
  <2> QED
    BY <1>10, <2>2, <2>5, <2>6
<1>13. g = SubSeq(f, k + 1, c)
  BY <1>10, <1>11, <1>12, SeqEqual
<1> QED
  BY <1>6, <1>8, <1>13 DEF z, f, g

\* The ring does not depend on the other fields.
LEMMA SameRing ==
  ASSUME NEW q, NEW z, z.buffer = q.buffer, z.rd = q.rd, z.wr = q.wr, NEW c
  PROVE  First(z, c) = First(q, c) /\ (RingOf(q, c) => RingOf(z, c))
BY DEF First, RingOf

\* iqIsFullI and oqIsEmptyI: equal pointers and a counter that is not zero.
LEMMA FullTurn ==
  ASSUME SerialConstants, NEW B, NEW q \in Queues(B), NEW c \in 0 .. Size, RingOf(q, c)
  PROVE  q.wr = q.rd <=> c \in {0, Size}
<1>1. Size \in Nat /\ Size > 0 /\ c \in Nat /\ c <= Size /\ q.rd \in 0 .. Size - 1
  BY DEF SerialConstants, Queues
<1> QED
  BY <1>1 DEF RingOf, Cell

-----------------------------------------------------------------------------
(* The threads *)

\* One call is new.
LEMMA CallsChange ==
  ASSUME NEW calls, CallsOK(calls), NEW t \in Calls, NEW c \in CallRecords,
         c.at # "out" => c.n >= 1, NEW new, new = [calls EXCEPT ![t] = c]
  PROVE  /\ CallsOK(new) /\ new[t] = c
         /\ \A x \in Calls : x # t => new[x] = calls[x]
BY DEF CallsOK

\* The ready threads are finitely many.
LEMMA ReadyFinite ==
  ASSUME SerialConstants, NEW ts \in SUBSET Calls, NEW calls
  PROVE  IsFiniteSet(ReadyIn(calls, ts)) /\ Cardinality(ReadyIn(calls, ts)) \in Nat
<1>1. ReadyIn(calls, ts) \subseteq Calls
  BY DEF ReadyIn
<1>2. IsFiniteSet(ReadyIn(calls, ts))
  BY <1>1, FS_Subset DEF SerialConstants
<1> QED
  BY <1>2, FS_CardinalityType

\* A side of which no thread changes, with no more to sleep for.
LEMMA SideKept ==
  ASSUME SerialConstants, NEW ts \in SUBSET Calls, NEW q, NEW calls, NEW c \in Nat,
         SideOK(ts, q, calls, c), NEW new, \A t \in ts : new[t] = calls[t], NEW d \in Nat, d <= c
  PROVE  SideOK(ts, q, new, d)
<1>1. SleepIn(new, ts) = SleepIn(calls, ts) /\ ReadyIn(new, ts) = ReadyIn(calls, ts)
  BY DEF SleepIn, ReadyIn
<1>2. Cardinality(ReadyIn(calls, ts)) \in Nat
  BY ReadyFinite
<1> QED
  BY <1>1, <1>2 DEF SideOK

\* Of the threads ts only t changes.
Alone(ts, t, calls, new) == \A x \in ts : x # t => new[x] = calls[x]

\* A thread that is awake transfers something.
LEMMA SideTransfers ==
  ASSUME SerialConstants, NEW ts \in SUBSET Calls, NEW q, NEW calls, NEW c \in Nat,
         SideOK(ts, q, calls, c), NEW t \in ts, calls[t].at # "queued",
         NEW new, Alone(ts, t, calls, new),
         new[t].at # "queued", NEW d \in Nat, d < c
  PROVE  SideOK(ts, q, new, d)
<1>1. SleepIn(new, ts) = SleepIn(calls, ts)
  BY DEF SleepIn, Alone
<1>2. /\ IsFiniteSet(ReadyIn(calls, ts)) /\ Cardinality(ReadyIn(calls, ts)) \in Nat
      /\ IsFiniteSet(ReadyIn(new, ts)) /\ Cardinality(ReadyIn(new, ts)) \in Nat
  BY ReadyFinite
<1>3. ReadyIn(calls, ts) \subseteq ReadyIn(new, ts) \cup {t}
  BY DEF ReadyIn, Alone
<1>4. Cardinality(ReadyIn(calls, ts)) <= Cardinality(ReadyIn(new, ts)) + 1
  <2>1. /\ IsFiniteSet(ReadyIn(new, ts) \cup {t})
        /\ Cardinality(ReadyIn(new, ts) \cup {t}) <= Cardinality(ReadyIn(new, ts)) + 1
    <3> DEFINE R == ReadyIn(new, ts)
    <3>1. IsFiniteSet(R) /\ Cardinality(R) \in Nat
      BY <1>2
    <3> HIDE DEF R
    <3>2. /\ IsFiniteSet(R \cup {t})
          /\ Cardinality(R \cup {t}) = IF t \in R THEN Cardinality(R) ELSE Cardinality(R) + 1
      BY <3>1, FS_AddElement
    <3> QED
      BY <3>1, <3>2 DEF R
  <2>2. /\ Cardinality(ReadyIn(calls, ts)) <= Cardinality(ReadyIn(new, ts) \cup {t})
        /\ Cardinality(ReadyIn(new, ts) \cup {t}) \in Nat
    BY <1>3, <2>1, FS_Subset, FS_CardinalityType
  <2> QED
    BY <1>2, <2>1, <2>2
<1> QED
  BY <1>1, <1>2, <1>4 DEF SideOK

\* A thread goes to sleep when there is nothing for it.
LEMMA SideSleeps ==
  ASSUME SerialConstants, NEW ts \in SUBSET Calls, NEW q, NEW calls, NEW c \in Nat,
         SideOK(ts, q, calls, c), NEW t \in ts, calls[t].at # "queued",
         NEW new, \A x \in ts : x # t => new[x] = calls[x], new[t].at = "queued"
  PROVE  SideOK(ts, Append(q, t), new, 0)
<1>1. SleepIn(new, ts) = SleepIn(calls, ts) \cup {t} /\ t \notin SleepIn(calls, ts)
  BY DEF SleepIn
<1>2. Lists(Append(q, t), SleepIn(new, ts))
  BY <1>1, ListsAppend DEF SideOK
<1>3. Cardinality(ReadyIn(new, ts)) \in Nat
  BY ReadyFinite
<1> QED
  BY <1>2, <1>3 DEF SideOK

\* The timeout of a sleep.
LEMMA SideTimesOut ==
  ASSUME SerialConstants, NEW ts \in SUBSET Calls, NEW q, NEW calls, NEW c \in Nat,
         SideOK(ts, q, calls, c), NEW t \in ts, calls[t].at = "queued",
         NEW new, \A x \in ts : x # t => new[x] = calls[x], new[t].at = "out"
  PROVE  SideOK(ts, Without(q, t), new, c)
<1>1. SleepIn(new, ts) = SleepIn(calls, ts) \ {t} /\ t \in SleepIn(calls, ts)
  BY DEF SleepIn
<1>2. ReadyIn(new, ts) = ReadyIn(calls, ts)
  BY DEF ReadyIn
<1>3. Lists(Without(q, t), SleepIn(new, ts)) /\ q # <<>>
  BY <1>1, ListsWithout DEF SideOK
<1> QED
  BY <1>2, <1>3 DEF SideOK

\* A thread made ready.
Awake(calls, t) == [calls EXCEPT ![t].at = "ready"]

\* osalThreadDequeueNextI, with one more to sleep for.
LEMMA SideWakes ==
  ASSUME SerialConstants, NEW ts \in SUBSET Calls, NEW q, NEW calls, CallsOK(calls), NEW c \in Nat,
         SideOK(ts, q, calls, c), q # <<>>,
         NEW new, new = Awake(calls, Head(q))
  PROVE  /\ SideOK(ts, Tail(q), new, c + 1) /\ CallsOK(new)
         /\ \A x \in Calls : x \notin ts => new[x] = calls[x]
<1> DEFINE h == Head(q)
<1>1. h \in SleepIn(calls, ts) /\ Lists(Tail(q), SleepIn(calls, ts) \ {h})
  BY ListsTail DEF SideOK
<1>2. h \in ts /\ h \in Calls /\ calls[h].at = "queued"
  BY <1>1 DEF SleepIn
<1> HIDE DEF h
<1>3. calls[h] \in CallRecords /\ calls[h].n >= 1 /\ calls \in [Calls -> CallRecords]
  BY <1>2 DEF CallsOK
<1>4. new = [calls EXCEPT ![h] = [calls[h] EXCEPT !.at = "ready"]]
  BY DEF h, Awake
<1>5. [calls[h] EXCEPT !.at = "ready"] \in CallRecords /\ [calls[h] EXCEPT !.at = "ready"].n = calls[h].n
  BY <1>3 DEF CallRecords
<1>6. /\ CallsOK(new) /\ new[h] = [calls[h] EXCEPT !.at = "ready"]
      /\ \A x \in Calls : x # h => new[x] = calls[x]
  BY <1>2, <1>3, <1>4, <1>5, Zenon DEF CallsOK
<1>7. new[h].at = "ready"
  BY <1>3, <1>6 DEF CallRecords
<1>8. SleepIn(new, ts) = SleepIn(calls, ts) \ {h}
  BY <1>2, <1>6, <1>7 DEF SleepIn
<1>9. ReadyIn(new, ts) = ReadyIn(calls, ts) \cup {h} /\ h \notin ReadyIn(calls, ts)
  BY <1>2, <1>6, <1>7 DEF ReadyIn
<1>10. IsFiniteSet(ReadyIn(calls, ts)) /\ Cardinality(ReadyIn(calls, ts)) \in Nat
  BY ReadyFinite
<1>11. Cardinality(ReadyIn(new, ts)) = Cardinality(ReadyIn(calls, ts)) + 1
  BY <1>9, <1>10, FS_AddElement
<1>12. c <= Cardinality(ReadyIn(calls, ts))
  BY DEF SideOK
<1>13. SideOK(ts, Tail(q), new, c + 1)
  <2>1. c + 1 <= Cardinality(ReadyIn(new, ts))
    BY <1>10, <1>11, <1>12
  <2> QED
    BY <1>1, <1>8, <2>1, Zenon DEF SideOK
<1> QED
  BY <1>2, <1>6, <1>13

\* The same when no thread sleeps.
LEMMA SideEmpty ==
  ASSUME NEW ts, NEW q, NEW calls, NEW c, SideOK(ts, q, calls, c), q = <<>>, NEW d
  PROVE  SideOK(ts, q, calls, d)
BY DEF SideOK

\* The threads of a queue return.
Returned(calls, q) ==
  [t \in Calls |-> IF \E i \in DOMAIN q : q[i] = t THEN NoCall ELSE calls[t]]

\* osalThreadDequeueAllI.
LEMMA SideEnds ==
  ASSUME NEW ts \in SUBSET Calls, NEW q, NEW calls, CallsOK(calls), 
         Lists(q, SleepIn(calls, ts))
  PROVE  /\ Lists(<<>>, SleepIn(Returned(calls, q), ts)) /\ CallsOK(Returned(calls, q))
         /\ \A x \in Calls : x \notin ts => Returned(calls, q)[x] = calls[x]
<1> DEFINE new == Returned(calls, q)
<1>1. Range(q) = SleepIn(calls, ts)
  BY DEF Lists
<1>2. new = [t \in Calls |-> IF t \in SleepIn(calls, ts) THEN NoCall ELSE calls[t]]
  <2>1. \A t : (\E i \in DOMAIN q : q[i] = t) <=> t \in SleepIn(calls, ts)
    BY <1>1 DEF Range
  <2> QED
    BY <2>1, Zenon DEF Returned
<1> HIDE DEF new
<1>3. NoCall \in CallRecords /\ NoCall.at = "out"
  BY DEF NoCall, CallRecords
<1>4. CallsOK(new)
  BY <1>2, <1>3 DEF CallsOK
<1>5. SleepIn(new, ts) = {}
  BY <1>2, <1>3 DEF SleepIn
<1>6. Lists(<<>>, {})
  <2>1. <<>> \in Seq({}) /\ DOMAIN <<>> = {}
    OBVIOUS
  <2> QED
    BY <2>1 DEF Lists, IsInjective, Range
<1>7. \A x \in Calls : x \notin ts => new[x] = calls[x]
  BY <1>2 DEF SleepIn
<1> QED
  BY <1>4, <1>5, <1>6, <1>7 DEF new

\* osalThreadDequeueNextI: the threads and the queue after it.
FirstAwake(calls, q) == IF q = <<>> THEN calls ELSE Awake(calls, Head(q))
FirstGone(q) == IF q = <<>> THEN q ELSE Tail(q)

\* On one side, with the other side p.
LEMMA WakeBoth ==
  ASSUME SerialConstants, NEW ts \in SUBSET Calls, NEW us \in SUBSET Calls, ts \cap us = {},
         NEW q, NEW p, NEW calls, CallsOK(calls), NEW c \in Nat, NEW d \in Nat,
         SideOK(ts, q, calls, c), SideOK(us, p, calls, d)
  PROVE  /\ CallsOK(FirstAwake(calls, q))
         /\ SideOK(ts, FirstGone(q), FirstAwake(calls, q), c + 1)
         /\ SideOK(us, p, FirstAwake(calls, q), d)
<1> DEFINE new == FirstAwake(calls, q)
           r == FirstGone(q)
<1>1. CASE q = <<>>
  <2>1. new = calls /\ r = q
    BY <1>1 DEF FirstAwake, FirstGone
  <2>2. SideOK(ts, q, calls, c + 1)
    BY <1>1, SideEmpty
  <2> QED
    BY <2>1, <2>2
<1>2. CASE q # <<>>
  <2>1. new = Awake(calls, Head(q)) /\ r = Tail(q)
    BY <1>2 DEF FirstAwake, FirstGone
  <2> HIDE DEF new, r
  <2>2. /\ SideOK(ts, Tail(q), new, c + 1) /\ CallsOK(new)
        /\ \A x \in Calls : x \notin ts => new[x] = calls[x]
    BY <1>2, <2>1, SideWakes
  <2>3. \A x \in us : new[x] = calls[x]
    BY <2>2
  <2>4. SideOK(us, p, new, d)
    <3>1. d <= d
      OBVIOUS
    <3> QED
      BY <2>3, <3>1, SideKept
  <2> QED
    BY <2>1, <2>2, <2>4 DEF new, r
<1> QED
  BY <1>1, <1>2

-----------------------------------------------------------------------------
(* Queues and registers *)

\* A register has at most one byte.
LEMMA RegisterIs ==
  ASSUME NEW B, NoByte \notin B, NEW b \in Cells(B)
  PROVE  Register(b) \in Seq(B)
BY DEF Register, Cells

\* Two sequences joined, and three.
LEMMA JoinLen ==
  ASSUME NEW B, NEW a \in Seq(B), NEW b \in Seq(B)
  PROVE  a \o b \in Seq(B) /\ Len(a \o b) = Len(a) + Len(b)
OBVIOUS

\* In any order.
LEMMA Joins ==
  ASSUME NEW B, NEW a \in Seq(B), NEW b \in Seq(B), NEW d \in Seq(B)
  PROVE  /\ (a \o b) \o d = a \o (b \o d)
         /\ a \o b \in Seq(B) /\ b \o d \in Seq(B) /\ (a \o b) \o d \in Seq(B)
<1> DEFINE x == (a \o b) \o d
           y == a \o (b \o d)
<1>1. Len(a) \in Nat /\ Len(b) \in Nat /\ Len(d) \in Nat
  OBVIOUS
<1>2. a \o b \in Seq(B) /\ Len(a \o b) = Len(a) + Len(b) /\ b \o d \in Seq(B) /\ Len(b \o d) = Len(b) + Len(d)
  OBVIOUS
<1>3. x \in Seq(B) /\ Len(x) = Len(a) + Len(b) + Len(d) /\ y \in Seq(B) /\ Len(y) = Len(a) + Len(b) + Len(d)
  BY <1>2
<1>4. ASSUME NEW i \in 1 .. Len(a) + Len(b) + Len(d) PROVE x[i] = y[i]
  BY <1>1, <1>2
<1> HIDE DEF x, y
<1>5. x = y
  BY <1>3, <1>4, SeqEqual
<1> QED
  BY <1>2, <1>3, <1>5 DEF x, y

\* What is in the transmitter, and what was written.
LEMMA RegistersAre ==
  ASSUME SerialConstants, NEW u \in UsartRecords
  PROVE  Registers(u) \in Seq(OutBytes)
<1>1. u.shift \in Cells(OutBytes) /\ u.dr \in Cells(OutBytes) /\ NoByte \notin OutBytes
  BY DEF UsartRecords, SerialConstants
<1>2. Register(u.shift) \in Seq(OutBytes) /\ Register(u.dr) \in Seq(OutBytes)
  BY <1>1, RegisterIs
<1> QED
  BY <1>2 DEF Registers

\* A queue with other threads.
Waits(q, w) == [q EXCEPT !.waiting = w]

\* The ring is the same.
LEMMA WaitsIs ==
  ASSUME NEW B, NEW q \in Queues(B), NEW w \in Seq(Calls)
  PROVE  /\ Waits(q, w) \in Queues(B) /\ Waits(q, w).waiting = w /\ Waits(q, w).counter = q.counter
         /\ Waits(q, w).buffer = q.buffer /\ Waits(q, w).rd = q.rd /\ Waits(q, w).wr = q.wr
BY DEF Queues, Waits

\* osalThreadDequeueNextI for the queue.
LEMMA PoppedIs ==
  ASSUME NEW B, NEW q \in Queues(B), NEW z, z = Popped(q)
  PROVE  /\ z \in Queues(B) /\ z.waiting = FirstGone(q.waiting)
         /\ z.counter = q.counter /\ z.buffer = q.buffer /\ z.rd = q.rd /\ z.wr = q.wr
<1>1. CASE q.waiting = <<>>
  BY <1>1 DEF Popped, FirstGone
<1>2. CASE q.waiting # <<>>
  <2>1. q.waiting \in Seq(Calls)
    BY DEF Queues
  <2>2. Tail(q.waiting) \in Seq(Calls)
    BY <1>2, <2>1
  <2>3. z = Waits(q, Tail(q.waiting))
    BY <1>2 DEF Popped, Waits
  <2> DEFINE w == Tail(q.waiting)
  <2> HIDE DEF w
  <2>4. /\ Waits(q, w) \in Queues(B) /\ Waits(q, w).waiting = w /\ Waits(q, w).counter = q.counter
        /\ Waits(q, w).buffer = q.buffer /\ Waits(q, w).rd = q.rd /\ Waits(q, w).wr = q.wr
    BY <2>2, WaitsIs, Zenon DEF w
  <2> QED
    BY <1>2, <2>3, <2>4 DEF w, FirstGone
<1> QED
  BY <1>1, <1>2

\* An empty queue.
LEMMA EmptyIs ==
  ASSUME SerialConstants, NEW B, NEW n \in 0 .. Size
  PROVE  /\ EmptyQueue(n) \in Queues(B) /\ EmptyQueue(n).counter = n
         /\ EmptyQueue(n).waiting = <<>>
         /\ RingOf(EmptyQueue(n), 0) /\ First(EmptyQueue(n), 0) = <<>>
<1>1. Size \in Nat /\ Size > 0 /\ <<>> \in Seq(Calls) /\ 0 \in 0 .. Size - 1 /\ 0 \in 0 .. Size
  BY DEF SerialConstants
<1>2. EmptyQueue(n) \in Queues(B)
  BY <1>1 DEF EmptyQueue, Queues, Cells
<1>3. RingOf(EmptyQueue(n), 0)
  BY <1>1 DEF EmptyQueue, RingOf, Cell
<1>4. First(EmptyQueue(n), 0) = <<>>
  <2>1. First(EmptyQueue(n), 0) \in Seq(Cells(B)) /\ Len(First(EmptyQueue(n), 0)) = 0
    BY <1>1, <1>2, FirstIs
  <2> QED
    BY <2>1
<1> QED
  BY <1>2, <1>3, <1>4 DEF EmptyQueue

\* Output with the same ring and the same registers.
LEMMA OutKept ==
  ASSUME OutOK, oq' \in Queues(OutBytes), usart' \in UsartRecords,
         oq'.counter = oq.counter, oq'.buffer = oq.buffer, oq'.rd = oq.rd, oq'.wr = oq.wr,
         usart'.dr = usart.dr, usart'.shift = usart.shift, written' = written,
         oq.counter < Size => "TXEIE" \in usart'.cr1
  PROVE  OutOK'
<1>1. /\ First(oq', Size - oq.counter) = First(oq, Size - oq.counter)
      /\ RingOf(oq', Size - oq.counter)
  BY SameRing DEF OutOK
<1>2. Registers(usart') = Registers(usart)
  BY DEF Registers
<1> QED
  BY <1>1, <1>2 DEF OutOK

\* Input with the same ring.
LEMMA InKept ==
  ASSUME InOK, iq' \in Queues(InBytes), iq'.counter = iq.counter, iq'.buffer = iq.buffer,
         iq'.rd = iq.rd, iq'.wr = iq.wr, received' = received
  PROVE  InOK'
<1>1. First(iq', iq.counter) = First(iq, iq.counter) /\ RingOf(iq', iq.counter)
  BY SameRing DEF InOK
<1> QED
  BY <1>1 DEF InOK

\* notify1.
LEMMA NotifiedIs ==
  ASSUME usart \in UsartRecords
  PROVE  /\ Notified \in UsartRecords /\ "TXEIE" \in Notified.cr1
         /\ Notified.dr = usart.dr /\ Notified.shift = usart.shift /\ Notified.rdr = usart.rdr
BY DEF Notified, UsartRecords

\* oq_write and oqPutI, with notify1: the bytes are behind those written before.
LEMMA PutStep ==
  ASSUME SerialConstants, OutOK, NEW k \in 1 .. oq.counter, Put(k)
  PROVE  /\ OutOK' /\ oq'.counter = oq.counter - k /\ oq'.waiting = oq.waiting
         /\ usart'.dr = usart.dr
<1>1. PICK s \in [1 .. k -> OutBytes] :
        /\ oq' = [Stored(oq, s) EXCEPT !.counter = @ - k]
        /\ written' = written \o s
        /\ usart' = Notified
  BY Zenon DEF Put
<1> DEFINE c == Size - oq.counter
           z == Stored(oq, s)
<1>2. /\ oq \in Queues(OutBytes) /\ usart \in UsartRecords /\ RingOf(oq, c)
      /\ First(oq, c) \in Seq(OutBytes) /\ written = Registers(usart) \o First(oq, c)
  BY DEF OutOK
<1>3. oq.counter \in 0 .. Size /\ Size \in Nat /\ Size > 0
  BY <1>2 DEF Queues, SerialConstants
<1>4. /\ c \in 0 .. Size /\ k \in Nat /\ k <= Size - c /\ oq.counter - k \in 0 .. Size
      /\ Size - (oq.counter - k) = c + k
  BY <1>3
<1>5. s \in Seq(OutBytes) /\ Len(s) = k /\ s \in Seq(Cells(OutBytes))
  BY <1>4 DEF Cells
<1> HIDE DEF c
<1>6. /\ z \in Queues(OutBytes) /\ z.counter = oq.counter /\ z.waiting = oq.waiting
      /\ RingOf(z, c + k) /\ First(z, c + k) = First(oq, c) \o s
  BY <1>2, <1>4, <1>5, PutRing, ZenonT(60)
<1> HIDE DEF z
<1>7. oq' = [z EXCEPT !.counter = oq.counter - k]
  BY <1>1, <1>6 DEF z
<1>8. /\ oq' \in Queues(OutBytes) /\ oq'.counter = oq.counter - k /\ oq'.waiting = oq.waiting
      /\ oq'.buffer = z.buffer /\ oq'.rd = z.rd /\ oq'.wr = z.wr
  BY <1>4, <1>6, <1>7, Zenon DEF Queues
<1>9. First(oq', c + k) = First(oq, c) \o s /\ RingOf(oq', c + k)
  BY <1>6, <1>8, SameRing
<1>10. /\ usart' \in UsartRecords /\ "TXEIE" \in usart'.cr1
       /\ usart'.dr = usart.dr /\ usart'.shift = usart.shift
  BY <1>1, <1>2, NotifiedIs
<1>11. Registers(usart') = Registers(usart)
  BY <1>10 DEF Registers
<1>12. written' = Registers(usart) \o (First(oq, c) \o s)
  <2> DEFINE r == Registers(usart)
             f == First(oq, c)
  <2>1. r \in Seq(OutBytes) /\ f \in Seq(OutBytes) /\ written' = (r \o f) \o s
    BY <1>1, <1>2, RegistersAre
  <2> HIDE DEF r, f
  <2>2. s \in Seq(OutBytes) /\ r \in Seq(OutBytes) /\ f \in Seq(OutBytes)
    BY <1>5, <2>1, Zenon
  <2>3. (r \o f) \o s = r \o (f \o s)
    BY <2>2, Joins
  <2> QED
    BY <2>1, <2>3, Zenon DEF r, f
<1>13. First(oq, c) \o s \in Seq(OutBytes)
  BY <1>2, <1>5
<1>14. OutOK'
  BY <1>4, <1>8, <1>9, <1>10, <1>11, <1>12, <1>13, Zenon DEF OutOK
<1> QED
  BY <1>8, <1>10, <1>14

\* iq_read and iqGetI: the bytes taken are the first.
LEMMA GetStep ==
  ASSUME SerialConstants, InOK, NEW k \in 1 .. iq.counter, Get(k)
  PROVE  /\ InOK' /\ iq'.counter = iq.counter - k /\ iq'.waiting = iq.waiting
<1> DEFINE c == iq.counter
           z == Fetched(iq, k)
<1>1. iq' = [z EXCEPT !.counter = @ - k] /\ received' = SubSeq(received, k + 1, Len(received))
  BY DEF Get
<1>2. iq \in Queues(InBytes) /\ RingOf(iq, c) /\ received = First(iq, c)
  BY DEF InOK
<1>3. c \in 0 .. Size /\ Size \in Nat /\ Size > 0
  BY <1>2 DEF Queues, SerialConstants
<1>4. k \in 0 .. c /\ c - k \in 0 .. Size
  BY <1>3
<1>5. /\ z \in Queues(InBytes) /\ z.counter = c /\ z.waiting = iq.waiting
      /\ RingOf(z, c - k) /\ First(z, c - k) = SubSeq(First(iq, c), k + 1, c)
  BY <1>2, <1>3, <1>4, GetRing, Zenon
<1> HIDE DEF z
<1>6. iq' = [z EXCEPT !.counter = c - k]
  BY <1>1, <1>5
<1>7. /\ iq' \in Queues(InBytes) /\ iq'.counter = c - k /\ iq'.waiting = iq.waiting
      /\ iq'.buffer = z.buffer /\ iq'.rd = z.rd /\ iq'.wr = z.wr
  BY <1>4, <1>5, <1>6 DEF Queues
<1>8. First(iq', c - k) = SubSeq(First(iq, c), k + 1, c) /\ RingOf(iq', c - k)
  BY <1>5, <1>7, SameRing
<1>9. Len(First(iq, c)) = c
  BY <1>2, <1>3, FirstIs
<1>10. received' = First(iq', c - k)
  BY <1>1, <1>2, <1>8, <1>9, Zenon
<1> QED
  BY <1>7, <1>8, <1>10 DEF InOK

-----------------------------------------------------------------------------
(* The steps *)

\* The sides.
LEMMA SidesAre ==
  ASSUME SerialConstants
  PROVE  /\ Writers \in SUBSET Calls /\ Readers \in SUBSET Calls
         /\ \A t \in Writers : t \notin Readers
         /\ \A t \in Calls : t \in Writers \/ t \in Readers
BY DEF Calls, SerialConstants

\* The invariant of the side ts after a transfer of k bytes by t, with p and d of
\* the other side.
LEMMA TransferThreads ==
  ASSUME SerialConstants, NEW ts \in SUBSET Calls, NEW us \in SUBSET Calls,
         NEW q, NEW p, NEW c \in Nat, NEW d \in Nat, NEW t \in ts, t \notin us,
         CallsOK(call), SideOK(ts, q, call, c), SideOK(us, p, call, d),
         call[t].at # "queued", NEW n \in Nat, NEW k \in 1 .. c, k <= n,
         call' = [call EXCEPT ![t] = Rest(n - k)]
  PROVE  CallsOK(call') /\ SideOK(ts, q, call', c - k) /\ SideOK(us, p, call', d)
<1> DEFINE r == Rest(n - k)
<1>1. n - k \in Nat /\ c - k \in Nat /\ c - k < c /\ d <= d /\ t \in Calls
  OBVIOUS
<1>2. r \in CallRecords /\ (r.at # "out" => r.n >= 1) /\ r.at # "queued"
  BY <1>1 DEF Rest, CallRecords, NoCall
<1> HIDE DEF r
<1>3. /\ CallsOK(call') /\ call'[t] = r
      /\ \A x \in Calls : x # t => call'[x] = call[x]
  BY <1>1, <1>2 DEF CallsOK, r
<1>4. \A x \in ts : x # t => call'[x] = call[x]
  BY <1>3
<1>5. \A x \in us : call'[x] = call[x]
  BY <1>3
<1>6. SideOK(ts, q, call', c - k)
  <2> DEFINE e == c - k
  <2>1. e \in Nat /\ e < c /\ call'[t].at # "queued" /\ Alone(ts, t, call, call')
    BY <1>1, <1>2, <1>3, <1>4 DEF Alone
  <2> HIDE DEF e
  <2>2. SideOK(ts, q, call', e)
    BY <2>1, SideTransfers, Zenon
  <2> QED
    BY <2>2 DEF e
<1>7. SideOK(us, p, call', d)
  BY <1>1, <1>5, SideKept, Zenon
<1> QED
  BY <1>3, <1>6, <1>7

\* The same when t goes to sleep.
LEMMA SleepThreads ==
  ASSUME SerialConstants, NEW ts \in SUBSET Calls, NEW us \in SUBSET Calls,
         NEW q, NEW p, NEW c \in Nat, NEW d \in Nat, NEW t \in ts, t \notin us,
         CallsOK(call), SideOK(ts, q, call, c), SideOK(us, p, call, d),
         call[t].at # "queued", NEW n \in Nat, n >= 1,
         call' = [call EXCEPT ![t] = [at |-> "queued", n |-> n]]
  PROVE  CallsOK(call') /\ SideOK(ts, Append(q, t), call', 0) /\ SideOK(us, p, call', d)
<1> DEFINE r == [at |-> "queued", n |-> n]
<1>1. t \in Calls /\ d <= d
  OBVIOUS
<1>2. r \in CallRecords /\ (r.at # "out" => r.n >= 1) /\ r.at = "queued"
  BY DEF CallRecords
<1> HIDE DEF r
<1>3. /\ CallsOK(call') /\ call'[t] = r
      /\ \A x \in Calls : x # t => call'[x] = call[x]
  BY <1>1, <1>2 DEF CallsOK, r
<1>4. \A x \in ts : x # t => call'[x] = call[x]
  BY <1>3
<1>5. \A x \in us : call'[x] = call[x]
  BY <1>3
<1>6. SideOK(ts, Append(q, t), call', 0)
  BY <1>2, <1>3, <1>4, SideSleeps, Zenon
<1>7. SideOK(us, p, call', d)
  BY <1>1, <1>5, SideKept, Zenon
<1> QED
  BY <1>3, <1>6, <1>7

\* The same when its sleep times out.
LEMMA TimeoutThreads ==
  ASSUME SerialConstants, NEW ts \in SUBSET Calls, NEW us \in SUBSET Calls,
         NEW q, NEW p, NEW c \in Nat, NEW d \in Nat, NEW t \in ts, t \notin us,
         CallsOK(call), SideOK(ts, q, call, c), SideOK(us, p, call, d),
         call[t].at = "queued", call' = [call EXCEPT ![t] = NoCall]
  PROVE  CallsOK(call') /\ SideOK(ts, Without(q, t), call', c) /\ SideOK(us, p, call', d)
<1>1. t \in Calls /\ d <= d
  OBVIOUS
<1>2. NoCall \in CallRecords /\ NoCall.at = "out"
  BY DEF CallRecords, NoCall
<1>3. /\ CallsOK(call') /\ call'[t] = NoCall
      /\ \A x \in Calls : x # t => call'[x] = call[x]
  BY <1>1, <1>2 DEF CallsOK
<1>4. \A x \in ts : x # t => call'[x] = call[x]
  BY <1>3
<1>5. \A x \in us : call'[x] = call[x]
  BY <1>3
<1>6. SideOK(ts, Without(q, t), call', c)
  BY <1>2, <1>3, <1>4, SideTimesOut, Zenon
<1>7. SideOK(us, p, call', d)
  BY <1>1, <1>5, SideKept, Zenon
<1> QED
  BY <1>3, <1>6, <1>7

\* What the invariant says of a state, in the form the steps use.
LEMMA SerialFacts ==
  ASSUME SerialInv
  PROVE  /\ SerialConstants /\ OutOK /\ InOK /\ HandlerOK /\ CallsOK(call)
         /\ SideOK(Writers, oq.waiting, call, oq.counter)
         /\ SideOK(Readers, iq.waiting, call, iq.counter)
         /\ oq \in Queues(OutBytes) /\ iq \in Queues(InBytes) /\ usart \in UsartRecords
         /\ oq.counter \in 0 .. Size /\ oq.counter \in Nat /\ iq.counter \in 0 .. Size /\ iq.counter \in Nat
         /\ oq.waiting \in Seq(Calls) /\ iq.waiting \in Seq(Calls)
         /\ Size \in Nat /\ Size > 0
<1>1. SerialConstants /\ OutOK /\ InOK /\ HandlerOK /\ ThreadsOK
  BY Zenon DEF SerialInv
<1>2. oq \in Queues(OutBytes) /\ iq \in Queues(InBytes) /\ usart \in UsartRecords
  BY <1>1, Zenon DEF OutOK, InOK
<1>3. Size \in Nat /\ Size > 0
  BY <1>1 DEF SerialConstants
<1>4. /\ oq.counter \in 0 .. Size /\ iq.counter \in 0 .. Size
      /\ oq.waiting \in Seq(Calls) /\ iq.waiting \in Seq(Calls)
  BY <1>2 DEF Queues
<1> QED
  BY <1>1, <1>2, <1>3, <1>4 DEF ThreadsOK

\* The invariant after a step, from its parts.
LEMMA SerialNextInv ==
  ASSUME SerialConstants, OutOK', InOK', HandlerOK', CallsOK(call'),
         SideOK(Writers, oq'.waiting, call', oq'.counter),
         SideOK(Readers, iq'.waiting, call', iq'.counter)
  PROVE  SerialInv'
<1>1. ThreadsOK'
  BY Zenon DEF ThreadsOK, CallsOK, SideOK, SleepIn, ReadyIn, Calls
<1>2. SerialConstants'
  BY Zenon DEF SerialConstants, Calls
<1> QED
  BY <1>1, <1>2, Zenon DEF SerialInv

\* A step that leaves the handler and the data register leaves what it read right.
LEMMA HandlerKept ==
  ASSUME HandlerOK, handler' = handler, usart'.dr = usart.dr
  PROVE  HandlerOK'
BY DEF HandlerOK

\* The smaller of two numbers.
LEMMA MinimumIs ==
  ASSUME NEW a \in Nat, NEW b \in Nat, a >= 1
  PROVE  /\ Minimum(a, b) \in Nat /\ Minimum(a, b) <= a /\ Minimum(a, b) <= b
         /\ Minimum(a, b) = 0 => b = 0
BY DEF Minimum

\* oqWriteTimeout, one round of its loop.
LEMMA WriteStep ==
  ASSUME SerialInv, NEW t \in Writers, oqWriteTimeout(t)
  PROVE  SerialInv'
<1>1. /\ SerialConstants /\ OutOK /\ InOK /\ HandlerOK /\ CallsOK(call)
      /\ SideOK(Writers, oq.waiting, call, oq.counter)
      /\ SideOK(Readers, iq.waiting, call, iq.counter)
      /\ oq \in Queues(OutBytes) /\ iq \in Queues(InBytes) /\ usart \in UsartRecords
      /\ oq.counter \in 0 .. Size /\ oq.counter \in Nat /\ iq.counter \in Nat
      /\ oq.waiting \in Seq(Calls) /\ Size \in Nat
  BY SerialFacts, Zenon
<1>2. /\ Writers \in SUBSET Calls /\ Readers \in SUBSET Calls /\ t \notin Readers /\ t \in Calls
  BY <1>1, SidesAre
<1>3. iq' = iq /\ handler' = handler /\ received' = received
  BY DEF oqWriteTimeout
<1>4. PICK n \in Nat : n >= 1 /\ call[t].at # "queued" /\ Write(t, n)
  <2>1. CASE call[t].at = "out" /\ \E n \in 1 .. MaxBytes : Write(t, n)
    <3>1. PICK n \in 1 .. MaxBytes : Write(t, n)
      BY <2>1
    <3>2. n \in Nat /\ n >= 1
      BY <1>1 DEF SerialConstants
    <3> QED
      BY <2>1, <3>1, <3>2
  <2>2. CASE call[t].at = "ready" /\ Write(t, call[t].n)
    <3>1. call[t].n \in Nat /\ call[t].n >= 1
      BY <1>1, <1>2, <2>2 DEF CallsOK, CallRecords
    <3> QED
      BY <2>2, <3>1
  <2> QED
    BY <2>1, <2>2 DEF oqWriteTimeout
<1> DEFINE k == Minimum(n, oq.counter)
<1>5. k \in Nat /\ k <= n /\ k <= oq.counter /\ (k = 0 => oq.counter = 0)
  BY <1>1, <1>4, MinimumIs
<1>6. InOK'
  BY <1>1, <1>3, InKept
<1>7. CASE k > 0 /\ Put(k) /\ call' = [call EXCEPT ![t] = Rest(n - k)]
  <2> HIDE DEF k
  <2>1. k \in 1 .. oq.counter
    BY <1>1, <1>5, <1>7
  <2>2. /\ OutOK' /\ oq'.counter = oq.counter - k /\ oq'.waiting = oq.waiting
        /\ usart'.dr = usart.dr
    BY <1>1, <1>7, <2>1, PutStep, Zenon
  <2>3. HandlerOK'
    BY <1>1, <1>3, <2>2, HandlerKept, Zenon
  <2>4. /\ CallsOK(call') /\ SideOK(Writers, oq.waiting, call', oq.counter - k)
        /\ SideOK(Readers, iq.waiting, call', iq.counter)
    BY <1>1, <1>2, <1>4, <1>5, <1>7, <2>1, TransferThreads, Zenon
  <2> QED
    BY <1>1, <1>3, <1>6, <2>2, <2>3, <2>4, SerialNextInv, Zenon
<1>8. CASE k = 0 /\ oq' = [oq EXCEPT !.waiting = Append(@, t)]
           /\ call' = [call EXCEPT ![t] = [at |-> "queued", n |-> n]] /\ UNCHANGED <<usart, written>>
  <2> HIDE DEF k
  <2> DEFINE w == Append(oq.waiting, t)
  <2>1. w \in Seq(Calls)
    BY <1>1, <1>2
  <2>2. oq' = Waits(oq, w)
    BY <1>8 DEF Waits
  <2> HIDE DEF w
  <2>3. /\ oq' \in Queues(OutBytes) /\ oq'.waiting = w /\ oq'.counter = oq.counter
        /\ oq'.buffer = oq.buffer /\ oq'.rd = oq.rd /\ oq'.wr = oq.wr
    BY <1>1, <2>1, <2>2, WaitsIs
  <2>4. OutOK'
    <3>1. usart' = usart /\ written' = written /\ (oq.counter < Size => "TXEIE" \in usart.cr1)
      BY <1>1, <1>8 DEF OutOK
    <3> QED
      BY <1>1, <2>3, <3>1, OutKept
  <2>5. HandlerOK'
    BY <1>1, <1>3, <1>8, HandlerKept
  <2>6. /\ CallsOK(call') /\ SideOK(Writers, Append(oq.waiting, t), call', 0)
        /\ SideOK(Readers, iq.waiting, call', iq.counter)
    BY <1>1, <1>2, <1>4, <1>8, SleepThreads, Zenon
  <2>7. oq'.counter = 0
    BY <1>5, <1>8, <2>3
  <2> QED
    BY <1>1, <1>3, <1>6, <2>3, <2>4, <2>5, <2>6, <2>7, SerialNextInv, Zenon DEF w
<1> QED
  BY <1>4, <1>7, <1>8 DEF Write

\* iqReadTimeout, one round of its loop.
LEMMA ReadStep ==
  ASSUME SerialInv, NEW t \in Readers, iqReadTimeout(t)
  PROVE  SerialInv'
<1>1. /\ SerialConstants /\ OutOK /\ InOK /\ HandlerOK /\ CallsOK(call)
      /\ SideOK(Writers, oq.waiting, call, oq.counter)
      /\ SideOK(Readers, iq.waiting, call, iq.counter)
      /\ oq \in Queues(OutBytes) /\ iq \in Queues(InBytes) /\ usart \in UsartRecords
      /\ iq.counter \in 0 .. Size /\ oq.counter \in Nat /\ iq.counter \in Nat
      /\ iq.waiting \in Seq(Calls) /\ Size \in Nat
  BY SerialFacts, Zenon
<1>2. /\ Writers \in SUBSET Calls /\ Readers \in SUBSET Calls /\ t \notin Writers /\ t \in Calls
  BY <1>1, SidesAre
<1>3. oq' = oq /\ usart' = usart /\ handler' = handler /\ written' = written
  BY DEF iqReadTimeout
<1>4. PICK n \in Nat : n >= 1 /\ call[t].at # "queued" /\ Read(t, n)
  <2>1. CASE call[t].at = "out" /\ \E n \in 1 .. MaxBytes : Read(t, n)
    <3>1. PICK n \in 1 .. MaxBytes : Read(t, n)
      BY <2>1
    <3>2. n \in Nat /\ n >= 1
      BY <1>1 DEF SerialConstants
    <3> QED
      BY <2>1, <3>1, <3>2
  <2>2. CASE call[t].at = "ready" /\ Read(t, call[t].n)
    <3>1. call[t].n \in Nat /\ call[t].n >= 1
      BY <1>1, <1>2, <2>2 DEF CallsOK, CallRecords
    <3> QED
      BY <2>2, <3>1
  <2> QED
    BY <2>1, <2>2 DEF iqReadTimeout
<1> DEFINE k == Minimum(n, iq.counter)
<1>5. k \in Nat /\ k <= n /\ k <= iq.counter /\ (k = 0 => iq.counter = 0)
  BY <1>1, <1>4, MinimumIs, Zenon
<1>6. OutOK' /\ HandlerOK'
  <2>1. OutOK'
    <3>1. oq.counter < Size => "TXEIE" \in usart.cr1
      BY <1>1 DEF OutOK
    <3> QED
      BY <1>1, <1>3, <3>1, OutKept
  <2> QED
    BY <1>1, <1>3, <2>1, HandlerKept
<1>7. CASE k > 0 /\ Get(k) /\ call' = [call EXCEPT ![t] = Rest(n - k)]
  <2> HIDE DEF k
  <2>1. k \in 1 .. iq.counter
    BY <1>1, <1>5, <1>7
  <2>2. InOK' /\ iq'.counter = iq.counter - k /\ iq'.waiting = iq.waiting
    BY <1>1, <1>7, <2>1, GetStep, Zenon
  <2>4. /\ CallsOK(call') /\ SideOK(Readers, iq.waiting, call', iq.counter - k)
        /\ SideOK(Writers, oq.waiting, call', oq.counter)
    BY <1>1, <1>2, <1>4, <1>5, <1>7, <2>1, TransferThreads, Zenon
  <2> QED
    BY <1>1, <1>3, <1>6, <2>2, <2>4, SerialNextInv, Zenon
<1>8. CASE k = 0 /\ iq' = [iq EXCEPT !.waiting = Append(@, t)]
           /\ call' = [call EXCEPT ![t] = [at |-> "queued", n |-> n]] /\ UNCHANGED received
  <2> HIDE DEF k
  <2> DEFINE w == Append(iq.waiting, t)
  <2>1. w \in Seq(Calls)
    BY <1>1, <1>2
  <2>2. iq' = Waits(iq, w)
    BY <1>8 DEF Waits
  <2> HIDE DEF w
  <2>3. /\ iq' \in Queues(InBytes) /\ iq'.waiting = w /\ iq'.counter = iq.counter
        /\ iq'.buffer = iq.buffer /\ iq'.rd = iq.rd /\ iq'.wr = iq.wr
    BY <1>1, <2>1, <2>2, WaitsIs
  <2>4. InOK'
    BY <1>1, <1>8, <2>3, InKept
  <2>6. /\ CallsOK(call') /\ SideOK(Readers, Append(iq.waiting, t), call', 0)
        /\ SideOK(Writers, oq.waiting, call', oq.counter)
    BY <1>1, <1>2, <1>4, <1>8, SleepThreads, Zenon
  <2>7. iq'.counter = 0
    BY <1>5, <1>8, <2>3
  <2> QED
    BY <1>1, <1>3, <1>6, <2>3, <2>4, <2>6, <2>7, SerialNextInv, Zenon DEF w
<1> QED
  BY <1>4, <1>7, <1>8 DEF Read

\* oqPutI and oqWriteI.
LEMMA WriteIStep ==
  ASSUME SerialInv, NEW n \in 1 .. MaxBytes, oqWriteI(n)
  PROVE  SerialInv'
<1>1. /\ SerialConstants /\ OutOK /\ InOK /\ HandlerOK /\ CallsOK(call)
      /\ SideOK(Writers, oq.waiting, call, oq.counter)
      /\ SideOK(Readers, iq.waiting, call, iq.counter)
      /\ iq \in Queues(InBytes) /\ oq.counter \in Nat
  BY SerialFacts, Zenon
<1> DEFINE k == Minimum(n, oq.counter)
<1>2. n \in Nat /\ n >= 1
  BY <1>1 DEF SerialConstants
<1>3. k \in Nat /\ k <= oq.counter /\ (k = 0 => oq.counter = 0)
  BY <1>1, <1>2, MinimumIs
<1>4. /\ oq.counter > 0 /\ Put(k) /\ iq' = iq /\ call' = call /\ handler' = handler
      /\ received' = received
  BY DEF oqWriteI
<1> HIDE DEF k
<1>5. k \in 1 .. oq.counter /\ oq.counter - k \in Nat /\ oq.counter - k <= oq.counter
  BY <1>1, <1>3, <1>4
<1>6. /\ OutOK' /\ oq'.counter = oq.counter - k /\ oq'.waiting = oq.waiting /\ usart'.dr = usart.dr
  BY <1>1, <1>4, <1>5, PutStep, Zenon
<1>7. HandlerOK' /\ InOK'
  BY <1>1, <1>4, <1>6, HandlerKept, InKept, Zenon
<1>8. SideOK(Writers, oq.waiting, call, oq'.counter)
  <2>1. oq'.counter \in Nat /\ oq'.counter <= oq.counter /\ Writers \in SUBSET Calls
    BY <1>1, <1>5, <1>6, SidesAre
  <2> QED
    BY <1>1, <2>1, SideKept
<1> QED
  BY <1>1, <1>4, <1>6, <1>7, <1>8, SerialNextInv, Zenon

\* iqGetI and iqReadI.
LEMMA ReadIStep ==
  ASSUME SerialInv, NEW n \in 1 .. MaxBytes, iqReadI(n)
  PROVE  SerialInv'
<1>1. /\ SerialConstants /\ OutOK /\ InOK /\ HandlerOK /\ CallsOK(call)
      /\ SideOK(Writers, oq.waiting, call, oq.counter)
      /\ SideOK(Readers, iq.waiting, call, iq.counter)
      /\ oq \in Queues(OutBytes) /\ usart \in UsartRecords /\ iq.counter \in Nat
  BY SerialFacts, Zenon
<1> DEFINE k == Minimum(n, iq.counter)
<1>2. n \in Nat /\ n >= 1
  BY <1>1 DEF SerialConstants
<1>3. k \in Nat /\ k <= iq.counter /\ (k = 0 => iq.counter = 0)
  BY <1>1, <1>2, MinimumIs
<1>4. /\ iq.counter > 0 /\ Get(k) /\ oq' = oq /\ call' = call /\ handler' = handler
      /\ usart' = usart /\ written' = written
  BY DEF iqReadI
<1> HIDE DEF k
<1>5. k \in 1 .. iq.counter /\ iq.counter - k \in Nat /\ iq.counter - k <= iq.counter
  BY <1>1, <1>3, <1>4
<1>6. InOK' /\ iq'.counter = iq.counter - k /\ iq'.waiting = iq.waiting
  BY <1>1, <1>4, <1>5, GetStep, Zenon
<1>7. HandlerOK' /\ OutOK'
  <2>1. oq.counter < Size => "TXEIE" \in usart.cr1
    BY <1>1 DEF OutOK
  <2> QED
    BY <1>1, <1>4, <2>1, HandlerKept, OutKept, Zenon
<1>8. SideOK(Readers, iq.waiting, call, iq'.counter)
  <2>1. iq'.counter \in Nat /\ iq'.counter <= iq.counter /\ Readers \in SUBSET Calls
    BY <1>1, <1>5, <1>6, SidesAre
  <2> QED
    BY <1>1, <2>1, SideKept
<1> QED
  BY <1>1, <1>4, <1>6, <1>7, <1>8, SerialNextInv, Zenon

\* oqResetI: the bytes of the queue are dropped, those of the transmitter are not.
LEMMA OutResetStep ==
  ASSUME SerialInv, oqResetI
  PROVE  SerialInv'
<1> DEFINE c == Size - oq.counter
<1>1. /\ SerialConstants /\ OutOK /\ InOK /\ HandlerOK /\ CallsOK(call)
      /\ SideOK(Writers, oq.waiting, call, oq.counter)
      /\ SideOK(Readers, iq.waiting, call, iq.counter)
      /\ oq \in Queues(OutBytes) /\ iq \in Queues(InBytes) /\ usart \in UsartRecords
      /\ oq.counter \in 0 .. Size /\ iq.counter \in Nat /\ Size \in Nat /\ Size > 0
  BY SerialFacts, Zenon
<1>2. /\ oq' = EmptyQueue(Size) /\ call' = AllEnded(oq)
      /\ written' = SubSeq(written, 1, Len(written) - c)
      /\ iq' = iq /\ usart' = usart /\ handler' = handler /\ received' = received
  BY DEF oqResetI
<1>3. /\ EmptyQueue(Size) \in Queues(OutBytes) /\ EmptyQueue(Size).counter = Size
      /\ EmptyQueue(Size).waiting = <<>>
      /\ RingOf(EmptyQueue(Size), 0) /\ First(EmptyQueue(Size), 0) = <<>>
  BY <1>1, EmptyIs
<1>4. c \in 0 .. Size /\ c \in Nat
  BY <1>1
<1> DEFINE r == Registers(usart)
           f == First(oq, c)
<1>5. r \in Seq(OutBytes) /\ f \in Seq(OutBytes) /\ Len(f) = c /\ written = r \o f
  <2>1. Len(f) = c
    BY <1>1, <1>4, FirstIs
  <2> QED
    BY <1>1, <2>1, RegistersAre DEF OutOK
<1> HIDE DEF r, f, c
<1>6. written' = r
  <2>1. Len(r) \in Nat /\ r \o f \in Seq(OutBytes) /\ Len(r \o f) = Len(r) + c
    <3>1. r \o f \in Seq(OutBytes) /\ Len(r \o f) = Len(r) + Len(f)
      BY <1>5, JoinLen, Zenon
    <3> QED
      BY <1>5, <3>1
  <2>2. written' = SubSeq(r \o f, 1, Len(r))
    <3>1. Len(r) + c - c = Len(r)
      BY <1>4, <2>1
    <3> QED
      BY <1>2, <1>5, <2>1, <3>1
  <2>3. /\ SubSeq(r \o f, 1, Len(r)) \in Seq(OutBytes) /\ Len(SubSeq(r \o f, 1, Len(r))) = Len(r)
        /\ \A i \in 1 .. Len(r) : SubSeq(r \o f, 1, Len(r))[i] = r[i]
    BY <1>5, <2>1
  <2>4. SubSeq(r \o f, 1, Len(r)) = r
    BY <1>5, <2>3, SeqEqual
  <2> QED
    BY <2>2, <2>4
<1>7. OutOK'
  <2>1. r = Registers(usart') \o <<>> /\ <<>> \in Seq(OutBytes)
    <3>1. r = r \o <<>>
      BY <1>5
    <3> QED
      BY <1>2, <3>1 DEF r
  <2>2. Size - Size = 0 /\ ~(Size < Size)
    BY <1>1
  <2> QED
    BY <1>1, <1>2, <1>3, <1>6, <2>1, <2>2, Zenon DEF OutOK
<1>8. HandlerOK' /\ InOK'
  BY <1>1, <1>2, HandlerKept, InKept
<1>9. /\ SideOK(Writers, <<>>, call', Size) /\ CallsOK(call')
      /\ \A x \in Calls : x \notin Writers => call'[x] = call[x]
  <2> DEFINE new == Returned(call, oq.waiting)
  <2>1. call' = new
    BY <1>2, Zenon DEF AllEnded, Returned
  <2>2. Writers \in SUBSET Calls
    BY <1>1, SidesAre
  <2>3. /\ Lists(<<>>, SleepIn(new, Writers)) /\ CallsOK(new)
        /\ \A x \in Calls : x \notin Writers => new[x] = call[x]
    <3> DEFINE q == oq.waiting
    <3>1. CallsOK(call) /\ Lists(q, SleepIn(call, Writers))
      BY <1>1, Zenon DEF SideOK
    <3> HIDE DEF q
    <3>2. /\ Lists(<<>>, SleepIn(Returned(call, q), Writers)) /\ CallsOK(Returned(call, q))
          /\ \A x \in Calls : x \notin Writers => Returned(call, q)[x] = call[x]
      BY <2>2, <3>1, SideEnds
    <3> QED
      BY <3>2, Zenon DEF q
  <2> QED
    BY <2>1, <2>3, Zenon DEF SideOK
<1>10. SideOK(Readers, iq.waiting, call', iq.counter)
  <2>1. Readers \in SUBSET Calls /\ (\A x \in Readers : call'[x] = call[x]) /\ iq.counter <= iq.counter
    BY <1>1, <1>9, SidesAre
  <2> QED
    BY <1>1, <2>1, SideKept
<1> QED
  BY <1>1, <1>2, <1>3, <1>7, <1>8, <1>9, <1>10, SerialNextInv, Zenon

\* iqResetI: the bytes of the queue are dropped.
LEMMA InResetStep ==
  ASSUME SerialInv, iqResetI
  PROVE  SerialInv'
<1>1. /\ SerialConstants /\ OutOK /\ InOK /\ HandlerOK /\ CallsOK(call)
      /\ SideOK(Writers, oq.waiting, call, oq.counter)
      /\ SideOK(Readers, iq.waiting, call, iq.counter)
      /\ oq \in Queues(OutBytes) /\ iq \in Queues(InBytes) /\ usart \in UsartRecords
      /\ oq.counter \in Nat /\ Size \in Nat /\ Size > 0
  BY SerialFacts, Zenon
<1>2. /\ iq' = EmptyQueue(0) /\ call' = AllEnded(iq) /\ received' = <<>>
      /\ oq' = oq /\ usart' = usart /\ handler' = handler /\ written' = written
  BY DEF iqResetI
<1>3. /\ EmptyQueue(0) \in Queues(InBytes) /\ EmptyQueue(0).counter = 0
      /\ EmptyQueue(0).waiting = <<>>
      /\ RingOf(EmptyQueue(0), 0) /\ First(EmptyQueue(0), 0) = <<>>
  <2>1. 0 \in 0 .. Size
    BY <1>1
  <2> QED
    BY <1>1, <2>1, EmptyIs
<1>4. InOK'
  BY <1>2, <1>3 DEF InOK
<1>5. HandlerOK' /\ OutOK'
  <2>1. oq.counter < Size => "TXEIE" \in usart.cr1
    BY <1>1 DEF OutOK
  <2> QED
    BY <1>1, <1>2, <2>1, HandlerKept, OutKept, Zenon
<1>6. /\ SideOK(Readers, <<>>, call', 0) /\ CallsOK(call')
      /\ \A x \in Calls : x \notin Readers => call'[x] = call[x]
  <2> DEFINE new == Returned(call, iq.waiting)
  <2>1. call' = new
    BY <1>2, Zenon DEF AllEnded, Returned
  <2>2. Readers \in SUBSET Calls
    BY <1>1, SidesAre
  <2>3. /\ Lists(<<>>, SleepIn(new, Readers)) /\ CallsOK(new)
        /\ \A x \in Calls : x \notin Readers => new[x] = call[x]
    <3> DEFINE q == iq.waiting
    <3>1. CallsOK(call) /\ Lists(q, SleepIn(call, Readers))
      BY <1>1, Zenon DEF SideOK
    <3> HIDE DEF q
    <3>2. /\ Lists(<<>>, SleepIn(Returned(call, q), Readers)) /\ CallsOK(Returned(call, q))
          /\ \A x \in Calls : x \notin Readers => Returned(call, q)[x] = call[x]
      BY <2>2, <3>1, SideEnds
    <3> QED
      BY <3>2, Zenon DEF q
  <2> QED
    BY <2>1, <2>3, Zenon DEF SideOK
<1>7. SideOK(Writers, oq.waiting, call', oq.counter)
  <2>1. Writers \in SUBSET Calls /\ (\A x \in Writers : call'[x] = call[x]) /\ oq.counter <= oq.counter
    BY <1>1, <1>6, SidesAre
  <2> QED
    BY <1>1, <2>1, SideKept
<1> QED
  BY <1>1, <1>2, <1>3, <1>4, <1>5, <1>6, <1>7, SerialNextInv, Zenon

\* The timeout of a wait.
LEMMA SerialTimeoutStep ==
  ASSUME SerialInv, NEW t \in Calls, Timeout(t)
  PROVE  SerialInv'
<1>1. /\ SerialConstants /\ OutOK /\ InOK /\ HandlerOK /\ CallsOK(call)
      /\ SideOK(Writers, oq.waiting, call, oq.counter)
      /\ SideOK(Readers, iq.waiting, call, iq.counter)
      /\ oq \in Queues(OutBytes) /\ iq \in Queues(InBytes) /\ usart \in UsartRecords
      /\ oq.counter \in Nat /\ iq.counter \in Nat
  BY SerialFacts, Zenon
<1>2. /\ Writers \in SUBSET Calls /\ Readers \in SUBSET Calls
      /\ (t \in Writers => t \notin Readers) /\ (t \in Writers \/ t \in Readers)
  BY <1>1, SidesAre
<1>3. /\ call[t].at = "queued" /\ call' = [call EXCEPT ![t] = NoCall]
      /\ usart' = usart /\ handler' = handler /\ written' = written /\ received' = received
  BY DEF Timeout
<1>4. HandlerOK'
  BY <1>1, <1>3, HandlerKept
<1>5. oq.counter < Size => "TXEIE" \in usart.cr1
  BY <1>1 DEF OutOK
<1>6. CASE t \in Writers
  <2> DEFINE w == Without(oq.waiting, t)
  <2>1. oq' = Waits(oq, w) /\ iq' = iq
    BY <1>6, Zenon DEF Timeout, Waits
  <2>2. /\ CallsOK(call') /\ SideOK(Writers, w, call', oq.counter)
        /\ SideOK(Readers, iq.waiting, call', iq.counter)
    BY <1>1, <1>2, <1>3, <1>6, TimeoutThreads, Zenon
  <2> HIDE DEF w
  <2>3. w \in Seq(Calls)
    <3>1. w \in Seq(SleepIn(call', Writers)) /\ SleepIn(call', Writers) \subseteq Calls
      BY <1>2, <2>2 DEF SideOK, Lists, SleepIn
    <3> QED
      BY <3>1
  <2>4. /\ oq' \in Queues(OutBytes) /\ oq'.waiting = w /\ oq'.counter = oq.counter
        /\ oq'.buffer = oq.buffer /\ oq'.rd = oq.rd /\ oq'.wr = oq.wr
    BY <1>1, <2>1, <2>3, WaitsIs
  <2>5. OutOK' /\ InOK'
    BY <1>1, <1>3, <1>5, <2>1, <2>4, OutKept, InKept, Zenon
  <2> QED
    BY <1>1, <1>4, <2>1, <2>2, <2>4, <2>5, SerialNextInv, Zenon
<1>7. CASE t \notin Writers
  <2> DEFINE w == Without(iq.waiting, t)
  <2>1. iq' = Waits(iq, w) /\ oq' = oq
    BY <1>7, Zenon DEF Timeout, Waits
  <2>2. /\ CallsOK(call') /\ SideOK(Readers, w, call', iq.counter)
        /\ SideOK(Writers, oq.waiting, call', oq.counter)
    BY <1>1, <1>2, <1>3, <1>7, TimeoutThreads, Zenon
  <2> HIDE DEF w
  <2>3. w \in Seq(Calls)
    <3>1. w \in Seq(SleepIn(call', Readers)) /\ SleepIn(call', Readers) \subseteq Calls
      BY <1>2, <2>2 DEF SideOK, Lists, SleepIn
    <3> QED
      BY <3>1
  <2>4. /\ iq' \in Queues(InBytes) /\ iq'.waiting = w /\ iq'.counter = iq.counter
        /\ iq'.buffer = iq.buffer /\ iq'.rd = iq.rd /\ iq'.wr = iq.wr
    BY <1>1, <2>1, <2>3, WaitsIs
  <2>5. OutOK' /\ InOK'
    BY <1>1, <1>3, <1>5, <2>1, <2>4, OutKept, InKept, Zenon
  <2> QED
    BY <1>1, <1>4, <2>1, <2>2, <2>4, <2>5, SerialNextInv, Zenon
<1> QED
  BY <1>6, <1>7

\* CR1 and SR are read at the start of serve_interrupt.
LEMMA InterruptStep ==
  ASSUME SerialInv, ServeInterrupt
  PROVE  SerialInv'
<1>1. /\ SerialConstants /\ OutOK /\ InOK /\ CallsOK(call)
      /\ SideOK(Writers, oq.waiting, call, oq.counter)
      /\ SideOK(Readers, iq.waiting, call, iq.counter)
      /\ oq \in Queues(OutBytes) /\ iq \in Queues(InBytes) /\ usart \in UsartRecords
  BY SerialFacts, Zenon
<1>2. /\ handler' = [at |-> "rx", cr1 |-> usart.cr1, sr |-> SR]
      /\ oq' = oq /\ iq' = iq /\ call' = call /\ usart' = usart /\ written' = written
      /\ received' = received
  BY DEF ServeInterrupt
<1>3. usart.cr1 \in SUBSET {"TXEIE", "TCIE"} /\ SR \in SUBSET {"TXE", "TC", "RXNE"}
  BY <1>1 DEF UsartRecords, SR
<1>4. "TXE" \in SR => usart.dr = NoByte
  BY DEF SR
<1>5. HandlerOK'
  BY <1>2, <1>3, <1>4 DEF HandlerOK, HandlerRecords
<1>6. OutOK' /\ InOK'
  <2>1. oq.counter < Size => "TXEIE" \in usart.cr1
    BY <1>1 DEF OutOK
  <2> QED
    BY <1>1, <1>2, <2>1, OutKept, InKept, Zenon
<1> QED
  BY <1>1, <1>2, <1>5, <1>6, SerialNextInv, Zenon

\* sdIncomingDataI with iqPutI: the byte follows those received before.
LEMMA IncomingStep ==
  ASSUME SerialInv, NEW b \in Cells(InBytes), sdIncomingDataI(b), oq' = oq
  PROVE  /\ InOK' /\ CallsOK(call')
         /\ SideOK(Writers, oq.waiting, call', oq.counter)
         /\ SideOK(Readers, iq'.waiting, call', iq'.counter)
<1> DEFINE c == iq.counter
           z == Stored(iq, <<b>>)
           y == [z EXCEPT !.counter = @ + 1]
<1>1. /\ SerialConstants /\ InOK /\ CallsOK(call)
      /\ SideOK(Writers, oq.waiting, call, oq.counter)
      /\ SideOK(Readers, iq.waiting, call, c)
      /\ iq \in Queues(InBytes) /\ oq.counter \in Nat /\ c \in 0 .. Size /\ c \in Nat
      /\ Size \in Nat /\ Size > 0
  BY SerialFacts, Zenon
<1>2. RingOf(iq, c) /\ received = First(iq, c)
  BY <1>1 DEF InOK
<1>3. CASE iqIsFullI
  <2>1. iq' = iq /\ call' = call /\ received' = received
    BY <1>3 DEF sdIncomingDataI
  <2> QED
    BY <1>1, <2>1, InKept, Zenon
<1>4. CASE ~iqIsFullI
  <2>1. iq' = Popped(y) /\ call' = Woken(iq) /\ received' = Append(received, b)
    BY <1>4, Zenon DEF sdIncomingDataI
  <2>2. c < Size
    <3>1. iq.wr = iq.rd <=> c \in {0, Size}
      BY <1>1, <1>2, FullTurn
    <3> QED
      BY <1>1, <1>4, <3>1 DEF iqIsFullI
  <2>3. <<b>> \in Seq(Cells(InBytes)) /\ Len(<<b>>) = 1 /\ 1 <= Size - c /\ c + 1 \in 0 .. Size
    BY <1>1, <2>2
  <2>4. /\ z \in Queues(InBytes) /\ z.counter = c /\ z.waiting = iq.waiting
        /\ RingOf(z, c + 1) /\ First(z, c + 1) = First(iq, c) \o <<b>>
    <3> DEFINE s == <<b>>
    <3>1. s \in Seq(Cells(InBytes)) /\ Len(s) = 1 /\ Len(s) <= Size - c
      BY <2>3
    <3> HIDE DEF s
    <3>2. /\ Stored(iq, s) \in Queues(InBytes) /\ Stored(iq, s).counter = c
          /\ Stored(iq, s).waiting = iq.waiting
          /\ RingOf(Stored(iq, s), c + Len(s)) /\ First(Stored(iq, s), c + Len(s)) = First(iq, c) \o s
      BY <1>1, <1>2, <3>1, PutRing, Zenon
    <3> QED
      BY <3>1, <3>2 DEF s
  <2> HIDE DEF z
  <2>5. /\ y \in Queues(InBytes) /\ y.counter = c + 1 /\ y.waiting = iq.waiting
        /\ y.buffer = z.buffer /\ y.rd = z.rd /\ y.wr = z.wr
    BY <2>3, <2>4, Zenon DEF Queues
  <2> HIDE DEF y
  <2>6. /\ iq' \in Queues(InBytes) /\ iq'.counter = c + 1
        /\ iq'.waiting = FirstGone(iq.waiting)
        /\ iq'.buffer = z.buffer /\ iq'.rd = z.rd /\ iq'.wr = z.wr
    BY <2>1, <2>5, PoppedIs
  <2>7. First(iq', c + 1) = First(iq, c) \o <<b>> /\ RingOf(iq', c + 1)
    <3>1. iq'.buffer = z.buffer /\ iq'.rd = z.rd /\ iq'.wr = z.wr
      BY <2>6, Zenon
    <3>2. First(iq', c + 1) = First(z, c + 1) /\ (RingOf(z, c + 1) => RingOf(iq', c + 1))
      BY <3>1, SameRing
    <3> QED
      BY <2>4, <3>2
  <2>8. Append(received, b) = First(iq, c) \o <<b>>
    <3>1. First(iq, c) \in Seq(Cells(InBytes))
      BY <1>1, FirstIs
    <3> QED
      BY <1>2, <3>1, AppendIsConcat
  <2>9. InOK'
    BY <2>1, <2>6, <2>7, <2>8 DEF InOK
  <2>10. call' = FirstAwake(call, iq.waiting)
    BY <2>1, Zenon DEF Woken, Awake, FirstAwake
  <2>11. /\ CallsOK(call') /\ SideOK(Readers, iq'.waiting, call', c + 1)
         /\ SideOK(Writers, oq.waiting, call', oq.counter)
    <3>1. Writers \in SUBSET Calls /\ Readers \in SUBSET Calls /\ Readers \cap Writers = {}
      BY <1>1, SidesAre
    <3>2. /\ CallsOK(FirstAwake(call, iq.waiting))
          /\ SideOK(Readers, FirstGone(iq.waiting), FirstAwake(call, iq.waiting), c + 1)
          /\ SideOK(Writers, oq.waiting, FirstAwake(call, iq.waiting), oq.counter)
      BY <1>1, <3>1, WakeBoth, Zenon
    <3> QED
      BY <2>6, <2>10, <3>2, Zenon
  <2> QED
    BY <2>6, <2>9, <2>11, Zenon
<1> QED
  BY <1>3, <1>4

\* The receiver's part of serve_interrupt: a byte is taken, or SR is read again.
LEMMA ReceiverStep ==
  ASSUME SerialInv, ServeReceiver
  PROVE  SerialInv'
<1>1. /\ SerialConstants /\ OutOK /\ InOK /\ HandlerOK /\ CallsOK(call)
      /\ SideOK(Writers, oq.waiting, call, oq.counter)
      /\ SideOK(Readers, iq.waiting, call, iq.counter)
      /\ oq \in Queues(OutBytes) /\ iq \in Queues(InBytes) /\ usart \in UsartRecords
  BY SerialFacts, Zenon
<1>2. oq' = oq /\ written' = written
  BY DEF ServeReceiver
<1>3. oq.counter < Size => "TXEIE" \in usart.cr1
  BY <1>1 DEF OutOK
<1>4. /\ handler \in HandlerRecords
      /\ handler.at \in {"rx", "reread", "tx"} /\ "TXE" \in handler.sr => usart.dr = NoByte
  BY <1>1, Zenon DEF HandlerOK
<1>5. CASE /\ handler.at \in {"rx", "reread"} /\ sdIncomingDataI(usart.rdr)
           /\ usart' = [usart EXCEPT !.rdr = NoByte]
           /\ handler' = handler \/ handler' = [handler EXCEPT !.at = "reread"]
  <2>1. usart.rdr \in Cells(InBytes)
    BY <1>1 DEF UsartRecords
  <2>2. /\ InOK' /\ CallsOK(call') /\ SideOK(Writers, oq.waiting, call', oq.counter)
        /\ SideOK(Readers, iq'.waiting, call', iq'.counter)
    BY <1>2, <1>5, <2>1, IncomingStep, Zenon
  <2>3. /\ usart' \in UsartRecords /\ usart'.dr = usart.dr /\ usart'.shift = usart.shift
        /\ usart'.cr1 = usart.cr1
    BY <1>1, <1>5 DEF UsartRecords, Cells
  <2>4. OutOK'
    BY <1>1, <1>2, <1>3, <2>3, OutKept
  <2>5. handler' \in HandlerRecords /\ handler'.sr = handler.sr
    BY <1>4, <1>5 DEF HandlerRecords
  <2>6. HandlerOK'
    BY <1>4, <1>5, <2>3, <2>5 DEF HandlerOK
  <2> QED
    BY <1>1, <1>2, <2>2, <2>4, <2>6, SerialNextInv, Zenon
<1>6. CASE /\ handler' = [handler EXCEPT !.at = "tx"] \/ handler' = [handler EXCEPT !.at = "tx", !.sr = SR]
           /\ handler.at \in {"rx", "reread"} /\ UNCHANGED <<iq, call, usart, received>>
  <2>1. SR \in SUBSET {"TXE", "TC", "RXNE"} /\ ("TXE" \in SR => usart.dr = NoByte)
    BY DEF SR
  <2>2. handler' \in HandlerRecords /\ handler'.sr \in {handler.sr, SR}
    BY <1>4, <1>6, <2>1, Zenon DEF HandlerRecords
  <2>3. HandlerOK'
    BY <1>4, <1>6, <2>1, <2>2 DEF HandlerOK
  <2>4. OutOK' /\ InOK'
    BY <1>1, <1>2, <1>3, <1>6, OutKept, InKept, Zenon
  <2>5. call' = call /\ iq' = iq
    BY <1>6
  <2> QED
    BY <1>1, <1>2, <2>3, <2>4, <2>5, SerialNextInv, Zenon
<1> QED
  BY <1>5, <1>6 DEF ServeReceiver

\* A byte goes from the queue to the data register.
LEMMA TransmitOne ==
  ASSUME SerialInv, usart.dr = NoByte, ~oqIsEmptyI,
         oq' = Popped([Fetched(oq, 1) EXCEPT !.counter = @ + 1]),
         call' = Woken(oq), usart' = [usart EXCEPT !.dr = First(oq, 1)[1]], written' = written
  PROVE  /\ OutOK' /\ CallsOK(call')
         /\ SideOK(Writers, oq'.waiting, call', oq'.counter)
         /\ SideOK(Readers, iq.waiting, call', iq.counter)
<1> DEFINE c == Size - oq.counter
           z == Fetched(oq, 1)
           y == [z EXCEPT !.counter = @ + 1]
           r == Register(usart.shift)
           f == First(oq, c)
           g == SubSeq(f, 2, c)
<1>1. /\ SerialConstants /\ OutOK /\ CallsOK(call)
      /\ SideOK(Writers, oq.waiting, call, oq.counter)
      /\ SideOK(Readers, iq.waiting, call, iq.counter)
      /\ oq \in Queues(OutBytes) /\ usart \in UsartRecords
      /\ oq.counter \in 0 .. Size /\ oq.counter \in Nat /\ iq.counter \in Nat
      /\ Size \in Nat /\ Size > 0
  BY SerialFacts, Zenon
<1>2. /\ RingOf(oq, c) /\ f \in Seq(OutBytes) /\ written = Registers(usart) \o f
      /\ (oq.counter < Size => "TXEIE" \in usart.cr1)
  BY <1>1 DEF OutOK
<1>3. c \in 0 .. Size /\ c >= 1
  <2>1. c \in 0 .. Size
    BY <1>1
  <2>2. oq.wr = oq.rd <=> c \in {0, Size}
    BY <1>1, <1>2, <2>1, FullTurn
  <2> QED
    BY <1>1, <2>1, <2>2 DEF oqIsEmptyI
<1>4. 1 \in 0 .. c /\ 1 \in 0 .. Size /\ oq.counter + 1 \in 0 .. Size /\ Size - (oq.counter + 1) = c - 1
      /\ oq.counter < Size /\ 1 + 1 = 2
  BY <1>1, <1>3
<1>5. First(oq, 1)[1] = f[1]
  <2>1. 1 \in 1 .. 1 /\ 1 \in 1 .. c
    BY <1>3
  <2>2. First(oq, 1)[1] = oq.buffer[Cell(oq.rd, 1 - 1)]
    BY <1>1, <1>4, <2>1, FirstIs, Zenon
  <2>3. f[1] = oq.buffer[Cell(oq.rd, 1 - 1)]
    BY <1>1, <1>3, <2>1, FirstIs, Zenon
  <2> QED
    BY <2>2, <2>3
<1>6. Len(f) = c
  BY <1>1, <1>3, FirstIs
<1>7. /\ z \in Queues(OutBytes) /\ z.counter = oq.counter /\ z.waiting = oq.waiting
      /\ RingOf(z, c - 1) /\ First(z, c - 1) = g
  <2> HIDE DEF c
  <2>1. /\ z \in Queues(OutBytes) /\ z.counter = oq.counter /\ z.waiting = oq.waiting
        /\ RingOf(z, c - 1) /\ First(z, c - 1) = SubSeq(First(oq, c), 1 + 1, c)
    BY <1>1, <1>2, <1>3, <1>4, GetRing, Zenon
  <2> QED
    BY <1>4, <2>1
<1> HIDE DEF c, z, f
<1>8. /\ y \in Queues(OutBytes) /\ y.counter = oq.counter + 1 /\ y.waiting = oq.waiting
      /\ y.buffer = z.buffer /\ y.rd = z.rd /\ y.wr = z.wr
  BY <1>4, <1>7, Zenon DEF Queues
<1>9. oq' = Popped(y)
  BY Zenon DEF y, z
<1> HIDE DEF y
<1>10. /\ oq' \in Queues(OutBytes) /\ oq'.counter = oq.counter + 1
       /\ oq'.waiting = FirstGone(oq.waiting)
       /\ oq'.buffer = z.buffer /\ oq'.rd = z.rd /\ oq'.wr = z.wr
  BY <1>8, <1>9, PoppedIs
<1>11. First(oq', c - 1) = g /\ RingOf(oq', c - 1)
  BY <1>7, <1>10, SameRing
<1>12. f[1] \in OutBytes /\ f[1] # NoByte /\ g \in Seq(OutBytes) /\ f = <<f[1]>> \o g
  <2>1. f[1] \in OutBytes /\ c \in Nat
    BY <1>2, <1>3, <1>6
  <2>2. /\ g \in Seq(OutBytes) /\ Len(g) = c - 1 /\ \A i \in 1 .. c - 1 : g[i] = f[i + 1]
    BY <1>2, <1>3, <1>6, <2>1
  <2> HIDE DEF g
  <2>3. <<f[1]>> \o g \in Seq(OutBytes) /\ Len(<<f[1]>> \o g) = c
    BY <1>3, <2>1, <2>2
  <2>4. ASSUME NEW i \in 1 .. c PROVE f[i] = (<<f[1]>> \o g)[i]
    <3>1. CASE i = 1
      BY <2>1, <2>2, <3>1
    <3>2. CASE i # 1
      <4>1. i - 1 \in 1 .. c - 1 /\ (i - 1) + 1 = i
        BY <2>1, <3>2
      <4>2. (<<f[1]>> \o g)[i] = g[i - 1]
        BY <2>1, <2>2, <3>2, <4>1
      <4> QED
        BY <2>2, <4>1, <4>2
    <3> QED
      BY <3>1, <3>2, Zenon
  <2>5. f = <<f[1]>> \o g
    BY <1>2, <1>6, <2>3, <2>4, SeqEqual, Zenon
  <2> QED
    BY <1>1, <2>1, <2>2, <2>5 DEF SerialConstants
<1>13. /\ usart' \in UsartRecords /\ usart'.dr = f[1] /\ usart'.shift = usart.shift
       /\ usart'.cr1 = usart.cr1
  BY <1>1, <1>5, <1>12, Zenon DEF UsartRecords, Cells
<1>14. Registers(usart) = r \o <<>> /\ Registers(usart') = r \o <<f[1]>>
  BY <1>12, <1>13 DEF Registers, Register
<1>15. r \in Seq(OutBytes)
  <2>1. usart.shift \in Cells(OutBytes) /\ NoByte \notin OutBytes
    BY <1>1 DEF UsartRecords, SerialConstants
  <2> QED
    BY <2>1, RegisterIs
<1> HIDE DEF g, r
<1>16. written' = Registers(usart') \o g
  <2>1. r \o <<>> = r /\ <<f[1]>> \in Seq(OutBytes)
    BY <1>12, <1>15
  <2>2. (r \o <<f[1]>>) \o g = r \o (<<f[1]>> \o g)
    BY <1>12, <1>15, <2>1, Joins
  <2>3. written = r \o f
    BY <1>2, <1>14, <2>1
  <2>4. written = r \o (<<f[1]>> \o g)
    BY <1>12, <2>3, Zenon
  <2> QED
    BY <1>14, <2>2, <2>4, Zenon
<1>17. OutOK'
  <2>1. Size - oq'.counter = c - 1
    BY <1>4, <1>10
  <2> QED
    BY <1>2, <1>4, <1>10, <1>11, <1>12, <1>13, <1>16, <2>1, Zenon DEF OutOK
<1>18. call' = FirstAwake(call, oq.waiting)
  BY Zenon DEF Woken, Awake, FirstAwake
<1>19. /\ CallsOK(call') /\ SideOK(Writers, oq'.waiting, call', oq'.counter)
       /\ SideOK(Readers, iq.waiting, call', iq.counter)
  <2>1. Writers \in SUBSET Calls /\ Readers \in SUBSET Calls /\ Writers \cap Readers = {}
    BY <1>1, SidesAre
  <2>2. /\ CallsOK(FirstAwake(call, oq.waiting))
        /\ SideOK(Writers, FirstGone(oq.waiting), FirstAwake(call, oq.waiting), oq.counter + 1)
        /\ SideOK(Readers, iq.waiting, FirstAwake(call, oq.waiting), iq.counter)
    BY <1>1, <2>1, WakeBoth, Zenon
  <2> QED
    BY <1>10, <1>18, <2>2, Zenon
<1> QED
  BY <1>17, <1>19

\* The transmitter's part of serve_interrupt: no one has put a byte in the data
\* register since SR was read.
LEMMA TransmitterStep ==
  ASSUME SerialInv, ServeTransmitter
  PROVE  SerialInv'
<1>1. /\ SerialConstants /\ OutOK /\ InOK /\ HandlerOK /\ CallsOK(call)
      /\ SideOK(Writers, oq.waiting, call, oq.counter)
      /\ SideOK(Readers, iq.waiting, call, iq.counter)
      /\ oq \in Queues(OutBytes) /\ iq \in Queues(InBytes) /\ usart \in UsartRecords
      /\ oq.counter \in 0 .. Size /\ Size \in Nat
  BY SerialFacts, Zenon
<1>2. /\ handler.at = "tx" /\ handler' = [handler EXCEPT !.at = "tc"]
      /\ iq' = iq /\ written' = written /\ received' = received
  BY DEF ServeTransmitter
<1>3. handler \in HandlerRecords /\ ("TXE" \in handler.sr => usart.dr = NoByte)
  BY <1>1, <1>2 DEF HandlerOK
<1>4. HandlerOK'
  BY <1>2, <1>3 DEF HandlerOK, HandlerRecords
<1>5. InOK'
  BY <1>1, <1>2, InKept
<1>6. oq.counter < Size => "TXEIE" \in usart.cr1
  BY <1>1 DEF OutOK
<1>7. CASE "TXEIE" \in handler.cr1 /\ "TXE" \in handler.sr /\ oqIsEmptyI
  <2>1. usart' = [usart EXCEPT !.cr1 = handler.cr1 \ {"TXEIE"}] /\ oq' = oq /\ call' = call
    BY <1>7, Zenon DEF ServeTransmitter
  <2>2. usart' \in UsartRecords /\ usart'.dr = usart.dr /\ usart'.shift = usart.shift
    BY <1>1, <1>3, <2>1 DEF UsartRecords, HandlerRecords
  <2>3. ~(oq.counter < Size)
    <3>1. RingOf(oq, Size - oq.counter) /\ Size - oq.counter \in 0 .. Size
      BY <1>1 DEF OutOK
    <3>2. oq.wr = oq.rd <=> Size - oq.counter \in {0, Size}
      BY <1>1, <3>1, FullTurn, Zenon
    <3> QED
      BY <1>1, <1>7, <3>2 DEF oqIsEmptyI
  <2>4. OutOK'
    BY <1>1, <1>2, <2>1, <2>2, <2>3, OutKept, Zenon
  <2> QED
    BY <1>1, <1>2, <1>4, <1>5, <2>1, <2>4, SerialNextInv, Zenon
<1>8. CASE "TXEIE" \in handler.cr1 /\ "TXE" \in handler.sr /\ ~oqIsEmptyI
  <2>1. /\ oq' = Popped([Fetched(oq, 1) EXCEPT !.counter = @ + 1])
        /\ call' = Woken(oq) /\ usart' = [usart EXCEPT !.dr = First(oq, 1)[1]]
    BY <1>8, Zenon DEF ServeTransmitter
  <2>2. /\ OutOK' /\ CallsOK(call') /\ SideOK(Writers, oq'.waiting, call', oq'.counter)
        /\ SideOK(Readers, iq.waiting, call', iq.counter)
    BY <1>2, <1>3, <1>8, <2>1, TransmitOne, Zenon
  <2> QED
    BY <1>1, <1>2, <1>4, <1>5, <2>2, SerialNextInv, Zenon
<1>9. CASE ~("TXEIE" \in handler.cr1 /\ "TXE" \in handler.sr)
  <2>1. oq' = oq /\ call' = call /\ usart' = usart
    BY <1>9 DEF ServeTransmitter
  <2>2. OutOK'
    BY <1>1, <1>2, <1>6, <2>1, OutKept, Zenon
  <2> QED
    BY <1>1, <1>2, <1>4, <1>5, <2>1, <2>2, SerialNextInv, Zenon
<1> QED
  BY <1>7, <1>8, <1>9

\* The end of the handler: the interrupt is disabled with the queue empty.
LEMMA TransmissionEndStep ==
  ASSUME SerialInv, ServeTransmissionEnd
  PROVE  SerialInv'
<1>1. /\ SerialConstants /\ OutOK /\ InOK /\ HandlerOK /\ CallsOK(call)
      /\ SideOK(Writers, oq.waiting, call, oq.counter)
      /\ SideOK(Readers, iq.waiting, call, iq.counter)
      /\ oq \in Queues(OutBytes) /\ iq \in Queues(InBytes) /\ usart \in UsartRecords
      /\ oq.counter \in 0 .. Size /\ Size \in Nat
  BY SerialFacts, Zenon
<1>2. /\ handler' = NoHandler /\ oq' = oq /\ iq' = iq /\ call' = call /\ written' = written
      /\ received' = received
      /\ \/ usart' = usart
         \/ usart' = [usart EXCEPT !.cr1 = handler.cr1 \ {"TCIE"}] /\ oqIsEmptyI
  BY DEF ServeTransmissionEnd
<1>3. handler \in HandlerRecords
  BY <1>1 DEF HandlerOK
<1>4. HandlerOK'
  BY <1>2 DEF HandlerOK, HandlerRecords, NoHandler
<1>5. InOK'
  BY <1>1, <1>2, InKept
<1>6. OutOK'
  <2>1. usart' \in UsartRecords /\ usart'.dr = usart.dr /\ usart'.shift = usart.shift
    BY <1>1, <1>2, <1>3 DEF UsartRecords, HandlerRecords
  <2>2. oqIsEmptyI => ~(oq.counter < Size)
    <3>1. RingOf(oq, Size - oq.counter) /\ Size - oq.counter \in 0 .. Size
      BY <1>1 DEF OutOK
    <3>2. oq.wr = oq.rd <=> Size - oq.counter \in {0, Size}
      BY <1>1, <3>1, FullTurn, Zenon
    <3> QED
      BY <1>1, <3>2 DEF oqIsEmptyI
  <2>3. oq.counter < Size => "TXEIE" \in usart'.cr1
    BY <1>1, <1>2, <2>2 DEF OutOK
  <2> QED
    BY <1>1, <1>2, <2>1, <2>3, OutKept, Zenon
<1> QED
  BY <1>1, <1>2, <1>4, <1>5, <1>6, SerialNextInv, Zenon

\* The hardware moves a byte on, sends one or receives one.
LEMMA HardwareStep ==
  ASSUME SerialInv, Hardware
  PROVE  SerialInv'
<1> DEFINE f == First(oq, Size - oq.counter)
<1>1. /\ SerialConstants /\ OutOK /\ InOK /\ HandlerOK /\ CallsOK(call)
      /\ SideOK(Writers, oq.waiting, call, oq.counter)
      /\ SideOK(Readers, iq.waiting, call, iq.counter)
      /\ oq \in Queues(OutBytes) /\ iq \in Queues(InBytes) /\ usart \in UsartRecords
  BY SerialFacts, Zenon
<1>2. /\ oq' = oq /\ iq' = iq /\ call' = call /\ handler' = handler /\ received' = received
  BY DEF Hardware
<1>3. InOK'
  BY <1>1, <1>2, InKept
<1>4. /\ RingOf(oq, Size - oq.counter) /\ f \in Seq(OutBytes) /\ written = Registers(usart) \o f
      /\ (oq.counter < Size => "TXEIE" \in usart.cr1)
  BY <1>1, Zenon DEF OutOK
<1>5. usart.dr \in Cells(OutBytes) /\ usart.shift \in Cells(OutBytes) /\ NoByte \notin OutBytes
  BY <1>1 DEF UsartRecords, SerialConstants
<1>6. /\ OutOK' /\ usart'.dr \in {usart.dr, NoByte}
  <2>1. CASE /\ usart.dr # NoByte /\ usart.shift = NoByte
             /\ usart' = [usart EXCEPT !.shift = usart.dr, !.dr = NoByte] /\ UNCHANGED written
    <3>1. /\ usart' \in UsartRecords /\ usart'.shift = usart.dr /\ usart'.dr = NoByte
          /\ usart'.cr1 = usart.cr1
      BY <1>1, <2>1, Zenon DEF UsartRecords, Cells
    <3>2. Registers(usart) = <<>> \o <<usart.dr>> /\ Registers(usart') = <<usart.dr>> \o <<>>
      BY <2>1, <3>1 DEF Registers, Register
    <3>3. usart.dr \in OutBytes
      BY <1>5, <2>1 DEF Cells
    <3>4. <<>> \o <<usart.dr>> = <<usart.dr>> /\ <<usart.dr>> \o <<>> = <<usart.dr>>
      BY <3>3
    <3>5. Registers(usart') = Registers(usart)
      BY <3>2, <3>4
    <3>6. OutOK'
      BY <1>1, <1>2, <1>4, <2>1, <3>1, <3>5 DEF OutOK
    <3> QED
      BY <3>1, <3>6
  <2>2. CASE /\ usart.shift # NoByte /\ usart' = [usart EXCEPT !.shift = NoByte]
             /\ written' = Tail(written)
    <3> DEFINE b == usart.shift
               r == Register(usart.dr)
    <3>1. /\ usart' \in UsartRecords /\ usart'.shift = NoByte /\ usart'.dr = usart.dr
          /\ usart'.cr1 = usart.cr1
      BY <1>1, <2>2 DEF UsartRecords, Cells
    <3>2. Registers(usart) = <<b>> \o r /\ Registers(usart') = <<>> \o r
      BY <2>2, <3>1 DEF Registers, Register
    <3>3. b \in OutBytes /\ r \in Seq(OutBytes)
      <4>1. r \in Seq(OutBytes)
        BY <1>5, RegisterIs
      <4> QED
        BY <1>5, <2>2, <4>1 DEF Cells
    <3> HIDE DEF b, r, f
    <3>4. written = <<b>> \o (r \o f)
      <4>1. <<b>> \in Seq(OutBytes) /\ written = (<<b>> \o r) \o f
        BY <1>4, <3>2, <3>3
      <4> QED
        BY <1>4, <3>3, <4>1, Joins
    <3>5. written' = r \o f
      <4> DEFINE s == r \o f
      <4>1. s \in Seq(OutBytes)
        BY <1>4, <3>3
      <4> HIDE DEF s
      <4>2. Tail(<<b>> \o s) = s
        <5>1. /\ <<b>> \o s \in Seq(OutBytes) /\ Len(<<b>> \o s) = Len(s) + 1 /\ Len(s) \in Nat
              /\ \A i \in 1 .. Len(s) : (<<b>> \o s)[i + 1] = s[i]
          BY <3>3, <4>1
        <5>2. /\ Tail(<<b>> \o s) \in Seq(OutBytes) /\ Len(Tail(<<b>> \o s)) = Len(s)
              /\ \A i \in 1 .. Len(s) : Tail(<<b>> \o s)[i] = (<<b>> \o s)[i + 1]
          BY <5>1
        <5> QED
          BY <4>1, <5>1, <5>2, SeqEqual
      <4> QED
        BY <2>2, <3>4, <4>2 DEF s
    <3>6. Registers(usart') = r
      BY <3>2, <3>3
    <3>7. OutOK'
      BY <1>1, <1>2, <1>4, <3>1, <3>5, <3>6 DEF OutOK, f
    <3> QED
      BY <3>1, <3>7
  <2>3. CASE (\E b \in InBytes : usart' = [usart EXCEPT !.rdr = b]) /\ UNCHANGED written
    <3>1. /\ usart' \in UsartRecords /\ usart'.shift = usart.shift /\ usart'.dr = usart.dr
          /\ usart'.cr1 = usart.cr1
      BY <1>1, <2>3 DEF UsartRecords, Cells
    <3>2. OutOK'
      BY <1>1, <1>2, <1>4, <2>3, <3>1, OutKept
    <3> QED
      BY <3>1, <3>2
  <2> QED
    BY <2>1, <2>2, <2>3 DEF Hardware
<1>7. HandlerOK'
  BY <1>1, <1>2, <1>6 DEF HandlerOK
<1> QED
  BY <1>1, <1>2, <1>3, <1>6, <1>7, SerialNextInv, Zenon

-----------------------------------------------------------------------------
(* The driver *)

\* sdObjectInit: both queues empty, nothing in the registers, no thread in a call.
LEMMA SerialStart ==
  ASSUME SerialConstants, SerialInit
  PROVE  SerialInv
<1>1. /\ oq = EmptyQueue(Size) /\ iq = EmptyQueue(0) /\ call = [t \in Calls |-> NoCall]
      /\ usart = [cr1 |-> {}, dr |-> NoByte, shift |-> NoByte, rdr |-> NoByte]
      /\ handler = NoHandler /\ written = <<>> /\ received = <<>>
  BY DEF SerialInit
<1>2. Size \in Nat /\ Size > 0 /\ Size - Size = 0 /\ 0 \in 0 .. Size /\ Size \in 0 .. Size
  BY DEF SerialConstants
<1>3. /\ oq \in Queues(OutBytes) /\ oq.counter = Size /\ oq.waiting = <<>>
      /\ RingOf(oq, 0) /\ First(oq, 0) = <<>>
  BY <1>1, <1>2, EmptyIs
<1>4. /\ iq \in Queues(InBytes) /\ iq.counter = 0 /\ iq.waiting = <<>>
      /\ RingOf(iq, 0) /\ First(iq, 0) = <<>>
  BY <1>1, <1>2, EmptyIs
<1>5. usart \in UsartRecords
  BY <1>1 DEF UsartRecords, Cells
<1>6. OutOK
  <2>1. Registers(usart) = <<>> \o <<>>
    BY <1>1 DEF Registers, Register
  <2>2. <<>> \in Seq(OutBytes) /\ <<>> \o <<>> = <<>>
    OBVIOUS
  <2>3. /\ RingOf(oq, Size - oq.counter) /\ First(oq, Size - oq.counter) = <<>>
        /\ ~(oq.counter < Size)
    BY <1>2, <1>3
  <2> QED
    BY <1>1, <1>3, <1>5, <2>1, <2>2, <2>3, Zenon DEF OutOK
<1>7. InOK
  BY <1>1, <1>4 DEF InOK
<1>8. HandlerOK
  BY <1>1 DEF HandlerOK, HandlerRecords, NoHandler
<1>9. CallsOK(call)
  BY <1>1 DEF CallsOK, CallRecords, NoCall
<1>10. ASSUME NEW ts \in SUBSET Calls PROVE SleepIn(call, ts) = {}
  BY <1>1 DEF SleepIn, NoCall
<1>11. Lists(<<>>, {})
  BY DEF Lists, IsInjective, Range
<1>12. SideOK(Writers, oq.waiting, call, oq.counter) /\ SideOK(Readers, iq.waiting, call, iq.counter)
  <2>1. SleepIn(call, Writers) = {} /\ SleepIn(call, Readers) = {}
    BY <1>10 DEF Calls
  <2> QED
    BY <1>3, <1>4, <1>11, <2>1 DEF SideOK
<1> QED
  BY <1>6, <1>7, <1>8, <1>9, <1>12, Zenon DEF SerialInv, ThreadsOK

\* Each step of the threads, the handler and the hardware.
LEMMA SerialStep ==
  ASSUME SerialInv, [SerialNext]_serialvars
  PROVE  SerialInv'
<1>1. CASE SerialNext
  BY <1>1, WriteStep, ReadStep, SerialTimeoutStep, WriteIStep, ReadIStep, OutResetStep, InResetStep,
     InterruptStep, ReceiverStep, TransmitterStep, TransmissionEndStep, HardwareStep, Zenon
     DEF SerialNext
<1>2. CASE UNCHANGED serialvars
  <2>1. /\ oq' = oq /\ iq' = iq /\ call' = call /\ usart' = usart /\ handler' = handler
        /\ written' = written /\ received' = received
    BY <1>2 DEF serialvars
  <2>2. OutOK' /\ InOK' /\ HandlerOK'
    BY SerialFacts, <2>1 DEF OutOK, InOK, HandlerOK
  <2> QED
    BY SerialFacts, <2>1, <2>2, SerialNextInv, Zenon
<1> QED
  BY <1>1, <1>2

\* The bytes of both directions pass in order, each once, through the queues,
\* the registers and the handler, for queues of any size.
THEOREM SerialStreams == SerialConstants /\ SerialSpec => []SerialStream
<1>1. SerialConstants /\ SerialInit => SerialInv
  BY SerialStart
<1>2. SerialInv /\ [SerialNext]_serialvars => SerialInv'
  BY SerialStep
<1>3. SerialInv => SerialStream
  BY Zenon DEF SerialInv, OutOK, InOK, SerialStream, Registers
<1> QED
  BY <1>1, <1>2, <1>3, PTL DEF SerialSpec

\* While bytes wait in the output queue the transmitter's interrupt is enabled,
\* and while threads sleep on a queue, whatever they could have of it has a
\* thread on its way, for any number of threads.
THEOREM SerialGoesOn == SerialConstants /\ SerialSpec => []SerialNeverStuck
<1>1. SerialConstants /\ SerialInit => SerialInv
  BY SerialStart
<1>2. SerialInv /\ [SerialNext]_serialvars => SerialInv'
  BY SerialStep
<1>3. SerialInv => SerialNeverStuck
  BY Zenon DEF SerialInv, OutOK, ThreadsOK, SideOK, SerialNeverStuck, ServedOf, ReadyIn
<1> QED
  BY <1>1, <1>2, <1>3, PTL DEF SerialSpec

=============================================================================
