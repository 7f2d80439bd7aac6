---------------------------- MODULE ChMBoxProofs ----------------------------
(***************************************************************************)
(* Mailboxes and objects FIFOs, for any number of threads and slots, any   *)
(* messages and any objects.  The mailbox keeps its types, implements the  *)
(* bounded queue with two ends and loses no wakeup: no thread stays queued *)
(* for a message or a slot that nobody is on the way to take.  The FIFO    *)
(* keeps every object, and its pool stays in step with its semaphore.      *)
(***************************************************************************)
EXTENDS ChFifo, ChListProofs

-----------------------------------------------------------------------------
(* The ring, as a function of its buffer, read pointer and counter *)

RingAt(r, i) == IF r + i < N THEN r + i ELSE r + i - N

RingContent(b, r, c) == [i \in 1 .. c |-> b[RingAt(r, i - 1)]]

Msgs == Messages \cup {NoMsg}

\* Sequences with the same length and elements are equal.
LEMMA SeqEqual ==
  ASSUME NEW S, NEW s \in Seq(S), NEW u \in Seq(S), Len(s) = Len(u),
         \A i \in 1 .. Len(s) : s[i] = u[i]
  PROVE  s = u
  OBVIOUS

\* The content is a sequence of cnt messages.
LEMMA ContentSeq ==
  ASSUME NEW b \in [Slots -> Msgs], NEW r \in Slots, NEW c \in 0 .. N
  PROVE  /\ RingContent(b, r, c) \in Seq(Msgs)
         /\ Len(RingContent(b, r, c)) = c
         /\ \A i \in 1 .. c : RingContent(b, r, c)[i] = b[RingAt(r, i - 1)]
<1>1. \A i \in 1 .. c : RingAt(r, i - 1) \in Slots
  BY MBoxAssumption DEF RingAt, Slots
<1>2. \A i \in 1 .. c : b[RingAt(r, i - 1)] \in Msgs
  BY <1>1
<1>3. c \in Nat
  BY MBoxAssumption
<1> QED
  BY <1>2, <1>3 DEF RingContent

\* A post appends.
LEMMA PostContent ==
  ASSUME NEW b \in [Slots -> Msgs], NEW r \in Slots, NEW c \in 0 .. N, c < N,
         NEW m \in Messages
  PROVE  RingContent([b EXCEPT ![RingAt(r, c)] = m], r, c + 1)
           = Append(RingContent(b, r, c), m)
<1> DEFINE b2 == [b EXCEPT ![RingAt(r, c)] = m]
           s == RingContent(b, r, c)
           u == RingContent(b2, r, c + 1)
<1>1. RingAt(r, c) \in Slots /\ c + 1 \in 0 .. N /\ c \in Nat /\ m \in Msgs
  BY MBoxAssumption DEF RingAt, Slots, Msgs
<1>2. b2 \in [Slots -> Msgs]
  BY <1>1
<1>3. /\ s \in Seq(Msgs) /\ Len(s) = c
      /\ \A i \in 1 .. c : s[i] = b[RingAt(r, i - 1)]
  BY ContentSeq
<1>4. /\ u \in Seq(Msgs) /\ Len(u) = c + 1
      /\ \A i \in 1 .. c + 1 : u[i] = b2[RingAt(r, i - 1)]
  BY ContentSeq, <1>1, <1>2, ZenonT(60)
<1>5. \A i \in 1 .. c : RingAt(r, i - 1) \in Slots /\ RingAt(r, i - 1) # RingAt(r, c)
  BY MBoxAssumption DEF RingAt, Slots
<1>6. \A i \in 1 .. c : b2[RingAt(r, i - 1)] = b[RingAt(r, i - 1)]
  BY <1>5
<1>7. u[c + 1] = m
  <2>1. c + 1 \in 1 .. c + 1 /\ (c + 1) - 1 = c
    BY <1>1
  <2>2. u[c + 1] = b2[RingAt(r, (c + 1) - 1)]
    BY <2>1, <1>4, Zenon
  <2>3. b2[RingAt(r, c)] = m
    BY <1>1
  <2> QED
    BY <2>1, <2>2, <2>3
<1> HIDE DEF s, u, b2
<1>8. Append(s, m) \in Seq(Msgs) /\ Len(Append(s, m)) = c + 1
  BY <1>1, <1>3
<1>9. \A i \in 1 .. c + 1 : u[i] = Append(s, m)[i]
  BY <1>1, <1>3, <1>4, <1>6, <1>7
<1>10. u = Append(s, m)
  BY <1>4, <1>8, <1>9, SeqEqual
<1> QED
  BY <1>10, Zenon DEF s, u, b2

\* A post ahead puts the message before the others.
LEMMA AheadContent ==
  ASSUME NEW b \in [Slots -> Msgs], NEW r \in Slots, NEW c \in 0 .. N, c < N,
         NEW m \in Messages
  PROVE  RingContent([b EXCEPT ![Dec(r)] = m], Dec(r), c + 1)
           = <<m>> \o RingContent(b, r, c)
<1> DEFINE b2 == [b EXCEPT ![Dec(r)] = m]
           s == RingContent(b, r, c)
           u == RingContent(b2, Dec(r), c + 1)
<1>1. Dec(r) \in Slots /\ c + 1 \in 0 .. N /\ c \in Nat /\ m \in Msgs
  BY MBoxAssumption DEF Dec, Slots, Msgs
<1>2. b2 \in [Slots -> Msgs]
  BY <1>1
<1>3. /\ s \in Seq(Msgs) /\ Len(s) = c
      /\ \A i \in 1 .. c : s[i] = b[RingAt(r, i - 1)]
  BY ContentSeq
<1>4. /\ u \in Seq(Msgs) /\ Len(u) = c + 1
      /\ \A i \in 1 .. c + 1 : u[i] = b2[RingAt(Dec(r), i - 1)]
  BY ContentSeq, <1>1, <1>2, ZenonT(60)
<1>5. \A i \in 2 .. c + 1 : /\ RingAt(Dec(r), i - 1) \in Slots
                            /\ RingAt(Dec(r), i - 1) = RingAt(r, (i - 1) - 1)
                            /\ RingAt(Dec(r), i - 1) # Dec(r)
  BY MBoxAssumption DEF RingAt, Dec, Slots
<1>6. \A i \in 2 .. c + 1 : b2[RingAt(Dec(r), i - 1)] = b[RingAt(r, (i - 1) - 1)]
  BY <1>5
<1>7. u[1] = m
  <2>1. RingAt(Dec(r), 1 - 1) = Dec(r)
    BY <1>1, MBoxAssumption DEF RingAt, Slots
  <2>2. 1 \in 1 .. c + 1
    BY <1>1
  <2>3. u[1] = b2[RingAt(Dec(r), 1 - 1)]
    BY <1>4, <2>2, Zenon
  <2>4. b2[Dec(r)] = m
    BY <1>1
  <2> QED
    BY <2>1, <2>3, <2>4
<1> HIDE DEF s, u, b2
<1>8. /\ <<m>> \o s \in Seq(Msgs) /\ Len(<<m>> \o s) = c + 1
      /\ (<<m>> \o s)[1] = m
      /\ \A i \in 2 .. c + 1 : (<<m>> \o s)[i] = s[i - 1]
  BY <1>1, <1>3
<1>9. ASSUME NEW i \in 2 .. c + 1 PROVE u[i] = (<<m>> \o s)[i]
  <2>1. i \in 1 .. c + 1 /\ i - 1 \in 1 .. c
    BY <1>1
  <2> QED
    BY <2>1, <1>3, <1>4, <1>6, <1>8, SMTT(60)
<1>10. \A i \in 1 .. c + 1 : u[i] = (<<m>> \o s)[i]
  BY <1>1, <1>7, <1>8, <1>9
<1>11. u = <<m>> \o s
  BY <1>4, <1>8, <1>10, SeqEqual
<1> QED
  BY <1>11, Zenon DEF s, u, b2

\* A fetch removes the first message.
LEMMA FetchContent ==
  ASSUME NEW b \in [Slots -> Msgs], NEW r \in Slots, NEW c \in 0 .. N, c > 0
  PROVE  /\ RingContent(b, r, c) # <<>>
         /\ RingContent(b, Inc(r), c - 1) = Tail(RingContent(b, r, c))
<1> DEFINE s == RingContent(b, r, c)
           u == RingContent(b, Inc(r), c - 1)
<1>1. Inc(r) \in Slots /\ c - 1 \in 0 .. N /\ c \in Nat
  BY MBoxAssumption DEF Inc, Slots
<1>2. /\ s \in Seq(Msgs) /\ Len(s) = c
      /\ \A i \in 1 .. c : s[i] = b[RingAt(r, i - 1)]
  BY ContentSeq
<1>3. /\ u \in Seq(Msgs) /\ Len(u) = c - 1
      /\ \A i \in 1 .. c - 1 : u[i] = b[RingAt(Inc(r), i - 1)]
  BY ContentSeq, <1>1
<1>4. \A i \in 1 .. c - 1 : RingAt(Inc(r), i - 1) = RingAt(r, (i + 1) - 1)
  BY MBoxAssumption DEF RingAt, Inc, Slots
<1> HIDE DEF s, u
<1>5. s # <<>> /\ Tail(s) \in Seq(Msgs) /\ Len(Tail(s)) = c - 1
      /\ \A i \in 1 .. c - 1 : Tail(s)[i] = s[i + 1]
  BY <1>1, <1>2
<1>6. ASSUME NEW i \in 1 .. c - 1 PROVE u[i] = Tail(s)[i]
  <2>1. i + 1 \in 1 .. c
    BY <1>1
  <2> QED
    BY <2>1, <1>2, <1>3, <1>4, <1>5, Zenon
<1>7. u = Tail(s)
  BY <1>3, <1>5, <1>6, SeqEqual, SMTT(60)
<1> QED
  BY <1>5, <1>7 DEF s, u

-----------------------------------------------------------------------------
(* Threads and queues *)

Calls == [at : {"out", "queued", "ready"},
          op : {"none", "post", "ahead", "fetch", "take"},
          msg : Msgs,
          rdymsg : {"MSG_OK", "MSG_TIMEOUT", "MSG_RESET"}]

\* A message to post comes with every wait of a writer.
Operation(op, m) == op = "fetch" \/ (op \in {"post", "ahead"} /\ m \in Messages)

CallsOK(ths) ==
  \A t \in Threads : ths[t].at # "out" => Operation(ths[t].op, ths[t].msg)

Writes == {"post", "ahead"}
Reads == {"fetch"}

\* The threads of a queue are in it once, for one of the operations ops.
QueueOK(ths, q, ops) ==
  /\ \A i \in 1 .. Len(q) : ths[q[i]].at = "queued" /\ ths[q[i]].op \in ops
  /\ \A i, j \in 1 .. Len(q) : q[i] = q[j] => i = j

\* Making the first thread of a queue ready keeps this queue and another.
LEMMA ReadyNextOK ==
  ASSUME NEW ths \in [Threads -> Calls],
         NEW q \in Seq(Threads), NEW p \in Seq(Threads), NEW ops, NEW others,
         ops \cap others = {}, QueueOK(ths, q, ops), QueueOK(ths, p, others)
  PROVE  /\ ReadyNext(ths, q) \in [Threads -> Calls]
         /\ CallsOK(ths) => CallsOK(ReadyNext(ths, q))
         /\ QTail(q) \in Seq(Threads)
         /\ QueueOK(ReadyNext(ths, q), QTail(q), ops)
         /\ QueueOK(ReadyNext(ths, q), p, others)
<1>1. CASE q = <<>>
  BY <1>1 DEF ReadyNext, QTail
<1>2. CASE q # <<>>
  <2> DEFINE h == Head(q)
             new == ReadyNext(ths, q)
  <2>1. h \in Threads /\ Len(q) \in Nat /\ Len(q) > 0 /\ h = q[1]
    BY <1>2
  <2>2. new = [ths EXCEPT ![h] = [ths[h] EXCEPT !.at = "ready"]]
    BY <1>2, <2>1 DEF ReadyNext
  <2>3. [ths[h] EXCEPT !.at = "ready"] \in Calls
    BY <2>1 DEF Calls
  <2>4. new \in [Threads -> Calls]
    BY <2>1, <2>2, <2>3
  <2>5. /\ \A t \in Threads : new[t].op = ths[t].op /\ new[t].msg = ths[t].msg
        /\ \A t \in Threads : t # h => new[t].at = ths[t].at
        /\ new[h].at = "ready"
    BY <2>1, <2>2 DEF Calls
  <2>6. ths[h].at = "queued" /\ ths[h].op \in ops
    BY <2>1 DEF QueueOK
  <2> HIDE DEF h, new
  <2>7. CallsOK(ths) => CallsOK(new)
    BY <2>1, <2>5, <2>6 DEF CallsOK
  <2>8. /\ Tail(q) \in Seq(Threads) /\ Len(Tail(q)) = Len(q) - 1
        /\ \A i \in 1 .. Len(q) - 1 : Tail(q)[i] = q[i + 1]
    BY <1>2
  <2>9. QueueOK(new, Tail(q), ops)
    <3>1. \A i \in 1 .. Len(q) - 1 : i + 1 \in 1 .. Len(q) /\ i + 1 # 1
      BY <2>1
    <3>2. \A i \in 1 .. Len(q) - 1 : q[i + 1] # h /\ q[i + 1] \in Threads
      BY <2>1, <3>1, SMTT(60) DEF QueueOK
    <3>3. \A i \in 1 .. Len(q) - 1 : new[q[i + 1]].at = "queued" /\ new[q[i + 1]].op \in ops
      BY <2>5, <3>1, <3>2 DEF QueueOK
    <3>4. \A i, j \in 1 .. Len(q) - 1 : q[i + 1] = q[j + 1] => i = j
      BY <2>1, <3>1 DEF QueueOK
    <3> QED
      BY <2>8, <3>3, <3>4 DEF QueueOK
  <2>10. QueueOK(new, p, others)
    <3>1. \A i \in 1 .. Len(p) : p[i] # h /\ p[i] \in Threads
      BY <2>6 DEF QueueOK
    <3> QED
      BY <2>5, <3>1 DEF QueueOK
  <2> QED
    BY <1>2, <2>4, <2>7, <2>8, <2>9, <2>10 DEF new, QTail
<1> QED
  BY <1>1, <1>2

\* A change of a thread that is not queued keeps the queues.
LEMMA QueueKept ==
  ASSUME NEW ths \in [Threads -> Calls], NEW t \in Threads, NEW call,
         NEW q \in Seq(Threads), NEW ops, QueueOK(ths, q, ops), ths[t].at # "queued"
  PROVE  QueueOK([ths EXCEPT ![t] = call], q, ops)
<1>1. \A i \in 1 .. Len(q) : q[i] # t /\ q[i] \in Threads
  BY DEF QueueOK
<1> QED
  BY <1>1 DEF QueueOK

\* A thread that is not queued may be.
LEMMA QueueGrows ==
  ASSUME NEW ths \in [Threads -> Calls], NEW t \in Threads, NEW call,
         NEW q \in Seq(Threads), NEW ops, QueueOK(ths, q, ops), ths[t].at # "queued",
         call.at = "queued", call.op \in ops
  PROVE  /\ Append(q, t) \in Seq(Threads)
         /\ QueueOK([ths EXCEPT ![t] = call], Append(q, t), ops)
<1> DEFINE new == [ths EXCEPT ![t] = call]
           a == Append(q, t)
<1>1. \A i \in 1 .. Len(q) : q[i] # t /\ q[i] \in Threads
  BY DEF QueueOK
<1>2. /\ a \in Seq(Threads) /\ Len(a) = Len(q) + 1 /\ Len(q) \in Nat
      /\ \A i \in 1 .. Len(q) : a[i] = q[i]
      /\ a[Len(q) + 1] = t
  OBVIOUS
<1>3. new[t].at = "queued" /\ new[t].op \in ops
  OBVIOUS
<1>4. \A i \in 1 .. Len(q) : new[q[i]].at = "queued" /\ new[q[i]].op \in ops
  BY <1>1 DEF QueueOK
<1> HIDE DEF new, a
<1>5. \A i \in 1 .. Len(a) : i \in 1 .. Len(q) \/ i = Len(q) + 1
  BY <1>2
<1>6. \A i \in 1 .. Len(a) : new[a[i]].at = "queued" /\ new[a[i]].op \in ops
  BY <1>2, <1>3, <1>4, <1>5
<1>7. \A i, j \in 1 .. Len(a) : a[i] = a[j] => i = j
  BY <1>1, <1>2, <1>5, SMTT(60) DEF QueueOK
<1> QED
  BY <1>2, <1>6, <1>7 DEF QueueOK, new, a

\* A thread that times out leaves its queue.
LEMMA WithoutOK ==
  ASSUME NEW ths \in [Threads -> Calls], NEW t \in Threads, NEW call,
         NEW q \in Seq(Threads), NEW ops, QueueOK(ths, q, ops)
  PROVE  LET new == [ths EXCEPT ![t] = call]
             rest == IF InQueue(q, t) THEN Without(q, t) ELSE q
         IN  /\ rest \in Seq(Threads)
             /\ QueueOK(new, rest, ops)
             /\ rest # <<>> => q # <<>>
<1> DEFINE new == [ths EXCEPT ![t] = call]
<1>1. CASE ~InQueue(q, t)
  <2>1. \A i \in 1 .. Len(q) : q[i] # t /\ q[i] \in Threads
    BY <1>1 DEF InQueue
  <2> QED
    BY <1>1, <2>1 DEF QueueOK
<1>2. CASE InQueue(q, t)
  <2> DEFINE n == CHOOSE i \in DOMAIN q : q[i] = t
             w == Without(q, t)
  <2>1. n \in 1 .. Len(q) /\ q[n] = t
    BY <1>2 DEF InQueue
  <2>2. w = [i \in 1 .. Len(q) - 1 |-> IF i < n THEN q[i] ELSE q[i + 1]]
    BY DEF Without
  <2> HIDE DEF n, w
  <2>3. Len(q) \in Nat /\ Len(q) - 1 \in Nat
    BY <2>1
  <2> DEFINE at(i) == IF i < n THEN i ELSE i + 1
  <2>4. \A i \in 1 .. Len(q) - 1 : at(i) \in 1 .. Len(q) /\ at(i) # n
    BY <2>1, <2>3
  <2>5. \A i \in 1 .. Len(q) - 1 : w[i] = q[at(i)]
    BY <2>2
  <2>6. \A i, j \in 1 .. Len(q) - 1 : at(i) = at(j) => i = j
    BY <2>1, <2>3
  <2> HIDE DEF at
  <2>7. \A i \in 1 .. Len(q) - 1 : q[at(i)] \in Threads /\ q[at(i)] # t
    BY <2>1, <2>4 DEF QueueOK
  <2>8. w \in Seq(Threads) /\ Len(w) = Len(q) - 1
    <3>1. \A i \in 1 .. Len(q) - 1 : w[i] \in Threads
      BY <2>5, <2>7
    <3> QED
      BY <2>2, <2>3, <3>1
  <2>9. \A i \in 1 .. Len(w) : new[w[i]].at = "queued" /\ new[w[i]].op \in ops
    BY <2>4, <2>5, <2>7, <2>8, SMTT(60) DEF QueueOK
  <2>10. \A i, j \in 1 .. Len(w) : w[i] = w[j] => i = j
    <3> TAKE i, j \in 1 .. Len(w)
    <3> HAVE w[i] = w[j]
    <3>1. q[at(i)] = q[at(j)] /\ at(i) \in 1 .. Len(q) /\ at(j) \in 1 .. Len(q)
      BY <2>4, <2>5, <2>8
    <3>2. at(i) = at(j)
      BY <3>1 DEF QueueOK
    <3> QED
      BY <3>2, <2>6, <2>8
  <2>11. QueueOK(new, w, ops)
    BY <2>9, <2>10 DEF QueueOK
  <2>12. q # <<>>
    BY <2>1
  <2> QED
    BY <1>2, <2>8, <2>11, <2>12 DEF w
<1> QED
  BY <1>1, <1>2

-----------------------------------------------------------------------------
(* The invariant *)

\* The write pointer is cnt slots behind the read pointer; the queues hold
\* threads that wait in them, and none during a reset.
MBoxInv ==
  /\ MBoxTypeOK
  /\ wrptr = RingAt(rdptr, cnt)
  /\ CallsOK(th)
  /\ QueueOK(th, qw, Writes)
  /\ QueueOK(th, qr, Reads)
  /\ reset => qw = <<>> /\ qr = <<>>

RingOK ==
  /\ buffer \in [Slots -> Msgs]
  /\ rdptr \in Slots /\ cnt \in 0 .. N
  /\ wrptr \in Slots /\ wrptr = RingAt(rdptr, cnt)

ThreadsOK ==
  /\ th \in [Threads -> Calls] /\ CallsOK(th)
  /\ qw \in Seq(Threads) /\ QueueOK(th, qw, Writes)
  /\ qr \in Seq(Threads) /\ QueueOK(th, qr, Reads)

\* Its parts.
LEMMA MBoxParts ==
  MBoxInv <=> /\ RingOK /\ ThreadsOK /\ reset \in BOOLEAN
              /\ reset => qw = <<>> /\ qr = <<>>
BY DEF MBoxInv, MBoxTypeOK, RingOK, ThreadsOK, Calls, Msgs

\* The same after a step.
LEMMA MBoxPartsNext ==
  ASSUME RingOK', ThreadsOK', reset' \in BOOLEAN,
         reset' => qw' = <<>> /\ qr' = <<>>
  PROVE  MBoxInv'
BY DEF MBoxInv, MBoxTypeOK, RingOK, ThreadsOK, Calls, Msgs

Content == RingContent(buffer, rdptr, cnt)

\* The content of the refinement mapping is the content of the ring.
LEMMA ContentIs ==
  /\ [i \in 1 .. cnt |-> buffer[At(i - 1)]] = Content
  /\ ([i \in 1 .. cnt |-> buffer[At(i - 1)]])' = Content'
BY DEF Content, RingContent, RingAt, At

\* The content after an operation.
ContentAfter(op, m) ==
  IF op = "post" THEN Append(Content, m)
  ELSE IF op = "ahead" THEN <<m>> \o Content
  ELSE Tail(Content)

\* An operation on the ring is an operation on the queue.
LEMMA MoveStep ==
  ASSUME RingOK, NEW op, NEW m, Operation(op, m), Possible(op), Moved(op, m)
  PROVE  /\ RingOK' /\ Deque!Next
         /\ Content' = ContentAfter(op, m)
         /\ op = "fetch" => Content # <<>>
<1> USE MBoxAssumption DEF RingOK
<1>1. CASE op = "post"
  <2>1. m \in Messages /\ cnt < N
    BY <1>1 DEF Operation, Possible
  <2>2. /\ buffer' = [buffer EXCEPT ![RingAt(rdptr, cnt)] = m]
        /\ wrptr' = Inc(wrptr) /\ cnt' = cnt + 1 /\ rdptr' = rdptr
    BY <1>1 DEF Moved
  <2>3. buffer' \in [Slots -> Msgs] /\ rdptr' \in Slots
    BY <2>1, <2>2 DEF Msgs
  <2>4. cnt' \in 0 .. N /\ wrptr' \in Slots /\ wrptr' = RingAt(rdptr', cnt')
    BY <2>1, <2>2 DEF RingAt, Inc, Slots
  <2>5. Content' = Append(Content, m)
    BY <2>1, <2>2, PostContent, ZenonT(60) DEF Content
  <2>6. Len(Content) < N
    BY <2>1, ContentSeq DEF Content
  <2>7. Deque!Post(m)
    BY <2>5, <2>6, ContentIs, Zenon DEF Deque!Post
  <2> QED
    BY <1>1, <2>1, <2>3, <2>4, <2>5, <2>7 DEF Deque!Next, ContentAfter
<1>2. CASE op = "ahead"
  <2>1. m \in Messages /\ cnt < N
    BY <1>2 DEF Operation, Possible
  <2>2. /\ buffer' = [buffer EXCEPT ![Dec(rdptr)] = m]
        /\ wrptr' = wrptr /\ cnt' = cnt + 1 /\ rdptr' = Dec(rdptr)
    BY <1>2 DEF Moved
  <2>3. buffer' \in [Slots -> Msgs] /\ rdptr' \in Slots
    BY <2>1, <2>2 DEF Msgs, Dec, Slots
  <2>4. cnt' \in 0 .. N /\ wrptr' \in Slots /\ wrptr' = RingAt(rdptr', cnt')
    BY <2>1, <2>2, SMTT(60) DEF RingAt, Dec, Slots
  <2>5. Content' = <<m>> \o Content
    BY <2>1, <2>2, AheadContent, Zenon DEF Content
  <2>6. Len(Content) < N
    BY <2>1, ContentSeq DEF Content
  <2>7. Deque!PostAhead(m)
    BY <2>5, <2>6, ContentIs, Zenon DEF Deque!PostAhead
  <2> QED
    BY <1>2, <2>1, <2>3, <2>4, <2>5, <2>7 DEF Deque!Next, ContentAfter
<1>3. CASE op = "fetch"
  <2>1. cnt > 0
    BY <1>3 DEF Possible
  <2>2. buffer' = buffer /\ wrptr' = wrptr /\ cnt' = cnt - 1 /\ rdptr' = Inc(rdptr)
    BY <1>3 DEF Moved
  <2>3. rdptr' \in Slots /\ cnt' \in 0 .. N /\ wrptr' = RingAt(rdptr', cnt')
    BY <2>1, <2>2 DEF RingAt, Inc, Slots
  <2>4. Content # <<>> /\ Content' = Tail(Content)
    BY <2>1, <2>2, FetchContent, Zenon DEF Content
  <2>5. Deque!Fetch
    BY <2>4, ContentIs, Zenon DEF Deque!Fetch
  <2> QED
    BY <1>3, <2>2, <2>3, <2>4, <2>5 DEF Deque!Next, ContentAfter
<1> QED
  BY <1>1, <1>2, <1>3 DEF Operation

-----------------------------------------------------------------------------
(* The steps *)

\* What a step does for the invariant and for the queue.
Good == MBoxInv' /\ (Deque!Next \/ Content' = Content)

\* A step that leaves the ring alone leaves the content.
LEMMA RingKept ==
  ASSUME RingOK, UNCHANGED <<buffer, rdptr, wrptr, cnt>>
  PROVE  RingOK' /\ Content' = Content
BY DEF RingOK, Content

\* A thread outside of the mailbox.
LEMMA OutIsCall == Out \in Calls /\ Out.at = "out"
BY DEF Out, Calls, Msgs

\* A successful operation, with ths the threads before it.
LEMMA TransferGood ==
  ASSUME MBoxInv, NEW op, NEW m, Operation(op, m), NEW ths \in [Threads -> Calls],
         CallsOK(ths), QueueOK(ths, qw, Writes), QueueOK(ths, qr, Reads),
         Transfer(op, m, ths)
  PROVE  Good
<1>1. RingOK /\ qw \in Seq(Threads) /\ qr \in Seq(Threads) /\ ~reset
  BY MBoxParts DEF ThreadsOK, Transfer
<1>2. RingOK' /\ Deque!Next
  BY <1>1, MoveStep DEF Transfer
<1>3. Writes \cap Reads = {} /\ Reads \cap Writes = {}
  BY DEF Writes, Reads
<1>4. ThreadsOK'
  <2>1. CASE op = "fetch"
    <3>1. th' = ReadyNext(ths, qw) /\ qw' = QTail(qw) /\ qr' = qr
      BY <2>1 DEF Transfer
    <3>2. /\ th' \in [Threads -> Calls] /\ CallsOK(th') /\ qw' \in Seq(Threads)
          /\ QueueOK(th', qw', Writes) /\ QueueOK(th', qr', Reads)
      BY <1>1, <1>3, <3>1, ReadyNextOK
    <3> QED
      BY <1>1, <3>1, <3>2 DEF ThreadsOK
  <2>2. CASE op # "fetch"
    <3>1. th' = ReadyNext(ths, qr) /\ qr' = QTail(qr) /\ qw' = qw
      BY <2>2 DEF Transfer
    <3>2. /\ th' \in [Threads -> Calls] /\ CallsOK(th') /\ qr' \in Seq(Threads)
          /\ QueueOK(th', qr', Reads) /\ QueueOK(th', qw', Writes)
      BY <1>1, <1>3, <3>1, ReadyNextOK
    <3> QED
      BY <1>1, <3>1, <3>2 DEF ThreadsOK
  <2> QED
    BY <2>1, <2>2
<1>5. reset' = FALSE
  BY <1>1 DEF Transfer
<1>6. MBoxInv'
  BY <1>2, <1>4, <1>5, MBoxPartsNext, Zenon
<1> QED
  BY <1>2, <1>6 DEF Good

\* A thread that is not queued returns.
LEMMA ReturnGood ==
  ASSUME MBoxInv, NEW t \in Threads, th[t].at # "queued",
         th' = [th EXCEPT ![t] = Out], UNCHANGED <<ringvars, qw, qr>>
  PROVE  Good
<1>1. RingOK /\ ThreadsOK /\ reset \in BOOLEAN /\ (reset => qw = <<>> /\ qr = <<>>)
  BY MBoxParts
<1>2. RingOK' /\ Content' = Content /\ reset' = reset /\ qw' = qw /\ qr' = qr
  BY <1>1, RingKept DEF ringvars
<1>3. QueueOK(th', qw, Writes) /\ QueueOK(th', qr, Reads)
  BY <1>1, QueueKept, Zenon DEF ThreadsOK
<1>4. th' \in [Threads -> Calls] /\ CallsOK(th')
  BY <1>1, OutIsCall DEF ThreadsOK, CallsOK
<1>5. ThreadsOK'
  BY <1>1, <1>2, <1>3, <1>4 DEF ThreadsOK
<1> QED
  BY <1>1, <1>2, <1>5, MBoxPartsNext DEF Good

\* A thread that is not queued waits.
LEMMA EnqueueGood ==
  ASSUME MBoxInv, NEW t \in Threads, th[t].at # "queued", ~reset,
         NEW op, NEW m \in Msgs, Operation(op, m), Enqueue(t, op, m)
  PROVE  Good
<1>1. RingOK /\ ThreadsOK /\ reset = FALSE
  BY MBoxParts
<1>2. RingOK' /\ Content' = Content /\ reset' = FALSE
  BY <1>1, RingKept DEF Enqueue, ringvars
<1> DEFINE call == Queued(op, m)
<1>3. /\ call \in Calls /\ call.at = "queued" /\ call.op = op /\ call.msg = m
  BY DEF Queued, Calls, Operation
<1> HIDE DEF call
<1>4. th' = [th EXCEPT ![t] = call]
  BY DEF Enqueue, call
<1>5. th' \in [Threads -> Calls] /\ CallsOK(th')
  BY <1>1, <1>3, <1>4, SMTT(60) DEF ThreadsOK, CallsOK
<1>6. CASE op = "fetch"
  <2>1. qr' = Append(qr, t) /\ qw' = qw
    BY <1>6 DEF Enqueue
  <2>2. op \in Reads
    BY <1>6 DEF Reads
  <2>3. qr' \in Seq(Threads) /\ QueueOK(th', qr', Reads)
    BY <1>1, <1>3, <1>4, <2>1, <2>2, QueueGrows, Zenon DEF ThreadsOK
  <2>4. QueueOK(th', qw', Writes)
    BY <1>1, <1>4, <2>1, QueueKept, Zenon DEF ThreadsOK
  <2>5. ThreadsOK'
    BY <1>1, <1>5, <2>1, <2>3, <2>4 DEF ThreadsOK
  <2> QED
    BY <1>2, <2>5, MBoxPartsNext, Zenon DEF Good
<1>7. CASE op # "fetch"
  <2>1. qw' = Append(qw, t) /\ qr' = qr
    BY <1>7 DEF Enqueue
  <2>2. op \in Writes
    BY <1>7 DEF Writes, Operation
  <2>3. qw' \in Seq(Threads) /\ QueueOK(th', qw', Writes)
    BY <1>1, <1>3, <1>4, <2>1, <2>2, QueueGrows, Zenon DEF ThreadsOK
  <2>4. QueueOK(th', qr', Reads)
    BY <1>1, <1>4, <2>1, QueueKept, Zenon DEF ThreadsOK
  <2>5. ThreadsOK'
    BY <1>1, <1>5, <2>1, <2>3, <2>4 DEF ThreadsOK
  <2> QED
    BY <1>2, <2>5, MBoxPartsNext, Zenon DEF Good
<1> QED
  BY <1>6, <1>7

\* One round of the loops of post and fetch.
LEMMA AttemptGood ==
  ASSUME MBoxInv, NEW t \in Threads, th[t].at # "queued",
         NEW op, NEW m \in Msgs, Operation(op, m), Attempt(t, op, m)
  PROVE  Good
<1>1. CASE reset /\ th' = [th EXCEPT ![t] = Out] /\ UNCHANGED <<ringvars, qw, qr>>
  BY <1>1, ReturnGood, Zenon
<1>2. CASE Transfer(op, m, [th EXCEPT ![t] = Out])
  <2>1. ThreadsOK
    BY MBoxParts
  <2>2. /\ QueueOK([th EXCEPT ![t] = Out], qw, Writes)
        /\ QueueOK([th EXCEPT ![t] = Out], qr, Reads)
    BY <2>1, QueueKept, Zenon DEF ThreadsOK
  <2>3. [th EXCEPT ![t] = Out] \in [Threads -> Calls] /\ CallsOK([th EXCEPT ![t] = Out])
    BY <2>1, OutIsCall DEF ThreadsOK, CallsOK
  <2> QED
    BY <1>2, <2>2, <2>3, TransferGood, Zenon
<1>3. CASE ~reset /\ ~Possible(op) /\ Enqueue(t, op, m)
  BY <1>3, EnqueueGood
<1> QED
  BY <1>1, <1>2, <1>3 DEF Attempt

\* A timeout.
LEMMA TimeoutGood ==
  ASSUME MBoxInv, NEW t \in Threads, Timeout(t)
  PROVE  Good
<1>1. RingOK /\ ThreadsOK /\ reset \in BOOLEAN /\ (reset => qw = <<>> /\ qr = <<>>)
  BY MBoxParts
<1>2. RingOK' /\ Content' = Content /\ reset' = reset
  BY <1>1, RingKept DEF Timeout, ringvars
<1> DEFINE call == [th[t] EXCEPT !.at = "ready", !.rdymsg = "MSG_TIMEOUT"]
<1>3. call \in Calls /\ call.op = th[t].op /\ call.msg = th[t].msg
  BY <1>1, Zenon DEF ThreadsOK, Calls
<1>4. th' = [th EXCEPT ![t] = call]
  BY <1>1, Zenon DEF Timeout, ThreadsOK, Calls
<1> HIDE DEF call
<1>5. th' \in [Threads -> Calls] /\ CallsOK(th')
  <2>1. Operation(th[t].op, th[t].msg)
    BY <1>1 DEF ThreadsOK, CallsOK, Timeout
  <2> QED
    BY <1>1, <1>3, <1>4, <2>1 DEF ThreadsOK, CallsOK
<1>6. /\ qr' = IF InQueue(qr, t) THEN Without(qr, t) ELSE qr
      /\ qw' = IF InQueue(qw, t) THEN Without(qw, t) ELSE qw
  BY DEF Timeout
<1>7. qr' \in Seq(Threads) /\ QueueOK(th', qr', Reads) /\ (qr' # <<>> => qr # <<>>)
  BY <1>1, <1>4, <1>6, WithoutOK, Zenon DEF ThreadsOK
<1>8. qw' \in Seq(Threads) /\ QueueOK(th', qw', Writes) /\ (qw' # <<>> => qw # <<>>)
  BY <1>1, <1>4, <1>6, WithoutOK, Zenon DEF ThreadsOK
<1>9. ThreadsOK'
  BY <1>5, <1>7, <1>8 DEF ThreadsOK
<1> QED
  BY <1>1, <1>2, <1>7, <1>8, <1>9, MBoxPartsNext DEF Good

\* A reset empties the queue, and lets every thread return.
LEMMA ResetGood ==
  ASSUME MBoxInv, chMBResetI
  PROVE  Good
<1>1. RingOK /\ ThreadsOK
  BY MBoxParts
<1>2. RingOK' /\ Content' = <<>>
  <2>1. buffer' = buffer /\ rdptr' = 0 /\ wrptr' = 0 /\ cnt' = 0
    BY DEF chMBResetI
  <2>2. RingOK'
    BY <1>1, <2>1, MBoxAssumption DEF RingOK, RingAt, Slots
  <2>3. Content' \in Seq(Msgs) /\ Len(Content') = 0
    BY <2>1, <2>2, ContentSeq DEF RingOK, Content
  <2> QED
    BY <2>2, <2>3
<1>3. Deque!Next
  BY <1>2, ContentIs DEF Deque!Next, Deque!Reset
<1>4. th' \in [Threads -> Calls] /\ CallsOK(th')
  <2>1. th' = [t \in Threads |-> IF InQueue(qw, t) \/ InQueue(qr, t)
                 THEN [th[t] EXCEPT !.at = "ready", !.rdymsg = "MSG_RESET"] ELSE th[t]]
    BY Zenon DEF chMBResetI, ReadyAll
  <2>2. \A t \in Threads : th[t] \in Calls
    BY <1>1 DEF ThreadsOK
  <2>3. \A t \in Threads :
          LET call == [th[t] EXCEPT !.at = "ready", !.rdymsg = "MSG_RESET"]
          IN  call \in Calls /\ call.op = th[t].op /\ call.msg = th[t].msg
    BY <2>2, ZenonT(60) DEF Calls
  <2>4. \A t \in Threads : InQueue(qw, t) \/ InQueue(qr, t) => th[t].at = "queued"
    BY <1>1 DEF ThreadsOK, InQueue, QueueOK
  <2>5. \A t \in Threads : /\ th'[t] \in Calls
                           /\ th'[t].op = th[t].op /\ th'[t].msg = th[t].msg
                           /\ th'[t].at # "out" => th[t].at # "out"
    BY <2>1, <2>2, <2>3, <2>4, Zenon
  <2>6. th' \in [Threads -> Calls]
    BY <2>1, <2>2, <2>3, Zenon
  <2> QED
    BY <1>1, <2>5, <2>6, SMTT(60) DEF CallsOK, ThreadsOK
<1>5. ThreadsOK' /\ qw' = <<>> /\ qr' = <<>> /\ reset' = TRUE
  <2>1. qw' = <<>> /\ qr' = <<>> /\ reset' = TRUE
    BY DEF chMBResetI
  <2>2. QueueOK(th', qw', Writes) /\ QueueOK(th', qr', Reads)
    BY <2>1 DEF QueueOK
  <2> QED
    BY <1>4, <2>1, <2>2 DEF ThreadsOK
<1> QED
  BY <1>2, <1>3, <1>5, MBoxPartsNext DEF Good

\* Every step keeps the invariant, and is a step of the queue or leaves it.
LEMMA StepGood ==
  ASSUME MBoxInv, [MBoxNext]_mboxvars
  PROVE  Good
<1>1. RingOK /\ ThreadsOK /\ reset \in BOOLEAN /\ (reset => qw = <<>> /\ qr = <<>>)
  BY MBoxParts
<1>2. \A r \in Requests : Operation(r[1], r[2]) /\ r[2] \in Msgs
  BY DEF Requests, Operation, Msgs
<1>3. ASSUME NEW r \in Requests, CallI(r[1], r[2])
      PROVE  Good
  BY <1>1, <1>2, <1>3, TransferGood DEF CallI, ThreadsOK
<1>4. ASSUME NEW r \in Requests, NEW t \in Threads, Call(t, r[1], r[2])
      PROVE  Good
  BY <1>2, <1>4, AttemptGood DEF Call
<1>5. ASSUME NEW t \in Threads, Continue(t)
      PROVE  Good
  <2>1. th[t] \in Calls /\ th[t].at = "ready"
    BY <1>1, <1>5 DEF ThreadsOK, Continue
  <2>2. Operation(th[t].op, th[t].msg) /\ th[t].msg \in Msgs
    BY <1>1, <2>1, SMTT(60) DEF ThreadsOK, CallsOK, Calls
  <2>3. CASE th[t].rdymsg = "MSG_OK"
    BY <1>5, <2>1, <2>2, <2>3, AttemptGood DEF Continue
  <2>4. CASE th[t].rdymsg # "MSG_OK"
    BY <1>5, <2>1, <2>4, ReturnGood DEF Continue
  <2> QED
    BY <2>3, <2>4
<1>6. ASSUME NEW t \in Threads, Timeout(t)
      PROVE  Good
  BY <1>6, TimeoutGood
<1>7. CASE chMBResetI
  BY <1>7, ResetGood
<1>8. CASE chMBResumeX
  <2>1. reset' = FALSE /\ UNCHANGED <<buffer, rdptr, wrptr, cnt, qw, qr, th>>
    BY <1>8 DEF chMBResumeX
  <2>2. RingOK' /\ Content' = Content
    BY <1>1, <2>1, RingKept
  <2>3. ThreadsOK'
    BY <1>1, <2>1 DEF ThreadsOK
  <2> QED
    BY <2>1, <2>2, <2>3, MBoxPartsNext, Zenon DEF Good
<1>9. CASE UNCHANGED mboxvars
  <2>1. /\ UNCHANGED <<buffer, rdptr, wrptr, cnt>>
        /\ qw' = qw /\ qr' = qr /\ th' = th /\ reset' = reset
    BY <1>9 DEF mboxvars, ringvars
  <2>2. RingOK' /\ Content' = Content
    BY <1>1, <2>1, RingKept
  <2>3. ThreadsOK'
    BY <1>1, <2>1 DEF ThreadsOK
  <2> QED
    BY <1>1, <2>1, <2>2, <2>3, MBoxPartsNext DEF Good
<1> QED
  BY <1>3, <1>4, <1>5, <1>6, <1>7, <1>8, <1>9 DEF MBoxNext

-----------------------------------------------------------------------------
(* Theorems *)

\* The invariant holds at first, with an empty mailbox.
LEMMA InitGood == MBoxInit => MBoxInv /\ Content = <<>>
<1> SUFFICES ASSUME MBoxInit PROVE MBoxInv /\ Content = <<>>
  OBVIOUS
<1>1. RingOK
  BY MBoxAssumption DEF MBoxInit, RingOK, RingAt, Slots, Msgs
<1>2. ThreadsOK
  BY OutIsCall DEF MBoxInit, ThreadsOK, CallsOK, QueueOK
<1>3. Content \in Seq(Msgs) /\ Len(Content) = 0
  BY <1>1, ContentSeq DEF MBoxInit, RingOK, Content
<1>4. Content = <<>>
  BY <1>3
<1>5. reset = FALSE /\ qw = <<>> /\ qr = <<>>
  BY DEF MBoxInit
<1>6. MBoxInv
  BY <1>1, <1>2, <1>5, MBoxParts, Zenon
<1> QED
  BY <1>4, <1>6

\* The invariant holds, for any number of threads, slots and messages.
THEOREM MBoxInvariant == MBoxSpec => []MBoxInv
<1>1. MBoxInv /\ [MBoxNext]_mboxvars => MBoxInv'
  BY StepGood DEF Good
<1> QED
  BY InitGood, <1>1, PTL DEF MBoxSpec

\* The pointers of the mailbox stay in the buffer and its counter between zero
\* and the number of slots, and the other fields keep their types.
THEOREM MBoxTypeCorrectness == MBoxSpec => []MBoxTypeOK
<1>1. MBoxInv => MBoxTypeOK
  BY DEF MBoxInv
<1> QED
  BY MBoxInvariant, <1>1, PTL

\* The mailbox is a bounded queue with two ends: the ring of chmboxes.c loses,
\* repeats, overwrites and reorders nothing.
THEOREM MBoxRefinement == MBoxSpec => IsDeque
<1>1. MBoxInit => Deque!Init
  BY InitGood, ContentIs DEF Deque!Init
<1>2. MBoxInv /\ [MBoxNext]_mboxvars
        => [Deque!Next]_([i \in 1 .. cnt |-> buffer[At(i - 1)]])
  BY StepGood, ContentIs, Zenon DEF Good
<1> QED
  BY MBoxInvariant, <1>1, <1>2, PTL DEF MBoxSpec, IsDeque, Deque!Spec

-----------------------------------------------------------------------------
(* Wakeups *)

\* The threads of ths that were made ready for one of the operations ops.
ServedIn(ths, ops) ==
  {t \in Threads : ths[t].at = "ready" /\ ths[t].op \in ops /\ ths[t].rdymsg = "MSG_OK"}

\* A queued thread is to read MSG_OK unless something else wakes it.
QueuedOK(ths) == \A t \in Threads : ths[t].at = "queued" => ths[t].rdymsg = "MSG_OK"

Wakes(ths, q, ops, n) == q # <<>> => n <= Cardinality(ServedIn(ths, ops))

\* No wakeup is lost, in these terms.
LEMMA WakeupIs ==
  NoLostWakeup <=> Wakes(th, qr, Reads, cnt) /\ Wakes(th, qw, Writes, N - cnt)
BY DEF NoLostWakeup, Wakes, Served, ServedIn, Reads, Writes

\* The same after a step.
LEMMA WakeupNext ==
  ASSUME Wakes(th', qr', Reads, cnt'), Wakes(th', qw', Writes, N - cnt')
  PROVE  NoLostWakeup'
BY DEF NoLostWakeup, Wakes, Served, ServedIn, Reads, Writes

\* They are finitely many.
LEMMA ServedFinite ==
  ASSUME NEW ths, NEW ops
  PROVE  IsFiniteSet(ServedIn(ths, ops)) /\ Cardinality(ServedIn(ths, ops)) \in Nat
<1>1. ServedIn(ths, ops) \subseteq Threads
  BY DEF ServedIn
<1>2. IsFiniteSet(Threads)
  BY MBoxAssumption
<1>3. IsFiniteSet(ServedIn(ths, ops))
  BY <1>1, <1>2, FS_Subset
<1> QED
  BY <1>3, FS_CardinalityType

\* Making the first thread of a queue ready adds one, and only to its operation.
LEMMA ReadyCounts ==
  ASSUME NEW ths \in [Threads -> Calls], QueuedOK(ths),
         NEW q \in Seq(Threads), NEW ops, NEW others, ops \cap others = {},
         QueueOK(ths, q, ops)
  PROVE  /\ q # <<>> => Cardinality(ServedIn(ReadyNext(ths, q), ops))
                          = Cardinality(ServedIn(ths, ops)) + 1
         /\ ServedIn(ReadyNext(ths, q), others) = ServedIn(ths, others)
         /\ QueuedOK(ReadyNext(ths, q))
<1>1. CASE q = <<>>
  BY <1>1 DEF ReadyNext
<1>2. CASE q # <<>>
  <2> DEFINE h == Head(q)
             new == ReadyNext(ths, q)
  <2>1. h \in Threads /\ ths[h].at = "queued" /\ ths[h].op \in ops
    <3>1. h \in Threads /\ h = q[1] /\ 1 \in 1 .. Len(q)
      BY <1>2
    <3> QED
      BY <3>1 DEF QueueOK
  <2>2. new = [ths EXCEPT ![h] = [ths[h] EXCEPT !.at = "ready"]]
    BY <1>2, <2>1 DEF ReadyNext
  <2>3. /\ \A t \in Threads : new[t].op = ths[t].op /\ new[t].rdymsg = ths[t].rdymsg
        /\ \A t \in Threads : t # h => new[t].at = ths[t].at
        /\ new[h].at = "ready"
    BY <2>1, <2>2 DEF Calls
  <2> HIDE DEF h, new
  <2>4. ths[h].rdymsg = "MSG_OK" /\ h \notin ServedIn(ths, ops)
    BY <2>1 DEF QueuedOK, ServedIn
  <2>5. ServedIn(new, ops) = ServedIn(ths, ops) \cup {h}
    BY <2>1, <2>3, <2>4, SMTT(60) DEF ServedIn
  <2>6. Cardinality(ServedIn(new, ops)) = Cardinality(ServedIn(ths, ops)) + 1
    BY <2>4, <2>5, ServedFinite, FS_AddElement, Zenon
  <2>7. ServedIn(new, others) = ServedIn(ths, others)
    BY <2>1, <2>3 DEF ServedIn
  <2>8. QueuedOK(new)
    BY <2>3 DEF QueuedOK
  <2> QED
    BY <2>6, <2>7, <2>8, SMTT(60) DEF new
<1> QED
  BY <1>1, <1>2

\* A thread that stops being ready takes at most one away.
LEMMA TouchCounts ==
  ASSUME NEW ths, NEW new, NEW t \in Threads, new[t].at # "ready",
         \A x \in Threads : x # t => new[x] = ths[x],
         NEW ops
  PROVE  /\ Cardinality(ServedIn(new, ops)) >= Cardinality(ServedIn(ths, ops)) - 1
         /\ t \notin ServedIn(ths, ops) => ServedIn(new, ops) = ServedIn(ths, ops)
<1>2. ServedIn(new, ops) = ServedIn(ths, ops) \ {t}
  BY DEF ServedIn
<1>3. CASE t \in ServedIn(ths, ops)
  <2>1. Cardinality(ServedIn(new, ops)) = Cardinality(ServedIn(ths, ops)) - 1
    BY <1>2, <1>3, ServedFinite, FS_RemoveElement, Zenon
  <2> QED
    BY <1>3, <2>1, ServedFinite
<1>4. CASE t \notin ServedIn(ths, ops)
  <2>1. ServedIn(new, ops) = ServedIn(ths, ops)
    BY <1>2, <1>4
  <2>2. Cardinality(ServedIn(new, ops)) = Cardinality(ServedIn(ths, ops))
    BY <2>1
  <2> QED
    BY <1>4, <2>1, <2>2, ServedFinite
<1> QED
  BY <1>3, <1>4

-----------------------------------------------------------------------------
(* The steps *)

WakeInv == MBoxInv /\ QueuedOK(th) /\ NoLostWakeup

\* What is left of it to prove, MBoxInv being kept.
Woken == QueuedOK(th') /\ NoLostWakeup'

\* A successful operation wakes one thread of the other side, and takes from
\* its own side what it has made ready for at most one.
LEMMA TransferWakes ==
  ASSUME WakeInv, NEW op, NEW m, Operation(op, m), NEW ths \in [Threads -> Calls],
         QueuedOK(ths), QueueOK(ths, qw, Writes), QueueOK(ths, qr, Reads),
         \A ops \in {Reads, Writes} :
           Cardinality(ServedIn(ths, ops)) >= Cardinality(ServedIn(th, ops)) - 1,
         op = "fetch" => ServedIn(ths, Writes) = ServedIn(th, Writes),
         op # "fetch" => ServedIn(ths, Reads) = ServedIn(th, Reads),
         Transfer(op, m, ths)
  PROVE  Woken
<1>1. /\ qw \in Seq(Threads) /\ qr \in Seq(Threads) /\ cnt \in Int /\ N \in Int
  BY MBoxParts, MBoxAssumption DEF WakeInv, ThreadsOK, RingOK
<1>2. Writes \cap Reads = {} /\ Reads \cap Writes = {}
  BY DEF Writes, Reads
<1>3. /\ Wakes(th, qr, Reads, cnt) /\ Wakes(th, qw, Writes, N - cnt)
  BY WakeupIs DEF WakeInv
<1>4. CASE op = "fetch"
  <2>1. th' = ReadyNext(ths, qw) /\ qw' = QTail(qw) /\ qr' = qr /\ cnt' = cnt - 1
    BY <1>4 DEF Transfer, Moved
  <2>2. /\ qw # <<>> => Cardinality(ServedIn(th', Writes)) = Cardinality(ServedIn(ths, Writes)) + 1
        /\ ServedIn(th', Reads) = ServedIn(ths, Reads)
        /\ QueuedOK(th')
    BY <1>1, <1>2, <2>1, ReadyCounts, SMTT(60)
  <2>3. Wakes(th', qr', Reads, cnt')
    BY <1>1, <1>3, <2>1, <2>2, ServedFinite, SMTT(60) DEF Wakes
  <2>4. qw' # <<>> => qw # <<>>
    BY <2>1 DEF QTail
  <2>5. Wakes(th', qw', Writes, N - cnt')
    BY <1>1, <1>3, <1>4, <2>1, <2>2, <2>4, ServedFinite, SMTT(60) DEF Wakes
  <2> QED
    BY <2>2, <2>3, <2>5, WakeupNext, SMTT(60) DEF Woken
<1>5. CASE op # "fetch"
  <2>1. th' = ReadyNext(ths, qr) /\ qr' = QTail(qr) /\ qw' = qw /\ cnt' = cnt + 1
    BY <1>5 DEF Transfer, Moved, Operation
  <2>2. /\ qr # <<>> => Cardinality(ServedIn(th', Reads)) = Cardinality(ServedIn(ths, Reads)) + 1
        /\ ServedIn(th', Writes) = ServedIn(ths, Writes)
        /\ QueuedOK(th')
    BY <1>1, <1>2, <2>1, ReadyCounts, SMTT(60)
  <2>3. Wakes(th', qw', Writes, N - cnt')
    BY <1>1, <1>3, <2>1, <2>2, ServedFinite, SMTT(60) DEF Wakes
  <2>4. qr' # <<>> => qr # <<>>
    BY <2>1 DEF QTail
  <2>5. Wakes(th', qr', Reads, cnt')
    BY <1>1, <1>3, <1>5, <2>1, <2>2, <2>4, ServedFinite, SMTT(60) DEF Wakes
  <2> QED
    BY <2>2, <2>3, <2>5, WakeupNext, SMTT(60) DEF Woken
<1> QED
  BY <1>4, <1>5

\* A thread that is outside, or ready after a wait for the same operation,
\* tries the operation.
LEMMA AttemptWakes ==
  ASSUME WakeInv, NEW t \in Threads, NEW op, NEW m, Operation(op, m),
         th[t].at = "out" \/ (th[t].at = "ready" /\ th[t].op = op), Attempt(t, op, m)
  PROVE  Woken
<1>1. /\ ThreadsOK /\ reset \in BOOLEAN /\ (reset => qw = <<>> /\ qr = <<>>)
      /\ cnt \in 0 .. N /\ N \in Nat /\ QueuedOK(th)
  BY MBoxParts, MBoxAssumption DEF WakeInv, RingOK
<1>2. th \in [Threads -> Calls] /\ th[t].at # "queued"
  BY <1>1 DEF ThreadsOK
<1>3. /\ op = "fetch" => t \notin ServedIn(th, Writes)
      /\ op # "fetch" => t \notin ServedIn(th, Reads)
  BY DEF ServedIn, Writes, Reads
<1>4. Wakes(th, qr, Reads, cnt) /\ Wakes(th, qw, Writes, N - cnt)
  BY WakeupIs DEF WakeInv
<1>5. CASE reset /\ th' = [th EXCEPT ![t] = Out] /\ UNCHANGED <<ringvars, qw, qr>>
  <2>1. QueuedOK(th')
    BY <1>1, <1>2, <1>5, OutIsCall, SMTT(60) DEF QueuedOK
  <2>2. qw' = <<>> /\ qr' = <<>>
    BY <1>1, <1>5
  <2>3. Wakes(th', qr', Reads, cnt') /\ Wakes(th', qw', Writes, N - cnt')
    BY <2>2 DEF Wakes
  <2> QED
    BY <2>1, <2>3, WakeupNext, SMTT(60) DEF Woken
<1>6. CASE Transfer(op, m, [th EXCEPT ![t] = Out])
  <2> DEFINE ths == [th EXCEPT ![t] = Out]
  <2>1. ths \in [Threads -> Calls] /\ QueuedOK(ths)
    BY <1>1, <1>2, OutIsCall, SMTT(60) DEF QueuedOK
  <2>2. QueueOK(ths, qw, Writes) /\ QueueOK(ths, qr, Reads)
    BY <1>1, <1>2, QueueKept, Zenon DEF ThreadsOK
  <2>3. ths[t].at # "ready" /\ \A x \in Threads : x # t => ths[x] = th[x]
    BY <1>2, OutIsCall
  <2> HIDE DEF ths
  <2>4. ASSUME NEW ops
        PROVE  /\ Cardinality(ServedIn(ths, ops)) >= Cardinality(ServedIn(th, ops)) - 1
               /\ t \notin ServedIn(th, ops) => ServedIn(ths, ops) = ServedIn(th, ops)
    BY <2>3, TouchCounts
  <2>5. Transfer(op, m, ths)
    BY <1>6 DEF ths
  <2>6. /\ \A ops \in {Reads, Writes} :
             Cardinality(ServedIn(ths, ops)) >= Cardinality(ServedIn(th, ops)) - 1
        /\ op = "fetch" => ServedIn(ths, Writes) = ServedIn(th, Writes)
        /\ op # "fetch" => ServedIn(ths, Reads) = ServedIn(th, Reads)
    BY <1>3, <2>4, Zenon
  <2> QED
    BY <1>3, <2>1, <2>2, <2>5, <2>6, TransferWakes, ZenonT(60)
<1>7. CASE ~reset /\ ~Possible(op) /\ Enqueue(t, op, m)
  <2> DEFINE call == Queued(op, m)
  <2>1. call.at = "queued" /\ call.rdymsg = "MSG_OK" /\ call.at # "ready"
    BY DEF Queued
  <2> HIDE DEF call
  <2>2. th' = [th EXCEPT ![t] = call] /\ cnt' = cnt
    BY <1>7 DEF Enqueue, call, ringvars
  <2>3. QueuedOK(th')
    BY <1>1, <1>2, <2>1, <2>2 DEF QueuedOK
  <2>4. ASSUME NEW ops, t \notin ServedIn(th, ops)
        PROVE  ServedIn(th', ops) = ServedIn(th, ops)
    <3>1. th'[t].at # "ready" /\ \A x \in Threads : x # t => th'[x] = th[x]
      BY <1>2, <2>1, <2>2, SMTT(60)
    <3> QED
      BY <2>4, <3>1, TouchCounts, SMTT(60)
  <2>5. CASE op = "fetch"
    <3>0. cnt' = 0 /\ qw' = qw
      BY <1>1, <1>7, <2>2, <2>5, SMTT(60) DEF Possible, Enqueue
    <3>1. cnt' = 0 /\ qw' = qw /\ ServedIn(th', Writes) = ServedIn(th, Writes)
      BY <1>3, <2>4, <2>5, <3>0, SMTT(60)
    <3>2. Wakes(th', qr', Reads, cnt')
      BY <3>1, ServedFinite, SMTT(60) DEF Wakes
    <3>3. Wakes(th', qw', Writes, N - cnt')
      BY <1>4, <2>2, <3>1, SMTT(60) DEF Wakes
    <3> QED
      BY <2>3, <3>2, <3>3, WakeupNext, SMTT(60) DEF Woken
  <2>6. CASE op # "fetch"
    <3>0. cnt' = N /\ qr' = qr
      BY <1>1, <1>7, <2>2, <2>6, SMTT(60) DEF Possible, Enqueue
    <3>1. cnt' = N /\ qr' = qr /\ ServedIn(th', Reads) = ServedIn(th, Reads)
      BY <1>3, <2>4, <2>6, <3>0, SMTT(60)
    <3>2. Wakes(th', qr', Reads, cnt')
      BY <1>4, <2>2, <3>1, SMTT(60) DEF Wakes
    <3>3. N - cnt' = 0
      BY <1>1, <3>1, SMTT(60)
    <3>4. Wakes(th', qw', Writes, N - cnt')
      BY <3>3, ServedFinite DEF Wakes
    <3> QED
      BY <2>3, <3>2, <3>4, WakeupNext DEF Woken
  <2> QED
    BY <2>5, <2>6
<1> QED
  BY <1>5, <1>6, <1>7, SMTT(60) DEF Attempt

\* A timeout, of a thread that was not made ready for anything.
LEMMA TimeoutWakes ==
  ASSUME WakeInv, NEW t \in Threads, Timeout(t)
  PROVE  Woken
<1>1. ThreadsOK /\ QueuedOK(th) /\ th[t].at = "queued"
  BY MBoxParts DEF WakeInv, Timeout
<1> DEFINE call == [th[t] EXCEPT !.at = "ready", !.rdymsg = "MSG_TIMEOUT"]
<1>2. call.at = "ready" /\ call.rdymsg = "MSG_TIMEOUT" /\ th' = [th EXCEPT ![t] = call]
  BY <1>1, Zenon DEF Timeout, ThreadsOK, Calls
<1> HIDE DEF call
<1>3. QueuedOK(th')
  BY <1>1, <1>2 DEF QueuedOK, ThreadsOK
<1>4. \A ops : ServedIn(th', ops) = ServedIn(th, ops)
  <2>1. th'[t] = call /\ \A x \in Threads : x # t => th'[x] = th[x]
    BY <1>1, <1>2 DEF ThreadsOK
  <2> QED
    BY <1>1, <1>2, <2>1 DEF ServedIn
<1>5. cnt' = cnt /\ (qr' # <<>> => qr # <<>>) /\ (qw' # <<>> => qw # <<>>)
  BY <1>1, WithoutOK DEF Timeout, ringvars, ThreadsOK
<1>6. Wakes(th, qr, Reads, cnt) /\ Wakes(th, qw, Writes, N - cnt)
  BY WakeupIs DEF WakeInv
<1>7. Wakes(th', qr', Reads, cnt') /\ Wakes(th', qw', Writes, N - cnt')
  BY <1>4, <1>5, <1>6, SMTT(60) DEF Wakes
<1> QED
  BY <1>3, <1>7, WakeupNext, SMTT(60) DEF Woken

\* Every step.
LEMMA StepWakes ==
  ASSUME WakeInv, [MBoxNext]_mboxvars
  PROVE  Woken
<1>1. /\ ThreadsOK /\ reset \in BOOLEAN /\ QueuedOK(th)
      /\ th \in [Threads -> Calls]
  BY MBoxParts DEF WakeInv, ThreadsOK
<1>2. \A r \in Requests : Operation(r[1], r[2])
  BY DEF Requests, Operation
<1>3. Wakes(th, qr, Reads, cnt) /\ Wakes(th, qw, Writes, N - cnt)
  BY WakeupIs DEF WakeInv
<1>4. ASSUME NEW r \in Requests, CallI(r[1], r[2])
      PROVE  Woken
  <2>1. \A ops \in {Reads, Writes} :
          Cardinality(ServedIn(th, ops)) >= Cardinality(ServedIn(th, ops)) - 1
    BY ServedFinite
  <2> QED
    BY <1>1, <1>2, <1>4, <2>1, TransferWakes, SMTT(60) DEF CallI, ThreadsOK
<1>5. ASSUME NEW r \in Requests, NEW t \in Threads, Call(t, r[1], r[2])
      PROVE  Woken
  BY <1>2, <1>5, AttemptWakes, SMTT(60) DEF Call
<1>6. ASSUME NEW t \in Threads, Continue(t)
      PROVE  Woken
  <2>1. th[t].at = "ready"
    BY <1>6 DEF Continue
  <2>2. CASE th[t].rdymsg = "MSG_OK"
    <3>1. Operation(th[t].op, th[t].msg)
      BY <1>1, <2>1 DEF ThreadsOK, CallsOK
    <3> QED
      BY <1>6, <2>1, <2>2, <3>1, AttemptWakes, SMTT(60) DEF Continue
  <2>3. CASE th[t].rdymsg # "MSG_OK"
    <3>1. /\ th' = [th EXCEPT ![t] = Out] /\ cnt' = cnt /\ qw' = qw /\ qr' = qr
      BY <1>6, <2>3 DEF Continue, ringvars
    <3>2. \A ops : t \notin ServedIn(th, ops)
      BY <2>3 DEF ServedIn
    <3>3. ASSUME NEW ops PROVE ServedIn(th', ops) = ServedIn(th, ops)
      <4>1. th'[t].at # "ready" /\ \A x \in Threads : x # t => th'[x] = th[x]
        BY <1>1, <3>1, OutIsCall, SMTT(60)
      <4> QED
        BY <3>2, <4>1, TouchCounts, SMTT(60)
    <3>4. QueuedOK(th')
      BY <1>1, <3>1, OutIsCall, SMTT(60) DEF QueuedOK
    <3>5. Wakes(th', qr', Reads, cnt') /\ Wakes(th', qw', Writes, N - cnt')
      BY <1>3, <3>1, <3>3, Zenon DEF Wakes
    <3> QED
      BY <3>4, <3>5, WakeupNext, SMTT(60) DEF Woken
  <2> QED
    BY <2>2, <2>3
<1>7. ASSUME NEW t \in Threads, Timeout(t)
      PROVE  Woken
  BY <1>7, TimeoutWakes
<1>8. CASE chMBResetI
  <2>1. qw' = <<>> /\ qr' = <<>>
    BY <1>8 DEF chMBResetI
  <2>2. Wakes(th', qr', Reads, cnt') /\ Wakes(th', qw', Writes, N - cnt')
    BY <2>1 DEF Wakes
  <2>3. th' = [t \in Threads |-> IF InQueue(qw, t) \/ InQueue(qr, t)
                 THEN [th[t] EXCEPT !.at = "ready", !.rdymsg = "MSG_RESET"] ELSE th[t]]
    BY <1>8, Zenon DEF chMBResetI, ReadyAll
  <2>4. \A t \in Threads : [th[t] EXCEPT !.at = "ready", !.rdymsg = "MSG_RESET"].at = "ready"
    BY <1>1, SMTT(60) DEF Calls
  <2>5. QueuedOK(th')
    BY <1>1, <2>3, <2>4, Zenon DEF QueuedOK
  <2> QED
    BY <2>2, <2>5, WakeupNext DEF Woken
<1>9. CASE chMBResumeX \/ UNCHANGED mboxvars
  <2>1. th' = th /\ qw' = qw /\ qr' = qr /\ cnt' = cnt
    BY <1>9 DEF chMBResumeX, mboxvars, ringvars
  <2>2. QueuedOK(th') /\ Wakes(th', qr', Reads, cnt') /\ Wakes(th', qw', Writes, N - cnt')
    BY <1>1, <1>3, <2>1
  <2> QED
    BY <2>2, WakeupNext DEF Woken
<1> QED
  BY <1>4, <1>5, <1>6, <1>7, <1>8, <1>9, SMTT(60) DEF MBoxNext

-----------------------------------------------------------------------------

\* No wakeup is lost: as long as threads are queued, every message or slot of
\* the mailbox has a thread that dequeueing made ready and that has yet to run,
\* for any number of threads, slots and messages.
THEOREM NoWakeupIsLost == MBoxSpec => []NoLostWakeup
<1>1. MBoxInit => WakeInv
  <2> SUFFICES ASSUME MBoxInit PROVE WakeInv
    OBVIOUS
  <2>1. MBoxInv
    BY InitGood
  <2>2. QueuedOK(th)
    BY OutIsCall DEF MBoxInit, QueuedOK
  <2>3. NoLostWakeup
    BY DEF MBoxInit, NoLostWakeup
  <2> QED
    BY <2>1, <2>2, <2>3 DEF WakeInv
<1>2. WakeInv /\ [MBoxNext]_mboxvars => WakeInv'
  <2> SUFFICES ASSUME WakeInv, [MBoxNext]_mboxvars PROVE WakeInv'
    OBVIOUS
  <2>1. MBoxInv'
    BY StepGood DEF Good, WakeInv
  <2>2. QueuedOK(th') /\ NoLostWakeup'
    BY StepWakes DEF Woken
  <2> QED
    BY <2>1, <2>2 DEF WakeInv
<1>3. WakeInv => NoLostWakeup
  BY DEF WakeInv
<1> QED
  BY <1>1, <1>2, <1>3, PTL DEF MBoxSpec

-----------------------------------------------------------------------------
(* Objects FIFOs: the invariant *)

\* The threads that wait in a queue for op.
Waits(ths, op) == {t \in Threads : ths[t].at = "queued" /\ ths[t].op = op}

\* A thread is in the wait of a take or of a fetch.
ThreadsIn(ths) ==
  /\ ths \in [Threads -> Calls]
  /\ \A t \in Threads : ths[t].at # "out" => ths[t].op \in {"take", "fetch"}
  /\ QueuedOK(ths)

\* The semaphore c with its queue q, for a pool of n objects: while threads
\* wait, every object of the pool is promised.
SemOK(n, c, q, ths) ==
  /\ Lists(q, Waits(ths, "take"))
  /\ c = n - Cardinality(ServedIn(ths, {"take"})) - Len(q)
  /\ Cardinality(ServedIn(ths, {"take"})) <= n
  /\ q # <<>> => n = Cardinality(ServedIn(ths, {"take"}))

\* Every object is in one place: the pool fr, the mailbox ct or with the
\* application, which has hd.
PlacesOK(fr, ct, hd) ==
  /\ hd \subseteq Objects
  /\ \E F, C : Lists(fr, F) /\ Lists(ct, C) /\ F \cap C = {} /\ F \cup C = Objects \ hd

MailOK == RingOK /\ reset = FALSE /\ qw = <<>> /\ Lists(qr, Waits(th, "fetch"))

\* Inductive.
FifoInv ==
  /\ ThreadsIn(th) /\ MailOK
  /\ SemOK(Len(free), semcnt, semq, th)
  /\ PlacesOK(free, Content, held)

-----------------------------------------------------------------------------
(* The places *)

\* An object that the application has goes to the front of the pool.
LEMMA ToPool ==
  ASSUME NEW fr, NEW ct, NEW hd, PlacesOK(fr, ct, hd), NEW obj \in hd
  PROVE  PlacesOK(<<obj>> \o fr, ct, hd \ {obj})
<1>1. PICK F, C : Lists(fr, F) /\ Lists(ct, C) /\ F \cap C = {} /\ F \cup C = Objects \ hd
  BY DEF PlacesOK
<1>2. Lists(<<obj>> \o fr, F \cup {obj})
  BY <1>1, ListsCons
<1>3. (F \cup {obj}) \cap C = {} /\ (F \cup {obj}) \cup C = Objects \ (hd \ {obj}) /\ hd \ {obj} \subseteq Objects
  BY <1>1 DEF PlacesOK
<1> QED
  BY <1>1, <1>2, <1>3, Zenon DEF PlacesOK

\* The first object of the pool goes to the application.
LEMMA FromPool ==
  ASSUME NEW fr, NEW ct, NEW hd, PlacesOK(fr, ct, hd), fr # <<>>
  PROVE  PlacesOK(Tail(fr), ct, hd \cup {Head(fr)})
<1>1. PICK F, C : Lists(fr, F) /\ Lists(ct, C) /\ F \cap C = {} /\ F \cup C = Objects \ hd
  BY DEF PlacesOK
<1> DEFINE h == Head(fr)
<1>2. h \in F /\ Lists(Tail(fr), F \ {h})
  BY <1>1, ListsTail, Zenon
<1> HIDE DEF h
<1>3. (F \ {h}) \cap C = {} /\ (F \ {h}) \cup C = Objects \ (hd \cup {h}) /\ hd \cup {h} \subseteq Objects
  BY <1>1, <1>2 DEF PlacesOK
<1> QED
  BY <1>1, <1>2, <1>3, Zenon DEF PlacesOK, h

\* An object that the application has goes to either end of the mailbox.
LEMMA ToMail ==
  ASSUME NEW fr, NEW ct, NEW hd, PlacesOK(fr, ct, hd), NEW obj \in hd
  PROVE  PlacesOK(fr, Append(ct, obj), hd \ {obj}) /\ PlacesOK(fr, <<obj>> \o ct, hd \ {obj})
<1>1. PICK F, C : Lists(fr, F) /\ Lists(ct, C) /\ F \cap C = {} /\ F \cup C = Objects \ hd
  BY DEF PlacesOK
<1>2. Lists(<<obj>> \o ct, C \cup {obj})
  BY <1>1, ListsCons
<1>3. Lists(Append(ct, obj), C \cup {obj})
  BY <1>1, ListsAppend
<1>4. F \cap (C \cup {obj}) = {} /\ F \cup (C \cup {obj}) = Objects \ (hd \ {obj}) /\ hd \ {obj} \subseteq Objects
  BY <1>1 DEF PlacesOK
<1> QED
  BY <1>1, <1>2, <1>3, <1>4, Zenon DEF PlacesOK

\* The first object of the mailbox goes to the application.
LEMMA FromMail ==
  ASSUME NEW fr, NEW ct, NEW hd, PlacesOK(fr, ct, hd), ct # <<>>
  PROVE  PlacesOK(fr, Tail(ct), hd \cup {Head(ct)})
<1>1. PICK F, C : Lists(fr, F) /\ Lists(ct, C) /\ F \cap C = {} /\ F \cup C = Objects \ hd
  BY DEF PlacesOK
<1> DEFINE h == Head(ct)
<1>2. h \in C /\ Lists(Tail(ct), C \ {h})
  BY <1>1, ListsTail, Zenon
<1> HIDE DEF h
<1>3. F \cap (C \ {h}) = {} /\ F \cup (C \ {h}) = Objects \ (hd \cup {h}) /\ hd \cup {h} \subseteq Objects
  BY <1>1, <1>2 DEF PlacesOK
<1> QED
  BY <1>1, <1>2, <1>3, Zenon DEF PlacesOK, h

\* An object with the application leaves a slot of the mailbox.
LEMMA RoomForIt ==
  ASSUME NEW fr, NEW ct, NEW hd, PlacesOK(fr, ct, hd), NEW obj \in hd
  PROVE  Len(ct) < N
<1>1. PICK F, C : Lists(fr, F) /\ Lists(ct, C) /\ F \cap C = {} /\ F \cup C = Objects \ hd
  BY DEF PlacesOK
<1>2. obj \in Objects /\ C \subseteq Objects \ {obj}
  BY <1>1 DEF PlacesOK
<1>3. IsFiniteSet(Objects) /\ Cardinality(Objects) <= N /\ N \in Nat
  BY FifoAssumption, MBoxAssumption
<1>4. /\ IsFiniteSet(Objects \ {obj}) /\ Cardinality(Objects \ {obj}) = Cardinality(Objects) - 1
  BY <1>2, <1>3, FS_RemoveElement, Zenon
<1>5. Cardinality(C) <= Cardinality(Objects \ {obj})
  BY <1>2, <1>4, FS_Subset, Zenon
<1>6. Cardinality(C) = Len(ct) /\ Len(ct) \in Nat
  BY <1>1, ListsLen
<1>7. Cardinality(Objects) \in Nat
  BY <1>3, FS_CardinalityType
<1> QED
  BY <1>3, <1>4, <1>5, <1>6, <1>7

-----------------------------------------------------------------------------
(* The threads *)

\* What a change of one thread t to c does.
Changed(ths, t, c) == [ths EXCEPT ![t] = c]

\* A thread changes, and no other.
LEMMA ChangedIs ==
  ASSUME NEW ths \in [Threads -> Calls], NEW t \in Threads, NEW c \in Calls
  PROVE  /\ Changed(ths, t, c) \in [Threads -> Calls] /\ Changed(ths, t, c)[t] = c
         /\ \A x \in Threads : x # t => Changed(ths, t, c)[x] = ths[x]
BY DEF Changed

\* A thread that did not wait returns.
LEMMA ThreadReturns ==
  ASSUME NEW ths, ThreadsIn(ths), NEW t \in Threads, ths[t].at # "queued"
  PROVE  /\ ThreadsIn(Changed(ths, t, Out))
         /\ \A op : Waits(Changed(ths, t, Out), op) = Waits(ths, op)
         /\ \A op : ServedIn(Changed(ths, t, Out), {op}) = ServedIn(ths, {op}) \ {t}
<1> DEFINE new == Changed(ths, t, Out)
<1>1. ths \in [Threads -> Calls] /\ Out \in Calls /\ Out.at = "out"
  BY OutIsCall DEF ThreadsIn
<1>2. new \in [Threads -> Calls] /\ new[t].at = "out" /\ \A x \in Threads : x # t => new[x] = ths[x]
  BY <1>1, ChangedIs
<1> HIDE DEF new
<1>3. ThreadsIn(new)
  BY <1>2 DEF ThreadsIn, QueuedOK
<1>4. \A op : Waits(new, op) = Waits(ths, op)
  BY <1>2 DEF Waits
<1>5. \A op : ServedIn(new, {op}) = ServedIn(ths, {op}) \ {t}
  BY <1>2 DEF ServedIn
<1> QED
  BY <1>3, <1>4, <1>5 DEF new

\* A thread that did not wait goes to the end of a queue.
LEMMA ThreadSleeps ==
  ASSUME NEW ths, ThreadsIn(ths), NEW t \in Threads, ths[t].at # "queued",
         NEW op \in {"take", "fetch"}, NEW q, Lists(q, Waits(ths, op)), NEW m \in Msgs,
         NEW other, other # op
  PROVE  /\ ThreadsIn(Changed(ths, t, Queued(op, m)))
         /\ Lists(Append(q, t), Waits(Changed(ths, t, Queued(op, m)), op))
         /\ Waits(Changed(ths, t, Queued(op, m)), other) = Waits(ths, other)
         /\ ServedIn(Changed(ths, t, Queued(op, m)), {"take"}) = ServedIn(ths, {"take"}) \ {t}
<1> DEFINE c == Queued(op, m)
           new == Changed(ths, t, c)
<1>1. ths \in [Threads -> Calls] /\ c \in Calls /\ c.at = "queued" /\ c.op = op /\ c.rdymsg = "MSG_OK"
  BY DEF ThreadsIn, Queued, Calls
<1> HIDE DEF c
<1>2. new \in [Threads -> Calls] /\ new[t] = c /\ \A x \in Threads : x # t => new[x] = ths[x]
  BY <1>1, ChangedIs
<1> HIDE DEF new
<1>3. ThreadsIn(new)
  BY <1>1, <1>2 DEF ThreadsIn, QueuedOK
<1>4. Waits(new, op) = Waits(ths, op) \cup {t} /\ t \notin Waits(ths, op)
  BY <1>1, <1>2 DEF Waits
<1>5. Lists(Append(q, t), Waits(new, op))
  BY <1>4, ListsAppend
<1>6. Waits(new, other) = Waits(ths, other)
  BY <1>1, <1>2 DEF Waits
<1>7. ServedIn(new, {"take"}) = ServedIn(ths, {"take"}) \ {t}
  BY <1>1, <1>2 DEF ServedIn
<1> QED
  BY <1>3, <1>5, <1>6, <1>7 DEF new, c

\* The queue of the threads that fetch.
LEMMA FetchSleeps ==
  ASSUME NEW ths, ThreadsIn(ths), NEW t \in Threads, ths[t].at # "queued",
         NEW q, Lists(q, Waits(ths, "fetch")), NEW m \in Msgs
  PROVE  /\ ThreadsIn(Changed(ths, t, Queued("fetch", m)))
         /\ Lists(Append(q, t), Waits(Changed(ths, t, Queued("fetch", m)), "fetch"))
         /\ Waits(Changed(ths, t, Queued("fetch", m)), "take") = Waits(ths, "take")
         /\ ServedIn(Changed(ths, t, Queued("fetch", m)), {"take"}) = ServedIn(ths, {"take"}) \ {t}
BY ThreadSleeps

\* The queue of the threads that take an object.
LEMMA TakeSleeps ==
  ASSUME NEW ths, ThreadsIn(ths), NEW t \in Threads, ths[t].at # "queued",
         NEW q, Lists(q, Waits(ths, "take")), NEW m \in Msgs
  PROVE  /\ ThreadsIn(Changed(ths, t, Queued("take", m)))
         /\ Lists(Append(q, t), Waits(Changed(ths, t, Queued("take", m)), "take"))
         /\ Waits(Changed(ths, t, Queued("take", m)), "fetch") = Waits(ths, "fetch")
         /\ ServedIn(Changed(ths, t, Queued("take", m)), {"take"}) = ServedIn(ths, {"take"}) \ {t}
BY ThreadSleeps

\* The thread as its timeout leaves it.
Late(ths, t) == [ths[t] EXCEPT !.at = "ready", !.rdymsg = "MSG_TIMEOUT"]

\* A thread that waits times out.
LEMMA ThreadTimesOut ==
  ASSUME NEW ths, ThreadsIn(ths), NEW op, NEW t \in Waits(ths, op), NEW q, Lists(q, Waits(ths, op)),
         NEW other, other # op
  PROVE  /\ ThreadsIn(Changed(ths, t, Late(ths, t)))
         /\ Lists(Without(q, t), Waits(Changed(ths, t, Late(ths, t)), op)) /\ q # <<>> /\ InQueue(q, t)
         /\ Len(Without(q, t)) = Len(q) - 1
         /\ Waits(Changed(ths, t, Late(ths, t)), other) = Waits(ths, other)
         /\ ServedIn(Changed(ths, t, Late(ths, t)), {"take"}) = ServedIn(ths, {"take"})
<1> DEFINE c == Late(ths, t)
           new == Changed(ths, t, c)
<1>1. ths \in [Threads -> Calls] /\ t \in Threads /\ ths[t] \in Calls /\ ths[t].at = "queued" /\ ths[t].op = op
  BY DEF ThreadsIn, Waits
<1>2. c \in Calls /\ c.at = "ready" /\ c.op = op /\ c.rdymsg = "MSG_TIMEOUT"
  BY <1>1, Zenon DEF Late, Calls
<1> HIDE DEF c
<1>3. new \in [Threads -> Calls] /\ new[t] = c /\ \A x \in Threads : x # t => new[x] = ths[x]
  BY <1>1, <1>2, ChangedIs
<1> HIDE DEF new
<1>4. ThreadsIn(new)
  BY <1>1, <1>2, <1>3 DEF ThreadsIn, QueuedOK
<1>5. Waits(new, op) = Waits(ths, op) \ {t} /\ t \in Waits(ths, op)
  BY <1>1, <1>2, <1>3 DEF Waits
<1>6. Lists(Without(q, t), Waits(new, op)) /\ q # <<>>
  BY <1>5, ListsWithout
<1>7. Waits(new, other) = Waits(ths, other)
  BY <1>1, <1>2, <1>3 DEF Waits
<1>8. ServedIn(new, {"take"}) = ServedIn(ths, {"take"})
  BY <1>1, <1>2, <1>3 DEF ServedIn
<1>9. InQueue(q, t)
  BY <1>5 DEF Lists, Range, InQueue
<1>10. Len(Without(q, t)) = Len(q) - 1
  <2>1. q \in Seq(Waits(ths, op)) /\ Len(q) \in Nat /\ Len(q) > 0
    BY <1>6 DEF Lists
  <2>2. Len(q) - 1 \in Nat
    BY <2>1
  <2> QED
    BY <2>2 DEF Without
<1> QED
  BY <1>4, <1>6, <1>7, <1>8, <1>9, <1>10 DEF new, c

\* The first thread of a queue is made ready, if there is one.
LEMMA FirstIsReady ==
  ASSUME NEW ths, ThreadsIn(ths), NEW op \in {"take", "fetch"}, NEW q, Lists(q, Waits(ths, op))
  PROVE  /\ ThreadsIn(ReadyNext(ths, q)) /\ Lists(QTail(q), Waits(ReadyNext(ths, q), op))
         /\ \A o : o # op => /\ Waits(ReadyNext(ths, q), o) = Waits(ths, o)
                             /\ ServedIn(ReadyNext(ths, q), {o}) = ServedIn(ths, {o})
         /\ q # <<>> => /\ Len(QTail(q)) = Len(q) - 1
                        /\ Cardinality(ServedIn(ReadyNext(ths, q), {op})) = Cardinality(ServedIn(ths, {op})) + 1
<1>1. CASE q = <<>>
  BY <1>1 DEF ReadyNext, QTail
<1>2. CASE q # <<>>
  <2> DEFINE h == Head(q)
             c == [ths[h] EXCEPT !.at = "ready"]
             new == ReadyNext(ths, q)
  <2>1. h \in Waits(ths, op) /\ Lists(Tail(q), Waits(ths, op) \ {h})
    BY <1>2, ListsTail, Zenon
  <2> HIDE DEF h
  <2>2. /\ h \in Threads /\ ths \in [Threads -> Calls] /\ ths[h] \in Calls /\ ths[h].at = "queued"
        /\ ths[h].op = op /\ ths[h].rdymsg = "MSG_OK"
    BY <2>1 DEF Waits, ThreadsIn, QueuedOK
  <2>3. c \in Calls /\ c.at = "ready" /\ c.op = op /\ c.rdymsg = "MSG_OK"
    BY <2>2 DEF Calls
  <2>4. new = Changed(ths, h, c)
    BY <1>2, <2>2, Zenon DEF ReadyNext, Changed, h
  <2> HIDE DEF c, new
  <2>5. new \in [Threads -> Calls] /\ new[h] = c /\ \A x \in Threads : x # h => new[x] = ths[x]
    BY <2>2, <2>3, <2>4, ChangedIs
  <2>6. ThreadsIn(new)
    BY <2>3, <2>5 DEF ThreadsIn, QueuedOK
  <2>7. Waits(new, op) = Waits(ths, op) \ {h}
    BY <2>3, <2>5 DEF Waits
  <2>8. \A o : o # op => Waits(new, o) = Waits(ths, o) /\ ServedIn(new, {o}) = ServedIn(ths, {o})
    BY <2>2, <2>3, <2>5 DEF Waits, ServedIn
  <2>9. ServedIn(new, {op}) = ServedIn(ths, {op}) \cup {h} /\ h \notin ServedIn(ths, {op})
    BY <2>2, <2>3, <2>5 DEF ServedIn
  <2>10. Cardinality(ServedIn(new, {op})) = Cardinality(ServedIn(ths, {op})) + 1
    BY <2>9, ServedFinite, FS_AddElement, Zenon
  <2>11. QTail(q) = Tail(q) /\ Len(Tail(q)) = Len(q) - 1
    BY <1>2 DEF QTail, Lists
  <2> QED
    BY <2>1, <2>6, <2>7, <2>8, <2>10, <2>11, Zenon DEF new
<1> QED
  BY <1>1, <1>2, Zenon

-----------------------------------------------------------------------------
(* The steps *)

\* The invariant's parts.
LEMMA FifoFacts ==
  ASSUME FifoInv
  PROVE  /\ ThreadsIn(th) /\ th \in [Threads -> Calls] /\ RingOK /\ reset = FALSE /\ qw = <<>>
         /\ Lists(qr, Waits(th, "fetch")) /\ Lists(semq, Waits(th, "take"))
         /\ SemOK(Len(free), semcnt, semq, th) /\ PlacesOK(free, Content, held)
         /\ Len(free) \in Nat /\ Len(semq) \in Nat /\ (free = <<>> <=> Len(free) = 0) /\ (semq = <<>> <=> Len(semq) = 0)
         /\ Cardinality(ServedIn(th, {"take"})) \in Nat
<1>1. /\ ThreadsIn(th) /\ MailOK /\ SemOK(Len(free), semcnt, semq, th) /\ PlacesOK(free, Content, held)
  BY DEF FifoInv
<1>2. PICK F : Lists(free, F)
  BY <1>1, Zenon DEF PlacesOK
<1>3. Lists(semq, Waits(th, "take"))
  BY <1>1, Zenon DEF SemOK
<1>4. Len(free) \in Nat /\ (free = <<>> <=> Len(free) = 0)
  BY <1>2 DEF Lists
<1>5. Len(semq) \in Nat /\ (semq = <<>> <=> Len(semq) = 0)
  BY <1>3 DEF Lists
<1>6. Cardinality(ServedIn(th, {"take"})) \in Nat
  BY ServedFinite
<1>7. th \in [Threads -> Calls] /\ RingOK /\ reset = FALSE /\ qw = <<>> /\ Lists(qr, Waits(th, "fetch"))
  BY <1>1, Zenon DEF ThreadsIn, MailOK
<1> QED
  BY <1>1, <1>3, <1>4, <1>5, <1>6, <1>7, Zenon

\* The invariant after a step, from its parts.
LEMMA FifoNextInv ==
  ASSUME ThreadsIn(th'), RingOK', reset' = FALSE, qw' = <<>>, Lists(qr', Waits(th', "fetch")),
         SemOK(Len(free'), semcnt', semq', th'), PlacesOK(free', Content', held')
  PROVE  FifoInv'
<1>1. MailOK'
  BY DEF MailOK, Waits
<1>2. ThreadsIn(th)' /\ SemOK(Len(free), semcnt, semq, th)' /\ PlacesOK(free, Content, held)'
  BY Zenon
<1> QED
  BY <1>1, <1>2, Zenon DEF FifoInv

\* A semaphore of whose waits nothing changes.
LEMMA SemKept ==
  ASSUME NEW n, NEW c, NEW q, NEW ths, SemOK(n, c, q, ths), NEW new,
         Waits(new, "take") = Waits(ths, "take"), ServedIn(new, {"take"}) = ServedIn(ths, {"take"})
  PROVE  SemOK(n, c, q, new)
BY Zenon DEF SemOK

\* The pool gives an object, and the mailbox stays as it is.
LEMMA PoolGives ==
  ASSUME FifoInv, NEW ths, PoolAlloc(ths), free # <<>>
  PROVE  /\ th' = ths /\ RingOK' /\ reset' = FALSE /\ qw' = <<>> /\ qr' = qr
         /\ PlacesOK(free', Content', held') /\ Len(free') = Len(free) - 1
<1>1. /\ free' = Tail(free) /\ held' = held \cup {Head(free)} /\ th' = ths
      /\ buffer' = buffer /\ rdptr' = rdptr /\ wrptr' = wrptr /\ cnt' = cnt /\ reset' = reset
      /\ qw' = qw /\ qr' = qr
  BY DEF PoolAlloc, QTail, ringvars
<1>2. RingOK /\ reset = FALSE /\ qw = <<>> /\ PlacesOK(free, Content, held)
  BY FifoFacts, Zenon
<1>3. RingOK' /\ Content' = Content
  BY <1>1, <1>2, RingKept
<1>4. PlacesOK(free', Content', held')
  BY <1>1, <1>2, <1>3, FromPool, Zenon
<1>5. PICK F : Lists(free, F)
  BY <1>2, Zenon DEF PlacesOK
<1>6. Len(free') = Len(free) - 1
  BY <1>1, <1>5 DEF Lists
<1> QED
  BY <1>1, <1>2, <1>3, <1>4, <1>6

\* A step that leaves the mailbox and the pool's objects alone.
LEMMA NothingMoves ==
  ASSUME FifoInv, UNCHANGED <<free, held, ringvars, qw>>
  PROVE  /\ RingOK' /\ reset' = FALSE /\ qw' = <<>> /\ Len(free') = Len(free)
         /\ PlacesOK(free', Content', held')
<1>1. /\ free' = free /\ held' = held /\ qw' = qw /\ reset' = reset
      /\ buffer' = buffer /\ rdptr' = rdptr /\ wrptr' = wrptr /\ cnt' = cnt
  BY DEF ringvars
<1>2. RingOK /\ reset = FALSE /\ qw = <<>> /\ PlacesOK(free, Content, held)
  BY FifoFacts, Zenon
<1>3. RingOK' /\ Content' = Content
  BY <1>1, <1>2, RingKept
<1> QED
  BY <1>1, <1>2, <1>3, Zenon

\* chFifoTakeObjectTimeout.
LEMMA TakeStep ==
  ASSUME FifoInv, NEW t \in Threads, chFifoTakeObjectTimeout(t)
  PROVE  FifoInv'
<1>1. /\ ThreadsIn(th) /\ th \in [Threads -> Calls]
      /\ Lists(qr, Waits(th, "fetch")) /\ Lists(semq, Waits(th, "take"))
      /\ SemOK(Len(free), semcnt, semq, th)
      /\ Len(free) \in Nat /\ Len(semq) \in Nat /\ (free = <<>> <=> Len(free) = 0) /\ (semq = <<>> <=> Len(semq) = 0)
      /\ Cardinality(ServedIn(th, {"take"})) \in Nat
  BY FifoFacts, Zenon
<1>2. /\ semcnt = Len(free) - Cardinality(ServedIn(th, {"take"})) - Len(semq)
      /\ Cardinality(ServedIn(th, {"take"})) <= Len(free)
      /\ semq # <<>> => Len(free) = Cardinality(ServedIn(th, {"take"}))
  BY <1>1 DEF SemOK
<1>3. th[t].at = "out" /\ semcnt' = semcnt - 1
  BY DEF chFifoTakeObjectTimeout
<1>4. CASE semcnt <= 0
  <2> DEFINE new == Changed(th, t, Queued("take", NoMsg))
  <2>1. /\ semq' = Append(semq, t) /\ th' = new /\ UNCHANGED <<free, held, ringvars, qw>> /\ qr' = qr
    BY <1>4 DEF chFifoTakeObjectTimeout, Changed
  <2>2. /\ RingOK' /\ reset' = FALSE /\ qw' = <<>> /\ Len(free') = Len(free)
        /\ PlacesOK(free', Content', held')
    BY <2>1, NothingMoves, Zenon
  <2>3. /\ ThreadsIn(new) /\ Lists(Append(semq, t), Waits(new, "take"))
        /\ Waits(new, "fetch") = Waits(th, "fetch")
        /\ ServedIn(new, {"take"}) = ServedIn(th, {"take"}) \ {t}
    <3>1. NoMsg \in Msgs /\ th[t].at # "queued"
      BY <1>3 DEF Msgs
    <3>2. ThreadsIn(th) /\ Lists(semq, Waits(th, "take"))
      BY <1>1, Zenon
    <3> QED
      BY <3>1, <3>2, TakeSleeps, Zenon
  <2> HIDE DEF new
  <2>4. ServedIn(new, {"take"}) = ServedIn(th, {"take"})
    BY <1>3, <2>3 DEF ServedIn
  <2>5. Len(Append(semq, t)) = Len(semq) + 1
    BY <1>1 DEF Lists
  <2>6. Len(free) = Cardinality(ServedIn(th, {"take"}))
    BY <1>1, <1>2, <1>4
  <2>7. SemOK(Len(free'), semcnt', semq', th')
    BY <1>1, <1>2, <1>3, <2>1, <2>2, <2>3, <2>4, <2>5, <2>6 DEF SemOK
  <2> QED
    BY <1>1, <2>1, <2>2, <2>3, <2>7, FifoNextInv, Zenon
<1>5. CASE ~(semcnt <= 0)
  <2>1. PoolAlloc(th) /\ semq' = semq
    BY <1>5 DEF chFifoTakeObjectTimeout
  <2>2. free # <<>> /\ semq = <<>>
    BY <1>1, <1>2, <1>5
  <2>3. /\ th' = th /\ RingOK' /\ reset' = FALSE /\ qw' = <<>> /\ qr' = qr
        /\ PlacesOK(free', Content', held') /\ Len(free') = Len(free) - 1
    BY <2>1, <2>2, PoolGives, Zenon
  <2>4. SemOK(Len(free'), semcnt', semq', th')
    BY <1>1, <1>2, <1>3, <1>5, <2>1, <2>2, <2>3 DEF SemOK
  <2> QED
    BY <1>1, <2>3, <2>4, FifoNextInv, Zenon
<1> QED
  BY <1>4, <1>5

\* The thread runs again, with the object that it was made ready for.
LEMMA ContinueTakeStep ==
  ASSUME FifoInv, NEW t \in Threads, ContinueTake(t)
  PROVE  FifoInv'
<1> DEFINE new == Changed(th, t, Out)
<1>1. /\ ThreadsIn(th) /\ th \in [Threads -> Calls]
      /\ Lists(qr, Waits(th, "fetch")) /\ Lists(semq, Waits(th, "take"))
      /\ SemOK(Len(free), semcnt, semq, th)
      /\ Len(free) \in Nat /\ Len(semq) \in Nat /\ (free = <<>> <=> Len(free) = 0)
      /\ Cardinality(ServedIn(th, {"take"})) \in Nat
  BY FifoFacts, Zenon
<1>2. /\ semcnt = Len(free) - Cardinality(ServedIn(th, {"take"})) - Len(semq)
      /\ Cardinality(ServedIn(th, {"take"})) <= Len(free)
      /\ semq # <<>> => Len(free) = Cardinality(ServedIn(th, {"take"}))
  BY <1>1 DEF SemOK
<1>3. th[t].at = "ready" /\ th[t].op = "take" /\ semcnt' = semcnt /\ semq' = semq
  BY DEF ContinueTake
<1>4. /\ ThreadsIn(new) /\ Waits(new, "fetch") = Waits(th, "fetch") /\ Waits(new, "take") = Waits(th, "take")
      /\ ServedIn(new, {"take"}) = ServedIn(th, {"take"}) \ {t}
  BY <1>1, <1>3, ThreadReturns, Zenon
<1> HIDE DEF new
<1>5. CASE th[t].rdymsg = "MSG_OK"
  <2>1. PoolAlloc(new)
    BY <1>5 DEF ContinueTake, new, Changed
  <2>2. t \in ServedIn(th, {"take"})
    BY <1>3, <1>5 DEF ServedIn
  <2>3. Cardinality(ServedIn(new, {"take"})) = Cardinality(ServedIn(th, {"take"})) - 1
    BY <1>4, <2>2, ServedFinite, FS_RemoveElement, Zenon
  <2>4. Cardinality(ServedIn(new, {"take"})) \in Nat
    BY ServedFinite
  <2>5. free # <<>>
    BY <1>1, <1>2, <2>3, <2>4
  <2>6. /\ th' = new /\ RingOK' /\ reset' = FALSE /\ qw' = <<>> /\ qr' = qr
        /\ PlacesOK(free', Content', held') /\ Len(free') = Len(free) - 1
    BY <2>1, <2>5, PoolGives, Zenon
  <2>7. SemOK(Len(free'), semcnt', semq', th')
    BY <1>1, <1>2, <1>3, <1>4, <2>3, <2>4, <2>6 DEF SemOK
  <2> QED
    BY <1>1, <1>4, <2>6, <2>7, FifoNextInv, Zenon
<1>6. CASE th[t].rdymsg # "MSG_OK"
  <2>1. th' = new /\ UNCHANGED <<free, held, ringvars, qw>> /\ qr' = qr
    BY <1>6 DEF ContinueTake, new, Changed
  <2>2. /\ RingOK' /\ reset' = FALSE /\ qw' = <<>> /\ Len(free') = Len(free)
        /\ PlacesOK(free', Content', held')
    BY <2>1, NothingMoves, Zenon
  <2>3. ServedIn(new, {"take"}) = ServedIn(th, {"take"})
    BY <1>4, <1>6 DEF ServedIn
  <2>4. SemOK(Len(free'), semcnt', semq', th')
    BY <1>1, <1>3, <1>4, <2>1, <2>2, <2>3, SemKept, Zenon
  <2> QED
    BY <1>1, <1>4, <2>1, <2>2, <2>4, FifoNextInv, Zenon
<1> QED
  BY <1>5, <1>6

\* The timeout of a take.
LEMMA TimeoutTakeStep ==
  ASSUME FifoInv, NEW t \in Threads, TimeoutTake(t)
  PROVE  FifoInv'
<1> DEFINE new == Changed(th, t, Late(th, t))
<1>1. /\ ThreadsIn(th) /\ th \in [Threads -> Calls]
      /\ Lists(qr, Waits(th, "fetch")) /\ Lists(semq, Waits(th, "take"))
      /\ SemOK(Len(free), semcnt, semq, th)
      /\ Len(free) \in Nat /\ Len(semq) \in Nat
      /\ Cardinality(ServedIn(th, {"take"})) \in Nat
  BY FifoFacts, Zenon
<1>2. /\ semcnt = Len(free) - Cardinality(ServedIn(th, {"take"})) - Len(semq)
      /\ Cardinality(ServedIn(th, {"take"})) <= Len(free)
      /\ semq # <<>> => Len(free) = Cardinality(ServedIn(th, {"take"}))
  BY <1>1 DEF SemOK
<1>3. th[t].at = "queued" /\ th[t].op = "take" /\ semcnt' = semcnt + 1 /\ semq' = Without(semq, t)
      /\ UNCHANGED <<free, held, ringvars, qw>> /\ qr' = qr
  BY DEF TimeoutTake
<1>4. th' = new
  BY <1>1, Zenon DEF TimeoutTake, Changed, Late
<1>5. /\ ThreadsIn(new) /\ Lists(Without(semq, t), Waits(new, "take")) /\ semq # <<>>
      /\ Len(Without(semq, t)) = Len(semq) - 1
      /\ Waits(new, "fetch") = Waits(th, "fetch")
      /\ ServedIn(new, {"take"}) = ServedIn(th, {"take"})
  <2>1. "fetch" # "take"
    OBVIOUS
  <2>2. t \in Waits(th, "take")
    BY <1>3 DEF Waits
  <2>3. ThreadsIn(th) /\ Lists(semq, Waits(th, "take"))
    BY <1>1, Zenon
  <2> QED
    BY <2>1, <2>2, <2>3, ThreadTimesOut
<1> HIDE DEF new
<1>6. /\ RingOK' /\ reset' = FALSE /\ qw' = <<>> /\ Len(free') = Len(free)
      /\ PlacesOK(free', Content', held')
  BY <1>3, NothingMoves, Zenon
<1>7. SemOK(Len(free'), semcnt', semq', th')
  BY <1>1, <1>2, <1>3, <1>4, <1>5, <1>6 DEF SemOK
<1> QED
  BY <1>1, <1>3, <1>4, <1>5, <1>6, <1>7, FifoNextInv, Zenon

\* chFifoTakeObjectI.
LEMMA TakeIStep ==
  ASSUME FifoInv, chFifoTakeObjectI
  PROVE  FifoInv'
<1>1. /\ ThreadsIn(th) /\ Lists(qr, Waits(th, "fetch")) /\ SemOK(Len(free), semcnt, semq, th)
      /\ Len(free) \in Nat /\ Len(semq) \in Nat /\ (free = <<>> <=> Len(free) = 0)
      /\ (semq = <<>> <=> Len(semq) = 0)
      /\ Cardinality(ServedIn(th, {"take"})) \in Nat
  BY FifoFacts, Zenon
<1>2. /\ semcnt = Len(free) - Cardinality(ServedIn(th, {"take"})) - Len(semq)
      /\ Cardinality(ServedIn(th, {"take"})) <= Len(free)
      /\ semq # <<>> => Len(free) = Cardinality(ServedIn(th, {"take"}))
  BY <1>1 DEF SemOK
<1>3. semcnt > 0 /\ PoolAlloc(th) /\ semcnt' = semcnt - 1 /\ semq' = semq
  BY DEF chFifoTakeObjectI
<1>4. free # <<>> /\ semq = <<>>
  BY <1>1, <1>2, <1>3
<1>5. /\ th' = th /\ RingOK' /\ reset' = FALSE /\ qw' = <<>> /\ qr' = qr
      /\ PlacesOK(free', Content', held') /\ Len(free') = Len(free) - 1
  BY <1>3, <1>4, PoolGives, Zenon
<1>6. SemOK(Len(free'), semcnt', semq', th')
  BY <1>1, <1>2, <1>3, <1>4, <1>5 DEF SemOK
<1> QED
  BY <1>1, <1>5, <1>6, FifoNextInv, Zenon

\* chFifoReturnObjectI.
LEMMA ReturnStep ==
  ASSUME FifoInv, NEW obj, chFifoReturnObjectI(obj)
  PROVE  FifoInv'
<1>1. /\ ThreadsIn(th) /\ RingOK /\ reset = FALSE /\ qw = <<>>
      /\ Lists(qr, Waits(th, "fetch")) /\ Lists(semq, Waits(th, "take"))
      /\ SemOK(Len(free), semcnt, semq, th) /\ PlacesOK(free, Content, held)
      /\ Len(free) \in Nat /\ Len(semq) \in Nat /\ (semq = <<>> <=> Len(semq) = 0)
      /\ Cardinality(ServedIn(th, {"take"})) \in Nat
  BY FifoFacts, Zenon
<1>2. /\ semcnt = Len(free) - Cardinality(ServedIn(th, {"take"})) - Len(semq)
      /\ Cardinality(ServedIn(th, {"take"})) <= Len(free)
      /\ semq # <<>> => Len(free) = Cardinality(ServedIn(th, {"take"}))
  BY <1>1 DEF SemOK
<1>3. /\ obj \in held /\ held' = held \ {obj} /\ free' = <<obj>> \o free /\ semcnt' = semcnt + 1
      /\ th' = (IF semcnt < 0 THEN ReadyNext(th, semq) ELSE th)
      /\ semq' = (IF semcnt < 0 THEN QTail(semq) ELSE semq)
      /\ buffer' = buffer /\ rdptr' = rdptr /\ wrptr' = wrptr /\ cnt' = cnt /\ reset' = reset
      /\ qw' = qw /\ qr' = qr
  BY DEF chFifoReturnObjectI, ringvars
<1>4. RingOK' /\ Content' = Content
  BY <1>1, <1>3, RingKept
<1>5. PlacesOK(free', Content', held')
  BY <1>1, <1>3, <1>4, ToPool, Zenon
<1>6. Len(free') = Len(free) + 1
  <2>1. PICK F : Lists(free, F)
    BY <1>1, Zenon DEF PlacesOK
  <2>2. free \in Seq(F \cup {obj}) /\ <<obj>> \in Seq(F \cup {obj})
    BY <2>1 DEF Lists
  <2> QED
    BY <1>3, <2>2
<1>7. CASE semcnt < 0
  <2> DEFINE new == ReadyNext(th, semq)
  <2>1. semq # <<>>
    BY <1>1, <1>2, <1>7
  <2>2. /\ ThreadsIn(new) /\ Lists(QTail(semq), Waits(new, "take")) /\ Waits(new, "fetch") = Waits(th, "fetch")
        /\ Len(QTail(semq)) = Len(semq) - 1
        /\ Cardinality(ServedIn(new, {"take"})) = Cardinality(ServedIn(th, {"take"})) + 1
    <3>1. "fetch" # "take" /\ "take" \in {"take", "fetch"}
      OBVIOUS
    <3>2. /\ ThreadsIn(new) /\ Lists(QTail(semq), Waits(new, "take"))
          /\ \A o : o # "take" => Waits(new, o) = Waits(th, o) /\ ServedIn(new, {o}) = ServedIn(th, {o})
          /\ semq # <<>> => /\ Len(QTail(semq)) = Len(semq) - 1
                            /\ Cardinality(ServedIn(new, {"take"})) = Cardinality(ServedIn(th, {"take"})) + 1
      BY <1>1, <3>1, FirstIsReady, Zenon
    <3> QED
      BY <2>1, <3>1, <3>2, Zenon
  <2>3. th' = new /\ semq' = QTail(semq)
    BY <1>3, <1>7
  <2> HIDE DEF new
  <2>4. SemOK(Len(free'), semcnt', semq', th')
    BY <1>1, <1>2, <1>3, <1>6, <2>1, <2>2, <2>3, SMTT(60) DEF SemOK
  <2> QED
    BY <1>1, <1>3, <1>4, <1>5, <2>2, <2>3, <2>4, FifoNextInv, Zenon
<1>8. CASE ~(semcnt < 0)
  <2>1. th' = th /\ semq' = semq /\ semq = <<>> /\ semcnt' = semcnt + 1
    BY <1>1, <1>2, <1>3, <1>8
  <2>2. /\ Lists(semq, Waits(th, "take")) /\ Len(free) \in Nat /\ Len(semq) \in Nat
        /\ Cardinality(ServedIn(th, {"take"})) \in Nat
    BY <1>1, Zenon
  <2>3. SemOK(Len(free'), semcnt', semq', th')
    BY <1>2, <1>6, <2>1, <2>2 DEF SemOK
  <2> QED
    BY <1>1, <1>3, <1>4, <1>5, <2>1, <2>3, FifoNextInv, Zenon
<1> QED
  BY <1>7, <1>8

\* chFifoSendObject and its variants: the post does not fail.
LEMMA SendStep ==
  ASSUME FifoInv, NEW obj, NEW op \in {"post", "ahead"}, chFifoSendObject(obj, op)
  PROVE  FifoInv'
<1> DEFINE new == ReadyNext(th, qr)
<1>1. /\ ThreadsIn(th) /\ RingOK /\ reset = FALSE /\ qw = <<>>
      /\ Lists(qr, Waits(th, "fetch"))
      /\ SemOK(Len(free), semcnt, semq, th) /\ PlacesOK(free, Content, held)
  BY FifoFacts, Zenon
<1>2. obj \in held /\ held' = held \ {obj} /\ free' = free /\ semcnt' = semcnt /\ semq' = semq
  BY DEF chFifoSendObject
<1>3. cnt < N
  <2>1. Len(Content) < N
    BY <1>1, <1>2, RoomForIt, Zenon
  <2>2. Len(Content) = cnt
    BY <1>1, ContentSeq DEF RingOK, Content
  <2> QED
    BY <2>1, <2>2
<1>4. Possible(op) /\ op # "fetch"
  BY <1>3 DEF Possible
<1>5. Transfer(op, obj, th)
  BY <1>1, <1>4, Zenon DEF chFifoSendObject, CallI
<1>6. Operation(op, obj)
  BY <1>1, <1>2 DEF Operation, PlacesOK, Objects
<1>7. RingOK' /\ Content' = ContentAfter(op, obj)
  <2>1. Moved(op, obj)
    BY <1>5 DEF Transfer
  <2> QED
    BY <1>1, <1>4, <1>6, <2>1, MoveStep, Zenon
<1>8. PlacesOK(free', Content', held')
  <2>1. PlacesOK(free, Append(Content, obj), held \ {obj}) /\ PlacesOK(free, <<obj>> \o Content, held \ {obj})
    BY <1>1, <1>2, ToMail, Zenon
  <2>2. Content' = Append(Content, obj) \/ Content' = <<obj>> \o Content
    BY <1>7 DEF ContentAfter
  <2> QED
    BY <1>2, <2>1, <2>2, Zenon
<1>9. th' = new /\ qr' = QTail(qr) /\ qw' = qw /\ reset' = reset
  BY <1>4, <1>5, Zenon DEF Transfer
<1>10. /\ ThreadsIn(new) /\ Lists(QTail(qr), Waits(new, "fetch")) /\ Waits(new, "take") = Waits(th, "take")
       /\ ServedIn(new, {"take"}) = ServedIn(th, {"take"})
  <2>1. "take" # "fetch" /\ "fetch" \in {"take", "fetch"}
    OBVIOUS
  <2>2. ThreadsIn(th) /\ Lists(qr, Waits(th, "fetch"))
    BY <1>1, Zenon
  <2> QED
    BY <2>1, <2>2, FirstIsReady, ZenonT(60)
<1> HIDE DEF new
<1>11. SemOK(Len(free'), semcnt', semq', th')
  BY <1>1, <1>2, <1>9, <1>10, SemKept, Zenon
<1> QED
  BY <1>1, <1>7, <1>8, <1>9, <1>10, <1>11, FifoNextInv, Zenon

\* A fetch that succeeds, with ths the threads before it, in a mailbox in which
\* no writer waits.
LEMMA FetchMoves ==
  ASSUME FifoInv, NEW m, NEW ths, Transfer("fetch", m, ths), Received
  PROVE  /\ th' = ths /\ RingOK' /\ reset' = FALSE /\ qw' = <<>> /\ qr' = qr
         /\ PlacesOK(free, Content', held')
<1>1. RingOK /\ reset = FALSE /\ qw = <<>> /\ PlacesOK(free, Content, held)
  BY FifoFacts, Zenon
<1>2. /\ Possible("fetch") /\ Moved("fetch", m) /\ th' = ReadyNext(ths, qw) /\ qw' = QTail(qw)
      /\ qr' = qr /\ reset' = reset
  BY Zenon DEF Transfer
<1>3. Operation("fetch", m)
  BY DEF Operation
<1>4. RingOK' /\ Content' = ContentAfter("fetch", m) /\ Content # <<>>
  BY <1>1, <1>2, <1>3, MoveStep, Zenon
<1>5. Content' = Tail(Content)
  BY <1>4, Zenon DEF ContentAfter
<1>6. th' = ths /\ qw' = <<>>
  BY <1>1, <1>2 DEF ReadyNext, QTail
<1>7. cnt' < cnt /\ Head(Content) = buffer[rdptr]
  <2>1. cnt > 0 /\ cnt' = cnt - 1 /\ cnt \in 0 .. N /\ N \in Nat /\ rdptr \in Slots
        /\ buffer \in [Slots -> Msgs]
    BY <1>1, <1>2, MBoxAssumption DEF Possible, Moved, RingOK
  <2>2. Content \in Seq(Msgs) /\ Len(Content) = cnt /\ Content[1] = buffer[RingAt(rdptr, 0)]
    BY <2>1, ContentSeq DEF Content
  <2>3. RingAt(rdptr, 0) = rdptr
    BY <2>1 DEF RingAt, Slots
  <2> QED
    BY <2>1, <2>2, <2>3
<1>8. held' = held \cup {Head(Content)}
  BY <1>7 DEF Received
<1>9. PlacesOK(free, Content', held')
  BY <1>1, <1>4, <1>5, <1>8, FromMail, Zenon
<1> QED
  BY <1>1, <1>2, <1>4, <1>6, <1>9

\* What is left to show of a step of the mailbox.
LEMMA MailNext ==
  ASSUME FifoInv, UNCHANGED <<free, semcnt, semq>>, RingOK', reset' = FALSE, qw' = <<>>,
         ThreadsIn(th'), Lists(qr', Waits(th', "fetch")), PlacesOK(free, Content', held'),
         Waits(th', "take") = Waits(th, "take"), ServedIn(th', {"take"}) = ServedIn(th, {"take"})
  PROVE  FifoInv'
<1>1. SemOK(Len(free), semcnt, semq, th)
  BY FifoFacts, Zenon
<1>2. SemOK(Len(free), semcnt, semq, th')
  BY <1>1, SemKept, Zenon
<1>3. free' = free /\ semcnt' = semcnt /\ semq' = semq
  OBVIOUS
<1>4. SemOK(Len(free'), semcnt', semq', th') /\ PlacesOK(free', Content', held')
  BY <1>2, <1>3, Zenon
<1> QED
  BY <1>4, FifoNextInv, Zenon

\* The ring and the objects stay when the mailbox' ring does.
LEMMA RingStays ==
  ASSUME FifoInv, UNCHANGED ringvars, Received
  PROVE  RingOK' /\ reset' = FALSE /\ PlacesOK(free, Content', held')
<1>1. RingOK /\ reset = FALSE /\ PlacesOK(free, Content, held) /\ cnt \in Int
  BY FifoFacts DEF RingOK
<1>2. buffer' = buffer /\ rdptr' = rdptr /\ wrptr' = wrptr /\ cnt' = cnt /\ reset' = reset
  BY DEF ringvars
<1>3. RingOK' /\ Content' = Content
  BY <1>1, <1>2, RingKept
<1>4. held' = held
  BY <1>1, <1>2 DEF Received
<1> QED
  BY <1>1, <1>2, <1>3, <1>4, Zenon

\* A thread that does not wait tries to fetch.
LEMMA AttemptFetch ==
  ASSUME FifoInv, NEW t \in Threads, th[t].at # "queued", t \notin ServedIn(th, {"take"}),
         NEW m \in Msgs, Attempt(t, "fetch", m), Received, UNCHANGED <<free, semcnt, semq>>
  PROVE  FifoInv'
<1>1. ThreadsIn(th) /\ reset = FALSE /\ qw = <<>> /\ Lists(qr, Waits(th, "fetch"))
  BY FifoFacts, Zenon
<1>2. CASE Transfer("fetch", m, [th EXCEPT ![t] = Out])
  <2> DEFINE new == Changed(th, t, Out)
  <2>1. /\ ThreadsIn(new) /\ Waits(new, "fetch") = Waits(th, "fetch") /\ Waits(new, "take") = Waits(th, "take")
        /\ ServedIn(new, {"take"}) = ServedIn(th, {"take"}) \ {t}
    BY <1>1, ThreadReturns
  <2>2. Transfer("fetch", m, new)
    BY <1>2 DEF Changed
  <2> HIDE DEF new
  <2>3. /\ th' = new /\ RingOK' /\ reset' = FALSE /\ qw' = <<>> /\ qr' = qr
        /\ PlacesOK(free, Content', held')
    BY <2>2, FetchMoves, Zenon
  <2>4. ServedIn(th', {"take"}) = ServedIn(th, {"take"})
    BY <2>1, <2>3
  <2> QED
    BY <1>1, <2>1, <2>3, <2>4, MailNext, Zenon
<1>3. CASE Enqueue(t, "fetch", m)
  <2> DEFINE new == Changed(th, t, Queued("fetch", m))
  <2>1. /\ th' = new /\ qr' = Append(qr, t) /\ qw' = qw /\ UNCHANGED ringvars
    BY <1>3, Zenon DEF Enqueue, Changed
  <2>2. /\ ThreadsIn(new) /\ Lists(Append(qr, t), Waits(new, "fetch"))
        /\ Waits(new, "take") = Waits(th, "take")
        /\ ServedIn(new, {"take"}) = ServedIn(th, {"take"}) \ {t}
    <3>1. ThreadsIn(th) /\ Lists(qr, Waits(th, "fetch"))
      BY <1>1, Zenon
    <3> QED
      BY <3>1, FetchSleeps, Zenon
  <2> HIDE DEF new
  <2>3. RingOK' /\ reset' = FALSE /\ PlacesOK(free, Content', held')
    BY <2>1, RingStays, Zenon
  <2>4. ServedIn(th', {"take"}) = ServedIn(th, {"take"})
    BY <2>1, <2>2, Zenon
  <2> QED
    BY <1>1, <2>1, <2>2, <2>3, <2>4, MailNext, Zenon
<1> QED
  BY <1>1, <1>2, <1>3, Zenon DEF Attempt

\* chFifoReceiveObjectTimeout, from the call to its return.
LEMMA ReceiveStep ==
  ASSUME FifoInv, chFifoReceiveObject
  PROVE  FifoInv'
<1>1. /\ ThreadsIn(th) /\ th \in [Threads -> Calls] /\ reset = FALSE /\ qw = <<>>
      /\ Lists(qr, Waits(th, "fetch"))
  BY FifoFacts, Zenon
<1>2. Received /\ UNCHANGED <<free, semcnt, semq>> /\ NoMsg \in Msgs
  BY DEF chFifoReceiveObject, Msgs
<1>3. CASE CallI("fetch", NoMsg)
  <2>1. /\ th' = th /\ RingOK' /\ reset' = FALSE /\ qw' = <<>> /\ qr' = qr
        /\ PlacesOK(free, Content', held')
    BY <1>2, <1>3, FetchMoves, Zenon DEF CallI
  <2> QED
    BY <1>1, <1>2, <2>1, MailNext, Zenon
<1>4. ASSUME NEW t \in Threads, Call(t, "fetch", NoMsg) PROVE FifoInv'
  <2>1. th[t].at # "queued" /\ t \notin ServedIn(th, {"take"}) /\ Attempt(t, "fetch", NoMsg)
    BY <1>4 DEF Call, ServedIn
  <2> QED
    BY <1>2, <2>1, AttemptFetch, Zenon
<1>5. ASSUME NEW t \in Threads, th[t].op = "fetch", Continue(t) PROVE FifoInv'
  <2>1. th[t].at # "queued" /\ t \notin ServedIn(th, {"take"}) /\ th[t].msg \in Msgs
    BY <1>1, <1>5 DEF Continue, ServedIn, Calls
  <2>2. CASE th[t].rdymsg = "MSG_OK"
    <3>1. Attempt(t, "fetch", th[t].msg)
      BY <1>5, <2>2 DEF Continue
    <3> QED
      BY <1>2, <2>1, <3>1, AttemptFetch, Zenon
  <2>3. CASE th[t].rdymsg # "MSG_OK"
    <3> DEFINE new == Changed(th, t, Out)
    <3>1. th' = new /\ UNCHANGED ringvars /\ qw' = qw /\ qr' = qr
      BY <1>5, <2>3 DEF Continue, Changed
    <3>2. /\ ThreadsIn(new) /\ Waits(new, "fetch") = Waits(th, "fetch") /\ Waits(new, "take") = Waits(th, "take")
          /\ ServedIn(new, {"take"}) = ServedIn(th, {"take"}) \ {t}
      BY <1>1, <2>1, ThreadReturns, Zenon
    <3> HIDE DEF new
    <3>3. RingOK' /\ reset' = FALSE /\ PlacesOK(free, Content', held')
      BY <1>2, <3>1, RingStays, Zenon
    <3>4. ServedIn(th', {"take"}) = ServedIn(th, {"take"})
      BY <2>1, <3>1, <3>2
    <3> QED
      BY <1>1, <1>2, <3>1, <3>2, <3>3, <3>4, MailNext, Zenon
  <2> QED
    BY <2>2, <2>3
<1>6. ASSUME NEW t \in Threads, th[t].op = "fetch", Timeout(t) PROVE FifoInv'
  <2> DEFINE new == Changed(th, t, Late(th, t))
  <2>1. t \in Waits(th, "fetch")
    BY <1>6 DEF Timeout, Waits
  <2>2. th' = new
    BY <1>1, <1>6, Zenon DEF Timeout, Changed, Late
  <2>3. /\ qr' = (IF InQueue(qr, t) THEN Without(qr, t) ELSE qr)
        /\ qw' = (IF InQueue(qw, t) THEN Without(qw, t) ELSE qw) /\ UNCHANGED ringvars
    BY <1>6, Zenon DEF Timeout
  <2>4. /\ ThreadsIn(new) /\ Lists(Without(qr, t), Waits(new, "fetch")) /\ InQueue(qr, t)
        /\ Waits(new, "take") = Waits(th, "take")
        /\ ServedIn(new, {"take"}) = ServedIn(th, {"take"})
    <3>1. "take" # "fetch"
      OBVIOUS
    <3>2. ThreadsIn(th) /\ Lists(qr, Waits(th, "fetch"))
      BY <1>1, Zenon
    <3> QED
      BY <2>1, <3>1, <3>2, ThreadTimesOut
  <2> HIDE DEF new
  <2>5. qr' = Without(qr, t) /\ qw' = <<>>
    BY <1>1, <2>3, <2>4 DEF InQueue
  <2>6. RingOK' /\ reset' = FALSE /\ PlacesOK(free, Content', held')
    BY <1>2, <2>3, RingStays, Zenon
  <2> QED
    BY <1>2, <2>2, <2>4, <2>5, <2>6, MailNext, Zenon
<1> QED
  BY <1>3, <1>4, <1>5, <1>6, Zenon DEF chFifoReceiveObject

-----------------------------------------------------------------------------
(* The FIFO *)

\* chFifoObjectInitAligned: the pool has every object.
LEMMA FifoStart ==
  ASSUME FifoInit
  PROVE  FifoInv
<1> DEFINE n == Cardinality(Objects)
           Full(s) == \A obj \in Objects : InQueue(s, obj)
<1>1. MBoxInit /\ free = (CHOOSE s \in [1 .. n -> Objects] : Full(s)) /\ semcnt = n /\ semq = <<>> /\ held = {}
  BY Zenon DEF FifoInit
<1>2. IsFiniteSet(Objects) /\ n \in Nat /\ ExistsBijection(1 .. n, Objects)
  BY FifoAssumption, FS_CardinalityType
<1>3. \E s \in [1 .. n -> Objects] : Full(s)
  <2>1. PICK s \in Bijection(1 .. n, Objects) : TRUE
    BY <1>2 DEF ExistsBijection
  <2>2. s \in [1 .. n -> Objects] /\ (\A obj \in Objects : \E i \in 1 .. n : s[i] = obj) /\ DOMAIN s = 1 .. n
    BY <2>1 DEF Bijection, Surjection
  <2> QED
    BY <2>2, Zenon DEF InQueue
<1>4. free \in [1 .. n -> Objects] /\ Full(free)
  <2> HIDE DEF Full
  <2> QED
    BY <1>1, <1>3, Zenon
<1>5. free \in Surjection(1 .. n, Objects) /\ DOMAIN free = 1 .. n
  BY <1>4 DEF Surjection, InQueue
<1>6. IsFiniteSet(1 .. n) /\ Cardinality(1 .. n) = n
  BY <1>2, FS_Interval
<1> HIDE DEF n
<1>7. free \in Injection(1 .. n, Objects)
  BY <1>5, <1>6, FS_SurjSameCardinalityImpliesInj DEF n
<1>8. Lists(free, Objects) /\ Len(free) = n
  <2>1. free \in Seq(Objects) /\ Len(free) = n
    BY <1>2, <1>4
  <2>2. IsInjective(free)
    BY <1>7 DEF Injection
  <2>3. Range(free) = Objects
    BY <1>4, <1>5 DEF Range, InQueue
  <2> QED
    BY <2>1, <2>2, <2>3 DEF Lists
<1>9. MBoxInv /\ Content = <<>>
  BY <1>1, InitGood
<1>10. RingOK /\ reset = FALSE /\ qw = <<>> /\ qr = <<>> /\ th = [t \in Threads |-> Out]
  BY <1>1, <1>9, MBoxParts DEF MBoxInit
<1>11. ThreadsIn(th)
  BY <1>10, OutIsCall DEF ThreadsIn, QueuedOK
<1>12. Waits(th, "take") = {} /\ Waits(th, "fetch") = {} /\ ServedIn(th, {"take"}) = {}
  BY <1>10, OutIsCall DEF Waits, ServedIn
<1>13. MailOK
  BY <1>10, <1>12, ListsNone, Zenon DEF MailOK
<1>14. SemOK(Len(free), semcnt, semq, th)
  <2>1. Cardinality(ServedIn(th, {"take"})) = 0
    BY <1>12, FS_EmptySet
  <2>2. Lists(semq, Waits(th, "take")) /\ Len(semq) = 0
    BY <1>1, <1>12, ListsNone, Zenon
  <2> QED
    BY <1>1, <1>2, <1>8, <2>1, <2>2 DEF SemOK, n
<1>15. PlacesOK(free, Content, held)
  <2>1. Lists(free, Objects) /\ Lists(Content, {}) /\ Objects \cap {} = {} /\ Objects \cup {} = Objects \ held
    BY <1>1, <1>8, <1>9, ListsNone
  <2> QED
    BY <1>1, <2>1, Zenon DEF PlacesOK
<1> QED
  BY <1>11, <1>13, <1>14, <1>15, Zenon DEF FifoInv

\* Each step of the application's threads and handlers.
LEMMA FifoStep ==
  ASSUME FifoInv, [FifoNext]_fifovars
  PROVE  FifoInv'
<1>1. CASE FifoNext
  BY <1>1, TakeStep, ContinueTakeStep, TimeoutTakeStep, TakeIStep, ReturnStep, SendStep, ReceiveStep, Zenon
     DEF FifoNext
<1>2. CASE UNCHANGED fifovars
  <2>1. /\ UNCHANGED <<free, held, ringvars, qw>> /\ qr' = qr /\ th' = th /\ semcnt' = semcnt /\ semq' = semq
    BY <1>2 DEF fifovars, mboxvars, poolvars
  <2>2. /\ RingOK' /\ reset' = FALSE /\ qw' = <<>> /\ PlacesOK(free', Content', held')
    BY <2>1, NothingMoves, Zenon
  <2>3. free' = free
    BY <2>1
  <2> QED
    BY FifoFacts, <2>1, <2>2, <2>3, FifoNextInv, Zenon
<1> QED
  BY <1>1, <1>2

\* What the lists of PlacesOK say of the sequence of all places.
LEMMA PlacesConserved ==
  ASSUME PlacesOK(free, Content, held)
  PROVE  ObjectsConserved
<1> DEFINE s == free \o Content
<1>1. PICK F, C : Lists(free, F) /\ Lists(Content, C) /\ F \cap C = {} /\ F \cup C = Objects \ held
  BY DEF PlacesOK
<1>2. /\ free \in Seq(F) /\ Content \in Seq(C) /\ IsInjective(free) /\ IsInjective(Content)
      /\ Range(free) = F /\ Range(Content) = C
  BY <1>1 DEF Lists
<1> DEFINE a == Len(free)
           b == Len(Content)
<1>3. /\ a \in Nat /\ b \in Nat /\ DOMAIN free = 1 .. a /\ DOMAIN Content = 1 .. b
      /\ \A i \in 1 .. a : free[i] \in F
      /\ \A i \in 1 .. b : Content[i] \in C
  BY <1>2
<1>4. free \in Seq(F \cup C) /\ Content \in Seq(F \cup C)
  BY <1>2
<1>5. /\ DOMAIN s = 1 .. a + b
      /\ \A i \in 1 .. a : s[i] = free[i]
      /\ \A i \in 1 .. b : s[a + i] = Content[i]
  BY <1>4
<1>6. ASSUME NEW i \in 1 .. a + b PROVE i \in 1 .. a \/ (i - a \in 1 .. b /\ s[i] = Content[i - a])
  BY <1>3, <1>5
<1> HIDE DEF s, a, b
<1>7. ASSUME NEW obj \in Objects PROVE (obj \in held) # InQueue(s, obj)
  <2>1. ASSUME obj \in F PROVE InQueue(s, obj)
    <3>1. PICK i \in 1 .. a : free[i] = obj
      BY <1>2, <1>3, <2>1 DEF Range
    <3>2. i \in 1 .. a + b
      BY <1>3
    <3> QED
      BY <1>5, <3>1, <3>2 DEF InQueue
  <2>2. ASSUME obj \in C PROVE InQueue(s, obj)
    <3>1. PICK i \in 1 .. b : Content[i] = obj
      BY <1>2, <1>3, <2>2 DEF Range
    <3>2. a + i \in 1 .. a + b
      BY <1>3
    <3> QED
      BY <1>5, <3>1, <3>2 DEF InQueue
  <2>3. ASSUME InQueue(s, obj) PROVE obj \in F \cup C
    <3>1. PICK i \in 1 .. a + b : s[i] = obj
      BY <1>5, <2>3 DEF InQueue
    <3> QED
      BY <1>3, <1>5, <1>6, <3>1
  <2> QED
    BY <1>1, <2>1, <2>2, <2>3, Zenon DEF InQueue
<1>8. ASSUME NEW i \in DOMAIN s, NEW j \in DOMAIN s, s[i] = s[j] PROVE i = j
  <2>1. \A x, y \in 1 .. a : free[x] = free[y] => x = y
    BY <1>2, <1>3 DEF IsInjective
  <2>2. \A x, y \in 1 .. b : Content[x] = Content[y] => x = y
    BY <1>2, <1>3 DEF IsInjective
  <2>3. i \in Int /\ j \in Int /\ i \in 1 .. a + b /\ j \in 1 .. a + b
    BY <1>3, <1>5
  <2>4. CASE i \in 1 .. a /\ j \in 1 .. a
    BY <1>5, <1>8, <2>1, <2>4
  <2>5. CASE i \in 1 .. a /\ j \notin 1 .. a
    BY <1>1, <1>3, <1>5, <1>6, <1>8, <2>3, <2>5
  <2>6. CASE i \notin 1 .. a /\ j \in 1 .. a
    BY <1>1, <1>3, <1>5, <1>6, <1>8, <2>3, <2>6
  <2>7. CASE i \notin 1 .. a /\ j \notin 1 .. a
    <3>1. i - a = j - a
      BY <1>6, <1>8, <2>2, <2>3, <2>7
    <3> QED
      BY <1>3, <2>3, <3>1
  <2> QED
    BY <2>4, <2>5, <2>6, <2>7
<1>9. free \o [i \in 1 .. cnt |-> buffer[At(i - 1)]] = s
  BY ContentIs, Zenon DEF s
<1> QED
  BY <1>7, <1>8, <1>9, Zenon DEF ObjectsConserved

\* Every object is in one place, the pool, the mailbox or with the application,
\* and so no post of an object fails, for any number of objects and threads.
THEOREM ObjectsStay == FifoSpec => []ObjectsConserved
<1>1. FifoInit => FifoInv
  BY FifoStart
<1>2. FifoInv /\ [FifoNext]_fifovars => FifoInv'
  BY FifoStep
<1>3. FifoInv => ObjectsConserved
  BY PlacesConserved DEF FifoInv
<1> QED
  BY <1>1, <1>2, <1>3, PTL DEF FifoSpec

\* The semaphore of the pool counts its objects, and a thread that its wait has
\* made ready finds one, for any number of objects and threads.
THEOREM PoolStaysInSync == FifoSpec => []PoolInSync
<1>1. FifoInit => FifoInv
  BY FifoStart
<1>2. FifoInv /\ [FifoNext]_fifovars => FifoInv'
  BY FifoStep
<1>3. FifoInv => PoolInSync
  BY Zenon DEF FifoInv, SemOK, PoolInSync, Served, ServedIn
<1> QED
  BY <1>1, <1>2, <1>3, PTL DEF FifoSpec

=============================================================================
