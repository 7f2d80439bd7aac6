--------------------------- MODULE ChMtxStepProofs ----------------------------
(***************************************************************************)
(* First, what the thread queue operations and the scheduler primitives of *)
(* ChSched do, for any number of threads.  A queue operation keeps which   *)
(* threads a queue holds, each once, in the order of the priorities; a     *)
(* primitive keeps the ready list the priority-ordered list of the ready   *)
(* threads, and one that may change the running thread leaves nobody ready *)
(* above it.  The proofs about the modules that call them cite these       *)
(* lemmas and never look into the primitives.                              *)
(*                                                                         *)
(* Then: LockInv holds initially, and these steps of ChMtx keep it: the    *)
(* thread functions, the interrupt handlers, the calls that lock a mutex   *)
(* without waiting for it; the start of chMtxLockS, its inheritance loop   *)
(* and its return; the start of chMtxUnlockAll.                            *)
(***************************************************************************)
EXTENDS ChMtx, WellFoundedInduction, TLAPS

-----------------------------------------------------------------------------
(* Thread queues *)

\* A non-empty set of naturals has a least element, and Min is it.
LEMMA MinNat ==
  ASSUME NEW S \in SUBSET Nat, S # {}
  PROVE  Min(S) \in S /\ \A y \in S : Min(S) <= y
<1> DEFINE R == OpToRel(<, Nat)
<1>1. IsWellFoundedOn(R, Nat)
  BY NatLessThanWellFounded, Zenon
<1>2. \A x, y \in Nat : y < x => <<y, x>> \in R
  BY DEF OpToRel
<1> HIDE DEF R
<1>3. PICK x \in S : \A y \in S : ~ (<<y, x>> \in R)
  BY <1>1, WFMin, Zenon
<1>4. \A y \in S : x <= y
  <2> TAKE y \in S
  <2>1. x \in Nat /\ y \in Nat
    OBVIOUS
  <2>2. ~(y < x)
    BY <2>1, <1>2, <1>3, Zenon
  <2> QED BY <2>1, <2>2
<1>5. \E z \in S : \A y \in S : z <= y
  BY <1>4
<1> QED BY <1>5, Zenon DEF Min

\* PutAt(q, i, t), element by element.
LEMMA PutAtElements ==
  ASSUME NEW T, NEW q \in Seq(T), NEW i \in 1 .. Len(q) + 1, NEW t \in T
  PROVE  /\ PutAt(q, i, t) \in Seq(T)
         /\ Len(PutAt(q, i, t)) = Len(q) + 1
         /\ \A j \in 1 .. Len(q) + 1 :
              PutAt(q, i, t)[j] = IF j < i THEN q[j] ELSE IF j = i THEN t ELSE q[j-1]
<1> DEFINE r == PutAt(q, i, t)
<1>1. Len(q) \in Nat /\ \A j \in 1 .. Len(q) : q[j] \in T
  OBVIOUS
<1>2. ASSUME NEW j \in 1 .. Len(q) + 1
      PROVE  (IF j < i THEN q[j] ELSE IF j = i THEN t ELSE q[j-1]) \in T
  BY <1>1
<1>3. r \in Seq(T) /\ Len(r) = Len(q) + 1
  BY <1>1, <1>2 DEF PutAt
<1> QED BY <1>3 DEF PutAt

\* DropAt(q, i), element by element.
LEMMA DropAtElements ==
  ASSUME NEW T, NEW q \in Seq(T), NEW i \in 1 .. Len(q)
  PROVE  /\ DropAt(q, i) \in Seq(T)
         /\ Len(DropAt(q, i)) = Len(q) - 1
         /\ \A j \in 1 .. Len(q) - 1 :
              DropAt(q, i)[j] = IF j < i THEN q[j] ELSE q[j+1]
<1> DEFINE r == DropAt(q, i)
<1>1. Len(q) \in Nat /\ \A j \in 1 .. Len(q) : q[j] \in T
  OBVIOUS
<1>2. ASSUME NEW j \in 1 .. Len(q) - 1
      PROVE  (IF j < i THEN q[j] ELSE q[j+1]) \in T
  BY <1>1
<1>3. r \in Seq(T) /\ Len(r) = Len(q) - 1
  BY <1>1, <1>2 DEF DropAt
<1> QED BY <1>3 DEF DropAt

\* What an insertion does to the set of the elements, to injectivity and to
\* the order, given where it inserts.
LEMMA PutAtSet ==
  ASSUME NEW T, NEW q \in Seq(T), NEW i \in 1 .. Len(q) + 1, NEW t \in T
  PROVE  /\ Range(PutAt(q, i, t)) = Range(q) \cup {t}
         /\ IsInjective(q) /\ t \notin Range(q) => IsInjective(PutAt(q, i, t))
<1> DEFINE r == PutAt(q, i, t)
<1>0. Len(q) \in Nat /\ i \in Nat /\ DOMAIN q = 1 .. Len(q)
  OBVIOUS
<1>1. /\ r \in Seq(T) /\ Len(r) = Len(q) + 1
      /\ \A j \in 1 .. Len(q) + 1 :
           r[j] = IF j < i THEN q[j] ELSE IF j = i THEN t ELSE q[j-1]
  <2>1. r \in Seq(T)
    BY PutAtElements
  <2>2. Len(r) = Len(q) + 1
    BY PutAtElements
  <2>3. ASSUME NEW j \in 1 .. Len(q) + 1
        PROVE  r[j] = IF j < i THEN q[j] ELSE IF j = i THEN t ELSE q[j-1]
    BY PutAtElements
  <2> QED BY <2>1, <2>2, <2>3
<1>2. DOMAIN r = 1 .. Len(q) + 1
  BY <1>1
<1> HIDE DEF r
<1>3. ASSUME NEW x \in Range(r) PROVE x \in Range(q) \cup {t}
  <2>1. PICK j \in 1 .. Len(q) + 1 : x = r[j]
    BY <1>2 DEF Range
  <2>2. CASE j < i
    BY <2>1, <2>2, <1>0, <1>1 DEF Range
  <2>3. CASE j = i
    BY <2>1, <2>3, <1>0, <1>1
  <2>4. CASE j > i
    <3>1. j - 1 \in 1 .. Len(q)
      BY <2>4, <1>0
    <3>2. x = q[j-1]
      BY <2>1, <2>4, <1>0, <1>1
    <3> QED BY <3>1, <3>2, <1>0 DEF Range
  <2> QED BY <2>2, <2>3, <2>4, <1>0
<1>4. t \in Range(r)
  <2>1. r[i] = t
    BY <1>0, <1>1
  <2> QED BY <2>1, <1>0, <1>2 DEF Range
<1>5. ASSUME NEW x \in Range(q) PROVE x \in Range(r)
  <2>1. PICK j \in 1 .. Len(q) : x = q[j]
    BY <1>0 DEF Range
  <2>2. CASE j < i
    <3>1. r[j] = q[j] /\ j \in 1 .. Len(q) + 1
      BY <2>2, <1>0, <1>1
    <3> QED BY <3>1, <2>1, <1>2 DEF Range
  <2>3. CASE j >= i
    <3>1. j + 1 \in 1 .. Len(q) + 1 /\ ~(j + 1 < i) /\ j + 1 # i /\ (j + 1) - 1 = j
      BY <2>3, <1>0
    <3>2. r[j + 1] = q[(j + 1) - 1]
      BY <3>1, <1>1
    <3>3. q[(j + 1) - 1] = q[j]
      BY <3>1, Zenon
    <3> QED BY <3>1, <3>2, <3>3, <2>1, <1>2 DEF Range
  <2> QED BY <2>2, <2>3, <1>0
<1>6. ASSUME IsInjective(q), t \notin Range(q),
             NEW j \in 1 .. Len(q) + 1, NEW k \in 1 .. Len(q) + 1, j < k
      PROVE  r[j] # r[k]
  <2>0. j \in Nat /\ k \in Nat
    BY <1>0
  <2>1. \A n \in 1 .. Len(q) : q[n] # t
    BY <1>6, <1>0 DEF Range
  <2>2. \A m, n \in 1 .. Len(q) : q[m] = q[n] => m = n
    BY <1>6, <1>0 DEF IsInjective
  <2>3. CASE j < i /\ k < i
    <3>1. r[j] = q[j] /\ r[k] = q[k] /\ j \in 1 .. Len(q) /\ k \in 1 .. Len(q) /\ j # k
      BY <2>3, <1>0, <1>1, <1>6, <2>0
    <3> QED BY <3>1, <2>2, Zenon
  <2>4. CASE j < i /\ k = i
    <3>1. r[j] = q[j] /\ r[k] = t /\ j \in 1 .. Len(q)
      BY <2>4, <1>0, <1>1, <2>0
    <3> QED BY <3>1, <2>1, Zenon
  <2>5. CASE j < i /\ k > i
    <3>1. r[j] = q[j] /\ r[k] = q[k-1] /\ j \in 1 .. Len(q) /\ k - 1 \in 1 .. Len(q) /\ j # k - 1
      BY <2>5, <1>0, <1>1, <2>0
    <3> QED BY <3>1, <2>2, Zenon
  <2>6. CASE j = i
    <3>1. r[j] = t /\ r[k] = q[k-1] /\ k - 1 \in 1 .. Len(q)
      BY <2>6, <1>0, <1>1, <1>6, <2>0
    <3> QED BY <3>1, <2>1, Zenon
  <2>7. CASE j > i
    <3>1. r[j] = q[j-1] /\ r[k] = q[k-1] /\ j - 1 \in 1 .. Len(q) /\ k - 1 \in 1 .. Len(q) /\ j - 1 # k - 1
      BY <2>7, <1>0, <1>1, <1>6, <2>0
    <3> QED BY <3>1, <2>2, Zenon
  <2> QED BY <2>3, <2>4, <2>5, <2>6, <2>7, <1>0, <2>0
<1>7. ASSUME IsInjective(q), t \notin Range(q) PROVE IsInjective(r)
  <2> SUFFICES ASSUME NEW j \in 1 .. Len(q) + 1, NEW k \in 1 .. Len(q) + 1, j # k
               PROVE  r[j] # r[k]
    BY <1>2 DEF IsInjective
  <2>1. j < k \/ k < j
    BY <1>0
  <2> QED BY <2>1, <1>6, <1>7
<1> QED BY <1>3, <1>4, <1>5, <1>7 DEF r

\* An insertion between no less and no more keeps the order.
LEMMA PutAtSorted ==
  ASSUME NEW T, NEW q \in Seq(T), NEW i \in 1 .. Len(q) + 1, NEW t \in T,
         NEW prio \in [T -> Nat],
         Sorted(q, prio),
         \A j \in 1 .. Len(q) : j < i => prio[q[j]] >= prio[t],
         \A j \in 1 .. Len(q) : j >= i => prio[q[j]] <= prio[t]
  PROVE  Sorted(PutAt(q, i, t), prio)
<1> DEFINE r == PutAt(q, i, t)
<1>0. Len(q) \in Nat /\ i \in Nat /\ DOMAIN q = 1 .. Len(q)
  OBVIOUS
<1>1. r \in Seq(T) /\ Len(r) = Len(q) + 1
  <2>1. r \in Seq(T)
    BY PutAtElements
  <2>2. Len(r) = Len(q) + 1
    BY PutAtElements
  <2> QED BY <2>1, <2>2
<1>2. DOMAIN r = 1 .. Len(q) + 1
  BY <1>1
<1>3. ASSUME NEW j \in 1 .. Len(q) + 1
      PROVE  r[j] = IF j < i THEN q[j] ELSE IF j = i THEN t ELSE q[j-1]
  BY PutAtElements
<1> HIDE DEF r
<1>4. \A m, n \in 1 .. Len(q) : m < n => prio[q[m]] >= prio[q[n]]
  BY <1>0, Zenon DEF Sorted
<1>5. \A m \in 1 .. Len(q) : prio[q[m]] \in Nat
  OBVIOUS
<1>6. prio[t] \in Nat
  OBVIOUS
<1>7. ASSUME NEW j \in 1 .. Len(q) + 1, NEW k \in 1 .. Len(q) + 1, j < k
      PROVE  prio[r[j]] >= prio[r[k]]
  <2>0. j \in Nat /\ k \in Nat
    BY <1>0
  <2>3. CASE k < i
    <3>1. r[j] = q[j] /\ r[k] = q[k] /\ j \in 1 .. Len(q) /\ k \in 1 .. Len(q)
      BY <2>3, <1>0, <1>3, <1>7, <2>0
    <3> QED BY <3>1, <1>4, <1>7
  <2>4. CASE k = i
    <3>1. r[j] = q[j] /\ r[k] = t /\ j \in 1 .. Len(q) /\ j < i
      BY <2>4, <1>0, <1>3, <1>7, <2>0
    <3> QED BY <3>1
  <2>5. CASE j < i /\ k > i
    <3>1. r[j] = q[j] /\ r[k] = q[k-1] /\ j \in 1 .. Len(q) /\ k - 1 \in 1 .. Len(q) /\ k - 1 >= i
      BY <2>5, <1>0, <1>3, <2>0
    <3>2. prio[q[j]] >= prio[t] /\ prio[t] >= prio[q[k-1]]
      BY <3>1, <2>5, <1>5, <1>6, SMTT(30)
    <3> QED BY <3>1, <3>2, <1>5, <1>6, SMTT(30)
  <2>6. CASE j = i
    <3>1. r[j] = t /\ r[k] = q[k-1] /\ k - 1 \in 1 .. Len(q) /\ k - 1 >= i
      BY <2>6, <1>0, <1>3, <1>7, <2>0
    <3>2. prio[q[k-1]] <= prio[t]
      BY <3>1
    <3> QED BY <3>1, <3>2, <1>5, <1>6
  <2>7. CASE j > i
    <3>1. r[j] = q[j-1] /\ r[k] = q[k-1] /\ j - 1 \in 1 .. Len(q) /\ k - 1 \in 1 .. Len(q) /\ j - 1 < k - 1
      BY <2>7, <1>0, <1>3, <1>7, <2>0
    <3> QED BY <3>1, <1>4, Zenon
  <2> QED BY <2>3, <2>4, <2>5, <2>6, <2>7, <1>0, <2>0, <1>7
<1> QED BY <1>2, <1>7 DEF Sorted, r

\* The same three facts for a removal.
LEMMA DropAtSet ==
  ASSUME NEW T, NEW q \in Seq(T), NEW i \in 1 .. Len(q), IsInjective(q)
  PROVE  /\ Range(DropAt(q, i)) = Range(q) \ {q[i]}
         /\ IsInjective(DropAt(q, i))
         /\ \A prio : Sorted(q, prio) => Sorted(DropAt(q, i), prio)
<1> DEFINE r == DropAt(q, i)
           f(j) == IF j < i THEN j ELSE j + 1
<1>0. Len(q) \in Nat /\ i \in Nat /\ DOMAIN q = 1 .. Len(q)
  OBVIOUS
<1>1. r \in Seq(T) /\ Len(r) = Len(q) - 1
  <2>1. r \in Seq(T)
    BY DropAtElements
  <2>2. Len(r) = Len(q) - 1
    BY DropAtElements
  <2> QED BY <2>1, <2>2
<1>2. DOMAIN r = 1 .. Len(q) - 1
  BY <1>1
<1>3. ASSUME NEW j \in 1 .. Len(q) - 1
      PROVE  r[j] = IF j < i THEN q[j] ELSE q[j+1]
  BY DropAtElements
<1> HIDE DEF r
<1>4. ASSUME NEW j \in 1 .. Len(q) - 1
      PROVE  /\ f(j) \in 1 .. Len(q) /\ f(j) # i /\ r[j] = q[f(j)]
             /\ \A k \in 1 .. Len(q) - 1 : j < k => f(j) < f(k)
  <2>1. CASE j < i
    BY <2>1, <1>0, <1>3
  <2>2. CASE j >= i
    BY <2>2, <1>0, <1>3
  <2> QED BY <2>1, <2>2, <1>0
<1>5. ASSUME NEW k \in 1 .. Len(q), k # i
      PROVE  \E j \in 1 .. Len(q) - 1 : f(j) = k
  <2>1. CASE k < i
    <3>1. k \in 1 .. Len(q) - 1 /\ f(k) = k
      BY <2>1, <1>0
    <3> QED BY <3>1
  <2>2. CASE k > i
    <3>1. k - 1 \in 1 .. Len(q) - 1 /\ f(k - 1) = k
      BY <2>2, <1>0
    <3> QED BY <3>1, Zenon
  <2> QED BY <2>1, <2>2, <1>0, <1>5
<1> HIDE DEF f
<1>6. \A m, n \in 1 .. Len(q) : q[m] = q[n] => m = n
  BY <1>0 DEF IsInjective
<1>7. Range(r) = Range(q) \ {q[i]}
  <2>1. ASSUME NEW x \in Range(r) PROVE x \in Range(q) \ {q[i]}
    <3>1. PICK j \in 1 .. Len(q) - 1 : x = r[j]
      BY <1>2 DEF Range
    <3>2. x = q[f(j)] /\ f(j) \in 1 .. Len(q) /\ f(j) # i
      BY <3>1, <1>4
    <3> QED BY <3>2, <1>0, <1>6 DEF Range
  <2>2. ASSUME NEW x \in Range(q) \ {q[i]} PROVE x \in Range(r)
    <3>1. PICK k \in 1 .. Len(q) : x = q[k] /\ k # i
      BY <1>0 DEF Range
    <3>2. PICK j \in 1 .. Len(q) - 1 : f(j) = k
      BY <3>1, <1>5
    <3>3. x = r[j]
      BY <3>1, <3>2, <1>4
    <3> QED BY <3>3, <1>2 DEF Range
  <2> QED BY <2>1, <2>2
<1>8. IsInjective(r)
  <2> SUFFICES ASSUME NEW j \in 1 .. Len(q) - 1, NEW k \in 1 .. Len(q) - 1, r[j] = r[k]
               PROVE  j = k
    BY <1>2 DEF IsInjective
  <2>1. f(j) = f(k)
    BY <1>4, <1>6, SMTT(60)
  <2>2. f(j) \in Nat /\ j \in Nat /\ k \in Nat
    BY <1>4, <1>0
  <2>3. j < k => f(j) < f(k)
    BY <1>4, Zenon
  <2>4. k < j => f(k) < f(j)
    BY <1>4, Zenon
  <2> QED BY ONLY <2>1, <2>2, <2>3, <2>4
<1>9. ASSUME NEW prio, Sorted(q, prio) PROVE Sorted(r, prio)
  <2> SUFFICES ASSUME NEW j \in 1 .. Len(q) - 1, NEW k \in 1 .. Len(q) - 1, j < k
               PROVE  prio[r[j]] >= prio[r[k]]
    BY <1>2 DEF Sorted
  <2>1. f(j) < f(k) /\ f(j) \in 1 .. Len(q) /\ f(k) \in 1 .. Len(q)
    BY <1>4
  <2>2. prio[q[f(j)]] >= prio[q[f(k)]]
    BY <2>1, <1>9, <1>0 DEF Sorted
  <2> QED BY <2>2, <1>4
<1> QED BY <1>7, <1>8, <1>9 DEF r

\* Insertion behind the peers.
LEMMA PrioInsert ==
  ASSUME NEW q \in Seq(Threads), NEW t \in Threads, NEW prio \in [Threads -> Nat]
  PROVE  /\ queue_prio_insert(q, t, prio) \in Seq(Threads)
         /\ queue_prio_insert(q, t, prio) # <<>>
         /\ Range(queue_prio_insert(q, t, prio)) = Range(q) \cup {t}
         /\ IsInjective(q) /\ t \notin Range(q) => IsInjective(queue_prio_insert(q, t, prio))
         /\ Sorted(q, prio) => Sorted(queue_prio_insert(q, t, prio), prio)
<1> DEFINE I == {i \in 1 .. Len(q) : prio[q[i]] < prio[t]}
           i == IF I # {} THEN Min(I) ELSE Len(q) + 1
           r == queue_prio_insert(q, t, prio)
<1>0. Len(q) \in Nat /\ DOMAIN q = 1 .. Len(q)
  OBVIOUS
<1>1. r = PutAt(q, i, t)
  <2>1. r = LET k == IF I # {} THEN Min(I) ELSE 0
            IN  PutAt(q, IF k = 0 THEN Len(q) + 1 ELSE k, t)
    BY DEF queue_prio_insert, InsertBefore, FirstIndex
  <2>2. I # {} => Min(I) # 0
    <3>1. I \in SUBSET Nat /\ 0 \notin I
      OBVIOUS
    <3> QED BY <3>1, MinNat, ZenonT(30)
  <2> HIDE DEF I, r
  <2> QED BY <2>1, <2>2
<1>2. /\ i \in 1 .. Len(q) + 1
      /\ i # Len(q) + 1 => prio[q[i]] < prio[t]
      /\ \A j \in 1 .. Len(q) : j < i => ~(prio[q[j]] < prio[t])
  <2>1. CASE I = {}
    <3>1. \A j \in 1 .. Len(q) : ~(prio[q[j]] < prio[t])
      BY <2>1
    <3>2. i = Len(q) + 1
      BY <2>1
    <3> QED BY <3>1, <3>2, <1>0
  <2>2. CASE I # {}
    <3>1. I \in SUBSET Nat
      OBVIOUS
    <3>2. i = Min(I) /\ i \in I /\ \A y \in I : i <= y
      BY <3>1, <2>2, MinNat, Zenon
    <3> HIDE DEF i
    <3>3. i \in 1 .. Len(q) /\ prio[q[i]] < prio[t]
      BY <3>2
    <3>4. ASSUME NEW j \in 1 .. Len(q), j < i, prio[q[j]] < prio[t] PROVE FALSE
      BY <3>2, <3>3, <3>4
    <3> QED BY <3>3, <3>4, <1>0
  <2> QED BY <2>1, <2>2, Zenon
<1> HIDE DEF i, r, I
<1>3. r \in Seq(Threads) /\ r # <<>>
  <2>1. r \in Seq(Threads) /\ Len(r) = Len(q) + 1
    BY <1>1, <1>2, PutAtElements
  <2> QED BY <2>1, <1>0
<1>4. Range(r) = Range(q) \cup {t}
  BY <1>1, <1>2, PutAtSet
<1>5. IsInjective(q) /\ t \notin Range(q) => IsInjective(r)
  BY <1>1, <1>2, PutAtSet
<1>6. ASSUME Sorted(q, prio) PROVE Sorted(r, prio)
  <2>1. \A j \in 1 .. Len(q) : prio[q[j]] \in Nat /\ prio[t] \in Nat
    OBVIOUS
  <2>2. \A j \in 1 .. Len(q) : j < i => prio[q[j]] >= prio[t]
    BY <1>2, <2>1
  <2>3. ASSUME NEW j \in 1 .. Len(q), j >= i PROVE prio[q[j]] <= prio[t]
    <3>1. i \in 1 .. Len(q) /\ prio[q[i]] <= prio[t]
      BY <2>3, <1>0, <1>2, <2>1
    <3>2. j = i \/ i < j
      BY <2>3, <3>1, <1>0
    <3>3. i \in DOMAIN q /\ j \in DOMAIN q
      BY <3>1, <1>0
    <3>4. i < j => prio[q[i]] >= prio[q[j]]
      BY <1>6, <3>3, Zenon DEF Sorted
    <3> QED BY <3>1, <3>2, <3>4, <2>1
  <2>4. i \in 1 .. Len(q) + 1
    BY <1>2
  <2>5. \A j \in 1 .. Len(q) : j >= i => prio[q[j]] <= prio[t]
    BY <2>3
  <2>6. Sorted(PutAt(q, i, t), prio)
    BY <1>6, <2>2, <2>4, <2>5, PutAtSorted, SMTT(30)
  <2> QED BY <1>1, <2>6
<1> QED BY <1>3, <1>4, <1>5, <1>6 DEF r

\* Insertion ahead of the peers.
LEMMA AheadInsert ==
  ASSUME NEW q \in Seq(Threads), NEW t \in Threads, NEW prio \in [Threads -> Nat]
  PROVE  /\ queue_ahead_insert(q, t, prio) \in Seq(Threads)
         /\ queue_ahead_insert(q, t, prio) # <<>>
         /\ Range(queue_ahead_insert(q, t, prio)) = Range(q) \cup {t}
         /\ IsInjective(q) /\ t \notin Range(q) => IsInjective(queue_ahead_insert(q, t, prio))
         /\ Sorted(q, prio) => Sorted(queue_ahead_insert(q, t, prio), prio)
<1> DEFINE I == {i \in 1 .. Len(q) : prio[q[i]] <= prio[t]}
           i == IF I # {} THEN Min(I) ELSE Len(q) + 1
           r == queue_ahead_insert(q, t, prio)
<1>0. Len(q) \in Nat /\ DOMAIN q = 1 .. Len(q)
  OBVIOUS
<1>1. r = PutAt(q, i, t)
  <2>1. r = LET k == IF I # {} THEN Min(I) ELSE 0
            IN  PutAt(q, IF k = 0 THEN Len(q) + 1 ELSE k, t)
    BY DEF queue_ahead_insert, InsertBefore, FirstIndex
  <2>2. I # {} => Min(I) # 0
    <3>1. I \in SUBSET Nat /\ 0 \notin I
      OBVIOUS
    <3> QED BY <3>1, MinNat, ZenonT(30)
  <2> HIDE DEF I, r
  <2> QED BY <2>1, <2>2
<1>2. /\ i \in 1 .. Len(q) + 1
      /\ i # Len(q) + 1 => prio[q[i]] <= prio[t]
      /\ \A j \in 1 .. Len(q) : j < i => ~(prio[q[j]] <= prio[t])
  <2>1. CASE I = {}
    <3>1. \A j \in 1 .. Len(q) : ~(prio[q[j]] <= prio[t])
      BY <2>1
    <3>2. i = Len(q) + 1
      BY <2>1
    <3> QED BY <3>1, <3>2, <1>0
  <2>2. CASE I # {}
    <3>1. I \in SUBSET Nat
      OBVIOUS
    <3>2. i = Min(I) /\ i \in I /\ \A y \in I : i <= y
      BY <3>1, <2>2, MinNat, Zenon
    <3> HIDE DEF i
    <3>3. i \in 1 .. Len(q) /\ prio[q[i]] <= prio[t]
      BY <3>2
    <3>4. ASSUME NEW j \in 1 .. Len(q), j < i, prio[q[j]] <= prio[t] PROVE FALSE
      BY <3>2, <3>3, <3>4
    <3> QED BY <3>3, <3>4, <1>0
  <2> QED BY <2>1, <2>2, Zenon
<1> HIDE DEF i, r, I
<1>3. r \in Seq(Threads) /\ r # <<>>
  <2>1. r \in Seq(Threads) /\ Len(r) = Len(q) + 1
    BY <1>1, <1>2, PutAtElements
  <2> QED BY <2>1, <1>0
<1>4. Range(r) = Range(q) \cup {t}
  BY <1>1, <1>2, PutAtSet
<1>5. IsInjective(q) /\ t \notin Range(q) => IsInjective(r)
  BY <1>1, <1>2, PutAtSet
<1>6. ASSUME Sorted(q, prio) PROVE Sorted(r, prio)
  <2>1. \A j \in 1 .. Len(q) : prio[q[j]] \in Nat /\ prio[t] \in Nat
    OBVIOUS
  <2>2. \A j \in 1 .. Len(q) : j < i => prio[q[j]] >= prio[t]
    BY <1>2, <2>1
  <2>3. ASSUME NEW j \in 1 .. Len(q), j >= i PROVE prio[q[j]] <= prio[t]
    <3>1. i \in 1 .. Len(q) /\ prio[q[i]] <= prio[t]
      BY <2>3, <1>0, <1>2, <2>1
    <3>2. j = i \/ i < j
      BY <2>3, <3>1, <1>0
    <3>3. i \in DOMAIN q /\ j \in DOMAIN q
      BY <3>1, <1>0
    <3>4. i < j => prio[q[i]] >= prio[q[j]]
      BY <1>6, <3>3, Zenon DEF Sorted
    <3> QED BY <3>1, <3>2, <3>4, <2>1
  <2>4. i \in 1 .. Len(q) + 1
    BY <1>2
  <2>5. \A j \in 1 .. Len(q) : j >= i => prio[q[j]] <= prio[t]
    BY <2>3
  <2>6. Sorted(PutAt(q, i, t), prio)
    BY <1>6, <2>2, <2>4, <2>5, PutAtSorted, ZenonT(30)
  <2> QED BY <1>1, <2>6
<1> QED BY <1>3, <1>4, <1>5, <1>6 DEF r

\* Removal of a thread from the middle of a queue.
LEMMA Dequeue ==
  ASSUME NEW q \in Seq(Threads), NEW t \in Range(q), IsInjective(q)
  PROVE  /\ queue_dequeue(q, t) \in Seq(Threads)
         /\ Range(queue_dequeue(q, t)) = Range(q) \ {t}
         /\ IsInjective(queue_dequeue(q, t))
         /\ \A prio : Sorted(q, prio) => Sorted(queue_dequeue(q, t), prio)
<1> DEFINE I == {i \in 1 .. Len(q) : q[i] = t}
<1>1. \E i \in 1 .. Len(q) : q[i] = t
  BY DEF Range
<1>2. I \in SUBSET Nat /\ I # {}
  BY <1>1
<1>3. queue_dequeue(q, t) = DropAt(q, Min(I))
  BY <1>1, <1>2 DEF queue_dequeue, FirstIndex
<1>4. Min(I) \in 1 .. Len(q) /\ q[Min(I)] = t
  <2>1. Min(I) \in I
    BY <1>2, MinNat, Zenon
  <2> QED BY <2>1
<1> HIDE DEF I
<1>5. DropAt(q, Min(I)) \in Seq(Threads)
  BY <1>4, DropAtElements
<1> QED BY <1>3, <1>4, <1>5, DropAtSet

\* queue_fifo_remove: the head leaves.
LEMMA HeadTail ==
  ASSUME NEW T, NEW q \in Seq(T), q # <<>>, IsInjective(q)
  PROVE  /\ Head(q) \in T /\ Head(q) \in Range(q)
         /\ Tail(q) \in Seq(T)
         /\ Range(Tail(q)) = Range(q) \ {Head(q)}
         /\ IsInjective(Tail(q))
         /\ \A prio : Sorted(q, prio) => Sorted(Tail(q), prio)
         /\ \A prio : Sorted(q, prio) =>
              \A x \in Range(Tail(q)) : prio[Head(q)] >= prio[x]
<1>0. Len(q) \in Nat /\ Len(q) >= 1 /\ DOMAIN q = 1 .. Len(q)
  OBVIOUS
<1>1. Head(q) = q[1] /\ q[1] \in T
  BY <1>0
<1>2. /\ Tail(q) \in Seq(T) /\ DOMAIN Tail(q) = 1 .. Len(q) - 1
      /\ \A j \in 1 .. Len(q) - 1 : Tail(q)[j] = q[j+1] /\ j + 1 \in 1 .. Len(q) /\ j + 1 > 1
  BY <1>0
<1>3. \A m, n \in 1 .. Len(q) : q[m] = q[n] => m = n
  BY <1>0 DEF IsInjective
<1>4. Range(Tail(q)) = Range(q) \ {q[1]}
  <2>1. ASSUME NEW x \in Range(Tail(q)) PROVE x \in Range(q) \ {q[1]}
    <3>1. PICK j \in 1 .. Len(q) - 1 : x = Tail(q)[j]
      BY <1>2 DEF Range
    <3>2. x = q[j+1] /\ j + 1 \in 1 .. Len(q) /\ j + 1 # 1
      BY <3>1, <1>2, <1>0
    <3>3. 1 \in 1 .. Len(q)
      BY <1>0
    <3> QED BY <3>2, <3>3, <1>0, <1>3 DEF Range
  <2>2. ASSUME NEW x \in Range(q) \ {q[1]} PROVE x \in Range(Tail(q))
    <3>1. PICK k \in 1 .. Len(q) : x = q[k] /\ k # 1
      BY <1>0 DEF Range
    <3>2. k - 1 \in 1 .. Len(q) - 1 /\ (k - 1) + 1 = k
      BY <3>1, <1>0
    <3>3. Tail(q)[k-1] = q[(k - 1) + 1]
      BY <3>2, <1>2
    <3>4. x = Tail(q)[k-1]
      BY <3>1, <3>2, <3>3, Zenon
    <3> QED BY <3>2, <3>4, <1>2, Zenon DEF Range
  <2> QED BY <2>1, <2>2
<1>5. IsInjective(Tail(q))
  <2> SUFFICES ASSUME NEW j \in 1 .. Len(q) - 1, NEW k \in 1 .. Len(q) - 1,
                      Tail(q)[j] = Tail(q)[k]
               PROVE  j = k
    BY <1>2 DEF IsInjective
  <2>1. j + 1 = k + 1
    BY <1>2, <1>3
  <2> QED BY <2>1, <1>0
<1>6. ASSUME NEW prio, Sorted(q, prio) PROVE Sorted(Tail(q), prio)
  <2> SUFFICES ASSUME NEW j \in 1 .. Len(q) - 1, NEW k \in 1 .. Len(q) - 1, j < k
               PROVE  prio[Tail(q)[j]] >= prio[Tail(q)[k]]
    BY <1>2, SMTT(30) DEF Sorted
  <2>1. j + 1 < k + 1 /\ j + 1 \in 1 .. Len(q) /\ k + 1 \in 1 .. Len(q)
    BY <1>0
  <2>2. prio[q[j+1]] >= prio[q[k+1]]
    BY <2>1, <1>0, <1>6 DEF Sorted
  <2> QED BY <2>2, <1>2
<1>7. ASSUME NEW prio, Sorted(q, prio), NEW x \in Range(Tail(q)) PROVE prio[q[1]] >= prio[x]
  <2>1. PICK j \in 1 .. Len(q) - 1 : x = Tail(q)[j]
    BY <1>2 DEF Range
  <2>2. x = q[j+1] /\ j + 1 \in 1 .. Len(q) /\ 1 < j + 1 /\ 1 \in 1 .. Len(q)
    BY <2>1, <1>2, <1>0
  <2> QED BY <2>2, <1>0, <1>7 DEF Sorted
<1>8. Head(q) \in Range(q)
  BY <1>0, <1>1 DEF Range
<1> QED BY <1>1, <1>2, <1>4, <1>5, <1>6, <1>7, <1>8

\* A push on a stack.
LEMMA PushFacts ==
  ASSUME NEW T, NEW q \in Seq(T), NEW t \in T
  PROVE  /\ Push(t, q) \in Seq(T) /\ Push(t, q) # <<>> /\ Head(Push(t, q)) = t
         /\ Range(Push(t, q)) = Range(q) \cup {t}
         /\ IsInjective(q) /\ t \notin Range(q) => IsInjective(Push(t, q))
<1>1. Len(q) \in Nat /\ 1 \in 1 .. Len(q) + 1
  OBVIOUS
<1>2. Push(t, q) \in Seq(T) /\ Len(Push(t, q)) = Len(q) + 1
  BY <1>1, PutAtElements DEF Push
<1>3. Len(Push(t, q)) > 0
  BY <1>1, <1>2
<1>4. ~(Len(<<>>) > 0)
  OBVIOUS
<1>5. Push(t, q) # <<>>
  BY <1>3, <1>4, Zenon
<1>6. Head(Push(t, q)) = t
  <2>1. Push(t, q)[1] = t
    BY <1>1 DEF Push, PutAt
  <2> HIDE DEF Push
  <2> QED BY <1>2, <1>5, <2>1
<1> QED BY <1>1, <1>2, <1>5, <1>6, PutAtSet DEF Push

-----------------------------------------------------------------------------
(* Scheduler primitives *)

\* The ready list holds the ready threads, once each, by priority.
ListOK(s) ==
  /\ s \in SchedState
  /\ IsInjective(s.queue)
  /\ Sorted(s.queue, s.prio)
  /\ \A t \in Threads : s.state[t] = "READY" <=> t \in Range(s.queue)

\* And exactly the current thread is in the current state.
SchedOK(s) == ListOK(s) /\ \A t \in Threads : s.state[t] = "CURRENT" <=> t = s.current

\* From s to r the other threads than t run, are ready or wait as before.
OthersSwitched(s, r, t) ==
  \A x \in Threads \ {t} : IF s.state[x] \in {"READY", "CURRENT"}
                            THEN r.state[x] \in {"READY", "CURRENT"}
                            ELSE r.state[x] = s.state[x]

\* r is s after nothing but a change of the running thread.
Switched(s, r) ==
  /\ r.prio = s.prio
  /\ r.u = s.u
  /\ \A t \in Threads : IF s.state[t] \in {"READY", "CURRENT"}
                        THEN r.state[t] \in {"READY", "CURRENT"}
                        ELSE r.state[t] = s.state[t]

\* Priorities are naturals above NOPRIO.
LEMMA PrioNat ==
  ASSUME NEW s \in SchedState
  PROVE  s.prio \in [Threads -> Nat]
<1>1. Priorities \subseteq Nat
  BY SchedAssumption DEF Priorities, IDLEPRIO
<1> QED BY <1>1, Zenon DEF SchedState

\* chSchReadyI adds one thread to the ready list.
LEMMA ReadyFacts ==
  ASSUME NEW s, ListOK(s), NEW t \in Threads, s.state[t] # "READY"
  PROVE  LET r == chSchReadyI(s, t)
         IN  /\ ListOK(r) /\ t \in Range(r.queue)
             /\ r.current = s.current /\ r.prio = s.prio /\ r.u = s.u /\ r.ticks = s.ticks
             /\ r.state = [s.state EXCEPT ![t] = "READY"]
             /\ Range(r.queue) = Range(s.queue) \cup {t}
<1> DEFINE q == queue_prio_insert(s.queue, t, s.prio)
           r == chSchReadyI(s, t)
<1>1. s \in SchedState /\ s.queue \in Seq(Threads) /\ s.state \in [Threads -> States]
  BY Zenon DEF ListOK, SchedState
<1>2. s.prio \in [Threads -> Nat]
  BY <1>1, PrioNat, Zenon
<1>3. t \notin Range(s.queue)
  BY Zenon DEF ListOK
<1>4. /\ q \in Seq(Threads) /\ Range(q) = Range(s.queue) \cup {t}
      /\ IsInjective(q) /\ Sorted(q, s.prio)
  BY <1>1, <1>2, <1>3, PrioInsert, Zenon DEF ListOK
<1>5. /\ r.queue = q /\ r.current = s.current /\ r.prio = s.prio /\ r.u = s.u
      /\ r.ticks = s.ticks /\ r.state = [s.state EXCEPT ![t] = "READY"]
  BY <1>1, Zenon DEF chSchReadyI, SchedState
<1>6. r \in SchedState
  <2>1. [s.state EXCEPT ![t] = "READY"] \in [Threads -> States]
    BY <1>1, Zenon DEF States
  <2>2. r = [s EXCEPT !.state = [s.state EXCEPT ![t] = "READY"], !.queue = q]
    BY <1>1, Zenon DEF chSchReadyI, SchedState
  <2> HIDE DEF q, r
  <2> QED BY <1>1, <1>4, <2>1, <2>2, Zenon DEF SchedState
<1> HIDE DEF r, q
<1>7. \A x \in Threads : r.state[x] = "READY" <=> x \in Range(r.queue)
  BY <1>1, <1>4, <1>5, ZenonT(30) DEF ListOK
<1> QED BY <1>4, <1>5, <1>6, <1>7, Zenon DEF ListOK, r

\* chSchReadyAheadI does too.
LEMMA AheadFacts ==
  ASSUME NEW s, ListOK(s), NEW t \in Threads, s.state[t] # "READY"
  PROVE  LET r == chSchReadyAheadI(s, t)
         IN  /\ ListOK(r) /\ t \in Range(r.queue)
             /\ r.current = s.current /\ r.prio = s.prio /\ r.u = s.u /\ r.ticks = s.ticks
             /\ r.state = [s.state EXCEPT ![t] = "READY"]
             /\ Range(r.queue) = Range(s.queue) \cup {t}
<1> DEFINE q == queue_ahead_insert(s.queue, t, s.prio)
           r == chSchReadyAheadI(s, t)
<1>1. s \in SchedState /\ s.queue \in Seq(Threads) /\ s.state \in [Threads -> States]
  BY Zenon DEF ListOK, SchedState
<1>2. s.prio \in [Threads -> Nat]
  BY <1>1, PrioNat, Zenon
<1>3. t \notin Range(s.queue)
  BY Zenon DEF ListOK
<1>4. /\ q \in Seq(Threads) /\ Range(q) = Range(s.queue) \cup {t}
      /\ IsInjective(q) /\ Sorted(q, s.prio)
  BY <1>1, <1>2, <1>3, AheadInsert, Zenon DEF ListOK
<1>5. /\ r.queue = q /\ r.current = s.current /\ r.prio = s.prio /\ r.u = s.u
      /\ r.ticks = s.ticks /\ r.state = [s.state EXCEPT ![t] = "READY"]
  BY <1>1, Zenon DEF chSchReadyAheadI, SchedState
<1>6. r \in SchedState
  <2>1. [s.state EXCEPT ![t] = "READY"] \in [Threads -> States]
    BY <1>1, Zenon DEF States
  <2>2. r = [s EXCEPT !.state = [s.state EXCEPT ![t] = "READY"], !.queue = q]
    BY <1>1, Zenon DEF chSchReadyAheadI, SchedState
  <2> HIDE DEF q, r
  <2> QED BY <1>1, <1>4, <2>1, <2>2, Zenon DEF SchedState
<1> HIDE DEF r, q
<1>7. \A x \in Threads : r.state[x] = "READY" <=> x \in Range(r.queue)
  BY <1>1, <1>4, <1>5, ZenonT(30) DEF ListOK
<1> QED BY <1>4, <1>5, <1>6, <1>7, Zenon DEF ListOK, r

\* The first thread of the ready list has the highest priority in it.
LEMMA FirstPrio ==
  ASSUME NEW s, ListOK(s), NEW p \in Nat
  PROVE  /\ firstprio(s) \in Nat
         /\ firstprio(s) <= p <=> \A x \in Range(s.queue) : s.prio[x] <= p
<1>1. s \in SchedState /\ s.queue \in Seq(Threads)
  BY Zenon DEF ListOK, SchedState
<1>2. s.prio \in [Threads -> Nat]
  BY <1>1, PrioNat, Zenon
<1>3. CASE s.queue = <<>>
  <2>1. Range(s.queue) = {}
    BY <1>3 DEF Range
  <2> QED BY <2>1, <1>3 DEF firstprio, NOPRIO
<1>4. CASE s.queue # <<>>
  <2>1. /\ Head(s.queue) \in Threads /\ Head(s.queue) \in Range(s.queue)
        /\ Range(Tail(s.queue)) = Range(s.queue) \ {Head(s.queue)}
        /\ \A x \in Range(Tail(s.queue)) : s.prio[Head(s.queue)] >= s.prio[x]
    BY <1>1, <1>4, HeadTail, Zenon DEF ListOK
  <2>2. firstprio(s) = s.prio[Head(s.queue)] /\ firstprio(s) \in Nat
    BY <1>2, <1>4, <2>1, Zenon DEF firstprio
  <2>3. ASSUME NEW x \in Range(s.queue) PROVE s.prio[x] <= firstprio(s) /\ s.prio[x] \in Nat
    <3>1. s.prio[x] \in Nat
      BY <1>1, <1>2 DEF Range
    <3>2. CASE x = Head(s.queue)
      BY <2>2, <3>1, <3>2
    <3>3. CASE x # Head(s.queue)
      <4>1. x \in Range(Tail(s.queue))
        BY <2>1, <3>3, Zenon
      <4> QED BY <4>1, <2>1, <2>2, <3>1, Zenon
    <3> QED BY <3>2, <3>3, Zenon
  <2> QED BY <2>1, <2>2, <2>3
<1> QED BY <1>3, <1>4, Zenon

\* TakeNext makes the first ready thread current.
LEMMA TakeNextFacts ==
  ASSUME NEW s, ListOK(s), s.queue # <<>>
  PROVE  LET r == TakeNext(s)
         IN  /\ ListOK(r)
             /\ r.current = Head(s.queue) /\ s.state[r.current] = "READY"
             /\ r.prio = s.prio /\ r.u = s.u /\ r.ticks = s.ticks
             /\ r.state = [s.state EXCEPT ![r.current] = "CURRENT"]
             /\ Range(r.queue) = Range(s.queue) \ {r.current}
             /\ \A x \in Range(r.queue) : s.prio[x] <= s.prio[r.current]
             /\ s.prio[r.current] = firstprio(s)
<1> DEFINE h == Head(s.queue)
           r == TakeNext(s)
<1>1. s \in SchedState /\ s.queue \in Seq(Threads) /\ s.state \in [Threads -> States]
  BY Zenon DEF ListOK, SchedState
<1>2. s.prio \in [Threads -> Nat]
  BY <1>1, PrioNat, Zenon
<1>3. /\ h \in Threads /\ h \in Range(s.queue)
      /\ Tail(s.queue) \in Seq(Threads)
      /\ Range(Tail(s.queue)) = Range(s.queue) \ {h}
      /\ IsInjective(Tail(s.queue))
      /\ Sorted(Tail(s.queue), s.prio)
      /\ \A x \in Range(Tail(s.queue)) : s.prio[h] >= s.prio[x]
  BY <1>1, HeadTail, Zenon DEF ListOK
<1>4. s.state[h] = "READY"
  BY <1>3, Zenon DEF ListOK
<1>5. /\ r.queue = Tail(s.queue) /\ r.current = h /\ r.prio = s.prio /\ r.u = s.u
      /\ r.ticks = s.ticks /\ r.state = [s.state EXCEPT ![h] = "CURRENT"]
  BY <1>1, Zenon DEF TakeNext, SchedState
<1>6. r \in SchedState
  <2>1. [s.state EXCEPT ![h] = "CURRENT"] \in [Threads -> States]
    BY <1>1, <1>3, Zenon DEF States
  <2>2. r = [s EXCEPT !.current = h, !.queue = Tail(s.queue),
                      !.state = [s.state EXCEPT ![h] = "CURRENT"]]
    BY <1>1, Zenon DEF TakeNext, SchedState
  <2> HIDE DEF h, r
  <2> QED BY <1>1, <1>3, <2>1, <2>2, Zenon DEF SchedState
<1>9. s.prio[h] = firstprio(s)
  BY Zenon DEF firstprio
<1> HIDE DEF r, h
<1>7. \A x \in Threads : r.state[x] = "READY" <=> x \in Range(r.queue)
  BY <1>1, <1>3, <1>5 DEF ListOK
<1>8. \A x \in Range(r.queue) : s.prio[x] <= s.prio[h]
  <2> TAKE x \in Range(r.queue)
  <2>1. x \in Range(Tail(s.queue)) /\ x \in Threads
    BY <1>3, <1>5 DEF Range
  <2>2. s.prio[h] >= s.prio[x] /\ s.prio[h] \in Nat /\ s.prio[x] \in Nat
    BY <2>1, <1>2, <1>3, Zenon
  <2> QED BY <2>2, Zenon
<1>10. ListOK(r)
  BY <1>3, <1>5, <1>6, <1>7, Zenon DEF ListOK
<1> QED BY <1>3, <1>4, <1>5, <1>8, <1>9, <1>10, Zenon DEF r, h

\* Assignments that the ready list does not depend on.
LEMMA FieldFacts ==
  ASSUME NEW s, ListOK(s), NEW t \in Threads
  PROVE  /\ \A v \in Objects \cup Messages : ListOK([s EXCEPT !.u[t] = v])
         /\ \A k \in 0 .. TIME_QUANTUM : ListOK([s EXCEPT !.ticks[t] = k])
         /\ s.state[t] # "READY" => \A p \in Priorities : ListOK([s EXCEPT !.prio[t] = p])
         /\ s.state[t] # "READY" => \A x \in States \ {"READY"} : ListOK([s EXCEPT !.state[t] = x])
<1>1. s \in SchedState
  BY Zenon DEF ListOK
<1>2. ASSUME NEW v \in Objects \cup Messages PROVE ListOK([s EXCEPT !.u[t] = v])
  <2> DEFINE r == [s EXCEPT !.u[t] = v]
  <2>1. r \in SchedState
    BY <1>1, Zenon DEF SchedState
  <2>2. r.queue = s.queue /\ r.prio = s.prio /\ r.state = s.state
    BY <1>1, Zenon DEF SchedState
  <2> HIDE DEF r
  <2>3. ListOK(r)
    BY <2>1, <2>2, Zenon DEF ListOK
  <2> QED BY <2>3, Zenon DEF r
<1>3. ASSUME NEW k \in 0 .. TIME_QUANTUM PROVE ListOK([s EXCEPT !.ticks[t] = k])
  <2> DEFINE r == [s EXCEPT !.ticks[t] = k]
  <2>1. r \in SchedState
    BY <1>1, Zenon DEF SchedState
  <2>2. r.queue = s.queue /\ r.prio = s.prio /\ r.state = s.state
    BY <1>1, Zenon DEF SchedState
  <2> HIDE DEF r
  <2>3. ListOK(r)
    BY <2>1, <2>2, Zenon DEF ListOK
  <2> QED BY <2>3, Zenon DEF r
<1>4. ASSUME s.state[t] # "READY", NEW p \in Priorities PROVE ListOK([s EXCEPT !.prio[t] = p])
  <2> DEFINE r == [s EXCEPT !.prio[t] = p]
  <2>1. r \in SchedState
    BY <1>1, Zenon DEF SchedState
  <2>2. r.queue = s.queue /\ r.prio = [s.prio EXCEPT ![t] = p] /\ r.state = s.state
    BY <1>1, Zenon DEF SchedState
  <2>3. s.queue \in Seq(Threads) /\ s.prio \in [Threads -> Priorities] /\ t \notin Range(s.queue)
    BY <1>1, <1>4, Zenon DEF SchedState, ListOK
  <2>4. Sorted(s.queue, [s.prio EXCEPT ![t] = p])
    <3>1. \A i \in DOMAIN s.queue : s.queue[i] \in Threads /\ s.queue[i] # t
      BY <2>3 DEF Range
    <3>2. Sorted(s.queue, s.prio)
      BY Zenon DEF ListOK
    <3> QED BY <2>3, <3>1, <3>2, Zenon DEF Sorted
  <2> HIDE DEF r
  <2>5. ListOK(r)
    BY <2>1, <2>2, <2>4, Zenon DEF ListOK
  <2> QED BY <2>5, Zenon DEF r
<1>5. ASSUME s.state[t] # "READY", NEW x \in States \ {"READY"} PROVE ListOK([s EXCEPT !.state[t] = x])
  <2> DEFINE r == [s EXCEPT !.state[t] = x]
  <2>1. r \in SchedState
    BY <1>1, Zenon DEF SchedState
  <2>2. r.queue = s.queue /\ r.prio = s.prio /\ r.state = [s.state EXCEPT ![t] = x]
        /\ s.state \in [Threads -> States]
    BY <1>1, Zenon DEF SchedState
  <2> HIDE DEF r
  <2>3. \A y \in Threads : r.state[y] = "READY" <=> y \in Range(r.queue)
    BY <1>5, <2>2, Zenon DEF ListOK
  <2>4. ListOK(r)
    BY <2>1, <2>2, <2>3, Zenon DEF ListOK
  <2> QED BY <2>4, Zenon DEF r
<1> QED BY <1>2, <1>3, <1>4, <1>5, Zenon

\* chSchGoSleepS: the highest ready thread runs.
LEMMA GoSleepFacts ==
  ASSUME NEW s, SchedOK(s), s.queue # <<>>, NEW x \in States \ {"READY", "CURRENT"}
  PROVE  LET r == chSchGoSleepS(s, x)
         IN  /\ SchedOK(r) /\ PriorityOrder(r)
             /\ r.prio = s.prio /\ r.u = s.u
             /\ r.current # s.current /\ s.state[r.current] = "READY" /\ r.state[s.current] = x
             /\ \A t \in Threads \ {s.current} :
                  IF t = r.current THEN r.state[t] = "CURRENT" ELSE r.state[t] = s.state[t]
<1> DEFINE c == s.current
           a == [s EXCEPT !.state[c] = x]
           b == [a EXCEPT !.ticks[c] = TIME_QUANTUM]
           r == chSchGoSleepS(s, x)
<1>1. s \in SchedState /\ ListOK(s) /\ c \in Threads /\ s.state[c] = "CURRENT"
  BY Zenon DEF SchedOK, ListOK, SchedState
<1>2. ListOK(a)
  BY <1>1, FieldFacts, Zenon
<1>3. ListOK(b)
  <2>1. TIME_QUANTUM \in 0 .. TIME_QUANTUM
    BY SchedAssumption
  <2> HIDE DEF a, c
  <2> QED BY <1>1, <1>2, <2>1, FieldFacts, Zenon
<1>4. /\ b.queue = s.queue /\ b.current = c /\ b.prio = s.prio /\ b.u = s.u
      /\ b.state = [s.state EXCEPT ![c] = x] /\ s.state \in [Threads -> States]
  BY <1>1, Zenon DEF SchedState
<1>5. r = TakeNext(b)
  BY <1>1, Zenon DEF chSchGoSleepS, SchedState
<1> HIDE DEF c, a, b, r
<1>6. b.queue # <<>>
  BY <1>4, Zenon
<1>7. ListOK(r)
  BY <1>3, <1>5, <1>6, TakeNextFacts, Zenon
<1>8. r.prio = s.prio /\ r.u = s.u
  BY <1>3, <1>4, <1>5, <1>6, TakeNextFacts, Zenon
<1>9. b.state[r.current] = "READY" /\ r.state = [b.state EXCEPT ![r.current] = "CURRENT"]
  BY <1>3, <1>5, <1>6, TakeNextFacts, Zenon
<1>10. \A t \in Range(r.queue) : r.prio[t] <= r.prio[r.current]
  BY <1>3, <1>4, <1>5, <1>6, <1>8, TakeNextFacts, Zenon
<1>11. r.current \in Threads /\ r \in SchedState
  BY <1>7, Zenon DEF ListOK, SchedState
<1>12. PriorityOrder(r)
  <2>1. r.prio[r.current] \in Nat
    BY <1>11, PrioNat, Zenon
  <2> QED BY <1>7, <1>10, <2>1, FirstPrio, Zenon DEF PriorityOrder
<1>13. r.current # c /\ s.state[r.current] = "READY" /\ r.state[c] = x
  BY <1>1, <1>4, <1>9, <1>11
<1>14. \A t \in Threads \ {c} : IF t = r.current THEN r.state[t] = "CURRENT" ELSE r.state[t] = s.state[t]
  BY <1>4, <1>9, <1>11, Zenon
<1>15. SchedOK(r)
  <2>1. \A t \in Threads : r.state[t] = "CURRENT" <=> t = r.current
    BY <1>1, <1>4, <1>9, <1>11 DEF SchedOK, c
  <2> QED BY <1>7, <2>1, Zenon DEF SchedOK
<1> QED BY <1>8, <1>12, <1>13, <1>14, <1>15, Zenon DEF c, r

\* chSchDoRescheduleAhead: the running thread and the first ready one change
\* places.
LEMMA AheadSwitch ==
  ASSUME NEW s, SchedOK(s), s.queue # <<>>, firstprio(s) >= s.prio[s.current]
  PROVE  LET r == chSchDoRescheduleAhead(s)
         IN  SchedOK(r) /\ PriorityOrder(r) /\ Switched(s, r)
<1> DEFINE c == s.current
           n == TakeNext(s)
           r == chSchReadyAheadI(n, c)
<1>1. s \in SchedState /\ ListOK(s) /\ c \in Threads /\ s.state[c] = "CURRENT"
      /\ s.state \in [Threads -> States] /\ s.prio \in [Threads -> Nat]
  BY PrioNat, Zenon DEF SchedOK, ListOK, SchedState
<1> HIDE DEF c, n, r
<1>2. ListOK(n) /\ s.state[n.current] = "READY"
  BY <1>1, TakeNextFacts, Zenon DEF n
<1>3. /\ n.prio = s.prio /\ n.u = s.u /\ n.state = [s.state EXCEPT ![n.current] = "CURRENT"]
  BY <1>1, TakeNextFacts, Zenon DEF n
<1>4. /\ \A x \in Range(n.queue) : s.prio[x] <= s.prio[n.current]
      /\ s.prio[n.current] = firstprio(s)
  BY <1>1, TakeNextFacts, Zenon DEF n
<1>5. n.current \in Threads /\ n.current # c /\ n.state[c] # "READY"
  BY <1>1, <1>2, <1>3, Zenon DEF ListOK, SchedState
<1>6. ListOK(r)
  BY <1>1, <1>2, <1>5, AheadFacts, Zenon DEF r
<1>7. r.current = n.current /\ r.prio = s.prio /\ r.u = s.u /\ r.state = [n.state EXCEPT ![c] = "READY"]
  BY <1>1, <1>2, <1>3, <1>5, AheadFacts, SMTT(30) DEF r
<1>8. Range(r.queue) = Range(n.queue) \cup {c}
  BY <1>1, <1>2, <1>5, AheadFacts, Zenon DEF r
<1>9. \A x \in Range(r.queue) : r.prio[x] <= r.prio[r.current]
  <2>1. s.prio[c] <= s.prio[n.current]
    BY <1>1, <1>4, <1>5, Zenon DEF c
  <2> QED BY <1>4, <1>7, <1>8, <2>1, Zenon
<1>10. PriorityOrder(r)
  <2>1. r.prio[r.current] \in Nat
    BY <1>1, <1>5, <1>7, Zenon
  <2> QED BY <1>6, <1>9, <2>1, FirstPrio, Zenon DEF PriorityOrder
<1>11. SchedOK(r)
  <2>1. \A t \in Threads : r.state[t] = "CURRENT" <=> t = r.current
    BY <1>1, <1>3, <1>5, <1>7 DEF SchedOK, c
  <2> QED BY <1>6, <2>1, Zenon DEF SchedOK
<1>12. Switched(s, r)
  BY <1>1, <1>2, <1>3, <1>5, <1>7 DEF Switched
<1> QED BY <1>10, <1>11, <1>12, Zenon DEF r, n, c, chSchDoRescheduleAhead

\* chSchDoRescheduleBehind does the same, and gives a new time slice.
LEMMA BehindSwitch ==
  ASSUME NEW s, SchedOK(s), s.queue # <<>>, firstprio(s) >= s.prio[s.current]
  PROVE  LET r == chSchDoRescheduleBehind(s)
         IN  SchedOK(r) /\ PriorityOrder(r) /\ Switched(s, r)
<1> DEFINE c == s.current
           k == TakeNext(s)
           n == [k EXCEPT !.ticks[c] = TIME_QUANTUM]
           r == chSchReadyI(n, c)
<1>1. s \in SchedState /\ ListOK(s) /\ c \in Threads /\ s.state[c] = "CURRENT"
      /\ s.state \in [Threads -> States] /\ s.prio \in [Threads -> Nat]
  BY PrioNat, Zenon DEF SchedOK, ListOK, SchedState
<1> HIDE DEF c, k
<1>13. ListOK(k) /\ s.state[k.current] = "READY"
  BY <1>1, TakeNextFacts, Zenon DEF k
<1>14. ListOK(n)
  <2>1. TIME_QUANTUM \in 0 .. TIME_QUANTUM
    BY SchedAssumption
  <2> QED BY <1>1, <1>13, <2>1, FieldFacts, Zenon
<1>15. n.current = k.current /\ n.state = k.state /\ n.prio = k.prio /\ n.u = k.u /\ n.queue = k.queue
  BY <1>13, Zenon DEF ListOK, SchedState
<1> HIDE DEF n, r
<1>2. ListOK(n) /\ s.state[n.current] = "READY"
  BY <1>13, <1>14, <1>15, Zenon
<1>3. /\ n.prio = s.prio /\ n.u = s.u /\ n.state = [s.state EXCEPT ![n.current] = "CURRENT"]
  BY <1>1, <1>15, TakeNextFacts, ZenonT(30) DEF k
<1>4. /\ \A x \in Range(n.queue) : s.prio[x] <= s.prio[n.current]
      /\ s.prio[n.current] = firstprio(s)
  BY <1>1, <1>15, TakeNextFacts, ZenonT(60) DEF k
<1>5. n.current \in Threads /\ n.current # c /\ n.state[c] # "READY"
  BY <1>1, <1>2, <1>3, Zenon DEF ListOK, SchedState
<1>6. ListOK(r)
  BY <1>1, <1>2, <1>5, ReadyFacts, Zenon DEF r
<1>7. r.current = n.current /\ r.prio = s.prio /\ r.u = s.u /\ r.state = [n.state EXCEPT ![c] = "READY"]
  BY <1>1, <1>2, <1>3, <1>5, ReadyFacts, SMTT(30) DEF r
<1>8. Range(r.queue) = Range(n.queue) \cup {c}
  BY <1>1, <1>2, <1>5, ReadyFacts, Zenon DEF r
<1>9. \A x \in Range(r.queue) : r.prio[x] <= r.prio[r.current]
  <2>1. s.prio[c] <= s.prio[n.current]
    BY <1>1, <1>4, <1>5, Zenon DEF c
  <2> QED BY <1>4, <1>7, <1>8, <2>1, Zenon
<1>10. PriorityOrder(r)
  <2>1. r.prio[r.current] \in Nat
    BY <1>1, <1>5, <1>7, Zenon
  <2> QED BY <1>6, <1>9, <2>1, FirstPrio, Zenon DEF PriorityOrder
<1>11. SchedOK(r)
  <2>1. \A t \in Threads : r.state[t] = "CURRENT" <=> t = r.current
    BY <1>1, <1>3, <1>5, <1>7 DEF SchedOK, c
  <2> QED BY <1>6, <2>1, Zenon DEF SchedOK
<1>12. Switched(s, r)
  BY <1>1, <1>2, <1>3, <1>5, <1>7, ZenonT(30) DEF Switched
<1>16. r = chSchDoRescheduleBehind(s)
  BY Zenon DEF r, n, k, c, chSchDoRescheduleBehind
<1> QED BY <1>10, <1>11, <1>12, <1>16, Zenon

\* A reschedule in a thread and at the end of the interrupt handlers: the
\* processor changes hands without anybody falling asleep.
LEMMA SwitchFacts ==
  ASSUME NEW s, SchedOK(s)
  PROVE  \A r \in {chSchRescheduleS(s), IrqEpilogue(s)} :
            SchedOK(r) /\ PriorityOrder(r) /\ Switched(s, r)
<1>1. s \in SchedState /\ s.current \in Threads /\ s.prio[s.current] \in Nat
      /\ s.prio[s.current] > 0 /\ s.ticks[s.current] \in Nat /\ ListOK(s)
  BY SchedAssumption DEF SchedOK, ListOK, SchedState, Priorities, IDLEPRIO
<1>2. firstprio(s) \in Nat
  BY <1>1, FirstPrio, Zenon
<1>3. firstprio(s) >= s.prio[s.current] => s.queue # <<>>
  BY <1>1 DEF firstprio, NOPRIO
<1>4. Switched(s, s)
  BY Zenon DEF Switched
<1>5. firstprio(s) <= s.prio[s.current] => PriorityOrder(s)
  BY Zenon DEF PriorityOrder
<1>6. firstprio(s) >= s.prio[s.current] =>
        /\ SchedOK(chSchDoRescheduleAhead(s)) /\ PriorityOrder(chSchDoRescheduleAhead(s))
        /\ Switched(s, chSchDoRescheduleAhead(s))
  BY <1>3, AheadSwitch, Zenon
<1>7. firstprio(s) >= s.prio[s.current] =>
        /\ SchedOK(chSchDoRescheduleBehind(s)) /\ PriorityOrder(chSchDoRescheduleBehind(s))
        /\ Switched(s, chSchDoRescheduleBehind(s))
  BY <1>3, BehindSwitch, Zenon
<1>8. SchedOK(chSchRescheduleS(s)) /\ PriorityOrder(chSchRescheduleS(s)) /\ Switched(s, chSchRescheduleS(s))
  <2>1. CASE firstprio(s) > s.prio[s.current]
    BY <1>1, <1>2, <1>6, <2>1 DEF chSchRescheduleS, chSchIsRescRequiredI
  <2>2. CASE ~(firstprio(s) > s.prio[s.current])
    BY <1>1, <1>2, <1>4, <1>5, <2>2 DEF chSchRescheduleS, chSchIsRescRequiredI
  <2> QED BY <2>1, <2>2, Zenon
<1>9. SchedOK(IrqEpilogue(s)) /\ PriorityOrder(IrqEpilogue(s)) /\ Switched(s, IrqEpilogue(s))
  <2>1. CASE chSchIsPreemptionRequired(s)
    <3>1. firstprio(s) >= s.prio[s.current]
      BY <1>1, <1>2, <2>1 DEF chSchIsPreemptionRequired
    <3> QED BY <1>6, <1>7, <2>1, <3>1, Zenon DEF IrqEpilogue, chSchDoReschedule
  <2>2. CASE ~chSchIsPreemptionRequired(s)
    <3>1. firstprio(s) <= s.prio[s.current]
      BY <1>1, <1>2, <2>2 DEF chSchIsPreemptionRequired
    <3> QED BY <1>4, <1>5, <2>2, <3>1, Zenon DEF IrqEpilogue
  <2> QED BY <2>1, <2>2, Zenon
<1> QED BY <1>8, <1>9, Zenon

\* chSchDoYieldS keeps the order it finds.
LEMMA YieldFacts ==
  ASSUME NEW s, SchedOK(s), PriorityOrder(s)
  PROVE  LET r == chSchDoYieldS(s)
         IN  SchedOK(r) /\ PriorityOrder(r) /\ Switched(s, r)
<1>1. s \in SchedState /\ s.current \in Threads /\ s.prio[s.current] \in Nat
      /\ s.prio[s.current] > 0
  BY SchedAssumption DEF SchedOK, ListOK, SchedState, Priorities, IDLEPRIO
<1>2. firstprio(s) >= s.prio[s.current] => s.queue # <<>>
  BY <1>1 DEF firstprio, NOPRIO
<1>3. Switched(s, s)
  BY Zenon DEF Switched
<1>4. CASE firstprio(s) >= s.prio[s.current]
  BY <1>2, <1>4, BehindSwitch, Zenon DEF chSchDoYieldS
<1>5. CASE ~(firstprio(s) >= s.prio[s.current])
  BY <1>3, <1>5, Zenon DEF chSchDoYieldS
<1> QED BY <1>4, <1>5, Zenon

\* chSchWakeupS: the thread runs now or becomes ready.
LEMMA WakeupFacts ==
  ASSUME NEW s, SchedOK(s), PriorityOrder(s),
         NEW t \in Threads, s.state[t] \notin {"READY", "CURRENT"}, NEW v \in Messages
  PROVE  LET r == chSchWakeupS(s, t, v)
         IN  /\ SchedOK(r) /\ PriorityOrder(r)
             /\ r.prio = s.prio /\ r.u = [s.u EXCEPT ![t] = v]
             /\ r.state[t] \in {"READY", "CURRENT"}
             /\ OthersSwitched(s, r, t)
<1> DEFINE c == s.current
           a == [s EXCEPT !.u[t] = v]
           r == chSchWakeupS(s, t, v)
<1>1. s \in SchedState /\ ListOK(s) /\ c \in Threads /\ s.state[c] = "CURRENT"
      /\ s.state \in [Threads -> States] /\ s.prio \in [Threads -> Nat]
  BY PrioNat, Zenon DEF SchedOK, ListOK, SchedState
<1>2. ListOK(a)
  BY <1>1, FieldFacts, Zenon
<1>3. /\ a.queue = s.queue /\ a.current = c /\ a.prio = s.prio
      /\ a.state = s.state /\ a.u = [s.u EXCEPT ![t] = v]
  BY <1>1, Zenon DEF SchedState
<1>4. \A x \in Range(s.queue) : s.prio[x] <= s.prio[c]
  BY <1>1, FirstPrio, Zenon DEF PriorityOrder
<1>5. r = IF s.prio[t] <= s.prio[c] THEN chSchReadyI(a, t)
          ELSE [chSchReadyAheadI(a, c) EXCEPT !.current = t, !.state[t] = "CURRENT"]
  BY Zenon DEF chSchWakeupS
<1> HIDE DEF c, a, r
<1>6. CASE s.prio[t] <= s.prio[c]
  <2>1. r = chSchReadyI(a, t) /\ a.state[t] # "READY"
    BY <1>3, <1>5, <1>6, Zenon
  <2>2. ListOK(r)
    BY <1>2, <2>1, ReadyFacts, Zenon
  <2>3. r.current = c /\ r.prio = s.prio /\ r.u = a.u /\ r.state = [s.state EXCEPT ![t] = "READY"]
    BY <1>2, <1>3, <2>1, ReadyFacts
  <2>4. Range(r.queue) = Range(s.queue) \cup {t}
    <3>1. Range(r.queue) = Range(a.queue) \cup {t}
      BY <1>2, <2>1, ReadyFacts, Zenon
    <3> QED BY <1>3, <3>1, Zenon
  <2>5. \A x \in Range(r.queue) : r.prio[x] <= r.prio[r.current]
    BY <1>4, <1>6, <2>3, <2>4, Zenon
  <2>6. PriorityOrder(r)
    <3>1. r.prio[r.current] \in Nat
      BY <1>1, <2>3, Zenon
    <3> QED BY <2>2, <2>5, <3>1, FirstPrio, Zenon DEF PriorityOrder
  <2>7. \A x \in Threads : r.state[x] = "CURRENT" <=> x = r.current
    BY <1>1, <2>3, Zenon DEF SchedOK, c
  <2>8. SchedOK(r)
    BY <2>2, <2>7, Zenon DEF SchedOK
  <2> QED BY <1>1, <1>3, <2>3, <2>6, <2>8, Zenon DEF r, OthersSwitched
<1>7. CASE s.prio[t] > s.prio[c]
  <2> DEFINE b == chSchReadyAheadI(a, c)
  <2>1. a.state[c] # "READY"
    BY <1>1, <1>3, Zenon
  <2>2. ListOK(b)
    BY <1>1, <1>2, <2>1, AheadFacts, Zenon
  <2>3. b.current = c /\ b.prio = s.prio /\ b.u = a.u /\ b.state = [s.state EXCEPT ![c] = "READY"]
    BY <1>1, <1>2, <1>3, <2>1, AheadFacts
  <2>4. Range(b.queue) = Range(s.queue) \cup {c}
    BY <1>1, <1>2, <1>3, <2>1, AheadFacts, Zenon
  <2>5. r = [b EXCEPT !.current = t, !.state[t] = "CURRENT"]
    BY <1>1, <1>5, <1>7
  <2> HIDE DEF b
  <2>6. b \in SchedState
    BY <2>2, Zenon DEF ListOK
  <2>7. /\ r.current = t /\ r.prio = s.prio /\ r.u = a.u /\ r.queue = b.queue
        /\ r.state = [b.state EXCEPT ![t] = "CURRENT"]
    BY <2>3, <2>5, <2>6, Zenon DEF SchedState
  <2>8. r \in SchedState
    BY <2>5, <2>6, Zenon DEF SchedState, States
  <2>9. t # c
    BY <1>1, Zenon
  <2>10. \A x \in Threads : r.state[x] = "READY" <=> x \in Range(r.queue)
    BY <1>1, <2>2, <2>3, <2>7, <2>9 DEF ListOK
  <2>11. ListOK(r)
    BY <2>2, <2>3, <2>7, <2>8, <2>10, Zenon DEF ListOK
  <2>12. \A x \in Threads : r.state[x] = "CURRENT" <=> x = r.current
    BY <1>1, <2>3, <2>7, <2>9 DEF SchedOK, c
  <2>13. SchedOK(r)
    BY <2>11, <2>12, Zenon DEF SchedOK
  <2>14. \A x \in Range(r.queue) : r.prio[x] <= r.prio[r.current]
    <3> TAKE x \in Range(r.queue)
    <3>3. x \in Range(s.queue) \/ x = c
      BY <2>4, <2>7, Zenon
    <3>4. r.queue \in Seq(Threads)
      BY <2>8, Zenon DEF SchedState
    <3>1. x \in Threads /\ (x \in Range(s.queue) \/ x = c)
      BY <3>3, <3>4 DEF Range
    <3>2. s.prio[x] <= s.prio[c]
      BY <1>1, <1>4, <3>1
    <3> QED BY <1>1, <1>7, <2>7, <3>1, <3>2
  <2>15. PriorityOrder(r)
    <3>1. r.prio[r.current] \in Nat
      BY <1>1, <2>7, Zenon
    <3> QED BY <2>11, <2>14, <3>1, FirstPrio, Zenon DEF PriorityOrder
  <2> QED BY <1>1, <1>3, <2>3, <2>7, <2>9, <2>13, <2>15 DEF r, OthersSwitched
<1>8. s.prio[t] <= s.prio[c] \/ s.prio[t] > s.prio[c]
  BY <1>1
<1> QED BY <1>6, <1>7, <1>8, Zenon

\* chSysTimerHandlerI touches the time slice alone.
LEMMA TickFacts ==
  ASSUME NEW s, SchedOK(s)
  PROVE  LET r == chSysTimerHandlerI(s)
         IN  SchedOK(r) /\ Switched(s, r) /\ r.current = s.current /\ r.queue = s.queue /\ r.state = s.state
<1>1. s \in SchedState /\ ListOK(s)
  BY Zenon DEF SchedOK, ListOK
<1>2. CASE s.ticks[s.current] > 0
  <2> DEFINE k == s.ticks[s.current] - 1
             r == [s EXCEPT !.ticks[s.current] = k]
  <2>1. s.current \in Threads /\ k \in 0 .. TIME_QUANTUM
    BY <1>1, <1>2, SchedAssumption DEF SchedState
  <2>2. ListOK(r)
    <3> HIDE DEF k
    <3> QED BY <1>1, <2>1, FieldFacts, Zenon
  <2>3. r.current = s.current /\ r.state = s.state /\ r.queue = s.queue /\ r.prio = s.prio /\ r.u = s.u
    BY <1>1, Zenon DEF SchedState
  <2>4. chSysTimerHandlerI(s) = r
    BY <1>2, Zenon DEF chSysTimerHandlerI
  <2> HIDE DEF r
  <2> QED BY <2>2, <2>3, <2>4, Zenon DEF SchedOK, Switched
<1>3. CASE ~(s.ticks[s.current] > 0)
  BY <1>3, Zenon DEF chSysTimerHandlerI, Switched
<1> QED BY <1>2, <1>3, Zenon


-----------------------------------------------------------------------------
(* Steps that move no mutex, and free mutexes *)

\* What PcInv says of one thread.
LEMMA PcFacts ==
  ASSUME PcInv, NEW t \in Threads
  PROVE  /\ sch.state[t] \in {"READY", "CURRENT", "WTSTART", "SUSPENDED", "WTMTX"}
         /\ pc[t] \in {"run", "boost", "mtxwait", "unlockall"}
         /\ t # ctp => pc[t] \in {"run", "mtxwait"}
         /\ sch.state[t] = "WTMTX" => pc[t] = "mtxwait" /\ sch.u[t] = mp[t]
         /\ pc[t] \in {"boost", "mtxwait"} => mp[t] \in Mutexes
         /\ pc[t] = "mtxwait" /\ sch.state[t] # "WTMTX" =>
              /\ sch.state[t] \in {"READY", "CURRENT"}
              /\ owner[mp[t]] = t
              /\ mtxlist[t] # <<>> /\ Head(mtxlist[t]) = mp[t]
              /\ RecursiveMode => cnt[mp[t]] = 1
         /\ pc[t] = "boost" => owner[mp[t]] \notin {NULL, t}
         /\ pc[t] = "unlockall" => mtxlist[t] # <<>>
BY Zenon DEF PcInv

\* What OwnersMatchStacks says of one thread and one mutex.
LEMMA OwnerFacts ==
  ASSUME OwnersMatchStacks, NEW t \in Threads
  PROVE  /\ IsInjective(mtxlist[t])
         /\ \A n \in Mutexes : n \in Range(mtxlist[t]) <=> owner[n] = t
BY Zenon DEF OwnersMatchStacks

\* What every step starts from, in the form the steps use.
LEMMA InvFacts ==
  ASSUME LockInv
  PROVE  /\ SchedOK(sch) /\ sch \in SchedState
         /\ ctp \in Threads /\ sch.state[ctp] = "CURRENT"
         /\ sch.prio \in [Threads -> Nat] /\ sch.prio \in [Threads -> Priorities]
         /\ sch.state \in [Threads -> States] /\ sch.u \in [Threads -> Objects \cup Messages]
         /\ \A t \in Threads, o \in Objects :
              sch.state[t] = "WTMTX" /\ sch.u[t] = o <=> t \in Range(wq[o])
         /\ ctp # idle => sch.queue # <<>>
         /\ \A o \in Objects : ctp \notin Range(wq[o])
<1>1. SchedOK(sch) /\ sch \in SchedState /\ ctp \in Threads /\ sch.state[ctp] = "CURRENT"
  BY Zenon DEF LockInv, MtxTypeOK, QueuesMatchStates, OrderInv, SchedOK, ListOK, SchedState, ctp
<1>2. sch.prio \in [Threads -> Nat]
  BY <1>1, PrioNat, Zenon
<1>3. /\ sch.prio \in [Threads -> Priorities] /\ sch.state \in [Threads -> States]
      /\ sch.u \in [Threads -> Objects \cup Messages]
  BY <1>1, Zenon DEF SchedState
<1>4. \A t \in Threads, o \in Objects :
        sch.state[t] = "WTMTX" /\ sch.u[t] = o <=> t \in Range(wq[o])
  <2>1. \A t \in Threads : Waiting(t) <=> sch.state[t] = "WTMTX"
    BY Zenon DEF LockInv, PcInv, Waiting
  <2> QED BY <2>1, Zenon DEF LockInv, QueuesMatchStates
<1>5. ASSUME ctp # idle PROVE sch.queue # <<>>
  <2>1. idle \in Range(sch.queue)
    BY <1>1, <1>5, SchedAssumption, Zenon DEF LockInv, PcInv, QueuesMatchStates
  <2> QED BY <2>1 DEF Range
<1>6. \A o \in Objects : ctp \notin Range(wq[o])
  BY <1>1, <1>4, Zenon
<1> QED BY <1>1, <1>2, <1>3, <1>4, <1>5, <1>6, Zenon

\* A priority that changes leaves the order of a queue without its thread.
LEMMA SortedElsewhere ==
  ASSUME NEW q \in Seq(Threads), NEW t \in Threads, t \notin Range(q),
         NEW f \in [Threads -> Nat], NEW g \in [Threads -> Nat],
         \A x \in Threads \ {t} : g[x] = f[x], Sorted(q, f)
  PROVE  Sorted(q, g)
<1>1. \A i \in DOMAIN q : q[i] \in Threads \ {t}
  BY DEF Range
<1> QED BY <1>1, Zenon DEF Sorted

\* A bounded non-empty set of naturals has a greatest element, and Max is it.
LEMMA MaxNat ==
  ASSUME NEW S \in SUBSET Nat, S # {}, NEW n \in Nat, \A y \in S : y <= n
  PROVE  Max(S) \in S /\ \A y \in S : y <= Max(S)
<1> DEFINE T == {n - y : y \in S}
<1>1. T \in SUBSET Nat /\ T # {}
  <2>1. \A y \in S : n - y \in Nat
    OBVIOUS
  <2>2. PICK y \in S : TRUE
    BY Zenon
  <2>3. n - y \in T
    BY <2>2, Zenon
  <2> QED BY <2>1, <2>3, Zenon
<1>2. Min(T) \in T /\ \A z \in T : Min(T) <= z
  BY <1>1, MinNat, Zenon
<1>3. PICK x \in S : Min(T) = n - x
  BY <1>2, Zenon
<1>4. \A y \in S : x >= y
  <2> TAKE y \in S
  <2>1. x \in Nat /\ y \in Nat /\ n - x <= n - y
    BY <1>2, <1>3, Zenon
  <2> QED BY <2>1
<1>5. Max(S) \in S /\ \A y \in S : Max(S) >= y
  BY <1>4, Zenon DEF Max
<1> QED BY <1>5, Zenon

\* The initial state.
LEMMA InitInv ==
  ASSUME MtxInit
  PROVE  LockInv
<1>1. sch.current = main /\ sch.queue = <<idle>> /\ sch.prio = BasePrio
      /\ sch.state = [t \in Threads |-> CASE t = main -> "CURRENT"
                                          [] t = idle -> "READY"
                                          [] OTHER    -> "WTSTART"]
  BY Zenon DEF MtxInit
<1>2. main \in Threads /\ idle \in Threads /\ main # idle
  BY MtxAssumption, SchedAssumption, Zenon
<1>3. MtxTypeOK
  <2>1. sch \in SchedState
    BY MtxAssumption, SchedAssumption DEF MtxInit, SchedState, States, Messages
  <2>2. /\ wq \in [Objects -> Seq(Threads)] /\ mtxlist \in [Threads -> Seq(Mutexes)]
        /\ owner \in [Mutexes -> Threads \cup {NULL}] /\ cnt \in [Mutexes -> Nat]
    BY DEF MtxInit
  <2>3. /\ realprio \in [Threads -> Priorities] /\ pc \in [Threads -> Pcs]
        /\ mp \in [Threads -> Mutexes \cup {NULL}] /\ tp \in Threads \cup {NULL}
    BY MtxAssumption, Zenon DEF MtxInit, Pcs
  <2>4. isr \in BOOLEAN
    BY Zenon DEF MtxInit
  <2> QED BY <2>1, <2>2, <2>3, <2>4, Zenon DEF MtxTypeOK
<1>4. Range(<<idle>>) = {idle} /\ IsInjective(<<idle>>)
  BY DEF Range, IsInjective
<1>5. Range(<<>>) = {} /\ IsInjective(<<>>)
  BY DEF Range, IsInjective
<1>6. QueuesMatchStates
  <2>1. \A o \in Objects : wq[o] = <<>>
    BY Zenon DEF MtxInit
  <2>2. \A t \in Threads : ~Waiting(t)
    BY <1>1, Zenon DEF Waiting
  <2> QED BY <1>1, <1>2, <1>4, <1>5, <2>1, <2>2, Zenon DEF QueuesMatchStates, ctp
<1>7. OwnersMatchStacks
  <2>1. \A t \in Threads : mtxlist[t] = <<>>
    BY Zenon DEF MtxInit
  <2>2. \A m \in Mutexes : wq[m] = <<>> /\ owner[m] = NULL /\ cnt[m] = 0
    BY MtxAssumption, Zenon DEF MtxInit
  <2> QED BY <1>5, <2>1, <2>2, MtxAssumption, Zenon DEF OwnersMatchStacks
<1>8. PcInv
  BY <1>1, <1>2, Zenon DEF PcInv, MtxInit, ctp
<1>9. OrderInv
  <2>1. Sorted(<<idle>>, sch.prio) /\ Sorted(<<>>, sch.prio)
    BY DEF Sorted
  <2>2. PriorityOrder(sch)
    <3>1. firstprio(sch) = 1 /\ sch.prio[main] \in Priorities
      BY <1>1, <1>2, MtxAssumption DEF firstprio, IDLEPRIO
    <3> QED BY <1>1, <3>1, SchedAssumption DEF PriorityOrder, Priorities, IDLEPRIO
  <2> QED BY <1>1, <2>1, <2>2, Zenon DEF OrderInv, MtxInit
<1>10. InheritInv
  <2>1. \A m \in Mutexes : Range(wq[m]) = {}
    BY <1>5, MtxAssumption, Zenon DEF MtxInit
  <2> QED BY <2>1, <1>1, <1>2, Zenon DEF InheritInv, MtxInit, ctp
<1> QED BY <1>3, <1>6, <1>7, <1>8, <1>9, <1>10, Zenon DEF LockInv

\* A step that moves threads between the ready list, the processor and the
\* states that have no queue, and changes no priority but perhaps that of a
\* running thread.
LEMMA MoveStep ==
  ASSUME LockInv, pc[ctp] = "run",
         UNCHANGED <<wq, mtxlist, owner, cnt, pc, mp, tp>>,
         realprio' \in [Threads -> Priorities], isr' \in BOOLEAN,
         SchedOK(sch'),
         isr' => sch'.current = ctp,
         ~isr' => PriorityOrder(sch'),
         sch'.state[idle] \in {"READY", "CURRENT"},
         \A t \in Threads :
           /\ sch'.state[t] \in {"READY", "CURRENT", "WTSTART", "SUSPENDED", "WTMTX"}
           /\ sch'.state[t] = "WTMTX" <=> sch.state[t] = "WTMTX"
           /\ sch.state[t] = "WTMTX" => sch'.u[t] = sch.u[t]
           /\ pc[t] # "run" /\ sch.state[t] \in {"READY", "CURRENT"} =>
                sch'.state[t] \in {"READY", "CURRENT"},
         \A t \in Threads \ {ctp} : sch'.prio[t] = sch.prio[t],
         sch'.prio[ctp] = sch.prio[ctp] \/ SetPrioOwning \/ mtxlist[ctp] = <<>>
  PROVE  LockInv'
<1>1. /\ ctp \in Threads /\ sch.state[ctp] = "CURRENT"
      /\ \A o \in Objects : ctp \notin Range(wq[o])
      /\ \A t \in Threads, o \in Objects :
              sch.state[t] = "WTMTX" /\ sch.u[t] = o <=> t \in Range(wq[o])
  BY InvFacts, Zenon
<1>2. sch' \in SchedState /\ sch'.current \in Threads
  BY Zenon DEF SchedOK, ListOK, SchedState
<1>3. MtxTypeOK'
  <2>1. MtxTypeOK
    BY Zenon DEF LockInv
  <2> QED BY <1>2, <2>1, Zenon DEF MtxTypeOK
<1>4. QueuesMatchStates'
  <2>1. \A t \in Threads : Waiting(t)' <=> sch'.state[t] = "WTMTX"
    BY Zenon DEF Waiting
  <2>2. \A o \in Objects : IsInjective(wq'[o])
    BY Zenon DEF LockInv, QueuesMatchStates
  <2>3. /\ IsInjective(sch'.queue)
        /\ \A t \in Threads : /\ sch'.state[t] = "READY" <=> t \in Range(sch'.queue)
                              /\ sch'.state[t] = "CURRENT" <=> t = sch'.current
    BY Zenon DEF SchedOK, ListOK
  <2>4. \A t \in Threads, o \in Objects : Waiting(t)' /\ sch'.u[t] = o <=> t \in Range(wq'[o])
    BY <1>1, <2>1
  <2> QED BY <2>2, <2>3, <2>4, Zenon DEF QueuesMatchStates, ctp
<1>5. OwnersMatchStacks'
  BY DEF LockInv, OwnersMatchStacks
<1>6. PcInv'
  <2>1. PcInv
    BY Zenon DEF LockInv
  <2>2. tp' = NULL
    BY <2>1, Zenon DEF PcInv
  <2>3. \A t \in Threads : pc'[t] \in {"run", "mtxwait"}
    BY <1>1, <2>1, Zenon DEF PcInv
  <2>4. pc'[idle] = "run" /\ sch'.state[idle] \in {"READY", "CURRENT"} /\ (isr' => pc'[sch'.current] = "run")
    BY <2>1, Zenon DEF PcInv
  <2>5. ASSUME NEW t \in Threads
        PROVE  /\ sch'.state[t] = "WTMTX" => pc'[t] = "mtxwait" /\ sch'.u[t] = mp'[t]
               /\ pc'[t] = "mtxwait" => mp'[t] \in Mutexes
               /\ pc'[t] = "mtxwait" /\ sch'.state[t] # "WTMTX" =>
                    /\ sch'.state[t] \in {"READY", "CURRENT"}
                    /\ owner'[mp'[t]] = t
                    /\ mtxlist'[t] # <<>> /\ Head(mtxlist'[t]) = mp'[t]
                    /\ RecursiveMode => cnt'[mp'[t]] = 1
    BY <2>1 DEF PcInv
  <2> QED BY <2>2, <2>3, <2>4, <2>5 DEF PcInv, ctp
<1>7. OrderInv'
  <2>1. Sorted(sch'.queue, sch'.prio)
    BY Zenon DEF SchedOK, ListOK
  <2>2. ASSUME NEW o \in Objects PROVE Sorted(wq'[o], sch'.prio)
    <3>1. wq[o] \in Seq(Threads) /\ Sorted(wq[o], sch.prio)
      BY Zenon DEF LockInv, MtxTypeOK, OrderInv
    <3>2. \A i \in DOMAIN wq[o] : sch'.prio[wq[o][i]] = sch.prio[wq[o][i]]
      BY <1>1, <3>1 DEF Range
    <3> QED BY <3>1, <3>2, ZenonT(30) DEF Sorted
  <2> QED BY <2>1, <2>2, Zenon DEF OrderInv
<1>8. ASSUME ~SetPrioOwning PROVE InheritInv'
  <2>1. InheritInv /\ PcInv /\ OwnersMatchStacks /\ MtxTypeOK
    BY <1>8, Zenon DEF LockInv
  <2>2. tp = NULL /\ pc'[sch'.current] # "boost"
    BY <1>1, <1>2, <2>1, Zenon DEF PcInv
  <2>3. ASSUME NEW m \in Mutexes, NEW w \in Range(wq[m])
        PROVE  sch'.prio[w] <= sch'.prio[owner[m]]
    <3>1. m \in Objects /\ wq[m] \in Seq(Threads) /\ wq[m] # <<>>
      BY <2>1, <2>3, MtxAssumption DEF MtxTypeOK, Range
    <3>2. w \in Threads /\ w # ctp
      BY <1>1, <3>1 DEF Range
    <3>3. owner[m] \in Threads
      BY <2>1, <3>1 DEF MtxTypeOK, OwnersMatchStacks
    <3>4. sch.prio[w] <= sch.prio[owner[m]]
      BY <2>1, <2>2, <3>3, MtxAssumption DEF InheritInv
    <3>5. owner[m] = ctp => sch'.prio[ctp] = sch.prio[ctp]
      <4>1. owner[m] = ctp => m \in Range(mtxlist[ctp])
        BY <1>1, <2>1, Zenon DEF OwnersMatchStacks
      <4>2. m \in Range(mtxlist[ctp]) => mtxlist[ctp] # <<>>
        BY DEF Range
      <4> QED BY <1>8, <4>1, <4>2, Zenon
    <3> QED BY <3>2, <3>3, <3>4, <3>5, Zenon
  <2> QED BY <2>2, <2>3, Zenon DEF InheritInv, ctp
<1> QED BY <1>3, <1>4, <1>5, <1>6, <1>7, <1>8, Zenon DEF LockInv

\* What such a step leaves alone, and what chThdSetPriority makes of the running
\* thread's priorities.
Moved ==
  /\ pc[ctp] = "run" /\ UNCHANGED <<wq, mtxlist, owner, pc, mp, tp>>
  /\ \A t \in Threads : sch'.state[t] = "WTMTX" => sch.state[t] = "WTMTX"
  /\ \A t \in Threads \ {ctp} : sch'.prio[t] = sch.prio[t] /\ realprio'[t] = realprio[t]
  /\ \/ sch'.prio[ctp] = sch.prio[ctp] /\ realprio'[ctp] = realprio[ctp]
     \/ sch'.prio[ctp] = sch.prio[ctp] /\ sch.prio[ctp] # realprio[ctp] /\ realprio'[ctp] <= sch.prio[ctp]
     \/ sch'.prio[ctp] = realprio'[ctp]

\* The thread functions and the interrupt handlers.
LEMMA MoveActions ==
  ASSUME LockInv,
         \/ chThdYield \/ chThdSuspendS
         \/ \E t \in Threads : chThdStart(t)
         \/ \E p \in NewPrios : chThdSetPriority(p)
         \/ IsrTick \/ \E t \in Threads : IsrResume(t)
         \/ IsrReturn
  PROVE  LockInv' /\ Moved
<1>1. /\ SchedOK(sch) /\ sch \in SchedState /\ ctp \in Threads /\ sch.state[ctp] = "CURRENT"
      /\ (ctp # idle => sch.queue # <<>>)
      /\ sch.state \in [Threads -> States] /\ sch.prio \in [Threads -> Priorities]
  BY InvFacts, Zenon
<1>2. MtxTypeOK /\ PcInv /\ OrderInv
  BY Zenon DEF LockInv
<1>3. idle \in Threads /\ sch.state[idle] \in {"READY", "CURRENT"}
  BY <1>2, SchedAssumption, Zenon DEF PcInv
<1>4. realprio \in [Threads -> Priorities] /\ isr \in BOOLEAN
  BY <1>2, Zenon DEF MtxTypeOK
<1>5. \A t \in Threads :
         sch.state[t] \in {"READY", "CURRENT", "WTSTART", "SUSPENDED", "WTMTX"}
  BY <1>2, Zenon DEF PcInv
\* What a change of the running thread alone does.
<1>6. ASSUME NEW r, Switched(sch, r)
      PROVE  /\ r.prio = sch.prio /\ r.u = sch.u /\ r.state[idle] \in {"READY", "CURRENT"}
             /\ \A t \in Threads :
                  /\ r.state[t] \in {"READY", "CURRENT", "WTSTART", "SUSPENDED", "WTMTX"}
                  /\ r.state[t] = "WTMTX" <=> sch.state[t] = "WTMTX"
                  /\ sch.state[t] \in {"READY", "CURRENT"} => r.state[t] \in {"READY", "CURRENT"}
  BY <1>3, <1>5, <1>6, SMTT(30) DEF Switched
<1>7. ASSUME chThdYield PROVE LockInv' /\ Moved
  <2>1. pc[ctp] = "run" /\ ~isr /\ isr' = isr /\ UNCHANGED restvars
    BY <1>7, Zenon DEF chThdYield, ThreadMode
  <2>2. PriorityOrder(sch)
    BY <1>2, <2>1, SMTT(30) DEF OrderInv
  <2>3. SchedOK(sch') /\ PriorityOrder(sch') /\ Switched(sch, sch')
    BY <1>1, <1>7, <2>2, YieldFacts, SMTT(30) DEF chThdYield
  <2>4. LockInv'
    BY <1>4, <1>6, <2>1, <2>3, MoveStep, Zenon DEF restvars
  <2>5. Moved
    BY <1>1, <1>6, <2>1, <2>3, Zenon DEF Moved, restvars
  <2> QED BY <2>4, <2>5, Zenon
<1>8. ASSUME chThdSuspendS PROVE LockInv' /\ Moved
  <2>1. pc[ctp] = "run" /\ ~isr /\ isr' = isr /\ UNCHANGED restvars /\ ctp # idle
    BY <1>8, Zenon DEF chThdSuspendS, ThreadMode
  <2>2. sch' = chSchGoSleepS(sch, "SUSPENDED") /\ "SUSPENDED" \in States \ {"READY", "CURRENT"}
        /\ sch.queue # <<>>
    BY <1>1, <1>8, <2>1, Zenon DEF chThdSuspendS, States
  <2>3. SchedOK(sch') /\ PriorityOrder(sch')
    BY <1>1, <2>2, GoSleepFacts, Zenon
  <2>4. sch'.prio = sch.prio /\ sch'.u = sch.u /\ sch'.state[ctp] = "SUSPENDED"
    BY <1>1, <2>2, GoSleepFacts DEF ctp
  <2>5. \A t \in Threads \ {ctp} : \/ sch'.state[t] = sch.state[t]
                                   \/ sch'.state[t] = "CURRENT" /\ sch.state[t] = "READY"
    BY <1>1, <2>2, GoSleepFacts DEF ctp
  <2>6. sch'.state[idle] \in {"READY", "CURRENT"}
    BY <1>3, <2>1, <2>5, Zenon
  <2>7. \A t \in Threads :
           /\ sch'.state[t] \in {"READY", "CURRENT", "WTSTART", "SUSPENDED", "WTMTX"}
           /\ sch'.state[t] = "WTMTX" <=> sch.state[t] = "WTMTX"
           /\ pc[t] # "run" /\ sch.state[t] \in {"READY", "CURRENT"} =>
                sch'.state[t] \in {"READY", "CURRENT"}
    BY <1>1, <1>5, <2>1, <2>4, <2>5, SMTT(30)
  <2>8. LockInv'
    BY <1>4, <2>1, <2>3, <2>4, <2>6, <2>7, MoveStep, Zenon DEF restvars
  <2>9. Moved
    BY <1>1, <2>1, <2>4, <2>7, Zenon DEF Moved, restvars
  <2> QED BY <2>8, <2>9, Zenon
<1>9. ASSUME NEW t \in Threads, chThdStart(t) PROVE LockInv' /\ Moved
  <2>1. pc[ctp] = "run" /\ ~isr /\ isr' = isr /\ UNCHANGED restvars
    BY <1>9, Zenon DEF chThdStart, ThreadMode
  <2>2. sch.state[t] = "WTSTART" /\ sch' = chSchWakeupS(sch, t, MSG_OK) /\ MSG_OK \in Messages
        /\ PriorityOrder(sch)
    BY <1>2, <1>9, <2>1, SMTT(30) DEF chThdStart, Messages, OrderInv
  <2>3. SchedOK(sch') /\ PriorityOrder(sch')
    BY <1>1, <2>2, WakeupFacts, Zenon
  <2>4. sch'.prio = sch.prio
    BY <1>1, <2>2, WakeupFacts, Zenon
  <2>5. sch'.u = [sch.u EXCEPT ![t] = MSG_OK]
    BY <1>1, <2>2, WakeupFacts
  <2>6. sch'.state[t] \in {"READY", "CURRENT"}
    BY <1>1, <2>2, WakeupFacts, Zenon
  <2>7. \A x \in Threads \ {t} : IF sch.state[x] \in {"READY", "CURRENT"}
                                 THEN sch'.state[x] \in {"READY", "CURRENT"}
                                 ELSE sch'.state[x] = sch.state[x]
    <3>1. OthersSwitched(sch, sch', t)
      BY <1>1, <2>2, WakeupFacts, Zenon
    <3> QED BY <3>1, Zenon DEF OthersSwitched
  <2>8. sch'.state[idle] \in {"READY", "CURRENT"}
    BY <1>3, <2>2, <2>7, Zenon
  <2>9. \A x \in Threads :
           /\ sch'.state[x] \in {"READY", "CURRENT", "WTSTART", "SUSPENDED", "WTMTX"}
           /\ sch'.state[x] = "WTMTX" <=> sch.state[x] = "WTMTX"
           /\ sch.state[x] = "WTMTX" => sch'.u[x] = sch.u[x]
           /\ pc[x] # "run" /\ sch.state[x] \in {"READY", "CURRENT"} =>
                sch'.state[x] \in {"READY", "CURRENT"}
    <3> TAKE x \in Threads
    <3>1. x # t => sch'.u[x] = sch.u[x]
      BY <1>1, <2>5, Zenon DEF SchedState
    <3>2. CASE x = t
      BY <2>2, <2>6, <3>2, Zenon
    <3>3. CASE x # t
      BY <1>5, <2>7, <3>1, <3>3, SMTT(30)
    <3> QED BY <3>2, <3>3, Zenon
  <2>10. LockInv'
    BY <1>4, <2>1, <2>3, <2>4, <2>8, <2>9, MoveStep, SMTT(30) DEF restvars
  <2>11. Moved
    BY <1>1, <2>1, <2>4, <2>9, Zenon DEF Moved, restvars
  <2> QED BY <2>10, <2>11, Zenon
<1>10. ASSUME NEW p \in NewPrios, chThdSetPriority(p) PROVE LockInv' /\ Moved
  <2> DEFINE s == IF sch.prio[ctp] # realprio[ctp] /\ p <= sch.prio[ctp] THEN sch
                  ELSE [sch EXCEPT !.prio[ctp] = p]
  <2>1. /\ pc[ctp] = "run" /\ ~isr /\ isr' = isr
        /\ UNCHANGED <<wq, mtxlist, owner, cnt, pc, mp, tp>>
        /\ mtxlist[ctp] = <<>> \/ SetPrioOwning
        /\ sch' = chSchRescheduleS(s) /\ realprio' = [realprio EXCEPT ![ctp] = p]
    BY <1>10, Zenon DEF chThdSetPriority, ThreadMode
  <2>2. p \in Priorities
    BY MtxAssumption, Zenon
  <2>3. ListOK([sch EXCEPT !.prio[ctp] = p])
    BY <1>1, <2>2, FieldFacts, Zenon DEF SchedOK
  <2>4. /\ s.state = sch.state /\ s.u = sch.u /\ s.current = ctp
        /\ \A t \in Threads \ {ctp} : s.prio[t] = sch.prio[t]
        /\ s.prio[ctp] = IF sch.prio[ctp] # realprio[ctp] /\ p <= sch.prio[ctp] THEN sch.prio[ctp]
                         ELSE p
    BY <1>1, Zenon DEF SchedState, ctp
  <2>5. SchedOK(s)
    <3>1. ListOK(s)
      BY <1>1, <2>3, Zenon DEF SchedOK
    <3> HIDE DEF s
    <3> QED BY <1>1, <2>4, <3>1, Zenon DEF SchedOK, ctp
  <2> HIDE DEF s
  <2>6. SchedOK(sch') /\ PriorityOrder(sch') /\ Switched(s, sch')
    BY <2>1, <2>5, SwitchFacts, Zenon
  <2>7. sch'.prio = s.prio /\ sch'.u = sch.u
    BY <2>4, <2>6, Zenon DEF Switched
  <2>8. \A t \in Threads :
           /\ sch'.state[t] \in {"READY", "CURRENT", "WTSTART", "SUSPENDED", "WTMTX"}
           /\ sch'.state[t] = "WTMTX" <=> sch.state[t] = "WTMTX"
           /\ sch.state[t] \in {"READY", "CURRENT"} => sch'.state[t] \in {"READY", "CURRENT"}
    BY <1>5, <2>4, <2>6, Zenon DEF Switched
  <2>9. realprio' \in [Threads -> Priorities]
    BY <1>4, <2>1, <2>2, Zenon
  <2>10. \A t \in Threads \ {ctp} : sch'.prio[t] = sch.prio[t]
    BY <2>4, <2>7, Zenon
  <2>11. sch'.state[idle] \in {"READY", "CURRENT"} /\ isr' = FALSE
    BY <1>3, <2>1, <2>8, <1>4, Zenon
  <2>12. LockInv'
    BY <2>1, <2>6, <2>7, <2>8, <2>9, <2>10, <2>11, MoveStep, ZenonT(30)
  <2>13. realprio'[ctp] = p /\ \A t \in Threads \ {ctp} : realprio'[t] = realprio[t]
    BY <1>1, <1>4, <2>1, Zenon
  <2>14. \/ sch'.prio[ctp] = sch.prio[ctp] /\ sch.prio[ctp] # realprio[ctp] /\ realprio'[ctp] <= sch.prio[ctp]
         \/ sch'.prio[ctp] = realprio'[ctp]
    <3>1. CASE sch.prio[ctp] # realprio[ctp] /\ p <= sch.prio[ctp]
      <4>1. s.prio[ctp] = sch.prio[ctp]
        BY <2>4, <3>1, Zenon
      <4> QED BY <2>7, <2>13, <3>1, <4>1, Zenon
    <3>2. CASE ~(sch.prio[ctp] # realprio[ctp] /\ p <= sch.prio[ctp])
      <4>1. s.prio[ctp] = p
        BY <2>4, <3>2, Zenon
      <4> QED BY <2>7, <2>13, <4>1, Zenon
    <3> QED BY <3>1, <3>2, Zenon
  <2>15. Moved
    BY <2>1, <2>8, <2>10, <2>13, <2>14, Zenon DEF Moved
  <2> QED BY <2>12, <2>15, Zenon
<1>11. ASSUME IsrTick PROVE LockInv' /\ Moved
  <2>1. pc[ctp] = "run" /\ isr' = TRUE /\ UNCHANGED restvars
    BY <1>11, SMTT(30) DEF IsrTick, IsrMode
  <2>2. SchedOK(sch') /\ Switched(sch, sch') /\ sch'.current = ctp
    BY <1>1, <1>11, TickFacts, SMTT(30) DEF IsrTick, ctp
  <2>3. LockInv'
    BY <1>4, <1>6, <2>1, <2>2, MoveStep, Zenon DEF restvars
  <2>4. Moved
    BY <1>1, <1>6, <2>1, <2>2, Zenon DEF Moved, restvars
  <2> QED BY <2>3, <2>4, Zenon
<1>12. ASSUME NEW t \in Threads, IsrResume(t) PROVE LockInv' /\ Moved
  <2> DEFINE s == [sch EXCEPT !.u[t] = MSG_OK]
  <2>1. pc[ctp] = "run" /\ isr' = TRUE /\ UNCHANGED restvars
        /\ sch.state[t] = "SUSPENDED" /\ sch' = chSchReadyI(s, t)
    BY <1>12, Zenon DEF IsrResume, IsrMode
  <2>2. ListOK(s)
    BY <1>1, FieldFacts, Zenon DEF SchedOK, Messages
  <2>3. s.state = sch.state /\ s.current = ctp /\ s.prio = sch.prio
        /\ \A x \in Threads \ {t} : s.u[x] = sch.u[x]
    BY <1>1, Zenon DEF SchedState, ctp
  <2> HIDE DEF s
  <2>4. s.state[t] # "READY"
    BY <2>1, <2>3, Zenon
  <2>5. ListOK(sch')
    BY <2>1, <2>2, <2>4, ReadyFacts, Zenon
  <2>6. sch'.current = s.current /\ sch'.prio = s.prio
    BY <2>1, <2>2, <2>4, ReadyFacts, ZenonT(30)
  <2>6a. sch'.u = s.u
    BY <2>1, <2>2, <2>4, ReadyFacts, Zenon
  <2>7. sch'.state = [s.state EXCEPT ![t] = "READY"]
    BY <2>1, <2>2, <2>4, ReadyFacts, SMTT(30)
  <2>8. sch'.state = [sch.state EXCEPT ![t] = "READY"]
    BY <2>3, <2>7, Zenon
  <2>9. \A x \in Threads : IF x = t THEN sch'.state[x] = "READY" ELSE sch'.state[x] = sch.state[x]
    BY <1>1, <2>8, Zenon
  <2>10. SchedOK(sch')
    <3>1. \A x \in Threads : sch'.state[x] = "CURRENT" <=> x = sch'.current
      BY <1>1, <2>1, <2>3, <2>6, <2>9, SMTT(30) DEF SchedOK, ctp
    <3> QED BY <2>5, <3>1, SMTT(30) DEF SchedOK
  <2>11. \A x \in Threads :
           /\ sch'.state[x] \in {"READY", "CURRENT", "WTSTART", "SUSPENDED", "WTMTX"}
           /\ sch'.state[x] = "WTMTX" <=> sch.state[x] = "WTMTX"
           /\ sch.state[x] = "WTMTX" => sch'.u[x] = sch.u[x]
           /\ sch.state[x] \in {"READY", "CURRENT"} => sch'.state[x] \in {"READY", "CURRENT"}
    BY <1>5, <2>1, <2>3, <2>6a, <2>9, SMTT(30)
  <2>12. sch'.prio = sch.prio /\ sch'.current = ctp /\ isr' \in BOOLEAN /\ realprio' = realprio
    BY <2>1, <2>3, <2>6, SMTT(30) DEF restvars
  <2>13. LockInv'
    BY <1>3, <1>4, <2>1, <2>10, <2>11, <2>12, MoveStep, ZenonT(30) DEF restvars
  <2>14. Moved
    BY <1>1, <2>1, <2>11, <2>12, Zenon DEF Moved, restvars
  <2> QED BY <2>13, <2>14, Zenon
<1>13. ASSUME IsrReturn PROVE LockInv' /\ Moved
  <2>1. isr /\ isr' = FALSE /\ UNCHANGED restvars
    BY <1>13, Zenon DEF IsrReturn
  <2>2. pc[ctp] = "run"
    BY <1>2, <2>1, Zenon DEF PcInv
  <2>3. SchedOK(sch') /\ PriorityOrder(sch') /\ Switched(sch, sch')
    BY <1>1, <1>13, SwitchFacts, Zenon DEF IsrReturn
  <2>4. LockInv'
    BY <1>4, <1>6, <2>1, <2>2, <2>3, MoveStep, Zenon DEF restvars
  <2>5. Moved
    BY <1>1, <1>6, <2>1, <2>2, <2>3, Zenon DEF Moved, restvars
  <2> QED BY <2>4, <2>5, Zenon
<1> QED BY <1>7, <1>8, <1>9, <1>10, <1>11, <1>12, <1>13, ZenonT(30)

\* A step that leaves the scheduler and the wait queues alone.
LEMMA QuietFacts ==
  ASSUME LockInv, UNCHANGED <<sch, wq, isr>>, pc[ctp] # "unlockall"
  PROVE  QueuesMatchStates' /\ OrderInv'
<1>1. QueuesMatchStates'
  BY Zenon DEF LockInv, QueuesMatchStates, Waiting, ctp
<1>2. OrderInv'
  BY Zenon DEF LockInv, OrderInv, ctp
<1> QED BY <1>1, <1>2, Zenon

\* Locking again, undoing it, or not getting the mutex: at most the counter of
\* an owned mutex changes.
LEMMA CountStep ==
  ASSUME LockInv, pc[ctp] = "run",
         UNCHANGED <<sch, wq, realprio, mtxlist, owner, pc, tp, isr>>,
         cnt' \in [Mutexes -> Nat],
         \A n \in Mutexes : owner[n] # ctp => cnt'[n] = cnt[n],
         RecursiveMode => \A n \in Mutexes : owner[n] = ctp => cnt'[n] # 0,
         mp' \in [Threads -> Mutexes \cup {NULL}],
         \A t \in Threads \ {ctp} : mp'[t] = mp[t]
  PROVE  LockInv'
<1>1. QueuesMatchStates' /\ OrderInv'
  BY QuietFacts, Zenon
<1>2. /\ MtxTypeOK /\ PcInv /\ OwnersMatchStacks /\ (~SetPrioOwning => InheritInv)
  BY Zenon DEF LockInv
<1>3. ctp \in Threads /\ sch.state[ctp] = "CURRENT"
  BY InvFacts, Zenon
<1>4. MtxTypeOK'
  BY <1>2, Zenon DEF MtxTypeOK
<1>5. OwnersMatchStacks'
  <2>1. \A m \in Mutexes : RecursiveMode => (cnt'[m] = 0 <=> owner[m] = NULL)
    BY <1>2, <1>3, MtxAssumption, SMTT(30) DEF OwnersMatchStacks
  <2> QED BY <1>2, <2>1, Zenon DEF OwnersMatchStacks
<1>6. PcInv'
  <2>1. pc'[idle] = "run" /\ sch'.state[idle] \in {"READY", "CURRENT"}
        /\ (isr' => pc'[ctp] = "run") /\ (tp' # NULL => pc'[ctp] = "boost")
    BY <1>2, Zenon DEF PcInv
  <2>2. ASSUME NEW t \in Threads
        PROVE  /\ sch'.state[t] \in {"READY", "CURRENT", "WTSTART", "SUSPENDED", "WTMTX"}
               /\ pc'[t] \in {"run", "mtxwait"}
               /\ sch'.state[t] = "WTMTX" => pc'[t] = "mtxwait" /\ sch'.u[t] = mp'[t]
               /\ pc'[t] = "mtxwait" => mp'[t] \in Mutexes
               /\ pc'[t] = "mtxwait" /\ sch'.state[t] # "WTMTX" =>
                    /\ sch'.state[t] \in {"READY", "CURRENT"}
                    /\ owner'[mp'[t]] = t
                    /\ mtxlist'[t] # <<>> /\ Head(mtxlist'[t]) = mp'[t]
                    /\ RecursiveMode => cnt'[mp'[t]] = 1
    <3>1. CASE t = ctp
      BY <1>2, <1>3, <3>1, ZenonT(30) DEF PcInv
    <3>2. CASE t # ctp
      <4>1. mp'[t] = mp[t]
        BY <3>2, Zenon
      <4>2. t # ctp => pc[t] \in {"run", "mtxwait"}
        BY <1>2, PcFacts, Zenon
      <4>3. /\ sch.state[t] \in {"READY", "CURRENT", "WTSTART", "SUSPENDED", "WTMTX"}
            /\ sch.state[t] = "WTMTX" => pc[t] = "mtxwait" /\ sch.u[t] = mp[t]
            /\ pc[t] = "mtxwait" => mp[t] \in Mutexes
            /\ pc[t] = "mtxwait" /\ sch.state[t] # "WTMTX" =>
                 /\ sch.state[t] \in {"READY", "CURRENT"}
                 /\ owner[mp[t]] = t
                 /\ mtxlist[t] # <<>> /\ Head(mtxlist[t]) = mp[t]
                 /\ RecursiveMode => cnt[mp[t]] = 1
        BY <1>2, PcFacts, Zenon
      <4>4. pc[t] = "mtxwait" /\ sch.state[t] # "WTMTX" => cnt'[mp[t]] = cnt[mp[t]]
        BY <3>2, <4>3, Zenon
      <4> QED BY <3>2, <4>1, <4>2, <4>3, <4>4, Zenon
    <3> QED BY <3>1, <3>2, Zenon
  <2> QED BY <2>1, <2>2, ZenonT(30) DEF PcInv, ctp
<1>7. ~SetPrioOwning => InheritInv'
  BY <1>2, Zenon DEF InheritInv, ctp
<1> QED BY <1>1, <1>4, <1>5, <1>6, <1>7, Zenon DEF LockInv

\* Taking a free mutex.
LEMMA TakeStep ==
  ASSUME LockInv, pc[ctp] = "run", NEW m \in Mutexes, owner[m] = NULL,
         TakeMutex(m), pc' = pc,
         mp' \in [Threads -> Mutexes \cup {NULL}],
         \A t \in Threads \ {ctp} : mp'[t] = mp[t]
  PROVE  LockInv'
<1>0. /\ owner' = [owner EXCEPT ![m] = ctp]
      /\ mtxlist' = [mtxlist EXCEPT ![ctp] = Push(m, @)]
      /\ cnt' = IF RecursiveMode THEN [cnt EXCEPT ![m] = @ + 1] ELSE cnt
      /\ UNCHANGED <<sch, wq, realprio, tp, isr>>
  BY Zenon DEF TakeMutex
<1>1. QueuesMatchStates' /\ OrderInv'
  BY <1>0, QuietFacts, Zenon
<1>2. /\ MtxTypeOK /\ PcInv /\ OwnersMatchStacks /\ (~SetPrioOwning => InheritInv)
  BY SMTT(30) DEF LockInv
<1>3. ctp \in Threads /\ sch.state[ctp] = "CURRENT" /\ ctp # NULL
  <2>1. ctp \in Threads /\ sch.state[ctp] = "CURRENT"
    BY InvFacts, Zenon
  <2> QED BY <2>1, MtxAssumption, Zenon
<1>4. /\ mtxlist \in [Threads -> Seq(Mutexes)] /\ owner \in [Mutexes -> Threads \cup {NULL}]
      /\ cnt \in [Mutexes -> Nat]
  BY <1>2, Zenon DEF MtxTypeOK
<1>5. m \notin Range(mtxlist[ctp]) /\ IsInjective(mtxlist[ctp]) /\ mtxlist[ctp] \in Seq(Mutexes)
      /\ wq[m] = <<>>
  BY <1>2, <1>3, <1>4, Zenon DEF OwnersMatchStacks
<1>6. /\ mtxlist'[ctp] \in Seq(Mutexes) /\ IsInjective(mtxlist'[ctp])
      /\ Range(mtxlist'[ctp]) = Range(mtxlist[ctp]) \cup {m}
      /\ \A t \in Threads \ {ctp} : mtxlist'[t] = mtxlist[t]
  <2>1. mtxlist'[ctp] = Push(m, mtxlist[ctp])
    BY <1>0, <1>3, <1>4, Zenon
  <2>2. Push(m, mtxlist[ctp]) \in Seq(Mutexes) /\ IsInjective(Push(m, mtxlist[ctp]))
    BY <1>5, PushFacts, ZenonT(60)
  <2>3. Range(Push(m, mtxlist[ctp])) = Range(mtxlist[ctp]) \cup {m}
    BY <1>5, PushFacts
  <2> QED BY <1>0, <1>4, <2>1, <2>2, <2>3, Zenon
<1>7. MtxTypeOK'
  <2>1. mtxlist' \in [Threads -> Seq(Mutexes)]
    BY <1>0, <1>3, <1>4, <1>6, Zenon
  <2>2. owner' \in [Mutexes -> Threads \cup {NULL}]
    BY <1>0, <1>3, <1>4, ZenonT(60)
  <2>3. cnt' \in [Mutexes -> Nat]
    BY <1>0, <1>4, SMTT(60)
  <2> QED BY <1>0, <1>2, <2>1, <2>2, <2>3, ZenonT(30) DEF MtxTypeOK
<1>8. OwnersMatchStacks'
  <2>1. ASSUME NEW t \in Threads, NEW n \in Mutexes
        PROVE  n \in Range(mtxlist'[t]) <=> owner'[n] = t
    <3>1. n \in Range(mtxlist[t]) <=> owner[n] = t
      BY <1>2, ZenonT(30) DEF OwnersMatchStacks
    <3>2. owner'[n] = IF n = m THEN ctp ELSE owner[n]
      BY <1>0, <1>4, SMTT(30)
    <3> QED BY <1>6, <3>1, <3>2, MtxAssumption, SMTT(60)
  <2>2. \A t \in Threads : IsInjective(mtxlist'[t])
    BY <1>2, <1>6, ZenonT(30) DEF OwnersMatchStacks
  <2>3. ASSUME NEW n \in Mutexes
        PROVE  /\ wq'[n] # <<>> => owner'[n] # NULL
               /\ RecursiveMode => (cnt'[n] = 0 <=> owner'[n] = NULL)
    <3>1. /\ wq[n] # <<>> => owner[n] # NULL
          /\ RecursiveMode => (cnt[n] = 0 <=> owner[n] = NULL)
      BY <1>2, Zenon DEF OwnersMatchStacks
    <3>2. owner'[n] = IF n = m THEN ctp ELSE owner[n]
      BY <1>0, <1>4, Zenon
    <3>3. RecursiveMode => cnt'[n] = IF n = m THEN cnt[m] + 1 ELSE cnt[n]
      BY <1>0, <1>4, SMTT(30)
    <3> QED BY <1>0, <1>3, <1>4, <3>1, <3>2, <3>3, SMTT(30)
  <2> QED BY <2>1, <2>2, <2>3, Zenon DEF OwnersMatchStacks
<1>9. PcInv'
  <2>1. pc'[idle] = "run" /\ sch'.state[idle] \in {"READY", "CURRENT"}
        /\ (isr' => pc'[ctp] = "run") /\ (tp' # NULL => pc'[ctp] = "boost")
    BY <1>0, <1>2, ZenonT(30) DEF PcInv
  <2>2. ASSUME NEW t \in Threads
        PROVE  /\ sch'.state[t] \in {"READY", "CURRENT", "WTSTART", "SUSPENDED", "WTMTX"}
               /\ pc'[t] \in {"run", "mtxwait"}
               /\ sch'.state[t] = "WTMTX" => pc'[t] = "mtxwait" /\ sch'.u[t] = mp'[t]
               /\ pc'[t] = "mtxwait" => mp'[t] \in Mutexes
               /\ pc'[t] = "mtxwait" /\ sch'.state[t] # "WTMTX" =>
                    /\ sch'.state[t] \in {"READY", "CURRENT"}
                    /\ owner'[mp'[t]] = t
                    /\ mtxlist'[t] # <<>> /\ Head(mtxlist'[t]) = mp'[t]
                    /\ RecursiveMode => cnt'[mp'[t]] = 1
    <3>1. CASE t = ctp
      BY <1>0, <1>2, <1>3, <3>1, ZenonT(30) DEF PcInv
    <3>2. CASE t # ctp
      <4>1. mtxlist'[t] = mtxlist[t] /\ mp'[t] = mp[t] /\ t # NULL
        BY <1>6, <3>2, MtxAssumption, ZenonT(30)
      <4>2. mp[t] \in Mutexes /\ owner[mp[t]] = t => owner'[mp[t]] = t /\ cnt'[mp[t]] = cnt[mp[t]]
        BY <1>0, <1>4, <4>1, ZenonT(60)
      <4>3. /\ sch.state[t] \in {"READY", "CURRENT", "WTSTART", "SUSPENDED", "WTMTX"}
            /\ pc[t] \in {"run", "mtxwait"}
            /\ sch.state[t] = "WTMTX" => pc[t] = "mtxwait" /\ sch.u[t] = mp[t]
            /\ pc[t] = "mtxwait" => mp[t] \in Mutexes
            /\ pc[t] = "mtxwait" /\ sch.state[t] # "WTMTX" =>
                 /\ sch.state[t] \in {"READY", "CURRENT"}
                 /\ owner[mp[t]] = t
                 /\ mtxlist[t] # <<>> /\ Head(mtxlist[t]) = mp[t]
                 /\ RecursiveMode => cnt[mp[t]] = 1
        BY <1>2, <3>2, ZenonT(30) DEF PcInv
      <4>4. sch' = sch /\ pc'[t] = pc[t]
        BY <1>0, ZenonT(60)
      <4> QED BY <4>1, <4>2, <4>3, <4>4, ZenonT(60)
    <3> QED BY <3>1, <3>2, ZenonT(60)
  <2> QED BY <1>0, <2>1, <2>2, ZenonT(60) DEF PcInv, ctp
<1>10. ASSUME ~SetPrioOwning PROVE InheritInv'
  <2>1. InheritInv
    BY <1>2, <1>10, SMTT(30)
  <2>2. \A n \in Mutexes : n = m => Range(wq[n]) = {}
    BY <1>5 DEF Range
  <2>3. \A n \in Mutexes : n # m => owner'[n] = owner[n]
    BY <1>0, <1>4, Zenon
  <2> QED BY <1>0, <2>1, <2>2, <2>3, ZenonT(60) DEF InheritInv, ctp
<1> QED BY <1>1, <1>7, <1>8, <1>9, <1>10, Zenon DEF LockInv

-----------------------------------------------------------------------------
(* The inheritance loop *)

\* Finding the mutex owned by another thread: the inheritance loop begins.
LEMMA BoostBegins ==
  ASSUME LockInv, ThreadMode, NEW m \in Mutexes, owner[m] \notin {NULL, ctp},
         tp' = owner[m],
         pc' = [pc EXCEPT ![ctp] = "boost"], mp' = [mp EXCEPT ![ctp] = m],
         UNCHANGED <<sch, wq, realprio, mtxlist, owner, cnt, isr>>
  PROVE  LockInv'
<1>1. QueuesMatchStates' /\ OrderInv'
  BY QuietFacts, Zenon DEF ThreadMode
<1>2. /\ MtxTypeOK /\ PcInv /\ OwnersMatchStacks /\ (~SetPrioOwning => InheritInv)
  BY Zenon DEF LockInv
<1>3. ctp \in Threads /\ sch.state[ctp] = "CURRENT" /\ ctp # idle /\ pc[ctp] = "run" /\ ~isr
  BY InvFacts, Zenon DEF ThreadMode
<1>4. /\ pc \in [Threads -> Pcs] /\ mp \in [Threads -> Mutexes \cup {NULL}]
      /\ owner \in [Mutexes -> Threads \cup {NULL}]
  BY <1>2, Zenon DEF MtxTypeOK
<1>5. MtxTypeOK'
  <2>1. pc' \in [Threads -> Pcs]
    BY <1>4, Zenon DEF Pcs
  <2> QED BY <1>2, <1>4, <2>1, Zenon DEF MtxTypeOK
<1>6. OwnersMatchStacks'
  BY <1>2, ZenonT(60) DEF OwnersMatchStacks
<1>7. PcInv'
  <2>1. pc'[idle] = "run" /\ sch'.state[idle] \in {"READY", "CURRENT"}
        /\ ~isr' /\ pc'[ctp] = "boost"
    BY <1>2, <1>3, <1>4, SchedAssumption, Zenon DEF PcInv
  <2>2. ASSUME NEW t \in Threads, t # ctp
        PROVE  pc'[t] = pc[t] /\ mp'[t] = mp[t]
    BY <1>4, <2>2, Zenon
  <2>3. mp'[ctp] = m
    BY <1>3, <1>4, Zenon
  <2> QED BY <1>2, <1>3, <2>1, <2>2, <2>3, SMTT(60) DEF PcInv, ctp
<1>8. ASSUME ~SetPrioOwning PROVE InheritInv'
  <2>1. InheritInv /\ tp = NULL
    BY <1>2, <1>3, <1>8, Zenon DEF PcInv
  <2>2. ASSUME NEW n \in Mutexes, NEW w \in Range(wq[n])
        PROVE  sch.prio[w] <= sch.prio[owner[n]]
    <3>1. wq[n] # <<>>
      BY <2>2 DEF Range
    <3>2. owner[n] # NULL
      BY <1>2, <3>1, ZenonT(60) DEF OwnersMatchStacks
    <3> QED BY <2>1, <3>2, ZenonT(60) DEF InheritInv
  <2>3. mp'[ctp] = m
    BY <1>3, <1>4, Zenon
  <2> QED BY <2>2, <2>3, Zenon DEF InheritInv, ctp
<1> QED BY <1>1, <1>5, <1>6, <1>7, <1>8, ZenonT(60) DEF LockInv

\* chMtxLock up to its return or its loop, and chMtxTryLock.
LEMMA LockActions ==
  ASSUME LockInv, NEW m \in Mutexes, chMtxLock(m) \/ chMtxTryLock(m)
  PROVE  LockInv'
<1>1. ThreadMode /\ pc[ctp] = "run" /\ ctp # idle
  BY ZenonT(60) DEF chMtxLock, chMtxTryLock, ThreadMode
<1>2. /\ ctp \in Threads /\ pc \in [Threads -> Pcs] /\ cnt \in [Mutexes -> Nat]
      /\ mp \in [Threads -> Mutexes \cup {NULL}] /\ OwnersMatchStacks
      /\ ctp # NULL
  <2>1. ctp \in Threads
    BY InvFacts, Zenon
  <2> QED BY <2>1, MtxAssumption, Zenon DEF LockInv, MtxTypeOK
<1>3. RecursiveMode => \A n \in Mutexes : owner[n] = ctp => cnt[n] # 0
  BY <1>2, Zenon DEF OwnersMatchStacks
<1>4. \A x : x = [pc EXCEPT ![ctp] = "run"] => x = pc
  BY <1>1, <1>2, Zenon
<1>5. \A x : x = [mp EXCEPT ![ctp] = NULL] \/ x = mp =>
             /\ x \in [Threads -> Mutexes \cup {NULL}]
             /\ \A t \in Threads \ {ctp} : x[t] = mp[t]
  BY <1>2, Zenon
<1>6. ASSUME owner[m] = ctp, LockAgain(m), pc' = pc,
             mp' = [mp EXCEPT ![ctp] = NULL] \/ mp' = mp
      PROVE  LockInv'
  <2>1. cnt' = [cnt EXCEPT ![m] = @ + 1] /\ UNCHANGED <<sch, wq, realprio, mtxlist, owner, tp, isr>>
    BY <1>6, Zenon DEF LockAgain
  <2>2. cnt' \in [Mutexes -> Nat] /\ \A n \in Mutexes : n # m => cnt'[n] = cnt[n]
    BY <1>2, <2>1, SMTT(60)
  <2>3. cnt'[m] # 0
    BY <1>2, <2>1
  <2>4. \A n \in Mutexes : owner[n] # ctp => cnt'[n] = cnt[n]
    BY <1>6, <2>2, Zenon
  <2>5. RecursiveMode => \A n \in Mutexes : owner[n] = ctp => cnt'[n] # 0
    BY <1>3, <2>2, <2>3, Zenon
  <2> QED BY <1>1, <1>5, <1>6, <2>1, <2>2, <2>4, <2>5, CountStep, ZenonT(60)
<1>7. ASSUME owner[m] = NULL, TakeMutex(m), pc' = pc,
             mp' = [mp EXCEPT ![ctp] = NULL] \/ mp' = mp
      PROVE  LockInv'
  BY <1>1, <1>5, <1>7, TakeStep, Zenon
<1>8. CASE chMtxLock(m)
  <2>1. chMtxLockS(m)
    BY <1>8, Zenon DEF chMtxLock
  <2>2. CASE owner[m] = NULL
    BY <1>2, <1>4, <1>7, <2>1, <2>2, Zenon DEF chMtxLockS
  <2>3. CASE owner[m] = ctp
    BY <1>2, <1>4, <1>6, <2>1, <2>3, Zenon DEF chMtxLockS
  <2>4. CASE owner[m] \notin {NULL, ctp}
    BY <1>1, <2>1, <2>4, BoostBegins, Zenon DEF chMtxLockS
  <2> QED BY <2>2, <2>3, <2>4, Zenon
<1>9. CASE chMtxTryLock(m)
  <2>1. pc' = pc /\ mp' = mp
    BY <1>9, Zenon DEF chMtxTryLock
  <2>2. CASE owner[m] = NULL /\ TakeMutex(m)
    BY <1>7, <2>1, <2>2, Zenon
  <2>3. CASE owner[m] = ctp /\ LockAgain(m)
    BY <1>6, <2>1, <2>3, Zenon
  <2>4. CASE UNCHANGED <<sch, wq, realprio, mtxlist, owner, cnt, tp, isr>>
    BY <1>1, <1>2, <1>3, <1>5, <2>1, <2>4, CountStep, ZenonT(60)
  <2> QED BY <1>9, <2>2, <2>3, <2>4, Zenon DEF chMtxTryLock
<1> QED BY <1>8, <1>9, Zenon

\* The thread that got the mutex returns from chMtxLockS.
LEMMA ReturnStep ==
  ASSUME LockInv, LockReturn
  PROVE  LockInv'
<1>0. /\ pc[ctp] = "mtxwait"
      /\ pc' = [pc EXCEPT ![ctp] = "run"] /\ mp' = [mp EXCEPT ![ctp] = NULL]
      /\ UNCHANGED <<sch, wq, realprio, mtxlist, owner, cnt, tp, isr>>
  BY Zenon DEF LockReturn
<1>1. QueuesMatchStates' /\ OrderInv'
  BY <1>0, QuietFacts, Zenon
<1>2. /\ MtxTypeOK /\ PcInv /\ OwnersMatchStacks /\ (~SetPrioOwning => InheritInv)
  BY Zenon DEF LockInv
<1>3. ctp \in Threads /\ sch.state[ctp] = "CURRENT"
  BY InvFacts, Zenon
<1>4. /\ pc \in [Threads -> Pcs] /\ mp \in [Threads -> Mutexes \cup {NULL}]
  BY <1>2, Zenon DEF MtxTypeOK
<1>5. MtxTypeOK'
  <2>1. pc' \in [Threads -> Pcs]
    BY <1>0, <1>4, Zenon DEF Pcs
  <2> QED BY <1>0, <1>2, <1>4, <2>1, Zenon DEF MtxTypeOK
<1>6. OwnersMatchStacks'
  BY <1>0, <1>2, ZenonT(60) DEF OwnersMatchStacks
<1>7. PcInv'
  <2>1. pc'[idle] = "run" /\ sch'.state[idle] \in {"READY", "CURRENT"} /\ tp = NULL
        /\ pc'[ctp] = "run"
    BY <1>0, <1>2, <1>3, <1>4, SchedAssumption, Zenon DEF PcInv
  <2>2. ASSUME NEW t \in Threads, t # ctp
        PROVE  pc'[t] = pc[t] /\ mp'[t] = mp[t]
    BY <1>0, <1>4, <2>2, Zenon
  <2> QED BY <1>0, <1>2, <1>3, <2>1, <2>2, SMTT(60) DEF PcInv, ctp
<1>8. ~SetPrioOwning => InheritInv'
  <2>1. pc'[ctp] = "run"
    BY <1>0, <1>3, <1>4, ZenonT(30)
  <2> QED BY <1>0, <1>2, <2>1, Zenon DEF InheritInv, ctp
<1> QED BY <1>1, <1>5, <1>6, <1>7, <1>8, Zenon DEF LockInv

\* chMtxUnlockAll enters its loop.
LEMMA UnlockAllBegins ==
  ASSUME LockInv, chMtxUnlockAll
  PROVE  LockInv'
<1>0. /\ pc[ctp] = "run" /\ ~isr /\ ctp # idle /\ mtxlist[ctp] # <<>>
      /\ pc' = [pc EXCEPT ![ctp] = "unlockall"]
      /\ UNCHANGED <<sch, wq, realprio, mtxlist, owner, cnt, mp, tp, isr>>
  BY Zenon DEF chMtxUnlockAll, ThreadMode
<1>1. QueuesMatchStates' /\ OrderInv'
  BY <1>0, QuietFacts, Zenon
<1>2. /\ MtxTypeOK /\ PcInv /\ OwnersMatchStacks /\ (~SetPrioOwning => InheritInv)
  BY Zenon DEF LockInv
<1>3. ctp \in Threads /\ sch.state[ctp] = "CURRENT"
  BY InvFacts, Zenon
<1>4. pc \in [Threads -> Pcs]
  BY <1>2, Zenon DEF MtxTypeOK
<1>5. MtxTypeOK'
  <2>1. pc' \in [Threads -> Pcs]
    BY <1>0, <1>4, Zenon DEF Pcs
  <2> QED BY <1>0, <1>2, <1>4, <2>1, Zenon DEF MtxTypeOK
<1>6. OwnersMatchStacks'
  BY <1>0, <1>2, ZenonT(60) DEF OwnersMatchStacks
<1>7. PcInv'
  <2>1. pc'[idle] = "run" /\ sch'.state[idle] \in {"READY", "CURRENT"} /\ tp = NULL
        /\ pc'[ctp] = "unlockall"
    BY <1>0, <1>2, <1>3, <1>4, SchedAssumption, ZenonT(60) DEF PcInv
  <2>2. ASSUME NEW t \in Threads, t # ctp
        PROVE  pc'[t] = pc[t]
    BY <1>0, <1>4, <2>2, ZenonT(60)
  <2>3. ASSUME NEW t \in Threads
        PROVE  /\ sch'.state[t] \in {"READY", "CURRENT", "WTSTART", "SUSPENDED", "WTMTX"}
               /\ pc'[t] \in {"run", "boost", "mtxwait", "unlockall"}
               /\ t # sch'.current => pc'[t] \in {"run", "mtxwait"}
               /\ sch'.state[t] = "WTMTX" => pc'[t] = "mtxwait" /\ sch'.u[t] = mp'[t]
               /\ pc'[t] \in {"boost", "mtxwait"} => mp'[t] \in Mutexes
               /\ pc'[t] = "boost" => owner'[mp'[t]] \notin {NULL, t}
               /\ pc'[t] = "mtxwait" /\ sch'.state[t] # "WTMTX" =>
                    /\ sch'.state[t] \in {"READY", "CURRENT"}
                    /\ owner'[mp'[t]] = t
                    /\ mtxlist'[t] # <<>> /\ Head(mtxlist'[t]) = mp'[t]
                    /\ RecursiveMode => cnt'[mp'[t]] = 1
               /\ pc'[t] = "unlockall" => mtxlist'[t] # <<>>
    <3>1. CASE t = ctp
      BY <1>0, <1>3, <2>1, <3>1, Zenon DEF ctp
    <3>2. CASE t # ctp
      <4>1. pc'[t] = pc[t]
        BY <2>2, <3>2, Zenon
      <4> QED BY <1>0, <1>2, <3>2, <4>1, PcFacts, Zenon DEF ctp
    <3> QED BY <3>1, <3>2, Zenon
  <2> QED BY <1>0, <2>1, <2>3, ZenonT(30) DEF PcInv, ctp
<1>8. ~SetPrioOwning => InheritInv'
  <2>1. pc'[ctp] = "unlockall"
    BY <1>0, <1>3, <1>4, Zenon
  <2> QED BY <1>0, <1>2, <2>1, Zenon DEF InheritInv, ctp
<1> QED BY <1>1, <1>5, <1>6, <1>7, <1>8, Zenon DEF LockInv

\* A ready thread gets a new priority and its new place in the ready list.
LEMMA ReadyAgainFacts ==
  ASSUME NEW s, SchedOK(s), NEW t \in Threads, s.state[t] = "READY", NEW p \in Priorities
  PROVE  LET r == ReadyAgain([s EXCEPT !.prio[t] = p], t)
         IN  /\ SchedOK(r)
             /\ r.prio = [s.prio EXCEPT ![t] = p] /\ r.u = s.u
             /\ r.state = s.state /\ r.current = s.current
             /\ Range(r.queue) = Range(s.queue)
<1> DEFINE f == [s.prio EXCEPT ![t] = p]
           d == queue_dequeue(s.queue, t)
           q == queue_prio_insert(d, t, f)
           r == ReadyAgain([s EXCEPT !.prio[t] = p], t)
<1>1. s \in SchedState /\ s.queue \in Seq(Threads) /\ s.state \in [Threads -> States]
      /\ s.prio \in [Threads -> Priorities] /\ s.prio \in [Threads -> Nat]
      /\ t \in Range(s.queue) /\ IsInjective(s.queue) /\ Sorted(s.queue, s.prio)
  BY PrioNat, ZenonT(60) DEF SchedOK, ListOK, SchedState
<1>2. f \in [Threads -> Priorities] /\ f \in [Threads -> Nat]
      /\ \A x \in Threads \ {t} : f[x] = s.prio[x]
  <2>1. p \in Priorities /\ p \in Nat
    BY SchedAssumption DEF Priorities, IDLEPRIO
  <2> QED BY <1>1, <2>1, Zenon
<1>3. d \in Seq(Threads) /\ Range(d) = Range(s.queue) \ {t} /\ IsInjective(d) /\ Sorted(d, s.prio)
  BY <1>1, Dequeue, Zenon
<1>4. Sorted(d, f)
  <2> HIDE DEF d, f
  <2>1. t \notin Range(d)
    BY <1>3, Zenon
  <2> QED BY <1>1, <1>2, <1>3, <2>1, SortedElsewhere, Zenon
<1>5. /\ r.queue = q /\ r.prio = f /\ r.u = s.u /\ r.current = s.current
      /\ r.state = [s.state EXCEPT ![t] = "READY"]
      /\ r = [s EXCEPT !.prio = f, !.queue = q, !.state = [s.state EXCEPT ![t] = "READY"]]
  BY <1>1, Zenon DEF ReadyAgain, chSchReadyI, SchedState
<1> HIDE DEF f, d, q, r
<1>6. q \in Seq(Threads) /\ Range(q) = Range(d) \cup {t}
  BY <1>2, <1>3, PrioInsert, Zenon DEF q
<1>7. IsInjective(q) /\ Sorted(q, f)
  BY <1>2, <1>3, <1>4, PrioInsert, Zenon DEF q
<1>8. r.state = s.state /\ Range(r.queue) = Range(s.queue)
  <2>1. r.state = s.state
    BY <1>1, <1>5
  <2>2. Range(q) = Range(s.queue)
    BY <1>1, <1>3, <1>6, Zenon
  <2> QED BY <1>5, <2>1, <2>2, Zenon
<1>9. r \in SchedState
  <2>1. [s.state EXCEPT ![t] = "READY"] = s.state
    BY <1>1, Zenon
  <2> QED BY <1>1, <1>2, <1>5, <1>6, <2>1, Zenon DEF SchedState
<1>10. SchedOK(r)
  BY <1>5, <1>7, <1>8, <1>9, ZenonT(30) DEF SchedOK, ListOK
<1> QED BY <1>5, <1>8, <1>10, SMTT(30) DEF r, f

\* What one iteration of the inheritance loop does to priorities and queues.
Raised ==
  /\ pc[ctp] = "boost" /\ tp \in Threads \ {ctp} /\ sch.prio[tp] < sch.prio[ctp]
  /\ tp' = NextToBoost /\ sch'.current = ctp /\ sch'.state = sch.state
  /\ UNCHANGED <<realprio, owner, pc, mp>>
  /\ sch'.prio[tp] = sch.prio[ctp] /\ \A x \in Threads \ {tp} : sch'.prio[x] = sch.prio[x]
  /\ \A o \in Objects : Range(wq'[o]) = Range(wq[o])

\* One iteration of the inheritance loop.
LEMMA BoostStep ==
  ASSUME LockInv, Boost
  PROVE  LockInv' /\ Raised
<1> DEFINE p == sch.prio[ctp]
           s == [sch EXCEPT !.prio[tp] = p]
<1>1. /\ SchedOK(sch) /\ sch \in SchedState /\ ctp \in Threads /\ sch.state[ctp] = "CURRENT"
      /\ sch.prio \in [Threads -> Nat] /\ sch.prio \in [Threads -> Priorities]
      /\ sch.state \in [Threads -> States]
      /\ \A t \in Threads, o \in Objects :
              sch.state[t] = "WTMTX" /\ sch.u[t] = o <=> t \in Range(wq[o])
  BY InvFacts, Zenon
<1>2. /\ MtxTypeOK /\ PcInv /\ OwnersMatchStacks /\ OrderInv /\ QueuesMatchStates
      /\ (~SetPrioOwning => InheritInv)
  BY Zenon DEF LockInv
<1>3. /\ pc[ctp] = "boost" /\ tp # NULL /\ sch.prio[tp] < p
      /\ tp' = NextToBoost
      /\ UNCHANGED <<realprio, mtxlist, owner, cnt, pc, mp, isr>>
  BY ZenonT(60) DEF Boost, BoostNeeded
<1>4. tp \in Threads /\ tp # ctp /\ p \in Priorities /\ p \in Nat /\ ~isr
  <2>1. tp \in Threads
    BY <1>2, <1>3, SMTT(30) DEF MtxTypeOK
  <2>2. p \in Priorities /\ p \in Nat
    BY <1>1, Zenon
  <2>3. ~isr
    BY <1>2, <1>3, Zenon DEF PcInv
  <2>4. tp # ctp
    BY <1>3, <2>2, SMTT(30)
  <2> QED BY <2>1, <2>2, <2>3, <2>4, Zenon
<1>5. sch.state[tp] \in {"READY", "WTSTART", "SUSPENDED", "WTMTX"}
  BY <1>1, <1>2, <1>4, ZenonT(60) DEF PcInv, QueuesMatchStates
<1>6. sch.state[tp] = "WTMTX" => sch.u[tp] \in Mutexes /\ sch.u[tp] \in Objects /\ tp \in Range(wq[sch.u[tp]])
  <2>1. sch.state[tp] = "WTMTX" => sch.u[tp] \in Mutexes
    BY <1>2, <1>4, ZenonT(60) DEF PcInv
  <2> QED BY <1>1, <1>4, <2>1, MtxAssumption, ZenonT(30)
\* What the step does, in all its cases.
<1>7. /\ SchedOK(sch') /\ sch'.current = ctp /\ sch'.state = sch.state /\ sch'.u = sch.u
      /\ sch'.prio = [sch.prio EXCEPT ![tp] = p]
      /\ Range(sch'.queue) = Range(sch.queue)
      /\ sch.state[tp] # "WTMTX" => wq' = wq
      /\ sch.state[tp] = "WTMTX" =>
           wq' = [wq EXCEPT ![sch.u[tp]] =
                    queue_prio_insert(queue_dequeue(@, tp), tp, [sch.prio EXCEPT ![tp] = p])]
  <2>1. s.state = sch.state /\ s.u = sch.u /\ s.prio = [sch.prio EXCEPT ![tp] = p]
        /\ s.current = ctp /\ s.queue = sch.queue
    BY <1>1, Zenon DEF SchedState, ctp
  <2>2. CASE sch.state[tp] = "READY"
    <3>1. sch' = ReadyAgain(s, tp) /\ wq' = wq
      BY <2>1, <2>2, MtxAssumption, ZenonT(60) DEF Boost
    <3>2. SchedOK(sch')
      BY <1>1, <1>4, <2>2, <3>1, ReadyAgainFacts, ZenonT(30)
    <3>3. sch'.prio = [sch.prio EXCEPT ![tp] = p]
      BY <1>1, <1>4, <2>2, <3>1, ReadyAgainFacts, SMTT(60)
    <3>4. sch'.u = sch.u /\ sch'.state = sch.state /\ sch'.current = ctp
      BY <1>1, <1>4, <2>2, <3>1, ReadyAgainFacts, SMTT(60) DEF ctp
    <3>5. Range(sch'.queue) = Range(sch.queue)
      BY <1>1, <1>4, <2>2, <3>1, ReadyAgainFacts, SMTT(30)
    <3> QED BY <2>2, <3>1, <3>2, <3>3, <3>4, <3>5, ZenonT(60)
  <2>3. ASSUME sch.state[tp] # "READY"
        PROVE  SchedOK(s)
    <3>1. ListOK(s)
      BY <1>1, <1>4, <2>3, FieldFacts, SMTT(60) DEF SchedOK
    <3> HIDE DEF s
    <3> QED BY <1>1, <2>1, <3>1, ZenonT(60) DEF SchedOK, ctp
  <2>4. CASE sch.state[tp] = "WTMTX"
    <3>1. sch' = s /\ wq' = Requeue(s, tp)
      BY <2>1, <2>4, MtxAssumption, ZenonT(60) DEF Boost
    <3> HIDE DEF s
    <3>2. wq' = [wq EXCEPT ![sch.u[tp]] =
                    queue_prio_insert(queue_dequeue(@, tp), tp, [sch.prio EXCEPT ![tp] = p])]
      BY <2>1, <3>1, Zenon DEF Requeue
    <3> QED BY <2>1, <2>3, <2>4, <3>1, <3>2, ZenonT(60)
  <2>5. CASE sch.state[tp] \in {"WTSTART", "SUSPENDED"}
    <3>1. sch' = s /\ wq' = wq
      BY <2>1, <2>5, MtxAssumption, Zenon DEF Boost
    <3> HIDE DEF s
    <3> QED BY <2>1, <2>3, <2>5, <3>1, Zenon
  <2> QED BY <1>5, <2>2, <2>4, <2>5, ZenonT(60)
<1> HIDE DEF s, p
<1>15. sch'.state = sch.state /\ sch'.u = sch.u /\ sch'.current = ctp
  BY <1>7, Zenon
<1>16. sch.prio \in [Threads -> Nat] /\ sch'.prio = [sch.prio EXCEPT ![tp] = p]
  BY <1>1, <1>7, Zenon
<1>17. /\ sch'.prio[tp] = p /\ sch'.prio[ctp] = p
       /\ \A x \in Threads \ {tp} : sch'.prio[x] = sch.prio[x]
  <2>1. ctp \in Threads /\ p = sch.prio[ctp]
    BY <1>1, Zenon DEF p
  <2> QED BY <1>4, <1>16, <2>1, ZenonT(30)
<1>18. \A t \in Threads, o \in Objects :
          sch.state[t] = "WTMTX" /\ sch.u[t] = o <=> t \in Range(wq[o])
  BY <1>1, Zenon
\* The wait queues keep their members and get their order back.
<1>8. ASSUME NEW o \in Objects
      PROVE  /\ wq'[o] \in Seq(Threads) /\ Range(wq'[o]) = Range(wq[o])
             /\ IsInjective(wq'[o]) /\ Sorted(wq'[o], sch'.prio)
  <2> DEFINE f == [sch.prio EXCEPT ![tp] = p]
             d == queue_dequeue(wq[o], tp)
  <2>1. wq[o] \in Seq(Threads) /\ IsInjective(wq[o]) /\ Sorted(wq[o], sch.prio)
        /\ wq \in [Objects -> Seq(Threads)]
    BY <1>2, ZenonT(60) DEF MtxTypeOK, QueuesMatchStates, OrderInv
  <2>2. f \in [Threads -> Nat] /\ \A x \in Threads \ {tp} : f[x] = sch.prio[x]
    BY <1>1, <1>4
  <2>5. tp \in Threads /\ sch.prio \in [Threads -> Nat]
    BY <1>1, <1>4, Zenon
  <2>3. CASE tp \in Range(wq[o])
    <3>1. sch.state[tp] = "WTMTX" /\ sch.u[tp] = o
      BY <1>1, <1>4, <2>3, ZenonT(30)
    <3>2. wq'[o] = queue_prio_insert(d, tp, f)
      BY <1>7, <2>1, <3>1, ZenonT(30)
    <3>3. d \in Seq(Threads) /\ Range(d) = Range(wq[o]) \ {tp} /\ IsInjective(d) /\ Sorted(d, sch.prio)
      BY <2>1, <2>3, Dequeue, Zenon
    <3> HIDE DEF d, f
    <3>4. Sorted(d, f)
      <4>1. tp \notin Range(d)
        BY <3>3, Zenon
      <4> QED BY <2>2, <2>5, <3>3, <4>1, SortedElsewhere, Zenon
    <3> DEFINE q == queue_prio_insert(d, tp, f)
    <3>5. q \in Seq(Threads) /\ Range(q) = Range(d) \cup {tp}
      BY <1>4, <2>2, <3>3, PrioInsert, Zenon
    <3>6. IsInjective(q) /\ Sorted(q, f)
      BY <1>4, <2>2, <3>3, <3>4, PrioInsert, ZenonT(30)
    <3>7. sch'.prio = f
      BY <1>7, Zenon DEF f
    <3>8. wq'[o] = q
      BY <3>2, Zenon
    <3> HIDE DEF q
    <3>9. Range(q) = Range(wq[o])
      BY <2>3, <3>3, <3>5, Zenon
    <3> QED BY <3>5, <3>6, <3>7, <3>8, <3>9, Zenon
  <2>4. CASE tp \notin Range(wq[o])
    <3>1. wq'[o] = wq[o]
      <4>1. CASE sch.state[tp] # "WTMTX"
        BY <1>7, <4>1, ZenonT(60)
      <4>2. CASE sch.state[tp] = "WTMTX"
        BY <1>6, <1>7, <2>1, <2>4, <4>2, ZenonT(60)
      <4> QED BY <4>1, <4>2, ZenonT(60)
    <3>2. sch'.prio = f
      BY <1>7, Zenon
    <3> HIDE DEF f
    <3>3. Sorted(wq[o], f)
      BY <2>1, <2>2, <2>4, <2>5, SortedElsewhere, ZenonT(30)
    <3> QED BY <2>1, <3>1, <3>2, <3>3, ZenonT(60)
  <2> QED BY <2>3, <2>4, ZenonT(30)
<1>9. MtxTypeOK'
  <2>1. sch' \in SchedState
    BY <1>7, Zenon DEF SchedOK, ListOK
  <2>2. tp' \in Threads \cup {NULL}
    BY <1>2, <1>3, <1>6, Zenon DEF NextToBoost, MtxTypeOK
  <2>3. wq' \in [Objects -> Seq(Threads)]
    <3>1. wq' = [o \in Objects |-> wq'[o]]
      BY <1>2, <1>7, Zenon DEF MtxTypeOK
    <3> QED BY <1>8, <3>1, Zenon
  <2> QED BY <1>2, <1>3, <2>1, <2>2, <2>3, ZenonT(30) DEF MtxTypeOK
<1>10. QueuesMatchStates'
  <2>1. \A t \in Threads : Waiting(t)' <=> sch.state[t] = "WTMTX"
    BY <1>2, <1>15, ZenonT(30) DEF Waiting, PcInv
  <2>2. /\ IsInjective(sch'.queue)
        /\ \A t \in Threads : /\ sch'.state[t] = "READY" <=> t \in Range(sch'.queue)
                              /\ sch'.state[t] = "CURRENT" <=> t = sch'.current
    BY <1>7, SMTT(60) DEF SchedOK, ListOK
  <2>3. \A t \in Threads, o \in Objects : Waiting(t)' /\ sch'.u[t] = o <=> t \in Range(wq'[o])
    BY <1>8, <1>15, <1>18, <2>1, SMTT(30)
  <2> QED BY <1>8, <2>2, <2>3, Zenon DEF QueuesMatchStates, ctp
<1>11. OwnersMatchStacks'
  <2>1. \A m \in Mutexes : wq'[m] # <<>> => wq[m] # <<>>
    <3> TAKE m \in Mutexes
    <3>1. m \in Objects
      BY MtxAssumption, Zenon
    <3>2. Range(wq'[m]) = Range(wq[m]) /\ wq'[m] \in Seq(Threads) /\ wq[m] \in Seq(Threads)
      BY <1>2, <1>8, <3>1, Zenon DEF MtxTypeOK
    <3>3. wq[m] = <<>> => Range(wq[m]) = {}
      BY DEF Range
    <3>4. wq'[m] # <<>> => wq'[m][1] \in Range(wq'[m])
      BY <3>2, SMTT(60) DEF Range
    <3> QED BY <3>2, <3>3, <3>4, ZenonT(30)
  <2> QED BY <1>2, <1>3, <2>1, Zenon DEF OwnersMatchStacks
<1>12. PcInv'
  <2>1. PcInv /\ tp # NULL /\ pc[ctp] = "boost"
    BY <1>2, <1>3, Zenon
  <2>2. ASSUME NEW t \in Threads
        PROVE  /\ sch'.state[t] \in {"READY", "CURRENT", "WTSTART", "SUSPENDED", "WTMTX"}
               /\ pc'[t] \in {"run", "boost", "mtxwait", "unlockall"}
               /\ t # sch'.current => pc'[t] \in {"run", "mtxwait"}
               /\ sch'.state[t] = "WTMTX" => pc'[t] = "mtxwait" /\ sch'.u[t] = mp'[t]
               /\ pc'[t] \in {"boost", "mtxwait"} => mp'[t] \in Mutexes
               /\ pc'[t] = "boost" => owner'[mp'[t]] \notin {NULL, t}
               /\ pc'[t] = "mtxwait" /\ sch'.state[t] # "WTMTX" =>
                    /\ sch'.state[t] \in {"READY", "CURRENT"}
                    /\ owner'[mp'[t]] = t
                    /\ mtxlist'[t] # <<>> /\ Head(mtxlist'[t]) = mp'[t]
                    /\ RecursiveMode => cnt'[mp'[t]] = 1
               /\ pc'[t] = "unlockall" => mtxlist'[t] # <<>>
    BY <1>3, <1>15, <2>1, PcFacts, ZenonT(30)
  <2>3. pc'[idle] = "run" /\ sch'.state[idle] \in {"READY", "CURRENT"} /\ ~isr'
    BY <1>3, <1>4, <1>15, <2>1, Zenon DEF PcInv
  <2> QED BY <1>3, <1>15, <2>1, <2>2, <2>3, ZenonT(30) DEF PcInv, ctp
<1>13. OrderInv'
  <2>1. Sorted(sch'.queue, sch'.prio) /\ ListOK(sch')
    BY <1>7, Zenon DEF SchedOK, ListOK
  <2>2. PriorityOrder(sch')
    <3>1. \A x \in Range(sch.queue) : sch.prio[x] <= p
      <4>1. PriorityOrder(sch)
        BY <1>2, <1>3, <1>4, ZenonT(60) DEF OrderInv
      <4> QED BY <1>1, <1>4, <4>1, FirstPrio, ZenonT(60) DEF PriorityOrder, p, ctp, SchedOK
    <3>2. \A x \in Range(sch'.queue) : sch'.prio[x] <= p
      <4> TAKE x \in Range(sch'.queue)
      <4>1. x \in Range(sch.queue) /\ sch.queue \in Seq(Threads)
        BY <1>1, <1>7, Zenon DEF SchedState
      <4>2. x \in Threads
        BY <4>1 DEF Range
      <4>3. CASE x = tp
        BY <1>4, <1>17, <4>3
      <4>4. CASE x # tp
        BY <1>17, <3>1, <4>1, <4>2, <4>4, ZenonT(30)
      <4> QED BY <4>3, <4>4, ZenonT(60)
    <3>3. sch'.prio[sch'.current] = p
      BY <1>15, <1>17, SMTT(30)
    <3> QED BY <1>4, <2>1, <3>2, <3>3, FirstPrio, SMTT(30) DEF PriorityOrder
  <2> QED BY <1>8, <2>1, <2>2, Zenon DEF OrderInv
<1>14. ASSUME ~SetPrioOwning PROVE InheritInv'
  <2>1. InheritInv
    BY <1>2, <1>14, Zenon
  <2>2. sch'.prio[tp] = p /\ \A x \in Threads \ {tp} : sch'.prio[x] = sch.prio[x]
    BY <1>17, Zenon
  <2>3. \A x \in Threads : sch.prio[x] <= sch'.prio[x] /\ sch.prio[x] \in Nat /\ sch'.prio[x] \in Nat
    <3> TAKE x \in Threads
    <3>1. sch.prio[x] \in Nat /\ sch.prio[tp] \in Nat
      BY <1>4, <1>16, ZenonT(60)
    <3>2. CASE x = tp
      BY <1>3, <1>4, <2>2, <3>1, <3>2, SMTT(30)
    <3>3. CASE x # tp
      BY <2>2, <3>1, <3>3, SMTT(60)
    <3> QED BY <3>2, <3>3, Zenon
  <2>4. ASSUME NEW m \in Mutexes, NEW w \in Range(wq'[m])
        PROVE  \/ sch'.prio[w] <= sch'.prio[owner[m]]
               \/ owner[m] = tp' /\ sch'.prio[w] <= sch'.prio[ctp]
    <3>1. m \in Objects /\ w \in Range(wq[m]) /\ wq[m] \in Seq(Threads)
      BY <1>2, <1>8, <2>4, MtxAssumption, ZenonT(30) DEF MtxTypeOK
    <3>2. w \in Threads /\ wq[m] # <<>>
      BY <3>1, SMTT(60) DEF Range
    <3>3. owner[m] \in Threads
      BY <1>2, <3>2, SMTT(60) DEF OwnersMatchStacks, MtxTypeOK
    <3>4. sch'.prio[ctp] = p
      BY <1>17, ZenonT(60)
    <3>5. CASE w = tp
      <4>1. owner[m] = tp'
        <5>1. sch.state[tp] = "WTMTX" /\ sch.u[tp] = m
          BY <1>1, <3>1, <3>2, <3>5, Zenon
        <5> QED BY <1>3, <5>1, Zenon DEF NextToBoost
      <4> QED BY <1>4, <2>2, <3>4, <3>5, <4>1, SMTT(30)
    <3>6. CASE w # tp
      <4>1. sch'.prio[w] = sch.prio[w]
        BY <2>2, <3>2, <3>6, ZenonT(30)
      <4>2. CASE sch.prio[w] <= sch.prio[owner[m]]
        BY <2>3, <3>2, <3>3, <4>1, <4>2, SMTT(30)
      <4>3. CASE owner[m] = tp /\ sch.prio[w] <= sch.prio[ctp]
        BY <2>2, <4>1, <4>3, SMTT(60) DEF p
      <4> QED BY <2>1, <3>1, <4>2, <4>3, Zenon DEF InheritInv
    <3> QED BY <3>5, <3>6, Zenon
  <2>5. \/ sch'.prio[ctp] <= sch'.prio[owner[mp[ctp]]]
        \/ tp' = owner[mp[ctp]]
    <3>4. ctp \in Threads /\ owner \in [Mutexes -> Threads \cup {NULL}]
      BY <1>1, <1>2, ZenonT(60) DEF MtxTypeOK
    <3>5. mp[ctp] \in Mutexes /\ owner[mp[ctp]] # NULL
      BY <1>2, <1>3, <3>4, ZenonT(30) DEF PcInv
    <3>1. owner[mp[ctp]] \in Threads /\ sch'.prio[ctp] = p
      BY <1>17, <3>4, <3>5, SMTT(30)
    <3>2. CASE sch.prio[ctp] <= sch.prio[owner[mp[ctp]]]
      BY <1>4, <2>3, <3>1, <3>2, SMTT(30) DEF p
    <3>3. CASE tp = owner[mp[ctp]]
      BY <1>4, <2>2, <3>1, <3>3, SMTT(60)
    <3> QED BY <1>3, <2>1, <3>2, <3>3, ZenonT(60) DEF InheritInv
  <2> QED BY <1>3, <1>15, <2>4, <2>5, Zenon DEF InheritInv, ctp
<1>19. LockInv'
  BY <1>9, <1>10, <1>11, <1>12, <1>13, <1>14, Zenon DEF LockInv
<1>20. Raised
  <2>1. sch.prio[tp] < sch.prio[ctp] /\ sch'.prio[tp] = sch.prio[ctp]
    BY <1>3, <1>17, Zenon DEF p
  <2> QED BY <1>3, <1>4, <1>8, <1>15, <1>17, <2>1, Zenon DEF Raised
<1> QED BY <1>19, <1>20, Zenon

=============================================================================
