---------------------------- MODULE ChListProofs ----------------------------
(***************************************************************************)
(* Lists that have each element of a set once: what the operations of the  *)
(* kernel's queues and lists make of them.                                 *)
(***************************************************************************)
EXTENDS ChLists, Functions, FiniteSetTheorems, TLAPS

\* The list q has each element of Q once, and no other.
Lists(q, Q) == q \in Seq(Q) /\ IsInjective(q) /\ Range(q) = Q

\* The empty list.
LEMMA ListsNone == Lists(<<>>, {})
BY DEF Lists, IsInjective, Range

\* A list with no element is empty.
LEMMA ListsEmpty ==
  ASSUME NEW q, NEW Q, Lists(q, Q)
  PROVE  Q = {} <=> q = <<>>
<1>1. q \in Seq(Q) /\ Range(q) = Q
  BY DEF Lists
<1>2. CASE q = <<>>
  BY <1>1, <1>2 DEF Range
<1>3. CASE q # <<>>
  <2>1. 1 \in DOMAIN q
    BY <1>1, <1>3
  <2> QED
    BY <1>1, <1>3, <2>1 DEF Range
<1> QED
  BY <1>2, <1>3

\* Its length is the number of the elements.
LEMMA ListsLen ==
  ASSUME NEW q, NEW Q, Lists(q, Q)
  PROVE  IsFiniteSet(Q) /\ Cardinality(Q) = Len(q) /\ Len(q) \in Nat
<1>1. q \in Seq(Q) /\ IsInjective(q) /\ Range(q) = Q
  BY DEF Lists
<1>2. Len(q) \in Nat /\ DOMAIN q = 1 .. Len(q) /\ q \in [1 .. Len(q) -> Q]
  BY <1>1
<1>3. q \in Bijection(1 .. Len(q), Q)
  BY <1>1, <1>2, Zenon DEF Bijection, Injection, Surjection, Range
<1>4. ExistsBijection(1 .. Len(q), Q)
  BY <1>3, Zenon DEF ExistsBijection
<1> QED
  BY <1>2, <1>4, FS_CountingElements, FS_NatBijection, Zenon

\* An element goes to the front of a list.
LEMMA ListsCons ==
  ASSUME NEW q, NEW Q, Lists(q, Q), NEW t, t \notin Q
  PROVE  Lists(<<t>> \o q, Q \cup {t})
<1> DEFINE a == <<t>> \o q
           R == Q \cup {t}
<1>1. q \in Seq(Q) /\ IsInjective(q) /\ Range(q) = Q /\ q \in Seq(R) /\ <<t>> \in Seq(R)
  BY DEF Lists
<1>2. /\ a \in Seq(R) /\ Len(a) = Len(q) + 1 /\ Len(q) \in Nat /\ DOMAIN a = 1 .. Len(q) + 1
      /\ DOMAIN q = 1 .. Len(q) /\ (\A i \in 1 .. Len(q) : a[i + 1] = q[i]) /\ a[1] = t
  BY <1>1
<1> HIDE DEF a
<1>3. \A i \in 1 .. Len(q) : q[i] \in Q /\ q[i] # t
  BY <1>1
<1>4. \A i \in 1 .. Len(q) + 1 : i = 1 \/ (i - 1 \in 1 .. Len(q) /\ a[i] = q[i - 1])
  BY <1>2
<1>5. \A i, j \in 1 .. Len(q) : q[i] = q[j] => i = j
  BY <1>1, <1>2 DEF IsInjective
<1>6. ASSUME NEW i \in 1 .. Len(q) + 1, NEW j \in 1 .. Len(q) + 1, a[i] = a[j] PROVE i = j
  BY <1>2, <1>3, <1>4, <1>5, <1>6
<1>7. IsInjective(a)
  BY <1>2, <1>6 DEF IsInjective
<1>8. ASSUME NEW x \in Q PROVE x \in Range(a)
  <2>1. PICK i \in 1 .. Len(q) : q[i] = x
    BY <1>1, <1>2 DEF Range
  <2>2. i + 1 \in 1 .. Len(q) + 1 /\ a[i + 1] = x
    BY <1>2, <2>1
  <2> QED
    BY <1>2, <2>2 DEF Range
<1>9. t \in Range(a)
  <2>1. 1 \in 1 .. Len(q) + 1
    BY <1>2
  <2> QED
    BY <1>2, <2>1 DEF Range
<1>10. Range(a) \subseteq R
  BY <1>2, <1>3, <1>4 DEF Range
<1> QED
  BY <1>2, <1>7, <1>8, <1>9, <1>10 DEF Lists, a

\* An element goes to the end of a list.
LEMMA ListsAppend ==
  ASSUME NEW q, NEW Q, Lists(q, Q), NEW t, t \notin Q
  PROVE  Lists(Append(q, t), Q \cup {t})
<1> DEFINE a == Append(q, t)
           R == Q \cup {t}
<1>1. q \in Seq(Q) /\ IsInjective(q) /\ Range(q) = Q /\ q \in Seq(R)
  BY DEF Lists
<1>2. /\ a \in Seq(R) /\ Len(a) = Len(q) + 1 /\ Len(q) \in Nat /\ DOMAIN a = 1 .. Len(q) + 1
      /\ DOMAIN q = 1 .. Len(q) /\ (\A i \in 1 .. Len(q) : a[i] = q[i]) /\ a[Len(q) + 1] = t
  BY <1>1
<1> HIDE DEF a
<1>3. \A i \in 1 .. Len(q) : q[i] \in Q /\ q[i] # t
  BY <1>1
<1>4. \A i \in 1 .. Len(q) + 1 : i \in 1 .. Len(q) \/ i = Len(q) + 1
  BY <1>2
<1>5. \A i, j \in 1 .. Len(q) : q[i] = q[j] => i = j
  BY <1>1, <1>2 DEF IsInjective
<1>6. IsInjective(a)
  BY <1>2, <1>3, <1>4, <1>5 DEF IsInjective
<1>7. ASSUME NEW x \in Q PROVE x \in Range(a)
  <2>1. PICK i \in 1 .. Len(q) : q[i] = x
    BY <1>1, <1>2 DEF Range
  <2>2. i \in 1 .. Len(q) + 1 /\ a[i] = x
    BY <1>2, <2>1
  <2> QED
    BY <1>2, <2>2 DEF Range
<1>8. t \in Range(a)
  <2>1. Len(q) + 1 \in 1 .. Len(q) + 1
    BY <1>2
  <2> QED
    BY <1>2, <2>1 DEF Range
<1>9. Range(a) \subseteq R
  BY <1>2, <1>3, <1>4 DEF Range
<1> QED
  BY <1>2, <1>6, <1>7, <1>8, <1>9 DEF Lists, a

\* The first one leaves it.
LEMMA ListsTail ==
  ASSUME NEW q, NEW Q, Lists(q, Q), q # <<>>
  PROVE  Head(q) \in Q /\ Lists(Tail(q), Q \ {Head(q)})
<1> DEFINE h == Head(q)
           u == Tail(q)
           R == Q \ {h}
<1>1. q \in Seq(Q) /\ IsInjective(q) /\ Range(q) = Q
  BY DEF Lists
<1>2. /\ Len(q) \in Nat /\ Len(q) > 0 /\ DOMAIN q = 1 .. Len(q) /\ q[1] = h /\ h \in Q
      /\ u \in Seq(Q) /\ Len(u) = Len(q) - 1 /\ DOMAIN u = 1 .. Len(q) - 1
      /\ \A i \in 1 .. Len(q) - 1 : u[i] = q[i + 1]
  BY <1>1
<1> HIDE DEF h, u
<1>3. \A i, j \in 1 .. Len(q) : q[i] = q[j] => i = j
  BY <1>1, <1>2 DEF IsInjective
<1>4. \A i \in 1 .. Len(q) - 1 : i + 1 \in 1 .. Len(q) /\ i + 1 # 1
  BY <1>2
<1>5. 1 \in 1 .. Len(q)
  BY <1>2
<1>6. \A i \in 1 .. Len(q) - 1 : u[i] \in R
  BY <1>1, <1>2, <1>3, <1>4, <1>5
<1>7. IsInjective(u)
  <2>1. ASSUME NEW i \in 1 .. Len(q) - 1, NEW j \in 1 .. Len(q) - 1, u[i] = u[j] PROVE i = j
    <3>1. i + 1 = j + 1
      BY <1>2, <1>3, <1>4, <2>1
    <3> QED
      BY <1>2, <3>1
  <2> QED
    BY <1>2, <2>1 DEF IsInjective
<1>8. ASSUME NEW x \in R PROVE x \in Range(u)
  <2>1. PICK i \in 1 .. Len(q) : q[i] = x
    BY <1>1, <1>2 DEF Range
  <2>2. i # 1
    BY <1>2, <2>1
  <2>3. i - 1 \in 1 .. Len(q) - 1 /\ (i - 1) + 1 = i
    BY <1>2, <2>1, <2>2
  <2>4. u[i - 1] = x
    BY <1>2, <2>1, <2>3
  <2> QED
    BY <1>2, <2>3, <2>4 DEF Range
<1>9. Range(u) \subseteq R
  BY <1>2, <1>6 DEF Range
<1>10. u \in Seq(R)
  BY <1>2, <1>6
<1> QED
  BY <1>2, <1>7, <1>8, <1>9, <1>10 DEF Lists, h, u

\* One of them leaves it.
LEMMA ListsWithout ==
  ASSUME NEW q, NEW Q, Lists(q, Q), NEW t \in Q
  PROVE  /\ Lists(Without(q, t), Q \ {t})
         /\ q # <<>>
<1> DEFINE n == CHOOSE i \in DOMAIN q : q[i] = t
           w == Without(q, t)
           R == Q \ {t}
           at(i) == IF i < n THEN i ELSE i + 1
<1>1. q \in Seq(Q) /\ IsInjective(q) /\ Range(q) = Q /\ DOMAIN q = 1 .. Len(q) /\ Len(q) \in Nat
  BY DEF Lists
<1>2. n \in 1 .. Len(q) /\ q[n] = t
  BY <1>1 DEF Range
<1>3. w = [i \in 1 .. Len(q) - 1 |-> IF i < n THEN q[i] ELSE q[i + 1]]
  BY DEF Without
<1> HIDE DEF n, w
<1>4. \A i, j \in 1 .. Len(q) : q[i] = q[j] => i = j
  BY <1>1 DEF IsInjective
<1>5. \A i \in 1 .. Len(q) - 1 : at(i) \in 1 .. Len(q) /\ at(i) # n
  BY <1>1, <1>2
<1>6. \A i \in 1 .. Len(q) - 1 : w[i] = q[at(i)]
  BY <1>3
<1>7. \A i, j \in 1 .. Len(q) - 1 : at(i) = at(j) => i = j
  BY <1>1, <1>2
<1>8. ASSUME NEW k \in 1 .. Len(q), k # n PROVE \E i \in 1 .. Len(q) - 1 : at(i) = k
  <2>1. CASE k < n
    BY <1>1, <1>2, <2>1
  <2>2. CASE k > n
    <3>1. k - 1 \in 1 .. Len(q) - 1 /\ at(k - 1) = k
      BY <1>1, <1>2, <2>2
    <3> QED
      BY <3>1
  <2> QED
    BY <1>1, <1>2, <1>8, <2>1, <2>2
<1> HIDE DEF at
<1>9. \A i \in 1 .. Len(q) - 1 : w[i] \in R
  BY <1>1, <1>2, <1>4, <1>5, <1>6
<1>10. w \in Seq(R) /\ DOMAIN w = 1 .. Len(q) - 1
  <2>1. Len(q) - 1 \in Nat
    BY <1>1, <1>2
  <2> QED
    BY <1>3, <1>9, <2>1
<1>11. IsInjective(w)
  <2>1. ASSUME NEW i \in 1 .. Len(q) - 1, NEW j \in 1 .. Len(q) - 1, w[i] = w[j] PROVE i = j
    <3>1. at(i) = at(j)
      BY <1>4, <1>5, <1>6, <2>1
    <3> QED
      BY <1>7, <3>1
  <2> QED
    BY <1>10, <2>1 DEF IsInjective
<1>12. ASSUME NEW x \in R PROVE x \in Range(w)
  <2>1. PICK k \in 1 .. Len(q) : q[k] = x
    BY <1>1 DEF Range
  <2>2. PICK i \in 1 .. Len(q) - 1 : at(i) = k
    BY <1>2, <1>8, <2>1
  <2>3. w[i] = x
    BY <1>6, <2>1, <2>2, Zenon
  <2> QED
    BY <1>10, <2>3, Zenon DEF Range
<1>13. Range(w) \subseteq R
  BY <1>9, <1>10 DEF Range
<1>14. q # <<>>
  BY <1>1, <1>2
<1> QED
  BY <1>10, <1>11, <1>12, <1>13, <1>14 DEF Lists, w

=============================================================================
