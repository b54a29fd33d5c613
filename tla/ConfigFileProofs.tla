--------------------------- MODULE ConfigFileProofs ---------------------------
(***************************************************************************)
(* Proofs about the two components that ConfigFile brings together.        *)
(* Json::Reader, for every text: its pointers never dangle, its stack is   *)
(* bounded, and an integer is read as what its digits say.  main(), for    *)
(* every document: the services are those of the document, and what is     *)
(* written as documented is what the program has.                          *)
(*                                                                         *)
(* The first parts are about values and the paths in them: what the value  *)
(* at the end of a path becomes when another is put somewhere in the tree. *)
(***************************************************************************)
EXTENDS JsonReader, Settings, TLAPS, FiniteSetTheorems

-----------------------------------------------------------------------------
(* Induction.                                                              *)

\* A set of numbers that has one has a smallest.
LEMMA Smallest ==
  ASSUME NEW S \in SUBSET Nat, S # {}
  PROVE  \E m \in S : \A k \in S : m <= k
<1> DEFINE R == OpToRel(<, Nat)
<1>1. \E m \in S : \A k \in S : <<k, m>> \notin R
  BY NatLessThanWellFounded, WFMin
<1>2. \A k, m \in Nat : k < m => <<k, m>> \in R
  BY Zenon DEF OpToRel
<1> HIDE DEF R
<1>3. \A k, m \in S : <<k, m>> \notin R => m <= k
  <2> SUFFICES ASSUME NEW k \in S, NEW m \in S, ~(m <= k) PROVE <<k, m>> \in R
    OBVIOUS
  <2>1. k < m
    OBVIOUS
  <2> QED
    BY <2>1, <1>2
<1> QED
  BY <1>1, <1>3

\* Induction for the set of the numbers that have a property.
LEMMA Induct ==
  ASSUME NEW S, 0 \in S, \A n \in Nat : n \in S => n + 1 \in S
  PROVE  Nat \subseteq S
<1> SUFFICES ASSUME Nat \ S # {} PROVE FALSE
  OBVIOUS
<1>1. PICK m \in Nat \ S : \A k \in Nat \ S : m <= k
  BY Smallest
<1>2. m # 0 /\ m - 1 \in Nat
  BY <1>1
<1>3. m - 1 \in S
  BY <1>1, <1>2
<1>4. (m - 1) + 1 \in S
  BY <1>2, <1>3
<1> QED
  BY <1>1, <1>2, <1>4

-----------------------------------------------------------------------------
(* Paths.                                                                  *)

\* p is a sequence, of whatever keys.
IsPath(p) == p \in Seq({p[k] : k \in DOMAIN p})

LEMMA Paths ==
  ASSUME NEW S, NEW p \in Seq(S)
  PROVE  IsPath(p)
<1>1. /\ DOMAIN p = 1 .. Len(p) /\ Len(p) \in Nat
      /\ p = [k \in 1 .. Len(p) |-> p[k]]
  OBVIOUS
<1>2. p \in [1 .. Len(p) -> {p[k] : k \in DOMAIN p}]
  BY <1>1
<1> QED
  BY <1>1, <1>2 DEF IsPath

LEMMA PathFacts ==
  ASSUME NEW p, IsPath(p)
  PROVE  /\ Len(p) \in Nat /\ DOMAIN p = 1 .. Len(p)
         /\ p = [k \in 1 .. Len(p) |-> p[k]]
BY DEF IsPath

LEMMA PathEmpty == IsPath(<<>>) /\ Len(<<>>) = 0
<1>1. <<>> \in Seq({})
  OBVIOUS
<1> QED
  BY <1>1, Paths

LEMMA PathAppend ==
  ASSUME NEW p, IsPath(p), NEW x
  PROVE  /\ IsPath(Append(p, x)) /\ Len(Append(p, x)) = Len(p) + 1
         /\ \A k \in 1 .. Len(p) : Append(p, x)[k] = p[k]
         /\ Append(p, x)[Len(p) + 1] = x
<1> DEFINE S == {p[k] : k \in DOMAIN p} \cup {x}
<1>1. p \in Seq(S) /\ x \in S
  BY DEF IsPath
<1> HIDE DEF S
<1>2. /\ Append(p, x) \in Seq(S) /\ Len(Append(p, x)) = Len(p) + 1
      /\ \A k \in 1 .. Len(p) : Append(p, x)[k] = p[k]
      /\ Append(p, x)[Len(p) + 1] = x
  BY <1>1
<1> DEFINE q == Append(p, x)
<1>3. q \in Seq(S)
  BY <1>2
<1> HIDE DEF q
<1>4. IsPath(q)
  BY <1>3, Paths
<1> QED
  BY <1>2, <1>4 DEF q

\* The first k keys.
LEMMA PathPrefix ==
  ASSUME NEW p, IsPath(p), NEW k \in 0 .. Len(p)
  PROVE  /\ IsPath(SubSeq(p, 1, k)) /\ Len(SubSeq(p, 1, k)) = k
         /\ \A j \in 1 .. k : SubSeq(p, 1, k)[j] = p[j]
<1> DEFINE S == {p[j] : j \in DOMAIN p}
<1>1. p \in Seq(S)
  BY DEF IsPath
<1> HIDE DEF S
<1>2. /\ SubSeq(p, 1, k) \in Seq(S) /\ Len(SubSeq(p, 1, k)) = k
      /\ \A j \in 1 .. k : SubSeq(p, 1, k)[j] = p[j]
  BY <1>1
<1> DEFINE q == SubSeq(p, 1, k)
<1>3. q \in Seq(S)
  BY <1>2
<1> HIDE DEF q
<1>4. IsPath(q)
  BY <1>3, Paths
<1> QED
  BY <1>2, <1>4 DEF q

LEMMA PathsEqual ==
  ASSUME NEW p, IsPath(p), NEW q, IsPath(q), Len(p) = Len(q),
         \A k \in 1 .. Len(p) : p[k] = q[k]
  PROVE  p = q
<1>1. p = [k \in 1 .. Len(p) |-> p[k]] /\ q = [k \in 1 .. Len(p) |-> q[k]]
  BY PathFacts
<1> QED
  BY <1>1

LEMMA PrefixOfPrefix ==
  ASSUME NEW p, IsPath(p), NEW k \in 0 .. Len(p), NEW j \in 0 .. k
  PROVE  SubSeq(SubSeq(p, 1, k), 1, j) = SubSeq(p, 1, j)
<1>1. Len(p) \in Nat /\ j \in 0 .. Len(p)
  BY PathFacts
<1> DEFINE q == SubSeq(p, 1, k)
<1>2. IsPath(q) /\ Len(q) = k /\ \A i \in 1 .. k : q[i] = p[i]
  BY PathPrefix
<1> HIDE DEF q
<1>3. /\ IsPath(SubSeq(q, 1, j)) /\ Len(SubSeq(q, 1, j)) = j
      /\ \A i \in 1 .. j : SubSeq(q, 1, j)[i] = q[i]
  BY <1>2, PathPrefix
<1>4. /\ IsPath(SubSeq(p, 1, j)) /\ Len(SubSeq(p, 1, j)) = j
      /\ \A i \in 1 .. j : SubSeq(p, 1, j)[i] = p[i]
  BY <1>1, PathPrefix
<1>5. SubSeq(q, 1, j) = SubSeq(p, 1, j)
  BY <1>1, <1>2, <1>3, <1>4, PathsEqual
<1> QED
  BY <1>5 DEF q

LEMMA WholePrefix ==
  ASSUME NEW p, IsPath(p)
  PROVE  SubSeq(p, 1, Len(p)) = p
<1>1. Len(p) \in Nat /\ Len(p) \in 0 .. Len(p)
  BY PathFacts
<1> DEFINE q == SubSeq(p, 1, Len(p))
<1>2. IsPath(q) /\ Len(q) = Len(p) /\ \A k \in 1 .. Len(p) : q[k] = p[k]
  BY <1>1, PathPrefix
<1> HIDE DEF q
<1>3. q = p
  BY <1>2, PathsEqual
<1> QED
  BY <1>3 DEF q

-----------------------------------------------------------------------------
(* The values along a path.                                                *)

\* What ValueAt computes: the values at the ends of the path's prefixes.
Along(v, p) ==
  CHOOSE at : at = [k \in 0 .. Len(p) |->
                      IF k = 0 THEN v ELSE Payload(at[k-1])[p[k]]]

LEMMA AlongIs ==
  ASSUME NEW v, NEW p, IsPath(p)
  PROVE  Along(v, p) = [k \in 0 .. Len(p) |->
                          IF k = 0 THEN v ELSE Payload(Along(v, p)[k-1])[p[k]]]
<1> DEFINE Is(at, n) ==
             at = [k \in 0 .. n |-> IF k = 0 THEN v ELSE Payload(at[k-1])[p[k]]]
           S == {n \in Nat : \E at : Is(at, n)}
<1>1. 0 \in S
  <2>1. Is([k \in 0 .. 0 |-> v], 0)
    OBVIOUS
  <2> QED
    BY <2>1
<1>2. ASSUME NEW n \in Nat, n \in S
      PROVE  n + 1 \in S
  <2>1. PICK at : Is(at, n)
    BY <1>2
  <2> DEFINE next == [k \in 0 .. n + 1 |->
                        IF k <= n THEN at[k] ELSE Payload(at[n])[p[n+1]]]
  <2>2. \A k \in 0 .. n + 1 :
          next[k] = IF k = 0 THEN v ELSE Payload(next[k-1])[p[k]]
    <3> SUFFICES ASSUME NEW k \in 0 .. n + 1
                 PROVE  next[k] = IF k = 0 THEN v ELSE Payload(next[k-1])[p[k]]
      OBVIOUS
    <3>1. CASE k <= n
      <4>1. next[k] = at[k] /\ (k # 0 => next[k-1] = at[k-1])
        BY <3>1
      <4> QED
        BY <2>1, <3>1, <4>1
    <3>2. CASE k = n + 1
      BY <3>2
    <3> QED
      BY <3>1, <3>2
  <2>3. next = [k \in 0 .. n + 1 |-> next[k]]
    OBVIOUS
  <2> HIDE DEF next
  <2>4. Is(next, n + 1)
    BY <2>2, <2>3
  <2> HIDE DEF Is
  <2> QED
    BY <2>4
<1> HIDE DEF Is
<1>3. Nat \subseteq S
  <2> HIDE DEF S
  <2> QED
    BY <1>1, <1>2, Induct
<1>4. \E at : Is(at, Len(p))
  BY <1>3, PathFacts
<1> QED
  BY <1>4, Zenon DEF Along, Is

LEMMA AlongPrefix ==
  ASSUME NEW v, NEW p, IsPath(p), NEW n \in 0 .. Len(p)
  PROVE  ValueAt(v, SubSeq(p, 1, n)) = Along(v, p)[n]
<1> DEFINE q == SubSeq(p, 1, n)
           a == Along(v, p)
           b == Along(v, q)
           S == {k \in Nat : k <= n => a[k] = b[k]}
<1>1. Len(p) \in Nat /\ IsPath(q) /\ Len(q) = n /\ \A k \in 1 .. n : q[k] = p[k]
  BY PathPrefix, PathFacts
<1> HIDE DEF q
<1>2. /\ a = [k \in 0 .. Len(p) |-> IF k = 0 THEN v ELSE Payload(a[k-1])[p[k]]]
      /\ b = [k \in 0 .. n |-> IF k = 0 THEN v ELSE Payload(b[k-1])[q[k]]]
  BY <1>1, AlongIs
<1>3. ValueAt(v, q) = b[n]
  BY <1>1 DEF ValueAt, Along
<1> HIDE DEF a, b
<1>4. 0 \in S
  BY <1>1, <1>2
<1>5. ASSUME NEW k \in Nat, k \in S
      PROVE  k + 1 \in S
  <2> SUFFICES ASSUME k + 1 <= n PROVE a[k+1] = b[k+1]
    OBVIOUS
  <2>1. a[k] = b[k] /\ k + 1 \in 1 .. n /\ k + 1 \in 1 .. Len(p)
    BY <1>1, <1>5
  <2>2. a[k+1] = Payload(a[k])[p[k+1]]
    BY <1>1, <1>2, <2>1
  <2>3. b[k+1] = Payload(b[k])[q[k+1]]
    BY <1>1, <1>2, <2>1
  <2> QED
    BY <1>1, <2>1, <2>2, <2>3
<1>6. Nat \subseteq S
  <2> HIDE DEF S
  <2> QED
    BY <1>4, <1>5, Induct
<1>7. a[n] = b[n]
  BY <1>1, <1>6
<1> QED
  BY <1>3, <1>7 DEF a, q

\* The root, and one key further.
LEMMA ValueAtEmpty ==
  ASSUME NEW v, NEW p, IsPath(p)
  PROVE  ValueAt(v, SubSeq(p, 1, 0)) = v
<1>1. Len(p) \in Nat /\ 0 \in 0 .. Len(p)
  BY PathFacts
<1> QED
  BY <1>1, AlongPrefix, AlongIs

LEMMA ValueAtNext ==
  ASSUME NEW v, NEW p, IsPath(p), NEW k \in 0 .. Len(p) - 1
  PROVE  ValueAt(v, SubSeq(p, 1, k + 1))
           = Payload(ValueAt(v, SubSeq(p, 1, k)))[p[k+1]]
<1>1. Len(p) \in Nat /\ k \in 0 .. Len(p) /\ k + 1 \in 0 .. Len(p)
  BY PathFacts
<1>2. Along(v, p)[k+1] = Payload(Along(v, p)[k])[p[k+1]]
  BY <1>1, AlongIs
<1> QED
  BY <1>1, <1>2, AlongPrefix

-----------------------------------------------------------------------------
(* Another value at the end of a path.                                     *)

With(u, key, w) == <<u[1], [u[2] EXCEPT ![key] = w], u[3]>>

LEMMA WithFacts ==
  ASSUME NEW u, NEW key, NEW w, NEW v, v = With(u, key, w)
  PROVE  /\ Type(v) = Type(u) /\ DOMAIN Payload(v) = DOMAIN Payload(u)
         /\ key \in DOMAIN Payload(u) => Payload(v)[key] = w
         /\ \A other \in DOMAIN Payload(u) :
              other # key => Payload(v)[other] = Payload(u)[other]
BY DEF With, Type, Payload

\* What Put computes, from the end of the path: the values above the new one.
Under(v, p, w) ==
  CHOOSE under :
    under = [k \in 0 .. Len(p) |->
               IF k = 0 THEN w
               ELSE With(ValueAt(v, SubSeq(p, 1, Len(p) - k)), p[Len(p)-k+1],
                         under[k-1])]

UnderIs(v, p, w) ==
  /\ Put(v, p, w) = Under(v, p, w)[Len(p)]
  /\ Under(v, p, w)[0] = w
  /\ \A n \in 1 .. Len(p) :
       Under(v, p, w)[n] = With(ValueAt(v, SubSeq(p, 1, Len(p) - n)),
                                p[Len(p)-n+1], Under(v, p, w)[n-1])

LEMMA UnderFacts ==
  ASSUME NEW v, NEW p, IsPath(p), NEW w
  PROVE  UnderIs(v, p, w)
<1> DEFINE Next_(k, x) ==
             With(ValueAt(v, SubSeq(p, 1, Len(p) - k)), p[Len(p)-k+1], x)
           Is(under, n) ==
             under = [k \in 0 .. n |-> IF k = 0 THEN w ELSE Next_(k, under[k-1])]
           S == {n \in Nat : \E under : Is(under, n)}
<1> HIDE DEF Next_
<1>1. 0 \in S
  <2>1. Is([k \in 0 .. 0 |-> w], 0)
    OBVIOUS
  <2> QED
    BY <2>1
<1>2. ASSUME NEW n \in Nat, n \in S
      PROVE  n + 1 \in S
  <2>1. PICK under : Is(under, n)
    BY <1>2
  <2> DEFINE next == [k \in 0 .. n + 1 |->
                        IF k <= n THEN under[k] ELSE Next_(n + 1, under[n])]
  <2>2. \A k \in 0 .. n + 1 : next[k] = IF k = 0 THEN w ELSE Next_(k, next[k-1])
    <3> SUFFICES ASSUME NEW k \in 0 .. n + 1
                 PROVE  next[k] = IF k = 0 THEN w ELSE Next_(k, next[k-1])
      OBVIOUS
    <3>1. CASE k <= n
      <4>1. next[k] = under[k] /\ (k # 0 => next[k-1] = under[k-1])
        BY <3>1
      <4> QED
        BY <2>1, <3>1, <4>1
    <3>2. CASE k = n + 1
      BY <3>2
    <3> QED
      BY <3>1, <3>2
  <2>3. next = [k \in 0 .. n + 1 |-> next[k]]
    OBVIOUS
  <2> HIDE DEF next
  <2>4. Is(next, n + 1)
    BY <2>2, <2>3
  <2> HIDE DEF Is
  <2> QED
    BY <2>4
<1> HIDE DEF Is
<1>3. Nat \subseteq S
  <2> HIDE DEF S
  <2> QED
    BY <1>1, <1>2, Induct
<1>4. \E under : Is(under, Len(p))
  BY <1>3, PathFacts
<1>5. Is(Under(v, p, w), Len(p))
  BY <1>4, Zenon DEF Under, Is, Next_
<1>6. Put(v, p, w) = Under(v, p, w)[Len(p)]
  BY Zenon DEF Put, Under, With
<1> DEFINE f == Under(v, p, w)
<1> HIDE DEF f
<1>7. f = [k \in 0 .. Len(p) |-> IF k = 0 THEN w ELSE Next_(k, f[k-1])]
  BY <1>5 DEF f, Is
<1>8. Len(p) \in Nat
  BY PathFacts
<1>9. f[0] = w /\ \A k \in 1 .. Len(p) : f[k] = Next_(k, f[k-1])
  BY <1>7, <1>8
<1> QED
  BY <1>6, <1>9, Zenon DEF f, Next_, UnderIs

\* The same, one fact at a time.
LEMMA UnderZero ==
  ASSUME NEW v, NEW p, IsPath(p), NEW w
  PROVE  Put(v, p, w) = Under(v, p, w)[Len(p)] /\ Under(v, p, w)[0] = w
<1>1. UnderIs(v, p, w)
  BY UnderFacts
<1> QED
  BY <1>1, Zenon DEF UnderIs

LEMMA UnderNext ==
  ASSUME NEW v, NEW p, IsPath(p), NEW w, NEW n \in 1 .. Len(p)
  PROVE  Under(v, p, w)[n] = With(ValueAt(v, SubSeq(p, 1, Len(p) - n)),
                                  p[Len(p)-n+1], Under(v, p, w)[n-1])
<1>1. UnderIs(v, p, w)
  BY UnderFacts
<1> QED
  BY <1>1, Zenon DEF UnderIs

\* Along the path the values are those that Put computes.
LEMMA PutAlong ==
  ASSUME NEW v, NEW p, IsPath(p), Lives(v, p), NEW w, NEW k \in 0 .. Len(p)
  PROVE  ValueAt(Put(v, p, w), SubSeq(p, 1, k)) = Under(v, p, w)[Len(p) - k]
<1> DEFINE n == Len(p)
           f == Under(v, p, w)
           r == Put(v, p, w)
           S == {j \in Nat : j <= n => ValueAt(r, SubSeq(p, 1, j)) = f[n - j]}
<1>1. n \in Nat /\ r = f[n] /\ DOMAIN p = 1 .. n
  BY PathFacts, UnderZero
<1>2. \A j \in 1 .. n : f[j] = With(ValueAt(v, SubSeq(p, 1, n - j)), p[n-j+1], f[j-1])
  BY UnderNext
<1> HIDE DEF f, r
<1>3. 0 \in S
  BY <1>1, ValueAtEmpty
<1>4. ASSUME NEW j \in Nat, j \in S
      PROVE  j + 1 \in S
  <2> SUFFICES ASSUME j + 1 <= n
               PROVE  ValueAt(r, SubSeq(p, 1, j + 1)) = f[n - (j + 1)]
    OBVIOUS
  <2> DEFINE u == ValueAt(v, SubSeq(p, 1, j))
  <2>1. j \in 0 .. n - 1 /\ n - j \in 1 .. n /\ j + 1 \in 1 .. n
    BY <1>1
  <2>2. ValueAt(r, SubSeq(p, 1, j + 1)) = Payload(f[n - j])[p[j+1]]
    BY <1>4, <2>1, ValueAtNext
  <2>3. n - (n - j) = j /\ (n - j) - 1 = n - (j + 1) /\ (j + 1) - 1 = j
    BY <1>1
  <2>4. f[n - j] = With(u, p[j+1], f[n - (j + 1)])
    BY <1>2, <2>1, <2>3
  <2>5. p[j+1] \in DOMAIN Payload(u)
    BY <1>1, <2>1, <2>3 DEF Lives, Holds
  <2> HIDE DEF u
  <2> QED
    BY <2>2, <2>4, <2>5, WithFacts
<1>5. Nat \subseteq S
  <2> HIDE DEF S
  <2> QED
    BY <1>3, <1>4, Induct
<1>6. ValueAt(r, SubSeq(p, 1, k)) = f[n - k]
  BY <1>1, <1>5
<1> QED
  BY <1>6 DEF f, r

\* At its end there is the new value; above it, values as before but for one
\* member.
LEMMA PutAt ==
  ASSUME NEW v, NEW p, IsPath(p), Lives(v, p), NEW w
  PROVE  /\ ValueAt(Put(v, p, w), p) = w
         /\ \A k \in 0 .. Len(p) - 1 :
              /\ Type(ValueAt(Put(v, p, w), SubSeq(p, 1, k)))
                   = Type(ValueAt(v, SubSeq(p, 1, k)))
              /\ DOMAIN Payload(ValueAt(Put(v, p, w), SubSeq(p, 1, k)))
                   = DOMAIN Payload(ValueAt(v, SubSeq(p, 1, k)))
<1>1. Len(p) \in Nat /\ Len(p) \in 0 .. Len(p) /\ Len(p) - Len(p) = 0
  BY PathFacts
<1>2. ValueAt(Put(v, p, w), p) = w
  <2>1. ValueAt(Put(v, p, w), SubSeq(p, 1, Len(p))) = Under(v, p, w)[0]
    BY <1>1, PutAlong
  <2>2. SubSeq(p, 1, Len(p)) = p
    BY WholePrefix
  <2>3. Under(v, p, w)[0] = w
    BY UnderZero
  <2> QED
    BY <2>1, <2>2, <2>3
<1>3. ASSUME NEW k \in 0 .. Len(p) - 1
      PROVE  ValueAt(Put(v, p, w), SubSeq(p, 1, k))
               = With(ValueAt(v, SubSeq(p, 1, k)), p[k+1],
                      Under(v, p, w)[Len(p) - k - 1])
  <2>1. /\ k \in 0 .. Len(p) /\ Len(p) - k \in 1 .. Len(p)
        /\ Len(p) - (Len(p) - k) = k
    BY <1>1
  <2> DEFINE f == Under(v, p, w)
             n == Len(p) - k
  <2> HIDE DEF f, n
  <2>2. ValueAt(Put(v, p, w), SubSeq(p, 1, k)) = f[n]
    BY <2>1, PutAlong DEF f, n
  <2>3. f[n] = With(ValueAt(v, SubSeq(p, 1, Len(p) - n)), p[Len(p)-n+1], f[n-1])
    <3>1. n \in 1 .. Len(p)
      BY <2>1 DEF n
    <3> QED
      BY <3>1, UnderNext, Zenon DEF f
  <2> QED
    BY <2>1, <2>2, <2>3 DEF f, n
<1> QED
  BY <1>2, <1>3, WithFacts

\* The same, one fact at a time.
LEMMA PutEnd ==
  ASSUME NEW v, NEW p, IsPath(p), Lives(v, p), NEW w
  PROVE  ValueAt(Put(v, p, w), p) = w
BY PutAt

LEMMA PutAbove ==
  ASSUME NEW v, NEW p, IsPath(p), Lives(v, p), NEW w, NEW k \in 0 .. Len(p) - 1
  PROVE  /\ Type(ValueAt(Put(v, p, w), SubSeq(p, 1, k)))
              = Type(ValueAt(v, SubSeq(p, 1, k)))
         /\ DOMAIN Payload(ValueAt(Put(v, p, w), SubSeq(p, 1, k)))
              = DOMAIN Payload(ValueAt(v, SubSeq(p, 1, k)))
BY PutAt

-----------------------------------------------------------------------------
(* What stays where it is when a value is put somewhere.                   *)

LEMMA PrefixesEqual ==
  ASSUME NEW p, IsPath(p), NEW q, IsPath(q), NEW n \in 0 .. Len(p), n <= Len(q),
         \A k \in 1 .. n : p[k] = q[k]
  PROVE  SubSeq(p, 1, n) = SubSeq(q, 1, n)
<1>1. n \in 0 .. Len(q) /\ n \in Nat
  BY PathFacts
<1> DEFINE a == SubSeq(p, 1, n)
           b == SubSeq(q, 1, n)
<1>2. IsPath(a) /\ Len(a) = n /\ \A k \in 1 .. n : a[k] = p[k]
  BY PathPrefix
<1>3. IsPath(b) /\ Len(b) = n /\ \A k \in 1 .. n : b[k] = q[k]
  BY <1>1, PathPrefix
<1> HIDE DEF a, b
<1>4. a = b
  BY <1>2, <1>3, PathsEqual
<1> QED
  BY <1>4 DEF a, b

\* A pointer q to a value on the way to the end of p, or next to the way, stays
\* good; one to a member of the value at its end does if the new value has the
\* member too.
LEMMA LivesAlong ==
  ASSUME NEW v, NEW p, IsPath(p), Lives(v, p), NEW w,
         NEW q, IsPath(q), Lives(v, q), Len(q) <= Len(p) + 1,
         \A k \in 1 .. Len(q) - 1 : p[k] = q[k],
         Len(q) = Len(p) + 1 => Holds(w, q[Len(q)])
  PROVE  Lives(Put(v, p, w), q)
<1>1. Len(p) \in Nat /\ Len(q) \in Nat /\ DOMAIN q = 1 .. Len(q)
  BY PathFacts
<1>0. Len(p) \in Nat /\ Len(q) \in Nat
  BY <1>1
<1> SUFFICES ASSUME NEW k \in 1 .. Len(q)
             PROVE  Holds(ValueAt(Put(v, p, w), SubSeq(q, 1, k - 1)), q[k])
  BY <1>1 DEF Lives
<1>2. k - 1 \in 0 .. Len(p) /\ k - 1 <= Len(q) /\ \A j \in 1 .. k - 1 : p[j] = q[j]
  BY <1>0
<1>3. SubSeq(q, 1, k - 1) = SubSeq(p, 1, k - 1)
  BY <1>2, PrefixesEqual
<1>4. CASE k <= Len(p)
  <2>1. k - 1 \in 0 .. Len(p) - 1
    BY <1>0, <1>4
  <2>2. Holds(ValueAt(v, SubSeq(p, 1, k - 1)), q[k])
    BY <1>1, <1>3 DEF Lives
  <2>3. /\ Type(ValueAt(Put(v, p, w), SubSeq(p, 1, k - 1)))
             = Type(ValueAt(v, SubSeq(p, 1, k - 1)))
        /\ DOMAIN Payload(ValueAt(Put(v, p, w), SubSeq(p, 1, k - 1)))
             = DOMAIN Payload(ValueAt(v, SubSeq(p, 1, k - 1)))
    BY <2>1, PutAt
  <2> QED
    BY <1>3, <2>2, <2>3 DEF Holds
<1>5. CASE k > Len(p)
  <2>1. k = Len(q) /\ Len(q) = Len(p) + 1 /\ k - 1 = Len(p)
    BY <1>0, <1>5
  <2>2. SubSeq(p, 1, k - 1) = p
    BY <2>1, WholePrefix
  <2>3. ValueAt(Put(v, p, w), p) = w
    BY PutAt
  <2> QED
    BY <1>3, <2>1, <2>2, <2>3
<1> QED
  BY <1>0, <1>4, <1>5

\* A value that differs only in its comments changes nothing for any pointer.
LEMMA LivesSame ==
  ASSUME NEW v, NEW p, IsPath(p), Lives(v, p), NEW w,
         Type(w) = Type(ValueAt(v, p)), Payload(w) = Payload(ValueAt(v, p)),
         NEW q, IsPath(q), Lives(v, q)
  PROVE  /\ Lives(Put(v, p, w), q)
         /\ Type(ValueAt(Put(v, p, w), q)) = Type(ValueAt(v, q))
<1> DEFINE r == Put(v, p, w)
           New_(k) == ValueAt(r, SubSeq(q, 1, k))
           Old_(k) == ValueAt(v, SubSeq(q, 1, k))
           Same_(k) == Type(New_(k)) = Type(Old_(k)) /\ Payload(New_(k)) = Payload(Old_(k))
           OnTheWay(k) == k < Len(p) /\ SubSeq(q, 1, k) = SubSeq(p, 1, k)
           S == {k \in Nat : k <= Len(q) => OnTheWay(k) \/ Same_(k)}
<1>1. Len(p) \in Nat /\ Len(q) \in Nat /\ DOMAIN q = 1 .. Len(q) /\ DOMAIN p = 1 .. Len(p)
  BY PathFacts
<1>2. ASSUME NEW k \in 0 .. Len(p), SubSeq(q, 1, k) = SubSeq(p, 1, k)
      PROVE  OnTheWay(k) \/ Same_(k)
  <2>1. CASE k < Len(p)
    BY <1>2, <2>1
  <2>2. CASE k = Len(p)
    <3>1. SubSeq(q, 1, k) = p
      BY <1>2, <2>2, WholePrefix
    <3>2. ValueAt(r, p) = w
      BY PutEnd
    <3>3. New_(k) = w /\ Old_(k) = ValueAt(v, p)
      BY <3>1, <3>2, Zenon
    <3> QED
      BY <3>3, Zenon
  <2>3. k < Len(p) \/ k = Len(p)
    <3>1. Len(p) \in Nat
      BY <1>1
    <3> QED
      BY <3>1
  <2> HIDE DEF OnTheWay, Same_
  <2> QED
    BY <2>1, <2>2, <2>3
<1>3. 0 \in S
  <2>1. SubSeq(q, 1, 0) = SubSeq(p, 1, 0)
    BY <1>1, PrefixesEqual
  <2>2. OnTheWay(0) \/ Same_(0)
    BY <1>1, <1>2, <2>1
  <2> HIDE DEF OnTheWay, Same_
  <2> QED
    BY <2>2
<1>4. ASSUME NEW k \in Nat, k \in S, k < Len(q)
      PROVE  OnTheWay(k + 1) \/ Same_(k + 1)
  <2>1. New_(k + 1) = Payload(New_(k))[q[k+1]] /\ Old_(k + 1) = Payload(Old_(k))[q[k+1]]
    BY <1>1, <1>4, ValueAtNext
  <2>2. CASE Same_(k)
    <3>1. New_(k + 1) = Old_(k + 1)
      BY <2>1, <2>2
    <3> QED
      BY <3>1
  <2>3. CASE OnTheWay(k) /\ q[k+1] = p[k+1]
    <3>1. \A j \in 1 .. k : q[j] = p[j]
      <4>1. k \in 0 .. Len(p) /\ k \in 0 .. Len(q)
        BY <1>1, <1>4, <2>3
      <4>2. /\ \A j \in 1 .. k : SubSeq(q, 1, k)[j] = q[j]
            /\ \A j \in 1 .. k : SubSeq(p, 1, k)[j] = p[j]
        BY <4>1, PathPrefix
      <4> QED
        BY <2>3, <4>2
    <3>2. \A j \in 1 .. k + 1 : q[j] = p[j]
      BY <1>4, <2>3, <3>1
    <3>3. k + 1 \in 0 .. Len(p) /\ k + 1 \in 0 .. Len(q) /\ k + 1 <= Len(p)
      BY <1>1, <1>4, <2>3
    <3>4. SubSeq(q, 1, k + 1) = SubSeq(p, 1, k + 1)
      BY <3>2, <3>3, PrefixesEqual
    <3> QED
      BY <1>2, <3>3, <3>4
  <2>4. CASE OnTheWay(k) /\ q[k+1] # p[k+1]
    <3> DEFINE f == Under(v, p, w)
               n == Len(p) - k
    <3>1. k \in 0 .. Len(p) /\ n \in 1 .. Len(p) /\ Len(p) - n = k /\ k + 1 \in 1 .. Len(q)
      BY <1>1, <1>4, <2>4
    <3>2. New_(k) = f[n]
      BY <2>4, <3>1, PutAlong
    <3>3. f[n] = With(ValueAt(v, SubSeq(p, 1, Len(p) - n)), p[Len(p)-n+1], f[n-1])
      <4> HIDE DEF n
      <4> QED
        BY <3>1, UnderNext
    <3>4. New_(k) = With(Old_(k), p[k+1], f[n-1])
      BY <2>4, <3>1, <3>2, <3>3
    <3>5. q[k+1] \in DOMAIN Payload(Old_(k))
      <4>1. Holds(ValueAt(v, SubSeq(q, 1, (k + 1) - 1)), q[k+1])
        BY <1>1, <3>1 DEF Lives
      <4>2. (k + 1) - 1 = k
        BY <1>4
      <4> QED
        BY <4>1, <4>2 DEF Holds
    <3> DEFINE old == Old_(k)
               new == New_(k)
    <3>6. Payload(new)[q[k+1]] = Payload(old)[q[k+1]]
      <4> HIDE DEF old, new
      <4>1. new = With(old, p[k+1], f[n-1]) /\ q[k+1] \in DOMAIN Payload(old)
        BY <3>4, <3>5 DEF old, new
      <4> HIDE DEF f, n
      <4> QED
        BY <2>4, <4>1, WithFacts
    <3>7. New_(k + 1) = Old_(k + 1)
      BY <2>1, <3>6
    <3> QED
      BY <3>7
  <2> HIDE DEF OnTheWay, Same_
  <2> QED
    BY <1>1, <1>4, <2>2, <2>3, <2>4
<1>5. \A k \in 0 .. Len(q) : OnTheWay(k) \/ Same_(k)
  <2> HIDE DEF OnTheWay, Same_
  <2>1. \A k \in Nat : k \in S => k + 1 \in S
    BY <1>1, <1>4
  <2>2. Nat \subseteq S
    <3> HIDE DEF S
    <3> QED
      BY <1>3, <2>1, Induct
  <2> QED
    BY <1>1, <2>2
\* On the way to the new value only one member of each value changes.
<1>6. \A k \in 0 .. Len(q) : /\ Type(New_(k)) = Type(Old_(k))
                             /\ DOMAIN Payload(New_(k)) = DOMAIN Payload(Old_(k))
  <2> TAKE k \in 0 .. Len(q)
  <2>1. CASE OnTheWay(k)
    <3>1. k \in 0 .. Len(p) - 1
      BY <1>1, <2>1
    <3>2. /\ Type(ValueAt(r, SubSeq(p, 1, k))) = Type(ValueAt(v, SubSeq(p, 1, k)))
          /\ DOMAIN Payload(ValueAt(r, SubSeq(p, 1, k)))
               = DOMAIN Payload(ValueAt(v, SubSeq(p, 1, k)))
      BY <3>1, PutAbove
    <3> QED
      BY <2>1, <3>2, Zenon
  <2> QED
    BY <1>5, <2>1
<1>7. Lives(r, q)
  <2> SUFFICES ASSUME NEW k \in 1 .. Len(q)
               PROVE  Holds(New_(k - 1), q[k])
    BY <1>1 DEF Lives
  <2>1. k - 1 \in 0 .. Len(q) /\ Holds(Old_(k - 1), q[k])
    BY <1>1 DEF Lives
  <2> HIDE DEF New_, Old_
  <2> QED
    BY <1>6, <2>1 DEF Holds
<1>8. Type(ValueAt(r, q)) = Type(ValueAt(v, q))
  <2>1. SubSeq(q, 1, Len(q)) = q /\ Len(q) \in 0 .. Len(q)
    BY <1>1, WholePrefix
  <2> QED
    BY <1>6, <2>1
<1> QED
  BY <1>7, <1>8

\* A member of the value at the end, and the value that it is a member of.
LEMMA LivesAppend ==
  ASSUME NEW v, NEW p, IsPath(p), Lives(v, p), NEW x, Holds(ValueAt(v, p), x)
  PROVE  Lives(v, Append(p, x))
<1> DEFINE q == Append(p, x)
           n == Len(p)
<1>1. /\ n \in Nat /\ IsPath(q) /\ Len(q) = n + 1 /\ DOMAIN q = 1 .. n + 1
      /\ \A k \in 1 .. n : q[k] = p[k]
      /\ q[n+1] = x /\ DOMAIN p = 1 .. n
  BY PathFacts, PathAppend
<1> HIDE DEF q
<1> SUFFICES ASSUME NEW k \in 1 .. n + 1
             PROVE  Holds(ValueAt(v, SubSeq(q, 1, k - 1)), q[k])
  BY <1>1 DEF q, Lives
<1>2. k - 1 \in 0 .. n /\ k - 1 <= Len(q)
  BY <1>1
<1>3. SubSeq(p, 1, k - 1) = SubSeq(q, 1, k - 1)
  BY <1>1, <1>2, PrefixesEqual
<1>4. CASE k <= n
  <2>1. Holds(ValueAt(v, SubSeq(p, 1, k - 1)), p[k]) /\ q[k] = p[k]
    BY <1>1, <1>4 DEF Lives
  <2> QED
    BY <1>3, <2>1, Zenon
<1>5. CASE k = n + 1
  <2>1. SubSeq(p, 1, k - 1) = p
    BY <1>1, <1>5, WholePrefix
  <2> QED
    BY <1>1, <1>3, <1>5, <2>1
<1> QED
  BY <1>1, <1>4, <1>5

LEMMA LivesFront ==
  ASSUME NEW v, NEW p, IsPath(p), Lives(v, p), Len(p) > 0
  PROVE  /\ IsPath(Front(p)) /\ Len(Front(p)) = Len(p) - 1
         /\ \A k \in 1 .. Len(p) - 1 : Front(p)[k] = p[k]
         /\ Lives(v, Front(p))
         /\ Holds(ValueAt(v, Front(p)), p[Len(p)])
<1> DEFINE n == Len(p) - 1
           q == SubSeq(p, 1, n)
<1>1. Len(p) \in Nat /\ n \in 0 .. Len(p) /\ DOMAIN p = 1 .. Len(p) /\ Len(p) \in 1 .. Len(p)
  BY PathFacts
<1>2. IsPath(q) /\ Len(q) = n /\ \A k \in 1 .. n : q[k] = p[k]
  BY <1>1, PathPrefix
<1>3. DOMAIN q = 1 .. n
  BY <1>2, PathFacts
<1>4. \A k \in 1 .. n : SubSeq(q, 1, k - 1) = SubSeq(p, 1, k - 1)
  BY <1>1, PrefixOfPrefix
<1>5. Lives(v, q)
  <2> SUFFICES ASSUME NEW k \in 1 .. n
               PROVE  Holds(ValueAt(v, SubSeq(q, 1, k - 1)), q[k])
    BY <1>3, Zenon DEF Lives
  <2>1. Holds(ValueAt(v, SubSeq(p, 1, k - 1)), p[k])
    BY <1>1 DEF Lives
  <2>2. SubSeq(q, 1, k - 1) = SubSeq(p, 1, k - 1) /\ q[k] = p[k]
    BY <1>2, <1>4, Zenon
  <2> QED
    BY <2>1, <2>2, Zenon
<1>6. Holds(ValueAt(v, q), p[Len(p)])
  BY <1>1 DEF Lives
<1>7. Front(p) = q
  BY DEF Front
<1> QED
  BY <1>2, <1>5, <1>6, <1>7

\* Nothing but the new value is left of the tree, if it is put at the root.
LEMMA PutRoot ==
  ASSUME NEW v, NEW w
  PROVE  Put(v, <<>>, w) = w /\ ValueAt(v, <<>>) = v /\ Lives(v, <<>>)
<1>1. IsPath(<<>>) /\ Len(<<>>) = 0 /\ DOMAIN <<>> = {}
  BY PathEmpty
<1>2. Put(v, <<>>, w) = w
  BY <1>1, UnderZero
<1>3. SubSeq(<<>>, 1, 0) = <<>>
  BY <1>1, WholePrefix
<1>4. ValueAt(v, <<>>) = v
  BY <1>1, <1>3, ValueAtEmpty
<1> QED
  BY <1>1, <1>2, <1>4 DEF Lives

\* A container that has grown keeps the pointers to its members.
LEMMA LivesGrown ==
  ASSUME NEW v, NEW p, IsPath(p), Lives(v, p), NEW w, Type(w) \in {"array", "object"},
         DOMAIN Payload(ValueAt(v, p)) \subseteq DOMAIN Payload(w),
         NEW q, IsPath(q), Lives(v, q), Len(q) <= Len(p) + 1,
         \A k \in 1 .. Len(q) - 1 : p[k] = q[k]
  PROVE  Lives(Put(v, p, w), q)
<1>1. Len(p) \in Nat /\ Len(q) \in Nat
  BY PathFacts
<1>2. ASSUME Len(q) = Len(p) + 1
      PROVE  Holds(w, q[Len(q)])
  <2>1. Len(q) > 0 /\ Len(q) - 1 = Len(p)
    BY <1>1, <1>2
  <2>2. /\ IsPath(Front(q)) /\ Len(Front(q)) = Len(p)
        /\ \A k \in 1 .. Len(p) : Front(q)[k] = q[k]
        /\ Holds(ValueAt(v, Front(q)), q[Len(q)])
    BY <2>1, LivesFront
  <2>3. Front(q) = p
    BY <2>1, <2>2, PathsEqual
  <2> QED
    BY <2>2, <2>3 DEF Holds
<1> QED
  BY <1>2, LivesAlong

\* resolveReference in a container: the key is there, and what was there too.
LEMMA ResolvedHolds ==
  ASSUME NEW v, Type(v) \in {"array", "object"}, NEW container, NEW key,
         NEW w, w = Resolved(v, container, key)
  PROVE  /\ Type(w) \in {"array", "object"} /\ Holds(w, key)
         /\ DOMAIN Payload(v) \subseteq DOMAIN Payload(w)
<1>1. ~IsNull(v)
  BY DEF IsNull
<1> QED
  BY <1>1 DEF Resolved, Holds, Type, Payload

-----------------------------------------------------------------------------
(* The reader's pointers.                                                  *)

Containers_ == {"array", "object"}
\* Inside the current value: it is an array or an object.
Inside == {"name", "colon", "comma", "after", "first", "next"}

\* The call stack is as deep as the current value, which is there, and inside
\* is an array or an object.  A last value is kept only for comments; it is
\* there, and it is at most one level below the current value, next to the way
\* to it: whatever is put at the current value leaves it where it is.
Pointers ==
  /\ IsPath(nodes) /\ IsPath(frames) /\ Lives(root, nodes)
  /\ rpc = "value" => Len(frames) = Len(nodes)
  /\ rpc \in Inside => Len(frames) = Len(nodes) + 1 /\ Type(Current) \in Containers_
  /\ \A q \in lastValue :
       /\ Collect /\ IsPath(q) /\ Lives(root, q)
       /\ rpc = "value" => Len(q) <= Len(nodes)
       /\ rpc \in Inside => Len(q) <= Len(nodes) + 1
       /\ rpc \in Inside \cup {"value"} => \A k \in 1 .. Len(q) - 1 : nodes[k] = q[k]

LEMMA RestartPoints ==
  ASSUME Restart(text')
  PROVE  Pointers'
<1>1. /\ root' = Null /\ nodes' = <<>> /\ frames' = <<>> /\ rpc' = "value"
      /\ lastValue' = {}
  BY DEF Restart
<1>2. IsPath(nodes') /\ IsPath(frames') /\ Lives(root', nodes')
  BY <1>1, PathEmpty, PutRoot
<1> QED
  BY <1>1, <1>2 DEF Pointers, Inside

LEMMA StartPoints ==
  ASSUME Start(text, open)
  PROVE  Pointers
<1>1. /\ root = Null /\ nodes = <<>> /\ frames = <<>> /\ rpc = "value"
      /\ lastValue = {}
  BY DEF Start
<1>2. IsPath(nodes) /\ IsPath(frames) /\ Lives(root, nodes)
  BY <1>1, PathEmpty, PutRoot
<1> QED
  BY <1>1, <1>2 DEF Pointers, Inside

\* readValue returns: the current value becomes the last one.
LEMMA ReturnPoints ==
  ASSUME Pointers, NEW w, NEW callers, Return(w, callers), UNCHANGED features,
         \/ rpc = "value" /\ callers = frames
         \/ rpc \in Inside /\ callers = Front(frames)
  PROVE  Pointers'
<1>1. IsPath(nodes) /\ IsPath(frames) /\ Lives(root, nodes) /\ Len(nodes) \in Nat
  BY PathFacts DEF Pointers
<1>2. IsPath(callers) /\ Len(callers) = Len(nodes)
  <2>1. CASE rpc = "value" /\ callers = frames
    BY <1>1, <2>1 DEF Pointers
  <2>2. CASE rpc \in Inside /\ callers = Front(frames)
    <3>1. Len(frames) = Len(nodes) + 1
      BY <2>2 DEF Pointers
    <3>2. callers = SubSeq(frames, 1, Len(nodes))
      BY <1>1, <2>2, <3>1 DEF Front
    <3> QED
      BY <1>1, <3>1, <3>2, PathPrefix
  <2> QED
    BY <2>1, <2>2
<1>3. root' = Put(root, nodes, w) /\ frames' = callers
  BY DEF Return
<1>4. Lives(root', nodes)
  BY <1>1, <1>3, LivesAlong
<1>5. lastValue' = IF Collect THEN {nodes} ELSE {}
  <2>1. lastValue' = IF Collect THEN {nodes} ELSE lastValue
    BY DEF Return, LastValue
  <2>2. ~Collect => lastValue = {}
    BY DEF Pointers
  <2> QED
    BY <2>1, <2>2
<1>6. Collect' = Collect
  BY DEF Collect
<1>7. CASE callers = <<>>
  <2>1. rpc' = "end" /\ nodes' = nodes
    BY <1>7 DEF Return
  <2>2. \A q \in lastValue' : Collect' /\ IsPath(q) /\ Lives(root', q)
    BY <1>1, <1>4, <1>5, <1>6
  <2>3. IsPath(nodes') /\ IsPath(frames') /\ Lives(root', nodes')
    BY <1>1, <1>2, <1>3, <1>4, <2>1
  <2> QED
    BY <2>1, <2>2, <2>3 DEF Pointers, Inside
<1>8. CASE callers # <<>>
  <2>1. rpc' \in {"comma", "next"} /\ nodes' = Front(nodes)
    BY <1>8 DEF Return, Parent
  <2>2. Len(nodes) > 0
    <3>1. Len(callers) # 0
      BY <1>2, <1>8, PathEmpty, PathsEqual
    <3> QED
      BY <1>1, <1>2, <3>1
  <2>3. /\ IsPath(nodes') /\ Len(nodes') = Len(nodes) - 1
        /\ \A k \in 1 .. Len(nodes) - 1 : nodes'[k] = nodes[k]
        /\ Lives(root', nodes')
        /\ Holds(ValueAt(root', nodes'), nodes[Len(nodes)])
    BY <1>1, <1>4, <2>1, <2>2, LivesFront
  <2>4. Len(frames') = Len(nodes') + 1
    BY <1>1, <1>2, <1>3, <2>3
  <2>5. Type(Current') \in Containers_
    BY <2>3 DEF Holds, Current, Containers_
  <2>6. \A q \in lastValue' :
          /\ Collect' /\ IsPath(q) /\ Lives(root', q) /\ Len(q) <= Len(nodes') + 1
          /\ \A k \in 1 .. Len(q) - 1 : nodes'[k] = q[k]
    BY <1>1, <1>4, <1>5, <1>6, <2>3
  <2>7. IsPath(frames')
    BY <1>2, <1>3
  <2> QED
    BY <2>1, <2>3, <2>4, <2>5, <2>6, <2>7 DEF Pointers, Inside
<1> QED
  BY <1>7, <1>8

\* readObject and readArray begin: the current value becomes a container.
LEMMA OpenPoints ==
  ASSUME Pointers, rpc = "value", NEW w, Type(w) \in Containers_, NEW frame,
         root' = Put(root, nodes, w), frames' = Append(frames, frame),
         rpc' \in {"name", "first"}, UNCHANGED <<features, nodes, lastValue>>
  PROVE  Pointers'
<1>1. /\ IsPath(nodes) /\ IsPath(frames) /\ Lives(root, nodes) /\ Len(nodes) \in Nat
      /\ Len(frames) = Len(nodes)
  BY PathFacts DEF Pointers
<1>2. IsPath(frames') /\ Len(frames') = Len(nodes') + 1
  BY <1>1, PathAppend
<1>3. Lives(root', nodes')
  BY <1>1, LivesAlong
<1>4. Type(Current') \in Containers_
  BY <1>1, PutEnd DEF Current
<1>5. ASSUME NEW q \in lastValue
      PROVE  /\ Collect' /\ IsPath(q) /\ Lives(root', q) /\ Len(q) <= Len(nodes') + 1
             /\ \A k \in 1 .. Len(q) - 1 : nodes'[k] = q[k]
  <2>1. /\ Collect /\ IsPath(q) /\ Lives(root, q) /\ Len(q) <= Len(nodes)
        /\ \A k \in 1 .. Len(q) - 1 : nodes[k] = q[k]
    BY DEF Pointers
  <2>2. Len(q) \in Nat
    BY <2>1, PathFacts
  <2>3. Len(q) # Len(nodes) + 1 /\ Len(q) <= Len(nodes) + 1
    BY <1>1, <2>1, <2>2
  <2>4. Lives(root', q)
    BY <1>1, <2>1, <2>3, LivesAlong
  <2> QED
    BY <2>1, <2>3, <2>4 DEF Collect
<1> QED
  BY <1>1, <1>2, <1>3, <1>4, <1>5 DEF Pointers, Inside

\* A member is entered: the pointer to it is good, because it was made before.
LEMMA EnterPoints ==
  ASSUME Pointers, rpc \in Inside, NEW key, NEW w, Type(w) \in Containers_,
         Holds(w, key), DOMAIN Payload(Current) \subseteq DOMAIN Payload(w),
         Enter(Put(root, nodes, w), Append(nodes, key), Len(frames)),
         UNCHANGED <<features, frames, lastValue>>
  PROVE  Pointers'
<1>1. /\ IsPath(nodes) /\ IsPath(frames) /\ Lives(root, nodes) /\ Len(nodes) \in Nat
      /\ Len(frames) = Len(nodes) + 1
  BY PathFacts DEF Pointers
<1>2. root' = Put(root, nodes, w) /\ nodes' = Append(nodes, key) /\ rpc' \in {"value", "threw"}
  BY DEF Enter
<1>3. /\ IsPath(nodes') /\ Len(nodes') = Len(nodes) + 1
      /\ \A k \in 1 .. Len(nodes) : nodes'[k] = nodes[k]
  BY <1>1, <1>2, PathAppend
<1>4. Lives(root', nodes) /\ ValueAt(root', nodes) = w
  BY <1>1, <1>2, LivesAlong, PutEnd
<1>5. Lives(root', nodes')
  BY <1>1, <1>2, <1>4, LivesAppend
<1>6. ASSUME NEW q \in lastValue
      PROVE  /\ Collect' /\ IsPath(q) /\ Lives(root', q) /\ Len(q) <= Len(nodes')
             /\ \A k \in 1 .. Len(q) - 1 : nodes'[k] = q[k]
  <2>1. /\ Collect /\ IsPath(q) /\ Lives(root, q) /\ Len(q) <= Len(nodes) + 1
        /\ \A k \in 1 .. Len(q) - 1 : nodes[k] = q[k]
    BY DEF Pointers
  <2>2. Len(q) \in Nat
    BY <2>1, PathFacts
  <2>3. Lives(root', q)
    BY <1>1, <1>2, <2>1, LivesGrown DEF Current, Containers_
  <2>4. \A k \in 1 .. Len(q) - 1 : nodes'[k] = q[k]
    BY <1>1, <1>3, <2>1, <2>2
  <2> QED
    BY <1>1, <1>3, <2>1, <2>3, <2>4 DEF Collect
<1> QED
  BY <1>1, <1>2, <1>3, <1>5, <1>6 DEF Pointers, Inside

\* A comment on the line of the last value changes only that value's comments.
LEMMA CommentPoints ==
  ASSUME Pointers, ReadComment
  PROVE  Pointers'
<1>1. UNCHANGED <<nodes, frames, lastValue>> /\ features' = features
  BY DEF ReadComment, Take
<1>2. /\ rpc' = IF rpc = "comma" THEN "after" ELSE rpc
      /\ (rpc' \in Inside) = (rpc \in Inside) /\ (rpc' = "value") = (rpc = "value")
  BY DEF ReadComment, Inside
<1>3. /\ IsPath(nodes) /\ Lives(root, nodes)
      /\ \A q \in lastValue : IsPath(q) /\ Lives(root, q)
  BY DEF Pointers
<1>4. \/ root' = root
      \/ \E path \in lastValue : \E c : root' = Put(root, path,
           SetComment(ValueAt(root, path), AfterOnSameLine, c))
  BY DEF ReadComment
<1>5. \A q : IsPath(q) /\ Lives(root, q) =>
        Lives(root', q) /\ Type(ValueAt(root', q)) = Type(ValueAt(root, q))
  <2>1. CASE root' = root
    BY <2>1
  <2>2. ASSUME NEW path \in lastValue, NEW c,
               root' = Put(root, path, SetComment(ValueAt(root, path), AfterOnSameLine, c))
        PROVE  \A q : IsPath(q) /\ Lives(root, q) =>
                 Lives(root', q) /\ Type(ValueAt(root', q)) = Type(ValueAt(root, q))
    <3> DEFINE w == SetComment(ValueAt(root, path), AfterOnSameLine, c)
    <3>1. Type(w) = Type(ValueAt(root, path)) /\ Payload(w) = Payload(ValueAt(root, path))
      BY DEF SetComment, Type, Payload
    <3>2. root' = Put(root, path, w) /\ IsPath(path) /\ Lives(root, path)
      BY <1>3, <2>2
    <3> HIDE DEF w
    <3> QED
      BY <3>1, <3>2, LivesSame
  <2> QED
    BY <1>4, <2>1, <2>2
<1>6. Lives(root', nodes') /\ Type(Current') = Type(Current)
  BY <1>1, <1>3, <1>5 DEF Current
<1>7. \A q \in lastValue : Lives(root', q)
  BY <1>3, <1>5
<1>8. Collect' = Collect
  BY <1>1 DEF Collect
<1> QED
  BY <1>1, <1>2, <1>6, <1>7, <1>8 DEF Pointers

\* Where only the result changes, or a comment of the root.
LEMMA EndPoints ==
  ASSUME Pointers, rpc' \in {"failed", "done"}, UNCHANGED <<features, nodes, frames, lastValue>>,
         \A q : IsPath(q) /\ (q = nodes \/ q \in lastValue) /\ Lives(root, q) => Lives(root', q)
  PROVE  Pointers'
<1>1. Collect' = Collect
  BY DEF Collect
<1> QED
  BY <1>1 DEF Pointers, Inside

\* No call of the reader is made: readValue or a caller failed.
LEMMA FailPoints ==
  ASSUME Pointers, Fail, UNCHANGED features,
         \/ root' = root
         \/ rpc = "value" /\ \E w : root' = Put(root, nodes, w)
  PROVE  Pointers'
<1>1. rpc' = "failed" /\ UNCHANGED <<nodes, frames, lastValue>>
  BY DEF Fail
<1>2. CASE root' = root
  BY <1>1, <1>2, EndPoints
<1>3. ASSUME rpc = "value", NEW w, root' = Put(root, nodes, w)
      PROVE  Pointers'
  <2>1. IsPath(nodes) /\ Lives(root, nodes) /\ Len(nodes) \in Nat
    BY PathFacts DEF Pointers
  <2>2. ASSUME NEW q, IsPath(q), Lives(root, q), q = nodes \/ q \in lastValue
        PROVE  Lives(root', q)
    <3>1. Len(q) <= Len(nodes) /\ \A k \in 1 .. Len(q) - 1 : nodes[k] = q[k]
      BY <1>3, <2>1, <2>2 DEF Pointers
    <3>2. Len(q) \in Nat
      BY <2>2, PathFacts
    <3>3. Len(q) # Len(nodes) + 1 /\ Len(q) <= Len(nodes) + 1
      BY <2>1, <3>1, <3>2
    <3> QED
      BY <1>3, <2>1, <2>2, <3>1, <3>3, LivesAlong
  <2> QED
    BY <1>1, <2>2, EndPoints
<1> QED
  BY <1>2, <1>3

\* A name is read, or a separator.
LEMMA NamePoints ==
  ASSUME Pointers, rpc \in Inside, rpc' \in {"colon", "name"},
         UNCHANGED <<features, root, nodes, lastValue>>,
         frames' = frames \/ \E n : frames' = Named_(n)
  PROVE  Pointers'
<1>1. IsPath(frames) /\ Len(frames) = Len(nodes) + 1 /\ Len(nodes) \in Nat
  BY PathFacts DEF Pointers
<1>2. IsPath(frames') /\ Len(frames') = Len(frames)
  <2>1. CASE frames' = frames
    BY <1>1, <2>1
  <2>2. ASSUME NEW n, frames' = Named_(n)
        PROVE  IsPath(frames') /\ Len(frames') = Len(frames)
    <3> DEFINE S == {frames[k] : k \in DOMAIN frames} \cup {<<"object", n>>}
    <3>1. frames \in Seq(S) /\ <<"object", n>> \in S
      BY <1>1 DEF IsPath
    <3> HIDE DEF S
    <3>2. frames' \in Seq(S) /\ Len(frames') = Len(frames)
      BY <1>1, <2>2, <3>1 DEF Named_
    <3> QED
      BY <3>2, Paths
  <2> QED
    BY <2>1, <2>2
<1>3. Collect' = Collect /\ Current' = Current
  BY DEF Collect, Current
<1> QED
  BY <1>1, <1>2, <1>3 DEF Pointers, Inside

LEMMA ElementPoints ==
  ASSUME Pointers, rpc \in {"first", "next"}, Element, UNCHANGED features
  PROVE  Pointers'
<1> DEFINE key == Size(Current)
           w == Resolved(Current, NewArray, key)
<1>1. Type(Current) \in Containers_ /\ rpc \in Inside
  BY DEF Pointers, Inside
<1>2. /\ Type(w) \in Containers_ /\ Holds(w, key)
      /\ DOMAIN Payload(Current) \subseteq DOMAIN Payload(w)
  <2> HIDE DEF key
  <2> QED
    BY <1>1, ResolvedHolds DEF Containers_
<1>3. /\ Enter(Put(root, nodes, w), Append(nodes, key), Len(frames))
      /\ UNCHANGED <<frames, lastValue>>
  BY DEF Element
<1> HIDE DEF key, w
<1> QED
  BY <1>1, <1>2, <1>3, EnterPoints

LEMMA ColonPoints ==
  ASSUME Pointers, ReadColon
  PROVE  Pointers'
<1>1. rpc \in Inside /\ UNCHANGED features
  BY DEF ReadColon, Read, Take, Inside
<1>2. CASE UNCHANGED root /\ Fail
  BY <1>1, <1>2, FailPoints
<1>3. ASSUME Enter(Put(root, nodes, Resolved(Current, NewObject, Name)),
                   Append(nodes, Name), Len(frames)),
             UNCHANGED <<frames, lastValue>>
      PROVE  Pointers'
  <2> DEFINE w == Resolved(Current, NewObject, Name)
  <2>1. Type(Current) \in Containers_
    BY <1>1 DEF Pointers
  <2>2. /\ Type(w) \in Containers_ /\ Holds(w, Name)
        /\ DOMAIN Payload(Current) \subseteq DOMAIN Payload(w)
    BY <2>1, ResolvedHolds DEF Containers_
  <2>3. Enter(Put(root, nodes, w), Append(nodes, Name), Len(frames))
    BY <1>3
  <2> HIDE DEF w
  <2> QED
    BY <1>1, <1>3, <2>2, <2>3, EnterPoints
<1> QED
  BY <1>2, <1>3 DEF ReadColon

LEMMA FinishPoints ==
  ASSUME Pointers, Finish
  PROVE  Pointers'
<1>1. /\ rpc' \in {"failed", "done"}
      /\ UNCHANGED <<features, nodes, frames, lastValue>>
  BY DEF Finish, Read, Take
<1>2. root' = root \/ \E c : root' = SetComment(root, After, c)
  BY DEF Finish
<1>3. ASSUME NEW q, IsPath(q), Lives(root, q)
      PROVE  Lives(root', q)
  <2>1. ASSUME NEW c, root' = SetComment(root, After, c)
        PROVE  Lives(root', q)
    <3> DEFINE w == SetComment(root, After, c)
    <3>1. Type(w) = Type(root) /\ Payload(w) = Payload(root)
      BY DEF SetComment, Type, Payload
    <3>2. Put(root, <<>>, w) = w /\ ValueAt(root, <<>>) = root /\ Lives(root, <<>>)
      BY PutRoot
    <3>3. root' = w
      BY <2>1
    <3> HIDE DEF w
    <3>4. Lives(Put(root, <<>>, w), q)
      BY <1>3, <3>1, <3>2, PathEmpty, LivesSame
    <3> QED
      BY <3>2, <3>3, <3>4
  <2> QED
    BY <1>2, <1>3, <2>1
<1> QED
  BY <1>1, <1>3, EndPoints

LEMMA ParsePoints ==
  ASSUME Pointers, Parse
  PROVE  Pointers'
<1>1. CASE SkipSpaces
  <2>1. UNCHANGED <<features, root, nodes, frames, rpc, lastValue>>
    BY <1>1 DEF SkipSpaces, Take, reader
  <2> QED
    BY <2>1 DEF Pointers, Collect, Current
<1>2. CASE ReadComment
  BY <1>2, CommentPoints
<1>3. CASE ReadScalar \/ ReadDropped
  <2>1. PICK w : Return(w, frames)
    BY <1>3 DEF ReadScalar, ReadDropped
  <2>2. rpc = "value" /\ UNCHANGED features
    BY <1>3 DEF ReadScalar, ReadDropped, Read, Take
  <2> QED
    BY <2>1, <2>2, ReturnPoints
<1>4. CASE ReadObject \/ ReadArray
  <2>1. /\ rpc = "value" /\ rpc' \in {"name", "first"}
        /\ UNCHANGED <<features, nodes, lastValue>>
    BY <1>4 DEF ReadObject, ReadArray, Read, Take
  <2>2. PICK container \in {NewObject, NewArray} : \E frame :
          /\ root' = Put(root, nodes, SwapPayload(Commented, container))
          /\ frames' = Append(frames, frame)
    BY <1>4 DEF ReadObject, ReadArray
  <2> DEFINE w == SwapPayload(Commented, container)
  <2>3. Type(w) \in Containers_
    BY DEF SwapPayload, NewObject, NewArray, New, Type, Containers_
  <2>4. root' = Put(root, nodes, w)
    BY <2>2
  <2> HIDE DEF w
  <2> QED
    BY <2>1, <2>2, <2>3, <2>4, OpenPoints
<1>5. CASE ReadNothing
  <2>1. /\ rpc = "value" /\ root' = Put(root, nodes, Commented) /\ Fail
        /\ UNCHANGED features
    BY <1>5 DEF ReadNothing, Read, Take
  <2> QED
    BY <2>1, FailPoints
<1>6. CASE ReadObjectEnd
  <2>1. rpc \in Inside /\ Return(Current, Front(frames)) /\ UNCHANGED features
    BY <1>6 DEF ReadObjectEnd, Read, Take, Inside
  <2> QED
    BY <2>1, ReturnPoints
<1>7. CASE ReadName
  <2>1. /\ rpc \in Inside /\ rpc' = "colon" /\ \E n : frames' = Named_(n)
        /\ UNCHANGED <<features, root, nodes, lastValue>>
    BY <1>7 DEF ReadName, Read, Take, Inside
  <2> QED
    BY <2>1, NamePoints
<1>8. CASE NoName
  <2>1. root' = root /\ Fail /\ UNCHANGED features
    BY <1>8 DEF NoName, Read, Take
  <2> QED
    BY <2>1, FailPoints
<1>9. CASE ReadColon
  BY <1>9, ColonPoints
<1>10. CASE ReadComma
  <2>1. rpc \in Inside /\ UNCHANGED features
    BY <1>10 DEF ReadComma, Read, Take, Inside
  <2>2. CASE Return(Current, Front(frames))
    BY <2>1, <2>2, ReturnPoints
  <2>3. CASE rpc' = "name" /\ UNCHANGED <<root, nodes, frames, lastValue>>
    BY <2>1, <2>3, NamePoints
  <2>4. CASE root' = root /\ Fail
    BY <2>1, <2>4, FailPoints
  <2> QED
    BY <1>10, <2>2, <2>3, <2>4 DEF ReadComma
<1>11. CASE ReadFirst
  <2>1. rpc \in Inside /\ rpc = "first" /\ UNCHANGED features
    BY <1>11 DEF ReadFirst, Read, Take, Inside
  <2>2. CASE Return(Current, Front(frames))
    BY <2>1, <2>2, ReturnPoints
  <2>3. CASE Element
    BY <2>1, <2>3, ElementPoints
  <2> QED
    BY <1>11, <2>2, <2>3 DEF ReadFirst
<1>12. CASE ReadNext
  <2>1. rpc \in Inside /\ rpc = "next" /\ UNCHANGED features
    BY <1>12 DEF ReadNext, Read, Take, Inside
  <2>2. CASE Return(Current, Front(frames))
    BY <2>1, <2>2, ReturnPoints
  <2>3. CASE Element
    BY <2>1, <2>3, ElementPoints
  <2>4. CASE root' = root /\ Fail
    BY <2>1, <2>4, FailPoints
  <2> QED
    BY <1>12, <2>2, <2>3, <2>4 DEF ReadNext
<1>13. CASE Finish
  BY <1>13, FinishPoints
<1> QED
  BY <1>1, <1>2, <1>3, <1>4, <1>5, <1>6, <1>7, <1>8, <1>9, <1>10, <1>11, <1>12,
     <1>13 DEF Parse

LEMMA PointersStay == ReaderSpec => []Pointers
<1>1. features \in FeatureFlags /\ Start(text, open) => Pointers
  BY StartPoints
<1>2. Pointers /\ [Parse \/ (Restart(text') /\ UNCHANGED features)]_<<input, reader>>
        => Pointers'
  <2> SUFFICES ASSUME Pointers,
                      [Parse \/ (Restart(text') /\ UNCHANGED features)]_<<input, reader>>
               PROVE  Pointers'
    OBVIOUS
  <2>1. CASE UNCHANGED <<input, reader>>
    <3>1. UNCHANGED <<features, root, nodes, frames, rpc, lastValue>>
      BY <2>1 DEF input, reader
    <3> QED
      BY <3>1 DEF Pointers, Collect, Current
  <2> QED
    BY <2>1, ParsePoints, RestartPoints
<1> QED
  BY <1>1, <1>2, PTL DEF ReaderSpec

\* Whatever the text, the features and the size of the stack, and however often
\* parse() is called, the pointers on the reader's stack and the one to the
\* last value are the paths of values that the root still holds.
THEOREM PointersNeverDangle == ReaderSpec => []PointersLive
<1>1. Pointers => PointersLive
  BY DEF Pointers, PointersLive
<1> QED
  BY <1>1, PointersStay, PTL

-----------------------------------------------------------------------------
(* The reader's stack.                                                     *)

\* How deep the calls of readValue are: one for each caller, and the one that is
\* about to read a value.  The last of them is not entered, it throws.
Depths ==
  /\ Len(frames) <= StackLimit
  /\ rpc = "value" => Len(frames) < StackLimit
  /\ rpc = "threw" => Len(frames) = StackLimit

\* readValue returns, to a caller or to parse().
LEMMA ReturnDepth ==
  ASSUME Pointers, Depths, NEW w, NEW callers, Return(w, callers),
         \/ rpc = "value" /\ callers = frames
         \/ rpc \in Inside /\ callers = Front(frames)
  PROVE  Depths'
<1>1. /\ IsPath(frames) /\ Len(frames) \in Nat /\ Len(nodes) \in Nat
      /\ rpc \in Inside => Len(frames) = Len(nodes) + 1
  BY PathFacts DEF Pointers
<1>2. frames' = callers /\ rpc' \in {"end", "comma", "next"}
  BY Zenon DEF Return
<1>3. Len(callers) \in Nat /\ Len(callers) <= Len(frames)
  <2>1. CASE callers = frames
    BY <1>1, <2>1
  <2>2. CASE rpc \in Inside /\ callers = Front(frames)
    <3>1. callers = SubSeq(frames, 1, Len(nodes)) /\ Len(nodes) \in 0 .. Len(frames)
      BY <1>1, <2>2 DEF Front
    <3> QED
      BY <1>1, <3>1, PathPrefix
  <2> QED
    BY <2>1, <2>2
<1> QED
  BY <1>1, <1>2, <1>3, JsonReaderAssumption DEF Depths

\* readObject and readArray call readValue, which throws if it is one too many.
LEMMA EnterDepth ==
  ASSUME Pointers, Depths, NEW w, NEW path, Enter(w, path, Len(frames)), UNCHANGED frames
  PROVE  Depths'
<1>1. Len(frames) \in Nat
  BY PathFacts DEF Pointers
<1>2. rpc' = IF Len(frames) >= StackLimit THEN "threw" ELSE "value"
  BY DEF Enter
<1> QED
  BY <1>1, <1>2, JsonReaderAssumption DEF Depths

LEMMA SameDepth ==
  ASSUME Depths, Len(frames') = Len(frames), rpc' \notin {"value", "threw"}
  PROVE  Depths'
BY DEF Depths

LEMMA ParseDepth ==
  ASSUME Pointers, Depths, Parse
  PROVE  Depths'
<1>1. CASE SkipSpaces
  BY <1>1 DEF SkipSpaces, reader, Depths
<1>2. CASE ReadComment
  <2>1. frames' = frames /\ rpc' = IF rpc = "comma" THEN "after" ELSE rpc
    BY <1>2 DEF ReadComment
  <2> QED
    BY <2>1 DEF Depths
<1>3. CASE ReadScalar \/ ReadDropped
  <2>1. PICK w : Return(w, frames)
    BY <1>3 DEF ReadScalar, ReadDropped
  <2>2. rpc = "value"
    BY <1>3 DEF ReadScalar, ReadDropped
  <2> QED
    BY <2>1, <2>2, ReturnDepth
<1>4. CASE ReadObject \/ ReadArray
  <2>1. PICK frame : frames' = Append(frames, frame)
    BY <1>4 DEF ReadObject, ReadArray
  <2>2. rpc = "value" /\ rpc' \in {"name", "first"}
    BY <1>4 DEF ReadObject, ReadArray
  <2>3. Len(frames) \in Nat /\ Len(frames') = Len(frames) + 1
    BY <2>1, PathFacts, PathAppend DEF Pointers
  <2> QED
    BY <2>2, <2>3, JsonReaderAssumption DEF Depths
<1>5. CASE ReadNothing \/ NoName \/ Finish
  <2>1. frames' = frames /\ rpc' \in {"failed", "done"}
    BY <1>5 DEF ReadNothing, NoName, Finish, Fail
  <2> QED
    BY <2>1, SameDepth
<1>6. CASE ReadObjectEnd
  <2>1. rpc \in Inside /\ Return(Current, Front(frames))
    BY <1>6 DEF ReadObjectEnd, Inside
  <2> QED
    BY <2>1, ReturnDepth
<1>7. CASE ReadName
  <2>1. PICK n : frames' = Named_(n)
    BY <1>7 DEF ReadName
  <2>2. rpc' = "colon" /\ IsPath(frames)
    BY <1>7 DEF ReadName, Pointers
  <2>3. Len(frames') = Len(frames)
    <3>1. frames \in Seq({frames[k] : k \in DOMAIN frames})
      BY <2>2 DEF IsPath
    <3> QED
      BY <2>1, <3>1 DEF Named_
  <2> QED
    BY <2>2, <2>3, SameDepth
<1>8. CASE ReadColon
  <2>1. CASE Fail
    BY <2>1, SameDepth DEF Fail
  <2>2. CASE /\ UNCHANGED frames
             /\ \E w, path : Enter(w, path, Len(frames))
    BY <2>2, EnterDepth
  <2> QED
    BY <1>8, <2>1, <2>2 DEF ReadColon
<1>9. CASE ReadComma
  <2>1. rpc \in Inside
    BY <1>9 DEF ReadComma, Inside
  <2>2. CASE Return(Current, Front(frames))
    BY <2>1, <2>2, ReturnDepth
  <2>3. CASE rpc' = "name" /\ UNCHANGED frames
    BY <2>3, SameDepth
  <2>4. CASE Fail
    BY <2>4, SameDepth DEF Fail
  <2> QED
    BY <1>9, <2>2, <2>3, <2>4 DEF ReadComma
<1>10. CASE ReadFirst \/ ReadNext
  <2>1. rpc \in Inside
    BY <1>10 DEF ReadFirst, ReadNext, Inside
  <2>2. CASE Return(Current, Front(frames))
    BY <2>1, <2>2, ReturnDepth
  <2>3. CASE Element
    BY <2>3, EnterDepth DEF Element
  <2>4. CASE Fail
    BY <2>4, SameDepth DEF Fail
  <2> QED
    BY <1>10, <2>2, <2>3, <2>4 DEF ReadFirst, ReadNext
<1> QED
  BY <1>1, <1>2, <1>3, <1>4, <1>5, <1>6, <1>7, <1>8, <1>9, <1>10 DEF Parse

\* However deep a document is nested, no more than StackLimit calls of readValue
\* are on the stack, the one that is about to read a value included; the reader
\* throws only when there are as many, never earlier.
THEOREM StackBounded ==
  ReaderSpec => [](/\ Len(frames) <= StackLimit
                   /\ rpc = "value" => Len(frames) < StackLimit
                   /\ rpc = "threw" => Len(frames) = StackLimit)
<1> DEFINE Next == Parse \/ (Restart(text') /\ UNCHANGED features)
           vars == <<input, reader>>
<1>1. features \in FeatureFlags /\ Start(text, open) => Depths
  <2>1. Start(text, open) => Len(frames) = 0 /\ rpc = "value"
    BY DEF Start
  <2> QED
    BY <2>1, JsonReaderAssumption DEF Depths
<1>2. Pointers /\ Depths /\ [Next]_vars => Depths'
  <2>1. CASE UNCHANGED <<input, reader>>
    BY <2>1 DEF reader, Depths
  <2>2. CASE Restart(text')
    <3>1. Len(frames') = 0 /\ rpc' = "value"
      BY <2>2 DEF Restart
    <3> QED
      BY <3>1, JsonReaderAssumption DEF Depths
  <2> QED
    BY <2>1, <2>2, ParseDepth
<1> QED
  BY <1>1, <1>2, PointersStay, PTL DEF ReaderSpec, Depths

-----------------------------------------------------------------------------
(* Digits.                                                                 *)

LEMMA Limits ==
  /\ MaxInt \in Nat /\ MaxLargestInt \in Nat /\ 9 <= MaxLargestInt /\ MaxInt < MaxLargestInt
  /\ MinLargestInt = -MaxLargestInt - 1 /\ MaxLargestUInt = 2 * MaxLargestInt + 1
  /\ -MinLargestInt \in Nat /\ 10 <= -MinLargestInt /\ 10 <= MaxLargestUInt
  /\ MaxLargestUInt \in Nat
BY JsonTextAssumption DEF MinLargestInt, MaxLargestUInt

LEMMA DigitOfDigits ==
  ASSUME NEW d \in 0 .. 9
  PROVE  IsDigit(Digits[d+1]) /\ Digit(Digits[d+1]) = d /\ Digits[d+1] # "-"
<1>1. DOMAIN Digits = 1 .. 10
  BY DEF Digits
<1>2. \A i, j \in 1 .. 10 : Digits[i] = Digits[j] => i = j
  BY DEF Digits
<1>3. d + 1 \in DOMAIN Digits
  BY <1>1
<1> DEFINE c == Digits[d+1]
           i == CHOOSE j \in DOMAIN Digits : Digits[j] = c
<1>4. i = d + 1
  BY <1>1, <1>2, <1>3
<1>5. c # "-"
  BY DEF Digits
<1>6. IsDigit(c)
  BY <1>3 DEF IsDigit
<1>7. Digit(c) = i - 1
  BY DEF Digit
<1> HIDE DEF c, i
<1>8. Digit(c) = d
  BY <1>4, <1>7
<1> QED
  BY <1>5, <1>6, <1>8 DEF c

LEMMA DigitType ==
  ASSUME NEW c, IsDigit(c)
  PROVE  Digit(c) \in 0 .. 9
<1>1. DOMAIN Digits = 1 .. 10
  BY DEF Digits
<1> DEFINE i == CHOOSE d \in DOMAIN Digits : Digits[d] = c
<1>2. i \in DOMAIN Digits
  BY DEF IsDigit
<1>3. Digit(c) = i - 1
  BY DEF Digit
<1> HIDE DEF i
<1> QED
  BY <1>1, <1>2, <1>3

\* What a sequence of digits is worth: each place ten times the next.
Worths(ds) ==
  CHOOSE worth : worth = [k \in 0 .. Len(ds) |->
                            IF k = 0 THEN 0 ELSE 10 * worth[k-1] + Digit(ds[k])]
Worth(ds) == Worths(ds)[Len(ds)]

AllDigits(ds) == IsPath(ds) /\ \A k \in 1 .. Len(ds) : IsDigit(ds[k])

LEMMA WorthsIs ==
  ASSUME NEW ds, IsPath(ds)
  PROVE  Worths(ds) = [k \in 0 .. Len(ds) |->
                         IF k = 0 THEN 0 ELSE 10 * Worths(ds)[k-1] + Digit(ds[k])]
<1> DEFINE Next_(k, x) == 10 * x + Digit(ds[k])
           Is(worth, n) ==
             worth = [k \in 0 .. n |-> IF k = 0 THEN 0 ELSE Next_(k, worth[k-1])]
           S == {n \in Nat : \E worth : Is(worth, n)}
<1> HIDE DEF Next_
<1>1. 0 \in S
  <2>1. Is([k \in 0 .. 0 |-> 0], 0)
    OBVIOUS
  <2> QED
    BY <2>1
<1>2. ASSUME NEW n \in Nat, n \in S
      PROVE  n + 1 \in S
  <2>1. PICK worth : Is(worth, n)
    BY <1>2
  <2> DEFINE next == [k \in 0 .. n + 1 |->
                        IF k <= n THEN worth[k] ELSE Next_(n + 1, worth[n])]
  <2>2. \A k \in 0 .. n + 1 : next[k] = IF k = 0 THEN 0 ELSE Next_(k, next[k-1])
    <3> SUFFICES ASSUME NEW k \in 0 .. n + 1
                 PROVE  next[k] = IF k = 0 THEN 0 ELSE Next_(k, next[k-1])
      OBVIOUS
    <3>1. CASE k <= n
      <4>1. next[k] = worth[k] /\ (k # 0 => next[k-1] = worth[k-1])
        BY <3>1
      <4> QED
        BY <2>1, <3>1, <4>1
    <3>2. CASE k = n + 1
      BY <3>2
    <3> QED
      BY <3>1, <3>2
  <2>3. next = [k \in 0 .. n + 1 |-> next[k]]
    OBVIOUS
  <2> HIDE DEF next
  <2>4. Is(next, n + 1)
    BY <2>2, <2>3
  <2> HIDE DEF Is
  <2> QED
    BY <2>4
<1> HIDE DEF Is
<1>3. Nat \subseteq S
  <2> HIDE DEF S
  <2> QED
    BY <1>1, <1>2, Induct
<1>4. \E worth : Is(worth, Len(ds))
  BY <1>3, PathFacts
<1> QED
  BY <1>4, Zenon DEF Worths, Is, Next_

\* The same, place by place.
LEMMA WorthsNext ==
  ASSUME NEW ds, AllDigits(ds)
  PROVE  /\ Worths(ds)[0] = 0
         /\ \A k \in 1 .. Len(ds) : Worths(ds)[k] = 10 * Worths(ds)[k-1] + Digit(ds[k])
         /\ \A k \in 0 .. Len(ds) : Worths(ds)[k] \in Nat
<1> DEFINE f == Worths(ds)
           S == {k \in Nat : k <= Len(ds) => f[k] \in Nat}
           Next_(k) == 10 * f[k-1] + Digit(ds[k])
<1>1. f = [k \in 0 .. Len(ds) |-> IF k = 0 THEN 0 ELSE Next_(k)]
  BY WorthsIs DEF AllDigits
<1>2. Len(ds) \in Nat
  BY PathFacts DEF AllDigits
<1> HIDE DEF f, Next_
<1>3. f[0] = 0 /\ \A k \in 1 .. Len(ds) : f[k] = Next_(k)
  BY <1>1, <1>2
<1>4. 0 \in S
  BY <1>3
<1>5. ASSUME NEW k \in Nat, k \in S
      PROVE  k + 1 \in S
  <2> SUFFICES ASSUME k + 1 <= Len(ds) PROVE f[k+1] \in Nat
    OBVIOUS
  <2>1. k + 1 \in 1 .. Len(ds) /\ f[k] \in Nat /\ (k + 1) - 1 = k
    BY <1>2, <1>5
  <2>2. f[k+1] = 10 * f[k] + Digit(ds[k+1])
    BY <1>3, <2>1 DEF Next_
  <2>3. Digit(ds[k+1]) \in 0 .. 9
    BY <2>1, DigitType DEF AllDigits
  <2> QED
    BY <2>1, <2>2, <2>3
<1>6. Nat \subseteq S
  <2> HIDE DEF S
  <2> QED
    BY <1>4, <1>5, Induct
<1>7. \A k \in 0 .. Len(ds) : f[k] \in Nat
  BY <1>2, <1>6
<1> QED
  BY <1>3, <1>7 DEF f, Next_

-----------------------------------------------------------------------------
(* decodeNumber.                                                           *)

\* What Integer computes for the digits ds, one after the other.
Decoded(ds, limit) ==
  CHOOSE value : value =
    [k \in 0 .. Len(ds) |->
       IF k = 0 THEN 0
       ELSE IF \/ value[k-1] = Double \/ ~IsDigit(ds[k])
               \/ Overflows(value[k-1], k = Len(ds), Digit(ds[k]), limit)
         THEN Double
         ELSE 10 * value[k-1] + Digit(ds[k])]

\* The value after the k-th digit, which comes after the value x.
OneMore(ds, limit, k, x) ==
  IF x = Double \/ ~IsDigit(ds[k]) \/ Overflows(x, k = Len(ds), Digit(ds[k]), limit)
    THEN Double ELSE 10 * x + Digit(ds[k])

LEMMA DecodedIs ==
  ASSUME NEW ds, IsPath(ds), NEW limit
  PROVE  /\ Decoded(ds, limit)[0] = 0
         /\ \A k \in 1 .. Len(ds) :
              Decoded(ds, limit)[k] = OneMore(ds, limit, k, Decoded(ds, limit)[k-1])
<1> DEFINE Next_(k, x) == OneMore(ds, limit, k, x)
           Is(value, n) ==
             value = [k \in 0 .. n |-> IF k = 0 THEN 0 ELSE Next_(k, value[k-1])]
           S == {n \in Nat : \E value : Is(value, n)}
<1> HIDE DEF Next_
<1>1. 0 \in S
  <2>1. Is([k \in 0 .. 0 |-> 0], 0)
    OBVIOUS
  <2> QED
    BY <2>1
<1>2. ASSUME NEW n \in Nat, n \in S
      PROVE  n + 1 \in S
  <2>1. PICK value : Is(value, n)
    BY <1>2
  <2> DEFINE next == [k \in 0 .. n + 1 |->
                        IF k <= n THEN value[k] ELSE Next_(n + 1, value[n])]
  <2>2. \A k \in 0 .. n + 1 : next[k] = IF k = 0 THEN 0 ELSE Next_(k, next[k-1])
    <3> SUFFICES ASSUME NEW k \in 0 .. n + 1
                 PROVE  next[k] = IF k = 0 THEN 0 ELSE Next_(k, next[k-1])
      OBVIOUS
    <3>1. CASE k <= n
      <4>1. next[k] = value[k] /\ (k # 0 => next[k-1] = value[k-1])
        BY <3>1
      <4> QED
        BY <2>1, <3>1, <4>1
    <3>2. CASE k = n + 1
      BY <3>2
    <3> QED
      BY <3>1, <3>2
  <2>3. next = [k \in 0 .. n + 1 |-> next[k]]
    OBVIOUS
  <2> HIDE DEF next
  <2>4. Is(next, n + 1)
    BY <2>2, <2>3
  <2> HIDE DEF Is
  <2> QED
    BY <2>4
<1> HIDE DEF Is
<1>3. Nat \subseteq S
  <2> HIDE DEF S
  <2> QED
    BY <1>1, <1>2, Induct
<1>4. Len(ds) \in Nat /\ \E value : Is(value, Len(ds))
  BY <1>3, PathFacts
<1> DEFINE f == Decoded(ds, limit)
<1>5. Is(f, Len(ds))
  BY <1>4, Zenon DEF Decoded, Is, Next_, OneMore
<1> HIDE DEF f
<1>6. f[0] = 0 /\ \A k \in 1 .. Len(ds) : f[k] = Next_(k, f[k-1])
  BY <1>4, <1>5 DEF Is
<1> QED
  BY <1>6, Zenon DEF f, Next_

\* One more digit goes on or gives up, and gives up only on what will not fit:
\* the number is too large after the last digit, ten times it is before.
LEMMA OverflowsExact ==
  ASSUME NEW limit \in Nat, 10 <= limit, NEW v \in Nat, NEW d \in 0 .. 9,
         NEW last \in BOOLEAN
  PROVE  /\ ~Overflows(v, last, d, limit) => 10 * v + d <= limit
         /\ Overflows(v, last, d, limit) =>
              IF last THEN 10 * v + d > limit ELSE 10 * (10 * v + d) > limit
<1> DEFINE tenth == limit \div 10
           unit == limit % 10
<1>1. tenth \in Nat /\ unit \in 0 .. 9 /\ limit = 10 * tenth + unit /\ 1 <= tenth
  BY SMT
<1>2. Overflows(v, last, d, limit) <=> v >= tenth /\ (v > tenth \/ ~last \/ d > unit)
  BY DEF Overflows
<1> HIDE DEF tenth, unit
<1> QED
  BY <1>1, <1>2

LEMMA DecodedExact ==
  ASSUME NEW ds, AllDigits(ds), NEW limit \in Nat, 10 <= limit
  PROVE  Decoded(ds, limit)[Len(ds)] =
           IF Worth(ds) <= limit THEN Worth(ds) ELSE Double
<1> DEFINE f == Decoded(ds, limit)
           w == Worths(ds)
           n == Len(ds)
           \* the value is exact, or lost because the number will not fit
           Exact(k) == f[k] = w[k] /\ w[k] <= limit
           Lost(k) == f[k] = Double /\ IF k = n THEN w[k] > limit ELSE 10 * w[k] > limit
           S == {k \in Nat : k <= n => Exact(k) \/ Lost(k)}
<1>1. n \in Nat /\ IsPath(ds)
  BY PathFacts DEF AllDigits
<1>2. /\ w[0] = 0 /\ \A k \in 0 .. n : w[k] \in Nat
      /\ \A k \in 1 .. n : w[k] = 10 * w[k-1] + Digit(ds[k])
  BY WorthsNext
<1>3. f[0] = 0 /\ \A k \in 1 .. n : f[k] = OneMore(ds, limit, k, f[k-1])
  BY <1>1, DecodedIs
<1> HIDE DEF f, w
<1>4. 0 \in S
  BY <1>2, <1>3
<1>5. ASSUME NEW k \in Nat, k \in S
      PROVE  k + 1 \in S
  <2> SUFFICES ASSUME k + 1 <= n PROVE Exact(k + 1) \/ Lost(k + 1)
    OBVIOUS
  <2> DEFINE d == Digit(ds[k+1])
             last == k + 1 = n
  <2>1. k + 1 \in 1 .. n /\ k \in 0 .. n /\ k # n /\ (k + 1) - 1 = k
    BY <1>1
  <2>2. IsDigit(ds[k+1]) /\ d \in 0 .. 9
    BY <1>1, <2>1, DigitType DEF AllDigits
  <2>3. w[k] \in Nat /\ w[k+1] = 10 * w[k] + d /\ w[k+1] \in Nat
    BY <1>2, <2>1
  <2>4. f[k+1] = IF f[k] = Double \/ Overflows(f[k], last, d, limit)
                   THEN Double ELSE 10 * f[k] + d
    BY <1>3, <2>1, <2>2 DEF OneMore
  <2>5. Exact(k) \/ Lost(k)
    BY <1>5, <2>1
  <2> HIDE DEF d, last
  <2>6. CASE Lost(k)
    <3>1. f[k+1] = Double /\ 10 * w[k] > limit
      BY <2>1, <2>4, <2>6
    <3>2. w[k+1] > limit /\ 10 * w[k+1] > limit
      BY <2>2, <2>3, <3>1
    <3> QED
      BY <3>1, <3>2
  <2>7. CASE Exact(k)
    <3>1. f[k] = w[k] /\ f[k] # Double
      BY <2>3, <2>7 DEF Double
    <3>2. last \in BOOLEAN
      BY DEF last
    <3>3. CASE Overflows(w[k], last, d, limit)
      <4>1. f[k+1] = Double
        BY <2>4, <3>1, <3>3
      <4>2. IF last THEN w[k+1] > limit ELSE 10 * w[k+1] > limit
        BY <2>2, <2>3, <3>2, <3>3, OverflowsExact
      <4> QED
        BY <4>1, <4>2 DEF last
    <3>4. CASE ~Overflows(w[k], last, d, limit)
      <4>1. f[k+1] = w[k+1]
        BY <2>3, <2>4, <3>1, <3>4
      <4>2. w[k+1] <= limit
        BY <2>2, <2>3, <3>2, <3>4, OverflowsExact
      <4> QED
        BY <4>1, <4>2
    <3> QED
      BY <3>3, <3>4
  <2> QED
    BY <2>5, <2>6, <2>7
<1>6. Nat \subseteq S
  <2> HIDE DEF S
  <2> QED
    BY <1>4, <1>5, Induct
<1>7. Exact(n) \/ Lost(n)
  BY <1>1, <1>6
<1>8. w[n] \in Nat
  BY <1>1, <1>2
<1> QED
  BY <1>7, <1>8 DEF f, w, Worth

LEMMA DecodedDouble ==
  ASSUME NEW ds, IsPath(ds), NEW limit, NEW j \in 1 .. Len(ds), ~IsDigit(ds[j])
  PROVE  Decoded(ds, limit)[Len(ds)] = Double
<1> DEFINE f == Decoded(ds, limit)
           n == Len(ds)
           S == {k \in Nat : j <= k /\ k <= n => f[k] = Double}
<1>1. n \in Nat
  BY PathFacts
<1>2. f[0] = 0 /\ \A k \in 1 .. n : f[k] = OneMore(ds, limit, k, f[k-1])
  BY DecodedIs
<1> HIDE DEF f
<1>3. 0 \in S
  BY <1>1
<1>4. ASSUME NEW k \in Nat, k \in S
      PROVE  k + 1 \in S
  <2> SUFFICES ASSUME j <= k + 1, k + 1 <= n PROVE f[k+1] = Double
    OBVIOUS
  <2>1. k + 1 \in 1 .. n /\ (k + 1) - 1 = k /\ (j = k + 1 \/ (j <= k /\ k <= n))
    BY <1>1
  <2>2. ~IsDigit(ds[k+1]) \/ f[k] = Double
    BY <1>4, <2>1
  <2>3. f[k+1] = OneMore(ds, limit, k + 1, f[k])
    BY <1>2, <2>1
  <2> QED
    BY <2>2, <2>3 DEF OneMore
<1>5. Nat \subseteq S
  <2> HIDE DEF S
  <2> QED
    BY <1>3, <1>4, Induct
<1>6. f[n] = Double
  BY <1>1, <1>5
<1> QED
  BY <1>6 DEF f

LEMMA UnsignedIsPath ==
  ASSUME NEW s, IsPath(s)
  PROVE  IsPath(Unsigned(s))
<1>1. CASE Signed(s)
  <2> DEFINE S == {s[k] : k \in DOMAIN s}
  <2>1. s \in Seq(S) /\ s # <<>>
    BY <1>1 DEF IsPath, Signed
  <2> HIDE DEF S
  <2>2. Tail(s) \in Seq(S)
    BY <2>1
  <2>3. IsPath(Tail(s))
    BY <2>2, Paths
  <2> QED
    BY <1>1, <2>3 DEF Unsigned
<1>2. CASE ~Signed(s)
  BY <1>2 DEF Unsigned
<1> QED
  BY <1>1, <1>2

LimitOf(s) == IF Signed(s) THEN -MinLargestInt ELSE MaxLargestUInt

\* Whatever the widths of the integers, decodeNumber takes a sequence of digits
\* for what it is worth in tens if that fits, and for a double if not: no number
\* wraps around, and none that fits is lost, whatever its length and however
\* many zeros it begins with.
THEOREM IntegersExact ==
  ASSUME NEW s, IsPath(s)
  PROVE  Integer(s) =
           IF AllDigits(Unsigned(s)) /\ Worth(Unsigned(s)) <= LimitOf(s)
             THEN Worth(Unsigned(s)) ELSE Double
<1> DEFINE ds == Unsigned(s)
           limit == LimitOf(s)
<1>1. Integer(s) = Decoded(ds, limit)[Len(ds)]
  BY Zenon DEF Integer, Decoded, LimitOf
<1>2. limit \in Nat /\ 10 <= limit
  BY Limits DEF LimitOf
<1>3. IsPath(ds)
  BY UnsignedIsPath
<1> HIDE DEF ds, limit
<1>4. CASE AllDigits(ds)
  BY <1>1, <1>2, <1>4, DecodedExact DEF ds, limit
<1>5. CASE ~AllDigits(ds)
  <2>1. PICK j \in 1 .. Len(ds) : ~IsDigit(ds[j])
    BY <1>3, <1>5 DEF AllDigits
  <2>2. Integer(s) = Double
    BY <1>1, <1>3, <2>1, DecodedDouble
  <2> QED
    BY <1>5, <2>2 DEF ds
<1> QED
  BY <1>4, <1>5

-----------------------------------------------------------------------------
(* uintToString.                                                           *)

LEMMA Tenth ==
  ASSUME NEW n \in Nat
  PROVE  /\ n \div 10 \in Nat /\ n \div 10 <= n /\ n % 10 \in 0 .. 9
         /\ n = 10 * (n \div 10) + (n % 10)
         /\ n > 0 => n \div 10 <= n - 1
BY SMT

LEMMA UIntToStringIs ==
  \A n \in Nat : UIntToString[n] =
    IF n < 10 THEN <<Digits[n + 1]>>
    ELSE Append(UIntToString[n \div 10], Digits[(n % 10) + 1])
<1> DEFINE Next_(n, x) == IF n < 10 THEN <<Digits[n + 1]>>
                          ELSE Append(x, Digits[(n % 10) + 1])
           Is(f, n) == f = [k \in 0 .. n |-> Next_(k, f[k \div 10])]
           S == {n \in Nat : \E f : Is(f, n)}
<1>1. \A x, y : Next_(0, x) = Next_(0, y)
  OBVIOUS
<1> HIDE DEF Next_
<1>2. 0 \in S
  <2> DEFINE f == [k \in 0 .. 0 |-> Next_(0, 0)]
  <2>1. \A k \in 0 .. 0 : f[k] = Next_(k, f[k \div 10])
    BY <1>1
  <2>2. f = [k \in 0 .. 0 |-> f[k]]
    OBVIOUS
  <2> HIDE DEF f
  <2>3. Is(f, 0)
    BY <2>1, <2>2
  <2> HIDE DEF Is
  <2> QED
    BY <2>3
<1>3. ASSUME NEW n \in Nat, n \in S
      PROVE  n + 1 \in S
  <2>1. PICK f : Is(f, n)
    BY <1>3
  <2> DEFINE next == [k \in 0 .. n + 1 |->
                        IF k <= n THEN f[k] ELSE Next_(n + 1, f[(n + 1) \div 10])]
  <2>2. \A k \in 0 .. n + 1 : next[k] = Next_(k, next[k \div 10])
    <3> SUFFICES ASSUME NEW k \in 0 .. n + 1
                 PROVE  next[k] = Next_(k, next[k \div 10])
      OBVIOUS
    <3>1. k \div 10 \in 0 .. n
      BY Tenth
    <3>2. next[k \div 10] = f[k \div 10]
      BY <3>1
    <3>3. CASE k <= n
      <4>1. next[k] = f[k] /\ f[k] = Next_(k, f[k \div 10])
        BY <2>1, <3>3
      <4> QED
        BY <3>2, <4>1
    <3>4. CASE k = n + 1
      <4>1. next[k] = Next_(k, f[k \div 10])
        BY <3>4
      <4> QED
        BY <3>2, <4>1
    <3> QED
      BY <3>3, <3>4
  <2>3. next = [k \in 0 .. n + 1 |-> next[k]]
    OBVIOUS
  <2> HIDE DEF next
  <2>4. Is(next, n + 1)
    BY <2>2, <2>3
  <2> HIDE DEF Is
  <2> QED
    BY <2>4
<1>4. Nat \subseteq S
  <2> HIDE DEF S
  <2> QED
    BY <1>2, <1>3, Induct
\* Any two of these functions agree.
<1>5. ASSUME NEW m \in Nat, NEW n \in Nat, NEW f, NEW g, Is(f, m), Is(g, n)
      PROVE  \A k \in Nat : k <= m /\ k <= n => f[k] = g[k]
  <2> DEFINE T == {k \in Nat : \A j \in 0 .. k : j <= m /\ j <= n => f[j] = g[j]}
  <2>1. \A k \in Nat : /\ k <= m => f[k] = Next_(k, f[k \div 10])
                       /\ k <= n => g[k] = Next_(k, g[k \div 10])
    BY <1>5
  <2>2. 0 \in T
    <3>1. f[0] = g[0]
      BY <1>1, <2>1
    <3> QED
      BY <3>1
  <2>3. ASSUME NEW k \in Nat, k \in T
        PROVE  k + 1 \in T
    <3> SUFFICES ASSUME k + 1 <= m, k + 1 <= n PROVE f[k+1] = g[k+1]
      BY <2>3
    <3>1. (k + 1) \div 10 \in 0 .. k
      BY Tenth
    <3>2. (k + 1) \div 10 <= m /\ (k + 1) \div 10 <= n
      BY <3>1
    <3>3. f[(k+1) \div 10] = g[(k+1) \div 10]
      BY <2>3, <3>1, <3>2
    <3> QED
      BY <2>1, <3>3
  <2>4. Nat \subseteq T
    <3> HIDE DEF T
    <3> QED
      BY <2>2, <2>3, Induct
  <2> QED
    BY <2>4
<1> DEFINE pick(n) == CHOOSE f : Is(f, n)
           all == [n \in Nat |-> pick(n)[n]]
<1> HIDE DEF Is
<1>6. \A n \in Nat : Is(pick(n), n)
  BY <1>4
<1>7. \A n \in Nat : all[n] = Next_(n, all[n \div 10])
  <2> SUFFICES ASSUME NEW n \in Nat PROVE all[n] = Next_(n, all[n \div 10])
    OBVIOUS
  <2>1. n \div 10 \in Nat /\ n \div 10 <= n
    BY Tenth
  <2>2. Is(pick(n), n) /\ Is(pick(n \div 10), n \div 10)
    BY <1>6, <2>1
  <2>3. all[n] = pick(n)[n] /\ all[n \div 10] = pick(n \div 10)[n \div 10]
    BY <2>1
  <2> HIDE DEF pick, all
  <2>4. pick(n)[n] = Next_(n, pick(n)[n \div 10])
    BY <2>2 DEF Is
  <2>5. pick(n)[n \div 10] = pick(n \div 10)[n \div 10]
    BY <1>5, <2>1, <2>2
  <2> QED
    BY <2>3, <2>4, <2>5
<1>8. all = [n \in Nat |-> all[n]]
  OBVIOUS
<1> HIDE DEF all
<1>9. all = [n \in Nat |-> Next_(n, all[n \div 10])]
  BY <1>7, <1>8
<1> DEFINE U == UIntToString
<1>10. U = [n \in Nat |-> Next_(n, U[n \div 10])]
  <2>1. \E f : f = [n \in Nat |-> Next_(n, f[n \div 10])]
    BY <1>9
  <2> QED
    BY <2>1, Zenon DEF UIntToString, Next_
<1> HIDE DEF U
<1>11. \A n \in Nat : U[n] = Next_(n, U[n \div 10])
  BY <1>10
<1> QED
  BY <1>11, Zenon DEF U, Next_

-----------------------------------------------------------------------------
(* What is printed is read again.                                          *)

LEMMA WorthAppend ==
  ASSUME NEW ds, AllDigits(ds), NEW c, IsDigit(c)
  PROVE  /\ AllDigits(Append(ds, c))
         /\ Worth(Append(ds, c)) = 10 * Worth(ds) + Digit(c)
<1> DEFINE es == Append(ds, c)
           n == Len(ds)
           w == Worths(ds)
           x == Worths(es)
           S == {k \in Nat : k <= n => x[k] = w[k]}
<1>1. /\ IsPath(ds) /\ IsPath(es) /\ n \in Nat /\ Len(es) = n + 1
      /\ \A k \in 1 .. n : es[k] = ds[k]
      /\ es[n+1] = c
  BY PathAppend, PathFacts DEF AllDigits
<1> HIDE DEF es
<1>2. AllDigits(es)
  BY <1>1 DEF AllDigits
<1>3. w[0] = 0 /\ \A k \in 1 .. n : w[k] = 10 * w[k-1] + Digit(ds[k])
  BY WorthsNext
<1>4. x[0] = 0 /\ \A k \in 1 .. n + 1 : x[k] = 10 * x[k-1] + Digit(es[k])
  BY <1>1, <1>2, WorthsNext
<1> HIDE DEF w, x
<1>5. 0 \in S
  BY <1>3, <1>4
<1>6. ASSUME NEW k \in Nat, k \in S
      PROVE  k + 1 \in S
  <2> SUFFICES ASSUME k + 1 <= n PROVE x[k+1] = w[k+1]
    OBVIOUS
  <2>1. k + 1 \in 1 .. n /\ k + 1 \in 1 .. n + 1 /\ (k + 1) - 1 = k /\ x[k] = w[k]
    BY <1>1, <1>6
  <2>2. x[k+1] = 10 * x[k] + Digit(es[k+1]) /\ w[k+1] = 10 * w[k] + Digit(ds[k+1])
    BY <1>3, <1>4, <2>1
  <2>3. es[k+1] = ds[k+1]
    BY <1>1, <2>1
  <2> QED
    BY <2>1, <2>2, <2>3
<1>7. Nat \subseteq S
  <2> HIDE DEF S
  <2> QED
    BY <1>5, <1>6, Induct
<1>8. x[n] = w[n]
  BY <1>1, <1>7
<1>9. n + 1 \in 1 .. n + 1 /\ (n + 1) - 1 = n
  BY <1>1
<1>10. x[n+1] = 10 * x[n] + Digit(es[n+1])
  BY <1>4, <1>9
<1>11. x[n+1] = 10 * w[n] + Digit(c)
  BY <1>1, <1>8, <1>10
<1> QED
  BY <1>1, <1>2, <1>11 DEF es, w, x, Worth

LEMMA WorthEmpty == AllDigits(<<>>) /\ Worth(<<>>) = 0
<1>1. AllDigits(<<>>) /\ Len(<<>>) = 0
  BY PathEmpty DEF AllDigits
<1>2. Worths(<<>>)[0] = 0
  BY <1>1, WorthsNext
<1> QED
  BY <1>1, <1>2 DEF Worth

LEMMA UIntToStringFacts ==
  ASSUME NEW n \in Nat
  PROVE  /\ AllDigits(UIntToString[n]) /\ Worth(UIntToString[n]) = n
         /\ Len(UIntToString[n]) > 0 /\ UIntToString[n][1] # "-"
<1> DEFINE Good(k) == /\ AllDigits(UIntToString[k]) /\ Worth(UIntToString[k]) = k
                      /\ Len(UIntToString[k]) > 0 /\ UIntToString[k][1] # "-"
           S == {k \in Nat : \A j \in 0 .. k : Good(j)}
<1>1. ASSUME NEW k \in Nat, k < 10
      PROVE  Good(k)
  <2> DEFINE c == Digits[k+1]
  <2>1. IsDigit(c) /\ Digit(c) = k /\ c # "-"
    <3>1. k \in 0 .. 9
      BY <1>1
    <3> QED
      BY <3>1, DigitOfDigits
  <2>2. UIntToString[k] = <<c>>
    BY <1>1, UIntToStringIs
  <2> HIDE DEF c
  <2>3. Append(<<>>, c) = <<c>> /\ Len(<<c>>) = 1 /\ <<c>>[1] = c
    OBVIOUS
  <2>4. AllDigits(<<c>>) /\ Worth(<<c>>) = 10 * 0 + Digit(c)
    BY <2>1, <2>3, WorthEmpty, WorthAppend
  <2>5. Worth(<<c>>) = k
    BY <2>1, <2>4
  <2> QED
    BY <2>1, <2>2, <2>3, <2>4, <2>5
<1>2. ASSUME NEW k \in Nat, 10 <= k, Good(k \div 10)
      PROVE  Good(k)
  <2> DEFINE ds == UIntToString[k \div 10]
             d == k % 10
             c == Digits[d+1]
  <2>1. k \div 10 \in Nat /\ d \in 0 .. 9 /\ k = 10 * (k \div 10) + d
    BY Tenth
  <2>2. IsDigit(c) /\ Digit(c) = d
    BY <2>1, DigitOfDigits
  <2>3. UIntToString[k] = Append(ds, c)
    <3>1. ~(k < 10)
      BY <1>2
    <3> QED
      BY <3>1, UIntToStringIs
  <2>4. AllDigits(ds) /\ Worth(ds) = k \div 10 /\ Len(ds) > 0 /\ ds[1] # "-"
    BY <1>2
  <2> HIDE DEF ds, d, c
  <2>5. AllDigits(Append(ds, c)) /\ Worth(Append(ds, c)) = 10 * Worth(ds) + Digit(c)
    BY <2>2, <2>4, WorthAppend
  <2>6. Worth(Append(ds, c)) = k
    BY <2>1, <2>2, <2>4, <2>5
  <2>7. IsPath(ds) /\ Len(ds) \in Nat /\ 1 \in 1 .. Len(ds)
    BY <2>4, PathFacts DEF AllDigits
  <2>8. Len(Append(ds, c)) > 0 /\ Append(ds, c)[1] # "-"
    BY <2>4, <2>7, PathAppend
  <2> QED
    BY <2>3, <2>5, <2>6, <2>8
<1> HIDE DEF Good
<1>3. 0 \in S
  BY <1>1
<1>4. ASSUME NEW k \in Nat, k \in S
      PROVE  k + 1 \in S
  <2>1. Good(k + 1)
    <3>1. CASE k + 1 < 10
      BY <1>1, <3>1
    <3>2. CASE ~(k + 1 < 10)
      <4>1. (k + 1) \div 10 \in 0 .. k
        BY Tenth
      <4>2. Good((k + 1) \div 10) /\ 10 <= k + 1
        BY <1>4, <3>2, <4>1
      <4> QED
        BY <1>2, <4>2
    <3> QED
      BY <3>1, <3>2
  <2> QED
    BY <1>4, <2>1
<1>5. Nat \subseteq S
  <2> HIDE DEF S
  <2> QED
    BY <1>3, <1>4, Induct
<1>6. Good(n)
  BY <1>5
<1> QED
  BY <1>6 DEF Good

LEMMA SignedString ==
  ASSUME NEW n \in Nat, NEW s, s = <<"-">> \o UIntToString[n]
  PROVE  IsPath(s) /\ Signed(s) /\ Unsigned(s) = UIntToString[n]
<1> DEFINE u == UIntToString[n]
           S == {u[k] : k \in DOMAIN u} \cup {"-"}
           minus == <<"-">>
<1>1. IsPath(u)
  BY UIntToStringFacts DEF AllDigits
<1> HIDE DEF u
<1>2. u \in Seq(S) /\ "-" \in S
  BY <1>1 DEF IsPath
<1> HIDE DEF S
<1>3. minus \in Seq(S) /\ Len(minus) = 1 /\ minus[1] = "-"
  BY <1>2
<1> HIDE DEF minus
<1>4. /\ s = minus \o u /\ s \in Seq(S) /\ s # <<>> /\ s[1] = "-"
      /\ Len(s) = Len(u) + 1
  BY <1>2, <1>3 DEF u, minus
<1>5. Tail(s) = u
  <2>1. Tail(s) \in Seq(S) /\ Len(Tail(s)) = Len(u)
    BY <1>2, <1>4
  <2>2. \A k \in 1 .. Len(u) : Tail(s)[k] = u[k]
    BY <1>2, <1>3, <1>4
  <2>3. IsPath(Tail(s)) /\ IsPath(u)
    BY <1>2, <2>1, Paths
  <2> QED
    BY <2>1, <2>2, <2>3, PathsEqual
<1>6. IsPath(s)
  BY <1>4, Paths
<1> QED
  BY <1>4, <1>5, <1>6 DEF Signed, Unsigned, u

\* Whatever their widths, an integer that a writer prints is read as the same
\* integer, the largest and the smallest one too, and of the type it had.
THEOREM IntegersReread ==
  ASSUME NEW n \in MinLargestInt .. MaxLargestUInt
  PROVE  DecodeNumber(ValueToString(n)) = {<<IF n > MaxInt THEN "uint" ELSE "int", n>>}
<1> DEFINE s == ValueToString(n)
<1>1. n \in Int /\ MaxInt \in Nat
  BY Limits
<1>2. CASE n < 0
  <2>1. -n \in Nat /\ -n <= -MinLargestInt /\ -(-n) = n /\ ~(n > MaxInt)
    BY <1>2, Limits
  <2>2. s = <<"-">> \o UIntToString[-n]
    BY <1>2 DEF ValueToString
  <2> HIDE DEF s
  <2>3. IsPath(s) /\ Signed(s) /\ Unsigned(s) = UIntToString[-n]
    BY <2>1, <2>2, SignedString
  <2>4. AllDigits(Unsigned(s)) /\ Worth(Unsigned(s)) = -n
    BY <2>1, <2>3, UIntToStringFacts
  <2>5. Integer(s) = -n
    BY <2>1, <2>3, <2>4, IntegersExact DEF LimitOf
  <2>6. Integer(s) # Double
    BY <2>1, <2>5 DEF Double
  <2>7. DecodeNumber(s) = {<<"int", -Integer(s)>>}
    BY <2>3, <2>6 DEF DecodeNumber
  <2>8. -Integer(s) = n
    BY <2>1, <2>5
  <2> QED
    BY <2>1, <2>7, <2>8 DEF s
<1>3. CASE n >= 0
  <2>1. n \in Nat /\ n <= MaxLargestUInt
    BY <1>3, Limits
  <2>2. s = UIntToString[n]
    BY <1>1, <1>3 DEF ValueToString
  <2> HIDE DEF s
  <2>3. AllDigits(s) /\ Worth(s) = n /\ ~Signed(s) /\ IsPath(s)
    BY <2>1, <2>2, UIntToStringFacts DEF Signed, AllDigits
  <2>4. Unsigned(s) = s
    BY <2>3 DEF Unsigned
  <2>5. Integer(s) = n
    BY <2>1, <2>3, <2>4, IntegersExact DEF LimitOf
  <2>6. Integer(s) # Double
    BY <2>1, <2>5 DEF Double
  <2>7. DecodeNumber(s) = IF n <= MaxInt THEN {<<"int", n>>} ELSE {<<"uint", n>>}
    BY <2>3, <2>5, <2>6 DEF DecodeNumber
  <2>8. n > MaxInt <=> ~(n <= MaxInt)
    BY <1>1
  <2> QED
    BY <2>7, <2>8 DEF s
<1> QED
  BY <1>1, <1>2, <1>3

-----------------------------------------------------------------------------
(* The services of a document.                                             *)

Fits(ps) == \A k \in DOMAIN ps : ps[k][2] \in 1 .. MaxPort

LEMMA PeersFit ==
  ASSUME NEW v, NEW p \in PeerInfo(v)
  PROVE  p[2] \in 1 .. MaxPort
BY DEF PeerInfo, Required, PortOf

LEMMA Socks5ListFits ==
  ASSUME NEW v, NEW ps \in Socks5List(v)
  PROVE  Fits(ps)
<1>1. CASE IsObject(v)
  <2>1. PICK p \in PeerInfo(v) : ps = <<p>>
    <3>1. Socks5List(v) = {<<p>> : p \in PeerInfo(v)}
      BY <1>1 DEF Socks5List, IsObject, IsArray
    <3> QED
      BY <3>1, Zenon
  <2> QED
    BY <2>1, PeersFit DEF Fits
<1>2. CASE ~IsObject(v) /\ IsArray(v)
  <2>1. /\ ps = [k \in 1 .. Size(v) |-> CHOOSE x \in PeerInfo(At(v, k - 1)) : TRUE]
        /\ \A k \in 1 .. Size(v) : PeerInfo(At(v, k - 1)) # {}
    <3>1. ps \in AllOf(v, PeerInfo)
      BY <1>2 DEF Socks5List
    <3> QED
      BY <3>1, Zenon DEF AllOf
  <2>2. ASSUME NEW k \in DOMAIN ps
        PROVE  ps[k] \in PeerInfo(At(v, k - 1))
    BY <2>1, <2>2
  <2> QED
    BY <2>2, PeersFit DEF Fits
<1> QED
  BY <1>1, <1>2 DEF Socks5List

LEMMA DefaultFits == Fits(<<>>)
BY DEF Fits

\* What is written under "socks5", or nothing.
LEMMA Socks5Fits ==
  ASSUME NEW v, NEW ps \in Optional(v, "socks5", Socks5List, <<>>)
  PROVE  Fits(ps)
<1>1. ps = <<>> \/ \E u : ps \in Socks5List(u)
  BY Zenon DEF Optional
<1> QED
  BY <1>1, Socks5ListFits, DefaultFits

DstFits(d) == d.peer[2] \in 1 .. MaxPort /\ Fits(d.socks5)

LEMMA DstsFit ==
  ASSUME NEW v, NEW d \in Dst(v)
  PROVE  DstFits(d)
<1> DEFINE A == PeerInfo(v)
           B == Optional(v, "reply", AsBool, TRUE)
           C == Optional(v, "socks5", Socks5List, <<>>)
<1>1. Dst(v) = {[peer |-> p, reply |-> r, socks5 |-> ps] : p \in A, r \in B, ps \in C}
  BY SMT DEF Dst
<1>2. d.peer \in A /\ d.socks5 \in C
  <2> HIDE DEF A, B, C
  <2> QED
    BY <1>1
<1> QED
  BY <1>2, PeersFit, Socks5Fits DEF DstFits

LEMMA DestinationsFit ==
  ASSUME NEW v, NEW ds \in Destinations(v), NEW k \in DOMAIN ds
  PROVE  DstFits(ds[k])
<1>1. CASE IsObject(v)
  <2>1. PICK d \in Dst(v) : ds = <<d>>
    <3>1. Destinations(v) = {<<d>> : d \in Dst(v)}
      BY <1>1 DEF Destinations, IsObject, IsArray
    <3> QED
      BY <3>1, Zenon
  <2> QED
    BY <2>1, DstsFit
<1>2. CASE ~IsObject(v) /\ IsArray(v)
  <2>1. /\ ds = [j \in 1 .. Size(v) |-> CHOOSE x \in Dst(At(v, j - 1)) : TRUE]
        /\ \A j \in 1 .. Size(v) : Dst(At(v, j - 1)) # {}
    <3>1. ds \in AllOf(v, Dst)
      BY <1>2 DEF Destinations
    <3> QED
      BY <3>1, Zenon DEF AllOf
  <2>2. ds[k] \in Dst(At(v, k - 1))
    BY <2>1
  <2> QED
    BY <2>2, DstsFit
<1> QED
  BY <1>1, <1>2 DEF Destinations

\* A value is converted to at most one string, and that names at most one type.
LEMMA OneType ==
  ASSUME NEW v, NEW s \in Required(v, "server", TypeOf),
         NEW t \in Required(v, "server", TypeOf)
  PROVE  s = t
<1> DEFINE u == Member_(v, "server")
<1>1. s \in TypeOf(u) /\ t \in TypeOf(u)
  BY Zenon DEF Required
<1> HIDE DEF u
<1>2. PICK a \in AsString(u), b \in AsString(u) : a = Text(s) /\ b = Text(t)
  BY <1>1 DEF TypeOf, ServerTypeFromString
<1>3. a = b
  <2>1. \E x : AsString(u) = {x} \/ AsString(u) = {}
    BY Zenon DEF AsString
  <2> QED
    BY <2>1
<1> QED
  BY <1>2, <1>3 DEF Text

ServiceFits(c, x) ==
  /\ c.type \in {"TCPRELAY", "SOCKS5"} => Fits(x[1])
  /\ c.type = "REDIRECT" => \A k \in DOMAIN x : DstFits(x[k])

LEMMA ConstructedFits ==
  ASSUME NEW v, NEW s \in Constructed(v)
  PROVE  ServiceFits(s[1], s[2])
<1> DEFINE types == Required(v, "server", TypeOf)
           Rest(t) == CASE t = "TCPRELAY" -> TcpRelay(v)
                        [] t = "REDIRECT" -> Redirect(v)
                        [] t = "SOCKS5"   -> Socks5(v)
                        [] t = "BACKDOOR" -> Backdoor(v)
<1>1. PICK c \in Config(v), t \in types : \E x \in Rest(t) : s = <<c, x>>
  <2>1. Constructed(v) =
          {<<c, x>> : c \in Config(v), x \in UNION {Rest(t) : t \in types}}
    BY SMT DEF Constructed
  <2> HIDE DEF types, Rest
  <2> QED
    BY <2>1
<1>0. PICK x \in Rest(t) : s = <<c, x>>
  BY <1>1
<1>2. c.type \in types
  BY DEF Config
<1>3. c.type = t
  BY <1>2, OneType
<1>4. CASE t = "TCPRELAY"
  <2>1. x \in TcpRelay(v)
    BY <1>4, Zenon
  <2> DEFINE A == Optional(v, "socks5", Socks5List, <<>>)
             B == IF Has(v, "socks5")
                    THEN Optional(v, "socks5-whitelist", Whitelisted, <<>>)
                    ELSE {<<>>}
  <2>2. TcpRelay(v) = {<<ps, w>> : ps \in A, w \in B}
    BY SMT DEF TcpRelay
  <2>4. \E ps \in A : x[1] = ps
    <3> HIDE DEF A, B
    <3> QED
      BY <2>1, <2>2
  <2>3. Fits(x[1])
    BY <2>4, Socks5Fits
  <2> QED
    BY <1>0, <1>3, <1>4, <2>3 DEF ServiceFits
<1>5. CASE t = "SOCKS5"
  <2>1. x \in Socks5(v)
    BY <1>5
  <2> DEFINE A == Optional(v, "socks5", Socks5List, <<>>)
             B == Optional(v, "noauth", AsBool, TRUE)
             C == Optional(v, "validation", Users, <<>>)
  <2>2. Socks5(v) = {<<ps, n, u>> : ps \in A, n \in B, u \in C}
    BY SMT DEF Socks5
  <2>4. \E ps \in A : x[1] = ps
    <3> HIDE DEF A, B, C
    <3> QED
      BY <2>1, <2>2
  <2>3. Fits(x[1])
    BY <2>4, Socks5Fits
  <2> QED
    BY <1>0, <1>3, <1>5, <2>3 DEF ServiceFits
<1>6. CASE t = "REDIRECT"
  <2>1. x \in Redirect(v)
    BY <1>6
  <2>2. \E u : x \in Destinations(u)
    BY <2>1, Zenon DEF Redirect, Required
  <2>3. \A k \in DOMAIN x : DstFits(x[k])
    BY <2>2, DestinationsFit
  <2> QED
    BY <1>0, <1>3, <1>6, <2>3 DEF ServiceFits
<1> QED
  BY <1>0, <1>3, <1>4, <1>5, <1>6 DEF ServiceFits

\* A document has a number of services, and the loop as many turns.
LEMMA KeysCount ==
  ASSUME NEW v, Size(v) \in Nat
  PROVE  Len(Keys(v)) = Size(v)
<1> DEFINE n == Size(v)
<1>1. ASSUME NEW f, DOMAIN f = 1 .. n, f = [k \in 1 .. n |-> f[k]]
      PROVE  Len(f) = n
  <2>1. f \in Seq({f[k] : k \in 1 .. n})
    <3>1. f \in [1 .. n -> {f[k] : k \in 1 .. n}]
      BY <1>1
    <3> QED
      BY <3>1
  <2> QED
    BY <1>1, <2>1
<1>2. CASE IsObject(v)
  <2>1. ~IsNull(v) /\ n = Cardinality(DOMAIN Payload(v))
    BY <1>2 DEF IsObject, IsNull, IsArray, Size
  <2>2. Keys(v) = InOrder(DOMAIN Payload(v), Less)
    BY <1>2, <2>1 DEF Keys, MemberNames
  <2>3. /\ DOMAIN Keys(v) = 1 .. n
        /\ Keys(v) = [k \in 1 .. n |-> Keys(v)[k]]
    BY <2>1, <2>2, Zenon DEF InOrder
  <2> QED
    BY <1>1, <2>3
<1>3. CASE ~IsObject(v)
  <2>1. /\ DOMAIN Keys(v) = 1 .. n
        /\ Keys(v) = [k \in 1 .. n |-> Keys(v)[k]]
    BY <1>3, Zenon DEF Keys
  <2> QED
    BY <1>1, <2>1
<1> QED
  BY <1>2, <1>3

\* The services so far are a list, each is constructed from the node whose name it
\* has, and all are there once the program runs.
ServicesInv(v) == IsPath(services) /\ ServicesOf(v)

LEMMA LoadedInit ==
  ASSUME NEW v, Size(Member_(v, "services")) \in Nat, Off
  PROVE  ServicesInv(v)
<1>1. Len(Keys(Member_(v, "services"))) \in Nat
  BY KeysCount
<1>2. services = <<>> /\ Len(services) = 0 /\ IsPath(services) /\ phase # "running"
  BY PathEmpty DEF Off
<1>3. DOMAIN services = {}
  BY <1>2
<1> QED
  BY <1>1, <1>2, <1>3 DEF ServicesInv, ServicesOf

LEMMA LoadedStep ==
  ASSUME NEW v, ServicesInv(v), [Load(v)]_conf
  PROVE  ServicesInv(v)'
<1> DEFINE node == Member_(v, "services")
           names == Keys(node)
           n == Len(services)
           Same == services' = services
<1>0. /\ IsPath(services) /\ n \in Nat /\ DOMAIN services = 1 .. n
      /\ n <= Len(names)
      /\ \A k \in DOMAIN services : /\ services[k][1] = names[k]
                                   /\ services[k][2] \in Constructed(At(node, names[k]))
      /\ phase = "running" => n = Len(names)
  BY PathFacts, Zenon DEF ServicesInv, ServicesOf
<1>1. ASSUME Same, phase' = "running" => n = Len(names)
      PROVE  ServicesInv(v)'
  BY <1>0, <1>1 DEF ServicesInv, ServicesOf
<1>2. CASE LoadRoot(v)
  <2>1. Same /\ phase' \in {"threw", "returned", "load"}
    BY <1>2 DEF LoadRoot
  <2> QED
    BY <1>1, <2>1
<1>3. CASE LoadService(v)
  <2> DEFINE k == n + 1
             service == At(node, names[k])
  <2>1. /\ k <= Len(names)
        /\ phase = "load"
        /\ \/ Same /\ phase' \in {"threw", "returned"}
           \/ \E c \in Constructed(service), listens \in BOOLEAN :
                services' = Append(services, <<names[k], c, listens>>)
                /\ phase' = phase
    BY <1>3 DEF LoadService
  <2>2. CASE Same /\ phase' \in {"threw", "returned"}
    BY <1>1, <2>2
  <2>3. CASE \E c \in Constructed(service), listens \in BOOLEAN :
               services' = Append(services, <<names[k], c, listens>>) /\ phase' = phase
    <3>1. PICK c \in Constructed(service), listens \in BOOLEAN :
                 services' = Append(services, <<names[k], c, listens>>) /\ phase' = phase
      BY <2>3
    <3> DEFINE s == <<names[k], c, listens>>
    <3>2. s[1] = names[k] /\ s[2] = c
      OBVIOUS
    <3> HIDE DEF s
    <3>3. /\ IsPath(services') /\ Len(services') = k
          /\ \A j \in 1 .. n : services'[j] = services[j]
          /\ services'[k] = s
      BY <1>0, <3>1, PathAppend DEF s
    <3>4. DOMAIN services' = 1 .. k
      BY <3>3, PathFacts
    <3>5. ASSUME NEW j \in DOMAIN services'
          PROVE  /\ services'[j][1] = names[j]
                 /\ services'[j][2] \in Constructed(At(node, names[j]))
      <4>1. CASE j = k
        BY <3>2, <3>3, <4>1
      <4>2. CASE j # k
        <5>1. j \in 1 .. n
          BY <1>0, <3>4, <4>2
        <5> QED
          BY <1>0, <3>3, <5>1
      <4> QED
        BY <4>1, <4>2
    <3>6. phase' # "running"
      BY <2>1, <3>1
    <3> QED
      BY <2>1, <3>3, <3>5, <3>6 DEF ServicesInv, ServicesOf
  <2> QED
    BY <2>1, <2>2, <2>3
<1>4. CASE Run(v)
  <2>1. Same /\ n = Len(names)
    BY <1>4 DEF Run
  <2> QED
    BY <1>1, <2>1
<1>5. CASE UNCHANGED conf
  <2>1. Same /\ phase' = phase
    BY <1>5 DEF conf
  <2> QED
    BY <1>0, <1>1, <2>1
<1> QED
  BY <1>2, <1>3, <1>4, <1>5 DEF Load

\* Every port of a service is one that its constructor let through.
LEMMA ServicesFit ==
  ASSUME NEW v, ServicesInv(v)
  PROVE  PortsFit
<1> SUFFICES ASSUME NEW k \in DOMAIN services
             PROVE  LET Fit(ps) == \A j \in DOMAIN ps : ps[j][2] \in 1 .. MaxPort
                        c == services[k][2][1]  x == services[k][2][2]
                    IN /\ c.type \in {"TCPRELAY", "SOCKS5"} => Fit(x[1])
                       /\ c.type = "REDIRECT" =>
                            \A d \in ToSet(x) : Fit(<<d.peer>>) /\ Fit(d.socks5)
  BY Zenon DEF PortsFit
<1> DEFINE c == services[k][2][1]
           x == services[k][2][2]
<1>1. \E u : services[k][2] \in Constructed(u)
  BY DEF ServicesInv, ServicesOf
<1>2. ServiceFits(c, x)
  BY <1>1, ConstructedFits
<1> HIDE DEF c, x
<1>3. c.type \in {"TCPRELAY", "SOCKS5"} => Fits(x[1])
  BY <1>2 DEF ServiceFits
<1>4. ASSUME c.type = "REDIRECT", NEW d \in ToSet(x)
      PROVE  Fits(<<d.peer>>) /\ Fits(d.socks5)
  <2>1. PICK j \in DOMAIN x : d = x[j]
    BY <1>4, Zenon DEF ToSet
  <2>2. DstFits(d)
    BY <1>2, <1>4, <2>1 DEF ServiceFits
  <2> QED
    BY <2>2 DEF DstFits, Fits
<1> QED
  BY <1>3, <1>4 DEF c, x, Fits

\* main(), for every document: each service that runs was constructed from what the
\* document has under its name, they come in the order of the names, the program
\* runs only with all of them, and no proxy or destination of theirs has a port that
\* is no port.
THEOREM ServicesInOrder ==
  ASSUME NEW v, Size(Member_(v, "services")) \in Nat
  PROVE  Loading(v) => [](ServicesOf(v) /\ PortsFit)
<1>1. Off => ServicesInv(v)
  BY LoadedInit
<1>2. ServicesInv(v) /\ [Load(v)]_conf => ServicesInv(v)'
  BY LoadedStep
<1>3. ServicesInv(v) => ServicesOf(v) /\ PortsFit
  BY ServicesFit DEF ServicesInv
<1> QED
  BY <1>1, <1>2, <1>3, PTL DEF Loading

-----------------------------------------------------------------------------
(* What is written.                                                        *)

\* V is a set of values in which a document can be: with a value it has the
\* elements or members of it, of which there are finitely many.
Values(V) ==
  /\ Null \in V
  /\ \A v \in V :
       /\ IsArray(v) => \E n \in Nat : Payload(v) \in [0 .. n - 1 -> V]
       /\ IsObject(v) => \E S : IsFiniteSet(S) /\ Payload(v) \in [S -> V]

LEMMA AtIn ==
  ASSUME NEW V, Values(V), NEW v \in V, IsArray(v) \/ IsObject(v), NEW key
  PROVE  At(v, key) \in V
<1>1. CASE key \in DOMAIN Payload(v)
  <2>1. \E S : Payload(v) \in [S -> V]
    BY DEF Values
  <2>2. Payload(v)[key] \in V
    BY <1>1, <2>1
  <2>3. ~IsNull(v)
    BY DEF IsArray, IsObject, IsNull
  <2> QED
    BY <1>1, <2>2, <2>3 DEF At
<1>2. CASE key \notin DOMAIN Payload(v)
  <2>1. At(v, key) = Null
    BY <1>2 DEF At
  <2> QED
    BY <2>1 DEF Values
<1> QED
  BY <1>1, <1>2

\* An array has the indexes below its size.
LEMMA ArraySize ==
  ASSUME NEW V, Values(V), NEW v \in V, IsArray(v)
  PROVE  Size(v) \in Nat /\ DOMAIN Payload(v) = 0 .. Size(v) - 1
<1>1. PICK n \in Nat : Payload(v) \in [0 .. n - 1 -> V]
  BY DEF Values
<1>2. DOMAIN Payload(v) = 0 .. n - 1
  BY <1>1
<1>3. CASE n = 0
  <2>1. DOMAIN Payload(v) = {} /\ Payload(v) = [k \in DOMAIN Payload(v) |-> Payload(v)[k]]
    BY <1>1, <1>2, <1>3
  <2>2. Payload(v) = <<>>
    BY <2>1
  <2>3. Size(v) = 0
    BY <2>2 DEF Size, IsArray, IsObject
  <2> QED
    BY <1>2, <1>3, <2>3
<1>4. CASE n > 0
  <2>1. Payload(v) # <<>>
    <3>1. 0 \in DOMAIN Payload(v)
      BY <1>2, <1>4
    <3> QED
      BY <3>1
  <2> DEFINE P(k) == \A l \in DOMAIN Payload(v) : l <= k
             last == CHOOSE k \in DOMAIN Payload(v) : P(k)
  <2>2. P(n - 1) /\ n - 1 \in DOMAIN Payload(v)
    BY <1>2, <1>4
  <2>3. last \in DOMAIN Payload(v) /\ P(last)
    <3> HIDE DEF P
    <3> QED
      BY <2>2
  <2>4. last = n - 1
    BY <1>2, <2>2, <2>3
  <2>5. Size(v) = 1 + last
    BY <2>1 DEF Size, IsArray, IsObject
  <2> HIDE DEF last
  <2> QED
    BY <1>2, <2>4, <2>5
<1> QED
  BY <1>3, <1>4

LEMMA HasIs ==
  ASSUME NEW v, IsObject(v), NEW name
  PROVE  Has(v, name) <=> Text(name) \in DOMAIN Payload(v)
<1>1. ~IsNull(v)
  BY DEF IsObject, IsNull
<1> QED
  BY <1>1 DEF Has, IsMember

LEMMA StringIs ==
  ASSUME NEW v, IsString(v)
  PROVE  AsString(v) = {Payload(v)}
BY DEF IsString, AsString

LEMMA NumberIs ==
  ASSUME NEW v, IsNumber(v)
  PROVE  AsUInt(v) = {Payload(v)} /\ Payload(v) \in 0 .. MaxUInt
BY DEF IsNumber, AsUInt

LEMMA BoolIs ==
  ASSUME NEW v, IsBool(v)
  PROVE  AsBool(v) = {Payload(v)}
BY DEF IsBool, AsBool

LEMMA PeerIs ==
  ASSUME NEW v, IsPeer(v)
  PROVE  PeerInfo(v) = {<<Payload(Member_(v, "addr")), Payload(Member_(v, "port"))>>}
<1>1. /\ Has(v, "addr") /\ IsString(Member_(v, "addr"))
      /\ Has(v, "port") /\ IsPort(Member_(v, "port"))
  BY HasIs DEF IsPeer, Given
<1>2. AsString(Member_(v, "addr")) = {Payload(Member_(v, "addr"))}
  BY <1>1, StringIs
<1>3. PortOf(Member_(v, "port")) = {Payload(Member_(v, "port"))}
  BY <1>1, NumberIs DEF IsPort, PortOf
<1> DEFINE A == Required(v, "addr", AsString)
           P == Required(v, "port", PortOf)
<1>4. A = {Payload(Member_(v, "addr"))}
  BY <1>1, <1>2 DEF Required
<1>5. P = {Payload(Member_(v, "port"))}
  BY <1>1, <1>3 DEF Required
<1>6. PeerInfo(v) = {<<a, p>> : a \in A, p \in P}
  BY SMT DEF PeerInfo
<1> HIDE DEF A, P
<1> QED
  BY <1>4, <1>5, <1>6

\* A single thing is a list of one.
LEMMA ListOfOne ==
  ASSUME NEW v, ~IsArray(v)
  PROVE  Listed(v) = <<v>> /\ DOMAIN Listed(v) = {1} /\ Listed(v)[1] = v
BY DEF Listed

LEMMA ListOfMany ==
  ASSUME NEW V, Values(V), NEW v \in V, IsArray(v)
  PROVE  /\ Size(v) \in Nat /\ DOMAIN Listed(v) = 1 .. Size(v)
         /\ Len(Listed(v)) = Size(v)
         /\ \A k \in 1 .. Size(v) : Listed(v)[k] = At(v, k - 1) /\ Listed(v)[k] \in V
<1> DEFINE n == Size(v)
           e == [k \in 1 .. n |-> At(v, k - 1)]
<1>1. n \in Nat
  BY ArraySize
<1>2. Listed(v) = e
  BY Zenon DEF Listed, Elements
<1>3. \A k \in 1 .. n : e[k] = At(v, k - 1) /\ e[k] \in V
  BY AtIn
<1>4. e \in [1 .. n -> V]
  BY <1>3
<1> HIDE DEF e, n
<1>5. e \in Seq(V) /\ Len(e) = n /\ DOMAIN e = 1 .. n
  BY <1>1, <1>4
<1> QED
  BY <1>1, <1>2, <1>3, <1>5 DEF n

\* The elements of an array in turn, if F takes each.
LEMMA Chosen ==
  ASSUME NEW n \in Nat, NEW f, \A k \in 1 .. n : f[k] # {},
         NEW g, g = [k \in 1 .. n |-> CHOOSE x \in f[k] : TRUE]
  PROVE  Len(g) = n /\ DOMAIN g = 1 .. n /\ \A k \in 1 .. n : g[k] \in f[k]
<1>1. \A k \in 1 .. n : g[k] \in f[k]
  OBVIOUS
<1>2. g \in [1 .. n -> {g[k] : k \in 1 .. n}]
  OBVIOUS
<1>3. g \in Seq({g[k] : k \in 1 .. n}) /\ Len(g) = n /\ DOMAIN g = 1 .. n
  BY <1>2
<1> QED
  BY <1>1, <1>3

LEMMA PeersAre ==
  ASSUME NEW V, Values(V), NEW v \in V, ArePeers(v)
  PROVE  Socks5List(v) # {} /\ \A ps \in Socks5List(v) : IsPeers(v, ps)
<1>0. \A k \in DOMAIN Listed(v) : IsPeer(Listed(v)[k])
  BY DEF ArePeers, Some
<1> DEFINE The(u) == <<Payload(Member_(u, "addr")), Payload(Member_(u, "port"))>>
<1>1. CASE ~IsArray(v)
  <2>1. IsPeer(v) /\ Listed(v) = <<v>> /\ DOMAIN Listed(v) = {1} /\ Listed(v)[1] = v
    BY <1>0, <1>1, ListOfOne
  <2>2. IsObject(v) /\ PeerInfo(v) = {The(v)}
    BY <2>1, PeerIs DEF IsPeer
  <2>3. Socks5List(v) = {<<p>> : p \in PeerInfo(v)}
    BY <2>2 DEF Socks5List, IsObject, IsArray
  <2>4. Socks5List(v) = {<<The(v)>>}
    <3> HIDE DEF The
    <3> QED
      BY <2>2, <2>3
  <2>5. IsPeers(v, <<The(v)>>)
    BY <2>1 DEF IsPeers
  <2> HIDE DEF The
  <2> QED
    BY <2>4, <2>5
<1>2. CASE IsArray(v)
  <2> DEFINE n == Size(v)
             f == [k \in 1 .. n |-> PeerInfo(At(v, k - 1))]
             g == [k \in 1 .. n |-> CHOOSE x \in PeerInfo(At(v, k - 1)) : TRUE]
  <2>1. /\ n \in Nat /\ DOMAIN Listed(v) = 1 .. n /\ Len(Listed(v)) = n
        /\ \A k \in 1 .. n : Listed(v)[k] = At(v, k - 1)
    BY <1>2, ListOfMany
  <2>2. \A k \in 1 .. n : PeerInfo(At(v, k - 1)) = {The(At(v, k - 1))}
    BY <1>0, <2>1, PeerIs
  <2>3. Socks5List(v) = {g}
    <3>1. Socks5List(v) = AllOf(v, PeerInfo)
      BY <1>2 DEF Socks5List, IsObject, IsArray
    <3>2. \A k \in 1 .. n : PeerInfo(At(v, k - 1)) # {}
      <4> HIDE DEF The
      <4> QED
        BY <2>2
    <3> QED
      BY <3>1, <3>2, Zenon DEF AllOf
  <2>4. Len(g) = n /\ DOMAIN g = 1 .. n /\ \A k \in 1 .. n : g[k] \in f[k]
    <3>1. \A k \in 1 .. n : f[k] # {}
      <4> HIDE DEF The
      <4> QED
        BY <2>2
    <3>2. g = [k \in 1 .. n |-> CHOOSE x \in f[k] : TRUE]
      OBVIOUS
    <3> HIDE DEF f, g
    <3> QED
      BY <2>1, <3>1, <3>2, Chosen
  <2>5. \A k \in 1 .. n : g[k] = The(At(v, k - 1))
    <3>1. \A k \in 1 .. n : f[k] = {The(At(v, k - 1))}
      BY <2>2
    <3> HIDE DEF The, f, g
    <3> QED
      BY <2>4, <3>1
  <2> HIDE DEF f, g, n
  <2>6. IsPeers(v, g)
    BY <2>1, <2>4, <2>5 DEF IsPeers
  <2> QED
    BY <2>3, <2>6
<1> QED
  BY <1>1, <1>2

\* A string is at most one range, of addresses.
OneRange == \A s : \A r, q \in StringToRange(s) : r = q /\ r \in Nat \X Nat

\* rs are the ranges that v lists.
AreRangesOf(v, rs) ==
  /\ rs \in Seq(Nat \X Nat) /\ Listed(v) \in Seq({Listed(v)[k] : k \in DOMAIN Listed(v)})
  /\ Len(rs) = Len(Listed(v))
  /\ \A k \in DOMAIN rs : StringToRange(Payload(Listed(v)[k])) = {rs[k]}

LEMMA RangeIs ==
  ASSUME NEW u, IsRange(u), OneRange
  PROVE  \E r \in Nat \X Nat : RangeOf(u) = {r} /\ StringToRange(Payload(u)) = {r}
<1>1. PICK r : r \in StringToRange(Payload(u))
  BY DEF IsRange
<1>2. r \in Nat \X Nat /\ \A q \in StringToRange(Payload(u)) : q = r
  BY <1>1, Zenon DEF OneRange
<1>3. StringToRange(Payload(u)) = {r}
  BY <1>1, <1>2
<1>4. AsString(u) = {Payload(u)}
  BY StringIs DEF IsRange
<1>5. RangeOf(u) = StringToRange(Payload(u))
  BY <1>4 DEF RangeOf
<1> QED
  BY <1>2, <1>3, <1>5

LEMMA RangesAre ==
  ASSUME NEW V, Values(V), NEW v \in V, IsArray(v), AreRanges(v), OneRange
  PROVE  \E rs : AllOf(v, RangeOf) = {rs} /\ AreRangesOf(v, rs)
<1> DEFINE n == Size(v)
           f == [k \in 1 .. n |-> RangeOf(At(v, k - 1))]
           g == [k \in 1 .. n |-> CHOOSE x \in RangeOf(At(v, k - 1)) : TRUE]
<1>1. /\ n \in Nat /\ DOMAIN Listed(v) = 1 .. n /\ Len(Listed(v)) = n
      /\ \A k \in 1 .. n : Listed(v)[k] = At(v, k - 1)
  BY ListOfMany
<1>2. \A k \in 1 .. n : \E r \in Nat \X Nat :
        RangeOf(At(v, k - 1)) = {r} /\ StringToRange(Payload(At(v, k - 1))) = {r}
  BY <1>1, RangeIs DEF AreRanges, Some
<1>3. AllOf(v, RangeOf) = {g}
  <2>1. \A k \in 1 .. n : RangeOf(At(v, k - 1)) # {}
    BY <1>2
  <2> QED
    BY <2>1, Zenon DEF AllOf
<1>4. \A k \in 1 .. n : f[k] # {}
  BY <1>2
<1>5. Len(g) = n /\ DOMAIN g = 1 .. n /\ \A k \in 1 .. n : g[k] \in f[k]
  <2>1. g = [k \in 1 .. n |-> CHOOSE x \in f[k] : TRUE]
    OBVIOUS
  <2> HIDE DEF f, g
  <2> QED
    BY <1>1, <1>4, <2>1, Chosen
<1>6. \A k \in 1 .. n : f[k] = RangeOf(At(v, k - 1))
  OBVIOUS
<1>7. g = [k \in 1 .. n |-> g[k]]
  OBVIOUS
<1> HIDE DEF f, g, n
<1>8. \A k \in 1 .. n : /\ g[k] \in Nat \X Nat
                        /\ StringToRange(Payload(Listed(v)[k])) = {g[k]}
  <2> SUFFICES ASSUME NEW k \in 1 .. n
               PROVE  g[k] \in Nat \X Nat /\ StringToRange(Payload(Listed(v)[k])) = {g[k]}
    OBVIOUS
  <2>1. PICK r \in Nat \X Nat :
          RangeOf(At(v, k - 1)) = {r} /\ StringToRange(Payload(At(v, k - 1))) = {r}
    BY <1>2
  <2>2. g[k] = r
    BY <1>5, <1>6, <2>1
  <2> QED
    BY <1>1, <2>1, <2>2
<1>9. g \in Seq(Nat \X Nat)
  <2>1. g \in [1 .. n -> Nat \X Nat]
    BY <1>7, <1>8
  <2> QED
    BY <1>1, <2>1
<1>10. Listed(v) \in Seq({Listed(v)[k] : k \in DOMAIN Listed(v)})
  <2>1. Listed(v) = [k \in 1 .. n |-> At(v, k - 1)]
    BY Zenon DEF Listed, Elements, n
  <2>2. Listed(v) \in [1 .. n -> {Listed(v)[k] : k \in DOMAIN Listed(v)}]
    BY <1>1, <2>1
  <2> QED
    BY <1>1, <2>2
<1> QED
  BY <1>1, <1>3, <1>5, <1>8, <1>9, <1>10 DEF AreRangesOf

LEMMA SourcesAre ==
  ASSUME NEW V, Values(V), NEW v \in V, AreRanges(v), OneRange
  PROVE  \E rs : Sources(v) = {rs} /\ AreRangesOf(v, rs)
<1>1. CASE ~IsArray(v)
  <2>1. IsRange(v) /\ Listed(v) = <<v>> /\ DOMAIN Listed(v) = {1} /\ Listed(v)[1] = v
    BY <1>1, ListOfOne DEF AreRanges, Some
  <2>2. PICK r \in Nat \X Nat : RangeOf(v) = {r} /\ StringToRange(Payload(v)) = {r}
    BY <2>1, RangeIs
  <2>3. Sources(v) = {<<s>> : s \in RangeOf(v)}
    BY <1>1, <2>1 DEF Sources, IsRange
  <2>4. Sources(v) = {<<r>>}
    BY <2>2, <2>3
  <2>5. AreRangesOf(v, <<r>>)
    BY <2>1, <2>2 DEF AreRangesOf
  <2> QED
    BY <2>4, <2>5
<1>2. CASE IsArray(v)
  <2>1. Sources(v) = AllOf(v, RangeOf)
    BY <1>2 DEF Sources, IsString, IsArray
  <2> QED
    BY <1>2, <2>1, RangesAre
<1> QED
  BY <1>1, <1>2

\* Whom the source filter lets in.
LEMMA SourcesLetIn ==
  ASSUME NEW v, NEW rs, AreRangesOf(v, rs), NEW c, c.src = rs
  PROVE  LetsIn(v, {ip \in Clients : IsIpInRange(c, ip)})
<1> DEFINE L == Listed(v)
<1>1. /\ rs \in Seq(Nat \X Nat) /\ Len(rs) = Len(L) /\ L \in Seq({L[k] : k \in DOMAIN L})
      /\ \A k \in DOMAIN rs : StringToRange(Payload(L[k])) = {rs[k]}
  BY DEF AreRangesOf
<1>2. (L = <<>>) = (rs = <<>>) /\ DOMAIN rs = DOMAIN L
  <2> HIDE DEF L
  <2> QED
    BY <1>1
<1>3. CASE rs = <<>>
  <2>1. \A ip : IsIpInRange(c, ip)
    BY <1>3 DEF IsIpInRange
  <2> QED
    BY <1>2, <1>3, <2>1 DEF LetsIn
<1>4. CASE rs # <<>>
  <2>1. ASSUME NEW ip \in Clients
        PROVE  IsIpInRange(c, ip) <=>
                 \E k \in DOMAIN L : \E r \in StringToRange(Payload(L[k])) : ip \in r[1] .. r[2]
    <3>1. ip \in Nat
      BY SettingsAssumption
    <3>2. \A k \in DOMAIN rs : rs[k][1] \in Nat /\ rs[k][2] \in Nat
      <4>1. rs \in [DOMAIN rs -> Nat \X Nat]
        <5>1. rs \in Seq(Nat \X Nat)
          BY <1>1
        <5> QED
          BY <5>1
      <4> QED
        BY <4>1
    <3>3. IsIpInRange(c, ip) <=> \E k \in DOMAIN rs : rs[k][1] <= ip /\ ip <= rs[k][2]
      BY <1>4, Zenon DEF IsIpInRange
    <3>4. \A k \in DOMAIN rs : (rs[k][1] <= ip /\ ip <= rs[k][2]) <=> ip \in rs[k][1] .. rs[k][2]
      BY <3>1, <3>2
    <3> HIDE DEF L
    <3> QED
      BY <1>1, <1>2, <3>3, <3>4
  <2>2. L # <<>>
    BY <1>2, <1>4
  <2>3. {ip \in Clients : IsIpInRange(c, ip)} =
          {ip \in Clients : \E k \in DOMAIN L :
             \E r \in StringToRange(Payload(L[k])) : ip \in r[1] .. r[2]}
    BY <2>1
  <2> QED
    BY <2>2, <2>3, Zenon DEF LetsIn
<1> QED
  BY <1>3, <1>4

\* Every list can be sorted: the place of a range is the number of those that are
\* not behind it.
LEMMA SortedExists ==
  ASSUME NEW n \in Nat, NEW key \in [1 .. n -> Nat]
  PROVE  \E p \in Bijection(1 .. n, 1 .. n) :
           \A i, j \in 1 .. n : i < j => key[p[i]] <= key[p[j]]
<1> DEFINE D == 1 .. n
           R(i) == {j \in D : key[j] < key[i] \/ (key[j] = key[i] /\ j <= i)}
           rank == [i \in D |-> Cardinality(R(i))]
           p == [k \in D |-> CHOOSE i \in D : rank[i] = k]
<1>1. IsFiniteSet(D) /\ Cardinality(D) = n
  BY FS_Interval
<1>2. ASSUME NEW i \in D
      PROVE  R(i) \in SUBSET D /\ IsFiniteSet(R(i)) /\ rank[i] \in D
  <2>1. R(i) \in SUBSET D /\ i \in R(i)
    OBVIOUS
  <2>2. rank[i] = Cardinality(R(i))
    OBVIOUS
  <2> HIDE DEF R, rank
  <2>3. IsFiniteSet(R(i)) /\ Cardinality(R(i)) <= n /\ Cardinality(R(i)) \in Nat
    BY <1>1, <2>1, FS_Subset, FS_CardinalityType
  <2>4. Cardinality(R(i)) # 0
    BY <2>1, <2>3, FS_EmptySet
  <2> QED
    BY <2>1, <2>2, <2>3, <2>4
<1>3. ASSUME NEW i \in D, NEW j \in D, i \notin R(j)
      PROVE  rank[j] < rank[i]
  <2>1. key[i] \in Nat /\ key[j] \in Nat
    OBVIOUS
  <2>2. key[j] < key[i] \/ (key[j] = key[i] /\ j < i)
    BY <1>3, <2>1
  <2>3. R(j) \subseteq R(i)
    <3> SUFFICES ASSUME NEW k \in R(j) PROVE k \in R(i)
      OBVIOUS
    <3>1. k \in D /\ key[k] \in Nat
      OBVIOUS
    <3> QED
      BY <2>1, <2>2, <3>1
  <2>4. i \in R(i)
    OBVIOUS
  <2>5. rank[i] = Cardinality(R(i)) /\ rank[j] = Cardinality(R(j))
    OBVIOUS
  <2> HIDE DEF R, rank
  <2>6. IsFiniteSet(R(i)) /\ R(j) \in SUBSET R(i) /\ R(j) # R(i)
    BY <1>2, <1>3, <2>3, <2>4
  <2>7. Cardinality(R(j)) <= Cardinality(R(i)) /\ Cardinality(R(j)) # Cardinality(R(i))
    BY <2>6, FS_Subset
  <2> QED
    BY <1>2, <2>5, <2>7
<1>4. \A i, j \in D : rank[i] = rank[j] => i = j
  <2> SUFFICES ASSUME NEW i \in D, NEW j \in D, rank[i] = rank[j], i # j
               PROVE  FALSE
    OBVIOUS
  <2>1. i \notin R(j) \/ j \notin R(i)
    OBVIOUS
  <2> HIDE DEF rank, R
  <2> QED
    BY <1>2, <1>3, <2>1
<1>5. rank \in [D -> D]
  BY <1>2
<1> HIDE DEF rank
<1>6. \A k \in D : \E i \in D : rank[i] = k
  <2>1. rank \in Injection(D, D)
    BY <1>4, <1>5 DEF Injection, IsInjective
  <2>2. rank \in Surjection(D, D)
    BY <1>1, <2>1, FS_Injection
  <2> QED
    BY <2>2, Zenon DEF Surjection
<1>7. \A k \in D : p[k] \in D /\ rank[p[k]] = k
  BY <1>6
<1>8. p \in [D -> D]
  BY <1>7
<1> HIDE DEF p
<1>9. p \in Bijection(D, D)
  <2>1. \A i, j \in D : p[i] = p[j] => i = j
    BY <1>7
  <2>2. \A i \in D : rank[i] \in D /\ p[rank[i]] = i
    BY <1>4, <1>5, <1>7
  <2> QED
    BY <1>8, <2>1, <2>2, Zenon DEF Bijection, Injection, Surjection, IsInjective
<1>10. ASSUME NEW i \in D, NEW j \in D, i < j
       PROVE  key[p[i]] <= key[p[j]]
  <2>1. p[i] \in D /\ p[j] \in D /\ rank[p[i]] = i /\ rank[p[j]] = j
    BY <1>7
  <2>2. p[i] \in R(p[j])
    <3> SUFFICES ASSUME p[i] \notin R(p[j]) PROVE FALSE
      OBVIOUS
    <3>1. rank[p[j]] < rank[p[i]]
      BY <1>3, <2>1
    <3> QED
      BY <1>10, <2>1, <3>1
  <2>3. key[p[i]] \in Nat /\ key[p[j]] \in Nat
    BY <2>1
  <2> QED
    BY <2>2, <2>3
<1> QED
  BY <1>9, <1>10

LEMMA OfLength ==
  ASSUME NEW n \in Nat, NEW S, NEW q \in [1 .. n -> S]
  PROVE  q \in Seq(S) /\ Len(q) = n
<1>1. q \in Seq(S)
  OBVIOUS
<1> QED
  BY <1>1

LEMMA SortedHas ==
  ASSUME NEW rs \in Seq(Nat \X Nat)
  PROVE  /\ Sorted(rs) # {}
         /\ \A q \in Sorted(rs) : Len(q) = Len(rs) /\ ToSet(q) = ToSet(rs)
<1> DEFINE n == Len(rs)
           D == 1 .. n
           key == [k \in D |-> rs[k][1]]
<1>1. n \in Nat /\ DOMAIN rs = D /\ \A k \in D : rs[k] \in Nat \X Nat
  OBVIOUS
<1>2. key \in [D -> Nat]
  BY <1>1
<1>3. PICK p \in Bijection(D, D) : \A i, j \in D : i < j => key[p[i]] <= key[p[j]]
  <2> HIDE DEF key
  <2> QED
    BY <1>1, <1>2, SortedExists
<1>4. \A t \in Bijection(D, D) :
        /\ t \in [D -> D]
        /\ \A i \in D : \E k \in D : t[k] = i
  BY Zenon DEF Bijection, Injection, Surjection
<1>5. Sorted(rs) # {}
  <2> DEFINE q == [k \in DOMAIN rs |-> rs[p[k]]]
  <2>1. \A i, j \in D : i < j => q[i][1] <= q[j][1]
    BY <1>1, <1>3, <1>4
  <2>2. q \in {[k \in DOMAIN rs |-> rs[t[k]]] : t \in Bijection(DOMAIN rs, DOMAIN rs)}
    BY <1>1, <1>3
  <2> HIDE DEF q
  <2>3. q \in Sorted(rs)
    BY <1>1, <2>1, <2>2, Zenon DEF Sorted
  <2> QED
    BY <2>3
<1>6. ASSUME NEW q \in Sorted(rs)
      PROVE  Len(q) = n /\ ToSet(q) = ToSet(rs)
  <2>1. PICK t \in Bijection(D, D) : q = [k \in D |-> rs[t[k]]]
    BY <1>1, Zenon DEF Sorted
  <2>2. t \in [D -> D] /\ \A i \in D : \E k \in D : t[k] = i
    BY <1>4
  <2>3. DOMAIN q = D /\ \A k \in D : q[k] = rs[t[k]] /\ t[k] \in D
    BY <2>1, <2>2
  <2>4. q \in [D -> Nat \X Nat]
    BY <1>1, <2>1, <2>2
  <2>5. Len(q) = n
    <3> HIDE DEF n, key
    <3> QED
      BY <1>1, <2>4, OfLength
  <2>6. ToSet(q) = {q[k] : k \in D} /\ ToSet(rs) = {rs[k] : k \in D}
    BY <1>1, <2>3, Zenon DEF ToSet
  <2> HIDE DEF D, n
  <2>7. {q[k] : k \in D} = {rs[k] : k \in D}
    BY <2>2, <2>3
  <2> QED
    BY <2>5, <2>6, <2>7
<1> QED
  BY <1>5, <1>6

LEMMA WhitelistIs ==
  ASSUME NEW V, Values(V), NEW v \in V, IsWhitelist(v), OneRange
  PROVE  Whitelisted(v) # {} /\ \A w \in Whitelisted(v) : HasRanges(v, w)
<1>1. IsArray(v) /\ AreRanges(v)
  BY DEF IsWhitelist
<1>2. PICK rs : AllOf(v, RangeOf) = {rs} /\ AreRangesOf(v, rs)
  BY <1>1, RangesAre
<1>3. Whitelisted(v) = Sorted(rs)
  BY <1>1, <1>2 DEF Whitelisted
<1>4. /\ rs \in Seq(Nat \X Nat) /\ Len(rs) = Len(Listed(v))
      /\ Listed(v) \in Seq({Listed(v)[k] : k \in DOMAIN Listed(v)})
      /\ \A k \in DOMAIN rs : StringToRange(Payload(Listed(v)[k])) = {rs[k]}
  BY <1>2 DEF AreRangesOf
<1>5. DOMAIN Listed(v) = DOMAIN rs
  BY <1>4
<1>6. ToSet(rs) = UNION {StringToRange(Payload(Listed(v)[k])) : k \in DOMAIN Listed(v)}
  <2>1. ToSet(rs) = {rs[k] : k \in DOMAIN rs}
    BY Zenon DEF ToSet
  <2> DEFINE R(k) == StringToRange(Payload(Listed(v)[k]))
  <2>2. \A k \in DOMAIN rs : R(k) = {rs[k]}
    BY <1>4
  <2> HIDE DEF R
  <2>3. UNION {R(k) : k \in DOMAIN rs} = {rs[k] : k \in DOMAIN rs}
    <3>1. ASSUME NEW r \in UNION {R(k) : k \in DOMAIN rs}
          PROVE  r \in {rs[k] : k \in DOMAIN rs}
      BY <2>2
    <3>2. ASSUME NEW k \in DOMAIN rs
          PROVE  rs[k] \in UNION {R(j) : j \in DOMAIN rs}
      <4>1. rs[k] \in R(k)
        BY <2>2
      <4> QED
        BY <4>1
    <3> QED
      BY <3>1, <3>2
  <2> QED
    BY <1>5, <2>1, <2>3 DEF R
<1> QED
  BY <1>3, <1>4, <1>6, SortedHas DEF HasRanges

-----------------------------------------------------------------------------
(* What is written, or the default.                                        *)

BoolsOf(v, name, default) == Optional(v, name, AsBool, default)
NumbersOf(v, name, default) == Optional(v, name, AsUInt, default)
StringsOf(v, name, default) == Optional(v, name, AsString, default)
PeersOf(v, name, default) == Optional(v, name, Socks5List, default)
SaysIt(v, name, x, default) == Says(v, name, Is_, x, default)
SaysPeers(v, name, ps, default) == Says(v, name, IsPeers, ps, default)

\* Neither F nor P stays an argument.
LEMMA OptionalIs ==
  ASSUME NEW v, IsObject(v), NEW name, NEW default
  PROVE  /\ BoolsOf(v, name, default) = IF Text(name) \in DOMAIN Payload(v)
                                          THEN AsBool(Member_(v, name)) ELSE {default}
         /\ NumbersOf(v, name, default) = IF Text(name) \in DOMAIN Payload(v)
                                          THEN AsUInt(Member_(v, name)) ELSE {default}
         /\ StringsOf(v, name, default) = IF Text(name) \in DOMAIN Payload(v)
                                          THEN AsString(Member_(v, name)) ELSE {default}
         /\ PeersOf(v, name, default) = IF Text(name) \in DOMAIN Payload(v)
                                          THEN Socks5List(Member_(v, name)) ELSE {default}
<1>1. Has(v, name) <=> Text(name) \in DOMAIN Payload(v)
  BY HasIs
<1> QED
  BY <1>1 DEF BoolsOf, NumbersOf, StringsOf, PeersOf, Optional

LEMMA SaysIs ==
  ASSUME NEW v, NEW name, NEW x, NEW default
  PROVE  /\ SaysIt(v, name, x, default) <=>
              IF Text(name) \in DOMAIN Payload(v) THEN Payload(Member_(v, name)) = x
              ELSE x = default
         /\ SaysPeers(v, name, x, default) <=>
              IF Text(name) \in DOMAIN Payload(v) THEN IsPeers(Member_(v, name), x)
              ELSE x = default
BY DEF SaysIt, SaysPeers, Says, Is_

LEMMA BoolSetting ==
  ASSUME NEW v, IsObject(v), NEW name, NEW default, Maybe(v, name, IsBool)
  PROVE  /\ BoolsOf(v, name, default) # {}
         /\ \A x \in BoolsOf(v, name, default) : SaysIt(v, name, x, default)
<1>1. Text(name) \in DOMAIN Payload(v) =>
        AsBool(Member_(v, name)) = {Payload(Member_(v, name))}
  BY BoolIs DEF Maybe
<1> QED
  BY <1>1, OptionalIs, SaysIs

LEMMA NumberSetting ==
  ASSUME NEW v, IsObject(v), NEW name, NEW default, Maybe(v, name, IsNumber)
  PROVE  /\ NumbersOf(v, name, default) # {}
         /\ \A x \in NumbersOf(v, name, default) : SaysIt(v, name, x, default)
<1>1. Text(name) \in DOMAIN Payload(v) =>
        AsUInt(Member_(v, name)) = {Payload(Member_(v, name))}
  BY NumberIs DEF Maybe
<1> QED
  BY <1>1, OptionalIs, SaysIs

LEMMA StringSetting ==
  ASSUME NEW v, IsObject(v), NEW name, NEW default, Maybe(v, name, IsString)
  PROVE  /\ StringsOf(v, name, default) # {}
         /\ \A x \in StringsOf(v, name, default) : SaysIt(v, name, x, default)
<1>1. Text(name) \in DOMAIN Payload(v) =>
        AsString(Member_(v, name)) = {Payload(Member_(v, name))}
  BY StringIs DEF Maybe
<1> QED
  BY <1>1, OptionalIs, SaysIs

LEMMA PeersSetting ==
  ASSUME NEW V, Values(V), NEW v \in V, IsObject(v), NEW name, NEW default,
         Maybe(v, name, ArePeers)
  PROVE  /\ PeersOf(v, name, default) # {}
         /\ \A x \in PeersOf(v, name, default) : SaysPeers(v, name, x, default)
<1>1. Text(name) \in DOMAIN Payload(v) =>
        /\ Socks5List(Member_(v, name)) # {}
        /\ \A x \in Socks5List(Member_(v, name)) : IsPeers(Member_(v, name), x)
  BY AtIn, PeersAre DEF Maybe, Member_
<1> QED
  BY <1>1, OptionalIs, SaysIs

\* Which peer an object names.
ThePeer(u) == <<Payload(Member_(u, "addr")), Payload(Member_(u, "port"))>>

\* d is the destination of u.
DstOf(u, d) ==
  /\ d.peer = ThePeer(u)
  /\ SaysIt(u, "reply", d.reply, TRUE) /\ SaysPeers(u, "socks5", d.socks5, <<>>)

LEMMA DstIs ==
  ASSUME NEW V, Values(V), NEW u \in V, IsDst(u)
  PROVE  Dst(u) # {} /\ \A d \in Dst(u) : DstOf(u, d)
<1>1. IsPeer(u) /\ IsObject(u) /\ Maybe(u, "reply", IsBool) /\ Maybe(u, "socks5", ArePeers)
  BY Zenon DEF IsDst, IsPeer
<1> DEFINE P == PeerInfo(u)
           R == BoolsOf(u, "reply", TRUE)
           S == PeersOf(u, "socks5", <<>>)
<1>2. Dst(u) = {[peer |-> p, reply |-> r, socks5 |-> ps] : p \in P, r \in R, ps \in S}
  BY SMT DEF Dst, BoolsOf, PeersOf
<1>3. P = {ThePeer(u)}
  BY <1>1, PeerIs DEF ThePeer
<1>4. R # {} /\ \A r \in R : SaysIt(u, "reply", r, TRUE)
  BY <1>1, BoolSetting, Zenon
<1>5. S # {} /\ \A ps \in S : SaysPeers(u, "socks5", ps, <<>>)
  BY <1>1, PeersSetting, Zenon
<1> HIDE DEF P, R, S
<1>6. Dst(u) # {}
  <2>1. PICK p \in P, r \in R, ps \in S : TRUE
    BY <1>3, <1>4, <1>5
  <2>2. [peer |-> p, reply |-> r, socks5 |-> ps] \in Dst(u)
    BY <1>2
  <2> QED
    BY <2>2
<1>7. ASSUME NEW d \in Dst(u)
      PROVE  DstOf(u, d)
  <2>1. PICK p \in P, r \in R, ps \in S : d = [peer |-> p, reply |-> r, socks5 |-> ps]
    BY <1>2
  <2>2. d.peer = p /\ d.reply = r /\ d.socks5 = ps
    BY <2>1
  <2> QED
    BY <1>3, <1>4, <1>5, <2>2 DEF DstOf
<1> QED
  BY <1>6, <1>7

\* From the single destinations to the list of them.
LEMMA DstsOf ==
  ASSUME NEW v, NEW ds, Len(ds) \in Nat, DOMAIN ds = 1 .. Len(ds), Len(ds) = Len(Listed(v)),
         \A k \in DOMAIN ds : DstOf(Listed(v)[k], ds[k])
  PROVE  IsDsts(v, ds)
<1> DEFINE n == Len(ds)
           ps == [k \in DOMAIN ds |-> ds[k].peer]
<1>1. \A k \in DOMAIN ds : ps[k] = ThePeer(Listed(v)[k])
  BY DEF DstOf
<1>2. DOMAIN ps = 1 .. n
  OBVIOUS
<1>3. Len(ps) = n
  <2>1. ps \in [1 .. n -> {ps[k] : k \in 1 .. n}]
    OBVIOUS
  <2> HIDE DEF ps
  <2> QED
    BY <2>1, OfLength
<1> HIDE DEF ps
<1>4. IsPeers(v, ps)
  BY <1>1, <1>2, <1>3 DEF IsPeers, ThePeer
<1>5. \A k \in DOMAIN ds : /\ Says(Listed(v)[k], "reply", Is_, ds[k].reply, TRUE)
                           /\ Says(Listed(v)[k], "socks5", IsPeers, ds[k].socks5, <<>>)
  BY Zenon DEF DstOf, SaysIt, SaysPeers
<1> QED
  BY <1>4, <1>5, Zenon DEF IsDsts, ps

LEMMA DstsAre ==
  ASSUME NEW V, Values(V), NEW v \in V, AreDsts(v)
  PROVE  Destinations(v) # {} /\ \A ds \in Destinations(v) : IsDsts(v, ds)
<1>0. \A k \in DOMAIN Listed(v) : IsDst(Listed(v)[k])
  BY DEF AreDsts, Some
<1>1. CASE ~IsArray(v)
  <2>1. IsDst(v) /\ Listed(v) = <<v>> /\ DOMAIN Listed(v) = {1} /\ Listed(v)[1] = v
    BY <1>0, <1>1, ListOfOne
  <2>2. IsObject(v)
    BY <2>1 DEF IsDst, IsPeer
  <2>3. Destinations(v) = {<<d>> : d \in Dst(v)}
    BY <2>2 DEF Destinations, IsObject, IsArray
  <2>4. Dst(v) # {} /\ \A d \in Dst(v) : DstOf(v, d)
    BY <2>1, DstIs
  <2>5. ASSUME NEW d \in Dst(v)
        PROVE  IsDsts(v, <<d>>)
    BY <2>1, <2>4, DstsOf
  <2> QED
    BY <2>3, <2>4, <2>5
<1>2. CASE IsArray(v)
  <2> DEFINE n == Size(v)
             f == [k \in 1 .. n |-> Dst(At(v, k - 1))]
             g == [k \in 1 .. n |-> CHOOSE x \in Dst(At(v, k - 1)) : TRUE]
  <2>1. /\ n \in Nat /\ DOMAIN Listed(v) = 1 .. n /\ Len(Listed(v)) = n
        /\ \A k \in 1 .. n : Listed(v)[k] = At(v, k - 1) /\ Listed(v)[k] \in V
    BY <1>2, ListOfMany
  <2>2. \A k \in 1 .. n : /\ Dst(At(v, k - 1)) # {}
                          /\ \A d \in Dst(At(v, k - 1)) : DstOf(At(v, k - 1), d)
    BY <1>0, <2>1, DstIs
  <2>3. Destinations(v) = {g}
    <3>1. Destinations(v) = AllOf(v, Dst)
      BY <1>2 DEF Destinations, IsObject, IsArray
    <3> QED
      BY <2>2, <3>1, Zenon DEF AllOf
  <2>4. Len(g) = n /\ DOMAIN g = 1 .. n /\ \A k \in 1 .. n : g[k] \in f[k]
    <3>1. \A k \in 1 .. n : f[k] # {}
      BY <2>2
    <3>2. g = [k \in 1 .. n |-> CHOOSE x \in f[k] : TRUE]
      OBVIOUS
    <3> HIDE DEF f, g
    <3> QED
      BY <2>1, <3>1, <3>2, Chosen
  <2>5. \A k \in 1 .. n : f[k] = Dst(At(v, k - 1))
    OBVIOUS
  <2> HIDE DEF f, g, n
  <2>6. IsDsts(v, g)
    BY <2>1, <2>2, <2>4, <2>5, DstsOf
  <2> QED
    BY <2>3, <2>6
<1> QED
  BY <1>1, <1>2

LEMMA UsersAre ==
  ASSUME NEW v, IsUsers(v)
  PROVE  Users(v) # {} /\ \A us \in Users(v) : SameUsers(v, us)
<1>1. IsObject(v) /\ \A n \in DOMAIN Payload(v) : IsString(At(v, n))
  BY DEF IsUsers
<1>2. \A n \in DOMAIN Payload(v) : AsString(At(v, n)) = {Payload(At(v, n))}
  BY <1>1, StringIs
<1> DEFINE us == [n \in DOMAIN Payload(v) |-> CHOOSE s \in AsString(At(v, n)) : TRUE]
<1>3. Users(v) = {us}
  <2>1. ~(\E n \in DOMAIN Payload(v) : AsString(At(v, n)) = {})
    BY <1>2
  <2>2. IsObject(v) /\ ~IsArray(v)
    BY <1>1 DEF IsObject, IsArray
  <2> QED
    BY <2>1, <2>2, Zenon DEF Users
<1>4. DOMAIN us = DOMAIN Payload(v) /\ \A n \in DOMAIN us : us[n] = Payload(At(v, n))
  BY <1>2
<1> HIDE DEF us
<1> QED
  BY <1>3, <1>4 DEF SameUsers

-----------------------------------------------------------------------------
(* The configuration of a service.                                         *)

LEMMA TypeIs ==
  ASSUME NEW v, Legal(v)
  PROVE  \E t \in ServerTypes : /\ Required(v, "server", TypeOf) = {t}
                                /\ Payload(Member_(v, "server")) = Text(t)
<1>1. IsObject(v) /\ Has(v, "server") /\ IsServer(Member_(v, "server"))
  BY HasIs DEF Legal, Given
<1>2. PICK t \in ServerTypes : Member_(v, "server") = NewString(Text(t))
  BY <1>1 DEF IsServer
<1> DEFINE u == Member_(v, "server")
<1>3. Payload(u) = Text(t) /\ IsString(u)
  BY <1>2 DEF NewString, New, Payload, IsString, Type
<1>4. AsString(u) = {Text(t)}
  BY <1>3, StringIs
<1>5. Required(v, "server", TypeOf) = TypeOf(u)
  BY <1>1 DEF Required
<1> HIDE DEF u
<1>6. TypeOf(u) = ServerTypeFromString(Text(t))
  BY <1>4 DEF TypeOf
<1>7. ServerTypeFromString(Text(t)) = {t}
  BY DEF ServerTypeFromString, Text
<1> QED
  BY <1>3, <1>5, <1>6, <1>7 DEF u

LEMMA PortIs ==
  ASSUME NEW v, IsObject(v), Given(v, "port", IsNumber)
  PROVE  \E p : /\ Required(v, "port", Port) = {p}
                /\ IsPort(Member_(v, "port")) => Payload(Member_(v, "port")) = p
<1> DEFINE u == Member_(v, "port")
           n == Payload(u)
<1>1. Has(v, "port") /\ IsNumber(u)
  BY HasIs DEF Given
<1>2. AsUInt(u) = {n} /\ n \in Nat
  BY <1>1, NumberIs
<1>3. Required(v, "port", Port) = Port(u)
  BY <1>1 DEF Required
<1> HIDE DEF u, n
<1>4. Port(u) = {n % (MaxPort + 1)}
  BY <1>2 DEF Port
<1>5. IsPort(u) => n % (MaxPort + 1) = n
  <2>1. SUFFICES ASSUME IsPort(u) PROVE n % (MaxPort + 1) = n
    OBVIOUS
  <2>2. n \in 1 .. MaxPort
    BY <2>1 DEF IsPort, n
  <2> QED
    BY <2>2, ConfigsAssumption
<1> QED
  BY <1>3, <1>4, <1>5 DEF n, u

LEMMA IpIs ==
  ASSUME NEW v, IsObject(v), Maybe(v, "bind", IsIp)
  PROVE  /\ Optional(v, "bind", LocalIp, AnyAddress) # {}
         /\ \A i \in Optional(v, "bind", LocalIp, AnyAddress) :
              Says(v, "bind", IsIpOf, i, AnyAddress)
<1> DEFINE u == Member_(v, "bind")
<1>1. CASE Text("bind") \in DOMAIN Payload(v)
  <2>1. Has(v, "bind") /\ IsIp(u)
    BY <1>1, HasIs DEF Maybe
  <2>2. Optional(v, "bind", LocalIp, AnyAddress) = LocalIp(u)
    BY <2>1 DEF Optional
  <2>3. AsString(u) = {Payload(u)}
    BY <2>1, StringIs DEF IsIp
  <2>4. LocalIp(u) = StringToIpint(Payload(u)) \ {AnyAddress}
    BY <2>3 DEF LocalIp
  <2>5. StringToIpint(Payload(u)) \notin {{}, {AnyAddress}}
    BY <2>1 DEF IsIp
  <2> DEFINE I == StringToIpint(Payload(u))
  <2>6. \A i : Says(v, "bind", IsIpOf, i, AnyAddress)
               <=> i \in I
    BY <1>1 DEF Says, IsIpOf
  <2>7. I # {} /\ I # {AnyAddress}
    BY <2>5
  <2> HIDE DEF I
  <2>8. I \ {AnyAddress} # {}
    BY <2>7
  <2> QED
    BY <2>2, <2>4, <2>6, <2>8 DEF I
<1>2. CASE Text("bind") \notin DOMAIN Payload(v)
  <2>1. Optional(v, "bind", LocalIp, AnyAddress) = {AnyAddress}
    BY <1>2, HasIs DEF Optional
  <2>2. Says(v, "bind", IsIpOf, AnyAddress, AnyAddress)
    BY <1>2 DEF Says
  <2> QED
    BY <2>1, <2>2
<1> QED
  BY <1>1, <1>2

LEMMA SrcIs ==
  ASSUME NEW V, Values(V), NEW v \in V, IsObject(v), Maybe(v, "src", AreRanges), OneRange
  PROVE  /\ Optional(v, "src", Sources, <<>>) # {}
         /\ \A s \in Optional(v, "src", Sources, <<>>) : \A c : c.src = s =>
              Says(v, "src", LetsIn, {ip \in Clients : IsIpInRange(c, ip)}, Clients)
<1> DEFINE u == Member_(v, "src")
<1>1. CASE Text("src") \in DOMAIN Payload(v)
  <2>1. Has(v, "src") /\ AreRanges(u) /\ u \in V
    BY <1>1, HasIs, AtIn DEF Maybe, Member_
  <2>2. Optional(v, "src", Sources, <<>>) = Sources(u)
    BY <2>1 DEF Optional
  <2>3. PICK rs : Sources(u) = {rs} /\ AreRangesOf(u, rs)
    BY <2>1, SourcesAre
  <2>4. ASSUME NEW c, c.src = rs
        PROVE  Says(v, "src", LetsIn, {ip \in Clients : IsIpInRange(c, ip)}, Clients)
    <3>1. LetsIn(u, {ip \in Clients : IsIpInRange(c, ip)})
      BY <2>3, <2>4, SourcesLetIn
    <3> QED
      BY <1>1, <3>1, Zenon DEF Says
  <2> QED
    BY <2>2, <2>3, <2>4
<1>2. CASE Text("src") \notin DOMAIN Payload(v)
  <2>1. Optional(v, "src", Sources, <<>>) = {<<>>}
    BY <1>2, HasIs DEF Optional
  <2>2. ASSUME NEW c, c.src = <<>>
        PROVE  Says(v, "src", LetsIn, {ip \in Clients : IsIpInRange(c, ip)}, Clients)
    <3>1. {ip \in Clients : IsIpInRange(c, ip)} = Clients
      BY <2>2 DEF IsIpInRange
    <3> QED
      BY <1>2, <3>1, Zenon DEF Says
  <2> QED
    BY <2>1, <2>2
<1> QED
  BY <1>1, <1>2

\* What Describes says of td_config itself.
DescribesConfig(v, c) ==
  /\ Payload(Member_(v, "server")) = Text(c.type)
  /\ IsPort(Member_(v, "port")) => Payload(Member_(v, "port")) = c.port
  /\ Says(v, "bind", IsIpOf, c.ip, AnyAddress)
  /\ Says(v, "src", LetsIn, {ip \in Clients : IsIpInRange(c, ip)}, Clients)
  /\ Says(v, "threads", Is_, c.threads, 1)
  /\ Says(v, "bufsize", Is_, c.bufsize, BufSize)

LEMMA ConfigIs ==
  ASSUME NEW V, Values(V), NEW v \in V, Legal(v), OneRange
  PROVE  Config(v) # {} /\ \A c \in Config(v) : DescribesConfig(v, c)
<1>1. /\ IsObject(v) /\ Given(v, "port", IsNumber) /\ Maybe(v, "bind", IsIp)
      /\ Maybe(v, "src", AreRanges)
      /\ Maybe(v, "threads", IsNumber) /\ Maybe(v, "bufsize", IsNumber)
  BY Zenon DEF Legal
<1> DEFINE T == Required(v, "server", TypeOf)
           P == Required(v, "port", Port)
           I == Optional(v, "bind", LocalIp, AnyAddress)
           S == Optional(v, "src", Sources, <<>>)
           N == Optional(v, "threads", AsUInt, 1)
           B == Optional(v, "bufsize", AsUInt, BufSize)
           SaysIp(i) == Says(v, "bind", IsIpOf, i, AnyAddress)
           SaysSrc(c) == Says(v, "src", LetsIn, {ip \in Clients : IsIpInRange(c, ip)}, Clients)
<1>2. Config(v) = {[type |-> t, port |-> p, ip |-> i, src |-> s, threads |-> n, bufsize |-> b] :
                     t \in T, p \in P, i \in I, s \in S, n \in N, b \in B}
  BY SMT DEF Config
<1>3. PICK t \in ServerTypes : T = {t} /\ Payload(Member_(v, "server")) = Text(t)
  BY TypeIs
<1>4. PICK p : P = {p} /\ (IsPort(Member_(v, "port")) => Payload(Member_(v, "port")) = p)
  BY <1>1, PortIs
<1>5. I # {} /\ \A i \in I : SaysIp(i)
  BY <1>1, IpIs
<1>6. S # {} /\ \A s \in S : \A c : c.src = s => SaysSrc(c)
  BY <1>1, SrcIs
<1>7. N # {} /\ \A n \in N : SaysIt(v, "threads", n, 1)
  BY <1>1, NumberSetting, Zenon DEF NumbersOf
<1>8. B # {} /\ \A b \in B : SaysIt(v, "bufsize", b, BufSize)
  BY <1>1, NumberSetting, Zenon DEF NumbersOf
<1>9. \A c : DescribesConfig(v, c) <=>
        /\ Payload(Member_(v, "server")) = Text(c.type)
        /\ IsPort(Member_(v, "port")) => Payload(Member_(v, "port")) = c.port
        /\ SaysIp(c.ip) /\ SaysSrc(c)
        /\ SaysIt(v, "threads", c.threads, 1) /\ SaysIt(v, "bufsize", c.bufsize, BufSize)
  BY Zenon DEF DescribesConfig, SaysIt
<1> HIDE DEF T, P, I, S, N, B, SaysIp, SaysSrc
<1>10. Config(v) # {}
  <2>1. PICK i \in I, s \in S, n \in N, b \in B : TRUE
    BY <1>5, <1>6, <1>7, <1>8
  <2>2. [type |-> t, port |-> p, ip |-> i, src |-> s, threads |-> n, bufsize |-> b] \in Config(v)
    BY <1>2, <1>3, <1>4
  <2> QED
    BY <2>2
<1>11. ASSUME NEW c \in Config(v)
       PROVE  DescribesConfig(v, c)
  <2>1. /\ c.type \in T /\ c.port \in P /\ c.ip \in I /\ c.src \in S
        /\ c.threads \in N /\ c.bufsize \in B
    BY <1>2
  <2> QED
    BY <1>3, <1>4, <1>5, <1>6, <1>7, <1>8, <1>9, <2>1
<1> QED
  BY <1>10, <1>11

-----------------------------------------------------------------------------
(* What each type adds.                                                    *)

LEMMA TcpRelayIs ==
  ASSUME NEW V, Values(V), NEW v \in V, IsObject(v), OneRange,
         Maybe(v, "socks5", ArePeers), Maybe(v, "socks5-whitelist", IsWhitelist)
  PROVE  /\ TcpRelay(v) # {}
         /\ \A x \in TcpRelay(v) :
              /\ Says(v, "socks5", IsPeers, x[1], <<>>)
              /\ IF Text("socks5") \in DOMAIN Payload(v)
                   THEN Says(v, "socks5-whitelist", HasRanges, x[2], <<>>)
                   ELSE x[2] = <<>>
<1> DEFINE u == Member_(v, "socks5-whitelist")
           P == PeersOf(v, "socks5", <<>>)
           O == Optional(v, "socks5-whitelist", Whitelisted, <<>>)
           W == IF Has(v, "socks5") THEN O ELSE {<<>>}
           SaysRanges(w) == Says(v, "socks5-whitelist", HasRanges, w, <<>>)
<1>1. TcpRelay(v) = {<<ps, w>> : ps \in P, w \in W}
  BY SMT DEF TcpRelay, PeersOf
<1>2. P # {} /\ \A ps \in P : SaysPeers(v, "socks5", ps, <<>>)
  BY PeersSetting, Zenon
<1>3. O # {} /\ \A w \in O : SaysRanges(w)
  <2>1. CASE Text("socks5-whitelist") \in DOMAIN Payload(v)
    <3>1. Has(v, "socks5-whitelist") /\ IsWhitelist(u) /\ u \in V
      BY <2>1, HasIs, AtIn DEF Maybe, Member_
    <3>2. O = Whitelisted(u)
      BY <3>1 DEF Optional
    <3>3. Whitelisted(u) # {} /\ \A w \in Whitelisted(u) : HasRanges(u, w)
      BY <3>1, WhitelistIs
    <3>4. \A w : HasRanges(u, w) => SaysRanges(w)
      BY <2>1, Zenon DEF Says
    <3> HIDE DEF O, SaysRanges
    <3> QED
      BY <3>2, <3>3, <3>4
  <2>2. CASE Text("socks5-whitelist") \notin DOMAIN Payload(v)
    <3>1. O = {<<>>}
      BY <2>2, HasIs DEF Optional
    <3>2. SaysRanges(<<>>)
      BY <2>2, Zenon DEF Says
    <3> HIDE DEF O, SaysRanges
    <3> QED
      BY <3>1, <3>2
  <2> QED
    BY <2>1, <2>2
<1>4. Has(v, "socks5") <=> Text("socks5") \in DOMAIN Payload(v)
  BY HasIs
<1>5. /\ W # {}
      /\ \A w \in W : IF Text("socks5") \in DOMAIN Payload(v) THEN SaysRanges(w) ELSE w = <<>>
  <2> HIDE DEF O, SaysRanges
  <2> QED
    BY <1>3, <1>4
<1>6. \A ps : SaysPeers(v, "socks5", ps, <<>>) <=> Says(v, "socks5", IsPeers, ps, <<>>)
  BY Zenon DEF SaysPeers
<1> HIDE DEF P, O, W, SaysRanges
<1>7. TcpRelay(v) # {}
  <2>1. PICK ps \in P, w \in W : TRUE
    BY <1>2, <1>5
  <2>2. <<ps, w>> \in TcpRelay(v)
    BY <1>1
  <2> QED
    BY <2>2
<1>8. ASSUME NEW x \in TcpRelay(v)
      PROVE  /\ SaysPeers(v, "socks5", x[1], <<>>)
             /\ IF Text("socks5") \in DOMAIN Payload(v) THEN SaysRanges(x[2]) ELSE x[2] = <<>>
  <2>1. x[1] \in P /\ x[2] \in W
    BY <1>1
  <2> QED
    BY <1>2, <1>5, <2>1
<1> QED
  BY <1>6, <1>7, <1>8, Zenon DEF SaysRanges

LEMMA RedirectIs ==
  ASSUME NEW V, Values(V), NEW v \in V, IsObject(v), Given(v, "dst", AreDsts)
  PROVE  Redirect(v) # {} /\ \A x \in Redirect(v) : IsDsts(Member_(v, "dst"), x)
<1> DEFINE u == Member_(v, "dst")
<1>1. Has(v, "dst") /\ AreDsts(u) /\ u \in V
  BY HasIs, AtIn DEF Given, Member_
<1>2. Redirect(v) = Destinations(u)
  BY <1>1 DEF Redirect, Required
<1> HIDE DEF u
<1>3. Destinations(u) # {} /\ \A x \in Destinations(u) : IsDsts(u, x)
  BY <1>1, DstsAre
<1> QED
  BY <1>2, <1>3 DEF u

LEMMA Socks5Is ==
  ASSUME NEW V, Values(V), NEW v \in V, IsObject(v),
         Maybe(v, "socks5", ArePeers), Maybe(v, "noauth", IsBool),
         Maybe(v, "validation", IsUsers)
  PROVE  /\ Socks5(v) # {}
         /\ \A x \in Socks5(v) :
              /\ Says(v, "socks5", IsPeers, x[1], <<>>) /\ Says(v, "noauth", Is_, x[2], TRUE)
              /\ Says(v, "validation", SameUsers, x[3], <<>>)
<1> DEFINE w == Member_(v, "validation")
           P == PeersOf(v, "socks5", <<>>)
           N == BoolsOf(v, "noauth", TRUE)
           U == Optional(v, "validation", Users, <<>>)
           SaysUsers(us) == Says(v, "validation", SameUsers, us, <<>>)
<1>1. Socks5(v) = {<<ps, n, u>> : ps \in P, n \in N, u \in U}
  BY SMT DEF Socks5, PeersOf, BoolsOf
<1>2. P # {} /\ \A ps \in P : SaysPeers(v, "socks5", ps, <<>>)
  BY PeersSetting, Zenon
<1>3. N # {} /\ \A n \in N : SaysIt(v, "noauth", n, TRUE)
  BY BoolSetting, Zenon
<1>4. U # {} /\ \A us \in U : SaysUsers(us)
  <2>1. CASE Text("validation") \in DOMAIN Payload(v)
    <3>1. Has(v, "validation") /\ IsUsers(w)
      BY <2>1, HasIs DEF Maybe
    <3>2. U = Users(w)
      BY <3>1 DEF Optional
    <3>3. Users(w) # {} /\ \A us \in Users(w) : SameUsers(w, us)
      BY <3>1, UsersAre
    <3>4. \A us : SameUsers(w, us) => SaysUsers(us)
      BY <2>1, Zenon DEF Says
    <3> HIDE DEF U, SaysUsers
    <3> QED
      BY <3>2, <3>3, <3>4
  <2>2. CASE Text("validation") \notin DOMAIN Payload(v)
    <3>1. U = {<<>>}
      BY <2>2, HasIs DEF Optional
    <3>2. SaysUsers(<<>>)
      BY <2>2, Zenon DEF Says
    <3> HIDE DEF U, SaysUsers
    <3> QED
      BY <3>1, <3>2
  <2> QED
    BY <2>1, <2>2
<1>5. \A x : /\ SaysPeers(v, "socks5", x, <<>>) <=> Says(v, "socks5", IsPeers, x, <<>>)
             /\ SaysIt(v, "noauth", x, TRUE) <=> Says(v, "noauth", Is_, x, TRUE)
  BY Zenon DEF SaysPeers, SaysIt
<1> HIDE DEF P, N, U, SaysUsers
<1>6. Socks5(v) # {}
  <2>1. PICK ps \in P, n \in N, us \in U : TRUE
    BY <1>2, <1>3, <1>4
  <2>2. <<ps, n, us>> \in Socks5(v)
    BY <1>1
  <2> QED
    BY <2>2
<1>7. ASSUME NEW x \in Socks5(v)
      PROVE  /\ SaysPeers(v, "socks5", x[1], <<>>) /\ SaysIt(v, "noauth", x[2], TRUE)
             /\ SaysUsers(x[3])
  <2>1. x[1] \in P /\ x[2] \in N /\ x[3] \in U
    BY <1>1
  <2> QED
    BY <1>2, <1>3, <1>4, <2>1
<1> QED
  BY <1>5, <1>6, <1>7, Zenon DEF SaysUsers

LEMMA BackdoorIs ==
  ASSUME NEW v, IsObject(v), Given(v, "listen", IsString), Maybe(v, "request", IsBool),
         Maybe(v, "response", IsBool)
  PROVE  /\ Backdoor(v) # {}
         /\ \A x \in Backdoor(v) :
              /\ Payload(Member_(v, "listen")) = x[1]
              /\ Says(v, "request", Is_, x[2], TRUE) /\ Says(v, "response", Is_, x[3], TRUE)
<1> DEFINE l == Payload(Member_(v, "listen"))
           L == Required(v, "listen", AsString)
           Q == BoolsOf(v, "request", TRUE)
           R == BoolsOf(v, "response", TRUE)
<1>1. Backdoor(v) = {<<a, q, r>> : a \in L, q \in Q, r \in R}
  BY SMT DEF Backdoor, BoolsOf
<1>2. L = {l}
  <2>1. Has(v, "listen") /\ IsString(Member_(v, "listen"))
    BY HasIs DEF Given
  <2>2. L = AsString(Member_(v, "listen"))
    BY <2>1 DEF Required
  <2> QED
    BY <2>1, <2>2, StringIs
<1>3. Q # {} /\ \A q \in Q : SaysIt(v, "request", q, TRUE)
  BY BoolSetting, Zenon
<1>4. R # {} /\ \A r \in R : SaysIt(v, "response", r, TRUE)
  BY BoolSetting, Zenon
<1>5. \A x : /\ SaysIt(v, "request", x, TRUE) <=> Says(v, "request", Is_, x, TRUE)
             /\ SaysIt(v, "response", x, TRUE) <=> Says(v, "response", Is_, x, TRUE)
  BY Zenon DEF SaysIt
<1> HIDE DEF l, L, Q, R
<1>6. Backdoor(v) # {}
  <2>1. PICK q \in Q, r \in R : TRUE
    BY <1>3, <1>4
  <2>2. <<l, q, r>> \in Backdoor(v)
    BY <1>1, <1>2
  <2> QED
    BY <2>2
<1>7. ASSUME NEW x \in Backdoor(v)
      PROVE  l = x[1] /\ SaysIt(v, "request", x[2], TRUE) /\ SaysIt(v, "response", x[3], TRUE)
  <2>1. x[1] \in L /\ x[2] \in Q /\ x[3] \in R
    BY <1>1
  <2> QED
    BY <1>2, <1>3, <1>4, <2>1
<1> QED
  BY <1>5, <1>6, <1>7, Zenon DEF l

\* What Describes says of the rest of a service.
DescribesRest(v, type, x) ==
  CASE type = "TCPRELAY" ->
         /\ Says(v, "socks5", IsPeers, x[1], <<>>)
         /\ IF Text("socks5") \in DOMAIN Payload(v)
              THEN Says(v, "socks5-whitelist", HasRanges, x[2], <<>>)
              ELSE x[2] = <<>>
    [] type = "REDIRECT" -> IsDsts(Member_(v, "dst"), x)
    [] type = "SOCKS5" ->
         /\ Says(v, "socks5", IsPeers, x[1], <<>>) /\ Says(v, "noauth", Is_, x[2], TRUE)
         /\ Says(v, "validation", SameUsers, x[3], <<>>)
    [] OTHER ->
         /\ Payload(Member_(v, "listen")) = x[1]
         /\ Says(v, "request", Is_, x[2], TRUE) /\ Says(v, "response", Is_, x[3], TRUE)

RestOf(v, type) ==
  CASE type = "TCPRELAY" -> TcpRelay(v)
    [] type = "REDIRECT" -> Redirect(v)
    [] type = "SOCKS5"   -> Socks5(v)
    [] type = "BACKDOOR" -> Backdoor(v)

LEMMA RestIs ==
  ASSUME NEW V, Values(V), NEW v \in V, Legal(v), OneRange,
         NEW t \in ServerTypes, Payload(Member_(v, "server")) = Text(t)
  PROVE  RestOf(v, t) # {} /\ \A x \in RestOf(v, t) : DescribesRest(v, t, x)
<1> DEFINE p == Payload(Member_(v, "server"))
           A == Maybe(v, "socks5", ArePeers) /\ Maybe(v, "socks5-whitelist", IsWhitelist)
           B == Given(v, "dst", AreDsts)
           C == /\ Maybe(v, "socks5", ArePeers) /\ Maybe(v, "noauth", IsBool)
                /\ Maybe(v, "validation", IsUsers)
           D == /\ Given(v, "listen", IsString) /\ Maybe(v, "request", IsBool)
                /\ Maybe(v, "response", IsBool)
<1>1. IsObject(v)
  BY Zenon DEF Legal
<1>2. /\ p = Text("TCPRELAY") <=> t = "TCPRELAY"
      /\ p = Text("REDIRECT") <=> t = "REDIRECT"
      /\ p = Text("SOCKS5") <=> t = "SOCKS5"
  BY DEF Text
<1>3. (CASE p = Text("TCPRELAY") -> A [] p = Text("REDIRECT") -> B
         [] p = Text("SOCKS5") -> C [] OTHER -> D)
  BY Zenon DEF Legal
<1>4. /\ t = "TCPRELAY" => A
      /\ t = "REDIRECT" => B
      /\ t = "SOCKS5" => C
      /\ t = "BACKDOOR" => D
  <2> HIDE DEF A, B, C, D, p
  <2> QED
    BY <1>2, <1>3
<1>5. CASE t = "TCPRELAY"
  <2>1. RestOf(v, t) = TcpRelay(v)
    BY <1>5 DEF RestOf
  <2>2. \A x : DescribesRest(v, t, x) <=>
           /\ Says(v, "socks5", IsPeers, x[1], <<>>)
           /\ IF Text("socks5") \in DOMAIN Payload(v)
                THEN Says(v, "socks5-whitelist", HasRanges, x[2], <<>>)
                ELSE x[2] = <<>>
    BY <1>5, Zenon DEF DescribesRest
  <2>3. Maybe(v, "socks5", ArePeers) /\ Maybe(v, "socks5-whitelist", IsWhitelist)
    BY <1>4, <1>5
  <2> QED
    BY <1>1, <2>1, <2>2, <2>3, TcpRelayIs, Zenon
<1>6. CASE t = "REDIRECT"
  <2>1. RestOf(v, t) = Redirect(v)
    BY <1>6 DEF RestOf
  <2>2. \A x : DescribesRest(v, t, x) <=> IsDsts(Member_(v, "dst"), x)
    BY <1>6 DEF DescribesRest
  <2>3. Given(v, "dst", AreDsts)
    BY <1>4, <1>6
  <2> QED
    BY <1>1, <2>1, <2>2, <2>3, RedirectIs, Zenon
<1>7. CASE t = "SOCKS5"
  <2>1. RestOf(v, t) = Socks5(v)
    BY <1>7 DEF RestOf
  <2>2. \A x : DescribesRest(v, t, x) <=>
           /\ Says(v, "socks5", IsPeers, x[1], <<>>) /\ Says(v, "noauth", Is_, x[2], TRUE)
           /\ Says(v, "validation", SameUsers, x[3], <<>>)
    BY <1>7 DEF DescribesRest
  <2>3. C
    BY <1>4, <1>7
  <2> QED
    BY <1>1, <2>1, <2>2, <2>3, Socks5Is, Zenon
<1>8. CASE t = "BACKDOOR"
  <2>1. RestOf(v, t) = Backdoor(v)
    BY <1>8 DEF RestOf
  <2>2. \A x : DescribesRest(v, t, x) <=>
           /\ Payload(Member_(v, "listen")) = x[1]
           /\ Says(v, "request", Is_, x[2], TRUE) /\ Says(v, "response", Is_, x[3], TRUE)
    BY <1>8 DEF DescribesRest
  <2>3. D
    BY <1>4, <1>8
  <2> QED
    BY <1>1, <2>1, <2>2, <2>3, BackdoorIs, Zenon
<1> QED
  BY <1>5, <1>6, <1>7, <1>8 DEF ServerTypes

LEMMA ConstructedIs ==
  ASSUME NEW V, Values(V), NEW v \in V, Legal(v), OneRange
  PROVE  Constructed(v) # {} /\ \A s \in Constructed(v) : Describes(v, s[1], s[2])
<1>1. PICK t \in ServerTypes : /\ Required(v, "server", TypeOf) = {t}
                               /\ Payload(Member_(v, "server")) = Text(t)
  BY TypeIs
<1>2. Config(v) # {} /\ \A c \in Config(v) : DescribesConfig(v, c)
  BY ConfigIs
<1>3. RestOf(v, t) # {} /\ \A x \in RestOf(v, t) : DescribesRest(v, t, x)
  BY <1>1, RestIs
<1>4. Constructed(v) = {<<c, x>> : c \in Config(v), x \in RestOf(v, t)}
  <2> DEFINE T == Required(v, "server", TypeOf)
  <2>1. Constructed(v) = {<<c, x>> : c \in Config(v), x \in UNION {RestOf(v, s) : s \in T}}
    BY SMT DEF Constructed, RestOf
  <2>2. UNION {RestOf(v, s) : s \in {t}} = RestOf(v, t)
    OBVIOUS
  <2>3. T = {t}
    BY <1>1
  <2> HIDE DEF T
  <2> QED
    BY <2>1, <2>2, <2>3
<1>5. Constructed(v) # {}
  <2>1. PICK c \in Config(v), x \in RestOf(v, t) : TRUE
    BY <1>2, <1>3
  <2>2. <<c, x>> \in Constructed(v)
    BY <1>4
  <2> QED
    BY <2>2
<1>6. ASSUME NEW s \in Constructed(v)
      PROVE  Describes(v, s[1], s[2])
  <2>1. s[1] \in Config(v) /\ s[2] \in RestOf(v, t)
    BY <1>4
  <2>2. DescribesConfig(v, s[1]) /\ DescribesRest(v, t, s[2])
    BY <1>2, <1>3, <2>1
  <2>3. s[1].type = t
    BY <1>1, <2>2 DEF DescribesConfig, Text
  <2>4. DescribesRest(v, s[1].type, s[2])
    BY <2>2, <2>3
  <2> QED
    BY <2>2, <2>4, Zenon DEF Describes, DescribesConfig, DescribesRest
<1> QED
  BY <1>5, <1>6

-----------------------------------------------------------------------------
(* main() with a document that is as documented.                           *)

RootIs(v) ==
  /\ SaysIt(v, "daemon", daemon, TRUE)
  /\ SaysIt(v, "logpath", log[1], Text("syslog"))
  /\ Says(v, "loglevel", IsLevelOf, log[2], Text("info"))

LEMMA RootSettings ==
  ASSUME NEW v, LegalRoot(v), LoadRoot(v)
  PROVE  phase' = "load" /\ RootIs(v)' /\ UNCHANGED services
<1> DEFINE B == BoolsOf(v, "daemon", TRUE)
           P == StringsOf(v, "logpath", Text("syslog"))
           L == StringsOf(v, "loglevel", Text("info"))
<1>1. /\ IsObject(v) /\ Has(v, "services") /\ Maybe(v, "daemon", IsBool)
      /\ Maybe(v, "logpath", IsString) /\ Maybe(v, "loglevel", IsString)
  BY HasIs DEF LegalRoot, Given
<1>2. B # {} /\ \A b \in B : SaysIt(v, "daemon", b, TRUE)
  BY <1>1, BoolSetting, Zenon
<1>3. P # {} /\ \A p \in P : SaysIt(v, "logpath", p, Text("syslog"))
  BY <1>1, StringSetting, Zenon
<1>4. L # {} /\ \A l \in L : SaysIt(v, "loglevel", l, Text("info"))
  BY <1>1, StringSetting, Zenon
<1>5. IF (~IsNull(v) /\ ~IsObject(v)) \/ B = {}
        THEN phase' = "threw" /\ UNCHANGED <<daemon, log>>
      ELSE IF ~Has(v, "services") THEN phase' = "returned" /\ UNCHANGED <<daemon, log>>
      ELSE IF P = {} \/ L = {} THEN phase' = "threw" /\ UNCHANGED <<daemon, log>>
      ELSE /\ phase' = "load" /\ daemon' \in B
           /\ \E p \in P, l \in L : log' = <<p, Level_(l)>>
  BY Zenon DEF LoadRoot, BoolsOf, StringsOf
<1>6. UNCHANGED services
  BY DEF LoadRoot
<1> HIDE DEF B, P, L
<1>7. phase' = "load" /\ daemon' \in B /\ \E p \in P, l \in L : log' = <<p, Level_(l)>>
  BY <1>1, <1>2, <1>3, <1>4, <1>5
<1>8. PICK p \in P, l \in L : log' = <<p, Level_(l)>>
  BY <1>7
<1>9. log'[1] = p /\ log'[2] = Level_(l)
  BY <1>8
<1>10. Says(v, "loglevel", IsLevelOf, log'[2], Text("info"))
  <2>1. SaysIt(v, "loglevel", l, Text("info"))
    BY <1>4
  <2>2. CASE Text("loglevel") \in DOMAIN Payload(v)
    <3>1. Payload(Member_(v, "loglevel")) = l
      BY <2>1, <2>2, SaysIs
    <3>2. l \in {Text(k) : k \in Levels} => Level_(l) = l
      BY DEF Level_
    <3>3. IsLevelOf(Member_(v, "loglevel"), log'[2])
      BY <1>9, <3>1, <3>2, Zenon DEF IsLevelOf
    <3> QED
      BY <2>2, <3>3, Zenon DEF Says
  <2>3. CASE Text("loglevel") \notin DOMAIN Payload(v)
    <3>1. l = Text("info")
      BY <2>1, <2>3, SaysIs
    <3>2. Level_(l) = Text("info")
      BY <3>1, Zenon DEF Level_
    <3> QED
      BY <1>9, <2>3, <3>2, Zenon DEF Says
  <2> QED
    BY <2>2, <2>3
<1> QED
  BY <1>2, <1>3, <1>6, <1>7, <1>8, <1>9, <1>10, Zenon DEF RootIs

\* The services ss are those in front of one that is not as documented.
StopsAt(v, ss) ==
  LET nodes_ == Member_(v, "services")
      names == MemberNames(nodes_)
  IN Len(ss) < Len(names) /\ ~Legal(At(nodes_, names[Len(ss) + 1]))

\* What SettingsOf says of the program, without its services.
SettingsInv(v) ==
  /\ phase \in {"load", "running"} => RootIs(v)
  /\ phase \in {"returned", "threw"} => StopsAt(v, services)

\* A service as documented is constructed.
LEMMA LegalLoads ==
  ASSUME NEW V, Values(V), OneRange, NEW v \in V, LegalRoot(v), LoadService(v),
         phase' # "load"
  PROVE  /\ StopsAt(v, services) /\ phase' \in {"returned", "threw"}
         /\ UNCHANGED <<services, daemon, log>>
<1> DEFINE node == Member_(v, "services")
           names == MemberNames(node)
           k == Len(services) + 1
           service == At(node, names[k])
           u == Member_(service, "server")
           types == AsString(u)
           Ends(p) == phase' = p /\ UNCHANGED services
<1>1. IsObject(node) /\ ~IsArray(node)
  BY DEF LegalRoot, Given, IsObject, IsArray
<1>2. Keys(node) = names
  BY <1>1, Zenon DEF Keys
<1>3. /\ k <= Len(names)
      /\ phase = "load" /\ UNCHANGED <<daemon, log>>
      /\ IF IsArray(node) \/ (~IsNull(service) /\ ~IsObject(service)) \/ types = {}
           THEN Ends("threw")
         ELSE IF types = {<<>>} \/ TypeOf(u) = {} THEN Ends("returned")
         ELSE IF Constructed(service) = {} THEN Ends("threw")
         ELSE /\ \E c \in Constructed(service), listens \in BOOLEAN :
                   services' = Append(services, <<names[k], c, listens>>)
              /\ UNCHANGED phase
  BY <1>2, Zenon DEF LoadService
<1>4. service \in V
  <2>1. node \in V
    BY AtIn DEF LegalRoot, Member_
  <2> QED
    BY <1>1, <2>1, AtIn
<1>5. Legal(service) => /\ IsObject(service) /\ Constructed(service) # {}
                        /\ types # {} /\ types # {<<>>} /\ TypeOf(u) # {}
  <2> SUFFICES ASSUME Legal(service)
               PROVE  /\ IsObject(service) /\ Constructed(service) # {}
                      /\ types # {} /\ types # {<<>>} /\ TypeOf(u) # {}
    OBVIOUS
  <2>1. IsObject(service) /\ Has(service, "server") /\ IsServer(u)
    <3>1. IsObject(service) /\ Given(service, "server", IsServer)
      BY Zenon DEF Legal
    <3> HIDE DEF service
    <3> QED
      BY <3>1, HasIs DEF Given
  <2>2. PICK t \in ServerTypes : Required(service, "server", TypeOf) = {t}
    <3> HIDE DEF service
    <3> QED
      BY TypeIs
  <2>3. TypeOf(u) = {t}
    BY <2>1, <2>2, Zenon DEF Required
  <2>4. \E s \in types : s = Text(t)
    <3> HIDE DEF u
    <3> QED
      BY <2>3 DEF TypeOf, ServerTypeFromString
  <2>5. Text(t) # <<>>
    BY DEF Text
  <2>6. Constructed(service) # {}
    <3> HIDE DEF service
    <3> QED
      BY <1>4, ConstructedIs
  <2> HIDE DEF types, service, u
  <2> QED
    BY <2>1, <2>3, <2>4, <2>5, <2>6
<1> HIDE DEF node, names, service, types, u
<1>6. ~Legal(service) /\ phase' \in {"returned", "threw"} /\ UNCHANGED services
  BY <1>1, <1>3, <1>5
<1> QED
  BY <1>3, <1>6 DEF StopsAt, node, names, service

LEMMA SettingsStep ==
  ASSUME NEW V, Values(V), OneRange, NEW v \in V, LegalRoot(v),
         SettingsInv(v), [Load(v)]_conf
  PROVE  SettingsInv(v)'
<1>1. ASSUME UNCHANGED <<daemon, log>>
      PROVE  RootIs(v)' <=> RootIs(v)
  BY <1>1, Zenon DEF RootIs
<1>2. ASSUME UNCHANGED services
      PROVE  StopsAt(v, services') <=> StopsAt(v, services)
  BY <1>2
<1>3. CASE LoadRoot(v)
  BY <1>3, RootSettings DEF SettingsInv
<1>4. CASE LoadService(v)
  <2>1. phase = "load" /\ UNCHANGED <<daemon, log>>
    BY <1>4 DEF LoadService
  <2>2. RootIs(v)'
    BY <1>1, <2>1 DEF SettingsInv
  <2>3. phase' \notin {"returned", "threw"} \/ StopsAt(v, services')
    BY <1>2, <1>4, LegalLoads
  <2> QED
    BY <2>2, <2>3 DEF SettingsInv
<1>5. CASE Run(v)
  BY <1>1, <1>5 DEF Run, SettingsInv
<1>6. CASE UNCHANGED conf
  BY <1>1, <1>2, <1>6 DEF conf, SettingsInv
<1> QED
  BY <1>3, <1>4, <1>5, <1>6 DEF Load

\* What the invariants come to: a service was constructed from its node.
LEMMA SettingsHold ==
  ASSUME NEW V, Values(V), OneRange, NEW v \in V, LegalRoot(v),
         ServicesInv(v), SettingsInv(v)
  PROVE  SettingsOf(v)
<1> DEFINE node == Member_(v, "services")
           names == MemberNames(node)
<1>1. IsObject(node) /\ node \in V
  BY AtIn DEF LegalRoot, Given, Member_
<1>2. Keys(node) = names
  BY <1>1, Zenon DEF Keys
<1>3. ASSUME NEW k \in 1 .. Len(services), Legal(At(node, names[k]))
      PROVE  Describes(At(node, names[k]), services[k][2][1], services[k][2][2])
  <2>1. DOMAIN services = 1 .. Len(services)
    BY PathFacts DEF ServicesInv
  <2>2. services[k][2] \in Constructed(At(node, names[k]))
    BY <1>2, <2>1, Zenon DEF ServicesInv, ServicesOf
  <2>3. At(node, names[k]) \in V
    BY <1>1, AtIn
  <2> HIDE DEF node, names
  <2> QED
    BY <1>3, <2>2, <2>3, ConstructedIs
<1>4. phase \in {"load", "running"} =>
        /\ Says(v, "daemon", Is_, daemon, TRUE)
        /\ Says(v, "logpath", Is_, log[1], Text("syslog"))
        /\ Says(v, "loglevel", IsLevelOf, log[2], Text("info"))
  BY Zenon DEF SettingsInv, RootIs, SaysIt
<1>5. phase \in {"returned", "threw"} => StopsAt(v, services)
  BY DEF SettingsInv
<1> QED
  BY <1>3, <1>4, <1>5, Zenon DEF SettingsOf, StopsAt

\* main(), for every document whose root is as documented: the program has the
\* daemon, log path and log level that are written, or the defaults; every service
\* that is as documented is constructed, with the type, port, address, source filter,
\* threads, buffer size, proxies, whitelist, destinations, users and the rest that are
\* written under its name, or the defaults; what ends the program is a service that is
\* not as documented.
THEOREM SettingsAsWritten ==
  ASSUME NEW V, Values(V), OneRange, NEW v \in V, LegalRoot(v)
  PROVE  Loading(v) => [](ServicesOf(v) /\ PortsFit /\ SettingsOf(v))
<1>0. Size(Member_(v, "services")) \in Nat
  <2> DEFINE node == Member_(v, "services")
  <2>1. IsObject(node) /\ node \in V
    BY AtIn DEF LegalRoot, Given, Member_
  <2> HIDE DEF node
  <2>2. PICK S : IsFiniteSet(S) /\ Payload(node) \in [S -> V]
    BY <2>1 DEF Values
  <2>3. Size(node) = Cardinality(DOMAIN Payload(node))
    BY <2>1 DEF Size, IsObject, IsArray
  <2>4. DOMAIN Payload(node) = S
    BY <2>2
  <2> QED
    BY <2>2, <2>3, <2>4, FS_CardinalityType DEF node
<1>1. Off => ServicesInv(v) /\ SettingsInv(v)
  <2>1. Off => SettingsInv(v)
    BY DEF Off, SettingsInv
  <2> QED
    BY <1>0, <2>1, LoadedInit
<1>2. ServicesInv(v) /\ SettingsInv(v) /\ [Load(v)]_conf => (ServicesInv(v) /\ SettingsInv(v))'
  BY LoadedStep, SettingsStep
<1>3. ServicesInv(v) /\ SettingsInv(v) => ServicesOf(v) /\ PortsFit /\ SettingsOf(v)
  <2>1. ServicesInv(v) => ServicesOf(v) /\ PortsFit
    BY ServicesFit DEF ServicesInv
  <2> QED
    BY <2>1, SettingsHold
<1> QED
  BY <1>1, <1>2, <1>3, PTL DEF Loading

=============================================================================
