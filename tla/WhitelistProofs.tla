-------------------------- MODULE WhitelistProofs --------------------------
(***************************************************************************)
(* For every set of strings, every bound and every address: what the       *)
(* whitelist answers.  SearchInv of Whitelist is inductive; Sound and      *)
(* Exact follow from it, whatever RangeOf is.  The second part is about    *)
(* the ranges that g_string_to_range makes, for words of any width.        *)
(***************************************************************************)
EXTENDS Networks, TLAPS, FiniteSetTheorems

\* A probe splits what is left to search at a position inside it.
LEMMA HalfInside ==
  ASSUME NEW n \in Nat, n > 0
  PROVE  n \div 2 \in 0 .. n - 1
BY SMT

\* Without overlap the upper ends are in the order of the lower ends, which is
\* what lower_bound needs of the comparison it is given.
LEMMA UpperEndsOrdered ==
  ASSUME list \in Seq(Interval), Disjoint,
         NEW m \in DOMAIN list, NEW n \in DOMAIN list, m <= n
  PROVE  list[m].high <= list[n].high
<1>1. m \in 1 .. Len(list) /\ n \in 1 .. Len(list)
  OBVIOUS
<1>2. list[m] \in Interval /\ list[n] \in Interval
  BY <1>1
<1>3. CASE m = n
  BY <1>2, <1>3 DEF Interval
<1>4. CASE m < n
  <2>1. list[m].high < list[n].low /\ list[n].low <= list[n].high
    BY <1>4 DEF Disjoint
  <2> QED
    BY <1>2, <2>1 DEF Interval
<1> QED
  BY <1>1, <1>3, <1>4

LEMMA SearchInit == Init => SearchInv
<1> SUFFICES ASSUME Init PROVE SearchInv
  OBVIOUS
<1>1. config \in Seq(Entries) /\ list \in Seq(Interval)
  BY DEF Init
<1>2. Len(config) = 0 /\ Len(list) = 0
  BY DEF Init
<1>3. /\ ip = 0 /\ first \in Nat \ {0} /\ len \in Nat
      /\ pc = "load" /\ 0 <= MaxEntries
  BY WhitelistAssumption DEF Init
<1>4. found \in BOOLEAN
  BY DEF Init
<1> QED
  BY <1>1, <1>2, <1>3, <1>4 DEF SearchInv

\* Reading a string appends one range and leaves the search alone.
LEMMA ReadKeeps ==
  ASSUME SearchInv, NEW e \in Entries, ReadEntry(e)
  PROVE  SearchInv'
<1>1. RangeOf(e) \in Interval
  BY WhitelistAssumption
<1>2. /\ config' \in Seq(Entries) /\ Len(config') = Len(config) + 1
      /\ list' \in Seq(Interval) /\ Len(list') = Len(list) + 1
  BY <1>1 DEF SearchInv, ReadEntry
<1>3. Len(list') <= MaxEntries
  BY <1>2, WhitelistAssumption DEF SearchInv, ReadEntry
<1> QED
  BY <1>2, <1>3 DEF SearchInv, ReadEntry

LEMMA SortKeeps ==
  ASSUME SearchInv, Sort
  PROVE  SearchInv'
<1>1. Len(list) \in 0 .. MaxEntries
  BY WhitelistAssumption DEF SearchInv
<1>2. PICK p \in Orders[Len(list)] : list' = [n \in 1 .. Len(list) |-> list[p[n]]]
  BY DEF Sort
<1>3. p \in [1 .. Len(list) -> 1 .. Len(list)]
  BY <1>1, <1>2 DEF Orders
<1>4. \A n \in 1 .. Len(list) : list[p[n]] \in Interval
  BY <1>3 DEF SearchInv
<1>5. list' \in Seq(Interval) /\ Len(list') = Len(list)
  BY <1>1, <1>2, <1>4
<1> QED
  BY <1>5 DEF SearchInv, Sort

\* A search starts with the whole list, so nothing is claimed of its ends.
LEMMA LookupKeeps ==
  ASSUME SearchInv, NEW a \in Addrs, Lookup(a)
  PROVE  SearchInv'
<1>1. ip' \in Nat /\ first' = 1 /\ len' = Len(list) /\ Len(list) \in Nat
  BY WhitelistAssumption DEF Lookup, SearchInv
<1>2. \A n \in DOMAIN list' : ~(n < first') /\ ~(n >= first' + len')
  BY <1>1 DEF Lookup, SearchInv
<1> QED
  BY <1>1, <1>2 DEF SearchInv, Lookup

LEMMA ProbeKeeps ==
  ASSUME SearchInv, Probe
  PROVE  SearchInv'
<1> DEFINE half == len \div 2
           mid == first + half
<1>1. /\ list \in Seq(Interval) /\ Len(list) \in Nat /\ ip \in Nat
      /\ first \in Nat \ {0} /\ len \in Nat /\ len > 0
      /\ first + len <= Len(list) + 1
      /\ UNCHANGED <<config, list, ip, pc, found>> /\ pc = "search"
  BY DEF SearchInv, Probe
<1>2. half \in Nat /\ half < len
  BY <1>1, HalfInside
<1>3. mid \in 1 .. Len(list) /\ list[mid] \in Interval
  BY <1>1, <1>2
<1>4. IF list[mid].high < ip
        THEN first' = mid + 1 /\ len' = len - half - 1
        ELSE first' = first /\ len' = half
  BY DEF Probe, Below
<1>5. mid \in Nat /\ mid = first + half
  BY <1>1, <1>2
<1> HIDE DEF half, mid
<1>6. first' \in Nat \ {0} /\ len' \in Nat /\ first' + len' <= Len(list) + 1
  BY <1>1, <1>2, <1>4, <1>5
<1>7. ASSUME Disjoint, NEW n \in DOMAIN list
      PROVE  /\ n < first' => list[n].high < ip
             /\ n >= first' + len' => ip <= list[n].high
  <2>1. n \in 1 .. Len(list) /\ list[n] \in Interval
    BY <1>1
  <2>2. /\ n < first => list[n].high < ip
        /\ n >= first + len => ip <= list[n].high
    BY <1>1, <1>7 DEF SearchInv
  <2>3. CASE list[mid].high < ip
    <3>1. n < mid + 1 => list[n].high <= list[mid].high
      BY <1>1, <1>3, <1>5, <1>7, <2>1, UpperEndsOrdered
    <3>2. list[mid].high \in Nat /\ list[n].high \in Nat
      BY <1>3, <2>1 DEF Interval
    <3>3. first' = mid + 1 /\ first' + len' = first + len
      BY <1>1, <1>2, <1>4, <1>5, <2>3
    <3>4. n < mid + 1 => list[n].high < ip
      BY <1>1, <2>3, <3>1, <3>2
    <3> QED
      BY <2>2, <3>3, <3>4
  <2>4. CASE ~(list[mid].high < ip)
    <3>1. n >= mid => list[mid].high <= list[n].high
      BY <1>1, <1>3, <1>5, <1>7, <2>1, UpperEndsOrdered
    <3>2. list[mid].high \in Nat /\ list[n].high \in Nat
      BY <1>3, <2>1 DEF Interval
    <3>3. first' = first /\ first' + len' = mid
      BY <1>1, <1>2, <1>4, <1>5, <2>4
    <3>4. n >= mid => ip <= list[n].high
      BY <1>1, <2>4, <3>1, <3>2
    <3> QED
      BY <2>2, <3>3, <3>4
  <2> QED
    BY <2>3, <2>4
<1> QED
  BY <1>1, <1>6, <1>7 DEF SearchInv, Disjoint

LEMMA AnswerKeeps ==
  ASSUME SearchInv, Answer
  PROVE  SearchInv'
BY DEF SearchInv, Answer, Hit, Disjoint, Contains

LEMMA SearchStep == SearchInv /\ [Next]_vars => SearchInv'
<1> SUFFICES ASSUME SearchInv, [Next]_vars PROVE SearchInv'
  OBVIOUS
<1>1. CASE \E e \in Entries : ReadEntry(e)
  BY <1>1, ReadKeeps
<1>2. CASE Sort
  BY <1>2, SortKeeps
<1>3. CASE \E a \in Addrs : Lookup(a)
  BY <1>3, LookupKeeps
<1>4. CASE Probe
  BY <1>4, ProbeKeeps
<1>5. CASE Answer
  BY <1>5, AnswerKeeps
<1>6. CASE UNCHANGED vars
  BY <1>6 DEF vars, SearchInv, Disjoint, Contains
<1> QED
  BY <1>1, <1>2, <1>3, <1>4, <1>5, <1>6 DEF Next

\* The search of is_ip_in_whitelist keeps its invariant, for every whitelist.
THEOREM SearchKeepsInvariant == Spec => []SearchInv
BY SearchInit, SearchStep, PTL DEF Spec

\* Whatever the strings are, overlapping or not, TCPRELAY takes no address for
\* whitelisted that none of their ranges contains.
THEOREM OnlyListedAddresses == Spec => []Sound
<1>1. SearchInv => Sound
  BY DEF SearchInv, Sound, Covered
<1> QED
  BY <1>1, SearchKeepsInvariant, PTL

\* When the ranges do not overlap, is_ip_in_whitelist finds exactly the
\* addresses they contain.
THEOREM DisjointListsAreExact == Spec => []Exact
<1>1. ASSUME SearchInv, pc = "done", Disjoint, NEW n \in DOMAIN list,
             Contains(list[n], ip)
      PROVE  found
  <2>1. /\ list \in Seq(Interval) /\ Len(list) \in Nat /\ ip \in Nat
        /\ first \in Nat \ {0} /\ len = 0 /\ n \in 1 .. Len(list)
        /\ list[n] \in Interval
    BY <1>1 DEF SearchInv
  <2>2. n >= first
    <3>1. n < first => list[n].high < ip
      BY <1>1 DEF SearchInv
    <3> QED
      BY <1>1, <2>1, <3>1 DEF Contains, Interval
  <2>3. first \in DOMAIN list /\ list[first] \in Interval /\ ip <= list[first].high
    <3>1. first \in 1 .. Len(list)
      BY <2>1, <2>2
    <3>2. first >= first + len => ip <= list[first].high
      BY <1>1, <2>1, <3>1 DEF SearchInv
    <3> QED
      BY <2>1, <3>1, <3>2
  <2>4. n = first
    <3>1. first < n => list[first].high < list[n].low
      BY <1>1, <2>3 DEF Disjoint
    <3> QED
      BY <1>1, <2>1, <2>2, <2>3, <3>1 DEF Contains, Interval
  <2> QED
    BY <1>1, <2>3, <2>4 DEF SearchInv
<1>2. SearchInv => Sound
  BY DEF SearchInv, Sound, Covered
<1>3. SearchInv => Exact
  <2>1. ASSUME SearchInv, pc = "done", Disjoint PROVE found <=> Covered
    <3>1. found => Covered
      BY <1>2, <2>1 DEF Sound
    <3>2. Covered => found
      BY <1>1, <2>1 DEF Covered
    <3>3. found \in BOOLEAN /\ Covered \in BOOLEAN
      BY <2>1 DEF SearchInv, Covered
    <3> QED
      BY <3>1, <3>2, <3>3
  <2> QED
    BY <2>1 DEF Exact
<1> QED
  BY <1>3, SearchKeepsInvariant, PTL

-----------------------------------------------------------------------------
(* Induction.                                                              *)

\* A set of numbers that has one has a smallest.
LEMMA Smallest ==
  ASSUME NEW S \in SUBSET Nat, S # {}
  PROVE  \E m \in S : \A k \in S : m <= k
<1> DEFINE R == OpToRel(<, Nat)
<1>1. \E m \in S : \A k \in S : <<k, m>> \notin R
  BY NatLessThanWellFounded, WFMin
<1>2. \A k, m \in Nat : k < m => <<k, m>> \in R
  BY Zenon DEF OpToRel
<1> HIDE DEF R
<1>3. \A k, m \in S : <<k, m>> \notin R => m <= k
  <2> SUFFICES ASSUME NEW k \in S, NEW m \in S, ~(m <= k) PROVE <<k, m>> \in R
    OBVIOUS
  <2>1. k < m
    OBVIOUS
  <2> QED
    BY <2>1, <1>2
<1> QED
  BY <1>1, <1>3

\* Induction for the set of the numbers that have a property.
LEMMA Induct ==
  ASSUME NEW S, 0 \in S, \A n \in Nat : n \in S => n + 1 \in S
  PROVE  Nat \subseteq S
<1> SUFFICES ASSUME Nat \ S # {} PROVE FALSE
  OBVIOUS
<1>1. PICK m \in Nat \ S : \A k \in Nat \ S : m <= k
  BY Smallest
<1>2. m # 0 /\ m - 1 \in Nat
  BY <1>1
<1>3. m - 1 \in S
  BY <1>1, <1>2
<1>4. (m - 1) + 1 \in S
  BY <1>2, <1>3
<1> QED
  BY <1>1, <1>2, <1>4

-----------------------------------------------------------------------------
(* Powers of two, as numbers of sets.                                      *)

LEMMA SetsOf ==
  ASSUME NEW n \in Nat
  PROVE  IsFiniteSet(SUBSET (1 .. n)) /\ Cardinality(SUBSET (1 .. n)) = 2^n
<1>1. IsFiniteSet(1 .. n) /\ Cardinality(1 .. n) = n
  BY FS_Interval
<1> QED
  BY <1>1, FS_SUBSET

LEMMA TwiceAsMany ==
  ASSUME NEW S, IsFiniteSet(S), NEW T, S \cap T = {}, NEW f \in Bijection(S, T)
  PROVE  Cardinality(S) \in Nat /\ Cardinality(S \cup T) = 2 * Cardinality(S)
<1>1. IsFiniteSet(T) /\ Cardinality(T) = Cardinality(S)
  <2>1. ExistsBijection(S, T)
    BY Zenon DEF ExistsBijection
  <2> QED
    BY <2>1, FS_Bijection
<1>2. Cardinality(S \cup T) = Cardinality(S) + Cardinality(T) - Cardinality({})
  BY <1>1, FS_Union
<1>3. Cardinality({}) = 0
  BY FS_EmptySet
<1>4. Cardinality(S) \in Nat
  BY FS_CardinalityType
<1> QED
  BY <1>1, <1>2, <1>3, <1>4

LEMMA TwiceAsManySubsets ==
  ASSUME NEW S, IsFiniteSet(S), NEW x, x \notin S
  PROVE  Cardinality(SUBSET (S \cup {x})) = 2 * Cardinality(SUBSET S)
<1> DEFINE new == {T \cup {x} : T \in SUBSET S}
           f == [T \in SUBSET S |-> T \cup {x}]
<1>1. f \in Bijection(SUBSET S, new)
  <2>1. f \in [SUBSET S -> new] /\ \A U \in new : \E T \in SUBSET S : f[T] = U
    OBVIOUS
  <2>2. \A T, U \in SUBSET S : f[T] = f[U] => T = U
    <3> SUFFICES ASSUME NEW T \in SUBSET S, NEW U \in SUBSET S, f[T] = f[U] PROVE T = U
      OBVIOUS
    <3>1. T \cup {x} = U \cup {x}
      OBVIOUS
    <3>2. T = (T \cup {x}) \ {x} /\ U = (U \cup {x}) \ {x}
      OBVIOUS
    <3> QED
      BY <3>1, <3>2
  <2> QED
    BY <2>1, <2>2 DEF Bijection, Injection, Surjection, IsInjective
<1>2. IsFiniteSet(SUBSET S)
  BY FS_SUBSET
<1>3. (SUBSET S) \cap new = {}
  OBVIOUS
<1>4. SUBSET (S \cup {x}) = (SUBSET S) \cup new
  <2>1. ASSUME NEW T \in SUBSET (S \cup {x}), x \in T PROVE T \in new
    <3>1. T \ {x} \in SUBSET S /\ T = (T \ {x}) \cup {x}
      BY <2>1
    <3> QED
      BY <3>1
  <2>2. ASSUME NEW T \in SUBSET (S \cup {x}), x \notin T PROVE T \in SUBSET S
    BY <2>2
  <2>3. ASSUME NEW T \in SUBSET S PROVE T \cup {x} \in SUBSET (S \cup {x})
    OBVIOUS
  <2> QED
    BY <2>1, <2>2, <2>3
<1> HIDE DEF new, f
<1> QED
  BY <1>1, <1>2, <1>3, <1>4, TwiceAsMany

LEMMA TwoToTheNext ==
  ASSUME NEW n \in Nat
  PROVE  2^(n + 1) = 2 * 2^n
<1>1. 1 .. n + 1 = (1 .. n) \cup {n + 1} /\ n + 1 \notin 1 .. n
  OBVIOUS
<1>5. IsFiniteSet(1 .. n)
  BY FS_Interval
<1>2. Cardinality(SUBSET (1 .. n)) = 2^n
  BY SetsOf
<1>3. Cardinality(SUBSET (1 .. n + 1)) = 2^(n + 1)
  BY SetsOf
<1>4. Cardinality(SUBSET ((1 .. n) \cup {n + 1})) = 2 * Cardinality(SUBSET (1 .. n))
  BY <1>1, <1>5, TwiceAsManySubsets
<1> QED
  BY <1>1, <1>2, <1>3, <1>4

LEMMA TwoToThe ==
  ASSUME NEW n \in Nat
  PROVE  2^n \in Nat \ {0}
<1> DEFINE S == {k \in Nat : 2^k \in Nat \ {0}}
<1>1. 2^0 = 1
  BY SMT
<1>2. ASSUME NEW k \in Nat, k \in S PROVE k + 1 \in S
  <2>1. 2^(k + 1) = 2 * 2^k /\ 2^k \in Nat \ {0}
    BY <1>2, TwoToTheNext
  <2> QED
    BY <2>1
<1> HIDE DEF S
<1>3. 0 \in S
  BY <1>1 DEF S
<1>4. n \in S
  BY <1>2, <1>3, Induct
<1> QED
  BY <1>4 DEF S

LEMMA TwoToTheSum ==
  ASSUME NEW a \in Nat, NEW b \in Nat
  PROVE  2^(a + b) = 2^a * 2^b
<1> DEFINE S == {k \in Nat : 2^(a + k) = 2^a * 2^k}
<1>1. 2^0 = 1 /\ a + 0 = a
  BY SMT
<1>2. ASSUME NEW k \in Nat, k \in S PROVE k + 1 \in S
  <2>1. 2^(a + k) = 2^a * 2^k
    BY <1>2
  <2>2. 2^(a + (k + 1)) = 2 * 2^(a + k)
    <3>1. 2^((a + k) + 1) = 2 * 2^(a + k)
      BY TwoToTheNext
    <3>2. (a + k) + 1 = a + (k + 1)
      OBVIOUS
    <3> QED
      BY <3>1, <3>2
  <2>3. 2^(k + 1) = 2 * 2^k
    BY TwoToTheNext
  <2>4. 2^a \in Nat /\ 2^k \in Nat
    BY TwoToThe
  <2>5. 2 * (2^a * 2^k) = 2^a * (2 * 2^k)
    BY <2>4
  <2> QED
    BY <2>1, <2>2, <2>3, <2>5
<1> HIDE DEF S
<1>3. 0 \in S
  BY <1>1, TwoToThe DEF S
<1>4. b \in S
  BY <1>2, <1>3, Induct
<1> QED
  BY <1>4 DEF S

LEMMA TwoToTheMore ==
  ASSUME NEW a \in Nat, NEW b \in Nat, a <= b
  PROVE  2^b = 2^a * 2^(b - a) /\ 2^a <= 2^b
<1>1. b - a \in Nat /\ a + (b - a) = b
  OBVIOUS
<1>2. 2^b = 2^a * 2^(b - a)
  BY <1>1, TwoToTheSum
<1>3. 2^a \in Nat \ {0} /\ 2^(b - a) \in Nat \ {0}
  BY <1>1, TwoToThe
<1>4. \A x, y \in Nat \ {0} : x <= x * y
  BY SMT
<1> QED
  BY <1>2, <1>3, <1>4

-----------------------------------------------------------------------------
(* Division, and the bits of a word.                                       *)

LEMMA DivIs ==
  ASSUME NEW a \in Nat, NEW d \in Nat \ {0}, NEW q \in Nat,
         q * d <= a, a < q * d + d
  PROVE  a \div d = q
BY SMT

LEMMA DivBounds ==
  ASSUME NEW a \in Nat, NEW d \in Nat \ {0}
  PROVE  /\ a \div d \in Nat
         /\ (a \div d) * d <= a /\ a < (a \div d) * d + d
BY SMT

LEMMA DivDiv ==
  ASSUME NEW a \in Nat, NEW d \in Nat \ {0}, NEW c \in Nat \ {0}
  PROVE  a \div (d * c) = (a \div d) \div c
<1> DEFINE p == a \div d
           r == p \div c
<1>1. p \in Nat /\ p * d <= a /\ a < p * d + d
  BY DivBounds
<1>2. r \in Nat /\ r * c <= p /\ p < r * c + c
  BY <1>1, DivBounds
<1> HIDE DEF p, r
<1>3. r * c \in Nat /\ p + 1 <= r * c + c
  BY <1>1, <1>2
<1>4. \A m, n \in Nat : m <= n => m * d <= n * d
  BY SMT
<1>5. (r * c) * d <= p * d /\ (p + 1) * d <= (r * c + c) * d
  BY <1>1, <1>2, <1>3, <1>4
<1>6. (r * c) * d = r * (d * c) /\ (r * c + c) * d = r * (d * c) + d * c
      /\ (p + 1) * d = p * d + d /\ d * c \in Nat \ {0}
  BY <1>1, <1>2, SMT
<1>7. p * d \in Nat /\ r * (d * c) \in Nat
  BY <1>1, <1>2, <1>6
<1>8. r * (d * c) <= a /\ a < r * (d * c) + d * c
  BY <1>1, <1>5, <1>6, <1>7
<1>9. a \div (d * c) = r
  BY <1>2, <1>6, <1>8, DivIs
<1> QED
  BY <1>9 DEF p, r

Bit(x, b) == (x \div 2^b) % 2

LEMMA OnesAre ==
  ASSUME NEW x
  PROVE  Ones(x) = {b \in 0 .. Width - 1 : Bit(x, b) = 1}
BY DEF Ones, Bit

LEMMA WordsAre ==
  /\ 2^Width \in Nat \ {0} /\ Words = {x \in Nat : x < 2^Width} /\ AllOnes \in Words
<1>1. 2^Width \in Nat \ {0}
  BY WidthAssumption, TwoToThe
<1> QED
  BY <1>1 DEF Words, AllOnes

\* A word is determined by its ones.
LEMMA OnesDetermine ==
  ASSUME NEW x \in Words, NEW y \in Words, Ones(x) = Ones(y)
  PROVE  x = y
<1> DEFINE S == {n \in Nat : n <= Width => x \div 2^(Width - n) = y \div 2^(Width - n)}
<1>1. x \in Nat /\ y \in Nat /\ x < 2^Width /\ y < 2^Width /\ 2^Width \in Nat \ {0}
  BY WordsAre
<1>2. 0 \in S
  <2>1. x \div 2^Width = 0 /\ y \div 2^Width = 0
    <3>1. 0 * 2^Width = 0
      BY <1>1
    <3> QED
      BY <1>1, <3>1, DivIs
  <2>2. Width - 0 = Width
    BY WidthAssumption
  <2> QED
    BY <2>1, <2>2
<1>3. ASSUME NEW n \in Nat, n \in S PROVE n + 1 \in S
  <2> SUFFICES ASSUME n + 1 <= Width
               PROVE  x \div 2^(Width - (n + 1)) = y \div 2^(Width - (n + 1))
    OBVIOUS
  <2> DEFINE b == Width - (n + 1)
  <2>1. b \in 0 .. Width - 1 /\ b + 1 = Width - n /\ n <= Width
    BY WidthAssumption
  <2> HIDE DEF b
  <2>2. 2^(b + 1) = 2^b * 2 /\ 2^b \in Nat \ {0}
    BY <2>1, TwoToTheNext, TwoToThe
  <2>3. x \div 2^(b + 1) = y \div 2^(b + 1)
    BY <1>3, <2>1
  <2>4. (x \div 2^b) \div 2 = (y \div 2^b) \div 2
    BY <1>1, <2>2, <2>3, DivDiv
  <2>5. Bit(x, b) = 1 <=> Bit(y, b) = 1
    BY <2>1, OnesAre
  <2>6. x \div 2^b \in Nat /\ y \div 2^b \in Nat
    BY <1>1, <2>2, DivBounds
  <2>7. \A m, k \in Nat : m \div 2 = k \div 2 /\ (m % 2 = 1 <=> k % 2 = 1) => m = k
    BY SMT
  <2>8. x \div 2^b = y \div 2^b
    BY <2>4, <2>5, <2>6, <2>7 DEF Bit
  <2> QED
    BY <2>8 DEF b
<1> HIDE DEF S
<1>4. Width \in S
  BY <1>2, <1>3, Induct, WidthAssumption
<1>5. x \div 1 = y \div 1
  <2>1. Width - Width = 0 /\ Width <= Width
    BY WidthAssumption
  <2>2. 2^0 = 1
    BY SMT
  <2> QED
    BY <1>4, <2>1, <2>2 DEF S
<1>6. x \div 1 = x /\ y \div 1 = y
  BY <1>1
<1> QED
  BY <1>5, <1>6

LEMMA WordOfOnes ==
  ASSUME NEW x \in Words, NEW S, Ones(x) = S
  PROVE  Word(S) = x
BY OnesDetermine DEF Word

-----------------------------------------------------------------------------
(* A prefix of Width - k bits: its mask, and the two ends of its range.    *)

\* Below the k-th bit: of a multiple of 2^k, and of what is one less.
LEMMA BitsBelow ==
  ASSUME NEW k \in Nat, NEW b \in 0 .. k - 1, NEW q \in Nat,
         NEW x, x = 2^k * q
  PROVE  Bit(x, b) = 0 /\ (q > 0 => Bit(x - 1, b) = 1)
<1> DEFINE c == 2^(k - (b + 1)) * q
<1>1. /\ 2^k = 2^(b + 1) * 2^(k - (b + 1)) /\ 2^(b + 1) = 2 * 2^b
      /\ 2^b \in Nat \ {0} /\ 2^(k - (b + 1)) \in Nat \ {0}
  BY TwoToTheMore, TwoToTheNext, TwoToThe
<1>2. c \in Nat /\ (q > 0 => c > 0)
  BY <1>1, SMT
<1>3. 2^k * q = (2 * c) * 2^b
  BY <1>1, SMT
<1> HIDE DEF c
<1>4. (2 * c) * 2^b \in Nat
  BY <1>1, <1>2, SMT
<1>5. (2^k * q) \div 2^b = 2 * c
  <2>1. (2 * c) * 2^b < (2 * c) * 2^b + 2^b
    BY <1>1, <1>4
  <2> QED
    BY <1>1, <1>2, <1>3, <1>4, <2>1, DivIs
<1>6. ASSUME q > 0 PROVE (2^k * q - 1) \div 2^b = 2 * c - 1
  <2>1. 2 * c - 1 \in Nat /\ (2 * c - 1) * 2^b = (2 * c) * 2^b - 2^b
    BY <1>1, <1>2, <1>6, SMT
  <2>2. (2 * c) * 2^b - 2^b \in Nat
    BY <1>1, <2>1, SMT
  <2>3. (2 * c) * 2^b - 1 \in Nat
    BY <1>1, <1>4, <2>2
  <2>4. /\ (2 * c - 1) * 2^b <= (2 * c) * 2^b - 1
        /\ (2 * c) * 2^b - 1 < (2 * c - 1) * 2^b + 2^b
    BY <1>1, <1>4, <2>1
  <2>5. ((2 * c) * 2^b - 1) \div 2^b = 2 * c - 1
    BY <1>1, <2>1, <2>3, <2>4, DivIs
  <2> QED
    BY <1>3, <2>5
<1>7. (2 * c) % 2 = 0 /\ (c > 0 => (2 * c - 1) % 2 = 1)
  BY <1>2
<1> QED
  BY <1>2, <1>5, <1>6, <1>7 DEF Bit

\* From the k-th bit on only the quotient counts.
LEMMA BitsAbove ==
  ASSUME NEW k \in Nat, NEW b \in Nat, k <= b, NEW x \in Nat, NEW q, q = x \div 2^k
  PROVE  Bit(x, b) = Bit(q, b - k)
<1>1. /\ 2^b = 2^k * 2^(b - k) /\ b - k \in Nat
      /\ 2^k \in Nat \ {0} /\ 2^(b - k) \in Nat \ {0}
  BY TwoToTheMore, TwoToThe
<1>2. x \div 2^b = (x \div 2^k) \div 2^(b - k)
  <2> DEFINE d == 2^k
             c == 2^(b - k)
  <2>1. 2^b = d * c /\ d \in Nat \ {0} /\ c \in Nat \ {0}
    BY <1>1
  <2>2. x \div (d * c) = (x \div d) \div c
    <3> HIDE DEF d, c
    <3> QED
      BY <2>1, DivDiv
  <2> QED
    BY <2>1, <2>2
<1> QED
  BY <1>2 DEF Bit

\* The mask of a prefix.
LEMMA MaskOnes ==
  ASSUME NEW k \in 0 .. Width
  PROVE  /\ 2^Width - 2^k \in Words
         /\ Ones(2^Width - 2^k) = k .. Width - 1
         /\ Ones(2^k - 1) = 0 .. k - 1
         /\ 2^k - 1 \in Words
<1> DEFINE h == 2^k
           n == 2^(Width - k)
<1>1. /\ Width \in Nat /\ Width - k \in Nat
      /\ 2^Width = h * n /\ h <= 2^Width /\ h \in Nat \ {0} /\ n \in Nat \ {0}
      /\ 2^Width \in Nat
  BY WidthAssumption, TwoToTheMore, TwoToThe
<1>2. 2^Width - h \in Words /\ h - 1 \in Words
  BY <1>1, WordsAre
<1> DEFINE m == 2^Width - h
           g == h - 1
<1>3. /\ m = h * (n - 1) /\ n - 1 \in Nat /\ h = h * 1
      /\ m \in Nat /\ g \in Nat /\ m = (n - 1) * h
  BY <1>1, SMT
<1>4. ASSUME NEW b \in 0 .. Width - 1, b < k
      PROVE  Bit(m, b) = 0 /\ Bit(g, b) = 1
  <2>1. b \in 0 .. k - 1 /\ k \in Nat
    BY <1>4
  <2>2. Bit(m, b) = 0
    BY <1>3, <2>1, BitsBelow
  <2>3. Bit(g, b) = 1
    <3>1. 1 \in Nat /\ 1 > 0 /\ h = 2^k * 1 /\ g = h - 1
      BY <1>3
    <3> HIDE DEF h, g
    <3> QED
      BY <2>1, <3>1, BitsBelow
  <2> QED
    BY <2>2, <2>3
<1>5. ASSUME NEW b \in 0 .. Width - 1, k <= b
      PROVE  Bit(m, b) = 1 /\ Bit(g, b) = 0
  <2>1. m \div h = n - 1 /\ g \div h = 0
    <3>1. (n - 1) * h <= m /\ m < (n - 1) * h + h /\ 0 * h <= g /\ g < 0 * h + h
      BY <1>1, <1>3
    <3> HIDE DEF h, g, m, n
    <3> QED
      BY <1>1, <1>3, <3>1, DivIs
  <2>2. b - k \in 0 .. (Width - k) - 1 /\ b \in Nat /\ k \in Nat
    BY <1>1, <1>5
  <2>3. Bit(m, b) = Bit(n - 1, b - k) /\ Bit(g, b) = Bit(0, b - k)
    BY <1>3, <1>5, <2>1, <2>2, BitsAbove
  <2>4. Bit(n - 1, b - k) = 1
    <3>1. 1 \in Nat /\ 1 > 0 /\ n = 2^(Width - k) * 1
      BY <1>1
    <3> HIDE DEF n
    <3> QED
      BY <1>1, <2>2, <3>1, BitsBelow
  <2>5. Bit(0, b - k) = 0
    <3>1. 2^(b - k) \in Nat \ {0}
      BY <2>2, TwoToThe
    <3>2. 0 \div 2^(b - k) = 0
      BY <3>1, DivIs
    <3>3. 0 % 2 = 0
      OBVIOUS
    <3> QED
      BY <3>2, <3>3 DEF Bit
  <2> QED
    BY <2>3, <2>4, <2>5
<1>6. Ones(m) = k .. Width - 1 /\ Ones(g) = 0 .. k - 1
  <2>1. \A b \in 0 .. Width - 1 : (Bit(m, b) = 1 <=> k <= b) /\ (Bit(g, b) = 1 <=> b < k)
    BY <1>4, <1>5, <1>1
  <2> HIDE DEF m, g
  <2>2. Ones(m) = {b \in 0 .. Width - 1 : k <= b} /\ Ones(g) = {b \in 0 .. Width - 1 : b < k}
    BY <2>1, OnesAre
  <2> QED
    BY <1>1, <2>2
<1> QED
  BY <1>2, <1>6

\* The ends of the range of the addresses that share a prefix with a.
LEMMA EndsOnes ==
  ASSUME NEW k \in 0 .. Width, NEW a \in Words, NEW q, q = a \div 2^k
  PROVE  /\ 2^k * q \in Words /\ 2^k * q + (2^k - 1) \in Words
         /\ Ones(2^k * q) = Ones(a) \cap (k .. Width - 1)
         /\ Ones(2^k * q + (2^k - 1)) = (Ones(a) \cap (k .. Width - 1)) \cup (0 .. k - 1)
<1> DEFINE h == 2^k
           n == 2^(Width - k)
<1>1. /\ Width \in Nat /\ Width - k \in Nat
      /\ 2^Width = h * n /\ h <= 2^Width /\ h \in Nat \ {0} /\ n \in Nat \ {0}
      /\ 2^Width \in Nat \ {0}
  BY WidthAssumption, TwoToTheMore, TwoToThe
<1>2. /\ a \in Nat /\ a < 2^Width
      /\ q \in Nat /\ q * h <= a /\ a < q * h + h
  BY <1>1, WordsAre, DivBounds
<1>3. q < n
  <2>1. \A m \in Nat : n <= m => h * n <= h * m
    BY <1>1, SMT
  <2>2. h * q = q * h /\ h * q \in Nat
    BY <1>1, <1>2, SMT
  <2> QED
    BY <1>1, <1>2, <2>1, <2>2
<1>4. h * q + h <= h * n /\ h * q \in Nat
  <2>1. q + 1 <= n /\ h * (q + 1) = h * q + h
    BY <1>1, <1>2, <1>3, SMT
  <2>2. \A m \in Nat : m <= n => h * m <= h * n
    BY <1>1, SMT
  <2>3. h * (q + 1) <= h * n
    BY <1>1, <1>2, <2>1, <2>2
  <2> QED
    BY <1>1, <1>2, <2>1, <2>3, SMT
<1>5. h * q \in Words /\ h * q + (h - 1) \in Words
  BY <1>1, <1>4, WordsAre
<1> DEFINE low == h * q
           high == h * q + (h - 1)
<1>6. /\ low \in Nat /\ high \in Nat
      /\ q * h <= low /\ low < q * h + h /\ q * h <= high /\ high < q * h + h
      /\ q + 1 \in Nat /\ q + 1 > 0 /\ high = h * (q + 1) - 1
  BY <1>1, <1>2, <1>4, SMT
<1>7. ASSUME NEW b \in 0 .. Width - 1, k <= b
      PROVE  Bit(low, b) = Bit(a, b) /\ Bit(high, b) = Bit(a, b)
  <2>1. q = low \div h
    <3> HIDE DEF low, high, h
    <3> QED
      BY <1>1, <1>2, <1>6, DivIs
  <2>5. q = high \div h
    <3> HIDE DEF low, high, h
    <3> QED
      BY <1>1, <1>2, <1>6, DivIs
  <2>6. b \in Nat /\ k \in Nat
    BY <1>7
  <2> HIDE DEF low, high
  <2>2. Bit(low, b) = Bit(q, b - k)
    BY <1>6, <1>7, <2>1, <2>6, BitsAbove
  <2>3. Bit(high, b) = Bit(q, b - k)
    BY <1>6, <1>7, <2>5, <2>6, BitsAbove
  <2>4. Bit(a, b) = Bit(q, b - k)
    BY <1>2, <1>7, <2>6, BitsAbove
  <2> QED
    BY <2>2, <2>3, <2>4
<1>8. ASSUME NEW b \in 0 .. Width - 1, b < k
      PROVE  Bit(low, b) = 0 /\ Bit(high, b) = 1
  <2>1. b \in 0 .. k - 1 /\ k \in Nat
    BY <1>8
  <2>5. low = 2^k * q
    OBVIOUS
  <2>6. q \in Nat /\ q + 1 \in Nat /\ q + 1 > 0
    BY <1>2
  <2>2. Bit(low, b) = 0
    <3> HIDE DEF low
    <3> QED
      BY <2>1, <2>5, <2>6, BitsBelow
  <2> DEFINE more == q + 1
             next == h * more
  <2>3. next = 2^k * more /\ high = next - 1 /\ more \in Nat /\ more > 0
    BY <1>6
  <2>4. Bit(high, b) = 1
    <3> HIDE DEF high, next, more
    <3> QED
      BY <2>1, <2>3, BitsBelow
  <2> QED
    BY <2>2, <2>4
<1>9. \A b \in 0 .. Width - 1 :
        /\ Bit(low, b) = 1 <=> Bit(a, b) = 1 /\ k <= b
        /\ Bit(high, b) = 1 <=> (Bit(a, b) = 1 /\ k <= b) \/ b < k
  <2> HIDE DEF low, high
  <2> QED
    BY <1>7, <1>8
<1>10. /\ Ones(low) = Ones(a) \cap (k .. Width - 1)
       /\ Ones(high) = (Ones(a) \cap (k .. Width - 1)) \cup (0 .. k - 1)
  <2> HIDE DEF low, high
  <2>1. /\ Ones(low) = {b \in 0 .. Width - 1 : Bit(a, b) = 1 /\ k <= b}
        /\ Ones(high) = {b \in 0 .. Width - 1 : (Bit(a, b) = 1 /\ k <= b) \/ b < k}
        /\ Ones(a) = {b \in 0 .. Width - 1 : Bit(a, b) = 1}
    BY <1>9, OnesAre
  <2> QED
    BY <1>1, <2>1
<1> QED
  BY <1>5, <1>10

-----------------------------------------------------------------------------
(* From a string to its range.                                             *)

LEMMA ModIs ==
  ASSUME NEW x \in Nat, NEW d \in Nat \ {0}, NEW q \in Nat, NEW r \in Nat,
         x = q * d + r, r < d
  PROVE  x % d = r
BY SMT

LEMMA MaskOfPrefix ==
  ASSUME NEW s \in Strings, Accepts(s), IsPrefix(s),
         NEW k, k = Width - PrefixLen(s)
  PROVE  /\ k \in 0 .. Width /\ s.addr \in Words
         /\ Mask(s) = 2^Width - 2^k
<1>1. CASE s.kind = "prefix"
  <2>1. s.mask \in 1 .. Width /\ s.addr \in Words /\ k = Width - s.mask
    BY <1>1 DEF Strings, Accepts, PrefixLen
  <2>2. k \in 0 .. Width
    BY <2>1, WidthAssumption
  <2> DEFINE h == 2^k
             w == 2^Width
  <2>3. h \in Nat \ {0} /\ w \in Nat \ {0} /\ h <= w
    BY <2>2, WidthAssumption, TwoToThe, TwoToTheMore
  <2>4. Mask(s) = ((w - 1) * h) % w
    BY <1>1, <2>1 DEF Mask, AllOnes
  <2> HIDE DEF h, w
  <2>5. (w - 1) * h = (h - 1) * w + (w - h) /\ (w - 1) * h \in Nat
        /\ h - 1 \in Nat /\ w - h \in Nat /\ w - h < w
    BY <2>3, SMT
  <2>6. Mask(s) = w - h
    BY <2>3, <2>4, <2>5, ModIs
  <2> QED
    BY <2>1, <2>2, <2>6 DEF h, w
<1>2. CASE s.kind = "dotted"
  <2>1. s.mask \in Words /\ s.addr \in Words /\ Mask(s) = s.mask
    BY <1>2 DEF Strings, Mask
  <2>2. Ones(s.mask) \subseteq 0 .. Width - 1 /\ PrefixLen(s) = Cardinality(Ones(s.mask))
    BY <1>2 DEF Ones, PrefixLen
  <2>3. IsFiniteSet(0 .. Width - 1) /\ Cardinality(0 .. Width - 1) = Width
    BY FS_Interval, WidthAssumption
  <2>4. PrefixLen(s) \in 0 .. Width
    BY <2>2, <2>3, FS_Subset, FS_CardinalityType, WidthAssumption
  <2>5. k \in 0 .. Width
    BY <2>4, WidthAssumption
  <2>6. Ones(s.mask) = k .. Width - 1
    BY <1>2 DEF IsPrefix
  <2>7. 2^Width - 2^k \in Words /\ Ones(2^Width - 2^k) = k .. Width - 1
    BY <2>5, MaskOnes
  <2> QED
    BY <2>1, <2>5, <2>6, <2>7, OnesDetermine
<1> QED
  BY <1>1, <1>2 DEF Strings

\* And-ing a prefix mask and or-ing its complement give the two ends of the
\* network, whatever bits the address has behind the prefix.
LEMMA RangeOfPrefix ==
  ASSUME NEW s \in Strings, Accepts(s), IsPrefix(s),
         NEW k, k = Width - PrefixLen(s), NEW q, q = s.addr \div 2^k
  PROVE  StringToRange(s) = [low |-> 2^k * q, high |-> 2^k * q + (2^k - 1)]
<1> DEFINE m == 2^Width - 2^k
<1>1. k \in 0 .. Width /\ s.addr \in Words /\ Mask(s) = m
  BY MaskOfPrefix
<1>2. m \in Words /\ Ones(m) = k .. Width - 1 /\ Ones(2^k - 1) = 0 .. k - 1
  BY <1>1, MaskOnes
<1>3. /\ 2^k * q \in Words /\ 2^k * q + (2^k - 1) \in Words
      /\ Ones(2^k * q) = Ones(s.addr) \cap (k .. Width - 1)
      /\ Ones(2^k * q + (2^k - 1)) = (Ones(s.addr) \cap (k .. Width - 1)) \cup (0 .. k - 1)
  BY <1>1, EndsOnes
<1> DEFINE low == 2^k * q
           high == 2^k * q + (2^k - 1)
<1>4. And(s.addr, Mask(s)) = low
  <2> HIDE DEF low, m
  <2> QED
    BY <1>1, <1>2, <1>3, WordOfOnes DEF And, low
<1>5. Not(Mask(s)) = 2^k - 1
  <2>1. 2^Width \in Nat /\ 2^k \in Nat
    BY <1>1, TwoToThe, WidthAssumption
  <2> QED
    BY <1>1, <2>1 DEF Not, AllOnes
<1>6. Or(low, Not(Mask(s))) = high
  <2>1. Ones(low) \cup Ones(2^k - 1) = Ones(high)
    BY <1>2, <1>3
  <2> QED
    BY <1>3, <1>5, <2>1, WordOfOnes DEF Or
<1> QED
  BY <1>4, <1>6 DEF StringToRange

LEMMA RangeIsNetwork ==
  ASSUME NEW s \in Strings, Accepts(s), IsPrefix(s), NEW a \in Nat
  PROVE  Contains(StringToRange(s), a) <=> InNetwork(s, a)
<1> DEFINE k == Width - PrefixLen(s)
           h == 2^k
           q == s.addr \div h
<1>1. k \in 0 .. Width /\ s.addr \in Words
  BY MaskOfPrefix
<1>2. h \in Nat \ {0} /\ s.addr \in Nat
  BY <1>1, TwoToThe, WordsAre
<1>3. q \in Nat
  BY <1>2, DivBounds
<1>4. StringToRange(s) = [low |-> h * q, high |-> h * q + (h - 1)]
  <2> HIDE DEF k
  <2> QED
    BY RangeOfPrefix DEF k
<1>5. InNetwork(s, a) <=> q = a \div h
  BY DEF InNetwork
<1> HIDE DEF h, q
<1>6. h * q = q * h /\ q * h \in Nat
  BY <1>2, <1>3, SMT
<1>7. Contains(StringToRange(s), a) <=> q * h <= a /\ a < q * h + h
  BY <1>2, <1>4, <1>6 DEF Contains
<1>8. (q * h <= a /\ a < q * h + h) => q = a \div h
  BY <1>2, <1>3, DivIs
<1>9. q = a \div h => q * h <= a /\ a < q * h + h
  BY <1>2, DivBounds
<1> QED
  BY <1>5, <1>7, <1>8, <1>9

-----------------------------------------------------------------------------
\* What has been read is what is in the list, in whatever order.
Loaded ==
  {list[n] : n \in DOMAIN list} = {RangeOf(config[n]) : n \in DOMAIN config}

LEMMA SortLoaded ==
  ASSUME SearchInv, Loaded, Sort
  PROVE  Loaded'
<1>1. Len(list) \in 0 .. MaxEntries /\ DOMAIN list = 1 .. Len(list)
  BY WhitelistAssumption DEF SearchInv
<1>2. PICK p \in Orders[Len(list)] : list' = [n \in 1 .. Len(list) |-> list[p[n]]]
  BY DEF Sort
<1> DEFINE D == 1 .. Len(list)
<1>3. p \in [D -> D] /\ \A i, j \in D : p[i] = p[j] => i = j
  BY <1>1, <1>2 DEF Orders
<1>4. IsFiniteSet(D)
  BY <1>1, FS_Interval
<1> HIDE DEF D
<1>5. p \in Injection(D, D)
  BY <1>3 DEF Injection, IsInjective
<1>6. p \in Surjection(D, D)
  BY <1>4, <1>5, FS_Injection
<1>7. \A j \in D : \E i \in D : p[i] = j
  BY <1>6 DEF Surjection
<1>8. DOMAIN list' = D /\ \A n \in D : list'[n] = list[p[n]] /\ p[n] \in D
  BY <1>2, <1>3 DEF D
<1>9. {list'[n] : n \in DOMAIN list'} = {list[n] : n \in DOMAIN list}
  <2>1. DOMAIN list = D
    BY <1>1 DEF D
  <2>2. \A n \in D : \E m \in D : list[n] = list'[m]
    BY <1>7, <1>8
  <2>3. \A n \in D : \E m \in D : list'[n] = list[m]
    BY <1>8
  <2> QED
    BY <1>8, <2>1, <2>2, <2>3
<1> QED
  BY <1>9 DEF Loaded, Sort

LEMMA ReadLoaded ==
  ASSUME SearchInv, Loaded, NEW e \in Entries, ReadEntry(e)
  PROVE  Loaded'
<1>1. list \in Seq(Interval) /\ config \in Seq(Entries) /\ RangeOf(e) \in Interval
  BY WhitelistAssumption DEF SearchInv
<1>2. list' = Append(list, RangeOf(e)) /\ config' = Append(config, e)
  BY DEF ReadEntry
<1>3. {list'[n] : n \in DOMAIN list'} = {list[n] : n \in DOMAIN list} \cup {RangeOf(e)}
  <2>1. /\ DOMAIN list' = (1 .. Len(list)) \cup {Len(list) + 1}
        /\ DOMAIN list = 1 .. Len(list)
        /\ \A n \in 1 .. Len(list) : list'[n] = list[n]
        /\ list'[Len(list) + 1] = RangeOf(e)
    BY <1>1, <1>2
  <2> QED
    BY <2>1
<1>4. {RangeOf(config'[n]) : n \in DOMAIN config'}
        = {RangeOf(config[n]) : n \in DOMAIN config} \cup {RangeOf(e)}
  <2>1. /\ DOMAIN config' = (1 .. Len(config)) \cup {Len(config) + 1}
        /\ DOMAIN config = 1 .. Len(config)
        /\ \A n \in 1 .. Len(config) : config'[n] = config[n]
        /\ config'[Len(config) + 1] = e
    BY <1>1, <1>2
  <2> QED
    BY <2>1
<1> QED
  BY <1>3, <1>4 DEF Loaded

LEMMA AlwaysLoaded == Spec => [](SearchInv /\ Loaded)
<1>1. Init => Loaded
  BY DEF Init, Loaded
<1>2. SearchInv /\ Loaded /\ [Next]_vars => Loaded'
  <2> SUFFICES ASSUME SearchInv, Loaded, [Next]_vars PROVE Loaded'
    OBVIOUS
  <2>1. CASE UNCHANGED <<list, config>>
    BY <2>1 DEF Loaded
  <2>2. CASE \E e \in Entries : ReadEntry(e)
    BY <2>2, ReadLoaded
  <2>3. CASE Sort
    BY <2>3, SortLoaded
  <2> QED
    BY <2>1, <2>2, <2>3 DEF Next, vars, Lookup, Probe, Answer
<1> QED
  BY <1>1, <1>2, SearchKeepsInvariant, PTL DEF Spec

\* For words of any width, any strings and any address: where the networks do
\* not overlap, TCPRELAY takes exactly the addresses for whitelisted that share
\* the prefix of one of the strings.
THEOREM FoundByNetwork == Spec => []MeansNetwork
<1>1. ASSUME SearchInv, Loaded, Exact PROVE MeansNetwork
  <2> SUFFICES ASSUME pc = "done", Disjoint, \A n \in DOMAIN config : IsPrefix(config[n])
               PROVE  found <=> \E n \in DOMAIN config : InNetwork(config[n], ip)
    BY DEF MeansNetwork
  <2>1. found <=> \E n \in DOMAIN list : Contains(list[n], ip)
    BY <1>1 DEF Exact, Covered
  <2>2. (\E n \in DOMAIN list : Contains(list[n], ip))
          <=> \E n \in DOMAIN config : Contains(RangeOf(config[n]), ip)
    BY <1>1 DEF Loaded
  <2>3. ASSUME NEW n \in DOMAIN config
        PROVE  Contains(RangeOf(config[n]), ip) <=> InNetwork(config[n], ip)
    <3>1. config[n] \in Entries /\ ip \in Nat
      BY <1>1 DEF SearchInv
    <3>2. config[n] \in Strings /\ Accepts(config[n])
          /\ RangeOf(config[n]) = StringToRange(config[n])
      BY <3>1, NetworksAssumption
    <3> QED
      BY <3>1, <3>2, RangeIsNetwork
  <2> QED
    BY <2>1, <2>2, <2>3
<1> QED
  BY <1>1, AlwaysLoaded, DisjointListsAreExact, PTL
=============================================================================
