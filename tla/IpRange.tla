------------------------------ MODULE IpRange ------------------------------
(* g_string_to_range: an address and a mask, "a.b.c.d/m" or                *)
(* "a.b.c.d/w.x.y.z", become the range [low, high] of unsigned integers.   *)
(* Width is 32 in the code.                                                *)
EXTENDS Integers, FiniteSets

CONSTANT Width

ASSUME WidthAssumption == Width \in Nat \ {0}

AllOnes == 2^Width - 1
Words == 0 .. AllOnes

Ones(x) == {b \in 0 .. Width - 1 : (x \div 2^b) % 2 = 1}
Word(S) == CHOOSE x \in Words : Ones(x) = S
And(x, y) == Word(Ones(x) \cap Ones(y))
Or(x, y) == Word(Ones(x) \cup Ones(y))
Not(x) == AllOnes - x

\* What can stand in the configuration; 0 also stands for what stoi or
\* g_string_to_ipint make of nonsense.
Strings == [addr : Words, kind : {"prefix"}, mask : 0 .. Width + 1]
           \cup [addr : Words, kind : {"dotted"}, mask : Words]

\* Any other string throws, and the program ends.
Accepts(s) == s.mask # 0 /\ (s.kind = "prefix" => s.mask <= Width)

\* A slip in the shift.
Mask_OffByOne(s) ==
  IF s.kind = "dotted" THEN s.mask
                       ELSE (AllOnes * 2^(Width + 1 - s.mask)) % 2^Width
Mask(s) ==
  IF s.kind = "dotted" THEN s.mask
                       ELSE (AllOnes * 2^(Width - s.mask)) % 2^Width

StringToRange(s) ==
  LET low == And(s.addr, Mask(s)) IN [low |-> low, high |-> Or(low, Not(Mask(s)))]

\* The length of the network prefix, for a mask that is one.
PrefixLen(s) == IF s.kind = "dotted" THEN Cardinality(Ones(s.mask)) ELSE s.mask
IsPrefix(s) ==
  s.kind = "dotted" => Ones(s.mask) = (Width - PrefixLen(s)) .. (Width - 1)

InNetwork(s, ip) ==
  LET hosts == 2^(Width - PrefixLen(s)) IN s.addr \div hosts = ip \div hosts
=============================================================================
