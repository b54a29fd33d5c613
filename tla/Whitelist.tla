----------------------------- MODULE Whitelist -----------------------------
(***************************************************************************)
(* The whitelist of td_config_tcprelay: the constructor turns every string *)
(* of the configuration into a range and sorts the ranges by their lower   *)
(* ends; is_ip_in_whitelist looks an address up with std::lower_bound over *)
(* the UPPER ends, one probe of the binary search per step.                *)
(***************************************************************************)
EXTENDS Naturals, Sequences

CONSTANTS
  Entries,     \* the strings g_string_to_range accepts
  RangeOf(_),  \* g_string_to_range
  Addrs,       \* the addresses clients want to reach
  MaxEntries   \* bound: strings in one whitelist

Interval == [low : Nat, high : Nat]

ASSUME WhitelistAssumption ==
  /\ \A e \in Entries : RangeOf(e) \in Interval
  /\ Addrs \subseteq Nat
  /\ MaxEntries \in Nat

VARIABLES
  config,      \* the strings read so far
  list,        \* socks5_whitelist_
  ip,          \* the address looked up
  first, len,  \* what lower_bound still has to search
  pc, found

vars == <<config, list, ip, first, len, pc, found>>

Init ==
  /\ config = <<>> /\ list = <<>>
  /\ ip = 0
  /\ first = 1 /\ len = 0
  /\ pc = "load" /\ found = FALSE

\* One turn of the constructor's loop.
ReadEntry(e) ==
  /\ pc = "load" /\ Len(config) < MaxEntries
  /\ config' = Append(config, e)
  /\ list' = Append(list, RangeOf(e))
  /\ UNCHANGED <<ip, first, len, pc, found>>

SortedByLow(l) == \A m, n \in DOMAIN l : m < n => l[m].low <= l[n].low

Orders ==
  [n \in 0 .. MaxEntries |->
     {p \in [1 .. n -> 1 .. n] : \A k, m \in 1 .. n : p[k] = p[m] => k = m}]

\* std::sort leaves the order of ties open.
Sort ==
  /\ pc = "load"
  /\ \E p \in Orders[Len(list)] :
       LET l == [n \in 1 .. Len(list) |-> list[p[n]]] IN
         SortedByLow(l) /\ list' = l
  /\ pc' = "ready"
  /\ UNCHANGED <<config, ip, first, len, found>>

Lookup(a) ==
  /\ pc = "ready"
  /\ ip' = a
  /\ first' = 1 /\ len' = Len(list)
  /\ pc' = "search"
  /\ UNCHANGED <<config, list, found>>

\* The comparison handed to lower_bound, and a slip of it.
Below_Inclusive(r) == r.high <= ip
Below(r) == r.high < ip

\* lower_bound halves what is left until nothing is.
Probe ==
  /\ pc = "search" /\ len > 0
  /\ LET half == len \div 2 IN
       IF Below(list[first + half])
         THEN first' = first + half + 1 /\ len' = len - half - 1
         ELSE first' = first /\ len' = half
  /\ UNCHANGED <<config, list, ip, pc, found>>

Contains(r, a) == r.low <= a /\ a <= r.high

\* The test after the search, and a slip of it.
Hit_LowUnchecked(r) == ip <= r.high
Hit(r) == Contains(r, ip)

Answer ==
  /\ pc = "search" /\ len = 0
  /\ found' = (first \in DOMAIN list /\ Hit(list[first]))
  /\ pc' = "done"
  /\ UNCHANGED <<config, list, ip, first, len>>

Next ==
  \/ \E e \in Entries : ReadEntry(e)
  \/ Sort
  \/ \E a \in Addrs : Lookup(a)
  \/ Probe
  \/ Answer

Spec == Init /\ [][Next]_vars

-----------------------------------------------------------------------------
Covered == \E n \in DOMAIN list : Contains(list[n], ip)

\* Ranges without overlap, in order.
Disjoint ==
  /\ \A n \in DOMAIN list : list[n].low <= list[n].high
  /\ \A m, n \in DOMAIN list : m < n => list[m].high < list[n].low

\* No address is taken for whitelisted that no range of the list contains:
\* whatever the list, TCPRELAY bypasses the proxies only for listed addresses.
Sound == pc = "done" /\ found => Covered

\* When the ranges do not overlap, the search over upper ends finds an address
\* exactly if a range contains it, although the sort was by lower ends.
Exact == pc = "done" /\ Disjoint => (found <=> Covered)

\* The invariant of the search: all ranges left of what remains end below ip,
\* all right of it do not.
SearchInv ==
  /\ list \in Seq(Interval) /\ ip \in Nat
  /\ config \in Seq(Entries) /\ Len(config) = Len(list)
  /\ Len(list) <= MaxEntries
  /\ pc \in {"load", "ready", "search", "done"} /\ found \in BOOLEAN
  /\ first \in Nat \ {0} /\ len \in Nat
  /\ pc \in {"search", "done"} => first + len <= Len(list) + 1
  /\ pc \in {"search", "done"} /\ Disjoint =>
       \A n \in DOMAIN list :
         /\ n < first => list[n].high < ip
         /\ n >= first + len => ip <= list[n].high
  /\ pc = "done" =>
       len = 0 /\ found = (first \in DOMAIN list /\ Contains(list[first], ip))
=============================================================================
