------------------------------ MODULE Networks ------------------------------
(* The whitelist over the strings and ranges of IpRange.                   *)
EXTENDS Whitelist, IpRange

ASSUME NetworksAssumption ==
  \A e \in Entries : e \in Strings /\ Accepts(e) /\ RangeOf(e) = StringToRange(e)

\* For masks that are prefixes and networks that do not overlap, an address is
\* found exactly if it shares the network prefix of some string: the masks, the
\* ranges, the sort and the search together mean what the notation says.
MeansNetwork ==
  (pc = "done" /\ Disjoint /\ \A n \in DOMAIN config : IsPrefix(config[n])) =>
    (found <=> \E n \in DOMAIN config : InNetwork(config[n], ip))
=============================================================================
