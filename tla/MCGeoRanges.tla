------------------------------ MODULE MCGeoRanges ------------------------------
(* Instances of GeoRanges for TLC. *)
EXTENDS GeoRanges

\* Two resolvers: one in the range a, both in the range ab.
HoldsIn == [c \in {"a", "ab", "bad"} |-> CASE c = "a" -> {1} [] c = "ab" -> {1, 2} [] OTHER -> {}]

UpperOf == [c \in {"us", "US"} |-> "US"]

CallsOf == [t \in Threads |->
  CASE t = "importer" -> {"import"} [] t = "scanner" -> {"filter", "scan"} [] OTHER -> {"import", "filter"}]

Line(c, r) == [country |-> c, ranges |-> {r}]

\* A code in lower case, and a line that does not parse before one that does.
TextsIn == {<<Line("us", "ab")>>, <<Line("US", "a"), Line("us", "bad"), Line("US", "ab")>>}

Reachable == [udp |-> TRUE, tcp |-> TRUE, edns |-> "opt", nx |-> "nxdomain", lookup |-> TRUE,
              answered |-> 1..totalCount, cut |-> totalCount + 1]

\* A good resolver, one not reached over TCP, and the two sides of the loss that is
\* allowed; one of them does not resolve.
NetsIn == {Reachable, [Reachable EXCEPT !.tcp = FALSE],
           [Reachable EXCEPT !.answered = 1..5, !.lookup = FALSE],
           [Reachable EXCEPT !.answered = 1..4]}

================================================================================
