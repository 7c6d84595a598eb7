-------------------------------- MODULE Loops --------------------------------
(***************************************************************************)
(* Loops over a list, as recursive functions: what has been kept of it,    *)
(* summed up or joined after so many of its elements.                      *)
(***************************************************************************)
EXTENDS Integers, Sequences

\* The elements of s that are in S, in their order.
Only(s, S) ==
  LET kept[n \in 0..Len(s)] ==
        IF n = 0 THEN <<>>
        ELSE IF s[n] \in S THEN Append(kept[n - 1], s[n]) ELSE kept[n - 1]
  IN kept[Len(s)]

\* The sum of the first k counts.
SumOf(counts, k) ==
  LET sum[i \in 0..Len(counts)] == IF i = 0 THEN 0 ELSE sum[i - 1] + counts[i]
  IN sum[k]

\* The first k lists, one after the other.
Joined(lists, k) ==
  LET joined[i \in 0..Len(lists)] == IF i = 0 THEN <<>> ELSE joined[i - 1] \o lists[i]
  IN joined[k]

=============================================================================
