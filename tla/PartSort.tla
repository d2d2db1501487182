------------------------------ MODULE PartSort ------------------------------
(***************************************************************************)
(* The partition step that the ConcurrentQuickSort programs of chapter4    *)
(* share.  PartSort's outer loop runs in rounds: left climbs, right falls, *)
(* the two elements they stop at are swapped.  A round is one step of the  *)
(* thread that runs it; where a scan stops is said by a predicate.         *)
(*                                                                         *)
(* A segment of the array is a pair <<left, right>>.                       *)
(***************************************************************************)
EXTENDS Integers, Sequences, FiniteSets

swap(array, first, second) ==
  [array EXCEPT ![first] = array[second], ![second] = array[first]]

\* while(left < right && array[left] <= array[key]) ++left;
StopsUp(array, left, right, key, l) ==
  /\ l \in left..right
  /\ \A i \in left..(l - 1) : array[i] <= array[key]
  /\ l = right \/ array[l] > array[key]

\* while(left < right && array[right] >= array[key]) --right;
StopsDown(array, left, right, key, r) ==
  /\ r \in left..right
  /\ \A i \in (r + 1)..right : array[i] >= array[key]
  /\ r = left \/ array[r] < array[key]

\* Mutant: both parts hold the pivot's place.
PartsWithPivot(seg, index) ==
  (IF index > seg[1] THEN <<<<seg[1], index>>>> ELSE <<>>) \o
  (IF index < seg[2] THEN <<<<index, seg[2]>>>> ELSE <<>>)

\* The parts that are left to sort, those of at least two elements: the left
\* one is pushed first.
Parts(seg, index) ==
  (IF index - 1 > seg[1] THEN <<<<seg[1], index - 1>>>> ELSE <<>>) \o
  (IF index + 1 < seg[2] THEN <<<<index + 1, seg[2]>>>> ELSE <<>>)

Inside(i, seg) == i \in seg[1]..seg[2]

\* The array is sorted and holds what the input holds.
SortedFrom(input, array) ==
  /\ \A i, k \in DOMAIN array : i < k => array[i] <= array[k]
  /\ \A i \in DOMAIN array : Cardinality({k \in DOMAIN array : array[k] = array[i]})
                               = Cardinality({k \in DOMAIN input : input[k] = array[i]})
=============================================================================
