----------------------------- MODULE PipeArray -----------------------------
(***************************************************************************)
(* array_t (array.hpp): a vector of distinct objects, each of which knows  *)
(* its own index.  lb_t, fq_t and dist_t keep their pipes in one and move  *)
(* them about so that the usable pipes form a prefix of it.  The array is  *)
(* a sequence; indices count from 0, as in the code.                       *)
(***************************************************************************)
EXTENDS Integers, Sequences

At(array, i) == array[i + 1]
Members(array) == {array[i] : i \in DOMAIN array}
IndexOf(array, x) == (CHOOSE i \in DOMAIN array : array[i] = x) - 1
Swap(array, i, j) ==
    [array EXCEPT ![i + 1] = At(array, j), ![j + 1] = At(array, i)]
\* The last item takes the place of the erased one.
Erase(array, i) ==
    SubSeq([array EXCEPT ![i + 1] = array[Len(array)]], 1, Len(array) - 1)

\* The items below index n.
Prefix(array, n) == {array[i] : i \in 1 .. n}
NoDuplicates(array) ==
    \A i, j \in DOMAIN array : array[i] = array[j] => i = j
============================================================================
