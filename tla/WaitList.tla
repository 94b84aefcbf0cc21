------------------------------ MODULE WaitList ------------------------------
(***************************************************************************)
(* The lists of include/linux/list.h that locks queue their waiters on,    *)
(* as the sequence of the linked elements from the first to the last.      *)
(***************************************************************************)
EXTENDS Integers, Sequences, FiniteSets, SequencesExt

list_add_tail(s, e) == Append(s, e)

\* Unlinks e, which must be linked; nothing happens to the others.
list_del(s, e) == RemoveFirst(s, e)

\* Unlinks every element of E, wherever it is linked; the others keep their
\* order: the k-th is the one with k - 1 of them before it.
list_del_all(s, E) ==
  LET kept == {i \in DOMAIN s : s[i] \notin E}
      kth(k) == CHOOSE i \in kept : Cardinality({j \in kept : j <= i}) = k
  IN  [k \in 1..Cardinality(kept) |-> s[kth(k)]]

list_first_entry(s) == Head(s)

list_empty(s) == s = <<>>

\* The elements that are linked, and that none is linked twice.
Linked(s) == {s[i] : i \in DOMAIN s}
NoDup(s) == \A i, j \in DOMAIN s : s[i] = s[j] => i = j
=============================================================================
