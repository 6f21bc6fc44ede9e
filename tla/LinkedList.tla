----------------------------- MODULE LinkedList -----------------------------
(***************************************************************************)
(* The lists of softBTS (src/lib/linuxlist/linuxlist.h): doubly linked,    *)
(* each entry in one list at most once.  A list is the sequence of its     *)
(* entries; unlinking an entry joins its neighbours.                       *)
(***************************************************************************)
EXTENDS Integers, Sequences

None == -1      \* not an entry: the head, where a walk ends; also a closed descriptor

Listed(s) == {s[i] : i \in 1 .. Len(s)}

Distinct(s) == \A i, j \in 1 .. Len(s) : s[i] = s[j] => i = j

Place(s, e) == CHOOSE i \in 1 .. Len(s) : s[i] = e

First(s) == IF s = <<>> THEN None ELSE s[1]

After(s, e) == IF Place(s, e) = Len(s) THEN None ELSE s[Place(s, e) + 1]

\* llist_del
Without(s, e) == SubSeq(s, 1, Place(s, e) - 1) \o SubSeq(s, Place(s, e) + 1, Len(s))

\* llist_add
AddFirst(s, e) == <<e>> \o s

\* llist_add_tail
AddLast(s, e) == Append(s, e)
=============================================================================
