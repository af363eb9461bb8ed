-------------------------------- MODULE List --------------------------------
(***************************************************************************)
(* list_t (src/src/list.c): a growing array of pointers that ends with     *)
(* NULL, so that it can be walked without its length.                      *)
(***************************************************************************)
EXTENDS Integers

CONSTANTS
  NULL,
  Junk,         \* what new memory holds
  MinSize       \* 8: the size of a list that grows for the first time

ASSUME ListAssumption == MinSize \in Nat /\ MinSize >= 2

NoList == [size |-> 0, len |-> 0, elems |-> [i \in {} |-> NULL]]

list_ensure_size(list, min_size) ==
  IF list.size >= min_size THEN list
    ELSE [ size  |-> min_size,
           len   |-> list.len,
           elems |-> [i \in 0 .. min_size - 1 |->
                       IF i = list.len THEN NULL
                         ELSE IF i < list.size THEN list.elems[i] ELSE Junk] ]

\* Mutant: no place is kept for the NULL.
FullWithoutNull(list) == list.len >= list.size

\* One place is for the terminating NULL.
Full(list) == list.len + 1 >= list.size

NextSize(size) == IF size < MinSize THEN MinSize ELSE size + size \div 2

Grown(list) == IF Full(list) THEN list_ensure_size(list, NextSize(list.size)) ELSE list

list_push(list, p) ==
  LET l == Grown(list)
  IN  [ l EXCEPT !.len = @ + 1,
                 !.elems = [i \in DOMAIN l.elems |->
                             IF i = l.len THEN p
                               ELSE IF i = l.len + 1 THEN NULL ELSE l.elems[i]] ]

list_remove(list, idx) ==
  IF idx >= list.len THEN list
    ELSE [ list EXCEPT !.len = @ - 1,
                       !.elems = [i \in DOMAIN list.elems |->
                                   IF i \in idx .. list.len - 1
                                     THEN list.elems[i + 1] ELSE list.elems[i]] ]

list_clear(list) ==
  [ list EXCEPT !.len = 0,
                !.elems = [i \in DOMAIN list.elems |-> IF i = 0 THEN NULL ELSE list.elems[i]] ]

\* The elements up to NULL, as the loops over a list see them.
Ends(list, i)  == list.elems[i] = NULL

\* A walk from the first element meets the NULL, and meets it at the length.
Terminated(list) ==
  /\ list.len \in 0 .. list.size - 1
  /\ Ends(list, list.len)
  /\ \A i \in 0 .. list.len - 1 : ~Ends(list, i)
=============================================================================
