---------------------------- MODULE DevicesProofs ----------------------------
(***************************************************************************)
(* The registry and the order of the devices, for any table of devices and *)
(* any options: the list always ends with NULL where its length says, the  *)
(* search for the next priority leaves out no device, and the registry is  *)
(* the set of devices that the options ask for.  And of the device that    *)
(* keeps something between packages: halves of a Security+ message are     *)
(* joined only within a press, and each once, for any age of the cache and *)
(* any pause between presses.                                              *)
(***************************************************************************)
EXTENDS Demods, SecPlus, WellFoundedInduction, SequenceTheorems, TLAPS

-----------------------------------------------------------------------------
(* Lists.                                                                   *)

Elements == Protocols \cup {NULL, Junk}

Lists == [size : Nat, len : Nat, elems : UNION {[0 .. n - 1 -> Elements] : n \in Nat}]

\* The places before the length hold devices, the one at the length holds NULL.
ListOK(l) ==
  /\ l \in Lists
  /\ l.size \in Nat /\ l.len \in Nat /\ l.len < l.size
  /\ l.elems \in [0 .. l.size - 1 -> Elements]
  /\ l.elems[l.len] = NULL
  /\ \A k \in 0 .. l.len - 1 : l.elems[k] \in Protocols

\* The array of a list that something is pushed to.
LEMMA ArrayPushed ==
  ASSUME NEW s \in Nat, NEW n \in Nat, n + 1 < s, NEW f, NEW p \in Protocols,
         \A k \in 0 .. n - 1 : f[k] \in Protocols, NEW h,
         h = [k \in 0 .. s - 1 |-> IF k = n THEN p ELSE IF k = n + 1 THEN NULL ELSE f[k]]
  PROVE  h[n + 1] = NULL /\ \A k \in 0 .. n : h[k] \in Protocols
<1> DEFINE D == 0 .. s - 1
<1>0. h = [k \in D |-> IF k = n THEN p ELSE IF k = n + 1 THEN NULL ELSE f[k]]
  OBVIOUS
<1>1. /\ n + 1 \in D /\ n + 1 # n
      /\ \A k \in 0 .. n : k \in D /\ k # n + 1 /\ (k = n \/ k \in 0 .. n - 1)
  OBVIOUS
<1> HIDE DEF D
<1>2. h[n + 1] = NULL
  BY <1>0, <1>1
<1>3. ASSUME NEW k \in 0 .. n
      PROVE  h[k] \in Protocols
  BY <1>0, <1>1
<1> QED
  BY <1>2, <1>3

LEMMA ChangedList ==
  ASSUME NEW l, ListOK(l), NEW n \in Nat, NEW e \in [0 .. l.size - 1 -> Elements],
         n < l.size, e[n] = NULL, \A k \in 0 .. n - 1 : e[k] \in Protocols
  PROVE  /\ ListOK([l EXCEPT !.len = n, !.elems = e])
         /\ [l EXCEPT !.len = n, !.elems = e].len = n
<1> DEFINE m == [l EXCEPT !.len = n, !.elems = e]
<1>1. l \in Lists /\ l.size \in Nat
  BY DEF ListOK
<1>2. e \in UNION {[0 .. j - 1 -> Elements] : j \in Nat}
  BY <1>1
<1>3. m \in Lists /\ m.size = l.size /\ m.len = n /\ m.elems = e
  BY <1>1, <1>2 DEF Lists
<1> HIDE DEF m
<1> QED
  BY <1>1, <1>3 DEF ListOK, m

LEMMA FirstListOK ==
  ListOK(list_ensure_size(NoList, FirstSize)) /\ list_ensure_size(NoList, FirstSize).len = 0
<1> DEFINE e == [k \in 0 .. FirstSize - 1 |->
                  IF k = 0 THEN NULL ELSE IF k < 0 THEN NoList.elems[k] ELSE Junk]
           l == [size |-> FirstSize, len |-> 0, elems |-> e]
<1>1. FirstSize \in Nat \ {0}
  BY DemodsAssumption
<1>2. list_ensure_size(NoList, FirstSize) = l
  BY <1>1 DEF list_ensure_size, NoList
<1>3. e \in [0 .. FirstSize - 1 -> Elements] /\ e[0] = NULL
  BY <1>1 DEF Elements
<1> HIDE DEF e
<1>4. ListOK(l)
  BY <1>1, <1>3 DEF ListOK, Lists
<1> QED
  BY <1>2, <1>4

\* A list that has grown has a place for one more device and the NULL.
LEMMA GrownOK ==
  ASSUME NEW l, ListOK(l)
  PROVE  /\ ListOK(Grown(l)) /\ Grown(l).len = l.len /\ l.len + 1 < Grown(l).size
         /\ \A k \in 0 .. l.len - 1 : Grown(l).elems[k] = l.elems[k]
<1>1. l.size \in Nat /\ l.len \in Nat /\ l.len < l.size
  BY DEF ListOK
<1>2. CASE ~Full(l)
  <2>1. Grown(l) = l
    BY <1>2 DEF Grown
  <2> QED
    BY <1>1, <1>2, <2>1 DEF Full
<1>3. CASE Full(l)
  <2> DEFINE n == NextSize(l.size)
             e == [k \in 0 .. n - 1 |-> IF k = l.len THEN NULL
                                          ELSE IF k < l.size THEN l.elems[k] ELSE Junk]
             g == [size |-> n, len |-> l.len, elems |-> e]
  <2>1. l.len + 1 = l.size
    BY <1>1, <1>3 DEF Full
  <2>2. n \in Nat /\ n > l.size
    BY <1>1, ListAssumption DEF NextSize
  <2>3. Grown(l) = g
    BY <1>1, <1>3, <2>2 DEF Grown, list_ensure_size
  <2>4. /\ e \in [0 .. n - 1 -> Elements] /\ e[l.len] = NULL
        /\ \A k \in 0 .. l.len - 1 : e[k] = l.elems[k]
    <3>1. l.elems \in [0 .. l.size - 1 -> Elements]
      BY DEF ListOK
    <3>2. NULL \in Elements /\ Junk \in Elements
      BY DEF Elements
    <3> DEFINE f == l.elems
               s == l.size
               j == l.len
    <3>3. f \in [0 .. s - 1 -> Elements] /\ s \in Nat /\ j \in Nat /\ j < s /\ n > s
      BY <1>1, <2>2, <3>1
    <3> HIDE DEF n, f, s, j
    <3>4. [k \in 0 .. n - 1 |-> IF k = j THEN NULL ELSE IF k < s THEN f[k] ELSE Junk]
            \in [0 .. n - 1 -> Elements]
      BY <2>2, <3>2, <3>3
    <3> DEFINE h == [k \in 0 .. n - 1 |-> IF k = j THEN NULL ELSE IF k < s THEN f[k] ELSE Junk]
    <3>5. h[j] = NULL /\ \A k \in 0 .. j - 1 : h[k] = f[k]
      <4> DEFINE D == 0 .. n - 1
      <4>1. j \in D /\ \A k \in 0 .. j - 1 : k \in D /\ k # j /\ k < s
        BY <2>2, <3>3
      <4>2. h = [k \in D |-> IF k = j THEN NULL ELSE IF k < s THEN f[k] ELSE Junk]
        OBVIOUS
      <4> HIDE DEF D, h
      <4>3. h[j] = NULL
        BY <4>1, <4>2
      <4>4. ASSUME NEW k \in 0 .. j - 1
            PROVE  h[k] = f[k]
        BY <4>1, <4>2
      <4> QED
        BY <4>3, <4>4
    <3>6. h = e
      BY DEF f, s, j
    <3> HIDE DEF h
    <3>7. e[j] = NULL /\ \A k \in 0 .. j - 1 : e[k] = f[k]
      BY <3>5, <3>6
    <3> QED
      BY <3>4, <3>7 DEF f, s, j, n
  <2> HIDE DEF n, e
  <2>5. ListOK(g)
    <3>1. e \in UNION {[0 .. j - 1 -> Elements] : j \in Nat}
      BY <2>2, <2>4
    <3>2. g \in Lists
      BY <1>1, <2>2, <3>1 DEF Lists
    <3>3. \A k \in 0 .. l.len - 1 : e[k] \in Protocols
      BY <2>4 DEF ListOK
    <3>4. l.len < n
      BY <1>1, <2>2
    <3> QED
      BY <1>1, <2>2, <2>4, <3>2, <3>3, <3>4 DEF ListOK
  <2> QED
    BY <1>1, <2>1, <2>2, <2>3, <2>4, <2>5
<1> QED
  BY <1>2, <1>3

LEMMA PushOK ==
  ASSUME NEW l, ListOK(l), NEW p \in Protocols
  PROVE  ListOK(list_push(l, p)) /\ list_push(l, p).len = l.len + 1
<1> DEFINE g == Grown(l)
           e == [k \in DOMAIN g.elems |->
                  IF k = g.len THEN p ELSE IF k = g.len + 1 THEN NULL ELSE g.elems[k]]
<1>1. ListOK(g) /\ g.len = l.len /\ l.len + 1 < g.size
  BY GrownOK
<1>2. list_push(l, p) = [g EXCEPT !.len = @ + 1, !.elems = e]
  BY DEF list_push
<1> HIDE DEF g
<1>3. /\ g.size \in Nat /\ g.len \in Nat /\ g.elems \in [0 .. g.size - 1 -> Elements]
      /\ \A k \in 0 .. g.len - 1 : g.elems[k] \in Protocols
  BY <1>1 DEF ListOK
<1>4. /\ e \in [0 .. g.size - 1 -> Elements] /\ e[g.len + 1] = NULL
      /\ \A k \in 0 .. g.len : e[k] \in Protocols
  <2> DEFINE f == g.elems
             s == g.size
             n == g.len
  <2>1. /\ f \in [0 .. s - 1 -> Elements] /\ s \in Nat /\ n \in Nat /\ n + 1 < s
        /\ p \in Elements /\ NULL \in Elements /\ DOMAIN f = 0 .. s - 1
    BY <1>1, <1>3 DEF Elements
  <2>2. \A k \in 0 .. n - 1 : f[k] \in Protocols
    BY <1>3
  <2> HIDE DEF f, s, n
  <2> DEFINE h == [k \in 0 .. s - 1 |->
                    IF k = n THEN p ELSE IF k = n + 1 THEN NULL ELSE f[k]]
  <2>3. h \in [0 .. s - 1 -> Elements]
    BY <2>1
  <2>4. h[n + 1] = NULL /\ \A k \in 0 .. n : h[k] \in Protocols
    BY <2>1, <2>2, ArrayPushed, Zenon
  <2>5. e = h
    BY <2>1 DEF f, s, n
  <2> QED
    BY <2>3, <2>4, <2>5 DEF s, n
<1>5. [g EXCEPT !.len = @ + 1, !.elems = e] = [g EXCEPT !.len = g.len + 1, !.elems = e]
  OBVIOUS
<1> HIDE DEF e
<1> DEFINE n == g.len + 1
<1>6. n \in Nat /\ n < g.size /\ e[n] = NULL /\ 0 .. g.len = 0 .. n - 1
  BY <1>1, <1>3, <1>4
<1>7. \A k \in 0 .. n - 1 : e[k] \in Protocols
  BY <1>4, <1>6
<1>8. list_push(l, p) = [g EXCEPT !.len = n, !.elems = e]
  BY <1>2, <1>5
<1> HIDE DEF n
<1>9. ListOK([g EXCEPT !.len = n, !.elems = e]) /\ [g EXCEPT !.len = n, !.elems = e].len = n
  <2>1. ListOK(g) /\ n \in Nat /\ n < g.size /\ e[n] = NULL
    BY <1>1, <1>6
  <2>2. e \in [0 .. g.size - 1 -> Elements]
    BY <1>4
  <2> QED
    BY <2>1, <2>2, <1>7, ChangedList, Zenon
<1> QED
  BY <1>1, <1>8, <1>9 DEF n

LEMMA RemoveOK ==
  ASSUME NEW l, ListOK(l), NEW idx \in Nat
  PROVE  /\ ListOK(list_remove(l, idx))
         /\ idx < l.len => list_remove(l, idx).len = l.len - 1
<1>1. CASE idx >= l.len
  BY <1>1 DEF list_remove, ListOK
<1>2. CASE idx < l.len
  <2> DEFINE e == [k \in DOMAIN l.elems |->
                    IF k \in idx .. l.len - 1 THEN l.elems[k + 1] ELSE l.elems[k]]
    <2>1. /\ l.size \in Nat /\ l.len \in Nat /\ l.elems \in [0 .. l.size - 1 -> Elements]
        /\ l.len < l.size /\ l.elems[l.len] = NULL
        /\ \A k \in 0 .. l.len - 1 : l.elems[k] \in Protocols
    BY DEF ListOK
  <2>2. list_remove(l, idx) = [l EXCEPT !.len = @ - 1, !.elems = e]
    BY <1>2, <2>1 DEF list_remove
  <2>3. /\ e \in [0 .. l.size - 1 -> Elements] /\ e[l.len - 1] = NULL
        /\ \A k \in 0 .. l.len - 2 : e[k] \in Protocols
    <3> DEFINE f == l.elems
               s == l.size
               n == l.len
    <3>1. /\ f \in [0 .. s - 1 -> Elements] /\ s \in Nat /\ n \in Nat /\ n < s
          /\ idx < n /\ f[n] = NULL /\ DOMAIN f = 0 .. s - 1
          /\ \A k \in 0 .. n - 1 : f[k] \in Protocols
      BY <1>2, <2>1
    <3>2. e = [k \in DOMAIN f |-> IF k \in idx .. n - 1 THEN f[k + 1] ELSE f[k]]
      OBVIOUS
    <3> HIDE DEF e, f, s, n
    <3>3. \A k \in 0 .. s - 1 : k \in idx .. n - 1 => k + 1 \in 0 .. s - 1
      BY <3>1
    <3>4. e \in [0 .. s - 1 -> Elements]
      BY <3>1, <3>2, <3>3
    <3>5. e[n - 1] = NULL
      BY <3>1, <3>2
    <3>6. \A k \in 0 .. n - 2 : e[k] \in Protocols
      <4> SUFFICES ASSUME NEW k \in 0 .. n - 2
                   PROVE  e[k] \in Protocols
        OBVIOUS
      <4>1. k \in 0 .. s - 1 /\ k \in 0 .. n - 1 /\ k + 1 \in 0 .. n - 1
        BY <3>1
      <4>2. e[k] = IF k \in idx .. n - 1 THEN f[k + 1] ELSE f[k]
        BY <3>1, <3>2, <4>1
      <4> QED
        BY <3>1, <4>1, <4>2
    <3> QED
      BY <3>4, <3>5, <3>6 DEF s, n
  <2>4. [l EXCEPT !.len = @ - 1, !.elems = e] = [l EXCEPT !.len = l.len - 1, !.elems = e]
    OBVIOUS
  <2> HIDE DEF e
  <2> DEFINE n == l.len - 1
  <2>5. n \in Nat /\ n < l.size /\ e[n] = NULL
    BY <1>2, <2>1, <2>3
  <2>6. \A k \in 0 .. n - 1 : e[k] \in Protocols
    <3>1. 0 .. n - 1 = 0 .. l.len - 2
      BY <2>1
    <3> QED
      BY <2>3, <3>1
  <2> HIDE DEF n
  <2>7. ListOK([l EXCEPT !.len = n, !.elems = e]) /\ [l EXCEPT !.len = n, !.elems = e].len = n
    BY <2>3, <2>5, <2>6, ChangedList
  <2> QED
    BY <2>2, <2>4, <2>7 DEF n
<1> QED
  BY <1>1, <1>2 DEF ListOK

LEMMA ClearOK ==
  ASSUME NEW l, ListOK(l)
  PROVE  ListOK(list_clear(l)) /\ list_clear(l).len = 0
<1> DEFINE e == [k \in DOMAIN l.elems |-> IF k = 0 THEN NULL ELSE l.elems[k]]
<1>1. /\ l.size \in Nat \ {0} /\ l.elems \in [0 .. l.size - 1 -> Elements]
  BY DEF ListOK
<1>2. list_clear(l) = [l EXCEPT !.len = 0, !.elems = e]
  BY DEF list_clear
<1>3. e \in [0 .. l.size - 1 -> Elements] /\ e[0] = NULL
  BY <1>1 DEF Elements
<1> HIDE DEF e
<1>4. \A k \in 0 .. 0 - 1 : e[k] \in Protocols
  OBVIOUS
<1>5. 0 \in Nat /\ 0 < l.size
  BY <1>1
<1> QED
  <2>1. ListOK([l EXCEPT !.len = 0, !.elems = e]) /\ [l EXCEPT !.len = 0, !.elems = e].len = 0
    BY <1>3, <1>4, <1>5, ChangedList, Zenon
  <2> QED
    BY <1>2, <2>1

-----------------------------------------------------------------------------
(* All protocols are registered by a recursion over the table: induction    *)
(* takes the least place for which a claim is wrong.                        *)

LEMMA NatLeast ==
  ASSUME NEW T, T \subseteq Nat, T # {}
  PROVE  \E x \in T : \A y \in T : x <= y
<1> DEFINE R == OpToRel(<, Nat)
<1>1. IsWellFoundedOn(R, Nat)
  BY NatLessThanWellFounded
<1>2. R = {p \in Nat \X Nat : p[1] < p[2]}
  BY DEF OpToRel
<1> HIDE DEF R
<1>3. \E x \in T : \A y \in T : ~ (<<y, x>> \in R)
  BY <1>1, WFMin
<1>4. \A x \in T, y \in T : ~ (<<y, x>> \in R) => x <= y
  BY <1>2
<1> QED
  BY <1>3, <1>4

\* The list after the protocols up to p, from the list before p.
Registered(before, limit, p) == IF p \in Chosen(limit) THEN list_push(before, p) ELSE before

IsRun(g, list, limit, n) ==
  g = [p \in 0 .. n |-> IF p = 0 THEN list ELSE Registered(g[p - 1], limit, p)]

\* The recursion has a solution for any table.
LEMMA RunExists ==
  ASSUME NEW list, NEW limit, NEW N \in Nat
  PROVE  \E g : IsRun(g, list, limit, N)
<1> DEFINE Good(n) == \E g : IsRun(g, list, limit, n)
           T == {n \in Nat : ~Good(n)}
<1>1. Good(0)
  <2> DEFINE g == [p \in 0 .. 0 |-> list]
  <2>1. g = [p \in 0 .. 0 |-> IF p = 0 THEN list ELSE Registered(g[p - 1], limit, p)]
    OBVIOUS
  <2> QED
    BY <2>1 DEF IsRun
<1>2. ASSUME NEW n \in Nat, Good(n)
      PROVE  Good(n + 1)
  <2>1. PICK g : IsRun(g, list, limit, n)
    BY <1>2
  <2> DEFINE D == 0 .. n + 1
             h == [p \in D |-> IF p = n + 1 THEN Registered(g[n], limit, p) ELSE g[p]]
             k == [p \in D |-> IF p = 0 THEN list ELSE Registered(h[p - 1], limit, p)]
  <2>2. ASSUME NEW p \in D
        PROVE  h[p] = k[p]
    <3>1. CASE p = 0
      <4>1. g[0] = list /\ 0 # n + 1 /\ 0 \in D
        BY <2>1 DEF IsRun
      <4> HIDE DEF D
      <4> QED
        BY <3>1, <4>1
    <3>2. CASE p = n + 1
      <4>1. p - 1 = n /\ n \in D /\ n # n + 1 /\ p # 0
        BY <3>2
      <4> HIDE DEF D
      <4>2. h[p] = Registered(g[n], limit, p) /\ h[n] = g[n]
        BY <3>2, <4>1
      <4>3. k[p] = Registered(h[p - 1], limit, p)
        BY <4>1
      <4> QED
        BY <4>1, <4>2, <4>3
    <3>3. CASE p # 0 /\ p # n + 1
      <4>1. /\ p - 1 \in D /\ p - 1 # n + 1 /\ p \in 0 .. n
        BY <3>3
      <4>2. g[p] = Registered(g[p - 1], limit, p)
        BY <2>1, <3>3, <4>1 DEF IsRun
      <4> HIDE DEF D
      <4>3. h[p] = g[p] /\ h[p - 1] = g[p - 1]
        BY <3>3, <4>1
      <4>4. k[p] = Registered(h[p - 1], limit, p)
        BY <3>3
      <4> QED
        BY <4>2, <4>3, <4>4
    <3> QED
      BY <3>1, <3>2, <3>3
  <2>3. h = k
    BY <2>2
  <2> HIDE DEF h
  <2> QED
    BY <2>3 DEF IsRun
<1> HIDE DEF Good
<1>3. T = {}
  <2> SUFFICES ASSUME T # {}
               PROVE  FALSE
    OBVIOUS
  <2>1. PICK x \in T : \A y \in T : x <= y
    BY NatLeast
  <2>2. x \in Nat /\ ~Good(x) /\ x # 0
    BY <1>1
  <2>3. x - 1 \in Nat /\ ~(x - 1 \in T)
    BY <2>1, <2>2
  <2> QED
    BY <1>2, <2>2, <2>3
<1> QED
  BY <1>3 DEF Good

LEMMA RunOK ==
  ASSUME NEW list, ListOK(list), NEW limit, NEW N \in Nat, N <= Len(Table), NEW g,
         IsRun(g, list, limit, N)
  PROVE  ListOK(g[N])
<1> DEFINE T == {n \in 0 .. N : ~ListOK(g[n])}
<1>1. SUFFICES T = {}
  OBVIOUS
<1>2. SUFFICES ASSUME T # {}
               PROVE  FALSE
  OBVIOUS
<1>3. PICK x \in T : \A y \in T : x <= y
  <2>1. T \subseteq Nat
    OBVIOUS
  <2> HIDE DEF T
  <2> QED
    BY <1>2, <2>1, NatLeast
<1>4. x \in 0 .. N /\ ~ListOK(g[x])
  OBVIOUS
<1>5. x # 0
  <2>1. g[0] = list
    BY DEF IsRun
  <2> QED
    BY <1>4, <2>1
<1>6. x - 1 \in 0 .. N /\ ~(x - 1 \in T)
  BY <1>3, <1>4, <1>5
<1>7. ListOK(g[x - 1])
  BY <1>6
<1>8. g[x] = Registered(g[x - 1], limit, x)
  BY <1>4, <1>5 DEF IsRun
<1>9. x \in Chosen(limit) => x \in Protocols
  BY DEF Chosen
<1> QED
  BY <1>4, <1>7, <1>8, <1>9, PushOK DEF Registered

LEMMA RegisterAllOK ==
  ASSUME NEW list, ListOK(list), NEW limit
  PROVE  ListOK(register_all_protocols(list, limit))
<1> DEFINE N == Len(Table)
           pushed == CHOOSE g : g = [p \in 0 .. N |->
                       IF p = 0 THEN list
                         ELSE IF p \in Chosen(limit) THEN list_push(g[p - 1], p)
                                ELSE g[p - 1]]
<1>1. N \in Nat
  BY DemodsAssumption
<1>2. register_all_protocols(list, limit) = pushed[N]
  BY DEF register_all_protocols
<1>3. \E g : IsRun(g, list, limit, N)
  BY <1>1, RunExists
<1>4. IsRun(pushed, list, limit, N)
  BY <1>3 DEF IsRun, Registered
<1> HIDE DEF pushed, N
<1>5. ListOK(pushed[N])
  <2>1. N <= Len(Table)
    BY <1>1 DEF N
  <2> QED
    BY <1>1, <1>4, <2>1, RunOK
<1> QED
  BY <1>2, <1>5

-----------------------------------------------------------------------------
(* The elements of a sequence that lie in a set.                            *)

\* Induction up to N, for a set of places.
LEMMA UpTo ==
  ASSUME NEW N \in Nat, NEW T, 0 \in T,
         \A n \in Nat : n < N /\ n \in T => n + 1 \in T
  PROVE  \A n \in 0 .. N : n \in T
<1> DEFINE W == {n \in 0 .. N : n \notin T}
<1>1. SUFFICES ASSUME W # {}
               PROVE  FALSE
  OBVIOUS
<1>2. PICK x \in W : \A y \in W : x <= y
  <2>1. W \subseteq Nat
    OBVIOUS
  <2> HIDE DEF W
  <2> QED
    BY <1>1, <2>1, NatLeast
<1>3. x \in 1 .. N /\ x \notin T
  OBVIOUS
<1>4. x - 1 \in Nat /\ x - 1 < N /\ x - 1 \notin W /\ x - 1 \in 0 .. N /\ (x - 1) + 1 = x
  BY <1>2, <1>3
<1>5. x - 1 \in T
  BY <1>4
<1> QED
  BY <1>3, <1>4, <1>5

Added(t, p, S) == IF p \in S THEN Append(t, p) ELSE t

IsOnly(g, s, S, n) ==
  g = [k \in 0 .. n |-> IF k = 0 THEN <<>> ELSE Added(g[k - 1], s[k], S)]

LEMMA OnlyFacts ==
  ASSUME NEW g, NEW s, NEW S, NEW n \in Nat, IsOnly(g, s, S, n)
  PROVE  /\ g[0] = <<>>
         /\ \A k \in Nat : k < n => g[k + 1] = Added(g[k], s[k + 1], S)
<1>1. g[0] = <<>>
  BY DEF IsOnly
<1>2. ASSUME NEW k \in Nat, k < n
      PROVE  g[k + 1] = Added(g[k], s[k + 1], S)
  <2>1. k + 1 \in 0 .. n /\ k + 1 # 0 /\ (k + 1) - 1 = k
    BY <1>2
  <2> DEFINE j == k + 1
  <2>2. j \in 0 .. n /\ j # 0 /\ j - 1 = k
    BY <2>1
  <2> HIDE DEF j
  <2>3. g[j] = Added(g[j - 1], s[j], S)
    BY <2>2 DEF IsOnly
  <2> QED
    BY <2>2, <2>3 DEF j
<1> QED
  BY <1>1, <1>2

LEMMA OnlyExists ==
  ASSUME NEW s, NEW S, NEW N \in Nat
  PROVE  \E g : IsOnly(g, s, S, N)
<1> DEFINE T == {n \in Nat : \E g : IsOnly(g, s, S, n)}
<1>1. 0 \in T
  <2> DEFINE g == [k \in 0 .. 0 |-> <<>>]
  <2>1. g = [k \in 0 .. 0 |-> IF k = 0 THEN <<>> ELSE Added(g[k - 1], s[k], S)]
    OBVIOUS
  <2> QED
    BY <2>1 DEF IsOnly
<1>2. ASSUME NEW n \in Nat, n < N, n \in T
      PROVE  n + 1 \in T
  <2>1. PICK g : IsOnly(g, s, S, n)
    BY <1>2
  <2>2. /\ g[0] = <<>>
        /\ \A k \in Nat : k < n => g[k + 1] = Added(g[k], s[k + 1], S)
    BY <2>1, OnlyFacts
  <2> DEFINE D == 0 .. n + 1
             h == [k \in D |-> IF k = n + 1 THEN Added(g[n], s[n + 1], S) ELSE g[k]]
             f == [k \in D |-> IF k = 0 THEN <<>> ELSE Added(h[k - 1], s[k], S)]
  <2>3. ASSUME NEW k \in D
        PROVE  h[k] = f[k]
    <3>1. CASE k = 0
      <4>1. 0 \in D /\ 0 # n + 1
        OBVIOUS
      <4> HIDE DEF D
      <4> QED
        BY <2>2, <3>1, <4>1
    <3>2. CASE k = n + 1
      <4>1. k - 1 = n /\ n \in D /\ n # n + 1 /\ k # 0
        BY <3>2
      <4> HIDE DEF D
      <4>2. h[k] = Added(g[n], s[k], S) /\ h[n] = g[n]
        BY <3>2, <4>1
      <4>3. f[k] = Added(h[k - 1], s[k], S)
        BY <4>1
      <4> QED
        BY <4>1, <4>2, <4>3
    <3>3. CASE k # 0 /\ k # n + 1
      <4>1. k - 1 \in D /\ k - 1 # n + 1 /\ k - 1 \in Nat /\ k - 1 < n /\ (k - 1) + 1 = k
        BY <3>3
      <4>2. g[k] = Added(g[k - 1], s[k], S)
        BY <2>2, <4>1
      <4> HIDE DEF D
      <4>3. h[k] = g[k] /\ h[k - 1] = g[k - 1]
        BY <3>3, <4>1
      <4>4. f[k] = Added(h[k - 1], s[k], S)
        BY <3>3
      <4> QED
        BY <4>2, <4>3, <4>4
    <3> QED
      BY <3>1, <3>2, <3>3
  <2>4. h = f
    BY <2>3
  <2> HIDE DEF h
  <2>5. IsOnly(h, s, S, n + 1)
    BY <2>4 DEF IsOnly
  <2> QED
    BY <2>5
<1> HIDE DEF T
<1>3. N \in T
  BY <1>1, <1>2, UpTo
<1> QED
  BY <1>3 DEF T

LEMMA OnlyIs ==
  ASSUME NEW g, NEW s, NEW S, NEW n \in Nat, NEW N \in Nat, n <= N, IsOnly(g, s, S, N)
  PROVE  OnlyUpTo(s, S, n) = g[n]
<1> DEFINE h == CHOOSE h : h = [k \in 0 .. n |->
                  IF k = 0 THEN <<>>
                    ELSE IF s[k] \in S THEN Append(h[k - 1], s[k]) ELSE h[k - 1]]
<1>1. OnlyUpTo(s, S, n) = h[n]
  BY DEF OnlyUpTo
<1>2. \E f : IsOnly(f, s, S, n)
  BY OnlyExists
<1>3. IsOnly(h, s, S, n)
  BY <1>2 DEF IsOnly, Added
<1> HIDE DEF h
<1> DEFINE T == {k \in 0 .. n : h[k] = g[k]}
<1>4. /\ h[0] = <<>> /\ g[0] = <<>>
      /\ \A k \in Nat : k < n => /\ h[k + 1] = Added(h[k], s[k + 1], S)
                                 /\ g[k + 1] = Added(g[k], s[k + 1], S)
  <2>1. /\ h[0] = <<>>
        /\ \A k \in Nat : k < n => h[k + 1] = Added(h[k], s[k + 1], S)
    BY <1>3, OnlyFacts
  <2>2. /\ g[0] = <<>>
        /\ \A k \in Nat : k < N => g[k + 1] = Added(g[k], s[k + 1], S)
    BY OnlyFacts
  <2>3. \A k \in Nat : k < n => k < N
    OBVIOUS
  <2> QED
    BY <2>1, <2>2, <2>3
<1>5. 0 \in T
  BY <1>4
<1>6. \A k \in Nat : k < n /\ k \in T => k + 1 \in T
  BY <1>4
<1> HIDE DEF T
<1>7. n \in T
  BY <1>5, <1>6, UpTo
<1> QED
  BY <1>1, <1>7 DEF T

\* One element more.
LEMMA OnlyStep ==
  ASSUME NEW s, NEW S
  PROVE  /\ OnlyUpTo(s, S, 0) = <<>>
         /\ \A n \in Nat : OnlyUpTo(s, S, n + 1) = Added(OnlyUpTo(s, S, n), s[n + 1], S)
<1>1. OnlyUpTo(s, S, 0) = <<>>
  <2>1. PICK g : IsOnly(g, s, S, 0)
    BY OnlyExists
  <2>2. g[0] = <<>>
    BY <2>1, OnlyFacts
  <2>3. 0 \in Nat /\ 0 <= 0
    OBVIOUS
  <2>4. OnlyUpTo(s, S, 0) = g[0]
    BY <2>1, <2>3, OnlyIs
  <2> QED
    BY <2>2, <2>4
<1>2. ASSUME NEW n \in Nat
      PROVE  OnlyUpTo(s, S, n + 1) = Added(OnlyUpTo(s, S, n), s[n + 1], S)
  <2> DEFINE N == n + 1
  <2>1. N \in Nat /\ n <= N /\ n < N
    OBVIOUS
  <2> HIDE DEF N
  <2>2. PICK g : IsOnly(g, s, S, N)
    BY <2>1, OnlyExists
  <2>3. OnlyUpTo(s, S, n) = g[n]
    BY <2>1, <2>2, OnlyIs
  <2>4. OnlyUpTo(s, S, N) = g[N]
    <3>1. N <= N
      BY <2>1
    <3> QED
      BY <2>1, <2>2, <3>1, OnlyIs
  <2>5. g[n + 1] = Added(g[n], s[n + 1], S)
    BY <2>1, <2>2, OnlyFacts
  <2> QED
    BY <2>3, <2>4, <2>5 DEF N
<1> QED
  BY <1>1, <1>2

\* Only the elements and what of them lies in the set count.
LEMMA OnlySame ==
  ASSUME NEW s, NEW t, NEW S, NEW R, NEW N \in Nat,
         \A k \in 1 .. N : s[k] = t[k] /\ (s[k] \in S <=> s[k] \in R)
  PROVE  OnlyUpTo(s, S, N) = OnlyUpTo(t, R, N)
<1> DEFINE T == {n \in 0 .. N : OnlyUpTo(s, S, n) = OnlyUpTo(t, R, n)}
<1>1. 0 \in T
  BY OnlyStep
<1>2. ASSUME NEW n \in Nat, n < N, n \in T
      PROVE  n + 1 \in T
  <2>1. n + 1 \in 1 .. N /\ n + 1 \in 0 .. N /\ OnlyUpTo(s, S, n) = OnlyUpTo(t, R, n)
    BY <1>2
  <2>2. s[n + 1] = t[n + 1] /\ (s[n + 1] \in S <=> t[n + 1] \in R)
    BY <2>1
  <2>3. /\ OnlyUpTo(s, S, n + 1) = Added(OnlyUpTo(s, S, n), s[n + 1], S)
        /\ OnlyUpTo(t, R, n + 1) = Added(OnlyUpTo(t, R, n), t[n + 1], R)
    BY OnlyStep
  <2>4. OnlyUpTo(s, S, n + 1) = OnlyUpTo(t, R, n + 1)
    BY <2>1, <2>2, <2>3 DEF Added
  <2> QED
    BY <2>1, <2>4
<1> HIDE DEF T
<1>3. N \in T
  BY <1>1, <1>2, UpTo
<1> QED
  BY <1>3 DEF T

First(s, n) == [k \in 1 .. n |-> s[k]]

\* A sequence all of which lies in the set is left as it is.
LEMMA OnlyAll ==
  ASSUME NEW s, NEW S, NEW N \in Nat, \A k \in 1 .. N : s[k] \in S
  PROVE  OnlyUpTo(s, S, N) = First(s, N)
<1> DEFINE T == {n \in 0 .. N : OnlyUpTo(s, S, n) = First(s, n)}
<1>1. 0 \in T
  <2>1. First(s, 0) = <<>>
    BY DEF First
  <2>2. OnlyUpTo(s, S, 0) = <<>>
    BY OnlyStep
  <2> QED
    BY <2>1, <2>2
<1>2. ASSUME NEW n \in Nat, n < N, n \in T
      PROVE  n + 1 \in T
  <2> DEFINE t == [k \in 1 .. n |-> s[k]]
  <2>1. n + 1 \in 1 .. N /\ n + 1 \in 0 .. N /\ OnlyUpTo(s, S, n) = t
    BY <1>2 DEF First
  <2>2. OnlyUpTo(s, S, n + 1) = Append(t, s[n + 1])
    <3>1. OnlyUpTo(s, S, n + 1) = Added(OnlyUpTo(s, S, n), s[n + 1], S)
      BY OnlyStep
    <3>2. s[n + 1] \in S
      BY <2>1
    <3> QED
      BY <2>1, <3>1, <3>2 DEF Added
  <2>3. Append(t, s[n + 1]) = [k \in 1 .. n + 1 |-> s[k]]
    <3>1. t \in Seq(S) /\ Len(t) = n /\ s[n + 1] \in S
      <4>1. \A k \in 1 .. n : s[k] \in S
        BY <1>2
      <4> QED
        BY <2>1, <4>1
    <3> DEFINE u == Append(t, s[n + 1])
    <3>2. u \in Seq(S) /\ Len(u) = n + 1 /\ u[n + 1] = s[n + 1]
          /\ \A k \in 1 .. n : u[k] = t[k]
      <4> HIDE DEF t
      <4> QED
        BY <3>1
    <3>3. u = [k \in 1 .. n + 1 |-> u[k]]
      <4> HIDE DEF u
      <4> QED
        BY <3>2
    <3>4. \A k \in 1 .. n + 1 : u[k] = s[k]
      <4>1. \A k \in 1 .. n : t[k] = s[k]
        OBVIOUS
      <4>2. \A k \in 1 .. n + 1 : k \in 1 .. n \/ k = n + 1
        OBVIOUS
      <4> HIDE DEF u, t
      <4> QED
        BY <3>2, <4>1, <4>2
    <3> HIDE DEF u
    <3>5. [k \in 1 .. n + 1 |-> u[k]] = [k \in 1 .. n + 1 |-> s[k]]
      BY <3>4
    <3>6. u = [k \in 1 .. n + 1 |-> s[k]]
      BY <3>3, <3>5
    <3> QED
      BY <3>6 DEF u
  <2> HIDE DEF t
  <2>4. OnlyUpTo(s, S, n + 1) = First(s, n + 1)
    BY <2>2, <2>3 DEF First
  <2> QED
    BY <2>1, <2>4
<1> HIDE DEF T
<1>3. N \in T
  BY <1>1, <1>2, UpTo
<1> QED
  BY <1>3 DEF T

\* The element behind j is not in the set: without it the selection is the same.
LEMMA OnlyWithout ==
  ASSUME NEW s, NEW t, NEW S, NEW N \in Nat, NEW j \in 0 .. N, s[j + 1] \notin S,
         \A k \in 1 .. j : t[k] = s[k], \A k \in j + 1 .. N : t[k] = s[k + 1]
  PROVE  OnlyUpTo(t, S, N) = OnlyUpTo(s, S, N + 1)
<1> DEFINE Without(n) == IF n <= j THEN OnlyUpTo(s, S, n) ELSE OnlyUpTo(s, S, n + 1)
           T == {n \in 0 .. N : OnlyUpTo(t, S, n) = Without(n)}
<1>0. j \in Nat /\ j <= N
  OBVIOUS
<1>1. OnlyUpTo(s, S, j + 1) = OnlyUpTo(s, S, j)
  <2>1. OnlyUpTo(s, S, j + 1) = Added(OnlyUpTo(s, S, j), s[j + 1], S)
    BY <1>0, OnlyStep
  <2> QED
    BY <2>1 DEF Added
<1>2. 0 \in T
  BY <1>0, OnlyStep
<1>3. ASSUME NEW n \in Nat, n < N, n \in T
      PROVE  n + 1 \in T
  <2>1. OnlyUpTo(t, S, n + 1) = Added(Without(n), t[n + 1], S)
    <3>1. OnlyUpTo(t, S, n + 1) = Added(OnlyUpTo(t, S, n), t[n + 1], S)
      BY OnlyStep
    <3> QED
      BY <1>3, <3>1
  <2>2. CASE n < j
    <3>1. n + 1 \in 1 .. j /\ n + 1 <= j /\ n <= j
      BY <1>0, <2>2
    <3>2. t[n + 1] = s[n + 1] /\ Without(n) = OnlyUpTo(s, S, n)
          /\ Without(n + 1) = OnlyUpTo(s, S, n + 1)
      BY <3>1
    <3>3. OnlyUpTo(s, S, n + 1) = Added(OnlyUpTo(s, S, n), s[n + 1], S)
      BY OnlyStep
    <3>4. n + 1 \in 0 .. N
      BY <1>3
    <3> QED
      BY <2>1, <3>2, <3>3, <3>4
  <2>3. CASE ~(n < j)
    <3> DEFINE m == n + 1
    <3>1. m \in Nat /\ m \in j + 1 .. N /\ ~(m <= j) /\ m \in 0 .. N
      BY <1>0, <1>3, <2>3
    <3>2. Without(n) = OnlyUpTo(s, S, m)
      <4>1. CASE n = j
        BY <1>0, <1>1, <4>1
      <4>2. CASE n # j
        <5>1. ~(n <= j)
          BY <1>0, <2>3, <4>2
        <5> QED
          BY <5>1
      <4> QED
        BY <4>1, <4>2
    <3>3. Without(m) = OnlyUpTo(s, S, m + 1) /\ t[m] = s[m + 1]
      BY <3>1
    <3>4. OnlyUpTo(t, S, m) = Added(Without(n), t[m], S)
      BY <2>1
    <3> HIDE DEF m, Without
    <3>5. OnlyUpTo(s, S, m + 1) = Added(OnlyUpTo(s, S, m), s[m + 1], S)
      BY <3>1, OnlyStep
    <3>6. m \in T
      BY <3>1, <3>2, <3>3, <3>4, <3>5
    <3> QED
      BY <3>6 DEF m
  <2> QED
    BY <2>2, <2>3
<1>4. N \in T
  <2> HIDE DEF T
  <2> QED
    BY <1>2, <1>3, UpTo
<1> QED
  BY <1>0, <1>1, <1>4

-----------------------------------------------------------------------------
(* The devices of a list as a sequence.                                     *)

Devs(l) == [k \in 1 .. l.len |-> l.elems[k - 1]]

LEMMA DevsAre ==
  ASSUME NEW l, ListOK(l)
  PROVE  /\ l.len \in Nat /\ Devs(l) \in Seq(Protocols) /\ Len(Devs(l)) = l.len
         /\ \A k \in 1 .. l.len : Devs(l)[k] = l.elems[k - 1] /\ Devs(l)[k] \in Protocols
         /\ Devs(l) = First(Devs(l), l.len)
<1> DEFINE n == l.len
           f == l.elems
           t == [k \in 1 .. n |-> f[k - 1]]
<1>1. n \in Nat /\ (\A k \in 0 .. n - 1 : f[k] \in Protocols) /\ Devs(l) = t
  BY DEF ListOK, Devs
<1> HIDE DEF n, f
<1>2. \A k \in 1 .. n : k - 1 \in 0 .. n - 1 /\ f[k - 1] \in Protocols
  BY <1>1
<1>3. t \in Seq(Protocols) /\ Len(t) = n /\ \A k \in 1 .. n : t[k] = f[k - 1]
  BY <1>1, <1>2
<1>4. t = First(t, n)
  BY DEF First
<1> QED
  BY <1>1, <1>2, <1>3, <1>4 DEF n, f

LEMMA PushIs ==
  ASSUME NEW l, ListOK(l), NEW p \in Protocols
  PROVE  /\ \A k \in 0 .. l.len - 1 : list_push(l, p).elems[k] = l.elems[k]
         /\ list_push(l, p).elems[l.len] = p
<1> DEFINE g == Grown(l)
           e == [k \in DOMAIN g.elems |->
                  IF k = g.len THEN p ELSE IF k = g.len + 1 THEN NULL ELSE g.elems[k]]
<1>1. /\ ListOK(g) /\ g.len = l.len /\ l.len + 1 < g.size
      /\ \A k \in 0 .. l.len - 1 : g.elems[k] = l.elems[k]
  BY GrownOK
<1>2. list_push(l, p) = [g EXCEPT !.len = g.len + 1, !.elems = e]
  BY DEF list_push
<1> HIDE DEF g
<1>3. g \in Lists /\ g.size \in Nat /\ g.len \in Nat /\ DOMAIN g.elems = 0 .. g.size - 1
  BY <1>1 DEF ListOK
<1>4. list_push(l, p).elems = e
  <2> HIDE DEF e
  <2> QED
    BY <1>2, <1>3 DEF Lists
<1> DEFINE n == g.len
           D == DOMAIN g.elems
<1>5. n \in D /\ \A k \in 0 .. n - 1 : k \in D /\ k # n /\ k # n + 1
  BY <1>1, <1>3
<1>6. e = [k \in D |-> IF k = n THEN p ELSE IF k = n + 1 THEN NULL ELSE g.elems[k]]
  OBVIOUS
<1> HIDE DEF D, n, e
<1>7. e[n] = p
  BY <1>5, <1>6
<1>8. ASSUME NEW k \in 0 .. n - 1
      PROVE  e[k] = g.elems[k]
  BY <1>5, <1>6
<1>9. n = l.len
  BY <1>1 DEF n
<1> QED
  BY <1>1, <1>4, <1>7, <1>8, <1>9

LEMMA DevsPushed ==
  ASSUME NEW l, ListOK(l), NEW p \in Protocols
  PROVE  Devs(list_push(l, p)) = Append(Devs(l), p)
<1> DEFINE m == list_push(l, p)
           s == Devs(l)
           t == Devs(m)
           u == Append(s, p)
           n == l.len
<1>1. ListOK(m) /\ m.len = n + 1
  BY PushOK
<1>2. (\A k \in 0 .. n - 1 : m.elems[k] = l.elems[k]) /\ m.elems[n] = p
  BY PushIs
<1>3. /\ n \in Nat /\ s \in Seq(Protocols) /\ Len(s) = n
      /\ \A k \in 1 .. n : s[k] = l.elems[k - 1]
  BY DevsAre
<1>4. /\ t \in Seq(Protocols) /\ Len(t) = m.len
      /\ \A k \in 1 .. m.len : t[k] = m.elems[k - 1]
  <2> HIDE DEF m
  <2> QED
    BY <1>1, DevsAre
<1> HIDE DEF m, n, s, t
<1>5. u \in Seq(Protocols) /\ Len(u) = n + 1 /\ u[n + 1] = p /\ \A k \in 1 .. n : u[k] = s[k]
  BY <1>3
<1>6. ASSUME NEW k \in 1 .. n + 1
      PROVE  t[k] = u[k]
  <2>1. t[k] = m.elems[k - 1]
    BY <1>1, <1>4
  <2>2. CASE k = n + 1
    <3>1. k - 1 = n
      BY <1>3, <2>2
    <3> QED
      BY <1>2, <1>5, <2>1, <2>2, <3>1
  <2>3. CASE k \in 1 .. n
    <3>1. k - 1 \in 0 .. n - 1
      BY <1>3, <2>3
    <3> QED
      BY <1>2, <1>3, <1>5, <2>1, <2>3, <3>1
  <2> QED
    BY <1>3, <2>2, <2>3
<1> HIDE DEF u
<1>7. t = u
  <2>1. Len(t) = Len(u) /\ \A k \in 1 .. Len(t) : t[k] = u[k]
    BY <1>1, <1>4, <1>5, <1>6
  <2> QED
    BY <1>4, <1>5, <2>1
<1> QED
  BY <1>7 DEF m, n, s, t, u

LEMMA RemoveIs ==
  ASSUME NEW l, ListOK(l), NEW idx \in Nat, idx < l.len
  PROVE  /\ \A k \in 0 .. idx - 1 : list_remove(l, idx).elems[k] = l.elems[k]
         /\ \A k \in idx .. l.len - 2 : list_remove(l, idx).elems[k] = l.elems[k + 1]
<1> DEFINE f == l.elems
           n == l.len
           D == DOMAIN f
           e == [k \in D |-> IF k \in idx .. n - 1 THEN f[k + 1] ELSE f[k]]
<1>1. /\ l \in Lists /\ l.size \in Nat /\ n \in Nat /\ n < l.size /\ D = 0 .. l.size - 1
      /\ idx < n
  BY DEF ListOK
<1>2. list_remove(l, idx) = [l EXCEPT !.len = @ - 1, !.elems = e]
  BY <1>1 DEF list_remove
<1>3. list_remove(l, idx).elems = e
  <2> HIDE DEF e
  <2> QED
    BY <1>1, <1>2 DEF Lists
<1>4. /\ \A k \in 0 .. idx - 1 : k \in D /\ k \notin idx .. n - 1
      /\ \A k \in idx .. n - 2 : k \in D /\ k \in idx .. n - 1
  <2> HIDE DEF n, D
  <2> QED
    BY <1>1
<1> HIDE DEF D, f, n
<1>5. /\ \A k \in 0 .. idx - 1 : e[k] = f[k]
      /\ \A k \in idx .. n - 2 : e[k] = f[k + 1]
  BY <1>4
<1> HIDE DEF e
<1> QED
  BY <1>3, <1>5 DEF f, n

\* The loop over the table registers the chosen protocols in its order.
LEMMA DevsRegistered ==
  ASSUME NEW list, ListOK(list), list.len = 0, NEW limit
  PROVE  /\ ListOK(register_all_protocols(list, limit))
         /\ Devs(register_all_protocols(list, limit)) = Only(AllProtocols, Chosen(limit))
<1> DEFINE N == Len(Table)
           pushed == CHOOSE g : g = [p \in 0 .. N |->
                       IF p = 0 THEN list
                         ELSE IF p \in Chosen(limit) THEN list_push(g[p - 1], p)
                                ELSE g[p - 1]]
           C == Chosen(limit)
           A == AllProtocols
<1>1. N \in Nat /\ Protocols = 1 .. N
  BY DemodsAssumption DEF Protocols
<1>2. register_all_protocols(list, limit) = pushed[N]
  BY DEF register_all_protocols
<1>3. \E g : IsRun(g, list, limit, N)
  BY <1>1, RunExists
<1>4. IsRun(pushed, list, limit, N)
  BY <1>3 DEF IsRun, Registered
<1>5. ListOK(pushed[N])
  BY <1>2, RegisterAllOK
<1>6. N <= Len(Table)
  BY <1>1
<1>7. Len(A) = N /\ \A p \in 1 .. N : A[p] = p
  BY <1>1 DEF AllProtocols
<1> HIDE DEF pushed, N, A
<1> DEFINE T == {n \in 0 .. N : ListOK(pushed[n]) /\ Devs(pushed[n]) = OnlyUpTo(A, C, n)}
<1>8. 0 \in T
  <2>1. pushed[0] = list
    BY <1>1, <1>4 DEF IsRun
  <2>2. Devs(list) = <<>>
    BY DEF Devs
  <2>3. OnlyUpTo(A, C, 0) = <<>>
    BY OnlyStep
  <2> QED
    BY <1>1, <2>1, <2>2, <2>3
<1>9. ASSUME NEW n \in Nat, n < N, n \in T
      PROVE  n + 1 \in T
  <2> DEFINE p == n + 1
  <2>1. p \in 1 .. N /\ p \in 0 .. N /\ p # 0 /\ p - 1 = n
    BY <1>1, <1>9
  <2>2. ListOK(pushed[n]) /\ Devs(pushed[n]) = OnlyUpTo(A, C, n)
    BY <1>9
  <2>3. OnlyUpTo(A, C, p) = Added(OnlyUpTo(A, C, n), A[p], C)
    BY OnlyStep
  <2> HIDE DEF p, C, T
  <2>4. pushed[p] = Registered(pushed[n], limit, p)
    BY <1>4, <2>1 DEF IsRun
  <2>5. p \in Protocols /\ A[p] = p
    BY <1>1, <1>7, <2>1
  <2>6. CASE p \in C
    <3>1. pushed[p] = list_push(pushed[n], p)
      BY <2>4, <2>6 DEF Registered, C
    <3>2. ListOK(list_push(pushed[n], p))
      BY <2>2, <2>5, PushOK
    <3>3. Devs(list_push(pushed[n], p)) = Append(Devs(pushed[n]), p)
      BY <2>2, <2>5, DevsPushed
    <3>4. OnlyUpTo(A, C, p) = Append(OnlyUpTo(A, C, n), p)
      BY <2>3, <2>5, <2>6 DEF Added
    <3> QED
      BY <2>1, <2>2, <3>1, <3>2, <3>3, <3>4 DEF T, p
  <2>7. CASE p \notin C
    <3>1. pushed[p] = pushed[n]
      BY <2>4, <2>7 DEF Registered, C
    <3>2. OnlyUpTo(A, C, p) = OnlyUpTo(A, C, n)
      BY <2>3, <2>5, <2>7 DEF Added
    <3> QED
      BY <2>1, <2>2, <3>1, <3>2 DEF T, p
  <2> QED
    BY <2>6, <2>7
<1> HIDE DEF T
<1>10. N \in T
  BY <1>1, <1>8, <1>9, UpTo
<1>11. Devs(pushed[N]) = OnlyUpTo(A, C, N)
  BY <1>10 DEF T
<1> QED
  BY <1>2, <1>5, <1>7, <1>11 DEF Only, A

-----------------------------------------------------------------------------
(* The inductive invariant.                                                 *)

\* The next priority is not above any that is still to come among the visited entries.
Searching ==
  phase = "run" =>
    /\ priority < UINT_MAX /\ priority < next_priority
    /\ \A k \in 0 .. i - 1 : Device(k).priority > priority => next_priority <= Device(k).priority

\* What was decoded was decoded at the current priority.
DecodedNow ==
  phase = "run" =>
    /\ decoded \subseteq ran /\ (p_events = 0 <=> decoded = {})
    /\ \A k \in decoded : Device(k).priority = priority

AtStart == phase \notin {"unregister", "run"} => i = 0

IInv ==
  /\ TypeOK /\ ListOK(r_devs) /\ AtStart /\ Searching /\ DecodedNow
  /\ RanInOrder /\ LowestPriorityWins

\* TypeOK without the list.
RestTyped ==
  /\ no_default_devices \in BOOLEAN
  /\ phase \in {"options", "unregister", "ready", "run", "over"}
  /\ i \in 0 .. r_devs.len
  /\ unregistered \in Protocols \cup {NULL} /\ (phase = "unregister" => unregistered # NULL)
  /\ package \in {"OOK", "FSK"}
  /\ priority \in 0 .. UINT_MAX /\ next_priority \in 0 .. UINT_MAX
  /\ p_events \in Nat /\ ran \subseteq Nat /\ decoded \subseteq Nat
  /\ options \in Nat

LEMMA Typed == TypeOK => RestTyped
BY DEF TypeOK, RestTyped

LEMMA TypedAfter ==
  ASSUME ListOK(r_devs)', RestTyped'
  PROVE  TypeOK'
BY DEF TypeOK, RestTyped, ListOK, Elements

LEMMA DeviceTyped ==
  ASSUME ListOK(r_devs)
  PROVE  /\ \A k \in Entries : /\ Device(k).priority \in 0 .. UINT_MAX
                               /\ r_devs.elems[k] \in Protocols /\ ~Ends(r_devs, k)
         /\ Ends(r_devs, r_devs.len) /\ r_devs.len \in Nat
<1>1. \A p \in Protocols : Table[p].priority \in 0 .. UINT_MAX
  <2>1. \A p \in Protocols :
          Table[p] \in [ name : STRING, modulation : {"OOK", "FSK"}, priority : 0 .. UINT_MAX,
                         disabled : 0 .. 3 ]
    <3> DEFINE R == [ name : STRING, modulation : {"OOK", "FSK"}, priority : 0 .. UINT_MAX,
                      disabled : 0 .. 3 ]
    <3>1. Table \in Seq(R)
      BY DemodsAssumption
    <3> HIDE DEF R
    <3>2. \A p \in DOMAIN Table : Table[p] \in R
      BY <3>1
    <3> QED
      BY <3>2 DEF R, Protocols
  <2> QED
    BY <2>1
<1>2. \A k \in Entries : r_devs.elems[k] \in Protocols
  BY DEF ListOK, Entries
<1>3. NULL \notin Protocols
  BY DemodsAssumption
<1>4. r_devs.elems[r_devs.len] = NULL /\ r_devs.len \in Nat
  BY DEF ListOK
<1> QED
  BY <1>1, <1>2, <1>3, <1>4 DEF Device, Ends

LEMMA DemodsInit ==
  ASSUME Init
  PROVE  IInv
<1>1. ListOK(r_devs) /\ r_devs.len = 0
  BY FirstListOK DEF Init
<1>2. RestTyped
  <2>1. /\ no_default_devices \in BOOLEAN /\ phase = "options" /\ unregistered = NULL
        /\ package = "OOK" /\ ran = {} /\ decoded = {}
    BY DEF Init
  <2>2. /\ i \in 0 .. r_devs.len /\ priority \in 0 .. UINT_MAX /\ p_events \in Nat
        /\ next_priority \in 0 .. UINT_MAX /\ options \in Nat
    BY <1>1, DemodsAssumption DEF Init
  <2> QED
    BY <2>1, <2>2 DEF RestTyped
<1>3. TypeOK
  BY <1>1, <1>2 DEF TypeOK, RestTyped, ListOK, Elements
<1> QED
  BY <1>1, <1>3 DEF Init, IInv, AtStart, Searching, DecodedNow, RanInOrder, LowestPriorityWins

-----------------------------------------------------------------------------
(* Every step keeps it.                                                     *)

LEMMA RegistryStep ==
  ASSUME IInv,
         \/ \E p \in Protocols : register_protocol(p) \/ StartUnregister(p)
         \/ unregister_protocol \/ DisableAll \/ StartSession \/ r_free_cfg
  PROVE  IInv'
<1>1. ListOK(r_devs) /\ RestTyped /\ AtStart
  BY Typed DEF IInv
<1>2. phase' \in {"options", "unregister", "ready"} /\ UNCHANGED running
  BY DEF register_protocol, StartUnregister, unregister_protocol, DisableAll, StartSession,
         r_free_cfg, Option
<1>3. ListOK(r_devs)' /\ i' \in 0 .. r_devs'.len /\ AtStart'
  <2>1. ASSUME NEW p \in Protocols, register_protocol(p)
        PROVE  ListOK(r_devs)' /\ i' \in 0 .. r_devs'.len /\ AtStart'
    <3>1. r_devs' = list_push(r_devs, p) /\ i' = i /\ phase' = phase /\ phase = "options"
      BY <2>1 DEF register_protocol, Option
    <3>2. ListOK(list_push(r_devs, p)) /\ list_push(r_devs, p).len = r_devs.len + 1
      BY <1>1, PushOK
    <3>3. i = 0 /\ r_devs.len \in Nat
      BY <1>1, <3>1 DEF AtStart, ListOK
    <3> QED
      BY <3>1, <3>2, <3>3 DEF AtStart
  <2>2. ASSUME NEW p \in Protocols, StartUnregister(p)
        PROVE  ListOK(r_devs)' /\ i' \in 0 .. r_devs'.len /\ AtStart'
    <3>1. i' = 0 /\ phase' = "unregister"
          /\ r_devs' = IF no_default_devices THEN r_devs ELSE register_all_protocols(r_devs, 0)
      BY <2>2 DEF StartUnregister
    <3>2. ListOK(register_all_protocols(r_devs, 0))
      BY <1>1, RegisterAllOK
    <3>3. ListOK(r_devs')
      BY <1>1, <3>1, <3>2
    <3> QED
      BY <3>1, <3>3 DEF AtStart, ListOK
  <2>3. CASE unregister_protocol
    <3>1. CASE i >= r_devs.len
      BY <1>1, <2>3, <3>1 DEF unregister_protocol, AtStart, ListOK
    <3>2. CASE ~(i >= r_devs.len)
      <4>1. phase' = "unregister"
        BY <2>3, <3>2 DEF unregister_protocol
      <4>2. i \in Nat /\ i < r_devs.len /\ r_devs.len \in Nat
        BY <1>1, <3>2 DEF RestTyped, ListOK
      <4>3. CASE r_devs' = list_remove(r_devs, i) /\ i' = i
        <5>1. ListOK(list_remove(r_devs, i)) /\ list_remove(r_devs, i).len = r_devs.len - 1
          BY <1>1, <4>2, RemoveOK
        <5> QED
          BY <4>1, <4>2, <4>3, <5>1 DEF AtStart
      <4>4. CASE i' = i + 1 /\ r_devs' = r_devs
        BY <1>1, <4>1, <4>2, <4>4 DEF AtStart
      <4> QED
        BY <2>3, <3>2, <4>3, <4>4 DEF unregister_protocol
    <3> QED
      BY <3>1, <3>2
  <2>4. CASE DisableAll
    <3>1. r_devs' = list_clear(r_devs) /\ i' = i /\ phase' = phase /\ phase = "options"
      BY <2>4 DEF DisableAll, Option
    <3>2. ListOK(list_clear(r_devs)) /\ list_clear(r_devs).len = 0
      BY <1>1, ClearOK
    <3> QED
      BY <1>1, <3>1, <3>2 DEF AtStart
  <2>5. CASE StartSession
    <3>1. i' = i /\ phase = "options" /\ phase' = "ready"
          /\ r_devs' = IF no_default_devices THEN r_devs
                                             ELSE register_all_protocols(r_devs, Disabled)
      BY <2>5 DEF StartSession
    <3>2. ListOK(register_all_protocols(r_devs, Disabled))
      BY <1>1, RegisterAllOK
    <3>3. ListOK(r_devs') /\ i = 0
      BY <1>1, <3>1, <3>2 DEF AtStart
    <3> QED
      BY <3>1, <3>3 DEF AtStart, ListOK
  <2>6. CASE r_free_cfg
    <3>1. i' = i /\ i = 0 /\ r_devs' = list_ensure_size(NoList, FirstSize)
      BY <1>1, <2>6 DEF r_free_cfg, AtStart
    <3> QED
      BY <3>1, FirstListOK DEF AtStart
  <2> QED
    BY <2>1, <2>2, <2>3, <2>4, <2>5, <2>6
<1>4. /\ no_default_devices' \in BOOLEAN /\ options' \in Nat
      /\ unregistered' \in Protocols \cup {NULL}
      /\ phase' = "unregister" => unregistered' # NULL
  <2>1. NULL \notin Protocols
    BY DemodsAssumption
  <2>2. no_default_devices' \in BOOLEAN
    BY <1>1 DEF RestTyped, register_protocol, StartUnregister, unregister_protocol,
       DisableAll, StartSession, r_free_cfg, Option
  <2>3. options' \in Nat
    <3>1. options' \in {options, options + 1, 0}
      BY DEF register_protocol, StartUnregister, unregister_protocol, DisableAll, StartSession,
             r_free_cfg, Option
    <3> QED
      BY <1>1, <3>1 DEF RestTyped
  <2>4. /\ unregistered' \in Protocols \cup {NULL}
        /\ phase' = "unregister" => unregistered' # NULL
    <3>1. ASSUME NEW p \in Protocols, StartUnregister(p)
          PROVE  unregistered' \in Protocols
      BY <3>1 DEF StartUnregister
    <3>2. \/ \E p \in Protocols : StartUnregister(p)
          \/ unregistered' = unregistered /\ phase' = phase
          \/ unregistered' \in {unregistered, NULL} /\ phase' # "unregister"
      BY DEF register_protocol, unregister_protocol, DisableAll, StartSession, r_free_cfg, Option
    <3> QED
      BY <1>1, <2>1, <3>1, <3>2 DEF RestTyped
  <2> QED
    BY <2>2, <2>3, <2>4
<1>5. RestTyped'
  BY <1>1, <1>2, <1>3, <1>4 DEF RestTyped, running
<1>6. TypeOK'
  BY <1>3, <1>5, TypedAfter
<1> QED
  BY <1>2, <1>3, <1>6 DEF IInv, Searching, DecodedNow, RanInOrder, LowestPriorityWins

LEMMA StartPackageStep ==
  ASSUME IInv, NEW modulation \in {"OOK", "FSK"}, StartPackage(modulation)
  PROVE  IInv'
<1>1. ListOK(r_devs) /\ RestTyped /\ AtStart /\ UINT_MAX \in Nat
  BY Typed, DemodsAssumption DEF IInv
<1>2. /\ r_devs' = r_devs /\ no_default_devices' = no_default_devices
      /\ unregistered' = unregistered /\ options' = options /\ phase = "ready"
      /\ phase' = (IF UINT_MAX > 0 THEN "run" ELSE "ready") /\ package' = modulation
      /\ p_events' = 0 /\ priority' = 0 /\ next_priority' = UINT_MAX /\ i' = 0
      /\ ran' = {} /\ decoded' = {}
  BY DEF StartPackage, registry
<1>3. RestTyped'
  <2>1. phase' \in {"run", "ready"} /\ phase' # "unregister" /\ r_devs.len \in Nat
    BY <1>1, <1>2 DEF ListOK
  <2> QED
    BY <1>1, <1>2, <2>1 DEF RestTyped
<1>4. TypeOK' /\ ListOK(r_devs)'
  BY <1>1, <1>2, <1>3, TypedAfter
<1>5. \A k \in Entries : Device(k).priority \in 0 .. UINT_MAX
  BY <1>1, DeviceTyped
<1>6. RanInOrder'
  <2>1. \A k \in Entries : ~(Device(k).priority < 0) /\ ~(k < 0)
    BY <1>1, <1>5 DEF Entries, ListOK
  <2>2. \A k \in Entries' : k \in Entries /\ Device(k)' = Device(k)
    BY <1>2 DEF Entries, Device
  <2>3. \A k \in Entries' : ~Taken(k)'
    BY <1>2, <2>1, <2>2 DEF Taken
  <2> QED
    BY <1>2, <2>3 DEF RanInOrder
<1>7. Searching' /\ DecodedNow' /\ LowestPriorityWins' /\ AtStart'
  BY <1>1, <1>2 DEF Searching, DecodedNow, LowestPriorityWins, AtStart
<1> QED
  BY <1>4, <1>6, <1>7 DEF IInv

\* One entry is visited: what was run grows by it, if its turn has come.
LEMMA VisitStep ==
  ASSUME IInv, VisitDevice
  PROVE  IInv'
<1>1. ListOK(r_devs) /\ RestTyped /\ UINT_MAX \in Nat /\ i \in Nat /\ r_devs.len \in Nat
  BY Typed, DemodsAssumption DEF IInv, RestTyped, ListOK
<1>2. /\ r_devs' = r_devs /\ no_default_devices' = no_default_devices
      /\ unregistered' = unregistered /\ options' = options
      /\ phase = "run" /\ phase' = "run" /\ i' = i + 1
      /\ package' = package /\ priority' = priority
      /\ next_priority' = IF Smaller(i) THEN Device(i).priority ELSE next_priority
  BY DEF VisitDevice, registry
<1>3. i \in Entries
  <2>1. i # r_devs.len
    BY <1>1, DeviceTyped DEF VisitDevice
  <2>2. i \in 0 .. r_devs.len
    BY <1>1 DEF RestTyped
  <2> QED
    BY <1>1, <2>1, <2>2 DEF Entries
<1>4. \A k \in Entries : Device(k).priority \in 0 .. UINT_MAX
  BY <1>1, DeviceTyped
<1>5. /\ Entries' = Entries
      /\ \A k \in Entries : Device(k)' = Device(k) /\ (InFamily(k)' <=> InFamily(k))
  BY <1>2 DEF Entries, Device, InFamily
<1> DEFINE turn == Device(i).priority = priority /\ InFamily(i)
<1>6. /\ ran' = IF turn THEN ran \cup {i} ELSE ran
      /\ decoded' \in {decoded, decoded \cup {i}} /\ (~turn => decoded' = decoded)
      /\ p_events' \in {p_events, p_events + 1}
      /\ p_events' = p_events => decoded' = decoded
      /\ p_events' = p_events + 1 => decoded' = decoded \cup {i}
  <2>1. CASE turn
    <3>1. PICK events \in 0 .. 1 : /\ p_events' = p_events + events
                                   /\ decoded' = IF events > 0 THEN decoded \cup {i} ELSE decoded
      BY <2>1 DEF VisitDevice
    <3>2. ran' = ran \cup {i}
      BY <2>1 DEF VisitDevice
    <3>3. p_events \in Nat
      BY <1>1 DEF RestTyped
    <3>4. CASE events = 0
      BY <2>1, <3>1, <3>2, <3>3, <3>4
    <3>5. CASE events = 1
      BY <2>1, <3>1, <3>2, <3>3, <3>5
    <3> QED
      BY <3>4, <3>5
  <2>2. CASE ~turn
    <3>1. ran' = ran /\ decoded' = decoded /\ p_events' = p_events /\ p_events \in Nat
      BY <1>1, <2>2 DEF VisitDevice, RestTyped
    <3> QED
      BY <2>2, <3>1
  <2> QED
    BY <2>1, <2>2
<1>7. RestTyped'
  <2>1. next_priority' \in 0 .. UINT_MAX
    BY <1>1, <1>2, <1>3, <1>4 DEF RestTyped
  <2>2. i' \in 0 .. r_devs.len
    BY <1>1, <1>2, <1>3 DEF Entries
  <2>3. ran' \subseteq Nat /\ decoded' \subseteq Nat /\ p_events' \in Nat
    <3>1. ran \subseteq Nat /\ decoded \subseteq Nat /\ p_events \in Nat
      BY <1>1 DEF RestTyped
    <3>2. ran' \subseteq ran \cup {i} /\ decoded' \subseteq decoded \cup {i}
      BY <1>6
    <3> QED
      BY <1>1, <1>6, <3>1, <3>2
  <2> QED
    BY <1>1, <1>2, <2>1, <2>2, <2>3 DEF RestTyped
<1>8. TypeOK' /\ ListOK(r_devs)'
  BY <1>1, <1>2, <1>7, TypedAfter
<1>9. priority \in 0 .. UINT_MAX /\ next_priority \in 0 .. UINT_MAX
  BY <1>1 DEF RestTyped
<1>10. Searching'
  <2>1. /\ priority < UINT_MAX /\ priority < next_priority
        /\ \A k \in 0 .. i - 1 :
             Device(k).priority > priority => next_priority <= Device(k).priority
    BY <1>2 DEF IInv, Searching
  <2>2. \A k \in 0 .. i' - 1 : k \in Entries /\ (k \in 0 .. i - 1 \/ k = i)
    BY <1>1, <1>2, <1>3 DEF Entries
  <2>3. priority < next_priority' /\ next_priority' <= next_priority
    BY <1>2, <1>3, <1>4, <1>9, <2>1 DEF Smaller
  <2>4. Device(i).priority > priority => next_priority' <= Device(i).priority
    BY <1>2, <1>3, <1>4, <1>9 DEF Smaller
  <2>5. next_priority' \in 0 .. UINT_MAX
    BY <1>7 DEF RestTyped
  <2>6. ASSUME NEW k \in 0 .. i' - 1, Device(k).priority > priority
        PROVE  next_priority' <= Device(k).priority
    <3>1. CASE k = i
      BY <2>4, <2>6, <3>1
    <3>2. CASE k \in 0 .. i - 1
      BY <1>4, <1>9, <2>1, <2>2, <2>3, <2>5, <2>6, <3>2
    <3> QED
      BY <2>2, <3>1, <3>2
  <2>7. \A k \in 0 .. i' - 1 : Device(k)' = Device(k)
    BY <1>5, <2>2
  <2> QED
    BY <1>2, <2>1, <2>3, <2>6, <2>7 DEF Searching
<1>11. RanInOrder'
  <2>1. ran = {k \in Entries : InFamily(k) /\ Taken(k)}
    BY <1>2 DEF IInv, RanInOrder
  <2>2. \A k \in Entries :
          Taken(k)' <=> Taken(k) \/ (k = i /\ Device(k).priority = priority)
    <3> SUFFICES ASSUME NEW k \in Entries
                 PROVE  Taken(k)' <=> Taken(k) \/ (k = i /\ Device(k).priority = priority)
      OBVIOUS
    <3>1. k \in Nat /\ Device(k)' = Device(k)
      BY <1>1, <1>5 DEF Entries
    <3>2. k < i + 1 <=> k < i \/ k = i
      BY <1>1, <3>1
    <3> QED
      BY <1>2, <3>1, <3>2 DEF Taken
  <2>3. ran' = {k \in Entries : InFamily(k) /\ Taken(k)'}
    <3>1. CASE turn
      BY <1>3, <1>6, <2>1, <2>2, <3>1
    <3>2. CASE ~turn
      BY <1>3, <1>6, <2>1, <2>2, <3>2
    <3> QED
      BY <3>1, <3>2
  <2> QED
    BY <1>5, <2>3 DEF RanInOrder
<1>12. DecodedNow'
  <2>1. /\ decoded \subseteq ran /\ (p_events = 0 <=> decoded = {})
        /\ \A k \in decoded : Device(k).priority = priority
    BY <1>2 DEF IInv, DecodedNow
  <2>2. decoded' \subseteq ran'
    BY <1>6, <2>1
  <2>3. p_events' = 0 <=> decoded' = {}
    BY <1>1, <1>6, <2>1 DEF RestTyped
  <2>4. \A k \in decoded' : Device(k).priority = priority
    BY <1>6, <2>1
  <2>5. \A k \in decoded' : Device(k)' = Device(k)
    BY <1>2 DEF Device
  <2> QED
    BY <1>2, <2>2, <2>3, <2>4, <2>5 DEF DecodedNow
<1> QED
  BY <1>2, <1>8, <1>10, <1>11, <1>12 DEF IInv, AtStart, LowestPriorityWins

\* At the end of the list all entries up to the current priority were seen, and none lies
\* between it and the next one.
LEMMA NextPriorityStep ==
  ASSUME IInv, NextPriority
  PROVE  IInv'
<1>1. ListOK(r_devs) /\ RestTyped /\ UINT_MAX \in Nat /\ i \in Nat /\ r_devs.len \in Nat
  BY Typed, DemodsAssumption DEF IInv, RestTyped, ListOK
<1>2. /\ UNCHANGED <<r_devs, no_default_devices, unregistered, options, package, p_events, ran,
                    decoded>>
      /\ phase = "run" /\ priority' = next_priority /\ i' = 0
      /\ \/ /\ p_events = 0 /\ next_priority < UINT_MAX
            /\ next_priority' = UINT_MAX /\ phase' = "run"
         \/ /\ ~(p_events = 0 /\ next_priority < UINT_MAX)
            /\ next_priority' = next_priority /\ phase' = "over"
  BY DEF NextPriority, registry
<1>3. i = r_devs.len
  <2>1. i \in 0 .. r_devs.len /\ ~(i \in Entries)
    BY <1>1, DeviceTyped DEF RestTyped, NextPriority
  <2> QED
    BY <1>1, <2>1 DEF Entries
<1>4. \A k \in Entries : Device(k).priority \in 0 .. UINT_MAX /\ k \in 0 .. i - 1 /\ k \in Nat
  BY <1>1, <1>3, DeviceTyped DEF Entries
<1>5. /\ Entries' = Entries
      /\ \A k \in Entries : Device(k)' = Device(k) /\ (InFamily(k)' <=> InFamily(k))
  BY <1>2 DEF Entries, Device, InFamily
<1>6. /\ priority \in 0 .. UINT_MAX /\ next_priority \in 0 .. UINT_MAX
      /\ priority < UINT_MAX /\ priority < next_priority
      /\ \A k \in Entries :
           Device(k).priority > priority => next_priority <= Device(k).priority
  <2>1. priority \in 0 .. UINT_MAX /\ next_priority \in 0 .. UINT_MAX
    BY <1>1 DEF RestTyped
  <2> QED
    BY <1>2, <1>4, <2>1 DEF IInv, Searching
<1>7. ran = {k \in Entries : InFamily(k) /\ Device(k).priority <= priority}
  <2>1. ran = {k \in Entries : InFamily(k) /\ Taken(k)}
    BY <1>2 DEF IInv, RanInOrder
  <2>2. \A k \in Entries : Taken(k) <=> Device(k).priority <= priority
    <3> SUFFICES ASSUME NEW k \in Entries
                 PROVE  Taken(k) <=> Device(k).priority <= priority
      OBVIOUS
    <3>1. k < i
      BY <1>1, <1>4
    <3>2. Device(k).priority \in Nat /\ priority \in Nat
      BY <1>4, <1>6
    <3> QED
      BY <3>1, <3>2 DEF Taken
  <2> QED
    BY <2>1, <2>2
<1>8. TypeOK' /\ ListOK(r_devs)'
  <2>1. i' \in 0 .. r_devs.len
    BY <1>1, <1>2
  <2>2. next_priority' \in 0 .. UINT_MAX
    BY <1>1, <1>2, <1>6
  <2>3. RestTyped'
    BY <1>1, <1>2, <1>6, <2>1, <2>2 DEF RestTyped
  <2> QED
    BY <1>1, <1>2, <2>3, TypedAfter
<1>9. CASE phase' = "run"
  <2>1. p_events = 0 /\ next_priority < UINT_MAX /\ next_priority' = UINT_MAX
    BY <1>2, <1>9
  <2>2. decoded = {}
    BY <1>2, <2>1 DEF IInv, DecodedNow
  <2>3. Searching' /\ DecodedNow' /\ AtStart' /\ LowestPriorityWins'
    BY <1>1, <1>2, <1>9, <2>1, <2>2
    DEF Searching, DecodedNow, AtStart, LowestPriorityWins
  <2>4. RanInOrder'
    <3>1. ASSUME NEW k \in Entries
          PROVE  Taken(k)' <=> Device(k).priority <= priority
      <4>1. Taken(k)' <=> Device(k).priority < next_priority
        <5>1. Device(k)' = Device(k) /\ ~(k < i')
          BY <1>2, <1>4, <1>5
        <5> QED
          BY <1>2, <5>1 DEF Taken
      <4>2. Device(k).priority \in Nat /\ priority \in Nat /\ next_priority \in Nat
        BY <1>4, <1>6
      <4>3. Device(k).priority > priority => next_priority <= Device(k).priority
        BY <1>6
      <4> QED
        BY <1>6, <4>1, <4>2, <4>3
    <3> QED
      BY <1>2, <1>5, <1>7, <3>1 DEF RanInOrder
  <2> QED
    BY <1>8, <2>3, <2>4 DEF IInv
<1>10. CASE phase' = "over"
  <2>1. Searching' /\ DecodedNow' /\ AtStart' /\ RanInOrder'
    BY <1>2, <1>10 DEF Searching, DecodedNow, AtStart, RanInOrder
  <2>2. ~(p_events = 0 /\ next_priority < UINT_MAX)
    BY <1>2, <1>10
  <2>3. /\ decoded \subseteq ran /\ (p_events = 0 <=> decoded = {})
        /\ \A k \in decoded : Device(k).priority = priority
    BY <1>2 DEF IInv, DecodedNow
  <2>4. \A k \in decoded, q \in ran : Device(q).priority <= Device(k).priority
    BY <1>7, <2>3
  <2>5. \A k \in decoded, q \in Entries :
          InFamily(q) /\ Device(q).priority <= Device(k).priority => q \in ran
    BY <1>7, <2>3
  <2>6. ASSUME decoded = {}
        PROVE  ran = {k \in Entries : InFamily(k) /\ Device(k).priority < UINT_MAX}
    <3>1. next_priority = UINT_MAX
      BY <1>1, <1>6, <2>2, <2>3, <2>6
    <3>2. ASSUME NEW k \in Entries
          PROVE  Device(k).priority <= priority <=> Device(k).priority < UINT_MAX
      <4>1. Device(k).priority \in 0 .. UINT_MAX
        BY <1>4
      <4>2. Device(k).priority > priority => UINT_MAX <= Device(k).priority
        BY <1>6, <3>1
      <4> QED
        BY <1>1, <1>6, <4>1, <4>2
    <3> QED
      BY <1>7, <3>2
  <2>7. LowestPriorityWins'
    <3>1. ran \subseteq Entries /\ decoded \subseteq Entries
      BY <1>7, <2>3
    <3> QED
      BY <1>2, <1>5, <2>4, <2>5, <2>6, <3>1 DEF LowestPriorityWins
  <2> QED
    BY <1>8, <2>1, <2>7 DEF IInv
<1> QED
  BY <1>2, <1>9, <1>10

LEMMA DemodsStep ==
  ASSUME IInv, [Next]_vars
  PROVE  IInv'
<1>1. CASE \/ \E p \in Protocols : register_protocol(p) \/ StartUnregister(p)
           \/ unregister_protocol \/ DisableAll \/ StartSession \/ r_free_cfg
  BY <1>1, RegistryStep
<1>2. CASE \E modulation \in {"OOK", "FSK"} : StartPackage(modulation)
  BY <1>2, StartPackageStep
<1>3. CASE Package
  BY <1>3, VisitStep, NextPriorityStep DEF Package
<1>4. CASE PackageDone \/ UNCHANGED vars
  <2>1. /\ UNCHANGED <<registry, running, i>>
        /\ phase' = phase \/ (phase = "over" /\ phase' = "ready")
    BY <1>4 DEF PackageDone, vars
  <2> QED
    BY <2>1 DEF registry, running, IInv, TypeOK, AtStart, Searching, DecodedNow, RanInOrder,
       LowestPriorityWins, ListOK, Entries, Device, InFamily, Taken
<1> QED
  BY <1>1, <1>2, <1>3, <1>4 DEF Next

-----------------------------------------------------------------------------
(* The results.                                                             *)

\* Type correctness, for any table and any number of options.
THEOREM DemodsTypeOK == Spec => []TypeOK
<1>1. IInv => TypeOK
  BY DEF IInv
<1> QED
  BY DemodsInit, DemodsStep, <1>1, PTL DEF Spec

\* A loop over the devices ends at the NULL, which stands where the length says.
THEOREM DemodsTerminated == Spec => []DevicesTerminated
<1>1. IInv => DevicesTerminated
  <2> SUFFICES ASSUME IInv
               PROVE  DevicesTerminated
    OBVIOUS
  <2>1. ListOK(r_devs) /\ NULL \notin Protocols
    BY DemodsAssumption DEF IInv
  <2> QED
    BY <2>1 DEF ListOK, DevicesTerminated, Terminated, Ends
<1> QED
  BY DemodsInit, DemodsStep, <1>1, PTL DEF Spec

\* The devices see a package in the order of their priorities, none left out.
THEOREM DemodsRanInOrder == Spec => []RanInOrder
<1>1. IInv => RanInOrder
  BY DEF IInv
<1> QED
  BY DemodsInit, DemodsStep, <1>1, PTL DEF Spec

\* A package goes to the devices of the lowest priority that decodes it.
THEOREM DemodsLowestPriorityWins == Spec => []LowestPriorityWins
<1>1. IInv => LowestPriorityWins
  BY DEF IInv
<1> QED
  BY DemodsInit, DemodsStep, <1>1, PTL DEF Spec

\* The search for a device that decodes a package ends, whatever the devices decode: each
\* step of the loop goes on to the next device of the list, or to a higher priority with
\* the same list, or is the last one.  Priorities have an end, UINT_MAX, and the list one.
THEOREM DemodsSearchAdvances ==
  Spec => [][Package => \/ phase' = "over"
                        \/ /\ r_devs' = r_devs /\ phase' = "run"
                           /\ priority' \in 0 .. UINT_MAX - 1 /\ i' \in 0 .. r_devs.len
                           /\ \/ priority' > priority
                              \/ priority' = priority /\ i' > i]_vars
<1>1. ASSUME IInv, Package
      PROVE  \/ phase' = "over"
             \/ /\ r_devs' = r_devs /\ phase' = "run"
                /\ priority' \in 0 .. UINT_MAX - 1 /\ i' \in 0 .. r_devs.len
                /\ \/ priority' > priority
                   \/ priority' = priority /\ i' > i
  <2>1. /\ phase = "run" /\ priority \in 0 .. UINT_MAX /\ next_priority \in 0 .. UINT_MAX
        /\ priority < UINT_MAX /\ priority < next_priority /\ UINT_MAX \in Nat
        /\ i \in 0 .. r_devs.len /\ r_devs.len \in Nat
    BY <1>1, DemodsAssumption
       DEF IInv, TypeOK, ListOK, Searching, Package, VisitDevice, NextPriority
  <2>2. IInv'
    BY <1>1, DemodsStep DEF Next
  <2>3. CASE VisitDevice
    <3>1. r_devs' = r_devs /\ phase' = phase /\ priority' = priority /\ i' = i + 1
      BY <2>3 DEF VisitDevice, registry
    <3>2. i' \in 0 .. r_devs'.len
      BY <2>2 DEF IInv, TypeOK
    <3> QED
      BY <2>1, <3>1, <3>2
  <2>4. CASE NextPriority
    <3>1. /\ r_devs' = r_devs /\ priority' = next_priority /\ i' = 0
          /\ phase' = "over" \/ (next_priority < UINT_MAX /\ phase' = phase)
      BY <2>4 DEF NextPriority, registry
    <3> QED
      BY <2>1, <3>1
  <2> QED
    BY <1>1, <2>3, <2>4 DEF Package
<1> QED
  BY DemodsInit, DemodsStep, <1>1, PTL DEF Spec

-----------------------------------------------------------------------------
(* The registry implements the set of devices.                              *)

\* The entries before i do not have the name that is unregistered.
Passed == phase = "unregister" => \A k \in 0 .. i - 1 : r_devs.elems[k] \in Left

\* Only before the first option the list is empty for want of one.
GivenFirst ==
  phase \in {"options", "unregister"} =>
    /\ no_default_devices <=> options > 0
    /\ ~no_default_devices => r_devs.len = 0 /\ phase = "options"

SetInv == IInv /\ Passed /\ GivenFirst

Without(p) == {q \in Protocols : ~SameName(q, p)}

LEMMA DisabledIn ==
  ASSUME NEW p \in Protocols, NEW d
  PROVE  Abstract!DisableIn(d, p) = Only(d, Without(p))
<1>1. \A s, S : Abstract!Only(s, S) = Only(s, S)
  BY DEF Abstract!Only, Abstract!OnlyUpTo, Only, OnlyUpTo
<1>2. {q \in Protocols : [r \in Protocols |-> Table[r].name][q] # [r \in Protocols |-> Table[r].name][p]}
        = Without(p)
  BY DEF Without, SameName
<1> QED
  BY <1>1, <1>2 DEF Abstract!DisableIn

LEMMA LeftNow ==
  /\ phase # "unregister" => Left = Protocols
  /\ phase = "unregister" => Left = Without(unregistered)
BY DEF Left, Without

LEMMA LeftThen ==
  /\ phase' # "unregister" => Left' = Protocols
  /\ phase' = "unregister" => Left' = Without(unregistered')
BY DEF Left, Without, SameName

LEMMA EnabledNow ==
  ASSUME ListOK(r_devs)
  PROVE  Only(Registry, Left) = OnlyUpTo(Devs(r_devs), Left, r_devs.len)
<1>1. Registry = Devs(r_devs)
  BY DEF Registry, Devs
<1>2. Len(Devs(r_devs)) = r_devs.len
  BY DevsAre
<1> QED
  BY <1>1, <1>2 DEF Only

LEMMA EnabledThen ==
  ASSUME ListOK(r_devs')
  PROVE  Only(Registry, Left)' = OnlyUpTo(Devs(r_devs'), Left', r_devs'.len)
<1>1. Registry' = Devs(r_devs')
  BY DEF Registry, Devs
<1>2. Len(Devs(r_devs')) = r_devs'.len
  BY DevsAre
<1>3. Only(Registry, Left)' = OnlyUpTo(Registry', Left', Len(Registry'))
  BY DEF Only, OnlyUpTo
<1> QED
  BY <1>1, <1>2, <1>3

LEMMA WholeList ==
  ASSUME NEW l, ListOK(l), NEW S, \A k \in 0 .. l.len - 1 : l.elems[k] \in S
  PROVE  OnlyUpTo(Devs(l), S, l.len) = Devs(l)
<1> DEFINE s == Devs(l)
           n == l.len
<1>1. /\ n \in Nat /\ (\A k \in 1 .. n : s[k] = l.elems[k - 1]) /\ s = First(s, n)
  BY DevsAre
<1> HIDE DEF s
<1>2. \A k \in 1 .. n : k - 1 \in 0 .. n - 1 /\ s[k] \in S
  <2> HIDE DEF n
  <2>1. \A k \in 1 .. n : k - 1 \in 0 .. n - 1
    BY <1>1
  <2> QED
    BY <1>1, <2>1 DEF n
<1>3. OnlyUpTo(s, S, n) = First(s, n)
  <2> HIDE DEF n
  <2>1. \A k \in 1 .. n : s[k] \in S
    BY <1>2
  <2> QED
    BY <1>1, <2>1, OnlyAll
<1> QED
  BY <1>1, <1>3 DEF s

\* Outside of unregister_protocol the enabled devices are those of the list.
LEMMA ListedNow ==
  ASSUME ListOK(r_devs), phase # "unregister"
  PROVE  Only(Registry, Left) = Devs(r_devs)
<1>1. \A k \in 0 .. r_devs.len - 1 : r_devs.elems[k] \in Protocols
  BY DEF ListOK
<1>2. OnlyUpTo(Devs(r_devs), Protocols, r_devs.len) = Devs(r_devs)
  BY <1>1, WholeList
<1> QED
  BY <1>2, EnabledNow, LeftNow

LEMMA ListedThen ==
  ASSUME ListOK(r_devs'), phase' # "unregister"
  PROVE  Only(Registry, Left)' = Devs(r_devs')
<1>1. \A k \in 0 .. r_devs'.len - 1 : r_devs'.elems[k] \in Protocols
  BY DEF ListOK
<1>2. OnlyUpTo(Devs(r_devs'), Protocols, r_devs'.len) = Devs(r_devs')
  BY <1>1, WholeList
<1> QED
  BY <1>2, EnabledThen, LeftThen

\* A list with the same devices has the same enabled ones.
LEMMA Unlisted ==
  ASSUME ListOK(r_devs), r_devs' = r_devs, phase # "unregister", phase' # "unregister"
  PROVE  Only(Registry, Left)' = Only(Registry, Left)
<1>1. ListOK(r_devs')
  OBVIOUS
<1> QED
  BY <1>1, ListedNow, ListedThen

-----------------------------------------------------------------------------
(* The steps of the registry.                                               *)

LEMMA EnableStep ==
  ASSUME SetInv, NEW p \in Protocols, register_protocol(p)
  PROVE  Abstract!Enable(p)
<1>1. /\ r_devs' = list_push(r_devs, p) /\ phase = "options" /\ phase' = phase
      /\ options' = options + 1
  BY DEF register_protocol, Option
<1>2. ListOK(r_devs)
  BY DEF SetInv, IInv
<1>3. ListOK(r_devs')
  BY <1>1, <1>2, PushOK
<1>4. Devs(r_devs') = Append(Devs(r_devs), p)
  BY <1>1, <1>2, DevsPushed
<1>5. Only(Registry, Left) = Devs(r_devs) /\ Only(Registry, Left)' = Devs(r_devs')
  BY <1>1, <1>2, <1>3, ListedNow, ListedThen
<1> QED
  BY <1>1, <1>4, <1>5 DEF Abstract!Enable

LEMMA DisableAllStep ==
  ASSUME SetInv, DisableAll
  PROVE  Abstract!DisableAll
<1>1. /\ r_devs' = list_clear(r_devs) /\ phase = "options" /\ phase' = phase
      /\ options' = options + 1
  BY DEF DisableAll, Option
<1>2. ListOK(r_devs') /\ r_devs'.len = 0
  BY <1>1, ClearOK DEF SetInv, IInv
<1>3. Devs(r_devs') = <<>>
  BY <1>2 DEF Devs
<1>4. Only(Registry, Left)' = <<>>
  BY <1>1, <1>2, <1>3, ListedThen
<1> QED
  BY <1>1, <1>4 DEF Abstract!DisableAll

LEMMA EndStep ==
  ASSUME SetInv, r_free_cfg
  PROVE  Abstract!EndSession
<1>1. /\ r_devs' = list_ensure_size(NoList, FirstSize) /\ phase' = "options" /\ options' = 0
  BY DEF r_free_cfg
<1>2. ListOK(r_devs') /\ r_devs'.len = 0
  BY <1>1, FirstListOK
<1>3. Devs(r_devs') = <<>>
  BY <1>2 DEF Devs
<1>4. Only(Registry, Left)' = <<>>
  BY <1>1, <1>2, <1>3, ListedThen
<1> QED
  BY <1>1, <1>4 DEF Abstract!EndSession

\* Without an option the default devices are registered when the session starts.
LEMMA DefaultStep ==
  ASSUME SetInv, StartSession
  PROVE  \/ Abstract!Default
         \/ UNCHANGED <<Only(Registry, Left), options>>
<1>1. /\ phase = "options" /\ phase' = "ready" /\ options' = options
      /\ r_devs' = IF no_default_devices THEN r_devs ELSE register_all_protocols(r_devs, Disabled)
  BY DEF StartSession, registry
<1>2. ListOK(r_devs) /\ options \in Nat
  BY DEF SetInv, IInv, TypeOK
<1>3. CASE no_default_devices
  BY <1>1, <1>2, <1>3, Unlisted
<1>4. CASE ~no_default_devices
  <2>1. options = 0 /\ r_devs.len = 0
    BY <1>1, <1>2, <1>4 DEF SetInv, GivenFirst
  <2>2. ListOK(r_devs') /\ Devs(r_devs') = Only(AllProtocols, Chosen(Disabled))
    BY <1>1, <1>2, <1>4, <2>1, DevsRegistered
  <2>3. Only(Registry, Left)' = Only(AllProtocols, Chosen(Disabled))
    BY <1>1, <2>2, ListedThen
  <2> QED
    BY <1>1, <2>1, <2>3 DEF Abstract!Default
<1> QED
  BY <1>3, <1>4

\* What is unregistered is gone at once.
LEMMA DisableStep ==
  ASSUME SetInv, NEW p \in Protocols, StartUnregister(p)
  PROVE  Abstract!Disable(p)
<1>1. /\ phase = "options" /\ phase' = "unregister" /\ options' = options + 1
      /\ unregistered' = p
      /\ r_devs' = IF no_default_devices THEN r_devs ELSE register_all_protocols(r_devs, 0)
  BY DEF StartUnregister, Option
<1>2. ListOK(r_devs) /\ options \in Nat
  BY DEF SetInv, IInv, TypeOK
<1>3. ListOK(r_devs')
  BY <1>1, <1>2, RegisterAllOK
<1>4. Only(Registry, Left)' = Only(Devs(r_devs'), Without(p))
  <2>1. Len(Devs(r_devs')) = r_devs'.len
    BY <1>3, DevsAre
  <2>2. Left' = Without(p)
    BY <1>1, LeftThen
  <2> QED
    BY <1>3, <2>1, <2>2, EnabledThen DEF Only
<1>5. Only(Registry, Left)' = Abstract!DisableIn(Devs(r_devs'), p)
  BY <1>4, DisabledIn
<1>6. CASE no_default_devices
  <2>1. options # 0
    BY <1>1, <1>2, <1>6 DEF SetInv, GivenFirst
  <2>2. Only(Registry, Left) = Devs(r_devs')
    BY <1>1, <1>2, <1>6, ListedNow
  <2> QED
    BY <1>1, <1>5, <2>1, <2>2 DEF Abstract!Disable
<1>7. CASE ~no_default_devices
  <2>1. options = 0 /\ r_devs.len = 0
    BY <1>1, <1>2, <1>7 DEF SetInv, GivenFirst
  <2>2. Devs(r_devs') = Only(AllProtocols, Chosen(0))
    BY <1>1, <1>2, <1>7, <2>1, DevsRegistered
  <2> QED
    BY <1>1, <1>5, <2>1, <2>2 DEF Abstract!Disable
<1> QED
  BY <1>6, <1>7

\* The loop that takes the entries out changes nothing more.
LEMMA UnregisterStep ==
  ASSUME SetInv, unregister_protocol
  PROVE  UNCHANGED <<Only(Registry, Left), options>>
<1>1. ListOK(r_devs) /\ i \in 0 .. r_devs.len /\ r_devs.len \in Nat
  BY DEF SetInv, IInv, TypeOK, ListOK
<1>2. phase = "unregister" /\ options' = options
  BY DEF unregister_protocol
<1>3. CASE i >= r_devs.len
  <2>1. r_devs' = r_devs /\ phase' = "options"
    BY <1>3 DEF unregister_protocol
  <2>2. \A k \in 0 .. r_devs.len - 1 : r_devs.elems[k] \in Left
    <3>1. i = r_devs.len
      BY <1>1, <1>3
    <3> QED
      BY <1>2, <3>1 DEF SetInv, Passed
  <2>3. Only(Registry, Left) = Devs(r_devs)
    <3>1. OnlyUpTo(Devs(r_devs), Left, r_devs.len) = Devs(r_devs)
      BY <1>1, <2>2, WholeList
    <3> QED
      BY <1>1, <3>1, EnabledNow
  <2>4. Only(Registry, Left)' = Devs(r_devs')
    BY <1>1, <2>1, ListedThen
  <2> QED
    BY <1>2, <2>1, <2>3, <2>4
<1>4. CASE i < r_devs.len
  <2>1. /\ phase' = phase /\ unregistered' = unregistered
        /\ IF SameName(r_devs.elems[i], unregistered)
             THEN r_devs' = list_remove(r_devs, i) ELSE r_devs' = r_devs
    BY <1>1, <1>4 DEF unregister_protocol
  <2>2. Left' = Left /\ Left = Without(unregistered)
    BY <1>2, <2>1, LeftNow, LeftThen
  <2>3. CASE ~SameName(r_devs.elems[i], unregistered)
    <3>1. r_devs' = r_devs /\ ListOK(r_devs')
      BY <1>1, <2>1, <2>3
    <3> QED
      BY <1>1, <1>2, <2>2, <3>1, EnabledNow, EnabledThen
  <2>4. CASE SameName(r_devs.elems[i], unregistered)
    <3> DEFINE n == r_devs.len - 1
               s == Devs(r_devs)
               t == Devs(r_devs')
               S == Left
    <3>1. r_devs' = list_remove(r_devs, i) /\ i \in Nat
      BY <1>1, <2>1, <2>4
    <3>2. ListOK(r_devs') /\ r_devs'.len = n
      BY <1>1, <1>4, <3>1, RemoveOK
    <3>3. /\ \A k \in 0 .. i - 1 : r_devs'.elems[k] = r_devs.elems[k]
          /\ \A k \in i .. r_devs.len - 2 : r_devs'.elems[k] = r_devs.elems[k + 1]
      BY <1>1, <1>4, <3>1, RemoveIs
    <3>4. /\ \A k \in 1 .. r_devs.len : s[k] = r_devs.elems[k - 1]
          /\ \A k \in 1 .. n : t[k] = r_devs'.elems[k - 1]
      <4>1. \A k \in 1 .. r_devs.len : s[k] = r_devs.elems[k - 1]
        BY <1>1, DevsAre
      <4>2. \A k \in 1 .. r_devs'.len : t[k] = r_devs'.elems[k - 1]
        BY <3>2, DevsAre
      <4> QED
        BY <3>2, <4>1, <4>2
    <3> HIDE DEF s, t, S
    <3>5. n \in Nat /\ i \in 0 .. n /\ n + 1 = r_devs.len
      BY <1>1, <1>4
    <3>6. \A k \in 1 .. i : t[k] = s[k]
      <4>1. \A k \in 1 .. i : k - 1 \in 0 .. i - 1 /\ k \in 1 .. r_devs.len /\ k \in 1 .. n
        BY <1>1, <3>5
      <4> QED
        BY <3>3, <3>4, <4>1
    <3>7. \A k \in i + 1 .. n : t[k] = s[k + 1]
      <4> SUFFICES ASSUME NEW k \in i + 1 .. n
                   PROVE  t[k] = s[k + 1]
        OBVIOUS
      <4> DEFINE j == k - 1
      <4>1. /\ j \in i .. r_devs.len - 2 /\ k + 1 \in 1 .. r_devs.len /\ k \in 1 .. n
            /\ (k + 1) - 1 = j + 1
        BY <1>1, <3>5
      <4>2. t[k] = r_devs'.elems[j]
        BY <3>4, <4>1
      <4>3. s[k + 1] = r_devs.elems[j + 1]
        BY <3>4, <4>1
      <4> QED
        BY <3>3, <4>1, <4>2, <4>3
    <3>8. s[i + 1] \notin S
      <4>1. i + 1 \in 1 .. r_devs.len /\ (i + 1) - 1 = i
        BY <1>1, <1>4
      <4>2. s[i + 1] = r_devs.elems[i]
        BY <3>4, <4>1
      <4> QED
        BY <2>2, <2>4, <4>2 DEF Without, S
    <3>9. OnlyUpTo(t, S, n) = OnlyUpTo(s, S, n + 1)
      <4> HIDE DEF n
      <4> QED
        BY <3>5, <3>6, <3>7, <3>8, OnlyWithout
    <3>10. Only(Registry, Left) = OnlyUpTo(s, S, r_devs.len)
      BY <1>1, EnabledNow DEF s, S
    <3>11. Only(Registry, Left)' = OnlyUpTo(t, S, n)
      BY <2>2, <3>2, EnabledThen DEF t, S
    <3> QED
      BY <1>2, <3>5, <3>9, <3>10, <3>11
  <2> QED
    BY <2>3, <2>4
<1> QED
  BY <1>1, <1>3, <1>4

LEMMA SetInit ==
  ASSUME Init
  PROVE  SetInv
<1>1. r_devs.len = 0
  BY FirstListOK DEF Init
<1>2. phase = "options" /\ no_default_devices = FALSE /\ options = 0
  BY DEF Init
<1>3. Passed
  BY <1>2 DEF Passed
<1>4. GivenFirst
  BY <1>1, <1>2 DEF GivenFirst
<1> QED
  BY <1>3, <1>4, DemodsInit DEF SetInv

LEMMA SetStep ==
  ASSUME SetInv, [Next]_vars
  PROVE  SetInv'
<1>1. IInv' /\ IInv /\ options \in Nat /\ no_default_devices \in BOOLEAN
  BY DemodsStep DEF SetInv, IInv, TypeOK
<1>2. ListOK(r_devs) /\ i \in 0 .. r_devs.len /\ r_devs.len \in Nat
  BY <1>1 DEF IInv, TypeOK, ListOK
<1>3. ASSUME NEW p \in Protocols, register_protocol(p)
      PROVE  Passed' /\ GivenFirst'
  BY <1>1, <1>3 DEF register_protocol, Option, Passed, GivenFirst
<1>4. ASSUME NEW p \in Protocols, StartUnregister(p)
      PROVE  Passed' /\ GivenFirst'
  BY <1>1, <1>4 DEF StartUnregister, Option, Passed, GivenFirst
<1>5. ASSUME unregister_protocol
      PROVE  Passed' /\ GivenFirst'
  <2>1. GivenFirst'
    <3>1. /\ phase = "unregister" /\ options' = options
          /\ no_default_devices' = no_default_devices
      BY <1>5 DEF unregister_protocol
    <3>2. no_default_devices
      BY <3>1 DEF SetInv, GivenFirst
    <3> QED
      BY <3>1, <3>2 DEF SetInv, GivenFirst
  <2>2. Passed'
    <3>1. CASE i >= r_devs.len
      BY <1>5, <3>1 DEF unregister_protocol, Passed
    <3>2. CASE i < r_devs.len
      <4>1. /\ phase = "unregister" /\ phase' = phase /\ unregistered' = unregistered
            /\ IF SameName(r_devs.elems[i], unregistered)
                 THEN r_devs' = list_remove(r_devs, i) /\ i' = i
                 ELSE r_devs' = r_devs /\ i' = i + 1
        BY <1>2, <1>5, <3>2 DEF unregister_protocol
      <4>2. Left' = Left /\ Left = Without(unregistered)
        BY <4>1, LeftNow, LeftThen
      <4>3. \A k \in 0 .. i - 1 : r_devs.elems[k] \in Left
        BY <4>1 DEF SetInv, Passed
      <4>4. CASE SameName(r_devs.elems[i], unregistered)
        <5>1. \A k \in 0 .. i - 1 : r_devs'.elems[k] = r_devs.elems[k]
          BY <1>2, <3>2, <4>1, <4>4, RemoveIs
        <5> QED
          BY <4>1, <4>2, <4>3, <4>4, <5>1 DEF Passed
      <4>5. CASE ~SameName(r_devs.elems[i], unregistered)
        <5>1. r_devs.elems[i] \in Left
          BY <1>2, <3>2, <4>2, <4>5 DEF ListOK, Without
        <5>2. \A k \in 0 .. i' - 1 : k \in 0 .. i - 1 \/ k = i
          BY <1>2, <4>1, <4>5
        <5>3. \A k \in 0 .. i' - 1 : r_devs'.elems[k] \in Left'
          BY <4>1, <4>2, <4>3, <4>5, <5>1, <5>2
        <5> QED
          BY <5>3 DEF Passed
      <4> QED
        BY <4>4, <4>5
    <3> QED
      BY <1>2, <3>1, <3>2
  <2> QED
    BY <2>1, <2>2
<1>6. ASSUME DisableAll
      PROVE  Passed' /\ GivenFirst'
  BY <1>1, <1>6 DEF DisableAll, Option, Passed, GivenFirst
<1>7. ASSUME r_free_cfg
      PROVE  Passed' /\ GivenFirst'
  BY <1>7, FirstListOK DEF r_free_cfg, Passed, GivenFirst
<1>8. ASSUME \/ StartSession \/ PackageDone \/ Package
             \/ \E modulation \in {"OOK", "FSK"} : StartPackage(modulation)
      PROVE  Passed' /\ GivenFirst'
  <2>1. phase' \in {"ready", "run", "over"}
    BY <1>8 DEF StartSession, PackageDone, Package, VisitDevice, NextPriority, StartPackage
  <2> QED
    BY <2>1 DEF Passed, GivenFirst
<1>9. ASSUME UNCHANGED vars
      PROVE  Passed' /\ GivenFirst'
  <2>1. UNCHANGED <<r_devs, no_default_devices, phase, i, unregistered, options>>
    BY <1>9 DEF vars, registry
  <2>2. Left' = Left
    BY <2>1 DEF Left, SameName
  <2> QED
    BY <2>1, <2>2 DEF SetInv, Passed, GivenFirst
<1>10. Passed' /\ GivenFirst'
  BY <1>3, <1>4, <1>5, <1>6, <1>7, <1>8, <1>9 DEF Next
<1> QED
  BY <1>1, <1>10 DEF SetInv

\* The options enable and disable what they say, and no option the default devices,
\* for any table of protocols and any number of options and sessions.
THEOREM DemodsImplementsDeviceSet == Spec => ImplementsDeviceSet
<1>1. Init => Abstract!Init
  <2> SUFFICES ASSUME Init
               PROVE  Abstract!Init
    OBVIOUS
  <2>1. ListOK(r_devs) /\ r_devs.len = 0 /\ phase = "options" /\ options = 0
    BY FirstListOK DEF Init
  <2>2. Devs(r_devs) = <<>>
    BY <2>1 DEF Devs
  <2>3. Only(Registry, Left) = <<>>
    BY <2>1, <2>2, ListedNow
  <2> QED
    BY <2>1, <2>3 DEF Abstract!Init
<1>2. SetInv /\ [Next]_vars => [Abstract!Next]_<<Only(Registry, Left), options>>
  <2> SUFFICES ASSUME SetInv, [Next]_vars
               PROVE  Abstract!Next \/ UNCHANGED <<Only(Registry, Left), options>>
    OBVIOUS
  <2>0. ListOK(r_devs)
    BY DEF SetInv, IInv
  <2>1. ASSUME NEW p \in Protocols, register_protocol(p)
        PROVE  Abstract!Next
    BY <2>1, EnableStep DEF Abstract!Next
  <2>2. ASSUME NEW p \in Protocols, StartUnregister(p)
        PROVE  Abstract!Next
    BY <2>2, DisableStep DEF Abstract!Next
  <2>3. CASE unregister_protocol
    BY <2>3, UnregisterStep
  <2>4. CASE DisableAll
    BY <2>4, DisableAllStep DEF Abstract!Next
  <2>5. CASE StartSession
    BY <2>5, DefaultStep DEF Abstract!Next
  <2>6. CASE r_free_cfg
    BY <2>6, EndStep DEF Abstract!Next
  <2>7. CASE \/ PackageDone \/ Package
             \/ \E modulation \in {"OOK", "FSK"} : StartPackage(modulation)
    <3>1. /\ r_devs' = r_devs /\ options' = options
          /\ phase # "unregister" /\ phase' # "unregister"
      BY <2>7
      DEF PackageDone, Package, VisitDevice, NextPriority, StartPackage, registry
    <3> QED
      BY <2>0, <3>1, Unlisted
  <2>8. CASE UNCHANGED vars
    <3>1. UNCHANGED <<r_devs, phase, unregistered, options>>
      BY <2>8 DEF vars, registry
    <3>2. Left' = Left /\ Registry' = Registry
      BY <3>1 DEF Left, SameName, Registry
    <3>3. Only(Registry, Left)' = Only(Registry, Left)
      BY <3>2 DEF Only, OnlyUpTo
    <3> QED
      BY <3>1, <3>3
  <2> QED
    BY <2>1, <2>2, <2>3, <2>4, <2>5, <2>6, <2>7, <2>8 DEF Next
<1> QED
  BY SetInit, SetStep, <1>1, <1>2, PTL DEF Spec, ImplementsDeviceSet, Abstract!Spec

-----------------------------------------------------------------------------
(* The halves of a Security+ message.                                       *)

BurstSet == [half : 1 .. 2, press : Nat \ {0}, at : Nat]

TimeOf(t) == [tv_sec |-> t \div USEC, tv_usec |-> t % USEC]

\* Bursts are in the order of their times, and two of different presses are a pause
\* apart, however many others are between them.
BurstsOrdered ==
  \A j \in 1 .. Sent :
    /\ bursts[j].at <= clock
    /\ \A k \in 1 .. Sent : j < k =>
         /\ bursts[j].at <= bursts[k].at
         /\ bursts[j].press = bursts[k].press \/ bursts[j].at + PressPause <= bursts[k].at

\* A kept half has the time of its burst and is in no message.
CacheUnused ==
  HasCache =>
    /\ cached_result \in 1 .. Sent
    /\ cached_tv = TimeOf(bursts[cached_result].at)
    /\ \A m \in messages : cached_result \notin m

\* A message is made of two halves that are not far apart.
MessagesFresh ==
  \A m \in messages : \E b \in 1 .. Sent, c \in 1 .. Sent :
    /\ m = {b, c} /\ b < c
    /\ bursts[b].half # bursts[c].half
    /\ bursts[c].at - bursts[b].at < CACHE_MAX_AGE

HalvesInv == SecPlusTyped /\ BurstsOrdered /\ CacheUnused /\ MessagesFresh /\ UsedOnce

-----------------------------------------------------------------------------
(* Seconds and microseconds.                                                *)

\* A time is its seconds and microseconds.
LEMMA TimeSplit ==
  ASSUME NEW t \in Nat
  PROVE  /\ t \div USEC \in Nat /\ t % USEC \in 0 .. USEC - 1
         /\ t = USEC * (t \div USEC) + (t % USEC)
BY SecPlusAssumption

\* Within one second of the clock the difference of the microseconds is the age.
LEMMA FreshIsRecent ==
  ASSUME NEW t \in Nat, NEW s \in Nat, s <= t,
         Fresh(timeval_subtract(TimeOf(t), TimeOf(s)))
  PROVE  t - s < CACHE_MAX_AGE
<1>1. t \div USEC - s \div USEC = 0 /\ (t % USEC) - (s % USEC) < CACHE_MAX_AGE
  BY DEF Fresh, timeval_subtract, TimeOf
<1>2. /\ t = USEC * (t \div USEC) + (t % USEC)
      /\ s = USEC * (s \div USEC) + (s % USEC)
      /\ t \div USEC \in Nat /\ s \div USEC \in Nat /\ t % USEC \in Nat /\ s % USEC \in Nat
  BY TimeSplit, SecPlusAssumption
<1>3. t \div USEC = s \div USEC
  BY <1>1, <1>2
<1> QED
  BY <1>1, <1>2, <1>3, SecPlusAssumption

-----------------------------------------------------------------------------
(* What one or two new bursts change.                                       *)

\* The bursts so far stay, those that are sent now have one press, the one before or
\* one that starts after the pause.
Extended ==
  /\ bursts' \in Seq(BurstSet) /\ Len(bursts') >= Sent
  /\ \A k \in 1 .. Sent : bursts'[k] = bursts[k]
  /\ \A k \in Sent + 1 .. Len(bursts') :
       /\ bursts'[k].at = clock
       /\ \A q \in Sent + 1 .. Len(bursts') : bursts'[k].press = bursts'[q].press
       /\ Sent > 0 => \/ bursts'[k].press = bursts[Sent].press
                      \/ bursts[Sent].at + PressPause <= clock
  /\ UNCHANGED clock

LEMMA TypesNow ==
  ASSUME SecPlusTyped
  PROVE  /\ clock \in Nat /\ bursts \in Seq(BurstSet) /\ Sent \in Nat
         /\ \A k \in 1 .. Sent : bursts[k] \in BurstSet
         /\ cached_result \in 0 .. Sent
  <1>1. /\ clock \in Nat /\ bursts \in Seq(BurstSet) /\ cached_result \in 0 .. Sent
  BY DEF SecPlusTyped, BurstSet
<1> QED
  BY <1>1 DEF Sent

LEMMA NextBurstsType ==
  ASSUME SecPlusTyped, NEW burst \in NextBursts
  PROVE  /\ burst \in BurstSet /\ burst.at = clock
         /\ Sent > 0 => \/ burst.press = bursts[Sent].press
                        \/ bursts[Sent].at + PressPause <= clock
<1>1. CASE Sent = 0
  BY <1>1, TypesNow DEF NextBursts, NextPress, Burst, BurstSet
<1>2. CASE Sent > 0
  <2>1. bursts[Sent] \in BurstSet
    BY <1>2, TypesNow
  <2>2. CASE burst = NextOfPress
    BY <1>2, <2>1, <2>2, TypesNow DEF NextOfPress, Burst, BurstSet
  <2>3. CASE burst \in NextPress
    BY <1>2, <2>1, <2>3, TypesNow, SecPlusAssumption DEF NextPress, Burst, BurstSet
  <2> QED
    BY <1>2, <2>2, <2>3 DEF NextBursts
<1> QED
  BY <1>1, <1>2, TypesNow

LEMMA ExtendedByOne ==
  ASSUME SecPlusTyped, UNCHANGED clock,
         NEW burst \in NextBursts, bursts' = Append(bursts, burst)
  PROVE  Extended /\ Len(bursts') = Sent + 1
<1>1. burst \in BurstSet
  BY NextBurstsType
<1>2. /\ bursts' \in Seq(BurstSet) /\ Len(bursts') = Sent + 1
      /\ \A k \in 1 .. Sent : bursts'[k] = bursts[k]
      /\ bursts'[Sent + 1] = burst
  BY <1>1, TypesNow DEF Sent
<1> QED
  BY <1>2, NextBurstsType, TypesNow DEF Extended

LEMMA AppendTwo ==
  ASSUME NEW S, NEW s \in Seq(S), NEW a \in S, NEW b \in S
  PROVE  /\ s \o <<a, b>> \in Seq(S) /\ Len(s \o <<a, b>>) = Len(s) + 2
         /\ \A k \in 1 .. Len(s) : (s \o <<a, b>>)[k] = s[k]
         /\ (s \o <<a, b>>)[Len(s) + 1] = a /\ (s \o <<a, b>>)[Len(s) + 2] = b
<1> DEFINE two == <<a, b>>
<1>1. two \in Seq(S) /\ Len(two) = 2 /\ two[1] = a /\ two[2] = b
  OBVIOUS
<1> HIDE DEF two
<1>2. Len(s) \in Nat /\ Len(s) + 1 <= Len(s) + 2
  OBVIOUS
<1>3. /\ s \o two \in Seq(S) /\ Len(s \o two) = Len(s) + Len(two)
      /\ \A k \in 1 .. Len(s) + Len(two) :
           (s \o two)[k] = IF k <= Len(s) THEN s[k] ELSE two[k - Len(s)]
  BY <1>1, ConcatProperties
<1> QED
  BY <1>1, <1>2, <1>3 DEF two

LEMMA ExtendedByTwo ==
  ASSUME SecPlusTyped, UNCHANGED clock,
         NEW burst \in NextBursts,
         bursts' = bursts \o <<burst, [burst EXCEPT !.half = 3 - @]>>
  PROVE  Extended /\ Len(bursts') = Sent + 2
<1> DEFINE other == [burst EXCEPT !.half = 3 - @]
<1>1. /\ burst \in BurstSet /\ other \in BurstSet
      /\ other.at = burst.at /\ other.press = burst.press
  BY NextBurstsType DEF BurstSet
<1> HIDE DEF other
<1>2. bursts' = bursts \o <<burst, other>>
  BY DEF other
<1>5. /\ bursts' \in Seq(BurstSet) /\ Len(bursts') = Sent + 2
      /\ \A k \in 1 .. Sent : bursts'[k] = bursts[k]
      /\ bursts'[Sent + 1] = burst /\ bursts'[Sent + 2] = other
  <2> DEFINE t == bursts \o <<burst, other>>
  <2>1. bursts \in Seq(BurstSet)
    BY TypesNow
  <2>2. /\ t \in Seq(BurstSet) /\ Len(t) = Len(bursts) + 2
        /\ \A k \in 1 .. Len(bursts) : t[k] = bursts[k]
        /\ t[Len(bursts) + 1] = burst /\ t[Len(bursts) + 2] = other
    BY <1>1, <2>1, AppendTwo
  <2> HIDE DEF t
  <2>3. bursts' = t
    BY <1>2 DEF t
  <2> QED
    BY <2>2, <2>3 DEF Sent
<1>6. Sent \in Nat
  BY TypesNow
<1>7. ASSUME NEW k \in Sent + 1 .. Len(bursts')
      PROVE  bursts'[k].at = clock /\ bursts'[k].press = burst.press
  <2>1. bursts'[k] = burst \/ bursts'[k] = other
    <3>1. k = Sent + 1 \/ k = Sent + 2
      BY <1>5, <1>7, <1>6
    <3> QED
      BY <1>5, <3>1
  <2> QED
    BY <1>1, <2>1, NextBurstsType
<1> QED
  <2>1. /\ bursts' \in Seq(BurstSet) /\ Len(bursts') >= Sent
        /\ \A k \in 1 .. Sent : bursts'[k] = bursts[k]
    BY <1>5, <1>6
  <2>2. \A k \in Sent + 1 .. Len(bursts') :
          /\ bursts'[k].at = clock
          /\ \A q \in Sent + 1 .. Len(bursts') : bursts'[k].press = bursts'[q].press
          /\ Sent > 0 => \/ bursts'[k].press = bursts[Sent].press
                         \/ bursts[Sent].at + PressPause <= clock
    BY <1>7, NextBurstsType
  <2> QED
    BY <1>5, <2>1, <2>2 DEF Extended

LEMMA ExtendedOrdered ==
  ASSUME SecPlusTyped, BurstsOrdered, Extended
  PROVE  BurstsOrdered'
<1>1. clock' = clock /\ clock \in Nat /\ Sent \in Nat /\ Sent' = Len(bursts') /\ Sent' \in Nat
  BY TypesNow DEF Extended, Sent
<1>2. \A k \in 1 .. Sent' : bursts'[k] \in BurstSet
  BY <1>1 DEF Extended
<1>3. \A j \in 1 .. Sent : bursts'[j] = bursts[j] /\ bursts[j].at <= clock
  BY DEF Extended, BurstsOrdered
<1>4. ASSUME NEW j \in 1 .. Sent', NEW k \in 1 .. Sent', j < k
      PROVE  /\ bursts'[j].at <= bursts'[k].at
             /\ \/ bursts'[j].press = bursts'[k].press
                \/ bursts'[j].at + PressPause <= bursts'[k].at
  <2>1. CASE k <= Sent
    BY <1>1, <1>3, <1>4, <2>1 DEF BurstsOrdered
  <2>2. CASE j > Sent
    BY <1>1, <1>2, <1>4, <2>2 DEF Extended, BurstSet
  <2>3. CASE j <= Sent /\ k > Sent
    <3>1. bursts'[k].at = clock /\ bursts'[j] = bursts[j] /\ bursts[j].at <= clock
      BY <1>1, <1>3, <2>3 DEF Extended
    <3>2. \/ bursts'[k].press = bursts[Sent].press
          \/ bursts[Sent].at + PressPause <= clock
      BY <1>1, <2>3 DEF Extended
    <3>3. \/ j = Sent
          \/ /\ bursts[j].at <= bursts[Sent].at
             /\ \/ bursts[j].press = bursts[Sent].press
                \/ bursts[j].at + PressPause <= bursts[Sent].at
      BY <1>1, <2>3 DEF BurstsOrdered
    <3>4. bursts[Sent].at \in Nat /\ bursts[j].at \in Nat /\ bursts[Sent].at <= clock
      BY <1>1, <2>3, TypesNow DEF BurstSet, BurstsOrdered
    <3> QED
      BY <1>1, <3>1, <3>2, <3>3, <3>4, SecPlusAssumption
  <2> QED
    BY <1>1, <2>1, <2>2, <2>3
<1>5. ASSUME NEW j \in 1 .. Sent'
      PROVE  bursts'[j].at <= clock'
  BY <1>1, <1>3 DEF Extended
<1> QED
  BY <1>1, <1>4, <1>5 DEF BurstsOrdered

-----------------------------------------------------------------------------
(* The callback.                                                            *)

\* Of the row with the new bursts the callback takes one, or none.
HeardRow(row) ==
  /\ row \in {<<>>} \cup {<<b>> : b \in Sent + 1 .. Len(bursts')}
              \cup {<<b, b + 1>> : b \in Sent + 1 .. Len(bursts')}
  /\ secplus_v1_callback(row)

\* What the callback does with burst b.
DecodedHalf(b) ==
  /\ heard' = Append(heard, b)
  /\ messages' = IF Joins(b) THEN messages \cup {{cached_result, b}} ELSE messages
  /\ Cache(b)

LEMMA HeardDecodes ==
  ASSUME NEW row, HeardRow(row)
  PROVE  \/ UNCHANGED <<cached_result, cached_tv, heard, messages>>
         \/ \E b \in Sent + 1 .. Len(bursts') : DecodedHalf(b)
<1>1. CASE row = <<>>
  BY <1>1 DEF HeardRow, secplus_v1_callback
<1>2. ASSUME NEW b \in Sent + 1 .. Len(bursts'), row = <<b>> \/ row = <<b, b + 1>>
      PROVE  DecodedHalf(b)
  <2>1. row # <<>> /\ Head(row) = b
    BY <1>2
  <2>2. secplus_v1_callback(row)
    BY DEF HeardRow
  <2> QED
    BY <2>1, <2>2 DEF secplus_v1_callback, DecodedHalf
<1> QED
  BY <1>1, <1>2 DEF HeardRow

\* The two halves of a message are in the order of their bursts and not far apart.
LEMMA JoinsFresh ==
  ASSUME HalvesInv, Extended, NEW b \in Sent + 1 .. Len(bursts'), Joins(b)
  PROVE  /\ cached_result \in 1 .. Sent /\ cached_result < b
         /\ bursts'[cached_result].half # bursts'[b].half
         /\ bursts'[b].at - bursts'[cached_result].at < CACHE_MAX_AGE
<1>1. /\ cached_result \in 1 .. Sent /\ cached_tv = TimeOf(bursts[cached_result].at)
      /\ Sent \in Nat /\ clock \in Nat
  BY TypesNow DEF HalvesInv, CacheUnused, Joins
<1>2. bursts[cached_result].at \in Nat /\ bursts[cached_result].at <= clock
  BY <1>1, TypesNow DEF HalvesInv, BurstsOrdered, BurstSet
<1>3. Fresh(timeval_subtract(TimeOf(clock), TimeOf(bursts[cached_result].at)))
  BY <1>1 DEF Joins, gettimeofday, TimeOf
<1>4. clock - bursts[cached_result].at < CACHE_MAX_AGE
  BY <1>1, <1>2, <1>3, FreshIsRecent
<1> QED
  BY <1>1, <1>4 DEF Joins, Half, Extended

LEMMA DecodedKeeps ==
  ASSUME HalvesInv, Extended, NEW b \in Sent + 1 .. Len(bursts'), DecodedHalf(b)
  PROVE  SecPlusTyped' /\ CacheUnused' /\ MessagesFresh' /\ UsedOnce'
<1>1. /\ Sent \in Nat /\ Sent' = Len(bursts') /\ Sent' \in Nat /\ Sent <= Sent'
      /\ clock' = clock /\ clock \in Nat /\ b \in 1 .. Sent' /\ b \notin 1 .. Sent
      /\ \A k \in 1 .. Sent : bursts'[k] = bursts[k]
  BY TypesNow DEF HalvesInv, Extended, Sent
<1>2. /\ messages \subseteq SUBSET (1 .. Sent) /\ heard \in Seq(1 .. Sent)
      /\ cached_tv \in [tv_sec : Nat, tv_usec : 0 .. USEC - 1]
  BY DEF HalvesInv, SecPlusTyped
<1>3. bursts'[b].at = clock
  BY DEF Extended
<1>4. gettimeofday = TimeOf(clock)
      /\ gettimeofday \in [tv_sec : Nat, tv_usec : 0 .. USEC - 1]
  BY <1>1, TimeSplit DEF gettimeofday, TimeOf
<1>5. Joins(b) => cached_result \in 1 .. Sent /\ HasCache
  BY JoinsFresh DEF Joins
<1>6. \A m \in messages' : m \in messages \/ (Joins(b) /\ m = {cached_result, b})
  BY DEF DecodedHalf
<1>7. SecPlusTyped'
  <2>1. heard' \in Seq(1 .. Sent')
    <3>1. heard \in Seq(1 .. Sent')
      BY <1>1, <1>2
    <3> QED
      BY <1>1, <3>1 DEF DecodedHalf
  <2>2. messages' \in SUBSET SUBSET (1 .. Sent')
    <3>1. \A m \in messages' : m \subseteq 1 .. Sent'
      <4>1. \A m \in messages : m \subseteq 1 .. Sent
        BY <1>2
      <4>2. 1 .. Sent \subseteq 1 .. Sent'
        BY <1>1
      <4> QED
        BY <1>1, <1>5, <1>6, <4>1, <4>2
    <3> QED
      BY <3>1
  <2>3. /\ cached_result' \in 0 .. Sent' /\ (HasCache' => cached_result' # 0)
        /\ cached_tv' \in [tv_sec : Nat, tv_usec : 0 .. USEC - 1]
    <3>1. CASE Joins(b)
      BY <1>1, <3>1, SecPlusAssumption DEF DecodedHalf, Cache, NoTime, HasCache
    <3>2. CASE ~Joins(b)
      BY <1>1, <1>4, <3>2 DEF DecodedHalf, Cache
    <3> QED
      BY <3>1, <3>2
  <2> QED
    BY <1>1, <2>1, <2>2, <2>3 DEF SecPlusTyped, Extended, BurstSet
<1>8. CacheUnused'
  <2>1. CASE Joins(b)
    BY <2>1 DEF DecodedHalf, Cache, NoTime, HasCache, CacheUnused
  <2>2. CASE ~Joins(b)
    <3>1. cached_result' = b /\ cached_tv' = TimeOf(clock) /\ messages' = messages
      BY <1>4, <2>2 DEF DecodedHalf, Cache
    <3>2. \A m \in messages' : b \notin m
      BY <1>1, <1>2, <3>1
    <3> QED
      BY <1>1, <1>3, <3>1, <3>2 DEF CacheUnused, TimeOf
  <2> QED
    BY <2>1, <2>2
<1>9. MessagesFresh'
  <2> SUFFICES ASSUME NEW m \in messages'
               PROVE  \E c \in 1 .. Sent', d \in 1 .. Sent' :
                        /\ m = {c, d} /\ c < d
                        /\ bursts'[c].half # bursts'[d].half
                        /\ bursts'[d].at - bursts'[c].at < CACHE_MAX_AGE
    BY DEF MessagesFresh
  <2>1. CASE m \in messages
    <3>1. PICK c \in 1 .. Sent, d \in 1 .. Sent :
            /\ m = {c, d} /\ c < d
            /\ bursts[c].half # bursts[d].half
            /\ bursts[d].at - bursts[c].at < CACHE_MAX_AGE
      BY <2>1 DEF HalvesInv, MessagesFresh
    <3>2. c \in 1 .. Sent' /\ d \in 1 .. Sent' /\ bursts'[c] = bursts[c] /\ bursts'[d] = bursts[d]
      BY <1>1
    <3> QED
      BY <3>1, <3>2
  <2>2. CASE Joins(b) /\ m = {cached_result, b}
    BY <1>1, <2>2, JoinsFresh
  <2> QED
    BY <1>6, <2>1, <2>2
<1>10. UsedOnce'
  <2>1. Joins(b) => \A m \in messages : m \cap {cached_result, b} = {}
    BY <1>1, <1>2, <1>5 DEF HalvesInv, CacheUnused
  <2> QED
    BY <1>6, <2>1 DEF HalvesInv, UsedOnce
<1> QED
  BY <1>7, <1>8, <1>9, <1>10

LEMMA UnheardKeeps ==
  ASSUME HalvesInv, Extended, UNCHANGED <<cached_result, cached_tv, heard, messages>>
  PROVE  SecPlusTyped' /\ CacheUnused' /\ MessagesFresh' /\ UsedOnce'
<1>1. /\ Sent \in Nat /\ Sent' = Len(bursts') /\ Sent' \in Nat /\ Sent <= Sent'
      /\ clock' = clock /\ clock \in Nat
      /\ \A k \in 1 .. Sent : k \in 1 .. Sent' /\ bursts'[k] = bursts[k]
      /\ cached_result \in 0 .. Sent
  BY TypesNow DEF HalvesInv, Extended, Sent
<1>2. SecPlusTyped'
  <2>1. heard \in Seq(1 .. Sent') /\ messages \in SUBSET SUBSET (1 .. Sent')
    <3>1. 1 .. Sent \subseteq 1 .. Sent'
      BY <1>1
    <3>2. heard \in Seq(1 .. Sent) /\ messages \subseteq SUBSET (1 .. Sent)
      BY DEF HalvesInv, SecPlusTyped
    <3>3. heard \in Seq(1 .. Sent')
      BY <3>1, <3>2, SeqMonotonic
    <3>4. messages \in SUBSET SUBSET (1 .. Sent')
      <4>1. \A m \in messages : m \subseteq 1 .. Sent'
        BY <3>1, <3>2
      <4> QED
        BY <4>1
    <3> QED
      BY <3>3, <3>4
  <2> QED
    BY <1>1, <2>1 DEF HalvesInv, SecPlusTyped, Extended, BurstSet, HasCache
<1>3. CacheUnused'
  BY <1>1 DEF HalvesInv, CacheUnused, HasCache
<1>4. MessagesFresh'
  BY <1>1 DEF HalvesInv, MessagesFresh
<1>5. UsedOnce'
  BY DEF HalvesInv, UsedOnce
<1> QED
  BY <1>2, <1>3, <1>4, <1>5

LEMMA CallbackKeeps ==
  ASSUME HalvesInv, Extended, NEW row, HeardRow(row)
  PROVE  HalvesInv'
<1>1. BurstsOrdered'
  BY ExtendedOrdered DEF HalvesInv
<1>2. SecPlusTyped' /\ CacheUnused' /\ MessagesFresh' /\ UsedOnce'
  BY HeardDecodes, DecodedKeeps, UnheardKeeps
<1> QED
  BY <1>1, <1>2 DEF HalvesInv

-----------------------------------------------------------------------------
(* Every step.                                                              *)

LEMMA HalvesInit ==
  ASSUME SecPlusInit
  PROVE  HalvesInv
<1>1. Sent = 0 /\ 1 .. Sent = {}
  BY DEF SecPlusInit, Sent
<1>2. clock \in Nat
  BY SecPlusAssumption DEF SecPlusInit
<1>3. SecPlusTyped
  BY <1>1, <1>2, SecPlusAssumption DEF SecPlusInit, SecPlusTyped, HasCache, NoTime
<1> QED
  BY <1>1, <1>3
  DEF SecPlusInit, HalvesInv, BurstsOrdered, CacheUnused, HasCache, NoTime, MessagesFresh, UsedOnce

LEMMA HalvesStep ==
  ASSUME HalvesInv, [SecPlusNext]_SecPlusVars
  PROVE  HalvesInv'
<1>0. SecPlusTyped
  BY DEF HalvesInv
<1>1. CASE SendBurst
  <2>1. PICK burst \in NextBursts : bursts' = Append(bursts, burst)
    BY <1>1 DEF SendBurst
  <2>2. Extended /\ Len(bursts') = Sent + 1
    BY <1>0, <1>1, <2>1, ExtendedByOne DEF SendBurst
  <2>3. PICK row \in {<<>>, <<Sent + 1>>} : secplus_v1_callback(row)
    BY <1>1 DEF SendBurst
  <2>4. HeardRow(row)
    BY <1>0, <2>2, <2>3, TypesNow DEF HeardRow
  <2> QED
    BY <2>2, <2>4, CallbackKeeps
<1>2. CASE SendPair
  <2>1. PICK burst \in NextBursts :
          bursts' = bursts \o <<burst, [burst EXCEPT !.half = 3 - @]>>
    BY <1>2 DEF SendPair
  <2>2. Extended /\ Len(bursts') = Sent + 2
    BY <1>0, <1>2, <2>1, ExtendedByTwo DEF SendPair
  <2>3. PICK row \in {<<Sent + 1, Sent + 2>>, <<Sent + 2>>} : secplus_v1_callback(row)
    BY <1>2 DEF SendPair
  <2>4. HeardRow(row)
    <3>1. /\ Sent \in Nat /\ Sent + 1 \in Sent + 1 .. Len(bursts') /\ (Sent + 1) + 1 = Sent + 2
          /\ Sent + 2 \in Sent + 1 .. Len(bursts')
      BY <1>0, <2>2, TypesNow
    <3> QED
      BY <2>3, <3>1 DEF HeardRow
  <2> QED
    BY <2>2, <2>4, CallbackKeeps
<1>3. CASE Tick
  <2>1. /\ clock' = clock + 1 /\ clock \in Nat
        /\ UNCHANGED <<cached_result, cached_tv, bursts, heard, messages>>
        /\ Sent' = Sent
    BY <1>0, <1>3, TypesNow DEF Tick, Sent
  <2>2. SecPlusTyped'
    BY <1>0, <2>1 DEF SecPlusTyped, HasCache
  <2>3. BurstsOrdered'
    BY <1>0, <2>1, TypesNow DEF HalvesInv, BurstsOrdered, BurstSet
  <2> QED
    BY <2>1, <2>2, <2>3 DEF HalvesInv, CacheUnused, HasCache, MessagesFresh, UsedOnce
<1>4. CASE UNCHANGED SecPlusVars
  BY <1>4 DEF SecPlusVars, HalvesInv, SecPlusTyped, BurstsOrdered, CacheUnused, HasCache, MessagesFresh, UsedOnce, Sent
<1> QED
  BY <1>1, <1>2, <1>3, <1>4 DEF SecPlusNext

\* Halves that are not far apart are of one press, if the pause is longer.
LEMMA FreshSamePress ==
  ASSUME HalvesInv
  PROVE  SamePress
<1> SUFFICES ASSUME PressPause >= CACHE_MAX_AGE, NEW m \in messages
             PROVE  /\ {bursts[b].half : b \in m} = {1, 2}
                    /\ \A b \in m, c \in m : bursts[b].press = bursts[c].press
  BY DEF SamePress
<1>1. PICK b \in 1 .. Sent, c \in 1 .. Sent :
        /\ m = {b, c} /\ b < c
        /\ bursts[b].half # bursts[c].half
        /\ bursts[c].at - bursts[b].at < CACHE_MAX_AGE
  BY DEF HalvesInv, MessagesFresh
<1>2. bursts[b] \in BurstSet /\ bursts[c] \in BurstSet
  BY TypesNow DEF HalvesInv
<1>3. bursts[b].press = bursts[c].press
  BY <1>1, <1>2, SecPlusAssumption DEF HalvesInv, BurstsOrdered, BurstSet
<1>4. {bursts[b].half, bursts[c].half} = {1, 2}
  BY <1>1, <1>2 DEF BurstSet
<1> QED
  BY <1>1, <1>3, <1>4

\* The state of the decoder and of the transmitter has its type.
THEOREM SecPlusTypeOK == SecPlusSpec => []SecPlusTyped
<1>1. HalvesInv => SecPlusTyped
  BY DEF HalvesInv
<1> QED
  BY <1>1, HalvesInit, HalvesStep, PTL DEF SecPlusSpec

\* Whatever bursts are lost, a message is the two halves of one press
\* (secplus_v1.c:207-231).
THEOREM SecPlusSamePress == SecPlusSpec => []SamePress
  BY HalvesInit, HalvesStep, FreshSamePress, PTL DEF SecPlusSpec

\* No half is in two messages (secplus_v1.c:233-256).
THEOREM SecPlusUsedOnce == SecPlusSpec => []UsedOnce
<1>1. HalvesInv => UsedOnce
  BY DEF HalvesInv
<1> QED
  BY <1>1, HalvesInit, HalvesStep, PTL DEF SecPlusSpec
=============================================================================
