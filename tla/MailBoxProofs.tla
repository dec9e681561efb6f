------------------------------ MODULE MailBoxProofs ------------------------------
(***************************************************************************)
(* Proofs about MailBox, for any number of nodes, blocks and messages, any *)
(* number of crashes and i/o errors: as long as no two writes of the state *)
(* in a row are cut short, the lists on disk are consistent and Send and   *)
(* Recv are atomic.  Induction over lists is by the least counterexample.  *)
(***************************************************************************)
EXTENDS MailBox, FiniteSetTheorems, WellFoundedInduction, TLAPS

(* A nonempty set of natural numbers has a least element. *)
LEMMA LeastNumber ==
    ASSUME NEW T \in SUBSET Nat, T # {}
    PROVE  \E x \in T : \A y \in T : x <= y
<1>1. PICK x \in T : \A y \in T : ~ (<<y, x>> \in OpToRel(<, Nat))
    BY NatLessThanWellFounded, WFMin
<1>2. \A y \in T : ~ (y < x)
    BY <1>1 DEF OpToRel
<1> QED
    BY <1>2

(* The allocator hands out a free block, if there is one. *)
LEMMA MinIsFree ==
    ASSUME NEW S \in SUBSET Addr, S # {}
    PROVE  Min(S) \in S
<1>1. \E x \in S : \A y \in S : x <= y
    BY LeastNumber, MailBoxAssumption DEF Addr
<1> QED
    BY <1>1 DEF Min

Cell == Addr \cup {Nil}

(* Blocks that differ are at most as many as there are. *)
LEMMA Pigeonhole ==
    ASSUME NEW k \in Nat, NEW f \in [1..k -> Addr],
           \A i, j \in 1..k : f[i] = f[j] => i = j
    PROVE  k <= Blocks
<1>1. f \in Injection(1..k, 1..Blocks)
    BY DEF Injection, IsInjective, Addr
<1>2. IsFiniteSet(1..Blocks) /\ Cardinality(1..Blocks) = Blocks /\ Cardinality(1..k) = k
    BY FS_Interval, MailBoxAssumption
<1> QED
    BY <1>1, <1>2, FS_Injection

(* Two walks from the same block agree as far as both go. *)
LEMMA WalksAgree ==
    ASSUME NEW disk, NEW a, NEW tree, NEW k \in Seq(Cell), NEW l \in Seq(Cell),
           IsWalk(k, disk, a, tree), IsWalk(l, disk, a, tree),
           NEW i \in 1..Len(k), i <= Len(l)
    PROVE  k[i] = l[i]
<1> SUFFICES ASSUME k[i] # l[i] PROVE FALSE
    OBVIOUS
<1> DEFINE T == {j \in Nat : j \in 1..Len(k) /\ j <= Len(l) /\ k[j] # l[j]}
<1>1. PICK j \in T : \A h \in T : j <= h
    <2>1. i \in T
        OBVIOUS
    <2> HIDE DEF T
    <2>2. T \subseteq Nat
        BY DEF T
    <2> QED
        BY <2>1, <2>2, LeastNumber
<1>2. /\ k[1] = a /\ l[1] = a
      /\ \A h \in 1..(Len(k) - 1) : k[h + 1] = disk[k[h]].next
      /\ \A h \in 1..(Len(l) - 1) : l[h + 1] = disk[l[h]].next
    BY DEF IsWalk
<1>3. j # 1 /\ j - 1 \in 1..(Len(k) - 1) /\ j - 1 \in 1..(Len(l) - 1)
    BY <1>1, <1>2
<1>4. k[j - 1] = l[j - 1]
    <2>1. j - 1 \notin T
        BY <1>1
    <2> QED
        BY <2>1, <1>3
<1>5. k[(j - 1) + 1] = l[(j - 1) + 1]
    BY <1>2, <1>3, <1>4
<1> QED
    BY <1>1, <1>5

(* Neither of them ends before the other. *)
LEMMA WalksEndTogether ==
    ASSUME NEW disk, NEW a, NEW tree, NEW k \in Seq(Cell), NEW l \in Seq(Cell),
           IsWalk(k, disk, a, tree), IsWalk(l, disk, a, tree)
    PROVE  ~(Len(k) < Len(l))
<1> SUFFICES ASSUME Len(k) < Len(l) PROVE FALSE
    OBVIOUS
<1> DEFINE n == Len(k)
<1>1. n \in 1..Len(k) /\ n \in 1..(Len(l) - 1)
    BY DEF IsWalk
<1>2. \A i \in 1..n : k[i] = l[i]
    BY WalksAgree, <1>1
<1>3. k[n] \in tree
    BY <1>1, <1>2 DEF IsWalk
<1>4. PICK i \in 1..(n - 1) : k[i] = k[n]
    BY <1>3 DEF IsWalk, Last
<1>5. i \in 1..(Len(l) - 1) /\ l[i] = l[n]
    BY <1>1, <1>2, <1>4
<1> QED
    BY <1>1, <1>4, <1>5 DEF IsWalk

(* A walk is unique, and it is what Walk yields: its blocks differ, so it  *)
(* is no longer than the file.                                             *)
LEMMA WalkIsUnique ==
    ASSUME NEW disk, NEW a, NEW tree \in SUBSET Addr, NEW list \in Seq(Cell),
           IsWalk(list, disk, a, tree)
    PROVE  Walk(disk, a, tree) = list
<1>1. list \in BoundedSeq(Cell, Blocks + 1)
    <2> DEFINE k == Len(list) - 1
    <2>1. k \in Nat
        BY DEF IsWalk
    <2>2. [i \in 1..k |-> list[i]] \in [1..k -> Addr]
        BY <2>1 DEF IsWalk
    <2>3. k <= Blocks
        BY <2>1, <2>2, Pigeonhole DEF IsWalk
    <2>4. list \in [1..Len(list) -> Cell] /\ Len(list) \in 0..(Blocks + 1)
        BY <2>1, <2>3, MailBoxAssumption
    <2> QED
        BY <2>4 DEF BoundedSeq, SeqOf
<1> DEFINE w == Walk(disk, a, tree)
<1>2. w \in BoundedSeq(Cell, Blocks + 1) /\ IsWalk(w, disk, a, tree)
    BY <1>1 DEF Walk, Cell
<1>3. w \in Seq(Cell)
    BY <1>2, MailBoxAssumption DEF BoundedSeq, SeqOf
<1>4. Len(w) = Len(list)
    BY <1>2, <1>3, WalksEndTogether
<1>5. \A i \in 1..Len(w) : w[i] = list[i]
    BY <1>2, <1>3, <1>4, WalksAgree
<1> QED
    BY <1>3, <1>4, <1>5

-----------------------------------------------------------------------------
(* A list as it should be: from a to the null pointer. *)
GoodList(list, disk, a, tree) ==
    list \in Seq(Cell) /\ IsWalk(list, disk, a, tree) /\ Intact(list)

(* What the STATE segments may hold. *)
Value == [heads : [Node -> Cell], tree : SUBSET Addr]

(* lists are those of s: good, disjoint, and all there is. *)
ListsOf(lists, disk, s) ==
    /\ \A n \in Node : GoodList(lists[n], disk, s.heads[n], s.tree)
    /\ \A m, n \in Node : m # n =>
          \A i \in 1..(Len(lists[m]) - 1), j \in 1..(Len(lists[n]) - 1) : lists[m][i] # lists[n][j]
    /\ \A a \in s.tree : \E n \in Node : \E i \in 1..(Len(lists[n]) - 1) : lists[n][i] = a

Lists(disk, s) == [n \in Node |-> Walk(disk, s.heads[n], s.tree)]

View(disk, s) == ListsOf(Lists(disk, s), disk, s)

(* It is enough to name the lists. *)
LEMMA ViewByLists ==
    ASSUME NEW disk, NEW s \in Value, NEW lists, ListsOf(lists, disk, s)
    PROVE  View(disk, s) /\ \A n \in Node : Walk(disk, s.heads[n], s.tree) = lists[n]
<1>1. \A n \in Node : Walk(disk, s.heads[n], s.tree) = lists[n]
    BY WalkIsUnique DEF ListsOf, GoodList, Value
<1>2. \A n \in Node : Lists(disk, s)[n] = lists[n]
    BY <1>1 DEF Lists
<1> HIDE DEF Lists
<1> QED
    BY <1>1, <1>2 DEF View, ListsOf

(* The blocks of a list are those before its null pointer. *)
LEMMA ChainBlocks ==
    ASSUME NEW list \in Seq(Cell), list # <<>>
    PROVE  Chain(list) = {list[i] : i \in 1..(Len(list) - 1)}
<1>1. Front(list) = [i \in 1..(Len(list) - 1) |-> list[i]]
    BY DEF Front
<1> QED
    BY <1>1 DEF Chain, ToSet

(* The view is that of the property. *)
LEMMA ViewIsConsistent ==
    ASSUME NEW s \in Value, View(data, s)
    PROVE  /\ \A n \in Node : Intact(List(s, n))
           /\ \A m, n \in Node : m # n => Chain(List(s, m)) \cap Chain(List(s, n)) = {}
           /\ s.tree = UNION {Chain(List(s, n)) : n \in Node}
<1> DEFINE list(n) == List(s, n)
<1>1. /\ \A n \in Node : GoodList(list(n), data, s.heads[n], s.tree)
      /\ \A m, n \in Node : m # n =>
            \A i \in 1..(Len(list(m)) - 1), j \in 1..(Len(list(n)) - 1) : list(m)[i] # list(n)[j]
      /\ \A a \in s.tree : \E n \in Node : \E i \in 1..(Len(list(n)) - 1) : list(n)[i] = a
    BY DEF View, ListsOf, Lists, List
<1> HIDE DEF list
<1>2. ASSUME NEW n \in Node
      PROVE  Chain(list(n)) = {list(n)[i] : i \in 1..(Len(list(n)) - 1)}
    BY <1>1, ChainBlocks DEF GoodList, IsWalk
<1>3. ASSUME NEW n \in Node, NEW a \in Chain(list(n)) PROVE a \in s.tree
    <2>1. PICK i \in 1..(Len(list(n)) - 1) : a = list(n)[i]
        BY <1>2, <1>3
    <2> QED
        BY <1>1, <2>1 DEF GoodList, IsWalk
<1>4. ASSUME NEW a \in s.tree PROVE \E n \in Node : a \in Chain(list(n))
    <2>1. PICK n \in Node : \E i \in 1..(Len(list(n)) - 1) : list(n)[i] = a
        BY <1>1
    <2> QED
        BY <1>2, <2>1
<1>5. ASSUME NEW m \in Node, NEW n \in Node, m # n, NEW a \in Chain(list(m)), a \in Chain(list(n))
      PROVE  FALSE
    <2>1. PICK i \in 1..(Len(list(m)) - 1) : a = list(m)[i]
        BY <1>2, <1>5
    <2>2. PICK j \in 1..(Len(list(n)) - 1) : a = list(n)[j]
        BY <1>2, <1>5
    <2> QED
        BY <1>1, <1>5, <2>1, <2>2
<1>6. \A n \in Node : Intact(list(n))
    BY <1>1 DEF GoodList
<1>7. s.tree = UNION {Chain(list(n)) : n \in Node}
    BY <1>3, <1>4
<1>8. \A m, n \in Node : m # n => Chain(list(m)) \cap Chain(list(n)) = {}
    BY <1>5
<1> QED
    BY <1>6, <1>7, <1>8 DEF list

(* The walks of a view. *)
LEMMA ViewFacts ==
    ASSUME NEW disk, NEW s \in Value, View(disk, s), NEW n \in Node
    PROVE  /\ Walk(disk, s.heads[n], s.tree) \in Seq(Cell)
           /\ Walk(disk, s.heads[n], s.tree) # <<>>
           /\ \A i \in 1..(Len(Walk(disk, s.heads[n], s.tree)) - 1) :
                  Walk(disk, s.heads[n], s.tree)[i] \in s.tree
    BY DEF View, ListsOf, Lists, GoodList, IsWalk

(* A block that the state does not refer to may be written. *)
LEMMA ViewFrame ==
    ASSUME NEW disk, NEW s \in Value, View(disk, s),
           NEW new, \A a \in s.tree : new[a] = disk[a]
    PROVE  View(new, s) /\ \A n \in Node : Walk(new, s.heads[n], s.tree) = Walk(disk, s.heads[n], s.tree)
<1> DEFINE lists == Lists(disk, s)
<1>1. \A n \in Node : lists[n] = Walk(disk, s.heads[n], s.tree)
    BY DEF Lists
<1>2. ListsOf(lists, disk, s)
    BY DEF View
<1> HIDE DEF lists
<1>3. ASSUME NEW n \in Node PROVE GoodList(lists[n], new, s.heads[n], s.tree)
    <2>1. GoodList(lists[n], disk, s.heads[n], s.tree)
        BY <1>2 DEF ListsOf
    <2> QED
        BY <2>1 DEF GoodList, IsWalk
<1>4. ListsOf(lists, new, s)
    BY <1>2, <1>3 DEF ListsOf
<1> QED
    BY <1>1, <1>4, ViewByLists

(* The state after a Send and after a Recv. *)
Pushed(s, to, addr) == [heads |-> [s.heads EXCEPT ![to] = addr], tree |-> s.tree \cup {addr}]
Popped(s, n, list) == [heads |-> [s.heads EXCEPT ![n] = Nil], tree |-> s.tree \ Freed(list)]

(* A free block becomes the head of a list. *)
LEMMA ViewPush ==
    ASSUME NEW disk, NEW s \in Value, View(disk, s), NEW to \in Node, NEW addr \in Addr,
           addr \notin s.tree, disk[addr].next = s.heads[to]
    PROVE  LET t == Pushed(s, to, addr)
               w(n) == Walk(disk, s.heads[n], s.tree)
           IN  /\ t \in Value /\ View(disk, t)
               /\ \A n \in Node : Walk(disk, t.heads[n], t.tree) = IF n = to THEN <<addr>> \o w(n) ELSE w(n)
<1> DEFINE old == Lists(disk, s)
           new == [n \in Node |-> IF n = to THEN <<addr>> \o old[n] ELSE old[n]]
           t == Pushed(s, to, addr)
<1>1. \A n \in Node : old[n] = Walk(disk, s.heads[n], s.tree)
    BY DEF Lists
<1>2. ListsOf(old, disk, s)
    BY DEF View
<1>3. /\ t \in Value /\ t.tree = s.tree \cup {addr}
      /\ \A n \in Node : t.heads[n] = IF n = to THEN addr ELSE s.heads[n]
    BY DEF Pushed, Value, Cell
<1> HIDE DEF old, t
<1>a. addr # Nil /\ addr \in Cell
    BY MailBoxAssumption DEF Addr, Nil, Cell
<1>4. \A n \in Node : /\ old[n] \in Seq(Cell) /\ Len(old[n]) \in Nat \ {0} /\ old[n][1] = s.heads[n]
                      /\ old[n][Len(old[n])] = Nil
                      /\ \A i \in 1..(Len(old[n]) - 1) :
                            old[n][i] \in s.tree /\ old[n][i + 1] = disk[old[n][i]].next
                      /\ \A i, j \in 1..(Len(old[n]) - 1) : old[n][i] = old[n][j] => i = j
    BY <1>2 DEF ListsOf, GoodList, IsWalk, Intact, Last
<1>5. \A n \in Node \ {to} : new[n] = old[n]
    OBVIOUS
<1>6. /\ new[to] \in Seq(Cell) /\ Len(new[to]) = Len(old[to]) + 1 /\ new[to][1] = addr
      /\ \A i \in 1..Len(old[to]) : new[to][i + 1] = old[to][i]
    BY <1>4, <1>a
<1> HIDE DEF new
<1>b. Nil \notin t.tree
    BY <1>3 DEF Value, Addr, Nil
<1>7. ASSUME NEW n \in Node \ {to} PROVE GoodList(new[n], disk, t.heads[n], t.tree)
    BY <1>2, <1>3, <1>4, <1>5, <1>b DEF GoodList, IsWalk, Intact, Last, ListsOf
<1>8. GoodList(new[to], disk, t.heads[to], t.tree)
    <2> DEFINE l == new[to]
               k == Len(old[to])
    <2>1. k \in Nat \ {0} /\ Len(l) = k + 1 /\ l \in Seq(Cell) /\ l[1] = addr /\ l # <<>>
        BY <1>4, <1>6
    <2>2. l[k + 1] = Nil
        BY <1>4, <1>6, <2>1
    <2>3. ASSUME NEW i \in 2..k
          PROVE  l[i] \in s.tree /\ l[i + 1] = disk[l[i]].next /\ l[i] = old[to][i - 1]
        <3>1. i - 1 \in 1..(k - 1)
            BY <2>1
        <3>2. l[(i - 1) + 1] = old[to][i - 1] /\ l[i + 1] = old[to][i]
            BY <1>6, <2>1, <3>1
        <3>3. old[to][i - 1] \in s.tree /\ old[to][(i - 1) + 1] = disk[old[to][i - 1]].next
            BY <1>4, <3>1
        <3> QED
            BY <3>1, <3>2, <3>3
    <2>4. l[2] = disk[l[1]].next
        <3>1. l[1 + 1] = old[to][1]
            BY <1>6, <2>1
        <3> QED
            BY <1>4, <2>1, <3>1
    <2>5. \A i \in 1..k : l[i] \in t.tree /\ l[i + 1] = disk[l[i]].next
        BY <1>3, <2>1, <2>3, <2>4
    <2>6. ASSUME NEW i \in 1..k, NEW j \in 1..k, l[i] = l[j] PROVE i = j
        <3>1. CASE i = 1 \/ j = 1
            BY <2>1, <2>3, <2>6, <3>1
        <3>2. CASE i # 1 /\ j # 1
            <4>1. old[to][i - 1] = old[to][j - 1] /\ i - 1 \in 1..(k - 1) /\ j - 1 \in 1..(k - 1)
                BY <2>1, <2>3, <2>6, <3>2
            <4>2. i - 1 = j - 1
                BY <1>4, <4>1
            <4> QED
                BY <4>2
        <3> QED
            BY <3>1, <3>2
    <2> HIDE DEF l, k
    <2> QED
        BY <1>3, <1>b, <2>1, <2>2, <2>5, <2>6 DEF GoodList, IsWalk, Intact, Last, l
<1>9. ASSUME NEW m \in Node, NEW n \in Node, m # n,
             NEW i \in 1..(Len(new[m]) - 1), NEW j \in 1..(Len(new[n]) - 1)
      PROVE  new[m][i] # new[n][j]
    <2>1. \A p \in Node, q \in Node : p # q =>
             \A g \in 1..(Len(old[p]) - 1), h \in 1..(Len(old[q]) - 1) : old[p][g] # old[q][h]
        BY <1>2 DEF ListsOf
    <2>2. ASSUME NEW p \in Node \ {to}, NEW g \in 1..(Len(new[to]) - 1), NEW h \in 1..(Len(new[p]) - 1)
          PROVE  new[to][g] # new[p][h]
        <3>1. new[p][h] = old[p][h] /\ h \in 1..(Len(old[p]) - 1) /\ old[p][h] \in s.tree
            BY <1>4, <1>5
        <3>2. CASE g = 1
            BY <1>6, <3>1, <3>2
        <3>3. CASE g # 1
            <4>1. g - 1 \in 1..(Len(old[to]) - 1)
                BY <1>4, <1>6, <3>3
            <4>2. new[to][(g - 1) + 1] = old[to][g - 1]
                <5>1. g - 1 \in 1..Len(old[to])
                    BY <1>4, <4>1
                <5> QED
                    BY <1>6, <5>1
            <4> QED
                BY <2>1, <3>1, <4>1, <4>2
        <3> QED
            BY <3>2, <3>3
    <2> QED
        BY <1>5, <1>9, <2>1, <2>2
<1>10. ASSUME NEW a \in t.tree
       PROVE  \E n \in Node : \E i \in 1..(Len(new[n]) - 1) : new[n][i] = a
    <2>1. CASE a = addr
        BY <1>4, <1>6, <2>1
    <2>2. CASE a # addr
        <3>1. PICK n \in Node : \E i \in 1..(Len(old[n]) - 1) : old[n][i] = a
            BY <1>2, <1>3, <2>2 DEF ListsOf
        <3>2. PICK i \in 1..(Len(old[n]) - 1) : old[n][i] = a
            BY <3>1
        <3>3. CASE n # to
            BY <1>5, <3>2, <3>3
        <3>4. CASE n = to
            <4>1. i + 1 \in 1..(Len(new[to]) - 1) /\ new[to][i + 1] = a
                BY <1>4, <1>6, <3>2, <3>4
            <4> QED
                BY <4>1
        <3> QED
            BY <3>3, <3>4
    <2> QED
        BY <2>1, <2>2
<1>11. ListsOf(new, disk, t)
    BY <1>7, <1>8, <1>9, <1>10 DEF ListsOf
<1>c. t \in Value
    BY <1>3
<1>12. View(disk, t) /\ \A n \in Node : Walk(disk, t.heads[n], t.tree) = new[n]
    BY <1>c, <1>11, ViewByLists
<1> QED
    BY <1>1, <1>3, <1>12 DEF new, t

(* A list is emptied and its blocks are freed. *)
LEMMA ViewPop ==
    ASSUME NEW disk, NEW s \in Value, View(disk, s), NEW n \in Node
    PROVE  LET w(m) == Walk(disk, s.heads[m], s.tree)
               t == Popped(s, n, w(n))
           IN  /\ t \in Value /\ View(disk, t)
               /\ \A m \in Node : Walk(disk, t.heads[m], t.tree) = IF m = n THEN <<Nil>> ELSE w(m)
<1> DEFINE old == Lists(disk, s)
           new == [m \in Node |-> IF m = n THEN <<Nil>> ELSE old[m]]
           t == Popped(s, n, Walk(disk, s.heads[n], s.tree))
<1>1. \A m \in Node : old[m] = Walk(disk, s.heads[m], s.tree)
    BY DEF Lists
<1>2. ListsOf(old, disk, s)
    BY DEF View
<1>3. old[n] \in Seq(Cell) /\ old[n] # <<>>
    BY <1>2 DEF ListsOf, GoodList, IsWalk
<1>4. /\ t \in Value /\ t.tree = s.tree \ {old[n][i] : i \in 1..(Len(old[n]) - 1)}
      /\ \A m \in Node : t.heads[m] = IF m = n THEN Nil ELSE s.heads[m]
    <2>1. Freed(old[n]) = {old[n][i] : i \in 1..(Len(old[n]) - 1)}
        BY <1>3, ChainBlocks DEF Chain, Freed
    <2>2. t = [heads |-> [s.heads EXCEPT ![n] = Nil],
               tree |-> s.tree \ {old[n][i] : i \in 1..(Len(old[n]) - 1)}]
        BY <1>1, <2>1 DEF Popped
    <2> HIDE DEF old, t
    <2> QED
        BY <2>2 DEF Value, Cell
<1> HIDE DEF old, t
<1>b. Nil \notin t.tree /\ Nil \in Cell
    BY <1>4 DEF Value, Addr, Nil, Cell
<1>5. \A m \in Node \ {n} : new[m] = old[m]
    OBVIOUS
<1>6. new[n] = <<Nil>>
    OBVIOUS
<1> HIDE DEF new
<1>7. ASSUME NEW m \in Node \ {n} PROVE GoodList(new[m], disk, t.heads[m], t.tree)
    <2>1. GoodList(old[m], disk, s.heads[m], s.tree)
        BY <1>2 DEF ListsOf
    <2>2. \A i \in 1..(Len(old[m]) - 1) : old[m][i] \in t.tree
        BY <1>2, <1>4 DEF ListsOf, GoodList, IsWalk
    <2> QED
        BY <1>4, <1>5, <1>b, <2>1, <2>2 DEF GoodList, IsWalk, Intact, Last
<1>8. GoodList(new[n], disk, t.heads[n], t.tree)
    BY <1>4, <1>6, <1>b DEF GoodList, IsWalk, Intact, Last
<1>9. ASSUME NEW m \in Node, NEW p \in Node, m # p,
             NEW i \in 1..(Len(new[m]) - 1), NEW j \in 1..(Len(new[p]) - 1)
      PROVE  new[m][i] # new[p][j]
    <2>1. m # n /\ p # n
        <3>1. Len(<<Nil>>) = 1
            OBVIOUS
        <3>2. \A k : k \notin 1..(Len(<<Nil>>) - 1)
            BY <3>1
        <3> QED
            BY <1>6, <3>2, Zenon
    <2> QED
        BY <1>2, <1>5, <1>9, <2>1 DEF ListsOf
<1>10. ASSUME NEW a \in t.tree
       PROVE  \E m \in Node : \E i \in 1..(Len(new[m]) - 1) : new[m][i] = a
    <2>1. PICK m \in Node : \E i \in 1..(Len(old[m]) - 1) : old[m][i] = a
        BY <1>2, <1>4 DEF ListsOf
    <2>2. m # n
        BY <1>4, <2>1
    <2> QED
        BY <1>5, <2>1, <2>2
<1>11. ListsOf(new, disk, t)
    BY <1>7, <1>8, <1>9, <1>10 DEF ListsOf
<1>c. t \in Value
    BY <1>4
<1>12. View(disk, t) /\ \A m \in Node : Walk(disk, t.heads[m], t.tree) = new[m]
    BY <1>c, <1>11, ViewByLists
<1> QED
    BY <1>1, <1>4, <1>12 DEF new, t

-----------------------------------------------------------------------------
(* The segments, and what is proved about them. *)
Vote == INSTANCE StateSegmentsProofs WITH
    Part <- {"heads", "tree"},
    Val <- [Node -> Addr \cup {Nil}] \cup SUBSET Addr

ValuesOK == copies \in [1..3 -> Value] /\ buf \in Value /\ committed \in Value

(* Where the first two copies differ in a part that is yet to be written,  *)
(* they did so before the write, and the vote found the third.             *)
Undecided ==
    at = 1 /\ (\E p \in left : copies[1][p] # copies[2][p]) => copies[3] = committed

Segments == Vote!SegInv /\ ValuesOK /\ Undecided

(* A value is a function of its parts. *)
LEMMA ValueParts ==
    /\ Value \subseteq [{"heads", "tree"} -> [Node -> Addr \cup {Nil}] \cup SUBSET Addr]
    /\ \A v, w \in Value : v["heads"] = w["heads"] /\ v["tree"] = w["tree"] => v = w
    /\ \A v, w \in Value : [v EXCEPT !["heads"] = w["heads"]] \in Value
    /\ \A v, w \in Value : [v EXCEPT !["tree"] = w["tree"]] \in Value
    BY DEF Value, Cell

(* Between writes the vote finds the last one that took place. *)
LEMMA AtRest ==
    ASSUME Segments, at = 0
    PROVE  State = committed
    BY DEF Segments, Vote!SegInv, Vote!Transactional, Vote!ReadState, State, Seg!ReadState

(* The segments take every step of the proof about them. *)
LEMMA SegStep ==
    ASSUME MaxTorn <= 1, Vote!SegInv,
           \/ \E v \in Value : Seg!BeginWrite(v)
           \/ \E p \in {"heads", "tree"} : Seg!WritePart(p)
           \/ Seg!NextCopy \/ Seg!EndWrite \/ Seg!Interrupt \/ UNCHANGED seg
    PROVE  Vote!SegInv'
<1>0. MaxTorn \in Nat
    BY MailBoxAssumption
<1>1. CASE \E v \in Value : Seg!BeginWrite(v)
    <2>1. PICK v \in Value : Seg!BeginWrite(v)
        BY <1>1
    <2>2. v \in Vote!State
        BY ValueParts DEF Vote!State
    <2>3. Vote!BeginWrite(v)
        BY <2>1 DEF Seg!BeginWrite, Vote!BeginWrite
    <2> QED
        BY <1>0, <2>2, <2>3, Vote!NextSegInv DEF Vote!Next
<1>2. CASE \E p \in {"heads", "tree"} : Seg!WritePart(p)
    <2>1. PICK p \in {"heads", "tree"} : Seg!WritePart(p)
        BY <1>2
    <2>2. Vote!WritePart(p)
        BY <2>1 DEF Seg!WritePart, Vote!WritePart
    <2> QED
        BY <1>0, <2>2, Vote!NextSegInv DEF Vote!Next
<1>3. CASE Seg!NextCopy
    <2>1. Vote!NextCopy
        BY <1>3 DEF Seg!NextCopy, Vote!NextCopy
    <2> QED
        BY <1>0, <2>1, Vote!NextSegInv DEF Vote!Next
<1>4. CASE Seg!EndWrite
    <2>1. Vote!EndWrite
        BY <1>4 DEF Seg!EndWrite, Vote!EndWrite
    <2> QED
        BY <1>0, <2>1, Vote!NextSegInv DEF Vote!Next
<1>5. CASE Seg!Interrupt
    <2>1. Vote!Interrupt
        BY <1>5 DEF Seg!Interrupt, Vote!Interrupt, Seg!ReadState, Vote!ReadState
    <2> QED
        BY <1>0, <2>1, Vote!NextSegInv DEF Vote!Next
<1>6. CASE UNCHANGED seg
    <2>1. UNCHANGED Vote!segVars
        BY <1>6 DEF seg, Vote!segVars
    <2> QED
        BY <1>0, <2>1, Vote!NextSegInv
<1> QED
    BY <1>1, <1>2, <1>3, <1>4, <1>5, <1>6

(* A write begins. *)
LEMMA WriteBegins ==
    ASSUME MaxTorn <= 1, Segments, NEW v \in Value, Seg!BeginWrite(v)
    PROVE  /\ Segments' /\ at = 0 /\ at' # 0 /\ buf' = v
           /\ UNCHANGED <<copies, committed>>
<1>1. /\ at = 0 /\ at' = 1 /\ left' = {"heads", "tree"} /\ buf' = v
      /\ UNCHANGED <<copies, committed>>
    BY DEF Seg!BeginWrite
<1>2. Vote!SegInv'
    BY SegStep DEF Segments
<1>3. ValuesOK'
    BY <1>1 DEF Segments, ValuesOK
<1>4. State = committed
    BY <1>1, AtRest
<1>5. Undecided'
    BY <1>1, <1>4 DEF Undecided, State, Seg!ReadState
<1> QED
    BY <1>1, <1>2, <1>3, <1>5 DEF Segments

(* A part of a copy is written.  Once the vote finds the new value it goes *)
(* on to find it.                                                          *)
LEMMA PartWritten ==
    ASSUME MaxTorn <= 1, Segments, NEW p \in {"heads", "tree"}, Seg!WritePart(p)
    PROVE  /\ Segments' /\ at # 0 /\ UNCHANGED <<at, buf, committed>>
           /\ State = buf => State' = buf \/ buf = committed
<1>1. /\ at # 0 /\ at \in 1..3 /\ p \in left /\ left' = left \ {p} /\ left \subseteq {"heads", "tree"}
      /\ UNCHANGED <<at, buf, torn, committed>>
      /\ copies' = [copies EXCEPT ![at] = [@ EXCEPT ![p] = buf[p]]]
    BY DEF Seg!WritePart, Segments, Vote!SegInv, Vote!TypeOK
<1>2. Vote!SegInv'
    BY SegStep DEF Segments
<1>3. ValuesOK /\ Undecided /\ Vote!Written
    BY DEF Segments, Vote!SegInv
<1> DEFINE c == [copies[at] EXCEPT ![p] = buf[p]]
<1>4. c \in Value
    <2>1. copies[at] \in Value /\ buf \in Value
        BY <1>1, <1>3 DEF ValuesOK
    <2>2. CASE p = "heads"
        BY <2>1, <2>2, ValueParts
    <2>3. CASE p = "tree"
        BY <2>1, <2>3, ValueParts
    <2> QED
        BY <2>2, <2>3
<1>5. /\ copies'[at] = c /\ \A i \in 1..3 : i # at => copies'[i] = copies[i]
      /\ copies' \in [1..3 -> Value]
    BY <1>1, <1>3, <1>4 DEF ValuesOK
<1>6. ValuesOK'
    BY <1>1, <1>3, <1>5 DEF ValuesOK
<1>7. \A q \in {"heads", "tree"} : copies'[at][q] = IF q = p THEN buf[p] ELSE copies[at][q]
    <2>1. copies[at] \in [{"heads", "tree"} -> [Node -> Addr \cup {Nil}] \cup SUBSET Addr]
        BY <1>1, <1>3, ValueParts DEF ValuesOK
    <2> QED
        BY <1>5, <2>1
<1>8. Undecided'
    BY <1>1, <1>3, <1>5, <1>7 DEF Undecided
<1>9. ASSUME State = buf, buf # committed PROVE State' = buf
    <2>1. CASE at = 3
        BY <1>3, <1>5, <2>1 DEF Vote!Written, State, Seg!ReadState
    <2>2. CASE at = 2
        <3>1. copies[1] = buf /\ copies'[1] = buf /\ copies'[3] = copies[3]
            BY <1>3, <1>5, <2>2 DEF Vote!Written
        <3>2. CASE copies[3] = buf
            BY <3>1, <3>2 DEF State, Seg!ReadState
        <3>3. CASE copies[2] = buf
            <4>1. copies'[2] = buf
                BY <1>3, <1>5, <1>6, <1>7, <2>2, <3>3, ValueParts DEF ValuesOK
            <4> QED
                BY <3>1, <4>1 DEF State, Seg!ReadState
        <3> QED
            BY <1>9, <3>1, <3>2, <3>3 DEF State, Seg!ReadState
    <2>3. CASE at = 1
        <3>1. copies'[2] = copies[2] /\ copies'[3] = copies[3]
            BY <1>5, <2>3
        <3>2. CASE copies[1] = copies[2]
            <4>1. copies[1] = buf
                BY <1>9, <3>2 DEF State, Seg!ReadState
            <4>2. copies'[1] = buf
                BY <1>3, <1>5, <1>6, <1>7, <2>3, <4>1, ValueParts DEF ValuesOK
            <4> QED
                BY <3>1, <3>2, <4>1, <4>2 DEF State, Seg!ReadState
        <3>3. CASE copies[1] # copies[2]
            <4>1. copies[3] = buf
                BY <1>9, <3>3 DEF State, Seg!ReadState
            <4>2. \A q \in left : copies[1][q] = copies[2][q]
                BY <1>3, <1>9, <2>3, <4>1 DEF Undecided
            <4>3. PICK q \in {"heads", "tree"} : copies[1][q] # copies[2][q]
                BY <1>3, <3>3, ValueParts DEF ValuesOK
            <4>4. copies'[1][q] # copies'[2][q]
                BY <1>1, <1>7, <2>3, <3>1, <4>2, <4>3
            <4> QED
                BY <3>1, <4>1, <4>4 DEF State, Seg!ReadState
        <3> QED
            BY <3>2, <3>3
    <2> QED
        BY <1>1, <2>1, <2>2, <2>3
<1> QED
    BY <1>1, <1>2, <1>6, <1>8, <1>9 DEF Segments

(* The next copy is turned to. *)
LEMMA CopyWritten ==
    ASSUME MaxTorn <= 1, Segments, Seg!NextCopy
    PROVE  /\ Segments' /\ at # 0 /\ at' # 0 /\ UNCHANGED <<copies, buf, committed>>
<1>1. at \in 1..2 /\ at' = at + 1 /\ UNCHANGED <<copies, buf, committed>>
    BY DEF Seg!NextCopy
<1>2. Vote!SegInv'
    BY SegStep DEF Segments
<1> QED
    BY <1>1, <1>2 DEF Segments, ValuesOK, Undecided

(* A write ends. *)
LEMMA WriteEnds ==
    ASSUME MaxTorn <= 1, Segments, Seg!EndWrite
    PROVE  /\ Segments' /\ at # 0 /\ at' = 0 /\ UNCHANGED <<copies, buf>>
           /\ State = buf /\ committed' = buf
<1>1. at = 3 /\ at' = 0 /\ UNCHANGED <<copies, buf>> /\ committed' = buf
    BY DEF Seg!EndWrite
<1>2. Vote!SegInv'
    BY SegStep DEF Segments
<1>3. State = buf
    BY <1>1 DEF Segments, Vote!SegInv, Vote!Written, State, Seg!ReadState
<1> QED
    BY <1>1, <1>2, <1>3 DEF Segments, ValuesOK, Undecided

(* A write is cut short: it took place, or not. *)
LEMMA WriteCut ==
    ASSUME MaxTorn <= 1, Segments, Seg!Interrupt
    PROVE  /\ Segments' /\ at # 0 /\ at' = 0 /\ UNCHANGED <<copies, buf>>
           /\ committed' = IF State = buf THEN buf ELSE committed
<1>1. /\ at # 0 /\ at' = 0 /\ UNCHANGED <<copies, buf>>
      /\ committed' = IF State = buf THEN buf ELSE committed
    BY DEF Seg!Interrupt, State
<1>2. Vote!SegInv'
    BY SegStep DEF Segments
<1> QED
    BY <1>1, <1>2 DEF Segments, ValuesOK, Undecided

(* Nothing happens to the segments. *)
LEMMA SegmentsRest ==
    ASSUME MaxTorn <= 1, Segments, UNCHANGED seg
    PROVE  Segments'
<1>1. Vote!SegInv'
    BY SegStep DEF Segments
<1> QED
    BY <1>1 DEF Segments, ValuesOK, Undecided, seg

-----------------------------------------------------------------------------
Critical == {"locked", "store", "write", "unlock"}

Block == [msg : Message \cup {NoMessage}, next : Cell]

Types ==
    /\ data \in [Addr -> Block]
    /\ holder \in Node \cup {None}
    /\ pc \in [Node -> {"idle", "lock"} \cup Critical]
    /\ op \in [Node -> Op]
    /\ received \in [Node -> Seq(Message)]
    /\ sent \in 0..MaxMsgs

(* Whoever is between Lock and Unlock has the rpc lock, and writes iff a   *)
(* write is under way.                                                     *)
Owned ==
    /\ \A n \in Node : pc[n] \in Critical => holder = n
    /\ \A n \in Node : pc[n] = "write" => at # 0
    /\ at # 0 => \E n \in Node : pc[n] = "write"

(* The arguments and results of a method, at each of its steps. *)
Method(n) ==
    /\ op[n].fn = "Send" => op[n].msg \in Message
    /\ op[n].fn # "Recv" \/ pc[n] \notin {"write", "unlock"} => op[n].batch = <<>>
    /\ pc[n] # "idle" => op[n].fn # "none"
    /\ pc[n] = "store" => op[n].fn = "Send"

(* A Send that has its block; a Send and a Recv that write the state. *)
Prepared(n) ==
    /\ pc[n] = "store" => op[n].addr \in Addr \ committed.tree
    /\ pc[n] = "write" /\ op[n].fn = "Send" =>
          /\ op[n].addr \in Addr \ committed.tree
          /\ buf = Pushed(committed, op[n].msg.to, op[n].addr)
          /\ data[op[n].addr] = [msg |-> op[n].msg, next |-> committed.heads[op[n].msg.to]]
    /\ pc[n] = "write" /\ op[n].fn = "Recv" =>
          /\ buf = Popped(committed, n, List(committed, n))
          /\ op[n].batch = Messages(List(committed, n))

(* What is allocated holds a message. *)
Filled(disk, s) == \A a \in s.tree : disk[a].msg \in Message

Inv ==
    /\ Types /\ Segments /\ Owned
    /\ \A n \in Node : Method(n) /\ Prepared(n)
    /\ View(data, committed) /\ Filled(data, committed)

(* No two methods are between Lock and Unlock. *)
LEMMA Alone ==
    ASSUME Inv, NEW n \in Node, pc[n] \in Critical, NEW m \in Node, m # n
    PROVE  pc[m] \notin Critical
    BY DEF Inv, Owned

(* No write is under way for a method that is elsewhere in it. *)
LEMMA NoWrite ==
    ASSUME Inv, NEW n \in Node, pc[n] \in Critical \ {"write"}
    PROVE  at = 0 /\ State = committed
<1>1. at = 0
    BY Alone DEF Inv, Owned, Critical
<1> QED
    BY <1>1, AtRest DEF Inv

(* The lists that a write leaves are consistent. *)
LEMMA WrittenView ==
    ASSUME Inv, NEW n \in Node, pc[n] = "write"
    PROVE  View(data, buf) /\ Filled(data, buf)
<1>1. /\ committed \in Value /\ View(data, committed) /\ Filled(data, committed)
      /\ Prepared(n) /\ Method(n)
    BY DEF Inv, Segments, ValuesOK
<1>2. CASE op[n].fn = "Send"
    <2>1. op[n].msg.to \in Node
        BY <1>1, <1>2 DEF Method, Message
    <2>2. /\ op[n].addr \in Addr /\ op[n].addr \notin committed.tree
          /\ data[op[n].addr].next = committed.heads[op[n].msg.to]
          /\ buf = Pushed(committed, op[n].msg.to, op[n].addr)
        BY <1>1, <1>2 DEF Prepared
    <2>3. View(data, Pushed(committed, op[n].msg.to, op[n].addr))
        BY <1>1, <2>1, <2>2, ViewPush
    <2>4. Filled(data, buf)
        BY <1>1, <1>2, <2>2 DEF Filled, Pushed, Prepared, Method
    <2> QED
        BY <2>2, <2>3, <2>4
<1>3. CASE op[n].fn = "Recv"
    <2>1. View(data, buf)
        BY <1>1, <1>3, ViewPop DEF Prepared, List
    <2>2. Filled(data, buf)
        BY <1>1, <1>3 DEF Filled, Popped, Prepared
    <2> QED
        BY <2>1, <2>2
<1>4. op[n].fn \in {"none", "Send", "Recv"}
    BY DEF Inv, Types, Op
<1> QED
    BY <1>1, <1>2, <1>3, <1>4 DEF Method

(* A step that leaves segments and blocks alone. *)
Quiet == UNCHANGED <<copies, at, left, buf, torn, committed, data>>

(* The other methods do not notice it. *)
LEMMA OthersQuiet ==
    ASSUME Inv, NEW n \in Node, Quiet,
           \A m \in Node \ {n} : pc'[m] = pc[m] /\ op'[m] = op[m]
    PROVE  \A m \in Node \ {n} : Method(m)' /\ Prepared(m)'
<1> TAKE m \in Node \ {n}
<1>1. Method(m) /\ Prepared(m) /\ pc'[m] = pc[m] /\ op'[m] = op[m]
    BY DEF Inv
<1>2. UNCHANGED <<committed, buf, data>>
    BY DEF Quiet
<1>3. List(committed, m)' = List(committed, m) /\ Messages(List(committed, m))' = Messages(List(committed, m))
    BY <1>2 DEF List, Messages
<1>4. Method(m)'
    BY <1>1 DEF Method
<1> QED
    BY <1>1, <1>2, <1>3, <1>4 DEF Prepared

(* A step of a method with the lock is one that nobody else is ready for.  *)
LEMMA OthersOut ==
    ASSUME Inv, NEW n \in Node, pc[n] \in Critical,
           \A m \in Node \ {n} : pc'[m] = pc[m] /\ op'[m] = op[m]
    PROVE  \A m \in Node \ {n} : Method(m)' /\ Prepared(m)' /\ pc'[m] \notin Critical
<1> TAKE m \in Node \ {n}
<1>1. Method(m) /\ pc[m] \notin Critical /\ pc'[m] = pc[m] /\ op'[m] = op[m]
    BY Alone DEF Inv
<1> QED
    BY <1>1 DEF Method, Prepared, Critical

(* The records of a method. *)
LEMMA OpFields ==
    /\ NoOp \in Op /\ NoOp.fn = "none" /\ NoOp.batch = <<>>
    /\ [NoOp EXCEPT !.fn = "Recv"] \in Op
    /\ [NoOp EXCEPT !.fn = "Recv"].fn = "Recv" /\ [NoOp EXCEPT !.fn = "Recv"].batch = <<>>
    /\ \A m \in Message : LET o == [NoOp EXCEPT !.fn = "Send", !.msg = m]
                          IN  o \in Op /\ o.fn = "Send" /\ o.msg = m /\ o.batch = <<>>
<1>1. /\ NoOp \in Op /\ NoOp.fn = "none" /\ NoOp.batch = <<>>
      /\ NoOp = [fn |-> "none", msg |-> NoMessage, addr |-> Nil, batch |-> <<>>]
    BY DEF NoOp, Op
<1>2. [NoOp EXCEPT !.fn = "Recv"] = [fn |-> "Recv", msg |-> NoMessage, addr |-> Nil, batch |-> <<>>]
    BY <1>1
<1>3. ASSUME NEW m \in Message
      PROVE  LET o == [NoOp EXCEPT !.fn = "Send", !.msg = m]
             IN  o \in Op /\ o.fn = "Send" /\ o.msg = m /\ o.batch = <<>>
    BY <1>1 DEF Op
<1>4. [fn |-> "Recv", msg |-> NoMessage, addr |-> Nil, batch |-> <<>>] \in Op
    BY DEF Op
<1> QED
    BY <1>1, <1>2, <1>3, <1>4

(* A step outside of the lock: the segments and the blocks stay. *)
LEMMA OutsideStep ==
    ASSUME MaxTorn <= 1, Inv, NEW n \in Node, Quiet, pc[n] # "write", pc'[n] # "write",
           \A m \in Node \ {n} : pc'[m] = pc[m] /\ op'[m] = op[m],
           Types', Method(n)', Prepared(n)', \A m \in Node : pc'[m] \in Critical => holder' = m
    PROVE  Inv'
<1>1. Segments'
    BY SegmentsRest DEF Inv, Quiet, seg
<1>2. \A m \in Node : Method(m)' /\ Prepared(m)'
    BY OthersQuiet
<1>3. Owned'
    <2>1. Owned /\ at' = at
        BY DEF Inv, Quiet
    <2> QED
        BY <2>1 DEF Owned
<1>4. View(data, committed)' /\ Filled(data, committed)'
    BY DEF Inv, Quiet
<1> QED
    BY <1>1, <1>2, <1>3, <1>4 DEF Inv

(* Send begins. *)
LEMMA SendInv ==
    ASSUME MaxTorn <= 1, Inv, NEW n \in Node, NEW to \in Node \cup {Local}, NEW long \in Long,
           Send(n, to, long)
    PROVE  Inv'
<1>0. Types /\ Owned
    BY DEF Inv
<1> DEFINE m == [id |-> sent + 1, from |-> n, to |-> Recipient(n, to), long |-> long]
<1>1. m \in Message
    <2>1. Recipient(n, to) \in Node /\ long \in BOOLEAN
        BY MailBoxAssumption DEF Recipient
    <2>2. sent + 1 \in 1..MaxMsgs
        BY <1>0, MailBoxAssumption DEF Types, Send
    <2> QED
        BY <2>1, <2>2 DEF Message
<1>2. /\ pc[n] = "idle" /\ pc' = [pc EXCEPT ![n] = "lock"]
      /\ op' = [op EXCEPT ![n] = [NoOp EXCEPT !.fn = "Send", !.msg = m]]
      /\ sent' = sent + 1 /\ sent < MaxMsgs /\ Quiet /\ UNCHANGED <<holder, received>>
    BY DEF Send, Goto, Quiet, seg
<1> HIDE DEF m
<1>3. op'[n].fn = "Send" /\ op'[n].msg = m /\ op'[n].batch = <<>> /\ op'[n] \in Op
    BY <1>0, <1>1, <1>2, OpFields DEF Types
<1>4. Types'
    <2>1. op' \in [Node -> Op]
        BY <1>0, <1>2, <1>3 DEF Types
    <2>2. pc' \in [Node -> {"idle", "lock"} \cup Critical]
        BY <1>0, <1>2 DEF Types
    <2> QED
        BY <1>0, <1>2, <2>1, <2>2, MailBoxAssumption DEF Types, Quiet
<1>5. pc'[n] = "lock" /\ \A k \in Node \ {n} : pc'[k] = pc[k] /\ op'[k] = op[k]
    BY <1>0, <1>2 DEF Types
<1>6. Method(n)' /\ Prepared(n)'
    BY <1>1, <1>3, <1>5 DEF Method, Prepared
<1>7. \A k \in Node : pc'[k] \in Critical => holder' = k
    BY <1>0, <1>2, <1>5 DEF Owned, Critical
<1> QED
    BY <1>2, <1>4, <1>5, <1>6, <1>7, OutsideStep

(* Recv begins. *)
LEMMA RecvInv ==
    ASSUME MaxTorn <= 1, Inv, NEW n \in Node, Recv(n)
    PROVE  Inv'
<1>0. Types /\ Owned
    BY DEF Inv
<1>2. /\ pc[n] = "idle" /\ pc' = [pc EXCEPT ![n] = "lock"]
      /\ op' = [op EXCEPT ![n] = [NoOp EXCEPT !.fn = "Recv"]]
      /\ Quiet /\ UNCHANGED <<holder, received, sent>>
    BY DEF Recv, Goto, Quiet, seg
<1>3. op'[n].fn = "Recv" /\ op'[n].batch = <<>> /\ op'[n] \in Op
    BY <1>0, <1>2, OpFields DEF Types
<1>4. Types'
    <2>1. op' \in [Node -> Op]
        BY <1>0, <1>2, <1>3 DEF Types
    <2>2. pc' \in [Node -> {"idle", "lock"} \cup Critical]
        BY <1>0, <1>2 DEF Types
    <2> QED
        BY <1>0, <1>2, <2>1, <2>2 DEF Types, Quiet
<1>5. pc'[n] = "lock" /\ \A k \in Node \ {n} : pc'[k] = pc[k] /\ op'[k] = op[k]
    BY <1>0, <1>2 DEF Types
<1>6. Method(n)' /\ Prepared(n)'
    BY <1>3, <1>5 DEF Method, Prepared
<1>7. \A k \in Node : pc'[k] \in Critical => holder' = k
    BY <1>0, <1>2, <1>5 DEF Owned, Critical
<1> QED
    BY <1>2, <1>4, <1>5, <1>6, <1>7, OutsideStep

(* The rpc lock is granted to one method at a time. *)
LEMMA LockInv ==
    ASSUME MaxTorn <= 1, Inv, NEW n \in Node, Lock(n)
    PROVE  Inv'
<1>0. Types /\ Owned /\ Method(n)
    BY DEF Inv
<1>2. /\ pc[n] = "lock" /\ pc' = [pc EXCEPT ![n] = "locked"] /\ holder \in {None, n} /\ holder' = n
      /\ Quiet /\ UNCHANGED <<op, received, sent>>
    BY DEF Lock, Goto, Quiet, seg
<1>4. Types'
    <2>2. pc' \in [Node -> {"idle", "lock"} \cup Critical]
        BY <1>0, <1>2 DEF Types, Critical
    <2> QED
        BY <1>0, <1>2, <2>2 DEF Types, Quiet
<1>5. pc'[n] = "locked" /\ \A k \in Node \ {n} : pc'[k] = pc[k] /\ op'[k] = op[k]
    BY <1>0, <1>2 DEF Types
<1>6. Method(n)' /\ Prepared(n)'
    BY <1>0, <1>2, <1>5 DEF Method, Prepared
<1>7. \A k \in Node : pc'[k] \in Critical => holder' = k
    BY <1>0, <1>2, <1>5, MailBoxAssumption DEF Owned
<1> QED
    BY <1>2, <1>4, <1>5, <1>6, <1>7, OutsideStep

(* Send allocates a block, or finds the file full. *)
LEMMA SendAllocInv ==
    ASSUME MaxTorn <= 1, Inv, NEW n \in Node, SendAlloc(n)
    PROVE  Inv'
<1>0. Types /\ Owned /\ Method(n) /\ op[n] \in Op
    BY DEF Inv, Types
<1>1. /\ pc[n] = "locked" /\ op[n].fn = "Send" /\ Quiet /\ UNCHANGED <<holder, received, sent>>
      /\ \/ pc' = [pc EXCEPT ![n] = "unlock"] /\ UNCHANGED op
         \/ /\ pc' = [pc EXCEPT ![n] = "store"] /\ FreeBlocks(State.tree) # {}
            /\ op' = [op EXCEPT ![n].addr = Min(FreeBlocks(State.tree))]
    BY DEF SendAlloc, Goto, Quiet, seg
<1>2. pc[n] \in Critical /\ State = committed /\ committed \in Value
    BY <1>1, NoWrite DEF Critical, Inv, Segments, ValuesOK
<1>3. CASE pc' = [pc EXCEPT ![n] = "unlock"] /\ UNCHANGED op
    <2>4. Types'
        <3>1. pc' \in [Node -> {"idle", "lock"} \cup Critical]
            BY <1>0, <1>3 DEF Types, Critical
        <3> QED
            BY <1>0, <1>1, <1>3, <3>1 DEF Types, Quiet
    <2>5. pc'[n] = "unlock" /\ \A k \in Node \ {n} : pc'[k] = pc[k] /\ op'[k] = op[k]
        BY <1>0, <1>3 DEF Types
    <2>6. Method(n)' /\ Prepared(n)'
        BY <1>0, <1>1, <1>3, <2>5 DEF Method, Prepared
    <2>7. \A k \in Node : pc'[k] \in Critical => holder' = k
        BY <1>0, <1>1, <1>2, <2>5 DEF Owned
    <2> QED
        BY <1>1, <2>4, <2>5, <2>6, <2>7, OutsideStep
<1>4. CASE /\ pc' = [pc EXCEPT ![n] = "store"] /\ FreeBlocks(State.tree) # {}
           /\ op' = [op EXCEPT ![n].addr = Min(FreeBlocks(State.tree))]
    <2>1. Min(FreeBlocks(committed.tree)) \in Addr \ committed.tree
        BY <1>2, <1>4, MinIsFree DEF FreeBlocks
    <2> DEFINE b == Min(FreeBlocks(committed.tree))
    <2>2. op' = [op EXCEPT ![n].addr = b]
        BY <1>2, <1>4
    <2> HIDE DEF b
    <2>3. /\ op'[n] \in Op /\ op'[n].addr = b /\ op'[n].fn = "Send" /\ op'[n].msg = op[n].msg
          /\ op'[n].batch = op[n].batch
        BY <1>0, <1>1, <2>1, <2>2 DEF Types, Op, b
    <2>4. Types'
        <3>1. pc' \in [Node -> {"idle", "lock"} \cup Critical]
            BY <1>0, <1>4 DEF Types, Critical
        <3>2. op' \in [Node -> Op]
            BY <1>0, <2>2, <2>3 DEF Types
        <3> QED
            BY <1>0, <1>1, <3>1, <3>2 DEF Types, Quiet
    <2>5. pc'[n] = "store" /\ \A k \in Node \ {n} : pc'[k] = pc[k] /\ op'[k] = op[k]
        BY <1>0, <1>4, <2>2 DEF Types
    <2>6. Method(n)' /\ Prepared(n)'
        BY <1>0, <1>1, <2>1, <2>3, <2>5 DEF Method, Prepared, Quiet, b
    <2>7. \A k \in Node : pc'[k] \in Critical => holder' = k
        BY <1>0, <1>1, <1>2, <2>5 DEF Owned
    <2> QED
        BY <1>1, <2>4, <2>5, <2>6, <2>7, OutsideStep
<1> QED
    BY <1>1, <1>3, <1>4

(* The lock is released. *)
LEMMA UnlockInv ==
    ASSUME MaxTorn <= 1, Inv, NEW n \in Node, Unlock(n)
    PROVE  Inv'
<1>0. Types /\ Owned /\ op[n] \in Op
    BY DEF Inv, Types
<1>1. /\ pc[n] = "unlock" /\ pc' = [pc EXCEPT ![n] = "idle"] /\ holder' = None
      /\ op' = [op EXCEPT ![n] = NoOp] /\ Quiet /\ sent' = sent
      /\ received' = [received EXCEPT ![n] = @ \o op[n].batch]
    BY DEF Unlock, Goto, Quiet, seg
<1>2. pc[n] \in Critical
    BY <1>1 DEF Critical
<1>3. op'[n] = NoOp /\ pc'[n] = "idle" /\ \A k \in Node \ {n} : pc'[k] = pc[k] /\ op'[k] = op[k]
    BY <1>0, <1>1 DEF Types
<1>4. Types'
    <2>1. pc' \in [Node -> {"idle", "lock"} \cup Critical]
        BY <1>0, <1>1 DEF Types
    <2>2. op' \in [Node -> Op]
        BY <1>0, <1>1, OpFields DEF Types
    <2>3. received' \in [Node -> Seq(Message)]
        <3>1. op[n].batch \in Seq(Message) /\ received[n] \in Seq(Message)
            BY <1>0 DEF Op, Types
        <3>2. received[n] \o op[n].batch \in Seq(Message)
            BY <3>1
        <3> QED
            BY <1>0, <1>1, <3>2 DEF Types
    <2> QED
        BY <1>0, <1>1, <2>1, <2>2, <2>3 DEF Types, Quiet
<1>6. Method(n)' /\ Prepared(n)'
    BY <1>3, OpFields DEF Method, Prepared
<1>7. \A k \in Node : pc'[k] \in Critical => holder' = k
    BY <1>2, <1>3, OthersOut DEF Critical
<1> QED
    BY <1>1, <1>3, <1>4, <1>6, <1>7, OutsideStep

(* A step with the lock. *)
LEMMA InsideStep ==
    ASSUME Inv, NEW n \in Node, pc[n] \in Critical, holder' = holder,
           \A m \in Node \ {n} : pc'[m] = pc[m] /\ op'[m] = op[m],
           Types', Method(n)', Prepared(n)', Segments', at' # 0 <=> pc'[n] = "write",
           View(data, committed)', Filled(data, committed)'
    PROVE  Inv'
<1>1. \A m \in Node \ {n} : Method(m)' /\ Prepared(m)' /\ pc'[m] \notin Critical
    BY OthersOut
<1>2. holder = n
    BY DEF Inv, Owned
<1>3. Owned'
    BY <1>1, <1>2 DEF Owned, Critical
<1> QED
    BY <1>1, <1>3 DEF Inv

(* Where a method goes. *)
LEMMA GotoFacts ==
    ASSUME Types, NEW n \in Node, NEW step \in {"idle", "lock"} \cup Critical, Goto(n, step)
    PROVE  /\ pc' \in [Node -> {"idle", "lock"} \cup Critical] /\ pc'[n] = step
           /\ \A m \in Node \ {n} : pc'[m] = pc[m]
    BY DEF Types, Goto

(* Storing a message changes a free block. *)
LEMMA StoredFacts ==
    ASSUME Inv, NEW n \in Node, pc[n] = "store"
    PROVE  /\ Stored(n) \in [Addr -> Block]
           /\ op[n].addr \in Addr /\ op[n].addr \notin committed.tree
           /\ op[n].fn = "Send" /\ op[n].msg \in Message /\ op[n].msg.to \in Node
           /\ Stored(n)[op[n].addr] = [msg |-> op[n].msg, next |-> committed.heads[op[n].msg.to]]
           /\ \A a \in Addr : a # op[n].addr => Stored(n)[a] = data[a]
           /\ View(Stored(n), committed) /\ Filled(Stored(n), committed)
           /\ at = 0 /\ State = committed /\ committed \in Value
<1>1. /\ Types /\ Method(n) /\ Prepared(n) /\ committed \in Value
      /\ View(data, committed) /\ Filled(data, committed)
    BY DEF Inv, Segments, ValuesOK
<1>2. /\ op[n].addr \in Addr /\ op[n].addr \notin committed.tree
      /\ op[n].fn = "Send" /\ op[n].msg \in Message /\ op[n].msg.to \in Node
    BY <1>1 DEF Method, Prepared, Message
<1>3. at = 0 /\ State = committed
    BY NoWrite DEF Critical
<1>4. committed.heads[op[n].msg.to] \in Cell /\ committed.tree \subseteq Addr
    BY <1>1, <1>2 DEF Value
<1>5. Stored(n) = [data EXCEPT ![op[n].addr] = [msg |-> op[n].msg, next |-> committed.heads[op[n].msg.to]]]
    BY <1>3 DEF Stored, NextPointer
<1>6. [msg |-> op[n].msg, next |-> committed.heads[op[n].msg.to]] \in Block
    BY <1>2, <1>4 DEF Block
<1>7. /\ Stored(n) \in [Addr -> Block]
      /\ Stored(n)[op[n].addr] = [msg |-> op[n].msg, next |-> committed.heads[op[n].msg.to]]
      /\ \A a \in Addr : a # op[n].addr => Stored(n)[a] = data[a]
    BY <1>1, <1>2, <1>5, <1>6 DEF Types
<1>8. View(Stored(n), committed) /\ Filled(Stored(n), committed)
    <2>1. \A a \in committed.tree : Stored(n)[a] = data[a]
        BY <1>2, <1>4, <1>7
    <2> QED
        BY <1>1, <2>1, ViewFrame DEF Filled
<1> QED
    BY <1>1, <1>2, <1>3, <1>7, <1>8

(* Send stores its message and begins to write the state. *)
LEMMA SendStoreInv ==
    ASSUME MaxTorn <= 1, Inv, NEW n \in Node, SendStore(n)
    PROVE  Inv'
<1>0. Types /\ Segments /\ Method(n)
    BY DEF Inv
<1>1. /\ pc[n] = "store" /\ data' = Stored(n) /\ Goto(n, "write")
      /\ UNCHANGED <<holder, op, received, sent>>
    BY DEF SendStore
<1>2. /\ Stored(n) \in [Addr -> Block]
      /\ op[n].addr \in Addr /\ op[n].addr \notin committed.tree
      /\ op[n].fn = "Send" /\ op[n].msg \in Message /\ op[n].msg.to \in Node
      /\ Stored(n)[op[n].addr] = [msg |-> op[n].msg, next |-> committed.heads[op[n].msg.to]]
      /\ View(Stored(n), committed) /\ Filled(Stored(n), committed)
      /\ State = committed /\ committed \in Value
    BY <1>1, StoredFacts
<1> DEFINE v == Pushed(committed, op[n].msg.to, op[n].addr)
<1>3. v \in Value
    BY <1>2 DEF Pushed, Value, Cell
<1>4. Seg!BeginWrite(v)
    BY <1>2 DEF SendStore, Pushed
<1> HIDE DEF v
<1>5. Segments' /\ at' # 0 /\ buf' = v /\ UNCHANGED <<copies, committed>>
    BY <1>0, <1>3, <1>4, WriteBegins
<1>6. /\ pc' \in [Node -> {"idle", "lock"} \cup Critical] /\ pc'[n] = "write"
      /\ \A m \in Node \ {n} : pc'[m] = pc[m]
    BY <1>0, <1>1, GotoFacts DEF Critical
<1>7. Types'
    BY <1>0, <1>1, <1>2, <1>6 DEF Types
<1>8. Method(n)'
    BY <1>0, <1>1, <1>2, <1>6 DEF Method
<1>9. Prepared(n)'
    BY <1>1, <1>2, <1>5, <1>6 DEF Prepared, v
<1>10. View(data, committed)' /\ Filled(data, committed)'
    BY <1>1, <1>2, <1>5
<1>11. pc[n] \in Critical
    BY <1>1 DEF Critical
<1> QED
    BY <1>1, <1>5, <1>6, <1>7, <1>8, <1>9, <1>10, <1>11, InsideStep

(* An i/o error while the message is stored. *)
LEMMA SendStoreFailedInv ==
    ASSUME MaxTorn <= 1, Inv, NEW n \in Node, SendStoreFailed(n)
    PROVE  Inv'
<1>0. Types /\ Segments /\ Method(n) /\ View(data, committed) /\ Filled(data, committed)
    BY DEF Inv
<1>1. /\ pc[n] = "store" /\ data' \in {data, Stored(n)} /\ Goto(n, "unlock")
      /\ UNCHANGED <<holder, op, received, sent, copies, at, left, buf, torn, committed>>
    BY DEF SendStoreFailed, seg
<1>2. /\ Stored(n) \in [Addr -> Block] /\ op[n].fn = "Send" /\ at = 0
      /\ View(Stored(n), committed) /\ Filled(Stored(n), committed)
    BY <1>1, StoredFacts
<1>3. Segments'
    BY <1>0, <1>1, SegmentsRest DEF seg
<1>6. /\ pc' \in [Node -> {"idle", "lock"} \cup Critical] /\ pc'[n] = "unlock"
      /\ \A m \in Node \ {n} : pc'[m] = pc[m]
    BY <1>0, <1>1, GotoFacts DEF Critical
<1>7. Types'
    BY <1>0, <1>1, <1>2, <1>6 DEF Types
<1>8. Method(n)' /\ Prepared(n)'
    BY <1>0, <1>1, <1>2, <1>6 DEF Method, Prepared
<1>10. View(data, committed)' /\ Filled(data, committed)'
    BY <1>0, <1>1, <1>2
<1>11. pc[n] \in Critical
    BY <1>1 DEF Critical
<1> QED
    BY <1>1, <1>2, <1>3, <1>6, <1>7, <1>8, <1>10, <1>11, InsideStep

(* The messages of a list of a view. *)
LEMMA MessagesType ==
    ASSUME Types, NEW s \in Value, View(data, s), Filled(data, s), NEW n \in Node
    PROVE  /\ List(s, n) \in Seq(Cell) /\ List(s, n) # <<>>
           /\ \A i \in 1..(Len(List(s, n)) - 1) : List(s, n)[i] \in s.tree
           /\ Len(List(s, n)) - 1 \in Nat
           /\ Messages(List(s, n)) \in Seq(Message)
           /\ Len(Messages(List(s, n))) = Len(List(s, n)) - 1
<1> DEFINE list == List(s, n)
<1>1. list \in Seq(Cell) /\ list # <<>> /\ \A i \in 1..(Len(list) - 1) : list[i] \in s.tree
    BY ViewFacts DEF List
<1> HIDE DEF list
<1>2. Len(list) - 1 \in Nat
    BY <1>1
<1>3. \A i \in 1..(Len(list) - 1) : data[list[i]].msg \in Message
    BY <1>1 DEF Filled
<1>4. Messages(list) \in [1..(Len(list) - 1) -> Message]
    BY <1>3 DEF Messages
<1>5. Messages(list) \in Seq(Message) /\ Len(Messages(list)) = Len(list) - 1
    BY <1>2, <1>4
<1> QED
    BY <1>1, <1>2, <1>5 DEF list

(* Recv walks its list and begins to write the state, or fails. *)
LEMMA RecvWalkInv ==
    ASSUME MaxTorn <= 1, Inv, NEW n \in Node, RecvWalk(n)
    PROVE  Inv'
<1>0. /\ Types /\ Segments /\ Method(n) /\ View(data, committed) /\ Filled(data, committed)
      /\ committed \in Value /\ op[n] \in Op
    BY DEF Inv, Segments, ValuesOK, Types
<1>1. pc[n] = "locked" /\ op[n].fn = "Recv" /\ UNCHANGED <<data, holder, received, sent>>
    BY DEF RecvWalk
<1>2. pc[n] \in Critical /\ at = 0 /\ State = committed
    BY <1>1, NoWrite DEF Critical
<1> DEFINE list == List(committed, n)
           v == Popped(committed, n, list)
<1>3. \/ /\ op' = [op EXCEPT ![n].batch = Messages(list)]
         /\ Seg!BeginWrite(v) /\ Goto(n, "write")
      \/ Goto(n, "unlock") /\ UNCHANGED <<seg, op>>
    BY <1>2 DEF RecvWalk, Popped
<1>4. v \in Value
    BY <1>0, ViewPop DEF List
<1>5. Messages(list) \in Seq(Message)
    BY <1>0, MessagesType
<1>6. committed' = committed => list' = list /\ Messages(list)' = Messages(list)
    BY <1>1 DEF List, Messages
<1> HIDE DEF list
<1>7. CASE /\ op' = [op EXCEPT ![n].batch = Messages(list)]
           /\ Seg!BeginWrite(v) /\ Goto(n, "write")
    <2>1. Segments' /\ at' # 0 /\ buf' = v /\ UNCHANGED <<copies, committed>>
        BY <1>0, <1>4, <1>7, WriteBegins
    <2>2. /\ pc' \in [Node -> {"idle", "lock"} \cup Critical] /\ pc'[n] = "write"
          /\ \A m \in Node \ {n} : pc'[m] = pc[m]
        BY <1>0, <1>7, GotoFacts DEF Critical
    <2>3. op'[n] \in Op /\ op'[n].fn = "Recv" /\ op'[n].batch = Messages(list)
        BY <1>0, <1>1, <1>5, <1>7 DEF Types, Op
    <2>4. op' \in [Node -> Op] /\ \A m \in Node \ {n} : op'[m] = op[m]
        BY <1>0, <1>7, <2>3 DEF Types
    <2>5. Types'
        BY <1>0, <1>1, <2>2, <2>4 DEF Types
    <2>6. Method(n)'
        BY <2>2, <2>3 DEF Method
    <2>7. Prepared(n)'
        BY <1>6, <2>1, <2>2, <2>3 DEF Prepared, list
    <2>8. View(data, committed)' /\ Filled(data, committed)'
        BY <1>0, <1>1, <2>1
    <2> QED
        BY <1>1, <1>2, <2>1, <2>2, <2>4, <2>5, <2>6, <2>7, <2>8, InsideStep
<1>8. CASE Goto(n, "unlock") /\ UNCHANGED <<seg, op>>
    <2>1. Segments' /\ at' = 0 /\ committed' = committed
        BY <1>0, <1>2, <1>8, SegmentsRest DEF seg
    <2>2. /\ pc' \in [Node -> {"idle", "lock"} \cup Critical] /\ pc'[n] = "unlock"
          /\ \A m \in Node \ {n} : pc'[m] = pc[m]
        BY <1>0, <1>8, GotoFacts DEF Critical
    <2>5. Types'
        BY <1>0, <1>1, <1>8, <2>2 DEF Types
    <2>6. Method(n)' /\ Prepared(n)'
        BY <1>0, <1>1, <1>8, <2>2 DEF Method, Prepared
    <2>8. View(data, committed)' /\ Filled(data, committed)'
        BY <1>0, <1>1, <2>1
    <2> QED
        BY <1>1, <1>2, <1>8, <2>1, <2>2, <2>5, <2>6, <2>8, InsideStep
<1> QED
    BY <1>3, <1>7, <1>8

(* The state is written, part by part. *)
LEMMA WriteStateInv ==
    ASSUME MaxTorn <= 1, Inv, NEW n \in Node, WriteState(n)
    PROVE  Inv'
<1>0. /\ Types /\ Segments /\ Method(n) /\ Prepared(n)
      /\ View(data, committed) /\ Filled(data, committed)
    BY DEF Inv
<1>1. /\ pc[n] = "write" /\ UNCHANGED <<data, holder, pc, op, received, sent>>
      /\ (\E p \in {"heads", "tree"} : Seg!WritePart(p)) \/ Seg!NextCopy
    BY DEF WriteState
<1>2. Segments' /\ at' # 0 /\ UNCHANGED <<buf, committed>>
    BY <1>0, <1>1, PartWritten, CopyWritten
<1>3. List(committed, n)' = List(committed, n) /\ Messages(List(committed, n))' = Messages(List(committed, n))
    BY <1>1, <1>2 DEF List, Messages
<1>4. Types' /\ Method(n)'
    BY <1>0, <1>1 DEF Types, Method
<1>5. Prepared(n)'
    BY <1>0, <1>1, <1>2, <1>3 DEF Prepared
<1>6. View(data, committed)' /\ Filled(data, committed)'
    BY <1>0, <1>1, <1>2
<1>7. pc[n] \in Critical
    BY <1>1 DEF Critical
<1> QED
    BY <1>1, <1>2, <1>4, <1>5, <1>6, <1>7, InsideStep

(* The state has been written. *)
LEMMA WriteDoneInv ==
    ASSUME MaxTorn <= 1, Inv, NEW n \in Node, WriteDone(n)
    PROVE  Inv'
<1>0. Types /\ Segments /\ Method(n)
    BY DEF Inv
<1>1. /\ pc[n] = "write" /\ UNCHANGED <<data, holder, op, received, sent>>
      /\ Seg!EndWrite /\ Goto(n, "unlock")
    BY DEF WriteDone
<1>2. Segments' /\ at' = 0 /\ committed' = buf
    BY <1>0, <1>1, WriteEnds
<1>3. /\ pc' \in [Node -> {"idle", "lock"} \cup Critical] /\ pc'[n] = "unlock"
      /\ \A m \in Node \ {n} : pc'[m] = pc[m]
    BY <1>0, <1>1, GotoFacts DEF Critical
<1>4. Types' /\ Method(n)' /\ Prepared(n)'
    BY <1>0, <1>1, <1>3 DEF Types, Method, Prepared
<1>5. View(data, committed)' /\ Filled(data, committed)'
    BY <1>1, <1>2, WrittenView
<1>6. pc[n] \in Critical
    BY <1>1 DEF Critical
<1> QED
    BY <1>1, <1>2, <1>3, <1>4, <1>5, <1>6, InsideStep

(* A write is cut short: what is on disk afterwards. *)
LEMMA CutView ==
    ASSUME MaxTorn <= 1, Inv, NEW n \in Node, pc[n] = "write", Seg!Interrupt, data' = data
    PROVE  Segments' /\ at' = 0 /\ View(data, committed)' /\ Filled(data, committed)'
<1>1. /\ Segments' /\ at' = 0 /\ committed' = IF State = buf THEN buf ELSE committed
    BY WriteCut DEF Inv
<1>2. View(data, committed) /\ Filled(data, committed) /\ View(data, buf) /\ Filled(data, buf)
    BY WrittenView DEF Inv
<1>3. committed' = buf \/ committed' = committed
    BY <1>1
<1> QED
    BY <1>1, <1>2, <1>3

(* An i/o error while the state is written. *)
LEMMA WriteFailedInv ==
    ASSUME MaxTorn <= 1, Inv, NEW n \in Node, WriteFailed(n)
    PROVE  Inv'
<1>0. Types /\ Method(n) /\ op[n] \in Op
    BY DEF Inv, Types
<1>1. /\ pc[n] = "write" /\ UNCHANGED <<data, holder, received, sent>>
      /\ Seg!Interrupt /\ Goto(n, "unlock") /\ op' = [op EXCEPT ![n].batch = <<>>]
    BY DEF WriteFailed
<1>2. Segments' /\ at' = 0 /\ View(data, committed)' /\ Filled(data, committed)'
    BY <1>1, CutView
<1>3. /\ pc' \in [Node -> {"idle", "lock"} \cup Critical] /\ pc'[n] = "unlock"
      /\ \A m \in Node \ {n} : pc'[m] = pc[m]
    BY <1>0, <1>1, GotoFacts DEF Critical
<1>4. /\ op'[n] \in Op /\ op'[n].fn = op[n].fn /\ op'[n].msg = op[n].msg /\ op'[n].batch = <<>>
    <2>1. <<>> \in Seq(Message)
        OBVIOUS
    <2> QED
        BY <1>0, <1>1, <2>1 DEF Types, Op
<1>5. op' \in [Node -> Op] /\ \A m \in Node \ {n} : op'[m] = op[m]
    BY <1>0, <1>1, <1>4 DEF Types
<1>6. Types' /\ Method(n)' /\ Prepared(n)'
    BY <1>0, <1>1, <1>3, <1>4, <1>5 DEF Types, Method, Prepared
<1>7. pc[n] \in Critical
    BY <1>1 DEF Critical
<1> QED
    BY <1>1, <1>2, <1>3, <1>5, <1>6, <1>7, InsideStep

(* A driver dies. *)
LEMMA CrashInv ==
    ASSUME MaxTorn <= 1, Inv, NEW n \in Node, Crash(n)
    PROVE  Inv'
<1>0. Types /\ Owned
    BY DEF Inv
<1>1. /\ Goto(n, "idle") /\ op' = [op EXCEPT ![n] = NoOp] /\ UNCHANGED <<received, sent>>
      /\ IF pc[n] = "write" THEN Seg!Interrupt ELSE UNCHANGED seg
      /\ holder' \in {holder, IF holder = n THEN None ELSE holder}
      /\ data' \in IF pc[n] = "store" THEN {data, Stored(n)} ELSE {data}
    BY DEF Crash
<1>2. /\ pc' \in [Node -> {"idle", "lock"} \cup Critical] /\ pc'[n] = "idle"
      /\ \A m \in Node \ {n} : pc'[m] = pc[m]
    BY <1>0, <1>1, GotoFacts
<1>3. op' \in [Node -> Op] /\ op'[n] = NoOp /\ \A m \in Node \ {n} : op'[m] = op[m]
    BY <1>0, <1>1, OpFields DEF Types
<1>4. Method(n)' /\ Prepared(n)'
    BY <1>2, <1>3, OpFields DEF Method, Prepared
<1>5. \A m \in Node : pc'[m] \in Critical => holder' = m
    BY <1>0, <1>1, <1>2 DEF Owned, Critical
<1>6. data' \in [Addr -> Block]
    BY <1>0, <1>1, StoredFacts DEF Types
<1>7. Types'
    BY <1>0, <1>1, <1>2, <1>3, <1>6 DEF Types
<1>8. CASE pc[n] \in Critical
    <2>1. \A m \in Node \ {n} : Method(m)' /\ Prepared(m)' /\ pc'[m] \notin Critical
        BY <1>2, <1>3, <1>8, OthersOut
    <2>2. Segments' /\ at' = 0 /\ View(data, committed)' /\ Filled(data, committed)'
        <3>1. CASE pc[n] = "write"
            BY <1>1, <3>1, CutView
        <3>2. CASE pc[n] # "write"
            <4>1. at = 0 /\ Segments' /\ UNCHANGED <<at, committed>>
                BY <1>1, <1>8, <3>2, NoWrite, SegmentsRest DEF Inv, seg
            <4>2. View(data', committed) /\ Filled(data', committed)
                BY <1>1, StoredFacts DEF Inv
            <4> QED
                BY <4>1, <4>2
        <3> QED
            BY <3>1, <3>2
    <2>3. Owned'
        BY <1>2, <1>5, <2>1, <2>2 DEF Owned, Critical
    <2> QED
        BY <1>4, <1>7, <2>1, <2>2, <2>3 DEF Inv
<1>9. CASE pc[n] \notin Critical
    <2>1. Quiet
        BY <1>1, <1>9 DEF Quiet, seg, Critical
    <2>2. pc[n] # "write"
        BY <1>9 DEF Critical
    <2> QED
        BY <1>2, <1>3, <1>4, <1>5, <1>7, <2>1, <2>2, OutsideStep
<1> QED
    BY <1>8, <1>9

(* The initial state, an empty file. *)
LEMMA InitInv == Init => Inv
<1> SUFFICES ASSUME Init PROVE Inv
    OBVIOUS
<1>0. /\ copies = [i \in 1..3 |-> Formatted] /\ at = 0 /\ left = {} /\ buf = Formatted
      /\ torn = 0 /\ committed = Formatted
      /\ data = [a \in Addr |-> [msg |-> NoMessage, next |-> Nil]] /\ holder = None
      /\ pc = [n \in Node |-> "idle"] /\ op = [n \in Node |-> NoOp]
      /\ received = [n \in Node |-> <<>>] /\ sent = 0
    BY DEF Init, Seg!SegInit
<1>1. Formatted \in Value
    BY DEF Formatted, Value, Cell
<1>2. Segments
    <2>1. Vote!Init
        <3>1. Formatted \in Vote!State
            BY <1>1, ValueParts DEF Vote!State
        <3>2. Vote!SegInit(Formatted)
            BY <1>0 DEF Vote!SegInit
        <3> QED
            BY <3>1, <3>2 DEF Vote!Init
    <2>2. MaxTorn \in Nat
        BY MailBoxAssumption
    <2>3. Vote!SegInv
        BY <2>1, <2>2, Vote!InitSegInv
    <2> QED
        BY <1>0, <1>1, <2>3 DEF Segments, ValuesOK, Undecided
<1>3. Types
    <2>1. [msg |-> NoMessage, next |-> Nil] \in Block
        BY DEF Block, Cell
    <2>2. received \in [Node -> Seq(Message)]
        BY <1>0
    <2>3. data \in [Addr -> Block] /\ op \in [Node -> Op] /\ holder \in Node \cup {None}
        BY <1>0, <2>1, OpFields
    <2>4. pc \in [Node -> {"idle", "lock"} \cup Critical] /\ sent \in 0..MaxMsgs
        BY <1>0, MailBoxAssumption
    <2> QED
        BY <2>2, <2>3, <2>4 DEF Types
<1>4. Owned /\ \A n \in Node : Method(n) /\ Prepared(n)
    BY <1>0, OpFields DEF Owned, Method, Prepared, Critical
<1>5. View(data, committed)
    <2> DEFINE lists == [n \in Node |-> <<Nil>>]
    <2>1. ASSUME NEW n \in Node PROVE GoodList(<<Nil>>, data, Formatted.heads[n], Formatted.tree)
        BY DEF GoodList, IsWalk, Intact, Last, Formatted, Cell
    <2>2. \A k : k \notin 1..(Len(<<Nil>>) - 1)
        <3>1. Len(<<Nil>>) = 1
            OBVIOUS
        <3> QED
            BY <3>1
    <2>3. ListsOf(lists, data, Formatted)
        BY <2>1, <2>2, Zenon DEF ListsOf, Formatted
    <2> QED
        BY <1>0, <1>1, <2>3, ViewByLists
<1>6. Filled(data, committed)
    BY <1>0 DEF Filled, Formatted
<1> QED
    BY <1>2, <1>3, <1>4, <1>5, <1>6 DEF Inv

(* Every step preserves the invariant. *)
LEMMA NextInv == ASSUME MaxTorn <= 1, Inv, [Next]_vars PROVE Inv'
<1>1. ASSUME NEW n \in Node, NEW to \in Node \cup {Local}, NEW long \in Long, Send(n, to, long)
      PROVE  Inv'
    BY <1>1, SendInv
<1>2. ASSUME NEW n \in Node,
             \/ Recv(n) \/ Lock(n) \/ Proceed(n) \/ SendStoreFailed(n) \/ WriteFailed(n) \/ Crash(n)
      PROVE  Inv'
    BY <1>2, RecvInv, LockInv, SendAllocInv, SendStoreInv, SendStoreFailedInv, RecvWalkInv,
       WriteStateInv, WriteDoneInv, WriteFailedInv, UnlockInv, CrashInv DEF Proceed
<1>3. CASE UNCHANGED vars
    <2>1. UNCHANGED <<copies, at, left, buf, torn, committed, data, holder, pc, op, received, sent>>
        BY <1>3 DEF vars
    <2>2. Segments'
        BY <2>1, SegmentsRest DEF Inv, seg
    <2>3. \A n \in Node : Method(n)' /\ Prepared(n)'
        <3> TAKE n \in Node
        <3>1. Method(n) /\ Prepared(n)
            BY DEF Inv
        <3>2. /\ List(committed, n)' = List(committed, n)
              /\ Messages(List(committed, n))' = Messages(List(committed, n))
            BY <2>1 DEF List, Messages
        <3> QED
            BY <2>1, <3>1, <3>2 DEF Method, Prepared
    <2>4. Types' /\ Owned' /\ View(data, committed)' /\ Filled(data, committed)'
        BY <2>1 DEF Inv, Types, Owned
    <2> QED
        BY <2>2, <2>3, <2>4 DEF Inv
<1> QED
    BY <1>1, <1>2, <1>3 DEF Next

-----------------------------------------------------------------------------
(* The state that counts is the old one or the new one. *)
LEMMA CurrentFacts ==
    ASSUME Inv
    PROVE  /\ Current \in Value /\ View(data, Current) /\ Filled(data, Current)
           /\ at = 0 => Current = committed
           /\ at # 0 => Current = IF State = buf THEN buf ELSE committed
<1>1. Types /\ Segments /\ Owned /\ View(data, committed) /\ Filled(data, committed)
    BY DEF Inv
<1>2. buf \in Value /\ committed \in Value
    BY <1>1 DEF Segments, ValuesOK
<1>3. CASE at = 0
    BY <1>1, <1>2, <1>3, AtRest DEF Current
<1>4. CASE at # 0
    <2>1. PICK n \in Node : pc[n] = "write"
        BY <1>1, <1>4 DEF Owned
    <2>2. View(data, buf) /\ Filled(data, buf)
        BY <2>1, WrittenView
    <2> QED
        BY <1>1, <1>2, <1>4, <2>2 DEF Current
<1> QED
    BY <1>3, <1>4

(* A block that changes is one that the state does not refer to. *)
LEMMA UntouchedStep ==
    ASSUME Inv, Next, NEW a \in Addr, data'[a] # data[a]
    PROVE  a \notin Current.tree
<1>1. PICK n \in Node : pc[n] = "store" /\ data' \in {data, Stored(n)}
    <2>1. ASSUME NEW n \in Node, NEW to \in Node \cup {Local}, NEW long \in Long, Send(n, to, long)
          PROVE  data' = data
        BY <2>1 DEF Send
    <2>2. ASSUME NEW n \in Node,
                 \/ Recv(n) \/ Lock(n) \/ Proceed(n) \/ SendStoreFailed(n) \/ WriteFailed(n) \/ Crash(n)
          PROVE  data' = data \/ (pc[n] = "store" /\ data' \in {data, Stored(n)})
        BY <2>2 DEF Recv, Lock, Proceed, SendAlloc, SendStore, RecvWalk, WriteState, WriteDone,
           Unlock, SendStoreFailed, WriteFailed, Crash
    <2> QED
        BY <2>1, <2>2 DEF Next
<1>2. /\ op[n].addr \notin committed.tree /\ at = 0
      /\ \A b \in Addr : b # op[n].addr => Stored(n)[b] = data[b]
    BY <1>1, StoredFacts
<1>3. a = op[n].addr
    BY <1>1, <1>2
<1> QED
    BY <1>2, <1>3, CurrentFacts

(* The file as a post office. *)
Box == [n \in Node |-> Messages(List(Current, n))]
Hand == [n \in Node |-> InHand(n)]

(* Boxes change only with the state that counts. *)
LEMMA BoxFrame ==
    ASSUME Inv, Current' = Current, \A a \in Current.tree : data'[a] = data[a]
    PROVE  Box' = Box
<1>0. Types /\ Current \in Value /\ View(data, Current) /\ Filled(data, Current)
    BY CurrentFacts DEF Inv
<1>1. ASSUME NEW n \in Node PROVE Messages(List(Current, n))' = Messages(List(Current, n))
    <2>1. List(Current, n)' = List(Current, n)
        BY <1>0, ViewFrame DEF List
    <2> DEFINE list == List(Current, n)
    <2>2. \A i \in 1..(Len(list) - 1) : list[i] \in Current.tree
        BY <1>0, MessagesType
    <2>3. Messages(List(Current, n))' = [i \in 1..(Len(list) - 1) |-> data'[list[i]].msg]
        BY <2>1 DEF Messages
    <2> HIDE DEF list
    <2>4. [i \in 1..(Len(list) - 1) |-> data'[list[i]].msg] = [i \in 1..(Len(list) - 1) |-> data[list[i]].msg]
        BY <2>2
    <2> QED
        BY <2>3, <2>4 DEF Messages, list
<1> QED
    BY <1>1 DEF Box

(* The hands of the nodes that take no step. *)
LEMMA HandsFrame ==
    ASSUME Inv, NEW n \in Node,
           \A m \in Node \ {n} : pc'[m] = pc[m] /\ op'[m] = op[m],
           pc[n] \in Critical \/ Quiet
    PROVE  \A m \in Node \ {n} : InHand(m)' = InHand(m)
<1> TAKE m \in Node \ {n}
<1>1. CASE pc[n] \in Critical
    <2>1. pc[m] \notin Critical
        BY <1>1, Alone
    <2> QED
        BY <2>1 DEF InHand, Critical
<1>2. CASE Quiet
    <2>1. State' = State /\ buf' = buf
        BY <1>2 DEF Quiet, State
    <2> QED
        BY <2>1 DEF InHand
<1> QED
    BY <1>1, <1>2

(* A hand is empty but between the write of a Recv and its end. *)
LEMMA EmptyHand ==
    ASSUME NEW n \in Node, Method(n), op[n].fn # "Recv" \/ pc[n] \notin {"write", "unlock"}
    PROVE  InHand(n) = <<>>
    BY DEF Method, InHand

(* The same after the step. *)
LEMMA EmptyHandNext ==
    ASSUME NEW n \in Node, Method(n)', op'[n].fn # "Recv" \/ pc'[n] \notin {"write", "unlock"}
    PROVE  InHand(n)' = <<>>
    BY DEF Method, InHand

(* Steps that are none of the post office. *)
LEMMA StutterStep ==
    ASSUME NEW n \in Node, Box' = Box, received' = received, InHand(n)' = InHand(n),
           \A m \in Node \ {n} : InHand(m)' = InHand(m)
    PROVE  UNCHANGED <<Box, Hand, received>>
<1>1. \A m \in Node : InHand(m)' = InHand(m)
    OBVIOUS
<1> QED
    BY <1>1 DEF Hand

AbstractStep == [Abstract!Next]_<<Box, Hand, received>>

(* A hand that is dropped. *)
LEMMA LoseStep ==
    ASSUME NEW n \in Node, Box' = Box, received' = received, InHand(n)' = <<>>,
           \A m \in Node \ {n} : InHand(m)' = InHand(m)
    PROVE  AbstractStep
<1>1. CASE InHand(n) = <<>>
    BY <1>1, StutterStep DEF AbstractStep
<1>2. CASE InHand(n) # <<>>
    <2>1. Hand[n] # <<>> /\ Hand' = [Hand EXCEPT ![n] = <<>>]
        BY <1>2 DEF Hand
    <2>2. Abstract!Lose(n)
        BY <2>1 DEF Abstract!Lose, Box, Hand
    <2> QED
        BY <2>2 DEF AbstractStep, Abstract!Next
<1> QED
    BY <1>1, <1>2

(* The list of a box that is emptied and stays as it was is empty. *)
LEMMA EmptyPop ==
    ASSUME Inv, NEW n \in Node, Popped(committed, n, List(committed, n)) = committed
    PROVE  Messages(List(committed, n)) = <<>>
<1>1. committed \in Value /\ View(data, committed)
    BY DEF Inv, Segments, ValuesOK
<1>2. List(committed, n) = <<Nil>>
    BY <1>1, ViewPop DEF List
<1>3. Len(<<Nil>>) = 1
    OBVIOUS
<1> QED
    BY <1>2, <1>3 DEF Messages

(* Steps that touch neither segments nor blocks nor a full hand. *)
LEMMA QuietStep ==
    ASSUME Inv, Inv', NEW n \in Node, Quiet, received' = received,
           \A m \in Node \ {n} : pc'[m] = pc[m] /\ op'[m] = op[m],
           op[n].fn # "Recv" \/ pc[n] \notin {"write", "unlock"},
           op'[n].fn # "Recv" \/ pc'[n] \notin {"write", "unlock"}
    PROVE  AbstractStep
<1>1. Current' = Current /\ data' = data
    BY DEF Quiet, Current, State
<1>2. Box' = Box
    BY <1>1, BoxFrame
<1>3. InHand(n) = <<>> /\ InHand(n)' = <<>>
    BY EmptyHand, EmptyHandNext DEF Inv
<1>4. \A m \in Node \ {n} : InHand(m)' = InHand(m)
    BY HandsFrame
<1> QED
    BY <1>2, <1>3, <1>4, LoseStep

(* What an action of n leaves to the others. *)
LEMMA OthersWait ==
    ASSUME Types, NEW n \in Node, NEW step, Goto(n, step),
           op' = op \/ \E o : op' = [op EXCEPT ![n] = o]
    PROVE  /\ pc'[n] = step
           /\ \A m \in Node \ {n} : pc'[m] = pc[m] /\ op'[m] = op[m]
    BY DEF Types, Goto

(* Send, Recv and Lock change no box. *)
LEMMA BeginStep ==
    ASSUME Inv, Inv', NEW n \in Node,
           \/ \E to \in Node \cup {Local}, long \in Long : Send(n, to, long)
           \/ Recv(n) \/ Lock(n)
    PROVE  AbstractStep
<1>0. Types
    BY DEF Inv
<1>1. /\ Quiet /\ received' = received /\ pc[n] \notin {"write", "unlock"}
      /\ \E step \in {"lock", "locked"} : Goto(n, step)
      /\ op' = op \/ \E o : op' = [op EXCEPT ![n] = o]
    BY DEF Send, Recv, Lock, Quiet, seg
<1>2. /\ pc'[n] \notin {"write", "unlock"}
      /\ \A m \in Node \ {n} : pc'[m] = pc[m] /\ op'[m] = op[m]
    BY <1>0, <1>1, OthersWait
<1> QED
    BY <1>1, <1>2, QuietStep

(* An allocation changes no box. *)
LEMMA AllocStep ==
    ASSUME Inv, Inv', NEW n \in Node, SendAlloc(n)
    PROVE  AbstractStep
<1>0. Types
    BY DEF Inv
<1>1. /\ Quiet /\ received' = received /\ pc[n] = "locked" /\ op[n].fn = "Send"
      /\ \E step \in {"unlock", "store"} : Goto(n, step)
      /\ op' = op \/ op' = [op EXCEPT ![n].addr = Min(FreeBlocks(State.tree))]
    BY DEF SendAlloc, Quiet, seg
<1>2. op' = op \/ \E o : op' = [op EXCEPT ![n] = o]
    BY <1>1
<1>3. \A m \in Node \ {n} : pc'[m] = pc[m] /\ op'[m] = op[m]
    BY <1>0, <1>1, <1>2, OthersWait
<1>4. op'[n].fn = "Send"
    BY <1>0, <1>1 DEF Types, Op
<1> QED
    BY <1>1, <1>3, <1>4, QuietStep

(* Storing a message, before the state is written, changes no box. *)
LEMMA StoreStep ==
    ASSUME MaxTorn <= 1, Inv, Inv', NEW n \in Node, SendStore(n) \/ SendStoreFailed(n)
    PROVE  AbstractStep
<1>0. Types /\ Segments
    BY DEF Inv
<1>1. /\ received' = received /\ pc[n] = "store" /\ op' = op /\ data' \in {data, Stored(n)}
      /\ \E step \in {"unlock", "write"} : Goto(n, step)
    BY DEF SendStore, SendStoreFailed
<1>2. /\ op[n].fn = "Send" /\ op[n].addr \in Addr /\ op[n].addr \notin committed.tree
      /\ op[n].msg.to \in Node /\ committed \in Value /\ State = committed /\ at = 0
      /\ \A a \in Addr : a # op[n].addr => Stored(n)[a] = data[a]
    BY <1>1, StoredFacts
<1>3. \A m \in Node \ {n} : pc'[m] = pc[m] /\ op'[m] = op[m]
    BY <1>0, <1>1, OthersWait
<1>4. Current = committed /\ Current' = committed
    <2>1. CASE SendStore(n)
        <3> DEFINE v == Pushed(committed, op[n].msg.to, op[n].addr)
        <3>1. v \in Value
            BY <1>2 DEF Pushed, Value, Cell
        <3>2. Seg!BeginWrite(v)
            BY <1>2, <2>1 DEF SendStore, Pushed
        <3> HIDE DEF v
        <3>3. at' # 0 /\ UNCHANGED <<copies, committed>>
            BY <1>0, <3>1, <3>2, WriteBegins
        <3>4. State' = committed
            BY <1>2, <3>3 DEF State
        <3> QED
            BY <1>2, <3>3, <3>4, CurrentFacts DEF Current
    <2>2. CASE SendStoreFailed(n)
        BY <1>2, <2>2, CurrentFacts DEF SendStoreFailed, Current, State, seg
    <2> QED
        BY <2>1, <2>2
<1>5. Box' = Box
    <2>1. \A a \in Current.tree : data'[a] = data[a]
        BY <1>1, <1>2, <1>4 DEF Value
    <2> QED
        BY <1>4, <2>1, BoxFrame
<1>6. InHand(n)' = <<>>
    BY <1>1, <1>2, EmptyHandNext DEF Inv
<1>7. \A m \in Node \ {n} : InHand(m)' = InHand(m)
    BY <1>1, <1>3, HandsFrame DEF Critical
<1> QED
    BY <1>1, <1>5, <1>6, <1>7, LoseStep

(* The walk of Recv, before the state is written, changes no box. *)
LEMMA WalkStep ==
    ASSUME MaxTorn <= 1, Inv, Inv', NEW n \in Node, RecvWalk(n)
    PROVE  AbstractStep
<1>0. /\ Types /\ Segments /\ View(data, committed) /\ Filled(data, committed)
      /\ committed \in Value /\ Method(n) /\ Method(n)' /\ Prepared(n)'
    BY DEF Inv, Segments, ValuesOK
<1>1. pc[n] = "locked" /\ op[n].fn = "Recv" /\ UNCHANGED <<data, received>>
    BY DEF RecvWalk
<1>2. pc[n] \in Critical /\ at = 0 /\ State = committed
    BY <1>1, NoWrite DEF Critical
<1>3. InHand(n) = <<>>
    BY <1>0, <1>1, EmptyHand
<1>4. CASE Seg!BeginWrite(Popped(committed, n, List(committed, n))) /\ Goto(n, "write")
           /\ op' = [op EXCEPT ![n].batch = Messages(List(committed, n))]
    <2> DEFINE v == Popped(committed, n, List(committed, n))
    <2>1. v \in Value
        BY <1>0, ViewPop DEF List
    <2>2. at' # 0 /\ buf' = v /\ UNCHANGED <<copies, committed>>
        BY <1>0, <1>4, <2>1, WriteBegins
    <2>3. State' = committed
        BY <1>2, <2>2 DEF State
    <2>4. Current = committed /\ Current' = committed
        BY <1>2, <2>2, <2>3, CurrentFacts DEF Current
    <2>5. Box' = Box
        BY <1>1, <2>4, BoxFrame
    <2>6. \A m \in Node \ {n} : pc'[m] = pc[m] /\ op'[m] = op[m]
        BY <1>0, <1>4, OthersWait
    <2>7. op'[n].batch = Messages(List(committed, n))
        BY <1>0, <1>4 DEF Types, Op
    <2>8. InHand(n)' = <<>>
        <3>1. CASE v = committed
            <4>1. op'[n].batch = <<>>
                BY <2>7, <3>1, EmptyPop
            <4> QED
                BY <4>1 DEF InHand
        <3>2. CASE v # committed
            <4>1. State' # buf'
                BY <2>2, <2>3, <3>2
            <4>2. pc'[n] = "write"
                BY <1>0, <1>4, OthersWait
            <4> QED
                BY <4>1, <4>2 DEF InHand
        <3> QED
            BY <3>1, <3>2
    <2>9. \A m \in Node \ {n} : InHand(m)' = InHand(m)
        BY <1>2, <2>6, HandsFrame
    <2> QED
        BY <1>1, <2>5, <2>8, <2>9, LoseStep
<1>5. CASE Goto(n, "unlock") /\ UNCHANGED <<seg, op>>
    <2>1. Current' = Current
        BY <1>5 DEF seg, Current, State
    <2>2. Box' = Box
        BY <1>1, <2>1, BoxFrame
    <2>3. \A m \in Node \ {n} : pc'[m] = pc[m] /\ op'[m] = op[m]
        BY <1>0, <1>5, OthersWait
    <2>4. InHand(n)' = <<>>
        <3>1. op'[n].batch = <<>>
            BY <1>0, <1>1, <1>5 DEF Method
        <3> QED
            BY <3>1 DEF InHand
    <2>5. \A m \in Node \ {n} : InHand(m)' = InHand(m)
        BY <1>2, <2>3, HandsFrame
    <2> QED
        BY <1>1, <2>2, <2>4, <2>5, LoseStep
<1> QED
    BY <1>2, <1>4, <1>5 DEF RecvWalk, Popped

(* The box of a message that was sent. *)
LEMMA PushedBox ==
    ASSUME Inv, NEW n \in Node, pc[n] = "write", op[n].fn = "Send",
           Current = committed, data' = data, Current' = buf
    PROVE  /\ op[n].msg \in Message
           /\ Box' = [Box EXCEPT ![op[n].msg.to] = <<op[n].msg>> \o @]
<1>0. /\ Types /\ committed \in Value /\ View(data, committed) /\ Filled(data, committed)
      /\ Method(n) /\ Prepared(n)
    BY DEF Inv, Segments, ValuesOK
<1>1. PICK to \in Node, addr \in Addr :
         /\ op[n].msg \in Message /\ to = op[n].msg.to /\ addr \notin committed.tree
         /\ buf = Pushed(committed, to, addr)
         /\ data[addr].next = committed.heads[to] /\ data[addr].msg = op[n].msg
    BY <1>0 DEF Method, Prepared, Message
<1>2. \A m \in Node : Walk(data, buf.heads[m], buf.tree)
                        = IF m = to THEN <<addr>> \o Walk(data, committed.heads[m], committed.tree)
                          ELSE Walk(data, committed.heads[m], committed.tree)
    BY <1>0, <1>1, ViewPush
<1>3. \A m \in Node : List(Current, m)' = IF m = to THEN <<addr>> \o List(committed, m)
                                          ELSE List(committed, m)
    BY <1>2 DEF List
<1>4. \A m \in Node \ {to} : Messages(List(Current, m))' = Messages(List(Current, m))
    BY <1>3 DEF Messages
<1>5. Messages(List(Current, to))' = <<op[n].msg>> \o Messages(List(Current, to))
    <2> DEFINE list == List(committed, to)
               new == <<addr>> \o list
               k == Len(list) - 1
    <2>1. /\ list \in Seq(Cell) /\ list # <<>> /\ k \in Nat
          /\ Messages(list) \in Seq(Message) /\ Len(Messages(list)) = k
        BY <1>0, <1>1, MessagesType
    <2>2. List(Current, to)' = new
        BY <1>1, <1>3
    <2>3. Messages(List(Current, to))' = [i \in 1..(Len(new) - 1) |-> data[new[i]].msg]
        <3> HIDE DEF new
        <3> QED
            BY <2>2 DEF Messages
    <2>4. Messages(list) = [i \in 1..k |-> data[list[i]].msg]
        BY DEF Messages
    <2>5. addr \in Cell
        BY <1>1 DEF Cell
    <2> HIDE DEF list
    <2>6. Len(new) - 1 = k + 1 /\ new[1] = addr /\ \A i \in 2..(k + 1) : new[i] = list[i - 1]
        BY <2>1, <2>5
    <2> DEFINE both == <<op[n].msg>> \o Messages(list)
    <2>7. /\ both \in Seq(Message) /\ Len(both) = k + 1 /\ both[1] = op[n].msg
          /\ \A i \in 2..(k + 1) : both[i] = Messages(list)[i - 1]
        BY <1>1, <2>1
    <2>8. \A i \in 1..(k + 1) : both[i] = data[new[i]].msg
        <3> TAKE i \in 1..(k + 1)
        <3>1. CASE i = 1
            BY <1>1, <2>6, <2>7, <3>1
        <3>2. CASE i # 1
            <4>1. i - 1 \in 1..k /\ i \in 2..(k + 1)
                BY <2>1, <3>2
            <4>2. Messages(list)[i - 1] = data[list[i - 1]].msg
                BY <2>4, <4>1
            <4> QED
                BY <2>6, <2>7, <4>1, <4>2
        <3> QED
            BY <3>1, <3>2
    <2> HIDE DEF new, both, k
    <2>9. both = [i \in 1..(k + 1) |-> data[new[i]].msg]
        BY <2>7, <2>8
    <2> QED
        BY <2>3, <2>6, <2>9 DEF both, list
<1>6. Box' = [Box EXCEPT ![to] = <<op[n].msg>> \o @]
    <2>1. \A m \in Node : Box[m] = Messages(List(Current, m)) /\ Box'[m] = Messages(List(Current, m))'
        BY DEF Box
    <2>2. Box'[to] = <<op[n].msg>> \o Box[to] /\ \A m \in Node \ {to} : Box'[m] = Box[m]
        <3>1. Box[to] = Messages(List(Current, to)) /\ Box'[to] = Messages(List(Current, to))'
            BY <2>1
        <3>2. Box'[to] = <<op[n].msg>> \o Box[to]
            BY <1>5, <3>1, Zenon
        <3>3. \A m \in Node \ {to} : Box'[m] = Box[m]
            BY <1>4, <2>1
        <3> QED
            BY <3>2, <3>3
    <2>3. Box = [m \in Node |-> Box[m]] /\ Box' = [m \in Node |-> Box'[m]]
        BY DEF Box
    <2> QED
        BY <1>1, <2>2, <2>3
<1> QED
    BY <1>1, <1>6

(* The boxes after messages were collected. *)
LEMMA PoppedBox ==
    ASSUME Inv, NEW n \in Node, pc[n] = "write", op[n].fn = "Recv",
           Current = committed, data' = data, Current' = buf
    PROVE  /\ Box' = [Box EXCEPT ![n] = <<>>] /\ Box[n] = op[n].batch
<1>0. /\ Types /\ committed \in Value /\ View(data, committed)
      /\ buf = Popped(committed, n, List(committed, n)) /\ op[n].batch = Messages(List(committed, n))
    BY DEF Inv, Segments, ValuesOK, Prepared
<1>1. \A m \in Node : Walk(data, buf.heads[m], buf.tree)
                        = IF m = n THEN <<Nil>> ELSE Walk(data, committed.heads[m], committed.tree)
    BY <1>0, ViewPop DEF List
<1>2. \A m \in Node : List(Current, m)' = IF m = n THEN <<Nil>> ELSE List(committed, m)
    BY <1>1 DEF List
<1>3. \A m \in Node \ {n} : Messages(List(Current, m))' = Messages(List(Current, m))
    BY <1>2 DEF Messages
<1>4. Messages(List(Current, n))' = <<>>
    <2> DEFINE list == List(Current, n)'
    <2>1. list = <<Nil>>
        BY <1>2
    <2>2. Messages(List(Current, n))' = [i \in 1..(Len(list) - 1) |-> data[list[i]].msg]
        BY DEF Messages
    <2> HIDE DEF list
    <2>3. Len(list) = 1
        BY <2>1
    <2> QED
        BY <2>2, <2>3
<1> QED
    BY <1>0, <1>3, <1>4 DEF Box

(* The write of the state: at one instant the message is posted, or the    *)
(* box is emptied.                                                         *)
LEMMA WriteStep ==
    ASSUME MaxTorn <= 1, Inv, Inv', NEW n \in Node, WriteState(n)
    PROVE  AbstractStep
<1>0. Types /\ Segments /\ Method(n) /\ Prepared(n) /\ op[n].fn \in {"Send", "Recv"}
    <2>1. Types /\ Segments /\ Method(n) /\ Prepared(n)
        BY DEF Inv
    <2> QED
        BY <2>1 DEF WriteState, Method, Types, Op
<1>1. /\ pc[n] = "write" /\ UNCHANGED <<data, pc, op, received>>
      /\ (\E p \in {"heads", "tree"} : Seg!WritePart(p)) \/ Seg!NextCopy
    BY DEF WriteState
<1>2. /\ at # 0 /\ at' # 0 /\ UNCHANGED <<buf, committed>>
      /\ State = buf => State' = buf \/ buf = committed
    BY <1>0, <1>1, PartWritten, CopyWritten DEF State
<1>3. /\ Current = IF State = buf THEN buf ELSE committed
      /\ Current' = IF State' = buf THEN buf ELSE committed
    BY <1>2, CurrentFacts DEF Current
<1>4. \A m \in Node \ {n} : InHand(m)' = InHand(m)
    BY <1>1, HandsFrame DEF Critical
<1>5. CASE buf = committed
    <2>1. Box' = Box
        BY <1>1, <1>3, <1>5, BoxFrame
    <2>2. op[n].batch = <<>>
        BY <1>0, <1>1, <1>5, EmptyPop DEF Method, Prepared
    <2>3. InHand(n)' = <<>>
        BY <1>1, <2>2 DEF InHand
    <2> QED
        BY <1>1, <1>4, <2>1, <2>3, LoseStep
<1>6. CASE buf # committed /\ (State = buf <=> State' = buf)
    <2>1. Box' = Box
        BY <1>1, <1>3, <1>6, BoxFrame
    <2>2. InHand(n)' = InHand(n)
        BY <1>1, <1>2, <1>6 DEF InHand
    <2> QED
        BY <1>1, <1>4, <2>1, <2>2, StutterStep DEF AbstractStep
<1>7. CASE buf # committed /\ State # buf /\ State' = buf
    <2>0. Current = committed /\ Current' = buf
        BY <1>3, <1>7
    <2>1. CASE op[n].fn = "Send"
        <3>1. op[n].msg \in Message /\ Box' = [Box EXCEPT ![op[n].msg.to] = <<op[n].msg>> \o @]
            BY <1>1, <2>0, <2>1, PushedBox
        <3>2. InHand(n) = <<>> /\ InHand(n)' = <<>>
            BY <1>1, <2>1 DEF InHand
        <3>3. \A m \in Node : InHand(m)' = InHand(m)
            BY <1>4, <3>2
        <3>4. Hand' = Hand
            BY <3>3 DEF Hand
        <3>5. Abstract!Post(op[n].msg)
            BY <1>1, <3>1, <3>4 DEF Abstract!Post, Box, Hand
        <3> QED
            BY <3>1, <3>5 DEF AbstractStep, Abstract!Next
    <2>2. CASE op[n].fn = "Recv"
        <3>1. Box' = [Box EXCEPT ![n] = <<>>] /\ Box[n] = op[n].batch
            BY <1>1, <2>0, <2>2, PoppedBox
        <3>2. InHand(n) = <<>> /\ InHand(n)' = op[n].batch
            BY <1>1, <1>2, <1>7, <2>2 DEF InHand
        <3>3. Hand[n] = <<>> /\ Hand' = [Hand EXCEPT ![n] = Box[n]]
            BY <1>4, <3>1, <3>2 DEF Hand
        <3>4. CASE op[n].batch = <<>>
            <4>1. Box' = Box
                BY <3>1, <3>4 DEF Box
            <4> QED
                BY <1>1, <1>4, <3>2, <3>4, <4>1, StutterStep DEF AbstractStep
        <3>5. CASE op[n].batch # <<>>
            <4>1. Abstract!Collect(n)
                BY <1>1, <3>1, <3>3, <3>5 DEF Abstract!Collect, Box, Hand
            <4> QED
                BY <4>1 DEF AbstractStep, Abstract!Next
        <3> QED
            BY <3>4, <3>5
    <2> QED
        BY <1>0, <2>1, <2>2
<1> QED
    BY <1>2, <1>5, <1>6, <1>7

(* The end of the write changes no box and no hand. *)
LEMMA DoneStep ==
    ASSUME MaxTorn <= 1, Inv, Inv', NEW n \in Node, WriteDone(n)
    PROVE  AbstractStep
<1>0. Types /\ Segments
    BY DEF Inv
<1>1. /\ pc[n] = "write" /\ UNCHANGED <<data, op, received>> /\ Seg!EndWrite /\ Goto(n, "unlock")
    BY DEF WriteDone
<1>2. at # 0 /\ at' = 0 /\ State = buf /\ committed' = buf
    BY <1>0, <1>1, WriteEnds
<1>3. Current = buf /\ Current' = buf
    <2>1. Current = buf
        BY <1>2, CurrentFacts
    <2>2. State' = committed'
        BY <1>2, AtRest DEF Inv, Segments, ValuesOK, Undecided, State, Seg!ReadState,
           Vote!SegInv, Vote!Transactional, Vote!ReadState
    <2> QED
        BY <1>2, <2>1, <2>2 DEF Current
<1>4. Box' = Box
    BY <1>1, <1>3, BoxFrame
<1>5. pc'[n] = "unlock" /\ \A m \in Node \ {n} : pc'[m] = pc[m] /\ op'[m] = op[m]
    BY <1>0, <1>1, OthersWait
<1>6. InHand(n)' = InHand(n)
    BY <1>1, <1>2, <1>5 DEF InHand
<1>7. \A m \in Node \ {n} : InHand(m)' = InHand(m)
    BY <1>1, <1>5, HandsFrame DEF Critical
<1> QED
    BY <1>1, <1>4, <1>6, <1>7, StutterStep DEF AbstractStep

(* A write that is cut short changes no box. *)
LEMMA CutBox ==
    ASSUME MaxTorn <= 1, Inv, Inv', data' = data, Seg!Interrupt
    PROVE  Box' = Box
<1>1. at # 0 /\ at' = 0 /\ committed' = IF State = buf THEN buf ELSE committed
    BY WriteCut DEF Inv
<1>2. Current = committed'
    BY <1>1, CurrentFacts
<1>3. State' = committed'
    BY <1>1 DEF Inv, Segments, State, Seg!ReadState, Vote!SegInv, Vote!Transactional, Vote!ReadState
<1>4. Current' = Current
    BY <1>1, <1>2, <1>3 DEF Current
<1> QED
    BY <1>4, BoxFrame

(* An i/o error: what was collected is lost. *)
LEMMA FailedStep ==
    ASSUME MaxTorn <= 1, Inv, Inv', NEW n \in Node, WriteFailed(n)
    PROVE  AbstractStep
<1>0. Types /\ op[n] \in Op
    BY DEF Inv, Types
<1>1. /\ pc[n] = "write" /\ UNCHANGED <<data, received>> /\ Seg!Interrupt /\ Goto(n, "unlock")
      /\ op' = [op EXCEPT ![n].batch = <<>>]
    BY DEF WriteFailed
<1>2. Box' = Box
    BY <1>1, CutBox
<1>3. op' = op \/ \E o : op' = [op EXCEPT ![n] = o]
    BY <1>1
<1>4. pc'[n] = "unlock" /\ \A m \in Node \ {n} : pc'[m] = pc[m] /\ op'[m] = op[m]
    BY <1>0, <1>1, <1>3, OthersWait
<1>5. op'[n].batch = <<>>
    BY <1>0, <1>1 DEF Types, Op
<1>6. InHand(n)' = <<>>
    BY <1>5 DEF InHand
<1>7. \A m \in Node \ {n} : InHand(m)' = InHand(m)
    BY <1>1, <1>4, HandsFrame DEF Critical
<1> QED
    BY <1>1, <1>2, <1>6, <1>7, LoseStep

(* The end of a method hands over what it collected. *)
LEMMA UnlockStep ==
    ASSUME Inv, Inv', NEW n \in Node, Unlock(n)
    PROVE  AbstractStep
<1>0. Types /\ Method(n) /\ op[n] \in Op
    BY DEF Inv, Types
<1>1. /\ pc[n] = "unlock" /\ Quiet /\ Goto(n, "idle") /\ op' = [op EXCEPT ![n] = NoOp]
      /\ received' = [received EXCEPT ![n] = @ \o op[n].batch]
    BY DEF Unlock, Quiet, seg
<1>2. Box' = Box
    BY <1>1, BoxFrame DEF Quiet, Current, State
<1>3. pc'[n] = "idle" /\ \A m \in Node \ {n} : pc'[m] = pc[m] /\ op'[m] = op[m]
    BY <1>0, <1>1, OthersWait
<1>4. InHand(n) = op[n].batch /\ InHand(n)' = <<>>
    BY <1>0, <1>1, <1>3 DEF Method, InHand
<1>5. \A m \in Node \ {n} : InHand(m)' = InHand(m)
    BY <1>1, <1>3, HandsFrame DEF Critical
<1>6. CASE op[n].batch = <<>>
    <2>1. received[n] \o <<>> = received[n]
        BY <1>0 DEF Types
    <2>2. received' = received
        BY <1>0, <1>1, <1>6, <2>1 DEF Types
    <2> QED
        BY <1>2, <1>4, <1>5, <2>2, LoseStep
<1>7. CASE op[n].batch # <<>>
    <2>1. Hand[n] = op[n].batch /\ Hand' = [Hand EXCEPT ![n] = <<>>]
        BY <1>4, <1>5 DEF Hand
    <2>2. received' = [received EXCEPT ![n] = @ \o Hand[n]]
        BY <1>1, <2>1
    <2>3. Abstract!HandOver(n)
        BY <1>2, <1>7, <2>1, <2>2 DEF Abstract!HandOver, Box, Hand
    <2> QED
        BY <2>3 DEF AbstractStep, Abstract!Next
<1> QED
    BY <1>6, <1>7

(* A death changes no box; what was collected is lost. *)
LEMMA CrashStep ==
    ASSUME MaxTorn <= 1, Inv, Inv', NEW n \in Node, Crash(n)
    PROVE  AbstractStep
<1>0. Types
    BY DEF Inv
<1>1. /\ Goto(n, "idle") /\ op' = [op EXCEPT ![n] = NoOp] /\ received' = received
      /\ IF pc[n] = "write" THEN Seg!Interrupt ELSE UNCHANGED seg
      /\ data' \in IF pc[n] = "store" THEN {data, Stored(n)} ELSE {data}
    BY DEF Crash
<1>2. pc'[n] = "idle" /\ \A m \in Node \ {n} : pc'[m] = pc[m] /\ op'[m] = op[m]
    BY <1>0, <1>1, OthersWait
<1>3. Box' = Box
    <2>1. CASE pc[n] = "write"
        BY <1>1, <2>1, CutBox
    <2>2. CASE pc[n] # "write"
        <3>1. Current' = Current
            BY <1>1, <2>2 DEF seg, Current, State
        <3>2. ASSUME pc[n] = "store" PROVE \A a \in Current.tree : data'[a] = data[a]
            <4>1. /\ op[n].addr \notin committed.tree /\ at = 0 /\ committed \in Value
                  /\ \A a \in Addr : a # op[n].addr => Stored(n)[a] = data[a]
                BY <3>2, StoredFacts
            <4>2. Current = committed
                BY <4>1, CurrentFacts
            <4> QED
                BY <1>1, <4>1, <4>2 DEF Value
        <3>3. \A a \in Current.tree : data'[a] = data[a]
            BY <1>1, <3>2
        <3> QED
            BY <3>1, <3>3, BoxFrame
    <2> QED
        BY <2>1, <2>2
<1>4. InHand(n)' = <<>>
    BY <1>2 DEF InHand
<1>5. \A m \in Node \ {n} : InHand(m)' = InHand(m)
    <2>1. CASE pc[n] \in Critical
        BY <1>2, <2>1, HandsFrame
    <2>2. CASE pc[n] \notin Critical
        <3>1. Quiet
            BY <1>1, <2>2 DEF Quiet, seg, Critical
        <3> QED
            BY <1>2, <3>1, HandsFrame
    <2> QED
        BY <2>1, <2>2
<1> QED
    BY <1>1, <1>3, <1>4, <1>5, LoseStep

(* Every step is one of the post office, or none of its business. *)
LEMMA NextStep == ASSUME MaxTorn <= 1, Inv, Inv', [Next]_vars PROVE AbstractStep
<1>1. ASSUME NEW n \in Node, \E to \in Node \cup {Local}, long \in Long : Send(n, to, long)
      PROVE  AbstractStep
    BY <1>1, BeginStep
<1>2. ASSUME NEW n \in Node,
             \/ Recv(n) \/ Lock(n) \/ Proceed(n) \/ SendStoreFailed(n) \/ WriteFailed(n) \/ Crash(n)
      PROVE  AbstractStep
    BY <1>2, BeginStep, AllocStep, StoreStep, WalkStep, WriteStep, DoneStep, FailedStep, UnlockStep,
       CrashStep DEF Proceed
<1>3. CASE UNCHANGED vars
    <2>1. UNCHANGED <<copies, at, buf, committed, data, pc, op, received>>
        BY <1>3 DEF vars
    <2>2. Current' = Current /\ State' = State
        BY <2>1 DEF Current, State
    <2>3. Box' = Box
        BY <2>1, <2>2, BoxFrame
    <2>4. Hand' = Hand
        BY <2>1, <2>2 DEF Hand, InHand
    <2> QED
        BY <2>1, <2>3, <2>4 DEF AbstractStep
<1> QED
    BY <1>1, <1>2, <1>3 DEF Next

(* The file begins as an empty post office. *)
LEMMA InitStep == Init => Abstract!Init
<1> SUFFICES ASSUME Init PROVE Abstract!Init
    OBVIOUS
<1>0. Inv
    BY InitInv
<1>1. /\ at = 0 /\ committed = Formatted
      /\ pc = [n \in Node |-> "idle"] /\ received = [n \in Node |-> <<>>]
    BY DEF Init, Seg!SegInit
<1>2. Current = Formatted
    BY <1>0, <1>1, CurrentFacts
<1>3. ASSUME NEW n \in Node PROVE Messages(List(Current, n)) = <<>>
    <2>1. /\ Types /\ Formatted \in Value /\ View(data, Formatted) /\ Filled(data, Formatted)
        BY <1>0, <1>2, CurrentFacts DEF Inv
    <2> DEFINE list == List(Current, n)
    <2>2. \A i \in 1..(Len(list) - 1) : list[i] \in Formatted.tree
        BY <1>2, <2>1, MessagesType
    <2>3. Len(list) - 1 \in Nat /\ Messages(list) \in Seq(Message) /\ Len(Messages(list)) = Len(list) - 1
        BY <1>2, <2>1, MessagesType
    <2> HIDE DEF list
    <2>4. Formatted.tree = {}
        BY DEF Formatted
    <2>5. Len(list) - 1 = 0
        BY <2>2, <2>3, <2>4
    <2>6. \A q \in Seq(Message) : Len(q) = 0 => q = <<>>
        OBVIOUS
    <2>7. Messages(list) = <<>>
        BY <2>3, <2>5, <2>6
    <2> QED
        BY <2>7 DEF list
<1>4. ASSUME NEW n \in Node PROVE InHand(n) = <<>>
    BY <1>1 DEF InHand
<1> QED
    BY <1>1, <1>3, <1>4 DEF Abstract!Init

(* The invariant of the mailbox (mailbox.go:150-298). *)
THEOREM Invariance == ASSUME MaxTorn <= 1 PROVE Spec => []Inv
<1>1. Inv /\ [Next]_vars => Inv'
    BY NextInv
<1> QED
    BY <1>1, InitInv, PTL DEF Spec

(* "The previous active STATE will still have a consistent view of data"   *)
(* (mailbox.go:112-115).                                                   *)
THEOREM AlwaysConsistentView == ASSUME MaxTorn <= 1 PROVE Spec => []ConsistentView
<1>1. Inv => ConsistentView
    BY CurrentFacts, ViewIsConsistent DEF ConsistentView
<1> QED
    BY <1>1, Invariance, PTL

(* "Each transaction can only use free space from the DATA segment"        *)
(* (mailbox.go:112-113).                                                   *)
THEOREM LiveDataAlwaysUntouched == ASSUME MaxTorn <= 1 PROVE Spec => LiveDataUntouched
<1>1. Inv /\ [Next]_vars => [\A a \in Addr : data'[a] # data[a] => a \notin Current.tree]_vars
    BY UntouchedStep
<1> QED
    BY <1>1, Invariance, PTL DEF Spec, LiveDataUntouched

(* Send and Recv are atomic, through torn writes, i/o errors and deaths    *)
(* (mailbox.go:150-298, 374-404).                                          *)
THEOREM Refinement == ASSUME MaxTorn <= 1 PROVE Spec => ImplementsPostOffice
<1>1. Inv /\ Inv' /\ [Next]_vars => [Abstract!Next]_<<[n \in Node |-> Messages(List(Current, n))],
                                                      [n \in Node |-> InHand(n)], received>>
    BY NextStep DEF AbstractStep, Box, Hand
<1> QED
    BY <1>1, InitStep, Invariance, PTL DEF Spec, ImplementsPostOffice, Abstract!Spec
=============================================================================
