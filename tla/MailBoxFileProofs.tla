---------------------------- MODULE MailBoxFileProofs ----------------------------
(***************************************************************************)
(* Proofs about what the mailbox file is made of besides its messages.     *)
(* The allocation tree (BuddyAllocator), for a file of any size: it is     *)
(* exact after any calls, and implements BlockAllocator.  The format       *)
(* (MailBoxFormat), for any number of drivers and of changes: a formatted  *)
(* file can be used, after any number of deaths outside of a format, and   *)
(* what Send and Recv wrote outlives the start of a driver, as long as no  *)
(* second driver dies.                                                     *)
(***************************************************************************)
EXTENDS MailBoxFormat, BuddyAllocator, WellFoundedInduction, TLAPS

(* A nonempty set of numbers has a least one. *)
LEMMA LeastOf ==
    ASSUME NEW T \in SUBSET Nat, T # {}
    PROVE  \E x \in T : \A y \in T : x <= y
<1>1. PICK x \in T : \A y \in T : ~ (<<y, x>> \in OpToRel(<, Nat))
    BY NatLessThanWellFounded, WFMin
<1>2. \A y \in T : ~ (y < x)
    BY <1>1 DEF OpToRel
<1> QED
    BY <1>2

(* And one that is bounded a greatest. *)
LEMMA GreatestOf ==
    ASSUME NEW n \in Nat, NEW T \in SUBSET (0..n), T # {}
    PROVE  \E x \in T : \A y \in T : y <= x
<1> DEFINE U == {n - y : y \in T}
<1>1. U \in SUBSET Nat /\ U # {}
    <2>1. \A y \in T : n - y \in Nat
        OBVIOUS
    <2> QED
        BY <2>1
<1>2. PICK u \in U : \A v \in U : u <= v
    <2> HIDE DEF U
    <2> QED
        BY <1>1, LeastOf
<1>3. PICK x \in T : u = n - x
    BY <1>2
<1>4. ASSUME NEW y \in T PROVE y <= x
    <2>1. n - y \in U
        BY <1>4
    <2>2. n - x <= n - y
        BY <1>2, <1>3, <2>1
    <2> QED
        BY <2>2
<1> QED
    BY <1>3, <1>4

-----------------------------------------------------------------------------
(* Powers of two double. *)
LEMMA Pow2Facts ==
    /\ Pow2 \in [0..31 -> Nat]
    /\ Pow2[0] = 1
    /\ \A n \in 0..30 : Pow2[n + 1] = 2 * Pow2[n]
<1> DEFINE Eq(f, n) == f[n] = IF n = 0 THEN 1 ELSE 2 * f[n - 1]
           Upto(f, k) == f \in [0..31 -> Nat] /\ \A n \in 0..k : Eq(f, n)
           Bad == {k \in 0..31 : ~ \E f : Upto(f, k)}
<1>1. Bad = {}
    <2> SUFFICES ASSUME Bad # {} PROVE FALSE
        OBVIOUS
    <2>1. PICK k \in Bad : \A h \in Bad : k <= h
        <3>1. Bad \in SUBSET Nat
            OBVIOUS
        <3> HIDE DEF Bad
        <3> QED
            BY <3>1, LeastOf
    <2>2. k # 0
        <3>1. Upto([n \in 0..31 |-> 1], 0)
            OBVIOUS
        <3> QED
            BY <2>1, <3>1
    <2>3. k \in 1..31 /\ k - 1 \in 0..31 /\ k - 1 \notin Bad
        <3>1. k \in 0..31
            BY <2>1
        <3> HIDE DEF Bad
        <3> QED
            BY <2>1, <2>2, <3>1
    <2>4. PICK f : Upto(f, k - 1)
        BY <2>3
    <2> DEFINE g == [f EXCEPT ![k] = 2 * f[k - 1]]
    <2>5. g \in [0..31 -> Nat]
        BY <2>3, <2>4
    <2>6. ASSUME NEW n \in 0..k PROVE Eq(g, n)
        <3>1. CASE n = k
            BY <2>3, <2>4, <3>1
        <3>2. CASE n # k
            <4>1. n \in 0..(k - 1) /\ n \in 0..31 /\ g[n] = f[n] /\ (n # 0 => n - 1 \in 0..31 /\ g[n - 1] = f[n - 1])
                BY <2>3, <2>4, <3>2
            <4> QED
                BY <2>4, <4>1
        <3> QED
            BY <3>1, <3>2
    <2> QED
        BY <2>1, <2>5, <2>6
<1>2. PICK f : Upto(f, 31)
    <2>1. 31 \in 0..31 /\ 31 \notin Bad
        <3> HIDE DEF Bad
        <3> QED
            BY <1>1
    <2> HIDE DEF Upto
    <2> QED
        BY <2>1
<1> DEFINE Def(f_) == f_ = [n \in 0..31 |-> IF n = 0 THEN 1 ELSE 2 * f_[n - 1]]
<1>3. Def(f)
    BY <1>2
<1>4. Pow2 = CHOOSE f_ : Def(f_)
    BY DEF Pow2
<1>5. Def(Pow2)
    BY <1>3, <1>4
<1> DEFINE p == Pow2
<1> HIDE DEF p
<1>6. DOMAIN p = 0..31 /\ p[0] = 1 /\ \A n \in 1..31 : p[n] = 2 * p[n - 1]
    BY <1>5 DEF p
<1>7. ASSUME NEW n \in 0..30 PROVE p[n + 1] = 2 * p[n]
    <2>1. n + 1 \in 1..31 /\ (n + 1) - 1 = n
        OBVIOUS
    <2> QED
        BY <1>6, <2>1
<1>8. \A n \in 0..31 : p[n] \in Nat
    <2> DEFINE Odd == {n \in 0..31 : p[n] \notin Nat}
    <2> SUFFICES ASSUME Odd # {} PROVE FALSE
        OBVIOUS
    <2>1. PICK k \in Odd : \A h \in Odd : k <= h
        <3>1. Odd \in SUBSET Nat
            OBVIOUS
        <3> HIDE DEF Odd
        <3> QED
            BY <3>1, LeastOf
    <2>2. k # 0 /\ k \in 0..31
        BY <1>6, <2>1
    <2>3. k - 1 \in 0..31 /\ k - 1 \notin Odd
        <3> HIDE DEF Odd
        <3> QED
            BY <2>1, <2>2
    <2>4. p[k] = 2 * p[k - 1] /\ p[k - 1] \in Nat
        BY <1>6, <2>2, <2>3
    <2> QED
        BY <2>1, <2>4
<1>9. p \in [0..31 -> Nat]
    <2>1. p = [n \in 0..31 |-> p[n]]
        BY <1>5 DEF p
    <2> QED
        BY <1>8, <2>1
<1> QED
    BY <1>6, <1>7, <1>9 DEF p

(* They grow. *)
LEMMA Pow2Grows ==
    ASSUME NEW m \in 0..31, NEW n \in 0..31, m < n
    PROVE  Pow2[m] >= 1 /\ 2 * Pow2[m] <= Pow2[n]
<1>0. /\ \A i \in 0..31 : Pow2[i] \in Nat
      /\ \A i \in 0..30 : Pow2[i + 1] = 2 * Pow2[i]
    BY Pow2Facts
<1>1. \A i \in 0..31 : Pow2[i] >= 1
    <2> DEFINE Bad == {i \in 0..31 : ~(Pow2[i] >= 1)}
    <2> SUFFICES ASSUME Bad # {} PROVE FALSE
        OBVIOUS
    <2>1. PICK k \in Bad : \A h \in Bad : k <= h
        <3>1. Bad \in SUBSET Nat
            OBVIOUS
        <3> HIDE DEF Bad
        <3> QED
            BY <3>1, LeastOf
    <2>2. k # 0 /\ k \in 0..31
        BY <2>1, Pow2Facts
    <2>3. k - 1 \in 0..30 /\ k - 1 \notin Bad
        <3> HIDE DEF Bad
        <3> QED
            BY <2>1, <2>2
    <2>4. Pow2[(k - 1) + 1] = 2 * Pow2[k - 1] /\ (k - 1) + 1 = k /\ Pow2[k - 1] \in Nat
        BY <1>0, <2>2, <2>3
    <2> QED
        BY <2>1, <2>3, <2>4
<1>2. 2 * Pow2[m] <= Pow2[n]
    <2> DEFINE Bad == {i \in (m + 1)..31 : ~(2 * Pow2[m] <= Pow2[i])}
    <2> SUFFICES ASSUME Bad # {} PROVE FALSE
        OBVIOUS
    <2>1. PICK k \in Bad : \A h \in Bad : k <= h
        <3>1. Bad \in SUBSET Nat
            OBVIOUS
        <3> HIDE DEF Bad
        <3> QED
            BY <3>1, LeastOf
    <2>2. k # m + 1 /\ k \in (m + 1)..31
        BY <1>0, <2>1
    <2>3. k - 1 \in 0..30 /\ k - 1 \in (m + 1)..31 /\ k - 1 \notin Bad
        <3> HIDE DEF Bad
        <3> QED
            BY <2>1, <2>2
    <2>4. Pow2[(k - 1) + 1] = 2 * Pow2[k - 1] /\ (k - 1) + 1 = k /\ Pow2[k - 1] \in Nat
        BY <1>0, <2>2, <2>3
    <2> QED
        BY <1>0, <2>1, <2>3, <2>4
<1> QED
    BY <1>1, <1>2

(* The depth of the tree. *)
Exp == CHOOSE e \in 0..30 : Size = Pow2[e]

(* The file has that power of two of blocks. *)
LEMMA ExpFacts ==
    Exp \in 0..30 /\ Size = Pow2[Exp] /\ Size \in Nat /\ Size >= 1 /\ Pow2[Exp + 1] = 2 * Size
<1>1. Exp \in 0..30 /\ Size = Pow2[Exp]
    BY SizeAssumption DEF Exp
<1>2. Exp \in 0..31 /\ Exp + 1 \in 0..31 /\ Exp < Exp + 1
    BY <1>1
<1>3. Pow2[Exp] >= 1 /\ Pow2[Exp] \in Nat /\ Pow2[Exp + 1] = 2 * Pow2[Exp]
    BY <1>1, <1>2, Pow2Facts, Pow2Grows
<1> QED
    BY <1>1, <1>3

(* The level of a node is defined by its position. *)
LEMMA LevelFacts ==
    ASSUME NEW p \in Pos
    PROVE  Level[p] \in 0..Exp /\ Pow2[Level[p]] <= p + 1 /\ p + 1 < Pow2[Level[p] + 1]
<1>0. p \in Nat /\ p + 1 < 2 * Size
    BY ExpFacts DEF Pos
<1> DEFINE T == {l \in 0..30 : p + 1 < Pow2[l + 1]}
<1>1. T \in SUBSET Nat /\ Exp \in T
    BY <1>0, ExpFacts
<1>2. PICK l \in T : \A h \in T : l <= h
    <2> HIDE DEF T
    <2> QED
        BY <1>1, LeastOf
<1>3. l \in 0..30 /\ p + 1 < Pow2[l + 1]
    BY <1>2
<1>4. Pow2[l] <= p + 1
    <2>1. CASE l = 0
        BY <1>0, <2>1, Pow2Facts
    <2>2. CASE l # 0
        <3>1. l - 1 \in 0..30 /\ l - 1 \notin T /\ (l - 1) + 1 = l
            <4> HIDE DEF T
            <4> QED
                BY <1>2, <1>3, <2>2
        <3>2. Pow2[l] \in Nat
            BY <1>3, Pow2Facts
        <3> QED
            BY <1>0, <3>1, <3>2
    <2> QED
        BY <2>1, <2>2
<1>5. \E k \in 0..30 : Pow2[k] <= p + 1 /\ p + 1 < Pow2[k + 1]
    BY <1>3, <1>4
<1>6. Level[p] \in 0..30 /\ Pow2[Level[p]] <= p + 1 /\ p + 1 < Pow2[Level[p] + 1]
    BY <1>5 DEF Level
<1> DEFINE k == Level[p]
<1> HIDE DEF k
<1>7. k <= Exp
    <2> SUFFICES ASSUME k > Exp PROVE FALSE
        BY <1>6, ExpFacts DEF k
    <2>1. 2 * Pow2[Exp] <= Pow2[k]
        BY <1>6, ExpFacts, Pow2Grows DEF k
    <2>2. Pow2[k] \in Nat
        BY <1>6, Pow2Facts DEF k
    <2> QED
        BY <1>0, <1>6, <2>1, <2>2, ExpFacts DEF k
<1> QED
    BY <1>6, <1>7, ExpFacts DEF k

(* And it is the only one that fits the position. *)
LEMMA LevelIs ==
    ASSUME NEW p \in Pos, NEW l \in 0..30, Pow2[l] <= p + 1, p + 1 < 2 * Pow2[l]
    PROVE  Level[p] = l
<1> DEFINE k == Level[p]
<1>1. k \in 0..30 /\ Pow2[k] <= p + 1 /\ p + 1 < Pow2[k + 1] /\ Pow2[k + 1] = 2 * Pow2[k]
    BY LevelFacts, ExpFacts, Pow2Facts
<1>2. Pow2[k] \in Nat /\ Pow2[l] \in Nat /\ p \in Nat
    BY <1>1, Pow2Facts DEF Pos
<1> HIDE DEF k
<1>3. ~(k < l)
    <2> SUFFICES ASSUME k < l PROVE FALSE
        OBVIOUS
    <2>1. 2 * Pow2[k] <= Pow2[l]
        BY <1>1, Pow2Grows
    <2> QED
        BY <1>1, <1>2, <2>1
<1>4. ~(l < k)
    <2> SUFFICES ASSUME l < k PROVE FALSE
        OBVIOUS
    <2>1. 2 * Pow2[l] <= Pow2[k]
        BY <1>1, Pow2Grows
    <2> QED
        BY <1>1, <1>2, <2>1
<1>5. k = l
    BY <1>1, <1>3, <1>4
<1> QED
    BY <1>5 DEF k

(* Division without remainder. *)
LEMMA DivProduct ==
    ASSUME NEW a \in Nat, NEW b \in Nat, a >= 1
    PROVE  (a * b) \div a = b /\ (a * b) % a = 0
<1>1. a * b \in Nat /\ a * b = a * b + 0
    OBVIOUS
<1>2. (a * b) \div a = b
    BY <1>1
<1>3. (a * b) % a = 0
    BY <1>1
<1> QED
    BY <1>2, <1>3

(* The nodes of a level share the file. *)
LEMMA SizeIsProduct ==
    ASSUME NEW l \in 0..Exp
    PROVE  Size = Pow2[l] * Pow2[Exp - l]
<1> DEFINE Bad == {i \in 0..Exp : Size # Pow2[i] * Pow2[Exp - i]}
<1> SUFFICES ASSUME Bad # {} PROVE FALSE
    OBVIOUS
<1>1. PICK k \in Bad : \A h \in Bad : k <= h
    <2>1. Bad \in SUBSET Nat
        OBVIOUS
    <2> HIDE DEF Bad
    <2> QED
        BY <2>1, LeastOf
<1>2. k \in 0..Exp /\ k # 0
    <2>1. Exp - 0 = Exp /\ 1 * Pow2[Exp] = Pow2[Exp]
        BY ExpFacts
    <2> QED
        BY <1>1, <2>1, ExpFacts, Pow2Facts
<1>3. k - 1 \in 0..Exp /\ k - 1 \notin Bad
    <2> HIDE DEF Bad
    <2> QED
        BY <1>1, <1>2, ExpFacts
<1>4. Size = Pow2[k - 1] * Pow2[Exp - (k - 1)]
    BY <1>3
<1>5. /\ k - 1 \in 0..30 /\ (k - 1) + 1 = k
      /\ Exp - k \in 0..30 /\ (Exp - k) + 1 = Exp - (k - 1)
    BY <1>2, ExpFacts
<1> DEFINE a == Pow2[k - 1]
           b == Pow2[Exp - k]
<1>6. Pow2[k] = 2 * a /\ Pow2[Exp - (k - 1)] = 2 * b /\ a \in Nat /\ b \in Nat
    BY <1>5, Pow2Facts
<1> HIDE DEF a, b
<1>7. Size = a * (2 * b)
    BY <1>4, <1>6 DEF a
<1>8. a * (2 * b) = (2 * a) * b
    BY <1>6
<1>9. Size = Pow2[k] * Pow2[Exp - k]
    BY <1>6, <1>7, <1>8 DEF b
<1> QED
    BY <1>1, <1>9

(* So the size of a node is the power of two that its level leaves. *)
LEMMA SizeIsPower ==
    ASSUME NEW p \in Pos
    PROVE  SizeAt[p] = Pow2[Exp - Level[p]] /\ SizeAt[p] \in Nat /\ SizeAt[p] >= 1
<1> DEFINE l == Level[p]
<1>1. l \in 0..Exp /\ Exp - l \in 0..30 /\ l \in 0..30
    BY LevelFacts, ExpFacts
<1>2. Pow2[l] \in Nat /\ Pow2[Exp - l] \in Nat
    BY <1>1, Pow2Facts
<1>3. Pow2[l] >= 1 /\ Pow2[Exp - l] >= 1
    <2>1. \A i \in 0..30 : i \in 0..31 /\ 31 \in 0..31 /\ i < 31
        OBVIOUS
    <2> QED
        BY <1>1, <2>1, Pow2Grows
<1>4. SizeAt[p] = (Pow2[l] * Pow2[Exp - l]) \div Pow2[l]
    BY <1>1, SizeIsProduct DEF SizeAt
<1>5. SizeAt[p] = Pow2[Exp - l]
    BY <1>2, <1>3, <1>4, DivProduct
<1> QED
    BY <1>2, <1>3, <1>5

-----------------------------------------------------------------------------
Parent(pos) == (pos - 1) \div 2
Internal(pos) == InTree(Left(pos))

(* The positions are the numbers up to the last leaf. *)
LEMMA PosFacts ==
    /\ 2 * Size - 2 \in Nat /\ 0 \in Pos /\ Pos \subseteq Nat
    /\ \A p \in Pos : p <= 2 * Size - 2
    /\ \A p \in Nat : p <= 2 * Size - 2 => p \in Pos
    BY ExpFacts DEF Pos

(* Every node but the root is a child of its parent. *)
LEMMA ParentFacts ==
    ASSUME NEW p \in Pos, p # 0
    PROVE  /\ Parent(p) \in Pos /\ Parent(p) < p /\ Internal(Parent(p))
           /\ p = Left(Parent(p)) \/ p = Right(Parent(p))
    BY ExpFacts DEF Pos, Parent, Internal, InTree, Left, Right

(* The children of an inner node are in the tree, behind it. *)
LEMMA ChildPos ==
    ASSUME NEW p \in Pos, Internal(p)
    PROVE  /\ Left(p) \in Pos /\ Right(p) \in Pos /\ p < Left(p) /\ p < Right(p)
           /\ Left(p) # Right(p) /\ Left(p) # 0 /\ Right(p) # 0
           /\ Parent(Left(p)) = p /\ Parent(Right(p)) = p
    BY ExpFacts DEF Pos, Parent, Internal, InTree, Left, Right

(* The root is the whole file. *)
LEMMA RootFacts == Level[0] = 0 /\ SizeAt[0] = Size /\ Address[0] = 0
<1>1. Level[0] = 0
    <2>1. 0 \in Pos /\ 0 \in 0..30 /\ Pow2[0] <= 0 + 1 /\ 0 + 1 < 2 * Pow2[0]
        BY PosFacts, Pow2Facts
    <2> QED
        BY <2>1, LevelIs
<1>2. SizeAt[0] = Size
    BY <1>1, PosFacts, SizeIsPower, ExpFacts
<1>3. Address[0] = (0 - (1 - 1)) * Size
    BY <1>1, <1>2, PosFacts, Pow2Facts DEF Address
<1> QED
    BY <1>1, <1>2, <1>3, ExpFacts

(* Where a node is among those of its level, counted from the left. *)
Index(p) == p - (Pow2[Level[p]] - 1)

(* The address is a multiple of the size. *)
LEMMA AddressIs ==
    ASSUME NEW p \in Pos
    PROVE  Index(p) \in Nat /\ Address[p] = Index(p) * SizeAt[p] /\ Address[p] \in Nat
<1>1. Level[p] \in 0..31 /\ Pow2[Level[p]] <= p + 1
    BY LevelFacts, ExpFacts
<1>2. Pow2[Level[p]] \in Nat /\ p \in Nat
    BY <1>1, Pow2Facts, PosFacts
<1>3. Index(p) \in Nat
    BY <1>1, <1>2 DEF Index
<1>4. Address[p] = Index(p) * SizeAt[p]
    BY DEF Address, Index
<1> QED
    BY <1>3, <1>4, SizeIsPower

(* A node is a leaf where its size is one. *)
LEMMA LeafFacts ==
    ASSUME NEW p \in Pos
    PROVE  /\ Internal(p) <=> Level[p] < Exp
           /\ ~Internal(p) => SizeAt[p] = 1
<1> DEFINE l == Level[p]
<1>1. l \in 0..Exp /\ Pow2[l] <= p + 1 /\ p + 1 < Pow2[l + 1] /\ p \in Nat
    BY LevelFacts, PosFacts
<1>2. Pow2[l] \in Nat /\ Pow2[l + 1] \in Nat /\ Exp \in 0..30 /\ Size = Pow2[Exp] /\ Size \in Nat
    BY <1>1, ExpFacts, Pow2Facts
<1> HIDE DEF l
<1>3. Internal(p) <=> p + 1 < Size
    BY <1>1, <1>2 DEF Internal, InTree, Left, Pos
<1>4. l < Exp => p + 1 < Size
    <2> SUFFICES ASSUME l < Exp PROVE p + 1 < Size
        OBVIOUS
    <2>1. l + 1 = Exp \/ Pow2[l + 1] <= Pow2[Exp]
        <3>1. l + 1 = Exp \/ 2 * Pow2[l + 1] <= Pow2[Exp]
            BY <1>1, <1>2, Pow2Grows
        <3> QED
            BY <1>2, <3>1
    <2> QED
        BY <1>1, <1>2, <2>1
<1>5. p + 1 < Size => l < Exp
    BY <1>1, <1>2
<1>6. l = Exp => SizeAt[p] = 1
    <2> SUFFICES ASSUME l = Exp PROVE SizeAt[p] = 1
        OBVIOUS
    <2>1. Exp - l = 0
        BY <1>2
    <2> QED
        BY <2>1, SizeIsPower, Pow2Facts DEF l
<1> QED
    BY <1>1, <1>2, <1>3, <1>4, <1>5, <1>6 DEF l

(* The children halve the region of a node. *)
LEMMA ChildFacts ==
    ASSUME NEW p \in Pos, Internal(p), NEW c \in {Left(p), Right(p)}
    PROVE  /\ Level[c] = Level[p] + 1 /\ SizeAt[p] = 2 * SizeAt[c]
           /\ Address[c] = IF c = Left(p) THEN Address[p] ELSE Address[p] + SizeAt[c]
<1> DEFINE l == Level[p]
<1>1. l \in 0..Exp /\ Pow2[l] <= p + 1 /\ p + 1 < Pow2[l + 1] /\ p \in Nat /\ l < Exp
    BY LevelFacts, PosFacts, LeafFacts
<1>2. c \in Pos /\ Exp \in 0..30
    BY ChildPos, ExpFacts
<1>3. l \in 0..30 /\ l + 1 \in 0..30
    BY <1>1, <1>2
<1>4. Pow2[l + 1] = 2 * Pow2[l] /\ Pow2[l] \in Nat /\ Pow2[l + 1] \in Nat
    BY <1>3, Pow2Facts
<1>5. Level[c] = l + 1
    <2>1. Pow2[l + 1] <= c + 1 /\ c + 1 < 2 * Pow2[l + 1]
        <3> HIDE DEF l
        <3> QED
            BY <1>1, <1>4 DEF Left, Right
    <2> QED
        BY <1>2, <1>3, <2>1, LevelIs
<1> DEFINE h == SizeAt[c]
<1>6. SizeAt[p] = 2 * h /\ h \in Nat
    <2>1. Exp - (l + 1) \in 0..30 /\ (Exp - (l + 1)) + 1 = Exp - l
        BY <1>1, <1>2
    <2>2. SizeAt[p] = Pow2[Exp - l] /\ h = Pow2[Exp - (l + 1)] /\ h \in Nat
        <3>1. SizeAt[p] = Pow2[Exp - l]
            BY SizeIsPower
        <3>2. h = Pow2[Exp - Level[c]] /\ h \in Nat
            BY <1>2, SizeIsPower
        <3> HIDE DEF l, h
        <3> QED
            BY <1>5, <3>1, <3>2
    <2>3. Pow2[(Exp - (l + 1)) + 1] = 2 * Pow2[Exp - (l + 1)]
        BY <2>1, Pow2Facts
    <2> QED
        BY <2>1, <2>2, <2>3
<1> DEFINE x == Index(p)
<1>7. Index(c) = IF c = Left(p) THEN 2 * x ELSE 2 * x + 1
    <2>1. Index(c) = c - (2 * Pow2[l] - 1) /\ x = p - (Pow2[l] - 1)
        BY <1>4, <1>5 DEF Index
    <2>2. c = 2 * p + 1 \/ c = 2 * p + 2
        BY DEF Left, Right
    <2>3. c = Left(p) <=> c = 2 * p + 1
        BY DEF Left
    <2> HIDE DEF l, x
    <2> DEFINE a == Pow2[l]
    <2>4. a \in Nat /\ p \in Nat /\ Index(c) = c - (2 * a - 1) /\ x = p - (a - 1)
        BY <1>1, <1>4, <2>1
    <2> HIDE DEF a
    <2>5. CASE c = 2 * p + 1
        BY <2>3, <2>4, <2>5
    <2>6. CASE c = 2 * p + 2
        <3>1. c # Left(p)
            BY <2>3, <2>4, <2>6
        <3>2. Index(c) = 2 * x + 1
            BY <2>4, <2>6
        <3> QED
            BY <3>1, <3>2
    <2> QED
        BY <2>2, <2>5, <2>6
<1>8. x \in Nat /\ Address[p] = x * SizeAt[p] /\ Address[c] = Index(c) * h
    BY <1>2, AddressIs
<1> HIDE DEF x, h, l
<1>9. x * (2 * h) = (2 * x) * h /\ (2 * x + 1) * h = (2 * x) * h + h
    BY <1>6, <1>8
<1> QED
    BY <1>5, <1>6, <1>7, <1>8, <1>9 DEF h, l

-----------------------------------------------------------------------------
(* Two regions. *)
Disjoint(p, q) ==
    \/ Address[p] + SizeAt[p] <= Address[q]
    \/ Address[q] + SizeAt[q] <= Address[p]

(* What is computed for a node is a number. *)
LEMMA Numbers ==
    ASSUME NEW p \in Pos
    PROVE  Address[p] \in Nat /\ SizeAt[p] \in Nat /\ SizeAt[p] >= 1 /\ Level[p] \in Nat /\ p \in Nat
    BY AddressIs, SizeIsPower, LevelFacts, ExpFacts, PosFacts

(* A subtree, by its regions. *)
LEMMA UnderIs ==
    ASSUME NEW p \in Pos, NEW q \in Pos
    PROVE  q \in Under[p] <=> /\ Address[p] <= Address[q]
                             /\ Address[q] + SizeAt[q] <= Address[p] + SizeAt[p]
    BY DEF Under

(* A node is in its own subtree. *)
LEMMA UnderRefl == ASSUME NEW p \in Pos PROVE p \in Under[p] /\ Under[p] \subseteq Pos
<1>1. p \in Under[p]
    BY UnderIs, Numbers
<1> QED
    BY <1>1 DEF Under

(* The subtree of a node of a subtree is part of it. *)
LEMMA UnderTrans ==
    ASSUME NEW p \in Pos, NEW q \in Under[p], NEW r \in Under[q]
    PROVE  r \in Under[p]
<1>1. q \in Pos /\ r \in Pos
    BY UnderRefl
<1>2. /\ Address[p] \in Nat /\ SizeAt[p] \in Nat /\ Address[q] \in Nat /\ SizeAt[q] \in Nat
      /\ Address[r] \in Nat /\ SizeAt[r] \in Nat
    BY <1>1, Numbers
<1>3. /\ Address[p] <= Address[q] /\ Address[q] + SizeAt[q] <= Address[p] + SizeAt[p]
      /\ Address[q] <= Address[r] /\ Address[r] + SizeAt[r] <= Address[q] + SizeAt[q]
    BY <1>1, UnderIs
<1>4. Address[p] <= Address[r] /\ Address[r] + SizeAt[r] <= Address[p] + SizeAt[p]
    BY <1>2, <1>3
<1> QED
    BY <1>1, <1>4, UnderIs

(* The children are in the subtree. *)
LEMMA ChildUnder ==
    ASSUME NEW p \in Pos, Internal(p)
    PROVE  Left(p) \in Under[p] /\ Right(p) \in Under[p]
<1>1. Left(p) \in Pos /\ Right(p) \in Pos /\ Left(p) # Right(p)
    BY ChildPos
<1>2. /\ Address[p] \in Nat /\ SizeAt[p] \in Nat /\ SizeAt[Left(p)] \in Nat /\ SizeAt[Right(p)] \in Nat
    BY <1>1, Numbers
<1>3. /\ SizeAt[p] = 2 * SizeAt[Left(p)] /\ Address[Left(p)] = Address[p]
      /\ SizeAt[p] = 2 * SizeAt[Right(p)] /\ Address[Right(p)] = Address[p] + SizeAt[Right(p)]
    BY <1>1, ChildFacts
<1>4. /\ Address[p] <= Address[Left(p)] /\ Address[Left(p)] + SizeAt[Left(p)] <= Address[p] + SizeAt[p]
      /\ Address[p] <= Address[Right(p)] /\ Address[Right(p)] + SizeAt[Right(p)] <= Address[p] + SizeAt[p]
    BY <1>2, <1>3
<1> QED
    BY <1>1, <1>4, UnderIs

(* Regions of one level are disjoint. *)
LEMMA SameLevel ==
    ASSUME NEW p \in Pos, NEW q \in Pos, Level[p] = Level[q], p # q
    PROVE  Disjoint(p, q) /\ SizeAt[p] = SizeAt[q]
<1> DEFINE i == Index(p)
           j == Index(q)
           z == SizeAt[p]
<1>1. z = SizeAt[q] /\ z \in Nat
    BY SizeIsPower
<1>2. i \in Nat /\ j \in Nat /\ Address[p] = i * z /\ Address[q] = j * z
    BY <1>1, AddressIs
<1>3. i # j
    <2>0. Level[p] \in 0..31
        BY LevelFacts, ExpFacts
    <2>1. Pow2[Level[p]] \in Nat /\ p \in Nat /\ q \in Nat
        BY <2>0, Pow2Facts, PosFacts
    <2> QED
        BY <2>1 DEF Index
<1> HIDE DEF i, j, z
<1>4. CASE i < j
    <2>1. (i + 1) * z <= j * z /\ (i + 1) * z = i * z + z
        BY <1>1, <1>2, <1>4
    <2> QED
        BY <1>1, <1>2, <2>1 DEF Disjoint, z
<1>5. CASE j < i
    <2>1. (j + 1) * z <= i * z /\ (j + 1) * z = j * z + z
        BY <1>1, <1>2, <1>5
    <2> QED
        BY <1>1, <1>2, <2>1 DEF Disjoint, z
<1> QED
    BY <1>1, <1>2, <1>3, <1>4, <1>5 DEF z

(* A parent is one level up. *)
LEMMA ParentLevel ==
    ASSUME NEW q \in Pos, q # 0
    PROVE  Parent(q) \in Pos /\ q \in Under[Parent(q)] /\ Level[q] = Level[Parent(q)] + 1 /\ Parent(q) < q
<1>1. /\ Parent(q) \in Pos /\ Parent(q) < q /\ Internal(Parent(q))
      /\ q \in {Left(Parent(q)), Right(Parent(q))}
    BY ParentFacts
<1> QED
    BY <1>1, ChildUnder, ChildFacts

(* Regions are nested or disjoint: the first that is not would have a      *)
(* parent that is.                                                         *)
LEMMA Nested ==
    ASSUME NEW p \in Pos, NEW q \in Pos, Level[p] <= Level[q]
    PROVE  q \in Under[p] \/ Disjoint(p, q)
<1> DEFINE Good(r) == Level[p] <= Level[r] => r \in Under[p] \/ Disjoint(p, r)
           Bad == {r \in Pos : ~Good(r)}
<1> SUFFICES ASSUME Bad # {} PROVE FALSE
    OBVIOUS
<1>1. PICK r \in Bad : \A h \in Bad : r <= h
    <2>1. Bad \in SUBSET Nat
        BY PosFacts
    <2> HIDE DEF Bad
    <2> QED
        BY <2>1, LeastOf
<1>2. r \in Pos /\ Level[p] <= Level[r] /\ r \notin Under[p] /\ ~Disjoint(p, r)
    BY <1>1
<1>3. Level[p] # Level[r]
    BY <1>2, UnderRefl, SameLevel
<1>4. r # 0
    BY <1>2, <1>3, RootFacts, Numbers
<1> DEFINE u == Parent(r)
<1>5. u \in Pos /\ r \in Under[u] /\ Level[r] = Level[u] + 1 /\ u < r
    BY <1>2, <1>4, ParentLevel
<1> HIDE DEF u
<1>6. Level[p] <= Level[u] /\ u \notin Bad
    <2>1. Level[p] \in Nat /\ Level[u] \in Nat /\ Level[r] \in Nat /\ u \in Nat /\ r \in Nat
        BY <1>2, <1>5, Numbers
    <2> HIDE DEF Bad
    <2> QED
        BY <1>1, <1>2, <1>3, <1>5, <2>1
<1>7. u \in Under[p] \/ Disjoint(p, u)
    BY <1>5, <1>6
<1>8. CASE u \in Under[p]
    BY <1>2, <1>5, <1>8, UnderTrans
<1>9. CASE Disjoint(p, u)
    <2>1. /\ Address[p] \in Nat /\ SizeAt[p] \in Nat /\ Address[u] \in Nat /\ SizeAt[u] \in Nat
          /\ Address[r] \in Nat /\ SizeAt[r] \in Nat
        BY <1>2, <1>5, Numbers
    <2>2. Address[u] <= Address[r] /\ Address[r] + SizeAt[r] <= Address[u] + SizeAt[u]
        BY <1>2, <1>5, UnderIs
    <2>3. Disjoint(p, r)
        BY <1>9, <2>1, <2>2 DEF Disjoint
    <2> QED
        BY <1>2, <2>3
<1> QED
    BY <1>7, <1>8, <1>9

(* A node is not inside two regions that are disjoint. *)
LEMMA NotBoth ==
    ASSUME NEW p \in Pos, NEW q \in Pos, NEW r \in Pos, r \in Under[p], r \in Under[q]
    PROVE  ~Disjoint(p, q)
<1>1. /\ Address[p] \in Nat /\ SizeAt[p] \in Nat /\ Address[q] \in Nat /\ SizeAt[q] \in Nat
      /\ Address[r] \in Nat /\ SizeAt[r] \in Nat /\ SizeAt[r] >= 1
    BY Numbers
<1>2. /\ Address[p] <= Address[r] /\ Address[r] + SizeAt[r] <= Address[p] + SizeAt[p]
      /\ Address[q] <= Address[r] /\ Address[r] + SizeAt[r] <= Address[q] + SizeAt[q]
    BY UnderIs
<1> QED
    BY <1>1, <1>2 DEF Disjoint

(* What is strictly inside a node is further down and behind it. *)
LEMMA UnderBehind ==
    ASSUME NEW p \in Pos, NEW q \in Under[p], q # p
    PROVE  /\ q \in Pos /\ Level[p] < Level[q] /\ p < q /\ p \notin Under[q]
           /\ 2 * SizeAt[q] <= SizeAt[p]
<1>1. q \in Pos
    BY UnderRefl
<1>2. ASSUME NEW a \in Pos, NEW b \in Pos, Level[a] < Level[b]
      PROVE  2 * SizeAt[b] <= SizeAt[a] /\ a < b
    <2> DEFINE l == Level[a]
               m == Level[b]
    <2>1. /\ l \in 0..Exp /\ p \in Nat /\ a + 1 < Pow2[l + 1] /\ a \in Nat
          /\ m \in 0..Exp /\ Pow2[m] <= b + 1 /\ b \in Nat /\ Exp \in 0..30
        BY LevelFacts, PosFacts, ExpFacts
    <2>2. SizeAt[a] = Pow2[Exp - l] /\ SizeAt[b] = Pow2[Exp - m]
        BY SizeIsPower
    <2>3. l < m
        BY <1>2
    <2> HIDE DEF l, m
    <2>4. Exp - m \in 0..31 /\ Exp - l \in 0..31 /\ Exp - m < Exp - l
        BY <2>1, <2>3
    <2>5. 2 * Pow2[Exp - m] <= Pow2[Exp - l]
        BY <2>4, Pow2Grows
    <2>6. Pow2[l + 1] \in Nat /\ Pow2[m] \in Nat
        BY <2>1, Pow2Facts
    <2>7. l + 1 = m \/ 2 * Pow2[l + 1] <= Pow2[m]
        BY <2>1, <2>3, Pow2Grows
    <2>8. a < b
        BY <2>1, <2>6, <2>7
    <2> QED
        BY <2>2, <2>5, <2>8
<1>3. /\ SizeAt[p] \in Nat /\ SizeAt[q] \in Nat /\ SizeAt[p] >= 1 /\ SizeAt[q] >= 1 /\ Address[p] \in Nat
      /\ Address[q] \in Nat /\ Level[p] \in Nat /\ Level[q] \in Nat
    BY <1>1, Numbers
<1>4. Address[p] <= Address[q] /\ Address[q] + SizeAt[q] <= Address[p] + SizeAt[p]
    BY <1>1, UnderIs
<1>5. ~(Level[q] < Level[p])
    BY <1>1, <1>2, <1>3, <1>4
<1>6. Level[q] # Level[p]
    BY <1>1, SameLevel, NotBoth, UnderRefl
<1>7. Level[p] < Level[q]
    BY <1>3, <1>5, <1>6
<1>8. 2 * SizeAt[q] <= SizeAt[p] /\ p < q
    BY <1>1, <1>2, <1>7
<1>9. p \notin Under[q]
    BY <1>1, <1>3, <1>8, UnderIs
<1> QED
    BY <1>1, <1>7, <1>8, <1>9

(* So of two nodes one is inside the other, or they are disjoint. *)
LEMMA Trichotomy ==
    ASSUME NEW p \in Pos, NEW q \in Pos
    PROVE  q \in Under[p] \/ p \in Under[q] \/ Disjoint(p, q)
<1>1. Level[p] <= Level[q] \/ Level[q] <= Level[p]
    BY Numbers
<1>2. Disjoint(q, p) => Disjoint(p, q)
    BY DEF Disjoint
<1> QED
    BY <1>1, <1>2, Nested

(* It is inside one of the children. *)
LEMMA UnderChild ==
    ASSUME NEW p \in Pos, NEW q \in Under[p], q # p
    PROVE  /\ Internal(p)
           /\ q \in Under[Left(p)] \/ q \in Under[Right(p)]
           /\ ~(q \in Under[Left(p)] /\ q \in Under[Right(p)])
<1>1. q \in Pos /\ Level[p] < Level[q] /\ 2 * SizeAt[q] <= SizeAt[p]
    BY UnderBehind
<1>2. Internal(p)
    BY <1>1, LeafFacts, Numbers
<1>3. Left(p) \in Pos /\ Right(p) \in Pos /\ Left(p) # Right(p)
    BY <1>2, ChildPos
<1>4. /\ Level[Left(p)] = Level[p] + 1 /\ Level[Right(p)] = Level[p] + 1
      /\ SizeAt[p] = 2 * SizeAt[Left(p)] /\ Address[Left(p)] = Address[p]
      /\ SizeAt[p] = 2 * SizeAt[Right(p)] /\ Address[Right(p)] = Address[p] + SizeAt[Right(p)]
    BY <1>2, <1>3, ChildFacts
<1>5. /\ Address[p] \in Nat /\ SizeAt[p] \in Nat /\ Address[q] \in Nat /\ SizeAt[q] \in Nat /\ SizeAt[q] >= 1
      /\ SizeAt[Left(p)] \in Nat /\ SizeAt[Right(p)] \in Nat /\ Level[p] \in Nat /\ Level[q] \in Nat
    BY <1>1, <1>3, Numbers
<1>6. Address[p] <= Address[q] /\ Address[q] + SizeAt[q] <= Address[p] + SizeAt[p]
    BY <1>1, UnderIs
<1>7. /\ q \in Under[Left(p)] \/ Disjoint(Left(p), q)
      /\ q \in Under[Right(p)] \/ Disjoint(Right(p), q)
    BY <1>1, <1>3, <1>4, <1>5, Nested
<1>8. ~(Disjoint(Left(p), q) /\ Disjoint(Right(p), q))
    BY <1>4, <1>5, <1>6 DEF Disjoint
<1>9. Disjoint(Left(p), Right(p))
    BY <1>3, <1>4, SameLevel
<1>10. ~(q \in Under[Left(p)] /\ q \in Under[Right(p)])
    BY <1>1, <1>3, <1>9, NotBoth
<1> QED
    BY <1>2, <1>7, <1>8, <1>10

(* Its parent is inside the node too. *)
LEMMA UnderParent ==
    ASSUME NEW p \in Pos, NEW q \in Under[p], q # p
    PROVE  q # 0 /\ Parent(q) \in Pos /\ Parent(q) \in Under[p] /\ Parent(q) < q /\ q \in Under[Parent(q)]
<1>1. q \in Pos /\ Level[p] < Level[q] /\ p < q
    BY UnderBehind
<1>2. q # 0
    BY <1>1, PosFacts
<1>3. /\ Parent(q) \in Pos /\ q \in Under[Parent(q)] /\ Level[q] = Level[Parent(q)] + 1 /\ Parent(q) < q
    BY <1>1, <1>2, ParentLevel
<1>4. Level[p] <= Level[Parent(q)]
    BY <1>1, <1>3, Numbers
<1>5. Parent(q) \in Under[p]
    BY <1>1, <1>3, <1>4, Nested, NotBoth
<1> QED
    BY <1>2, <1>3, <1>5
-----------------------------------------------------------------------------
(* A walk down the tree: from every node where it does not stop it goes on *)
(* to a node behind.                                                       *)
Walks(f, stop, onward) == \A p \in Pos : f[p] = IF p \in stop THEN p ELSE f[onward[p]]

(* Such a walk ends: the recursive function that alloc and free compute is *)
(* defined, from the last node to the first.                               *)
LEMMA WalkExists ==
    ASSUME NEW stop \in SUBSET Pos, NEW onward \in [Pos -> Pos], \A p \in Pos \ stop : p < onward[p]
    PROVE  \E f \in [Pos -> Pos] : Walks(f, stop, onward)
<1> DEFINE N == 2 * Size - 1
           Eq(f, p) == f[p] = IF p \in stop THEN p ELSE f[onward[p]]
           From(f, k) == f \in [Pos -> Pos] /\ \A p \in Pos : p >= k => Eq(f, p)
           Bad == {k \in 0..N : ~ \E f : From(f, k)}
<1>0. N \in Nat /\ Pos \subseteq Nat /\ \A p \in Pos : p < N
    BY ExpFacts DEF Pos
<1>1. Bad = {}
    <2> SUFFICES ASSUME Bad # {} PROVE FALSE
        OBVIOUS
    <2>1. PICK k \in Bad : \A h \in Bad : h <= k
        <3>1. Bad \in SUBSET (0..N)
            OBVIOUS
        <3> HIDE DEF Bad, N
        <3> QED
            BY <1>0, <3>1, GreatestOf
    <2>2. k # N
        <3>1. From([p \in Pos |-> p], N)
            <4> HIDE DEF N
            <4> QED
                BY <1>0
        <3>2. ~ \E f : From(f, k)
            BY <2>1
        <3> HIDE DEF From
        <3> QED
            BY <3>1, <3>2
    <2>3. k \in 0..N /\ k + 1 \in 0..N /\ k + 1 \notin Bad
        <3>1. k \in 0..N
            BY <2>1
        <3> HIDE DEF Bad, N
        <3> QED
            BY <1>0, <2>1, <2>2, <3>1
    <2>4. PICK f : From(f, k + 1)
        BY <2>3
    <2>5. k \in Pos
        BY <2>2, <2>3, ExpFacts DEF Pos
    <2> DEFINE x == IF k \in stop THEN k ELSE f[onward[k]]
               g == [f EXCEPT ![k] = x]
    <2>6. x \in Pos /\ g \in [Pos -> Pos]
        BY <2>4, <2>5
    <2>7. ASSUME NEW p \in Pos, p >= k PROVE Eq(g, p)
        <3>1. p \in Nat /\ k \in Nat /\ onward[p] \in Pos /\ onward[p] \in Nat
            BY <1>0, <2>5
        <3>2. p \notin stop => g[onward[p]] = f[onward[p]]
            <4>1. p \notin stop => onward[p] # k
                BY <2>7, <3>1
            <4> QED
                BY <2>4, <3>1, <4>1
        <3>3. CASE p = k
            BY <2>4, <2>5, <3>2, <3>3
        <3>4. CASE p # k
            <4>1. g[p] = f[p] /\ p >= k + 1
                BY <2>4, <2>7, <3>1, <3>4
            <4> QED
                BY <2>4, <3>2, <4>1
        <3> QED
            BY <3>3, <3>4
    <2>8. From(g, k)
        BY <2>6, <2>7
    <2> QED
        BY <2>1, <2>8
<1>2. PICK f : From(f, 0)
    <2>1. 0 \in 0..N /\ 0 \notin Bad
        <3> HIDE DEF Bad
        <3> QED
            BY <1>0, <1>1
    <2> HIDE DEF From
    <2> QED
        BY <2>1
<1> QED
    BY <1>0, <1>2 DEF Walks

(* Such a walk stays in every set that its steps do not leave. *)
LEMMA WalkEnds ==
    ASSUME NEW stop \in SUBSET Pos, NEW onward \in [Pos -> Pos], \A p \in Pos \ stop : p < onward[p],
           NEW f, Walks(f, stop, onward),
           NEW Z \in SUBSET Pos, 0 \in Z, \A p \in Z : p \notin stop => onward[p] \in Z
    PROVE  f[0] \in Z /\ f[0] \in stop
<1> DEFINE Bad == {p \in Z : ~(f[p] \in Z /\ f[p] \in stop)}
<1> SUFFICES ASSUME Bad # {} PROVE FALSE
    OBVIOUS
<1>1. PICK k \in Bad : \A h \in Bad : h <= k
    <2>1. Bad \in SUBSET (0..(2 * Size - 2))
        BY DEF Pos
    <2> HIDE DEF Bad
    <2> QED
        BY <2>1, PosFacts, GreatestOf
<1>2. k \in Z /\ k \in Pos /\ ~(f[k] \in Z /\ f[k] \in stop)
    BY <1>1
<1>3. k \notin stop
    BY <1>2 DEF Walks
<1>4. onward[k] \in Z /\ k < onward[k] /\ f[k] = f[onward[k]] /\ onward[k] \in Nat /\ k \in Nat
    BY <1>2, <1>3, PosFacts DEF Walks
<1>5. onward[k] \notin Bad
    <2> HIDE DEF Bad
    <2> QED
        BY <1>1, <1>4
<1> QED
    BY <1>2, <1>4, <1>5

(* alloc's walk (allocator.go:108-127). *)
LEMMA AllocWalk ==
    ASSUME NEW t \in [Pos -> Int], NEW size \in Int,
           NEW Z \in SUBSET Pos, 0 \in Z,
           \A p \in Z : ~AllocStops(t, p, size) => AllocChild(t, p, size) \in Z
    PROVE  AllocNode(t, size) \in Z /\ AllocStops(t, AllocNode(t, size), size)
<1> DEFINE stop == {p \in Pos : AllocStops(t, p, size)}
           onward == [p \in Pos |-> IF p \in stop THEN p ELSE AllocChild(t, p, size)]
           Def(f) == f = [p \in Pos |-> IF AllocStops(t, p, size) THEN p ELSE f[AllocChild(t, p, size)]]
<1>1. ASSUME NEW p \in Pos, ~AllocStops(t, p, size)
      PROVE  AllocChild(t, p, size) \in Pos /\ p < AllocChild(t, p, size)
    <2>1. Internal(p)
        BY <1>1, ExpFacts DEF AllocStops, Internal, InTree, Left, Right, Pos
    <2> QED
        BY <2>1, ChildPos DEF AllocChild
<1>2. onward \in [Pos -> Pos] /\ stop \in SUBSET Pos /\ \A p \in Pos \ stop : p < onward[p]
    BY <1>1
<1>3. \E f \in [Pos -> Pos] : Walks(f, stop, onward)
    <2> HIDE DEF stop, onward
    <2> QED
        BY <1>2, WalkExists
<1>4. \E f : Def(f)
    <2>1. PICK f \in [Pos -> Pos] : Walks(f, stop, onward)
        BY <1>3
    <2>2. Def(f)
        BY <2>1 DEF Walks
    <2> HIDE DEF Def
    <2> QED
        BY <2>2
<1> DEFINE way == CHOOSE f : Def(f)
<1>5. Def(way)
    <2> HIDE DEF Def
    <2> QED
        BY <1>4
<1>6. AllocNode(t, size) = way[0]
    BY DEF AllocNode
<1> HIDE DEF way
<1>7. Walks(way, stop, onward)
    BY <1>5 DEF Walks
<1>8. way[0] \in Z /\ way[0] \in stop
    <2>1. \A p \in Z : p \notin stop => onward[p] \in Z
        OBVIOUS
    <2> HIDE DEF stop, onward
    <2> QED
        BY <1>2, <1>7, <2>1, WalkEnds
<1> QED
    BY <1>6, <1>8

(* free's walk (allocator.go:132-154). *)
LEMMA FreeWalk ==
    ASSUME NEW t \in [Pos -> Int], NEW addr \in Int,
           NEW Z \in SUBSET Pos, 0 \in Z,
           \A p \in Z : ~FreeStops(t, p) => FreeChild(p, addr) \in Z
    PROVE  FreeNode(t, addr) \in Z /\ FreeStops(t, FreeNode(t, addr))
<1> DEFINE stop == {p \in Pos : FreeStops(t, p)}
           onward == [p \in Pos |-> IF p \in stop THEN p ELSE FreeChild(p, addr)]
           Def(f) == f = [p \in Pos |-> IF FreeStops(t, p) THEN p ELSE f[FreeChild(p, addr)]]
<1>1. ASSUME NEW p \in Pos, ~FreeStops(t, p)
      PROVE  FreeChild(p, addr) \in Pos /\ p < FreeChild(p, addr)
    BY <1>1, ChildPos DEF FreeStops, FreeChild, Internal
<1>2. onward \in [Pos -> Pos] /\ stop \in SUBSET Pos /\ \A p \in Pos \ stop : p < onward[p]
    BY <1>1
<1>3. \E f \in [Pos -> Pos] : Walks(f, stop, onward)
    <2> HIDE DEF stop, onward
    <2> QED
        BY <1>2, WalkExists
<1>4. \E f : Def(f)
    <2>1. PICK f \in [Pos -> Pos] : Walks(f, stop, onward)
        BY <1>3
    <2>2. Def(f)
        BY <2>1 DEF Walks
    <2> HIDE DEF Def
    <2> QED
        BY <2>2
<1> DEFINE way == CHOOSE f : Def(f)
<1>5. Def(way)
    <2> HIDE DEF Def
    <2> QED
        BY <1>4
<1>6. FreeNode(t, addr) = way[0]
    BY DEF FreeNode
<1> HIDE DEF way
<1>7. Walks(way, stop, onward)
    BY <1>5 DEF Walks
<1>8. way[0] \in Z /\ way[0] \in stop
    <2>1. \A p \in Z : p \notin stop => onward[p] \in Z
        OBVIOUS
    <2> HIDE DEF stop, onward
    <2> QED
        BY <1>2, <1>7, <2>1, WalkEnds
<1> QED
    BY <1>6, <1>8

(* What the way back up writes at a node, given the tree it leaves. *)
Rewrite(new, t, pos, merge, p) ==
    IF p = pos THEN -t[p]
    ELSE IF pos \in Under[p] THEN Raise(new[Left(p)], new[Right(p)], p, merge)
    ELSE t[p]

(* A node above another has children. *)
LEMMA AboveIsInternal ==
    ASSUME NEW p \in Pos, NEW q \in Pos, q \in Under[p], q # p
    PROVE  Internal(p) /\ Left(p) \in Pos /\ Right(p) \in Pos /\ p < Left(p) /\ p < Right(p)
    BY UnderChild, ChildPos

(* It is defined from the last node to the first: a node above the target  *)
(* asks for its children, which are behind it.                             *)
LEMMA NegateIs ==
    ASSUME NEW t \in [Pos -> Int], NEW pos \in Pos, NEW merge \in BOOLEAN
    PROVE  /\ Negate(t, pos, merge) \in [Pos -> Int]
           /\ \A p \in Pos : Negate(t, pos, merge)[p] = Rewrite(Negate(t, pos, merge), t, pos, merge, p)
<1> DEFINE N == 2 * Size - 1
           From(f, k) == f \in [Pos -> Int] /\ \A p \in Pos : p >= k => f[p] = Rewrite(f, t, pos, merge, p)
           Bad == {k \in 0..N : ~ \E f : From(f, k)}
<1>0. N \in Nat /\ Pos \subseteq Nat /\ \A p \in Pos : p < N
    BY ExpFacts DEF Pos
<1>r. ASSUME NEW f \in [Pos -> Int], NEW p \in Pos PROVE Rewrite(f, t, pos, merge, p) \in Int
    <2>1. -t[p] \in Int /\ t[p] \in Int /\ SizeAt[p] \in Int
        BY Numbers
    <2>2. CASE pos \in Under[p] /\ p # pos
        <3>1. f[Left(p)] \in Int /\ f[Right(p)] \in Int
            BY <2>2, AboveIsInternal
        <3> QED
            BY <2>1, <2>2, <3>1 DEF Rewrite, Raise, Larger
    <2> QED
        BY <2>1, <2>2 DEF Rewrite
<1>1. Bad = {}
    <2> SUFFICES ASSUME Bad # {} PROVE FALSE
        OBVIOUS
    <2>1. PICK k \in Bad : \A h \in Bad : h <= k
        <3>1. Bad \in SUBSET (0..N)
            OBVIOUS
        <3> HIDE DEF Bad, N
        <3> QED
            BY <1>0, <3>1, GreatestOf
    <2>2. k # N
        <3>1. From([p \in Pos |-> 0], N)
            <4> HIDE DEF N
            <4> QED
                BY <1>0
        <3>2. ~ \E f : From(f, k)
            BY <2>1
        <3> HIDE DEF From
        <3> QED
            BY <3>1, <3>2
    <2>3. k \in 0..N /\ k + 1 \in 0..N /\ k + 1 \notin Bad
        <3>1. k \in 0..N
            BY <2>1
        <3> HIDE DEF Bad, N
        <3> QED
            BY <1>0, <2>1, <2>2, <3>1
    <2>4. PICK f : From(f, k + 1)
        BY <2>3
    <2>5. k \in Pos
        BY <2>2, <2>3, ExpFacts DEF Pos
    <2> DEFINE x == Rewrite(f, t, pos, merge, k)
               g == [f EXCEPT ![k] = x]
    <2>6. x \in Int /\ g \in [Pos -> Int]
        BY <1>r, <2>4, <2>5
    <2>7. ASSUME NEW p \in Pos, p >= k PROVE g[p] = Rewrite(g, t, pos, merge, p)
        <3>1. p \in Nat /\ k \in Nat
            BY <1>0, <2>5
        <3>2. Rewrite(g, t, pos, merge, p) = Rewrite(f, t, pos, merge, p)
            <4>1. CASE pos \in Under[p] /\ p # pos
                <5>1. Left(p) \in Pos /\ Right(p) \in Pos /\ p < Left(p) /\ p < Right(p)
                    BY <4>1, AboveIsInternal
                <5>2. Left(p) # k /\ Right(p) # k
                    BY <1>0, <2>7, <3>1, <5>1
                <5>3. g[Left(p)] = f[Left(p)] /\ g[Right(p)] = f[Right(p)]
                    BY <2>4, <5>1, <5>2
                <5> HIDE DEF g
                <5> QED
                    BY <5>3 DEF Rewrite
            <4> HIDE DEF g
            <4> QED
                BY <4>1 DEF Rewrite
        <3>3. CASE p = k
            <4>1. g[k] = x
                BY <2>4, <2>5
            <4> HIDE DEF g
            <4> QED
                BY <3>2, <3>3, <4>1
        <3>4. CASE p # k
            <4>1. g[p] = f[p] /\ p >= k + 1
                BY <2>4, <2>7, <3>1, <3>4
            <4> HIDE DEF g
            <4> QED
                BY <2>4, <3>2, <4>1
        <3> QED
            BY <3>3, <3>4
    <2>8. From(g, k)
        BY <2>6, <2>7
    <2> QED
        BY <2>1, <2>8
<1>2. PICK f : From(f, 0)
    <2>1. 0 \in 0..N /\ 0 \notin Bad
        <3> HIDE DEF Bad
        <3> QED
            BY <1>0, <1>1
    <2> HIDE DEF From
    <2> QED
        BY <2>1
<1> DEFINE Def(g) == g = [p \in Pos |-> Rewrite(g, t, pos, merge, p)]
<1>3. Def(f)
    <2>1. \A p \in Pos : p >= 0
        BY <1>0
    <2>2. f \in [Pos -> Int] /\ \A p \in Pos : f[p] = Rewrite(f, t, pos, merge, p)
        BY <1>2, <2>1
    <2> QED
        BY <2>2
<1>4. Negate(t, pos, merge) = CHOOSE g : Def(g)
    BY DEF Negate, Rewrite
<1>5. Def(Negate(t, pos, merge))
    <2> HIDE DEF Def
    <2> QED
        BY <1>3, <1>4
<1> DEFINE n == Negate(t, pos, merge)
<1>6. n = [p \in Pos |-> Rewrite(n, t, pos, merge, p)]
    BY <1>5
<1> HIDE DEF n
<1>7. \A p \in Pos : n[p] = Rewrite(n, t, pos, merge, p)
    BY <1>6
<1>8. \A p \in Pos : n[p] \in Int
    <2> DEFINE Odd == {p \in Pos : n[p] \notin Int}
    <2> SUFFICES ASSUME Odd # {} PROVE FALSE
        OBVIOUS
    <2>1. PICK k \in Odd : \A h \in Odd : h <= k
        <3>1. Odd \in SUBSET (0..(2 * Size - 2))
            BY DEF Pos
        <3> HIDE DEF Odd
        <3> QED
            BY <3>1, PosFacts, GreatestOf
    <2>2. k \in Pos /\ k \in Nat /\ n[k] \notin Int
        BY <1>0, <2>1
    <2>3. t[k] \in Int /\ -t[k] \in Int /\ SizeAt[k] \in Int
        BY <2>2, Numbers
    <2>4. CASE pos \in Under[k] /\ k # pos
        <3>1. Left(k) \in Pos /\ Right(k) \in Pos /\ k < Left(k) /\ k < Right(k)
            BY <2>2, <2>4, AboveIsInternal
        <3>2. ASSUME NEW c \in Pos, k < c PROVE c \notin Odd
            <4>1. c \in Nat
                BY <1>0
            <4> HIDE DEF Odd
            <4> QED
                BY <2>1, <2>2, <3>2, <4>1
        <3>3. n[Left(k)] \in Int /\ n[Right(k)] \in Int
            BY <3>1, <3>2
        <3>4. n[k] = Raise(n[Left(k)], n[Right(k)], k, merge)
            BY <1>7, <2>2, <2>4 DEF Rewrite
        <3>5. n[k] \in Int
            BY <2>3, <3>3, <3>4 DEF Raise, Larger
        <3> QED
            BY <2>2, <3>5
    <2>5. CASE ~(pos \in Under[k] /\ k # pos)
        <3>1. n[k] = -t[k] \/ n[k] = t[k]
            BY <1>7, <2>2, <2>5 DEF Rewrite
        <3> QED
            BY <2>2, <2>3, <3>1
    <2> QED
        BY <2>4, <2>5
<1>9. n \in [Pos -> Int]
    BY <1>6, <1>8
<1> QED
    BY <1>7, <1>9 DEF n

-----------------------------------------------------------------------------
(* What every call keeps, node by node: a leaf is free or handed out; an   *)
(* inner node is handed out or free as a whole, and then both its halves   *)
(* are whole, or it is broken: it has the larger of what its halves have,  *)
(* which are not both whole.                                               *)
Whole(t, p) == t[p] = SizeAt[p]
Taken(t, p) == t[p] = -SizeAt[p]
Halves(t, p) == Whole(t, Left(p)) /\ Whole(t, Right(p))
Broken(t, p) ==
    /\ t[p] = Larger(Larger(t[Left(p)], t[Right(p)]), 0)
    /\ t[Left(p)] + t[Right(p)] # SizeAt[p]

NodeIsConsistent(t, p) ==
    /\ t[p] <= SizeAt[p]
    /\ ~Internal(p) => Whole(t, p) \/ Taken(t, p)
    /\ Internal(p) => ((Whole(t, p) \/ Taken(t, p)) /\ Halves(t, p)) \/ Broken(t, p)

Consistent(t) == t \in [Pos -> Int] /\ \A p \in Pos : NodeIsConsistent(t, p)

(* The numbers around an inner node. *)
LEMMA AtNode ==
    ASSUME NEW t, Consistent(t), NEW p \in Pos, Internal(p)
    PROVE  /\ t[p] \in Int /\ t[Left(p)] \in Int /\ t[Right(p)] \in Int
           /\ SizeAt[Left(p)] \in Nat /\ SizeAt[Left(p)] >= 1
           /\ SizeAt[Right(p)] = SizeAt[Left(p)] /\ SizeAt[p] = 2 * SizeAt[Left(p)]
           /\ t[Left(p)] <= SizeAt[Left(p)] /\ t[Right(p)] <= SizeAt[Left(p)]
           /\ t[p] <= SizeAt[p]
<1>1. Left(p) \in Pos /\ Right(p) \in Pos
    BY ChildPos
<1>2. SizeAt[p] = 2 * SizeAt[Left(p)] /\ SizeAt[p] = 2 * SizeAt[Right(p)]
    BY ChildFacts
<1>3. SizeAt[Left(p)] \in Nat /\ SizeAt[Left(p)] >= 1 /\ SizeAt[Right(p)] \in Nat
    BY <1>1, Numbers
<1>4. SizeAt[Right(p)] = SizeAt[Left(p)]
    BY <1>2, <1>3
<1>5. t[p] \in Int /\ t[Left(p)] \in Int /\ t[Right(p)] \in Int
    BY <1>1 DEF Consistent
<1>6. t[p] <= SizeAt[p] /\ t[Left(p)] <= SizeAt[Left(p)] /\ t[Right(p)] <= SizeAt[Right(p)]
    BY <1>1 DEF Consistent, NodeIsConsistent
<1> QED
    BY <1>2, <1>3, <1>4, <1>5, <1>6

(* A broken node has at most half of its region, and is not negative. *)
LEMMA BrokenIsLess ==
    ASSUME NEW t, Consistent(t), NEW p \in Pos, Internal(p), Broken(t, p)
    PROVE  t[p] >= 0 /\ ~Whole(t, p) /\ ~Taken(t, p)
    BY AtNode DEF Broken, Larger, Whole, Taken

(* The halves of a node that is whole or handed out are whole. *)
LEMMA HalvesAreWhole ==
    ASSUME NEW t, Consistent(t), NEW p \in Pos, Internal(p), Whole(t, p) \/ Taken(t, p)
    PROVE  Halves(t, p)
    BY BrokenIsLess DEF Consistent, NodeIsConsistent

(* A negative node is handed out as a whole. *)
LEMMA NegativeIsTaken ==
    ASSUME NEW t, Consistent(t), NEW p \in Pos
    PROVE  t[p] < 0 <=> Taken(t, p)
<1>1. SizeAt[p] \in Nat /\ SizeAt[p] >= 1
    BY Numbers
<1>2. Whole(t, p) \/ Taken(t, p) \/ t[p] >= 0
    BY BrokenIsLess DEF Consistent, NodeIsConsistent
<1>3. t[p] \in Int
    BY DEF Consistent
<1> QED
    BY <1>1, <1>2, <1>3 DEF Whole, Taken

(* Below such a node everything is whole: the first that is not would have *)
(* a parent that is.                                                       *)
LEMMA BelowIsWhole ==
    ASSUME NEW t, Consistent(t), NEW p \in Pos, Whole(t, p) \/ Taken(t, p),
           NEW q \in Under[p], q # p
    PROVE  Whole(t, q)
<1> DEFINE Bad == {r \in Under[p] : r # p /\ ~Whole(t, r)}
<1> SUFFICES ASSUME Bad # {} PROVE FALSE
    OBVIOUS
<1>1. PICK r \in Bad : \A h \in Bad : r <= h
    <2>1. Bad \in SUBSET Nat
        BY PosFacts, UnderRefl
    <2> HIDE DEF Bad
    <2> QED
        BY <2>1, LeastOf
<1>2. r \in Under[p] /\ r \in Pos /\ r # p /\ ~Whole(t, r)
    BY <1>1, UnderRefl
<1> DEFINE u == Parent(r)
<1>3. r # 0 /\ u \in Pos /\ u \in Under[p] /\ u < r
    BY <1>2, UnderParent
<1>4. Internal(u) /\ (r = Left(u) \/ r = Right(u))
    BY <1>2, <1>3, ParentFacts
<1> HIDE DEF u
<1>5. u \notin Bad
    <2>1. u \in Nat /\ r \in Nat
        BY <1>2, <1>3, PosFacts
    <2> HIDE DEF Bad
    <2> QED
        BY <1>1, <1>3, <2>1
<1>6. Whole(t, u) \/ Taken(t, u)
    BY <1>3, <1>5
<1>7. Halves(t, u)
    BY <1>3, <1>4, <1>6, HalvesAreWhole
<1> QED
    BY <1>2, <1>4, <1>7 DEF Halves

(* Where no node is negative the whole region is free: the last node that  *)
(* is not would have halves that are.                                      *)
LEMMA ClearIsWhole ==
    ASSUME NEW t, Consistent(t), NEW p \in Pos, \A q \in Under[p] : t[q] >= 0
    PROVE  Whole(t, p)
<1> DEFINE Clear(r) == \A q \in Under[r] : t[q] >= 0
           Bad == {r \in Pos : Clear(r) /\ ~Whole(t, r)}
<1> SUFFICES ASSUME Bad # {} PROVE FALSE
    OBVIOUS
<1>1. PICK r \in Bad : \A h \in Bad : h <= r
    <2>1. Bad \in SUBSET (0..(2 * Size - 2))
        BY DEF Pos
    <2> HIDE DEF Bad
    <2> QED
        BY <2>1, PosFacts, GreatestOf
<1>2. r \in Pos /\ Clear(r) /\ ~Whole(t, r)
    BY <1>1
<1>3. ~Taken(t, r)
    <2>1. t[r] >= 0 /\ t[r] \in Int
        BY <1>2, UnderRefl DEF Consistent
    <2> QED
        BY <1>2, <2>1, NegativeIsTaken
<1>4. Internal(r) /\ Broken(t, r)
    BY <1>2, <1>3 DEF Consistent, NodeIsConsistent
<1>5. ASSUME NEW c \in {Left(r), Right(r)} PROVE Whole(t, c)
    <2>1. c \in Pos /\ r < c /\ c \in Under[r]
        BY <1>2, <1>4, ChildPos, ChildUnder
    <2>2. Clear(c)
        BY <1>2, <2>1, UnderTrans
    <2>3. c \notin Bad
        <3>1. c \in Nat /\ r \in Nat
            BY <1>2, <2>1, PosFacts
        <3> HIDE DEF Bad
        <3> QED
            BY <1>1, <2>1, <3>1
    <2> QED
        BY <2>1, <2>2, <2>3
<1>6. t[Left(r)] + t[Right(r)] = SizeAt[r]
    BY <1>2, <1>4, <1>5, AtNode DEF Whole
<1> QED
    BY <1>4, <1>6 DEF Broken

(* initialize leaves a tree that is whole (allocator.go:99-106). *)
LEMMA InitializedIsConsistent == Consistent(Initialized)
<1>1. SizeAt \in [Pos -> Int]
    BY Numbers DEF SizeAt
<1>2. ASSUME NEW p \in Pos PROVE NodeIsConsistent(SizeAt, p)
    <2>1. SizeAt[p] <= SizeAt[p]
        BY Numbers
    <2> QED
        BY <2>1 DEF NodeIsConsistent, Whole, Halves
<1> QED
    BY <1>1, <1>2 DEF Consistent, Initialized

(* The way back up keeps the tree consistent: alloc starts it at a node    *)
(* that is whole, and no node above is whole afterwards; free starts it at *)
(* one that is handed out, and joins two halves that are whole.            *)
LEMMA NegateKeeps ==
    ASSUME NEW t, Consistent(t), NEW pos \in Pos, NEW merge \in BOOLEAN,
           merge => Taken(t, pos), ~merge => Whole(t, pos)
    PROVE  Consistent(Negate(t, pos, merge))
<1> DEFINE n == Negate(t, pos, merge)
<1>1. n \in [Pos -> Int] /\ \A p \in Pos : n[p] = Rewrite(n, t, pos, merge, p)
    BY NegateIs DEF Consistent
<1> HIDE DEF n
<1>2. SizeAt[pos] \in Nat /\ SizeAt[pos] >= 1 /\ t[pos] \in Int
    BY Numbers DEF Consistent
<1>3. n[pos] = -t[pos] /\ (merge => Whole(n, pos)) /\ (~merge => Taken(n, pos))
    <2>1. n[pos] = -t[pos]
        BY <1>1 DEF Rewrite
    <2> QED
        BY <1>2, <2>1 DEF Whole, Taken
<1>4. ASSUME NEW p \in Pos, pos \in Under[p], p # pos
      PROVE  n[p] = Raise(n[Left(p)], n[Right(p)], p, merge)
    BY <1>1, <1>4 DEF Rewrite
<1>5. ASSUME NEW p \in Pos, pos \notin Under[p] PROVE n[p] = t[p]
    BY <1>1, <1>5, UnderRefl DEF Rewrite
<1> DEFINE Fits(p) == n[p] <= SizeAt[p] /\ (~merge /\ pos \in Under[p] => n[p] < SizeAt[p])
           Bad == {p \in Pos : ~Fits(p)}
<1>6. \A p \in Pos : Fits(p)
    <2> SUFFICES ASSUME Bad # {} PROVE FALSE
        OBVIOUS
    <2>1. PICK k \in Bad : \A h \in Bad : h <= k
        <3>1. Bad \in SUBSET (0..(2 * Size - 2))
            BY DEF Pos
        <3> HIDE DEF Bad
        <3> QED
            BY <3>1, PosFacts, GreatestOf
    <2>2. k \in Pos /\ ~Fits(k)
        BY <2>1
    <2>3. k # pos
        BY <1>2, <1>3, <2>2 DEF Whole, Taken
    <2>4. pos \in Under[k]
        <3> SUFFICES ASSUME pos \notin Under[k] PROVE FALSE
            OBVIOUS
        <3>1. n[k] = t[k] /\ t[k] <= SizeAt[k]
            BY <1>5, <2>2 DEF Consistent, NodeIsConsistent
        <3> QED
            BY <2>2, <3>1
    <2>5. Internal(k) /\ Left(k) \in Pos /\ Right(k) \in Pos /\ k < Left(k) /\ k < Right(k)
        BY <2>2, <2>3, <2>4, AboveIsInternal
    <2>6. ASSUME NEW c \in Pos, k < c PROVE Fits(c)
        <3>1. c \in Nat /\ k \in Nat
            BY <2>2, PosFacts
        <3>2. c \notin Bad
            <4> HIDE DEF Bad
            <4> QED
                BY <2>1, <2>6, <3>1
        <3> QED
            BY <3>2
    <2>7. n[Left(k)] <= SizeAt[Left(k)] /\ n[Right(k)] <= SizeAt[Right(k)]
        BY <2>5, <2>6
    <2>8. /\ SizeAt[Right(k)] = SizeAt[Left(k)] /\ SizeAt[k] = 2 * SizeAt[Left(k)]
          /\ SizeAt[Left(k)] \in Nat /\ SizeAt[Left(k)] >= 1
        BY <2>2, <2>5, AtNode
    <2>9. n[Left(k)] \in Int /\ n[Right(k)] \in Int
        BY <1>1, <2>5
    <2>10. n[k] = Raise(n[Left(k)], n[Right(k)], k, merge)
        BY <1>4, <2>2, <2>3, <2>4
    <2>11. n[k] <= SizeAt[k] /\ (~merge => n[k] < SizeAt[k])
        BY <2>7, <2>8, <2>9, <2>10 DEF Raise, Larger
    <2> QED
        BY <2>2, <2>11
<1>7. ASSUME NEW p \in Pos PROVE NodeIsConsistent(n, p)
    <2>0. n[p] <= SizeAt[p]
        BY <1>6
    <2>1. CASE p = pos
        <3>1. Internal(p) => Halves(n, p)
            <4> SUFFICES ASSUME Internal(p) PROVE Halves(n, p)
                OBVIOUS
            <4>1. Halves(t, p)
                BY <2>1, HalvesAreWhole
            <4>2. ASSUME NEW c \in {Left(p), Right(p)} PROVE n[c] = t[c]
                <5>1. c \in Pos /\ c \in Under[p] /\ c # p
                    BY ChildPos, ChildUnder, PosFacts
                <5>2. p \notin Under[c]
                    BY <5>1, UnderBehind
                <5> QED
                    BY <1>5, <2>1, <5>1, <5>2
            <4> QED
                BY <4>1, <4>2 DEF Halves, Whole
        <3>2. Whole(n, p) \/ Taken(n, p)
            BY <1>3, <2>1
        <3> QED
            BY <2>0, <3>1, <3>2 DEF NodeIsConsistent
    <2>2. CASE pos \in Under[p] /\ p # pos
        <3>1. Internal(p) /\ Left(p) \in Pos /\ Right(p) \in Pos
            BY <2>2, AboveIsInternal
        <3>2. /\ SizeAt[Right(p)] = SizeAt[Left(p)] /\ SizeAt[p] = 2 * SizeAt[Left(p)]
              /\ SizeAt[Left(p)] \in Nat /\ SizeAt[Left(p)] >= 1
            BY <3>1, AtNode
        <3>3. n[Left(p)] \in Int /\ n[Right(p)] \in Int /\ Fits(Left(p)) /\ Fits(Right(p))
            BY <1>1, <1>6, <3>1
        <3>4. n[p] = Raise(n[Left(p)], n[Right(p)], p, merge)
            BY <1>4, <2>2
        <3>5. pos \in Under[Left(p)] \/ pos \in Under[Right(p)]
            BY <2>2, UnderChild
        <3>6. CASE n[Left(p)] + n[Right(p)] = SizeAt[p]
            <4>1. merge
                BY <3>2, <3>3, <3>5, <3>6
            <4>2. n[p] = SizeAt[p]
                BY <3>4, <3>6, <4>1 DEF Raise
            <4>3. n[Left(p)] = SizeAt[Left(p)] /\ n[Right(p)] = SizeAt[Right(p)]
                BY <3>2, <3>3, <3>6
            <4> QED
                BY <2>0, <3>1, <4>2, <4>3 DEF NodeIsConsistent, Whole, Halves
        <3>7. CASE n[Left(p)] + n[Right(p)] # SizeAt[p]
            <4>1. n[p] = Larger(Larger(n[Left(p)], n[Right(p)]), 0)
                BY <3>4, <3>7 DEF Raise
            <4> QED
                BY <2>0, <3>1, <3>7, <4>1 DEF NodeIsConsistent, Broken
        <3> QED
            BY <3>6, <3>7
    <2>3. CASE pos \notin Under[p]
        <3>1. n[p] = t[p]
            BY <1>5, <2>3
        <3>2. ASSUME Internal(p), NEW c \in {Left(p), Right(p)} PROVE n[c] = t[c]
            <4>1. c \in Pos /\ c \in Under[p]
                BY <3>2, ChildPos, ChildUnder
            <4>2. pos \notin Under[c]
                BY <2>3, <4>1, UnderTrans
            <4> QED
                BY <1>5, <4>1, <4>2
        <3>3. NodeIsConsistent(t, p)
            BY DEF Consistent
        <3>4. Internal(p) => n[Left(p)] = t[Left(p)] /\ n[Right(p)] = t[Right(p)]
            BY <3>2
        <3> QED
            BY <3>1, <3>3, <3>4 DEF NodeIsConsistent, Whole, Taken, Halves, Broken
    <2> QED
        BY <2>1, <2>2, <2>3
<1> QED
    BY <1>1, <1>7 DEF Consistent, n

(* Every node above offers enough, and leads there. *)
OnTheWay(t, p, size) ==
    \A a \in Pos : p \in Under[a] /\ a # p =>
        t[a] >= size /\ ~AllocStops(t, a, size) /\ p \in Under[AllocChild(t, a, size)]

(* alloc stops at a whole node, the first on its way whose halves are too  *)
(* small.                                                                  *)
LEMMA AllocFinds ==
    ASSUME NEW t, Consistent(t), NEW size \in Int, size > 0, t[0] >= size
    PROVE  LET T == AllocNode(t, size)
           IN  /\ T \in Pos /\ t[T] >= size /\ AllocStops(t, T, size)
               /\ OnTheWay(t, T, size) /\ Whole(t, T)
<1> DEFINE Z == {p \in Pos : t[p] >= size /\ OnTheWay(t, p, size)}
           T == AllocNode(t, size)
<1>0. t \in [Pos -> Int]
    BY DEF Consistent
<1>1. 0 \in Z
    <2>1. ASSUME NEW a \in Pos, 0 \in Under[a], a # 0 PROVE FALSE
        BY <2>1, UnderBehind, PosFacts
    <2> QED
        BY <2>1, PosFacts DEF OnTheWay
<1>2. ASSUME NEW p \in Z, ~AllocStops(t, p, size) PROVE AllocChild(t, p, size) \in Z
    <2> DEFINE c == AllocChild(t, p, size)
    <2>1. p \in Pos /\ t[p] >= size /\ OnTheWay(t, p, size)
        OBVIOUS
    <2>2. Internal(p)
        BY <1>2, <2>1, ExpFacts DEF AllocStops, Internal, InTree, Left, Right, Pos
    <2>3. c \in Pos /\ c \in {Left(p), Right(p)} /\ c # p /\ c # 0 /\ c \in Under[p]
        BY <2>1, <2>2, ChildPos, ChildUnder, PosFacts DEF AllocChild
    <2>4. t[c] >= size
        BY <1>0, <1>2, <2>1, <2>2, ChildPos DEF AllocStops, AllocChild
    <2>5. ASSUME NEW a \in Pos, c \in Under[a], a # c
          PROVE  t[a] >= size /\ ~AllocStops(t, a, size) /\ c \in Under[AllocChild(t, a, size)]
        <3>1. Parent(c) = p
            BY <2>1, <2>2, <2>3, ChildPos
        <3>2. p \in Under[a]
            BY <2>3, <2>5, <3>1, UnderParent
        <3>3. CASE a = p
            BY <1>2, <2>1, <2>3, <3>3, UnderRefl
        <3>4. CASE a # p
            <4>1. t[a] >= size /\ ~AllocStops(t, a, size) /\ p \in Under[AllocChild(t, a, size)]
                BY <2>1, <3>2, <3>4 DEF OnTheWay
            <4>2. Internal(a)
                BY <4>1, ExpFacts DEF AllocStops, Internal, InTree, Left, Right, Pos
            <4>3. AllocChild(t, a, size) \in Pos
                BY <4>2, ChildPos DEF AllocChild
            <4> QED
                BY <2>3, <4>1, <4>3, UnderTrans
        <3> QED
            BY <3>3, <3>4
    <2> HIDE DEF c
    <2>6. c \in Z
        BY <2>3, <2>4, <2>5 DEF OnTheWay
    <2> QED
        BY <2>6 DEF c
<1>3. T \in Z /\ AllocStops(t, T, size)
    <2>1. Z \in SUBSET Pos
        OBVIOUS
    <2> HIDE DEF Z
    <2> QED
        BY <1>0, <1>1, <1>2, <2>1, AllocWalk
<1>4. T \in Pos /\ t[T] >= size /\ OnTheWay(t, T, size)
    BY <1>3
<1> HIDE DEF T
<1>5. Whole(t, T)
    <2>1. ~Taken(t, T)
        <3>1. t[T] \in Int
            BY <1>0, <1>4
        <3> QED
            BY <1>4, <3>1, NegativeIsTaken
    <2>2. ASSUME Internal(T), Broken(t, T) PROVE FALSE
        <3>1. t[T] \in Int /\ t[Left(T)] \in Int /\ t[Right(T)] \in Int
            BY <1>4, <2>2, AtNode
        <3>2. t[Left(T)] < size /\ t[Right(T)] < size
            BY <1>3, <1>4, <2>2, <3>1, ChildPos DEF AllocStops, InTree
        <3> QED
            BY <1>4, <2>2, <3>1, <3>2 DEF Broken, Larger
    <2> QED
        BY <1>4, <2>1, <2>2 DEF Consistent, NodeIsConsistent
<1> QED
    BY <1>3, <1>4, <1>5 DEF T

(* free starts its way back up at the node it has found. *)
LEMMA FreeFinds ==
    ASSUME NEW t, Consistent(t), NEW addr \in Int
    PROVE  FreeNode(t, addr) \in Pos
<1>0. t \in [Pos -> Int]
    BY DEF Consistent
<1>1. ASSUME NEW p \in Pos, ~FreeStops(t, p) PROVE FreeChild(p, addr) \in Pos
    BY <1>1, ChildPos DEF FreeStops, FreeChild, Internal
<1> QED
    BY <1>0, <1>1, PosFacts, FreeWalk

(* Every call keeps the tree consistent. *)
LEMMA StepKeeps ==
    ASSUME Consistent(nodes), [TreeNext]_<<nodes, last>>
    PROVE  Consistent(nodes')
<1>0. nodes \in [Pos -> Int]
    BY DEF Consistent
<1>1. ASSUME NEW size \in 0..(Size + 1), Alloc(size) PROVE Consistent(nodes')
    <2>0. size \in Int
        BY ExpFacts
    <2>1. CASE CanAlloc(size)
        <3> DEFINE T == AllocNode(nodes, size)
        <3>1. T \in Pos /\ Whole(nodes, T)
            BY <2>0, <2>1, AllocFinds DEF CanAlloc
        <3>2. nodes' = Negate(nodes, T, FALSE)
            BY <1>1, <2>1 DEF Alloc
        <3>3. Consistent(Negate(nodes, T, FALSE))
            BY <3>1, NegateKeeps
        <3> QED
            BY <3>2, <3>3
    <2>2. CASE ~CanAlloc(size)
        BY <1>1, <2>2 DEF Alloc
    <2> QED
        BY <2>1, <2>2
<1>2. ASSUME NEW addr \in 0..Size, Free(addr) PROVE Consistent(nodes')
    <2>0. addr \in Int
        BY ExpFacts
    <2> DEFINE F == FreeNode(nodes, addr)
    <2>1. CASE CanFree(F, addr)
        <3>1. F \in Pos
            BY <2>0, FreeFinds
        <3>2. Taken(nodes, F)
            BY <2>1, <3>1, NegativeIsTaken DEF CanFree
        <3>3. nodes' = Negate(nodes, F, TRUE)
            BY <1>2, <2>1 DEF Free
        <3>4. Consistent(Negate(nodes, F, TRUE))
            BY <3>1, <3>2, NegateKeeps
        <3> QED
            BY <3>3, <3>4
    <2>2. CASE ~CanFree(F, addr)
        BY <1>2, <2>2 DEF Free
    <2> QED
        BY <2>1, <2>2
<1> QED
    BY <1>1, <1>2 DEF TreeNext

(* The inductive invariant of the allocator. *)
TreeInv == Consistent(nodes)

(* The tree stays consistent whatever is allocated and freed, and in       *)
(* whatever order (allocator.go:99-165).                                   *)
THEOREM TreeStaysConsistent == TreeSpec => []TreeInv
<1>1. TreeInit => TreeInv
    BY InitializedIsConsistent DEF TreeInit, TreeInv
<1>2. TreeInv /\ [TreeNext]_<<nodes, last>> => TreeInv'
    BY StepKeeps DEF TreeInv
<1> QED
    BY <1>1, <1>2, PTL DEF TreeSpec

-----------------------------------------------------------------------------
(* A node above one that is not inside an allocated node is not either.    *)
LEMMA UncoveredAbove ==
    ASSUME NEW p \in Pos, NEW q \in Under[p], ~Covered(q)
    PROVE  ~Covered(p)
<1> SUFFICES ASSUME Covered(p) PROVE FALSE
    OBVIOUS
<1>1. PICK a \in Pos : a # p /\ p \in Under[a] /\ nodes[a] < 0
    BY DEF Covered
<1>2. q \in Under[a] /\ q # a
    BY <1>1, UnderTrans, UnderBehind
<1> QED
    BY <1>1, <1>2 DEF Covered

(* And neither are the halves of a node that is not allocated. *)
LEMMA UncoveredHalf ==
    ASSUME NEW p \in Pos, Internal(p), ~Covered(p), nodes[p] >= 0, nodes[p] \in Int,
           NEW c \in {Left(p), Right(p)}
    PROVE  ~Covered(c)
<1> SUFFICES ASSUME Covered(c) PROVE FALSE
    OBVIOUS
<1>1. PICK a \in Pos : a # c /\ c \in Under[a] /\ nodes[a] < 0
    BY DEF Covered
<1>2. Parent(c) = p
    BY ChildPos
<1>3. p \in Under[a]
    BY <1>1, <1>2, UnderParent
<1>4. a # p
    BY <1>1
<1> QED
    BY <1>1, <1>3, <1>4 DEF Covered

(* A negative node holds its size, and is not inside another. *)
LEMMA NegativeIsExact ==
    ASSUME Consistent(nodes), NEW p \in Pos, nodes[p] < 0
    PROVE  nodes[p] = -SizeAt[p] /\ ~Covered(p)
<1>1. nodes[p] = -SizeAt[p]
    BY NegativeIsTaken DEF Taken
<1>2. ASSUME NEW a \in Pos, a # p, p \in Under[a], nodes[a] < 0 PROVE FALSE
    <2>1. Taken(nodes, a)
        BY <1>2, NegativeIsTaken
    <2>2. Whole(nodes, p)
        BY <1>2, <2>1, BelowIsWhole
    <2> QED
        BY <1>1, <2>2, Numbers DEF Whole
<1> QED
    BY <1>1, <1>2 DEF Covered

(* A block is free where its node is whole and not inside another. *)
LEMMA VacantIs ==
    ASSUME Consistent(nodes), NEW p \in Pos
    PROVE  Vacant(p) <=> ~Covered(p) /\ Whole(nodes, p)
<1>1. Vacant(p) => Whole(nodes, p)
    BY ClearIsWhole DEF Vacant
<1>2. ASSUME Whole(nodes, p), NEW q \in Under[p] PROVE nodes[q] >= 0
    <2>1. q \in Pos
        BY UnderRefl
    <2>2. Whole(nodes, q)
        BY <1>2, BelowIsWhole
    <2> QED
        BY <2>1, <2>2, Numbers DEF Whole
<1> QED
    BY <1>1, <1>2 DEF Vacant

(* What a node tells: the size of a free block below it, or zero, and none *)
(* is larger.                                                              *)
Best(p) ==
    /\ nodes[p] = 0 \/ \E q \in Under[p] : Vacant(q) /\ SizeAt[q] = nodes[p]
    /\ \A q \in Under[p] : Vacant(q) => SizeAt[q] <= nodes[p]

(* The last node that told something else would have halves that do not.   *)
LEMMA NodesAreBest ==
    ASSUME Consistent(nodes), NEW pos \in Pos, nodes[pos] >= 0, ~Covered(pos)
    PROVE  Best(pos)
<1> DEFINE Bad == {p \in Pos : nodes[p] >= 0 /\ ~Covered(p) /\ ~Best(p)}
<1> SUFFICES ASSUME Bad # {} PROVE FALSE
    OBVIOUS
<1>1. PICK k \in Bad : \A h \in Bad : h <= k
    <2>1. Bad \in SUBSET (0..(2 * Size - 2))
        BY DEF Pos
    <2> HIDE DEF Bad
    <2> QED
        BY <2>1, PosFacts, GreatestOf
<1>2. k \in Pos /\ nodes[k] >= 0 /\ ~Covered(k) /\ ~Best(k) /\ nodes[k] \in Int
    BY <1>1 DEF Consistent
<1>3. ~Whole(nodes, k)
    <2> SUFFICES ASSUME Whole(nodes, k) PROVE Best(k)
        BY <1>2
    <2>1. Vacant(k) /\ k \in Under[k] /\ SizeAt[k] = nodes[k]
        BY <1>2, VacantIs, UnderRefl DEF Whole
    <2>2. ASSUME NEW q \in Under[k] PROVE SizeAt[q] <= nodes[k]
        <3>1. q \in Pos /\ SizeAt[q] \in Nat /\ SizeAt[k] \in Nat
            BY <1>2, UnderRefl, Numbers
        <3>2. q = k \/ 2 * SizeAt[q] <= SizeAt[k]
            BY <1>2, UnderBehind
        <3> QED
            BY <2>1, <3>1, <3>2
    <2> QED
        BY <2>1, <2>2 DEF Best
<1>4. Internal(k) /\ Broken(nodes, k)
    <2>1. ~Taken(nodes, k)
        BY <1>2, NegativeIsTaken
    <2> QED
        BY <1>2, <1>3, <2>1 DEF Consistent, NodeIsConsistent
<1>5. ASSUME NEW c \in {Left(k), Right(k)}
      PROVE  (nodes[c] < 0 /\ \A q \in Under[c] : ~Vacant(q)) \/ Best(c)
    <2>1. c \in Pos /\ k < c /\ nodes[c] \in Int /\ ~Covered(c)
        BY <1>2, <1>4, ChildPos, UncoveredHalf DEF Consistent
    <2>2. CASE nodes[c] < 0
        <3>1. ASSUME NEW q \in Under[c], Vacant(q) PROVE FALSE
            <4>1. q \in Pos
                BY <2>1, UnderRefl
            <4>2. q = c
                BY <2>1, <2>2, <3>1, <4>1 DEF Vacant, Covered
            <4>3. nodes[c] >= 0
                BY <2>1, <3>1, <4>2, UnderRefl DEF Vacant
            <4> QED
                BY <2>1, <2>2, <4>3
        <3> QED
            BY <2>2, <3>1
    <2>3. CASE nodes[c] >= 0
        <3>1. c \notin Bad
            <4>1. c \in Nat /\ k \in Nat
                BY <1>2, <2>1, PosFacts
            <4> HIDE DEF Bad
            <4> QED
                BY <1>1, <2>1, <4>1
        <3> QED
            BY <2>1, <2>3, <3>1
    <2> QED
        BY <2>1, <2>2, <2>3
<1> DEFINE l == nodes[Left(k)]
           r == nodes[Right(k)]
<1>6. l \in Int /\ r \in Int /\ nodes[k] = Larger(Larger(l, r), 0)
    BY <1>2, <1>4, AtNode DEF Broken
<1>7. Left(k) \in Pos /\ Right(k) \in Pos /\ Left(k) \in Under[k] /\ Right(k) \in Under[k]
    BY <1>2, <1>4, ChildPos, ChildUnder
<1>8. ASSUME NEW q \in Under[k], Vacant(q) PROVE SizeAt[q] <= nodes[k]
    <2>1. q \in Pos /\ q # k /\ SizeAt[q] \in Nat
        BY <1>2, <1>3, <1>8, VacantIs, UnderRefl, Numbers
    <2>2. q \in Under[Left(k)] \/ q \in Under[Right(k)]
        BY <1>2, <2>1, UnderChild
    <2>3. SizeAt[q] <= l \/ SizeAt[q] <= r
        BY <1>5, <1>8, <2>2 DEF Best
    <2> HIDE DEF l, r
    <2> QED
        BY <1>6, <2>1, <2>3 DEF Larger
<1>9. nodes[k] = 0 \/ \E q \in Under[k] : Vacant(q) /\ SizeAt[q] = nodes[k]
    <2> SUFFICES ASSUME nodes[k] # 0 PROVE \E q \in Under[k] : Vacant(q) /\ SizeAt[q] = nodes[k]
        OBVIOUS
    <2>1. PICK c \in {Left(k), Right(k)} : nodes[c] = nodes[k] /\ nodes[c] # 0 /\ nodes[c] >= 0
        <3>1. (l = nodes[k] \/ r = nodes[k]) /\ nodes[k] >= 0
            <4> HIDE DEF l, r
            <4> QED
                BY <1>2, <1>6 DEF Larger
        <3> QED
            BY <3>1
    <2>2. Best(c)
        BY <1>2, <1>5, <2>1
    <2>3. PICK q \in Under[c] : Vacant(q) /\ SizeAt[q] = nodes[c]
        BY <2>1, <2>2 DEF Best
    <2>4. c \in Under[k] /\ q \in Under[k]
        BY <1>2, <1>7, <2>1, <2>3, UnderTrans
    <2> QED
        BY <2>1, <2>3, <2>4
<1>10. Best(k)
    BY <1>8, <1>9 DEF Best
<1> QED
    BY <1>2, <1>10

(* The greatest of a set of numbers, when it is known. *)
LEMMA MaxIs ==
    ASSUME NEW T \in SUBSET Int, NEW m \in T, \A x \in T : x <= m
    PROVE  Max(T) = m
<1>1. \E x \in T : \A y \in T : x >= y
    OBVIOUS
<1> DEFINE x == Max(T)
<1>2. x \in T /\ \A y \in T : x >= y
    BY <1>1 DEF Max
<1> HIDE DEF x
<1>3. x \in Int /\ m \in Int /\ x >= m /\ x <= m
    BY <1>2
<1> QED
    BY <1>3 DEF x

(* A consistent tree is exact. *)
LEMMA ConsistentIsExact == Consistent(nodes) => TreeIsExact
<1> SUFFICES ASSUME Consistent(nodes), NEW pos \in Pos
             PROVE  /\ nodes[pos] < 0 => nodes[pos] = -SizeAt[pos] /\ ~Covered(pos)
                    /\ nodes[pos] >= 0 /\ ~Covered(pos) =>
                          nodes[pos] = Max({0} \cup {SizeAt[p] : p \in {q \in Under[pos] : Vacant(q)}})
    BY DEF TreeIsExact
<1>1. nodes[pos] < 0 => nodes[pos] = -SizeAt[pos] /\ ~Covered(pos)
    BY NegativeIsExact
<1>2. ASSUME nodes[pos] >= 0, ~Covered(pos)
      PROVE  nodes[pos] = Max({0} \cup {SizeAt[p] : p \in {q \in Under[pos] : Vacant(q)}})
    <2> DEFINE T == {0} \cup {SizeAt[p] : p \in {q \in Under[pos] : Vacant(q)}}
    <2>1. Best(pos)
        BY <1>2, NodesAreBest
    <2>2. nodes[pos] \in Int
        BY DEF Consistent
    <2>3. T \in SUBSET Int
        BY UnderRefl, Numbers
    <2>4. nodes[pos] \in T
        BY <2>1 DEF Best
    <2>5. \A x \in T : x <= nodes[pos]
        BY <1>2, <2>1, <2>2 DEF Best
    <2> HIDE DEF T
    <2>6. Max(T) = nodes[pos]
        BY <2>3, <2>4, <2>5, MaxIs
    <2> QED
        BY <2>6 DEF T
<1> QED
    BY <1>1, <1>2

(* The tree is exact after any calls: every node that is not inside an     *)
(* allocated one tells the largest block that can be had below it          *)
(* (allocator.go:128, 155-163).                                            *)
THEOREM TreeIsAlwaysExact == TreeSpec => []TreeIsExact
<1>1. TreeInv => TreeIsExact
    BY ConsistentIsExact DEF TreeInv
<1> QED
    BY <1>1, TreeStaysConsistent, PTL

-----------------------------------------------------------------------------
(* The blocks that the mailbox may be given are the nodes of the tree.     *)
Blk(p) == [addr |-> Address[p], size |-> SizeAt[p]]

(* Both modules count in the same powers of two. *)
LEMMA SamePow2 == Abstract!Pow2 = Pow2
    BY DEF Abstract!Pow2, Pow2

(* The sizes that fit in the file are those of its levels. *)
LEMMA PowersAre ==
    /\ \A k \in Abstract!Powers : \E e \in 0..Exp : k = Pow2[e]
    /\ \A e \in 0..Exp : Pow2[e] \in Abstract!Powers
<1>0. Exp \in 0..30 /\ Size = Pow2[Exp] /\ Size \in Nat /\ Size >= 1
    BY ExpFacts
<1>1. Abstract!Powers = {Pow2[e] : e \in 0..30} \cap 1..Size
    BY SamePow2 DEF Abstract!Powers
<1>2. ASSUME NEW e \in 0..30, Pow2[e] <= Size PROVE e \in 0..Exp
    <2> SUFFICES ASSUME Exp < e PROVE FALSE
        BY <1>0
    <2>1. e \in 0..31 /\ Exp \in 0..31
        BY <1>0
    <2>2. 2 * Pow2[Exp] <= Pow2[e]
        BY <2>1, Pow2Grows
    <2>3. Pow2[e] \in Nat
        BY <2>1, Pow2Facts
    <2> QED
        BY <1>0, <1>2, <2>2, <2>3
<1>3. ASSUME NEW e \in 0..Exp PROVE e \in 0..30 /\ Pow2[e] \in 1..Size
    <2>1. e \in 0..30 /\ e \in 0..31 /\ Exp \in 0..31 /\ 31 \in 0..31 /\ e < 31
        BY <1>0
    <2>2. Pow2[e] \in Nat /\ Pow2[e] >= 1
        BY <2>1, Pow2Facts, Pow2Grows
    <2>3. e = Exp \/ 2 * Pow2[e] <= Pow2[Exp]
        BY <1>0, <2>1, Pow2Grows
    <2> QED
        BY <1>0, <2>1, <2>2, <2>3
<1>4. \A k \in Abstract!Powers : \E e \in 0..Exp : k = Pow2[e]
    BY <1>1, <1>2
<1>5. \A e \in 0..Exp : Pow2[e] \in Abstract!Powers
    BY <1>1, <1>3
<1> QED
    BY <1>4, <1>5

(* The size of a node is one of them. *)
LEMMA SizeIsAPower == ASSUME NEW p \in Pos PROVE SizeAt[p] \in Abstract!Powers
<1>1. SizeAt[p] = Pow2[Exp - Level[p]] /\ Exp - Level[p] \in 0..Exp
    BY SizeIsPower, LevelFacts, ExpFacts
<1> QED
    BY <1>1, PowersAre

(* Every aligned block of such a size is the region of a node. *)
LEMMA BlockIsNode ==
    ASSUME NEW e \in 0..Exp, NEW x \in Nat, x <= Size - Pow2[e], x % Pow2[e] = 0
    PROVE  \E q \in Pos : SizeAt[q] = Pow2[e] /\ Address[q] = x
<1> DEFINE l == Exp - e
           w == Pow2[l]
           k == Pow2[e]
           i == x \div k
           q == (w - 1) + i
<1>0. Exp \in 0..30 /\ Size = Pow2[Exp] /\ Size \in Nat /\ Size >= 1
    BY ExpFacts
<1>1. l \in 0..Exp /\ l \in 0..30 /\ e \in 0..31 /\ Exp - l = e /\ l \in 0..31 /\ 31 \in 0..31
    BY <1>0
<1>2. w \in Nat /\ k \in Nat /\ w >= 1 /\ k >= 1
    <2>1. e < 31 /\ l < 31
        BY <1>0
    <2> QED
        BY <1>1, <2>1, Pow2Facts, Pow2Grows
<1>3. Size = w * k
    BY <1>1, SizeIsProduct
<1>4. i \in Nat /\ x = k * i
    <2>1. x % k = 0
        OBVIOUS
    <2> HIDE DEF k
    <2> QED
        BY <1>2, <2>1
<1>5. i < w
    <2> HIDE DEF w, k, i
    <2> SUFFICES ASSUME w <= i PROVE FALSE
        BY <1>2, <1>4
    <2>1. PICK d \in Nat : i = w + d
        <3>1. i - w \in Nat /\ i = w + (i - w)
            BY <1>2, <1>4
        <3> QED
            BY <3>1
    <2>2. k * i = w * k + k * d /\ k * d \in Nat
        BY <1>2, <2>1
    <2>3. x <= Size - k
        BY DEF k
    <2> QED
        BY <1>0, <1>2, <1>3, <1>4, <2>2, <2>3
<1>6. w <= Size
    <2>1. l = Exp \/ 2 * Pow2[l] <= Pow2[Exp]
        <3>1. l = Exp \/ l < Exp
            BY <1>0, <1>1
        <3>2. Exp \in 0..31
            BY <1>0
        <3> QED
            BY <1>1, <3>1, <3>2, Pow2Grows
    <2> QED
        BY <1>0, <1>2, <2>1
<1>7. q \in Pos /\ Pow2[l] <= q + 1 /\ q + 1 < 2 * Pow2[l]
    <2>1. q \in Nat /\ w <= q + 1 /\ q + 1 < 2 * w /\ q <= 2 * Size - 2
        <3> HIDE DEF w, i
        <3> QED
            BY <1>0, <1>2, <1>4, <1>5, <1>6
    <2> QED
        BY <2>1, PosFacts
<1>8. Level[q] = l
    <2> HIDE DEF q
    <2> QED
        BY <1>1, <1>7, LevelIs
<1>9. SizeAt[q] = k
    <2>1. SizeAt[q] = Pow2[Exp - Level[q]]
        <3> HIDE DEF q
        <3> QED
            BY <1>7, SizeIsPower
    <2> HIDE DEF q
    <2> QED
        BY <1>1, <1>8, <2>1
<1>10. Address[q] = x
    <2>1. Index(q) = i
        <3>1. Index(q) = q - (w - 1)
            <4> HIDE DEF q
            <4> QED
                BY <1>8 DEF Index
        <3> HIDE DEF w, i
        <3> QED
            BY <1>2, <1>4, <3>1
    <2>2. Address[q] = Index(q) * SizeAt[q]
        <3> HIDE DEF q
        <3> QED
            BY <1>7, AddressIs
    <2>3. i * k = k * i
        <3> HIDE DEF i, k
        <3> QED
            BY <1>2, <1>4
    <2> HIDE DEF q, i, k
    <2> QED
        BY <1>4, <1>9, <2>1, <2>2, <2>3
<1> HIDE DEF q
<1> QED
    BY <1>7, <1>9, <1>10

(* And the region of a node is an aligned block. *)
LEMMA NodeIsBlock == ASSUME NEW p \in Pos PROVE Blk(p) \in Abstract!Blocks(SizeAt[p])
<1> DEFINE k == SizeAt[p]
           i == Index(p)
<1>1. k \in Nat /\ k >= 1 /\ i \in Nat /\ Address[p] = i * k /\ Address[p] \in Nat /\ Size \in Nat
    BY Numbers, AddressIs, ExpFacts
<1>2. Address[p] + k <= Size
    <2>1. Level[p] \in 0..Exp /\ p + 1 < Pow2[Level[p] + 1] /\ p \in Nat
        BY LevelFacts, PosFacts
    <2>2. Level[p] \in 0..30
        BY <2>1, ExpFacts
    <2> DEFINE w == Pow2[Level[p]]
    <2>3. Pow2[Level[p] + 1] = 2 * w /\ w \in Nat
        BY <2>2, Pow2Facts
    <2>4. Size = w * k
        BY <2>1, SizeIsPower, SizeIsProduct
    <2>5. i = p - (w - 1)
        BY DEF Index
    <2> HIDE DEF i, k, w
    <2>6. i < w
        BY <2>1, <2>3, <2>5
    <2>7. PICK d \in Nat : w = i + 1 + d
        <3>1. w - (i + 1) \in Nat /\ w = i + 1 + (w - (i + 1))
            BY <1>1, <2>3, <2>6
        <3> QED
            BY <3>1
    <2>8. w * k = i * k + k + d * k /\ d * k \in Nat /\ i * k \in Nat
        BY <1>1, <2>7
    <2> QED
        BY <1>1, <2>4, <2>8
<1>3. Address[p] % k = 0
    <2> HIDE DEF i, k
    <2>1. i * k = k * i
        BY <1>1
    <2> QED
        BY <1>1, <2>1, DivProduct
<1>4. Address[p] \in 0..(Size - k)
    <2> HIDE DEF k
    <2> QED
        BY <1>1, <1>2
<1> QED
    BY <1>3, <1>4 DEF Abstract!Blocks, Blk

(* The blocks handed out, in terms of the tree. *)
LEMMA LiveIs == Live = {Blk(p) : p \in {q \in Pos : nodes[q] < 0}}
    BY DEF Live, Blk

(* Blocks overlap unless their regions are disjoint. *)
LEMMA OverlapIs ==
    ASSUME NEW p \in Pos, NEW q \in Pos
    PROVE  Abstract!Overlap(Blk(p), Blk(q)) <=> ~Disjoint(p, q)
<1>1. Address[p] \in Nat /\ Address[q] \in Nat /\ SizeAt[p] \in Nat /\ SizeAt[q] \in Nat
    BY Numbers
<1> QED
    BY <1>1 DEF Abstract!Overlap, Blk, Disjoint

(* A node is vacant where it overlaps no block handed out. *)
LEMMA VacantIsClear ==
    ASSUME TreeInv, NEW q \in Pos
    PROVE  Vacant(q) <=> \A c \in Live : ~Abstract!Overlap(Blk(q), c)
<1>1. ASSUME Vacant(q), NEW p \in Pos, nodes[p] < 0 PROVE ~Abstract!Overlap(Blk(q), Blk(p))
    <2>1. q \notin Under[p]
        <3>1. CASE p = q
            <4>1. nodes[q] >= 0 /\ nodes[q] \in Int
                BY <1>1, UnderRefl DEF Vacant, TreeInv, Consistent
            <4> QED
                BY <1>1, <3>1, <4>1
        <3>2. CASE p # q
            BY <1>1, <3>2 DEF Vacant, Covered
        <3> QED
            BY <3>1, <3>2
    <2>2. p \notin Under[q]
        <3>1. nodes[p] \in Int
            BY DEF TreeInv, Consistent
        <3> QED
            BY <1>1, <3>1 DEF Vacant
    <2> QED
        BY <2>1, <2>2, Trichotomy, OverlapIs
<1>2. ASSUME \A p \in Pos : nodes[p] < 0 => ~Abstract!Overlap(Blk(q), Blk(p)) PROVE Vacant(q)
    <2>1. ASSUME NEW p \in Pos, nodes[p] < 0 PROVE Disjoint(q, p)
        BY <1>2, <2>1, OverlapIs
    <2>2. ~Covered(q)
        <3> SUFFICES ASSUME NEW p \in Pos, q \in Under[p], nodes[p] < 0 PROVE FALSE
            BY DEF Covered
        <3> QED
            BY <2>1, UnderRefl, NotBoth
    <2>3. ASSUME NEW p \in Under[q] PROVE nodes[p] >= 0
        <3>1. p \in Pos
            BY UnderRefl
        <3>2. nodes[p] \in Int
            BY <3>1 DEF TreeInv, Consistent
        <3>3. ~(nodes[p] < 0)
            BY <2>1, <3>1, UnderRefl, NotBoth
        <3> QED
            BY <3>2, <3>3
    <2> QED
        BY <2>2, <2>3 DEF Vacant
<1>3. (\A c \in Live : ~Abstract!Overlap(Blk(q), c))
          <=> \A p \in Pos : nodes[p] < 0 => ~Abstract!Overlap(Blk(q), Blk(p))
    BY LiveIs
<1> QED
    BY <1>1, <1>2, <1>3

(* The blocks of a size that are available are the vacant nodes of it. *)
LEMMA AvailableIs ==
    ASSUME TreeInv, NEW k \in Abstract!Powers
    PROVE  /\ \A b \in Abstract!Available(k) : \E q \in Pos : b = Blk(q) /\ SizeAt[q] = k /\ Vacant(q)
           /\ \A q \in Pos : SizeAt[q] = k /\ Vacant(q) => Blk(q) \in Abstract!Available(k)
<1>1. PICK e \in 0..Exp : k = Pow2[e]
    BY PowersAre
<1>2. k \in Nat
    <2>1. e \in 0..31
        BY ExpFacts
    <2> QED
        BY <1>1, <2>1, Pow2Facts
<1>3. ASSUME NEW b \in Abstract!Available(k)
      PROVE  \E q \in Pos : b = Blk(q) /\ SizeAt[q] = k /\ Vacant(q)
    <2>1. PICK x \in 0..(Size - k) : x % k = 0 /\ b = [addr |-> x, size |-> k]
        BY <1>3 DEF Abstract!Available, Abstract!Blocks
    <2>2. x \in Nat /\ x <= Size - k
        BY <1>2, ExpFacts
    <2>3. PICK q \in Pos : SizeAt[q] = k /\ Address[q] = x
        BY <1>1, <2>1, <2>2, BlockIsNode
    <2>4. b = Blk(q)
        BY <2>1, <2>3 DEF Blk
    <2>5. \A c \in Live : ~Abstract!Overlap(b, c)
        BY <1>3 DEF Abstract!Available
    <2> QED
        BY <2>3, <2>4, <2>5, VacantIsClear
<1>4. ASSUME NEW q \in Pos, SizeAt[q] = k, Vacant(q) PROVE Blk(q) \in Abstract!Available(k)
    <2>1. Blk(q) \in Abstract!Blocks(k)
        BY <1>4, NodeIsBlock
    <2>2. \A c \in Live : ~Abstract!Overlap(Blk(q), c)
        BY <1>4, VacantIsClear
    <2> QED
        BY <2>1, <2>2 DEF Abstract!Available
<1> QED
    BY <1>3, <1>4

(* The node that alloc hands out is vacant. *)
LEMMA TargetIsVacant ==
    ASSUME TreeInv, NEW size \in Int, size > 0, NEW T \in Pos, Whole(nodes, T), OnTheWay(nodes, T, size)
    PROVE  Vacant(T)
<1>1. ~Covered(T)
    <2> SUFFICES ASSUME NEW a \in Pos, a # T, T \in Under[a], nodes[a] < 0 PROVE FALSE
        BY DEF Covered
    <2>1. nodes[a] \in Int /\ nodes[a] >= size
        BY DEF OnTheWay, TreeInv, Consistent
    <2> QED
        BY <2>1
<1> QED
    BY <1>1, VacantIs DEF TreeInv

(* Its size is the smallest that fits. *)
LEMMA TargetFits ==
    ASSUME TreeInv, NEW size \in Int, NEW T \in Pos, nodes[T] >= size, size > 0, Whole(nodes, T),
           AllocStops(nodes, T, size), NEW k \in Abstract!Powers, k >= size
    PROVE  SizeAt[T] <= k
<1>1. PICK e \in 0..Exp : k = Pow2[e]
    BY PowersAre
<1>2. Level[T] \in 0..Exp /\ SizeAt[T] = Pow2[Exp - Level[T]] /\ SizeAt[T] \in Nat
    BY LevelFacts, SizeIsPower
<1>3. e \in 0..31 /\ Exp - Level[T] \in 0..31
    <2>1. Exp \in 0..30
        BY ExpFacts
    <2> QED
        BY <1>2, <2>1
<1>4. k \in Nat
    BY <1>1, <1>3, Pow2Facts
<1> SUFFICES ASSUME k < SizeAt[T] PROVE FALSE
    BY <1>2, <1>4
<1>5. 2 * k <= SizeAt[T]
    <2>1. ~(Exp - Level[T] < e)
        <3> SUFFICES ASSUME Exp - Level[T] < e PROVE FALSE
            OBVIOUS
        <3>1. 2 * Pow2[Exp - Level[T]] <= Pow2[e]
            BY <1>3, Pow2Grows
        <3> QED
            BY <1>1, <1>2, <1>4, <3>1
    <2>2. Exp - Level[T] # e
        BY <1>1, <1>2, <1>4
    <2>3. e < Exp - Level[T]
        BY <1>3, <2>1, <2>2
    <2> QED
        BY <1>1, <1>2, <1>3, <2>3, Pow2Grows
<1>6. Internal(T)
    <2>1. SizeAt[T] # 1
        BY <1>2, <1>4, <1>5
    <2> QED
        BY <2>1, LeafFacts
<1>7. Halves(nodes, T) /\ Left(T) \in Pos
    BY <1>6, HalvesAreWhole, ChildPos DEF TreeInv
<1>8. SizeAt[T] = 2 * SizeAt[Left(T)] /\ SizeAt[Left(T)] \in Nat
    BY <1>6, AtNode DEF TreeInv
<1>9. SizeAt[Left(T)] < size
    <2>1. nodes[Left(T)] = SizeAt[Left(T)] /\ ~(nodes[Left(T)] >= size)
        BY <1>7 DEF Halves, Whole, AllocStops, InTree
    <2> QED
        BY <1>8, <2>1
<1> QED
    BY <1>4, <1>5, <1>8, <1>9

(* And no vacant node of its size is to its left: where the ways to the    *)
(* two part, alloc would have gone left.                                   *)
LEMMA TargetIsLowest ==
    ASSUME TreeInv, NEW size \in Int, size > 0, NEW T \in Pos, OnTheWay(nodes, T, size),
           NEW y \in Pos, Vacant(y), SizeAt[y] = SizeAt[T], SizeAt[y] >= size
    PROVE  Address[T] <= Address[y]
<1>0. /\ Address[T] \in Nat /\ Address[y] \in Nat /\ SizeAt[T] \in Nat /\ SizeAt[T] >= 1
    BY Numbers
<1> SUFFICES ASSUME Address[y] < Address[T] PROVE FALSE
    BY <1>0
<1> DEFINE Above == {a \in Pos : T \in Under[a] /\ y \in Under[a]}
<1>1. PICK a \in Above : \A h \in Above : h <= a
    <2>1. Above \in SUBSET (0..(2 * Size - 2))
        BY DEF Pos
    <2>2. 0 \in Above
        <3>1. ASSUME NEW p \in Pos PROVE p \in Under[0]
            <4>1. 0 \in Pos /\ Address[0] = 0 /\ SizeAt[0] = Size
                BY PosFacts, RootFacts
            <4>2. Address[p] \in 0..(Size - SizeAt[p])
                BY NodeIsBlock DEF Abstract!Blocks, Blk
            <4>3. Address[p] \in Nat /\ SizeAt[p] \in Nat /\ Size \in Nat
                BY Numbers, ExpFacts
            <4>4. 0 <= Address[p] /\ Address[p] + SizeAt[p] <= 0 + Size
                BY <4>2, <4>3
            <4> QED
                BY <4>1, <4>4, UnderIs
        <3> QED
            BY <3>1, PosFacts
    <2> HIDE DEF Above
    <2> QED
        BY <2>1, <2>2, PosFacts, GreatestOf
<1>2. a \in Pos /\ T \in Under[a] /\ y \in Under[a]
    BY <1>1
<1>3. T # a /\ y # a
    <2>1. T # y
        BY <1>0
    <2>2. ~(2 * SizeAt[T] <= SizeAt[T])
        BY <1>0
    <2> QED
        BY <1>2, <2>1, <2>2, UnderBehind
<1>4. /\ Internal(a)
      /\ T \in Under[Left(a)] \/ T \in Under[Right(a)]
      /\ y \in Under[Left(a)] \/ y \in Under[Right(a)]
      /\ ~(T \in Under[Left(a)] /\ T \in Under[Right(a)])
    BY <1>2, <1>3, UnderChild
<1>5. /\ Left(a) \in Pos /\ Right(a) \in Pos /\ a < Left(a) /\ a < Right(a)
      /\ Left(a) \in Under[a] /\ Left(a) # a
    BY <1>2, <1>4, ChildPos, ChildUnder, PosFacts
<1>6. ASSUME NEW c \in Pos, a < c PROVE ~(T \in Under[c] /\ y \in Under[c])
    <2>1. c \notin Above
        <3>1. a \in Nat /\ c \in Nat
            BY <1>2, PosFacts
        <3> HIDE DEF Above
        <3> QED
            BY <1>1, <1>6, <3>1
    <2> QED
        BY <2>1
<1>7. CASE T \in Under[Right(a)] /\ y \in Under[Left(a)]
    <2>1. nodes[a] >= size /\ ~AllocStops(nodes, a, size) /\ T \in Under[AllocChild(nodes, a, size)]
        BY <1>2, <1>3 DEF OnTheWay
    <2>2. nodes[Left(a)] \in Int /\ ~(nodes[Left(a)] >= size)
        BY <1>4, <1>5, <1>7, <2>1 DEF AllocChild, TreeInv, Consistent
    <2>3. ~Covered(Left(a))
        BY <1>5, <1>7, UncoveredAbove DEF Vacant
    <2>4. nodes[Left(a)] >= 0
        <3> SUFFICES ASSUME nodes[Left(a)] < 0 PROVE FALSE
            BY <2>2
        <3>1. CASE y = Left(a)
            <4>1. nodes[y] >= 0
                BY UnderRefl DEF Vacant
            <4> QED
                BY <2>2, <3>1, <4>1
        <3>2. CASE y # Left(a)
            BY <1>5, <1>7, <3>2 DEF Vacant, Covered
        <3> QED
            BY <3>1, <3>2
    <2>5. SizeAt[y] <= nodes[Left(a)]
        BY <1>5, <1>7, <2>3, <2>4, NodesAreBest DEF Best, TreeInv
    <2> QED
        BY <1>0, <2>2, <2>5
<1>8. CASE T \in Under[Left(a)] /\ y \in Under[Right(a)]
    <2>1. /\ Address[Left(a)] = Address[a] /\ Address[Right(a)] = Address[a] + SizeAt[Right(a)]
          /\ SizeAt[a] = 2 * SizeAt[Left(a)] /\ SizeAt[a] = 2 * SizeAt[Right(a)]
        BY <1>2, <1>4, ChildFacts, ChildPos
    <2>2. Address[T] + SizeAt[T] <= Address[Left(a)] + SizeAt[Left(a)] /\ Address[Right(a)] <= Address[y]
        BY <1>5, <1>8, UnderIs
    <2>3. Address[a] \in Nat /\ SizeAt[Left(a)] \in Nat /\ SizeAt[Right(a)] \in Nat
        BY <1>2, <1>5, Numbers
    <2> QED
        BY <1>0, <2>1, <2>2, <2>3
<1> QED
    BY <1>4, <1>5, <1>6, <1>7, <1>8

(* Which nodes are negative after a call: those that were, and the target  *)
(* of alloc, without that of free.                                         *)
LEMMA NegateMarks ==
    ASSUME TreeInv, NEW pos \in Pos, NEW merge \in BOOLEAN, ~Covered(pos),
           merge => Taken(nodes, pos), ~merge => Whole(nodes, pos), NEW p \in Pos
    PROVE  Negate(nodes, pos, merge)[p] < 0
               <=> IF p = pos THEN ~merge ELSE nodes[p] < 0
<1> DEFINE n == Negate(nodes, pos, merge)
<1>1. n \in [Pos -> Int] /\ n[p] = Rewrite(n, nodes, pos, merge, p) /\ nodes \in [Pos -> Int]
    BY NegateIs DEF TreeInv, Consistent
<1> HIDE DEF n
<1>2. SizeAt[pos] \in Nat /\ SizeAt[pos] >= 1 /\ SizeAt[p] \in Nat
    BY Numbers
<1>3. CASE p = pos
    <2>1. n[p] = -nodes[pos]
        BY <1>1, <1>3 DEF Rewrite
    <2> QED
        BY <1>2, <1>3, <2>1 DEF Whole, Taken, n
<1>4. CASE p # pos /\ pos \in Under[p]
    <2>1. Left(p) \in Pos /\ Right(p) \in Pos
        BY <1>4, AboveIsInternal
    <2>2. n[Left(p)] \in Int /\ n[Right(p)] \in Int
        BY <1>1, <2>1
    <2>3. n[p] = Raise(n[Left(p)], n[Right(p)], p, merge)
        BY <1>1, <1>4 DEF Rewrite
    <2>4. n[p] >= 0 /\ n[p] \in Int
        BY <1>2, <2>2, <2>3 DEF Raise, Larger
    <2>5. ~(nodes[p] < 0)
        BY <1>4 DEF Covered
    <2> QED
        BY <1>4, <2>4, <2>5 DEF n
<1>5. CASE p # pos /\ pos \notin Under[p]
    <2>1. n[p] = nodes[p]
        BY <1>1, <1>5 DEF Rewrite
    <2> QED
        BY <1>5, <2>1 DEF n
<1> QED
    BY <1>3, <1>4, <1>5

(* Unless alloc can go down from the root, no block that is large enough   *)
(* is available.                                                           *)
LEMMA NoneIsVacant ==
    ASSUME TreeInv, NEW size \in Int, size > 0, ~(nodes[0] >= size), NEW y \in Pos, SizeAt[y] >= size
    PROVE  ~Vacant(y)
<1> SUFFICES ASSUME Vacant(y) PROVE FALSE
    OBVIOUS
<1>1. 0 \in Pos /\ nodes[0] \in Int /\ SizeAt[y] \in Nat
    BY PosFacts, Numbers DEF TreeInv, Consistent
<1>2. y \in Under[0] /\ ~Covered(0)
    <2>1. y \in Under[0]
        <3>1. Level[0] <= Level[y]
            BY RootFacts, Numbers
        <3>2. Address[y] \in 0..(Size - SizeAt[y])
            BY NodeIsBlock DEF Abstract!Blocks, Blk
        <3>3. 0 <= Address[y] /\ Address[y] + SizeAt[y] <= 0 + Size
            BY <3>2, Numbers, ExpFacts
        <3> QED
            BY <1>1, <3>3, RootFacts, UnderIs
    <2> QED
        BY <1>1, <2>1, UncoveredAbove DEF Vacant
<1>3. nodes[0] >= 0
    <2> SUFFICES ASSUME nodes[0] < 0 PROVE FALSE
        BY <1>1
    <2>1. y # 0
        BY <1>1, UnderRefl DEF Vacant
    <2> QED
        BY <1>1, <1>2, <2>1 DEF Vacant, Covered
<1>4. SizeAt[y] <= nodes[0]
    BY <1>1, <1>2, <1>3, NodesAreBest DEF Best, TreeInv
<1> QED
    BY <1>1, <1>4

(* The least of a set of numbers, when it is known. *)
LEMMA MinIs ==
    ASSUME NEW T \in SUBSET Int, NEW m \in T, \A x \in T : m <= x
    PROVE  Min(T) = m
<1>1. \E x \in T : \A y \in T : x <= y
    OBVIOUS
<1> DEFINE x == Min(T)
<1>2. x \in T /\ \A y \in T : x <= y
    BY <1>1 DEF Min
<1> HIDE DEF x
<1>3. x \in Int /\ m \in Int /\ x >= m /\ x <= m
    BY <1>2
<1> QED
    BY <1>3 DEF x

(* The sizes that fit are numbers; the whole file is one of them unless    *)
(* more is asked for.                                                      *)
LEMMA FitsFacts ==
    ASSUME NEW size \in Int
    PROVE  LET fits == {k \in Abstract!Powers : k >= size}
           IN  fits \in SUBSET Nat /\ (size <= Size => Size \in fits) /\ (size > Size => fits = {})
<1>1. \A k \in Abstract!Powers : k \in 1..Size
    BY DEF Abstract!Powers
<1>2. Size \in Abstract!Powers
    BY PosFacts, RootFacts, SizeIsAPower
<1>3. Size \in Nat
    BY ExpFacts
<1> DEFINE fits == {k \in Abstract!Powers : k >= size}
<1>4. \A k \in fits : k \in Nat /\ k <= Size /\ k >= size
    BY <1>1, <1>3
<1>5. fits \in SUBSET Nat
    BY <1>4
<1>6. size <= Size => Size \in fits
    BY <1>2, <1>3
<1>7. size > Size => fits = {}
    <2> HIDE DEF fits
    <2> QED
        BY <1>3, <1>4
<1> QED
    BY <1>5, <1>6, <1>7

(* Alloc of the tree is Alloc of the blocks (allocator.go:58-60, 108-130). *)
LEMMA AllocRefines ==
    ASSUME TreeInv, NEW size \in 0..(Size + 1), Alloc(size)
    PROVE  Abstract!Alloc(size)
<1> DEFINE fits == {k \in Abstract!Powers : k >= size}
           free == IF size <= 0 \/ fits = {} THEN {} ELSE Abstract!Available(Min(fits))
<1>0. size \in Int /\ size \in Nat /\ Size \in Nat
    BY ExpFacts
<1>1. fits \in SUBSET Nat /\ (size <= Size => Size \in fits) /\ (size > Size => fits = {})
    BY <1>0, FitsFacts
<1>m. Abstract!Min(fits) = Min(fits)
    BY DEF Abstract!Min, Min
<1>2. CASE ~CanAlloc(size)
    <2>1. free = {}
        <3> SUFFICES ASSUME size > 0, fits # {}, NEW b \in Abstract!Available(Min(fits)) PROVE FALSE
            BY <1>0
        <3>1. Min(fits) \in fits
            <4> HIDE DEF fits
            <4>1. PICK m \in fits : \A x \in fits : m <= x
                BY <1>1, LeastOf
            <4>2. fits \in SUBSET Int
                BY <1>1
            <4>3. Min(fits) = m
                BY <4>1, <4>2, MinIs
            <4> QED
                BY <4>1, <4>3
        <3>2. Min(fits) \in Abstract!Powers /\ Min(fits) >= size
            BY <3>1
        <3>3. PICK q \in Pos : SizeAt[q] = Min(fits) /\ Vacant(q)
            <4> HIDE DEF fits
            <4> QED
                BY <3>2, AvailableIs
        <3>4. ~(nodes[0] >= size)
            BY <1>2 DEF CanAlloc
        <3> QED
            BY <1>0, <3>2, <3>3, <3>4, NoneIsVacant
    <2>2. last' = <<"Alloc", size, Error>> /\ UNCHANGED nodes
        BY <1>2 DEF Alloc
    <2>3. Live' = Live
        BY <2>2 DEF Live
    <2> QED
        BY <1>m, <2>1, <2>2, <2>3 DEF Abstract!Alloc, Abstract!Error, Error
<1>3. CASE CanAlloc(size)
    <2> DEFINE T == AllocNode(nodes, size)
    <2>1. size > 0 /\ nodes[0] >= size
        BY <1>3 DEF CanAlloc
    <2>2. /\ T \in Pos /\ nodes[T] >= size /\ AllocStops(nodes, T, size)
          /\ OnTheWay(nodes, T, size) /\ Whole(nodes, T)
        BY <1>0, <2>1, AllocFinds DEF TreeInv
    <2>3. nodes' = Negate(nodes, T, FALSE) /\ last' = <<"Alloc", size, Address[T]>>
        BY <1>3 DEF Alloc
    <2> HIDE DEF T
    <2>4. Vacant(T)
        BY <1>0, <2>1, <2>2, TargetIsVacant
    <2>5. SizeAt[T] \in fits /\ SizeAt[T] \in Abstract!Powers
        BY <2>2, SizeIsAPower DEF Whole
    <2>6. Min(fits) = SizeAt[T]
        <3>1. \A k \in fits : SizeAt[T] <= k
            BY <1>0, <2>1, <2>2, TargetFits
        <3>2. fits \in SUBSET Int
            BY <1>1
        <3> HIDE DEF fits
        <3> QED
            BY <2>5, <3>1, <3>2, MinIs
    <2>7. free = Abstract!Available(SizeAt[T])
        <3>1. ~(size <= 0) /\ fits # {}
            BY <1>0, <2>1, <2>5
        <3> HIDE DEF fits
        <3> QED
            BY <2>6, <3>1
    <2>8. Blk(T) \in free
        BY <2>2, <2>4, <2>5, <2>7, AvailableIs
    <2>9. ASSUME NEW b \in free
          PROVE  b.addr \in Nat /\ b.size = SizeAt[T] /\ Blk(T).addr <= b.addr /\ (b.addr = Blk(T).addr => b = Blk(T))
        <3>1. PICK q \in Pos : b = Blk(q) /\ SizeAt[q] = SizeAt[T] /\ Vacant(q)
            BY <2>5, <2>7, <2>9, AvailableIs
        <3>2. SizeAt[q] >= size
            BY <2>2, <3>1 DEF Whole
        <3>3. Address[T] <= Address[q]
            BY <1>0, <2>1, <2>2, <3>1, <3>2, TargetIsLowest
        <3> QED
            BY <3>1, <3>3, Numbers DEF Blk
    <2> HIDE DEF free, fits
    <2> DEFINE b == CHOOSE x \in free : \A y \in free : x.addr <= y.addr
    <2>10. b = Blk(T)
        <3>1. b \in free /\ \A y \in free : b.addr <= y.addr
            <4>1. \E x \in free : \A y \in free : x.addr <= y.addr
                BY <2>8, <2>9
            <4> QED
                BY <4>1
        <3> HIDE DEF b
        <3>2. b.addr <= Blk(T).addr /\ Blk(T).addr <= b.addr /\ b.addr \in Nat /\ Blk(T).addr \in Nat
            BY <2>8, <2>9, <3>1
        <3> QED
            BY <2>9, <3>1, <3>2
    <2>11. Live' = Live \cup {Blk(T)}
        <3>1. \A p \in Pos : nodes'[p] < 0 <=> (p = T \/ nodes[p] < 0)
            BY <2>2, <2>3, <2>4, NegateMarks DEF Vacant
        <3>2. Live' = {Blk(p) : p \in {q \in Pos : nodes'[q] < 0}}
            BY DEF Live, Blk
        <3> QED
            BY <2>2, <3>1, <3>2, LiveIs
    <2>12. b.addr = Address[T]
        <3> HIDE DEF b
        <3> QED
            BY <2>10 DEF Blk
    <2>13. last' = <<"Alloc", size, b.addr>> /\ Live' = Live \cup {b} /\ free # {}
        <3> HIDE DEF b
        <3> QED
            BY <2>3, <2>8, <2>10, <2>11, <2>12
    <2> QED
        BY <1>m, <2>13 DEF Abstract!Alloc, free, fits
<1> QED
    BY <1>2, <1>3

(* free finds the allocated node at an address, if there is one. *)
LEMMA FreeFindsIt ==
    ASSUME TreeInv, NEW addr \in Int, NEW p \in Pos, nodes[p] < 0, Address[p] = addr
    PROVE  FreeNode(nodes, addr) = p
<1> DEFINE Z == {u \in Pos : p \in Under[u]}
           F == FreeNode(nodes, addr)
<1>0. nodes \in [Pos -> Int]
    BY DEF TreeInv, Consistent
<1>1. 0 \in Z
    <2>1. 0 \in Pos /\ Address[p] \in 0..(Size - SizeAt[p])
        BY PosFacts, NodeIsBlock DEF Abstract!Blocks, Blk
    <2>2. 0 <= Address[p] /\ Address[p] + SizeAt[p] <= 0 + Size
        BY <2>1, Numbers, ExpFacts
    <2> QED
        BY <2>1, <2>2, RootFacts, UnderIs
<1>2. ASSUME NEW u \in Z, ~FreeStops(nodes, u) PROVE FreeChild(u, addr) \in Z
    <2>1. u \in Pos /\ p \in Under[u] /\ ~(nodes[u] < 0) /\ Internal(u)
        BY <1>2 DEF FreeStops, Internal
    <2>2. u # p
        BY <2>1
    <2>3. p \in Under[Left(u)] \/ p \in Under[Right(u)]
        BY <2>1, <2>2, UnderChild
    <2>4. Left(u) \in Pos /\ Right(u) \in Pos /\ Left(u) # Right(u)
        BY <2>1, ChildPos
    <2> DEFINE h == SizeAt[Left(u)]
    <2>5. /\ SizeAt[u] = 2 * h /\ h \in Nat /\ SizeAt[Right(u)] = h
          /\ Address[Left(u)] = Address[u] /\ Address[Right(u)] = Address[u] + h
        <3>1. /\ SizeAt[u] = 2 * SizeAt[Left(u)] /\ SizeAt[u] = 2 * SizeAt[Right(u)]
              /\ Address[Left(u)] = Address[u] /\ Address[Right(u)] = Address[u] + SizeAt[Right(u)]
            BY <2>1, <2>4, ChildFacts
        <3>2. SizeAt[Left(u)] \in Nat /\ SizeAt[Right(u)] \in Nat
            BY <2>4, Numbers
        <3> QED
            BY <3>1, <3>2
    <2>6. (2 * h) \div 2 = h
        BY <2>5, DivProduct
    <2>7. Address[u] \in Nat /\ Address[p] \in Nat /\ SizeAt[p] \in Nat /\ SizeAt[p] >= 1
        BY <2>1, Numbers
    <2>8. FreeChild(u, addr) = IF addr - Address[u] < h THEN Left(u) ELSE Right(u)
        BY <2>5, <2>6 DEF FreeChild
    <2>9. CASE p \in Under[Left(u)]
        <3>1. Address[p] + SizeAt[p] <= Address[u] + h
            BY <2>4, <2>5, <2>9, UnderIs
        <3>2. addr - Address[u] < h
            <4> HIDE DEF h
            <4> QED
                BY <2>5, <2>7, <3>1
        <3> QED
            BY <2>4, <2>8, <2>9, <3>2
    <2>10. CASE p \in Under[Right(u)]
        <3>1. Address[u] + h <= Address[p]
            BY <2>4, <2>5, <2>10, UnderIs
        <3>2. ~(addr - Address[u] < h)
            <4> HIDE DEF h
            <4> QED
                BY <2>5, <2>7, <3>1
        <3> QED
            BY <2>4, <2>8, <2>10, <3>2
    <2> QED
        BY <2>3, <2>9, <2>10
<1>3. F \in Z /\ FreeStops(nodes, F)
    <2>1. Z \in SUBSET Pos
        OBVIOUS
    <2> HIDE DEF Z
    <2> QED
        BY <1>0, <1>1, <1>2, <2>1, FreeWalk
<1>4. F \in Pos /\ p \in Under[F]
    BY <1>3
<1> HIDE DEF F
<1>5. F = p
    <2> SUFFICES ASSUME F # p PROVE FALSE
        OBVIOUS
    <2>1. Internal(F)
        BY <1>4, UnderChild
    <2>2. nodes[F] < 0
        BY <1>3, <2>1 DEF FreeStops, Internal
    <2>3. Covered(p)
        BY <1>4, <2>2 DEF Covered
    <2> QED
        BY <2>3, NegativeIsExact DEF TreeInv
<1> QED
    BY <1>5 DEF F

(* Two allocated nodes do not begin at one address. *)
LEMMA TakenApart ==
    ASSUME TreeInv, NEW p \in Pos, NEW q \in Pos, nodes[p] < 0, nodes[q] < 0, p # q
    PROVE  Address[p] # Address[q]
<1>1. ~Covered(p) /\ ~Covered(q)
    BY NegativeIsExact DEF TreeInv
<1>2. p \notin Under[q] /\ q \notin Under[p]
    BY <1>1 DEF Covered
<1>3. Disjoint(p, q)
    BY <1>2, Trichotomy
<1> QED
    BY <1>3, Numbers DEF Disjoint

(* Free of the tree is Free of the blocks (allocator.go:62-64, 132-165). *)
LEMMA FreeRefines ==
    ASSUME TreeInv, NEW addr \in 0..Size, Free(addr)
    PROVE  Abstract!Free(addr)
<1> DEFINE F == FreeNode(nodes, addr)
<1>0. addr \in Int /\ F \in Pos
    BY ExpFacts, FreeFinds DEF TreeInv
<1>1. CASE CanFree(F, addr)
    <2>1. nodes[F] < 0 /\ Address[F] = addr
        BY <1>1 DEF CanFree
    <2>2. nodes' = Negate(nodes, F, TRUE) /\ last' = <<"Free", addr, OK>>
        BY <1>1 DEF Free
    <2> HIDE DEF F
    <2>3. ~Covered(F) /\ Taken(nodes, F)
        BY <1>0, <2>1, NegativeIsExact DEF TreeInv, Taken
    <2>4. \A p \in Pos : nodes'[p] < 0 <=> (p # F /\ nodes[p] < 0)
        BY <1>0, <2>2, <2>3, NegateMarks
    <2>5. Live' = {Blk(p) : p \in {q \in Pos : nodes'[q] < 0}}
        BY DEF Live, Blk
    <2>6. \A p \in Pos : nodes[p] < 0 => (p = F <=> Blk(p).addr = addr)
        BY <1>0, <2>1, TakenApart DEF Blk
    <2>7. Live' = {b \in Live : b.addr # addr}
        BY <2>4, <2>5, <2>6, LiveIs
    <2>8. \E b \in Live : b.addr = addr
        BY <1>0, <2>1, <2>6, LiveIs
    <2> QED
        BY <2>2, <2>7, <2>8 DEF Abstract!Free, Abstract!OK, OK
<1>2. CASE ~CanFree(F, addr)
    <2>1. last' = <<"Free", addr, Error>> /\ UNCHANGED nodes
        BY <1>2 DEF Free
    <2>2. Live' = Live
        BY <2>1 DEF Live
    <2>3. ~ \E b \in Live : b.addr = addr
        <3> SUFFICES ASSUME NEW p \in Pos, nodes[p] < 0, Blk(p).addr = addr PROVE FALSE
            BY LiveIs
        <3>1. Address[p] = addr
            BY DEF Blk
        <3>2. F = p
            BY <1>0, <3>1, FreeFindsIt
        <3> QED
            BY <1>2, <3>1, <3>2 DEF CanFree
    <2> QED
        BY <2>1, <2>2, <2>3 DEF Abstract!Free, Abstract!Error, Error
<1> QED
    BY <1>1, <1>2

(* The tree implements the allocator that the mailbox expects, for a file  *)
(* of any size: a block handed out overlaps no other, Alloc finds the      *)
(* lowest of the size that fits whenever there is one, and Free takes back *)
(* exactly what was handed out (allocator.go:58-165).                      *)
THEOREM TreeImplementsBlockAllocator == TreeSpec => ImplementsBlockAllocator
<1>1. TreeInit => Abstract!Init
    <2> SUFFICES ASSUME TreeInit PROVE Abstract!Init
        OBVIOUS
    <2>1. \A p \in Pos : ~(nodes[p] < 0)
        BY Numbers DEF TreeInit, Initialized
    <2>2. Live = {}
        BY <2>1 DEF Live
    <2> QED
        BY <2>2 DEF TreeInit, Abstract!Init, Abstract!OK, OK
<1>2. TreeInv /\ [TreeNext]_<<nodes, last>> => [Abstract!Next]_<<Live, last>>
    <2> SUFFICES ASSUME TreeInv, [TreeNext]_<<nodes, last>> PROVE [Abstract!Next]_<<Live, last>>
        OBVIOUS
    <2>1. ASSUME NEW size \in 0..(Size + 1), Alloc(size) PROVE Abstract!Next
        BY <2>1, AllocRefines DEF Abstract!Next
    <2>2. ASSUME NEW addr \in 0..Size, Free(addr) PROVE Abstract!Next
        BY <2>2, FreeRefines DEF Abstract!Next
    <2>3. CASE UNCHANGED <<nodes, last>>
        BY <2>3 DEF Live
    <2> QED
        BY <2>1, <2>2, <2>3 DEF TreeNext
<1> QED
    BY <1>1, <1>2, TreeStaysConsistent, PTL DEF TreeSpec, ImplementsBlockAllocator, Abstract!Spec

-----------------------------------------------------------------------------
(* The format. *)
FormatTypeOK ==
    /\ header \in {"blank", "magic"}
    /\ segments \in [1..3 -> Nat]
    /\ step \in [Driver -> {"down", "format", "write", "up"}]
    /\ next \in [Driver -> 0..3]
    /\ work \in [Driver -> Nat]
    /\ rpcLock \in Driver \cup {Nobody}
    /\ deaths \in Nat
    /\ latest \in Nat
    /\ overlapped \in BOOLEAN
    /\ cutShort \in BOOLEAN

Writes(d) == step[d] = "write"

(* What is written is never the blank state. *)
WorkIsState == \A d \in Driver : Writes(d) => next[d] >= 1 /\ work[d] >= 1

(* The copies that are still blank are the ones that a formatter has yet   *)
(* to write.                                                               *)
BlankIsFormatted ==
    header = "magic" /\ ~cutShort =>
        \/ \A i \in 1..3 : segments[i] # 0
        \/ \E d \in Driver :
              Writes(d) /\ work[d] = 1 /\ \A i \in 1..3 : i < next[d] => segments[i] # 0

UsableInv == FormatTypeOK /\ WorkIsState /\ BlankIsFormatted

(* What the vote finds among states is a state. *)
LEMMA ReadStateType == FormatTypeOK => ReadState(segments) \in Nat
    BY DEF FormatTypeOK, ReadState

(* No driver runs on the blank file. *)
LEMMA InitUsable == FormatInit => UsableInv
<1> SUFFICES ASSUME FormatInit PROVE UsableInv
    OBVIOUS
<1>1. overlapped \in BOOLEAN /\ cutShort \in BOOLEAN
    BY Zenon DEF FormatInit
<1>2. FormatTypeOK
    BY <1>1 DEF FormatInit, FormatTypeOK
<1> QED
    BY <1>2 DEF FormatInit, UsableInv, WorkIsState, BlankIsFormatted, Writes

(* The shape of the state is preserved. *)
LEMMA NextFormatType ==
    ASSUME FormatTypeOK, WorkIsState, [FormatNext]_formatVars
    PROVE  FormatTypeOK' /\ WorkIsState'
<1> USE FormatAssumption DEF FormatTypeOK, WorkIsState, Writes
<1>1. CASE UNCHANGED formatVars
    BY <1>1 DEF formatVars
<1>2. ASSUME NEW d \in Driver, StartDriver(d) PROVE FormatTypeOK' /\ WorkIsState'
    BY <1>2 DEF StartDriver
<1>3. ASSUME NEW d \in Driver, FormatHeader(d) PROVE FormatTypeOK' /\ WorkIsState'
    BY <1>3 DEF FormatHeader, BeginCopies
<1>4. ASSUME NEW d \in Driver, WriteCopy(d) PROVE FormatTypeOK' /\ WorkIsState'
    <2>1. segments' \in [1..3 -> Nat]
        BY <1>4 DEF WriteCopy
    <2>2. CASE next[d] < 3
        <3>1. next[d] + 1 \in 1..3
            BY <1>4, <2>2
        <3> QED
            BY <1>4, <2>1, <2>2, <3>1 DEF WriteCopy
    <2>3. CASE ~(next[d] < 3)
        BY <1>4, <2>1, <2>3 DEF WriteCopy, AtRest
    <2> QED
        BY <2>2, <2>3
<1>5. ASSUME NEW d \in Driver, Change(d) PROVE FormatTypeOK' /\ WorkIsState'
    <2>1. ReadState(segments) + 1 \in Nat /\ ReadState(segments) + 1 >= 1
        BY <1>5, ReadStateType
    <2> QED
        BY <1>5, <2>1 DEF Change, BeginCopies
<1>6. ASSUME NEW d \in Driver, Die(d) PROVE FormatTypeOK' /\ WorkIsState'
    BY <1>6 DEF Die, AtRest
<1> QED
    BY <1>1, <1>2, <1>3, <1>4, <1>5, <1>6 DEF FormatNext

(* A formatter that dies leaves blank copies, and the mark of a format cut *)
(* short; every other step leaves the blank copies to their formatter.     *)
LEMMA NextUsable == UsableInv /\ [FormatNext]_formatVars => UsableInv'
<1> SUFFICES ASSUME UsableInv, [FormatNext]_formatVars PROVE UsableInv'
    OBVIOUS
<1>1. FormatTypeOK /\ WorkIsState /\ BlankIsFormatted
    BY DEF UsableInv
<1>2. FormatTypeOK' /\ WorkIsState'
    BY <1>1, NextFormatType
<1>3. BlankIsFormatted'
    <2> SUFFICES ASSUME header' = "magic", ~cutShort'
                 PROVE  \/ \A i \in 1..3 : segments'[i] # 0
                        \/ \E d \in Driver :
                              /\ Writes(d)' /\ work'[d] = 1
                              /\ \A i \in 1..3 : i < next'[d] => segments'[i] # 0
        BY DEF BlankIsFormatted
    <2> USE DEF Writes
    <2>1. CASE UNCHANGED formatVars
        BY <1>1, <2>1 DEF formatVars, BlankIsFormatted
    <2>2. ASSUME NEW d \in Driver, FormatHeader(d)
          PROVE  \E e \in Driver :
                    /\ Writes(e)' /\ work'[e] = 1
                    /\ \A i \in 1..3 : i < next'[e] => segments'[i] # 0
        BY <1>1, <2>2 DEF FormatHeader, BeginCopies, FormatTypeOK
    <2>3. CASE UNCHANGED formatVars \/ ~\E d \in Driver : FormatHeader(d)
        <3>1. header = "magic" /\ ~cutShort
            BY <1>1, <2>3 DEF FormatNext, formatVars, StartDriver, WriteCopy, Change, Die,
               FormatTypeOK
        <3>2. CASE \A i \in 1..3 : segments[i] # 0
            <4>1. \A i \in 1..3 : segments'[i] # 0
                <5>1. ASSUME NEW d \in Driver, WriteCopy(d)
                      PROVE  \A i \in 1..3 : segments'[i] # 0
                    BY <1>1, <3>2, <5>1 DEF WriteCopy, FormatTypeOK, WorkIsState
                <5> QED
                    BY <2>3, <3>2, <5>1 DEF FormatNext, formatVars, StartDriver, Change, Die
            <4> QED
                BY <4>1
        <3>3. ASSUME NEW e \in Driver, Writes(e), work[e] = 1,
                     \A i \in 1..3 : i < next[e] => segments[i] # 0
              PROVE  \/ \A i \in 1..3 : segments'[i] # 0
                     \/ /\ Writes(e)' /\ work'[e] = 1
                        /\ \A i \in 1..3 : i < next'[e] => segments'[i] # 0
            <4>1. CASE UNCHANGED formatVars
                BY <3>3, <4>1 DEF formatVars
            <4>2. ASSUME NEW d \in Driver, StartDriver(d) \/ Change(d)
                  PROVE  /\ Writes(e)' /\ work'[e] = 1
                         /\ \A i \in 1..3 : i < next'[e] => segments'[i] # 0
                BY <1>1, <3>3, <4>2 DEF StartDriver, Change, BeginCopies, FormatTypeOK
            <4>3. ASSUME NEW d \in Driver, Die(d)
                  PROVE  /\ Writes(e)' /\ work'[e] = 1
                         /\ \A i \in 1..3 : i < next'[e] => segments'[i] # 0
                <5>1. d # e
                    BY <3>3, <4>3 DEF Die, Formats
                <5> QED
                    BY <1>1, <3>3, <4>3, <5>1 DEF Die, AtRest, FormatTypeOK
            <4>4. ASSUME NEW d \in Driver, WriteCopy(d), d # e
                  PROVE  /\ Writes(e)' /\ work'[e] = 1
                         /\ \A i \in 1..3 : i < next'[e] => segments'[i] # 0
                <5>1. Writes(e)' /\ work'[e] = 1 /\ next'[e] = next[e]
                    BY <1>1, <3>3, <4>4 DEF WriteCopy, AtRest, FormatTypeOK
                <5>2. \A i \in 1..3 : segments[i] # 0 => segments'[i] # 0
                    BY <1>1, <4>4 DEF WriteCopy, FormatTypeOK, WorkIsState
                <5> QED
                    BY <3>3, <5>1, <5>2
            <4>5. CASE WriteCopy(e)
                <5>1. \A i \in 1..3 : i <= next[e] => segments'[i] # 0
                    BY <1>1, <3>3, <4>5 DEF WriteCopy, Copies, FormatTypeOK, WorkIsState
                <5>2. CASE next[e] < 3
                    <6>1. Writes(e)' /\ work'[e] = 1 /\ next'[e] = next[e] + 1
                        BY <1>1, <3>3, <4>5, <5>2 DEF WriteCopy, FormatTypeOK
                    <6> QED
                        BY <1>1, <5>1, <6>1 DEF FormatTypeOK
                <5>3. CASE ~(next[e] < 3)
                    BY <1>1, <5>1, <5>3 DEF FormatTypeOK
                <5> QED
                    BY <5>2, <5>3
            <4> QED
                BY <2>3, <4>1, <4>2, <4>3, <4>4, <4>5 DEF FormatNext
        <3> QED
            BY <1>1, <3>1, <3>2, <3>3 DEF BlankIsFormatted
    <2> QED
        BY <2>2, <2>3
<1> QED
    BY <1>2, <1>3 DEF UsableInv

(* On a file that says it is formatted Send and Recv find a state, after   *)
(* any number of drivers that start at once and write over each other, and *)
(* any number of deaths but those in the middle of a format                *)
(* (mailbox.go:328-348, 433-475).                                          *)
THEOREM FormattedIsAlwaysUsable == FormatSpec => []FormattedIsUsable
<1>1. UsableInv => FormattedIsUsable
    <2> SUFFICES ASSUME UsableInv, Quiet, header = "magic", ~cutShort
                 PROVE  ReadState(segments) # 0
        BY DEF FormattedIsUsable
    <2>1. \A i \in 1..3 : segments[i] # 0
        BY DEF UsableInv, BlankIsFormatted, Quiet, Writes
    <2> QED
        BY <2>1 DEF ReadState
<1> QED
    BY <1>1, InitUsable, NextUsable, PTL DEF FormatSpec

-----------------------------------------------------------------------------
(* Only a formatter runs on a blank file, and nothing has been written. *)
BlankIsBlank ==
    header = "blank" =>
        /\ \A d \in Driver : step[d] \in {"down", "format"}
        /\ \A i \in 1..3 : segments[i] = 0
        /\ latest = 0

(* Without an overlap a formatter is alone. *)
FormatsAlone ==
    ~overlapped =>
        \A d \in Driver : Formats(d) =>
            /\ \A e \in Driver \ {d} : step[e] = "down"
            /\ step[d] = "format" => header = "blank"

(* Whoever changes the state has the lock. *)
ChangesLocked == \A d \in Driver : Writes(d) /\ work[d] # 1 => rpcLock = d

(* The copies before the one that is written next are written; the others  *)
(* are as the last complete write left them, if nobody died.               *)
WriterCopies ==
    ~cutShort /\ ~overlapped =>
        \A d \in Driver : Writes(d) =>
            /\ \A i \in 1..3 : i < next[d] => segments[i] = work[d]
            /\ deaths = 0 => \A i \in 1..3 : i >= next[d] => segments[i] = latest

(* While nobody writes, the vote finds the latest state, and all copies    *)
(* hold it if nobody died.                                                 *)
RestCopies ==
    ~cutShort /\ ~overlapped /\ (\A d \in Driver : ~Writes(d)) =>
        /\ ReadState(segments) = latest
        /\ deaths = 0 => \A i \in 1..3 : segments[i] = latest

StartInv ==
    /\ FormatTypeOK /\ WorkIsState
    /\ BlankIsBlank /\ FormatsAlone /\ ChangesLocked
    /\ WriterCopies /\ RestCopies

(* A writer that nobody overlaps with is the only one. *)
LEMMA OneWriter ==
    ASSUME FormatTypeOK, FormatsAlone, ChangesLocked, ~overlapped,
           NEW d \in Driver, NEW e \in Driver, Writes(d), Writes(e)
    PROVE  d = e
    BY DEF FormatTypeOK, FormatsAlone, ChangesLocked, Formats, Writes

(* All copies are blank at first. *)
LEMMA InitStart == FormatInit => StartInv
<1> SUFFICES ASSUME FormatInit PROVE StartInv
    OBVIOUS
<1>1. FormatTypeOK /\ WorkIsState
    BY InitUsable DEF UsableInv
<1> QED
    BY <1>1 DEF FormatInit, StartInv, BlankIsBlank, FormatsAlone, ChangesLocked, WriterCopies,
       RestCopies, Writes, Formats, ReadState

(* Who runs on the file, and with which right. *)
LEMMA NextRights ==
    ASSUME FormatTypeOK, WorkIsState, BlankIsBlank, FormatsAlone, ChangesLocked,
           [FormatNext]_formatVars
    PROVE  BlankIsBlank' /\ FormatsAlone' /\ ChangesLocked'
<1> USE DEF FormatTypeOK, BlankIsBlank, FormatsAlone, ChangesLocked, Writes, Formats
<1>1. CASE UNCHANGED formatVars
    BY <1>1 DEF formatVars
<1>2. ASSUME NEW d \in Driver, StartDriver(d)
      PROVE  BlankIsBlank' /\ FormatsAlone' /\ ChangesLocked'
    <2>1. BlankIsBlank' /\ ChangesLocked'
        BY <1>2 DEF StartDriver, MustFormat
    <2>2. FormatsAlone'
        <3> SUFFICES ASSUME ~overlapped', NEW e \in Driver, Formats(e)'
                     PROVE  /\ \A f \in Driver \ {e} : step'[f] = "down"
                            /\ step'[e] = "format" => header' = "blank"
            BY DEF FormatsAlone
        <3>1. ~overlapped /\ \A f \in Driver : ~Formats(f)
            BY <1>2 DEF StartDriver
        <3>2. e = d /\ header = "blank" /\ header' = header
            BY <1>2, <3>1 DEF StartDriver, MustFormat
        <3> QED
            BY <1>2, <3>1, <3>2 DEF StartDriver
    <2> QED
        BY <2>1, <2>2
<1>3. ASSUME NEW d \in Driver, FormatHeader(d)
      PROVE  BlankIsBlank' /\ FormatsAlone' /\ ChangesLocked'
    <2>1. BlankIsBlank' /\ ChangesLocked'
        BY <1>3 DEF FormatHeader, BeginCopies
    <2>2. FormatsAlone'
        BY <1>3 DEF FormatHeader, BeginCopies
    <2> QED
        BY <2>1, <2>2
<1>4. ASSUME NEW d \in Driver, WriteCopy(d)
      PROVE  BlankIsBlank' /\ FormatsAlone' /\ ChangesLocked'
    <2>1. CASE next[d] < 3
        BY <1>4, <2>1 DEF WriteCopy
    <2>2. CASE ~(next[d] < 3)
        <3>1. BlankIsBlank'
            BY <1>4, <2>2 DEF WriteCopy, AtRest
        <3>2. ChangesLocked'
            BY <1>4, <2>2 DEF WriteCopy, AtRest
        <3>3. FormatsAlone'
            <4>1. \A e \in Driver : Formats(e)' => e # d /\ Formats(e)
                BY <1>4, <2>2 DEF WriteCopy, AtRest
            <4> QED
                BY <1>4, <2>2, <4>1 DEF WriteCopy, AtRest
        <3> QED
            BY <3>1, <3>2, <3>3
    <2> QED
        BY <2>1, <2>2
<1>5. ASSUME NEW d \in Driver, Change(d)
      PROVE  BlankIsBlank' /\ FormatsAlone' /\ ChangesLocked'
    <2>1. ReadState(segments) + 1 # 1 /\ ReadState(segments) \in Nat
        BY <1>5, ReadStateType DEF Change
    <2>2. BlankIsBlank'
        BY <1>5 DEF Change, BeginCopies
    <2>3. \A e \in Driver : Formats(e)' => e # d /\ Formats(e)
        BY <1>5, <2>1 DEF Change, BeginCopies
    <2>4. FormatsAlone'
        BY <1>5, <2>3 DEF Change, BeginCopies
    <2>5. ChangesLocked'
        <3> SUFFICES ASSUME NEW e \in Driver, Writes(e)', work'[e] # 1 PROVE rpcLock' = e
            BY DEF ChangesLocked
        <3>1. CASE e = d
            BY <1>5, <3>1 DEF Change
        <3>2. CASE e # d
            <4>1. Writes(e) /\ work[e] # 1
                BY <1>5, <3>2 DEF Change, BeginCopies
            <4> QED
                BY <1>5, <3>2, <4>1, FormatAssumption DEF Change
        <3> QED
            BY <3>1, <3>2
    <2> QED
        BY <2>2, <2>4, <2>5
<1>6. ASSUME NEW d \in Driver, Die(d)
      PROVE  BlankIsBlank' /\ FormatsAlone' /\ ChangesLocked'
    <2>1. \A e \in Driver : Formats(e)' => e # d /\ Formats(e)
        BY <1>6 DEF Die, AtRest
    <2>2. BlankIsBlank' /\ ChangesLocked'
        BY <1>6 DEF Die, AtRest
    <2>3. FormatsAlone'
        BY <1>6, <2>1 DEF Die, AtRest
    <2> QED
        BY <2>2, <2>3
<1> QED
    BY <1>1, <1>2, <1>3, <1>4, <1>5, <1>6 DEF FormatNext

(* A writer's copies, through its own steps and those of the others. *)
LEMMA NextCopies ==
    ASSUME MaxDeaths <= 1, StartInv, [FormatNext]_formatVars
    PROVE  WriterCopies' /\ RestCopies'
<1>0. /\ FormatTypeOK /\ WorkIsState /\ BlankIsBlank /\ FormatsAlone /\ ChangesLocked
      /\ WriterCopies /\ RestCopies
    BY DEF StartInv
<1>1. CASE UNCHANGED formatVars
    BY <1>0, <1>1 DEF formatVars, WriterCopies, RestCopies, Writes, ReadState
<1>2. ASSUME NEW d \in Driver, StartDriver(d) PROVE WriterCopies' /\ RestCopies'
    <2>1. \A e \in Driver : Writes(e)' <=> Writes(e)
        BY <1>0, <1>2 DEF StartDriver, Writes, FormatTypeOK
    <2>2. (~overlapped' => ~overlapped) /\ UNCHANGED <<segments, next, work, deaths, latest, cutShort>>
        BY <1>2 DEF StartDriver
    <2> QED
        BY <1>0, <2>1, <2>2 DEF WriterCopies, RestCopies, ReadState
<1>3. ASSUME NEW d \in Driver, FormatHeader(d) PROVE WriterCopies' /\ RestCopies'
    <2>1. /\ Writes(d)' /\ next'[d] = 1
          /\ UNCHANGED <<segments, deaths, latest, cutShort, overlapped>>
        BY <1>0, <1>3 DEF FormatHeader, BeginCopies, Writes, FormatTypeOK
    <2>2. RestCopies'
        BY <2>1 DEF RestCopies
    <2>3. ASSUME ~cutShort', ~overlapped', NEW e \in Driver, Writes(e)'
          PROVE  /\ \A i \in 1..3 : i < next'[e] => segments'[i] = work'[e]
                 /\ deaths' = 0 => \A i \in 1..3 : i >= next'[e] => segments'[i] = latest'
        <3>1. e = d
            BY <1>0, <1>3, <2>1, <2>3 DEF FormatsAlone, Formats, Writes, FormatHeader,
               BeginCopies, FormatTypeOK
        <3>2. \A i \in 1..3 : segments[i] = latest
            BY <1>0, <1>3, <2>1, <2>3 DEF FormatsAlone, Formats, FormatHeader, BlankIsBlank
        <3> QED
            BY <2>1, <3>1, <3>2
    <2> QED
        BY <2>2, <2>3 DEF WriterCopies
<1>4. ASSUME NEW d \in Driver, WriteCopy(d) PROVE WriterCopies' /\ RestCopies'
    <2> SUFFICES ASSUME ~cutShort, ~overlapped PROVE WriterCopies' /\ RestCopies'
        BY <1>4 DEF WriteCopy, WriterCopies, RestCopies
    <2>1. \A e \in Driver : Writes(e) => e = d
        BY <1>0, <1>4, OneWriter DEF WriteCopy, Writes
    <2>2. /\ \A i \in 1..3 : i <= next[d] => segments'[i] = work[d]
          /\ \A i \in 1..3 : i > next[d] => segments'[i] = segments[i]
        BY <1>0, <1>4 DEF WriteCopy, Copies, WriterCopies, FormatTypeOK, Writes
    <2>3. CASE next[d] < 3
        <3>1. /\ next'[d] = next[d] + 1 /\ UNCHANGED <<work, step, latest, deaths>>
            BY <1>0, <1>4, <2>3 DEF WriteCopy, FormatTypeOK
        <3>2. RestCopies'
            BY <1>4, <3>1 DEF RestCopies, Writes, WriteCopy
        <3>3. \A i \in 1..3 : i < next'[d] => segments'[i] = work'[d]
            BY <1>0, <2>2, <3>1 DEF FormatTypeOK
        <3>4. deaths' = 0 => \A i \in 1..3 : i >= next'[d] => segments'[i] = latest'
            BY <1>0, <1>4, <2>2, <3>1 DEF FormatTypeOK, WriterCopies, Writes, WriteCopy
        <3> QED
            BY <2>1, <3>1, <3>2, <3>3, <3>4 DEF WriterCopies, Writes
    <2>4. CASE ~(next[d] < 3)
        <3>1. latest' = work[d] /\ \A e \in Driver : ~Writes(e)'
            BY <1>0, <1>4, <2>1, <2>4 DEF WriteCopy, AtRest, Writes, FormatTypeOK
        <3>2. \A i \in 1..3 : segments'[i] = work[d]
            BY <1>0, <2>2, <2>4 DEF FormatTypeOK
        <3> QED
            BY <3>1, <3>2 DEF WriterCopies, RestCopies, ReadState
    <2> QED
        BY <2>3, <2>4
<1>5. ASSUME NEW d \in Driver, Change(d) PROVE WriterCopies' /\ RestCopies'
    <2>1. /\ Writes(d)' /\ next'[d] = 1
          /\ UNCHANGED <<segments, deaths, latest, cutShort, overlapped>>
        BY <1>0, <1>5 DEF Change, BeginCopies, Writes, FormatTypeOK
    <2>2. RestCopies'
        BY <2>1 DEF RestCopies
    <2>3. ASSUME ~cutShort', ~overlapped', NEW e \in Driver, Writes(e)'
          PROVE  /\ \A i \in 1..3 : i < next'[e] => segments'[i] = work'[e]
                 /\ deaths' = 0 => \A i \in 1..3 : i >= next'[e] => segments'[i] = latest'
        <3>0. FormatTypeOK' /\ FormatsAlone' /\ ChangesLocked'
            BY <1>0, NextFormatType, NextRights
        <3>1. e = d
            <4>1. \A x, y \in Driver : Writes(x)' /\ Writes(y)' => x = y
                BY <2>3, <3>0 DEF FormatTypeOK, FormatsAlone, ChangesLocked, Formats, Writes
            <4> QED
                BY <2>1, <2>3, <4>1
        <3>2. \A f \in Driver : ~Writes(f)
            <4>1. \A f \in Driver : Writes(f) => f # d /\ Writes(f)'
                BY <1>0, <1>5 DEF Change, BeginCopies, Writes, FormatTypeOK
            <4>2. \A x, y \in Driver : Writes(x)' /\ Writes(y)' => x = y
                BY <2>3, <3>0 DEF FormatTypeOK, FormatsAlone, ChangesLocked, Formats, Writes
            <4> QED
                BY <2>1, <4>1, <4>2
        <3>3. deaths = 0 => \A i \in 1..3 : segments[i] = latest
            BY <1>0, <2>1, <2>3, <3>2 DEF RestCopies
        <3> QED
            BY <2>1, <3>1, <3>3
    <2> QED
        BY <2>2, <2>3 DEF WriterCopies
<1>6. ASSUME NEW d \in Driver, Die(d) PROVE WriterCopies' /\ RestCopies'
    <2> SUFFICES ASSUME ~cutShort', ~overlapped' PROVE WriterCopies' /\ RestCopies'
        BY DEF WriterCopies, RestCopies
    <2>1. /\ deaths = 0 /\ deaths' = 1 /\ ~cutShort /\ ~overlapped
          /\ UNCHANGED <<segments, header>>
        BY <1>0, <1>6, FormatAssumption DEF Die, FormatTypeOK
    <2>2. \A e \in Driver : Writes(e)' => Writes(e) /\ e # d /\ next'[e] = next[e] /\ work'[e] = work[e]
        BY <1>0, <1>6 DEF Die, AtRest, Writes, FormatTypeOK
    <2>3. WriterCopies'
        BY <1>0, <2>1, <2>2 DEF WriterCopies
    <2>4. ASSUME \A e \in Driver : ~Writes(e)' PROVE ReadState(segments)' = latest'
        <3>1. CASE Writes(d)
            <4>1. /\ \A i \in 1..3 : i < next[d] => segments[i] = work[d]
                  /\ \A i \in 1..3 : i >= next[d] => segments[i] = latest
                BY <1>0, <2>1, <3>1 DEF WriterCopies
            <4>2. next[d] \in 1..3
                BY <1>0, <3>1 DEF FormatTypeOK, WorkIsState
            <4>3. latest' = IF ReadState(segments) = work[d] THEN work[d] ELSE latest
                BY <1>6, <3>1 DEF Die, Writes
            <4>4. ReadState(segments) = latest'
                BY <4>1, <4>2, <4>3 DEF ReadState
            <4> QED
                BY <2>1, <4>4 DEF ReadState
        <3>2. CASE ~Writes(d)
            <4>1. \A e \in Driver : ~Writes(e)
                BY <1>0, <1>6, <2>4, <3>2 DEF Die, AtRest, Writes, FormatTypeOK
            <4>2. ReadState(segments) = latest /\ latest' = latest
                BY <1>0, <1>6, <2>1, <3>2, <4>1 DEF RestCopies, Die, Writes
            <4> QED
                BY <2>1, <4>2 DEF ReadState
        <3> QED
            BY <3>1, <3>2
    <2> QED
        BY <2>1, <2>3, <2>4 DEF RestCopies
<1> QED
    BY <1>1, <1>2, <1>3, <1>4, <1>5, <1>6 DEF FormatNext

(* The state that a driver finds when it starts is the one that the last   *)
(* Send or Recv left, or the one before if that was cut short by the only  *)
(* death so far; a second death inside a write could leave a copy of each  *)
(* of two changes, between which the vote cannot choose                    *)
(* (mailbox.go:123-144, 340-344).                                          *)
THEOREM StartAlwaysKeepsState ==
    ASSUME MaxDeaths <= 1 PROVE FormatSpec => []StartKeepsState
<1>1. StartInv /\ [FormatNext]_formatVars => StartInv'
    BY NextFormatType, NextRights, NextCopies DEF StartInv
<1>2. StartInv => StartKeepsState
    BY DEF StartInv, StartKeepsState, RestCopies, Quiet, Writes
<1> QED
    BY <1>1, <1>2, InitStart, PTL DEF FormatSpec
=============================================================================
