------------------------------ MODULE RequestProofs ------------------------------
(***************************************************************************)
(* Proofs about VolumeListing, VolumeRequest and VolumeTags: listings of   *)
(* any number of volumes, in pages of any size, are exact; the unsigned    *)
(* arithmetic of the sizes, for words, sectors and volume groups of any    *)
(* size, stays in the range asked for; capabilities in lists of any length *)
(* are honoured; tags with keys and values of any length survive lvm.      *)
(***************************************************************************)
EXTENDS VolumeListing, VolumeRequest, VolumeTags, FiniteSetTheorems, SequenceTheorems,
        WellFoundedInduction, TLAPS

Increasing(list) == \A i, j \in DOMAIN list : i < j => list[i] < list[j]

(* A nonempty set of numbers has a least one. *)
LEMMA LeastOf ==
    ASSUME NEW T \in SUBSET Nat, T # {}
    PROVE  \E x \in T : \A y \in T : x <= y
<1>1. PICK x \in T : \A y \in T : ~ (<<y, x>> \in OpToRel(<, Nat))
    BY NatLessThanWellFounded, WFMin
<1>2. \A y \in T : ~ (y < x)
    BY <1>1 DEF OpToRel
<1> QED
    BY <1>2

SortsTo(list, S) == list \in [1..Cardinality(S) -> S] /\ Increasing(list)

(* Every finite set of numbers can be sorted: the least one that cannot,   *)
(* without its least element, can.                                         *)
LEMMA SortedExists ==
    ASSUME NEW S \in SUBSET Nat, IsFiniteSet(S)
    PROVE  \E list : SortsTo(list, S)
<1> DEFINE Bad(U) == U \in SUBSET Nat /\ IsFiniteSet(U) /\ ~ \E list : SortsTo(list, U)
           Sizes == {k \in Nat : \E U : Bad(U) /\ Cardinality(U) = k}
<1> SUFFICES ASSUME Bad(S) PROVE FALSE
    OBVIOUS
<1>1. PICK k \in Sizes : \A h \in Sizes : k <= h
    <2>1. Cardinality(S) \in Sizes
        BY FS_CardinalityType
    <2>2. Sizes \in SUBSET Nat
        OBVIOUS
    <2> HIDE DEF Sizes
    <2> QED
        BY <2>1, <2>2, LeastOf
<1>2. PICK U : Bad(U) /\ Cardinality(U) = k
    BY <1>1
<1>3. U # {}
    <2> SUFFICES ASSUME U = {} PROVE FALSE
        OBVIOUS
    <2>1. SortsTo(<<>>, {})
        BY FS_EmptySet DEF SortsTo, Increasing
    <2> QED
        BY <1>2, <2>1
<1>4. PICK x \in U : \A y \in U : x <= y
    BY <1>2, <1>3, LeastOf
<1> DEFINE V == U \ {x}
<1>5. IsFiniteSet(V) /\ Cardinality(V) = k - 1 /\ V \in SUBSET Nat /\ k - 1 \in Nat
    <2>1. IsFiniteSet(V) /\ Cardinality(V) = k - 1
        BY <1>2, <1>4, FS_RemoveElement
    <2> QED
        BY <1>2, <2>1, FS_CardinalityType
<1>6. PICK t : SortsTo(t, V)
    <2>1. k - 1 \notin Sizes
        BY <1>1, <1>5
    <2> QED
        BY <2>1, <1>5
<1> DEFINE s == [i \in 1..k |-> IF i = 1 THEN x ELSE t[i - 1]]
<1>7. t \in [1..(k - 1) -> V] /\ \A i, j \in 1..(k - 1) : i < j => t[i] < t[j]
    BY <1>5, <1>6 DEF SortsTo, Increasing
<1>8. \A y \in V : x < y
    BY <1>2, <1>4
<1>9. s \in [1..k -> U]
    BY <1>4, <1>7
<1>10. \A i, j \in 1..k : i < j => s[i] < s[j]
    BY <1>7, <1>8
<1>11. SortsTo(s, U)
    BY <1>2, <1>9, <1>10 DEF SortsTo, Increasing
<1> QED
    BY <1>2, <1>11

(* What the server lists: everything that there is, in order, once. *)
LEMMA SortedList ==
    ASSUME NEW S \in SUBSET Id
    PROVE  /\ Sorted(S) \in Seq(S) /\ Increasing(Sorted(S))
           /\ \A x \in S : \E i \in 1..Len(Sorted(S)) : Sorted(S)[i] = x
<1>1. S \in SUBSET Nat /\ IsFiniteSet(S)
    BY VolumeListingAssumption, FS_Subset
<1>2. PICK list : SortsTo(list, S)
    BY <1>1, SortedExists
<1> DEFINE l == Sorted(S)
           c == Cardinality(S)
<1>3. c \in Nat
    BY <1>1, FS_CardinalityType
<1>4. l \in [1..c -> S] /\ \A i, j \in 1..c : i < j => l[i] < l[j]
    <2>1. list \in [1..c -> S] /\ \A i, j \in 1..c : i < j => list[i] < list[j]
        BY <1>2 DEF SortsTo, Increasing
    <2> QED
        BY <2>1 DEF Sorted
<1> HIDE DEF l
<1>5. l \in Injection(1..c, S)
    <2>1. ASSUME NEW i \in 1..c, NEW j \in 1..c, l[i] = l[j] PROVE i = j
        <3>1. l[i] \in Nat /\ l[j] \in Nat
            BY <1>1, <1>4
        <3>2. ~(i < j) /\ ~(j < i)
            BY <1>4, <2>1, <3>1
        <3> QED
            BY <1>3, <3>2
    <2> QED
        BY <1>4, <2>1 DEF Injection, IsInjective
<1>6. l \in Surjection(1..c, S)
    BY <1>1, <1>3, <1>5, FS_Injection, FS_Interval
<1>7. l \in Seq(S) /\ Len(l) = c
    BY <1>3, <1>4
<1>8. Increasing(l)
    BY <1>4 DEF Increasing
<1>9. \A x \in S : \E i \in 1..c : l[i] = x
    BY <1>6 DEF Surjection
<1> QED
    BY <1>7, <1>8, <1>9 DEF l

(* A page of lvs from index i on, after what the client got so far: the    *)
(* entries remain in order, and what is left out comes after the token.    *)
LEMMA PageIsNext ==
    ASSUME NEW lvs \in Seq(Id), Increasing(lvs), NEW got \in Seq(Id), Increasing(got),
           NEW i \in 1..(Len(lvs) + 1), i <= Len(lvs) \/ i = 1, NEW max \in Nat,
           \A h \in 1..Len(got), j \in 1..Len(lvs) : i <= j => got[h] < lvs[j]
    PROVE  LET end == PageEnd(lvs, i, max)
               all == got \o SubSeq(lvs, i, end)
               next == NextToken(lvs, end)
           IN  /\ all \in Seq(Id) /\ Increasing(all)
               /\ \A h \in 1..Len(got) : \E g \in 1..Len(all) : all[g] = got[h]
               /\ next # 0 => /\ \E j \in 1..Len(lvs) : next = lvs[j]
                              /\ \A h \in 1..Len(all) : all[h] < next
               /\ \A j \in 1..Len(lvs) : i <= j =>
                     \/ \E h \in 1..Len(all) : all[h] = lvs[j]
                     \/ next # 0 /\ next <= lvs[j]
<1> DEFINE end == PageEnd(lvs, i, max)
           page == SubSeq(lvs, i, end)
           all == got \o page
           next == NextToken(lvs, end)
<1>0. Id \subseteq Nat \ {0}
    BY VolumeListingAssumption
<1>1. end \in Nat /\ i - 1 <= end /\ end <= Len(lvs)
    BY DEF PageEnd
<1>2. next = IF end < Len(lvs) THEN lvs[end + 1] ELSE 0
    BY DEF NextToken
<1> HIDE DEF end, next
<1>3. /\ page \in Seq(Id) /\ Len(page) = end - i + 1
      /\ \A h \in 1..Len(page) : page[h] = lvs[i + h - 1]
    BY <1>1
<1> HIDE DEF page
<1>4. /\ all \in Seq(Id) /\ Len(all) = Len(got) + Len(page)
      /\ \A h \in 1..Len(got) : all[h] = got[h]
      /\ \A h \in (Len(got) + 1)..Len(all) : all[h] = lvs[(h - Len(got)) + i - 1]
    <2>1. /\ all \in Seq(Id) /\ Len(all) = Len(got) + Len(page)
          /\ \A h \in 1..Len(got) : all[h] = got[h]
          /\ \A h \in 1..Len(page) : all[Len(got) + h] = page[h]
        BY <1>3, ConcatProperties
    <2>2. ASSUME NEW h \in (Len(got) + 1)..Len(all) PROVE all[h] = lvs[(h - Len(got)) + i - 1]
        <3> DEFINE g == h - Len(got)
        <3>1. g \in 1..Len(page) /\ all[h] = page[g]
            BY <1>3, <2>1
        <3>2. page[g] = lvs[i + g - 1] /\ i + g - 1 = g + i - 1
            BY <1>3, <3>1
        <3> QED
            BY <3>1, <3>2
    <2> QED
        BY <2>1, <2>2
<1> HIDE DEF all
<1>5. /\ \A h, j \in 1..Len(got) : h < j => got[h] < got[j]
      /\ \A h, j \in 1..Len(lvs) : h < j => lvs[h] < lvs[j]
    BY DEF Increasing
<1>6. ASSUME NEW h \in 1..Len(all), NEW j \in 1..Len(all), h < j PROVE all[h] < all[j]
    <2>1. CASE j <= Len(got)
        BY <1>4, <1>5, <1>6, <2>1
    <2>2. CASE h <= Len(got) /\ Len(got) < j
        <3> DEFINE b == (j - Len(got)) + i - 1
        <3>1. b \in 1..Len(lvs) /\ i <= b /\ all[j] = lvs[b] /\ all[h] = got[h]
            BY <1>1, <1>3, <1>4, <2>2
        <3> QED
            BY <2>2, <3>1
    <2>3. CASE Len(got) < h
        <3> DEFINE a == (h - Len(got)) + i - 1
                   b == (j - Len(got)) + i - 1
        <3>1. a \in 1..Len(lvs) /\ b \in 1..Len(lvs) /\ a < b
            BY <1>1, <1>3, <1>4, <1>6, <2>3
        <3>2. all[h] = lvs[a] /\ all[j] = lvs[b]
            <4>1. h \in (Len(got) + 1)..Len(all) /\ j \in (Len(got) + 1)..Len(all)
                BY <1>4, <1>6, <2>3
            <4> QED
                BY <1>4, <4>1
        <3> HIDE DEF a, b
        <3> QED
            BY <1>5, <3>1, <3>2
    <2> QED
        BY <2>1, <2>2, <2>3
<1>7. Increasing(all)
    BY <1>4, <1>6 DEF Increasing
<1>8. ASSUME next # 0
      PROVE  /\ \E j \in 1..Len(lvs) : next = lvs[j]
             /\ \A h \in 1..Len(all) : all[h] < next
    <2>1. end + 1 \in 1..Len(lvs) /\ next = lvs[end + 1] /\ i <= end + 1
        BY <1>1, <1>2, <1>8
    <2>2. ASSUME NEW h \in 1..Len(all) PROVE all[h] < next
        <3>1. CASE h <= Len(got)
            BY <1>4, <2>1, <3>1
        <3>2. CASE Len(got) < h
            <4> DEFINE a == (h - Len(got)) + i - 1
            <4>1. a \in 1..Len(lvs) /\ a < end + 1 /\ all[h] = lvs[a]
                BY <1>1, <1>3, <1>4, <3>2
            <4> HIDE DEF a
            <4> QED
                BY <1>5, <2>1, <4>1
        <3> QED
            BY <3>1, <3>2
    <2> QED
        BY <2>1, <2>2
<1>9. ASSUME NEW j \in 1..Len(lvs), i <= j
      PROVE  (\E h \in 1..Len(all) : all[h] = lvs[j]) \/ (next # 0 /\ next <= lvs[j])
    <2>1. CASE j <= end
        <3> DEFINE h == Len(got) + (j - i) + 1
        <3>1. h \in (Len(got) + 1)..Len(all) /\ (h - Len(got)) + i - 1 = j
            BY <1>1, <1>3, <1>4, <1>9, <2>1
        <3> HIDE DEF h
        <3>2. all[h] = lvs[(h - Len(got)) + i - 1] /\ h \in 1..Len(all)
            BY <1>4, <3>1
        <3>3. all[h] = lvs[j]
            BY <3>1, <3>2
        <3> QED
            BY <3>2, <3>3
    <2>2. CASE end < j
        <3>1. end + 1 \in 1..Len(lvs) /\ next = lvs[end + 1]
            BY <1>1, <1>2, <2>2
        <3>2. next \in Nat /\ next # 0 /\ lvs[j] \in Nat
            <4>1. next \in Id /\ lvs[j] \in Id
                BY <3>1
            <4> QED
                BY <1>0, <4>1
        <3>3. end + 1 = j \/ next < lvs[j]
            BY <1>1, <1>5, <2>2, <3>1
        <3> QED
            BY <3>1, <3>2, <3>3
    <2> QED
        BY <1>1, <2>1, <2>2
<1>10. \A h \in 1..Len(got) : \E g \in 1..Len(all) : all[g] = got[h]
    BY <1>3, <1>4
<1> QED
    BY <1>4, <1>7, <1>8, <1>9, <1>10 DEF end, page, all, next

(* Where a listing is: what matched all along was seen or is still to come *)
(* and the token is in the list unless something that matched is gone.     *)
Listed(x) == \E i \in 1..Len(seen) : seen[i] = x

ListingTypes ==
    /\ exists \in SUBSET Id
    /\ source \in [Id -> Source \cup {NoSource}]
    /\ filter \in Source \cup {NoSource}
    /\ seen \in Seq(Id)
    /\ lost \in BOOLEAN

Underway ==
    status = "more" =>
        /\ token \in Id
        /\ \A i \in 1..Len(seen) : seen[i] < token
        /\ \A x \in lasting : Listed(x) \/ token <= x
        /\ ~lost => token \in exists /\ Matches(token, filter)

ListingInv ==
    /\ ListingTypes
    /\ Increasing(seen)
    /\ lasting \subseteq {x \in exists : Matches(x, filter)}
    /\ Underway
    /\ status = "complete" => \A x \in lasting : Listed(x)
    /\ status = "aborted" => lost

(* A request takes the listing on, from the token or from the beginning. *)
LEMMA ListStep ==
    ASSUME ListingTypes, NEW f, NEW start, NEW got \in Seq(Id), NEW max \in Nat, Increasing(got),
           NEW wanted \in SUBSET {x \in exists : Matches(x, f)},
           \/ start = 0 /\ got = <<>>
           \/ /\ start \in Id
              /\ \A i \in 1..Len(got) : got[i] < start
              /\ \A x \in wanted : (\E i \in 1..Len(got) : got[i] = x) \/ start <= x,
           List(f, start, got, max)
    PROVE  \/ /\ status' = "aborted" /\ seen' = seen
              /\ start # 0 /\ start \notin {x \in exists : Matches(x, f)}
           \/ /\ seen' \in Seq(Id) /\ Increasing(seen')
              /\ \/ status' = "complete" /\ token' = 0 /\ \A x \in wanted : Listed(x)'
                 \/ /\ status' = "more" /\ token' \in {x \in exists : Matches(x, f)}
                    /\ \A i \in 1..Len(seen') : seen'[i] < token'
                    /\ \A x \in wanted : Listed(x)' \/ token' <= x
<1> DEFINE S == {x \in exists : Matches(x, f)}
           lvs == Lvs(f)
           I == {j \in 1..Len(lvs) : lvs[j] = start}
           i == IF start = 0 THEN 1 ELSE SelectInSeq(lvs, LAMBDA x : x = start)
           end == PageEnd(lvs, i, max)
<1>0. Id \subseteq Nat \ {0}
    BY VolumeListingAssumption
<1>1. S \in SUBSET Id /\ lvs = Sorted(S)
    BY DEF ListingTypes, Lvs
<1>2. /\ lvs \in Seq(S) /\ lvs \in Seq(Id) /\ Increasing(lvs)
      /\ \A x \in S : \E j \in 1..Len(lvs) : lvs[j] = x
    <2>1. /\ lvs \in Seq(S) /\ Increasing(lvs)
          /\ \A x \in S : \E j \in 1..Len(lvs) : lvs[j] = x
        BY <1>1, SortedList
    <2>2. lvs \in Seq(Id)
        BY <1>1, <2>1
    <2> QED
        BY <2>1, <2>2
<1>3. /\ i = 0 => status' = "aborted" /\ seen' = seen
      /\ i # 0 => /\ seen' = got \o SubSeq(lvs, i, end)
                 /\ token' = NextToken(lvs, end)
                 /\ status' = IF token' = 0 THEN "complete" ELSE "more"
    BY DEF List
<1>4. start # 0 => i = IF I # {} THEN Min(I) ELSE 0
    BY DEF SelectInSeq
<1> HIDE DEF lvs, i
<1>5. I # {} => Min(I) \in I
    <2> SUFFICES ASSUME I # {} PROVE Min(I) \in I
        OBVIOUS
    <2>1. I \in SUBSET Nat
        BY <1>2
    <2> HIDE DEF I
    <2>2. \E x \in I : \A y \in I : x <= y
        BY <2>1, LeastOf
    <2> QED
        BY <2>2 DEF Min
<1>6. CASE i = 0
    <2>1. start # 0 /\ I = {}
        <3>1. start # 0
            BY <1>6 DEF i
        <3>2. ASSUME I # {} PROVE FALSE
            BY <1>2, <1>4, <1>5, <1>6, <3>1, <3>2
        <3> QED
            BY <3>1, <3>2
    <2>2. start \notin S
        BY <1>2, <2>1
    <2> QED
        BY <1>3, <1>6, <2>1, <2>2
<1>7. CASE i # 0
    <2>1. start # 0 => i \in I
        BY <1>4, <1>5, <1>7
    <2>2. i \in 1..(Len(lvs) + 1) /\ (i <= Len(lvs) \/ i = 1)
        <3>1. Len(lvs) \in Nat /\ (start = 0 => i = 1) /\ (start # 0 => i \in 1..Len(lvs))
            BY <1>2, <2>1 DEF i
        <3> QED
            BY <3>1
    <2>3. \A h, j \in 1..Len(lvs) : h < j => lvs[h] < lvs[j]
        <3>1. DOMAIN lvs = 1..Len(lvs)
            BY <1>2
        <3> QED
            BY <1>2, <3>1 DEF Increasing
    <2>4. \A j \in 1..Len(lvs) : lvs[j] \in Nat \ {0}
        <3>1. \A j \in 1..Len(lvs) : lvs[j] \in Id
            BY <1>2
        <3> QED
            BY <1>0, <3>1
    <2>5. start # 0 => \A j \in 1..Len(lvs) : i <= j => start <= lvs[j]
        BY <2>1, <2>3, <2>4
    <2>6. start # 0 => \A j \in 1..Len(lvs) : start <= lvs[j] => i <= j
        BY <2>1, <2>3, <2>4
    <2>7. \A h \in 1..Len(got), j \in 1..Len(lvs) : i <= j => got[h] < lvs[j]
        <3>1. CASE start = 0
            BY <1>0, <3>1
        <3>2. CASE start # 0
            <4>1. \A h \in 1..Len(got) : got[h] \in Nat /\ got[h] < start
                <5>1. \A h \in 1..Len(got) : got[h] \in Id /\ got[h] < start
                    BY <3>2
                <5> QED
                    BY <1>0, <5>1
            <4>2. start \in Nat
                BY <1>0, <3>2
            <4> QED
                BY <2>4, <2>5, <3>2, <4>1, <4>2
        <3> QED
            BY <3>1, <3>2
    <2>8. /\ seen' \in Seq(Id) /\ Increasing(seen')
          /\ \A h \in 1..Len(got) : \E g \in 1..Len(seen') : seen'[g] = got[h]
          /\ token' # 0 => /\ \E j \in 1..Len(lvs) : token' = lvs[j]
                           /\ \A h \in 1..Len(seen') : seen'[h] < token'
          /\ \A j \in 1..Len(lvs) : i <= j =>
                \/ \E h \in 1..Len(seen') : seen'[h] = lvs[j]
                \/ token' # 0 /\ token' <= lvs[j]
        <3> DEFINE all == got \o SubSeq(lvs, i, end)
                   next == NextToken(lvs, end)
        <3>1. /\ all \in Seq(Id) /\ Increasing(all)
              /\ \A h \in 1..Len(got) : \E g \in 1..Len(all) : all[g] = got[h]
              /\ next # 0 => /\ \E j \in 1..Len(lvs) : next = lvs[j]
                             /\ \A h \in 1..Len(all) : all[h] < next
              /\ \A j \in 1..Len(lvs) : i <= j =>
                    \/ \E h \in 1..Len(all) : all[h] = lvs[j]
                    \/ next # 0 /\ next <= lvs[j]
            BY <1>2, <2>2, <2>7, PageIsNext
        <3>2. seen' = all /\ token' = next
            BY <1>3, <1>7
        <3> HIDE DEF all, next
        <3> QED
            BY <3>1, <3>2
    <2>9. ASSUME NEW x \in wanted PROVE Listed(x)' \/ (token' # 0 /\ token' <= x)
        <3>1. PICK j \in 1..Len(lvs) : lvs[j] = x
            BY <1>2
        <3>2. CASE i <= j
            BY <2>8, <3>1, <3>2 DEF Listed
        <3>3. CASE ~(i <= j)
            <4>1. start # 0
                BY <1>2, <3>3 DEF i
            <4>2. ~(start <= x)
                BY <2>6, <3>1, <3>3, <4>1
            <4>3. \E h \in 1..Len(got) : got[h] = x
                BY <4>1, <4>2
            <4> QED
                BY <2>8, <4>3 DEF Listed
        <3> QED
            BY <3>2, <3>3
    <2>10. CASE token' = 0
        BY <1>3, <1>7, <2>8, <2>9, <2>10
    <2>11. CASE token' # 0
        <3>1. token' \in S
            BY <1>2, <2>8, <2>11
        <3> QED
            BY <1>3, <1>7, <2>8, <2>9, <2>11, <3>1
    <2> QED
        BY <2>10, <2>11
<1> QED
    BY <1>6, <1>7

(* A listing begins: what matches now is all that can be lost. *)
LEMMA FirstPageStep ==
    ASSUME ListingInv, NEW f \in Source \cup {NoSource}, NEW max \in Nat, FirstPage(f, max)
    PROVE  ListingInv'
<1> DEFINE S == {x \in exists : Matches(x, f)}
<1>1. /\ filter' = f /\ lasting' = S /\ lost' = FALSE
      /\ exists' = exists /\ source' = source /\ List(f, 0, <<>>, max)
    BY DEF FirstPage
<1>2. {x \in exists : Matches(x, filter)}' = S
    BY <1>1 DEF Matches
<1>3. <<>> \in Seq(Id) /\ Increasing(<<>>)
    BY DEF Increasing
<1>4. /\ seen' \in Seq(Id) /\ Increasing(seen')
      /\ \/ status' = "complete" /\ token' = 0 /\ \A x \in S : Listed(x)'
         \/ /\ status' = "more" /\ token' \in S
            /\ \A i \in 1..Len(seen') : seen'[i] < token'
            /\ \A x \in S : Listed(x)' \/ token' <= x
    BY <1>1, <1>3, ListStep DEF ListingInv
<1>5. ListingTypes'
    BY <1>1, <1>4 DEF ListingInv, ListingTypes
<1>6. Increasing(seen)'
    BY <1>4 DEF Increasing
<1>7. (status' = "more" => token' \in exists' /\ token' \in Id /\ Matches(token, filter)')
    BY <1>1, <1>2, <1>4 DEF ListingInv, ListingTypes, Matches
<1>8. Underway'
    BY <1>1, <1>4, <1>7 DEF Underway
<1> QED
    BY <1>1, <1>2, <1>4, <1>5, <1>6, <1>8 DEF ListingInv

(* It goes on from its token, or is aborted since the token is gone. *)
LEMMA NextPageStep ==
    ASSUME ListingInv, NEW max \in Nat, NextPage(max)
    PROVE  ListingInv'
<1> DEFINE S == {x \in exists : Matches(x, filter)}
<1>1. /\ filter' = filter /\ lasting' = lasting /\ lost' = lost
      /\ exists' = exists /\ source' = source /\ status = "more"
      /\ List(filter, token, seen, max)
    BY DEF NextPage
<1>2. /\ token \in Id
      /\ \A i \in 1..Len(seen) : seen[i] < token
      /\ \A x \in lasting : (\E i \in 1..Len(seen) : seen[i] = x) \/ token <= x
      /\ ~lost => token \in S
    BY <1>1 DEF ListingInv, Underway, Listed
<1>3. ListingTypes /\ seen \in Seq(Id) /\ Increasing(seen) /\ lasting \in SUBSET S
    BY DEF ListingInv, ListingTypes
<1>4. S' = S
    BY <1>1 DEF Matches
<1>5. \/ /\ status' = "aborted" /\ seen' = seen /\ token \notin S
      \/ /\ seen' \in Seq(Id) /\ Increasing(seen')
         /\ \/ status' = "complete" /\ token' = 0 /\ \A x \in lasting : Listed(x)'
            \/ /\ status' = "more" /\ token' \in S
               /\ \A i \in 1..Len(seen') : seen'[i] < token'
               /\ \A x \in lasting : Listed(x)' \/ token' <= x
    BY <1>1, <1>2, <1>3, ListStep
<1>6. ListingTypes' /\ Increasing(seen')
    BY <1>1, <1>3, <1>5 DEF ListingTypes
<1>7. Increasing(seen)'
    BY <1>6 DEF Increasing
<1>8. status' = "more" => token' \in exists' /\ token' \in Id /\ Matches(token, filter)'
    BY <1>1, <1>3, <1>5 DEF ListingTypes, Matches
<1>9. Underway'
    BY <1>1, <1>5, <1>8 DEF Underway
<1>10. status' = "aborted" => lost'
    BY <1>1, <1>2, <1>5
<1>11. status' = "complete" => \A x \in lasting' : Listed(x)'
    BY <1>1, <1>5
<1>12. lasting' \subseteq S'
    BY <1>1, <1>3, <1>4
<1> QED
    BY <1>6, <1>7, <1>9, <1>10, <1>11, <1>12 DEF ListingInv

(* Volumes that are created or deleted between the pages. *)
LEMMA ChangeStep ==
    ASSUME ListingInv, NEW x \in Id, Delete(x) \/ \E s \in Source : Create(x, s)
    PROVE  ListingInv'
<1>1. /\ filter' = filter /\ token' = token /\ seen' = seen /\ status' = status
      /\ lasting' \subseteq lasting /\ (lost => lost') /\ lost' \in BOOLEAN
      /\ exists' \in SUBSET Id /\ source' \in [Id -> Source \cup {NoSource}]
    BY DEF Delete, Create, ListingInv, ListingTypes
<1>2. ASSUME NEW y \in exists, Matches(y, filter)
      PROVE  /\ y \in lasting' \/ (y \in lasting => y = x /\ lost')
             /\ y \in lasting' => y \in exists' /\ Matches(y, filter)'
             /\ ~lost' => y \in exists' /\ Matches(y, filter)'
    BY <1>2 DEF Delete, Create, Matches, ListingInv, ListingTypes
<1>3. ListingTypes' /\ Increasing(seen)'
    BY <1>1 DEF ListingInv, ListingTypes, Increasing
<1>4. lasting' \subseteq {y \in exists : Matches(y, filter)}'
    BY <1>1, <1>2 DEF ListingInv
<1>5. \A y : Listed(y)' <=> Listed(y)
    BY <1>1 DEF Listed
<1>6. Underway'
    BY <1>1, <1>2, <1>5 DEF ListingInv, Underway
<1> QED
    BY <1>1, <1>3, <1>4, <1>5, <1>6 DEF ListingInv

(* A listing in pages of any size that ends without an error has every     *)
(* volume that matched all along, once; it is aborted only if one that     *)
(* matched was deleted meanwhile (controllerserver.go:603-656, 821-900).   *)
THEOREM ListingIsAlwaysExact == Spec => []ListingIsExact
<1>1. Init => ListingInv
    <2> SUFFICES ASSUME Init PROVE ListingInv
        OBVIOUS
    <2>1. seen = <<>> /\ seen \in Seq(Id) /\ Increasing(seen)
        BY DEF Init, Increasing
    <2> QED
        BY <2>1 DEF Init, ListingInv, ListingTypes, Underway
<1>2. ListingInv /\ [Next]_vars => ListingInv'
    <2> SUFFICES ASSUME ListingInv, [Next]_vars PROVE ListingInv'
        OBVIOUS
    <2>1. \A max \in 0..MaxEntries : max \in Nat
        BY VolumeListingAssumption
    <2>2. ASSUME NEW max \in 0..MaxEntries, NEW f \in Source \cup {NoSource}, FirstPage(f, max)
          PROVE  ListingInv'
        BY <2>1, <2>2, FirstPageStep
    <2>3. ASSUME NEW max \in 0..MaxEntries, NextPage(max) PROVE ListingInv'
        BY <2>1, <2>3, NextPageStep
    <2>4. ASSUME NEW x \in Id, Delete(x) \/ \E s \in Source : Create(x, s) PROVE ListingInv'
        BY <2>4, ChangeStep
    <2>5. CASE UNCHANGED vars
        BY <2>5 DEF vars, ListingInv, ListingTypes, Increasing, Underway, Listed, Matches
    <2> QED
        BY <2>2, <2>3, <2>4, <2>5 DEF Next
<1>3. ListingInv => ListingIsExact
    BY DEF ListingInv, ListingIsExact, ListingTypes, Increasing, Listed
<1> QED
    BY <1>1, <1>2, <1>3, PTL DEF Spec

-----------------------------------------------------------------------------
(* Division with remainder. *)
LEMMA DivMod ==
    ASSUME NEW x \in Nat, NEW s \in Nat, s > 0
    PROVE  /\ x \div s \in Nat /\ x % s \in Nat
           /\ x = s * (x \div s) + (x % s) /\ x % s < s
    OBVIOUS

(* A number of whole sectors leaves no remainder. *)
LEMMA WholeSectors ==
    ASSUME NEW k \in Nat, NEW s \in Nat, s > 0
    PROVE  k * s \in Nat /\ (k * s) % s = 0
    OBVIOUS

(* Rounding up to whole sectors never adds a whole one, also when the sum  *)
(* wraps around.                                                           *)
LEMMA RoundUpWhole ==
    ASSUME NEW x \in Nat
    PROVE  RoundUp(x) \in Nat /\ RoundUp(x) < x + Sector /\ RoundUp(x) % Sector = 0
<1> USE VolumeRequestAssumption
<1> DEFINE z == x + Sector - 1
           y == z % Word
<1>1. z \in Nat /\ z = x + Sector - 1
    OBVIOUS
<1>2. RoundUp(x) = (y \div Sector) * Sector
    BY DEF RoundUp
<1> HIDE DEF z
<1>3. y \in Nat /\ y <= z
    BY <1>1
<1> HIDE DEF y
<1>4. /\ y \div Sector \in Nat /\ y % Sector \in Nat
      /\ y = Sector * (y \div Sector) + (y % Sector)
    BY <1>3, DivMod
<1> DEFINE k == y \div Sector
<1>5. k \in Nat /\ RoundUp(x) = k * Sector /\ y = Sector * k + (y % Sector)
    BY <1>2, <1>4
<1> HIDE DEF k
<1>6. RoundUp(x) \in Nat /\ RoundUp(x) % Sector = 0
    BY <1>5, WholeSectors
<1>7. k * Sector = Sector * k
    BY <1>5
<1>8. y = RoundUp(x) + (y % Sector)
    BY <1>5, <1>7
<1> QED
    BY <1>1, <1>3, <1>4, <1>6, <1>8

(* It takes nothing away from a size that is a sector short of a word. *)
LEMMA RoundUpBounds ==
    ASSUME NEW x \in Nat, x <= Word - Sector
    PROVE  RoundUp(x) >= x
<1> USE VolumeRequestAssumption
<1> DEFINE y == x + Sector - 1
<1>1. y \in Nat /\ y < Word /\ y = x + Sector - 1
    OBVIOUS
<1>2. y % Word = y
    BY <1>1
<1>3. RoundUp(x) = (y \div Sector) * Sector
    BY <1>2 DEF RoundUp
<1> HIDE DEF y
<1>4. /\ y \div Sector \in Nat /\ y % Sector \in Nat /\ y % Sector < Sector
      /\ y = Sector * (y \div Sector) + (y % Sector)
    BY <1>1, DivMod
<1>5. (y \div Sector) * Sector = Sector * (y \div Sector)
    BY <1>4
<1>6. y = RoundUp(x) + (y % Sector)
    BY <1>3, <1>4, <1>5
<1>7. RoundUp(x) \in Nat
    BY RoundUpWhole
<1> QED
    BY <1>1, <1>4, <1>6, <1>7

(* A larger one wraps around to nothing. *)
LEMMA RoundUpWraps ==
    ASSUME NEW x \in 0..(Word - 1), x > Word - Sector
    PROVE  RoundUp(x) = 0
<1> USE VolumeRequestAssumption
<1> DEFINE z == x + Sector - 1
           y == x + Sector - 1 - Word
<1>1. y \in 0..(Word - 1) /\ y < Sector /\ z = y + Word
    OBVIOUS
<1>2. z % Word = y
    BY <1>1
<1>3. RoundUp(x) = (y \div Sector) * Sector
    BY <1>2 DEF RoundUp
<1> HIDE DEF y
<1>4. y \div Sector = 0
    BY <1>1
<1> QED
    BY <1>3, <1>4

(* Rounding a limit down stays below it, or wraps around to more than any  *)
(* volume group has.                                                       *)
LEMMA RoundDownBounds ==
    ASSUME NEW x \in 1..(Word - 1)
    PROVE  /\ RoundDown(x) \in Nat /\ RoundDown(x) % Sector = 0
           /\ RoundDown(x) <= x \/ RoundDown(x) > MaxBytes
<1> USE VolumeRequestAssumption
<1> DEFINE z == x + Word - (Sector - 1)
           y == z % Word
<1>1. z \in Nat
    OBVIOUS
<1>2. y \in Nat /\ (x >= Sector - 1 => y = x - (Sector - 1)) /\ (x < Sector - 1 => y = z)
    <2>1. CASE x >= Sector - 1
        <3>1. x - (Sector - 1) \in 0..(Word - 1) /\ z = (x - (Sector - 1)) + Word
            BY <2>1
        <3>2. z % Word = x - (Sector - 1)
            BY <3>1
        <3> QED
            BY <2>1, <3>1, <3>2
    <2>2. CASE x < Sector - 1
        <3>1. z \in 0..(Word - 1)
            BY <2>2
        <3> QED
            BY <2>2, <3>1
    <2> QED
        BY <2>1, <2>2
<1>3. RoundDown(x) = (y \div Sector) * Sector
    BY DEF RoundDown
<1>4. z = x + Word - (Sector - 1)
    OBVIOUS
<1> HIDE DEF y, z
<1>5. /\ y \div Sector \in Nat /\ y % Sector \in Nat /\ y % Sector < Sector
      /\ y = Sector * (y \div Sector) + (y % Sector)
    BY <1>2, DivMod
<1>6. (y \div Sector) * Sector = Sector * (y \div Sector)
    BY <1>5
<1>7. RoundDown(x) \in Nat /\ RoundDown(x) % Sector = 0
    <2> DEFINE k == y \div Sector
    <2>1. k \in Nat /\ RoundDown(x) = k * Sector
        BY <1>3, <1>5
    <2> HIDE DEF k
    <2> QED
        BY <2>1, WholeSectors
<1>8. y = RoundDown(x) + (y % Sector)
    BY <1>3, <1>5, <1>6
<1> QED
    BY <1>2, <1>4, <1>5, <1>7, <1>8

(* The size of a volume is within its range, or no group has room for it.  *)
LEMMA VolumeSizeInRange ==
    ASSUME NEW required \in Signed, NEW limit \in Signed,
           VolumeSize(TRUE, required, limit) <= MaxBytes
    PROVE  /\ VolumeSize(TRUE, required, limit) >= required
           /\ limit > 0 => VolumeSize(TRUE, required, limit) <= limit
           /\ VolumeSize(TRUE, required, limit) % Sector = 0
<1> USE VolumeRequestAssumption
<1> DEFINE size == VolumeSize(TRUE, required, limit)
<1>0. size <= MaxBytes
    OBVIOUS
<1>1. required > 0 =>
        size = IF limit > 0 /\ RoundUp(required) > limit THEN Refused ELSE RoundUp(required)
    BY DEF VolumeSize, Signed
<1>2. required <= 0 /\ limit > 0 => size = RoundDown(limit)
    BY DEF VolumeSize, Signed
<1>3. required <= 0 /\ ~(limit > 0) => size = Refused
    BY DEF VolumeSize, Signed
<1>4. /\ required \in Int /\ limit \in Int
      /\ required <= Word - Sector /\ limit < Word
    <2>1. Word \div 2 \in Nat /\ 2 * (Word \div 2) <= Word
        OBVIOUS
    <2> QED
        BY <2>1 DEF Signed
<1> HIDE DEF size
<1>5. CASE required > 0
    <2>1. RoundUp(required) \in Nat /\ RoundUp(required) % Sector = 0
        BY <1>4, <1>5, RoundUpWhole
    <2>2. RoundUp(required) >= required
        BY <1>4, <1>5, RoundUpBounds
    <2>3. size = RoundUp(required) /\ (limit > 0 => RoundUp(required) <= limit)
        BY <1>0, <1>1, <1>4, <1>5, <2>1 DEF Refused
    <2> QED
        BY <2>1, <2>2, <2>3 DEF size
<1>6. CASE required <= 0 /\ limit > 0
    <2>1. limit \in 1..(Word - 1)
        BY <1>4, <1>6
    <2>2. /\ RoundDown(limit) \in Nat /\ RoundDown(limit) % Sector = 0
          /\ RoundDown(limit) <= limit \/ RoundDown(limit) > MaxBytes
        BY <2>1, RoundDownBounds
    <2>3. size >= required /\ size <= limit /\ size % Sector = 0
        BY <1>0, <1>2, <1>4, <1>6, <2>2
    <2> QED
        BY <2>3 DEF size
<1>7. CASE required <= 0 /\ ~(limit > 0)
    BY <1>0, <1>3, <1>7 DEF Refused
<1>8. required > 0 \/ required <= 0
    BY <1>4
<1> QED
    BY <1>5, <1>6, <1>7, <1>8

(* The share of a snapshot, rounded, is of whole sectors and at most the   *)
(* origin; a regular one is less than a sector above the exact value, and  *)
(* nothing only if that is.                                                *)
LEMMA ShareInRange ==
    ASSUME NEW sectors \in 1..(MaxBytes \div Sector), NEW pct \in Share, pct # Unset,
           ~PctRefused(pct), NEW word \in Truncated(sectors * Sector, pct)
    PROVE  LET origin == sectors * Sector
               size == Least(origin, RoundUp(word))
               share == (origin * pct) \div Parts
           IN  /\ size \in 0..origin /\ size % Sector = 0
               /\ pct # NaN /\ pct > 0 =>
                     share \in Nat /\ size < share + Sector /\ (size = 0 <=> share = 0)
<1> USE VolumeRequestAssumption
<1> DEFINE origin == sectors * Sector
           size == Least(origin, RoundUp(word))
           share == (origin * pct) \div Parts
<1>1. origin \in Nat /\ origin <= MaxBytes /\ origin >= Sector /\ origin % Sector = 0
    <2>1. MaxBytes \div Sector \in Nat /\ Sector * (MaxBytes \div Sector) <= MaxBytes
        BY DivMod
    <2>2. sectors * Sector <= (MaxBytes \div Sector) * Sector
        BY <2>1
    <2>3. sectors * Sector >= Sector
        BY <2>1
    <2>4. (sectors * Sector) % Sector = 0
        BY <2>1, WholeSectors
    <2> QED
        BY <2>1, <2>2, <2>3, <2>4
<1>2. word \in Truncated(origin, pct)
    OBVIOUS
<1> HIDE DEF origin
<1>3. ASSUME pct # NaN, pct > 0
      PROVE  share \in Nat /\ share <= origin /\ word = share
    <2>1. pct \in 1..Parts
        BY <1>3 DEF Share, PctRefused
    <2> DEFINE p == origin * pct
    <2>2. p \in Nat /\ p <= origin * Parts
        BY <1>1, <2>1
    <2>3. Truncated(origin, pct) = {share}
        BY <1>3, <2>1, <2>2 DEF Truncated
    <2>4. p \div Parts \in Nat /\ p \div Parts <= origin
        <3> HIDE DEF p
        <3>1. p \div Parts \in Nat /\ p % Parts \in Nat /\ p = Parts * (p \div Parts) + (p % Parts)
            BY <2>2, DivMod
        <3> DEFINE q == p \div Parts
        <3>2. q \in Nat /\ Parts * q <= origin * Parts
            BY <1>1, <2>2, <3>1
        <3> HIDE DEF q
        <3>3. q <= origin
            BY <1>1, <3>2
        <3> QED
            BY <3>1, <3>3 DEF q
    <2> QED
        BY <1>2, <2>3, <2>4
<1>4. word \in Nat
    <2>1. CASE pct = NaN
        BY <1>2, <2>1 DEF Truncated
    <2>2. CASE pct # NaN
        <3>1. pct \in Int
            BY <2>2 DEF Share
        <3>2. CASE pct > 0
            BY <1>3, <2>2, <3>2
        <3>3. CASE ~(pct > 0)
            <4>1. pct < 0
                BY <2>2, <3>1, <3>3 DEF PctRefused
            <4> QED
                BY <1>2, <2>2, <4>1 DEF Truncated
        <3> QED
            BY <3>2, <3>3
    <2> QED
        BY <2>1, <2>2
<1>5. RoundUp(word) \in Nat /\ RoundUp(word) < word + Sector /\ RoundUp(word) % Sector = 0
    BY <1>4, RoundUpWhole
<1>6. size \in 0..origin /\ size % Sector = 0 /\ size <= RoundUp(word)
    BY <1>1, <1>5 DEF Least
<1>7. ASSUME pct # NaN, pct > 0
      PROVE  share \in Nat /\ size < share + Sector /\ (size = 0 <=> share = 0)
    <2>1. share \in Nat /\ share <= origin /\ word = share
        BY <1>3, <1>7
    <2> HIDE DEF share
    <2>2. RoundUp(word) >= word
        BY <1>1, <1>4, <2>1, RoundUpBounds
    <2>3. size = Least(origin, RoundUp(word))
        OBVIOUS
    <2> HIDE DEF size
    <2>4. size < share + Sector
        BY <1>1, <1>5, <1>6, <2>1
    <2>5. ASSUME share = 0 PROVE size = 0
        <3>1. size < Sector /\ size \in Nat
            BY <1>1, <1>6, <2>4, <2>5
        <3>2. size % Sector = size
            BY <3>1
        <3> QED
            BY <1>6, <3>2
    <2>6. ASSUME share # 0 PROVE size # 0
        BY <1>1, <1>5, <2>1, <2>2, <2>3, <2>6 DEF Least
    <2> QED
        BY <2>1, <2>4, <2>5, <2>6
<1> QED
    BY <1>6, <1>7 DEF origin

(* What SizeIsInRange says of one size of a snapshot. *)
SnapshotInRange(sectors, pct, bytes, size) ==
    LET origin == sectors * Sector
        regular == IF pct \in {NaN, Unset} THEN pct = Unset ELSE pct > 0
        wraps == IF bytes = Unset THEN FALSE ELSE bytes > Word - Sector
        share == IF pct = Unset THEN origin ELSE (origin * pct) \div Parts
    IN  /\ size \in 0..origin
        /\ size % Sector = 0
        /\ bytes # Unset => size < bytes + Sector
        /\ regular => size < share + Sector
        /\ regular => (size = 0 <=> share = 0 \/ wraps)

(* Every size that a snapshot may be given is so. *)
LEMMA SnapshotSizeInRange ==
    ASSUME NEW sectors \in 1..(MaxBytes \div Sector), NEW pct \in Share,
           NEW bytes \in (0..(Word - 1)) \cup {Unset},
           NEW size \in SnapshotSizes(sectors * Sector, pct, bytes), size # Refused
    PROVE  SnapshotInRange(sectors, pct, bytes, size)
<1> USE VolumeRequestAssumption
<1> DEFINE origin == sectors * Sector
           regular == IF pct \in {NaN, Unset} THEN pct = Unset ELSE pct > 0
           wraps == IF bytes = Unset THEN FALSE ELSE bytes > Word - Sector
           share == IF pct = Unset THEN origin ELSE (origin * pct) \div Parts
           shares == IF pct = Unset THEN {origin}
                     ELSE {Least(origin, RoundUp(word)) : word \in Truncated(origin, pct)}
<1>1. origin \in Nat /\ origin <= MaxBytes /\ origin >= Sector /\ origin % Sector = 0
    <2>1. MaxBytes \div Sector \in Nat /\ Sector * (MaxBytes \div Sector) <= MaxBytes
        BY DivMod
    <2>2. sectors * Sector <= (MaxBytes \div Sector) * Sector
        BY <2>1
    <2>3. sectors * Sector >= Sector
        BY <2>1
    <2>4. (sectors * Sector) % Sector = 0
        BY <2>1, WholeSectors
    <2> QED
        BY <2>1, <2>2, <2>3, <2>4
<1>2. /\ ~PctRefused(pct) /\ bytes # 0
      /\ bytes = Unset => size \in shares
      /\ bytes # Unset => \E part \in shares : size = Least(part, RoundUp(bytes))
    BY DEF SnapshotSizes, Refused
<1>3. ASSUME NEW part \in shares
      PROVE  /\ part \in 0..origin /\ part % Sector = 0
             /\ regular => share \in Nat /\ part < share + Sector /\ (part = 0 <=> share = 0)
    <2>1. CASE pct = Unset
        <3>1. part = origin /\ share = origin
            BY <2>1
        <3> QED
            BY <1>1, <3>1
    <2>2. CASE pct # Unset
        <3>1. PICK word \in Truncated(origin, pct) : part = Least(origin, RoundUp(word))
            BY <2>2
        <3>2. share = (origin * pct) \div Parts /\ (regular => pct # NaN /\ pct > 0)
            BY <2>2
        <3>3. /\ part \in 0..origin /\ part % Sector = 0
              /\ pct # NaN /\ pct > 0 =>
                     /\ (origin * pct) \div Parts \in Nat
                     /\ part < ((origin * pct) \div Parts) + Sector
                     /\ part = 0 <=> (origin * pct) \div Parts = 0
            BY <1>2, <2>2, <3>1, ShareInRange
        <3> QED
            BY <3>2, <3>3
    <2> QED
        BY <2>1, <2>2
<1> HIDE DEF origin, regular, share, shares
<1>4. CASE bytes = Unset
    <2>1. size \in shares /\ ~wraps
        BY <1>2, <1>4
    <2> QED
        BY <1>3, <1>4, <2>1 DEF SnapshotInRange, origin, regular, share
<1>5. CASE bytes # Unset
    <2>1. PICK part \in shares : size = Least(part, RoundUp(bytes))
        BY <1>2, <1>5
    <2>2. /\ part \in 0..origin /\ part % Sector = 0
          /\ regular => share \in Nat /\ part < share + Sector /\ (part = 0 <=> share = 0)
        BY <1>3
    <2>3. bytes \in 0..(Word - 1) /\ bytes >= 1 /\ (wraps <=> bytes > Word - Sector)
        BY <1>2, <1>5
    <2>4. /\ RoundUp(bytes) \in Nat /\ RoundUp(bytes) < bytes + Sector
          /\ RoundUp(bytes) % Sector = 0
        BY <2>3, RoundUpWhole
    <2>5. RoundUp(bytes) = 0 <=> wraps
        <3>1. CASE bytes > Word - Sector
            BY <2>3, <3>1, RoundUpWraps
        <3>2. CASE ~(bytes > Word - Sector)
            <4>1. RoundUp(bytes) >= bytes
                BY <2>3, <3>2, RoundUpBounds
            <4> QED
                BY <2>3, <2>4, <3>2, <4>1
        <3> QED
            BY <3>1, <3>2
    <2> HIDE DEF wraps
    <2>6. size \in 0..origin /\ size % Sector = 0 /\ size <= part /\ size <= RoundUp(bytes)
        BY <1>1, <2>1, <2>2, <2>4 DEF Least
    <2>7. size = 0 <=> part = 0 \/ RoundUp(bytes) = 0
        BY <1>1, <2>1, <2>2, <2>4 DEF Least
    <2>8. size < bytes + Sector
        BY <1>1, <2>3, <2>4, <2>6
    <2>9. regular => size < share + Sector
        BY <1>1, <2>2, <2>6
    <2>10. regular => (size = 0 <=> share = 0 \/ wraps)
        BY <2>2, <2>5, <2>7
    <2> QED
        BY <2>6, <2>8, <2>9, <2>10 DEF SnapshotInRange, origin, regular, share, wraps
<1> QED
    BY <1>4, <1>5

-----------------------------------------------------------------------------
(* f holds the values of a loop that starts with b: the i-th step is G[i]. *)
Steps(X, n) == [1..n -> [X -> X]]

IsLoop(f, X, n, b, G) ==
    f \in [0..n -> X] /\ f[0] = b /\ \A i \in 1..n : f[i] = G[i][f[i - 1]]

(* A loop of n steps, each of which makes a value of X into another, has a *)
(* value after each: the shortest one without would, after all but its     *)
(* last step, have one.                                                    *)
LEMMA LoopValues ==
    ASSUME NEW X, NEW n \in Nat, NEW b \in X, NEW G \in Steps(X, n)
    PROVE  \E f : IsLoop(f, X, n, b, G)
<1> DEFINE Runs(f, k) == f[0] = b /\ \A i \in 1..k : f[i] = G[i][f[i - 1]]
           Bad == {k \in 0..n : ~ \E f \in [0..n -> X] : Runs(f, k)}
<1> SUFFICES ASSUME n \in Bad PROVE FALSE
    BY DEF IsLoop
<1>0. G \in [1..n -> [X -> X]]
    BY DEF Steps
<1>1. PICK k \in Bad : \A h \in Bad : k <= h
    <2>1. Bad \in SUBSET Nat
        OBVIOUS
    <2> HIDE DEF Bad
    <2> QED
        BY <2>1, LeastOf
<1>2. k # 0
    <2>1. [i \in 0..n |-> b] \in [0..n -> X] /\ Runs([i \in 0..n |-> b], 0)
        OBVIOUS
    <2> QED
        BY <1>1, <2>1
<1>3. k - 1 \in 0..n /\ k \in 1..n /\ k - 1 \notin Bad
    <2>1. k \in 0..n
        BY <1>1
    <2> HIDE DEF Bad
    <2> QED
        BY <1>1, <1>2, <2>1
<1>4. PICK f \in [0..n -> X] : Runs(f, k - 1)
    BY <1>3
<1> DEFINE g == [f EXCEPT ![k] = G[k][f[k - 1]]]
<1>5. g \in [0..n -> X]
    BY <1>0, <1>3, <1>4
<1>6. g[0] = b /\ g[k] = G[k][g[k - 1]]
    BY <1>3, <1>4
<1>7. ASSUME NEW i \in 1..k, i # k PROVE g[i] = G[i][g[i - 1]]
    <2>1. i \in 1..(k - 1) /\ i - 1 \in 0..n /\ i \in 0..n /\ i - 1 # k
        BY <1>3, <1>7
    <2>2. g[i] = f[i] /\ g[i - 1] = f[i - 1]
        BY <1>4, <1>7, <2>1
    <2> QED
        BY <1>4, <2>1, <2>2
<1>8. Runs(g, k)
    BY <1>6, <1>7
<1> QED
    BY <1>1, <1>5, <1>8

Agg == Capability \cup {NoCapability}

(* What two capabilities come down to is one, or none. *)
LEMMA AggregateType ==
    ASSUME NEW a \in Agg, NEW c \in Capability
    PROVE  Aggregate(a, c) \in Agg
<1>1. c.mode \in Mode /\ c.access \in AccessType
    BY DEF Capability
<1>2. CASE a \in Capability
    <2>1. a.mode \in Mode /\ a.access \in AccessType /\ [a EXCEPT !.mode = c.mode] \in Capability
        BY <1>1, <1>2 DEF Capability
    <2> QED
        BY <1>2, <2>1 DEF Aggregate, Agg
<1>3. CASE a = NoCapability
    <2>1. a.mode = "none" /\ ~Covers(a.mode, c.mode) /\ ~Covers(c.mode, a.mode)
        BY <1>1, <1>3 DEF NoCapability, Covers, Supported, VolCapAccessModeCompat, Mode
    <2> QED
        BY <2>1 DEF Aggregate, Agg
<1> QED
    BY <1>2, <1>3 DEF Agg

(* The values of the aggregated capability in reduceVolumeCapabilities. *)
LEMMA AggregatedSteps ==
    ASSUME NEW caps \in Seq(Capability), caps # <<>>
    PROVE  /\ Aggregated(caps) \in [1..Len(caps) -> Agg]
           /\ Aggregated(caps)[1] = caps[1]
           /\ \A i \in 2..Len(caps) : Aggregated(caps)[i] = Aggregate(Aggregated(caps)[i - 1], caps[i])
<1> DEFINE n == Len(caps)
           Eq(g) == g = [i \in DOMAIN caps |-> IF i = 1 THEN caps[1] ELSE Aggregate(g[i - 1], caps[i])]
           G == [i \in 1..n |-> [a \in Agg |-> IF i = 1 THEN caps[1] ELSE Aggregate(a, caps[i])]]
<1>1. n \in Nat /\ n >= 1 /\ DOMAIN caps = 1..n /\ \A i \in 1..n : caps[i] \in Capability
    OBVIOUS
<1>2. G \in [1..n -> [Agg -> Agg]]
    BY <1>1, AggregateType DEF Agg
<1>3. NoCapability \in Agg
    BY DEF Agg
<1> HIDE DEF n
<1>4. PICK f : IsLoop(f, Agg, n, NoCapability, G)
    <2> HIDE DEF G
    <2>1. n \in Nat /\ G \in Steps(Agg, n)
        BY <1>1, <1>2 DEF Steps
    <2> QED
        BY <1>3, <2>1, LoopValues
<1> DEFINE g == [i \in 1..n |-> f[i]]
<1>5. ASSUME NEW i \in 1..n
      PROVE  g[i] = IF i = 1 THEN caps[1] ELSE Aggregate(g[i - 1], caps[i])
    <2>1. i - 1 \in 0..n /\ f[i - 1] \in Agg /\ (i # 1 => i - 1 \in 1..n)
        BY <1>1, <1>4 DEF IsLoop
    <2>2. f[i] = IF i = 1 THEN caps[1] ELSE Aggregate(f[i - 1], caps[i])
        BY <1>4, <2>1 DEF IsLoop
    <2> QED
        BY <2>1, <2>2
<1>6. Eq(g)
    BY <1>1, <1>5
<1>7. Aggregated(caps) = CHOOSE h : Eq(h)
    BY DEF Aggregated
<1>8. Eq(Aggregated(caps))
    BY <1>6, <1>7
<1> DEFINE agg == Aggregated(caps)
<1> HIDE DEF agg
<1>9. /\ DOMAIN agg = 1..n
      /\ \A i \in 1..n : agg[i] = IF i = 1 THEN caps[1] ELSE Aggregate(agg[i - 1], caps[i])
    BY <1>1, <1>8 DEF agg
<1>10. agg[1] = caps[1] /\ \A i \in 2..n : agg[i] = Aggregate(agg[i - 1], caps[i])
    BY <1>1, <1>9
<1>11. ASSUME NEW i \in 1..n PROVE agg[i] \in Agg
    <2> DEFINE Bad == {j \in 1..n : agg[j] \notin Agg}
    <2> SUFFICES ASSUME Bad # {} PROVE FALSE
        OBVIOUS
    <2>1. PICK j \in Bad : \A h \in Bad : j <= h
        <3>1. Bad \in SUBSET Nat
            BY <1>1
        <3> HIDE DEF Bad
        <3> QED
            BY <3>1, LeastOf
    <2>2. j # 1
        BY <1>1, <1>10, <2>1 DEF Agg
    <2>3. j - 1 \in 1..n /\ j - 1 \notin Bad /\ j \in 2..n
        BY <1>1, <2>1, <2>2
    <2> QED
        BY <1>1, <1>10, <2>1, <2>3, AggregateType
<1>12. agg \in [1..n -> Agg]
    <2>1. agg = [i \in 1..n |-> agg[i]]
        BY <1>1, <1>8, <1>9 DEF agg
    <2> QED
        BY <1>11, <2>1
<1> QED
    BY <1>10, <1>12 DEF agg, n

(* A capability that the first one, a, can stand for. *)
Fits(a, c) ==
    /\ c.mode \in Supported /\ (c.mode = "reader" <=> a.mode = "reader")
    /\ ~(a.mode = "single" /\ c.mode = "single")
    /\ c.access = a.access

(* As long as the capabilities fit, the first one stands for all of them:  *)
(* it covers every mode that covers it, so that it is never upgraded.      *)
LEMMA AggregateFits ==
    ASSUME NEW a \in Capability, a.mode \in Supported, NEW c \in Capability
    PROVE  /\ Aggregate(a, c) = IF Fits(a, c) THEN a ELSE NoCapability
           /\ Aggregate(NoCapability, c) = NoCapability
<1>1. /\ a.mode \in Mode /\ c.mode \in Mode
      /\ a.access \in AccessType /\ c.access \in AccessType
    BY DEF Capability
<1>2. \A m, o \in Mode : m \in Supported =>
         (Covers(m, o) <=> /\ o \in Supported /\ (o = "reader" <=> m = "reader")
                           /\ ~(m = "single" /\ o = "single"))
    BY DEF Covers, Supported, VolCapAccessModeCompat, Mode
<1>3. \A m, o \in Mode : m \in Supported /\ Covers(o, m) => Covers(m, o)
    BY DEF Covers, Supported, VolCapAccessModeCompat, Mode
<1>4. Aggregate(a, c) = IF Covers(a.mode, c.mode) /\ a.access = c.access THEN a ELSE NoCapability
    BY <1>1, <1>3 DEF Aggregate
<1>5. \A o \in Mode : ~Covers("none", o) /\ ~Covers(o, "none")
    BY DEF Covers, Supported, VolCapAccessModeCompat, Mode
<1>6. NoCapability.mode = "none"
    BY DEF NoCapability
<1>7. ~Covers(NoCapability.mode, c.mode) /\ ~Covers(c.mode, NoCapability.mode)
    BY <1>1, <1>5, <1>6
<1>8. Aggregate(NoCapability, c) = NoCapability
    BY <1>7 DEF Aggregate
<1>9. Covers(a.mode, c.mode) /\ a.access = c.access <=> Fits(a, c)
    BY <1>1, <1>2 DEF Fits
<1> QED
    BY <1>4, <1>8, <1>9

(* reduceVolumeCapabilities as far as the k-th capability. *)
Reduced(caps, agg, k) ==
    agg[k] = IF \A i \in 2..k : Fits(caps[1], caps[i]) THEN caps[1] ELSE NoCapability

(* One more capability. *)
LEMMA ReducedStep ==
    ASSUME NEW caps \in Seq(Capability), NEW k \in 2..Len(caps), caps[1].mode \in Supported,
           NEW agg, agg[k] = Aggregate(agg[k - 1], caps[k]),
           Reduced(caps, agg, k - 1)
    PROVE  Reduced(caps, agg, k)
<1>1. caps[1] \in Capability /\ caps[k] \in Capability
    OBVIOUS
<1>2. \A i \in 2..k : i = k \/ i \in 2..(k - 1)
    OBVIOUS
<1>3. k \in 2..k /\ \A i \in 2..(k - 1) : i \in 2..k
    OBVIOUS
<1> DEFINE a == caps[1]
           c == caps[k]
           Before == \A i \in 2..(k - 1) : Fits(caps[1], caps[i])
<1>4. agg[k - 1] = IF Before THEN a ELSE NoCapability
    BY DEF Reduced
<1>5. (\A i \in 2..k : Fits(caps[1], caps[i])) <=> Before /\ Fits(a, c)
    BY <1>2, <1>3
<1>6. /\ Aggregate(a, c) = IF Fits(a, c) THEN a ELSE NoCapability
      /\ Aggregate(NoCapability, c) = NoCapability
    BY <1>1, AggregateFits
<1>7. agg[k] = Aggregate(agg[k - 1], c)
    OBVIOUS
<1> HIDE DEF a, c, Before
<1>8. agg[k] = IF Before /\ Fits(a, c) THEN a ELSE NoCapability
    BY <1>4, <1>6, <1>7
<1> QED
    BY <1>5, <1>8 DEF Reduced, a

(* All of them, by the first of which it is not so. *)
LEMMA ReducedAll ==
    ASSUME NEW caps \in Seq(Capability), caps # <<>>, caps[1].mode \in Supported
    PROVE  Reduced(caps, Aggregated(caps), Len(caps))
<1> DEFINE n == Len(caps)
           agg == Aggregated(caps)
           Bad == {k \in 1..n : ~Reduced(caps, agg, k)}
<1>1. n \in Nat /\ n >= 1 /\ caps[1] \in Capability
    OBVIOUS
<1>2. /\ agg[1] = caps[1]
      /\ \A i \in 2..n : agg[i] = Aggregate(agg[i - 1], caps[i])
    BY AggregatedSteps
<1> SUFFICES ASSUME Bad # {} PROVE FALSE
    BY <1>1
<1> HIDE DEF n, agg
<1>3. PICK k \in Bad : \A h \in Bad : k <= h
    <2>1. Bad \in SUBSET Nat
        BY <1>1
    <2> HIDE DEF Bad
    <2> QED
        BY <2>1, LeastOf
<1>4. k \in 1..n /\ ~Reduced(caps, agg, k)
    BY <1>3
<1>5. k # 1
    <2> SUFFICES Reduced(caps, agg, 1)
        BY <1>4
    <2>1. \A i \in 2..1 : FALSE
        OBVIOUS
    <2> QED
        BY <1>2, <2>1 DEF Reduced
<1>6. k - 1 \in 1..n /\ k - 1 \notin Bad /\ k \in 2..n
    <2> HIDE DEF Bad
    <2> QED
        BY <1>1, <1>3, <1>4, <1>5
<1>7. Reduced(caps, agg, k - 1)
    BY <1>6
<1> QED
    BY <1>2, <1>4, <1>6, <1>7, ReducedStep DEF n

RequestInv == request \in {NoRequest} \cup VolumeRange \cup SnapshotRange \cup Capabilities

(* A created volume has the bytes that were required and at most the limit *)
(* and a snapshot at most the bytes of its origin and of its parameters,   *)
(* and none exactly if those come to less than a byte or wrap around, for  *)
(* all parameters and any size of sector, word and volume group            *)
(* (controllerserver.go:168-185, 702-724).                                 *)
THEOREM SizeIsAlwaysInRange == RequestSpec => []SizeIsInRange
<1>1. request = NoRequest => RequestInv
    BY DEF RequestInv
<1>2. RequestInv /\ [Arrive]_request => RequestInv'
    BY DEF RequestInv, Arrive
<1>3. RequestInv => SizeIsInRange
    <2> SUFFICES ASSUME RequestInv PROVE SizeIsInRange
        OBVIOUS
    <2>1. CASE request = NoRequest
        BY <2>1 DEF NoRequest, SizeIsInRange
    <2>2. CASE request \in VolumeRange
        <3>1. request.kind = "volume" /\ request.required \in Signed /\ request.limit \in Signed
            BY <2>2 DEF VolumeRange
        <3> QED
            BY <3>1, VolumeSizeInRange DEF SizeIsInRange
    <2>3. CASE request \in SnapshotRange
        <3>1. /\ request.kind = "snapshot" /\ request.sectors \in 1..(MaxBytes \div Sector)
              /\ request.pct \in Share /\ request.bytes \in (0..(Word - 1)) \cup {Unset}
            BY <2>3 DEF SnapshotRange
        <3>2. \A size \in SnapshotSizes(request.sectors * Sector, request.pct, request.bytes) \ {Refused} :
                 SnapshotInRange(request.sectors, request.pct, request.bytes, size)
            BY <3>1, SnapshotSizeInRange
        <3>3. request.kind # "volume"
            BY <3>1
        <3> QED
            BY <3>2, <3>3, Zenon DEF SizeIsInRange, SnapshotInRange
    <2>4. CASE request \in Capabilities
        <3>1. request.kind = "capabilities"
            BY <2>4 DEF Capabilities
        <3> QED
            BY <3>1 DEF SizeIsInRange
    <2> QED
        BY <2>1, <2>2, <2>3, <2>4 DEF RequestInv
<1> QED
    BY <1>1, <1>2, <1>3, PTL DEF RequestSpec

(* reduceVolumeCapabilities accepts a list of capabilities, of any length, *)
(* exactly if one volume can honour all of them and no "single" follows a  *)
(* first "single"; the volume created for them is confirmed for them       *)
(* exactly if validation knows their modes and a mount names the default   *)
(* file system (controllerserver.go:75-97, 149-157, 500-537, 952-985).     *)
THEOREM CapabilitiesAreAlwaysHonoured == RequestSpec => []CapabilitiesAreHonoured
<1>1. request = NoRequest => RequestInv
    BY DEF RequestInv
<1>2. RequestInv /\ [Arrive]_request => RequestInv'
    BY DEF RequestInv, Arrive
<1>3. RequestInv => CapabilitiesAreHonoured
    <2> SUFFICES ASSUME RequestInv, request.kind = "capabilities" PROVE CapabilitiesAreHonoured
        BY DEF CapabilitiesAreHonoured
    <2> DEFINE caps == request.caps
               n == Len(caps)
               cap == ReduceVolumeCapabilities(caps)
               modes == {caps[i].mode : i \in DOMAIN caps}
               honoured == /\ modes \subseteq Supported
                           /\ "reader" \in modes => modes = {"reader"}
                           /\ \A i \in DOMAIN caps : caps[i].access = caps[1].access
               again == \E i \in DOMAIN caps \ {1} : caps[1].mode = "single" /\ caps[i].mode = "single"
               AllFit == \A i \in 2..n : Fits(caps[1], caps[i])
    <2>1. request \in Capabilities
        BY DEF RequestInv, NoRequest, VolumeRange, SnapshotRange
    <2>2. caps \in Seq(Capability) /\ caps # <<>>
        <3>1. caps \in BoundedSeq(Capability, MaxCaps) /\ caps # <<>>
            BY <2>1 DEF Capabilities
        <3> QED
            BY <3>1, VolumeRequestAssumption DEF BoundedSeq, SeqOf
    <2> HIDE DEF caps
    <2>3. n \in Nat /\ n >= 1 /\ DOMAIN caps = 1..n /\ \A i \in 1..n : caps[i] \in Capability
        BY <2>2
    <2>4. cap = IF caps[1].mode \in Supported THEN Aggregated(caps)[n] ELSE NoCapability
        BY <2>2 DEF ReduceVolumeCapabilities
    <2>5. caps[1].mode \in Supported =>
            Aggregated(caps)[n] = IF AllFit THEN caps[1] ELSE NoCapability
        BY <2>2, ReducedAll DEF Reduced
    <2> HIDE DEF n, cap
    <2>6. cap = IF caps[1].mode \in Supported /\ AllFit THEN caps[1] ELSE NoCapability
        BY <2>4, <2>5
    <2>7. 1 \in 1..n /\ caps[1] \in Capability /\ caps[1] # NoCapability
        BY <2>3 DEF Capability, NoCapability, Mode
    <2>8. \A i \in 1..n : caps[i].mode \in modes
        BY <2>3
    <2>9. honoured /\ ~again => caps[1].mode \in Supported /\ AllFit
        <3> SUFFICES ASSUME honoured, ~again PROVE caps[1].mode \in Supported /\ AllFit
            OBVIOUS
        <3>1. caps[1].mode \in Supported
            BY <2>7, <2>8
        <3>2. ASSUME NEW i \in 2..n PROVE Fits(caps[1], caps[i])
            <4>1. i \in 1..n /\ i \in DOMAIN caps \ {1}
                BY <2>3
            <4>2. caps[i].mode \in modes /\ caps[1].mode \in modes
                BY <2>7, <2>8, <4>1
            <4>3. caps[i].access = caps[1].access
                BY <4>1
            <4>4. ~(caps[1].mode = "single" /\ caps[i].mode = "single")
                BY <4>1
            <4> HIDE DEF modes
            <4> QED
                BY <4>2, <4>3, <4>4 DEF Fits
        <3> QED
            BY <3>1, <3>2
    <2>10. caps[1].mode \in Supported /\ AllFit => honoured /\ ~again
        <3> SUFFICES ASSUME caps[1].mode \in Supported, AllFit PROVE honoured /\ ~again
            OBVIOUS
        <3>1. \A i \in 1..n : i = 1 \/ i \in 2..n
            BY <2>3
        <3>2. \A i \in 1..n : /\ caps[i].mode \in Supported
                              /\ caps[i].access = caps[1].access
                              /\ caps[i].mode = "reader" <=> caps[1].mode = "reader"
            BY <3>1 DEF Fits
        <3>3. \A i \in DOMAIN caps \ {1} : ~(caps[1].mode = "single" /\ caps[i].mode = "single")
            BY <2>3, <3>1 DEF Fits
        <3>4. modes \subseteq Supported
            BY <2>3, <3>2
        <3>5. "reader" \in modes => modes = {"reader"}
            BY <2>3, <2>7, <3>2
        <3> QED
            BY <2>3, <3>2, <3>3, <3>4, <3>5
    <2>11. cap # NoCapability <=> honoured /\ ~again
        BY <2>6, <2>7, <2>9, <2>10
    <2>12. ASSUME cap # NoCapability
           PROVE  Confirmed(caps, FsOf(cap)) <=>
                     /\ modes \subseteq {"writer", "reader"}
                     /\ caps[1].access.type = "mount" => caps[1].access.fs = DefaultFs
        <3>1. cap = caps[1] /\ \A i \in DOMAIN caps : caps[i].access = caps[1].access
            BY <2>6, <2>11, <2>12
        <3>2. modes \subseteq {"writer", "reader"} <=> \A i \in 1..n : caps[i].mode \in {"writer", "reader"}
            BY <2>3, <2>8
        <3>3. FsOf(cap) = IF caps[1].access.type = "block" THEN "$raw" ELSE DefaultFs
            BY <3>1 DEF FsOf
        <3> DEFINE access == caps[1].access
                   fs == FsOf(cap)
        <3>4. (access.type = "block" => fs = "$raw")
              /\ ((access.type = "mount" => fs = access.fs) <=>
                     (access.type = "mount" => access.fs = DefaultFs))
            BY <3>3
        <3>5. Confirmed(caps, fs) <=>
                /\ \A i \in 1..n : caps[i].mode \in {"writer", "reader"}
                /\ access.type = "mount" => fs = access.fs
                /\ access.type = "block" => fs = "$raw"
            <4> HIDE DEF fs
            <4> QED
                BY <2>3, <2>7, <3>1 DEF Confirmed
        <3> QED
            BY <3>2, <3>4, <3>5
    <2> QED
        BY <2>11, <2>12 DEF CapabilitiesAreHonoured, caps, cap
<1> QED
    BY <1>1, <1>2, <1>3, PTL DEF RequestSpec

-----------------------------------------------------------------------------
(* A byte of a string. *)
Octet == 0..255

(* Induction from a to N, for a set. *)
LEMMA InductionUpTo ==
    ASSUME NEW a \in Nat, NEW N \in Nat, NEW T, a \in T,
           \A n \in a..(N - 1) : n \in T => n + 1 \in T
    PROVE  \A n \in a..N : n \in T
<1> DEFINE Bad == {n \in a..N : n \notin T}
<1> SUFFICES ASSUME Bad # {} PROVE FALSE
    OBVIOUS
<1>1. Bad \in SUBSET Nat
    OBVIOUS
<1>2. PICK k \in Bad : \A h \in Bad : k <= h
    <2> HIDE DEF Bad
    <2> QED
        BY <1>1, LeastOf
<1>3. k \in a..N /\ k \notin T /\ k # a
    OBVIOUS
<1>4. k - 1 \in a..(N - 1) /\ k - 1 \in a..N /\ (k - 1) + 1 = k /\ ~(k <= k - 1)
    BY <1>3
<1>5. k - 1 \notin Bad
    <2> HIDE DEF Bad
    <2> QED
        BY <1>2, <1>4
<1>6. k - 1 \in T
    BY <1>4, <1>5
<1> QED
    BY <1>3, <1>4, <1>6

(* The two parts of a concatenation. *)
LEMMA ConcatParts ==
    ASSUME NEW S, NEW s \in Seq(S), NEW t \in Seq(S)
    PROVE  /\ s \o t \in Seq(S)
           /\ Len(s) \in Nat
           /\ Len(t) \in Nat
           /\ Len(s \o t) = Len(s) + Len(t)
           /\ \A j \in 1..Len(s) : (s \o t)[j] = s[j]
           /\ \A j \in 1..Len(t) : (s \o t)[Len(s) + j] = t[j]
<1>1. Len(s) \in Nat
    OBVIOUS
<1>2. Len(t) \in Nat
    OBVIOUS
<1>3. /\ s \o t \in Seq(S)
      /\ Len(s \o t) = Len(s) + Len(t)
      /\ \A i \in 1..Len(s) + Len(t) : (s \o t)[i] = IF i <= Len(s) THEN s[i] ELSE t[i - Len(s)]
    BY ConcatProperties
<1> DEFINE c == s \o t
           m == Len(s)
           k == Len(t)
<1>4. \A i \in 1..m + k : c[i] = IF i <= m THEN s[i] ELSE t[i - m]
    BY <1>3
<1>5. m \in Nat /\ k \in Nat
    BY <1>1, <1>2
<1> HIDE DEF c, m, k
<1>6. ASSUME NEW j \in 1..m PROVE c[j] = s[j]
    BY <1>4, <1>5
<1>7. ASSUME NEW j \in 1..k PROVE c[m + j] = t[j]
    <2>1. m + j \in 1..m + k /\ ~(m + j <= m) /\ (m + j) - m = j
        BY <1>5
    <2> QED
        BY <1>4, <2>1
<1> QED
    BY <1>1, <1>2, <1>3, <1>6, <1>7 DEF c, m, k

(* A byte becomes one character or three. *)
LEMMA EscapedType ==
    ASSUME NEW b \in Octet, NEW pos \in Nat
    PROVE  /\ Escaped(b, pos) \in Seq(Octet)
           /\ Len(Escaped(b, pos)) = IF IsPlain(b, pos) THEN 1 ELSE 3
<1>1. b \div 16 \in 0..15 /\ b % 16 \in 0..15
    BY DEF Octet
<1>2. ASSUME NEW d \in 0..15 PROVE HexDigit(d) \in Octet
    BY DEF HexDigit, Octet
<1>3. Amp \in Octet /\ Space \in Octet
    BY DEF Amp, Space, Octet
<1> DEFINE h == IF b < 16 THEN Space ELSE HexDigit(b \div 16)
           l == HexDigit(b % 16)
<1>4. h \in Octet /\ l \in Octet
    BY <1>1, <1>2, <1>3
<1>5. Quoted(b) = <<Amp, h, l>>
    BY DEF Quoted
<1> HIDE DEF h, l
<1>6. <<Amp, h, l>> \in Seq(Octet) /\ Len(<<Amp, h, l>>) = 3
    BY <1>3, <1>4
<1>7. <<b>> \in Seq(Octet) /\ Len(<<b>>) = 1
    OBVIOUS
<1> QED
    BY <1>5, <1>6, <1>7 DEF Escaped

(* The values of the loop of encodeTag (tagencoder.go:23-33). *)
LEMMA EncodedSteps ==
    ASSUME NEW w \in Seq(Octet)
    PROVE  /\ Encoded(w)[0] = <<>>
           /\ \A n \in 0..Len(w) : Encoded(w)[n] \in Seq(Octet)
           /\ \A n \in 0..(Len(w) - 1) : Encoded(w)[n + 1] = Encoded(w)[n] \o Escaped(w[n + 1], n)
<1> DEFINE N == Len(w)
           X == Seq(Octet)
           Eq(g) == g = [n \in 0..Len(w) |-> IF n = 0 THEN <<>> ELSE g[n - 1] \o Escaped(w[n], n - 1)]
           G == [n \in 1..N |-> [s \in X |-> s \o Escaped(w[n], n - 1)]]
<1>1. N \in Nat /\ \A n \in 1..N : w[n] \in Octet /\ n - 1 \in Nat
    BY LenProperties
<1>2. ASSUME NEW n \in 1..N, NEW s \in X PROVE s \o Escaped(w[n], n - 1) \in X
    <2>1. Escaped(w[n], n - 1) \in X
        BY <1>1, EscapedType
    <2> QED
        BY <2>1, ConcatProperties
<1>3. G \in Steps(X, N)
    BY <1>2 DEF Steps
<1>4. <<>> \in X
    OBVIOUS
<1>5. PICK f : IsLoop(f, X, N, <<>>, G)
    <2> HIDE DEF G, X, N
    <2> QED
        BY <1>1, <1>3, <1>4, LoopValues
<1>6. ASSUME NEW n \in 1..N PROVE f[n] = f[n - 1] \o Escaped(w[n], n - 1)
    <2>1. n - 1 \in 0..N /\ f[n - 1] \in X
        BY <1>1, <1>5 DEF IsLoop
    <2> QED
        BY <1>5, <2>1 DEF IsLoop
<1>7. Eq(f)
    <2>1. f = [n \in 0..N |-> f[n]] /\ f[0] = <<>>
        BY <1>5 DEF IsLoop
    <2>2. \A n \in 0..N : n = 0 \/ n \in 1..N
        BY <1>1
    <2> QED
        BY <1>6, <2>1, <2>2
<1>8. Encoded(w) = CHOOSE h : Eq(h)
    BY DEF Encoded
<1>9. Eq(Encoded(w))
    BY <1>7, <1>8
<1> DEFINE e == Encoded(w)
<1> HIDE DEF e
<1>10. e[0] = <<>> /\ \A n \in 1..N : e[n] = e[n - 1] \o Escaped(w[n], n - 1)
    BY <1>1, <1>9 DEF e
<1>11. ASSUME NEW n \in 0..(N - 1) PROVE e[n + 1] = e[n] \o Escaped(w[n + 1], n)
    <2>1. n + 1 \in 1..N /\ (n + 1) - 1 = n
        BY <1>1
    <2> QED
        BY <1>10, <2>1
<1>12. \A n \in 0..N : n \in {h \in 0..N : e[h] \in X}
    <2> DEFINE T == {h \in 0..N : e[h] \in X}
    <2>0. 0 \in 0..N
        BY <1>1
    <2>1. 0 \in T
        <3>1. e[0] \in X
            BY <1>4, <1>10, Zenon
        <3> QED
            BY <2>0, <3>1
    <2>2. ASSUME NEW n \in 0..(N - 1), n \in T PROVE n + 1 \in T
        <3>1. n + 1 \in 1..N /\ n + 1 \in 0..N /\ (n + 1) - 1 = n
            BY <1>1
        <3>2. e[n] \in X
            BY <2>2
        <3>3. e[n] \o Escaped(w[n + 1], n) \in X
            BY <1>2, <3>1, <3>2
        <3> QED
            BY <1>11, <3>1, <3>3
    <2> HIDE DEF T
    <2>3. \A n \in 0..N : n \in T
        BY <1>1, <2>1, <2>2, InductionUpTo
    <2> QED
        BY <2>3 DEF T
<1> QED
    BY <1>10, <1>11, <1>12 DEF e

(* One step of it. *)
LEMMA EncodedStep ==
    ASSUME NEW w \in Seq(Octet), NEW n \in 0..(Len(w) - 1)
    PROVE  /\ n \in Nat /\ n + 1 \in 1..Len(w) /\ n \in 0..Len(w) /\ n + 1 \in 0..Len(w)
           /\ w[n + 1] \in Octet
           /\ Escaped(w[n + 1], n) \in Seq(Octet)
           /\ Len(Escaped(w[n + 1], n)) = IF IsPlain(w[n + 1], n) THEN 1 ELSE 3
           /\ Encoded(w)[n] \in Seq(Octet)
           /\ Encoded(w)[n + 1] \in Seq(Octet)
           /\ Encoded(w)[n + 1] = Encoded(w)[n] \o Escaped(w[n + 1], n)
<1>1. Len(w) \in Nat
    OBVIOUS
<1>2. n \in Nat /\ n + 1 \in 1..Len(w) /\ n \in 0..Len(w) /\ n + 1 \in 0..Len(w)
    BY <1>1
<1>3. w[n + 1] \in Octet
    BY <1>2, ElementOfSeq
<1>4. /\ Escaped(w[n + 1], n) \in Seq(Octet)
      /\ Len(Escaped(w[n + 1], n)) = IF IsPlain(w[n + 1], n) THEN 1 ELSE 3
    BY <1>2, <1>3, EscapedType
<1>5. Encoded(w)[n] \in Seq(Octet) /\ Encoded(w)[n + 1] \in Seq(Octet)
    BY <1>2, EncodedSteps, Zenon
<1>6. Encoded(w)[n + 1] = Encoded(w)[n] \o Escaped(w[n + 1], n)
    BY EncodedSteps, Zenon
<1> QED
    BY <1>2, <1>3, <1>4, <1>5, <1>6

(* How the tag grows with one byte. *)
LEMMA EncodedParts ==
    ASSUME NEW w \in Seq(Octet), NEW n \in 0..(Len(w) - 1)
    PROVE  /\ Len(Encoded(w)[n]) \in Nat
           /\ Len(Encoded(w)[n + 1]) \in Nat
           /\ Len(Escaped(w[n + 1], n)) \in Nat \ {0}
           /\ Len(Encoded(w)[n + 1]) = Len(Encoded(w)[n]) + Len(Escaped(w[n + 1], n))
           /\ \A j \in 1..Len(Encoded(w)[n]) : Encoded(w)[n + 1][j] = Encoded(w)[n][j]
           /\ \A j \in 1..Len(Escaped(w[n + 1], n)) :
                  Encoded(w)[n + 1][Len(Encoded(w)[n]) + j] = Escaped(w[n + 1], n)[j]
<1> DEFINE s == Encoded(w)[n]
           t == Escaped(w[n + 1], n)
           u == Encoded(w)[n + 1]
<1>1. s \in Seq(Octet) /\ t \in Seq(Octet) /\ u \in Seq(Octet) /\ u = s \o t
    BY EncodedStep
<1>2. Len(t) = 1 \/ Len(t) = 3
    BY EncodedStep, Zenon
<1> HIDE DEF s, t, u
<1>3. Len(t) \in Nat \ {0}
    BY <1>2
<1>4. Len(u) \in Nat
    BY <1>1
<1>5. /\ Len(s) \in Nat
      /\ Len(s \o t) = Len(s) + Len(t)
      /\ \A j \in 1..Len(s) : (s \o t)[j] = s[j]
      /\ \A j \in 1..Len(t) : (s \o t)[Len(s) + j] = t[j]
    BY <1>1, ConcatParts
<1> QED
    BY <1>1, <1>3, <1>4, <1>5, Zenon DEF s, t, u

(* What was written stays, and every byte writes something. *)
LEMMA EncodedGrows ==
    ASSUME NEW w \in Seq(Octet), NEW n \in 0..Len(w), NEW m \in n..Len(w)
    PROVE  /\ Len(Encoded(w)[n]) \in Nat
           /\ Len(Encoded(w)[m]) \in Nat
           /\ Len(Encoded(w)[n]) + (m - n) <= Len(Encoded(w)[m])
           /\ \A j \in 1..Len(Encoded(w)[n]) : Encoded(w)[m][j] = Encoded(w)[n][j]
<1> DEFINE e == Encoded(w)
           L(h) == Len(e[h])
           N == Len(w)
           Good(h) == /\ L(h) \in Nat /\ L(n) + (h - n) <= L(h)
                      /\ \A j \in 1..L(n) : e[h][j] = e[n][j]
           T == {h \in n..N : Good(h)}
<1>1. N \in Nat /\ n \in Nat /\ n \in 0..N /\ m \in n..N
    OBVIOUS
<1>2. L(n) \in Nat
    <2>1. e[n] \in Seq(Octet)
        BY <1>1, EncodedSteps, Zenon
    <2> QED
        BY <2>1
<1>3. n \in T
    <2> HIDE DEF L, N
    <2> QED
        BY <1>1, <1>2
<1>4. ASSUME NEW h \in n..(N - 1), h \in T PROVE h + 1 \in T
    <2>0. h \in 0..(N - 1) /\ h + 1 \in n..N /\ h \in Nat
        BY <1>1
    <2> DEFINE k == Len(Escaped(w[h + 1], h))
    <2>1. /\ L(h) \in Nat
          /\ L(h + 1) \in Nat
          /\ k \in Nat \ {0}
          /\ L(h + 1) = L(h) + k
          /\ \A j \in 1..L(h) : e[h + 1][j] = e[h][j]
        BY <2>0, EncodedParts, Zenon
    <2> HIDE DEF L, k, N
    <2>2. L(n) + (h - n) <= L(h) /\ \A j \in 1..L(n) : e[h][j] = e[n][j]
        BY <1>4
    <2>3. L(n) + ((h + 1) - n) <= L(h + 1)
        BY <1>1, <1>2, <2>0, <2>1, <2>2
    <2>4. L(n) <= L(h)
        BY <1>1, <1>2, <2>0, <2>1, <2>2
    <2>5. ASSUME NEW j \in 1..L(n) PROVE e[h + 1][j] = e[n][j]
        <3>1. j \in 1..L(h)
            BY <1>2, <2>1, <2>4
        <3> QED
            BY <2>1, <2>2, <3>1, Zenon
    <2> QED
        BY <2>0, <2>1, <2>3, <2>5
<1>5. \A h \in n..N : h \in T
    <2> HIDE DEF T, N
    <2> QED
        BY <1>1, <1>3, <1>4, InductionUpTo
<1>6. Good(m)
    BY <1>1, <1>5
<1> QED
    BY <1>2, <1>6

(* The encoding of a prefix is a prefix of the encoding. *)
LEMMA EncodedPrefix ==
    ASSUME NEW u \in Seq(Octet), NEW w \in Seq(Octet), Len(u) <= Len(w),
           \A i \in 1..Len(u) : w[i] = u[i]
    PROVE  Encoded(w)[Len(u)] = EncodeTag(u)
<1> DEFINE N == Len(u)
           T == {h \in 0..N : Encoded(w)[h] = Encoded(u)[h]}
<1>1. N \in Nat /\ Len(w) \in Nat /\ N <= Len(w)
    OBVIOUS
<1>2. 0 \in T
    <2>1. Encoded(w)[0] = Encoded(u)[0]
        BY EncodedSteps, Zenon
    <2> QED
        BY <1>1, <2>1
<1>3. ASSUME NEW h \in 0..(N - 1), h \in T PROVE h + 1 \in T
    <2>1. h \in 0..(Len(u) - 1) /\ h \in 0..(Len(w) - 1) /\ h + 1 \in 0..N /\ h + 1 \in 1..Len(u)
        BY <1>1
    <2>2. Encoded(u)[h + 1] = Encoded(u)[h] \o Escaped(u[h + 1], h)
        BY <2>1, EncodedSteps, Zenon
    <2>3. Encoded(w)[h + 1] = Encoded(w)[h] \o Escaped(w[h + 1], h)
        BY <2>1, EncodedSteps, Zenon
    <2>4. Encoded(w)[h] = Encoded(u)[h]
        BY <1>3
    <2>5. Encoded(w)[h + 1] = Encoded(u)[h + 1]
        BY <2>1, <2>2, <2>3, <2>4, Zenon
    <2> QED
        BY <2>1, <2>5
<1>4. \A h \in 0..N : h \in T
    <2> HIDE DEF T, N
    <2> QED
        BY <1>1, <1>2, <1>3, InductionUpTo
<1>5. N \in 0..N
    BY <1>1
<1> QED
    BY <1>4, <1>5 DEF EncodeTag

-----------------------------------------------------------------------------
(* No byte is escaped with a space. *)
Writable(w) == \A i \in 1..Len(w) : IsPlain(w[i], i - 1) \/ w[i] >= 16

(* tagRe: lvmctrld accepts the tag. *)
IsValid(tag) == tag[1] # Hyphen /\ \A i \in DOMAIN tag : tag[i] \in TagChar

(* The characters of a byte that is not escaped with a space are allowed. *)
LEMMA EscapedValid ==
    ASSUME NEW b \in Octet, NEW pos \in Nat, IsPlain(b, pos) \/ b >= 16
    PROVE  \A i \in 1..Len(Escaped(b, pos)) : Escaped(b, pos)[i] \in TagChar
<1>1. CASE IsPlain(b, pos)
    <2>1. b \in TagChar
        BY <1>1 DEF IsPlain, TagChar
    <2>2. Escaped(b, pos) = <<b>> /\ Len(<<b>>) = 1
        BY <1>1 DEF Escaped
    <2>3. ASSUME NEW i \in 1..1 PROVE <<b>>[i] = b
        OBVIOUS
    <2> QED
        BY <2>1, <2>2, <2>3
<1>2. CASE ~IsPlain(b, pos)
    <2>0. b >= 16
        BY <1>2
    <2>1. b \div 16 \in 0..15 /\ b % 16 \in 0..15
        BY DEF Octet
    <2>2. ASSUME NEW d \in 0..15 PROVE HexDigit(d) \in TagChar
        BY DEF HexDigit, TagChar, Alphanumeric
    <2>3. Amp \in TagChar
        BY DEF Amp, TagChar
    <2> DEFINE h == HexDigit(b \div 16)
               l == HexDigit(b % 16)
    <2>4. h \in TagChar /\ l \in TagChar
        BY <2>1, <2>2
    <2>5. Escaped(b, pos) = <<Amp, h, l>>
        <3>1. ~(b < 16)
            BY <2>0 DEF Octet
        <3> QED
            BY <1>2, <3>1 DEF Escaped, Quoted
    <2> HIDE DEF h, l
    <2>6. Len(<<Amp, h, l>>) = 3
        OBVIOUS
    <2>7. ASSUME NEW i \in 1..3 PROVE <<Amp, h, l>>[i] \in TagChar
        BY <2>3, <2>4
    <2> QED
        BY <2>5, <2>6, <2>7
<1> QED
    BY <1>1, <1>2

(* A tag is a string of bytes. *)
LEMMA EncodeTagType ==
    ASSUME NEW w \in Seq(Octet)
    PROVE  /\ EncodeTag(w) \in Seq(Octet)
           /\ Len(EncodeTag(w)) \in Nat
           /\ DOMAIN EncodeTag(w) = 1..Len(EncodeTag(w))
<1>1. Len(w) \in 0..Len(w)
    OBVIOUS
<1>2. EncodeTag(w) \in Seq(Octet)
    BY <1>1, EncodedSteps, Zenon DEF EncodeTag
<1> QED
    BY <1>2, LenProperties

(* A tag without control characters is one that lvmctrld accepts. *)
LEMMA EncodedValid ==
    ASSUME NEW w \in Seq(Octet), Len(w) >= 1, Writable(w)
    PROVE  IsValid(EncodeTag(w))
<1> DEFINE e == Encoded(w)
           N == Len(w)
           Good(h) == \A j \in 1..Len(e[h]) : e[h][j] \in TagChar
           T == {h \in 0..N : Good(h)}
<1>1. N \in Nat /\ N >= 1 /\ EncodeTag(w) = e[N] /\ N \in 0..N
    BY DEF EncodeTag
<1>2. 0 \in T
    <2>1. e[0] = <<>> /\ Len(<<>>) = 0
        BY EncodedSteps, Zenon
    <2>2. Good(0)
        BY <2>1
    <2> QED
        BY <1>1, <2>2
<1>3. ASSUME NEW h \in 0..(N - 1), h \in T PROVE h + 1 \in T
    <2> DEFINE p == Escaped(w[h + 1], h)
               s == e[h]
               u == e[h + 1]
    <2>1. h \in Nat /\ h + 1 \in 1..N /\ h + 1 \in 0..N /\ (h + 1) - 1 = h
        BY <1>1
    <2>2. w[h + 1] \in Octet
        BY <2>1, ElementOfSeq
    <2>3. \A i \in 1..Len(p) : p[i] \in TagChar
        <3>1. IsPlain(w[h + 1], (h + 1) - 1) \/ w[h + 1] >= 16
            BY <2>1, Zenon DEF Writable
        <3>2. IsPlain(w[h + 1], h) \/ w[h + 1] >= 16
            BY <2>1, <3>1
        <3> QED
            BY <2>1, <2>2, <3>2, EscapedValid, Zenon
    <2>4. /\ Len(s) \in Nat
          /\ Len(p) \in Nat \ {0}
          /\ Len(u) = Len(s) + Len(p)
          /\ \A j \in 1..Len(s) : u[j] = s[j]
          /\ \A j \in 1..Len(p) : u[Len(s) + j] = p[j]
        BY EncodedParts, Zenon
    <2>5. \A j \in 1..Len(s) : s[j] \in TagChar
        BY <1>3
    <2> HIDE DEF p, s, u
    <2>6. ASSUME NEW j \in 1..Len(u) PROVE u[j] \in TagChar
        <3>1. CASE j <= Len(s)
            <4>1. j \in 1..Len(s)
                BY <2>4, <3>1
            <4> QED
                BY <2>4, <2>5, <4>1, Zenon
        <3>2. CASE ~(j <= Len(s))
            <4>1. j - Len(s) \in 1..Len(p) /\ Len(s) + (j - Len(s)) = j
                BY <2>4, <3>2
            <4>2. u[Len(s) + (j - Len(s))] = p[j - Len(s)]
                BY <2>4, <4>1, Zenon
            <4>3. p[j - Len(s)] \in TagChar
                BY <2>3, <4>1, Zenon
            <4> QED
                BY <4>1, <4>2, <4>3
        <3> QED
            BY <3>1, <3>2
    <2>7. Good(h + 1)
        BY <2>6 DEF u
    <2> QED
        BY <2>1, <2>7
<1>4. \A h \in 0..N : h \in T
    <2> HIDE DEF T, N
    <2> QED
        BY <1>1, <1>2, <1>3, InductionUpTo
<1>5. Good(N)
    BY <1>1, <1>4
<1>6. EncodeTag(w)[1] # Hyphen
    <2> DEFINE b == w[1]
               p == Escaped(b, 0)
    <2>1. 0 \in 0..(N - 1) /\ 0 + 1 = 1 /\ 1 \in 1..N /\ 1 \in 0..N /\ N \in 1..N
        BY <1>1
    <2>2. e[1] = e[0] \o p
        BY <2>1, EncodedSteps
    <2>3. e[0] = <<>>
        BY EncodedSteps, Zenon
    <2>4. b \in Octet
        BY <2>1, ElementOfSeq
    <2>5. p \in Seq(Octet) /\ Len(p) = (IF IsPlain(b, 0) THEN 1 ELSE 3)
        BY <2>4, EscapedType
    <2>6. e[1] = p
        BY <2>2, <2>3, <2>5, ConcatEmptySeq
    <2>7. 1 \in 1..Len(p)
        BY <2>5
    <2>8. e[N][1] = p[1]
        <3>1. \A j \in 1..Len(e[1]) : e[N][j] = e[1][j]
            BY <2>1, EncodedGrows, Zenon
        <3>2. 1 \in 1..Len(e[1])
            BY <2>6, <2>7, Zenon
        <3>3. e[N][1] = e[1][1]
            BY <3>1, <3>2, Zenon
        <3> QED
            BY <2>6, <3>3, Zenon
    <2>9. p[1] # Hyphen
        <3>1. CASE IsPlain(b, 0)
            <4>1. b # Hyphen
                BY <3>1 DEF IsPlain
            <4> QED
                BY <3>1, <4>1 DEF Escaped
        <3>2. CASE ~IsPlain(b, 0)
            <4>1. p[1] = Amp
                BY <3>2 DEF Escaped, Quoted
            <4> QED
                BY <4>1 DEF Amp, Hyphen
        <3> QED
            BY <3>1, <3>2
    <2> QED
        BY <1>1, <2>8, <2>9
<1>7. DOMAIN EncodeTag(w) = 1..Len(EncodeTag(w))
    BY EncodeTagType
<1> QED
    BY <1>1, <1>5, <1>6, <1>7 DEF IsValid

(* A tag that lvmctrld accepts has no control characters. *)
LEMMA ValidIsWritable ==
    ASSUME NEW w \in Seq(Octet), IsValid(EncodeTag(w))
    PROVE  Writable(w)
<1> DEFINE e == Encoded(w)
           N == Len(w)
<1> SUFFICES ASSUME NEW i \in 1..N, ~IsPlain(w[i], i - 1), ~(w[i] >= 16)
             PROVE  FALSE
    BY DEF Writable
<1>1. N \in Nat /\ i - 1 \in 0..(N - 1) /\ (i - 1) + 1 = i /\ EncodeTag(w) = e[N]
    BY DEF EncodeTag
<1> DEFINE h == i - 1
           p == Escaped(w[i], h)
           off == Len(e[h])
<1>2. w[i] \in Octet
    BY ElementOfSeq
<1>3. w[i] < 16
    <2>1. ASSUME NEW b \in Octet, ~(b >= 16) PROVE b < 16
        BY <2>1 DEF Octet
    <2> QED
        BY <1>2, <2>1
<1>4. p = <<Amp, Space, HexDigit(w[i] % 16)>>
    BY <1>3 DEF Escaped, Quoted
<1>5. Len(p) = 3 /\ p[2] = Space
    BY <1>4
<1>6. /\ off \in Nat
      /\ Len(e[h + 1]) \in Nat
      /\ Len(e[h + 1]) = off + Len(Escaped(w[h + 1], h))
      /\ \A j \in 1..Len(Escaped(w[h + 1], h)) : e[h + 1][off + j] = Escaped(w[h + 1], h)[j]
    BY <1>1, EncodedParts, Zenon
<1>7. h + 1 = i
    BY <1>1
<1>8. /\ Len(e[i]) = off + Len(p)
      /\ \A j \in 1..Len(p) : e[i][off + j] = p[j]
    BY <1>6, <1>7
<1>9. i \in 0..N /\ N \in i..N
    BY <1>1
<1>10. /\ Len(e[N]) \in Nat
       /\ Len(e[i]) + (N - i) <= Len(e[N])
       /\ \A j \in 1..Len(e[i]) : e[N][j] = e[i][j]
    BY <1>9, EncodedGrows, Zenon
<1>11. 2 \in 1..Len(p)
    BY <1>5
<1> HIDE DEF p, off, h
<1>12. off + 2 \in 1..Len(e[i])
    BY <1>5, <1>6, <1>8
<1>13. off + 2 \in 1..Len(e[N])
    BY <1>1, <1>5, <1>6, <1>8, <1>10
<1>14. e[N][off + 2] = Space
    BY <1>5, <1>8, <1>10, <1>11, <1>12, Zenon
<1>15. Space \notin TagChar
    BY DEF TagChar, Alphanumeric, Space, Hyphen, Equal, Amp
<1>16. DOMAIN EncodeTag(w) = 1..Len(EncodeTag(w))
    BY EncodeTagType
<1>17. \A j \in DOMAIN EncodeTag(w) : EncodeTag(w)[j] \in TagChar
    BY DEF IsValid
<1> QED
    BY <1>1, <1>13, <1>14, <1>15, <1>16, <1>17, Zenon

-----------------------------------------------------------------------------
(* The states of decodeTag. *)
Decoders == [ok : BOOLEAN, out : Seq(Nat), quote : BOOLEAN, high : 0..16]

(* The decoder with another output, field by field. *)
LEMMA DecoderOut ==
    ASSUME NEW s
    PROVE  [Decoder EXCEPT !.out = s] = [ok |-> TRUE, out |-> s, quote |-> FALSE, high |-> 16]
<1> DEFINE t == TRUE
           f == FALSE
           z == <<>>
           x == 16
<1>1. Decoder = [ok |-> t, out |-> z, quote |-> f, high |-> x]
    BY DEF Decoder
<1> HIDE DEF t, f, z, x
<1>2. [Decoder EXCEPT !.out = s] = [ok |-> t, out |-> s, quote |-> f, high |-> x]
    BY <1>1
<1> QED
    BY <1>2 DEF t, f, x

(* A byte makes a state of the decoder into another. *)
LEMMA DecodeByteType ==
    ASSUME NEW d \in Decoders, NEW b \in Octet, NEW pos \in Nat
    PROVE  DecodeByte(d, b, pos) \in Decoders
<1> DEFINE h == HexDecode(b)
<1>1. h \in 0..16
    BY DEF HexDecode, Octet
<1>2. IsPlain(b, pos) \in BOOLEAN
    BY DEF IsPlain
<1>3. b \in Nat
    BY DEF Octet
<1>4. /\ d.ok \in BOOLEAN /\ d.out \in Seq(Nat) /\ d.quote \in BOOLEAN /\ d.high \in 0..16
      /\ d = [ok |-> d.ok, out |-> d.out, quote |-> d.quote, high |-> d.high]
    BY DEF Decoders
<1> HIDE DEF h
<1>5. [d EXCEPT !.ok = FALSE] \in Decoders
    BY <1>4 DEF Decoders
<1>6. ASSUME h # 16 PROVE [d EXCEPT !.high = h] \in Decoders
    BY <1>1, <1>4 DEF Decoders
<1>7. [Decoder EXCEPT !.out = Append(d.out, 16 * d.high + h)] \in Decoders
    <2>1. 16 * d.high + h \in Nat
        <3>1. ASSUME NEW x \in 0..16, NEW y \in 0..16 PROVE 16 * x + y \in Nat
            OBVIOUS
        <3> QED
            BY <1>1, <1>4, <3>1
    <2>2. Append(d.out, 16 * d.high + h) \in Seq(Nat)
        BY <1>4, <2>1, AppendProperties
    <2> DEFINE s == Append(d.out, 16 * d.high + h)
    <2>3. [Decoder EXCEPT !.out = s] = [ok |-> TRUE, out |-> s, quote |-> FALSE, high |-> 16]
        BY DecoderOut, Zenon
    <2> HIDE DEF s
    <2>4. ASSUME s \in Seq(Nat)
          PROVE  [ok |-> TRUE, out |-> s, quote |-> FALSE, high |-> 16] \in Decoders
        BY <2>4 DEF Decoders
    <2> QED
        BY <2>2, <2>3, <2>4, Zenon DEF s
<1>8. [d EXCEPT !.quote = TRUE] \in Decoders
    BY <1>4 DEF Decoders
<1>9. [d EXCEPT !.out = Append(d.out, b), !.ok = IsPlain(b, pos)] \in Decoders
    <2>1. Append(d.out, b) \in Seq(Nat)
        BY <1>3, <1>4, AppendProperties
    <2> QED
        BY <1>2, <1>4, <2>1 DEF Decoders
<1> DEFINE r == DecodeByte(d, b, pos)
<1>10. CASE ~d.ok
    BY <1>10 DEF DecodeByte
<1>11. CASE d.ok /\ d.quote
    <2> DEFINE a1 == [d EXCEPT !.ok = FALSE]
               a2 == [d EXCEPT !.high = h]
               a3 == [Decoder EXCEPT !.out = Append(d.out, 16 * d.high + h)]
               k == d.high
    <2>1. r = CASE h = 16 -> a1 [] h < 16 /\ k = 16 -> a2 [] OTHER -> a3
        BY <1>11, Zenon DEF DecodeByte, h
    <2>0. a1 \in Decoders /\ a3 \in Decoders /\ (h # 16 => a2 \in Decoders)
        BY <1>5, <1>6, <1>7, Zenon
    <2> HIDE DEF r, a1, a2, a3, k
    <2>2. ASSUME h = 16 PROVE r = a1
        BY <2>1, <2>2, SMT
    <2>3. ASSUME h # 16, h < 16 /\ k = 16 PROVE r = a2
        BY <2>1, <2>3, SMT
    <2>4. ASSUME h # 16, ~(h < 16 /\ k = 16) PROVE r = a3
        BY <2>1, <2>4, SMT
    <2>5. r \in Decoders
        BY <2>0, <2>2, <2>3, <2>4, Zenon
    <2> QED
        BY <2>5 DEF r
<1>12. CASE d.ok /\ ~d.quote /\ b = Amp
    BY <1>8, <1>12 DEF DecodeByte
<1>13. CASE d.ok /\ ~d.quote /\ b # Amp
    BY <1>9, <1>13 DEF DecodeByte
<1> QED
    BY <1>10, <1>11, <1>12, <1>13

(* The values of the loop of decodeTag (tagencoder.go:36-66). *)
LEMMA DecodedSteps ==
    ASSUME NEW w \in Seq(Octet)
    PROVE  /\ Decoded(w)[0] = Decoder
           /\ \A n \in 0..(Len(w) - 1) : Decoded(w)[n + 1] = DecodeByte(Decoded(w)[n], w[n + 1], n)
<1> DEFINE N == Len(w)
           Eq(g) == g = [n \in 0..Len(w) |-> IF n = 0 THEN Decoder ELSE DecodeByte(g[n - 1], w[n], n - 1)]
           G == [n \in 1..N |-> [s \in Decoders |-> DecodeByte(s, w[n], n - 1)]]
<1>1. N \in Nat /\ \A n \in 1..N : w[n] \in Octet /\ n - 1 \in Nat
    BY LenProperties
<1>2. ASSUME NEW n \in 1..N, NEW s \in Decoders PROVE DecodeByte(s, w[n], n - 1) \in Decoders
    BY <1>1, DecodeByteType
<1>3. G \in Steps(Decoders, N)
    BY <1>2 DEF Steps
<1>4. Decoder \in Decoders
    <2>1. <<>> \in Seq(Nat)
        OBVIOUS
    <2> QED
        BY <2>1 DEF Decoder, Decoders
<1>5. PICK f : IsLoop(f, Decoders, N, Decoder, G)
    <2> HIDE DEF G, N
    <2> QED
        BY <1>1, <1>3, <1>4, LoopValues
<1>6. ASSUME NEW n \in 1..N PROVE f[n] = DecodeByte(f[n - 1], w[n], n - 1)
    <2>1. n - 1 \in 0..N /\ f[n - 1] \in Decoders
        BY <1>1, <1>5 DEF IsLoop
    <2> QED
        BY <1>5, <2>1 DEF IsLoop
<1>7. Eq(f)
    <2>1. f = [n \in 0..N |-> f[n]] /\ f[0] = Decoder
        BY <1>5 DEF IsLoop
    <2>2. \A n \in 0..N : n = 0 \/ n \in 1..N
        BY <1>1
    <2> QED
        BY <1>6, <2>1, <2>2
<1>8. Decoded(w) = CHOOSE h : Eq(h)
    BY DEF Decoded
<1>9. Eq(Decoded(w))
    BY <1>7, <1>8
<1> DEFINE e == Decoded(w)
<1> HIDE DEF e
<1>10. e[0] = Decoder /\ \A n \in 1..N : e[n] = DecodeByte(e[n - 1], w[n], n - 1)
    BY <1>1, <1>9 DEF e
<1>11. ASSUME NEW n \in 0..(N - 1) PROVE e[n + 1] = DecodeByte(e[n], w[n + 1], n)
    <2>1. n + 1 \in 1..N /\ (n + 1) - 1 = n
        BY <1>1
    <2> QED
        BY <1>10, <2>1
<1> QED
    BY <1>10, <1>11 DEF e

(* Between two bytes of the value, with s decoded. *)
Between(s) == [ok |-> TRUE, out |-> s, quote |-> FALSE, high |-> 16]

(* A character that is not escaped stands for itself. *)
LEMMA DecodePlain ==
    ASSUME NEW s \in Seq(Octet), NEW b \in Octet, NEW q \in Nat, IsPlain(b, q)
    PROVE  DecodeByte(Between(s), b, q) = Between(Append(s, b))
<1> DEFINE d == Between(s)
<1>1. b # Amp
    BY DEF IsPlain, Amp, Hyphen
<1>2. d.ok = TRUE /\ d.quote = FALSE /\ d.out = s
    BY DEF Between
<1>3. DecodeByte(d, b, q) = [d EXCEPT !.out = Append(d.out, b), !.ok = IsPlain(b, q)]
    BY <1>1, <1>2 DEF DecodeByte
<1>4. IsPlain(b, q) = TRUE
    BY DEF IsPlain
<1> QED
    BY <1>2, <1>3, <1>4 DEF Between

(* hexDecode reads what is printed (tagencoder.go:88-100). *)
LEMMA HexRoundTrip ==
    ASSUME NEW x \in 0..15
    PROVE  HexDecode(HexDigit(x)) = x
BY DEF HexDecode, HexDigit

(* The three characters of an escaped byte stand for it. *)
LEMMA DecodeQuoted ==
    ASSUME NEW s \in Seq(Octet), NEW b \in Octet, NEW q \in Nat, NEW r \in Nat, NEW t \in Nat,
           b >= 16
    PROVE  DecodeByte(DecodeByte(DecodeByte(Between(s), Quoted(b)[1], q), Quoted(b)[2], r),
                      Quoted(b)[3], t) = Between(Append(s, b))
<1> DEFINE x == b \div 16
           y == b % 16
           hx == HexDigit(x)
           hy == HexDigit(y)
           d1 == [ok |-> TRUE, out |-> s, quote |-> TRUE, high |-> 16]
           d2 == [ok |-> TRUE, out |-> s, quote |-> TRUE, high |-> x]
<1>1. x \in 0..15 /\ y \in 0..15 /\ 16 * x + y = b /\ ~(b < 16)
    BY DEF Octet
<1>2. Quoted(b) = <<Amp, hx, hy>>
    BY <1>1 DEF Quoted
<1>3. HexDecode(hx) = x /\ HexDecode(hy) = y
    BY <1>1, HexRoundTrip
<1> HIDE DEF x, y, hx, hy
<1>4. Quoted(b)[1] = Amp /\ Quoted(b)[2] = hx /\ Quoted(b)[3] = hy
    BY <1>2
<1>5. DecodeByte(Between(s), Amp, q) = d1
    BY DEF DecodeByte, Between
<1>6. DecodeByte(d1, hx, r) = d2
    <2>1. x # 16 /\ x < 16
        BY <1>1
    <2>2. d1.ok = TRUE /\ d1.quote = TRUE /\ d1.high = 16
        OBVIOUS
    <2>3. [d1 EXCEPT !.high = x] = d2
        <3> DEFINE y1 == TRUE
                   z1 == 16
        <3>1. d1 = [ok |-> y1, out |-> s, quote |-> y1, high |-> z1]
            OBVIOUS
        <3>2. d2 = [ok |-> y1, out |-> s, quote |-> y1, high |-> x]
            OBVIOUS
        <3> HIDE DEF y1, z1, d1, d2
        <3> QED
            BY <3>1, <3>2
    <2> HIDE DEF d1, d2
    <2> QED
        BY <1>3, <2>1, <2>2, <2>3 DEF DecodeByte
<1>7. DecodeByte(d2, hy, t) = Between(Append(s, b))
    <2>1. y # 16 /\ x # 16
        BY <1>1
    <2>2. d2.ok = TRUE /\ d2.quote = TRUE /\ d2.high = x /\ d2.out = s
        OBVIOUS
    <2>3. [Decoder EXCEPT !.out = Append(s, b)] = Between(Append(s, b))
        BY DecoderOut, Zenon DEF Between
    <2> HIDE DEF d2
    <2> QED
        BY <1>1, <1>3, <2>1, <2>2, <2>3 DEF DecodeByte
<1> QED
    BY <1>4, <1>5, <1>6, <1>7, Zenon

-----------------------------------------------------------------------------
(* What remains of the encoding of w after that of its first P bytes. *)
Rest(w, P) == SubSeq(EncodeTag(w), Len(Encoded(w)[P]) + 1, Len(EncodeTag(w)))

(* Its bytes are those of the tag, from there on. *)
LEMMA RestType ==
    ASSUME NEW w \in Seq(Octet), NEW P \in 0..Len(w)
    PROVE  /\ Rest(w, P) \in Seq(Octet)
           /\ Len(Encoded(w)[P]) \in Nat
           /\ Len(EncodeTag(w)) \in Nat
           /\ Len(Encoded(w)[P]) <= Len(EncodeTag(w))
           /\ Len(Rest(w, P)) = Len(EncodeTag(w)) - Len(Encoded(w)[P])
           /\ \A i \in 1..Len(Rest(w, P)) : Rest(w, P)[i] = EncodeTag(w)[Len(Encoded(w)[P]) + i]
<1> DEFINE t == EncodeTag(w)
           m == Len(Encoded(w)[P])
           k == Len(t)
           r == SubSeq(t, m + 1, k)
<1>1. Len(w) \in Nat /\ Len(w) \in P..Len(w) /\ t = Encoded(w)[Len(w)]
    BY DEF EncodeTag
<1>2. m \in Nat /\ m + (Len(w) - P) <= k /\ k \in Nat
    BY <1>1, EncodedGrows, Zenon
<1>3. t \in Seq(Octet) /\ \A i \in 1..k : t[i] \in Octet
    BY EncodeTagType, ElementOfSeq
<1>4. m <= k
    <2> HIDE DEF m, k
    <2> QED
        BY <1>1, <1>2
<1> HIDE DEF m, k, t
<1>5. \A i \in (m + 1)..k : t[i] \in Octet
    BY <1>2, <1>3
<1>6. /\ r \in Seq(Octet)
      /\ Len(r) = IF m + 1 <= k THEN k - (m + 1) + 1 ELSE 0
      /\ \A i \in 1..(k - (m + 1) + 1) : r[i] = t[(m + 1) + i - 1]
    <2>1. m + 1 \in Int /\ k \in Int
        BY <1>2
    <2> QED
        BY <1>5, <2>1, SubSeqProperties
<1> HIDE DEF r
<1>7. Len(r) = k - m
    BY <1>2, <1>4, <1>6
<1>8. ASSUME NEW i \in 1..Len(r) PROVE r[i] = t[m + i]
    <2>1. i \in 1..(k - (m + 1) + 1) /\ (m + 1) + i - 1 = m + i
        BY <1>2, <1>4, <1>7
    <2> QED
        BY <1>6, <2>1
<1> QED
    BY <1>2, <1>4, <1>6, <1>7, <1>8, Zenon DEF m, k, t, r, Rest

(* Where the characters of a byte are in it. *)
LEMMA RestPiece ==
    ASSUME NEW w \in Seq(Octet), NEW P \in 0..Len(w), NEW n \in P..(Len(w) - 1),
           NEW j \in 1..Len(Escaped(w[n + 1], n))
    PROVE  /\ Len(Encoded(w)[n]) - Len(Encoded(w)[P]) \in Nat
           /\ Len(Encoded(w)[n]) - Len(Encoded(w)[P]) + j \in 1..Len(Rest(w, P))
           /\ Rest(w, P)[Len(Encoded(w)[n]) - Len(Encoded(w)[P]) + j] = Escaped(w[n + 1], n)[j]
<1> DEFINE e == Encoded(w)
           L(h) == Len(e[h])
           N == Len(w)
           p == Escaped(w[n + 1], n)
           k == Len(p)
           q == L(n) - L(P)
           r == Rest(w, P)
           t == EncodeTag(w)
<1>1. /\ N \in Nat /\ n \in 0..(N - 1) /\ n \in P..N /\ n \in Nat /\ P \in Nat /\ n - P \in Nat
      /\ n + 1 \in 0..N /\ N \in (n + 1)..N
      /\ t = e[N]
    BY DEF EncodeTag
<1>2. /\ L(n) \in Nat
      /\ L(n + 1) \in Nat
      /\ k \in Nat \ {0}
      /\ L(n + 1) = L(n) + k
      /\ \A i \in 1..k : e[n + 1][L(n) + i] = p[i]
    BY <1>1, EncodedParts, Zenon
<1>3. L(P) \in Nat /\ L(P) + (n - P) <= L(n)
    BY <1>1, EncodedGrows, Zenon
<1>4. /\ L(N) \in Nat
      /\ L(n + 1) + (N - (n + 1)) <= L(N)
      /\ \A i \in 1..L(n + 1) : e[N][i] = e[n + 1][i]
    BY <1>1, EncodedGrows, Zenon
<1>5. /\ Len(r) = Len(t) - L(P)
      /\ \A i \in 1..Len(r) : r[i] = t[L(P) + i]
    BY RestType, Zenon
<1>6. N - (n + 1) \in Nat /\ Len(t) = L(N)
    BY <1>1
<1>7. j \in 1..k
    OBVIOUS
<1> HIDE DEF L, e, p, k, r, t, N
<1>8. q \in Nat
    BY <1>1, <1>2, <1>3
<1>9. L(n) + j \in 1..L(n + 1)
    BY <1>2, <1>7
<1>10. L(P) + (q + j) = L(n) + j /\ q + j \in 1..(L(N) - L(P))
    <2>1. ASSUME NEW a \in Nat, NEW c \in Nat, NEW d \in Nat, NEW z \in Nat, NEW g \in Nat,
                 a <= c, c + z + g <= d, NEW i \in 1..z
          PROVE  a + ((c - a) + i) = c + i /\ (c - a) + i \in 1..(d - a)
        BY <2>1
    <2>2. L(P) <= L(n)
        BY <1>1, <1>2, <1>3
    <2>3. L(n) + k + (N - (n + 1)) <= L(N)
        BY <1>2, <1>4
    <2> QED
        BY <1>2, <1>3, <1>4, <1>6, <1>7, <2>1, <2>2, <2>3
<1>11. q + j \in 1..Len(r)
    <2> HIDE DEF q
    <2> QED
        BY <1>5, <1>6, <1>10, Zenon
<1>12. r[q + j] = t[L(P) + (q + j)]
    BY <1>5, <1>11, Zenon
<1>13. e[N][L(n) + j] = e[n + 1][L(n) + j]
    BY <1>4, <1>9, Zenon
<1>14. e[n + 1][L(n) + j] = p[j]
    BY <1>2, <1>7, Zenon
<1>15. r[q + j] = p[j]
    <2> DEFINE x == L(P) + (q + j)
               y == L(n) + j
    <2>1. x = y /\ r[q + j] = t[x] /\ e[N][y] = p[j]
        BY <1>10, <1>12, <1>13, <1>14, Zenon
    <2> HIDE DEF x, y, q
    <2> QED
        BY <1>1, <2>1, Zenon
<1> QED
    BY <1>8, <1>11, <1>15 DEF L, e, p, k, r

(* Decoding what remains gives the bytes it encodes, as long as the first  *)
(* of them is not a hyphen, which is only allowed further on.              *)
LEMMA RestDecodes ==
    ASSUME NEW w \in Seq(Octet), Writable(w), NEW P \in 0..(Len(w) - 1), w[P + 1] # Hyphen
    PROVE  DecodeTag(Rest(w, P)) = [ok |-> TRUE, value |-> SubSeq(w, P + 1, Len(w))]
<1> DEFINE e == Encoded(w)
           L(h) == Len(e[h])
           N == Len(w)
           r == Rest(w, P)
           dec == Decoded(r)
           Good(h) == dec[L(h) - L(P)] = Between(SubSeq(w, P + 1, h))
           T == {h \in P..N : Good(h)}
<1>1. N \in Nat /\ P \in Nat /\ P \in 0..N /\ P + 1 \in 1..N /\ N \in P..N
    OBVIOUS
<1>2. /\ r \in Seq(Octet)
      /\ L(P) \in Nat
      /\ Len(r) = Len(EncodeTag(w)) - L(P)
    BY <1>1, RestType, Zenon
<1>3. /\ dec[0] = Decoder
      /\ \A i \in 0..(Len(r) - 1) : dec[i + 1] = DecodeByte(dec[i], r[i + 1], i)
    BY <1>2, DecodedSteps, Zenon
<1>4. P \in T
    <2>1. L(P) - L(P) = 0
        <3> HIDE DEF L
        <3> QED
            BY <1>2
    <2>2. SubSeq(w, P + 1, P) = <<>>
        BY <1>1, SubSeqEmpty
    <2>3. Decoder = Between(<<>>)
        BY DEF Decoder, Between
    <2>4. dec[L(P) - L(P)] = Between(SubSeq(w, P + 1, P))
        BY <1>3, <2>1, <2>2, <2>3
    <2> QED
        BY <1>1, <2>4
<1>5. ASSUME NEW n \in P..(N - 1), n \in T PROVE n + 1 \in T
    <2> DEFINE b == w[n + 1]
               p == Escaped(b, n)
               q == L(n) - L(P)
               s == SubSeq(w, P + 1, n)
    <2>1. n \in Nat /\ n \in 0..(N - 1) /\ n + 1 \in 1..N /\ n + 1 \in P..N /\ (n + 1) - 1 = n /\ n \in P..N
        BY <1>1
    <2>2. b \in Octet
        BY <2>1, ElementOfSeq
    <2>3. IsPlain(b, n) \/ b >= 16
        <3>1. IsPlain(w[n + 1], (n + 1) - 1) \/ w[n + 1] >= 16
            BY <2>1, Zenon DEF Writable
        <3> QED
            BY <2>1, <3>1
    <2>4. s \in Seq(Octet)
        <3>1. \A i \in (P + 1)..n : w[i] \in Octet
            <4>1. \A i \in (P + 1)..n : i \in 1..Len(w)
                BY <1>1, <2>1
            <4> QED
                BY <4>1, ElementOfSeq
        <3>2. P + 1 \in Int /\ n \in Int
            BY <1>1, <2>1
        <3> QED
            BY <3>1, <3>2, SubSeqProperties
    <2>5. SubSeq(w, P + 1, n + 1) = Append(s, b)
        <3>1. P + 1 \in 1..Len(w) /\ n + 1 \in (P + 1)..Len(w)
            BY <1>1, <2>1
        <3>2. SubSeq(w, P + 1, n + 1) = SubSeq(w, P + 1, (n + 1) - 1) \o <<w[n + 1]>>
            BY <3>1, SubSeqRecursiveSecond
        <3>3. Append(s, b) = s \o <<b>>
            BY <2>2, <2>4, AppendIsConcat
        <3> QED
            BY <2>1, <3>2, <3>3
    <2>6. dec[q] = Between(s)
        BY <1>5
    <2>7. ASSUME NEW j \in 1..Len(p)
          PROVE  q \in Nat /\ q + j \in 1..Len(r) /\ r[q + j] = p[j]
        BY <1>1, RestPiece, Zenon
    <2>8. /\ L(n) \in Nat
          /\ Len(p) \in Nat \ {0}
          /\ L(n + 1) = L(n) + Len(p)
        BY <2>1, EncodedParts, Zenon
    <2>9. L(P) + (n - P) <= L(n)
        BY <1>1, <2>1, EncodedGrows, Zenon
    <2>10. Len(p) = IF IsPlain(b, n) THEN 1 ELSE 3
        BY <2>1, <2>2, EscapedType, Zenon
    <2>11. Len(r) \in Nat
        BY <1>2
    <2>12. ASSUME NEW j \in 0..(Len(p) - 1)
           PROVE  q + j \in Nat /\ dec[q + j + 1] = DecodeByte(dec[q + j], p[j + 1], q + j)
        <3> HIDE DEF p, q, r, dec, L
        <3>1. j + 1 \in 1..Len(p)
            BY <2>8
        <3>2. q \in Nat /\ q + (j + 1) \in 1..Len(r) /\ r[q + (j + 1)] = p[j + 1]
            BY <2>7, <3>1, Zenon
        <3>3. q + j \in 0..(Len(r) - 1) /\ q + (j + 1) = (q + j) + 1
            BY <2>11, <3>2
        <3>4. dec[(q + j) + 1] = DecodeByte(dec[q + j], r[(q + j) + 1], q + j)
            BY <1>3, <3>3, Zenon
        <3> QED
            BY <3>2, <3>3, <3>4
    <2>13. CASE IsPlain(b, n)
        <3>1. Len(p) = 1 /\ 0 \in 0..(Len(p) - 1) /\ p = <<b>>
            BY <2>10, <2>13 DEF Escaped
        <3>2. q \in Nat /\ dec[q + 0 + 1] = DecodeByte(dec[q + 0], p[0 + 1], q + 0)
            <4>1. 1 \in 1..Len(p)
                BY <3>1
            <4> QED
                BY <2>7, <2>12, <3>1, <4>1, Zenon
        <3>3. q + 0 + 1 = q + 1 /\ q + 0 = q /\ p[0 + 1] = b
            <4> HIDE DEF q, p
            <4> QED
                BY <3>1, <3>2
        <3>4. IsPlain(b, q)
            <4>1. CASE b # Hyphen
                BY <2>13, <4>1 DEF IsPlain
            <4>2. CASE b = Hyphen
                <5>1. n # P
                    BY <4>2
                <5>2. q > 0
                    <6> HIDE DEF L
                    <6> QED
                        BY <1>1, <1>2, <2>1, <2>8, <2>9, <5>1
                <5> QED
                    BY <4>2, <5>2 DEF IsPlain
            <4> QED
                BY <4>1, <4>2
        <3>5. dec[q + 1] = Between(Append(s, b))
            <4>1. DecodeByte(Between(s), b, q) = Between(Append(s, b))
                BY <2>2, <2>4, <3>2, <3>4, DecodePlain, Zenon
            <4> QED
                BY <2>6, <3>2, <3>3, <4>1
        <3>6. L(n + 1) - L(P) = q + 1
            <4> HIDE DEF L, p
            <4> QED
                BY <1>2, <2>8, <3>1
        <3> QED
            BY <2>1, <2>5, <3>5, <3>6
    <2>14. CASE ~IsPlain(b, n)
        <3>1. Len(p) = 3 /\ p = Quoted(b) /\ b >= 16
            BY <2>3, <2>10, <2>14 DEF Escaped
        <3>2. 0 \in 0..(Len(p) - 1) /\ 1 \in 0..(Len(p) - 1) /\ 2 \in 0..(Len(p) - 1) /\ 1 \in 1..Len(p)
            BY <3>1
        <3>3. q \in Nat
            BY <2>7, <3>2, Zenon
        <3>4. /\ dec[q + 0 + 1] = DecodeByte(dec[q + 0], p[0 + 1], q + 0)
              /\ dec[q + 1 + 1] = DecodeByte(dec[q + 1], p[1 + 1], q + 1)
              /\ dec[q + 2 + 1] = DecodeByte(dec[q + 2], p[2 + 1], q + 2)
            BY <2>12, <3>2, Zenon
        <3>5. /\ q + 0 + 1 = q + 1 /\ q + 0 = q /\ q + 1 + 1 = q + 2 /\ q + 2 + 1 = q + 3
              /\ q + 1 \in Nat /\ q + 2 \in Nat
            <4> HIDE DEF q
            <4> QED
                BY <3>3
        <3>6. dec[q + 1] = DecodeByte(dec[q], p[1], q)
            <4>1. 0 + 1 = 1
                OBVIOUS
            <4> HIDE DEF q, dec, p
            <4> QED
                BY <3>4, <3>5, <4>1, Zenon
        <3>7. dec[q + 2] = DecodeByte(dec[q + 1], p[2], q + 1)
            <4>1. 1 + 1 = 2
                OBVIOUS
            <4> HIDE DEF q, dec, p
            <4> QED
                BY <3>4, <3>5, <4>1, Zenon
        <3>8. dec[q + 3] = DecodeByte(dec[q + 2], p[3], q + 2)
            <4>1. 2 + 1 = 3
                OBVIOUS
            <4> HIDE DEF q, dec, p
            <4> QED
                BY <3>4, <3>5, <4>1, Zenon
        <3>9. DecodeByte(DecodeByte(DecodeByte(Between(s), p[1], q), p[2], q + 1), p[3], q + 2)
                  = Between(Append(s, b))
            <4>1. q + 1 \in Nat /\ q + 2 \in Nat
                BY <3>5, Zenon
            <4> DEFINE z == Quoted(b)
            <4>2. DecodeByte(DecodeByte(DecodeByte(Between(s), z[1], q), z[2], q + 1), z[3], q + 2)
                      = Between(Append(s, b))
                BY <2>2, <2>4, <3>1, <3>3, <4>1, DecodeQuoted
            <4>3. p = z
                BY <3>1
            <4> HIDE DEF z, p, q
            <4> QED
                BY <4>2, <4>3, Zenon
        <3>10. dec[q + 3] = Between(Append(s, b))
            BY <2>6, <3>6, <3>7, <3>8, <3>9, Zenon
        <3>11. L(n + 1) - L(P) = q + 3
            <4> HIDE DEF L, p
            <4> QED
                BY <1>2, <2>8, <3>1
        <3> QED
            BY <2>1, <2>5, <3>10, <3>11
    <2> QED
        BY <2>13, <2>14
<1>6. \A h \in P..N : h \in T
    <2> HIDE DEF T, N
    <2> QED
        BY <1>1, <1>4, <1>5, InductionUpTo
<1>7. Good(N)
    BY <1>1, <1>6
<1>8. L(N) - L(P) = Len(r)
    BY <1>2, Zenon DEF EncodeTag
<1>9. dec[Len(r)] = Between(SubSeq(w, P + 1, N))
    BY <1>7, <1>8
<1> DEFINE d == dec[Len(r)]
           s == SubSeq(w, P + 1, N)
<1>10. DecodeTag(r) = [ok |-> d.ok /\ ~d.quote, value |-> d.out]
    BY Zenon DEF DecodeTag
<1> HIDE DEF d, s
<1>11. d = [ok |-> TRUE, out |-> s, quote |-> FALSE, high |-> 16]
    BY <1>9 DEF Between, d, s
<1>12. (d.ok /\ ~d.quote) = TRUE /\ d.out = s
    BY <1>11
<1> QED
    BY <1>10, <1>12 DEF s

-----------------------------------------------------------------------------
(* A concatenation can be taken apart. *)
LEMMA ConcatApart ==
    ASSUME NEW S, NEW s \in Seq(S), NEW t \in Seq(S)
    PROVE  /\ SubSeq(s \o t, 1, Len(s)) = s
           /\ SubSeq(s \o t, Len(s) + 1, Len(s \o t)) = t
<1> DEFINE c == s \o t
           m == Len(s)
           k == Len(t)
<1>1. /\ c \in Seq(S)
      /\ m \in Nat
      /\ k \in Nat
      /\ Len(c) = m + k
      /\ \A j \in 1..m : c[j] = s[j]
      /\ \A j \in 1..k : c[m + j] = t[j]
    BY ConcatParts
<1>2. \A i \in 1..Len(c) : c[i] \in S
    <2> HIDE DEF c, m, k
    <2> QED
        BY <1>1, ElementOfSeq
<1> DEFINE a == SubSeq(c, 1, m)
           b == SubSeq(c, m + 1, m + k)
<1> HIDE DEF c, m, k
<1>3. /\ a \in Seq(S)
      /\ Len(a) = IF 1 <= m THEN m - 1 + 1 ELSE 0
      /\ \A i \in 1..(m - 1 + 1) : a[i] = c[1 + i - 1]
    <2>1. 1 \in Int /\ m \in Int
        BY <1>1
    <2>2. \A i \in 1..m : c[i] \in S
        BY <1>1, <1>2
    <2> QED
        BY <2>1, <2>2, SubSeqProperties
<1>4. /\ b \in Seq(S)
      /\ Len(b) = IF m + 1 <= m + k THEN (m + k) - (m + 1) + 1 ELSE 0
      /\ \A i \in 1..((m + k) - (m + 1) + 1) : b[i] = c[(m + 1) + i - 1]
    <2>1. m + 1 \in Int /\ m + k \in Int
        BY <1>1
    <2>2. \A i \in (m + 1)..(m + k) : c[i] \in S
        <3>1. \A i \in (m + 1)..(m + k) : i \in 1..(m + k)
            BY <1>1
        <3> QED
            BY <1>1, <1>2, <3>1
    <2> QED
        BY <2>1, <2>2, SubSeqProperties
<1> HIDE DEF a, b
<1>5. a = s
    <2>1. Len(a) = Len(s)
        <3>1. Len(a) = m
            BY <1>1, <1>3
        <3> QED
            BY <3>1 DEF m
    <2>2. ASSUME NEW i \in 1..m PROVE a[i] = s[i]
        <3>1. i \in 1..(m - 1 + 1) /\ 1 + i - 1 = i
            BY <1>1
        <3> QED
            BY <1>1, <1>3, <3>1
    <2>3. \A i \in 1..Len(a) : a[i] = s[i]
        BY <2>1, <2>2 DEF m
    <2> QED
        BY <1>3, <2>1, <2>3, SeqEqual
<1>6. b = t
    <2>1. Len(b) = Len(t)
        <3>1. Len(b) = k
            BY <1>1, <1>4
        <3> QED
            BY <3>1 DEF k
    <2>2. ASSUME NEW i \in 1..k PROVE b[i] = t[i]
        <3>1. i \in 1..((m + k) - (m + 1) + 1) /\ (m + 1) + i - 1 = m + i
            BY <1>1
        <3>2. b[i] = c[m + i]
            BY <1>4, <3>1
        <3> QED
            BY <1>1, <3>2
    <2>3. \A i \in 1..Len(b) : b[i] = t[i]
        BY <2>1, <2>2 DEF k
    <2> QED
        BY <1>4, <2>1, <2>3, SeqEqual
<1>7. SubSeq(c, m + 1, Len(c)) = b
    BY <1>1, Zenon DEF b
<1> QED
    BY <1>5, <1>6, <1>7, Zenon DEF a, c, m

(* The key and the value, and the whole string that is encoded. *)
Pair(key, value) == key \o <<Equal>> \o value
Whole(key, value) == TagPrefix \o key \o <<Equal>> \o value

(* What is assumed of prefix and keys, by position. *)
LEMMA ConstantTypes ==
    /\ TagPrefix \in Seq(Octet) /\ Len(TagPrefix) \in Nat /\ Len(TagPrefix) >= 2
    /\ \A i \in 1..Len(TagPrefix) : TagPrefix[i] >= 16
    /\ \A k \in TagKey : /\ k \in Seq(Octet)
                         /\ \A i \in 1..Len(k) : k[i] >= 16 /\ k[i] # Equal /\ (i = 1 => k[i] # Hyphen)
    /\ <<Equal>> \in Seq(Octet) /\ Len(<<Equal>>) = 1
<1>1. TagPrefix \in Seq(16..255) /\ Len(TagPrefix) >= 2
    BY VolumeTagsAssumption
<1>2. ASSUME NEW s \in Seq(16..255)
      PROVE  /\ s \in Seq(Octet) /\ Len(s) \in Nat /\ DOMAIN s = 1..Len(s)
             /\ \A i \in 1..Len(s) : s[i] >= 16
    <2>1. 16..255 \subseteq Octet
        BY DEF Octet
    <2>2. s \in Seq(Octet)
        BY <2>1, SeqMonotonic
    <2>3. Len(s) \in Nat /\ DOMAIN s = 1..Len(s)
        BY LenProperties
    <2>4. ASSUME NEW i \in 1..Len(s) PROVE s[i] >= 16
        <3>1. s[i] \in 16..255
            BY ElementOfSeq
        <3>2. ASSUME NEW x \in 16..255 PROVE x >= 16
            OBVIOUS
        <3> QED
            BY <3>1, <3>2
    <2> QED
        BY <2>2, <2>3, <2>4
<1>3. ASSUME NEW k \in TagKey
      PROVE  /\ k \in Seq(Octet)
             /\ \A i \in 1..Len(k) : k[i] >= 16 /\ k[i] # Equal /\ (i = 1 => k[i] # Hyphen)
    <2>1. k \in Seq(16..255)
        BY VolumeTagsAssumption
    <2>2. /\ k \in Seq(Octet) /\ DOMAIN k = 1..Len(k)
          /\ \A i \in 1..Len(k) : k[i] >= 16
        BY <1>2, <2>1
    <2>3. \A i \in DOMAIN k : k[i] # Equal /\ (i = 1 => k[i] # Hyphen)
        BY VolumeTagsAssumption, Zenon
    <2> QED
        BY <2>2, <2>3, Zenon
<1>4. <<Equal>> \in Seq(Octet) /\ Len(<<Equal>>) = 1
    BY DEF Equal, Octet
<1> QED
    BY <1>1, <1>2, <1>3, <1>4, Zenon

(* The string is the prefix, and then the key, "=" and the value. *)
LEMMA WholeShape ==
    ASSUME NEW key \in TagKey, NEW value \in Seq(Octet)
    PROVE  /\ Pair(key, value) \in Seq(Octet)
           /\ Whole(key, value) \in Seq(Octet)
           /\ Whole(key, value) = TagPrefix \o Pair(key, value)
           /\ Pair(key, value) = key \o (<<Equal>> \o value)
<1>1. key \in Seq(Octet) /\ TagPrefix \in Seq(Octet) /\ <<Equal>> \in Seq(Octet)
    BY ConstantTypes, Zenon
<1> DEFINE q == <<Equal>>
<1>2. q \in Seq(Octet)
    BY <1>1
<1> HIDE DEF q
<1>3. /\ q \o value \in Seq(Octet) /\ key \o q \in Seq(Octet)
      /\ TagPrefix \o key \in Seq(Octet)
    BY <1>1, <1>2, ConcatProperties
<1>4. (key \o q) \o value \in Seq(Octet)
    BY <1>3, ConcatProperties
<1>5. (key \o q) \o value = key \o (q \o value)
    BY <1>1, <1>2, ConcatAssociative
<1>6. TagPrefix \o ((key \o q) \o value) \in Seq(Octet)
    BY <1>1, <1>4, ConcatProperties
<1>7. (TagPrefix \o key) \o q = TagPrefix \o (key \o q)
    BY <1>1, <1>2, ConcatAssociative
<1>8. (TagPrefix \o (key \o q)) \o value = TagPrefix \o ((key \o q) \o value)
    <2> DEFINE y == key \o q
    <2>1. y \in Seq(Octet)
        BY <1>3
    <2> HIDE DEF y
    <2>2. (TagPrefix \o y) \o value = TagPrefix \o (y \o value)
        BY <1>1, <2>1, ConcatAssociative
    <2> QED
        BY <2>2 DEF y
<1>9. ((TagPrefix \o key) \o q) \o value = TagPrefix \o ((key \o q) \o value)
    BY <1>7, <1>8
<1> QED
    BY <1>4, <1>5, <1>6, <1>9, Zenon DEF q, Pair, Whole

(* The first "=" is the one that ends the key. *)
LEMMA PairParts ==
    ASSUME NEW key \in TagKey, NEW value \in Seq(Octet)
    PROVE  /\ SelectInSeq(Pair(key, value), LAMBDA b : b = Equal) = Len(key) + 1
           /\ SubSeq(Pair(key, value), 1, Len(key)) = key
           /\ SubSeq(Pair(key, value), Len(key) + 2, Len(Pair(key, value))) = value
           /\ Len(Pair(key, value)) \in Nat \ {0}
           /\ Pair(key, value)[1] # Hyphen
<1> DEFINE q == <<Equal>>
           kv == Pair(key, value)
           K == Len(key)
           u == key \o q
           z == q \o value
<1>1. /\ key \in Seq(Octet) /\ q \in Seq(Octet) /\ Len(q) = 1
      /\ \A i \in 1..K : key[i] >= 16 /\ key[i] # Equal /\ (i = 1 => key[i] # Hyphen)
    BY ConstantTypes, Zenon
<1>2. q[1] = Equal
    OBVIOUS
<1>3. kv \in Seq(Octet) /\ kv = key \o z /\ kv = u \o value
    BY WholeShape, Zenon DEF Pair
<1> HIDE DEF q
<1>4. K \in Nat
    BY <1>1
<1>5. /\ u \in Seq(Octet) /\ Len(u) = K + Len(q) /\ \A j \in 1..Len(q) : u[K + j] = q[j]
      /\ \A j \in 1..K : u[j] = key[j]
    <2>1. ASSUME NEW s \in Seq(Octet), NEW t \in Seq(Octet)
          PROVE  /\ s \o t \in Seq(Octet) /\ Len(s \o t) = Len(s) + Len(t)
                 /\ \A j \in 1..Len(t) : (s \o t)[Len(s) + j] = t[j]
                 /\ \A j \in 1..Len(s) : (s \o t)[j] = s[j]
        BY ConcatParts
    <2>2. key \in Seq(Octet) /\ q \in Seq(Octet)
        BY <1>1
    <2> QED
        BY <2>1, <2>2, Zenon
<1>6. z \in Seq(Octet)
    BY <1>1, ConcatParts, Zenon
<1> HIDE DEF u, z, kv, K
<1>7. Len(u) = K + 1 /\ u[K + 1] = Equal
    <2>1. 1 \in 1..Len(q)
        BY <1>1
    <2>2. u[K + 1] = q[1]
        BY <1>5, <2>1, Zenon
    <2> QED
        BY <1>1, <1>2, <1>5, <2>2
<1>8. /\ Len(value) \in Nat
      /\ Len(u \o value) = Len(u) + Len(value)
      /\ \A j \in 1..Len(u) : (u \o value)[j] = u[j]
    BY <1>5, ConcatParts, Zenon
<1>9. Len(kv) = K + 1 + Len(value) /\ \A j \in 1..(K + 1) : kv[j] = u[j]
    BY <1>3, <1>7, <1>8, Zenon
<1>10. Len(kv) \in Nat \ {0} /\ K + 1 \in 1..Len(kv)
    BY <1>4, <1>8, <1>9
<1>11. kv[K + 1] = Equal
    <2>1. K + 1 \in 1..(K + 1)
        BY <1>4
    <2> QED
        BY <1>7, <1>9, <2>1, Zenon
<1>12. ASSUME NEW i \in 1..K PROVE kv[i] = key[i]
    <2>1. i \in 1..(K + 1)
        BY <1>4
    <2> QED
        BY <1>5, <1>9, <2>1, Zenon
<1>13. kv[1] # Hyphen
    <2>1. CASE K = 0
        <3>1. K + 1 = 1
            BY <2>1
        <3>2. kv[1] = Equal
            BY <1>11, <3>1
        <3> QED
            BY <3>2 DEF Equal, Hyphen
    <2>2. CASE K # 0
        <3>1. 1 \in 1..K
            BY <1>4, <2>2
        <3> QED
            BY <1>1, <1>12, <3>1, Zenon
    <2> QED
        BY <2>1, <2>2
<1>14. SelectInSeq(kv, LAMBDA b : b = Equal) = K + 1
    <2> DEFINE I == {i \in 1..Len(kv) : kv[i] = Equal}
    <2>1. K + 1 \in I
        BY <1>10, <1>11
    <2>2. ASSUME NEW i \in I PROVE K + 1 <= i
        <3>1. i \in Nat /\ i >= 1 /\ kv[i] = Equal
            BY <1>10
        <3>2. i \notin 1..K
            BY <1>1, <1>12, <3>1 DEF K
        <3> QED
            BY <1>4, <3>1, <3>2
    <2>3. \A x \in I : x \in Nat
        BY <1>10
    <2> HIDE DEF I
    <2>4. ASSUME NEW x \in I, \A y \in I : x <= y PROVE x = K + 1
        BY <1>4, <2>1, <2>2, <2>3, <2>4
    <2>5. (CHOOSE x \in I : \A y \in I : x <= y) = K + 1
        BY <2>1, <2>2, <2>4
    <2>6. Min(I) = K + 1
        BY <2>5 DEF Min
    <2>7. I # {}
        BY <2>1
    <2> QED
        BY <2>6, <2>7 DEF SelectInSeq, I
<1>15. SubSeq(kv, 1, K) = key
    BY <1>1, <1>3, <1>6, ConcatApart DEF K
<1>16. SubSeq(kv, Len(u) + 1, Len(kv)) = value
    BY <1>3, <1>5, ConcatApart
<1>17. Len(u) + 1 = K + 2
    BY <1>4, <1>7
<1> QED
    BY <1>10, <1>13, <1>14, <1>15, <1>16, <1>17 DEF kv, K

-----------------------------------------------------------------------------
(* Where the encoding of the prefix ends in that of a key and a value. *)
LEMMA PrefixEncoded ==
    ASSUME NEW key \in TagKey, NEW value \in Seq(Octet)
    PROVE  /\ Len(TagPrefix) \in 0..(Len(Whole(key, value)) - 1)
           /\ Encoded(Whole(key, value))[Len(TagPrefix)] = EncodeTag(TagPrefix)
           /\ Whole(key, value)[Len(TagPrefix) + 1] # Hyphen
           /\ SubSeq(Whole(key, value), Len(TagPrefix) + 1, Len(Whole(key, value))) = Pair(key, value)
<1> DEFINE w == Whole(key, value)
           kv == Pair(key, value)
           P == Len(TagPrefix)
<1>1. w \in Seq(Octet) /\ kv \in Seq(Octet) /\ w = TagPrefix \o kv
    BY WholeShape, Zenon
<1>2. TagPrefix \in Seq(Octet) /\ P \in Nat
    BY ConstantTypes, Zenon
<1>3. Len(kv) \in Nat \ {0} /\ kv[1] # Hyphen
    BY PairParts, Zenon
<1> HIDE DEF w, kv
<1>4. /\ Len(TagPrefix \o kv) = Len(TagPrefix) + Len(kv)
      /\ \A j \in 1..Len(TagPrefix) : (TagPrefix \o kv)[j] = TagPrefix[j]
      /\ \A j \in 1..Len(kv) : (TagPrefix \o kv)[Len(TagPrefix) + j] = kv[j]
    <2>1. ASSUME NEW s \in Seq(Octet), NEW t \in Seq(Octet)
          PROVE  /\ Len(s \o t) = Len(s) + Len(t)
                 /\ \A j \in 1..Len(s) : (s \o t)[j] = s[j]
                 /\ \A j \in 1..Len(t) : (s \o t)[Len(s) + j] = t[j]
        BY ConcatParts
    <2>2. kv \in Seq(Octet) /\ TagPrefix \in Seq(Octet)
        BY <1>1, <1>2, Zenon
    <2> QED
        BY <2>1, <2>2, Zenon
<1>5. SubSeq(TagPrefix \o kv, Len(TagPrefix) + 1, Len(TagPrefix \o kv)) = kv
    BY <1>1, <1>2, ConcatApart, Zenon
<1>6. Len(w) = P + Len(kv) /\ \A j \in 1..P : w[j] = TagPrefix[j]
    BY <1>1, <1>4, Zenon
<1>7. P \in 0..(Len(w) - 1) /\ P <= Len(w)
    <2> HIDE DEF P
    <2> QED
        BY <1>2, <1>3, <1>6
<1>8. Encoded(w)[P] = EncodeTag(TagPrefix)
    BY <1>1, <1>2, <1>6, <1>7, EncodedPrefix, Zenon
<1>9. w[P + 1] # Hyphen
    <2>1. 1 \in 1..Len(kv)
        BY <1>3
    <2>2. (TagPrefix \o kv)[P + 1] = kv[1]
        BY <1>4, <2>1, Zenon
    <2> QED
        BY <1>1, <1>3, <2>2, Zenon
<1>10. SubSeq(w, P + 1, Len(w)) = kv
    BY <1>1, <1>5, Zenon
<1> QED
    BY <1>7, <1>8, <1>9, <1>10, Zenon DEF w, kv

(* A tag of a key and a value gives them back. *)
LEMMA TagRoundTrip ==
    ASSUME NEW key \in TagKey, NEW value \in Seq(Octet), Writable(Whole(key, value))
    PROVE  DecodeTagKV(EncodeTagKV(key, value)) = [ok |-> TRUE, key |-> key, value |-> value]
<1> DEFINE w == Whole(key, value)
           kv == Pair(key, value)
           P == Len(TagPrefix)
           tag == EncodeTagKV(key, value)
           rest == DecodeTag(SubSeq(tag, Len(EncodeTag(TagPrefix)) + 1, Len(tag)))
           K == Len(key)
<1>1. tag = EncodeTag(w)
    BY Zenon DEF EncodeTagKV, Whole
<1>2. w \in Seq(Octet)
    BY WholeShape, Zenon
<1>3. /\ P \in 0..(Len(w) - 1)
      /\ Encoded(w)[P] = EncodeTag(TagPrefix)
      /\ w[P + 1] # Hyphen
      /\ SubSeq(w, P + 1, Len(w)) = kv
    BY PrefixEncoded, Zenon
<1>4. rest = DecodeTag(Rest(w, P))
    BY <1>1, <1>3, Zenon DEF Rest
<1>5. DecodeTag(Rest(w, P)) = [ok |-> TRUE, value |-> SubSeq(w, P + 1, Len(w))]
    <2> HIDE DEF w
    <2>1. Writable(w)
        BY Zenon DEF w
    <2> QED
        BY <1>2, <1>3, <2>1, RestDecodes, Zenon
<1>6. rest = [ok |-> TRUE, value |-> kv]
    BY <1>3, <1>4, <1>5, Zenon
<1>7. /\ SelectInSeq(kv, LAMBDA b : b = Equal) = K + 1
      /\ SubSeq(kv, 1, K) = key
      /\ SubSeq(kv, K + 2, Len(kv)) = value
    BY PairParts, Zenon
<1>8. K \in Nat
    <2>1. key \in Seq(Octet)
        BY ConstantTypes, Zenon
    <2> QED
        BY <2>1
<1> DEFINE i == SelectInSeq(rest.value, LAMBDA b : b = Equal)
<1>9. DecodeTagKV(tag) = [ok |-> rest.ok /\ i > 0, key |-> SubSeq(rest.value, 1, i - 1),
                          value |-> SubSeq(rest.value, i + 1, Len(rest.value))]
    BY DEF DecodeTagKV
<1>10. rest.ok = TRUE /\ rest.value = kv
    <2> HIDE DEF rest, kv
    <2> QED
        BY <1>6
<1>11. i = K + 1
    <2> HIDE DEF rest, kv, K
    <2> QED
        BY <1>7, <1>10
<1> HIDE DEF rest, kv, K, i
<1>12. i - 1 = K /\ i + 1 = K + 2 /\ (i > 0) = TRUE
    BY <1>8, <1>11
<1>13. (rest.ok /\ i > 0) = TRUE
    BY <1>10, <1>12
<1>14. SubSeq(rest.value, 1, i - 1) = key /\ SubSeq(rest.value, i + 1, Len(rest.value)) = value
    BY <1>7, <1>10, <1>12
<1> QED
    BY <1>9, <1>13, <1>14

(* The encoding of the prefix starts the tag. *)
LEMMA TagIsOurs ==
    ASSUME NEW key \in TagKey, NEW value \in Seq(Octet)
    PROVE  Ours(EncodeTagKV(key, value))
<1> DEFINE w == Whole(key, value)
           P == Len(TagPrefix)
           s == EncodeTag(TagPrefix)
           t == EncodeTag(w)
<1>1. EncodeTagKV(key, value) = t
    BY Zenon DEF EncodeTagKV, Whole
<1>2. w \in Seq(Octet) /\ TagPrefix \in Seq(Octet)
    BY WholeShape, ConstantTypes, Zenon
<1>3. P \in 0..(Len(w) - 1) /\ Encoded(w)[P] = s
    BY PrefixEncoded, Zenon
<1>4. /\ P \in 0..Len(w) /\ Len(w) \in P..Len(w) /\ Len(w) \in Nat
      /\ t = Encoded(w)[Len(w)]
    <2> HIDE DEF w, P
    <2>1. Len(w) \in Nat
        BY <1>2
    <2> QED
        BY <1>3, <2>1 DEF EncodeTag
<1>5. s \in Seq(Octet) /\ t \in Seq(Octet) /\ Len(s) \in Nat /\ Len(t) \in Nat
    BY <1>2, EncodeTagType, Zenon
<1>6. /\ Len(Encoded(w)[P]) + (Len(w) - P) <= Len(t)
      /\ \A j \in 1..Len(Encoded(w)[P]) : t[j] = Encoded(w)[P][j]
    <2>1. /\ Len(Encoded(w)[P]) + (Len(w) - P) <= Len(Encoded(w)[Len(w)])
          /\ \A j \in 1..Len(Encoded(w)[P]) : Encoded(w)[Len(w)][j] = Encoded(w)[P][j]
        BY <1>2, <1>4, EncodedGrows, Zenon
    <2> QED
        BY <1>4, <2>1, Zenon
<1>7. Len(s) + (Len(w) - P) <= Len(t) /\ \A j \in 1..Len(s) : t[j] = s[j]
    BY <1>3, <1>6, Zenon
<1> HIDE DEF w, s, t, P
<1>8. Len(s) <= Len(t)
    BY <1>4, <1>5, <1>7
<1>9. SubSeq(s, 1, Len(s)) = SubSeq(t, 1, Len(s))
    <2> DEFINE m == Len(s)
               a == SubSeq(s, 1, m)
               b == SubSeq(t, 1, m)
    <2>1. 1 \in Int /\ m \in Int /\ m \in Nat
        BY <1>5
    <2>2. \A i \in 1..m : s[i] \in Octet
        BY <1>5, ElementOfSeq
    <2>3. \A i \in 1..m : t[i] \in Octet
        BY <1>7, <2>2, Zenon
    <2> HIDE DEF m
    <2>4. /\ a \in Seq(Octet)
          /\ Len(a) = IF 1 <= m THEN m - 1 + 1 ELSE 0
          /\ \A i \in 1..(m - 1 + 1) : a[i] = s[1 + i - 1]
        BY <2>1, <2>2, SubSeqProperties
    <2>5. /\ b \in Seq(Octet)
          /\ Len(b) = IF 1 <= m THEN m - 1 + 1 ELSE 0
          /\ \A i \in 1..(m - 1 + 1) : b[i] = t[1 + i - 1]
        BY <2>1, <2>3, SubSeqProperties
    <2> HIDE DEF a, b
    <2>6. Len(a) = m /\ Len(b) = m
        BY <2>1, <2>4, <2>5
    <2>7. ASSUME NEW i \in 1..m PROVE a[i] = b[i]
        <3>1. i \in 1..(m - 1 + 1) /\ 1 + i - 1 = i
            BY <2>1
        <3>2. a[i] = s[i] /\ b[i] = t[i]
            BY <2>4, <2>5, <3>1
        <3> QED
            BY <1>7, <3>2 DEF m
    <2>8. a = b
        <3>1. \A i \in 1..Len(a) : a[i] = b[i]
            BY <2>6, <2>7, Zenon
        <3>2. Len(a) = Len(b)
            BY <2>6, Zenon
        <3> QED
            BY <2>4, <2>5, <3>1, <3>2, SeqEqual
    <2> QED
        BY <2>8 DEF a, b, m
<1> QED
    BY <1>1, <1>8, <1>9, Zenon DEF Ours, IsPrefix, s

(* Somebody else's tag is too short to be the driver's. *)
LEMMA ForeignIsNotOurs == ~Ours(Foreign)
<1> DEFINE P == Len(TagPrefix)
           s == EncodeTag(TagPrefix)
<1>1. TagPrefix \in Seq(Octet) /\ P \in Nat /\ P >= 2
    BY ConstantTypes, Zenon
<1>2. 0 \in 0..P /\ P \in 0..P
    BY <1>1
<1>3. Len(Encoded(TagPrefix)[0]) + (P - 0) <= Len(Encoded(TagPrefix)[P]) /\ Len(Encoded(TagPrefix)[0]) \in Nat
    BY <1>1, <1>2, EncodedGrows, Zenon
<1>4. s = Encoded(TagPrefix)[P] /\ Len(s) \in Nat
    BY <1>1, EncodeTagType, Zenon DEF EncodeTag
<1>5. Len(Encoded(TagPrefix)[0]) + (P - 0) <= Len(s)
    BY <1>3, <1>4, Zenon
<1> DEFINE x == Len(Encoded(TagPrefix)[0])
<1>6. x \in Nat /\ x + (P - 0) <= Len(s)
    BY <1>3, <1>5, Zenon
<1> HIDE DEF s, P, x
<1>7. ~(Len(s) <= 1)
    BY <1>1, <1>4, <1>6
<1>8. Len(Foreign) = 1
    BY DEF Foreign
<1> QED
    BY <1>7, <1>8, Zenon DEF Ours, IsPrefix, s

-----------------------------------------------------------------------------
(* The elements of a list of tags. *)
Words == Seq(Octet)

(* Replacing the last element of a list. *)
LEMMA ReplaceLast ==
    ASSUME NEW S, NEW base \in Seq(S), NEW x \in S, NEW y \in S
    PROVE  /\ Len(Append(base, x)) \in 1..Len(Append(base, x))
           /\ Append(base, x)[Len(Append(base, x))] = x
           /\ [Append(base, x) EXCEPT ![Len(Append(base, x))] = y] = Append(base, y)
<1> DEFINE a == Append(base, x)
           b == Append(base, y)
           m == Len(base)
           c == [a EXCEPT ![Len(a)] = y]
<1>1. /\ a \in Seq(S) /\ Len(a) = m + 1 /\ \A i \in 1..m : a[i] = base[i]
      /\ a[m + 1] = x
    BY AppendProperties
<1>2. /\ b \in Seq(S) /\ Len(b) = m + 1 /\ \A i \in 1..m : b[i] = base[i]
      /\ b[m + 1] = y
    BY AppendProperties
<1>3. m \in Nat
    OBVIOUS
<1> HIDE DEF a, b, m
<1>4. Len(a) \in 1..Len(a) /\ a[Len(a)] = x
    BY <1>1, <1>3
<1>5. /\ c \in Seq(S) /\ Len(c) = Len(a)
      /\ \A j \in 1..Len(a) : c[j] = IF j = Len(a) THEN y ELSE a[j]
    BY <1>1, <1>4, ExceptSeq
<1> HIDE DEF c
<1>6. ASSUME NEW j \in 1..(m + 1) PROVE c[j] = b[j]
    <2>1. CASE j = m + 1
        BY <1>1, <1>2, <1>5, <2>1
    <2>2. CASE j # m + 1
        <3>1. j \in 1..m
            BY <1>3, <2>2
        <3> QED
            BY <1>1, <1>2, <1>5, <2>2, <3>1
    <2> QED
        BY <2>1, <2>2
<1>7. Len(c) = Len(b) /\ \A j \in 1..Len(c) : c[j] = b[j]
    BY <1>1, <1>2, <1>5, <1>6
<1>8. c = b
    BY <1>2, <1>5, <1>7, SeqEqual
<1> QED
    BY <1>4, <1>8 DEF a, b, c

(* There is always a last word to add to. *)
LEMMA SplitByteType ==
    ASSUME NEW list \in Seq(Words), list # <<>>, NEW b \in Octet
    PROVE  SplitByte(list, b) \in Seq(Words) /\ SplitByte(list, b) # <<>>
<1>1. <<>> \in Words
    BY DEF Words
<1>2. CASE b = Comma
    <2>1. Append(list, <<>>) \in Seq(Words) /\ Append(list, <<>>) # <<>>
        BY <1>1, AppendProperties
    <2> QED
        BY <1>2, <2>1 DEF SplitByte
<1>3. CASE b # Comma
    <2> DEFINE m == Len(list)
               y == Append(list[m], b)
               c == [list EXCEPT ![m] = y]
    <2>1. m \in Nat /\ m \in 1..m
        <3>1. m \in Nat \ {0}
            BY EmptySeq
        <3> HIDE DEF m
        <3> QED
            BY <3>1
    <2>2. list[m] \in Words
        BY <2>1, ElementOfSeq
    <2>3. y \in Words
        BY <2>2, AppendProperties DEF Words
    <2> HIDE DEF y
    <2>4. c \in Seq(Words) /\ Len(c) = m
        BY <2>1, <2>3, ExceptSeq
    <2>5. c # <<>>
        <3> HIDE DEF c, m
        <3>1. Len(<<>>) = 0 /\ m # 0
            BY <2>1
        <3> QED
            BY <2>4, <3>1
    <2>6. SplitByte(list, b) = c
        BY <1>3, Zenon DEF SplitByte, y
    <2> QED
        BY <2>4, <2>5, <2>6, Zenon
<1> QED
    BY <1>2, <1>3

(* The values of the loop that splits a field (lvmctrldserver.go:326-331). *)
LEMMA SplitsSteps ==
    ASSUME NEW w \in Seq(Octet)
    PROVE  /\ Splits(w)[0] = << <<>> >>
           /\ \A n \in 0..(Len(w) - 1) : Splits(w)[n + 1] = SplitByte(Splits(w)[n], w[n + 1])
<1> DEFINE N == Len(w)
           X == {list \in Seq(Words) : list # <<>>}
           z == << <<>> >>
           Eq(g) == g = [n \in 0..Len(w) |-> IF n = 0 THEN << <<>> >> ELSE SplitByte(g[n - 1], w[n])]
           G == [n \in 1..N |-> [s \in X |-> SplitByte(s, w[n])]]
<1>1. N \in Nat /\ \A n \in 1..N : w[n] \in Octet
    BY LenProperties
<1>2. ASSUME NEW n \in 1..N, NEW s \in X PROVE SplitByte(s, w[n]) \in X
    <2>1. s \in Seq(Words) /\ s # <<>> /\ w[n] \in Octet
        BY <1>1
    <2>2. SplitByte(s, w[n]) \in Seq(Words) /\ SplitByte(s, w[n]) # <<>>
        BY <2>1, SplitByteType
    <2> QED
        BY <2>2
<1>3. G \in Steps(X, N)
    <2> HIDE DEF X
    <2> QED
        BY <1>2 DEF Steps
<1>4. z \in X
    <2>1. <<>> \in Words
        BY DEF Words
    <2> DEFINE e == <<>>
    <2>2. e \in Words /\ z = <<e>>
        BY <2>1
    <2> HIDE DEF e
    <2>3. <<e>> \in Seq(Words) /\ <<e>> # <<>>
        BY <2>2
    <2> QED
        BY <2>2, <2>3
<1>5. PICK f : IsLoop(f, X, N, z, G)
    <2> HIDE DEF G, N, X, z
    <2> QED
        BY <1>1, <1>3, <1>4, LoopValues
<1> HIDE DEF X
<1>6. ASSUME NEW n \in 1..N PROVE f[n] = SplitByte(f[n - 1], w[n])
    <2>1. n - 1 \in 0..N /\ f[n - 1] \in X
        BY <1>1, <1>5 DEF IsLoop
    <2> QED
        BY <1>5, <2>1 DEF IsLoop
<1>7. Eq(f)
    <2>1. f = [n \in 0..N |-> f[n]] /\ f[0] = z
        BY <1>5 DEF IsLoop
    <2>2. \A n \in 0..N : n = 0 \/ n \in 1..N
        BY <1>1
    <2> QED
        BY <1>6, <2>1, <2>2
<1>8. Splits(w) = CHOOSE h : Eq(h)
    BY DEF Splits
<1>9. Eq(Splits(w))
    BY <1>7, <1>8
<1> DEFINE e == Splits(w)
<1> HIDE DEF e
<1>10. e[0] = z /\ \A n \in 1..N : e[n] = SplitByte(e[n - 1], w[n])
    BY <1>1, <1>9 DEF e
<1>11. ASSUME NEW n \in 0..(N - 1) PROVE e[n + 1] = SplitByte(e[n], w[n + 1])
    <2>1. n + 1 \in 1..N /\ (n + 1) - 1 = n
        BY <1>1
    <2> QED
        BY <1>10, <2>1
<1> QED
    BY <1>10, <1>11 DEF e

(* A word without commas is added to the list as it is. *)
LEMMA SplitWord ==
    ASSUME NEW f \in Seq(Octet), NEW q \in Nat, NEW word \in Words, q + Len(word) <= Len(f),
           \A j \in 1..Len(word) : f[q + j] = word[j] /\ word[j] # Comma,
           NEW base \in Seq(Words), Splits(f)[q] = Append(base, <<>>)
    PROVE  Splits(f)[q + Len(word)] = Append(base, word)
<1> DEFINE N == Len(word)
           Good(j) == Splits(f)[q + j] = Append(base, SubSeq(word, 1, j))
           T == {j \in 0..N : Good(j)}
<1>0. word \in Seq(Octet)
    BY DEF Words
<1>1. N \in Nat /\ Len(f) \in Nat /\ N \in 0..N /\ 0 \in 0..N
    BY <1>0
<1>2. 0 \in T
    <2>1. SubSeq(word, 1, 0) = <<>>
        BY SubSeqEmpty
    <2>2. q + 0 = q
        OBVIOUS
    <2>3. Good(0)
        BY <2>1, <2>2
    <2> QED
        BY <1>1, <2>3
<1>3. ASSUME NEW j \in 0..(N - 1), j \in T PROVE j + 1 \in T
    <2> DEFINE x == SubSeq(word, 1, j)
               c == word[j + 1]
               a == Append(base, x)
               y == Append(x, c)
    <2>1. j \in Nat /\ j + 1 \in 1..N /\ j + 1 \in 0..N /\ (j + 1) - 1 = j
        BY <1>1
    <2>2. c \in Octet /\ c # Comma /\ f[q + (j + 1)] = c
        BY <1>0, <2>1, ElementOfSeq
    <2>3. x \in Words
        <3>1. \A i \in 1..j : i \in 1..Len(word)
            BY <1>1, <2>1
        <3>2. \A i \in 1..j : word[i] \in Octet
            BY <1>0, <3>1, ElementOfSeq
        <3>3. 1 \in Int /\ j \in Int
            BY <2>1
        <3> QED
            BY <3>2, <3>3, SubSeqProperties DEF Words
    <2>4. SubSeq(word, 1, j + 1) = y
        <3>1. 1 \in 1..Len(word) /\ j + 1 \in 1..Len(word)
            BY <1>1, <2>1
        <3>2. SubSeq(word, 1, j + 1) = SubSeq(word, 1, (j + 1) - 1) \o <<word[j + 1]>>
            BY <1>0, <3>1, SubSeqRecursiveSecond
        <3>3. y = x \o <<c>>
            BY <2>2, <2>3, AppendIsConcat DEF Words
        <3> QED
            BY <2>1, <3>2, <3>3
    <2>5. q + j \in 0..(Len(f) - 1) /\ q + (j + 1) = (q + j) + 1
        BY <1>1, <2>1
    <2>6. Splits(f)[(q + j) + 1] = SplitByte(Splits(f)[q + j], f[(q + j) + 1])
        BY <2>5, SplitsSteps, Zenon
    <2>7. Splits(f)[q + j] = a
        BY <1>3
    <2>8. Splits(f)[q + (j + 1)] = SplitByte(a, c)
        <3> DEFINE i == q + (j + 1)
        <3>1. i = (q + j) + 1 /\ f[i] = c
            BY <2>2, <2>5, Zenon
        <3> HIDE DEF i, a, c
        <3>2. Splits(f)[i] = SplitByte(Splits(f)[q + j], f[i])
            BY <2>6, <3>1, Zenon
        <3>3. Splits(f)[i] = SplitByte(a, c)
            BY <2>7, <3>1, <3>2, Zenon
        <3> QED
            BY <3>3, Zenon DEF i
    <2>9. y \in Words
        BY <2>2, <2>3, AppendProperties DEF Words
    <2>10. a[Len(a)] = x /\ [a EXCEPT ![Len(a)] = y] = Append(base, y)
        <3> HIDE DEF x, y
        <3> QED
            BY <2>3, <2>9, ReplaceLast
    <2>11. SplitByte(a, c) = [a EXCEPT ![Len(a)] = Append(a[Len(a)], c)]
        BY <2>2, Zenon DEF SplitByte
    <2>12. SplitByte(a, c) = Append(base, y)
        <3> HIDE DEF a, x, c
        <3> QED
            BY <2>10, <2>11, Zenon
    <2>13. Good(j + 1)
        BY <2>4, <2>8, <2>12, Zenon
    <2> QED
        BY <2>1, <2>13
<1>4. \A j \in 0..N : j \in T
    <2> HIDE DEF T, N
    <2> QED
        BY <1>1, <1>2, <1>3, InductionUpTo
<1>5. Good(N)
    BY <1>1, <1>4
<1>6. SubSeq(word, 1, N) = word
    BY <1>0, SubSeqFull
<1> QED
    BY <1>5, <1>6

(* The field that lvm reports, tag by tag. *)
LEMMA ReportedSteps ==
    ASSUME NEW list \in Seq(Words), Len(list) >= 1
    PROVE  /\ Reported(list)[1] = list[1]
           /\ \A n \in 1..Len(list) : Reported(list)[n] \in Words
           /\ \A n \in 1..(Len(list) - 1) :
                  Reported(list)[n + 1] = Reported(list)[n] \o <<Comma>> \o list[n + 1]
<1> DEFINE N == Len(list)
           q == <<Comma>>
           Step(s, n) == IF n = 1 THEN list[1] ELSE s \o <<Comma>> \o list[n]
           Eq(g) == g = [n \in 0..Len(list) |-> IF n = 0 THEN <<>>
                                                ELSE IF n = 1 THEN list[1]
                                                ELSE g[n - 1] \o <<Comma>> \o list[n]]
           G == [n \in 1..N |-> [s \in Words |-> Step(s, n)]]
<1>1. N \in Nat /\ N >= 1 /\ 1 \in 1..N /\ \A n \in 1..N : list[n] \in Words
    BY LenProperties
<1>2. q \in Seq(Octet)
    BY DEF Comma, Octet
<1>3. ASSUME NEW n \in 1..N, NEW s \in Words PROVE Step(s, n) \in Words
    <2>1. list[n] \in Seq(Octet) /\ s \in Seq(Octet) /\ list[1] \in Words
        BY <1>1 DEF Words
    <2> HIDE DEF q
    <2>2. s \o q \in Seq(Octet)
        BY <1>2, <2>1, ConcatProperties
    <2> DEFINE u == s \o q
    <2> HIDE DEF u
    <2>3. u \o list[n] \in Seq(Octet)
        BY <2>1, <2>2, ConcatProperties DEF u
    <2>4. s \o <<Comma>> \o list[n] \in Words
        BY <2>3 DEF Words, u, q
    <2> QED
        BY <2>1, <2>4
<1> HIDE DEF q
<1>4. G \in Steps(Words, N)
    <2> HIDE DEF Step
    <2> QED
        BY <1>3 DEF Steps
<1>5. <<>> \in Words
    BY DEF Words
<1>6. PICK f : IsLoop(f, Words, N, <<>>, G)
    <2> HIDE DEF G, N
    <2> QED
        BY <1>1, <1>4, <1>5, LoopValues
<1>7. ASSUME NEW n \in 1..N PROVE f[n] = Step(f[n - 1], n)
    <2> HIDE DEF Step
    <2>1. n - 1 \in 0..N /\ f[n - 1] \in Words
        BY <1>1, <1>6 DEF IsLoop
    <2> QED
        BY <1>6, <2>1 DEF IsLoop
<1>8. Eq(f)
    <2>1. f = [n \in 0..N |-> f[n]] /\ f[0] = <<>>
        BY <1>6 DEF IsLoop
    <2>2. \A n \in 0..N : n = 0 \/ n \in 1..N
        BY <1>1
    <2> QED
        BY <1>7, <2>1, <2>2
<1>9. Reported(list) = CHOOSE h : Eq(h)
    BY DEF Reported
<1>10. Eq(Reported(list))
    BY <1>8, <1>9
<1> DEFINE e == Reported(list)
<1> HIDE DEF e
<1>11. ASSUME NEW n \in 1..N PROVE e[n] = Step(e[n - 1], n)
    <2>1. n \in 0..Len(list) /\ n # 0
        BY <1>1
    <2>2. e = [k \in 0..Len(list) |-> IF k = 0 THEN <<>>
                                      ELSE IF k = 1 THEN list[1]
                                      ELSE e[k - 1] \o <<Comma>> \o list[k]]
        BY <1>10 DEF e
    <2> QED
        BY <2>1, <2>2
<1>12. e[1] = list[1]
    BY <1>1, <1>11
<1>13. ASSUME NEW n \in 1..(N - 1) PROVE n + 1 \in 1..N /\ e[n + 1] = Step(e[n], n + 1) /\ n + 1 # 1
    <2> HIDE DEF Step
    <2>1. n + 1 \in 1..N /\ (n + 1) - 1 = n /\ n + 1 # 1
        BY <1>1
    <2> QED
        BY <1>11, <2>1
<1>14. ASSUME NEW n \in 1..(N - 1) PROVE e[n + 1] = e[n] \o <<Comma>> \o list[n + 1]
    BY <1>13
<1>15. \A n \in 1..N : n \in {h \in 1..N : e[h] \in Words}
    <2> DEFINE T == {h \in 1..N : e[h] \in Words}
    <2>1. 1 \in T
        BY <1>1, <1>12
    <2>2. ASSUME NEW n \in 1..(N - 1), n \in T PROVE n + 1 \in T
        <3> HIDE DEF Step
        <3>1. e[n] \in Words
            BY <2>2
        <3>2. Step(e[n], n + 1) \in Words
            BY <1>3, <1>13, <3>1
        <3> QED
            BY <1>13, <3>2
    <2> HIDE DEF T, N
    <2>3. 1 \in Nat
        OBVIOUS
    <2>4. \A n \in 1..N : n \in T
        BY <1>1, <2>1, <2>2, <2>3, InductionUpTo
    <2> QED
        BY <2>4 DEF T
<1> QED
    BY <1>12, <1>14, <1>15 DEF e

(* Where a comma and the next tag are in the field. *)
LEMMA ReportedParts ==
    ASSUME NEW list \in Seq(Words), NEW n \in 1..(Len(list) - 1)
    PROVE  /\ n + 1 \in 1..Len(list)
           /\ Len(Reported(list)[n]) \in Nat
           /\ Len(list[n + 1]) \in Nat
           /\ Len(Reported(list)[n + 1]) = Len(Reported(list)[n]) + 1 + Len(list[n + 1])
           /\ \A j \in 1..Len(Reported(list)[n]) : Reported(list)[n + 1][j] = Reported(list)[n][j]
           /\ Reported(list)[n + 1][Len(Reported(list)[n]) + 1] = Comma
           /\ \A j \in 1..Len(list[n + 1]) :
                  Reported(list)[n + 1][Len(Reported(list)[n]) + 1 + j] = list[n + 1][j]
<1> DEFINE s == Reported(list)[n]
           t == list[n + 1]
           u == Reported(list)[n + 1]
           q == <<Comma>>
           v == s \o q
<1>1. Len(list) \in Nat /\ Len(list) >= 1 /\ n + 1 \in 1..Len(list) /\ n \in 1..Len(list)
    OBVIOUS
<1>2. s \in Seq(Octet) /\ u = v \o t
    BY <1>1, ReportedSteps, Zenon DEF Words
<1>3. t \in Seq(Octet)
    BY <1>1, ElementOfSeq DEF Words
<1>4. q \in Seq(Octet) /\ Len(q) = 1 /\ q[1] = Comma
    BY DEF Comma, Octet
<1> HIDE DEF s, t, u, q
<1>5. ASSUME NEW x \in Seq(Octet), NEW y \in Seq(Octet)
      PROVE  /\ x \o y \in Seq(Octet) /\ Len(x) \in Nat /\ Len(y) \in Nat
             /\ Len(x \o y) = Len(x) + Len(y)
             /\ \A j \in 1..Len(x) : (x \o y)[j] = x[j]
             /\ \A j \in 1..Len(y) : (x \o y)[Len(x) + j] = y[j]
    BY ConcatParts
<1>51. /\ v \in Seq(Octet) /\ Len(s) \in Nat /\ Len(v) = Len(s) + Len(q)
       /\ \A j \in 1..Len(s) : v[j] = s[j]
       /\ \A j \in 1..Len(q) : v[Len(s) + j] = q[j]
    BY <1>2, <1>4, <1>5, Zenon
<1> HIDE DEF v
<1>6. /\ Len(t) \in Nat /\ Len(v \o t) = Len(v) + Len(t)
      /\ \A j \in 1..Len(v) : (v \o t)[j] = v[j]
      /\ \A j \in 1..Len(t) : (v \o t)[Len(v) + j] = t[j]
    BY <1>3, <1>5, <1>51, Zenon
<1> DEFINE m == Len(s)
<1>7. m \in Nat /\ Len(v) = m + 1
    BY <1>4, <1>51
<1>8. /\ Len(u) = m + 1 + Len(t)
      /\ \A j \in 1..(m + 1) : u[j] = v[j]
      /\ \A j \in 1..Len(t) : u[m + 1 + j] = t[j]
    BY <1>2, <1>6, <1>7, Zenon
<1> HIDE DEF m
<1>9. u[m + 1] = Comma
    <2>1. m + 1 \in 1..(m + 1) /\ 1 \in 1..Len(q)
        BY <1>4, <1>7
    <2>2. v[m + 1] = q[1]
        BY <1>51, <2>1 DEF m
    <2> QED
        BY <1>4, <1>8, <2>1, <2>2, Zenon
<1>10. ASSUME NEW j \in 1..m PROVE u[j] = s[j]
    <2>1. j \in 1..(m + 1)
        BY <1>7
    <2>2. v[j] = s[j]
        BY <1>51 DEF m
    <2> QED
        BY <1>8, <2>1, <2>2, Zenon
<1> QED
    BY <1>1, <1>6, <1>7, <1>8, <1>9, <1>10, Zenon DEF m, s, t, u

(* What was reported stays. *)
LEMMA ReportedGrows ==
    ASSUME NEW list \in Seq(Words), NEW n \in 1..Len(list), NEW m \in n..Len(list)
    PROVE  /\ Len(Reported(list)[n]) \in Nat
           /\ Len(Reported(list)[m]) \in Nat
           /\ Len(Reported(list)[n]) <= Len(Reported(list)[m])
           /\ \A j \in 1..Len(Reported(list)[n]) : Reported(list)[m][j] = Reported(list)[n][j]
<1> DEFINE e == Reported(list)
           L(h) == Len(e[h])
           N == Len(list)
           Good(h) == /\ L(h) \in Nat /\ L(n) <= L(h)
                      /\ \A j \in 1..L(n) : e[h][j] = e[n][j]
           T == {h \in n..N : Good(h)}
<1>1. N \in Nat /\ n \in Nat /\ n >= 1 /\ n \in n..N /\ m \in n..N /\ N >= 1
    OBVIOUS
<1>2. L(n) \in Nat
    <2>1. e[n] \in Seq(Octet)
        BY <1>1, ReportedSteps, Zenon DEF Words
    <2> QED
        BY <2>1
<1>3. n \in T
    <2> HIDE DEF L, N
    <2> QED
        BY <1>1, <1>2
<1>4. ASSUME NEW h \in n..(N - 1), h \in T PROVE h + 1 \in T
    <2>0. h \in 1..(N - 1) /\ h + 1 \in n..N /\ h \in Nat
        BY <1>1
    <2> DEFINE k == Len(list[h + 1])
    <2>1. /\ L(h) \in Nat
          /\ k \in Nat
          /\ L(h + 1) = L(h) + 1 + k
          /\ \A j \in 1..L(h) : e[h + 1][j] = e[h][j]
        BY <2>0, ReportedParts, Zenon
    <2> HIDE DEF L, k, N
    <2>2. L(n) <= L(h) /\ \A j \in 1..L(n) : e[h][j] = e[n][j]
        BY <1>4
    <2>3. L(n) <= L(h + 1) /\ L(h + 1) \in Nat
        BY <1>2, <2>1, <2>2
    <2>5. ASSUME NEW j \in 1..L(n) PROVE e[h + 1][j] = e[n][j]
        <3>1. j \in 1..L(h)
            BY <1>2, <2>1, <2>2
        <3> QED
            BY <2>1, <2>2, <3>1, Zenon
    <2> QED
        BY <2>0, <2>3, <2>5
<1>5. \A h \in n..N : h \in T
    <2> HIDE DEF T, N
    <2> QED
        BY <1>1, <1>3, <1>4, InductionUpTo
<1>6. Good(m)
    BY <1>1, <1>5
<1> QED
    BY <1>2, <1>6

(* Splitting what was joined gives the tags back, if they have no commas   *)
(* and none is empty.                                                      *)
LEMMA SplitReport ==
    ASSUME NEW list \in Seq(Words), Len(list) >= 1,
           \A i \in 1..Len(list) : list[i] # <<>> /\ \A j \in 1..Len(list[i]) : list[i][j] # Comma
    PROVE  SplitLvmField(Report(list)) = list
<1> DEFINE M == Len(list)
           R == Reported(list)
           L(h) == Len(R[h])
           F == Report(list)
           Good(h) == Splits(F)[L(h)] = SubSeq(list, 1, h)
           T == {h \in 1..M : Good(h)}
<1>1. M \in Nat /\ M >= 1 /\ 1 \in 1..M /\ M \in 1..M
    OBVIOUS
<1>2. F = R[M] /\ F \in Seq(Octet)
    BY <1>1, ReportedSteps, Zenon DEF Report, Words
<1>3. Len(F) \in Nat
    BY <1>2
<1>4. R[1] = list[1]
    BY ReportedSteps, Zenon
<1>5. ASSUME NEW h \in 1..M
      PROVE  /\ L(h) \in Nat /\ L(h) <= Len(F)
             /\ \A j \in 1..L(h) : F[j] = R[h][j]
    <2>1. M \in h..M
        BY <1>1
    <2>2. /\ L(h) \in Nat /\ L(h) <= L(M)
          /\ \A j \in 1..L(h) : R[M][j] = R[h][j]
        BY <2>1, ReportedGrows, Zenon
    <2> QED
        BY <1>2, <2>2, Zenon
<1>6. ASSUME NEW h \in 1..M
      PROVE  /\ list[h] \in Words /\ Len(list[h]) \in Nat \ {0}
             /\ \A j \in 1..Len(list[h]) : list[h][j] # Comma
    <2>1. list[h] \in Words
        BY ElementOfSeq
    <2>2. list[h] \in Seq(Octet) /\ list[h] # <<>>
        BY <2>1 DEF Words
    <2>3. Len(list[h]) \in Nat \ {0}
        BY <2>2, EmptySeq
    <2> QED
        BY <2>1, <2>3
<1>7. /\ Splits(F)[0] = << <<>> >>
      /\ \A n \in 0..(Len(F) - 1) : Splits(F)[n + 1] = SplitByte(Splits(F)[n], F[n + 1])
    BY <1>2, SplitsSteps, Zenon
<1> HIDE DEF F
<1>8. 1 \in T
    <2> DEFINE word == list[1]
               base == <<>>
    <2>1. base \in Seq(Words) /\ 0 \in Nat
        OBVIOUS
    <2>2. L(1) = Len(word) /\ word \in Words /\ Len(word) \in Nat
        BY <1>1, <1>4, <1>6, Zenon
    <2>3. 0 + Len(word) <= Len(F)
        <3>1. L(1) <= Len(F)
            BY <1>1, <1>5, Zenon
        <3>2. Len(word) <= Len(F)
            BY <2>2, <3>1, Zenon
        <3> HIDE DEF word
        <3> QED
            BY <2>2, <3>2
    <2>4. ASSUME NEW j \in 1..Len(word) PROVE F[0 + j] = word[j] /\ word[j] # Comma
        <3>1. 0 + j = j
            BY <2>2
        <3>2. F[j] = R[1][j]
            BY <1>1, <1>5, <2>2, Zenon
        <3>3. word[j] # Comma
            BY <1>1, <1>6, Zenon
        <3> QED
            BY <1>4, <3>1, <3>2, <3>3
    <2>5. Splits(F)[0] = Append(base, <<>>)
        BY <1>7
    <2>6. Splits(F)[0 + Len(word)] = Append(base, word)
        <3> HIDE DEF word, base
        <3> QED
            BY <1>2, <2>1, <2>2, <2>3, <2>4, <2>5, SplitWord, Zenon
    <2>7. 0 + Len(word) = L(1)
        <3> HIDE DEF word, L
        <3> QED
            BY <2>2
    <2>8. SubSeq(list, 1, 1) = Append(base, word)
        <3>1. 1 \in 1..Len(list) /\ 1 - 1 = 0
            BY <1>1
        <3>2. SubSeq(list, 1, 1) = SubSeq(list, 1, 1 - 1) \o <<list[1]>>
            BY <3>1, SubSeqRecursiveSecond
        <3>3. SubSeq(list, 1, 0) = <<>>
            BY SubSeqEmpty
        <3>4. Append(base, word) = base \o <<word>>
            BY <2>1, <2>2, AppendIsConcat
        <3>5. SubSeq(list, 1, 1) = <<>> \o <<list[1]>>
            BY <3>1, <3>2, <3>3
        <3> QED
            BY <3>4, <3>5, Zenon
    <2>9. Good(1)
        BY <2>6, <2>7, <2>8, Zenon
    <2> QED
        BY <1>1, <2>9
<1>9. ASSUME NEW n \in 1..(M - 1), n \in T PROVE n + 1 \in T
    <2> DEFINE word == list[n + 1]
               base == SubSeq(list, 1, n)
               q == L(n)
               e == <<>>
    <2>1. n \in Nat /\ n \in 1..M /\ n + 1 \in 1..M /\ (n + 1) - 1 = n
        BY <1>1
    <2>2. /\ q \in Nat
          /\ Len(word) \in Nat
          /\ L(n + 1) = q + 1 + Len(word)
          /\ R[n + 1][q + 1] = Comma
          /\ \A j \in 1..Len(word) : R[n + 1][q + 1 + j] = word[j]
        BY ReportedParts, Zenon
    <2>3. L(n + 1) <= Len(F) /\ \A j \in 1..L(n + 1) : F[j] = R[n + 1][j]
        BY <1>5, <2>1, Zenon
    <2>4. Splits(F)[q] = base
        BY <1>9
    <2>5. base \in Seq(Words)
        <3>1. \A i \in 1..n : i \in 1..Len(list)
            BY <1>1, <2>1
        <3>2. \A i \in 1..n : list[i] \in Words
            BY <3>1, ElementOfSeq
        <3>3. 1 \in Int /\ n \in Int
            BY <2>1
        <3> QED
            BY <3>2, <3>3, SubSeqProperties
    <2>6. word \in Words /\ \A j \in 1..Len(word) : word[j] # Comma
        BY <1>6, <2>1, Zenon
    <2>7. SubSeq(list, 1, n + 1) = Append(base, word)
        <3>1. 1 \in 1..Len(list) /\ n + 1 \in 1..Len(list)
            BY <1>1, <2>1
        <3>2. SubSeq(list, 1, n + 1) = SubSeq(list, 1, (n + 1) - 1) \o <<list[n + 1]>>
            BY <3>1, SubSeqRecursiveSecond
        <3>3. Append(base, word) = base \o <<word>>
            BY <2>5, <2>6, AppendIsConcat
        <3> QED
            BY <2>1, <3>2, <3>3
    <2>8. L(n + 1) \in Nat
        BY <1>5, <2>1, Zenon
    <2> HIDE DEF word, base, q, R, L
    <2>9. /\ q \in 0..(Len(F) - 1) /\ q + 1 \in 1..L(n + 1) /\ q + 1 \in Nat
          /\ q + 1 + Len(word) <= Len(F)
        BY <1>3, <2>2, <2>3, <2>8
    <2>10. Splits(F)[q + 1] = Append(base, <<>>)
        <3>1. F[q + 1] = Comma
            BY <2>2, <2>3, <2>9, Zenon
        <3>2. Splits(F)[q + 1] = SplitByte(base, Comma)
            BY <1>7, <2>4, <2>9, <3>1, Zenon
        <3> QED
            BY <3>2 DEF SplitByte
    <2>11. ASSUME NEW j \in 1..Len(word) PROVE F[q + 1 + j] = word[j] /\ word[j] # Comma
        <3>1. q + 1 + j \in 1..L(n + 1)
            BY <2>2, <2>8
        <3> QED
            BY <2>2, <2>3, <2>6, <3>1, Zenon
    <2>12. Splits(F)[q + 1 + Len(word)] = Append(base, word)
        BY <1>2, <2>5, <2>6, <2>9, <2>10, <2>11, SplitWord, Zenon
    <2>13. Splits(F)[L(n + 1)] = SubSeq(list, 1, n + 1)
        BY <2>2, <2>7, <2>12, Zenon
    <2> QED
        BY <2>1, <2>13
<1>10. \A h \in 1..M : h \in T
    <2>1. 1 \in Nat
        OBVIOUS
    <2> HIDE DEF T, M
    <2> QED
        BY <1>1, <1>8, <1>9, <2>1, InductionUpTo
<1>11. Good(M)
    BY <1>1, <1>10
<1>12. SubSeq(list, 1, M) = list
    BY SubSeqFull
<1>13. Splits(F)[Len(F)] = list
    BY <1>2, <1>11, <1>12, Zenon
<1>14. F # <<>>
    <2>1. L(1) <= Len(F) /\ L(1) = Len(list[1]) /\ Len(list[1]) \in Nat \ {0}
        BY <1>1, <1>4, <1>5, <1>6, Zenon
    <2> HIDE DEF L
    <2>2. Len(F) # 0
        BY <1>3, <2>1
    <2>3. Len(<<>>) = 0
        OBVIOUS
    <2> QED
        BY <2>2, <2>3, Zenon
<1> QED
    BY <1>13, <1>14, Zenon DEF SplitLvmField, F

-----------------------------------------------------------------------------
(* The list of a finite set's elements. *)
LEMMA ListOfSet ==
    ASSUME NEW S, IsFiniteSet(S)
    PROVE  /\ SetToSeq(S) \in Seq(S)
           /\ \A x \in S : \E i \in 1..Len(SetToSeq(S)) : SetToSeq(S)[i] = x
           /\ IsInjective(SetToSeq(S))
<1> DEFINE l == SetToSeq(S)
           c == Cardinality(S)
<1>1. c \in Nat /\ ExistsBijection(1..c, S)
    BY FS_CardinalityType
<1>2. PICK f : f \in [1..c -> S] /\ IsInjective(f)
    BY <1>1 DEF ExistsBijection, Bijection, Injection
<1>3. l \in [1..c -> S] /\ IsInjective(l)
    BY <1>2 DEF SetToSeq
<1> HIDE DEF l
<1>4. l \in Injection(1..c, S)
    BY <1>3 DEF Injection
<1>5. l \in Surjection(1..c, S)
    BY <1>1, <1>4, FS_Injection, FS_Interval
<1>6. l \in Seq(S) /\ Len(l) = c
    BY <1>1, <1>3
<1>7. \A x \in S : \E i \in 1..c : l[i] = x
    BY <1>5 DEF Surjection
<1> QED
    BY <1>3, <1>6, <1>7 DEF l

(* Without control characters, every byte can be written. *)
LEMMA PrintableIsWritable ==
    ASSUME NEW key \in TagKey, NEW value \in Seq(Octet), \A i \in 1..Len(value) : value[i] >= 16
    PROVE  Writable(Whole(key, value))
<1> DEFINE S == 16..255
           q == <<Equal>>
           w == Whole(key, value)
<1>1. TagPrefix \in Seq(S) /\ key \in Seq(S)
    BY VolumeTagsAssumption
<1>2. q \in Seq(S)
    BY DEF Equal
<1>3. value \in Seq(S)
    <2>1. value \in [1..Len(value) -> Octet] /\ Len(value) \in Nat
        BY LenProperties
    <2>2. ASSUME NEW i \in 1..Len(value) PROVE value[i] \in S
        <3>1. ASSUME NEW x \in Octet, x >= 16 PROVE x \in S
            BY <3>1 DEF Octet
        <3>2. value[i] \in Octet /\ value[i] >= 16
            BY ElementOfSeq
        <3> QED
            BY <3>1, <3>2
    <2> HIDE DEF S
    <2>3. value \in [1..Len(value) -> S]
        BY <2>1, <2>2
    <2> QED
        BY <2>1, <2>3, SeqDef
<1> HIDE DEF S, q
<1>4. TagPrefix \o key \in Seq(S)
    BY <1>1, ConcatProperties
<1>5. (TagPrefix \o key) \o q \in Seq(S)
    BY <1>2, <1>4, ConcatProperties
<1>6. ((TagPrefix \o key) \o q) \o value \in Seq(S)
    BY <1>3, <1>5, ConcatProperties
<1>7. w \in Seq(S)
    BY <1>6 DEF Whole, q
<1> HIDE DEF w
<1>8. ASSUME NEW i \in 1..Len(w) PROVE w[i] >= 16
    <2>1. w[i] \in S
        BY <1>7, ElementOfSeq
    <2>2. ASSUME NEW x \in S PROVE x >= 16
        BY <2>2 DEF S
    <2> QED
        BY <2>1, <2>2
<1> QED
    BY <1>8 DEF Writable, w

(* The bytes of a tag. *)
LEMMA TagType ==
    ASSUME NEW key \in TagKey, NEW value \in Seq(Octet)
    PROVE  /\ EncodeTagKV(key, value) = EncodeTag(Whole(key, value))
           /\ Whole(key, value) \in Seq(Octet)
           /\ Len(Whole(key, value)) >= 1
           /\ EncodeTagKV(key, value) \in Words
           /\ EncodeTagKV(key, value) # <<>>
           /\ DOMAIN EncodeTagKV(key, value) = 1..Len(EncodeTagKV(key, value))
<1> DEFINE w == Whole(key, value)
           t == EncodeTag(w)
           P == Len(TagPrefix)
<1>1. EncodeTagKV(key, value) = t
    BY Zenon DEF EncodeTagKV, Whole
<1>2. w \in Seq(Octet)
    BY WholeShape, Zenon
<1>3. P \in 0..(Len(w) - 1)
    BY PrefixEncoded, Zenon
<1>4. Len(w) \in Nat /\ Len(w) >= 1 /\ 0 \in 0..Len(w) /\ Len(w) \in 0..Len(w)
    <2> HIDE DEF w, P
    <2>1. Len(w) \in Nat
        BY <1>2
    <2> QED
        BY <1>3, <2>1
<1>5. t \in Seq(Octet) /\ Len(t) \in Nat /\ DOMAIN t = 1..Len(t)
    BY <1>2, EncodeTagType, Zenon
<1>6. Len(t) # 0
    <2> DEFINE x == Len(Encoded(w)[0])
    <2>1. x \in Nat /\ x + (Len(w) - 0) <= Len(Encoded(w)[Len(w)])
        BY <1>2, <1>4, EncodedGrows, Zenon
    <2>2. x + (Len(w) - 0) <= Len(t)
        BY <2>1, Zenon DEF EncodeTag
    <2> HIDE DEF x, w, t
    <2> QED
        BY <1>4, <1>5, <2>1, <2>2
<1>7. t # <<>>
    <2>1. Len(<<>>) = 0
        OBVIOUS
    <2> QED
        BY <1>6, <2>1, Zenon
<1> QED
    BY <1>1, <1>2, <1>4, <1>5, <1>7, Zenon DEF Words

(* What is read back from a list with these tags and somebody else's. *)
LEMMA DecodeAll ==
    ASSUME NEW t \in [TagKey -> Seq(Octet)], \A k \in TagKey : Writable(Whole(k, t[k])),
           NEW list \in Seq(EncodeTags(t) \cup {Foreign}),
           \A x \in EncodeTags(t) : \E i \in 1..Len(list) : list[i] = x,
           IsInjective(list)
    PROVE  DecodeTags(list) = t
<1> DEFINE Entry(k) == [ok |-> TRUE, key |-> k, value |-> t[k]]
           KV == {Entry(k) : k \in TagKey}
           Places == {j \in DOMAIN list : Ours(list[j])}
           Mine == {list[i] : i \in Places}
           kv == {DecodeTagKV(tag) : tag \in Mine}
<1>1. DOMAIN list = 1..Len(list) /\ \A i \in 1..Len(list) : list[i] \in EncodeTags(t) \cup {Foreign}
    BY LenProperties, ElementOfSeq
<1>2. EncodeTags(t) = {EncodeTagKV(k, t[k]) : k \in TagKey}
    BY DEF EncodeTags
<1>3. ASSUME NEW k \in TagKey
      PROVE  Ours(EncodeTagKV(k, t[k])) /\ DecodeTagKV(EncodeTagKV(k, t[k])) = Entry(k)
    <2>1. t[k] \in Seq(Octet) /\ Writable(Whole(k, t[k]))
        OBVIOUS
    <2> QED
        BY <2>1, TagIsOurs, TagRoundTrip, Zenon
<1>4. Mine = EncodeTags(t)
    <2>1. ASSUME NEW x \in Mine PROVE x \in EncodeTags(t)
        <3>1. PICK i \in DOMAIN list : Ours(list[i]) /\ x = list[i]
            BY <2>1
        <3>2. list[i] \in EncodeTags(t) \cup {Foreign}
            BY <1>1, <3>1
        <3>3. list[i] # Foreign
            BY <3>1, ForeignIsNotOurs
        <3> QED
            BY <3>1, <3>2, <3>3
    <2>2. ASSUME NEW x \in EncodeTags(t) PROVE x \in Mine
        <3>1. PICK k \in TagKey : x = EncodeTagKV(k, t[k])
            BY <1>2
        <3>2. Ours(x)
            BY <1>3, <3>1
        <3>3. PICK i \in 1..Len(list) : list[i] = x
            OBVIOUS
        <3> QED
            BY <1>1, <3>2, <3>3
    <2> QED
        BY <2>1, <2>2
<1> HIDE DEF Mine
<1>5. kv = KV
    <2> HIDE DEF Entry
    <2>1. ASSUME NEW x \in kv PROVE x \in KV
        <3>1. PICK tag \in EncodeTags(t) : x = DecodeTagKV(tag)
            BY <1>4
        <3>2. PICK k \in TagKey : tag = EncodeTagKV(k, t[k])
            BY <1>2
        <3> QED
            BY <1>3, <3>1, <3>2
    <2>2. ASSUME NEW x \in KV PROVE x \in kv
        <3>1. PICK k \in TagKey : x = Entry(k)
            OBVIOUS
        <3>2. EncodeTagKV(k, t[k]) \in Mine
            BY <1>2, <1>4
        <3> QED
            BY <1>3, <3>1, <3>2
    <2> QED
        BY <2>1, <2>2
<1>6. ASSUME NEW k \in TagKey
      PROVE  Entry(k) \in kv /\ Entry(k).ok = TRUE /\ Entry(k).key = k /\ Entry(k).value = t[k]
    <2>1. Entry(k).ok = TRUE /\ Entry(k).key = k /\ Entry(k).value = t[k]
        OBVIOUS
    <2> HIDE DEF Entry, kv
    <2> QED
        BY <1>5, <2>1
<1> HIDE DEF Entry
<1>7. ASSUME NEW e \in kv PROVE \E k \in TagKey : e = Entry(k)
    <2> HIDE DEF kv
    <2> QED
        BY <1>5, <1>7
<1> DEFINE Val(k) == (CHOOSE e \in kv : e.key = k).value
<1>8. DecodeTags(list) = IF /\ \A e \in kv : e.ok
                            /\ \A i, j \in Places :
                                  DecodeTagKV(list[i]).key = DecodeTagKV(list[j]).key => i = j
                         THEN [k \in {e.key : e \in kv} |-> Val(k)]
                         ELSE <<"error">>
    BY Zenon DEF DecodeTags, Mine, Places
<1> HIDE DEF kv, Places
<1>9. ASSUME NEW e \in kv PROVE e.ok
    BY <1>6, <1>7
<1>10. ASSUME NEW e \in kv, NEW f \in kv, e.key = f.key PROVE e = f
    <2>1. PICK k \in TagKey : e = Entry(k)
        BY <1>7
    <2>2. PICK h \in TagKey : f = Entry(h)
        BY <1>7
    <2>3. k = h
        BY <1>6, <1>10, <2>1, <2>2
    <2> QED
        BY <2>1, <2>2, <2>3
<1>10a. ASSUME NEW i \in Places, NEW j \in Places,
               DecodeTagKV(list[i]).key = DecodeTagKV(list[j]).key
        PROVE  i = j
    <2>1. i \in DOMAIN list /\ j \in DOMAIN list /\ list[i] \in EncodeTags(t) /\ list[j] \in EncodeTags(t)
        BY <1>4 DEF Mine, Places
    <2>2. PICK k \in TagKey : list[i] = EncodeTagKV(k, t[k])
        BY <1>2, <2>1
    <2>3. PICK h \in TagKey : list[j] = EncodeTagKV(h, t[h])
        BY <1>2, <2>1
    <2>4. DecodeTagKV(list[i]).key = k /\ DecodeTagKV(list[j]).key = h
        BY <1>3, <1>6, <2>2, <2>3
    <2>5. list[i] = list[j]
        BY <1>10a, <2>2, <2>3, <2>4
    <2> QED
        BY <2>1, <2>5 DEF IsInjective
<1>11. {e.key : e \in kv} = TagKey
    <2>1. ASSUME NEW e \in kv PROVE e.key \in TagKey
        <3>1. PICK k \in TagKey : e = Entry(k)
            BY <1>7
        <3> QED
            BY <1>6, <3>1
    <2>2. ASSUME NEW k \in TagKey PROVE \E e \in kv : e.key = k
        BY <1>6
    <2> QED
        BY <2>1, <2>2
<1>12. ASSUME NEW k \in TagKey PROVE Val(k) = t[k]
    <2>1. ASSUME NEW e \in kv, e.key = k PROVE e = Entry(k)
        <3>1. Entry(k) \in kv /\ Entry(k).key = e.key
            BY <1>6, <2>1
        <3> QED
            BY <1>10, <3>1
    <2>2. (CHOOSE e \in kv : e.key = k) = Entry(k)
        BY <1>6, <2>1
    <2> QED
        BY <1>6, <2>2
<1> HIDE DEF Val
<1>13. DecodeTags(list) = [k \in {e.key : e \in kv} |-> Val(k)]
    BY <1>8, <1>9, <1>10a, Zenon
<1>14. DecodeTags(list) = [k \in TagKey |-> Val(k)]
    <2> DEFINE D == {e.key : e \in kv}
    <2>1. D = TagKey /\ DecodeTags(list) = [k \in D |-> Val(k)]
        BY <1>11, <1>13, Zenon
    <2> HIDE DEF D
    <2> QED
        BY <2>1
<1>15. DecodeTags(list) = [k \in TagKey |-> t[k]]
    BY <1>12, <1>14
<1> QED
    BY <1>15

-----------------------------------------------------------------------------
(* The inductive invariant. *)
TagsType == tags \in [TagKey -> Value]

(* Values are strings of bytes. *)
LEMMA ValueType ==
    ASSUME NEW v \in Value
    PROVE  v \in Seq(Octet) /\ DOMAIN v = 1..Len(v)
<1>1. PICK m \in 0..MaxValue : v \in [1..m -> Byte]
    BY DEF Value, BoundedSeq, SeqOf
<1>2. m \in Nat /\ Byte \subseteq Octet
    BY VolumeTagsAssumption DEF Octet
<1>3. v \in [1..m -> Octet]
    BY <1>1, <1>2
<1>4. v \in Seq(Octet)
    BY <1>2, <1>3, SeqDef
<1> QED
    BY <1>4, LenProperties

(* Without tags, every value is empty. *)
LEMMA TagsInit == tags = NoTags => TagsType
<1>1. 0 \in 0..MaxValue
    BY VolumeTagsAssumption
<1>2. <<>> \in [1..0 -> Byte]
    OBVIOUS
<1>3. <<>> \in Value
    BY <1>1, <1>2 DEF Value, BoundedSeq, SeqOf
<1> QED
    BY <1>3 DEF NoTags, TagsType

(* Whatever a volume is tagged with. *)
LEMMA TagsOfAnyKind == TagsType => TagsSurviveLvm
<1> SUFFICES ASSUME TagsType PROVE TagsSurviveLvm
    OBVIOUS
<1> DEFINE S == EncodeTags(tags) \cup {Foreign}
           stored == SetToSeq(S)
<1>1. ASSUME NEW k \in TagKey PROVE tags[k] \in Seq(Octet) /\ DOMAIN tags[k] = 1..Len(tags[k])
    <2>1. tags[k] \in Value
        BY DEF TagsType
    <2> QED
        BY <2>1, ValueType
<1>2. tags \in [TagKey -> Seq(Octet)]
    BY <1>1 DEF TagsType
<1>3. EncodeTags(tags) = {EncodeTagKV(k, tags[k]) : k \in TagKey}
    BY <1>2 DEF EncodeTags
<1>4. IsFiniteSet(S)
    <2> DEFINE f == [k \in TagKey |-> EncodeTagKV(k, tags[k])]
    <2>1. f \in Surjection(TagKey, EncodeTags(tags))
        BY <1>3 DEF Surjection
    <2>2. IsFiniteSet(TagKey)
        BY VolumeTagsAssumption
    <2>3. IsFiniteSet(EncodeTags(tags))
        BY <2>1, <2>2, FS_Surjection
    <2> QED
        BY <2>3, FS_AddElement
<1>5. ASSUME Printable, NEW k \in TagKey PROVE Writable(Whole(k, tags[k]))
    <2>1. \A i \in 1..Len(tags[k]) : tags[k][i] >= 16
        BY <1>1, <1>5 DEF Printable
    <2> QED
        BY <1>1, <2>1, PrintableIsWritable
<1>6. ASSUME Printable, NEW k \in TagKey PROVE IsValid(EncodeTagKV(k, tags[k]))
    <2> DEFINE w == Whole(k, tags[k])
    <2>1. Writable(w)
        BY <1>5, <1>6
    <2>2. EncodeTagKV(k, tags[k]) = EncodeTag(w) /\ w \in Seq(Octet) /\ Len(w) >= 1
        BY <1>1, TagType, Zenon
    <2> HIDE DEF w
    <2> QED
        BY <2>1, <2>2, EncodedValid
<1>7. ASSUME Printable PROVE DecodeTags(SplitLvmField(Report(stored))) = tags
    <2>1. /\ stored \in Seq(S)
          /\ \A x \in S : \E i \in 1..Len(stored) : stored[i] = x
          /\ IsInjective(stored)
        BY <1>4, ListOfSet, Zenon
    <2>2. ASSUME NEW x \in S
          PROVE  x \in Words /\ x # <<>> /\ \A j \in 1..Len(x) : x[j] # Comma
        <3>1. CASE x = Foreign
            <4>1. x = <<120>> /\ 120 \in Octet /\ 120 # Comma
                BY <3>1 DEF Foreign, Octet, Comma
            <4>2. Len(<<120>>) = 1 /\ <<120>> \in Seq(Octet) /\ <<120>> # <<>> /\ <<120>>[1] = 120
                BY <4>1
            <4>3. \A j \in 1..1 : j = 1
                OBVIOUS
            <4> QED
                BY <4>1, <4>2, <4>3, Zenon DEF Words
        <3>2. CASE x # Foreign
            <4>1. PICK k \in TagKey : x = EncodeTagKV(k, tags[k])
                BY <1>3, <3>2
            <4>2. x \in Words /\ x # <<>> /\ DOMAIN x = 1..Len(x)
                BY <1>1, <4>1, TagType, Zenon
            <4>3. \A j \in DOMAIN x : x[j] \in TagChar
                BY <1>6, <1>7, <4>1, Zenon DEF IsValid
            <4>4. Comma \notin TagChar
                BY DEF TagChar, Alphanumeric, Comma, Hyphen, Equal, Amp
            <4> QED
                BY <4>2, <4>3, <4>4, Zenon
        <3> QED
            BY <3>1, <3>2
    <2> HIDE DEF S, stored
    <2>3. stored \in Seq(Words)
        <3>1. S \subseteq Words
            BY <2>2
        <3> QED
            BY <2>1, <3>1, SeqMonotonic
    <2>4. Len(stored) >= 1
        <3>1. Foreign \in S
            BY DEF S
        <3>2. PICK i \in 1..Len(stored) : stored[i] = Foreign
            BY <2>1, <3>1
        <3>3. Len(stored) \in Nat
            BY <2>3
        <3> QED
            BY <3>2, <3>3
    <2>5. \A i \in 1..Len(stored) :
              stored[i] # <<>> /\ \A j \in 1..Len(stored[i]) : stored[i][j] # Comma
        <3>1. \A i \in 1..Len(stored) : stored[i] \in S
            BY <2>1, ElementOfSeq
        <3> QED
            BY <2>2, <3>1, Zenon
    <2>6. SplitLvmField(Report(stored)) = stored
        BY <2>3, <2>4, <2>5, SplitReport, Zenon
    <2>7. DecodeTags(stored) = tags
        <3>1. \A k \in TagKey : Writable(Whole(k, tags[k]))
            BY <1>5, <1>7
        <3>2. stored \in Seq(EncodeTags(tags) \cup {Foreign})
            BY <2>1 DEF S
        <3>3. \A x \in EncodeTags(tags) : \E i \in 1..Len(stored) : stored[i] = x
            BY <2>1 DEF S
        <3> QED
            BY <1>2, <2>1, <3>1, <3>2, <3>3, DecodeAll, Zenon
    <2> QED
        BY <2>6, <2>7, Zenon
<1>8. ASSUME NEW k \in TagKey, IsValid(EncodeTagKV(k, tags[k]))
      PROVE  DecodeTagKV(EncodeTagKV(k, tags[k])) = [ok |-> TRUE, key |-> k, value |-> tags[k]]
    <2> DEFINE w == Whole(k, tags[k])
    <2>1. EncodeTagKV(k, tags[k]) = EncodeTag(w) /\ w \in Seq(Octet)
        BY <1>1, TagType, Zenon
    <2>2. Writable(w)
        <3>1. IsValid(EncodeTag(w))
            BY <1>8, <2>1, Zenon
        <3> HIDE DEF w
        <3> QED
            BY <2>1, <3>1, ValidIsWritable, Zenon
    <2> QED
        BY <1>1, <2>2, TagRoundTrip, Zenon
<1>9. ASSUME Printable, NEW tag \in EncodeTags(tags) PROVE IsValid(tag)
    <2>1. PICK k \in TagKey : tag = EncodeTagKV(k, tags[k])
        BY <1>3
    <2> QED
        BY <1>6, <1>9, <2>1, Zenon
<1> QED
    BY <1>7, <1>8, <1>9, Zenon DEF TagsSurviveLvm, IsValid

(* What a volume is tagged with, for keys and values of any length and     *)
(* number, is what is read back from lvm's report, past every separator,   *)
(* escape and other tag, and passes lvmctrld's pattern; a value with a     *)
(* control character is refused and never stored as another (tags.go,      *)
(* tagencoder.go, lvmctrldserver.go:86, 158, 326).                         *)
THEOREM TagsAlwaysSurviveLvm == TagsSpec => []TagsSurviveLvm
<1>1. TagsType /\ [SetTags]_tags => TagsType'
    <2> SUFFICES ASSUME TagsType, [SetTags]_tags PROVE TagsType'
        OBVIOUS
    <2>1. CASE SetTags
        BY <2>1 DEF SetTags, TagsType
    <2>2. CASE UNCHANGED tags
        BY <2>2 DEF TagsType
    <2> QED
        BY <2>1, <2>2
<1> QED
    BY <1>1, TagsInit, TagsOfAnyKind, PTL DEF TagsSpec
=============================================================================
