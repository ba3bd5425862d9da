------------------------------ MODULE CacheProofs ------------------------------
(***************************************************************************)
(* Proofs about the prefix index and the cache engines over it, for any    *)
(* sequences, any number of plans, pools of any size and every             *)
(* configuration of tiers.                                                 *)
(*                                                                         *)
(* From the bottom: prefixes and their order; the shape of a tree and what *)
(* match, insert, eviction and rollback do to it; its leaf table; blocks   *)
(* out of a pool; a tier, which is a tree and a pool; plans.  The          *)
(* invariant CacheInv says that every tier has its shape, that its blocks  *)
(* are in one place each, that what a plan holds is there and that the     *)
(* locks are those of the open plans.  The four planners are shown to      *)
(* leave good tiers and a good plan (ResultOK); adopting such a plan,      *)
(* running it, completing and aborting it keep the invariant.              *)
(***************************************************************************)
EXTENDS GlobalCacheEngine, FiniteSetTheorems, SequenceTheorems, TLAPS

-----------------------------------------------------------------------------
(* Prefixes.  Everything a tree deals with is the root or the hash of a
   prefix; the lemmas say how prefixes of prefixes behave, and no later proof
   looks into a sequence. *)

Prefixes == Hashes \cup {Root}
Tokens == UNION {{s[i] : i \in DOMAIN s} : s \in Seqs}

(* A sequence in blocks is a sequence of tokens. *)
LEMMA SeqsAreSeqs == \A s \in Seqs : s \in Seq(Tokens)
<1> SUFFICES ASSUME NEW s \in Seqs PROVE s \in Seq(Tokens)
  OBVIOUS
<1>1. s \in Seq({s[i] : i \in DOMAIN s})
  BY SeqsAssumption
<1>2. {s[i] : i \in DOMAIN s} \subseteq Tokens
  BY DEF Tokens
<1>3. DOMAIN s = 1 .. Len(s) /\ Len(s) \in Nat /\ s = [i \in 1 .. Len(s) |-> s[i]]
  BY <1>1
<1>4. \A i \in 1 .. Len(s) : s[i] \in Tokens
  BY <1>2, <1>3
<1> QED BY <1>3, <1>4

(* What SubSeq(s, 1, n) is. *)
LEMMA FrontOfSeq ==
  ASSUME NEW s \in Seq(Tokens), NEW n \in 0 .. Len(s)
  PROVE  /\ SubSeq(s, 1, n) \in Seq(Tokens)
         /\ Len(SubSeq(s, 1, n)) = n
         /\ \A m \in 0 .. n : SubSeq(SubSeq(s, 1, n), 1, m) = SubSeq(s, 1, m)
<1>1. n \in Int /\ \A i \in 1 .. n : s[i] \in Tokens
  OBVIOUS
<1>2. /\ SubSeq(s, 1, n) \in Seq(Tokens)
      /\ Len(SubSeq(s, 1, n)) = n
  BY <1>1, SubSeqProperties
<1>3. ASSUME NEW m \in 0 .. n
      PROVE  SubSeq(SubSeq(s, 1, n), 1, m) = SubSeq(s, 1, m)
  <2>1. CASE m = 0
    <3>1. SubSeq(SubSeq(s, 1, n), 1, m) = << >> /\ SubSeq(s, 1, m) = << >>
      BY <2>1, SubSeqEmpty
    <3> QED BY <3>1
  <2>2. CASE m # 0
    <3>1. /\ m \in 1 .. n - 1 + 1 /\ 1 \in 1 .. n - 1 + 1
          /\ 1 \in 1 .. Len(s) /\ n \in 1 .. Len(s) /\ 1 + m - 1 = m /\ 1 + 1 - 1 = 1
      BY <2>2
    <3>2. SubSeq(SubSeq(s, 1, n), 1, m) = SubSeq(s, 1 + 1 - 1, 1 + m - 1)
      BY <3>1, SubSeqOfSubSeq
    <3> QED BY <3>1, <3>2
  <2> QED BY <2>1, <2>2
<1> QED BY <1>2, <1>3

(* Prefixes of sequences, and of prefixes. *)
LEMMA SeqPrefixes == Seqs \subseteq Prefixes
<1> SUFFICES ASSUME NEW s \in Seqs, s # Root PROVE s \in Hashes
  BY DEF Prefixes
<1>1. s \in Seq(Tokens) BY SeqsAreSeqs
<1>2. Len(s) \in 1 .. Len(s) BY <1>1 DEF Root
<1>3. SubSeq(s, 1, Len(s)) = s BY <1>1, SubSeqFull
<1>4. s \in {SubSeq(s, 1, n) : n \in 1 .. Len(s)} BY <1>2, <1>3
<1> QED BY <1>4 DEF Hashes

(* A hash is a front of a sequence, *)
LEMMA HashOf ==
  ASSUME NEW h \in Hashes
  PROVE  \E s \in Seqs : \E n \in 1 .. Len(s) : h = SubSeq(s, 1, n)
BY DEF Hashes

(* and every front of one is a hash. *)
LEMMA HashOfSeq ==
  ASSUME NEW s \in Seqs, NEW n \in 1 .. Len(s)
  PROVE  SubSeq(s, 1, n) \in Hashes
<1>1. SubSeq(s, 1, n) \in {SubSeq(s, 1, k) : k \in 1 .. Len(s)} OBVIOUS
<1> QED BY <1>1 DEF Hashes

(* Prefixes are sequences. *)
LEMMA PrefixesAreSeqs == Prefixes \subseteq Seq(Tokens)
<1>1. Root \in Seq(Tokens) BY DEF Root
<1>2. ASSUME NEW h \in Hashes PROVE h \in Seq(Tokens)
  <2>1. PICK s \in Seqs : \E n \in 1 .. Len(s) : h = SubSeq(s, 1, n) BY HashOf
  <2>2. PICK n \in 1 .. Len(s) : h = SubSeq(s, 1, n) BY <2>1
  <2>3. s \in Seq(Tokens) BY SeqsAreSeqs
  <2>4. n \in 0 .. Len(s) BY <2>3
  <2> QED BY <2>2, <2>3, <2>4, FrontOfSeq
<1> QED BY <1>1, <1>2 DEF Prefixes

(* Only the root has no length. *)
LEMMA LenOfPrefix ==
  ASSUME NEW h \in Prefixes
  PROVE  /\ Len(h) \in Nat
         /\ Len(h) = 0 <=> h = Root
         /\ h \in Hashes <=> Len(h) # 0
<1>1. h \in Seq(Tokens) BY PrefixesAreSeqs
<1>2. Len(h) \in Nat /\ (Len(h) = 0 <=> h = Root) BY <1>1 DEF Root
<1>3. ASSUME h \in Hashes PROVE Len(h) # 0
  <2>1. PICK s \in Seqs : \E n \in 1 .. Len(s) : h = SubSeq(s, 1, n) BY <1>3, HashOf
  <2>2. PICK n \in 1 .. Len(s) : h = SubSeq(s, 1, n) BY <2>1
  <2>3. s \in Seq(Tokens) BY SeqsAreSeqs
  <2>4. n \in 0 .. Len(s) /\ n # 0 BY <2>3
  <2> QED BY <2>2, <2>3, <2>4, FrontOfSeq
<1> QED BY <1>2, <1>3 DEF Prefixes

(* A front of a prefix is a prefix, and its fronts are those of the whole. *)
LEMMA PrefixOfPrefix ==
  ASSUME NEW h \in Prefixes, NEW n \in 0 .. Len(h)
  PROVE  /\ HashAt(h, n) \in Prefixes
         /\ Len(HashAt(h, n)) = n
         /\ \A m \in 0 .. n : HashAt(HashAt(h, n), m) = HashAt(h, m)
<1>1. h \in Seq(Tokens) BY PrefixesAreSeqs
<1>2. /\ Len(HashAt(h, n)) = n
      /\ \A m \in 0 .. n : HashAt(HashAt(h, n), m) = HashAt(h, m)
  BY <1>1, FrontOfSeq DEF HashAt
<1>3. HashAt(h, n) \in Prefixes
  <2>1. CASE n = 0
    <3>1. HashAt(h, n) = Root BY <2>1, SubSeqEmpty DEF HashAt, Root
    <3> QED BY <3>1 DEF Prefixes
  <2>2. CASE n # 0
    <3>1. h \in Hashes BY <2>2, LenOfPrefix
    <3>2. PICK s \in Seqs : \E k \in 1 .. Len(s) : h = SubSeq(s, 1, k) BY <3>1, HashOf
    <3>3. PICK k \in 1 .. Len(s) : h = SubSeq(s, 1, k) BY <3>2
    <3>4. s \in Seq(Tokens) BY SeqsAreSeqs
    <3>5. k \in 0 .. Len(s) BY <3>4
    <3>6. Len(h) = k /\ n \in 0 .. k BY <3>3, <3>4, <3>5, FrontOfSeq
    <3>7. HashAt(h, n) = SubSeq(s, 1, n) BY <3>3, <3>4, <3>5, <3>6, FrontOfSeq DEF HashAt
    <3>8. n \in 1 .. Len(s) BY <3>4, <3>6, <2>2
    <3> QED BY <3>7, <3>8, HashOfSeq DEF Prefixes
  <2> QED BY <2>1, <2>2
<1> QED BY <1>2, <1>3

(* The fronts of full and of no length. *)
LEMMA WholePrefix == \A h \in Prefixes : HashAt(h, Len(h)) = h /\ HashAt(h, 0) = Root
BY PrefixesAreSeqs, SubSeqFull, SubSeqEmpty DEF HashAt, Root

(* IsPrefix is an order. *)
LEMMA PrefixOrder ==
  ASSUME NEW p \in Prefixes, NEW q \in Prefixes
  PROVE  /\ IsPrefix(p, q) <=> Len(p) <= Len(q) /\ HashAt(q, Len(p)) = p
         /\ IsPrefix(p, p) /\ IsPrefix(Root, q)
         /\ IsPrefix(p, q) /\ Len(p) = Len(q) => p = q
         /\ IsPrefix(p, q) /\ q = Root => p = Root
<1>1. IsPrefix(p, q) <=> Len(p) <= Len(q) /\ HashAt(q, Len(p)) = p
  BY DEF IsPrefix, HashAt
<1>2. Len(p) \in Nat /\ Len(q) \in Nat /\ Len(Root) = 0 /\ Root \in Prefixes
  BY LenOfPrefix DEF Prefixes
<1>3. HashAt(p, Len(p)) = p /\ HashAt(q, 0) = Root /\ HashAt(q, Len(q)) = q
  BY WholePrefix
<1>4. IsPrefix(p, p) BY <1>2, <1>3 DEF IsPrefix, HashAt
<1>5. IsPrefix(Root, q) BY <1>2, <1>3 DEF IsPrefix, HashAt
<1>6. IsPrefix(p, q) /\ q = Root => p = Root
  BY <1>1, <1>2, LenOfPrefix
<1> QED BY <1>1, <1>2, <1>3, <1>4, <1>5, <1>6

(* It is transitive. *)
LEMMA PrefixTrans ==
  ASSUME NEW p \in Prefixes, NEW q \in Prefixes, NEW r \in Prefixes,
         IsPrefix(p, q), IsPrefix(q, r)
  PROVE  IsPrefix(p, r)
<1>1. /\ Len(p) <= Len(q) /\ HashAt(q, Len(p)) = p
      /\ Len(q) <= Len(r) /\ HashAt(r, Len(q)) = q
      /\ Len(p) \in Nat /\ Len(q) \in Nat /\ Len(r) \in Nat
  BY PrefixOrder, LenOfPrefix
<1>2. Len(q) \in 0 .. Len(r) /\ Len(p) \in 0 .. Len(q) BY <1>1
<1>3. HashAt(HashAt(r, Len(q)), Len(p)) = HashAt(r, Len(p)) BY <1>2, PrefixOfPrefix
<1>4. Len(p) <= Len(r) BY <1>1
<1>5. HashAt(r, Len(p)) = p BY <1>1, <1>3, Zenon
<1> QED BY <1>4, <1>5, PrefixOrder

(* Two prefixes of one sequence are comparable, by length. *)
LEMMA PrefixChain ==
  ASSUME NEW p \in Prefixes, NEW q \in Prefixes, NEW r \in Prefixes,
         IsPrefix(p, r), IsPrefix(q, r), Len(p) <= Len(q)
  PROVE  IsPrefix(p, q)
<1>1. /\ HashAt(r, Len(p)) = p /\ HashAt(r, Len(q)) = q /\ Len(q) <= Len(r)
      /\ Len(p) \in Nat /\ Len(q) \in Nat /\ Len(r) \in Nat
  BY PrefixOrder, LenOfPrefix
<1>2. Len(q) \in 0 .. Len(r) /\ Len(p) \in 0 .. Len(q) BY <1>1
<1>3. HashAt(HashAt(r, Len(q)), Len(p)) = HashAt(r, Len(p)) BY <1>2, PrefixOfPrefix
<1> QED BY <1>1, <1>3, PrefixOrder

(* Fronts are prefixes, the longer of the shorter ones. *)
LEMMA FrontIsPrefix ==
  ASSUME NEW h \in Prefixes, NEW n \in 0 .. Len(h)
  PROVE  /\ IsPrefix(HashAt(h, n), h)
         /\ \A m \in 0 .. n : IsPrefix(HashAt(h, m), HashAt(h, n))
<1>1. Len(h) \in Nat BY LenOfPrefix
<1>2. /\ HashAt(h, n) \in Prefixes /\ Len(HashAt(h, n)) = n
      /\ HashAt(h, Len(HashAt(h, n))) = HashAt(h, n)
  BY PrefixOfPrefix
<1>3. IsPrefix(HashAt(h, n), h)
  BY <1>1, <1>2, PrefixOrder
<1>4. ASSUME NEW m \in 0 .. n PROVE IsPrefix(HashAt(h, m), HashAt(h, n))
  <2>1. m \in 0 .. Len(h) BY <1>1
  <2>2. /\ HashAt(h, m) \in Prefixes /\ Len(HashAt(h, m)) = m
        /\ HashAt(HashAt(h, n), m) = HashAt(h, m)
    BY <2>1, PrefixOfPrefix
  <2> QED BY <1>2, <2>2, PrefixOrder
<1> QED BY <1>3, <1>4

-----------------------------------------------------------------------------
(* Extremes. *)

(* Sets of naturals have a least element, *)
LEMMA LeastNat ==
  ASSUME NEW S \in SUBSET Nat, S # {}
  PROVE  \E x \in S : \A y \in S : x <= y
<1>1. \E x \in S : \A y \in S : ~ (<< y, x >> \in OpToRel(<, Nat))
  BY WFMin, NatLessThanWellFounded
<1>2. \A x, y \in S : y < x => << y, x >> \in OpToRel(<, Nat)
  <2> TAKE x, y \in S
  <2> HAVE y < x
  <2> DEFINE q == << y, x >>
  <2>1. q \in Nat \X Nat /\ q[1] = y /\ q[2] = x
    OBVIOUS
  <2>2. q[1] < q[2]
    BY <2>1
  <2> HIDE DEF q
  <2>3. q \in OpToRel(<, Nat)
    BY <2>1, <2>2, Zenon DEF OpToRel
  <2> QED BY <2>3 DEF q
<1>3. \E x \in S : \A y \in S : ~ (y < x)
  BY <1>1, <1>2, Zenon
<1>4. \A x, y \in S : ~ (y < x) => x <= y
  OBVIOUS
<1> QED BY <1>3, <1>4

(* and, if they are bounded, a greatest, *)
LEMMA GreatestNat ==
  ASSUME NEW S \in SUBSET Nat, S # {}, NEW N \in Nat, \A x \in S : x <= N
  PROVE  \E x \in S : \A y \in S : y <= x
<1> DEFINE D == {N - x : x \in S}
<1>0. \A x \in S : x \in Nat /\ N - x \in Nat
  OBVIOUS
<1>1. D \in SUBSET Nat /\ D # {}
  BY <1>0
<1>2. PICK d \in D : \A e \in D : d <= e
  BY <1>1, LeastNat
<1>3. PICK x \in S : d = N - x
  OBVIOUS
<1>4. ASSUME NEW y \in S PROVE y <= x
  <2>1. N - y \in D OBVIOUS
  <2>2. N - x <= N - y BY <1>2, <1>3, <2>1
  <2> QED BY <2>2
<1> QED BY <1>4

(* which Greatest chooses. *)
LEMMA GreatestOf ==
  ASSUME NEW S \in SUBSET Nat, S # {}, NEW N \in Nat, \A x \in S : x <= N
  PROVE  Greatest(S) \in S /\ \A y \in S : y <= Greatest(S)
BY GreatestNat, Zenon DEF Greatest

(* So Shortest and Longest choose what their names say. *)
LEMMA ShortestOf ==
  ASSUME NEW S \in SUBSET Prefixes, S # {}
  PROVE  Shortest(S) \in S /\ \A q \in S : Len(Shortest(S)) <= Len(q)
<1> DEFINE D == {Len(p) : p \in S}
<1>1. D \in SUBSET Nat /\ D # {}
  BY LenOfPrefix
<1>2. PICK d \in D : \A e \in D : d <= e
  BY <1>1, LeastNat
<1>3. PICK p \in S : d = Len(p)
  OBVIOUS
<1>4. \A q \in S : Len(p) <= Len(q)
  BY <1>2, <1>3
<1> QED BY <1>4, Zenon DEF Shortest

(* Longest needs a bound. *)
LEMMA LongestOf ==
  ASSUME NEW S \in SUBSET Prefixes, S # {}, NEW N \in Nat, \A p \in S : Len(p) <= N
  PROVE  Longest(S) \in S /\ \A q \in S : Len(q) <= Len(Longest(S))
<1> DEFINE D == {Len(p) : p \in S}
<1>1. D \in SUBSET Nat /\ D # {} /\ \A x \in D : x <= N
  BY LenOfPrefix
<1>2. PICK d \in D : \A e \in D : e <= d
  BY <1>1, GreatestNat
<1>3. PICK p \in S : d = Len(p)
  OBVIOUS
<1>4. \A q \in S : Len(q) <= Len(p)
  BY <1>2, <1>3
<1> QED BY <1>4, Zenon DEF Longest

-----------------------------------------------------------------------------
(* The shape of a tree. *)

Closed(T) == \A h \in Cached(T) : \A n \in 1 .. Len(h) : HashAt(h, n) \in Cached(T)
Covered(T) == \A h \in Cached(T) : \E e \in T.ends : IsPrefix(h, e)
Child(h, q) == IsPrefix(h, q) /\ Len(q) = Len(h) + 1
ForksAtEnds(T) ==
  \A h \in Cached(T) \ T.ends : \A q, r \in Cached(T) : Child(h, q) /\ Child(h, r) => q = r
TreeTyped(T) ==
  /\ Cached(T) \subseteq Hashes
  /\ T.ends \subseteq Cached(T)
  /\ T.is_ready \subseteq T.ends
  /\ T.lock_cnt \in [Prefixes -> Nat]
Shape(T) == TreeTyped(T) /\ Closed(T) /\ Covered(T) /\ ForksAtEnds(T)

(* What a tree has are prefixes, and the root is not cached. *)
LEMMA EndsArePrefixes ==
  ASSUME NEW T, TreeTyped(T)
  PROVE  /\ Cached(T) \subseteq Prefixes /\ T.ends \subseteq Prefixes
         /\ T.ends \subseteq Hashes /\ Root \notin Cached(T)
BY LenOfPrefix DEF TreeTyped, Prefixes

(* The node of a cached prefix. *)
LEMMA NodeOfCached ==
  ASSUME NEW T, Shape(T), NEW h \in Cached(T)
  PROVE  /\ NodeOf(T, h) \in T.ends /\ IsPrefix(h, NodeOf(T, h))
         /\ \A e \in T.ends : IsPrefix(h, e) => Len(NodeOf(T, h)) <= Len(e)
<1> DEFINE S == {e \in T.ends : IsPrefix(h, e)}
<1>1. S \in SUBSET Prefixes /\ S # {}
  BY EndsArePrefixes DEF Shape, Covered
<1>2. Shortest(S) \in S /\ \A q \in S : Len(Shortest(S)) <= Len(q)
  BY <1>1, ShortestOf
<1>3. NodeOf(T, h) = Shortest(S)
  BY EndsArePrefixes DEF NodeOf, Shape
<1> QED BY <1>2, <1>3

(* What is cached below a prefix that is no node goes on in one way: two
   prefixes that part, part at a node. *)
LEMMA PartAtEnd ==
  ASSUME NEW T, Shape(T), NEW h \in Cached(T), NEW q \in Cached(T), NEW r \in Cached(T),
         IsPrefix(h, q), IsPrefix(h, r), Len(q) <= Len(r), ~IsPrefix(q, r)
  PROVE  \E e \in T.ends : IsPrefix(h, e) /\ IsPrefix(e, q) /\ IsPrefix(e, r) /\ Len(e) < Len(q)
<1>1. /\ h \in Prefixes /\ q \in Prefixes /\ r \in Prefixes
      /\ Len(h) \in Nat /\ Len(q) \in Nat /\ Len(r) \in Nat
      /\ Len(h) <= Len(q) /\ Len(h) <= Len(r) /\ Len(h) # 0
      /\ HashAt(q, Len(h)) = h /\ HashAt(r, Len(h)) = h
      /\ HashAt(q, Len(q)) = q
  BY EndsArePrefixes, LenOfPrefix, PrefixOrder, WholePrefix DEF Shape, TreeTyped
<1> DEFINE D == {n \in 0 .. Len(q) : n >= Len(h) /\ HashAt(q, n) # HashAt(r, n)}
<1>2. Len(q) \in D
  <2>1. HashAt(r, Len(q)) # q
    BY <1>1, PrefixOrder
  <2> QED BY <1>1, <2>1
<1>3. D \in SUBSET Nat /\ D # {}
  BY <1>2
<1>4. PICK n \in D : \A m \in D : n <= m
  BY <1>3, LeastNat
<1>5. n \in 0 .. Len(q) /\ n > Len(h) /\ HashAt(q, n) # HashAt(r, n)
  BY <1>1, <1>4
<1> DEFINE k == n - 1
<1>6. k \in 0 .. Len(q) /\ k >= Len(h) /\ k \notin D /\ k < n
  BY <1>1, <1>4, <1>5
<1>7. HashAt(q, k) = HashAt(r, k)
  BY <1>6
<1>8. /\ n \in 0 .. Len(r) /\ k \in 0 .. Len(r) /\ n \in 1 .. Len(q) /\ n \in 1 .. Len(r)
      /\ k \in 1 .. Len(q) /\ n = k + 1 /\ k \in 0 .. n /\ Len(h) \in 0 .. k /\ k < Len(q)
  BY <1>1, <1>5, <1>6
<1> HIDE DEF k, D
<1>9. /\ HashAt(q, n) \in Cached(T) /\ HashAt(r, n) \in Cached(T) /\ HashAt(q, k) \in Cached(T)
  BY <1>8 DEF Shape, Closed
<1>10. /\ HashAt(q, k) \in Prefixes /\ Len(HashAt(q, k)) = k /\ Len(HashAt(q, n)) = n
       /\ Len(HashAt(r, n)) = n
  BY <1>1, <1>6, <1>8, PrefixOfPrefix
<1>11. /\ IsPrefix(HashAt(q, k), HashAt(q, n)) /\ IsPrefix(HashAt(r, k), HashAt(r, n))
       /\ IsPrefix(HashAt(q, k), q) /\ IsPrefix(HashAt(r, k), r)
       /\ IsPrefix(HashAt(q, Len(h)), HashAt(q, k))
  BY <1>1, <1>5, <1>6, <1>8, FrontIsPrefix
<1>12. HashAt(q, k) \in T.ends
  BY <1>5, <1>7, <1>8, <1>9, <1>10, <1>11 DEF Shape, ForksAtEnds, Child
<1> QED BY <1>1, <1>7, <1>8, <1>10, <1>11, <1>12

(* So the node of a prefix is above everything that goes on from it. *)
LEMMA NodeIsAbove ==
  ASSUME NEW T, Shape(T), NEW h \in Cached(T), NEW e \in T.ends, IsPrefix(h, e)
  PROVE  IsPrefix(NodeOf(T, h), e)
<1> DEFINE f == NodeOf(T, h)
<1>1. /\ f \in T.ends /\ IsPrefix(h, f) /\ Len(f) <= Len(e)
      /\ \A g \in T.ends : IsPrefix(h, g) => Len(f) <= Len(g)
  BY NodeOfCached
<1> HIDE DEF f
<1>2. /\ f \in Cached(T) /\ e \in Cached(T)
      /\ \A g \in T.ends : Len(g) \in Nat
  BY <1>1, EndsArePrefixes, LenOfPrefix DEF Shape, TreeTyped
<1>3. ASSUME ~IsPrefix(f, e) PROVE FALSE
  <2>1. PICK g \in T.ends : IsPrefix(h, g) /\ Len(g) < Len(f)
    BY <1>1, <1>2, <1>3, PartAtEnd
  <2> QED BY <1>1, <1>2, <2>1
<1> QED BY <1>3 DEF f

(* The parent of a node. *)
LEMMA ParentOf ==
  ASSUME NEW T, TreeTyped(T), NEW e \in T.ends \cup {Root}
  PROVE  /\ Parent(T, e) \in T.ends \cup {Root}
         /\ Parent(T, e) \in Prefixes /\ e \in Prefixes
         /\ IsPrefix(Parent(T, e), e)
         /\ e # Root => Len(Parent(T, e)) < Len(e)
         /\ \A f \in T.ends : IsPrefix(f, e) /\ f # e => Len(f) <= Len(Parent(T, e))
         /\ Len(Parent(T, e)) \in Nat /\ Len(e) \in Nat
<1> DEFINE S == {f \in T.ends : IsPrefix(f, e) /\ f # e} \cup {Root}
<1>0. e \in Prefixes /\ Root \in Prefixes /\ T.ends \subseteq Prefixes
  BY EndsArePrefixes DEF Prefixes
<1>1. S \in SUBSET Prefixes /\ S # {} /\ Len(e) \in Nat
  BY <1>0, LenOfPrefix
<1>2. \A p \in S : IsPrefix(p, e)
  BY <1>0, PrefixOrder
<1>3. \A p \in S : Len(p) <= Len(e)
  BY <1>0, <1>1, <1>2, PrefixOrder
<1>4. Longest(S) \in S /\ \A q \in S : Len(q) <= Len(Longest(S))
  BY <1>1, <1>3, LongestOf
<1>5. Parent(T, e) = Longest(S)
  BY DEF Parent
<1> DEFINE P == Parent(T, e)
<1>6. P \in S /\ \A q \in S : Len(q) <= Len(P)
  BY <1>4, <1>5
<1>7. e # Root => P # e
  BY <1>6
<1>8. IsPrefix(P, e) /\ P \in Prefixes /\ P \in T.ends \cup {Root}
  BY <1>0, <1>2, <1>6
<1> HIDE DEF P
<1>9. Len(P) \in Nat /\ Len(P) <= Len(e)
  BY <1>0, <1>8, LenOfPrefix, PrefixOrder
<1>10. e # Root => Len(P) < Len(e)
  BY <1>0, <1>1, <1>7, <1>8, <1>9, PrefixOrder
<1>11. \A f \in T.ends : IsPrefix(f, e) /\ f # e => Len(f) <= Len(P)
  BY <1>6 DEF P
<1> QED BY <1>0, <1>1, <1>8, <1>9, <1>10, <1>11 DEF P

(* The run of a node: its prefixes, the last one the node itself, above which
   no other node ends. *)
LEMMA RunOf ==
  ASSUME NEW T, Shape(T), NEW e \in T.ends
  PROVE  /\ Run(T, e) \subseteq Cached(T) /\ e \in Run(T, e)
         /\ \A q \in Prefixes : q \in Run(T, e) <=>
              IsPrefix(q, e) /\ Len(q) > Len(Parent(T, e))
         /\ \A f \in T.ends : f \in Run(T, e) => f = e
         /\ \A q \in Run(T, e) : NodeOf(T, q) = e
<1>1. /\ Len(Parent(T, e)) < Len(e) /\ Len(Parent(T, e)) \in Nat /\ Len(e) \in Nat
      /\ \A f \in T.ends : IsPrefix(f, e) /\ f # e => Len(f) <= Len(Parent(T, e))
      /\ e \in Prefixes /\ T.ends \subseteq Prefixes /\ e \in Cached(T) /\ Cached(T) \subseteq Prefixes
  BY ParentOf, EndsArePrefixes DEF Shape, TreeTyped
<1> DEFINE k == Len(Parent(T, e))
<1>2. Run(T, e) = {HashAt(e, n) : n \in k + 1 .. Len(e)}
  BY DEF Run
<1> HIDE DEF k
<1>3. k \in Nat /\ k < Len(e) BY <1>1 DEF k
<1>4. ASSUME NEW n \in k + 1 .. Len(e)
      PROVE  /\ HashAt(e, n) \in Cached(T) /\ IsPrefix(HashAt(e, n), e)
             /\ Len(HashAt(e, n)) = n /\ n > k
  <2>1. n \in 1 .. Len(e) /\ n \in 0 .. Len(e) /\ n > k BY <1>1, <1>3
  <2> QED BY <1>1, <2>1, PrefixOfPrefix, FrontIsPrefix DEF Shape, Closed
<1>5. Run(T, e) \subseteq Cached(T)
  BY <1>2, <1>4
<1>6. ASSUME NEW q \in Prefixes
      PROVE  q \in Run(T, e) <=> IsPrefix(q, e) /\ Len(q) > k
  <2>1. q \in Run(T, e) => IsPrefix(q, e) /\ Len(q) > k
    BY <1>2, <1>4
  <2>2. ASSUME IsPrefix(q, e), Len(q) > k PROVE q \in Run(T, e)
    <3>1. Len(q) \in Nat /\ Len(q) <= Len(e) /\ HashAt(e, Len(q)) = q
      BY <1>1, <2>2, PrefixOrder, LenOfPrefix
    <3>2. Len(q) \in k + 1 .. Len(e)
      BY <1>1, <1>3, <2>2, <3>1
    <3> QED BY <1>2, <3>1, <3>2
  <2> QED BY <2>1, <2>2
<1>7. e \in Run(T, e)
  BY <1>1, <1>3, <1>6, PrefixOrder
<1>8. ASSUME NEW f \in T.ends, f \in Run(T, e) PROVE f = e
  <2>1. IsPrefix(f, e) /\ Len(f) > k /\ Len(f) \in Nat
    BY <1>1, <1>6, <1>8, LenOfPrefix
  <2> QED BY <1>1, <1>3, <2>1 DEF k
<1>9. ASSUME NEW q \in Run(T, e) PROVE NodeOf(T, q) = e
  <2>1. q \in Cached(T) /\ IsPrefix(q, e) /\ Len(q) > k /\ q \in Prefixes /\ Len(q) \in Nat
    BY <1>1, <1>5, <1>6, LenOfPrefix
  <2> DEFINE f == NodeOf(T, q)
  <2>2. f \in T.ends /\ IsPrefix(q, f) /\ IsPrefix(f, e)
    BY <2>1, NodeOfCached, NodeIsAbove
  <2> HIDE DEF f
  <2>3. Len(q) <= Len(f) /\ Len(f) \in Nat
    BY <1>1, <2>1, <2>2, PrefixOrder, LenOfPrefix
  <2>4. f \in Run(T, e)
    BY <1>1, <1>3, <1>6, <2>1, <2>2, <2>3
  <2>5. f = e
    BY <1>8, <2>2, <2>4
  <2> QED BY <2>5 DEF f
<1> QED BY <1>5, <1>6, <1>7, <1>8, <1>9 DEF k

(* Every cached prefix is in the run of its node. *)
LEMMA InRunOfNode ==
  ASSUME NEW T, Shape(T), NEW h \in Cached(T)
  PROVE  h \in Run(T, NodeOf(T, h))
<1> DEFINE e == NodeOf(T, h)
<1>1. /\ e \in T.ends /\ IsPrefix(h, e)
      /\ \A f \in T.ends : IsPrefix(h, f) => Len(e) <= Len(f)
  BY NodeOfCached
<1> HIDE DEF e
<1>2. /\ h \in Prefixes /\ e \in Prefixes /\ Len(h) \in Nat /\ Len(h) # 0
      /\ T.ends \subseteq Prefixes
  BY <1>1, EndsArePrefixes, LenOfPrefix DEF Shape, TreeTyped
<1> DEFINE f == Parent(T, e)
<1>3. /\ f \in T.ends \cup {Root} /\ f \in Prefixes /\ IsPrefix(f, e) /\ Len(f) < Len(e)
      /\ Len(f) \in Nat /\ Len(e) \in Nat
  BY <1>1, ParentOf, LenOfPrefix, EndsArePrefixes DEF Shape
<1> HIDE DEF f
<1>4. ASSUME Len(f) >= Len(h) PROVE FALSE
  <2>1. f # Root
    BY <1>2, <1>3, <1>4, LenOfPrefix
  <2>2. IsPrefix(h, f)
    BY <1>1, <1>2, <1>3, <1>4, PrefixChain
  <2> QED BY <1>1, <1>3, <2>1, <2>2
<1>5. Len(h) > Len(f)
  BY <1>2, <1>3, <1>4
<1> QED BY <1>1, <1>2, <1>5, RunOf DEF e, f

-----------------------------------------------------------------------------
(* The operations on a tree. *)

(* The empty tree has the shape. *)
LEMMA EmptyShape == Shape(EmptyTree) /\ Cached(EmptyTree) = {} /\ EmptyTree.ends = {}
                    /\ EmptyTree.phys = << >>
<1>1. /\ EmptyTree.phys = << >> /\ EmptyTree.ends = {} /\ EmptyTree.is_ready = {}
      /\ EmptyTree.lock_cnt = [h \in Prefixes |-> 0]
  BY DEF EmptyTree, TreeOf, Prefixes
<1>2. Cached(EmptyTree) = {}
  BY <1>1 DEF Cached
<1> QED BY <1>1, <1>2 DEF Shape, TreeTyped, Closed, Covered, ForksAtEnds

(* Locks and ready marks do not matter to the shape. *)
LEMMA SameShape ==
  ASSUME NEW T, NEW U, Shape(T), U.phys = T.phys, U.ends = T.ends,
         U.is_ready \subseteq U.ends, U.lock_cnt \in [Prefixes -> Nat]
  PROVE  Shape(U)
<1>1. Cached(U) = Cached(T) BY DEF Cached
<1> QED BY <1>1 DEF Shape, TreeTyped, Closed, Covered, ForksAtEnds

(* A set of prefixes with everything below them. *)
UpClosed(T, gone) ==
  /\ gone \subseteq Cached(T)
  /\ \A p \in gone, q \in Cached(T) : IsPrefix(p, q) => q \in gone

Cut(T, gone) == {Longest(Run(T, e) \ gone) :
                   e \in {f \in T.ends \cap gone : ~(Run(T, f) \subseteq gone)}}

Kept(T, gone) == [p \in Cached(T) \ gone |-> T.phys[p]]

(* What eviction leaves of each field. *)
LEMMA WithoutFields ==
  ASSUME NEW T, NEW gone
  PROVE  LET U == Without(T, gone) IN
         /\ U.phys = Kept(T, gone)
         /\ Cached(U) = Cached(T) \ gone
         /\ U.ends = (T.ends \ gone) \cup Cut(T, gone)
         /\ U.is_ready = (T.is_ready \ gone) \cup Cut(T, gone)
         /\ U.lock_cnt = T.lock_cnt
BY DEF Without, TreeOf, Cut, Cached, Kept

(* A shrunk node ends at its last prefix that stays. *)
LEMMA CutOf ==
  ASSUME NEW T, Shape(T), NEW gone
  PROVE  /\ Cut(T, gone) \subseteq Cached(T) \ gone
         /\ \A e \in T.ends \cap gone : \A h \in Run(T, e) \ gone :
              \E c \in Cut(T, gone) : IsPrefix(h, c)
<1>1. ASSUME NEW e \in T.ends, ~(Run(T, e) \subseteq gone)
      PROVE  LET c == Longest(Run(T, e) \ gone) IN
             c \in Run(T, e) \ gone /\ \A h \in Run(T, e) \ gone : Len(h) <= Len(c)
  <2>1. /\ Run(T, e) \subseteq Prefixes /\ e \in Prefixes /\ Len(e) \in Nat
        /\ \A q \in Run(T, e) : IsPrefix(q, e)
    BY RunOf, EndsArePrefixes, LenOfPrefix DEF Shape
  <2>2. \A q \in Run(T, e) : Len(q) <= Len(e)
    BY <2>1, PrefixOrder
  <2> QED BY <1>1, <2>1, <2>2, LongestOf
<1>2. ASSUME NEW c \in Cut(T, gone) PROVE c \in Cached(T) \ gone
  <2>1. PICK e \in {f \in T.ends \cap gone : ~(Run(T, f) \subseteq gone)} :
          c = Longest(Run(T, e) \ gone)
    BY DEF Cut
  <2>2. c \in Run(T, e) \ gone
    BY <1>1, <2>1
  <2>3. Run(T, e) \subseteq Cached(T)
    BY RunOf
  <2> QED BY <2>2, <2>3
<1>3. ASSUME NEW e \in T.ends \cap gone, NEW h \in Run(T, e) \ gone
      PROVE  \E c \in Cut(T, gone) : IsPrefix(h, c)
  <2> DEFINE c == Longest(Run(T, e) \ gone)
  <2>1. c \in Run(T, e) \ gone /\ Len(h) <= Len(c)
    BY <1>1
  <2>2. c \in Cut(T, gone)
    BY DEF Cut
  <2> HIDE DEF c
  <2>3. /\ Run(T, e) \subseteq Prefixes /\ e \in Prefixes
        /\ IsPrefix(h, e) /\ IsPrefix(c, e)
    BY <2>1, RunOf, EndsArePrefixes DEF Shape
  <2>4. IsPrefix(h, c)
    BY <2>1, <2>3, PrefixChain
  <2> QED BY <2>2, <2>4
<1> QED BY <1>2, <1>3

(* Taking out whole subtrees and the backs of nodes keeps the shape. *)
LEMMA WithoutShape ==
  ASSUME NEW T, Shape(T), NEW gone, UpClosed(T, gone)
  PROVE  Shape(Without(T, gone))
<1> DEFINE U == Without(T, gone)
<1>1. /\ Cached(U) = Cached(T) \ gone
      /\ U.ends = (T.ends \ gone) \cup Cut(T, gone)
      /\ U.is_ready = (T.is_ready \ gone) \cup Cut(T, gone)
      /\ U.lock_cnt = T.lock_cnt
  BY WithoutFields
<1> HIDE DEF U
<1>2. Cut(T, gone) \subseteq Cached(T) \ gone
  BY CutOf
<1>3. TreeTyped(U)
  BY <1>1, <1>2 DEF Shape, TreeTyped
<1>4. Closed(U)
  <2> SUFFICES ASSUME NEW h \in Cached(T) \ gone, NEW n \in 1 .. Len(h)
               PROVE  HashAt(h, n) \in Cached(T) \ gone
    BY <1>1 DEF Closed
  <2>1. HashAt(h, n) \in Cached(T) BY DEF Shape, Closed
  <2>2. h \in Prefixes /\ Len(h) \in Nat BY EndsArePrefixes, LenOfPrefix DEF Shape
  <2>3. n \in 0 .. Len(h) BY <2>2
  <2>4. IsPrefix(HashAt(h, n), h) BY <2>2, <2>3, FrontIsPrefix
  <2> QED BY <2>1, <2>4 DEF UpClosed
<1>5. Covered(U)
  <2> SUFFICES ASSUME NEW h \in Cached(T) \ gone PROVE \E e \in U.ends : IsPrefix(h, e)
    BY <1>1 DEF Covered
  <2>1. NodeOf(T, h) \in T.ends /\ IsPrefix(h, NodeOf(T, h)) /\ h \in Run(T, NodeOf(T, h))
    BY NodeOfCached, InRunOfNode
  <2>2. CASE NodeOf(T, h) \notin gone
    BY <1>1, <2>1, <2>2
  <2>3. CASE NodeOf(T, h) \in gone
    BY <1>1, <2>1, <2>3, CutOf
  <2> QED BY <2>2, <2>3
<1>6. ForksAtEnds(U)
  BY <1>1 DEF Shape, ForksAtEnds
<1> QED BY <1>3, <1>4, <1>5, <1>6 DEF Shape, U

(* Insertion of the prefixes matched + 1 .. num. *)
Grown(T, blocks) == [p \in Cached(T) \cup DOMAIN blocks |->
                       IF p \in DOMAIN blocks THEN blocks[p] ELSE T.phys[p]]
Front(seq, matched) == {HashAt(seq, matched)} \ {Root}

(* What an insert makes of each field. *)
LEMMA InsertFields ==
  ASSUME NEW T, NEW seq, NEW matched, NEW num, NEW blocks
  PROVE  LET U == insert(T, seq, matched, num, blocks) IN
         /\ U.phys = Grown(T, blocks)
         /\ Cached(U) = Cached(T) \cup DOMAIN blocks
         /\ U.ends = T.ends \cup Front(seq, matched) \cup {HashAt(seq, num)}
         /\ U.is_ready \subseteq T.is_ready \cup Front(seq, matched)
         /\ U.lock_cnt = T.lock_cnt
BY DEF insert, TreeOf, Cached, Grown, Front

(* What an insert is based on. *)
GoodTarget(T, seq, matched, num, blocks) ==
  /\ seq \in Prefixes /\ matched \in 0 .. Len(seq) /\ num \in matched + 1 .. Len(seq)
  /\ HashAt(seq, matched) \in Cached(T) \cup {Root}
  /\ HashAt(seq, matched + 1) \notin Cached(T)
  /\ DOMAIN blocks = Stretch(seq, matched, num)

(* The prefixes of a stretch. *)
LEMMA StretchOf ==
  ASSUME NEW seq \in Prefixes, NEW a \in Nat, NEW b \in Nat, b <= Len(seq)
  PROVE  /\ Stretch(seq, a, b) \subseteq Hashes
         /\ \A h \in Prefixes : h \in Stretch(seq, a, b) <=>
              IsPrefix(h, seq) /\ Len(h) > a /\ Len(h) <= b
<1>1. Len(seq) \in Nat BY LenOfPrefix
<1>2. ASSUME NEW i \in a + 1 .. b
      PROVE  /\ HashAt(seq, i) \in Hashes /\ Len(HashAt(seq, i)) = i
             /\ IsPrefix(HashAt(seq, i), seq) /\ i > a /\ i <= b
  <2>1. i \in 0 .. Len(seq) /\ i # 0 /\ i > a /\ i <= b BY <1>1
  <2>2. HashAt(seq, i) \in Prefixes /\ Len(HashAt(seq, i)) = i BY <2>1, PrefixOfPrefix
  <2> QED BY <2>1, <2>2, LenOfPrefix, FrontIsPrefix
<1>3. ASSUME NEW h \in Prefixes, IsPrefix(h, seq), Len(h) > a, Len(h) <= b
      PROVE  h \in Stretch(seq, a, b)
  <2>1. HashAt(seq, Len(h)) = h /\ Len(h) \in Nat BY <1>3, PrefixOrder, LenOfPrefix
  <2>2. Len(h) \in a + 1 .. b BY <1>3, <2>1
  <2> QED BY <2>1, <2>2 DEF Stretch
<1> QED BY <1>2, <1>3 DEF Stretch

(* An insert at the end of a match keeps the shape: it splits the node it hangs on
   if the match ends inside. *)
LEMMA InsertShape ==
  ASSUME NEW T, Shape(T), NEW seq, NEW matched, NEW num, NEW blocks,
         GoodTarget(T, seq, matched, num, blocks)
  PROVE  Shape(insert(T, seq, matched, num, blocks))
<1> DEFINE U == insert(T, seq, matched, num, blocks)
           S == Stretch(seq, matched, num)
           front == Front(seq, matched)
           node == HashAt(seq, num)
<1>0. DOMAIN blocks = S
  BY DEF GoodTarget
<1>1. /\ Cached(U) = Cached(T) \cup S
      /\ U.ends = T.ends \cup front \cup {node}
      /\ U.is_ready \subseteq T.is_ready \cup front
      /\ U.lock_cnt = T.lock_cnt
  <2> HIDE DEF S
  <2>1. /\ Cached(U) = Cached(T) \cup DOMAIN blocks
        /\ U.ends = T.ends \cup front \cup {node}
        /\ U.is_ready \subseteq T.is_ready \cup front
        /\ U.lock_cnt = T.lock_cnt
    BY InsertFields
  <2> HIDE DEF U, front, node
  <2> QED BY <1>0, <2>1
<1>2. /\ seq \in Prefixes /\ Len(seq) \in Nat /\ matched \in Nat /\ num \in Nat
      /\ matched < num /\ num <= Len(seq)
      /\ matched \in 0 .. Len(seq) /\ num \in 0 .. Len(seq)
      /\ matched + 1 \in 0 .. Len(seq)
  BY LenOfPrefix DEF GoodTarget
<1>3. /\ S \subseteq Hashes
      /\ \A h \in Prefixes : h \in S <=> IsPrefix(h, seq) /\ Len(h) > matched /\ Len(h) <= num
  BY <1>2, StretchOf
<1>4. /\ HashAt(seq, matched) \in Cached(T) \cup {Root}
      /\ HashAt(seq, matched + 1) \notin Cached(T)
  BY DEF GoodTarget
<1> HIDE DEF U, S
<1>5. /\ node \in Prefixes /\ Len(node) = num /\ IsPrefix(node, seq)
      /\ HashAt(seq, matched) \in Prefixes /\ Len(HashAt(seq, matched)) = matched
      /\ IsPrefix(HashAt(seq, matched), seq)
      /\ HashAt(seq, matched + 1) \in Prefixes /\ Len(HashAt(seq, matched + 1)) = matched + 1
      /\ IsPrefix(HashAt(seq, matched + 1), seq)
  BY <1>2, PrefixOfPrefix, FrontIsPrefix
<1>6. node \in S
  BY <1>2, <1>3, <1>5
<1>7. /\ Cached(T) \subseteq Hashes /\ Cached(T) \subseteq Prefixes /\ S \subseteq Prefixes
      /\ T.ends \subseteq Cached(T)
      /\ T.is_ready \subseteq T.ends /\ T.lock_cnt \in [Prefixes -> Nat]
  BY <1>3 DEF Shape, TreeTyped, Prefixes
<1>8. front \subseteq Cached(T)
  BY <1>4 DEF Front
<1>9. TreeTyped(U)
  <2>1. Cached(U) \subseteq Hashes BY <1>1, <1>3, <1>7
  <2>2. U.ends \subseteq Cached(U) BY <1>1, <1>6, <1>7, <1>8
  <2>3. U.is_ready \subseteq U.ends BY <1>1, <1>7
  <2>4. U.lock_cnt \in [Prefixes -> Nat] BY <1>1, <1>7
  <2> QED BY <2>1, <2>2, <2>3, <2>4 DEF TreeTyped
<1>10. \A n \in 1 .. matched : HashAt(seq, n) \in Cached(T)
  <2> SUFFICES ASSUME NEW n \in 1 .. matched PROVE HashAt(seq, n) \in Cached(T)
    OBVIOUS
  <2>1. HashAt(seq, matched) \in Cached(T)
    BY <1>2, <1>4, <1>5, LenOfPrefix
  <2>2. n \in 0 .. matched /\ n \in 1 .. Len(HashAt(seq, matched))
    BY <1>5
  <2>3. HashAt(HashAt(seq, matched), n) = HashAt(seq, n)
    BY <1>2, <2>2, PrefixOfPrefix
  <2> QED BY <2>1, <2>2, <2>3 DEF Shape, Closed
<1>11. Closed(U)
  <2> SUFFICES ASSUME NEW h \in Cached(T) \cup S, NEW n \in 1 .. Len(h)
               PROVE  HashAt(h, n) \in Cached(T) \cup S
    BY <1>1 DEF Closed
  <2>1. CASE h \in Cached(T)
    BY <2>1 DEF Shape, Closed
  <2>2. CASE h \in S
    <3>1. h \in Prefixes /\ Len(h) \in Nat /\ IsPrefix(h, seq) /\ Len(h) <= num
      BY <1>3, <1>7, <2>2, LenOfPrefix
    <3>2. HashAt(seq, Len(h)) = h /\ Len(h) \in 0 .. Len(seq) /\ n \in 0 .. Len(h)
      BY <1>2, <3>1, PrefixOrder
    <3>3. HashAt(h, n) = HashAt(seq, n) /\ HashAt(h, n) \in Prefixes /\ Len(HashAt(h, n)) = n
      BY <1>2, <3>1, <3>2, PrefixOfPrefix
    <3>4. n \in 0 .. Len(seq) /\ n \in Nat /\ n <= num
      BY <1>2, <3>1, <3>2
    <3>5. CASE n <= matched
      BY <1>10, <3>3, <3>4, <3>5
    <3>6. CASE n > matched
      BY <1>2, <1>3, <3>3, <3>4, <3>6, FrontIsPrefix
    <3> QED BY <1>2, <3>4, <3>5, <3>6
  <2> QED BY <2>1, <2>2
<1>12. Covered(U)
  <2> SUFFICES ASSUME NEW h \in Cached(T) \cup S PROVE \E e \in U.ends : IsPrefix(h, e)
    BY <1>1 DEF Covered
  <2>1. CASE h \in Cached(T)
    BY <1>1, <2>1 DEF Shape, Covered
  <2>2. CASE h \in S
    <3>1. IsPrefix(h, node)
      BY <1>2, <1>3, <1>5, <1>7, <2>2, PrefixChain
    <3> QED BY <1>1, <3>1
  <2> QED BY <2>1, <2>2
<1>13. ForksAtEnds(U)
  <2> SUFFICES ASSUME NEW h \in (Cached(T) \cup S) \ U.ends,
                      NEW q \in Cached(T) \cup S, NEW r \in Cached(T) \cup S,
                      Child(h, q), Child(h, r)
               PROVE  q = r
    BY <1>1 DEF ForksAtEnds
  <2>1. /\ h \in Prefixes /\ q \in Prefixes /\ r \in Prefixes /\ Len(h) \in Nat
        /\ IsPrefix(h, q) /\ IsPrefix(h, r) /\ Len(q) = Len(h) + 1 /\ Len(r) = Len(h) + 1
    BY <1>7, LenOfPrefix DEF Child
  <2>2. CASE h \in S
    <3>1. IsPrefix(h, seq) /\ Len(h) > matched
      BY <1>3, <2>1, <2>2
    <3>2. IsPrefix(HashAt(seq, matched + 1), h)
      BY <1>2, <1>5, <2>1, <3>1, PrefixChain
    <3>3. ASSUME NEW x \in Cached(T), IsPrefix(h, x) PROVE FALSE
      <4>1. x \in Prefixes /\ Len(x) \in Nat BY <1>7, LenOfPrefix
      <4>2. IsPrefix(HashAt(seq, matched + 1), x)
        BY <1>5, <2>1, <3>2, <3>3, <4>1, PrefixTrans
      <4>3. HashAt(x, matched + 1) = HashAt(seq, matched + 1) /\ matched + 1 <= Len(x)
        BY <1>5, <4>1, <4>2, PrefixOrder
      <4>4. matched + 1 \in 1 .. Len(x)
        BY <1>2, <4>1, <4>3
      <4> QED BY <1>4, <4>3, <4>4 DEF Shape, Closed
    <3>4. q \in S /\ r \in S
      BY <2>1, <3>3
    <3>5. IsPrefix(q, seq) /\ IsPrefix(r, seq)
      BY <1>3, <2>1, <3>4
    <3> QED BY <1>2, <2>1, <3>5, PrefixChain, PrefixOrder
  <2>3. CASE h \notin S
    <3>1. ASSUME NEW x \in S, IsPrefix(h, x), Len(x) = Len(h) + 1 PROVE FALSE
      <4>1. x \in Prefixes /\ IsPrefix(x, seq) /\ Len(x) > matched /\ Len(x) <= num
        BY <1>3, <1>7
      <4>2. IsPrefix(h, seq) /\ Len(h) <= num /\ Len(h) >= matched
        BY <1>2, <2>1, <3>1, <4>1, PrefixTrans
      <4>3. Len(h) = matched
        BY <1>2, <1>3, <2>1, <2>3, <4>2
      <4>4. h = HashAt(seq, matched)
        BY <1>2, <2>1, <4>2, <4>3, PrefixOrder
      <4>5. h # Root
        BY <1>7, <2>3, LenOfPrefix
      <4> QED BY <1>1, <4>4, <4>5 DEF Front
    <3>2. q \in Cached(T) /\ r \in Cached(T)
      BY <2>1, <3>1
    <3> QED BY <1>1, <2>3, <3>2 DEF Shape, ForksAtEnds
  <2> QED BY <2>2, <2>3
<1> QED BY <1>9, <1>11, <1>12, <1>13 DEF Shape, U

(* match_prefix. *)
LEMMA MatchOf ==
  ASSUME NEW T, Shape(T), NEW seq \in Prefixes
  PROVE  LET m == match_prefix(T, seq) IN
         /\ m.matched \in 0 .. Len(seq) /\ m.ready \in 0 .. m.matched
         /\ HashAt(seq, m.matched) \in Cached(T) \cup {Root}
         /\ m.matched < Len(seq) => HashAt(seq, m.matched + 1) \notin Cached(T)
         /\ m.last_node \in T.ends \cup {Root}
         /\ m.last_ready_node \in T.ends \cup {Root}
         /\ IsPrefix(HashAt(seq, m.matched), m.last_node)
         /\ IsPrefix(m.last_ready_node, m.last_node)
<1> DEFINE A == {n \in 0 .. Len(seq) : \A i \in 1 .. n : HashAt(seq, i) \in Cached(T)}
           a == Greatest(A)
           R == {n \in 0 .. a : \A i \in 1 .. n : NodeOf(T, HashAt(seq, i)) \in T.is_ready}
           b == Greatest(R)
           m == match_prefix(T, seq)
<1>1. Len(seq) \in Nat BY LenOfPrefix
<1>2. A \in SUBSET Nat /\ 0 \in A /\ \A n \in A : n <= Len(seq)
  BY <1>1
<1>3. a \in A /\ \A n \in A : n <= a
  BY <1>1, <1>2, GreatestOf
<1>4. a \in 0 .. Len(seq) /\ \A i \in 1 .. a : HashAt(seq, i) \in Cached(T)
  BY <1>3
<1>5. ASSUME a < Len(seq), HashAt(seq, a + 1) \in Cached(T) PROVE FALSE
  <2> HIDE DEF a
  <2>2. a + 1 \in 0 .. Len(seq) /\ \A i \in 1 .. a + 1 : i \in 1 .. a \/ i = a + 1
    BY <1>1, <1>4, <1>5
  <2>1. a + 1 \in A BY <1>4, <1>5, <2>2
  <2> HIDE DEF A
  <2> QED BY <1>3, <1>4, <2>1
<1>6. m.matched = a /\ m.ready = b /\ m.last_node = NodeOf(T, HashAt(seq, a))
      /\ m.last_ready_node = NodeOf(T, HashAt(seq, b))
  BY DEF match_prefix
<1> HIDE DEF m, A
<1>7. R \in SUBSET Nat /\ 0 \in R /\ \A n \in R : n <= a
  <2> HIDE DEF a
  <2> QED BY <1>4
<1>8. b \in 0 .. a
  <2>0. a \in Nat
    <3> HIDE DEF a
    <3> QED BY <1>4
  <2>1. b \in R
    <3> HIDE DEF a, R
    <3> QED BY <2>0, <1>7, GreatestOf
  <2> HIDE DEF b, a
  <2> QED BY <2>1
<1> HIDE DEF a, b, R
<1>9. b \in 0 .. Len(seq) /\ a \in Nat /\ b \in Nat /\ b <= a BY <1>1, <1>4, <1>8
<1>10. \A n \in 0 .. a : HashAt(seq, n) \in Cached(T) \cup {Root} /\ (n = 0 <=> HashAt(seq, n) = Root)
  <2> SUFFICES ASSUME NEW n \in 0 .. a
               PROVE  HashAt(seq, n) \in Cached(T) \cup {Root} /\ (n = 0 <=> HashAt(seq, n) = Root)
    OBVIOUS
  <2>1. n \in 0 .. Len(seq) BY <1>1, <1>4
  <2>2. HashAt(seq, n) \in Prefixes /\ Len(HashAt(seq, n)) = n BY <2>1, PrefixOfPrefix
  <2>3. n = 0 <=> HashAt(seq, n) = Root BY <2>2, LenOfPrefix
  <2> QED BY <1>4, <2>3
<1>11. \A n \in 0 .. a : /\ NodeOf(T, HashAt(seq, n)) \in T.ends \cup {Root}
                         /\ IsPrefix(HashAt(seq, n), NodeOf(T, HashAt(seq, n)))
  <2> SUFFICES ASSUME NEW n \in 0 .. a
               PROVE  /\ NodeOf(T, HashAt(seq, n)) \in T.ends \cup {Root}
                      /\ IsPrefix(HashAt(seq, n), NodeOf(T, HashAt(seq, n)))
    OBVIOUS
  <2>1. CASE HashAt(seq, n) = Root
    BY <2>1, PrefixOrder DEF NodeOf, Prefixes
  <2>2. CASE HashAt(seq, n) \in Cached(T)
    BY <2>2, NodeOfCached
  <2> QED BY <1>10, <2>1, <2>2
<1>12. IsPrefix(m.last_ready_node, m.last_node)
  <2>1. a \in 0 .. a /\ b \in 0 .. a BY <1>9
  <2>2. m.last_node \in T.ends \cup {Root} /\ IsPrefix(HashAt(seq, a), m.last_node)
    BY <1>6, <1>11, <2>1
  <2>3. m.last_node \in Prefixes /\ HashAt(seq, a) \in Prefixes /\ HashAt(seq, b) \in Prefixes
    BY <1>4, <1>9, <2>2, PrefixOfPrefix, EndsArePrefixes DEF Shape, Prefixes
  <2>4. IsPrefix(HashAt(seq, b), m.last_node)
    <3>1. IsPrefix(HashAt(seq, b), HashAt(seq, a)) BY <1>4, <1>8, FrontIsPrefix
    <3> QED BY <2>2, <2>3, <3>1, PrefixTrans
  <2>5. CASE b = 0
    <3>1. m.last_ready_node = Root BY <1>6, <1>10, <2>1, <2>5 DEF NodeOf
    <3> QED BY <2>3, <3>1, PrefixOrder
  <2>6. CASE b # 0
    <3>1. HashAt(seq, b) \in Cached(T) /\ HashAt(seq, b) # Root
      BY <1>10, <2>1, <2>6
    <3>2. m.last_node # Root
      BY <2>3, <2>4, <3>1, PrefixOrder
    <3> QED BY <1>6, <2>2, <2>4, <3>1, <3>2, NodeIsAbove
  <2> QED BY <2>5, <2>6
<1>13. a \in 0 .. a /\ b \in 0 .. a BY <1>9
<1> QED BY <1>4, <1>5, <1>6, <1>8, <1>10, <1>11, <1>12, <1>13 DEF m

(* evict. *)
LEMMA EvictOf ==
  ASSUME NEW T, Shape(T), NEW prot \in Prefixes, NEW num, NEW gone \in EvictChoices(lock(T, prot), num)
  PROVE  /\ UpClosed(T, gone)
         /\ \A p \in gone : \A e \in T.ends : IsPrefix(p, e) => T.lock_cnt[e] = 0 /\ e # prot
<1> DEFINE L == lock(T, prot)
<1>1. L.phys = T.phys /\ L.ends = T.ends /\ L.lock_cnt = [T.lock_cnt EXCEPT ![prot] = @ + 1]
  BY DEF lock, TreeOf
<1>2. Cached(L) = Cached(T)
  BY <1>1 DEF Cached
<1>3. gone \subseteq Evictable(L) /\ \A p \in gone, q \in Cached(L) : IsPrefix(p, q) => q \in gone
  BY DEF EvictChoices
<1> HIDE DEF L
<1>4. UpClosed(T, gone)
  BY <1>2, <1>3 DEF UpClosed, Evictable
<1>5. ASSUME NEW p \in gone, NEW e \in T.ends, IsPrefix(p, e)
      PROVE  T.lock_cnt[e] = 0 /\ e # prot
  <2>1. ~(L.lock_cnt[e] > 0)
    BY <1>1, <1>3, <1>5 DEF Evictable, in_use
  <2>2. e \in Prefixes /\ T.lock_cnt \in [Prefixes -> Nat]
    BY EndsArePrefixes DEF Shape, TreeTyped
  <2>3. e = prot => L.lock_cnt[e] = T.lock_cnt[e] + 1
    BY <1>1, <2>2
  <2>4. e # prot => L.lock_cnt[e] = T.lock_cnt[e]
    BY <1>1, <2>2
  <2>5. T.lock_cnt[e] \in Nat
    BY <2>2
  <2> QED BY <2>1, <2>3, <2>4, <2>5
<1> QED BY <1>4, <1>5

-----------------------------------------------------------------------------
(* The leaf table. *)

Leaves(T) == {e \in T.ends : is_leaf(T, e)}
LeavesExact(T) ==
  /\ DOMAIN T.leaf_nodes = {head_hash(T, e) : e \in Leaves(T)}
  /\ \A e \in Leaves(T) : T.leaf_nodes[head_hash(T, e)] = e

(* The head of a node is in its run, so no two nodes have the same. *)
LEMMA HeadOf ==
  ASSUME NEW T, Shape(T), NEW e \in T.ends
  PROVE  head_hash(T, e) \in Run(T, e) /\ NodeOf(T, head_hash(T, e)) = e
<1> DEFINE k == Len(Parent(T, e))
<1>1. k \in Nat /\ Len(e) \in Nat /\ k < Len(e)
  BY ParentOf, EndsArePrefixes, LenOfPrefix DEF Shape
<1>2. k + 1 \in k + 1 .. Len(e)
  <2> HIDE DEF k
  <2> QED BY <1>1
<1>3. head_hash(T, e) \in Run(T, e)
  BY <1>2 DEF head_hash, Run
<1> QED BY <1>3, RunOf

(* So a head is a key. *)
LEMMA HeadsDiffer ==
  ASSUME NEW T, Shape(T), NEW e \in T.ends, NEW f \in T.ends, head_hash(T, e) = head_hash(T, f)
  PROVE  e = f
BY HeadOf

(* What a cut is made of: the last prefix of the run that stays. *)
LEMMA LongestInRun ==
  ASSUME NEW T, Shape(T), NEW gone, NEW e \in T.ends, ~(Run(T, e) \subseteq gone)
  PROVE  /\ Longest(Run(T, e) \ gone) \in Run(T, e) \ gone
         /\ \A h \in Run(T, e) \ gone : Len(h) <= Len(Longest(Run(T, e) \ gone))
<1>1. /\ Run(T, e) \subseteq Prefixes /\ e \in Prefixes /\ Len(e) \in Nat
      /\ \A q \in Run(T, e) : IsPrefix(q, e)
  BY RunOf, EndsArePrefixes, LenOfPrefix DEF Shape
<1>2. \A q \in Run(T, e) : Len(q) <= Len(e)
  BY <1>1, PrefixOrder
<1> QED BY <1>1, <1>2, LongestOf

(* A parent is the longest node above. *)
LEMMA ParentIs ==
  ASSUME NEW T, TreeTyped(T), NEW e \in T.ends, NEW f \in T.ends \cup {Root},
         IsPrefix(f, e), f # e,
         \A g \in T.ends : IsPrefix(g, e) /\ g # e => Len(g) <= Len(f)
  PROVE  Parent(T, e) = f
<1> DEFINE P == Parent(T, e)
<1>1. e \in Prefixes /\ f \in Prefixes /\ e # Root /\ Root \in Prefixes
      /\ Len(e) \in Nat /\ Len(f) \in Nat
  BY EndsArePrefixes, LenOfPrefix DEF Prefixes, TreeTyped
<1>2. /\ P \in T.ends \cup {Root} /\ P \in Prefixes /\ IsPrefix(P, e) /\ Len(P) < Len(e)
      /\ \A g \in T.ends : IsPrefix(g, e) /\ g # e => Len(g) <= Len(P)
      /\ Len(P) \in Nat
  BY <1>1, ParentOf
<1> HIDE DEF P
<1>3. Len(f) <= Len(P)
  <2>1. CASE f = Root
    BY <1>1, <1>2, <2>1, LenOfPrefix
  <2> QED BY <1>2, <2>1
<1>4. Len(P) <= Len(f)
  <2>1. CASE P = Root
    BY <1>1, <1>2, <2>1, LenOfPrefix
  <2>2. CASE P # Root
    BY <1>2, <2>2
  <2> QED BY <2>1, <2>2
<1>5. Len(P) = Len(f)
  BY <1>1, <1>2, <1>3, <1>4
<1>6. IsPrefix(P, f)
  BY <1>1, <1>2, <1>5, PrefixChain
<1> QED BY <1>1, <1>2, <1>5, <1>6, PrefixOrder DEF P

(* The table of U is made from that of T: what goes out, and the leaves that
   come in.  The others keep their key. *)
Retabled(T, U, gone, nodes) ==
  /\ nodes \subseteq Leaves(U)
  /\ \A e \in Leaves(U) \ nodes :
       e \in Leaves(T) /\ head_hash(T, e) = head_hash(U, e) /\ head_hash(T, e) \notin gone
  /\ \A e \in Leaves(T) :
       head_hash(T, e) \in gone \/ \E f \in Leaves(U) : head_hash(T, e) = head_hash(U, f)

(* Then the table of U is exact if that of T was. *)
LEMMA RetabledExact ==
  ASSUME NEW T, LeavesExact(T), NEW U, Shape(U), NEW gone, NEW nodes, Retabled(T, U, gone, nodes),
         NEW G, G.ends = U.ends, G.leaf_nodes = T.leaf_nodes,
         U.leaf_nodes = LeafTable(G, gone, nodes)
  PROVE  LeavesExact(U)
<1>1. \A e : head_hash(G, e) = head_hash(U, e)
  BY DEF head_hash, Parent
<1> DEFINE heads == {head_hash(G, e) : e \in nodes}
<1>2. U.leaf_nodes = [h \in (DOMAIN T.leaf_nodes \ gone) \cup heads |->
                        IF h \in heads THEN CHOOSE e \in nodes : head_hash(G, e) = h
                        ELSE T.leaf_nodes[h]]
  BY DEF LeafTable
<1>3. DOMAIN U.leaf_nodes = (DOMAIN T.leaf_nodes \ gone) \cup heads
  BY <1>2
<1>4. nodes \subseteq Leaves(U) /\ Leaves(U) \subseteq U.ends
  BY DEF Retabled, Leaves
<1>5. ASSUME NEW e \in nodes PROVE U.leaf_nodes[head_hash(U, e)] = e
  <2>1. head_hash(G, e) \in heads
    OBVIOUS
  <2>2. U.leaf_nodes[head_hash(G, e)] = CHOOSE f \in nodes : head_hash(G, f) = head_hash(G, e)
    <3> HIDE DEF heads
    <3> QED BY <1>2, <2>1
  <2>3. \A f \in nodes : head_hash(G, f) = head_hash(G, e) => f = e
    BY <1>1, <1>4, HeadsDiffer
  <2> QED BY <1>1, <2>2, <2>3
<1>6. ASSUME NEW e \in Leaves(U) \ nodes
      PROVE  head_hash(U, e) \in DOMAIN U.leaf_nodes /\ U.leaf_nodes[head_hash(U, e)] = e
  <2>1. /\ e \in Leaves(T) /\ head_hash(T, e) = head_hash(U, e) /\ head_hash(T, e) \notin gone
    BY DEF Retabled
  <2>2. head_hash(U, e) \in DOMAIN T.leaf_nodes \ gone /\ T.leaf_nodes[head_hash(U, e)] = e
    BY <2>1 DEF LeavesExact
  <2>3. head_hash(U, e) \notin heads
    BY <1>1, <1>4, HeadsDiffer
  <2> HIDE DEF heads
  <2> QED BY <1>2, <2>2, <2>3
<1>7. DOMAIN U.leaf_nodes \subseteq {head_hash(U, e) : e \in Leaves(U)}
  <2>1. ASSUME NEW h \in DOMAIN T.leaf_nodes \ gone PROVE h \in {head_hash(U, e) : e \in Leaves(U)}
    <3>1. PICK e \in Leaves(T) : h = head_hash(T, e)
      BY DEF LeavesExact
    <3>2. PICK f \in Leaves(U) : head_hash(T, e) = head_hash(U, f)
      BY <3>1 DEF Retabled
    <3> QED BY <3>1, <3>2
  <2>2. heads \subseteq {head_hash(U, e) : e \in Leaves(U)}
    BY <1>1, <1>4
  <2> QED BY <1>3, <2>1, <2>2
<1>8. ASSUME NEW e \in nodes PROVE head_hash(U, e) \in DOMAIN U.leaf_nodes
  BY <1>1, <1>3
<1>9. \A e \in Leaves(U) : head_hash(U, e) \in DOMAIN U.leaf_nodes /\ U.leaf_nodes[head_hash(U, e)] = e
  BY <1>5, <1>6, <1>8
<1>10. DOMAIN U.leaf_nodes = {head_hash(U, e) : e \in Leaves(U)}
  BY <1>7, <1>9
<1> QED BY <1>9, <1>10 DEF LeavesExact

(* The empty table, *)
LEMMA EmptyLeaves == LeavesExact(EmptyTree)
<1>1. EmptyTree.leaf_nodes = << >> /\ EmptyTree.ends = {}
  BY DEF EmptyTree, TreeOf
<1>2. Leaves(EmptyTree) = {}
  BY <1>1 DEF Leaves
<1> QED BY <1>1, <1>2 DEF LeavesExact

(* and that of a tree whose nodes are the same. *)
LEMMA SameLeaves ==
  ASSUME NEW T, NEW U, LeavesExact(T), U.phys = T.phys, U.ends = T.ends,
         U.leaf_nodes = T.leaf_nodes
  PROVE  LeavesExact(U)
<1>1. \A e : head_hash(U, e) = head_hash(T, e)
  BY DEF head_hash, Parent
<1>2. Leaves(U) = Leaves(T)
  BY DEF Leaves, is_leaf, Cached
<1> QED BY <1>1, <1>2 DEF LeavesExact

(* Eviction and rollback. *)
LEMMA WithoutTable ==
  ASSUME NEW T, NEW gone
  PROVE  LET U == Without(T, gone)
             lost == {head_hash(T, e) : e \in {f \in T.ends : Run(T, f) \subseteq gone}}
             leaves == {e \in Leaves(U) : e \in Cut(T, gone) \/ ~is_leaf(T, e)} IN
         \E G : /\ G.ends = U.ends /\ G.leaf_nodes = T.leaf_nodes
                /\ U.leaf_nodes = LeafTable(G, lost, leaves)
<1> DEFINE U == Without(T, gone)
           lost == {head_hash(T, e) : e \in {f \in T.ends : Run(T, f) \subseteq gone}}
           rest(leaf_nodes) == TreeOf([p \in Cached(T) \ gone |-> T.phys[p]],
                                      (T.ends \ gone) \cup Cut(T, gone),
                                      (T.is_ready \ gone) \cup Cut(T, gone), T.lock_cnt, leaf_nodes)
           G == rest(T.leaf_nodes)
           new == {e \in G.ends : is_leaf(G, e) /\ (e \in Cut(T, gone) \/ ~is_leaf(T, e))}
<1>1. U = rest(LeafTable(G, lost, new))
  BY DEF Without, Cut
<1>2. G.phys = [p \in Cached(T) \ gone |-> T.phys[p]] /\ G.ends = (T.ends \ gone) \cup Cut(T, gone)
      /\ G.leaf_nodes = T.leaf_nodes
  BY DEF TreeOf
<1>3. U.phys = [p \in Cached(T) \ gone |-> T.phys[p]] /\ U.ends = (T.ends \ gone) \cup Cut(T, gone)
      /\ U.leaf_nodes = LeafTable(G, lost, new)
  BY <1>1 DEF TreeOf
<1> HIDE DEF G, U
<1>4. Cached(G) = Cached(U) /\ G.ends = U.ends
  BY <1>2, <1>3 DEF Cached
<1>5. new = {e \in Leaves(U) : e \in Cut(T, gone) \/ ~is_leaf(T, e)}
  BY <1>4 DEF Leaves, is_leaf
<1> QED BY <1>2, <1>3, <1>4, <1>5 DEF U

(* What an insert below last takes out of the table, and what it puts in. *)
Outgoing(T, last) == IF last # Root /\ is_leaf(T, last) THEN {head_hash(T, last)} ELSE {}
Incoming(T, U, last, node) ==
  IF last # Root /\ is_leaf(T, last) /\ is_leaf(U, last) THEN {last, node} ELSE {node}

(* The table an insert makes. *)
LEMMA InsertTable ==
  ASSUME NEW T, NEW seq, NEW matched, NEW num, NEW blocks
  PROVE  LET U == insert(T, seq, matched, num, blocks)
             last == NodeOf(T, HashAt(seq, matched))
             node == HashAt(seq, num) IN
         \E G : /\ G.ends = U.ends /\ G.leaf_nodes = T.leaf_nodes
                /\ U.leaf_nodes = LeafTable(G, Outgoing(T, last), Incoming(T, U, last, node))
<1> DEFINE U == insert(T, seq, matched, num, blocks)
           last == NodeOf(T, HashAt(seq, matched))
           node == HashAt(seq, num)
           front == Front(seq, matched)
           grown(leaf_nodes) ==
             TreeOf(Grown(T, blocks), T.ends \cup front \cup {node},
                    T.is_ready \cup (IF last \in T.is_ready THEN front ELSE {}),
                    T.lock_cnt, leaf_nodes)
           G == grown(T.leaf_nodes)
<1>1. U = grown(LeavesAfterInsert(T, G, last, node))
  BY DEF insert, Grown, Front
<1>2. G.phys = Grown(T, blocks) /\ G.ends = T.ends \cup front \cup {node} /\ G.leaf_nodes = T.leaf_nodes
  BY DEF TreeOf
<1>3. U.phys = Grown(T, blocks) /\ U.ends = T.ends \cup front \cup {node}
      /\ U.leaf_nodes = LeavesAfterInsert(T, G, last, node)
  BY <1>1 DEF TreeOf
<1> HIDE DEF G, U, last, node, front
<1>4. Cached(G) = Cached(U) /\ G.ends = U.ends
  BY <1>2, <1>3 DEF Cached
<1>5. is_leaf(G, last) <=> is_leaf(U, last)
  BY <1>4 DEF is_leaf
<1>6. LeavesAfterInsert(T, G, last, node)
        = LeafTable(G, Outgoing(T, last), Incoming(T, U, last, node))
  <2>1. Outgoing(T, last)
          = IF last # Root /\ is_leaf(T, last) THEN {head_hash(T, last)} ELSE {}
    BY DEF Outgoing
  <2>2. Incoming(T, U, last, node)
          = IF (last # Root /\ is_leaf(T, last)) /\ is_leaf(G, last) THEN {last, node} ELSE {node}
    BY <1>5 DEF Incoming
  <2> QED BY <2>1, <2>2 DEF LeavesAfterInsert
<1> QED BY <1>2, <1>3, <1>4, <1>6 DEF U, last, node

(* The nodes that stay keep their heads. *)
LEMMA WithoutLeaves ==
  ASSUME NEW T, Shape(T), LeavesExact(T), NEW gone, UpClosed(T, gone)
  PROVE  LeavesExact(Without(T, gone))
<1> DEFINE U == Without(T, gone)
           lost == {head_hash(T, e) : e \in {f \in T.ends : Run(T, f) \subseteq gone}}
           new == {e \in Leaves(U) : e \in Cut(T, gone) \/ ~is_leaf(T, e)}
<1>1. PICK G : /\ G.ends = U.ends /\ G.leaf_nodes = T.leaf_nodes
               /\ U.leaf_nodes = LeafTable(G, lost, new)
  BY WithoutTable
<1>2. Cached(U) = Cached(T) \ gone /\ U.ends = (T.ends \ gone) \cup Cut(T, gone)
  BY WithoutFields
<1>3. Shape(U)
  BY WithoutShape
<1> HIDE DEF U
<1>4. /\ T.ends \subseteq Prefixes /\ Cached(T) \subseteq Prefixes /\ U.ends \subseteq Prefixes
      /\ T.ends \subseteq Cached(T) /\ Root \notin Cached(T) /\ TreeTyped(T) /\ TreeTyped(U)
      /\ Root \in Prefixes
  BY <1>3, EndsArePrefixes DEF Shape, TreeTyped, Prefixes
(* A cut is in the run of a node that went. *)
<1>5. ASSUME NEW c \in Cut(T, gone)
      PROVE  \E e \in T.ends \cap gone :
               /\ c = Longest(Run(T, e) \ gone) /\ c \in Run(T, e) \ gone
               /\ NodeOf(T, c) = e
  <2>1. PICK e \in {f \in T.ends \cap gone : ~(Run(T, f) \subseteq gone)} :
          c = Longest(Run(T, e) \ gone)
    BY DEF Cut
  <2>2. c \in Run(T, e) \ gone
    BY <2>1, LongestInRun
  <2> QED BY <2>1, <2>2, RunOf
(* A node whose parent stays, and that no cut is above, keeps its parent. *)
<1>6. ASSUME NEW e \in T.ends \ gone PROVE head_hash(U, e) = head_hash(T, e)
  <2> DEFINE f == Parent(T, e)
  <2>1. /\ f \in T.ends \cup {Root} /\ IsPrefix(f, e) /\ Len(f) < Len(e) /\ f \in Prefixes
        /\ e \in Prefixes /\ e # Root
        /\ \A g \in T.ends : IsPrefix(g, e) /\ g # e => Len(g) <= Len(f)
    BY <1>4, ParentOf
  <2> HIDE DEF f
  <2>2. f \in U.ends \cup {Root} /\ f # e
    <3>1. f \notin gone
      BY <1>4, <2>1 DEF UpClosed
    <3>2. f # e
      BY <2>1, LenOfPrefix
    <3> QED BY <1>2, <2>1, <3>1, <3>2
  <2>3. ASSUME NEW g \in U.ends, IsPrefix(g, e), g # e PROVE Len(g) <= Len(f)
    <3>1. CASE g \in T.ends
      BY <2>1, <2>3, <3>1
    <3>2. CASE g \in Cut(T, gone)
      <4>1. PICK d \in T.ends \cap gone : g \in Run(T, d) \ gone /\ NodeOf(T, g) = d
        BY <1>5, <3>2
      <4>2. g \in Cached(T)
        BY <4>1, RunOf
      <4>3. IsPrefix(d, e)
        BY <2>3, <4>1, <4>2, NodeIsAbove
      <4> QED BY <1>4, <4>1, <4>3 DEF UpClosed
    <3> QED BY <1>2, <3>1, <3>2
  <2>4. e \in U.ends
    BY <1>2
  <2>5. Parent(U, e) = f
    BY <1>4, <2>1, <2>2, <2>3, <2>4, ParentIs
  <2> QED BY <2>5 DEF head_hash, f
(* What is left of a leaf that was shrunk is a leaf with its head. *)
<1>7. ASSUME NEW e \in Leaves(T), e \in gone, ~(Run(T, e) \subseteq gone)
      PROVE  \E c \in Leaves(U) : head_hash(T, e) = head_hash(U, c)
  <2> DEFINE c == Longest(Run(T, e) \ gone)
             f == Parent(T, e)
  <2>1. e \in T.ends /\ is_leaf(T, e) /\ e \in Prefixes /\ e # Root /\ e \in Cached(T)
    BY <1>4 DEF Leaves
  <2>2. c \in Cut(T, gone)
    BY <1>7, <2>1 DEF Cut
  <2>3. c \in Run(T, e) \ gone /\ \A h \in Run(T, e) \ gone : Len(h) <= Len(c)
    BY <1>7, <2>1, LongestInRun
  <2>4. c \in Prefixes /\ c \in Cached(T) /\ c \in U.ends /\ NodeOf(T, c) = e
    BY <1>2, <1>4, <2>1, <2>2, <2>3, RunOf
  <2>5. IsPrefix(c, e) /\ Len(c) > Len(f)
    BY <2>1, <2>3, <2>4, RunOf
  <2>6. /\ f \in T.ends \cup {Root} /\ IsPrefix(f, e) /\ Len(f) < Len(e) /\ f \in Prefixes
        /\ Len(f) \in Nat
        /\ \A g \in T.ends : IsPrefix(g, e) /\ g # e => Len(g) <= Len(f)
    BY <1>4, <2>1, ParentOf
  <2>0. \A h \in Prefixes : IsPrefix(h, e) /\ Len(h) > Len(f) => h \in Run(T, e)
    BY <2>1, RunOf
  <2> HIDE DEF c, f
  <2>7. Len(c) \in Nat /\ Len(e) \in Nat
    BY <2>1, <2>4, LenOfPrefix
  <2>8. is_leaf(U, c)
    <3> SUFFICES ASSUME NEW q \in Cached(U), IsPrefix(c, q) PROVE q = c
      BY DEF is_leaf
    <3>1. q \in Cached(T) /\ q \notin gone /\ q \in Prefixes /\ Len(q) \in Nat
      BY <1>2, <1>4, LenOfPrefix
    <3> DEFINE g == NodeOf(T, q)
    <3>2. g \in T.ends /\ IsPrefix(q, g)
      BY <3>1, NodeOfCached
    <3> HIDE DEF g
    <3>3. IsPrefix(c, g)
      BY <1>4, <2>4, <3>1, <3>2, PrefixTrans
    <3>4. IsPrefix(e, g)
      BY <2>4, <3>2, <3>3, NodeIsAbove
    <3>5. g = e
      BY <1>4, <2>1, <3>2, <3>4 DEF is_leaf
    <3>6. Len(c) <= Len(q) /\ IsPrefix(q, e)
      BY <2>4, <3>1, <3>2, <3>5, PrefixOrder
    <3>7. q \in Run(T, e) \ gone
      BY <2>0, <2>5, <2>6, <2>7, <3>1, <3>6
    <3>8. Len(q) = Len(c)
      BY <2>3, <2>7, <3>1, <3>6, <3>7
    <3> QED BY <2>4, <3>1, <3>8, PrefixOrder
  <2>9. IsPrefix(f, c) /\ f # c
    BY <2>1, <2>4, <2>5, <2>6, <2>7, PrefixChain
  <2>10. f \in U.ends \cup {Root}
    <3>1. f \notin gone
      BY <2>3, <2>4, <2>9 DEF UpClosed
    <3> QED BY <1>2, <2>6, <3>1
  <2>11. ASSUME NEW g \in U.ends, IsPrefix(g, c), g # c PROVE Len(g) <= Len(f)
    <3>1. g \in Prefixes /\ IsPrefix(g, e) /\ Len(g) \in Nat
      BY <1>4, <2>1, <2>4, <2>5, <2>11, PrefixTrans, LenOfPrefix
    <3>2. CASE g \in T.ends
      <4>1. g # e
        <5>1. Len(g) <= Len(c) /\ Len(g) # Len(c) /\ Len(c) <= Len(e)
          BY <2>1, <2>4, <2>5, <2>11, <3>1, PrefixOrder
        <5> QED BY <2>7, <3>1, <5>1
      <4> QED BY <2>6, <3>1, <3>2, <4>1
    <3>3. CASE g \in Cut(T, gone)
      <4>1. PICK d \in T.ends \cap gone :
              g = Longest(Run(T, d) \ gone) /\ g \in Run(T, d) \ gone /\ NodeOf(T, g) = d
        BY <1>5, <3>3
      <4>2. g \in Cached(T)
        BY <4>1, RunOf
      <4>3. IsPrefix(d, e)
        BY <2>1, <3>1, <4>1, <4>2, NodeIsAbove
      <4>4. d # e
        BY <2>11, <4>1 DEF c
      <4>5. Len(d) <= Len(f) /\ d \in Prefixes /\ d # Root /\ Len(d) \in Nat
        BY <1>4, <2>6, <4>3, <4>4, LenOfPrefix
      <4>6. IsPrefix(d, f)
        BY <2>1, <2>6, <4>3, <4>5, PrefixChain
      <4>7. f # Root
        BY <2>6, <4>5, <4>6, PrefixOrder
      <4>8. f \in gone
        BY <1>4, <2>6, <4>6, <4>7 DEF UpClosed
      <4>9. f \notin gone
        BY <2>3, <2>4, <2>9 DEF UpClosed
      <4> QED BY <4>8, <4>9
    <3> QED BY <1>2, <3>2, <3>3
  <2>12. Parent(U, c) = f
    BY <1>4, <2>4, <2>9, <2>10, <2>11, ParentIs
  <2>13. HashAt(c, Len(f) + 1) = HashAt(e, Len(f) + 1)
    <3>1. HashAt(e, Len(c)) = c /\ Len(c) <= Len(e)
      BY <2>1, <2>4, <2>5, PrefixOrder
    <3>2. Len(c) \in 0 .. Len(e) /\ Len(f) + 1 \in 0 .. Len(c)
      BY <2>5, <2>6, <2>7, <3>1
    <3> DEFINE n == Len(c)
               k == Len(f) + 1
    <3> HIDE DEF n, k
    <3>3. HashAt(HashAt(e, n), k) = HashAt(e, k)
      BY <2>1, <3>2, PrefixOfPrefix DEF n, k
    <3> QED BY <3>1, <3>3 DEF n, k
  <2>14. head_hash(U, c) = head_hash(T, e)
    BY <2>12, <2>13 DEF head_hash, f
  <2> QED BY <2>4, <2>8, <2>14 DEF Leaves
<1>8. Retabled(T, U, lost, new)
  <2>1. new \subseteq Leaves(U)
    OBVIOUS
  <2>2. ASSUME NEW e \in Leaves(U) \ new
        PROVE  e \in Leaves(T) /\ head_hash(T, e) = head_hash(U, e) /\ head_hash(T, e) \notin lost
    <3>1. e \in T.ends \ gone /\ is_leaf(T, e)
      BY <1>2 DEF Leaves
    <3>2. head_hash(T, e) \notin lost
      <4> SUFFICES ASSUME NEW f \in T.ends, Run(T, f) \subseteq gone, head_hash(T, e) = head_hash(T, f)
                   PROVE  FALSE
        OBVIOUS
      <4>1. e = f
        BY <3>1, HeadsDiffer
      <4> QED BY <3>1, <4>1, RunOf
    <3> QED BY <1>6, <3>1, <3>2 DEF Leaves
  <2>3. ASSUME NEW e \in Leaves(T)
        PROVE  head_hash(T, e) \in lost \/ \E f \in Leaves(U) : head_hash(T, e) = head_hash(U, f)
    <3>1. e \in T.ends /\ is_leaf(T, e)
      BY DEF Leaves
    <3>2. CASE e \notin gone
      <4>1. e \in U.ends /\ is_leaf(U, e)
        BY <1>2, <3>1, <3>2 DEF is_leaf
      <4> QED BY <1>6, <3>1, <3>2, <4>1 DEF Leaves
    <3>3. CASE Run(T, e) \subseteq gone
      BY <3>1, <3>3
    <3>4. CASE e \in gone /\ ~(Run(T, e) \subseteq gone)
      BY <1>7, <3>4
    <3> QED BY <3>2, <3>3, <3>4
  <2> QED BY <2>1, <2>2, <2>3 DEF Retabled
<1> HIDE DEF lost, new
<1> QED BY <1>1, <1>3, <1>8, RetabledExact DEF U

(* An insert: the node it hangs on is a leaf no more or, split, has a new head. *)
LEMMA InsertLeaves ==
  ASSUME NEW T, Shape(T), LeavesExact(T), NEW seq, NEW matched, NEW num, NEW blocks,
         GoodTarget(T, seq, matched, num, blocks)
  PROVE  LeavesExact(insert(T, seq, matched, num, blocks))
<1> DEFINE U == insert(T, seq, matched, num, blocks)
           anchor == HashAt(seq, matched)
           first == HashAt(seq, matched + 1)
           last == NodeOf(T, anchor)
           node == HashAt(seq, num)
           S == Stretch(seq, matched, num)
           out == Outgoing(T, last)
           new == Incoming(T, U, last, node)
<1>1. PICK G : /\ G.ends = U.ends /\ G.leaf_nodes = T.leaf_nodes
               /\ U.leaf_nodes = LeafTable(G, out, new)
  BY InsertTable
<1>2. Shape(U)
  BY InsertShape
<1>3. DOMAIN blocks = S
  BY DEF GoodTarget
<1>4. Cached(U) = Cached(T) \cup S /\ U.ends = T.ends \cup Front(seq, matched) \cup {node}
  <2>1. Cached(U) = Cached(T) \cup DOMAIN blocks /\ U.ends = T.ends \cup Front(seq, matched) \cup {node}
    BY InsertFields
  <2> HIDE DEF U, S, node
  <2> QED BY <1>3, <2>1
<1>5. /\ seq \in Prefixes /\ Len(seq) \in Nat /\ matched \in Nat /\ num \in Nat
      /\ matched < num /\ num <= Len(seq)
      /\ matched \in 0 .. Len(seq) /\ num \in 0 .. Len(seq) /\ matched + 1 \in 0 .. Len(seq)
      /\ anchor \in Cached(T) \cup {Root} /\ first \notin Cached(T)
  BY LenOfPrefix DEF GoodTarget
<1>6. \A h \in Prefixes : h \in S <=> IsPrefix(h, seq) /\ Len(h) > matched /\ Len(h) <= num
  BY <1>5, StretchOf
<1>7. /\ node \in Prefixes /\ Len(node) = num /\ IsPrefix(node, seq)
      /\ anchor \in Prefixes /\ Len(anchor) = matched /\ IsPrefix(anchor, seq)
      /\ first \in Prefixes /\ Len(first) = matched + 1 /\ IsPrefix(first, seq)
  BY <1>5, PrefixOfPrefix, FrontIsPrefix
<1>8. S \subseteq Prefixes /\ node \in S
  BY <1>5, <1>6, <1>7, StretchOf DEF Prefixes
<1>9. /\ T.ends \subseteq Prefixes /\ Cached(T) \subseteq Prefixes /\ U.ends \subseteq Prefixes
      /\ T.ends \subseteq Cached(T) /\ Root \notin Cached(T) /\ TreeTyped(T) /\ TreeTyped(U)
      /\ Root \in Prefixes /\ Root \notin U.ends
  BY <1>2, EndsArePrefixes DEF Shape, TreeTyped, Prefixes
<1>10. last # Root => last \in T.ends /\ IsPrefix(anchor, last) /\ anchor # Root /\ anchor \in Cached(T)
  BY <1>5, NodeOfCached DEF NodeOf
<1>11. anchor # Root => last \in T.ends /\ last # Root
  BY <1>5, <1>9, NodeOfCached
<1> HIDE DEF U, S
(* Nothing of T is below what comes in. *)
<1>12. ASSUME NEW h \in Prefixes, IsPrefix(first, h), NEW q \in Cached(T), IsPrefix(h, q) PROVE FALSE
  <2>1. q \in Prefixes /\ Len(q) \in Nat
    BY <1>9, LenOfPrefix
  <2>2. IsPrefix(first, q)
    BY <1>7, <1>12, <2>1, PrefixTrans
  <2>3. HashAt(q, matched + 1) = first /\ matched + 1 <= Len(q)
    BY <1>7, <2>1, <2>2, PrefixOrder
  <2>4. matched + 1 \in 1 .. Len(q)
    BY <1>5, <2>1, <2>3
  <2> HIDE DEF first
  <2> QED BY <1>5, <2>3, <2>4 DEF Shape, Closed
<1>13. \A h \in S : IsPrefix(first, h)
  <2> SUFFICES ASSUME NEW h \in S PROVE IsPrefix(first, h)
    OBVIOUS
  <2>1. h \in Prefixes /\ IsPrefix(h, seq) /\ Len(h) > matched /\ Len(h) \in Nat
    BY <1>6, <1>8, LenOfPrefix
  <2>2. matched + 1 <= Len(h)
    BY <1>5, <2>1
  <2> HIDE DEF first
  <2> QED BY <1>5, <1>7, <2>1, <2>2, PrefixChain
<1>14. \A q \in Cached(T) : ~IsPrefix(node, q)
  BY <1>7, <1>8, <1>12, <1>13
<1> HIDE DEF anchor, first, node, last
(* The new node is a leaf. *)
<1>15. node \in Leaves(U)
  <2>1. ASSUME NEW q \in Cached(U), IsPrefix(node, q) PROVE q = node
    <3>1. q \in S
      BY <1>4, <1>14, <2>1
    <3>2. q \in Prefixes /\ Len(q) <= num /\ Len(q) \in Nat
      BY <1>6, <1>8, <3>1, LenOfPrefix
    <3>3. Len(node) <= Len(q)
      BY <1>7, <2>1, <3>2, PrefixOrder
    <3>4. Len(q) = Len(node)
      BY <1>5, <1>7, <3>2, <3>3
    <3> QED BY <1>7, <2>1, <3>2, <3>4, PrefixOrder
  <2> QED BY <1>4, <2>1 DEF Leaves, is_leaf
(* The nodes it does not hang on keep their heads. *)
<1>16. ASSUME NEW e \in T.ends, e # last PROVE head_hash(U, e) = head_hash(T, e)
  <2> DEFINE f == Parent(T, e)
  <2>1. /\ f \in T.ends \cup {Root} /\ IsPrefix(f, e) /\ Len(f) < Len(e) /\ f \in Prefixes
        /\ e \in Prefixes /\ e # Root /\ e \in Cached(T) /\ Len(f) \in Nat
        /\ \A g \in T.ends : IsPrefix(g, e) /\ g # e => Len(g) <= Len(f)
    BY <1>9, ParentOf
  <2> HIDE DEF f
  <2>2. f \in U.ends \cup {Root} /\ f # e /\ e \in U.ends
    <3>1. f # e
      BY <2>1, LenOfPrefix
    <3> QED BY <1>4, <2>1, <3>1
  <2>3. ASSUME NEW g \in U.ends, IsPrefix(g, e), g # e PROVE Len(g) <= Len(f)
    <3>1. CASE g \in T.ends
      BY <2>1, <2>3, <3>1
    <3>2. CASE g = node
      BY <1>14, <2>1, <2>3, <3>2
    <3>3. CASE g \in Front(seq, matched)
      <4>1. g = anchor /\ anchor # Root
        BY <3>3 DEF Front, anchor
      <4>2. last \in T.ends /\ IsPrefix(anchor, last) /\ anchor \in Cached(T)
        BY <1>10, <1>11, <4>1
      <4>3. IsPrefix(last, e)
        BY <2>3, <4>1, <4>2, NodeIsAbove DEF last
      <4>4. Len(last) <= Len(f)
        BY <1>16, <2>1, <4>2, <4>3
      <4>5. Len(anchor) <= Len(last) /\ Len(anchor) \in Nat /\ Len(last) \in Nat
        BY <1>7, <1>9, <4>2, PrefixOrder, LenOfPrefix
      <4> QED BY <2>1, <4>1, <4>4, <4>5
    <3> QED BY <1>4, <3>1, <3>2, <3>3
  <2>4. Parent(U, e) = f
    BY <1>9, <2>1, <2>2, <2>3, ParentIs
  <2> QED BY <2>4 DEF head_hash, f
(* The node it hangs on, front half or whole, is no leaf. *)
<1>17. ASSUME NEW e \in Leaves(U), e # node PROVE e \in Leaves(T)
  <2>1. e \in U.ends /\ is_leaf(U, e)
    BY DEF Leaves
  <2>2. e # anchor
    <3> SUFFICES ASSUME e = anchor PROVE FALSE
      OBVIOUS
    <3>1. IsPrefix(anchor, node)
      BY <1>5, <1>7, PrefixChain
    <3> QED BY <1>4, <1>8, <1>17, <2>1, <3>1 DEF is_leaf
  <2>3. e \in T.ends
    BY <1>4, <1>17, <2>1, <2>2 DEF Front, anchor
  <2> QED BY <1>4, <2>1, <2>3 DEF Leaves, is_leaf
<1>18. ASSUME NEW e \in Leaves(T), e # last PROVE e \in Leaves(U)
  <2>1. e \in T.ends /\ is_leaf(T, e) /\ e \in Prefixes /\ e \in Cached(T) /\ Len(e) \in Nat /\ e # Root
    BY <1>9, LenOfPrefix DEF Leaves
  <2>2. ASSUME NEW q \in S, IsPrefix(e, q) PROVE FALSE
    <3>1. q \in Prefixes /\ IsPrefix(q, seq)
      BY <1>6, <1>8
    <3>2. IsPrefix(e, seq)
      BY <1>5, <2>1, <2>2, <3>1, PrefixTrans
    <3>3. Len(e) <= matched
      <4> SUFFICES ASSUME Len(e) > matched PROVE FALSE
        BY <1>5, <2>1
      <4>1. Len(first) <= Len(e)
        BY <1>5, <1>7, <2>1
      <4>2. IsPrefix(first, e) /\ IsPrefix(e, e)
        BY <1>5, <1>7, <2>1, <3>2, <4>1, PrefixChain, PrefixOrder
      <4> QED BY <1>12, <2>1, <4>2
    <3>4. IsPrefix(e, anchor)
      BY <1>5, <1>7, <2>1, <3>2, <3>3, PrefixChain
    <3>5. anchor # Root
      BY <1>7, <2>1, <3>4, PrefixOrder
    <3>6. anchor = e
      BY <1>10, <1>11, <2>1, <3>4, <3>5 DEF is_leaf
    <3>7. e \in Run(T, e)
      BY <2>1, RunOf
    <3>8. NodeOf(T, e) = e
      BY <2>1, <3>7, RunOf
    <3> QED BY <1>18, <3>6, <3>8 DEF last
  <2> QED BY <1>4, <2>1, <2>2 DEF Leaves, is_leaf
<1>19. Retabled(T, U, out, new)
  <2>1. new \subseteq Leaves(U)
    <3>1. last # Root /\ is_leaf(U, last) => last \in Leaves(U)
      BY <1>4, <1>10 DEF Leaves
    <3> QED BY <1>15, <3>1 DEF Incoming
  <2>2. ASSUME NEW e \in Leaves(U) \ new
        PROVE  e \in Leaves(T) /\ head_hash(T, e) = head_hash(U, e) /\ head_hash(T, e) \notin out
    <3>1. e # node
      BY DEF Incoming
    <3>2. e \in Leaves(T) /\ e \in T.ends /\ is_leaf(T, e) /\ is_leaf(U, e) /\ e # Root
      BY <1>9, <1>17, <3>1 DEF Leaves
    <3>3. e # last
      <4> SUFFICES ASSUME e = last PROVE FALSE
        OBVIOUS
      <4>1. last # Root /\ is_leaf(T, last) /\ is_leaf(U, last)
        BY <3>2
      <4> QED BY <4>1 DEF Incoming
    <3>4. head_hash(T, e) \notin out
      BY <1>10, <3>2, <3>3, HeadsDiffer DEF Outgoing
    <3> QED BY <1>16, <3>2, <3>3, <3>4
  <2>3. ASSUME NEW e \in Leaves(T)
        PROVE  head_hash(T, e) \in out \/ \E f \in Leaves(U) : head_hash(T, e) = head_hash(U, f)
    <3>1. e \in T.ends /\ is_leaf(T, e) /\ e # Root
      BY <1>9 DEF Leaves
    <3>2. CASE e = last
      BY <3>1, <3>2 DEF Outgoing
    <3>3. CASE e # last
      BY <1>16, <1>18, <3>1, <3>3
    <3> QED BY <3>2, <3>3
  <2> QED BY <2>1, <2>2, <2>3 DEF Retabled
<1> HIDE DEF out, new
<1> QED BY <1>1, <1>2, <1>19, RetabledExact DEF U

-----------------------------------------------------------------------------
(* Blocks out of a pool. *)

Below(S, b) == {c \in S : c < b}

(* A pool is finite. *)
LEMMA PoolFinite ==
  ASSUME NEW N \in Nat, NEW S \in SUBSET (1 .. N)
  PROVE  IsFiniteSet(S) /\ Cardinality(S) \in Nat
<1>1. IsFiniteSet(1 .. N) BY FS_Interval
<1>2. IsFiniteSet(S) BY <1>1, FS_Subset
<1> QED BY <1>2, FS_CardinalityType

(* Every rank below the size of a pool is that of one of its blocks, *)
LEMMA RankExists ==
  ASSUME NEW N \in Nat, NEW S \in SUBSET (1 .. N), NEW k \in Nat, k < Cardinality(S)
  PROVE  \E b \in S : Cardinality(Below(S, b)) = k
<1>1. S \in SUBSET Nat /\ \A x \in S : x <= N
  OBVIOUS
<1>2. IsFiniteSet(S)
  BY PoolFinite
<1>3. Cardinality(S) \in Nat /\ S # {}
  BY <1>2, FS_CardinalityType, FS_EmptySet
<1>4. \A b \in S : Below(S, b) \in SUBSET S /\ IsFiniteSet(Below(S, b))
                   /\ Cardinality(Below(S, b)) \in Nat
  BY <1>2, FS_Subset, FS_CardinalityType DEF Below
<1>5. PICK M \in S : \A y \in S : y <= M
  BY <1>1, <1>3, GreatestNat
<1>6. Cardinality(Below(S, M)) = Cardinality(S) - 1
  <2>0. \A y \in S : y < M <=> y # M
    BY <1>1, <1>5
  <2>1. Below(S, M) = S \ {M}
    BY <2>0 DEF Below
  <2> QED BY <1>2, <2>1, FS_RemoveElement
<1> DEFINE G == {b \in S : Cardinality(Below(S, b)) >= k}
<1>7. M \in G
  BY <1>3, <1>6
<1>8. G \in SUBSET Nat /\ G # {}
  BY <1>1, <1>7
<1>9. PICK b \in G : \A y \in G : b <= y
  BY <1>8, LeastNat
<1>10. b \in S /\ Cardinality(Below(S, b)) >= k /\ Cardinality(Below(S, b)) \in Nat
  BY <1>4
<1>11. CASE Below(S, b) = {}
  BY <1>10, <1>11, FS_EmptySet
<1>12. CASE Below(S, b) # {}
  <2>1. Below(S, b) \in SUBSET Nat /\ \A x \in Below(S, b) : x <= N
    BY <1>1 DEF Below
  <2>2. PICK m \in Below(S, b) : \A y \in Below(S, b) : y <= m
    BY <1>12, <2>1, GreatestNat
  <2>3. m \in S /\ m < b /\ m \in Nat /\ b \in Nat
    BY <1>1, <1>10, <2>2 DEF Below
  <2>0. \A y \in S : y < m <=> (y < b /\ y # m)
    <3>1. \A y \in S : y < b => y <= m
      BY <2>2 DEF Below
    <3>2. \A y \in S : y \in Nat
      BY <1>1
    <3> QED BY <2>3, <3>1, <3>2
  <2>4. Below(S, m) = Below(S, b) \ {m}
    BY <2>0 DEF Below
  <2>8. IsFiniteSet(Below(S, b))
    BY <1>4, <1>10
  <2>5. Cardinality(Below(S, m)) = Cardinality(Below(S, b)) - 1
    BY <2>2, <2>4, <2>8, FS_RemoveElement
  <2>6. m \notin G
    BY <1>9, <2>3
  <2>7. Cardinality(Below(S, m)) < k /\ Cardinality(Below(S, m)) \in Nat
    BY <1>4, <2>3, <2>6
  <2> QED BY <1>10, <2>5, <2>7
<1> QED BY <1>11, <1>12

(* the one that Nth chooses. *)
LEMMA NthOf ==
  ASSUME NEW N \in Nat, NEW S \in SUBSET (1 .. N), NEW n \in Nat, n >= 1, n <= Cardinality(S)
  PROVE  Nth(S, n) \in S /\ Cardinality(Below(S, Nth(S, n))) = n - 1
<1>1. IsFiniteSet(S) /\ Cardinality(S) \in Nat
  BY PoolFinite
<1>2. n - 1 \in Nat /\ n - 1 < Cardinality(S)
  BY <1>1
<1>3. \E b \in S : Cardinality(Below(S, b)) = n - 1
  BY <1>2, RankExists
<1>4. \E b \in S : Cardinality({c \in S : c < b}) = n - 1
  BY <1>3 DEF Below
<1>5. Nth(S, n) \in S /\ Cardinality({c \in S : c < Nth(S, n)}) = n - 1
  BY <1>4, Zenon DEF Nth
<1> QED BY <1>5 DEF Below

Injective(f) == \A g, h \in DOMAIN f : f[g] = f[h] => g = h

(* Allocate hands out different blocks of the pool, if it has enough. *)
LEMMA AllocateOf ==
  ASSUME NEW N \in Nat, NEW pool \in SUBSET (1 .. N), NEW seq \in Prefixes,
         NEW from \in Nat, NEW to \in Nat, to <= Len(seq), to - from <= Cardinality(pool)
  PROVE  LET new == Allocate(pool, seq, from, to) IN
         /\ DOMAIN new = Stretch(seq, from, to)
         /\ new \in [Stretch(seq, from, to) -> pool]
         /\ BlocksOf(new) \subseteq pool
         /\ Injective(new)
<1> DEFINE S == Stretch(seq, from, to)
           new == Allocate(pool, seq, from, to)
<1>1. new = [h \in S |-> Nth(pool, Len(h) - from)]
  BY DEF Allocate, Stretch
<1>2. \A h \in S : h \in Prefixes /\ IsPrefix(h, seq) /\ Len(h) > from /\ Len(h) <= to /\ Len(h) \in Nat
  BY StretchOf, LenOfPrefix DEF Prefixes
<1> HIDE DEF S, new
<1>3. IsFiniteSet(pool) /\ Cardinality(pool) \in Nat
  BY PoolFinite
<1>4. ASSUME NEW h \in S
      PROVE  new[h] \in pool /\ Cardinality(Below(pool, new[h])) = Len(h) - from - 1
  <2>1. /\ Len(h) - from \in Nat /\ Len(h) - from >= 1 /\ Len(h) - from <= Cardinality(pool)
    BY <1>2, <1>3
  <2>2. new[h] = Nth(pool, Len(h) - from)
    BY <1>1
  <2> QED BY <2>1, <2>2, NthOf
<1>5. DOMAIN new = S
  BY <1>1
<1>6. Injective(new)
  <2> SUFFICES ASSUME NEW g \in S, NEW h \in S, new[g] = new[h] PROVE g = h
    BY <1>5 DEF Injective
  <2>1. Len(g) - from - 1 = Len(h) - from - 1
    BY <1>4
  <2>2. Len(g) = Len(h) /\ g \in Prefixes /\ h \in Prefixes /\ IsPrefix(g, seq) /\ IsPrefix(h, seq)
        /\ Len(g) <= Len(h)
    BY <1>2, <2>1
  <2>3. IsPrefix(g, h)
    BY <2>2, PrefixChain
  <2> QED BY <2>2, <2>3, PrefixOrder
<1>7. new \in [S -> pool]
  BY <1>1, <1>4
<1>8. BlocksOf(new) \subseteq pool
  BY <1>4, <1>5 DEF BlocksOf
<1> QED BY <1>5, <1>6, <1>7, <1>8 DEF S, new

-----------------------------------------------------------------------------
(* A tier: a tree and a pool of free blocks. *)

Tier(T, F, B) ==
  /\ Shape(T) /\ LeavesExact(T)
  /\ T.phys \in [Cached(T) -> B] /\ Injective(T.phys)
  /\ F \subseteq B /\ F \cap BlocksOf(T.phys) = {}

(* What planning does to a tier: locks stay, a node above a locked node stays,
   and the blocks are where they were, given back, or staged. *)
Evolves(T, F, U, G, staged) ==
  /\ U.lock_cnt = T.lock_cnt
  /\ \A e, l \in T.ends : IsPrefix(e, l) /\ T.lock_cnt[l] > 0 => e \in U.ends
  /\ G \cup BlocksOf(U.phys) \cup staged = F \cup BlocksOf(T.phys)
  /\ staged \cap (G \cup BlocksOf(U.phys)) = {}

(* Two steps of planning, of which the second may stage blocks. *)
LEMMA EvolvesOn ==
  ASSUME NEW T, NEW F, NEW U, NEW G, NEW V, NEW H, NEW staged,
         Shape(T), Evolves(T, F, U, G, {}), Evolves(U, G, V, H, staged)
  PROVE  Evolves(T, F, V, H, staged)
<1>1. ASSUME NEW e \in T.ends, NEW l \in T.ends, IsPrefix(e, l), T.lock_cnt[l] > 0
      PROVE  e \in V.ends
  <2>1. IsPrefix(l, l)
    BY EndsArePrefixes, PrefixOrder DEF Shape
  <2>2. e \in U.ends /\ l \in U.ends /\ U.lock_cnt[l] > 0
    BY <1>1, <2>1 DEF Evolves
  <2> QED BY <1>1, <2>2 DEF Evolves
<1>2. V.lock_cnt = T.lock_cnt
  BY DEF Evolves
<1>3. H \cup BlocksOf(V.phys) \cup staged = F \cup BlocksOf(T.phys)
  BY DEF Evolves
<1>4. staged \cap (H \cup BlocksOf(V.phys)) = {}
  BY DEF Evolves
<1> QED BY <1>1, <1>2, <1>3, <1>4 DEF Evolves

(* Nothing was done. *)
LEMMA EvolvesNot ==
  ASSUME NEW T, NEW F PROVE Evolves(T, F, T, F, {})
BY DEF Evolves

(* Blocks are set aside for a plan. *)
LEMMA StageTier ==
  ASSUME NEW T, NEW F, NEW B, Tier(T, F, B), NEW S \in SUBSET F
  PROVE  Tier(T, F \ S, B) /\ Evolves(T, F, T, F \ S, S)
<1>1. F \cap BlocksOf(T.phys) = {} /\ F \subseteq B
  BY DEF Tier
<1>2. Tier(T, F \ S, B)
  BY <1>1 DEF Tier
<1> QED BY <1>1, <1>2 DEF Evolves

(* What a take may evict with a node protected. *)
Spares(T, gone, prot) ==
  /\ UpClosed(T, gone)
  /\ \A p \in gone : \A e \in T.ends : IsPrefix(p, e) => T.lock_cnt[e] = 0 /\ e # prot

(* Eviction gives the blocks back, and the protected node stays with all above it. *)
LEMMA EvictTier ==
  ASSUME NEW T, NEW F, NEW B, Tier(T, F, B), NEW gone, NEW prot, Spares(T, gone, prot)
  PROVE  LET U == Without(T, gone)
             G == F \cup {T.phys[h] : h \in gone} IN
         /\ Tier(U, G, B) /\ Evolves(T, F, U, G, {})
         /\ prot \in T.ends =>
              /\ \A e \in T.ends : IsPrefix(e, prot) => e \in U.ends
              /\ \A h \in Cached(T) : IsPrefix(h, prot) => h \in Cached(U)
         /\ Cached(U) \subseteq Cached(T)
<1> DEFINE U == Without(T, gone)
           G == F \cup {T.phys[h] : h \in gone}
<1>1. /\ U.phys = Kept(T, gone)
      /\ Cached(U) = Cached(T) \ gone
      /\ U.ends = (T.ends \ gone) \cup Cut(T, gone)
      /\ U.lock_cnt = T.lock_cnt
  BY WithoutFields
<1>2. Shape(T) /\ LeavesExact(T) /\ T.phys \in [Cached(T) -> B] /\ Injective(T.phys) /\ F \subseteq B
      /\ F \cap BlocksOf(T.phys) = {} /\ DOMAIN T.phys = Cached(T) /\ gone \subseteq Cached(T)
  BY DEF Tier, Spares, UpClosed, Cached
<1>3. Shape(U) /\ LeavesExact(U)
  BY <1>2, WithoutShape, WithoutLeaves DEF Spares
<1> HIDE DEF U
<1>4. U.phys \in [Cached(U) -> B] /\ DOMAIN U.phys = Cached(T) \ gone
      /\ \A h \in Cached(T) \ gone : U.phys[h] = T.phys[h]
  BY <1>1, <1>2 DEF Kept
<1>5. Injective(U.phys)
  BY <1>1, <1>2, <1>4 DEF Injective
<1>6. G \subseteq B
  BY <1>2
<1>7. G \cap BlocksOf(U.phys) = {}
  <2>1. ASSUME NEW h \in Cached(T) \ gone PROVE U.phys[h] \notin G
    <3>1. U.phys[h] = T.phys[h] /\ T.phys[h] \in BlocksOf(T.phys)
      BY <1>2, <1>4 DEF BlocksOf
    <3>2. \A g \in gone : T.phys[g] # T.phys[h]
      BY <1>2 DEF Injective
    <3> QED BY <1>2, <3>1, <3>2
  <2> QED BY <1>4, <2>1 DEF BlocksOf
<1>8. G \cup BlocksOf(U.phys) = F \cup BlocksOf(T.phys)
  BY <1>2, <1>4 DEF BlocksOf
<1>9. Tier(U, G, B)
  BY <1>3, <1>4, <1>5, <1>6, <1>7 DEF Tier
<1>10. ASSUME NEW e \in T.ends, NEW l \in T.ends, IsPrefix(e, l), T.lock_cnt[l] > 0
       PROVE  e \in U.ends
  BY <1>1, <1>10 DEF Spares
<1>11. Evolves(T, F, U, G, {})
  BY <1>1, <1>8, <1>10 DEF Evolves
<1>12. ASSUME prot \in T.ends
       PROVE  /\ \A e \in T.ends : IsPrefix(e, prot) => e \in U.ends
              /\ \A h \in Cached(T) : IsPrefix(h, prot) => h \in Cached(U)
  BY <1>1, <1>12 DEF Spares
<1> QED BY <1>1, <1>9, <1>11, <1>12 DEF U

(* An insert of blocks that were free. *)
LEMMA InsertTier ==
  ASSUME NEW T, NEW F, NEW B, Tier(T, F, B), NEW seq, NEW matched, NEW num, NEW blocks,
         GoodTarget(T, seq, matched, num, blocks),
         blocks \in [DOMAIN blocks -> F], Injective(blocks)
  PROVE  LET U == insert(T, seq, matched, num, blocks)
             G == F \ BlocksOf(blocks) IN
         /\ Tier(U, G, B) /\ Evolves(T, F, U, G, {})
         /\ T.ends \subseteq U.ends /\ HashAt(seq, num) \in U.ends
<1> DEFINE U == insert(T, seq, matched, num, blocks)
           G == F \ BlocksOf(blocks)
<1>1. /\ U.phys = Grown(T, blocks)
      /\ Cached(U) = Cached(T) \cup DOMAIN blocks
      /\ U.ends = T.ends \cup Front(seq, matched) \cup {HashAt(seq, num)}
      /\ U.lock_cnt = T.lock_cnt
  BY InsertFields
<1>2. Shape(T) /\ LeavesExact(T) /\ T.phys \in [Cached(T) -> B] /\ Injective(T.phys) /\ F \subseteq B
      /\ F \cap BlocksOf(T.phys) = {} /\ DOMAIN T.phys = Cached(T)
  BY DEF Tier, Cached
<1>3. Shape(U) /\ LeavesExact(U)
  BY <1>2, InsertShape, InsertLeaves
<1>4. Cached(T) \cap DOMAIN blocks = {}
  <2> SUFFICES ASSUME NEW h \in Cached(T), h \in DOMAIN blocks PROVE FALSE
    OBVIOUS
  <2>1. /\ seq \in Prefixes /\ Len(seq) \in Nat /\ matched \in Nat /\ num \in Nat
        /\ matched < num /\ num <= Len(seq) /\ matched + 1 \in 0 .. Len(seq)
        /\ HashAt(seq, matched + 1) \notin Cached(T)
        /\ DOMAIN blocks = Stretch(seq, matched, num)
    BY LenOfPrefix DEF GoodTarget
  <2>2. h \in Prefixes /\ IsPrefix(h, seq) /\ Len(h) > matched /\ Len(h) \in Nat
    BY <1>2, <2>1, StretchOf, LenOfPrefix, EndsArePrefixes DEF Shape
  <2>3. Len(h) \in 0 .. Len(seq) /\ HashAt(seq, Len(h)) = h
    BY <2>1, <2>2, PrefixOrder
  <2>4. matched + 1 \in 1 .. Len(h) /\ matched + 1 \in 0 .. Len(h)
    BY <2>1, <2>2
  <2>5. HashAt(h, matched + 1) = HashAt(seq, matched + 1)
    BY <2>1, <2>3, <2>4, PrefixOfPrefix
  <2> QED BY <1>2, <2>1, <2>4, <2>5 DEF Shape, Closed
<1> HIDE DEF U
<1>5. /\ DOMAIN U.phys = Cached(T) \cup DOMAIN blocks
      /\ \A h \in Cached(T) : U.phys[h] = T.phys[h]
      /\ \A h \in DOMAIN blocks : U.phys[h] = blocks[h]
  BY <1>1, <1>4 DEF Grown
<1>6. /\ \A h \in Cached(T) : T.phys[h] \in B /\ T.phys[h] \notin F
      /\ \A h \in DOMAIN blocks : blocks[h] \in F
  BY <1>2 DEF BlocksOf
<1>7. U.phys \in [Cached(U) -> B]
  <2>1. U.phys = [h \in Cached(U) |-> U.phys[h]]
    BY <1>1, <1>5 DEF Grown
  <2>2. \A h \in Cached(U) : U.phys[h] \in B
    BY <1>1, <1>2, <1>5, <1>6
  <2> QED BY <2>1, <2>2
<1>8. Injective(U.phys)
  BY <1>2, <1>5, <1>6 DEF Injective
<1>9. BlocksOf(U.phys) = BlocksOf(T.phys) \cup BlocksOf(blocks)
  BY <1>2, <1>5 DEF BlocksOf
<1>10. BlocksOf(blocks) \subseteq F
  BY <1>6 DEF BlocksOf
<1>11. Tier(U, G, B)
  <2>1. G \subseteq B /\ G \cap BlocksOf(U.phys) = {}
    BY <1>2, <1>9, <1>10
  <2> QED BY <1>3, <1>7, <1>8, <2>1 DEF Tier
<1>12. Evolves(T, F, U, G, {})
  <2>1. G \cup BlocksOf(U.phys) \cup {} = F \cup BlocksOf(T.phys)
    BY <1>9, <1>10
  <2> QED BY <1>1, <2>1 DEF Evolves
<1> QED BY <1>1, <1>11, <1>12 DEF U

-----------------------------------------------------------------------------
(* The invariant. *)

(* What a plan keeps out of pool and tree of tier t. *)
Awaited(P, t) == UNION {BlocksOf(d.blocks) : d \in {e \in P.deferred : e.tier = t}}
StagedOf(P, t) == Awaited(P, t) \cup IF t = "CPU" THEN P.buffer ELSE {}

(* A node a plan holds: it is in the tree, and so is the node the stretch it
   was planned for begins at. *)
HeldIn(n, T) ==
  /\ n.node \in T.ends \cup {Root}
  /\ n.len \in 0 .. Len(n.node)
  /\ HashAt(n.node, Len(n.node) - n.len) \in T.ends \cup {Root}

NodesOK(nodes, trees) ==
  /\ \A n \in nodes : n.tier \in Tiers /\ HeldIn(n, trees[n.tier])
  /\ \A n, o \in nodes : n.tier = o.tier => n = o

DeferredOK(d, blocks) ==
  /\ d.tier \in Tiers /\ d.seq \in Prefixes
  /\ d.from \in Nat /\ d.remote \in Nat /\ d.to \in Nat
  /\ d.from <= d.remote /\ d.remote <= d.to /\ d.to <= Len(d.seq)
  /\ DOMAIN d.blocks = Stretch(d.seq, d.from, d.to)
  /\ d.blocks \in [DOMAIN d.blocks -> blocks[d.tier]] /\ Injective(d.blocks)

PlanOK(P, trees, blocks) ==
  /\ NodesOK(P.nodes, trees)
  /\ \A d \in P.deferred : DeferredOK(d, blocks)
  /\ \A d, e \in P.deferred : d.tier = e.tier => d = e
  /\ P.buffer = {} \/ P.deferred = {}

(* The account of a tier: its blocks are free, in the tree, or staged by one
   of the open plans O, and in one of these places. *)
AccountOf(T, F, B, O, P, t) ==
  /\ Tier(T, F, B)
  /\ \A p \in O : StagedOf(P[p], t) \cap (F \cup BlocksOf(T.phys)) = {}
  /\ \A p, q \in O : p # q => StagedOf(P[p], t) \cap StagedOf(P[q], t) = {}
  /\ F \cup BlocksOf(T.phys) \cup UNION {StagedOf(P[p], t) : p \in O} = B

Holders(O, P, t, e) == {p \in O : \E n \in P[p].nodes : n.tier = t /\ n.node = e}
LocksCounted(trees, O, P) ==
  \A t \in Tiers, e \in Prefixes : trees[t].lock_cnt[e] = Cardinality(Holders(O, P, t, e))

CacheTypes ==
  /\ conf \in Configs
  /\ DOMAIN tree = Tiers /\ DOMAIN free = Tiers
  /\ tree = [t \in Tiers |-> tree[t]] /\ free = [t \in Tiers |-> free[t]]
  /\ plan = [p \in Plans |-> plan[p]] /\ \A p \in Plans : plan[p].open \in BOOLEAN
  /\ conflict = FALSE

CacheInv ==
  /\ CacheTypes
  /\ \A t \in Tiers : AccountOf(tree[t], free[t], Blocks[t], Open, plan, t)
  /\ \A p \in Open : PlanOK(plan[p], tree, Blocks)
  /\ LocksCounted(tree, Open, plan)

(* The blocks of a tier are numbered from 1. *)
LEMMA BlocksOfTier ==
  ASSUME conf \in Configs, NEW t \in Tiers
  PROVE  conf.num_blocks[t] \in Nat /\ Blocks[t] = 1 .. conf.num_blocks[t]
BY CacheAssumption DEF Blocks

(* It holds at first. *)
LEMMA CacheInvInit == Init => CacheInv
<1> SUFFICES ASSUME Init PROVE CacheInv OBVIOUS
<1>1. Open = {}
  BY DEF Init, Open, None
<1>2. CacheTypes
  BY DEF Init, CacheTypes, Blocks, None
<1>3. ASSUME NEW t \in Tiers PROVE AccountOf(tree[t], free[t], Blocks[t], Open, plan, t)
  <2>1. tree[t] = EmptyTree /\ free[t] = Blocks[t]
    BY DEF Init
  <2>2. BlocksOf(EmptyTree.phys) = {}
    BY EmptyShape DEF BlocksOf
  <2>3. Tier(EmptyTree, Blocks[t], Blocks[t])
    <3>1. EmptyTree.phys \in [Cached(EmptyTree) -> Blocks[t]] /\ Injective(EmptyTree.phys)
      BY EmptyShape DEF Injective
    <3> QED BY <2>2, <3>1, EmptyShape, EmptyLeaves DEF Tier
  <2> QED BY <1>1, <2>1, <2>2, <2>3 DEF AccountOf
<1>4. LocksCounted(tree, Open, plan)
  <2> SUFFICES ASSUME NEW t \in Tiers, NEW e \in Prefixes
               PROVE  tree[t].lock_cnt[e] = Cardinality(Holders(Open, plan, t, e))
    BY DEF LocksCounted
  <2>1. Holders(Open, plan, t, e) = {}
    BY <1>1 DEF Holders
  <2>2. tree[t].lock_cnt[e] = 0
    BY DEF Init, EmptyTree, TreeOf, Prefixes
  <2> QED BY <2>1, <2>2, FS_EmptySet
<1> QED BY <1>1, <1>2, <1>3, <1>4 DEF CacheInv

(* A held node has a lock, so it stays. *)
LEMMA HeldIsLocked ==
  ASSUME CacheInv, NEW q \in Open, NEW n \in plan[q].nodes
  PROVE  n.tier \in Tiers /\ n.node \in Prefixes /\ tree[n.tier].lock_cnt[n.node] > 0
<1>1. n.tier \in Tiers /\ HeldIn(n, tree[n.tier])
  BY DEF CacheInv, PlanOK, NodesOK
<1>2. n.node \in Prefixes
  BY <1>1, EndsArePrefixes DEF CacheInv, AccountOf, Tier, Shape, HeldIn, Prefixes
<1> DEFINE H == Holders(Open, plan, n.tier, n.node)
<1>3. q \in H
  BY DEF Holders
<1>4. IsFiniteSet(H)
  BY CacheAssumption, FS_Subset DEF Holders, Open
<1>5. Cardinality(H) \in Nat /\ Cardinality(H) # 0
  BY <1>3, <1>4, FS_CardinalityType, FS_EmptySet
<1>6. tree[n.tier].lock_cnt[n.node] = Cardinality(H)
  BY <1>1, <1>2 DEF CacheInv, LocksCounted
<1> HIDE DEF H
<1> QED BY <1>1, <1>2, <1>5, <1>6

(* What stays of the node is what HeldIn asks for. *)
LEMMA HeldSurvives ==
  ASSUME NEW T, TreeTyped(T), NEW U, NEW n, HeldIn(n, T), T.lock_cnt[n.node] > 0,
         \A e, l \in T.ends : IsPrefix(e, l) /\ T.lock_cnt[l] > 0 => e \in U.ends
  PROVE  HeldIn(n, U)
<1>1. CASE n.node = Root
  <2>1. Len(n.node) = 0 /\ n.len = 0
    BY <1>1, LenOfPrefix DEF HeldIn, Prefixes
  <2>2. HashAt(n.node, Len(n.node) - n.len) = Root
    BY <1>1, <2>1, WholePrefix DEF Prefixes
  <2> QED BY <1>1, <2>1, <2>2 DEF HeldIn
<1>2. CASE n.node # Root
  <2> DEFINE k == Len(n.node) - n.len
             b == HashAt(n.node, k)
  <2>1. n.node \in T.ends /\ n.len \in 0 .. Len(n.node) /\ b \in T.ends \cup {Root}
    BY <1>2 DEF HeldIn
  <2>2. n.node \in Prefixes /\ Len(n.node) \in Nat
    BY <2>1, EndsArePrefixes, LenOfPrefix
  <2>3. k \in 0 .. Len(n.node)
    BY <2>1, <2>2
  <2> HIDE DEF k
  <2>4. IsPrefix(b, n.node) /\ IsPrefix(n.node, n.node)
    BY <2>2, <2>3, FrontIsPrefix, PrefixOrder
  <2>5. n.node \in U.ends /\ b \in U.ends \cup {Root}
    BY <2>1, <2>4
  <2> QED BY <2>1, <2>5 DEF HeldIn, k
<1> QED BY <1>1, <1>2

-----------------------------------------------------------------------------
(* Plans. *)

(* What put and get make of the tiers before they lock the plan's nodes. *)
ResultOK(r) ==
  /\ r.trees = [t \in Tiers |-> r.trees[t]] /\ r.pools = [t \in Tiers |-> r.pools[t]]
  /\ r.stale = FALSE /\ r.plan.open \in BOOLEAN
  /\ \A t \in Tiers :
       /\ Tier(r.trees[t], r.pools[t], Blocks[t])
       /\ Evolves(tree[t], free[t], r.trees[t], r.pools[t],
                  IF r.plan.open THEN StagedOf(r.plan, t) ELSE {})
  /\ r.plan.open => PlanOK(r.plan, r.trees, Blocks)

(* A tree with the locks of a plan. *)
LEMMA LockAllOf ==
  ASSUME NEW T, NEW t \in Tiers, NEW nodes, NEW trees, NodesOK(nodes, trees)
  PROVE  LET U == LockAll(T, t, nodes) IN
         /\ U.phys = T.phys /\ U.ends = T.ends /\ U.is_ready = T.is_ready
         /\ U.leaf_nodes = T.leaf_nodes
         /\ (\A n \in nodes : n.tier # t) => U.lock_cnt = T.lock_cnt
         /\ \A n \in nodes : n.tier = t => U.lock_cnt = [T.lock_cnt EXCEPT ![n.node] = @ + 1]
<1> DEFINE U == LockAll(T, t, nodes)
<1>1. CASE \A n \in nodes : n.tier # t
  <2>1. U = T BY <1>1 DEF LockAll
  <2> QED BY <1>1, <2>1
<1>2. CASE \E n \in nodes : n.tier = t
  <2>1. PICK n \in nodes : n.tier = t BY <1>2
  <2>2. \A o \in nodes : o.tier = t => o = n BY <2>1 DEF NodesOK
  <2>3. (CHOOSE o \in nodes : o.tier = t) = n BY <2>1, <2>2
  <2>4. U = lock(T, n.node) BY <1>2, <2>3 DEF LockAll
  <2>5. /\ U.phys = T.phys /\ U.ends = T.ends /\ U.is_ready = T.is_ready
        /\ U.leaf_nodes = T.leaf_nodes
        /\ U.lock_cnt = [T.lock_cnt EXCEPT ![n.node] = @ + 1]
    BY <2>4 DEF lock, TreeOf
  <2> HIDE DEF U
  <2>6. \A o \in nodes : o.tier = t => U.lock_cnt = [T.lock_cnt EXCEPT ![o.node] = @ + 1]
    <3> SUFFICES ASSUME NEW o \in nodes, o.tier = t
                 PROVE  U.lock_cnt = [T.lock_cnt EXCEPT ![o.node] = @ + 1]
      OBVIOUS
    <3>1. o = n BY <2>2
    <3> QED BY <2>5, <3>1
  <2> QED BY <1>2, <2>5, <2>6 DEF U
<1> QED BY <1>1, <1>2

(* A tier with other locks and ready marks. *)
LEMMA SameTier ==
  ASSUME NEW T, NEW U, NEW F, NEW B, Tier(T, F, B), U.phys = T.phys, U.ends = T.ends,
         U.leaf_nodes = T.leaf_nodes,
         U.is_ready \subseteq U.ends, U.lock_cnt \in [Prefixes -> Nat]
  PROVE  Tier(U, F, B)
<1>1. Shape(U) /\ LeavesExact(U) BY SameShape, SameLeaves DEF Tier
<1>2. Cached(U) = Cached(T) BY DEF Cached
<1> QED BY <1>1, <1>2 DEF Tier

(* Adopting a plan whose result is good keeps the invariant: its nodes get their
   lock, its staged blocks an owner. *)
LEMMA AdoptKeeps ==
  ASSUME CacheInv, NEW p \in Plans, ~plan[p].open, NEW r, ResultOK(r), Adopt(p, r)
  PROVE  CacheInv'
<1>1. /\ free' = r.pools /\ plan' = [plan EXCEPT ![p] = r.plan]
      /\ conflict' = (conflict \/ r.stale) /\ conf' = conf
      /\ r.plan.open => tree' = [t \in Tiers |-> LockAll(r.trees[t], t, r.plan.nodes)]
      /\ ~r.plan.open => tree' = r.trees
  BY DEF Adopt
<1>2. /\ conf \in Configs /\ conflict = FALSE
      /\ plan = [q \in Plans |-> plan[q]] /\ \A q \in Plans : plan[q].open \in BOOLEAN
      /\ r.trees = [t \in Tiers |-> r.trees[t]] /\ r.pools = [t \in Tiers |-> r.pools[t]]
      /\ r.stale = FALSE /\ r.plan.open \in BOOLEAN
  BY DEF CacheInv, CacheTypes, ResultOK
<1>3. Blocks' = Blocks
  BY <1>1 DEF Blocks
<1>4. /\ plan'[p] = r.plan /\ \A q \in Plans : q # p => plan'[q] = plan[q]
      /\ plan' = [q \in Plans |-> plan'[q]]
  BY <1>1, <1>2
<1>5. p \notin Open /\ Open' = IF r.plan.open THEN Open \cup {p} ELSE Open
  BY <1>2, <1>4 DEF Open
<1>6. \A q \in Open : q \in Plans /\ q # p /\ plan'[q] = plan[q]
  BY <1>4, <1>5 DEF Open
<1>7. CacheTypes'
  <2>1. conflict' = FALSE
    BY <1>1, <1>2, Zenon
  <2> QED BY <1>1, <1>2, <1>4, <2>1 DEF CacheTypes
<1>8. ASSUME NEW t \in Tiers
      PROVE  /\ tree'[t].phys = r.trees[t].phys /\ tree'[t].ends = r.trees[t].ends
             /\ tree'[t].is_ready = r.trees[t].is_ready
             /\ tree'[t].leaf_nodes = r.trees[t].leaf_nodes
             /\ ~r.plan.open => tree'[t].lock_cnt = tree[t].lock_cnt
             /\ r.plan.open =>
                  /\ (\A n \in r.plan.nodes : n.tier # t) => tree'[t].lock_cnt = tree[t].lock_cnt
                  /\ \A n \in r.plan.nodes : n.tier = t =>
                       tree'[t].lock_cnt = [tree[t].lock_cnt EXCEPT ![n.node] = @ + 1]
  <2>1. r.trees[t].lock_cnt = tree[t].lock_cnt
    BY DEF ResultOK, Evolves
  <2>2. CASE r.plan.open
    <3>1. tree'[t] = LockAll(r.trees[t], t, r.plan.nodes)
      BY <1>1, <2>2
    <3>2. NodesOK(r.plan.nodes, r.trees)
      BY <2>2 DEF ResultOK, PlanOK
    <3> DEFINE R == r.trees[t]
               nodes == r.plan.nodes
               U == LockAll(R, t, nodes)
    <3>3. /\ U.phys = R.phys /\ U.ends = R.ends /\ U.is_ready = R.is_ready
          /\ U.leaf_nodes = R.leaf_nodes
          /\ (\A n \in nodes : n.tier # t) => U.lock_cnt = R.lock_cnt
          /\ \A n \in nodes : n.tier = t => U.lock_cnt = [R.lock_cnt EXCEPT ![n.node] = @ + 1]
      <4> HIDE DEF R
      <4> QED BY <3>2, LockAllOf
    <3>4. tree'[t] = U
      BY <3>1
    <3> HIDE DEF U
    <3> QED BY <2>1, <2>2, <3>3, <3>4
  <2>3. CASE ~r.plan.open
    BY <1>1, <2>1, <2>3
  <2> QED BY <2>2, <2>3
<1>9. ASSUME NEW t \in Tiers, NEW n \in r.plan.nodes, r.plan.open, n.tier = t
      PROVE  n.node \in Prefixes
  <2>1. HeldIn(n, r.trees[t]) /\ Tier(r.trees[t], r.pools[t], Blocks[t])
    BY <1>9 DEF ResultOK, PlanOK, NodesOK
  <2> QED BY <2>1, EndsArePrefixes DEF HeldIn, Tier, Shape, Prefixes
<1>10. ASSUME NEW t \in Tiers
       PROVE  tree[t].lock_cnt \in [Prefixes -> Nat] /\ tree'[t].lock_cnt \in [Prefixes -> Nat]
  <2>1. tree[t].lock_cnt \in [Prefixes -> Nat]
    BY DEF CacheInv, AccountOf, Tier, Shape, TreeTyped
  <2>2. CASE ~r.plan.open \/ \A n \in r.plan.nodes : n.tier # t
    BY <1>2, <1>8, <2>1, <2>2
  <2>3. CASE r.plan.open /\ \E n \in r.plan.nodes : n.tier = t
    <3>1. PICK n \in r.plan.nodes : n.tier = t
      BY <2>3
    <3>2. n.node \in Prefixes /\ tree'[t].lock_cnt = [tree[t].lock_cnt EXCEPT ![n.node] = @ + 1]
      BY <1>8, <1>9, <2>3, <3>1
    <3> QED BY <2>1, <3>2
  <2> QED BY <1>2, <2>1, <2>2, <2>3
<1>11. ASSUME NEW t \in Tiers
       PROVE  AccountOf(tree'[t], free'[t], Blocks'[t], Open', plan', t)
  <2>1. /\ Tier(r.trees[t], r.pools[t], Blocks[t])
        /\ Evolves(tree[t], free[t], r.trees[t], r.pools[t],
                   IF r.plan.open THEN StagedOf(r.plan, t) ELSE {})
    BY DEF ResultOK
  <2>2. AccountOf(tree[t], free[t], Blocks[t], Open, plan, t)
    BY DEF CacheInv
  <2>3. Tier(tree'[t], r.pools[t], Blocks[t])
    <3>1. tree'[t].is_ready \subseteq tree'[t].ends
      BY <1>8, <2>1 DEF Tier, Shape, TreeTyped
    <3> QED BY <1>8, <1>10, <2>1, <3>1, SameTier
  <2> DEFINE S == IF r.plan.open THEN StagedOf(r.plan, t) ELSE {}
             old == free[t] \cup BlocksOf(tree[t].phys)
             new == r.pools[t] \cup BlocksOf(r.trees[t].phys)
             staged(q) == StagedOf(plan[q], t)
  <2>4. new \cup S = old /\ S \cap new = {}
    BY <2>1 DEF Evolves
  <2>5. /\ \A q \in Open : staged(q) \cap old = {}
        /\ \A q, o \in Open : q # o => staged(q) \cap staged(o) = {}
        /\ old \cup UNION {staged(q) : q \in Open} = Blocks[t]
    BY <2>2 DEF AccountOf
  <2>6. /\ free'[t] = r.pools[t] /\ BlocksOf(tree'[t].phys) = BlocksOf(r.trees[t].phys)
    BY <1>1, <1>8
  <2>7. /\ \A q \in Open : StagedOf(plan'[q], t) = staged(q)
        /\ StagedOf(plan'[p], t) = StagedOf(r.plan, t)
    BY <1>4, <1>6
  <2> HIDE DEF old, new, staged
  <2>8. CASE ~r.plan.open
    <3>1. Open' = Open /\ S = {}
      BY <1>5, <2>8
    <3>2. new = old
      BY <2>4, <3>1
    <3>3. {StagedOf(plan'[q], t) : q \in Open} = {staged(q) : q \in Open}
      BY <2>7
    <3> QED BY <1>3, <2>3, <2>5, <2>6, <2>7, <3>1, <3>2, <3>3 DEF AccountOf, old, new
  <2>9. CASE r.plan.open
    <3>1. Open' = Open \cup {p} /\ S = StagedOf(r.plan, t)
      BY <1>5, <2>9
    <3>2. {StagedOf(plan'[q], t) : q \in Open'} = {staged(q) : q \in Open} \cup {S}
      BY <2>7, <3>1
    <3> HIDE DEF S
    <3>3. \A q \in Open' : StagedOf(plan'[q], t) \cap new = {}
      BY <2>4, <2>5, <2>7, <3>1
    <3>4. \A q, o \in Open' : q # o => StagedOf(plan'[q], t) \cap StagedOf(plan'[o], t) = {}
      BY <2>4, <2>5, <2>7, <3>1
    <3>5. new \cup UNION {StagedOf(plan'[q], t) : q \in Open'} = Blocks[t]
      BY <2>4, <2>5, <3>2
    <3> QED BY <1>3, <2>3, <2>6, <3>3, <3>4, <3>5 DEF AccountOf, new
  <2> QED BY <1>2, <2>8, <2>9
<1>12. ASSUME NEW q \in Open' PROVE PlanOK(plan'[q], tree', Blocks')
  <2>1. CASE q = p
    <3>1. r.plan.open
      BY <1>5, <2>1
    <3>2. PlanOK(r.plan, r.trees, Blocks)
      BY <3>1 DEF ResultOK
    <3>3. NodesOK(r.plan.nodes, tree')
      BY <1>8, <3>2 DEF PlanOK, NodesOK, HeldIn
    <3> QED BY <1>3, <1>4, <2>1, <3>2, <3>3 DEF PlanOK
  <2>2. CASE q # p
    <3>1. q \in Open /\ plan'[q] = plan[q]
      BY <1>2, <1>5, <1>6, <2>2
    <3>2. PlanOK(plan[q], tree, Blocks)
      BY <3>1 DEF CacheInv
    <3>3. ASSUME NEW n \in plan[q].nodes PROVE n.tier \in Tiers /\ HeldIn(n, tree'[n.tier])
      <4>1. n.tier \in Tiers /\ HeldIn(n, tree[n.tier])
        BY <3>2 DEF PlanOK, NodesOK
      <4>2. tree[n.tier].lock_cnt[n.node] > 0
        BY <3>1, HeldIsLocked
      <4>3. TreeTyped(tree[n.tier])
        BY <4>1 DEF CacheInv, AccountOf, Tier, Shape
      <4>4. \A e, l \in tree[n.tier].ends :
              IsPrefix(e, l) /\ tree[n.tier].lock_cnt[l] > 0 => e \in tree'[n.tier].ends
        BY <1>8, <4>1 DEF ResultOK, Evolves
      <4> QED BY <4>1, <4>2, <4>3, <4>4, HeldSurvives
    <3>4. NodesOK(plan[q].nodes, tree')
      BY <3>2, <3>3 DEF PlanOK, NodesOK
    <3> QED BY <1>3, <3>1, <3>2, <3>4 DEF PlanOK
  <2> QED BY <2>1, <2>2
<1>13. LocksCounted(tree', Open', plan')
  <2> SUFFICES ASSUME NEW t \in Tiers, NEW e \in Prefixes
               PROVE  tree'[t].lock_cnt[e] = Cardinality(Holders(Open', plan', t, e))
    BY DEF LocksCounted
  <2> DEFINE H == Holders(Open, plan, t, e)
  <2>1. tree[t].lock_cnt[e] = Cardinality(H)
    BY DEF CacheInv, LocksCounted
  <2>2. IsFiniteSet(H) /\ p \notin H
    BY <1>5, CacheAssumption, FS_Subset DEF Holders, Open
  <2>3. ~r.plan.open \/ (\A n \in r.plan.nodes : ~(n.tier = t /\ n.node = e)) =>
          Holders(Open', plan', t, e) = H
    BY <1>4, <1>5, <1>6 DEF Holders
  <2>4. r.plan.open /\ (\E n \in r.plan.nodes : n.tier = t /\ n.node = e) =>
          Holders(Open', plan', t, e) = H \cup {p}
    BY <1>4, <1>5, <1>6 DEF Holders
  <2> HIDE DEF H
  <2>5. CASE r.plan.open /\ \E n \in r.plan.nodes : n.tier = t /\ n.node = e
    <3>1. tree'[t].lock_cnt[e] = tree[t].lock_cnt[e] + 1
      <4>1. PICK n \in r.plan.nodes : n.tier = t /\ n.node = e
        BY <2>5
      <4>2. tree'[t].lock_cnt = [tree[t].lock_cnt EXCEPT ![n.node] = @ + 1]
        BY <1>8, <2>5, <4>1
      <4>3. tree[t].lock_cnt \in [Prefixes -> Nat]
        BY <1>10
      <4> QED BY <4>1, <4>2, <4>3
    <3>2. Cardinality(H \cup {p}) = Cardinality(H) + 1
      BY <2>2, FS_AddElement
    <3> QED BY <2>1, <2>4, <2>5, <3>1, <3>2
  <2>6. CASE ~(r.plan.open /\ \E n \in r.plan.nodes : n.tier = t /\ n.node = e)
    <3>1. tree'[t].lock_cnt[e] = tree[t].lock_cnt[e]
      <4>1. CASE ~r.plan.open \/ \A n \in r.plan.nodes : n.tier # t
        BY <1>8, <4>1
      <4>2. CASE r.plan.open /\ \E n \in r.plan.nodes : n.tier = t
        <5>1. PICK n \in r.plan.nodes : n.tier = t
          BY <4>2
        <5>2. tree'[t].lock_cnt = [tree[t].lock_cnt EXCEPT ![n.node] = @ + 1]
          BY <1>8, <4>2, <5>1
        <5>3. tree[t].lock_cnt \in [Prefixes -> Nat] /\ n.node # e
          BY <1>10, <2>6, <4>2, <5>1
        <5> QED BY <5>2, <5>3
      <4> QED BY <1>2, <4>1, <4>2
    <3> QED BY <2>1, <2>3, <2>6, <3>1
  <2> QED BY <2>5, <2>6
<1> QED BY <1>7, <1>11, <1>12, <1>13 DEF CacheInv

-----------------------------------------------------------------------------
(* The steps put and get are made of, on one tier. *)

(* What tier t has become while a plan is made, with the blocks in staged set
   aside for it. *)
TierStep(t, U, G, staged) ==
  /\ Tier(U, G, Blocks[t])
  /\ Evolves(tree[t], free[t], U, G, staged)

(* An untouched tier. *)
LEMMA TierAsIs ==
  ASSUME CacheInv, NEW t \in Tiers
  PROVE  TierStep(t, tree[t], free[t], {})
BY EvolvesNot DEF CacheInv, AccountOf, TierStep

(* Whatever take() evicts leaves locked nodes, the protected node and what is
   above them alone. *)
LEMMA TakeSpares ==
  ASSUME CacheInv, NEW t \in Tiers, NEW num, NEW prot \in Prefixes, NEW gone,
         gone = {} \/ gone \in TakeEvicts(t, num, prot)
  PROVE  Spares(tree[t], gone, prot)
<1>1. CASE gone = {}
  BY <1>1 DEF Spares, UpClosed
<1>2. CASE gone # {}
  <2>1. Shape(tree[t])
    BY DEF CacheInv, AccountOf, Tier
  <2>2. gone \in EvictChoices(lock(tree[t], prot), EvictNum(t, num))
    BY <1>2 DEF TakeEvicts
  <2> QED BY <2>1, <2>2, EvictOf DEF Spares
<1> QED BY <1>1, <1>2

(* The tier after take(). *)
LEMMA TakenTier ==
  ASSUME CacheInv, NEW t \in Tiers, NEW gone, NEW prot, Spares(tree[t], gone, prot)
  PROVE  /\ TierStep(t, Without(tree[t], gone), FreeAfter(t, gone), {})
         /\ prot \in tree[t].ends =>
              /\ \A e \in tree[t].ends : IsPrefix(e, prot) => e \in Without(tree[t], gone).ends
              /\ \A h \in Cached(tree[t]) : IsPrefix(h, prot) => h \in Cached(Without(tree[t], gone))
         /\ Cached(Without(tree[t], gone)) \subseteq Cached(tree[t])
<1>1. Tier(tree[t], free[t], Blocks[t])
  BY DEF CacheInv, AccountOf
<1> DEFINE U == Without(tree[t], gone)
           G == free[t] \cup {tree[t].phys[h] : h \in gone}
<1>2. /\ Tier(U, G, Blocks[t]) /\ Evolves(tree[t], free[t], U, G, {})
      /\ prot \in tree[t].ends =>
           /\ \A e \in tree[t].ends : IsPrefix(e, prot) => e \in U.ends
           /\ \A h \in Cached(tree[t]) : IsPrefix(h, prot) => h \in Cached(U)
      /\ Cached(U) \subseteq Cached(tree[t])
  BY <1>1, EvictTier
<1>3. FreeAfter(t, gone) = G
  BY DEF FreeAfter
<1> HIDE DEF G
<1> QED BY <1>2, <1>3 DEF TierStep

(* A node at or above the protected one is still there. *)
LEMMA StillThere ==
  ASSUME CacheInv, NEW t \in Tiers, NEW gone, NEW prot \in tree[t].ends \cup {Root},
         Spares(tree[t], gone, prot),
         NEW e \in tree[t].ends \cup {Root}, IsPrefix(e, prot)
  PROVE  e \in Without(tree[t], gone).ends \cup {Root}
<1>1. Shape(tree[t])
  BY DEF CacheInv, AccountOf, Tier
<1>2. e \in Prefixes /\ prot \in Prefixes
  BY <1>1, EndsArePrefixes DEF Shape, Prefixes
<1>3. CASE prot = Root
  BY <1>2, <1>3, PrefixOrder
<1>4. CASE prot # Root
  BY <1>4, TakenTier
<1> QED BY <1>3, <1>4

(* Blocks of the pool are set aside. *)
LEMMA StagedTier ==
  ASSUME CacheInv, NEW t \in Tiers, NEW U, NEW G, TierStep(t, U, G, {}), NEW S \in SUBSET G
  PROVE  TierStep(t, U, G \ S, S)
<1>1. Tier(U, G \ S, Blocks[t]) /\ Evolves(U, G, U, G \ S, S)
  BY StageTier DEF TierStep
<1>2. Shape(tree[t])
  BY DEF CacheInv, AccountOf, Tier
<1> QED BY <1>1, <1>2, EvolvesOn DEF TierStep

(* The pool of a tier is finite. *)
LEMMA PoolOfTier ==
  ASSUME CacheInv, NEW t \in Tiers, NEW U, NEW G, NEW staged, TierStep(t, U, G, staged)
  PROVE  conf.num_blocks[t] \in Nat /\ G \in SUBSET (1 .. conf.num_blocks[t])
         /\ Blocks[t] = 1 .. conf.num_blocks[t] /\ Cardinality(G) \in Nat
<1>1. conf.num_blocks[t] \in Nat /\ Blocks[t] = 1 .. conf.num_blocks[t]
  BY BlocksOfTier DEF CacheInv, CacheTypes
<1>2. G \in SUBSET (1 .. conf.num_blocks[t])
  BY <1>1 DEF TierStep, Tier
<1> QED BY <1>1, <1>2, PoolFinite

(* The insert of a plan is never refused and keeps the tier in order: the node
   it hangs on was protected. *)
LEMMA InsertedTier ==
  ASSUME CacheInv, NEW t \in Tiers, NEW seq \in Prefixes, NEW gone, NEW num, NEW m,
         m = match_prefix(tree[t], seq),
         Spares(tree[t], gone, m.last_node),
         num \in Nat, num > m.matched, num <= Len(seq),
         num - m.matched <= Cardinality(FreeAfter(t, gone))
  PROVE  LET left == Without(tree[t], gone)
             pool == FreeAfter(t, gone)
             new == Allocate(pool, seq, m.matched, num)
             U == insert(left, seq, m.matched, num, new) IN
         /\ ValidTarget(left, seq, m.matched)
         /\ TierStep(t, U, pool \ BlocksOf(new), {})
         /\ HashAt(seq, num) \in U.ends
<1> DEFINE left == Without(tree[t], gone)
           pool == FreeAfter(t, gone)
           new == Allocate(pool, seq, m.matched, num)
           U == insert(left, seq, m.matched, num, new)
<1>1. Shape(tree[t])
  BY DEF CacheInv, AccountOf, Tier
<1>2. Len(seq) \in Nat
  BY LenOfPrefix
<1>3. /\ m.matched \in 0 .. Len(seq)
      /\ HashAt(seq, m.matched) \in Cached(tree[t]) \cup {Root}
      /\ m.matched < Len(seq) => HashAt(seq, m.matched + 1) \notin Cached(tree[t])
      /\ m.last_node \in tree[t].ends \cup {Root}
      /\ IsPrefix(HashAt(seq, m.matched), m.last_node)
  BY <1>1, MatchOf
<1>4. m.matched \in Nat /\ m.matched < Len(seq) /\ num \in m.matched + 1 .. Len(seq)
  BY <1>2, <1>3
<1>5. /\ TierStep(t, left, pool, {})
      /\ Cached(left) \subseteq Cached(tree[t])
      /\ m.last_node \in tree[t].ends =>
           \A h \in Cached(tree[t]) : IsPrefix(h, m.last_node) => h \in Cached(left)
  BY TakenTier
<1> HIDE DEF left, pool
<1>6. HashAt(seq, m.matched) \in Cached(left) \cup {Root}
  <2>1. CASE m.last_node = Root
    <3>1. HashAt(seq, m.matched) \in Prefixes /\ Root \in Prefixes
      BY <1>3, PrefixOfPrefix DEF Prefixes
    <3> QED BY <1>3, <2>1, <3>1, PrefixOrder
  <2>2. CASE m.last_node # Root
    BY <1>3, <1>5, <2>2
  <2> QED BY <2>1, <2>2
<1>7. HashAt(seq, m.matched + 1) \notin Cached(left)
  BY <1>3, <1>4, <1>5
<1>8. ValidTarget(left, seq, m.matched)
  <2>1. m.matched > 0 => HashAt(seq, m.matched) # Root
    <3>1. HashAt(seq, m.matched) \in Prefixes /\ Len(HashAt(seq, m.matched)) = m.matched
      BY <1>3, PrefixOfPrefix
    <3> QED BY <1>4, <3>1, LenOfPrefix
  <2> QED BY <1>6, <1>7, <2>1 DEF ValidTarget
<1>9. conf.num_blocks[t] \in Nat /\ pool \in SUBSET (1 .. conf.num_blocks[t])
  BY <1>5, PoolOfTier
<1>10. num - m.matched <= Cardinality(pool)
  BY DEF pool
<1>11. /\ DOMAIN new = Stretch(seq, m.matched, num)
       /\ new \in [Stretch(seq, m.matched, num) -> pool]
       /\ Injective(new)
  <2> DEFINE k == m.matched
  <2>1. k \in Nat /\ num - k <= Cardinality(pool)
    BY <1>4, <1>10
  <2> HIDE DEF k
  <2>2. LET a == Allocate(pool, seq, k, num) IN
        /\ DOMAIN a = Stretch(seq, k, num)
        /\ a \in [Stretch(seq, k, num) -> pool]
        /\ BlocksOf(a) \subseteq pool
        /\ Injective(a)
    BY <1>9, <2>1, AllocateOf
  <2> QED BY <2>2 DEF k
<1> HIDE DEF new
<1>12. GoodTarget(left, seq, m.matched, num, new)
  BY <1>3, <1>4, <1>6, <1>7, <1>11 DEF GoodTarget
<1>13. Tier(left, pool, Blocks[t]) /\ Evolves(tree[t], free[t], left, pool, {})
  BY <1>5 DEF TierStep
<1>14. new \in [DOMAIN new -> pool]
  BY <1>11
<1>15. /\ Tier(U, pool \ BlocksOf(new), Blocks[t])
       /\ Evolves(left, pool, U, pool \ BlocksOf(new), {})
       /\ HashAt(seq, num) \in U.ends
  BY <1>11, <1>12, <1>13, <1>14, InsertTier
<1> HIDE DEF U
<1>16. Evolves(tree[t], free[t], U, pool \ BlocksOf(new), {})
  BY <1>1, <1>13, <1>15, EvolvesOn
<1> QED BY <1>8, <1>15, <1>16 DEF TierStep, left, pool, new, U

(* The node objects a plan refers to. *)
LEMMA NodeHeld ==
  ASSUME NEW t \in Tiers, NEW T, TreeTyped(T), NEW e \in T.ends \cup {Root}
  PROVE  /\ HeldIn(Node(t, T, e), T) /\ Node(t, T, e).tier = t
         /\ \A n : n.node = e /\ n.len = 0 => HeldIn(n, T)
<1>1. /\ Parent(T, e) \in T.ends \cup {Root} /\ Parent(T, e) \in Prefixes /\ e \in Prefixes
      /\ IsPrefix(Parent(T, e), e)
      /\ Len(Parent(T, e)) \in Nat /\ Len(e) \in Nat
  BY ParentOf
<1> DEFINE k == Len(Parent(T, e))
<1>2. k <= Len(e) /\ HashAt(e, k) = Parent(T, e) /\ HashAt(e, Len(e)) = e
  BY <1>1, PrefixOrder, WholePrefix
<1>3. Node(t, T, e).tier = t /\ Node(t, T, e).node = e /\ Node(t, T, e).len = Len(e) - k
  BY DEF Node, size
<1> HIDE DEF k
<1>4. k \in Nat
  BY <1>1 DEF k
<1>5. Len(e) - k \in 0 .. Len(e) /\ Len(e) - (Len(e) - k) = k /\ Len(e) - 0 = Len(e) /\ 0 \in 0 .. Len(e)
  BY <1>1, <1>2, <1>4
<1>6. HeldIn(Node(t, T, e), T)
  BY <1>1, <1>2, <1>3, <1>5 DEF HeldIn
<1> QED BY <1>2, <1>3, <1>5, <1>6 DEF HeldIn

(* What a plan with one insert to come per tier, or with a buffer, stages. *)
LEMMA StagedNothing ==
  ASSUME NEW P, NEW t, \A d \in P.deferred : d.tier # t
  PROVE  StagedOf(P, t) = IF t = "CPU" THEN P.buffer ELSE {}
<1>1. {e \in P.deferred : e.tier = t} = {}
  OBVIOUS
<1>2. Awaited(P, t) = {}
  BY <1>1 DEF Awaited
<1> QED BY <1>2 DEF StagedOf

(* A plan with one deferred insert in a tier stages its blocks there. *)
LEMMA StagedDeferred ==
  ASSUME NEW P, NEW t, NEW g \in P.deferred, g.tier = t, P.buffer = {},
         \A e \in P.deferred : e.tier = t => e = g
  PROVE  StagedOf(P, t) = BlocksOf(g.blocks)
<1>1. {e \in P.deferred : e.tier = t} = {g}
  OBVIOUS
<1>2. {BlocksOf(d.blocks) : d \in {e \in P.deferred : e.tier = t}} = {BlocksOf(g.blocks)}
  BY <1>1
<1>3. UNION {BlocksOf(d.blocks) : d \in {e \in P.deferred : e.tier = t}} = BlocksOf(g.blocks)
  BY <1>2
<1> QED BY <1>3 DEF StagedOf, Awaited

-----------------------------------------------------------------------------
(* The plans of put and get. *)

(* The sequences asked for are prefixes. *)
LEMMA SeqOfConf ==
  ASSUME CacheInv, NEW seq \in conf.seqs
  PROVE  seq \in Prefixes /\ Len(seq) \in Nat /\ HashAt(seq, Len(seq)) = seq
<1>1. seq \in Prefixes
  BY CacheAssumption, SeqPrefixes DEF CacheInv, CacheTypes
<1> QED BY <1>1, LenOfPrefix, WholePrefix

(* The match of a tier's tree. *)
LEMMA TierMatch ==
  ASSUME CacheInv, NEW t \in Tiers, NEW seq \in Prefixes, NEW m, m = match_prefix(tree[t], seq)
  PROVE  /\ m.matched \in Nat /\ m.matched <= Len(seq)
         /\ m.ready \in Nat /\ m.ready <= m.matched
         /\ m.last_node \in tree[t].ends \cup {Root}
         /\ m.last_ready_node \in tree[t].ends \cup {Root}
         /\ IsPrefix(m.last_ready_node, m.last_node)
         /\ m.last_node \in Prefixes /\ m.last_ready_node \in Prefixes
<1>1. Shape(tree[t])
  BY DEF CacheInv, AccountOf, Tier
<1>2. /\ m.matched \in 0 .. Len(seq) /\ m.ready \in 0 .. m.matched
      /\ m.last_node \in tree[t].ends \cup {Root}
      /\ m.last_ready_node \in tree[t].ends \cup {Root}
      /\ IsPrefix(m.last_ready_node, m.last_node)
  BY <1>1, MatchOf
<1>3. Len(seq) \in Nat
  BY LenOfPrefix
<1>4. m.last_node \in Prefixes /\ m.last_ready_node \in Prefixes
  BY <1>1, <1>2, EndsArePrefixes DEF Shape, Prefixes
<1> QED BY <1>2, <1>3, <1>4

(* An empty allocation. *)
LEMMA AllocateNothing ==
  ASSUME NEW pool, NEW seq, NEW k \in Nat
  PROVE  DOMAIN Allocate(pool, seq, k, k) = {} /\ BlocksOf(Allocate(pool, seq, k, k)) = {}
<1>1. {HashAt(seq, n) : n \in k + 1 .. k} = {}
  OBVIOUS
<1> QED BY <1>1 DEF Allocate, BlocksOf

(* A plan that was made, from what is known of each tier, *)
LEMMA ResultMade ==
  ASSUME NEW r, r.trees = [t \in Tiers |-> r.trees[t]], r.pools = [t \in Tiers |-> r.pools[t]],
         r.stale = FALSE, r.plan.open = TRUE,
         \A t \in Tiers : TierStep(t, r.trees[t], r.pools[t], StagedOf(r.plan, t)),
         PlanOK(r.plan, r.trees, Blocks)
  PROVE  ResultOK(r)
<1>1. \A t \in Tiers : (IF r.plan.open THEN StagedOf(r.plan, t) ELSE {}) = StagedOf(r.plan, t)
  OBVIOUS
<1>2. \A t \in Tiers :
        /\ Tier(r.trees[t], r.pools[t], Blocks[t])
        /\ Evolves(tree[t], free[t], r.trees[t], r.pools[t],
                   IF r.plan.open THEN StagedOf(r.plan, t) ELSE {})
  BY <1>1 DEF TierStep
<1> QED BY <1>2 DEF ResultOK

(* and one that was refused. *)
LEMMA ResultRefused ==
  ASSUME NEW r, r.trees = [t \in Tiers |-> r.trees[t]], r.pools = [t \in Tiers |-> r.pools[t]],
         r.stale = FALSE, r.plan.open = FALSE,
         \A t \in Tiers : TierStep(t, r.trees[t], r.pools[t], {})
  PROVE  ResultOK(r)
<1>1. \A t \in Tiers : (IF r.plan.open THEN StagedOf(r.plan, t) ELSE {}) = {}
  OBVIOUS
<1>2. \A t \in Tiers :
        /\ Tier(r.trees[t], r.pools[t], Blocks[t])
        /\ Evolves(tree[t], free[t], r.trees[t], r.pools[t],
                   IF r.plan.open THEN StagedOf(r.plan, t) ELSE {})
  BY <1>1 DEF TierStep
<1> QED BY <1>2 DEF ResultOK

(* _put_impl_local: the insert target is valid after the takes, because they
   spare the node it hangs on. *)
LEMMA PutLocalOK ==
  ASSUME CacheInv, NEW seq \in conf.seqs, NEW gone,
         \A t \in Tiers : Spares(tree[t], gone[t], match_prefix(tree[t], seq).last_node)
  PROVE  ResultOK(put_impl_local(seq, gone))
<1> DEFINE m == match_local(seq, DEFAULT)
           need == PutFragments(seq)
           into == {t \in Tiers : need[t] > 0}
           left == [t \in Tiers |-> Without(tree[t], gone[t])]
           pool == [t \in Tiers |-> FreeAfter(t, gone[t])]
           new == [t \in Tiers |-> Allocate(pool[t], seq, Len(seq) - need[t], Len(seq))]
           grown == [t \in Tiers |->
                       IF t \in into
                         THEN insert(left[t], seq, m[t].matched, Len(seq), new[t])
                         ELSE left[t]]
           pools == [t \in Tiers |-> pool[t] \ BlocksOf(new[t])]
           node(t) == Node(t, grown[t], seq)
           nodes == {node(t) : t \in into}
           d2h == Op("GPU", "CPU",
                     [h \in DOMAIN new["CPU"] |-> <<h, new["CPU"][h]>>], node("CPU"), {})
           h2disk == Op("CPU", "SSD",
                        [h \in DOMAIN new["SSD"] |->
                           <<grown["CPU"].phys[h], new["SSD"][h]>>], node("SSD"), {1})
           ops == IF "SSD" \in into THEN <<d2h, h2disk>> ELSE <<d2h>>
           enough == \A t \in into : need[t] <= Cardinality(pool[t])
           valid == \A t \in into : ValidTarget(left[t], seq, m[t].matched)
           r == put_impl_local(seq, gone)
<1>1. r = IF enough /\ valid THEN Made(grown, pools, NewPlan(ops, nodes, {}, {}))
          ELSE Refused(left, pool, enough)
  BY DEF put_impl_local
<1>2. seq \in Prefixes /\ Len(seq) \in Nat /\ HashAt(seq, Len(seq)) = seq
  BY SeqOfConf
<1>3. ASSUME NEW t \in Tiers
      PROVE  /\ m[t] = match_prefix(tree[t], seq)
             /\ left[t] = Without(tree[t], gone[t]) /\ pool[t] = FreeAfter(t, gone[t])
             /\ new[t] = Allocate(pool[t], seq, Len(seq) - need[t], Len(seq))
             /\ grown[t] = IF t \in into
                             THEN insert(left[t], seq, m[t].matched, Len(seq), new[t])
                             ELSE left[t]
             /\ pools[t] = pool[t] \ BlocksOf(new[t])
             /\ need[t] = 0 \/ need[t] = Len(seq) - m[t].matched
  BY DEF match_local, DEFAULT, PutFragments
<1>4. /\ grown = [t \in Tiers |-> grown[t]] /\ pools = [t \in Tiers |-> pools[t]]
      /\ left = [t \in Tiers |-> left[t]] /\ pool = [t \in Tiers |-> pool[t]]
  OBVIOUS
<1>5. into \subseteq Tiers /\ (\A t \in Tiers : t \in into <=> need[t] > 0)
      /\ \A n \in nodes : \E t \in into : n = node(t)
  OBVIOUS
<1> HIDE DEF m, need, left, pool, new, grown, pools, ops, r, into, nodes
<1>6. ASSUME NEW t \in Tiers
      PROVE  m[t].matched \in Nat /\ m[t].matched <= Len(seq) /\ need[t] \in Nat
             /\ (t \notin into => need[t] = 0) /\ (t \in into => Len(seq) - need[t] = m[t].matched)
  <2>1. m[t].matched \in Nat /\ m[t].matched <= Len(seq)
    BY <1>2, <1>3, TierMatch
  <2> QED BY <1>2, <1>3, <1>5, <2>1
<1>7. ASSUME NEW t \in Tiers PROVE TierStep(t, left[t], pool[t], {})
  <2>1. Spares(tree[t], gone[t], match_prefix(tree[t], seq).last_node)
    OBVIOUS
  <2>2. TierStep(t, Without(tree[t], gone[t]), FreeAfter(t, gone[t]), {})
    BY <2>1, TakenTier
  <2> QED BY <1>3, <2>2
<1>8. ASSUME NEW t \in into, need[t] <= Cardinality(pool[t])
      PROVE  /\ ValidTarget(left[t], seq, m[t].matched)
             /\ TierStep(t, grown[t], pools[t], {})
             /\ seq \in grown[t].ends
  <2>1. t \in Tiers /\ need[t] > 0 /\ m[t] = match_prefix(tree[t], seq)
        /\ Spares(tree[t], gone[t], m[t].last_node)
    BY <1>3, <1>5
  <2>2. Len(seq) > m[t].matched /\ Len(seq) <= Len(seq)
        /\ Len(seq) - m[t].matched <= Cardinality(FreeAfter(t, gone[t]))
    <3>1. Len(seq) - m[t].matched = need[t] /\ need[t] <= Cardinality(FreeAfter(t, gone[t]))
      BY <1>2, <1>3, <1>6, <1>8, <2>1
    <3>2. need[t] \in Nat /\ m[t].matched \in Nat
      BY <1>6, <2>1
    <3> QED BY <1>2, <2>1, <3>1, <3>2
  <2>3. LET a == Allocate(FreeAfter(t, gone[t]), seq, m[t].matched, Len(seq))
            U == insert(Without(tree[t], gone[t]), seq, m[t].matched, Len(seq), a) IN
        /\ ValidTarget(Without(tree[t], gone[t]), seq, m[t].matched)
        /\ TierStep(t, U, FreeAfter(t, gone[t]) \ BlocksOf(a), {})
        /\ HashAt(seq, Len(seq)) \in U.ends
    BY <1>2, <2>1, <2>2, InsertedTier
  <2>4. new[t] = Allocate(FreeAfter(t, gone[t]), seq, m[t].matched, Len(seq))
    BY <1>3, <1>6, <2>1
  <2>5. grown[t] = insert(Without(tree[t], gone[t]), seq, m[t].matched, Len(seq), new[t])
        /\ pools[t] = FreeAfter(t, gone[t]) \ BlocksOf(new[t])
    BY <1>3, <2>1
  <2> QED BY <1>2, <1>3, <2>1, <2>3, <2>4, <2>5
<1>9. ASSUME NEW t \in Tiers, t \notin into
      PROVE  grown[t] = left[t] /\ pools[t] = pool[t]
  <2>1. new[t] = Allocate(pool[t], seq, Len(seq), Len(seq))
    BY <1>2, <1>3, <1>6, <1>9
  <2>2. BlocksOf(new[t]) = {}
    BY <1>2, <2>1, AllocateNothing
  <2> QED BY <1>3, <1>9, <2>2
<1>10. CASE enough
  <2>1. valid
    BY <1>8, <1>10
  <2>2. r = Made(grown, pools, NewPlan(ops, nodes, {}, {}))
    BY <1>1, <1>10, <2>1
  <2>3. /\ r.trees = grown /\ r.pools = pools /\ r.stale = FALSE
        /\ r.plan.open = TRUE /\ r.plan.nodes = nodes /\ r.plan.buffer = {} /\ r.plan.deferred = {}
    BY <2>2 DEF Made, NewPlan, PlanOf
  <2>4. ASSUME NEW t \in Tiers PROVE TierStep(t, grown[t], pools[t], {}) /\ StagedOf(r.plan, t) = {}
    <3>1. TierStep(t, grown[t], pools[t], {})
      BY <1>7, <1>8, <1>9, <1>10
    <3> QED BY <2>3, <3>1, StagedNothing
  <2>5. NodesOK(nodes, grown)
    <3>1. ASSUME NEW t \in into PROVE node(t).tier = t /\ HeldIn(node(t), grown[t])
      <4>1. seq \in grown[t].ends /\ TreeTyped(grown[t]) /\ t \in Tiers
        BY <1>5, <1>8, <1>10 DEF TierStep, Tier, Shape
      <4> QED BY <4>1, NodeHeld
    <3> HIDE DEF node
    <3> QED BY <1>5, <3>1 DEF NodesOK
  <2>6. PlanOK(r.plan, r.trees, Blocks)
    BY <2>3, <2>5 DEF PlanOK
  <2> QED BY <1>4, <2>3, <2>4, <2>6, ResultMade DEF r
<1>11. CASE ~enough
  <2>1. r = Refused(left, pool, FALSE)
    BY <1>1, <1>11
  <2>2. r.trees = left /\ r.pools = pool /\ r.stale = FALSE /\ r.plan.open = FALSE
    BY <2>1 DEF Refused, None
  <2> QED BY <1>4, <1>7, <2>2, ResultRefused DEF r
<1> QED BY <1>10, <1>11

(* The fragments of a get: where they end, and what they are when the staging
   blocks stay in the tree. *)
LEMMA FragmentsOf ==
  ASSUME NEW start \in Nat, NEW c \in Nat, NEW s \in Nat, NEW len \in Nat,
         start <= len, c <= len, s <= len
  PROVE  LET a == Greater(c - start, 0)
             b == Greater(Greater(s - start, 0) - a, 0) IN
         /\ a \in Nat /\ b \in Nat /\ start + a + b <= len
         /\ c >= start => start + a = c
BY DEF Greater

(* _get_impl_local: a staging block is in the tree or in the plan's buffer. *)
LEMMA GetLocalOK ==
  ASSUME CacheInv, NEW seq \in conf.seqs, NEW start \in 0 .. Len(seq) - 1, NEW strategy, NEW gone,
         Spares(tree["CPU"], gone, match_prefix(tree["CPU"], seq).last_node)
  PROVE  ResultOK(get_impl_local(seq, start, strategy, gone))
<1> DEFINE m == match_local(seq, strategy)
           f == GetFragments(seq, start, strategy)
           f1 == start + f[1]
           f2 == f1 + f[2]
           staged == Staging(seq, start, strategy)
           cpu == Without(tree["CPU"], gone)
           pool == FreeAfter("CPU", gone)
           enough == staged <= Cardinality(pool)
           keep == /\ staged > 0
                   /\ m["CPU"].ready >= start
                   /\ m["CPU"].ready = m["CPU"].matched
           valid == keep => ValidTarget(cpu, seq, m["CPU"].matched)
           new == Allocate(pool, seq, f2 - staged, f2)
           grown == IF keep THEN insert(cpu, seq, m["CPU"].matched, f2, new) ELSE cpu
           nodeC == Node("CPU", grown, IF keep THEN HashAt(seq, f2)
                                       ELSE m["CPU"].last_ready_node)
           nodeS == Node("SSD", tree["SSD"], m["SSD"].last_ready_node)
           ssd(h) == tree["SSD"].phys[h]
           disk2h == Op("SSD", "CPU", [h \in DOMAIN new |-> <<ssd(h), new[h]>>],
                        IF keep THEN nodeC ELSE NoNode, {})
           disk2d == Op("SSD", "GPU",
                        [h \in {HashAt(seq, i) : i \in f1 + 1 .. f2} |-> <<ssd(h), h>>],
                        nodeS, {})
           h2d == Op("CPU", "GPU",
                     [h \in {HashAt(seq, i) : i \in start + 1 .. f1} \cup DOMAIN new |->
                        <<IF h \in DOMAIN new THEN new[h] ELSE cpu.phys[h], h>>],
                     NoNode, IF staged > 0 THEN {1} ELSE {})
           fromDisk == IF f[2] = 0 THEN <<>>
                       ELSE IF uses_gds(strategy) THEN <<disk2d>> ELSE <<disk2h>>
           toGPU == IF strategy.ignore_gpu THEN <<>> ELSE <<h2d>>
           ops == fromDisk \o toGPU
           nodes == IF uses_ssd(strategy) THEN {nodeC, nodeS} ELSE {nodeC}
           buffer == IF keep THEN {} ELSE BlocksOf(new)
           trees == [tree EXCEPT !["CPU"] = grown]
           pools == [free EXCEPT !["CPU"] = pool \ BlocksOf(new)]
           r == get_impl_local(seq, start, strategy, gone)
<1>1. r = IF enough /\ valid
            THEN Made(trees, pools, NewPlan(ops, nodes, buffer, {}))
            ELSE Refused([tree EXCEPT !["CPU"] = cpu], [free EXCEPT !["CPU"] = pool], enough)
  BY DEF get_impl_local
<1>2. seq \in Prefixes /\ Len(seq) \in Nat /\ start \in Nat /\ start <= Len(seq)
  BY SeqOfConf
<1>3. /\ m["CPU"] = match_prefix(tree["CPU"], seq)
      /\ m["SSD"] = match_prefix(IF strategy.ignore_ssd THEN EmptyTree ELSE tree["SSD"], seq)
      /\ uses_ssd(strategy) => m["SSD"] = match_prefix(tree["SSD"], seq)
  BY DEF match_local, Tiers, uses_ssd
<1> HIDE DEF m
<1>4. /\ m["CPU"].matched \in Nat /\ m["CPU"].matched <= Len(seq)
      /\ m["CPU"].ready \in Nat /\ m["CPU"].ready <= m["CPU"].matched
      /\ m["CPU"].last_node \in tree["CPU"].ends \cup {Root}
      /\ m["CPU"].last_ready_node \in tree["CPU"].ends \cup {Root}
      /\ IsPrefix(m["CPU"].last_ready_node, m["CPU"].last_node)
  BY <1>2, <1>3, TierMatch DEF Tiers
<1>5. m["SSD"].ready \in Nat /\ m["SSD"].ready <= Len(seq)
  <2> DEFINE T == IF strategy.ignore_ssd THEN EmptyTree ELSE tree["SSD"]
  <2>1. Shape(T)
    BY EmptyShape DEF CacheInv, AccountOf, Tier, Tiers
  <2>2. m["SSD"] = match_prefix(T, seq)
    BY <1>3
  <2> HIDE DEF T
  <2>3. m["SSD"].matched \in 0 .. Len(seq) /\ m["SSD"].ready \in 0 .. m["SSD"].matched
    BY <1>2, <2>1, <2>2, MatchOf
  <2> QED BY <1>2, <2>3
<1>6. /\ f[1] = Greater(m["CPU"].ready - start, 0)
      /\ f[2] = Greater(Greater(m["SSD"].ready - start, 0) - Greater(m["CPU"].ready - start, 0), 0)
  BY DEF GetFragments, m
<1>7. staged = 0 \/ staged = f[2]
  BY DEF Staging
<1> HIDE DEF f, staged
<1>8. /\ f[1] \in Nat /\ f[2] \in Nat /\ start + f[1] + f[2] <= Len(seq)
      /\ m["CPU"].ready >= start => start + f[1] = m["CPU"].ready
  <2> DEFINE c == m["CPU"].ready
             s == m["SSD"].ready
  <2>1. c \in Nat /\ s \in Nat /\ c <= Len(seq) /\ s <= Len(seq)
    BY <1>2, <1>4, <1>5
  <2> HIDE DEF c, s
  <2>2. LET a == Greater(c - start, 0)
            b == Greater(Greater(s - start, 0) - a, 0) IN
        /\ a \in Nat /\ b \in Nat /\ start + a + b <= Len(seq)
        /\ c >= start => start + a = c
    BY <1>2, <2>1, FragmentsOf
  <2>3. f[1] = Greater(c - start, 0) /\ f[2] = Greater(Greater(s - start, 0) - Greater(c - start, 0), 0)
    BY <1>6 DEF c, s
  <2>4. /\ f[1] \in Nat /\ f[2] \in Nat /\ start + f[1] + f[2] <= Len(seq)
        /\ c >= start => start + f[1] = c
    BY <2>2, <2>3
  <2> QED BY <2>4 DEF c
<1>9. f1 \in Nat /\ f2 \in Nat /\ f2 <= Len(seq) /\ staged \in Nat
      /\ f2 - staged \in Nat /\ f2 - (f2 - staged) = staged
  <2> DEFINE a == f[1]
             b == f[2]
  <2>1. a \in Nat /\ b \in Nat /\ start + a + b <= Len(seq) /\ (staged = 0 \/ staged = b)
        /\ f1 = start + a /\ f2 = start + a + b
    BY <1>7, <1>8
  <2> HIDE DEF a, b, f1, f2
  <2> QED BY <1>2, <2>1
<1>10. keep => /\ f2 - staged = m["CPU"].matched /\ f2 > m["CPU"].matched
               /\ f2 - m["CPU"].matched = staged
  BY <1>2, <1>4, <1>7, <1>8
<1>11. keep \in BOOLEAN
  OBVIOUS
<1>12. /\ trees = [t \in Tiers |-> trees[t]] /\ trees["CPU"] = grown
       /\ \A t \in Tiers : t # "CPU" => trees[t] = tree[t]
       /\ pools = [t \in Tiers |-> pools[t]] /\ pools["CPU"] = pool \ BlocksOf(new)
       /\ \A t \in Tiers : t # "CPU" => pools[t] = free[t]
  <2> HIDE DEF grown, pool, new
  <2> QED BY DEF CacheInv, CacheTypes, Tiers
<1>13. TierStep("CPU", cpu, pool, {}) /\ m["CPU"].last_ready_node \in cpu.ends \cup {Root}
  <2>1. "CPU" \in Tiers /\ Spares(tree["CPU"], gone, m["CPU"].last_node)
    BY <1>3 DEF Tiers
  <2>2. TierStep("CPU", cpu, pool, {})
    BY <2>1, TakenTier
  <2>3. m["CPU"].last_ready_node \in cpu.ends \cup {Root}
    BY <1>4, <2>1, StillThere
  <2> QED BY <2>2, <2>3
<1>14. ASSUME keep, enough
       PROVE  /\ ValidTarget(cpu, seq, m["CPU"].matched)
              /\ TierStep("CPU", grown, pool \ BlocksOf(new), {})
              /\ HashAt(seq, f2) \in grown.ends
  <2>1. "CPU" \in Tiers /\ Spares(tree["CPU"], gone, m["CPU"].last_node)
    BY <1>3 DEF Tiers
  <2>2. f2 - m["CPU"].matched <= Cardinality(FreeAfter("CPU", gone))
    BY <1>10, <1>14
  <2>3. LET a == Allocate(FreeAfter("CPU", gone), seq, m["CPU"].matched, f2)
            U == insert(Without(tree["CPU"], gone), seq, m["CPU"].matched, f2, a) IN
        /\ ValidTarget(Without(tree["CPU"], gone), seq, m["CPU"].matched)
        /\ TierStep("CPU", U, FreeAfter("CPU", gone) \ BlocksOf(a), {})
        /\ HashAt(seq, f2) \in U.ends
    <3> HIDE DEF f2
    <3> QED BY <1>2, <1>3, <1>9, <1>10, <1>14, <2>1, <2>2, InsertedTier
  <2>4. new = Allocate(FreeAfter("CPU", gone), seq, m["CPU"].matched, f2)
    BY <1>10, <1>14
  <2>5. grown = insert(Without(tree["CPU"], gone), seq, m["CPU"].matched, f2, new)
    BY <1>14
  <2> HIDE DEF new, grown
  <2> QED BY <2>3, <2>4, <2>5
<1>15. ASSUME ~keep, enough
       PROVE  TierStep("CPU", grown, pool \ BlocksOf(new), BlocksOf(new))
  <2>1. grown = cpu
    BY <1>15
  <2>2. conf.num_blocks["CPU"] \in Nat /\ pool \in SUBSET (1 .. conf.num_blocks["CPU"])
    BY <1>13, PoolOfTier DEF Tiers
  <2>3. BlocksOf(new) \subseteq pool
    <3> DEFINE k == f2 - staged
               j == f2
    <3>1. k \in Nat /\ j \in Nat /\ j <= Len(seq) /\ j - k <= Cardinality(pool)
      BY <1>9, <1>15
    <3>2. new = Allocate(pool, seq, k, j)
      OBVIOUS
    <3> HIDE DEF k, j, new, pool
    <3> QED BY <1>2, <2>2, <3>1, <3>2, AllocateOf
  <2> HIDE DEF new, grown, pool, cpu
  <2> QED BY <1>13, <2>1, <2>3, StagedTier DEF Tiers
<1>16. CASE enough
  <2>1. valid
    BY <1>14, <1>16
  <2>2. r = Made(trees, pools, NewPlan(ops, nodes, buffer, {}))
    BY <1>1, <1>16, <2>1
  <2>3. NodesOK(nodes, trees)
    <3> DEFINE e == IF keep THEN HashAt(seq, f2) ELSE m["CPU"].last_ready_node
    <3>1. e \in grown.ends \cup {Root} /\ TreeTyped(grown)
      <4>1. CASE keep
        <5>1. e = HashAt(seq, f2)
          BY <4>1
        <5>2. HashAt(seq, f2) \in grown.ends /\ TierStep("CPU", grown, pool \ BlocksOf(new), {})
          BY <1>14, <1>16, <4>1
        <5> HIDE DEF e, grown, new, pool, f2
        <5> QED BY <5>1, <5>2 DEF TierStep, Tier, Shape
      <4>2. CASE ~keep
        <5>1. e = m["CPU"].last_ready_node /\ grown = cpu
          BY <4>2
        <5> HIDE DEF e, grown, pool, cpu
        <5> QED BY <1>13, <5>1 DEF TierStep, Tier, Shape
      <4> QED BY <4>1, <4>2
    <3>2. nodeC = Node("CPU", grown, e)
      OBVIOUS
    <3> HIDE DEF e, grown
    <3>3. HeldIn(nodeC, grown) /\ nodeC.tier = "CPU"
      BY <3>1, <3>2, NodeHeld DEF Tiers
    <3>4. uses_ssd(strategy) => HeldIn(nodeS, tree["SSD"]) /\ nodeS.tier = "SSD"
      <4>1. TreeTyped(tree["SSD"]) /\ "SSD" \in Tiers
        BY DEF CacheInv, AccountOf, Tier, Shape, Tiers
      <4>2. uses_ssd(strategy) => m["SSD"].last_ready_node \in tree["SSD"].ends \cup {Root}
        BY <1>2, <1>3, <4>1, TierMatch
      <4> QED BY <4>1, <4>2, NodeHeld
    <3>5. trees["CPU"] = grown /\ trees["SSD"] = tree["SSD"] /\ "CPU" \in Tiers /\ "SSD" \in Tiers
      BY <1>12 DEF Tiers
    <3> HIDE DEF nodeC, nodeS, trees
    <3> QED BY <3>3, <3>4, <3>5 DEF NodesOK
  <2> HIDE DEF trees, pools, ops, nodes, r
  <2>4. /\ r.trees = trees /\ r.pools = pools /\ r.stale = FALSE
        /\ r.plan.open = TRUE /\ r.plan.nodes = nodes /\ r.plan.deferred = {}
        /\ r.plan.buffer = buffer
    <3> HIDE DEF buffer
    <3> QED BY <2>2 DEF Made, NewPlan, PlanOf
  <2>5. ASSUME NEW t \in Tiers PROVE TierStep(t, trees[t], pools[t], StagedOf(r.plan, t))
    <3>1. StagedOf(r.plan, t) = IF t = "CPU" THEN buffer ELSE {}
      <4> HIDE DEF buffer
      <4> QED BY <2>4, StagedNothing
    <3>2. TierStep("CPU", grown, pool \ BlocksOf(new), buffer)
      BY <1>14, <1>15, <1>16
    <3> HIDE DEF buffer, grown, pool, new
    <3>3. CASE t = "CPU"
      BY <1>12, <3>1, <3>2, <3>3
    <3>4. CASE t # "CPU"
      <4>1. StagedOf(r.plan, t) = {} /\ trees[t] = tree[t] /\ pools[t] = free[t]
        BY <1>12, <3>1, <3>4
      <4> QED BY <4>1, TierAsIs
    <3> QED BY <3>3, <3>4
  <2> HIDE DEF buffer, enough
  <2>6. PlanOK(r.plan, r.trees, Blocks)
    BY <2>3, <2>4 DEF PlanOK
  <2>7. ResultOK(r)
    BY <1>12, <2>4, <2>5, <2>6, ResultMade
  <2> QED BY <2>7 DEF r
<1>17. CASE ~enough
  <2>1. r = Refused([tree EXCEPT !["CPU"] = cpu], [free EXCEPT !["CPU"] = pool], FALSE)
    <3>1. ~(enough /\ valid) /\ enough = FALSE
      BY <1>17
    <3> HIDE DEF enough, valid, cpu, pool, r, trees, pools, ops, nodes, buffer
    <3> QED BY <1>1, <3>1
  <2> HIDE DEF cpu, pool, r, trees, pools
  <2>2. /\ r.trees = [tree EXCEPT !["CPU"] = cpu] /\ r.pools = [free EXCEPT !["CPU"] = pool]
        /\ r.stale = FALSE /\ r.plan.open = FALSE
    BY <2>1 DEF Refused, None
  <2>3. /\ r.trees = [t \in Tiers |-> r.trees[t]] /\ r.pools = [t \in Tiers |-> r.pools[t]]
        /\ r.trees["CPU"] = cpu /\ r.pools["CPU"] = pool
        /\ \A t \in Tiers : t # "CPU" => r.trees[t] = tree[t] /\ r.pools[t] = free[t]
    BY <2>2 DEF CacheInv, CacheTypes, Tiers
  <2>4. \A t \in Tiers : TierStep(t, r.trees[t], r.pools[t], {})
    BY <1>13, <2>3, TierAsIs
  <2>5. ResultOK(r)
    BY <2>2, <2>3, <2>4, ResultRefused
  <2> QED BY <2>5 DEF r
<1> QED BY <1>16, <1>17

(* What a get of the global engine finds. *)
LEMMA MatchAll ==
  ASSUME CacheInv, NEW seq \in Prefixes, NEW hit \in StoreHits(seq), NEW t \in Tiers
  PROVE  LET m == match_all(seq, hit) IN
         /\ t # "REMOTE" \/ ~uses_store => m[t] = match_prefix(tree[t], seq)
         /\ m[t].matched \in Nat /\ m[t].matched <= Len(seq)
         /\ m[t].ready \in Nat /\ m[t].ready <= m[t].matched
<1> DEFINE m == match_all(seq, hit)
<1>1. Len(seq) \in Nat
  BY LenOfPrefix
<1>2. CASE t # "REMOTE" \/ ~uses_store
  <2>1. m[t] = match_prefix(tree[t], seq)
    BY <1>2 DEF match_all
  <2> HIDE DEF m
  <2>2. /\ m[t].matched \in Nat /\ m[t].matched <= Len(seq)
        /\ m[t].ready \in Nat /\ m[t].ready <= m[t].matched
    BY <2>1, TierMatch
  <2> QED BY <2>1, <2>2 DEF m
<1>3. CASE t = "REMOTE" /\ uses_store
  <2>1. m[t].matched = hit /\ m[t].ready = hit
    BY <1>3 DEF match_all
  <2>2. hit \in Nat /\ hit <= Len(seq)
    BY <1>1, <1>3 DEF StoreHits
  <2> HIDE DEF m
  <2>3. /\ m[t].matched \in Nat /\ m[t].matched <= Len(seq)
        /\ m[t].ready \in Nat /\ m[t].ready <= m[t].matched
    BY <2>1, <2>2
  <2> QED BY <1>3, <2>3 DEF m
<1> QED BY <1>2, <1>3

(* The fragments of a get over all tiers, in order. *)
LEMMA GlobalFragmentsOf ==
  ASSUME NEW m, NEW start \in Nat, NEW len \in Nat, start <= len,
         \A t \in Tiers : m[t].ready \in Nat /\ m[t].ready <= len
  PROVE  LET f == GlobalFragments(m, start) IN
         /\ f.f1 \in Nat /\ f.f12 \in Nat /\ f.f123 \in Nat
         /\ f.f1 <= f.f12 /\ f.f12 <= f.f123 /\ f.f123 <= len
         /\ m["CPU"].ready >= start => f.f1 = m["CPU"].ready
<1> DEFINE c == m["CPU"].ready
           s == m["SSD"].ready
           r == m["REMOTE"].ready
           f == GlobalFragments(m, start)
<1>1. c \in Nat /\ s \in Nat /\ r \in Nat /\ c <= len /\ s <= len /\ r <= len
  BY DEF Tiers
<1>2. f.f1 = Greater(c, start) /\ f.f12 = Greater(Greater(c, start), Greater(s, start))
      /\ f.f123 = Greater(Greater(Greater(c, start), Greater(s, start)), Greater(r, start))
  BY DEF GlobalFragments
<1> HIDE DEF c, s, r, f
<1>3. /\ f.f1 \in Nat /\ f.f12 \in Nat /\ f.f123 \in Nat
      /\ f.f1 <= f.f12 /\ f.f12 <= f.f123 /\ f.f123 <= len
      /\ c >= start => f.f1 = c
  BY <1>1, <1>2 DEF Greater
<1> QED BY <1>3 DEF c, f

(* Blocks allocated for a stretch of a sequence, to be staged. *)
LEMMA AllocatedTier ==
  ASSUME CacheInv, NEW t \in Tiers, NEW U, NEW G, TierStep(t, U, G, {}), NEW seq \in Prefixes,
         NEW from \in Nat, NEW to \in Nat, to <= Len(seq), to - from <= Cardinality(G)
  PROVE  LET new == Allocate(G, seq, from, to) IN
         /\ DOMAIN new = Stretch(seq, from, to)
         /\ new \in [DOMAIN new -> Blocks[t]] /\ Injective(new)
         /\ TierStep(t, U, G \ BlocksOf(new), BlocksOf(new))
<1> DEFINE new == Allocate(G, seq, from, to)
<1>1. conf.num_blocks[t] \in Nat /\ G \in SUBSET (1 .. conf.num_blocks[t])
      /\ Blocks[t] = 1 .. conf.num_blocks[t]
  BY PoolOfTier
<1>2. /\ DOMAIN new = Stretch(seq, from, to)
      /\ new \in [Stretch(seq, from, to) -> G]
      /\ BlocksOf(new) \subseteq G
      /\ Injective(new)
  BY <1>1, AllocateOf
<1> HIDE DEF new
<1>3. new \in [DOMAIN new -> Blocks[t]]
  BY <1>1, <1>2
<1>4. TierStep(t, U, G \ BlocksOf(new), BlocksOf(new))
  BY <1>2, StagedTier
<1> QED BY <1>2, <1>3, <1>4 DEF new

(* _get_impl_global: the new blocks of a tier are in its tree, deferred, or in the
   buffer. *)
LEMMA GetGlobalOK ==
  ASSUME CacheInv, NEW seq \in conf.seqs, NEW start \in 0 .. Len(seq) - 1, NEW strategy,
         NEW hit \in StoreHits(seq), NEW gone,
         \A t \in Tiers : Spares(tree[t], gone[t], match_prefix(tree[t], seq).last_node)
  PROVE  ResultOK(get_impl_global(seq, start, strategy, hit, gone))
<1> DEFINE m == match_all(seq, hit)
           f == GlobalFragments(m, start)
           defer == defer_get_commit(f)
           left == [t \in Tiers |-> Without(tree[t], gone[t])]
           pool == [t \in Tiers |-> FreeAfter(t, gone[t])]
           enough == f.f123 - f.f1 <= Cardinality(pool["CPU"])
           new == Allocate(pool["CPU"], seq, f.f1, f.f123)
           keep == /\ f.f123 > f.f1 /\ ~defer
                   /\ m["CPU"].ready >= start
                   /\ m["CPU"].ready = m["CPU"].matched
           back == writes_back(m, f, start) /\ f.f123 - f.f12 <= Cardinality(pool["SSD"])
           newS == IF back THEN Allocate(pool["SSD"], seq, f.f12, f.f123) ELSE <<>>
           keepS == back /\ ~defer
           grown == [t \in Tiers |->
             IF t = "CPU" /\ keep THEN insert(left[t], seq, m[t].matched, f.f123, new)
             ELSE IF t = "SSD" /\ keepS THEN insert(left[t], seq, m[t].matched, f.f123, newS)
             ELSE left[t]]
           valid == /\ keep => ValidTarget(left["CPU"], seq, m["CPU"].matched)
                    /\ keepS => ValidTarget(left["SSD"], seq, m["SSD"].matched)
           node(t, kept) == Node(t, grown[t], IF kept THEN HashAt(seq, f.f123)
                                              ELSE m[t].last_ready_node)
           held(n) == [tier |-> n.tier, node |-> n.node, len |-> IF defer THEN 0 ELSE n.len]
           nodes == {held(node("CPU", keep))}
                      \cup (IF conf.ssd THEN {held(node("SSD", keepS))} ELSE {})
                      \cup (IF uses_store THEN {} ELSE {node("REMOTE", FALSE)})
           dC == Deferred("CPU", seq, new, f.f1, f.f12, f.f123, TRUE)
           dS == Deferred("SSD", seq, newS, f.f12, f.f12, f.f123, TRUE)
           deferred == {dC} \cup IF back THEN {dS} ELSE {}
           pools == [t \in Tiers |-> pool[t] \ IF t = "CPU" THEN BlocksOf(new)
                                               ELSE IF t = "SSD" THEN BlocksOf(newS) ELSE {}]
           ops == GlobalGetOps(seq, start, f, strategy, new, newS,
                               IF keep THEN node("CPU", TRUE) ELSE NoNode,
                               IF keepS THEN node("SSD", TRUE) ELSE NoNode)
           buffer == IF keep \/ defer THEN {} ELSE BlocksOf(new)
           later == IF defer THEN deferred ELSE {}
           r == get_impl_global(seq, start, strategy, hit, gone)
<1>1. r = IF ~enough
            THEN Refused([tree EXCEPT !["CPU"] = left["CPU"]],
                         [free EXCEPT !["CPU"] = pool["CPU"]], FALSE)
          ELSE IF ~valid THEN Refused(left, pool, TRUE)
          ELSE Made(grown, pools, NewPlan(ops, nodes, buffer, later))
  BY DEF get_impl_global
<1>2. seq \in Prefixes /\ Len(seq) \in Nat /\ start \in Nat /\ start <= Len(seq)
  BY SeqOfConf
<1>3. ASSUME NEW t \in Tiers
      PROVE  /\ t # "REMOTE" \/ ~uses_store => m[t] = match_prefix(tree[t], seq)
             /\ m[t].matched \in Nat /\ m[t].matched <= Len(seq)
             /\ m[t].ready \in Nat /\ m[t].ready <= m[t].matched
  BY <1>2, MatchAll
<1> HIDE DEF m
<1>4. \A t \in Tiers : m[t].ready \in Nat /\ m[t].ready <= Len(seq)
  BY <1>2, <1>3
<1>5. /\ f.f1 \in Nat /\ f.f12 \in Nat /\ f.f123 \in Nat
      /\ f.f1 <= f.f12 /\ f.f12 <= f.f123 /\ f.f123 <= Len(seq)
      /\ m["CPU"].ready >= start => f.f1 = m["CPU"].ready
  BY <1>2, <1>4, GlobalFragmentsOf
<1>6. back => m["SSD"].matched = f.f12 /\ f.f123 > f.f12 /\ conf.ssd = TRUE
              /\ f.f123 - f.f12 <= Cardinality(pool["SSD"])
  <2>1. conf.ssd \in BOOLEAN
    BY CacheAssumption DEF CacheInv, CacheTypes
  <2> QED BY <2>1 DEF writes_back
<1>7. defer => uses_store
  BY DEF defer_get_commit
<1>8. keep \in BOOLEAN /\ back \in BOOLEAN /\ keepS \in BOOLEAN /\ defer \in BOOLEAN
      /\ uses_store \in BOOLEAN
  BY DEF writes_back, defer_get_commit, uses_store
<1>9. keep => f.f1 = m["CPU"].matched /\ f.f123 > f.f1 /\ ~defer
  BY <1>5
<1>10. keepS => back /\ ~defer
  OBVIOUS
<1>11. ~back => newS = <<>>
  OBVIOUS
<1>12. back => newS = Allocate(pool["SSD"], seq, f.f12, f.f123)
  OBVIOUS
<1>13. /\ grown = [t \in Tiers |-> grown[t]] /\ pools = [t \in Tiers |-> pools[t]]
       /\ keep => grown["CPU"] = insert(left["CPU"], seq, m["CPU"].matched, f.f123, new)
       /\ ~keep => grown["CPU"] = left["CPU"]
       /\ keepS => grown["SSD"] = insert(left["SSD"], seq, m["SSD"].matched, f.f123, newS)
       /\ ~keepS => grown["SSD"] = left["SSD"]
       /\ grown["REMOTE"] = left["REMOTE"]
       /\ pools["CPU"] = pool["CPU"] \ BlocksOf(new)
       /\ pools["SSD"] = pool["SSD"] \ BlocksOf(newS)
       /\ pools["REMOTE"] = pool["REMOTE"]
  <2> HIDE DEF keep, keepS, new, newS, left, pool, f
  <2> QED BY DEF Tiers
<1>14. \A t \in Tiers : left[t] = Without(tree[t], gone[t]) /\ pool[t] = FreeAfter(t, gone[t])
  OBVIOUS
<1>15. (keep \/ defer => buffer = {}) /\ (~keep /\ ~defer => buffer = BlocksOf(new))
       /\ (defer => later = deferred) /\ (~defer => later = {})
       /\ (back => deferred = {dC, dS}) /\ (~back => deferred = {dC})
  <2> HIDE DEF keep, defer, back, new, dC, dS
  <2> QED OBVIOUS
<1>16. "CPU" \in Tiers /\ "SSD" \in Tiers /\ "REMOTE" \in Tiers
  BY DEF Tiers
<1>17. dC.tier = "CPU" /\ dC.blocks = new /\ dC.seq = seq /\ dC.from = f.f1 /\ dC.remote = f.f12
       /\ dC.to = f.f123
  <2> HIDE DEF new, f
  <2> QED BY DEF Deferred
<1>18. dS.tier = "SSD" /\ dS.blocks = newS /\ dS.seq = seq /\ dS.from = f.f12 /\ dS.remote = f.f12
       /\ dS.to = f.f123
  <2> HIDE DEF newS, f
  <2> QED BY DEF Deferred
<1>19. new = Allocate(pool["CPU"], seq, f.f1, f.f123)
  OBVIOUS
<1>20. nodes = {held(node("CPU", keep))}
                 \cup (IF conf.ssd THEN {held(node("SSD", keepS))} ELSE {})
                 \cup (IF uses_store THEN {} ELSE {node("REMOTE", FALSE)})
  OBVIOUS
<1> HIDE DEF f, left, pool, new, newS, grown, pools, ops, nodes, buffer, later, deferred, dC, dS, r,
             keep, keepS, back, defer
<1>21. ASSUME NEW t \in Tiers
       PROVE  TierStep(t, left[t], pool[t], {})
  <2>1. Spares(tree[t], gone[t], match_prefix(tree[t], seq).last_node)
    OBVIOUS
  <2>2. TierStep(t, Without(tree[t], gone[t]), FreeAfter(t, gone[t]), {})
    BY <2>1, TakenTier
  <2> QED BY <1>14, <2>2
<1>22. ASSUME NEW t \in Tiers, t # "REMOTE" \/ ~uses_store
       PROVE  m[t].last_ready_node \in left[t].ends \cup {Root}
  <2>1. /\ m[t].last_node \in tree[t].ends \cup {Root}
        /\ m[t].last_ready_node \in tree[t].ends \cup {Root}
        /\ IsPrefix(m[t].last_ready_node, m[t].last_node)
        /\ Spares(tree[t], gone[t], m[t].last_node)
    BY <1>2, <1>3, <1>22, TierMatch
  <2> QED BY <1>14, <2>1, StillThere
<1>23. ASSUME enough
       PROVE  /\ DOMAIN new = Stretch(seq, f.f1, f.f123)
              /\ new \in [DOMAIN new -> Blocks["CPU"]] /\ Injective(new)
              /\ TierStep("CPU", left["CPU"], pool["CPU"] \ BlocksOf(new), BlocksOf(new))
  <2> DEFINE j == f.f1
             k == f.f123
  <2>1. j \in Nat /\ k \in Nat /\ k <= Len(seq) /\ k - j <= Cardinality(pool["CPU"])
        /\ new = Allocate(pool["CPU"], seq, j, k)
    BY <1>5, <1>19, <1>23
  <2>2. TierStep("CPU", left["CPU"], pool["CPU"], {})
    BY <1>16, <1>21
  <2> HIDE DEF j, k
  <2>3. LET a == Allocate(pool["CPU"], seq, j, k) IN
        /\ DOMAIN a = Stretch(seq, j, k)
        /\ a \in [DOMAIN a -> Blocks["CPU"]] /\ Injective(a)
        /\ TierStep("CPU", left["CPU"], pool["CPU"] \ BlocksOf(a), BlocksOf(a))
    BY <1>2, <1>16, <2>1, <2>2, AllocatedTier
  <2>4. /\ DOMAIN new = Stretch(seq, j, k)
        /\ new \in [DOMAIN new -> Blocks["CPU"]] /\ Injective(new)
        /\ TierStep("CPU", left["CPU"], pool["CPU"] \ BlocksOf(new), BlocksOf(new))
    BY <2>1, <2>3
  <2> QED BY <2>4 DEF j, k
<1>24. ASSUME back
       PROVE  /\ DOMAIN newS = Stretch(seq, f.f12, f.f123)
              /\ newS \in [DOMAIN newS -> Blocks["SSD"]] /\ Injective(newS)
              /\ TierStep("SSD", left["SSD"], pool["SSD"] \ BlocksOf(newS), BlocksOf(newS))
  <2> DEFINE j == f.f12
             k == f.f123
  <2>1. j \in Nat /\ k \in Nat /\ k <= Len(seq) /\ k - j <= Cardinality(pool["SSD"])
        /\ newS = Allocate(pool["SSD"], seq, j, k)
    BY <1>5, <1>6, <1>12, <1>24
  <2>2. TierStep("SSD", left["SSD"], pool["SSD"], {})
    BY <1>16, <1>21
  <2> HIDE DEF j, k
  <2>3. LET a == Allocate(pool["SSD"], seq, j, k) IN
        /\ DOMAIN a = Stretch(seq, j, k)
        /\ a \in [DOMAIN a -> Blocks["SSD"]] /\ Injective(a)
        /\ TierStep("SSD", left["SSD"], pool["SSD"] \ BlocksOf(a), BlocksOf(a))
    BY <1>2, <1>16, <2>1, <2>2, AllocatedTier
  <2>4. /\ DOMAIN newS = Stretch(seq, j, k)
        /\ newS \in [DOMAIN newS -> Blocks["SSD"]] /\ Injective(newS)
        /\ TierStep("SSD", left["SSD"], pool["SSD"] \ BlocksOf(newS), BlocksOf(newS))
    BY <2>1, <2>3
  <2> QED BY <2>4 DEF j, k
<1>25. ASSUME keep, enough
       PROVE  /\ ValidTarget(left["CPU"], seq, m["CPU"].matched)
              /\ TierStep("CPU", grown["CPU"], pools["CPU"], {})
              /\ HashAt(seq, f.f123) \in grown["CPU"].ends
  <2> DEFINE k == f.f123
  <2>1. m["CPU"] = match_prefix(tree["CPU"], seq) /\ Spares(tree["CPU"], gone["CPU"], m["CPU"].last_node)
    BY <1>3, <1>16
  <2>2. k \in Nat /\ k > m["CPU"].matched /\ k <= Len(seq)
        /\ k - m["CPU"].matched <= Cardinality(FreeAfter("CPU", gone["CPU"]))
    BY <1>5, <1>9, <1>14, <1>16, <1>25
  <2>3. new = Allocate(FreeAfter("CPU", gone["CPU"]), seq, m["CPU"].matched, k)
        /\ grown["CPU"] = insert(Without(tree["CPU"], gone["CPU"]), seq, m["CPU"].matched, k, new)
        /\ pools["CPU"] = FreeAfter("CPU", gone["CPU"]) \ BlocksOf(new)
        /\ left["CPU"] = Without(tree["CPU"], gone["CPU"])
    BY <1>9, <1>13, <1>14, <1>16, <1>19, <1>25
  <2> HIDE DEF k
  <2>4. LET a == Allocate(FreeAfter("CPU", gone["CPU"]), seq, m["CPU"].matched, k)
            U == insert(Without(tree["CPU"], gone["CPU"]), seq, m["CPU"].matched, k, a) IN
        /\ ValidTarget(Without(tree["CPU"], gone["CPU"]), seq, m["CPU"].matched)
        /\ TierStep("CPU", U, FreeAfter("CPU", gone["CPU"]) \ BlocksOf(a), {})
        /\ HashAt(seq, k) \in U.ends
    BY <1>2, <1>16, <2>1, <2>2, InsertedTier
  <2>5. /\ ValidTarget(left["CPU"], seq, m["CPU"].matched)
        /\ TierStep("CPU", grown["CPU"], pools["CPU"], {})
        /\ HashAt(seq, k) \in grown["CPU"].ends
    BY <2>3, <2>4
  <2> QED BY <2>5 DEF k
<1>26. ASSUME keepS
       PROVE  /\ ValidTarget(left["SSD"], seq, m["SSD"].matched)
              /\ TierStep("SSD", grown["SSD"], pools["SSD"], {})
              /\ HashAt(seq, f.f123) \in grown["SSD"].ends
  <2> DEFINE k == f.f123
  <2>1. m["SSD"] = match_prefix(tree["SSD"], seq) /\ Spares(tree["SSD"], gone["SSD"], m["SSD"].last_node)
    BY <1>3, <1>16
  <2>2. k \in Nat /\ k > m["SSD"].matched /\ k <= Len(seq)
        /\ k - m["SSD"].matched <= Cardinality(FreeAfter("SSD", gone["SSD"]))
    BY <1>5, <1>6, <1>10, <1>14, <1>16, <1>26
  <2>3. newS = Allocate(FreeAfter("SSD", gone["SSD"]), seq, m["SSD"].matched, k)
        /\ grown["SSD"] = insert(Without(tree["SSD"], gone["SSD"]), seq, m["SSD"].matched, k, newS)
        /\ pools["SSD"] = FreeAfter("SSD", gone["SSD"]) \ BlocksOf(newS)
        /\ left["SSD"] = Without(tree["SSD"], gone["SSD"])
    BY <1>6, <1>10, <1>12, <1>13, <1>14, <1>16, <1>26
  <2> HIDE DEF k
  <2>4. LET a == Allocate(FreeAfter("SSD", gone["SSD"]), seq, m["SSD"].matched, k)
            U == insert(Without(tree["SSD"], gone["SSD"]), seq, m["SSD"].matched, k, a) IN
        /\ ValidTarget(Without(tree["SSD"], gone["SSD"]), seq, m["SSD"].matched)
        /\ TierStep("SSD", U, FreeAfter("SSD", gone["SSD"]) \ BlocksOf(a), {})
        /\ HashAt(seq, k) \in U.ends
    BY <1>2, <1>16, <2>1, <2>2, InsertedTier
  <2>5. /\ ValidTarget(left["SSD"], seq, m["SSD"].matched)
        /\ TierStep("SSD", grown["SSD"], pools["SSD"], {})
        /\ HashAt(seq, k) \in grown["SSD"].ends
    BY <2>3, <2>4
  <2> QED BY <2>5 DEF k
<1>27. CASE ~enough
  <2>1. r = Refused([tree EXCEPT !["CPU"] = left["CPU"]], [free EXCEPT !["CPU"] = pool["CPU"]], FALSE)
    BY <1>1, <1>27
  <2>2. /\ r.trees = [tree EXCEPT !["CPU"] = left["CPU"]]
        /\ r.pools = [free EXCEPT !["CPU"] = pool["CPU"]]
        /\ r.stale = FALSE /\ r.plan.open = FALSE
    BY <2>1 DEF Refused, None
  <2>3. /\ r.trees = [t \in Tiers |-> r.trees[t]] /\ r.pools = [t \in Tiers |-> r.pools[t]]
        /\ r.trees["CPU"] = left["CPU"] /\ r.pools["CPU"] = pool["CPU"]
        /\ \A t \in Tiers : t # "CPU" => r.trees[t] = tree[t] /\ r.pools[t] = free[t]
    BY <2>2 DEF CacheInv, CacheTypes, Tiers
  <2>4. \A t \in Tiers : TierStep(t, r.trees[t], r.pools[t], {})
    BY <1>21, <2>3, TierAsIs
  <2>5. ResultOK(r)
    BY <2>2, <2>3, <2>4, ResultRefused
  <2> QED BY <2>5 DEF r
<1>28. CASE enough
  <2>1. valid
    BY <1>25, <1>26, <1>28
  <2>2. r = Made(grown, pools, NewPlan(ops, nodes, buffer, later))
    BY <1>1, <1>28, <2>1
  <2>3. /\ r.trees = grown /\ r.pools = pools /\ r.stale = FALSE
        /\ r.plan.open = TRUE /\ r.plan.nodes = nodes /\ r.plan.deferred = later
        /\ r.plan.buffer = buffer
    BY <2>2 DEF Made, NewPlan, PlanOf
  <2>4. TierStep("CPU", grown["CPU"], pools["CPU"], StagedOf(r.plan, "CPU"))
    <3>1. CASE keep
      <4>1. r.plan.deferred = {} /\ r.plan.buffer = {}
        BY <1>9, <1>15, <2>3, <3>1
      <4>2. StagedOf(r.plan, "CPU") = {}
        BY <4>1, StagedNothing
      <4> QED BY <1>25, <1>28, <3>1, <4>2
    <3>2. CASE ~keep /\ ~defer
      <4>1. r.plan.deferred = {} /\ r.plan.buffer = BlocksOf(new)
        BY <1>15, <2>3, <3>2
      <4>2. StagedOf(r.plan, "CPU") = BlocksOf(new)
        BY <4>1, StagedNothing
      <4> QED BY <1>13, <1>23, <1>28, <3>2, <4>2
    <3>3. CASE defer
      <4>1. dC \in r.plan.deferred /\ r.plan.buffer = {} /\ dC.tier = "CPU"
            /\ \A e \in r.plan.deferred : e.tier = "CPU" => e = dC
        BY <1>8, <1>15, <1>17, <1>18, <2>3, <3>3
      <4>2. StagedOf(r.plan, "CPU") = BlocksOf(dC.blocks)
        BY <4>1, StagedDeferred
      <4> QED BY <1>9, <1>13, <1>17, <1>23, <1>28, <3>3, <4>2
    <3> QED BY <1>8, <3>1, <3>2, <3>3
  <2>5. TierStep("SSD", grown["SSD"], pools["SSD"], StagedOf(r.plan, "SSD"))
    <3>1. CASE keepS
      <4>1. r.plan.deferred = {}
        BY <1>10, <1>15, <2>3, <3>1
      <4>2. StagedOf(r.plan, "SSD") = {}
        BY <4>1, StagedNothing
      <4> QED BY <1>26, <3>1, <4>2
    <3>2. CASE ~back
      <4>1. \A d \in r.plan.deferred : d.tier # "SSD"
        BY <1>8, <1>15, <1>17, <2>3, <3>2
      <4>2. StagedOf(r.plan, "SSD") = {}
        BY <4>1, StagedNothing
      <4>3. BlocksOf(newS) = {}
        BY <1>11, <3>2 DEF BlocksOf
      <4>4. grown["SSD"] = left["SSD"] /\ pools["SSD"] = pool["SSD"]
        BY <1>10, <1>13, <3>2, <4>3
      <4> QED BY <1>16, <1>21, <4>2, <4>4
    <3>3. CASE back /\ defer
      <4>1. dS \in r.plan.deferred /\ r.plan.buffer = {} /\ dS.tier = "SSD"
            /\ \A e \in r.plan.deferred : e.tier = "SSD" => e = dS
        BY <1>8, <1>15, <1>17, <1>18, <2>3, <3>3
      <4>2. StagedOf(r.plan, "SSD") = BlocksOf(dS.blocks)
        BY <4>1, StagedDeferred
      <4> QED BY <1>10, <1>13, <1>18, <1>24, <3>3, <4>2
    <3> QED BY <3>1, <3>2, <3>3 DEF keepS
  <2>6. TierStep("REMOTE", grown["REMOTE"], pools["REMOTE"], StagedOf(r.plan, "REMOTE"))
    <3>1. \A d \in r.plan.deferred : d.tier # "REMOTE"
      BY <1>8, <1>15, <1>17, <1>18, <2>3
    <3>2. StagedOf(r.plan, "REMOTE") = {}
      BY <3>1, StagedNothing
    <3> QED BY <1>13, <1>16, <1>21, <3>2
  <2>7. \A t \in Tiers : TierStep(t, grown[t], pools[t], StagedOf(r.plan, t))
    BY <2>4, <2>5, <2>6 DEF Tiers
  <2>8. \A t \in Tiers : TreeTyped(grown[t])
    BY <2>7 DEF TierStep, Tier, Shape
  <2>9. ASSUME NEW t \in Tiers, t # "REMOTE" \/ ~uses_store, NEW kept \in BOOLEAN,
               kept => HashAt(seq, f.f123) \in grown[t].ends,
               ~kept => grown[t] = left[t]
        PROVE  /\ HeldIn(node(t, kept), grown[t]) /\ node(t, kept).tier = t
               /\ HeldIn(held(node(t, kept)), grown[t]) /\ held(node(t, kept)).tier = t
    <3> DEFINE e == IF kept THEN HashAt(seq, f.f123) ELSE m[t].last_ready_node
               n == node(t, kept)
    <3>1. e \in grown[t].ends \cup {Root}
      BY <1>22, <2>9
    <3>2. n = Node(t, grown[t], e)
      OBVIOUS
    <3> HIDE DEF e
    <3>3. HeldIn(n, grown[t]) /\ n.tier = t /\ n.node = e
      BY <2>8, <3>1, <3>2, NodeHeld DEF Node
    <3> HIDE DEF n
    <3>4. held(n).tier = n.tier /\ held(n).node = n.node
          /\ (defer => held(n).len = 0) /\ (~defer => held(n).len = n.len)
      OBVIOUS
    <3> HIDE DEF held
    <3>5. CASE defer
      BY <2>8, <3>1, <3>3, <3>4, <3>5, NodeHeld DEF n
    <3>6. CASE ~defer
      BY <3>3, <3>4, <3>6 DEF HeldIn, n
    <3> QED BY <3>5, <3>6
  <2>10. NodesOK(nodes, grown)
    <3>1. HeldIn(held(node("CPU", keep)), grown["CPU"]) /\ held(node("CPU", keep)).tier = "CPU"
      BY <1>8, <1>13, <1>16, <1>25, <1>28, <2>9
    <3>2. HeldIn(held(node("SSD", keepS)), grown["SSD"]) /\ held(node("SSD", keepS)).tier = "SSD"
      BY <1>8, <1>13, <1>16, <1>26, <2>9
    <3>3. ~uses_store => HeldIn(node("REMOTE", FALSE), grown["REMOTE"]) /\ node("REMOTE", FALSE).tier = "REMOTE"
      BY <1>13, <1>16, <2>9
    <3> DEFINE nC == held(node("CPU", keep))
               nS == held(node("SSD", keepS))
               nR == node("REMOTE", FALSE)
    <3>4. \A n \in nodes : n = nC \/ n = nS \/ (~uses_store /\ n = nR)
      BY <1>20
    <3> HIDE DEF nC, nS, nR
    <3> QED BY <1>16, <3>1, <3>2, <3>3, <3>4 DEF NodesOK, nC, nS, nR
  <2>11. \A d \in later : DeferredOK(d, Blocks)
    <3>1. DeferredOK(dC, Blocks)
      BY <1>2, <1>5, <1>16, <1>17, <1>23, <1>28 DEF DeferredOK
    <3>2. back => DeferredOK(dS, Blocks)
      BY <1>2, <1>5, <1>16, <1>18, <1>24 DEF DeferredOK
    <3> QED BY <1>8, <1>15, <3>1, <3>2
  <2>12. \A d, e \in later : d.tier = e.tier => d = e
    BY <1>8, <1>15, <1>17, <1>18
  <2>13. buffer = {} \/ later = {}
    BY <1>8, <1>15
  <2>14. PlanOK(r.plan, r.trees, Blocks)
    BY <2>3, <2>10, <2>11, <2>12, <2>13 DEF PlanOK
  <2>15. ResultOK(r)
    BY <1>13, <2>3, <2>7, <2>14, ResultMade
  <2> QED BY <2>15 DEF r
<1> QED BY <1>27, <1>28

(* _put_impl_global: the same for the three tiers of a put. *)
LEMMA PutGlobalOK ==
  ASSUME CacheInv, NEW seq \in conf.seqs, NEW hit \in StoreHits(seq), NEW gone,
         \A t \in Tiers : Spares(tree[t], gone[t], Anchor(match_all(seq, hit), t))
  PROVE  ResultOK(put_impl_global(seq, hit, gone))
<1> DEFINE m == match_all(seq, hit)
           need == GlobalPutNeeds(seq, m)
           left == [t \in Tiers |-> Without(tree[t], gone[t])]
           pool == [t \in Tiers |-> FreeAfter(t, gone[t])]
           enough(t) == need[t] <= Cardinality(pool[t]) \/ (t = "REMOTE" /\ uses_store)
           into == {t \in Tiers : need[t] > 0 /\ enough(t)}
           inserted == IF uses_store THEN {} ELSE into
           new == [t \in Tiers |->
                     IF t \in into /\ ~(t = "REMOTE" /\ uses_store)
                       THEN Allocate(pool[t], seq, Len(seq) - need[t], Len(seq))
                       ELSE <<>>]
           grown == [t \in Tiers |->
                       IF t \in inserted
                         THEN insert(left[t], seq, m[t].matched, Len(seq), new[t])
                         ELSE left[t]]
           valid == \A t \in inserted : ValidTarget(left[t], seq, m[t].matched)
           node == [t \in Tiers |-> IF t \in inserted THEN Node(t, grown[t], seq)
                                    ELSE NoNode]
           anchor(t) == [tier |-> t, node |-> m[t].last_ready_node, len |-> 0]
           anchored == {u \in {"CPU"} \cup (into \cap {"SSD"}) : Found(m, u) > 0}
           anchors == {[tier |-> t, node |-> m[t].last_ready_node, len |-> 0] : t \in anchored}
           later(t) == Deferred(t, seq, new[t], Found(m, t), Found(m, t), Len(seq), FALSE)
           deferred == {Deferred(t, seq, new[t], Found(m, t), Found(m, t), Len(seq), FALSE) :
                          t \in into \ {"REMOTE"}}
           pools == [t \in Tiers |-> pool[t] \ BlocksOf(new[t])]
           ops == GlobalPutOps(seq, m, new, into, node)
           nodes == IF uses_store THEN anchors ELSE {node[t] : t \in inserted}
           waiting == IF uses_store THEN deferred ELSE {}
           r == put_impl_global(seq, hit, gone)
<1>1. r = IF ~enough("CPU")
            THEN Refused([tree EXCEPT !["CPU"] = left["CPU"]],
                         [free EXCEPT !["CPU"] = pool["CPU"]], FALSE)
          ELSE IF ~valid THEN Refused(left, pool, TRUE)
          ELSE Made(grown, pools, NewPlan(ops, nodes, {}, waiting))
  BY DEF put_impl_global
<1>2. seq \in Prefixes /\ Len(seq) \in Nat /\ HashAt(seq, Len(seq)) = seq
  BY SeqOfConf
<1>3. ASSUME NEW t \in Tiers
      PROVE  /\ t # "REMOTE" \/ ~uses_store => m[t] = match_prefix(tree[t], seq)
             /\ m[t].matched \in Nat /\ m[t].matched <= Len(seq)
             /\ m[t].ready \in Nat /\ m[t].ready <= m[t].matched
  BY <1>2, MatchAll
<1>4. ASSUME NEW t \in Tiers
      PROVE  /\ need[t] = 0 \/ need[t] = Len(seq) - Found(m, t)
             /\ uses_store => Found(m, t) = m[t].ready /\ Anchor(m, t) = m[t].last_ready_node
             /\ ~uses_store => Found(m, t) = m[t].matched /\ Anchor(m, t) = m[t].last_node
             /\ Spares(tree[t], gone[t], Anchor(m, t))
  BY DEF GlobalPutNeeds, Found, Anchor
<1>5. uses_store \in BOOLEAN
  BY DEF uses_store
<1> HIDE DEF m, need
<1>6. /\ \A t \in Tiers : left[t] = Without(tree[t], gone[t]) /\ pool[t] = FreeAfter(t, gone[t])
      /\ \A t \in Tiers : t \in into <=> need[t] > 0 /\ enough(t)
      /\ into \subseteq Tiers
      /\ uses_store => inserted = {}
      /\ ~uses_store => inserted = into
  <2> HIDE DEF enough
  <2> QED BY <1>5
<1>7. ASSUME NEW t \in Tiers
      PROVE  /\ t \in into /\ ~(t = "REMOTE" /\ uses_store) =>
                  new[t] = Allocate(pool[t], seq, Len(seq) - need[t], Len(seq))
             /\ ~(t \in into /\ ~(t = "REMOTE" /\ uses_store)) => new[t] = <<>>
             /\ t \in inserted => grown[t] = insert(left[t], seq, m[t].matched, Len(seq), new[t])
                                  /\ node[t] = Node(t, grown[t], seq)
             /\ t \notin inserted => grown[t] = left[t]
             /\ pools[t] = pool[t] \ BlocksOf(new[t])
  <2> HIDE DEF left, pool, into, inserted
  <2> QED OBVIOUS
<1>8. /\ grown = [t \in Tiers |-> grown[t]] /\ pools = [t \in Tiers |-> pools[t]]
  OBVIOUS
<1>9. /\ uses_store => nodes = anchors /\ waiting = deferred
      /\ ~uses_store => nodes = {node[t] : t \in inserted} /\ waiting = {}
  <2> HIDE DEF anchors, deferred, inserted, node
  <2> QED OBVIOUS
<1>10. (\A d : d \in deferred <=> \E t \in into \ {"REMOTE"} : d = later(t))
       /\ (\A n \in anchors : \E t \in anchored : n = anchor(t))
  <2> HIDE DEF into, new, anchored
  <2> QED OBVIOUS
<1>11. anchored \subseteq {"CPU", "SSD"}
  <2> HIDE DEF into
  <2> QED OBVIOUS
<1>12. "CPU" \in Tiers /\ "SSD" \in Tiers /\ "REMOTE" \in Tiers
  BY DEF Tiers
<1>13. \A t : /\ later(t).tier = t /\ later(t).seq = seq /\ later(t).blocks = new[t]
              /\ later(t).from = Found(m, t) /\ later(t).remote = Found(m, t)
              /\ later(t).to = Len(seq)
  <2> HIDE DEF new
  <2> QED BY DEF Deferred
<1>14. \A t : anchor(t).tier = t /\ anchor(t).node = m[t].last_ready_node /\ anchor(t).len = 0
  OBVIOUS
<1>15. enough("CPU") <=> need["CPU"] <= Cardinality(pool["CPU"])
  <2> HIDE DEF pool
  <2> QED OBVIOUS
<1>16. \A t \in into : t # "REMOTE" \/ ~uses_store => need[t] <= Cardinality(pool[t])
  <2> HIDE DEF pool
  <2> QED BY <1>5
<1> HIDE DEF left, pool, enough, into, inserted, new, grown, node, anchor, anchored, anchors, later,
             deferred, pools, ops, nodes, waiting, r
<1>17. ASSUME NEW t \in Tiers
       PROVE  /\ Found(m, t) \in Nat /\ Found(m, t) <= Len(seq)
              /\ need[t] \in Nat /\ (need[t] > 0 => Len(seq) - need[t] = Found(m, t))
  <2> DEFINE k == Found(m, t)
  <2>1. k \in Nat /\ k <= Len(seq)
    BY <1>2, <1>3, <1>4, <1>5
  <2>2. need[t] = 0 \/ need[t] = Len(seq) - k
    BY <1>4
  <2> HIDE DEF k
  <2>3. need[t] \in Nat /\ (need[t] > 0 => Len(seq) - need[t] = k)
    BY <1>2, <2>1, <2>2
  <2> QED BY <2>1, <2>3 DEF k
<1>18. ASSUME NEW t \in Tiers PROVE TierStep(t, left[t], pool[t], {})
  <2>1. Spares(tree[t], gone[t], Anchor(m, t))
    BY <1>4
  <2>2. TierStep(t, Without(tree[t], gone[t]), FreeAfter(t, gone[t]), {})
    BY <2>1, TakenTier
  <2> QED BY <1>6, <2>2
<1>19. ASSUME NEW t \in inserted
       PROVE  /\ ValidTarget(left[t], seq, m[t].matched)
              /\ TierStep(t, grown[t], pools[t], {})
              /\ seq \in grown[t].ends
  <2>1. ~uses_store /\ t \in into /\ t \in Tiers
    BY <1>5, <1>6
  <2>2. m[t] = match_prefix(tree[t], seq) /\ Spares(tree[t], gone[t], m[t].last_node)
        /\ Found(m, t) = m[t].matched
    BY <1>3, <1>4, <2>1
  <2>3. need[t] > 0 /\ need[t] <= Cardinality(pool[t])
    BY <1>6, <1>16, <2>1
  <2>4. Len(seq) - need[t] = m[t].matched /\ need[t] \in Nat /\ m[t].matched \in Nat
    BY <1>3, <1>17, <2>1, <2>2, <2>3
  <2>5. Len(seq) > m[t].matched /\ Len(seq) <= Len(seq) /\ Len(seq) - m[t].matched = need[t]
    BY <1>2, <2>3, <2>4
  <2>6. Len(seq) - m[t].matched <= Cardinality(FreeAfter(t, gone[t]))
    BY <1>6, <2>1, <2>3, <2>5
  <2>7. LET a == Allocate(FreeAfter(t, gone[t]), seq, m[t].matched, Len(seq))
            U == insert(Without(tree[t], gone[t]), seq, m[t].matched, Len(seq), a) IN
        /\ ValidTarget(Without(tree[t], gone[t]), seq, m[t].matched)
        /\ TierStep(t, U, FreeAfter(t, gone[t]) \ BlocksOf(a), {})
        /\ HashAt(seq, Len(seq)) \in U.ends
    BY <1>2, <2>1, <2>2, <2>5, <2>6, InsertedTier
  <2>8. new[t] = Allocate(FreeAfter(t, gone[t]), seq, m[t].matched, Len(seq))
    BY <1>6, <1>7, <2>1, <2>4
  <2>9. grown[t] = insert(Without(tree[t], gone[t]), seq, m[t].matched, Len(seq), new[t])
        /\ pools[t] = FreeAfter(t, gone[t]) \ BlocksOf(new[t]) /\ left[t] = Without(tree[t], gone[t])
    BY <1>6, <1>7, <2>1
  <2> QED BY <1>2, <2>7, <2>8, <2>9
<1>20. ASSUME uses_store, NEW t \in into \ {"REMOTE"}
       PROVE  /\ DOMAIN new[t] = Stretch(seq, Found(m, t), Len(seq))
              /\ new[t] \in [DOMAIN new[t] -> Blocks[t]] /\ Injective(new[t])
              /\ TierStep(t, grown[t], pools[t], BlocksOf(new[t]))
  <2> DEFINE k == Found(m, t)
             j == Len(seq)
  <2>1. t \in Tiers /\ need[t] > 0 /\ need[t] <= Cardinality(pool[t]) /\ t # "REMOTE"
    BY <1>6, <1>16
  <2>2. k \in Nat /\ k <= j /\ need[t] \in Nat /\ j - need[t] = k
    BY <1>17, <2>1
  <2>3. new[t] = Allocate(pool[t], seq, k, j)
    BY <1>7, <2>1, <2>2
  <2>4. grown[t] = left[t] /\ pools[t] = pool[t] \ BlocksOf(new[t])
    BY <1>6, <1>7, <1>20, <2>1
  <2> HIDE DEF k
  <2>5. j - k <= Cardinality(pool[t]) /\ j \in Nat /\ j <= Len(seq)
    <3>1. j - k = need[t]
      BY <1>2, <2>2
    <3> QED BY <1>2, <2>1, <3>1
  <2>6. TierStep(t, left[t], pool[t], {})
    BY <1>18, <2>1
  <2> HIDE DEF j
  <2>9. t \in Tiers /\ k \in Nat /\ j \in Nat /\ j <= Len(seq) /\ j - k <= Cardinality(pool[t])
        /\ seq \in Prefixes
    BY <1>2, <2>1, <2>2, <2>5
  <2>7. LET a == Allocate(pool[t], seq, k, j) IN
        /\ DOMAIN a = Stretch(seq, k, j)
        /\ a \in [DOMAIN a -> Blocks[t]] /\ Injective(a)
        /\ TierStep(t, left[t], pool[t] \ BlocksOf(a), BlocksOf(a))
    BY <2>6, <2>9, AllocatedTier
  <2>8. /\ DOMAIN new[t] = Stretch(seq, k, j)
        /\ new[t] \in [DOMAIN new[t] -> Blocks[t]] /\ Injective(new[t])
        /\ TierStep(t, grown[t], pools[t], BlocksOf(new[t]))
    BY <2>3, <2>4, <2>7
  <2> QED BY <2>8 DEF k, j
<1>21. ASSUME NEW t \in Tiers, t \notin inserted, ~(uses_store /\ t \in into \ {"REMOTE"})
       PROVE  TierStep(t, grown[t], pools[t], {})
  <2>1. new[t] = <<>> /\ grown[t] = left[t]
    BY <1>5, <1>6, <1>7, <1>21
  <2>2. BlocksOf(new[t]) = {}
    BY <2>1 DEF BlocksOf
  <2>3. pools[t] = pool[t]
    BY <1>7, <2>2
  <2> QED BY <1>18, <2>1, <2>3
<1>22. CASE ~enough("CPU")
  <2>1. r = Refused([tree EXCEPT !["CPU"] = left["CPU"]], [free EXCEPT !["CPU"] = pool["CPU"]], FALSE)
    BY <1>1, <1>22
  <2>2. /\ r.trees = [tree EXCEPT !["CPU"] = left["CPU"]]
        /\ r.pools = [free EXCEPT !["CPU"] = pool["CPU"]]
        /\ r.stale = FALSE /\ r.plan.open = FALSE
    BY <2>1 DEF Refused, None
  <2>3. /\ r.trees = [t \in Tiers |-> r.trees[t]] /\ r.pools = [t \in Tiers |-> r.pools[t]]
        /\ r.trees["CPU"] = left["CPU"] /\ r.pools["CPU"] = pool["CPU"]
        /\ \A t \in Tiers : t # "CPU" => r.trees[t] = tree[t] /\ r.pools[t] = free[t]
    BY <2>2 DEF CacheInv, CacheTypes, Tiers
  <2>4. \A t \in Tiers : TierStep(t, r.trees[t], r.pools[t], {})
    BY <1>18, <2>3, TierAsIs
  <2>5. ResultOK(r)
    BY <2>2, <2>3, <2>4, ResultRefused
  <2> QED BY <2>5 DEF r
<1>23. CASE enough("CPU")
  <2>1. valid
    BY <1>19
  <2>2. r = Made(grown, pools, NewPlan(ops, nodes, {}, waiting))
    BY <1>1, <1>23, <2>1
  <2>3. /\ r.trees = grown /\ r.pools = pools /\ r.stale = FALSE
        /\ r.plan.open = TRUE /\ r.plan.nodes = nodes /\ r.plan.deferred = waiting
        /\ r.plan.buffer = {}
    BY <2>2 DEF Made, NewPlan, PlanOf
  <2>4. ASSUME NEW t \in Tiers PROVE TierStep(t, grown[t], pools[t], StagedOf(r.plan, t))
    <3>1. CASE uses_store /\ t \in into \ {"REMOTE"}
      <4>1. later(t) \in r.plan.deferred /\ later(t).tier = t /\ later(t).blocks = new[t]
            /\ \A e \in r.plan.deferred : e.tier = t => e = later(t)
        BY <1>9, <1>10, <1>13, <2>3, <3>1
      <4>2. StagedOf(r.plan, t) = BlocksOf(new[t])
        BY <2>3, <4>1, StagedDeferred
      <4> QED BY <1>20, <3>1, <4>2
    <3>2. CASE ~(uses_store /\ t \in into \ {"REMOTE"})
      <4>1. \A d \in r.plan.deferred : d.tier # t
        BY <1>5, <1>9, <1>10, <1>13, <2>3, <3>2
      <4>2. StagedOf(r.plan, t) = {}
        BY <2>3, <4>1, StagedNothing
      <4> QED BY <1>19, <1>21, <3>2, <4>2
    <3> QED BY <3>1, <3>2
  <2>5. \A t \in Tiers : TreeTyped(grown[t])
    BY <2>4 DEF TierStep, Tier, Shape
  <2>6. NodesOK(nodes, grown)
    <3>1. CASE uses_store
      <4>1. ASSUME NEW t \in anchored
            PROVE  t \in Tiers /\ HeldIn(anchor(t), grown[t]) /\ anchor(t).tier = t
        <5>1. t \in Tiers /\ t # "REMOTE"
          BY <1>11, <1>12
        <5>2. m[t].last_ready_node \in tree[t].ends \cup {Root} /\ m[t].last_ready_node \in Prefixes
              /\ Spares(tree[t], gone[t], m[t].last_ready_node)
          BY <1>2, <1>3, <1>4, <3>1, <5>1, TierMatch
        <5>3. IsPrefix(m[t].last_ready_node, m[t].last_ready_node)
          BY <5>2, PrefixOrder
        <5>4. m[t].last_ready_node \in left[t].ends \cup {Root}
          BY <1>6, <5>1, <5>2, <5>3, StillThere
        <5>5. grown[t] = left[t]
          BY <1>6, <1>7, <3>1, <5>1
        <5>6. HeldIn(anchor(t), grown[t])
          BY <1>14, <2>5, <5>1, <5>4, <5>5, NodeHeld
        <5> QED BY <1>14, <5>1, <5>6
      <4>2. \A n \in nodes : \E t \in anchored : n = anchor(t)
        BY <1>9, <1>10, <3>1
      <4> QED BY <4>1, <4>2 DEF NodesOK
    <3>2. CASE ~uses_store
      <4>1. ASSUME NEW t \in inserted
            PROVE  t \in Tiers /\ HeldIn(node[t], grown[t]) /\ node[t].tier = t
        <5>1. t \in Tiers /\ seq \in grown[t].ends
          BY <1>5, <1>6, <1>19
        <5>2. node[t] = Node(t, grown[t], seq)
          BY <1>7, <5>1
        <5> QED BY <2>5, <5>1, <5>2, NodeHeld
      <4>2. \A n \in nodes : \E t \in inserted : n = node[t]
        BY <1>9, <3>2
      <4> QED BY <4>1, <4>2 DEF NodesOK
    <3> QED BY <3>1, <3>2
  <2>7. ASSUME NEW d \in waiting PROVE DeferredOK(d, Blocks)
    <3>1. PICK t \in into \ {"REMOTE"} : d = later(t) /\ uses_store
      BY <1>5, <1>9, <1>10
    <3>2. t \in Tiers
      BY <1>6
    <3>3. /\ DOMAIN new[t] = Stretch(seq, Found(m, t), Len(seq))
          /\ new[t] \in [DOMAIN new[t] -> Blocks[t]] /\ Injective(new[t])
      BY <1>20, <3>1
    <3>4. Found(m, t) \in Nat /\ Found(m, t) <= Len(seq)
      BY <1>17, <3>2
    <3> QED BY <1>2, <1>13, <3>1, <3>2, <3>3, <3>4 DEF DeferredOK
  <2>8. \A d, e \in waiting : d.tier = e.tier => d = e
    BY <1>5, <1>9, <1>10, <1>13
  <2>9. PlanOK(r.plan, r.trees, Blocks)
    BY <2>3, <2>6, <2>7, <2>8 DEF PlanOK
  <2>10. ResultOK(r)
    BY <1>8, <2>3, <2>4, <2>9, ResultMade
  <2> QED BY <2>10 DEF r
<1> QED BY <1>22, <1>23

(* put and get keep the invariant. *)
LEMMA PutKeeps ==
  ASSUME CacheInv, NEW p \in Plans, NEW seq \in conf.seqs, put(p, seq)
  PROVE  CacheInv'
<1>1. ~plan[p].open
  BY DEF put
<1>2. seq \in Prefixes
  BY SeqOfConf
<1>3. "CPU" \in Tiers /\ "SSD" \in Tiers /\ "REMOTE" \in Tiers
      /\ \A t \in Tiers : t = "CPU" \/ t = "SSD" \/ t = "REMOTE"
  BY DEF Tiers
<1>4. CASE put_local(p, seq)
  <2> DEFINE m == match_local(seq, DEFAULT)
             need == PutFragments(seq)
  <2>1. \A t \in Tiers : m[t] = match_prefix(tree[t], seq)
    BY DEF match_local, DEFAULT
  <2>2. PICK goneC \in TakeEvicts("CPU", need["CPU"], m["CPU"].last_node),
             goneS \in IF conf.ssd THEN TakeEvicts("SSD", need["SSD"], m["SSD"].last_node)
                       ELSE {{}} :
          Adopt(p, put_impl_local(seq, [CPU |-> goneC, SSD |-> goneS, REMOTE |-> {}]))
    BY <1>4 DEF put_local
  <2> DEFINE gone == [CPU |-> goneC, SSD |-> goneS, REMOTE |-> {}]
  <2>3. gone["CPU"] = goneC /\ gone["SSD"] = goneS /\ gone["REMOTE"] = {}
    OBVIOUS
  <2>4. goneS = {} \/ goneS \in TakeEvicts("SSD", need["SSD"], m["SSD"].last_node)
    OBVIOUS
  <2> HIDE DEF m, need, gone
  <2>5. ASSUME NEW t \in Tiers PROVE m[t].last_node \in Prefixes
    BY <1>2, <2>1, TierMatch
  <2>6. ASSUME NEW t \in Tiers
        PROVE  Spares(tree[t], gone[t], match_prefix(tree[t], seq).last_node)
    <3>1. gone[t] = {} \/ gone[t] \in TakeEvicts(t, need[t], m[t].last_node)
      BY <1>3, <2>2, <2>3, <2>4
    <3>2. Spares(tree[t], gone[t], m[t].last_node)
      BY <2>5, <3>1, TakeSpares
    <3> QED BY <2>1, <3>2
  <2>7. ResultOK(put_impl_local(seq, gone))
    BY <2>6, PutLocalOK
  <2> QED BY <1>1, <2>2, <2>7, AdoptKeeps DEF gone
<1>5. CASE put_global(p, seq)
  <2>1. PICK hit \in StoreHits(seq) :
          LET m == match_all(seq, hit)
              need == GlobalPutNeeds(seq, m)
              evicts(t) == IF t = "CPU" \/ (need[t] > 0 /\ ~(t = "REMOTE" /\ uses_store))
                             THEN TakeEvicts(t, need[t], Anchor(m, t)) ELSE {{}}
          IN \E goneC \in evicts("CPU"), goneS \in evicts("SSD"), goneR \in evicts("REMOTE") :
               Adopt(p, put_impl_global(seq, hit,
                                        [CPU |-> goneC, SSD |-> goneS, REMOTE |-> goneR]))
    BY <1>5 DEF put_global
  <2> DEFINE m == match_all(seq, hit)
             need == GlobalPutNeeds(seq, m)
             evicts(t) == IF t = "CPU" \/ (need[t] > 0 /\ ~(t = "REMOTE" /\ uses_store))
                            THEN TakeEvicts(t, need[t], Anchor(m, t)) ELSE {{}}
  <2>2. PICK goneC \in evicts("CPU"), goneS \in evicts("SSD"), goneR \in evicts("REMOTE") :
          Adopt(p, put_impl_global(seq, hit, [CPU |-> goneC, SSD |-> goneS, REMOTE |-> goneR]))
    BY <2>1
  <2> DEFINE gone == [CPU |-> goneC, SSD |-> goneS, REMOTE |-> goneR]
  <2>3. gone["CPU"] = goneC /\ gone["SSD"] = goneS /\ gone["REMOTE"] = goneR
    OBVIOUS
  <2>4. \A t : \A g \in evicts(t) : g = {} \/ g \in TakeEvicts(t, need[t], Anchor(m, t))
    <3> HIDE DEF m, need
    <3> QED OBVIOUS
  <2> HIDE DEF evicts
  <2>5. \A t \in Tiers : gone[t] \in evicts(t)
    BY <1>3, <2>2, <2>3
  <2>6. ASSUME NEW t \in Tiers PROVE Anchor(m, t) \in Prefixes
    <3>1. CASE t # "REMOTE" \/ ~uses_store
      <4>1. m[t] = match_prefix(tree[t], seq)
        BY <1>2, <3>1, MatchAll
      <4> HIDE DEF m
      <4>2. m[t].last_node \in Prefixes /\ m[t].last_ready_node \in Prefixes
        BY <1>2, <4>1, TierMatch
      <4> QED BY <4>2 DEF Anchor
    <3>2. CASE t = "REMOTE" /\ uses_store
      BY <3>2 DEF Anchor, match_all, Prefixes
    <3> QED BY <3>1, <3>2
  <2> HIDE DEF m, need, gone
  <2>7. ASSUME NEW t \in Tiers PROVE Spares(tree[t], gone[t], Anchor(m, t))
    BY <2>4, <2>5, <2>6, TakeSpares
  <2>8. ResultOK(put_impl_global(seq, hit, gone))
    BY <2>7, PutGlobalOK DEF m
  <2> QED BY <1>1, <2>2, <2>8, AdoptKeeps DEF gone
<1> QED BY <1>4, <1>5 DEF put

(* The same for get. *)
LEMMA GetKeeps ==
  ASSUME CacheInv, NEW p \in Plans, NEW seq \in conf.seqs, NEW start \in 0 .. Len(seq) - 1,
         NEW strategy, get(p, seq, start, strategy)
  PROVE  CacheInv'
<1>1. ~plan[p].open
  BY DEF get
<1>2. seq \in Prefixes
  BY SeqOfConf
<1>3. "CPU" \in Tiers /\ "SSD" \in Tiers /\ "REMOTE" \in Tiers
      /\ \A t \in Tiers : t = "CPU" \/ t = "SSD" \/ t = "REMOTE"
  BY DEF Tiers
<1>4. CASE get_local(p, seq, start, strategy)
  <2> DEFINE staged == Staging(seq, start, strategy)
             node == match_local(seq, strategy)["CPU"].last_node
  <2>1. node = match_prefix(tree["CPU"], seq).last_node
    BY <1>3 DEF match_local
  <2>2. PICK gone \in IF staged > 0 THEN TakeEvicts("CPU", staged, node) ELSE {{}} :
          Adopt(p, get_impl_local(seq, start, strategy, gone))
    BY <1>4 DEF get_local
  <2>3. gone = {} \/ gone \in TakeEvicts("CPU", staged, node)
    OBVIOUS
  <2> HIDE DEF staged, node
  <2>4. node \in Prefixes
    BY <1>2, <1>3, <2>1, TierMatch
  <2>5. Spares(tree["CPU"], gone, match_prefix(tree["CPU"], seq).last_node)
    BY <1>3, <2>1, <2>3, <2>4, TakeSpares
  <2>6. ResultOK(get_impl_local(seq, start, strategy, gone))
    BY <2>5, GetLocalOK
  <2> QED BY <1>1, <2>2, <2>6, AdoptKeeps
<1>5. CASE get_global(p, seq, start, strategy)
  <2>1. PICK hit \in StoreHits(seq) :
          LET m == match_all(seq, hit)
              f == GlobalFragments(m, start)
              staged == f.f123 - f.f1
          IN \E goneC \in IF staged > 0
                            THEN TakeEvicts("CPU", staged, m["CPU"].last_node) ELSE {{}},
                goneS \in IF writes_back(m, f, start)
                            THEN TakeEvicts("SSD", f.f123 - f.f12, m["SSD"].last_node)
                            ELSE {{}} :
               Adopt(p, get_impl_global(seq, start, strategy, hit,
                                        [CPU |-> goneC, SSD |-> goneS, REMOTE |-> {}]))
    BY <1>5 DEF get_global
  <2> DEFINE m == match_all(seq, hit)
             f == GlobalFragments(m, start)
             staged == f.f123 - f.f1
  <2>2. PICK goneC \in IF staged > 0 THEN TakeEvicts("CPU", staged, m["CPU"].last_node) ELSE {{}},
             goneS \in IF writes_back(m, f, start)
                         THEN TakeEvicts("SSD", f.f123 - f.f12, m["SSD"].last_node) ELSE {{}} :
          Adopt(p, get_impl_global(seq, start, strategy, hit,
                                   [CPU |-> goneC, SSD |-> goneS, REMOTE |-> {}]))
    BY <2>1
  <2> DEFINE gone == [CPU |-> goneC, SSD |-> goneS, REMOTE |-> {}]
             num(t) == IF t = "CPU" THEN staged ELSE f.f123 - f.f12
  <2>3. gone["CPU"] = goneC /\ gone["SSD"] = goneS /\ gone["REMOTE"] = {}
    OBVIOUS
  <2>4. (goneC = {} \/ goneC \in TakeEvicts("CPU", num("CPU"), m["CPU"].last_node))
        /\ (goneS = {} \/ goneS \in TakeEvicts("SSD", num("SSD"), m["SSD"].last_node))
    <3> HIDE DEF m, f
    <3> QED OBVIOUS
  <2>5. m["CPU"] = match_prefix(tree["CPU"], seq) /\ m["SSD"] = match_prefix(tree["SSD"], seq)
    BY <1>2, <1>3, MatchAll
  <2> HIDE DEF m, f, num, staged, gone
  <2>6. m["CPU"].last_node \in Prefixes /\ m["SSD"].last_node \in Prefixes
    BY <1>2, <1>3, <2>5, TierMatch
  <2>7. Spares(tree["CPU"], goneC, m["CPU"].last_node) /\ Spares(tree["SSD"], goneS, m["SSD"].last_node)
    BY <1>3, <2>4, <2>6, TakeSpares
  <2>8. ASSUME NEW t \in Tiers
        PROVE  Spares(tree[t], gone[t], match_prefix(tree[t], seq).last_node)
    <3>1. CASE t = "REMOTE"
      BY <2>3, <3>1 DEF Spares, UpClosed
    <3> QED BY <1>3, <2>3, <2>5, <2>7, <3>1
  <2>9. ResultOK(get_impl_global(seq, start, strategy, hit, gone))
    BY <2>8, GetGlobalOK
  <2> QED BY <1>1, <2>2, <2>9, AdoptKeeps DEF gone
<1> QED BY <1>4, <1>5 DEF get

-----------------------------------------------------------------------------
(* The end of a plan. *)

(* What the end of plan P does to tier t: the plan's blocks go into the tree or
   back to the pool, its lock is released, and the nodes that are still locked
   stay, with the nodes above them. *)
Closes(T, F, U, G, B, P, t) ==
  /\ Tier(U, G, B)
  /\ G \cup BlocksOf(U.phys) = F \cup BlocksOf(T.phys) \cup StagedOf(P, t)
  /\ (\A n \in P.nodes : n.tier # t) => U.lock_cnt = T.lock_cnt
  /\ \A n \in P.nodes : n.tier = t => U.lock_cnt = [T.lock_cnt EXCEPT ![n.node] = @ - 1]
  /\ \A e, l \in T.ends : IsPrefix(e, l) /\ U.lock_cnt[l] > 0 => e \in U.ends

(* A held node stays if the nodes at and above it stay. *)
LEMMA HeldStays ==
  ASSUME NEW T, TreeTyped(T), NEW U, NEW n, HeldIn(n, T),
         \A e \in T.ends : n.node \in T.ends /\ IsPrefix(e, n.node) => e \in U.ends
  PROVE  HeldIn(n, U)
<1>1. CASE n.node = Root
  <2>1. Len(n.node) = 0 /\ n.len = 0
    BY <1>1, LenOfPrefix DEF HeldIn, Prefixes
  <2>2. HashAt(n.node, Len(n.node) - n.len) = Root
    BY <1>1, <2>1, WholePrefix DEF Prefixes
  <2> QED BY <1>1, <2>1, <2>2 DEF HeldIn
<1>2. CASE n.node # Root
  <2> DEFINE k == Len(n.node) - n.len
             b == HashAt(n.node, k)
  <2>1. n.node \in T.ends /\ n.len \in 0 .. Len(n.node) /\ b \in T.ends \cup {Root}
    BY <1>2 DEF HeldIn
  <2>2. n.node \in Prefixes /\ Len(n.node) \in Nat
    BY <2>1, EndsArePrefixes, LenOfPrefix
  <2>3. k \in 0 .. Len(n.node)
    BY <2>1, <2>2
  <2> HIDE DEF k
  <2>4. IsPrefix(b, n.node) /\ IsPrefix(n.node, n.node)
    BY <2>2, <2>3, FrontIsPrefix, PrefixOrder
  <2>5. n.node \in U.ends /\ b \in U.ends \cup {Root}
    BY <2>1, <2>4
  <2> QED BY <2>1, <2>5 DEF HeldIn, k
<1> QED BY <1>1, <1>2

(* A plan that closes tier by tier keeps the invariant: its lock goes, its staged
   blocks are in the pool or in the tree. *)
LEMMA PlanCloses ==
  ASSUME CacheInv, NEW p \in Open, plan' = [plan EXCEPT ![p] = None],
         conf' = conf, conflict' = conflict,
         tree' = [t \in Tiers |-> tree'[t]], free' = [t \in Tiers |-> free'[t]],
         \A t \in Tiers : Closes(tree[t], free[t], tree'[t], free'[t], Blocks[t], plan[p], t)
  PROVE  CacheInv'
<1>1. /\ conf \in Configs /\ conflict = FALSE
      /\ plan = [q \in Plans |-> plan[q]] /\ \A q \in Plans : plan[q].open \in BOOLEAN
  BY DEF CacheInv, CacheTypes
<1>2. Blocks' = Blocks
  BY DEF Blocks
<1>3. /\ p \in Plans /\ plan'[p] = None /\ \A q \in Plans : q # p => plan'[q] = plan[q]
      /\ plan' = [q \in Plans |-> plan'[q]]
  BY <1>1 DEF Open
<1>4. None.open = FALSE
  BY DEF None
<1>5. Open' = Open \ {p}
  BY <1>1, <1>3, <1>4 DEF Open
<1>6. \A q \in Open' : q \in Open /\ q # p /\ plan'[q] = plan[q]
  BY <1>3, <1>5 DEF Open
<1>7. CacheTypes'
  <2>1. \A q \in Plans : plan'[q].open \in BOOLEAN
    BY <1>1, <1>3, <1>4
  <2> QED BY <1>1, <1>3, <2>1 DEF CacheTypes
<1>8. ASSUME NEW t \in Tiers
      PROVE  AccountOf(tree'[t], free'[t], Blocks'[t], Open', plan', t)
  <2> DEFINE S == StagedOf(plan[p], t)
             old == free[t] \cup BlocksOf(tree[t].phys)
             new == free'[t] \cup BlocksOf(tree'[t].phys)
             staged(q) == StagedOf(plan[q], t)
  <2>1. Tier(tree'[t], free'[t], Blocks[t]) /\ new = old \cup S
    BY DEF Closes
  <2>2. /\ \A q \in Open : staged(q) \cap old = {}
        /\ \A q, o \in Open : q # o => staged(q) \cap staged(o) = {}
        /\ old \cup UNION {staged(q) : q \in Open} = Blocks[t]
    BY DEF CacheInv, AccountOf
  <2>3. \A q \in Open' : StagedOf(plan'[q], t) = staged(q)
    BY <1>6
  <2>4. S = staged(p)
    OBVIOUS
  <2> HIDE DEF S, old, staged
  <2>5. \A q \in Open' : StagedOf(plan'[q], t) \cap new = {}
    BY <1>6, <2>1, <2>2, <2>3, <2>4
  <2>6. \A q, o \in Open' : q # o => StagedOf(plan'[q], t) \cap StagedOf(plan'[o], t) = {}
    BY <1>6, <2>2, <2>3
  <2>7. {StagedOf(plan'[q], t) : q \in Open'} = {staged(q) : q \in Open'}
    BY <2>3
  <2>8. {staged(q) : q \in Open} = {staged(q) : q \in Open'} \cup {S}
    BY <1>5, <2>4
  <2>9. new \cup UNION {StagedOf(plan'[q], t) : q \in Open'} = Blocks[t]
    BY <2>1, <2>2, <2>7, <2>8
  <2> QED BY <1>2, <2>1, <2>5, <2>6, <2>9 DEF AccountOf
<1>9. ASSUME NEW t \in Tiers, NEW e \in Prefixes
      PROVE  tree'[t].lock_cnt[e] = Cardinality(Holders(Open', plan', t, e))
  <2> DEFINE H == Holders(Open, plan, t, e)
  <2>1. tree[t].lock_cnt[e] = Cardinality(H) /\ tree[t].lock_cnt \in [Prefixes -> Nat]
    BY DEF CacheInv, LocksCounted, AccountOf, Tier, Shape, TreeTyped
  <2>2. IsFiniteSet(H)
    BY CacheAssumption, FS_Subset DEF Holders, Open
  <2>3. Holders(Open', plan', t, e) = H \ {p}
    BY <1>5, <1>6 DEF Holders
  <2>4. p \in H <=> \E n \in plan[p].nodes : n.tier = t /\ n.node = e
    BY DEF Holders
  <2>5. Closes(tree[t], free[t], tree'[t], free'[t], Blocks[t], plan[p], t)
    OBVIOUS
  <2> HIDE DEF H
  <2>6. CASE p \in H
    <3>1. PICK n \in plan[p].nodes : n.tier = t /\ n.node = e
      BY <2>4, <2>6
    <3>2. tree'[t].lock_cnt = [tree[t].lock_cnt EXCEPT ![n.node] = @ - 1]
      BY <2>5, <3>1 DEF Closes
    <3>3. tree'[t].lock_cnt[e] = tree[t].lock_cnt[e] - 1
      BY <2>1, <3>1, <3>2
    <3>4. Cardinality(H \ {p}) = Cardinality(H) - 1
      BY <2>2, <2>6, FS_RemoveElement
    <3> QED BY <2>1, <2>3, <3>3, <3>4
  <2>7. CASE p \notin H
    <3>1. H \ {p} = H
      BY <2>7
    <3>2. tree'[t].lock_cnt[e] = tree[t].lock_cnt[e]
      <4>1. CASE \A n \in plan[p].nodes : n.tier # t
        BY <2>5, <4>1 DEF Closes
      <4>2. CASE \E n \in plan[p].nodes : n.tier = t
        <5>1. PICK n \in plan[p].nodes : n.tier = t
          BY <4>2
        <5>2. tree'[t].lock_cnt = [tree[t].lock_cnt EXCEPT ![n.node] = @ - 1]
          BY <2>5, <5>1 DEF Closes
        <5>3. n.node # e
          BY <2>4, <2>7, <5>1
        <5> QED BY <2>1, <5>2, <5>3
      <4> QED BY <4>1, <4>2
    <3> QED BY <2>1, <2>3, <3>1, <3>2
  <2> QED BY <2>6, <2>7
<1>10. ASSUME NEW q \in Open' PROVE PlanOK(plan'[q], tree', Blocks')
  <2>1. q \in Open /\ plan'[q] = plan[q] /\ PlanOK(plan[q], tree, Blocks)
    BY <1>6 DEF CacheInv
  <2>2. ASSUME NEW n \in plan[q].nodes PROVE n.tier \in Tiers /\ HeldIn(n, tree'[n.tier])
    <3>1. n.tier \in Tiers /\ HeldIn(n, tree[n.tier]) /\ n.node \in Prefixes
      BY <2>1, HeldIsLocked DEF PlanOK, NodesOK
    <3>2. TreeTyped(tree[n.tier])
      BY <3>1 DEF CacheInv, AccountOf, Tier, Shape
    <3> DEFINE H == Holders(Open', plan', n.tier, n.node)
    <3>3. q \in H
      BY <2>1 DEF Holders
    <3>4. IsFiniteSet(H)
      BY <1>5, CacheAssumption, FS_Subset DEF Holders, Open
    <3>5. Cardinality(H) \in Nat /\ Cardinality(H) # 0
      BY <3>3, <3>4, FS_CardinalityType, FS_EmptySet
    <3>6. tree'[n.tier].lock_cnt[n.node] = Cardinality(H)
      BY <1>9, <3>1
    <3> HIDE DEF H
    <3>7. tree'[n.tier].lock_cnt[n.node] > 0
      BY <3>5, <3>6
    <3>8. \A e, l \in tree[n.tier].ends :
            IsPrefix(e, l) /\ tree'[n.tier].lock_cnt[l] > 0 => e \in tree'[n.tier].ends
      BY <3>1 DEF Closes
    <3> QED BY <3>1, <3>2, <3>7, <3>8, HeldStays
  <2>3. NodesOK(plan[q].nodes, tree')
    BY <2>1, <2>2 DEF PlanOK, NodesOK
  <2> QED BY <1>2, <2>1, <2>3 DEF PlanOK
<1>11. LocksCounted(tree', Open', plan')
  BY <1>9 DEF LocksCounted
<1> QED BY <1>7, <1>8, <1>10, <1>11 DEF CacheInv

(* A deferred insert goes into the tree as far as its data came and nobody was
   faster; what it does not use goes back. *)
LEMMA PublishEnd ==
  ASSUME NEW d, NEW blocks, DeferredOK(d, blocks), NEW loaded
  PROVE  publish_end(d, loaded) \in Nat /\ publish_end(d, loaded) <= d.to
<1>1. d.remote \in Nat /\ d.to \in Nat /\ d.remote <= d.to
  BY DEF DeferredOK
<1> DEFINE S == {n \in d.remote .. d.to :
                   \A i \in d.remote + 1 .. n : HashAt(d.seq, i) \in loaded}
<1>2. S \in SUBSET Nat /\ d.remote \in S /\ \A n \in S : n <= d.to
  BY <1>1
<1>3. Greatest(S) \in S
  <2> HIDE DEF S
  <2> QED BY <1>1, <1>2, GreatestOf
<1>4. publish_end(d, loaded) = IF d.load THEN Greatest(S) ELSE d.to
  BY DEF publish_end
<1>5. publish_end(d, loaded) = Greatest(S) \/ publish_end(d, loaded) = d.to
  <2> DEFINE g == Greatest(S)
  <2> HIDE DEF g
  <2> QED BY <1>4 DEF g
<1> HIDE DEF S
<1>6. Greatest(S) \in Nat /\ Greatest(S) <= d.to
  BY <1>2, <1>3
<1> QED BY <1>1, <1>5, <1>6

(* A deferred insert whose blocks are out of pool and tree of its tier; and
   what the commit makes of the tier. *)
Committable(T, F, B, d) ==
  /\ Tier(T, F, B)
  /\ \E blocks : DeferredOK(d, blocks) /\ blocks[d.tier] = B
  /\ BlocksOf(d.blocks) \cap (F \cup BlocksOf(T.phys)) = {}

Committed(T, F, B, d, c) ==
  /\ Tier(c.tree, F \cup c.unused, B)
  /\ (F \cup c.unused) \cup BlocksOf(c.tree.phys)
       = F \cup BlocksOf(T.phys) \cup BlocksOf(d.blocks)
  /\ c.tree.lock_cnt = T.lock_cnt /\ T.ends \subseteq c.tree.ends

(* The commit puts the blocks it uses in the tree and the others back in the
   pool, and takes no node and no lock away. *)
LEMMA CommitTier ==
  ASSUME NEW T, NEW F, NEW B, NEW d, NEW loaded, Committable(T, F, B, d)
  PROVE  Committed(T, F, B, d, commit_deferred_insert(T, d, loaded))
<1> DEFINE c == commit_deferred_insert(T, d, loaded)
<1> SUFFICES /\ Tier(c.tree, F \cup c.unused, B)
             /\ (F \cup c.unused) \cup BlocksOf(c.tree.phys)
                  = F \cup BlocksOf(T.phys) \cup BlocksOf(d.blocks)
             /\ c.tree.lock_cnt = T.lock_cnt /\ T.ends \subseteq c.tree.ends
  BY DEF Committed
<1>a. PICK blocks : DeferredOK(d, blocks) /\ blocks[d.tier] = B
  BY DEF Committable
<1>b. Tier(T, F, B) /\ BlocksOf(d.blocks) \cap (F \cup BlocksOf(T.phys)) = {}
  BY DEF Committable
<1> DEFINE end == publish_end(d, loaded)
           m == match_prefix(T, d.seq)
           used == {HashAt(d.seq, i) : i \in m.matched + 1 .. end}
           part == [h \in used |-> d.blocks[h]]
           grown == insert(T, d.seq, m.matched, end, part)
           refused == m.matched # m.ready \/ m.matched < d.from \/ m.matched >= end
<1>1. c = IF refused THEN [tree |-> T, unused |-> Unused(d, {})]
          ELSE [tree |-> set_ready(grown, HashAt(d.seq, end), end - m.matched),
                unused |-> Unused(d, used)]
  BY DEF commit_deferred_insert
<1> HIDE DEF c
<1>2. /\ d.seq \in Prefixes /\ d.from \in Nat /\ d.to \in Nat /\ d.to <= Len(d.seq)
      /\ Len(d.seq) \in Nat
      /\ DOMAIN d.blocks = Stretch(d.seq, d.from, d.to)
      /\ d.blocks \in [DOMAIN d.blocks -> B] /\ Injective(d.blocks)
  BY <1>a, LenOfPrefix DEF DeferredOK
<1>3. end \in Nat /\ end <= d.to
  BY <1>a, PublishEnd
<1>4. /\ Shape(T) /\ LeavesExact(T) /\ F \subseteq B /\ F \cap BlocksOf(T.phys) = {}
      /\ T.phys \in [Cached(T) -> B] /\ Injective(T.phys)
  BY <1>b DEF Tier
<1>5. /\ m.matched \in 0 .. Len(d.seq)
      /\ HashAt(d.seq, m.matched) \in Cached(T) \cup {Root}
      /\ m.matched < Len(d.seq) => HashAt(d.seq, m.matched + 1) \notin Cached(T)
  BY <1>2, <1>4, MatchOf
<1> DEFINE all == F \cup BlocksOf(d.blocks)
<1>6. BlocksOf(d.blocks) \subseteq B
  BY <1>2 DEF BlocksOf
<1>7. Tier(T, all, B)
  <2>1. all \subseteq B /\ all \cap BlocksOf(T.phys) = {}
    BY <1>4, <1>6, <1>b
  <2> HIDE DEF all
  <2> QED BY <1>4, <2>1 DEF Tier
<1> HIDE DEF end, m
<1>8. CASE refused
  <2>1. c.tree = T /\ c.unused = Unused(d, {})
    BY <1>1, <1>8
  <2>2. Unused(d, {}) = BlocksOf(d.blocks)
    BY DEF Unused, BlocksOf
  <2>3. F \cup c.unused = all
    BY <2>1, <2>2
  <2>4. all \cup BlocksOf(T.phys) = F \cup BlocksOf(T.phys) \cup BlocksOf(d.blocks)
    OBVIOUS
  <2>5. /\ Tier(c.tree, F \cup c.unused, B)
        /\ (F \cup c.unused) \cup BlocksOf(c.tree.phys)
             = F \cup BlocksOf(T.phys) \cup BlocksOf(d.blocks)
        /\ c.tree.lock_cnt = T.lock_cnt /\ T.ends \subseteq c.tree.ends
    BY <1>7, <2>1, <2>3, <2>4
  <2> QED BY <2>5
<1>9. CASE ~refused
  <2>1. m.matched \in Nat /\ m.matched >= d.from /\ m.matched < end /\ end <= Len(d.seq)
        /\ m.matched < Len(d.seq)
    BY <1>2, <1>3, <1>5, <1>9
  <2>2. c.tree = set_ready(grown, HashAt(d.seq, end), end - m.matched) /\ c.unused = Unused(d, used)
    <3> HIDE DEF grown, used, refused
    <3> QED BY <1>1, <1>9
  <2>3. used = Stretch(d.seq, m.matched, end)
    BY DEF Stretch
  <2>4. used \subseteq DOMAIN d.blocks
    <3>1. \A h \in used : h \in Prefixes /\ IsPrefix(h, d.seq) /\ Len(h) > m.matched /\ Len(h) <= end
          /\ Len(h) \in Nat
      <4> HIDE DEF used
      <4> QED BY <1>2, <1>3, <2>1, <2>3, StretchOf, LenOfPrefix DEF Prefixes
    <3> HIDE DEF used
    <3>2. \A h \in used : h \in Prefixes /\ IsPrefix(h, d.seq) /\ Len(h) > d.from /\ Len(h) <= d.to
      BY <1>2, <1>3, <2>1, <3>1
    <3> QED BY <1>2, <3>2, StretchOf
  <2>5. DOMAIN part = used /\ \A h \in used : part[h] = d.blocks[h]
    OBVIOUS
  <2>6. part = [h \in used |-> part[h]]
    OBVIOUS
  <2> HIDE DEF used, part
  <2>7. part \in [DOMAIN part -> all] /\ Injective(part)
    <3>1. \A h \in used : part[h] \in all
      BY <2>4, <2>5 DEF BlocksOf
    <3>2. part \in [DOMAIN part -> all]
      BY <2>5, <2>6, <3>1
    <3>3. Injective(part)
      BY <1>2, <2>4, <2>5 DEF Injective
    <3> QED BY <3>2, <3>3
  <2>8. GoodTarget(T, d.seq, m.matched, end, part)
    <3>1. end \in m.matched + 1 .. Len(d.seq)
      BY <1>2, <1>3, <2>1
    <3> QED BY <1>2, <1>5, <2>1, <2>3, <2>5, <3>1 DEF GoodTarget
  <2> HIDE DEF all
  <2>9. /\ Tier(grown, all \ BlocksOf(part), B) /\ Evolves(T, all, grown, all \ BlocksOf(part), {})
        /\ T.ends \subseteq grown.ends
    BY <1>7, <2>7, <2>8, InsertTier
  <2> HIDE DEF grown
  <2>10. all \ BlocksOf(part) = F \cup Unused(d, used)
    <3>1. ASSUME NEW b \in F PROVE b \notin BlocksOf(part)
      <4>1. \A h \in used : part[h] \in BlocksOf(d.blocks)
        BY <2>4, <2>5 DEF BlocksOf
      <4> QED BY <1>b, <2>5, <4>1 DEF BlocksOf
    <3>2. BlocksOf(d.blocks) \ BlocksOf(part) = Unused(d, used)
      <4>1. \A h \in DOMAIN d.blocks : d.blocks[h] \in BlocksOf(part) <=> h \in used
        BY <1>2, <2>4, <2>5 DEF BlocksOf, Injective
      <4> QED BY <4>1 DEF BlocksOf, Unused
    <3> QED BY <3>1, <3>2 DEF all
  <2>11. /\ c.tree.phys = grown.phys /\ c.tree.ends = grown.ends /\ c.tree.lock_cnt = grown.lock_cnt
         /\ c.tree.leaf_nodes = grown.leaf_nodes
         /\ c.tree.is_ready \subseteq grown.is_ready \cup grown.ends
    BY <2>2 DEF set_ready, TreeOf
  <2>12. grown.is_ready \subseteq grown.ends /\ grown.lock_cnt \in [Prefixes -> Nat]
    BY <2>9 DEF Tier, Shape, TreeTyped
  <2>13. Tier(c.tree, F \cup c.unused, B)
    <3>1. Tier(c.tree, all \ BlocksOf(part), B)
      BY <2>9, <2>11, <2>12, SameTier
    <3> QED BY <2>2, <2>10, <3>1
  <2>14. (F \cup c.unused) \cup BlocksOf(c.tree.phys)
           = F \cup BlocksOf(T.phys) \cup BlocksOf(d.blocks)
    <3>1. (all \ BlocksOf(part)) \cup BlocksOf(grown.phys) \cup {} = all \cup BlocksOf(T.phys)
      BY <2>9 DEF Evolves
    <3>2. all = F \cup BlocksOf(d.blocks)
      BY DEF all
    <3> QED BY <2>2, <2>10, <2>11, <3>1, <3>2
  <2>15. c.tree.lock_cnt = T.lock_cnt /\ T.ends \subseteq c.tree.ends
    BY <2>9, <2>11 DEF Evolves
  <2> QED BY <2>13, <2>14, <2>15
<1> QED BY <1>8, <1>9

(* Locks of a plan released. *)
LEMMA UnlockOf ==
  ASSUME NEW T, NEW e
  PROVE  LET U == unlock(T, e) IN
         /\ U.phys = T.phys /\ U.ends = T.ends /\ U.is_ready = T.is_ready
         /\ U.lock_cnt = [T.lock_cnt EXCEPT ![e] = @ - 1] /\ U.leaf_nodes = T.leaf_nodes
BY DEF unlock, TreeOf

(* The lock count of a node that an open plan holds can be taken down. *)
LEMMA UnlockTyped ==
  ASSUME CacheInv, NEW p \in Open, NEW n \in plan[p].nodes
  PROVE  [tree[n.tier].lock_cnt EXCEPT ![n.node] = @ - 1] \in [Prefixes -> Nat]
<1>1. n.tier \in Tiers /\ n.node \in Prefixes /\ tree[n.tier].lock_cnt[n.node] > 0
  BY HeldIsLocked
<1>2. tree[n.tier].lock_cnt \in [Prefixes -> Nat]
  BY <1>1 DEF CacheInv, AccountOf, Tier, Shape, TreeTyped
<1> DEFINE l == tree[n.tier].lock_cnt
<1> HIDE DEF l
<1>3. l \in [Prefixes -> Nat] /\ l[n.node] > 0
  BY <1>1, <1>2 DEF l
<1>4. l[n.node] - 1 \in Nat
  BY <1>1, <1>3
<1> QED BY <1>1, <1>3, <1>4 DEF l

(* What a plan stages is apart from pool and tree. *)
LEMMA StagedApart ==
  ASSUME CacheInv, NEW p \in Open, NEW t \in Tiers
  PROVE  /\ Tier(tree[t], free[t], Blocks[t])
         /\ StagedOf(plan[p], t) \cap (free[t] \cup BlocksOf(tree[t].phys)) = {}
         /\ StagedOf(plan[p], t) \subseteq Blocks[t]
<1>1. AccountOf(tree[t], free[t], Blocks[t], Open, plan, t)
  BY DEF CacheInv
<1> QED BY <1>1 DEF AccountOf

(* _transfer_callback: deferred inserts are committed, locks released. *)
LEMMA CompleteKeeps ==
  ASSUME CacheInv, NEW p \in Open, transfer_callback(p)
  PROVE  CacheInv'
<1> DEFINE P == plan[p]
           done(t) ==
             IF \E d \in plan[p].deferred : d.tier = t
               THEN commit_deferred_insert(tree[t],
                      CHOOSE d \in plan[p].deferred : d.tier = t, plan[p].loaded)
               ELSE [tree |-> tree[t], unused |-> {}]
           freed(t) == done(t).unused \cup IF t = "CPU" THEN plan[p].buffer ELSE {}
           final(t) ==
             IF \E n \in plan[p].nodes : n.tier = t
               THEN LET n == CHOOSE n \in plan[p].nodes : n.tier = t
                    IN set_ready(unlock(done(t).tree, n.node), n.node, n.len)
               ELSE done(t).tree
<1>1. /\ tree' = [t \in Tiers |-> final(t)]
      /\ free' = [t \in Tiers |-> free[t] \cup done(t).unused \cup
                    IF t = "CPU" THEN plan[p].buffer ELSE {}]
      /\ plan' = [plan EXCEPT ![p] = None]
      /\ conflict' = conflict /\ conf' = conf
  BY DEF transfer_callback
<1>2. PlanOK(P, tree, Blocks)
  BY DEF CacheInv
<1>3. ASSUME NEW t \in Tiers
      PROVE  /\ Tier(done(t).tree, free'[t], Blocks[t])
             /\ free'[t] \cup BlocksOf(done(t).tree.phys)
                  = free[t] \cup BlocksOf(tree[t].phys) \cup StagedOf(P, t)
             /\ done(t).tree.lock_cnt = tree[t].lock_cnt
             /\ tree[t].ends \subseteq done(t).tree.ends
  <2> DEFINE D == done(t)
             buffer == IF t = "CPU" THEN plan[p].buffer ELSE {}
  <2>1. free'[t] = free[t] \cup D.unused \cup buffer
    BY <1>1
  <2>2. /\ Tier(tree[t], free[t], Blocks[t])
        /\ StagedOf(P, t) \cap (free[t] \cup BlocksOf(tree[t].phys)) = {}
        /\ StagedOf(P, t) \subseteq Blocks[t]
    BY StagedApart
  <2>3. CASE \E d \in P.deferred : d.tier = t
    <3>1. PICK d \in P.deferred : d.tier = t
      BY <2>3
    <3>2. \A e \in P.deferred : e.tier = t => e = d
      BY <1>2, <3>1 DEF PlanOK
    <3>3. (CHOOSE e \in P.deferred : e.tier = t) = d
      BY <3>1, <3>2
    <3>4. D = commit_deferred_insert(tree[t], d, P.loaded)
      BY <2>3, <3>3
    <3>5. P.buffer = {} /\ buffer = {}
      BY <1>2, <3>1 DEF PlanOK
    <3>6. StagedOf(P, t) = BlocksOf(d.blocks)
      BY <3>1, <3>2, <3>5, StagedDeferred
    <3>7. DeferredOK(d, Blocks) /\ Blocks[d.tier] = Blocks[t]
      BY <1>2, <3>1 DEF PlanOK
    <3> HIDE DEF D, buffer
    <3>8. /\ Tier(D.tree, free[t] \cup D.unused, Blocks[t])
          /\ (free[t] \cup D.unused) \cup BlocksOf(D.tree.phys)
               = free[t] \cup BlocksOf(tree[t].phys) \cup BlocksOf(d.blocks)
          /\ D.tree.lock_cnt = tree[t].lock_cnt /\ tree[t].ends \subseteq D.tree.ends
      <4>1. Committable(tree[t], free[t], Blocks[t], d)
        BY <2>2, <3>6, <3>7 DEF Committable
      <4>2. Committed(tree[t], free[t], Blocks[t], d, D)
        BY <3>4, <4>1, CommitTier
      <4> QED BY <4>2 DEF Committed
    <3>9. free'[t] = free[t] \cup D.unused
      BY <2>1, <3>5
    <3>10. /\ Tier(D.tree, free'[t], Blocks[t])
           /\ free'[t] \cup BlocksOf(D.tree.phys)
                = free[t] \cup BlocksOf(tree[t].phys) \cup StagedOf(P, t)
           /\ D.tree.lock_cnt = tree[t].lock_cnt
           /\ tree[t].ends \subseteq D.tree.ends
      BY <3>6, <3>8, <3>9
    <3> QED BY <3>10 DEF D
  <2>4. CASE ~\E d \in P.deferred : d.tier = t
    <3>1. D = [tree |-> tree[t], unused |-> {}]
      BY <2>4
    <3> HIDE DEF D
    <3>2. D.tree = tree[t] /\ D.unused = {}
      BY <3>1
    <3>3. StagedOf(P, t) = buffer
      BY <2>4, StagedNothing
    <3> HIDE DEF D, buffer
    <3>4. free'[t] = free[t] \cup StagedOf(P, t)
      BY <2>1, <3>2, <3>3
    <3>5. Tier(tree[t], free'[t], Blocks[t])
      <4> DEFINE S == StagedOf(P, t)
      <4> HIDE DEF S
      <4>1. S \subseteq Blocks[t] /\ S \cap (free[t] \cup BlocksOf(tree[t].phys)) = {}
            /\ free'[t] = free[t] \cup S
        BY <2>2, <3>4 DEF S
      <4>2. free'[t] \subseteq Blocks[t] /\ free'[t] \cap BlocksOf(tree[t].phys) = {}
        BY <2>2, <4>1 DEF Tier
      <4> QED BY <2>2, <4>2 DEF Tier
    <3>6. /\ Tier(D.tree, free'[t], Blocks[t])
          /\ free'[t] \cup BlocksOf(D.tree.phys)
               = free[t] \cup BlocksOf(tree[t].phys) \cup StagedOf(P, t)
          /\ D.tree.lock_cnt = tree[t].lock_cnt
          /\ tree[t].ends \subseteq D.tree.ends
      BY <3>2, <3>4, <3>5
    <3> QED BY <3>6 DEF D
  <2> QED BY <2>3, <2>4
<1>4. ASSUME NEW t \in Tiers
      PROVE  Closes(tree[t], free[t], tree'[t], free'[t], Blocks[t], P, t)
  <2> DEFINE V == done(t).tree
  <2>1. /\ Tier(V, free'[t], Blocks[t])
        /\ free'[t] \cup BlocksOf(V.phys) = free[t] \cup BlocksOf(tree[t].phys) \cup StagedOf(P, t)
        /\ V.lock_cnt = tree[t].lock_cnt
        /\ tree[t].ends \subseteq V.ends
    BY <1>3
  <2>2. tree'[t] = final(t)
    BY <1>1
  <2>3. CASE \E n \in P.nodes : n.tier = t
    <3>1. PICK n \in P.nodes : n.tier = t
      BY <2>3
    <3>2. \A o \in P.nodes : o.tier = t => o = n
      BY <1>2, <3>1 DEF PlanOK, NodesOK
    <3>3. (CHOOSE o \in P.nodes : o.tier = t) = n
      BY <3>1, <3>2
    <3>4. tree'[t] = set_ready(unlock(V, n.node), n.node, n.len)
      BY <2>2, <2>3, <3>3
    <3> HIDE DEF V
    <3>5. /\ tree'[t].phys = V.phys /\ tree'[t].ends = V.ends
          /\ tree'[t].leaf_nodes = V.leaf_nodes
          /\ tree'[t].lock_cnt = [V.lock_cnt EXCEPT ![n.node] = @ - 1]
          /\ tree'[t].is_ready \subseteq V.is_ready \cup V.ends
      BY <3>4 DEF set_ready, unlock, TreeOf
    <3>6. tree'[t].lock_cnt \in [Prefixes -> Nat]
      <4>1. [tree[t].lock_cnt EXCEPT ![n.node] = @ - 1] \in [Prefixes -> Nat]
        BY <3>1, UnlockTyped
      <4> QED BY <2>1, <3>5, <4>1
    <3>7. V.is_ready \subseteq V.ends
      BY <2>1 DEF Tier, Shape, TreeTyped
    <3>8. Tier(tree'[t], free'[t], Blocks[t])
      BY <2>1, <3>5, <3>6, <3>7, SameTier
    <3>9. free'[t] \cup BlocksOf(tree'[t].phys)
            = free[t] \cup BlocksOf(tree[t].phys) \cup StagedOf(P, t)
      BY <2>1, <3>5
    <3>10. \A o \in P.nodes : o.tier = t =>
             tree'[t].lock_cnt = [tree[t].lock_cnt EXCEPT ![o.node] = @ - 1]
      <4> SUFFICES ASSUME NEW o \in P.nodes, o.tier = t
                   PROVE  tree'[t].lock_cnt = [tree[t].lock_cnt EXCEPT ![o.node] = @ - 1]
        OBVIOUS
      <4>1. o = n
        BY <3>2
      <4> QED BY <2>1, <3>5, <4>1
    <3>11. \A e, l \in tree[t].ends : IsPrefix(e, l) /\ tree'[t].lock_cnt[l] > 0 => e \in tree'[t].ends
      BY <2>1, <3>5
    <3> QED BY <3>1, <3>8, <3>9, <3>10, <3>11 DEF Closes
  <2>4. CASE ~\E n \in P.nodes : n.tier = t
    <3>1. tree'[t] = V
      BY <2>2, <2>4
    <3> HIDE DEF V
    <3> QED BY <2>1, <2>4, <3>1 DEF Closes
  <2> QED BY <2>3, <2>4
<1>5. tree' = [t \in Tiers |-> tree'[t]] /\ free' = [t \in Tiers |-> free'[t]]
  BY <1>1
<1> HIDE DEF done, final, freed
<1> QED BY <1>1, <1>4, <1>5, PlanCloses

(* A leaf that is not ready and not locked can be taken out: nothing is below
   it, and no node that is locked is above it or at it. *)
LEMMA UnreadyLeafSpares ==
  ASSUME NEW T, Shape(T), NEW e \in T.ends \cup {Root}
  PROVE  Spares(T, UnreadyLeaf(T, e), Root)
<1> DEFINE gone == UnreadyLeaf(T, e)
<1>1. CASE gone = {}
  BY <1>1 DEF Spares, UpClosed
<1>2. CASE gone # {}
  <2>1. e # Root /\ T.lock_cnt[e] = 0 /\ is_leaf(T, e) /\ gone = Run(T, e) /\ e \in T.ends
    BY <1>2 DEF UnreadyLeaf
  <2> HIDE DEF gone
  <2>2. /\ Run(T, e) \subseteq Cached(T)
        /\ \A q \in Prefixes : q \in Run(T, e) <=> IsPrefix(q, e) /\ Len(q) > Len(Parent(T, e))
        /\ \A q \in Run(T, e) : NodeOf(T, q) = e
    BY <2>1, RunOf
  <2>3. Cached(T) \subseteq Prefixes /\ T.ends \subseteq Cached(T) /\ Root \notin T.ends
    BY EndsArePrefixes DEF Shape, TreeTyped
  <2>4. ASSUME NEW q \in gone, NEW g \in T.ends, IsPrefix(q, g) PROVE g = e
    <3>1. IsPrefix(e, g)
      BY <2>1, <2>2, <2>4, NodeIsAbove
    <3> QED BY <2>1, <2>3, <3>1 DEF is_leaf
  <2>5. ASSUME NEW q \in gone, NEW p \in Cached(T), IsPrefix(q, p) PROVE p \in gone
    <3>1. PICK g \in T.ends : IsPrefix(p, g)
      BY DEF Shape, Covered
    <3>2. q \in Prefixes /\ p \in Prefixes /\ g \in Prefixes /\ e \in Prefixes
      BY <2>1, <2>2, <2>3
    <3>3. IsPrefix(q, g)
      BY <2>5, <3>1, <3>2, PrefixTrans
    <3>4. g = e
      BY <2>4, <3>3
    <3>5. Len(q) <= Len(p) /\ Len(q) \in Nat /\ Len(p) \in Nat
      BY <2>5, <3>2, PrefixOrder, LenOfPrefix
    <3>6. Len(q) > Len(Parent(T, e)) /\ Len(Parent(T, e)) \in Nat
      BY <2>1, <2>2, <3>2, ParentOf DEF Shape
    <3>7. Len(p) > Len(Parent(T, e))
      BY <3>5, <3>6
    <3> QED BY <2>1, <2>2, <3>1, <3>2, <3>4, <3>7
  <2>6. UpClosed(T, gone)
    BY <2>1, <2>2, <2>5 DEF UpClosed
  <2>7. \A q \in gone : \A g \in T.ends : IsPrefix(q, g) => T.lock_cnt[g] = 0 /\ g # Root
    BY <2>1, <2>3, <2>4
  <2>8. Spares(T, gone, Root)
    BY <2>6, <2>7 DEF Spares
  <2> QED BY <2>8 DEF gone
<1> QED BY <1>1, <1>2

(* Blocks given back. *)
LEMMA ReturnTier ==
  ASSUME NEW T, NEW F, NEW B, Tier(T, F, B), NEW S, S \subseteq B, S \cap BlocksOf(T.phys) = {}
  PROVE  Tier(T, F \cup S, B)
BY DEF Tier

(* _abort_transfer_plan: locks are released, then unready leaves taken out. *)
LEMMA AbortKeeps ==
  ASSUME CacheInv, NEW p \in Open, abort_transfer_plan(p)
  PROVE  CacheInv'
<1> DEFINE P == plan[p]
           held(t) == {n \in plan[p].nodes : n.tier = t}
           unlocked(t) == IF held(t) = {} THEN tree[t]
                          ELSE unlock(tree[t], (CHOOSE n \in held(t) : TRUE).node)
           gone(t) == UNION {RolledBack(unlocked(t), n.node) : n \in held(t)}
<1>1. /\ tree' = [t \in Tiers |-> Without(unlocked(t), gone(t))]
      /\ free' = [t \in Tiers |-> FreeAfter(t, gone(t)) \cup Staged(p, t)]
      /\ plan' = [plan EXCEPT ![p] = None]
      /\ conflict' = conflict /\ conf' = conf
  BY DEF abort_transfer_plan
<1>2. PlanOK(P, tree, Blocks)
  BY DEF CacheInv
<1>3. ASSUME NEW t \in Tiers
      PROVE  Closes(tree[t], free[t], tree'[t], free'[t], Blocks[t], P, t)
  <2> DEFINE V == unlocked(t)
             g == gone(t)
             S == StagedOf(P, t)
             G == free[t] \cup {tree[t].phys[h] : h \in g}
  <2>1. tree'[t] = Without(V, g) /\ free'[t] = G \cup S
    <3>1. Staged(p, t) = S
      BY DEF Staged, StagedOf, Awaited
    <3>2. FreeAfter(t, g) = G
      BY DEF FreeAfter
    <3>3. tree'[t] = Without(V, g) /\ free'[t] = FreeAfter(t, g) \cup Staged(p, t)
      BY <1>1
    <3> HIDE DEF G, S, g, V
    <3> QED BY <3>1, <3>2, <3>3
  <2>2. /\ Tier(tree[t], free[t], Blocks[t])
        /\ S \cap (free[t] \cup BlocksOf(tree[t].phys)) = {}
        /\ S \subseteq Blocks[t]
    BY StagedApart
  <2>3. /\ V.phys = tree[t].phys /\ V.ends = tree[t].ends /\ V.is_ready = tree[t].is_ready
        /\ V.leaf_nodes = tree[t].leaf_nodes /\ V.lock_cnt \in [Prefixes -> Nat]
        /\ (\A n \in P.nodes : n.tier # t) => V.lock_cnt = tree[t].lock_cnt
        /\ \A n \in P.nodes : n.tier = t => V.lock_cnt = [tree[t].lock_cnt EXCEPT ![n.node] = @ - 1]
        /\ Spares(V, g, Root)
    <3>1. CASE held(t) = {}
      <4>1. V = tree[t] /\ g = {} /\ \A n \in P.nodes : n.tier # t
        BY <3>1
      <4>2. V.lock_cnt \in [Prefixes -> Nat]
        BY <2>2, <4>1 DEF Tier, Shape, TreeTyped
      <4>3. Spares(V, {}, Root)
        BY DEF Spares, UpClosed
      <4> HIDE DEF V, g
      <4> QED BY <4>1, <4>2, <4>3
    <3>2. CASE held(t) # {}
      <4>1. PICK n \in P.nodes : n.tier = t
        BY <3>2
      <4>2. \A o \in P.nodes : o.tier = t => o = n
        BY <1>2, <4>1 DEF PlanOK, NodesOK
      <4>3. held(t) = {n}
        BY <4>1, <4>2
      <4>4. V = unlock(tree[t], n.node)
        BY <3>2, <4>3
      <4>5. g = RolledBack(V, n.node)
        <5>1. g = UNION {RolledBack(V, o.node) : o \in held(t)}
          OBVIOUS
        <5> HIDE DEF V, held, g
        <5>2. {RolledBack(V, o.node) : o \in held(t)} = {RolledBack(V, n.node)}
          BY <4>3
        <5> QED BY <5>1, <5>2
      <4> HIDE DEF V, g, held
      <4>6. /\ V.phys = tree[t].phys /\ V.ends = tree[t].ends /\ V.is_ready = tree[t].is_ready
            /\ V.leaf_nodes = tree[t].leaf_nodes
            /\ V.lock_cnt = [tree[t].lock_cnt EXCEPT ![n.node] = @ - 1]
        BY <4>4, UnlockOf
      <4>7. V.lock_cnt \in [Prefixes -> Nat]
        BY <4>1, <4>6, UnlockTyped
      <4>8. Shape(tree[t]) /\ tree[t].is_ready \subseteq tree[t].ends
        BY <2>2 DEF Tier, Shape, TreeTyped
      <4>9. Shape(V)
        BY <4>6, <4>7, <4>8, SameShape
      <4>10. n.node \in V.ends \cup {Root}
        BY <1>2, <4>1, <4>6 DEF PlanOK, NodesOK, HeldIn
      <4>11. Spares(V, g, Root)
        BY <4>5, <4>9, <4>10, UnreadyLeafSpares DEF RolledBack
      <4>12. \A o \in P.nodes : o.tier = t => V.lock_cnt = [tree[t].lock_cnt EXCEPT ![o.node] = @ - 1]
        <5> SUFFICES ASSUME NEW o \in P.nodes, o.tier = t
                     PROVE  V.lock_cnt = [tree[t].lock_cnt EXCEPT ![o.node] = @ - 1]
          OBVIOUS
        <5>1. o = n
          BY <4>2
        <5> QED BY <4>6, <5>1
      <4> QED BY <4>1, <4>6, <4>7, <4>11, <4>12
    <3> QED BY <3>1, <3>2
  <2> HIDE DEF V, g, S
  <2>4. Tier(V, free[t], Blocks[t])
    <3>1. V.is_ready \subseteq V.ends
      BY <2>2, <2>3 DEF Tier, Shape, TreeTyped
    <3> QED BY <2>2, <2>3, <3>1, SameTier
  <2>5. G = free[t] \cup {V.phys[h] : h \in g}
    BY <2>3
  <2> HIDE DEF G
  <2> DEFINE W == Without(V, g)
             K == free[t] \cup {V.phys[h] : h \in g}
  <2>6. Tier(W, K, Blocks[t]) /\ Evolves(V, free[t], W, K, {})
    BY <2>3, <2>4, EvictTier
  <2>7. K = G
    BY <2>5
  <2> HIDE DEF W, K
  <2>8. G \cup BlocksOf(W.phys) = free[t] \cup BlocksOf(tree[t].phys)
    BY <2>3, <2>6, <2>7 DEF Evolves
  <2>9. Tier(W, G \cup S, Blocks[t])
    <3>1. S \cap BlocksOf(W.phys) = {}
      BY <2>2, <2>8
    <3> QED BY <2>2, <2>6, <2>7, <3>1, ReturnTier
  <2>10. W.lock_cnt = V.lock_cnt
         /\ \A e, l \in tree[t].ends : IsPrefix(e, l) /\ W.lock_cnt[l] > 0 => e \in W.ends
    BY <2>3, <2>6 DEF Evolves
  <2>11. tree'[t] = W /\ free'[t] = G \cup S
    BY <2>1 DEF W
  <2>12. free'[t] \cup BlocksOf(tree'[t].phys) = free[t] \cup BlocksOf(tree[t].phys) \cup StagedOf(P, t)
    BY <2>8, <2>11 DEF S
  <2> QED BY <2>3, <2>9, <2>10, <2>11, <2>12 DEF Closes
<1>4. tree' = [t \in Tiers |-> tree'[t]] /\ free' = [t \in Tiers |-> free'[t]]
  BY <1>1
<1> HIDE DEF unlocked, gone, held
<1> QED BY <1>1, <1>3, <1>4, PlanCloses

-----------------------------------------------------------------------------
(* The other steps. *)

(* A plan goes on: what the invariant says of it stays. *)
LEMMA PlanGoesOn ==
  ASSUME CacheInv, NEW p \in Open, NEW loaded, NEW moved, NEW called,
         plan' = [plan EXCEPT ![p] = GoneOn(@, loaded, moved, called)],
         conf' = conf, conflict' = conflict, free' = free,
         tree' = [t \in Tiers |-> tree'[t]],
         \A t \in Tiers : /\ tree'[t].phys = tree[t].phys /\ tree'[t].ends = tree[t].ends
                          /\ tree'[t].lock_cnt = tree[t].lock_cnt
                          /\ tree'[t].leaf_nodes = tree[t].leaf_nodes
                          /\ tree'[t].is_ready \subseteq tree[t].ends
  PROVE  CacheInv'
<1>1. /\ conf \in Configs /\ conflict = FALSE
      /\ plan = [q \in Plans |-> plan[q]] /\ \A q \in Plans : plan[q].open \in BOOLEAN
      /\ free = [t \in Tiers |-> free[t]]
  BY DEF CacheInv, CacheTypes
<1>2. Blocks' = Blocks
  BY DEF Blocks
<1>3. p \in Plans /\ plan[p].open = TRUE
  BY <1>1 DEF Open
<1>4. /\ plan'[p] = GoneOn(plan[p], loaded, moved, called)
      /\ \A q \in Plans : q # p => plan'[q] = plan[q]
      /\ plan' = [q \in Plans |-> plan'[q]]
  BY <1>1, <1>3
<1>5. \A q \in Plans : /\ plan'[q].open = plan[q].open
                       /\ q \in Open => /\ plan'[q].nodes = plan[q].nodes
                                        /\ plan'[q].deferred = plan[q].deferred
                                        /\ plan'[q].buffer = plan[q].buffer
  BY <1>3, <1>4 DEF GoneOn, PlanOf
<1>6. Open' = Open /\ Open \subseteq Plans
  BY <1>5 DEF Open
<1>7. CacheTypes'
  BY <1>1, <1>4, <1>5 DEF CacheTypes
<1>8. ASSUME NEW t \in Tiers
      PROVE  AccountOf(tree'[t], free'[t], Blocks'[t], Open', plan', t)
  <2>1. AccountOf(tree[t], free[t], Blocks[t], Open, plan, t)
    BY DEF CacheInv
  <2>2. Tier(tree'[t], free[t], Blocks[t])
    <3>1. tree[t].lock_cnt \in [Prefixes -> Nat]
      BY <2>1 DEF AccountOf, Tier, Shape, TreeTyped
    <3>2. Tier(tree[t], free[t], Blocks[t])
      BY <2>1 DEF AccountOf
    <3> QED BY <3>1, <3>2, SameTier
  <2>3. \A q \in Open : StagedOf(plan'[q], t) = StagedOf(plan[q], t)
    BY <1>5, <1>6 DEF StagedOf, Awaited
  <2>4. {StagedOf(plan'[q], t) : q \in Open} = {StagedOf(plan[q], t) : q \in Open}
    BY <2>3
  <2>5. BlocksOf(tree'[t].phys) = BlocksOf(tree[t].phys)
    OBVIOUS
  <2>6. \A q \in Open' : StagedOf(plan'[q], t) \cap (free'[t] \cup BlocksOf(tree'[t].phys)) = {}
    BY <1>6, <2>1, <2>3, <2>5 DEF AccountOf
  <2>7. \A q, o \in Open' : q # o => StagedOf(plan'[q], t) \cap StagedOf(plan'[o], t) = {}
    BY <1>6, <2>1, <2>3 DEF AccountOf
  <2>8. free'[t] \cup BlocksOf(tree'[t].phys) \cup UNION {StagedOf(plan'[q], t) : q \in Open'} = Blocks[t]
    BY <1>6, <2>1, <2>4, <2>5 DEF AccountOf
  <2> QED BY <1>2, <2>2, <2>6, <2>7, <2>8 DEF AccountOf
<1>9. ASSUME NEW q \in Open' PROVE PlanOK(plan'[q], tree', Blocks')
  <2>1. PlanOK(plan[q], tree, Blocks) /\ q \in Open
    BY <1>6 DEF CacheInv
  <2>2. NodesOK(plan[q].nodes, tree')
    BY <2>1 DEF PlanOK, NodesOK, HeldIn
  <2> QED BY <1>2, <1>5, <1>6, <2>1, <2>2 DEF PlanOK
<1>10. LocksCounted(tree', Open', plan')
  <2> SUFFICES ASSUME NEW t \in Tiers, NEW e \in Prefixes
               PROVE  tree'[t].lock_cnt[e] = Cardinality(Holders(Open', plan', t, e))
    BY DEF LocksCounted
  <2>1. Holders(Open', plan', t, e) = Holders(Open, plan, t, e)
    BY <1>5, <1>6 DEF Holders
  <2>2. tree[t].lock_cnt[e] = Cardinality(Holders(Open, plan, t, e))
    BY DEF CacheInv, LocksCounted
  <2> QED BY <2>1, <2>2
<1> QED BY <1>7, <1>8, <1>9, <1>10 DEF CacheInv

(* A transfer touches neither trees nor pools. *)
LEMMA MoveKeeps ==
  ASSUME CacheInv, NEW p \in Open, NEW i, NEW ok, Move(p, i, ok)
  PROVE  CacheInv'
<1>1. p \in Plans /\ plan = [q \in Plans |-> plan[q]]
  BY DEF CacheInv, CacheTypes, Open
<1> DEFINE loaded == IF plan[p].ops[i].src = "STORE" THEN ok ELSE plan[p].loaded
           moved == plan[p].moved \cup {i}
           called == plan[p].called
<1>2. /\ plan' = [plan EXCEPT ![p] = GoneOn(@, loaded, moved, called)]
      /\ tree' = tree /\ free' = free /\ conflict' = conflict /\ conf' = conf
  BY <1>1 DEF Move
<1>3. tree = [t \in Tiers |-> tree[t]]
  BY DEF CacheInv, CacheTypes
<1>4. \A t \in Tiers : tree[t].is_ready \subseteq tree[t].ends
  BY DEF CacheInv, AccountOf, Tier, Shape, TreeTyped
<1> HIDE DEF loaded, moved, called
<1> QED BY <1>2, <1>3, <1>4, PlanGoesOn

(* _op_callback makes nodes ready. *)
LEMMA OpCallbackKeeps ==
  ASSUME CacheInv, NEW p \in Open, NEW i, op_callback(p, i)
  PROVE  CacheInv'
<1>1. p \in Plans /\ plan = [q \in Plans |-> plan[q]]
  BY DEF CacheInv, CacheTypes, Open
<1> DEFINE loaded == plan[p].loaded
           moved == plan[p].moved
           called == plan[p].called \cup {i}
           n == plan[p].ops[i].publish
<1>2. /\ plan' = [plan EXCEPT ![p] = GoneOn(@, loaded, moved, called)]
      /\ tree' = IF n.len = 0 THEN tree
                 ELSE [tree EXCEPT ![n.tier] = set_ready(@, n.node, n.len)]
      /\ free' = free /\ conflict' = conflict /\ conf' = conf
  BY <1>1 DEF op_callback
<1>3. tree = [t \in Tiers |-> tree[t]]
  BY DEF CacheInv, CacheTypes
<1>4. \A t \in Tiers : tree[t].is_ready \subseteq tree[t].ends
  BY DEF CacheInv, AccountOf, Tier, Shape, TreeTyped
<1> HIDE DEF loaded, moved, called, n
<1>5. ASSUME NEW t \in Tiers
      PROVE  tree'[t] = tree[t] \/ tree'[t] = set_ready(tree[t], n.node, n.len)
  BY <1>2, <1>3
<1>6. tree' = [t \in Tiers |-> tree'[t]]
  BY <1>2, <1>3
<1>7. ASSUME NEW t \in Tiers
      PROVE  /\ tree'[t].phys = tree[t].phys /\ tree'[t].ends = tree[t].ends
             /\ tree'[t].lock_cnt = tree[t].lock_cnt
             /\ tree'[t].leaf_nodes = tree[t].leaf_nodes
             /\ tree'[t].is_ready \subseteq tree[t].ends
  <2>1. CASE tree'[t] = tree[t]
    BY <1>4, <2>1
  <2>2. CASE tree'[t] = set_ready(tree[t], n.node, n.len)
    BY <1>4, <2>2 DEF set_ready, TreeOf
  <2> QED BY <1>5, <2>1, <2>2
<1> QED BY <1>2, <1>6, <1>7, PlanGoesOn

-----------------------------------------------------------------------------
(* The invariant is inductive. *)

(* reset finds no plan open and starts over. *)
LEMMA ResetKeeps ==
  ASSUME CacheInv, reset
  PROVE  CacheInv'
<1>1. /\ tree' = [t \in Tiers |-> EmptyTree] /\ free' = Blocks
      /\ plan' = plan /\ conflict' = conflict /\ conf' = conf
      /\ \A p \in Plans : ~plan[p].open
  BY DEF reset
<1>2. Open' = {} /\ Blocks' = Blocks
  BY <1>1 DEF Open, Blocks
<1>3. CacheTypes'
  BY <1>1, <1>2 DEF CacheInv, CacheTypes, Blocks
<1>4. ASSUME NEW t \in Tiers PROVE AccountOf(tree'[t], free'[t], Blocks'[t], Open', plan', t)
  <2>1. tree'[t] = EmptyTree /\ free'[t] = Blocks[t]
    BY <1>1
  <2>2. BlocksOf(EmptyTree.phys) = {}
    BY EmptyShape DEF BlocksOf
  <2>3. Tier(EmptyTree, Blocks[t], Blocks[t])
    <3>1. EmptyTree.phys \in [Cached(EmptyTree) -> Blocks[t]] /\ Injective(EmptyTree.phys)
      BY EmptyShape DEF Injective
    <3> QED BY <2>2, <3>1, EmptyShape, EmptyLeaves DEF Tier
  <2> QED BY <1>2, <2>1, <2>2, <2>3 DEF AccountOf
<1>5. LocksCounted(tree', Open', plan')
  <2> SUFFICES ASSUME NEW t \in Tiers, NEW e \in Prefixes
               PROVE  tree'[t].lock_cnt[e] = Cardinality(Holders(Open', plan', t, e))
    BY DEF LocksCounted
  <2>1. Holders(Open', plan', t, e) = {}
    BY <1>2 DEF Holders
  <2>2. tree'[t].lock_cnt[e] = 0
    BY <1>1 DEF EmptyTree, TreeOf, Prefixes
  <2> QED BY <2>1, <2>2, FS_EmptySet
<1>6. \A p \in Open' : PlanOK(plan'[p], tree', Blocks')
  BY <1>2
<1> QED BY <1>3, <1>4, <1>5, <1>6 DEF CacheInv

(* A step that changes nothing. *)
LEMMA StutterKeeps ==
  ASSUME CacheInv, UNCHANGED vars
  PROVE  CacheInv'
<1>1. tree' = tree /\ free' = free /\ plan' = plan /\ conflict' = conflict /\ conf' = conf
  BY DEF vars
<1>2. Open' = Open /\ Blocks' = Blocks
  BY <1>1 DEF Open, Blocks
<1>3. CacheTypes'
  BY <1>1 DEF CacheInv, CacheTypes
<1>4. /\ \A t \in Tiers : AccountOf(tree'[t], free'[t], Blocks'[t], Open', plan', t)
      /\ \A p \in Open' : PlanOK(plan'[p], tree', Blocks')
      /\ LocksCounted(tree', Open', plan')
  BY <1>1, <1>2 DEF CacheInv
<1> QED BY <1>3, <1>4 DEF CacheInv

(* Every step keeps it. *)
LEMMA CacheInvStep == CacheInv /\ [Next]_vars => CacheInv'
<1> SUFFICES ASSUME CacheInv, [Next]_vars PROVE CacheInv'
  OBVIOUS
<1>1. ASSUME NEW p \in Plans, NEW seq \in conf.seqs, put(p, seq) PROVE CacheInv'
  BY <1>1, PutKeeps
<1>2. ASSUME NEW p \in Plans, NEW seq \in conf.seqs, NEW start \in 0 .. Len(seq) - 1,
             NEW strategy \in {DEFAULT, CPUONLY, PREFETCH}, get(p, seq, start, strategy)
      PROVE  CacheInv'
  BY <1>2, GetKeeps
<1>3. ASSUME NEW p \in Open, NEW i \in CanRun(p), NEW ok \in Outcomes(plan[p].ops[i]),
             Move(p, i, ok)
      PROVE  CacheInv'
  BY <1>3, MoveKeeps
<1>4. ASSUME NEW p \in Open, NEW i \in OpMayPublish(p), op_callback(p, i) PROVE CacheInv'
  BY <1>4, OpCallbackKeeps
<1>5. ASSUME NEW p \in Open, transfer_callback(p) PROVE CacheInv'
  BY <1>5, CompleteKeeps
<1>6. ASSUME NEW p \in Open, abort_transfer_plan(p) PROVE CacheInv'
  BY <1>6, AbortKeeps
<1>7. ASSUME reset PROVE CacheInv'
  BY <1>7, ResetKeeps
<1>8. ASSUME UNCHANGED vars PROVE CacheInv'
  BY <1>8, StutterKeeps
<1> QED BY <1>1, <1>2, <1>3, <1>4, <1>5, <1>6, <1>7, <1>8 DEF Next

(* The invariant holds of every reachable state. *)
THEOREM CacheInvariant == Spec => []CacheInv
BY CacheInvInit, CacheInvStep, PTL DEF Spec

-----------------------------------------------------------------------------
(* What the runs check. *)

(* As many prefixes as blocks are in a tree. *)
LEMMA CachedCount ==
  ASSUME NEW T, NEW F, NEW B, Tier(T, F, B), IsFiniteSet(B)
  PROVE  /\ IsFiniteSet(Cached(T)) /\ IsFiniteSet(BlocksOf(T.phys))
         /\ Cardinality(Cached(T)) = Cardinality(BlocksOf(T.phys))
<1> DEFINE R == BlocksOf(T.phys)
<1>1. T.phys \in [Cached(T) -> B] /\ Injective(T.phys) /\ DOMAIN T.phys = Cached(T)
  BY DEF Tier, Cached
<1>2. R \subseteq B
  BY <1>1 DEF BlocksOf
<1>3. IsFiniteSet(R)
  BY <1>2, FS_Subset
<1>4. T.phys \in [Cached(T) -> R]
  BY <1>1 DEF BlocksOf
<1>5. T.phys \in Injection(Cached(T), R)
  BY <1>1, <1>4 DEF Injection, IsInjective, Injective
<1>6. T.phys \in Surjection(Cached(T), R)
  BY <1>1, <1>4 DEF Surjection, BlocksOf
<1> HIDE DEF R
<1>7. IsFiniteSet(Cached(T)) /\ Cardinality(Cached(T)) = Cardinality(R)
  BY <1>3, <1>5, <1>6, FS_Injection
<1> QED BY <1>3, <1>7 DEF R

(* The account in numbers. *)
LEMMA InvAccounts == CacheInv => BlocksAccounted
<1> SUFFICES ASSUME CacheInv, NEW t \in Tiers
             PROVE  LET inTree == BlocksOf(tree[t].phys)
                        staged(p) == Staged(p, t)
                        all == {free[t], inTree} \cup {staged(p) : p \in Open}
                    IN /\ UNION all = Blocks[t]
                       /\ Cardinality(free[t]) + Cardinality(Cached(tree[t]))
                            = Cardinality(Blocks[t]) - Cardinality(UNION {staged(p) : p \in Open})
                       /\ \A p, q \in Open : p # q => staged(p) \cap staged(q) = {}
  BY DEF BlocksAccounted
<1> DEFINE inTree == BlocksOf(tree[t].phys)
           staged(p) == Staged(p, t)
           S == {staged(p) : p \in Open}
<1>1. \A p : Staged(p, t) = StagedOf(plan[p], t)
  BY DEF Staged, StagedOf, Awaited
<1>2. AccountOf(tree[t], free[t], Blocks[t], Open, plan, t)
  BY DEF CacheInv
<1>3. S = {StagedOf(plan[p], t) : p \in Open}
  BY <1>1
<1>4. /\ Tier(tree[t], free[t], Blocks[t])
      /\ free[t] \cup inTree \cup UNION S = Blocks[t]
      /\ \A X \in S : X \cap (free[t] \cup inTree) = {}
  <2> HIDE DEF S
  <2>1. free[t] \cup inTree \cup (UNION S) = Blocks[t]
    BY <1>2, <1>3 DEF AccountOf
  <2>2. \A X \in S : X \cap (free[t] \cup inTree) = {}
    BY <1>2, <1>3 DEF AccountOf
  <2> QED BY <1>2, <2>1, <2>2 DEF AccountOf
<1>5. \A p, q \in Open : p # q => staged(p) \cap staged(q) = {}
  BY <1>1, <1>2 DEF AccountOf
<1>6. IsFiniteSet(Blocks[t])
  <2> DEFINE n == conf.num_blocks[t]
  <2>1. n \in Nat /\ Blocks[t] = 1 .. n
    BY BlocksOfTier DEF CacheInv, CacheTypes
  <2> HIDE DEF n
  <2>2. IsFiniteSet(1 .. n)
    BY <2>1, FS_Interval
  <2> QED BY <2>1, <2>2
<1> HIDE DEF staged, S
<1>7. /\ IsFiniteSet(Cached(tree[t])) /\ IsFiniteSet(inTree)
      /\ Cardinality(Cached(tree[t])) = Cardinality(inTree)
  BY <1>4, <1>6, CachedCount
<1> HIDE DEF inTree
<1> DEFINE U == UNION S
<1>8. free[t] \cap inTree = {} /\ (free[t] \cup inTree) \cap U = {}
  BY <1>4 DEF Tier, inTree
<1>9. free[t] \subseteq Blocks[t] /\ U \subseteq Blocks[t] /\ Blocks[t] = (free[t] \cup inTree) \cup U
  BY <1>4
<1> HIDE DEF U
<1>10. IsFiniteSet(free[t]) /\ IsFiniteSet(U)
  BY <1>6, <1>9, FS_Subset
<1>11. /\ IsFiniteSet(free[t] \cup inTree)
       /\ Cardinality(free[t] \cup inTree) = Cardinality(free[t]) + Cardinality(inTree)
  <2>1. Cardinality(free[t] \cap inTree) = 0
    BY <1>8, FS_EmptySet
  <2>2. Cardinality(free[t]) \in Nat /\ Cardinality(inTree) \in Nat
    BY <1>7, <1>10, FS_CardinalityType
  <2>3. /\ IsFiniteSet(free[t] \cup inTree)
        /\ Cardinality(free[t] \cup inTree)
             = Cardinality(free[t]) + Cardinality(inTree) - Cardinality(free[t] \cap inTree)
    BY <1>7, <1>10, FS_Union
  <2> QED BY <2>1, <2>2, <2>3
<1>12. Cardinality(Blocks[t]) = Cardinality(free[t]) + Cardinality(inTree) + Cardinality(U)
  <2>1. Cardinality((free[t] \cup inTree) \cap U) = 0
    BY <1>8, FS_EmptySet
  <2>2. Cardinality(free[t]) \in Nat /\ Cardinality(inTree) \in Nat /\ Cardinality(U) \in Nat
        /\ Cardinality(free[t] \cup inTree) \in Nat
    BY <1>7, <1>10, <1>11, FS_CardinalityType
  <2>3. Cardinality((free[t] \cup inTree) \cup U)
          = Cardinality(free[t] \cup inTree) + Cardinality(U) - Cardinality((free[t] \cup inTree) \cap U)
    BY <1>10, <1>11, FS_Union
  <2> QED BY <1>9, <1>11, <2>1, <2>2, <2>3
<1>13. Cardinality(free[t]) + Cardinality(Cached(tree[t])) = Cardinality(Blocks[t]) - Cardinality(U)
  <2>1. Cardinality(free[t]) \in Nat /\ Cardinality(inTree) \in Nat /\ Cardinality(U) \in Nat
    BY <1>7, <1>10, FS_CardinalityType
  <2> QED BY <1>7, <1>12, <2>1
<1>14. UNION ({free[t], inTree} \cup S) = Blocks[t]
  BY <1>9 DEF U
<1> QED BY <1>5, <1>13, <1>14 DEF U, S, inTree, staged

(* BlocksAccounted: in every tier each block is free, in the tree once, or
   staging memory of one open plan, whatever order puts, gets, transfers,
   callbacks, aborts and resets take: no block leaks and none is used twice. *)
THEOREM Accounted == Spec => []BlocksAccounted
BY CacheInvariant, InvAccounts, PTL

(* HeldNodes: the lock count of a node is the number of open plans that hold
   it, the node of every open plan is in its tree, and set_ready's walk from it
   ends on a node boundary. *)
THEOREM Held == Spec => []HeldNodes
<1>1. CacheInv => HeldNodes
  <2> SUFFICES ASSUME CacheInv PROVE HeldNodes
    OBVIOUS
  <2>1. \A t \in Tiers, e \in Hashes \cup {Root} :
          tree[t].lock_cnt[e] =
            Cardinality({p \in Open : \E n \in plan[p].nodes : n.tier = t /\ n.node = e})
    BY DEF CacheInv, LocksCounted, Holders, Prefixes
  <2>2. ASSUME NEW p \in Open, NEW n \in plan[p].nodes
        PROVE  /\ n.node \in tree[n.tier].ends \cup {Root}
               /\ HashAt(n.node, Len(n.node) - n.len) \in tree[n.tier].ends \cup {Root}
    <3>1. HeldIn(n, tree[n.tier])
      BY DEF CacheInv, PlanOK, NodesOK
    <3> QED BY <3>1 DEF HeldIn
  <2> QED BY <2>1, <2>2 DEF HeldNodes
<1> QED BY <1>1, CacheInvariant, PTL

(* A prefix that is cached and is no end has one child. *)
LEMMA OneChild ==
  ASSUME NEW T, Shape(T), NEW h \in Cached(T), h \notin T.ends
  PROVE  \E r : {q \in Cached(T) : Len(q) = Len(h) + 1 /\ IsPrefix(h, q)} = {r}
<1>1. Cached(T) \subseteq Prefixes /\ T.ends \subseteq Prefixes /\ T.ends \subseteq Cached(T)
  BY EndsArePrefixes DEF Shape, TreeTyped
<1>2. PICK e \in T.ends : IsPrefix(h, e)
  BY DEF Shape, Covered
<1>3. h \in Prefixes /\ e \in Prefixes /\ Len(h) \in Nat /\ Len(e) \in Nat
  BY <1>1, LenOfPrefix
<1>4. Len(h) <= Len(e) /\ HashAt(e, Len(h)) = h /\ Len(h) # Len(e)
  BY <1>2, <1>3, PrefixOrder
<1> DEFINE n == Len(h) + 1
           r == HashAt(e, n)
<1>5. n \in 1 .. Len(e) /\ Len(h) \in 0 .. n /\ n \in 0 .. Len(e)
  BY <1>3, <1>4
<1>6. r \in Cached(T)
  BY <1>1, <1>5 DEF Shape, Closed
<1>7. Len(r) = n /\ IsPrefix(HashAt(e, Len(h)), r)
  <2> HIDE DEF n
  <2> QED BY <1>3, <1>5, PrefixOfPrefix, FrontIsPrefix
<1> HIDE DEF r
<1>8. Child(h, r)
  BY <1>4, <1>7 DEF Child
<1>9. \A q \in Cached(T) : Child(h, q) => q = r
  BY <1>6, <1>8 DEF Shape, ForksAtEnds
<1>10. {q \in Cached(T) : Len(q) = Len(h) + 1 /\ IsPrefix(h, q)} = {r}
  BY <1>6, <1>8, <1>9 DEF Child
<1> QED BY <1>10

(* The shape of the trees, as the runs state it. *)
LEMMA InvShapes == CacheInv => TreeShape
<1> SUFFICES ASSUME CacheInv PROVE TreeShape
  OBVIOUS
<1>1. NeverStale
  BY DEF CacheInv, CacheTypes, NeverStale
<1>2. ASSUME NEW t \in Tiers, NEW h \in Cached(tree[t])
      PROVE  /\ Len(h) > 1 => HashAt(h, Len(h) - 1) \in Cached(tree[t])
             /\ h \in tree[t].ends \/
                  Cardinality({q \in Cached(tree[t]) : Len(q) = Len(h) + 1 /\ IsPrefix(h, q)}) = 1
  <2>1. Shape(tree[t])
    BY DEF CacheInv, AccountOf, Tier
  <2>2. Len(h) \in Nat
    BY <2>1, EndsArePrefixes, LenOfPrefix DEF Shape
  <2>3. Len(h) > 1 => HashAt(h, Len(h) - 1) \in Cached(tree[t])
    <3>1. Len(h) > 1 => Len(h) - 1 \in 1 .. Len(h)
      BY <2>2
    <3> QED BY <2>1, <3>1 DEF Shape, Closed
  <2>4. h \in tree[t].ends \/
          Cardinality({q \in Cached(tree[t]) : Len(q) = Len(h) + 1 /\ IsPrefix(h, q)}) = 1
    <3> DEFINE C == {q \in Cached(tree[t]) : Len(q) = Len(h) + 1 /\ IsPrefix(h, q)}
    <3> SUFFICES ASSUME h \notin tree[t].ends PROVE Cardinality(C) = 1
      OBVIOUS
    <3>1. PICK r : C = {r}
      BY <2>1, OneChild
    <3> HIDE DEF C
    <3> QED BY <3>1, FS_Singleton
  <2> QED BY <2>3, <2>4
<1>3. ASSUME NEW t \in Tiers PROVE LeavesExact(tree[t])
  BY DEF CacheInv, AccountOf, Tier
<1>4. LeafTableExact
  BY <1>3 DEF LeafTableExact, LeavesExact, Leaves
<1>5. PrefixClosed
  BY <1>2 DEF PrefixClosed
<1> QED BY <1>1, <1>4, <1>5 DEF TreeShape

(* TreeShape: through splits, shrinks, evictions between match and insert,
   commits and rollbacks, what is cached stays closed under prefixes and forks
   at node boundaries only, the leaf table has exactly the leaves under the
   hash of their first block, and no insert is refused as stale. *)
THEOREM Shapes == Spec => []TreeShape
BY CacheInvariant, InvShapes, PTL

(* The types of trees and pools: lock counts stay natural, as unlock asserts. *)
THEOREM CacheTypesOK == Spec => []TypeOK
<1>1. CacheInv => TypeOK
  <2> SUFFICES ASSUME CacheInv PROVE TypeOK
    OBVIOUS
  <2>1. ASSUME NEW t \in Tiers
        PROVE  /\ tree[t].phys \in [Cached(tree[t]) -> Blocks[t]]
               /\ tree[t].is_ready \subseteq tree[t].ends
               /\ tree[t].ends \subseteq Cached(tree[t])
               /\ tree[t].lock_cnt \in [Hashes \cup {Root} -> Nat]
               /\ free[t] \subseteq Blocks[t]
    BY DEF CacheInv, AccountOf, Tier, Shape, TreeTyped, Prefixes
  <2>2. \A t \in Tiers : free[t] \in SUBSET UNION {Blocks[u] : u \in Tiers}
    BY <2>1
  <2>3. free \in [Tiers -> SUBSET UNION {Blocks[t] : t \in Tiers}]
    BY <2>2 DEF CacheInv, CacheTypes
  <2>4. conflict \in BOOLEAN
    BY DEF CacheInv, CacheTypes
  <2> QED BY <2>1, <2>3, <2>4 DEF TypeOK
<1> QED BY <1>1, CacheInvariant, PTL
=====
