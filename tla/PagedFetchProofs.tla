-------------------------- MODULE PagedFetchProofs --------------------------
(***************************************************************************)
(* The page and window loops, for any platform, interval, page size and    *)
(* limit: their counters stay in bounds, no order is exported twice, and   *)
(* an export that succeeds is complete, each under the conditions that the *)
(* property names.  The argument is about the orders that the pages of the *)
(* window have passed (Passed): those listed up to where the next page     *)
(* begins, wherever an order is listed meanwhile.                          *)
(***************************************************************************)
EXTENDS PagedFetch, FiniteSetTheorems, TLAPS

Elems(s) == {s[n] : n \in DOMAIN s}

Distinct(s) == \A m, n \in DOMAIN s : s[m] = s[n] => m = n

\* The first b elements of a sequence, as many as there are.
First(s, b) == {s[n] : n \in {m \in DOMAIN s : m <= b}}

\* How many members of S come up to n.
RankIn(S, n) == Cardinality({m \in S : m <= n})

HitsIn(s, W) == {n \in DOMAIN s : s[n] \in W}

Position(s, x) == CHOOSE n \in DOMAIN s : s[n] = x

\* The page of size p behind the first b elements, and where it ends.
PageEnd(s, b, p) == Earlier(b + p, Len(s))
PageOf(s, b, p) == SubSeq(s, b + 1, PageEnd(s, b, p))

\* What the pages of the window have passed.
Passed == First(Matching, Before)

\* Before the request arrives, nothing has been done for it.
Idle ==
    phase = "idle" =>
        /\ listing = Listed /\ shifted = FALSE
        /\ cur = 0 /\ page = 1 /\ cursor = None
        /\ got = <<>> /\ outcome = None /\ calls = 0 /\ damage = {}

\* While it asks for pages: the limit stands, and the cursor is an order of
\* the window.
Going ==
    phase = "page" =>
        /\ outcome = None
        /\ kind \in JdKind => calls = page - 1 /\ page <= MaxPages
        /\ cursor # None => kind = "jdBonus" /\ cursor \in Elems(Matching)

\* Orders are listed once, and stay.
Listing ==
    /\ Distinct(listing)
    /\ Initially \subseteq Elems(listing)
    /\ Elems(listing) \subseteq Initially \cup Late

FetchInv == TypeOK /\ Idle /\ Going /\ Listing

\* Where no order is exported twice, what has been collected was passed in
\* this window, or belongs to an earlier one.
Exclusive ==
    /\ ~inclusive \/ kind \in CpsKind
    /\ ~shifted \/ kind = "jdBonus"
    /\ ~Repeated

Once ==
    Exclusive =>
        /\ Distinct(got)
        /\ phase = "page" =>
              \A o \in Elems(got) : o \in Passed \/ (kind \in JdKind /\ Time[o] < cur)

OnceInv == FetchInv /\ Once

\* Where an export is complete, the orders that were listed at first have
\* been collected as far as the pages got: those that were passed in this
\* window, and those of earlier windows.  A bonus query, whose pages go by
\* cursor, has passed as many as its number of pages says, or all of them.
Heeded ==
    /\ damage \cap {"noList", "badItem", "noMore", "noSort"} = {}
    /\ ~Repeated
    /\ kind \in CpsKind \/ WithinLimit

Behind(o) ==
    /\ asked.start <= Time[o]
    /\ Time[o] < cur \/ (inclusive /\ Time[o] = cur /\ asked.start < cur)

SoFar ==
    phase = "page" /\ Heeded =>
        /\ Passed \cap Initially \subseteq Elems(got)
        /\ kind \in JdKind => \A o \in Initially : Behind(o) => o \in Elems(got)
        /\ kind = "jdBonus" =>
              \/ Before >= (page - 1) * PageSize
              \/ Elems(Matching) \cap Initially \subseteq Passed

CompleteInv == FetchInv /\ SoFar /\ CompleteExport

-----------------------------------------------------------------------------
(***************************************************************************)
(* The members of a finite set of positions, counted.                      *)
(***************************************************************************)
LEMMA RankType ==
    ASSUME NEW S \in SUBSET Nat, IsFiniteSet(S), NEW n \in Nat
    PROVE  /\ IsFiniteSet({m \in S : m <= n}) /\ RankIn(S, n) \in Nat
           /\ RankIn(S, n) <= Cardinality(S)
<1>1. {m \in S : m <= n} \in SUBSET S
  OBVIOUS
<1>2. IsFiniteSet({m \in S : m <= n})
  BY <1>1, FS_Subset
<1> QED BY <1>1, <1>2, FS_Subset, FS_CardinalityType DEF RankIn

\* A member further on has a greater rank.
LEMMA RankGrows ==
    ASSUME NEW S \in SUBSET Nat, IsFiniteSet(S), NEW m \in Nat, NEW n \in S, m < n
    PROVE  RankIn(S, m) < RankIn(S, n)
<1> DEFINE low == {i \in S : i <= m}
           high == {i \in S : i <= n}
<1>1. low \subseteq S /\ low \cup {n} \subseteq high /\ n \notin low
  <2>1. \A i \in S : i \in Nat
    OBVIOUS
  <2>2. \A i \in S : i <= m => i <= n
    BY <2>1
  <2>3. ~(n <= m) /\ n <= n
    BY <2>1
  <2> QED BY <2>2, <2>3
<1>2. IsFiniteSet(low) /\ IsFiniteSet(high)
  BY RankType
<1>3. Cardinality(low \cup {n}) = Cardinality(low) + 1
  BY <1>1, <1>2, FS_AddElement
<1>4. Cardinality(low \cup {n}) <= Cardinality(high)
  BY <1>1, <1>2, FS_Subset
<1>5. Cardinality(low) \in Nat /\ Cardinality(high) \in Nat
  BY <1>2, FS_CardinalityType
<1> QED BY <1>3, <1>4, <1>5 DEF RankIn

LEMMA RankInjective ==
    ASSUME NEW S \in SUBSET Nat, IsFiniteSet(S), NEW m \in S, NEW n \in S,
           RankIn(S, m) = RankIn(S, n)
    PROVE  m = n
<1>1. RankIn(S, m) \in Nat /\ m \in Nat /\ n \in Nat
  BY RankType
<1>2. m < n => RankIn(S, m) < RankIn(S, n)
  BY RankGrows
<1>3. n < m => RankIn(S, n) < RankIn(S, m)
  BY RankGrows
<1> QED BY <1>1, <1>2, <1>3

LEMMA RankPositive ==
    ASSUME NEW S \in SUBSET Nat, IsFiniteSet(S), NEW n \in S
    PROVE  RankIn(S, n) \in 1..Cardinality(S)
<1> DEFINE low == {m \in S : m <= n}
<1>1. IsFiniteSet(low) /\ Cardinality(low) \in Nat /\ Cardinality(low) <= Cardinality(S)
  BY RankType DEF RankIn
<1>2. n \in low
  OBVIOUS
<1>3. Cardinality(low) # 0
  BY <1>1, <1>2, FS_EmptySet
<1>4. Cardinality(S) \in Nat
  BY FS_CardinalityType
<1> HIDE DEF low
<1>5. Cardinality(low) \in 1..Cardinality(S)
  BY <1>1, <1>3, <1>4
<1> QED BY <1>5 DEF low, RankIn

\* Every number up to the size of a set is the rank of one of its members,
\* which is the one that Nth chooses.
LEMMA NthHasRank ==
    ASSUME NEW S \in SUBSET Nat, IsFiniteSet(S), NEW k \in 1..Cardinality(S)
    PROVE  Nth(S, k) \in S /\ RankIn(S, Nth(S, k)) = k
<1> DEFINE T == 1..Cardinality(S)
           rank == [n \in S |-> RankIn(S, n)]
<1>1. Cardinality(S) \in Nat
  BY FS_CardinalityType
<1>2. IsFiniteSet(T) /\ Cardinality(T) = Cardinality(S)
  BY <1>1, FS_Interval
<1>3. rank \in [S -> T]
  BY RankPositive
<1>4. \A m, n \in S : rank[m] = rank[n] => m = n
  BY RankInjective
<1> HIDE DEF rank, T
<1>5. rank \in Injection(S, T)
  BY <1>3, <1>4 DEF Injection, IsInjective
<1>6. rank \in Surjection(S, T)
  BY <1>2, <1>5, FS_Injection
<1>7. \E n \in S : rank[n] = k
  BY <1>6 DEF Surjection, T
<1>8. \E n \in S : RankIn(S, n) = k
  BY <1>7 DEF rank
<1> QED BY <1>8 DEF Nth, RankIn

LEMMA NthOfRank ==
    ASSUME NEW S \in SUBSET Nat, IsFiniteSet(S), NEW n \in S
    PROVE  Nth(S, RankIn(S, n)) = n
<1>1. RankIn(S, n) \in 1..Cardinality(S)
  BY RankPositive
<1>2. Nth(S, RankIn(S, n)) \in S /\ RankIn(S, Nth(S, RankIn(S, n))) = RankIn(S, n)
  BY <1>1, NthHasRank
<1>3. \A m \in S : RankIn(S, m) = RankIn(S, n) => m = n
  BY RankInjective
<1> QED BY <1>2, <1>3

-----------------------------------------------------------------------------
(***************************************************************************)
(* The elements of a set, in the order of a sequence that grows at either  *)
(* end.                                                                    *)
(***************************************************************************)
LEMMA HitsFinite ==
    ASSUME NEW A, NEW s \in Seq(A), NEW W
    PROVE  /\ HitsIn(s, W) \in SUBSET Nat /\ IsFiniteSet(HitsIn(s, W))
           /\ Cardinality(HitsIn(s, W)) \in Nat
<1>1. DOMAIN s = 1..Len(s) /\ Len(s) \in Nat
  OBVIOUS
<1>2. IsFiniteSet(DOMAIN s)
  BY <1>1, FS_Interval
<1>3. HitsIn(s, W) \in SUBSET DOMAIN s
  BY DEF HitsIn
<1>4. IsFiniteSet(HitsIn(s, W))
  BY <1>2, <1>3, FS_Subset
<1> QED BY <1>1, <1>3, <1>4, FS_CardinalityType

LEMMA FunctionIsSeq ==
    ASSUME NEW A, NEW n \in Nat, NEW f \in [1..n -> A]
    PROVE  f \in Seq(A) /\ Len(f) = n
OBVIOUS

LEMMA FilterType ==
    ASSUME NEW A, NEW s \in Seq(A), NEW W
    PROVE  /\ Filter(s, W) \in Seq(A)
           /\ Len(Filter(s, W)) = Cardinality(HitsIn(s, W))
           /\ \A k \in 1..Cardinality(HitsIn(s, W)) :
                 /\ Nth(HitsIn(s, W), k) \in HitsIn(s, W)
                 /\ Filter(s, W)[k] = s[Nth(HitsIn(s, W), k)]
<1> DEFINE H == HitsIn(s, W)
<1>1. H \in SUBSET Nat /\ IsFiniteSet(H) /\ Cardinality(H) \in Nat
  BY HitsFinite
<1>2. Filter(s, W) = [k \in 1..Cardinality(H) |-> s[Nth(H, k)]]
  BY DEF Filter, HitsIn
<1>3. \A n \in H : s[n] \in A
  BY DEF HitsIn
<1> HIDE DEF H
<1>4. \A k \in 1..Cardinality(H) : Nth(H, k) \in H
  BY <1>1, NthHasRank
<1>5. Filter(s, W) \in Seq(A) /\ Len(Filter(s, W)) = Cardinality(H)
  <2>1. \A k \in 1..Cardinality(H) : s[Nth(H, k)] \in A
    BY <1>3, <1>4
  <2>2. Filter(s, W) \in [1..Cardinality(H) -> A]
    BY <1>2, <2>1
  <2> QED BY <1>1, <2>2, FunctionIsSeq
<1>6. \A k \in 1..Cardinality(H) : Filter(s, W)[k] = s[Nth(H, k)]
  BY <1>2
<1> QED BY <1>4, <1>5, <1>6 DEF H

LEMMA FilterElems ==
    ASSUME NEW A, NEW s \in Seq(A), NEW W
    PROVE  Elems(Filter(s, W)) = Elems(s) \cap W
<1> DEFINE H == HitsIn(s, W)
           F == Filter(s, W)
<1>1. H \in SUBSET Nat /\ IsFiniteSet(H) /\ Cardinality(H) \in Nat
  BY HitsFinite
<1>2. DOMAIN F = 1..Cardinality(H)
  BY FilterType
<1>3. \A k \in 1..Cardinality(H) : Nth(H, k) \in H /\ F[k] = s[Nth(H, k)]
  BY FilterType
<1>4. \A n \in DOMAIN s : s[n] \in W => n \in H
  BY DEF HitsIn
<1>5. \A n \in H : n \in DOMAIN s /\ s[n] \in W
  BY DEF HitsIn
<1> HIDE DEF H, F
<1>6. ASSUME NEW x \in Elems(F) PROVE x \in Elems(s) \cap W
  BY <1>2, <1>3, <1>5, <1>6 DEF Elems
<1>7. ASSUME NEW x \in Elems(s) \cap W PROVE x \in Elems(F)
  <2>1. PICK n \in H : s[n] = x
    BY <1>4, <1>7 DEF Elems
  <2>2. RankIn(H, n) \in 1..Cardinality(H) /\ Nth(H, RankIn(H, n)) = n
    BY <1>1, RankPositive, NthOfRank
  <2>3. F[RankIn(H, n)] = x
    BY <1>3, <2>1, <2>2
  <2> QED BY <1>2, <2>2, <2>3 DEF Elems
<1>8. Elems(F) = Elems(s) \cap W
  BY <1>6, <1>7
<1> QED BY <1>8 DEF F

LEMMA FilterDistinct ==
    ASSUME NEW A, NEW s \in Seq(A), NEW W, Distinct(s)
    PROVE  Distinct(Filter(s, W))
<1> DEFINE H == HitsIn(s, W)
           F == Filter(s, W)
<1>1. H \in SUBSET Nat /\ IsFiniteSet(H) /\ Cardinality(H) \in Nat
  BY HitsFinite
<1>2. DOMAIN F = 1..Cardinality(H)
  BY FilterType
<1>3. \A k \in 1..Cardinality(H) : Nth(H, k) \in H /\ F[k] = s[Nth(H, k)]
  BY FilterType
<1>4. H \subseteq DOMAIN s
  BY DEF HitsIn
<1> HIDE DEF H, F
<1>5. \A k \in 1..Cardinality(H) : RankIn(H, Nth(H, k)) = k
  BY <1>1, NthHasRank
<1>6. ASSUME NEW j \in DOMAIN F, NEW k \in DOMAIN F, F[j] = F[k] PROVE j = k
  <2>1. Nth(H, j) = Nth(H, k)
    BY <1>2, <1>3, <1>4, <1>6 DEF Distinct
  <2> QED BY <1>2, <1>5, <2>1
<1>7. Distinct(F)
  BY <1>6 DEF Distinct
<1> QED BY <1>7 DEF F

LEMMA AppendFacts ==
    ASSUME NEW A, NEW s \in Seq(A), NEW o \in A
    PROVE  LET t == Append(s, o)
           IN  /\ t \in Seq(A) /\ Len(t) = Len(s) + 1 /\ Len(s) \in Nat
               /\ DOMAIN s = 1..Len(s) /\ DOMAIN t = 1..(Len(s) + 1)
               /\ \A n \in 1..Len(s) : t[n] = s[n]
               /\ t[Len(s) + 1] = o
OBVIOUS

LEMMA PrependFacts ==
    ASSUME NEW A, NEW s \in Seq(A), NEW o \in A
    PROVE  LET t == <<o>> \o s
           IN  /\ t \in Seq(A) /\ Len(t) = Len(s) + 1 /\ Len(s) \in Nat
               /\ DOMAIN s = 1..Len(s) /\ DOMAIN t = 1..(Len(s) + 1)
               /\ \A n \in 1..Len(s) : t[n + 1] = s[n]
               /\ t[1] = o
OBVIOUS

LEMMA SameSeq ==
    ASSUME NEW A, NEW s \in Seq(A), NEW t \in Seq(A), Len(s) = Len(t),
           \A n \in 1..Len(s) : s[n] = t[n]
    PROVE  s = t
OBVIOUS

\* An element at the end is the last of the set, or not of it.
LEMMA FilterAppend ==
    ASSUME NEW A, NEW s \in Seq(A), NEW o \in A, NEW W
    PROVE  Filter(Append(s, o), W) =
               IF o \in W THEN Append(Filter(s, W), o) ELSE Filter(s, W)
<1> DEFINE t == Append(s, o)
           x == Len(s) + 1
           H == HitsIn(s, W)
           G == HitsIn(t, W)
           F == Filter(s, W)
           E == Filter(t, W)
<1>1. /\ t \in Seq(A) /\ Len(s) \in Nat /\ DOMAIN s = 1..Len(s) /\ DOMAIN t = 1..x
      /\ \A n \in 1..Len(s) : t[n] = s[n]
      /\ t[x] = o
  BY AppendFacts
<1> HIDE DEF t
<1>2. G = IF o \in W THEN H \cup {x} ELSE H
  BY <1>1 DEF HitsIn
<1>3. H \in SUBSET (1..Len(s))
  BY <1>1 DEF HitsIn
<1>4. IsFiniteSet(H) /\ Cardinality(H) \in Nat
  BY HitsFinite
<1>5. /\ F \in Seq(A) /\ Len(F) = Cardinality(H)
      /\ \A k \in 1..Cardinality(H) : Nth(H, k) \in H /\ F[k] = s[Nth(H, k)]
  BY FilterType
<1>6. /\ E \in Seq(A) /\ Len(E) = Cardinality(G)
      /\ \A k \in 1..Cardinality(G) : Nth(G, k) \in G /\ E[k] = t[Nth(G, k)]
  BY <1>1, FilterType
<1>7. G \in SUBSET Nat /\ IsFiniteSet(G)
  BY <1>1, HitsFinite
<1> HIDE DEF F, E, G, H
<1>8. CASE o \notin W
  <2>1. G = H
    BY <1>2, <1>8
  <2>2. \A k \in 1..Cardinality(H) : F[k] = E[k]
    BY <1>1, <1>3, <1>5, <1>6, <2>1
  <2>3. F = E
    BY <1>5, <1>6, <2>1, <2>2, SameSeq
  <2> QED BY <1>8, <2>3 DEF F, E, t
<1>9. CASE o \in W
  <2>1. G = H \cup {x} /\ x \notin H
    BY <1>1, <1>2, <1>3, <1>9
  <2>2. Cardinality(G) = Cardinality(H) + 1
    BY <1>4, <2>1, FS_AddElement
  <2>3. \A n \in H : RankIn(G, n) = RankIn(H, n)
    <3>1. ASSUME NEW n \in H PROVE {m \in G : m <= n} = {m \in H : m <= n}
      BY <1>1, <1>3, <2>1
    <3> QED BY <3>1 DEF RankIn
  <2>4. RankIn(G, x) = Cardinality(G)
    <3>1. \A m \in G : m <= x
      BY <1>1, <1>3, <2>1
    <3>2. {m \in G : m <= x} = G
      BY <3>1
    <3> QED BY <3>2 DEF RankIn
  <2>5. ASSUME NEW k \in 1..Cardinality(H) PROVE E[k] = F[k]
    <3>1. Nth(H, k) \in H /\ RankIn(H, Nth(H, k)) = k
      BY <1>3, <1>4, NthHasRank
    <3>2. RankIn(G, Nth(H, k)) = k /\ Nth(H, k) \in G
      BY <2>1, <2>3, <3>1
    <3>3. Nth(G, k) = Nth(H, k)
      BY <1>7, <3>2, NthOfRank
    <3>4. k \in 1..Cardinality(G)
      BY <1>4, <2>2
    <3>5. Nth(H, k) \in 1..Len(s)
      BY <1>3, <3>1
    <3> QED BY <1>1, <1>5, <1>6, <3>3, <3>4, <3>5
  <2>6. E[Cardinality(H) + 1] = o
    <3>1. x \in G
      BY <2>1
    <3>2. Nth(G, Cardinality(G)) = x
      BY <1>7, <2>4, <3>1, NthOfRank
    <3>3. Cardinality(G) \in 1..Cardinality(G)
      BY <1>4, <2>2
    <3> QED BY <1>1, <1>6, <2>2, <3>2, <3>3
  <2>7. E = Append(F, o)
    <3> DEFINE B == Append(F, o)
    <3>1. /\ B \in Seq(A) /\ Len(B) = Cardinality(H) + 1
          /\ \A k \in 1..Cardinality(H) : B[k] = F[k]
          /\ B[Cardinality(H) + 1] = o
      BY <1>5, AppendFacts
    <3> HIDE DEF B
    <3>2. ASSUME NEW k \in 1..Len(E) PROVE E[k] = B[k]
      <4>1. k \in 1..Cardinality(H) \/ k = Cardinality(H) + 1
        BY <1>4, <1>6, <2>2
      <4> QED BY <2>5, <2>6, <3>1, <4>1
    <3>3. E = B
      BY <1>6, <2>2, <3>1, <3>2, SameSeq
    <3> QED BY <3>3 DEF B
  <2> QED BY <1>9, <2>7 DEF F, E, t
<1> QED BY <1>8, <1>9

LEMMA ShiftedSize ==
    ASSUME NEW S \in SUBSET Nat, IsFiniteSet(S)
    PROVE  /\ IsFiniteSet({n + 1 : n \in S})
           /\ Cardinality({n + 1 : n \in S}) = Cardinality(S)
<1> DEFINE T == {n + 1 : n \in S}
           f == [n \in S |-> n + 1]
<1>1. f \in [S -> T] /\ \A m, n \in S : f[m] = f[n] => m = n
  OBVIOUS
<1>2. \A i \in T : \E n \in S : f[n] = i
  OBVIOUS
<1> HIDE DEF f, T
<1>3. f \in Bijection(S, T)
  BY <1>1, <1>2 DEF Bijection, Injection, Surjection, IsInjective
<1>4. ExistsBijection(S, T)
  BY <1>3 DEF ExistsBijection
<1>5. IsFiniteSet(T) /\ Cardinality(T) = Cardinality(S)
  BY <1>4, FS_Bijection
<1> QED BY <1>5 DEF T

\* An element before all others is the first of the set, or not of it.
LEMMA FilterPrepend ==
    ASSUME NEW A, NEW s \in Seq(A), NEW o \in A, NEW W
    PROVE  Filter(<<o>> \o s, W) =
               IF o \in W THEN <<o>> \o Filter(s, W) ELSE Filter(s, W)
<1> DEFINE t == <<o>> \o s
           H == HitsIn(s, W)
           D == {n + 1 : n \in H}
           G == HitsIn(t, W)
           F == Filter(s, W)
           E == Filter(t, W)
           d == IF o \in W THEN 1 ELSE 0
<1>1. /\ t \in Seq(A) /\ Len(s) \in Nat
      /\ DOMAIN s = 1..Len(s) /\ DOMAIN t = 1..(Len(s) + 1)
      /\ \A n \in 1..Len(s) : t[n + 1] = s[n]
      /\ t[1] = o
  BY PrependFacts
<1> HIDE DEF t
<1>2. G = IF o \in W THEN D \cup {1} ELSE D
  <2>1. ASSUME NEW n \in G PROVE n \in D \/ (n = 1 /\ o \in W)
    <3>1. n \in 1..(Len(s) + 1) /\ t[n] \in W
      BY <1>1 DEF HitsIn
    <3>2. ASSUME n # 1 PROVE n \in D
      <4>1. n - 1 \in 1..Len(s) /\ (n - 1) + 1 = n
        BY <1>1, <3>1, <3>2
      <4>2. n - 1 \in H
        BY <1>1, <3>1, <4>1 DEF HitsIn
      <4> QED BY <4>1, <4>2
    <3> QED BY <1>1, <3>1, <3>2
  <2>2. ASSUME NEW n \in H PROVE n + 1 \in G
    BY <1>1 DEF HitsIn
  <2>3. o \in W => 1 \in G
    BY <1>1 DEF HitsIn
  <2> HIDE DEF G, H
  <2>4. D \subseteq G
    BY <2>2
  <2> QED BY <2>1, <2>3, <2>4
<1>3. H \in SUBSET (1..Len(s))
  BY <1>1 DEF HitsIn
<1>4. IsFiniteSet(H) /\ Cardinality(H) \in Nat
  BY HitsFinite
<1>5. /\ F \in Seq(A) /\ Len(F) = Cardinality(H)
      /\ \A k \in 1..Cardinality(H) : Nth(H, k) \in H /\ F[k] = s[Nth(H, k)]
  BY FilterType
<1>6. /\ E \in Seq(A) /\ Len(E) = Cardinality(G)
      /\ \A k \in 1..Cardinality(G) : Nth(G, k) \in G /\ E[k] = t[Nth(G, k)]
  BY <1>1, FilterType
<1>7. G \in SUBSET Nat /\ IsFiniteSet(G)
  BY <1>1, HitsFinite
<1> HIDE DEF F, E, G, H
<1>8. IsFiniteSet(D) /\ Cardinality(D) = Cardinality(H) /\ 1 \notin D
  <2>1. H \in SUBSET Nat /\ 1 \notin D
    BY <1>1, <1>3
  <2> QED BY <1>4, <2>1, ShiftedSize
<1>9. Cardinality(G) = Cardinality(H) + d
  <2>1. Cardinality(D \cup {1}) = Cardinality(D) + 1
    BY <1>8, FS_AddElement
  <2> QED BY <1>2, <1>4, <1>8, <2>1
<1>10. ASSUME NEW n \in H PROVE RankIn(G, n + 1) = RankIn(H, n) + d
  <2> DEFINE low == {m \in H : m <= n}
             up == {m + 1 : m \in low}
  <2>1. IsFiniteSet(low) /\ low \in SUBSET Nat /\ Cardinality(low) \in Nat
    <3>0. low \in SUBSET H /\ H \in SUBSET Nat
      BY <1>3
    <3> HIDE DEF low
    <3>1. low \in SUBSET Nat
      BY <3>0
    <3>2. IsFiniteSet(low)
      BY <1>4, <3>0, FS_Subset
    <3> QED BY <3>1, <3>2, FS_CardinalityType
  <2>2. IsFiniteSet(up) /\ Cardinality(up) = Cardinality(low)
    BY <2>1, ShiftedSize
  <2>3. up = {m \in D : m <= n + 1} /\ 1 \notin up
    BY <1>1, <1>3
  <2> HIDE DEF up, low
  <2>4. {m \in G : m <= n + 1} = IF o \in W THEN up \cup {1} ELSE up
    <3>1. n \in Nat
      BY <1>3
    <3> QED BY <1>2, <2>3, <3>1
  <2>5. Cardinality({m \in G : m <= n + 1}) = Cardinality(low) + d
    <3>1. Cardinality(up \cup {1}) = Cardinality(up) + 1
      BY <2>2, <2>3, FS_AddElement
    <3>2. CASE o \in W
      <4>1. {m \in G : m <= n + 1} = up \cup {1}
        BY <2>4, <3>2
      <4> QED BY <2>2, <3>1, <3>2, <4>1
    <3>3. CASE o \notin W
      <4>1. {m \in G : m <= n + 1} = up
        BY <2>4, <3>3
      <4>2. Cardinality(low) + d = Cardinality(low)
        BY <2>1, <3>3
      <4> QED BY <2>2, <4>1, <4>2
    <3> QED BY <3>2, <3>3
  <2> QED BY <2>5 DEF RankIn, low
<1>11. ASSUME NEW k \in 1..Cardinality(H) PROVE E[k + d] = F[k]
  <2>1. Nth(H, k) \in H /\ RankIn(H, Nth(H, k)) = k
    BY <1>3, <1>4, NthHasRank
  <2>2. RankIn(G, Nth(H, k) + 1) = k + d /\ Nth(H, k) + 1 \in G
    BY <1>2, <1>10, <2>1
  <2>3. Nth(G, k + d) = Nth(H, k) + 1
    <3>1. Nth(G, RankIn(G, Nth(H, k) + 1)) = Nth(H, k) + 1
      BY <1>7, <2>2, NthOfRank
    <3> QED BY <2>2, <3>1
  <2>4. k + d \in 1..Cardinality(G)
    BY <1>4, <1>9
  <2>5. Nth(H, k) \in 1..Len(s)
    BY <1>3, <2>1
  <2> QED BY <1>1, <1>5, <1>6, <2>3, <2>4, <2>5
<1>12. CASE o \notin W
  <2>1. \A k \in 1..Cardinality(H) : F[k] = E[k]
    BY <1>4, <1>11, <1>12
  <2>2. Len(E) = Len(F)
    BY <1>4, <1>5, <1>6, <1>9, <1>12
  <2>3. F = E
    BY <1>5, <1>6, <2>1, <2>2, SameSeq
  <2> QED BY <1>12, <2>3 DEF F, E, t
<1>13. CASE o \in W
  <2> DEFINE B == <<o>> \o F
  <2>1. /\ B \in Seq(A) /\ Len(B) = Cardinality(H) + 1
        /\ \A k \in 1..Cardinality(H) : B[k + 1] = F[k]
        /\ B[1] = o
    BY <1>5, PrependFacts
  <2> HIDE DEF B
  <2>2. E[1] = o
    <3>1. {m \in G : m <= 1} = {1}
      BY <1>2, <1>3, <1>13
    <3>2. RankIn(G, 1) = 1 /\ 1 \in G
      BY <1>2, <1>13, <3>1, FS_Singleton DEF RankIn
    <3>3. Nth(G, 1) = 1
      BY <1>7, <3>2, NthOfRank
    <3>4. 1 \in 1..Cardinality(G)
      BY <1>4, <1>9, <1>13
    <3> QED BY <1>1, <1>6, <3>3, <3>4
  <2>3. ASSUME NEW k \in 1..Len(E) PROVE E[k] = B[k]
    <3>1. Len(E) = Cardinality(H) + 1
      BY <1>6, <1>9, <1>13
    <3>2. CASE k = 1
      BY <2>1, <2>2, <3>2
    <3>3. CASE k # 1
      <4>1. k - 1 \in 1..Cardinality(H) /\ (k - 1) + 1 = k
        BY <1>4, <3>1, <3>3
      <4>2. E[(k - 1) + 1] = F[k - 1]
        BY <1>11, <1>13, <4>1
      <4> QED BY <2>1, <4>1, <4>2
    <3> QED BY <3>2, <3>3
  <2>4. Len(E) = Len(B)
    BY <1>6, <1>9, <1>13, <2>1
  <2>5. E = B
    BY <1>6, <2>1, <2>3, <2>4, SameSeq
  <2> QED BY <1>13, <2>5 DEF F, E, B, t
<1> QED BY <1>12, <1>13

-----------------------------------------------------------------------------
(***************************************************************************)
(* Sequences that grow, their first elements, and pages of them.           *)
(***************************************************************************)
LEMMA AppendElems ==
    ASSUME NEW A, NEW s \in Seq(A), NEW o \in A
    PROVE  Elems(Append(s, o)) = Elems(s) \cup {o}
<1> DEFINE t == Append(s, o)
<1>1. /\ Len(s) \in Nat /\ DOMAIN s = 1..Len(s) /\ DOMAIN t = 1..(Len(s) + 1)
      /\ \A n \in 1..Len(s) : t[n] = s[n]
      /\ t[Len(s) + 1] = o
  BY AppendFacts
<1> HIDE DEF t
<1>2. Elems(t) = Elems(s) \cup {o}
  BY <1>1 DEF Elems
<1> QED BY <1>2 DEF t

LEMMA PrependElems ==
    ASSUME NEW A, NEW s \in Seq(A), NEW o \in A
    PROVE  Elems(<<o>> \o s) = Elems(s) \cup {o}
<1> DEFINE t == <<o>> \o s
<1>1. /\ Len(s) \in Nat /\ DOMAIN s = 1..Len(s) /\ DOMAIN t = 1..(Len(s) + 1)
      /\ \A n \in 1..Len(s) : t[n + 1] = s[n]
      /\ t[1] = o
  BY PrependFacts
<1> HIDE DEF t
<1>2. ASSUME NEW n \in DOMAIN t PROVE t[n] \in Elems(s) \cup {o}
  <2>1. CASE n = 1
    BY <1>1, <2>1
  <2>2. CASE n # 1
    <3>1. n - 1 \in 1..Len(s) /\ (n - 1) + 1 = n
      BY <1>1, <2>2
    <3>2. t[n] = s[n - 1]
      BY <1>1, <3>1
    <3> QED BY <1>1, <3>1, <3>2 DEF Elems
  <2> QED BY <2>1, <2>2
<1>3. ASSUME NEW n \in DOMAIN s PROVE s[n] \in Elems(t)
  <2>1. n + 1 \in DOMAIN t /\ t[n + 1] = s[n]
    BY <1>1
  <2> QED BY <2>1 DEF Elems
<1>4. o \in Elems(t)
  BY <1>1 DEF Elems
<1>5. Elems(t) = Elems(s) \cup {o}
  BY <1>2, <1>3, <1>4 DEF Elems
<1> QED BY <1>5 DEF t

LEMMA DistinctAppend ==
    ASSUME NEW A, NEW s \in Seq(A), NEW o \in A, Distinct(s), o \notin Elems(s)
    PROVE  Distinct(Append(s, o))
<1> DEFINE t == Append(s, o)
<1>1. /\ Len(s) \in Nat /\ DOMAIN s = 1..Len(s) /\ DOMAIN t = 1..(Len(s) + 1)
      /\ \A n \in 1..Len(s) : t[n] = s[n]
      /\ t[Len(s) + 1] = o
  BY AppendFacts
<1> HIDE DEF t
<1>2. \A n \in 1..Len(s) : s[n] # o
  BY <1>1 DEF Elems
<1>3. ASSUME NEW m \in DOMAIN t, NEW n \in DOMAIN t, t[m] = t[n] PROVE m = n
  BY <1>1, <1>2, <1>3 DEF Distinct
<1>4. Distinct(t)
  BY <1>3 DEF Distinct
<1> QED BY <1>4 DEF t

LEMMA DistinctPrepend ==
    ASSUME NEW A, NEW s \in Seq(A), NEW o \in A, Distinct(s), o \notin Elems(s)
    PROVE  Distinct(<<o>> \o s)
<1> DEFINE t == <<o>> \o s
<1>1. /\ Len(s) \in Nat /\ DOMAIN s = 1..Len(s) /\ DOMAIN t = 1..(Len(s) + 1)
      /\ \A n \in 1..Len(s) : t[n + 1] = s[n]
      /\ t[1] = o
  BY PrependFacts
<1> HIDE DEF t
<1>2. \A n \in 1..Len(s) : s[n] # o
  BY <1>1 DEF Elems
<1>3. \A n \in DOMAIN t : n = 1 \/ (n - 1 \in 1..Len(s) /\ t[n] = s[n - 1])
  <2>1. ASSUME NEW n \in DOMAIN t, n # 1 PROVE n - 1 \in 1..Len(s) /\ t[n] = s[n - 1]
    <3>1. n - 1 \in 1..Len(s) /\ (n - 1) + 1 = n
      BY <1>1, <2>1
    <3> QED BY <1>1, <3>1
  <2> QED BY <2>1
<1>4. ASSUME NEW m \in DOMAIN t, NEW n \in DOMAIN t, t[m] = t[n] PROVE m = n
  <2>1. m # 1 /\ n # 1 => m - 1 = n - 1
    BY <1>1, <1>3, <1>4 DEF Distinct
  <2>2. m = 1 <=> n = 1
    BY <1>1, <1>2, <1>3, <1>4
  <2>3. m \in Nat /\ n \in Nat
    BY <1>1
  <2> QED BY <2>1, <2>2, <2>3
<1>5. Distinct(t)
  BY <1>4 DEF Distinct
<1> QED BY <1>5 DEF t

LEMMA PositionFacts ==
    ASSUME NEW A, NEW s \in Seq(A), Distinct(s), NEW n \in DOMAIN s
    PROVE  Position(s, s[n]) = n
BY DEF Position, Distinct

\* Where a sequence is extended, an element that was there keeps its place or
\* moves up by one.
LEMMA PositionMoves ==
    ASSUME NEW A, NEW s \in Seq(A), Distinct(s), NEW c \in Elems(s),
           NEW o \in A, o \notin Elems(s)
    PROVE  /\ Position(s, c) \in DOMAIN s
           /\ Position(Append(s, o), c) = Position(s, c)
           /\ Position(<<o>> \o s, c) = Position(s, c) + 1
<1> DEFINE t == Append(s, o)
           u == <<o>> \o s
<1>1. PICK n \in DOMAIN s : s[n] = c
  BY DEF Elems
<1>2. Position(s, c) = n
  BY <1>1, PositionFacts
<1>3. /\ Len(s) \in Nat /\ DOMAIN s = 1..Len(s) /\ DOMAIN t = 1..(Len(s) + 1)
      /\ t \in Seq(A) /\ \A m \in 1..Len(s) : t[m] = s[m]
  BY AppendFacts
<1>4. /\ DOMAIN u = 1..(Len(s) + 1)
      /\ u \in Seq(A) /\ \A m \in 1..Len(s) : u[m + 1] = s[m]
  BY PrependFacts
<1>5. Distinct(t) /\ Distinct(u)
  BY DistinctAppend, DistinctPrepend
<1> HIDE DEF t, u
<1>6. Position(t, c) = n
  <2>1. n \in DOMAIN t /\ t[n] = c
    BY <1>1, <1>3
  <2> QED BY <1>3, <1>5, <2>1, PositionFacts
<1>7. Position(u, c) = n + 1
  <2>1. n + 1 \in DOMAIN u /\ u[n + 1] = c
    BY <1>1, <1>3, <1>4
  <2> QED BY <1>4, <1>5, <2>1, PositionFacts
<1> QED BY <1>1, <1>2, <1>6, <1>7 DEF t, u

LEMMA FirstElems ==
    ASSUME NEW A, NEW s \in Seq(A), NEW b \in Nat
    PROVE  /\ First(s, b) \subseteq Elems(s)
           /\ b >= Len(s) => First(s, b) = Elems(s)
           /\ First(s, 0) = {}
<1>1. DOMAIN s = 1..Len(s) /\ Len(s) \in Nat
  OBVIOUS
<1>2. \A n \in DOMAIN s : n \in Nat /\ ~(n <= 0) /\ (b >= Len(s) => n <= b)
  BY <1>1
<1> QED BY <1>2 DEF First, Elems

LEMMA FirstAppend ==
    ASSUME NEW A, NEW s \in Seq(A), NEW o \in A, NEW b \in Nat
    PROVE  /\ First(s, b) \subseteq First(Append(s, o), b)
           /\ First(Append(s, o), b) \subseteq First(s, b) \cup {o}
<1> DEFINE t == Append(s, o)
<1>1. /\ Len(s) \in Nat /\ DOMAIN s = 1..Len(s) /\ DOMAIN t = 1..(Len(s) + 1)
      /\ \A n \in 1..Len(s) : t[n] = s[n]
      /\ t[Len(s) + 1] = o
  BY AppendFacts
<1> HIDE DEF t
<1>2. First(s, b) \subseteq First(t, b) /\ First(t, b) \subseteq First(s, b) \cup {o}
  BY <1>1 DEF First
<1> QED BY <1>2 DEF t

LEMMA FirstPrepend ==
    ASSUME NEW A, NEW s \in Seq(A), NEW o \in A, NEW b \in Nat
    PROVE  /\ First(<<o>> \o s, b) \subseteq First(s, b) \cup {o}
           /\ First(<<o>> \o s, b + 1) = First(s, b) \cup {o}
<1> DEFINE t == <<o>> \o s
<1>1. /\ Len(s) \in Nat /\ DOMAIN s = 1..Len(s) /\ DOMAIN t = 1..(Len(s) + 1)
      /\ \A n \in 1..Len(s) : t[n + 1] = s[n]
      /\ t[1] = o
  BY PrependFacts
<1> HIDE DEF t
<1>2. ASSUME NEW n \in DOMAIN t, n <= b + 1 PROVE t[n] \in First(s, b) \cup {o}
  <2>1. CASE n = 1
    BY <1>1, <2>1
  <2>2. CASE n # 1
    <3>1. n - 1 \in 1..Len(s) /\ (n - 1) + 1 = n /\ n - 1 <= b
      BY <1>1, <1>2, <2>2
    <3>2. t[n] = s[n - 1]
      BY <1>1, <3>1
    <3> QED BY <1>1, <3>1, <3>2 DEF First
  <2> QED BY <2>1, <2>2
<1>3. \A n \in DOMAIN t : n <= b => n <= b + 1
  BY <1>1
<1>4. ASSUME NEW n \in DOMAIN s, n <= b PROVE s[n] \in First(t, b + 1)
  <2>1. n + 1 \in DOMAIN t /\ t[n + 1] = s[n] /\ n + 1 <= b + 1
    BY <1>1, <1>4
  <2> QED BY <2>1 DEF First
<1>5. o \in First(t, b + 1)
  BY <1>1 DEF First
<1>6. First(t, b) \subseteq First(s, b) \cup {o}
  BY <1>2, <1>3 DEF First
<1>7. First(t, b + 1) = First(s, b) \cup {o}
  BY <1>2, <1>4, <1>5 DEF First
<1> QED BY <1>6, <1>7 DEF t

LEMMA SubSeqFacts ==
    ASSUME NEW A, NEW s \in Seq(A), NEW a \in Nat, NEW z \in Nat, z <= Len(s),
           NEW t, t = SubSeq(s, a + 1, z),
           NEW l, l = IF z <= a THEN 0 ELSE z - a
    PROVE  /\ t \in Seq(A) /\ Len(t) = l /\ DOMAIN t = 1..l
           /\ \A n \in 1..l : t[n] = s[a + n]
OBVIOUS

\* The page behind the first b elements: the elements up to b + p.
LEMMA PageFacts ==
    ASSUME NEW A, NEW s \in Seq(A), NEW b \in Nat, NEW p \in Nat \ {0}
    PROVE  /\ PageOf(s, b, p) \in Seq(A)
           /\ PageOf(s, b, p) = <<>> <=> b >= Len(s)
           /\ First(s, b) \cup Elems(PageOf(s, b, p)) = First(s, b + p)
           /\ PageOf(s, b, p) # <<>> =>
                 /\ PageOf(s, b, p)[Len(PageOf(s, b, p))] = s[PageEnd(s, b, p)]
                 /\ PageEnd(s, b, p) \in DOMAIN s
           /\ Distinct(s) =>
                 /\ Distinct(PageOf(s, b, p))
                 /\ First(s, b) \cap Elems(PageOf(s, b, p)) = {}
<1> DEFINE z == PageEnd(s, b, p)
           t == PageOf(s, b, p)
<1>0. z = Earlier(b + p, Len(s)) /\ t = SubSeq(s, b + 1, z)
  BY DEF PageEnd, PageOf
<1> HIDE DEF z, t
<1>1. DOMAIN s = 1..Len(s) /\ Len(s) \in Nat
  OBVIOUS
<1> DEFINE l == IF z <= b THEN 0 ELSE z - b
<1>2. /\ z \in Nat /\ z <= Len(s) /\ l \in Nat
      /\ l = 0 <=> b >= Len(s)
      /\ \A n \in 1..l :
            b + n \in 1..Len(s) /\ b + n <= b + p /\ ~(b + n <= b)
      /\ \A n \in 1..Len(s) :
            n <= b + p /\ ~(n <= b) => n - b \in 1..l /\ b + (n - b) = n
      /\ l # 0 => l \in 1..l /\ b + l = z
  <2> DEFINE N == Len(s)
  <2>1. N \in Nat /\ z = Earlier(b + p, N) /\ l = IF z <= b THEN 0 ELSE z - b
    <3>1. N \in Nat
      BY <1>1
    <3>2. z = Earlier(b + p, N)
      BY <1>0
    <3> QED BY <3>1, <3>2
  <2> HIDE DEF l, N
  <2>2. z \in Nat /\ z <= N /\ z <= b + p /\ (z = N \/ z = b + p)
    BY <2>1 DEF Earlier
  <2>3. l \in Nat /\ (l = 0 <=> z <= b) /\ (l # 0 => l = z - b)
    BY <2>1, <2>2
  <2>4. /\ z \in Nat /\ z <= N /\ l \in Nat
        /\ l = 0 <=> b >= N
        /\ \A n \in 1..l : b + n \in 1..N /\ b + n <= b + p /\ ~(b + n <= b)
        /\ \A n \in 1..N : n <= b + p /\ ~(n <= b) => n - b \in 1..l /\ b + (n - b) = n
        /\ l # 0 => l \in 1..l /\ b + l = z
    BY <2>1, <2>2, <2>3
  <2> QED BY <2>4 DEF N
<1>3. /\ t \in Seq(A) /\ Len(t) = l /\ DOMAIN t = 1..l
      /\ \A n \in 1..l : t[n] = s[b + n]
  <2>1. l = IF z <= b THEN 0 ELSE z - b
    OBVIOUS
  <2>2. z \in Nat /\ z <= Len(s)
    BY <1>2
  <2>3. t = SubSeq(s, b + 1, z)
    BY <1>0
  <2> HIDE DEF l
  <2> QED BY <2>1, <2>2, <2>3, SubSeqFacts
<1> HIDE DEF l
<1>4. l = 0 <=> b >= Len(s)
  BY <1>2
<1>5. t = <<>> <=> l = 0
  BY <1>2, <1>3
<1>6. \A n \in 1..l : b + n \in DOMAIN s /\ b + n <= b + p /\ ~(b + n <= b)
  BY <1>1, <1>2
<1>7. \A n \in DOMAIN s : n <= b + p /\ ~(n <= b) => n - b \in 1..l /\ b + (n - b) = n
  BY <1>1, <1>2
<1>8. l # 0 => l \in 1..l /\ b + l = z
  BY <1>2
<1>9. l \in Nat
  BY <1>2
<1>10. \A n \in DOMAIN s : n <= b => n <= b + p
  BY <1>1
<1>11. First(s, b) \cup Elems(t) = First(s, b + p)
  <2>1. ASSUME NEW n \in DOMAIN s, n <= b + p PROVE s[n] \in First(s, b) \cup Elems(t)
    <3>1. CASE n <= b
      BY <3>1 DEF First
    <3>2. CASE ~(n <= b)
      <4>1. n - b \in DOMAIN t /\ t[n - b] = s[n]
        BY <1>3, <1>7, <2>1, <3>2
      <4> QED BY <4>1 DEF Elems
    <3> QED BY <3>1, <3>2
  <2>2. ASSUME NEW n \in DOMAIN t PROVE t[n] \in First(s, b + p)
    BY <1>3, <1>6 DEF First
  <2>3. First(s, b) \subseteq First(s, b + p)
    BY <1>10 DEF First
  <2>4. First(s, b + p) \subseteq First(s, b) \cup Elems(t)
    BY <2>1 DEF First
  <2>5. Elems(t) \subseteq First(s, b + p)
    BY <2>2 DEF Elems
  <2> QED BY <2>3, <2>4, <2>5
<1>12. t # <<>> => t[Len(t)] = s[z] /\ z \in DOMAIN s
  BY <1>3, <1>5, <1>6, <1>8
<1>13. Distinct(s) => Distinct(t)
  <2>1. ASSUME Distinct(s), NEW m \in DOMAIN t, NEW n \in DOMAIN t, t[m] = t[n]
        PROVE  m = n
    <3>1. /\ m \in 1..l /\ n \in 1..l /\ s[b + m] = s[b + n]
          /\ b + m \in DOMAIN s /\ b + n \in DOMAIN s
      BY <1>3, <1>6, <2>1
    <3>2. b + m = b + n
      BY <2>1, <3>1 DEF Distinct
    <3> QED BY <1>9, <3>1, <3>2
  <2> QED BY <2>1 DEF Distinct
<1>14. Distinct(s) => First(s, b) \cap Elems(t) = {}
  <2>1. ASSUME Distinct(s), NEW m \in DOMAIN s, m <= b, NEW n \in DOMAIN t PROVE s[m] # t[n]
    BY <1>3, <1>6, <2>1 DEF Distinct
  <2> QED BY <2>1 DEF First, Elems
<1> QED BY <1>3, <1>4, <1>5, <1>11, <1>12, <1>13, <1>14 DEF z, t

LEMMA ConcatFacts ==
    ASSUME NEW A, NEW s \in Seq(A), NEW t \in Seq(A)
    PROVE  LET u == s \o t
           IN  /\ u \in Seq(A) /\ Len(s) \in Nat /\ Len(t) \in Nat
               /\ DOMAIN s = 1..Len(s) /\ DOMAIN t = 1..Len(t)
               /\ DOMAIN u = 1..(Len(s) + Len(t))
               /\ \A n \in 1..Len(s) : u[n] = s[n]
               /\ \A n \in 1..Len(t) : u[Len(s) + n] = t[n]
OBVIOUS

LEMMA ConcatElems ==
    ASSUME NEW A, NEW s \in Seq(A), NEW t \in Seq(A)
    PROVE  /\ s \o t \in Seq(A)
           /\ Elems(s \o t) = Elems(s) \cup Elems(t)
           /\ Distinct(s) /\ Distinct(t) /\ Elems(s) \cap Elems(t) = {}
                 => Distinct(s \o t)
<1> DEFINE u == s \o t
<1>1. /\ u \in Seq(A) /\ Len(s) \in Nat /\ Len(t) \in Nat
      /\ DOMAIN s = 1..Len(s) /\ DOMAIN t = 1..Len(t)
      /\ DOMAIN u = 1..(Len(s) + Len(t))
      /\ \A n \in 1..Len(s) : u[n] = s[n]
      /\ \A n \in 1..Len(t) : u[Len(s) + n] = t[n]
  BY ConcatFacts
<1> HIDE DEF u
<1>2. ASSUME NEW n \in DOMAIN u, n \notin DOMAIN s
      PROVE  n - Len(s) \in DOMAIN t /\ u[n] = t[n - Len(s)]
  <2>1. n - Len(s) \in 1..Len(t) /\ Len(s) + (n - Len(s)) = n
    BY <1>1, <1>2
  <2> QED BY <1>1, <2>1
<1>3. ASSUME NEW n \in DOMAIN s PROVE n \in DOMAIN u /\ u[n] = s[n]
  BY <1>1
<1>4. ASSUME NEW n \in DOMAIN t PROVE Len(s) + n \in DOMAIN u /\ u[Len(s) + n] = t[n]
  BY <1>1
<1>5. Elems(u) = Elems(s) \cup Elems(t)
  <2>1. Elems(u) \subseteq Elems(s) \cup Elems(t)
    BY <1>2, <1>3 DEF Elems
  <2>2. Elems(s) \subseteq Elems(u)
    BY <1>3 DEF Elems
  <2>3. Elems(t) \subseteq Elems(u)
    BY <1>4 DEF Elems
  <2> QED BY <2>1, <2>2, <2>3
<1>6. ASSUME Distinct(s), Distinct(t), Elems(s) \cap Elems(t) = {} PROVE Distinct(u)
  <2>1. \A m \in DOMAIN s, n \in DOMAIN t : s[m] # t[n]
    BY <1>6 DEF Elems
  <2>2. ASSUME NEW m \in DOMAIN u, NEW n \in DOMAIN u, u[m] = u[n] PROVE m = n
    <3>1. m \in DOMAIN s /\ n \in DOMAIN s => m = n
      BY <1>3, <1>6, <2>2 DEF Distinct
    <3>2. ~(m \in DOMAIN s /\ n \notin DOMAIN s) /\ ~(m \notin DOMAIN s /\ n \in DOMAIN s)
      BY <1>2, <1>3, <2>1, <2>2
    <3>3. m \notin DOMAIN s /\ n \notin DOMAIN s => m - Len(s) = n - Len(s)
      BY <1>2, <1>6, <2>2 DEF Distinct
    <3>4. m \in Int /\ n \in Int
      BY <1>1
    <3> QED BY <1>1, <3>1, <3>2, <3>3, <3>4
  <2> QED BY <2>2 DEF Distinct
<1> QED BY <1>1, <1>5, <1>6 DEF u

LEMMA TailFacts ==
    ASSUME NEW A, NEW s \in Seq(A), s # <<>>
    PROVE  LET t == Tail(s)
           IN  /\ t \in Seq(A) /\ Len(s) \in Nat \ {0} /\ DOMAIN s = 1..Len(s)
               /\ DOMAIN t = 1..(Len(s) - 1)
               /\ \A n \in 1..(Len(s) - 1) : t[n] = s[n + 1]
OBVIOUS

LEMMA TailElems ==
    ASSUME NEW A, NEW s \in Seq(A), s # <<>>
    PROVE  /\ Tail(s) \in Seq(A) /\ Elems(Tail(s)) \subseteq Elems(s)
           /\ Distinct(s) => Distinct(Tail(s))
<1> DEFINE t == Tail(s)
<1>1. /\ t \in Seq(A) /\ Len(s) \in Nat \ {0} /\ DOMAIN s = 1..Len(s)
      /\ DOMAIN t = 1..(Len(s) - 1)
      /\ \A n \in 1..(Len(s) - 1) : t[n] = s[n + 1]
  BY TailFacts
<1> HIDE DEF t
<1>2. \A n \in DOMAIN t : n \in Nat /\ n + 1 \in DOMAIN s /\ t[n] = s[n + 1]
  BY <1>1
<1>3. Elems(t) \subseteq Elems(s)
  BY <1>2 DEF Elems
<1>4. ASSUME Distinct(s), NEW m \in DOMAIN t, NEW n \in DOMAIN t, t[m] = t[n] PROVE m = n
  <2>1. m + 1 = n + 1
    BY <1>2, <1>4 DEF Distinct
  <2> QED BY <1>2, <2>1
<1>5. Distinct(s) => Distinct(t)
  BY <1>4 DEF Distinct
<1> QED BY <1>1, <1>3, <1>5 DEF t

-----------------------------------------------------------------------------
(***************************************************************************)
(* The window, and the page that is asked for.                             *)
(***************************************************************************)
LEMMA Widths ==
    /\ Hour \in Nat \ {0} /\ PageSize \in Nat \ {0} /\ MaxPages \in Nat \ {0}
    /\ PageBound \in Nat /\ MaxPages + 1 < PageBound /\ None \notin Order
BY WidthAssumption, PageBoundAssumption, NoneAssumption

LEMMA NoOutcome == None \notin {"rows", "empty", "error", "refused"}
BY NoneAssumption

LEMMA TimeType ==
    ASSUME NEW o \in Order
    PROVE  Time[o] \in Nat
BY TimeAssumption

LEMMA AskedType ==
    ASSUME asked \in Interval
    PROVE  asked.start \in Nat /\ asked.end \in Nat \ {0} /\ asked.midnight \in BOOLEAN
BY IntervalAssumption

LEMMA WindowFacts ==
    ASSUME TypeOK
    PROVE  /\ EndTime \in Nat /\ WindowEnd \in Nat
           /\ EndTime <= asked.end
           /\ EndTime = asked.end \/ (kind = "jdOrder" /\ asked.midnight /\ EndTime = asked.end - 1)
           /\ WindowEnd <= EndTime /\ WindowEnd <= cur + Hour
           /\ WindowEnd = EndTime \/ WindowEnd = cur + Hour
           /\ cur < EndTime => cur < WindowEnd
<1>1. cur \in Nat /\ asked \in Interval
  BY DEF TypeOK
<1>2. asked.start \in Nat /\ asked.end \in Nat \ {0}
  BY <1>1, AskedType
<1>3. /\ EndTime \in Nat /\ EndTime <= asked.end
      /\ EndTime = asked.end \/ (kind = "jdOrder" /\ asked.midnight /\ EndTime = asked.end - 1)
  BY <1>2 DEF EndTime
<1>4. Hour \in Nat \ {0}
  BY Widths
<1> QED BY <1>1, <1>3, <1>4 DEF WindowEnd, Earlier

LEMMA MatchingFacts ==
    ASSUME TypeOK, Listing
    PROVE  /\ Matching \in Seq(Order) /\ Distinct(Matching)
           /\ Elems(Matching) = Elems(listing) \cap InWindow
<1>1. listing \in Seq(Order) /\ Distinct(listing)
  BY DEF TypeOK, Listing
<1> QED BY <1>1, FilterType, FilterDistinct, FilterElems DEF Matching

LEMMA BeforeType ==
    ASSUME FetchInv, phase = "page"
    PROVE  Before \in Nat
<1>1. page \in Nat \ {0}
  BY Widths DEF FetchInv, TypeOK
<1>2. CASE kind # "jdBonus"
  <2>1. PageSize \in Nat /\ page - 1 \in Nat
    BY <1>1, Widths
  <2>2. (page - 1) * PageSize \in Nat
    BY <2>1
  <2> QED BY <1>2, <2>2 DEF Before
<1>3. CASE kind = "jdBonus" /\ cursor = None
  BY <1>3 DEF Before
<1>4. CASE kind = "jdBonus" /\ cursor # None
  <2>1. cursor \in Elems(Matching) /\ Matching \in Seq(Order)
    BY <1>4, MatchingFacts DEF FetchInv, Going
  <2>2. PositionOf(cursor) \in DOMAIN Matching
    BY <2>1 DEF PositionOf, Elems
  <2>3. PositionOf(cursor) \in Nat
    BY <2>1, <2>2
  <2> QED BY <1>4, <2>3 DEF Before
<1> QED BY <1>2, <1>3, <1>4

\* The page is what follows the orders that have been passed.
LEMMA PageBehind ==
    ASSUME FetchInv, phase = "page"
    PROVE  /\ Page \in Seq(Order)
           /\ Page = <<>> <=> Before >= Len(Matching)
           /\ Passed \cup Elems(Page) = First(Matching, Before + PageSize)
           /\ Page # <<>> =>
                 /\ Page[Len(Page)] = Matching[Earlier(Before + PageSize, Len(Matching))]
                 /\ Earlier(Before + PageSize, Len(Matching)) \in DOMAIN Matching
           /\ Distinct(Page) /\ Passed \cap Elems(Page) = {}
           /\ Elems(Page) \subseteq Elems(Matching)
<1>1. /\ Matching \in Seq(Order) /\ Distinct(Matching) /\ Before \in Nat
      /\ PageSize \in Nat \ {0}
  BY MatchingFacts, BeforeType, Widths DEF FetchInv
<1>2. Page = PageOf(Matching, Before, PageSize)
  BY DEF Page, PageOf, PageEnd
<1>3. PageEnd(Matching, Before, PageSize) = Earlier(Before + PageSize, Len(Matching))
  BY DEF PageEnd
<1>4. /\ Page \in Seq(Order)
      /\ Page = <<>> <=> Before >= Len(Matching)
      /\ First(Matching, Before) \cup Elems(Page) = First(Matching, Before + PageSize)
      /\ Page # <<>> => 
            /\ Page[Len(Page)] = Matching[PageEnd(Matching, Before, PageSize)]
            /\ PageEnd(Matching, Before, PageSize) \in DOMAIN Matching
      /\ Distinct(Page) /\ First(Matching, Before) \cap Elems(Page) = {}
  BY <1>1, <1>2, PageFacts
<1>5. First(Matching, Before + PageSize) \subseteq Elems(Matching)
  BY <1>1, FirstElems
<1>6. Elems(Page) \subseteq Elems(Matching)
  BY <1>4, <1>5
<1> QED BY <1>1, <1>3, <1>4, <1>6 DEF Passed

-----------------------------------------------------------------------------
(***************************************************************************)
(* An order is listed: what the pages have passed stays passed, and the    *)
(* new order is the only one that may join it.                             *)
(***************************************************************************)
Lists(o) ==
    /\ phase = "page" /\ o \in Late /\ o \notin Elems(listing)
    /\ \/ listing' = Append(listing, o) /\ UNCHANGED shifted
       \/ listing' = <<o>> \o listing /\ shifted' = TRUE
    /\ UNCHANGED <<phase, request, cur, page, cursor, got, outcome, calls, damage>>

LEMMA ListCases ==
    ASSUME List
    PROVE  \E o \in Late : Lists(o)
BY DEF List, Lists, Elems

LEMMA ListMatching ==
    ASSUME FetchInv, NEW o, Lists(o)
    PROVE  /\ o \in Order /\ o \notin Elems(Matching)
           /\ o \notin Initially
           /\ \/ Matching' = Matching /\ o \notin InWindow
              \/ /\ o \in InWindow
                 /\ \/ Matching' = Append(Matching, o) /\ shifted' = shifted
                    \/ Matching' = <<o>> \o Matching /\ shifted' = TRUE
           /\ InWindow' = InWindow
<1>1. listing \in Seq(Order) /\ TypeOK /\ Listing
  BY DEF FetchInv, TypeOK
<1>2. o \in Order /\ o \notin Elems(listing)
  BY ListAssumption DEF Lists
<1>3. o \notin Initially /\ o \notin Elems(Matching)
  BY <1>1, <1>2, MatchingFacts DEF Listing
<1>4. UNCHANGED <<kind, asked, inclusive, cur>>
  BY DEF Lists, request
<1>5. EndTime' = EndTime
  BY <1>4 DEF EndTime
<1>6. WindowEnd' = WindowEnd
  BY <1>4, <1>5 DEF WindowEnd
<1>7. InWindow' = InWindow
  BY <1>4, <1>6 DEF InWindow, Within
<1>8. Matching' = Filter(listing', InWindow)
  BY <1>7 DEF Matching
<1>9. Matching = Filter(listing, InWindow)
  BY DEF Matching
<1>10. CASE listing' = Append(listing, o) /\ UNCHANGED shifted
  <2>1. Filter(Append(listing, o), InWindow) =
            IF o \in InWindow THEN Append(Matching, o) ELSE Matching
    BY <1>1, <1>2, <1>9, FilterAppend
  <2> QED BY <1>2, <1>3, <1>7, <1>8, <1>10, <2>1
<1>11. CASE listing' = <<o>> \o listing /\ shifted' = TRUE
  <2>1. Filter(<<o>> \o listing, InWindow) =
            IF o \in InWindow THEN <<o>> \o Matching ELSE Matching
    BY <1>1, <1>2, <1>9, FilterPrepend
  <2> QED BY <1>2, <1>3, <1>7, <1>8, <1>11, <2>1
<1> QED BY <1>10, <1>11 DEF Lists

LEMMA ListPassed ==
    ASSUME FetchInv, NEW o, Lists(o)
    PROVE  /\ Passed' \subseteq Passed \cup ({o} \cap InWindow)
           /\ kind = "jdBonus" \/ ~shifted' => Passed \subseteq Passed'
           /\ Elems(Matching') = Elems(Matching) \cup ({o} \cap InWindow)
           /\ Before' \in Nat /\ Before' >= Before
<1>1. /\ Matching \in Seq(Order) /\ Distinct(Matching) /\ Before \in Nat
      /\ phase = "page" /\ Going
  BY MatchingFacts, BeforeType DEF FetchInv, Lists
<1>2. /\ o \in Order /\ o \notin Elems(Matching)
      /\ \/ Matching' = Matching /\ o \notin InWindow
         \/ /\ o \in InWindow
            /\ \/ Matching' = Append(Matching, o) /\ shifted' = shifted
               \/ Matching' = <<o>> \o Matching /\ shifted' = TRUE
  BY ListMatching
<1>3. UNCHANGED <<kind, page, cursor>>
  BY DEF Lists, request
<1>4. Before = IF kind # "jdBonus" THEN (page - 1) * PageSize
               ELSE IF cursor = None THEN 0 ELSE Position(Matching, cursor)
  BY DEF Before, PositionOf, Position
<1>5. Before' = IF kind # "jdBonus" THEN (page - 1) * PageSize
                ELSE IF cursor = None THEN 0 ELSE Position(Matching', cursor)
  BY <1>3 DEF Before, PositionOf, Position
<1>6. Passed' = First(Matching', Before')
  BY DEF Passed, First
<1>7. CASE Matching' = Matching /\ o \notin InWindow
  <2>1. Before' = Before
    BY <1>4, <1>5, <1>7
  <2> QED BY <1>1, <1>6, <1>7, <2>1 DEF Passed
<1>8. CASE o \in InWindow /\ Matching' = Append(Matching, o)
  <2>1. Before' = Before
    <3>1. cursor # None => Position(Append(Matching, o), cursor) = Position(Matching, cursor)
      BY <1>1, <1>2, PositionMoves DEF Going
    <3> QED BY <1>4, <1>5, <1>8, <3>1
  <2>2. First(Append(Matching, o), Before) \subseteq First(Matching, Before) \cup {o}
    BY <1>1, <1>2, FirstAppend
  <2>3. First(Matching, Before) \subseteq First(Append(Matching, o), Before)
    BY <1>1, <1>2, FirstAppend
  <2>4. Elems(Matching') = Elems(Matching) \cup {o}
    BY <1>1, <1>2, <1>8, AppendElems
  <2> QED BY <1>1, <1>6, <1>8, <2>1, <2>2, <2>3, <2>4 DEF Passed
<1>9. CASE o \in InWindow /\ Matching' = <<o>> \o Matching /\ shifted' = TRUE
  <2>1. Elems(Matching') = Elems(Matching) \cup {o}
    BY <1>1, <1>2, <1>9, PrependElems
  <2>2. First(<<o>> \o Matching, Before) \subseteq First(Matching, Before) \cup {o}
    BY <1>1, <1>2, FirstPrepend
  <2>3. First(<<o>> \o Matching, Before + 1) = First(Matching, Before) \cup {o}
    BY <1>1, <1>2, FirstPrepend
  <2>4. CASE kind # "jdBonus"
    <3>1. Before' = Before
      BY <1>4, <1>5, <2>4
    <3> QED BY <1>1, <1>6, <1>9, <2>1, <2>2, <2>4, <3>1 DEF Passed
  <2>5. CASE kind = "jdBonus" /\ cursor # None
    <3>1. Position(<<o>> \o Matching, cursor) = Position(Matching, cursor) + 1
      BY <1>1, <1>2, <2>5, PositionMoves DEF Going
    <3>2. Before' = Before + 1
      BY <1>4, <1>5, <1>9, <2>5, <3>1
    <3> QED BY <1>1, <1>6, <1>9, <2>1, <2>3, <3>2 DEF Passed
  <2>6. CASE kind = "jdBonus" /\ cursor = None
    <3>1. Before' = 0 /\ Before = 0
      BY <1>4, <1>5, <2>6
    <3>2. First(Matching, 0) = {}
      BY <1>1, FirstElems
    <3> QED BY <1>1, <1>6, <1>9, <2>1, <2>2, <3>1, <3>2 DEF Passed
  <2> QED BY <2>4, <2>5, <2>6
<1> QED BY <1>2, <1>7, <1>8, <1>9

LEMMA ListType ==
    ASSUME FetchInv, List
    PROVE  FetchInv'
<1>1. PICK o \in Late : Lists(o)
  BY ListCases
<1>2. UNCHANGED <<phase, kind, asked, inclusive, cur, page, cursor, got, outcome, calls, damage>>
  BY <1>1 DEF Lists, request
<1>3. listing \in Seq(Order) /\ Distinct(listing) /\ phase = "page" /\ shifted \in BOOLEAN
  BY <1>1 DEF FetchInv, TypeOK, Listing, Lists
<1>4. o \in Order /\ o \notin Elems(listing)
  BY <1>1, ListAssumption DEF Lists
<1>5. /\ listing' \in Seq(Order) /\ Distinct(listing') /\ shifted' \in BOOLEAN
      /\ Elems(listing') = Elems(listing) \cup {o}
  <2>1. CASE listing' = Append(listing, o) /\ UNCHANGED shifted
    <3>1. listing' \in Seq(Order) /\ Distinct(listing')
      BY <1>3, <1>4, <2>1, AppendFacts, DistinctAppend
    <3>2. Elems(listing') = Elems(listing) \cup {o}
      BY <1>3, <1>4, <2>1, AppendElems
    <3> QED BY <1>3, <2>1, <3>1, <3>2
  <2>2. CASE listing' = <<o>> \o listing /\ shifted' = TRUE
    <3>1. listing' \in Seq(Order) /\ Distinct(listing')
      BY <1>3, <1>4, <2>2, PrependFacts, DistinctPrepend
    <3>2. Elems(listing') = Elems(listing) \cup {o}
      BY <1>3, <1>4, <2>2, PrependElems
    <3> QED BY <2>2, <3>1, <3>2
  <2> QED BY <1>1, <2>1, <2>2 DEF Lists
<1>6. EndTime' = EndTime
  BY <1>2 DEF EndTime
<1>7. TypeOK'
  BY <1>2, <1>5, <1>6 DEF FetchInv, TypeOK
<1>8. Listing'
  BY <1>1, <1>5 DEF FetchInv, Listing, Initially
<1>9. Elems(Matching) \subseteq Elems(Matching')
  BY <1>1, ListPassed
<1>10. Going'
  BY <1>2, <1>9 DEF FetchInv, Going
<1>11. Idle'
  BY <1>2, <1>3 DEF Idle
<1> QED BY <1>7, <1>8, <1>10, <1>11 DEF FetchInv

-----------------------------------------------------------------------------
(***************************************************************************)
(* A page is taken.                                                        *)
(***************************************************************************)
LEMMA GoesOn ==
    ASSUME FetchInv, phase = "page", NEW items, NEW more, ~LastPage(items, more)
    PROVE  /\ kind \in JdKind => page + 1 <= MaxPages
           /\ kind = "jdBonus" => items # <<>> /\ more
<1>1. page \in Nat /\ MaxPages \in Nat /\ kind \in Kind
  BY Widths DEF FetchInv, TypeOK
<1>2. kind = "jdOrder" => ~JdOrdersEnd(more)
  BY DEF LastPage, CpsKind
<1>3. kind = "jdBonus" => ~JdBonusEnd(items, more)
  BY DEF LastPage, CpsKind
<1>4. PastLimit(page + 1) \/ page + 1 <= MaxPages
  BY <1>1 DEF PastLimit
<1> QED BY <1>2, <1>3, <1>4 DEF JdKind, JdOrdersEnd, JdBonusEnd

\* The next page of the window, or the next window.
LEMMA TakeCases ==
    ASSUME FetchInv, phase = "page", NEW items, NEW more, NEW n, TakePage(items, more, n),
           UNCHANGED <<request, listing>>
    PROVE  /\ got' = got \o items
           /\ UNCHANGED <<kind, asked, inclusive, listing>>
           /\ \/ /\ ~LastPage(items, more)
                 /\ page' = NextPage /\ cursor' = NextCursor(items, n)
                 /\ calls' = Earlier(calls + 1, PageBound)
                 /\ UNCHANGED <<phase, cur, outcome>>
                 /\ Matching' = Matching /\ InWindow' = InWindow
              \/ /\ LastPage(items, more)
                 /\ page' = 1 /\ cursor' = None /\ calls' = 0
                 /\ cur' = IF kind \in CpsKind THEN cur ELSE WindowEnd
                 /\ \/ /\ kind \in CpsKind \/ cur' >= EndTime
                       /\ phase' = "done" /\ outcome' \in {"rows", "empty"}
                    \/ /\ kind \notin CpsKind /\ ~(cur' >= EndTime)
                       /\ UNCHANGED <<phase, outcome>>
<1>1. UNCHANGED <<kind, asked, inclusive, listing>>
  BY DEF request
<1>2. CASE ~LastPage(items, more)
  <2>1. /\ page' = NextPage /\ cursor' = NextCursor(items, n)
        /\ calls' = Earlier(calls + 1, PageBound)
        /\ UNCHANGED <<phase, cur, outcome>>
        /\ got' = got \o items
    BY <1>2 DEF TakePage
  <2>2. EndTime' = EndTime
    BY <1>1 DEF EndTime
  <2>3. WindowEnd' = WindowEnd
    BY <1>1, <2>1, <2>2 DEF WindowEnd
  <2>4. InWindow' = InWindow
    BY <1>1, <2>1, <2>3 DEF InWindow, Within
  <2>5. Matching' = Matching
    BY <1>1, <2>4 DEF Matching
  <2> QED BY <1>1, <1>2, <2>1, <2>4, <2>5
<1>3. CASE LastPage(items, more)
  <2>1. /\ got' = got \o items
        /\ page' = 1 /\ cursor' = None /\ calls' = 0
        /\ cur' = IF kind \in CpsKind THEN cur ELSE WindowEnd
        /\ IF kind \in CpsKind \/ cur' >= EndTime
           THEN Finish(got')
           ELSE UNCHANGED <<phase, outcome>>
    BY <1>3 DEF TakePage, NextStart
  <2>2. Finish(got') => phase' = "done" /\ outcome' \in {"rows", "empty"}
    BY DEF Finish, Conclude
  <2> QED BY <1>1, <1>3, <2>1, <2>2
<1> QED BY <1>2, <1>3

LEMMA TakeType ==
    ASSUME FetchInv, phase = "page", NEW items \in Seq(Order),
           Elems(items) \subseteq Elems(Matching), NEW more, NEW n \in 0..Len(items),
           TakePage(items, more, n),
           UNCHANGED <<request, listing, shifted>>, damage' \subseteq Damage
    PROVE  FetchInv'
<1>1. /\ TypeOK /\ Going /\ Listing
      /\ kind \in Kind /\ page \in 1..PageBound /\ calls \in 0..PageBound
      /\ got \in Seq(Order) /\ cur \in Nat /\ cursor \in Order \cup {None}
      /\ inclusive \in BOOLEAN /\ shifted \in BOOLEAN
  BY DEF FetchInv, TypeOK
<1>2. /\ got' = got \o items
      /\ UNCHANGED <<kind, asked, inclusive, listing, shifted>>
      /\ \/ /\ ~LastPage(items, more)
            /\ page' = NextPage /\ cursor' = NextCursor(items, n)
            /\ calls' = Earlier(calls + 1, PageBound)
            /\ UNCHANGED <<phase, cur, outcome>>
            /\ Matching' = Matching /\ InWindow' = InWindow
         \/ /\ LastPage(items, more)
            /\ page' = 1 /\ cursor' = None /\ calls' = 0
            /\ cur' = IF kind \in CpsKind THEN cur ELSE WindowEnd
            /\ \/ /\ kind \in CpsKind \/ cur' >= EndTime
                  /\ phase' = "done" /\ outcome' \in {"rows", "empty"}
               \/ /\ kind \notin CpsKind /\ ~(cur' >= EndTime)
                  /\ UNCHANGED <<phase, outcome>>
  BY TakeCases
<1>3. got' \in Seq(Order)
  BY <1>1, <1>2, ConcatElems
<1>4. EndTime' = EndTime /\ Listing'
  BY <1>1, <1>2 DEF EndTime, Listing
<1>5. /\ PageBound \in Nat /\ MaxPages \in Nat \ {0} /\ MaxPages + 1 < PageBound
  BY Widths
<1>6. CASE ~LastPage(items, more)
  <2>1. /\ page' = NextPage /\ cursor' = NextCursor(items, n)
        /\ calls' = Earlier(calls + 1, PageBound)
        /\ UNCHANGED <<phase, cur, outcome>>
        /\ Matching' = Matching
    BY <1>2, <1>6
  <2>2. page' \in 1..PageBound /\ calls' \in 0..PageBound
    BY <1>1, <1>5, <2>1 DEF NextPage, Earlier
  <2>3. cursor' = cursor \/ (kind = "jdBonus" /\ cursor' \in Elems(items))
    <3>1. n # 0 => items[n] \in Elems(items)
      <4>1. n # 0 => n \in DOMAIN items
        OBVIOUS
      <4> QED BY <4>1 DEF Elems
    <3> QED BY <2>1, <3>1 DEF NextCursor
  <2>4. cursor' \in Order \cup {None}
    <3>1. Elems(items) \subseteq Order
      BY DEF Elems
    <3> QED BY <1>1, <2>3, <3>1
  <2>5. kind \in JdKind => calls' = page' - 1 /\ page' <= MaxPages
    <3>1. ASSUME kind \in JdKind PROVE calls' = page' - 1 /\ page' <= MaxPages
      <4>1. calls = page - 1 /\ page + 1 <= MaxPages
        BY <1>1, <1>6, <3>1, GoesOn DEF Going
      <4>2. page' = page + 1 /\ calls' = calls + 1
        BY <1>1, <1>5, <2>1, <4>1 DEF NextPage, Earlier
      <4> QED BY <1>1, <4>1, <4>2
    <3> QED BY <3>1
  <2>6. Going'
    BY <1>1, <1>2, <2>1, <2>3, <2>5 DEF Going
  <2>7. TypeOK'
    BY <1>1, <1>2, <1>3, <1>4, <2>1, <2>2, <2>4 DEF TypeOK
  <2>8. Idle'
    BY <2>1 DEF Idle
  <2> QED BY <1>4, <2>6, <2>7, <2>8 DEF FetchInv
<1>7. CASE LastPage(items, more)
  <2>1. /\ page' = 1 /\ cursor' = None /\ calls' = 0
        /\ cur' = IF kind \in CpsKind THEN cur ELSE WindowEnd
        /\ \/ /\ kind \in CpsKind \/ cur' >= EndTime
              /\ phase' = "done" /\ outcome' \in {"rows", "empty"}
           \/ /\ kind \notin CpsKind /\ ~(cur' >= EndTime)
              /\ UNCHANGED <<phase, outcome>>
    BY <1>2, <1>7
  <2>2. /\ EndTime \in Nat /\ WindowEnd \in Nat /\ WindowEnd <= EndTime
        /\ cur < EndTime => cur < WindowEnd
    BY <1>1, WindowFacts
  <2>3. asked.start \in Nat /\ asked' = asked
    BY <1>1, <1>2, AskedType DEF TypeOK
  <2>4. cur' \in Nat /\ (cur' <= asked.start \/ cur' <= EndTime)
    BY <1>1, <2>1, <2>2 DEF TypeOK
  <2>5. phase' = "page" /\ kind \in JdKind => cur' \in asked.start..(EndTime - 1)
    <3>1. ASSUME phase' = "page", kind \in JdKind PROVE cur' \in asked.start..(EndTime - 1)
      <4>1. cur \in asked.start..(EndTime - 1)
        BY <1>1, <3>1 DEF TypeOK
      <4>2. cur' = WindowEnd /\ ~(cur' >= EndTime)
        BY <2>1, <3>1 DEF JdKind, CpsKind
      <4> QED BY <1>1, <2>2, <2>3, <4>1, <4>2
    <3> QED BY <3>1
  <2>6. page' \in 1..PageBound /\ calls' \in 0..PageBound /\ cursor' \in Order \cup {None}
    BY <1>5, <2>1
  <2>7. phase' \in {"page", "done"} /\ outcome' \in {None, "rows", "empty"}
    BY <1>1, <2>1 DEF Going
  <2>8. TypeOK'
    BY <1>1, <1>2, <1>3, <1>4, <2>3, <2>4, <2>5, <2>6, <2>7 DEF TypeOK
  <2>9. Going'
    BY <1>1, <1>2, <1>5, <2>1 DEF Going
  <2>10. Idle'
    BY <2>7 DEF Idle
  <2> QED BY <1>4, <2>8, <2>9, <2>10 DEF FetchInv
<1> QED BY <1>6, <1>7

\* The export is over without another page.
LEMMA ConcludeType ==
    ASSUME FetchInv, phase = "page", NEW result \in {"rows", "empty", "error", "refused"},
           Conclude(result), damage' \subseteq Damage,
           UNCHANGED <<request, listing, shifted, cur, page, cursor, got, calls>>
    PROVE  FetchInv'
<1>1. /\ phase' = "done" /\ outcome' = result
      /\ UNCHANGED <<kind, asked, inclusive>>
  BY DEF Conclude, request
<1>2. EndTime' = EndTime
  BY <1>1 DEF EndTime
<1>3. inclusive \in BOOLEAN /\ shifted \in BOOLEAN
  BY DEF FetchInv, TypeOK
<1>4. TypeOK'
  BY <1>1, <1>2, <1>3 DEF FetchInv, TypeOK
<1>5. Listing' /\ Going' /\ Idle'
  BY <1>1 DEF FetchInv, Listing, Going, Idle
<1> QED BY <1>4, <1>5 DEF FetchInv

LEMMA ReceiveType ==
    ASSUME FetchInv, Receive
    PROVE  FetchInv'
<1>1. /\ TypeOK /\ Idle /\ Listing /\ kind \in Kind
      /\ inclusive \in BOOLEAN /\ shifted \in BOOLEAN
  BY DEF FetchInv, TypeOK
<1>2. \/ kind \in JdKind /\ ReceiveJd
      \/ kind \in CpsKind /\ ReceiveCps
  BY DEF Receive, GetJdOrder, GetJdBonusOrder, GetCpsOrder, GetCpsIncome, GetCpsUser,
         JdKind, CpsKind
<1>3. /\ phase = "idle"
      /\ UNCHANGED <<kind, asked, inclusive, listing, shifted, page, cursor, got, calls, damage>>
  BY <1>2 DEF ReceiveJd, ReceiveCps, request
<1>4. cursor = None /\ calls = 0 /\ page = 1 /\ outcome = None /\ cur = 0
  BY <1>1, <1>3 DEF Idle
<1>5. EndTime' = EndTime /\ EndTime \in Nat /\ asked.start \in Nat /\ MaxPages \in Nat \ {0}
  BY <1>1, <1>3, WindowFacts, AskedType, Widths DEF EndTime, TypeOK
<1>6. \/ /\ phase' = "done" /\ outcome' \in {"refused", "empty", "error"}
         /\ cur' = asked.start \/ cur' = 0
      \/ /\ phase' = "page" /\ outcome' = None
         /\ \/ kind \in JdKind /\ cur' = asked.start /\ asked.start < EndTime
            \/ kind \in CpsKind /\ cur' = 0
  BY <1>2, <1>4 DEF ReceiveJd, ReceiveCps, Conclude, Begin
<1>7. cur' \in Nat /\ cur' <= asked.start
  BY <1>5, <1>6
<1>8. phase' = "page" /\ kind \in JdKind => cur' \in asked.start..(EndTime - 1)
  BY <1>5, <1>6 DEF JdKind, CpsKind
<1>9. phase' \in {"page", "done"} /\ outcome' \in {None, "rows", "empty", "error", "refused"}
  BY <1>6
<1>10. TypeOK'
  BY <1>1, <1>3, <1>5, <1>7, <1>8, <1>9 DEF TypeOK
<1>11. Going'
  BY <1>3, <1>4, <1>5, <1>6 DEF Going
<1>12. Listing' /\ Idle'
  BY <1>1, <1>3, <1>9 DEF Listing, Idle
<1> QED BY <1>10, <1>11, <1>12 DEF FetchInv

\* What an answer gives: the page; the page without an item; no items; or,
\* where the cursor is ignored, the first page.  A bonus query goes on behind
\* the last of them, unless that order has no sortValue.
Given(items, more, n) ==
    /\ \/ items = Page /\ (more \/ ~HasMore \/ damage' \cap {"noMore", "noSort"} # {})
       \/ /\ kind \in CpsKind
          /\ items = Tail(Page) /\ Page # <<>> /\ "badItem" \in damage'
       \/ kind \in JdKind /\ items = <<>> /\ "noList" \in damage'
       \/ kind = "jdBonus" /\ "endless" \in damage'
    /\ kind = "jdBonus" /\ more => n = Len(items) \/ "noLastSort" \in damage'

Answered ==
    \/ \E result \in {"rows", "empty", "error"} :
          /\ Conclude(result) /\ (result = "error" \/ "noList" \in damage')
          /\ UNCHANGED <<cur, page, cursor, got, calls>>
    \/ \E items \in Seq(Order), more \in BOOLEAN, n \in Nat :
          /\ n \in 0..Len(items)
          /\ Elems(items) \subseteq Elems(Matching)
          /\ Given(items, more, n) /\ TakePage(items, more, n)

LEMMA FailCases ==
    ASSUME FetchInv, NEW what \in Damage, Fail(what)
    PROVE  /\ phase = "page" /\ UNCHANGED <<request, listing, shifted>>
           /\ damage \subseteq damage' /\ damage' \subseteq Damage
           /\ Answered
BY DEF Fail, FetchInv, TypeOK, Answered

LEMMA FirstPageType ==
    ASSUME FetchInv
    PROVE  FirstPage \in Seq(Order) /\ Elems(FirstPage) \subseteq Elems(Matching)
<1>1. Matching \in Seq(Order) /\ PageSize \in Nat \ {0}
  BY MatchingFacts, Widths DEF FetchInv
<1>2. PageOf(Matching, 0, PageSize) = FirstPage
  <2>1. 0 + 1 = 1 /\ 0 + PageSize = PageSize
    BY <1>1
  <2> QED BY <2>1 DEF PageOf, PageEnd, FirstPage
<1>3. /\ PageOf(Matching, 0, PageSize) \in Seq(Order)
      /\ First(Matching, 0) \cup Elems(PageOf(Matching, 0, PageSize)) = First(Matching, 0 + PageSize)
  BY <1>1, PageFacts
<1>4. First(Matching, 0 + PageSize) \subseteq Elems(Matching)
  BY <1>1, FirstElems
<1> QED BY <1>2, <1>3, <1>4

\* An answer that is read as a page is one of the above.
LEMMA AnsweredBy ==
    ASSUME NEW items \in Seq(Order), NEW more \in BOOLEAN, NEW n \in 0..Len(items),
           Elems(items) \subseteq Elems(Matching),
           Given(items, more, n), TakePage(items, more, n)
    PROVE  Answered
<1>1. n \in Nat
  OBVIOUS
<1> QED BY <1>1 DEF Answered

LEMMA AnswerCases ==
    ASSUME FetchInv, Ask \/ DeadlineExceeded
    PROVE  /\ phase = "page" /\ UNCHANGED <<request, listing, shifted>>
           /\ damage \subseteq damage' /\ damage' \subseteq Damage
           /\ Answered
<1>0. damage \subseteq Damage /\ kind \in Kind
  BY DEF FetchInv, TypeOK
<1>1. phase = "page" => /\ Page \in Seq(Order) /\ Elems(Page) \subseteq Elems(Matching)
                        /\ 0 \in 0..Len(Page) /\ Len(Page) \in 0..Len(Page)
  BY PageBehind
<1>2. CASE FetchPage
  <2>1. phase = "page" /\ UNCHANGED <<request, listing, shifted, damage>>
    BY <1>2 DEF FetchPage
  <2>2. TakePage(Page, kind = "jdBonus" \/ HasMore, Len(Page))
    BY <1>2 DEF FetchPage
  <2>3. PICK more \in BOOLEAN : more = (kind = "jdBonus" \/ HasMore)
    OBVIOUS
  <2>4. Given(Page, more, Len(Page)) /\ TakePage(Page, more, Len(Page))
    BY <2>2, <2>3 DEF Given
  <2>5. Answered
    BY <1>1, <2>1, <2>4, AnsweredBy
  <2> QED BY <1>0, <2>1, <2>5
<1>3. CASE \/ AnswerLost \/ AnswerRejected \/ DeadlineExceeded
           \/ (kind \in JdKind /\ AnswerWithBadItem)
  <2>1. \E what \in Damage : Fail(what)
    BY <1>3 DEF AnswerLost, AnswerRejected, DeadlineExceeded, AnswerWithBadItem, Damage
  <2> QED BY <2>1, FailCases
<1>4. CASE AnswerWithoutList
  <2>1. /\ phase = "page" /\ damage' = damage \cup {"noList"}
        /\ UNCHANGED <<request, listing, shifted>>
    BY <1>4 DEF AnswerWithoutList
  <2>2. CASE Finish(got) /\ UNCHANGED <<cur, page, cursor, got, calls>>
    <3>1. Conclude("rows") \/ Conclude("empty")
      BY <2>2 DEF Finish, Conclude
    <3> QED BY <1>0, <2>1, <2>2, <3>1 DEF Answered, Damage
  <2>3. ASSUME kind \in JdKind, NEW more \in BOOLEAN, TakePage(<<>>, more, 0)
        PROVE  Answered
    <3>1. /\ <<>> \in Seq(Order) /\ 0 \in 0..Len(<<>>) /\ Len(<<>>) = 0
          /\ Elems(<<>>) \subseteq Elems(Matching)
      BY DEF Elems
    <3>2. Given(<<>>, more, 0)
      BY <2>1, <2>3, <3>1 DEF Given
    <3> QED BY <2>3, <3>1, <3>2, AnsweredBy
  <2>4. Answered
    BY <1>4, <2>1, <2>2, <2>3 DEF AnswerWithoutList, Answered
  <2> QED BY <1>0, <2>1, <2>4 DEF Damage
<1>5. CASE AnswerWithBadItem /\ kind \notin JdKind
  <2>1. /\ phase = "page" /\ damage' = damage \cup {"badItem"}
        /\ Page # <<>> /\ TakePage(Tail(Page), HasMore, 0)
        /\ UNCHANGED <<request, listing, shifted>>
    BY <1>5 DEF AnswerWithBadItem
  <2>2. /\ Tail(Page) \in Seq(Order) /\ Elems(Tail(Page)) \subseteq Elems(Matching)
        /\ 0 \in 0..Len(Tail(Page))
    BY <1>1, <2>1, TailElems
  <2>3. HasMore \in BOOLEAN
    BY DEF HasMore
  <2>4. Given(Tail(Page), HasMore, 0)
    BY <1>0, <1>5, <2>1 DEF Given, Kind, JdKind
  <2>5. Answered
    BY <2>1, <2>2, <2>3, <2>4, AnsweredBy
  <2> QED BY <1>0, <2>1, <2>5 DEF Damage
<1>6. CASE AnswerWithoutMore
  <2>1. /\ phase = "page" /\ damage' = damage \cup {"noMore"}
        /\ TakePage(Page, FALSE, 0) /\ UNCHANGED <<request, listing, shifted>>
    BY <1>6 DEF AnswerWithoutMore
  <2>2. Given(Page, FALSE, 0)
    BY <2>1 DEF Given
  <2>3. Answered
    BY <1>1, <2>1, <2>2, AnsweredBy
  <2> QED BY <1>0, <2>1, <2>3 DEF Damage
<1>7. CASE AnswerWithoutSort
  <2>1. phase = "page" /\ UNCHANGED <<request, listing, shifted>>
    BY <1>7 DEF AnswerWithoutSort
  <2>2. PICK n \in 0..(Len(Page) - 1) :
            /\ damage' = damage \cup {IF n = 0 THEN "noSort" ELSE "noLastSort"}
            /\ TakePage(Page, n # 0, n)
    BY <1>7 DEF AnswerWithoutSort
  <2>3. n \in 0..Len(Page) /\ Len(Page) \in Nat
    BY <1>1, <2>1
  <2>4. PICK more \in BOOLEAN : more = (n # 0)
    OBVIOUS
  <2>5. Given(Page, more, n)
    BY <2>2, <2>4 DEF Given
  <2>6. Answered
    BY <1>1, <2>1, <2>2, <2>3, <2>4, <2>5, AnsweredBy
  <2>7. damage \subseteq damage' /\ damage' \subseteq Damage
    BY <1>0, <2>2 DEF Damage
  <2> QED BY <2>1, <2>6, <2>7
<1>8. CASE AnswerEndless
  <2>1. /\ phase = "page" /\ damage' = damage \cup {"endless"}
        /\ UNCHANGED <<request, listing, shifted>>
    BY <1>8 DEF AnswerEndless
  <2>2. CASE kind # "jdBonus" /\ TakePage(Page, TRUE, 0)
    <3>1. Given(Page, TRUE, 0)
      BY <2>2 DEF Given
    <3> QED BY <1>0, <1>1, <2>1, <2>2, <3>1, AnsweredBy DEF Damage
  <2>3. CASE kind = "jdBonus" /\ TakePage(FirstPage, TRUE, Len(FirstPage))
    <3>1. /\ FirstPage \in Seq(Order) /\ Elems(FirstPage) \subseteq Elems(Matching)
          /\ Len(FirstPage) \in 0..Len(FirstPage)
      BY FirstPageType
    <3>2. Given(FirstPage, TRUE, Len(FirstPage))
      BY <2>1, <2>3 DEF Given
    <3>3. Answered
      BY <2>3, <3>1, <3>2, AnsweredBy
    <3> QED BY <1>0, <2>1, <3>3 DEF Damage
  <2> QED BY <1>8, <2>2, <2>3 DEF AnswerEndless
<1> QED BY <1>2, <1>3, <1>4, <1>5, <1>6, <1>7, <1>8 DEF Ask

LEMMA AnswerType ==
    ASSUME FetchInv, Ask \/ DeadlineExceeded
    PROVE  FetchInv'
<1>1. /\ phase = "page" /\ UNCHANGED <<request, listing, shifted>>
      /\ damage' \subseteq Damage /\ Answered
  BY AnswerCases
<1>2. CASE \E result \in {"rows", "empty", "error"} :
              Conclude(result) /\ UNCHANGED <<cur, page, cursor, got, calls>>
  BY <1>1, <1>2, ConcludeType
<1>3. CASE \E items \in Seq(Order), more \in BOOLEAN, n \in Nat :
              /\ n \in 0..Len(items)
              /\ Elems(items) \subseteq Elems(Matching) /\ TakePage(items, more, n)
  BY <1>1, <1>3, TakeType
<1> QED BY <1>1, <1>2, <1>3 DEF Answered

LEMMA InitFetch == Init => FetchInv
<1> SUFFICES ASSUME Init PROVE FetchInv
  OBVIOUS
<1>1. /\ phase = "idle" /\ kind \in Kind /\ asked \in Interval
      /\ inclusive \in BOOLEAN /\ listing = Listed /\ shifted = FALSE
      /\ cur = 0 /\ page = 1 /\ cursor = None /\ got = <<>> /\ outcome = None
      /\ calls = 0 /\ damage = {}
  BY DEF Init
<1>2. asked.start \in Nat
  BY <1>1, AskedType
<1>3. PageBound \in Nat /\ 1 \in 1..PageBound /\ 0 \in 0..PageBound
  BY Widths
<1>4. Listed \in Seq(Order) /\ got \in Seq(Order)
  BY <1>1, ListAssumption
<1>5. TypeOK
  <2>1. shifted \in BOOLEAN /\ inclusive \in BOOLEAN
    BY <1>1
  <2> QED BY <1>1, <1>2, <1>3, <1>4, <2>1 DEF TypeOK
<1>6. Elems(Listed) = Initially /\ Distinct(Listed)
  BY ListAssumption DEF Elems, Initially, Distinct
<1>7. Listing
  BY <1>1, <1>6 DEF Listing
<1> QED BY <1>1, <1>5, <1>7 DEF FetchInv, Idle, Going

LEMMA StepCases ==
    ASSUME [Next]_vars
    PROVE  Receive \/ List \/ Ask \/ DeadlineExceeded \/ UNCHANGED vars
BY DEF Next, Collect, Done, QueryAllPagedOrders, QueryAllPagedIncomes,
       QueryAllPagedUsers, FetchJdOrdersPage, FetchJdBonusOrdersPage

LEMMA SameFetch ==
    ASSUME FetchInv, UNCHANGED vars
    PROVE  FetchInv'
<1>1. UNCHANGED <<phase, kind, asked, inclusive, listing, shifted, cur, page, cursor,
                  got, outcome, calls, damage>>
  BY DEF vars
<1>2. EndTime' = EndTime
  BY <1>1 DEF EndTime
<1>3. InWindow' = InWindow
  BY <1>1, <1>2 DEF InWindow, Within, WindowEnd
<1>4. Matching' = Matching
  BY <1>1, <1>3 DEF Matching
<1>5. inclusive \in BOOLEAN /\ shifted \in BOOLEAN
  BY DEF FetchInv, TypeOK
<1>6. TypeOK'
  BY <1>1, <1>2, <1>5 DEF FetchInv, TypeOK
<1> QED BY <1>1, <1>4, <1>6 DEF FetchInv, Idle, Going, Listing

LEMMA NextFetch == FetchInv /\ [Next]_vars => FetchInv'
BY StepCases, ReceiveType, ListType, AnswerType, SameFetch

\* The windows stay inside the interval, and every counter and list has its
\* type, whatever the platform lists, claims or leaves out.
THEOREM TypeCorrect == Spec => []TypeOK
<1>1. FetchInv => TypeOK
  BY DEF FetchInv
<1> QED BY <1>1, InitFetch, NextFetch, PTL DEF Spec

\* The JD loops never make more than MaxPages requests for a window.
THEOREM AtMostMaxPages == Spec => []PagesBounded
<1>1. ASSUME FetchInv PROVE PagesBounded
  <2>1. page \in Nat /\ MaxPages \in Nat
    BY <1>1, Widths DEF FetchInv, TypeOK
  <2> QED BY <1>1, <2>1 DEF FetchInv, Going, PagesBounded
<1> QED BY <1>1, InitFetch, NextFetch, PTL DEF Spec

-----------------------------------------------------------------------------
(***************************************************************************)
(* No order is exported twice.                                             *)
(***************************************************************************)
LEMMA DomainSize ==
    ASSUME NEW A, NEW s \in Seq(A)
    PROVE  IsFiniteSet(DOMAIN s) /\ Cardinality(DOMAIN s) = Len(s)
<1> DEFINE n == Len(s)
<1>1. DOMAIN s = 1..n /\ n \in Nat
  OBVIOUS
<1> HIDE DEF n
<1>2. IsFiniteSet(1..n) /\ Cardinality(1..n) = IF 1 > n THEN 0 ELSE n - 1 + 1
  BY <1>1, FS_Interval
<1>3. Cardinality(1..n) = n
  BY <1>1, <1>2
<1> QED BY <1>1, <1>2, <1>3 DEF n

LEMMA ListedSize ==
    ASSUME FetchInv
    PROVE  /\ Len(Matching) \in Nat /\ Len(Matching) <= Len(listing)
           /\ Len(listing) <= Len(Listed) + Cardinality(Late)
<1>1. /\ listing \in Seq(Order) /\ Listed \in Seq(Order) /\ IsFiniteSet(Late)
      /\ Distinct(listing) /\ Elems(listing) \subseteq Initially \cup Late
  BY ListAssumption DEF FetchInv, TypeOK, Listing
<1>2. /\ DOMAIN listing = 1..Len(listing) /\ Len(listing) \in Nat
      /\ DOMAIN Listed = 1..Len(Listed) /\ Len(Listed) \in Nat
  BY <1>1
<1>3. /\ IsFiniteSet(DOMAIN listing) /\ Cardinality(DOMAIN listing) = Len(listing)
      /\ IsFiniteSet(DOMAIN Listed) /\ Cardinality(DOMAIN Listed) = Len(Listed)
  BY <1>1, DomainSize
<1>4. Len(Matching) \in Nat /\ Len(Matching) <= Len(listing)
  <2>1. Len(Matching) = Cardinality(HitsIn(listing, InWindow))
    BY <1>1, FilterType DEF Matching
  <2>2. HitsIn(listing, InWindow) \in SUBSET DOMAIN listing
    BY DEF HitsIn
  <2>3. Cardinality(HitsIn(listing, InWindow)) \in Nat
    BY <1>1, HitsFinite
  <2>4. Cardinality(HitsIn(listing, InWindow)) <= Cardinality(DOMAIN listing)
    BY <1>3, <2>2, FS_Subset
  <2> QED BY <1>3, <2>1, <2>3, <2>4
<1>5. IsFiniteSet(Initially) /\ Cardinality(Initially) <= Len(Listed)
  <2>1. Listed \in Surjection(DOMAIN Listed, Initially)
    BY <1>1 DEF Surjection, Initially
  <2> QED BY <1>3, <2>1, FS_Surjection
<1>6. /\ IsFiniteSet(Initially \cup Late)
      /\ Cardinality(Initially \cup Late) <= Len(Listed) + Cardinality(Late)
  <2>1. /\ IsFiniteSet(Initially \cup Late) /\ IsFiniteSet(Initially \cap Late)
        /\ Cardinality(Initially \cup Late) =
              Cardinality(Initially) + Cardinality(Late) - Cardinality(Initially \cap Late)
    BY <1>1, <1>5, FS_Union, FS_Intersection
  <2>2. /\ Cardinality(Initially) \in Nat /\ Cardinality(Late) \in Nat
        /\ Cardinality(Initially \cap Late) \in Nat
    BY <1>1, <1>5, <2>1, FS_CardinalityType
  <2> QED BY <1>2, <1>5, <2>1, <2>2
<1>7. listing \in Injection(DOMAIN listing, Initially \cup Late)
  <2>1. listing \in [DOMAIN listing -> Initially \cup Late]
    <3>1. \A n \in DOMAIN listing : listing[n] \in Initially \cup Late
      BY <1>1 DEF Elems
    <3>2. listing = [n \in DOMAIN listing |-> listing[n]]
      BY <1>1, <1>2
    <3> QED BY <3>1, <3>2
  <2> QED BY <1>1, <2>1 DEF Injection, IsInjective, Distinct
<1>8. Cardinality(DOMAIN listing) <= Cardinality(Initially \cup Late)
  BY <1>6, <1>7, FS_Injection
<1>9. Cardinality(Initially \cup Late) \in Nat /\ Cardinality(Late) \in Nat
  BY <1>1, <1>6, FS_CardinalityType
<1> QED BY <1>2, <1>3, <1>4, <1>6, <1>8, <1>9

LEMMA PageTimes ==
    ASSUME NEW n \in Nat, NEW w \in Nat
    PROVE  (n + 1) * w = n * w + w
OBVIOUS

\* Where the loop goes on, the pages have passed this page too.
LEMMA PassesPage ==
    ASSUME FetchInv, phase = "page", NEW items, NEW more, NEW n, TakePage(items, more, n),
           ~LastPage(items, more), UNCHANGED <<request, listing>>,
           kind = "jdBonus" => items = Page /\ n = Len(items)
    PROVE  /\ Passed' = Passed \cup Elems(Page)
           /\ kind = "jdBonus" =>
                 \/ Before' = Before + PageSize
                 \/ Passed' = Elems(Matching)
<1>1. /\ UNCHANGED <<kind, listing>> /\ Matching' = Matching
      /\ page' = NextPage /\ cursor' = NextCursor(items, n)
  BY TakeCases
<1>2. /\ Matching \in Seq(Order) /\ Distinct(Matching) /\ Before \in Nat
      /\ PageSize \in Nat \ {0} /\ page \in 1..PageBound
      /\ PageBound \in Nat /\ 1 < PageBound - 1
  BY MatchingFacts, BeforeType, Widths DEF FetchInv, TypeOK
<1>3. Passed \cup Elems(Page) = First(Matching, Before + PageSize)
  BY PageBehind
<1>4. Passed' = First(Matching, Before')
  BY <1>1 DEF Passed, First
<1>5. CASE kind # "jdBonus" /\ page < PageBound
  <2>1. Before = (page - 1) * PageSize /\ Before' = (page' - 1) * PageSize
    BY <1>1, <1>5 DEF Before
  <2>2. page' - 1 = (page - 1) + 1 /\ page - 1 \in Nat
    BY <1>1, <1>2, <1>5 DEF NextPage
  <2>3. Before' = Before + PageSize
    BY <1>2, <2>1, <2>2, PageTimes
  <2> QED BY <1>3, <1>4, <1>5, <2>3
<1>6. CASE kind # "jdBonus" /\ page = PageBound
  <2> DEFINE most == (PageBound - 2) * PageSize
  <2>1. most \in Nat /\ Len(Matching) <= most
    <3>1. PageBound - 2 \in Nat
      BY <1>2
    <3>2. most \in Nat
      BY <1>2, <3>1
    <3>3. Len(Listed) + Cardinality(Late) <= most
      BY PageBoundAssumption, <1>2, <3>2, ListedSize
    <3>4. Len(Matching) \in Nat /\ Len(listing) \in Nat
      BY ListedSize DEF FetchInv, TypeOK
    <3>5. Len(Listed) \in Nat /\ Cardinality(Late) \in Nat
      BY ListAssumption, FS_CardinalityType
    <3> HIDE DEF most
    <3> QED BY <3>2, <3>3, <3>4, <3>5, ListedSize
  <2>2. Before = (page - 1) * PageSize /\ Before' = (page' - 1) * PageSize
    BY <1>1, <1>6 DEF Before
  <2>3. page' - 1 = PageBound - 2 /\ page - 1 = (PageBound - 2) + 1 /\ PageBound - 2 \in Nat
    BY <1>1, <1>2, <1>6 DEF NextPage
  <2>4. Before' = most /\ Before = most + PageSize
    BY <1>2, <2>2, <2>3, PageTimes
  <2> HIDE DEF most
  <2>5. Before + PageSize \in Nat /\ Len(Matching) <= Before + PageSize /\ Len(Matching) <= Before'
    BY <1>2, <2>1, <2>4, ListedSize
  <2>6. First(Matching, Before') = Elems(Matching)
    BY <1>2, <2>1, <2>4, <2>5, FirstElems
  <2>7. First(Matching, Before + PageSize) = Elems(Matching)
    BY <1>2, <2>5, FirstElems
  <2> QED BY <1>3, <1>4, <1>6, <2>6, <2>7
<1>7. CASE kind = "jdBonus"
  <2> DEFINE z == Earlier(Before + PageSize, Len(Matching))
  <2>1. Page # <<>> /\ items = Page /\ n = Len(Page)
    BY <1>7, GoesOn
  <2>2. cursor' = Matching[z] /\ z \in DOMAIN Matching
    <3>1. Page \in Seq(Order) /\ n # 0
      BY <2>1, PageBehind
    <3> QED BY <1>1, <1>7, <2>1, <3>1, PageBehind DEF NextCursor
  <2>3. cursor' # None
    <3>1. Matching[z] \in Order
      BY <1>2, <2>2
    <3> QED BY <2>2, <3>1, Widths
  <2>4. Before' = Position(Matching, cursor')
    BY <1>1, <1>7, <2>3 DEF Before, PositionOf, Position
  <2>5. Before' = z
    BY <1>2, <2>2, <2>4, PositionFacts
  <2>6. Len(Matching) \in Nat
    BY ListedSize
  <2>7. CASE z = Before + PageSize
    BY <1>3, <1>4, <1>7, <2>5, <2>7
  <2>8. CASE z = Len(Matching) /\ Len(Matching) <= Before + PageSize
    <3>1. First(Matching, z) = Elems(Matching)
      BY <1>2, <2>6, <2>8, FirstElems
    <3>2. First(Matching, Before + PageSize) = Elems(Matching)
      BY <1>2, <2>6, <2>8, FirstElems
    <3> QED BY <1>3, <1>4, <1>7, <2>5, <3>1, <3>2
  <2> QED BY <1>2, <2>6, <2>7, <2>8 DEF Earlier
<1> QED BY <1>2, <1>5, <1>6, <1>7

LEMMA InWindowTimes ==
    ASSUME FetchInv, phase = "page", NEW o \in Elems(Matching)
    PROVE  /\ o \in Order /\ o \in Elems(listing)
           /\ kind \notin CpsKind =>
                 cur <= Time[o] /\ (Time[o] < WindowEnd \/ (inclusive /\ Time[o] = WindowEnd))
BY MatchingFacts DEF FetchInv, InWindow, Within

LEMMA PassedInWindow ==
    ASSUME FetchInv, phase = "page"
    PROVE  Passed \subseteq Elems(Matching)
BY MatchingFacts, BeforeType, FirstElems DEF FetchInv, Passed

LEMMA SameExclusive ==
    ASSUME UNCHANGED request, shifted' = shifted \/ shifted', damage \subseteq damage', Exclusive'
    PROVE  Exclusive
BY DEF Exclusive, Repeated, request

LEMMA ListOnce ==
    ASSUME OnceInv, List
    PROVE  Once'
<1>1. PICK o \in Late : Lists(o)
  BY ListCases
<1>2. FetchInv /\ Once
  BY DEF OnceInv
<1>3. /\ UNCHANGED <<phase, kind, asked, inclusive, cur, page, cursor, got, damage>>
      /\ UNCHANGED request /\ phase = "page" /\ (shifted' = shifted \/ shifted')
  BY <1>1 DEF Lists, request
<1>4. ASSUME Exclusive'
      PROVE  /\ Distinct(got)
             /\ \A x \in Elems(got) : x \in Passed' \/ (kind \in JdKind /\ Time[x] < cur)
  <2>1. Exclusive
    BY <1>3, <1>4, SameExclusive
  <2>2. kind = "jdBonus" \/ ~shifted'
    BY <1>3, <1>4 DEF Exclusive
  <2>3. Passed \subseteq Passed'
    BY <1>1, <1>2, <2>2, ListPassed
  <2> QED BY <1>2, <1>3, <2>1, <2>3 DEF Once
<1> QED BY <1>3, <1>4 DEF Once

\* Of a page that is not the first one again, the orders are new.
LEMMA NewOrders ==
    ASSUME OnceInv, Exclusive, phase = "page", NEW items \in Seq(Order), NEW more,
           NEW n, Given(items, more, n), ~Repeated', UNCHANGED request
    PROVE  /\ Elems(items) \subseteq Elems(Page)
           /\ Distinct(got \o items)
           /\ Elems(got \o items) \subseteq Elems(got) \cup Elems(Page)
<1>1. /\ FetchInv /\ got \in Seq(Order) /\ Distinct(got) /\ cur \in Nat
      /\ \A o \in Elems(got) : o \in Passed \/ (kind \in JdKind /\ Time[o] < cur)
  BY DEF OnceInv, Once, FetchInv, TypeOK
<1>2. /\ Page \in Seq(Order) /\ Distinct(Page) /\ Passed \cap Elems(Page) = {}
      /\ Elems(Page) \subseteq Elems(Matching)
  BY <1>1, PageBehind
<1>3. Elems(items) \subseteq Elems(Page) /\ Distinct(items)
  <2>1. items = Page \/ (items = Tail(Page) /\ Page # <<>>) \/ items = <<>>
    BY DEF Given, Repeated, request
  <2>2. items = <<>> => Elems(items) = {} /\ Distinct(items)
    BY DEF Elems, Distinct
  <2> QED BY <1>2, <2>1, <2>2, TailElems
<1>4. ASSUME NEW o \in Elems(got), o \in Elems(Page) PROVE FALSE
  <2>1. kind \in JdKind /\ Time[o] < cur
    BY <1>1, <1>2, <1>4
  <2>2. o \in Order /\ cur <= Time[o]
    BY <1>1, <1>2, <1>4, <2>1, InWindowTimes DEF JdKind, CpsKind
  <2> QED BY <1>1, <2>1, <2>2, TimeType
<1>5. Elems(got) \cap Elems(items) = {}
  BY <1>3, <1>4
<1> QED BY <1>1, <1>3, <1>5, ConcatElems

LEMMA TakeOnce ==
    ASSUME OnceInv, phase = "page", NEW items \in Seq(Order), NEW more, NEW n,
           Given(items, more, n), TakePage(items, more, n),
           UNCHANGED <<request, listing, shifted>>, damage \subseteq damage'
    PROVE  Once'
<1>1. FetchInv /\ TypeOK /\ cur \in Nat
  BY DEF OnceInv, FetchInv, TypeOK
<1>2. /\ got' = got \o items
      /\ UNCHANGED <<kind, asked, inclusive, listing>>
      /\ \/ /\ ~LastPage(items, more)
            /\ UNCHANGED <<phase, cur, outcome>>
         \/ /\ LastPage(items, more)
            /\ cur' = IF kind \in CpsKind THEN cur ELSE WindowEnd
            /\ \/ phase' = "done"
               \/ kind \notin CpsKind /\ ~(cur' >= EndTime)
  BY <1>1, TakeCases
<1>3. SUFFICES ASSUME Exclusive'
               PROVE  /\ Distinct(got')
                      /\ phase' = "page" => \A o \in Elems(got') :
                            o \in Passed' \/ (kind \in JdKind /\ Time[o] < cur')
  BY <1>2 DEF Once
<1>4. Exclusive /\ ~Repeated'
  BY <1>3, SameExclusive DEF Exclusive
<1>5. /\ Elems(items) \subseteq Elems(Page) /\ Distinct(got')
      /\ Elems(got') \subseteq Elems(got) \cup Elems(Page)
  BY <1>2, <1>4, NewOrders
<1>6. \A o \in Elems(got) : o \in Passed \/ (kind \in JdKind /\ Time[o] < cur)
  BY <1>4 DEF OnceInv, Once
<1>7. CASE ~LastPage(items, more)
  <2>1. kind = "jdBonus" => items = Page /\ n = Len(items)
    <3>1. kind = "jdBonus" => items # <<>> /\ more
      BY <1>1, <1>7, GoesOn
    <3> QED BY <1>2, <1>4, <3>1 DEF Given, Repeated, CpsKind
  <2>2. Passed' = Passed \cup Elems(Page)
    BY <1>1, <1>7, <2>1, PassesPage
  <2> QED BY <1>2, <1>5, <1>6, <1>7, <2>2
<1>8. CASE LastPage(items, more)
  <2>1. ASSUME phase' = "page", NEW o \in Elems(got') PROVE kind \in JdKind /\ Time[o] < cur'
    <3>1. kind \in JdKind /\ kind \notin CpsKind /\ cur' = WindowEnd /\ ~(cur' >= EndTime)
      BY <1>1, <1>2, <1>8, <2>1 DEF TypeOK, Kind
    <3>2. ~inclusive
      BY <1>4, <3>1 DEF Exclusive
    <3>3. /\ EndTime \in Nat /\ WindowEnd \in Nat /\ cur < WindowEnd
      <4>1. /\ EndTime \in Nat /\ WindowEnd \in Nat
            /\ cur < EndTime => cur < WindowEnd
        BY <1>1, WindowFacts
      <4>2. cur \in asked.start..(EndTime - 1)
        BY <1>1, <3>1 DEF TypeOK
      <4>3. asked.start \in Nat
        BY <1>1, AskedType DEF TypeOK
      <4> QED BY <4>1, <4>2, <4>3
    <3>4. o \in Elems(Matching) => o \in Order /\ Time[o] < WindowEnd
      BY <1>1, <3>1, <3>2, InWindowTimes
    <3>5. o \in Elems(Matching) \/ Time[o] < cur
      <4>1. Passed \subseteq Elems(Matching) /\ Elems(Page) \subseteq Elems(Matching)
        BY <1>1, PassedInWindow, PageBehind
      <4> QED BY <1>5, <1>6, <2>1, <4>1
    <3>6. o \in Order
      <4>1. got' \in Seq(Order)
        BY <1>1, <1>2, ConcatElems DEF TypeOK
      <4> QED BY <4>1 DEF Elems
    <3> QED BY <1>1, <3>1, <3>3, <3>4, <3>5, <3>6, TimeType
  <2> QED BY <1>5, <2>1
<1> QED BY <1>7, <1>8

LEMMA NextOnce == OnceInv /\ [Next]_vars => OnceInv'
<1> SUFFICES ASSUME OnceInv, [Next]_vars PROVE OnceInv'
  OBVIOUS
<1>1. FetchInv /\ FetchInv'
  BY NextFetch DEF OnceInv
<1>2. CASE List
  BY <1>1, <1>2, ListOnce DEF OnceInv
<1>3. CASE Receive
  <2>1. phase = "idle" /\ UNCHANGED <<kind, got, shifted>>
    BY <1>3 DEF Receive, GetJdOrder, GetJdBonusOrder, GetCpsOrder, GetCpsIncome,
                GetCpsUser, ReceiveJd, ReceiveCps, request
  <2>2. got' = <<>>
    BY <1>1, <2>1 DEF FetchInv, Idle
  <2>3. Elems(got') = {} /\ Distinct(got')
    BY <2>2 DEF Elems, Distinct
  <2> QED BY <1>1, <2>3 DEF OnceInv, Once
<1>4. CASE Ask \/ DeadlineExceeded
  <2>1. /\ phase = "page" /\ UNCHANGED <<request, listing, shifted>>
        /\ damage \subseteq damage' /\ Answered
    BY <1>1, <1>4, AnswerCases
  <2>2. CASE \E result \in {"rows", "empty", "error"} :
                Conclude(result) /\ UNCHANGED <<cur, page, cursor, got, calls>>
    <3>1. phase' = "done" /\ got' = got
      BY <2>2 DEF Conclude
    <3>2. Exclusive' => Exclusive
      BY <2>1, SameExclusive
    <3> QED BY <1>1, <3>1, <3>2 DEF OnceInv, Once
  <2>3. CASE \E items \in Seq(Order), more \in BOOLEAN, n \in Nat :
                Given(items, more, n) /\ TakePage(items, more, n)
    BY <1>1, <2>1, <2>3, TakeOnce DEF OnceInv
  <2> QED BY <2>1, <2>2, <2>3 DEF Answered
<1>5. CASE UNCHANGED vars
  <2>1. UNCHANGED <<phase, kind, asked, inclusive, listing, shifted, cur, page, cursor,
                    got, outcome, calls, damage>>
    BY <1>5 DEF vars
  <2>2. Passed' = Passed
    BY <2>1 DEF Passed, First, Matching, Filter, InWindow, Within, WindowEnd, EndTime,
                Before, PositionOf
  <2>3. Exclusive' = Exclusive
    BY <2>1 DEF Exclusive, Repeated
  <2> QED BY <1>1, <2>1, <2>2, <2>3 DEF OnceInv, Once
<1> QED BY <1>2, <1>3, <1>4, <1>5, StepCases

\* Where intervals exclude their end, no order is in an export twice, however
\* orders appear and whatever is wrong with the answers, unless one was listed
\* before others while pages go by number, or the pages of a bonus query did
\* not go on behind the last order: the platform ignored the cursor, or the
\* last order of a page had no sortValue, so that an earlier one was the cursor.
THEOREM NothingTwice == Spec => []NoOrderTwice
<1>1. Init => OnceInv
  <2>1. ASSUME Init PROVE Once
    <3>1. got = <<>> /\ phase = "idle"
      BY <2>1 DEF Init
    <3> QED BY <3>1 DEF Once, Distinct
  <2> QED BY <2>1, InitFetch DEF OnceInv
<1>2. OnceInv => NoOrderTwice
  BY DEF OnceInv, Once, Exclusive, NoOrderTwice, OnlyOnce, Distinct
<1> QED BY <1>1, <1>2, NextOnce, PTL DEF Spec

-----------------------------------------------------------------------------
(***************************************************************************)
(* An export that succeeds is complete.                                    *)
(***************************************************************************)
LEMMA HitsGrow ==
    ASSUME NEW A, NEW s \in Seq(A), NEW o \in A, NEW W,
           NEW t, t = Append(s, o) \/ t = <<o>> \o s
    PROVE  /\ t \in Seq(A)
           /\ Cardinality(HitsIn(s, W)) \in Nat /\ Cardinality(HitsIn(t, W)) \in Nat
           /\ Cardinality(HitsIn(s, W)) <= Cardinality(HitsIn(t, W))
<1>1. t \in Seq(A)
  <2>1. Append(s, o) \in Seq(A)
    BY AppendFacts
  <2>2. <<o>> \o s \in Seq(A)
    BY PrependFacts
  <2> QED BY <2>1, <2>2
<1>2. /\ Filter(s, W) \in Seq(A) /\ Len(Filter(s, W)) = Cardinality(HitsIn(s, W))
      /\ Len(Filter(t, W)) = Cardinality(HitsIn(t, W))
  BY <1>1, FilterType
<1>3. Cardinality(HitsIn(s, W)) \in Nat /\ Cardinality(HitsIn(t, W)) \in Nat
  BY <1>1, HitsFinite
<1>4. CASE t = Append(s, o)
  <2>1. Filter(t, W) = IF o \in W THEN Append(Filter(s, W), o) ELSE Filter(s, W)
    BY <1>4, FilterAppend
  <2>2. Len(Append(Filter(s, W), o)) = Len(Filter(s, W)) + 1
    BY <1>2, AppendFacts
  <2> QED BY <1>1, <1>2, <1>3, <2>1, <2>2
<1>5. CASE t = <<o>> \o s
  <2>1. Filter(t, W) = IF o \in W THEN <<o>> \o Filter(s, W) ELSE Filter(s, W)
    BY <1>5, FilterPrepend
  <2>2. Len(<<o>> \o Filter(s, W)) = Len(Filter(s, W)) + 1
    BY <1>2, PrependFacts
  <2> QED BY <1>1, <1>2, <1>3, <2>1, <2>2
<1> QED BY <1>1, <1>3, <1>4, <1>5

\* The orders of the longest window that begins at a.
InHour(a, inc) ==
    {o \in Order : a <= Time[o] /\ (Time[o] < a + Hour \/ (inc /\ Time[o] = a + Hour))}

LEMMA HourHits ==
    ASSUME NEW l \in Seq(Order), NEW a, NEW inc
    PROVE  {n \in DOMAIN l : /\ a <= Time[l[n]]
                             /\ Time[l[n]] < a + Hour \/ (inc /\ Time[l[n]] = a + Hour)}
               = HitsIn(l, InHour(a, inc))
<1>1. \A n \in DOMAIN l : l[n] \in Order
  OBVIOUS
<1> QED BY <1>1 DEF HitsIn, InHour

LEMMA LimitByHits ==
    ASSUME listing \in Seq(Order)
    PROVE  WithinLimit <=>
               \A a \in asked.start..asked.end :
                   Cardinality(HitsIn(listing, InHour(a, inclusive))) <= MaxPages * PageSize
<1>1. \A a : {n \in DOMAIN listing : Within(listing[n], a, a + Hour)}
                = HitsIn(listing, InHour(a, inclusive))
  BY HourHits DEF Within
<1> QED BY <1>1 DEF WithinLimit

\* A window that holds few enough orders held few enough before.
LEMMA ListLimit ==
    ASSUME FetchInv, NEW o, Lists(o), WithinLimit'
    PROVE  WithinLimit
<1>1. listing \in Seq(Order) /\ o \in Order /\ asked' = asked /\ inclusive' = inclusive
  BY ListMatching DEF FetchInv, TypeOK, Lists, request
<1>2. listing' = Append(listing, o) \/ listing' = <<o>> \o listing
  BY DEF Lists
<1>3. listing' \in Seq(Order)
  BY <1>1, <1>2, HitsGrow
<1>4. \A a \in asked.start..asked.end :
          Cardinality({n \in DOMAIN listing' :
              /\ a <= Time[listing'[n]]
              /\ \/ Time[listing'[n]] < a + Hour
                 \/ inclusive /\ Time[listing'[n]] = a + Hour}) <= MaxPages * PageSize
  BY <1>1 DEF WithinLimit, Within
<1>5. ASSUME NEW a \in asked.start..asked.end
      PROVE  Cardinality(HitsIn(listing, InHour(a, inclusive))) <= MaxPages * PageSize
  <2> DEFINE W == InHour(a, inclusive)
  <2>1. Cardinality(HitsIn(listing', W)) <= MaxPages * PageSize
    BY <1>3, <1>4, HourHits
  <2> HIDE DEF W
  <2>2. /\ Cardinality(HitsIn(listing, W)) \in Nat
        /\ Cardinality(HitsIn(listing', W)) \in Nat
        /\ Cardinality(HitsIn(listing, W)) <= Cardinality(HitsIn(listing', W))
    BY <1>1, <1>2, HitsGrow
  <2>3. MaxPages * PageSize \in Nat
    BY Widths
  <2>4. Cardinality(HitsIn(listing, W)) <= MaxPages * PageSize
    BY <2>1, <2>2, <2>3
  <2> QED BY <2>4 DEF W
<1> QED BY <1>1, <1>5, LimitByHits

LEMMA MatchingLimit ==
    ASSUME FetchInv, phase = "page", kind \in JdKind, WithinLimit
    PROVE  Len(Matching) <= MaxPages * PageSize
<1>1. /\ listing \in Seq(Order) /\ TypeOK /\ cur \in asked.start..(EndTime - 1)
      /\ cur \in Nat
  BY DEF FetchInv, TypeOK
<1>2. /\ EndTime \in Nat /\ EndTime <= asked.end /\ WindowEnd \in Nat
      /\ WindowEnd <= cur + Hour /\ Hour \in Nat
      /\ asked.start \in Nat /\ asked.end \in Nat
  BY <1>1, WindowFacts, Widths, AskedType DEF TypeOK
<1>3. cur \in asked.start..asked.end
  BY <1>1, <1>2
<1>4. InWindow \subseteq InHour(cur, inclusive)
  <2>1. ASSUME NEW o \in InWindow PROVE o \in InHour(cur, inclusive)
    <3>1. o \in Order /\ Within(o, cur, WindowEnd)
      BY <2>1 DEF InWindow, JdKind, CpsKind
    <3>2. Time[o] \in Nat
      BY <3>1, TimeType
    <3> QED BY <1>1, <1>2, <3>1, <3>2 DEF Within, InHour
  <2> QED BY <2>1
<1>5. HitsIn(listing, InWindow) \in SUBSET HitsIn(listing, InHour(cur, inclusive))
  BY <1>4 DEF HitsIn
<1>6. Cardinality(HitsIn(listing, InWindow)) <= Cardinality(HitsIn(listing, InHour(cur, inclusive)))
  <2>1. IsFiniteSet(HitsIn(listing, InHour(cur, inclusive)))
    BY <1>1, HitsFinite
  <2> QED BY <1>5, <2>1, FS_Subset
<1>7. Cardinality(HitsIn(listing, InHour(cur, inclusive))) <= MaxPages * PageSize
  BY <1>1, <1>3, LimitByHits
<1>8. Len(Matching) = Cardinality(HitsIn(listing, InWindow))
  BY <1>1, FilterType DEF Matching
<1>9. /\ Cardinality(HitsIn(listing, InWindow)) \in Nat
      /\ Cardinality(HitsIn(listing, InHour(cur, inclusive))) \in Nat
      /\ MaxPages * PageSize \in Nat
  BY <1>1, HitsFinite, Widths
<1> QED BY <1>6, <1>7, <1>8, <1>9

LEMMA SameHeeded ==
    ASSUME UNCHANGED request, damage \subseteq damage', Heeded', WithinLimit' => WithinLimit
    PROVE  Heeded
BY DEF Heeded, Repeated, request

LEMMA ListSoFar ==
    ASSUME FetchInv, SoFar, List
    PROVE  SoFar'
<1>1. PICK o \in Late : Lists(o)
  BY ListCases
<1>2. /\ UNCHANGED <<phase, kind, asked, inclusive, cur, page, cursor, got, damage>>
      /\ UNCHANGED request /\ phase = "page"
  BY <1>1 DEF Lists, request
<1>3. SUFFICES ASSUME Heeded'
               PROVE  /\ Passed' \cap Initially \subseteq Elems(got)
                      /\ kind \in JdKind => \A x \in Initially : Behind(x) => x \in Elems(got)
                      /\ kind = "jdBonus" =>
                            \/ Before' >= (page - 1) * PageSize
                            \/ Elems(Matching') \cap Initially \subseteq Passed'
  BY <1>2 DEF SoFar, Behind
<1>4. Heeded
  BY <1>1, <1>2, <1>3, ListLimit, SameHeeded
<1>5. /\ Passed \cap Initially \subseteq Elems(got)
      /\ kind \in JdKind => \A x \in Initially : Behind(x) => x \in Elems(got)
      /\ kind = "jdBonus" =>
            \/ Before >= (page - 1) * PageSize
            \/ Elems(Matching) \cap Initially \subseteq Passed
  BY <1>2, <1>4 DEF SoFar
<1>6. o \notin Initially
  BY <1>1, ListMatching
<1>7. /\ Passed' \subseteq Passed \cup {o}
      /\ kind = "jdBonus" => Passed \subseteq Passed'
      /\ Elems(Matching') \subseteq Elems(Matching) \cup {o}
      /\ Before' \in Nat /\ Before' >= Before
  BY <1>1, ListPassed
<1>8. kind = "jdBonus" /\ Before >= (page - 1) * PageSize => Before' >= (page - 1) * PageSize
  <2>1. Before \in Nat
    BY <1>2, BeforeType
  <2>2. (page - 1) * PageSize \in Int
    <3>1. page - 1 \in Int /\ PageSize \in Int
      BY Widths DEF FetchInv, TypeOK
    <3> QED BY <3>1
  <2> QED BY <1>7, <2>1, <2>2
<1> QED BY <1>5, <1>6, <1>7, <1>8

\* When the window is over, it has been passed as far as it was listed at
\* first.
LEMMA WindowPassed ==
    ASSUME FetchInv, SoFar, Heeded, phase = "page", NEW more,
           more \/ ~HasMore, LastPage(Page, more)
    PROVE  Elems(Matching) \cap Initially \subseteq Passed \cup Elems(Page)
<1>1. /\ Matching \in Seq(Order) /\ Before \in Nat /\ Len(Matching) \in Nat
      /\ PageSize \in Nat \ {0} /\ MaxPages \in Nat \ {0} /\ page \in Nat \ {0}
      /\ kind \in Kind
  BY MatchingFacts, BeforeType, ListedSize, Widths DEF FetchInv, TypeOK
<1>2. ASSUME Len(Matching) <= Before + PageSize
      PROVE  Elems(Matching) \cap Initially \subseteq Passed \cup Elems(Page)
  <2>1. First(Matching, Before + PageSize) = Elems(Matching)
    BY <1>1, <1>2, FirstElems
  <2> QED BY <2>1, PageBehind
<1>3. ~more => Len(Matching) <= Before + PageSize
  BY <1>1 DEF HasMore
<1>4. ASSUME kind \in JdKind, PastLimit(page + 1), Before >= (page - 1) * PageSize
      PROVE  Len(Matching) <= Before + PageSize
  <2>1. page = MaxPages
    <3>1. page <= MaxPages
      BY <1>4 DEF FetchInv, Going
    <3>2. page + 1 > MaxPages
      BY <1>4 DEF PastLimit
    <3> QED BY <1>1, <3>1, <3>2
  <2>2. MaxPages * PageSize = (page - 1) * PageSize + PageSize
    <3>1. page - 1 \in Nat /\ (page - 1) + 1 = MaxPages
      BY <1>1, <2>1
    <3> QED BY <1>1, <3>1, PageTimes
  <2>3. Len(Matching) <= MaxPages * PageSize
    BY <1>4, MatchingLimit DEF Heeded, JdKind, CpsKind
  <2>4. (page - 1) * PageSize \in Nat
    BY <1>1
  <2> QED BY <1>1, <1>4, <2>2, <2>3, <2>4
<1>5. CASE kind \in CpsKind
  <2>1. ~more
    BY <1>5 DEF LastPage, CpsEnd, CpsKind
  <2> QED BY <1>2, <1>3, <2>1
<1>6. CASE kind = "jdOrder"
  <2>1. ~more \/ PastLimit(page + 1)
    BY <1>6 DEF LastPage, JdOrdersEnd, CpsKind
  <2>2. Before >= (page - 1) * PageSize
    <3>1. Before = (page - 1) * PageSize
      BY <1>6 DEF Before
    <3> QED BY <1>1, <3>1
  <2> QED BY <1>2, <1>3, <1>4, <1>6, <2>1, <2>2 DEF JdKind
<1>7. CASE kind = "jdBonus"
  <2>1. ~more \/ Page = <<>> \/ PastLimit(page + 1)
    BY <1>7 DEF LastPage, JdBonusEnd, CpsKind
  <2>2. \/ Before >= (page - 1) * PageSize
        \/ Elems(Matching) \cap Initially \subseteq Passed
    BY <1>7 DEF SoFar
  <2>3. Page = <<>> => Len(Matching) <= Before + PageSize
    <3>1. Page = <<>> => Before >= Len(Matching)
      BY PageBehind
    <3> QED BY <1>1, <3>1
  <2> QED BY <1>2, <1>3, <1>4, <1>7, <2>1, <2>2, <2>3 DEF JdKind
<1> QED BY <1>1, <1>5, <1>6, <1>7 DEF Kind, JdKind


\* When the window is over, its orders have been collected, and those before.
LEMMA WindowDone ==
    ASSUME FetchInv, SoFar, Heeded, phase = "page", kind \in JdKind, NEW more,
           more \/ ~HasMore, LastPage(Page, more), NEW o \in Initially,
           asked.start <= Time[o], Time[o] < WindowEnd \/ (inclusive /\ Time[o] = WindowEnd)
    PROVE  o \in Elems(got) \cup Elems(Page)
<1>1. /\ Passed \cap Initially \subseteq Elems(got)
      /\ Behind(o) => o \in Elems(got)
  BY DEF SoFar
<1>2. o \in Order /\ o \in Elems(listing) /\ cur \in Nat
  BY ListAssumption DEF FetchInv, Listing, TypeOK, Initially
<1>3. Time[o] \in Nat
  BY <1>2, TimeType
<1>4. CASE Time[o] < cur
  BY <1>1, <1>4 DEF Behind
<1>5. CASE cur <= Time[o]
  <2>1. o \in InWindow
    BY <1>2, <1>5 DEF InWindow, Within
  <2>2. o \in Elems(Matching)
    BY <1>2, <2>1, MatchingFacts DEF FetchInv
  <2> QED BY <1>1, <2>2, WindowPassed
<1> QED BY <1>2, <1>3, <1>4, <1>5

\* A new window has passed nothing.
LEMMA NothingPassed ==
    ASSUME listing' \in Seq(Order), page' = 1, cursor' = None
    PROVE  /\ Passed' = {}
           /\ kind' = "jdBonus" => Before' >= (page' - 1) * PageSize
<1>1. PageSize \in Nat
  BY Widths
<1>2. (page' - 1) * PageSize = 0
  <2>1. page' - 1 = 0
    OBVIOUS
  <2>2. 0 * PageSize = 0
    BY <1>1
  <2> QED BY <2>1, <2>2
<1>3. Before' = 0
  BY <1>2 DEF Before
<1>4. Filter(listing', InWindow') \in Seq(Order)
  BY FilterType
<1>5. Passed' = {}
  <2>1. First(Filter(listing', InWindow'), 0) = {}
    BY <1>4, FirstElems
  <2>2. Passed' = First(Filter(listing', InWindow'), Before')
    BY DEF Passed, Matching
  <2> QED BY <1>3, <2>1, <2>2
<1> QED BY <1>2, <1>3, <1>5

\* Where the cursor is heeded and no damaged answer passed for a good one, an
\* answer gives the page, and says whether more follows.
LEMMA GivenPage ==
    ASSUME FetchInv, NEW items, NEW more, NEW n, Given(items, more, n),
           UNCHANGED request, Heeded'
    PROVE  /\ items = Page /\ (more \/ ~HasMore)
           /\ kind = "jdBonus" /\ more => n = Len(items)
BY DEF Given, Heeded, Repeated, request

LEMMA TakeSoFar ==
    ASSUME FetchInv, SoFar, phase = "page", NEW items \in Seq(Order), NEW more, NEW n,
           Given(items, more, n), TakePage(items, more, n),
           UNCHANGED <<request, listing>>, damage \subseteq damage'
    PROVE  SoFar'
<1>1. /\ got' = got \o items
      /\ UNCHANGED <<kind, asked, inclusive, listing>>
      /\ \/ /\ ~LastPage(items, more)
            /\ page' = NextPage /\ cursor' = NextCursor(items, n)
            /\ UNCHANGED <<phase, cur, outcome>>
            /\ Matching' = Matching /\ InWindow' = InWindow
         \/ /\ LastPage(items, more)
            /\ page' = 1 /\ cursor' = None
            /\ cur' = IF kind \in CpsKind THEN cur ELSE WindowEnd
            /\ \/ phase' = "done"
               \/ kind \notin CpsKind /\ ~(cur' >= EndTime)
  BY TakeCases
<1>2. SUFFICES ASSUME phase' = "page", Heeded'
               PROVE  /\ Passed' \cap Initially \subseteq Elems(got')
                      /\ kind \in JdKind => \A o \in Initially : Behind(o)' => o \in Elems(got')
                      /\ kind = "jdBonus" =>
                            \/ Before' >= (page' - 1) * PageSize
                            \/ Elems(Matching') \cap Initially \subseteq Passed'
  BY <1>1 DEF SoFar
<1>3. Heeded
  <2>1. WithinLimit' => WithinLimit
    BY <1>1 DEF WithinLimit, Within
  <2> QED BY <1>2, <2>1, SameHeeded
<1>4. /\ items = Page /\ (more \/ ~HasMore)
      /\ kind = "jdBonus" /\ more => n = Len(items)
  BY <1>2, GivenPage
<1>5. /\ Passed \cap Initially \subseteq Elems(got)
      /\ kind \in JdKind => \A o \in Initially : Behind(o) => o \in Elems(got)
      /\ kind = "jdBonus" =>
            \/ Before >= (page - 1) * PageSize
            \/ Elems(Matching) \cap Initially \subseteq Passed
  BY <1>3 DEF SoFar
<1>6. Elems(got') = Elems(got) \cup Elems(Page)
  <2>1. got \in Seq(Order)
    BY DEF FetchInv, TypeOK
  <2> QED BY <1>1, <1>4, <2>1, ConcatElems
<1>7. CASE ~LastPage(items, more)
  <2>1. /\ Passed' = Passed \cup Elems(Page)
        /\ kind = "jdBonus" => Before' = Before + PageSize \/ Passed' = Elems(Matching)
    <3>1. kind = "jdBonus" => more
      BY <1>7, GoesOn
    <3> QED BY <1>4, <1>7, <3>1, PassesPage
  <2>2. UNCHANGED <<cur, Matching>> /\ page' = NextPage
    BY <1>1, <1>7
  <2>3. Passed' \cap Initially \subseteq Elems(got')
    BY <1>5, <1>6, <2>1
  <2>4. \A o \in Initially : Behind(o)' => Behind(o)
    BY <1>1, <2>2 DEF Behind
  <2>5. ASSUME kind = "jdBonus", Before >= (page - 1) * PageSize, Before' = Before + PageSize
        PROVE  Before' >= (page' - 1) * PageSize
    <3>1. /\ page \in Nat \ {0} /\ page + 1 <= MaxPages /\ Before \in Nat
          /\ PageSize \in Nat /\ MaxPages \in Nat /\ PageBound \in Nat
          /\ MaxPages + 1 < PageBound
      BY <1>7, <2>5, GoesOn, BeforeType, Widths DEF FetchInv, TypeOK, JdKind
    <3>2. page' = page + 1
      BY <2>2, <3>1 DEF NextPage
    <3>3. page - 1 \in Nat /\ page' - 1 = (page - 1) + 1
      BY <3>1, <3>2
    <3>4. (page' - 1) * PageSize = (page - 1) * PageSize + PageSize
      BY <3>1, <3>3, PageTimes
    <3>5. (page - 1) * PageSize \in Nat
      BY <3>1, <3>3
    <3> QED BY <2>5, <3>1, <3>4, <3>5
  <2>6. kind = "jdBonus" =>
            \/ Before' >= (page' - 1) * PageSize
            \/ Elems(Matching') \cap Initially \subseteq Passed'
    BY <1>5, <2>1, <2>2, <2>5
  <2> QED BY <1>5, <1>6, <2>3, <2>4, <2>6
<1>8. CASE LastPage(items, more)
  <2>1. /\ page' = 1 /\ cursor' = None /\ cur' = WindowEnd /\ kind \in JdKind
    BY <1>1, <1>2, <1>8 DEF FetchInv, TypeOK, Kind
  <2>2. listing' \in Seq(Order) /\ kind' = kind
    BY <1>1 DEF FetchInv, TypeOK
  <2>3. /\ Passed' = {}
        /\ kind = "jdBonus" => Before' >= (page' - 1) * PageSize
    BY <2>1, <2>2, NothingPassed
  <2>4. ASSUME NEW o \in Initially, Behind(o)' PROVE o \in Elems(got')
    <3>1. asked.start <= Time[o] /\ (Time[o] < WindowEnd \/ (inclusive /\ Time[o] = WindowEnd))
      BY <1>1, <2>1, <2>4 DEF Behind
    <3> QED BY <1>3, <1>4, <1>6, <1>8, <2>1, <3>1, WindowDone
  <2> QED BY <2>3, <2>4
<1> QED BY <1>7, <1>8


\* A page that ends the last window ends a complete export.
LEMMA TakeComplete ==
    ASSUME FetchInv, SoFar, phase = "page", NEW items \in Seq(Order), NEW more, NEW n,
           Given(items, more, n), TakePage(items, more, n),
           UNCHANGED <<request, listing>>, damage \subseteq damage'
    PROVE  CompleteExport'
<1>1. /\ got' = got \o items
      /\ UNCHANGED <<kind, asked, inclusive, listing>>
      /\ \/ outcome' = outcome
         \/ /\ LastPage(items, more)
            /\ cur' = IF kind \in CpsKind THEN cur ELSE WindowEnd
            /\ kind \in CpsKind \/ cur' >= EndTime
  BY TakeCases
<1>2. SUFFICES ASSUME /\ Succeeded' /\ Heeded'
                      /\ kind = "jdOrder" /\ asked.midnight =>
                            inclusive /\ asked.start < EndTime,
                      NEW o \in Wanted
               PROVE  \E k \in DOMAIN got' : got'[k] = o
  BY <1>1 DEF CompleteExport, Collected, Wanted, Heeded, EndTime
<1>3. Heeded
  <2>1. WithinLimit' => WithinLimit
    BY <1>1 DEF WithinLimit, Within
  <2> QED BY <1>2, <2>1, SameHeeded
<1>4. /\ items = Page /\ (more \/ ~HasMore)
      /\ kind = "jdBonus" /\ more => n = Len(items)
  BY <1>2, GivenPage
<1>5. /\ LastPage(items, more)
      /\ kind \in CpsKind \/ WindowEnd >= EndTime
  <2>1. outcome' # None
    BY <1>2, NoOutcome DEF Succeeded
  <2>2. outcome = None
    BY DEF FetchInv, Going
  <2> QED BY <1>1, <2>1, <2>2
<1>6. Elems(got') = Elems(got) \cup Elems(Page)
  <2>1. got \in Seq(Order)
    BY DEF FetchInv, TypeOK
  <2> QED BY <1>1, <1>4, <2>1, ConcatElems
<1>7. o \in Initially /\ o \in Order
  BY <1>2, ListAssumption DEF Wanted, Initially
<1>8. CASE kind \in CpsKind
  <2>1. o \in InWindow /\ o \in Elems(listing)
    BY <1>7, <1>8 DEF InWindow, FetchInv, Listing
  <2>2. o \in Elems(Matching)
    BY <2>1, MatchingFacts DEF FetchInv
  <2>3. o \in Passed \cup Elems(Page)
    BY <1>3, <1>4, <1>5, <1>7, <2>2, WindowPassed
  <2>4. Passed \cap Initially \subseteq Elems(got)
    BY <1>3 DEF SoFar
  <2>5. o \in Elems(got')
    BY <1>6, <1>7, <2>3, <2>4
  <2> QED BY <2>5 DEF Elems
<1>9. CASE kind \in JdKind
  <2>1. asked.start <= Time[o] /\ Time[o] < asked.end
    BY <1>2, <1>9 DEF Wanted, JdKind, CpsKind
  <2>2. /\ EndTime \in Nat /\ WindowEnd \in Nat /\ WindowEnd <= EndTime
        /\ EndTime = asked.end \/ (kind = "jdOrder" /\ asked.midnight /\ EndTime = asked.end - 1)
    BY WindowFacts DEF FetchInv
  <2>3. Time[o] \in Nat /\ asked.end \in Nat
    BY <1>7, TimeType, AskedType DEF FetchInv, TypeOK
  <2>4. WindowEnd = EndTime
    BY <1>5, <1>9, <2>2 DEF JdKind, CpsKind
  <2>5. Time[o] < WindowEnd \/ (inclusive /\ Time[o] = WindowEnd)
    BY <1>2, <2>1, <2>2, <2>3, <2>4
  <2>6. o \in Elems(got) \cup Elems(Page)
    BY <1>3, <1>4, <1>5, <1>7, <1>9, <2>1, <2>5, WindowDone
  <2>7. o \in Elems(got')
    BY <1>6, <2>6
  <2> QED BY <2>7 DEF Elems
<1> QED BY <1>8, <1>9 DEF FetchInv, TypeOK, Kind

LEMMA ReceiveComplete ==
    ASSUME FetchInv, Receive
    PROVE  SoFar' /\ CompleteExport'
<1>1. /\ \/ kind \in JdKind /\ ReceiveJd
         \/ kind \in CpsKind /\ ReceiveCps
      /\ phase = "idle"
  BY DEF Receive, GetJdOrder, GetJdBonusOrder, GetCpsOrder, GetCpsIncome, GetCpsUser,
         JdKind, CpsKind, ReceiveJd, ReceiveCps
<1>2. /\ UNCHANGED <<kind, asked, inclusive, listing, page, cursor, got>>
      /\ listing \in Seq(Order) /\ page = 1 /\ cursor = None /\ outcome = None
      /\ asked.start \in Nat /\ EndTime' = EndTime
  BY <1>1, AskedType DEF ReceiveJd, ReceiveCps, request, FetchInv, Idle, TypeOK, EndTime
<1>3. \/ phase' = "done" /\ outcome' \in {"refused", "error"}
      \/ /\ phase' = "done" /\ outcome' = "empty"
         /\ kind \in JdKind /\ asked.start >= EndTime
      \/ phase' = "page" /\ outcome' = None /\ (kind \in JdKind => cur' = asked.start)
  BY <1>1, <1>2 DEF ReceiveJd, ReceiveCps, Conclude, Begin, JdKind, CpsKind
<1>4. SoFar'
  <2>1. Passed' = {} /\ (kind' = "jdBonus" => Before' >= (page' - 1) * PageSize)
    BY <1>2, NothingPassed
  <2>2. ASSUME phase' = "page", kind' \in JdKind, NEW o \in Initially PROVE ~Behind(o)'
    <3>1. cur' = asked.start
      BY <1>2, <1>3, <2>2
    <3>2. Time[o] \in Nat
      BY TimeType, ListAssumption DEF Initially
    <3> QED BY <1>2, <3>1, <3>2 DEF Behind
  <2> QED BY <2>1, <2>2 DEF SoFar
<1>5. CompleteExport'
  <2>1. SUFFICES ASSUME /\ kind \in JdKind /\ asked.start >= EndTime
                        /\ ~(kind = "jdOrder" /\ asked.midnight),
                        NEW o \in Wanted
                 PROVE  FALSE
    <3>1. EndTime \in Nat
      BY WindowFacts DEF FetchInv
    <3>2. Wanted' = Wanted
      BY <1>2 DEF Wanted
    <3>3. Succeeded' => outcome' = "empty"
      BY <1>3, NoOutcome DEF Succeeded
    <3>4. CompleteExport' \/ /\ Succeeded' 
                             /\ kind = "jdOrder" /\ asked.midnight => asked.start < EndTime
                             /\ \E x \in Wanted : TRUE
      BY <1>2, <3>2 DEF CompleteExport
    <3> QED BY <1>2, <1>3, <2>1, <3>1, <3>3, <3>4, NoOutcome
  <2>2. EndTime = asked.end
    BY <2>1 DEF EndTime
  <2>3. o \in Initially /\ asked.start <= Time[o] /\ Time[o] < asked.end
    BY <2>1 DEF Wanted, JdKind, CpsKind
  <2>4. Time[o] \in Nat /\ asked.end \in Nat
    BY <2>3, TimeType, ListAssumption, AskedType DEF Initially, FetchInv, TypeOK
  <2> QED BY <1>2, <2>1, <2>2, <2>3, <2>4
<1> QED BY <1>4, <1>5

LEMMA NextComplete == CompleteInv /\ [Next]_vars => CompleteInv'
<1> SUFFICES ASSUME CompleteInv, [Next]_vars PROVE CompleteInv'
  OBVIOUS
<1>1. FetchInv /\ FetchInv' /\ SoFar /\ CompleteExport
  BY NextFetch DEF CompleteInv
<1>2. CASE Receive
  BY <1>1, <1>2, ReceiveComplete DEF CompleteInv
<1>3. CASE List
  <2>1. SoFar'
    BY <1>1, <1>3, ListSoFar
  <2>2. outcome' = None
    BY <1>1, <1>3 DEF List, FetchInv, Going
  <2>3. CompleteExport'
    BY <2>2, NoOutcome DEF CompleteExport, Succeeded
  <2> QED BY <1>1, <2>1, <2>3 DEF CompleteInv
<1>4. CASE Ask \/ DeadlineExceeded
  <2>1. /\ phase = "page" /\ UNCHANGED <<request, listing, shifted>>
        /\ damage \subseteq damage' /\ Answered
    BY <1>1, <1>4, AnswerCases
  <2>2. CASE \E result \in {"rows", "empty", "error"} :
                Conclude(result) /\ (result = "error" \/ "noList" \in damage')
    <3>1. phase' = "done" /\ (outcome' = "error" \/ "noList" \in damage')
      BY <2>2 DEF Conclude
    <3>2. SoFar' /\ CompleteExport'
      BY <3>1 DEF SoFar, CompleteExport, Succeeded
    <3> QED BY <1>1, <3>2 DEF CompleteInv
  <2>3. CASE \E items \in Seq(Order), more \in BOOLEAN, n \in Nat :
                Given(items, more, n) /\ TakePage(items, more, n)
    BY <1>1, <2>1, <2>3, TakeSoFar, TakeComplete DEF CompleteInv
  <2> QED BY <2>1, <2>2, <2>3 DEF Answered
<1>5. CASE UNCHANGED vars
  <2>1. UNCHANGED <<phase, kind, asked, inclusive, listing, shifted, cur, page, cursor,
                    got, outcome, calls, damage>>
    BY <1>5 DEF vars
  <2>2. UNCHANGED <<Passed, Matching, Before>>
    BY <2>1 DEF Passed, First, Matching, Filter, InWindow, Within, WindowEnd, EndTime,
                Before, PositionOf
  <2>3. UNCHANGED <<WithinLimit, Repeated, EndTime>>
    BY <2>1 DEF WithinLimit, Within, Repeated, EndTime
  <2>4. Heeded' = Heeded
    BY <2>1, <2>3 DEF Heeded
  <2>5. SoFar'
    BY <1>1, <2>1, <2>2, <2>4 DEF SoFar, Behind
  <2>6. CompleteExport'
    BY <1>1, <2>1, <2>3 DEF CompleteExport, Succeeded, Wanted, Collected
  <2> QED BY <1>1, <2>5, <2>6 DEF CompleteInv
<1> QED BY <1>2, <1>3, <1>4, <1>5, StepCases

\* An export that succeeds has every order of the interval that was listed
\* when it began, although orders appear meanwhile, where no window exceeds the
\* page limit and no damaged answer passed for a good one.
THEOREM SuccessIsComplete == Spec => []CompleteExport
<1>1. Init => CompleteInv
  <2>1. ASSUME Init PROVE SoFar /\ CompleteExport
    <3>1. outcome = None /\ phase = "idle"
      BY <2>1 DEF Init
    <3> QED BY <3>1, NoOutcome DEF SoFar, CompleteExport, Succeeded
  <2> QED BY <2>1, InitFetch DEF CompleteInv
<1>2. CompleteInv => CompleteExport
  BY DEF CompleteInv
<1> QED BY <1>1, <1>2, NextComplete, PTL DEF Spec

=============================================================================
