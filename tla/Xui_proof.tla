----------------------------- MODULE Xui_proof -----------------------------
(* Proofs for Xui: whatever locations, ports, outbounds and threads there  *)
(* are, 3x-ui ends up with one outbound per location or somebody is told,  *)
(* and syncs leave the outbounds of others as they are.                    *)
EXTENDS Xui, FunctionTheorems, FiniteSetTheorems, SequenceTheorems, TLAPS

-----------------------------------------------------------------------------
(* The k-th smallest of a finite set of numbers.                           *)

Below(S, i) == {j \in S : j <= i}

\* The numbers up to one of them are finitely many, and no more than all.
LEMMA RankType ==
    ASSUME NEW S \in SUBSET Nat, IsFiniteSet(S), NEW i \in Nat
    PROVE  /\ IsFiniteSet(Below(S, i)) /\ Rank(S, i) = Cardinality(Below(S, i))
           /\ Rank(S, i) \in 0 .. Cardinality(S) /\ Cardinality(S) \in Nat
           /\ i \in S => Rank(S, i) # 0
  <1>1. Below(S, i) \in SUBSET S
    BY DEF Below
  <1>2. IsFiniteSet(Below(S, i)) /\ Cardinality(Below(S, i)) <= Cardinality(S)
    BY <1>1, FS_Subset
  <1>3. Cardinality(S) \in Nat /\ Cardinality(Below(S, i)) \in Nat
    BY <1>2, FS_CardinalityType
  <1>4. Rank(S, i) = Cardinality(Below(S, i))
    BY DEF Rank, Below
  <1>5. i \in S => i \in Below(S, i)
    BY DEF Below
  <1>6. i \in S => Cardinality(Below(S, i)) # 0
    BY <1>2, <1>5, FS_EmptySet
  <1> QED BY <1>2, <1>3, <1>4, <1>6

\* Ranks grow from one of the numbers to the next.
LEMMA RankGrows ==
    ASSUME NEW S \in SUBSET Nat, IsFiniteSet(S), NEW i \in Nat, NEW j \in S, i < j
    PROVE  Rank(S, i) < Rank(S, j)
  <1>0. S \subseteq Nat /\ j \in Nat
    OBVIOUS
  <1>1. Below(S, i) \in SUBSET Below(S, j) /\ j \in Below(S, j) /\ j \notin Below(S, i)
    <2>1. ASSUME NEW x \in S, x <= i PROVE x <= j
      BY <1>0, <2>1
    <2>2. j <= j /\ ~(j <= i)
      BY <1>0
    <2> QED BY <2>1, <2>2 DEF Below
  <1>2. IsFiniteSet(Below(S, j)) /\ Rank(S, i) = Cardinality(Below(S, i))
        /\ Rank(S, j) = Cardinality(Below(S, j)) /\ Rank(S, i) \in Nat /\ Rank(S, j) \in Nat
    BY RankType
  <1>3. Cardinality(Below(S, i)) <= Cardinality(Below(S, j))
        /\ Cardinality(Below(S, j)) # Cardinality(Below(S, i))
    BY <1>1, <1>2, FS_Subset
  <1> QED BY <1>2, <1>3

\* Every rank is one of theirs: distinct numbers have distinct ranks, of which there are no
\* more than there are numbers.
LEMMA RankOnto ==
    ASSUME NEW S \in SUBSET Nat, IsFiniteSet(S), NEW k \in 1 .. Cardinality(S)
    PROVE  \E i \in S : Rank(S, i) = k
  <1> DEFINE n == Cardinality(S)
             f == [i \in S |-> Rank(S, i)]
  <1>1. n \in Nat
    BY FS_CardinalityType
  <1>2. ASSUME NEW i \in S PROVE Rank(S, i) \in 1 .. n
    BY <1>1, RankType
  <1>3. f \in [S -> 1 .. n]
    BY <1>2
  <1>4. ASSUME NEW i \in S, NEW j \in S, i # j PROVE f[i] # f[j]
    <2>1. Rank(S, i) \in Nat /\ Rank(S, j) \in Nat
      BY RankType
    <2>2. i < j \/ j < i
      BY <1>4
    <2> QED BY <2>1, <2>2, RankGrows
  <1>5. f \in Injection(S, 1 .. n)
    BY <1>3, <1>4, Fun_IsInj
  <1>6. IsFiniteSet(1 .. n) /\ Cardinality(1 .. n) = n
    BY <1>1, FS_Interval
  <1>7. f \in Surjection(S, 1 .. n)
    BY <1>5, <1>6, FS_Injection
  <1> QED BY <1>7 DEF Surjection

\* The k-th of them has rank k, and each of them is the one of its rank.
LEMMA NthRank ==
    ASSUME NEW S \in SUBSET Nat, IsFiniteSet(S)
    PROVE  /\ Cardinality(S) \in Nat
           /\ \A k \in 1 .. Cardinality(S) : Nth(S, k) \in S /\ Rank(S, Nth(S, k)) = k
           /\ \A i \in S : Rank(S, i) \in 1 .. Cardinality(S) /\ Nth(S, Rank(S, i)) = i
  <1>1. \A k \in 1 .. Cardinality(S) : Nth(S, k) \in S /\ Rank(S, Nth(S, k)) = k
    BY RankOnto DEF Nth
  <1>2. ASSUME NEW i \in S PROVE Rank(S, i) \in 1 .. Cardinality(S) /\ Rank(S, i) \in Nat
    BY RankType
  <1>3. ASSUME NEW i \in S PROVE Nth(S, Rank(S, i)) = i
    <2> DEFINE j == Nth(S, Rank(S, i))
    <2>1. j \in S /\ Rank(S, j) = Rank(S, i)
      BY <1>1, <1>2
    <2>2. Rank(S, i) \in Nat /\ i \in Nat /\ j \in Nat
      BY <1>2, <2>1
    <2>3. ~(i < j) /\ ~(j < i)
      BY <2>1, <2>2, RankGrows
    <2> QED BY <2>2, <2>3
  <1> QED BY <1>1, <1>2, <1>3, FS_CardinalityType

\* As many of one kind as of the other.
LEMMA SameCount ==
    ASSUME NEW S, NEW T, IsFiniteSet(S), NEW f \in [S -> T],
           \A a, b \in S : f[a] = f[b] => a = b,
           \A t \in T : \E a \in S : f[a] = t
    PROVE  IsFiniteSet(T) /\ Cardinality(T) = Cardinality(S)
  <1>1. f \in Bijection(S, T)
    BY Fun_IsBij
  <1>2. ExistsBijection(S, T)
    BY <1>1, Fun_ExistsBij
  <1> QED BY <1>2, FS_Bijection

\* They come in their order.
LEMMA NthGrows ==
    ASSUME NEW S \in SUBSET Nat, IsFiniteSet(S), NEW k \in 1 .. Cardinality(S), NEW l \in 1 .. Cardinality(S), k < l
    PROVE  Nth(S, k) < Nth(S, l)
  <1> DEFINE i == Nth(S, k)
             j == Nth(S, l)
  <1>1. i \in S /\ j \in S /\ Rank(S, i) = k /\ Rank(S, j) = l
    BY NthRank
  <1>2. i \in Nat /\ j \in Nat /\ k \in Nat /\ l \in Nat
    <2>1. Cardinality(S) \in Nat
      BY FS_CardinalityType
    <2>2. k \in Nat /\ l \in Nat
      BY <2>1
    <2>3. i \in Nat /\ j \in Nat
      BY <1>1
    <2> QED BY <2>2, <2>3
  <1>3. ~(j < i) /\ i # j
    BY <1>1, <1>2, RankGrows
  <1> QED BY <1>2, <1>3

\* A map of one such set onto another that keeps the order keeps the ranks.
LEMMA SameOrder ==
    ASSUME NEW S \in SUBSET Nat, IsFiniteSet(S), NEW T \in SUBSET Nat, NEW g \in [S -> T],
           \A i, j \in S : i < j => g[i] < g[j],
           \A x \in T : \E i \in S : g[i] = x
    PROVE  /\ IsFiniteSet(T) /\ Cardinality(T) = Cardinality(S)
           /\ \A k \in 1 .. Cardinality(S) : Nth(T, k) = g[Nth(S, k)]
  <1>1. \A i \in S : i \in Nat /\ g[i] \in Nat
    OBVIOUS
  <1>2. ASSUME NEW i \in S, NEW j \in S, i # j PROVE g[i] # g[j]
    <2>1. i < j \/ j < i
      BY <1>1, <1>2
    <2> QED BY <1>1, <2>1
  <1>3. \A i, j \in S : g[i] = g[j] => i = j
    BY <1>2
  <1>4. IsFiniteSet(T) /\ Cardinality(T) = Cardinality(S)
    BY <1>3, SameCount
  <1>5. ASSUME NEW i \in S PROVE Rank(T, g[i]) = Rank(S, i)
    <2> DEFINE h == [j \in Below(S, i) |-> g[j]]
    <2>1. ASSUME NEW j \in S PROVE j <= i <=> g[j] <= g[i]
      <3>1. i \in Nat /\ j \in Nat /\ g[i] \in Nat /\ g[j] \in Nat
        BY <1>1
      <3>2. i < j \/ j < i \/ i = j
        BY <3>1
      <3> QED BY <3>1, <3>2
    <2>2. h \in [Below(S, i) -> Below(T, g[i])]
      BY <2>1 DEF Below
    <2>3. \A j, k \in Below(S, i) : h[j] = h[k] => j = k
      BY <1>2 DEF Below
    <2>4. ASSUME NEW x \in Below(T, g[i]) PROVE \E j \in Below(S, i) : h[j] = x
      <3>1. PICK j \in S : g[j] = x
        BY DEF Below
      <3>2. j \in Below(S, i)
        BY <2>1, <3>1 DEF Below
      <3> QED BY <3>1, <3>2
    <2>6. IsFiniteSet(Below(S, i)) /\ Rank(S, i) = Cardinality(Below(S, i))
      BY <1>1, RankType
    <2>7. Rank(T, g[i]) = Cardinality(Below(T, g[i]))
      BY DEF Rank, Below
    <2> HIDE DEF h
    <2> QED BY <2>2, <2>3, <2>4, <2>6, <2>7, SameCount
  <1>6. ASSUME NEW k \in 1 .. Cardinality(S) PROVE Nth(T, k) = g[Nth(S, k)]
    <2>1. Nth(S, k) \in S /\ Rank(S, Nth(S, k)) = k
      BY NthRank
    <2>2. Rank(T, g[Nth(S, k)]) = k /\ g[Nth(S, k)] \in T
      BY <1>5, <2>1
    <2> QED BY <1>4, <2>2, NthRank
  <1> QED BY <1>4, <1>6

-----------------------------------------------------------------------------
(* mergeOutbounds                                                          *)

\* The first n numbers are n numbers.
LEMMA UpTo ==
    ASSUME NEW n \in Nat
    PROVE  IsFiniteSet(1 .. n) /\ Cardinality(1 .. n) = n
    BY FS_Interval

\* Some positions of a sequence are finitely many numbers.
LEMMA Positions ==
    ASSUME NEW seq \in Seq(Outbound), NEW S \in SUBSET DOMAIN seq
    PROVE  S \in SUBSET Nat /\ IsFiniteSet(S) /\ Cardinality(S) \in Nat /\ Cardinality(S) <= Len(seq)
  <1>1. DOMAIN seq = 1 .. Len(seq) /\ Len(seq) \in Nat
    OBVIOUS
  <1>2. IsFiniteSet(1 .. Len(seq)) /\ Cardinality(1 .. Len(seq)) = Len(seq)
    BY <1>1, UpTo
  <1>3. IsFiniteSet(S) /\ Cardinality(S) <= Len(seq)
    BY <1>1, <1>2, FS_Subset
  <1> QED BY <1>1, <1>3, FS_CardinalityType

\* A location has one row, and its outbound has its tag.
LEMMA RowOf ==
    ASSUME NEW want \in Registries
    PROVE  /\ \A e \in want : e.name \in Names /\ Outof(e) \in Outbound /\ Outof(e).tag = e.name
           /\ \A e, f \in want : e.name = f.name => e = f
    BY DEF Registries, Row, Reg!Registries, Reg!Row, Outof, Outbound

\* An outbound of a location is righted in its place, others are left as they are.
LEMMA RightedType ==
    ASSUME NEW want \in Registries, NEW o \in Outbound
    PROVE  /\ Righted(o, want) \in Outbound /\ Righted(o, want).tag = o.tag
           /\ \A e \in want : e.name = o.tag => Righted(o, want) = Outof(e)
           /\ ~Ours(o) => Righted(o, want) = o
  <1>1. CASE \E e \in want : e.name = o.tag
    <2>1. PICK e \in want : e.name = o.tag
      BY <1>1
    <2>2. (CHOOSE f \in want : f.name = o.tag) = e
      BY <2>1, RowOf
    <2> QED BY <2>1, <2>2, RowOf DEF Righted, Ours
  <1>2. CASE ~\E e \in want : e.name = o.tag
    BY <1>2 DEF Righted
  <1> QED BY <1>1, <1>2

\* The outbounds that are missing have the tags of locations, one each, that are not there.
LEMMA MissingType ==
    ASSUME NEW seq \in Seq(Outbound), NEW want \in Registries
    PROVE  /\ Missing(seq, want) \in SUBSET Outbound /\ IsFiniteSet(Missing(seq, want))
           /\ \A x \in Missing(seq, want) : x.tag \notin TagsOf(seq) /\ Ours(x) /\ \E e \in want : x = Outof(e)
           /\ \A e \in want : e.name \notin TagsOf(seq) => Outof(e) \in Missing(seq, want)
           /\ \A x, y \in Missing(seq, want) : x.tag = y.tag => x = y
  <1> DEFINE M == Missing(seq, want)
             f == [x \in M |-> x.tag]
  <1>1. \A x \in M : \E e \in want : x = Outof(e) /\ e.name \notin TagsOf(seq)
    BY DEF Missing
  <1>2. \A e \in want : e.name \notin TagsOf(seq) => Outof(e) \in M
    BY DEF Missing
  <1> HIDE DEF M
  <1>3. \A x \in M : x \in Outbound /\ x.tag \notin TagsOf(seq) /\ x.tag \in Names
    BY <1>1, RowOf
  <1>4. \A x, y \in M : x.tag = y.tag => x = y
    BY <1>1, RowOf
  <1>5. f \in [M -> Names] /\ \A x, y \in M : f[x] = f[y] => x = y
    BY <1>3, <1>4
  <1>6. f \in Injection(M, Names)
    BY <1>5, Fun_IsInj
  <1>7. IsFiniteSet(M)
    BY <1>6, XuiBoundAssumption, FS_Injection
  <1> QED BY <1>1, <1>2, <1>3, <1>4, <1>7 DEF M, Ours

\* An order of a finite set is a sequence that has each of its elements, once.
LEMMA OrdersType ==
    ASSUME NEW S, IsFiniteSet(S), NEW m \in Orders(S)
    PROVE  /\ m \in Seq(S) /\ Len(m) = Cardinality(S) /\ Cardinality(S) \in Nat
           /\ \A i, j \in 1 .. Cardinality(S) : m[i] = m[j] => i = j
           /\ \A x \in S : \E i \in 1 .. Cardinality(S) : m[i] = x
  <1> DEFINE n == Cardinality(S)
  <1>1. n \in Nat
    BY FS_CardinalityType
  <1>2. m \in [1 .. n -> S] /\ \A i, j \in 1 .. n : m[i] = m[j] => i = j
    BY DEF Orders
  <1>3. m \in Injection(1 .. n, S)
    BY <1>2, Fun_IsInj
  <1>4. IsFiniteSet(1 .. n) /\ Cardinality(1 .. n) = n
    BY <1>1, FS_Interval
  <1>5. m \in Surjection(1 .. n, S)
    BY <1>3, <1>4, FS_Injection
  <1>6. \A x \in S : \E i \in 1 .. n : m[i] = x
    BY <1>5 DEF Surjection
  <1> HIDE DEF n
  <1>7. m \in Seq(S) /\ Len(m) = n
    BY <1>1, <1>2
  <1> QED BY <1>1, <1>2, <1>6, <1>7 DEF n

\* What is kept, in its order and righted, has the tags it had.
LEMMA KeptType ==
    ASSUME NEW seq \in Seq(Outbound), NEW want \in Registries
    PROVE  /\ KeptAt(seq, want) \in SUBSET DOMAIN seq /\ KeptAt(seq, want) \in SUBSET Nat
           /\ IsFiniteSet(KeptAt(seq, want)) /\ Cardinality(KeptAt(seq, want)) \in Nat
           /\ Kept(seq, want) \in Seq(Outbound)
           /\ Len(Kept(seq, want)) = Cardinality(KeptAt(seq, want))
           /\ \A k \in 1 .. Cardinality(KeptAt(seq, want)) :
                 /\ Nth(KeptAt(seq, want), k) \in KeptAt(seq, want)
                 /\ Kept(seq, want)[k] = Righted(seq[Nth(KeptAt(seq, want), k)], want)
                 /\ Kept(seq, want)[k].tag = seq[Nth(KeptAt(seq, want), k)].tag
  <1> DEFINE K == KeptAt(seq, want)
             n == Cardinality(K)
             R(k) == Righted(seq[Nth(K, k)], want)
  <1>1. K \in SUBSET DOMAIN seq
    BY DEF KeptAt
  <1>2. K \in SUBSET Nat /\ IsFiniteSet(K) /\ n \in Nat
    BY <1>1, Positions
  <1> HIDE DEF K
  <1>3. ASSUME NEW k \in 1 .. n
        PROVE  Nth(K, k) \in K /\ R(k) \in Outbound /\ R(k).tag = seq[Nth(K, k)].tag
    <2>1. Nth(K, k) \in K
      BY <1>2, NthRank
    <2>2. seq[Nth(K, k)] \in Outbound
      BY <1>1, <2>1
    <2> QED BY <2>1, <2>2, RightedType
  <1>4. Kept(seq, want) = [k \in 1 .. n |-> R(k)]
    BY DEF Kept, Picked, K
  <1> HIDE DEF R
  <1>5. Kept(seq, want) \in [1 .. n -> Outbound]
    BY <1>3, <1>4
  <1> HIDE DEF n
  <1>6. Kept(seq, want) \in Seq(Outbound) /\ Len(Kept(seq, want)) = n
    BY <1>2, <1>5
  <1> QED BY <1>1, <1>2, <1>3, <1>4, <1>6 DEF K, n, R

\* One sequence after another.
LEMMA Joined ==
    ASSUME NEW S, NEW a \in Seq(S), NEW b \in Seq(S)
    PROVE  /\ a \o b \in Seq(S) /\ Len(a \o b) = Len(a) + Len(b)
           /\ \A k \in 1 .. Len(a) : (a \o b)[k] = a[k]
           /\ \A k \in Len(a) + 1 .. Len(a) + Len(b) : (a \o b)[k] = b[k - Len(a)]
    OBVIOUS

\* A merged config: what is kept, then what was missing.
LEMMA MergedShape ==
    ASSUME NEW seq \in Seq(Outbound), NEW want \in Registries, NEW out \in Merged(seq, want)
    PROVE  LET n == Cardinality(KeptAt(seq, want)) IN
           /\ out \in Seq(Outbound) /\ n \in Nat /\ n <= Len(out)
           /\ \A k \in 1 .. n : out[k] = Kept(seq, want)[k]
           /\ \A k \in n + 1 .. Len(out) : out[k] \in Missing(seq, want)
           /\ \A j, k \in n + 1 .. Len(out) : out[j] = out[k] => j = k
           /\ \A x \in Missing(seq, want) : \E k \in n + 1 .. Len(out) : out[k] = x
  <1> DEFINE M == Missing(seq, want)
             kept == Kept(seq, want)
             c == Cardinality(M)
             n == Cardinality(KeptAt(seq, want))
  <1>0. PICK m \in Orders(M) : out = kept \o m
    BY DEF Merged
  <1>1. M \in SUBSET Outbound /\ IsFiniteSet(M)
    BY MissingType
  <1>2. kept \in Seq(Outbound) /\ Len(kept) = n /\ n \in Nat
    BY KeptType
  <1>3. /\ m \in Seq(M) /\ Len(m) = c /\ c \in Nat
        /\ \A i, j \in 1 .. c : m[i] = m[j] => i = j
        /\ \A x \in M : \E i \in 1 .. c : m[i] = x
    BY <1>1, OrdersType
  <1> HIDE DEF M, c, kept, n
  <1>4. m \in Seq(Outbound) /\ \A i \in 1 .. c : m[i] \in M
    BY <1>1, <1>3
  <1>5. out = kept \o m
    BY <1>0
  <1>6. /\ out \in Seq(Outbound) /\ Len(out) = n + c
        /\ \A k \in 1 .. n : out[k] = kept[k]
        /\ \A k \in n + 1 .. n + c : out[k] = m[k - n]
    <2>1. /\ kept \o m \in Seq(Outbound) /\ Len(kept \o m) = Len(kept) + Len(m)
          /\ \A k \in 1 .. Len(kept) : (kept \o m)[k] = kept[k]
          /\ \A k \in Len(kept) + 1 .. Len(kept) + Len(m) : (kept \o m)[k] = m[k - Len(kept)]
      BY <1>2, <1>4, Joined
    <2> QED BY <1>2, <1>3, <1>5, <2>1
  <1>7. \A k \in n + 1 .. n + c : k - n \in 1 .. c
    BY <1>2, <1>3
  <1>8. \A k \in n + 1 .. Len(out) : out[k] \in M
    BY <1>4, <1>6, <1>7
  <1>9. ASSUME NEW j \in n + 1 .. Len(out), NEW k \in n + 1 .. Len(out), out[j] = out[k] PROVE j = k
    <2>1. j - n \in 1 .. c /\ k - n \in 1 .. c /\ m[j - n] = m[k - n]
      BY <1>6, <1>7, <1>9
    <2>2. j - n = k - n
      BY <1>3, <2>1
    <2> QED BY <1>2, <2>2
  <1>10. ASSUME NEW x \in M PROVE \E k \in n + 1 .. Len(out) : out[k] = x
    <2>1. PICK i \in 1 .. c : m[i] = x
      BY <1>3
    <2>2. n + i \in n + 1 .. n + c /\ (n + i) - n = i
      BY <1>2, <1>3
    <2> QED BY <1>6, <2>1, <2>2
  <1>11. n <= Len(out)
    BY <1>2, <1>3, <1>6
  <1> QED BY <1>2, <1>6, <1>8, <1>9, <1>10, <1>11 DEF M, kept, n

\* To be in step is to have one outbound at one place for each location.
LEMMA SyncedPlaces ==
    ASSUME NEW seq \in Seq(Outbound), NEW want \in Registries
    PROVE  SyncedTo(seq, want)
              <=> /\ \A i \in DOMAIN seq : Ours(seq[i]) => \E e \in want : seq[i] = Outof(e)
                  /\ \A e \in want : \E i \in DOMAIN seq :
                        seq[i].tag = e.name /\ \A j \in DOMAIN seq : seq[j].tag = e.name => j = i
  <1>1. ASSUME NEW e \in want
        PROVE  Cardinality({i \in DOMAIN seq : seq[i].tag = e.name}) = 1
                  <=> \E i \in DOMAIN seq :
                         seq[i].tag = e.name /\ \A j \in DOMAIN seq : seq[j].tag = e.name => j = i
    <2> DEFINE T == {i \in DOMAIN seq : seq[i].tag = e.name}
    <2>1. IsFiniteSet(T)
      BY Positions
    <2>2. Cardinality(T) = 1 <=> \E i : T = {i}
      BY <2>1, FS_Singleton
    <2>3. (\E i : T = {i}) <=> \E i \in DOMAIN seq :
             seq[i].tag = e.name /\ \A j \in DOMAIN seq : seq[j].tag = e.name => j = i
      <3>1. ASSUME NEW i, T = {i}
            PROVE  /\ i \in DOMAIN seq /\ seq[i].tag = e.name
                   /\ \A j \in DOMAIN seq : seq[j].tag = e.name => j = i
        <4>1. i \in T /\ \A j \in T : j = i
          BY <3>1
        <4> QED BY <4>1
      <3>2. ASSUME NEW i \in DOMAIN seq, seq[i].tag = e.name, \A j \in DOMAIN seq : seq[j].tag = e.name => j = i
            PROVE  T = {i}
        BY <3>2
      <3> QED BY <3>1, <3>2
    <2> QED BY <2>2, <2>3
  <1> QED BY <1>1 DEF SyncedTo

\* A wanted location that has outbounds keeps the first of them.
LEMMA FirstKept ==
    ASSUME NEW seq \in Seq(Outbound), NEW want \in Registries, NEW e \in want, e.name \in TagsOf(seq)
    PROVE  \E i \in KeptAt(seq, want) : seq[i].tag = e.name
  <1> DEFINE T == {i \in DOMAIN seq : seq[i].tag = e.name}
  <1>1. T \in SUBSET Nat /\ IsFiniteSet(T) /\ Cardinality(T) \in Nat
    BY Positions
  <1>2. T # {}
    BY DEF TagsOf
  <1>3. Cardinality(T) # 0
    BY <1>1, <1>2, FS_EmptySet
  <1>4. PICK i \in T : Rank(T, i) = 1
    <2>1. 1 \in 1 .. Cardinality(T)
      BY <1>1, <1>3
    <2> HIDE DEF T
    <2> QED BY <1>1, <2>1, RankOnto
  <1>5. ASSUME NEW j \in T, j < i PROVE FALSE
    <2> HIDE DEF T
    <2>1. j \in Nat
      BY <1>1
    <2>2. Rank(T, j) < Rank(T, i)
      BY <1>1, <1>5, <2>1, RankGrows
    <2>3. Rank(T, j) \in 0 .. Cardinality(T) /\ Rank(T, j) # 0
      BY <1>1, <2>1, RankType
    <2> QED BY <1>1, <1>4, <2>2, <2>3
  <1>6. i \in DOMAIN seq /\ seq[i].tag = e.name /\ i \in 1 .. Len(seq)
    OBVIOUS
  <1>7. ASSUME NEW j \in 1 .. i - 1 PROVE seq[j].tag # seq[i].tag
    <2>1. j \in DOMAIN seq /\ j < i
      BY <1>6
    <2> QED BY <1>5, <1>6, <2>1
  <1>8. Keeps(seq, want, i)
    BY <1>6, <1>7 DEF Keeps
  <1> QED BY <1>6, <1>8 DEF KeptAt

\* mergeOutbounds: a merged config is in step with what is wanted, whatever it was before.
LEMMA MergedSynced ==
    ASSUME NEW seq \in Seq(Outbound), NEW want \in Registries, NEW out \in Merged(seq, want)
    PROVE  SyncedTo(out, want)
  <1> DEFINE K == KeptAt(seq, want)
             n == Cardinality(K)
             at(k) == Nth(K, k)
  <1>2. /\ out \in Seq(Outbound) /\ n \in Nat /\ n <= Len(out)
        /\ \A k \in 1 .. n : out[k] = Kept(seq, want)[k]
        /\ \A k \in n + 1 .. Len(out) : out[k] \in Missing(seq, want)
        /\ \A j, k \in n + 1 .. Len(out) : out[j] = out[k] => j = k
        /\ \A x \in Missing(seq, want) : \E k \in n + 1 .. Len(out) : out[k] = x
    BY MergedShape
  <1>3. K \in SUBSET DOMAIN seq /\ K \in SUBSET Nat /\ IsFiniteSet(K)
    BY KeptType
  <1>4. ASSUME NEW k \in 1 .. n
        PROVE  /\ at(k) \in K /\ at(k) \in DOMAIN seq /\ Keeps(seq, want, at(k))
               /\ out[k] = Righted(seq[at(k)], want) /\ out[k].tag = seq[at(k)].tag
               /\ seq[at(k)].tag \in TagsOf(seq)
    <2>1. at(k) \in K /\ out[k] = Righted(seq[at(k)], want) /\ out[k].tag = seq[at(k)].tag
      BY <1>2, KeptType
    <2> QED BY <2>1 DEF KeptAt, TagsOf
  <1>5. DOMAIN out = 1 .. Len(out) /\ \A k \in DOMAIN out : k \in 1 .. n \/ k \in n + 1 .. Len(out)
    BY <1>2
  <1>6. \A k \in 1 .. n : k \in DOMAIN out
    BY <1>2
  <1>7. \A k \in n + 1 .. Len(out) : k \in DOMAIN out
    BY <1>2
  <1> HIDE DEF at, n, K
  <1>8. ASSUME NEW k \in DOMAIN out, Ours(out[k])
        PROVE  \E e \in want : out[k] = Outof(e)
    <2>1. CASE k \in 1 .. n
      <3>1. PICK e \in want : e.name = seq[at(k)].tag
        BY <1>4, <1>8, <2>1 DEF Keeps, Ours
      <3>2. seq[at(k)] \in Outbound
        BY <1>4, <2>1
      <3> QED BY <1>4, <2>1, <3>1, <3>2, RightedType
    <2>2. CASE k \in n + 1 .. Len(out)
      BY <1>2, <2>2, MissingType
    <2> QED BY <1>5, <2>1, <2>2
  <1>9. ASSUME NEW e \in want
        PROVE  \E i \in DOMAIN out : out[i].tag = e.name
    <2>1. CASE e.name \in TagsOf(seq)
      <3>1. PICK i \in K : seq[i].tag = e.name
        BY <2>1, FirstKept DEF K
      <3>2. Rank(K, i) \in 1 .. n /\ at(Rank(K, i)) = i
        BY <1>3, NthRank DEF n, at
      <3> QED BY <1>4, <1>6, <3>1, <3>2
    <2>2. CASE e.name \notin TagsOf(seq)
      <3>1. Outof(e) \in Missing(seq, want) /\ Outof(e).tag = e.name
        BY <2>2, MissingType, RowOf
      <3> QED BY <1>2, <1>7, <3>1
    <2> QED BY <2>1, <2>2
  <1>10. ASSUME NEW e \in want, NEW i \in DOMAIN out, NEW j \in DOMAIN out,
                out[i].tag = e.name, out[j].tag = e.name
         PROVE  i = j
    <2>1. ASSUME NEW k \in 1 .. n, NEW l \in 1 .. n, out[k].tag = e.name, out[l].tag = e.name
          PROVE  ~(k < l)
      <3>1. SUFFICES ASSUME k < l PROVE FALSE
        OBVIOUS
      <3>2. at(k) < at(l)
        BY <1>3, <3>1, NthGrows DEF n, at
      <3>3. at(k) \in 1 .. Len(seq) /\ at(l) \in 1 .. Len(seq)
        BY <1>4
      <3>4. at(k) \in 1 .. at(l) - 1
        BY <3>2, <3>3
      <3>5. seq[at(k)].tag = seq[at(l)].tag /\ Ours(seq[at(l)])
        BY <1>4, <2>1, RowOf DEF Ours
      <3> QED BY <1>4, <3>4, <3>5 DEF Keeps
    <2>2. CASE i \in 1 .. n /\ j \in 1 .. n
      <3>1. i \in Int /\ j \in Int
        BY <2>2
      <3> QED BY <1>10, <2>1, <2>2, <3>1
    <2>3. CASE i \in n + 1 .. Len(out) /\ j \in n + 1 .. Len(out)
      <3>1. out[i] = out[j]
        BY <1>2, <1>10, <2>3, MissingType DEF n, K
      <3> QED BY <1>2, <2>3, <3>1 DEF n, K
    <2>4. ASSUME NEW k \in 1 .. n, NEW l \in n + 1 .. Len(out) PROVE out[k].tag # out[l].tag
      BY <1>2, <1>4, MissingType DEF n, K
    <2> QED BY <1>5, <1>10, <2>2, <2>3, <2>4
  <1> QED BY <1>2, <1>8, <1>9, <1>10, SyncedPlaces

\* A config that the merge would not change is in step.
LEMMA UnchangedSynced ==
    ASSUME NEW seq \in Seq(Outbound), NEW want \in Registries, ~Changed(seq, want)
    PROVE  SyncedTo(seq, want)
  <1>1. Kept(seq, want) = seq /\ Missing(seq, want) = {}
    BY DEF Changed
  <1>2. <<>> \in Orders({})
    BY FS_EmptySet DEF Orders
  <1>3. seq = Kept(seq, want) \o <<>>
    BY <1>1
  <1>4. seq \in Merged(seq, want)
    BY <1>1, <1>2, <1>3 DEF Merged
  <1> QED BY <1>4, MergedSynced

\* mergeOutbounds: the outbounds of others are those they were, in their order, and one that
\* was the first still is.
LEMMA MergedOthers ==
    ASSUME NEW seq \in Seq(Outbound), NEW want \in Registries, NEW out \in Merged(seq, want)
    PROVE  /\ OthersOf(out) = OthersOf(seq)
           /\ Cardinality(OthersAt(out)) = Cardinality(OthersAt(seq))
           /\ seq # <<>> /\ ~Ours(seq[1]) => out[1] = seq[1]
  <1> DEFINE K == KeptAt(seq, want)
             n == Cardinality(K)
             at(k) == Nth(K, k)
             S == OthersAt(seq)
             T == OthersAt(out)
             g == [i \in S |-> Rank(K, i)]
  <1>1. /\ out \in Seq(Outbound) /\ n \in Nat /\ n <= Len(out)
        /\ \A k \in 1 .. n : out[k] = Kept(seq, want)[k]
        /\ \A k \in n + 1 .. Len(out) : out[k] \in Missing(seq, want)
    BY MergedShape
  <1>2. K \in SUBSET DOMAIN seq /\ K \in SUBSET Nat /\ IsFiniteSet(K)
    BY KeptType
  <1>3. /\ S \in SUBSET Nat /\ IsFiniteSet(S) /\ T \in SUBSET Nat /\ IsFiniteSet(T)
    BY <1>1, Positions DEF OthersAt
  <1>4. \A i \in S : i \in K /\ i \in DOMAIN seq /\ ~Ours(seq[i])
    BY DEF OthersAt, KeptAt, Keeps
  <1>5. \A i \in K : Rank(K, i) \in 1 .. n /\ at(Rank(K, i)) = i
    BY <1>2, NthRank
  <1>6. \A k \in 1 .. n : at(k) \in K /\ Rank(K, at(k)) = k
    BY <1>2, NthRank
  <1>7. ASSUME NEW k \in 1 .. n
        PROVE  /\ k \in DOMAIN out /\ seq[at(k)] \in Outbound
               /\ out[k] = Righted(seq[at(k)], want) /\ out[k].tag = seq[at(k)].tag
    <2>0. /\ Kept(seq, want)[k] = Righted(seq[at(k)], want)
          /\ Kept(seq, want)[k].tag = seq[at(k)].tag
      BY KeptType
    <2>1. out[k] = Righted(seq[at(k)], want) /\ out[k].tag = seq[at(k)].tag
      BY <1>1, <2>0
    <2>2. k \in DOMAIN out
      BY <1>1
    <2> QED BY <1>2, <1>6, <2>1, <2>2
  <1> HIDE DEF K, n, at
  <1>8. ASSUME NEW i \in S
        PROVE  Rank(K, i) \in T /\ out[Rank(K, i)] = seq[i]
    <2>1. /\ Rank(K, i) \in 1 .. n /\ at(Rank(K, i)) = i /\ ~Ours(seq[i])
      BY <1>4, <1>5
    <2>2. /\ Rank(K, i) \in DOMAIN out /\ seq[i] \in Outbound /\ out[Rank(K, i)] = Righted(seq[i], want)
      BY <1>7, <2>1
    <2> QED BY <2>1, <2>2, RightedType DEF OthersAt
  <1>9. g \in [S -> T]
    BY <1>8
  <1>10. ASSUME NEW i \in S, NEW j \in S, i < j PROVE g[i] < g[j]
    BY <1>2, <1>3, <1>4, <1>10, RankGrows
  <1>11. ASSUME NEW k \in T PROVE \E i \in S : g[i] = k
    <2>1. k \in DOMAIN out /\ ~Ours(out[k])
      BY DEF OthersAt
    <2>2. k \in 1 .. n
      <3>1. k \in 1 .. n \/ k \in n + 1 .. Len(out)
        BY <1>1, <2>1 DEF n, K
      <3>2. k \notin n + 1 .. Len(out)
        BY <1>1, <2>1, MissingType DEF n, K
      <3> QED BY <3>1, <3>2
    <2>3. at(k) \in S
      BY <1>2, <1>6, <1>7, <2>1, <2>2 DEF OthersAt, Ours
    <2> QED BY <1>6, <2>2, <2>3
  <1>12. /\ Cardinality(T) = Cardinality(S)
         /\ \A k \in 1 .. Cardinality(S) : Nth(T, k) = g[Nth(S, k)]
    <2> HIDE DEF S, T, g
    <2> QED BY <1>3, <1>9, <1>10, <1>11, SameOrder
  <1>13. \A k \in 1 .. Cardinality(S) : Nth(S, k) \in S
    BY <1>3, NthRank
  <1>14. OthersOf(out) = OthersOf(seq)
    <2>1. \A k \in 1 .. Cardinality(S) : out[Nth(T, k)] = seq[Nth(S, k)]
      BY <1>8, <1>12, <1>13
    <2> QED BY <1>12, <2>1 DEF OthersOf, Picked
  <1>15. ASSUME seq # <<>>, ~Ours(seq[1]) PROVE out[1] = seq[1]
    <2>1. 1 \in DOMAIN seq
      BY <1>15
    <2>2. 1 \in S /\ 1 \in K
      BY <1>4, <1>15, <2>1 DEF OthersAt
    <2>3. Below(K, 1) = {1}
      <3>1. \A j \in K : j \in DOMAIN seq
        BY <1>2
      <3>2. \A j \in K : j \in 1 .. Len(seq)
        BY <3>1
      <3>3. \A j \in K : j <= 1 => j = 1
        BY <3>2
      <3> QED BY <2>2, <3>3 DEF Below
    <2>4. Rank(K, 1) = 1
      BY <2>3, FS_Singleton DEF Rank, Below
    <2> QED BY <1>8, <2>2, <2>4
  <1> QED BY <1>12, <1>14, <1>15

\* With one outbound per location at most, a config is no longer than the bound.
LEMMA SyncedBound ==
    ASSUME NEW seq \in Seq(Outbound), NEW want \in Registries, SyncedTo(seq, want),
           Cardinality(OthersAt(seq)) <= MaxOutbounds
    PROVE  Len(seq) <= MostOutbounds
  <1> DEFINE P == {i \in DOMAIN seq : Ours(seq[i])}
             O == OthersAt(seq)
             f == [i \in P |-> seq[i].tag]
  <1>1. /\ IsFiniteSet(P) /\ Cardinality(P) \in Nat /\ IsFiniteSet(O) /\ Cardinality(O) \in Nat
    BY Positions DEF OthersAt
  <1>2. ASSUME NEW i \in P, NEW j \in P, f[i] = f[j] PROVE i = j
    <2>1. PICK e \in want : seq[i] = Outof(e)
      BY DEF SyncedTo
    <2>2. seq[i].tag = e.name /\ seq[j].tag = e.name
      BY <1>2, <2>1, RowOf
    <2>3. PICK k \in DOMAIN seq : \A l \in DOMAIN seq : seq[l].tag = e.name => l = k
      BY SyncedPlaces
    <2> QED BY <2>2, <2>3
  <1>3. f \in [P -> Names]
    BY DEF Ours
  <1>4. f \in Injection(P, Names)
    BY <1>2, <1>3, Fun_IsInj
  <1>5. IsFiniteSet(Names) /\ MaxOutbounds \in Nat
    BY XuiBoundAssumption
  <1>6. Cardinality(Names) \in Nat
    BY <1>5, FS_CardinalityType
  <1>7. Cardinality(P) <= Cardinality(Names)
    BY <1>4, <1>5, FS_Injection
  <1>8. Len(seq) \in Nat /\ DOMAIN seq = 1 .. Len(seq)
    OBVIOUS
  <1>9. P \cup O = 1 .. Len(seq) /\ P \cap O = {}
    BY <1>8 DEF OthersAt
  <1>10. Cardinality(1 .. Len(seq)) = Len(seq)
    BY <1>8, UpTo
  <1>11. Cardinality(P \cup O) = Cardinality(P) + Cardinality(O) - Cardinality(P \cap O)
    BY <1>1, FS_Union
  <1>12. Cardinality(P \cap O) = 0
    BY <1>9, FS_EmptySet
  <1> HIDE DEF P, O
  <1>13. Len(seq) = Cardinality(P) + Cardinality(O)
    <2>1. Len(seq) = Cardinality(P \cup O)
      BY <1>9, <1>10
    <2> QED BY <1>1, <1>11, <1>12, <2>1
  <1>14. Cardinality(O) <= MaxOutbounds
    BY DEF O
  <1> QED BY <1>1, <1>5, <1>6, <1>7, <1>8, <1>13, <1>14 DEF MostOutbounds

-----------------------------------------------------------------------------
(* The edits of 3x-ui's own admin.                                         *)

\* Outbounds of locations that only change their places stay in step.
LEMMA Moved ==
    ASSUME NEW seq \in Seq(Outbound), NEW out \in Seq(Outbound), NEW want \in Registries, SyncedTo(seq, want),
           NEW S \in SUBSET DOMAIN seq, NEW g \in [S -> DOMAIN out],
           \A i \in S : out[g[i]] = seq[i],
           \A i \in DOMAIN seq : Ours(seq[i]) => i \in S,
           \A k \in DOMAIN out : Ours(out[k]) => \E i \in S : g[i] = k
    PROVE  SyncedTo(out, want)
  <1>1. ASSUME NEW k \in DOMAIN out, Ours(out[k])
        PROVE  \E e \in want : out[k] = Outof(e)
    <2>1. PICK i \in S : g[i] = k
      BY <1>1
    <2>2. i \in DOMAIN seq /\ seq[i] = out[k]
      BY <2>1
    <2> QED BY <1>1, <2>2 DEF SyncedTo
  <1>2. ASSUME NEW e \in want
        PROVE  \E k \in DOMAIN out : out[k].tag = e.name /\ \A l \in DOMAIN out : out[l].tag = e.name => l = k
    <2>1. PICK i \in DOMAIN seq : seq[i].tag = e.name /\ \A j \in DOMAIN seq : seq[j].tag = e.name => j = i
      BY SyncedPlaces
    <2>2. i \in S
      BY <2>1, RowOf DEF Ours
    <2>3. g[i] \in DOMAIN out /\ out[g[i]].tag = e.name
      BY <2>1, <2>2
    <2>4. ASSUME NEW l \in DOMAIN out, out[l].tag = e.name PROVE l = g[i]
      <3>1. PICK j \in S : g[j] = l
        BY <2>4, RowOf DEF Ours
      <3>2. j \in DOMAIN seq /\ seq[j].tag = e.name
        BY <2>4, <3>1
      <3> QED BY <2>1, <3>1, <3>2
    <2> QED BY <2>3, <2>4
  <1> QED BY <1>1, <1>2, SyncedPlaces

Added(seq, o, i) ==
    SubSeq(seq, 1, i) \o <<[tag |-> o, port |-> 0]>> \o SubSeq(seq, i + 1, Len(seq))

\* An outbound of others is put somewhere in the list.
LEMMA AddedType ==
    ASSUME NEW seq \in Seq(Outbound), NEW o \in Others, NEW i \in 0 .. Len(seq)
    PROVE  /\ Added(seq, o, i) \in Seq(Outbound) /\ Len(Added(seq, o, i)) = Len(seq) + 1
           /\ \A k \in 1 .. i : Added(seq, o, i)[k] = seq[k]
           /\ Added(seq, o, i)[i + 1].tag = o
           /\ \A k \in i + 1 .. Len(seq) : Added(seq, o, i)[k + 1] = seq[k]
  <1> DEFINE x == [tag |-> o, port |-> 0]
             a == SubSeq(seq, 1, i)
             b == SubSeq(seq, i + 1, Len(seq))
             n == Len(seq)
  <1>1. x \in Outbound /\ x.tag = o
    BY DEF Outbound
  <1>2. n \in Nat /\ i \in Nat /\ i <= n
    OBVIOUS
  <1>3. a \in Seq(Outbound) /\ Len(a) = i /\ \A k \in 1 .. i : a[k] = seq[k]
    <2>1. \A k \in 1 .. i : seq[k] \in Outbound
      BY <1>2
    <2> QED BY <1>2, <2>1, SubSeqProperties
  <1>4. b \in Seq(Outbound) /\ Len(b) = n - i /\ \A k \in 1 .. n - i : b[k] = seq[i + k]
    <2>1. \A k \in i + 1 .. n : seq[k] \in Outbound
      BY <1>2
    <2>2. /\ b \in Seq(Outbound) /\ Len(b) = IF i + 1 <= n THEN n - (i + 1) + 1 ELSE 0
          /\ \A k \in 1 .. n - (i + 1) + 1 : b[k] = seq[(i + 1) + k - 1]
      BY <1>2, <2>1, SubSeqProperties
    <2>3. n - (i + 1) + 1 = n - i /\ \A k \in 1 .. n - i : (i + 1) + k - 1 = i + k
      BY <1>2
    <2> HIDE DEF b
    <2> QED BY <1>2, <2>2, <2>3
  <1> HIDE DEF x, a, b
  <1>5. /\ a \o <<x>> \in Seq(Outbound) /\ Len(a \o <<x>>) = i + 1
        /\ \A k \in 1 .. i : (a \o <<x>>)[k] = a[k]
        /\ (a \o <<x>>)[i + 1] = x
    <2>1. <<x>> \in Seq(Outbound) /\ Len(<<x>>) = 1 /\ <<x>>[1] = x
      BY <1>1
    <2>2. /\ a \o <<x>> \in Seq(Outbound) /\ Len(a \o <<x>>) = Len(a) + Len(<<x>>)
          /\ \A k \in 1 .. Len(a) : (a \o <<x>>)[k] = a[k]
          /\ \A k \in Len(a) + 1 .. Len(a) + Len(<<x>>) : (a \o <<x>>)[k] = <<x>>[k - Len(a)]
      BY <1>3, <2>1, Joined
    <2>3. (a \o <<x>>)[i + 1] = <<x>>[(i + 1) - i] /\ (i + 1) - i = 1
      BY <1>2, <1>3, <2>1, <2>2
    <2> QED BY <1>2, <1>3, <2>1, <2>2, <2>3
  <1> DEFINE c == a \o <<x>>
             out == c \o b
  <1>6. /\ c \in Seq(Outbound) /\ Len(c) = i + 1 /\ \A k \in 1 .. i : c[k] = a[k] /\ c[i + 1] = x
    BY <1>5
  <1> HIDE DEF c
  <1>7. /\ out \in Seq(Outbound) /\ Len(out) = Len(c) + Len(b)
        /\ \A k \in 1 .. Len(c) : out[k] = c[k]
        /\ \A k \in Len(c) + 1 .. Len(c) + Len(b) : out[k] = b[k - Len(c)]
    BY <1>4, <1>6, Joined
  <1>8. Added(seq, o, i) = out
    BY DEF Added, x, a, b, c
  <1> HIDE DEF out, n
  <1>9. Len(out) = n + 1
    BY <1>2, <1>4, <1>6, <1>7
  <1>10. \A k \in 1 .. i : out[k] = seq[k]
    BY <1>2, <1>3, <1>6, <1>7
  <1>11. out[i + 1].tag = o
    <2>1. i + 1 \in 1 .. i + 1
      BY <1>2
    <2> QED BY <1>1, <1>5, <1>6, <1>7, <2>1 DEF c
  <1>12. ASSUME NEW k \in i + 1 .. n PROVE out[k + 1] = seq[k]
    <2>1. k + 1 \in (i + 1) + 1 .. (i + 1) + (n - i) /\ (k + 1) - (i + 1) = k - i /\ k - i \in 1 .. n - i
          /\ i + (k - i) = k
      BY <1>2
    <2>2. out[k + 1] = b[(k + 1) - (i + 1)]
      BY <1>4, <1>6, <1>7, <2>1
    <2>3. b[k - i] = seq[i + (k - i)]
      BY <1>4, <2>1
    <2> QED BY <2>1, <2>2, <2>3
  <1> QED BY <1>7, <1>8, <1>9, <1>10, <1>11, <1>12 DEF n

LEMMA AddedSynced ==
    ASSUME NEW seq \in Seq(Outbound), NEW o \in Others, NEW i \in 0 .. Len(seq),
           NEW want \in Registries, SyncedTo(seq, want)
    PROVE  SyncedTo(Added(seq, o, i), want)
  <1> DEFINE out == Added(seq, o, i)
             n == Len(seq)
             g == [j \in DOMAIN seq |-> IF j <= i THEN j ELSE j + 1]
  <1>1. /\ out \in Seq(Outbound) /\ Len(out) = n + 1
        /\ \A k \in 1 .. i : out[k] = seq[k]
        /\ out[i + 1].tag = o
        /\ \A k \in i + 1 .. n : out[k + 1] = seq[k]
    BY AddedType
  <1>2. n \in Nat /\ i \in 0 .. n /\ DOMAIN seq = 1 .. n /\ DOMAIN out = 1 .. n + 1
    BY <1>1
  <1> HIDE DEF out, n
  <1>3. g \in [DOMAIN seq -> DOMAIN out]
    BY <1>2
  <1>4. ASSUME NEW j \in DOMAIN seq PROVE out[g[j]] = seq[j]
    <2>1. CASE j <= i
      <3>1. j \in 1 .. i /\ g[j] = j
        BY <1>2, <2>1
      <3> QED BY <1>1, <3>1
    <2>2. CASE ~(j <= i)
      <3>1. j \in i + 1 .. n /\ g[j] = j + 1
        BY <1>2, <2>2
      <3> QED BY <1>1, <3>1
    <2> QED BY <2>1, <2>2
  <1>5. ASSUME NEW k \in DOMAIN out, Ours(out[k]) PROVE \E j \in DOMAIN seq : g[j] = k
    <2>1. k # i + 1
      BY <1>1, <1>5, XuiTagsAssumption DEF Ours
    <2>2. CASE k <= i
      <3>1. k \in DOMAIN seq /\ g[k] = k
        BY <1>2, <2>2
      <3> QED BY <3>1
    <2>3. CASE ~(k <= i)
      <3>1. k - 1 \in DOMAIN seq /\ g[k - 1] = k
        BY <1>2, <2>1, <2>3
      <3> QED BY <3>1
    <2> QED BY <2>2, <2>3
  <1> HIDE DEF g
  <1>6. SyncedTo(out, want)
    <2> DEFINE S == DOMAIN seq
    <2>1. /\ S \in SUBSET DOMAIN seq /\ g \in [S -> DOMAIN out] /\ \A j \in S : out[g[j]] = seq[j]
          /\ \A j \in DOMAIN seq : Ours(seq[j]) => j \in S
          /\ \A k \in DOMAIN out : Ours(out[k]) => \E j \in S : g[j] = k
      BY <1>3, <1>4, <1>5
    <2> HIDE DEF S
    <2> QED BY <1>1, <2>1, Moved
  <1> QED BY <1>6 DEF out

\* The outbounds of one of the others are deleted.
Dropped(seq, o) == Picked(seq, {i \in DOMAIN seq : seq[i].tag # o})

LEMMA DroppedType ==
    ASSUME NEW seq \in Seq(Outbound), NEW o \in Others
    PROVE  /\ Dropped(seq, o) \in Seq(Outbound) /\ Len(Dropped(seq, o)) <= Len(seq)
           /\ Cardinality(OthersAt(Dropped(seq, o))) <= Cardinality(OthersAt(seq))
           /\ \A want \in Registries : SyncedTo(seq, want) => SyncedTo(Dropped(seq, o), want)
  <1> DEFINE S == {i \in DOMAIN seq : seq[i].tag # o}
             n == Cardinality(S)
             out == Dropped(seq, o)
  <1>1. S \in SUBSET Nat /\ IsFiniteSet(S) /\ n \in Nat /\ n <= Len(seq) /\ S \in SUBSET DOMAIN seq
    BY Positions
  <1>2. out = [k \in 1 .. n |-> seq[Nth(S, k)]]
    BY DEF Dropped, Picked
  <1>3. \A i \in DOMAIN seq : Ours(seq[i]) => i \in S
    BY XuiTagsAssumption DEF Ours
  <1> HIDE DEF S, n, out
  <1>4. /\ \A k \in 1 .. n : Nth(S, k) \in S /\ Rank(S, Nth(S, k)) = k
        /\ \A i \in S : Rank(S, i) \in 1 .. n /\ Nth(S, Rank(S, i)) = i
    BY <1>1, NthRank DEF n
  <1>5. \A k \in 1 .. n : seq[Nth(S, k)] \in Outbound
    <2>1. \A i \in S : seq[i] \in Outbound
      BY <1>1
    <2> QED BY <1>4, <2>1
  <1>6. out \in Seq(Outbound) /\ Len(out) = n /\ DOMAIN out = 1 .. n
    BY <1>1, <1>2, <1>5
  <1>7. Cardinality(OthersAt(out)) <= Cardinality(OthersAt(seq))
    <2> DEFINE f == [k \in OthersAt(out) |-> Nth(S, k)]
    <2>1. ASSUME NEW k \in OthersAt(out) PROVE k \in 1 .. n /\ Nth(S, k) \in OthersAt(seq)
      <3>1. k \in 1 .. n /\ ~Ours(out[k])
        BY <1>6 DEF OthersAt
      <3>2. Nth(S, k) \in DOMAIN seq /\ out[k] = seq[Nth(S, k)]
        BY <1>1, <1>2, <1>4, <3>1
      <3> QED BY <3>1, <3>2 DEF OthersAt
    <2>2. f \in [OthersAt(out) -> OthersAt(seq)]
      BY <2>1
    <2>3. \A k, l \in OthersAt(out) : f[k] = f[l] => k = l
      BY <1>4, <2>1
    <2>4. f \in Injection(OthersAt(out), OthersAt(seq))
      BY <2>2, <2>3, Fun_IsInj
    <2>5. IsFiniteSet(OthersAt(seq))
      BY Positions DEF OthersAt
    <2> QED BY <2>4, <2>5, FS_Injection
  <1>8. ASSUME NEW want \in Registries, SyncedTo(seq, want) PROVE SyncedTo(out, want)
    <2> DEFINE g == [i \in S |-> Rank(S, i)]
    <2>1. g \in [S -> DOMAIN out]
      BY <1>4, <1>6
    <2>2. \A i \in S : out[g[i]] = seq[i]
      BY <1>2, <1>4
    <2>3. \A k \in DOMAIN out : \E i \in S : g[i] = k
      BY <1>4, <1>6
    <2> HIDE DEF g
    <2> QED BY <1>1, <1>3, <1>6, <1>8, <2>1, <2>2, <2>3, Moved
  <1> QED BY <1>1, <1>6, <1>7, <1>8 DEF out

-----------------------------------------------------------------------------
(* The invariant, step by step.                                            *)

Critical == {"list", "get", "post", "record"}
Thread == [pc : {"idle", "save", "wait", "list", "get", "post", "record"},
           s : XuiSettings, want : Registries, read : Seq(Outbound)]

\* What a thread may be: of its type, and with few outbounds of others.
Fine(x) == x \in Thread /\ Cardinality(OthersAt(x.read)) <= MaxOutbounds

\* The invariant by its parts, as the lemmas below use them.
LEMMA Parts ==
    IInv <=> /\ reg \in Registries /\ owes \in BOOLEAN /\ outbounds \in Seq(Outbound)
             /\ Len(outbounds) <= MostOutbounds /\ set \in XuiSettings /\ xmu \in Threads \cup {Free}
             /\ untold \in BOOLEAN /\ edited \in BOOLEAN /\ Cardinality(OthersAt(outbounds)) <= MaxOutbounds
             /\ th \in [Threads -> Thread] /\ \A t \in Threads : Fine(th[t])
             /\ MutexInv /\ SyncInv /\ ReadInv
    BY DEF IInv, TypeOK, BoundInv, Thread, Fine

LEMMA PartsNext ==
    ASSUME reg' \in Registries, owes' \in BOOLEAN, outbounds' \in Seq(Outbound),
           Len(outbounds') <= MostOutbounds, set' \in XuiSettings, xmu' \in Threads \cup {Free},
           untold' \in BOOLEAN, edited' \in BOOLEAN,
           Cardinality(OthersAt(outbounds')) <= MaxOutbounds,
           th' \in [Threads -> Thread], \A t \in Threads : Fine(th'[t]),
           MutexInv', SyncInv', ReadInv'
    PROVE  IInv'
    BY DEF IInv, TypeOK, BoundInv, Thread, Fine

LEMMA IdleFine ==
    /\ Fine(Idle) /\ Idle.pc = "idle"
    /\ Fine([Idle EXCEPT !.pc = "wait"]) /\ [Idle EXCEPT !.pc = "wait"].pc = "wait"
  <1>1. {} \in Registries
    BY DEF Registries, Reg!Registries
  <1>2. <<>> \in Seq(Outbound) /\ OthersAt(<<>>) = {}
    BY DEF OthersAt
  <1>3. Cardinality(OthersAt(<<>>)) <= MaxOutbounds
    BY <1>2, FS_EmptySet, XuiBoundAssumption
  <1>4. Idle.read = <<>> /\ [Idle EXCEPT !.pc = "wait"].read = <<>>
    BY DEF Idle
  <1> QED BY <1>1, <1>2, <1>3, <1>4 DEF Idle, Fine, Thread, XuiSettings

\* One thread goes on.
LEMMA OneThread ==
    ASSUME th \in [Threads -> Thread], \A u \in Threads : Fine(th[u]), NEW t \in Threads, NEW x, Fine(x),
           th' = [th EXCEPT ![t] = x]
    PROVE  /\ th' \in [Threads -> Thread] /\ \A u \in Threads : Fine(th'[u])
           /\ th'[t] = x /\ \A u \in Threads : u # t => th'[u] = th[u]
    BY DEF Fine

\* The registry changes: there is a sync to come, or nobody is told.
LEMMA RegistryStep ==
    ASSUME IInv, RegistrySaved \/ Imported
    PROVE  IInv'
  <1>1. /\ reg' \in Registries /\ UNCHANGED <<outbounds, set, xmu, th, edited>>
        /\ owes' \in BOOLEAN /\ untold' \in BOOLEAN
        /\ owes' \/ untold'
    <2>1. \A n \in Names : Reg!Remove(n) => reg' \in Registries
      BY Parts DEF Registries, Reg!Registries, Reg!Remove
    <2> QED BY <2>1, Parts DEF RegistrySaved, Imported, Registries, Reg!Import, Reg!Add
  <1>2. Behind'
    BY <1>1 DEF Behind, Owed
  <1>3. SyncInv'
    BY <1>2 DEF SyncInv
  <1>4. MutexInv' /\ ReadInv'
    BY <1>1, Parts DEF MutexInv, ReadInv
  <1>5. \A t \in Threads : Fine(th'[t])
    BY <1>1, Parts
  <1> QED BY <1>1, <1>3, <1>4, <1>5, Parts, PartsNext

\* A thread that has no part in xuiApply goes on, and what was to come still is.
LEMMA OutsideStep ==
    ASSUME IInv, NEW t \in Threads, NEW x, Fine(x), th' = [th EXCEPT ![t] = x],
           th[t].pc \notin Critical, x.pc \notin Critical,
           UNCHANGED <<reg, outbounds, set, xmu, untold, edited>>, owes' \in BOOLEAN,
           owes' \/ x.pc = "wait" \/ (owes' = owes /\ th[t].pc # "wait")
    PROVE  IInv'
  <1>1. /\ th' \in [Threads -> Thread] /\ \A u \in Threads : Fine(th'[u])
        /\ th'[t] = x /\ \A u \in Threads : u # t => th'[u] = th[u]
    BY Parts, OneThread
  <1>2. Behind => Behind'
    BY <1>1 DEF Behind, Owed
  <1>3. SyncInv'
    <2>1. (InSync => InSync') /\ SyncInv
      BY Parts DEF InSync
    <2>2. xmu' = Free /\ set'.enabled /\ ~set'.error => Behind' \/ InSync'
      BY <1>2, <2>1 DEF SyncInv
    <2>3. ASSUME NEW u \in Threads
          PROVE  /\ th'[u].pc \in {"get", "post"} => Behind' \/ th'[u].want = reg'
                 /\ th'[u].pc = "record" /\ ~th'[u].s.error => Behind' \/ InSync'
      <3>1. CASE u = t
        BY <1>1, <3>1 DEF Critical
      <3>2. CASE u # t
        BY <1>1, <1>2, <2>1, <3>2 DEF SyncInv
      <3> QED BY <3>1, <3>2
    <2> QED BY <2>2, <2>3 DEF SyncInv
  <1>4. MutexInv'
    BY <1>1, Parts DEF MutexInv, Critical
  <1>5. ReadInv'
    BY <1>1, Parts DEF ReadInv, Critical
  <1> QED BY <1>1, <1>3, <1>4, <1>5, Parts, PartsNext

\* Requests for a sync, and the settings form, up to its lock.
LEMMA RequestStep ==
    ASSUME IInv, NEW t \in Threads, SyncAsync(t) \/ SyncButton(t) \/ \E on \in BOOLEAN : FormLoad(t, on)
    PROVE  IInv'
  <1>1. th[t].pc = "idle" /\ UNCHANGED <<reg, outbounds, set, xmu, untold, edited>> /\ owes' \in BOOLEAN
    BY Parts DEF SyncAsync, SyncButton, FormLoad
  <1>2. th[t] \in Thread /\ Fine(th[t]) /\ th \in [Threads -> Thread] /\ set \in XuiSettings
    BY Parts
  <1>3. CASE SyncAsync(t) \/ SyncButton(t)
    <2> DEFINE x == [th[t] EXCEPT !.pc = "wait"]
    <2>1. th' = [th EXCEPT ![t] = x]
      BY <1>2, <1>3 DEF SyncAsync, SyncButton
    <2>2. x \in Thread /\ x.read = th[t].read /\ x.pc = "wait"
      BY <1>2 DEF Thread
    <2>3. Fine(x)
      BY <1>2, <2>2 DEF Fine
    <2> HIDE DEF x
    <2> QED BY <1>1, <2>1, <2>2, <2>3, OutsideStep DEF Critical
  <1>4. ASSUME NEW on \in BOOLEAN, FormLoad(t, on) PROVE IInv'
    <2> DEFINE x == [th[t] EXCEPT !.pc = "save", !.s = [set EXCEPT !.enabled = on]]
    <2>1. th' = [th EXCEPT ![t] = x] /\ owes' = owes
      BY <1>2, <1>4 DEF FormLoad
    <2>2. [set EXCEPT !.enabled = on] \in XuiSettings
      BY <1>2 DEF XuiSettings
    <2>3. x \in Thread /\ x.read = th[t].read /\ x.pc = "save"
      BY <1>2, <2>2 DEF Thread
    <2>4. Fine(x)
      BY <1>2, <2>3 DEF Fine
    <2> HIDE DEF x
    <2> QED BY <1>1, <2>1, <2>3, <2>4, OutsideStep DEF Critical
  <1> QED BY <1>3, <1>4

\* While xuiMu is free, a thread may change the settings if it sees to a sync.
LEMMA UnlockedStep ==
    ASSUME IInv, NEW t \in Threads, NEW x, Fine(x), th' = [th EXCEPT ![t] = x],
           xmu = Free, x.pc \notin Critical, set' \in XuiSettings,
           UNCHANGED <<reg, owes, outbounds, xmu, untold, edited>>,
           set'.enabled => x.pc = "wait" \/ (set' = set /\ th[t].pc # "wait")
    PROVE  IInv'
  <1>1. /\ th' \in [Threads -> Thread] /\ \A u \in Threads : Fine(th'[u])
        /\ th'[t] = x /\ \A u \in Threads : u # t => th'[u] = th[u]
    BY Parts, OneThread
  <1>2. \A u \in Threads : th[u].pc \notin Critical
    BY Parts, XuiTagsAssumption DEF MutexInv, Critical
  <1>3. \A u \in Threads : th'[u].pc \notin Critical
    BY <1>1, <1>2
  <1>4. MutexInv' /\ ReadInv'
    BY <1>3, XuiTagsAssumption DEF MutexInv, ReadInv, Critical
  <1>5. SyncInv'
    <2>1. ASSUME xmu' = Free, set'.enabled, ~set'.error PROVE Behind' \/ InSync'
      <3>1. CASE x.pc = "wait"
        BY <1>1, <3>1 DEF Behind, Owed
      <3>2. CASE set' = set /\ th[t].pc # "wait"
        <4>1. (Behind => Behind') /\ (InSync => InSync')
          BY <1>1, <3>2 DEF Behind, Owed, InSync
        <4> QED BY <2>1, <3>2, <4>1, Parts DEF SyncInv
      <3> QED BY <2>1, <3>1, <3>2
    <2> QED BY <1>3, <2>1 DEF SyncInv, Critical
  <1> QED BY <1>1, <1>4, <1>5, Parts, PartsNext

LEMMA FormSaveStep ==
    ASSUME IInv, NEW t \in Threads, FormSave(t)
    PROVE  IInv'
  <1>1. xmu = Free /\ th[t].pc = "save" /\ UNCHANGED <<reg, owes, outbounds, xmu, untold, edited>>
        /\ th[t] \in Thread /\ set \in XuiSettings
    BY Parts DEF FormSave
  <1>2. th[t].s \in XuiSettings
    BY <1>1 DEF Thread
  <1>3. CASE set' = th[t].s /\ th' = [th EXCEPT ![t] = IF th[t].s.enabled THEN [Idle EXCEPT !.pc = "wait"] ELSE Idle]
    BY <1>1, <1>2, <1>3, IdleFine, UnlockedStep DEF Critical
  <1>4. CASE UNCHANGED set /\ th' = [th EXCEPT ![t] = Idle]
    BY <1>1, <1>4, IdleFine, UnlockedStep DEF Critical
  <1> QED BY <1>3, <1>4 DEF FormSave

\* A sync begins: nothing to do, or the lock is taken.
LEMMA SyncBeginStep ==
    ASSUME IInv, NEW t \in Threads, SyncBegin(t)
    PROVE  IInv'
  <1>1. /\ xmu = Free /\ th[t].pc = "wait" /\ UNCHANGED <<reg, owes, outbounds, set, untold, edited>>
        /\ th \in [Threads -> Thread] /\ Fine(th[t]) /\ set \in XuiSettings
    BY Parts DEF SyncBegin, Acquire
  <1>2. CASE ~set.enabled
    <2>1. UNCHANGED xmu /\ th' = [th EXCEPT ![t] = Idle]
      BY <1>2 DEF SyncBegin
    <2> QED BY <1>1, <1>2, <2>1, IdleFine, UnlockedStep DEF Critical
  <1>3. CASE set.enabled
    <2> DEFINE x == [th[t] EXCEPT !.pc = "list", !.s = [set EXCEPT !.error = FALSE]]
    <2>1. xmu' = t /\ th' = [th EXCEPT ![t] = x]
      BY <1>1, <1>3 DEF SyncBegin, Acquire
    <2>2. [set EXCEPT !.error = FALSE] \in XuiSettings
      BY <1>1 DEF XuiSettings
    <2>3. x \in Thread /\ x.read = th[t].read /\ x.pc = "list"
      BY <1>1, <2>2 DEF Thread
    <2>4. Fine(x)
      BY <1>1, <2>3 DEF Fine
    <2> HIDE DEF x
    <2>5. /\ th' \in [Threads -> Thread] /\ \A u \in Threads : Fine(th'[u])
          /\ th'[t] = x /\ \A u \in Threads : u # t => th'[u] = th[u]
      BY <2>1, <2>4, Parts, OneThread
    <2>6. \A u \in Threads : th[u].pc \notin Critical
      BY <1>1, Parts, XuiTagsAssumption DEF MutexInv, Critical
    <2>7. \A u \in Threads : u # t => th'[u].pc \notin Critical
      BY <2>5, <2>6
    <2>8. MutexInv' /\ ReadInv' /\ SyncInv'
      BY <2>1, <2>3, <2>5, <2>7, XuiTagsAssumption DEF MutexInv, ReadInv, SyncInv, Critical
    <2> QED BY <1>1, <2>1, <2>5, <2>8, Parts, PartsNext
  <1> QED BY <1>2, <1>3

\* A step under xuiMu: what the thread knows then is what SyncInv asks of it.
LEMMA LockedStep ==
    ASSUME IInv, NEW t \in Threads, NEW x, Fine(x), th' = [th EXCEPT ![t] = x],
           th[t].pc \in Critical, x.pc \in Critical, UNCHANGED <<reg, owes, set, xmu>>,
           untold' \in BOOLEAN, edited' \in BOOLEAN, outbounds' \in Seq(Outbound), Len(outbounds') <= MostOutbounds,
           Cardinality(OthersAt(outbounds')) <= MaxOutbounds,
           x.pc \in {"get", "post"} => Owed \/ untold' \/ x.want = reg,
           x.pc = "record" /\ ~x.s.error => Owed \/ untold' \/ InSync',
           x.pc = "post" => edited' \/ x.read = outbounds'
    PROVE  IInv'
  <1>1. /\ th' \in [Threads -> Thread] /\ \A u \in Threads : Fine(th'[u])
        /\ th'[t] = x /\ \A u \in Threads : u # t => th'[u] = th[u]
    BY Parts, OneThread
  <1>2. xmu = t /\ \A u \in Threads : u # t => th[u].pc \notin Critical
    BY Parts DEF MutexInv, Critical
  <1>3. \A u \in Threads : u # t => th'[u].pc \notin Critical
    BY <1>1, <1>2
  <1>4. Owed <=> Owed'
    BY <1>1 DEF Owed, Critical
  <1>5. SyncInv'
    <2>1. xmu' # Free
      BY <1>2, XuiTagsAssumption
    <2>2. ASSUME NEW u \in Threads
          PROVE  /\ th'[u].pc \in {"get", "post"} => Behind' \/ th'[u].want = reg'
                 /\ th'[u].pc = "record" /\ ~th'[u].s.error => Behind' \/ InSync'
      <3>1. CASE u = t
        BY <1>1, <1>4, <3>1 DEF Behind
      <3>2. CASE u # t
        BY <1>3, <3>2 DEF Critical
      <3> QED BY <3>1, <3>2
    <2> QED BY <2>1, <2>2 DEF SyncInv
  <1>6. MutexInv'
    BY <1>1, <1>2, <1>3 DEF MutexInv, Critical
  <1>7. ReadInv'
    BY <1>1, <1>3 DEF ReadInv, Critical
  <1> QED BY <1>1, <1>5, <1>6, <1>7, Parts, PartsNext

\* What xuiApply returns: no error, or one.
LEMMA Returned ==
    ASSUME NEW t \in Threads, th[t] \in Thread
    PROVE  /\ Fine(Done(t)) /\ Done(t).pc = "record" /\ Done(t).s = th[t].s
           /\ Fine(Failed(t)) /\ Failed(t).pc = "record" /\ Failed(t).s.error
  <1>1. th[t].s \in XuiSettings /\ Idle \in Thread /\ Cardinality(OthersAt(Idle.read)) <= MaxOutbounds
    BY IdleFine DEF Thread, Fine
  <1>2. Done(t) \in Thread /\ Done(t).pc = "record" /\ Done(t).s = th[t].s /\ Done(t).read = Idle.read
    BY <1>1 DEF Done, Thread
  <1>3. Failed(t) = [Done(t) EXCEPT !.s = [th[t].s EXCEPT !.error = TRUE]]
    BY <1>2 DEF Failed, Thread
  <1>4. [th[t].s EXCEPT !.error = TRUE] \in XuiSettings /\ [th[t].s EXCEPT !.error = TRUE].error
    BY <1>1 DEF XuiSettings
  <1>5. /\ Failed(t) \in Thread /\ Failed(t).pc = "record" /\ Failed(t).s.error
        /\ Failed(t).read = Idle.read
    BY <1>2, <1>3, <1>4 DEF Thread
  <1> QED BY <1>1, <1>2, <1>5 DEF Fine

\* xuiSync: the registry is read.
LEMMA SyncListStep ==
    ASSUME IInv, NEW t \in Threads, SyncList(t)
    PROVE  IInv'
  <1>1. /\ th[t].pc = "list" /\ UNCHANGED <<reg, owes, outbounds, set, xmu, edited>>
        /\ th[t] \in Thread /\ Fine(th[t]) /\ edited \in BOOLEAN
        /\ th \in [Threads -> Thread] /\ reg \in Registries
        /\ outbounds \in Seq(Outbound) /\ Len(outbounds) <= MostOutbounds /\ untold' \in BOOLEAN
        /\ Cardinality(OthersAt(outbounds)) <= MaxOutbounds
    BY Parts DEF SyncList
  <1>2. CASE th' = [th EXCEPT ![t].pc = "get", ![t].want = reg]
    <2> DEFINE x == [th[t] EXCEPT !.pc = "get", !.want = reg]
    <2>1. th' = [th EXCEPT ![t] = x]
      BY <1>1, <1>2
    <2>2. x \in Thread /\ x.read = th[t].read /\ x.pc = "get" /\ x.want = reg
      BY <1>1 DEF Thread
    <2>3. Fine(x)
      BY <1>1, <2>2 DEF Fine
    <2> HIDE DEF x
    <2> QED BY <1>1, <2>1, <2>2, <2>3, LockedStep DEF Critical
  <1>3. CASE th' = [th EXCEPT ![t] = Failed(t)]
    BY <1>1, <1>3, Returned, LockedStep DEF Critical
  <1> QED BY <1>2, <1>3 DEF SyncList

\* xuiApply: 3x-ui's config is read, and is as it should be or is to be merged into.
LEMMA SyncGetStep ==
    ASSUME IInv, NEW t \in Threads, SyncGet(t)
    PROVE  IInv'
  <1>1. /\ th[t].pc = "get" /\ UNCHANGED <<reg, owes, outbounds, set, xmu, untold>>
        /\ edited' \in BOOLEAN
        /\ th[t] \in Thread /\ Fine(th[t])
        /\ th \in [Threads -> Thread] /\ outbounds \in Seq(Outbound) /\ Len(outbounds) <= MostOutbounds
        /\ untold \in BOOLEAN /\ Cardinality(OthersAt(outbounds)) <= MaxOutbounds
    BY Parts DEF SyncGet
  <1>2. Owed \/ untold \/ th[t].want = reg
    BY <1>1, Parts DEF SyncInv, Behind
  <1>3. CASE Changed(outbounds, th[t].want) /\ th' = [th EXCEPT ![t] = [th[t] EXCEPT !.pc = "post", !.read = outbounds]]
    <2> DEFINE x == [th[t] EXCEPT !.pc = "post", !.read = outbounds]
    <2>1. x \in Thread /\ x.read = outbounds /\ x.pc = "post" /\ x.want = th[t].want
      BY <1>1 DEF Thread
    <2>2. Fine(x)
      BY <1>1, <2>1 DEF Fine
    <2>3. th' = [th EXCEPT ![t] = x]
      BY <1>3
    <2> HIDE DEF x
    <2> QED BY <1>1, <1>2, <2>1, <2>2, <2>3, LockedStep DEF Critical
  <1>4. CASE ~Changed(outbounds, th[t].want) /\ th' = [th EXCEPT ![t] = Done(t)]
    <2>1. th[t].want \in Registries
      BY <1>1 DEF Thread
    <2>2. SyncedTo(outbounds, th[t].want)
      BY <1>1, <1>4, <2>1, UnchangedSynced
    <2>3. Owed \/ untold' \/ InSync'
      BY <1>1, <1>2, <2>2 DEF InSync
    <2> QED BY <1>1, <1>4, <2>3, Returned, LockedStep DEF Critical
  <1>5. CASE th' = [th EXCEPT ![t] = Failed(t)]
    BY <1>1, <1>5, Returned, LockedStep DEF Critical
  <1>6. \/ th' = [th EXCEPT ![t] = IF Changed(outbounds, th[t].want)
                                   THEN [th[t] EXCEPT !.pc = "post", !.read = outbounds] ELSE Done(t)]
        \/ th' = [th EXCEPT ![t] = Failed(t)]
    BY <1>1 DEF SyncGet
  <1> QED BY <1>3, <1>4, <1>5, <1>6

\* xuiApply: the merged config is written, whatever 3x-ui had become meanwhile.
LEMMA SyncPostStep ==
    ASSUME IInv, NEW t \in Threads, SyncPost(t)
    PROVE  IInv'
  <1>1. /\ th[t].pc = "post" /\ UNCHANGED <<reg, owes, set, xmu, untold, edited>> /\ edited \in BOOLEAN
        /\ th[t] \in Thread /\ Fine(th[t])
        /\ outbounds \in Seq(Outbound) /\ Len(outbounds) <= MostOutbounds
        /\ untold \in BOOLEAN /\ Cardinality(OthersAt(outbounds)) <= MaxOutbounds
    BY Parts DEF SyncPost
  <1>2. Owed \/ untold \/ th[t].want = reg
    BY <1>1, Parts DEF SyncInv, Behind
  <1>3. CASE outbounds' \in Merged(th[t].read, th[t].want)
    <2>1. th[t].read \in Seq(Outbound) /\ th[t].want \in Registries
      BY <1>1 DEF Thread
    <2>2. outbounds' \in Seq(Outbound)
      BY <1>3, <2>1, MergedShape
    <2>3. SyncedTo(outbounds', th[t].want)
      BY <1>3, <2>1, MergedSynced
    <2>4. Cardinality(OthersAt(outbounds')) <= MaxOutbounds
      BY <1>1, <1>3, <2>1, MergedOthers DEF Fine
    <2>5. Len(outbounds') <= MostOutbounds
      BY <2>1, <2>2, <2>3, <2>4, SyncedBound
    <2>6. Owed \/ untold' \/ InSync'
      BY <1>1, <1>2, <2>3 DEF InSync
    <2>7. th' = [th EXCEPT ![t] = Done(t)] \/ th' = [th EXCEPT ![t] = Failed(t)]
      BY DEF SyncPost
    <2> QED BY <1>1, <2>2, <2>4, <2>5, <2>6, <2>7, Returned, LockedStep DEF Critical
  <1>4. CASE UNCHANGED outbounds /\ th' = [th EXCEPT ![t] = Failed(t)]
    BY <1>1, <1>4, Returned, LockedStep DEF Critical
  <1> QED BY <1>3, <1>4 DEF SyncPost

\* xuiSync: the result is saved, if it can be, and xuiMu unlocked.
LEMMA SyncRecordStep ==
    ASSUME IInv, NEW t \in Threads, SyncRecord(t)
    PROVE  IInv'
  <1>1. /\ th[t].pc = "record" /\ xmu' = Free /\ th' = [th EXCEPT ![t] = Idle]
        /\ UNCHANGED <<reg, owes, outbounds, edited>> /\ th[t] \in Thread
        /\ (set' = th[t].s /\ UNCHANGED untold) \/ (UNCHANGED set /\ untold')
    BY Parts DEF SyncRecord
  <1>2. set' \in XuiSettings /\ untold' \in BOOLEAN
    <2>1. th[t].s \in XuiSettings /\ set \in XuiSettings /\ untold \in BOOLEAN
      BY <1>1, Parts DEF Thread
    <2>2. CASE set' = th[t].s /\ UNCHANGED untold
      BY <2>1, <2>2
    <2>3. CASE UNCHANGED set /\ untold'
      BY <2>1, <2>3 DEF SyncRecord
    <2> QED BY <1>1, <2>2, <2>3
  <1>3. /\ th' \in [Threads -> Thread] /\ \A u \in Threads : Fine(th'[u])
        /\ th'[t] = Idle /\ \A u \in Threads : u # t => th'[u] = th[u]
    BY <1>1, IdleFine, Parts, OneThread
  <1>4. \A u \in Threads : u # t => th[u].pc \notin Critical
    BY <1>1, Parts DEF MutexInv, Critical
  <1>5. \A u \in Threads : th'[u].pc \notin Critical
    BY <1>3, <1>4, IdleFine DEF Critical
  <1>6. MutexInv' /\ ReadInv'
    BY <1>1, <1>5, XuiTagsAssumption DEF MutexInv, ReadInv, Critical
  <1>7. SyncInv'
    <2>1. ASSUME set'.enabled, ~set'.error, ~untold' PROVE Behind' \/ InSync'
      <3>1. set' = th[t].s /\ ~untold /\ ~th[t].s.error
        BY <1>1, <2>1
      <3>2. Owed \/ InSync
        BY <1>1, <3>1, Parts DEF SyncInv, Behind
      <3>3. (Owed => Owed') /\ (InSync => InSync')
        BY <1>1, <1>3 DEF Owed, InSync
      <3> QED BY <3>2, <3>3 DEF Behind
    <2> QED BY <1>5, <2>1 DEF SyncInv, Behind, Critical
  <1> QED BY <1>1, <1>2, <1>3, <1>6, <1>7, Parts, PartsNext

\* 3x-ui's own admin does not touch the outbounds of locations.
LEMMA EditStep ==
    ASSUME IInv, NEW o \in Others, OthersDropped(o) \/ \E i \in 0 .. Len(outbounds) : OthersAdded(o, i)
    PROVE  IInv'
  <1>1. /\ outbounds \in Seq(Outbound) /\ Len(outbounds) <= MostOutbounds /\ reg \in Registries
        /\ Cardinality(OthersAt(outbounds)) <= MaxOutbounds
        /\ MaxOutbounds \in Nat /\ Cardinality(Names) \in Nat
    BY Parts, XuiBoundAssumption, FS_CardinalityType
  <1>2. UNCHANGED <<reg, owes, set, xmu, th, untold>> /\ edited' = TRUE
    BY DEF OthersDropped, OthersAdded
  <1>3. /\ outbounds' \in Seq(Outbound) /\ Len(outbounds') <= MostOutbounds
        /\ Cardinality(OthersAt(outbounds')) <= MaxOutbounds
        /\ SyncedTo(outbounds, reg) => SyncedTo(outbounds', reg)
    <2>1. CASE OthersDropped(o)
      <3>1. outbounds' = Dropped(outbounds, o)
        BY <2>1 DEF OthersDropped, Dropped
      <3>2. /\ outbounds' \in Seq(Outbound) /\ Len(outbounds') <= Len(outbounds)
            /\ Cardinality(OthersAt(outbounds')) <= Cardinality(OthersAt(outbounds))
            /\ SyncedTo(outbounds, reg) => SyncedTo(outbounds', reg)
        BY <1>1, <3>1, DroppedType
      <3>3. /\ Cardinality(OthersAt(outbounds')) \in Nat /\ Cardinality(OthersAt(outbounds)) \in Nat
            /\ Len(outbounds) \in Nat /\ Len(outbounds') \in Nat
        BY <1>1, <3>2, Positions DEF OthersAt
      <3> QED BY <1>1, <3>2, <3>3 DEF MostOutbounds
    <2>2. ASSUME NEW i \in 0 .. Len(outbounds), OthersAdded(o, i)
          PROVE  /\ outbounds' \in Seq(Outbound) /\ Len(outbounds') <= MostOutbounds
                 /\ Cardinality(OthersAt(outbounds')) <= MaxOutbounds
                 /\ SyncedTo(outbounds, reg) => SyncedTo(outbounds', reg)
      <3>1. outbounds' = Added(outbounds, o, i) /\ Len(outbounds) < MaxOutbounds
        BY <2>2 DEF OthersAdded, Added
      <3>2. outbounds' \in Seq(Outbound) /\ Len(outbounds') = Len(outbounds) + 1
        BY <1>1, <3>1, AddedType
      <3>3. SyncedTo(outbounds, reg) => SyncedTo(outbounds', reg)
        BY <1>1, <3>1, AddedSynced
      <3>4. /\ Cardinality(OthersAt(outbounds')) <= Len(outbounds')
            /\ Cardinality(OthersAt(outbounds')) \in Nat /\ Len(outbounds) \in Nat
        BY <1>1, <3>2, Positions DEF OthersAt
      <3> QED BY <1>1, <3>1, <3>2, <3>3, <3>4 DEF MostOutbounds
    <2> QED BY <2>1, <2>2
  <1>4. (Behind => Behind') /\ (InSync => InSync')
    BY <1>2, <1>3 DEF Behind, Owed, InSync
  <1>5. SyncInv'
    BY <1>2, <1>4, Parts DEF SyncInv
  <1>6. MutexInv'
    BY <1>2, Parts DEF MutexInv
  <1>7. ReadInv'
    BY <1>2 DEF ReadInv
  <1>8. \A t \in Threads : Fine(th'[t])
    BY <1>2, Parts
  <1> QED BY <1>2, <1>3, <1>5, <1>6, <1>7, <1>8, Parts, PartsNext

\* A panel that starts again syncs.
LEMMA RestartStep ==
    ASSUME IInv, PanelRestarts
    PROVE  IInv'
  <1>1. /\ xmu' = Free /\ th' = [t \in Threads |-> Idle] /\ owes' = TRUE
        /\ UNCHANGED <<reg, outbounds, set, untold, edited>>
    BY DEF PanelRestarts
  <1>2. \A t \in Threads : th'[t] = Idle /\ Fine(th'[t]) /\ th'[t].pc \notin Critical
    BY <1>1, IdleFine DEF Critical
  <1>3. Idle \in Thread
    BY IdleFine DEF Fine
  <1>4. MutexInv' /\ ReadInv' /\ SyncInv'
    BY <1>1, <1>2, XuiTagsAssumption DEF MutexInv, ReadInv, SyncInv, Behind, Owed, Critical
  <1> QED BY <1>1, <1>2, <1>3, <1>4, Parts, PartsNext

LEMMA InvInit == Init => IInv
  <1> SUFFICES ASSUME Init PROVE IInv
    OBVIOUS
  <1>1. /\ reg \in Registries /\ owes = TRUE /\ set \in XuiSettings /\ xmu = Free
        /\ th = [t \in Threads |-> Idle] /\ untold = FALSE /\ edited = FALSE
    BY DEF Init
  <1>2. PICK k \in 0 .. MaxOutbounds : outbounds \in [1 .. k -> Outbound]
    BY DEF Init
  <1>3. MaxOutbounds \in Nat /\ Cardinality(Names) \in Nat /\ k \in Nat /\ k <= MaxOutbounds
    BY XuiBoundAssumption, FS_CardinalityType
  <1>4. outbounds \in Seq(Outbound) /\ Len(outbounds) = k
    BY <1>2, <1>3
  <1>5. Cardinality(OthersAt(outbounds)) <= k /\ Cardinality(OthersAt(outbounds)) \in Nat
    BY <1>4, Positions DEF OthersAt
  <1>6. Len(outbounds) <= MostOutbounds /\ Cardinality(OthersAt(outbounds)) <= MaxOutbounds
    BY <1>3, <1>4, <1>5 DEF MostOutbounds
  <1>7. \A t \in Threads : th[t] = Idle /\ Fine(th[t]) /\ th[t].pc \notin Critical
    BY <1>1, IdleFine DEF Critical
  <1>8. Idle \in Thread
    BY IdleFine DEF Fine
  <1>9. MutexInv /\ ReadInv /\ SyncInv
    BY <1>1, <1>7, XuiTagsAssumption DEF MutexInv, ReadInv, SyncInv, Behind, Owed, Critical
  <1> QED BY <1>1, <1>4, <1>6, <1>7, <1>8, <1>9, Parts

LEMMA InvStep == IInv /\ [Next]_vars => IInv'
  <1> SUFFICES ASSUME IInv, [Next]_vars PROVE IInv'
    OBVIOUS
  <1>1. CASE RegistrySaved \/ Imported
    BY <1>1, RegistryStep
  <1>2. ASSUME NEW t \in Threads,
               \/ SyncAsync(t) \/ SyncButton(t) \/ FormSave(t) \/ SyncBegin(t) \/ SyncStep(t)
               \/ \E on \in BOOLEAN : FormLoad(t, on)
        PROVE  IInv'
    BY <1>2, RequestStep, FormSaveStep, SyncBeginStep, SyncListStep, SyncGetStep, SyncPostStep,
       SyncRecordStep DEF SyncStep
  <1>3. CASE \E o \in Others : OthersDropped(o) \/ \E i \in 0 .. Len(outbounds) : OthersAdded(o, i)
    BY <1>3, EditStep
  <1>4. CASE PanelRestarts
    BY <1>4, RestartStep
  <1>5. CASE UNCHANGED vars
    BY <1>5 DEF vars, IInv, TypeOK, MutexInv, BoundInv, SyncInv, ReadInv, Behind, Owed, InSync
  <1> QED BY <1>1, <1>2, <1>3, <1>4, <1>5 DEF Next

-----------------------------------------------------------------------------
(* The theorems.                                                           *)

\* The invariant behind what follows holds of every behaviour.
THEOREM XuiInvariance == Spec => []IInv
  BY InvInit, InvStep, PTL DEF Spec

\* Every variable keeps its shape, and however many syncs there are, 3x-ui's config is never
\* longer than its admin and one outbound per location make it.
THEOREM XuiTypeCorrect == Spec => []TypeOK
  <1>1. IInv => TypeOK
    BY DEF IInv
  <1> QED BY <1>1, XuiInvariance, PTL

\* When all is quiet and the last sync reported no error, 3x-ui has exactly the outbounds of
\* the current locations, with any number of locations, outbounds and goroutines, and also
\* when the admin of 3x-ui saves in the middle of a sync.
THEOREM SyncedOrSaidCorrect == Spec => []SyncedOrSaid
  <1>1. ASSUME IInv, Quiet, set.enabled, ~set.error, ~untold PROVE InSync
    <2>1. xmu = Free
      BY <1>1, Parts DEF Quiet, MutexInv
    <2>2. ~Behind
      BY <1>1 DEF Quiet, Behind, Owed
    <2> QED BY <1>1, <2>1, <2>2, Parts DEF SyncInv
  <1>2. IInv => SyncedOrSaid
    BY <1>1 DEF SyncedOrSaid
  <1> QED BY <1>2, XuiInvariance, PTL

\* No sync touches the outbounds of others, and one that is the default route stays it; an
\* edit that the admin of 3x-ui saves between a sync's read and its write is lost, but the
\* others are then what the sync read: with any registry, outbounds and goroutines.
THEOREM OthersUntouchedCorrect == Spec => OthersUntouched
  <1> DEFINE before(t) == IF edited THEN th[t].read ELSE outbounds
             Untouched(t) == \/ UNCHANGED outbounds
                             \/ /\ OthersOf(outbounds') = OthersOf(before(t))
                                /\ before(t) # <<>> /\ ~Ours(before(t)[1]) => outbounds'[1] = before(t)[1]
  <1>1. ASSUME IInv, NEW t \in Threads, SyncPost(t)
        PROVE  Untouched(t)
    <2>1. th[t].read = before(t) /\ th[t].want \in Registries /\ th[t].read \in Seq(Outbound)
      BY <1>1, Parts DEF SyncPost, ReadInv, Thread
    <2>2. CASE outbounds' \in Merged(th[t].read, th[t].want)
      BY <2>1, <2>2, MergedOthers
    <2>3. CASE UNCHANGED outbounds
      BY <2>3
    <2> QED BY <1>1, <2>2, <2>3 DEF SyncPost
  <1>2. IInv => [\A t \in Threads : SyncPost(t) => Untouched(t)]_vars
    BY <1>1
  <1> QED BY <1>2, XuiInvariance, PTL DEF OthersUntouched
=============================================================================
