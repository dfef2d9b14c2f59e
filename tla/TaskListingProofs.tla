------------------------- MODULE TaskListingProofs -------------------------
(***************************************************************************)
(* Proofs about TaskListing and Pagination, for any number of tasks and    *)
(* changes, and pages of any size.                                         *)
(***************************************************************************)
EXTENDS TaskListing, FunctionTheorems, FiniteSetTheorems, SequenceTheorems, TLAPS

\* T is a history of the table, l a limit.  What happened from the state a to the
\* state b, and what it means for the places of the tasks: creations move each of
\* them towards the end, removals move each towards the front.
Creates(T, a, b) == \A k \in a .. b - 1 : Len(T[k + 1]) > Len(T[k])
Removes(T, a, b) == \A k \in a .. b - 1 : Len(T[k + 1]) < Len(T[k])
MovedBack(T, a, b) ==
    \A n \in DOMAIN T[a] : \E m \in DOMAIN T[b] : n <= m /\ T[b][m] = T[a][n]
MovedForward(T, a, b) ==
    \A n \in DOMAIN T[b] : \E m \in DOMAIN T[a] : n <= m /\ T[a][m] = T[b][n]

HistoryInv(T) ==
    /\ T \in Seq(IdLists)
    /\ T # <<>>
    /\ \A k \in DOMAIN T : Injective(T[k])
    /\ \A b \in DOMAIN T : \A a \in 1 .. b :
          (Creates(T, a, b) => MovedBack(T, a, b)) /\ (Removes(T, a, b) => MovedForward(T, a, b))

\* What a page that was queried in the states f to g of the table holds: rows
\* that were in its place in state f, and all of them if none was removed.
InPlace(T, l, d, p, f) ==
    \A j \in DOMAIN d : \E i \in j .. l :
        Skip(p, l) + i \in DOMAIN T[f] /\ T[f][Skip(p, l) + i] = d[j]
Complete(T, l, d, p, f) ==
    \A i \in 1 .. l :
        Skip(p, l) + i \in DOMAIN T[f] => i \in DOMAIN d /\ d[i] = T[f][Skip(p, l) + i]
DataInv(T, l, d, p, f, g) ==
    /\ d \in IdLists /\ p \in Pages /\ g \in 1 .. Len(T) /\ f \in 1 .. g
    /\ InPlace(T, l, d, p, f)
    /\ Creates(T, f, g) => Complete(T, l, d, p, f)

\* A page that is said to be the last one reaches the end of the table.
AnswerInv(T, l, a) ==
    /\ a \in Answer
    /\ DataInv(T, l, a.data, a.page, a.from, a.to)
    /\ ~ a.next /\ Creates(T, a.from, a.to) => Len(T[a.from]) <= a.page * l
    /\ a.next => a.page <= Cardinality(Tasks)

RequestType == [pc : {"idle", "lookup", "rows", "count"}, page : Pages \cup {None},
                data : IdLists \cup {None}, from : Nat \cup {None}]
RequestInv(T, l, w, r) ==
    /\ r \in RequestType
    /\ r.pc # "idle" => r.page \in Pages /\ r.page = Len(w) + 1 /\ (w # <<>> => w[Len(w)].next)
    /\ r.pc \in {"rows", "count"} => DataInv(T, l, r.data, r.page, r.from, Len(T))

CacheInv(T, l, c) ==
    /\ c \in [Pages -> Answer \cup {None}]
    /\ \A p \in Pages : c[p] # None => AnswerInv(T, l, c[p]) /\ c[p].page = p

\* How far a walk w without removals has come: what it has not collected by now
\* lies behind its last page.
Ordered(w) == \A k \in 1 .. Len(w) - 1 : w[k].from <= w[k + 1].from
Steady(T, w) ==
    /\ Ordered(w)
    /\ Creates(T, w[1].from, w[Len(w)].from)
    /\ \A k \in DOMAIN w : Creates(T, w[k].from, w[k].to)
CollectedIn(w) == UNION {Elements(w[k].data) : k \in DOMAIN w}
Reached(T, l, w) ==
    \A i \in DOMAIN T[w[1].from] :
        \/ T[w[1].from][i] \in CollectedIn(w)
        \/ \E m \in DOMAIN T[w[Len(w)].from] :
              m > Len(w) * l /\ T[w[Len(w)].from][m] = T[w[1].from][i]
Sorted(w) == \A k \in DOMAIN w : \A j \in 1 .. k : w[j].from <= w[k].from
WalkInv(T, l, w) ==
    /\ w \in Seq(Answer)
    /\ \A k \in DOMAIN w : AnswerInv(T, l, w[k]) /\ w[k].page = k
    /\ w # <<>> /\ Steady(T, w) => Reached(T, l, w)
    /\ Ordered(w) => Sorted(w)

IInv ==
    /\ HistoryInv(tables)
    /\ limit \in 1 .. MaxLimit
    /\ CacheInv(tables, limit, cache)
    /\ RequestInv(tables, limit, walk, request)
    /\ WalkInv(tables, limit, walk)

-----------------------------------------------------------------------------
(* Pages                                                                   *)

LEMMA CardType == Cardinality(Tasks) \in Nat /\ MaxLimit \in Nat
BY TasksAssumption, FS_CardinalityType, LimitsAssumption

\* Whatever the client asks for, a page has from one to MaxLimit rows.
LEMMA LimitInRange == ASSUME NEW raw \in Raw PROVE Limit(ValidLimit(raw)) \in 1 .. MaxLimit
BY LimitsAssumption, ValuesAssumption
   DEF Raw, Number, Limit, ValidLimit, AtMost, AtLeastOne, Parsed, Or

LEMMA Rounding ==
    ASSUME NEW n \in Nat, NEW l \in Nat \ {0}
    PROVE  /\ n \div l \in Nat
           /\ (n \div l) * l <= n
           /\ n < (n \div l) * l + l
OBVIOUS

\* The pages up to the last one hold all rows, and the last one holds some.
LEMMA LastPage ==
    ASSUME NEW n \in Nat, NEW l \in Nat \ {0}, NEW p \in Nat
    PROVE  /\ ~ HasNextPage(p, n, l) => n <= p * l
           /\ HasNextPage(p, n, l) => p < n
<1> DEFINE q == (n + l - 1) \div l
<1>1. n + l - 1 \in Nat
  OBVIOUS
<1>2. q \in Nat /\ q * l <= n + l - 1 /\ n + l - 1 < q * l + l
  BY <1>1, Rounding
<1> HIDE DEF q
<1>3. n <= q * l
  BY <1>2
<1>4. q <= n
  <2> SUFFICES ASSUME q >= n + 1 PROVE FALSE
    BY <1>2
  <2>1. q * l >= (n + 1) * l
    BY <1>2
  <2>2. (n + 1) * l >= n + l
    OBVIOUS
  <2> QED BY <1>2, <2>1, <2>2
<1>5. q <= p => n <= p * l
  BY <1>2, <1>3
<1> QED BY <1>2, <1>4, <1>5 DEF HasNextPage, TotalPages, q

LEMMA SkipIs ==
    ASSUME NEW p \in Nat \ {0}, NEW l \in Nat \ {0}
    PROVE  Skip(p, l) \in Nat /\ Skip(p, l) + l = p * l /\ Skip(p + 1, l) = p * l
BY DEF Skip

-----------------------------------------------------------------------------
(* Lists                                                                   *)

LEMMA IdListType ==
    ASSUME NEW d \in IdLists
    PROVE  d \in Seq(Tasks) /\ Len(d) \in 0 .. Cardinality(Tasks) /\ DOMAIN d = 1 .. Len(d)
BY CardType DEF IdLists

LEMMA IsIdList ==
    ASSUME NEW n \in 0 .. Cardinality(Tasks), NEW d \in [1 .. n -> Tasks]
    PROVE  d \in IdLists /\ Len(d) = n
BY CardType DEF IdLists

\* A list without duplicates is no longer than there are tasks.
LEMMA InjectiveIsShort ==
    ASSUME NEW n \in Nat, NEW d \in [1 .. n -> Tasks], Injective(d) PROVE n <= Cardinality(Tasks)
<1>1. d \in Injection(1 .. n, Tasks)
  BY DEF Injective, Injection, IsInjective
<1>2. Cardinality(1 .. n) <= Cardinality(Tasks)
  BY <1>1, TasksAssumption, FS_Injection
<1>3. Cardinality(1 .. n) = n
  BY FS_Interval
<1> QED BY <1>2, <1>3

\* What KeptOf keeps is in its order, and moves towards the front.
LEMMA KeptOfMoves ==
    ASSUME NEW s \in Seq(Tasks), NEW S, NEW d, d = KeptOf(s, S)
    PROVE  /\ d \in Seq(Tasks) /\ Len(d) <= Len(s)
           /\ \A n \in DOMAIN d : \E k \in DOMAIN s : n <= k /\ s[k] \in S /\ d[n] = s[k]
           /\ Elements(s) \subseteq S => d = s
           /\ ~ (Elements(s) \subseteq S) => Len(d) < Len(s)
           /\ Injective(s) => Injective(d)
<1> DEFINE I == {k \in DOMAIN s : s[k] \in S}
           Rank(k) == Cardinality({j \in I : j <= k})
           At(n) == CHOOSE k \in I : Rank(k) = n
           N == Cardinality(I)
           e == [n \in 1 .. N |-> s[At(n)]]
<1>1. DOMAIN s = 1 .. Len(s) /\ Len(s) \in Nat
  OBVIOUS
<1>2. /\ IsFiniteSet(1 .. Len(s)) /\ Cardinality(1 .. Len(s)) = Len(s)
      /\ I \in SUBSET (1 .. Len(s))
  BY <1>1, FS_Interval
<1>3. IsFiniteSet(I) /\ N \in Nat /\ N <= Len(s) /\ (N = Len(s) => I = 1 .. Len(s))
  BY <1>2, FS_Subset, FS_CardinalityType
<1>4. ASSUME NEW k \in I PROVE Rank(k) \in 1 .. N /\ Rank(k) <= k
  <2> DEFINE J == {j \in I : j <= k}
  <2>1. J \in SUBSET I /\ J \in SUBSET (1 .. k) /\ J # {} /\ k \in Nat
    BY <1>2
  <2>2. IsFiniteSet(J) /\ Cardinality(J) \in Nat /\ Cardinality(J) <= N
    BY <1>3, <2>1, FS_Subset, FS_CardinalityType
  <2>3. Cardinality(J) # 0
    BY <2>1, <2>2, FS_EmptySet
  <2>4. Cardinality(J) <= k
    <3>1. IsFiniteSet(1 .. k) /\ Cardinality(1 .. k) = k
      BY <2>1, FS_Interval
    <3> QED BY <2>1, <3>1, FS_Subset
  <2> QED BY <2>2, <2>3, <2>4, <1>3
<1>5. ASSUME NEW k \in I, NEW m \in I, k < m PROVE Rank(k) # Rank(m)
  <2> DEFINE J == {j \in I : j <= k}
             M == {j \in I : j <= m}
  <2>1. J \in SUBSET M /\ M \in SUBSET I /\ m \in M /\ m \notin J
    BY <1>2, <1>5
  <2>2. IsFiniteSet(M)
    BY <1>3, <2>1, FS_Subset
  <2> QED BY <2>1, <2>2, FS_Subset
<1>6. \A n \in 1 .. N : At(n) \in I /\ Rank(At(n)) = n
  <2> DEFINE f == [k \in I |-> Rank(k)]
  <2>1. f \in Injection(I, 1 .. N)
    <3>1. f \in [I -> 1 .. N]
      BY <1>4
    <3>2. ASSUME NEW k \in I, NEW m \in I, k # m PROVE f[k] # f[m]
      <4>1. k \in Nat /\ m \in Nat
        BY <1>2
      <4>2. Rank(k) # Rank(m)
        <5>1. CASE k < m
          BY <1>5, <5>1
        <5>2. CASE m < k
          BY <1>5, <5>2
        <5> QED BY <3>2, <4>1, <5>1, <5>2
      <4> QED BY <4>2
    <3>3. IsInjective(f)
      <4> HIDE DEF f, I, N
      <4> QED BY <3>1, <3>2 DEF IsInjective
    <3> QED BY <3>1, <3>3 DEF Injection
  <2>2. IsFiniteSet(1 .. N) /\ Cardinality(1 .. N) = N
    BY <1>3, FS_Interval
  <2>3. f \in Surjection(I, 1 .. N)
    BY <2>1, <2>2, FS_Injection
  <2>4. ASSUME NEW n \in 1 .. N PROVE \E k \in I : Rank(k) = n
    BY <2>3 DEF Surjection
  <2> QED BY <2>4
<1>7. e = d
  BY DEF KeptOf
<1> HIDE DEF Rank
<1>8. /\ e \in [1 .. N -> Tasks] /\ e \in Seq(Tasks) /\ Len(e) = N
      /\ \A n \in 1 .. N : e[n] = s[At(n)] /\ At(n) \in I /\ Rank(At(n)) = n /\ n <= At(n)
  <2>1. \A n \in 1 .. N : At(n) \in I /\ Rank(At(n)) = n /\ n <= At(n)
    BY <1>4, <1>6
  <2> HIDE DEF At
  <2>2. e \in [1 .. N -> Tasks] /\ \A n \in 1 .. N : e[n] = s[At(n)]
    BY <2>1
  <2> HIDE DEF e, N, I
  <2>3. e \in Seq(Tasks) /\ Len(e) = N
    BY <2>2, <1>3
  <2> QED BY <2>1, <2>2, <2>3
<1>9. CASE Elements(s) \subseteq S
  <2>1. I = 1 .. Len(s) /\ N = Len(s)
    BY <1>1, <1>2, <1>9 DEF Elements
  <2>2. ASSUME NEW k \in 1 .. Len(s) PROVE Rank(k) = k
    <3>1. {j \in I : j <= k} = 1 .. k
      BY <1>1, <2>1
    <3>2. Cardinality(1 .. k) = k
      BY <1>1, FS_Interval
    <3> QED BY <3>1, <3>2 DEF Rank
  <2>3. \A n \in 1 .. N : At(n) = n
    BY <1>8, <2>1, <2>2
  <2> HIDE DEF At, e
  <2>4. \A n \in 1 .. N : e[n] = s[n]
    BY <1>8, <2>3
  <2>5. e = s
    BY <1>8, <2>1, <2>4, SeqEqual
  <2>6. \A n \in DOMAIN s : \E k \in DOMAIN s : n <= k /\ s[k] \in S /\ s[n] = s[k]
    BY <1>1, <1>9 DEF Elements
  <2> QED BY <1>7, <1>9, <2>5, <2>6, <1>1
<1>10. CASE ~ (Elements(s) \subseteq S)
  <2>1. I # 1 .. Len(s)
    BY <1>1, <1>10 DEF Elements
  <2>2. N < Len(s)
    BY <1>3, <1>1, <2>1
  <2>3. Injective(s) => Injective(e)
    <3> HIDE DEF At, e
    <3>1. DOMAIN e = 1 .. N
      BY <1>8
    <3> SUFFICES ASSUME Injective(s), NEW m \in 1 .. N, NEW n \in 1 .. N, e[m] = e[n] PROVE m = n
      BY <3>1 DEF Injective
    <3>2. At(m) = At(n)
      BY <1>8, <1>2, <1>1 DEF Injective
    <3> QED BY <3>2, <1>8
  <2>4. \A n \in DOMAIN e : \E k \in DOMAIN s : n <= k /\ s[k] \in S /\ e[n] = s[k]
    <3> HIDE DEF At, e
    <3> QED BY <1>8
  <2>5. e \in Seq(Tasks) /\ Len(e) = N
    BY <1>8
  <2> HIDE DEF At, e, N, I
  <2> QED BY <1>1, <1>3, <1>7, <1>10, <2>2, <2>3, <2>4, <2>5
<1> QED BY <1>9, <1>10

-----------------------------------------------------------------------------
(* Changes of the table                                                    *)

\* One more state of the table changes nothing that is said of earlier ones.
LEMMA OneMoreState ==
    ASSUME NEW T \in Seq(IdLists), T # <<>>, NEW ids \in IdLists
    PROVE  LET U == Append(T, ids)
           IN  /\ U \in Seq(IdLists) /\ U # <<>> /\ Len(T) \in Nat \ {0}
               /\ Len(U) = Len(T) + 1 /\ U[Len(U)] = ids
               /\ \A k \in 1 .. Len(T) : U[k] = T[k]
               /\ \A b \in 1 .. Len(T) : \A a \in 1 .. b :
                     /\ Creates(U, a, b) <=> Creates(T, a, b)
                     /\ Removes(U, a, b) <=> Removes(T, a, b)
<1> DEFINE U == Append(T, ids)
<1>1. /\ U \in Seq(IdLists) /\ U # <<>> /\ Len(T) \in Nat \ {0}
      /\ Len(U) = Len(T) + 1 /\ U[Len(U)] = ids
      /\ \A k \in 1 .. Len(T) : U[k] = T[k]
  OBVIOUS
<1> HIDE DEF U
<1>2. ASSUME NEW b \in 1 .. Len(T), NEW a \in 1 .. b
      PROVE  /\ Creates(U, a, b) <=> Creates(T, a, b)
             /\ Removes(U, a, b) <=> Removes(T, a, b)
  <2>1. \A k \in a .. b - 1 : U[k] = T[k] /\ U[k + 1] = T[k + 1]
    BY <1>1
  <2> QED BY <2>1 DEF Creates, Removes
<1> QED BY <1>1, <1>2 DEF U

\* A new state that creates one task, at whatever place, or removes some.
LEMMA HistoryGoesOn ==
    ASSUME NEW T, HistoryInv(T), NEW ids \in IdLists, Injective(ids),
           \/ /\ Len(ids) = Len(T[Len(T)]) + 1
              /\ \A n \in DOMAIN T[Len(T)] : \E m \in DOMAIN ids : n <= m /\ ids[m] = T[Len(T)][n]
           \/ /\ Len(ids) <= Len(T[Len(T)])
              /\ \A n \in DOMAIN ids : \E m \in DOMAIN T[Len(T)] : n <= m /\ T[Len(T)][m] = ids[n]
    PROVE  HistoryInv(Append(T, ids))
<1> DEFINE U == Append(T, ids)
           N == Len(T)
<1>1. T \in Seq(IdLists) /\ T # <<>> /\ N \in Nat \ {0} /\ T[N] \in IdLists
  BY DEF HistoryInv
<1>2. /\ U \in Seq(IdLists) /\ U # <<>> /\ Len(U) = N + 1 /\ U[N + 1] = ids
      /\ \A k \in 1 .. N : U[k] = T[k]
      /\ \A b \in 1 .. N : \A a \in 1 .. b :
            /\ Creates(U, a, b) <=> Creates(T, a, b)
            /\ Removes(U, a, b) <=> Removes(T, a, b)
  BY <1>1, OneMoreState
<1> HIDE DEF U, N
<1>3. DOMAIN U = 1 .. N + 1 /\ DOMAIN T = 1 .. N
  BY <1>1, <1>2 DEF N
<1>4. \A k \in DOMAIN U : Injective(U[k])
  BY <1>1, <1>2, <1>3 DEF HistoryInv
<1>5. \A k \in 1 .. N + 1 : U[k] \in IdLists /\ Len(U[k]) \in Nat /\ DOMAIN U[k] = 1 .. Len(U[k])
  BY <1>2, <1>3, IdListType, CardType
<1>6. ASSUME NEW b \in 1 .. N, NEW a \in 1 .. b
      PROVE  (Creates(U, a, b) => MovedBack(U, a, b)) /\ (Removes(U, a, b) => MovedForward(U, a, b))
  <2>1. U[a] = T[a] /\ U[b] = T[b]
    BY <1>1, <1>2
  <2>2. (Creates(T, a, b) => MovedBack(T, a, b)) /\ (Removes(T, a, b) => MovedForward(T, a, b))
    BY <1>3 DEF HistoryInv
  <2> QED BY <1>2, <2>1, <2>2 DEF MovedBack, MovedForward
<1>7. ASSUME NEW a \in 1 .. N, Creates(U, a, N + 1) PROVE MovedBack(U, a, N + 1)
  <2>1. MovedBack(U, a, N)
    <3>1. Creates(U, a, N) /\ N \in 1 .. N
      BY <1>1, <1>7 DEF Creates
    <3> QED BY <1>6, <3>1
  <2>2. Len(U[N + 1]) > Len(U[N])
    BY <1>1, <1>7 DEF Creates
  <2>3. \A n \in DOMAIN U[N] : \E m \in DOMAIN ids : n <= m /\ ids[m] = U[N][n]
    <3>1. U[N] = T[Len(T)] /\ Len(U[N]) \in Nat /\ Len(ids) \in Nat
      BY <1>1, <1>2, <1>5 DEF N
    <3>2. ~ (Len(ids) <= Len(T[Len(T)]))
      BY <1>2, <2>2, <3>1
    <3> QED BY <3>1, <3>2
  <2> SUFFICES ASSUME NEW n \in DOMAIN U[a]
               PROVE  \E m \in DOMAIN ids : n <= m /\ ids[m] = U[a][n]
    BY <1>2 DEF MovedBack
  <2>4. PICK j \in DOMAIN U[N] : n <= j /\ U[N][j] = U[a][n]
    BY <2>1 DEF MovedBack
  <2>5. PICK m \in DOMAIN ids : j <= m /\ ids[m] = U[N][j]
    BY <2>3
  <2>6. n \in Nat /\ j \in Nat /\ m \in Nat
    <3>1. a \in 1 .. N + 1 /\ N \in 1 .. N + 1 /\ N + 1 \in 1 .. N + 1
      BY <1>1
    <3>2. \A k \in 1 .. N + 1 : DOMAIN U[k] \subseteq Nat
      BY <1>5
    <3> QED BY <1>2, <3>1, <3>2
  <2> QED BY <2>4, <2>5, <2>6
<1>8. ASSUME NEW a \in 1 .. N, Removes(U, a, N + 1) PROVE MovedForward(U, a, N + 1)
  <2>1. MovedForward(U, a, N)
    <3>1. Removes(U, a, N) /\ N \in 1 .. N
      BY <1>1, <1>8 DEF Removes
    <3> QED BY <1>6, <3>1
  <2>2. Len(U[N + 1]) < Len(U[N])
    BY <1>1, <1>8 DEF Removes
  <2>3. \A n \in DOMAIN ids : \E m \in DOMAIN U[N] : n <= m /\ U[N][m] = ids[n]
    BY <1>1, <1>2, <1>5, <2>2 DEF N
  <2> SUFFICES ASSUME NEW n \in DOMAIN ids
               PROVE  \E m \in DOMAIN U[a] : n <= m /\ U[a][m] = ids[n]
    BY <1>2 DEF MovedForward
  <2>4. PICK j \in DOMAIN U[N] : n <= j /\ U[N][j] = ids[n]
    BY <2>3
  <2>5. PICK m \in DOMAIN U[a] : j <= m /\ U[a][m] = U[N][j]
    BY <2>1 DEF MovedForward
  <2>6. n \in Nat /\ j \in Nat /\ m \in Nat
    BY <1>1, <1>2, <1>5
  <2> QED BY <2>4, <2>5, <2>6
<1>9. MovedBack(U, N + 1, N + 1) /\ MovedForward(U, N + 1, N + 1)
  BY <1>1, <1>5 DEF MovedBack, MovedForward
<1>10. ASSUME NEW b \in DOMAIN U, NEW a \in 1 .. b
       PROVE  (Creates(U, a, b) => MovedBack(U, a, b)) /\ (Removes(U, a, b) => MovedForward(U, a, b))
  <2>1. CASE b \in 1 .. N
    BY <1>6, <2>1
  <2>2. CASE b = N + 1 /\ a \in 1 .. N
    BY <1>7, <1>8, <2>2
  <2>3. CASE b = N + 1 /\ a = N + 1
    BY <1>9, <2>3
  <2> QED BY <1>1, <1>3, <2>1, <2>2, <2>3
<1>11. HistoryInv(U)
  BY <1>2, <1>4, <1>10 DEF HistoryInv
<1> QED BY <1>11 DEF U

\* What a page says of the states it was queried in stays true.
LEMMA PagesOutliveChanges ==
    ASSUME NEW T \in Seq(IdLists), T # <<>>, NEW ids \in IdLists, NEW l,
           NEW d, NEW p, NEW f, NEW g, DataInv(T, l, d, p, f, g)
    PROVE  /\ DataInv(Append(T, ids), l, d, p, f, g)
           /\ DataInv(Append(T, ids), l, d, p, f, Len(T) + 1)
<1> DEFINE U == Append(T, ids)
           N == Len(T)
<1>1. /\ N \in Nat \ {0} /\ Len(U) = N + 1
      /\ \A k \in 1 .. N : U[k] = T[k]
      /\ \A b \in 1 .. N : \A a \in 1 .. b : Creates(U, a, b) <=> Creates(T, a, b)
  BY OneMoreState
<1> HIDE DEF U, N
<1>2. g \in 1 .. N /\ f \in 1 .. g /\ f \in 1 .. N /\ U[f] = T[f]
  BY <1>1 DEF DataInv, N
<1>3. InPlace(U, l, d, p, f) /\ (Complete(T, l, d, p, f) => Complete(U, l, d, p, f))
  BY <1>2 DEF DataInv, InPlace, Complete
<1>4. Creates(U, f, N + 1) => Creates(U, f, g)
  BY <1>1, <1>2 DEF Creates
<1>5. Creates(U, f, g) => Complete(U, l, d, p, f)
  BY <1>1, <1>2, <1>3 DEF DataInv
<1>6. DataInv(U, l, d, p, f, g) /\ DataInv(U, l, d, p, f, N + 1)
  BY <1>1, <1>2, <1>3, <1>4, <1>5 DEF DataInv
<1> QED BY <1>6 DEF U, N

LEMMA AnswersOutliveChanges ==
    ASSUME NEW T \in Seq(IdLists), T # <<>>, NEW ids \in IdLists, NEW l,
           NEW a, AnswerInv(T, l, a)
    PROVE  AnswerInv(Append(T, ids), l, a)
<1>1. DataInv(Append(T, ids), l, a.data, a.page, a.from, a.to)
  BY PagesOutliveChanges DEF AnswerInv
<1>2. /\ a.to \in 1 .. Len(T) /\ a.from \in 1 .. a.to /\ a.from \in 1 .. Len(T)
  BY DEF AnswerInv, DataInv
<1>3. /\ Append(T, ids)[a.from] = T[a.from]
      /\ Creates(Append(T, ids), a.from, a.to) <=> Creates(T, a.from, a.to)
  BY <1>2, OneMoreState
<1> QED BY <1>1, <1>3 DEF AnswerInv

LEMMA WalkOutlivesChanges ==
    ASSUME NEW T \in Seq(IdLists), T # <<>>, NEW ids \in IdLists, NEW l, NEW w, WalkInv(T, l, w)
    PROVE  WalkInv(Append(T, ids), l, w)
<1> DEFINE U == Append(T, ids)
<1>1. \A k \in DOMAIN w : AnswerInv(U, l, w[k]) /\ w[k].page = k
  BY AnswersOutliveChanges DEF WalkInv
<1>2. ASSUME w # <<>>, Steady(U, w) PROVE Reached(U, l, w)
  <2>1. 1 \in DOMAIN w /\ Len(w) \in DOMAIN w /\ \A k \in DOMAIN w : k \in 1 .. Len(w)
    BY <1>2 DEF WalkInv
  <2>2. \A k \in DOMAIN w : w[k].from \in 1 .. Len(T) /\ w[k].to \in 1 .. Len(T)
                            /\ w[k].from \in 1 .. w[k].to
    BY DEF WalkInv, AnswerInv, DataInv
  <2>3. w[1].from <= w[Len(w)].from
    BY <1>2, <2>1 DEF WalkInv, Steady, Sorted
  <2>4. /\ U[w[1].from] = T[w[1].from] /\ U[w[Len(w)].from] = T[w[Len(w)].from]
        /\ Creates(T, w[1].from, w[Len(w)].from)
    <3>1. w[1].from \in 1 .. Len(T) /\ w[Len(w)].from \in 1 .. Len(T)
          /\ w[1].from \in 1 .. w[Len(w)].from
      BY <2>1, <2>2, <2>3
    <3> QED BY <3>1, <1>2, OneMoreState DEF Steady
  <2>5. \A k \in DOMAIN w : Creates(T, w[k].from, w[k].to)
    BY <1>2, <2>2, OneMoreState DEF Steady
  <2>6. Reached(T, l, w)
    BY <1>2, <2>4, <2>5 DEF Steady, WalkInv
  <2> HIDE DEF U
  <2> QED BY <2>4, <2>6 DEF Reached
<1> QED BY <1>1, <1>2 DEF WalkInv

-----------------------------------------------------------------------------
(* The walk                                                                *)

LEMMA HistoryFacts ==
    ASSUME NEW T, HistoryInv(T)
    PROVE  /\ Len(T) \in Nat \ {0} /\ DOMAIN T = 1 .. Len(T)
           /\ \A k \in 1 .. Len(T) :
                 /\ T[k] \in IdLists /\ Len(T[k]) \in 0 .. Cardinality(Tasks)
                 /\ DOMAIN T[k] = 1 .. Len(T[k])
<1>1. T \in Seq(IdLists) /\ T # <<>>
  BY DEF HistoryInv
<1>2. Len(T) \in Nat \ {0} /\ DOMAIN T = 1 .. Len(T) /\ \A k \in 1 .. Len(T) : T[k] \in IdLists
  BY <1>1
<1> QED BY <1>2, IdListType

\* The row at place i of state a is at place i of state b, or behind it.
LEMMA CreatedMoves ==
    ASSUME NEW T, HistoryInv(T), NEW b \in 1 .. Len(T), NEW a \in 1 .. b, Creates(T, a, b)
    PROVE  /\ Len(T[a]) <= Len(T[b])
           /\ \A i \in DOMAIN T[a] : \E m \in DOMAIN T[b] : i <= m /\ T[b][m] = T[a][i]
<1>1. a \in 1 .. Len(T) /\ b \in DOMAIN T
  BY HistoryFacts
<1>2. MovedBack(T, a, b)
  BY <1>1 DEF HistoryInv
<1>3. Len(T[a]) \in Nat /\ Len(T[b]) \in Nat
      /\ DOMAIN T[a] = 1 .. Len(T[a]) /\ DOMAIN T[b] = 1 .. Len(T[b])
  BY <1>1, HistoryFacts, CardType
<1>4. CASE Len(T[a]) = 0
  BY <1>2, <1>3, <1>4 DEF MovedBack
<1>5. CASE Len(T[a]) # 0
  <2>1. Len(T[a]) \in DOMAIN T[a]
    BY <1>3, <1>5
  <2>2. PICK m \in DOMAIN T[b] : Len(T[a]) <= m
    BY <1>2, <2>1 DEF MovedBack
  <2> QED BY <1>2, <1>3, <2>2 DEF MovedBack
<1> QED BY <1>4, <1>5

\* A complete page has the row of any place that is on it.
LEMMA PlaceOnPage ==
    ASSUME NEW T, NEW l \in Nat \ {0}, NEW p \in Nat \ {0}, NEW d, NEW f,
           Complete(T, l, d, p, f),
           NEW x \in DOMAIN T[f], x \in Nat, x > (p - 1) * l, x <= p * l
    PROVE  T[f][x] \in Elements(d)
<1> DEFINE s == Skip(p, l)
           y == x - s
<1>1. s \in Nat /\ s + l = p * l /\ s = (p - 1) * l
  BY SkipIs DEF Skip
<1> HIDE DEF s
<1>2. y \in 1 .. l /\ s + y = x
  BY <1>1
<1> HIDE DEF y
<1>3. y \in DOMAIN d /\ d[y] = T[f][x]
  BY <1>2 DEF Complete, s
<1> QED BY <1>3 DEF Elements

LEMMA AnswerFacts ==
    ASSUME NEW T, NEW l, NEW a, AnswerInv(T, l, a)
    PROVE  /\ a \in Answer /\ a.to \in 1 .. Len(T) /\ a.from \in 1 .. a.to
           /\ a.page \in Nat \ {0} /\ a.page \in Pages
           /\ DataInv(T, l, a.data, a.page, a.from, a.to)
BY CardType DEF AnswerInv, DataInv, Pages

\* The next page, old or new, keeps what is known of the walk.
LEMMA WalkGoesOn ==
    ASSUME NEW T, HistoryInv(T), NEW l \in Nat \ {0}, NEW w, WalkInv(T, l, w),
           NEW a, AnswerInv(T, l, a), a.page = Len(w) + 1
    PROVE  WalkInv(T, l, Append(w, a))
<1> DEFINE v == Append(w, a)
           n == Len(w)
<1>1. w \in Seq(Answer) /\ n \in Nat /\ a \in Answer
  BY DEF WalkInv, AnswerInv
<1>2. /\ v \in Seq(Answer) /\ Len(v) = n + 1 /\ v[n + 1] = a
      /\ DOMAIN v = 1 .. n + 1 /\ DOMAIN w = 1 .. n
      /\ \A k \in 1 .. n : v[k] = w[k]
      /\ w = <<>> <=> n = 0
  BY <1>1
<1> HIDE DEF v, n
<1>3. \A k \in DOMAIN v : AnswerInv(T, l, v[k]) /\ v[k].page = k
  BY <1>1, <1>2 DEF WalkInv, n
<1>4. \A k \in 1 .. n + 1 : v[k].from \in Nat /\ v[k].to \in 1 .. Len(T) /\ v[k].from \in 1 .. v[k].to
  BY <1>2, <1>3, AnswerFacts
<1>5. ASSUME Ordered(v) PROVE Sorted(v) /\ Ordered(w) /\ (n # 0 => v[n].from <= a.from)
  <2>1. \A k \in 1 .. n : v[k].from <= v[k + 1].from
    <3>1. Len(v) - 1 = n
      BY <1>1, <1>2
    <3> QED BY <3>1, <1>5 DEF Ordered
  <2>2. Ordered(w)
    <3>1. \A k \in 1 .. n - 1 : k \in 1 .. n /\ k + 1 \in 1 .. n
      BY <1>1
    <3> QED BY <2>1, <3>1, <1>2 DEF Ordered, n
  <2>3. \A k \in 1 .. n : \A j \in 1 .. k : v[j].from <= v[k].from
    <3>1. Sorted(w)
      BY <2>2 DEF WalkInv
    <3>2. \A k \in 1 .. n : \A j \in 1 .. k : j \in 1 .. n
      BY <1>1
    <3> QED BY <3>1, <3>2, <1>2 DEF Sorted
  <2>4. n # 0 => v[n].from <= a.from
    BY <1>1, <1>2, <2>1
  <2>5. \A j \in 1 .. n + 1 : v[j].from <= v[n + 1].from
    <3> SUFFICES ASSUME NEW j \in 1 .. n, n # 0 PROVE v[j].from <= v[n + 1].from
      BY <1>1, <1>4
    <3>1. v[j].from <= v[n].from /\ v[n].from <= v[n + 1].from
      BY <1>1, <1>2, <2>3, <2>4
    <3> QED BY <3>1, <1>1, <1>4
  <2>6. Sorted(v)
    <3> SUFFICES ASSUME NEW k \in 1 .. n + 1, NEW j \in 1 .. k PROVE v[j].from <= v[k].from
      BY <1>2 DEF Sorted
    <3>1. CASE k \in 1 .. n
      BY <2>3, <3>1
    <3>2. CASE k = n + 1
      BY <2>5, <3>2
    <3> QED BY <1>1, <3>1, <3>2
  <2> QED BY <2>2, <2>4, <2>6
<1>6. ASSUME Steady(T, v) PROVE Reached(T, l, v)
  <2> DEFINE f == v[1].from
             g == a.from
  <2>1. /\ f \in Nat /\ g \in 1 .. Len(T) /\ f \in 1 .. g /\ f \in 1 .. Len(T)
        /\ Creates(T, f, g) /\ Creates(T, a.from, a.to)
    <3>1. Sorted(v) /\ Creates(T, v[1].from, v[n + 1].from) /\ Creates(T, v[n + 1].from, v[n + 1].to)
      BY <1>5, <1>6, <1>1, <1>2 DEF Steady
    <3>2. v[1].from <= v[n + 1].from
      BY <3>1, <1>1, <1>2 DEF Sorted
    <3>3. v[1].from \in Nat \ {0} /\ v[n + 1].from \in 1 .. v[n + 1].to /\ v[n + 1].to \in 1 .. Len(T)
      BY <1>1, <1>4
    <3>4. v[n + 1].from \in 1 .. Len(T) /\ v[1].from \in 1 .. v[n + 1].from /\ v[1].from \in 1 .. Len(T)
      BY <3>2, <3>3, HistoryFacts
    <3> QED BY <3>1, <3>3, <3>4, <1>2
  <2>2. Complete(T, l, a.data, n + 1, g)
    BY <2>1, AnswerFacts DEF DataInv, n
  <2> SUFFICES ASSUME NEW i \in DOMAIN T[f]
               PROVE  \/ T[f][i] \in CollectedIn(v)
                      \/ \E m \in DOMAIN T[g] : m > (n + 1) * l /\ T[g][m] = T[f][i]
    BY <1>2 DEF Reached
  <2> HIDE DEF f, g
  <2>3. i \in Nat \ {0} /\ DOMAIN T[g] \subseteq Nat
    <3>1. /\ Len(T[f]) \in 0 .. Cardinality(Tasks) /\ DOMAIN T[f] = 1 .. Len(T[f])
          /\ Len(T[g]) \in 0 .. Cardinality(Tasks) /\ DOMAIN T[g] = 1 .. Len(T[g])
      BY <2>1, HistoryFacts
    <3>2. i \in 1 .. Len(T[f]) /\ Len(T[f]) \in Nat /\ Len(T[g]) \in Nat
      BY <3>1, CardType
    <3> QED BY <3>1, <3>2
  <2>4. T[f][i] \in Elements(a.data) => T[f][i] \in CollectedIn(v)
    BY <1>1, <1>2 DEF CollectedIn
  <2>5. ASSUME NEW m \in DOMAIN T[g], m > n * l, T[g][m] = T[f][i], ~ (m > (n + 1) * l)
        PROVE  T[f][i] \in Elements(a.data)
    <3>1. n + 1 \in Nat \ {0} /\ (n + 1) - 1 = n /\ m \in Nat /\ (n + 1) * l \in Nat
      BY <1>1, <2>3
    <3>2. m <= (n + 1) * l
      BY <2>5, <3>1
    <3> QED BY <2>2, <2>5, <3>1, <3>2, PlaceOnPage
  <2>6. CASE n = 0
    <3>1. g = f
      BY <1>2, <2>6 DEF f, g
    <3>2. i > n * l
      BY <2>3, <2>6
    <3> QED BY <2>4, <2>5, <3>1, <3>2
  <2>7. CASE n # 0
    <3> DEFINE h == w[n].from
    <3>1. v[1] = w[1] /\ v[n] = w[n] /\ n \in 1 .. n + 1 /\ w # <<>>
      BY <1>1, <1>2, <2>7
    <3>2. h \in 1 .. g /\ f \in 1 .. h /\ h \in 1 .. Len(T)
      <4>1. Ordered(v)
        BY <1>6 DEF Steady
      <4>2. v[1].from <= v[n].from /\ v[n].from <= v[n + 1].from
        <5>1. Sorted(v) /\ v[n].from <= a.from
          BY <4>1, <1>5, <2>7
        <5> QED BY <5>1, <3>1, <1>2, <1>1, <2>7 DEF Sorted
      <4>3. v[1].from \in Nat \ {0} /\ v[n].from \in Nat \ {0} /\ v[n + 1].from \in Nat
        BY <1>1, <1>4, <3>1
      <4> QED BY <2>1, <3>1, <4>2, <4>3, <1>2 DEF f, g
    <3>3. Creates(T, f, h) /\ Creates(T, h, g)
      BY <2>1, <3>2 DEF Creates
    <3>4. Steady(T, w)
      <4>1. Ordered(w)
        BY <1>5, <1>6 DEF Steady
      <4>2. \A k \in 1 .. n : Creates(T, w[k].from, w[k].to)
        BY <1>1, <1>2, <1>6 DEF Steady
      <4> QED BY <3>1, <3>3, <4>1, <4>2, <1>2 DEF Steady, f, n
    <3>5. \/ T[f][i] \in CollectedIn(w)
          \/ \E m \in DOMAIN T[h] : m > n * l /\ T[h][m] = T[f][i]
      <4>1. Reached(T, l, w)
        BY <3>1, <3>4 DEF WalkInv
      <4> QED BY <4>1, <3>1 DEF Reached, f, n
    <3>6. CollectedIn(w) \subseteq CollectedIn(v)
      BY <1>1, <1>2 DEF CollectedIn
    <3>7. ASSUME NEW m \in DOMAIN T[h], m > n * l, T[h][m] = T[f][i]
          PROVE  \E k \in DOMAIN T[g] : k > n * l /\ T[g][k] = T[f][i]
      <4> HIDE DEF h
      <4>0. g \in 1 .. Len(T) /\ h \in 1 .. g /\ Creates(T, h, g)
        BY <2>1, <3>2, <3>3
      <4>1. PICK k \in DOMAIN T[g] : m <= k /\ T[g][k] = T[h][m]
        BY <4>0, CreatedMoves
      <4>2. n * l \in Nat /\ k \in Nat /\ m \in Nat
        <5>1. DOMAIN T[h] \subseteq Nat
          BY <3>2, HistoryFacts, CardType
        <5> QED BY <1>1, <2>3, <5>1
      <4>3. k > n * l
        BY <3>7, <4>1, <4>2
      <4> QED BY <3>7, <4>1, <4>3
    <3> QED BY <3>5, <3>6, <3>7, <2>4, <2>5
  <2> QED BY <2>6, <2>7
<1>7. WalkInv(T, l, v)
  BY <1>2, <1>3, <1>5, <1>6 DEF WalkInv
<1> QED BY <1>7 DEF v

-----------------------------------------------------------------------------
(* The invariant                                                           *)

LEMMA InitInv == ASSUME Init PROVE IInv
<1>1. PICK ids \in IdLists : Injective(ids) /\ tables = <<ids>>
  BY DEF Init
<1>2. /\ tables \in Seq(IdLists) /\ tables # <<>> /\ Len(tables) = 1
      /\ DOMAIN tables = 1 .. 1 /\ tables[1] = ids
  BY <1>1
<1>3. HistoryInv(tables)
  <2>1. Len(ids) \in Nat /\ DOMAIN ids = 1 .. Len(ids)
    BY <1>1, IdListType, CardType
  <2>2. MovedBack(tables, 1, 1) /\ MovedForward(tables, 1, 1)
    BY <1>2, <2>1 DEF MovedBack, MovedForward
  <2>3. \A b \in DOMAIN tables : \A a \in 1 .. b : b = 1 /\ a = 1
    BY <1>2
  <2>4. \A k \in DOMAIN tables : Injective(tables[k])
    BY <1>1, <1>2
  <2> QED BY <1>2, <2>2, <2>3, <2>4 DEF HistoryInv
<1>4. limit \in 1 .. MaxLimit
  BY LimitInRange, RawAssumption DEF Init
<1>5. CacheInv(tables, limit, cache)
  BY DEF Init, CacheInv
<1>6. RequestInv(tables, limit, walk, request)
  BY DEF Init, Idle, RequestInv, RequestType
<1>7. WalkInv(tables, limit, walk)
  <2>1. walk = <<>> /\ walk \in Seq(Answer) /\ DOMAIN walk = {}
    BY DEF Init
  <2> QED BY <2>1 DEF WalkInv, Sorted
<1> QED BY <1>3, <1>4, <1>5, <1>6, <1>7 DEF IInv

\* Whatever page was asked for before the change is still a page of this table.
LEMMA ChangeInv ==
    ASSUME IInv, NEW ids \in IdLists, tables' = Append(tables, ids),
           HistoryInv(Append(tables, ids)), UNCHANGED <<limit, cache, request, walk>>
    PROVE  IInv'
<1>1. tables \in Seq(IdLists) /\ tables # <<>> /\ Len(tables') = Len(tables) + 1
  BY OneMoreState DEF IInv, HistoryInv
<1>2. CacheInv(tables', limit, cache)
  BY <1>1, AnswersOutliveChanges DEF IInv, CacheInv
<1>3. RequestInv(tables', limit, walk, request)
  BY <1>1, PagesOutliveChanges DEF IInv, RequestInv
<1>4. WalkInv(tables', limit, walk)
  BY <1>1, WalkOutlivesChanges DEF IInv
<1> QED BY <1>2, <1>3, <1>4 DEF IInv

LEMMA NowIsLast ==
    ASSUME IInv
    PROVE  /\ Now \in Nat \ {0} /\ Now \in 1 .. Len(tables) /\ Table \in IdLists
           /\ Table \in Seq(Tasks) /\ Len(Table) \in 0 .. Cardinality(Tasks)
           /\ DOMAIN Table = 1 .. Len(Table) /\ Injective(Table) /\ limit \in Nat \ {0}
<1>1. Now \in Nat \ {0} /\ Now \in 1 .. Len(tables)
  BY HistoryFacts DEF IInv, Now
<1>2. Table \in IdLists /\ Injective(Table)
  BY <1>1, HistoryFacts DEF IInv, HistoryInv, Table
<1>3. limit \in Nat \ {0}
  BY CardType DEF IInv
<1> QED BY <1>1, <1>2, <1>3, IdListType

\* The elements of s stay in their place, or move one place towards the end.
LEMMA InsertedMoves ==
    ASSUME NEW s \in Seq(Tasks), NEW t \in Tasks, NEW n \in 1 .. Len(s) + 1
    PROVE  LET d == Inserted(s, n, t)
           IN  /\ Len(s) + 1 \in Nat /\ d \in [1 .. Len(s) + 1 -> Tasks]
               /\ \A k \in DOMAIN s : \E m \in DOMAIN d : k <= m /\ d[m] = s[k]
               /\ Injective(s) /\ t \notin Elements(s) => Injective(d)
<1> DEFINE d == Inserted(s, n, t)
<1>1. Len(s) \in Nat /\ DOMAIN s = 1 .. Len(s) /\ \A k \in 1 .. Len(s) : s[k] \in Tasks
  OBVIOUS
<1>2. DOMAIN d = 1 .. Len(s) + 1
  BY DEF Inserted
<1>3. ASSUME NEW k \in DOMAIN d
      PROVE  /\ k < n => d[k] = s[k] /\ k \in DOMAIN s
             /\ k = n => d[k] = t
             /\ k > n => d[k] = s[k - 1] /\ k - 1 \in DOMAIN s
  BY <1>1, <1>2 DEF Inserted
<1>4. d \in [1 .. Len(s) + 1 -> Tasks]
  <2>1. \A k \in 1 .. Len(s) + 1 : d[k] \in Tasks
    BY <1>1, <1>2, <1>3
  <2>2. d = [k \in 1 .. Len(s) + 1 |-> d[k]]
    BY DEF Inserted
  <2> HIDE DEF d
  <2> QED BY <2>1, <2>2
<1> HIDE DEF d
<1>5. ASSUME NEW k \in DOMAIN s PROVE \E m \in DOMAIN d : k <= m /\ d[m] = s[k]
  <2>1. CASE k < n
    BY <1>1, <1>2, <1>3, <2>1
  <2>2. CASE k >= n
    <3>1. k + 1 \in DOMAIN d /\ k + 1 > n /\ (k + 1) - 1 = k /\ k <= k + 1
      BY <1>1, <1>2, <2>2
    <3> QED BY <1>3, <3>1
  <2> QED BY <1>1, <2>1, <2>2
<1>6. ASSUME Injective(s), t \notin Elements(s) PROVE Injective(d)
  <2>1. \A k \in DOMAIN s : s[k] # t
    BY <1>6 DEF Elements
  <2>2. ASSUME NEW j \in DOMAIN d, NEW k \in DOMAIN d, d[j] = d[k] PROVE ~ (j < k)
    <3> SUFFICES ASSUME j < k PROVE FALSE
      OBVIOUS
    <3>1. j \in Nat /\ k \in Nat /\ n \in Nat
      BY <1>1, <1>2
    <3>2. CASE k < n
      <4>1. d[j] = s[j] /\ d[k] = s[k] /\ j \in DOMAIN s /\ k \in DOMAIN s
        <5>1. j < n
          BY <3>1, <3>2
        <5> QED BY <1>3, <3>2, <5>1
      <4>2. s[j] = s[k]
        BY <2>2, <4>1
      <4>3. j = k
        BY <1>6, <4>1, <4>2 DEF Injective
      <4> QED BY <3>1, <4>3
    <3>3. CASE k = n
      <4>1. d[j] = s[j] /\ d[k] = t /\ j \in DOMAIN s
        BY <1>3, <3>1, <3>3
      <4> QED BY <2>1, <2>2, <4>1
    <3>4. CASE k > n
      <4>1. d[k] = s[k - 1] /\ k - 1 \in DOMAIN s
        BY <1>3, <3>4
      <4>2. CASE j < n
        <5>1. d[j] = s[j] /\ j \in DOMAIN s
          BY <1>3, <4>2
        <5>2. j = k - 1
          BY <1>6, <2>2, <4>1, <5>1 DEF Injective
        <5> QED BY <3>1, <3>4, <4>2, <5>2
      <4>3. CASE j = n
        BY <1>3, <2>1, <2>2, <4>1, <4>3
      <4>4. CASE j > n
        <5>1. d[j] = s[j - 1] /\ j - 1 \in DOMAIN s
          BY <1>3, <4>4
        <5>2. j - 1 = k - 1
          BY <1>6, <2>2, <4>1, <5>1 DEF Injective
        <5> QED BY <3>1, <5>2
      <4> QED BY <3>1, <4>2, <4>3, <4>4
    <3> QED BY <3>1, <3>2, <3>3, <3>4
  <2> SUFFICES ASSUME NEW j \in DOMAIN d, NEW k \in DOMAIN d, d[j] = d[k] PROVE j = k
    BY DEF Injective
  <2>3. ~ (j < k) /\ ~ (k < j) /\ j \in Nat /\ k \in Nat
    BY <1>1, <1>2, <2>2
  <2> QED BY <2>3
<1> QED BY <1>1, <1>4, <1>5, <1>6 DEF d

LEMMA CreateInv == ASSUME IInv, NEW t \in Tasks, Create(t) PROVE IInv'
<1>1. PICK k \in 1 .. Len(Table) + 1 : Change(Inserted(Table, k, t))
  BY DEF Create
<1> DEFINE ids == Inserted(Table, k, t)
           n == Len(Table) + 1
<1>2. /\ n \in Nat /\ ids \in [1 .. n -> Tasks] /\ Injective(ids)
      /\ \A j \in DOMAIN Table : \E m \in DOMAIN ids : j <= m /\ ids[m] = Table[j]
  BY NowIsLast, InsertedMoves DEF Create
<1> HIDE DEF ids, n
<1>3. n <= Cardinality(Tasks)
  BY <1>2, InjectiveIsShort
<1>4. ids \in IdLists /\ Len(ids) = n
  BY <1>2, <1>3, CardType, IsIdList
<1>5. HistoryInv(Append(tables, ids))
  <2>1. /\ Len(ids) = Len(tables[Len(tables)]) + 1
        /\ \A j \in DOMAIN tables[Len(tables)] :
              \E m \in DOMAIN ids : j <= m /\ ids[m] = tables[Len(tables)][j]
    BY <1>2, <1>4 DEF n, Table, Now
  <2> QED BY <1>2, <1>4, <2>1, HistoryGoesOn DEF IInv
<1>6. tables' = Append(tables, ids) /\ UNCHANGED <<limit, cache, request, walk>>
  BY <1>1 DEF Create, Change, ids
<1> QED BY <1>4, <1>5, <1>6, ChangeInv

LEMMA RemoveInv == ASSUME IInv, NEW t \in Tasks, Remove(t) PROVE IInv'
<1> DEFINE others == Tasks \ {t}
           ids == KeptOf(Table, others)
<1> HIDE DEF others
<1>1. /\ ids \in Seq(Tasks) /\ Len(ids) <= Len(Table) /\ Injective(ids)
      /\ \A n \in DOMAIN ids : \E m \in DOMAIN Table : n <= m /\ Table[m] = ids[n]
  <2>1. Table \in Seq(Tasks) /\ Injective(Table)
    BY NowIsLast
  <2>2. /\ ids \in Seq(Tasks) /\ Len(ids) <= Len(Table)
        /\ Injective(Table) => Injective(ids)
        /\ \A n \in DOMAIN ids : \E k \in DOMAIN Table : n <= k /\ ids[n] = Table[k]
    <3> HIDE DEF ids
    <3>1. ids = KeptOf(Table, others)
      BY DEF ids
    <3> QED BY <2>1, <3>1, KeptOfMoves
  <2> QED BY <2>1, <2>2
<1> HIDE DEF ids
<1>2. ids \in IdLists
  <2>1. ids \in [1 .. Len(ids) -> Tasks] /\ Len(ids) \in 0 .. Cardinality(Tasks)
    BY <1>1, NowIsLast, CardType
  <2> QED BY <2>1, IsIdList
<1>3. HistoryInv(Append(tables, ids))
  <2>1. /\ Len(ids) <= Len(tables[Len(tables)])
        /\ \A n \in DOMAIN ids : \E m \in DOMAIN tables[Len(tables)] :
              n <= m /\ tables[Len(tables)][m] = ids[n]
    BY <1>1 DEF Table, Now
  <2> QED BY <1>1, <1>2, <2>1, HistoryGoesOn DEF IInv
<1>4. tables' = Append(tables, ids) /\ UNCHANGED <<limit, cache, request, walk>>
  BY DEF Remove, Change, ids, others
<1> QED BY <1>2, <1>3, <1>4, ChangeInv

LEMMA WalkStepInv == ASSUME IInv, Walk PROVE IInv'
<1>1. walk \in Seq(Answer) /\ request.pc = "idle" /\ request \in RequestType
  BY DEF IInv, WalkInv, RequestInv, Walk, Ask
<1>2. PICK page \in Pages : Ask(page) /\ page = Len(walk) + 1 /\ (walk # <<>> => walk[Len(walk)].next)
  <2>1. CASE walk = <<>>
    <3>1. 1 \in Pages /\ Len(walk) = 0
      BY <2>1, CardType DEF Pages
    <3>2. Ask(1)
      BY <2>1, RawAssumption DEF Walk
    <3> QED BY <2>1, <3>1, <3>2
  <2>2. CASE walk # <<>>
    <3>1. walk[Len(walk)].next /\ Ask(walk[Len(walk)].page + 1)
      BY <2>2 DEF Walk
    <3>2. Len(walk) \in Nat /\ Len(walk) \in DOMAIN walk
      BY <2>2, <1>1
    <3>3. AnswerInv(tables, limit, walk[Len(walk)]) /\ walk[Len(walk)].page = Len(walk)
      BY <3>2 DEF IInv, WalkInv
    <3>4. Len(walk) + 1 \in Pages
      BY <3>1, <3>2, <3>3, CardType DEF AnswerInv, Pages
    <3> QED BY <3>1, <3>3, <3>4
  <2> QED BY <2>1, <2>2
<1>3. RequestInv(tables, limit, walk, request')
  <2>1. request' \in RequestType /\ request'.pc = "lookup" /\ request'.page = page
    BY <1>1, <1>2 DEF Ask, RequestType
  <2> QED BY <1>2, <2>1 DEF RequestInv
<1>4. UNCHANGED <<tables, limit, cache, walk>>
  BY <1>2 DEF Ask
<1> QED BY <1>3, <1>4 DEF IInv

LEMMA StartOverInv == ASSUME IInv, StartOver PROVE IInv'
<1>1. RequestInv(tables, limit, walk', request)
  BY DEF StartOver, IInv, RequestInv
<1>2. WalkInv(tables, limit, walk')
  <2>1. walk' = <<>> /\ walk' \in Seq(Answer) /\ DOMAIN walk' = {}
    BY DEF StartOver
  <2> QED BY <2>1 DEF WalkInv, Sorted
<1> QED BY <1>1, <1>2 DEF StartOver, IInv

\* An answer ends the request and is the next page of the walk.
LEMMA DeliverInv ==
    ASSUME IInv, request.pc # "idle", NEW a, AnswerInv(tables, limit, a), a.page = request.page,
           Deliver(a), UNCHANGED <<tables, limit>>
    PROVE  WalkInv(tables, limit, walk') /\ RequestInv(tables, limit, walk', request')
<1>1. a.page = Len(walk) + 1
  BY DEF IInv, RequestInv
<1>2. WalkInv(tables, limit, walk')
  BY <1>1, WalkGoesOn, NowIsLast DEF IInv, Deliver
<1>3. RequestInv(tables, limit, walk', request')
  BY DEF Deliver, Idle, RequestInv, RequestType
<1> QED BY <1>2, <1>3

LEMMA FindCachedInv == ASSUME IInv, FindCached PROVE IInv'
<1>1. request.pc = "lookup" /\ request.page \in Pages
  BY DEF FindCached, IInv, RequestInv
<1>2. AnswerInv(tables, limit, cache[request.page]) /\ cache[request.page].page = request.page
  BY <1>1 DEF FindCached, IInv, CacheInv
<1> QED BY <1>1, <1>2, DeliverInv DEF FindCached, IInv

LEMMA Slice ==
    ASSUME NEW t \in Seq(Tasks), NEW s \in Nat, NEW b \in Nat, b <= Len(t)
    PROVE  LET d == SubSeq(t, s + 1, b)
           IN  /\ d \in Seq(Tasks) /\ Len(d) = (IF s + 1 <= b THEN b - s ELSE 0)
               /\ \A j \in 1 .. b - s : d[j] = t[s + j]
<1> DEFINE a == s + 1
           d == SubSeq(t, a, b)
<1>1. a \in Int /\ b \in Int /\ \A i \in a .. b : t[i] \in Tasks
  OBVIOUS
<1>2. b - a + 1 = b - s /\ \A j \in 1 .. b - s : a + j - 1 = s + j
  OBVIOUS
<1> HIDE DEF a
<1>3. /\ d \in Seq(Tasks) /\ Len(d) = (IF a <= b THEN b - a + 1 ELSE 0)
      /\ \A j \in 1 .. b - a + 1 : d[j] = t[a + j - 1]
  BY <1>1, SubSeqProperties
<1> HIDE DEF d
<1>4. /\ d \in Seq(Tasks) /\ Len(d) = (IF a <= b THEN b - s ELSE 0)
      /\ \A j \in 1 .. b - s : d[j] = t[s + j]
  BY <1>2, <1>3
<1> QED BY <1>4 DEF d, a

\* OFFSET and LIMIT take a slice of the table.
LEMMA TakenIs ==
    ASSUME IInv, NEW p \in Nat \ {0}
    PROVE  /\ Taken(p) \in IdLists /\ Skip(p, limit) \in Nat
           /\ Len(Taken(p)) <= limit
           /\ \A j \in DOMAIN Taken(p) :
                 Skip(p, limit) + j \in DOMAIN Table /\ Taken(p)[j] = Table[Skip(p, limit) + j]
           /\ \A j \in 1 .. limit : Skip(p, limit) + j \in DOMAIN Table => j \in DOMAIN Taken(p)
<1> DEFINE s == Skip(p, limit)
           n == Len(Table)
           last == IF s + limit < n THEN s + limit ELSE n
           d == SubSeq(Table, s + 1, last)
<1>1. /\ n \in Nat /\ n <= Cardinality(Tasks) /\ limit \in Nat \ {0} /\ DOMAIN Table = 1 .. n
      /\ Table \in Seq(Tasks)
  BY NowIsLast, CardType
<1>2. s \in Nat
  BY <1>1, SkipIs
<1> HIDE DEF s
<1>3. last \in Nat /\ last <= n /\ last - s <= limit
  BY <1>1, <1>2
<1>4. /\ d \in Seq(Tasks) /\ Len(d) = (IF s + 1 <= last THEN last - s ELSE 0)
      /\ \A j \in 1 .. last - s : d[j] = Table[s + j]
  BY <1>1, <1>2, <1>3, Slice
<1> HIDE DEF d, n
<1>5. ASSUME NEW j \in 1 .. limit, s + j \in 1 .. n PROVE j \in 1 .. last - s
  BY <1>1, <1>2, <1>5
<1>6. ASSUME NEW j \in 1 .. last - s PROVE s + j \in 1 .. n
  BY <1>1, <1>2
<1> HIDE DEF last
<1>7. DOMAIN d = 1 .. last - s /\ Len(d) <= limit /\ Len(d) \in 0 .. n
  <2>1. DOMAIN d = 1 .. Len(d) /\ Len(d) \in Nat
    BY <1>4
  <2>2. CASE s + 1 <= last
    BY <1>1, <1>2, <1>3, <1>4, <2>1, <2>2
  <2>3. CASE ~ (s + 1 <= last)
    BY <1>1, <1>2, <1>3, <1>4, <2>1, <2>3
  <2> QED BY <2>2, <2>3
<1>8. d \in IdLists
  <2>1. d \in [1 .. Len(d) -> Tasks] /\ Len(d) \in 0 .. Cardinality(Tasks)
    BY <1>1, <1>4, <1>7, CardType
  <2> QED BY <2>1, IsIdList
<1>9. d = Taken(p)
  BY DEF d, last, s, n, Taken, Rows
<1> QED BY <1>1, <1>2, <1>4, <1>5, <1>6, <1>7, <1>8, <1>9 DEF s

LEMMA QueryIdsInv == ASSUME IInv, QueryIds PROVE IInv'
<1> DEFINE p == request.page
           d == Taken(p)
<1>1. p \in Pages /\ p \in Nat \ {0} /\ request \in RequestType
      /\ p = Len(walk) + 1 /\ (walk # <<>> => walk[Len(walk)].next)
  BY CardType DEF QueryIds, IInv, RequestInv, Pages
<1> HIDE DEF p
<1>2. /\ d \in IdLists /\ Skip(p, limit) \in Nat /\ Len(d) <= limit /\ limit \in Nat
      /\ \A j \in DOMAIN d : Skip(p, limit) + j \in DOMAIN Table /\ d[j] = Table[Skip(p, limit) + j]
      /\ \A j \in 1 .. limit : Skip(p, limit) + j \in DOMAIN Table => j \in DOMAIN d
  BY <1>1, TakenIs, NowIsLast
<1> HIDE DEF d
<1>3. DataInv(tables, limit, d, p, Now, Now)
  <2>1. DOMAIN d = 1 .. Len(d) /\ Len(d) \in Nat
    BY <1>2, IdListType, CardType
  <2>2. InPlace(tables, limit, d, p, Now)
    <3>1. \A j \in DOMAIN d : j \in j .. limit
      BY <1>2, <2>1
    <3> QED BY <1>2, <3>1 DEF InPlace, Table
  <2>3. Complete(tables, limit, d, p, Now)
    BY <1>2 DEF Complete, Table
  <2>4. Now \in 1 .. Len(tables) /\ Now \in 1 .. Now
    BY NowIsLast
  <2> QED BY <1>1, <1>2, <2>2, <2>3, <2>4 DEF DataInv
<1>4. RequestInv(tables, limit, walk, request')
  <2>1. /\ request'.pc = "rows" /\ request'.page = p /\ request'.data = d /\ request'.from = Now
        /\ request' \in RequestType
    BY <1>1, <1>2, NowIsLast DEF QueryIds, RequestType, p, d
  <2> QED BY <1>1, <1>3, <2>1 DEF RequestInv, Now
<1> QED BY <1>4 DEF QueryIds, IInv

\* The rows that are gone leave no gap; when none is gone, all stay in their place.
LEMMA QueryRowsInv == ASSUME IInv, QueryRows PROVE IInv'
<1> DEFINE p == request.page
           f == request.from
           d == request.data
           e == KeptOf(d, Elements(Table))
<1>1. /\ request \in RequestType /\ DataInv(tables, limit, d, p, f, Now)
      /\ p = Len(walk) + 1 /\ (walk # <<>> => walk[Len(walk)].next)
  BY DEF QueryRows, IInv, RequestInv, Now
<1> HIDE DEF p, f, d
<1>2. d \in Seq(Tasks) /\ Len(d) \in 0 .. Cardinality(Tasks) /\ limit \in Nat
  BY <1>1, IdListType, NowIsLast DEF DataInv
<1>3. /\ e \in Seq(Tasks) /\ Len(e) <= Len(d)
      /\ \A n \in DOMAIN e : \E k \in DOMAIN d : n <= k /\ e[n] = d[k]
      /\ Elements(d) \subseteq Elements(Table) => e = d
  <2> DEFINE S == Elements(Table)
  <2> HIDE DEF S
  <2>1. e = KeptOf(d, S)
    BY DEF S
  <2> HIDE DEF e
  <2> SUFFICES /\ e \in Seq(Tasks) /\ Len(e) <= Len(d)
               /\ \A n \in DOMAIN e : \E k \in DOMAIN d : n <= k /\ e[n] = d[k]
               /\ Elements(d) \subseteq S => e = d
    BY DEF S
  <2> QED BY <1>2, <2>1, KeptOfMoves
<1> HIDE DEF e
<1>4. e \in IdLists
  <2>1. e \in [1 .. Len(e) -> Tasks] /\ Len(e) \in 0 .. Cardinality(Tasks)
    BY <1>2, <1>3, CardType
  <2> QED BY <2>1, IsIdList
<1>5. InPlace(tables, limit, e, p, f)
  <2> SUFFICES ASSUME NEW n \in DOMAIN e
               PROVE  \E i \in n .. limit :
                         Skip(p, limit) + i \in DOMAIN tables[f] /\ tables[f][Skip(p, limit) + i] = e[n]
    BY DEF InPlace
  <2>1. PICK k \in DOMAIN d : n <= k /\ e[n] = d[k]
    BY <1>3
  <2>2. PICK i \in k .. limit :
           Skip(p, limit) + i \in DOMAIN tables[f] /\ tables[f][Skip(p, limit) + i] = d[k]
    BY <1>1 DEF DataInv, InPlace
  <2>3. i \in n .. limit
    BY <2>1, <2>2, <1>2, <1>3
  <2> QED BY <2>1, <2>2, <2>3
<1>6. ASSUME Creates(tables, f, Now) PROVE e = d
  <2>1. HistoryInv(tables) /\ f \in 1 .. Now /\ Now \in 1 .. Len(tables)
    BY <1>1, NowIsLast DEF DataInv, IInv
  <2>2. ASSUME NEW k \in DOMAIN d PROVE d[k] \in Elements(Table)
    <3>1. PICK i \in DOMAIN tables[f] : tables[f][i] = d[k]
      BY <1>1 DEF DataInv, InPlace
    <3>2. PICK j \in DOMAIN tables[Now] : tables[Now][j] = tables[f][i]
      BY <2>1, <1>6, CreatedMoves
    <3> QED BY <3>1, <3>2 DEF Elements, Table
  <2> QED BY <2>2, <1>3 DEF Elements
<1>7. DataInv(tables, limit, e, p, f, Now)
  BY <1>1, <1>4, <1>5, <1>6 DEF DataInv
<1>8. RequestInv(tables, limit, walk, request')
  <2>1. /\ request'.pc = "count" /\ request'.page = p /\ request'.data = e /\ request'.from = f
        /\ request' \in RequestType
    BY <1>1, <1>4 DEF QueryRows, RequestType, p, d, e, f
  <2>2. p \in Pages
    BY <1>1 DEF DataInv
  <2> QED BY <1>1, <1>7, <2>1, <2>2 DEF RequestInv, Now
<1> QED BY <1>8 DEF QueryRows, IInv

\* Whichever way the total is found, it tells the last page.
LEMMA TotalTells ==
    ASSUME IInv, request.pc = "count"
    PROVE  LET p == request.page
               f == request.from
           IN  /\ ~ HasNextPage(p, Total, limit) /\ Creates(tables, f, Now) => Len(tables[f]) <= p * limit
               /\ HasNextPage(p, Total, limit) => p <= Cardinality(Tasks)
<1> DEFINE p == request.page
           f == request.from
           d == request.data
           s == Skip(p, limit)
           total == Total
<1>1. DataInv(tables, limit, d, p, f, Now)
  BY DEF IInv, RequestInv, Now
<1>0. \/ total = Len(Table)
      \/ /\ total = s + Len(d) /\ Len(d) # limit
         /\ d = <<>> => ~ (s > 0)
  BY DEF Total, Counted
<1> HIDE DEF p, f, d, total
<1>2. /\ f \in 1 .. Now /\ f \in 1 .. Len(tables) /\ Now \in 1 .. Len(tables)
      /\ p \in Nat \ {0} /\ limit \in Nat \ {0} /\ HistoryInv(tables) /\ d \in IdLists
  BY <1>1, NowIsLast, CardType DEF DataInv, Pages, IInv
<1>3. Len(tables[f]) \in 0 .. Cardinality(Tasks) /\ DOMAIN tables[f] = 1 .. Len(tables[f])
  BY <1>2, HistoryFacts
<1>4. Len(Table) \in 0 .. Cardinality(Tasks) /\ Cardinality(Tasks) \in Nat
  BY NowIsLast, CardType
<1>5. s \in Nat /\ s + limit = p * limit
  BY <1>2, SkipIs
<1>6. CASE total = Len(Table)
  <2>1. Creates(tables, f, Now) => Len(tables[f]) <= Len(Table)
    BY <1>2, CreatedMoves DEF Table
  <2>2. /\ ~ HasNextPage(p, total, limit) => total <= p * limit
        /\ HasNextPage(p, total, limit) => p < total
    BY <1>2, <1>4, <1>6, LastPage
  <2>3. p * limit \in Nat
    BY <1>2
  <2> QED BY <1>2, <1>3, <1>4, <1>6, <2>1, <2>2, <2>3 DEF p, f, total
<1>7. CASE total = s + Len(d) /\ Len(d) # limit /\ (d = <<>> => ~ (s > 0))
  <2>1. Len(d) \in Nat /\ DOMAIN d = 1 .. Len(d)
    BY <1>2, IdListType, CardType
  <2>2. Len(d) <= limit
    <3> SUFFICES ASSUME Len(d) # 0 PROVE Len(d) <= limit
      BY <1>2, <2>1
    <3>1. PICK i \in Len(d) .. limit : TRUE
      BY <1>1, <2>1 DEF DataInv, InPlace
    <3> QED BY <3>1, <1>2, <2>1
  <2>3. total <= Cardinality(Tasks) /\ total \in Nat
    <3>1. CASE Len(d) = 0
      <4>1. d = <<>>
        BY <1>2, <3>1, IdListType
      <4> QED BY <4>1, <3>1, <1>4, <1>5, <1>7
    <3>2. CASE Len(d) # 0
      <4>1. Len(d) \in DOMAIN d
        BY <2>1, <3>2
      <4>2. PICK i \in Len(d) .. limit : s + i \in DOMAIN tables[f]
        BY <1>1, <4>1 DEF DataInv, InPlace
      <4>3. i \in Nat /\ Len(d) <= i /\ s + i <= Cardinality(Tasks)
        BY <4>2, <1>2, <1>3, <1>4, <1>5, <2>1
      <4> QED BY <4>3, <1>4, <1>5, <1>7, <2>1
    <3> QED BY <3>1, <3>2
  <2>4. HasNextPage(p, total, limit) => p < total
    BY <1>2, <2>3, LastPage
  <2>5. Creates(tables, f, Now) => Len(tables[f]) <= p * limit
    <3> SUFFICES ASSUME Creates(tables, f, Now), s + limit \in DOMAIN tables[f] PROVE FALSE
      BY <1>3, <1>5, <1>4, <1>2
    <3>1. limit \in DOMAIN d
      BY <1>1, <1>2 DEF DataInv, Complete
    <3> QED BY <3>1, <1>2, <1>7, <2>1, <2>2
  <2> QED BY <1>2, <1>4, <2>3, <2>4, <2>5 DEF p, f, total
<1> QED BY <1>0, <1>6, <1>7 DEF p, d, s, f, total

LEMMA CountAndFillInv == ASSUME IInv, CountAndFill PROVE IInv'
<1> DEFINE p == request.page
           f == request.from
           d == request.data
<1>1. DataInv(tables, limit, d, p, f, Now) /\ request.pc = "count"
  BY DEF IInv, RequestInv, Now, CountAndFill
<1> DEFINE more == HasNextPage(p, Total, limit)
           answer == [data |-> d, page |-> p, next |-> more, from |-> f, to |-> Now]
<1>2. /\ ~ more /\ Creates(tables, f, Now) => Len(tables[f]) <= p * limit
      /\ more => p <= Cardinality(Tasks)
  BY <1>1, TotalTells
<1>4. Deliver(answer) /\ (cache' = [cache EXCEPT ![p] = answer] \/ UNCHANGED cache)
      /\ UNCHANGED <<tables, limit>>
  BY DEF CountAndFill
<1>5. more \in BOOLEAN
  BY DEF HasNextPage
<1> HIDE DEF more, p, f, d
<1>6. AnswerInv(tables, limit, answer)
  <2>1. d \in IdLists /\ p \in Pages /\ f \in Nat /\ Now \in Nat
    BY <1>1, NowIsLast DEF DataInv
  <2>2. answer \in Answer
    BY <1>5, <2>1 DEF Answer
  <2> QED BY <1>1, <1>2, <2>2 DEF AnswerInv
<1>7. answer.page = p
  OBVIOUS
<1> HIDE DEF answer
<1>8. CacheInv(tables, limit, cache')
  <2>1. CASE UNCHANGED cache
    BY <2>1 DEF IInv
  <2>2. CASE cache' = [cache EXCEPT ![p] = answer]
    BY <1>6, <1>7, <2>2 DEF IInv, CacheInv, AnswerInv
  <2> QED BY <1>4, <2>1, <2>2
<1>9. WalkInv(tables, limit, walk') /\ RequestInv(tables, limit, walk', request')
  BY <1>1, <1>4, <1>6, <1>7, DeliverInv DEF p
<1> QED BY <1>4, <1>8, <1>9 DEF IInv

LEMMA ExpireInv == ASSUME IInv, NEW p \in Pages, Expire(p) PROVE IInv'
BY DEF Expire, IInv, CacheInv

LEMMA InvariantStep == ASSUME IInv, [Next]_vars PROVE IInv'
<1>1. CASE UNCHANGED vars
  BY <1>1 DEF vars, IInv
<1>2. CASE Next
  BY <1>2, CreateInv, RemoveInv, WalkStepInv, StartOverInv, FindCachedInv, QueryIdsInv, QueryRowsInv,
     CountAndFillInv, ExpireInv DEF Next
<1> QED BY <1>1, <1>2

THEOREM Invariant == Spec => []IInv
BY InitInv, InvariantStep, PTL DEF Spec

-----------------------------------------------------------------------------
(* What a client can rely on                                               *)

LEMMA PageFacts ==
    ASSUME IInv
    PROVE  /\ walk \in Seq(Answer) /\ Len(walk) \in Nat /\ DOMAIN walk = 1 .. Len(walk)
           /\ walk # <<>> => Len(walk) # 0
           /\ Ordered(walk) => Sorted(walk)
           /\ \A k \in 1 .. Len(walk) :
                 /\ walk[k].page = k
                 /\ walk[k].to \in 1 .. Now /\ walk[k].from \in 1 .. walk[k].to
                 /\ walk[k].from \in 1 .. Now
                 /\ DataInv(tables, limit, walk[k].data, k, walk[k].from, walk[k].to)
<1>1. walk \in Seq(Answer)
  BY DEF IInv, WalkInv
<1>2. ASSUME NEW k \in 1 .. Len(walk)
      PROVE  /\ walk[k].page = k
             /\ walk[k].to \in 1 .. Now /\ walk[k].from \in 1 .. walk[k].to
             /\ walk[k].from \in 1 .. Now
             /\ DataInv(tables, limit, walk[k].data, k, walk[k].from, walk[k].to)
  <2>1. AnswerInv(tables, limit, walk[k]) /\ walk[k].page = k
    BY <1>1 DEF IInv, WalkInv
  <2>2. /\ walk[k].to \in 1 .. Now /\ walk[k].from \in 1 .. walk[k].to
        /\ DataInv(tables, limit, walk[k].data, walk[k].page, walk[k].from, walk[k].to)
    BY <2>1, AnswerFacts DEF Now
  <2>3. walk[k].from \in 1 .. Now
    BY <2>2, NowIsLast
  <2> QED BY <2>1, <2>2, <2>3
<1> QED BY <1>1, <1>2 DEF IInv, WalkInv

\* A walk that is over, and without a removal, has collected all of its first state.
LEMMA SteadyWalkEnds ==
    ASSUME IInv, Done, Steady(tables, walk)
    PROVE  Elements(tables[First]) \subseteq Collected
<1> DEFINE n == Len(walk)
           g == walk[n].from
<1>1. n \in Nat \ {0} /\ 1 \in 1 .. n /\ n \in 1 .. n /\ walk # <<>> /\ DOMAIN walk = 1 .. n
  BY PageFacts DEF Done
<1>2. First \in 1 .. Now /\ g \in 1 .. Now /\ First \in 1 .. g /\ Now = Len(tables)
  <2>1. Sorted(walk)
    BY PageFacts DEF Steady
  <2>2. First <= g
    BY <1>1, <2>1 DEF Sorted, First
  <2>3. First \in 1 .. Now /\ g \in 1 .. Now
    BY <1>1, PageFacts DEF First
  <2> QED BY <2>2, <2>3, NowIsLast DEF Now
<1>3. Creates(tables, First, g)
  BY DEF Steady, First
<1>4. Len(tables[g]) <= n * limit
  <2>1. AnswerInv(tables, limit, walk[n]) /\ walk[n].page = n /\ ~ walk[n].next
    BY <1>1 DEF IInv, WalkInv, Done
  <2>2. Creates(tables, g, walk[n].to)
    BY <1>1 DEF Steady
  <2> QED BY <2>1, <2>2 DEF AnswerInv
<1>5. Reached(tables, limit, walk)
  BY <1>1 DEF IInv, WalkInv
<1> HIDE DEF n, g
<1>6. ASSUME NEW i \in DOMAIN tables[First] PROVE tables[First][i] \in Collected
  <2> SUFFICES ASSUME NEW m \in DOMAIN tables[g], m > n * limit PROVE FALSE
    BY <1>5 DEF Reached, Collected, CollectedIn, First, n, g
  <2>1. Len(tables[g]) \in Nat /\ DOMAIN tables[g] = 1 .. Len(tables[g])
    BY <1>2, HistoryFacts, CardType DEF IInv
  <2>2. n * limit \in Nat
    BY <1>1, NowIsLast
  <2> QED BY <1>4, <2>1, <2>2
<1> QED BY <1>6 DEF Elements

\* The row at place j of a page that saw no removal is at place j of the page's slice.
LEMMA RowsAreInPlace ==
    ASSUME IInv, NEW k \in 1 .. Len(walk), NEW j \in DOMAIN walk[k].data,
           Creates(tables, walk[k].from, walk[k].to)
    PROVE  LET x == (k - 1) * limit + j
           IN  x \in DOMAIN tables[walk[k].from] /\ tables[walk[k].from][x] = walk[k].data[j]
<1> DEFINE d == walk[k].data
           f == walk[k].from
           s == (k - 1) * limit
<1>1. DataInv(tables, limit, d, k, f, walk[k].to) /\ f \in 1 .. Now
  BY PageFacts
<1>2. InPlace(tables, limit, d, k, f) /\ Complete(tables, limit, d, k, f) /\ d \in IdLists
  BY <1>1 DEF DataInv
<1>3. s \in Nat /\ s = Skip(k, limit) /\ limit \in Nat
  BY NowIsLast DEF Skip
<1> HIDE DEF d, f, s
<1>4. PICK i \in j .. limit : s + i \in DOMAIN tables[f] /\ tables[f][s + i] = d[j]
  BY <1>2, <1>3 DEF InPlace, d
<1>5. j \in Nat \ {0}
  BY <1>2, IdListType, CardType DEF d
<1>6. Len(tables[f]) \in Nat /\ DOMAIN tables[f] = 1 .. Len(tables[f])
  BY <1>1, HistoryFacts, CardType DEF IInv, Now, f
<1>7. s + j \in DOMAIN tables[f] /\ j \in 1 .. limit
  BY <1>3, <1>4, <1>5, <1>6
<1>8. tables[f][s + j] = d[j]
  BY <1>2, <1>3, <1>7 DEF Complete
<1> QED BY <1>7, <1>8 DEF d, f, s

LEMMA OneState == ASSUME IInv PROVE WalkOfOneStateIsTheList
<1> SUFFICES ASSUME Done, Unchanged
             PROVE  /\ Collected = Elements(tables[First])
                    /\ \A k \in DOMAIN walk : \A j \in DOMAIN walk[k].data :
                          tables[First][(k - 1) * limit + j] = walk[k].data[j]
  BY DEF WalkOfOneStateIsTheList
<1>1. /\ Len(walk) \in Nat \ {0} /\ DOMAIN walk = 1 .. Len(walk) /\ First \in Nat
      /\ \A k \in 1 .. Len(walk) : walk[k].from = First /\ walk[k].to = First
  BY PageFacts DEF Done, Unchanged
<1>2. Creates(tables, First, First)
  BY <1>1 DEF Creates
<1>3. Steady(tables, walk)
  <2>1. \A k \in 1 .. Len(walk) - 1 : k \in 1 .. Len(walk) /\ k + 1 \in 1 .. Len(walk)
    BY <1>1
  <2>2. Ordered(walk)
    BY <1>1, <2>1 DEF Ordered
  <2> QED BY <1>1, <1>2, <2>2 DEF Steady
<1>4. ASSUME NEW k \in DOMAIN walk, NEW j \in DOMAIN walk[k].data
      PROVE  /\ (k - 1) * limit + j \in DOMAIN tables[First]
             /\ tables[First][(k - 1) * limit + j] = walk[k].data[j]
  BY <1>1, <1>2, RowsAreInPlace
<1>5. Collected \subseteq Elements(tables[First])
  BY <1>4 DEF Collected, Elements
<1> QED BY <1>3, <1>4, <1>5, SteadyWalkEnds

LEMMA NoneHidden == ASSUME IInv PROVE CreationsHideNothing
<1> SUFFICES ASSUME Done, InOrder, OnlyCreated PROVE Elements(tables[First]) \subseteq Collected
  BY DEF CreationsHideNothing
<1>1. Ordered(walk) /\ Creates(tables, First, Now)
  BY DEF InOrder, Ordered, OnlyCreated, Creates
<1>2. Len(walk) \in Nat \ {0} /\ DOMAIN walk = 1 .. Len(walk) /\ Now \in Nat
  BY PageFacts, NowIsLast DEF Done
<1>3. ASSUME NEW k \in 1 .. Len(walk)
      PROVE  /\ First \in Nat /\ walk[k].from \in Nat /\ walk[k].to \in Nat
             /\ First <= walk[k].from /\ walk[k].from <= Now /\ walk[k].to <= Now
  <2>1. 1 \in 1 .. k /\ 1 \in 1 .. Len(walk)
    BY <1>2
  <2>2. First <= walk[k].from
    BY <1>1, <1>2, <2>1, PageFacts DEF Sorted, First
  <2> QED BY <1>2, <2>1, <2>2, PageFacts DEF First
<1>4. Creates(tables, First, walk[Len(walk)].from)
  BY <1>1, <1>2, <1>3 DEF Creates
<1>5. \A k \in DOMAIN walk : Creates(tables, walk[k].from, walk[k].to)
  BY <1>1, <1>2, <1>3 DEF Creates
<1>6. Steady(tables, walk)
  BY <1>1, <1>4, <1>5 DEF Steady, First
<1> QED BY <1>6, SteadyWalkEnds

\* A removal moves the rows that are left towards the front: off the pages to come.
LEMMA LaterPageIsOther ==
    ASSUME IInv, Ordered(walk), NEW k \in 1 .. Len(walk), NEW j \in 1 .. k - 1,
           Removes(tables, walk[j].from, walk[k].from)
    PROVE  Elements(walk[j].data) \cap Elements(walk[k].data) = {}
<1> DEFINE f == walk[j].from
           g == walk[k].from
<1>1. j \in 1 .. Len(walk) /\ j \in 1 .. k /\ j \in Nat \ {0} /\ k \in Nat \ {0} /\ j <= k - 1
  BY PageFacts
<1>2. /\ f \in 1 .. Now /\ g \in 1 .. Now /\ f \in 1 .. g
      /\ InPlace(tables, limit, walk[j].data, j, f) /\ InPlace(tables, limit, walk[k].data, k, g)
      /\ walk[j].data \in IdLists /\ walk[k].data \in IdLists
  <2>1. f <= g
    BY <1>1, PageFacts DEF Sorted
  <2>2. f \in 1 .. Now /\ g \in 1 .. Now /\ Now \in Nat
    BY <1>1, PageFacts, NowIsLast
  <2>3. f \in 1 .. g
    BY <2>1, <2>2
  <2> QED BY <1>1, <2>2, <2>3, PageFacts DEF DataInv
<1> HIDE DEF f, g
<1>3. MovedForward(tables, f, g) /\ Injective(tables[f])
  <2>1. f \in DOMAIN tables /\ g \in DOMAIN tables
    BY <1>2, HistoryFacts DEF IInv, Now
  <2> QED BY <1>2, <2>1 DEF IInv, HistoryInv, f, g
<1>4. Skip(j, limit) \in Nat /\ Skip(k, limit) \in Nat /\ Skip(j, limit) + limit <= Skip(k, limit)
      /\ limit \in Nat
  <2>1. limit \in Nat \ {0}
    BY NowIsLast
  <2>2. Skip(j, limit) + limit = j * limit
    BY <1>1, <2>1, SkipIs
  <2>3. j * limit <= (k - 1) * limit
    BY <1>1, <2>1
  <2>4. Skip(j, limit) \in Nat /\ Skip(k, limit) \in Nat /\ Skip(k, limit) = (k - 1) * limit
    BY <1>1, <2>1, SkipIs DEF Skip
  <2> QED BY <2>1, <2>2, <2>3, <2>4
<1>5. DOMAIN tables[f] \subseteq Nat /\ DOMAIN tables[g] \subseteq Nat
  BY <1>2, HistoryFacts, CardType DEF IInv, Now
<1> SUFFICES ASSUME NEW a \in DOMAIN walk[j].data, NEW b \in DOMAIN walk[k].data,
                    walk[j].data[a] = walk[k].data[b]
             PROVE  FALSE
  BY DEF Elements
<1>6. a \in Nat \ {0} /\ b \in Nat \ {0}
  BY <1>2, IdListType, CardType
<1>7. PICK i \in a .. limit :
         Skip(j, limit) + i \in DOMAIN tables[f] /\ tables[f][Skip(j, limit) + i] = walk[j].data[a]
  BY <1>2 DEF InPlace
<1>8. PICK h \in b .. limit :
         Skip(k, limit) + h \in DOMAIN tables[g] /\ tables[g][Skip(k, limit) + h] = walk[k].data[b]
  BY <1>2 DEF InPlace
<1>9. PICK m \in DOMAIN tables[f] :
         Skip(k, limit) + h <= m /\ tables[f][m] = tables[g][Skip(k, limit) + h]
  BY <1>3, <1>8 DEF MovedForward
<1>10. m = Skip(j, limit) + i
  BY <1>3, <1>7, <1>8, <1>9 DEF Injective
<1> QED BY <1>4, <1>5, <1>6, <1>7, <1>8, <1>9, <1>10

LEMMA NoneRepeated == ASSUME IInv PROVE RemovalsRepeatNothing
<1> SUFFICES ASSUME InOrder, walk # <<>> => OnlyRemoved, NEW j \in DOMAIN walk, NEW k \in DOMAIN walk, j # k
             PROVE  Elements(walk[j].data) \cap Elements(walk[k].data) = {}
  BY DEF RemovalsRepeatNothing
<1>1. Ordered(walk)
  BY DEF InOrder, Ordered
<1>2. DOMAIN walk = 1 .. Len(walk) /\ Len(walk) \in Nat /\ Now \in Nat
  BY PageFacts, NowIsLast
<1>3. Removes(tables, First, Now)
  BY <1>2 DEF OnlyRemoved, Removes
<1>4. ASSUME NEW b \in 1 .. Len(walk), NEW a \in 1 .. b - 1
      PROVE  Elements(walk[a].data) \cap Elements(walk[b].data) = {}
  <2>1. 1 \in 1 .. a /\ a \in 1 .. Len(walk) /\ 1 \in 1 .. Len(walk)
    BY <1>2
  <2>2. First <= walk[a].from /\ walk[a].from \in Nat /\ walk[b].from <= Now /\ First \in Nat
        /\ walk[b].from \in Nat
    <3>1. First <= walk[a].from
      BY <1>1, <1>2, <2>1, PageFacts DEF Sorted, First
    <3>2. First \in 1 .. Now /\ walk[a].from \in 1 .. Now /\ walk[b].from \in 1 .. Now
      BY <2>1, PageFacts DEF First
    <3> QED BY <1>2, <3>1, <3>2
  <2>3. Removes(tables, walk[a].from, walk[b].from)
    BY <1>2, <1>3, <2>2 DEF Removes
  <2> QED BY <1>1, <2>3, LaterPageIsOther
<1>5. j \in 1 .. k - 1 \/ k \in 1 .. j - 1
  BY <1>2
<1> QED BY <1>2, <1>4, <1>5

\* Tables, pages, the request and the walk keep their shapes, and a page has one
\* row at least and MaxLimit at most, whatever the client asks for.
THEOREM TypeTheorem == Spec => []TypeOK
<1>1. IInv => TypeOK
  BY CardType DEF IInv, HistoryInv, CacheInv, RequestInv, RequestType, WalkInv, TypeOK
<1> QED BY <1>1, Invariant, PTL

\* When all pages of a walk that is over show one state of the table, they are that
\* list, cut in pieces, for every length of the list and every limit.
THEOREM WalkTheorem == Spec => []WalkOfOneStateIsTheList
BY OneState, Invariant, PTL

\* However many tasks are created during a walk, in whichever query, and whichever
\* pages the cache gives in order, it returns every task that was there at its start.
THEOREM CreationsTheorem == Spec => []CreationsHideNothing
BY NoneHidden, Invariant, PTL

\* However many tasks are removed during a walk, no two of its pages, cached or not,
\* have a task in common.
THEOREM RemovalsTheorem == Spec => []RemovalsRepeatNothing
BY NoneRepeated, Invariant, PTL
=============================================================================
