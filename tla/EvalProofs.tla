----------------------------- MODULE EvalProofs -----------------------------
(***************************************************************************)
(* Proofs about Eval, for any datasets, answers and backends.              *)
(***************************************************************************)
EXTENDS Eval, LeastElements, SequenceTheorems, TLAPS

-----------------------------------------------------------------------------
(* The fold that ranks the hypotheses of an answer.                        *)

(* g is the function that the fold over raw evaluates at S.                *)
Folds(g, raw, S) ==
    g = [T \in SUBSET S |-> IF T = {} THEN << >>
                            ELSE Insert(g[T \ {Max(T)}], raw[Max(T)])]

LEMMA RankedDef ==
    ASSUME NEW a
    PROVE  Ranked(a) = (CHOOSE g : Folds(g, Raw(a), DOMAIN Raw(a)))[DOMAIN Raw(a)]
BY DEF Ranked, FoldLeft, MapThenFoldSet, Folds

(* A finite set of natural numbers.                                        *)
Positions(T) == T \subseteq Nat /\ IsFiniteSet(T)

LEMMA PositionsWithin ==
    ASSUME NEW S, Positions(S), NEW T, T \subseteq S
    PROVE  Positions(T)
BY FS_Subset DEF Positions

LEMMA MaxIn ==
    ASSUME NEW T, Positions(T), T # {}
    PROVE  Max(T) \in T /\ \A i \in T : i <= Max(T)
<1> DEFINE key == [i \in T |-> - i]
<1>1. key \in [T -> Int] /\ IsFiniteSet(T)
  BY DEF Positions
<1>2. PICK x \in T : \A y \in T : key[x] <= key[y]
  <2> HIDE DEF key
  <2> QED BY <1>1, LeastKey
<1>3. \A y \in T : x >= y
  BY <1>2 DEF Positions
<1> QED BY <1>3 DEF Max

(* Two such functions agree wherever both are defined.                     *)
LEMMA FoldsAgree ==
    ASSUME NEW raw, NEW S, NEW T, NEW g, NEW h, Folds(g, raw, S), Folds(h, raw, T),
           NEW U, Positions(U), U \subseteq S, U \subseteq T
    PROVE  g[U] = h[U]
<1> DEFINE bad == {V \in SUBSET U : g[V] # h[V]}
<1> SUFFICES ASSUME bad # {} PROVE FALSE
  OBVIOUS
<1>1. PICK B \in bad : \A C \in bad : C \subseteq B => C = B
  <2>1. bad \subseteq SUBSET U /\ IsFiniteSet(U)
    BY DEF Positions
  <2> HIDE DEF bad
  <2> QED BY <2>1, SmallestSubset
<1> DEFINE m == Max(B)
<1>2. /\ g[B] = IF B = {} THEN << >> ELSE Insert(g[B \ {m}], raw[m])
      /\ h[B] = IF B = {} THEN << >> ELSE Insert(h[B \ {m}], raw[m])
  BY <1>1 DEF Folds
<1>3. B # {}
  BY <1>1, <1>2
<1>4. m \in B
  BY <1>1, <1>3, MaxIn, PositionsWithin
<1> HIDE DEF m
<1>5. B \ {m} \notin bad /\ B \ {m} \in SUBSET U
  BY <1>1, <1>4
<1> QED BY <1>1, <1>2, <1>3, <1>5

(* There is such a function.                                               *)
LEMMA FoldsExist ==
    ASSUME NEW raw, NEW S, Positions(S)
    PROVE  \E g : Folds(g, raw, S)
<1> DEFINE bad == {T \in SUBSET S : ~ \E g : Folds(g, raw, T)}
<1> SUFFICES ASSUME bad # {} PROVE FALSE
  OBVIOUS
<1>1. PICK B \in bad : \A C \in bad : C \subseteq B => C = B
  <2>1. bad \subseteq SUBSET S /\ IsFiniteSet(S)
    BY DEF Positions
  <2> HIDE DEF bad
  <2> QED BY <2>1, SmallestSubset
<1> DEFINE Rest(T) == T \ {Max(T)}
           F(T) == CHOOSE g : Folds(g, raw, T)
           h == [T \in SUBSET B |-> IF T = {} THEN << >>
                                    ELSE Insert(F(Rest(T))[Rest(T)], raw[Max(T)])]
<1>2. ASSUME NEW T \in SUBSET B, T # {}
      PROVE  /\ Rest(T) \in SUBSET B /\ Rest(T) # B /\ Rest(T) \subseteq T
             /\ Positions(Rest(T))
  <2>1. Positions(T) /\ Positions(Rest(T))
    BY <1>1, PositionsWithin
  <2>2. Max(T) \in T
    BY <1>2, <2>1, MaxIn
  <2> QED BY <2>1, <2>2
<1>3. ASSUME NEW T \in SUBSET B, T # B PROVE Folds(F(T), raw, T)
  <2>1. \E g : Folds(g, raw, T)
    BY <1>1, <1>3
  <2> QED BY <2>1
<1>4. ASSUME NEW T \in SUBSET B, T # B PROVE h[T] = F(T)[T]
  <2>1. F(T)[T] = IF T = {} THEN << >> ELSE Insert(F(T)[Rest(T)], raw[Max(T)])
    <3>1. Folds(F(T), raw, T)
      BY <1>3, <1>4
    <3> HIDE DEF F
    <3> QED BY <3>1 DEF Folds
  <2>2. CASE T = {}
    BY <2>1, <2>2
  <2>3. CASE T # {}
    <3>1. /\ Rest(T) \in SUBSET B /\ Rest(T) # B /\ Rest(T) \subseteq T
          /\ Positions(Rest(T))
      BY <1>2, <2>3
    <3>2. Folds(F(T), raw, T) /\ Folds(F(Rest(T)), raw, Rest(T))
      BY <1>3, <1>4, <3>1
    <3> HIDE DEF F, Rest
    <3>3. F(T)[Rest(T)] = F(Rest(T))[Rest(T)]
      BY <3>1, <3>2, FoldsAgree
    <3> USE DEF Rest
    <3> QED BY <2>1, <2>3, <3>3
  <2> QED BY <2>2, <2>3
<1>5. ASSUME NEW T \in SUBSET B, T # {} PROVE F(Rest(T))[Rest(T)] = h[Rest(T)]
  <2>1. Rest(T) \in SUBSET B /\ Rest(T) # B
    BY <1>2, <1>5
  <2> HIDE DEF F, h, Rest
  <2> QED BY <1>4, <2>1
<1>6. Folds(h, raw, B)
  <2>1. h = [T \in SUBSET B |-> IF T = {} THEN << >>
                                ELSE Insert(F(Rest(T))[Rest(T)], raw[Max(T)])]
    OBVIOUS
  <2> HIDE DEF h, F
  <2>2. h = [T \in SUBSET B |-> IF T = {} THEN << >> ELSE Insert(h[Rest(T)], raw[Max(T)])]
    BY <1>5, <2>1
  <2> QED BY <2>2 DEF Folds
<1> QED BY <1>1, <1>6

LEMMA WithinInterval ==
    ASSUME NEW n \in Nat, NEW T, T \subseteq 1..n
    PROVE  Cardinality(T) \in 0..n /\ (Cardinality(T) = 0 <=> T = {})
<1>1. IsFiniteSet(1..n) /\ Cardinality(1..n) = n
  BY FS_Interval
<1>2. IsFiniteSet(T) /\ Cardinality(T) \in Nat /\ Cardinality(T) <= Cardinality(1..n)
  BY <1>1, FS_Subset, FS_CardinalityType
<1>3. Cardinality(T) = 0 <=> T = {}
  BY <1>2, FS_EmptySet
<1> QED BY <1>1, <1>2, <1>3

(* Inserting moves what comes behind by one place.                         *)
LEMMA InsertAtIs ==
    ASSUME NEW S, NEW r \in Seq(S), NEW h \in S, NEW p \in 1..Len(r) + 1
    PROVE  /\ InsertAt(r, p, h) \in Seq(S)
           /\ Len(InsertAt(r, p, h)) = Len(r) + 1
           /\ \A i \in 1..Len(r) + 1 :
                InsertAt(r, p, h)[i] = IF i < p THEN r[i] ELSE IF i = p THEN h ELSE r[i - 1]
<1> DEFINE front == SubSeq(r, 1, p - 1)
           back == SubSeq(r, p, Len(r))
<1>1. Len(r) \in Nat /\ \A i \in 1..Len(r) : r[i] \in S
  BY LenProperties, ElementOfSeq
<1>2. /\ front \in Seq(S) /\ Len(front) = p - 1
      /\ \A i \in 1..p - 1 : front[i] = r[i]
  <2>1. \A i \in 1..p - 1 : r[i] \in S
    BY <1>1
  <2>2. 1 \in Int /\ p - 1 \in Int
    BY <1>1
  <2> QED BY <2>1, <2>2, SubSeqProperties
<1>3. /\ back \in Seq(S) /\ Len(back) = Len(r) - p + 1
      /\ \A i \in 1..Len(r) - p + 1 : back[i] = r[p + i - 1]
  <2>1. \A i \in p..Len(r) : r[i] \in S
    BY <1>1
  <2>2. p \in Int /\ Len(r) \in Int
    BY <1>1
  <2> QED BY <1>1, <2>1, <2>2, SubSeqProperties
<1>4. <<h>> \in Seq(S) /\ Len(<<h>>) = 1 /\ <<h>>[1] = h
  OBVIOUS
<1>5. InsertAt(r, p, h) = front \o <<h>> \o back
  BY DEF InsertAt
<1> HIDE DEF front, back
<1> DEFINE fore == front \o <<h>>
<1>6. /\ fore \in Seq(S) /\ Len(fore) = p
      /\ \A i \in 1..p : fore[i] = IF i < p THEN r[i] ELSE h
  <2>1. /\ fore \in Seq(S) /\ Len(fore) = Len(front) + 1
        /\ \A i \in 1..Len(front) + 1 :
              fore[i] = IF i <= Len(front) THEN front[i] ELSE <<h>>[i - Len(front)]
    BY <1>2, <1>4, ConcatProperties
  <2> HIDE DEF fore
  <2> QED BY <1>1, <1>2, <1>4, <2>1
<1>7. InsertAt(r, p, h) = fore \o back
  BY <1>5
<1> HIDE DEF fore
<1>8. /\ fore \o back \in Seq(S) /\ Len(fore \o back) = Len(fore) + Len(back)
      /\ \A i \in 1..Len(fore) + Len(back) :
            (fore \o back)[i] = IF i <= Len(fore) THEN fore[i] ELSE back[i - Len(fore)]
  BY <1>3, <1>6, ConcatProperties
<1> DEFINE all == fore \o back
<1> HIDE DEF all
<1>9. /\ all \in Seq(S) /\ Len(all) = Len(r) + 1
      /\ \A i \in 1..Len(r) + 1 : all[i] = IF i <= p THEN fore[i] ELSE back[i - p]
  BY <1>1, <1>3, <1>6, <1>8 DEF all
<1>10. ASSUME NEW i \in 1..Len(r) + 1
       PROVE  all[i] = IF i < p THEN r[i] ELSE IF i = p THEN h ELSE r[i - 1]
  <2>1. CASE i <= p
    BY <1>1, <1>6, <1>9, <2>1
  <2>2. CASE i > p
    <3>1. all[i] = back[i - p] /\ i - p \in 1..Len(r) - p + 1 /\ p + (i - p) - 1 = i - 1
      BY <1>1, <1>9, <2>2
    <3>2. back[i - p] = r[p + (i - p) - 1]
      BY <1>3, <3>1
    <3> QED BY <2>2, <3>1, <3>2
  <2> QED BY <1>1, <2>1, <2>2
<1> QED BY <1>7, <1>9, <1>10 DEF all

(* j is the first of the most confident of those accepted.                 *)
Best(raw, valid, j) ==
    /\ j \in valid
    /\ \A i \in valid : \/ raw[i].confidence < raw[j].confidence
                        \/ raw[i].confidence = raw[j].confidence /\ j <= i

Valid(raw, m) == {j \in 1..m : Accepted(raw[j])}

(* What is known of the ranking r of the first m hypotheses.               *)
Rankings(r, raw, m) ==
    /\ r \in Seq(Hypothesis)
    /\ {r[k] : k \in 1..Len(r)} = {raw[j] : j \in Valid(raw, m)}
    /\ r # << >> => \E j \in Valid(raw, m) : Best(raw, Valid(raw, m), j) /\ r[1] = raw[j]

LEMMA InsertRanks ==
    ASSUME NEW raw \in Seq(Hypothesis), NEW m \in Nat, m < Len(raw),
           NEW r, Rankings(r, raw, m)
    PROVE  Rankings(Insert(r, raw[m + 1]), raw, m + 1)
<1> DEFINE h == raw[m + 1]
           above == {k \in DOMAIN r : r[k].confidence >= h.confidence}
           p == Cardinality(above) + 1
           s == InsertAt(r, p, h)
<1>1. /\ r \in Seq(Hypothesis) /\ Len(r) \in Nat /\ DOMAIN r = 1..Len(r)
      /\ Len(raw) \in Nat /\ \A j \in 1..Len(raw) : raw[j] \in Hypothesis
  BY LenProperties, ElementOfSeq DEF Rankings
<1>2. CASE ~Accepted(h)
  <2>1. Insert(r, h) = r
    BY <1>2 DEF Insert
  <2>2. Valid(raw, m + 1) = Valid(raw, m)
    <3>1. \A j : j \in 1..m + 1 <=> j \in 1..m \/ j = m + 1
      OBVIOUS
    <3> QED BY <1>2, <3>1 DEF Valid
  <2> HIDE DEF h
  <2> QED BY <2>1, <2>2 DEF Rankings, h
<1>3. CASE Accepted(h)
  <2>1. Insert(r, h) = s
    BY <1>3 DEF Insert
  <2>2. h \in Hypothesis /\ h.confidence \in Nat
    BY <1>1 DEF Hypothesis
  <2>3. p \in 1..Len(r) + 1 /\ (p = 1 <=> above = {})
    <3>1. above \subseteq 1..Len(r) /\ Len(r) \in Nat
      BY <1>1
    <3> HIDE DEF above
    <3>2. Cardinality(above) \in 0..Len(r) /\ (Cardinality(above) = 0 <=> above = {})
      BY <3>1, WithinInterval
    <3> QED BY <1>1, <3>2
  <2> HIDE DEF p
  <2>4. /\ s \in Seq(Hypothesis) /\ Len(s) = Len(r) + 1
        /\ \A i \in 1..Len(r) + 1 : s[i] = IF i < p THEN r[i] ELSE IF i = p THEN h ELSE r[i - 1]
    <3> HIDE DEF h, above
    <3>1. r \in Seq(Hypothesis) /\ h \in Hypothesis /\ p \in 1..Len(r) + 1
      BY <1>1, <2>2, <2>3
    <3>2. s \in Seq(Hypothesis)
      BY <3>1, InsertAtIs
    <3>3. Len(s) = Len(r) + 1
      BY <3>1, InsertAtIs
    <3>4. \A i \in 1..Len(r) + 1 : s[i] = IF i < p THEN r[i] ELSE IF i = p THEN h ELSE r[i - 1]
      BY <3>1, InsertAtIs
    <3> QED BY <3>2, <3>3, <3>4
  <2> HIDE DEF s
  <2>5. Valid(raw, m + 1) = Valid(raw, m) \cup {m + 1}
    <3>1. \A j : j \in 1..m + 1 <=> j \in 1..m \/ j = m + 1
      OBVIOUS
    <3> QED BY <1>3, <3>1 DEF Valid
  <2>6. {s[k] : k \in 1..Len(s)} = {r[k] : k \in 1..Len(r)} \cup {h}
    <3>1. ASSUME NEW k \in 1..Len(s) PROVE s[k] \in {r[i] : i \in 1..Len(r)} \cup {h}
      <4>1. s[k] = IF k < p THEN r[k] ELSE IF k = p THEN h ELSE r[k - 1]
        BY <2>4
      <4>2. k < p => k \in 1..Len(r)
        BY <1>1, <2>3, <2>4
      <4>3. k > p => k - 1 \in 1..Len(r)
        BY <1>1, <2>3, <2>4
      <4>4. k < p \/ k = p \/ k > p
        BY <1>1, <2>3, <2>4
      <4> QED BY <4>1, <4>2, <4>3, <4>4
    <3>2. ASSUME NEW k \in 1..Len(r) PROVE r[k] \in {s[i] : i \in 1..Len(s)}
      <4>1. CASE k < p
        <5>1. k \in 1..Len(s) /\ s[k] = r[k]
          BY <1>1, <2>3, <2>4, <4>1
        <5> QED BY <5>1
      <4>2. CASE ~(k < p)
        <5>1. k + 1 \in 1..Len(s) /\ s[k + 1] = r[k]
          BY <1>1, <2>3, <2>4, <4>2
        <5> QED BY <5>1
      <4> QED BY <4>1, <4>2
    <3>3. h \in {s[i] : i \in 1..Len(s)}
      <4>1. p \in 1..Len(s) /\ s[p] = h
        BY <1>1, <2>3, <2>4
      <4> QED BY <4>1
    <3> HIDE DEF h
    <3> QED BY <3>1, <3>2, <3>3
  <2>7. {s[k] : k \in 1..Len(s)} = {raw[j] : j \in Valid(raw, m + 1)}
    BY <2>5, <2>6 DEF Rankings
  <2>8. \E j \in Valid(raw, m + 1) : Best(raw, Valid(raw, m + 1), j) /\ s[1] = raw[j]
    <3>1. \A j \in Valid(raw, m) : j \in 1..m /\ raw[j].confidence \in Nat
      BY <1>1 DEF Valid, Hypothesis
    <3>2. CASE r = << >>
      <4>1. Valid(raw, m) = {}
        <5>1. 1..Len(r) = {}
          BY <3>2
        <5>2. {r[k] : k \in 1..Len(r)} = {raw[i] : i \in Valid(raw, m)}
          BY DEF Rankings
        <5> QED BY <5>1, <5>2
      <4>2. p = 1
        BY <2>3, <3>2
      <4>3. s[1] = h
        BY <1>1, <2>4, <4>2
      <4>4. Best(raw, Valid(raw, m + 1), m + 1)
        BY <2>2, <2>5, <4>1 DEF Best
      <4> QED BY <2>5, <4>3, <4>4
    <3>3. CASE r # << >>
      <4>1. PICK j \in Valid(raw, m) : Best(raw, Valid(raw, m), j) /\ r[1] = raw[j]
        BY <3>3 DEF Rankings
      <4>2. 1 \in 1..Len(r)
        BY <1>1, <3>3, EmptySeq
      <4>3. CASE raw[j].confidence >= h.confidence
        <5>1. 1 \in above
          BY <1>1, <4>1, <4>2, <4>3
        <5>2. s[1] = r[1]
          BY <1>1, <2>3, <2>4, <5>1
        <5>3. Best(raw, Valid(raw, m + 1), j)
          BY <2>2, <2>5, <3>1, <4>1, <4>3 DEF Best
        <5> QED BY <2>5, <4>1, <5>2, <5>3
      <4>4. CASE ~(raw[j].confidence >= h.confidence)
        <5>1. \A i \in Valid(raw, m) : raw[i].confidence < h.confidence
          BY <2>2, <3>1, <4>1, <4>4 DEF Best
        <5>2. \A k \in 1..Len(r) : \E i \in Valid(raw, m) : r[k] = raw[i]
          BY DEF Rankings
        <5>3. above = {}
          BY <1>1, <2>2, <3>1, <5>1, <5>2
        <5>4. s[1] = h
          BY <1>1, <2>3, <2>4, <5>3
        <5>5. Best(raw, Valid(raw, m + 1), m + 1)
          BY <2>2, <2>5, <5>1 DEF Best
        <5> QED BY <2>5, <5>4, <5>5
      <4> QED BY <4>3, <4>4
    <3> QED BY <3>2, <3>3
  <2> QED BY <2>1, <2>4, <2>7, <2>8 DEF Rankings
<1> QED BY <1>2, <1>3

(* Ranking is right however many hypotheses an answer has.                 *)
LEMMA RankedRanks ==
    ASSUME NEW a, Raw(a) \in Seq(Hypothesis)
    PROVE  Rankings(Ranked(a), Raw(a), Len(Raw(a)))
<1> DEFINE raw == Raw(a)
           n == Len(raw)
           g == CHOOSE f : Folds(f, raw, 1..n)
           bad == {m \in 0..n : ~Rankings(g[1..m], raw, m)}
<1>1. n \in Nat /\ DOMAIN raw = 1..n
  BY LenProperties
<1>2. Ranked(a) = g[1..n]
  BY <1>1, RankedDef
<1> HIDE DEF n
<1>3. Folds(g, raw, 1..n)
  <2>1. Positions(1..n)
    BY <1>1, FS_Interval DEF Positions
  <2>2. \E f : Folds(f, raw, 1..n)
    BY <2>1, FoldsExist
  <2> HIDE DEF raw
  <2> QED BY <2>2
<1> HIDE DEF g
<1>4. \A T \in SUBSET (1..n) : T = {} => g[T] = << >>
  <2> HIDE DEF raw
  <2> QED BY <1>3 DEF Folds
<1>5. ASSUME NEW m \in 0..n, m < n PROVE g[1..m + 1] = Insert(g[1..m], raw[m + 1])
  <2>1. 1..m + 1 \in SUBSET (1..n) /\ 1..m + 1 # {} /\ (1..m + 1) \ {m + 1} = 1..m
    <3>1. 1..m + 1 \in SUBSET (1..n)
      BY <1>1, <1>5
    <3>2. m + 1 \in 1..m + 1
      BY <1>1, <1>5
    <3>3. \A i : i \in (1..m + 1) \ {m + 1} <=> i \in 1..m
      BY <1>1, <1>5
    <3>4. (1..m + 1) \ {m + 1} = 1..m
      BY <3>3, Zenon
    <3> QED BY <3>1, <3>2, <3>4
  <2>2. Max(1..m + 1) = m + 1
    <3>1. Positions(1..m + 1)
      BY <1>1, FS_Interval DEF Positions
    <3>2. Max(1..m + 1) \in 1..m + 1 /\ \A i \in 1..m + 1 : i <= Max(1..m + 1)
      BY <2>1, <3>1, MaxIn
    <3> QED BY <1>1, <3>2
  <2>3. g[1..m + 1] = Insert(g[(1..m + 1) \ {Max(1..m + 1)}], raw[Max(1..m + 1)])
    <3> HIDE DEF raw
    <3> QED BY <1>3, <2>1 DEF Folds
  <2> QED BY <2>1, <2>2, <2>3
<1>6. SUFFICES ASSUME bad # {} PROVE FALSE
  BY <1>1, <1>2 DEF n
<1>7. PICK m \in bad : \A k \in bad : m <= k
  <2> DEFINE key == [k \in bad |-> k]
  <2>1. IsFiniteSet(bad)
    <3>1. bad \subseteq 0..n /\ IsFiniteSet(0..n)
      BY <1>1, FS_Interval
    <3> HIDE DEF bad
    <3> QED BY <3>1, FS_Subset
  <2>2. key \in [bad -> Int]
    BY <1>1
  <2> HIDE DEF bad
  <2>3. PICK m \in bad : \A k \in bad : key[m] <= key[k]
    <3> HIDE DEF key
    <3> QED BY <1>6, <2>1, <2>2, LeastKey
  <2> QED BY <2>3
<1>8. CASE m = 0
  <2>1. Rankings(<< >>, raw, 0)
    <3>1. << >> \in Seq(Hypothesis) /\ Len(<< >>) = 0 /\ Valid(raw, 0) = {}
      BY EmptySeq DEF Valid
    <3> QED BY <3>1 DEF Rankings
  <2>2. 1..m \in SUBSET (1..n) /\ 1..m = {}
    BY <1>1, <1>8
  <2>3. g[1..m] = << >>
    BY <1>4, <2>2
  <2> QED BY <1>7, <1>8, <2>1, <2>3
<1>9. CASE m # 0
  <2>1. m - 1 \in 0..n /\ m - 1 < n /\ m - 1 \notin bad /\ (m - 1) + 1 = m
    BY <1>1, <1>7, <1>9
  <2>2. Rankings(g[1..m - 1], raw, m - 1)
    BY <2>1
  <2>3. g[1..m] = Insert(g[1..m - 1], raw[m])
    BY <1>5, <2>1
  <2>4. Rankings(Insert(g[1..m - 1], raw[(m - 1) + 1]), raw, (m - 1) + 1)
    BY <1>1, <2>1, <2>2, InsertRanks DEF n
  <2> QED BY <1>7, <2>1, <2>3, <2>4
<1> QED BY <1>8, <1>9

-----------------------------------------------------------------------------

USE DatasetAssumption

(* The scores so far are those of the cases before the current line.       *)
ScoresOf(ss, last) ==
    /\ {ss[k].line : k \in 1..Len(ss)} = {l \in 1..last : dataset[l] # Skip}
    /\ \A j, k \in 1..Len(ss) : j < k => ss[j].line < ss[k].line

EvalInv ==
    /\ dataset \in Seq(Case \cup {Skip})
    /\ line \in 1..Len(dataset) + 1
    /\ \E S : scores \in Seq(S)
    /\ pc \in {"ended", "case", "draft"}
    /\ pc = "draft" => line <= Len(dataset) /\ dataset[line] # Skip
    /\ ScoresOf(scores, line - 1)
    /\ SummaryComplete

LEMMA EvalInit == Init => EvalInv
<1> SUFFICES ASSUME Init PROVE EvalInv
  OBVIOUS
<1>1. << >> \in Seq(Case \cup {Skip}) /\ Len(<< >>) = 0
  BY EmptySeq
<1>2. dataset = << >> /\ scores = << >> /\ line = 1 /\ pc = "ended" /\ summary = NoSummary
  BY DEF Init
<1>3. dataset \in Seq(Case \cup {Skip}) /\ Len(dataset) = 0 /\ Len(scores) = 0
  BY <1>1, <1>2, Zenon
<1>4. \E S : scores \in Seq(S)
  BY <1>1, <1>2, Zenon
<1>5. ScoresOf(scores, line - 1)
  BY <1>2, <1>3 DEF ScoresOf
<1>6. SummaryComplete
  BY <1>2 DEF SummaryComplete
<1> QED BY <1>2, <1>3, <1>4, <1>5, <1>6 DEF EvalInv

(* A run starts on another dataset.                                        *)
LEMMA RunStep == ASSUME EvalInv, Run PROVE EvalInv'
<1>1. /\ dataset' \in Seq(Case \cup {Skip}) /\ scores' = << >> /\ line' = 1
      /\ pc' = "case" /\ summary' = NoSummary
  BY DEF Run
<1>2. << >> \in Seq({}) /\ Len(<< >>) = 0
  BY EmptySeq
<1>3. Len(scores') = 0 /\ \E S : scores' \in Seq(S)
  BY <1>1, <1>2, Zenon
<1>4. Len(dataset') \in Nat
  BY <1>1, LenProperties
<1>5. line' \in 1..Len(dataset') + 1
  BY <1>1, <1>4
<1>6. ScoresOf(scores, line - 1)'
  BY <1>1, <1>3 DEF ScoresOf
<1>7. SummaryComplete'
  BY <1>1 DEF SummaryComplete
<1> QED BY <1>1, <1>3, <1>5, <1>6, <1>7 DEF EvalInv

LEMMA SkipLineStep == ASSUME EvalInv, SkipLine PROVE EvalInv'
<1>1. /\ line' = line + 1 /\ pc = "case" /\ line <= Len(dataset) /\ dataset[line] = Skip
      /\ UNCHANGED <<dataset, pc, state, scores, summary>>
  BY DEF SkipLine, More, process
<1>2. line \in 1..Len(dataset) /\ Len(dataset) \in Nat
  BY <1>1, LenProperties DEF EvalInv
<1>3. {l \in 1..(line + 1) - 1 : dataset[l] # Skip} = {l \in 1..line - 1 : dataset[l] # Skip}
  BY <1>1, <1>2
<1>4. ScoresOf(scores, line - 1)'
  BY <1>1, <1>3 DEF EvalInv, ScoresOf
<1> QED BY <1>1, <1>2, <1>4 DEF EvalInv, SummaryComplete

LEMMA HypothesizeStep == ASSUME EvalInv, Hypothesize PROVE EvalInv'
<1>1. /\ pc' = "draft" /\ line <= Len(dataset) /\ dataset[line] # Skip
      /\ UNCHANGED <<dataset, line, scores, summary>>
  BY DEF Hypothesize, More, process
<1> QED BY <1>1 DEF EvalInv, ScoresOf, SummaryComplete

LEMMA DraftStep == ASSUME EvalInv, Draft PROVE EvalInv'
<1> DEFINE score == ScoreCase(dataset[line], state)
<1>1. /\ pc = "draft" /\ pc' = "case" /\ line' = line + 1 /\ scores' = Append(scores, score)
      /\ UNCHANGED <<dataset, state, summary>>
  BY DEF Draft, process
<1>2. score.line = line
  BY <1>1 DEF EvalInv, ScoreCase
<1> HIDE DEF score
<1>3. /\ line \in 1..Len(dataset) /\ Len(dataset) \in Nat /\ dataset[line] # Skip
  BY <1>1, LenProperties DEF EvalInv
<1>4. PICK S : scores \in Seq(S)
  BY DEF EvalInv
<1>5. scores \in Seq(S \cup {score})
  BY <1>4, SeqMonotonic
<1>6. /\ Len(scores) \in Nat
      /\ scores' \in Seq(S \cup {score}) /\ Len(scores') = Len(scores) + 1
      /\ \A k \in 1..Len(scores) : scores'[k] = scores[k]
      /\ scores'[Len(scores) + 1] = score
  BY <1>1, <1>5, LenProperties, AppendProperties
<1>7. \A k \in 1..Len(scores) : scores[k].line \in 1..line - 1
  BY DEF EvalInv, ScoresOf
<1>8. ScoresOf(scores, line - 1)'
  <2>1. {scores'[k].line : k \in 1..Len(scores')} =
            {scores[k].line : k \in 1..Len(scores)} \cup {line}
    BY <1>2, <1>6
  <2>2. {l \in 1..(line + 1) - 1 : dataset[l] # Skip} =
            {l \in 1..line - 1 : dataset[l] # Skip} \cup {line}
    BY <1>3
  <2>3. ASSUME NEW j \in 1..Len(scores'), NEW k \in 1..Len(scores'), j < k
        PROVE  scores'[j].line < scores'[k].line
    <3>1. j \in 1..Len(scores) /\ scores'[j] = scores[j]
      BY <1>6, <2>3
    <3>2. CASE k \in 1..Len(scores)
      BY <1>6, <2>3, <3>1, <3>2 DEF EvalInv, ScoresOf
    <3>3. CASE k = Len(scores) + 1
      BY <1>2, <1>3, <1>6, <1>7, <3>1, <3>3
    <3> QED BY <1>6, <3>2, <3>3
  <2> QED BY <1>1, <2>1, <2>2, <2>3 DEF EvalInv, ScoresOf
<1>9. SummaryComplete'
  BY <1>1 DEF EvalInv, SummaryComplete
<1>10. line' \in 1..Len(dataset') + 1
  BY <1>1, <1>3
<1>11. \E T : scores' \in Seq(T)
  BY <1>6
<1> QED BY <1>1, <1>8, <1>9, <1>10, <1>11 DEF EvalInv

LEMMA AggregateStep == ASSUME EvalInv, Aggregate PROVE EvalInv'
<1> DEFINE correct == Cardinality({k \in DOMAIN scores : Correct(k)})
<1>0. /\ pc = "case" /\ pc' = "ended" /\ ~(line <= Len(dataset))
      /\ summary' = [n |-> Len(scores), correct |-> correct, backend |-> env, scores |-> scores]
      /\ UNCHANGED <<dataset, line, scores>>
  BY DEF Aggregate, More, process
<1> HIDE DEF correct
<1>1. summary'.n = Len(scores) /\ summary'.scores = scores
  BY <1>0
<1>2. Len(dataset) \in Nat /\ line - 1 = Len(dataset)
  BY <1>0, LenProperties DEF EvalInv
<1>3. SummaryComplete'
  BY <1>0, <1>1, <1>2 DEF EvalInv, ScoresOf, SummaryComplete
<1> QED BY <1>0, <1>3 DEF EvalInv, ScoresOf

LEMMA EvalStep == EvalInv /\ [Next]_vars => EvalInv'
<1> SUFFICES ASSUME EvalInv, [Next]_vars PROVE EvalInv'
  OBVIOUS
<1>1. CASE Raise \/ UNCHANGED vars
  <2>1. /\ pc' \in {pc, "ended"}
        /\ UNCHANGED <<dataset, line, state, scores, summary>>
    BY <1>1 DEF Raise, vars, process
  <2>2. SummaryComplete'
    BY <2>1 DEF EvalInv, SummaryComplete
  <2>3. (ScoresOf(scores, line - 1))'
    BY <2>1 DEF EvalInv, ScoresOf
  <2>4. pc' \in {"ended", "case", "draft"} /\ (pc' = "draft" => pc = "draft")
    BY <2>1 DEF EvalInv
  <2> HIDE DEF ScoresOf
  <2>5. /\ dataset' \in Seq(Case \cup {Skip}) /\ line' \in 1..Len(dataset') + 1
        /\ \E S : scores' \in Seq(S)
        /\ pc' = "draft" => line' <= Len(dataset') /\ dataset'[line'] # Skip
    BY <2>1, <2>4 DEF EvalInv
  <2> QED BY <2>2, <2>3, <2>4, <2>5 DEF EvalInv
<1> QED BY <1>1, RunStep, SkipLineStep, HypothesizeStep, DraftStep, AggregateStep DEF Next

(* A summary is of every case of its dataset, once and in order: a run in  *)
(* which any case fails has none.                                          *)
THEOREM EvalComplete == Spec => []SummaryComplete
<1>1. EvalInv => SummaryComplete
  BY DEF EvalInv
<1> QED BY EvalInit, EvalStep, <1>1, PTL DEF Spec

-----------------------------------------------------------------------------
(* Honest scores.                                                          *)

(* The body of ScoreHonest, for one score.                                 *)
Honest(score, case) ==
    LET answer == score.response.answer
        raw == Raw(answer)
        valid == {j \in DOMAIN raw : Accepted(raw[j])}
        best == {j \in valid : \A i \in valid :
                    \/ raw[i].confidence < raw[j].confidence
                    \/ raw[i].confidence = raw[j].confidence /\ j <= i}
        verdict == IF answer.label = NoLabel THEN Undetermined ELSE answer.label
        verdicts == {raw[j].label : j \in best} \cup (IF valid = {} THEN {verdict} ELSE {})
        cited == UNION {raw[j].evidence : j \in valid}
    IN  /\ score.root_cause_correct <=> case.label \in verdicts \ {NoLabel}
        /\ score.evidence_precision[1] * Cardinality(cited)
              = score.evidence_precision[2] * Cardinality(case.evidence \cap cited)
           \/ case.evidence = {}

(* What is ranked in the case in hand are the hypotheses of its answer.    *)
RankedAnswer(s) ==
    /\ s.response.answer \in Answer
    /\ s.ranked = Ranked(s.response.answer)

LEMMA RawTyped == ASSUME NEW a \in Answer PROVE Raw(a) \in Seq(Hypothesis)
<1>1. /\ a.hypotheses \in Seq(Hypothesis) /\ a.label \in Labels \cup {NoLabel}
      /\ a.confidence \in Nat /\ a.evidence \in SUBSET EvidenceIds
  BY DEF Answer
<1>2. CASE a.hypotheses = << >> /\ a.label # NoLabel
  <2> DEFINE h == [label |-> a.label, confidence |-> a.confidence, evidence |-> a.evidence]
  <2>1. h \in Hypothesis
    BY <1>1, <1>2 DEF Hypothesis
  <2>2. Raw(a) = <<h>>
    BY <1>2 DEF Raw
  <2> HIDE DEF h
  <2> QED BY <2>1, <2>2
<1>3. CASE ~(a.hypotheses = << >> /\ a.label # NoLabel)
  BY <1>1, <1>3 DEF Raw
<1> QED BY <1>2, <1>3

LEMMA AnswersTyped ==
    ASSUME NEW b, NEW case \in Case, NEW response \in Invoke(b, case)
    PROVE  response.answer \in Answer
<1>1. Unparsed \in Answer
  <2>1. << >> \in Seq(Hypothesis)
    BY EmptySeq
  <2> QED BY <2>1 DEF Unparsed, Answer
<1>2. Scripted(case.rule) \in Answer
  <2> DEFINE h == Script[case.rule]
  <2>1. h \in Hypothesis
    BY AnswerAssumption DEF Case
  <2>2. Scripted(case.rule) = [hypotheses |-> <<h>>, label |-> h.label,
                               confidence |-> h.confidence, evidence |-> EvidenceIds]
    BY DEF Scripted
  <2>3. h.label \in Labels /\ h.confidence \in Nat
    BY <2>1 DEF Hypothesis
  <2> HIDE DEF h
  <2>4. <<h>> \in Seq(Hypothesis)
    BY <2>1
  <2> QED BY <2>2, <2>3, <2>4 DEF Answer
<1>3. response.answer \in {Scripted(case.rule)} \cup Answers \cup {Unparsed}
  BY DEF Invoke
<1> QED BY <1>1, <1>2, <1>3, AnswerAssumption

(* A fraction is that of the cited evidence that was expected.             *)
LEMMA PrecisionIs ==
    ASSUME NEW expected \in SUBSET EvidenceIds, NEW cited \in SUBSET EvidenceIds
    PROVE  \/ expected = {}
           \/ Precision(expected, cited)[1] * Cardinality(cited)
                = Precision(expected, cited)[2] * Cardinality(expected \cap cited)
<1> SUFFICES ASSUME expected # {}
             PROVE  Precision(expected, cited)[1] * Cardinality(cited)
                      = Precision(expected, cited)[2] * Cardinality(expected \cap cited)
  OBVIOUS
<1> DEFINE n == Cardinality(cited)
           c == Cardinality(expected \cap cited)
<1>1. n \in Nat /\ c \in Nat
  <2>1. IsFiniteSet(cited) /\ IsFiniteSet(expected \cap cited)
    BY AnswerAssumption, FS_Subset
  <2> QED BY <2>1, FS_CardinalityType
<1>2. CASE cited = {}
  <2>1. Precision(expected, cited) = <<0, 1>>
    BY <1>2 DEF Precision
  <2>2. n = 0 /\ c = 0
    BY <1>2, FS_EmptySet
  <2> QED BY <2>1, <2>2
<1>3. CASE cited # {}
  <2>1. Precision(expected, cited) = <<c, n>>
    BY <1>3 DEF Precision
  <2> HIDE DEF n, c
  <2>2. Precision(expected, cited)[1] = c /\ Precision(expected, cited)[2] = n
    BY <2>1
  <2>3. c * n = n * c
    BY <1>1
  <2> QED BY <2>2, <2>3 DEF n, c
<1> QED BY <1>2, <1>3

LEMMA ScoreCaseHonest ==
    ASSUME NEW case \in Case, NEW s, RankedAnswer(s)
    PROVE  Honest(ScoreCase(case, s), case)
<1> DEFINE answer == s.response.answer
           raw == Raw(answer)
           n == Len(raw)
           valid == {j \in DOMAIN raw : Accepted(raw[j])}
           best == {j \in valid : \A i \in valid :
                       \/ raw[i].confidence < raw[j].confidence
                       \/ raw[i].confidence = raw[j].confidence /\ j <= i}
           verdict == IF answer.label = NoLabel THEN Undetermined ELSE answer.label
           verdicts == {raw[j].label : j \in best} \cup (IF valid = {} THEN {verdict} ELSE {})
           cited == UNION {raw[j].evidence : j \in valid}
           score == ScoreCase(case, s)
<1>1. /\ answer \in Answer /\ s.ranked = Ranked(answer) /\ raw \in Seq(Hypothesis)
  BY RawTyped DEF RankedAnswer
<1>2. n \in Nat /\ DOMAIN raw = 1..n /\ \A j \in 1..n : raw[j] \in Hypothesis
  BY <1>1, LenProperties, ElementOfSeq
<1>3. valid = Valid(raw, n)
  BY <1>2 DEF Valid
<1>4. Rankings(s.ranked, raw, n)
  BY <1>1, RankedRanks
<1>5. /\ score.response = s.response
      /\ score.root_cause_correct <=> case.label # NoLabel /\ case.label = ReportLabel(s)
      /\ score.evidence_precision = Precision(case.evidence, Cited(s))
  BY DEF ScoreCase
<1>6. /\ s.ranked \in Seq(Hypothesis) /\ DOMAIN s.ranked = 1..Len(s.ranked)
      /\ {s.ranked[k] : k \in 1..Len(s.ranked)} = {raw[j] : j \in valid}
  <2>1. s.ranked \in Seq(Hypothesis)
    BY <1>4 DEF Rankings
  <2>2. DOMAIN s.ranked = 1..Len(s.ranked)
    BY <2>1, LenProperties
  <2> QED BY <1>3, <1>4, <2>1, <2>2 DEF Rankings
<1>7. verdicts = {ReportLabel(s)}
  <2>1. CASE s.ranked = << >>
    <3>1. 1..Len(s.ranked) = {}
      BY <2>1
    <3>2. valid = {}
      <4> HIDE DEF valid, raw
      <4> QED BY <1>6, <3>1
    <3>3. best = {}
      BY <3>2
    <3>4. ReportLabel(s) = verdict
      BY <2>1 DEF ReportLabel
    <3> HIDE DEF best, valid
    <3> QED BY <3>2, <3>3, <3>4
  <2>2. CASE s.ranked # << >>
    <3>1. PICK j \in valid : Best(raw, valid, j) /\ s.ranked[1] = raw[j]
      BY <1>3, <1>4, <2>2 DEF Rankings
    <3>2. \A i \in valid : i \in Nat /\ raw[i].confidence \in Nat
      BY <1>2 DEF Hypothesis
    <3>3. best = {j}
      <4>1. j \in best
        BY <3>1 DEF Best
      <4>2. ASSUME NEW i \in best PROVE i = j
        <5>1. i \in valid /\ j \in valid
          OBVIOUS
        <5>2. \/ raw[j].confidence < raw[i].confidence
              \/ raw[j].confidence = raw[i].confidence /\ i <= j
          BY <4>2
        <5>3. \/ raw[i].confidence < raw[j].confidence
              \/ raw[i].confidence = raw[j].confidence /\ j <= i
          BY <3>1, <5>1 DEF Best
        <5> HIDE DEF raw, valid
        <5> QED BY <3>2, <5>1, <5>2, <5>3
      <4> HIDE DEF best
      <4> QED BY <4>1, <4>2
    <3>4. ReportLabel(s) = raw[j].label
      BY <2>2, <3>1 DEF ReportLabel
    <3> HIDE DEF best, valid, raw
    <3>5. valid # {}
      BY <3>1
    <3> QED BY <3>3, <3>4, <3>5
  <2> QED BY <2>1, <2>2
<1>8. Cited(s) = cited
  <2>1. Cited(s) = UNION {h.evidence : h \in {s.ranked[k] : k \in 1..Len(s.ranked)}}
    BY <1>6 DEF Cited
  <2>2. cited = UNION {h.evidence : h \in {raw[j] : j \in valid}}
    OBVIOUS
  <2> HIDE DEF valid, raw, cited
  <2> QED BY <1>6, <2>1, <2>2
<1>9. case.evidence \in SUBSET EvidenceIds /\ cited \in SUBSET EvidenceIds
  BY <1>2 DEF Case, Hypothesis
<1>10. score.root_cause_correct <=> case.label \in verdicts \ {NoLabel}
  <2> HIDE DEF verdicts, score
  <2> QED BY <1>5, <1>7
<1>11. \/ score.evidence_precision[1] * Cardinality(cited)
             = score.evidence_precision[2] * Cardinality(case.evidence \cap cited)
       \/ case.evidence = {}
  <2> HIDE DEF cited, score
  <2> QED BY <1>5, <1>8, <1>9, PrecisionIs
<1>12. Honest(score, case)
  <2>1. score.response.answer = answer
    BY <1>5
  <2> HIDE DEF score
  <2> QED BY <1>10, <1>11, <2>1 DEF Honest
<1> QED BY <1>12

HonestInv ==
    /\ EvalInv
    /\ pc = "draft" => RankedAnswer(state)
    /\ \A k \in 1..Len(scores) : Honest(scores[k], dataset[scores[k].line])

LEMMA HonestStep == HonestInv /\ [Next]_vars => HonestInv'
<1> SUFFICES ASSUME HonestInv, [Next]_vars PROVE HonestInv'
  OBVIOUS
<1>0. EvalInv'
  BY EvalStep DEF HonestInv
<1>1. CASE Hypothesize
  <2>1. PICK response \in Invoke(GetBackend, dataset[line]) :
          state' = [ranked |-> Ranked(response.answer), response |-> response]
    BY <1>1 DEF Hypothesize
  <2>2. dataset[line] \in Case
    BY <1>1, ElementOfSeq DEF HonestInv, EvalInv, Hypothesize, More
  <2>3. RankedAnswer(state)'
    BY <2>1, <2>2, AnswersTyped DEF RankedAnswer
  <2>4. UNCHANGED <<dataset, scores>>
    BY <1>1 DEF Hypothesize, process
  <2> QED BY <1>0, <2>3, <2>4 DEF HonestInv
<1>2. CASE Draft
  <2> DEFINE score == ScoreCase(dataset[line], state)
  <2>1. /\ pc = "draft" /\ pc' = "case" /\ scores' = Append(scores, score)
        /\ UNCHANGED dataset /\ score.line = line
    BY <1>2 DEF Draft, process, ScoreCase
  <2>2. dataset[line] \in Case
    BY <2>1, ElementOfSeq DEF HonestInv, EvalInv
  <2>3. Honest(score, dataset[score.line])
    BY <2>1, <2>2, ScoreCaseHonest DEF HonestInv
  <2> HIDE DEF score
  <2>4. PICK S : scores \in Seq(S)
    BY DEF HonestInv, EvalInv
  <2>5. scores \in Seq(S \cup {score})
    BY <2>4, SeqMonotonic
  <2>6. /\ Len(scores) \in Nat /\ Len(scores') = Len(scores) + 1
        /\ \A k \in 1..Len(scores) : scores'[k] = scores[k]
        /\ scores'[Len(scores) + 1] = score
    BY <2>1, <2>5, LenProperties, AppendProperties
  <2>7. ASSUME NEW k \in 1..Len(scores') PROVE Honest(scores'[k], dataset[scores'[k].line])
    <3>1. CASE k \in 1..Len(scores)
      BY <2>6, <3>1 DEF HonestInv
    <3>2. CASE k = Len(scores) + 1
      BY <2>3, <2>6, <3>2
    <3> QED BY <2>6, <3>1, <3>2
  <2>8. \A k \in 1..Len(scores') : Honest(scores'[k], dataset'[scores'[k].line])
    BY <2>1, <2>7
  <2> QED BY <1>0, <2>1, <2>8 DEF HonestInv
<1>3. CASE Run
  <2>1. pc' = "case" /\ scores' = << >>
    BY <1>3 DEF Run
  <2>2. 1..Len(scores') = {}
    BY <2>1
  <2> QED BY <1>0, <2>1, <2>2 DEF HonestInv
<1>4. CASE SkipLine \/ Raise \/ Aggregate \/ UNCHANGED vars
  <2>1. UNCHANGED <<dataset, state, scores>> /\ (pc' = "draft" => pc = "draft")
    BY <1>4 DEF SkipLine, Raise, Aggregate, vars, process
  <2> QED BY <1>0, <2>1 DEF HonestInv, RankedAnswer
<1> QED BY <1>1, <1>2, <1>3, <1>4 DEF Next

(* However many hypotheses a model answers, in whatever order, tied or     *)
(* refused: a score is about the first of the most confident ones that the *)
(* schema accepts, and a precision about what all of those cite.           *)
THEOREM EvalHonest == Spec => []ScoreHonest
<1>1. Init => HonestInv
  <2> SUFFICES ASSUME Init PROVE HonestInv
    OBVIOUS
  <2>1. EvalInv /\ pc # "draft" /\ scores = << >>
    BY EvalInit DEF Init
  <2>2. 1..Len(scores) = {}
    BY <2>1
  <2> QED BY <2>1, <2>2 DEF HonestInv
<1>2. HonestInv => ScoreHonest
  BY DEF HonestInv, ScoreHonest, Honest
<1> QED BY <1>1, <1>2, HonestStep, PTL DEF Spec

-----------------------------------------------------------------------------

(* Of any number of latencies, the one at P95Index exists, and those that  *)
(* come after it are a twentieth of all, give or take half a case.         *)
THEOREM P95Bounds ==
    ASSUME NEW n \in Nat \ {0}
    PROVE  /\ P95Index(n) \in 0..n - 1
           /\ 20 * (n - 1 - P95Index(n)) <= n + 10
           /\ 20 * (n - 1 - P95Index(n)) >= n - 10
<1> DEFINE q == (19 * n) \div 20
           r == (19 * n) % 20
<1>1. q \in Nat /\ r \in 0..19 /\ 19 * n = 20 * q + r
  OBVIOUS
<1>2. P95Index(n) = LET rounded == IF r > 10 \/ (r = 10 /\ q % 2 = 1) THEN q + 1 ELSE q
                    IN  IF rounded = 0 THEN 0 ELSE rounded - 1
  BY DEF P95Index
<1> HIDE DEF q, r
<1> QED BY <1>1, <1>2

=============================================================================
