----------------------------- MODULE SequenceFacts -----------------------------
(***************************************************************************)
(* Facts about what the models are built from: induction over the naturals *)
(* (stated for sets, from their well-foundedness), the sums of the values  *)
(* of a sequence, the buffers of the topics, and lists of the elements of  *)
(* a set by their ranks.                                                   *)
(***************************************************************************)
EXTENDS Topics, SequencesExt, SequenceTheorems, FiniteSetTheorems, WellFoundedInduction, TLAPS

(* A set with 0 in it that is closed under successor holds every natural.  *)
LEMMA NatSet ==
    ASSUME NEW S, 0 \in S, \A n \in Nat : n \in S => n + 1 \in S
    PROVE  Nat \subseteq S
<1> DEFINE R == OpToRel(<, Nat)
           T == Nat \ S
<1>1. IsWellFoundedOn(R, Nat)
    BY NatLessThanWellFounded
<1> SUFFICES ASSUME T # {} PROVE FALSE
    OBVIOUS
<1>2. PICK x \in T : \A y \in T : ~ (<<y, x>> \in R)
    <2> HIDE DEF R
    <2> QED BY <1>1, WFMin
<1>3. x \in Nat /\ x # 0 /\ x - 1 \in Nat /\ x - 1 \in T
    OBVIOUS
<1>4. <<x - 1, x>> \in R
    BY <1>3 DEF OpToRel
<1> QED BY <1>2, <1>3, <1>4

(* A set of naturals has a least one.                                      *)
LEMMA LeastNat ==
    ASSUME NEW T \in SUBSET Nat, T # {}
    PROVE  \E x \in T : \A y \in T : x <= y
<1> DEFINE R == OpToRel(<, Nat)
<1>1. IsWellFoundedOn(R, Nat)
    BY NatLessThanWellFounded
<1>2. PICK x \in T : \A y \in T : ~ (<<y, x>> \in R)
    <2> HIDE DEF R
    <2> QED BY <1>1, WFMin
<1>3. \A y \in T : ~ (y < x)
    BY <1>2 DEF OpToRel
<1>4. \A y \in T : x <= y
    BY <1>3
<1> QED BY <1>4

(* One of finitely many naturals is the greatest.                          *)
LEMMA Greatest ==
    ASSUME NEW n \in Nat \ {0}, NEW f \in [1..n -> Nat]
    PROVE  \E m \in 1..n : \A i \in 1..n : f[i] <= f[m]
<1> DEFINE Top(k) == \E m \in 1..k : \A i \in 1..k : f[i] <= f[m]
           S == {k \in Nat : k + 1 \in 1..n => Top(k + 1)}
<1>1. 0 \in S
    <2>1. \A i \in 1..1 : f[i] <= f[1]
        OBVIOUS
    <2>2. 1 \in 1..1
        OBVIOUS
    <2> QED BY <2>1, <2>2
<1>2. ASSUME NEW k \in Nat, k \in S PROVE k + 1 \in S
    <2> SUFFICES ASSUME (k + 1) + 1 \in 1..n PROVE Top((k + 1) + 1)
        OBVIOUS
    <2>1. PICK m \in 1..(k + 1) : \A i \in 1..(k + 1) : f[i] <= f[m]
        BY <1>2
    <2>2. \A i \in 1..((k + 1) + 1) : (i \in 1..(k + 1) \/ i = k + 2) /\ f[i] \in Nat
        OBVIOUS
    <2>3. m \in 1..((k + 1) + 1) /\ k + 2 \in 1..((k + 1) + 1) /\ f[m] \in Nat /\ f[k + 2] \in Nat
        OBVIOUS
    <2>4. CASE f[k + 2] <= f[m]
        BY <2>1, <2>2, <2>3, <2>4
    <2>5. CASE ~(f[k + 2] <= f[m])
        <3>1. \A i \in 1..((k + 1) + 1) : f[i] <= f[k + 2]
            BY <2>1, <2>2, <2>3, <2>5
        <3> QED BY <2>3, <3>1
    <2> QED BY <2>4, <2>5
<1>3. Nat \subseteq S
    <2> HIDE DEF S
    <2> QED BY <1>1, <1>2, NatSet
<1>4. n - 1 \in S /\ (n - 1) + 1 = n
    <2>1. n - 1 \in Nat
        OBVIOUS
    <2> HIDE DEF S
    <2> QED BY <1>3, <2>1
<1>5. Top((n - 1) + 1)
    BY <1>4
<1> HIDE DEF Top
<1>6. Top(n)
    BY <1>4, <1>5
<1> QED BY <1>6 DEF Top

-------------------------------------------------------------------------------
(* Sums over the prefixes of v[1], ..., v[n], as a recursive function.     *)
SumsOf(f, v, n) == f = [k \in 0..n |-> IF k = 0 THEN 0 ELSE f[k - 1] + v[k]]

(* The same as a function on the naturals up to m.                         *)
AreSums(f, v, m) == f \in [0..m -> Nat] /\ f[0] = 0 /\ \A k \in 1..m : f[k] = f[k - 1] + v[k]

(* One more value can be summed.                                           *)
LEMMA SumsExtend ==
    ASSUME NEW m \in Nat, NEW f, NEW v, AreSums(f, v, m), v[m + 1] \in Nat
    PROVE  \E g : AreSums(g, v, m + 1)
<1> DEFINE g == [k \in 0..m + 1 |-> IF k = m + 1 THEN f[m] + v[m + 1] ELSE f[k]]
<1>1. f \in [0..m -> Nat] /\ f[0] = 0 /\ \A k \in 1..m : f[k] = f[k - 1] + v[k]
    BY DEF AreSums
<1>2. f[m] \in Nat
    BY <1>1
<1>3. g \in [0..m + 1 -> Nat]
    BY <1>1, <1>2
<1>4. g[0] = 0
    BY <1>1
<1>5. ASSUME NEW k \in 1..m + 1 PROVE g[k] = g[k - 1] + v[k]
    <2>1. CASE k = m + 1
        BY <2>1
    <2>2. CASE k # m + 1
        <3>1. k \in 1..m /\ k \in 0..m + 1 /\ k - 1 \in 0..m + 1 /\ k - 1 # m + 1
            BY <2>2
        <3>2. g[k] = f[k] /\ g[k - 1] = f[k - 1]
            BY <2>2, <3>1
        <3> QED BY <1>1, <3>1, <3>2
    <2> QED BY <2>1, <2>2
<1> HIDE DEF g
<1> QED BY <1>3, <1>4, <1>5 DEF AreSums

(* The sums exist.                                                         *)
LEMMA SumsExist ==
    ASSUME NEW n \in Nat, NEW v \in [1..n -> Nat]
    PROVE  \E f : SumsOf(f, v, n)
<1> DEFINE S == {m \in Nat : m <= n => \E f : AreSums(f, v, m)}
<1>1. \E f : AreSums(f, v, 0)
    <2>1. AreSums([k \in 0..0 |-> 0], v, 0)
        BY DEF AreSums
    <2> QED BY <2>1
<1>2. ASSUME NEW m \in Nat, m \in S PROVE m + 1 \in S
    <2> SUFFICES ASSUME m + 1 <= n PROVE \E g : AreSums(g, v, m + 1)
        OBVIOUS
    <2>1. PICK f : AreSums(f, v, m)
        BY <1>2
    <2>2. v[m + 1] \in Nat
        OBVIOUS
    <2> QED BY <2>1, <2>2, SumsExtend
<1>3. 0 \in S
    BY <1>1
<1>4. Nat \subseteq S
    <2> HIDE DEF S
    <2> QED BY <1>2, <1>3, NatSet
<1>5. PICK f : AreSums(f, v, n)
    BY <1>4
<1>6. f = [k \in 0..n |-> IF k = 0 THEN 0 ELSE f[k - 1] + v[k]]
    BY <1>5 DEF AreSums
<1> QED BY <1>6 DEF SumsOf

(* The sum of the first m values is a natural, 0 if they all are.          *)
SumIsNat(f, v, m) == f[m] \in Nat /\ ((\A i \in 1..m : v[i] = 0) => f[m] = 0)

(* They are naturals, and zero where only zeros are summed.                *)
LEMMA SumsFacts ==
    ASSUME NEW n \in Nat, NEW v \in [1..n -> Nat], NEW f, SumsOf(f, v, n)
    PROVE  SumIsNat(f, v, n)
<1> DEFINE S == {m \in Nat : m <= n => SumIsNat(f, v, m)}
<1>1. f[0] = 0 /\ \A k \in 1..n : f[k] = f[k - 1] + v[k]
    <2>1. f = [k \in 0..n |-> IF k = 0 THEN 0 ELSE f[k - 1] + v[k]]
        BY DEF SumsOf
    <2> DEFINE g == [k \in 0..n |-> IF k = 0 THEN 0 ELSE f[k - 1] + v[k]]
    <2>2. g[0] = 0 /\ \A k \in 1..n : g[k] = f[k - 1] + v[k]
        OBVIOUS
    <2>3. f = g
        BY <2>1
    <2> HIDE DEF g
    <2> QED BY <2>2, <2>3
<1>2. 0 \in S
    BY <1>1 DEF SumIsNat
<1>3. ASSUME NEW m \in Nat, m \in S PROVE m + 1 \in S
    <2> SUFFICES ASSUME m + 1 <= n PROVE SumIsNat(f, v, m + 1)
        OBVIOUS
    <2>1. f[m + 1] = f[m] + v[m + 1] /\ v[m + 1] \in Nat
        BY <1>1
    <2>2. SumIsNat(f, v, m)
        BY <1>3
    <2> QED BY <2>1, <2>2 DEF SumIsNat
<1>4. Nat \subseteq S
    <2> HIDE DEF S
    <2> QED BY <1>2, <1>3, NatSet
<1> QED BY <1>4
(* The sum of a sequence of naturals is a natural, and above zero only if  *)
(* one of them is.                                                         *)
LEMMA SumOfFacts ==
    ASSUME NEW values \in Seq(Nat)
    PROVE  SumOf(values) \in Nat /\ (SumOf(values) > 0 => \E i \in DOMAIN values : values[i] # 0)
<1> DEFINE n == Len(values)
           g == CHOOSE f : f = [k \in 0..n |-> IF k = 0 THEN 0 ELSE f[k - 1] + values[k]]
<1>1. n \in Nat /\ values \in [1..n -> Nat] /\ DOMAIN values = 1..n
    OBVIOUS
<1>2. SumsOf(g, values, n)
    <2>1. PICK f : SumsOf(f, values, n)
        BY <1>1, SumsExist
    <2>2. f = [k \in 0..n |-> IF k = 0 THEN 0 ELSE f[k - 1] + values[k]]
        BY <2>1 DEF SumsOf
    <2>3. g = [k \in 0..n |-> IF k = 0 THEN 0 ELSE g[k - 1] + values[k]]
        BY <2>2
    <2> QED BY <2>3 DEF SumsOf
<1>3. SumOf(values) = g[n]
    BY DEF SumOf
<1> HIDE DEF g, n
<1>4. SumIsNat(g, values, n)
    BY <1>1, <1>2, SumsFacts
<1> QED BY <1>1, <1>3, <1>4 DEF SumIsNat

-------------------------------------------------------------------------------
(* The non-blank items of the prefixes of a query, as a recursive function.*)
ItemsOf(f, q, n) ==
    f = [k \in 0..n |-> IF k = 0 THEN <<>>
                        ELSE IF q[k] = <<>> THEN f[k - 1] ELSE Append(f[k - 1], q[k])]

(* The same as a function on the naturals up to m.                         *)
AreItems(f, q, m) ==
    /\ f \in [0..m -> Seq({q[i] : i \in DOMAIN q} \ {<<>>})]
    /\ f[0] = <<>>
    /\ \A k \in 1..m : f[k] = IF q[k] = <<>> THEN f[k - 1] ELSE Append(f[k - 1], q[k])

(* One more item can be taken.                                             *)
LEMMA ItemsExtend ==
    ASSUME NEW m \in Nat, NEW f, NEW q, AreItems(f, q, m), m + 1 \in DOMAIN q
    PROVE  \E g : AreItems(g, q, m + 1)
<1> DEFINE T == {q[i] : i \in DOMAIN q} \ {<<>>}
           last == IF q[m + 1] = <<>> THEN f[m] ELSE Append(f[m], q[m + 1])
           g == [k \in 0..m + 1 |-> IF k = m + 1 THEN last ELSE f[k]]
<1>1. /\ f \in [0..m -> Seq(T)] /\ f[0] = <<>>
      /\ \A k \in 1..m : f[k] = IF q[k] = <<>> THEN f[k - 1] ELSE Append(f[k - 1], q[k])
    BY DEF AreItems
<1>2. last \in Seq(T)
    <2>1. f[m] \in Seq(T)
        BY <1>1
    <2>2. q[m + 1] # <<>> => q[m + 1] \in T
        OBVIOUS
    <2> HIDE DEF T
    <2> QED BY <2>1, <2>2
<1>3. g \in [0..m + 1 -> Seq(T)]
    <2> HIDE DEF T, last
    <2> QED BY <1>1, <1>2
<1>4. g[0] = <<>>
    BY <1>1
<1>5. ASSUME NEW k \in 1..m + 1
      PROVE  g[k] = IF q[k] = <<>> THEN g[k - 1] ELSE Append(g[k - 1], q[k])
    <2>1. CASE k = m + 1
        BY <2>1
    <2>2. CASE k # m + 1
        <3>1. k \in 1..m /\ k \in 0..m + 1 /\ k - 1 \in 0..m + 1 /\ k - 1 # m + 1
            BY <2>2
        <3>2. g[k] = f[k] /\ g[k - 1] = f[k - 1]
            BY <2>2, <3>1
        <3> HIDE DEF g
        <3> QED BY <1>1, <3>1, <3>2
    <2> QED BY <2>1, <2>2
<1> HIDE DEF g, last
<1>6. AreItems(g, q, m + 1)
    BY <1>3, <1>4, <1>5 DEF AreItems
<1> QED BY <1>6

(* The items exist.                                                        *)
LEMMA ItemsExist ==
    ASSUME NEW S, NEW q \in Seq(S)
    PROVE  \E f : ItemsOf(f, q, Len(q))
<1> DEFINE M == {m \in Nat : m <= Len(q) => \E f : AreItems(f, q, m)}
<1>1. \E f : AreItems(f, q, 0)
    <2> DEFINE T == {q[i] : i \in DOMAIN q} \ {<<>>}
               g == [k \in 0..0 |-> <<>>]
    <2>1. <<>> \in Seq(T)
        <3> HIDE DEF T
        <3> QED OBVIOUS
    <2>2. g \in [0..0 -> Seq(T)] /\ g[0] = <<>>
        <3> HIDE DEF T
        <3> QED BY <2>1
    <2> HIDE DEF g
    <2>3. AreItems(g, q, 0)
        BY <2>2 DEF AreItems
    <2> QED BY <2>3
<1>2. ASSUME NEW m \in Nat, m \in M PROVE m + 1 \in M
    <2> SUFFICES ASSUME m + 1 <= Len(q) PROVE \E g : AreItems(g, q, m + 1)
        OBVIOUS
    <2>1. PICK f : AreItems(f, q, m)
        BY <1>2
    <2>2. m + 1 \in DOMAIN q
        OBVIOUS
    <2> QED BY <2>1, <2>2, ItemsExtend
<1>3. 0 \in M
    BY <1>1
<1>4. Nat \subseteq M
    <2> HIDE DEF M
    <2> QED BY <1>2, <1>3, NatSet
<1>5. PICK f : AreItems(f, q, Len(q))
    BY <1>4
<1>6. ItemsOf(f, q, Len(q))
    <2> DEFINE n == Len(q)
               Y == Seq({q[i] : i \in DOMAIN q} \ {<<>>})
    <2>1. /\ f \in [0..n -> Y] /\ f[0] = <<>>
          /\ \A k \in 1..n : f[k] = IF q[k] = <<>> THEN f[k - 1] ELSE Append(f[k - 1], q[k])
        BY <1>5 DEF AreItems
    <2>2. n \in Nat
        OBVIOUS
    <2> HIDE DEF n, Y
    <2>3. f = [k \in 0..n |-> IF k = 0 THEN <<>>
                   ELSE IF q[k] = <<>> THEN f[k - 1] ELSE Append(f[k - 1], q[k])]
        <3> DEFINE F == [k \in 0..n |-> IF k = 0 THEN <<>>
                   ELSE IF q[k] = <<>> THEN f[k - 1] ELSE Append(f[k - 1], q[k])]
        <3>1. ASSUME NEW k \in 0..n PROVE f[k] = F[k]
            <4>1. CASE k = 0
                BY <2>1, <4>1
            <4>2. CASE k # 0
                <5>1. k \in 1..n
                    BY <2>2, <4>2
                <5>2. f[k] = IF q[k] = <<>> THEN f[k - 1] ELSE Append(f[k - 1], q[k])
                    BY <2>1, <5>1
                <5> QED BY <4>2, <5>2
            <4> QED BY <4>1, <4>2
        <3>2. DOMAIN f = 0..n /\ f = [k \in 0..n |-> f[k]]
            BY <2>1
        <3>3. F = [k \in 0..n |-> F[k]]
            OBVIOUS
        <3> HIDE DEF F
        <3>4. f = F
            BY <3>1, <3>2, <3>3
        <3> QED BY <3>4 DEF F
    <2> QED BY <2>3 DEF ItemsOf, n
<1> QED BY <1>6

(* NonBlank gives items of the query that are not blank.                   *)
LEMMA NonBlankFacts ==
    ASSUME NEW S, NEW q \in Seq(S)
    PROVE  NonBlank(q) \in Seq({q[i] : i \in DOMAIN q} \ {<<>>})
<1> DEFINE n == Len(q)
           T == {q[i] : i \in DOMAIN q} \ {<<>>}
           g == CHOOSE f : f = [k \in 0..n |-> IF k = 0 THEN <<>>
                    ELSE IF q[k] = <<>> THEN f[k - 1] ELSE Append(f[k - 1], q[k])]
           M == {m \in Nat : m <= n => g[m] \in Seq(T)}
<1>1. n \in Nat /\ DOMAIN q = 1..n
    OBVIOUS
<1>2. g = [k \in 0..n |-> IF k = 0 THEN <<>>
               ELSE IF q[k] = <<>> THEN g[k - 1] ELSE Append(g[k - 1], q[k])]
    <2>1. PICK f : ItemsOf(f, q, n)
        BY ItemsExist
    <2> QED BY <2>1 DEF ItemsOf
<1>3. NonBlank(q) = g[n]
    BY DEF NonBlank
<1> HIDE DEF g, n
<1>4. /\ g[0] = <<>>
      /\ \A k \in 1..n : g[k] = IF q[k] = <<>> THEN g[k - 1] ELSE Append(g[k - 1], q[k])
    <2> DEFINE h == [k \in 0..n |-> IF k = 0 THEN <<>>
               ELSE IF q[k] = <<>> THEN g[k - 1] ELSE Append(g[k - 1], q[k])]
    <2>1. h[0] = <<>> /\ \A k \in 1..n : h[k] = IF q[k] = <<>> THEN g[k - 1] ELSE Append(g[k - 1], q[k])
        BY <1>1
    <2>2. g = h
        BY <1>2
    <2> HIDE DEF h
    <2> QED BY <2>1, <2>2
<1>5. 0 \in M
    <2>1. <<>> \in Seq(T)
        <3> HIDE DEF T
        <3> QED OBVIOUS
    <2> QED BY <1>4, <2>1
<1>6. ASSUME NEW m \in Nat, m \in M PROVE m + 1 \in M
    <2> SUFFICES ASSUME m + 1 <= n PROVE g[m + 1] \in Seq(T)
        OBVIOUS
    <2>1. g[m] \in Seq(T) /\ m + 1 \in 1..n
        BY <1>1, <1>6
    <2>2. g[m + 1] = IF q[m + 1] = <<>> THEN g[m] ELSE Append(g[m], q[m + 1])
        BY <1>4, <2>1
    <2>3. q[m + 1] # <<>> => q[m + 1] \in T
        BY <1>1, <2>1
    <2> HIDE DEF T
    <2> QED BY <2>1, <2>2, <2>3
<1>7. Nat \subseteq M
    <2> HIDE DEF M
    <2> QED BY <1>5, <1>6, NatSet
<1> QED BY <1>1, <1>3, <1>7

(* A label that is not blank stays so.                                     *)
LEMMA NormalizeFacts ==
    ASSUME NEW S, NEW label \in Seq(S), label # <<>>
    PROVE  NormalizeLabel(label) # <<>>
<1>1. ASSUME Len(label) > 1 PROVE Tail(label) # <<>>
    <2>1. Len(Tail(label)) = Len(label) - 1
        BY <1>1
    <2>2. Len(Tail(label)) # 0
        BY <1>1, <2>1
    <2>3. Len(<<>>) = 0
        OBVIOUS
    <2>4. ASSUME NEW t, t = <<>> PROVE Len(t) = Len(<<>>)
        BY <2>4
    <2> QED BY <2>2, <2>3, <2>4, Zenon
<1> QED BY <1>1 DEF NormalizeLabel

-------------------------------------------------------------------------------
(* The sequences that publishing one query after at most one other gives.  *)
LEMMA AppendFacts ==
    /\ \A q : Append(<<>>, q) = <<q>>
    /\ \A r, q : Append(<<r>>, q) = <<r, q>>
<1>1. ASSUME NEW q PROVE Append(<<>>, q) = <<q>>
    <2>1. Append(<<>>, q) \in [1..1 -> {q}] /\ <<q>> \in [1..1 -> {q}]
        OBVIOUS
    <2> QED BY <2>1
<1>2. ASSUME NEW r, NEW q PROVE Append(<<r>>, q) = <<r, q>>
    <2> DEFINE s == Append(<<r>>, q)
               t == <<r, q>>
    <2>1. s \in Seq({r, q}) /\ Len(s) = 2 /\ s[1] = r /\ s[2] = q
        OBVIOUS
    <2>2. t \in Seq({r, q}) /\ Len(t) = 2 /\ t[1] = r /\ t[2] = q
        OBVIOUS
    <2> HIDE DEF s, t
    <2>3. \A i \in 1..2 : s[i] = t[i]
        BY <2>1, <2>2
    <2>4. s = t
        BY <2>1, <2>2, <2>3, SeqEqual
    <2> QED BY <2>4 DEF s, t
<1> QED BY <1>1, <1>2

(* A sequence of bounded length.                                           *)
LEMMA BoundedSeqFacts ==
    ASSUME NEW S, NEW n \in Nat
    PROVE  \A s : s \in BoundedSeq(S, n) <=> s \in Seq(S) /\ Len(s) <= n
<1>1. ASSUME NEW s \in BoundedSeq(S, n) PROVE s \in Seq(S) /\ Len(s) <= n
    <2>1. PICK m \in 0..n : s \in [1..m -> S]
        BY DEF BoundedSeq, SeqOf
    <2> QED BY <2>1
<1>2. ASSUME NEW s \in Seq(S), Len(s) <= n PROVE s \in BoundedSeq(S, n)
    <2>1. s \in [1..Len(s) -> S] /\ Len(s) \in 0..n
        BY <1>2
    <2> QED BY <2>1 DEF BoundedSeq, SeqOf
<1> QED BY <1>1, <1>2

(* What a buffer keeps: it is bounded, holds nothing but what it held and  *)
(* what was sent, and ends with what was sent last.                        *)
LEMMA KeepLastFacts ==
    ASSUME NEW S, NEW samples \in Seq(S), NEW depth \in Nat \ {0}
    PROVE  /\ KeepLast(samples, depth) \in Seq(S) /\ Len(KeepLast(samples, depth)) <= depth
           /\ samples # <<>> => /\ KeepLast(samples, depth) # <<>>
                                /\ Last(KeepLast(samples, depth)) = Last(samples)
<1> DEFINE kept == SubSeq(samples, Len(samples) - depth + 1, Len(samples))
<1>1. CASE Len(samples) <= depth
    <2>1. KeepLast(samples, depth) = samples
        BY <1>1 DEF KeepLast
    <2> QED BY <1>1, <2>1
<1>2. CASE Len(samples) > depth
    <2>1. KeepLast(samples, depth) = kept
        BY <1>2 DEF KeepLast
    <2>2. kept \in Seq(S) /\ Len(kept) = depth
        BY <1>2
    <2>3. kept[depth] = samples[Len(samples)]
        BY <1>2
    <2>4. kept # <<>> /\ Last(kept) = Last(samples)
        BY <2>2, <2>3 DEF Last
    <2> QED BY <2>1, <2>2, <2>4
<1> QED BY <1>1, <1>2

LEMMA DeliverFacts ==
    ASSUME NEW S, NEW depth \in Nat \ {0}, NEW queue \in BoundedSeq(S, depth), NEW sent \in Seq(S),
           NEW linked \in BOOLEAN
    PROVE  /\ Deliver(queue, sent, linked, depth) \in BoundedSeq(S, depth)
           /\ ~linked => Deliver(queue, sent, linked, depth) = queue
           /\ sent = <<>> => Deliver(queue, sent, linked, depth) = queue
           /\ linked /\ sent # <<>> =>
                  /\ Deliver(queue, sent, linked, depth) # <<>>
                  /\ Last(Deliver(queue, sent, linked, depth)) = Last(sent)
<1>1. queue \in Seq(S) /\ Len(queue) <= depth
    BY BoundedSeqFacts
<1>2. CASE ~linked
    BY <1>2 DEF Deliver
<1>3. CASE linked
    <2> DEFINE samples == queue \o sent
    <2>1. Deliver(queue, sent, linked, depth) = KeepLast(samples, depth)
        BY <1>3 DEF Deliver
    <2>2. samples \in Seq(S)
        BY <1>1
    <2>3. sent = <<>> => KeepLast(samples, depth) = queue
        BY <1>1 DEF KeepLast
    <2>4. sent # <<>> => samples # <<>> /\ Last(samples) = Last(sent)
        BY <1>1 DEF Last
    <2> HIDE DEF samples
    <2> QED BY <1>3, <2>1, <2>2, <2>3, <2>4, KeepLastFacts, BoundedSeqFacts
<1> QED BY <1>2, <1>3

(* A function on 1..n is a sequence.                                       *)
LEMMA FunctionIsSeq ==
    ASSUME NEW X, NEW n \in Nat
    PROVE  [1..n -> X] \subseteq Seq(X)
OBVIOUS

(* A sequence is a sequence of its elements.                               *)
LEMMA SeqOfElements ==
    ASSUME NEW S, NEW s \in Seq(S)
    PROVE  s \in Seq({s[i] : i \in DOMAIN s})
OBVIOUS

(* The sequence `kept` is a run of consecutive elements of `samples`.      *)
RunOf(kept, samples) ==
    \E d \in Nat : \A i \in DOMAIN kept : i + d \in DOMAIN samples /\ kept[i] = samples[i + d]

(* What is in a buffer is the end of what was in it and what was sent.     *)
LEMMA DeliverSuffix ==
    ASSUME NEW S, NEW depth \in Nat \ {0}, NEW queue \in Seq(S), NEW sent \in Seq(S),
           NEW linked \in BOOLEAN
    PROVE  /\ Deliver(queue, sent, linked, depth) \in Seq(S)
           /\ RunOf(Deliver(queue, sent, linked, depth), queue \o sent)
<1> DEFINE samples == queue \o sent
<1>1. samples \in Seq(S) /\ Len(samples) \in Nat
    OBVIOUS
<1>2. CASE ~linked
    <2>1. Deliver(queue, sent, linked, depth) = queue
        BY <1>2 DEF Deliver
    <2>2. \A i \in DOMAIN queue : i + 0 \in DOMAIN samples /\ queue[i] = samples[i + 0]
        OBVIOUS
    <2> QED BY <2>1, <2>2 DEF RunOf
<1>3. CASE linked
    <2>1. Deliver(queue, sent, linked, depth) = KeepLast(samples, depth)
        BY <1>3 DEF Deliver
    <2> HIDE DEF samples
    <2>2. CASE Len(samples) > depth
        <3> DEFINE d == Len(samples) - depth
                   kept == SubSeq(samples, d + 1, Len(samples))
        <3>1. KeepLast(samples, depth) = kept /\ d \in Nat
            BY <1>1, <2>2 DEF KeepLast
        <3>2. kept \in Seq(S) /\ Len(kept) = depth
            BY <1>1, <2>2
        <3>3. \A i \in 1..depth : i + d \in DOMAIN samples /\ kept[i] = samples[i + d]
            BY <1>1, <2>2
        <3>4. DOMAIN kept = 1..depth
            BY <3>2
        <3> HIDE DEF kept, d
        <3>5. RunOf(kept, samples)
            BY <3>1, <3>3, <3>4 DEF RunOf
        <3> QED BY <2>1, <3>1, <3>2, <3>5 DEF samples
    <2>3. CASE Len(samples) <= depth
        <3>1. KeepLast(samples, depth) = samples
            BY <1>1, <2>3 DEF KeepLast
        <3>2. PICK d \in Nat : d = 0
            OBVIOUS
        <3>3. \A i \in DOMAIN samples : i + d \in DOMAIN samples /\ samples[i] = samples[i + d]
            BY <1>1, <3>2
        <3>4. Deliver(queue, sent, linked, depth) = samples
            BY <2>1, <3>1
        <3>5. samples \in Seq(S)
            BY <1>1
        <3> QED BY <3>3, <3>4, <3>5 DEF samples, RunOf
    <2>4. Len(samples) > depth \/ Len(samples) <= depth
        BY <1>1
    <2> QED BY <2>2, <2>3, <2>4
<1> QED BY <1>2, <1>3

(* So it holds nothing but what it held and what was sent.                 *)
LEMMA DeliverType ==
    ASSUME NEW S, NEW depth \in Nat \ {0}, NEW queue \in Seq(S), NEW sent \in Seq(S),
           NEW hears \in BOOLEAN
    PROVE  Deliver(queue, sent, hears, depth) \in Seq(S)
BY DeliverSuffix, Zenon

(* Every sample of a buffer was in it or was sent.                         *)
LEMMA DeliverElements ==
    ASSUME NEW S, NEW depth \in Nat \ {0}, NEW queue \in Seq(S), NEW sent \in Seq(S),
           NEW linked \in BOOLEAN
    PROVE  \A i \in DOMAIN Deliver(queue, sent, linked, depth) :
               \/ \E j \in DOMAIN queue : Deliver(queue, sent, linked, depth)[i] = queue[j]
               \/ \E j \in DOMAIN sent : Deliver(queue, sent, linked, depth)[i] = sent[j]
<1> DEFINE D == Deliver(queue, sent, linked, depth)
<1>1. RunOf(D, queue \o sent)
    BY DeliverSuffix
<1> HIDE DEF D
<1>2. \A k \in DOMAIN (queue \o sent) :
          \/ \E j \in DOMAIN queue : (queue \o sent)[k] = queue[j]
          \/ \E j \in DOMAIN sent : (queue \o sent)[k] = sent[j]
    <2> SUFFICES ASSUME NEW k \in DOMAIN (queue \o sent)
                 PROVE  \/ \E j \in DOMAIN queue : (queue \o sent)[k] = queue[j]
                        \/ \E j \in DOMAIN sent : (queue \o sent)[k] = sent[j]
        OBVIOUS
    <2>1. CASE k <= Len(queue)
        BY <2>1
    <2>2. CASE k > Len(queue)
        <3>1. k - Len(queue) \in DOMAIN sent /\ (queue \o sent)[k] = sent[k - Len(queue)]
            BY <2>2
        <3> QED BY <3>1
    <2> QED BY <2>1, <2>2
<1>3. \A i \in DOMAIN D : (\E j \in DOMAIN queue : D[i] = queue[j]) \/ (\E j \in DOMAIN sent : D[i] = sent[j])
    BY <1>1, <1>2 DEF RunOf
<1> QED BY <1>3 DEF D

(* A stack: what is on it after a push and after a pop.                    *)
LEMMA PushFacts ==
    ASSUME NEW S, NEW s \in Seq(S), NEW e \in S
    PROVE  /\ Append(s, e) \in Seq(S) /\ Len(Append(s, e)) = Len(s) + 1
           /\ DOMAIN Append(s, e) = DOMAIN s \cup {Len(s) + 1}
           /\ Append(s, e)[Len(s) + 1] = e /\ Append(s, e) # <<>>
           /\ \A i \in DOMAIN s : Append(s, e)[i] = s[i]
OBVIOUS

LEMMA PopFacts ==
    ASSUME NEW S, NEW s \in Seq(S), s # <<>>
    PROVE  /\ Front(s) \in Seq(S) /\ Len(Front(s)) = Len(s) - 1 /\ Len(s) \in Nat \ {0}
           /\ DOMAIN Front(s) = DOMAIN s \ {Len(s)}
           /\ Last(s) = s[Len(s)] /\ Last(s) \in S /\ Len(s) \in DOMAIN s
           /\ \A i \in DOMAIN Front(s) : Front(s)[i] = s[i]
<1> DEFINE f == SubSeq(s, 1, Len(s) - 1)
<1>1. Len(s) \in Nat \ {0} /\ DOMAIN s = 1..Len(s) /\ Len(s) \in DOMAIN s
    OBVIOUS
<1>2. f \in Seq(S) /\ Len(f) = Len(s) - 1
    BY <1>1
<1>3. \A i \in 1..Len(s) - 1 : f[i] = s[i]
    BY <1>1
<1>4. DOMAIN f = DOMAIN s \ {Len(s)} /\ DOMAIN f = 1..Len(s) - 1
    BY <1>1, <1>2
<1>5. Last(s) = s[Len(s)] /\ Last(s) \in S
    BY <1>1 DEF Last
<1>6. Front(s) = f
    BY DEF Front
<1> HIDE DEF f
<1>7. \A i \in DOMAIN f : f[i] = s[i]
    BY <1>3, <1>4
<1> QED BY <1>1, <1>2, <1>4, <1>5, <1>6, <1>7
-------------------------------------------------------------------------------
(* s lists the k elements of a set of naturals, from the least one on.     *)
Enumerates(s, k, V) ==
    /\ s \in [1..k -> V]
    /\ \A m, n \in 1..k : m < n => s[m] < s[n]
    /\ \A i \in V : \E n \in 1..k : s[n] = i

(* The elements below i.                                                   *)
Below(V, i) == {j \in V : j < i}

(* A listed set is finite and has as many elements as are listed.          *)
LEMMA EnumeratedCardinality ==
    ASSUME NEW k \in Nat, NEW V \in SUBSET Nat, NEW s, Enumerates(s, k, V)
    PROVE  IsFiniteSet(V) /\ Cardinality(V) = k
<1>1. s \in [1..k -> V] /\ \A i \in V : \E n \in 1..k : s[n] = i
    BY DEF Enumerates
<1>2. \A m, n \in 1..k : m # n => s[m] # s[n]
    <2> SUFFICES ASSUME NEW m \in 1..k, NEW n \in 1..k, m # n PROVE s[m] # s[n]
        OBVIOUS
    <2>1. s[m] \in Nat /\ s[n] \in Nat
        BY <1>1
    <2>2. m < n \/ n < m
        OBVIOUS
    <2> QED BY <2>1, <2>2 DEF Enumerates
<1>3. s \in Bijection(1..k, V)
    BY <1>1, <1>2 DEF Bijection, Injection, Surjection, IsInjective
<1>4. ExistsBijection(1..k, V)
    BY <1>3 DEF ExistsBijection
<1>5. IsFiniteSet(1..k) /\ Cardinality(1..k) = k
    BY FS_Interval
<1> QED BY <1>4, <1>5, FS_Bijection

(* The n-th one has n - 1 smaller ones.                                    *)
LEMMA EnumeratedRank ==
    ASSUME NEW k \in Nat, NEW V \in SUBSET Nat, NEW s, Enumerates(s, k, V), NEW n \in 1..k
    PROVE  Cardinality(Below(V, s[n])) = n - 1
<1> DEFINE W == {j \in V : j < s[n]}
           r == [m \in 1..(n - 1) |-> s[m]]
<1>1. s \in [1..k -> V] /\ \A i \in V : \E m \in 1..k : s[m] = i
    BY DEF Enumerates
<1>2. \A m, p \in 1..k : m < p => s[m] < s[p]
    BY DEF Enumerates
<1>3. \A m \in 1..(n - 1) : m \in 1..k /\ m < n
    OBVIOUS
<1>4. r \in [1..(n - 1) -> W]
    BY <1>1, <1>2, <1>3
<1>5. \A m, p \in 1..(n - 1) : m < p => r[m] < r[p]
    BY <1>2, <1>3
<1>6. ASSUME NEW i \in W PROVE \E m \in 1..(n - 1) : r[m] = i
    <2>1. PICK m \in 1..k : s[m] = i
        BY <1>1, <1>6
    <2>2. s[m] < s[n] /\ s[m] \in Nat /\ s[n] \in Nat
        BY <1>1, <1>6, <2>1
    <2>3. ~ (n < m) /\ m # n
        BY <1>2, <2>2
    <2>4. m \in 1..(n - 1)
        BY <2>3
    <2> QED BY <2>1, <2>4
<1>7. n - 1 \in Nat
    OBVIOUS
<1>9. W \in SUBSET Nat
    OBVIOUS
<1>8. Enumerates(r, n - 1, W)
    <2> HIDE DEF W, r
    <2> QED BY <1>4, <1>5, <1>6 DEF Enumerates
<1> HIDE DEF W, r
<1>10. Cardinality(W) = n - 1
    BY <1>7, <1>8, <1>9, EnumeratedCardinality
<1> QED BY <1>10 DEF W, Below

(* No two elements have equally many smaller ones.                         *)
LEMMA EnumeratedUnique ==
    ASSUME NEW k \in Nat, NEW V \in SUBSET Nat, NEW s, Enumerates(s, k, V), NEW n \in 1..k,
           NEW i \in V, Cardinality(Below(V, i)) = n - 1
    PROVE  i = s[n]
<1>1. PICK m \in 1..k : s[m] = i
    BY DEF Enumerates
<1>2. Cardinality(Below(V, i)) = m - 1
    BY <1>1, EnumeratedRank
<1> QED BY <1>1, <1>2

(* Every set of numbers up to a bound can be listed.                       *)
LEMMA EnumerationExists ==
    ASSUME NEW b \in Nat, NEW V \in SUBSET (1..b)
    PROVE  \E k \in Nat : \E s : Enumerates(s, k, V)
<1> DEFINE Listed(W) == \E k \in Nat : \E s : Enumerates(s, k, W)
           S == {m \in Nat : \A W \in SUBSET (1..m) : Listed(W)}
<1>1. 0 \in S
    <2> SUFFICES ASSUME NEW W \in SUBSET (1..0) PROVE Listed(W)
        OBVIOUS
    <2>1. W = {}
        OBVIOUS
    <2>2. Enumerates(<<>>, 0, W)
        BY <2>1 DEF Enumerates
    <2> QED BY <2>2
<1>2. ASSUME NEW m \in Nat, m \in S PROVE m + 1 \in S
    <2> SUFFICES ASSUME NEW W \in SUBSET (1..m + 1) PROVE Listed(W)
        OBVIOUS
    <2> DEFINE U == W \ {m + 1}
    <2>1. U \in SUBSET (1..m) /\ \A i \in U : i \in Nat /\ i < m + 1
        OBVIOUS
    <2>2. PICK k \in Nat : \E s : Enumerates(s, k, U)
        BY <1>2, <2>1
    <2>3. PICK s : Enumerates(s, k, U)
        BY <2>2
    <2>4. CASE m + 1 \notin W
        <3>1. U = W
            BY <2>4
        <3> QED BY <2>3, <3>1
    <2>5. CASE m + 1 \in W
        <3> DEFINE t == [n \in 1..k + 1 |-> IF n = k + 1 THEN m + 1 ELSE s[n]]
        <3>1. W = U \cup {m + 1}
            BY <2>5
        <3>2. s \in [1..k -> U] /\ (\A p, n \in 1..k : p < n => s[p] < s[n])
              /\ \A i \in U : \E n \in 1..k : s[n] = i
            BY <2>3 DEF Enumerates
        <3>3. \A n \in 1..k : t[n] = s[n] /\ s[n] \in U
            BY <3>2
        <3>4. t[k + 1] = m + 1
            OBVIOUS
        <3>5. t \in [1..k + 1 -> W]
            BY <3>1, <3>2
        <3> HIDE DEF t, U
        <3>6. ASSUME NEW p \in 1..k + 1, NEW n \in 1..k + 1, p < n PROVE t[p] < t[n]
            <4>1. p \in 1..k
                BY <3>6
            <4>2. n \in 1..k \/ n = k + 1
                OBVIOUS
            <4> QED BY <2>1, <3>2, <3>3, <3>4, <3>6, <4>1, <4>2
        <3>7. ASSUME NEW i \in W PROVE \E n \in 1..k + 1 : t[n] = i
            <4>1. 1..k \subseteq 1..k + 1 /\ k + 1 \in 1..k + 1
                OBVIOUS
            <4> QED BY <3>1, <3>2, <3>3, <3>4, <4>1
        <3>8. Enumerates(t, k + 1, W)
            BY <3>5, <3>6, <3>7 DEF Enumerates
        <3> QED BY <3>8
    <2> QED BY <2>4, <2>5
<1>3. Nat \subseteq S
    <2> HIDE DEF S
    <2> QED BY <1>1, <1>2, NatSet
<1> QED BY <1>3
================================================================================
