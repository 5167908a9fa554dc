--------------------------- MODULE SequenceLemmas ---------------------------
(***************************************************************************)
(* What the proofs of this project need to know of sequences, of the       *)
(* operators of SequencesExt, FiniteSetsExt and Functions the models are   *)
(* built from (folds and sums among them), and of the integers.            *)
(***************************************************************************)
EXTENDS Integers, SequencesExt, SequenceTheorems, FiniteSetTheorems,
        WellFoundedInduction, TLAPS

Below == {ss \in Nat \X Nat : ss[1] < ss[2]}

LEMMA LeastNatural ==
  ASSUME NEW T \in SUBSET Nat, T # {}
  PROVE  \E n \in T : \A m \in T : n <= m
<1>1. IsWellFoundedOn(Below, Nat)
  BY NatLessThanWellFounded DEF OpToRel, Below
<1>2. PICK n \in T : \A m \in T : ~ (<<m, n>> \in Below)
  BY <1>1, WFMin
<1>3. ASSUME NEW m \in T PROVE n <= m
  <2>1. n \in Nat /\ m \in Nat
    OBVIOUS
  <2>2. ~ (<<m, n>> \in Below)
    BY <1>2
  <2> QED BY <2>1, <2>2 DEF Below
<1> QED BY <1>3

LEMMA MaxOfPositions ==
  ASSUME NEW n \in Nat, NEW S \in SUBSET (1 .. n), S # {}
  PROVE  Max(S) \in S /\ \A i \in S : i <= Max(S)
<1> DEFINE T == {n - i : i \in S}
<1>1. T \in SUBSET Nat /\ T # {}
  <2>1. \A i \in S : n - i \in Nat
    OBVIOUS
  <2> QED BY <2>1
<1>2. PICK d \in T : \A m \in T : d <= m
  BY <1>1, LeastNatural
<1>3. PICK x \in S : d = n - x
  BY <1>2
<1>4. ASSUME NEW y \in S PROVE x >= y
  <2>1. x \in 1 .. n /\ y \in 1 .. n
    BY <1>3
  <2>2. n - y \in T
    OBVIOUS
  <2>3. n - x <= n - y
    BY <1>2, <1>3, <2>2
  <2> QED BY <2>1, <2>3
<1>5. x \in S
  BY <1>3
<1>6. Max(S) \in S /\ \A y \in S : Max(S) >= y
  BY <1>4, <1>5 DEF Max
<1> QED BY <1>6

LEMMA RemoveAtProperties ==
  ASSUME NEW S, NEW l \in Seq(S), NEW k \in 1 .. Len(l)
  PROVE  /\ RemoveAt(l, k) \in Seq(S)
         /\ Len(RemoveAt(l, k)) = Len(l) - 1
         /\ \A i \in 1 .. Len(l) - 1 :
              RemoveAt(l, k)[i] = IF i < k THEN l[i] ELSE l[i + 1]
<1> DEFINE a == SubSeq(l, 1, k - 1)
           b == SubSeq(l, k + 1, Len(l))
<1>1. /\ a \in Seq(S) /\ Len(a) = k - 1
      /\ \A i \in 1 .. k - 1 : a[i] = l[i]
  OBVIOUS
<1>2. /\ b \in Seq(S) /\ Len(b) = Len(l) - k
      /\ \A i \in 1 .. Len(l) - k : b[i] = l[k + i]
  OBVIOUS
<1> HIDE DEF a, b
<1>3. RemoveAt(l, k) = a \o b
  BY DEF RemoveAt, a, b
<1>4. /\ a \o b \in Seq(S) /\ Len(a \o b) = Len(a) + Len(b)
      /\ \A i \in 1 .. Len(a) + Len(b) :
           (a \o b)[i] = IF i <= Len(a) THEN a[i] ELSE b[i - Len(a)]
  BY <1>1, <1>2, ConcatProperties
<1>5. ASSUME NEW i \in 1 .. Len(l) - 1
      PROVE  (a \o b)[i] = IF i < k THEN l[i] ELSE l[i + 1]
  <2>1. CASE i < k
    BY <1>1, <1>2, <1>4, <2>1
  <2>2. CASE i >= k
    <3>1. (a \o b)[i] = b[i - (k - 1)]
      BY <1>1, <1>2, <1>4, <2>2
    <3>2. i - (k - 1) \in 1 .. Len(l) - k /\ k + (i - (k - 1)) = i + 1
      BY <2>2
    <3>3. b[i - (k - 1)] = l[k + (i - (k - 1))]
      BY <1>2, <3>2
    <3> QED BY <3>1, <3>2, <3>3, <2>2
  <2>3. i < k \/ i >= k
    OBVIOUS
  <2> QED BY <2>1, <2>2, <2>3
<1> QED BY <1>1, <1>2, <1>3, <1>4, <1>5

LEMMA AppendEntries ==
  ASSUME NEW S, NEW l \in Seq(S), NEW e \in S
  PROVE  /\ Len(l) \in Nat /\ DOMAIN l = 1 .. Len(l)
         /\ DOMAIN Append(l, e) = 1 .. Len(l) + 1
         /\ \A i \in 1 .. Len(l) : Append(l, e)[i] = l[i]
         /\ Append(l, e)[Len(l) + 1] = e
  OBVIOUS

LEMMA AppendToSet ==
  ASSUME NEW S, NEW l \in Seq(S), NEW e \in S
  PROVE  ToSet(Append(l, e)) = ToSet(l) \cup {e}
<1> DEFINE m == Append(l, e)
<1>1. /\ Len(l) \in Nat /\ DOMAIN l = 1 .. Len(l)
      /\ DOMAIN m = 1 .. Len(l) + 1
      /\ \A i \in 1 .. Len(l) : m[i] = l[i]
      /\ m[Len(l) + 1] = e
  BY AppendEntries
<1> HIDE DEF m
<1>2. ToSet(m) = ToSet(l) \cup {e}
  BY <1>1 DEF ToSet
<1> QED BY <1>2 DEF m

LEMMA AppendKeepsInjective ==
  ASSUME NEW S, NEW l \in Seq(S), NEW e \in S, e \notin ToSet(l),
         IsInjective(l)
  PROVE  IsInjective(Append(l, e))
<1> DEFINE m == Append(l, e)
<1>1. /\ Len(l) \in Nat /\ DOMAIN l = 1 .. Len(l)
      /\ DOMAIN m = 1 .. Len(l) + 1
      /\ \A i \in 1 .. Len(l) : m[i] = l[i]
      /\ m[Len(l) + 1] = e
  BY AppendEntries
<1> HIDE DEF m
<1>2. \A i \in DOMAIN l : l[i] # e
  BY DEF ToSet
<1>3. \A i, j \in DOMAIN m : m[i] = m[j] => i = j
  <2> SUFFICES ASSUME NEW i \in DOMAIN m, NEW j \in DOMAIN m, m[i] = m[j]
               PROVE  i = j
    OBVIOUS
  <2>1. i \in DOMAIN l \/ i = Len(l) + 1
    BY <1>1
  <2>2. j \in DOMAIN l \/ j = Len(l) + 1
    BY <1>1
  <2>3. i \in DOMAIN l /\ j \in DOMAIN l => i = j
    BY <1>1 DEF IsInjective
  <2>4. i \in DOMAIN l <=> j \in DOMAIN l
    BY <1>1, <1>2, <2>1, <2>2
  <2> QED BY <2>1, <2>2, <2>3, <2>4
<1>4. IsInjective(m)
  BY <1>3 DEF IsInjective
<1> QED BY <1>4 DEF m

LEMMA AppendHead ==
  ASSUME NEW S, NEW l \in Seq(S), NEW m \in Seq(S), m # <<>>
  PROVE  Append(l, Head(m)) \o Tail(m) = l \o m
<1> DEFINE c == Append(l, Head(m))
           d == Tail(m)
<1>1. /\ d \in Seq(S) /\ Len(m) \in Nat \ {0} /\ Len(d) = Len(m) - 1
      /\ \A i \in 1 .. Len(m) - 1 : d[i] = m[i + 1]
  OBVIOUS
<1>2. /\ c \in Seq(S) /\ Len(l) \in Nat /\ Len(c) = Len(l) + 1
      /\ \A i \in 1 .. Len(l) : c[i] = l[i]
      /\ c[Len(l) + 1] = m[1]
  OBVIOUS
<1> HIDE DEF c, d
<1> DEFINE a == c \o d
           b == l \o m
<1>3. /\ a \in Seq(S) /\ Len(a) = Len(l) + Len(m)
      /\ \A i \in 1 .. Len(a) : a[i] =
           IF i <= Len(l) + 1 THEN c[i] ELSE d[i - (Len(l) + 1)]
  <2>1. /\ a \in Seq(S) /\ Len(a) = Len(c) + Len(d)
        /\ \A i \in 1 .. Len(c) + Len(d) : a[i] =
             IF i <= Len(c) THEN c[i] ELSE d[i - Len(c)]
    BY <1>1, <1>2, ConcatProperties
  <2>2. Len(c) + Len(d) = Len(l) + Len(m)
    BY <1>1, <1>2
  <2> HIDE DEF a
  <2> QED BY <1>2, <2>1, <2>2
<1>4. /\ b \in Seq(S) /\ Len(b) = Len(l) + Len(m)
      /\ \A i \in 1 .. Len(b) : b[i] =
           IF i <= Len(l) THEN l[i] ELSE m[i - Len(l)]
  BY ConcatProperties
<1> HIDE DEF a, b
<1>5. ASSUME NEW i \in 1 .. Len(a) PROVE a[i] = b[i]
  <2>1. CASE i <= Len(l)
    BY <1>1, <1>2, <1>3, <1>4, <2>1
  <2>2. CASE i = Len(l) + 1
    BY <1>1, <1>2, <1>3, <1>4, <2>2
  <2>3. CASE i > Len(l) + 1
    <3>1. i - (Len(l) + 1) \in 1 .. Len(m) - 1
      BY <1>1, <1>2, <1>3, <2>3
    <3>2. a[i] = d[i - (Len(l) + 1)]
      BY <1>2, <1>3, <2>3
    <3>5. d[i - (Len(l) + 1)] = m[(i - (Len(l) + 1)) + 1]
      BY <1>1, <3>1
    <3>3. (i - (Len(l) + 1)) + 1 = i - Len(l)
      BY <1>1, <1>2, <1>3
    <3>4. b[i] = m[i - Len(l)]
      BY <1>1, <1>2, <1>3, <1>4, <2>3
    <3> QED BY <3>2, <3>3, <3>4, <3>5
  <2>4. i <= Len(l) \/ i = Len(l) + 1 \/ i > Len(l) + 1
    BY <1>1, <1>2, <1>3
  <2> QED BY <2>1, <2>2, <2>3, <2>4
<1>6. a = b
  BY <1>3, <1>4, <1>5, SeqEqual
<1> QED BY <1>6 DEF a, b, c, d

(* The entries of l are entries of g, in the order they have there. *)
Ranked(l, g) ==
  /\ \A i \in DOMAIN l : \E a \in DOMAIN g : g[a] = l[i]
  /\ \A i, j \in DOMAIN l, a, b \in DOMAIN g :
       i < j /\ g[a] = l[i] /\ g[b] = l[j] => a < b

LEMMA RankedRemoval ==
  ASSUME NEW S, NEW l \in Seq(S), NEW g \in Seq(S), Ranked(l, g),
         NEW k \in 1 .. Len(l)
  PROVE  Ranked(RemoveAt(l, k), g)
<1> DEFINE m == RemoveAt(l, k)
<1>1. /\ DOMAIN l = 1 .. Len(l)
      /\ DOMAIN m = 1 .. Len(l) - 1
      /\ \A i \in DOMAIN m : m[i] = IF i < k THEN l[i] ELSE l[i + 1]
  <2>1. /\ m \in Seq(S) /\ Len(m) = Len(l) - 1
        /\ \A i \in 1 .. Len(l) - 1 :
             m[i] = IF i < k THEN l[i] ELSE l[i + 1]
    BY RemoveAtProperties
  <2> HIDE DEF m
  <2> QED BY <2>1
<1> HIDE DEF m
<1>2. PICK f \in [DOMAIN m -> DOMAIN l] :
        /\ \A i \in DOMAIN m : m[i] = l[f[i]]
        /\ \A i, j \in DOMAIN m : i < j => f[i] < f[j]
  <2> DEFINE f == [i \in DOMAIN m |-> IF i < k THEN i ELSE i + 1]
  <2>1. f \in [DOMAIN m -> DOMAIN l]
    BY <1>1
  <2>2. /\ \A i \in DOMAIN m : m[i] = l[f[i]]
        /\ \A i, j \in DOMAIN m : i < j => f[i] < f[j]
    BY <1>1
  <2> QED BY <2>1, <2>2
<1>3. \A i \in DOMAIN m : \E a \in DOMAIN g : g[a] = m[i]
  BY <1>2 DEF Ranked
<1>4. \A i, j \in DOMAIN m, a, b \in DOMAIN g :
        i < j /\ g[a] = m[i] /\ g[b] = m[j] => a < b
  BY <1>2 DEF Ranked
<1>5. Ranked(m, g)
  BY <1>3, <1>4 DEF Ranked
<1> QED BY <1>5 DEF m

LEMMA RankedAppend ==
  ASSUME NEW S, NEW l \in Seq(S), NEW g \in Seq(S), Ranked(l, g), NEW e \in S,
         \A a \in DOMAIN g : g[a] # e
  PROVE  Ranked(Append(l, e), Append(g, e))
<1> DEFINE m == Append(l, e)
           h == Append(g, e)
<1>1. /\ Len(l) \in Nat /\ DOMAIN l = 1 .. Len(l)
      /\ DOMAIN m = 1 .. Len(l) + 1
      /\ \A i \in 1 .. Len(l) : m[i] = l[i]
      /\ m[Len(l) + 1] = e
  BY AppendEntries
<1>2. /\ Len(g) \in Nat /\ DOMAIN g = 1 .. Len(g)
      /\ DOMAIN h = 1 .. Len(g) + 1
      /\ \A a \in 1 .. Len(g) : h[a] = g[a]
      /\ h[Len(g) + 1] = e
  BY AppendEntries
<1> HIDE DEF m, h
<1>3. \A i \in DOMAIN l : l[i] # e
  BY DEF Ranked
<1>4. ASSUME NEW i \in DOMAIN m PROVE \E a \in DOMAIN h : h[a] = m[i]
  <2>1. CASE i = Len(l) + 1
    BY <1>1, <1>2, <2>1
  <2>2. CASE i \in DOMAIN l
    <3>1. PICK a \in DOMAIN g : g[a] = l[i]
      BY <2>2 DEF Ranked
    <3> QED BY <1>1, <1>2, <2>2, <3>1
  <2> QED BY <1>1, <2>1, <2>2
<1>5. ASSUME NEW i \in DOMAIN m, NEW j \in DOMAIN m,
             NEW a \in DOMAIN h, NEW b \in DOMAIN h,
             i < j, h[a] = m[i], h[b] = m[j]
      PROVE  a < b
  <2>1. i \in DOMAIN l /\ m[i] = l[i]
    BY <1>1, <1>5
  <2>2. a \in DOMAIN g /\ g[a] = l[i]
    BY <1>2, <1>3, <1>5, <2>1
  <2>3. CASE j \in DOMAIN l
    <3>1. b \in DOMAIN g /\ g[b] = l[j]
      BY <1>1, <1>2, <1>3, <1>5, <2>3
    <3> QED BY <1>5, <2>1, <2>2, <2>3, <3>1 DEF Ranked
  <2>4. CASE j = Len(l) + 1
    <3>1. m[j] = e
      BY <1>1, <2>4
    <3>2. b = Len(g) + 1
      BY <1>2, <1>5, <3>1
    <3> QED BY <1>2, <2>2, <3>2
  <2> QED BY <1>1, <2>3, <2>4
<1>6. Ranked(m, h)
  BY <1>4, <1>5 DEF Ranked
<1> QED BY <1>6 DEF m, h

(* Removing position k leaves every other entry. *)
LEMMA RemoveAtToSet ==
  ASSUME NEW S, NEW l \in Seq(S), NEW k \in 1 .. Len(l)
  PROVE  ToSet(l) \subseteq ToSet(RemoveAt(l, k)) \cup {l[k]}
<1> DEFINE m == RemoveAt(l, k)
<1>1. /\ m \in Seq(S) /\ Len(m) = Len(l) - 1
      /\ \A i \in 1 .. Len(l) - 1 : m[i] = IF i < k THEN l[i] ELSE l[i + 1]
  BY RemoveAtProperties
<1> HIDE DEF m
<1>2. ASSUME NEW i \in DOMAIN l, i # k PROVE l[i] \in ToSet(m)
  <2>1. CASE i < k
    <3>1. i \in DOMAIN m /\ m[i] = l[i]
      BY <1>1, <2>1
    <3> QED BY <3>1 DEF ToSet
  <2>2. CASE i > k
    <3>1. i - 1 \in 1 .. Len(l) - 1 /\ ~(i - 1 < k) /\ (i - 1) + 1 = i
      BY <2>2
    <3>2. i - 1 \in DOMAIN m /\ m[i - 1] = l[i]
      BY <1>1, <3>1
    <3> QED BY <3>2 DEF ToSet
  <2>3. i < k \/ i > k
    BY <1>2
  <2> QED BY <2>1, <2>2, <2>3
<1>3. ToSet(l) \subseteq ToSet(m) \cup {l[k]}
  BY <1>2 DEF ToSet
<1> QED BY <1>3 DEF m


LEMMA MinOfPositions ==
  ASSUME NEW n \in Nat, NEW S \in SUBSET (1 .. n), S # {}
  PROVE  Min(S) \in S
<1>1. S \in SUBSET Nat
  OBVIOUS
<1>2. PICK x \in S : \A y \in S : x <= y
  BY <1>1, LeastNatural
<1>3. x \in S /\ \A y \in S : x <= y
  BY <1>2
<1> QED BY <1>3 DEF Min

(* The first element and the rest. *)
LEMMA TailEntries ==
  ASSUME NEW S, NEW l \in Seq(S), l # <<>>
  PROVE  /\ Len(l) \in Nat \ {0} /\ DOMAIN l = 1 .. Len(l)
         /\ Head(l) \in S /\ Head(l) = l[1]
         /\ Tail(l) \in Seq(S) /\ DOMAIN Tail(l) = 1 .. Len(l) - 1
         /\ \A i \in 1 .. Len(l) - 1 : Tail(l)[i] = l[i + 1]
  OBVIOUS

LEMMA TailToSet ==
  ASSUME NEW S, NEW l \in Seq(S), l # <<>>
  PROVE  ToSet(l) = ToSet(Tail(l)) \cup {Head(l)}
<1> DEFINE t == Tail(l)
           h == Head(l)
<1>1. /\ Len(l) \in Nat \ {0} /\ DOMAIN l = 1 .. Len(l) /\ h = l[1]
      /\ DOMAIN t = 1 .. Len(l) - 1
      /\ \A i \in 1 .. Len(l) - 1 : t[i] = l[i + 1]
  BY TailEntries
<1> HIDE DEF t, h
<1>2. ASSUME NEW i \in DOMAIN l PROVE l[i] \in ToSet(t) \cup {h}
  <2>1. CASE i = 1
    BY <1>1, <2>1
  <2>2. CASE i # 1
    <3>1. i - 1 \in DOMAIN t /\ t[i - 1] = l[i]
      BY <1>1, <2>2
    <3> QED BY <3>1 DEF ToSet
  <2> QED BY <2>1, <2>2
<1>3. ASSUME NEW i \in DOMAIN t PROVE t[i] \in ToSet(l)
  <2>1. i + 1 \in DOMAIN l /\ t[i] = l[i + 1]
    BY <1>1
  <2> QED BY <2>1 DEF ToSet
<1>4. h \in ToSet(l)
  BY <1>1 DEF ToSet
<1>5. ToSet(l) = ToSet(t) \cup {h}
  BY <1>2, <1>3, <1>4 DEF ToSet
<1> QED BY <1>5 DEF t, h

LEMMA TailInjective ==
  ASSUME NEW S, NEW l \in Seq(S), l # <<>>, IsInjective(l)
  PROVE  IsInjective(Tail(l)) /\ Head(l) \notin ToSet(Tail(l))
<1> DEFINE t == Tail(l)
           h == Head(l)
<1>1. /\ Len(l) \in Nat \ {0} /\ DOMAIN l = 1 .. Len(l) /\ h = l[1]
      /\ DOMAIN t = 1 .. Len(l) - 1
      /\ \A i \in 1 .. Len(l) - 1 : t[i] = l[i + 1]
  BY TailEntries
<1> HIDE DEF t, h
<1>2. ASSUME NEW i \in DOMAIN t PROVE t[i] # h
  <2>1. i + 1 \in DOMAIN l /\ i + 1 # 1 /\ 1 \in DOMAIN l
    BY <1>1
  <2> QED BY <1>1, <2>1 DEF IsInjective
<1>3. ASSUME NEW i \in DOMAIN t, NEW j \in DOMAIN t, t[i] = t[j]
      PROVE  i = j
  <2>1. i + 1 \in DOMAIN l /\ j + 1 \in DOMAIN l /\ l[i + 1] = l[j + 1]
    BY <1>1, <1>3
  <2>2. i + 1 = j + 1
    BY <2>1 DEF IsInjective
  <2> QED BY <1>1, <2>2
<1>4. IsInjective(t) /\ h \notin ToSet(t)
  BY <1>2, <1>3 DEF IsInjective, ToSet
<1> QED BY <1>4 DEF t, h

LEMMA RemoveAtInjective ==
  ASSUME NEW S, NEW l \in Seq(S), IsInjective(l), NEW k \in 1 .. Len(l)
  PROVE  /\ IsInjective(RemoveAt(l, k))
         /\ ToSet(RemoveAt(l, k)) = ToSet(l) \ {l[k]}
<1> DEFINE m == RemoveAt(l, k)
<1>1. /\ DOMAIN l = 1 .. Len(l) /\ Len(l) \in Nat
      /\ DOMAIN m = 1 .. Len(l) - 1
      /\ \A i \in DOMAIN m : m[i] = IF i < k THEN l[i] ELSE l[i + 1]
  <2>1. /\ m \in Seq(S) /\ Len(m) = Len(l) - 1
        /\ \A i \in 1 .. Len(l) - 1 :
             m[i] = IF i < k THEN l[i] ELSE l[i + 1]
    BY RemoveAtProperties
  <2> HIDE DEF m
  <2> QED BY <2>1
<1>2. ToSet(l) \subseteq ToSet(m) \cup {l[k]}
  BY RemoveAtToSet
<1> HIDE DEF m
<1>3. ASSUME NEW i \in DOMAIN m
      PROVE  \E a \in DOMAIN l \ {k} :
               m[i] = l[a] /\ a = IF i < k THEN i ELSE i + 1
  BY <1>1
<1>4. IsInjective(m)
  <2> SUFFICES ASSUME NEW i \in DOMAIN m, NEW j \in DOMAIN m, m[i] = m[j]
               PROVE  i = j
    BY DEF IsInjective
  <2>1. PICK a \in DOMAIN l \ {k} :
          m[i] = l[a] /\ a = IF i < k THEN i ELSE i + 1
    BY <1>3
  <2>2. PICK b \in DOMAIN l \ {k} :
          m[j] = l[b] /\ b = IF j < k THEN j ELSE j + 1
    BY <1>3
  <2>3. a = b
    BY <2>1, <2>2 DEF IsInjective
  <2> QED BY <1>1, <2>1, <2>2, <2>3
<1>5. \A i \in DOMAIN m : m[i] \in ToSet(l) \ {l[k]}
  BY <1>1, <1>3 DEF IsInjective, ToSet
<1>6. ToSet(m) = ToSet(l) \ {l[k]}
  BY <1>2, <1>5 DEF ToSet
<1> QED BY <1>4, <1>6 DEF m

LEMMA RemoveFirstInjective ==
  ASSUME NEW S, NEW l \in Seq(S), IsInjective(l), NEW e
  PROVE  /\ RemoveFirst(l, e) \in Seq(S)
         /\ IsInjective(RemoveFirst(l, e))
         /\ ToSet(RemoveFirst(l, e)) = ToSet(l) \ {e}
<1>1. Len(l) \in Nat /\ DOMAIN l = 1 .. Len(l)
  OBVIOUS
<1>2. CASE \E i \in 1 .. Len(l) : l[i] = e
  <2> DEFINE I == {i \in 1 .. Len(l) : l[i] = e}
             k == Min(I)
  <2>1. I \in SUBSET (1 .. Len(l)) /\ I # {}
    BY <1>2
  <2>2. k \in I
    BY <1>1, <2>1, MinOfPositions
  <2>3. SelectInSeq(l, LAMBDA v : v = e) = k
    BY <2>1 DEF SelectInSeq
  <2>4. RemoveFirst(l, e) = RemoveAt(l, k)
    BY <1>2, <2>3 DEF RemoveFirst
  <2>5. k \in 1 .. Len(l) /\ l[k] = e
    BY <2>2
  <2> HIDE DEF k
  <2> QED BY <2>4, <2>5, RemoveAtProperties, RemoveAtInjective
<1>3. CASE ~ \E i \in 1 .. Len(l) : l[i] = e
  <2>1. RemoveFirst(l, e) = l
    BY <1>3 DEF RemoveFirst
  <2>2. e \notin ToSet(l)
    BY <1>1, <1>3 DEF ToSet
  <2> QED BY <2>1, <2>2
<1> QED BY <1>2, <1>3

-----------------------------------------------------------------------------
(* Parts of sequences, and sequences ordered by a relation. *)

OrderedBy(s, R) == \A i, j \in DOMAIN s : i < j => <<s[i], s[j]>> \in R

AllBefore(A, B, R) == \A x \in A, y \in B : <<x, y>> \in R

(* The elements of a sequence, position by position. *)
LEMMA EntryInToSet ==
  ASSUME NEW S, NEW s \in Seq(S)
  PROVE  /\ ToSet(s) \subseteq S
         /\ \A i \in DOMAIN s : s[i] \in ToSet(s)
         /\ DOMAIN s = 1 .. Len(s) /\ Len(s) \in Nat
         /\ ToSet(s) = {} <=> s = <<>>
  BY DEF ToSet

(* A sequence cut in two. *)
LEMMA CutEntries ==
  ASSUME NEW S, NEW s \in Seq(S), NEW n \in 0 .. Len(s)
  PROVE  LET p == SubSeq(s, 1, n)
             r == SubSeq(s, n + 1, Len(s))
         IN  /\ p \in Seq(S) /\ Len(p) = n /\ DOMAIN p = 1 .. n
             /\ \A i \in 1 .. n : p[i] = s[i]
             /\ r \in Seq(S) /\ Len(r) = Len(s) - n /\ DOMAIN r = 1 .. (Len(s) - n)
             /\ \A i \in 1 .. (Len(s) - n) : r[i] = s[n + i]
  OBVIOUS

LEMMA CutNothing ==
  ASSUME NEW S, NEW s \in Seq(S)
  PROVE  SubSeq(s, 1, Len(s)) = s /\ SubSeq(s, 0 + 1, Len(s)) = s
<1> DEFINE p == SubSeq(s, 1, Len(s))
<1>1. p \in Seq(S) /\ Len(p) = Len(s) /\ \A i \in 1 .. Len(s) : p[i] = s[i]
  BY CutEntries, LenProperties
<1> HIDE DEF p
<1>2. p = s
  BY <1>1, SeqEqual
<1> QED
  BY <1>2 DEF p

LEMMA CutAll ==
  ASSUME NEW S, NEW s \in Seq(S)
  PROVE  SubSeq(s, Len(s) + 1, Len(s)) = <<>>
<1> DEFINE r == SubSeq(s, Len(s) + 1, Len(s))
<1>1. r \in Seq(S) /\ Len(r) = 0
  BY CutEntries, LenProperties
<1> HIDE DEF r
<1>2. r = <<>>
  BY <1>1, EmptySeq
<1> QED
  BY <1>2 DEF r

LEMMA CutToSet ==
  ASSUME NEW S, NEW s \in Seq(S), NEW n \in 0 .. Len(s)
  PROVE  ToSet(s) = ToSet(SubSeq(s, 1, n)) \cup ToSet(SubSeq(s, n + 1, Len(s)))
<1> DEFINE p == SubSeq(s, 1, n)
           r == SubSeq(s, n + 1, Len(s))
<1>1. /\ DOMAIN p = 1 .. n /\ \A i \in 1 .. n : p[i] = s[i]
      /\ DOMAIN r = 1 .. (Len(s) - n) /\ \A i \in 1 .. (Len(s) - n) : r[i] = s[n + i]
      /\ Len(s) \in Nat /\ DOMAIN s = 1 .. Len(s)
  BY CutEntries, LenProperties
<1> HIDE DEF p, r
<1>2. ASSUME NEW i \in DOMAIN s PROVE s[i] \in ToSet(p) \cup ToSet(r)
  <2>1. CASE i <= n
    BY <1>1, <2>1 DEF ToSet
  <2>2. CASE ~(i <= n)
    <3>1. i - n \in DOMAIN r /\ r[i - n] = s[i]
      BY <1>1, <2>2
    <3> QED BY <3>1 DEF ToSet
  <2> QED BY <2>1, <2>2
<1>3. ASSUME NEW i \in DOMAIN p PROVE p[i] \in ToSet(s)
  BY <1>1 DEF ToSet
<1>4. ASSUME NEW i \in DOMAIN r PROVE r[i] \in ToSet(s)
  <2>1. n + i \in DOMAIN s /\ r[i] = s[n + i]
    BY <1>1
  <2> QED BY <2>1 DEF ToSet
<1>5. ToSet(s) = ToSet(p) \cup ToSet(r)
  BY <1>2, <1>3, <1>4 DEF ToSet
<1> QED BY <1>5 DEF p, r

LEMMA CutOrdered ==
  ASSUME NEW S, NEW s \in Seq(S), NEW n \in 0 .. Len(s), NEW R, OrderedBy(s, R)
  PROVE  /\ OrderedBy(SubSeq(s, 1, n), R)
         /\ OrderedBy(SubSeq(s, n + 1, Len(s)), R)
         /\ AllBefore(ToSet(SubSeq(s, 1, n)), ToSet(SubSeq(s, n + 1, Len(s))), R)
<1> DEFINE p == SubSeq(s, 1, n)
           r == SubSeq(s, n + 1, Len(s))
<1>1. /\ DOMAIN p = 1 .. n /\ \A i \in 1 .. n : p[i] = s[i]
      /\ DOMAIN r = 1 .. (Len(s) - n) /\ \A i \in 1 .. (Len(s) - n) : r[i] = s[n + i]
      /\ Len(s) \in Nat /\ DOMAIN s = 1 .. Len(s)
  BY CutEntries, LenProperties
<1> HIDE DEF p, r
<1>2. OrderedBy(p, R)
  <2> SUFFICES ASSUME NEW i \in DOMAIN p, NEW j \in DOMAIN p, i < j
               PROVE  <<p[i], p[j]>> \in R
    BY DEF OrderedBy
  <2>1. i \in DOMAIN s /\ j \in DOMAIN s
    BY <1>1
  <2> QED BY <1>1, <2>1 DEF OrderedBy
<1>3. OrderedBy(r, R)
  <2> SUFFICES ASSUME NEW i \in DOMAIN r, NEW j \in DOMAIN r, i < j
               PROVE  <<r[i], r[j]>> \in R
    BY DEF OrderedBy
  <2>1. n + i \in DOMAIN s /\ n + j \in DOMAIN s /\ n + i < n + j
    BY <1>1
  <2>2. r[i] = s[n + i] /\ r[j] = s[n + j]
    BY <1>1
  <2>3. <<s[n + i], s[n + j]>> \in R
    BY <2>1 DEF OrderedBy
  <2> QED BY <2>2, <2>3
<1>4. AllBefore(ToSet(p), ToSet(r), R)
  <2> SUFFICES ASSUME NEW i \in DOMAIN p, NEW j \in DOMAIN r
               PROVE  <<p[i], r[j]>> \in R
    BY DEF AllBefore, ToSet
  <2>1. i \in DOMAIN s /\ n + j \in DOMAIN s /\ i < n + j
    BY <1>1
  <2>2. p[i] = s[i] /\ r[j] = s[n + j]
    BY <1>1
  <2>3. <<s[i], s[n + j]>> \in R
    BY <2>1 DEF OrderedBy
  <2> QED BY <2>2, <2>3
<1> QED BY <1>2, <1>3, <1>4 DEF p, r

(* Two sequences put together. *)
LEMMA JoinEntries ==
  ASSUME NEW S, NEW a \in Seq(S), NEW b \in Seq(S)
  PROVE  /\ a \o b \in Seq(S) /\ Len(a \o b) = Len(a) + Len(b)
         /\ Len(a) \in Nat /\ Len(b) \in Nat
         /\ DOMAIN a = 1 .. Len(a) /\ DOMAIN b = 1 .. Len(b)
         /\ DOMAIN (a \o b) = 1 .. (Len(a) + Len(b))
         /\ \A i \in 1 .. Len(a) : (a \o b)[i] = a[i]
         /\ \A i \in 1 .. (Len(a) + Len(b)) : ~(i <= Len(a)) => (a \o b)[i] = b[i - Len(a)]
  OBVIOUS

LEMMA JoinToSet ==
  ASSUME NEW S, NEW a \in Seq(S), NEW b \in Seq(S)
  PROVE  ToSet(a \o b) = ToSet(a) \cup ToSet(b)
<1> DEFINE c == a \o b
<1>1. /\ Len(a) \in Nat /\ Len(b) \in Nat
      /\ DOMAIN a = 1 .. Len(a) /\ DOMAIN b = 1 .. Len(b)
      /\ DOMAIN c = 1 .. (Len(a) + Len(b))
      /\ \A i \in 1 .. Len(a) : c[i] = a[i]
      /\ \A i \in 1 .. (Len(a) + Len(b)) : ~(i <= Len(a)) => c[i] = b[i - Len(a)]
  BY JoinEntries
<1> HIDE DEF c
<1>2. ASSUME NEW i \in DOMAIN c PROVE c[i] \in ToSet(a) \cup ToSet(b)
  <2>1. CASE i <= Len(a)
    BY <1>1, <2>1 DEF ToSet
  <2>2. CASE ~(i <= Len(a))
    <3>1. i - Len(a) \in DOMAIN b /\ c[i] = b[i - Len(a)]
      BY <1>1, <2>2
    <3> QED BY <3>1 DEF ToSet
  <2> QED BY <2>1, <2>2
<1>3. ASSUME NEW i \in DOMAIN a PROVE a[i] \in ToSet(c)
  <2>1. i \in DOMAIN c /\ c[i] = a[i]
    BY <1>1
  <2> QED BY <2>1 DEF ToSet
<1>4. ASSUME NEW i \in DOMAIN b PROVE b[i] \in ToSet(c)
  <2>1. Len(a) + i \in DOMAIN c /\ ~(Len(a) + i <= Len(a)) /\ (Len(a) + i) - Len(a) = i
    BY <1>1
  <2>2. c[Len(a) + i] = b[i]
    BY <1>1, <2>1
  <2> QED BY <2>1, <2>2 DEF ToSet
<1>5. ToSet(c) = ToSet(a) \cup ToSet(b)
  BY <1>2, <1>3, <1>4 DEF ToSet
<1> QED BY <1>5 DEF c

LEMMA JoinOrdered ==
  ASSUME NEW S, NEW a \in Seq(S), NEW b \in Seq(S), NEW R,
         OrderedBy(a, R), OrderedBy(b, R), AllBefore(ToSet(a), ToSet(b), R)
  PROVE  OrderedBy(a \o b, R)
<1> DEFINE c == a \o b
<1>1. /\ Len(a) \in Nat /\ Len(b) \in Nat
      /\ DOMAIN a = 1 .. Len(a) /\ DOMAIN b = 1 .. Len(b)
      /\ DOMAIN c = 1 .. (Len(a) + Len(b))
      /\ \A i \in 1 .. Len(a) : c[i] = a[i]
      /\ \A i \in 1 .. (Len(a) + Len(b)) : ~(i <= Len(a)) => c[i] = b[i - Len(a)]
  BY JoinEntries
<1> HIDE DEF c
<1> SUFFICES ASSUME NEW i \in DOMAIN c, NEW j \in DOMAIN c, i < j
             PROVE  <<c[i], c[j]>> \in R
  BY DEF OrderedBy, c
<1>2. CASE j <= Len(a)
  <2>1. i \in DOMAIN a /\ j \in DOMAIN a /\ c[i] = a[i] /\ c[j] = a[j]
    BY <1>1, <1>2
  <2> QED BY <2>1 DEF OrderedBy
<1>3. CASE ~(i <= Len(a))
  <2>1. /\ i - Len(a) \in DOMAIN b /\ j - Len(a) \in DOMAIN b /\ i - Len(a) < j - Len(a)
        /\ ~(j <= Len(a))
    BY <1>1, <1>3
  <2>2. c[i] = b[i - Len(a)] /\ c[j] = b[j - Len(a)]
    BY <1>1, <1>3, <2>1
  <2>3. <<b[i - Len(a)], b[j - Len(a)]>> \in R
    BY <2>1 DEF OrderedBy
  <2> QED BY <2>2, <2>3
<1>4. CASE i <= Len(a) /\ ~(j <= Len(a))
  <2>1. i \in DOMAIN a /\ j - Len(a) \in DOMAIN b
    BY <1>1, <1>4
  <2>2. c[i] = a[i] /\ c[j] = b[j - Len(a)]
    BY <1>1, <1>4
  <2>3. a[i] \in ToSet(a) /\ b[j - Len(a)] \in ToSet(b)
    BY <2>1 DEF ToSet
  <2> QED BY <2>2, <2>3 DEF AllBefore
<1> QED BY <1>1, <1>2, <1>3, <1>4

(* A sequence with one more element. *)
LEMMA AppendOrdered ==
  ASSUME NEW S, NEW l \in Seq(S), NEW e \in S, NEW R,
         OrderedBy(l, R), AllBefore(ToSet(l), {e}, R)
  PROVE  OrderedBy(Append(l, e), R)
<1> DEFINE m == Append(l, e)
<1>1. /\ Len(l) \in Nat /\ DOMAIN l = 1 .. Len(l)
      /\ DOMAIN m = 1 .. Len(l) + 1
      /\ \A i \in 1 .. Len(l) : m[i] = l[i]
      /\ m[Len(l) + 1] = e
  BY AppendEntries
<1> HIDE DEF m
<1> SUFFICES ASSUME NEW i \in DOMAIN m, NEW j \in DOMAIN m, i < j
             PROVE  <<m[i], m[j]>> \in R
  BY DEF OrderedBy, m
<1>2. i \in DOMAIN l /\ m[i] = l[i]
  BY <1>1
<1>3. CASE j = Len(l) + 1
  <2>1. l[i] \in ToSet(l) /\ m[j] = e
    BY <1>1, <1>2, <1>3 DEF ToSet
  <2> QED BY <1>2, <2>1 DEF AllBefore
<1>4. CASE j # Len(l) + 1
  <2>1. j \in DOMAIN l /\ m[j] = l[j]
    BY <1>1, <1>4
  <2> QED BY <1>2, <2>1 DEF OrderedBy
<1> QED BY <1>3, <1>4

LEMMA TailOrdered ==
  ASSUME NEW S, NEW l \in Seq(S), l # <<>>, NEW R, OrderedBy(l, R)
  PROVE  OrderedBy(Tail(l), R)
<1> DEFINE t == Tail(l)
<1>1. /\ Len(l) \in Nat \ {0} /\ DOMAIN l = 1 .. Len(l)
      /\ DOMAIN t = 1 .. Len(l) - 1
      /\ \A i \in 1 .. Len(l) - 1 : t[i] = l[i + 1]
  BY TailEntries
<1> HIDE DEF t
<1> SUFFICES ASSUME NEW i \in DOMAIN t, NEW j \in DOMAIN t, i < j
             PROVE  <<t[i], t[j]>> \in R
  BY DEF OrderedBy, t
<1>2. i + 1 \in DOMAIN l /\ j + 1 \in DOMAIN l /\ i + 1 < j + 1
  BY <1>1
<1>3. t[i] = l[i + 1] /\ t[j] = l[j + 1]
  BY <1>1
<1>4. <<l[i + 1], l[j + 1]>> \in R
  BY <1>2 DEF OrderedBy
<1> QED BY <1>3, <1>4

(* Another relation that keeps what holds between the elements. *)
LEMMA OrderedUnder ==
  ASSUME NEW S, NEW s \in Seq(S), NEW R, NEW T, OrderedBy(s, R),
         \A x, y \in ToSet(s) : <<x, y>> \in R => <<x, y>> \in T
  PROVE  OrderedBy(s, T)
  BY EntryInToSet DEF OrderedBy

-----------------------------------------------------------------------------
(* Induction up to a bound. *)
LEMMA UpwardInduction ==
  ASSUME NEW n \in Nat, NEW Good, 0 \in Good,
         \A k \in 1..n : k - 1 \in Good => k \in Good
  PROVE  \A k \in 0..n : k \in Good
<1> SUFFICES ASSUME NEW x \in 0..n, x \notin Good PROVE FALSE
  OBVIOUS
<1> DEFINE Bad == {k \in 0..n : k \notin Good}
<1>1. Bad \in SUBSET Nat /\ Bad # {}
  OBVIOUS
<1>2. PICK k \in Bad : \A m \in Bad : k <= m
  BY <1>1, LeastNatural
<1>3. k \in 1..n /\ k - 1 \in 0..n
  BY <1>2
<1>4. k - 1 \notin Bad
  BY <1>2, <1>3
<1> QED BY <1>2, <1>3, <1>4

(* The last of the first k positions. *)
LEMMA LastPosition ==
  ASSUME NEW k \in Nat \ {0}
  PROVE  1..k # {} /\ Max(1..k) = k /\ (1..k) \ {k} = 1..(k - 1)
<1>1. \A i \in 1..k : k >= i
  OBVIOUS
<1> DEFINE S == 1..k
<1>2. S \in SUBSET (1..k) /\ S # {} /\ k \in Nat
  OBVIOUS
<1> HIDE DEF S
<1>3. Max(S) \in S /\ \A i \in S : i <= Max(S)
  BY <1>2, MaxOfPositions
<1> USE DEF S
<1> QED BY <1>1, <1>2, <1>3

(* FoldLeft is defined by recursion over sets of positions: there is a     *)
(* function that obeys it, whatever is folded.                             *)
Folds(S, base, step, s, it) ==
  /\ it \in [SUBSET DOMAIN s -> S]
  /\ \A t \in SUBSET DOMAIN s :
       it[t] = IF t = {} THEN base ELSE step[<<it[t \ {Max(t)}], s[Max(t)]>>]

LEMMA FoldExists ==
  ASSUME NEW S, NEW T, NEW base \in S, NEW step \in [S \X T -> S], NEW s \in Seq(T)
  PROVE  \E it : Folds(S, base, step, s, it)
<1> DEFINE Obeys(it, n) ==
             \A t \in SUBSET (1..n) :
               it[t] = IF t = {} THEN base ELSE step[<<it[t \ {Max(t)}], s[Max(t)]>>]
           Good == {n \in 0..Len(s) : \E it \in [SUBSET (1..n) -> S] : Obeys(it, n)}
<1>1. 0 \in Good
  <2> DEFINE it == [t \in SUBSET (1..0) |-> base]
  <2>1. it \in [SUBSET (1..0) -> S] /\ Obeys(it, 0) /\ 0 \in 0..Len(s)
    OBVIOUS
  <2> HIDE DEF it, Obeys
  <2> QED BY <2>1
<1>2. ASSUME NEW n \in 1..Len(s), n - 1 \in Good PROVE n \in Good
  <2>1. PICK old \in [SUBSET (1..(n - 1)) -> S] : Obeys(old, n - 1)
    BY <1>2
  <2> DEFINE it == [t \in SUBSET (1..n) |->
                      IF n \in t THEN step[<<old[t \ {n}], s[n]>>] ELSE old[t]]
  <2>2. ASSUME NEW t \in SUBSET (1..n)
        PROVE  t \ {n} \in SUBSET (1..(n - 1)) /\ it[t \ {n}] = old[t \ {n}]
    OBVIOUS
  <2>3. s[n] \in T
    OBVIOUS
  <2>4. it \in [SUBSET (1..n) -> S]
    <3>1. ASSUME NEW t \in SUBSET (1..n) PROVE it[t] \in S
      <4>1. CASE n \in t
        BY <2>2, <2>3, <4>1
      <4>2. CASE n \notin t
        BY <2>2, <4>2
      <4> QED BY <4>1, <4>2
    <3> QED BY <3>1
  <2>5. ASSUME NEW t \in SUBSET (1..n)
        PROVE  it[t] = IF t = {} THEN base ELSE step[<<it[t \ {Max(t)}], s[Max(t)]>>]
    <3>1. CASE n \in t
      <4>1. Max(t) \in t /\ \A i \in t : i <= Max(t)
        <5>1. n \in Nat /\ t # {}
          BY <3>1
        <5> HIDE DEF it, Good, Obeys
        <5> QED BY <5>1, MaxOfPositions
      <4>2. Max(t) = n
        <5>1. Max(t) \in 1..n /\ n <= Max(t)
          BY <3>1, <4>1
        <5> QED BY <5>1
      <4> HIDE DEF it
      <4>3. it[t] = step[<<it[t \ {n}], s[n]>>]
        BY <2>2, <3>1 DEF it
      <4> QED BY <3>1, <4>2, <4>3
    <3>2. CASE n \notin t
      <4>1. t \in SUBSET (1..(n - 1)) /\ it[t] = old[t]
        BY <3>2
      <4>2. CASE t = {}
        BY <2>1, <4>1, <4>2
      <4>3. CASE t # {}
        <5>1. old[t] = step[<<old[t \ {Max(t)}], s[Max(t)]>>]
          BY <2>1, <4>1, <4>3
        <5>2. t \ {Max(t)} \in SUBSET (1..(n - 1))
          BY <4>1
        <5>3. it[t \ {Max(t)}] = old[t \ {Max(t)}]
          BY <5>2
        <5> HIDE DEF it
        <5> QED BY <4>1, <4>3, <5>1, <5>3
      <4> QED BY <4>2, <4>3
    <3> QED BY <3>1, <3>2
  <2> HIDE DEF it
  <2>6. Obeys(it, n)
    BY <2>5
  <2> HIDE DEF Obeys
  <2>7. n \in 0..Len(s)
    OBVIOUS
  <2> QED BY <2>4, <2>6, <2>7
<1>3. Len(s) \in Good
  <2>1. Len(s) \in Nat /\ Len(s) \in 0..Len(s)
    OBVIOUS
  <2> HIDE DEF Good
  <2> QED BY <1>1, <1>2, <2>1, UpwardInduction
<1>4. DOMAIN s = 1..Len(s)
  OBVIOUS
<1>5. PICK it \in [SUBSET (1..Len(s)) -> S] : Obeys(it, Len(s))
  BY <1>3 DEF Good
<1>6. Folds(S, base, step, s, it)
  BY <1>4, <1>5 DEF Folds
<1> QED BY <1>6

(* The rounds of a fold: what it has after each position. *)
Rounds(S, base, step, s, last, g) ==
  /\ g \in [0..Len(s) -> S]
  /\ g[0] = base /\ g[Len(s)] = last
  /\ \A k \in 1..Len(s) : g[k] = step[<<g[k - 1], s[k]>>]

LEMMA FoldRounds ==
  ASSUME NEW S, NEW T, NEW base \in S, NEW step \in [S \X T -> S], NEW s \in Seq(T),
         NEW it, it[{}] = base,
         \A t \in SUBSET DOMAIN s :
           t # {} /\ it[t \ {Max(t)}] \in S =>
             it[t] = step[<<it[t \ {Max(t)}], s[Max(t)]>>]
  PROVE  \E g : Rounds(S, base, step, s, it[DOMAIN s], g)
<1> DEFINE g == [k \in 0..Len(s) |-> it[1..k]]
<1>1. Len(s) \in Nat /\ DOMAIN s = 1..Len(s) /\ \A i \in 1..Len(s) : s[i] \in T
  OBVIOUS
<1>2. g[0] = base
  <2>1. 1..0 = {} /\ 0 \in 0..Len(s)
    BY <1>1
  <2> QED BY <2>1
<1>3. g[Len(s)] = it[DOMAIN s]
  BY <1>1
<1>4. ASSUME NEW k \in 1..Len(s), g[k - 1] \in S PROVE g[k] = step[<<g[k - 1], s[k]>>]
  <2>1. 1..k # {} /\ Max(1..k) = k /\ (1..k) \ {k} = 1..(k - 1)
    BY LastPosition
  <2>2. 1..k \in SUBSET DOMAIN s /\ k \in 0..Len(s) /\ k - 1 \in 0..Len(s)
    BY <1>1
  <2>3. it[1..(k - 1)] = g[k - 1] /\ it[1..k] = g[k]
    BY <2>2
  <2> HIDE DEF g
  <2>4. it[1..k] = step[<<it[1..(k - 1)], s[k]>>]
    BY <1>4, <2>1, <2>2, <2>3
  <2> QED BY <2>3, <2>4
<1>5. DOMAIN g = 0..Len(s) /\ g = [k \in 0..Len(s) |-> g[k]]
  OBVIOUS
<1> HIDE DEF g
<1> DEFINE Good == {n \in 0..Len(s) : g[n] \in S}
<1>6. 0 \in Good
  BY <1>1, <1>2
<1>7. ASSUME NEW n \in 1..Len(s), n - 1 \in Good PROVE n \in Good
  <2>1. <<g[n - 1], s[n]>> \in S \X T /\ n \in 0..Len(s)
    BY <1>1, <1>7
  <2> QED BY <1>4, <1>7, <2>1
<1>8. \A k \in 0..Len(s) : k \in Good
  <2> HIDE DEF Good
  <2> QED BY <1>1, <1>6, <1>7, UpwardInduction
<1>9. g \in [0..Len(s) -> S]
  BY <1>5, <1>8
<1>10. \A k \in 1..Len(s) : g[k - 1] \in S
  BY <1>1, <1>9
<1>11. Rounds(S, base, step, s, it[DOMAIN s], g)
  BY <1>2, <1>3, <1>4, <1>9, <1>10 DEF Rounds
<1> QED BY <1>11

-----------------------------------------------------------------------------
(* Sums over finite sets. *)

(* SumFunctionOnSet is defined by recursion over the subsets. *)
Summing(f, S, it) ==
  it = [t \in SUBSET S |-> IF t = {} THEN 0
                           ELSE f[CHOOSE x \in t : TRUE] + it[t \ {CHOOSE x \in t : TRUE}]]

(* The subsets of a finite set, and what taking one element away leaves.   *)
LEMMA SmallerSubset ==
  ASSUME NEW S, IsFiniteSet(S), NEW t \in SUBSET S
  PROVE  /\ IsFiniteSet(t) /\ Cardinality(t) \in 0..Cardinality(S) /\ Cardinality(S) \in Nat
         /\ Cardinality(t) = 0 <=> t = {}
         /\ \A x \in t : t \ {x} \in SUBSET S /\ Cardinality(t \ {x}) = Cardinality(t) - 1
<1>1. IsFiniteSet(t) /\ Cardinality(t) <= Cardinality(S)
  BY FS_Subset
<1>2. Cardinality(t) \in Nat /\ Cardinality(S) \in Nat
  BY <1>1, FS_CardinalityType
<1>3. Cardinality(t) = 0 <=> t = {}
  BY <1>1, FS_EmptySet
<1>4. \A x \in t : Cardinality(t \ {x}) = Cardinality(t) - 1
  BY <1>1, FS_RemoveElement
<1> QED BY <1>1, <1>2, <1>3, <1>4

(* The recursion has a solution, built up by the size of the subsets.      *)
LEMMA SummingExists ==
  ASSUME NEW S, IsFiniteSet(S), NEW f, \A x \in S : f[x] \in Nat
  PROVE  \E it \in [SUBSET S -> Nat] : Summing(f, S, it)
<1> DEFINE N == Cardinality(S)
           UpTo(n) == {t \in SUBSET S : Cardinality(t) <= n}
           some(t) == CHOOSE x \in t : TRUE
           Obeys(it, n) ==
             \A t \in UpTo(n) : it[t] = IF t = {} THEN 0 ELSE f[some(t)] + it[t \ {some(t)}]
           Good == {n \in 0..N : \E it \in [UpTo(n) -> Nat] : Obeys(it, n)}
<1>1. \A t \in SUBSET S :
        /\ Cardinality(t) \in 0..N /\ N \in Nat
        /\ Cardinality(t) = 0 <=> t = {}
        /\ t # {} => some(t) \in t
        /\ \A x \in t : t \ {x} \in SUBSET S /\ Cardinality(t \ {x}) = Cardinality(t) - 1
  BY SmallerSubset
<1>2. N \in Nat
  BY FS_CardinalityType
<1> HIDE DEF N, some
<1>3. 0 \in Good
  <2> DEFINE it == [t \in UpTo(0) |-> 0]
  <2>1. \A t \in UpTo(0) : t = {}
    BY <1>1
  <2>2. it \in [UpTo(0) -> Nat] /\ Obeys(it, 0)
    BY <2>1
  <2> HIDE DEF it, Obeys, UpTo
  <2> QED BY <1>2, <2>2
<1>4. ASSUME NEW n \in 1..N, n - 1 \in Good PROVE n \in Good
  <2>1. PICK old \in [UpTo(n - 1) -> Nat] : Obeys(old, n - 1)
    BY <1>4
  <2> DEFINE it == [t \in UpTo(n) |-> IF t = {} THEN 0 ELSE f[some(t)] + old[t \ {some(t)}]]
  <2>2. ASSUME NEW t \in UpTo(n), t # {}
        PROVE  f[some(t)] \in Nat /\ t \ {some(t)} \in UpTo(n - 1) /\ t \ {some(t)} \in UpTo(n)
    BY <1>1, <1>2, <2>2
  <2>3. it \in [UpTo(n) -> Nat]
    <3>1. \A t \in UpTo(n) : it[t] \in Nat
      <4> HIDE DEF UpTo
      <4> QED BY <2>1, <2>2
    <3> QED BY <3>1
  <2>4. ASSUME NEW t \in UpTo(n - 1)
        PROVE  t \in UpTo(n) /\ it[t] = old[t]
    <3>1. t \in UpTo(n)
      BY <1>1, <1>2
    <3>2. old[t] = IF t = {} THEN 0 ELSE f[some(t)] + old[t \ {some(t)}]
      BY <2>1
    <3> QED
      <4> HIDE DEF UpTo
      <4> QED BY <3>1, <3>2
  <2>5. Obeys(it, n)
    <3> SUFFICES ASSUME NEW t \in UpTo(n)
                 PROVE  it[t] = IF t = {} THEN 0 ELSE f[some(t)] + it[t \ {some(t)}]
      OBVIOUS
    <3>1. CASE t = {}
      <4> HIDE DEF UpTo
      <4> QED BY <3>1
    <3>2. CASE t # {}
      <4>1. it[t] = f[some(t)] + old[t \ {some(t)}]
        <5> HIDE DEF UpTo
        <5> QED BY <3>2
      <4> HIDE DEF UpTo, it
      <4> QED BY <2>2, <2>4, <3>2, <4>1
    <3> QED BY <3>1, <3>2
  <2> HIDE DEF it, Obeys, UpTo
  <2> QED BY <1>4, <2>3, <2>5
<1>5. N \in Good
  <2>1. N \in 0..N
    BY <1>2
  <2> HIDE DEF Good
  <2> QED BY <1>2, <1>3, <1>4, <2>1, UpwardInduction
<1>6. UpTo(N) = SUBSET S
  BY <1>1
<1>7. PICK it \in [SUBSET S -> Nat] : Obeys(it, N)
  BY <1>5, <1>6
<1>8. Summing(f, S, it)
  <2>1. \A t \in SUBSET S : it[t] = IF t = {} THEN 0 ELSE f[some(t)] + it[t \ {some(t)}]
    BY <1>6, <1>7
  <2>2. it = [t \in SUBSET S |-> it[t]]
    BY <1>7
  <2> QED BY <2>1, <2>2 DEF Summing, some
<1> QED BY <1>7, <1>8

(* And only one, whichever larger set it is part of.                       *)
LEMMA SummingUnique ==
  ASSUME NEW S, IsFiniteSet(S), NEW f, NEW it, Summing(f, S, it),
         NEW T \in SUBSET S, NEW jt, Summing(f, T, jt)
  PROVE  \A t \in SUBSET T : jt[t] = it[t]
<1> DEFINE N == Cardinality(S)
           Good == {n \in 0..N : \A t \in SUBSET T : Cardinality(t) = n => jt[t] = it[t]}
           some(t) == CHOOSE x \in t : TRUE
<1>1. \A t \in SUBSET T :
        /\ t \in SUBSET S
        /\ it[t] = IF t = {} THEN 0 ELSE f[some(t)] + it[t \ {some(t)}]
        /\ jt[t] = IF t = {} THEN 0 ELSE f[some(t)] + jt[t \ {some(t)}]
        /\ t # {} => some(t) \in t
  BY DEF Summing
<1> HIDE DEF some
<1>2. /\ N \in Nat
      /\ \A t \in SUBSET S :
           /\ Cardinality(t) \in 0..N
           /\ Cardinality(t) = 0 <=> t = {}
           /\ \A x \in t : t \ {x} \in SUBSET S /\ Cardinality(t \ {x}) = Cardinality(t) - 1
  BY SmallerSubset, FS_CardinalityType
<1> HIDE DEF N
<1>3. 0 \in Good
  BY <1>1, <1>2
<1>4. ASSUME NEW n \in 1..N, n - 1 \in Good PROVE n \in Good
  <2>1. ASSUME NEW t \in SUBSET T, Cardinality(t) = n PROVE jt[t] = it[t]
    <3>1. t # {} /\ some(t) \in t
      BY <1>1, <1>2, <2>1
    <3>2. t \ {some(t)} \in SUBSET T /\ Cardinality(t \ {some(t)}) = n - 1
      BY <1>1, <1>2, <2>1, <3>1
    <3>3. jt[t \ {some(t)}] = it[t \ {some(t)}]
      BY <1>4, <3>2
    <3> QED BY <1>1, <3>1, <3>3
  <2> QED BY <1>2, <2>1
<1>5. \A k \in 0..N : k \in Good
  <2> HIDE DEF Good
  <2> QED BY <1>2, <1>3, <1>4, UpwardInduction
<1> QED BY <1>1, <1>2, <1>5

(* One function has the sums over all subsets.                             *)
Table(f, S, it) ==
  /\ it \in [SUBSET S -> Nat]
  /\ Summing(f, S, it)
  /\ \A T \in SUBSET S : SumFunctionOnSet(f, T) = it[T]

(* One table holds the sums over every subset.                             *)
LEMMA SumTable ==
  ASSUME NEW S, IsFiniteSet(S), NEW f, \A x \in S : f[x] \in Nat
  PROVE  \E it : Table(f, S, it)
<1>1. PICK it \in [SUBSET S -> Nat] : Summing(f, S, it)
  BY SummingExists
<1>2. ASSUME NEW T \in SUBSET S PROVE SumFunctionOnSet(f, T) = it[T]
  <2> DEFINE jt == CHOOSE jt : Summing(f, T, jt)
  <2>1. IsFiniteSet(T) /\ \A x \in T : f[x] \in Nat
    BY FS_Subset
  <2>2. Summing(f, T, jt)
    BY <2>1, SummingExists
  <2>3. SumFunctionOnSet(f, T) = jt[T]
    BY DEF SumFunctionOnSet, FoldFunctionOnSet, MapThenFoldSet, Summing
  <2> HIDE DEF jt
  <2> QED BY <1>1, <2>2, <2>3, SummingUnique
<1> QED BY <1>1, <1>2 DEF Table

(* In whatever order the elements are chosen, each is added once.          *)
LEMMA SumSplit ==
  ASSUME NEW S, IsFiniteSet(S), NEW f, \A x \in S : f[x] \in Nat
  PROVE  /\ SumFunctionOnSet(f, {}) = 0
         /\ SumFunctionOnSet(f, S) \in Nat
         /\ \A x \in S : SumFunctionOnSet(f, S) = f[x] + SumFunctionOnSet(f, S \ {x})
<1>1. PICK it : Table(f, S, it)
  BY SumTable
<1> DEFINE N == Cardinality(S)
           some(t) == CHOOSE x \in t : TRUE
<1>2. \A t \in SUBSET S :
        /\ it[t] \in Nat
        /\ t = {} => it[t] = 0
        /\ t # {} => some(t) \in t /\ it[t] = f[some(t)] + it[t \ {some(t)}]
  BY <1>1 DEF Summing, Table
<1> HIDE DEF some
<1>3. /\ N \in Nat
      /\ \A t \in SUBSET S :
           /\ Cardinality(t) \in 0..N
           /\ Cardinality(t) = 0 <=> t = {}
           /\ \A x \in t : t \ {x} \in SUBSET S /\ Cardinality(t \ {x}) = Cardinality(t) - 1
  BY SmallerSubset, FS_CardinalityType
<1> HIDE DEF N
<1> DEFINE Splits(t) == \A x \in t : it[t] = f[x] + it[t \ {x}]
           Good == {n \in 0..N : \A t \in SUBSET S : Cardinality(t) = n => Splits(t)}
<1>4. 0 \in Good
  BY <1>3
<1>5. ASSUME NEW n \in 1..N, n - 1 \in Good PROVE n \in Good
  <2>1. ASSUME NEW t \in SUBSET S, Cardinality(t) = n, NEW x \in t
        PROVE  it[t] = f[x] + it[t \ {x}]
    <3> DEFINE y == some(t)
    <3>1. y \in t /\ it[t] = f[y] + it[t \ {y}]
      BY <1>2
    <3> HIDE DEF y
    <3>2. CASE x # y
      <4>1. /\ t \ {x} \in SUBSET S /\ t \ {y} \in SUBSET S
            /\ Cardinality(t \ {x}) = n - 1 /\ Cardinality(t \ {y}) = n - 1
        BY <1>3, <2>1, <3>1
      <4>2. Splits(t \ {x}) /\ Splits(t \ {y})
        BY <1>5, <4>1
      <4> DEFINE rest == t \ {x, y}
      <4>3. (t \ {x}) \ {y} = rest /\ (t \ {y}) \ {x} = rest /\ rest \in SUBSET S
        OBVIOUS
      <4> HIDE DEF rest
      <4>4. it[t \ {x}] = f[y] + it[rest]
        BY <3>1, <3>2, <4>2, <4>3
      <4>5. it[t \ {y}] = f[x] + it[rest]
        BY <3>2, <4>2, <4>3
      <4>6. f[x] \in Nat /\ f[y] \in Nat /\ it[rest] \in Nat
        BY <1>2, <3>1, <4>3
      <4> QED BY <3>1, <4>4, <4>5, <4>6
    <3> QED BY <3>1, <3>2
  <2> QED BY <1>3, <2>1
<1>6. \A k \in 0..N : k \in Good
  <2> HIDE DEF Good
  <2> QED BY <1>3, <1>4, <1>5, UpwardInduction
<1>7. Splits(S)
  BY <1>3, <1>6
<1>8. {} \in SUBSET S /\ S \in SUBSET S /\ \A x \in S : S \ {x} \in SUBSET S
  OBVIOUS
<1>9. \A T \in SUBSET S : SumFunctionOnSet(f, T) = it[T]
  BY <1>1 DEF Table
<1> QED BY <1>2, <1>7, <1>8, <1>9

(* Induction over the subsets of a finite set.                             *)
LEMMA SubsetInduction ==
  ASSUME NEW S, IsFiniteSet(S), NEW Good, {} \in Good,
         \A t \in SUBSET S : \A x \in t : t \ {x} \in Good => t \in Good
  PROVE  S \in Good
<1> DEFINE N == Cardinality(S)
           K == {n \in 0..N : \A t \in SUBSET S : Cardinality(t) = n => t \in Good}
<1>1. /\ N \in Nat
      /\ \A t \in SUBSET S :
           /\ Cardinality(t) \in 0..N
           /\ Cardinality(t) = 0 <=> t = {}
           /\ \A x \in t : t \ {x} \in SUBSET S /\ Cardinality(t \ {x}) = Cardinality(t) - 1
  BY SmallerSubset, FS_CardinalityType
<1> HIDE DEF N
<1>2. 0 \in K
  BY <1>1
<1>3. ASSUME NEW n \in 1..N, n - 1 \in K PROVE n \in K
  <2>1. ASSUME NEW t \in SUBSET S, Cardinality(t) = n PROVE t \in Good
    <3>1. PICK x \in t : TRUE
      BY <1>1, <2>1
    <3>2. t \ {x} \in SUBSET S /\ Cardinality(t \ {x}) = n - 1
      BY <1>1, <2>1, <3>1
    <3> QED BY <1>3, <3>1, <3>2
  <2> QED BY <1>1, <2>1
<1>4. \A k \in 0..N : k \in K
  <2> HIDE DEF K
  <2> QED BY <1>1, <1>2, <1>3, UpwardInduction
<1>5. S \in SUBSET S
  OBVIOUS
<1> QED BY <1>1, <1>4, <1>5

(* Sums of functions that agree are equal.                                 *)
LEMMA SumSame ==
  ASSUME NEW S, IsFiniteSet(S), NEW f, NEW g, \A x \in S : f[x] \in Nat /\ g[x] = f[x]
  PROVE  SumFunctionOnSet(g, S) = SumFunctionOnSet(f, S)
<1> DEFINE Good == {t \in SUBSET S : SumFunctionOnSet(g, t) = SumFunctionOnSet(f, t)}
<1>1. {} \in Good
  BY SumSplit, FS_EmptySet
<1>2. ASSUME NEW t \in SUBSET S, NEW x \in t, t \ {x} \in Good PROVE t \in Good
  <2>1. IsFiniteSet(t)
    BY FS_Subset
  <2>2. SumFunctionOnSet(f, t) = f[x] + SumFunctionOnSet(f, t \ {x})
    BY <2>1, SumSplit
  <2>3. SumFunctionOnSet(g, t) = g[x] + SumFunctionOnSet(g, t \ {x})
    BY <2>1, SumSplit
  <2> QED BY <1>2, <2>2, <2>3
<1>3. S \in Good
  <2> HIDE DEF Good
  <2> QED BY <1>1, <1>2, SubsetInduction
<1> QED BY <1>3

(* The sum grows by what one element grows.                                *)
LEMMA SumAdded ==
  ASSUME NEW S, IsFiniteSet(S), NEW f, NEW g, NEW x,
         \A y \in S : f[y] \in Nat /\ g[y] = IF y = x THEN f[y] + 1 ELSE f[y]
  PROVE  SumFunctionOnSet(g, S) = SumFunctionOnSet(f, S) + (IF x \in S THEN 1 ELSE 0)
<1>1. CASE x \in S
  <2>1. IsFiniteSet(S \ {x})
    BY FS_RemoveElement
  <2>2. SumFunctionOnSet(g, S \ {x}) = SumFunctionOnSet(f, S \ {x})
    BY <2>1, SumSame
  <2>3. \A y \in S : g[y] \in Nat
    OBVIOUS
  <2>4. /\ SumFunctionOnSet(f, S) = f[x] + SumFunctionOnSet(f, S \ {x})
        /\ SumFunctionOnSet(g, S) = g[x] + SumFunctionOnSet(g, S \ {x})
    BY <1>1, <2>3, SumSplit
  <2>5. SumFunctionOnSet(f, S \ {x}) \in Nat
    BY <2>1, SumSplit
  <2> QED BY <1>1, <2>2, <2>4, <2>5
<1>2. CASE x \notin S
  <2>1. SumFunctionOnSet(g, S) = SumFunctionOnSet(f, S)
    BY <1>2, SumSame
  <2>2. SumFunctionOnSet(f, S) \in Nat
    BY SumSplit
  <2> QED BY <1>2, <2>1, <2>2
<1> QED BY <1>1, <1>2

(* Two disjoint sets.                                                      *)
LEMMA SumDisjoint ==
  ASSUME NEW S, IsFiniteSet(S), NEW T, IsFiniteSet(T), S \cap T = {},
         NEW f, \A x \in S \cup T : f[x] \in Nat
  PROVE  SumFunctionOnSet(f, S \cup T) = SumFunctionOnSet(f, S) + SumFunctionOnSet(f, T)
<1> DEFINE Good == {t \in SUBSET S :
                      SumFunctionOnSet(f, t \cup T) = SumFunctionOnSet(f, t) + SumFunctionOnSet(f, T)}
<1>1. {} \in Good
  <2>1. SumFunctionOnSet(f, {}) = 0
    BY SumSplit, FS_EmptySet
  <2>2. SumFunctionOnSet(f, T) \in Nat
    BY SumSplit
  <2>3. {} \cup T = T
    OBVIOUS
  <2> QED BY <2>1, <2>2, <2>3
<1>2. ASSUME NEW t \in SUBSET S, NEW x \in t, t \ {x} \in Good PROVE t \in Good
  <2>1. IsFiniteSet(t) /\ IsFiniteSet(t \cup T) /\ IsFiniteSet(t \ {x})
    BY FS_Subset, FS_Union
  <2>2. SumFunctionOnSet(f, t) = f[x] + SumFunctionOnSet(f, t \ {x})
    BY <2>1, SumSplit
  <2>3. (t \cup T) \ {x} = (t \ {x}) \cup T
    OBVIOUS
  <2>4. SumFunctionOnSet(f, t \cup T) = f[x] + SumFunctionOnSet(f, (t \ {x}) \cup T)
    BY <2>1, <2>3, SumSplit
  <2>5. f[x] \in Nat /\ SumFunctionOnSet(f, t \ {x}) \in Nat /\ SumFunctionOnSet(f, T) \in Nat
    BY <2>1, SumSplit
  <2>6. SumFunctionOnSet(f, (t \ {x}) \cup T)
          = SumFunctionOnSet(f, t \ {x}) + SumFunctionOnSet(f, T)
    BY <1>2
  <2>7. SumFunctionOnSet(f, t \cup T) = SumFunctionOnSet(f, t) + SumFunctionOnSet(f, T)
    BY <2>2, <2>4, <2>5, <2>6
  <2> QED BY <2>7
<1>3. S \in Good
  <2> HIDE DEF Good
  <2> QED BY <1>1, <1>2, SubsetInduction
<1> QED BY <1>3

(* Sums of sums: g has the sums of f over the parts of a set.              *)
InParts(g, I, part, f, whole) ==
  /\ IsFiniteSet(I) /\ IsFiniteSet(whole) /\ \A x \in whole : f[x] \in Nat
  /\ \A i \in I : part[i] \in SUBSET whole /\ g[i] = SumFunctionOnSet(f, part[i])
  /\ \A i, j \in I : i # j => part[i] \cap part[j] = {}
  /\ \A x \in whole : \E i \in I : x \in part[i]

(* Adding up the parts adds up the whole.                                  *)
LEMMA SumOfSums ==
  ASSUME NEW g, NEW I, NEW part, NEW f, NEW whole, InParts(g, I, part, f, whole)
  PROVE  SumFunctionOnSet(g, I) = SumFunctionOnSet(f, whole)
<1> DEFINE All(t) == UNION {part[i] : i \in t}
           Good == {t \in SUBSET I : SumFunctionOnSet(g, t) = SumFunctionOnSet(f, All(t))}
<1>1. \A i \in I : g[i] \in Nat
  <2> TAKE i \in I
  <2>1. IsFiniteSet(part[i]) /\ \A x \in part[i] : f[x] \in Nat
    BY FS_Subset DEF InParts
  <2> QED BY <2>1, SumSplit DEF InParts
<1>2. {} \in Good
  <2>1. All({}) = {}
    OBVIOUS
  <2>2. SumFunctionOnSet(g, {}) = 0 /\ SumFunctionOnSet(f, {}) = 0
    BY FS_EmptySet, SumSplit
  <2> QED BY <2>1, <2>2
<1>3. ASSUME NEW t \in SUBSET I, NEW x \in t, t \ {x} \in Good PROVE t \in Good
  <2>1. IsFiniteSet(t)
    BY FS_Subset DEF InParts
  <2>2. SumFunctionOnSet(g, t) = g[x] + SumFunctionOnSet(g, t \ {x})
    BY <1>1, <2>1, SumSplit
  <2> DEFINE P == part[x]
             R == All(t \ {x})
  <2>3. All(t) = P \cup R /\ P \in SUBSET whole /\ R \in SUBSET whole
    BY DEF InParts
  <2>4. P \cap R = {}
    BY DEF InParts
  <2>5. g[x] = SumFunctionOnSet(f, P)
    BY DEF InParts
  <2> HIDE DEF All, P, R
  <2>6. IsFiniteSet(P) /\ IsFiniteSet(R) /\ \A y \in P \cup R : f[y] \in Nat
    BY <2>3, FS_Subset DEF InParts
  <2>7. SumFunctionOnSet(f, P \cup R) = SumFunctionOnSet(f, P) + SumFunctionOnSet(f, R)
    BY <2>4, <2>6, SumDisjoint
  <2>8. SumFunctionOnSet(g, t \ {x}) = SumFunctionOnSet(f, R)
    BY <1>3 DEF R
  <2> QED BY <2>2, <2>3, <2>5, <2>7, <2>8
<1>4. All(I) = whole
  BY DEF InParts
<1>5. I \in Good
  <2> HIDE DEF Good
  <2> QED BY <1>2, <1>3, SubsetInduction DEF InParts
<1> QED BY <1>4, <1>5

(* A sum of zeros.                                                         *)
LEMMA SumZero ==
  ASSUME NEW S, IsFiniteSet(S), NEW f, \A x \in S : f[x] = 0
  PROVE  SumFunctionOnSet(f, S) = 0
<1> DEFINE Good == {t \in SUBSET S : SumFunctionOnSet(f, t) = 0}
<1>1. {} \in Good
  BY SumSplit, FS_EmptySet
<1>2. ASSUME NEW t \in SUBSET S, NEW x \in t, t \ {x} \in Good PROVE t \in Good
  <2>1. IsFiniteSet(t)
    BY FS_Subset
  <2>2. SumFunctionOnSet(f, t) = f[x] + SumFunctionOnSet(f, t \ {x})
    BY <2>1, SumSplit
  <2> QED BY <1>2, <2>2
<1>3. S \in Good
  <2> HIDE DEF Good
  <2> QED BY <1>1, <1>2, SubsetInduction
<1> QED BY <1>3

(* What is zero may be left out.                                           *)
LEMMA SumOfPart ==
  ASSUME NEW S, IsFiniteSet(S), NEW f, \A x \in S : f[x] \in Nat,
         NEW T \in SUBSET S, \A x \in S \ T : f[x] = 0
  PROVE  SumFunctionOnSet(f, S) = SumFunctionOnSet(f, T)
<1> DEFINE R == S \ T
<1>1. IsFiniteSet(T) /\ IsFiniteSet(R)
  BY FS_Subset
<1>2. T \cap R = {} /\ S = T \cup R /\ \A x \in T \cup R : f[x] \in Nat
  OBVIOUS
<1>3. SumFunctionOnSet(f, R) = 0
  BY <1>1, SumZero
<1>4. SumFunctionOnSet(f, T) \in Nat
  BY <1>1, SumSplit
<1> HIDE DEF R
<1>5. SumFunctionOnSet(f, T \cup R) = SumFunctionOnSet(f, T) + SumFunctionOnSet(f, R)
  BY <1>1, <1>2, SumDisjoint
<1> QED BY <1>2, <1>3, <1>4, <1>5

-----------------------------------------------------------------------------
(* Quotients, and the ends of bounded sets. *)

(* What \div computes: the greatest multiple that is not above.            *)
LEMMA Quotient ==
  ASSUME NEW a \in Int, NEW d \in Nat \ {0}
  PROVE  a \div d \in Int /\ (a \div d) * d <= a /\ a < (a \div d) * d + d
OBVIOUS

(* The quotient is the only number with this property.                     *)
LEMMA QuotientIs ==
  ASSUME NEW a \in Int, NEW d \in Nat \ {0}, NEW q \in Int, q * d <= a, a < q * d + d
  PROVE  a \div d = q
OBVIOUS

(* Dividing twice divides by the product.                                  *)
LEMMA NestedQuotient ==
  ASSUME NEW x \in Int, NEW a \in Nat \ {0}, NEW b \in Nat \ {0}
  PROVE  (x \div a) \div b = x \div (a * b)
<1> DEFINE q == x \div a
           r == q \div b
<1>1. q \in Int /\ q * a <= x /\ x < q * a + a
  BY Quotient
<1> HIDE DEF q
<1>2. r \in Int /\ r * b <= q /\ q < r * b + b
  BY <1>1
<1> HIDE DEF r
<1>3. (r * b) * a <= q * a /\ q * a + a <= (r * b + b) * a
  BY <1>1, <1>2
<1>4. r * (a * b) <= x /\ x < r * (a * b) + a * b
  BY <1>1, <1>2, <1>3
<1>5. a * b \in Int /\ a * b > 0
  OBVIOUS
<1>6. x \div (a * b) = r
  <2> DEFINE d == a * b
  <2>1. d \in Int /\ d > 0 /\ r * d <= x /\ x < r * d + d
   BY <1>4, <1>5
  <2> HIDE DEF d
  <2>2. x \div d = r
    BY <1>2, <2>1
  <2> QED BY <2>2 DEF d
<1> QED BY <1>6 DEF q, r

(* Division keeps the order.                                               *)
LEMMA QuotientMonotone ==
  ASSUME NEW a \in Int, NEW b \in Int, NEW d \in Nat \ {0}, a <= b
  PROVE  a \div d <= b \div d
<1>1. SUFFICES ASSUME a \div d > b \div d PROVE FALSE
  OBVIOUS
<1> DEFINE p == a \div d
           q == b \div d
<1>2. p \in Int /\ q \in Int /\ p * d <= a /\ b < q * d + d
  BY Quotient
<1>3. p > q
  BY <1>1
<1> HIDE DEF p, q
<1>4. p * d >= q * d + d
  BY <1>2, <1>3
<1> QED BY <1>2, <1>4

(* The offset of downscale: the remainder of the start takes its place.    *)
LEMMA ShiftedQuotient ==
  ASSUME NEW x \in Int, NEW y \in Int, NEW d \in Nat \ {0}
  PROVE  /\ y % d \in Nat
         /\ (x + (y % d)) \div d = ((x + y) \div d) - (y \div d)
<1> DEFINE q == y \div d
           e == (x + y) \div d
           r == y % d
<1>1. q \in Int /\ q * d <= y /\ y < q * d + d
  BY Quotient
<1>2. e \in Int /\ e * d <= x + y /\ x + y < e * d + d
  <2>1. x + y \in Int
    OBVIOUS
  <2> QED BY <2>1, Quotient
<1>3. r = y - d * (y \div d)
  OBVIOUS
<1>4. r = y - q * d
  <2>1. y \div d \in Int
    BY <1>1
  <2>2. d * (y \div d) = (y \div d) * d
    BY <2>1
  <2> HIDE DEF r
  <2> QED BY <1>3, <2>2
<1> HIDE DEF q, e, r
<1>5. r \in Nat
  <2>1. q * d \in Int
    BY <1>1
  <2> QED BY <1>1, <1>4, <2>1
<1>6. (e - q) * d = e * d - q * d
  BY <1>1, <1>2
<1>7. (e - q) * d <= x + r /\ x + r < (e - q) * d + d
  <2>1. q * d \in Int /\ e * d \in Int
    BY <1>1, <1>2
  <2> QED BY <1>1, <1>2, <1>4, <1>6, <2>1
<1>8. (x + r) \div d = e - q
  <2>1. x + r \in Int /\ e - q \in Int
    BY <1>1, <1>2, <1>5
  <2> QED BY <1>7, <2>1, QuotientIs
<1> QED BY <1>5, <1>8 DEF r, e, q

(* Dividing does not move two numbers apart.                               *)
LEMMA QuotientGap ==
  ASSUME NEW x \in Int, NEW y \in Int, x <= y, NEW d \in Nat \ {0}
  PROVE  (y \div d) - (x \div d) \in 0..(y - x)
<1> DEFINE p == x \div d
           q == y \div d
<1>1. p \in Int /\ p * d <= x /\ x < p * d + d
  BY Quotient
<1>2. q \in Int /\ q * d <= y /\ y < q * d + d
  BY Quotient
<1>3. p <= q
  BY QuotientMonotone
<1> HIDE DEF p, q
<1> DEFINE g == q - p
           w == y - x
<1>4. g \in Nat /\ w \in Nat /\ g * d = q * d - p * d
  BY <1>1, <1>2, <1>3
<1>5. g * d < w + d
  <2>1. p * d \in Int /\ q * d \in Int
    BY <1>1, <1>2
  <2> QED BY <1>1, <1>2, <1>4, <2>1
<1> HIDE DEF g, w
<1>6. g > w => g * d >= w * d + d
  BY <1>4
<1>7. w * d >= w
  BY <1>4
<1>8. g <= w
  <2>1. g * d \in Int /\ w * d \in Int
    BY <1>4
  <2> QED BY <1>4, <1>5, <1>6, <1>7, <2>1
<1> QED BY <1>1, <1>2, <1>4, <1>8 DEF g, w, p, q

(* The greater of two numbers.                                             *)
LEMMA MaxOfTwo ==
  ASSUME NEW a \in Int, NEW b \in Int, NEW S, S = {a, b}
  PROVE  Max(S) \in {a, b} /\ Max(S) >= a /\ Max(S) >= b
<1>1. \E x \in S : \A y \in S : x >= y
  OBVIOUS
<1>2. Max(S) \in S /\ \A y \in S : Max(S) >= y
  BY <1>1 DEF Max
<1> QED BY <1>2

(* A set of integers between two bounds has a greatest and a least one.    *)
LEMMA BoundedExtremes ==
  ASSUME NEW a \in Int, NEW b \in Int, NEW S, S \subseteq a..b, S # {}
  PROVE  /\ Max(S) \in S /\ \A x \in S : x <= Max(S)
         /\ Min(S) \in S /\ \A x \in S : Min(S) <= x
<1>1. \A x \in S : x \in Int /\ a <= x /\ x <= b
  OBVIOUS
<1>2. \E x \in S : \A y \in S : x <= y
  <2> DEFINE T == {x - a : x \in S}
  <2>1. T \in SUBSET Nat /\ T # {}
    BY <1>1
  <2>2. PICK n \in T : \A k \in T : n <= k
    <3> HIDE DEF T
    <3> QED BY <2>1, LeastNatural
  <2>3. PICK x \in S : n = x - a
    OBVIOUS
  <2>4. \A y \in S : n <= y - a
    BY <2>2
  <2> QED BY <1>1, <2>3, <2>4
<1>3. \E x \in S : \A y \in S : x >= y
  <2> DEFINE T == {b - x : x \in S}
  <2>1. T \in SUBSET Nat /\ T # {}
    BY <1>1
  <2>2. PICK n \in T : \A k \in T : n <= k
    <3> HIDE DEF T
    <3> QED BY <2>1, LeastNatural
  <2>3. PICK x \in S : n = b - x
    OBVIOUS
  <2>4. \A y \in S : n <= b - y
    BY <2>2
  <2> QED BY <1>1, <2>3, <2>4
<1>4. Max(S) \in S /\ \A y \in S : Max(S) >= y
  BY <1>3 DEF Max
<1>5. Min(S) \in S /\ \A y \in S : Min(S) <= y
  BY <1>2 DEF Min
<1> QED BY <1>1, <1>4, <1>5
=============================================================================
