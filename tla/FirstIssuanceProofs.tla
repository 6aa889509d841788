-------------------------- MODULE FirstIssuanceProofs -----------------------
(***************************************************************************)
(* Proofs about the first issuance of a request, for all names, answers of *)
(* acme.sh and environment files.                                          *)
(***************************************************************************)
EXTENDS FirstIssuance, TLAPS, FiniteSetTheorems,
        SequenceTheorems

\* A name as Requests has it: its labels, at least one.
Name == Seq(Nat) \ {<<>>}

-----------------------------------------------------------------------------
(***************************************************************************)
(* Every set of natural numbers has a least element: an induction looks    *)
(* for the least number for which it would fail.                           *)
(***************************************************************************)
LEMMA Least ==
    ASSUME NEW T, T \subseteq Nat, T # {}
    PROVE  \E n \in T : \A m \in T : n <= m
  <1> DEFINE R == OpToRel(<, Nat)
  <1>1. IsWellFoundedOn(R, Nat)
    BY NatLessThanWellFounded
  <1>2. \A m, n \in Nat : <<m, n>> \in R <=> m < n
    BY DEF OpToRel
  <1> HIDE DEF R
  <1>3. PICK n \in T : \A m \in T : ~(<<m, n>> \in R)
    BY <1>1, WFMin
  <1>4. ASSUME NEW m \in T PROVE n <= m
    <2>1. m \in Nat /\ n \in Nat
      OBVIOUS
    <2>2. ~(m < n)
      BY <1>2, <1>3, <2>1
    <2> QED BY <2>1, <2>2
  <1> QED BY <1>4

-----------------------------------------------------------------------------
(***************************************************************************)
(* sorted: Before is a strict total order of the names, so that the        *)
(* sequence Sorted chooses exists.                                         *)
(***************************************************************************)
Lex(d, e, n) ==
    \E i \in 1 .. n : d[i] < e[i] /\ \A j \in 1 .. i - 1 : d[j] = e[j]

LEMMA LexTransitive ==
    ASSUME NEW n \in Nat, NEW d \in [1 .. n -> Nat], NEW e \in [1 .. n -> Nat],
           NEW f \in [1 .. n -> Nat], Lex(d, e, n), Lex(e, f, n)
    PROVE  Lex(d, f, n)
  <1>1. PICK i \in 1 .. n : d[i] < e[i] /\ \A j \in 1 .. i - 1 : d[j] = e[j]
    BY DEF Lex
  <1>2. PICK k \in 1 .. n : e[k] < f[k] /\ \A j \in 1 .. k - 1 : e[j] = f[j]
    BY DEF Lex
  <1>3. CASE i <= k
    <2>1. e[i] <= f[i]
      <3>1. CASE i = k
        BY <1>2, <3>1
      <3>2. CASE i # k
        <4>1. i \in 1 .. k - 1
          BY <1>3, <3>2
        <4> QED BY <1>2, <4>1
      <3> QED BY <3>1, <3>2
    <2>2. d[i] < f[i]
      BY <1>1, <2>1
    <2>3. \A j \in 1 .. i - 1 : d[j] = f[j]
      BY <1>1, <1>2, <1>3
    <2> QED BY <2>2, <2>3 DEF Lex
  <1>4. CASE k < i
    <2>1. k \in 1 .. i - 1
      BY <1>4
    <2>2. d[k] < f[k]
      BY <1>1, <1>2, <2>1
    <2>3. \A j \in 1 .. k - 1 : d[j] = f[j]
      BY <1>1, <1>2, <1>4
    <2> QED BY <2>2, <2>3 DEF Lex
  <1> QED BY <1>3, <1>4

LEMMA LexTotal ==
    ASSUME NEW n \in Nat, NEW d \in [1 .. n -> Nat], NEW e \in [1 .. n -> Nat],
           d # e
    PROVE  Lex(d, e, n) \/ Lex(e, d, n)
  <1> DEFINE T == {i \in 1 .. n : d[i] # e[i]}
  <1>1. T \subseteq Nat /\ T # {}
    OBVIOUS
  <1>2. PICK i \in T : \A j \in T : i <= j
    BY <1>1, Least
  <1>3. i \in 1 .. n /\ \A j \in 1 .. i - 1 : d[j] = e[j]
    BY <1>2
  <1>4. d[i] \in Nat /\ e[i] \in Nat /\ d[i] # e[i]
    BY <1>2
  <1>5. d[i] < e[i] \/ e[i] < d[i]
    BY <1>4
  <1> QED BY <1>3, <1>5 DEF Lex

LEMMA BeforeIsLex ==
    ASSUME NEW d \in Seq(Nat), NEW e \in Seq(Nat)
    PROVE  Before(d, e) <=> \/ Len(d) < Len(e)
                            \/ Len(d) = Len(e) /\ Lex(d, e, Len(d))
  <1>1. DOMAIN d = 1 .. Len(d)
    OBVIOUS
  <1> QED BY <1>1, Zenon DEF Before, Lex

LEMMA BeforeTransitive ==
    ASSUME NEW d \in Seq(Nat), NEW e \in Seq(Nat), NEW f \in Seq(Nat),
           Before(d, e), Before(e, f)
    PROVE  Before(d, f)
  <1>0. Len(d) \in Nat /\ Len(e) \in Nat /\ Len(f) \in Nat
    BY LenProperties
  <1>1. /\ d \in [1 .. Len(d) -> Nat] /\ e \in [1 .. Len(e) -> Nat]
        /\ f \in [1 .. Len(f) -> Nat]
    BY LenProperties
  <1>2. CASE Len(d) = Len(e) /\ Len(e) = Len(f)
    <2>1. Lex(d, e, Len(d)) /\ Lex(e, f, Len(d))
      BY <1>0, <1>2, BeforeIsLex
    <2>2. e \in [1 .. Len(d) -> Nat] /\ f \in [1 .. Len(d) -> Nat]
      BY <1>1, <1>2, Zenon
    <2>3. Lex(d, f, Len(d))
      BY <1>0, <1>1, <2>1, <2>2, LexTransitive, Zenon
    <2> QED BY <1>2, <2>3, BeforeIsLex, Zenon
  <1>3. CASE ~(Len(d) = Len(e) /\ Len(e) = Len(f))
    BY <1>0, <1>3, BeforeIsLex
  <1> QED BY <1>2, <1>3

LEMMA BeforeTotal ==
    ASSUME NEW d \in Seq(Nat), NEW e \in Seq(Nat), d # e
    PROVE  Before(d, e) \/ Before(e, d)
  <1>0. Len(d) \in Nat /\ Len(e) \in Nat
    BY LenProperties
  <1>1. d \in [1 .. Len(d) -> Nat] /\ e \in [1 .. Len(e) -> Nat]
    BY LenProperties
  <1>2. CASE Len(d) = Len(e)
    <2>1. e \in [1 .. Len(d) -> Nat]
      BY <1>1, <1>2, Zenon
    <2>2. Lex(d, e, Len(d)) \/ Lex(e, d, Len(d))
      BY <1>0, <1>1, <2>1, LexTotal, Zenon
    <2> QED BY <1>2, <2>2, BeforeIsLex, Zenon
  <1>3. CASE Len(d) # Len(e)
    <2>1. Len(d) < Len(e) \/ Len(e) < Len(d)
      BY <1>0, <1>3
    <2> QED BY <2>1, BeforeIsLex
  <1> QED BY <1>2, <1>3

\* s lists n elements of S in order, none twice.
Lists(s, S, n) ==
    /\ s \in [1 .. n -> S]
    /\ \A i, j \in 1 .. n : i < j => Before(s[i], s[j])
    /\ \A i, j \in 1 .. n : i # j => s[i] # s[j]

\* One more name is put before the first that comes after it.
LEMMA Insertion ==
    ASSUME NEW n \in Nat, NEW S, S \subseteq Seq(Nat), NEW x \in S,
           NEW s, Lists(s, S \ {x}, n)
    PROVE  \E f : Lists(f, S, n + 1)
  <1> DEFINE T == {i \in 1 .. n : Before(x, s[i])} \union {n + 1}
  <1>1. T \subseteq Nat /\ T # {}
    OBVIOUS
  <1>2. PICK k \in T : \A i \in T : k <= i
    BY <1>1, Least, Zenon
  <1>3. k \in 1 .. n + 1 /\ (k <= n => Before(x, s[k]))
    BY <1>2
  <1>4. ASSUME NEW i \in 1 .. n, i < k
        PROVE  ~Before(x, s[i])
    <2>1. i \notin T
      BY <1>2, <1>3, <1>4
    <2> QED BY <2>1
  <1> HIDE DEF T
  <1>5. \A i \in 1 .. n : s[i] \in S /\ s[i] # x /\ s[i] \in Seq(Nat)
    BY DEF Lists
  <1>6. \A i \in 1 .. n : i < k => Before(s[i], x)
    BY <1>4, <1>5, BeforeTotal
  <1>7. \A i \in 1 .. n : k <= i => Before(x, s[i])
    <2>1. SUFFICES ASSUME NEW i \in 1 .. n, k <= i
                   PROVE  Before(x, s[i])
      OBVIOUS
    <2>2. k \in 1 .. n /\ Before(x, s[k])
      BY <1>3, <2>1
    <2>3. CASE i = k
      BY <2>2, <2>3
    <2>4. CASE i # k
      <3>1. Before(s[k], s[i])
        BY <2>1, <2>2, <2>4 DEF Lists
      <3>2. x \in Seq(Nat) /\ s[k] \in Seq(Nat) /\ s[i] \in Seq(Nat)
        BY <1>5, <2>2
      <3> QED BY <2>2, <3>1, <3>2, BeforeTransitive
    <2> QED BY <2>3, <2>4
  <1> DEFINE f == [i \in 1 .. n + 1 |-> IF i < k THEN s[i]
                                        ELSE IF i = k THEN x ELSE s[i - 1]]
  <1>8. /\ \A i \in 1 .. n + 1 : i < k => i \in 1 .. n /\ f[i] = s[i]
        /\ f[k] = x
        /\ \A i \in 1 .. n + 1 : k < i => i - 1 \in 1 .. n /\ k <= i - 1
                                          /\ f[i] = s[i - 1]
    BY <1>3
  <1>9. f \in [1 .. n + 1 -> S]
    BY <1>3, <1>5
  <1> HIDE DEF f
  <1>10. ASSUME NEW i \in 1 .. n + 1, NEW j \in 1 .. n + 1, i < j
         PROVE  Before(f[i], f[j]) /\ f[i] # f[j]
    <2>1. CASE j < k
      <3>1. i < k /\ i \in 1 .. n /\ j \in 1 .. n /\ f[i] = s[i] /\ f[j] = s[j]
        BY <1>3, <1>8, <1>10, <2>1
      <3> QED BY <1>10, <3>1 DEF Lists
    <2>2. CASE j = k
      <3>1. i \in 1 .. n /\ f[i] = s[i] /\ f[j] = x
        BY <1>3, <1>8, <1>10, <2>2
      <3> QED BY <1>5, <1>6, <1>10, <2>2, <3>1
    <2>3. CASE k < j
      <3>1. j - 1 \in 1 .. n /\ k <= j - 1 /\ f[j] = s[j - 1]
        BY <1>8, <2>3
      <3>2. CASE i < k
        <4>1. i \in 1 .. n /\ f[i] = s[i] /\ i < j - 1
          BY <1>3, <1>8, <3>1, <3>2
        <4> QED BY <3>1, <4>1 DEF Lists
      <3>3. CASE i = k
        BY <1>5, <1>7, <1>8, <3>1, <3>3
      <3>4. CASE k < i
        <4>1. i - 1 \in 1 .. n /\ f[i] = s[i - 1] /\ i - 1 < j - 1
          BY <1>8, <1>10, <3>4
        <4> QED BY <3>1, <4>1 DEF Lists
      <3> QED BY <1>3, <3>2, <3>3, <3>4
    <2> QED BY <1>3, <2>1, <2>2, <2>3
  <1>11. \A i, j \in 1 .. n + 1 : i # j => i < j \/ j < i
    OBVIOUS
  <1>12. Lists(f, S, n + 1)
    BY <1>9, <1>10, <1>11 DEF Lists
  <1> QED BY <1>12

LEMMA Sortable ==
    ASSUME NEW S, S \subseteq Seq(Nat), IsFiniteSet(S)
    PROVE  \E s : Lists(s, S, Cardinality(S))
  <1> DEFINE Bad(n) == \E V \in SUBSET Seq(Nat) :
                 /\ IsFiniteSet(V) /\ Cardinality(V) = n
                 /\ \A s : ~Lists(s, V, n)
             T == {n \in Nat : Bad(n)}
  <1> SUFFICES T = {}
    <2>1. Cardinality(S) \in Nat
      BY FS_CardinalityType
    <2> QED BY <2>1
  <1> SUFFICES ASSUME T # {} PROVE FALSE
    OBVIOUS
  <1>1. T \subseteq Nat
    OBVIOUS
  <1>2. PICK n \in T : \A m \in T : n <= m
    BY <1>1, Least, Zenon
  <1>3. PICK V \in SUBSET Seq(Nat) : /\ IsFiniteSet(V) /\ Cardinality(V) = n
                                     /\ \A s : ~Lists(s, V, n)
    BY <1>2
  <1>4. n \in Nat
    BY <1>2
  <1>5. CASE V = {}
    <2>1. n = 0
      BY <1>3, <1>5, FS_EmptySet
    <2>2. Lists([i \in 1 .. 0 |-> 0], V, 0)
      BY DEF Lists
    <2> QED BY <1>3, <2>1, <2>2
  <1>6. CASE V # {}
    <2>1. PICK x \in V : TRUE
      BY <1>6
    <2>2. /\ IsFiniteSet(V \ {x}) /\ Cardinality(V \ {x}) = n - 1
      BY <1>3, <2>1, FS_RemoveElement
    <2>3. n - 1 \in Nat
      BY <2>2, FS_CardinalityType
    <2>4. n - 1 \notin T
      BY <1>2, <1>4
    <2>5. V \ {x} \in SUBSET Seq(Nat)
      OBVIOUS
    <2>6. PICK s : Lists(s, V \ {x}, n - 1)
      BY <2>2, <2>3, <2>4, <2>5
    <2>7. \E f : Lists(f, V, (n - 1) + 1)
      BY <2>1, <2>3, <2>6, Insertion
    <2>8. (n - 1) + 1 = n
      BY <1>4
    <2> QED BY <1>3, <2>7, <2>8
  <1> QED BY <1>5, <1>6

\* What Sorted returns: every name of the set once, and no other.
LEMMA SortedLists ==
    ASSUME NEW S, S \subseteq Seq(Nat), IsFiniteSet(S)
    PROVE  /\ Sorted(S) \in [1 .. Cardinality(S) -> S]
           /\ \A x \in S : \E i \in 1 .. Cardinality(S) : Sorted(S)[i] = x
  <1> DEFINE n == Cardinality(S)
             s == Sorted(S)
  <1>1. n \in Nat
    BY FS_CardinalityType
  <1>2. PICK f : Lists(f, S, n)
    BY Sortable
  <1>3. /\ f \in SetToSeqs(S)
        /\ \A i, j \in DOMAIN f : i < j => Before(f[i], f[j])
    BY <1>2 DEF Lists, SetToSeqs
  <1>4. s \in SetToSeqs(S)
    BY <1>3, Zenon DEF Sorted
  <1>5. s \in [1 .. n -> S] /\ \A i, j \in 1 .. n : i # j => s[i] # s[j]
    BY <1>4 DEF SetToSeqs
  <1> HIDE DEF s
  <1>6. Cardinality(1 .. n) = n
    BY <1>1, FS_Interval
  <1>7. s \in Injection(1 .. n, S)
    BY <1>5 DEF Injection, IsInjective
  <1>8. s \in Surjection(1 .. n, S)
    BY <1>6, <1>7, FS_Injection
  <1> QED BY <1>5, <1>8 DEF s, Surjection

-----------------------------------------------------------------------------
(***************************************************************************)
(* What _validate_domains makes of a payload: the primary name, and then   *)
(* the other names in an order that depends on their set alone.            *)
(***************************************************************************)
Others(raws) == Spelt(raws) \ {raws[1].name}

LEMMA PayloadType ==
    ASSUME NEW raws \in Payloads, Len(raws) >= 1
    PROVE  /\ Len(raws) \in Nat /\ DOMAIN raws = 1 .. Len(raws)
           /\ \A i \in 1 .. Len(raws) : raws[i].name \in Name
           /\ 1 \in DOMAIN raws
  <1>1. raws \in Seq(RawDomain(Name))
    BY PayloadsAssumption DEF Name
  <1>2. /\ Len(raws) \in Nat /\ DOMAIN raws = 1 .. Len(raws)
        /\ \A i \in 1 .. Len(raws) : raws[i] \in RawDomain(Name)
    BY <1>1
  <1> QED BY <1>2 DEF RawDomain

LEMMA OthersFinite ==
    ASSUME NEW raws \in Payloads, Len(raws) >= 1
    PROVE  Others(raws) \subseteq Name /\ IsFiniteSet(Others(raws))
  <1> DEFINE f == [i \in 1 .. Len(raws) |-> raws[i].name]
  <1>1. f \in Surjection(1 .. Len(raws), Spelt(raws))
    BY PayloadType DEF Surjection, Spelt
  <1>2. IsFiniteSet(1 .. Len(raws))
    BY PayloadType, FS_Interval
  <1>3. IsFiniteSet(Spelt(raws))
    BY <1>1, <1>2, FS_Surjection
  <1>4. Others(raws) \in SUBSET Spelt(raws)
    BY DEF Others
  <1>5. Spelt(raws) \subseteq Name
    BY PayloadType DEF Spelt
  <1> QED BY <1>3, <1>4, <1>5, FS_Subset

LEMMA NormalizedIs ==
    ASSUME NEW raws \in Payloads, Len(raws) >= 1
    PROVE  Normalized(raws) = <<raws[1].name>> \o Sorted(Others(raws))
  <1> DEFINE names == [i \in DOMAIN raws |-> Tidy(raws[i])]
  <1>1. /\ names = [i \in 1 .. Len(raws) |-> raws[i].name]
        /\ names[1] = raws[1].name
    BY PayloadType DEF Tidy
  <1>2. /\ names \in Seq(Name) /\ Len(names) = Len(raws) /\ names # <<>>
        /\ \A i \in 1 .. Len(raws) : names[i] = raws[i].name
    BY <1>1, PayloadType
  <1> HIDE DEF names
  <1>3. /\ DOMAIN Tail(names) = 1 .. Len(raws) - 1
        /\ \A i \in 1 .. Len(raws) - 1 : Tail(names)[i] = names[i + 1]
    BY <1>2, PayloadType
  <1>4. ToSet(Tail(names)) \ {names[1]} = Others(raws)
    <2>1. ASSUME NEW x \in ToSet(Tail(names)), x # names[1]
          PROVE  x \in Others(raws)
      <3>1. PICK i \in 1 .. Len(raws) - 1 : x = names[i + 1]
        BY <1>3 DEF ToSet
      <3>2. i + 1 \in 1 .. Len(raws)
        BY PayloadType
      <3> QED BY <1>1, <1>2, <2>1, <3>1, <3>2, PayloadType DEF Others, Spelt
    <2>2. ASSUME NEW x \in Others(raws)
          PROVE  x \in ToSet(Tail(names)) /\ x # names[1]
      <3>1. PICK i \in 1 .. Len(raws) : x = raws[i].name
        BY PayloadType DEF Others, Spelt
      <3>2. x # names[1] /\ i # 1
        BY <1>1, <3>1 DEF Others
      <3>3. i - 1 \in 1 .. Len(raws) - 1 /\ (i - 1) + 1 = i
        BY <3>2, PayloadType
      <3>4. Tail(names)[i - 1] = x
        BY <1>2, <1>3, <3>1, <3>3
      <3> QED BY <1>3, <3>2, <3>3, <3>4 DEF ToSet
    <2> QED BY <2>1, <2>2
  <1>5. Normalized(raws)
            = <<names[1]>> \o Sorted(ToSet(Tail(names)) \ {names[1]})
    BY DEF Normalized, names
  <1> QED BY <1>1, <1>4, <1>5

(***************************************************************************)
(* The normalized names: the primary is first and nowhere else, and they   *)
(* are the names of the payload.                                           *)
(***************************************************************************)
LEMMA NormalizedNames ==
    ASSUME NEW raws \in Payloads, Len(raws) >= 1
    PROVE  LET d == Normalized(raws)
           IN  /\ d \in Seq(Name) /\ Len(d) \in Nat /\ Len(d) >= 1
               /\ d[1] = raws[1].name
               /\ \A i \in 2 .. Len(d) : d[i] # d[1]
               /\ {d[i] : i \in DOMAIN d} = Spelt(raws)
  <1> DEFINE S == Others(raws)
             n == Cardinality(S)
             s == Sorted(S)
             p == raws[1].name
             d == <<p>> \o s
  <1>0. Normalized(raws) = d
    BY NormalizedIs
  <1>1. S \subseteq Seq(Nat) /\ IsFiniteSet(S) /\ S \subseteq Name
    BY OthersFinite DEF Name
  <1>2. n \in Nat
    BY <1>1, FS_CardinalityType
  <1>3. s \in [1 .. n -> S] /\ \A x \in S : \E i \in 1 .. n : s[i] = x
    BY <1>1, SortedLists
  <1>4. p \in Name /\ p \notin S /\ Spelt(raws) = S \union {p}
    BY PayloadType DEF Others, Spelt
  <1> HIDE DEF S, s, p, n
  <1>5. s \in Seq(Name) /\ Len(s) = n
    BY <1>1, <1>2, <1>3
  <1>6. <<p>> \in Seq(Name) /\ Len(<<p>>) = 1 /\ <<p>>[1] = p
    BY <1>4
  <1>7. /\ d \in Seq(Name) /\ Len(d) = 1 + n
        /\ \A i \in 1 .. 1 + n :
              d[i] = IF i <= 1 THEN <<p>>[i] ELSE s[i - 1]
    BY <1>5, <1>6, ConcatProperties
  <1> HIDE DEF d
  <1>8. DOMAIN d = 1 .. 1 + n
    BY <1>7
  <1>9. d[1] = p
    BY <1>2, <1>6, <1>7
  <1>10. ASSUME NEW i \in 2 .. 1 + n
         PROVE  d[i] \in S /\ d[i] = s[i - 1]
    <2>1. i \in 1 .. 1 + n /\ i - 1 \in 1 .. n /\ ~(i <= 1)
      BY <1>2
    <2> QED BY <1>3, <1>7, <2>1
  <1>11. \A i \in 2 .. Len(d) : d[i] # d[1]
    BY <1>4, <1>7, <1>9, <1>10
  <1>12. ASSUME NEW x \in S
         PROVE  \E i \in DOMAIN d : d[i] = x
    <2>1. PICK i \in 1 .. n : s[i] = x
      BY <1>3
    <2>2. i + 1 \in 2 .. 1 + n /\ (i + 1) - 1 = i /\ i + 1 \in 1 .. 1 + n
      BY <1>2
    <2> QED BY <1>8, <1>10, <2>1, <2>2
  <1>13. \A i \in DOMAIN d : d[i] \in S \union {p}
    <2>1. \A i \in 1 .. 1 + n : i = 1 \/ i \in 2 .. 1 + n
      BY <1>2
    <2> QED BY <1>8, <1>9, <1>10, <2>1
  <1>14. 1 \in DOMAIN d
    BY <1>2, <1>8
  <1>15. {d[i] : i \in DOMAIN d} = Spelt(raws)
    BY <1>4, <1>9, <1>12, <1>13, <1>14
  <1>16. Len(d) \in Nat /\ Len(d) >= 1
    BY <1>2, <1>7
  <1>17. d[1] = raws[1].name
    BY <1>9 DEF p
  <1> QED BY <1>0, <1>7, <1>11, <1>15, <1>16, <1>17

(***************************************************************************)
(* Two payloads normalize alike exactly if they ask for the same primary   *)
(* name and the same set of names.                                         *)
(***************************************************************************)
LEMMA NormalizedAlike ==
    ASSUME NEW p \in Payloads, NEW q \in Payloads, Len(p) >= 1, Len(q) >= 1
    PROVE  Normalized(p) = Normalized(q) <=> SameRequest(p, q)
  <1>1. ASSUME SameRequest(p, q)
        PROVE  Normalized(p) = Normalized(q)
    BY <1>1, NormalizedIs DEF SameRequest, Others
  <1>2. ASSUME Normalized(p) = Normalized(q)
        PROVE  SameRequest(p, q)
    <2>1. /\ Normalized(p)[1] = p[1].name
          /\ {Normalized(p)[i] : i \in DOMAIN Normalized(p)} = Spelt(p)
      BY NormalizedNames
    <2>2. /\ Normalized(q)[1] = q[1].name
          /\ {Normalized(q)[i] : i \in DOMAIN Normalized(q)} = Spelt(q)
      BY NormalizedNames
    <2> QED BY <1>2, <2>1, <2>2 DEF SameRequest
  <1> QED BY <1>1, <1>2

-----------------------------------------------------------------------------
(***************************************************************************)
(* dns_persist_scope: the primary name without its star, if it has one.    *)
(***************************************************************************)
LEMMA SubSeqFrom1 ==
    ASSUME NEW d \in Seq(Nat), NEW n \in Nat, n <= Len(d)
    PROVE  /\ SubSeq(d, 1, n) \in Seq(Nat) /\ Len(SubSeq(d, 1, n)) = n
           /\ \A i \in 1 .. n : SubSeq(d, 1, n)[i] = d[i]
  <1>1. Len(SubSeq(d, 1, n)) = n
    OBVIOUS
  <1>2. /\ SubSeq(d, 1, n) \in Seq(Nat)
        /\ \A i \in 1 .. n : SubSeq(d, 1, n)[i] = d[i]
    OBVIOUS
  <1> QED BY <1>1, <1>2

LEMMA WithoutStarIs ==
    ASSUME NEW d \in Name
    PROVE  LET w == WithoutStar(d)
           IN  /\ w \in Seq(Nat) /\ Len(w) \in Nat /\ Len(w) <= Len(d)
               /\ \A i \in 1 .. Len(w) : w[i] = d[i]
               /\ w = d <=> Last(d) # Star
  <1>1. d \in Seq(Nat) /\ Len(d) \in Nat /\ Len(d) > 0
    BY DEF Name
  <1>2. CASE Last(d) = Star
    <2> DEFINE w == SubSeq(d, 1, Len(d) - 1)
    <2>1. WithoutStar(d) = w
      BY <1>2 DEF WithoutStar, Front
    <2>2. Len(d) - 1 \in Nat /\ Len(d) - 1 <= Len(d) /\ Len(d) - 1 # Len(d)
      BY <1>1
    <2>3. /\ w \in Seq(Nat) /\ Len(w) = Len(d) - 1
          /\ \A i \in 1 .. Len(d) - 1 : w[i] = d[i]
      BY <1>1, <2>2, SubSeqFrom1
    <2> HIDE DEF w
    <2>4. w # d
      BY <2>2, <2>3
    <2> QED BY <1>2, <2>1, <2>2, <2>3, <2>4
  <1>3. CASE Last(d) # Star
    BY <1>1, <1>3 DEF WithoutStar
  <1> QED BY <1>2, <1>3

\* The record at the scope covers a name that lies under it.
LEMMA ScopeCovers ==
    ASSUME NEW s \in Seq(Nat), NEW d \in Name, IsPrefix(s, WithoutStar(d))
    PROVE  \E n \in 0 .. Len(d) : SubSeq(d, 1, n) = s
  <1> DEFINE w == WithoutStar(d)
             n == Len(s)
  <1>1. /\ w \in Seq(Nat) /\ Len(w) \in Nat /\ Len(w) <= Len(d)
        /\ \A i \in 1 .. Len(w) : w[i] = d[i]
    BY WithoutStarIs
  <1>2. n <= Len(w) /\ SubSeq(s, 1, n) = SubSeq(w, 1, n)
    BY DEF IsPrefix
  <1>3. d \in Seq(Nat) /\ Len(d) \in Nat /\ n \in Nat
    BY DEF Name
  <1> HIDE DEF w
  <1>4. n <= Len(d) /\ n <= Len(s)
    BY <1>1, <1>2, <1>3
  <1>5. \A i \in 1 .. n : /\ SubSeq(s, 1, n)[i] = s[i]
                          /\ SubSeq(w, 1, n)[i] = w[i]
                          /\ SubSeq(d, 1, n)[i] = d[i]
    BY <1>1, <1>2, <1>3, <1>4, SubSeqFrom1
  <1>6. \A i \in 1 .. n : i \in 1 .. Len(w)
    BY <1>1, <1>2, <1>3
  <1>7. \A i \in 1 .. n : SubSeq(d, 1, n)[i] = s[i]
    BY <1>1, <1>2, <1>5, <1>6
  <1>8. SubSeq(d, 1, n) \in Seq(Nat) /\ Len(SubSeq(d, 1, n)) = n
    BY <1>3, <1>4, SubSeqFrom1
  <1>9. SubSeq(d, 1, n) = s
    BY <1>7, <1>8, SeqEqual
  <1>10. n \in 0 .. Len(d)
    BY <1>3, <1>4
  <1> QED BY <1>9, <1>10

\* The policy is a wildcard's exactly if some name is not the scope itself.
LEMMA PolicyIsNeeded ==
    ASSUME NEW d \in Seq(Name), Len(d) >= 1, \A i \in 2 .. Len(d) : d[i] # d[1]
    PROVE  WildcardPolicy(d) <=> \E i \in DOMAIN d : d[i] # Scope(d)
  <1>1. Len(d) \in Nat /\ DOMAIN d = 1 .. Len(d)
    OBVIOUS
  <1>2. 1 \in DOMAIN d /\ d[1] \in Name
    BY <1>1
  <1>3. Scope(d) = d[1] <=> Last(d[1]) # Star
    BY <1>2, WithoutStarIs DEF Scope
  <1>4. CASE Len(d) > 1
    <2>1. 2 \in DOMAIN d /\ 2 \in 2 .. Len(d)
      BY <1>1, <1>4
    <2>2. d[2] # d[1]
      BY <2>1
    <2> QED BY <1>2, <1>4, <2>1, <2>2 DEF WildcardPolicy
  <1>5. CASE Len(d) = 1
    <2>1. \A i \in DOMAIN d : i = 1
      BY <1>1, <1>5
    <2> QED BY <1>2, <1>3, <1>5, <2>1 DEF WildcardPolicy
  <1> QED BY <1>1, <1>4, <1>5

-----------------------------------------------------------------------------
(***************************************************************************)
(* The inductive invariant: a row holds what its creation made of the      *)
(* payload, which was acceptable and, for DNS Persist, in scope.           *)
(***************************************************************************)
Row == [status : Stored \union {"absent", "value"}, persist : BOOLEAN,
        domains : Seq(Name), scope : Seq(Nat), wildcard : BOOLEAN]

RowInv ==
    row.status # "absent" =>
        /\ sent \in Payloads /\ Len(sent) >= 1
        /\ row.domains = Normalized(sent)
        /\ row.persist => /\ InScope(row.domains)
                          /\ row.scope = Scope(row.domains)
                          /\ row.wildcard = WildcardPolicy(row.domains)

GivenInv == given \in EnvFiles \union {<<>>}

Inv ==
    /\ row \in Row /\ TypeOK /\ RowInv /\ GivenInv
    /\ RepetitionResumes /\ OutcomeIsDeserved

LEMMA InitInv == Init => Inv
  <1> SUFFICES ASSUME Init PROVE Inv
    OBVIOUS
  <1>1. <<>> \in Seq(Name) /\ <<>> \in Seq(Nat)
    OBVIOUS
  <1>2. NoRow \in Row /\ NoRow.status = "absent"
    BY <1>1 DEF NoRow, Row, Stored, Category
  <1>3. row \in Row
    BY <1>2 DEF Init
  <1>4. TypeOK
    BY <1>2 DEF Init, TypeOK, NoRow, Stored, Category, Reply
  <1>5. RowInv /\ GivenInv /\ RepetitionResumes /\ OutcomeIsDeserved
    BY <1>2 DEF Init, RowInv, GivenInv, RepetitionResumes, OutcomeIsDeserved
  <1> QED BY <1>3, <1>4, <1>5 DEF Inv

-----------------------------------------------------------------------------
\* An accepted payload makes a row.
LEMMA CreateMakesRow ==
    ASSUME NEW raws \in Payloads, Len(raws) >= 1, NEW persist \in BOOLEAN,
           NEW st \in {"value", "pending"}
    PROVE  LET r == NewRow(st, persist, Normalized(raws))
           IN  r \in Row /\ r # NoRow /\ r.domains # <<>>
  <1> DEFINE d == Normalized(raws)
  <1>1. d \in Seq(Name) /\ Len(d) \in Nat /\ Len(d) >= 1
    BY NormalizedNames
  <1> HIDE DEF d
  <1>2. d[1] \in Name /\ d # <<>>
    BY <1>1
  <1>3. Scope(d) \in Seq(Nat)
    BY <1>2, WithoutStarIs DEF Scope
  <1>4. <<>> \in Seq(Nat)
    OBVIOUS
  <1>5. WildcardPolicy(d) \in BOOLEAN
    BY DEF WildcardPolicy
  <1> DEFINE r == NewRow(st, persist, d)
  <1>6. r \in Row
    BY <1>1, <1>3, <1>4, <1>5 DEF NewRow, Row, Stored, Category
  <1>7. r.domains = d /\ NoRow.domains = <<>>
    BY DEF NewRow, NoRow
  <1> QED BY <1>2, <1>6, <1>7 DEF d

LEMMA CreateStep ==
    ASSUME Inv, NEW raws \in Payloads, NEW persist \in BOOLEAN,
           Create(raws, persist)
    PROVE  Inv'
  <1> DEFINE d == Normalized(raws)
             st == IF persist THEN "value" ELSE "pending"
  <1>1. CASE Acceptable(raws) /\ (persist => InScope(d))
    <2>1. /\ row' = NewRow(st, persist, d) /\ sent' = raws
          /\ reply' = IF persist THEN "none" ELSE "created"
          /\ UNCHANGED <<category, repeated, given, deserved>>
      BY <1>1 DEF Create
    <2>2. Len(raws) >= 1 /\ raws # <<>>
      BY <1>1 DEF Acceptable
    <2>3. row' \in Row /\ row' # NoRow /\ row'.domains # <<>>
      BY <2>1, <2>2, CreateMakesRow
    <2>4. /\ row'.status = st /\ row'.persist = persist /\ row'.domains = d
          /\ row'.scope = (IF persist THEN Scope(d) ELSE <<>>)
          /\ row'.wildcard = (persist /\ WildcardPolicy(d))
      BY <2>1 DEF NewRow
    <2>5. st \in {"value", "pending"}
      OBVIOUS
    <2>c. category = "none"
      BY DEF Create, Inv, TypeOK
    <2>6. TypeOK'
      BY <2>1, <2>2, <2>3, <2>4, <2>5, <2>c
      DEF Inv, TypeOK, Row, Stored, Category, Reply
    <2>7. RowInv'
      BY <1>1, <2>1, <2>2, <2>4 DEF RowInv, WildcardPolicy
    <2>8. (GivenInv /\ RepetitionResumes /\ OutcomeIsDeserved)'
      BY <2>1, <2>4, <2>5
      DEF Inv, GivenInv, RepetitionResumes, OutcomeIsDeserved
    <2> QED BY <2>3, <2>6, <2>7, <2>8 DEF Inv
  <1>2. CASE ~(Acceptable(raws) /\ (persist => InScope(d)))
    <2>1. /\ reply' = "unprocessable"
          /\ UNCHANGED <<row, category, sent, repeated, given, deserved>>
      BY <1>2 DEF Create
    <2> QED BY <2>1 DEF Inv, TypeOK, RowInv, GivenInv, RepetitionResumes,
                        OutcomeIsDeserved, Reply
  <1> QED BY <1>1, <1>2

LEMMA ValueStep ==
    ASSUME Inv, NEW a, NEW value, ValueMade(a, value)
    PROVE  Inv'
  <1>0. /\ row.status = "value"
        /\ UNCHANGED <<category, repeated, given, deserved>>
    BY DEF ValueMade
  <1>1. CASE PersistValue(a, value) = "ok"
    <2>1. /\ row' = [row EXCEPT !.status = "pending_dns"]
          /\ reply' = "created" /\ UNCHANGED sent
      BY <1>1 DEF ValueMade
    <2>2. /\ row' \in Row /\ row'.status = "pending_dns"
          /\ row'.persist = row.persist /\ row'.domains = row.domains
          /\ row'.scope = row.scope /\ row'.wildcard = row.wildcard
      BY <2>1 DEF Inv, Row, Stored
    <2>3. sent \in Payloads /\ Len(sent) >= 1 /\ row.domains = Normalized(sent)
      BY <1>0 DEF Inv, RowInv
    <2>4. sent # <<>> /\ row.domains # <<>>
      BY <2>3, NormalizedNames
    <2>5. row' # NoRow
      BY <2>2 DEF NoRow
    <2>6. TypeOK'
      BY <1>0, <2>1, <2>2, <2>4, <2>5
      DEF Inv, TypeOK, Row, Stored, Category, Reply
    <2>7. RowInv'
      BY <1>0, <2>1, <2>2 DEF Inv, RowInv
    <2>8. (GivenInv /\ RepetitionResumes /\ OutcomeIsDeserved)'
      BY <1>0, <2>1, <2>2
      DEF Inv, GivenInv, RepetitionResumes, OutcomeIsDeserved
    <2> QED BY <2>2, <2>6, <2>7, <2>8 DEF Inv
  <1>2. CASE PersistValue(a, value) # "ok"
    <2>1. /\ row' = NoRow /\ sent' = <<>>
          /\ reply' \in {"unavailable", "unprocessable"}
      BY <1>2 DEF ValueMade
    <2>2. <<>> \in Seq(Name) /\ <<>> \in Seq(Nat)
      OBVIOUS
    <2>3. NoRow \in Row /\ NoRow.status = "absent"
      BY <2>2 DEF NoRow, Row, Stored, Category
    <2>4. TypeOK'
      BY <1>0, <2>1, <2>3 DEF Inv, TypeOK, Row, Stored, Category, Reply
    <2>5. (RowInv /\ GivenInv /\ RepetitionResumes /\ OutcomeIsDeserved)'
      BY <1>0, <2>1, <2>3
      DEF Inv, RowInv, GivenInv, RepetitionResumes, OutcomeIsDeserved
    <2> QED BY <2>1, <2>3, <2>4, <2>5 DEF Inv
  <1> QED BY <1>1, <1>2

\* _resume_or_reject tells a repetition by the stored names.
LEMMA ResubmitStep ==
    ASSUME Inv, NEW raws \in Payloads, Resubmit(raws)
    PROVE  Inv'
  <1>1. /\ row.status \in Stored
        /\ UNCHANGED <<row, category, sent, given, deserved>>
        /\ repeated' = SameRequest(sent, raws)
        /\ reply' = IF ~Acceptable(raws) THEN "unprocessable"
                    ELSE IF Resumes(raws) THEN "resumed" ELSE "conflict"
    BY DEF Resubmit
  <1>2. sent \in Payloads /\ Len(sent) >= 1 /\ row.domains = Normalized(sent)
    BY <1>1 DEF Inv, RowInv, Stored
  <1>3. repeated' \in BOOLEAN /\ reply' \in Reply
    BY <1>1 DEF SameRequest, Reply
  <1>4. TypeOK'
    BY <1>1, <1>3 DEF Inv, TypeOK
  <1>5. (row \in Row /\ RowInv /\ GivenInv /\ OutcomeIsDeserved)'
    BY <1>1 DEF Inv, RowInv, GivenInv, OutcomeIsDeserved
  <1>6. ASSUME reply' \in {"resumed", "conflict"}
        PROVE  row.domains = Normalized(raws) <=> repeated'
    <2>1. Len(raws) >= 1
      BY <1>1, <1>6 DEF Acceptable
    <2> QED BY <1>1, <1>2, <2>1, NormalizedAlike
  <1>7. RepetitionResumes'
    BY <1>1, <1>6 DEF RepetitionResumes, Resumes
  <1> QED BY <1>4, <1>5, <1>7 DEF Inv

\* What a change of status and category leaves alone.
LEMMA StatusStep ==
    ASSUME Inv, row.status \in Stored, NEW st \in Stored, NEW cat \in Category,
           row' = [row EXCEPT !.status = st], category' = cat,
           UNCHANGED <<sent, repeated>>, reply' \in Reply,
           st = "failed" => cat # "none",
           cat # "none" => st \in {"failed", "closed"}
    PROVE  /\ row' \in Row /\ TypeOK' /\ RowInv'
           /\ row'.status = st
           /\ row'.persist = row.persist
  <1>1. /\ row' \in Row /\ row'.status = st
        /\ row'.persist = row.persist /\ row'.domains = row.domains
        /\ row'.scope = row.scope /\ row'.wildcard = row.wildcard
    BY DEF Inv, Row
  <1>2. row' # NoRow
    BY <1>1 DEF NoRow, Stored
  <1>3. TypeOK'
    BY <1>1, <1>2 DEF Inv, TypeOK, Row, Stored
  <1>4. RowInv'
    BY <1>1 DEF Inv, RowInv, Stored
  <1> QED BY <1>1, <1>3, <1>4

LEMMA StartStep ==
    ASSUME Inv, NEW env \in EnvFiles, StartIssue(env)
    PROVE  Inv'
  <1>1. /\ row.status \in {"pending", "pending_dns"}
        /\ row' = [row EXCEPT !.status = "issuing"]
        /\ reply' = "none" /\ given' = env
        /\ UNCHANGED <<category, sent, repeated, deserved>>
    BY DEF StartIssue
  <1>2. category' = "none" /\ "none" \in Category
    BY <1>1 DEF Inv, TypeOK, Category
  <1>3. /\ row' \in Row /\ TypeOK' /\ RowInv' /\ row'.status = "issuing"
    BY <1>1, <1>2, StatusStep DEF Stored, Reply
  <1>4. (GivenInv /\ RepetitionResumes /\ OutcomeIsDeserved)'
    BY <1>1, <1>3 DEF GivenInv, RepetitionResumes, OutcomeIsDeserved
  <1> QED BY <1>3, <1>4 DEF Inv

(***************************************************************************)
(* classify_exit, the checks on the output and those on the files make of  *)
(* every answer of acme.sh what it deserves.                               *)
(***************************************************************************)
LEMMA OutcomeDeserved ==
    ASSUME NEW a \in Answer, NEW source \in [Files -> SourceKind]
    PROVE  /\ Outcome(a, source) = Deserved(a, source)
           /\ Outcome(a, source) \in Category
  <1>1. CASE a.exit # 0
    <2>1. classify_exit(a).class = IF Passing(a) THEN "transient"
                                   ELSE "terminal"
      BY DEF classify_exit, Passing, Error
    <2> QED BY <1>1, <2>1 DEF Outcome, Issuance, Deserved, Category
  <1>2. CASE a.exit = 0
    <2>1. Files \ {"fullchain"} = {"cert", "key", "chain"}
      BY DEF Files
    <2>2. CASE ~(parse_cert_paths(a) /\ a.readable)
      BY <1>2, <2>1, <2>2
      DEF Outcome, Issuance, Deserved, Category, parse_cert_paths
    <2>3. CASE parse_cert_paths(a) /\ a.readable
      <3>1. Outcome(a, source)
                = IF Deployable(source) THEN "none" ELSE "deployment"
        BY <1>2, <2>3 DEF Outcome, Issuance
      <3>2. Deserved(a, source)
                = IF \E f \in Files : source[f] # "regular"
                  THEN "deployment" ELSE "none"
        BY <1>2, <2>1, <2>3 DEF Deserved, parse_cert_paths
      <3> QED BY <3>1, <3>2 DEF Deployable, Category
    <2> QED BY <2>2, <2>3
  <1> QED BY <1>1, <1>2

LEMMA IssueStep ==
    ASSUME Inv, NEW a \in Answers, NEW source \in Sources(a), Issue(a, source)
    PROVE  Inv'
  <1> DEFINE outcome == Outcome(a, source)
             st == IF outcome = "none" THEN "valid" ELSE "failed"
  <1>1. /\ row.status = "issuing"
        /\ row' = [row EXCEPT !.status = st] /\ category' = outcome
        /\ deserved' = Deserved(a, source)
        /\ UNCHANGED <<reply, sent, repeated, given>>
    BY DEF Issue
  <1>2. a \in Answer /\ source \in [Files -> SourceKind]
    BY AnswersAssumption DEF Sources, SourceKind
  <1>3. outcome = Deserved(a, source) /\ outcome \in Category
    BY <1>2, OutcomeDeserved
  <1> HIDE DEF outcome
  <1>4. st \in {"valid", "failed"} /\ (st = "failed" <=> outcome # "none")
    OBVIOUS
  <1> HIDE DEF st
  <1>5. reply' \in Reply
    BY <1>1 DEF Inv, TypeOK
  <1>6. /\ row' \in Row /\ TypeOK' /\ RowInv'
        /\ row'.status = st
        /\ row'.persist = row.persist
    BY <1>1, <1>3, <1>4, <1>5, StatusStep DEF Stored
  <1>7. GivenInv' /\ OutcomeIsDeserved'
    BY <1>1, <1>3, <1>6 DEF Inv, GivenInv, OutcomeIsDeserved
  <1>8. RepetitionResumes'
    BY <1>1, <1>6 DEF Inv, RepetitionResumes
  <1> QED BY <1>6, <1>7, <1>8 DEF Inv

LEMMA DeleteStep ==
    ASSUME Inv, Delete
    PROVE  Inv'
  <1>1. /\ row.status \in Stored
        /\ row' = [row EXCEPT !.status = "closed"]
        /\ reply' = "none"
        /\ UNCHANGED <<category, sent, repeated, given, deserved>>
    BY DEF Delete
  <1>2. category' \in Category
    BY <1>1 DEF Inv, TypeOK
  <1>3. /\ row' \in Row /\ TypeOK' /\ RowInv' /\ row'.status = "closed"
    BY <1>1, <1>2, StatusStep DEF Stored, Reply
  <1>4. (GivenInv /\ RepetitionResumes /\ OutcomeIsDeserved)'
    BY <1>1, <1>3 DEF Inv, GivenInv, RepetitionResumes, OutcomeIsDeserved
  <1> QED BY <1>3, <1>4 DEF Inv

LEMMA NextInv == Inv /\ [Next]_vars => Inv'
  <1> SUFFICES ASSUME Inv, [Next]_vars PROVE Inv'
    OBVIOUS
  <1>1. ASSUME NEW raws \in Payloads, NEW persist \in BOOLEAN,
               Create(raws, persist)
        PROVE  Inv'
    BY <1>1, CreateStep
  <1>2. ASSUME NEW raws \in Payloads, Resubmit(raws)
        PROVE  Inv'
    BY <1>2, ResubmitStep
  <1>3. ASSUME NEW a \in Answers, NEW value \in PersistValues,
               ValueMade(a, value)
        PROVE  Inv'
    BY <1>3, ValueStep
  <1>4. CASE Delete
    BY <1>4, DeleteStep
  <1>5. ASSUME NEW env \in EnvFiles, StartIssue(env)
        PROVE  Inv'
    BY <1>5, StartStep
  <1>6. ASSUME NEW a \in Answers, NEW source \in Sources(a), Issue(a, source)
        PROVE  Inv'
    BY <1>6, IssueStep
  <1>7. CASE UNCHANGED vars
    BY <1>7 DEF vars, Inv, TypeOK, RowInv, GivenInv, RepetitionResumes,
                OutcomeIsDeserved
  <1> QED BY <1>1, <1>2, <1>3, <1>4, <1>5, <1>6, <1>7 DEF Next

LEMMA InvHolds == Spec => []Inv
  BY InitInv, NextInv, PTL DEF Spec

-----------------------------------------------------------------------------
(***************************************************************************)
(* The columns of the row agree with one another at every step: a stored   *)
(* row has names, and a row that failed a category, which nothing else has *)
(* unless it was deleted afterwards.                                       *)
(***************************************************************************)
THEOREM IssuanceTypes == Spec => []TypeOK
  <1>1. Inv => TypeOK
    BY DEF Inv
  <1> QED BY <1>1, InvHolds, PTL

(***************************************************************************)
(* A creation request that finds its identity taken resumes the row of the *)
(* same request and no other, whatever the names and their spelling: the   *)
(* sorted list _validate_domains stores depends on the primary name and    *)
(* the set of the names, and determines them.                              *)
(***************************************************************************)
THEOREM RepetitionsResume == Spec => []RepetitionResumes
  <1>1. Inv => RepetitionResumes
    BY DEF Inv
  <1> QED BY <1>1, InvHolds, PTL

(***************************************************************************)
(* The DNS Persist record of a stored row authorizes its names, and asks   *)
(* for a wildcard exactly if one of them is not the scope itself.          *)
(***************************************************************************)
THEOREM RecordsCoverNames == Spec => []RecordCoversNames
  <1>1. Inv => RecordCoversNames
    <2> SUFFICES ASSUME Inv, row.status \in Stored, row.persist
                 PROVE  /\ \A i \in DOMAIN row.domains :
                              \E n \in 0 .. Len(row.domains[i]) :
                                  SubSeq(row.domains[i], 1, n) = row.scope
                        /\ row.wildcard <=>
                             \E i \in DOMAIN row.domains :
                                 row.domains[i] # row.scope
      BY DEF RecordCoversNames
    <2> DEFINE d == row.domains
    <2>1. /\ sent \in Payloads /\ Len(sent) >= 1 /\ d = Normalized(sent)
          /\ InScope(d) /\ row.scope = Scope(d)
          /\ row.wildcard = WildcardPolicy(d)
      BY DEF Inv, RowInv, Stored
    <2>2. /\ d \in Seq(Name) /\ Len(d) >= 1
          /\ \A i \in 2 .. Len(d) : d[i] # d[1]
      BY <2>1, NormalizedNames
    <2>3. Scope(d) \in Seq(Nat)
      BY <2>1 DEF Inv, Row
    <2> HIDE DEF d
    <2>4. ASSUME NEW i \in DOMAIN d
          PROVE  \E n \in 0 .. Len(d[i]) : SubSeq(d[i], 1, n) = Scope(d)
      <3>1. d[i] \in Name
        BY <2>2
      <3>2. IsPrefix(Scope(d), WithoutStar(d[i]))
        BY <2>1 DEF InScope
      <3> QED BY <2>3, <3>1, <3>2, ScopeCovers
    <2>5. WildcardPolicy(d) <=> \E i \in DOMAIN d : d[i] # Scope(d)
      BY <2>2, PolicyIsNeeded
    <2> QED BY <2>1, <2>4, <2>5 DEF d
  <1> QED BY <1>1, InvHolds, PTL

(***************************************************************************)
(* A row is VALID only with a certificate that acme.sh reported and the    *)
(* deployer accepted, and FAILED in the category its failure deserves,     *)
(* for every exit code and every combination of phrases and files.         *)
(***************************************************************************)
THEOREM OutcomesAreDeserved == Spec => []OutcomeIsDeserved
  <1>1. Inv => OutcomeIsDeserved
    BY DEF Inv
  <1> QED BY <1>1, InvHolds, PTL

-----------------------------------------------------------------------------
(***************************************************************************)
(* load_env_vars reads the provider's file line by line.  The table of     *)
(* what it has after n lines exists, which an induction shows by the least *)
(* n for which it would not.                                               *)
(***************************************************************************)
Table(g, lines, m) ==
    g = [n \in 0 .. m |-> IF n = 0 THEN <<>>
                          ELSE Assigned(g[n - 1], lines[n], n)]

LEMMA LoadIsTable ==
    ASSUME NEW lines
    PROVE  load_env_vars(lines)
             = (CHOOSE g : Table(g, lines, Len(lines)))[Len(lines)]
  BY Zenon DEF load_env_vars, Table

LEMMA TableExists ==
    ASSUME NEW lines, NEW m \in Nat
    PROVE  \E g : Table(g, lines, m)
  <1> DEFINE T == {n \in Nat : \A g : ~Table(g, lines, n)}
  <1> SUFFICES ASSUME T # {} PROVE FALSE
    OBVIOUS
  <1>1. T \subseteq Nat
    OBVIOUS
  <1>2. PICK n \in T : \A k \in T : n <= k
    BY <1>1, Least, Zenon
  <1>3. n \in Nat /\ \A g : ~Table(g, lines, n)
    BY <1>2
  <1>4. CASE n = 0
    <2>1. Table([k \in 0 .. 0 |-> <<>>], lines, 0)
      BY DEF Table
    <2> QED BY <1>3, <1>4, <2>1
  <1>5. CASE n # 0
    <2>1. n - 1 \in Nat /\ n - 1 \notin T
      BY <1>2, <1>3, <1>5
    <2>2. PICK g : Table(g, lines, n - 1)
      BY <2>1
    <2> DEFINE h == [k \in 0 .. n |-> IF k = n THEN
                                         Assigned(g[n - 1], lines[n], n)
                                      ELSE g[k]]
    <2>3. \A k \in 0 .. n - 1 : h[k] = g[k]
      BY <1>3
    <2>4. h[n] = Assigned(g[n - 1], lines[n], n)
      BY <1>3
    <2>5. ASSUME NEW k \in 0 .. n
          PROVE  h[k] = IF k = 0 THEN <<>> ELSE Assigned(h[k - 1], lines[k], k)
      <3>1. CASE k = n
        <4>1. h[k - 1] = g[n - 1]
          BY <1>3, <1>5, <2>3, <3>1
        <4> QED BY <1>5, <2>4, <3>1, <4>1
      <3>2. CASE k # n
        <4>1. k \in 0 .. n - 1
          BY <1>3, <3>2
        <4>2. g[k] = IF k = 0 THEN <<>> ELSE Assigned(g[k - 1], lines[k], k)
          BY <2>2, <4>1, Zenon DEF Table
        <4>3. k # 0 => k - 1 \in 0 .. n - 1
          BY <1>3, <4>1
        <4> QED BY <2>3, <4>1, <4>2, <4>3
      <3> QED BY <3>1, <3>2
    <2>6. h = [k \in DOMAIN h |-> h[k]] /\ DOMAIN h = 0 .. n
      OBVIOUS
    <2> HIDE DEF h
    <2>7. Table(h, lines, n)
      BY <2>5, <2>6 DEF Table
    <2> QED BY <1>3, <2>7
  <1> QED BY <1>4, <1>5

\* What each variable has after n lines.
Right(env, lines, n) ==
    \A k \in DOMAIN env :
        /\ env[k] \in 1 .. n /\ lines[env[k]].key = k /\ Taken(lines[env[k]])
        /\ \A i \in env[k] + 1 .. n : lines[i].key = k => ~Taken(lines[i])

\* And every line that is taken sets its variable.
Full(env, lines, n) ==
    \A i \in 1 .. n : Taken(lines[i]) => lines[i].key \in DOMAIN env

LEMMA AssignedFull ==
    ASSUME NEW n \in Nat \ {0}, NEW env, NEW lines, Full(env, lines, n - 1)
    PROVE  Full(Assigned(env, lines[n], n), lines, n)
  <1>1. \A i \in 1 .. n : i = n \/ i \in 1 .. n - 1
    OBVIOUS
  <1>2. CASE ~Taken(lines[n])
    BY <1>1, <1>2 DEF Assigned, Full
  <1>3. CASE Taken(lines[n])
    <2>1. DOMAIN Assigned(env, lines[n], n) = DOMAIN env \union {lines[n].key}
      BY <1>3 DEF Assigned
    <2> QED BY <1>1, <2>1 DEF Full
  <1> QED BY <1>2, <1>3

LEMMA AssignedRight ==
    ASSUME NEW n \in Nat \ {0}, NEW env, NEW lines, Right(env, lines, n - 1)
    PROVE  Right(Assigned(env, lines[n], n), lines, n)
  <1>0. n \in 1 .. n /\ \A i \in 1 .. n - 1 : i \in 1 .. n
    OBVIOUS
  <1>1. CASE ~Taken(lines[n])
    <2>1. Assigned(env, lines[n], n) = env
      BY <1>1 DEF Assigned
    <2>2. ASSUME NEW k \in DOMAIN env, NEW i \in env[k] + 1 .. n,
                 lines[i].key = k
          PROVE  ~Taken(lines[i])
      <3>1. env[k] \in 1 .. n - 1
        BY DEF Right
      <3>2. i = n \/ i \in env[k] + 1 .. n - 1
        BY <3>1
      <3> QED BY <1>1, <2>2, <3>2 DEF Right
    <2>3. \A k \in DOMAIN env : /\ env[k] \in 1 .. n - 1
                                /\ lines[env[k]].key = k
                                /\ Taken(lines[env[k]])
      BY DEF Right
    <2> QED BY <1>0, <2>1, <2>2, <2>3 DEF Right
  <1>2. CASE Taken(lines[n])
    <2> DEFINE D == DOMAIN env \union {lines[n].key}
               new == Assigned(env, lines[n], n)
    <2>1. new = [k \in D |-> IF k = lines[n].key THEN n ELSE env[k]]
      BY <1>2 DEF Assigned
    <2> HIDE DEF new
    <2>2. ASSUME NEW k \in D, k = lines[n].key
          PROVE  /\ new[k] = n
                 /\ \A i \in new[k] + 1 .. n :
                        lines[i].key = k => ~Taken(lines[i])
      <3>1. new[k] = n
        BY <2>1, <2>2
      <3> QED BY <3>1
    <2>3. ASSUME NEW k \in D, k # lines[n].key, NEW i \in new[k] + 1 .. n,
                 lines[i].key = k
          PROVE  ~Taken(lines[i])
      <3>1. k \in DOMAIN env /\ new[k] = env[k]
        BY <2>1, <2>3
      <3>2. env[k] \in 1 .. n - 1
        BY <3>1 DEF Right
      <3>3. i # n
        BY <2>3
      <3>4. i \in env[k] + 1 .. n - 1
        BY <3>1, <3>2, <3>3
      <3> QED BY <2>3, <3>1, <3>4 DEF Right
    <2>4. \A k \in D : k # lines[n].key =>
              /\ new[k] \in 1 .. n - 1 /\ lines[new[k]].key = k
              /\ Taken(lines[new[k]])
      BY <2>1 DEF Right
    <2>5. DOMAIN new = D
      BY <2>1
    <2>6. Right(new, lines, n)
      BY <1>0, <1>2, <2>2, <2>3, <2>4, <2>5 DEF Right
    <2> QED BY <2>6 DEF new
  <1> QED BY <1>1, <1>2

LEMMA LoadedRight ==
    ASSUME NEW lines \in Seq(EnvLine)
    PROVE  /\ Right(load_env_vars(lines), lines, Len(lines))
           /\ Full(load_env_vars(lines), lines, Len(lines))
  <1> DEFINE m == Len(lines)
             g == CHOOSE h : Table(h, lines, m)
  <1>1. m \in Nat
    OBVIOUS
  <1>2. Table(g, lines, m)
    BY <1>1, TableExists
  <1>3. load_env_vars(lines) = g[m]
    BY LoadIsTable
  <1> HIDE DEF m, g
  <1>4. ASSUME NEW k \in 0 .. m
        PROVE  g[k] = IF k = 0 THEN <<>> ELSE Assigned(g[k - 1], lines[k], k)
    BY <1>2, Zenon DEF Table
  <1> DEFINE Good(k) == Right(g[k], lines, k) /\ Full(g[k], lines, k)
             T == {k \in 0 .. m : ~Good(k)}
  <1>5. T = {}
    <2> SUFFICES ASSUME T # {} PROVE FALSE
      OBVIOUS
    <2>1. T \subseteq Nat
      BY <1>1
    <2>2. PICK k \in T : \A j \in T : k <= j
      BY <2>1, Least, Zenon
    <2>3. k \in 0 .. m /\ ~Good(k)
      BY <2>2
    <2>4. CASE k = 0
      <3>1. g[0] = <<>> /\ DOMAIN <<>> = {}
        BY <1>4, <2>3, <2>4
      <3>2. Good(0)
        BY <3>1 DEF Right, Full
      <3> QED BY <2>3, <2>4, <3>2
    <2>5. CASE k # 0
      <3>1. k \in Nat \ {0} /\ k - 1 \in 0 .. m /\ ~(k <= k - 1)
        BY <1>1, <2>3, <2>5
      <3>2. Good(k - 1)
        BY <2>2, <3>1
      <3>3. /\ Right(Assigned(g[k - 1], lines[k], k), lines, k)
            /\ Full(Assigned(g[k - 1], lines[k], k), lines, k)
        BY <3>1, <3>2, AssignedRight, AssignedFull
      <3> QED BY <1>4, <2>3, <2>5, <3>3
    <2> QED BY <2>4, <2>5
  <1>6. m \in 0 .. m
    BY <1>1
  <1>7. Good(m)
    BY <1>5, <1>6
  <1> QED BY <1>3, <1>7 DEF m

\* The comparison without regard to case is one of words.
LEMMA TakenSets ==
    ASSUME NEW line \in EnvLine
    PROVE  Taken(line) <=> Sets(line)
  <1>1. line.key \in EnvKey
    BY DEF EnvLine
  <1>2. Blocked(line.key) <=> line.key.word \in BlockedWords
    <2> HIDE DEF BlockedWords
    <2> DEFINE up == [line.key EXCEPT !.spelling = "upper"]
    <2>1. up = [word |-> line.key.word, spelling |-> "upper"]
      BY <1>1 DEF EnvKey
    <2> HIDE DEF up
    <2>2. up \in BLOCKED_ENV_KEYS <=> line.key.word \in BlockedWords
      BY <2>1 DEF BLOCKED_ENV_KEYS
    <2> QED BY <2>2 DEF Blocked, up
  <1> QED BY <1>2 DEF Taken, Sets

(***************************************************************************)
(* acme.sh runs with exactly the assignments of the provider's file that   *)
(* are the last of their variable and neither blocked, in whatever case,   *)
(* nor that of the log file, for a file of any length and every            *)
(* environment of the service.                                             *)
(***************************************************************************)
THEOREM EnvironmentIsTheProviders == Spec => []ProviderEnvironment
  <1>1. Inv => ProviderEnvironment
    <2> SUFFICES ASSUME Inv PROVE ProviderEnvironment
      OBVIOUS
    <2>1. given \in Seq(EnvLine)
      <3>1. <<>> \in Seq(EnvLine)
        OBVIOUS
      <3>2. given \in EnvFiles \/ given = <<>>
        BY DEF Inv, GivenInv
      <3> QED BY <3>1, <3>2, EnvFilesAssumption
    <2> DEFINE file == load_env_vars(given)
               env == CommandEnv(Environ, given, Logged)
               log == IF Logged THEN {LogFile} ELSE {}
               n == Len(given)
    <2>2. Right(file, given, n) /\ Full(file, given, n)
      BY <2>1, LoadedRight
    <2>3. env = [k \in Environ \union DOMAIN file \union log |->
                    IF k \in log THEN Configured
                    ELSE IF k \in DOMAIN file THEN file[k] ELSE Inherited]
      BY DEF CommandEnv
    <2>l. \A k : k \in log <=> Logged /\ k = LogFile
      OBVIOUS
    <2>n. n \in Nat /\ DOMAIN given = 1 .. n
      BY <2>1
    <2> HIDE DEF file, env, log, n
    <2>4. DOMAIN env = Environ \union DOMAIN file \union log
      BY <2>3
    <2>5. \A i \in 1 .. n : Taken(given[i]) <=> Sets(given[i])
      <3>1. \A i \in 1 .. n : given[i] \in EnvLine
        BY <2>1, <2>n
      <3> QED BY <3>1, TakenSets
    <2>6. ASSUME NEW i \in 1 .. n, given[i].key \in DOMAIN env,
                 env[given[i].key] = i
          PROVE  /\ Sets(given[i]) /\ ~(Logged /\ given[i].key = LogFile)
                 /\ \A j \in i + 1 .. n :
                        given[j].key = given[i].key => ~Sets(given[j])
      <3> DEFINE k == given[i].key
      <3>1. i # Configured /\ i # Inherited
        BY <2>n DEF Configured, Inherited
      <3>2. k \notin log /\ k \in DOMAIN file /\ file[k] = i
        BY <2>3, <2>4, <2>6, <3>1
      <3>3. Taken(given[i]) /\ \A j \in i + 1 .. n :
                                   given[j].key = k => ~Taken(given[j])
        BY <2>2, <3>2 DEF Right
      <3>4. \A j \in i + 1 .. n : j \in 1 .. n
        BY <2>n
      <3> QED BY <2>5, <2>l, <3>2, <3>3, <3>4
    <2>7. ASSUME NEW i \in 1 .. n,
                 Sets(given[i]), ~(Logged /\ given[i].key = LogFile),
                 \A j \in i + 1 .. n :
                     given[j].key = given[i].key => ~Sets(given[j])
          PROVE  given[i].key \in DOMAIN env /\ env[given[i].key] = i
      <3> DEFINE k == given[i].key
      <3>1. Taken(given[i]) /\ k \in DOMAIN file
        BY <2>2, <2>5, <2>7 DEF Full
      <3> HIDE DEF k
      <3>2. PICK h \in 1 .. n : /\ file[k] = h /\ given[h].key = k
                                /\ Taken(given[h])
                                /\ \A j \in h + 1 .. n :
                                       given[j].key = k => ~Taken(given[j])
        BY <2>2, <3>1 DEF Right
      <3>3. ~(i < h)
        BY <2>5, <2>7, <2>n, <3>2 DEF k
      <3>4. ~(h < i)
        <4>1. h < i => i \in h + 1 .. n
          BY <2>n
        <4> QED BY <3>1, <3>2, <4>1 DEF k
      <3>5. h = i
        BY <2>n, <3>3, <3>4
      <3>6. k \notin log
        BY <2>7, <2>l DEF k
      <3> QED BY <2>3, <2>4, <3>1, <3>2, <3>5, <3>6 DEF k
    <2>8. ASSUME NEW k \in Environ, k.word \in BlockedWords
          PROVE  env[k] = Inherited
      <3>1. k \notin DOMAIN file
        <4> SUFFICES ASSUME k \in DOMAIN file PROVE FALSE
          OBVIOUS
        <4>1. /\ file[k] \in 1 .. n /\ given[file[k]].key = k
              /\ Taken(given[file[k]])
          BY <2>2 DEF Right
        <4> QED BY <2>5, <2>8, <4>1 DEF Sets
      <3>2. k \notin log
        <4>1. LogFile.word \notin BlockedWords
          BY DEF LogFile, BlockedWords
        <4> QED BY <2>8, <2>l, <4>1
      <3> QED BY <2>3, <3>1, <3>2
    <2> QED BY <2>6, <2>7, <2>8, <2>n DEF ProviderEnvironment, env, n
  <1> QED BY <1>1, InvHolds, PTL

=============================================================================
