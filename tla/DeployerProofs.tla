---------------------------- MODULE DeployerProofs --------------------------
(***************************************************************************)
(* Proofs about one deployment directory, for any number of artifact names *)
(* and of deployments, any retention and both kinds of os.link.            *)
(***************************************************************************)
EXTENDS Deployer, TLAPS, WellFoundedInduction, SequenceTheorems

-----------------------------------------------------------------------------
(***************************************************************************)
(* The inductive invariant, in parts: what the deployer relies on where it *)
(* is, whatever crashes and changes of the layout came before.             *)
(***************************************************************************)
\* Every deployment publishes its generation and at most one snapshot.
CountInv ==
    /\ Len(gens) <= 2 * deployed
    /\ pc = "migrate" => Len(gens) < 2 * deployed
    /\ pc = "replace" => deployed > 0

\* What the cleanup removes is neither selected nor pinned.
VictimInv ==
    /\ victims \subseteq Existing \ ({current} \union pinned)
    /\ pc # "remove" => victims = {}

\* The generation being deployed is there and complete until it is linked.
NewInv ==
    pc \in {"migrate", "adopt", "links", "rename", "select"} =>
        /\ new \in Existing /\ deployed > 0
        /\ \A n \in Names : gens[new][n] = deployed

\* The snapshot shows what the names show, as far as os.link follows.
Snapshot(n) == IF n \in link /\ ~follow THEN 0 ELSE Shown(n)

SnapshotInv ==
    pc = "adopt" =>
        /\ Len(gens) \in Existing
        /\ \A n \in Names : Linkable(n) /\ gens[Len(gens)][n] = Snapshot(n)

\* A name that is not linked yet is in the snapshot, or there is no file.
LinkInv ==
    /\ pc = "rename" => link # Names
    /\ migrating => /\ pc \in {"links", "rename"}
                    /\ current \in Existing
                    /\ \A n \in Names \ link : gens[current][n] = file[n]
    /\ pc \in {"links", "rename"} /\ ~migrating => current = new
    /\ pc \in {"select", "links", "rename"} /\ ~migrating =>
           \A n \in Names \ link : file[n] = 0

\* Unless a crash cut the loop over the names short, they are alike.
Uniform ==
    \/ link = Names
    \/ link = {} /\ ((\A n \in Names : file[n] = 0)
                     \/ (\A n \in Names : file[n] # 0))

UncutInv ==
    ~cut =>
        /\ pc # "rename" => pending = {}
        /\ pc = "rename" => pending = {NextName}
        /\ pc \notin {"replace", "links", "rename"} => Uniform
        /\ pc = "replace" =>
              \A n \in 1 .. at - 1 : n \notin link /\ file[n] # 0

Inv ==
    /\ TypeOK /\ CountInv /\ VictimInv /\ NewInv
    /\ SnapshotInv /\ LinkInv /\ UncutInv

-----------------------------------------------------------------------------
(***************************************************************************)
(* The list of generations: removing one, and adding one at the end.       *)
(***************************************************************************)
LEMMA Appended ==
    ASSUME NEW S, NEW s \in Seq(S), IsInjective(s), NEW x \in S, x \notin Range(s)
    PROVE  LET t == Append(s, x)
           IN  /\ t \in Seq(S) /\ IsInjective(t)
               /\ Range(t) = Range(s) \union {x}
  <1> DEFINE t == Append(s, x)
             n == Len(s)
  <1>1. n \in Nat /\ DOMAIN s = 1 .. n
    OBVIOUS
  <1>2. /\ t \in Seq(S) /\ DOMAIN t = 1 .. n + 1 /\ t[n + 1] = x
        /\ \A i \in 1 .. n : t[i] = s[i]
    BY <1>1
  <1> HIDE DEF t, n
  <1>3. \A i \in DOMAIN t : i = n + 1 \/ i \in 1 .. n
    BY <1>1, <1>2
  <1>4. \A i \in 1 .. n : s[i] \in Range(s) /\ s[i] # x
    BY <1>1 DEF Range
  <1>5. IsInjective(t)
    <2> SUFFICES ASSUME NEW i \in DOMAIN t, NEW j \in DOMAIN t, t[i] = t[j]
                 PROVE  i = j
      BY DEF IsInjective
    <2>1. CASE i \in 1 .. n /\ j \in 1 .. n
      BY <1>1, <1>2, <2>1 DEF IsInjective
    <2>2. CASE i = n + 1 /\ j \in 1 .. n
      BY <1>2, <1>4, <2>2
    <2>3. CASE i \in 1 .. n /\ j = n + 1
      BY <1>2, <1>4, <2>3
    <2> QED BY <1>3, <2>1, <2>2, <2>3
  <1>6. n + 1 \in DOMAIN t /\ \A i \in 1 .. n : i \in DOMAIN t
    BY <1>1, <1>2
  <1>7. Range(t) = Range(s) \union {x}
    <2>1. \A y \in Range(t) : y \in Range(s) \union {x}
      BY <1>2, <1>3, <1>4 DEF Range
    <2>2. \A y \in Range(s) : y \in Range(t)
      BY <1>1, <1>2, <1>6 DEF Range
    <2>3. x \in Range(t)
      BY <1>2, <1>6 DEF Range
    <2> QED BY <2>1, <2>2, <2>3
  <1> QED BY <1>2, <1>5, <1>7 DEF t

LEMMA RemovedAt ==
    ASSUME NEW S, NEW s \in Seq(S), IsInjective(s), NEW k \in 1 .. Len(s)
    PROVE  LET t == RemoveAt(s, k)
           IN  /\ t \in Seq(S) /\ IsInjective(t)
               /\ Range(t) = Range(s) \ {s[k]}
  <1> DEFINE t == RemoveAt(s, k)
             n == Len(s)
             a == SubSeq(s, 1, k - 1)
             b == SubSeq(s, k + 1, n)
  <1>1. /\ n \in Nat /\ DOMAIN s = 1 .. n /\ k \in 1 .. n
        /\ \A i \in 1 .. n : s[i] \in S
    OBVIOUS
  <1>2. /\ a \in Seq(S) /\ Len(a) = k - 1
        /\ \A i \in 1 .. k - 1 : a[i] = s[i]
    <2>1. /\ 1 \in Int /\ k - 1 \in Int /\ \A i \in 1 .. k - 1 : s[i] \in S
          /\ (k - 1) - 1 + 1 = k - 1 /\ \A i \in 1 .. k - 1 : 1 + i - 1 = i
          /\ ~(1 <= k - 1) => k - 1 = 0
      BY <1>1
    <2> HIDE DEF n
    <2>2. /\ a \in Seq(S)
          /\ Len(a) = IF 1 <= k - 1 THEN (k - 1) - 1 + 1 ELSE 0
          /\ \A i \in 1 .. (k - 1) - 1 + 1 : a[i] = s[1 + i - 1]
      BY <2>1, SubSeqProperties
    <2> HIDE DEF a
    <2> QED BY <2>1, <2>2
  <1>3. /\ b \in Seq(S) /\ Len(b) = n - k
        /\ \A i \in 1 .. n - k : b[i] = s[k + i]
    <2> HIDE DEF n
    <2>0. \A i \in k + 1 .. n : s[i] \in S
      BY <1>1
    <2>1. /\ k + 1 \in Int /\ n \in Int
          /\ n - (k + 1) + 1 = n - k
          /\ \A i \in 1 .. n - k : (k + 1) + i - 1 = k + i
          /\ ~(k + 1 <= n) => n - k = 0
      BY <1>1
    <2>2. /\ b \in Seq(S)
          /\ Len(b) = IF k + 1 <= n THEN n - (k + 1) + 1 ELSE 0
          /\ \A i \in 1 .. n - (k + 1) + 1 : b[i] = s[(k + 1) + i - 1]
      BY <2>0, <2>1, SubSeqProperties
    <2> HIDE DEF b
    <2> QED BY <2>1, <2>2
  <1>4. t = a \o b
    BY DEF RemoveAt
  <1> HIDE DEF a, b, n, t
  <1>5. /\ t \in Seq(S) /\ Len(t) = n - 1
        /\ \A i \in 1 .. n - 1 :
               t[i] = IF i <= k - 1 THEN a[i] ELSE b[i - (k - 1)]
    <2>1. /\ t \in Seq(S) /\ Len(t) = Len(a) + Len(b)
          /\ \A i \in 1 .. Len(a) + Len(b) :
                 t[i] = IF i <= Len(a) THEN a[i] ELSE b[i - Len(a)]
      BY <1>2, <1>3, <1>4, ConcatProperties
    <2>2. Len(a) + Len(b) = n - 1
      BY <1>1, <1>2, <1>3
    <2> QED BY <1>2, <2>1, <2>2
  <1>6. ASSUME NEW i \in 1 .. n - 1
        PROVE  /\ i < k => t[i] = s[i] /\ i \in 1 .. n
               /\ ~(i < k) => t[i] = s[i + 1] /\ i + 1 \in 1 .. n
    <2>1. CASE i < k
      <3>1. i <= k - 1 /\ i \in 1 .. k - 1 /\ i \in 1 .. n
        BY <1>1, <2>1
      <3> QED BY <1>2, <1>5, <2>1, <3>1
    <2>2. CASE ~(i < k)
      <3>1. /\ ~(i <= k - 1) /\ i - (k - 1) \in 1 .. n - k
            /\ k + (i - (k - 1)) = i + 1 /\ i + 1 \in 1 .. n
        BY <1>1, <2>2
      <3>2. t[i] = b[i - (k - 1)]
        BY <1>5, <3>1
      <3>3. b[i - (k - 1)] = s[k + (i - (k - 1))]
        BY <1>3, <3>1
      <3> QED BY <2>2, <3>1, <3>2, <3>3
    <2> QED BY <2>1, <2>2
  <1> DEFINE Old(i) == IF i < k THEN i ELSE i + 1
  <1>7. ASSUME NEW i \in 1 .. n - 1
        PROVE  /\ t[i] = s[Old(i)] /\ Old(i) \in 1 .. n /\ Old(i) # k
    BY <1>1, <1>6
  <1>8. \A i, j \in 1 .. n - 1 : Old(i) = Old(j) => i = j
    BY <1>1
  <1>9. \A j \in 1 .. n : j # k => \E i \in 1 .. n - 1 : Old(i) = j
    <2> SUFFICES ASSUME NEW j \in 1 .. n, j # k
                 PROVE  \E i \in 1 .. n - 1 : Old(i) = j
      OBVIOUS
    <2>1. CASE j < k
      BY <1>1, <2>1
    <2>2. CASE k < j
      <3>1. j - 1 \in 1 .. n - 1 /\ Old(j - 1) = j
        BY <1>1, <2>2
      <3> QED BY <3>1
    <2> QED BY <1>1, <2>1, <2>2
  <1> HIDE DEF Old
  <1>10. DOMAIN t = 1 .. n - 1
    BY <1>5
  <1>11. IsInjective(t)
    BY <1>1, <1>7, <1>8, <1>10 DEF IsInjective
  <1>12. Range(t) = Range(s) \ {s[k]}
    <2>1. \A y \in Range(t) : y \in Range(s) /\ y # s[k]
      BY <1>1, <1>7, <1>10 DEF Range, IsInjective
    <2>2. ASSUME NEW y \in Range(s), y # s[k]
          PROVE  y \in Range(t)
      <3>1. PICK j \in 1 .. n : y = s[j]
        BY <1>1 DEF Range
      <3>2. PICK i \in 1 .. n - 1 : Old(i) = j
        BY <1>9, <2>2, <3>1
      <3> QED BY <1>7, <1>10, <3>1, <3>2 DEF Range
    <2> QED BY <2>1, <2>2
  <1> QED BY <1>5, <1>11, <1>12 DEF t

-----------------------------------------------------------------------------
(***************************************************************************)
(* What publishing and removing a generation leave of the others.          *)
(***************************************************************************)
LEMMA GenerationsType ==
    ASSUME TypeOK
    PROVE  /\ Len(gens) \in Nat /\ DOMAIN gens = 1 .. Len(gens)
           /\ \A g \in 1 .. Len(gens) : gens[g] \in Generation
           /\ Existing \subseteq 1 .. Len(gens)
  <1>1. gens \in Seq(Generation) /\ order \in Seq(DOMAIN gens)
    BY DEF TypeOK
  <1>2. /\ Len(gens) \in Nat /\ DOMAIN gens = 1 .. Len(gens)
        /\ \A g \in 1 .. Len(gens) : gens[g] \in Generation
    BY <1>1
  <1>3. Existing \subseteq DOMAIN gens
    BY <1>1 DEF Existing, Range
  <1> QED BY <1>2, <1>3

LEMMA Published ==
    ASSUME TypeOK, NEW content \in Generation, Publish(content)
    PROVE  LET g == Len(gens) + 1
           IN  /\ gens' \in Seq(Generation) /\ Len(gens') = g
               /\ gens'[g] = content
               /\ \A h \in 1 .. Len(gens) : gens'[h] = gens[h]
               /\ order' \in Seq(DOMAIN gens') /\ IsInjective(order')
               /\ Existing' = Existing \union {g} /\ g \notin Existing
               /\ DOMAIN gens \subseteq DOMAIN gens'
  <1> DEFINE g == Len(gens) + 1
  <1>1. /\ gens' = Append(gens, content) /\ order' = Append(order, g)
    BY DEF Publish
  <1>2. gens \in Seq(Generation) /\ Len(gens) \in Nat
    BY DEF TypeOK
  <1>3. /\ gens' \in Seq(Generation) /\ Len(gens') = g /\ gens'[g] = content
        /\ \A h \in 1 .. Len(gens) : gens'[h] = gens[h]
    BY <1>1, <1>2
  <1>4. DOMAIN gens = 1 .. Len(gens) /\ DOMAIN gens' = 1 .. g
    BY <1>2, <1>3
  <1>5. /\ g \in DOMAIN gens' /\ g \notin DOMAIN gens
        /\ DOMAIN gens \subseteq DOMAIN gens'
    BY <1>2, <1>4
  <1> HIDE DEF g
  <1>6. order \in Seq(DOMAIN gens) /\ IsInjective(order)
    BY DEF TypeOK
  <1>7. order \in Seq(DOMAIN gens')
    BY <1>5, <1>6, SeqMonotonic
  <1>8. g \notin Range(order)
    BY <1>5, GenerationsType, <1>4 DEF Existing
  <1>9. /\ order' \in Seq(DOMAIN gens') /\ IsInjective(order')
        /\ Range(order') = Range(order) \union {g}
    BY <1>1, <1>5, <1>6, <1>7, <1>8, Appended
  <1> QED BY <1>3, <1>5, <1>8, <1>9 DEF Existing, g

LEMMA PublishShows ==
    ASSUME TypeOK, NEW content \in Generation, Publish(content),
           UNCHANGED <<file, link, current>>, NEW n \in Names
    PROVE  Shown(n)' = Shown(n)
  <1>1. current # Len(gens) + 1
    BY GenerationsType DEF TypeOK
  <1>2. current \in Existing' <=> current \in Existing
    BY <1>1, Published
  <1>3. current \in Existing => gens'[current] = gens[current]
    BY GenerationsType, Published
  <1> QED BY <1>2, <1>3 DEF Shown

LEMMA Removed ==
    ASSUME TypeOK, NEW g \in Existing
    PROVE  LET o == RemoveAt(order, Place(g))
           IN  /\ o \in Seq(DOMAIN gens) /\ IsInjective(o)
               /\ Range(o) = Existing \ {g}
  <1>1. order \in Seq(DOMAIN gens) /\ IsInjective(order)
    BY DEF TypeOK
  <1>2. \E i \in DOMAIN order : order[i] = g
    BY DEF Existing, Range
  <1>3. Place(g) \in DOMAIN order /\ order[Place(g)] = g
    BY <1>2 DEF Place
  <1>4. Place(g) \in 1 .. Len(order)
    BY <1>1, <1>3
  <1> QED BY <1>1, <1>3, <1>4, RemovedAt DEF Existing

\* The next name to link is one that is not linked.
LEMMA NextNameIs ==
    ASSUME TypeOK, link # Names
    PROVE  NextName \in Names \ link
  <1> DEFINE T == Names \ link
             R == OpToRel(<, Nat)
  <1>1. T \subseteq Nat /\ T # {}
    <2>1. link \subseteq Names
      BY DEF TypeOK
    <2>2. Names \subseteq Nat
      BY NAssumption DEF Names
    <2>3. T # {}
      BY <2>1
    <2> QED BY <2>2, <2>3
  <1>2. IsWellFoundedOn(R, Nat)
    BY NatLessThanWellFounded
  <1>3. \A m, n \in Nat : <<m, n>> \in R <=> m < n
    BY DEF OpToRel
  <1> HIDE DEF R
  <1>4. PICK n \in T : \A m \in T : ~(<<m, n>> \in R)
    BY <1>1, <1>2, WFMin
  <1>5. \A m \in T : n <= m
    <2> SUFFICES ASSUME NEW m \in T PROVE n <= m
      OBVIOUS
    <2>1. m \in Nat /\ n \in Nat
      BY <1>1
    <2>2. ~(m < n)
      BY <1>3, <1>4, <2>1
    <2> QED BY <2>1, <2>2
  <1> QED BY <1>4, <1>5 DEF NextName

-----------------------------------------------------------------------------
(***************************************************************************)
(* Init establishes the invariant, and every step keeps it.                *)
(***************************************************************************)
LEMMA InitInv == Init => Inv
  <1> SUFFICES ASSUME Init PROVE Inv
    OBVIOUS
  <1>1. /\ gens = <<>> /\ Len(gens) = 0 /\ DOMAIN gens = {}
        /\ gens \in Seq(Generation)
        /\ order \in Seq(DOMAIN gens) /\ DOMAIN order = {}
    BY DEF Init
  <1>2. IsInjective(order) /\ Existing = {}
    BY <1>1 DEF IsInjective, Existing, Range
  <1>3. file \in Generation /\ 1 \in Names /\ deployed \in Contents /\ Max2 >= 0
    BY NAssumption, MaxAssumption DEF Init, Generation, Names, Contents, Max2
  <1>4. TypeOK
    <2>1. /\ Len(gens) <= Max2
          /\ current \in 0 .. Len(gens) /\ new \in 0 .. Len(gens)
      BY <1>1, <1>3 DEF Init
    <2>2. /\ link \subseteq Names /\ pending \subseteq Names
          /\ pinned \subseteq DOMAIN gens /\ victims \subseteq DOMAIN gens
      BY DEF Init
    <2>3. at \in Names /\ migrating \in BOOLEAN /\ cut \in BOOLEAN
      BY <1>3 DEF Init
    <2>4. generational \in BOOLEAN /\ follow \in LinkModes /\ pc = "idle"
      BY DEF Init
    <2> QED BY <1>1, <1>2, <1>3, <2>1, <2>2, <2>3, <2>4 DEF TypeOK
  <1>5. CountInv /\ VictimInv /\ NewInv /\ SnapshotInv /\ LinkInv
    BY <1>1 DEF Init, CountInv, VictimInv, NewInv, SnapshotInv, LinkInv
  <1>6. UncutInv
    BY DEF Init, UncutInv, Uniform
  <1> QED BY <1>4, <1>5, <1>6 DEF Inv

\* Steps that leave the directory alone.
Still == UNCHANGED <<follow, fs>>

LEMMA StillShows ==
    ASSUME Still
    PROVE  /\ Existing' = Existing /\ NextName' = NextName
           /\ Uniform' = Uniform
           /\ \A n \in Names : /\ Shown(n)' = Shown(n)
                               /\ Linkable(n)' = Linkable(n)
                               /\ Snapshot(n)' = Snapshot(n)
  BY DEF Still, fs, Existing, NextName, Uniform, Shown, Linkable, Present,
         Snapshot

LEMMA DeployFilesStep ==
    ASSUME Inv, DeployFiles
    PROVE  Inv'
  <1>1. /\ pc = "idle" /\ pc' = "replace" /\ at' = 1
        /\ deployed' = deployed + 1 /\ deployed < MaxDeployments
        /\ UNCHANGED <<setup, cut, fs, new, migrating, victims>>
    BY DEF DeployFiles
  <1>2. Still
    BY <1>1 DEF Still, setup
  <1>3. deployed' \in Contents /\ deployed \in Nat /\ 1 \in Names
    BY <1>1, MaxAssumption, NAssumption DEF Inv, TypeOK, Contents, Names
  <1>4. TypeOK'
    BY <1>1, <1>3 DEF Inv, TypeOK, fs, setup
  <1>5. CountInv'
    BY <1>1, <1>3, GenerationsType DEF Inv, CountInv, fs
  <1>6. VictimInv' /\ NewInv' /\ SnapshotInv'
    BY <1>1, <1>2, StillShows
    DEF Inv, VictimInv, NewInv, SnapshotInv, fs
  <1>7. LinkInv' /\ UncutInv'
    BY <1>1, <1>2, StillShows DEF Inv, LinkInv, UncutInv, fs
  <1> QED BY <1>4, <1>5, <1>6, <1>7 DEF Inv

LEMMA ReplaceStep ==
    ASSUME Inv, ReplaceArtifact
    PROVE  Inv'
  <1>1. /\ pc = "replace" /\ file' = [file EXCEPT ![at] = deployed]
        /\ link' = link \ {at}
        /\ IF at < N THEN at' = at + 1 /\ UNCHANGED pc
           ELSE at' = 1 /\ pc' = "idle"
        /\ UNCHANGED <<setup, cut, pending, gens, order, current, pinned,
                       deployed, new, migrating, victims>>
    BY DEF ReplaceArtifact
  <1>2. pc' \in {"replace", "idle"} /\ at' \in Names /\ at \in 1 .. N
    BY <1>1, NAssumption DEF Inv, TypeOK, Names
  <1>3. file' \in Generation /\ link' \subseteq Names
    BY <1>1 DEF Inv, TypeOK, Generation
  <1>4. TypeOK'
    BY <1>1, <1>2, <1>3 DEF Inv, TypeOK, setup
  <1>5. Existing' = Existing
    BY <1>1 DEF Existing
  <1>6. CountInv' /\ VictimInv' /\ NewInv' /\ SnapshotInv'
    BY <1>1, <1>2, <1>5
    DEF Inv, CountInv, VictimInv, NewInv, SnapshotInv
  <1>7. LinkInv'
    BY <1>1, <1>2 DEF Inv, LinkInv
  <1>8. UncutInv'
    <2> SUFFICES ASSUME ~cut' PROVE UncutInv'
      BY DEF UncutInv
    <2>1. /\ ~cut /\ pending' = {} /\ deployed > 0
          /\ \A n \in 1 .. at - 1 : n \notin link /\ file[n] # 0
      BY <1>1 DEF Inv, UncutInv, CountInv
    <2>2. deployed \in Nat /\ file \in [Names -> Contents]
      BY MaxAssumption DEF Inv, TypeOK, Contents, Generation
    <2>3. \A n \in 1 .. at : n \in Names /\ (n = at \/ n \in 1 .. at - 1)
      BY <1>2, NAssumption DEF Names
    <2>4. \A n \in 1 .. at : n \notin link' /\ file'[n] # 0
      BY <1>1, <2>1, <2>2, <2>3
    <2>5. CASE at < N
      <3>1. pc' = "replace" /\ at' - 1 = at
        BY <1>1, <1>2, <2>5
      <3> QED BY <2>1, <2>4, <3>1 DEF UncutInv
    <2>6. CASE ~(at < N)
      <3>1. pc' = "idle" /\ 1 .. at = Names
        BY <1>1, <1>2, <2>6, NAssumption DEF Names
      <3>2. Uniform'
        BY <1>3, <2>4, <3>1 DEF Uniform
      <3> QED BY <2>1, <3>1, <3>2 DEF UncutInv
    <2> QED BY <2>5, <2>6
  <1> QED BY <1>4, <1>6, <1>7, <1>8 DEF Inv

LEMMA DeployGenerationStep ==
    ASSUME Inv, DeployGeneration
    PROVE  Inv'
  <1> DEFINE content == [n \in Names |-> deployed + 1]
             g == Len(gens) + 1
  <1>1. /\ pc = "idle" /\ pc' = "migrate" /\ deployed < MaxDeployments
        /\ deployed' = deployed + 1 /\ new' = g /\ Publish(content)
        /\ UNCHANGED <<setup, cut, file, link, pending, current, pinned, at,
                       migrating, victims>>
    BY DEF DeployGeneration
  <1>2. deployed' \in Contents /\ deployed \in Nat /\ deployed' > 0
    BY <1>1, MaxAssumption DEF Inv, TypeOK, Contents
  <1>3. content \in Generation
    BY <1>1, <1>2 DEF Generation
  <1>4. /\ gens' \in Seq(Generation) /\ Len(gens') = g /\ gens'[g] = content
        /\ order' \in Seq(DOMAIN gens') /\ IsInjective(order')
        /\ Existing' = Existing \union {g}
        /\ DOMAIN gens \subseteq DOMAIN gens'
    BY <1>1, <1>3, Published DEF Inv
  <1>5. Len(gens) \in Nat /\ Len(gens) <= 2 * deployed
    BY GenerationsType DEF Inv, CountInv
  <1>6. \A n \in Names : content[n] = deployed'
    BY <1>1
  <1> HIDE DEF content
  <1>7. Len(gens') <= Max2
    BY <1>1, <1>2, <1>4, <1>5, MaxAssumption DEF Max2
  <1>8. /\ current' \in 0 .. Len(gens') /\ new' \in 0 .. Len(gens')
    BY <1>1, <1>4, <1>5 DEF Inv, TypeOK
  <1>9. TypeOK'
    BY <1>1, <1>2, <1>4, <1>7, <1>8 DEF Inv, TypeOK, setup
  <1>10. CountInv'
    BY <1>1, <1>2, <1>4, <1>5 DEF CountInv
  <1>11. VictimInv' /\ NewInv' /\ SnapshotInv' /\ LinkInv'
    BY <1>1, <1>2, <1>4, <1>6
    DEF Inv, VictimInv, NewInv, SnapshotInv, LinkInv
  <1>12. UncutInv'
    BY <1>1 DEF Inv, UncutInv, Uniform
  <1> QED BY <1>9, <1>10, <1>11, <1>12 DEF Inv

LEMMA MigrateStep ==
    ASSUME Inv, MigrateNothing \/ MigrateFails
    PROVE  Inv'
  <1>1. /\ pc = "migrate" /\ pc' \in {"select", "idle"}
        /\ UNCHANGED <<setup, cut, fs, at, deployed, new, migrating, victims>>
    BY DEF MigrateNothing, MigrateFails
  <1>2. Still
    BY <1>1 DEF Still, setup
  <1>3. TypeOK' /\ CountInv'
    BY <1>1 DEF Inv, TypeOK, CountInv, fs, setup
  <1>4. VictimInv' /\ NewInv' /\ SnapshotInv' /\ UncutInv'
    BY <1>1, <1>2, StillShows
    DEF Inv, VictimInv, NewInv, SnapshotInv, UncutInv, fs
  <1>5. pc' = "select" => \A n \in Names \ link : file[n] = 0
    BY <1>1 DEF MigrateNothing, MigrateFails, NothingToMigrate, Present
  <1>6. LinkInv'
    BY <1>1, <1>5 DEF Inv, LinkInv, fs
  <1> QED BY <1>3, <1>4, <1>6 DEF Inv

LEMMA SnapshotStep ==
    ASSUME Inv, MigrateSnapshot
    PROVE  Inv'
  <1> DEFINE content == [n \in Names |-> Snapshot(n)]
             g == Len(gens) + 1
  <1>1. /\ pc = "migrate" /\ pc' = "adopt" /\ \A n \in Names : Linkable(n)
        /\ Publish(content)
        /\ UNCHANGED <<setup, cut, file, link, pending, current, pinned, at,
                       deployed, new, migrating, victims>>
    BY DEF MigrateSnapshot, Snapshot
  <1>2. content \in Generation
    <2>1. ASSUME NEW n \in Names
          PROVE  Shown(n) \in Contents
      <3>1. current \in Existing => gens[current][n] \in Contents
        BY GenerationsType DEF Inv, Generation
      <3>2. file[n] \in Contents /\ 0 \in Contents
        BY MaxAssumption DEF Inv, TypeOK, Generation, Contents
      <3> QED BY <3>1, <3>2 DEF Shown
    <2>2. 0 \in Contents
      BY MaxAssumption DEF Contents
    <2> QED BY <2>1, <2>2 DEF Snapshot, Generation
  <1>3. /\ gens' \in Seq(Generation) /\ Len(gens') = g /\ gens'[g] = content
        /\ \A h \in 1 .. Len(gens) : gens'[h] = gens[h]
        /\ order' \in Seq(DOMAIN gens') /\ IsInjective(order')
        /\ Existing' = Existing \union {g}
        /\ DOMAIN gens \subseteq DOMAIN gens'
    BY <1>1, <1>2, Published DEF Inv
  <1>4. \A n \in Names : Shown(n)' = Shown(n)
    BY <1>1, <1>2, PublishShows DEF Inv
  <1>5. \A n \in Names : /\ Snapshot(n)' = Snapshot(n)
                         /\ Linkable(n)' = Linkable(n)
    BY <1>1, <1>4 DEF Snapshot, Linkable, Present, setup
  <1>6. \A n \in Names : content[n] = Snapshot(n)
    OBVIOUS
  <1> HIDE DEF content
  <1>7. Len(gens) \in Nat /\ Len(gens) < 2 * deployed /\ deployed \in Contents
    BY <1>1, GenerationsType DEF Inv, CountInv, TypeOK
  <1>8. Len(gens') <= 2 * deployed /\ Len(gens') <= Max2
    BY <1>3, <1>7, MaxAssumption DEF Max2, Contents
  <1>9. /\ current' \in 0 .. Len(gens') /\ new' \in 0 .. Len(gens')
    BY <1>1, <1>3, <1>7 DEF Inv, TypeOK
  <1>10. TypeOK'
    BY <1>1, <1>3, <1>8, <1>9 DEF Inv, TypeOK, setup
  <1>11. CountInv' /\ VictimInv'
    BY <1>1, <1>3, <1>8 DEF Inv, CountInv, VictimInv
  <1>12. NewInv'
    <2>1. new \in Existing /\ new \in 1 .. Len(gens)
      BY <1>1, GenerationsType DEF Inv, NewInv
    <2> QED BY <1>1, <1>3, <2>1 DEF Inv, NewInv
  <1>13. SnapshotInv'
    BY <1>1, <1>3, <1>5, <1>6 DEF SnapshotInv
  <1>14. LinkInv' /\ UncutInv'
    BY <1>1 DEF Inv, LinkInv, UncutInv, Uniform
  <1> QED BY <1>10, <1>11, <1>12, <1>13, <1>14 DEF Inv

LEMMA AdoptStep ==
    ASSUME Inv, MigrateAdopt
    PROVE  Inv'
  <1>1. /\ pc = "adopt" /\ pc' = "links" /\ current' = Len(gens) /\ migrating'
        /\ UNCHANGED <<setup, cut, file, link, pending, gens, order, pinned,
                       at, deployed, new, victims>>
    BY DEF MigrateAdopt
  <1>2. Existing' = Existing
    BY <1>1 DEF Existing
  <1>3. /\ Len(gens) \in Existing /\ Len(gens) \in Nat
        /\ \A n \in Names : gens[Len(gens)][n] = Snapshot(n)
    BY <1>1, GenerationsType DEF Inv, SnapshotInv
  <1>4. \A n \in Names \ link : gens[Len(gens)][n] = file[n]
    BY <1>3 DEF Snapshot, Shown
  <1>5. migrating' \in BOOLEAN /\ current' \in 0 .. Len(gens)
    <2>1. migrating' = TRUE
      BY DEF MigrateAdopt
    <2> QED BY <1>1, <1>3, <2>1
  <1>6. TypeOK'
    BY <1>1, <1>5 DEF Inv, TypeOK, setup
  <1>7. CountInv' /\ VictimInv' /\ NewInv' /\ SnapshotInv'
    BY <1>1, <1>2 DEF Inv, CountInv, VictimInv, NewInv, SnapshotInv
  <1>8. LinkInv' /\ UncutInv'
    BY <1>1, <1>2, <1>3, <1>4 DEF Inv, LinkInv, UncutInv
  <1> QED BY <1>6, <1>7, <1>8 DEF Inv

LEMMA LinkPendingStep ==
    ASSUME Inv, LinkPending
    PROVE  Inv'
  <1>1. /\ pc = "links" /\ link # Names /\ pc' = "rename"
        /\ pending' = pending \union {NextName}
        /\ UNCHANGED <<setup, cut, file, link, gens, order, current, pinned,
                       at, deployed, new, migrating, victims>>
    BY DEF LinkPending
  <1>2. Existing' = Existing /\ NextName' = NextName
    BY <1>1 DEF Existing, NextName
  <1>3. NextName \in Names
    BY <1>1, NextNameIs DEF Inv
  <1>4. TypeOK'
    BY <1>1, <1>3 DEF Inv, TypeOK, setup
  <1>5. CountInv' /\ VictimInv' /\ NewInv' /\ SnapshotInv'
    BY <1>1, <1>2 DEF Inv, CountInv, VictimInv, NewInv, SnapshotInv
  <1>6. LinkInv' /\ UncutInv'
    BY <1>1, <1>2 DEF Inv, LinkInv, UncutInv
  <1> QED BY <1>4, <1>5, <1>6 DEF Inv

\* A leftover `.n.pending` is in the way only after a cut.
LEMMA LinkFailsCut ==
    ASSUME Inv, LinkFails
    PROVE  cut
  <1>1. pc = "links" /\ NextName \in pending
    BY DEF LinkFails
  <1> QED BY <1>1 DEF Inv, UncutInv

LEMMA LinkFailsStep ==
    ASSUME Inv, LinkFails
    PROVE  Inv'
  <1>1. /\ pc = "links" /\ pc' = "idle" /\ migrating' = FALSE
        /\ UNCHANGED <<setup, cut, fs, at, deployed, new, victims>>
    BY DEF LinkFails
  <1>2. cut'
    BY <1>1, LinkFailsCut
  <1>3. Existing' = Existing
    BY <1>1 DEF Existing, fs
  <1>4. TypeOK'
    BY <1>1 DEF Inv, TypeOK, setup, fs
  <1>5. CountInv' /\ VictimInv' /\ NewInv' /\ SnapshotInv'
    BY <1>1, <1>3 DEF Inv, CountInv, VictimInv, NewInv, SnapshotInv, fs
  <1>6. LinkInv' /\ UncutInv'
    BY <1>1, <1>2 DEF LinkInv, UncutInv
  <1> QED BY <1>4, <1>5, <1>6 DEF Inv

LEMMA LinkRenameStep ==
    ASSUME Inv, LinkRename
    PROVE  Inv'
  <1>1. /\ pc = "rename" /\ pc' = "links"
        /\ pending' = pending \ {NextName}
        /\ link' = link \union {NextName}
        /\ file' = [file EXCEPT ![NextName] = 0]
        /\ UNCHANGED <<setup, cut, gens, order, current, pinned, at, deployed,
                       new, migrating, victims>>
    BY DEF LinkRename
  <1>2. Existing' = Existing
    BY <1>1 DEF Existing
  <1>3. NextName \in Names \ link
    BY <1>1, NextNameIs DEF Inv, LinkInv
  <1>4. file' \in Generation /\ link' \subseteq Names
    BY <1>1, <1>3, MaxAssumption DEF Inv, TypeOK, Generation, Contents
  <1>5. TypeOK'
    BY <1>1, <1>4 DEF Inv, TypeOK, setup
  <1>6. CountInv' /\ VictimInv' /\ NewInv' /\ SnapshotInv'
    BY <1>1, <1>2 DEF Inv, CountInv, VictimInv, NewInv, SnapshotInv
  <1>7. \A n \in Names \ link' : n \in Names \ link /\ file'[n] = file[n]
    BY <1>1 DEF Inv, TypeOK, Generation
  <1>8. LinkInv'
    BY <1>1, <1>2, <1>7 DEF Inv, LinkInv
  <1>9. UncutInv'
    BY <1>1 DEF Inv, UncutInv
  <1> QED BY <1>5, <1>6, <1>8, <1>9 DEF Inv

LEMMA LinksDoneStep ==
    ASSUME Inv, LinksDone
    PROVE  Inv'
  <1>1. /\ pc = "links" /\ link = Names /\ migrating' = FALSE
        /\ pc' = IF migrating THEN "select" ELSE "retain"
        /\ UNCHANGED <<setup, cut, fs, at, deployed, new, victims>>
    BY DEF LinksDone
  <1>2. Existing' = Existing /\ Uniform'
    BY <1>1 DEF Existing, Uniform, fs
  <1>3. pc' \in {"select", "retain"}
    BY <1>1
  <1>4. TypeOK'
    BY <1>1, <1>3 DEF Inv, TypeOK, setup, fs
  <1>5. CountInv' /\ VictimInv' /\ NewInv' /\ SnapshotInv'
    BY <1>1, <1>2, <1>3 DEF Inv, CountInv, VictimInv, NewInv, SnapshotInv, fs
  <1>6. LinkInv' /\ UncutInv'
    BY <1>1, <1>2, <1>3 DEF Inv, LinkInv, UncutInv, fs
  <1> QED BY <1>4, <1>5, <1>6 DEF Inv

LEMMA SelectNewStep ==
    ASSUME Inv, SelectNew
    PROVE  Inv'
  <1>1. /\ pc = "select" /\ pc' = "links" /\ current' = new
        /\ UNCHANGED <<setup, cut, file, link, pending, gens, order, pinned,
                       at, deployed, new, migrating, victims>>
    BY DEF SelectNew
  <1>2. Existing' = Existing
    BY <1>1 DEF Existing
  <1>3. ~migrating
    BY <1>1 DEF Inv, LinkInv
  <1>4. TypeOK'
    BY <1>1 DEF Inv, TypeOK, setup
  <1>5. CountInv' /\ VictimInv' /\ NewInv' /\ SnapshotInv'
    BY <1>1, <1>2 DEF Inv, CountInv, VictimInv, NewInv, SnapshotInv
  <1>6. LinkInv' /\ UncutInv'
    BY <1>1, <1>3 DEF Inv, LinkInv, UncutInv
  <1> QED BY <1>4, <1>5, <1>6 DEF Inv

LEMMA RetainStep ==
    ASSUME Inv, NEW old, Retain(old)
    PROVE  Inv'
  <1>1. /\ pc = "retain" /\ pc' = "remove" /\ victims' = Removable(old)
        /\ UNCHANGED <<setup, cut, fs, at, deployed, new, migrating>>
    BY DEF Retain
  <1>2. Still
    BY <1>1 DEF Still, setup
  <1>3. victims' \subseteq Existing \ ({current} \union pinned)
    BY <1>1 DEF Removable, Exceeding
  <1>4. victims' \subseteq DOMAIN gens
    BY <1>3, GenerationsType DEF Inv
  <1>5. TypeOK'
    BY <1>1, <1>4 DEF Inv, TypeOK, setup, fs
  <1>6. CountInv' /\ VictimInv' /\ NewInv' /\ SnapshotInv'
    BY <1>1, <1>2, <1>3, StillShows
    DEF Inv, CountInv, VictimInv, NewInv, SnapshotInv, fs
  <1>7. LinkInv' /\ UncutInv'
    BY <1>1, <1>2, StillShows DEF Inv, LinkInv, UncutInv, fs
  <1> QED BY <1>5, <1>6, <1>7 DEF Inv

\* A victim's file goes: no other generation changes, and all stay.
LEMMA RemoveFileEffect ==
    ASSUME Inv, NEW g \in victims, NEW n \in Names, RemoveFile(g, n)
    PROVE  /\ g \in Existing /\ g # current /\ g \notin pinned
           /\ gens' \in Seq(Generation) /\ Len(gens') = Len(gens)
           /\ DOMAIN gens' = DOMAIN gens
           /\ \A h \in DOMAIN gens : h # g => gens'[h] = gens[h]
           /\ order' \in Seq(DOMAIN gens) /\ IsInjective(order')
           /\ Existing' = Existing
  <1>1. g \in Existing /\ g # current /\ g \notin pinned
    BY DEF Inv, VictimInv
  <1>2. g \in DOMAIN gens /\ gens \in Seq(Generation) /\ TypeOK
    BY <1>1, GenerationsType DEF Inv, TypeOK
  <1>3. gens' = [gens EXCEPT ![g] = [gens[g] EXCEPT ![n] = 0]]
    BY DEF RemoveFile
  <1>4. gens[g] \in Generation /\ 0 \in Contents
    BY <1>2, GenerationsType, MaxAssumption DEF Contents
  <1>5. [gens[g] EXCEPT ![n] = 0] \in Generation
    BY <1>4 DEF Generation
  <1>6. /\ gens' \in Seq(Generation) /\ Len(gens') = Len(gens)
        /\ DOMAIN gens' = DOMAIN gens
        /\ \A h \in DOMAIN gens : h # g => gens'[h] = gens[h]
    <2>1. g \in 1 .. Len(gens)
      BY <1>2
    <2>2. gens' \in Seq(Generation) /\ Len(gens') = Len(gens)
      BY <1>2, <1>3, <1>5, <2>1, ExceptSeq
    <2>3. DOMAIN gens' = DOMAIN gens
      BY <1>3
    <2> QED BY <1>3, <2>2, <2>3
  <1> DEFINE o == RemoveAt(order, Place(g))
  <1>7. /\ o \in Seq(DOMAIN gens) /\ IsInjective(o)
        /\ Range(o) = Existing \ {g} /\ order' = Append(o, g)
    BY <1>1, <1>2, Removed DEF RemoveFile
  <1> HIDE DEF o
  <1>8. /\ order' \in Seq(DOMAIN gens) /\ IsInjective(order')
        /\ Range(order') = (Existing \ {g}) \union {g}
    BY <1>2, <1>7, Appended
  <1>9. Existing' = Existing
    BY <1>1, <1>8 DEF Existing
  <1> QED BY <1>1, <1>6, <1>8, <1>9

LEMMA RemoveFileStep ==
    ASSUME Inv, NEW g \in victims, NEW n \in Names, RemoveFile(g, n)
    PROVE  Inv'
  <1>1. /\ pc = "remove"
        /\ UNCHANGED <<setup, cut, file, link, pending, current, pinned, pc,
                       at, deployed, new, migrating, victims>>
    BY DEF RemoveFile
  <1>2. TypeOK'
    BY <1>1, RemoveFileEffect DEF Inv, TypeOK, setup
  <1>3. CountInv' /\ VictimInv' /\ NewInv' /\ SnapshotInv'
    BY <1>1, RemoveFileEffect
    DEF Inv, CountInv, VictimInv, NewInv, SnapshotInv
  <1>4. LinkInv' /\ UncutInv'
    BY <1>1 DEF Inv, LinkInv, UncutInv, Uniform
  <1> QED BY <1>2, <1>3, <1>4 DEF Inv

LEMMA RemoveDirectoryEffect ==
    ASSUME Inv, NEW g \in victims, RemoveDirectory(g)
    PROVE  /\ g # current /\ g \notin pinned
           /\ order' \in Seq(DOMAIN gens) /\ IsInjective(order')
           /\ Existing' = Existing \ {g}
  <1>1. g \in Existing /\ g # current /\ g \notin pinned
    BY DEF Inv, VictimInv
  <1> QED BY <1>1, Removed DEF RemoveDirectory, Inv, Existing

LEMMA RemoveDirectoryStep ==
    ASSUME Inv, NEW g \in victims, RemoveDirectory(g)
    PROVE  Inv'
  <1>1. /\ pc = "remove" /\ victims' = victims \ {g}
        /\ UNCHANGED <<setup, cut, file, link, pending, gens, current, pinned,
                       pc, at, deployed, new, migrating>>
    BY DEF RemoveDirectory
  <1>2. TypeOK'
    BY <1>1, RemoveDirectoryEffect DEF Inv, TypeOK, setup
  <1>3. CountInv' /\ VictimInv' /\ NewInv' /\ SnapshotInv'
    BY <1>1, RemoveDirectoryEffect
    DEF Inv, CountInv, VictimInv, NewInv, SnapshotInv
  <1>4. LinkInv' /\ UncutInv'
    BY <1>1 DEF Inv, LinkInv, UncutInv, Uniform
  <1> QED BY <1>2, <1>3, <1>4 DEF Inv

LEMMA DeployedStep ==
    ASSUME Inv, Deployed
    PROVE  Inv'
  <1>1. /\ pc = "remove" /\ pc' = "idle" /\ victims' = {}
        /\ UNCHANGED <<setup, cut, fs, at, deployed, new, migrating>>
    BY DEF Deployed
  <1>2. Still
    BY <1>1 DEF Still, setup
  <1>3. TypeOK'
    BY <1>1 DEF Inv, TypeOK, setup, fs
  <1>4. CountInv' /\ VictimInv' /\ NewInv' /\ SnapshotInv'
    BY <1>1, <1>2, StillShows
    DEF Inv, CountInv, VictimInv, NewInv, SnapshotInv, fs
  <1>5. LinkInv' /\ UncutInv'
    BY <1>1, <1>2, StillShows DEF Inv, LinkInv, UncutInv, fs
  <1> QED BY <1>3, <1>4, <1>5 DEF Inv

LEMMA SelectStep ==
    ASSUME Inv, NEW g \in Existing, SelectGeneration(g) \/ PinGeneration(g)
    PROVE  Inv'
  <1>1. /\ pc = "idle" /\ current' \in {current, g}
        /\ pinned' \in {pinned, pinned \union {g}}
        /\ UNCHANGED <<setup, cut, file, link, pending, gens, order, pc, at,
                       deployed, new, migrating, victims>>
    BY DEF SelectGeneration, PinGeneration
  <1>2. Existing' = Existing
    BY <1>1 DEF Existing
  <1>3. g \in DOMAIN gens /\ g \in 0 .. Len(gens)
    BY GenerationsType DEF Inv
  <1>4. pinned' \subseteq DOMAIN gens /\ current' \in 0 .. Len(gens)
    BY <1>1, <1>3 DEF Inv, TypeOK
  <1>5. TypeOK'
    BY <1>1, <1>4 DEF Inv, TypeOK, setup
  <1>6. CountInv' /\ VictimInv' /\ NewInv' /\ SnapshotInv'
    BY <1>1, <1>2 DEF Inv, CountInv, VictimInv, NewInv, SnapshotInv
  <1>7. LinkInv' /\ UncutInv'
    BY <1>1 DEF Inv, LinkInv, UncutInv, Uniform
  <1> QED BY <1>5, <1>6, <1>7 DEF Inv

LEMMA RestartStep ==
    ASSUME Inv, NEW mode \in BOOLEAN, Restart(mode)
    PROVE  Inv'
  <1>1. /\ generational' = mode /\ pc' = "idle" /\ at' = 1
        /\ migrating' = FALSE /\ victims' = {}
        /\ UNCHANGED <<follow, fs, deployed, new>>
    BY DEF Restart
  <1>2. cut' = \/ cut
               \/ pc = "replace"
               \/ pc \in {"links", "rename"} /\ link # Names
    BY DEF Restart
  <1>3. cut' \in BOOLEAN /\ 1 \in Names
    BY <1>2, NAssumption DEF Inv, TypeOK, Names
  <1>4. Still
    BY <1>1 DEF Still
  <1>5. TypeOK'
    BY <1>1, <1>3 DEF Inv, TypeOK, fs
  <1>6. CountInv' /\ VictimInv' /\ NewInv' /\ SnapshotInv' /\ LinkInv'
    BY <1>1, <1>4, StillShows
    DEF Inv, CountInv, VictimInv, NewInv, SnapshotInv, LinkInv, fs
  <1>7. UncutInv'
    <2> SUFFICES ASSUME ~cut' PROVE UncutInv'
      BY DEF UncutInv
    <2>1. ~cut /\ pc # "replace" /\ (pc \in {"links", "rename"} => link = Names)
      BY <1>2
    <2>2. pc # "rename"
      BY <2>1 DEF Inv, LinkInv
    <2>3. pending = {} /\ Uniform
      BY <2>1, <2>2 DEF Inv, UncutInv, Uniform
    <2> QED BY <1>1, <1>4, <2>3, StillShows DEF UncutInv, fs
  <1> QED BY <1>5, <1>6, <1>7 DEF Inv

LEMMA NextInv == Inv /\ [Next]_vars => Inv'
  <1> SUFFICES ASSUME Inv, [Next]_vars PROVE Inv'
    OBVIOUS
  <1>1. CASE DeployFiles \/ ReplaceArtifact
    BY <1>1, DeployFilesStep, ReplaceStep
  <1>2. CASE PublishNext
    BY <1>2, DeployGenerationStep, MigrateStep, SnapshotStep, AdoptStep,
       LinkPendingStep, LinkFailsStep, LinkRenameStep, LinksDoneStep,
       SelectNewStep
    DEF PublishNext
  <1>3. CASE CleanupNext
    BY <1>3, RetainStep, RemoveFileStep, RemoveDirectoryStep, DeployedStep
    DEF CleanupNext
  <1>4. ASSUME NEW g \in Existing, SelectGeneration(g) \/ PinGeneration(g)
        PROVE  Inv'
    BY <1>4, SelectStep
  <1>5. ASSUME NEW mode \in BOOLEAN, Restart(mode)
        PROVE  Inv'
    BY <1>5, RestartStep
  <1>6. CASE UNCHANGED vars
    <2>1. Still
      BY <1>6 DEF Still, vars, setup
    <2>2. TypeOK' /\ CountInv'
      BY <1>6 DEF Inv, TypeOK, CountInv, vars, setup, fs
    <2>3. VictimInv' /\ NewInv' /\ SnapshotInv'
      BY <1>6, <2>1, StillShows
      DEF Inv, VictimInv, NewInv, SnapshotInv, vars, fs
    <2>4. LinkInv' /\ UncutInv'
      BY <1>6, <2>1, StillShows DEF Inv, LinkInv, UncutInv, vars, fs
    <2> QED BY <2>2, <2>3, <2>4 DEF Inv
  <1> QED BY <1>1, <1>2, <1>3, <1>4, <1>5, <1>6 DEF Next

LEMMA InvHolds == Spec => []Inv
  BY InitInv, NextInv, PTL DEF Spec

(***************************************************************************)
(* The deployer's variables keep their types, through any sequence of      *)
(* deployments, cleanups, selections, crashes and changes of the layout;   *)
(* a deployment publishes at most two generations.                         *)
(***************************************************************************)
THEOREM DeployerTypes == Spec => []TypeOK
  <1>1. Inv => TypeOK
    BY DEF Inv
  <1> QED BY <1>1, InvHolds, PTL

-----------------------------------------------------------------------------
\* The steps by what they do to the generations.
LEMMA GenerationSteps ==
    ASSUME Inv, [Next]_vars
    PROVE  \/ /\ DeployGeneration \/ MigrateSnapshot
              /\ \E content \in Generation : Publish(content)
           \/ \E g \in victims : \E n \in Names : RemoveFile(g, n)
           \/ \E g \in victims : RemoveDirectory(g)
           \/ UNCHANGED <<gens, order>>
  <1>1. CASE DeployGeneration
    <2>1. [n \in Names |-> deployed + 1] \in Generation
      BY <1>1, MaxAssumption
      DEF DeployGeneration, Inv, TypeOK, Generation, Contents
    <2> QED BY <1>1, <2>1 DEF DeployGeneration
  <1>2. CASE MigrateSnapshot
    <2>1. 0 \in Contents /\ file \in [Names -> Contents]
      BY MaxAssumption DEF Inv, TypeOK, Generation, Contents
    <2>2. \A n \in Names : current \in Existing => gens[current][n] \in Contents
      BY GenerationsType DEF Inv, Generation
    <2>3. [n \in Names |-> IF n \in link /\ ~follow THEN 0 ELSE Shown(n)]
            \in Generation
      BY <2>1, <2>2 DEF Shown, Generation
    <2> QED BY <1>2, <2>3 DEF MigrateSnapshot
  <1>3. CASE DeployFiles \/ ReplaceArtifact
    BY <1>3 DEF DeployFiles, ReplaceArtifact, fs
  <1>4. CASE PublishNext
    BY <1>1, <1>2, <1>4
    DEF PublishNext, MigrateNothing, MigrateFails, MigrateAdopt, LinkPending,
        LinkFails, LinkRename, LinksDone, SelectNew, fs
  <1>5. CASE CleanupNext
    BY <1>5 DEF CleanupNext, Retain, Deployed, fs
  <1>6. CASE \E g \in Existing : SelectGeneration(g) \/ PinGeneration(g)
    BY <1>6 DEF SelectGeneration, PinGeneration
  <1>7. CASE \E mode \in BOOLEAN : Restart(mode)
    BY <1>7 DEF Restart, fs
  <1>8. CASE UNCHANGED vars
    BY <1>8 DEF vars, fs
  <1> QED BY <1>3, <1>4, <1>5, <1>6, <1>7, <1>8 DEF Next

Kept ==
    \A g \in Existing \intersect (pinned \union {current}) :
        g \in Existing' /\ gens'[g] = gens[g]

LEMMA KeptStep ==
    ASSUME Inv, [Next]_vars
    PROVE  Kept
  <1>1. ASSUME NEW content \in Generation, Publish(content)
        PROVE  Kept
    BY <1>1, GenerationsType, Published DEF Inv, Kept
  <1>2. ASSUME NEW g \in victims, NEW n \in Names, RemoveFile(g, n)
        PROVE  Kept
    BY <1>2, GenerationsType, RemoveFileEffect DEF Inv, Kept
  <1>3. ASSUME NEW g \in victims, RemoveDirectory(g)
        PROVE  Kept
    <2>1. gens' = gens
      BY <1>3 DEF RemoveDirectory
    <2> QED BY <1>3, <2>1, RemoveDirectoryEffect DEF Kept
  <1>4. CASE UNCHANGED <<gens, order>>
    BY <1>4 DEF Kept, Existing
  <1> QED BY <1>1, <1>2, <1>3, <1>4, GenerationSteps

(***************************************************************************)
(* cleanup_generations never takes a file or the directory of the selected *)
(* or of a pinned generation, for every retention setting.                 *)
(***************************************************************************)
THEOREM ProtectedAreKept == Spec => ProtectedKept
  <1>1. Inv /\ [Next]_vars => [Kept]_vars
    BY KeptStep
  <1>2. Spec => [][Kept]_vars
    BY <1>1, InvHolds, PTL DEF Spec
  <1> QED BY <1>2 DEF ProtectedKept, Kept

-----------------------------------------------------------------------------
\* Without a cut the names are alike, and what is alike can be migrated.
LEMMA MigrateFailsCut ==
    ASSUME Inv, MigrateFails
    PROVE  cut
  <1> SUFFICES ASSUME ~cut PROVE FALSE
    OBVIOUS
  <1>1. pc = "migrate" /\ ~NothingToMigrate /\ \E n \in Names : ~Linkable(n)
    BY DEF MigrateFails
  <1>2. Uniform
    BY <1>1 DEF Inv, UncutInv
  <1>3. link = {} /\ \A n \in Names : file[n] # 0
    BY <1>1, <1>2 DEF Uniform, NothingToMigrate, Present
  <1> QED BY <1>1, <1>3 DEF Linkable, Shown, Present

(***************************************************************************)
(* A deployment of a generation is blocked only after a crash within one   *)
(* of the loops over the names.                                            *)
(***************************************************************************)
THEOREM BlockedOnlyByCuts == Spec => OnlyCutLinkingBlocks
  <1>1. Inv /\ [Next]_vars => [LinkFails \/ MigrateFails => cut]_vars
    BY LinkFailsCut, MigrateFailsCut
  <1>2. Spec => [][LinkFails \/ MigrateFails => cut]_vars
    BY <1>1, InvHolds, PTL DEF Spec
  <1> QED BY <1>2 DEF OnlyCutLinkingBlocks

-----------------------------------------------------------------------------
(***************************************************************************)
(* What a step of _deploy_generation does to what consumers find: nothing  *)
(* (or, where os.link does not follow, it hides names), or every name      *)
(* that is a link shows the new generation and no other name shows any.    *)
(***************************************************************************)
Hides ==
    \A n \in Names : /\ Shown(n)' \in {0, Shown(n)}
                     /\ follow => Shown(n)' = Shown(n)

ShowsNew ==
    \A n \in Names : \/ Shown(n)' = deployed /\ deployed > 0
                     \/ Shown(n)' = 0 /\ Shown(n) = 0

LEMMA AdoptShows ==
    ASSUME Inv, MigrateAdopt
    PROVE  Hides
  <1>1. /\ current' = Len(gens) /\ Existing' = Existing
        /\ UNCHANGED <<follow, file, link, gens>>
    BY DEF MigrateAdopt, Existing, setup
  <1>2. /\ Len(gens) \in Existing
        /\ \A n \in Names : gens[Len(gens)][n] = Snapshot(n)
    BY DEF MigrateAdopt, Inv, SnapshotInv
  <1>3. \A n \in Names : Shown(n)' = IF n \in link THEN Snapshot(n) ELSE file[n]
    BY <1>1, <1>2 DEF Shown
  <1> QED BY <1>3 DEF Hides, Snapshot, Shown

LEMMA RenameShows ==
    ASSUME Inv, LinkRename
    PROVE  Hides \/ ShowsNew
  <1>0. PICK m \in Names \ link : m = NextName
    BY NextNameIs DEF LinkRename, Inv, LinkInv
  <1>1. /\ pc = "rename" /\ link' = link \union {m}
        /\ file' = [file EXCEPT ![m] = 0] /\ Existing' = Existing
        /\ UNCHANGED <<current, gens>>
    BY <1>0 DEF LinkRename, Existing
  <1>3. \A n \in Names : n # m => file'[n] = file[n]
    BY <1>1 DEF Inv, TypeOK, Generation
  <1>4. ASSUME NEW n \in Names, n # m
        PROVE  Shown(n)' = Shown(n)
    BY <1>1, <1>3, <1>4 DEF Shown
  <1>5. CASE migrating
    <2>1. current \in Existing /\ gens[current][m] = file[m]
      BY <1>5 DEF Inv, LinkInv
    <2>2. Shown(m)' = Shown(m)
      BY <1>1, <2>1 DEF Shown
    <2>3. \A n \in Names : Shown(n)' = Shown(n)
      BY <1>4, <2>2
    <2> QED BY <2>3 DEF Hides
  <1>6. CASE ~migrating
    <2>1. current = new /\ \A n \in Names \ link : file[n] = 0
      BY <1>1, <1>6 DEF Inv, LinkInv
    <2>2. /\ current \in Existing /\ deployed > 0
          /\ \A n \in Names : gens[current][n] = deployed
      BY <1>1, <2>1 DEF Inv, NewInv
    <2>3. ASSUME NEW n \in Names, n \in link'
          PROVE  Shown(n)' = deployed
      BY <1>1, <2>2, <2>3 DEF Shown
    <2>4. ASSUME NEW n \in Names, n \notin link'
          PROVE  Shown(n)' = 0 /\ Shown(n) = 0
      <3>1. n \notin link /\ n # m
        BY <1>1, <2>4
      <3> QED BY <1>4, <2>1, <3>1 DEF Shown
    <2> QED BY <2>2, <2>3, <2>4 DEF ShowsNew
  <1> QED BY <1>5, <1>6

LEMMA SelectNewShows ==
    ASSUME Inv, SelectNew
    PROVE  ShowsNew
  <1>1. /\ pc = "select" /\ current' = new /\ Existing' = Existing
        /\ UNCHANGED <<file, link, gens>>
    BY DEF SelectNew, Existing
  <1>2. ~migrating
    BY <1>1 DEF Inv, LinkInv
  <1>3. \A n \in Names \ link : file[n] = 0
    BY <1>1, <1>2 DEF Inv, LinkInv
  <1>4. /\ new \in Existing /\ deployed > 0
        /\ \A n \in Names : gens[new][n] = deployed
    BY <1>1 DEF Inv, NewInv
  <1> QED BY <1>1, <1>3, <1>4 DEF ShowsNew, Shown

LEMMA PublishNextShows ==
    ASSUME Inv, PublishNext
    PROVE  Hides \/ ShowsNew
  <1>1. CASE DeployGeneration \/ MigrateSnapshot
    <2>1. PICK content \in Generation : Publish(content)
      <3>1. [Next]_vars
        BY DEF Next
      <3>2. Publish([n \in Names |-> deployed + 1])
              \/ Publish([n \in Names |-> IF n \in link /\ ~follow THEN 0
                                          ELSE Shown(n)])
        BY <1>1 DEF DeployGeneration, MigrateSnapshot
      <3>3. ~(UNCHANGED <<gens, order>>)
        <4>1. Len(gens') = Len(gens) + 1 /\ Len(gens) \in Nat
          BY <3>2, GenerationsType DEF Publish, Inv, TypeOK
        <4> QED BY <4>1
      <3>4. pc # "remove"
        BY <1>1 DEF DeployGeneration, MigrateSnapshot
      <3> QED BY <3>1, <3>3, <3>4, GenerationSteps
              DEF RemoveFile, RemoveDirectory
    <2>2. UNCHANGED <<file, link, current>>
      BY <1>1 DEF DeployGeneration, MigrateSnapshot
    <2> QED BY <2>1, <2>2, PublishShows DEF Inv, Hides
  <1>2. CASE MigrateNothing \/ MigrateFails \/ LinkPending \/ LinkFails
             \/ LinksDone
    <2>1. UNCHANGED <<file, link, current, gens, order>>
      BY <1>2
      DEF MigrateNothing, MigrateFails, LinkPending, LinkFails, LinksDone, fs
    <2> QED BY <2>1 DEF Hides, Shown, Existing
  <1> QED BY <1>1, <1>2, AdoptShows, RenameShows, SelectNewShows
          DEF PublishNext

LEMMA OneSetStep ==
    ASSUME Inv, PublishNext, OneSet
    PROVE  OneSet'
  <1>1. CASE Hides
    BY <1>1 DEF Hides, OneSet
  <1>2. CASE ShowsNew
    BY <1>2 DEF ShowsNew, OneSet
  <1> QED BY <1>1, <1>2, PublishNextShows

(***************************************************************************)
(* No step of _deploy_generation puts artifacts of two certificates beside *)
(* each other, whatever crashes, changes of the layout and unfinished      *)
(* migrations came before.                                                 *)
(***************************************************************************)
THEOREM GenerationsAreNotMixed == Spec => GenerationsNeverMix
  <1>1. Inv /\ [Next]_vars => [PublishNext /\ OneSet => OneSet']_vars
    BY OneSetStep
  <1>2. Spec => [][PublishNext /\ OneSet => OneSet']_vars
    BY <1>1, InvHolds, PTL DEF Spec
  <1> QED BY <1>2 DEF GenerationsNeverMix

-----------------------------------------------------------------------------
\* The cleanup and the single-set layout leave no name without artifact.
LEMMA CleanupShows ==
    ASSUME Inv, CleanupNext, NEW n \in Names
    PROVE  Shown(n)' = Shown(n)
  <1>1. ASSUME NEW g \in victims, NEW m \in Names, RemoveFile(g, m)
        PROVE  Shown(n)' = Shown(n)
    <2>1. UNCHANGED <<file, link, current>>
      BY <1>1 DEF RemoveFile
    <2>2. current \in Existing => gens'[current] = gens[current]
      BY <1>1, RemoveFileEffect, GenerationsType DEF Inv
    <2>3. Existing' = Existing
      BY <1>1, RemoveFileEffect
    <2> QED BY <2>1, <2>2, <2>3 DEF Shown
  <1>2. ASSUME NEW g \in victims, RemoveDirectory(g)
        PROVE  Shown(n)' = Shown(n)
    <2>1. UNCHANGED <<file, link, current, gens>>
      BY <1>2 DEF RemoveDirectory
    <2>2. current \in Existing' <=> current \in Existing
      BY <1>2, RemoveDirectoryEffect
    <2> QED BY <2>1, <2>2 DEF Shown
  <1>3. CASE Deployed \/ \E old \in 0 .. Len(order) : Retain(old)
    BY <1>3 DEF Deployed, Retain, fs, Shown, Existing
  <1> QED BY <1>1, <1>2, <1>3 DEF CleanupNext

Resolve ==
    follow /\ (PublishNext \/ CleanupNext \/ ReplaceArtifact) =>
        \A n \in Names : Shown(n) # 0 => Shown(n)' # 0

LEMMA ResolveStep ==
    ASSUME Inv
    PROVE  Resolve
  <1> SUFFICES ASSUME follow, PublishNext \/ CleanupNext \/ ReplaceArtifact,
                      NEW n \in Names, Shown(n) # 0
               PROVE  Shown(n)' # 0
    BY DEF Resolve
  <1>1. CASE PublishNext
    BY <1>1, PublishNextShows DEF Hides, ShowsNew
  <1>2. CASE CleanupNext
    BY <1>2, CleanupShows
  <1>3. CASE ReplaceArtifact
    <2>1. /\ file' = [file EXCEPT ![at] = deployed] /\ link' = link \ {at}
          /\ Existing' = Existing /\ UNCHANGED <<current, gens>>
          /\ deployed > 0
      BY <1>3 DEF ReplaceArtifact, Existing, Inv, CountInv
    <2>2. PICK m \in Names : m = at
      BY DEF Inv, TypeOK
    <2>3. /\ file'[m] = deployed
          /\ n # m => file'[n] = file[n]
      BY <2>1, <2>2 DEF Inv, TypeOK, Generation
    <2>4. CASE n = m
      BY <2>1, <2>2, <2>3, <2>4 DEF Shown
    <2>5. CASE n # m
      BY <2>1, <2>2, <2>3, <2>5 DEF Shown
    <2> QED BY <2>4, <2>5
  <1> QED BY <1>1, <1>2, <1>3

(***************************************************************************)
(* Where os.link follows symbolic links, no step of a deployment takes a   *)
(* name away from the consumers that found an artifact under it.           *)
(***************************************************************************)
THEOREM NamesResolve == Spec => NamesKeepResolving
  <1>1. Inv /\ [Next]_vars => [Resolve]_vars
    BY ResolveStep
  <1>2. Spec => [][Resolve]_vars
    BY <1>1, InvHolds, PTL DEF Spec
  <1> QED BY <1>2 DEF NamesKeepResolving, Resolve

-----------------------------------------------------------------------------
BecomesWhole ==
    follow /\ current' # current => Whole(current)'
        \/ \E g \in Existing : ~Whole(g) /\ SelectGeneration(g)

LEMMA WholeStep ==
    ASSUME Inv, [Next]_vars
    PROVE  BecomesWhole
  <1>1. CASE MigrateAdopt
    <2>1. /\ current' = Len(gens) /\ UNCHANGED <<gens, order, follow>>
          /\ pc = "adopt"
      BY <1>1 DEF MigrateAdopt, setup
    <2>2. /\ Len(gens) \in Existing
          /\ \A n \in Names : Linkable(n) /\ gens[Len(gens)][n] = Snapshot(n)
      BY <2>1 DEF Inv, SnapshotInv
    <2>3. follow => \A n \in Names : gens[Len(gens)][n] # 0
      BY <2>2 DEF Snapshot, Linkable
    <2> QED BY <2>1, <2>2, <2>3 DEF BecomesWhole, Whole, Existing
  <1>2. CASE SelectNew
    <2>1. current' = new /\ UNCHANGED <<gens, order>> /\ pc = "select"
      BY <1>2 DEF SelectNew
    <2>2. /\ new \in Existing /\ deployed > 0
          /\ \A n \in Names : gens[new][n] = deployed
      BY <2>1 DEF Inv, NewInv
    <2> QED BY <2>1, <2>2 DEF BecomesWhole, Whole, Existing
  <1>3. ASSUME NEW g \in Existing, SelectGeneration(g)
        PROVE  BecomesWhole
    <2>1. current' = g /\ UNCHANGED <<gens, order>>
      BY <1>3 DEF SelectGeneration
    <2>2. CASE Whole(g)
      BY <2>1, <2>2 DEF BecomesWhole, Whole, Existing
    <2>3. CASE ~Whole(g)
      BY <1>3, <2>3 DEF BecomesWhole
    <2> QED BY <2>2, <2>3
  <1>4. CASE current' = current
    BY <1>4 DEF BecomesWhole
  <1>5. CASE DeployFiles \/ ReplaceArtifact
    BY <1>4, <1>5 DEF DeployFiles, ReplaceArtifact, fs
  <1>6. CASE PublishNext
    BY <1>1, <1>2, <1>4, <1>6
    DEF PublishNext, DeployGeneration, MigrateNothing, MigrateFails,
        MigrateSnapshot, LinkPending, LinkFails, LinkRename, LinksDone, fs
  <1>7. CASE CleanupNext
    BY <1>4, <1>7
    DEF CleanupNext, Retain, RemoveFile, RemoveDirectory, Deployed, fs
  <1>8. CASE \E g \in Existing : PinGeneration(g)
    BY <1>4, <1>8 DEF PinGeneration
  <1>9. CASE \E mode \in BOOLEAN : Restart(mode)
    BY <1>4, <1>9 DEF Restart, fs
  <1>10. CASE UNCHANGED vars
    BY <1>4, <1>10 DEF vars, fs
  <1> QED BY <1>3, <1>5, <1>6, <1>7, <1>8, <1>9, <1>10 DEF Next

(***************************************************************************)
(* Where os.link follows symbolic links, what a migration or a deployment  *)
(* makes current has every artifact; only select_generation can choose a   *)
(* directory whose removal was cut short.                                  *)
(***************************************************************************)
THEOREM CurrentBecomesWhole == Spec => CurrentIsWhole
  <1>1. Inv /\ [Next]_vars => [BecomesWhole]_vars
    BY WholeStep
  <1>2. Spec => [][BecomesWhole]_vars
    BY <1>1, InvHolds, PTL DEF Spec
  <1> QED BY <1>2 DEF CurrentIsWhole, BecomesWhole

=============================================================================
