-------------------------- MODULE GenerationsProofs -------------------------
(* Proofs about the generations and the rows that name them. *)
EXTENDS Generations, TLAPS

(***************************************************************************)
(* deployment_directory_name keeps different primary names apart: the mark *)
(* of a wildcard is no label.                                              *)
(***************************************************************************)
LEMMA DirectoryInjective ==
    ASSUME NEW c \in Certs, NEW e \in Certs, Dir(c) = Dir(e)
    PROVE  Domains[c][1] = Domains[e][1]
  <1> DEFINE p == Domains[c][1]
             q == Domains[e][1]
             Marked(d) == Append(SubSeq(d, 1, Len(d) - 1), WildcardMark)
  <1>1. /\ p \in Seq(Nat) /\ Len(p) \in Nat /\ Len(p) > 0
        /\ q \in Seq(Nat) /\ Len(q) \in Nat /\ Len(q) > 0
    BY DomainsAssumption
  <1>2. ASSUME NEW d \in Seq(Nat), Len(d) > 0
        PROVE  /\ Marked(d) \in Seq(Int) /\ Len(Marked(d)) = Len(d)
               /\ Marked(d)[Len(d)] = -1
               /\ \A i \in 1 .. Len(d) - 1 : Marked(d)[i] = d[i]
    <2> DEFINE f == SubSeq(d, 1, Len(d) - 1)
    <2>1. Len(d) \in Nat
      OBVIOUS
    <2>2. /\ f \in Seq(Nat) /\ Len(f) = Len(d) - 1
          /\ \A i \in 1 .. Len(d) - 1 : f[i] = d[i]
      <3>1. ASSUME NEW n \in Nat, n <= Len(d)
            PROVE  Len(SubSeq(d, 1, n)) = n
        BY <3>1
      <3>2. ASSUME NEW n \in Nat, n <= Len(d)
            PROVE  /\ SubSeq(d, 1, n) \in Seq(Nat)
                   /\ \A i \in 1 .. n : SubSeq(d, 1, n)[i] = d[i]
        BY <3>2
      <3>3. Len(d) - 1 \in Nat /\ Len(d) - 1 <= Len(d)
        BY <1>2, <2>1
      <3> QED BY <3>1, <3>2, <3>3
    <2>4. WildcardMark \in Int /\ WildcardMark = -1
      BY DEF WildcardMark
    <2>5. f \in Seq(Int)
      BY <2>2
    <2> HIDE DEF f
    <2>6. /\ Append(f, WildcardMark) \in Seq(Int)
          /\ Len(Append(f, WildcardMark)) = Len(f) + 1
          /\ Append(f, WildcardMark)[Len(f) + 1] = WildcardMark
          /\ \A i \in 1 .. Len(f) : Append(f, WildcardMark)[i] = f[i]
      BY <2>4, <2>5
    <2>7. Marked(d) = Append(f, WildcardMark)
      BY DEF f
    <2> HIDE DEF Marked
    <2> QED BY <1>2, <2>1, <2>2, <2>4, <2>6, <2>7
  <1>3. /\ Dir(c) = IF p[Len(p)] = 0 THEN Marked(p) ELSE p
        /\ Dir(e) = IF q[Len(q)] = 0 THEN Marked(q) ELSE q
    BY DEF Dir, Directory, Last, Front, Star
  <1> HIDE DEF Marked, p, q
  <1>4. CASE p[Len(p)] = 0 /\ q[Len(q)] = 0
    <2>1. Marked(p) = Marked(q)
      BY <1>3, <1>4
    <2>2. Len(p) = Len(q) /\ \A i \in 1 .. Len(p) - 1 : p[i] = q[i]
      BY <1>1, <1>2, <2>1
    <2>3. \A i \in 1 .. Len(p) : p[i] = q[i]
      BY <1>1, <1>4, <2>2
    <2>4. p = q
      BY <1>1, <2>2, <2>3
    <2> QED BY <2>4 DEF p, q
  <1>5. CASE p[Len(p)] # 0 /\ q[Len(q)] # 0
    BY <1>3, <1>5 DEF p, q
  <1>6. CASE p[Len(p)] = 0 /\ q[Len(q)] # 0
    <2>1. Marked(p) = q
      BY <1>3, <1>6
    <2>2. q[Len(q)] = -1 /\ q[Len(q)] \in Nat
      BY <1>1, <1>2, <2>1
    <2> QED BY <2>2
  <1>7. CASE p[Len(p)] # 0 /\ q[Len(q)] = 0
    <2>1. Marked(q) = p
      BY <1>3, <1>7
    <2>2. p[Len(p)] = -1 /\ p[Len(p)] \in Nat
      BY <1>1, <1>2, <2>1
    <2> QED BY <2>2
  <1> QED BY <1>4, <1>5, <1>6, <1>7

-----------------------------------------------------------------------------
(***************************************************************************)
(* The inductive invariant.  A coroutine that was alone since it read its  *)
(* row has its directory to itself: the row still names what it loaded and *)
(* the link, once switched, is its own.  A directory that is not torn has  *)
(* no switch to commit.                                                    *)
(***************************************************************************)
Undisturbed(w) ==
    /\ Switched(Dir(worker[w].cert)) \subseteq {w}
    /\ row[worker[w].cert].gen = worker[w].loaded
    /\ worker[w].pc # "load" => current[Dir(worker[w].cert)] = worker[w].gen

AloneInv ==
    \A w \in Workers : worker[w] # Idle /\ worker[w].alone => Undisturbed(w)

TornInv == \A d \in Dirs : d \notin torn => Switched(d) = {}

Inv == TypeOK /\ AloneInv /\ TornInv /\ RowNamesCurrent

LEMMA BusyType ==
    ASSUME TypeOK, NEW w \in Workers, worker[w] # Idle
    PROVE  /\ worker[w] \in Working
           /\ worker[w].cert \in Certs /\ Dir(worker[w].cert) \in Dirs
  BY DEF TypeOK, Working, Dirs

LEMMA WorkingIsBusy ==
    ASSUME NEW t \in Working
    PROVE  t # Idle
  BY DEF Working, Idle

\* Whether a coroutine has switched shows in its pc alone.
LEMMA SwitchedPc ==
    ASSUME NEW d, NEW w \in Workers
    PROVE  w \in Switched(d) <=>
             worker[w] # Idle /\ Dir(worker[w].cert) = d /\ worker[w].pc # "load"
  BY DEF Switched, Near

LEMMA InitInv == Init => Inv
  <1> SUFFICES ASSUME Init PROVE Inv
    OBVIOUS
  <1>1. TypeOK
    BY BoundAssumption DEF Init, TypeOK, Generation
  <1>2. AloneInv /\ TornInv
    BY DEF Init, AloneInv, TornInv, Switched, Near
  <1>3. RowNamesCurrent
    BY DEF Init, RowNamesCurrent, Dirs
  <1> QED BY <1>1, <1>2, <1>3 DEF Inv

-----------------------------------------------------------------------------
(***************************************************************************)
(* A coroutine that switches a link: what it knew when it read its row     *)
(* still holds if it is alone, and nobody else in the directory is any     *)
(* more.                                                                   *)
(***************************************************************************)
Sound(w, t) ==
    /\ t \in Working /\ t.pc # "load"
    /\ worker[w] = Idle \/ (worker[w].pc = "load" /\ worker[w].cert = t.cert)
    /\ t.alone => /\ Switched(Dir(t.cert)) = {}
                  /\ row[t.cert].gen = t.loaded

LEMMA SwitchKeeps ==
    ASSUME Inv, NEW w \in Workers, NEW t, Sound(w, t), Switch(w, t), row' = row
    PROVE  AloneInv' /\ TornInv' /\ RowNamesCurrent'
  <1> DEFINE d == Dir(t.cert)
  <1>1. t # Idle /\ t.cert \in Certs /\ d \in Dirs
    BY WorkingIsBusy DEF Sound, Working, Dirs
  <1>2. worker'[w] = t
    BY DEF Switch
  <1>3. ASSUME NEW v \in Workers, v # w
        PROVE  /\ worker'[v] = Idle <=> worker[v] = Idle
               /\ worker[v] # Idle =>
                     /\ worker'[v].cert = worker[v].cert
                     /\ worker'[v].pc = worker[v].pc
                     /\ worker'[v].loaded = worker[v].loaded
                     /\ worker'[v].gen = worker[v].gen
                     /\ worker'[v].alone =>
                           worker[v].alone /\ Dir(worker[v].cert) # d
    <2>1. CASE worker[v] = Idle
      BY <1>3, <2>1 DEF Switch, Near
    <2>2. CASE worker[v] # Idle
      <3>1. worker[v] \in Working
        BY <2>2, BusyType DEF Inv
      <3>2. CASE v \in Near(d)
        <4>1. worker'[v] = [worker[v] EXCEPT !.alone = FALSE]
          BY <1>3, <3>2 DEF Switch
        <4>2. worker'[v] \in Working
          BY <3>1, <4>1 DEF Working
        <4>3. worker'[v] # Idle
          BY <4>2, WorkingIsBusy
        <4> QED BY <2>2, <3>1, <4>1, <4>3 DEF Working
      <3>3. CASE v \notin Near(d)
        <4>1. worker'[v] = worker[v]
          BY <1>3, <3>3 DEF Switch
        <4>2. Dir(worker[v].cert) # d
          BY <2>2, <3>3 DEF Near
        <4> QED BY <2>2, <4>1, <4>2
      <3> QED BY <3>2, <3>3
    <2> QED BY <2>1, <2>2
  <1>4. ASSUME NEW e, e # d
        PROVE  Switched(e)' = Switched(e)
    <2>1. ASSUME NEW v \in Workers
          PROVE  v \in Switched(e)' <=> v \in Switched(e)
      <3>1. CASE v = w
        <4>1. v \notin Switched(e)'
          BY <1>2, <1>4, <3>1 DEF Switched, Near, Dir
        <4>2. v \notin Switched(e)
          BY <1>4, <3>1 DEF Switched, Near, Sound
        <4> QED BY <4>1, <4>2
      <3>2. CASE v # w
        BY <1>3, <3>2 DEF Switched, Near, Dir
      <3> QED BY <3>1, <3>2
    <2> QED BY <2>1 DEF Switched, Near
  <1>5. t.alone => Switched(d)' \subseteq {w}
    <2>1. ASSUME t.alone, NEW v \in Workers, v # w, v \in Switched(d)'
          PROVE  FALSE
      <3>1. v \in Switched(d)
        BY <1>3, <2>1 DEF Switched, Near, Dir
      <3> QED BY <2>1, <3>1 DEF Sound
    <2> QED BY <2>1 DEF Switched, Near
  <1>6. /\ current' = [current EXCEPT ![d] = t.gen]
        /\ torn' = torn \union {d}
        /\ current \in [Dirs -> Generation \union {0}]
    BY DEF Switch, Inv, TypeOK
  <1>7. AloneInv'
    <2> SUFFICES ASSUME NEW v \in Workers, worker'[v] # Idle, worker'[v].alone
                 PROVE  Undisturbed(v)'
      BY DEF AloneInv, Idle
    <2>1. CASE v = w
      BY <1>1, <1>2, <1>5, <1>6, <2>1 DEF Undisturbed, Sound, Dir
    <2>2. CASE v # w
      <3>1. /\ worker[v] # Idle /\ worker[v].alone
            /\ Dir(worker[v].cert) # d
        BY <1>3, <2>2
      <3>2. Undisturbed(v)
        BY <3>1 DEF Inv, AloneInv
      <3>3. worker[v].cert \in Certs /\ Dir(worker[v].cert) \in Dirs
        BY <3>1, BusyType DEF Inv
      <3>5. /\ worker'[v].cert = worker[v].cert
            /\ worker'[v].pc = worker[v].pc
            /\ worker'[v].loaded = worker[v].loaded
            /\ worker'[v].gen = worker[v].gen
        BY <1>3, <2>2, <3>1
      <3>6. current'[Dir(worker[v].cert)] = current[Dir(worker[v].cert)]
        BY <1>6, <3>1, <3>3
      <3>7. ASSUME NEW u \in Workers, worker'[u] # Idle, worker'[u].pc # "load",
                   Dir(worker'[u].cert) = Dir(worker[v].cert)
            PROVE  u = v
        <4>1. u # w
          BY <1>2, <3>1, <3>7
        <4>2. u \in Switched(Dir(worker[v].cert))
          BY <1>3, <3>7, <4>1 DEF Switched, Near
        <4> QED BY <3>2, <4>2 DEF Undisturbed
      <3>8. Switched(Dir(worker[v].cert))' \subseteq {v}
        BY <3>5, <3>7 DEF Switched, Near, Idle, Dir
      <3> QED BY <3>2, <3>5, <3>6, <3>8 DEF Undisturbed, Dir
    <2> QED BY <2>1, <2>2
  <1>8. TornInv'
    BY <1>4, <1>6 DEF TornInv, Inv, Dirs, Dir
  <1>9. RowNamesCurrent'
    <2> SUFFICES ASSUME NEW c \in Certs, Dir(c) \notin torn'
                 PROVE  \E e \in Certs : /\ Domains[e][1] = Domains[c][1]
                                         /\ row[e].gen = current'[Dir(c)]
      BY DEF RowNamesCurrent, Dir
    <2>1. Dir(c) # d /\ Dir(c) \notin torn /\ Dir(c) \in Dirs
      BY <1>6 DEF Dirs
    <2>2. current'[Dir(c)] = current[Dir(c)]
      BY <1>6, <2>1
    <2> QED BY <2>1, <2>2 DEF Inv, RowNamesCurrent
  <1> QED BY <1>7, <1>8, <1>9

(***************************************************************************)
(* A coroutine that stops, its commit made or lost, disturbs nobody.       *)
(***************************************************************************)
LEMMA LeaveKeeps ==
    ASSUME Inv, NEW w \in Workers, worker' = [worker EXCEPT ![w] = Idle],
           current' = current,
           \A v \in Workers : v # w /\ worker[v] # Idle /\ worker[v].alone =>
               row'[worker[v].cert].gen = row[worker[v].cert].gen,
           \A d \in Dirs : d \notin torn' => d \notin torn \/ Switched(d) = {w}
    PROVE  AloneInv' /\ TornInv'
  <1>1. worker'[w] = Idle /\ \A v \in Workers : v # w => worker'[v] = worker[v]
    BY DEF Inv, TypeOK
  <1>2. ASSUME NEW d, NEW v \in Workers
        PROVE  v \in Switched(d)' <=> v \in Switched(d) /\ v # w
    BY <1>1 DEF Switched, Near, Dir, Idle
  <1>3. AloneInv'
    <2> SUFFICES ASSUME NEW v \in Workers, worker'[v] # Idle, worker'[v].alone
                 PROVE  Undisturbed(v)'
      BY DEF AloneInv, Idle
    <2>1. v # w /\ worker'[v] = worker[v]
      BY <1>1
    <2>2. Undisturbed(v)
      BY <2>1 DEF Inv, AloneInv
    <2>3. Switched(Dir(worker[v].cert))' \subseteq {v}
      <3>1. ASSUME NEW u \in Workers, worker'[u] # Idle, worker'[u].pc # "load",
                   Dir(worker'[u].cert) = Dir(worker[v].cert)
            PROVE  u = v
        BY <1>1, <2>2, <3>1 DEF Undisturbed, Switched, Near
      <3> QED BY <2>1, <3>1 DEF Switched, Near, Idle, Dir
    <2> QED BY <2>1, <2>2, <2>3 DEF Undisturbed, Dir
  <1>4. TornInv'
    <2> SUFFICES ASSUME NEW d \in Dirs, d \notin torn', NEW v \in Workers
                 PROVE  v \notin Switched(d)'
      BY DEF TornInv, Dirs, Dir, Switched, Near
    <2> QED BY <1>2 DEF Inv, TornInv
  <1> QED BY <1>3, <1>4

(***************************************************************************)
(* A commit: if the coroutine was alone, its row names what it made        *)
(* current, whether or not the column had to be written.                   *)
(***************************************************************************)
Commits(w) ==
    /\ worker[w] # Idle /\ worker[w].pc # "load"
    /\ worker' = [worker EXCEPT ![w] = Idle]
    /\ \E r : /\ row' = [row EXCEPT ![worker[w].cert] = r]
             /\ r.gen = Written(worker[w]).gen
    /\ Settles(w)
    /\ UNCHANGED current

LEMMA CommitKeeps ==
    ASSUME Inv, NEW w \in Workers, Commits(w)
    PROVE  AloneInv' /\ TornInv' /\ RowNamesCurrent'
  <1> DEFINE t == worker[w]
             d == Dir(t.cert)
  <1>1. t \in Working /\ t.cert \in Certs /\ d \in Dirs
    BY BusyType DEF Commits, Inv
  <1>2. w \in Switched(d) /\ d \in torn
    <2>1. w \in Switched(d)
      BY DEF Commits, Switched, Near
    <2> QED BY <1>1, <2>1 DEF Inv, TornInv
  <1>3. /\ row'[t.cert].gen = IF t.gen = t.loaded THEN row[t.cert].gen ELSE t.gen
        /\ \A c \in Certs : c # t.cert => row'[c] = row[c]
    <2>1. row \in [Certs -> [status : {"issuing", "valid", "closed"},
                             gen : Generation \union {0},
                             key : Keys \union {NoKey}]]
      BY DEF Inv, TypeOK
    <2>2. row[t.cert] \in [status : {"issuing", "valid", "closed"},
                           gen : Generation \union {0},
                           key : Keys \union {NoKey}]
      BY <1>1, <2>1
    <2>3. Written(t).gen = IF t.gen = t.loaded THEN row[t.cert].gen ELSE t.gen
      BY <2>2 DEF Written
    <2> QED BY <1>1, <2>1, <2>3 DEF Commits
  <1>4. ASSUME t.alone
        PROVE  /\ Switched(d) = {w}
               /\ row'[t.cert].gen = current[d]
    <2>1. Undisturbed(w)
      BY <1>4 DEF Inv, AloneInv, Commits
    <2> QED BY <1>2, <1>3, <2>1 DEF Undisturbed, Commits
  <1>5. AloneInv' /\ TornInv'
    <2>1. ASSUME NEW v \in Workers, v # w, worker[v] # Idle, worker[v].alone
          PROVE  row'[worker[v].cert].gen = row[worker[v].cert].gen
      <3>1. worker[v].cert \in Certs
        BY <2>1, BusyType DEF Inv
      <3>2. Undisturbed(v)
        BY <2>1 DEF Inv, AloneInv
      <3>3. Dir(worker[v].cert) # d
        BY <1>2, <2>1, <3>2 DEF Undisturbed
      <3>4. worker[v].cert # t.cert
        BY <3>3
      <3> QED BY <1>3, <3>1, <3>4
    <2>2. ASSUME NEW e \in Dirs, e \notin torn'
          PROVE  e \notin torn \/ Switched(e) = {w}
      BY <1>4, <2>2 DEF Commits, Settles
    <2> QED BY <2>1, <2>2, LeaveKeeps DEF Commits
  <1>6. RowNamesCurrent'
    <2> SUFFICES ASSUME NEW c \in Certs, Dir(c) \notin torn'
                 PROVE  \E e \in Certs : /\ Domains[e][1] = Domains[c][1]
                                         /\ row'[e].gen = current[Dir(c)]
      BY DEF RowNamesCurrent, Dir, Commits
    <2>1. CASE Dir(c) = d
      <3>1. t.alone
        BY <1>2, <2>1 DEF Commits, Settles
      <3>2. Domains[t.cert][1] = Domains[c][1]
        BY <1>1, <2>1, DirectoryInjective
      <3> QED BY <1>1, <1>4, <2>1, <3>1, <3>2
    <2>2. CASE Dir(c) # d
      <3>1. Dir(c) \notin torn
        BY <2>2 DEF Commits, Settles
      <3>2. PICK e \in Certs : /\ Domains[e][1] = Domains[c][1]
                               /\ row[e].gen = current[Dir(c)]
        BY <3>1 DEF Inv, RowNamesCurrent
      <3>3. Dir(e) = Dir(c)
        BY <3>2 DEF Dir, Directory
      <3>4. e # t.cert
        BY <2>2, <3>3
      <3> QED BY <1>3, <3>2, <3>4
    <2> QED BY <2>1, <2>2
  <1> QED BY <1>5, <1>6

-----------------------------------------------------------------------------
(***************************************************************************)
(* Types.                                                                  *)
(***************************************************************************)
Rows == [status : {"issuing", "valid", "closed"},
         gen : Generation \union {0}, key : Keys \union {NoKey}]

LEMMA SwitchTypes ==
    ASSUME TypeOK, NEW w \in Workers, NEW t \in Working, t.gen \in Generation,
           Switch(w, t), retained' \in [Dirs -> SUBSET Generation],
           t.gen \in retained'[Dir(t.cert)],
           \A d \in Dirs : d # Dir(t.cert) => retained'[d] = retained[d]
    PROVE  /\ current' \in [Dirs -> Generation \union {0}]
           /\ \A d \in Dirs : current'[d] # 0 => current'[d] \in retained'[d]
           /\ worker' \in [Workers -> Working \union {Idle}]
           /\ torn' \subseteq Dirs
  <1>1. Dir(t.cert) \in Dirs
    BY DEF Working, Dirs
  <1>2. ASSUME NEW v \in Workers
        PROVE  worker'[v] \in Working \union {Idle}
    <2>1. v \in Near(Dir(t.cert)) =>
            [worker[v] EXCEPT !.alone = FALSE] \in Working
      BY BusyType DEF Near, Working
    <2> QED BY <2>1 DEF Switch, TypeOK
  <1> QED BY <1>1, <1>2 DEF Switch, TypeOK

LEMMA CommitTypes ==
    ASSUME TypeOK, NEW w \in Workers, NEW r \in Rows,
           worker[w] # Idle, Settles(w),
           row' = [row EXCEPT ![worker[w].cert] = r],
           worker' = [worker EXCEPT ![w] = Idle],
           UNCHANGED <<current, retained, published>>
    PROVE  TypeOK'
  <1>1. torn' \subseteq Dirs
    BY DEF Settles, TypeOK
  <1>2. worker' \in [Workers -> Working \union {Idle}]
    BY DEF TypeOK
  <1>3. row' \in [Certs -> Rows]
    BY BusyType DEF TypeOK, Rows
  <1> QED BY <1>1, <1>2, <1>3 DEF TypeOK, Rows, Dirs, Dir, Generation, Working, Idle

LEMMA WrittenType ==
    ASSUME TypeOK, NEW w \in Workers, worker[w] # Idle
    PROVE  Written(worker[w]) \in Rows
  <1>1. worker[w] \in Working /\ row[worker[w].cert] \in Rows
    BY BusyType DEF TypeOK, Rows
  <1> QED BY <1>1 DEF Written, Rows, Working

-----------------------------------------------------------------------------
(***************************************************************************)
(* One lemma per kind of action.                                           *)
(***************************************************************************)
LEMMA DeployStep ==
    ASSUME Inv, NEW w \in Workers, NEW c \in Certs, NEW pc \in {"issue", "renew"},
           Deploy(w, c, pc)
    PROVE  Inv'
  <1> DEFINE t == Begun(c, pc, published + 1, NoKey)
  <1>1. published + 1 \in Generation /\ published' \in 0 .. MaxGenerations
    BY BoundAssumption DEF Deploy, Inv, TypeOK, Generation
  <1>2. row[c].gen \in Generation \union {0}
    BY DEF Inv, TypeOK
  <1>3. t \in Working
    BY <1>1, <1>2 DEF Begun, Working
  <1>4. Sound(w, t)
    BY <1>3 DEF Sound, Begun, Deploy
  <1>5. Switch(w, t) /\ row' = row
    BY DEF Deploy
  <1>6. /\ retained' \in [Dirs -> SUBSET Generation]
        /\ t.gen \in retained'[Dir(t.cert)]
        /\ \A d \in Dirs : d # Dir(t.cert) => retained'[d] = retained[d]
    <2>1. PICK removed \in SUBSET retained[Dir(c)] :
             retained' = [retained EXCEPT ![Dir(c)] =
                             (@ \ removed) \union {published + 1}]
      BY DEF Deploy
    <2>2. Dir(c) \in Dirs /\ t.cert = c /\ t.gen = published + 1
      BY DEF Dirs, Begun
    <2> QED BY <1>1, <2>1, <2>2 DEF Inv, TypeOK
  <1>7. t.gen \in Generation
    BY <1>1 DEF Begun
  <1> HIDE DEF t
  <1>8. AloneInv' /\ TornInv' /\ RowNamesCurrent'
    BY <1>4, <1>5, SwitchKeeps
  <1>9. /\ current' \in [Dirs -> Generation \union {0}]
        /\ \A d \in Dirs : current'[d] # 0 => current'[d] \in retained'[d]
        /\ worker' \in [Workers -> Working \union {Idle}]
        /\ torn' \subseteq Dirs
    BY <1>3, <1>5, <1>6, <1>7, SwitchTypes DEF Inv
  <1>10. TypeOK'
    BY <1>1, <1>5, <1>6, <1>9
       DEF Inv, TypeOK, Dirs, Dir, Generation, Working, Idle
  <1> QED BY <1>8, <1>10 DEF Inv

LEMMA SelectStep ==
    ASSUME Inv, NEW w \in Workers, NEW g \in Generation, Select(w, g)
    PROVE  Inv'
  <1> DEFINE t == [worker[w] EXCEPT !.pc = "select", !.gen = g]
  <1>1. worker[w] # Idle
    BY DEF Select, Idle
  <1>2. worker[w] \in Working
    BY <1>1, BusyType DEF Inv
  <1>3. /\ t \in Working /\ t.pc = "select" /\ t.gen = g
        /\ t.cert = worker[w].cert /\ t.alone = worker[w].alone
        /\ t.loaded = worker[w].loaded
    BY <1>2 DEF Working
  <1>4. Switch(w, t) /\ row' = row /\ retained' = retained
        /\ published' = published /\ worker[w].pc = "load"
    BY DEF Select
  <1>5. t.gen \in retained'[Dir(t.cert)]
    BY <1>3, <1>4 DEF Select
  <1> HIDE DEF t
  <1>6. Sound(w, t)
    <2>1. ASSUME t.alone
          PROVE  Switched(Dir(t.cert)) = {} /\ row[t.cert].gen = t.loaded
      <3>1. Undisturbed(w)
        BY <1>1, <1>3, <2>1 DEF Inv, AloneInv
      <3>2. w \notin Switched(Dir(t.cert))
        BY <1>4 DEF Switched
      <3> QED BY <1>3, <3>1, <3>2 DEF Undisturbed
    <2> QED BY <1>3, <1>4, <2>1 DEF Sound
  <1>7. AloneInv' /\ TornInv' /\ RowNamesCurrent'
    BY <1>4, <1>6, SwitchKeeps
  <1>8. retained' \in [Dirs -> SUBSET Generation]
    BY <1>4 DEF Inv, TypeOK
  <1>9. /\ current' \in [Dirs -> Generation \union {0}]
        /\ \A d \in Dirs : current'[d] # 0 => current'[d] \in retained'[d]
        /\ worker' \in [Workers -> Working \union {Idle}]
        /\ torn' \subseteq Dirs
    BY <1>3, <1>4, <1>5, <1>8, SwitchTypes DEF Inv
  <1>10. TypeOK'
    BY <1>4, <1>9 DEF Inv, TypeOK, Dirs, Dir, Generation, Working, Idle
  <1> QED BY <1>7, <1>10 DEF Inv

LEMMA CommitStep ==
    ASSUME Inv, NEW w \in Workers,
           CommitSelection(w) \/ CommitRenewal(w) \/ CommitIssue(w)
    PROVE  Inv'
  <1>1. /\ worker[w] # Idle /\ worker[w].pc # "load"
        /\ worker' = [worker EXCEPT ![w] = Idle]
        /\ Settles(w) /\ UNCHANGED <<current, retained, published>>
    BY DEF CommitSelection, CommitRenewal, CommitIssue, Idle
  <1>2. worker[w] \in Working /\ Written(worker[w]) \in Rows
    BY <1>1, BusyType, WrittenType DEF Inv
  <1>3. PICK r : /\ row' = [row EXCEPT ![worker[w].cert] = r]
                 /\ r \in Rows /\ r.gen = Written(worker[w]).gen
    <2> DEFINE s == [Written(worker[w]) EXCEPT !.key = worker[w].key]
               v == [Written(worker[w]) EXCEPT !.status = "valid"]
    <2>1. s \in Rows /\ s.gen = Written(worker[w]).gen
      BY <1>2 DEF Rows, Working
    <2>2. v \in Rows /\ v.gen = Written(worker[w]).gen
      BY <1>2 DEF Rows
    <2>3. \/ row' = [row EXCEPT ![worker[w].cert] = s]
          \/ row' = [row EXCEPT ![worker[w].cert] = v]
      BY DEF CommitSelection, CommitRenewal, CommitIssue
    <2> HIDE DEF s, v
    <2> QED BY <2>1, <2>2, <2>3
  <1>4. TypeOK'
    BY <1>1, <1>3, CommitTypes DEF Inv
  <1>5. Commits(w)
    BY <1>1, <1>3 DEF Commits
  <1> QED BY <1>4, <1>5, CommitKeeps DEF Inv

LEMMA LoadStep ==
    ASSUME Inv, NEW w \in Workers, NEW c \in Certs, NEW k \in Keys, LoadRow(w, c, k)
    PROVE  Inv'
  <1> DEFINE t == Begun(c, "load", 0, k)
  <1>1. /\ t \in Working /\ t.pc = "load" /\ t.cert = c
        /\ t.loaded = row[c].gen /\ (t.alone => Switched(Dir(c)) = {})
    <2>1. row[c].gen \in Generation \union {0}
      BY DEF Inv, TypeOK
    <2> QED BY <2>1 DEF Begun, Working
  <1>2. /\ worker[w] = Idle /\ worker' = [worker EXCEPT ![w] = t]
        /\ UNCHANGED <<row, current, retained, published, torn>>
    BY DEF LoadRow
  <1> HIDE DEF t
  <1>3. worker'[w] = t /\ \A v \in Workers : v # w => worker'[v] = worker[v]
    BY <1>2 DEF Inv, TypeOK
  <1>4. TypeOK'
    <2>1. worker' \in [Workers -> Working \union {Idle}]
      BY <1>1, <1>2 DEF Inv, TypeOK
    <2> QED BY <1>2, <2>1 DEF Inv, TypeOK, Dirs, Dir, Generation, Working, Idle
  <1>5. ASSUME NEW d, NEW v \in Workers
        PROVE  v \in Switched(d)' <=> v \in Switched(d)
    <2>1. CASE v = w
      BY <1>1, <1>2, <1>3, <2>1 DEF Switched, Near
    <2>2. CASE v # w
      BY <1>3, <2>2 DEF Switched, Near, Dir, Idle
    <2> QED BY <2>1, <2>2
  <1>6. AloneInv'
    <2> SUFFICES ASSUME NEW v \in Workers, worker'[v] # Idle, worker'[v].alone
                 PROVE  Undisturbed(v)'
      BY DEF AloneInv, Idle
    <2>1. CASE v = w
      <3>1. Switched(Dir(worker[v].cert))' = {}
        <4>1. ASSUME NEW u \in Workers, worker'[u] # Idle,
                     worker'[u].pc # "load", Dir(worker'[u].cert) = Dir(c)
              PROVE  FALSE
          <5>1. u # w /\ u \in Switched(Dir(c))
            BY <1>1, <1>3, <4>1 DEF Switched, Near
          <5> QED BY <1>1, <1>3, <2>1, <5>1
        <4> QED BY <1>1, <1>3, <2>1, <4>1 DEF Switched, Near, Idle, Dir
      <3> QED BY <1>1, <1>2, <1>3, <2>1, <3>1 DEF Undisturbed, Dir
    <2>2. CASE v # w
      <3>1. worker'[v] = worker[v] /\ Undisturbed(v)
        BY <1>3, <2>2 DEF Inv, AloneInv
      <3>2. Switched(Dir(worker[v].cert))' \subseteq {v}
        <4>1. ASSUME NEW u \in Workers, worker'[u] # Idle,
                     worker'[u].pc # "load",
                     Dir(worker'[u].cert) = Dir(worker[v].cert)
              PROVE  u = v
          BY <1>1, <1>3, <3>1, <4>1 DEF Undisturbed, Switched, Near
        <4> QED BY <3>1, <4>1 DEF Switched, Near, Idle, Dir
      <3> QED BY <1>2, <3>1, <3>2 DEF Undisturbed, Dir
    <2> QED BY <2>1, <2>2
  <1>7. TornInv'
    <2> SUFFICES ASSUME NEW d \in Dirs, d \notin torn', NEW v \in Workers
                 PROVE  v \notin Switched(d)'
      BY DEF TornInv, Dirs, Dir, Switched, Near
    <2> QED BY <1>2, <1>5 DEF Inv, TornInv
  <1>8. RowNamesCurrent'
    BY <1>2 DEF Inv, RowNamesCurrent, Dir
  <1> QED BY <1>4, <1>6, <1>7, <1>8 DEF Inv

LEMMA LostStep ==
    ASSUME Inv, NEW w \in Workers, CommitLost(w)
    PROVE  Inv'
  <1>1. /\ worker' = [worker EXCEPT ![w] = Idle]
        /\ UNCHANGED <<row, current, retained, published, torn>>
    BY DEF CommitLost
  <1>2. TypeOK'
    <2>1. worker' \in [Workers -> Working \union {Idle}]
      BY <1>1 DEF Inv, TypeOK
    <2> QED BY <1>1, <2>1 DEF Inv, TypeOK, Dirs, Dir, Generation, Working, Idle
  <1>3. AloneInv' /\ TornInv'
    BY <1>1, LeaveKeeps
  <1>4. RowNamesCurrent'
    BY <1>1 DEF Inv, RowNamesCurrent, Dir
  <1> QED BY <1>2, <1>3, <1>4 DEF Inv

LEMMA DeleteStep ==
    ASSUME Inv, NEW c \in Certs, Delete(c)
    PROVE  Inv'
  <1>1. UNCHANGED <<current, retained, published, worker, torn>>
    BY DEF Delete
  <1>2. /\ row' \in [Certs -> Rows]
        /\ \A e \in Certs : row'[e].gen = row[e].gen
    BY DEF Delete, Inv, TypeOK, Rows
  <1>3. TypeOK'
    BY <1>1, <1>2 DEF Inv, TypeOK, Rows, Dirs, Dir, Generation, Working, Idle
  <1>4. AloneInv'
    <2> SUFFICES ASSUME NEW v \in Workers, worker'[v] # Idle, worker'[v].alone
                 PROVE  Undisturbed(v)'
      BY DEF AloneInv, Idle
    <2>1. Undisturbed(v) /\ worker[v].cert \in Certs
      BY <1>1, BusyType DEF Inv, AloneInv
    <2> QED BY <1>1, <1>2, <2>1 DEF Undisturbed, Switched, Near, Dir, Idle
  <1>5. TornInv'
    BY <1>1 DEF Inv, TornInv, Switched, Near, Dir, Dirs, Idle
  <1>6. RowNamesCurrent'
    BY <1>1, <1>2 DEF Inv, RowNamesCurrent, Dir
  <1> QED BY <1>3, <1>4, <1>5, <1>6 DEF Inv

LEMMA CrashStep ==
    ASSUME Inv, Crash
    PROVE  Inv'
  <1>1. /\ worker' = [w \in Workers |-> Idle]
        /\ UNCHANGED <<row, current, retained, published, torn>>
    BY DEF Crash
  <1>2. TypeOK'
    <2>1. worker' \in [Workers -> Working \union {Idle}]
      BY <1>1
    <2> QED BY <1>1, <2>1 DEF Inv, TypeOK, Dirs, Dir, Generation, Working, Idle
  <1>3. AloneInv' /\ TornInv'
    BY <1>1 DEF AloneInv, TornInv, Switched, Near, Idle
  <1>4. RowNamesCurrent'
    BY <1>1 DEF Inv, RowNamesCurrent, Dir
  <1> QED BY <1>2, <1>3, <1>4 DEF Inv

LEMMA StutterStep ==
    ASSUME Inv, UNCHANGED vars
    PROVE  Inv'
  <1>1. UNCHANGED <<row, current, retained, published, worker, torn>>
    BY DEF vars
  <1>2. TypeOK'
    BY <1>1 DEF Inv, TypeOK, Dirs, Dir, Generation, Working, Idle
  <1>3. AloneInv' /\ TornInv'
    BY <1>1 DEF Inv, AloneInv, TornInv, Undisturbed, Switched, Near, Dir, Dirs, Idle
  <1>4. RowNamesCurrent'
    BY <1>1 DEF Inv, RowNamesCurrent, Dir
  <1> QED BY <1>2, <1>3, <1>4 DEF Inv

LEMMA Invariance == Spec => []Inv
  <1>1. Inv /\ [Next]_vars => Inv'
    <2> SUFFICES ASSUME Inv, [Next]_vars PROVE Inv'
      OBVIOUS
    <2>1. ASSUME NEW w \in Workers, NEW c \in Certs,
                 DeployIssued(w, c) \/ DeployRenewed(w, c)
          PROVE  Inv'
      BY <2>1, DeployStep DEF DeployIssued, DeployRenewed
    <2>2. ASSUME NEW w \in Workers, NEW c \in Certs, NEW k \in Keys,
                 LoadRow(w, c, k)
          PROVE  Inv'
      BY <2>2, LoadStep
    <2>3. ASSUME NEW w \in Workers, NEW g \in Generation, Select(w, g)
          PROVE  Inv'
      BY <2>3, SelectStep
    <2>4. ASSUME NEW w \in Workers,
                 \/ CommitSelection(w) \/ CommitRenewal(w) \/ CommitIssue(w)
          PROVE  Inv'
      BY <2>4, CommitStep
    <2>5. ASSUME NEW w \in Workers, CommitLost(w)
          PROVE  Inv'
      BY <2>5, LostStep
    <2>6. ASSUME NEW c \in Certs, Delete(c)
          PROVE  Inv'
      BY <2>6, DeleteStep
    <2>7. CASE Crash
      BY <2>7, CrashStep
    <2>8. CASE UNCHANGED vars
      BY <2>8, StutterStep
    <2> QED BY <2>1, <2>2, <2>3, <2>4, <2>5, <2>6, <2>7, <2>8 DEF Next
  <1> QED BY <1>1, InitInv, PTL DEF Spec

(***************************************************************************)
(* Rows, links and coroutines keep their types, and `current` leads to a   *)
(* generation that exists, for any numbers of requests, coroutines, keys   *)
(* and generations and any primary names.                                  *)
(***************************************************************************)
THEOREM LinksLead == Spec => []TypeOK
  <1>1. Inv => TypeOK
    BY DEF Inv
  <1> QED BY <1>1, Invariance, PTL

(***************************************************************************)
(* A row names the generation in service whenever the last switch of its   *)
(* directory was undisturbed, for any numbers of requests, coroutines,     *)
(* keys and generations and any primary names: what select_deployment_     *)
(* generation and the two deploying coroutines commit agrees with the link *)
(* they switched before.                                                   *)
(***************************************************************************)
THEOREM RowsNameCurrent == Spec => []RowNamesCurrent
  <1>1. Inv => RowNamesCurrent
    BY DEF Inv
  <1> QED BY <1>1, Invariance, PTL

=============================================================================
