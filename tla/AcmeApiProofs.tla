---------------------------- MODULE AcmeApiProofs ---------------------------
(***************************************************************************)
(* Proofs about the running program for any number of certificates,        *)
(* coroutines, keys and restarts.                                          *)
(***************************************************************************)
EXTENDS AcmeApi, ServiceProperties, TLAPS

-----------------------------------------------------------------------------
(***************************************************************************)
(* The records that coroutines are set to have the fields of a task.       *)
(***************************************************************************)
LEMMA NoRowType == NoRow \in Row
BY DEF NoRow, Row

\* An idle coroutine is a task, at the point "idle".
LEMMA IdleType == Idle \in Task /\ Idle.pc = "idle" /\ Idle.cert = NoCert
BY NoRowType, RetriesAssumption DEF Idle, At, Task, Point

\* At builds a task at the given point.
LEMMA AtType ==
    ASSUME NEW pc \in Point, NEW c \in Certs
    PROVE  /\ At(pc, c) \in Task
           /\ At(pc, c).pc = pc
           /\ At(pc, c).cert = c
BY NoRowType, RetriesAssumption DEF At, Task

(***************************************************************************)
(* Setting a coroutine to a task keeps the part of TypeOK about tasks.     *)
(***************************************************************************)
LEMMA SetTask ==
    ASSUME TaskTypeOK, NEW s \in Slots, NEW t \in Task,
           t.pc # "idle" => t.cert \in Certs,
           task' = [task EXCEPT ![s] = t]
    PROVE  TaskTypeOK'
BY DEF TaskTypeOK

\* So does the start of a coroutine,
LEMMA BeginType ==
    ASSUME TaskTypeOK, NEW s \in Slots, NEW t \in Task, t.cert \in Certs,
           Begin(s, t)
    PROVE  TaskTypeOK'
BY SetTask DEF Begin

\* its end,
LEMMA FinishType ==
    ASSUME TaskTypeOK, NEW s \in Slots, Finish(s)
    PROVE  TaskTypeOK'
BY SetTask, IdleType DEF Finish

\* its move to the next point,
LEMMA GotoType ==
    ASSUME TaskTypeOK, NEW s \in Slots, NEW pc \in Point, Goto(s, pc),
           task[s].pc # "idle"
    PROVE  TaskTypeOK'
<1>1. task[s].cert \in Certs
  BY DEF TaskTypeOK
<1> QED
  BY <1>1, SetTask, AtType DEF Goto

\* and that of a renewal.
LEMMA StepType ==
    ASSUME TaskTypeOK, NEW s \in Slots, NEW pc \in Point, Step(s, pc),
           task[s].pc # "idle"
    PROVE  TaskTypeOK'
<1> DEFINE t == [task[s] EXCEPT !.pc = pc]
<1>1. t \in Task /\ t.cert \in Certs
  BY DEF TaskTypeOK, Task
<1>2. task' = [task EXCEPT ![s] = t]
  BY DEF Step, TaskTypeOK
<1> QED
  BY <1>1, <1>2, SetTask

(***************************************************************************)
(* So do the writes to the certificates table.                             *)
(***************************************************************************)
LEMMA SetStatusType ==
    ASSUME row \in [Certs -> Row], NEW c \in Certs, NEW s \in Status,
           SetStatus(c, s)
    PROVE  row' \in [Certs -> Row]
BY DEF SetStatus, Row

\* The blind write keeps it whatever status was loaded.
LEMMA BlindStatusType ==
    ASSUME row \in [Certs -> Row], NEW c \in Certs, NEW l, NEW s \in Status,
           BlindStatus(c, l, s)
    PROVE  row' \in [Certs -> Row]
BY DEF BlindStatus, Row

-----------------------------------------------------------------------------
(***************************************************************************)
(* Every step keeps the type invariant.                                    *)
(***************************************************************************)
LEMMA TypeStep ==
    ASSUME TypeOK, [Next]_vars
    PROVE  TypeOK'
<1> USE RetriesAssumption DEF TypeOK, Slots
<1>a. \A s \in Slots : task[s].pc # "idle" => task[s].cert \in Certs
  BY DEF TaskTypeOK
<1>1. ASSUME NEW w \in Workers, NEW c \in Certs, NEW hold \in BOOLEAN,
             CreateFind(w, c, hold)
      PROVE  TypeOK'
  <2> DEFINE t == [At("create.insert", c) EXCEPT
                    !.seen.status = InitialStatus(c, hold)]
  <2>1. InitialStatus(c, hold) \in Status
    BY DEF InitialStatus, Status
  <2>2. t \in Task /\ t.cert = c
    BY <2>1 DEF At, Task, NoRow, Row, Point
  <2> QED
    BY <1>1, <2>2, BeginType DEF CreateFind
<1>2. ASSUME NEW w \in Workers, CreateInsert(w)
      PROVE  TypeOK'
  <2>1. row' \in [Certs -> Row]
    BY <1>2 DEF CreateInsert, TaskTypeOK, Task
  <2> QED
    BY <1>2, <2>1, FinishType, GotoType, <1>a
       DEF CreateInsert, IssuePoint, Point
<1>3. ASSUME NEW w \in Workers, CreateCollides(w)
      PROVE  TypeOK'
  BY <1>3, <1>a, FinishType
     DEF CreateCollides
<1>4. ASSUME NEW w \in Workers, NEW c \in Certs, AuthorizeRead(w, c)
      PROVE  TypeOK'
  <2> DEFINE t == [At("authorize.act", c) EXCEPT !.seen = row[c]]
  <2>1. t \in Task /\ t.cert = c
    BY AtType DEF Task, Point
  <2> QED
    BY <1>4, <2>1, BeginType DEF AuthorizeRead
<1>5. ASSUME NEW w \in Workers, AuthorizeReady(w)
      PROVE  TypeOK'
  <2>1. row' \in [Certs -> Row]
    BY <1>5, <1>a DEF AuthorizeReady, Row, Status
  <2> QED
    BY <1>5, <2>1, FinishType DEF AuthorizeReady
<1>6. ASSUME NEW w \in Workers, AuthorizeIssue(w)
      PROVE  TypeOK'
  BY <1>6, <1>a, FinishType, GotoType, SetStatusType
     DEF AuthorizeIssue, Point, IssuePoint, Status
<1>7. ASSUME NEW w \in Workers, NEW c \in Certs, NEW k \in Keys,
             ReleaseReplay(w, c, k)
      PROVE  TypeOK'
  <2>1. "released.claim" \in Point
    BY DEF IssuePoint, Point
  <2> QED
    BY <1>7, <2>1, AtType, BeginType DEF ReleaseReplay
<1>8. ASSUME NEW w \in Workers, NEW c \in Certs, NEW r \in Revisions,
             NEW k \in Keys, ReleaseRead(w, c, r, k)
      PROVE  TypeOK'
  <2> DEFINE t == [At("release.act", c) EXCEPT !.rev = r, !.key = k]
  <2>1. At("release.act", c) \in Task /\ At("release.act", c).cert = c
    BY AtType DEF Point
  <2>2. r \in Nat
    BY RevisionsAssumption
  <2>3. t \in Task /\ t.cert = c
    BY <2>1, <2>2 DEF Task
  <2> QED
    BY <1>8, <2>3, BeginType DEF ReleaseRead
<1>9. ASSUME NEW w \in Workers, ReleaseAct(w)
      PROVE  TypeOK'
  <2>1. row' \in [Certs -> Row]
    BY <1>9, <1>a DEF ReleaseAct, TaskTypeOK, Task, Row, Status
  <2> QED
    BY <1>9, <2>1, GotoType DEF ReleaseAct, IssuePoint, Point
<1>10. ASSUME NEW w \in Workers, ReleaseRefused(w)
      PROVE  TypeOK'
  BY <1>10, <1>a, FinishType, GotoType
     DEF ReleaseRefused, Point, IssuePoint
<1>11. ASSUME NEW w \in Workers, NEW c \in Certs, DeleteRead(w, c)
      PROVE  TypeOK'
  <2> DEFINE t == [At("delete.write", c) EXCEPT !.seen = row[c]]
  <2>1. t \in Task /\ t.cert = c
    BY AtType DEF Task, Point
  <2> QED
    BY <1>11, <2>1, BeginType DEF DeleteRead
<1>12. ASSUME NEW w \in Workers, DeleteWrite(w)
      PROVE  TypeOK'
  BY <1>12, <1>a, GotoType, BlindStatusType
     DEF DeleteWrite, Point, Status
<1>13. ASSUME NEW w \in Workers, DeleteRemove(w)
      PROVE  TypeOK'
  BY <1>13, FinishType DEF DeleteRemove
<1>14. ASSUME NEW w \in Workers, NEW c \in Certs, SelectRead(w, c)
      PROVE  TypeOK'
  <2>1. "select.schedule" \in Point
    BY DEF Point
  <2> QED
    BY <1>14, <2>1, AtType, BeginType DEF SelectRead
<1>15. ASSUME NEW w \in Workers, SelectSchedule(w)
      PROVE  TypeOK'
  BY <1>15, <1>a, FinishType
     DEF SelectSchedule, JobKind
<1>16. ASSUME NEW s \in Slots, IssueRead(s)
      PROVE  TypeOK'
  BY <1>16, <1>a, FinishType, GotoType
     DEF IssueRead, Point, IssuePoint
<1>17. ASSUME NEW s \in Slots, IssueClaim(s)
      PROVE  TypeOK'
  BY <1>17, <1>a, GotoType, BlindStatusType
     DEF IssueClaim, Point, IssuePoint, Status
<1>18. ASSUME NEW s \in Slots, ReleasedClaim(s)
      PROVE  TypeOK'
  BY <1>18, <1>a, FinishType, GotoType, SetStatusType
     DEF ReleasedClaim, Point, IssuePoint, Status
<1>19. ASSUME NEW s \in Slots, PersistRead(s)
      PROVE  TypeOK'
  BY <1>19, <1>a, FinishType, GotoType
     DEF PersistRead, Point, IssuePoint
<1>20. ASSUME NEW s \in Slots, IssueSucceeds(s)
      PROVE  TypeOK'
  BY <1>20, <1>a, FinishType, GotoType, SetStatusType
     DEF IssueSucceeds, Point, IssuePoint, Status
<1>21. ASSUME NEW s \in Slots, IssueFails(s)
      PROVE  TypeOK'
  BY <1>21, <1>a, FinishType, SetStatusType
     DEF IssueFails, Status
<1>22. ASSUME NEW s \in Slots, IssueSchedule(s)
      PROVE  TypeOK'
  BY <1>22, <1>a, FinishType
     DEF IssueSchedule, JobKind
<1>23. ASSUME NEW s \in Slots, TaskRaises(s)
      PROVE  TypeOK'
  BY <1>23, <1>a, FinishType DEF TaskRaises
<1>24. ASSUME ResumeSnapshot
      PROVE  TypeOK'
  <2>1. resume' \subseteq Certs \X {"released", "issuing"}
    BY <1>24, PersistAssumption DEF ResumeSnapshot, Resumable
  <2> QED
    BY <1>24, <2>1 DEF ResumeSnapshot, TaskTypeOK
<1>25. ASSUME NEW x \in resume, ResumeNext(x)
      PROVE  TypeOK'
  <2> DEFINE p == IF x[2] = "released" THEN "released.claim"
                  ELSE "persist.start"
  <2>1. At(p, x[1]) \in Task /\ At(p, x[1]).cert \in Certs
    BY AtType DEF IssuePoint, Point
  <2>2. TaskTypeOK'
    BY <1>25, <2>1, BeginType DEF ResumeNext
  <2> QED
    BY <1>25, <2>2 DEF ResumeNext
<1>26. ASSUME Stop
      PROVE  TypeOK'
  BY <1>26, IdleType DEF Stop, TaskTypeOK
<1>27. ASSUME Start
      PROVE  TypeOK'
  BY <1>27 DEF Start, TaskTypeOK, JobKind
<1>28. ASSUME NEW w \in Workers, NEW j \in jobs, JobFires(w, j)
      PROVE  TypeOK'
  <2> DEFINE t == [At("renew.start", j[2]) EXCEPT !.job = j[1]]
  <2>1. j[1] \in JobKind /\ j[2] \in Certs
    OBVIOUS
  <2>2. t \in Task /\ t.cert = j[2]
    BY <2>1, NoRowType DEF At, Task, Point, RenewPoint
  <2> QED
    BY <1>28, <2>1, <2>2, BeginType DEF JobFires
<1>29. ASSUME NEW j \in jobs, JobSkipped(j)
      PROVE  TypeOK'
  BY <1>29, <1>a
     DEF JobSkipped, JobKind, TaskTypeOK
<1>30. ASSUME NEW j \in jobs, JobMissed(j)
      PROVE  TypeOK'
  BY <1>30, <1>a
     DEF JobMissed, JobKind, TaskTypeOK
<1>31. ASSUME NEW w \in Workers, NEW c \in Certs, ManualRenew(w, c)
      PROVE  TypeOK'
  <2>1. "renew.start" \in Point
    BY DEF RenewPoint, Point
  <2> QED
    BY <1>31, <2>1, AtType, BeginType DEF ManualRenew
<1>32. ASSUME NEW w \in Workers, RenewRead(w)
      PROVE  TypeOK'
  BY <1>32, <1>a, FinishType, StepType
     DEF RenewRead, Point, RenewPoint
<1>33. ASSUME NEW w \in Workers, RenewClaim(w)
      PROVE  TypeOK'
  BY <1>33, <1>a, StepType, BlindStatusType
     DEF RenewClaim, Point, RenewPoint, Status
<1>34. ASSUME NEW w \in Workers, RenewSucceeds(w)
      PROVE  TypeOK'
  BY <1>34, <1>a, StepType, BlindStatusType
     DEF RenewSucceeds, Point, RenewPoint, Status
<1>35. ASSUME NEW w \in Workers, RenewSchedule(w)
      PROVE  TypeOK'
  BY <1>35, <1>a, FinishType
     DEF RenewSchedule, JobKind
<1>36. ASSUME NEW w \in Workers, RenewFailsTransiently(w)
      PROVE  TypeOK'
  <2> DEFINE t == [task[w] EXCEPT !.pc = "renew.failing",
                                 !.count = failures[task[w].cert]]
  <2>1. t \in Task /\ t.cert \in Certs
    BY <1>36 DEF RenewFailsTransiently, TaskTypeOK, Task, Point, RenewPoint
  <2>2. task' = [task EXCEPT ![w] = t]
    BY <1>36 DEF RenewFailsTransiently, TaskTypeOK
  <2> QED
    BY <1>36, <2>1, <2>2, SetTask DEF RenewFailsTransiently
<1>37. ASSUME NEW w \in Workers, RenewRetries(w)
      PROVE  TypeOK'
  BY <1>37, <1>a, StepType, BlindStatusType
     DEF RenewRetries, Point, RenewPoint, Status, AddFailure, JobKind
<1>38. ASSUME NEW w \in Workers, RenewGivesUp(w)
      PROVE  TypeOK'
  BY <1>38, <1>a, StepType, BlindStatusType
     DEF RenewGivesUp, Point, RenewPoint, Status, AddFailure
<1>39. ASSUME NEW w \in Workers, RenewNotified(w)
      PROVE  TypeOK'
  BY <1>39, <1>a, FinishType
     DEF RenewNotified
<1>40. CASE UNCHANGED vars
  BY <1>40 DEF vars, TaskTypeOK
<1> QED
  BY <1>1, <1>2, <1>3, <1>4, <1>5, <1>6, <1>7, <1>8, <1>9, <1>10, <1>11,
     <1>12, <1>13, <1>14, <1>15, <1>16, <1>17, <1>18, <1>19, <1>20, <1>21,
     <1>22, <1>23, <1>24, <1>25, <1>26, <1>27, <1>28, <1>29, <1>30, <1>31,
     <1>32, <1>33, <1>34, <1>35, <1>36, <1>37, <1>38, <1>39, <1>40
     DEF Next, ServiceNext, SchedulerNext, Request, Handler, Issuer, Resume,
         Jobs, Renewer

(***************************************************************************)
(* The empty database of the first start is well typed.                    *)
(***************************************************************************)
LEMMA InitType == Init => TypeOK
<1> SUFFICES ASSUME Init PROVE TypeOK
  OBVIOUS
<1>1. row \in [Certs -> Row] /\ TaskTypeOK
  BY NoRowType, IdleType DEF Init, TaskTypeOK
<1>2. failures \in [Certs -> 0 .. MaxRetries]
  BY RetriesAssumption DEF Init
<1> QED
  BY <1>1, <1>2 DEF Init, TypeOK

(***************************************************************************)
(* The state stays well typed, whatever requests, jobs, exceptions and     *)
(* stops are interleaved.                                                  *)
(***************************************************************************)
THEOREM TypeCorrect == Spec => []TypeOK
<1>1. TypeOK /\ [Next]_vars => TypeOK'
  BY TypeStep
<1> QED
  BY <1>1, InitType, PTL DEF Spec

-----------------------------------------------------------------------------
(***************************************************************************)
(* Most steps set one coroutine and at most the status of its row.  They   *)
(* keep HeldInv if the status is one a request may have after its release, *)
(* or one of the two that close it, and if nothing that issues or renews   *)
(* is started for a request that has not been released.                    *)
(***************************************************************************)
StatusWrite(c) ==
    \/ row' = row
    \/ \E st \in Status \ {"held", "authorization_ready"} :
          /\ row' = [row EXCEPT ![c].status = st]
          /\ st \in {"cancelled", "revoked"} \/ ~Prerelease(c)

\* A StatusWrite keeps RowInv and takes no request back before its release.
LEMMA WriteKeepsRows ==
    ASSUME TypeOK, RowInv, NEW c \in Certs, StatusWrite(c), held' = held
    PROVE  /\ RowInv'
           /\ \A d \in Certs : Prerelease(d)' => Prerelease(d)
<1>1. CASE row' = row
  BY <1>1 DEF RowInv, Prerelease
<1>2. CASE row' # row
  <2>1. PICK st \in Status \ {"held", "authorization_ready"} :
            /\ row' = [row EXCEPT ![c].status = st]
            /\ st \in {"cancelled", "revoked"} \/ ~Prerelease(c)
    BY <1>2 DEF StatusWrite
  <2>2. \A d \in Certs : /\ row'[d].key = row[d].key
                         /\ d # c => row'[d] = row[d]
    BY <2>1 DEF TypeOK, Row
  <2>3. row'[c].status = st /\ st # "absent"
    BY <2>1 DEF TypeOK, Row, Status
  <2>4. RowInv'
    BY <2>1, <2>2, <2>3 DEF RowInv, Prerelease, Unreleased
  <2> QED
    BY <2>2, <2>3, <2>4 DEF Prerelease
<1> QED
  BY <1>1, <1>2

\* QuietInv is kept if the one coroutine that is set is harmless, or works
\* for a released request.
LEMMA TaskKeepsQuiet ==
    ASSUME TypeOK, QuietInv, NEW s \in Slots, NEW t,
           task' = [task EXCEPT ![s] = t],
           \A d \in Certs : Prerelease(d)' => Prerelease(d),
           t.cert \in Certs => t.pc \in HarmlessPoint \/ ~Prerelease(t.cert),
           resume' \subseteq resume
    PROVE  QuietInv'
<1> SUFFICES ASSUME NEW d \in Certs, Prerelease(d)'
             PROVE  Quiet(d)'
  BY DEF QuietInv
<1>1. Prerelease(d) /\ Quiet(d)
  BY DEF QuietInv
<1>2. \A r \in Slots : task'[r].cert = d => task'[r].pc \in HarmlessPoint
  <2> SUFFICES ASSUME NEW r \in Slots, task'[r].cert = d
               PROVE  task'[r].pc \in HarmlessPoint
    OBVIOUS
  <2>1. CASE r = s
    BY <1>1, <2>1 DEF TypeOK, TaskTypeOK
  <2>2. CASE r # s
    BY <1>1, <2>2 DEF TypeOK, TaskTypeOK, Quiet
  <2> QED
    BY <2>1, <2>2
<1>3. \A x \in resume' : x[1] # d
  BY <1>1 DEF Quiet
<1> QED
  BY <1>2, <1>3 DEF Quiet

\* Together: a step that sets one coroutine and makes a StatusWrite keeps
\* HeldInv.
LEMMA HeldKept ==
    ASSUME HeldInv, TypeOK', NEW s \in Slots, NEW t, NEW c \in Certs,
           task' = [task EXCEPT ![s] = t],
           ArgsOK(t), StatusWrite(c), held' = held,
           t.cert \in Certs => t.pc \in HarmlessPoint \/ ~Prerelease(t.cert),
           resume' \subseteq resume
    PROVE  HeldInv'
<1>1. RowInv' /\ \A d \in Certs : Prerelease(d)' => Prerelease(d)
  BY WriteKeepsRows DEF HeldInv
<1>2. QuietInv'
  BY <1>1, TaskKeepsQuiet DEF HeldInv
<1>3. ArgsInv'
  BY DEF HeldInv, TypeOK, TaskTypeOK, ArgsInv
<1> QED
  BY <1>1, <1>2, <1>3 DEF HeldInv

(***************************************************************************)
(* HeldKept for each way of setting a coroutine.                           *)
(***************************************************************************)
LEMMA FinishKept ==
    ASSUME HeldInv, TypeOK', NEW s \in Slots, NEW c \in Certs, Finish(s),
           StatusWrite(c), held' = held,
           resume' \subseteq resume
    PROVE  HeldInv'
<1>1. task' = [task EXCEPT ![s] = Idle]
  BY DEF Finish
<1>2. Idle.pc = "idle" /\ ArgsOK(Idle) /\ Idle.pc \in HarmlessPoint
  BY IdleType DEF ArgsOK, HarmlessPoint
<1> QED
  BY <1>1, <1>2, HeldKept

\* for one that starts,
LEMMA BeginKept ==
    ASSUME HeldInv, TypeOK', NEW s \in Slots, NEW t, Begin(s, t), ArgsOK(t),
           t.cert \in Certs, row' = row, held' = held,
           t.pc \in HarmlessPoint \/ ~Prerelease(t.cert),
           resume' \subseteq resume
    PROVE  HeldInv'
<1>1. StatusWrite(t.cert)
  BY DEF StatusWrite
<1> QED
  BY <1>1, HeldKept DEF Begin

\* for one that moves on,
LEMMA GotoKept ==
    ASSUME HeldInv, TypeOK', NEW s \in Slots, NEW p \in Point, Goto(s, p),
           task[s].cert \in Certs, p \notin {"create.insert", "release.act"},
           StatusWrite(task[s].cert), held' = held,
           p \in HarmlessPoint \/ ~Prerelease(task[s].cert),
           resume' = resume
    PROVE  HeldInv'
<1> DEFINE t == At(p, task[s].cert)
<1>1. task' = [task EXCEPT ![s] = t]
  BY DEF Goto
<1>2. t.cert = task[s].cert /\ t.pc = p /\ ArgsOK(t)
  BY AtType DEF ArgsOK
<1> QED
  BY <1>1, <1>2, HeldKept

\* and for a renewal that moves on.
LEMMA StepKept ==
    ASSUME HeldInv, TypeOK', NEW s \in Slots, NEW p \in RenewPoint,
           Step(s, p), task[s].pc \in RenewPoint,
           ~Prerelease(task[s].cert), StatusWrite(task[s].cert),
           held' = held, resume' = resume
    PROVE  HeldInv'
<1> DEFINE t == [task[s] EXCEPT !.pc = p]
<1>1. task' = [task EXCEPT ![s] = t]
  BY DEF Step, HeldInv, TypeOK, TaskTypeOK
<1>2. t.cert = task[s].cert /\ t.pc = p /\ ArgsOK(t)
  BY DEF HeldInv, TypeOK, TaskTypeOK, Task, ArgsOK, RenewPoint
<1>3. task[s].cert \in Certs
  BY DEF HeldInv, TypeOK, TaskTypeOK, RenewPoint
<1> QED
  BY <1>1, <1>2, <1>3, HeldKept

(***************************************************************************)
(* Every step keeps HeldInv.                                               *)
(***************************************************************************)
LEMMA HeldStep ==
    ASSUME HeldInv, [Next]_vars
    PROVE  HeldInv'
<1> USE DEF Slots
<1>t. TypeOK /\ TypeOK'
  BY TypeStep DEF HeldInv
<1>a. \A s \in Slots : task[s].pc # "idle" => task[s].cert \in Certs
  BY <1>t DEF TypeOK, TaskTypeOK
<1>b. \A s \in Slots : task[s].pc \notin HarmlessPoint =>
          task[s].cert \in Certs /\ ~Prerelease(task[s].cert)
  BY <1>a DEF HeldInv, QuietInv, Quiet, HarmlessPoint
<1>c. \A c \in Certs : row[c].status \notin Unreleased \union {"absent"} =>
          ~Prerelease(c)
  BY DEF HeldInv, RowInv, Prerelease
<1>1. ASSUME NEW w \in Workers, NEW c \in Certs, NEW hold \in BOOLEAN,
             CreateFind(w, c, hold)
      PROVE  HeldInv'
  <2> DEFINE t == [At("create.insert", c) EXCEPT
                    !.seen.status = InitialStatus(c, hold)]
  <2>1. t.cert = c /\ t.pc = "create.insert" /\ t.seen.key = NoKey
    BY DEF At, NoRow
  <2>2. t.seen.status = InitialStatus(c, hold)
    BY DEF At, NoRow
  <2>3. ArgsOK(t)
    BY <2>1, <2>2 DEF ArgsOK, InitialStatus
  <2> QED
    BY <1>1, <1>t, <2>1, <2>3, BeginKept DEF CreateFind, HarmlessPoint
<1>2. ASSUME NEW w \in Workers, CreateInsert(w)
      PROVE  HeldInv'
  <2> DEFINE c == task[w].cert
             new == task[w].seen
  <2>1. c \in Certs /\ new.key = NoKey /\ Prerelease(c) /\ c \notin held
    BY <1>2, <1>a
       DEF CreateInsert, HeldInv, ArgsInv, ArgsOK, RowInv, Prerelease
  <2>2. new.status \in {"pending", "pending_dns", "held"}
    BY <1>2 DEF CreateInsert, HeldInv, ArgsInv, ArgsOK
  <2>3. /\ row' = [row EXCEPT ![c] = new]
        /\ held' = IF new.status = "held" THEN held \union {c} ELSE held
    BY <1>2 DEF CreateInsert
  <2>4. row'[c] = new /\ \A d \in Certs \ {c} : row'[d] = row[d]
    BY <1>t, <2>1, <2>3 DEF TypeOK
  <2>5. RowInv'
    BY <2>1, <2>2, <2>3, <2>4 DEF HeldInv, RowInv, Unreleased
  <2>6. \A d \in Certs : Prerelease(d)' => Prerelease(d)
    BY <2>1, <2>3, <2>4 DEF Prerelease
  <2>7. CASE new.status = "pending"
    <3>1. \A d \in Certs : Prerelease(d)' => d # c /\ Prerelease(d)
      BY <2>1, <2>3, <2>4, <2>7 DEF Prerelease
    <3> DEFINE t == At("issue.start", c)
    <3>2. t.pc = "issue.start" /\ t.cert = c /\ task' = [task EXCEPT ![w] = t]
      BY <1>2, <2>7 DEF CreateInsert, Goto, At
    <3>3. ArgsInv'
      BY <1>t, <3>2 DEF HeldInv, ArgsInv, ArgsOK, TypeOK, TaskTypeOK
    <3>4. QuietInv'
      <4> SUFFICES ASSUME NEW d \in Certs, Prerelease(d)'
                   PROVE  Quiet(d)'
        BY DEF QuietInv
      <4>1. d # c /\ Quiet(d)
        BY <3>1 DEF HeldInv, QuietInv
      <4>2. resume' = resume
        BY <1>2 DEF CreateInsert
      <4> QED
        BY <1>t, <3>2, <4>1, <4>2 DEF Quiet, TypeOK, TaskTypeOK
    <3> QED
      BY <1>t, <2>5, <3>3, <3>4 DEF HeldInv
  <2>8. CASE new.status # "pending"
    <3>1. task' = [task EXCEPT ![w] = Idle] /\ Idle.pc = "idle"
      BY <1>2, <2>8, IdleType DEF CreateInsert, Finish
    <3>2. ArgsInv'
      BY <1>t, <3>1 DEF HeldInv, ArgsInv, ArgsOK, TypeOK, TaskTypeOK
    <3>3. resume' = resume
      BY <1>2 DEF CreateInsert
    <3>4. QuietInv'
      BY <1>t, <2>6, <3>1, <3>3, TaskKeepsQuiet DEF HeldInv, HarmlessPoint
    <3> QED
      BY <1>t, <2>5, <3>2, <3>4 DEF HeldInv
  <2> QED
    BY <2>7, <2>8
<1>3. ASSUME NEW w \in Workers, CreateCollides(w)
      PROVE  HeldInv'
  BY <1>3, <1>t, <1>a, FinishKept DEF CreateCollides, StatusWrite
<1>4. ASSUME NEW w \in Workers, NEW c \in Certs, AuthorizeRead(w, c)
      PROVE  HeldInv'
  <2> DEFINE t == [At("authorize.act", c) EXCEPT !.seen = row[c]]
  <2>1. t.cert = c /\ t.pc = "authorize.act" /\ ArgsOK(t)
    BY DEF At, ArgsOK
  <2> QED
    BY <1>4, <1>t, <2>1, BeginKept DEF AuthorizeRead, HarmlessPoint
<1>5. ASSUME NEW w \in Workers, AuthorizeReady(w)
      PROVE  HeldInv'
  <2> DEFINE c == task[w].cert
  <2>1. c \in Certs /\ resume' = resume /\ held' = held
    BY <1>5, <1>a DEF AuthorizeReady
  <2>2. /\ \A d \in Certs : row'[d].key = row[d].key
        /\ \A d \in Certs : row'[d].status = row[d].status
              \/ /\ row[d].status = "held"
                 /\ row'[d].status = "authorization_ready"
    BY <1>5, <1>t, <2>1 DEF AuthorizeReady, TypeOK, Row
  <2>3. RowInv'
    BY <2>1, <2>2 DEF HeldInv, RowInv, Unreleased
  <2>4. \A d \in Certs : Prerelease(d)' => Prerelease(d)
    BY <2>1, <2>2 DEF Prerelease
  <2>5. task' = [task EXCEPT ![w] = Idle] /\ Idle.pc = "idle"
    BY <1>5, IdleType DEF AuthorizeReady, Finish
  <2>6. QuietInv'
    BY <1>t, <2>1, <2>4, <2>5, TaskKeepsQuiet DEF HeldInv, HarmlessPoint
  <2>7. ArgsInv'
    BY <1>t, <2>5 DEF HeldInv, ArgsInv, ArgsOK, TypeOK, TaskTypeOK
  <2> QED
    BY <1>t, <2>3, <2>6, <2>7 DEF HeldInv
<1>6. ASSUME NEW w \in Workers, AuthorizeIssue(w)
      PROVE  HeldInv'
  <2>1. task[w].cert \in Certs
    BY <1>6, <1>a DEF AuthorizeIssue
  <2>2. CASE row[task[w].cert].status \in {"pending_dns", "failed"}
    <3>1. ~Prerelease(task[w].cert)
      BY <2>1, <2>2, <1>c DEF Unreleased
    <3>2. StatusWrite(task[w].cert)
      BY <1>6, <2>2, <3>1 DEF AuthorizeIssue, StatusWrite, SetStatus, Status
    <3> QED
      BY <1>6, <1>t, <2>1, <2>2, <3>1, <3>2, GotoKept
         DEF AuthorizeIssue, Point, IssuePoint
  <2>3. CASE ~(row[task[w].cert].status \in {"pending_dns", "failed"})
    BY <1>6, <1>t, <2>1, <2>3, FinishKept DEF AuthorizeIssue, StatusWrite
  <2> QED
    BY <2>2, <2>3
<1>7. ASSUME NEW w \in Workers, NEW c \in Certs, NEW k \in Keys,
             ReleaseReplay(w, c, k)
      PROVE  HeldInv'
  <2> DEFINE t == At("released.claim", c)
  <2>1. t.cert = c /\ t.pc = "released.claim" /\ ArgsOK(t)
    BY DEF At, ArgsOK
  <2>2. ~Prerelease(c)
    BY <1>7, <1>c DEF ReleaseReplay, Unreleased
  <2> QED
    BY <1>7, <1>t, <2>1, <2>2, BeginKept DEF ReleaseReplay
<1>8. ASSUME NEW w \in Workers, NEW c \in Certs, NEW r \in Revisions,
             NEW k \in Keys, ReleaseRead(w, c, r, k)
      PROVE  HeldInv'
  <2> DEFINE t == [At("release.act", c) EXCEPT !.rev = r, !.key = k]
  <2>1. t.cert = c /\ t.pc = "release.act" /\ ArgsOK(t)
    BY DEF At, ArgsOK
  <2> QED
    BY <1>8, <1>t, <2>1, BeginKept DEF ReleaseRead, HarmlessPoint
<1>9. ASSUME NEW w \in Workers, ReleaseAct(w)
      PROVE  HeldInv'
  <2> DEFINE c == task[w].cert
             t == At("released.claim", c)
  <2>1. c \in Certs /\ resume' = resume /\ held' = held
    BY <1>9, <1>a DEF ReleaseAct
  <2>2. /\ row'[c].key = task[w].key /\ row'[c].status = "released"
        /\ \A d \in Certs \ {c} : row'[d] = row[d]
    BY <1>9, <1>t, <2>1 DEF ReleaseAct, TypeOK
  <2>3. row'[c].key # NoKey
    BY <1>9, <2>2, KeyAssumption DEF ReleaseAct, HeldInv, ArgsInv, ArgsOK
  <2>4. RowInv'
    BY <2>1, <2>2, <2>3 DEF HeldInv, RowInv
  <2>5. \A d \in Certs : Prerelease(d)' => d # c /\ Prerelease(d)
    BY <2>1, <2>2, <2>3 DEF Prerelease
  <2>6. t.pc = "released.claim" /\ t.cert = c /\ task' = [task EXCEPT ![w] = t]
    BY <1>9 DEF ReleaseAct, Goto, At
  <2>7. ArgsInv'
    BY <1>t, <2>6 DEF HeldInv, ArgsInv, ArgsOK, TypeOK, TaskTypeOK
  <2>8. QuietInv'
    <3> SUFFICES ASSUME NEW d \in Certs, Prerelease(d)'
                 PROVE  Quiet(d)'
      BY DEF QuietInv
    <3> QED
      BY <1>t, <2>1, <2>5, <2>6
         DEF HeldInv, QuietInv, Quiet, TypeOK, TaskTypeOK
  <2> QED
    BY <1>t, <2>4, <2>7, <2>8 DEF HeldInv
<1>10. ASSUME NEW w \in Workers, ReleaseRefused(w)
      PROVE  HeldInv'
  <2>1. task[w].cert \in Certs
    BY <1>10, <1>a DEF ReleaseRefused
  <2>2. CASE /\ row[task[w].cert].key = task[w].key
            /\ row[task[w].cert].status = "released"
    <3>1. ~Prerelease(task[w].cert)
      BY <2>1, <2>2, <1>c DEF Unreleased
    <3>2. StatusWrite(task[w].cert)
      BY <1>10, <2>2, <3>1 DEF ReleaseRefused, StatusWrite
    <3> QED
      BY <1>10, <1>t, <2>1, <2>2, <3>1, <3>2, GotoKept
         DEF ReleaseRefused, Point, IssuePoint
  <2>3. CASE ~(/\ row[task[w].cert].key = task[w].key
            /\ row[task[w].cert].status = "released")
    BY <1>10, <1>t, <2>1, <2>3, FinishKept DEF ReleaseRefused, StatusWrite
  <2> QED
    BY <2>2, <2>3
<1>11. ASSUME NEW w \in Workers, NEW c \in Certs, DeleteRead(w, c)
      PROVE  HeldInv'
  <2> DEFINE t == [At("delete.write", c) EXCEPT !.seen = row[c]]
  <2>1. t.cert = c /\ t.pc = "delete.write" /\ ArgsOK(t)
    BY DEF At, ArgsOK
  <2> QED
    BY <1>11, <1>t, <2>1, BeginKept DEF DeleteRead, HarmlessPoint
<1>12. ASSUME NEW w \in Workers, DeleteWrite(w)
      PROVE  HeldInv'
  <2>1. task[w].cert \in Certs
    BY <1>12, <1>a DEF DeleteWrite
  <2>2. StatusWrite(task[w].cert)
    BY <1>12 DEF DeleteWrite, BlindStatus, StatusWrite, Status
  <2> QED
    BY <1>12, <1>t, <2>1, <2>2, GotoKept DEF DeleteWrite, Point, HarmlessPoint
<1>13. ASSUME NEW w \in Workers, DeleteRemove(w)
      PROVE  HeldInv'
  BY <1>13, <1>t, <1>a, FinishKept DEF DeleteRemove, StatusWrite
<1>14. ASSUME NEW w \in Workers, NEW c \in Certs, SelectRead(w, c)
      PROVE  HeldInv'
  <2> DEFINE t == At("select.schedule", c)
  <2>1. t.cert = c /\ t.pc = "select.schedule" /\ ArgsOK(t)
    BY DEF At, ArgsOK
  <2> QED
    BY <1>14, <1>t, <2>1, BeginKept DEF SelectRead, HarmlessPoint
<1>15. ASSUME NEW w \in Workers, SelectSchedule(w)
      PROVE  HeldInv'
  BY <1>15, <1>t, <1>a, FinishKept DEF SelectSchedule, StatusWrite
<1>16. ASSUME NEW s \in Slots, IssueRead(s)
      PROVE  HeldInv'
  <2>1. task[s].cert \in Certs
    BY <1>16, <1>a DEF IssueRead
  <2>2. CASE row[task[s].cert].status = "pending"
    <3>1. ~Prerelease(task[s].cert)
      BY <2>1, <2>2, <1>c DEF Unreleased
    <3>2. StatusWrite(task[s].cert)
      BY <1>16, <2>2, <3>1 DEF IssueRead, StatusWrite
    <3> QED
      BY <1>16, <1>t, <2>1, <2>2, <3>1, <3>2, GotoKept
         DEF IssueRead, Point, IssuePoint
  <2>3. CASE ~(row[task[s].cert].status = "pending")
    BY <1>16, <1>t, <2>1, <2>3, FinishKept DEF IssueRead, StatusWrite
  <2> QED
    BY <2>2, <2>3
<1>17. ASSUME NEW s \in Slots, IssueClaim(s)
      PROVE  HeldInv'
  <2>1. task[s].cert \in Certs /\ ~Prerelease(task[s].cert)
    BY <1>17, <1>b DEF IssueClaim, HarmlessPoint
  <2>2. StatusWrite(task[s].cert)
    BY <1>17, <2>1 DEF IssueClaim, BlindStatus, StatusWrite, Status
  <2> QED
    BY <1>17, <1>t, <2>1, <2>2, GotoKept DEF IssueClaim, Point, IssuePoint
<1>18. ASSUME NEW s \in Slots, ReleasedClaim(s)
      PROVE  HeldInv'
  <2>1. task[s].cert \in Certs
    BY <1>18, <1>a DEF ReleasedClaim
  <2>2. CASE row[task[s].cert].status = "released"
    <3>1. ~Prerelease(task[s].cert)
      BY <2>1, <2>2, <1>c DEF Unreleased
    <3>2. StatusWrite(task[s].cert)
      BY <1>18, <2>2, <3>1 DEF ReleasedClaim, StatusWrite, SetStatus, Status
    <3> QED
      BY <1>18, <1>t, <2>1, <2>2, <3>1, <3>2, GotoKept
         DEF ReleasedClaim, Point, IssuePoint
  <2>3. CASE ~(row[task[s].cert].status = "released")
    BY <1>18, <1>t, <2>1, <2>3, FinishKept DEF ReleasedClaim, StatusWrite
  <2> QED
    BY <2>2, <2>3
<1>19. ASSUME NEW s \in Slots, PersistRead(s)
      PROVE  HeldInv'
  <2>1. task[s].cert \in Certs
    BY <1>19, <1>a DEF PersistRead
  <2>2. CASE row[task[s].cert].status = "issuing"
    <3>1. ~Prerelease(task[s].cert)
      BY <2>1, <2>2, <1>c DEF Unreleased
    <3>2. StatusWrite(task[s].cert)
      BY <1>19, <2>2, <3>1 DEF PersistRead, StatusWrite
    <3> QED
      BY <1>19, <1>t, <2>1, <2>2, <3>1, <3>2, GotoKept
         DEF PersistRead, Point, IssuePoint
  <2>3. CASE ~(row[task[s].cert].status = "issuing")
    BY <1>19, <1>t, <2>1, <2>3, FinishKept DEF PersistRead, StatusWrite
  <2> QED
    BY <2>2, <2>3
<1>20. ASSUME NEW s \in Slots, IssueSucceeds(s)
      PROVE  HeldInv'
  <2>1. task[s].cert \in Certs
    BY <1>20, <1>a DEF IssueSucceeds
  <2>2. CASE row[task[s].cert].status = "issuing"
    <3>1. ~Prerelease(task[s].cert)
      BY <2>1, <2>2, <1>c DEF Unreleased
    <3>2. StatusWrite(task[s].cert)
      BY <1>20, <2>2, <3>1 DEF IssueSucceeds, StatusWrite, SetStatus, Status
    <3> QED
      BY <1>20, <1>t, <2>1, <2>2, <3>1, <3>2, GotoKept
         DEF IssueSucceeds, Point, IssuePoint
  <2>3. CASE ~(row[task[s].cert].status = "issuing")
    BY <1>20, <1>t, <2>1, <2>3, FinishKept DEF IssueSucceeds, StatusWrite
  <2> QED
    BY <2>2, <2>3
<1>21. ASSUME NEW s \in Slots, IssueFails(s)
      PROVE  HeldInv'
  <2>1. task[s].cert \in Certs /\ ~Prerelease(task[s].cert)
    BY <1>21, <1>b DEF IssueFails, HarmlessPoint
  <2>2. StatusWrite(task[s].cert)
    BY <1>21, <2>1 DEF IssueFails, SetStatus, StatusWrite, Status
  <2> QED
    BY <1>21, <1>t, <2>1, <2>2, FinishKept DEF IssueFails
<1>22. ASSUME NEW s \in Slots, IssueSchedule(s)
      PROVE  HeldInv'
  BY <1>22, <1>t, <1>a, FinishKept DEF IssueSchedule, StatusWrite
<1>23. ASSUME NEW s \in Slots, TaskRaises(s)
      PROVE  HeldInv'
  BY <1>23, <1>t, <1>a, FinishKept DEF TaskRaises, StatusWrite
<1>24. ASSUME ResumeSnapshot
      PROVE  HeldInv'
  <2>1. UNCHANGED <<row, task, held>>
    BY <1>24 DEF ResumeSnapshot
  <2>2. ASSUME NEW d \in Certs, Prerelease(d)
        PROVE  \A x \in resume' : x[1] # d
    BY <1>24, <2>2, PersistAssumption
       DEF ResumeSnapshot, Resumable, Prerelease, HeldInv, RowInv
  <2> QED
    BY <1>t, <2>1, <2>2
       DEF HeldInv, RowInv, ArgsInv, ArgsOK, QuietInv, Quiet, Prerelease
<1>25. ASSUME NEW x \in resume, ResumeNext(x)
      PROVE  HeldInv'
  <2> DEFINE p == IF x[2] = "released" THEN "released.claim"
                  ELSE "persist.start"
             t == At(p, x[1])
  <2>1. x[1] \in Certs
    BY <1>t DEF TypeOK
  <2>2. t.cert = x[1] /\ t.pc = p /\ ArgsOK(t)
    BY DEF At, ArgsOK
  <2>3. ~Prerelease(x[1])
    BY <2>1 DEF HeldInv, QuietInv, Quiet
  <2> QED
    BY <1>25, <1>t, <2>1, <2>2, <2>3, BeginKept DEF ResumeNext
<1>26. ASSUME Stop
      PROVE  HeldInv'
  <2>1. \A s \in Slots : task'[s] = Idle
    BY <1>26 DEF Stop
  <2>2. ArgsInv'
    BY <2>1, IdleType DEF ArgsInv, ArgsOK
  <2>3. QuietInv'
    BY <1>26, <2>1, IdleType DEF Stop, QuietInv, Quiet, HarmlessPoint
  <2> QED
    BY <1>26, <1>t, <2>2, <2>3 DEF Stop, HeldInv, RowInv
<1>27. ASSUME Start
      PROVE  HeldInv'
  <2>1. UNCHANGED <<row, task, resume, held>>
    BY <1>27 DEF Start
  <2> QED
    BY <1>t, <2>1
       DEF HeldInv, RowInv, ArgsInv, ArgsOK, QuietInv, Quiet, Prerelease
<1>28. ASSUME NEW w \in Workers, NEW j \in jobs, JobFires(w, j)
      PROVE  HeldInv'
  <2> DEFINE t == [At("renew.start", j[2]) EXCEPT !.job = j[1]]
  <2>1. j[1] \in JobKind /\ j[2] \in Certs /\ j = <<j[1], j[2]>>
    BY <1>t DEF TypeOK
  <2>2. t.cert = j[2] /\ t.pc = "renew.start" /\ ArgsOK(t)
    BY DEF At, ArgsOK
  <2> QED
    BY <1>28, <1>t, <2>1, <2>2, BeginKept DEF JobFires, HarmlessPoint
<1>29. ASSUME NEW j \in jobs, JobSkipped(j)
      PROVE  HeldInv'
  BY <1>29, <1>t DEF JobSkipped, HeldInv, RowInv, ArgsInv, ArgsOK, QuietInv,
                     Quiet, Prerelease
<1>30. ASSUME NEW j \in jobs, JobMissed(j)
      PROVE  HeldInv'
  BY <1>30, <1>t DEF JobMissed, HeldInv, RowInv, ArgsInv, ArgsOK, QuietInv,
                     Quiet, Prerelease
<1>31. ASSUME NEW w \in Workers, NEW c \in Certs, ManualRenew(w, c)
      PROVE  HeldInv'
  <2> DEFINE t == At("renew.start", c)
  <2>1. t.cert = c /\ t.pc = "renew.start" /\ ArgsOK(t)
    BY DEF At, ArgsOK
  <2>2. ~Prerelease(c)
    BY <1>31, <1>c DEF ManualRenew, Unreleased
  <2> QED
    BY <1>31, <1>t, <2>1, <2>2, BeginKept DEF ManualRenew
<1>32. ASSUME NEW w \in Workers, RenewRead(w)
      PROVE  HeldInv'
  <2>1. task[w].cert \in Certs /\ StatusWrite(task[w].cert)
    BY <1>32, <1>a DEF RenewRead, StatusWrite
  <2> QED
    BY <1>32, <1>t, <1>c, <2>1, StepKept, FinishKept
       DEF RenewRead, RenewPoint, Unreleased
<1>33. ASSUME NEW w \in Workers, RenewClaim(w)
      PROVE  HeldInv'
  <2>1. task[w].cert \in Certs /\ ~Prerelease(task[w].cert)
    BY <1>33, <1>b DEF RenewClaim, HarmlessPoint
  <2>2. StatusWrite(task[w].cert)
    BY <1>33, <2>1 DEF RenewClaim, BlindStatus, StatusWrite, Status
  <2> QED
    BY <1>33, <1>t, <2>1, <2>2, StepKept DEF RenewClaim, RenewPoint
<1>34. ASSUME NEW w \in Workers, RenewSucceeds(w)
      PROVE  HeldInv'
  <2>1. task[w].cert \in Certs /\ ~Prerelease(task[w].cert)
    BY <1>34, <1>b DEF RenewSucceeds, HarmlessPoint
  <2>2. StatusWrite(task[w].cert)
    BY <1>34, <2>1 DEF RenewSucceeds, BlindStatus, StatusWrite, Status
  <2> QED
    BY <1>34, <1>t, <2>1, <2>2, StepKept DEF RenewSucceeds, RenewPoint
<1>35. ASSUME NEW w \in Workers, RenewSchedule(w)
      PROVE  HeldInv'
  BY <1>35, <1>t, <1>a, FinishKept DEF RenewSchedule, StatusWrite
<1>36. ASSUME NEW w \in Workers, RenewFailsTransiently(w)
      PROVE  HeldInv'
  <2> DEFINE t == [task[w] EXCEPT !.pc = "renew.failing",
                                 !.count = failures[task[w].cert]]
  <2>1. task[w].cert \in Certs /\ ~Prerelease(task[w].cert)
    BY <1>36, <1>b DEF RenewFailsTransiently, HarmlessPoint
  <2>2. task' = [task EXCEPT ![w] = t]
    BY <1>36, <1>t DEF RenewFailsTransiently, TypeOK, TaskTypeOK
  <2>3. t.pc = "renew.failing" /\ t.cert = task[w].cert
    BY <1>t DEF TypeOK, TaskTypeOK, Task
  <2> QED
    BY <1>36, <1>t, <2>1, <2>2, <2>3, HeldKept
       DEF RenewFailsTransiently, StatusWrite, ArgsOK
<1>37. ASSUME NEW w \in Workers, RenewRetries(w)
      PROVE  HeldInv'
  <2>1. task[w].cert \in Certs /\ ~Prerelease(task[w].cert)
    BY <1>37, <1>b DEF RenewRetries, HarmlessPoint
  <2>2. StatusWrite(task[w].cert)
    BY <1>37, <2>1 DEF RenewRetries, BlindStatus, StatusWrite, Status
  <2> QED
    BY <1>37, <1>t, <2>1, <2>2, StepKept DEF RenewRetries, RenewPoint
<1>38. ASSUME NEW w \in Workers, RenewGivesUp(w)
      PROVE  HeldInv'
  <2>1. task[w].cert \in Certs /\ ~Prerelease(task[w].cert)
    BY <1>38, <1>b DEF RenewGivesUp, HarmlessPoint
  <2>2. StatusWrite(task[w].cert)
    BY <1>38, <2>1 DEF RenewGivesUp, BlindStatus, StatusWrite, Status
  <2> QED
    BY <1>38, <1>t, <2>1, <2>2, StepKept DEF RenewGivesUp, RenewPoint
<1>39. ASSUME NEW w \in Workers, RenewNotified(w)
      PROVE  HeldInv'
  BY <1>39, <1>t, <1>a, FinishKept DEF RenewNotified, StatusWrite
<1>40. CASE UNCHANGED vars
  BY <1>40, <1>t
     DEF vars, HeldInv, RowInv, ArgsInv, ArgsOK, QuietInv, Quiet, Prerelease
<1> QED
  BY <1>1, <1>2, <1>3, <1>4, <1>5, <1>6, <1>7, <1>8, <1>9, <1>10, <1>11,
     <1>12, <1>13, <1>14, <1>15, <1>16, <1>17, <1>18, <1>19, <1>20, <1>21,
     <1>22, <1>23, <1>24, <1>25, <1>26, <1>27, <1>28, <1>29, <1>30, <1>31,
     <1>32, <1>33, <1>34, <1>35, <1>36, <1>37, <1>38, <1>39, <1>40
     DEF Next, ServiceNext, SchedulerNext, Request, Handler, Issuer, Resume,
         Jobs, Renewer

(***************************************************************************)
(* An accepted release is never undone: of the steps that write a row,     *)
(* only an INSERT, an authorization and a release touch its key or its     *)
(* revision, and each of them finds no key there.                          *)
(***************************************************************************)
LEMMA KeyStep ==
    ASSUME HeldInv, [Next]_vars, NEW c \in Certs, row[c].key # NoKey
    PROVE  row'[c].key = row[c].key /\ row'[c].revision = row[c].revision
<1> USE DEF Slots
<1>1. /\ row \in [Certs -> Row]
      /\ \A s \in Slots : task[s].pc # "idle" => task[s].cert \in Certs
  BY DEF HeldInv, TypeOK, TaskTypeOK
<1>2. row[c].status \notin {"absent", "held", "authorization_ready"}
  BY DEF HeldInv, RowInv
<1>3. \/ row' = row
      \/ \E s \in Slots :
            \/ CreateInsert(s) \/ AuthorizeReady(s) \/ ReleaseAct(s)
            \/ \E st \in Status :
                  /\ task[s].pc # "idle"
                  /\ row' = [row EXCEPT ![task[s].cert].status = st]
  <2>1. CASE \E w \in Workers : Handler(w) \/ Renewer(w)
    BY <2>1 DEF Handler, AuthorizeIssue, DeleteWrite, CreateCollides,
                ReleaseRefused, DeleteRemove, SelectSchedule, Renewer,
                RenewRead, RenewClaim, RenewSucceeds, RenewSchedule,
                RenewFailsTransiently, RenewRetries, RenewGivesUp,
                RenewNotified, SetStatus, BlindStatus, Status
  <2>2. CASE \E s \in Slots : Issuer(s)
    BY <2>2 DEF Issuer, IssueRead, IssueClaim, ReleasedClaim, PersistRead,
                IssueSucceeds, IssueFails, IssueSchedule, SetStatus,
                BlindStatus, Status
  <2>3. CASE \/ \E w \in Workers : Request(w)
             \/ \E s \in Slots : TaskRaises(s)
             \/ Resume \/ Stop \/ Start
    BY <2>3 DEF Request, CreateFind, AuthorizeRead, DeleteRead, ReleaseReplay,
                ReleaseRead, SelectRead, TaskRaises, Resume,
                ResumeSnapshot, ResumeNext, Stop, Start
  <2>4. CASE \/ Jobs \/ UNCHANGED vars
             \/ \E w \in Workers, d \in Certs : ManualRenew(w, d)
    BY <2>4 DEF Jobs, JobFires, JobSkipped, JobMissed, ManualRenew, vars
  <2> QED
    BY <2>1, <2>2, <2>3, <2>4 DEF Next, ServiceNext, SchedulerNext
<1>4. ASSUME NEW s \in Slots, CreateInsert(s) \/ AuthorizeReady(s)
      PROVE  row'[c] = row[c]
  BY <1>1, <1>2, <1>4 DEF CreateInsert, AuthorizeReady
<1>5. ASSUME NEW s \in Slots, ReleaseAct(s)
      PROVE  row'[c] = row[c]
  BY <1>1, <1>5 DEF ReleaseAct, Releasable
<1>6. ASSUME NEW d \in Certs, NEW st \in Status,
             row' = [row EXCEPT ![d].status = st]
      PROVE  row'[c].key = row[c].key /\ row'[c].revision = row[c].revision
  BY <1>1, <1>6 DEF Row
<1> QED
  BY <1>1, <1>3, <1>4, <1>5, <1>6

(***************************************************************************)
(* The initial state satisfies HeldInv.                                    *)
(***************************************************************************)
LEMMA HeldInit == Init => HeldInv
<1> SUFFICES ASSUME Init PROVE HeldInv
  OBVIOUS
<1>1. TypeOK
  BY InitType
<1>2. /\ \A c \in Certs : row[c].status = "absent" /\ row[c].key = NoKey
      /\ held = {} /\ resume = {}
      /\ \A s \in Slots : task[s].pc = "idle"
  BY IdleType DEF Init, NoRow
<1> QED
  BY <1>1, <1>2
     DEF HeldInv, RowInv, ArgsInv, ArgsOK, QuietInv, Quiet, HarmlessPoint

(***************************************************************************)
(* HeldInv is an invariant.                                                *)
(***************************************************************************)
LEMMA HeldInvariant == Spec => []HeldInv
<1>1. HeldInv /\ [Next]_vars => HeldInv'
  BY HeldStep
<1> QED
  BY <1>1, HeldInit, PTL DEF Spec

(***************************************************************************)
(* However requests, recoveries, renewals, failures and restarts are       *)
(* interleaved, a request created as held is neither issued nor moved past *)
(* the hold before release_held_dns_persist_certificate has accepted a     *)
(* release of it.                                                          *)
(***************************************************************************)
THEOREM HeldRequestsAreHeld == Spec => []HeldNeedsRelease
<1>1. HeldInv => HeldNeedsRelease
  BY DEF HeldInv, TypeOK, RowInv, QuietInv, Quiet, Prerelease, HarmlessPoint,
         HeldNeedsRelease, Busy
<1> QED
  BY <1>1, HeldInvariant, PTL

(***************************************************************************)
(* The key and the revision of an accepted release never change again, so  *)
(* that a replay of the same Idempotency-Key keeps its meaning.            *)
(***************************************************************************)
THEOREM ReleasesAreFinal == Spec => ReleaseOnce
<1> DEFINE Kept == \A c \in Certs : row[c].key # NoKey =>
               row'[c].key = row[c].key /\ row'[c].revision = row[c].revision
<1>1. HeldInv /\ [Next]_vars => [Kept]_vars
  BY KeyStep
<1> QED
  BY <1>1, HeldInvariant, PTL DEF Spec, ReleaseOnce

-----------------------------------------------------------------------------
(***************************************************************************)
(* A step sets at most one coroutine, unless the process stops.            *)
(***************************************************************************)
Sets(s) == \E t : task' = [task EXCEPT ![s] = t]

\* The points at which a request leaves the coroutine that it starts.
RequestPoint == {"create.insert", "authorize.act", "release.act",
                 "released.claim", "delete.write", "select.schedule"}

\* What is known of the coroutine that a request starts.
Requested(t) ==
    /\ t.pc \in RequestPoint
    /\ t.cert \in Certs
    /\ t.pc \in {"authorize.act", "release.act", "released.claim"} =>
           t.cert \in Persist
    /\ t.pc = "create.insert" =>
           (t.seen.status = "pending" <=> t.cert \notin Persist)

\* A request starts a coroutine, one that Requested describes, and changes
\* nothing else.
LEMMA RequestBegins ==
    ASSUME NEW w \in Workers, Request(w)
    PROVE  /\ Accepting
           /\ UNCHANGED <<row, failures, jobs, up, recoveryDue, resume, held,
                          disturbed>>
           /\ \E t : Begin(w, t) /\ Requested(t)
<1> USE DEF RequestPoint
<1> DEFINE Goal == /\ Accepting
                   /\ UNCHANGED <<row, failures, jobs, up, recoveryDue,
                                  resume, held, disturbed>>
                   /\ \E t : Begin(w, t) /\ Requested(t)
<1>1. ASSUME NEW c \in Certs, NEW hold \in BOOLEAN, CreateFind(w, c, hold)
      PROVE  Goal
  <2> DEFINE t == [At("create.insert", c) EXCEPT
                    !.seen.status = InitialStatus(c, hold)]
  <2>1. /\ t.pc = "create.insert" /\ t.cert = c
        /\ t.seen.status = InitialStatus(c, hold)
    BY DEF At, NoRow
  <2>2. Requested(t)
    BY <2>1 DEF Requested, InitialStatus
  <2> QED
    BY <1>1, <2>2 DEF CreateFind
<1>2. ASSUME NEW c \in Certs, AuthorizeRead(w, c)
      PROVE  Goal
  <2> DEFINE t == [At("authorize.act", c) EXCEPT !.seen = row[c]]
  <2>1. Requested(t)
    BY <1>2 DEF At, Requested, AuthorizeRead
  <2> QED
    BY <1>2, <2>1 DEF AuthorizeRead
<1>3. ASSUME NEW c \in Certs, DeleteRead(w, c)
      PROVE  Goal
  <2> DEFINE t == [At("delete.write", c) EXCEPT !.seen = row[c]]
  <2>1. Requested(t)
    BY DEF At, Requested
  <2> QED
    BY <1>3, <2>1 DEF DeleteRead
<1>4. ASSUME NEW c \in Certs, SelectRead(w, c)
      PROVE  Goal
  <2>1. Requested(At("select.schedule", c))
    BY DEF At, Requested
  <2> QED
    BY <1>4, <2>1 DEF SelectRead
<1>5. ASSUME NEW c \in Certs, NEW k \in Keys, ReleaseReplay(w, c, k)
      PROVE  Goal
  <2>1. Requested(At("released.claim", c))
    BY <1>5 DEF At, Requested, ReleaseReplay
  <2> QED
    BY <1>5, <2>1 DEF ReleaseReplay
<1>6. ASSUME NEW c \in Certs, NEW r \in Revisions, NEW k \in Keys,
             ReleaseRead(w, c, r, k)
      PROVE  Goal
  <2> DEFINE t == [At("release.act", c) EXCEPT !.rev = r, !.key = k]
  <2>1. Requested(t)
    BY <1>6 DEF At, Requested, ReleaseRead
  <2> QED
    BY <1>6, <2>1 DEF ReleaseRead
<1> QED
  BY <1>1, <1>2, <1>3, <1>4, <1>5, <1>6 DEF Request

\* A renewal sets its own coroutine.
LEMMA RenewerSets ==
    ASSUME task \in [Slots -> Task], NEW w \in Workers, Renewer(w)
    PROVE  Sets(w)
<1>1. ASSUME NEW p, Step(w, p) PROVE Sets(w)
  BY <1>1 DEF Step, Sets
<1>2. ASSUME RenewFailsTransiently(w) PROVE Sets(w)
  <2> DEFINE t == [task[w] EXCEPT !.pc = "renew.failing",
                                 !.count = failures[task[w].cert]]
  <2>1. task' = [task EXCEPT ![w] = t]
    BY <1>2 DEF RenewFailsTransiently, Slots
  <2> QED
    BY <2>1 DEF Sets
<1>3. ASSUME Finish(w) PROVE Sets(w)
  BY <1>3 DEF Finish, Sets
<1> QED
  BY <1>1, <1>2, <1>3 DEF Renewer, RenewRead, RenewClaim, RenewSucceeds,
     RenewSchedule, RenewRetries, RenewGivesUp, RenewNotified

\* A stopped process can only start.
LEMMA OnlyStartWhenDown ==
    ASSUME DownInv, ~up, [Next]_vars
    PROVE  Start \/ UNCHANGED vars
<1> USE DEF Slots
<1>1. \A s \in Slots : task[s].pc = "idle"
  BY DEF DownInv
<1>2. jobs = {} /\ resume = {}
  BY DEF DownInv
<1>3. ASSUME NEW w \in Workers PROVE ~Handler(w)
  BY <1>1 DEF Handler, CreateInsert, CreateCollides, AuthorizeReady,
     AuthorizeIssue, ReleaseAct, ReleaseRefused, DeleteWrite, DeleteRemove,
     SelectSchedule
<1>4. ASSUME NEW s \in Slots PROVE ~Issuer(s) /\ ~TaskRaises(s)
  BY <1>1 DEF Issuer, IssueRead, IssueClaim, ReleasedClaim, PersistRead,
     IssueSucceeds, IssueFails, IssueSchedule, TaskRaises
<1>5. ASSUME NEW w \in Workers PROVE ~Renewer(w)
  BY <1>1 DEF Renewer, RenewRead, RenewClaim, RenewSucceeds, RenewSchedule,
     RenewFailsTransiently, RenewRetries, RenewGivesUp, RenewNotified
<1>6. ASSUME NEW w \in Workers PROVE ~Request(w)
  BY RequestBegins DEF Accepting
<1>7. \A w \in Workers, c \in Certs : ~ManualRenew(w, c)
  BY DEF ManualRenew, Accepting
<1>8. ~Resume /\ ~Jobs /\ ~Stop
  BY <1>2 DEF Resume, ResumeSnapshot, Jobs, Stop
<1> QED
  BY <1>3, <1>4, <1>5, <1>6, <1>7, <1>8 DEF Next, ServiceNext, SchedulerNext

\* Only a start and a stop change up.
LEMMA UpStep ==
    ASSUME [Next]_vars
    PROVE  Start \/ Stop \/ up' = up
<1>1. ASSUME NEW w \in Workers, Handler(w) PROVE up' = up
  BY <1>1 DEF Handler, CreateInsert, CreateCollides, AuthorizeReady,
     AuthorizeIssue, ReleaseAct, ReleaseRefused, DeleteWrite, DeleteRemove,
     SelectSchedule
<1>2. ASSUME NEW s \in Slots, Issuer(s) \/ TaskRaises(s) PROVE up' = up
  BY <1>2 DEF Issuer, IssueRead, IssueClaim, ReleasedClaim, PersistRead,
     IssueSucceeds, IssueFails, IssueSchedule, TaskRaises
<1>3. ASSUME NEW w \in Workers, Renewer(w) PROVE up' = up
  BY <1>3 DEF Renewer, RenewRead, RenewClaim, RenewSucceeds, RenewSchedule,
     RenewFailsTransiently, RenewRetries, RenewGivesUp, RenewNotified
<1>4. ASSUME NEW w \in Workers, Request(w) PROVE up' = up
  BY <1>4, RequestBegins
<1>5. ASSUME Resume \/ Jobs \/ UNCHANGED vars \/
             \E w \in Workers, c \in Certs : ManualRenew(w, c)
      PROVE up' = up
  BY <1>5 DEF Resume, ResumeSnapshot, ResumeNext, Jobs, JobFires, JobSkipped,
     JobMissed, ManualRenew, vars
<1> QED
  BY <1>1, <1>2, <1>3, <1>4, <1>5 DEF Next, ServiceNext, SchedulerNext

(***************************************************************************)
(* DownInv is kept: a stop clears everything, and a start comes up.        *)
(***************************************************************************)
LEMMA DownStep ==
    ASSUME DownInv, TypeOK, [Next]_vars
    PROVE  DownInv'
<1>1. CASE Stop
  BY <1>1, IdleType DEF Stop, DownInv
<1>2. CASE Start
  BY <1>2 DEF Start, DownInv
<1>3. CASE up' = up /\ ~up
  <2>1. CASE UNCHANGED vars
    BY <2>1 DEF vars, DownInv
  <2> QED
    BY <1>2, <1>3, <2>1, OnlyStartWhenDown
<1>4. CASE up' = up /\ up
  BY <1>4 DEF DownInv
<1> QED
  BY <1>1, <1>2, <1>3, <1>4, UpStep

-----------------------------------------------------------------------------
(***************************************************************************)
(* A step that sets one coroutine keeps RenewalCovered if every            *)
(* certificate that it makes VALID, or whose cover it takes away, has its  *)
(* cover afterwards or is recorded as disturbed.                           *)
(***************************************************************************)
Secured(c) == c \in disturbed' \/ Covered(c)'

\* One coroutine s is set; jobs may leave the schedule as well.
LEMMA CoverKept ==
    ASSUME TypeOK, RenewalCovered, up' = up, disturbed \subseteq disturbed',
           NEW s \in Slots, Sets(s),
           \A c \in Certs : row'[c].status = "valid" =>
               row[c].status = "valid" \/ Secured(c),
           \A c \in Certs : row'[c].status = "valid" =>
               Secured(c) \/ ~(task[s].cert = c /\ task[s].pc \in CoverPoint),
           \A j \in jobs : j \in jobs' \/ Secured(j[2])
    PROVE  RenewalCovered'
<1>1. PICK t : task' = [task EXCEPT ![s] = t]
  BY DEF Sets
<1> SUFFICES ASSUME NEW c \in Certs, up, row'[c].status = "valid",
                    c \notin disturbed', ~Covered(c)'
             PROVE  FALSE
  BY DEF RenewalCovered
<1>2. ~Secured(c) /\ row[c].status = "valid" /\ c \notin disturbed
  BY DEF Secured
<1>3. \A k \in JobKind : <<k, c>> \notin jobs
  BY <1>2 DEF Covered
<1>4. PICK r \in Slots : task[r].cert = c /\ task[r].pc \in CoverPoint
  BY <1>2, <1>3 DEF RenewalCovered, Covered, Busy
<1>5. r # s
  BY <1>2, <1>4
<1>6. task'[r] = task[r]
  BY <1>1, <1>5 DEF TypeOK, TaskTypeOK
<1> QED
  BY <1>4, <1>6 DEF Covered, Busy

\* Most steps make no certificate VALID and set no coroutine that covers one.
LEMMA CoverUntouched ==
    ASSUME TypeOK, RenewalCovered, up' = up, disturbed \subseteq disturbed',
           NEW s \in Slots, Sets(s), task[s].pc \notin CoverPoint,
           \A c \in Certs : row'[c].status = "valid" => row[c].status = "valid",
           jobs \subseteq jobs'
    PROVE  RenewalCovered'
BY CoverKept

\* Every step keeps RenewalCovered.
LEMMA CoverStep ==
    ASSUME HeldInv, DownInv, RemoveInv, RenewalCovered, [Next]_vars
    PROVE  RenewalCovered'
<1> USE DEF Slots
<1>t. TypeOK /\ row \in [Certs -> Row] /\ task \in [Slots -> Task]
  BY DEF HeldInv, TypeOK, TaskTypeOK
<1>a. \A s \in Slots : task[s].pc # "idle" => task[s].cert \in Certs
  BY DEF HeldInv, TypeOK, TaskTypeOK
<1>1. ASSUME NEW w \in Workers, Request(w)
      PROVE  RenewalCovered'
  <2>1. Sets(w) /\ task[w].pc \notin CoverPoint
    BY <1>1, RequestBegins DEF Begin, Sets, CoverPoint
  <2> QED
    BY <1>1, <1>t, <2>1, RequestBegins, CoverUntouched
<1>2. ASSUME NEW w \in Workers, Handler(w), ~DeleteRemove(w)
      PROVE  RenewalCovered'
  <2>1. Sets(w) /\ task[w].pc \notin CoverPoint
    BY <1>2 DEF Handler, CreateInsert, CreateCollides, AuthorizeReady,
       AuthorizeIssue, ReleaseAct, ReleaseRefused, DeleteWrite,
       SelectSchedule, Goto, Finish, Sets, CoverPoint
  <2>2. up' = up /\ jobs \subseteq jobs' /\ disturbed \subseteq disturbed'
    BY <1>2 DEF Handler, CreateInsert, CreateCollides, AuthorizeReady,
       AuthorizeIssue, ReleaseAct, ReleaseRefused, DeleteWrite,
       SelectSchedule
  <2>3. \A c \in Certs : row'[c].status = "valid" => row[c].status = "valid"
    BY <1>2, <1>t, <1>a
       DEF Handler, CreateInsert, CreateCollides, AuthorizeReady,
           AuthorizeIssue, ReleaseAct, ReleaseRefused, DeleteWrite,
           SelectSchedule, SetStatus, BlindStatus, HeldInv, ArgsInv, ArgsOK, Row
  <2> QED
    BY <1>t, <2>1, <2>2, <2>3, CoverUntouched
<1>3. ASSUME NEW w \in Workers, DeleteRemove(w)
      PROVE  RenewalCovered'
  <2>1. Sets(w) /\ task[w].pc \notin CoverPoint
    BY <1>3 DEF DeleteRemove, Finish, Sets, CoverPoint
  <2>2. UNCHANGED <<row, up, disturbed>>
    BY <1>3 DEF DeleteRemove
  <2>3. \A j \in jobs : j \in jobs' \/ Secured(j[2])
    BY <1>3 DEF DeleteRemove, RemoveInv, Secured
  <2> QED
    BY <1>t, <2>1, <2>2, <2>3, CoverKept
<1>4. ASSUME NEW s \in Slots, Issuer(s), ~IssueSucceeds(s), ~IssueSchedule(s)
      PROVE  RenewalCovered'
  <2>1. Sets(s) /\ task[s].pc \notin CoverPoint
    BY <1>4 DEF Issuer, IssueRead, IssueClaim, ReleasedClaim, PersistRead,
       IssueFails, Goto, Finish, Sets, CoverPoint
  <2>2. UNCHANGED <<up, jobs, disturbed>>
    BY <1>4 DEF Issuer, IssueRead, IssueClaim, ReleasedClaim, PersistRead,
       IssueFails
  <2>3. \A c \in Certs : row'[c].status = "valid" => row[c].status = "valid"
    BY <1>4, <1>t, <1>a DEF Issuer, IssueRead, IssueClaim, ReleasedClaim,
       PersistRead, IssueFails, SetStatus, BlindStatus, Row
  <2> QED
    BY <1>t, <2>1, <2>2, <2>3, CoverUntouched
<1>5. ASSUME NEW s \in Slots, IssueSucceeds(s)
      PROVE  RenewalCovered'
  <2>1. Sets(s) /\ task[s].pc \notin CoverPoint
    BY <1>5 DEF IssueSucceeds, Goto, Finish, Sets, CoverPoint
  <2>2. UNCHANGED <<up, jobs, disturbed>>
    BY <1>5 DEF IssueSucceeds
  <2>3. ASSUME NEW c \in Certs, row'[c].status = "valid",
               row[c].status # "valid"
        PROVE  Secured(c)
    <3>1. c = task[s].cert /\ Goto(s, "issue.schedule")
      BY <1>5, <1>t, <1>a, <2>3 DEF IssueSucceeds, SetStatus, Row
    <3>2. task'[s].cert = c /\ task'[s].pc = "issue.schedule"
      BY <3>1, <1>t DEF Goto, At
    <3> QED
      BY <3>2 DEF Secured, Covered, Busy, CoverPoint
  <2> QED
    BY <1>t, <2>1, <2>2, <2>3, CoverKept
<1>6. ASSUME NEW s \in Slots,
             \/ IssueSchedule(s)
             \/ s \in Workers /\ RenewSchedule(s)
      PROVE  RenewalCovered'
  <2>1. Sets(s)
    BY <1>6 DEF IssueSchedule, RenewSchedule, Finish, Sets
  <2>2. /\ UNCHANGED <<row, up, disturbed>>
        /\ jobs' = jobs \union {<<"renew", task[s].cert>>}
    BY <1>6 DEF IssueSchedule, RenewSchedule
  <2>3. \A c \in Certs : c = task[s].cert => Secured(c)
    <3>1. "renew" \in JobKind /\ <<"renew", task[s].cert>> \in jobs'
      BY <2>2 DEF JobKind
    <3> QED
      BY <3>1 DEF Secured, Covered
  <2> QED
    BY <1>t, <2>1, <2>2, <2>3, CoverKept
<1>7. ASSUME NEW s \in Slots, TaskRaises(s)
      PROVE  RenewalCovered'
  <2>1. /\ Sets(s) /\ disturbed \subseteq disturbed'
        /\ \A c \in Certs : c = task[s].cert => Secured(c)
    BY <1>7 DEF TaskRaises, Finish, Sets, Secured
  <2>2. UNCHANGED <<row, up, jobs>>
    BY <1>7 DEF TaskRaises
  <2> QED
    BY <1>t, <2>1, <2>2, CoverKept
<1>8. ASSUME ResumeSnapshot
      PROVE  RenewalCovered'
  BY <1>8 DEF ResumeSnapshot, RenewalCovered, Covered, Busy
<1>9. ASSUME NEW x \in resume, ResumeNext(x)
      PROVE  RenewalCovered'
  <2>1. Sets(Recovery) /\ task[Recovery].pc \notin CoverPoint
    BY <1>9 DEF ResumeNext, Begin, Sets, CoverPoint
  <2>2. UNCHANGED <<row, up, jobs, disturbed>>
    BY <1>9 DEF ResumeNext
  <2> QED
    BY <1>t, <2>1, <2>2, CoverUntouched
<1>10. ASSUME Stop
      PROVE  RenewalCovered'
  BY <1>10 DEF Stop, RenewalCovered
<1>11. ASSUME Start
      PROVE  RenewalCovered'
  <2>1. ASSUME NEW c \in Certs, row'[c].status = "valid"
        PROVE  <<"renew", c>> \in jobs' /\ "renew" \in JobKind
    BY <1>11, <2>1 DEF Start, JobKind
  <2> QED
    BY <2>1 DEF RenewalCovered, Covered
<1>12. ASSUME NEW w \in Workers, NEW j \in jobs, JobFires(w, j)
      PROVE  RenewalCovered'
  <2>1. Sets(w) /\ task[w].pc \notin CoverPoint
    BY <1>12 DEF JobFires, Begin, Sets, CoverPoint
  <2>2. UNCHANGED <<row, up, disturbed>> /\ jobs' = jobs \ {j}
    BY <1>12 DEF JobFires
  <2>3. task'[w].cert = j[2] /\ task'[w].pc = "renew.start"
    BY <1>12, <1>t DEF JobFires, Begin, At
  <2>4. Secured(j[2])
    BY <2>3 DEF Secured, Covered, Busy, CoverPoint
  <2> QED
    BY <1>t, <2>1, <2>2, <2>4, CoverKept
<1>13. ASSUME NEW j \in jobs, JobSkipped(j) \/ JobMissed(j)
      PROVE  RenewalCovered'
  <2>1. Sets(Recovery) /\ task[Recovery]' = task[Recovery]
    <3>1. task' = [task EXCEPT ![Recovery] = task[Recovery]]
      BY <1>13, <1>t DEF JobSkipped, JobMissed
    <3> QED
      BY <3>1, <1>13 DEF Sets, JobSkipped, JobMissed
  <2>2. /\ UNCHANGED <<row, task, up>>
        /\ jobs' = jobs \ {j}
        /\ disturbed' = disturbed \union {j[2]}
    BY <1>13 DEF JobSkipped, JobMissed
  <2>3. Secured(j[2])
    BY <2>2 DEF Secured
  <2>4. \A c \in Certs :
            task[Recovery].cert = c /\ task[Recovery].pc \in CoverPoint
                => Secured(c)
    BY <2>2 DEF Secured, Covered, Busy
  <2> QED
    BY <1>t, <2>1, <2>2, <2>3, <2>4, CoverKept
<1>14. ASSUME NEW w \in Workers, NEW c \in Certs, ManualRenew(w, c)
      PROVE  RenewalCovered'
  <2>1. Sets(w) /\ task[w].pc \notin CoverPoint
    BY <1>14 DEF ManualRenew, Begin, Sets, CoverPoint
  <2>2. UNCHANGED <<row, up, jobs, disturbed>>
    BY <1>14 DEF ManualRenew
  <2> QED
    BY <1>t, <2>1, <2>2, CoverUntouched
<1>15. ASSUME NEW w \in Workers, RenewRead(w)
      PROVE  RenewalCovered'
  <2>1. Sets(w)
    BY <1>15, <1>t DEF RenewRead, Step, Finish, Sets
  <2>2. UNCHANGED <<row, up, jobs, disturbed>>
    BY <1>15 DEF RenewRead
  <2>3. \A c \in Certs : c = task[w].cert /\ row[c].status = "valid"
            => Secured(c)
    <3>1. row[task[w].cert].status = "valid" =>
              task'[w].cert = task[w].cert /\ task'[w].pc = "renew.claim"
      BY <1>15, <1>t DEF RenewRead, Step, Task
    <3> QED
      BY <3>1 DEF Secured, Covered, Busy, CoverPoint
  <2> QED
    BY <1>t, <2>1, <2>2, <2>3, CoverKept
<1>16. ASSUME NEW w \in Workers,
              RenewClaim(w) \/ RenewSucceeds(w) \/ RenewFailsTransiently(w)
      PROVE  RenewalCovered'
  <2>1. Sets(w)
    BY <1>16, <1>t, RenewerSets DEF Renewer
  <2>2. UNCHANGED <<up, jobs, disturbed>>
    BY <1>16 DEF RenewClaim, RenewSucceeds, RenewFailsTransiently
  <2>3. task'[w].cert = task[w].cert /\ task'[w].pc \in CoverPoint
    BY <1>16, <1>t DEF RenewClaim, RenewSucceeds, RenewFailsTransiently, Step,
       Task, CoverPoint
  <2>4. \A c \in Certs : c = task[w].cert => Secured(c)
    BY <2>3 DEF Secured, Covered, Busy
  <2>5. \A c \in Certs : c # task[w].cert => row'[c] = row[c]
    BY <1>16, <1>t, <1>a
       DEF RenewClaim, RenewSucceeds, RenewFailsTransiently, BlindStatus
  <2> QED
    BY <1>t, <2>1, <2>2, <2>4, <2>5, CoverKept
<1>17. ASSUME NEW w \in Workers, RenewRetries(w)
      PROVE  RenewalCovered'
  <2>1. Sets(w)
    BY <1>17, <1>t DEF RenewRetries, Step, Sets
  <2>2. /\ UNCHANGED <<up, disturbed>>
        /\ jobs' = jobs \union {<<"retry", task[w].cert>>}
    BY <1>17 DEF RenewRetries
  <2>3. \A c \in Certs : c = task[w].cert => Secured(c)
    <3>1. "retry" \in JobKind /\ <<"retry", task[w].cert>> \in jobs'
      BY <2>2 DEF JobKind
    <3> QED
      BY <3>1 DEF Secured, Covered
  <2>4. \A c \in Certs : c # task[w].cert => row'[c] = row[c]
    BY <1>17, <1>t, <1>a DEF RenewRetries, BlindStatus
  <2> QED
    BY <1>t, <2>1, <2>2, <2>3, <2>4, CoverKept
<1>18. ASSUME NEW w \in Workers, RenewGivesUp(w)
      PROVE  RenewalCovered'
  <2>1. Sets(w)
    BY <1>18, <1>t DEF RenewGivesUp, Step, Sets
  <2>2. UNCHANGED <<up, jobs, disturbed>>
    BY <1>18 DEF RenewGivesUp
  <2>3. /\ row'[task[w].cert].status # "valid"
        /\ \A c \in Certs : c # task[w].cert => row'[c] = row[c]
    BY <1>18, <1>t, <1>a DEF RenewGivesUp, BlindStatus, Row
  <2> QED
    BY <1>t, <2>1, <2>2, <2>3, CoverKept
<1>19. ASSUME NEW w \in Workers, RenewNotified(w)
      PROVE  RenewalCovered'
  <2>1. Sets(w) /\ task[w].pc \notin CoverPoint
    BY <1>19 DEF RenewNotified, Finish, Sets, CoverPoint
  <2>2. UNCHANGED <<row, up, jobs, disturbed>>
    BY <1>19 DEF RenewNotified
  <2> QED
    BY <1>t, <2>1, <2>2, CoverUntouched
<1>20. CASE UNCHANGED vars
  BY <1>20 DEF vars, RenewalCovered, Covered, Busy
<1>21. ASSUME NEW w \in Workers, Handler(w) PROVE RenewalCovered'
  BY <1>2, <1>3, <1>21
<1>22. ASSUME NEW s \in Slots, Issuer(s) PROVE RenewalCovered'
  BY <1>4, <1>5, <1>6, <1>22
<1>23. ASSUME NEW w \in Workers, Renewer(w) PROVE RenewalCovered'
  BY <1>6, <1>15, <1>16, <1>17, <1>18, <1>19, <1>23 DEF Renewer
<1> QED
  BY <1>1, <1>7, <1>8, <1>9, <1>10, <1>11, <1>12, <1>13, <1>14, <1>20,
     <1>21, <1>22, <1>23
     DEF Next, ServiceNext, SchedulerNext, Resume, Jobs

(***************************************************************************)
(* RemoveInv is kept: only the write of a deletion leads to the removal,   *)
(* and only a start, which finds every coroutine idle, forgets what was    *)
(* disturbed.                                                              *)
(***************************************************************************)
LEMMA RemoveKept ==
    ASSUME TypeOK, RemoveInv, NEW s \in Slots, disturbed \subseteq disturbed',
           Sets(s), task'[s].pc # "delete.remove"
    PROVE  RemoveInv'
BY DEF RemoveInv, Sets, TypeOK, TaskTypeOK

\* Every step keeps RemoveInv.
LEMMA RemoveStep ==
    ASSUME TypeOK, DownInv, RemoveInv, [Next]_vars
    PROVE  RemoveInv'
<1> USE DEF Slots
<1>t. task \in [Slots -> Task]
  BY DEF TypeOK, TaskTypeOK
<1>1. ASSUME NEW w \in Workers, Request(w)
      PROVE  RemoveInv'
  <2>1. Sets(w) /\ task'[w].pc # "delete.remove"
    BY <1>1, <1>t, RequestBegins DEF Requested, RequestPoint, Begin, Sets
  <2> QED
    BY <1>1, <2>1, RequestBegins, RemoveKept
<1>2. ASSUME NEW w \in Workers, Handler(w), ~DeleteWrite(w)
      PROVE  RemoveInv'
  <2>1. Sets(w) /\ task'[w].pc # "delete.remove"
    BY <1>2, <1>t, IdleType DEF Handler, CreateInsert, CreateCollides,
       AuthorizeReady, AuthorizeIssue, ReleaseAct, ReleaseRefused,
       DeleteRemove, SelectSchedule, Goto, Finish, Sets, At
  <2>2. disturbed' = disturbed
    BY <1>2 DEF Handler, CreateInsert, CreateCollides, AuthorizeReady,
       AuthorizeIssue, ReleaseAct, ReleaseRefused, DeleteRemove,
       SelectSchedule
  <2> QED
    BY <2>1, <2>2, RemoveKept
<1>3. ASSUME NEW w \in Workers, DeleteWrite(w)
      PROVE  RemoveInv'
  <2>1. task'[w].cert \in disturbed' /\ disturbed \subseteq disturbed'
    BY <1>3, <1>t DEF DeleteWrite, Goto, At
  <2>2. \A s \in Slots : s # w => task'[s] = task[s]
    BY <1>3, <1>t DEF DeleteWrite, Goto
  <2> QED
    BY <2>1, <2>2 DEF RemoveInv
<1>4. ASSUME NEW s \in Slots, Issuer(s) \/ TaskRaises(s)
      PROVE  RemoveInv'
  <2>1. Sets(s) /\ task'[s].pc # "delete.remove"
    BY <1>4, <1>t, IdleType DEF Issuer, IssueRead, IssueClaim, ReleasedClaim,
       PersistRead, IssueSucceeds, IssueFails, IssueSchedule, TaskRaises,
       Goto, Finish, Sets, At
  <2>2. disturbed \subseteq disturbed'
    BY <1>4 DEF Issuer, IssueRead, IssueClaim, ReleasedClaim, PersistRead,
       IssueSucceeds, IssueFails, IssueSchedule, TaskRaises
  <2> QED
    BY <2>1, <2>2, RemoveKept
<1>5. ASSUME NEW w \in Workers, Renewer(w)
      PROVE  RemoveInv'
  <2>1. task'[w].pc # "delete.remove"
    BY <1>5, <1>t, IdleType DEF Renewer, RenewRead, RenewClaim, RenewSucceeds,
       RenewSchedule, RenewFailsTransiently, RenewRetries, RenewGivesUp,
       RenewNotified, Step, Finish, Task
  <2>2. \A s \in Slots : s # w => task'[s] = task[s]
    BY <1>5, <1>t DEF Renewer, RenewRead, RenewClaim, RenewSucceeds,
       RenewSchedule, RenewFailsTransiently, RenewRetries, RenewGivesUp,
       RenewNotified, Step, Finish
  <2>3. disturbed' = disturbed
    BY <1>5 DEF Renewer, RenewRead, RenewClaim, RenewSucceeds,
       RenewSchedule, RenewFailsTransiently, RenewRetries, RenewGivesUp,
       RenewNotified
  <2> QED
    BY <2>1, <2>2, <2>3 DEF RemoveInv
<1>6. CASE Resume
  <2>1. CASE ResumeSnapshot
    BY <2>1 DEF ResumeSnapshot, RemoveInv
  <2>2. ASSUME NEW x \in resume, ResumeNext(x)
        PROVE  RemoveInv'
    <3>1. Sets(Recovery) /\ task'[Recovery].pc # "delete.remove"
      BY <2>2, <1>t DEF ResumeNext, Begin, Sets, At
    <3> QED
      BY <2>2, <3>1, RemoveKept DEF ResumeNext
  <2> QED
    BY <1>6, <2>1, <2>2 DEF Resume
<1>7. CASE Stop \/ Start
  <2>1. \A s \in Slots : task'[s].pc = "idle"
    BY <1>7, IdleType DEF Stop, Start, DownInv
  <2> QED
    BY <2>1 DEF RemoveInv
<1>8. ASSUME NEW w \in Workers, NEW j \in jobs, JobFires(w, j)
      PROVE  RemoveInv'
  <2>1. Sets(w) /\ task'[w].pc # "delete.remove"
    BY <1>8, <1>t DEF JobFires, Begin, Sets, At
  <2> QED
    BY <1>8, <2>1, RemoveKept DEF JobFires
<1>9. ASSUME NEW w \in Workers, NEW c \in Certs, ManualRenew(w, c)
      PROVE  RemoveInv'
  <2>1. Sets(w) /\ task'[w].pc # "delete.remove"
    BY <1>9, <1>t DEF ManualRenew, Begin, Sets, At
  <2> QED
    BY <1>9, <2>1, RemoveKept DEF ManualRenew
<1>10. ASSUME NEW j \in jobs, JobSkipped(j) \/ JobMissed(j)
      PROVE  RemoveInv'
  BY <1>10 DEF JobSkipped, JobMissed, RemoveInv
<1>11. CASE UNCHANGED vars
  BY <1>11 DEF vars, RemoveInv
<1> QED
  BY <1>1, <1>2, <1>3, <1>4, <1>5, <1>6, <1>7, <1>8, <1>9, <1>10, <1>11
     DEF Next, ServiceNext, SchedulerNext, Jobs

(***************************************************************************)
(* A VALID certificate never drops off the renewal schedule: a start       *)
(* rebuilds its job, an issuance and a renewal add one before their        *)
(* coroutine ends, and a job that leaves the schedule is run.              *)
(***************************************************************************)
THEOREM RenewalsAreCovered == Spec => []RenewalCovered
<1> DEFINE CoverInv == HeldInv /\ DownInv /\ RemoveInv /\ RenewalCovered
<1>1. Init => CoverInv
  BY HeldInit, IdleType DEF Init, DownInv, RemoveInv, RenewalCovered
<1>2. CoverInv /\ [Next]_vars => CoverInv'
  BY HeldStep, DownStep, RemoveStep, CoverStep DEF HeldInv
<1>3. CoverInv => RenewalCovered
  OBVIOUS
<1> QED
  BY <1>1, <1>2, <1>3, PTL DEF Spec

-----------------------------------------------------------------------------
(***************************************************************************)
(* A step that sets one coroutine keeps ReleasedNotOrphaned if a released  *)
(* request that is unsettled after it was so before, by the same status,   *)
(* and the coroutine was not the one to act on it; or if the coroutine is  *)
(* the one now.                                                            *)
(***************************************************************************)
Pursues(s, c, status) == task[s].cert = c /\ task[s].pc \in PursuitPoint(status)

Unsettling(c) ==
    /\ row'[c].key # NoKey
    /\ row'[c].status \in {"released", "issuing"}
    /\ c \notin disturbed'

\* One coroutine s is set; the recovery task may lose entries as well.
LEMMA PursuitKept ==
    ASSUME TypeOK, ReleasedNotOrphaned, up' = up,
           disturbed \subseteq disturbed', recoveryDue' = recoveryDue,
           NEW s \in Slots, Sets(s),
           \A c \in Persist : Unsettling(c) =>
               \/ /\ task'[s].cert = c
                  /\ task'[s].pc \in PursuitPoint(row'[c].status)
               \/ /\ row[c].key # NoKey
                  /\ row[c].status = row'[c].status
                  /\ ~Pursues(s, c, row[c].status)
                  /\ <<c, row[c].status>> \in resume =>
                         <<c, row[c].status>> \in resume'
    PROVE  ReleasedNotOrphaned'
<1> SUFFICES ASSUME NEW c \in Persist, up, Unsettling(c)
             PROVE  Pursued(c)'
  BY DEF ReleasedNotOrphaned, Unsettling
<1>1. PICK t : task' = [task EXCEPT ![s] = t]
  BY DEF Sets
<1>2. CASE task'[s].cert = c /\ task'[s].pc \in PursuitPoint(row'[c].status)
  BY <1>2 DEF Pursued, Busy, PursuitPoint
<1>3. CASE /\ row[c].key # NoKey
           /\ row[c].status = row'[c].status
           /\ ~Pursues(s, c, row[c].status)
           /\ <<c, row[c].status>> \in resume =>
                  <<c, row[c].status>> \in resume'
  <2>1. Pursued(c)
    BY <1>3 DEF ReleasedNotOrphaned, Unsettling
  <2>2. CASE recoveryDue \/ <<c, row[c].status>> \in resume
    BY <1>3, <2>2 DEF Pursued
  <2>3. CASE Busy(c, PursuitPoint(row[c].status))
    <3>1. PICK r \in Slots : Pursues(r, c, row[c].status)
      BY <2>3 DEF Busy, Pursues
    <3>2. task'[r] = task[r]
      BY <1>1, <1>3, <3>1 DEF TypeOK, TaskTypeOK
    <3> QED
      BY <1>3, <3>1, <3>2 DEF Pursued, Busy, Pursues, PursuitPoint
  <2> QED
    BY <2>1, <2>2, <2>3 DEF Pursued
<1> QED
  BY <1>2, <1>3

\* Most steps leave the rows, or write a status that settles the request,
\* and set a coroutine that pursued nothing.
LEMMA PursuitUntouched ==
    ASSUME TypeOK, ReleasedNotOrphaned, up' = up,
           disturbed \subseteq disturbed', recoveryDue' = recoveryDue,
           resume' = resume,
           NEW s \in Slots, Sets(s),
           task[s].pc \notin {"released.claim", "persist.start",
                              "issue.backend"},
           \A c \in Persist : Unsettling(c) =>
               row[c].key # NoKey /\ row[c].status = row'[c].status
    PROVE  ReleasedNotOrphaned'
BY PursuitKept DEF Pursues, PursuitPoint

\* Every step keeps ReleasedNotOrphaned.
LEMMA PursuitStep ==
    ASSUME HeldInv, ReleasedNotOrphaned, [Next]_vars
    PROVE  ReleasedNotOrphaned'
<1> USE PersistAssumption DEF Slots
<1>t. TypeOK /\ row \in [Certs -> Row] /\ task \in [Slots -> Task]
  BY DEF HeldInv, TypeOK, TaskTypeOK
<1>a. \A s \in Slots : task[s].pc # "idle" => task[s].cert \in Certs
  BY DEF HeldInv, TypeOK, TaskTypeOK
<1>1. ASSUME NEW w \in Workers, Request(w)
      PROVE  ReleasedNotOrphaned'
  <2>1. Sets(w) /\ task[w].pc = "idle"
    BY <1>1, RequestBegins DEF Begin, Sets
  <2> QED
    BY <1>1, <1>t, <2>1, RequestBegins, PursuitUntouched DEF Unsettling
<1>2. ASSUME NEW w \in Workers,
             \/ CreateInsert(w) \/ CreateCollides(w) \/ AuthorizeReady(w)
             \/ ReleaseRefused(w) \/ DeleteWrite(w) \/ DeleteRemove(w)
             \/ SelectSchedule(w)
      PROVE  ReleasedNotOrphaned'
  <2>1. Sets(w) /\ task[w].pc \notin {"released.claim", "persist.start",
                                       "issue.backend"}
    BY <1>2 DEF CreateInsert, CreateCollides, AuthorizeReady, ReleaseRefused,
       DeleteWrite, DeleteRemove, SelectSchedule, Goto, Finish, Sets
  <2>2. /\ UNCHANGED <<up, recoveryDue, resume>>
        /\ disturbed \subseteq disturbed'
    BY <1>2 DEF CreateInsert, CreateCollides, AuthorizeReady, ReleaseRefused,
       DeleteWrite, DeleteRemove, SelectSchedule
  <2>3. ASSUME NEW c \in Persist, Unsettling(c)
        PROVE  row[c].key # NoKey /\ row[c].status = row'[c].status
    BY <1>2, <1>t, <1>a, <2>3 DEF CreateInsert, CreateCollides, AuthorizeReady,
       ReleaseRefused, DeleteWrite, DeleteRemove, SelectSchedule, BlindStatus,
       Unsettling, HeldInv, ArgsInv, ArgsOK, Row
  <2> QED
    BY <1>t, <2>1, <2>2, <2>3, PursuitUntouched
<1>3. ASSUME NEW w \in Workers, AuthorizeIssue(w)
      PROVE  ReleasedNotOrphaned'
  <2>1. Sets(w) /\ task[w].pc = "authorize.act"
    BY <1>3 DEF AuthorizeIssue, Goto, Finish, Sets
  <2>2. UNCHANGED <<up, recoveryDue, resume, disturbed>>
    BY <1>3 DEF AuthorizeIssue
  <2>3. CASE row[task[w].cert].status \in {"pending_dns", "failed"}
    <3>1. /\ row' = [row EXCEPT ![task[w].cert].status = "issuing"]
          /\ task'[w].cert = task[w].cert
          /\ task'[w].pc = "persist.start"
      BY <1>3, <1>t, <2>3 DEF AuthorizeIssue, SetStatus, Goto, At
    <3>2. \A c \in Persist : c # task[w].cert => row'[c] = row[c]
      BY <3>1, <1>t
    <3>3. row'[task[w].cert].status = "issuing"
      BY <3>1, <1>t, <1>a, <2>1 DEF Row
    <3> QED
      BY <1>t, <2>1, <2>2, <3>1, <3>2, <3>3, PursuitKept
         DEF Unsettling, Pursues, PursuitPoint
  <2>4. CASE row[task[w].cert].status \notin {"pending_dns", "failed"}
    BY <1>3, <1>t, <2>1, <2>2, <2>4, PursuitUntouched
       DEF AuthorizeIssue, Unsettling
  <2> QED
    BY <2>3, <2>4
<1>4. ASSUME NEW w \in Workers, ReleaseAct(w)
      PROVE  ReleasedNotOrphaned'
  <2>1. /\ Sets(w) /\ task[w].pc = "release.act"
        /\ task'[w].cert = task[w].cert /\ task'[w].pc = "released.claim"
    BY <1>4, <1>t DEF ReleaseAct, Goto, At, Sets
  <2>2. UNCHANGED <<up, recoveryDue, resume, disturbed>>
    BY <1>4 DEF ReleaseAct
  <2>3. /\ row'[task[w].cert].status = "released"
        /\ \A c \in Persist : c # task[w].cert => row'[c] = row[c]
    BY <1>4, <1>t, <1>a DEF ReleaseAct
  <2> QED
    BY <1>t, <2>1, <2>2, <2>3, PursuitKept DEF Unsettling, Pursues, PursuitPoint
<1>5. ASSUME NEW s \in Slots, IssueRead(s) \/ IssueSchedule(s)
      PROVE  ReleasedNotOrphaned'
  <2>1. /\ Sets(s)
        /\ task[s].pc \notin {"released.claim", "persist.start",
                              "issue.backend"}
    BY <1>5 DEF IssueRead, IssueSchedule, Goto, Finish, Sets
  <2>2. UNCHANGED <<row, up, recoveryDue, resume, disturbed>>
    BY <1>5 DEF IssueRead, IssueSchedule
  <2> QED
    BY <1>t, <2>1, <2>2, PursuitUntouched DEF Unsettling
<1>6. ASSUME NEW s \in Slots, IssueClaim(s)
      PROVE  ReleasedNotOrphaned'
  <2>1. /\ Sets(s) /\ task[s].pc = "issue.claim"
        /\ task'[s].cert = task[s].cert /\ task'[s].pc = "issue.backend"
    BY <1>6, <1>t DEF IssueClaim, Goto, At, Sets
  <2>2. UNCHANGED <<up, recoveryDue, resume, disturbed>>
    BY <1>6 DEF IssueClaim
  <2>3. /\ row'[task[s].cert].status = "issuing"
        /\ \A c \in Persist : c # task[s].cert => row'[c] = row[c]
    BY <1>6, <1>t, <1>a DEF IssueClaim, BlindStatus, Row
  <2> QED
    BY <1>t, <2>1, <2>2, <2>3, PursuitKept DEF Unsettling, Pursues, PursuitPoint
<1>7. ASSUME NEW s \in Slots, ReleasedClaim(s)
      PROVE  ReleasedNotOrphaned'
  <2>1. Sets(s) /\ task[s].pc = "released.claim"
    BY <1>7 DEF ReleasedClaim, Goto, Finish, Sets
  <2>2. UNCHANGED <<up, recoveryDue, resume, disturbed>>
    BY <1>7 DEF ReleasedClaim
  <2>3. CASE row[task[s].cert].status = "released"
    <3>1. /\ row' = [row EXCEPT ![task[s].cert].status = "issuing"]
          /\ task'[s].cert = task[s].cert
          /\ task'[s].pc = "issue.backend"
      BY <1>7, <1>t, <2>3 DEF ReleasedClaim, SetStatus, Goto, At
    <3>2. \A c \in Persist : c # task[s].cert => row'[c] = row[c]
      BY <3>1, <1>t
    <3>3. row'[task[s].cert].status = "issuing"
      BY <3>1, <1>t, <1>a, <2>1 DEF Row
    <3> QED
      BY <1>t, <2>1, <2>2, <3>1, <3>2, <3>3, PursuitKept
         DEF Unsettling, Pursues, PursuitPoint
  <2>4. CASE row[task[s].cert].status # "released"
    <3>1. row' = row
      BY <1>7, <2>4 DEF ReleasedClaim
    <3> QED
      BY <1>t, <2>1, <2>2, <2>4, <3>1, PursuitKept
         DEF Unsettling, Pursues, PursuitPoint
  <2> QED
    BY <2>3, <2>4
<1>8. ASSUME NEW s \in Slots, PersistRead(s)
      PROVE  ReleasedNotOrphaned'
  <2>1. Sets(s) /\ task[s].pc = "persist.start"
    BY <1>8 DEF PersistRead, Goto, Finish, Sets
  <2>2. UNCHANGED <<row, up, recoveryDue, resume, disturbed>>
    BY <1>8 DEF PersistRead
  <2>3. row[task[s].cert].status = "issuing" =>
            task'[s].cert = task[s].cert /\ task'[s].pc = "issue.backend"
    BY <1>8, <1>t DEF PersistRead, Goto, At
  <2> QED
    BY <1>t, <2>1, <2>2, <2>3, PursuitKept DEF Unsettling, Pursues, PursuitPoint
<1>9. ASSUME NEW s \in Slots, IssueSucceeds(s) \/ IssueFails(s)
      PROVE  ReleasedNotOrphaned'
  <2>1. Sets(s) /\ task[s].pc = "issue.backend"
    BY <1>9 DEF IssueSucceeds, IssueFails, Goto, Finish, Sets
  <2>2. UNCHANGED <<up, recoveryDue, resume, disturbed>>
    BY <1>9 DEF IssueSucceeds, IssueFails
  <2>3. /\ row'[task[s].cert].status # "issuing"
        /\ \/ row'[task[s].cert] = row[task[s].cert]
           \/ row'[task[s].cert].status # "released"
        /\ \A c \in Persist : c # task[s].cert => row'[c] = row[c]
    BY <1>9, <1>t, <1>a, <2>1 DEF IssueSucceeds, IssueFails, SetStatus, Row
  <2> QED
    BY <1>t, <2>1, <2>2, <2>3, PursuitKept DEF Unsettling, Pursues, PursuitPoint
<1>10. ASSUME NEW s \in Slots, TaskRaises(s)
      PROVE  ReleasedNotOrphaned'
  <2>1. /\ Sets(s) /\ task[s].cert \in disturbed'
        /\ UNCHANGED <<row, up, recoveryDue>>
        /\ disturbed \subseteq disturbed'
    BY <1>10 DEF TaskRaises, Finish, Sets
  <2>2. \A x \in resume : x \in resume' \/ x[1] \in disturbed'
    BY <1>10 DEF TaskRaises
  <2>3. \A c \in Persist : /\ <<c, row[c].status>>[1] = c
                           /\ Unsettling(c) => ~Pursues(s, c, row[c].status)
    BY <2>1 DEF Unsettling, Pursues
  <2>4. \A c \in Persist : Unsettling(c) =>
            (<<c, row[c].status>> \in resume =>
                 <<c, row[c].status>> \in resume')
    BY <2>2, <2>3 DEF Unsettling
  <2> QED
    BY <1>t, <2>1, <2>3, <2>4, PursuitKept DEF Unsettling
<1>11. ASSUME ResumeSnapshot
      PROVE  ReleasedNotOrphaned'
  <2>1. ASSUME NEW c \in Persist, Unsettling(c)
        PROVE  <<c, row[c].status>> \in resume'
    BY <1>11, <2>1 DEF ResumeSnapshot, Resumable, Unsettling
  <2> QED
    BY <1>11, <2>1 DEF ResumeSnapshot, ReleasedNotOrphaned, Pursued, Unsettling
<1>12. ASSUME NEW x \in resume, ResumeNext(x)
      PROVE  ReleasedNotOrphaned'
  <2>1. /\ Sets(Recovery) /\ task[Recovery].pc = "idle"
        /\ task'[Recovery].cert = x[1]
        /\ task'[Recovery].pc \in PursuitPoint(x[2])
    BY <1>12, <1>t DEF ResumeNext, Begin, Sets, At, PursuitPoint
  <2>2. /\ UNCHANGED <<row, up, recoveryDue, disturbed>>
        /\ resume' = resume \ {x}
    BY <1>12 DEF ResumeNext
  <2>3. ASSUME NEW c \in Persist, <<c, row[c].status>> \in resume,
               <<c, row[c].status>> \notin resume'
        PROVE  /\ task'[Recovery].cert = c
               /\ task'[Recovery].pc \in PursuitPoint(row'[c].status)
    <3>1. x = <<c, row[c].status>>
      BY <2>2, <2>3
    <3>2. x[1] = c /\ x[2] = row'[c].status
      BY <2>2, <3>1
    <3> QED
      BY <2>1, <3>2
  <2> QED
    BY <1>t, <2>1, <2>2, <2>3, PursuitKept DEF Unsettling, Pursues, PursuitPoint
<1>13. CASE Stop \/ Start
  BY <1>13 DEF Stop, Start, ReleasedNotOrphaned, Pursued
<1>14. ASSUME NEW w \in Workers, NEW j \in jobs, JobFires(w, j)
      PROVE  ReleasedNotOrphaned'
  <2>1. Sets(w) /\ task[w].pc = "idle"
    BY <1>14 DEF JobFires, Begin, Sets
  <2> QED
    BY <1>14, <1>t, <2>1, PursuitUntouched DEF JobFires, Unsettling
<1>15. ASSUME NEW j \in jobs, JobSkipped(j) \/ JobMissed(j)
      PROVE  ReleasedNotOrphaned'
  <2>1. /\ UNCHANGED <<row, task, up, recoveryDue, resume>>
        /\ disturbed \subseteq disturbed'
    BY <1>15 DEF JobSkipped, JobMissed
  <2>2. \A c \in Persist : Pursued(c) => Pursued(c)'
    BY <2>1 DEF Pursued, Busy, PursuitPoint
  <2> QED
    BY <2>1, <2>2 DEF ReleasedNotOrphaned
<1>16. ASSUME NEW w \in Workers, NEW c \in Certs, ManualRenew(w, c)
      PROVE  ReleasedNotOrphaned'
  <2>1. Sets(w) /\ task[w].pc = "idle"
    BY <1>16 DEF ManualRenew, Begin, Sets
  <2> QED
    BY <1>16, <1>t, <2>1, PursuitUntouched DEF ManualRenew, Unsettling
<1>17. ASSUME NEW w \in Workers, Renewer(w)
      PROVE  ReleasedNotOrphaned'
  <2>1. task[w].pc \in RenewPoint
    BY <1>17 DEF Renewer, RenewRead, RenewClaim, RenewSucceeds, RenewSchedule,
       RenewFailsTransiently, RenewRetries, RenewGivesUp, RenewNotified,
       RenewPoint
  <2>2. Sets(w)
    BY <1>17, <1>t, RenewerSets
  <2>3. UNCHANGED <<up, recoveryDue, resume, disturbed>>
    BY <1>17 DEF Renewer, RenewRead, RenewClaim, RenewSucceeds, RenewSchedule,
       RenewFailsTransiently, RenewRetries, RenewGivesUp, RenewNotified
  <2>4. \/ row' = row
        \/ \E st \in {"renewing", "valid", "failed"} :
              row' = [row EXCEPT ![task[w].cert].status = st]
    BY <1>17 DEF Renewer, RenewRead, RenewClaim, RenewSucceeds, RenewSchedule,
       RenewFailsTransiently, RenewRetries, RenewGivesUp, RenewNotified,
       BlindStatus
  <2>5. \A c \in Persist : Unsettling(c) => row'[c] = row[c]
    BY <1>t, <1>a, <2>1, <2>4 DEF Unsettling, Row, RenewPoint
  <2> QED
    BY <1>t, <2>1, <2>2, <2>3, <2>5, PursuitUntouched
       DEF RenewPoint, Unsettling
<1>18. CASE UNCHANGED vars
  BY <1>18 DEF vars, ReleasedNotOrphaned, Pursued, Busy
<1>19. ASSUME NEW w \in Workers, Handler(w) PROVE ReleasedNotOrphaned'
  BY <1>2, <1>3, <1>4, <1>19 DEF Handler
<1>20. ASSUME NEW s \in Slots, Issuer(s) PROVE ReleasedNotOrphaned'
  BY <1>5, <1>6, <1>7, <1>8, <1>9, <1>20 DEF Issuer
<1> QED
  BY <1>1, <1>10, <1>11, <1>12, <1>13, <1>14, <1>15, <1>16, <1>17, <1>18,
     <1>19, <1>20
     DEF Next, ServiceNext, SchedulerNext, Resume, Jobs

(***************************************************************************)
(* No accepted release is orphaned, whatever else is in flight: each       *)
(* coroutine hands the request on to the next, and what a stop cuts short  *)
(* the snapshot of the next start finds.                                   *)
(***************************************************************************)
THEOREM ReleasesArePursued == Spec => []ReleasedNotOrphaned
<1> DEFINE PursuitInv == HeldInv /\ ReleasedNotOrphaned
<1>1. Init => PursuitInv
  BY HeldInit DEF Init, ReleasedNotOrphaned
<1>2. PursuitInv /\ [Next]_vars => PursuitInv'
  BY HeldStep, PursuitStep
<1>3. PursuitInv => ReleasedNotOrphaned
  OBVIOUS
<1> QED
  BY <1>1, <1>2, <1>3, PTL DEF Spec

-----------------------------------------------------------------------------
(***************************************************************************)
(* The service by itself.  Its steps are steps of the program, so that the *)
(* invariants proved so far hold of it.                                    *)
(***************************************************************************)
LEMMA ServiceIsPart == [ServiceNext]_vars => [Next]_vars
BY DEF Next

\* One coroutine s is set; the recovery task may lose entries as well.
LEMMA MethodKept ==
    ASSUME TypeOK, MethodInv, NEW s \in Slots, Sets(s), MethodOK(task'[s]),
           held' \subseteq Persist, resume' \subseteq resume
    PROVE  MethodInv'
<1>1. \A r \in Slots : r # s => task'[r] = task[r]
  BY DEF Sets, TypeOK, TaskTypeOK
<1>2. \A r \in Slots : MethodOK(task'[r])
  BY <1>1 DEF MethodInv
<1> QED
  BY <1>2 DEF MethodInv, MethodOK

\* Every step of the service keeps MethodInv.
LEMMA MethodStep ==
    ASSUME HeldInv, MethodInv, [ServiceNext]_vars
    PROVE  MethodInv'
<1> USE DEF Slots
<1>t. TypeOK /\ task \in [Slots -> Task]
  BY DEF HeldInv, TypeOK, TaskTypeOK
<1>h. held \subseteq Persist
  BY DEF MethodInv
<1>1. ASSUME NEW w \in Workers, Request(w)
      PROVE  MethodInv'
  <2>1. Sets(w) /\ MethodOK(task'[w])
    BY <1>1, <1>t, RequestBegins
       DEF Requested, RequestPoint, Begin, Sets, MethodOK
  <2> QED
    BY <1>1, <1>t, <1>h, <2>1, RequestBegins, MethodKept
<1>2. ASSUME NEW w \in Workers, Handler(w)
      PROVE  MethodInv'
  <2>1. MethodOK(task[w])
    BY DEF MethodInv
  <2>2. Sets(w)
    BY <1>2 DEF Handler, CreateInsert, CreateCollides, AuthorizeReady,
       AuthorizeIssue, ReleaseAct, ReleaseRefused, DeleteWrite, DeleteRemove,
       SelectSchedule, Goto, Finish, Sets
  <2>3. MethodOK(task'[w])
    BY <1>2, <1>t, <2>1, IdleType DEF Handler, CreateInsert, CreateCollides,
       AuthorizeReady, AuthorizeIssue, ReleaseAct, ReleaseRefused,
       DeleteWrite, DeleteRemove, SelectSchedule, Goto, Finish, At, MethodOK
  <2>4. held' \subseteq Persist /\ resume' = resume
    BY <1>2, <1>h, <2>1 DEF Handler, CreateInsert, CreateCollides,
       AuthorizeReady, AuthorizeIssue, ReleaseAct, ReleaseRefused,
       DeleteWrite, DeleteRemove, SelectSchedule, MethodOK
  <2> QED
    BY <1>t, <2>2, <2>3, <2>4, MethodKept
<1>3. ASSUME NEW s \in Slots, Issuer(s) \/ TaskRaises(s)
      PROVE  MethodInv'
  <2>1. MethodOK(task[s])
    BY DEF MethodInv
  <2>2. Sets(s)
    BY <1>3 DEF Issuer, IssueRead, IssueClaim, ReleasedClaim, PersistRead,
       IssueSucceeds, IssueFails, IssueSchedule, TaskRaises, Goto, Finish,
       Sets
  <2>3. MethodOK(task'[s])
    BY <1>3, <1>t, <2>1, IdleType DEF Issuer, IssueRead, IssueClaim,
       ReleasedClaim, PersistRead, IssueSucceeds, IssueFails, IssueSchedule,
       TaskRaises, Goto, Finish, At, MethodOK
  <2>4. held' = held /\ resume' \subseteq resume
    BY <1>3 DEF Issuer, IssueRead, IssueClaim, ReleasedClaim, PersistRead,
       IssueSucceeds, IssueFails, IssueSchedule, TaskRaises
  <2> QED
    BY <1>t, <1>h, <2>2, <2>3, <2>4, MethodKept
<1>4. CASE ResumeSnapshot
  <2>1. \A x \in resume' : x[1] \in Persist
    BY <1>4 DEF ResumeSnapshot, Resumable
  <2> QED
    BY <1>4, <2>1 DEF ResumeSnapshot, MethodInv, MethodOK
<1>5. ASSUME NEW x \in resume, ResumeNext(x)
      PROVE  MethodInv'
  <2>1. x[1] \in Persist
    BY DEF MethodInv
  <2>2. Sets(Recovery) /\ MethodOK(task'[Recovery])
    BY <1>5, <1>t, <2>1 DEF ResumeNext, Begin, Sets, At, MethodOK
  <2> QED
    BY <1>5, <1>t, <1>h, <2>2, MethodKept DEF ResumeNext
<1>6. CASE Stop \/ Start
  <2>1. \A s \in Slots : task'[s] = Idle \/ task'[s] = task[s]
    BY <1>6 DEF Stop, Start
  <2>2. held' = held /\ resume' \subseteq resume
    BY <1>6 DEF Stop, Start
  <2>3. \A s \in Slots : MethodOK(task'[s])
    BY <2>1, IdleType DEF MethodInv, MethodOK
  <2> QED
    BY <2>2, <2>3 DEF MethodInv, MethodOK
<1>7. CASE UNCHANGED vars
  BY <1>7 DEF vars, MethodInv, MethodOK
<1> QED
  BY <1>1, <1>2, <1>3, <1>4, <1>5, <1>6, <1>7 DEF ServiceNext, Resume

-----------------------------------------------------------------------------
(***************************************************************************)
(* What a step of the service does to the one row it writes.               *)
(***************************************************************************)
Inserted(c) ==
    /\ row[c].status = "absent"
    /\ row'[c].status \in {"pending", "pending_dns", "held"}
    /\ row'[c].key = NoKey
    /\ c \in held' <=> row'[c].status = "held"

Authorized(c) ==
    /\ row[c].status = "held"
    /\ row'[c].status = "authorization_ready"
    /\ row'[c].key = row[c].key

Released(c) ==
    /\ row[c].status \in {"held", "authorization_ready"}
    /\ row'[c].status = "released"
    /\ row'[c].key \in Keys

Deleted(c) == row'[c].status \in Closed /\ row'[c].key = row[c].key

Worked(c) ==
    /\ c \in Persist =>
           row[c].status \in {"pending_dns", "failed", "released", "issuing"}
    /\ row'[c].status \in {"issuing", "valid", "failed"}
    /\ row'[c].key = row[c].key

Moved(c) ==
    /\ \A d \in Certs \ {c} : row'[d] = row[d] /\ (d \in held' <=> d \in held)
    /\ \/ Inserted(c)
       \/ /\ held' = held
          /\ Authorized(c) \/ Released(c) \/ Deleted(c) \/ Worked(c)

\* Every step of the service leaves the rows or moves one of them so.
LEMMA ServiceRowStep ==
    ASSUME HeldInv, MethodInv, [ServiceNext]_vars
    PROVE  UNCHANGED <<row, held>> \/ \E c \in Certs : Moved(c)
<1> USE DEF Slots
<1>t. row \in [Certs -> Row] /\ task \in [Slots -> Task] /\ held \subseteq Certs
  BY DEF HeldInv, TypeOK, TaskTypeOK
<1>a. \A s \in Slots : task[s].pc # "idle" => task[s].cert \in Certs
  BY DEF HeldInv, TypeOK, TaskTypeOK
<1>m. \A s \in Slots : MethodOK(task[s]) /\ ArgsOK(task[s])
  BY DEF MethodInv, HeldInv, ArgsInv
<1> DEFINE Goal == UNCHANGED <<row, held>> \/ \E c \in Certs : Moved(c)
<1>1. ASSUME NEW w \in Workers, CreateInsert(w)
      PROVE  Goal
  <2> DEFINE c == task[w].cert
  <2>1. c \in Certs /\ row' = [row EXCEPT ![c] = task[w].seen]
    BY <1>1, <1>a DEF CreateInsert
  <2>2. c \notin held
    BY <1>1, <2>1 DEF CreateInsert, HeldInv, RowInv
  <2>3. /\ task[w].seen.key = NoKey
        /\ task[w].seen.status \in {"pending", "pending_dns", "held"}
    BY <1>1, <1>m DEF CreateInsert, ArgsOK
  <2>4. Inserted(c)
    BY <1>1, <1>t, <2>1, <2>2, <2>3 DEF CreateInsert, Inserted
  <2>5. \A d \in Certs \ {c} : row'[d] = row[d] /\ (d \in held' <=> d \in held)
    BY <1>1, <1>t, <2>1 DEF CreateInsert
  <2> QED
    BY <2>1, <2>4, <2>5 DEF Moved
<1>2. ASSUME NEW w \in Workers, AuthorizeReady(w)
      PROVE  Goal
  <2> DEFINE c == task[w].cert
  <2>1. CASE row' # row
    <3>1. c \in Certs /\ held' = held /\ \A d \in Certs \ {c} : row'[d] = row[d]
      BY <1>2, <1>a, <1>t, <2>1 DEF AuthorizeReady
    <3>2. Authorized(c)
      BY <1>2, <1>t, <2>1, <3>1 DEF AuthorizeReady, Authorized, Row
    <3> QED
      BY <3>1, <3>2 DEF Moved
  <2>2. CASE row' = row
    BY <1>2, <2>2 DEF AuthorizeReady
  <2> QED
    BY <2>1, <2>2
<1>3. ASSUME NEW w \in Workers, ReleaseAct(w)
      PROVE  Goal
  <2> DEFINE c == task[w].cert
  <2>1. c \in Certs /\ held' = held /\ \A d \in Certs \ {c} : row'[d] = row[d]
    BY <1>3, <1>a, <1>t DEF ReleaseAct
  <2>2. Released(c)
    BY <1>3, <1>t, <1>m, <2>1 DEF ReleaseAct, Released, Releasable, ArgsOK
  <2> QED
    BY <2>1, <2>2 DEF Moved
<1>4. ASSUME NEW w \in Workers, DeleteWrite(w)
      PROVE  Goal
  <2> DEFINE c == task[w].cert
  <2>1. CASE row' # row
    <3>1. c \in Certs /\ held' = held /\ \A d \in Certs \ {c} : row'[d] = row[d]
      BY <1>4, <1>a, <1>t, <2>1 DEF DeleteWrite, BlindStatus
    <3>2. Deleted(c)
      BY <1>4, <1>t, <2>1, <3>1
         DEF DeleteWrite, BlindStatus, Deleted, Closed, Row
    <3> QED
      BY <3>1, <3>2 DEF Moved
  <2>2. CASE row' = row
    BY <1>4, <2>2 DEF DeleteWrite
  <2> QED
    BY <2>1, <2>2
<1>5. ASSUME NEW s \in Slots,
             \/ s \in Workers /\ AuthorizeIssue(s)
             \/ ReleasedClaim(s) \/ IssueSucceeds(s) \/ IssueFails(s)
             \/ IssueClaim(s)
      PROVE  Goal
  <2> DEFINE c == task[s].cert
  <2>1. c \in Certs /\ held' = held
    BY <1>5, <1>a DEF AuthorizeIssue, ReleasedClaim, IssueSucceeds, IssueFails,
       IssueClaim
  <2>2. CASE row' # row
    <3>1. \E st \in {"issuing", "valid", "failed"} :
              row' = [row EXCEPT ![c].status = st]
      BY <1>5, <2>2 DEF AuthorizeIssue, ReleasedClaim, IssueSucceeds,
         IssueFails, IssueClaim, SetStatus, BlindStatus
    <3>2. c \in Persist =>
              row[c].status \in {"pending_dns", "failed", "released", "issuing"}
      BY <1>5, <1>m, <2>2 DEF AuthorizeIssue, ReleasedClaim, IssueSucceeds,
         IssueFails, IssueClaim, MethodOK
    <3>3. /\ row'[c].status \in {"issuing", "valid", "failed"}
          /\ row'[c].key = row[c].key
          /\ \A d \in Certs \ {c} : row'[d] = row[d]
      BY <1>t, <2>1, <3>1 DEF Row
    <3> QED
      BY <2>1, <3>2, <3>3 DEF Moved, Worked
  <2>3. CASE row' = row
    BY <2>1, <2>3
  <2> QED
    BY <2>2, <2>3
<1>6. CASE \/ \E w \in Workers : \/ CreateCollides(w) \/ ReleaseRefused(w)
                                 \/ DeleteRemove(w) \/ SelectSchedule(w)
           \/ \E s \in Slots : \/ IssueRead(s) \/ PersistRead(s)
                               \/ IssueSchedule(s) \/ TaskRaises(s)
           \/ Resume \/ Stop \/ Start \/ UNCHANGED vars
  BY <1>6 DEF CreateCollides, ReleaseRefused, DeleteRemove, SelectSchedule,
     IssueRead, PersistRead, IssueSchedule, TaskRaises, Resume,
     ResumeSnapshot, ResumeNext, Stop, Start, vars
<1>7. CASE \E w \in Workers : Request(w)
  BY <1>7, RequestBegins
<1> QED
  BY <1>1, <1>2, <1>3, <1>4, <1>5, <1>6, <1>7
     DEF ServiceNext, Handler, Issuer

(***************************************************************************)
(* What the service needs of the invariants above.                         *)
(***************************************************************************)
LEMMA ServiceInvariant == ServiceSpec => [](HeldInv /\ MethodInv)
<1>1. Init => HeldInv /\ MethodInv
  BY HeldInit, IdleType DEF Init, MethodInv, MethodOK
<1>2. HeldInv /\ MethodInv /\ [ServiceNext]_vars => (HeldInv /\ MethodInv)'
  BY HeldStep, MethodStep, ServiceIsPart
<1> QED
  BY <1>1, <1>2, PTL DEF ServiceSpec

(***************************************************************************)
(* Every write of an authorization, a release, a claim, an issuance and a  *)
(* recovery tests the status, and a deletion closes: a cancelled or        *)
(* revoked DNS Persist request never comes back.                           *)
(***************************************************************************)
THEOREM ClosingIsFinal == ServiceSpec => ClosedStaysClosed
<1> DEFINE Kept == \A c \in Persist : row[c].status \in Closed =>
                       row'[c].status \in Closed
<1>1. ASSUME HeldInv, MethodInv, [ServiceNext]_vars
      PROVE  Kept
  <2>1. ASSUME NEW d \in Certs, Moved(d)
        PROVE  Kept
    BY <2>1, PersistAssumption
       DEF Moved, Inserted, Authorized, Released, Deleted, Worked, Closed
  <2> QED
    BY <1>1, <2>1, ServiceRowStep
<1>2. HeldInv /\ MethodInv /\ [ServiceNext]_vars => [Kept]_vars
  BY <1>1
<1> QED
  BY <1>2, ServiceInvariant, PTL DEF ServiceSpec, ClosedStaysClosed

-----------------------------------------------------------------------------
(***************************************************************************)
(* The refinement: the phase and the accepted key of one request, before   *)
(* and after a step.                                                       *)
(***************************************************************************)
PhaseOf(c) ==
    /\ c \notin held => Phase[c] = "none"
    /\ c \in held /\ row[c].status \in {"held", "authorization_ready"}
           => Phase[c] = "waiting"
    /\ c \in held /\ row[c].status \in Closed => Phase[c] = "closed"
    /\ /\ c \in held
       /\ row[c].status \notin {"held", "authorization_ready"} \union Closed
       => Phase[c] = "released"
    /\ Accepted[c] = IF c \in held THEN row[c].key ELSE NoKey

\* The cases of Phase and Accepted hold before and after a step.
LEMMA PhaseCases == \A c \in Certs : PhaseOf(c) /\ PhaseOf(c)'
BY DEF PhaseOf, Phase, Accepted, Closed

\* A step that changes one row changes one phase.
LEMMA OthersKeepPhase ==
    ASSUME NEW c \in Certs, NEW d \in Certs, row'[d] = row[d],
           d \in held' <=> d \in held
    PROVE  Phase'[d] = Phase[d] /\ Accepted'[d] = Accepted[d]
BY DEF Phase, Accepted

\* A row that moves moves its phase by a step of HeldRequest, or not at all.
LEMMA MovedRefines ==
    ASSUME HeldInv, MethodInv, NEW c \in Certs, Moved(c)
    PROVE  [Abstract!Next]_(Abstract!heldVars)
<1> DEFINE Goal == [Abstract!Next]_(Abstract!heldVars)
<1>1. \A d \in Certs \ {c} : Phase'[d] = Phase[d] /\ Accepted'[d] = Accepted[d]
  BY OthersKeepPhase DEF Moved
<1>2. /\ Phase = [d \in Certs |-> Phase[d]]
      /\ Phase' = [d \in Certs |-> Phase'[d]]
      /\ Accepted = [d \in Certs |-> Accepted[d]]
      /\ Accepted' = [d \in Certs |-> Accepted'[d]]
  BY DEF Phase, Accepted
<1>3. ASSUME Phase'[c] = Phase[c], Accepted'[c] = Accepted[c]
      PROVE  Goal
  <2>1. Phase' = Phase /\ Accepted' = Accepted
    BY <1>1, <1>2, <1>3
  <2> QED
    BY <2>1 DEF Abstract!heldVars
<1>4. ASSUME Phase[c] = "none", Phase'[c] = "waiting",
             Accepted'[c] = Accepted[c]
      PROVE  Goal
  <2>1. /\ Phase' = [Phase EXCEPT ![c] = "waiting"]
        /\ Accepted' = Accepted
    BY <1>1, <1>2, <1>4
  <2> QED
    BY <1>4, <2>1 DEF Abstract!Next, Abstract!Hold
<1>5. ASSUME NEW k \in Keys, Phase[c] = "waiting", Phase'[c] = "released",
             Accepted'[c] = k
      PROVE  Goal
  <2>1. /\ Phase' = [Phase EXCEPT ![c] = "released"]
        /\ Accepted' = [Accepted EXCEPT ![c] = k]
    BY <1>1, <1>2, <1>5
  <2> QED
    BY <1>5, <2>1 DEF Abstract!Next, Abstract!Release
<1>6. ASSUME Phase[c] \in {"waiting", "released"}, Phase'[c] = "closed",
             Accepted'[c] = Accepted[c]
      PROVE  Goal
  <2>1. /\ Phase' = [Phase EXCEPT ![c] = "closed"]
        /\ Accepted' = Accepted
    BY <1>1, <1>2, <1>6
  <2> QED
    BY <1>6, <2>1 DEF Abstract!Next, Abstract!Close
<1>7. CASE Inserted(c)
  <2>1. c \notin held
    BY <1>7 DEF Inserted, HeldInv, RowInv
  <2> QED
    BY <1>3, <1>4, <1>7, <2>1, PhaseCases DEF PhaseOf, Inserted
<1>8. CASE held' = held /\ c \notin held
  BY <1>3, <1>8, PhaseCases DEF PhaseOf
<1>9. CASE held' = held /\ c \in held /\ Authorized(c)
  BY <1>3, <1>9, PhaseCases DEF PhaseOf, Authorized
<1>10. CASE held' = held /\ c \in held /\ Released(c)
  BY <1>5, <1>10, PhaseCases DEF PhaseOf, Released, Closed
<1>11. CASE held' = held /\ c \in held /\ Deleted(c)
  BY <1>3, <1>6, <1>11, PhaseCases DEF PhaseOf, Deleted
<1>12. CASE held' = held /\ c \in held /\ Worked(c)
  BY <1>3, <1>12, PhaseCases DEF PhaseOf, Worked, MethodInv, Closed
<1> QED
  BY <1>7, <1>8, <1>9, <1>10, <1>11, <1>12 DEF Moved

(***************************************************************************)
(* The service implements HeldRequest: behind one accepted release per     *)
(* request and a final close there are any number of coroutines, retries,  *)
(* exceptions and restarts, and clients see none of them.                  *)
(***************************************************************************)
THEOREM ServiceImplementsHold == ServiceSpec => ImplementsHeldRequest
<1>1. Init => Abstract!Init
  BY DEF Init, Abstract!Init, Phase, Accepted
<1>2. HeldInv /\ MethodInv /\ [ServiceNext]_vars
          => [Abstract!Next]_(Abstract!heldVars)
  <2> SUFFICES ASSUME HeldInv, MethodInv, [ServiceNext]_vars
               PROVE  [Abstract!Next]_(Abstract!heldVars)
    OBVIOUS
  <2>1. CASE UNCHANGED <<row, held>>
    BY <2>1 DEF Abstract!heldVars, Phase, Accepted
  <2> QED
    BY <2>1, ServiceRowStep, MovedRefines
<1> QED
  BY <1>1, <1>2, ServiceInvariant, PTL
     DEF ServiceSpec, ImplementsHeldRequest, Abstract!Spec

-----------------------------------------------------------------------------
(***************************************************************************)
(* A DNS provider request: the coroutine that a step sets may go on        *)
(* issuing if it did so before, and start to issue if none did.            *)
(***************************************************************************)
Issues(t, c) == t.cert = c /\ t.pc \in IssuePoint

\* One coroutine s is set.
LEMMA ProviderKept ==
    ASSUME TypeOK, SingleProviderIssuer, NEW s \in Slots, Sets(s),
           \A c \in Certs \ Persist : Issues(task'[s], c) =>
               \/ Issues(task[s], c)
               \/ \A r \in Slots : ~Issues(task[r], c)
    PROVE  SingleProviderIssuer'
<1>1. \A r \in Slots : r # s => task'[r] = task[r]
  BY DEF Sets, TypeOK, TaskTypeOK
<1>2. ASSUME NEW c \in Certs \ Persist, NEW q \in Slots, NEW r \in Slots,
             Issues(task'[q], c), Issues(task'[r], c)
      PROVE  q = r
  BY <1>1, <1>2 DEF SingleProviderIssuer, Issues
<1> QED
  BY <1>2 DEF SingleProviderIssuer, Issues

\* Every step of the service keeps SingleProviderIssuer.
LEMMA ProviderStep ==
    ASSUME HeldInv, MethodInv, SingleProviderIssuer, [ServiceNext]_vars
    PROVE  SingleProviderIssuer'
<1> USE DEF Slots
<1>t. TypeOK /\ task \in [Slots -> Task]
  BY DEF HeldInv, TypeOK, TaskTypeOK
<1>a. \A s \in Slots : task[s].pc # "idle" => task[s].cert \in Certs
  BY DEF HeldInv, TypeOK, TaskTypeOK
<1>1. ASSUME NEW w \in Workers, Request(w)
      PROVE  SingleProviderIssuer'
  <2>1. Sets(w)
    BY <1>1, RequestBegins DEF Begin, Sets
  <2>2. \A c \in Certs \ Persist : ~Issues(task'[w], c)
    BY <1>1, <1>t, RequestBegins
       DEF Requested, RequestPoint, Begin, Issues, IssuePoint
  <2> QED
    BY <1>t, <2>1, <2>2, ProviderKept
<1>2. ASSUME NEW w \in Workers, CreateInsert(w)
      PROVE  SingleProviderIssuer'
  <2>1. Sets(w)
    BY <1>2 DEF CreateInsert, Goto, Finish, Sets
  <2>2. task[w].cert \in Certs /\ Prerelease(task[w].cert)
    BY <1>2, <1>a DEF CreateInsert, Prerelease
  <2>3. \A r \in Slots : ~Issues(task[r], task[w].cert)
    BY <2>2 DEF HeldInv, QuietInv, Quiet, HarmlessPoint, Issues, IssuePoint
  <2>4. \A c \in Certs : Issues(task'[w], c) => c = task[w].cert
    BY <1>2, <1>t, IdleType
       DEF CreateInsert, Goto, Finish, At, Issues, IssuePoint
  <2> QED
    BY <1>t, <2>1, <2>3, <2>4, ProviderKept
<1>3. ASSUME NEW w \in Workers, Handler(w), ~CreateInsert(w)
      PROVE  SingleProviderIssuer'
  <2>1. Sets(w)
    BY <1>3 DEF Handler, CreateCollides, AuthorizeReady, AuthorizeIssue,
       ReleaseAct, ReleaseRefused, DeleteWrite, DeleteRemove, SelectSchedule,
       Goto, Finish, Sets
  <2>2. MethodOK(task[w])
    BY DEF MethodInv
  <2>3. \A c \in Certs \ Persist : ~Issues(task'[w], c)
    BY <1>3, <1>t, <2>2, IdleType DEF Handler, CreateCollides, AuthorizeReady,
       AuthorizeIssue, ReleaseAct, ReleaseRefused, DeleteWrite, DeleteRemove,
       SelectSchedule, Goto, Finish, At, Issues, IssuePoint, MethodOK
  <2> QED
    BY <1>t, <2>1, <2>3, ProviderKept
<1>4. ASSUME NEW s \in Slots, Issuer(s) \/ TaskRaises(s)
      PROVE  SingleProviderIssuer'
  <2>1. Sets(s)
    BY <1>4 DEF Issuer, IssueRead, IssueClaim, ReleasedClaim, PersistRead,
       IssueSucceeds, IssueFails, IssueSchedule, TaskRaises, Goto, Finish,
       Sets
  <2>2. \A c \in Certs : Issues(task'[s], c) => Issues(task[s], c)
    BY <1>4, <1>t, IdleType DEF Issuer, IssueRead, IssueClaim, ReleasedClaim,
       PersistRead, IssueSucceeds, IssueFails, IssueSchedule, TaskRaises,
       Goto, Finish, At, Issues, IssuePoint
  <2> QED
    BY <1>t, <2>1, <2>2, ProviderKept
<1>5. ASSUME NEW x \in resume, ResumeNext(x)
      PROVE  SingleProviderIssuer'
  <2>1. Sets(Recovery) /\ task'[Recovery].cert \in Persist
    BY <1>5, <1>t DEF ResumeNext, Begin, Sets, At, MethodInv
  <2> QED
    BY <1>t, <2>1, ProviderKept DEF Issues
<1>6. CASE ResumeSnapshot \/ Start \/ UNCHANGED vars
  BY <1>6 DEF ResumeSnapshot, Start, vars, SingleProviderIssuer
<1>7. CASE Stop
  BY <1>7, IdleType DEF Stop, SingleProviderIssuer, IssuePoint
<1> QED
  BY <1>1, <1>2, <1>3, <1>4, <1>5, <1>6, <1>7 DEF ServiceNext, Resume

(***************************************************************************)
(* Whatever creations collide and whatever restarts intervene, a DNS       *)
(* provider request is worked on by one issue_certificate at most.         *)
(***************************************************************************)
THEOREM ProviderIssuedOnce == ServiceSpec => []SingleProviderIssuer
<1>1. Init => SingleProviderIssuer
  BY IdleType DEF Init, SingleProviderIssuer, IssuePoint
<1>2. HeldInv /\ MethodInv /\ SingleProviderIssuer /\ [ServiceNext]_vars
          => SingleProviderIssuer'
  BY ProviderStep
<1> QED
  BY <1>1, <1>2, ServiceInvariant, PTL DEF ServiceSpec

-----------------------------------------------------------------------------
(***************************************************************************)
(* Until recovery has read its snapshot, nothing but it and a stop can     *)
(* happen, if its SELECT precedes all traffic.                             *)
(***************************************************************************)
LEMMA OnlySnapshotWhenDue ==
    ASSUME PromptRecovery, recoveryDue, DueInv, [ServiceNext]_vars
    PROVE  ResumeSnapshot \/ Stop \/ Start \/ UNCHANGED vars
<1> USE DEF Slots
<1>1. resume = {} /\ \A s \in Slots : task[s].pc = "idle"
  BY DEF DueInv
<1>2. ASSUME NEW w \in Workers PROVE ~Handler(w)
  BY <1>1 DEF Handler, CreateInsert, CreateCollides, AuthorizeReady,
     AuthorizeIssue, ReleaseAct, ReleaseRefused, DeleteWrite, DeleteRemove,
     SelectSchedule
<1>3. ASSUME NEW s \in Slots PROVE ~Issuer(s) /\ ~TaskRaises(s)
  BY <1>1 DEF Issuer, IssueRead, IssueClaim, ReleasedClaim, PersistRead,
     IssueSucceeds, IssueFails, IssueSchedule, TaskRaises
<1>4. ASSUME NEW w \in Workers PROVE ~Request(w)
  BY RequestBegins DEF Accepting
<1> QED
  BY <1>1, <1>2, <1>3, <1>4 DEF ServiceNext, Resume

\* Only a start makes the recovery due.
LEMMA DueStep ==
    ASSUME DownInv, DueInv, [ServiceNext]_vars
    PROVE  DueInv' /\ (recoveryDue' => recoveryDue \/ Start)
<1>1. recoveryDue' => recoveryDue \/ Start
  <2>1. ASSUME NEW w \in Workers, Request(w) \/ Handler(w)
        PROVE  recoveryDue' = recoveryDue
    BY <2>1, RequestBegins DEF Handler, CreateInsert, CreateCollides,
       AuthorizeReady, AuthorizeIssue, ReleaseAct, ReleaseRefused,
       DeleteWrite, DeleteRemove, SelectSchedule
  <2>2. ASSUME NEW s \in Slots, Issuer(s) \/ TaskRaises(s)
        PROVE  recoveryDue' = recoveryDue
    BY <2>2 DEF Issuer, IssueRead, IssueClaim, ReleasedClaim, PersistRead,
       IssueSucceeds, IssueFails, IssueSchedule, TaskRaises
  <2>3. CASE Resume \/ Stop \/ UNCHANGED vars
    BY <2>3 DEF Resume, ResumeSnapshot, ResumeNext, Stop, vars
  <2> QED
    BY <2>1, <2>2, <2>3 DEF ServiceNext
<1>2. CASE Start
  BY <1>1, <1>2 DEF Start, DownInv, DueInv
<1>3. CASE ~Start /\ PromptRecovery /\ recoveryDue'
  <2>1. UNCHANGED vars
    BY <1>1, <1>3, OnlySnapshotWhenDue DEF ResumeSnapshot, Stop
  <2> QED
    BY <1>1, <2>1 DEF vars, DueInv
<1> QED
  BY <1>1, <1>2, <1>3 DEF DueInv

(***************************************************************************)
(* A step that sets one coroutine keeps OwnInv if it makes the coroutine   *)
(* an owner only of a row that had none, and gives a row another status    *)
(* than ISSUING, CANCELLED or REVOKED only if it had no owner, or the      *)
(* coroutine was its owner and gives it back.                              *)
(***************************************************************************)
Owned(c) == row[c].status \in {"issuing"} \union Closed

\* One coroutine s is set; the recovery task may lose entries as well.
LEMMA OwnKept ==
    ASSUME TypeOK, OwnInv, NEW s \in Slots, Sets(s), resume' \subseteq resume,
           \A c \in Persist : Owns(task'[s], c) =>
               \/ Owns(task[s], c)
               \/ /\ \A r \in Slots : ~Owns(task[r], c)
                  /\ <<c, "issuing">> \notin resume',
           \A c \in Persist : ~Owned(c)' =>
               /\ ~Owns(task'[s], c)
               /\ ~Owned(c) \/ Owns(task[s], c)
    PROVE  OwnInv'
<1>1. \A r \in Slots : r # s => task'[r] = task[r]
  BY DEF Sets, TypeOK, TaskTypeOK
<1>2. ASSUME NEW c \in Persist, NEW q \in Slots, NEW r \in Slots,
             Owns(task'[q], c), Owns(task'[r], c)
      PROVE  q = r
  BY <1>1, <1>2 DEF OwnInv
<1>3. ASSUME NEW c \in Persist, NEW r \in Slots, <<c, "issuing">> \in resume'
      PROVE  ~Owns(task'[r], c)
  BY <1>1, <1>3 DEF OwnInv
<1>4. ASSUME NEW c \in Persist, ~Owned(c)'
      PROVE  NoOwner(c)'
  <2>1. CASE ~Owned(c)
    <3>1. NoOwner(c)
      BY <2>1 DEF OwnInv, Owned
    <3>2. \A r \in Slots : ~Owns(task'[r], c)
      BY <1>1, <1>4, <3>1 DEF NoOwner
    <3> QED
      BY <3>1, <3>2 DEF NoOwner, Owns
  <2>2. CASE Owns(task[s], c)
    <3>1. <<c, "issuing">> \notin resume'
      BY <2>2 DEF OwnInv
    <3>2. \A r \in Slots : ~Owns(task'[r], c)
      BY <1>1, <1>4, <2>2 DEF OwnInv
    <3> QED
      BY <3>1, <3>2 DEF NoOwner, Owns
  <2> QED
    BY <1>4, <2>1, <2>2
<1>5. \A c \in Persist : row'[c].status \notin {"issuing"} \union Closed =>
          NoOwner(c)'
  BY <1>4 DEF Owned, Closed
<1>6. /\ \A c \in Persist : \A q, r \in Slots :
            (Owns(task[q], c) /\ Owns(task[r], c))' => q = r
      /\ \A c \in Persist : (<<c, "issuing">> \in resume)' =>
            \A r \in Slots : ~Owns(task[r], c)'
  BY <1>2, <1>3 DEF Owns
<1> QED
  BY <1>5, <1>6 DEF OwnInv, Closed

\* Every step of the service keeps OwnInv, if recovery is prompt.
LEMMA OwnStep ==
    ASSUME PromptRecovery, HeldInv, MethodInv, DownInv, DueInv, OwnInv,
           [ServiceNext]_vars
    PROVE  OwnInv'
<1> USE PersistAssumption DEF Slots
<1>t. TypeOK /\ row \in [Certs -> Row] /\ task \in [Slots -> Task]
  BY DEF HeldInv, TypeOK, TaskTypeOK
<1>a. \A s \in Slots : task[s].pc # "idle" => task[s].cert \in Certs
  BY DEF HeldInv, TypeOK, TaskTypeOK
<1>m. \A s \in Slots : MethodOK(task[s])
  BY DEF MethodInv
<1>1. ASSUME NEW w \in Workers, Request(w)
      PROVE  OwnInv'
  <2>1. Sets(w) /\ \A c \in Persist : ~Owns(task'[w], c)
    BY <1>1, <1>t, RequestBegins DEF Requested, RequestPoint, Begin, Sets, Owns
  <2>2. row' = row /\ resume' = resume
    BY <1>1, RequestBegins
  <2> QED
    BY <1>t, <2>1, <2>2, OwnKept DEF Owned
<1>2. ASSUME NEW w \in Workers, Handler(w), ~AuthorizeIssue(w)
      PROVE  OwnInv'
  <2>1. Sets(w)
    BY <1>2 DEF Handler, CreateInsert, CreateCollides, AuthorizeReady,
       ReleaseAct, ReleaseRefused, DeleteWrite, DeleteRemove, SelectSchedule,
       Goto, Finish, Sets
  <2>2. \A c \in Persist : ~Owns(task'[w], c)
    BY <1>2, <1>t, IdleType DEF Handler, CreateInsert, CreateCollides,
       AuthorizeReady, ReleaseAct, ReleaseRefused, DeleteWrite, DeleteRemove,
       SelectSchedule, Goto, Finish, At, Owns
  <2>3. resume' = resume
    BY <1>2 DEF Handler, CreateInsert, CreateCollides, AuthorizeReady,
       ReleaseAct, ReleaseRefused, DeleteWrite, DeleteRemove, SelectSchedule
  <2>4. ASSUME NEW c \in Persist, ~Owned(c)' PROVE ~Owned(c)
    <3>1. CASE DeleteWrite(w)
      BY <1>t, <1>a, <2>4, <3>1 DEF DeleteWrite, BlindStatus, Owned, Closed, Row
    <3>2. CASE CreateInsert(w) \/ AuthorizeReady(w) \/ ReleaseAct(w)
      BY <1>t, <1>a, <2>4, <3>2 DEF CreateInsert, AuthorizeReady, ReleaseAct,
         Releasable, Owned, Closed
    <3>3. CASE row' = row
      BY <2>4, <3>3 DEF Owned
    <3> QED
      BY <1>2, <3>1, <3>2, <3>3 DEF Handler, CreateCollides, ReleaseRefused,
         DeleteRemove, SelectSchedule
  <2> QED
    BY <1>t, <2>1, <2>2, <2>3, <2>4, OwnKept
<1>3. ASSUME NEW s \in Slots,
             (s \in Workers /\ AuthorizeIssue(s)) \/ ReleasedClaim(s)
      PROVE  OwnInv'
  <2> DEFINE c == task[s].cert
  <2>1. Sets(s) /\ resume' = resume /\ c \in Certs
    BY <1>3, <1>a DEF AuthorizeIssue, ReleasedClaim, Goto, Finish, Sets
  <2>2. CASE row' = row /\ Finish(s)
    <3>1. \A d \in Persist : ~Owns(task'[s], d) /\ ~Owns(task[s], d)
      BY <1>3, <1>t, <2>2, IdleType
         DEF Finish, Owns, AuthorizeIssue, ReleasedClaim
    <3> QED
      BY <1>t, <2>1, <2>2, <3>1, OwnKept DEF Owned
  <2>3. CASE /\ row[c].status \in {"pending_dns", "failed", "released"}
             /\ row' = [row EXCEPT ![c].status = "issuing"]
    <3>1. \A d \in Persist : Owns(task'[s], d) => d = c
      BY <1>3, <1>t, IdleType
         DEF AuthorizeIssue, ReleasedClaim, Goto, Finish, At, Owns
    <3>2. c \in Persist => NoOwner(c)
      BY <2>3 DEF OwnInv, Closed
    <3>3. \A d \in Persist : /\ d = c => Owned(d)'
                             /\ d # c => row'[d] = row[d]
      BY <1>t, <2>1, <2>3 DEF Owned, Row
    <3> QED
      BY <1>t, <2>1, <3>1, <3>2, <3>3, OwnKept DEF NoOwner, Owned
  <2> QED
    BY <1>3, <2>2, <2>3 DEF AuthorizeIssue, ReleasedClaim, SetStatus
<1>4. ASSUME NEW s \in Slots, IssueRead(s) \/ IssueSchedule(s) \/ TaskRaises(s)
      PROVE  OwnInv'
  <2>1. Sets(s) /\ \A c \in Persist : ~Owns(task'[s], c)
    BY <1>4, <1>t, IdleType
       DEF IssueRead, IssueSchedule, TaskRaises, Goto, Finish, Sets, At, Owns
  <2>2. row' = row /\ resume' \subseteq resume
    BY <1>4 DEF IssueRead, IssueSchedule, TaskRaises
  <2> QED
    BY <1>t, <2>1, <2>2, OwnKept DEF Owned
<1>5. ASSUME NEW s \in Slots, IssueClaim(s)
      PROVE  OwnInv'
  <2>1. Sets(s) /\ task'[s].cert \notin Persist /\ task[s].cert \notin Persist
    BY <1>5, <1>t, <1>m DEF IssueClaim, Goto, Sets, At, MethodOK
  <2>2. resume' = resume /\ \A c \in Persist : row'[c] = row[c]
    BY <1>5, <1>t, <2>1 DEF IssueClaim, BlindStatus
  <2> QED
    BY <1>t, <2>1, <2>2, OwnKept DEF Owned, Owns
<1>6. ASSUME NEW s \in Slots, PersistRead(s)
      PROVE  OwnInv'
  <2>1. /\ Sets(s)
        /\ \A c \in Persist : Owns(task'[s], c) =>
               Owns(task[s], c) /\ row[c].status = "issuing"
    BY <1>6, <1>t, IdleType DEF PersistRead, Goto, Finish, Sets, At, Owns
  <2>2. row' = row /\ resume' = resume
    BY <1>6 DEF PersistRead
  <2> QED
    BY <1>t, <2>1, <2>2, OwnKept DEF Owned
<1>7. ASSUME NEW s \in Slots, IssueSucceeds(s) \/ IssueFails(s)
      PROVE  OwnInv'
  <2>1. /\ Sets(s) /\ \A c \in Persist : ~Owns(task'[s], c)
        /\ resume' = resume
    BY <1>7, <1>t, IdleType
       DEF IssueSucceeds, IssueFails, Goto, Finish, Sets, At, Owns
  <2>2. \A c \in Persist : row'[c] = row[c] \/ Owns(task[s], c)
    BY <1>7, <1>t, <1>a DEF IssueSucceeds, IssueFails, SetStatus, Owns
  <2> QED
    BY <1>t, <2>1, <2>2, OwnKept DEF Owned
<1>8. ASSUME NEW x \in resume, ResumeNext(x)
      PROVE  OwnInv'
  <2>1. x \in Certs \X {"released", "issuing"} /\ x[1] \in Persist
    BY <1>t DEF TypeOK, MethodInv
  <2>2. /\ Sets(Recovery) /\ row' = row /\ resume' = resume \ {x}
        /\ task[Recovery].pc = "idle"
    BY <1>8 DEF ResumeNext, Begin, Sets
  <2>3. \A c \in Persist : Owns(task'[Recovery], c) => x = <<c, "issuing">>
    BY <1>8, <1>t, <2>1 DEF ResumeNext, Begin, At, Owns
  <2>4. \A c \in Persist : x = <<c, "issuing">> =>
            Owned(c) /\ \A r \in Slots : ~Owns(task[r], c)
    BY DEF OwnInv, NoOwner, Owned
  <2> QED
    BY <1>t, <2>2, <2>3, <2>4, OwnKept DEF Owned
<1>9. CASE ResumeSnapshot
  <2>1. \A s \in Slots : task'[s].pc = "idle"
    BY <1>9 DEF ResumeSnapshot, DueInv
  <2>2. ASSUME NEW c \in Persist, <<c, "issuing">> \in resume'
        PROVE  row'[c].status = "issuing"
    BY <1>9, <2>2 DEF ResumeSnapshot, Resumable
  <2> QED
    BY <2>1, <2>2 DEF OwnInv, NoOwner, Owns
<1>10. CASE Stop \/ Start
  <2>1. resume' = {} /\ \A s \in Slots : task'[s].pc = "idle"
    BY <1>10, IdleType DEF Stop, Start, DownInv
  <2> QED
    BY <2>1 DEF OwnInv, NoOwner, Owns
<1>11. CASE UNCHANGED vars
  BY <1>11 DEF vars, OwnInv, NoOwner, Owns
<1> QED
  BY <1>1, <1>2, <1>3, <1>4, <1>5, <1>6, <1>7, <1>8, <1>9, <1>10, <1>11
     DEF ServiceNext, Resume, Issuer

(***************************************************************************)
(* acme.sh never runs twice at once for a DNS Persist request, as long as  *)
(* the recovery task's SELECT precedes all traffic: authorizations,        *)
(* releases, their replays and the recovery compete for one claim.         *)
(***************************************************************************)
THEOREM PersistIssuedOnce ==
    ASSUME PromptRecovery
    PROVE  ServiceSpec => []SingleIssuer
<1> DEFINE IssueInv == HeldInv /\ MethodInv /\ DownInv /\ DueInv /\ OwnInv
<1>1. Init => IssueInv
  BY HeldInit, IdleType
     DEF Init, MethodInv, MethodOK, DownInv, DueInv, OwnInv, NoOwner, Owns
<1>2. IssueInv /\ [ServiceNext]_vars => IssueInv'
  BY HeldStep, MethodStep, DownStep, DueStep, OwnStep, ServiceIsPart
     DEF HeldInv
<1>3. IssueInv => SingleIssuer
  BY DEF OwnInv, Owns, SingleIssuer
<1> QED
  BY <1>1, <1>2, <1>3, PTL DEF ServiceSpec

=============================================================================
