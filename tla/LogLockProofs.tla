--------------------------- MODULE LogLockProofs ---------------------------
(***************************************************************************)
(* Theorems about LogLock, for every number of logs, processes and saves:  *)
(* what a log lock is worth though nobody looks at it when a log is saved, *)
(* if a save or a deletion does not take longer than it takes a lock to be *)
(* renewed, and a lock lives at least twice as long.  And, however long    *)
(* saves take, the types.                                                  *)
(***************************************************************************)
EXTENDS LogLock, FiniteSetTheorems, TLAPS

\* RD_LOG_LOCK_TIMEOUT against the duration of a save.
SavesAreShort == SaveTicks <= 1 /\ Timeout >= SaveTicks + 1

\* What the proofs need to know of the variables.
Types ==
  /\ kind \in [Users -> AllKinds]
  /\ pc \in [Users -> {"idle", "loaded", "held", "open", "done"} \union Saving]
  /\ work \in [Users -> Logs] /\ own \in [Users -> Logs \union {NoOne}]
  /\ base \in [Users -> SUBSET Nat] /\ busy \in [Users -> 0..SaveTicks]
  /\ exists \in SUBSET Logs /\ stray \in SUBSET Logs
  /\ holder \in [Logs -> Users \union {NoOne, Dead}] /\ age \in [Logs -> Nat]
  /\ lines \in [Logs -> SUBSET Nat] /\ saves \in Nat

\* A process remembers the lock it has; before it asks for one it has none.
Remembers(u) ==
  /\ pc[u] \in {"idle", "loaded", "gone", "remade"} => own[u] = NoOne
  /\ pc[u] = "removing" => own[u] \in {NoOne, work[u]}
  /\ pc[u] = "held" \/ (kind[u] \in {"track", "api"} /\ pc[u] \in {"open", "cleared", "emptied"})
       => own[u] = work[u]
  /\ \A l \in Logs : holder[l] = u => own[u] = l

\* Only rdlogedit locks late; only new logs are locked when their row is there.
Programs(u) ==
  /\ pc[u] = "loaded" => kind[u] = "edit"
  /\ pc[u] = "gone" => kind[u] = "generate"
  /\ pc[u] = "remade" => kind[u] \in {"generate", "post"}
  /\ pc[u] = "removing" => kind[u] \in {"webdelete", "delete", "generate"}

\* How old the lock of a process may have become.
AgeLimit(u) == IF Blocked(u) THEN 1 + busy[u]
               ELSE IF pc[u] = "held" THEN 1 ELSE 1 + SaveTicks

\* A process whose timer renews its lock keeps it, as long as nobody writes under
\* it.  A web client's lock may go, but not between the check and the save.
Keeps(u) ==
  own[u] # NoOne /\ own[u] \notin stray =>
    /\ Renews(u) => holder[own[u]] = u /\ age[own[u]] <= AgeLimit(u)
    /\ ~Renews(u) /\ pc[u] \in {"cleared", "emptied"} /\ work[u] = own[u] =>
         holder[own[u]] = u /\ age[own[u]] <= Timeout - 1 + busy[u]

\* Who replaces the lines of a log holds its lock, or has made the log stray;
\* the log is empty then.
Replaces(u) ==
  pc[u] = "emptied" /\ work[u] \notin stray =>
    holder[work[u]] = u /\ (kind[u] # "generate" => lines[work[u]] = {})

\* What was read under the lock is what is there while the lock is held.
Reads(u) ==
  /\ kind[u] \in {"track", "api"} /\ pc[u] \in {"open", "cleared"}
  /\ work[u] \notin stray /\ holder[work[u]] = u
  => lines[work[u]] = base[u]

Safe(u) == Remembers(u) /\ Programs(u) /\ Keeps(u) /\ Replaces(u) /\ Reads(u)

\* Locks stand in the rows of logs.
LocksExist == \A l \in Logs : holder[l] # NoOne => l \in exists

IInv == Types /\ LocksExist /\ \A u \in Users : Safe(u)

\* A step of one process.
Acts(u) ==
  \/ Renew(u) \/ LockLoaded(u) \/ LockRefused(u) \/ Open(u) \/ Close(u)
  \/ Crash(u) \/ Validate(u) \/ Empty(u) \/ Insert(u) \/ RemoveRow(u) \/ TracksStay(u)
  \/ LockNew(u)
  \/ \E l \in Logs : \/ Load(u, l) \/ LockFirst(u, l) \/ SaveAs(u, l)
                     \/ RemoveLines(u, l) \/ Create(u, l)

\* Nobody has a lock at first.
LEMMA InitialState == Init => IInv
<1> SUFFICES ASSUME Init PROVE IInv
  OBVIOUS
<1>0. Free \in Logs
  BY LogLockAssumption DEF Free
<1>1. Types
  BY <1>0, LogLockAssumption DEF Init, Types, Saving
<1>2. ASSUME NEW u \in Users PROVE Safe(u)
  BY <1>2, LogLockAssumption DEF Init, Safe, Remembers, Programs, Keeps, Replaces, Reads
<1>3. LocksExist
  BY DEF Init, LocksExist
<1>4. QED
  BY <1>1, <1>2, <1>3 DEF IInv

-----------------------------------------------------------------------------
(* Types.                                                                  *)

\* Every step keeps the types.
LEMMA TypesStep == ASSUME Types, [Next]_vars PROVE Types'
<1> USE LogLockAssumption DEF Types, procs, rows, vars
<1>0. Free \in Logs
  BY DEF Free
<1> USE <1>0 DEF Goes, Quits, Starts, Takes, Clear, Writes, Saving
<1>1. ASSUME NEW u \in Users, Renew(u) PROVE Types'
  BY <1>1 DEF Renew
<1>2. ASSUME NEW u \in Users, LockLoaded(u) PROVE Types'
  BY <1>2 DEF LockLoaded
<1>3. ASSUME NEW u \in Users, LockRefused(u) PROVE Types'
  BY <1>3 DEF LockRefused
<1>4. ASSUME NEW u \in Users, Open(u) PROVE Types'
  BY <1>4 DEF Open
<1>5. ASSUME NEW u \in Users, Close(u) PROVE Types'
  BY <1>5 DEF Close
<1>6. ASSUME NEW u \in Users, Crash(u) PROVE Types'
  BY <1>6 DEF Crash
<1>7. ASSUME NEW u \in Users, Validate(u) PROVE Types'
  BY <1>7 DEF Validate
<1>8. ASSUME NEW u \in Users, Empty(u) PROVE Types'
  BY <1>8 DEF Empty
<1>9. ASSUME NEW u \in Users, Insert(u) PROVE Types'
  BY <1>9 DEF Insert
<1>10. ASSUME NEW u \in Users, RemoveRow(u) PROVE Types'
  BY <1>10 DEF RemoveRow
<1>11. ASSUME NEW u \in Users, LockNew(u) PROVE Types'
  BY <1>11 DEF LockNew
<1>12. ASSUME NEW u \in Users, NEW l \in Logs, Load(u, l) PROVE Types'
  BY <1>12 DEF Load
<1>13. ASSUME NEW u \in Users, NEW l \in Logs, LockFirst(u, l) PROVE Types'
  BY <1>13 DEF LockFirst
<1>14. ASSUME NEW u \in Users, NEW l \in Logs, SaveAs(u, l) PROVE Types'
  BY <1>14 DEF SaveAs
<1>15. ASSUME NEW u \in Users, NEW l \in Logs, RemoveLines(u, l) PROVE Types'
  BY <1>15 DEF RemoveLines
<1>16. ASSUME NEW u \in Users, NEW l \in Logs, Create(u, l) PROVE Types'
  BY <1>16 DEF Create
<1>20. ASSUME NEW u \in Users, TracksStay(u) PROVE Types'
  BY <1>20 DEF TracksStay
<1>17. CASE Tick
  BY <1>17 DEF Tick, Blocked
<1>18. CASE UNCHANGED vars
  BY <1>18
<1>19. QED
  BY ONLY [Next]_vars, <1>1, <1>2, <1>3, <1>4, <1>5, <1>6, <1>7, <1>8, <1>9, <1>10, <1>11,
     <1>12, <1>13, <1>14, <1>15, <1>16, <1>17, <1>18, <1>20 DEF Next
-----------------------------------------------------------------------------
(* The steps of one process.                                               *)

\* What a step of w may do to the others and to the logs: it takes only a lock
\* that is free or has expired, and where it changes lines or removes somebody
\* else's lock, it makes the log stray.
Frame(w) ==
  /\ kind' = kind /\ stray \subseteq stray'
  /\ \A u \in Users \ {w} : /\ pc'[u] = pc[u] /\ work'[u] = work[u] /\ own'[u] = own[u]
                            /\ base'[u] = base[u] /\ busy'[u] = busy[u]
                            /\ \A l \in Logs : holder'[l] = u => holder[l] = u
  /\ \A l \in Logs :
       /\ age'[l] <= age[l]
       /\ \/ holder'[l] = holder[l] \/ holder[l] = NoOne \/ Expired(l) \/ holder[l] = w
          \/ l \in stray'
       /\ lines'[l] = lines[l] \/ holder[l] = w \/ l \in stray'

\* What a step of one program leaves alone, for the others.
LEMMA FrameStep == ASSUME Types, NEW w \in Users, Acts(w) PROVE Frame(w)
<1> USE LogLockAssumption DEF Types, Frame, Goes, Quits, Starts, Takes, Clear, Writes, procs, rows
<1>1. CASE Renew(w)
  BY <1>1 DEF Renew
<1>2. CASE LockLoaded(w)
  BY <1>2 DEF LockLoaded
<1>3. CASE LockRefused(w)
  BY <1>3 DEF LockRefused
<1>4. CASE Open(w)
  BY <1>4 DEF Open
<1>5. CASE Close(w)
  BY <1>5 DEF Close
<1>6. CASE Crash(w)
  BY <1>6 DEF Crash
<1>7. CASE Validate(w)
  BY <1>7 DEF Validate
<1>8. CASE Empty(w)
  BY <1>8 DEF Empty
<1>9. CASE Insert(w)
  BY <1>9 DEF Insert
<1>10. CASE RemoveRow(w)
  BY <1>10 DEF RemoveRow
<1>11. CASE LockNew(w)
  BY <1>11 DEF LockNew
<1>12. ASSUME NEW l \in Logs, Load(w, l) PROVE Frame(w)
  BY <1>12 DEF Load
<1>13. ASSUME NEW l \in Logs, LockFirst(w, l) PROVE Frame(w)
  BY <1>13 DEF LockFirst
<1>14. ASSUME NEW l \in Logs, SaveAs(w, l) PROVE Frame(w)
  BY <1>14 DEF SaveAs
<1>15. ASSUME NEW l \in Logs, RemoveLines(w, l) PROVE Frame(w)
  BY <1>15 DEF RemoveLines
<1>16. ASSUME NEW l \in Logs, Create(w, l) PROVE Frame(w)
  BY <1>16 DEF Create
<1>17. CASE TracksStay(w)
  BY <1>17 DEF TracksStay
<1>18. QED
  BY ONLY Acts(w), <1>1, <1>2, <1>3, <1>4, <1>5, <1>6, <1>7, <1>8, <1>9, <1>10, <1>11,
     <1>12, <1>13, <1>14, <1>15, <1>16, <1>17 DEF Acts

\* A lock that is kept does not expire.
LEMMA KeptIsValid ==
  ASSUME SavesAreShort, Types, NEW u \in Users, Keeps(u), own[u] # NoOne, own[u] \notin stray,
         Renews(u) \/ (pc[u] \in {"cleared", "emptied"} /\ work[u] = own[u])
  PROVE  own[u] \in Logs /\ holder[own[u]] = u /\ ~Expired(own[u])
  BY LogLockAssumption DEF SavesAreShort, Types, Keeps, Expired, AgeLimit

\* A step of w leaves the others safe.
LEMMA OthersSafe ==
  ASSUME SavesAreShort, IInv, NEW w \in Users, Frame(w), Types',
         NEW u \in Users, u # w
  PROVE  Safe(u)'
<1> USE LogLockAssumption DEF IInv
<1>0. /\ kind'[u] = kind[u] /\ pc'[u] = pc[u] /\ work'[u] = work[u] /\ own'[u] = own[u]
      /\ base'[u] = base[u] /\ busy'[u] = busy[u] /\ stray \subseteq stray'
      /\ work[u] \in Logs /\ Safe(u)
  BY DEF Frame, Types
<1>1. Remembers(u)' /\ Programs(u)'
  BY <1>0 DEF Frame, Remembers, Programs, Safe
<1>2. Keeps(u)'
  <2> SUFFICES ASSUME own[u] # NoOne, own[u] \notin stray',
                      Renews(u) \/ (pc[u] \in {"cleared", "emptied"} /\ work[u] = own[u])
               PROVE  holder'[own[u]] = u /\ age'[own[u]] <= age[own[u]] /\ holder[own[u]] = u
                      /\ age'[own[u]] \in Nat /\ age[own[u]] \in Nat
    BY <1>0 DEF Keeps, Safe, Renews, AgeLimit, Blocked, Types
  <2>1. own[u] \in Logs /\ holder[own[u]] = u /\ ~Expired(own[u])
    BY <1>0, KeptIsValid DEF Safe
  <2>2. u # NoOne
    OBVIOUS
  <2>3. QED
    BY <2>1, <2>2 DEF Frame, Types
<1>3. \A l \in Logs : holder[l] = u /\ l \notin stray' => lines'[l] = lines[l]
  BY DEF Frame
<1>4. Replaces(u)'
  <2> SUFFICES ASSUME pc[u] = "emptied", work[u] \notin stray'
               PROVE  holder'[work[u]] = u /\ (kind[u] # "generate" => lines'[work[u]] = {})
    BY <1>0 DEF Replaces
  <2>1. holder[work[u]] = u /\ own[u] = work[u] /\ own[u] # NoOne
    BY <1>0 DEF Safe, Replaces, Remembers
  <2>2. ~Expired(work[u])
    BY <1>0, <2>1, KeptIsValid DEF Safe
  <2>3. holder'[work[u]] = u
    BY <1>0, <2>1, <2>2 DEF Frame
  <2>4. QED
    BY <1>0, <1>3, <2>1, <2>3 DEF Safe, Replaces
<1>5. Reads(u)'
  <2> SUFFICES ASSUME kind[u] \in {"track", "api"}, pc[u] \in {"open", "cleared"},
                      work[u] \notin stray', holder'[work[u]] = u
               PROVE  lines'[work[u]] = base[u]
    BY <1>0 DEF Reads
  <2>1. holder[work[u]] = u
    BY <1>0 DEF Frame
  <2>2. QED
    BY <1>0, <1>3, <2>1 DEF Safe, Reads
<1>6. QED
  BY <1>1, <1>2, <1>4, <1>5 DEF Safe

\* A step of w leaves w safe.
LEMMA SelfSafe ==
  ASSUME SavesAreShort, IInv, NEW w \in Users, Acts(w), Types'
  PROVE  Safe(w)'
<1> USE LogLockAssumption
    DEF SavesAreShort, IInv, Types, LocksExist, Safe, Remembers, Programs, Keeps, Replaces,
        Reads, AgeLimit, Blocked, Saving, Renews, Goes, Quits, Starts, Takes, Clear, Writes, procs, rows
<1>1. CASE Renew(w)
  BY <1>1 DEF Renew
<1>2. CASE LockLoaded(w)
  <2>1. Remembers(w)'
    BY <1>2 DEF LockLoaded
  <2>2. Programs(w)'
    BY <1>2 DEF LockLoaded
  <2>3. Keeps(w)'
    BY <1>2 DEF LockLoaded
  <2>4. Replaces(w)'
    BY <1>2 DEF LockLoaded
  <2>5. Reads(w)'
    BY <1>2 DEF LockLoaded
  <2>6. QED
    BY <2>1, <2>2, <2>3, <2>4, <2>5
<1>3. CASE LockRefused(w)
  BY <1>3 DEF LockRefused
<1>4. CASE Open(w)
  BY <1>4 DEF Open
<1>5. CASE Close(w)
  BY <1>5 DEF Close
<1>6. CASE Crash(w)
  BY <1>6 DEF Crash
<1>7. CASE Validate(w)
  <2>1. Remembers(w)'
    BY <1>7 DEF Validate, Valid
  <2>2. Programs(w)'
    BY <1>7 DEF Validate, Valid
  <2>3. Keeps(w)'
    BY <1>7 DEF Validate, Valid
  <2>4. Replaces(w)'
    BY <1>7 DEF Validate, Valid
  <2>5. Reads(w)'
    BY <1>7 DEF Validate, Valid
  <2>6. QED
    BY <2>1, <2>2, <2>3, <2>4, <2>5
<1>8. CASE Empty(w)
  <2>1. Remembers(w)'
    BY <1>8 DEF Empty, Overdue, Due
  <2>2. Programs(w)'
    BY <1>8 DEF Empty, Overdue, Due
  <2>3. Keeps(w)'
    BY <1>8 DEF Empty, Overdue, Due
  <2>4. Replaces(w)'
    BY <1>8 DEF Empty, Overdue, Due
  <2>5. Reads(w)'
    BY <1>8 DEF Empty, Overdue, Due
  <2>6. QED
    BY <2>1, <2>2, <2>3, <2>4, <2>5
<1>9. CASE Insert(w)
  BY <1>9 DEF Insert
<1>10. CASE RemoveRow(w)
  <2>1. Remembers(w)'
    BY <1>10 DEF RemoveRow
  <2>2. Programs(w)'
    BY <1>10 DEF RemoveRow
  <2>3. Keeps(w)'
    BY <1>10 DEF RemoveRow
  <2>4. Replaces(w)'
    BY <1>10 DEF RemoveRow
  <2>5. Reads(w)'
    BY <1>10 DEF RemoveRow
  <2>6. QED
    BY <2>1, <2>2, <2>3, <2>4, <2>5
<1>11. CASE LockNew(w)
  <2>1. Remembers(w)'
    BY <1>11 DEF LockNew
  <2>2. Programs(w)'
    BY <1>11 DEF LockNew
  <2>3. Keeps(w)'
    BY <1>11 DEF LockNew
  <2>4. Replaces(w)'
    BY <1>11 DEF LockNew
  <2>5. Reads(w)'
    BY <1>11 DEF LockNew
  <2>6. QED
    BY <2>1, <2>2, <2>3, <2>4, <2>5
<1>12. ASSUME NEW l \in Logs, Load(w, l) PROVE Safe(w)'
  BY <1>12 DEF Load
<1>13. ASSUME NEW l \in Logs, LockFirst(w, l) PROVE Safe(w)'
  BY <1>13 DEF LockFirst
<1>14. ASSUME NEW l \in Logs, SaveAs(w, l) PROVE Safe(w)'
  <2>1. Remembers(w)'
    BY <1>14 DEF SaveAs, Overdue, Due
  <2>2. Programs(w)'
    BY <1>14 DEF SaveAs, Overdue, Due
  <2>3. Keeps(w)'
    BY <1>14 DEF SaveAs, Overdue, Due
  <2>4. Replaces(w)'
    BY <1>14 DEF SaveAs, Overdue, Due
  <2>5. Reads(w)'
    BY <1>14 DEF SaveAs, Overdue, Due
  <2>6. QED
    BY <2>1, <2>2, <2>3, <2>4, <2>5
<1>15. ASSUME NEW l \in Logs, RemoveLines(w, l) PROVE Safe(w)'
  BY <1>15 DEF RemoveLines
<1>16. ASSUME NEW l \in Logs, Create(w, l) PROVE Safe(w)'
  BY <1>16 DEF Create
<1>17. CASE TracksStay(w)
  BY <1>17 DEF TracksStay
<1>18. QED
  BY ONLY Acts(w), <1>1, <1>2, <1>3, <1>4, <1>5, <1>6, <1>7, <1>8, <1>9, <1>10, <1>11,
     <1>12, <1>13, <1>14, <1>15, <1>16, <1>17 DEF Acts

\* Only logs that exist are locked, whatever a program does.
LEMMA LocksExistStep ==
  ASSUME Types, LocksExist, NEW w \in Users, Acts(w)
  PROVE  LocksExist'
<1> USE LogLockAssumption
    DEF Types, LocksExist, Goes, Quits, Starts, Takes, Clear, Writes, procs, rows
<1>1. CASE Renew(w)
  BY <1>1 DEF Renew
<1>2. CASE LockLoaded(w)
  BY <1>2 DEF LockLoaded
<1>3. CASE LockRefused(w)
  BY <1>3 DEF LockRefused
<1>4. CASE Open(w)
  BY <1>4 DEF Open
<1>5. CASE Close(w)
  BY <1>5 DEF Close
<1>6. CASE Crash(w)
  BY <1>6 DEF Crash
<1>7. CASE Validate(w)
  BY <1>7 DEF Validate
<1>8. CASE Empty(w)
  BY <1>8 DEF Empty
<1>9. CASE Insert(w)
  BY <1>9 DEF Insert
<1>10. CASE RemoveRow(w)
  BY <1>10 DEF RemoveRow
<1>11. CASE LockNew(w)
  BY <1>11 DEF LockNew
<1>12. ASSUME NEW l \in Logs, Load(w, l) PROVE LocksExist'
  BY <1>12 DEF Load
<1>13. ASSUME NEW l \in Logs, LockFirst(w, l) PROVE LocksExist'
  BY <1>13 DEF LockFirst
<1>14. ASSUME NEW l \in Logs, SaveAs(w, l) PROVE LocksExist'
  BY <1>14 DEF SaveAs
<1>15. ASSUME NEW l \in Logs, RemoveLines(w, l) PROVE LocksExist'
  BY <1>15 DEF RemoveLines
<1>16. ASSUME NEW l \in Logs, Create(w, l) PROVE LocksExist'
  BY <1>16 DEF Create
<1>17. CASE TracksStay(w)
  BY <1>17 DEF TracksStay
<1>18. QED
  BY ONLY Acts(w), <1>1, <1>2, <1>3, <1>4, <1>5, <1>6, <1>7, <1>8, <1>9, <1>10, <1>11,
     <1>12, <1>13, <1>14, <1>15, <1>16, <1>17 DEF Acts
-----------------------------------------------------------------------------
(* Time.                                                                   *)

\* Time passes, and no saving program is too late.
LEMMA TickSafe == ASSUME SavesAreShort, IInv, Tick, Types' PROVE IInv'
<1> USE LogLockAssumption DEF IInv
<1>1. /\ UNCHANGED <<kind, pc, work, own, base, exists, holder, lines, stray>>
      /\ \A l \in Logs : age'[l] <= age[l] + 1
      /\ \A u \in Users : busy'[u] = IF Blocked(u) THEN busy[u] + 1 ELSE busy[u]
      /\ \A u \in Users : Renews(u) /\ ~Blocked(u) => ~Due(u)
  BY DEF Tick, Types
<1>2. LocksExist'
  BY <1>1 DEF LocksExist
<1>3. ASSUME NEW u \in Users PROVE Safe(u)'
  <2>1. Remembers(u)' /\ Programs(u)' /\ Replaces(u)' /\ Reads(u)'
    BY <1>1 DEF Safe, Remembers, Programs, Replaces, Reads
  <2>2. Keeps(u)'
    <3>1. CASE Blocked(u)
      BY <1>1, <3>1 DEF Safe, Keeps, Renews, AgeLimit, Types, Blocked, Saving
    <3>2. CASE ~Blocked(u)
      BY <1>1, <3>2 DEF Safe, Keeps, Renews, AgeLimit, Types, Blocked, Saving, Due
    <3>3. QED
      BY <3>1, <3>2
  <2>3. QED
    BY <2>1, <2>2 DEF Safe
<1>4. QED
  BY <1>2, <1>3

-----------------------------------------------------------------------------
\* Every step keeps the invariant.
LEMMA EveryStep == ASSUME SavesAreShort, IInv, [Next]_vars PROVE IInv'
<1>1. Types'
  BY TypesStep DEF IInv
<1>2. ASSUME NEW w \in Users, Acts(w) PROVE IInv'
  <2>1. Frame(w) /\ LocksExist' /\ Safe(w)'
    BY <1>1, <1>2, FrameStep, LocksExistStep, SelfSafe DEF IInv
  <2>2. \A u \in Users : u # w => Safe(u)'
    BY <1>1, <2>1, OthersSafe
  <2>3. QED
    BY <1>1, <2>1, <2>2 DEF IInv
<1>3. CASE Tick
  BY <1>1, <1>3, TickSafe
<1>4. CASE UNCHANGED vars
  BY <1>4 DEF vars, procs, rows, IInv, Types, LocksExist, Safe, Remembers, Programs, Keeps,
     Replaces, Reads, AgeLimit, Blocked, Renews
<1>5. QED
  BY <1>2, <1>3, <1>4 DEF Next, Acts

\* The invariant holds throughout, when saves are short.
LEMMA Invariance == SavesAreShort => (Spec => []IInv)
<1> SUFFICES ASSUME SavesAreShort PROVE Spec => []IInv
  OBVIOUS
<1>1. IInv /\ [Next]_vars => IInv'
  BY EveryStep
<1>2. QED
  BY InitialState, <1>1, PTL DEF Spec

-----------------------------------------------------------------------------
(* What the locks are worth.                                               *)

\* A process that writes where it has a lock holds the lock.
LEMMA WritesLocked ==
  ASSUME IInv, NEW u \in Users, own[u] = work[u], own[u] \notin stray, kind[u] # "webdelete",
         Renews(u) \/ pc[u] \in {"cleared", "emptied"}
  PROVE  holder[work[u]] = u
  BY LogLockAssumption DEF IInv, Types, Safe, Keeps

\* Whatever the logs, processes and programs: while saves are short, only the
\* DeleteLog web call, and rdlogedit after a Save As, change a log under somebody
\* else's lock or under none.
THEOREM HoldersWrite == SavesAreShort => (Spec => HolderWrites)
<1> SUFFICES ASSUME SavesAreShort PROVE Spec => HolderWrites
  OBVIOUS
<1>1. ASSUME IInv, [Next]_vars
      PROVE  [\A l \in stray' \ stray : \E u \in Users :
                pc'[u] # pc[u] /\ (kind[u] = "webdelete" \/ own[u] # l)]_vars
  <2> SUFFICES ASSUME NEW l \in stray' \ stray
               PROVE  \E u \in Users : pc'[u] # pc[u] /\ (kind[u] = "webdelete" \/ own[u] # l)
    OBVIOUS
  <2>1. PICK u \in Users : Empty(u) \/ Insert(u) \/ RemoveRow(u)
                           \/ \E k \in Logs : RemoveLines(u, k)
    BY <1>1 DEF Next, vars, procs, rows, Renew, LockLoaded, LockRefused, Open, Close, Crash,
       Validate, LockNew, TracksStay, Load, LockFirst, SaveAs, Create, Tick
  <2>2. pc'[u] # pc[u]
    BY <1>1, <2>1 DEF IInv, Types, Saving, Empty, Insert, RemoveRow, RemoveLines, Goes, Starts,
       Quits
  <2>3. ASSUME kind[u] # "webdelete" PROVE own[u] # l
    <3>1. l = work[u] /\ holder[l] # u /\ l \notin stray
      BY <2>1, <2>3 DEF Empty, Insert, RemoveRow, RemoveLines, Writes
    <3>2. Renews(u) \/ pc[u] \in {"cleared", "emptied"}
      BY <1>1, <2>1, <2>3 DEF Empty, Insert, RemoveRow, RemoveLines, Renews, IInv, Safe, Programs
    <3>3. QED
      BY <1>1, <2>3, <3>1, <3>2, WritesLocked
  <2>4. QED
    BY <2>2, <2>3
<1>2. QED
  BY Invariance, <1>1, PTL DEF Spec, HolderWrites

\* While saves are short, a save replaces the lines of a log as a whole.
THEOREM SavesAreWhole == SavesAreShort => (Spec => OneSave)
<1> SUFFICES ASSUME SavesAreShort PROVE Spec => OneSave
  OBVIOUS
<1>1. ASSUME IInv, [Next]_vars
      PROVE  [\A u \in Users :
                kind[u] # "generate" /\ Insert(u) /\ work[u] \notin stray
                  => lines[work[u]] = {}]_vars
  BY <1>1 DEF IInv, Safe, Replaces, Insert
<1>2. QED
  BY Invariance, <1>1, PTL DEF Spec, OneSave

\* While saves are short, a program that locks before it reads replaces what it
\* has read, or what it saved itself.
THEOREM UpdatesAreKept == SavesAreShort => (Spec => NoLostUpdate)
<1> SUFFICES ASSUME SavesAreShort PROVE Spec => NoLostUpdate
  OBVIOUS
<1>1. ASSUME IInv, [Next]_vars
      PROVE  [\A u \in Users :
                kind[u] \in {"track", "api"} /\ Empty(u) /\ work[u] \notin stray
                  => lines[work[u]] = base[u]]_vars
  <2> SUFFICES ASSUME NEW u \in Users, kind[u] \in {"track", "api"}, Empty(u),
                      work[u] \notin stray
               PROVE  lines[work[u]] = base[u]
    OBVIOUS
  <2>1. pc[u] \in {"open", "cleared"} /\ (Renews(u) \/ pc[u] = "cleared")
    BY DEF Empty, Renews
  <2>2. own[u] = work[u]
    BY <1>1, <2>1 DEF IInv, Safe, Remembers
  <2>3. holder[work[u]] = u
    BY <1>1, <2>1, <2>2, WritesLocked
  <2>4. QED
    BY <1>1, <2>1, <2>3 DEF IInv, Safe, Reads
<1>2. QED
  BY Invariance, <1>1, PTL DEF Spec, NoLostUpdate
-----------------------------------------------------------------------------
(* The bounds: these hold however long saves take.                         *)

\* The processes that are inside a save or a deletion.
Savers == {u \in Users : pc[u] \in Saving}

\* Ages stop when a lock has expired, what is read and saved is of some save so
\* far, and every save that is under way has its place among MaxSaves.
Bounds ==
  /\ age \in [Logs -> 0..Old]
  /\ lines \in [Logs -> SUBSET (0..saves)] /\ base \in [Users -> SUBSET (0..saves)]
  /\ IsFiniteSet(Savers) /\ saves + Cardinality(Savers) <= MaxSaves

\* A process begins to save where there is room, and the save counts at its end.
Counts(w) ==
  \/ saves' = saves /\ (pc'[w] \in Saving => pc[w] \in Saving \/ Room)
  \/ saves' = saves + 1 /\ pc[w] \in Saving /\ pc'[w] \notin Saving

\* What a step leaves of ages and lines.
Ages ==
  /\ age' \in [Logs -> 0..Old]
  /\ lines' \in [Logs -> SUBSET (0..saves')] /\ base' \in [Users -> SUBSET (0..saves')]

\* Each step of a process counts, and stays within ages and lines.
LEMMA CountsStep ==
  ASSUME Types, age \in [Logs -> 0..Old],
         lines \in [Logs -> SUBSET (0..saves)], base \in [Users -> SUBSET (0..saves)],
         NEW w \in Users, Acts(w)
  PROVE  Counts(w) /\ Ages
<1> USE LogLockAssumption DEF Types, Counts, Ages, Goes, Quits, Starts, Takes, Clear, procs, rows, Old
<1>1. CASE Renew(w) BY <1>1 DEF Renew
<1>2. CASE LockLoaded(w) BY <1>2 DEF LockLoaded, Saving
<1>3. CASE LockRefused(w) BY <1>3 DEF LockRefused, Saving
<1>4. CASE Open(w) BY <1>4 DEF Open, Saving
<1>5. CASE Close(w) BY <1>5 DEF Close, Saving
<1>6. CASE Crash(w) BY <1>6 DEF Crash, Saving
<1>7. CASE Validate(w) BY <1>7 DEF Validate, Saving
<1>8. CASE Empty(w) BY <1>8 DEF Empty, Saving
<1>9. CASE Insert(w) BY <1>9 DEF Insert, Saving
<1>10. CASE RemoveRow(w) BY <1>10 DEF RemoveRow, Saving
<1>11. CASE LockNew(w) BY <1>11 DEF LockNew, Saving
<1>12. ASSUME NEW l \in Logs, Load(w, l) PROVE Counts(w) /\ Ages BY <1>12 DEF Load, Saving
<1>13. ASSUME NEW l \in Logs, LockFirst(w, l) PROVE Counts(w) /\ Ages
  BY <1>13 DEF LockFirst, Saving
<1>14. ASSUME NEW l \in Logs, SaveAs(w, l) PROVE Counts(w) /\ Ages BY <1>14 DEF SaveAs, Saving
<1>15. ASSUME NEW l \in Logs, RemoveLines(w, l) PROVE Counts(w) /\ Ages
  BY <1>15 DEF RemoveLines, Saving
<1>16. ASSUME NEW l \in Logs, Create(w, l) PROVE Counts(w) /\ Ages
  BY <1>16 DEF Create, Saving
<1>17. CASE TracksStay(w) BY <1>17 DEF TracksStay, Saving
<1>18. QED
  BY ONLY Acts(w), <1>1, <1>2, <1>3, <1>4, <1>5, <1>6, <1>7, <1>8, <1>9, <1>10, <1>11,
     <1>12, <1>13, <1>14, <1>15, <1>16, <1>17 DEF Acts

\* Every step keeps the bounds.
LEMMA BoundsStep == ASSUME Types, Bounds, [Next]_vars PROVE Bounds'
<1>1. ASSUME NEW w \in Users, Acts(w) PROVE Bounds'
  <2>1. Counts(w) /\ Ages BY <1>1, CountsStep DEF Bounds
  <2>2. \A u \in Users \ {w} : pc'[u] = pc[u] BY <1>1, FrameStep DEF Frame
  <2>3. /\ IsFiniteSet(Savers \cup {w}) /\ IsFiniteSet(Savers \ {w}) /\ IsFiniteSet(Savers)
        /\ Cardinality(Savers \cup {w}) = IF w \in Savers THEN Cardinality(Savers)
                                                          ELSE Cardinality(Savers) + 1
        /\ Cardinality(Savers \ {w}) = IF w \in Savers THEN Cardinality(Savers) - 1
                                                       ELSE Cardinality(Savers)
        /\ Cardinality(Savers) \in Nat
    BY FS_AddElement, FS_RemoveElement, FS_CardinalityType DEF Bounds
  <2>4. Savers' = IF pc'[w] \in Saving THEN Savers \cup {w} ELSE Savers \ {w}
    BY <2>2 DEF Savers
  <2>5. w \in Savers <=> pc[w] \in Saving BY DEF Savers
  <2>6. saves \in Nat /\ MaxSaves \in Nat /\ saves + Cardinality(Savers) <= MaxSaves
    BY LogLockAssumption DEF Types, Bounds
  <2>7. Room => saves + Cardinality(Savers) < MaxSaves BY DEF Room, Savers
  <2>8. IsFiniteSet(Savers') BY <2>3, <2>4
  <2>9. saves' + Cardinality(Savers') <= MaxSaves
    <3>1. CASE saves' = saves /\ (pc'[w] \in Saving => pc[w] \in Saving \/ Room)
      <4>1. CASE pc'[w] \notin Saving
        <5>1. Cardinality(Savers') \in Nat /\ Cardinality(Savers') <= Cardinality(Savers)
          BY <2>3, <2>4, <4>1, FS_CardinalityType
        <5> QED BY <2>3, <2>6, <3>1, <5>1
      <4>2. CASE pc'[w] \in Saving /\ pc[w] \in Saving
        <5>1. Cardinality(Savers') = Cardinality(Savers) BY <2>3, <2>4, <2>5, <4>2
        <5> QED BY <2>6, <3>1, <5>1
      <4>3. CASE pc'[w] \in Saving /\ pc[w] \notin Saving /\ Room
        <5>1. Cardinality(Savers') = Cardinality(Savers) + 1 BY <2>3, <2>4, <2>5, <4>3
        <5> QED BY <2>3, <2>6, <2>7, <3>1, <4>3, <5>1
      <4> QED BY <3>1, <4>1, <4>2, <4>3
    <3>2. CASE saves' = saves + 1 /\ pc[w] \in Saving /\ pc'[w] \notin Saving
      <4>1. Cardinality(Savers') = Cardinality(Savers) - 1 BY <2>3, <2>4, <2>5, <3>2
      <4> QED BY <2>3, <2>6, <3>2, <4>1
    <3> QED BY <2>1, <3>1, <3>2 DEF Counts
  <2> QED BY <2>1, <2>8, <2>9 DEF Ages, Bounds
<1>2. CASE Tick
  <2>1. UNCHANGED <<pc, lines, base, saves>> BY <1>2 DEF Tick
  <2>2. Savers' = Savers BY <2>1 DEF Savers
  <2>3. age' \in [Logs -> 0..Old]
    BY <1>2, LogLockAssumption DEF Tick, Bounds, Expired, Old
  <2> QED BY <2>1, <2>2, <2>3 DEF Bounds
<1>3. CASE UNCHANGED vars
  <2>1. UNCHANGED <<age, pc, lines, base, saves>> BY <1>3 DEF vars, procs, rows
  <2>2. Savers' = Savers BY <2>1 DEF Savers
  <2> QED BY <2>1, <2>2 DEF Bounds
<1> QED BY <1>1, <1>2, <1>3 DEF Next, Acts

\* At first nobody saves, and there is one save, that of the free log.
LEMMA BoundsInitially == Init => Bounds
<1> SUFFICES ASSUME Init PROVE Bounds OBVIOUS
<1>1. Savers = {} BY DEF Init, Savers, Saving
<1>2. age \in [Logs -> 0..Old] BY LogLockAssumption DEF Init, Old
<1>3. lines \in [Logs -> SUBSET (0..saves)] /\ base \in [Users -> SUBSET (0..saves)] BY DEF Init
<1>4. IsFiniteSet(Savers) /\ Cardinality(Savers) = 0 BY <1>1, FS_EmptySet
<1>5. saves + Cardinality(Savers) <= MaxSaves BY <1>4, LogLockAssumption DEF Init
<1> QED BY <1>2, <1>3, <1>4, <1>5 DEF Bounds

\* Whatever the programs do and however long they take: the state has its types,
\* ages stop when a lock has expired, and no more is saved than there is room for.
THEOREM TypeCorrect == Spec => []TypeOK
<1>1. Types /\ Bounds => TypeOK
  <2> SUFFICES ASSUME Types, Bounds PROVE TypeOK OBVIOUS
  <2>1. Cardinality(Savers) \in Nat BY FS_CardinalityType DEF Bounds
  <2>2. saves \in 0..MaxSaves BY <2>1, LogLockAssumption DEF Types, Bounds
  <2>3. \A n \in 0..saves : n \in 0..MaxSaves
    <3>1. saves \in Nat /\ MaxSaves \in Nat /\ saves <= MaxSaves
      BY <2>2, LogLockAssumption DEF Types
    <3> QED BY <3>1
  <2>4. lines \in [Logs -> SUBSET (0..MaxSaves)] /\ base \in [Users -> SUBSET (0..MaxSaves)]
    BY <2>3 DEF Bounds
  <2> QED BY <2>2, <2>4 DEF Types, Bounds, TypeOK
<1>2. Init => Types /\ Bounds BY InitialState, BoundsInitially DEF IInv
<1>3. Types /\ Bounds /\ [Next]_vars => Types' /\ Bounds' BY TypesStep, BoundsStep
<1> QED BY <1>1, <1>2, <1>3, PTL DEF Spec
=============================================================================
