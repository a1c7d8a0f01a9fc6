------------------------------ MODULE LogLock ------------------------------
(***************************************************************************)
(* Log locks (RDLogLock) and the programs that change logs under them.     *)
(*                                                                         *)
(* A lock is a GUID and a time stamp in the log's row of the LOGS table.   *)
(* It expires unless its owner's timer renews it, and nobody tells the     *)
(* owner.  A log's lines are another table: saving them is one SQL         *)
(* statement that deletes and one that inserts.  Each action is one SQL    *)
(* statement, or one that only reads together with what follows from it.   *)
(*                                                                         *)
(* Time passes in units of the renewal timer (RD_LOG_LOCK_TIMEOUT / 2).    *)
(***************************************************************************)
EXTENDS Integers, FiniteSets

CONSTANTS
  Logs,       \* log names
  Users,      \* processes
  Kinds,      \* the programs they may be
  Timeout,    \* RD_LOG_LOCK_TIMEOUT, in renewals
  SaveTicks,  \* bound: time units a process spends between two statements of
              \* a save, or altogether on deleting a log and its voice tracks
  MaxSaves,   \* bound: saves in a behaviour
  NoOne, Dead

AllKinds ==
  {"edit",      \* rdlogedit's log editor
   "track",     \* rdtracker, rdclilogedit, rdlogmanager's log linker
   "api",       \* a web client that creates a lock and saves with its GUID
   "post",      \* a web client that saves without a GUID
   "generate",  \* RDSvc::generateLog
   "delete",    \* rdlogedit's Delete button
   "webdelete"} \* the DeleteLog web call

ASSUME LogLockAssumption ==
  /\ Kinds \subseteq AllKinds
  /\ Timeout \in Nat /\ SaveTicks \in Nat /\ MaxSaves \in Nat
  /\ Logs # {} /\ NoOne \notin Logs
  /\ NoOne \notin Users /\ Dead \notin Users /\ NoOne # Dead

VARIABLES
  kind,    \* what each process is
  pc,      \* where it is
  work,    \* the log it works on
  own,     \* lock_log_name: the log it locked, if it did
  base,    \* the lines it last read or saved
  busy,    \* time units since it began to save or delete
  exists,  \* the logs that have a row
  holder,  \* whose GUID is in a log's row; Dead: of a process that is gone
  age,     \* how old the row's LOCK_DATETIME is
  lines,   \* a log's lines, as the set of saves they come from
  saves,   \* saves so far
  stray    \* logs changed by a process that did not hold their lock (history)

procs == <<kind, pc, work, own, base, busy>>
rows  == <<exists, holder, age>>
vars  == <<procs, rows, lines, saves, stray>>

Old  == Timeout + 1    \* any age past the timeout
Free == CHOOSE l \in Logs : TRUE   \* the log that is named nowhere

\* Inside a save or a deletion.
Saving == {"cleared", "emptied", "removing", "gone", "remade"}

\* The event loop does not run, from the lock on where a log is deleted, its
\* voice tracks first.
Blocked(u) == pc[u] \in Saving \/ (pc[u] = "held" /\ kind[u] \in {"delete", "generate"})

\* Another save may begin.
Room == saves + Cardinality({u \in Users : pc[u] \in Saving}) < MaxSaves

\* Programs whose lock is an RDLogLock object, renewed by its timer.
Renews(u) == kind[u] \notin {"api", "post", "webdelete"}

Init ==
  /\ kind \in [Users -> Kinds]
  /\ pc = [u \in Users |-> "idle"]
  /\ work = [u \in Users |-> Free] /\ own = [u \in Users |-> NoOne]
  /\ base = [u \in Users |-> {}] /\ busy = [u \in Users |-> 0]
  /\ exists = {Free}
  /\ holder = [l \in Logs |-> NoOne] /\ age = [l \in Logs |-> 0]
  /\ lines = [l \in Logs |-> IF l = Free THEN {0} ELSE {}]
  /\ saves = 0 /\ stray = {}

-----------------------------------------------------------------------------
(* RDLogLock *)

\* Mutants of Expired: locks do not expire; an expired lock is free as soon as it is not valid.
ExpiredNever(l) == FALSE
ExpiredEarly(l) == age[l] >= Timeout

Expired(l) == age[l] > Timeout

\* Mutant of Valid: the age of the lock is not looked at.
ValidStale(u, l) == l \in exists /\ holder[l] = u

\* validateLock
Valid(u, l) == l \in exists /\ holder[l] = u /\ age[l] < Timeout

\* tryLock's update matches the row.
Takes(u, l) ==
  /\ l \in exists
  /\ holder[l] = NoOne \/ Expired(l)
  /\ holder' = [holder EXCEPT ![l] = u]
  /\ age' = [age EXCEPT ![l] = 0]
  /\ own' = [own EXCEPT ![u] = l]

Locked(l) == l \notin exists \/ (holder[l] # NoOne /\ ~Expired(l))

\* The renewal timer of u's lock has run out.
Due(u) == own[u] # NoOne /\ holder[own[u]] = u /\ age[own[u]] >= 1

\* It ran out while the event loop did not run: it goes before the next command.
Overdue(u) == Renews(u) /\ Due(u) /\ age[own[u]] > 1

\* Mutant of Renew: by the log's name, not by the GUID.
RenewByName(u) ==
  /\ own[u] # NoOne
  /\ (Renews(u) /\ ~Blocked(u) /\ age[own[u]] >= 1) \/ kind[u] = "api"
  /\ age' = [age EXCEPT ![own[u]] = 0]
  /\ UNCHANGED <<procs, exists, holder, lines, saves, stray>>

\* updateLock: whatever the age of the lock.  Without its row, only a warning.
Renew(u) ==
  /\ own[u] # NoOne /\ holder[own[u]] = u
  /\ (Renews(u) /\ ~Blocked(u) /\ Due(u)) \/ kind[u] = "api"
  /\ age' = [age EXCEPT ![own[u]] = 0]
  /\ UNCHANGED <<procs, exists, holder, lines, saves, stray>>

\* clearLock deletes by GUID, so it clears only what is still the process's.
Clear(u) ==
  /\ holder' = [l \in Logs |-> IF holder[l] = u THEN NoOne ELSE holder[l]]
  /\ age' = [l \in Logs |-> IF holder[l] = u THEN 0 ELSE age[l]]
  /\ own' = [own EXCEPT ![u] = NoOne]

-----------------------------------------------------------------------------
(* Opening and closing *)

Goes(u, to) == pc' = [pc EXCEPT ![u] = to]

\* The end of a session: nothing of it is left.
Quits(u) ==
  /\ Goes(u, "idle")
  /\ base' = [base EXCEPT ![u] = {}] /\ busy' = [busy EXCEPT ![u] = 0]
  /\ work' = [work EXCEPT ![u] = Free]

\* A process that begins to work on log l.
Starts(u, l, to) ==
  /\ pc[u] = "idle"
  /\ Goes(u, to)
  /\ work' = [work EXCEPT ![u] = l]
  /\ busy' = [busy EXCEPT ![u] = 0]

\* EditLog::exec loads the log first ...
Load(u, l) ==
  /\ kind[u] = "edit" /\ l \in exists
  /\ Starts(u, l, "loaded")
  /\ base' = [base EXCEPT ![u] = lines[l]]
  /\ UNCHANGED <<kind, own, rows, lines, saves, stray>>

\* ... then tries to lock it ...
LockLoaded(u) ==
  /\ pc[u] = "loaded"
  /\ Takes(u, work[u])
  /\ Goes(u, "open")
  /\ UNCHANGED <<kind, work, base, busy, exists, lines, saves, stray>>

\* ... or is told that it is being edited.
LockRefused(u) ==
  /\ pc[u] \in {"loaded", "remade"} /\ Locked(work[u])
  /\ Quits(u)
  /\ UNCHANGED <<kind, own, rows, lines, saves, stray>>

\* Mutant of LockFirst: the log is read before the lock is asked for.
LockLast(u, l) ==
  /\ kind[u] \in {"track", "api", "delete", "generate", "post"}
  /\ \/ /\ pc[u] = "idle" /\ kind[u] \in {"track", "api"} /\ l \in exists
        /\ Starts(u, l, "loaded")
        /\ base' = [base EXCEPT ![u] = lines[l]]
        /\ UNCHANGED <<own, rows>>
     \/ /\ kind[u] \notin {"track", "api"}
        /\ kind[u] = "post" => Room
        /\ Takes(u, l)
        /\ Starts(u, l, IF kind[u] = "post" THEN "cleared" ELSE "held")
        /\ UNCHANGED <<base, exists>>
  /\ UNCHANGED <<kind, lines, saves, stray>>

\* The other programs lock first.
LockFirst(u, l) ==
  /\ kind[u] \in {"track", "api", "delete", "generate", "post"}
  /\ kind[u] = "post" => Room
  /\ Takes(u, l)
  /\ Starts(u, l, IF kind[u] = "post" THEN "cleared" ELSE "held")
  /\ UNCHANGED <<kind, base, exists, lines, saves, stray>>

\* The log is read under the lock.
Open(u) ==
  /\ pc[u] = "held" /\ kind[u] \in {"track", "api"}
  /\ Goes(u, "open")
  /\ base' = [base EXCEPT ![u] = lines[work[u]]]
  /\ UNCHANGED <<kind, work, own, busy, rows, lines, saves, stray>>

\* The end of the session: okData, cancelData, unload, "CLEAR", after a save.
Close(u) ==
  /\ pc[u] \in {"held", "open", "done"}
  /\ Clear(u)
  /\ Quits(u)
  /\ UNCHANGED <<kind, exists, lines, saves, stray>>

\* The process dies; its GUID is known to nobody any more.
Crash(u) ==
  /\ pc[u] # "idle"
  /\ Quits(u)
  /\ own' = [own EXCEPT ![u] = NoOne]
  /\ holder' = [l \in Logs |-> IF holder[l] = u THEN Dead ELSE holder[l]]
  /\ UNCHANGED <<kind, exists, age, lines, saves, stray>>

-----------------------------------------------------------------------------
(* Saving *)

\* Process u changes log l.
Writes(u, l) == stray' = IF holder[l] = u THEN stray ELSE stray \union {l}

\* SaveLog with a GUID: it saves only with a valid lock, but makes the log anew
\* first if it is gone.
Validate(u) ==
  /\ kind[u] = "api" /\ pc[u] = "open" /\ Room
  /\ exists' = exists \union {work[u]}
  /\ IF Valid(u, work[u]) THEN Goes(u, "cleared") ELSE Goes(u, "done")
  /\ busy' = [busy EXCEPT ![u] = 0]
  /\ UNCHANGED <<kind, work, own, base, holder, age, lines, saves, stray>>

\* saveasData: a new log, saved under the lock of the old one.
SaveAs(u, l) ==
  /\ kind[u] = "edit" /\ pc[u] = "open" /\ l \notin exists /\ Room /\ ~Overdue(u)
  /\ exists' = exists \union {l}
  /\ work' = [work EXCEPT ![u] = l]
  /\ base' = [base EXCEPT ![u] = lines[l]]
  /\ busy' = [busy EXCEPT ![u] = 0]
  /\ Goes(u, "cleared")
  /\ UNCHANGED <<kind, own, holder, age, lines, saves, stray>>

\* RDLogModel::save deletes the lines; rdlogedit and rdtracker do not look
\* whether they still have their lock.
Empty(u) ==
  /\ \/ pc[u] = "cleared"
     \/ pc[u] = "open" /\ kind[u] \in {"edit", "track"} /\ Room /\ ~Overdue(u)
  /\ lines' = [lines EXCEPT ![work[u]] = IF work[u] \in exists THEN {} ELSE @]
  /\ busy' = [busy EXCEPT ![u] = IF pc[u] = "open" THEN 0 ELSE @]
  /\ Goes(u, "emptied")
  /\ Writes(u, work[u])
  /\ UNCHANGED <<kind, work, own, base, rows, saves>>

\* It inserts the new ones.
Insert(u) ==
  /\ pc[u] = "emptied"
  /\ saves' = saves + 1
  /\ lines' = [lines EXCEPT ![work[u]] = @ \union {saves'}]
  /\ base' = [base EXCEPT ![u] = {saves'}]
  /\ Goes(u, IF kind[u] \in {"post", "generate"} THEN "done" ELSE "open")
  /\ busy' = [busy EXCEPT ![u] = 0]
  /\ Writes(u, work[u])
  /\ UNCHANGED <<kind, work, own, rows>>

-----------------------------------------------------------------------------
(* Deleting and generating *)

\* RDLog::remove deletes the lines; the web service asks for no lock.
RemoveLines(u, l) ==
  /\ \/ kind[u] = "webdelete" /\ l \in exists /\ Room /\ Starts(u, l, "removing")
     \/ /\ kind[u] \in {"delete", "generate"} /\ pc[u] = "held" /\ work[u] = l /\ Room
        /\ Goes(u, "removing")
        /\ UNCHANGED <<work, busy>>
  /\ lines' = [lines EXCEPT ![l] = {}]
  /\ Writes(u, l)
  /\ UNCHANGED <<kind, own, base, rows, saves>>

\* The voice tracks cannot be deleted, and the log stays: rdlogedit says so and
\* gives it up (Close), generateLog does not ask.
TracksStay(u) ==
  /\ kind[u] = "generate" /\ pc[u] = "held" /\ Room
  /\ Clear(u)
  /\ Goes(u, "gone")
  /\ UNCHANGED <<kind, work, base, busy, exists, lines, saves, stray>>

\* Then the log's row, with whatever lock is in it.
RemoveRow(u) ==
  /\ pc[u] = "removing"
  /\ exists' = exists \ {work[u]}
  /\ holder' = [holder EXCEPT ![work[u]] = NoOne]
  /\ age' = [age EXCEPT ![work[u]] = 0]
  /\ own' = [own EXCEPT ![u] = NoOne]
  /\ IF kind[u] = "generate" THEN Goes(u, "gone") /\ UNCHANGED <<work, base, busy>>
     ELSE Quits(u)
  /\ Writes(u, work[u])
  /\ UNCHANGED <<kind, lines, saves>>

\* RDLog::create, by generateLog and by SaveLog without a GUID; of a log that
\* exists it fails, which generateLog ignores.
Create(u, l) ==
  /\ kind[u] \in {"generate", "post"}
  /\ \/ pc[u] = "gone" /\ work[u] = l /\ Goes(u, "remade") /\ UNCHANGED <<work, busy>>
     \/ l \notin exists /\ Room /\ Starts(u, l, "remade")
  /\ exists' = exists \union {l}
  /\ UNCHANGED <<kind, own, base, holder, age, lines, saves, stray>>

\* The new log is locked: generateLog inserts its lines without a delete.
LockNew(u) ==
  /\ pc[u] = "remade"
  /\ Takes(u, work[u])
  /\ Goes(u, IF kind[u] = "post" THEN "cleared" ELSE "emptied")
  /\ UNCHANGED <<kind, work, base, busy, exists, lines, saves, stray>>

-----------------------------------------------------------------------------
\* A time unit passes: no renewal timer is overdue where the event loop runs,
\* and no save takes longer than SaveTicks.
Tick ==
  /\ \A u \in Users : Renews(u) /\ ~Blocked(u) => ~Due(u)
  /\ \A u \in Users : Blocked(u) => busy[u] < SaveTicks
  /\ \E l \in Logs : holder[l] # NoOne /\ ~Expired(l)
  /\ age' = [l \in Logs |-> IF holder[l] = NoOne \/ Expired(l) THEN age[l]
                            ELSE age[l] + 1]
  /\ busy' = [u \in Users |-> IF Blocked(u) THEN busy[u] + 1 ELSE busy[u]]
  /\ UNCHANGED <<kind, pc, work, own, base, exists, holder, lines, saves, stray>>

Next ==
  \/ \E u \in Users :
       \/ Renew(u) \/ LockLoaded(u) \/ LockRefused(u) \/ Open(u) \/ Close(u)
       \/ Crash(u) \/ Validate(u) \/ Empty(u) \/ Insert(u) \/ RemoveRow(u)
       \/ LockNew(u) \/ TracksStay(u)
       \/ \E l \in Logs : \/ Load(u, l) \/ LockFirst(u, l) \/ SaveAs(u, l)
                          \/ RemoveLines(u, l) \/ Create(u, l)
  \/ Tick

Spec == Init /\ [][Next]_vars

\* What a process that saves or deletes does next.
Proceeds(u) ==
  /\ Blocked(u)
  /\ \/ Empty(u) \/ Insert(u) \/ RemoveRow(u) \/ LockNew(u) \/ LockRefused(u)
     \/ Create(u, work[u]) \/ RemoveLines(u, work[u]) \/ TracksStay(u) \/ Close(u)

\* Time passes, timers run and processes finish what they began to save.
Fairness ==
  /\ WF_vars(Tick)
  /\ \A u \in Users : WF_vars(Renew(u) /\ Renews(u)) /\ WF_vars(Proceeds(u))

FairSpec == Spec /\ Fairness

-----------------------------------------------------------------------------
(* Properties *)

\* Every variable has its type.
TypeOK ==
  /\ kind \in [Users -> AllKinds]
  /\ pc \in [Users -> {"idle", "loaded", "held", "open", "done"} \union Saving]
  /\ work \in [Users -> Logs] /\ own \in [Users -> Logs \union {NoOne}]
  /\ base \in [Users -> SUBSET (0..MaxSaves)] /\ busy \in [Users -> 0..SaveTicks]
  /\ exists \in SUBSET Logs /\ stray \in SUBSET Logs
  /\ holder \in [Logs -> Users \union {NoOne, Dead}]
  /\ age \in [Logs -> 0..Old]
  /\ lines \in [Logs -> SUBSET (0..MaxSaves)]
  /\ saves \in 0..MaxSaves

\* Only two things change a log under somebody else's lock, or under none: the
\* DeleteLog web call, and rdlogedit after a Save As.  Every other writer still
\* has its lock when it writes, though none looks at it but the web service,
\* and that before it saves (lib/rdloglock.cpp, web/rdxport/logs.cpp SaveLog).
HolderWrites ==
  [][\A l \in stray' \ stray : \E u \in Users :
       pc'[u] # pc[u] /\ (kind[u] = "webdelete" \/ own[u] # l)]_vars

\* A save replaces the lines of a log as a whole, though it is two statements
\* without a transaction: nobody has put lines between them.  (generateLog, which
\* inserts into the log it has just made before it had it locked, is different:
\* it can add to what another program saved there.)
OneSave ==
  [][\A u \in Users :
       kind[u] # "generate" /\ Insert(u) /\ work[u] \notin stray
         => lines[work[u]] = {}]_vars

\* A program that locks before it reads replaces what it read, or what it saved
\* itself: nobody's changes are lost.  (rdlogedit reads before it locks.)
NoLostUpdate ==
  [][\A u \in Users :
       kind[u] \in {"track", "api"} /\ Empty(u) /\ work[u] \notin stray
         => lines[work[u]] = base[u]]_vars

\* The lock of a process that died becomes free in the end, though nothing ever
\* clears it: time alone does.
DeadLocksExpire ==
  \A l \in Logs : holder[l] = Dead ~> holder[l] # Dead \/ Expired(l)
=============================================================================
