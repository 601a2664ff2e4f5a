------------------------ MODULE RoleServerManagerProofs ------------------------
(***************************************************************************)
(* Theorems about RoleServerManager for every set of models, requests and  *)
(* process identities, and for every registry it may be reloaded with.     *)
(***************************************************************************)
EXTENDS RoleServerManager, TLAPS

InQueue == Locked \cup {"wait"}

(* asyncio.Lock: a task is queued once, whoever is inside a locked section *)
(* is at the head, and nobody outside is waited for.                       *)
LockInv ==
  /\ \A i, j \in DOMAIN lockq : lockq[i] = lockq[j] => i = j
  /\ \A i \in DOMAIN lockq : pc[lockq[i]] \in InQueue
  /\ \A t \in Task : pc[t] \in Locked => Holds(t)

Mine(p, entry) == entry # None /\ entry.proc = p

(* Who is inside and what is in the slot agree.                            *)
SlotInv ==
  /\ \A t \in Task : pc[t] \in Stopping => victim # None
  /\ victim # None => current = None /\ lockq # <<>> /\ pc[Head(lockq)] \in Stopping
  /\ \A r \in Request : pc[r] = "spawn" => victim = None /\ current = None
  /\ \A r \in Request : pc[r] \in {"boot", "healthy"} => victim = None /\ current # None
  /\ \A r \in Request : pc[r] \in InQueue => want[r] \in Model
  /\ \A t \in Stopper : pc[t] \in Locked => pc[t] = "stop"
  /\ ~Open => pc[Watcher] = "cancelled" /\ \A r \in Request : pc[r] = "idle"

(* What is alive and what is on disk belong to the entries.                *)
OwnInv ==
  /\ \A p, q \in Proc : Live(p) /\ Live(q) => p = q
  /\ Open => \A p \in Proc : Live(p) => Mine(p, current) \/ Mine(p, victim)
  /\ RoleFilesMatch

RoleInv == TypeOK /\ LockInv /\ SlotInv /\ OwnInv

LEMMA TaskFacts ==
  /\ Request \subseteq Task /\ Stopper \subseteq Task /\ Closer \in Task /\ Watcher \in Task /\ Unloader \in Task
  /\ Request \cap Stopper = {} /\ Stopper = {Unloader, Watcher, Closer}
  /\ Unloader # Watcher /\ Unloader # Closer /\ Watcher # Closer
  BY RoleTasks DEF Task, Stopper

LEMMA PlaceFacts ==
  /\ Stopping \subseteq Locked /\ Locked \subseteq Place /\ InQueue \subseteq Place
  /\ {"idle", "sleep", "cancelled", "down"} \subseteq Place \ InQueue
  /\ {"spawn", "boot", "healthy"} \subseteq Locked \ Stopping
  /\ {"swap", "fail", "stop"} \subseteq Stopping /\ "wait" \in InQueue \ Locked
  BY DEF Stopping, Locked, InQueue, Place

LEMMA FileFacts ==
  /\ \A m : FileOf(m) \subseteq Model /\ FileOf(m) = Structured \cap {m}
  /\ \A entry : Left(entry) \subseteq files
  BY RoleModels DEF FileOf, Left

--------------------------------------------------------------------------------
(* The type invariant.                                                     *)

LEMMA InitType == Init => TypeOK
<1> SUFFICES ASSUME Init PROVE TypeOK
  OBVIOUS
<1>1. lockq \in Seq(Task) /\ pc \in [Task -> Place] /\ want \in [Request -> Model \cup {None}]
  BY DEF Init, Place
<1>2. age \in 0..MaxAge /\ pin \in 0..MaxPin
  BY RoleClock DEF Init
<1> QED
  BY <1>1, <1>2 DEF Init, TypeOK

LEMMA LeaveType ==
  ASSUME TypeOK, NEW t \in Task, NEW there \in Place, Holds(t), Leave(t, there)
  PROVE  lockq' \in Seq(Task) /\ pc' \in [Task -> Place]
  BY DEF TypeOK, Holds, Leave, Goto

LEMMA EnqueueType ==
  ASSUME TypeOK, NEW t \in Task, Enqueue(t)
  PROVE  lockq' \in Seq(Task) /\ pc' \in [Task -> Place]
  BY DEF TypeOK, Enqueue, Goto, Place

LEMMA GotoType ==
  ASSUME TypeOK, NEW t \in Task, NEW there \in Place, Goto(t, there)
  PROVE  pc' \in [Task -> Place]
  BY DEF TypeOK, Goto

LEMMA TerminateType ==
  ASSUME TypeOK, NEW t \in Task, NEW why \in Stopping, Terminate(t, why)
  PROVE  /\ pc' \in [Task -> Place] /\ current' = None /\ victim' \in Entry
         /\ UNCHANGED <<killed, proc>>
  BY GotoType, PlaceFacts DEF Terminate, TypeOK

LEMMA DoneType ==
  ASSUME TypeOK, NEW r \in Request, Holds(r), Done(r)
  PROVE  /\ lockq' \in Seq(Task) /\ pc' \in [Task -> Place]
         /\ want' \in [Request -> Model \cup {None}]
<1>1. lockq' \in Seq(Task) /\ pc' \in [Task -> Place]
  BY LeaveType, TaskFacts, PlaceFacts DEF Done
<1> QED
  BY <1>1 DEF TypeOK, Done

LEMMA ReturnType ==
  ASSUME TypeOK, NEW r \in Request, Holds(r), Return(r)
  PROVE  /\ lockq' \in Seq(Task) /\ pc' \in [Task -> Place]
         /\ want' \in [Request -> Model \cup {None}] /\ pin' \in 0..MaxPin
<1>1. Done(r) /\ pin' \in 0..MaxPin
  BY DEF Return, TypeOK
<1> QED
  BY <1>1, DoneType

(* A file set that grows by a wanted model's file at most.                 *)
LEMMA FilesType ==
  ASSUME TypeOK, NEW entry, NEW m, files' \in {Left(entry), Left(entry) \cup FileOf(m), files \ FileOf(m)}
  PROVE  files' \subseteq Model
  BY FileFacts DEF TypeOK

LEMMA ClockType ==
  ASSUME TypeOK, age' \in {0, age}, pin' = pin
  PROVE  age' \in 0..MaxAge /\ pin' \in 0..MaxPin
  BY RoleClock DEF TypeOK

LEMMA RequestStepType ==
  ASSUME TypeOK, LockInv, SlotInv, NEW r \in Request, RequestStep(r)
  PROVE  TypeOK'
<1> r \in Task
  BY TaskFacts
<1>0. pc[r] \in Locked => Holds(r)
  BY DEF LockInv
<1>a. 0 \in 0..MaxAge
  BY RoleClock
<1>1. CASE Reuse(r)
  <2>1. Holds(r) /\ Return(r) /\ UNCHANGED <<registry, current, victim, killed, proc, files>> /\ age' = 0
    BY <1>1 DEF Reuse, Granted
  <2> QED
    BY <1>a, <2>1, ReturnType DEF TypeOK
<1>2. CASE BeginSwap(r)
  <2>1. Terminate(r, "swap") /\ age' = 0 /\ UNCHANGED <<registry, lockq, want, files, pin>>
    BY <1>2 DEF BeginSwap
  <2> QED
    BY <1>a, <2>1, TerminateType, PlaceFacts DEF TypeOK
<1>3. CASE BeginLaunch(r)
  <2>1. /\ Goto(r, "spawn") /\ current' = None /\ age' = 0
        /\ files' = Left(current) \cup FileOf(want[r])
        /\ UNCHANGED <<registry, lockq, want, victim, killed, proc, pin>>
    BY <1>3 DEF BeginLaunch
  <2>2. files' \subseteq Model
    BY <2>1, FilesType
  <2> QED
    BY <1>a, <2>1, <2>2, GotoType, PlaceFacts DEF TypeOK
<1>4. CASE SwapStopped(r)
  <2>1. /\ Goto(r, "spawn") /\ victim' = None /\ killed' = FALSE
        /\ files' = Left(victim) \cup FileOf(want[r])
        /\ UNCHANGED <<registry, lockq, want, current, proc, age, pin>>
    BY <1>4 DEF SwapStopped, Stopped
  <2>2. files' \subseteq Model
    BY <2>1, FilesType
  <2> QED
    BY <2>1, <2>2, GotoType, PlaceFacts DEF TypeOK
<1>5. ASSUME NEW p \in Proc, Spawn(r, p) PROVE TypeOK'
  <2>1. /\ Goto(r, "boot") /\ proc' = [proc EXCEPT ![p] = "booting"] /\ pc[r] = "spawn"
        /\ current' = [model |-> want[r], proc |-> p, state |-> "loading", tail |-> TRUE]
        /\ UNCHANGED <<registry, lockq, want, victim, killed, files, age, pin>>
    BY <1>5 DEF Spawn
  <2>2. want[r] \in Model
    BY <2>1, PlaceFacts DEF SlotInv, InQueue
  <2>3. current' \in Entry
    BY <2>1, <2>2 DEF Entry
  <2>4. proc' \in [Proc -> {"unborn", "booting", "serving", "exited", "reaped"}]
    BY <2>1 DEF TypeOK
  <2> QED
    BY <2>1, <2>3, <2>4, GotoType, PlaceFacts DEF TypeOK
<1>6. CASE SpawnFails(r)
  <2>1. /\ pc[r] = "spawn" /\ Done(r) /\ files' = files \ FileOf(want[r])
        /\ UNCHANGED <<registry, current, victim, killed, proc, age, pin>>
    BY <1>6 DEF SpawnFails
  <2>2. Holds(r)
    BY <1>0, <2>1, PlaceFacts
  <2> QED
    BY <2>1, <2>2, DoneType, FilesType DEF TypeOK
<1>7. CASE HealthAnswered(r)
  BY <1>7, GotoType, PlaceFacts DEF HealthAnswered, TypeOK
<1>8. CASE BecomesReady(r)
  <2>1. /\ pc[r] = "healthy" /\ Return(r) /\ current' = [current EXCEPT !.state = "ready"]
        /\ UNCHANGED <<registry, victim, killed, proc, files, age>>
    BY <1>8 DEF BecomesReady
  <2>2. Holds(r) /\ current \in Entry
    BY <1>0, <2>1, PlaceFacts DEF SlotInv, TypeOK
  <2>3. current' \in Entry
    BY <2>1, <2>2 DEF Entry
  <2> QED
    BY <2>1, <2>2, <2>3, ReturnType DEF TypeOK
<1>9. CASE BootFails(r)
  <2>1. /\ pc[r] = "boot" /\ Done(r) /\ files' = Left(current) /\ current' = None
        /\ UNCHANGED <<registry, victim, killed, proc, age, pin>>
    BY <1>9 DEF BootFails
  <2>2. Holds(r)
    BY <1>0, <2>1, PlaceFacts
  <2> QED
    BY <2>1, <2>2, DoneType, FilesType DEF TypeOK
<1>10. CASE BootTimesOut(r)
  <2>1. Terminate(r, "fail") /\ UNCHANGED <<registry, lockq, want, files, age, pin>>
    BY <1>10 DEF BootTimesOut
  <2> QED
    BY <2>1, TerminateType, PlaceFacts DEF TypeOK
<1>11. CASE FailStopped(r)
  <2>1. /\ pc[r] = "fail" /\ Done(r) /\ files' = Left(victim) /\ victim' = None /\ killed' = FALSE
        /\ UNCHANGED <<registry, current, proc, age, pin>>
    BY <1>11 DEF FailStopped, Stopped
  <2>2. Holds(r)
    BY <1>0, <2>1, PlaceFacts
  <2> QED
    BY <2>1, <2>2, DoneType, FilesType DEF TypeOK
<1> QED
  BY <1>1, <1>2, <1>3, <1>4, <1>5, <1>6, <1>7, <1>8, <1>9, <1>10, <1>11 DEF RequestStep

StopperStep(t) == StopAtOnce(t) \/ BeginStop(t) \/ EndStop(t)

LEMMA RestFacts == \A t \in Stopper : Rest(t) \in {"idle", "sleep", "down"} /\ (t = Closer => Rest(t) = "down")
  BY RoleTasks DEF Rest, Stopper

LEMMA StopperStepType ==
  ASSUME TypeOK, LockInv, NEW t \in Stopper, StopperStep(t)
  PROVE  TypeOK'
<1> t \in Task /\ Rest(t) \in Place
  BY TaskFacts, RestFacts, PlaceFacts
<1>0. pc[t] \in Locked => Holds(t)
  BY DEF LockInv
<1>1. CASE StopAtOnce(t)
  <2>1. /\ Holds(t) /\ Leave(t, Rest(t)) /\ files' = Left(current) /\ current' = None
        /\ UNCHANGED <<registry, want, victim, killed, proc, age, pin>>
    BY <1>1 DEF StopAtOnce, Granted
  <2> QED
    BY <2>1, LeaveType, FilesType DEF TypeOK
<1>2. CASE BeginStop(t)
  <2>1. Terminate(t, "stop") /\ UNCHANGED <<registry, lockq, want, files, age, pin>>
    BY <1>2 DEF BeginStop
  <2> QED
    BY <2>1, TerminateType, PlaceFacts DEF TypeOK
<1>3. CASE EndStop(t)
  <2>1. /\ pc[t] = "stop" /\ Leave(t, Rest(t)) /\ files' = Left(victim) /\ victim' = None /\ killed' = FALSE
        /\ UNCHANGED <<registry, want, current, proc, age, pin>>
    BY <1>3 DEF EndStop, Stopped
  <2>2. Holds(t)
    BY <1>0, <2>1, PlaceFacts
  <2> QED
    BY <2>1, <2>2, LeaveType, FilesType DEF TypeOK
<1> QED
  BY <1>1, <1>2, <1>3 DEF StopperStep

WorldStep(p) == Serves(p) \/ Exits(p) \/ Reaped(p) \/ Forgotten(p)

LEMMA TailEndsEntry ==
  ASSUME TypeOK, TailEnds
  PROVE  /\ current' \in Entry /\ current # None
         /\ current'.model = current.model /\ current'.proc = current.proc
         /\ UNCHANGED <<registry, lockq, pc, want, victim, killed, proc, files, age, pin>>
<1>1. PICK crashed \in BOOLEAN :
        current' = [current EXCEPT !.tail = FALSE,
                                   !.state = IF crashed /\ @ = "ready" THEN "failed" ELSE @]
  BY DEF TailEnds
<1>2. current \in Entry
  BY DEF TailEnds, TypeOK
<1> QED
  BY <1>1, <1>2 DEF TailEnds, Entry

LEMMA NextType ==
  ASSUME TypeOK, LockInv, SlotInv, [Next]_roleVars
  PROVE  TypeOK'
<1> USE TaskFacts
<1>1. ASSUME NEW r \in Request, NEW m \in Model, Ask(r, m) PROVE TypeOK'
  <2>1. lockq' \in Seq(Task) /\ pc' \in [Task -> Place]
    BY <1>1, EnqueueType DEF Ask
  <2> QED
    BY <1>1, <2>1 DEF Ask, TypeOK
<1>2. ASSUME NEW r \in Request, RequestStep(r) PROVE TypeOK'
  BY <1>2, RequestStepType
<1>3. ASSUME NEW t \in Task, Kill(t) PROVE TypeOK'
  BY <1>3 DEF Kill, TypeOK
<1>4. ASSUME NEW t \in Stopper, StopperStep(t) PROVE TypeOK'
  BY <1>4, StopperStepType
<1>5. CASE Reload
  BY <1>5 DEF Reload, TypeOK
<1>6. CASE AskUnload
  <2>1. lockq' \in Seq(Task) /\ pc' \in [Task -> Place]
    BY <1>6, EnqueueType DEF AskUnload
  <2> QED
    BY <1>6, <2>1 DEF AskUnload, TypeOK
<1>7. CASE IdleCheck
  <2>1. lockq' \in Seq(Task) /\ pc' \in [Task -> Place]
    BY <1>7, EnqueueType DEF IdleCheck
  <2> QED
    BY <1>7, <2>1 DEF IdleCheck, TypeOK
<1>8. CASE WatcherSkips
  <2>1. lockq' \in Seq(Task) /\ pc' \in [Task -> Place]
    BY <1>8, LeaveType, PlaceFacts DEF WatcherSkips, Granted
  <2> QED
    BY <1>8, <2>1 DEF WatcherSkips, TypeOK
<1>9. CASE BeginShutdown
  <2>1. lockq' \in Seq(Task) /\ pc' \in [Task -> Place]
    BY <1>9, PlaceFacts DEF BeginShutdown, TypeOK
  <2> QED
    BY <1>9, <2>1 DEF BeginShutdown, TypeOK
<1>10. ASSUME NEW p \in Proc, WorldStep(p) PROVE TypeOK'
  BY <1>10 DEF WorldStep, Serves, Exits, Reaped, Forgotten, Becomes, TypeOK
<1>11. CASE TailEnds
  BY <1>11, TailEndsEntry DEF TypeOK
<1>12. CASE Tick
  <2>1. age' \in 0..MaxAge /\ pin' \in 0..MaxPin
    BY <1>12, RoleClock DEF Tick, TypeOK
  <2> QED
    BY <1>12, <2>1 DEF Tick, TypeOK
<1>13. CASE UNCHANGED roleVars
  BY <1>13 DEF roleVars, TypeOK
<1> QED
  BY <1>1, <1>2, <1>3, <1>4, <1>5, <1>6, <1>7, <1>8, <1>9, <1>10, <1>11, <1>12, <1>13
  DEF Next, Over, StopperStep, WorldStep

--------------------------------------------------------------------------------
(* The lock: what each way of moving does to the queue.                    *)

LEMMA EnqueueLock ==
  ASSUME TypeOK, LockInv, NEW t \in Task, pc[t] \notin InQueue, Enqueue(t)
  PROVE  LockInv'
<1>1. lockq \in Seq(Task) /\ lockq' = Append(lockq, t) /\ pc' = [pc EXCEPT ![t] = "wait"]
  BY DEF TypeOK, Enqueue, Goto
<1>2. \A i \in DOMAIN lockq : lockq[i] # t
  BY DEF LockInv, InQueue
<1>3. "wait" \notin Locked /\ "wait" \in InQueue
  BY PlaceFacts
<1>4. /\ DOMAIN lockq' = 1..(Len(lockq) + 1)
      /\ \A i \in DOMAIN lockq : lockq'[i] = lockq[i]
      /\ lockq'[Len(lockq) + 1] = t
      /\ DOMAIN lockq = 1..Len(lockq) /\ Len(lockq) \in Nat
  BY <1>1
<1>5. \A i, j \in DOMAIN lockq' : lockq'[i] = lockq'[j] => i = j
  <2>1. \A i, j \in DOMAIN lockq : lockq[i] = lockq[j] => i = j
    BY DEF LockInv
  <2> QED
    BY <1>2, <1>4, <2>1
<1>6. \A i \in DOMAIN lockq' : pc'[lockq'[i]] \in InQueue
  <2>1. \A i \in DOMAIN lockq : pc[lockq[i]] \in InQueue /\ lockq[i] \in Task
    BY <1>1 DEF LockInv
  <2> QED
    BY <1>1, <1>2, <1>3, <1>4, <2>1 DEF TypeOK
<1>7. \A u \in Task : pc'[u] \in Locked => lockq' # <<>> /\ Head(lockq') = u
  <2> SUFFICES ASSUME NEW u \in Task, pc'[u] \in Locked
               PROVE  lockq' # <<>> /\ Head(lockq') = u
    OBVIOUS
  <2>1. pc[u] \in Locked
    BY <1>1, <1>3 DEF TypeOK
  <2>2. lockq # <<>> /\ Head(lockq) = u
    BY <2>1 DEF LockInv, Holds
  <2> QED
    BY <1>1, <2>2
<1> QED
  BY <1>5, <1>6, <1>7 DEF LockInv, Holds

LEMMA LeaveLock ==
  ASSUME TypeOK, LockInv, NEW t \in Task, NEW there \in Place \ InQueue,
         Holds(t), Leave(t, there)
  PROVE  LockInv'
<1>1. /\ lockq \in Seq(Task) /\ lockq # <<>> /\ lockq[1] = t
      /\ lockq' = Tail(lockq) /\ pc' = [pc EXCEPT ![t] = there]
  BY DEF TypeOK, Holds, Leave, Goto
<1>2. /\ DOMAIN lockq = 1..Len(lockq) /\ Len(lockq) \in Nat \ {0}
      /\ DOMAIN lockq' = 1..(Len(lockq) - 1)
      /\ \A i \in DOMAIN lockq' : lockq'[i] = lockq[i + 1] /\ i + 1 \in DOMAIN lockq
  BY <1>1
<1>3. \A i, j \in DOMAIN lockq : lockq[i] = lockq[j] => i = j
  BY DEF LockInv
<1>4. \A i, j \in DOMAIN lockq' : lockq'[i] = lockq'[j] => i = j
  BY <1>2, <1>3
<1>5. \A i \in DOMAIN lockq' : lockq'[i] # t
  BY <1>1, <1>2, <1>3
<1>6. \A i \in DOMAIN lockq' : pc'[lockq'[i]] \in InQueue
  <2>1. \A i \in DOMAIN lockq : pc[lockq[i]] \in InQueue /\ lockq[i] \in Task
    BY <1>1 DEF LockInv
  <2> QED
    BY <1>1, <1>2, <1>5, <2>1 DEF TypeOK
<1>7. \A u \in Task : pc'[u] \notin Locked
  <2> SUFFICES ASSUME NEW u \in Task, pc'[u] \in Locked PROVE FALSE
    OBVIOUS
  <2>1. u # t /\ pc[u] \in Locked
    BY <1>1 DEF TypeOK, InQueue
  <2> QED
    BY <2>1 DEF LockInv, Holds
<1> QED
  BY <1>4, <1>6, <1>7 DEF LockInv

LEMMA MoveLock ==
  ASSUME TypeOK, LockInv, NEW t \in Task, NEW there \in Locked,
         Holds(t), Goto(t, there), lockq' = lockq
  PROVE  LockInv'
<1>1. \A i \in DOMAIN lockq : lockq[i] \in Task
  BY DEF TypeOK
<1>2. \A u \in Task : pc'[u] \in Locked => Holds(u)
  BY DEF TypeOK, LockInv, Goto
<1>3. there \in InQueue
  BY DEF InQueue
<1> QED
  BY <1>1, <1>2, <1>3 DEF TypeOK, LockInv, Goto, Holds

LEMMA SameLock ==
  ASSUME LockInv, UNCHANGED <<lockq, pc>> PROVE LockInv'
  BY DEF LockInv, Holds

LEMMA RequestStepLock ==
  ASSUME TypeOK, LockInv, NEW r \in Request, RequestStep(r)
  PROVE  LockInv'
<1> r \in Task
  BY TaskFacts
<1>0. pc[r] \in Locked => Holds(r)
  BY DEF LockInv
<1> USE PlaceFacts
<1>1. CASE Reuse(r)
  BY <1>1, LeaveLock DEF Reuse, Return, Done, Granted
<1>2. CASE BeginSwap(r)
  BY <1>2, MoveLock DEF BeginSwap, Terminate, Granted
<1>3. CASE BeginLaunch(r)
  BY <1>3, MoveLock DEF BeginLaunch, Granted
<1>4. CASE SwapStopped(r)
  BY <1>0, <1>4, MoveLock DEF SwapStopped, Stopped
<1>5. ASSUME NEW p \in Proc, Spawn(r, p) PROVE LockInv'
  BY <1>0, <1>5, MoveLock DEF Spawn
<1>6. CASE SpawnFails(r)
  BY <1>0, <1>6, LeaveLock DEF SpawnFails, Done
<1>7. CASE HealthAnswered(r)
  BY <1>0, <1>7, MoveLock DEF HealthAnswered
<1>8. CASE BecomesReady(r)
  BY <1>0, <1>8, LeaveLock DEF BecomesReady, Return, Done
<1>9. CASE BootFails(r)
  BY <1>0, <1>9, LeaveLock DEF BootFails, Done
<1>10. CASE BootTimesOut(r)
  BY <1>0, <1>10, MoveLock DEF BootTimesOut, Terminate
<1>11. CASE FailStopped(r)
  BY <1>0, <1>11, LeaveLock DEF FailStopped, Stopped, Done
<1> QED
  BY <1>1, <1>2, <1>3, <1>4, <1>5, <1>6, <1>7, <1>8, <1>9, <1>10, <1>11 DEF RequestStep

LEMMA StopperStepLock ==
  ASSUME TypeOK, LockInv, NEW t \in Stopper, StopperStep(t)
  PROVE  LockInv'
<1> t \in Task /\ Rest(t) \in Place \ InQueue
  BY TaskFacts, RestFacts, PlaceFacts
<1>0. pc[t] \in Locked => Holds(t)
  BY DEF LockInv
<1> USE PlaceFacts
<1>1. CASE StopAtOnce(t)
  BY <1>1, LeaveLock DEF StopAtOnce, Granted
<1>2. CASE BeginStop(t)
  BY <1>2, MoveLock DEF BeginStop, Terminate, Granted
<1>3. CASE EndStop(t)
  BY <1>0, <1>3, LeaveLock DEF EndStop, Stopped
<1> QED
  BY <1>1, <1>2, <1>3 DEF StopperStep

LEMMA NextLock ==
  ASSUME TypeOK, LockInv, [Next]_roleVars
  PROVE  LockInv'
<1> USE TaskFacts, PlaceFacts
<1>1. ASSUME NEW r \in Request, NEW m \in Model, Ask(r, m) PROVE LockInv'
  BY <1>1, EnqueueLock DEF Ask
<1>2. ASSUME NEW r \in Request, RequestStep(r) PROVE LockInv'
  BY <1>2, RequestStepLock
<1>3. ASSUME NEW t \in Task, Kill(t) PROVE LockInv'
  BY <1>3, SameLock DEF Kill
<1>4. ASSUME NEW t \in Stopper, StopperStep(t) PROVE LockInv'
  BY <1>4, StopperStepLock
<1>5. CASE Reload
  BY <1>5, SameLock DEF Reload
<1>6. CASE AskUnload
  BY <1>6, EnqueueLock DEF AskUnload
<1>7. CASE IdleCheck
  BY <1>7, EnqueueLock DEF IdleCheck
<1>8. CASE WatcherSkips
  BY <1>8, LeaveLock DEF WatcherSkips, Granted
<1>9. CASE BeginShutdown
  <2>1. lockq' = <<Closer>> /\ pc' = [pc EXCEPT ![Watcher] = "cancelled", ![Closer] = "wait"]
    BY <1>9 DEF BeginShutdown
  <2>2. \A t \in Task : pc'[t] \notin Locked
    <3>1. ASSUME NEW t \in Task PROVE pc'[t] \in {"idle", "cancelled", "wait"}
      <4>1. t \in Request \cup {Unloader, Watcher, Closer}
        BY DEF Task
      <4> QED
        BY <1>9, <2>1, <4>1 DEF BeginShutdown, TypeOK
    <3>2. {"idle", "cancelled", "wait"} \cap Locked = {}
      BY DEF Locked, Stopping
    <3> QED
      BY <3>1, <3>2, Zenon
  <2>3. pc'[Closer] = "wait"
    BY <2>1 DEF TypeOK
  <2>4. lockq' = <<Closer>> /\ DOMAIN lockq' = {1} /\ lockq'[1] = Closer
    BY <2>1
  <2> QED
    BY <2>2, <2>3, <2>4 DEF LockInv
<1>10. ASSUME NEW p \in Proc, WorldStep(p) PROVE LockInv'
  BY <1>10, SameLock DEF WorldStep, Serves, Exits, Reaped, Forgotten, Becomes
<1>11. CASE TailEnds
  BY <1>11, SameLock DEF TailEnds
<1>12. CASE Tick
  BY <1>12, SameLock DEF Tick
<1>13. CASE UNCHANGED roleVars
  BY <1>13, SameLock DEF roleVars
<1> QED
  BY <1>1, <1>2, <1>3, <1>4, <1>5, <1>6, <1>7, <1>8, <1>9, <1>10, <1>11, <1>12, <1>13
  DEF Next, Over, StopperStep, WorldStep

--------------------------------------------------------------------------------
(* The slot and what it owns.                                              *)

Alone(t) == \A u \in Task \ {t} : pc[u] \notin Locked

HeldBy(c, v) == {entry.model : entry \in {c, v} \ {None}}
SpawnedBy(t) == {want[r] : r \in {q \in Request \cap {t} : pc[q] = "spawn"}}

LEMMA HeldFacts ==
  /\ HeldBy(None, None) = {}
  /\ \A c : c # None => HeldBy(c, None) = {c.model} /\ HeldBy(None, c) = {c.model}
  BY DEF HeldBy

(* Whoever has just been granted the lock finds nobody inside.             *)
LEMMA GrantedAlone ==
  ASSUME LockInv, SlotInv, NEW t \in Task, Granted(t)
  PROVE  Holds(t) /\ pc[t] = "wait" /\ victim = None /\ Alone(t)
<1>1. lockq # <<>> /\ Head(lockq) = t /\ pc[t] = "wait"
  BY DEF Granted, Holds
<1>2. pc[t] \notin Locked
  BY <1>1, PlaceFacts
<1>3. \A u \in Task : pc[u] \notin Locked
  BY <1>1, <1>2 DEF LockInv, Holds
<1>4. victim = None
  BY <1>1, <1>2, PlaceFacts DEF SlotInv
<1> QED
  BY <1>1, <1>3, <1>4 DEF Holds, Alone

(* Whoever is inside is alone there.                                       *)
LEMMA InsideAlone ==
  ASSUME LockInv, NEW t \in Task, pc[t] \in Locked
  PROVE  Holds(t) /\ Alone(t)
  BY DEF LockInv, Holds, Alone

(* With t alone, the files are those of the entries and of t's spawn.      *)
LEMMA FilesAlone ==
  ASSUME RoleFilesMatch, NEW t \in Task, Alone(t), Open
  PROVE  files = Structured \cap (HeldBy(current, victim) \cup SpawnedBy(t))
<1>1. {q \in Request : pc[q] = "spawn"} = {q \in Request \cap {t} : pc[q] = "spawn"}
  BY TaskFacts, PlaceFacts DEF Alone
<1> QED
  BY <1>1 DEF RoleFilesMatch, HeldBy, SpawnedBy

(* Shutdown is not undone, and every request has ended when it begins.     *)
LEMMA OpenFrame ==
  ASSUME TypeOK, SlotInv, NEW t \in Task, NEW there, pc[t] \in InQueue,
         t = Closer => there # "idle", Goto(t, there)
  PROVE  /\ Open' => Open
         /\ ~Open' => pc'[Watcher] = "cancelled" /\ \A r \in Request : pc'[r] = "idle"
<1> USE TaskFacts DEF TypeOK, Open, Goto
<1>1. pc[t] # "idle" /\ pc[t] # "cancelled"
  BY PlaceFacts
<1>2. CASE t = Closer
  BY <1>1, <1>2 DEF SlotInv
<1>3. CASE t # Closer
  BY <1>1, <1>3 DEF SlotInv
<1> QED
  BY <1>2, <1>3

(* A step of task t while nobody else is inside: what is left to show of   *)
(* the slot concerns t alone.                                              *)
LEMMA AloneSlot ==
  ASSUME TypeOK, SlotInv, NEW t \in Task, NEW there, Goto(t, there), Alone(t), pc[t] \in InQueue,
         t = Closer => there # "idle",
         there \in Stopping => victim' # None,
         victim' # None => current' = None /\ lockq' # <<>> /\ Head(lockq') = t /\ there \in Stopping,
         there = "spawn" => victim' = None /\ current' = None,
         there \in {"boot", "healthy"} => victim' = None /\ current' # None,
         \A r \in Request \ {t} : want'[r] = want[r],
         t \in Request /\ there \in InQueue => want'[t] = want[t],
         t \in Stopper /\ there \in Locked => there = "stop"
  PROVE  SlotInv' /\ Alone(t)' /\ pc'[t] = there
<1>1. pc'[t] = there /\ \A u \in Task \ {t} : pc'[u] = pc[u]
  BY DEF TypeOK, Goto
<1>2. ~Open' => pc'[Watcher] = "cancelled" /\ \A r \in Request : pc'[r] = "idle"
  BY OpenFrame
<1>3. \A u \in Task \ {t} : pc'[u] \notin Locked
  BY <1>1 DEF Alone
<1>4. Stopping \subseteq Locked /\ {"spawn", "boot", "healthy"} \subseteq Locked
  BY PlaceFacts
<1>5. \A u \in Task : pc'[u] \in Stopping => victim' # None
  BY <1>1, <1>3, <1>4
<1>6. victim' # None => current' = None /\ lockq' # <<>> /\ pc'[Head(lockq')] \in Stopping
  BY <1>1
<1>7. /\ \A r \in Request : pc'[r] = "spawn" => victim' = None /\ current' = None
      /\ \A r \in Request : pc'[r] \in {"boot", "healthy"} => victim' = None /\ current' # None
  BY <1>1, <1>3, <1>4, TaskFacts
<1>8. \A r \in Request : pc'[r] \in InQueue => want'[r] \in Model
  BY <1>1, TaskFacts DEF SlotInv
<1>9. \A u \in Stopper : pc'[u] \in Locked => pc'[u] = "stop"
  BY <1>1, <1>3, TaskFacts
<1> QED
  BY <1>1, <1>2, <1>3, <1>5, <1>6, <1>7, <1>8, <1>9 DEF SlotInv, Alone

(* After it, what is left to show of the processes and files.              *)
LEMMA AloneOwn ==
  ASSUME NEW t \in Task, Alone(t)',
         \A p, q \in Proc : Live(p)' /\ Live(q)' => p = q,
         Open' => \A p \in Proc : Live(p)' => Mine(p, current') \/ Mine(p, victim'),
         Open' => files' = Structured \cap (HeldBy(current', victim') \cup SpawnedBy(t)')
  PROVE  OwnInv'
<1>1. {q \in Request : pc'[q] = "spawn"} = {q \in Request \cap {t} : pc'[q] = "spawn"}
  BY TaskFacts, PlaceFacts DEF Alone
<1>2. RoleFilesMatch'
  BY <1>1 DEF RoleFilesMatch, HeldBy, SpawnedBy
<1> QED
  BY <1>2 DEF OwnInv, Mine

(* A task asks for the lock or is told to: it stays outside.               *)
LEMMA EnqueueSlot ==
  ASSUME TypeOK, LockInv, SlotInv, OwnInv, NEW t \in Task \ {Closer}, pc[t] \notin InQueue, Enqueue(t), Open,
         UNCHANGED <<current, victim, proc, files>>,
         \A r \in Request \ {t} : want'[r] = want[r],
         t \in Request => want'[t] \in Model
  PROVE  SlotInv' /\ OwnInv'
<1>1. /\ pc'[t] = "wait" /\ \A u \in Task \ {t} : pc'[u] = pc[u]
      /\ lockq # <<>> => lockq' # <<>> /\ Head(lockq') = Head(lockq) /\ Head(lockq) \in Task
  BY DEF TypeOK, Enqueue, Goto
<1>2. Open'
  BY <1>1, TaskFacts DEF Open
<1>3. "wait" \notin Locked /\ pc[t] \notin Locked /\ Stopping \subseteq Locked
      /\ {"spawn", "boot", "healthy"} \subseteq Locked
  BY PlaceFacts DEF InQueue
<1>4. \A u \in Task : pc'[u] \in Locked => pc'[u] = pc[u]
  BY <1>1, <1>3
<1>5. /\ \A u \in Task : pc'[u] \in Stopping => victim' # None
      /\ \A r \in Request : pc'[r] = "spawn" => victim' = None /\ current' = None
      /\ \A r \in Request : pc'[r] \in {"boot", "healthy"} => victim' = None /\ current' # None
      /\ \A u \in Stopper : pc'[u] \in Locked => pc'[u] = "stop"
  BY <1>3, <1>4, TaskFacts DEF SlotInv
<1>6. victim' # None => current' = None /\ lockq' # <<>> /\ pc'[Head(lockq')] \in Stopping
  BY <1>1, <1>3 DEF SlotInv
<1>7. \A r \in Request : pc'[r] \in InQueue => want'[r] \in Model
  BY <1>1, TaskFacts DEF SlotInv
<1>8. SlotInv'
  BY <1>2, <1>5, <1>6, <1>7 DEF SlotInv
<1>9. /\ {q \in Request : pc'[q] = "spawn"} = {q \in Request : pc[q] = "spawn"}
      /\ \A r \in {q \in Request : pc[q] = "spawn"} : want'[r] = want[r]
  BY <1>1, <1>3, TaskFacts
<1>10. {want'[r] : r \in {q \in Request : pc'[q] = "spawn"}} = {want[r] : r \in {q \in Request : pc[q] = "spawn"}}
  BY <1>9
<1>11. RoleFilesMatch'
  BY <1>2, <1>10 DEF OwnInv, RoleFilesMatch
<1> QED
  BY <1>8, <1>11, <1>2 DEF OwnInv, Live, Mine

(* A step of the world around the tasks: no process comes to life.         *)
LEMMA FrameSlot ==
  ASSUME SlotInv, OwnInv, UNCHANGED <<lockq, pc, want, victim, files>>,
         current = None => current' = None,
         current # None => current' # None /\ current'.model = current.model /\ current'.proc = current.proc,
         \A p \in Proc : Live(p)' => Live(p)
  PROVE  SlotInv' /\ OwnInv'
<1>1. SlotInv'
  BY DEF SlotInv, Open
<1>2. HeldBy(current', victim') = HeldBy(current, victim)
  BY DEF HeldBy
<1>3. RoleFilesMatch'
  BY <1>2 DEF OwnInv, RoleFilesMatch, HeldBy, Open
<1>4. \A p \in Proc : Mine(p, current) => Mine(p, current')
  BY DEF Mine
<1> QED
  BY <1>1, <1>3, <1>4 DEF OwnInv, Open

(* Sending SIGTERM and stepping into the await of _stop_current.           *)
LEMMA TerminateSlot ==
  ASSUME TypeOK, SlotInv, OwnInv, NEW t \in Task, NEW why \in Stopping, Terminate(t, why),
         Holds(t), Alone(t), pc[t] \in InQueue, pc[t] # "spawn", victim = None,
         t \in Stopper => why = "stop", UNCHANGED <<lockq, want, files>>
  PROVE  SlotInv' /\ OwnInv'
<1>1. /\ current # None /\ victim' = current /\ current' = None /\ Goto(t, why) /\ proc' = proc
  BY DEF Terminate
<1>2. why \in Locked /\ why \notin {"idle", "spawn", "boot", "healthy"}
  BY DEF Locked, Stopping
<1>3. SlotInv' /\ Alone(t)' /\ pc'[t] = why
  BY <1>1, <1>2, AloneSlot DEF Holds
<1>4. Open' => Open
  BY <1>1, <1>2, OpenFrame
<1>5. SpawnedBy(t) = {} /\ SpawnedBy(t)' = {}
  BY <1>2, <1>3 DEF SpawnedBy
<1>6. Open' => files' = Structured \cap (HeldBy(current', victim') \cup SpawnedBy(t)')
  BY <1>1, <1>4, <1>5, FilesAlone, HeldFacts DEF OwnInv
<1>7. \A p \in Proc : Live(p)' <=> Live(p)
  BY <1>1 DEF Live
<1> QED
  BY <1>1, <1>3, <1>4, <1>6, <1>7, AloneOwn DEF OwnInv, Mine

(* The process that is given up has died.                                  *)
LEMMA QuickFacts ==
  ASSUME OwnInv, Quick
  PROVE  \A p \in Proc : ~(Live(p) /\ Mine(p, current))
  BY DEF Quick, Now, Live, Mine

LEMMA StoppedFacts ==
  ASSUME NEW t, NEW why, Stopped(t, why)
  PROVE  \A p \in Proc : ~(Live(p) /\ Mine(p, victim))
  BY DEF Stopped, Now, Live, Mine

(* What becomes of the files when one entry is given up.                   *)
LEMMA LeftFacts ==
  ASSUME NEW c, files = Structured \cap (HeldBy(c, None) \cup {})
  PROVE  Left(c) = {} /\ \A m : Left(c) \cup FileOf(m) = Structured \cap ({} \cup {m})
<1>1. Left(c) = {}
  <2>1. CASE c = None
    BY <2>1, HeldFacts DEF Left
  <2>2. CASE c # None
    BY <2>2, HeldFacts, FileFacts DEF Left
  <2> QED
    BY <2>1, <2>2
<1> QED
  BY <1>1, FileFacts

LEMMA RequestStepSlot ==
  ASSUME TypeOK, LockInv, SlotInv, OwnInv, NEW r \in Request, RequestStep(r)
  PROVE  SlotInv' /\ OwnInv'
<1>a. r \in Task /\ r # Closer /\ r \notin Stopper
  BY TaskFacts
<1>b. pc[r] \in Locked => Holds(r) /\ Alone(r) /\ pc[r] \in InQueue
  BY <1>a, InsideAlone DEF InQueue
<1>c. Granted(r) => /\ victim = None /\ Holds(r) /\ Alone(r)
                    /\ pc[r] = "wait" /\ pc[r] \in InQueue /\ pc[r] # "spawn"
  BY <1>a, GrantedAlone, PlaceFacts
<1>d. ASSUME NEW there, pc[r] \in InQueue, Goto(r, there) PROVE Open' => Open
  BY <1>a, <1>d, OpenFrame
<1>e. Alone(r) /\ Open => files = Structured \cap (HeldBy(current, victim) \cup SpawnedBy(r))
  BY <1>a, FilesAlone DEF OwnInv
<1>f. /\ pc[r] # "spawn" => SpawnedBy(r) = {}
      /\ pc[r] = "spawn" => SpawnedBy(r) = {want[r]}
      /\ pc'[r] # "spawn" => SpawnedBy(r)' = {}
      /\ pc'[r] = "spawn" => SpawnedBy(r)' = {want'[r]}
  BY DEF SpawnedBy
<1>g. /\ {"idle", "sleep", "down"} \cap InQueue = {} /\ {"idle", "boot", "healthy", "spawn"} \cap Stopping = {}
      /\ {"swap", "fail"} \subseteq Stopping /\ {"spawn", "boot", "healthy"} \cup Stopping \subseteq Locked
  BY DEF InQueue, Locked, Stopping
<1>h. ASSUME Done(r) PROVE Goto(r, "idle") /\ \A q \in Request \ {r} : want'[q] = want[q]
  BY <1>h DEF Done, Leave, TypeOK
<1>i. ASSUME proc' = proc PROVE \A p \in Proc : Live(p)' <=> Live(p)
  BY <1>i DEF Live
<1>1. CASE Reuse(r)
  <2>1. Done(r) /\ UNCHANGED <<current, victim, proc, files>> /\ Granted(r)
    BY <1>1 DEF Reuse, Return
  <2>2. SlotInv' /\ Alone(r)' /\ pc'[r] = "idle"
    BY <1>a, <1>c, <1>g, <1>h, <2>1, AloneSlot
  <2>3. Open' => files' = Structured \cap (HeldBy(current', victim') \cup SpawnedBy(r)')
    BY <1>c, <1>d, <1>e, <1>f, <1>h, <2>1, <2>2
  <2> QED
    BY <1>a, <1>c, <1>d, <1>h, <1>i, <2>1, <2>2, <2>3, AloneOwn DEF OwnInv, Mine
<1>2. CASE BeginSwap(r)
  BY <1>2, <1>a, <1>c, <1>g, TerminateSlot DEF BeginSwap
<1>3. CASE BeginLaunch(r)
  <2>1. /\ Granted(r) /\ Goto(r, "spawn") /\ current' = None /\ Quick
        /\ files' = Left(current) \cup FileOf(want[r])
        /\ UNCHANGED <<lockq, want, victim, proc>>
    BY <1>3 DEF BeginLaunch
  <2>2. SlotInv' /\ Alone(r)' /\ pc'[r] = "spawn"
    BY <1>a, <1>c, <1>g, <2>1, AloneSlot
  <2>3. Open' => files' = Structured \cap (HeldBy(current', victim') \cup SpawnedBy(r)')
    BY <1>c, <1>d, <1>e, <1>f, <2>1, <2>2, LeftFacts, HeldFacts
  <2>4. Open' => \A p \in Proc : ~Live(p)
    BY <1>c, <1>d, <2>1, QuickFacts DEF OwnInv, Mine
  <2> QED
    BY <1>a, <1>i, <2>1, <2>2, <2>3, <2>4, AloneOwn DEF OwnInv
<1>4. CASE SwapStopped(r)
  <2>1. /\ pc[r] = "swap" /\ Goto(r, "spawn") /\ victim' = None /\ Stopped(r, "swap")
        /\ files' = Left(victim) \cup FileOf(want[r])
        /\ UNCHANGED <<lockq, want, current, proc>>
    BY <1>4 DEF SwapStopped, Stopped
  <2>2. pc[r] \in Locked /\ victim # None /\ current = None
    BY <1>a, <1>g, <2>1 DEF SlotInv
  <2>3. SlotInv' /\ Alone(r)' /\ pc'[r] = "spawn"
    BY <1>a, <1>b, <1>g, <2>1, <2>2, AloneSlot
  <2>4. Open' => files' = Structured \cap (HeldBy(current', victim') \cup SpawnedBy(r)')
    <3>1. HeldBy(current, victim) = HeldBy(victim, None)
      BY <2>2, HeldFacts
    <3> QED
      BY <1>b, <1>d, <1>e, <1>f, <2>1, <2>2, <2>3, <3>1, LeftFacts, HeldFacts
  <2>5. Open' => \A p \in Proc : ~Live(p)
    BY <1>b, <1>d, <2>1, <2>2, StoppedFacts DEF OwnInv, Mine
  <2> QED
    BY <1>a, <1>i, <2>1, <2>3, <2>4, <2>5, AloneOwn DEF OwnInv
<1>5. ASSUME NEW p \in Proc, Spawn(r, p) PROVE SlotInv' /\ OwnInv'
  <2>1. /\ pc[r] = "spawn" /\ Goto(r, "boot") /\ proc' = [proc EXCEPT ![p] = "booting"]
        /\ current' = [model |-> want[r], proc |-> p, state |-> "loading", tail |-> TRUE]
        /\ UNCHANGED <<lockq, want, victim, files>>
    BY <1>5 DEF Spawn
  <2>2. /\ pc[r] \in Locked /\ pc[r] \in InQueue /\ current = None /\ victim = None /\ Open
        /\ want[r] \in Model
    BY <1>b, <1>g, <2>1 DEF SlotInv
  <2>3. current' # None /\ current'.model = want[r] /\ current'.proc = p
    <3>1. current' \in Entry
      BY <2>1, <2>2 DEF Entry
    <3> QED
      BY <2>1, <3>1, RoleNone
  <2>4. SlotInv' /\ Alone(r)' /\ pc'[r] = "boot"
    BY <1>a, <1>b, <1>g, <2>1, <2>2, <2>3, AloneSlot
  <2>5. Open' => files' = Structured \cap (HeldBy(current', victim') \cup SpawnedBy(r)')
    BY <1>b, <1>e, <1>f, <2>1, <2>2, <2>3, <2>4, HeldFacts
  <2>6. \A q \in Proc : ~Live(q)
    BY <2>2 DEF OwnInv, Mine
  <2>7. \A q \in Proc : Live(q)' => q = p
    BY <2>1, <2>6 DEF Live, TypeOK
  <2> QED
    BY <1>a, <2>3, <2>4, <2>5, <2>7, AloneOwn DEF Mine
<1>6. CASE SpawnFails(r)
  <2>1. pc[r] = "spawn" /\ Done(r) /\ files' = files \ FileOf(want[r]) /\ UNCHANGED <<current, victim, proc>>
    BY <1>6 DEF SpawnFails
  <2>2. pc[r] \in Locked /\ current = None /\ victim = None
    BY <1>g, <2>1 DEF SlotInv
  <2>3. SlotInv' /\ Alone(r)' /\ pc'[r] = "idle"
    BY <1>a, <1>b, <1>g, <1>h, <2>1, <2>2, AloneSlot
  <2>4. Open' => files' = Structured \cap (HeldBy(current', victim') \cup SpawnedBy(r)')
    <3> SUFFICES ASSUME Open' PROVE files' = {} /\ HeldBy(current', victim') = {} /\ SpawnedBy(r)' = {}
      OBVIOUS
    <3>1. files = Structured \cap {want[r]}
      BY <1>b, <1>d, <1>e, <1>f, <1>h, <2>1, <2>2, HeldFacts
    <3> QED
      BY <1>f, <2>1, <2>2, <2>3, <3>1, HeldFacts, FileFacts
  <2> QED
    BY <1>a, <1>b, <1>d, <1>h, <1>i, <2>1, <2>2, <2>3, <2>4, AloneOwn DEF OwnInv, Mine
<1>7. CASE HealthAnswered(r)
  <2>1. pc[r] = "boot" /\ Goto(r, "healthy") /\ UNCHANGED <<lockq, want, current, victim, proc, files>>
    BY <1>7 DEF HealthAnswered
  <2>2. pc[r] \in Locked /\ current # None /\ victim = None
    BY <1>g, <2>1 DEF SlotInv
  <2>3. SlotInv' /\ Alone(r)' /\ pc'[r] = "healthy"
    BY <1>a, <1>b, <1>g, <2>1, <2>2, AloneSlot
  <2>4. Open' => files' = Structured \cap (HeldBy(current', victim') \cup SpawnedBy(r)')
    BY <1>b, <1>d, <1>e, <1>f, <2>1, <2>2, <2>3
  <2> QED
    BY <1>a, <1>b, <1>d, <1>i, <2>1, <2>2, <2>3, <2>4, AloneOwn DEF OwnInv, Mine
<1>8. CASE BecomesReady(r)
  <2>1. /\ pc[r] = "healthy" /\ Done(r) /\ current' = [current EXCEPT !.state = "ready"]
        /\ UNCHANGED <<victim, proc, files>>
    BY <1>8 DEF BecomesReady, Return
  <2>2. pc[r] \in Locked /\ current \in Entry /\ current # None /\ victim = None
    BY <1>g, <2>1 DEF SlotInv, TypeOK
  <2>3. current' \in Entry /\ current'.model = current.model /\ current'.proc = current.proc
    BY <2>1, <2>2 DEF Entry
  <2>4. current' # None
    BY <2>3, RoleNone
  <2>5. SlotInv' /\ Alone(r)' /\ pc'[r] = "idle"
    BY <1>a, <1>b, <1>g, <1>h, <2>1, <2>2, <2>4, AloneSlot
  <2>6. Open' => files' = Structured \cap (HeldBy(current', victim') \cup SpawnedBy(r)')
    BY <1>b, <1>d, <1>e, <1>f, <1>h, <2>1, <2>2, <2>3, <2>4, <2>5, HeldFacts
  <2> QED
    BY <1>a, <1>b, <1>d, <1>h, <1>i, <2>1, <2>2, <2>3, <2>4, <2>5, <2>6, AloneOwn DEF OwnInv, Mine
<1>9. CASE BootFails(r)
  <2>1. /\ pc[r] = "boot" /\ Done(r) /\ files' = Left(current) /\ current' = None /\ Quick
        /\ UNCHANGED <<victim, proc>>
    BY <1>9 DEF BootFails
  <2>2. pc[r] \in Locked /\ victim = None
    BY <1>g, <2>1 DEF SlotInv
  <2>3. SlotInv' /\ Alone(r)' /\ pc'[r] = "idle"
    BY <1>a, <1>b, <1>g, <1>h, <2>1, <2>2, AloneSlot
  <2>4. Open' => files' = Structured \cap (HeldBy(current', victim') \cup SpawnedBy(r)')
    BY <1>b, <1>d, <1>e, <1>f, <1>h, <2>1, <2>2, <2>3, LeftFacts, HeldFacts
  <2>5. Open' => \A p \in Proc : ~Live(p)
    BY <1>b, <1>d, <1>h, <2>1, <2>2, QuickFacts DEF OwnInv, Mine
  <2> QED
    BY <1>a, <1>i, <2>1, <2>3, <2>4, <2>5, AloneOwn DEF OwnInv
<1>10. CASE BootTimesOut(r)
  <2>1. pc[r] = "boot" /\ Terminate(r, "fail") /\ UNCHANGED <<lockq, want, files>>
    BY <1>10 DEF BootTimesOut
  <2>2. victim = None /\ pc[r] \in Locked /\ pc[r] # "spawn"
    BY <1>g, <2>1 DEF SlotInv
  <2> QED
    BY <1>a, <1>b, <1>g, <2>1, <2>2, TerminateSlot
<1>11. CASE FailStopped(r)
  <2>1. /\ pc[r] = "fail" /\ Done(r) /\ victim' = None /\ Stopped(r, "fail")
        /\ files' = Left(victim) /\ UNCHANGED <<current, proc>>
    BY <1>11 DEF FailStopped, Stopped
  <2>2. pc[r] \in Locked /\ victim # None /\ current = None
    BY <1>a, <1>g, <2>1 DEF SlotInv
  <2>3. SlotInv' /\ Alone(r)' /\ pc'[r] = "idle"
    BY <1>a, <1>b, <1>g, <1>h, <2>1, <2>2, AloneSlot
  <2>4. Open' => files' = Structured \cap (HeldBy(current', victim') \cup SpawnedBy(r)')
    <3>1. HeldBy(current, victim) = HeldBy(victim, None)
      BY <2>2, HeldFacts
    <3> QED
      BY <1>b, <1>d, <1>e, <1>f, <1>h, <2>1, <2>2, <2>3, <3>1, LeftFacts, HeldFacts
  <2>5. Open' => \A p \in Proc : ~Live(p)
    BY <1>b, <1>d, <1>h, <2>1, <2>2, StoppedFacts DEF OwnInv, Mine
  <2> QED
    BY <1>a, <1>i, <2>1, <2>3, <2>4, <2>5, AloneOwn DEF OwnInv
<1> QED
  BY <1>1, <1>2, <1>3, <1>4, <1>5, <1>6, <1>7, <1>8, <1>9, <1>10, <1>11 DEF RequestStep

LEMMA StopperStepSlot ==
  ASSUME TypeOK, LockInv, SlotInv, OwnInv, NEW t \in Stopper, StopperStep(t)
  PROVE  SlotInv' /\ OwnInv'
<1>a. t \in Task /\ t \notin Request /\ (t = Closer => Rest(t) # "idle")
  BY TaskFacts, RestFacts
<1>b. pc[t] \in Locked => Holds(t) /\ Alone(t) /\ pc[t] \in InQueue
  BY <1>a, InsideAlone DEF InQueue
<1>c. Granted(t) => /\ victim = None /\ Holds(t) /\ Alone(t)
                    /\ pc[t] = "wait" /\ pc[t] \in InQueue /\ pc[t] # "spawn"
  BY <1>a, GrantedAlone, PlaceFacts
<1>d. ASSUME pc[t] \in InQueue, Goto(t, Rest(t)) PROVE Open' => Open
  BY <1>a, <1>d, OpenFrame
<1>e. Alone(t) /\ Open => files = Structured \cap (HeldBy(current, victim) \cup {})
  BY <1>a, FilesAlone DEF OwnInv, SpawnedBy
<1>f. SpawnedBy(t)' = {}
  BY <1>a DEF SpawnedBy
<1>g. Rest(t) \notin InQueue /\ Rest(t) \notin Locked \cup {"spawn", "boot", "healthy"} /\ "stop" \in Stopping
      /\ Stopping \subseteq Locked
  BY RestFacts DEF InQueue, Locked, Stopping
<1>i. ASSUME proc' = proc PROVE \A p \in Proc : Live(p)' <=> Live(p)
  BY <1>i DEF Live
<1>1. CASE StopAtOnce(t)
  <2>1. /\ Granted(t) /\ Goto(t, Rest(t)) /\ Quick /\ files' = Left(current) /\ current' = None
        /\ UNCHANGED <<want, victim, proc>>
    BY <1>1 DEF StopAtOnce, Leave
  <2>2. SlotInv' /\ Alone(t)'
    BY <1>a, <1>c, <1>g, <2>1, AloneSlot
  <2>3. Open' => files' = Structured \cap (HeldBy(current', victim') \cup SpawnedBy(t)')
    BY <1>c, <1>d, <1>e, <1>f, <2>1, LeftFacts, HeldFacts
  <2>4. Open' => \A p \in Proc : ~Live(p)
    BY <1>c, <1>d, <2>1, QuickFacts DEF OwnInv, Mine
  <2> QED
    BY <1>a, <1>i, <2>1, <2>2, <2>3, <2>4, AloneOwn DEF OwnInv
<1>2. CASE BeginStop(t)
  <2>1. Granted(t) /\ Terminate(t, "stop") /\ UNCHANGED <<lockq, want, files>>
    BY <1>2 DEF BeginStop
  <2> QED
    BY <1>a, <1>c, <1>g, <2>1, TerminateSlot
<1>3. CASE EndStop(t)
  <2>1. /\ pc[t] = "stop" /\ Goto(t, Rest(t)) /\ victim' = None /\ Stopped(t, "stop")
        /\ files' = Left(victim) /\ UNCHANGED <<want, current, proc>>
    BY <1>3 DEF EndStop, Stopped, Leave
  <2>2. pc[t] \in Locked /\ victim # None /\ current = None
    BY <1>a, <1>g, <2>1 DEF SlotInv
  <2>3. SlotInv' /\ Alone(t)'
    BY <1>a, <1>b, <1>g, <2>1, <2>2, AloneSlot
  <2>4. Open' => files' = Structured \cap (HeldBy(current', victim') \cup SpawnedBy(t)')
    <3>1. HeldBy(current, victim) = HeldBy(victim, None)
      BY <2>2, HeldFacts
    <3> QED
      BY <1>b, <1>d, <1>e, <1>f, <2>1, <2>2, <3>1, LeftFacts, HeldFacts
  <2>5. Open' => \A p \in Proc : ~Live(p)
    BY <1>b, <1>d, <2>1, <2>2, StoppedFacts DEF OwnInv, Mine
  <2> QED
    BY <1>a, <1>i, <2>1, <2>3, <2>4, <2>5, AloneOwn DEF OwnInv
<1> QED
  BY <1>1, <1>2, <1>3 DEF StopperStep

(* The watcher finds there is nothing to unload and gives the lock back.   *)
LEMMA SkipSlot ==
  ASSUME TypeOK, LockInv, SlotInv, OwnInv, WatcherSkips
  PROVE  SlotInv' /\ OwnInv'
<1>1. /\ Granted(Watcher) /\ Goto(Watcher, "sleep")
      /\ UNCHANGED <<want, current, victim, proc, files>>
  BY DEF WatcherSkips, Leave
<1>2. victim = None /\ Holds(Watcher) /\ Alone(Watcher) /\ pc[Watcher] \in InQueue
  BY <1>1, TaskFacts, GrantedAlone, PlaceFacts
<1>3. "sleep" \notin InQueue /\ "sleep" \notin Locked
  BY DEF InQueue, Locked, Stopping
<1>4. Watcher \in Task /\ Watcher # Closer /\ Watcher \notin Request
  BY TaskFacts
<1>5. SlotInv' /\ Alone(Watcher)'
  BY <1>1, <1>2, <1>3, <1>4, AloneSlot, PlaceFacts
<1>6. Open' => Open
  BY <1>1, <1>2, <1>4, OpenFrame
<1>7. SpawnedBy(Watcher) = {} /\ SpawnedBy(Watcher)' = {}
  BY <1>4 DEF SpawnedBy
<1>8. Open' => files' = Structured \cap (HeldBy(current', victim') \cup SpawnedBy(Watcher)')
  BY <1>1, <1>2, <1>4, <1>6, <1>7, FilesAlone DEF OwnInv
<1>9. \A p \in Proc : Live(p)' <=> Live(p)
  BY <1>1 DEF Live
<1> QED
  BY <1>1, <1>4, <1>5, <1>6, <1>8, <1>9, AloneOwn DEF OwnInv, Mine

LEMMA ShutdownSlot ==
  ASSUME TypeOK, LockInv, SlotInv, OwnInv, BeginShutdown
  PROVE  SlotInv' /\ OwnInv'
<1>1. /\ victim' = None /\ UNCHANGED <<current, proc>>
      /\ pc' = [pc EXCEPT ![Watcher] = "cancelled", ![Closer] = "wait"]
      /\ \A t \in Request \cup {Unloader} : pc[t] = "idle"
  BY DEF BeginShutdown
<1>2. pc'[Closer] = "wait" /\ pc'[Watcher] = "cancelled"
  BY <1>1, TaskFacts DEF TypeOK
<1>3. \A t \in Request \cup {Unloader} : pc'[t] = "idle"
  BY <1>1, TaskFacts DEF TypeOK
<1>4. ~Open'
  BY <1>2 DEF Open
<1>5. {"idle", "cancelled", "wait"} \cap Locked = {} /\ {"spawn", "boot", "healthy"} \cup Stopping \subseteq Locked
      /\ "idle" \notin InQueue
  BY DEF InQueue, Locked, Stopping
<1>6. \A t \in Task : pc'[t] \notin Locked
  BY <1>2, <1>3, <1>5 DEF Task, Stopper
<1>7. SlotInv'
  <2>1. \A t \in Task : pc'[t] \notin Stopping /\ pc'[t] \notin {"spawn", "boot", "healthy"}
    BY <1>5, <1>6
  <2>2. \A r \in Request : pc'[r] \notin InQueue
    BY <1>3, <1>5
  <2> QED
    BY <1>1, <1>2, <1>3, <1>6, <2>1, <2>2, TaskFacts DEF SlotInv
<1> QED
  BY <1>1, <1>4, <1>7 DEF OwnInv, RoleFilesMatch, Live

LEMMA NextSlot ==
  ASSUME TypeOK, LockInv, SlotInv, OwnInv, [Next]_roleVars
  PROVE  SlotInv' /\ OwnInv'
<1>a. "idle" \notin InQueue /\ "sleep" \notin InQueue
  BY PlaceFacts
<1>1. ASSUME NEW r \in Request, NEW m \in Model, Ask(r, m) PROVE SlotInv' /\ OwnInv'
  <2>1. /\ Open /\ pc[r] \notin InQueue /\ Enqueue(r) /\ UNCHANGED <<current, victim, proc, files>>
        /\ want'[r] = m /\ \A q \in Request \ {r} : want'[q] = want[q]
    BY <1>1, <1>a DEF Ask, TypeOK
  <2> QED
    BY <2>1, TaskFacts, EnqueueSlot
<1>2. ASSUME NEW r \in Request, RequestStep(r) PROVE SlotInv' /\ OwnInv'
  BY <1>2, RequestStepSlot
<1>3. ASSUME NEW t \in Task, Kill(t) PROVE SlotInv' /\ OwnInv'
  BY <1>3, FrameSlot DEF Kill, Live
<1>4. ASSUME NEW t \in Stopper, StopperStep(t) PROVE SlotInv' /\ OwnInv'
  BY <1>4, StopperStepSlot
<1>5. CASE Reload
  BY <1>5, FrameSlot DEF Reload, Live
<1>6. CASE AskUnload
  <2>1. /\ Open /\ pc[Unloader] \notin InQueue /\ Enqueue(Unloader)
        /\ UNCHANGED <<want, current, victim, proc, files>>
    BY <1>6, <1>a DEF AskUnload
  <2> QED
    BY <2>1, TaskFacts, EnqueueSlot
<1>7. CASE IdleCheck
  <2>1. /\ pc[Watcher] \notin InQueue /\ pc[Watcher] = "sleep" /\ Enqueue(Watcher)
        /\ UNCHANGED <<want, current, victim, proc, files>>
    BY <1>7, <1>a DEF IdleCheck
  <2>2. Open
    BY <2>1 DEF SlotInv
  <2> QED
    BY <2>1, <2>2, TaskFacts, EnqueueSlot
<1>8. CASE WatcherSkips
  BY <1>8, SkipSlot
<1>9. CASE BeginShutdown
  BY <1>9, ShutdownSlot
<1>10. ASSUME NEW p \in Proc, WorldStep(p) PROVE SlotInv' /\ OwnInv'
  BY <1>10, FrameSlot DEF WorldStep, Serves, Exits, Reaped, Forgotten, Becomes, Live, TypeOK
<1>11. CASE TailEnds
  BY <1>11, TailEndsEntry, RoleNone, FrameSlot DEF Live
<1>12. CASE Tick
  BY <1>12, FrameSlot DEF Tick, Live
<1>13. CASE UNCHANGED roleVars
  BY <1>13, FrameSlot DEF roleVars, Live
<1> QED
  BY <1>1, <1>2, <1>3, <1>4, <1>5, <1>6, <1>7, <1>8, <1>9, <1>10, <1>11, <1>12, <1>13
  DEF Next, Over, StopperStep, WorldStep

LEMMA InitRoleInv == Init => RoleInv
<1> SUFFICES ASSUME Init PROVE RoleInv
  OBVIOUS
<1>1. \A t \in Task : pc[t] \in {"idle", "sleep"}
  BY DEF Init
<1>2. \A t \in Task : pc[t] \notin InQueue /\ pc[t] \notin Stopping
                     /\ pc[t] \notin Locked \cup {"spawn", "boot", "healthy"}
  BY <1>1 DEF InQueue, Locked, Stopping
<1>3. Open
  BY TaskFacts DEF Init, Open
<1>4. LockInv
  BY <1>2 DEF Init, LockInv
<1>5. SlotInv
  BY <1>2, <1>3, TaskFacts DEF Init, SlotInv
<1>6. \A p \in Proc : ~Live(p)
  BY DEF Init, Live
<1>7. RoleFilesMatch
  <2>1. {q \in Request : pc[q] = "spawn"} = {}
    BY <1>2, TaskFacts
  <2>2. {want[r] : r \in {q \in Request : pc[q] = "spawn"}} = {}
    BY <2>1
  <2>3. HeldBy(current, victim) = {} /\ files = {}
    BY HeldFacts DEF Init
  <2> QED
    BY <2>2, <2>3 DEF RoleFilesMatch, HeldBy
<1>8. OwnInv
  BY <1>6, <1>7 DEF OwnInv
<1> QED
  BY <1>4, <1>5, <1>8, InitType DEF RoleInv

LEMMA NextRoleInv == RoleInv /\ [Next]_roleVars => RoleInv'
  BY NextType, NextLock, NextSlot DEF RoleInv

(* The manager's invariant: it says of the lock who is inside, of the slot *)
(* what whoever is inside has to do with it, and of processes and files    *)
(* that they belong to the slot.  None of the three is inductive alone.    *)
THEOREM RoleInvAlways == Spec => []RoleInv
  BY InitRoleInv, NextRoleInv, PTL DEF Spec

(* The model's variables keep their types.                                 *)
THEOREM RoleTypeCorrect == Spec => []TypeOK
<1>1. RoleInv => TypeOK
  BY DEF RoleInv
<1> QED
  BY RoleInvAlways, <1>1, PTL

(* At most one server of a role is alive, and until shutdown begins it is  *)
(* the current one or the one whose exit the holder of the lock awaits, for*)
(* any models, any number of requests, and any registry at any time.       *)
THEOREM OneRoleServerAlways == Spec => []OneRoleServer
<1>1. RoleInv => OneRoleServer
  BY DEF RoleInv, SlotInv, OwnInv, OneRoleServer, Mine
<1> QED
  BY RoleInvAlways, <1>1, PTL

(* No rendered config file outlives the server it was rendered for, and    *)
(* none is removed before.                                                 *)
THEOREM RoleFilesMatchAlways == Spec => []RoleFilesMatch
<1>1. RoleInv => RoleFilesMatch
  BY DEF RoleInv, OwnInv
<1> QED
  BY RoleInvAlways, <1>1, PTL

--------------------------------------------------------------------------------
(***************************************************************************)
(* Every manager of a role is a ModelSlot: each step of RoleServerManager  *)
(* is a step of the slot or leaves it as it is.                            *)
(***************************************************************************)

(* The refinement mapping of RoleServerManager's Slot.                     *)
SlotOf ==
  IF current # None
    THEN [phase |-> IF current.state = "failed" THEN "broken" ELSE current.state,
          model |-> current.model]
  ELSE IF victim # None /\ Live(victim.proc) THEN [phase |-> "draining", model |-> victim.model]
  ELSE [phase |-> "empty", model |-> None]

AskOf == [r \in Request |-> IF pc[r] = "wait" \/ pc[r] \in Locked THEN want[r] ELSE None]

Nothing == [phase |-> "empty", model |-> None]

SlotStep == Slot!SlotNext \/ UNCHANGED <<SlotOf, AskOf>>

(* Whoever launches finds in the slot what it launches, still LOADING.     *)
LaunchInv ==
  \A r \in Request : pc[r] \in {"boot", "healthy"} =>
    current # None /\ current.state = "loading" /\ current.model = want[r]

--------------------------------------------------------------------------------
(* LaunchInv.                                                              *)

LEMMA AwayLaunch ==
  ASSUME TypeOK, NEW t \in Task, NEW there, Goto(t, there), Alone(t), there \notin {"boot", "healthy"}
  PROVE  LaunchInv'
  BY TaskFacts, PlaceFacts DEF TypeOK, Goto, Alone, LaunchInv

LEMMA FrameLaunch ==
  ASSUME LaunchInv, UNCHANGED <<pc, want, current>>
  PROVE  LaunchInv'
  BY DEF LaunchInv

LEMMA EnqueueLaunch ==
  ASSUME TypeOK, LaunchInv, NEW t \in Task, Enqueue(t), UNCHANGED current,
         \A r \in Request \ {t} : want'[r] = want[r]
  PROVE  LaunchInv'
  BY DEF TypeOK, Enqueue, Goto, LaunchInv

LEMMA NextLaunch ==
  ASSUME RoleInv, LaunchInv, [Next]_roleVars
  PROVE  LaunchInv'
<1>a. TypeOK /\ LockInv /\ SlotInv
  BY DEF RoleInv
<1>b. ASSUME NEW t \in Task, pc[t] \in Locked PROVE Alone(t)
  BY <1>a, <1>b, InsideAlone
<1>c. ASSUME NEW t \in Task, Granted(t) PROVE Alone(t)
  BY <1>a, <1>c, GrantedAlone
<1>d. {"spawn", "boot", "healthy", "swap", "fail", "stop"} \subseteq Locked
  BY DEF Locked, Stopping
<1>1. ASSUME NEW r \in Request, NEW m \in Model, Ask(r, m) PROVE LaunchInv'
  BY <1>1, <1>a, TaskFacts, EnqueueLaunch DEF Ask, TypeOK
<1>2. ASSUME NEW r \in Request, RequestStep(r) PROVE LaunchInv'
  <2>a. r \in Task
    BY TaskFacts
  <2>1. ASSUME Reuse(r) \/ BeginSwap(r) \/ BeginLaunch(r) PROVE LaunchInv'
    <3>1. Alone(r)
      BY <1>c, <2>1, <2>a DEF Reuse, BeginSwap, BeginLaunch
    <3>2. \E there \in {"idle", "swap", "spawn"} : Goto(r, there)
      BY <2>1 DEF Reuse, BeginSwap, BeginLaunch, Return, Done, Leave, Terminate
    <3> QED
      BY <1>a, <2>a, <3>1, <3>2, AwayLaunch
  <2>2. ASSUME \/ SwapStopped(r) \/ SpawnFails(r) \/ BecomesReady(r) \/ BootFails(r)
               \/ BootTimesOut(r) \/ FailStopped(r)
        PROVE  LaunchInv'
    <3>1. pc[r] \in Locked
      BY <1>d, <2>2 DEF SwapStopped, SpawnFails, BecomesReady, BootFails, BootTimesOut, FailStopped, Stopped
    <3>2. \E there \in {"idle", "fail", "spawn"} : Goto(r, there)
      BY <2>2 DEF SwapStopped, SpawnFails, BecomesReady, BootFails, BootTimesOut, FailStopped,
                  Return, Done, Leave, Terminate
    <3> QED
      BY <1>a, <1>b, <2>a, <3>1, <3>2, AwayLaunch
  <2>3. ASSUME NEW p \in Proc, Spawn(r, p) PROVE LaunchInv'
    <3>1. /\ current' = [model |-> want[r], proc |-> p, state |-> "loading", tail |-> TRUE]
          /\ Goto(r, "boot") /\ want' = want /\ pc[r] \in Locked
      BY <1>d, <2>3 DEF Spawn
    <3>2. Alone(r)
      BY <1>b, <2>a, <3>1
    <3>3. current' # None /\ current'.state = "loading" /\ current'.model = want'[r]
      <4>1. want[r] \in Model
        BY <1>a, <3>1 DEF SlotInv, InQueue
      <4>2. current' \in Entry
        BY <3>1, <4>1 DEF Entry
      <4> QED
        BY <3>1, <4>2, RoleNone
    <3>4. \A q \in Request \ {r} : pc'[q] \notin {"boot", "healthy"}
      BY <1>a, <1>d, <3>1, <3>2, TaskFacts DEF TypeOK, Goto, Alone
    <3> QED
      BY <3>3, <3>4 DEF LaunchInv
  <2>4. CASE HealthAnswered(r)
    BY <1>a, <2>4 DEF HealthAnswered, LaunchInv, TypeOK, Goto
  <2> QED
    BY <1>2, <2>1, <2>2, <2>3, <2>4 DEF RequestStep
<1>3. ASSUME NEW t \in Task, Kill(t) PROVE LaunchInv'
  BY <1>3, FrameLaunch DEF Kill
<1>4. ASSUME NEW t \in Stopper, StopperStep(t) PROVE LaunchInv'
  <2>1. t \in Task /\ Rest(t) \notin {"boot", "healthy"}
    BY TaskFacts, RestFacts
  <2>2. Alone(t)
    BY <1>4, <1>b, <1>c, <1>d, <2>1 DEF StopperStep, StopAtOnce, BeginStop, EndStop, Stopped
  <2>3. Goto(t, Rest(t)) \/ Goto(t, "stop")
    BY <1>4 DEF StopperStep, StopAtOnce, BeginStop, EndStop, Leave, Terminate
  <2> QED
    BY <1>a, <2>1, <2>2, <2>3, AwayLaunch
<1>5. CASE Reload
  BY <1>5, FrameLaunch DEF Reload
<1>6. CASE AskUnload
  BY <1>6, <1>a, TaskFacts, EnqueueLaunch DEF AskUnload
<1>7. CASE IdleCheck
  BY <1>7, <1>a, TaskFacts, EnqueueLaunch DEF IdleCheck
<1>8. CASE WatcherSkips
  <2>1. Granted(Watcher) /\ Goto(Watcher, "sleep") /\ Watcher \in Task
    BY <1>8, TaskFacts DEF WatcherSkips, Leave
  <2> QED
    BY <1>a, <1>c, <2>1, AwayLaunch
<1>9. CASE BeginShutdown
  BY <1>9, <1>a, TaskFacts DEF BeginShutdown, LaunchInv, TypeOK
<1>10. ASSUME NEW p \in Proc, WorldStep(p) PROVE LaunchInv'
  BY <1>10, FrameLaunch DEF WorldStep, Serves, Exits, Reaped, Forgotten, Becomes
<1>11. CASE TailEnds
  <2>1. /\ current # None /\ current' \in Entry /\ current'.model = current.model /\ UNCHANGED <<pc, want>>
    BY <1>11, <1>a, TailEndsEntry
  <2>2. current.state = "loading" => current'.state = "loading"
    BY <1>11, <1>a, <2>1 DEF TailEnds, TypeOK, Entry
  <2> QED
    BY <2>1, <2>2, RoleNone DEF LaunchInv
<1>12. CASE Tick
  BY <1>12, FrameLaunch DEF Tick
<1>13. CASE UNCHANGED roleVars
  BY <1>13, FrameLaunch DEF roleVars
<1> QED
  BY <1>1, <1>2, <1>3, <1>4, <1>5, <1>6, <1>7, <1>8, <1>9, <1>10, <1>11, <1>12, <1>13
  DEF Next, Over, StopperStep, WorldStep

--------------------------------------------------------------------------------
(* The slot's actions, under the mapping.                                  *)

LEMMA WantStep ==
  ASSUME NEW r \in Request, NEW m \in Model, AskOf[r] = None,
         AskOf' = [AskOf EXCEPT ![r] = m], SlotOf' = SlotOf
  PROVE  SlotStep
<1>1. Slot!Want(r, m)
  BY DEF Slot!Want, SlotOf, AskOf
<1> QED
  BY <1>1 DEF SlotStep, Slot!SlotNext

LEMMA GrantStep ==
  ASSUME NEW r \in Request, AskOf[r] # None, AskOf' = [AskOf EXCEPT ![r] = None],
         SlotOf' = [phase |-> "ready", model |-> AskOf[r]],
         SlotOf = SlotOf' \/ SlotOf = [SlotOf' EXCEPT !.phase = "loading"]
  PROVE  SlotStep
<1>1. Slot!Grant(r)
  BY DEF Slot!Grant, SlotOf, AskOf
<1> QED
  BY <1>1 DEF SlotStep, Slot!SlotNext

LEMMA RefuseStep ==
  ASSUME NEW r \in Request, AskOf[r] # None, AskOf' = [AskOf EXCEPT ![r] = None],
         SlotOf = Nothing \/ SlotOf.phase = "loading", SlotOf' = Nothing
  PROVE  SlotStep
<1>1. Slot!Refuse(r)
  BY DEF Slot!Refuse, Slot!Empty, SlotOf, AskOf, Nothing
<1> QED
  BY <1>1 DEF SlotStep, Slot!SlotNext

LEMMA LoadStep ==
  ASSUME NEW r \in Request, AskOf[r] # None, AskOf' = AskOf,
         SlotOf = Nothing, SlotOf' = [phase |-> "loading", model |-> AskOf[r]]
  PROVE  SlotStep
<1>1. Slot!Load(r)
  BY DEF Slot!Load, Slot!Empty, SlotOf, AskOf, Nothing
<1> QED
  BY <1>1 DEF SlotStep, Slot!SlotNext

LEMMA CrashStep ==
  ASSUME AskOf' = AskOf, SlotOf.phase = "ready", SlotOf' = [SlotOf EXCEPT !.phase = "broken"]
  PROVE  SlotStep
<1>1. Slot!Crash
  BY DEF Slot!Crash, SlotOf, AskOf
<1> QED
  BY <1>1 DEF SlotStep, Slot!SlotNext

LEMMA LeaveStep ==
  ASSUME AskOf' = AskOf, SlotOf.phase \in {"loading", "ready", "broken"},
         SlotOf' \in {[SlotOf EXCEPT !.phase = "draining"], Nothing}
  PROVE  SlotStep
<1>1. Slot!Leave
  BY DEF Slot!Leave, Slot!Empty, SlotOf, AskOf, Nothing
<1> QED
  BY <1>1 DEF SlotStep, Slot!SlotNext

LEMMA GoneStep ==
  ASSUME AskOf' = AskOf, SlotOf.phase = "draining", SlotOf' = Nothing
  PROVE  SlotStep
<1>1. Slot!Gone
  BY DEF Slot!Gone, Slot!Empty, SlotOf, AskOf, Nothing
<1> QED
  BY <1>1 DEF SlotStep, Slot!SlotNext

--------------------------------------------------------------------------------
(* What the mapping is in the states that matter.                          *)

LEMMA SlotOfFacts ==
  /\ current # None => SlotOf = [phase |-> IF current.state = "failed" THEN "broken" ELSE current.state,
                                 model |-> current.model]
  /\ current = None /\ victim # None /\ Live(victim.proc) =>
       SlotOf = [phase |-> "draining", model |-> victim.model]
  /\ current = None /\ (victim = None \/ ~Live(victim.proc)) => SlotOf = Nothing
  BY DEF SlotOf, Nothing

LEMMA EntryPhase ==
  ASSUME TypeOK, current # None
  PROVE  SlotOf.phase \in {"loading", "ready", "broken"} /\ SlotOf.model = current.model
  BY SlotOfFacts DEF TypeOK, Entry

(* A step that changes neither the entries nor which processes live.       *)
LEMMA SlotKept ==
  ASSUME UNCHANGED <<current, victim>>, \A p : Live(p)' <=> Live(p)
  PROVE  SlotOf' = SlotOf
  BY DEF SlotOf

LEMMA AskKept ==
  ASSUME TypeOK, NEW t \in Task, NEW there, Goto(t, there), want' = want,
         t \in Request => pc[t] \in InQueue /\ there \in InQueue
  PROVE  AskOf' = AskOf
  BY TaskFacts DEF TypeOK, Goto, AskOf, InQueue

LEMMA AskEnds ==
  ASSUME TypeOK, SlotInv, NEW r \in Request, pc[r] \in InQueue, Done(r)
  PROVE  AskOf' = [AskOf EXCEPT ![r] = None] /\ AskOf[r] = want[r] /\ AskOf[r] # None
<1>1. want[r] \in Model /\ want[r] # None
  BY RoleModels DEF SlotInv
<1>2. AskOf[r] = want[r]
  BY DEF AskOf, InQueue
<1>3. AskOf' = [AskOf EXCEPT ![r] = None]
  BY TaskFacts DEF TypeOK, Done, Leave, Goto, AskOf
<1> QED
  BY <1>1, <1>2, <1>3

(* A stop that has begun, and one that had nothing to wait for.            *)
LEMMA TerminateStep ==
  ASSUME TypeOK, NEW t \in Task, NEW why \in Stopping, Terminate(t, why), want' = want, pc[t] \in InQueue
  PROVE  SlotStep
<1>1. current # None /\ victim' = current /\ current' = None /\ proc' = proc /\ Goto(t, why)
  BY DEF Terminate
<1>2. AskOf' = AskOf
  BY <1>1, AskKept, PlaceFacts DEF InQueue
<1>3. SlotOf' = IF Live(current.proc) THEN [phase |-> "draining", model |-> current.model] ELSE Nothing
  BY <1>1 DEF SlotOf, Nothing, Live
<1>4. SlotOf' \in {[SlotOf EXCEPT !.phase = "draining"], Nothing}
  BY <1>1, <1>3, SlotOfFacts
<1> QED
  BY <1>1, <1>2, <1>4, EntryPhase, LeaveStep

LEMMA QuickStep ==
  ASSUME TypeOK, current' = None, victim = None, victim' = None, AskOf' = AskOf
  PROVE  SlotStep
<1>1. SlotOf' = Nothing
  BY DEF SlotOf, Nothing
<1>2. CASE current # None
  BY <1>1, <1>2, EntryPhase, LeaveStep
<1>3. CASE current = None
  BY <1>1, <1>3, SlotOfFacts DEF SlotStep
<1> QED
  BY <1>2, <1>3

(* The exit that was awaited changes nothing: the slot was empty before.   *)
LEMMA StoppedEmpty ==
  ASSUME SlotInv, NEW t \in Task, NEW why \in Stopping, Stopped(t, why), UNCHANGED <<current, proc>>
  PROVE  SlotOf = Nothing /\ SlotOf' = Nothing
<1>1. current = None /\ ~Live(victim.proc) /\ victim' = None /\ current' = None
  BY PlaceFacts DEF SlotInv, Stopped, Now, Live
<1> QED
  BY <1>1 DEF SlotOf, Nothing

--------------------------------------------------------------------------------
(* Every step of the manager.                                              *)

LEMMA RequestStepMaps ==
  ASSUME RoleInv, LaunchInv, NEW r \in Request, RequestStep(r)
  PROVE  SlotStep
<1>a. r \in Task /\ TypeOK /\ LockInv /\ SlotInv
  BY TaskFacts DEF RoleInv
<1>b. /\ {"spawn", "boot", "healthy", "swap", "fail", "wait"} \subseteq InQueue
      /\ {"swap", "fail"} \subseteq Stopping
  BY DEF InQueue, Locked, Stopping
<1>c. Granted(r) => pc[r] \in InQueue /\ victim = None
  BY <1>a, GrantedAlone, PlaceFacts
<1>d. ASSUME pc[r] \in InQueue, Done(r)
      PROVE  AskOf' = [AskOf EXCEPT ![r] = None] /\ AskOf[r] = want[r] /\ AskOf[r] # None
  BY <1>a, <1>d, AskEnds
<1>e. ASSUME proc' = proc PROVE \A p : Live(p)' <=> Live(p)
  BY <1>e DEF Live
<1>1. CASE Reuse(r)
  <2>1. /\ Granted(r) /\ Done(r) /\ UNCHANGED <<current, victim, proc>>
        /\ current # None /\ current.model = want[r] /\ current.state = "ready"
    BY <1>1 DEF Reuse, Return, Loaded
  <2>2. SlotOf' = SlotOf
    BY <1>e, <2>1, SlotKept
  <2>3. SlotOf = [phase |-> "ready", model |-> want[r]]
    BY <2>1, SlotOfFacts
  <2> QED
    BY <1>c, <1>d, <2>1, <2>2, <2>3, GrantStep
<1>2. CASE BeginSwap(r)
  BY <1>2, <1>a, <1>b, <1>c, TerminateStep DEF BeginSwap
<1>3. CASE BeginLaunch(r)
  <2>1. Granted(r) /\ Goto(r, "spawn") /\ current' = None /\ UNCHANGED <<victim, want>>
    BY <1>3 DEF BeginLaunch
  <2>2. AskOf' = AskOf
    BY <1>a, <1>b, <1>c, <2>1, AskKept
  <2> QED
    BY <1>a, <1>c, <2>1, <2>2, QuickStep
<1>4. CASE SwapStopped(r)
  <2>1. pc[r] = "swap" /\ Stopped(r, "swap") /\ Goto(r, "spawn") /\ UNCHANGED <<current, proc, want>>
    BY <1>4 DEF SwapStopped, Stopped
  <2>2. AskOf' = AskOf
    BY <1>a, <1>b, <2>1, AskKept
  <2>3. SlotOf' = SlotOf
    BY <1>a, <1>b, <2>1, StoppedEmpty
  <2> QED
    BY <2>2, <2>3 DEF SlotStep
<1>5. ASSUME NEW p \in Proc, Spawn(r, p) PROVE SlotStep
  <2>1. /\ pc[r] = "spawn" /\ Goto(r, "boot") /\ UNCHANGED <<want, victim>>
        /\ current' = [model |-> want[r], proc |-> p, state |-> "loading", tail |-> TRUE]
    BY <1>5 DEF Spawn
  <2>2. current = None /\ victim = None /\ want[r] \in Model
    BY <1>a, <1>b, <2>1 DEF SlotInv
  <2>3. AskOf' = AskOf
    BY <1>a, <1>b, <2>1, AskKept
  <2>4. AskOf[r] = want[r] /\ want[r] # None
    BY <1>b, <2>1, <2>2, RoleModels DEF AskOf, InQueue
  <2>5. SlotOf = Nothing
    BY <2>2, SlotOfFacts
  <2>6. SlotOf' = [phase |-> "loading", model |-> want[r]]
    <3>1. current' \in Entry
      BY <2>1, <2>2 DEF Entry
    <3>2. current' # None /\ current'.state = "loading" /\ current'.model = want[r]
      BY <2>1, <3>1, RoleNone
    <3> QED
      BY <3>2 DEF SlotOf
  <2> QED
    BY <2>3, <2>4, <2>5, <2>6, LoadStep
<1>6. CASE SpawnFails(r)
  <2>1. pc[r] = "spawn" /\ Done(r) /\ UNCHANGED <<current, victim, proc>>
    BY <1>6 DEF SpawnFails
  <2>2. SlotOf = Nothing
    BY <1>a, <2>1, SlotOfFacts DEF SlotInv
  <2>3. SlotOf' = SlotOf
    BY <1>e, <2>1, SlotKept
  <2> QED
    BY <1>b, <1>d, <2>1, <2>2, <2>3, RefuseStep
<1>7. CASE HealthAnswered(r)
  <2>1. pc[r] = "boot" /\ Goto(r, "healthy") /\ UNCHANGED <<current, victim, proc, want>>
    BY <1>7 DEF HealthAnswered
  <2>2. AskOf' = AskOf
    BY <1>a, <1>b, <2>1, AskKept
  <2> QED
    BY <1>e, <2>1, <2>2, SlotKept DEF SlotStep
<1>8. CASE BecomesReady(r)
  <2>1. pc[r] = "healthy" /\ Done(r) /\ current' = [current EXCEPT !.state = "ready"]
    BY <1>8 DEF BecomesReady, Return
  <2>2. current # None /\ current.state = "loading" /\ current.model = want[r] /\ current \in Entry
    BY <1>a, <2>1 DEF LaunchInv, TypeOK
  <2>3. SlotOf = [phase |-> "loading", model |-> want[r]]
    BY <2>2, SlotOfFacts
  <2>4. SlotOf' = [phase |-> "ready", model |-> want[r]]
    <3>1. current' \in Entry /\ current'.state = "ready" /\ current'.model = want[r]
      BY <2>1, <2>2 DEF Entry
    <3>2. current' # None
      BY <3>1, RoleNone
    <3> QED
      BY <3>1, <3>2 DEF SlotOf
  <2> QED
    BY <1>b, <1>d, <2>1, <2>3, <2>4, GrantStep
<1>9. CASE BootFails(r)
  <2>1. pc[r] = "boot" /\ Done(r) /\ current' = None /\ UNCHANGED <<victim, proc>>
    BY <1>9 DEF BootFails
  <2>2. current # None /\ current.state = "loading" /\ victim = None
    BY <1>a, <2>1 DEF LaunchInv, SlotInv
  <2>3. SlotOf.phase = "loading"
    BY <2>2, SlotOfFacts
  <2>4. SlotOf' = Nothing
    BY <2>1, <2>2 DEF SlotOf, Nothing
  <2> QED
    BY <1>b, <1>d, <2>1, <2>3, <2>4, RefuseStep
<1>10. CASE BootTimesOut(r)
  BY <1>10, <1>a, <1>b, TerminateStep DEF BootTimesOut
<1>11. CASE FailStopped(r)
  <2>1. pc[r] = "fail" /\ Stopped(r, "fail") /\ Done(r) /\ UNCHANGED <<current, proc>>
    BY <1>11 DEF FailStopped, Stopped
  <2>2. SlotOf = Nothing /\ SlotOf' = Nothing
    BY <1>a, <1>b, <2>1, StoppedEmpty
  <2> QED
    BY <1>b, <1>d, <2>1, <2>2, RefuseStep
<1> QED
  BY <1>1, <1>2, <1>3, <1>4, <1>5, <1>6, <1>7, <1>8, <1>9, <1>10, <1>11 DEF RequestStep

LEMMA StopperStepMaps ==
  ASSUME RoleInv, NEW t \in Stopper, StopperStep(t)
  PROVE  SlotStep
<1>a. t \in Task /\ t \notin Request /\ TypeOK /\ LockInv /\ SlotInv
  BY TaskFacts DEF RoleInv
<1>b. "stop" \in Stopping
  BY PlaceFacts
<1>c. Granted(t) => pc[t] \in InQueue /\ victim = None
  BY <1>a, GrantedAlone, PlaceFacts
<1>1. CASE StopAtOnce(t)
  <2>1. Granted(t) /\ Goto(t, Rest(t)) /\ current' = None /\ UNCHANGED <<victim, want>>
    BY <1>1 DEF StopAtOnce, Leave
  <2>2. AskOf' = AskOf
    BY <1>a, <2>1, AskKept
  <2> QED
    BY <1>a, <1>c, <2>1, <2>2, QuickStep
<1>2. CASE BeginStop(t)
  BY <1>2, <1>a, <1>b, <1>c, TerminateStep DEF BeginStop
<1>3. CASE EndStop(t)
  <2>1. Stopped(t, "stop") /\ Goto(t, Rest(t)) /\ UNCHANGED <<current, proc, want>>
    BY <1>3 DEF EndStop, Stopped, Leave
  <2>2. AskOf' = AskOf
    BY <1>a, <2>1, AskKept
  <2>3. SlotOf' = SlotOf
    BY <1>a, <1>b, <2>1, StoppedEmpty
  <2> QED
    BY <2>2, <2>3 DEF SlotStep
<1> QED
  BY <1>1, <1>2, <1>3 DEF StopperStep

(* A process dies or is collected: the model that was leaving may be gone. *)
LEMMA WorldStepMaps ==
  ASSUME RoleInv, NEW p \in Proc, WorldStep(p)
  PROVE  SlotStep
<1>1. /\ UNCHANGED <<lockq, pc, want, current, victim>>
      /\ \A q \in Proc : Live(q)' => Live(q)
      /\ victim # None => victim.proc \in Proc
  BY DEF WorldStep, Serves, Exits, Reaped, Forgotten, Becomes, Live, RoleInv, TypeOK, Entry
<1>2. AskOf' = AskOf
  BY <1>1 DEF AskOf
<1>3. CASE current = None /\ victim # None /\ Live(victim.proc) /\ ~Live(victim.proc)'
  <2>1. SlotOf' = Nothing
    BY <1>1, <1>3 DEF SlotOf, Nothing, Live
  <2> QED
    BY <1>2, <1>3, <2>1, SlotOfFacts, GoneStep
<1>4. CASE ~(current = None /\ victim # None /\ Live(victim.proc) /\ ~Live(victim.proc)')
  <2>1. SlotOf' = SlotOf
    <3>1. current = None /\ victim # None => (Live(victim.proc)' <=> Live(victim.proc))
      BY <1>1, <1>4
    <3> QED
      BY <1>1, <3>1 DEF SlotOf, Live
  <2> QED
    BY <1>2, <2>1 DEF SlotStep
<1> QED
  BY <1>3, <1>4

LEMMA NextMaps ==
  ASSUME RoleInv, LaunchInv, [Next]_roleVars
  PROVE  SlotStep
<1>a. TypeOK /\ LockInv /\ SlotInv
  BY DEF RoleInv
<1>b. ASSUME UNCHANGED <<current, victim, proc>>, AskOf' = AskOf PROVE SlotStep
  BY <1>b, SlotKept DEF SlotStep, Live
<1>c. ASSUME UNCHANGED <<pc, want>> PROVE AskOf' = AskOf
  BY <1>c DEF AskOf
<1>d. {"idle", "sleep", "cancelled"} \cap InQueue = {}
  BY DEF InQueue, Locked, Stopping
<1>1. ASSUME NEW r \in Request, NEW m \in Model, Ask(r, m) PROVE SlotStep
  <2>1. /\ pc[r] = "idle" /\ want' = [want EXCEPT ![r] = m] /\ pc' = [pc EXCEPT ![r] = "wait"]
        /\ UNCHANGED <<current, victim, proc>>
    BY <1>1 DEF Ask, Enqueue, Goto
  <2>2. AskOf[r] = None
    BY <1>d, <2>1 DEF AskOf, InQueue
  <2>3. AskOf' = [AskOf EXCEPT ![r] = m]
    BY <1>a, <2>1, TaskFacts DEF AskOf, TypeOK
  <2>4. SlotOf' = SlotOf
    BY <2>1, SlotKept DEF Live
  <2> QED
    BY <2>2, <2>3, <2>4, WantStep
<1>2. ASSUME NEW r \in Request, RequestStep(r) PROVE SlotStep
  BY <1>2, RequestStepMaps
<1>3. ASSUME NEW t \in Task, Kill(t) PROVE SlotStep
  BY <1>3, <1>b, <1>c DEF Kill
<1>4. ASSUME NEW t \in Stopper, StopperStep(t) PROVE SlotStep
  BY <1>4, StopperStepMaps
<1>5. CASE Reload
  BY <1>5, <1>b, <1>c DEF Reload
<1>6. ASSUME NEW t \in Stopper, NEW there, Goto(t, there), UNCHANGED <<want, current, victim, proc>>
      PROVE  SlotStep
  BY <1>6, <1>a, <1>b, TaskFacts, AskKept
<1>7. CASE AskUnload \/ IdleCheck \/ WatcherSkips
  BY <1>7, <1>6, TaskFacts DEF AskUnload, IdleCheck, WatcherSkips, Enqueue, Leave
<1>8. CASE BeginShutdown
  <2>1. /\ \A r \in Request : pc[r] = "idle" /\ pc'[r] = "idle"
        /\ victim' = None /\ UNCHANGED <<want, current, proc>>
    BY <1>8, <1>a, TaskFacts DEF BeginShutdown, TypeOK
  <2>2. AskOf' = AskOf
    BY <1>d, <2>1 DEF AskOf, InQueue
  <2>3. CASE current = None /\ victim # None /\ Live(victim.proc)
    <3>1. SlotOf' = Nothing
      BY <2>1, <2>3 DEF SlotOf, Nothing
    <3> QED
      BY <2>2, <2>3, <3>1, SlotOfFacts, GoneStep
  <2>4. CASE ~(current = None /\ victim # None /\ Live(victim.proc))
    BY <2>1, <2>2, <2>4 DEF SlotStep, SlotOf
  <2> QED
    BY <2>3, <2>4
<1>9. ASSUME NEW p \in Proc, WorldStep(p) PROVE SlotStep
  BY <1>9, WorldStepMaps
<1>10. CASE TailEnds
  <2>1. /\ current # None /\ current' \in Entry /\ current'.model = current.model
        /\ UNCHANGED <<pc, want, victim, proc>>
    BY <1>10, <1>a, TailEndsEntry
  <2>2. current'.state = current.state \/ (current.state = "ready" /\ current'.state = "failed")
    BY <1>10, <1>a, <2>1 DEF TailEnds, TypeOK, Entry
  <2>3. current' # None
    BY <2>1, RoleNone
  <2>4. AskOf' = AskOf
    BY <1>c, <2>1
  <2>5. CASE current'.state = current.state
    BY <2>1, <2>3, <2>4, <2>5 DEF SlotStep, SlotOf
  <2>6. CASE current.state = "ready" /\ current'.state = "failed"
    <3>1. SlotOf = [phase |-> "ready", model |-> current.model]
      BY <2>1, <2>6, SlotOfFacts
    <3>2. SlotOf' = [phase |-> "broken", model |-> current.model]
      BY <2>1, <2>3, <2>6 DEF SlotOf
    <3> QED
      BY <2>4, <3>1, <3>2, CrashStep
  <2> QED
    BY <2>2, <2>5, <2>6
<1>11. CASE Tick
  BY <1>11, <1>b, <1>c DEF Tick
<1>12. CASE UNCHANGED roleVars
  BY <1>12, <1>b, <1>c DEF roleVars
<1> QED
  BY <1>1, <1>2, <1>3, <1>4, <1>5, <1>7, <1>8, <1>9, <1>10, <1>11, <1>12
  DEF Next, Over, StopperStep, WorldStep

LEMMA InitMaps == Init => Slot!SlotInit
<1> SUFFICES ASSUME Init PROVE Slot!SlotInit
  OBVIOUS
<1>1. \A r \in Request : pc[r] = "idle"
  BY TaskFacts DEF Init
<1>2. "idle" # "wait" /\ "idle" \notin Locked
  BY DEF Locked, Stopping
<1>3. AskOf = [r \in Request |-> None]
  BY <1>1, <1>2 DEF AskOf
<1>4. SlotOf = Nothing
  BY DEF Init, SlotOf, Nothing
<1> QED
  BY <1>3, <1>4 DEF Slot!SlotInit, Slot!Empty, SlotOf, AskOf, Nothing

(* The manager of a role keeps the promise every manager makes: one slot,  *)
(* empty before it takes another model, and callers that are granted a     *)
(* model only while the slot is ready with it, whatever is reloaded when.  *)
THEOREM RoleManagerIsASlot == Spec => ImplementsSlot
<1>1. Init => LaunchInv
  <2>1. Init => \A r \in Request : pc[r] = "idle"
    BY TaskFacts DEF Init
  <2> QED
    BY <2>1 DEF LaunchInv
<1>2. RoleInv /\ LaunchInv /\ [Next]_roleVars => RoleInv' /\ LaunchInv' /\ [Slot!SlotNext]_(Slot!slotVars)
  BY NextRoleInv, NextLaunch, NextMaps DEF SlotStep, Slot!slotVars, SlotOf, AskOf
<1> QED
  BY <1>1, <1>2, InitRoleInv, InitMaps, PTL DEF Spec, ImplementsSlot, Slot!SlotSafety
================================================================================
