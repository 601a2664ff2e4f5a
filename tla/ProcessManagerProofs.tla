------------------------- MODULE ProcessManagerProofs -------------------------
(***************************************************************************)
(* Theorems about ProcessManager for every set of models, requests and     *)
(* process identities.                                                     *)
(***************************************************************************)
EXTENDS ProcessManager, TLAPS

(* Everything a quick stop can leave on disk is what was there, and it     *)
(* happens only when the slot is free or its process already dead.         *)
LEMMA QuickStopsFacts ==
  ASSUME TypeOK, NEW f \in QuickStops
  PROVE  /\ f \subseteq files
         /\ current # None => Dead(current)
<1> USE ProcAssumption DEF TypeOK
<1>1. CASE f \in {g \in {files} : current = None}
  BY <1>1
<1>2. CASE f \in {files \ ConfigOf(proc[p].model) : p \in {q \in Proc : q = current /\ proc[q].os = "reaped"}}
  BY <1>2 DEF Dead
<1>3. CASE f \in {g \in {files} : SignalRace /\ current # None /\ proc[current].os = "exited"}
  BY <1>3 DEF Dead
<1> QED
  BY <1>1, <1>2, <1>3 DEF QuickStops

LEMMA InitTypeOK == Init => TypeOK
<1> SUFFICES ASSUME Init PROVE TypeOK
  OBVIOUS
<1>1. lockq \in Seq(Task)
  BY DEF Init
<1>2. pc \in [Task -> Place]
  BY DEF Init, Place
<1>3. Unborn \in ProcType
  BY DEF Unborn, ProcType
<1>4. proc \in [Proc -> ProcType]
  BY <1>3 DEF Init
<1>5. age \in 0..MaxAge /\ pin \in 0..MaxPin /\ limit \in 0..MaxAge
  BY ClockAssumption DEF Init
<1> QED
  BY <1>1, <1>2, <1>4, <1>5 DEF Init, TypeOK

(* The three ways a task moves: they keep the types of lockq and pc.       *)
LEMMA LeaveType ==
  ASSUME TypeOK, NEW t \in Task, NEW there \in Place, Holds(t), Leave(t, there)
  PROVE  lockq' \in Seq(Task) /\ pc' \in [Task -> Place]
  BY DEF TypeOK, Holds, Leave, Goto

LEMMA EnqueueType ==
  ASSUME TypeOK, NEW t \in Task, Enqueue(t)
  PROVE  lockq' \in Seq(Task) /\ pc' \in [Task -> Place]
  BY DEF TypeOK, Enqueue, Goto, Place

LEMMA GotoType ==
  ASSUME TypeOK, NEW t \in Task, NEW there \in Place, Goto(t, there)
  PROVE  pc' \in [Task -> Place]
  BY DEF TypeOK, Goto

LEMMA TerminateType ==
  ASSUME TypeOK, NEW t \in Task, NEW why \in Stopping, Terminate(t, why)
  PROVE  /\ pc' \in [Task -> Place]
         /\ current' \in Proc \cup {None} /\ victim' \in Proc \cup {None}
         /\ proc' \in [Proc -> ProcType] /\ wasReady' \in BOOLEAN
<1>1. pc' \in [Task -> Place]
  BY GotoType DEF Terminate, Place, Locked
<1>2. current \in Proc /\ proc[current] \in ProcType
  BY DEF Terminate, TypeOK
<1>3. proc' \in [Proc -> ProcType]
  BY <1>2 DEF Terminate, TypeOK, ProcType
<1> QED
  BY <1>1, <1>2, <1>3 DEF Terminate, TypeOK

(* Changing one field of a process record keeps its type.                  *)
LEMMA RecordType ==
  ASSUME NEW x \in ProcType
  PROVE  /\ \A v \in {"none", "booting", "serving", "exited", "reaped"} : [x EXCEPT !.os = v] \in ProcType
         /\ \A v \in {"clean", "crash"} : [x EXCEPT !.code = v] \in ProcType
         /\ \A v \in {"none", "term", "kill"} : [x EXCEPT !.sig = v] \in ProcType
<1>1. \A v \in {"none", "booting", "serving", "exited", "reaped"} : [x EXCEPT !.os = v] \in ProcType
  BY DEF ProcType
<1>2. \A v \in {"clean", "crash"} : [x EXCEPT !.code = v] \in ProcType
  BY DEF ProcType
<1>3. \A v \in {"none", "term", "kill"} : [x EXCEPT !.sig = v] \in ProcType
  BY DEF ProcType
<1> QED
  BY <1>1, <1>2, <1>3

(* A step that records the event of a launch.                              *)
LEMMA SaidType ==
  ASSUME TypeOK, NEW p, NEW s, p \in Proc => s \in {"none", "loaded", "failed", "unloaded"},
         proc' = [proc EXCEPT ![p].said = s]
  PROVE  proc' \in [Proc -> ProcType]
<1>1. CASE p \in Proc
  <2>1. proc[p] \in ProcType
    BY <1>1 DEF TypeOK
  <2>2. [proc[p] EXCEPT !.said = s] \in ProcType
    BY <1>1, <2>1 DEF ProcType
  <2> QED
    BY <1>1, <2>2 DEF TypeOK
<1>2. CASE p \notin Proc
  BY <1>2 DEF TypeOK
<1> QED
  BY <1>1, <1>2

LEMMA StoppedType ==
  ASSUME TypeOK
  PROVE  /\ FilesAfterStop \subseteq Model
         /\ victim \in Proc => SaidAfterStop \in {"none", "loaded", "failed", "unloaded"}
  BY DEF TypeOK, ProcType, FilesAfterStop, SaidAfterStop

LEMMA ConfigType ==
  ASSUME NEW m PROVE ConfigOf(m) \subseteq Model
  BY ModelAssumption DEF ConfigOf

LEMMA RequestStepType ==
  ASSUME TypeOK, LockInv, NEW r \in Request, RequestStep(r)
  PROVE  TypeOK'
<1> r \in Task
  BY DEF Task
<1>0. pc[r] \in Locked => Holds(r)
  BY DEF LockInv
<1>1. CASE Reuse(r)
  <2>1. lockq' \in Seq(Task) /\ pc' \in [Task -> Place]
    BY <1>1, LeaveType DEF Reuse, Return, Granted, Place
  <2> QED
    BY <1>1, <2>1, ClockAssumption DEF Reuse, Return, TypeOK
<1>2. CASE BeginSwap(r)
  BY <1>2, TerminateType, ClockAssumption DEF BeginSwap, TypeOK, Stopping
<1>3. CASE BeginLaunch(r)
  <2>1. files' \subseteq Model
    BY <1>3, QuickStopsFacts, ConfigType DEF BeginLaunch, TypeOK
  <2>2. pc' \in [Task -> Place]
    BY <1>3, GotoType DEF BeginLaunch, Place, Locked
  <2> QED
    BY <1>3, <2>1, <2>2, ClockAssumption DEF BeginLaunch, TypeOK
<1>4. CASE SwapStopped(r)
  <2>1. pc' \in [Task -> Place]
    BY <1>4, GotoType DEF SwapStopped, Place, Locked
  <2>2. proc' \in [Proc -> ProcType]
    BY <1>4, SaidType, StoppedType DEF SwapStopped
  <2> QED
    BY <1>4, <2>1, <2>2, StoppedType, ConfigType DEF SwapStopped, Stopped, TypeOK
<1>5. ASSUME NEW p \in Proc, Spawn(r, p) PROVE TypeOK'
  <2>1. pc' \in [Task -> Place]
    BY <1>5, GotoType DEF Spawn, Place, Locked
  <2>2. proc' \in [Proc -> ProcType]
    BY <1>5 DEF Spawn, TypeOK, ProcType, Unborn
  <2> QED
    BY <1>5, <2>1, <2>2 DEF Spawn, TypeOK
<1>6. CASE SpawnFails(r)
  <2>1. lockq' \in Seq(Task) /\ pc' \in [Task -> Place]
    BY <1>0, <1>6, LeaveType DEF SpawnFails, Place, Locked
  <2> QED
    BY <1>6, <2>1 DEF SpawnFails, Answer, TypeOK
<1>7. CASE HealthAnswered(r)
  BY <1>7, GotoType DEF HealthAnswered, Place, Locked, TypeOK
<1>8. CASE BecomesReady(r)
  <2>1. lockq' \in Seq(Task) /\ pc' \in [Task -> Place]
    BY <1>0, <1>8, LeaveType DEF BecomesReady, Return, Place, Locked
  <2>2. proc' \in [Proc -> ProcType]
    <3>1. CASE current \in Proc
      <4>1. PICK x \in ProcType : x = proc[current]
        BY <3>1 DEF TypeOK
      <4>2. [x EXCEPT !.entry = "ready", !.said = "loaded"] \in ProcType
        BY DEF ProcType
      <4> QED
        BY <1>8, <3>1, <4>1, <4>2 DEF BecomesReady, TypeOK
    <3>2. CASE current \notin Proc
      BY <1>8, <3>2 DEF BecomesReady, TypeOK
    <3> QED
      BY <3>1, <3>2
  <2> QED
    BY <1>8, <2>1, <2>2, ClockAssumption DEF BecomesReady, Return, TypeOK
<1>9. CASE BootFails(r)
  <2>1. lockq' \in Seq(Task) /\ pc' \in [Task -> Place]
    BY <1>0, <1>9, LeaveType DEF BootFails, Place, Locked
  <2>2. proc' \in [Proc -> ProcType]
    BY <1>9, SaidType DEF BootFails
  <2>3. files' \subseteq Model
    BY <1>9, QuickStopsFacts DEF BootFails, TypeOK
  <2> QED
    BY <1>9, <2>1, <2>2, <2>3 DEF BootFails, Answer, TypeOK
<1>10. CASE BootTimesOut(r)
  BY <1>10, TerminateType DEF BootTimesOut, TypeOK, Stopping
<1>11. CASE FailStopped(r)
  <2>1. lockq' \in Seq(Task) /\ pc' \in [Task -> Place]
    BY <1>0, <1>11, LeaveType DEF FailStopped, Stopped, Place, Locked, Stopping
  <2>2. proc' \in [Proc -> ProcType]
    BY <1>11, SaidType DEF FailStopped
  <2> QED
    BY <1>11, <2>1, <2>2, StoppedType DEF FailStopped, Stopped, Answer, TypeOK
<1> QED
  BY <1>1, <1>2, <1>3, <1>4, <1>5, <1>6, <1>7, <1>8, <1>9, <1>10, <1>11 DEF RequestStep

LEMMA StopperStepType ==
  ASSUME TypeOK, LockInv, NEW t \in Stopper, StopperStep(t)
  PROVE  TypeOK'
<1> t \in Task /\ Rest(t) \in Place
  BY TaskAssumption DEF Task, Stopper, Rest, Place
<1>0. pc[t] \in Locked => Holds(t)
  BY DEF LockInv
<1>1. CASE StopAtOnce(t)
  <2>1. lockq' \in Seq(Task) /\ pc' \in [Task -> Place]
    BY <1>1, LeaveType DEF StopAtOnce, Retire, Granted
  <2>2. files' \subseteq Model
    BY <1>1, QuickStopsFacts DEF StopAtOnce, TypeOK
  <2> QED
    BY <1>1, <2>1, <2>2, ClockAssumption DEF StopAtOnce, Retire, TypeOK
<1>2. CASE BeginStop(t)
  BY <1>2, TerminateType DEF BeginStop, TypeOK, Stopping
<1>3. CASE EndStop(t)
  <2>1. lockq' \in Seq(Task) /\ pc' \in [Task -> Place]
    BY <1>0, <1>3, LeaveType DEF EndStop, Stopped, Retire, Locked, Stopping
  <2>2. proc' \in [Proc -> ProcType]
    BY <1>3, SaidType, StoppedType DEF EndStop
  <2>3. limit' \in 0..MaxAge /\ age' \in 0..MaxAge /\ pin' \in 0..MaxPin
    BY <1>3, ClockAssumption DEF EndStop, Retire, TypeOK
  <2>4. victim' \in Proc \cup {None} /\ wasReady' \in BOOLEAN /\ files' \subseteq Model
    BY <1>3, StoppedType DEF EndStop, Stopped
  <2> QED
    BY <1>3, <2>1, <2>2, <2>3, <2>4 DEF EndStop, TypeOK
<1> QED
  BY <1>1, <1>2, <1>3 DEF StopperStep

(* A step of a process changes one field of its record.                    *)
LEMMA ProcStepType ==
  ASSUME TypeOK, NEW p \in Proc, Serves(p) \/ Exits(p) \/ ProcStep(p)
  PROVE  TypeOK'
<1> proc[p] \in ProcType
  BY DEF TypeOK
<1>1. CASE Serves(p)
  <2>1. [proc[p] EXCEPT !.os = "serving"] \in ProcType
    BY RecordType
  <2> QED
    BY <1>1, <2>1 DEF Serves, TypeOK
<1>2. CASE Exits(p)
  <2>1. PICK c \in {"clean", "crash"} : proc' = [proc EXCEPT ![p].os = "exited", ![p].code = c]
    BY <1>2 DEF Exits
  <2>2. [proc[p] EXCEPT !.os = "exited", !.code = c] \in ProcType
    <3>1. PICK x \in ProcType : x = proc[p]
      OBVIOUS
    <3>2. [x EXCEPT !.os = "exited", !.code = c] \in ProcType
      BY DEF ProcType
    <3> QED
      BY <3>1, <3>2
  <2> QED
    BY <1>2, <2>1, <2>2 DEF Exits, TypeOK
<1>3. CASE Reaped(p)
  <2>1. [proc[p] EXCEPT !.os = "reaped"] \in ProcType
    BY RecordType
  <2> QED
    BY <1>3, <2>1 DEF Reaped, TypeOK
<1>4. CASE TailEnds(p)
  <2> DEFINE e == IF proc[p].entry = "ready" /\ proc[p].code = "crash" THEN "failed" ELSE proc[p].entry
  <2>1. [proc[p] EXCEPT !.tail = FALSE, !.entry = e] \in ProcType
    BY DEF TypeOK, ProcType
  <2>2. proc' = [proc EXCEPT ![p] = [proc[p] EXCEPT !.tail = FALSE, !.entry = e]]
    BY <1>4 DEF TailEnds, TypeOK
  <2> QED
    BY <1>4, <2>1, <2>2 DEF TailEnds, TypeOK
<1>5. CASE Forgotten(p)
  BY <1>5 DEF Forgotten, TypeOK, ProcType, Unborn
<1> QED
  BY <1>1, <1>2, <1>3, <1>4, <1>5 DEF ProcStep

LEMMA NextTypeOK == TypeOK /\ LockInv /\ [Next]_vars => TypeOK'
<1> SUFFICES ASSUME TypeOK, LockInv, [Next]_vars PROVE TypeOK'
  OBVIOUS
<1>1. ASSUME NEW r \in Request, NEW m \in Model, Ask(r, m) PROVE TypeOK'
  <2>1. lockq' \in Seq(Task) /\ pc' \in [Task -> Place]
    BY <1>1, EnqueueType DEF Ask, Task
  <2> QED
    BY <1>1, <2>1 DEF Ask, TypeOK
<1>2. ASSUME NEW r \in Request, RequestStep(r) PROVE TypeOK'
  BY <1>2, RequestStepType
<1>3. ASSUME NEW r \in Request, EndCall(r) PROVE TypeOK'
  <2>1. pc' \in [Task -> Place]
    BY <1>3, GotoType DEF EndCall, Place, Task
  <2> QED
    BY <1>3, <2>1 DEF EndCall, Answer, TypeOK
<1>4. ASSUME NEW r \in Request, NEW p \in Proc, Connect(r, p) PROVE TypeOK'
  <2>1. pc' \in [Task -> Place]
    BY <1>4, GotoType DEF Connect, Place, Task
  <2> QED
    BY <1>4, <2>1 DEF Connect, TypeOK
<1>5. ASSUME NEW t \in Task, Kill(t) PROVE TypeOK'
  <2>1. CASE victim \in Proc
    <3>1. [proc[victim] EXCEPT !.sig = "kill"] \in ProcType
      BY <2>1, RecordType DEF TypeOK
    <3> QED
      BY <1>5, <2>1, <3>1 DEF Kill, TypeOK
  <2>2. CASE victim \notin Proc
    BY <1>5, <2>2 DEF Kill, TypeOK
  <2> QED
    BY <2>1, <2>2
<1>6. ASSUME NEW t \in Stopper, StopperStep(t) PROVE TypeOK'
  BY <1>6, StopperStepType
<1>7. CASE AskUnload
  <2>1. lockq' \in Seq(Task) /\ pc' \in [Task -> Place]
    BY <1>7, EnqueueType DEF AskUnload, Task
  <2> QED
    BY <1>7, <2>1 DEF AskUnload, TypeOK
<1>8. CASE IdleCheck
  <2>1. lockq' \in Seq(Task) /\ pc' \in [Task -> Place]
    BY <1>8, EnqueueType DEF IdleCheck, Task
  <2>2. limit' \in 0..MaxAge
    BY <1>8, ClockAssumption DEF IdleCheck, TypeOK
  <2> QED
    BY <1>8, <2>1, <2>2 DEF IdleCheck, TypeOK
<1>9. CASE WatcherSkips
  <2>1. lockq' \in Seq(Task) /\ pc' \in [Task -> Place]
    BY <1>9, LeaveType DEF WatcherSkips, Granted, Task, Place
  <2> QED
    BY <1>9, <2>1, ClockAssumption DEF WatcherSkips, TypeOK
<1>10. CASE BeginShutdown
  <2>1. lockq' \in Seq(Task)
    BY <1>10 DEF BeginShutdown, Task
  <2>2. pc' \in [Task -> Place]
    BY <1>10 DEF BeginShutdown, TypeOK, Place
  <2> QED
    <3>1. limit' \in 0..MaxAge /\ age' \in 0..MaxAge /\ pin' \in 0..MaxPin
      BY <1>10, ClockAssumption DEF BeginShutdown, TypeOK
    <3>2. victim' \in Proc \cup {None} /\ wasReady' \in BOOLEAN
      BY <1>10 DEF BeginShutdown
    <3> QED
      BY <1>10, <2>1, <2>2, <3>1, <3>2 DEF BeginShutdown, TypeOK
<1>11. ASSUME NEW p \in Proc, Serves(p) \/ Exits(p) \/ ProcStep(p) PROVE TypeOK'
  BY <1>11, ProcStepType
<1>12. CASE Tick
  BY <1>12, ClockAssumption DEF Tick, TypeOK
<1>13. CASE UNCHANGED vars
  BY <1>13 DEF vars, TypeOK
<1> QED
  BY <1>1, <1>2, <1>3, <1>4, <1>5, <1>6, <1>7, <1>8, <1>9, <1>10, <1>11, <1>12, <1>13
  DEF Next, Over

--------------------------------------------------------------------------------
(* LockInv: what each way of moving does to the queue.                     *)

InQueue == Locked \cup {Waiting}

LEMMA EnqueueLock ==
  ASSUME TypeOK, LockInv, NEW t \in Task, pc[t] \notin InQueue, Enqueue(t)
  PROVE  LockInv'
<1>1. lockq \in Seq(Task) /\ lockq' = Append(lockq, t) /\ pc' = [pc EXCEPT ![t] = Waiting]
  BY DEF TypeOK, Enqueue, Goto
<1>2. \A i \in DOMAIN lockq : lockq[i] # t
  BY DEF LockInv, InQueue
<1>3. Waiting \notin Locked
  BY DEF Waiting, Locked, Stopping
<1>4. /\ DOMAIN lockq' = 1..(Len(lockq) + 1)
      /\ \A i \in DOMAIN lockq : lockq'[i] = lockq[i]
      /\ lockq'[Len(lockq) + 1] = t
      /\ DOMAIN lockq = 1..Len(lockq) /\ Len(lockq) \in Nat
  BY <1>1
<1>5. \A i, j \in DOMAIN lockq' : lockq'[i] = lockq'[j] => i = j
  <2>1. \A i, j \in DOMAIN lockq : lockq[i] = lockq[j] => i = j
    BY DEF LockInv
  <2> QED
    BY <1>2, <1>4, <2>1
<1>6. \A i \in DOMAIN lockq' : pc'[lockq'[i]] \in Locked \cup {Waiting}
  <2>1. \A i \in DOMAIN lockq : pc[lockq[i]] \in Locked \cup {Waiting} /\ lockq[i] \in Task
    BY <1>1 DEF LockInv
  <2> QED
    BY <1>1, <1>2, <1>4, <2>1 DEF TypeOK
<1>7. \A u \in Task : pc'[u] \in Locked => lockq' # <<>> /\ Head(lockq') = u
  <2> SUFFICES ASSUME NEW u \in Task, pc'[u] \in Locked
               PROVE  lockq' # <<>> /\ Head(lockq') = u
    OBVIOUS
  <2>1. pc[u] \in Locked
    BY <1>1, <1>3 DEF TypeOK
  <2>2. lockq # <<>> /\ Head(lockq) = u
    BY <2>1 DEF LockInv, Holds
  <2> QED
    BY <1>1, <2>2
<1> QED
  BY <1>5, <1>6, <1>7 DEF LockInv, Holds

LEMMA LeaveLock ==
  ASSUME TypeOK, LockInv, NEW t \in Task, NEW there \in Place \ InQueue,
         Holds(t), Leave(t, there)
  PROVE  LockInv'
<1>1. /\ lockq \in Seq(Task) /\ lockq # <<>> /\ lockq[1] = t
      /\ lockq' = Tail(lockq) /\ pc' = [pc EXCEPT ![t] = there]
  BY DEF TypeOK, Holds, Leave, Goto
<1>2. /\ DOMAIN lockq = 1..Len(lockq) /\ Len(lockq) \in Nat \ {0}
      /\ DOMAIN lockq' = 1..(Len(lockq) - 1)
      /\ \A i \in DOMAIN lockq' : lockq'[i] = lockq[i + 1] /\ i + 1 \in DOMAIN lockq
  BY <1>1
<1>3. \A i, j \in DOMAIN lockq : lockq[i] = lockq[j] => i = j
  BY DEF LockInv
<1>4. \A i, j \in DOMAIN lockq' : lockq'[i] = lockq'[j] => i = j
  BY <1>2, <1>3
<1>5. \A i \in DOMAIN lockq' : lockq'[i] # t
  BY <1>1, <1>2, <1>3
<1>6. \A i \in DOMAIN lockq' : pc'[lockq'[i]] \in Locked \cup {Waiting}
  <2>1. \A i \in DOMAIN lockq : pc[lockq[i]] \in Locked \cup {Waiting} /\ lockq[i] \in Task
    BY <1>1 DEF LockInv
  <2> QED
    BY <1>1, <1>2, <1>5, <2>1 DEF TypeOK
<1>7. \A u \in Task : pc'[u] \notin Locked
  <2> SUFFICES ASSUME NEW u \in Task, pc'[u] \in Locked PROVE FALSE
    OBVIOUS
  <2>1. u # t /\ pc[u] \in Locked
    BY <1>1 DEF TypeOK, InQueue
  <2> QED
    BY <2>1 DEF LockInv, Holds
<1> QED
  BY <1>4, <1>6, <1>7 DEF LockInv

LEMMA MoveLock ==
  ASSUME TypeOK, LockInv, NEW t \in Task, NEW there \in Locked,
         Holds(t), Goto(t, there), lockq' = lockq
  PROVE  LockInv'
<1>1. \A i \in DOMAIN lockq : lockq[i] \in Task
  BY DEF TypeOK
<1>2. \A u \in Task : pc'[u] \in Locked => Holds(u)
  BY DEF TypeOK, LockInv, Goto
<1> QED
  BY <1>1, <1>2 DEF TypeOK, LockInv, Goto, Holds

LEMMA OutsideLock ==
  ASSUME TypeOK, LockInv, NEW t \in Task, NEW there \in Place \ InQueue,
         pc[t] \notin InQueue, Goto(t, there), lockq' = lockq
  PROVE  LockInv'
<1>1. \A i \in DOMAIN lockq : lockq[i] \in Task /\ lockq[i] # t
  BY DEF TypeOK, LockInv, InQueue
<1>2. \A u \in Task : pc'[u] \in Locked => Holds(u)
  BY DEF TypeOK, LockInv, Goto, InQueue
<1> QED
  BY <1>1, <1>2 DEF TypeOK, LockInv, Goto, Holds

LEMMA SameLock ==
  ASSUME LockInv, UNCHANGED <<lockq, pc>> PROVE LockInv'
  BY DEF LockInv, Holds

LEMMA RequestStepLock ==
  ASSUME TypeOK, LockInv, NEW r \in Request, RequestStep(r)
  PROVE  LockInv'
<1> r \in Task
  BY DEF Task
<1>0. pc[r] \in Locked => Holds(r)
  BY DEF LockInv
<1> USE DEF Place, Locked, Stopping, Waiting, InQueue
<1>1. CASE Reuse(r)
  BY <1>1, LeaveLock DEF Reuse, Return, Granted
<1>2. CASE BeginSwap(r)
  BY <1>2, MoveLock DEF BeginSwap, Terminate, Granted
<1>3. CASE BeginLaunch(r)
  BY <1>3, MoveLock DEF BeginLaunch, Granted
<1>4. CASE SwapStopped(r)
  BY <1>0, <1>4, MoveLock DEF SwapStopped, Stopped
<1>5. ASSUME NEW p \in Proc, Spawn(r, p) PROVE LockInv'
  BY <1>0, <1>5, MoveLock DEF Spawn
<1>6. CASE SpawnFails(r)
  BY <1>0, <1>6, LeaveLock DEF SpawnFails
<1>7. CASE HealthAnswered(r)
  BY <1>0, <1>7, MoveLock DEF HealthAnswered
<1>8. CASE BecomesReady(r)
  BY <1>0, <1>8, LeaveLock DEF BecomesReady, Return
<1>9. CASE BootFails(r)
  BY <1>0, <1>9, LeaveLock DEF BootFails
<1>10. CASE BootTimesOut(r)
  BY <1>0, <1>10, MoveLock DEF BootTimesOut, Terminate
<1>11. CASE FailStopped(r)
  BY <1>0, <1>11, LeaveLock DEF FailStopped, Stopped
<1> QED
  BY <1>1, <1>2, <1>3, <1>4, <1>5, <1>6, <1>7, <1>8, <1>9, <1>10, <1>11 DEF RequestStep

LEMMA StopperStepLock ==
  ASSUME TypeOK, LockInv, NEW t \in Stopper, StopperStep(t)
  PROVE  LockInv'
<1> t \in Task /\ Rest(t) \in {"idle", "sleep", "down"}
  BY TaskAssumption DEF Task, Stopper, Rest
<1>0. pc[t] \in Locked => Holds(t)
  BY DEF LockInv
<1> USE DEF Place, Locked, Stopping, Waiting, InQueue
<1>1. CASE StopAtOnce(t)
  BY <1>1, LeaveLock DEF StopAtOnce, Retire, Granted
<1>2. CASE BeginStop(t)
  BY <1>2, MoveLock DEF BeginStop, Terminate, Granted
<1>3. CASE EndStop(t)
  BY <1>0, <1>3, LeaveLock DEF EndStop, Stopped, Retire
<1> QED
  BY <1>1, <1>2, <1>3 DEF StopperStep

LEMMA NextLockInv == TypeOK /\ LockInv /\ [Next]_vars => LockInv'
<1> SUFFICES ASSUME TypeOK, LockInv, [Next]_vars PROVE LockInv'
  OBVIOUS
<1> Request \subseteq Task /\ {Unloader, Watcher, Closer} \subseteq Task
  BY DEF Task
<1> USE DEF InQueue
<1>1. ASSUME NEW r \in Request, NEW m \in Model, Ask(r, m) PROVE LockInv'
  BY <1>1, EnqueueLock DEF Ask, Locked, Stopping, Waiting
<1>2. ASSUME NEW r \in Request, RequestStep(r) PROVE LockInv'
  BY <1>2, RequestStepLock
<1>3. ASSUME NEW r \in Request, EndCall(r) PROVE LockInv'
  BY <1>3, OutsideLock DEF EndCall, Place, Locked, Stopping, Waiting
<1>4. ASSUME NEW r \in Request, NEW p \in Proc, Connect(r, p) PROVE LockInv'
  BY <1>4, OutsideLock DEF Connect, Place, Locked, Stopping, Waiting
<1>5. ASSUME NEW t \in Task, Kill(t) PROVE LockInv'
  BY <1>5, SameLock DEF Kill
<1>6. ASSUME NEW t \in Stopper, StopperStep(t) PROVE LockInv'
  BY <1>6, StopperStepLock
<1>7. CASE AskUnload
  BY <1>7, EnqueueLock DEF AskUnload, Locked, Stopping, Waiting
<1>8. CASE IdleCheck
  BY <1>8, EnqueueLock DEF IdleCheck, Locked, Stopping, Waiting
<1>9. CASE WatcherSkips
  BY <1>9, LeaveLock DEF WatcherSkips, Granted, Place, Locked, Stopping, Waiting
<1>10. CASE BeginShutdown
  <2>1. lockq' = <<Closer>> /\ pc' = [pc EXCEPT ![Watcher] = "cancelled", ![Closer] = Waiting]
    BY <1>10 DEF BeginShutdown
  <2>2. \A t \in Task : pc'[t] \notin Locked
    BY <1>10, <2>1, TaskAssumption DEF BeginShutdown, TypeOK, Task, Locked, Stopping, Waiting
  <2>3. pc'[Closer] = Waiting
    BY <2>1 DEF TypeOK
  <2> QED
    <3>1. lockq' = <<Closer>> /\ DOMAIN lockq' = {1} /\ lockq'[1] = Closer
      BY <2>1
    <3> QED
      BY <3>1, <2>2, <2>3 DEF LockInv
<1>11. ASSUME NEW p \in Proc, Serves(p) \/ Exits(p) \/ ProcStep(p) PROVE LockInv'
  BY <1>11, SameLock DEF Serves, Exits, ProcStep, Reaped, TailEnds, Forgotten
<1>12. CASE Tick
  BY <1>12, SameLock DEF Tick
<1>13. CASE UNCHANGED vars
  BY <1>13, SameLock DEF vars
<1> QED
  BY <1>1, <1>2, <1>3, <1>4, <1>5, <1>6, <1>7, <1>8, <1>9, <1>10, <1>11, <1>12, <1>13
  DEF Next, Over

LEMMA InitLockInv == Init => LockInv
  BY TaskAssumption DEF Init, LockInv, Locked, Stopping

--------------------------------------------------------------------------------
(* SlotInv and OneServer.                                                  *)

(* Whoever has just been granted the lock finds nobody inside.             *)
LEMMA GrantedAlone ==
  ASSUME TypeOK, LockInv, SlotInv, NEW t \in Task, Granted(t)
  PROVE  /\ victim = None
         /\ \A u \in Task : pc[u] \notin Locked
<1>1. lockq # <<>> /\ Head(lockq) = t /\ pc[t] = Waiting
  BY DEF Granted, Holds
<1>2. pc[t] \notin Locked
  BY <1>1 DEF Waiting, Locked, Stopping
<1>3. \A u \in Task : pc[u] \notin Locked
  BY <1>1, <1>2 DEF LockInv, Holds
<1>4. victim = None
  BY <1>1, <1>2 DEF SlotInv, Locked
<1> QED
  BY <1>3, <1>4

(* Whoever is inside is alone there.                                       *)
LEMMA InsideAlone ==
  ASSUME TypeOK, LockInv, NEW t \in Task, pc[t] \in Locked
  PROVE  \A u \in Task : pc[u] \in Locked => u = t
  BY DEF LockInv, Holds

(* Shutdown is not undone, and every request has ended when it begins.     *)
LEMMA OpenFrame ==
  ASSUME TypeOK, SlotInv, NEW t \in Task, NEW there, pc[t] \in InQueue,
         t = Closer => there # "idle", Goto(t, there)
  PROVE  /\ Open' => Open
         /\ ~Open' => \A r \in Request : pc'[r] = "idle"
<1> USE TaskAssumption DEF TypeOK, Task, Open, Goto
<1>1. pc[t] # "idle"
  BY DEF InQueue, Locked, Stopping, Waiting
<1>2. CASE t = Closer
  BY <1>1, <1>2 DEF SlotInv
<1>3. CASE t # Closer
  BY <1>1, <1>3 DEF SlotInv
<1> QED
  BY <1>2, <1>3

(* A step of task t while nobody else is inside: what is left to show of   *)
(* the slot concerns t alone.                                              *)
LEMMA AloneSlot ==
  ASSUME TypeOK, OneServer,
         NEW t \in Task, NEW there, Goto(t, there),
         \A u \in Task \ {t} : pc[u] \notin Locked,
         there \in Stopping => victim' # None /\ current' = None,
         there = "spawn" => victim' = None /\ current' = None,
         there \in {"boot", "answered"} =>
           current' # None /\ victim' = None /\ proc'[current'].model = want'[t],
         victim' # None => lockq' # <<>> /\ Head(lockq') = t /\ there \in Stopping,
         t \in Stopper /\ there \in Locked => there = "stop",
         ~Open' => \A r \in Request : pc'[r] = "idle",
         Open' => \A p \in Proc : Live(p)' => p \in {current', victim'},
         OneServer' \/ \A p \in Proc : Live(p)' => Live(p)
  PROVE  SlotInv' /\ OneServer'
<1>1. pc'[t] = there /\ \A u \in Task \ {t} : pc'[u] = pc[u]
  BY DEF TypeOK, Goto
<1>2. OneServer'
  BY DEF OneServer
<1>3. Request \subseteq Task /\ Stopper \subseteq Task
  BY DEF Task, Stopper
<1>4. \A u \in Task \ {t} : pc'[u] \notin Locked
  BY <1>1
<1>5. /\ \A u \in Task : pc'[u] \in Stopping => victim' # None /\ current' = None
      /\ \A r \in Request : pc'[r] = "spawn" => victim' = None /\ current' = None
      /\ \A r \in Request : pc'[r] \in {"boot", "answered"} =>
           current' # None /\ victim' = None /\ proc'[current'].model = want'[r]
      /\ \A u \in Stopper : pc'[u] \in Locked => pc'[u] = "stop"
  BY <1>1, <1>3, <1>4 DEF Locked
<1>6. victim' # None => lockq' # <<>> /\ pc'[Head(lockq')] \in Stopping
  BY <1>1
<1> QED
  BY <1>2, <1>5, <1>6 DEF SlotInv

(* A step of a task that stays outside.                                    *)
LEMMA OuterSlot ==
  ASSUME TypeOK, LockInv, SlotInv, OneServer,
         NEW t \in Task \ {Closer}, NEW there, there \notin Locked, pc[t] \notin Locked,
         Goto(t, there), UNCHANGED <<current, victim, proc>>,
         \A r \in Request \ {t} : want'[r] = want[r],
         victim # None => lockq' # <<>> /\ Head(lockq') = Head(lockq),
         t \in Request => Open \/ there = "idle"
  PROVE  SlotInv' /\ OneServer'
<1>1. pc'[t] = there /\ \A u \in Task \ {t} : pc'[u] = pc[u]
  BY DEF TypeOK, Goto
<1>2. Request \subseteq Task /\ Stopper \subseteq Task /\ Closer \in Task
  BY DEF Task, Stopper
<1>3. (Open' <=> Open) /\ \A p \in Proc : Live(p)' <=> Live(p)
  BY <1>1, <1>2 DEF Open, Live
<1>4. /\ \A u \in Task : pc'[u] \in Stopping => victim' # None /\ current' = None
      /\ \A r \in Request : pc'[r] = "spawn" => victim' = None /\ current' = None
      /\ \A r \in Request : pc'[r] \in {"boot", "answered"} =>
           current' # None /\ victim' = None /\ proc'[current'].model = want'[r]
      /\ \A u \in Stopper : pc'[u] \in Locked => pc'[u] = "stop"
  BY <1>1, <1>2 DEF SlotInv, Locked
<1>5. victim' # None => lockq' # <<>> /\ pc'[Head(lockq')] \in Stopping
  <2> SUFFICES ASSUME victim # None PROVE lockq' # <<>> /\ pc'[Head(lockq')] \in Stopping
    OBVIOUS
  <2>1. pc[Head(lockq)] \in Stopping /\ Head(lockq) \in Task
    BY DEF SlotInv, TypeOK
  <2> QED
    BY <1>1, <2>1 DEF Locked
<1>6. ~Open' => \A r \in Request : pc'[r] = "idle"
  BY <1>1, <1>2, <1>3 DEF SlotInv
<1>7. OneServer' /\ (Open' => \A p \in Proc : Live(p)' => p \in {current', victim'})
  BY <1>3 DEF SlotInv, OneServer
<1> QED
  BY <1>4, <1>5, <1>6, <1>7 DEF SlotInv

(* A step of the world around the tasks: no process comes to life.         *)
LEMMA FrameSlot ==
  ASSUME TypeOK, SlotInv, OneServer, UNCHANGED <<lockq, pc, want, current, victim>>,
         \A p \in Proc : (Live(p)' => Live(p)) /\ (p = current => proc'[p].model = proc[p].model)
  PROVE  SlotInv' /\ OneServer'
<1>1. (Open' <=> Open) /\ OneServer'
  BY DEF Open, OneServer
<1>2. \A r \in Request : pc'[r] \in {"boot", "answered"} =>
        current' # None /\ victim' = None /\ proc'[current'].model = want'[r]
  BY DEF SlotInv, TypeOK
<1> QED
  BY <1>1, <1>2 DEF SlotInv

(* Sending SIGTERM and stepping into the await of _stop_current.           *)
LEMMA TerminateSlot ==
  ASSUME TypeOK, LockInv, SlotInv, OneServer,
         NEW t \in Task, NEW why \in Stopping, Terminate(t, why), Holds(t), pc[t] \in InQueue,
         victim = None, \A u \in Task \ {t} : pc[u] \notin Locked,
         t \in Stopper => why = "stop", UNCHANGED <<lockq, want>>
  PROVE  SlotInv' /\ OneServer'
<1>1. /\ victim' = current /\ current' = None /\ current \in Proc /\ Goto(t, why)
      /\ proc' = [proc EXCEPT ![current].sig = "term"]
  BY DEF Terminate, TypeOK
<1>2. \A p \in Proc : Live(p)' <=> Live(p)
  BY <1>1 DEF Live, TypeOK, ProcType
<1>3. (Open' => Open) /\ (~Open' => \A r \in Request : pc'[r] = "idle")
  BY <1>1, OpenFrame DEF Stopping
<1>4. Open' => \A p \in Proc : Live(p)' => p \in {current', victim'}
  BY <1>1, <1>2, <1>3, ProcAssumption DEF SlotInv
<1>5. victim' # None /\ lockq' # <<>> /\ Head(lockq') = t
  BY <1>1, ProcAssumption DEF Holds
<1> QED
  BY <1>1, <1>2, <1>3, <1>4, <1>5, AloneSlot DEF Stopping

LEMMA RequestStepSlot ==
  ASSUME TypeOK, LockInv, SlotInv, OneServer, NEW r \in Request, RequestStep(r)
  PROVE  SlotInv' /\ OneServer'
<1>a. r \in Task /\ r # Closer /\ r \notin Stopper
  BY TaskAssumption DEF Task, Stopper
<1>b. pc[r] \in Locked => Holds(r) /\ \A u \in Task \ {r} : pc[u] \notin Locked
  BY <1>a, InsideAlone DEF LockInv
<1>c. Granted(r) => victim = None /\ Holds(r) /\ pc[r] = Waiting /\ \A u \in Task : pc[u] \notin Locked
  BY <1>a, GrantedAlone DEF Granted
<1>d. ASSUME NEW there, pc[r] \in InQueue, Goto(r, there)
      PROVE  /\ Open' => Open
             /\ ~Open' => \A q \in Request : pc'[q] = "idle"
  BY <1>a, <1>d, OpenFrame
<1>1. CASE Reuse(r)
  <2>1. Open
    BY <1>1, <1>c DEF Reuse, SlotInv, Waiting
  <2>2. Goto(r, "route") /\ UNCHANGED <<current, victim, proc, want>>
    BY <1>1 DEF Reuse, Return, Leave
  <2>3. pc[r] \notin Locked /\ victim = None
    BY <1>1, <1>a, <1>c DEF Reuse
  <2> QED
    BY <1>a, <2>1, <2>2, <2>3, OuterSlot DEF Locked, Stopping
<1>2. CASE BeginSwap(r)
  BY <1>2, <1>a, <1>c, TerminateSlot DEF BeginSwap, InQueue, Stopping
<1>3. CASE BeginLaunch(r)
  <2>1. Goto(r, "spawn") /\ current' = None /\ UNCHANGED <<victim, proc, want>> /\ victim = None
    BY <1>3, <1>c DEF BeginLaunch
  <2>2. current # None => Dead(current)
    BY <1>3, QuickStopsFacts DEF BeginLaunch
  <2>3. \A p \in Proc : Live(p)' <=> Live(p)
    BY <2>1 DEF Live
  <2>4. Open' => \A p \in Proc : Live(p)' => p \in {current', victim'}
    BY <1>3, <1>c, <1>d, <2>1, <2>2, <2>3, ProcAssumption DEF SlotInv, InQueue, Live, Dead, BeginLaunch
  <2> QED
    BY <1>3, <1>a, <1>c, <1>d, <2>1, <2>3, <2>4, AloneSlot DEF InQueue, Stopping, BeginLaunch
<1>4. CASE SwapStopped(r)
  <2>1. /\ Goto(r, "spawn") /\ victim' = None /\ UNCHANGED <<current, want>> /\ pc[r] = "swap"
        /\ proc[victim].os = "reaped" /\ proc' = [proc EXCEPT ![victim].said = SaidAfterStop]
    BY <1>4 DEF SwapStopped, Stopped
  <2>2. pc[r] \in Locked /\ current = None
    BY <2>1, <1>a DEF SlotInv, Locked, Stopping
  <2>3. \A p \in Proc : (Live(p)' <=> Live(p)) /\ (Live(p) => p # victim)
    BY <2>1 DEF Live, TypeOK, ProcType
  <2>4. Open' => \A p \in Proc : Live(p)' => p \in {current', victim'}
    BY <1>d, <2>1, <2>2, <2>3 DEF SlotInv, InQueue
  <2> QED
    BY <1>a, <1>b, <1>d, <2>1, <2>2, <2>3, <2>4, AloneSlot DEF InQueue, Stopping
<1>5. ASSUME NEW p \in Proc, Spawn(r, p) PROVE SlotInv' /\ OneServer'
  <2>1. /\ Goto(r, "boot") /\ current' = p /\ UNCHANGED <<victim, want>> /\ pc[r] = "spawn"
        /\ proc' = [proc EXCEPT ![p] = [Unborn EXCEPT !.model = want[r], !.entry = "loading",
                                                     !.os = "booting", !.tail = TRUE]]
    BY <1>5 DEF Spawn
  <2>2. pc[r] \in Locked /\ current = None /\ victim = None /\ Open
    BY <2>1 DEF SlotInv, Locked
  <2>3. \A q \in Proc : ~Live(q)
    BY <2>2, ProcAssumption DEF SlotInv
  <2>4. proc'[p].model = want[r] /\ \A q \in Proc \ {p} : proc'[q] = proc[q]
    BY <2>1 DEF TypeOK, Unborn
  <2>5. \A q \in Proc : Live(q)' => q = p
    BY <2>3, <2>4 DEF Live
  <2>6. OneServer'
    BY <2>5 DEF OneServer
  <2>7. p # None
    BY ProcAssumption
  <2> QED
    BY <1>a, <1>b, <1>d, <2>1, <2>2, <2>4, <2>5, <2>6, <2>7, AloneSlot DEF InQueue, Stopping
<1>6. CASE SpawnFails(r)
  <2>1. /\ Goto(r, "idle") /\ UNCHANGED <<current, victim, proc>> /\ pc[r] = "spawn"
    BY <1>6 DEF SpawnFails, Leave
  <2>2. pc[r] \in Locked /\ victim = None /\ \A p \in Proc : Live(p)' <=> Live(p)
    BY <2>1 DEF SlotInv, Locked, Live
  <2>3. Open' => \A p \in Proc : Live(p)' => p \in {current', victim'}
    BY <1>d, <2>1, <2>2 DEF SlotInv, InQueue
  <2> QED
    BY <1>a, <1>b, <1>d, <2>1, <2>2, <2>3, AloneSlot DEF InQueue, Stopping
<1>7. CASE HealthAnswered(r)
  <2>1. /\ Goto(r, "answered") /\ UNCHANGED <<current, victim, proc, want, lockq>> /\ pc[r] = "boot"
    BY <1>7 DEF HealthAnswered
  <2>2. /\ pc[r] \in Locked /\ victim = None /\ current # None /\ proc[current].model = want[r]
        /\ \A p \in Proc : Live(p)' <=> Live(p)
    BY <2>1 DEF SlotInv, Locked, Live
  <2>3. Open' => \A p \in Proc : Live(p)' => p \in {current', victim'}
    BY <1>d, <2>1, <2>2 DEF SlotInv, InQueue
  <2> QED
    BY <1>a, <1>b, <1>d, <2>1, <2>2, <2>3, AloneSlot DEF InQueue, Stopping
<1>8. CASE BecomesReady(r)
  <2>1. /\ Goto(r, "route") /\ UNCHANGED <<current, victim>> /\ pc[r] = "answered"
        /\ proc' = [proc EXCEPT ![current].entry = "ready", ![current].said = "loaded"]
    BY <1>8 DEF BecomesReady, Return, Leave
  <2>2. /\ pc[r] \in Locked /\ victim = None
        /\ \A p \in Proc : Live(p)' <=> Live(p)
    BY <2>1 DEF SlotInv, Locked, Live, TypeOK, ProcType
  <2>3. Open' => \A p \in Proc : Live(p)' => p \in {current', victim'}
    BY <1>d, <2>1, <2>2 DEF SlotInv, InQueue
  <2> QED
    BY <1>a, <1>b, <1>d, <2>1, <2>2, <2>3, AloneSlot DEF InQueue, Stopping, Locked
<1>9. CASE BootFails(r)
  <2>1. /\ Goto(r, "idle") /\ current' = None /\ UNCHANGED victim /\ pc[r] = "boot"
        /\ proc' = [proc EXCEPT ![current].said = "failed"]
    BY <1>9 DEF BootFails, Leave
  <2>2. /\ pc[r] \in Locked /\ victim = None
        /\ \A p \in Proc : Live(p)' <=> Live(p)
    BY <2>1 DEF SlotInv, Locked, Live, TypeOK, ProcType
  <2>3. current # None => Dead(current)
    BY <1>9, QuickStopsFacts DEF BootFails
  <2>4. Open' => \A p \in Proc : Live(p)' => p \in {current', victim'}
    BY <1>d, <2>1, <2>2, <2>3, ProcAssumption DEF SlotInv, InQueue, Live, Dead
  <2> QED
    BY <1>a, <1>b, <1>d, <2>1, <2>2, <2>4, AloneSlot DEF InQueue, Stopping, Locked
<1>10. CASE BootTimesOut(r)
  <2>1. pc[r] = "boot" /\ Terminate(r, "fail") /\ UNCHANGED <<lockq, want>>
    BY <1>10 DEF BootTimesOut
  <2>2. victim = None /\ pc[r] \in Locked
    BY <2>1 DEF SlotInv, Locked
  <2> QED
    BY <1>a, <1>b, <2>1, <2>2, TerminateSlot DEF InQueue, Stopping
<1>11. CASE FailStopped(r)
  <2>1. /\ Goto(r, "idle") /\ victim' = None /\ UNCHANGED current /\ pc[r] = "fail"
        /\ proc[victim].os = "reaped" /\ proc' = [proc EXCEPT ![victim].said = "failed"]
    BY <1>11 DEF FailStopped, Stopped, Leave
  <2>2. pc[r] \in Locked
    BY <2>1 DEF Locked, Stopping
  <2>3. \A p \in Proc : (Live(p)' <=> Live(p)) /\ (Live(p) => p # victim)
    BY <2>1 DEF Live, TypeOK, ProcType
  <2>4. Open' => \A p \in Proc : Live(p)' => p \in {current', victim'}
    BY <1>d, <2>1, <2>2, <2>3 DEF SlotInv, InQueue
  <2> QED
    BY <1>a, <1>b, <1>d, <2>1, <2>2, <2>3, <2>4, AloneSlot DEF InQueue, Stopping, Locked
<1> QED
  BY <1>1, <1>2, <1>3, <1>4, <1>5, <1>6, <1>7, <1>8, <1>9, <1>10, <1>11 DEF RequestStep

LEMMA StopperStepSlot ==
  ASSUME TypeOK, LockInv, SlotInv, OneServer, NEW t \in Stopper, StopperStep(t)
  PROVE  SlotInv' /\ OneServer'
<1>a. t \in Task /\ Rest(t) \notin Locked /\ (t = Closer => Rest(t) # "idle")
  BY TaskAssumption DEF Task, Stopper, Rest, Locked, Stopping
<1>b. pc[t] \in Locked => Holds(t) /\ \A u \in Task \ {t} : pc[u] \notin Locked
  BY <1>a, InsideAlone DEF LockInv
<1>c. Granted(t) => victim = None /\ Holds(t) /\ pc[t] = Waiting /\ \A u \in Task : pc[u] \notin Locked
  BY <1>a, GrantedAlone DEF Granted
<1>d. ASSUME pc[t] \in InQueue, Goto(t, Rest(t))
      PROVE  /\ Open' => Open
             /\ ~Open' => \A q \in Request : pc'[q] = "idle"
  BY <1>a, <1>d, OpenFrame
<1>1. CASE StopAtOnce(t)
  <2>1. Goto(t, Rest(t)) /\ current' = None /\ UNCHANGED <<victim, proc>> /\ victim = None
    BY <1>1, <1>c DEF StopAtOnce, Retire, Leave
  <2>2. current # None => Dead(current)
    BY <1>1, QuickStopsFacts DEF StopAtOnce
  <2>3. \A p \in Proc : Live(p)' <=> Live(p)
    BY <2>1 DEF Live
  <2>4. Open' => \A p \in Proc : Live(p)' => p \in {current', victim'}
    BY <1>1, <1>c, <1>d, <2>1, <2>2, <2>3, ProcAssumption
    DEF SlotInv, InQueue, Live, Dead, StopAtOnce
  <2> QED
    BY <1>1, <1>a, <1>c, <1>d, <2>1, <2>3, <2>4, AloneSlot DEF InQueue, StopAtOnce, Locked
<1>2. CASE BeginStop(t)
  BY <1>2, <1>a, <1>c, TerminateSlot DEF BeginStop, InQueue, Stopping
<1>3. CASE EndStop(t)
  <2>1. /\ Goto(t, Rest(t)) /\ victim' = None /\ UNCHANGED current /\ pc[t] = "stop"
        /\ proc[victim].os = "reaped" /\ proc' = [proc EXCEPT ![victim].said = SaidAfterStop]
    BY <1>3 DEF EndStop, Stopped, Retire, Leave
  <2>2. pc[t] \in Locked
    BY <2>1 DEF Locked, Stopping
  <2>3. \A p \in Proc : (Live(p)' <=> Live(p)) /\ (Live(p) => p # victim)
    BY <2>1 DEF Live, TypeOK, ProcType
  <2>4. Open' => \A p \in Proc : Live(p)' => p \in {current', victim'}
    BY <1>d, <2>1, <2>2, <2>3 DEF SlotInv, InQueue
  <2> QED
    BY <1>a, <1>b, <1>d, <2>1, <2>2, <2>3, <2>4, AloneSlot DEF InQueue, Locked
<1> QED
  BY <1>1, <1>2, <1>3 DEF StopperStep

LEMMA NextSlot == TypeOK /\ LockInv /\ SlotInv /\ OneServer /\ [Next]_vars => SlotInv' /\ OneServer'
<1> SUFFICES ASSUME TypeOK, LockInv, SlotInv, OneServer, [Next]_vars PROVE SlotInv' /\ OneServer'
  OBVIOUS
<1>a. /\ Request \subseteq Task \ {Closer} /\ {Unloader, Watcher} \subseteq Task \ {Closer}
      /\ \A r \in Request : r \notin {Unloader, Watcher}
  BY TaskAssumption DEF Task
<1>b. ASSUME NEW t \in Task, Enqueue(t)
      PROVE  victim # None => lockq' # <<>> /\ Head(lockq') = Head(lockq)
  BY <1>b DEF Enqueue, TypeOK, SlotInv
<1>c. {"idle", "sleep", "route", "stream", Waiting} \cap Locked = {}
  BY DEF Locked, Stopping, Waiting
<1>1. ASSUME NEW r \in Request, NEW m \in Model, Ask(r, m) PROVE SlotInv' /\ OneServer'
  <2>1. pc[r] \notin Locked /\ Open /\ Goto(r, Waiting) /\ UNCHANGED <<current, victim, proc>>
    BY <1>1, <1>c DEF Ask, Enqueue
  <2>2. \A q \in Request \ {r} : want'[q] = want[q]
    BY <1>1 DEF Ask, TypeOK
  <2>3. victim # None => lockq' # <<>> /\ Head(lockq') = Head(lockq)
    BY <1>1, <1>a, <1>b DEF Ask
  <2> QED
    BY <1>a, <1>c, <2>1, <2>2, <2>3, OuterSlot
<1>2. ASSUME NEW r \in Request, RequestStep(r) PROVE SlotInv' /\ OneServer'
  BY <1>2, RequestStepSlot
<1>3. ASSUME NEW r \in Request, EndCall(r) PROVE SlotInv' /\ OneServer'
  <2>1. pc[r] \notin Locked /\ Goto(r, "idle") /\ UNCHANGED <<lockq, current, victim, proc>>
    BY <1>3, <1>c DEF EndCall
  <2>2. \A q \in Request \ {r} : want'[q] = want[q]
    BY <1>3 DEF EndCall, Answer, TypeOK
  <2> QED
    BY <1>a, <1>c, <2>1, <2>2, OuterSlot DEF SlotInv
<1>4. ASSUME NEW r \in Request, NEW p \in Proc, Connect(r, p) PROVE SlotInv' /\ OneServer'
  <2>1. pc[r] \notin Locked /\ Goto(r, "stream") /\ UNCHANGED <<lockq, current, victim, proc, want>>
    BY <1>4, <1>c DEF Connect
  <2>2. Open
    BY <1>4 DEF Connect, SlotInv
  <2> QED
    BY <1>a, <1>c, <2>1, <2>2, OuterSlot DEF SlotInv
<1>5. ASSUME NEW t \in Task, Kill(t) PROVE SlotInv' /\ OneServer'
  BY <1>5, FrameSlot DEF Kill, Live, TypeOK, ProcType
<1>6. ASSUME NEW t \in Stopper, StopperStep(t) PROVE SlotInv' /\ OneServer'
  BY <1>6, StopperStepSlot
<1>7. CASE AskUnload
  <2>1. pc[Unloader] \notin Locked /\ Goto(Unloader, Waiting) /\ UNCHANGED <<current, victim, proc, want>>
    BY <1>7, <1>c DEF AskUnload, Enqueue
  <2>2. victim # None => lockq' # <<>> /\ Head(lockq') = Head(lockq)
    BY <1>7, <1>a, <1>b DEF AskUnload
  <2> QED
    BY <1>a, <1>c, <2>1, <2>2, OuterSlot
<1>8. CASE IdleCheck
  <2>1. pc[Watcher] \notin Locked /\ Goto(Watcher, Waiting) /\ UNCHANGED <<current, victim, proc, want>>
    BY <1>8, <1>c DEF IdleCheck, Enqueue
  <2>2. victim # None => lockq' # <<>> /\ Head(lockq') = Head(lockq)
    BY <1>8, <1>a, <1>b DEF IdleCheck
  <2> QED
    BY <1>a, <1>c, <2>1, <2>2, OuterSlot
<1>9. CASE WatcherSkips
  <2>1. victim = None /\ pc[Watcher] \notin Locked
    BY <1>9, <1>a, GrantedAlone DEF WatcherSkips
  <2>2. Goto(Watcher, "sleep") /\ UNCHANGED <<current, victim, proc, want>>
    BY <1>9 DEF WatcherSkips, Leave
  <2> QED
    BY <1>a, <1>c, <2>1, <2>2, OuterSlot
<1>10. CASE BeginShutdown
  <2>1. /\ Open /\ victim' = None /\ UNCHANGED <<current, proc>>
        /\ pc' = [pc EXCEPT ![Watcher] = "cancelled", ![Closer] = Waiting]
        /\ \A t \in Request \cup {Unloader} : pc[t] = "idle"
    BY <1>10 DEF BeginShutdown
  <2>2. ~Open'
    BY <2>1, <1>a DEF Open, TypeOK, Task, Waiting
  <2>3. \A t \in Task : pc'[t] \in {"idle", "cancelled", Waiting}
    BY <2>1, TaskAssumption DEF TypeOK, Task
  <2>4. \A r \in Request : pc'[r] = "idle"
    BY <2>1, TaskAssumption DEF TypeOK, Task
  <2>5. {"idle", "cancelled", Waiting} \cap Locked = {}
    BY DEF Locked, Stopping, Waiting
  <2>6. OneServer'
    BY <2>1 DEF OneServer, Live
  <2> QED
    BY <2>1, <2>2, <2>3, <2>4, <2>5, <2>6 DEF SlotInv, Stopper, Task, Locked
<1>11. ASSUME NEW p \in Proc, Serves(p) \/ Exits(p) \/ ProcStep(p) PROVE SlotInv' /\ OneServer'
  BY <1>11, FrameSlot
  DEF Serves, Exits, ProcStep, Reaped, TailEnds, Forgotten, Live, TypeOK, ProcType, Unborn
<1>12. CASE Tick
  BY <1>12, FrameSlot DEF Tick, Live
<1>13. CASE UNCHANGED vars
  BY <1>13, FrameSlot DEF vars, Live
<1> QED
  BY <1>1, <1>2, <1>3, <1>4, <1>5, <1>6, <1>7, <1>8, <1>9, <1>10, <1>11, <1>12, <1>13
  DEF Next, Over

LEMMA InitSlot == Init => SlotInv /\ OneServer
<1> SUFFICES ASSUME Init PROVE SlotInv /\ OneServer
  OBVIOUS
<1>1. \A t \in Task : pc[t] \in {"idle", "sleep"}
  BY DEF Init
<1>2. \A p \in Proc : ~Live(p)
  BY DEF Init, Live, Unborn
<1>3. Open
  BY TaskAssumption DEF Init, Open, Task
<1> QED
  BY <1>1, <1>2, <1>3 DEF Init, SlotInv, OneServer, Locked, Stopping, Task, Stopper

--------------------------------------------------------------------------------
(* The type invariant of the manager, for every model set and any number   *)
(* of requests: it rests on the lock discipline, because whoever gives the *)
(* lock back must be at the head of its queue.                             *)
THEOREM TypeCorrect == Spec => []TypeOK
<1>1. Init => TypeOK /\ LockInv
  BY InitTypeOK, InitLockInv
<1>2. TypeOK /\ LockInv /\ [Next]_vars => (TypeOK /\ LockInv)'
  BY NextTypeOK, NextLockInv
<1> QED
  BY <1>1, <1>2, PTL DEF Spec

(* The lock discipline, the slot and OneServer hold together in every      *)
(* reachable state: the invariant the theorems below are read off.         *)
THEOREM Inductive == Spec => [](TypeOK /\ LockInv /\ SlotInv /\ OneServer)
<1>1. Init => TypeOK /\ LockInv /\ SlotInv /\ OneServer
  BY InitTypeOK, InitLockInv, InitSlot
<1>2. TypeOK /\ LockInv /\ SlotInv /\ OneServer /\ [Next]_vars
        => (TypeOK /\ LockInv /\ SlotInv /\ OneServer)'
  BY NextTypeOK, NextLockInv, NextSlot
<1> QED
  BY <1>1, <1>2, PTL DEF Spec

(* Two tasks are never inside the locked code at once, and where the holder*)
(* stands always agrees with what is in the slot.                          *)
THEOREM ManagerInvAlways == Spec => []ManagerInv
<1>1. LockInv /\ SlotInv => ManagerInv
  BY DEF ManagerInv
<1> QED
  BY <1>1, Inductive, PTL

(* "Only one model is loaded at a time", whatever the number of models,    *)
(* requests and processes, and whenever processes die.                     *)
THEOREM OneServerAlways == Spec => []OneServer
  BY Inductive, PTL

(* Whoever lets a process go that lives has told it to end, and shutdown   *)
(* lets every process go.                                                  *)
Told ==
  /\ \A p \in Proc : Live(p) => p = current \/ proc[p].sig # "none"
  /\ pc[Closer] = "down" => current = None

LEMMA ToldFrame ==
  ASSUME Told, current' = current, pc'[Closer] = "down" => pc[Closer] = "down",
         \A p \in Proc : Live(p)' => Live(p) /\ proc'[p].sig \in {proc[p].sig, "kill"}
  PROVE  Told'
  BY DEF Told

LEMMA ToldGone ==
  ASSUME TypeOK, Told, current' = None,
         \A p \in Proc : (Live(p)' => Live(p)) /\ (p # current => proc'[p].sig = proc[p].sig),
         current # None => Dead(current) \/ proc'[current].sig # "none"
  PROVE  Told'
  BY DEF Told, TypeOK, Live, Dead

LEMMA ToldTerminate ==
  ASSUME TypeOK, Told, NEW t, NEW why, Terminate(t, why)
  PROVE  Told'
<1>1. current \in Proc /\ current' = None /\ proc' = [proc EXCEPT ![current].sig = "term"]
  BY DEF Terminate, TypeOK
<1>2. \A p \in Proc : (Live(p)' => Live(p)) /\ (p # current => proc'[p].sig = proc[p].sig)
  BY <1>1 DEF TypeOK, ProcType, Live
<1>3. proc'[current].sig = "term"
  BY <1>1 DEF TypeOK, ProcType
<1> QED
  BY <1>1, <1>2, <1>3, ToldGone

(* Events, signals and ends of processes.                                  *)
LEMMA ProcFrame ==
  ASSUME TypeOK, NEW p,
         \/ \E v : proc' = [proc EXCEPT ![p].said = v]
         \/ proc' = [proc EXCEPT ![p].entry = "ready", ![p].said = "loaded"]
         \/ proc' = [proc EXCEPT ![p].sig = "kill"]
         \/ p \in Proc /\ (Serves(p) \/ Exits(p) \/ ProcStep(p))
  PROVE  \A q \in Proc : Live(q)' => Live(q) /\ proc'[q].sig \in {proc[q].sig, "kill"}
<1> SUFFICES ASSUME NEW q \in Proc, Live(q)'
             PROVE  Live(q) /\ proc'[q].sig \in {proc[q].sig, "kill"}
  OBVIOUS
<1>1. CASE q # p \/ p \notin Proc
  <2>1. proc'[q] = proc[q]
    BY <1>1 DEF TypeOK, Serves, Exits, ProcStep, Reaped, TailEnds, Forgotten
  <2> QED
    BY <2>1 DEF Live
<1>2. CASE q = p /\ \E v : proc' = [proc EXCEPT ![p].said = v]
  BY <1>2 DEF TypeOK, ProcType, Live
<1>3. CASE q = p /\ proc' = [proc EXCEPT ![p].entry = "ready", ![p].said = "loaded"]
  BY <1>3 DEF TypeOK, ProcType, Live
<1>4. CASE q = p /\ proc' = [proc EXCEPT ![p].sig = "kill"]
  BY <1>4 DEF TypeOK, ProcType, Live
<1>5. CASE q = p /\ (Serves(p) \/ Exits(p))
  BY <1>5 DEF TypeOK, ProcType, Live, Serves, Exits
<1>6. CASE q = p /\ ProcStep(p)
  BY <1>6 DEF TypeOK, ProcType, Live, ProcStep, Reaped, TailEnds, Forgotten, Unborn
<1> QED
  BY <1>1, <1>2, <1>3, <1>4, <1>5, <1>6

LEMMA NextTold ==
  ASSUME TypeOK, LockInv, SlotInv, Told, [Next]_vars
  PROVE  Told'
<1> USE TaskAssumption
<1>a. \A t, there : Goto(t, there) /\ t # Closer => pc'[Closer] = pc[Closer]
  BY DEF TypeOK, Goto
<1>b. (proc' = proc) => \A p \in Proc : Live(p)' => Live(p) /\ proc'[p].sig \in {proc[p].sig, "kill"}
  BY DEF Live
<1>1. ASSUME NEW r \in Request, RequestStep(r)
      PROVE  Told'
  <2>1. CASE Reuse(r) \/ SpawnFails(r) \/ HealthAnswered(r)
    BY <1>a, <1>b, <2>1, ToldFrame DEF Reuse, Return, SpawnFails, HealthAnswered, Leave
  <2>2. CASE BeginSwap(r) \/ BootTimesOut(r)
    BY <2>2, ToldTerminate DEF BeginSwap, BootTimesOut
  <2>3. CASE BeginLaunch(r)
    BY <1>b, <2>3, QuickStopsFacts, ToldGone DEF BeginLaunch
  <2>4. CASE SwapStopped(r) \/ FailStopped(r)
    <3>1. current' = current /\ pc'[Closer] = pc[Closer]
      BY <1>a, <2>4 DEF SwapStopped, FailStopped, Leave, Stopped
    <3>2. \A q \in Proc : Live(q)' => Live(q) /\ proc'[q].sig \in {proc[q].sig, "kill"}
      <4>1. \E v : proc' = [proc EXCEPT ![victim].said = v]
        BY <2>4 DEF SwapStopped, FailStopped
      <4> QED
        BY <4>1, ProcFrame
    <3> QED
      BY <3>1, <3>2, ToldFrame
  <2>5. CASE BecomesReady(r)
    <3>1. current' = current /\ pc'[Closer] = pc[Closer]
      BY <1>a, <2>5 DEF BecomesReady, Return, Leave
    <3>2. proc' = [proc EXCEPT ![current].entry = "ready", ![current].said = "loaded"]
      BY <2>5 DEF BecomesReady
    <3>3. \A q \in Proc : Live(q)' => Live(q) /\ proc'[q].sig \in {proc[q].sig, "kill"}
      BY <3>2, ProcFrame
    <3> QED
      BY <3>1, <3>3, ToldFrame
  <2>6. CASE BootFails(r)
    <3>1. current' = None /\ QuickStops # {}
      BY <2>6 DEF BootFails
    <3>2. proc' = [proc EXCEPT ![current].said = "failed"]
      BY <2>6 DEF BootFails
    <3>3. \A q \in Proc : (Live(q)' => Live(q)) /\ (q # current => proc'[q].sig = proc[q].sig)
      BY <3>2 DEF TypeOK, ProcType, Live
    <3>4. current # None => Dead(current)
      BY <3>1, QuickStopsFacts
    <3> QED
      BY <3>1, <3>3, <3>4, ToldGone
  <2>7. ASSUME NEW p \in Proc, Spawn(r, p)
        PROVE  Told'
    <3>1. current = None /\ current' = p /\ pc[Closer] = "idle" /\ pc'[Closer] = "idle"
      BY <1>a, <2>7 DEF Spawn, SlotInv, Open
    <3>2. \A q \in Proc \ {p} : proc'[q] = proc[q]
      BY <2>7 DEF Spawn, TypeOK
    <3> QED
      BY <3>1, <3>2, ProcAssumption DEF Told, Live
  <2> QED
    BY <1>1, <2>1, <2>2, <2>3, <2>4, <2>5, <2>6, <2>7 DEF RequestStep
<1>2. ASSUME NEW t \in Stopper, StopperStep(t)
      PROVE  Told'
  <2>1. CASE StopAtOnce(t)
    BY <1>b, <2>1, QuickStopsFacts, ToldGone DEF StopAtOnce
  <2>2. CASE BeginStop(t)
    BY <2>2, ToldTerminate DEF BeginStop
  <2>3. CASE EndStop(t)
    <3>1. current = None /\ current' = None
      BY <2>3 DEF EndStop, Stopped, SlotInv, Stopping, Stopper, Task
    <3>2. \A q \in Proc : (Live(q)' => Live(q)) /\ proc'[q].sig = proc[q].sig
      BY <2>3 DEF EndStop, TypeOK, ProcType, Live
    <3> QED
      BY <3>1, <3>2, ToldGone
  <2> QED
    BY <1>2, <2>1, <2>2, <2>3 DEF StopperStep
<1>3. ASSUME NEW r \in Request, NEW m \in Model, Ask(r, m)
      PROVE  Told'
  BY <1>a, <1>b, <1>3, ToldFrame DEF Ask, Enqueue
<1>4. ASSUME NEW r \in Request, EndCall(r) \/ \E p \in Proc : Connect(r, p)
      PROVE  Told'
  BY <1>a, <1>b, <1>4, ToldFrame DEF EndCall, Connect
<1>5. ASSUME NEW t \in Task, Kill(t)
      PROVE  Told'
  <2>1. proc' = [proc EXCEPT ![victim].sig = "kill"] /\ current' = current /\ pc' = pc
    BY <1>5 DEF Kill
  <2>2. \A q \in Proc : Live(q)' => Live(q) /\ proc'[q].sig \in {proc[q].sig, "kill"}
    BY <2>1, ProcFrame
  <2> QED
    BY <2>1, <2>2, ToldFrame
<1>6. CASE AskUnload \/ IdleCheck \/ WatcherSkips
  BY <1>a, <1>b, <1>6, ToldFrame DEF AskUnload, IdleCheck, WatcherSkips, Enqueue, Leave
<1>7. CASE BeginShutdown
  <2>1. pc'[Closer] # "down"
    BY <1>7 DEF BeginShutdown, TypeOK, Task, Waiting
  <2> QED
    BY <1>b, <1>7, <2>1, ToldFrame DEF BeginShutdown
<1>8. ASSUME NEW p \in Proc, Serves(p) \/ Exits(p) \/ ProcStep(p)
      PROVE  Told'
  <2>1. current' = current /\ pc' = pc
    BY <1>8 DEF Serves, Exits, ProcStep, Reaped, TailEnds, Forgotten
  <2>2. \A q \in Proc : Live(q)' => Live(q) /\ proc'[q].sig \in {proc[q].sig, "kill"}
    BY <1>8, ProcFrame
  <2> QED
    BY <2>1, <2>2, ToldFrame
<1>9. CASE Tick \/ Over \/ UNCHANGED vars
  BY <1>b, <1>9, ToldFrame DEF Tick, Over, vars
<1> QED
  BY <1>1, <1>2, <1>3, <1>4, <1>5, <1>6, <1>7, <1>8, <1>9 DEF Next

(* No living process is lost track of, and shutdown leaves none behind that*)
(* has not been told to end.                                               *)
THEOREM NoStrayProcessEver == Spec => []NoStrayProcess
<1>1. Init => Told
  BY TaskAssumption DEF Init, Told, Live, Unborn, Task
<1>2. TypeOK /\ LockInv /\ SlotInv /\ Told /\ [Next]_vars => Told'
  BY NextTold
<1>3. SlotInv /\ Told => NoStrayProcess
  <2> SUFFICES ASSUME SlotInv, Told, NEW p \in Proc, Live(p)
               PROVE  \/ p = current /\ pc[Closer] # "down"
                      \/ p = victim /\ lockq # <<>> /\ pc[Head(lockq)] \in Stopping
                      \/ ~Open /\ proc[p].sig # "none"
    BY DEF NoStrayProcess
  <2>1. pc[Closer] = "down" => p # current /\ ~Open
    BY ProcAssumption DEF Told, Open
  <2>2. Open => p \in {current, victim} /\ (p = victim => lockq # <<>> /\ pc[Head(lockq)] \in Stopping)
    BY ProcAssumption DEF SlotInv
  <2>3. p = current \/ proc[p].sig # "none"
    BY DEF Told
  <2> QED
    BY <2>1, <2>2, <2>3
<1> QED
  BY <1>1, <1>2, <1>3, Inductive, PTL DEF Spec

(* Only two steps let ensure_model return.                                 *)
LEMMA WhoReturns ==
  ASSUME TypeOK, Next, NEW r \in Request, pc[r] # "route", pc'[r] = "route"
  PROVE  Reuse(r) \/ BecomesReady(r)
<1> USE TaskAssumption DEF TypeOK, Task, Goto, Enqueue, Leave, Waiting
<1>1. ASSUME NEW q \in Request, RequestStep(q) PROVE Reuse(r) \/ BecomesReady(r)
  BY <1>1 DEF RequestStep, Return, Reuse, BecomesReady, BeginSwap, Terminate, BeginLaunch, SwapStopped,
              Spawn, SpawnFails, HealthAnswered, BootFails, BootTimesOut, FailStopped
<1>2. ASSUME NEW q \in Request, NEW p \in Proc, Connect(q, p) PROVE FALSE
  BY <1>2 DEF Connect
<1>3. ASSUME NEW t \in Stopper, StopperStep(t) PROVE FALSE
  BY <1>3 DEF StopperStep, StopAtOnce, BeginStop, EndStop, Terminate, Retire, Rest, Stopper
<1>4. CASE AskUnload \/ IdleCheck \/ WatcherSkips \/ BeginShutdown \/ Tick \/ Over
  BY <1>4 DEF AskUnload, IdleCheck, WatcherSkips, BeginShutdown, Tick, Over, vars
<1>5. ASSUME NEW p \in Proc, Serves(p) \/ Exits(p) \/ ProcStep(p) PROVE FALSE
  BY <1>5 DEF Serves, Exits, ProcStep, Reaped, TailEnds, Forgotten
<1>6. ASSUME NEW q \in Request, NEW m \in Model, Ask(q, m) PROVE FALSE
  BY <1>6 DEF Ask
<1>7. ASSUME NEW q \in Request, EndCall(q) PROVE FALSE
  BY <1>7 DEF EndCall
<1>8. ASSUME NEW t \in Task, Kill(t) PROVE FALSE
  BY <1>8 DEF Kill
<1> QED
  BY <1>1, <1>2, <1>3, <1>4, <1>5, <1>6, <1>7, <1>8 DEF Next

(* A caller of ensure_model is only ever told that its own model is ready, *)
(* however many swaps happened while it waited for the lock.               *)
THEOREM EnsureDeliversAlways == Spec => EnsureDelivers
<1>1. TypeOK /\ SlotInv /\ [Next]_vars =>
        [\A r \in Request : pc[r] # "route" /\ pc'[r] = "route" =>
           /\ current' # None
           /\ proc'[current'].entry = "ready" /\ proc'[current'].model = want'[r]]_vars
  <2> SUFFICES ASSUME TypeOK, SlotInv, Next, NEW r \in Request, pc[r] # "route", pc'[r] = "route"
               PROVE  /\ current' # None
                      /\ proc'[current'].entry = "ready" /\ proc'[current'].model = want'[r]
    BY DEF vars
  <2>1. CASE Reuse(r)
    BY <2>1 DEF Reuse, Loaded
  <2>2. CASE BecomesReady(r)
    BY <2>2 DEF BecomesReady, SlotInv, TypeOK, ProcType
  <2> QED
    BY <2>1, <2>2, WhoReturns
<1> QED
  BY <1>1, Inductive, PTL DEF Spec, EnsureDelivers

--------------------------------------------------------------------------------
(* The rendered files.                                                     *)

HeldBy(c, v, entries) == {entries[p].model : p \in {c, v} \ {None}}
Held     == HeldBy(current, victim, proc)
Awaiting == {want[r] : r \in {q \in Request : pc[q] = "spawn"}}

LEMMA FilesFact ==
  /\ FilesMatch <=> (Open => files = Structured \cap (Held \cup Awaiting))
  /\ FilesMatch' <=> (Open' => files' = Structured \cap (Held' \cup Awaiting'))
  BY DEF FilesMatch, Held, HeldBy, Awaiting

LEMMA HeldFacts ==
  ASSUME NEW entries, NEW p \in Proc
  PROVE  /\ HeldBy(None, None, entries) = {}
         /\ HeldBy(p, None, entries) = {entries[p].model}
         /\ HeldBy(None, p, entries) = {entries[p].model}
  BY ProcAssumption DEF HeldBy

(* While at most one task is inside, the files are those of the slot and of*)
(* what that task is about to spawn.                                       *)
LEMMA FilesNow ==
  ASSUME TypeOK, FilesMatch, Open, NEW t \in Task, \A u \in Task \ {t} : pc[u] \notin Locked
  PROVE  /\ pc[t] # "spawn" => files = Structured \cap Held
         /\ t \in Request /\ pc[t] = "spawn" => files = Structured \cap (Held \cup {want[t]})
<1>1. \A q \in Request : pc[q] = "spawn" => q = t
  BY DEF Task, Locked
<1> QED
  BY <1>1, FilesFact DEF Awaiting

LEMMA FilesNext ==
  ASSUME TypeOK, NEW t \in Task, NEW there, Goto(t, there), \A u \in Task \ {t} : pc[u] \notin Locked,
         t \in Stopper => there # "spawn",
         Open' => IF there = "spawn" THEN files' = Structured \cap (Held' \cup {want'[t]})
                                     ELSE files' = Structured \cap Held'
  PROVE  FilesMatch'
<1>1. pc'[t] = there /\ \A u \in Task \ {t} : pc'[u] = pc[u]
  BY DEF TypeOK, Goto
<1>2. Request \subseteq Task /\ Task = Request \cup Stopper
  BY DEF Task, Stopper
<1>3. \A q \in Request : pc'[q] = "spawn" <=> q = t /\ there = "spawn"
  BY <1>1, <1>2 DEF Locked
<1>4. CASE there = "spawn"
  BY <1>2, <1>3, <1>4, FilesFact DEF Awaiting
<1>5. CASE there # "spawn"
  BY <1>3, <1>5, FilesFact DEF Awaiting
<1> QED
  BY <1>4, <1>5

(* Nothing that concerns the files happens.                                *)
LEMMA FilesFrame ==
  ASSUME FilesMatch, UNCHANGED <<files, current, victim>>, Open' => Open,
         \A q \in Request : (pc'[q] = "spawn" <=> pc[q] = "spawn") /\ (pc[q] = "spawn" => want'[q] = want[q]),
         \A p \in {current, victim} \ {None} : proc'[p].model = proc[p].model
  PROVE  FilesMatch'
<1>1. Held' = Held
  BY DEF Held, HeldBy
<1>2. Awaiting' = Awaiting
  BY DEF Awaiting
<1> QED
  BY <1>1, <1>2, FilesFact

(* A quick stop removes the file of what was current.                      *)
LEMMA QuickStopsClear ==
  ASSUME ~SignalRace, TypeOK, victim = None, files = Structured \cap Held, NEW f \in QuickStops
  PROVE  f = {}
<1>1. CASE current = None
  BY <1>1, HeldFacts DEF QuickStops, Held, TypeOK, HeldBy
<1>2. CASE current \in Proc
  <2>1. f = files \ ConfigOf(proc[current].model)
    BY <1>2, ProcAssumption DEF QuickStops
  <2>2. files = Structured \cap {proc[current].model}
    BY <1>2, HeldFacts DEF Held
  <2> QED
    BY <2>1, <2>2 DEF ConfigOf
<1> QED
  BY <1>1, <1>2 DEF TypeOK

LEMMA TerminateFiles ==
  ASSUME TypeOK, FilesMatch, NEW t \in Task, NEW why \in Stopping, Terminate(t, why), pc[t] # "spawn",
         victim = None, \A u \in Task \ {t} : pc[u] \notin Locked, Open' => Open, UNCHANGED files
  PROVE  FilesMatch'
<1>1. current \in Proc /\ current' = None /\ victim' = current /\ Goto(t, why)
  BY DEF Terminate, TypeOK
<1>2. proc'[current].model = proc[current].model
  BY <1>1 DEF Terminate, TypeOK, ProcType
<1>3. Held' = Held
  BY <1>1, <1>2, HeldFacts DEF Held
<1>4. why # "spawn"
  BY DEF Stopping
<1> QED
  BY <1>1, <1>3, <1>4, FilesNow, FilesNext

(* The end of a stop that waited.                                          *)
LEMMA StoppedFiles ==
  ASSUME TypeOK, FilesMatch, Open, NEW t \in Task, pc[t] \in Stopping, SlotInv,
         \A u \in Task \ {t} : pc[u] \notin Locked
  PROVE  FilesAfterStop = {}
<1>1. victim \in Proc /\ current = None /\ pc[t] # "spawn"
  BY DEF SlotInv, TypeOK, Stopping
<1>2. files = Structured \cap {proc[victim].model}
  BY <1>1, FilesNow, HeldFacts DEF Held
<1> QED
  BY <1>2 DEF FilesAfterStop, ConfigOf

LEMMA RequestStepFiles ==
  ASSUME ~SignalRace, TypeOK, LockInv, SlotInv, FilesMatch, NEW r \in Request, RequestStep(r)
  PROVE  FilesMatch'
<1>a. r \in Task /\ r # Closer /\ r \notin Stopper
  BY TaskAssumption DEF Task, Stopper
<1>b. pc[r] \in Locked => \A u \in Task \ {r} : pc[u] \notin Locked
  BY <1>a, InsideAlone
<1>c. Granted(r) => /\ victim = None /\ pc[r] = Waiting /\ pc[r] # "spawn"
                    /\ \A u \in Task \ {r} : pc[u] \notin Locked
  BY <1>a, GrantedAlone DEF Granted, Waiting
<1>d. ASSUME NEW there, Goto(r, there) PROVE Open' <=> Open
  BY <1>a, <1>d DEF Open, Goto, TypeOK, Task
<1>1. CASE Reuse(r)
  <2>1. Goto(r, "route") /\ UNCHANGED <<current, victim, proc, files>>
    BY <1>1 DEF Reuse, Return, Leave
  <2>2. Held' = Held
    BY <2>1 DEF Held
  <2> QED
    BY <1>1, <1>a, <1>c, <1>d, <2>1, <2>2, FilesNow, FilesNext DEF Reuse
<1>2. CASE BeginSwap(r)
  <2>1. Goto(r, "swap")
    BY <1>2 DEF BeginSwap, Terminate
  <2> QED
    BY <1>2, <1>a, <1>c, <1>d, <2>1, TerminateFiles DEF BeginSwap, Stopping
<1>3. CASE BeginLaunch(r)
  <2>1. Goto(r, "spawn") /\ current' = None /\ UNCHANGED <<victim, proc, want>> /\ victim = None
    BY <1>3, <1>c DEF BeginLaunch
  <2>2. Open => files' = ConfigOf(want[r])
    BY <1>3, <1>a, <1>c, FilesNow, QuickStopsClear DEF BeginLaunch
  <2>3. Held' = {}
    BY <2>1, ProcAssumption DEF Held, HeldBy
  <2> QED
    BY <1>3, <1>a, <1>c, <1>d, <2>1, <2>2, <2>3, FilesNext DEF BeginLaunch, ConfigOf
<1>4. CASE SwapStopped(r)
  <2>1. Goto(r, "spawn") /\ victim' = None /\ UNCHANGED <<current, want>> /\ pc[r] = "swap"
    BY <1>4 DEF SwapStopped, Stopped
  <2>2. pc[r] \in Locked /\ pc[r] \in Stopping /\ current = None
    BY <2>1, <1>a DEF SlotInv, Locked, Stopping
  <2>3. Open => files' = ConfigOf(want[r])
    BY <1>4, <1>a, <1>b, <2>2, StoppedFiles DEF SwapStopped
  <2>4. Held' = {}
    BY <2>1, <2>2, ProcAssumption DEF Held, HeldBy
  <2> QED
    BY <1>a, <1>b, <1>d, <2>1, <2>2, <2>3, <2>4, FilesNext DEF ConfigOf
<1>5. ASSUME NEW p \in Proc, Spawn(r, p) PROVE FilesMatch'
  <2>1. /\ Goto(r, "boot") /\ current' = p /\ UNCHANGED <<victim, want, files>> /\ pc[r] = "spawn"
        /\ proc' = [proc EXCEPT ![p] = [Unborn EXCEPT !.model = want[r], !.entry = "loading",
                                                     !.os = "booting", !.tail = TRUE]]
    BY <1>5 DEF Spawn
  <2>2. pc[r] \in Locked /\ current = None /\ victim = None
    BY <2>1 DEF SlotInv, Locked
  <2>3. proc'[p].model = want[r]
    BY <2>1 DEF TypeOK, Unborn
  <2>4. Held' = {want[r]}
    BY <2>1, <2>2, <2>3, HeldFacts DEF Held
  <2>5. Held = {}
    BY <2>2, ProcAssumption DEF Held, HeldBy
  <2> QED
    BY <1>a, <1>b, <1>d, <2>1, <2>2, <2>4, <2>5, FilesNow, FilesNext
<1>6. CASE SpawnFails(r)
  <2>1. /\ Goto(r, "idle") /\ UNCHANGED <<current, victim, proc>> /\ pc[r] = "spawn"
        /\ files' = files \ ConfigOf(want[r])
    BY <1>6 DEF SpawnFails, Leave
  <2>2. pc[r] \in Locked /\ current = None /\ victim = None
    BY <2>1 DEF SlotInv, Locked
  <2>3. Held = {} /\ Held' = {}
    BY <2>1, <2>2, ProcAssumption DEF Held, HeldBy
  <2>4. Open => files = Structured \cap {want[r]}
    BY <1>a, <1>b, <2>1, <2>2, <2>3, FilesNow
  <2> QED
    BY <1>a, <1>b, <1>d, <2>1, <2>2, <2>3, <2>4, FilesNext DEF ConfigOf
<1>7. CASE HealthAnswered(r)
  <2>1. Goto(r, "answered") /\ UNCHANGED <<current, victim, proc, files>> /\ pc[r] = "boot"
    BY <1>7 DEF HealthAnswered
  <2>2. Held' = Held /\ pc[r] \in Locked
    BY <2>1 DEF Held, Locked
  <2> QED
    BY <1>a, <1>b, <1>d, <2>1, <2>2, FilesNow, FilesNext
<1>8. CASE BecomesReady(r)
  <2>1. /\ Goto(r, "route") /\ UNCHANGED <<current, victim, files>> /\ pc[r] = "answered"
        /\ proc' = [proc EXCEPT ![current].entry = "ready", ![current].said = "loaded"]
    BY <1>8 DEF BecomesReady, Return, Leave
  <2>2. pc[r] \in Locked /\ \A p \in Proc : proc'[p].model = proc[p].model
    BY <2>1 DEF Locked, TypeOK, ProcType
  <2>3. Held' = Held
    BY <2>1, <2>2 DEF Held, HeldBy, TypeOK
  <2> QED
    BY <1>a, <1>b, <1>d, <2>1, <2>2, <2>3, FilesNow, FilesNext
<1>9. CASE BootFails(r)
  <2>1. Goto(r, "idle") /\ current' = None /\ UNCHANGED victim /\ pc[r] = "boot"
    BY <1>9 DEF BootFails, Leave
  <2>2. pc[r] \in Locked /\ victim = None
    BY <2>1 DEF SlotInv, Locked
  <2>3. Open => files' = {}
    BY <1>9, <1>a, <1>b, <2>1, <2>2, FilesNow, QuickStopsClear DEF BootFails
  <2>4. Held' = {}
    BY <2>1, <2>2, ProcAssumption DEF Held, HeldBy
  <2> QED
    BY <1>a, <1>b, <1>d, <2>1, <2>2, <2>3, <2>4, FilesNext
<1>10. CASE BootTimesOut(r)
  <2>1. pc[r] = "boot" /\ Terminate(r, "fail") /\ UNCHANGED files /\ Goto(r, "fail")
    BY <1>10 DEF BootTimesOut, Terminate
  <2>2. victim = None /\ pc[r] \in Locked
    BY <2>1 DEF SlotInv, Locked
  <2> QED
    BY <1>a, <1>b, <1>d, <2>1, <2>2, TerminateFiles DEF Stopping
<1>11. CASE FailStopped(r)
  <2>1. Goto(r, "idle") /\ victim' = None /\ UNCHANGED current /\ pc[r] = "fail" /\ files' = FilesAfterStop
    BY <1>11 DEF FailStopped, Stopped, Leave
  <2>2. pc[r] \in Locked /\ pc[r] \in Stopping /\ current = None
    BY <2>1, <1>a DEF SlotInv, Locked, Stopping
  <2>3. Held' = {}
    BY <2>1, <2>2, ProcAssumption DEF Held, HeldBy
  <2>4. Open => files' = {}
    BY <1>a, <1>b, <2>1, <2>2, StoppedFiles
  <2> QED
    BY <1>a, <1>b, <1>d, <2>1, <2>2, <2>3, <2>4, FilesNext
<1> QED
  BY <1>1, <1>2, <1>3, <1>4, <1>5, <1>6, <1>7, <1>8, <1>9, <1>10, <1>11 DEF RequestStep

LEMMA StopperStepFiles ==
  ASSUME ~SignalRace, TypeOK, LockInv, SlotInv, FilesMatch, NEW t \in Stopper, StopperStep(t)
  PROVE  FilesMatch'
<1>a. t \in Task /\ Rest(t) \notin Locked /\ Rest(t) # "spawn" /\ (t = Closer => Rest(t) # "idle")
  BY TaskAssumption DEF Task, Stopper, Rest, Locked, Stopping
<1>b. pc[t] \in Locked => \A u \in Task \ {t} : pc[u] \notin Locked
  BY <1>a, InsideAlone
<1>c. Granted(t) => /\ victim = None /\ pc[t] = Waiting /\ pc[t] # "spawn"
                    /\ \A u \in Task \ {t} : pc[u] \notin Locked
  BY <1>a, GrantedAlone DEF Granted, Waiting
<1>d. ASSUME NEW there, Goto(t, there), t = Closer => there # "idle" PROVE Open' => Open
  BY <1>a, <1>d, TaskAssumption DEF Open, Goto, TypeOK, Task
<1>1. CASE StopAtOnce(t)
  <2>1. Goto(t, Rest(t)) /\ current' = None /\ victim' = victim /\ victim = None
    BY <1>1, <1>c DEF StopAtOnce, Retire, Leave
  <2>2. Open => files' = {}
    BY <1>1, <1>a, <1>c, FilesNow, QuickStopsClear DEF StopAtOnce
  <2>3. Held' = {}
    BY <2>1, ProcAssumption DEF Held, HeldBy
  <2> QED
    BY <1>1, <1>a, <1>c, <1>d, <2>1, <2>2, <2>3, FilesNext DEF StopAtOnce
<1>2. CASE BeginStop(t)
  <2>1. Goto(t, "stop")
    BY <1>2 DEF BeginStop, Terminate
  <2> QED
    BY <1>2, <1>a, <1>c, <1>d, <2>1, TerminateFiles DEF BeginStop, Stopping
<1>3. CASE EndStop(t)
  <2>1. Goto(t, Rest(t)) /\ victim' = None /\ UNCHANGED current /\ pc[t] = "stop" /\ files' = FilesAfterStop
    BY <1>3 DEF EndStop, Stopped, Retire, Leave
  <2>2. pc[t] \in Locked /\ pc[t] \in Stopping /\ current = None
    BY <2>1, <1>a DEF SlotInv, Locked, Stopping
  <2>3. Held' = {}
    BY <2>1, <2>2, ProcAssumption DEF Held, HeldBy
  <2>4. Open => files' = {}
    BY <1>a, <1>b, <2>1, <2>2, StoppedFiles
  <2> QED
    BY <1>a, <1>b, <1>d, <2>1, <2>2, <2>3, <2>4, FilesNext
<1> QED
  BY <1>1, <1>2, <1>3 DEF StopperStep

LEMMA NextFiles ==
  ASSUME ~SignalRace, TypeOK, LockInv, SlotInv, FilesMatch, [Next]_vars
  PROVE  FilesMatch'
<1>a. /\ Request \subseteq Task /\ {Unloader, Watcher} \subseteq Task /\ Closer \in Task
      /\ Closer \notin Request \cup {Unloader, Watcher}
      /\ Unloader \notin Request /\ Watcher \notin Request
  BY TaskAssumption DEF Task
<1>b. ASSUME NEW t \in Task \ {Closer}, NEW there, Goto(t, there), there # "spawn", pc[t] # "spawn"
      PROVE  /\ Open' <=> Open
             /\ \A q \in Request : pc'[q] = "spawn" <=> pc[q] = "spawn"
  BY <1>a, <1>b DEF Open, Goto, TypeOK
<1>1. ASSUME NEW r \in Request, NEW m \in Model, Ask(r, m) PROVE FilesMatch'
  <2>1. /\ Goto(r, Waiting) /\ pc[r] = "idle" /\ UNCHANGED <<files, current, victim, proc>>
        /\ \A q \in Request \ {r} : want'[q] = want[q]
    BY <1>1 DEF Ask, Enqueue, TypeOK
  <2> QED
    BY <1>a, <1>b, <2>1, FilesFrame DEF Waiting
<1>2. ASSUME NEW r \in Request, RequestStep(r) PROVE FilesMatch'
  BY <1>2, RequestStepFiles
<1>3. ASSUME NEW r \in Request, EndCall(r) PROVE FilesMatch'
  <2>1. /\ Goto(r, "idle") /\ pc[r] \in {"route", "stream"} /\ UNCHANGED <<files, current, victim, proc>>
        /\ \A q \in Request \ {r} : want'[q] = want[q]
    BY <1>3 DEF EndCall, Answer, TypeOK
  <2> QED
    BY <1>a, <1>b, <2>1, FilesFrame
<1>4. ASSUME NEW r \in Request, NEW p \in Proc, Connect(r, p) PROVE FilesMatch'
  <2>1. Goto(r, "stream") /\ pc[r] = "route" /\ UNCHANGED <<files, current, victim, proc, want>>
    BY <1>4 DEF Connect
  <2> QED
    BY <1>a, <1>b, <2>1, FilesFrame
<1>5. ASSUME NEW t \in Task, Kill(t) PROVE FilesMatch'
  <2>1. \A p \in {current, victim} \ {None} : proc'[p].model = proc[p].model
    BY <1>5 DEF Kill, TypeOK, ProcType
  <2> QED
    BY <1>5, <2>1, FilesFrame DEF Kill, Open
<1>6. ASSUME NEW t \in Stopper, StopperStep(t) PROVE FilesMatch'
  BY <1>6, StopperStepFiles
<1>7. CASE AskUnload
  <2>1. /\ Goto(Unloader, Waiting) /\ pc[Unloader] = "idle"
        /\ UNCHANGED <<files, current, victim, proc, want>>
    BY <1>7 DEF AskUnload, Enqueue
  <2> QED
    BY <1>a, <1>b, <2>1, FilesFrame DEF Waiting
<1>8. CASE IdleCheck
  <2>1. /\ Goto(Watcher, Waiting) /\ pc[Watcher] = "sleep"
        /\ UNCHANGED <<files, current, victim, proc, want>>
    BY <1>8 DEF IdleCheck, Enqueue
  <2> QED
    BY <1>a, <1>b, <2>1, FilesFrame DEF Waiting
<1>9. CASE WatcherSkips
  <2>1. /\ Goto(Watcher, "sleep") /\ pc[Watcher] # "spawn"
        /\ UNCHANGED <<files, current, victim, proc, want>>
    BY <1>9 DEF WatcherSkips, Leave, Granted, Waiting
  <2> QED
    BY <1>a, <1>b, <2>1, FilesFrame
<1>10. CASE BeginShutdown
  <2>1. pc' = [pc EXCEPT ![Watcher] = "cancelled", ![Closer] = Waiting]
    BY <1>10 DEF BeginShutdown
  <2>2. ~Open'
    BY <2>1, <1>a DEF Open, TypeOK, Waiting
  <2> QED
    BY <2>2, FilesFact
<1>11. ASSUME NEW p \in Proc, Serves(p) \/ Exits(p) \/ ProcStep(p) PROVE FilesMatch'
  <2>1. UNCHANGED <<pc, want, files, current, victim>>
    BY <1>11 DEF Serves, Exits, ProcStep, Reaped, TailEnds, Forgotten
  <2>2. \A q \in {current, victim} \ {None} : proc'[q].model = proc[q].model
    BY <1>11 DEF Serves, Exits, ProcStep, Reaped, TailEnds, Forgotten, TypeOK, ProcType
  <2> QED
    BY <2>1, <2>2, FilesFrame DEF Open
<1>12. CASE Tick
  BY <1>12, FilesFrame DEF Tick, Open
<1>13. CASE UNCHANGED vars
  BY <1>13, FilesFrame DEF vars, Open
<1> QED
  BY <1>1, <1>2, <1>3, <1>4, <1>5, <1>6, <1>7, <1>8, <1>9, <1>10, <1>11, <1>12, <1>13
  DEF Next, Over

(* No stop, failed spawn or failed load leaves a rendered file behind, and *)
(* none removes that of the backend that replaced it, unless a signal is   *)
(* lost to a process the loop does not know to be dead.                    *)
THEOREM FilesMatchAlways == Spec => [](~SignalRace => FilesMatch)
<1>1. Init => FilesMatch
  <2> SUFFICES ASSUME Init PROVE FilesMatch
    OBVIOUS
  <2>1. Held = {} /\ files = {}
    BY DEF Init, Held, HeldBy
  <2>2. Awaiting = {}
    BY DEF Init, Awaiting, Task
  <2> QED
    BY <2>1, <2>2, FilesFact
<1>2. TypeOK /\ LockInv /\ SlotInv /\ (~SignalRace => FilesMatch) /\ [Next]_vars
        => (~SignalRace => FilesMatch)'
  BY NextFiles
<1> QED
  BY <1>1, <1>2, Inductive, PTL DEF Spec

--------------------------------------------------------------------------------
(* The events.                                                             *)

(* What has been said of the process a task is at work on, and of one that *)
(* is READY.                                                               *)
SaidInv ==
  /\ \A r \in Request : pc[r] \in {"boot", "answered"} => proc[current].said = "none"
  /\ \A r \in Request : pc[r] = "fail" => proc[victim].said = "none"
  /\ victim # None /\ wasReady => proc[victim].said = "loaded"
  /\ current # None /\ proc[current].entry = "ready" => proc[current].said = "loaded"

InOrder(p) == proc'[p] # Unborn /\ proc'[p].said # proc[p].said =>
                <<proc[p].said, proc'[p].said>> \in
                  {<<"none", "loaded">>, <<"none", "failed">>, <<"loaded", "unloaded">>}

(* A step of task t, to a place where nothing rests on what was said.      *)
LEMMA SaidAway ==
  ASSUME TypeOK, NEW t \in Task, NEW there, Goto(t, there), there \notin {"boot", "answered", "fail"},
         \A u \in Task \ {t} : pc[u] \notin Locked
  PROVE  \A r \in Request : pc'[r] \notin {"boot", "answered", "fail"}
  BY DEF TypeOK, Goto, Task, Locked, Stopping

(* A step that leaves what was said as it is.                              *)
LEMMA SaidFrame ==
  ASSUME SaidInv, UNCHANGED <<current, victim, wasReady>>,
         \A r \in Request : pc'[r] \in {"boot", "answered", "fail"} => pc'[r] = pc[r],
         \A p \in {current, victim} \ {None} :
           proc'[p].said = proc[p].said /\ (proc'[p].entry = "ready" => proc[p].entry = "ready"),
         \A r \in Request : pc[r] \in {"boot", "answered"} => current # None,
         \A r \in Request : pc[r] = "fail" => victim # None
  PROVE  SaidInv'
  BY DEF SaidInv

LEMMA TerminateSaid ==
  ASSUME TypeOK, SaidInv, NEW t \in Task, NEW why \in Stopping, Terminate(t, why),
         \A u \in Task \ {t} : pc[u] \notin Locked,
         why = "fail" => t \in Request /\ pc[t] = "boot"
  PROVE  SaidInv' /\ \A p \in Proc : InOrder(p)
<1>1. current \in Proc /\ current' = None /\ victim' = current /\ Goto(t, why)
  BY DEF Terminate, TypeOK
<1>2. \A p \in Proc : proc'[p].said = proc[p].said
  BY <1>1 DEF Terminate, TypeOK, ProcType
<1>3. wasReady' => proc[current].said = "loaded"
  BY <1>1, ProcAssumption DEF Terminate, SaidInv
<1>4. \A r \in Request : pc'[r] = "fail" => r = t /\ why = "fail"
  BY <1>1 DEF Goto, TypeOK, Task, Locked, Stopping
<1>5. \A r \in Request : pc'[r] \notin {"boot", "answered"}
  BY <1>1 DEF Goto, TypeOK, Task, Locked, Stopping
<1>6. why = "fail" => proc[current].said = "none"
  BY DEF SaidInv
<1>7. SaidInv'
  BY <1>1, <1>2, <1>3, <1>4, <1>5, <1>6 DEF SaidInv
<1> QED
  BY <1>2, <1>7 DEF InOrder

LEMMA RequestStepSaid ==
  ASSUME TypeOK, LockInv, SlotInv, SaidInv, NEW r \in Request, RequestStep(r)
  PROVE  SaidInv' /\ \A p \in Proc : InOrder(p)
<1>a. r \in Task /\ r # Closer /\ r \notin Stopper
  BY TaskAssumption DEF Task, Stopper
<1>b. pc[r] \in Locked => \A u \in Task \ {r} : pc[u] \notin Locked
  BY <1>a, InsideAlone
<1>c. Granted(r) => /\ victim = None /\ pc[r] = Waiting
                    /\ \A u \in Task \ {r} : pc[u] \notin Locked
  BY <1>a, GrantedAlone DEF Granted
<1>1. CASE Reuse(r)
  <2>1. Goto(r, "route") /\ UNCHANGED <<current, victim, proc, wasReady>>
    BY <1>1 DEF Reuse, Return, Leave
  <2>2. \A q \in Request : pc'[q] \notin {"boot", "answered", "fail"}
    BY <1>1, <1>a, <1>c, <2>1, SaidAway DEF Reuse
  <2> QED
    BY <2>1, <2>2 DEF SaidInv, InOrder
<1>2. CASE BeginSwap(r)
  BY <1>2, <1>a, <1>c, TerminateSaid DEF BeginSwap, Stopping
<1>3. CASE BeginLaunch(r)
  <2>1. Goto(r, "spawn") /\ current' = None /\ UNCHANGED <<victim, proc, wasReady>> /\ victim = None
    BY <1>3, <1>c DEF BeginLaunch
  <2>2. \A q \in Request : pc'[q] \notin {"boot", "answered", "fail"}
    BY <1>3, <1>a, <1>c, <2>1, SaidAway DEF BeginLaunch
  <2> QED
    BY <2>1, <2>2 DEF SaidInv, InOrder
<1>4. CASE SwapStopped(r)
  <2>1. /\ Goto(r, "spawn") /\ victim' = None /\ UNCHANGED current /\ pc[r] = "swap"
        /\ proc' = [proc EXCEPT ![victim].said = SaidAfterStop]
    BY <1>4 DEF SwapStopped, Stopped
  <2>2. pc[r] \in Locked /\ current = None /\ victim \in Proc
    BY <2>1, <1>a DEF SlotInv, Locked, Stopping, TypeOK
  <2>3. \A q \in Request : pc'[q] \notin {"boot", "answered", "fail"}
    BY <1>a, <1>b, <2>1, <2>2, SaidAway
  <2>4. SaidInv'
    BY <2>1, <2>2, <2>3 DEF SaidInv
  <2>5. SaidAfterStop = IF wasReady THEN "unloaded" ELSE proc[victim].said
    BY DEF SaidAfterStop
  <2>6. wasReady => proc[victim].said = "loaded"
    BY <2>2, ProcAssumption DEF SaidInv
  <2>7. /\ proc'[victim].said = SaidAfterStop
        /\ \A p \in Proc \ {victim} : proc'[p] = proc[p]
    BY <2>1, <2>2 DEF TypeOK, ProcType
  <2> QED
    BY <2>4, <2>5, <2>6, <2>7 DEF InOrder
<1>5. ASSUME NEW p \in Proc, Spawn(r, p) PROVE SaidInv' /\ \A q \in Proc : InOrder(q)
  <2>1. /\ Goto(r, "boot") /\ current' = p /\ UNCHANGED <<victim, wasReady>> /\ pc[r] = "spawn"
        /\ proc[p] = Unborn
        /\ proc' = [proc EXCEPT ![p] = [Unborn EXCEPT !.model = want[r], !.entry = "loading",
                                                     !.os = "booting", !.tail = TRUE]]
    BY <1>5 DEF Spawn
  <2>2. pc[r] \in Locked /\ current = None /\ victim = None
    BY <2>1 DEF SlotInv, Locked
  <2>3. /\ proc'[p].said = "none" /\ proc'[p].entry = "loading" /\ proc[p].said = "none"
        /\ \A q \in Proc \ {p} : proc'[q] = proc[q]
    BY <2>1 DEF TypeOK, Unborn
  <2>4. \A q \in Request : pc'[q] # "fail"
    BY <1>b, <2>1, <2>2 DEF Goto, TypeOK, Task, Locked, Stopping
  <2>5. SaidInv'
    BY <2>1, <2>2, <2>3, <2>4 DEF SaidInv
  <2> QED
    BY <2>3, <2>5 DEF InOrder
<1>6. CASE SpawnFails(r)
  <2>1. Goto(r, "idle") /\ UNCHANGED <<current, victim, proc, wasReady>> /\ pc[r] = "spawn"
    BY <1>6 DEF SpawnFails, Leave
  <2>2. pc[r] \in Locked
    BY <2>1 DEF Locked
  <2>3. \A q \in Request : pc'[q] \notin {"boot", "answered", "fail"}
    BY <1>a, <1>b, <2>1, <2>2, SaidAway
  <2> QED
    BY <2>1, <2>3 DEF SaidInv, InOrder
<1>7. CASE HealthAnswered(r)
  <2>1. Goto(r, "answered") /\ UNCHANGED <<current, victim, proc, wasReady>> /\ pc[r] = "boot"
    BY <1>7 DEF HealthAnswered
  <2>2. \A q \in Request : pc'[q] = pc[q] \/ q = r
    BY <2>1 DEF Goto, TypeOK, Task
  <2>3. pc'[r] = "answered"
    BY <1>a, <2>1 DEF Goto, TypeOK
  <2> QED
    BY <2>1, <2>2, <2>3 DEF SaidInv, InOrder
<1>8. CASE BecomesReady(r)
  <2>1. /\ Goto(r, "route") /\ UNCHANGED <<current, victim, wasReady>> /\ pc[r] = "answered"
        /\ proc' = [proc EXCEPT ![current].entry = "ready", ![current].said = "loaded"]
    BY <1>8 DEF BecomesReady, Return, Leave
  <2>2. pc[r] \in Locked /\ current \in Proc /\ victim = None /\ proc[current].said = "none"
    BY <2>1 DEF SlotInv, SaidInv, Locked, TypeOK
  <2>3. \A q \in Request : pc'[q] \notin {"boot", "answered", "fail"}
    BY <1>a, <1>b, <2>1, <2>2, SaidAway
  <2>4. /\ proc'[current].said = "loaded"
        /\ \A p \in Proc \ {current} : proc'[p] = proc[p]
    BY <2>1, <2>2 DEF TypeOK, ProcType
  <2>5. SaidInv'
    BY <2>1, <2>2, <2>3, <2>4 DEF SaidInv
  <2> QED
    BY <2>2, <2>4, <2>5 DEF InOrder
<1>9. CASE BootFails(r)
  <2>1. /\ Goto(r, "idle") /\ current' = None /\ UNCHANGED <<victim, wasReady>> /\ pc[r] = "boot"
        /\ proc' = [proc EXCEPT ![current].said = "failed"]
    BY <1>9 DEF BootFails, Leave
  <2>2. pc[r] \in Locked /\ current \in Proc /\ victim = None /\ proc[current].said = "none"
    BY <2>1 DEF SlotInv, SaidInv, Locked, TypeOK
  <2>3. \A q \in Request : pc'[q] \notin {"boot", "answered", "fail"}
    BY <1>a, <1>b, <2>1, <2>2, SaidAway
  <2>4. /\ proc'[current].said = "failed"
        /\ \A p \in Proc \ {current} : proc'[p] = proc[p]
    BY <2>1, <2>2 DEF TypeOK, ProcType
  <2>5. SaidInv'
    BY <2>1, <2>2, <2>3 DEF SaidInv
  <2> QED
    BY <2>2, <2>4, <2>5 DEF InOrder
<1>10. CASE BootTimesOut(r)
  <2>1. pc[r] = "boot" /\ Terminate(r, "fail")
    BY <1>10 DEF BootTimesOut
  <2>2. pc[r] \in Locked
    BY <2>1 DEF Locked
  <2> QED
    BY <1>a, <1>b, <2>1, <2>2, TerminateSaid DEF Stopping
<1>11. CASE FailStopped(r)
  <2>1. /\ Goto(r, "idle") /\ victim' = None /\ UNCHANGED current /\ pc[r] = "fail"
        /\ proc' = [proc EXCEPT ![victim].said = "failed"]
    BY <1>11 DEF FailStopped, Stopped, Leave
  <2>2. pc[r] \in Locked /\ current = None /\ victim \in Proc /\ proc[victim].said = "none"
    BY <2>1, <1>a DEF SlotInv, SaidInv, Locked, Stopping, TypeOK
  <2>3. \A q \in Request : pc'[q] \notin {"boot", "answered", "fail"}
    BY <1>a, <1>b, <2>1, <2>2, SaidAway
  <2>4. /\ proc'[victim].said = "failed"
        /\ \A p \in Proc \ {victim} : proc'[p] = proc[p]
    BY <2>1, <2>2 DEF TypeOK, ProcType
  <2>5. SaidInv'
    BY <2>1, <2>2, <2>3 DEF SaidInv
  <2> QED
    BY <2>2, <2>4, <2>5 DEF InOrder
<1> QED
  BY <1>1, <1>2, <1>3, <1>4, <1>5, <1>6, <1>7, <1>8, <1>9, <1>10, <1>11 DEF RequestStep

LEMMA StopperStepSaid ==
  ASSUME TypeOK, LockInv, SlotInv, SaidInv, NEW t \in Stopper, StopperStep(t)
  PROVE  SaidInv' /\ \A p \in Proc : InOrder(p)
<1>a. t \in Task /\ Rest(t) \notin {"boot", "answered", "fail"}
  BY TaskAssumption DEF Task, Stopper, Rest
<1>b. pc[t] \in Locked => \A u \in Task \ {t} : pc[u] \notin Locked
  BY <1>a, InsideAlone
<1>c. Granted(t) => victim = None /\ \A u \in Task \ {t} : pc[u] \notin Locked
  BY <1>a, GrantedAlone
<1>1. CASE StopAtOnce(t)
  <2>1. /\ Goto(t, Rest(t)) /\ current' = None /\ UNCHANGED <<victim, proc, wasReady>>
        /\ victim = None
    BY <1>1, <1>c DEF StopAtOnce, Retire, Leave
  <2>2. \A q \in Request : pc'[q] \notin {"boot", "answered", "fail"}
    BY <1>1, <1>a, <1>c, <2>1, SaidAway DEF StopAtOnce
  <2> QED
    BY <2>1, <2>2 DEF SaidInv, InOrder
<1>2. CASE BeginStop(t)
  BY <1>2, <1>a, <1>c, TerminateSaid DEF BeginStop, Stopping
<1>3. CASE EndStop(t)
  <2>1. /\ Goto(t, Rest(t)) /\ victim' = None /\ UNCHANGED current /\ pc[t] = "stop"
        /\ proc' = [proc EXCEPT ![victim].said = SaidAfterStop]
    BY <1>3 DEF EndStop, Stopped, Retire, Leave
  <2>2. pc[t] \in Locked /\ current = None /\ victim \in Proc
    BY <2>1, <1>a DEF SlotInv, Locked, Stopping, TypeOK
  <2>3. \A q \in Request : pc'[q] \notin {"boot", "answered", "fail"}
    BY <1>a, <1>b, <2>1, <2>2, SaidAway
  <2>4. SaidInv'
    BY <2>1, <2>2, <2>3 DEF SaidInv
  <2>5. SaidAfterStop = IF wasReady THEN "unloaded" ELSE proc[victim].said
    BY DEF SaidAfterStop
  <2>6. wasReady => proc[victim].said = "loaded"
    BY <2>2, ProcAssumption DEF SaidInv
  <2>7. /\ proc'[victim].said = SaidAfterStop
        /\ \A p \in Proc \ {victim} : proc'[p] = proc[p]
    BY <2>1, <2>2 DEF TypeOK, ProcType
  <2> QED
    BY <2>4, <2>5, <2>6, <2>7 DEF InOrder
<1> QED
  BY <1>1, <1>2, <1>3 DEF StopperStep

LEMMA NextSaid ==
  ASSUME TypeOK, LockInv, SlotInv, SaidInv, [Next]_vars
  PROVE  SaidInv' /\ \A p \in Proc : InOrder(p)
<1>a. /\ Request \subseteq Task /\ {Unloader, Watcher} \subseteq Task
  BY DEF Task
<1>b. ASSUME NEW t \in Task, NEW there, Goto(t, there), there \notin {"boot", "answered", "fail"}
      PROVE  \A r \in Request : pc'[r] \in {"boot", "answered", "fail"} => pc'[r] = pc[r]
  BY <1>a, <1>b DEF Goto, TypeOK
<1>c. /\ \A r \in Request : pc[r] \in {"boot", "answered"} => current # None
      /\ \A r \in Request : pc[r] = "fail" => victim # None
  BY <1>a DEF SlotInv, Stopping
<1>d. ASSUME UNCHANGED <<current, victim, proc, wasReady>>, NEW t \in Task, NEW there,
             Goto(t, there), there \notin {"boot", "answered", "fail"}
      PROVE  SaidInv' /\ \A p \in Proc : InOrder(p)
  BY <1>b, <1>c, <1>d, SaidFrame DEF InOrder
<1>1. ASSUME NEW r \in Request, NEW m \in Model, Ask(r, m) PROVE SaidInv' /\ \A p \in Proc : InOrder(p)
  BY <1>1, <1>a, <1>d DEF Ask, Enqueue, Waiting
<1>2. ASSUME NEW r \in Request, RequestStep(r) PROVE SaidInv' /\ \A p \in Proc : InOrder(p)
  BY <1>2, RequestStepSaid
<1>3. ASSUME NEW r \in Request, EndCall(r) PROVE SaidInv' /\ \A p \in Proc : InOrder(p)
  BY <1>3, <1>a, <1>d DEF EndCall
<1>4. ASSUME NEW r \in Request, NEW p \in Proc, Connect(r, p) PROVE SaidInv' /\ \A q \in Proc : InOrder(q)
  BY <1>4, <1>a, <1>d DEF Connect
<1>5. ASSUME NEW t \in Task, Kill(t) PROVE SaidInv' /\ \A p \in Proc : InOrder(p)
  <2>1. \A p \in Proc : proc'[p].said = proc[p].said /\ proc'[p].entry = proc[p].entry
    BY <1>5 DEF Kill, TypeOK, ProcType
  <2> QED
    BY <1>5, <1>c, <2>1, SaidFrame DEF Kill, InOrder, TypeOK
<1>6. ASSUME NEW t \in Stopper, StopperStep(t) PROVE SaidInv' /\ \A p \in Proc : InOrder(p)
  BY <1>6, StopperStepSaid
<1>7. CASE AskUnload
  BY <1>7, <1>a, <1>d DEF AskUnload, Enqueue, Waiting
<1>8. CASE IdleCheck
  BY <1>8, <1>a, <1>d DEF IdleCheck, Enqueue, Waiting
<1>9. CASE WatcherSkips
  BY <1>9, <1>a, <1>d DEF WatcherSkips, Leave
<1>10. CASE BeginShutdown
  <2>1. /\ victim' = None /\ UNCHANGED <<current, proc>>
        /\ pc' = [pc EXCEPT ![Watcher] = "cancelled", ![Closer] = Waiting]
        /\ \A t \in Request : pc[t] = "idle"
    BY <1>10 DEF BeginShutdown
  <2>2. \A r \in Request : pc'[r] = "idle"
    BY <2>1, TaskAssumption DEF TypeOK, Task
  <2> QED
    BY <2>1, <2>2 DEF SaidInv, InOrder
<1>11. ASSUME NEW p \in Proc, Serves(p) \/ Exits(p) \/ ProcStep(p)
       PROVE  SaidInv' /\ \A q \in Proc : InOrder(q)
  <2>1. UNCHANGED <<pc, current, victim, wasReady>>
    BY <1>11 DEF Serves, Exits, ProcStep, Reaped, TailEnds, Forgotten
  <2>2. \A q \in Proc : \/ /\ proc'[q] = Unborn
                           /\ q \notin {current, victim}
                        \/ /\ proc'[q].said = proc[q].said
                           /\ proc'[q].entry = "ready" => proc[q].entry = "ready"
    BY <1>11 DEF Serves, Exits, ProcStep, Reaped, TailEnds, Forgotten, TypeOK, ProcType
  <2> QED
    BY <1>c, <2>1, <2>2, SaidFrame DEF InOrder, TypeOK
<1>12. CASE Tick
  BY <1>12, <1>c, SaidFrame DEF Tick, InOrder
<1>13. CASE UNCHANGED vars
  BY <1>13, <1>c, SaidFrame DEF vars, InOrder
<1> QED
  BY <1>1, <1>2, <1>3, <1>4, <1>5, <1>6, <1>7, <1>8, <1>9, <1>10, <1>11, <1>12, <1>13
  DEF Next, Over

(* What the event stream says of a launch is one story: a launch is said to*)
(* have loaded or to have failed, once; it is said to be unloaded only if  *)
(* it was said to be loaded, and once.                                     *)
THEOREM EventsInOrderAlways == Spec => EventsInOrder
<1>1. Init => SaidInv
  BY DEF Init, SaidInv, Task
<1>2. TypeOK /\ LockInv /\ SlotInv /\ SaidInv /\ [Next]_vars => SaidInv'
  BY NextSaid
<1>3. TypeOK /\ LockInv /\ SlotInv /\ SaidInv /\ [Next]_vars => [\A p \in Proc : InOrder(p)]_vars
  BY NextSaid
<1>4. [\A p \in Proc : InOrder(p)]_vars =>
        [\A p \in Proc : proc'[p] # Unborn /\ proc'[p].said # proc[p].said =>
           <<proc[p].said, proc'[p].said>> \in
             {<<"none", "loaded">>, <<"none", "failed">>, <<"loaded", "unloaded">>}]_vars
  BY DEF InOrder
<1> QED
  BY <1>1, <1>2, <1>3, <1>4, Inductive, PTL DEF Spec, EventsInOrder

--------------------------------------------------------------------------------
(* The slot.                                                               *)

(* A caller in the queue wants a model.                                    *)
WantInv == \A r \in Request : pc[r] \in InQueue => want[r] \in Model

(* Whoever launches finds in the slot what it launches, still LOADING; and *)
(* while there is a current entry no other process is alive, not even after*)
(* shutdown gave up an exit it awaited.                                    *)
HeldInv ==
  /\ \A r \in Request : pc[r] \in {"boot", "answered"} => proc[current].entry = "loading"
  /\ current # None => /\ proc[current].entry \in {"loading", "ready", "failed"}
                       /\ \A p \in Proc : Live(p) => p = current

LEMMA PlaceFacts ==
  /\ {"spawn", "boot", "answered", "swap", "fail", "stop"} \subseteq Locked /\ Stopping \subseteq Locked
  /\ Locked \subseteq InQueue /\ Waiting \in InQueue /\ Waiting \notin Locked
  /\ {"idle", "sleep", "cancelled", "down", "route", "stream"} \cap InQueue = {}
  BY DEF InQueue, Locked, Stopping, Waiting

LEMMA NextWant == ASSUME TypeOK, WantInv, [Next]_vars PROVE WantInv'
<1> USE PlaceFacts, TaskAssumption DEF TypeOK, WantInv, Goto, Task
<1>a. ASSUME NEW r \in Request, want' = want, pc[r] \in InQueue, NEW there, Goto(r, there) PROVE WantInv'
  BY <1>a
<1>b. ASSUME NEW r \in Request, Goto(r, "idle"), Answer(r) PROVE WantInv'
  BY <1>b DEF Answer
<1>1. ASSUME NEW r \in Request, NEW m \in Model, Ask(r, m) PROVE WantInv'
  BY <1>1 DEF Ask, Enqueue
<1>2. ASSUME NEW r \in Request, RequestStep(r) PROVE WantInv'
  <2>1. CASE SpawnFails(r) \/ BootFails(r) \/ FailStopped(r)
    BY <1>b, <2>1 DEF SpawnFails, BootFails, FailStopped, Leave
  <2>2. CASE Reuse(r) \/ BeginSwap(r) \/ BeginLaunch(r)
    BY <1>a, <2>2 DEF Reuse, BeginSwap, BeginLaunch, Return, Leave, Terminate, Granted
  <2>3. CASE SwapStopped(r) \/ HealthAnswered(r) \/ BecomesReady(r) \/ BootTimesOut(r)
    BY <1>a, <2>3 DEF SwapStopped, Stopped, HealthAnswered, BecomesReady, BootTimesOut, Return, Leave, Terminate
  <2>4. ASSUME NEW p \in Proc, Spawn(r, p) PROVE WantInv'
    BY <1>a, <2>4 DEF Spawn
  <2> QED
    BY <1>2, <2>1, <2>2, <2>3, <2>4 DEF RequestStep
<1>3. ASSUME NEW r \in Request, EndCall(r) PROVE WantInv'
  BY <1>b, <1>3 DEF EndCall
<1>4. ASSUME NEW r \in Request, NEW p \in Proc, Connect(r, p) PROVE WantInv'
  BY <1>4 DEF Connect
<1>5. ASSUME NEW t \in Stopper, NEW there, Goto(t, there), want' = want PROVE WantInv'
  BY <1>5 DEF Stopper
<1>6. ASSUME NEW t \in Stopper, StopperStep(t) PROVE WantInv'
  BY <1>5, <1>6 DEF StopperStep, StopAtOnce, BeginStop, EndStop, Retire, Leave, Terminate
<1>7. CASE AskUnload \/ IdleCheck \/ WatcherSkips
  BY <1>5, <1>7 DEF AskUnload, IdleCheck, WatcherSkips, Enqueue, Leave, Stopper
<1>8. CASE BeginShutdown
  BY <1>8 DEF BeginShutdown
<1>9. ASSUME UNCHANGED <<pc, want>> PROVE WantInv'
  BY <1>9
<1>10. ASSUME NEW t \in Task, Kill(t) PROVE WantInv'
  BY <1>9, <1>10 DEF Kill
<1>11. ASSUME NEW p \in Proc, Serves(p) \/ Exits(p) \/ ProcStep(p) PROVE WantInv'
  BY <1>9, <1>11 DEF Serves, Exits, ProcStep, Reaped, TailEnds, Forgotten
<1>12. CASE Tick \/ Over \/ UNCHANGED vars
  BY <1>9, <1>12 DEF Tick, Over, vars
<1> QED
  BY <1>1, <1>2, <1>3, <1>4, <1>6, <1>7, <1>8, <1>10, <1>11, <1>12 DEF Next

(* A step of a task to a place where nothing is launched.                  *)
LEMMA HeldAway ==
  ASSUME TypeOK, HeldInv, NEW t \in Task, NEW there, Goto(t, there), there \notin {"boot", "answered"},
         \A u \in Task \ {t} : pc[u] \notin Locked,
         \/ current' = None
         \/ UNCHANGED <<current, proc>>
  PROVE  HeldInv'
<1>1. \A r \in Request : pc'[r] \notin {"boot", "answered"}
  BY DEF TypeOK, Goto, Task, Locked
<1> QED
  BY <1>1 DEF HeldInv, Live

LEMMA HeldFrame ==
  ASSUME HeldInv, current' = current,
         \A r \in Request : pc'[r] \in {"boot", "answered"} => pc[r] \in {"boot", "answered"},
         \A r \in Request : pc[r] \in {"boot", "answered"} => current # None,
         current # None => proc'[current].entry = proc[current].entry,
         \A p \in Proc : Live(p)' => Live(p)
  PROVE  HeldInv'
  BY DEF HeldInv

LEMMA NextHeld ==
  ASSUME TypeOK, LockInv, SlotInv, HeldInv, [Next]_vars
  PROVE  HeldInv'
<1>a. Request \subseteq Task /\ Stopper \subseteq Task /\ Watcher \in Stopper /\ Unloader \in Stopper
  BY DEF Task, Stopper
<1>b. ASSUME NEW t \in Task, pc[t] \in Locked PROVE \A u \in Task \ {t} : pc[u] \notin Locked
  BY <1>b, InsideAlone
<1>c. ASSUME NEW t \in Task, Granted(t) PROVE \A u \in Task \ {t} : pc[u] \notin Locked
  BY <1>c, GrantedAlone
<1>d. \A r \in Request : pc[r] \in {"boot", "answered"} => current # None
  BY DEF SlotInv
<1>e. ASSUME UNCHANGED <<current, proc>>, NEW t \in Task, NEW there, Goto(t, there),
             there \notin {"boot", "answered"}
      PROVE  HeldInv'
  <2>1. \A r \in Request : pc'[r] \in {"boot", "answered"} => pc[r] \in {"boot", "answered"}
    BY <1>a, <1>e DEF Goto, TypeOK
  <2> QED
    BY <1>d, <1>e, <2>1, HeldFrame DEF Live
<1>f. ASSUME UNCHANGED <<current, proc, pc>> PROVE HeldInv'
  BY <1>d, <1>f, HeldFrame DEF Live
<1>1. ASSUME NEW r \in Request, NEW m \in Model, Ask(r, m) PROVE HeldInv'
  BY <1>1, <1>a, <1>e DEF Ask, Enqueue, Waiting
<1>2. ASSUME NEW r \in Request, RequestStep(r) PROVE HeldInv'
  <2>a. r \in Task
    BY <1>a
  <2>1. CASE Reuse(r)
    BY <2>1, <2>a, <1>e DEF Reuse, Return, Leave
  <2>2. CASE BeginSwap(r) \/ BeginLaunch(r)
    <3>1. (\A u \in Task \ {r} : pc[u] \notin Locked) /\ current' = None
      BY <2>2, <2>a, <1>c DEF BeginSwap, BeginLaunch, Terminate
    <3>2. Goto(r, "swap") \/ Goto(r, "spawn")
      BY <2>2 DEF BeginSwap, BeginLaunch, Terminate
    <3> QED
      BY <2>a, <3>1, <3>2, HeldAway
  <2>3. CASE SwapStopped(r) \/ BootFails(r) \/ BootTimesOut(r) \/ FailStopped(r)
    <3>1. pc[r] \in {"swap", "boot", "fail"}
      BY <2>3 DEF SwapStopped, BootFails, BootTimesOut, FailStopped, Stopped
    <3>2. current' = None
      BY <2>3, <2>a DEF SwapStopped, BootFails, BootTimesOut, FailStopped, Stopped, Terminate, SlotInv, Stopping
    <3>3. Goto(r, "spawn") \/ Goto(r, "idle") \/ Goto(r, "fail")
      BY <2>3 DEF SwapStopped, BootFails, BootTimesOut, FailStopped, Leave, Terminate
    <3> QED
      BY <2>a, <1>b, <3>1, <3>2, <3>3, PlaceFacts, HeldAway
  <2>4. ASSUME NEW p \in Proc, Spawn(r, p) PROVE HeldInv'
    <3>1. /\ Goto(r, "boot") /\ current' = p /\ pc[r] = "spawn"
          /\ proc' = [proc EXCEPT ![p] = [Unborn EXCEPT !.model = want[r], !.entry = "loading",
                                                       !.os = "booting", !.tail = TRUE]]
      BY <2>4 DEF Spawn
    <3>2. current = None /\ victim = None /\ Open
      BY <3>1 DEF SlotInv
    <3>3. \A q \in Proc : ~Live(q)
      BY <3>2, ProcAssumption DEF SlotInv
    <3>4. proc'[p].entry = "loading" /\ \A q \in Proc \ {p} : proc'[q] = proc[q]
      BY <3>1 DEF TypeOK, Unborn
    <3>5. \A q \in Proc : Live(q)' => q = p
      BY <3>3, <3>4 DEF Live
    <3> QED
      BY <3>1, <3>4, <3>5 DEF HeldInv
  <2>5. CASE SpawnFails(r)
    BY <2>5, <2>a, <1>e DEF SpawnFails, Leave
  <2>6. CASE HealthAnswered(r)
    <3>1. pc[r] = "boot" /\ Goto(r, "answered") /\ UNCHANGED <<current, proc>>
      BY <2>6 DEF HealthAnswered
    <3>2. \A q \in Request : pc'[q] \in {"boot", "answered"} => pc[q] \in {"boot", "answered"}
      BY <3>1, <2>a, <1>a DEF Goto, TypeOK
    <3> QED
      BY <1>d, <3>1, <3>2, HeldFrame DEF Live
  <2>7. CASE BecomesReady(r)
    <3>1. /\ pc[r] = "answered" /\ Goto(r, "route") /\ current' = current
          /\ proc' = [proc EXCEPT ![current].entry = "ready", ![current].said = "loaded"]
      BY <2>7 DEF BecomesReady, Return, Leave
    <3>2. current \in Proc
      BY <1>d, <3>1 DEF TypeOK
    <3>3. proc'[current].entry = "ready" /\ \A p \in Proc : Live(p)' <=> Live(p)
      BY <3>1, <3>2 DEF Live, TypeOK, ProcType
    <3>4. \A q \in Request : pc'[q] \notin {"boot", "answered"}
      BY <1>a, <1>b, <2>a, <3>1, PlaceFacts DEF Goto, TypeOK
    <3> QED
      BY <3>1, <3>3, <3>4 DEF HeldInv
  <2> QED
    BY <1>2, <2>1, <2>2, <2>3, <2>4, <2>5, <2>6, <2>7 DEF RequestStep
<1>3. ASSUME NEW r \in Request, EndCall(r) PROVE HeldInv'
  BY <1>3, <1>a, <1>e DEF EndCall
<1>4. ASSUME NEW r \in Request, NEW p \in Proc, Connect(r, p) PROVE HeldInv'
  BY <1>4, <1>a, <1>e DEF Connect
<1>5. ASSUME NEW t \in Task, Kill(t) PROVE HeldInv'
  <2>1. \A p \in Proc : (Live(p)' <=> Live(p)) /\ proc'[p].entry = proc[p].entry
    BY <1>5 DEF Kill, Live, TypeOK, ProcType
  <2> QED
    BY <1>5, <1>d, <2>1, HeldFrame DEF Kill, TypeOK
<1>6. ASSUME NEW t \in Stopper, StopperStep(t) PROVE HeldInv'
  <2>1. t \in Task /\ Rest(t) \notin {"boot", "answered"}
    BY TaskAssumption DEF Task, Stopper, Rest
  <2>2. \A u \in Task \ {t} : pc[u] \notin Locked
    BY <1>6, <1>b, <1>c, <2>1, PlaceFacts DEF StopperStep, StopAtOnce, BeginStop, EndStop, Stopped
  <2>3. current' = None
    BY <1>6, <2>1 DEF StopperStep, StopAtOnce, BeginStop, EndStop, Stopped, Terminate, SlotInv, Stopping
  <2>4. Goto(t, Rest(t)) \/ Goto(t, "stop")
    BY <1>6 DEF StopperStep, StopAtOnce, BeginStop, EndStop, Retire, Leave, Terminate
  <2> QED
    BY <2>1, <2>2, <2>3, <2>4, HeldAway
<1>7. CASE AskUnload \/ IdleCheck \/ WatcherSkips
  BY <1>7, <1>a, <1>e DEF AskUnload, IdleCheck, WatcherSkips, Enqueue, Leave, Waiting
<1>8. CASE BeginShutdown
  <2>1. \A r \in Request : pc'[r] \in {"boot", "answered"} => pc[r] \in {"boot", "answered"}
    BY <1>8, <1>a DEF BeginShutdown, TypeOK, Waiting
  <2> QED
    BY <1>8, <1>d, <2>1, HeldFrame DEF BeginShutdown, Live
<1>9. ASSUME NEW p \in Proc, Serves(p) \/ Exits(p) \/ Reaped(p) \/ Forgotten(p) PROVE HeldInv'
  <2>1. UNCHANGED <<pc, current>> /\ \A q \in Proc : Live(q)' => Live(q)
    BY <1>9 DEF Serves, Exits, Reaped, Forgotten, Live, TypeOK, ProcType, Unborn
  <2>2. current # None => proc'[current].entry = proc[current].entry
    BY <1>9 DEF Serves, Exits, Reaped, Forgotten, TypeOK, ProcType
  <2> QED
    BY <1>d, <2>1, <2>2, HeldFrame
<1>10. ASSUME NEW p \in Proc, TailEnds(p) PROVE HeldInv'
  <2>1. UNCHANGED <<pc, current>> /\ \A q \in Proc : Live(q)' <=> Live(q)
    BY <1>10 DEF TailEnds, Live, TypeOK, ProcType
  <2>2. \A q \in Proc : proc'[q].entry = proc[q].entry \/ (proc[q].entry = "ready" /\ proc'[q].entry = "failed")
    BY <1>10 DEF TailEnds, TypeOK, ProcType
  <2> QED
    BY <1>d, <2>1, <2>2 DEF HeldInv, TypeOK
<1>11. CASE Tick \/ Over \/ UNCHANGED vars
  BY <1>11, <1>f DEF Tick, Over, vars
<1> QED
  BY <1>1, <1>2, <1>3, <1>4, <1>5, <1>6, <1>7, <1>8, <1>9, <1>10, <1>11 DEF Next, ProcStep

--------------------------------------------------------------------------------
(* The refinement mapping of ProcessManager's Slot.                        *)
SlotBy(c, entries) ==
  IF c # None
    THEN [phase |-> IF entries[c].entry = "failed" THEN "broken" ELSE entries[c].entry,
          model |-> entries[c].model]
  ELSE IF \E p \in Proc : entries[p].os \in {"booting", "serving"}
    THEN [phase |-> "draining",
          model |-> entries[CHOOSE p \in Proc : entries[p].os \in {"booting", "serving"}].model]
  ELSE [phase |-> "empty", model |-> None]

SlotOf == SlotBy(current, proc)
AskOf  == [r \in Request |-> IF pc[r] = Waiting \/ pc[r] \in Locked THEN want[r] ELSE None]

Nothing == [phase |-> "empty", model |-> None]

SlotStep == Slot!SlotNext \/ UNCHANGED <<SlotOf, AskOf>>

(* The instance has the mapping in full.                                   *)
LEMMA WantStep ==
  ASSUME NEW r \in Request, NEW m \in Model, AskOf[r] = None,
         AskOf' = [AskOf EXCEPT ![r] = m], SlotOf' = SlotOf
  PROVE  SlotStep
<1>1. Slot!Want(r, m)
  BY DEF Slot!Want, SlotOf, SlotBy, AskOf, Live
<1> QED
  BY <1>1 DEF SlotStep, Slot!SlotNext

LEMMA GrantStep ==
  ASSUME NEW r \in Request, AskOf[r] # None, AskOf' = [AskOf EXCEPT ![r] = None],
         SlotOf' = [phase |-> "ready", model |-> AskOf[r]],
         SlotOf = SlotOf' \/ SlotOf = [SlotOf' EXCEPT !.phase = "loading"]
  PROVE  SlotStep
<1>1. Slot!Grant(r)
  BY DEF Slot!Grant, SlotOf, SlotBy, AskOf, Live
<1> QED
  BY <1>1 DEF SlotStep, Slot!SlotNext

LEMMA RefuseStep ==
  ASSUME NEW r \in Request, AskOf[r] # None, AskOf' = [AskOf EXCEPT ![r] = None],
         SlotOf = Nothing \/ SlotOf.phase = "loading", SlotOf' = Nothing
  PROVE  SlotStep
<1>1. Slot!Refuse(r)
  BY DEF Slot!Refuse, Slot!Empty, SlotOf, SlotBy, AskOf, Nothing, Live
<1> QED
  BY <1>1 DEF SlotStep, Slot!SlotNext

LEMMA LoadStep ==
  ASSUME NEW r \in Request, AskOf[r] # None, AskOf' = AskOf,
         SlotOf = Nothing, SlotOf' = [phase |-> "loading", model |-> AskOf[r]]
  PROVE  SlotStep
<1>1. Slot!Load(r)
  BY DEF Slot!Load, Slot!Empty, SlotOf, SlotBy, AskOf, Nothing, Live
<1> QED
  BY <1>1 DEF SlotStep, Slot!SlotNext

LEMMA CrashStep ==
  ASSUME AskOf' = AskOf, SlotOf.phase = "ready", SlotOf' = [SlotOf EXCEPT !.phase = "broken"]
  PROVE  SlotStep
<1>1. Slot!Crash
  BY DEF Slot!Crash, SlotOf, SlotBy, AskOf, Live
<1> QED
  BY <1>1 DEF SlotStep, Slot!SlotNext

LEMMA LeaveStep ==
  ASSUME AskOf' = AskOf, SlotOf.phase \in {"loading", "ready", "broken"},
         SlotOf' \in {[SlotOf EXCEPT !.phase = "draining"], Nothing}
  PROVE  SlotStep
<1>1. Slot!Leave
  BY DEF Slot!Leave, Slot!Empty, SlotOf, SlotBy, AskOf, Nothing, Live
<1> QED
  BY <1>1 DEF SlotStep, Slot!SlotNext

LEMMA GoneStep ==
  ASSUME AskOf' = AskOf, SlotOf.phase = "draining", SlotOf' = Nothing
  PROVE  SlotStep
<1>1. Slot!Gone
  BY DEF Slot!Gone, Slot!Empty, SlotOf, SlotBy, AskOf, Nothing, Live
<1> QED
  BY <1>1 DEF SlotStep, Slot!SlotNext

(* What the mapping is in the states that matter.                          *)
LEMMA SlotByFacts ==
  ASSUME NEW c, NEW entries
  PROVE  /\ c # None => SlotBy(c, entries) =
              [phase |-> IF entries[c].entry = "failed" THEN "broken" ELSE entries[c].entry,
               model |-> entries[c].model]
         /\ c = None /\ (\A p \in Proc : entries[p].os \notin {"booting", "serving"}) =>
              SlotBy(c, entries) = Nothing
  BY DEF SlotBy, Nothing

LEMMA DrainingFact ==
  ASSUME NEW entries, NEW p \in Proc, entries[p].os \in {"booting", "serving"},
         \A q \in Proc : entries[q].os \in {"booting", "serving"} => q = p
  PROVE  SlotBy(None, entries) = [phase |-> "draining", model |-> entries[p].model]
<1>1. (CHOOSE q \in Proc : entries[q].os \in {"booting", "serving"}) = p
  OBVIOUS
<1> QED
  BY <1>1 DEF SlotBy

LEMMA SlotKept ==
  ASSUME OneServer, current' = current, \A p \in Proc : Live(p)' <=> Live(p),
         \A p \in Proc : Live(p) => proc'[p].model = proc[p].model,
         current # None => proc'[current].model = proc[current].model
                           /\ proc'[current].entry = proc[current].entry
  PROVE  SlotOf' = SlotOf
<1>1. CASE current # None
  BY <1>1 DEF SlotOf, SlotBy
<1>2. CASE current = None /\ \A p \in Proc : ~Live(p)
  BY <1>2 DEF SlotOf, SlotBy, Live
<1>3. ASSUME current = None, NEW p \in Proc, Live(p) PROVE SlotOf' = SlotOf
  <2>1. SlotBy(None, proc) = [phase |-> "draining", model |-> proc[p].model]
    BY <1>3, DrainingFact DEF OneServer, Live
  <2>2. Live(p)' /\ \A q \in Proc : Live(q)' => q = p
    BY <1>3 DEF OneServer
  <2>3. SlotBy(None, proc') = [phase |-> "draining", model |-> proc'[p].model]
    BY <2>2, DrainingFact DEF Live
  <2> QED
    BY <1>3, <2>1, <2>3 DEF SlotOf
<1> QED
  BY <1>1, <1>2, <1>3

LEMMA NoneLives ==
  ASSUME current = None, \A p \in Proc : ~Live(p)
  PROVE  SlotOf = Nothing
  BY DEF SlotOf, SlotBy, Nothing, Live

LEMMA NoneLivesNext ==
  ASSUME current' = None, \A p \in Proc : ~Live(p)'
  PROVE  SlotOf' = Nothing
  BY DEF SlotOf, SlotBy, Nothing, Live

LEMMA EntryPhase ==
  ASSUME HeldInv, current # None
  PROVE  /\ SlotOf.phase \in {"loading", "ready", "broken"}
         /\ SlotOf = [phase |-> SlotOf.phase, model |-> proc[current].model]
         /\ proc[current].entry # "failed" => SlotOf.phase = proc[current].entry
  BY DEF HeldInv, SlotOf, SlotBy

LEMMA AskKept ==
  ASSUME TypeOK, NEW t \in Task, NEW there, Goto(t, there), want' = want,
         t \in Request => pc[t] \in InQueue /\ there \in InQueue
  PROVE  AskOf' = AskOf
  BY TaskAssumption DEF TypeOK, Goto, AskOf, InQueue, Task

(* ensure_model returns, with or without its caller's locals.              *)
LEMMA AskEnds ==
  ASSUME TypeOK, WantInv, NEW r \in Request, pc[r] \in InQueue, NEW there, there \notin InQueue,
         Goto(r, there), \A q \in Request \ {r} : want'[q] = want[q]
  PROVE  AskOf' = [AskOf EXCEPT ![r] = None] /\ AskOf[r] = want[r] /\ AskOf[r] # None
<1>1. want[r] \in Model /\ want[r] # None
  BY ModelAssumption DEF WantInv
<1>2. AskOf[r] = want[r]
  BY DEF AskOf, InQueue
<1>3. AskOf' = [AskOf EXCEPT ![r] = None]
  BY DEF TypeOK, Goto, AskOf, InQueue, Task
<1> QED
  BY <1>1, <1>2, <1>3

LEMMA TerminateStep ==
  ASSUME TypeOK, OneServer, HeldInv, NEW t \in Task, NEW why \in Stopping, Terminate(t, why),
         want' = want, pc[t] \in InQueue
  PROVE  SlotStep
<1>1. current \in Proc /\ current # None /\ current' = None /\ Goto(t, why)
  BY ProcAssumption DEF Terminate, TypeOK
<1>2. \A p \in Proc : (Live(p)' <=> Live(p)) /\ proc'[p].model = proc[p].model
  BY DEF Terminate, Live, TypeOK, ProcType
<1>3. AskOf' = AskOf
  BY <1>1, AskKept, PlaceFacts
<1>4. \A p \in Proc : Live(p) => p = current
  BY <1>1 DEF HeldInv
<1>5. CASE Live(current)
  <2>1. SlotBy(None, proc') = [phase |-> "draining", model |-> proc'[current].model]
    BY <1>1, <1>2, <1>4, <1>5, DrainingFact DEF Live
  <2>2. SlotOf' = [SlotOf EXCEPT !.phase = "draining"]
    BY <1>1, <1>2, <2>1, EntryPhase DEF SlotOf
  <2> QED
    BY <1>1, <1>3, <2>2, EntryPhase, LeaveStep
<1>6. CASE ~Live(current)
  BY <1>1, <1>2, <1>3, <1>4, <1>6, NoneLivesNext, EntryPhase, LeaveStep
<1> QED
  BY <1>5, <1>6

(* A stop that had nothing to wait for.                                    *)
LEMMA QuickStep ==
  ASSUME TypeOK, OneServer, HeldInv, current' = None, proc' = proc, AskOf' = AskOf,
         current # None => Dead(current)
  PROVE  SlotStep
<1>1. CASE current = None
  BY <1>1 DEF SlotStep, SlotOf
<1>2. CASE current # None
  <2>1. \A p \in Proc : ~Live(p)'
    BY <1>2 DEF HeldInv, Live, Dead
  <2> QED
    BY <1>2, <2>1, NoneLivesNext, EntryPhase, LeaveStep
<1> QED
  BY <1>1, <1>2

LEMMA RequestStepMaps ==
  ASSUME TypeOK, LockInv, SlotInv, OneServer, WantInv, HeldInv, NEW r \in Request, RequestStep(r)
  PROVE  SlotStep
<1>a. r \in Task
  BY DEF Task
<1>b. /\ {"spawn", "boot", "answered", "swap", "fail", Waiting} \subseteq InQueue
      /\ "route" \notin InQueue /\ "idle" \notin InQueue /\ {"swap", "fail"} \subseteq Stopping
  BY DEF InQueue, Locked, Stopping, Waiting
<1>c. Granted(r) => pc[r] \in InQueue /\ victim = None
  BY <1>a, <1>b, GrantedAlone DEF Granted
<1>d. ASSUME pc[r] \in InQueue, NEW there \in {"route", "idle"}, Goto(r, there), want' = want \/ Answer(r)
      PROVE  AskOf' = [AskOf EXCEPT ![r] = None] /\ AskOf[r] = want[r] /\ AskOf[r] # None
  <2>1. \A q \in Request \ {r} : want'[q] = want[q]
    BY <1>d DEF Answer, TypeOK
  <2> QED
    BY <1>b, <1>d, <2>1, AskEnds
<1>e. pc[r] # "idle" => Open
  BY DEF SlotInv
<1>1. CASE Reuse(r)
  <2>1. /\ Granted(r) /\ Goto(r, "route") /\ UNCHANGED <<current, proc, want>>
        /\ current # None /\ proc[current].model = want[r] /\ proc[current].entry = "ready"
    BY <1>1 DEF Reuse, Return, Leave, Loaded
  <2>2. SlotOf' = SlotOf
    BY <2>1 DEF SlotOf
  <2>3. SlotOf = [phase |-> "ready", model |-> want[r]]
    BY <2>1, EntryPhase
  <2> QED
    BY <1>c, <1>d, <2>1, <2>2, <2>3, GrantStep
<1>2. CASE BeginSwap(r)
  BY <1>2, <1>a, <1>b, <1>c, TerminateStep DEF BeginSwap
<1>3. CASE BeginLaunch(r)
  <2>1. Granted(r) /\ Goto(r, "spawn") /\ current' = None /\ UNCHANGED <<proc, want>>
    BY <1>3 DEF BeginLaunch
  <2>2. AskOf' = AskOf
    BY <1>a, <1>b, <1>c, <2>1, AskKept
  <2>3. current # None => Dead(current)
    BY <1>3, QuickStopsFacts DEF BeginLaunch
  <2> QED
    BY <2>1, <2>2, <2>3, QuickStep
<1>4. CASE SwapStopped(r)
  <2>1. /\ pc[r] = "swap" /\ Goto(r, "spawn") /\ UNCHANGED <<current, want>>
        /\ proc' = [proc EXCEPT ![victim].said = SaidAfterStop]
    BY <1>4 DEF SwapStopped, Stopped
  <2>2. AskOf' = AskOf
    BY <1>a, <1>b, <2>1, AskKept
  <2>3. \A p \in Proc : (Live(p)' <=> Live(p)) /\ proc'[p].model = proc[p].model /\ proc'[p].entry = proc[p].entry
    BY <2>1 DEF Live, TypeOK, ProcType
  <2>4. SlotOf' = SlotOf
    BY <2>1, <2>3, SlotKept DEF TypeOK
  <2> QED
    BY <2>2, <2>4 DEF SlotStep
<1>5. ASSUME NEW p \in Proc, Spawn(r, p) PROVE SlotStep
  <2>1. /\ pc[r] = "spawn" /\ Goto(r, "boot") /\ want' = want /\ current' = p
        /\ proc' = [proc EXCEPT ![p] = [Unborn EXCEPT !.model = want[r], !.entry = "loading",
                                                     !.os = "booting", !.tail = TRUE]]
    BY <1>5 DEF Spawn
  <2>2. current = None /\ victim = None /\ want[r] \in Model /\ Open
    BY <1>b, <2>1 DEF SlotInv, WantInv
  <2>3. AskOf' = AskOf
    BY <1>a, <1>b, <2>1, AskKept
  <2>4. AskOf[r] = want[r] /\ want[r] # None
    BY <1>b, <2>1, <2>2, ModelAssumption DEF AskOf, InQueue
  <2>5. SlotOf = Nothing
    BY <2>2, ProcAssumption, NoneLives DEF SlotInv
  <2>6. proc'[p].entry = "loading" /\ proc'[p].model = want[r] /\ current' # None
    BY <2>1, ProcAssumption DEF TypeOK, Unborn
  <2>7. SlotOf' = [phase |-> "loading", model |-> want[r]]
    BY <2>1, <2>6 DEF SlotOf, SlotBy
  <2> QED
    BY <2>3, <2>4, <2>5, <2>7, LoadStep
<1>6. CASE SpawnFails(r)
  <2>1. pc[r] = "spawn" /\ Goto(r, "idle") /\ Answer(r) /\ UNCHANGED <<current, proc>>
    BY <1>6 DEF SpawnFails, Leave
  <2>2. SlotOf = Nothing
    BY <1>e, <2>1, ProcAssumption, NoneLives DEF SlotInv
  <2>3. SlotOf' = SlotOf
    BY <2>1 DEF SlotOf
  <2> QED
    BY <1>b, <1>d, <2>1, <2>2, <2>3, RefuseStep
<1>7. CASE HealthAnswered(r)
  <2>1. pc[r] = "boot" /\ Goto(r, "answered") /\ UNCHANGED <<current, proc, want>>
    BY <1>7 DEF HealthAnswered
  <2>2. AskOf' = AskOf
    BY <1>a, <1>b, <2>1, AskKept
  <2> QED
    BY <2>1, <2>2 DEF SlotStep, SlotOf
<1>8. CASE BecomesReady(r)
  <2>1. /\ pc[r] = "answered" /\ Goto(r, "route") /\ UNCHANGED <<want, current>>
        /\ proc' = [proc EXCEPT ![current].entry = "ready", ![current].said = "loaded"]
    BY <1>8 DEF BecomesReady, Return, Leave
  <2>2. /\ current # None /\ current \in Proc
        /\ proc[current].entry = "loading" /\ proc[current].model = want[r]
    BY <2>1 DEF HeldInv, SlotInv, TypeOK
  <2>3. SlotOf = [phase |-> "loading", model |-> want[r]]
    BY <2>2, EntryPhase
  <2>4. proc'[current].entry = "ready" /\ proc'[current].model = want[r]
    BY <2>1, <2>2 DEF TypeOK, ProcType
  <2>5. SlotOf' = [phase |-> "ready", model |-> want[r]]
    BY <2>1, <2>2, <2>4 DEF SlotOf, SlotBy
  <2> QED
    BY <1>b, <1>d, <2>1, <2>3, <2>5, GrantStep
<1>9. CASE BootFails(r)
  <2>1. /\ pc[r] = "boot" /\ Goto(r, "idle") /\ Answer(r) /\ current' = None
        /\ proc' = [proc EXCEPT ![current].said = "failed"]
    BY <1>9 DEF BootFails, Leave
  <2>2. current # None /\ proc[current].entry = "loading" /\ Dead(current)
    BY <1>9, <2>1, QuickStopsFacts DEF HeldInv, SlotInv, BootFails
  <2>3. SlotOf.phase = "loading"
    BY <2>2, EntryPhase
  <2>4. \A p \in Proc : ~Live(p)'
    BY <2>1, <2>2 DEF HeldInv, Live, Dead, TypeOK, ProcType
  <2> QED
    BY <1>b, <1>d, <2>1, <2>3, <2>4, NoneLivesNext, RefuseStep
<1>10. CASE BootTimesOut(r)
  BY <1>10, <1>a, <1>b, TerminateStep DEF BootTimesOut
<1>11. CASE FailStopped(r)
  <2>1. /\ pc[r] = "fail" /\ Goto(r, "idle") /\ Answer(r) /\ UNCHANGED current
        /\ proc[victim].os = "reaped" /\ proc' = [proc EXCEPT ![victim].said = "failed"]
    BY <1>11 DEF FailStopped, Stopped, Leave
  <2>2. current = None
    BY <1>a, <1>b, <2>1 DEF SlotInv
  <2>3. \A p \in Proc : ~Live(p) /\ ~Live(p)'
    BY <1>e, <2>1, <2>2, ProcAssumption DEF SlotInv, Live, TypeOK, ProcType
  <2> QED
    BY <1>b, <1>d, <2>1, <2>2, <2>3, NoneLives, NoneLivesNext, RefuseStep
<1> QED
  BY <1>1, <1>2, <1>3, <1>4, <1>5, <1>6, <1>7, <1>8, <1>9, <1>10, <1>11 DEF RequestStep

LEMMA StopperStepMaps ==
  ASSUME TypeOK, LockInv, SlotInv, OneServer, HeldInv, NEW t \in Stopper, StopperStep(t)
  PROVE  SlotStep
<1>a. t \in Task /\ t \notin Request /\ "stop" \in Stopping
  BY TaskAssumption DEF Task, Stopper, Stopping
<1>b. Granted(t) => pc[t] \in InQueue
  BY PlaceFacts DEF Granted
<1>1. CASE StopAtOnce(t)
  <2>1. Goto(t, Rest(t)) /\ current' = None /\ UNCHANGED <<proc, want>>
    BY <1>1 DEF StopAtOnce, Retire, Leave
  <2>2. AskOf' = AskOf
    BY <1>a, <2>1, AskKept
  <2>3. current # None => Dead(current)
    BY <1>1, QuickStopsFacts DEF StopAtOnce
  <2> QED
    BY <2>1, <2>2, <2>3, QuickStep
<1>2. CASE BeginStop(t)
  BY <1>2, <1>a, <1>b, TerminateStep DEF BeginStop
<1>3. CASE EndStop(t)
  <2>1. /\ Goto(t, Rest(t)) /\ UNCHANGED <<current, want>>
        /\ proc' = [proc EXCEPT ![victim].said = SaidAfterStop]
    BY <1>3 DEF EndStop, Stopped, Retire, Leave
  <2>2. AskOf' = AskOf
    BY <1>a, <2>1, AskKept
  <2>3. \A p \in Proc : (Live(p)' <=> Live(p)) /\ proc'[p].model = proc[p].model /\ proc'[p].entry = proc[p].entry
    BY <2>1 DEF Live, TypeOK, ProcType
  <2>4. SlotOf' = SlotOf
    BY <2>1, <2>3, SlotKept DEF TypeOK
  <2> QED
    BY <2>2, <2>4 DEF SlotStep
<1> QED
  BY <1>1, <1>2, <1>3 DEF StopperStep

(* A process dies: the model that was leaving is gone.                     *)
LEMMA ExitMaps ==
  ASSUME TypeOK, OneServer, NEW p \in Proc, Exits(p)
  PROVE  SlotStep
<1>1. /\ UNCHANGED <<pc, want, current>> /\ Live(p) /\ ~Live(p)'
      /\ \A q \in Proc \ {p} : proc'[q] = proc[q]
      /\ proc'[p].model = proc[p].model /\ proc'[p].entry = proc[p].entry
  BY DEF Exits, Live, TypeOK, ProcType
<1>2. AskOf' = AskOf
  BY <1>1 DEF AskOf
<1>3. CASE current = None
  <2>1. SlotOf = [phase |-> "draining", model |-> proc[p].model]
    BY <1>1, <1>3, DrainingFact DEF OneServer, Live, SlotOf
  <2>2. \A q \in Proc : ~Live(q)'
    BY <1>1 DEF OneServer, Live
  <2> QED
    BY <1>1, <1>2, <1>3, <2>1, <2>2, NoneLivesNext, GoneStep
<1>4. CASE current # None
  <2>1. proc'[current].model = proc[current].model /\ proc'[current].entry = proc[current].entry
    BY <1>1, <1>4 DEF TypeOK
  <2> QED
    BY <1>1, <1>2, <1>4, <2>1 DEF SlotStep, SlotOf, SlotBy
<1> QED
  BY <1>3, <1>4

LEMMA NextMaps ==
  ASSUME TypeOK, LockInv, SlotInv, OneServer, WantInv, HeldInv, [Next]_vars
  PROVE  SlotStep
<1>a. ASSUME UNCHANGED <<current, proc>>, AskOf' = AskOf PROVE SlotStep
  BY <1>a DEF SlotStep, SlotOf
<1>b. ASSUME UNCHANGED <<pc, want>> PROVE AskOf' = AskOf
  BY <1>b DEF AskOf
<1>c. {"idle", "route", "stream"} \cap InQueue = {} /\ Request \subseteq Task /\ Waiting \in InQueue
  BY DEF InQueue, Locked, Stopping, Waiting, Task
<1>1. ASSUME NEW r \in Request, NEW m \in Model, Ask(r, m) PROVE SlotStep
  <2>1. /\ pc[r] = "idle" /\ want' = [want EXCEPT ![r] = m] /\ pc' = [pc EXCEPT ![r] = Waiting]
        /\ UNCHANGED <<current, proc>>
    BY <1>1 DEF Ask, Enqueue, Goto
  <2>2. AskOf[r] = None
    BY <1>c, <2>1 DEF AskOf, InQueue
  <2>3. AskOf' = [AskOf EXCEPT ![r] = m]
    BY <1>c, <2>1 DEF AskOf, TypeOK
  <2>4. SlotOf' = SlotOf
    BY <2>1 DEF SlotOf
  <2> QED
    BY <2>2, <2>3, <2>4, WantStep
<1>2. ASSUME NEW r \in Request, RequestStep(r) PROVE SlotStep
  BY <1>2, RequestStepMaps
<1>3. ASSUME NEW r \in Request, EndCall(r) PROVE SlotStep
  <2>1. /\ pc[r] \notin InQueue /\ Goto(r, "idle") /\ UNCHANGED <<current, proc>>
        /\ \A q \in Request \ {r} : want'[q] = want[q]
    BY <1>3, <1>c DEF EndCall, Answer, TypeOK
  <2>2. AskOf' = AskOf
    BY <1>c, <2>1 DEF AskOf, Goto, TypeOK, InQueue
  <2> QED
    BY <1>a, <2>1, <2>2
<1>4. ASSUME NEW r \in Request, NEW p \in Proc, Connect(r, p) PROVE SlotStep
  <2>1. pc[r] \notin InQueue /\ Goto(r, "stream") /\ UNCHANGED <<current, proc, want>>
    BY <1>4, <1>c DEF Connect
  <2>2. AskOf' = AskOf
    BY <1>c, <2>1 DEF AskOf, Goto, TypeOK, InQueue
  <2> QED
    BY <1>a, <2>1, <2>2
<1>5. ASSUME NEW t \in Stopper, NEW there, Goto(t, there), UNCHANGED <<want, current, proc>>
      PROVE  SlotStep
  BY <1>5, <1>a, TaskAssumption, AskKept DEF Stopper, Task
<1>6. ASSUME NEW t \in Stopper, StopperStep(t) PROVE SlotStep
  BY <1>6, StopperStepMaps
<1>7. CASE AskUnload \/ IdleCheck \/ WatcherSkips
  BY <1>7, <1>5 DEF AskUnload, IdleCheck, WatcherSkips, Enqueue, Leave, Stopper
<1>8. CASE BeginShutdown
  <2>1. \A r \in Request : pc[r] = "idle" /\ pc'[r] = "idle"
    BY <1>8, TaskAssumption DEF BeginShutdown, TypeOK, Task
  <2>2. UNCHANGED <<current, proc, want>>
    BY <1>8 DEF BeginShutdown
  <2>3. AskOf' = AskOf
    BY <2>1, <2>2 DEF AskOf
  <2> QED
    BY <1>a, <2>2, <2>3
<1>9. ASSUME UNCHANGED <<pc, want, current>>, \A p \in Proc : Live(p)' <=> Live(p),
             \A p \in Proc : Live(p) \/ p = current =>
               proc'[p].model = proc[p].model /\ proc'[p].entry = proc[p].entry
      PROVE  SlotStep
  <2>1. SlotOf' = SlotOf
    BY <1>9, SlotKept DEF TypeOK
  <2> QED
    BY <1>b, <1>9, <2>1 DEF SlotStep
<1>10. ASSUME NEW t \in Task, Kill(t) PROVE SlotStep
  <2>1. \A p \in Proc : (Live(p)' <=> Live(p)) /\ proc'[p].model = proc[p].model /\ proc'[p].entry = proc[p].entry
    BY <1>10 DEF Kill, Live, TypeOK, ProcType
  <2> QED
    BY <1>9, <1>10, <2>1 DEF Kill
<1>11. ASSUME NEW p \in Proc, Serves(p) \/ Reaped(p) \/ Forgotten(p) PROVE SlotStep
  <2>1. /\ UNCHANGED <<pc, want, current>> /\ \A q \in Proc \ {p} : proc'[q] = proc[q]
        /\ Live(p)' <=> Live(p)
    BY <1>11 DEF Serves, Reaped, Forgotten, Live, TypeOK, ProcType, Unborn
  <2>2. Live(p) \/ p = current => proc'[p].model = proc[p].model /\ proc'[p].entry = proc[p].entry
    BY <1>11 DEF Serves, Reaped, Forgotten, Live, TypeOK, ProcType
  <2> QED
    BY <1>9, <2>1, <2>2 DEF Live
<1>12. ASSUME NEW p \in Proc, Exits(p) PROVE SlotStep
  BY <1>12, ExitMaps
<1>13. ASSUME NEW p \in Proc, TailEnds(p) PROVE SlotStep
  <2>1. /\ UNCHANGED <<pc, want, current>> /\ \A q \in Proc \ {p} : proc'[q] = proc[q]
        /\ ~Live(p) /\ ~Live(p)' /\ proc'[p].model = proc[p].model
        /\ proc'[p].entry = proc[p].entry \/ (proc[p].entry = "ready" /\ proc'[p].entry = "failed")
    BY <1>13 DEF TailEnds, Live, TypeOK, ProcType
  <2>2. CASE p # current \/ proc'[p].entry = proc[p].entry
    BY <1>9, <2>1, <2>2 DEF Live
  <2>3. CASE p = current /\ proc[p].entry = "ready" /\ proc'[p].entry = "failed"
    <3>1. current # None
      BY <2>3, ProcAssumption
    <3>2. SlotOf = [phase |-> "ready", model |-> proc[p].model]
      BY <2>3, <3>1, EntryPhase
    <3>3. SlotOf' = [phase |-> "broken", model |-> proc[p].model]
      BY <2>1, <2>3, <3>1 DEF SlotOf, SlotBy
    <3> QED
      BY <1>b, <2>1, <3>2, <3>3, CrashStep
  <2> QED
    BY <2>1, <2>2, <2>3
<1>14. CASE Tick \/ Over \/ UNCHANGED vars
  BY <1>14, <1>a, <1>b DEF Tick, Over, vars
<1> QED
  BY <1>1, <1>2, <1>3, <1>4, <1>6, <1>7, <1>8, <1>10, <1>11, <1>12, <1>13, <1>14 DEF Next, ProcStep

LEMMA InitMaps == Init => Slot!SlotInit
<1> SUFFICES ASSUME Init PROVE Slot!SlotInit
  OBVIOUS
<1>1. \A r \in Request : pc[r] = "idle"
  BY TaskAssumption DEF Init, Task
<1>2. AskOf = [r \in Request |-> None]
  BY <1>1 DEF AskOf, Locked, Stopping, Waiting
<1>3. SlotOf = Nothing
  BY NoneLives DEF Init, Live, Unborn
<1> QED
  BY <1>2, <1>3 DEF Slot!SlotInit, Slot!Empty, SlotOf, SlotBy, AskOf, Nothing, Live

(* The chat manager keeps the promise of every manager: one slot, empty    *)
(* before it takes another model, and callers that are granted a model only*)
(* while the slot is ready with it.                                        *)
THEOREM ChatManagerIsASlot == Spec => ImplementsSlot
<1>1. Init => WantInv /\ HeldInv
  <2> SUFFICES ASSUME Init PROVE WantInv /\ HeldInv
    OBVIOUS
  <2>1. \A r \in Request : pc[r] = "idle"
    BY TaskAssumption DEF Init, Task
  <2> QED
    BY <2>1, PlaceFacts DEF Init, WantInv, HeldInv
<1>2. TypeOK /\ LockInv /\ SlotInv /\ OneServer /\ WantInv /\ HeldInv /\ [Next]_vars
        => WantInv' /\ HeldInv'
  BY NextWant, NextHeld
<1>3. TypeOK /\ LockInv /\ SlotInv /\ OneServer /\ WantInv /\ HeldInv /\ [Next]_vars
        => [Slot!SlotNext]_(Slot!slotVars)
  BY NextMaps DEF SlotStep, Slot!slotVars, SlotOf, SlotBy, AskOf, Live
<1> QED
  BY <1>1, <1>2, <1>3, InitMaps, Inductive, PTL DEF Spec, ImplementsSlot, Slot!SlotSafety

================================================================================
