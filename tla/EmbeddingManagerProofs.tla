------------------------- MODULE EmbeddingManagerProofs -------------------------
(***************************************************************************)
(* Theorems about EmbeddingManager for any number of callers, evictors,    *)
(* stops and process identities.                                           *)
(***************************************************************************)
EXTENDS EmbeddingManager, TLAPS

InQueue == Inside \cup {"wait"}

(* asyncio.Lock: a task is queued once, whoever is inside is at the head.  *)
LockInv ==
  /\ \A i, j \in DOMAIN lockq : lockq[i] = lockq[j] => i = j
  /\ \A i \in DOMAIN lockq : pc[lockq[i]] \in InQueue
  /\ \A t \in Task : pc[t] \in Inside => Holds(t)

HeadIn(places) == lockq # <<>> /\ pc[Head(lockq)] \in places

(* What a task that stands at pl, inside, may rely on.                     *)
Standing(pl) ==
  /\ pl \in {"stop", "fail"} => victim \in Proc
  /\ pl = "spawn" => victim = None /\ process = None
  /\ pl \in {"boot", "answered"} =>
       victim = None /\ process \in Proc /\ state = "loading" /\ proc[process].said = "none"
  /\ pl = "stop" => state = was /\ (was = "ready" => proc[victim].said = "loaded")
  /\ pl = "fail" => proc[victim].said = "none"

(* What the processes have to do with the manager's three fields.          *)
ProcInv ==
  /\ \A p \in Proc : Live(p) => p \in {process, victim}
  /\ \A p \in Proc : proc[p].tail => p = process
  /\ process # None /\ state \notin {"ready", "loading"} => proc[process].os = "reaped"
  /\ process # None /\ state = "ready" => proc[process].said = "loaded"
  /\ state \notin {"ready", "loading"} => \A p \in Proc : ~Live(p)

SlotInv ==
  /\ \A t \in Task : Standing(pc[t])
  /\ victim # None => process = None /\ HeadIn({"stop", "fail"})
  /\ LoadingIsOwned
  /\ ProcInv

EmbedInv == TypeOK /\ LockInv /\ SlotInv

Known == [os : {"none", "booting", "serving", "exited", "reaped"}, code : {"clean", "crash"},
          sig : {"none", "term", "kill"}, tail : BOOLEAN,
          said : {"none", "loaded", "failed", "unloaded"}]

LEMMA TaskFacts ==
  /\ Caller \subseteq Task /\ Evictor \subseteq Task /\ Stopper \subseteq Task
  /\ Caller \cap (Evictor \cup Stopper) = {}
  BY EmbedTasks DEF Task

LEMMA PlaceFacts ==
  /\ Inside \subseteq Place /\ InQueue \subseteq Place /\ Inside \subseteq InQueue
  /\ {"idle", "poll", "up"} \subseteq Place \ InQueue /\ "wait" \in InQueue \ Inside
  /\ {"spawn", "boot", "answered", "fail", "stop"} = Inside
  BY DEF Inside, InQueue, Place

--------------------------------------------------------------------------------
(* The type invariant.                                                     *)

LEMMA LeaveType ==
  ASSUME TypeOK, NEW t \in Task, NEW there \in Place, Holds(t), Leave(t, there)
  PROVE  lockq' \in Seq(Task) /\ pc' \in [Task -> Place]
  BY DEF TypeOK, Holds, Leave, Goto

LEMMA EnqueueType ==
  ASSUME TypeOK, NEW t \in Task, Enqueue(t)
  PROVE  lockq' \in Seq(Task) /\ pc' \in [Task -> Place]
  BY DEF TypeOK, Enqueue, Goto, Place

LEMMA GotoType ==
  ASSUME TypeOK, NEW t \in Task, NEW there \in Place, Goto(t, there)
  PROVE  pc' \in [Task -> Place]
  BY DEF TypeOK, Goto

LEMMA UntailedFacts ==
  ASSUME TypeOK, NEW ps
  PROVE  /\ Untailed(ps) \in [Proc -> Known]
         /\ \A p \in Proc : /\ Untailed(ps)[p].os = proc[p].os /\ Untailed(ps)[p].said = proc[p].said
                            /\ Untailed(ps)[p].tail => proc[p].tail /\ p \notin ps
<1>1. proc \in [Proc -> Known]
  BY DEF TypeOK, Known
<1> QED
  BY <1>1 DEF Untailed, Known

(* One process is told something, or something is said of it.              *)
LEMMA UpdateType ==
  ASSUME NEW f \in [Proc -> Known], NEW p
  PROVE  /\ \A v \in {"none", "booting", "serving", "exited", "reaped"} : [f EXCEPT ![p].os = v] \in [Proc -> Known]
         /\ \A v \in {"none", "term", "kill"} : [f EXCEPT ![p].sig = v] \in [Proc -> Known]
         /\ \A v \in {"none", "loaded", "failed", "unloaded"} : [f EXCEPT ![p].said = v] \in [Proc -> Known]
         /\ [f EXCEPT ![p].tail = FALSE] \in [Proc -> Known]
<1>1. CASE p \in Proc
  <2>1. f[p] \in Known
    BY <1>1
  <2>2. /\ \A v \in {"none", "booting", "serving", "exited", "reaped"} : [f[p] EXCEPT !.os = v] \in Known
        /\ \A v \in {"none", "term", "kill"} : [f[p] EXCEPT !.sig = v] \in Known
        /\ \A v \in {"none", "loaded", "failed", "unloaded"} : [f[p] EXCEPT !.said = v] \in Known
        /\ [f[p] EXCEPT !.tail = FALSE] \in Known
    BY <2>1 DEF Known
  <2> QED
    BY <1>1, <2>2
<1>2. CASE p \notin Proc
  BY <1>2
<1> QED
  BY <1>1, <1>2

LEMMA InitType == Init => TypeOK
<1> SUFFICES ASSUME Init PROVE TypeOK
  OBVIOUS
<1>1. Unborn \in Known
  BY DEF Unborn, Known
<1>2. proc \in [Proc -> Known]
  BY <1>1 DEF Init
<1>3. lockq \in Seq(Task) /\ pc \in [Task -> Place]
  BY DEF Init, Place
<1> QED
  BY <1>2, <1>3 DEF Init, TypeOK, Known, State

LEMMA TerminateType ==
  ASSUME TypeOK, NEW t \in Task, NEW why \in {"stop", "fail"}, Terminate(t, why)
  PROVE  /\ pc' \in [Task -> Place] /\ proc' \in [Proc -> Known]
         /\ victim' \in Proc /\ process' = None /\ was' \in State
<1>1. pc' \in [Task -> Place]
  BY GotoType, PlaceFacts DEF Terminate
<1>2. proc' \in [Proc -> Known]
  BY UntailedFacts, UpdateType DEF Terminate
<1> QED
  BY <1>1, <1>2 DEF Terminate, TypeOK

LEMMA CallerStepType ==
  ASSUME TypeOK, LockInv, NEW c \in Caller, CallerStep(c)
  PROVE  TypeOK'
<1> c \in Task
  BY TaskFacts
<1>0. pc[c] \in Inside => Holds(c)
  BY DEF LockInv
<1>a. proc \in [Proc -> Known]
  BY DEF TypeOK, Known
<1>1. CASE Polled(c)
  <2>1. lockq' \in Seq(Task) /\ pc' \in [Task -> Place]
    BY <1>1, EnqueueType, GotoType, PlaceFacts DEF Polled, TypeOK
  <2> QED
    BY <1>1, <2>1 DEF Polled, TypeOK
<1>2. CASE AlreadyUp(c)
  <2>1. lockq' \in Seq(Task) /\ pc' \in [Task -> Place]
    BY <1>2, LeaveType, PlaceFacts DEF AlreadyUp, Granted
  <2> QED
    BY <1>2, <2>1 DEF AlreadyUp, TypeOK
<1>3. CASE BeginLaunch(c)
  <2>1. pc' \in [Task -> Place] /\ proc' \in [Proc -> Known]
    BY <1>3, GotoType, PlaceFacts, UntailedFacts DEF BeginLaunch
  <2> QED
    BY <1>3, <2>1 DEF BeginLaunch, TypeOK, Known
<1>4. ASSUME NEW p \in Proc, Spawn(c, p) PROVE TypeOK'
  <2>1. pc' \in [Task -> Place]
    BY <1>4, GotoType, PlaceFacts DEF Spawn
  <2>2. [Unborn EXCEPT !.os = "booting", !.tail = TRUE] \in Known
    BY DEF Unborn, Known
  <2>3. proc' \in [Proc -> Known]
    BY <1>4, <1>a, <2>2 DEF Spawn
  <2> QED
    BY <1>4, <2>1, <2>3 DEF Spawn, TypeOK, Known, State
<1>5. CASE SpawnFails(c)
  <2>1. lockq' \in Seq(Task) /\ pc' \in [Task -> Place]
    BY <1>0, <1>5, LeaveType, PlaceFacts DEF SpawnFails
  <2> QED
    BY <1>5, <2>1 DEF SpawnFails, TypeOK, State
<1>6. CASE HealthAnswered(c)
  BY <1>6, GotoType, PlaceFacts DEF HealthAnswered, TypeOK
<1>7. CASE BecomesReady(c)
  <2>1. lockq' \in Seq(Task) /\ pc' \in [Task -> Place]
    BY <1>0, <1>7, LeaveType, PlaceFacts DEF BecomesReady
  <2>2. proc' \in [Proc -> Known]
    BY <1>7, <1>a, UpdateType DEF BecomesReady
  <2> QED
    BY <1>7, <2>1, <2>2 DEF BecomesReady, TypeOK, State, Known
<1>8. CASE BootFails(c)
  <2>1. lockq' \in Seq(Task) /\ pc' \in [Task -> Place]
    BY <1>0, <1>8, LeaveType, PlaceFacts DEF BootFails
  <2>2. proc' \in [Proc -> Known]
    BY <1>8, UntailedFacts, UpdateType DEF BootFails
  <2> QED
    BY <1>8, <2>1, <2>2 DEF BootFails, TypeOK, State, Known
<1>9. CASE BootTimesOut(c)
  BY <1>9, TerminateType DEF BootTimesOut, TypeOK, Known
<1>10. CASE FailStopped(c)
  <2>1. lockq' \in Seq(Task) /\ pc' \in [Task -> Place]
    BY <1>0, <1>10, LeaveType, PlaceFacts DEF FailStopped, Stopped
  <2>2. proc' \in [Proc -> Known]
    BY <1>10, <1>a, UpdateType DEF FailStopped
  <2> QED
    BY <1>10, <2>1, <2>2 DEF FailStopped, Stopped, TypeOK, State, Known
<1> QED
  BY <1>1, <1>2, <1>3, <1>4, <1>5, <1>6, <1>7, <1>8, <1>9, <1>10 DEF CallerStep

LEMMA StopStepType ==
  ASSUME TypeOK, LockInv, NEW t \in Evictor \cup Stopper, StopStep(t)
  PROVE  TypeOK'
<1> t \in Task
  BY TaskFacts
<1>0. pc[t] \in Inside => Holds(t)
  BY DEF LockInv
<1>a. proc \in [Proc -> Known]
  BY DEF TypeOK, Known
<1>1. CASE StopAtOnce(t)
  <2>1. lockq' \in Seq(Task) /\ pc' \in [Task -> Place]
    BY <1>1, LeaveType, PlaceFacts DEF StopAtOnce, AfterStop, Granted
  <2>2. proc' \in [Proc -> Known]
    BY <1>1, UntailedFacts DEF StopAtOnce
  <2> QED
    BY <1>1, <2>1, <2>2 DEF StopAtOnce, AfterStop, TypeOK, State, Known
<1>2. CASE BeginStop(t)
  BY <1>2, TerminateType DEF BeginStop, TypeOK, Known
<1>3. CASE EndStop(t)
  <2>1. lockq' \in Seq(Task) /\ pc' \in [Task -> Place]
    BY <1>0, <1>3, LeaveType, PlaceFacts DEF EndStop, Stopped, AfterStop
  <2>2. proc' \in [Proc -> Known]
    <3>1. CASE was = "ready"
      BY <1>3, <1>a, <3>1, UpdateType DEF EndStop
    <3>2. CASE was # "ready"
      <4>1. proc' = proc
        BY <1>3, <1>a, <3>2 DEF EndStop, Known
      <4> QED
        BY <1>a, <4>1
    <3> QED
      BY <3>1, <3>2
  <2> QED
    BY <1>3, <2>1, <2>2 DEF EndStop, Stopped, AfterStop, TypeOK, State, Known
<1> QED
  BY <1>1, <1>2, <1>3 DEF StopStep

(* What the world around the tasks does to one process.                    *)
WorldStep(p) == Serves(p) \/ Exits(p) \/ ProcStep(p)

LEMMA WorldFacts ==
  ASSUME TypeOK, NEW p \in Proc, WorldStep(p)
  PROVE  /\ proc' \in [Proc -> Known] /\ UNCHANGED <<lockq, pc, process, freed, victim, was>>
         /\ \A q \in Proc : Live(q)' => Live(q)
         /\ \A q \in Proc : proc'[q].tail => proc[q].tail
         /\ \A q \in Proc : proc'[q].said # proc[q].said => q \notin {process, victim} /\ proc'[q] = Unborn
         /\ \A q \in {process, victim} \cap Proc : proc[q].os = "reaped" => proc'[q].os = "reaped"
         /\ state' = state \/ (state' = "failed" /\ state = "ready" /\ proc[p].tail /\ proc[p].os = "reaped"
                                /\ proc'[p].os = "reaped")
<1>a. proc \in [Proc -> Known]
  BY DEF TypeOK, Known
<1>1. CASE Serves(p)
  BY <1>1, <1>a DEF Serves, Live, Known
<1>2. CASE Exits(p)
  <2>1. PICK c \in {"clean", "crash"} : proc' = [proc EXCEPT ![p] = [@ EXCEPT !.os = "exited", !.code = c]]
    BY <1>2 DEF Exits
  <2>2. proc[p] \in Known /\ [proc[p] EXCEPT !.os = "exited", !.code = c] \in Known
    BY <1>a DEF Known
  <2>3. /\ proc' \in [Proc -> Known] /\ \A q \in Proc \ {p} : proc'[q] = proc[q]
        /\ proc'[p] = [proc[p] EXCEPT !.os = "exited", !.code = c]
    BY <1>a, <2>1, <2>2
  <2>4. /\ proc'[p].os = "exited" /\ proc'[p].tail = proc[p].tail /\ proc'[p].said = proc[p].said
        /\ proc[p].os # "reaped"
    BY <1>2, <2>2, <2>3 DEF Known, Exits, Live
  <2> QED
    BY <1>2, <2>3, <2>4 DEF Exits, Live
<1>3. CASE Reaped(p)
  BY <1>3, <1>a DEF Reaped, Live, Known
<1>4. CASE TailEnds(p)
  <2>1. /\ proc' = [proc EXCEPT ![p].tail = FALSE] /\ UNCHANGED <<lockq, pc, process, freed, victim, was>>
        /\ proc[p].os = "reaped" /\ proc[p].tail
        /\ state' = state \/ (state' = "failed" /\ state = "ready")
    BY <1>4 DEF TailEnds
  <2>4. proc[p] \in Known /\ [proc[p] EXCEPT !.tail = FALSE] \in Known
    BY <1>a DEF Known
  <2>2. /\ proc' \in [Proc -> Known] /\ \A q \in Proc \ {p} : proc'[q] = proc[q]
        /\ proc'[p] = [proc[p] EXCEPT !.tail = FALSE]
    BY <1>a, <2>1, <2>4
  <2>3. ~proc'[p].tail /\ proc'[p].os = "reaped" /\ proc'[p].said = proc[p].said
    BY <2>1, <2>2, <2>4 DEF Known
  <2> QED
    BY <2>1, <2>2, <2>3 DEF Live
<1>5. CASE Forgotten(p)
  <2>1. Unborn \in Known
    BY DEF Unborn, Known
  <2>2. /\ proc' = [proc EXCEPT ![p] = Unborn] /\ p \notin {process, victim}
        /\ UNCHANGED <<lockq, pc, state, process, freed, victim, was>>
    BY <1>5 DEF Forgotten
  <2>3. /\ proc' \in [Proc -> Known] /\ proc'[p] = Unborn /\ \A q \in Proc \ {p} : proc'[q] = proc[q]
    BY <1>a, <2>1, <2>2
  <2> QED
    BY <2>2, <2>3 DEF Live, Unborn
<1> QED
  BY <1>1, <1>2, <1>3, <1>4, <1>5 DEF WorldStep, ProcStep

LEMMA NextType ==
  ASSUME TypeOK, LockInv, [Next]_embedVars
  PROVE  TypeOK'
<1>a. proc \in [Proc -> Known]
  BY DEF TypeOK, Known
<1>1. ASSUME NEW c \in Caller, EnsureRunning(c) \/ RestartLoading(c) \/ EndCall(c) PROVE TypeOK'
  <2>1. c \in Task
    BY TaskFacts
  <2>2. lockq' \in Seq(Task) /\ pc' \in [Task -> Place]
    BY <1>1, <2>1, EnqueueType, GotoType, PlaceFacts DEF EnsureRunning, RestartLoading, EndCall, TypeOK
  <2> QED
    BY <1>1, <2>2 DEF EnsureRunning, RestartLoading, EndCall, TypeOK
<1>2. ASSUME NEW c \in Caller, CallerStep(c) PROVE TypeOK'
  BY <1>2, CallerStepType
<1>3. ASSUME NEW t \in Evictor \cup Stopper, AskStop(t) PROVE TypeOK'
  <2>1. lockq' \in Seq(Task) /\ pc' \in [Task -> Place]
    BY <1>3, TaskFacts, EnqueueType DEF AskStop
  <2> QED
    BY <1>3, <2>1 DEF AskStop, TypeOK
<1>4. ASSUME NEW t \in Evictor \cup Stopper, StopStep(t) PROVE TypeOK'
  BY <1>4, StopStepType
<1>5. ASSUME NEW t \in Task, Kill(t) PROVE TypeOK'
  <2>1. proc' \in [Proc -> Known]
    BY <1>5, <1>a, UpdateType DEF Kill
  <2> QED
    BY <1>5, <2>1 DEF Kill, TypeOK, Known
<1>6. ASSUME NEW p \in Proc, WorldStep(p) PROVE TypeOK'
  BY <1>6, WorldFacts DEF TypeOK, Known, State
<1>7. CASE UNCHANGED embedVars
  BY <1>7 DEF embedVars, TypeOK
<1> QED
  BY <1>1, <1>2, <1>3, <1>4, <1>5, <1>6, <1>7 DEF Next, WorldStep

--------------------------------------------------------------------------------
(* The lock: what each way of moving does to the queue.                    *)

LEMMA EnqueueLock ==
  ASSUME TypeOK, LockInv, NEW t \in Task, pc[t] \notin InQueue, Enqueue(t)
  PROVE  LockInv'
<1>1. lockq \in Seq(Task) /\ lockq' = Append(lockq, t) /\ pc' = [pc EXCEPT ![t] = "wait"]
  BY DEF TypeOK, Enqueue, Goto
<1>2. \A i \in DOMAIN lockq : lockq[i] # t
  BY DEF LockInv, InQueue
<1>3. "wait" \notin Inside /\ "wait" \in InQueue
  BY PlaceFacts
<1>4. /\ DOMAIN lockq' = 1..(Len(lockq) + 1)
      /\ \A i \in DOMAIN lockq : lockq'[i] = lockq[i]
      /\ lockq'[Len(lockq) + 1] = t
      /\ DOMAIN lockq = 1..Len(lockq) /\ Len(lockq) \in Nat
  BY <1>1
<1>5. \A i, j \in DOMAIN lockq' : lockq'[i] = lockq'[j] => i = j
  <2>1. \A i, j \in DOMAIN lockq : lockq[i] = lockq[j] => i = j
    BY DEF LockInv
  <2> QED
    BY <1>2, <1>4, <2>1
<1>6. \A i \in DOMAIN lockq' : pc'[lockq'[i]] \in InQueue
  <2>1. \A i \in DOMAIN lockq : pc[lockq[i]] \in InQueue /\ lockq[i] \in Task
    BY <1>1 DEF LockInv
  <2> QED
    BY <1>1, <1>2, <1>3, <1>4, <2>1 DEF TypeOK
<1>7. \A u \in Task : pc'[u] \in Inside => lockq' # <<>> /\ Head(lockq') = u
  <2> SUFFICES ASSUME NEW u \in Task, pc'[u] \in Inside
               PROVE  lockq' # <<>> /\ Head(lockq') = u
    OBVIOUS
  <2>1. pc[u] \in Inside
    BY <1>1, <1>3 DEF TypeOK
  <2>2. lockq # <<>> /\ Head(lockq) = u
    BY <2>1 DEF LockInv, Holds
  <2> QED
    BY <1>1, <2>2
<1> QED
  BY <1>5, <1>6, <1>7 DEF LockInv, Holds

LEMMA LeaveLock ==
  ASSUME TypeOK, LockInv, NEW t \in Task, NEW there \in Place \ InQueue,
         Holds(t), Leave(t, there)
  PROVE  LockInv'
<1>1. /\ lockq \in Seq(Task) /\ lockq # <<>> /\ lockq[1] = t
      /\ lockq' = Tail(lockq) /\ pc' = [pc EXCEPT ![t] = there]
  BY DEF TypeOK, Holds, Leave, Goto
<1>2. /\ DOMAIN lockq = 1..Len(lockq) /\ Len(lockq) \in Nat \ {0}
      /\ DOMAIN lockq' = 1..(Len(lockq) - 1)
      /\ \A i \in DOMAIN lockq' : lockq'[i] = lockq[i + 1] /\ i + 1 \in DOMAIN lockq
  BY <1>1
<1>3. \A i, j \in DOMAIN lockq : lockq[i] = lockq[j] => i = j
  BY DEF LockInv
<1>4. \A i, j \in DOMAIN lockq' : lockq'[i] = lockq'[j] => i = j
  BY <1>2, <1>3
<1>5. \A i \in DOMAIN lockq' : lockq'[i] # t
  BY <1>1, <1>2, <1>3
<1>6. \A i \in DOMAIN lockq' : pc'[lockq'[i]] \in InQueue
  <2>1. \A i \in DOMAIN lockq : pc[lockq[i]] \in InQueue /\ lockq[i] \in Task
    BY <1>1 DEF LockInv
  <2> QED
    BY <1>1, <1>2, <1>5, <2>1 DEF TypeOK
<1>7. \A u \in Task : pc'[u] \notin Inside
  <2> SUFFICES ASSUME NEW u \in Task, pc'[u] \in Inside PROVE FALSE
    OBVIOUS
  <2>1. u # t /\ pc[u] \in Inside
    BY <1>1 DEF TypeOK, InQueue
  <2> QED
    BY <2>1 DEF LockInv, Holds
<1> QED
  BY <1>4, <1>6, <1>7 DEF LockInv

LEMMA MoveLock ==
  ASSUME TypeOK, LockInv, NEW t \in Task, NEW there \in Inside,
         Holds(t), Goto(t, there), lockq' = lockq
  PROVE  LockInv'
<1>1. \A i \in DOMAIN lockq : lockq[i] \in Task
  BY DEF TypeOK
<1>2. \A u \in Task : pc'[u] \in Inside => Holds(u)
  BY DEF TypeOK, LockInv, Goto
<1>3. there \in InQueue
  BY DEF InQueue
<1> QED
  BY <1>1, <1>2, <1>3 DEF TypeOK, LockInv, Goto, Holds

LEMMA OutsideLock ==
  ASSUME TypeOK, LockInv, NEW t \in Task, NEW there \in Place \ InQueue,
         pc[t] \notin InQueue, Goto(t, there), lockq' = lockq
  PROVE  LockInv'
<1>1. \A i \in DOMAIN lockq : lockq[i] \in Task /\ lockq[i] # t
  BY DEF TypeOK, LockInv
<1>2. \A u \in Task : pc'[u] \in Inside => Holds(u)
  BY PlaceFacts DEF TypeOK, LockInv, Goto
<1> QED
  BY <1>1, <1>2 DEF TypeOK, LockInv, Goto, Holds

LEMMA SameLock ==
  ASSUME LockInv, UNCHANGED <<lockq, pc>> PROVE LockInv'
  BY DEF LockInv, Holds

LEMMA NextLock ==
  ASSUME TypeOK, LockInv, [Next]_embedVars
  PROVE  LockInv'
<1> USE PlaceFacts
<1>1. ASSUME NEW c \in Caller, EnsureRunning(c) \/ RestartLoading(c) \/ EndCall(c) PROVE LockInv'
  <2>1. c \in Task
    BY TaskFacts
  <2>2. CASE EnsureRunning(c)
    BY <2>1, <2>2, EnqueueLock, OutsideLock DEF EnsureRunning
  <2>3. CASE RestartLoading(c)
    BY <2>1, <2>3, EnqueueLock DEF RestartLoading
  <2>4. CASE EndCall(c)
    BY <2>1, <2>4, OutsideLock DEF EndCall
  <2> QED
    BY <1>1, <2>2, <2>3, <2>4
<1>2. ASSUME NEW c \in Caller, CallerStep(c) PROVE LockInv'
  <2> c \in Task
    BY TaskFacts
  <2>0. pc[c] \in Inside => Holds(c)
    BY DEF LockInv
  <2>1. CASE Polled(c)
    BY <2>1, EnqueueLock, OutsideLock DEF Polled
  <2>2. CASE AlreadyUp(c)
    BY <2>2, LeaveLock DEF AlreadyUp, Granted
  <2>3. CASE BeginLaunch(c)
    BY <2>3, MoveLock DEF BeginLaunch, Granted
  <2>4. ASSUME NEW p \in Proc, Spawn(c, p) PROVE LockInv'
    BY <2>0, <2>4, MoveLock DEF Spawn
  <2>5. CASE SpawnFails(c)
    BY <2>0, <2>5, LeaveLock DEF SpawnFails
  <2>6. CASE HealthAnswered(c)
    BY <2>0, <2>6, MoveLock DEF HealthAnswered
  <2>7. CASE BecomesReady(c)
    BY <2>0, <2>7, LeaveLock DEF BecomesReady
  <2>8. CASE BootFails(c)
    BY <2>0, <2>8, LeaveLock DEF BootFails
  <2>9. CASE BootTimesOut(c)
    BY <2>0, <2>9, MoveLock DEF BootTimesOut, Terminate
  <2>10. CASE FailStopped(c)
    BY <2>0, <2>10, LeaveLock DEF FailStopped, Stopped
  <2> QED
    BY <1>2, <2>1, <2>2, <2>3, <2>4, <2>5, <2>6, <2>7, <2>8, <2>9, <2>10 DEF CallerStep
<1>3. ASSUME NEW t \in Evictor \cup Stopper, AskStop(t) PROVE LockInv'
  BY <1>3, TaskFacts, EnqueueLock DEF AskStop
<1>4. ASSUME NEW t \in Evictor \cup Stopper, StopStep(t) PROVE LockInv'
  <2> t \in Task
    BY TaskFacts
  <2>0. pc[t] \in Inside => Holds(t)
    BY DEF LockInv
  <2>1. CASE StopAtOnce(t)
    BY <2>1, LeaveLock DEF StopAtOnce, AfterStop, Granted
  <2>2. CASE BeginStop(t)
    BY <2>2, MoveLock DEF BeginStop, Terminate, Granted
  <2>3. CASE EndStop(t)
    BY <2>0, <2>3, LeaveLock DEF EndStop, AfterStop, Stopped
  <2> QED
    BY <1>4, <2>1, <2>2, <2>3 DEF StopStep
<1>5. ASSUME NEW t \in Task, Kill(t) PROVE LockInv'
  BY <1>5, SameLock DEF Kill
<1>6. ASSUME NEW p \in Proc, WorldStep(p) PROVE LockInv'
  BY <1>6, WorldFacts, SameLock
<1>7. CASE UNCHANGED embedVars
  BY <1>7, SameLock DEF embedVars
<1> QED
  BY <1>1, <1>2, <1>3, <1>4, <1>5, <1>6, <1>7 DEF Next, WorldStep

--------------------------------------------------------------------------------
(* The slot: what the steps do to the process, the state and the events.   *)

LEMMA Bystander ==
  ASSUME NEW pl, pl \notin Inside PROVE Standing(pl)'
  BY DEF Inside, Standing

LEMMA AloneSlot ==
  ASSUME TypeOK, LockInv, NEW t \in Task, Holds(t), NEW there \in Place, Goto(t, there),
         Standing(there)', ProcInv',
         victim' # None => process' = None /\ there \in {"stop", "fail"} /\ lockq' = lockq,
         state' = "loading" => there \in {"boot", "answered", "fail"} /\ lockq' = lockq
  PROVE  SlotInv'
<1>1. pc'[t] = there /\ \A u \in Task \ {t} : pc'[u] = pc[u] /\ pc'[u] \notin Inside
  BY DEF TypeOK, LockInv, Goto, Holds
<1>2. \A u \in Task : Standing(pc[u])'
  <2>1. ASSUME NEW u \in Task \ {t} PROVE Standing(pc[u])'
    BY <1>1, Bystander DEF Inside, Standing
  <2>2. Standing(pc[t])'
    BY <1>1 DEF Standing
  <2> QED
    BY <2>1, <2>2
<1>3. victim' # None => process' = None /\ HeadIn({"stop", "fail"})'
  BY <1>1 DEF HeadIn, Holds
<1>4. LoadingIsOwned'
  BY <1>1 DEF LoadingIsOwned, Holds
<1> QED
  BY <1>2, <1>3, <1>4 DEF SlotInv

LEMMA OutsideSlot ==
  ASSUME TypeOK, LockInv, SlotInv, NEW t \in Task, NEW there \in Place \ Inside,
         pc[t] \notin InQueue, Goto(t, there), lockq' \in {lockq, Append(lockq, t)},
         UNCHANGED <<state, process, freed, proc, victim, was>>
  PROVE  SlotInv'
<1>1. \A u \in Task : pc'[u] = IF u = t THEN there ELSE pc[u]
  BY DEF TypeOK, Goto
<1>2. lockq # <<>> => /\ lockq' # <<>> /\ Head(lockq') = Head(lockq)
                      /\ Head(lockq) \in Task /\ pc'[Head(lockq)] = pc[Head(lockq)]
  <2> SUFFICES ASSUME lockq # <<>> PROVE /\ lockq' # <<>> /\ Head(lockq') = Head(lockq)
                      /\ Head(lockq) \in Task /\ pc'[Head(lockq)] = pc[Head(lockq)]
    OBVIOUS
  <2>1. lockq \in Seq(Task) /\ 1 \in DOMAIN lockq /\ Head(lockq) = lockq[1] /\ lockq[1] \in Task
    BY DEF TypeOK
  <2>2. lockq[1] # t
    BY <2>1 DEF LockInv
  <2> QED
    BY <1>1, <2>1, <2>2
<1>3. \A u \in Task : Standing(pc[u])'
  <2> SUFFICES ASSUME NEW u \in Task PROVE Standing(pc[u])'
    OBVIOUS
  <2>1. CASE u = t
    BY <1>1, <2>1 DEF Inside, Standing
  <2>2. CASE u # t
    BY <1>1, <2>2 DEF SlotInv, Standing
  <2> QED
    BY <2>1, <2>2
<1>4. victim' # None => process' = None /\ HeadIn({"stop", "fail"})'
  BY <1>2 DEF SlotInv, HeadIn
<1>5. LoadingIsOwned'
  BY <1>2 DEF SlotInv, LoadingIsOwned
<1>6. ProcInv'
  BY DEF SlotInv, ProcInv, Live
<1> QED
  BY <1>3, <1>4, <1>5, <1>6 DEF SlotInv

LEMMA FrameSlot ==
  ASSUME TypeOK, SlotInv, UNCHANGED <<lockq, pc, process, victim, was>>,
         \A q \in Proc : (Live(q)' => Live(q)) /\ (proc'[q].tail => proc[q].tail),
         \A q \in {process, victim} \cap Proc :
            proc'[q].said = proc[q].said /\ (proc[q].os = "reaped" => proc'[q].os = "reaped"),
         \/ state' = state
         \/ state' = "failed" /\ state = "ready" /\ process \in Proc /\ proc'[process].os = "reaped"
  PROVE  SlotInv'
<1>1. \A u \in Task : Standing(pc[u])'
  <2> SUFFICES ASSUME NEW u \in Task PROVE Standing(pc[u])'
    OBVIOUS
  <2>1. Standing(pc[u]) /\ (victim # None => process = None)
    BY DEF SlotInv
  <2>2. None \notin Proc
    BY EmbedProcs
  <2> QED
    BY <2>1, <2>2 DEF Standing
<1>2. (victim' # None => process' = None /\ HeadIn({"stop", "fail"})') /\ LoadingIsOwned'
  BY DEF SlotInv, HeadIn, LoadingIsOwned
<1>3. ProcInv'
  <2>1. process \in Proc \cup {None} /\ None \notin Proc
    BY EmbedProcs DEF TypeOK
  <2>2. state' \notin {"ready", "loading"} => \A q \in Proc : ~Live(q)'
    <3>1. CASE state' = state
      BY <3>1 DEF SlotInv, ProcInv
    <3>2. ASSUME state' # state, NEW q \in Proc, Live(q)'
          PROVE  FALSE
      <4>1. victim = None /\ Live(q) /\ proc'[process].os = "reaped"
        BY <2>1, <3>2 DEF SlotInv
      <4>2. q = process
        BY <2>1, <4>1 DEF SlotInv, ProcInv
      <4> QED
        BY <3>2, <4>1, <4>2 DEF Live
    <3> QED
      BY <3>1, <3>2
  <2> QED
    BY <2>1, <2>2 DEF SlotInv, ProcInv
<1> QED
  BY <1>1, <1>2, <1>3 DEF SlotInv

(* A task at the head of the lock that has not begun: nothing is stopped   *)
(* and nothing is loading.                                                 *)
LEMMA AtTheGate ==
  ASSUME SlotInv, NEW t \in Task, Granted(t)
  PROVE  victim = None /\ state # "loading"
  BY DEF SlotInv, Granted, Holds, HeadIn, LoadingIsOwned

(* When a start has the lock and finds no healthy server, what is left of  *)
(* the old one is already dead.                                            *)
LEMMA NothingToStop ==
  ASSUME TypeOK, SlotInv, NEW t \in Task, Granted(t), ~Up
  PROVE  StopIsQuick
<1>1. state # "loading"
  BY AtTheGate
<1> QED
  BY <1>1 DEF Up, StopIsQuick, SlotInv, ProcInv

LEMMA TerminateSlot ==
  ASSUME TypeOK, LockInv, SlotInv, NEW t \in Task, Holds(t), victim = None, lockq' = lockq, state' = state,
         NEW why \in {"stop", "fail"}, Terminate(t, why),
         why = "stop" => state # "loading",
         why = "fail" => proc[process].said = "none"
  PROVE  SlotInv' /\ pc'[t] = why
<1>1. /\ process \in Proc /\ victim' = process /\ process' = None /\ was' = state
      /\ Goto(t, why) /\ proc' = [Untailed({process}) EXCEPT ![process].sig = "term"]
  BY DEF Terminate, TypeOK
<1>2. /\ \A p \in Proc : proc'[p].os = proc[p].os /\ proc'[p].said = proc[p].said
      /\ \A p \in Proc : proc'[p].tail => proc[p].tail /\ p # process
  BY <1>1, UntailedFacts DEF Known
<1>3. ProcInv'
  BY <1>1, <1>2, EmbedProcs DEF SlotInv, ProcInv, Live
<1>4. Standing(why)'
  <2>1. state = "ready" => proc'[process].said = "loaded"
    BY <1>1, <1>2, EmbedProcs DEF SlotInv, ProcInv
  <2>2. why = "fail" => proc'[process].said = "none"
    BY <1>1, <1>2
  <2> QED
    BY <1>1, <2>1, <2>2 DEF Standing
<1>5. why \in Place
  BY PlaceFacts
<1>6. SlotInv'
  BY <1>1, <1>3, <1>4, <1>5, AloneSlot
<1> QED
  BY <1>1, <1>6 DEF Goto, TypeOK

(* A process is told something about its end.                              *)
LEMMA SaidFacts ==
  ASSUME TypeOK, NEW p, NEW v \in {"none", "loaded", "failed", "unloaded"},
         proc' = [proc EXCEPT ![p].said = v]
  PROVE  /\ \A q \in Proc : proc'[q].os = proc[q].os /\ proc'[q].tail = proc[q].tail
         /\ \A q \in Proc : proc'[q].said = IF q = p THEN v ELSE proc[q].said
<1>1. proc \in [Proc -> Known]
  BY DEF TypeOK, Known
<1>2. CASE p \in Proc
  <2>1. proc[p] \in Known /\ proc'[p] = [proc[p] EXCEPT !.said = v] /\ \A q \in Proc \ {p} : proc'[q] = proc[q]
    BY <1>1, <1>2
  <2> QED
    BY <2>1 DEF Known
<1>3. CASE p \notin Proc
  <2>1. proc' = proc
    BY <1>1, <1>3
  <2> QED
    BY <1>3, <2>1
<1> QED
  BY <1>2, <1>3

LEMMA CallerStepSlot ==
  ASSUME TypeOK, LockInv, SlotInv, NEW c \in Caller, CallerStep(c)
  PROVE  SlotInv'
<1> c \in Task
  BY TaskFacts
<1>h. pc[c] \in Inside => Holds(c)
  BY DEF LockInv
<1>s. Standing(pc[c])
  BY DEF SlotInv
<1>n. None \notin Proc /\ (process # None => process \in Proc)
  BY EmbedProcs DEF TypeOK
<1>1. CASE Polled(c)
  <2>1. pc[c] \notin InQueue
    BY <1>1, PlaceFacts DEF Polled
  <2>2. PICK there \in {"up", "wait"} : Goto(c, there) /\ lockq' \in {lockq, Append(lockq, c)}
    BY <1>1 DEF Polled, Enqueue
  <2>3. there \in Place \ Inside
    BY PlaceFacts DEF InQueue, Inside, Place
  <2> QED
    BY <1>1, <2>1, <2>2, <2>3, OutsideSlot DEF Polled
<1>2. CASE AlreadyUp(c)
  <2>1. /\ Holds(c) /\ Goto(c, "up") /\ victim = None /\ state = "ready"
        /\ UNCHANGED <<state, process, freed, proc, victim, was>>
    BY <1>2, AtTheGate DEF AlreadyUp, Granted, Leave, Up
  <2>2. ProcInv' /\ Standing("up")'
    BY <2>1 DEF SlotInv, ProcInv, Live, Standing
  <2> QED
    BY <2>1, <2>2, AloneSlot, PlaceFacts
<1>3. CASE BeginLaunch(c)
  <2>1. /\ Holds(c) /\ Goto(c, "spawn") /\ victim = None /\ state # "loading" /\ StopIsQuick
        /\ proc' = Untailed({process}) /\ process' = None /\ UNCHANGED <<lockq, state, freed, victim, was>>
    BY <1>3, AtTheGate DEF BeginLaunch, Granted
  <2>2. ProcInv'
    BY <1>n, <2>1, UntailedFacts DEF SlotInv, ProcInv, Live, StopIsQuick
  <2>3. Standing("spawn")'
    BY <2>1 DEF Standing
  <2> QED
    BY <2>1, <2>2, <2>3, AloneSlot, PlaceFacts
<1>4. ASSUME NEW p \in Proc, Spawn(c, p) PROVE SlotInv'
  <2>1. /\ victim = None /\ process = None /\ Holds(c) /\ Goto(c, "boot") /\ process' = p /\ state' = "loading"
        /\ UNCHANGED <<lockq, freed, victim, was>>
    BY <1>4, <1>h, <1>s DEF Spawn, Standing, Inside
  <2>2. /\ proc'[p].said = "none" /\ \A q \in Proc \ {p} : proc'[q] = proc[q]
    BY <1>4 DEF Spawn, TypeOK, Unborn
  <2>3. ProcInv' /\ Standing("boot")'
    BY <1>n, <2>1, <2>2 DEF SlotInv, ProcInv, Live, Standing
  <2> QED
    BY <2>1, <2>3, AloneSlot, PlaceFacts
<1>5. CASE SpawnFails(c)
  <2>1. /\ victim = None /\ process = None /\ Holds(c) /\ Goto(c, "idle") /\ state' = "failed"
        /\ UNCHANGED <<process, freed, proc, victim, was>>
    BY <1>5, <1>h, <1>s DEF SpawnFails, Standing, Inside, Leave
  <2>2. ProcInv' /\ Standing("idle")'
    BY <1>n, <2>1 DEF SlotInv, ProcInv, Live, Standing
  <2> QED
    BY <2>1, <2>2, AloneSlot, PlaceFacts
<1>6. CASE HealthAnswered(c)
  <2>1. /\ Holds(c) /\ Goto(c, "answered") /\ Standing("answered")
        /\ UNCHANGED <<lockq, state, process, freed, proc, victim, was>>
    BY <1>6, <1>h, <1>s DEF HealthAnswered, Standing, Inside
  <2>2. ProcInv' /\ Standing("answered")' /\ victim = None
    BY <2>1 DEF SlotInv, ProcInv, Live, Standing
  <2> QED
    BY <2>1, <2>2, AloneSlot, PlaceFacts
<1>7. CASE BecomesReady(c)
  <2>1. /\ Holds(c) /\ Goto(c, "up") /\ Standing("answered") /\ state' = "ready"
        /\ proc' = [proc EXCEPT ![process].said = "loaded"] /\ UNCHANGED <<process, victim, was>>
    BY <1>7, <1>h, <1>s DEF BecomesReady, Inside, Leave
  <2>3. victim = None /\ process \in Proc
    BY <2>1 DEF Standing
  <2>4. /\ \A q \in Proc : proc'[q].os = proc[q].os /\ proc'[q].tail = proc[q].tail
        /\ proc'[process].said = "loaded"
    BY <2>1, <2>3 DEF TypeOK
  <2>5. \A p \in Proc : (Live(p)' => p \in {process', victim'}) /\ (proc'[p].tail => p = process')
    BY <2>1, <2>4 DEF SlotInv, ProcInv, Live
  <2>2. ProcInv' /\ Standing("up")' /\ victim = None
    BY <2>1, <2>3, <2>4, <2>5 DEF ProcInv, Standing
  <2> QED
    BY <2>1, <2>2, AloneSlot, PlaceFacts
<1>8. CASE BootFails(c)
  <2>1. /\ Holds(c) /\ Goto(c, "idle") /\ Standing("boot") /\ state' = "failed" /\ StopIsQuick
        /\ proc' = [Untailed({process}) EXCEPT ![process].said = "failed"]
        /\ process' = None /\ UNCHANGED <<victim, was>>
    BY <1>8, <1>h, <1>s DEF BootFails, Inside, Leave
  <2>2. \A p \in Proc : proc'[p].os = proc[p].os /\ (proc'[p].tail => proc[p].tail /\ p # process)
    BY <2>1, UntailedFacts DEF Known
  <2>3. ProcInv' /\ Standing("idle")' /\ victim = None
    BY <1>n, <2>1, <2>2 DEF SlotInv, ProcInv, Live, Standing, StopIsQuick
  <2> QED
    BY <2>1, <2>3, AloneSlot, PlaceFacts
<1>9. CASE BootTimesOut(c)
  <2>1. /\ Holds(c) /\ Standing("boot") /\ Terminate(c, "fail") /\ lockq' = lockq /\ state' = state
    BY <1>9, <1>h, <1>s DEF BootTimesOut, Inside
  <2>2. victim = None /\ proc[process].said = "none"
    BY <2>1 DEF Standing
  <2> QED
    BY <2>1, <2>2, TerminateSlot
<1>10. CASE FailStopped(c)
  <2>1. /\ Holds(c) /\ Goto(c, "idle") /\ Standing("fail") /\ proc[victim].os = "reaped" /\ victim' = None
        /\ proc' = [proc EXCEPT ![victim].said = "failed"] /\ state' = "failed"
        /\ UNCHANGED <<process, freed, was>>
    BY <1>10, <1>h, <1>s DEF FailStopped, Stopped, Inside, Leave
  <2>2. process = None
    BY <1>n, <2>1 DEF SlotInv, Standing
  <2>3. \A q \in Proc : ~Live(q)
    BY <1>n, <2>1, <2>2 DEF SlotInv, ProcInv, Live
  <2>4. \A q \in Proc : proc'[q].os = proc[q].os /\ proc'[q].tail = proc[q].tail
    BY <2>1, SaidFacts
  <2>5. ProcInv'
    BY <2>1, <2>2, <2>3, <2>4 DEF SlotInv, ProcInv, Live
  <2>6. Standing("idle")'
    BY DEF Standing
  <2> QED
    BY <2>1, <2>5, <2>6, AloneSlot, PlaceFacts
<1> QED
  BY <1>1, <1>2, <1>3, <1>4, <1>5, <1>6, <1>7, <1>8, <1>9, <1>10 DEF CallerStep

LEMMA StopStepSlot ==
  ASSUME TypeOK, LockInv, SlotInv, NEW t \in Evictor \cup Stopper, StopStep(t)
  PROVE  SlotInv'
<1> t \in Task
  BY TaskFacts
<1>h. pc[t] \in Inside => Holds(t)
  BY DEF LockInv
<1>s. Standing(pc[t])
  BY DEF SlotInv
<1>n. None \notin Proc /\ (process # None => process \in Proc)
  BY EmbedProcs DEF TypeOK
<1>1. CASE StopAtOnce(t)
  <2>1. /\ Holds(t) /\ Goto(t, "idle") /\ victim = None /\ state # "loading" /\ StopIsQuick
        /\ proc' = Untailed({process}) /\ process' = None /\ UNCHANGED <<victim, was>>
        /\ state' = IF state = "ready" THEN "stopped" ELSE state
    BY <1>1, AtTheGate DEF StopAtOnce, AfterStop, Granted, Leave
  <2>2. ProcInv'
    BY <1>n, <2>1, UntailedFacts DEF SlotInv, ProcInv, Live, StopIsQuick
  <2>3. Standing("idle")'
    BY DEF Standing
  <2> QED
    BY <2>1, <2>2, <2>3, AloneSlot, PlaceFacts
<1>2. CASE BeginStop(t)
  <2>1. Holds(t) /\ Terminate(t, "stop") /\ lockq' = lockq /\ state' = state /\ victim = None /\ state # "loading"
    BY <1>2, AtTheGate DEF BeginStop, Granted
  <2> QED
    BY <2>1, TerminateSlot
<1>3. CASE EndStop(t)
  <2>1. /\ Holds(t) /\ Goto(t, "idle") /\ Standing("stop") /\ proc[victim].os = "reaped" /\ victim' = None
        /\ state' = (IF was \in {"ready", "loading"} THEN "stopped" ELSE state)
        /\ UNCHANGED <<process, was>>
    BY <1>3, <1>h, <1>s DEF EndStop, Stopped, AfterStop, Inside, Leave
  <2>2. process = None /\ victim \in Proc /\ state' # "loading" /\ state' # "ready"
    BY <1>n, <2>1 DEF SlotInv, Standing
  <2>3. \A q \in Proc : proc'[q].os = proc[q].os /\ proc'[q].tail = proc[q].tail
    BY <1>3 DEF EndStop, TypeOK
  <2>4. \A q \in Proc : ~Live(q)
    BY <1>n, <2>1, <2>2 DEF SlotInv, ProcInv, Live
  <2>5. ProcInv' /\ Standing("idle")'
    BY <2>1, <2>2, <2>3, <2>4 DEF SlotInv, ProcInv, Live, Standing
  <2> QED
    BY <2>1, <2>2, <2>5, AloneSlot, PlaceFacts
<1> QED
  BY <1>1, <1>2, <1>3 DEF StopStep

LEMMA NextSlot ==
  ASSUME TypeOK, LockInv, SlotInv, [Next]_embedVars
  PROVE  SlotInv'
<1>1. ASSUME NEW c \in Caller, EnsureRunning(c) \/ RestartLoading(c) \/ EndCall(c) PROVE SlotInv'
  <2>1. PICK there \in {"up", "poll", "wait", "idle"} : Goto(c, there) /\ lockq' \in {lockq, Append(lockq, c)}
    BY <1>1 DEF EnsureRunning, RestartLoading, EndCall, Enqueue
  <2>2. there \in Place \ Inside /\ pc[c] \notin InQueue
    BY <1>1, PlaceFacts DEF InQueue, Inside, Place, EnsureRunning, RestartLoading, EndCall
  <2> QED
    BY <1>1, <2>1, <2>2, OutsideSlot, TaskFacts DEF EnsureRunning, RestartLoading, EndCall
<1>2. ASSUME NEW t \in Evictor \cup Stopper, AskStop(t) PROVE SlotInv'
  <2>1. "wait" \in Place \ Inside /\ pc[t] \notin InQueue /\ t \in Task
    BY <1>2, PlaceFacts, TaskFacts DEF InQueue, Inside, Place, AskStop
  <2> QED
    BY <1>2, <2>1, OutsideSlot DEF AskStop, Enqueue
<1>3. ASSUME NEW t \in Task, Kill(t) PROVE SlotInv'
  <2>1. \A q \in Proc : proc'[q].os = proc[q].os /\ proc'[q].tail = proc[q].tail /\ proc'[q].said = proc[q].said
    BY <1>3 DEF Kill, TypeOK
  <2> QED
    BY <1>3, <2>1, FrameSlot DEF Kill, Live
<1>4. ASSUME NEW p \in Proc, WorldStep(p) PROVE SlotInv'
  <2>1. proc[p].tail => p = process
    BY DEF SlotInv, ProcInv
  <2> QED
    BY <1>4, <2>1, WorldFacts, FrameSlot
<1>5. CASE UNCHANGED embedVars
  BY <1>5, FrameSlot DEF embedVars, Live
<1> QED
  BY <1>1, <1>2, <1>3, <1>4, <1>5, CallerStepSlot, StopStepSlot DEF Next, WorldStep

LEMMA InitInv == Init => EmbedInv
<1> SUFFICES ASSUME Init PROVE EmbedInv
  OBVIOUS
<1>1. TypeOK
  BY InitType
<1>2. \A t \in Task : pc[t] \notin Inside
  BY PlaceFacts DEF Init, InQueue, Inside
<1>3. LockInv
  BY <1>2 DEF Init, LockInv
<1>4. \A t \in Task : Standing(pc[t])
  BY DEF Init, Standing
<1>5. ProcInv /\ LoadingIsOwned /\ victim = None
  BY DEF Init, ProcInv, LoadingIsOwned, Live, Unborn
<1> QED
  BY <1>1, <1>3, <1>4, <1>5 DEF EmbedInv, SlotInv

THEOREM EmbedInvAlways == Spec => []EmbedInv
<1>1. Init => EmbedInv
  BY InitInv
<1>2. EmbedInv /\ [Next]_embedVars => EmbedInv'
  BY NextType, NextLock, NextSlot DEF EmbedInv
<1> QED
  BY <1>1, <1>2, PTL DEF Spec

(* The model's variables keep their types.                                 *)
THEOREM EmbedTypeCorrect == Spec => []TypeOK
<1>1. EmbedInv => TypeOK
  BY DEF EmbedInv
<1> QED
  BY <1>1, EmbedInvAlways, PTL

(* LOADING is never left behind without a start that drives it, and a      *)
(* server that is alive is never called stopped or failed.                 *)
THEOREM StateIsTrueAlways == Spec => []StateIsTrue
<1>1. EmbedInv => StateIsTrue
  BY DEF EmbedInv, SlotInv, ProcInv, StateIsTrue
<1> QED
  BY <1>1, EmbedInvAlways, PTL

(* One live embedding server at most: a live process is the current one or *)
(* the one being stopped, and while one is being stopped there is no other.*)
THEOREM OneEmbedderAlways == Spec => []OneEmbedder
<1>1. EmbedInv => OneEmbedder
  BY EmbedProcs DEF EmbedInv, SlotInv, ProcInv, OneEmbedder
<1> QED
  BY <1>1, EmbedInvAlways, PTL

(* A start that has the lock and has to launch never waits for an old      *)
(* server to exit first.                                                   *)
StartsWithoutWaiting == \A c \in Caller : Granted(c) /\ ~Up => StopIsQuick

THEOREM StartNeverStops == Spec => []StartsWithoutWaiting
<1>1. EmbedInv => StartsWithoutWaiting
  BY NothingToStop, TaskFacts DEF EmbedInv, StartsWithoutWaiting
<1> QED
  BY <1>1, EmbedInvAlways, PTL

--------------------------------------------------------------------------------
(* The action properties.                                                  *)

LEMMA StopEnds ==
  ASSUME EmbedInv, SlotInv', NEW t \in Evictor \cup Stopper, StopStep(t), pc'[t] = "idle"
  PROVE  state' \in {"stopped", "failed"} /\ process' = None /\ \A p \in Proc : ~Live(p)'
<1> t \in Task
  BY TaskFacts
<1>a. TypeOK /\ LockInv /\ SlotInv /\ Standing(pc[t]) /\ None \notin Proc
  BY EmbedProcs DEF EmbedInv, SlotInv
<1>1. CASE StopAtOnce(t)
  <2>1. victim' = None /\ state # "loading" /\ process' = None /\ state' = IF state = "ready" THEN "stopped" ELSE state
    BY <1>1, <1>a, AtTheGate DEF StopAtOnce, AfterStop
  <2> QED
    BY <1>a, <2>1 DEF SlotInv, ProcInv, TypeOK, State
<1>2. CASE BeginStop(t)
  BY <1>2, <1>a DEF BeginStop, Terminate, Goto, TypeOK
<1>3. CASE EndStop(t)
  <2>1. /\ pc[t] = "stop" /\ Holds(t) /\ state = was /\ victim \in Proc /\ victim' = None /\ process' = process
        /\ state' = IF was \in {"ready", "loading"} THEN "stopped" ELSE state
    BY <1>3, <1>a DEF EndStop, Stopped, AfterStop, Standing, LockInv, Inside
  <2>2. process' = None
    BY <1>a, <2>1 DEF SlotInv
  <2> QED
    BY <1>a, <2>1, <2>2 DEF SlotInv, ProcInv, TypeOK, State
<1> QED
  BY <1>1, <1>2, <1>3 DEF StopStep

(* When a stop returns, the server is gone and the state says so, whoever  *)
(* started, stopped or died meanwhile.                                     *)
THEOREM StopLeavesNothingAlways == Spec => StopLeavesNothing
<1> DEFINE Done(t) == pc[t] # "idle" /\ pc'[t] = "idle"
           Gone == state' \in {"stopped", "failed"} /\ process' = None /\ \A p \in Proc : ~Live(p)'
           OK == \A t \in Evictor \cup Stopper : Done(t) => Gone
<1>1. ASSUME EmbedInv, [Next]_embedVars PROVE OK
  <2>a. TypeOK /\ SlotInv'
    BY <1>1, NextSlot DEF EmbedInv
  <2>1. ASSUME NEW u \in Task, NEW there, Goto(u, there), NEW t \in Evictor \cup Stopper, t # u PROVE ~Done(t)
    BY <2>a, <2>1, TaskFacts DEF TypeOK, Goto
  <2>2. ASSUME NEW c \in Caller, EnsureRunning(c) \/ RestartLoading(c) \/ CallerStep(c) \/ EndCall(c) PROVE OK
    <3>1. \E there : Goto(c, there)
      BY <2>2 DEF EnsureRunning, RestartLoading, EndCall, Enqueue, CallerStep, Polled, AlreadyUp, BeginLaunch, Spawn,
                  SpawnFails, HealthAnswered, BecomesReady, BootFails, BootTimesOut, FailStopped, Leave, Terminate
    <3> QED
      BY <2>1, <3>1, TaskFacts
  <2>3. ASSUME NEW u \in Evictor \cup Stopper, AskStop(u) PROVE OK
    BY <2>1, <2>3, TaskFacts DEF AskStop, Enqueue
  <2>4. ASSUME NEW u \in Evictor \cup Stopper, StopStep(u) PROVE OK
    <3>1. \E there : Goto(u, there)
      BY <2>4 DEF StopStep, StopAtOnce, BeginStop, EndStop, AfterStop, Terminate, Leave
    <3>2. pc'[u] = "idle" => Gone
      BY <1>1, <2>4, <2>a, StopEnds
    <3> QED
      BY <2>1, <3>1, <3>2, TaskFacts
  <2>5. ASSUME UNCHANGED pc PROVE OK
    BY <2>5
  <2>6. ASSUME NEW p \in Proc, WorldStep(p) PROVE OK
    BY <2>5, <2>6, <2>a, WorldFacts
  <2> QED
    BY <1>1, <2>2, <2>3, <2>4, <2>5, <2>6 DEF Next, Kill, WorldStep, embedVars
<1>2. EmbedInv /\ [Next]_embedVars => [OK]_embedVars
  BY <1>1
<1>3. Spec => [][OK]_embedVars
  BY <1>2, EmbedInvAlways, PTL DEF Spec
<1> QED
  BY <1>3 DEF StopLeavesNothing

Story == {<<"none", "loaded">>, <<"none", "failed">>, <<"loaded", "unloaded">>}

LEMMA CallerStory ==
  ASSUME EmbedInv, NEW c \in Caller, CallerStep(c), NEW p \in Proc, proc'[p].said # proc[p].said
  PROVE  <<proc[p].said, proc'[p].said>> \in Story
<1>a. TypeOK /\ Standing(pc[c])
  BY TaskFacts DEF EmbedInv, SlotInv
<1>1. CASE Polled(c) \/ AlreadyUp(c) \/ SpawnFails(c) \/ HealthAnswered(c)
  BY <1>1 DEF Polled, AlreadyUp, SpawnFails, HealthAnswered
<1>2. CASE BeginLaunch(c)
  BY <1>2, <1>a, UntailedFacts DEF BeginLaunch
<1>3. CASE BootTimesOut(c)
  BY <1>3, <1>a, UntailedFacts DEF BootTimesOut, Terminate, Known
<1>4. ASSUME NEW q \in Proc, Spawn(c, q) PROVE FALSE
  BY <1>4, <1>a DEF Spawn, Unborn, TypeOK
<1>5. CASE BecomesReady(c)
  <2>1. process \in Proc /\ proc[process].said = "none"
    BY <1>5, <1>a DEF BecomesReady, Standing
  <2> QED
    BY <1>5, <1>a, <2>1 DEF BecomesReady, TypeOK, Story
<1>6. CASE BootFails(c)
  <2>1. process \in Proc /\ proc[process].said = "none"
    BY <1>6, <1>a DEF BootFails, Standing
  <2>2. p = process /\ proc'[p].said = "failed"
    BY <1>6, <1>a, <2>1, UntailedFacts DEF BootFails, Known
  <2> QED
    BY <2>1, <2>2 DEF Story
<1>7. CASE FailStopped(c)
  <2>1. victim \in Proc /\ proc[victim].said = "none"
    BY <1>7, <1>a DEF FailStopped, Stopped, Standing
  <2> QED
    BY <1>7, <1>a, <2>1 DEF FailStopped, TypeOK, Story
<1> QED
  BY <1>1, <1>2, <1>3, <1>4, <1>5, <1>6, <1>7 DEF CallerStep

LEMMA StopStory ==
  ASSUME EmbedInv, NEW t \in Evictor \cup Stopper, StopStep(t), NEW p \in Proc, proc'[p].said # proc[p].said
  PROVE  <<proc[p].said, proc'[p].said>> \in Story
<1>a. TypeOK /\ Standing(pc[t])
  BY TaskFacts DEF EmbedInv, SlotInv
<1>1. CASE StopAtOnce(t)
  BY <1>1, <1>a, UntailedFacts DEF StopAtOnce
<1>2. CASE BeginStop(t)
  BY <1>2, <1>a, UntailedFacts DEF BeginStop, Terminate, Known
<1>3. CASE EndStop(t)
  <2>1. victim \in Proc /\ (was = "ready" => proc[victim].said = "loaded")
    BY <1>3, <1>a DEF EndStop, Stopped, Standing
  <2>2. was = "ready" /\ p = victim /\ proc'[p].said = "unloaded"
    BY <1>3, <1>a, <2>1 DEF EndStop, TypeOK
  <2> QED
    BY <2>1, <2>2 DEF Story
<1> QED
  BY <1>1, <1>2, <1>3 DEF StopStep

(* A launch is told as loaded or as failed, once, and as unloaded only     *)
(* after it was told as loaded.                                            *)
THEOREM EventsInOrderAlways == Spec => EventsInOrder
<1> DEFINE OK == \A p \in Proc : proc'[p] # Unborn /\ proc'[p].said # proc[p].said => <<proc[p].said, proc'[p].said>> \in Story
<1>1. ASSUME EmbedInv, [Next]_embedVars PROVE OK
  <2>a. TypeOK
    BY <1>1 DEF EmbedInv
  <2>1. ASSUME NEW c \in Caller, CallerStep(c) PROVE OK
    BY <1>1, <2>1, CallerStory
  <2>2. ASSUME NEW t \in Evictor \cup Stopper, StopStep(t) PROVE OK
    BY <1>1, <2>2, StopStory
  <2>3. ASSUME NEW t \in Task, Kill(t) PROVE OK
    <3>1. \A p \in Proc : proc'[p].said = proc[p].said
      BY <2>a, <2>3 DEF Kill, TypeOK
    <3> QED
      BY <3>1
  <2>4. ASSUME NEW p \in Proc, WorldStep(p) PROVE OK
    BY <2>a, <2>4, WorldFacts
  <2>5. ASSUME UNCHANGED proc PROVE OK
    BY <2>5
  <2> QED
    BY <1>1, <2>1, <2>2, <2>3, <2>4, <2>5 DEF Next, WorldStep, EnsureRunning, RestartLoading, EndCall, AskStop, embedVars
<1>2. EmbedInv /\ [Next]_embedVars => [OK]_embedVars
  BY <1>1
<1>3. Spec => [][OK]_embedVars
  BY <1>2, EmbedInvAlways, PTL DEF Spec
<1> QED
  BY <1>3 DEF EventsInOrder, Story

--------------------------------------------------------------------------------
(***************************************************************************)
(* The embedding manager is a ModelSlot: each step of EmbeddingManager is a*)
(* step of the slot or leaves it as it is.                                 *)
(***************************************************************************)

(* The refinement mapping of EmbeddingManager's Slot.                      *)
SlotOf ==
  IF process # None
    THEN [phase |-> IF state = "failed" THEN "broken" ELSE state, model |-> "embedding"]
  ELSE IF \E p \in Proc : Live(p) THEN [phase |-> "draining", model |-> "embedding"]
  ELSE [phase |-> "empty", model |-> None]

AskOf == [c \in Caller |-> IF pc[c] \in {"wait"} \cup Inside THEN "embedding" ELSE None]

Nothing  == [phase |-> "empty", model |-> None]
In(ph)   == [phase |-> ph, model |-> "embedding"]

SlotStep == Slot!SlotNext \/ UNCHANGED <<SlotOf, AskOf>>

(* Whatever process the manager has, it did not stop it.                   *)
HeldInv == process # None => state # "stopped"

LEMMA NextHeld ==
  ASSUME EmbedInv, HeldInv, [Next]_embedVars
  PROVE  HeldInv'
<1>a. TypeOK /\ SlotInv /\ None \notin Proc
  BY EmbedProcs DEF EmbedInv
<1>1. ASSUME NEW c \in Caller, CallerStep(c) PROVE HeldInv'
  <2> USE <1>1, <1>a DEF HeldInv
  <2>1. CASE Polled(c) \/ AlreadyUp(c) \/ HealthAnswered(c)
    BY <2>1 DEF Polled, AlreadyUp, HealthAnswered
  <2>2. CASE BeginLaunch(c) \/ BootTimesOut(c) \/ BootFails(c) \/ SpawnFails(c) \/ FailStopped(c) \/ BecomesReady(c)
    BY <2>2 DEF BeginLaunch, BootTimesOut, BootFails, SpawnFails, FailStopped, BecomesReady, Terminate
  <2>3. ASSUME NEW p \in Proc, Spawn(c, p) PROVE HeldInv'
    BY <2>3 DEF Spawn
  <2> QED
    BY <2>1, <2>2, <2>3 DEF CallerStep
<1>2. ASSUME NEW t \in Evictor \cup Stopper, StopStep(t) PROVE HeldInv'
  <2>1. CASE StopAtOnce(t) \/ BeginStop(t)
    BY <2>1 DEF StopAtOnce, BeginStop, Terminate, HeldInv
  <2>2. CASE EndStop(t)
    <3>1. pc[t] = "stop" /\ process' = process /\ t \in Task
      BY <2>2, TaskFacts DEF EndStop, Stopped
    <3>2. victim \in Proc
      BY <1>a, <3>1 DEF SlotInv, Standing
    <3> QED
      BY <1>a, <3>1, <3>2 DEF SlotInv, HeldInv
  <2> QED
    BY <1>2, <2>1, <2>2 DEF StopStep
<1>3. ASSUME NEW p \in Proc, WorldStep(p) PROVE HeldInv'
  BY <1>3, <1>a, WorldFacts DEF HeldInv
<1> QED
  BY <1>1, <1>2, <1>3 DEF Next, WorldStep, EnsureRunning, RestartLoading, EndCall, AskStop, Kill, HeldInv, embedVars

--------------------------------------------------------------------------------
(* The slot's actions, under the mapping.                                  *)

LEMMA WantStep ==
  ASSUME NEW c \in Caller, AskOf[c] = None,
         AskOf' = [AskOf EXCEPT ![c] = "embedding"], SlotOf' = SlotOf
  PROVE  SlotStep
<1>1. Slot!Want(c, "embedding")
  BY DEF Slot!Want, SlotOf, AskOf
<1> QED
  BY <1>1 DEF SlotStep, Slot!SlotNext

LEMMA GrantStep ==
  ASSUME NEW c \in Caller, AskOf[c] = "embedding", AskOf' = [AskOf EXCEPT ![c] = None],
         SlotOf' = In("ready"), SlotOf \in {In("ready"), In("loading")}
  PROVE  SlotStep
<1>1. AskOf[c] # None /\ SlotOf' = [phase |-> "ready", model |-> AskOf[c]]
  BY EmbedName DEF In
<1>2. SlotOf = SlotOf' \/ SlotOf = [SlotOf' EXCEPT !.phase = "loading"]
  BY DEF In
<1>3. Slot!Grant(c)
  BY <1>1, <1>2 DEF Slot!Grant, SlotOf, AskOf
<1> QED
  BY <1>3 DEF SlotStep, Slot!SlotNext

LEMMA RefuseStep ==
  ASSUME NEW c \in Caller, AskOf[c] = "embedding", AskOf' = [AskOf EXCEPT ![c] = None],
         SlotOf = Nothing \/ SlotOf = In("loading"), SlotOf' = Nothing
  PROVE  SlotStep
<1>1. AskOf[c] # None /\ (SlotOf = Nothing \/ SlotOf.phase = "loading")
  BY EmbedName DEF In
<1>2. Slot!Refuse(c)
  BY <1>1 DEF Slot!Refuse, Slot!Empty, SlotOf, AskOf, Nothing
<1> QED
  BY <1>2 DEF SlotStep, Slot!SlotNext

LEMMA LoadStep ==
  ASSUME NEW c \in Caller, AskOf[c] = "embedding", AskOf' = AskOf,
         SlotOf = Nothing, SlotOf' = In("loading")
  PROVE  SlotStep
<1>1. AskOf[c] # None /\ SlotOf' = [phase |-> "loading", model |-> AskOf[c]]
  BY EmbedName DEF In
<1>2. Slot!Load(c)
  BY <1>1 DEF Slot!Load, Slot!Empty, SlotOf, AskOf, Nothing
<1> QED
  BY <1>2 DEF SlotStep, Slot!SlotNext

LEMMA CrashStep ==
  ASSUME AskOf' = AskOf, SlotOf = In("ready"), SlotOf' = In("broken")
  PROVE  SlotStep
<1>1. SlotOf.phase = "ready" /\ SlotOf' = [SlotOf EXCEPT !.phase = "broken"]
  BY DEF In
<1>2. Slot!Crash
  BY <1>1 DEF Slot!Crash, SlotOf, AskOf
<1> QED
  BY <1>2 DEF SlotStep, Slot!SlotNext

LEMMA LeaveStep ==
  ASSUME AskOf' = AskOf, SlotOf \in {In("loading"), In("ready"), In("broken")},
         SlotOf' \in {In("draining"), Nothing}
  PROVE  SlotStep
<1>1. /\ SlotOf.phase \in {"loading", "ready", "broken"}
      /\ SlotOf' \in {[SlotOf EXCEPT !.phase = "draining"], Nothing}
  BY DEF In
<1>2. Slot!Leave
  BY <1>1 DEF Slot!Leave, Slot!Empty, SlotOf, AskOf, Nothing
<1> QED
  BY <1>2 DEF SlotStep, Slot!SlotNext

LEMMA GoneStep ==
  ASSUME AskOf' = AskOf, SlotOf = In("draining"), SlotOf' = Nothing
  PROVE  SlotStep
<1>1. SlotOf.phase = "draining"
  BY DEF In
<1>2. Slot!Gone
  BY <1>1 DEF Slot!Gone, Slot!Empty, SlotOf, AskOf, Nothing
<1> QED
  BY <1>2 DEF SlotStep, Slot!SlotNext

--------------------------------------------------------------------------------
(* What the mapping is in the states that matter.                          *)

LEMMA SlotOfFacts ==
  /\ process # None => SlotOf = In(IF state = "failed" THEN "broken" ELSE state)
  /\ process = None /\ (\E p \in Proc : Live(p)) => SlotOf = In("draining")
  /\ process = None /\ (\A p \in Proc : ~Live(p)) => SlotOf = Nothing
  BY DEF SlotOf, In, Nothing

LEMMA HeldPhase ==
  ASSUME TypeOK, HeldInv, process # None
  PROVE  SlotOf \in {In("loading"), In("ready"), In("broken")}
<1>1. state \in {"loading", "ready", "failed"}
  BY DEF TypeOK, State, HeldInv
<1> QED
  BY <1>1, SlotOfFacts

LEMMA SlotKept ==
  ASSUME UNCHANGED <<process, state>>, \A p \in Proc : Live(p)' <=> Live(p)
  PROVE  SlotOf' = SlotOf
  BY DEF SlotOf

(* A task that is no caller, or that stays on its side of the lock.        *)
LEMMA AskKept ==
  ASSUME TypeOK, NEW t \in Task, NEW there, Goto(t, there),
         t \in Caller => (pc[t] \in InQueue <=> there \in InQueue)
  PROVE  AskOf' = AskOf
  BY TaskFacts DEF TypeOK, Goto, AskOf, InQueue

LEMMA AskBegins ==
  ASSUME TypeOK, NEW c \in Caller, pc[c] \notin InQueue, Enqueue(c)
  PROVE  AskOf[c] = None /\ AskOf' = [AskOf EXCEPT ![c] = "embedding"]
  BY TaskFacts DEF TypeOK, Enqueue, Goto, AskOf, InQueue

LEMMA AskEnds ==
  ASSUME TypeOK, NEW c \in Caller, pc[c] \in InQueue, NEW there \in Place \ InQueue, Goto(c, there)
  PROVE  AskOf[c] = "embedding" /\ AskOf' = [AskOf EXCEPT ![c] = None]
  BY TaskFacts DEF TypeOK, Goto, AskOf, InQueue

(* A stop that has begun, and one that had nothing to wait for.            *)
LEMMA TerminateStep ==
  ASSUME TypeOK, HeldInv, NEW t \in Task, NEW why \in {"stop", "fail"}, Terminate(t, why), pc[t] \in InQueue
  PROVE  SlotStep
<1>1. process # None /\ process' = None /\ Goto(t, why)
  BY DEF Terminate
<1>2. AskOf' = AskOf
  BY <1>1, AskKept, PlaceFacts DEF InQueue
<1>3. SlotOf' \in {In("draining"), Nothing}
  BY <1>1 DEF SlotOf, In, Nothing
<1> QED
  BY <1>1, <1>2, <1>3, HeldPhase, LeaveStep

LEMMA QuickStep ==
  ASSUME EmbedInv, HeldInv, StopIsQuick, victim = None, process' = None,
         \A p \in Proc : proc'[p].os = proc[p].os
  PROVE  SlotOf' = Nothing /\ (AskOf' = AskOf => SlotStep)
<1>1. \A p \in Proc : ~Live(p)
  BY EmbedProcs DEF EmbedInv, SlotInv, ProcInv, StopIsQuick, Live
<1>2. SlotOf' = Nothing
  BY <1>1 DEF SlotOf, Nothing, Live
<1>3. ASSUME AskOf' = AskOf PROVE SlotStep
  <2>1. CASE process # None
    BY <1>2, <1>3, <2>1, HeldPhase, LeaveStep DEF EmbedInv
  <2>2. CASE process = None
    BY <1>1, <1>2, <1>3, <2>2, SlotOfFacts DEF SlotStep
  <2> QED
    BY <2>1, <2>2
<1> QED
  BY <1>2, <1>3

(* The exit that was awaited changes nothing: the slot was empty before.   *)
LEMMA StoppedEmpty ==
  ASSUME EmbedInv, NEW t \in Task, NEW why \in {"stop", "fail"}, Stopped(t, why), process' = process,
         \A p \in Proc : proc'[p].os = proc[p].os
  PROVE  SlotOf = Nothing /\ SlotOf' = Nothing
<1>1. process = None /\ \A p \in Proc : ~Live(p)
  BY EmbedProcs DEF EmbedInv, SlotInv, ProcInv, Standing, Stopped, Live
<1> QED
  BY <1>1 DEF SlotOf, Nothing, Live

--------------------------------------------------------------------------------
(* Every step of the manager.                                              *)

LEMMA CallerMaps ==
  ASSUME EmbedInv, HeldInv, NEW c \in Caller, CallerStep(c)
  PROVE  SlotStep
<1>a. TypeOK /\ LockInv /\ SlotInv /\ c \in Task /\ None \notin Proc
  BY TaskFacts, EmbedProcs DEF EmbedInv
<1>b. Standing(pc[c])
  BY <1>a DEF SlotInv
<1>c. /\ {"spawn", "boot", "answered", "fail", "wait"} \subseteq InQueue
      /\ {"idle", "up"} \subseteq Place \ InQueue
  BY PlaceFacts DEF InQueue
<1>d. Granted(c) => pc[c] = "wait" /\ victim = None
  BY <1>a, AtTheGate DEF Granted
<1>1. CASE Polled(c)
  <2>1. pc[c] = "poll" /\ pc[c] \notin InQueue /\ SlotOf' = SlotOf
    BY <1>1, PlaceFacts, SlotKept DEF Polled, Live
  <2>2. CASE Goto(c, "up")
    BY <1>a, <1>c, <2>1, <2>2, AskKept DEF SlotStep
  <2>3. CASE Enqueue(c)
    BY <1>a, <2>1, <2>3, AskBegins, WantStep
  <2> QED
    BY <1>1, <2>2, <2>3 DEF Polled
<1>2. CASE AlreadyUp(c)
  <2>1. pc[c] = "wait" /\ Goto(c, "up") /\ process # None /\ state = "ready" /\ SlotOf' = SlotOf
    BY <1>2, <1>d, SlotKept DEF AlreadyUp, Up, Leave, Live
  <2>2. SlotOf = In("ready")
    BY <2>1, SlotOfFacts
  <2> QED
    BY <1>a, <1>c, <2>1, <2>2, AskEnds, GrantStep
<1>3. CASE BeginLaunch(c)
  <2>1. pc[c] = "wait" /\ Goto(c, "spawn") /\ victim = None /\ StopIsQuick /\ process' = None
    BY <1>3, <1>d DEF BeginLaunch
  <2>2. \A p \in Proc : proc'[p].os = proc[p].os
    BY <1>3, <1>a, UntailedFacts DEF BeginLaunch
  <2>3. AskOf' = AskOf
    BY <1>a, <1>c, <2>1, AskKept
  <2> QED
    BY <2>1, <2>2, <2>3, QuickStep
<1>4. ASSUME NEW p \in Proc, Spawn(c, p) PROVE SlotStep
  <2>1. pc[c] = "spawn" /\ process = None /\ victim = None /\ process' = p /\ state' = "loading" /\ Goto(c, "boot")
    BY <1>4, <1>b DEF Spawn, Standing
  <2>2. \A q \in Proc : ~Live(q)
    BY <1>a, <2>1 DEF SlotInv, ProcInv
  <2>3. SlotOf = Nothing
    BY <2>1, <2>2, SlotOfFacts
  <2>4. SlotOf' = In("loading")
    BY <1>a, <2>1 DEF SlotOf, In
  <2>5. AskOf' = AskOf /\ AskOf[c] = "embedding"
    BY <1>a, <1>c, <2>1, AskKept DEF AskOf, Inside
  <2> QED
    BY <2>3, <2>4, <2>5, LoadStep
<1>5. CASE SpawnFails(c)
  <2>1. pc[c] = "spawn" /\ process = None /\ victim = None /\ process' = None /\ proc' = proc /\ Goto(c, "idle")
    BY <1>5, <1>b DEF SpawnFails, Standing, Leave
  <2>2. \A q \in Proc : ~Live(q)
    BY <1>a, <2>1 DEF SlotInv, ProcInv
  <2>3. SlotOf = Nothing /\ SlotOf' = Nothing
    BY <2>1, <2>2 DEF SlotOf, Nothing, Live
  <2> QED
    BY <1>a, <1>c, <2>1, <2>3, AskEnds, RefuseStep
<1>6. CASE HealthAnswered(c)
  <2>1. SlotOf' = SlotOf /\ pc[c] = "boot" /\ Goto(c, "answered")
    BY <1>6, SlotKept DEF HealthAnswered, Live
  <2> QED
    BY <1>a, <1>c, <2>1, AskKept DEF SlotStep
<1>7. CASE BecomesReady(c)
  <2>1. /\ pc[c] = "answered" /\ process # None /\ state = "loading" /\ process' = process /\ state' = "ready"
        /\ Goto(c, "up")
    BY <1>7, <1>a, <1>b DEF BecomesReady, Standing, Leave
  <2>2. SlotOf = In("loading") /\ SlotOf' = In("ready")
    BY <2>1 DEF SlotOf, In
  <2> QED
    BY <1>a, <1>c, <2>1, <2>2, AskEnds, GrantStep
<1>8. CASE BootFails(c)
  <2>1. /\ pc[c] = "boot" /\ process # None /\ state = "loading" /\ victim = None /\ StopIsQuick
        /\ process' = None /\ Goto(c, "idle")
    BY <1>8, <1>a, <1>b DEF BootFails, Standing, Leave
  <2>2. \A p \in Proc : proc'[p].os = proc[p].os
    BY <1>8, <1>a, UntailedFacts DEF BootFails, Known
  <2>3. SlotOf = In("loading") /\ SlotOf' = Nothing
    BY <2>1, <2>2, SlotOfFacts, QuickStep
  <2> QED
    BY <1>a, <1>c, <2>1, <2>3, AskEnds, RefuseStep
<1>9. CASE BootTimesOut(c)
  BY <1>9, <1>a, <1>c, TerminateStep DEF BootTimesOut
<1>10. CASE FailStopped(c)
  <2>1. Stopped(c, "fail") /\ pc[c] = "fail" /\ process' = process /\ Goto(c, "idle")
    BY <1>10 DEF FailStopped, Stopped, Leave
  <2>2. \A p \in Proc : proc'[p].os = proc[p].os
    BY <1>10, <1>a, SaidFacts DEF FailStopped
  <2>3. SlotOf = Nothing /\ SlotOf' = Nothing
    BY <1>a, <2>1, <2>2, StoppedEmpty
  <2> QED
    BY <1>a, <1>c, <2>1, <2>3, AskEnds, RefuseStep
<1> QED
  BY <1>1, <1>2, <1>3, <1>4, <1>5, <1>6, <1>7, <1>8, <1>9, <1>10 DEF CallerStep

LEMMA StopMaps ==
  ASSUME EmbedInv, HeldInv, NEW t \in Evictor \cup Stopper, StopStep(t)
  PROVE  SlotStep
<1>a. TypeOK /\ LockInv /\ SlotInv /\ t \in Task /\ t \notin Caller
  BY TaskFacts DEF EmbedInv
<1>d. Granted(t) => pc[t] \in InQueue /\ victim = None
  BY <1>a, AtTheGate, PlaceFacts DEF Granted
<1>1. CASE StopAtOnce(t)
  <2>1. victim = None /\ StopIsQuick /\ process' = None /\ Goto(t, "idle")
    BY <1>1, <1>d DEF StopAtOnce, AfterStop, Leave
  <2>2. \A p \in Proc : proc'[p].os = proc[p].os
    BY <1>1, <1>a, UntailedFacts DEF StopAtOnce
  <2>3. AskOf' = AskOf
    BY <1>a, <2>1, AskKept
  <2> QED
    BY <2>1, <2>2, <2>3, QuickStep
<1>2. CASE BeginStop(t)
  BY <1>2, <1>a, <1>d, TerminateStep DEF BeginStop
<1>3. CASE EndStop(t)
  <2>1. Stopped(t, "stop") /\ process' = process /\ Goto(t, "idle")
    BY <1>3 DEF EndStop, AfterStop, Leave
  <2>2. \A p \in Proc : proc'[p].os = proc[p].os
    BY <1>3 , <1>a DEF EndStop, TypeOK
  <2>3. SlotOf = Nothing /\ SlotOf' = Nothing
    BY <1>a, <2>1, <2>2, StoppedEmpty
  <2>4. AskOf' = AskOf
    BY <1>a, <2>1, AskKept
  <2> QED
    BY <2>3, <2>4 DEF SlotStep
<1> QED
  BY <1>1, <1>2, <1>3 DEF StopStep

LEMMA WorldMaps ==
  ASSUME EmbedInv, HeldInv, NEW p \in Proc, WorldStep(p)
  PROVE  SlotStep
<1>a. TypeOK /\ SlotInv /\ None \notin Proc /\ process' = process /\ pc' = pc
  BY WorldFacts, EmbedProcs DEF EmbedInv
<1>b. AskOf' = AskOf
  BY <1>a DEF AskOf
<1>1. CASE state' = state
  <2>1. CASE process # None
    BY <1>1, <1>a, <1>b, <2>1 DEF SlotStep, SlotOf
  <2>2. CASE process = None
    <3>1. \A q \in Proc : Live(q)' => Live(q)
      BY <1>a, WorldFacts
    <3>2. CASE \E q \in Proc : Live(q)'
      BY <1>a, <1>b, <2>2, <3>1, <3>2 DEF SlotStep, SlotOf
    <3>3. CASE \A q \in Proc : ~Live(q)'
      <4>1. SlotOf' = Nothing
        BY <1>a, <2>2, <3>3 DEF SlotOf, Nothing
      <4>2. SlotOf \in {In("draining"), Nothing}
        BY <2>2, SlotOfFacts
      <4> QED
        BY <1>b, <4>1, <4>2, GoneStep DEF SlotStep
    <3> QED
      BY <3>2, <3>3
  <2> QED
    BY <2>1, <2>2
<1>2. CASE state' # state
  <2>1. state = "ready" /\ state' = "failed" /\ process = p
    BY <1>2, <1>a, WorldFacts DEF SlotInv, ProcInv
  <2>2. SlotOf = In("ready") /\ SlotOf' = In("broken")
    BY <1>a, <2>1 DEF SlotOf, In
  <2> QED
    BY <1>b, <2>2, CrashStep
<1> QED
  BY <1>1, <1>2

LEMMA NextMaps ==
  ASSUME EmbedInv, HeldInv, [Next]_embedVars
  PROVE  SlotStep
<1>a. TypeOK
  BY DEF EmbedInv
<1>b. ASSUME UNCHANGED <<process, state, proc>> PROVE SlotOf' = SlotOf
  BY <1>b, SlotKept DEF Live
<1>1. ASSUME NEW c \in Caller, EnsureRunning(c) \/ RestartLoading(c) \/ EndCall(c) PROVE SlotStep
  <2>1. pc[c] \notin InQueue /\ c \in Task /\ SlotOf' = SlotOf
    BY <1>1, <1>b, TaskFacts, PlaceFacts DEF EnsureRunning, RestartLoading, EndCall
  <2>2. ASSUME NEW there \in {"up", "poll", "idle"}, Goto(c, there) PROVE SlotStep
    <3>1. there \notin InQueue
      BY PlaceFacts
    <3> QED
      BY <1>a, <2>1, <2>2, <3>1, AskKept DEF SlotStep
  <2>3. CASE Enqueue(c)
    BY <1>a, <2>1, <2>3, AskBegins, WantStep
  <2> QED
    BY <1>1, <2>2, <2>3 DEF EnsureRunning, RestartLoading, EndCall
<1>2. ASSUME NEW t \in Evictor \cup Stopper, AskStop(t) PROVE SlotStep
  <2>1. t \in Task /\ t \notin Caller /\ Goto(t, "wait") /\ SlotOf' = SlotOf
    BY <1>2, <1>b, TaskFacts DEF AskStop, Enqueue
  <2> QED
    BY <1>a, <2>1, AskKept DEF SlotStep
<1>3. ASSUME NEW t \in Task, Kill(t) PROVE SlotStep
  <2>1. \A p \in Proc : proc'[p].os = proc[p].os
    BY <1>3, <1>a DEF Kill, TypeOK
  <2>2. SlotOf' = SlotOf /\ AskOf' = AskOf
    BY <1>3, <2>1, SlotKept DEF Kill, Live, AskOf
  <2> QED
    BY <2>2 DEF SlotStep
<1>4. CASE UNCHANGED embedVars
  BY <1>4, <1>b DEF embedVars, AskOf, SlotStep
<1> QED
  BY <1>1, <1>2, <1>3, <1>4, CallerMaps, StopMaps, WorldMaps DEF Next, WorldStep

LEMMA InitMaps == Init => Slot!SlotInit
<1> SUFFICES ASSUME Init PROVE Slot!SlotInit
  OBVIOUS
<1>1. AskOf = [c \in Caller |-> None]
  BY TaskFacts DEF Init, AskOf, Inside
<1>2. SlotOf = Nothing
  BY DEF Init, SlotOf, Nothing, Live, Unborn
<1> QED
  BY <1>1, <1>2 DEF Slot!SlotInit, Slot!Empty, SlotOf, AskOf, Nothing

(* The embedding manager keeps the promise every manager makes: its slot is*)
(* empty before it takes the server again, and who waits under the lock is *)
(* granted it only while it is ready.                                      *)
THEOREM EmbeddingManagerIsASlot == Spec => ImplementsSlot
<1>1. Init => EmbedInv /\ HeldInv
  BY InitInv DEF Init, HeldInv
<1>2. EmbedInv /\ HeldInv /\ [Next]_embedVars => EmbedInv' /\ HeldInv' /\ [Slot!SlotNext]_(Slot!slotVars)
  BY NextType, NextLock, NextSlot, NextHeld, NextMaps DEF EmbedInv, SlotStep, Slot!slotVars, SlotOf, AskOf
<1> QED
  BY <1>1, <1>2, InitMaps, PTL DEF Spec, ImplementsSlot, Slot!SlotSafety
================================================================================
