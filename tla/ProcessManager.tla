---------------------------- MODULE ProcessManager ----------------------------
(***************************************************************************)
(* app/process_manager.py: the manager of the one chat-LLM subprocess, at  *)
(* the granularity of the event loop: an action is the code a task runs    *)
(* between two awaits.  Tasks are the requests that call ensure_model, one *)
(* caller of unload, the idle watcher and shutdown; around them the        *)
(* subprocess exits when it likes, the loop learns of it later, and        *)
(* clients talk to whatever listens on the chat port.                      *)
(***************************************************************************)
EXTENDS Naturals, Sequences

CONSTANTS
  Model,       \* the registry's chat models
  Request,     \* the request tasks that call ensure_model
  Proc,        \* identities of subprocesses; one is used again once forgotten
  Unloader,    \* the task of POST /v1/models/unload
  Watcher,     \* the idle watcher
  Closer,      \* the task that runs shutdown
  None,
  Structured,  \* the models that declare command.config_json
  Window,      \* Window[m]: the idle threshold in force for m, 0 for never
  MaxAge,      \* bound: the idle clock saturates here
  MaxPin,      \* bound: the longest X-Pin-Seconds
  SignalRace   \* whether signalling a process the loop does not know to be
               \* dead may raise ProcessLookupError (asyncio leaves it open)

Task == Request \cup {Unloader, Watcher, Closer}

ASSUME ModelAssumption == None \notin Model /\ Structured \subseteq Model
ASSUME TaskAssumption ==
  /\ Unloader # Watcher /\ Unloader # Closer /\ Watcher # Closer
  /\ Request \cap {Unloader, Watcher, Closer} = {}
ASSUME ProcAssumption == None \notin Proc
ASSUME ClockAssumption ==
  /\ MaxAge \in Nat /\ MaxPin \in Nat /\ SignalRace \in BOOLEAN
  /\ Window \in [Model -> 0..MaxAge]

VARIABLES
  lockq,     \* asyncio.Lock: its holder followed by its waiters, oldest first
  pc,        \* where each task is suspended
  want,      \* want[r]: the model request r asked for
  current,   \* _current: the process of the current entry, or None
  proc,      \* the subprocesses and their RunningModel entries
  victim,    \* the process whose exit _stop_current awaits, or None
  wasReady,  \* _stop_current's was_ready
  files,     \* the models whose rendered config file is on disk
  age,       \* now - _last_activity
  pin,       \* what is left of _pinned_until
  limit,     \* the threshold the watcher computed before it asked for the lock
  upstream   \* upstream[r]: the process that answers request r

vars == <<lockq, pc, want, current, proc, victim, wasReady, files, age, pin,
          limit, upstream>>

Waiting  == "wait"
Stopping == {"swap", "fail", "stop"}   \* suspended inside _stop_current
Locked   == Stopping \cup {"spawn", "boot", "answered"}
Place    == {"idle", "sleep", "cancelled", "down", Waiting, "route", "stream"} \cup Locked

(* entry: ModelState; os: the process, "reaped" once returncode is set;    *)
(* sig: the last signal sent; tail: _tail still runs; said: its events     *)
Unborn == [model |-> None, entry |-> "none", os |-> "none", code |-> "clean",
           sig |-> "none", tail |-> FALSE, said |-> "none"]

ProcType ==
  [model : Model \cup {None}, entry : {"none", "loading", "ready", "failed"},
   os : {"none", "booting", "serving", "exited", "reaped"},
   code : {"clean", "crash"}, sig : {"none", "term", "kill"},
   tail : BOOLEAN, said : {"none", "loaded", "failed", "unloaded"}]

Live(p) == proc[p].os \in {"booting", "serving"}
Dead(p) == proc[p].os \in {"exited", "reaped"}

TypeOK ==
  /\ lockq \in Seq(Task)
  /\ pc \in [Task -> Place]
  /\ want \in [Request -> Model \cup {None}]
  /\ current \in Proc \cup {None}
  /\ proc \in [Proc -> ProcType]
  /\ victim \in Proc \cup {None}
  /\ wasReady \in BOOLEAN
  /\ files \subseteq Model
  /\ age \in 0..MaxAge /\ pin \in 0..MaxPin /\ limit \in 0..MaxAge
  /\ upstream \in [Request -> Proc \cup {None}]

Init ==
  /\ lockq = <<>>
  /\ pc = [t \in Task |-> IF t = Watcher THEN "sleep" ELSE "idle"]
  /\ want = [r \in Request |-> None]
  /\ current = None
  /\ proc = [p \in Proc |-> Unborn]
  /\ victim = None /\ wasReady = FALSE
  /\ files = {}
  /\ age = 0 /\ pin = 0 /\ limit = 0
  /\ upstream = [r \in Request |-> None]

Goto(t, there) == pc' = [pc EXCEPT ![t] = there]

--------------------------------------------------------------------------------
(* The lock is granted in the order it was asked for.                      *)

Enqueue(t) == lockq' = Append(lockq, t) /\ Goto(t, Waiting)
Holds(t)   == lockq # <<>> /\ Head(lockq) = t
(* Mutant: the lock is not held while a stopped process is waited for.     *)
GrantedDuringStop(t) == pc[t] = Waiting /\ (Holds(t) \/ pc[Head(lockq)] \in Stopping)
Granted(t) == Holds(t) /\ pc[t] = Waiting
Leave(t, there) == lockq' = Tail(lockq) /\ Goto(t, there)

--------------------------------------------------------------------------------
(* _stop_current: forget the entry first, then wait for its process.       *)

ConfigOf(m) == {m} \cap Structured

(* Mutant: only a READY entry is thought to have a process worth stopping. *)
QuickUnlessReady ==
  {f \in {files} : current = None}
  \cup {files \ ConfigOf(proc[p].model) : p \in {q \in Proc : q = current /\ proc[q].entry # "ready"}}

(* What is left of files when the call needs no waiting: there is nothing  *)
(* to stop, the process is known to be dead, or the signal finds no one.   *)
QuickStops ==
  {f \in {files} : current = None}
  \cup {files \ ConfigOf(proc[p].model) : p \in {q \in Proc : q = current /\ proc[q].os = "reaped"}}
  \cup {f \in {files} : SignalRace /\ current # None /\ proc[current].os = "exited"}

(* Mutant: the entry of a process that is being stopped is already STOPPED.*)
TerminateMarkingEntry(t, why) ==
  /\ current # None
  /\ proc[current].os # "reaped"
  /\ victim' = current
  /\ wasReady' = (proc[current].entry = "ready")
  /\ proc' = [proc EXCEPT ![current].sig = "term", ![current].entry = "stopped"]
  /\ current' = None
  /\ Goto(t, why)

(* Otherwise SIGTERM is sent and the task is suspended until the exit.     *)
Terminate(t, why) ==
  /\ current # None
  /\ proc[current].os # "reaped"
  /\ victim' = current
  /\ wasReady' = (proc[current].entry = "ready")
  /\ proc' = [proc EXCEPT ![current].sig = "term"]
  /\ current' = None
  /\ Goto(t, why)

(* Mutant: only unload insists on the exit.                                *)
KillOnUnloadOnly(t) ==
  /\ t = Unloader /\ pc[t] = "stop"
  /\ proc[victim].sig = "term" /\ proc[victim].os # "reaped"
  /\ proc' = [proc EXCEPT ![victim].sig = "kill"]
  /\ UNCHANGED <<lockq, pc, want, current, victim, wasReady, files, age, pin, limit, upstream>>

(* stop_timeout has passed: SIGKILL, and wait again without a limit.       *)
Kill(t) ==
  /\ pc[t] \in Stopping
  /\ proc[victim].sig = "term" /\ proc[victim].os # "reaped"
  /\ proc' = [proc EXCEPT ![victim].sig = "kill"]
  /\ UNCHANGED <<lockq, pc, want, current, victim, wasReady, files, age, pin, limit, upstream>>

(* Mutant: the exit is not awaited again after SIGKILL.                    *)
StoppedOnceKilled(t, why) ==
  /\ pc[t] = why
  /\ proc[victim].os = "reaped" \/ proc[victim].sig = "kill"
  /\ victim' = None /\ wasReady' = FALSE

(* The end of a stop that waited: remove the file, announce the unload.    *)
Stopped(t, why) ==
  /\ pc[t] = why
  /\ proc[victim].os = "reaped"
  /\ victim' = None /\ wasReady' = FALSE

FilesAfterStop == files \ ConfigOf(proc[victim].model)
SaidAfterStop  == IF wasReady THEN "unloaded" ELSE proc[victim].said

--------------------------------------------------------------------------------
(* ensure_model and _launch, and the call the request makes afterwards.    *)

Open == pc[Closer] = "idle"

Ask(r, m) ==
  /\ Open /\ pc[r] = "idle"
  /\ want' = [want EXCEPT ![r] = m]
  /\ Enqueue(r)
  /\ UNCHANGED <<current, proc, victim, wasReady, files, age, pin, limit, upstream>>

(* The handler ends: its locals are gone with it.                          *)
Answer(r) == want' = [want EXCEPT ![r] = None]

(* Mutant: the name alone decides, whatever became of the process.         *)
LoadedByName(m) == current # None /\ proc[current].model = m

Loaded(m) == current # None /\ proc[current].model = m /\ proc[current].entry = "ready"

(* ensure_model returns; X-Pin-Seconds, if any, is applied on the spot.    *)
Return(r) ==
  /\ Leave(r, "route")
  /\ \E s \in 0..MaxPin : pin' = IF s > 0 THEN s ELSE pin

Reuse(r) ==
  /\ Granted(r) /\ Loaded(want[r])
  /\ age' = 0
  /\ Return(r)
  /\ UNCHANGED <<want, current, proc, victim, wasReady, files, limit, upstream>>

BeginSwap(r) ==
  /\ Granted(r) /\ ~Loaded(want[r])
  /\ age' = 0
  /\ Terminate(r, "swap")
  /\ UNCHANGED <<lockq, want, files, pin, limit, upstream>>

(* Mutant: the new config is rendered first, the old one removed after.    *)
LaunchRendersFirst(r) ==
  /\ Granted(r) /\ ~Loaded(want[r]) /\ QuickStops # {}
  /\ age' = 0
  /\ files' = (files \cup ConfigOf(want[r]))
               \ UNION {ConfigOf(proc[p].model) : p \in {current} \ {None}}
  /\ current' = None
  /\ Goto(r, "spawn")
  /\ UNCHANGED <<lockq, want, proc, victim, wasReady, pin, limit, upstream>>

(* The slot is, or at once becomes, free: render the config and spawn.     *)
BeginLaunch(r) ==
  /\ Granted(r) /\ ~Loaded(want[r])
  /\ age' = 0
  /\ \E left \in QuickStops : files' = left \cup ConfigOf(want[r])
  /\ current' = None
  /\ Goto(r, "spawn")
  /\ UNCHANGED <<lockq, want, proc, victim, wasReady, pin, limit, upstream>>

SwapStopped(r) ==
  /\ Stopped(r, "swap")
  /\ files' = FilesAfterStop \cup ConfigOf(want[r])
  /\ proc' = [proc EXCEPT ![victim].said = SaidAfterStop]
  /\ Goto(r, "spawn")
  /\ UNCHANGED <<lockq, want, current, age, pin, limit, upstream>>

Spawn(r, p) ==
  /\ pc[r] = "spawn" /\ proc[p] = Unborn
  /\ proc' = [proc EXCEPT ![p] = [Unborn EXCEPT !.model = want[r], !.entry = "loading",
                                               !.os = "booting", !.tail = TRUE]]
  /\ current' = p
  /\ Goto(r, "boot")
  /\ UNCHANGED <<lockq, want, victim, wasReady, files, age, pin, limit, upstream>>

SpawnFails(r) ==
  /\ pc[r] = "spawn"
  /\ files' = files \ ConfigOf(want[r])
  /\ Leave(r, "idle") /\ Answer(r)
  /\ UNCHANGED <<current, proc, victim, wasReady, age, pin, limit, upstream>>

(* The health request is answered; the task reads the answer later.        *)
HealthAnswered(r) ==
  /\ pc[r] = "boot" /\ proc[current].os = "serving"
  /\ Goto(r, "answered")
  /\ UNCHANGED <<lockq, want, current, proc, victim, wasReady, files, age, pin, limit, upstream>>

BecomesReady(r) ==
  /\ pc[r] = "answered"
  /\ proc' = [proc EXCEPT ![current].entry = "ready", ![current].said = "loaded"]
  /\ Return(r)
  /\ UNCHANGED <<want, current, victim, wasReady, files, age, limit, upstream>>

(* The process died, or the startup deadline passed.                       *)
BootFails(r) ==
  /\ pc[r] = "boot"
  /\ \E left \in QuickStops : files' = left
  /\ proc' = [proc EXCEPT ![current].said = "failed"]
  /\ current' = None
  /\ Leave(r, "idle") /\ Answer(r)
  /\ UNCHANGED <<victim, wasReady, age, pin, limit, upstream>>

BootTimesOut(r) ==
  /\ pc[r] = "boot"
  /\ Terminate(r, "fail")
  /\ UNCHANGED <<lockq, want, files, age, pin, limit, upstream>>

FailStopped(r) ==
  /\ Stopped(r, "fail")
  /\ files' = FilesAfterStop
  /\ proc' = [proc EXCEPT ![victim].said = "failed"]
  /\ Leave(r, "idle") /\ Answer(r)
  /\ UNCHANGED <<current, age, pin, limit, upstream>>

(* The proxied call reaches whatever listens on the chat port, if anything.*)
Connect(r, p) ==
  /\ pc[r] = "route" /\ proc[p].os = "serving"
  /\ upstream' = [upstream EXCEPT ![r] = p]
  /\ Goto(r, "stream")
  /\ UNCHANGED <<lockq, want, current, proc, victim, wasReady, files, age, pin, limit>>

(* No connection; or the answer ends, or breaks off because the process did.*)
EndCall(r) ==
  /\ \/ pc[r] = "route" /\ \A p \in Proc : proc[p].os # "serving"
     \/ pc[r] = "stream"
  /\ upstream' = [upstream EXCEPT ![r] = None]
  /\ Goto(r, "idle") /\ Answer(r)
  /\ UNCHANGED <<lockq, current, proc, victim, wasReady, files, age, pin, limit>>

--------------------------------------------------------------------------------
(* unload, the idle watcher and shutdown: the tasks that only stop.        *)

AskUnload ==
  /\ Open /\ pc[Unloader] = "idle"
  /\ Enqueue(Unloader)
  /\ UNCHANGED <<want, current, proc, victim, wasReady, files, age, pin, limit, upstream>>

(* The watcher wakes: not pinned, and idle past the current model's window.*)
IdleCheck ==
  /\ pc[Watcher] = "sleep" /\ current # None /\ pin = 0
  /\ limit' = Window[proc[current].model]
  /\ limit' > 0 /\ age >= limit'
  /\ Enqueue(Watcher)
  /\ UNCHANGED <<want, current, proc, victim, wasReady, files, age, pin, upstream>>

StillIdle == current # None /\ proc[current].entry = "ready" /\ age >= limit

WatcherSkips ==
  /\ Granted(Watcher) /\ ~StillIdle
  /\ Leave(Watcher, "sleep") /\ limit' = 0
  /\ UNCHANGED <<want, current, proc, victim, wasReady, files, age, pin, upstream>>

Stopper == {Unloader, Watcher, Closer}

(* Back to where the task rests; the watcher's threshold was a local.      *)
Rest(t) == CASE t = Unloader -> "idle" [] t = Watcher -> "sleep" [] t = Closer -> "down"
Retire(t) == Leave(t, Rest(t)) /\ limit' = IF t = Watcher THEN 0 ELSE limit

StopAtOnce(t) ==
  /\ Granted(t) /\ (t = Watcher => StillIdle)
  /\ files' \in QuickStops
  /\ current' = None
  /\ Retire(t)
  /\ UNCHANGED <<want, proc, victim, wasReady, age, pin, upstream>>

BeginStop(t) ==
  /\ Granted(t) /\ (t = Watcher => StillIdle)
  /\ Terminate(t, "stop")
  /\ UNCHANGED <<lockq, want, files, age, pin, limit, upstream>>

EndStop(t) ==
  /\ Stopped(t, "stop")
  /\ files' = FilesAfterStop
  /\ proc' = [proc EXCEPT ![victim].said = SaidAfterStop]
  /\ Retire(t)
  /\ UNCHANGED <<want, current, age, pin, upstream>>

(* Requests are drained before the lifespan ends.  The watcher is cancelled*)
(* where it stands, even inside _stop_current, whose victim nobody awaits  *)
(* any more; then shutdown asks for the lock.                              *)
BeginShutdown ==
  /\ Open /\ \A t \in Request \cup {Unloader} : pc[t] = "idle"
  /\ lockq' = <<Closer>>
  /\ pc' = [pc EXCEPT ![Watcher] = "cancelled", ![Closer] = Waiting]
  /\ victim' = None /\ wasReady' = FALSE /\ limit' = 0
  /\ UNCHANGED <<want, current, proc, files, age, pin, upstream>>

--------------------------------------------------------------------------------
(* The subprocess and the loop's knowledge of it; the clock.               *)

Serves(p) ==
  /\ proc[p].os = "booting"
  /\ proc' = [proc EXCEPT ![p].os = "serving"]
  /\ UNCHANGED <<lockq, pc, want, current, victim, wasReady, files, age, pin, limit, upstream>>

Exits(p) ==
  /\ Live(p)
  /\ \E c \in {"clean", "crash"} : proc' = [proc EXCEPT ![p].os = "exited", ![p].code = c]
  /\ UNCHANGED <<lockq, pc, want, current, victim, wasReady, files, age, pin, limit, upstream>>

Reaped(p) ==
  /\ proc[p].os = "exited"
  /\ proc' = [proc EXCEPT ![p].os = "reaped"]
  /\ UNCHANGED <<lockq, pc, want, current, victim, wasReady, files, age, pin, limit, upstream>>

(* Mutants: _tail announces the crash of a READY process as a failed load; *)
(* or it fails the entry whatever its state.                               *)
TailAnnounces(p) ==
  /\ proc[p].os = "reaped" /\ proc[p].tail
  /\ LET crashed == proc[p].entry = "ready" /\ proc[p].code = "crash" IN
     proc' = [proc EXCEPT ![p].tail = FALSE,
                ![p].entry = IF crashed THEN "failed" ELSE @, ![p].said = IF crashed THEN "failed" ELSE @]
  /\ UNCHANGED <<lockq, pc, want, current, victim, wasReady, files, age, pin, limit, upstream>>

TailFailsAny(p) ==
  /\ proc[p].os = "reaped" /\ proc[p].tail
  /\ proc' = [proc EXCEPT ![p].tail = FALSE, ![p].entry = IF proc[p].code = "crash" THEN "failed" ELSE @]
  /\ UNCHANGED <<lockq, pc, want, current, victim, wasReady, files, age, pin, limit, upstream>>

(* _tail resumes: a READY entry whose process did not exit cleanly failed. *)
TailEnds(p) ==
  /\ proc[p].os = "reaped" /\ proc[p].tail
  /\ proc' = [proc EXCEPT ![p].tail = FALSE,
                ![p].entry = IF @ = "ready" /\ proc[p].code = "crash" THEN "failed" ELSE @]
  /\ UNCHANGED <<lockq, pc, want, current, victim, wasReady, files, age, pin, limit, upstream>>

(* Nothing refers to a dead process any more: its identity is free again.  *)
Forgotten(p) ==
  /\ proc[p].os = "reaped" /\ ~proc[p].tail
  /\ p \notin {current, victim} /\ \A r \in Request : upstream[r] # p
  /\ proc' = [proc EXCEPT ![p] = Unborn]
  /\ UNCHANGED <<lockq, pc, want, current, victim, wasReady, files, age, pin, limit, upstream>>

(* Mutant: a pin never runs out.                                           *)
TickPinStays ==
  /\ age < MaxAge /\ age' = age + 1
  /\ UNCHANGED <<lockq, pc, want, current, proc, victim, wasReady, files, pin, limit, upstream>>

Tick ==
  /\ age < MaxAge \/ pin > 0
  /\ age' = IF age < MaxAge THEN age + 1 ELSE age
  /\ pin' = IF pin > 0 THEN pin - 1 ELSE pin
  /\ UNCHANGED <<lockq, pc, want, current, proc, victim, wasReady, files, limit, upstream>>

(* The gateway has shut down.                                              *)
Over == pc[Closer] = "down" /\ UNCHANGED vars

--------------------------------------------------------------------------------
RequestStep(r) ==
  \/ Reuse(r) \/ BeginSwap(r) \/ BeginLaunch(r) \/ SwapStopped(r)
  \/ (\E p \in Proc : Spawn(r, p)) \/ SpawnFails(r)
  \/ HealthAnswered(r) \/ BecomesReady(r)
  \/ BootFails(r) \/ BootTimesOut(r) \/ FailStopped(r)

StopperStep(t) == StopAtOnce(t) \/ BeginStop(t) \/ EndStop(t)

ProcStep(p) == Reaped(p) \/ TailEnds(p) \/ Forgotten(p)

Next ==
  \/ \E r \in Request : (\E m \in Model : Ask(r, m)) \/ RequestStep(r) \/ EndCall(r)
                         \/ (\E p \in Proc : Connect(r, p))
  \/ \E t \in Task : Kill(t)
  \/ \E t \in Stopper : StopperStep(t)
  \/ AskUnload \/ IdleCheck \/ WatcherSkips \/ BeginShutdown
  \/ \E p \in Proc : Serves(p) \/ Exits(p) \/ ProcStep(p)
  \/ Tick \/ Over

Spec == Init /\ [][Next]_vars

(* The event loop runs every task that can run and reports every exit; the *)
(* clock advances; SIGKILL is obeyed.  Nothing is assumed of clients, of   *)
(* how long a call lasts, or of a process that is not killed.              *)
Fairness ==
  /\ \A r \in Request : WF_vars(RequestStep(r))
  /\ \A t \in Task : WF_vars(Kill(t))
  /\ \A t \in Stopper : WF_vars(StopperStep(t))
  /\ WF_vars(WatcherSkips) /\ WF_vars(IdleCheck) /\ WF_vars(Tick)
  /\ \A p \in Proc : WF_vars(ProcStep(p)) /\ WF_vars(proc[p].sig = "kill" /\ Exits(p))

FairSpec == Spec /\ Fairness

--------------------------------------------------------------------------------
(***************************************************************************)
(* Properties.                                                             *)
(***************************************************************************)

(* "Only one model is loaded at a time": two chat processes are never      *)
(* alive together, not even while one is being replaced by the other.      *)
OneServer == \A p, q \in Proc : Live(p) /\ Live(q) => p = q

(* Until shutdown begins, a living process is the current one or the one   *)
(* whose exit the holder of the lock awaits: _stop_current forgets its     *)
(* entry first, and still never loses the process.  Shutdown may interrupt *)
(* that, but a process it then leaves behind has been told to end.         *)
NoStrayProcess ==
  \A p \in Proc : Live(p) =>
    \/ p = current /\ pc[Closer] # "down"
    \/ p = victim /\ lockq # <<>> /\ pc[Head(lockq)] \in Stopping
    \/ ~Open /\ proc[p].sig # "none"

(* The rendered config files on disk are exactly those of the current      *)
(* backend, of the one being stopped and of the one being spawned: no stop,*)
(* failed spawn or failed load leaves a profile behind, and none removes   *)
(* the profile of the backend that replaced it.                            *)
FilesMatch ==
  Open => files = Structured \cap
            (  {proc[p].model : p \in {current, victim} \ {None}}
             \cup {want[r] : r \in {q \in Request : pc[q] = "spawn"}})

(* A second look at the lock and at the slot, as the proofs need them: the *)
(* queue holds each task once, whoever is inside a locked section is at its*)
(* head, and nobody outside is waited for.                                 *)
LockInv ==
  /\ \A i, j \in DOMAIN lockq : lockq[i] = lockq[j] => i = j
  /\ \A i \in DOMAIN lockq : pc[lockq[i]] \in Locked \cup {Waiting}
  /\ \A t \in Task : pc[t] \in Locked => Holds(t)

(* Where the holder stands and what is in the slot agree.                  *)
SlotInv ==
  /\ \A t \in Task : pc[t] \in Stopping => victim # None /\ current = None
  /\ \A r \in Request : pc[r] = "spawn" => victim = None /\ current = None
  /\ \A r \in Request : pc[r] \in {"boot", "answered"} =>
       /\ current # None /\ victim = None
       /\ proc[current].model = want[r]
  /\ victim # None => lockq # <<>> /\ pc[Head(lockq)] \in Stopping
  /\ \A t \in Stopper : pc[t] \in Locked => pc[t] = "stop"
  /\ ~Open => \A r \in Request : pc[r] = "idle"
  /\ Open => \A p \in Proc : Live(p) => p \in {current, victim}

(* The invariant of the code as a whole, from which OneServer follows.     *)
ManagerInv == LockInv /\ SlotInv

(* ensure_model returns to r only when the current entry is READY and of   *)
(* the model r asked for: never one that is loading, failed, or swapped in *)
(* for another request while r waited.                                     *)
EnsureDelivers ==
  [][\A r \in Request : pc[r] # "route" /\ pc'[r] = "route" =>
       /\ current' # None
       /\ proc'[current'].entry = "ready" /\ proc'[current'].model = want'[r]]_vars

(* What the event stream says of a launch is one story: model_loaded or    *)
(* load_failed, once; model_unloaded only after model_loaded, once.        *)
EventsInOrder ==
  [][\A p \in Proc : proc'[p] # Unborn /\ proc'[p].said # proc[p].said =>
       <<proc[p].said, proc'[p].said>> \in
         {<<"none", "loaded">>, <<"none", "failed">>, <<"loaded", "unloaded">>}]_vars

(* Every caller of ensure_model gets its turn and an answer, however many  *)
(* swaps are queued before it and whether or not the processes obey        *)
(* SIGTERM or ever become healthy.                                         *)
EveryCallerIsAnswered ==
  \A r \in Request : pc[r] = Waiting ~> pc[r] \in {"route", "idle"}

(* A loaded model with an idle window is not kept for ever: unless someone *)
(* asks for the lock, it is stopped once the window and any pin are over.  *)
IdleModelIsUnloaded ==
  \A p \in Proc :
    current = p /\ proc[p].entry = "ready" /\ Window[proc[p].model] > 0
      ~> current # p \/ proc[p].entry # "ready"
         \/ \E t \in Request \cup {Unloader, Closer} : pc[t] = Waiting

(* shutdown comes to its end, whatever it interrupts.                      *)
ShutdownEnds == pc[Closer] = Waiting ~> pc[Closer] = "down"

(* The manager is a ModelSlot: its slot is loading, ready or broken with   *)
(* the current entry, and draining for as long as a process that is no     *)
(* longer current is alive.                                                *)
Slot == INSTANCE ModelSlot WITH
  slot <- IF current # None
            THEN [phase |-> IF proc[current].entry = "failed" THEN "broken" ELSE proc[current].entry,
                  model |-> proc[current].model]
          ELSE IF \E p \in Proc : Live(p)
            THEN [phase |-> "draining", model |-> proc[CHOOSE p \in Proc : Live(p)].model]
          ELSE [phase |-> "empty", model |-> None],
  ask <- [r \in Request |-> IF pc[r] = Waiting \/ pc[r] \in Locked THEN want[r] ELSE None]

ImplementsSlot == Slot!SlotSafety

--------------------------------------------------------------------------------
(***************************************************************************)
(* What the repository says and the code does not do.                      *)
(***************************************************************************)

(* ensure_model: "Make sure `name` is the loaded model."  It does not hand *)
(* out an entry whose process is dead and whose _tail, having seen the     *)
(* exit code, is over: nothing would ever take that entry away.            *)
EnsureMeansAlive ==
  [][\A r \in Request : pc[r] = Waiting /\ pc'[r] = "route" =>
       proc'[current'].os # "reaped" \/ proc'[current'].tail]_vars

(* README: a server is shut down after idle_unload_seconds "with no        *)
(* requests".  The process the watcher stops is answering no request.      *)
IdleMeansNoRequests ==
  [][pc[Watcher] # "stop" /\ pc'[Watcher] = "stop" =>
       \A r \in Request : upstream[r] # victim']_vars
================================================================================
