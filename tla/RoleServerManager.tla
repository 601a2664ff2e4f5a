--------------------------- MODULE RoleServerManager ---------------------------
(***************************************************************************)
(* app/server_manager.py: the manager of one role (tts, asr, image, music),*)
(* under a registry that is reloaded while it runs.  An action is the code *)
(* a task runs between two awaits.  The manager is the chat manager's      *)
(* younger brother: a caller looks its config up before it asks for the    *)
(* lock, the watcher knows one window only, and a stop that finds the      *)
(* process dead removes its file, too.                                     *)
(***************************************************************************)
EXTENDS Naturals, Sequences

CONSTANTS
  Model,       \* the names the role's models have
  Request,     \* the tasks that call ensure_model
  Proc,        \* identities of subprocesses; one is used again once forgotten
  Unloader,    \* the task of an eviction, an unload or a reset
  Watcher,     \* the idle watcher
  Closer,      \* the task that runs shutdown
  None,
  Structured,  \* the models that declare command.config_json
  Window,      \* the role's idle window, 0 for none
  MaxAge,      \* bound: the idle clock saturates here
  MaxPin       \* bound: the longest X-Pin-Seconds

Stopper == {Unloader, Watcher, Closer}
Task == Request \cup Stopper

ASSUME RoleModels == None \notin Model /\ Structured \subseteq Model
ASSUME RoleTasks ==
  /\ Unloader # Watcher /\ Unloader # Closer /\ Watcher # Closer
  /\ Request \cap Stopper = {}
ASSUME RoleClock == None \notin Proc /\ MaxAge \in Nat /\ Window \in 0..MaxAge /\ MaxPin \in Nat

VARIABLES
  registry,  \* the role's models in the registry
  lockq,     \* asyncio.Lock: its holder followed by its waiters, oldest first
  pc,        \* where each task is suspended
  want,      \* want[r]: the model whose config request r looked up, or None
  current,   \* _current: a _RunningServer, or None
  victim,    \* the entry whose process' exit _stop_current awaits, or None
  killed,    \* whether that process has been sent SIGKILL
  proc,      \* the subprocesses; "reaped" once returncode is set
  files,     \* the models whose rendered config file is on disk
  age,       \* now - _last_activity
  pin        \* what is left of _pinned_until

roleVars == <<registry, lockq, pc, want, current, victim, killed, proc, files, age, pin>>

Stopping == {"swap", "fail", "stop"}   \* suspended inside _stop_current
Locked   == Stopping \cup {"spawn", "boot", "healthy"}
Place    == {"idle", "sleep", "cancelled", "down", "wait"} \cup Locked

(* An entry: its model and process, its ServerState, and whether           *)
(* _tail_stderr still runs.  One that is no longer current nobody looks at *)
(* any more, so what becomes of its state is left out.                     *)
Entry == [model : Model, proc : Proc, state : {"loading", "ready", "failed"}, tail : BOOLEAN]

ASSUME RoleNone == None \notin Entry

Live(p) == proc[p] \in {"booting", "serving"}

TypeOK ==
  /\ registry \subseteq Model
  /\ lockq \in Seq(Task) /\ pc \in [Task -> Place]
  /\ want \in [Request -> Model \cup {None}]
  /\ current \in Entry \cup {None} /\ victim \in Entry \cup {None} /\ killed \in BOOLEAN
  /\ proc \in [Proc -> {"unborn", "booting", "serving", "exited", "reaped"}]
  /\ files \subseteq Model /\ age \in 0..MaxAge /\ pin \in 0..MaxPin

Init ==
  /\ registry \in SUBSET Model
  /\ lockq = <<>> /\ pc = [t \in Task |-> IF t = Watcher THEN "sleep" ELSE "idle"]
  /\ want = [r \in Request |-> None]
  /\ current = None /\ victim = None /\ killed = FALSE
  /\ proc = [p \in Proc |-> "unborn"]
  /\ files = {} /\ age = 0 /\ pin = 0

Goto(t, there) == pc' = [pc EXCEPT ![t] = there]
Enqueue(t)     == lockq' = Append(lockq, t) /\ Goto(t, "wait")
Holds(t)       == lockq # <<>> /\ Head(lockq) = t
Granted(t)     == Holds(t) /\ pc[t] = "wait"
Leave(t, there) == lockq' = Tail(lockq) /\ Goto(t, there)

Open == pc[Closer] = "idle"

--------------------------------------------------------------------------------
(* Registry.reload: the files of backend/ are what they are now; if they   *)
(* do not load, nothing changes.  A server that runs goes on running with  *)
(* the config it was started with.  The managers' own lists of configs are *)
(* read for error messages only.                                           *)
Reload ==
  /\ Open
  /\ registry' \in SUBSET Model
  /\ UNCHANGED <<lockq, pc, want, current, victim, killed, proc, files, age, pin>>

--------------------------------------------------------------------------------
(* _stop_current.                                                          *)

FileOf(m)   == {m} \cap Structured
Left(entry) == IF entry = None THEN files ELSE files \ FileOf(entry.model)
Now(entry)  == proc[entry.proc]

(* It need not wait if there is nothing to stop, if the process is known to*)
(* be dead, or if the signal finds no one.                                 *)
Quick == current # None => Now(current) \in {"exited", "reaped"}

(* Mutant: the entry of a server that is being stopped is already STOPPED. *)
TerminateMarkingEntry(t, why) ==
  /\ current # None /\ Now(current) # "reaped"
  /\ victim' = [current EXCEPT !.state = "stopped"] /\ current' = None
  /\ Goto(t, why)
  /\ UNCHANGED <<killed, proc>>

Terminate(t, why) ==
  /\ current # None /\ Now(current) # "reaped"
  /\ victim' = current /\ current' = None
  /\ Goto(t, why)
  /\ UNCHANGED <<killed, proc>>

(* stop_timeout has passed: SIGKILL, and wait again without a limit.       *)
Kill(t) ==
  /\ pc[t] \in Stopping /\ ~killed /\ Now(victim) # "reaped"
  /\ killed' = TRUE
  /\ UNCHANGED <<registry, lockq, pc, want, current, victim, proc, files, age, pin>>

(* Mutant: the exit is not awaited again after SIGKILL.                    *)
StoppedOnceKilled(t, why) ==
  /\ pc[t] = why /\ (Now(victim) = "reaped" \/ killed)
  /\ victim' = None /\ killed' = FALSE
Stopped(t, why) ==
  /\ pc[t] = why /\ Now(victim) = "reaped"
  /\ victim' = None /\ killed' = FALSE

--------------------------------------------------------------------------------
(* ensure_model and _launch.  An entry is LOADING only while its launcher  *)
(* holds the lock, so nobody ever waits for a load to settle.              *)

Ask(r, m) ==
  /\ Open /\ pc[r] = "idle" /\ m \in registry
  /\ want' = [want EXCEPT ![r] = m]
  /\ Enqueue(r)
  /\ UNCHANGED <<registry, current, victim, killed, proc, files, age, pin>>

(* Mutant: whatever became of the server, its name is enough.              *)
LoadedByName(r) == current # None /\ current.model = want[r]
Loaded(r) == current # None /\ current.model = want[r] /\ current.state = "ready"

Done(r) == Leave(r, "idle") /\ want' = [want EXCEPT ![r] = None]

(* ensure_model returns cfg; _apply_pin follows on the spot.               *)
Return(r) ==
  /\ Done(r)
  /\ \E s \in 0..MaxPin : pin' = IF s > 0 THEN s ELSE pin

Reuse(r) ==
  /\ Granted(r) /\ Loaded(r)
  /\ age' = 0 /\ Return(r)
  /\ UNCHANGED <<registry, current, victim, killed, proc, files>>

BeginSwap(r) ==
  /\ Granted(r) /\ ~Loaded(r)
  /\ age' = 0 /\ Terminate(r, "swap")
  /\ UNCHANGED <<registry, lockq, want, files, pin>>

(* Mutant: a server found dead leaves its file.                            *)
BeginLaunchKeepingFile(r) ==
  /\ Granted(r) /\ ~Loaded(r) /\ Quick
  /\ age' = 0 /\ current' = None
  /\ files' = files \cup FileOf(want[r])
  /\ Goto(r, "spawn")
  /\ UNCHANGED <<registry, lockq, want, victim, killed, proc, pin>>

BeginLaunch(r) ==
  /\ Granted(r) /\ ~Loaded(r) /\ Quick
  /\ age' = 0 /\ current' = None
  /\ files' = Left(current) \cup FileOf(want[r])
  /\ Goto(r, "spawn")
  /\ UNCHANGED <<registry, lockq, want, victim, killed, proc, pin>>

SwapStopped(r) ==
  /\ Stopped(r, "swap")
  /\ files' = Left(victim) \cup FileOf(want[r])
  /\ Goto(r, "spawn")
  /\ UNCHANGED <<registry, lockq, want, current, proc, age, pin>>

Spawn(r, p) ==
  /\ pc[r] = "spawn" /\ proc[p] = "unborn"
  /\ proc' = [proc EXCEPT ![p] = "booting"]
  /\ current' = [model |-> want[r], proc |-> p, state |-> "loading", tail |-> TRUE]
  /\ Goto(r, "boot")
  /\ UNCHANGED <<registry, lockq, want, victim, killed, files, age, pin>>

SpawnFails(r) ==
  /\ pc[r] = "spawn"
  /\ files' = files \ FileOf(want[r])
  /\ Done(r)
  /\ UNCHANGED <<registry, current, victim, killed, proc, age, pin>>

(* The health request is answered; the task reads the answer later.        *)
HealthAnswered(r) ==
  /\ pc[r] = "boot" /\ Now(current) = "serving"
  /\ Goto(r, "healthy")
  /\ UNCHANGED <<registry, lockq, want, current, victim, killed, proc, files, age, pin>>

BecomesReady(r) ==
  /\ pc[r] = "healthy"
  /\ current' = [current EXCEPT !.state = "ready"]
  /\ Return(r)
  /\ UNCHANGED <<registry, victim, killed, proc, files, age>>

(* The process died, or the startup deadline passed.                       *)
BootFails(r) ==
  /\ pc[r] = "boot" /\ Quick
  /\ files' = Left(current) /\ current' = None
  /\ Done(r)
  /\ UNCHANGED <<registry, victim, killed, proc, age, pin>>

BootTimesOut(r) ==
  /\ pc[r] = "boot"
  /\ Terminate(r, "fail")
  /\ UNCHANGED <<registry, lockq, want, files, age, pin>>

FailStopped(r) ==
  /\ Stopped(r, "fail")
  /\ files' = Left(victim)
  /\ Done(r)
  /\ UNCHANGED <<registry, current, proc, age, pin>>

--------------------------------------------------------------------------------
(* unload, _idle_watcher and shutdown: the tasks that only stop.           *)

AskUnload ==
  /\ Open /\ pc[Unloader] = "idle"
  /\ Enqueue(Unloader)
  /\ UNCHANGED <<registry, want, current, victim, killed, proc, files, age, pin>>

(* There is a watcher only if the role has a window.                       *)
IdleCheck ==
  /\ Window > 0 /\ pc[Watcher] = "sleep"
  /\ current # None /\ pin = 0 /\ age >= Window
  /\ Enqueue(Watcher)
  /\ UNCHANGED <<registry, want, current, victim, killed, proc, files, age, pin>>

StillIdle == current # None /\ current.state = "ready" /\ age >= Window

WatcherSkips ==
  /\ Granted(Watcher) /\ ~StillIdle
  /\ Leave(Watcher, "sleep")
  /\ UNCHANGED <<registry, want, current, victim, killed, proc, files, age, pin>>

Rest(t) == CASE t = Unloader -> "idle" [] t = Watcher -> "sleep" [] t = Closer -> "down"

StopAtOnce(t) ==
  /\ Granted(t) /\ (t = Watcher => StillIdle) /\ Quick
  /\ files' = Left(current) /\ current' = None
  /\ Leave(t, Rest(t))
  /\ UNCHANGED <<registry, want, victim, killed, proc, age, pin>>

BeginStop(t) ==
  /\ Granted(t) /\ (t = Watcher => StillIdle)
  /\ Terminate(t, "stop")
  /\ UNCHANGED <<registry, lockq, want, files, age, pin>>

EndStop(t) ==
  /\ Stopped(t, "stop")
  /\ files' = Left(victim)
  /\ Leave(t, Rest(t))
  /\ UNCHANGED <<registry, want, current, proc, age, pin>>

(* The requests are over; the watcher is cancelled where it stands, even   *)
(* inside _stop_current, and then shutdown asks for the lock.              *)
BeginShutdown ==
  /\ Open /\ \A t \in Request \cup {Unloader} : pc[t] = "idle"
  /\ lockq' = <<Closer>>
  /\ pc' = [pc EXCEPT ![Watcher] = "cancelled", ![Closer] = "wait"]
  /\ victim' = None /\ killed' = FALSE
  /\ UNCHANGED <<registry, want, current, proc, files, age, pin>>

--------------------------------------------------------------------------------
(* The subprocess and the loop's knowledge of it; the clock.               *)

Becomes(p, os) ==
  /\ proc' = [proc EXCEPT ![p] = os]
  /\ UNCHANGED <<registry, lockq, pc, want, current, victim, killed, files, age, pin>>

Serves(p) == proc[p] = "booting" /\ Becomes(p, "serving")
Exits(p)  == Live(p) /\ Becomes(p, "exited")
Reaped(p) == proc[p] = "exited" /\ Becomes(p, "reaped")

Forgotten(p) ==
  /\ proc[p] = "reaped" /\ \A entry \in {current, victim} \ {None} : entry.proc # p
  /\ Becomes(p, "unborn")

(* _tail_stderr resumes: a READY entry whose process left with a code other*)
(* than 0 and SIGTERM's has FAILED.                                        *)
TailEnds ==
  /\ current # None /\ Now(current) = "reaped" /\ current.tail
  /\ \E crashed \in BOOLEAN :
       current' = [current EXCEPT !.tail = FALSE, !.state = IF crashed /\ @ = "ready" THEN "failed" ELSE @]
  /\ UNCHANGED <<registry, lockq, pc, want, victim, killed, proc, files, age, pin>>

Tick ==
  /\ age < MaxAge \/ pin > 0
  /\ age' = IF age < MaxAge THEN age + 1 ELSE age
  /\ pin' = IF pin > 0 THEN pin - 1 ELSE pin
  /\ UNCHANGED <<registry, lockq, pc, want, current, victim, killed, proc, files>>

(* The gateway has shut down.                                              *)
Over == pc[Closer] = "down" /\ UNCHANGED roleVars

--------------------------------------------------------------------------------
RequestStep(r) ==
  \/ Reuse(r) \/ BeginSwap(r) \/ BeginLaunch(r) \/ SwapStopped(r)
  \/ (\E p \in Proc : Spawn(r, p)) \/ SpawnFails(r)
  \/ HealthAnswered(r) \/ BecomesReady(r)
  \/ BootFails(r) \/ BootTimesOut(r) \/ FailStopped(r)

Next ==
  \/ \E r \in Request : (\E m \in Model : Ask(r, m)) \/ RequestStep(r)
  \/ \E t \in Task : Kill(t)
  \/ \E t \in Stopper : StopAtOnce(t) \/ BeginStop(t) \/ EndStop(t)
  \/ Reload \/ AskUnload \/ IdleCheck \/ WatcherSkips \/ BeginShutdown
  \/ \E p \in Proc : Serves(p) \/ Exits(p) \/ Reaped(p) \/ Forgotten(p)
  \/ TailEnds \/ Tick \/ Over

Spec == Init /\ [][Next]_roleVars

--------------------------------------------------------------------------------
(***************************************************************************)
(* Properties.                                                             *)
(***************************************************************************)

(* At most one server of the role is alive, and until shutdown begins it is*)
(* the current one or the one whose exit the holder of the lock awaits,    *)
(* whatever the registry has become meanwhile.                             *)
OneRoleServer ==
  /\ \A p, q \in Proc : Live(p) /\ Live(q) => p = q
  /\ Open => \A p \in Proc : Live(p) =>
       \/ current # None /\ current.proc = p
       \/ victim # None /\ victim.proc = p /\ lockq # <<>> /\ pc[Head(lockq)] \in Stopping

(* The rendered files on disk are those of the current server, of the one  *)
(* being stopped and of the one being spawned: here a server that died by  *)
(* itself leaves no file behind either.                                    *)
RoleFilesMatch ==
  Open => files = Structured \cap
            (  {entry.model : entry \in {current, victim} \ {None}}
             \cup {want[r] : r \in {q \in Request : pc[q] = "spawn"}})

(* The manager is a ModelSlot, whatever is reloaded when.                  *)
Slot == INSTANCE ModelSlot WITH
  slot <- IF current # None
            THEN [phase |-> IF current.state = "failed" THEN "broken" ELSE current.state,
                  model |-> current.model]
          ELSE IF victim # None /\ Live(victim.proc) THEN [phase |-> "draining", model |-> victim.model]
          ELSE [phase |-> "empty", model |-> None],
  ask <- [r \in Request |-> IF pc[r] = "wait" \/ pc[r] \in Locked THEN want[r] ELSE None]

ImplementsSlot == Slot!SlotSafety

--------------------------------------------------------------------------------
(* What the repository says and the code does not do.                      *)

(* README on X-Pin-Seconds: it will "keep the just-loaded model resident   *)
(* for n seconds, overriding the idle-unload timer", and pin: "Suppress    *)
(* idle unload for the next seconds".  While a pin lasts the watcher does  *)
(* not begin to stop a server.                                             *)
PinSuppressesUnload == [][BeginStop(Watcher) => pin = 0]_roleVars
================================================================================
