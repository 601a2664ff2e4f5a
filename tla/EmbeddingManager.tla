--------------------------- MODULE EmbeddingManager ---------------------------
(***************************************************************************)
(* app/embedding_manager.py: the manager of the one embedding subprocess.  *)
(* Its callers differ from those of the chat manager in that ensure_running*)
(* looks at the state before it asks for the lock, and polls while another *)
(* caller loads; the state belongs to the manager, not to the process, and *)
(* does not change while a process is being stopped.                       *)
(***************************************************************************)
EXTENDS Naturals, Sequences

CONSTANTS
  Caller,      \* tasks that call ensure_running: /v1/embeddings, relaunches
  Evictor,     \* tasks that call stop_for_resources
  Stopper,     \* tasks that call stop: reset, unload, shutdown
  Proc,        \* identities of subprocesses
  None,
  SignalRace   \* whether a signal may find no process, see ProcessManager

Task == Caller \cup Evictor \cup Stopper

ASSUME EmbedTasks ==
  /\ Caller \cap Evictor = {} /\ (Caller \cup Evictor) \cap Stopper = {}
ASSUME EmbedProcs == None \notin Proc /\ SignalRace \in BOOLEAN
ASSUME EmbedName == None # "embedding"    \* the one model of this manager

VARIABLES
  lockq,     \* asyncio.Lock: its holder followed by its waiters
  pc,        \* where each task is suspended
  state,     \* _state
  process,   \* _process
  freed,     \* _stopped_for_resources
  proc,      \* the subprocesses
  victim,    \* the process whose exit _stop_locked awaits, or None
  was        \* the state _stop_locked and its caller saw: was_ready, was_running

embedVars == <<lockq, pc, state, process, freed, proc, victim, was>>

Inside == {"spawn", "boot", "answered", "fail", "stop"}    \* the lock is held
Place  == {"idle", "poll", "wait", "up"} \cup Inside
State  == {"loading", "ready", "stopped", "failed"}

Unborn == [os |-> "none", code |-> "clean", sig |-> "none", tail |-> FALSE, said |-> "none"]

Live(p) == proc[p].os \in {"booting", "serving"}

TypeOK ==
  /\ lockq \in Seq(Task) /\ pc \in [Task -> Place]
  /\ state \in State /\ was \in State
  /\ process \in Proc \cup {None} /\ victim \in Proc \cup {None}
  /\ freed \in BOOLEAN
  /\ proc \in [Proc ->
       [os : {"none", "booting", "serving", "exited", "reaped"}, code : {"clean", "crash"},
        sig : {"none", "term", "kill"}, tail : BOOLEAN,
        said : {"none", "loaded", "failed", "unloaded"}]]

Init ==
  /\ lockq = <<>> /\ pc = [t \in Task |-> "idle"]
  /\ state = "stopped" /\ was = "stopped" /\ freed = FALSE
  /\ process = None /\ victim = None
  /\ proc = [p \in Proc |-> Unborn]

Goto(t, there) == pc' = [pc EXCEPT ![t] = there]
Enqueue(t) == lockq' = Append(lockq, t) /\ Goto(t, "wait")
Holds(t) == lockq # <<>> /\ Head(lockq) = t
Granted(t) == pc[t] = "wait" /\ Holds(t)
Leave(t, there) == lockq' = Tail(lockq) /\ Goto(t, there)

--------------------------------------------------------------------------------
(* _stop_locked: drop the process and cancel its tail, then wait for it.   *)

(* Mutant: the tail is left to end with its process.                       *)
UntailedNever(ps) == proc

Untailed(ps) == [p \in Proc |-> IF p \in ps THEN [proc[p] EXCEPT !.tail = FALSE] ELSE proc[p]]

(* There is nothing to wait for.                                           *)
StopIsQuick ==
  process # None => \/ proc[process].os = "reaped"
                    \/ SignalRace /\ proc[process].os = "exited"

Terminate(t, why) ==
  /\ process # None /\ proc[process].os # "reaped"
  /\ proc' = [Untailed({process}) EXCEPT ![process].sig = "term"]
  /\ victim' = process /\ process' = None /\ was' = state
  /\ Goto(t, why)

Kill(t) ==
  /\ pc[t] \in {"stop", "fail"}
  /\ proc[victim].sig = "term" /\ proc[victim].os # "reaped"
  /\ proc' = [proc EXCEPT ![victim].sig = "kill"]
  /\ UNCHANGED <<lockq, pc, state, process, freed, victim, was>>

(* Mutant: after SIGKILL the exit is taken for granted.                    *)
StoppedOnceKilled(t, why) ==
  /\ pc[t] = why
  /\ proc[victim].os = "reaped" \/ proc[victim].sig = "kill"
  /\ victim' = None

Stopped(t, why) ==
  /\ pc[t] = why /\ proc[victim].os = "reaped"
  /\ victim' = None

--------------------------------------------------------------------------------
(* ensure_running and start.                                               *)

(* The first look at the state, without the lock.                          *)
EnsureRunning(c) ==
  /\ pc[c] = "idle"
  /\ \/ state = "ready" /\ Goto(c, "up") /\ UNCHANGED lockq
     \/ state = "loading" /\ Goto(c, "poll") /\ UNCHANGED lockq
     \/ state \in {"stopped", "failed"} /\ Enqueue(c)
  /\ UNCHANGED <<state, process, freed, proc, victim, was>>

(* A restart with restart_loading queues even behind a load in flight.     *)
RestartLoading(c) ==
  /\ pc[c] = "idle" /\ state = "loading" /\ Enqueue(c)
  /\ UNCHANGED <<state, process, freed, proc, victim, was>>

(* Mutant: the poll ends only when the load succeeds.                      *)
PolledTillReady(c) ==
  /\ pc[c] = "poll" /\ state = "ready" /\ Goto(c, "up")
  /\ UNCHANGED <<lockq, state, process, freed, proc, victim, was>>

(* The poll finds the load settled, or runs into its deadline.             *)
Polled(c) ==
  /\ pc[c] = "poll"
  /\ \/ state = "ready" /\ Goto(c, "up") /\ UNCHANGED lockq
     \/ state # "ready" /\ Enqueue(c)
  /\ UNCHANGED <<state, process, freed, proc, victim, was>>

Up == state = "ready" /\ process # None /\ proc[process].os # "reaped"

AlreadyUp(c) ==
  /\ Granted(c) /\ Up
  /\ Leave(c, "up")
  /\ UNCHANGED <<state, process, freed, proc, victim, was>>

(* start found no healthy server: _stop_locked, which never has to wait    *)
(* here (EmbeddingManagerProofs!StartNeverStops), and on to the spawn.     *)
BeginLaunch(c) ==
  /\ Granted(c) /\ ~Up /\ StopIsQuick
  /\ proc' = Untailed({process}) /\ process' = None
  /\ Goto(c, "spawn")
  /\ UNCHANGED <<lockq, state, freed, victim, was>>

Spawn(c, p) ==
  /\ pc[c] = "spawn" /\ proc[p] = Unborn
  /\ proc' = [proc EXCEPT ![p] = [Unborn EXCEPT !.os = "booting", !.tail = TRUE]]
  /\ process' = p /\ state' = "loading"
  /\ Goto(c, "boot")
  /\ UNCHANGED <<lockq, freed, victim, was>>

(* Mutant: a state EmbedState does not have.                               *)
SpawnErrs(c) ==
  /\ pc[c] = "spawn"
  /\ state' = "error"
  /\ Leave(c, "idle")
  /\ UNCHANGED <<process, freed, proc, victim, was>>

SpawnFails(c) ==
  /\ pc[c] = "spawn"
  /\ state' = "failed"
  /\ Leave(c, "idle")
  /\ UNCHANGED <<process, freed, proc, victim, was>>

HealthAnswered(c) ==
  /\ pc[c] = "boot" /\ proc[process].os = "serving"
  /\ Goto(c, "answered")
  /\ UNCHANGED <<lockq, state, process, freed, proc, victim, was>>

BecomesReady(c) ==
  /\ pc[c] = "answered"
  /\ state' = "ready" /\ freed' = FALSE
  /\ proc' = [proc EXCEPT ![process].said = "loaded"]
  /\ Leave(c, "up")
  /\ UNCHANGED <<process, victim, was>>

(* The process died, or the deadline passed and the signal found nobody.   *)
BootFails(c) ==
  /\ pc[c] = "boot" /\ StopIsQuick
  /\ state' = "failed"
  /\ proc' = [Untailed({process}) EXCEPT ![process].said = "failed"]
  /\ process' = None
  /\ Leave(c, "idle")
  /\ UNCHANGED <<freed, victim, was>>

BootTimesOut(c) ==
  /\ pc[c] = "boot"
  /\ Terminate(c, "fail")
  /\ UNCHANGED <<lockq, state, freed>>

FailStopped(c) ==
  /\ Stopped(c, "fail")
  /\ state' = "failed"
  /\ proc' = [proc EXCEPT ![victim].said = "failed"]
  /\ Leave(c, "idle")
  /\ UNCHANGED <<process, freed, was>>

(* The embeddings call that ensure_running was for.                        *)
EndCall(c) ==
  /\ pc[c] = "up" /\ Goto(c, "idle")
  /\ UNCHANGED <<lockq, state, process, freed, proc, victim, was>>

--------------------------------------------------------------------------------
(* stop and stop_for_resources.                                            *)

(* Whoever needs the VRAM stops the server only if it sees it READY.       *)
AskStop(t) ==
  /\ pc[t] = "idle" /\ (t \in Evictor => state = "ready")
  /\ Enqueue(t)
  /\ UNCHANGED <<state, process, freed, proc, victim, was>>

(* Mutant: only a LOADING server is marked stopped.                        *)
AfterStopStaysReady(t, before) ==
  /\ state' = IF before = "loading" THEN "stopped" ELSE state
  /\ freed' = (freed \/ t \in Evictor)
  /\ Leave(t, "idle")

(* What both do once _stop_locked is over; before is the state before it.  *)
AfterStop(t, before) ==
  /\ state' = IF before \in {"ready", "loading"} THEN "stopped" ELSE state
  /\ freed' = (freed \/ t \in Evictor)
  /\ Leave(t, "idle")

StopAtOnce(t) ==
  /\ Granted(t) /\ StopIsQuick
  /\ proc' = Untailed({process}) /\ process' = None
  /\ AfterStop(t, state)
  /\ UNCHANGED <<victim, was>>

BeginStop(t) ==
  /\ Granted(t)
  /\ Terminate(t, "stop")
  /\ UNCHANGED <<lockq, state, freed>>

EndStop(t) ==
  /\ Stopped(t, "stop")
  /\ proc' = [proc EXCEPT ![victim].said = IF was = "ready" THEN "unloaded" ELSE @]
  /\ AfterStop(t, was)
  /\ UNCHANGED <<process, was>>

--------------------------------------------------------------------------------
(* The subprocess.                                                         *)

Serves(p) ==
  /\ proc[p].os = "booting"
  /\ proc' = [proc EXCEPT ![p].os = "serving"]
  /\ UNCHANGED <<lockq, pc, state, process, freed, victim, was>>

Exits(p) ==
  /\ Live(p)
  /\ \E c \in {"clean", "crash"} : proc' = [proc EXCEPT ![p].os = "exited", ![p].code = c]
  /\ UNCHANGED <<lockq, pc, state, process, freed, victim, was>>

Reaped(p) ==
  /\ proc[p].os = "exited"
  /\ proc' = [proc EXCEPT ![p].os = "reaped"]
  /\ UNCHANGED <<lockq, pc, state, process, freed, victim, was>>

(* Mutant: a crash of a READY server is announced as a failed load.        *)
TailAnnounces(p) ==
  /\ proc[p].os = "reaped" /\ proc[p].tail
  /\ LET crashed == state = "ready" /\ proc[p].code = "crash" IN
     /\ proc' = [proc EXCEPT ![p].tail = FALSE, ![p].said = IF crashed THEN "failed" ELSE @]
     /\ state' = IF crashed THEN "failed" ELSE state
  /\ UNCHANGED <<lockq, pc, process, freed, victim, was>>

(* _tail_stderr, unless cancelled, ends with the process.                  *)
TailEnds(p) ==
  /\ proc[p].os = "reaped" /\ proc[p].tail
  /\ proc' = [proc EXCEPT ![p].tail = FALSE]
  /\ state' = IF state = "ready" /\ proc[p].code = "crash" THEN "failed" ELSE state
  /\ UNCHANGED <<lockq, pc, process, freed, victim, was>>

Forgotten(p) ==
  /\ proc[p].os = "reaped" /\ ~proc[p].tail /\ p \notin {process, victim}
  /\ proc' = [proc EXCEPT ![p] = Unborn]
  /\ UNCHANGED <<lockq, pc, state, process, freed, victim, was>>

--------------------------------------------------------------------------------
CallerStep(c) ==
  \/ Polled(c) \/ AlreadyUp(c) \/ BeginLaunch(c)
  \/ (\E p \in Proc : Spawn(c, p)) \/ SpawnFails(c)
  \/ HealthAnswered(c) \/ BecomesReady(c) \/ BootFails(c) \/ BootTimesOut(c) \/ FailStopped(c)

StopStep(t) == StopAtOnce(t) \/ BeginStop(t) \/ EndStop(t)

ProcStep(p) == Reaped(p) \/ TailEnds(p) \/ Forgotten(p)

Next ==
  \/ \E c \in Caller : EnsureRunning(c) \/ RestartLoading(c) \/ CallerStep(c) \/ EndCall(c)
  \/ \E t \in Evictor \cup Stopper : AskStop(t) \/ StopStep(t)
  \/ \E t \in Task : Kill(t)
  \/ \E p \in Proc : Serves(p) \/ Exits(p) \/ ProcStep(p)

Spec == Init /\ [][Next]_embedVars

(* The event loop runs what can run and the timeouts pass; SIGKILL works.  *)
Fairness ==
  /\ \A c \in Caller : WF_embedVars(CallerStep(c))
  /\ \A t \in Evictor \cup Stopper : WF_embedVars(StopStep(t))
  /\ \A t \in Task : WF_embedVars(Kill(t))
  /\ \A p \in Proc : WF_embedVars(ProcStep(p)) /\ WF_embedVars(proc[p].sig = "kill" /\ Exits(p))

FairSpec == Spec /\ Fairness

--------------------------------------------------------------------------------
(***************************************************************************)
(* Properties.                                                             *)
(***************************************************************************)

(* Never two embedding servers on the port and in the VRAM, however starts,*)
(* evictions and deaths overlap.                                           *)
OneEmbedder == \A p, q \in Proc : Live(p) /\ Live(q) => p = q

(* The state, which the tails of earlier processes set too, is true of the *)
(* server: LOADING always has a start that is still at work, so nobody     *)
(* polls for a load that no one drives any more; and never is a server that*)
(* is alive called stopped or failed, by a stop, a failed start or a tail  *)
(* that ends late.                                                         *)
LoadingIsOwned ==
  state = "loading" => lockq # <<>> /\ pc[Head(lockq)] \in {"boot", "answered", "fail"}

StateIsTrue ==
  LoadingIsOwned /\ (state \in {"stopped", "failed"} => \A p \in Proc : ~Live(p))

(* When a stop returns, the server is gone and the state says so: neither a*)
(* start that queued behind nor the tail of the dead process has changed it*)
(* back.                                                                   *)
StopLeavesNothing ==
  [][\A t \in Evictor \cup Stopper : pc[t] # "idle" /\ pc'[t] = "idle" =>
       state' \in {"stopped", "failed"} /\ process' = None /\ \A p \in Proc : ~Live(p)']_embedVars

(* One story per launch: loaded or failed, and unloaded only after loaded. *)
EventsInOrder ==
  [][\A p \in Proc : proc'[p] # Unborn /\ proc'[p].said # proc[p].said =>
       <<proc[p].said, proc'[p].said>> \in
         {<<"none", "loaded">>, <<"none", "failed">>, <<"loaded", "unloaded">>}]_embedVars

(* Everyone who calls ensure_running, by polling or by the lock, is        *)
(* answered, and every eviction comes to its end.                          *)
EveryoneIsAnswered ==
  /\ \A c \in Caller : pc[c] \in {"poll", "wait"} ~> pc[c] \in {"up", "idle"}
  /\ \A t \in Evictor \cup Stopper : pc[t] = "wait" ~> pc[t] = "idle"

(* What start promises is what every manager promises; ensure_running's    *)
(* look at the state without the lock is not part of it.                   *)
Slot == INSTANCE ModelSlot WITH
  Model <- {"embedding"}, Request <- Caller,
  slot <- IF process # None
            THEN [phase |-> IF state = "failed" THEN "broken" ELSE state, model |-> "embedding"]
          ELSE IF \E p \in Proc : Live(p) THEN [phase |-> "draining", model |-> "embedding"]
          ELSE [phase |-> "empty", model |-> None],
  ask <- [c \in Caller |-> IF pc[c] \in {"wait"} \cup Inside THEN "embedding" ELSE None]

ImplementsSlot == Slot!SlotSafety
================================================================================
