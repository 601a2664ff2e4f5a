------------------------------- MODULE VramGuard -------------------------------
(***************************************************************************)
(* app/main.py: how a request makes room on the GPU before its backend is  *)
(* loaded.  A route is a list of calls to the six managers, each taken     *)
(* here as its lock and its slot; the routes look at the slots of other    *)
(* managers and act on what they saw, with no lock around the whole.       *)
(*                                                                         *)
(* The event loop is explicit: a task that does not have to wait goes on,  *)
(* and running keeps every other task out until it does.                   *)
(***************************************************************************)
EXTENDS Naturals, Sequences

CONSTANTS
  Request,     \* request tasks
  Relauncher,  \* the background task that brings the embedding server back
  Call,        \* Call[t]: the calls request t may make, see Route
  Settings,    \* bound: the configurations, each the set of its true settings
  BusyCall,    \* bound: the same where requests overlap,
  BusySettings,\* and the configurations in which they do
  Watcher,     \* the idle watcher of a manager, as its lock knows it
  None

Manager == {"chat", "tts", "asr", "image", "music", "embed"}
Audio   == {"tts", "asr"}
Task    == Request \cup {Relauncher}

Rule ==
  {"unload_audio_on_big_llm", "audio_vram_guard", "block_audio_on_big_llm",
   "unload_on_image", "unload_image_on_llm", "unload_image_on_audio",
   "unload_on_music", "unload_music_on_llm", "unload_music_on_audio",
   "unload_image_on_music", "embedding_auto_start"}

(* A time after which an idle server is unloaded is on if it is not 0.     *)
Setting == Rule \cup {"idle_unload_seconds", "idle_unload_audio_seconds",
                     "idle_unload_image_seconds", "idle_unload_music_seconds"}

ASSUME GuardTasks == Relauncher \notin Request /\ Watcher \notin Task
ASSUME GuardSettings == Settings \cup BusySettings \subseteq SUBSET Setting

VARIABLES
  on,        \* the settings that are true
  serial,    \* requests come one at a time
  slot,      \* slot[m]: what manager m has on the GPU
  lockq,     \* lockq[m]: m's lock, its holder followed by its waiters
  busy,      \* busy[m]: the holder is waiting for a process to stop or start
  todo,      \* todo[t]: what t still has to do
  waits,     \* waits[t]: the managers whose lock t asked for in its first step
  running    \* the task that has not given the loop back yet, or None

guardVars == <<on, serial, slot, lockq, busy, todo, waits, running>>

(* Chat models are big or, the smallest of them, small.                    *)
Name  == {"small", "big", "only"}

(* A server is starting until its process is there, and loading until it is*)
(* healthy; failing while it is stopped because that took too long,        *)
(* draining while it is stopped for a request, and unloading while its     *)
(* manager's watcher stops it.                                             *)
Moving == {"starting", "loading", "failing", "draining", "unloading"}
Server == [phase : Moving \cup {"ready"}, model : Name \cup {None}]
Empty  == [phase |-> "empty", model |-> None]

(* What comes in: requests, and what the admin endpoints are asked.  One at*)
(* a time come all but "load", which the rules of the routes do not cover. *)
CallType ==
  [to : Manager \cup {"reset"}, model : Name \cup {None}]
  \cup [to : {"load", "unload"}, at : Manager, model : Name \cup {None}]

ASSUME GuardCalls ==
  \A t \in Request : /\ Call[t] \cup BusyCall[t] \subseteq CallType
                     /\ \A c \in Call[t] : c.to # "load"

Evict(ms)       == [op |-> "evict", who |-> ms, model |-> None]
EvictIfUp(m)    == [op |-> "evict_if_up", who |-> {m}, model |-> None]
Ensure(m, name) == [op |-> "ensure", who |-> {m}, model |-> name]
GuardedEnsure(name) == [op |-> "guarded", who |-> {"chat"}, model |-> name]
Retry(name)     == [op |-> "retry", who |-> {"chat"}, model |-> name]

Step == [op : {"evict", "evict_if_up", "ensure", "guarded", "retry"}, who : SUBSET Manager,
         model : Name \cup {None}]

TypeOK ==
  /\ serial \in BOOLEAN /\ on \in IF serial THEN Settings ELSE BusySettings
  /\ slot \in [Manager -> Server \cup {Empty}]
  /\ lockq \in [Manager -> Seq(Task \cup {Watcher})] /\ busy \in [Manager -> BOOLEAN]
  /\ todo \in [Task -> Seq(Step)] /\ waits \in [Task -> SUBSET Manager]
  /\ running \in Task \cup {None}

Init ==
  /\ serial \in BOOLEAN /\ on \in IF serial THEN Settings ELSE BusySettings
  /\ slot = [m \in Manager |-> Empty]
  /\ lockq = [m \in Manager |-> <<>>] /\ busy = [m \in Manager |-> FALSE]
  /\ todo = [t \in Task |-> <<>>] /\ waits = [t \in Task |-> {}]
  /\ running = None

--------------------------------------------------------------------------------
(* The routes.                                                             *)

When(setting, steps) == IF setting \in on THEN steps ELSE <<>>

(* Mutant: the image server is stopped only for big models.                *)
ChatRouteImageForBig(name) ==
  (IF name = "big" THEN When("unload_audio_on_big_llm",
     <<Evict(Audio)>> \o When("unload_on_music", <<Evict({"music"})>>)
       \o When("unload_image_on_llm", <<Evict({"image"})>>)) ELSE <<>>)
  \o When("unload_music_on_llm", <<Evict({"music"})>>)
  \o <<GuardedEnsure(name)>>

ChatRoute(name) ==
  (IF name = "big" THEN When("unload_audio_on_big_llm",
     <<Evict(Audio)>> \o When("unload_on_music", <<Evict({"music"})>>)) ELSE <<>>)
  \o When("unload_image_on_llm", <<Evict({"image"})>>)
  \o When("unload_music_on_llm", <<Evict({"music"})>>)
  \o <<GuardedEnsure(name)>>

AudioRoute(role) ==
  When("unload_image_on_audio", <<Evict({"image"})>>)
  \o When("unload_music_on_audio", <<Evict({"music"})>>)
  \o <<Ensure(role, "only")>>

ImageRoute ==
  When("unload_on_image", <<Evict({"chat"} \cup Audio), EvictIfUp("embed")>>
                          \o When("unload_on_music", <<Evict({"music"})>>))
  \o <<Ensure("image", "only")>>

MusicRoute ==
  When("unload_on_music", <<Evict({"chat"} \cup Audio)>>
                          \o When("unload_image_on_music", <<Evict({"image"})>>)
                          \o <<EvictIfUp("embed")>>)
  \o <<Ensure("music", "only")>>

ResetRoute == <<Evict({"chat"}), Evict({"tts"}), Evict({"asr"}), Evict({"image"}),
                Evict({"music"}), Evict({"image"}), Evict({"embed"})>>

(* A call is [to, model]; "load" and "unload" are the admin endpoints.     *)
Route(c) ==
  CASE c.to = "chat"   -> ChatRoute(c.model)
    [] c.to \in Audio  -> AudioRoute(c.to)
    [] c.to = "image"  -> ImageRoute
    [] c.to = "music"  -> MusicRoute
    [] c.to = "embed"  -> <<Ensure("embed", "only")>>
    [] c.to = "load"   -> <<Ensure(c.at, c.model)>>
    [] c.to = "unload" -> <<Evict({c.at})>>
    [] c.to = "reset"  -> ResetRoute

Resident(m)  == slot[m].phase # "empty"
IsRunning(m) == slot[m].phase = "ready"
(* The embedding manager's state stays READY until a stop is over.         *)
EmbedUp == slot["embed"].phase \in {"ready", "draining"}

(* _route_audio answers 409 while a big chat model is loaded or loading.   *)
Blocked(c) ==
  /\ c.to \in Audio /\ "block_audio_on_big_llm" \in on
  /\ slot["chat"].phase \in {"loading", "ready"} /\ slot["chat"].model = "big"

(* audio_vram_guard: with both audio servers up, the smallest model serves.*)
(* Mutant: one audio server is enough to be downgraded, both are not.      *)
ServedIfOne(name) ==
  IF "audio_vram_guard" \in on /\ IsRunning("tts") /\ ~IsRunning("asr") THEN "small" ELSE name

Served(name) ==
  IF "audio_vram_guard" \in on /\ IsRunning("tts") /\ IsRunning("asr") THEN "small" ELSE name

--------------------------------------------------------------------------------
(* A task between two waits.                                               *)

Runs(t) == running \in {None, t}

Begins(t, c) ==
  /\ running = None /\ todo[t] = <<>> /\ waits[t] = {}
  /\ IF serial THEN c \in Call[t] /\ \A u \in Request : todo[u] = <<>> ELSE c \in BusyCall[t]
  /\ ~Blocked(c)
  /\ todo' = [todo EXCEPT ![t] = Route(c)] /\ running' = t
  /\ UNCHANGED <<on, serial, slot, lockq, busy, waits>>

(* Ask for the locks of ms; gather makes tasks of its calls and waits, a   *)
(* single call goes on if the lock is free.                                *)
AskFor(t, ms) ==
  /\ waits' = [waits EXCEPT ![t] = ms]
  /\ lockq' = [m \in Manager |-> IF m \in ms THEN Append(lockq[m], t) ELSE lockq[m]]
  /\ running' = IF \E m \in ms : ms = {m} /\ lockq[m] = <<>> THEN t ELSE None

Skip(t) ==
  /\ todo' = [todo EXCEPT ![t] = Tail(@)]
  /\ running' = IF Tail(todo[t]) # <<>> THEN t ELSE None
  /\ UNCHANGED <<lockq, waits>>

Arrives(t) ==
  /\ Runs(t) /\ todo[t] # <<>> /\ waits[t] = {}
  /\ LET step == Head(todo[t]) IN
     \/ step.op = "evict_if_up" /\ ~EmbedUp /\ Skip(t)
     \/ step.op = "ensure" /\ step.who = {"embed"} /\ EmbedUp /\ Skip(t)
     \/ /\ step.op = "evict_if_up" => EmbedUp
        /\ ~(step.op = "ensure" /\ step.who = {"embed"} /\ EmbedUp)
        /\ AskFor(t, step.who)
        /\ todo' = IF step.op = "guarded" THEN [todo EXCEPT ![t][1].model = Served(step.model)]
                   ELSE todo
  /\ UNCHANGED <<on, serial, slot, busy>>

--------------------------------------------------------------------------------
(* The locked sections.                                                    *)

Evicting(t) == Head(todo[t]).op \in {"evict", "evict_if_up"}

(* Mutant: the model of a server that is gone stays in its slot.           *)
WithoutPhase(m) == [slot EXCEPT ![m].phase = "empty"]

Without(m) == [slot EXCEPT ![m] = Empty]

(* What m was asked for is done: release the lock and, with the last of a  *)
(* gather, the step; then follows rest.                                    *)
Release(t, m, rest) ==
  /\ lockq' = [lockq EXCEPT ![m] = Tail(@)]
  /\ busy' = [busy EXCEPT ![m] = FALSE]
  /\ waits' = [waits EXCEPT ![t] = @ \ {m}]
  /\ IF waits[t] = {m} THEN todo' = [todo EXCEPT ![t] = rest] ELSE UNCHANGED todo
  /\ running' = IF Head(todo[t]).who = {m} /\ rest # <<>> THEN t ELSE None

(* After a chat model is ready, the embedding server is brought back in    *)
(* the background.                                                         *)
Relaunches(t) ==
  /\ Head(todo[t]).op \in {"guarded", "retry"} /\ "embedding_auto_start" \in on /\ ~EmbedUp
  /\ todo[Relauncher] = <<>> /\ waits[Relauncher] = {}

Serve(t, m) ==
  /\ lockq' = [lockq EXCEPT ![m] = Tail(@)]
  /\ busy' = [busy EXCEPT ![m] = FALSE]
  /\ waits' = [waits EXCEPT ![t] = {}]
  /\ todo' = [u \in Task |-> IF u = t THEN <<>>
                             ELSE IF u = Relauncher /\ Relaunches(t) THEN <<Ensure("embed", "only")>>
                             ELSE todo[u]]
  /\ running' = None

Wanted(t) == [phase |-> "starting", model |-> Head(todo[t]).model]

Enters(t, m) ==
  /\ Runs(t) /\ m \in waits[t] /\ Head(lockq[m]) = t /\ ~busy[m]
  /\ \/ Evicting(t) /\ ~Resident(m) /\ Release(t, m, Tail(todo[t])) /\ UNCHANGED slot
     \/ ~Evicting(t) /\ slot[m] = [Wanted(t) EXCEPT !.phase = "ready"] /\ Serve(t, m) /\ UNCHANGED slot
     \/ /\ IF Evicting(t) THEN Resident(m) ELSE slot[m] # [Wanted(t) EXCEPT !.phase = "ready"]
        /\ slot' = [slot EXCEPT ![m] = IF Resident(m) THEN [@ EXCEPT !.phase = "draining"] ELSE Wanted(t)]
        /\ busy' = [busy EXCEPT ![m] = TRUE]
        /\ running' = None
        /\ UNCHANGED <<lockq, todo, waits>>
  /\ UNCHANGED <<on, serial>>

Emptied(t, m) ==
  /\ running = None /\ busy[m] /\ Head(lockq[m]) = t /\ slot[m].phase = "draining"
  /\ IF Evicting(t)
       THEN slot' = Without(m) /\ Release(t, m, Tail(todo[t]))
       ELSE slot' = [slot EXCEPT ![m] = Wanted(t)] /\ UNCHANGED <<lockq, busy, waits, todo, running>>
  /\ UNCHANGED <<on, serial>>

(* What becomes of a load.                                                 *)
Moves(t, m, from, to) ==
  /\ running = None /\ busy[m] /\ Head(lockq[m]) = t /\ slot[m].phase = from
  /\ slot' = [slot EXCEPT ![m].phase = to]
  /\ UNCHANGED <<on, serial>>

Spawned(t, m) ==
  Moves(t, m, "starting", "loading") /\ UNCHANGED <<lockq, busy, todo, waits, running>>

LoadSucceeds(t, m) == Moves(t, m, "loading", "ready") /\ Serve(t, m)

LoadTimesOut(t, m) ==
  Moves(t, m, "loading", "failing") /\ UNCHANGED <<lockq, busy, todo, waits, running>>

(* Mutant: every failure is retried.                                       *)
AfterFailureAlways(t) ==
  IF Head(todo[t]).op \in {"guarded", "retry"}
    THEN <<Evict({"embed"}), Retry(Head(todo[t]).model)>> ELSE <<>>

(* A chat model that could not be loaded is retried once, without the      *)
(* embedding server, if that is up.                                        *)
AfterFailure(t) ==
  IF Head(todo[t]).op = "guarded" /\ EmbedUp
    THEN <<Evict({"embed"}), Retry(Head(todo[t]).model)>> ELSE <<>>

(* The process could not be spawned, or is dead, or its stop is over.      *)
LoadFails(t, m) ==
  /\ running = None /\ busy[m] /\ Head(lockq[m]) = t
  /\ slot[m].phase \in {"starting", "loading", "failing"}
  /\ slot' = Without(m)
  /\ Release(t, m, AfterFailure(t))
  /\ UNCHANGED <<on, serial>>

--------------------------------------------------------------------------------
(* Without a request: servers die, and idle ones are unloaded, under the   *)
(* lock that requests take but no guard of theirs looks at.                *)

Dies(m) ==
  /\ running = None /\ slot[m].phase = "ready"
  /\ slot' = Without(m)
  /\ UNCHANGED <<on, serial, lockq, busy, todo, waits, running>>

HeldByWatcher(m) == lockq[m] # <<>> /\ Head(lockq[m]) = Watcher

IdleUnload(m) ==
  CASE m = "chat"   -> "idle_unload_seconds"
    [] m \in Audio  -> "idle_unload_audio_seconds"
    [] m = "image"  -> "idle_unload_image_seconds"
    [] m = "music"  -> "idle_unload_music_seconds"

(* The managers that have a watcher.                                       *)
Watched == {m \in Manager \ {"embed"} : IdleUnload(m) \in on}

(* The watcher of m finds its server idle and the lock taken.              *)
WatcherAsks(m) ==
  /\ running = None /\ m \in Watched /\ slot[m].phase \in {"loading", "ready"}
  /\ lockq[m] # <<>> /\ \A i \in DOMAIN lockq[m] : lockq[m][i] # Watcher
  /\ lockq' = [lockq EXCEPT ![m] = Append(@, Watcher)]
  /\ UNCHANGED <<on, serial, slot, busy, todo, waits, running>>

(* It has the lock, at once if that was free, and stops an idle server.    *)
WatcherStops(m) ==
  /\ running = None /\ m \in Watched /\ slot[m].phase = "ready" /\ ~busy[m]
  /\ lockq[m] = <<>> \/ HeldByWatcher(m)
  /\ slot' = [slot EXCEPT ![m].phase = "unloading"]
  /\ lockq' = IF lockq[m] = <<>> THEN [lockq EXCEPT ![m] = <<Watcher>>] ELSE lockq
  /\ busy' = [busy EXCEPT ![m] = TRUE]
  /\ UNCHANGED <<on, serial, todo, waits, running>>

(* Once it has the lock the server is gone, or no longer idle.             *)
WatcherSkips(m) ==
  /\ running = None /\ HeldByWatcher(m) /\ ~busy[m]
  /\ lockq' = [lockq EXCEPT ![m] = Tail(@)]
  /\ UNCHANGED <<on, serial, slot, busy, todo, waits, running>>

WatcherDone(m) ==
  /\ running = None /\ slot[m].phase = "unloading"
  /\ slot' = Without(m)
  /\ lockq' = [lockq EXCEPT ![m] = Tail(@)] /\ busy' = [busy EXCEPT ![m] = FALSE]
  /\ UNCHANGED <<on, serial, todo, waits, running>>

WatcherStep(m) == WatcherStops(m) \/ WatcherSkips(m) \/ WatcherDone(m)

--------------------------------------------------------------------------------
TaskStep(t) ==
  \/ Arrives(t)
  \/ \E m \in Manager : \/ Enters(t, m) \/ Emptied(t, m) \/ Spawned(t, m)
                        \/ LoadSucceeds(t, m) \/ LoadTimesOut(t, m) \/ LoadFails(t, m)

Next ==
  \/ \E t \in Request : \E c \in Call[t] \cup BusyCall[t] : Begins(t, c)
  \/ \E t \in Task : TaskStep(t)
  \/ \E m \in Manager : Dies(m) \/ WatcherAsks(m) \/ WatcherStep(m)

Spec == Init /\ [][Next]_guardVars

(* Every stop and every load ends, and the loop runs its ready tasks in the*)
(* order they became ready: one that is ready again and again gets its turn*)
(* however many others come in between.  Of the watchers that hold a lock  *)
(* it is enough that one gets its turn; that a server is idle is not for   *)
(* the loop to say.                                                        *)
FairSpec ==
  /\ Spec /\ \A t \in Task : SF_guardVars(TaskStep(t))
  /\ SF_guardVars(\E m \in Manager : HeldByWatcher(m) /\ WatcherStep(m))

--------------------------------------------------------------------------------
(***************************************************************************)
(* Properties.                                                             *)
(***************************************************************************)

(* README, "Rules by request type", as exclusions: two tenants are never on*)
(* the GPU together when the settings that make each evict or refuse the   *)
(* other are on.  Checked for requests that come one at a time.            *)
Exclusive(a, b, settings) == serial /\ settings \subseteq on => ~(Resident(a) /\ Resident(b))

TenantsExcluded ==
  /\ Exclusive("image", "chat", {"unload_on_image", "unload_image_on_llm"})
  /\ Exclusive("music", "chat", {"unload_on_music", "unload_music_on_llm"})
  /\ \A a \in Audio : /\ Exclusive("image", a, {"unload_on_image", "unload_image_on_audio"})
                      /\ Exclusive("music", a, {"unload_on_music", "unload_music_on_audio"})
  /\ Exclusive("image", "music", {"unload_on_image", "unload_on_music", "unload_image_on_music"})

(* A big chat model and audio, of main.py: "so TTS/ASR cannot stack on top  *)
(* of a large model".  With audio evicted and refused, an audio server has *)
(* company only of a big model that its watcher is unloading: the refusal  *)
(* does not see that one, and the audio route does not take its lock.  With*)
(* audio refused and the choice of the model guarded, both servers have    *)
(* such company only if one of the three is being unloaded.                *)
Kept(m) == Resident(m) /\ slot[m].phase # "unloading"
KeptBig == Kept("chat") /\ slot["chat"].model = "big"

BigExcludesAudio ==
  /\ serial /\ {"unload_audio_on_big_llm", "block_audio_on_big_llm"} \subseteq on =>
       ~(KeptBig /\ \E a \in Audio : Resident(a))
  /\ serial /\ {"audio_vram_guard", "block_audio_on_big_llm"} \subseteq on =>
       ~(KeptBig /\ \A a \in Audio : Kept(a))

(* However requests overlap, nobody waits for ever: a task waits for one   *)
(* manager's lock at a time, or for several whose holders need no other.   *)
EveryCallEnds == \A t \in Task : todo[t] # <<>> ~> todo[t] = <<>>

--------------------------------------------------------------------------------
(* What the repository says and the code does not do.                      *)

(* README: "so a diffusion model never shares the GPU" with chat or audio. *)
DiffusionNeverShares ==
  ~(IsRunning("image") /\ (IsRunning("chat") \/ \E a \in Audio : IsRunning(a)))
================================================================================
