# A TLA+ model of llamaswap

llamaswap is one FastAPI process that puts an OpenAI-compatible API in front of
inference servers it starts and stops as subprocesses.  It runs on a single
asyncio event loop: between two `await`s nothing else happens, and at an
`await` anything may.  The models here take that literally: **an action is the
code one task runs between two awaits**, and the state is what other tasks can
see or change there.

## 1. Inventory

| Part | Source | State | Operations | What is hard |
|---|---|---|---|---|
| Chat-LLM manager | `app/process_manager.py` | `_lock`, `_current` (name, state, process, config file), `_last_activity`, `_pinned_until` | `ensure_model`, `unload`, `pin`, idle watcher, `shutdown`, `_tail` per process | swaps queued on one lock, a process that dies at any moment, stop in two signals, a watcher that decides before it waits |
| Audio / image / music managers | `app/server_manager.py` | the same per role (`tts`, `asr`, `image`, `music`) | the same; `configure` | as above; each caller looks its config up in the registry before it asks for the lock; a watcher that exists only when the global window is positive, and that looks at the pin before it waits |
| Embedding manager | `app/embedding_manager.py` | `_state`, `_process`, `_lock` | `start`, `stop`, `stop_for_resources`, `ensure_running`, `_tail_stderr` | the state stays READY while the process is being stopped; a caller that polls instead of locking |
| Request routing and VRAM guards | `app/main.py` | none of its own: reads the managers | `_resolve_chat_model`, `_route_audio`, `_route_music`, `_route_image`, `embeddings`, `load_model`, `unload_model` | check-then-act across four managers with no lock around them |
| Gateway middleware | `app/main.py` | count of requests in flight | authenticate, admit or answer 429, release | the slot must be released on every path, streamed answers included |
| Reload and reset | `app/main.py`, `app/registry.py` | the registry's tables, derived flags | `reload_registry`, `reset` | managers go on running servers of an older registry |
| Proxying | `app/proxy.py` | per call: upstream connection, bytes seen | stream and JSON forwarding, context-overflow retry with trimming, token metering | what is dropped first, bounded retries, usage counted once |
| Tool-call reconciliation | `app/tool_reconcile.py` | per stream: buffer, held chunks, names | match a name, rewrite deltas | order and framing of the stream under arbitrary chunking |
| Ollama surface | `app/ollama.py` | per stream: parser state | translate SSE to NDJSON | exactly one line that ends the answer, on every path |
| Token store | `app/token_store.py` | unsaved deltas, baseline, SQLite table | `add`, `flush`, `baseline` | a failed flush, a crash between counting and saving |
| Event bus | `app/events.py` | one bounded queue per subscriber | `subscribe`, `emit`, `unsubscribe` | a full queue drops the oldest |
| Metrics | `app/metrics.py` | counters | increments, rendering | none beyond the token counters |
| exl3 backend | `backend/exl3_server.py` | one generator, a queue of jobs | `run_job`, the SSE writer | tags split over chunks, abort, one job at a time |
| Registry, configuration | `app/registry.py`, `app/config.py` | parsed YAML | parsing, argv building | data, no concurrency |
| Scripts, Docker, opencode plug-ins, docs, tests | | | | not part of the running system |

How they interact: a request passes the gateway, is routed by `main.py`, which
reads the managers' states, stops the tenants that must leave the GPU, and
calls `ensure_model` of the one it needs; then it is proxied, with no lock
held, to the port the manager returned.  Managers emit events on the bus and
count in the metrics; token counts go to the store.  Four kinds of task run
beside requests: a watcher per manager, a tail per subprocess, the token
flusher, and shutdown, which cancels the watchers and takes every lock once.

For each part, what makes it correct:

* managers: one process at a time; none lost; ready means the model asked for;
  every caller answered; idle models unloaded, pinned or busy ones not; events
  tell one story per launch; no config file left;
* routing: the documented exclusions between tenants hold when the request
  reaches its backend; nobody waits for ever for somebody who waits for him;
* gateway: never more requests in flight than the cap; every admission is
  released once;
* token store: counted tokens are saved once, whatever flush fails;
* event bus: a subscriber sees a subsequence in order, and only the oldest is
  given up;
* trimming: the system block and the newest messages survive, and what is left
  fits;
* streams: the client sees the same however the bytes were cut; nothing lost,
  reordered or duplicated; usage counted once; exactly one end.

The hazards, line by line, are in `PROJECT.json`.

## 2. Plan

1. `ModelSlot` (abstract) and `ProcessManager` with its proofs: the heart of
   the system, and the pattern for the other managers.  *Done, proved, the
   refinement included.*
2. `EmbeddingManager`, a variant of it that refines the same `ModelSlot`.
   *Done, proved, the refinement included.*
3. `VramGuard`: the routing rules over managers taken as abstract slots.
   *Done, its exclusions proved.*
4. `TokenStore`, `EventBus`, `Gateway`: small, self-contained.  *Done, proved.*
5. `RoleServerManager`: the audio, image and music managers, under a registry
   that is reloaded while they run.  *Done, proved, the refinement included.*
6. `ContextTrim`, `ChatRelay` (relay, token meter, tool-call reconciler and
   Ollama stream, which all read the same bytes), `Exl3Stream`: the sequential
   algorithms, over all inputs of a few parts and every way to cut them.
   *Done, proved.*
7. Left: the lifespan of the application as a module of its own (background
   starts against shutdown); the parsing of the registry and the VRAM table as
   functions.

| Modules | Extend or instantiate |
|---|---|
| `ProcessManager`, `EmbeddingManager`, `RoleServerManager` | instantiate `ModelSlot` under their refinement mapping |
| `MCProcessManager`, `MCEmbeddingManager`, `MCRoleServerManager`, `MCVramGuard`, `MCChatRelay` | extend the module they are named after, with its small instances |
| `MCServices` | composes `TokenStore`, `EventBus`, `Gateway`, `ContextTrim`, `Exl3Stream` and `MCChatRelay` |
| `ProcessManagerProofs`, `EmbeddingManagerProofs`, `RoleServerManagerProofs`, `VramGuardProofs`, `ContextTrimProofs`, `Exl3StreamProofs`, `ChatRelayProofs` | extend the module they are named after; those of the three managers end with the refinement of `ModelSlot` |
| `ServicesProofs` | extends `MCServices` and the proof modules of its streams |

## 3. The chat-LLM manager

`ProcessManager.tla` models all of `process_manager.py`.

| State | In the code |
|---|---|
| `lockq` | `_lock`: `asyncio.Lock` is fair, so the holder followed by the waiters is a queue |
| `pc[t]` | where task `t` is suspended: waiting for the lock, inside `_stop_current` (called from a swap, from a failed launch, or from unload/watcher/shutdown), inside `create_subprocess_exec`, in `_wait_healthy` (`boot`, or `answered` when the 200 has come but the task has not resumed), on its way to the backend (`route`), or reading its answer (`stream`) |
| `current` | `_current`, as the process its entry holds |
| `proc[p]` | a subprocess and its `RunningModel`: the entry's state; the operating system's view (`booting`, `serving`, `exited`) and the loop's (`reaped`: `returncode` is set); the exit code class; the last signal; whether `_tail` still runs; the last event said about it |
| `victim`, `wasReady` | the locals of `_stop_current`; one task at most is in it, by the lock |
| `files` | the rendered `--profile` files, one per model with `config_json` |
| `age`, `pin`, `limit` | time since `_last_activity`; what is left of `_pinned_until`; the watcher's local `threshold` |
| `upstream[r]` | the process that answers request `r` once the lock is released |

A stop is one action when nothing has to be awaited (`QuickStops`: nothing to
stop, returncode already known, signal finds no process) and otherwise two,
`Terminate` and `Stopped`, with `Kill` between them once the stop timeout has
passed.  Process exits (`Exits`), their discovery (`Reaped`) and the end of the
tail (`TailEnds`) are separate, so every order of the three against the
manager's steps is explored.  The clock counts in ticks; timeouts may fire at
any time, which covers every relation between them and the work they bound.

`ModelSlot.tla` says what the manager promises, without lock or process: a slot
that is empty, loading, ready, broken or draining, and callers who wait and are
granted the model they asked for only when the slot is ready with it.
`ProcessManager!ImplementsSlot` is the refinement.

### Runs

| Run | Checks | Bounds |
|---|---|---|
| `pm_safety` | type; one server; no stray process, shutdown included; files; the lock and slot invariant; grants; event order and completeness; refinement of `ModelSlot` | 2 requests, 2 models with config files, 2 process identities, window 1 tick |
| `pm_live` | every caller answered, idle models unloaded, shutdown ends | 2 requests, 1 process identity, window 1 tick or never, pins of 1 tick, `SignalRace` |
| `pm_dead_grant`, `pm_idle_inflight` | each refutes one statement of the documentation, see Findings | as small as the case allows |

Why the bounds are enough: one lock serialises every change of the slot, so two
requests, one caller of `unload`, the watcher and shutdown already give a holder
with four waiters of every kind; a third request adds nothing but queue length.
Two process identities suffice because one is used again as soon as nothing
refers to it, and a property violated by three at once (`OneServer`) is already
violated by two.  Ages and windows need only the order relations between them:
one tick reaches the window, and the clock saturates there (`MaxAge`).  `MaxPin`
is 0 where pins do not matter.  `SignalRace` stands for the
`ProcessLookupError` branch of `_stop_current`: asyncio raises it only in the
gap between a child's exit and the loop's note of it, on some platforms; there
the code skips the removal of the file (line 222), so `pm_safety`, which checks
`FilesMatch`, has it off and `pm_live` has it on.

Fairness (`FairSpec`): the event loop runs every ready task, so each task's
steps are weakly fair; the clock advances, so do timeouts (`Kill`, the startup
deadline); a process that has been sent SIGKILL exits, and exits are
discovered.  Nothing is assumed of clients, of the length of an answer, or of a
process that was only sent SIGTERM.

### Findings

`PROJECT.json` quotes the sentences.  In short: a backend that exits with code 0
stays READY and is handed out again (`pm_dead_grant`); a request in progress
does not count as activity, so an answer longer than the window is cut by the
watcher (`pm_idle_inflight`).

Two observations that no run is spent on.  The watcher computes the threshold
of the model it sees, waits for the lock, and applies it to the model it finds
then (lines 333 and 345), although README line 116 gives each model its own
window.  Shutdown cancels the watcher even in the middle of a stop; `_current`
is None by then, so the stop that follows finds nothing (line 357), and the
rendered file, and a process that ignores SIGTERM, are left.  `BeginShutdown`
has both.  `FilesMatch` therefore speaks of a manager that is still open, and
`NoStrayProcess` says of a manager that is not that what it leaves alive has at
least been told to end.

### Proofs

`ProcessManagerProofs.tla`, for any sets of models, requests and processes:

* `TypeCorrect`: `Spec => []TypeOK`;
* `ManagerInvAlways`, `OneServerAlways`, `NoStrayProcessEver`,
  `EnsureDeliversAlways`;
* `FilesMatchAlways`: `Spec => [](~SignalRace => FilesMatch)`;
* `EventsInOrderAlways`: `Spec => EventsInOrder`;
* `ChatManagerIsASlot`: `Spec => ImplementsSlot`.

`OneServer` is not inductive: it needs to know that nobody spawns while a
process is being waited for.  The inductive invariant is `TypeOK /\ ManagerInv`,
the conjunction of `LockInv` and `SlotInv`: the queue holds every task once and
whoever is inside the locked section is at its head (so two tasks are never
inside: `InsideAlone`), and where the holder stands determines what `current`
and `victim` are; in particular every living process is one of the two, and they
are never both set.  Each of the three conjuncts has a lemma per group of
actions (`...Type`, `...Lock`, `...Slot`).

The theorems after them rest on that invariant and add what they need:

* `Told`: a living process that is not current has been sent a signal, and none is
  current once shutdown is over; `NoStrayProcess` needs it for the time in which
  the lock says nothing, after shutdown has cancelled the watcher;
* the files are those of `current`, of `victim` and of the model a request is
  about to spawn; at most one task is inside, so at every moment that is one
  model at most besides those two (`FilesNow`, `FilesNext`).  With `SignalRace`
  the statement is false, for the reason above, and the theorem says so;
* `SaidInv` says what has been said of a process, from its entry and from where
  the task stands that will say the next thing;
* `WantInv` (who waits wants a model) and `HeldInv` (whoever launches finds its
  entry still LOADING, and beside a current entry no other process is alive),
  and one lemma per kind of slot step (`WantStep`, `GrantStep`, `LoadStep`, ...)
  that each action is then matched to.

Liveness is model-checked only.

### Not modelled here

Log text; event payloads and `metrics` counters; a failure to write the config
file (`_render_config` raising); cancellation of a request task from outside;
the 64 KiB line limit of `_drain`; two model names that sanitise to the same
file stem.

## 4. The embedding manager

`EmbeddingManager.tla` models all of `embedding_manager.py`.  It has the
chat manager's lock, process and two-signal stop, with three differences that
carry its hazards: `_state` belongs to the manager and not to the process
(`state`), `ensure_running` reads it without the lock (`EnsureRunning`) and, if
it is LOADING, polls (`Polled`), and `_stop_locked` cancels the tail of the
process it stops (`Untailed`).  `was` holds what `_stop_locked` and its caller
noted before waiting; `freed` is `_stopped_for_resources`.  Three kinds of task
call in: `Caller` (embeddings requests and background relaunches), `Evictor`
(`stop_for_resources`, only if it sees READY) and `Stopper` (`stop`).

| Run | Checks | Bounds |
|---|---|---|
| `embed` | type; one server; the state is true; a stop leaves nothing; events in order; refinement of `ModelSlot`; everyone is answered | 2 callers, 1 evictor, 1 stopper, 2 processes; `SignalRace` off |

Two callers are needed for one to poll while the other loads; an evictor and a
stopper give the lock four waiters of every kind.  Fairness is that of the chat
manager.  The poll's deadline may fire at any time, so the run does not depend
on it.

`StateIsTrue` says what the manager's one state, which belongs to no process, may be
at any moment: LOADING only while a start is at work (`LoadingIsOwned`, which is
what pollers wait for), and STOPPED or FAILED only while nothing is alive: the tail
of an older process must not say of the new one what became of its own
(`embedding_manager.py:268`), which is what the cancellation in `_stop_locked` is for.

An observation: `ensure_running` answers True for a server that has already been
told to stop (`embedding_manager.py:243`; "Returns True if the server is (now)
ready"), because the state stays READY until the process has gone.  The manager
also shares the chat manager's weakness: after a clean exit the state stays
READY, and `ensure_running` looks at nothing else.

### Proofs

`EmbeddingManagerProofs.tla` proves all safety properties of the run, for any
sets of callers, evictors, stoppers and processes.  The inductive invariant is
`EmbedInv`: `TypeOK`; `LockInv`, as for the chat manager; and `SlotInv`, which
says

* what a task at each place inside the lock may rely on (`Standing(pl)`): while
  it stops, that `victim` is a process; while it spawns, that there is none; while
  it loads, that its process is the manager's and nothing was said about it yet;
* what processes have to do with the manager's three fields (`ProcInv`): a
  living one is `process` or `victim`, only `process` has a tail, one that the
  manager does not count as READY or LOADING is reaped.

`StartNeverStops` shows that a start never finds a process to wait for: that is
why `BeginLaunch`, which models the stop inside `start`, needs no wait, and it is
a fact about all interleavings, not an assumption.  The module
ends with the refinement of `ModelSlot`; it needs one more fact, `HeldInv`: a
manager that holds a process is not "stopped".

## 5. The audio, image and music managers, and reload

`RoleServerManager.tla` models `server_manager.py` for one role, and
`Registry.reload` as far as a manager sees it.

| State | In the code |
|---|---|
| `registry` | the models of the role that a lookup finds; `Reload` may set it to anything at any time |
| `lockq`, `pc` | the lock, and where each task is suspended, as in section 3 |
| `want[r]` | the config request `r` looked up before it asked for the lock |
| `current`, `victim`, `killed` | `_current`; the entry `_stop_current` waits for, and whether SIGKILL was sent |
| `proc[p]` | the subprocess, `reaped` once `returncode` is set |
| `files` | the rendered config files |
| `age`, `pin` | time since `_last_activity`; what is left of `_pinned_until` |

Events, metrics and ports are left out of this model: `_stop_current`, `_launch` and the
tail emit the same kinds of event as the chat manager's, for which the story they
tell is checked (`EventsInOrder`).

A request goes on with the config it looked up, whatever is reloaded while it
waits; a running server goes on with the one it was started with.

| Run | Checks | Bounds |
|---|---|---|
| `role` | type; one server; files; refinement of `ModelSlot` | 3 requests, 2 models, one of them with a config file, 2 processes, window, clock and pins of 1 tick |
| `role_pin` | refutes "Suppress idle unload for the next `seconds`" | the same with 2 requests |

Three requests are one that holds the lock, one that waits for the same model
and one that waits for the other.  Two processes are enough for the reason given
in section 3.  No liveness is stated: nothing in this manager's scheduling differs
from the chat manager's, where it is checked.

The finding: the watcher looks at the pin before it waits for the lock and not
again; a load that finishes while it waits, and is pinned, is unloaded at once.
`PinSuppressesUnload` speaks of that step of the watcher only: what other requests
and an explicit unload do to a pinned model is theirs to do.

Observations:

* The role managers ignore a model's own `idle_unload_seconds`, and have a watcher
  only if the global window is positive (`server_manager.py:352`; `Window`).
* After a reload, `ensure_model` finds the running server by name, and returns
  the new config, port included, for a server that runs with the old one
  (`server_manager.py:232`).  Ports are left out of the model.
* Reload leaves the managers' own `_configs` as they were (music's in every
  case, `main.py:438`); they are read for error messages only.
* Both branches of `_wait_loading_settled` that wait are dead: an entry is LOADING
  only while its launcher holds the lock (`SlotInv` of the proofs has it).

### Proofs

`RoleServerManagerProofs.tla` proves `TypeOK`, `OneRoleServer` and
`RoleFilesMatch`, for every set of models, requests and processes and every
sequence of reloads.  The inductive invariant `RoleInv` adds to them `LockInv`,
`SlotInv` (who is inside and what is in the slot agree) and, in `OwnInv`, that
what is alive belongs to one of the two entries; none of these is inductive
alone.  The refinement of `ModelSlot` follows; its `LaunchInv`
says that whoever launches finds its own entry in the slot, still LOADING.

## 6. Routing and the VRAM guards

`VramGuard.tla` takes each of the six managers as a lock (`lockq`) and a slot
(`slot`) and models the routes of `main.py` as
lists of steps (`Route`): evict these managers, evict the embedding server if it
looks up, ensure a model.  A list is computed when the request begins, from the
settings alone, as in the code; what the code looks at later (whether the
embedding server is up, whether both audio servers run, whether a big model is
loaded) is looked at in the step.  `running` makes the event loop explicit: a
task that finds a lock free goes on without letting anybody in between, and an
`asyncio.gather` always gives the loop back.  A failed chat load stops the
embedding server and tries once more (`AfterFailure`); a successful one starts
the relauncher (`Relaunches`).

A slot is `"empty"` or has a server in it, in a phase that says what the code's
looks without a lock make of it:

| Phase | In the code | What sees it |
|---|---|---|
| `starting` | inside `create_subprocess_exec`; `_current` is None | nothing |
| `loading` | in `_wait_healthy`; `_current` is LOADING | the 409 check |
| `ready` | `_current` is READY | the 409 check, `is_running` |
| `failing` | being stopped because it did not become healthy | nothing |
| `draining` | being stopped for a request, which holds the lock | `is_running` of the embedding manager only |
| `unloading` | being stopped by the watcher, which holds the lock | nothing |

A manager whose idle time is not 0 (`Watched`) has a watcher.  It waits for the lock
like any task, with the difference that it takes it only for a server that is ready then
(`WatcherAsks`, `WatcherStops`, `WatcherSkips`), and holds it until the process has
gone (`WatcherDone`).  How long a server has been idle is not modelled: a watcher may
find it idle at any time.

| Run | Checks | Bounds |
|---|---|---|
| `vram` | `TenantsExcluded`, `BigExcludesAudio`, every call ends | one request at a time, every kind (`OneTenant`), in the 17 `Configurations` below; and 2 overlapping requests (`TwoEvicting`: image, music or an admin load, against a big chat model), every rule on and the chat manager's watcher there |
| `vram_race` | refutes "a diffusion model never shares the GPU" | 2 requests of any kind (`TwoAny`), every rule on, no watcher |

`TenantsExcluded` names for every pair of tenants the settings that must be on
for the pair to be excluded; each pair needs at most three settings, and a rule
that depends on one setting more than it should shows with that one off.
`Configurations` therefore has every rule on and one of the four watchers there; and,
with `embedding_auto_start` off and no watcher, all or all but one of the other ten.
Without `unload_audio_on_big_llm` the chat watcher and that of the audio servers
are tried as well, for the rule that is about audio servers that stay.

`TenantsExcluded` holds of servers in every phase: each of its exclusions evicts
through the victim's lock, which the watcher holds until the process has gone.
`BigExcludesAudio` does not.  The 409 of the audio route and the choice of the
chat model look at states without a lock, and a server that its watcher is
unloading is stopped already as far as they can see.  So an audio request that
comes while an idle big model is being unloaded passes the check
(`main.py:1012-1026`), takes no lock of the chat manager (1033-1038) and loads
beside it, although the comment above the check says "so TTS/ASR cannot stack on
top of a large model" (1008-1011); and a big model is loaded although
`audio_vram_guard` is on, if one of the two audio servers is on its way out when
the other is looked at (584-595).  This happens with requests one at a time, and
lasts as long as the process takes to end.  The property says that this is all:
a big model that is not being unloaded never has an audio server beside it,
alive in whatever phase, if audio is evicted and refused; and never two that are
not being unloaded, if audio is refused and the choice is guarded.

`EveryCallEnds` assumes strong fairness of each task.  Weak fairness would not
do in a model with an explicit loop: a ready task is disabled whenever another
runs, and the loop's queue of ready callbacks is what keeps it from being passed
over for ever.  Of the watchers, strong fairness of one step of any that holds a
lock is enough: what a task waits for behind a watcher is that watcher's next
step, and nothing is assumed of when a server is found idle.  The model of one
manager is that of its lock and slot only: `ModelSlot`, which the three manager
modules implement, is that promise. `serial` tells the two kinds of behaviour
apart: the rules are claims about requests that come one at a time, and
`vram_race` shows why they cannot be more.

### Proofs

`VramGuardProofs.tla` proves `TypeOK`, `TenantsExcluded` and `BigExcludesAudio` for any
set of requests and calls and every combination of the settings; loads fail, servers
die and watchers unload at any point.  The exclusions themselves are not inductive: they
hold because of what a request that is under way still has to do.  `IInv` says it:

* `Base`: types; who holds or awaits a lock has the step for it at the head of
  its plan (`QueuesInv`, `BusyInv`); a plan is evictions first and then at most one
  load, and one request at a time has one (`PlansInv`);
* `RivalsInv`: two tenants that the settings exclude are `Apart`, that is, not on
  the GPU together, and whoever plans to load one of them still owes the
  eviction of the other, or the other is gone.  Every route establishes that
  when it is computed, an eviction keeps it by emptying the slot it no longer
  owes, and a load by its being clear;
* `BlockInv`: while an audio request is under way there is no big chat model, or it
  is being unloaded: the request was refused otherwise, and nobody else can load one
  meanwhile;
* `BigInv`: the same as `RivalsInv` for audio and a big chat model that stays, that is,
  one that its watcher is not unloading (`StayingBig`);
* `BothInv`: whether both audio servers run, in which case the small model is
  served instead, is looked at when the chat route asks for its lock; from then
  on (`Decided`) a request for a big model keeps them from being there together, both
  to stay.

What a step of a task does is said once, in `Acts`: it asks for locks, skips a
step, empties a slot it had to evict, drains, launches, serves or fails.  Each
part of the invariant is then proved against those seven, and against a new
request (`BeginsKeeps`), and what happens without one: a server that dies, a
watcher, a step that does nothing (`FewerKeeps`: no slot has more in it
afterwards). `NothingMoves` is what makes a look at the slots when a request
begins worth something: alone, it finds no slot that loads or drains for a
request.  `GuardCalls` is the assumption to know of: a request to load by the
admin endpoint, which no rule covers, is not among the calls that come one at a
time.  TLC evaluates it on the instances, and was used to check `IInv` on the
bounds of `vram` before it was proved.

More sentences of the repository's README do not hold, for reasons visible
in the routes themselves:

* an image or music request leaves an embedding server alone that is still
  loading (`EvictIfUp`: `is_running` is false then), although "embedding" is listed
  among what is stopped (README line 160);
* `POST /v1/models/{model}/load` and `/v1/audio/voices` load with no rule at all
  (`Route`, calls `load`), although "every resident backend is either supported
  by an explicit rule, evicted by an explicit rule, or refused" (lines 218-220);
* `unload_image_on_music` has an effect only together with `unload_on_music`
  (`main.py:1427` and `1432`; README line 191 has it as a setting of its own).

## 7. Token store, event bus, gateway

`TokenStore.tla` models `token_store.py` with the session counter of
`metrics.py`: counting, flushing when five seconds have passed, a flush that
fails, the flush of the lifespan and the one of `atexit`, a database that cannot
be opened or only read in part, and crashes.  `counted` and `lost` are history.
`Balanced` says that no token is saved twice or dropped except with its process;
`RenderedIsTrue` that the number on `/metrics` is what is saved or about to be,
and, without a connection, when the totals may have been read in part
(`token_store.py:76`), that it is never more than that and never less than what
this process has counted.  Bounds: two keys, reported counts -1 to 2, three
tokens per key; flushes depend on nothing but whether something is pending, so
larger totals add nothing.

`EventBus.tla` models `events.py` and the generator of `GET /v1/events`.  An
event is its number.  `OnlyOldestAreLost` says that what waits for a subscriber is
an unbroken run that ends with the newest event, and that every event since it
subscribed is sent, waiting, or was given up for room; `SentInOrder` that no
event is sent after a later one, or twice.  Bounds: two clients, queues of two,
five events: enough for a queue to overflow, be read and overflow again.  Left
out is the wait with a timeout (`main.py:2140`): a cancelled `Queue.get` takes
nothing from the queue, so a timeout is not a step.

`Gateway.tla` models `_GatewayMiddleware`: the keys, the cap and the request
counter.  `Ends` is the `finally` clause, reached whether the application
answered, raised or was cancelled.  Bounds: three requests, caps 0 to 2, every
combination of keys.  A client that is gone while a refusal is sent is left
out: the server ignores what is sent to it.  Two things the model makes plain:
a refusal carries no `Retry-After`, which the README (line 1458) and
`config.py:116` announce; and a request cancelled before its answer began is
counted as a 200.

These three and the streams of section 8 share no state, so one run, `services`,
checks all six (`MCServices`): in each behaviour one of them is the subject.
Nothing has to happen in the end in any of them, so no fairness is assumed.
`services`, `relay_frames` and `relay_uncounted` are the runs without a deadlock
check: they stop when the bounded events or requests, or the stream, are used
up.  Clients of the bus and requests of the gateway are symmetric.

### Proofs

`ServicesProofs.tla` has a section for each of the three, and one for the whole.

* Tokens: `Balanced` and `RenderedIsTrue`, for any counters and
  amounts.  `StoreInv` adds to them the types and that a process that is down
  has nothing pending (`NothingWaits`).
* Events: `OnlyOldestAreLost` and `SentInOrder`, for any number of
  clients and events and any capacity.  `BusInv` adds `NothingOldWaits`: what was
  sent last is older than what waits.
* Gateway: `InflightCounts`, for any set of requests, finite or not,
  and any cap.  `GatewayInv` adds that the requests inside are finitely many,
  without which their cardinality would be no number.
* Side by side: of every behaviour of `MCServices` each of the six parts sees one of
  its own (`PartsKeepTheirSpecs`), so that the theorems here and those of section 8
  hold of the composition; with their types follows `TypeOK`
  (`ServicesTypeCorrect`).

## 8. Conversations and answers

Three algorithms that keep state within one call.  They are sequential: the
difficulty is not who runs when but where the bytes are cut.

`ContextTrim.tla` models the retries of `proxy_stream` and `proxy_json` when a
prompt overflows the context, and `trim_messages`.  The proxy only estimates
tokens, so a message has two sizes, `est` and `real`, and the backend's refusal
tells the real total.  `EndsAreKept` says that what is sent begins with the
original's leading system block and ends with an unbroken run of its newest
messages that begins at a turn; between them there is one marker per trim, and
nothing else but system messages of the part that was dropped: after a trim, a
system message that comes next belongs to the leading block and is pinned from
then on.  `TrimIsEnough` says that a trim reaches its aim, up to the marker, unless
nothing that may be dropped is left.  Bounds: up to four turns with or without a
system message in front of them and one between them, sizes 1 and 3, estimators
that are right, too high, or blind to size, a context of 8, four attempts: two
trims in a row, and a turn whose tool results go with it, all occur.
Observation: the size of the marker itself is not counted, which is why
`TrimIsEnough` allows for it.

`ContextTrimProofs.tla` proves both, for conversations of any length and any sizes.
`EndsAreKept` is inductive together with the types.  A trim cuts `body` behind some
`c`, and the argument is that the last marker, at `p`, is part of the leading block
of `body` (`MarkersLead`: markers are system messages), so that `c` lies behind it
and what remains is an end of the original, cut at `k + (c - p)`; and that a
group of what is left begins where one of the original does (`GroupsCarryOver`),
which needs that the previous cut did not split one.  For `TrimIsEnough` the sizes
have to be added up.  The library's induction theorems take an operator and
cannot be used, but that a set of numbers has a least one follows from
well-foundedness of `<` as a relation, and from it induction for a *set* of numbers
(`SetInduction`); so the sums are proved to exist (`SumExists`), and runs of equal
messages to have equal sums (`SumsOfRuns`).  If all was cut that may be, what is left
has no place to cut, for it would have been one before.

`ChatRelay.tla` models what happens to a chat answer: `proxy_stream` relays it and
meters tokens, and then either the client gets it (`via = "plain"`), or the
OpenAI route recovers refused tool calls (`"reconcile"`), or an Ollama route turns
it into NDJSON (`"chat"`, `"generate"`).  A data line is two atoms and a line end is a
third, and each consumer keeps its own buffer, as in the code, so every cut
inside a line, between lines and between the two line ends of an event is
explored.  Upstream may end, or break off anywhere; the client may leave.  The
backend may also send an error as an event of the stream and then only `[DONE]`
(`exl3_server.py:697-719`): `stream_response` passes it on and returns at once
(`ollama.py:407-409`), so that the stream is `left`.  `AnswersEnd` assumes what that
code makes of every answer: nothing follows `[DONE]`, and nothing but `[DONE]` an error.

| Property | Says |
|---|---|
| `StreamIsRelayed` | everything but the events that end the stream is passed on as its line completes; in the end every event is there once |
| `CallsAreRecovered` | a call is added for each name written in vain that means one tool, with a new index and its own arguments, or, for the bare ones, those of the blocks of its name, in order, as far as there are any; nothing is invented; the whole-answer form adds the same calls, once per tool and none for a tool the backend called |
| `UsageIsCountedOnce` | a stream relayed to its end is counted once, by the last usage or else by its text; any other is not counted |
| `OllamaEndsOnce` | the pieces in order, then one line that ends the answer: `done` with every call and the last usage, or an error if the upstream sent one or broke off |

Names are told apart as `_norm` does (`tool_reconcile.py:186-188`): spellings that it
makes equal are one member of `Name`.  That `rejected_calls` tells two of
them apart by the raw name is left out.

Bounds: bodies of up to three events, fourteen endings (with final event, usage
and `[DONE]`, missing or doubled, or with an error), chunks of up to five atoms,
so that an event and the beginning of the next come together, three names of
which one is a tool's, one ends like a tool's and one only resembles it, blocks
with and without arguments, and three sets of tools (in the proofs any that are
finite). Two runs refute sentences: `relay_frames` ("Passes an SSE stream
through untouched": the final event and `[DONE]` come out as one event) and
`relay_uncounted` ("Every proxied chat/completion response counts": an Ollama
answer that was sent to its end is not, as its reader stops at `[DONE]`).

Observations: the response's `model` is not rewritten when its data line comes in
two chunks (`proxy.py:5`; README line 276); unlike the whole-answer form, the
streaming reconciler adds a call for a tool that the backend called itself, or
twice for one; after upstream broke off it may still add a call, behind the error
event; an Ollama stream that breaks off between the last two line ends gets both
the `done` line and an error, and one that ends without `[DONE]` gets a `done` line.

`Exl3Stream.tla` models how the exl3 backend splits generated text into
reasoning, content and tool calls, piece by piece and all at once.  A tag is two
symbols, and tags that begin alike share the first, so that a piece can end in
the middle of a tag and be held back for one it is not.  `ChunkingIsInvisible`
says that what the client has does not depend on the cuts,
`StreamAgreesWithWhole` that streaming and not streaming agree on well-formed
text.  The `while True` loop of `feed_tools` is a sequence of rounds (`Round`),
and the whole answer is split block by block (`Blocks`), as `re.finditer` does
it.  Bounds: a lead and up to three parts out of words, line ends, payloads,
tags, torn tags and a whole call, pieces of up to three symbols.  Preconditions
that the two properties need, and why: an opening `<think>` is recognised only
if it comes in one piece; text after a tool call is dropped when streaming; a
block that cannot be parsed is dropped, and the stream has no usage record.

`Exl3StreamProofs.tla` proves both, for any text and any cut into pieces.  The code's
state after some pieces is what it would be after their text in one piece
(`Consumed`), except that more of the text may still be held back: this is the
inductive invariant, and when the stream has ended it says that the output is
`AnswerTo`, a function of the text alone, hence not of the cuts.  Three arguments
carry it.  What is held back is all that the next piece needs to be read as if
nothing had been cut (`Resume`): a tag that the two together make begins in the
part held back.  Rounds that stop for want of text can be taken up again with
more of it, and come to what they would have come to (`FinalOfMore`).  And on a
well-formed text the rounds of the stream and the blocks of the whole answer are
the same, one by one (`BlocksAgree`).  The loops have no bound of their own; that
a sequence of their rounds exists and ends (`LoopExists`) is proved, from the length of
what is left to read, by the induction over a set of numbers that `ContextTrimProofs`
uses.

`ChatRelayProofs.tla` proves all four, and the types, for any answer and any way to
cut it.  The argument is that of the buffers: of the bytes that have
come, a reader needs only the unfinished line.  `Split` reads atom by atom, so
that what is read of `s \o t` is what is read of `s` and then what is read of
`t` behind the residue of `s` (`LinesOfJoined`); a residue has no line end
(`ResidueIsPlain`).  Hence a meter and a reconciler that keep the residue are, after any
chunks, what they would be after the same bytes in one piece (`MeterFeeds`,
`ReconcilerFeeds`), and this, for the bytes `Sent` so far, is the inductive invariant
`RelayInv`.  What a client reads of bytes that are lines put together is what it reads
of the lines one by one (`SaysThrough`), which is used three times: for the
wire, for the lines passed on, and for the end that is synthesized.  `FlattenSeq` and
`Split` are recursive functions, so each of these begins with a proof that the
function exists and what its next step is (`RunExists`, `FlatIs`, `SplitIs`).

The Ollama stream cuts its buffer at blank lines instead of line ends, so it needs an
argument and an invariant of its own.  `Stop` is the event that ends the answer
(the error, else `[DONE]`, else the failure to come), and `ToldBy(m, b)` is what
`stream_response` has said and remembers behind the first `m` events, with `b` in its
buffer.  The next event takes `ToldBy(m, b)` to `ToldBy(m + 1, b)` (`HearsNext`), and
every event from `Stop` on changes nothing.  An event is four atoms on the wire,
so a buffer is always the first `r < 4` atoms behind `4 * m`, and the last blank line of
`d` events and `r` atoms lies behind the `d`th (`Converts`).  Hence `OllamaInv`: some
`m` and `r` make up `at`, the buffer is that beginning of an event, and the
client has been told `ToldBy(m, buffer)`, wherever the chunks were cut; and once the
stream has ended, was left or broke off, the lines are what `Stop` makes of them.
`OllamaEndsOnce` follows.

For the recovered calls the cuts are soon out of the way: only events that are
held back have refused calls (`HeldRefuse`), so that at the end what the
reconciler makes of the events it held is what it would make of all of them;
this is `CallsInv`.  The rest is about loops: pairing refused calls with written
blocks (`Merged`) and the whole-answer form (`JsonCalls`) are folds, that is,
recursive functions chosen over the indices of a sequence; `LoopRuns` proves
that such a function exists, `StepByStep` and `LoopIsOne` that two that start
and go on alike are one, `FoldsExist` what a fold ends with.  The invariant of
the pairing is per name: the blocks of a name that are left are those behind as
many as there were bare calls of that name (`IsLeft`, `Behind`), hence each bare
call gets the block whose turn it is (`DonePairs`), and, as all calls of a name
mean the same tool or none, this stays so when the calls without a tool are
dropped (`MeantPairs`).  `JsonIs` does the same for the whole-answer form: it
keeps the first call of each tool.  An earlier form of `CallsAreRecovered` said
that a call that ends without arguments has left no block of its name; the proof
showed it to be false of an answer in which a written block has no arguments
itself, which the merge gives to a refused call like any other.  It now says
which block each call gets, and `MCChatRelay` has such an answer.

## 9. Hazards without a property

Five of the hazards in `PROJECT.json` have none:

* `embedding_manager.py:243`, True for a server on its way out: a property that
  forbids it does not hold (section 4);
* `main.py:2183`, loads without rules: by design of the endpoint there is nothing
  for them to keep (section 6);
* `main.py:632`, the background relaunch: an eviction passes it by while it
  loads, and shutdown does not wait for it.  `VramGuard` has the relauncher, but
  says only that it ends; the lifespan is not modelled;
* `process_manager.py:333`, the threshold of one model applied to another: a property
  that forbids it does not hold (section 3);
* `server_manager.py:232`, a server started before a reload: the model follows the
  code, and what the documentation suggests does not hold (section 5).

## 10. Proved, model-checked, not modelled

Proved by TLAPS, for every value of the constants that satisfies the named
assumptions of the modules:

| Module | Theorems |
|---|---|
| `ProcessManagerProofs` | `TypeCorrect`, `ManagerInvAlways`, `OneServerAlways`, `NoStrayProcessEver`, `EnsureDeliversAlways`, `FilesMatchAlways` (without `SignalRace`), `EventsInOrderAlways`, `ChatManagerIsASlot` |
| `EmbeddingManagerProofs` | `EmbedTypeCorrect`, `OneEmbedderAlways`, `StateIsTrueAlways`, `StopLeavesNothingAlways`, `EventsInOrderAlways`, `StartNeverStops`, `EmbeddingManagerIsASlot` |
| `RoleServerManagerProofs` | `RoleTypeCorrect`, `OneRoleServerAlways`, `RoleFilesMatchAlways`, `RoleManagerIsASlot` |
| `VramGuardProofs` | `GuardInvariant`, `GuardTypeCorrect`, `TenantsExcludedAlways`, `BigExcludesAudioAlways` |
| `ServicesProofs` | `TokensBalance`, `TokensRendered`, `QueuesKeepTheNewest`, `EventsAreSentInOrder`, `SlotsAreCounted`, `PartsKeepTheirSpecs`, `ServicesTypeCorrect` |
| `ContextTrimProofs` | `TrimTypeCorrect`, `EndsAreKeptAlways`, `TrimIsEnoughAlways` |
| `Exl3StreamProofs` | `ExlTypeCorrect`, `ChunkingIsInvisibleAlways`, `StreamAgreesWithWholeAlways` |
| `ChatRelayProofs` | `RelayInvAlways`, `UsageIsCountedOnceAlways`, `StreamIsRelayedAlways`, `OllamaInvAlways`, `OllamaEndsOnceAlways`, `CallsInvAlways`, `CallsAreRecoveredAlways`, `RelayTypeCorrect` |

The assumptions are about what the constants are (disjoint sets of tasks, a
`None` that is none of them, natural bounds, well-typed inputs), with two
exceptions: `GuardCalls` also says which calls come one at a time (section 6), and
`AnswersEnd` what comes last in an answer (section 8).

Every invariant that a passing run checks is proved.  Only model-checked, on the
bounds above, is liveness, for which the prover has no rules of fairness, and what
the runs that expect a violation find.

Not modelled: `proxy_json` apart from its retries, `proxy_raw` and the multipart,
audio, image and music proxies, which are single calls without state; the
conversion of Ollama requests and of whole answers, which is formatting; the exl3
backend's prompts, sampling and model loading; the parsing of registry and
configuration; the start-up and shutdown of the application around the managers;
metrics rendering; scripts, images and plug-ins.
