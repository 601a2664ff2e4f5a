---------------------------- MODULE VramGuardProofs ----------------------------
(***************************************************************************)
(* Theorems about VramGuard for every set of requests, every set of calls  *)
(* and every configuration.                                                *)
(***************************************************************************)
EXTENDS VramGuard, SequenceTheorems, TLAPS

IsLoad(step) == step.op \in {"ensure", "guarded", "retry"}

Slots == [Manager -> Server \cup {Empty}]

(* Who has asked for a lock is in its queue, once, until it is served.     *)
Queued(q, t) == \E i \in DOMAIN q : q[i] = t

QueuesInv ==
  /\ \A m \in Manager, t \in Task : Queued(lockq[m], t) <=> m \in waits[t]
  /\ \A m \in Manager : \A i, j \in DOMAIN lockq[m] : lockq[m][i] = lockq[m][j] => i = j
  /\ \A t \in Task : waits[t] # {} => todo[t] # <<>> /\ waits[t] \subseteq Head(todo[t]).who

(* A manager is busy while its slot is on the move, for the holder of its  *)
(* lock: the watcher if it is unloading, or else a task, which does load   *)
(* only if that is what it wants.                                          *)
Launching == {"starting", "loading", "failing"}

BusyInv ==
  /\ \A m \in Manager : busy[m] <=> slot[m].phase \in Moving
  /\ \A m \in Manager : busy[m] => lockq[m] # <<>>
  /\ \A m \in Manager : busy[m] => IF slot[m].phase = "unloading" THEN Head(lockq[m]) = Watcher
                                                             ELSE Head(lockq[m]) \in Task
  /\ \A m \in Manager : slot[m].phase \in Launching => ~Evicting(Head(lockq[m]))

(* A plan loads at its end or not at all, and one manager; if requests come*)
(* alone, a chat model is loaded by the chat route only.                   *)
WellFormed(q, alone) ==
  \A i \in DOMAIN q : IsLoad(q[i]) =>
    /\ i = Len(q)
    /\ IF q[i].op = "ensure" THEN \E m \in Manager : q[i].who = {m} ELSE q[i].who = {"chat"}
    /\ q[i].op = "ensure" /\ alone => "chat" \notin q[i].who

(* The background task has the embedding server in mind and nothing else.  *)
PlansInv ==
  /\ \A t \in Task : WellFormed(todo[t], serial)
  /\ todo[Relauncher] \in {<<>>, <<Ensure("embed", "only")>>}
  /\ serial => \A t, u \in Request : todo[t] # <<>> /\ todo[u] # <<>> => t = u

Base == TypeOK /\ QueuesInv /\ BusyInv /\ PlansInv

AnyModel == Name \cup {None}

--------------------------------------------------------------------------------
(* Plans.                                                                  *)

EvictStep == {step \in Step : step.op \in {"evict", "evict_if_up"}}

EvictsIn(q, m) == \E i \in DOMAIN q : q[i].op = "evict" /\ m \in q[i].who

LEMMA ConcatEvicts ==
  ASSUME NEW p \in Seq(EvictStep), NEW q \in Seq(EvictStep)
  PROVE  /\ p \o q \in Seq(EvictStep)
         /\ \A m : EvictsIn(p \o q, m) <=> EvictsIn(p, m) \/ EvictsIn(q, m)
<1>1. p \o q \in Seq(EvictStep)
  OBVIOUS
<1>2. ASSUME NEW m, EvictsIn(p, m)
      PROVE  EvictsIn(p \o q, m)
  <2>1. PICK i \in DOMAIN p : p[i].op = "evict" /\ m \in p[i].who
    BY <1>2 DEF EvictsIn
  <2>2. i \in DOMAIN (p \o q) /\ (p \o q)[i] = p[i]
    OBVIOUS
  <2> QED
    BY <2>1, <2>2 DEF EvictsIn
<1>3. ASSUME NEW m, EvictsIn(q, m)
      PROVE  EvictsIn(p \o q, m)
  <2>1. PICK i \in DOMAIN q : q[i].op = "evict" /\ m \in q[i].who
    BY <1>3 DEF EvictsIn
  <2>2. Len(p) + i \in DOMAIN (p \o q) /\ (p \o q)[Len(p) + i] = q[i]
    OBVIOUS
  <2> QED
    BY <2>1, <2>2 DEF EvictsIn
<1>4. ASSUME NEW m, EvictsIn(p \o q, m)
      PROVE  EvictsIn(p, m) \/ EvictsIn(q, m)
  <2>1. PICK i \in DOMAIN (p \o q) : (p \o q)[i].op = "evict" /\ m \in (p \o q)[i].who
    BY <1>4 DEF EvictsIn
  <2>2. \/ i \in DOMAIN p /\ (p \o q)[i] = p[i]
        \/ i - Len(p) \in DOMAIN q /\ (p \o q)[i] = q[i - Len(p)]
    OBVIOUS
  <2> QED
    BY <2>1, <2>2 DEF EvictsIn
<1> QED
  BY <1>1, <1>2, <1>3, <1>4

LEMMA EvictFacts ==
  ASSUME NEW ms \in SUBSET Manager
  PROVE  /\ <<Evict(ms)>> \in Seq(EvictStep)
         /\ \A m : EvictsIn(<<Evict(ms)>>, m) <=> m \in ms
  BY DEF Evict, EvictStep, Step, EvictsIn

LEMMA EvictIfUpFacts ==
  ASSUME NEW n \in Manager
  PROVE  /\ <<EvictIfUp(n)>> \in Seq(EvictStep)
         /\ \A m : ~EvictsIn(<<EvictIfUp(n)>>, m)
  BY DEF EvictIfUp, EvictStep, Step, EvictsIn

LEMMA WhenFacts ==
  ASSUME NEW s, NEW q \in Seq(EvictStep)
  PROVE  /\ When(s, q) \in Seq(EvictStep)
         /\ \A m : EvictsIn(When(s, q), m) <=> s \in on /\ EvictsIn(q, m)
  BY DEF When, EvictsIn

(* A plan of evictions that ends in a load.                                *)
EndsIn(plan, step) ==
  /\ plan \in Seq(Step) /\ plan # <<>>
  /\ \A i \in DOMAIN plan : IsLoad(plan[i]) <=> i = Len(plan)
  /\ plan[Len(plan)] = step

LEMMA PlanFacts ==
  ASSUME NEW q \in Seq(EvictStep), NEW step \in Step, IsLoad(step)
  PROVE  /\ EndsIn(q \o <<step>>, step)
         /\ \A m : EvictsIn(q, m) => EvictsIn(q \o <<step>>, m)
<1> DEFINE plan == q \o <<step>>
<1>0. q \in Seq(Step)
  BY DEF EvictStep
<1>1. plan \in Seq(Step) /\ Len(plan) = Len(q) + 1 /\ plan[Len(plan)] = step /\ plan # <<>>
  BY <1>0
<1>2. \A i \in DOMAIN q : i \in DOMAIN plan /\ plan[i] = q[i] /\ i # Len(plan)
  BY <1>0
<1>3. \A i \in DOMAIN plan : i = Len(plan) \/ i \in DOMAIN q
  BY <1>0
<1>4. \A i \in DOMAIN q : ~IsLoad(q[i])
  BY DEF IsLoad, EvictStep
<1> HIDE DEF plan
<1>5. \A m : EvictsIn(q, m) => EvictsIn(plan, m)
  BY <1>2 DEF EvictsIn
<1>6. EndsIn(plan, step)
  BY <1>1, <1>2, <1>3, <1>4 DEF EndsIn
<1> QED
  BY <1>5, <1>6 DEF plan

LEMMA LoadFacts ==
  ASSUME NEW name \in AnyModel, NEW m \in Manager
  PROVE  /\ Ensure(m, name) \in Step /\ IsLoad(Ensure(m, name))
         /\ GuardedEnsure(name) \in Step /\ IsLoad(GuardedEnsure(name))
         /\ Retry(name) \in Step /\ IsLoad(Retry(name))
  BY DEF Ensure, GuardedEnsure, Retry, Step, IsLoad, AnyModel, Manager

LEMMA ChatRouteFacts ==
  ASSUME NEW name \in AnyModel
  PROVE  /\ EndsIn(ChatRoute(name), GuardedEnsure(name))
         /\ "unload_image_on_llm" \in on => EvictsIn(ChatRoute(name), "image")
         /\ "unload_music_on_llm" \in on => EvictsIn(ChatRoute(name), "music")
         /\ name = "big" /\ "unload_audio_on_big_llm" \in on =>
              \A a \in Audio : EvictsIn(ChatRoute(name), a)
<1> DEFINE Music == When("unload_on_music", <<Evict({"music"})>>)
           Audios == <<Evict(Audio)>>
           AudioFirst == Audios \o Music
           ForBig == IF name = "big" THEN When("unload_audio_on_big_llm", AudioFirst) ELSE <<>>
           Images == When("unload_image_on_llm", <<Evict({"image"})>>)
           Musics == When("unload_music_on_llm", <<Evict({"music"})>>)
<1>1. Music \in Seq(EvictStep)
  BY EvictFacts, WhenFacts DEF Manager
<1>a. Audios \in Seq(EvictStep) /\ \A a \in Audio : EvictsIn(Audios, a)
  BY EvictFacts DEF Manager, Audio
<1> HIDE DEF Music, Audios
<1>2. AudioFirst \in Seq(EvictStep) /\ \A a \in Audio : EvictsIn(AudioFirst, a)
  BY <1>1, <1>a, ConcatEvicts
<1> HIDE DEF AudioFirst
<1>3. /\ ForBig \in Seq(EvictStep)
      /\ name = "big" /\ "unload_audio_on_big_llm" \in on => \A a \in Audio : EvictsIn(ForBig, a)
  <2>1. When("unload_audio_on_big_llm", AudioFirst) \in Seq(EvictStep)
    BY <1>2, WhenFacts
  <2>2. "unload_audio_on_big_llm" \in on =>
          \A a \in Audio : EvictsIn(When("unload_audio_on_big_llm", AudioFirst), a)
    BY <1>2, WhenFacts
  <2> QED
    BY <2>1, <2>2
<1>4. Images \in Seq(EvictStep) /\ ("unload_image_on_llm" \in on => EvictsIn(Images, "image"))
  BY EvictFacts, WhenFacts DEF Manager
<1>5. Musics \in Seq(EvictStep) /\ ("unload_music_on_llm" \in on => EvictsIn(Musics, "music"))
  BY EvictFacts, WhenFacts DEF Manager
<1>6. ChatRoute(name) = ((ForBig \o Images) \o Musics) \o <<GuardedEnsure(name)>>
  BY DEF ChatRoute, Music, Audios, AudioFirst
<1> HIDE DEF ForBig, Images, Musics
<1>7. /\ ForBig \o Images \in Seq(EvictStep)
      /\ \A m : EvictsIn(ForBig \o Images, m) <=> EvictsIn(ForBig, m) \/ EvictsIn(Images, m)
  BY <1>3, <1>4, ConcatEvicts
<1>8. /\ (ForBig \o Images) \o Musics \in Seq(EvictStep)
      /\ \A m : EvictsIn((ForBig \o Images) \o Musics, m)
                  <=> EvictsIn(ForBig, m) \/ EvictsIn(Images, m) \/ EvictsIn(Musics, m)
  BY <1>5, <1>7, ConcatEvicts
<1>9. GuardedEnsure(name) \in Step /\ IsLoad(GuardedEnsure(name))
  BY LoadFacts DEF Manager
<1>10. /\ EndsIn(ChatRoute(name), GuardedEnsure(name))
       /\ \A m : EvictsIn((ForBig \o Images) \o Musics, m) => EvictsIn(ChatRoute(name), m)
  BY <1>6, <1>8, <1>9, PlanFacts
<1> QED
  BY <1>3, <1>4, <1>5, <1>8, <1>10

LEMMA AudioRouteFacts ==
  ASSUME NEW role \in Audio
  PROVE  /\ EndsIn(AudioRoute(role), Ensure(role, "only"))
         /\ "unload_image_on_audio" \in on => EvictsIn(AudioRoute(role), "image")
         /\ "unload_music_on_audio" \in on => EvictsIn(AudioRoute(role), "music")
<1> DEFINE Images == When("unload_image_on_audio", <<Evict({"image"})>>)
           Musics == When("unload_music_on_audio", <<Evict({"music"})>>)
<1>1. Images \in Seq(EvictStep) /\ ("unload_image_on_audio" \in on => EvictsIn(Images, "image"))
  BY EvictFacts, WhenFacts DEF Manager
<1>2. Musics \in Seq(EvictStep) /\ ("unload_music_on_audio" \in on => EvictsIn(Musics, "music"))
  BY EvictFacts, WhenFacts DEF Manager
<1>3. AudioRoute(role) = (Images \o Musics) \o <<Ensure(role, "only")>>
  BY DEF AudioRoute
<1> HIDE DEF Images, Musics
<1>4. /\ Images \o Musics \in Seq(EvictStep)
      /\ \A m : EvictsIn(Images \o Musics, m) <=> EvictsIn(Images, m) \/ EvictsIn(Musics, m)
  BY <1>1, <1>2, ConcatEvicts
<1>5. Ensure(role, "only") \in Step /\ IsLoad(Ensure(role, "only"))
  BY LoadFacts DEF Manager, Audio, AnyModel, Name
<1>6. /\ EndsIn(AudioRoute(role), Ensure(role, "only"))
      /\ \A m : EvictsIn(Images \o Musics, m) => EvictsIn(AudioRoute(role), m)
  BY <1>3, <1>4, <1>5, PlanFacts
<1> QED
  BY <1>1, <1>2, <1>4, <1>6

LEMMA ImageRouteFacts ==
  /\ EndsIn(ImageRoute, Ensure("image", "only"))
  /\ "unload_on_image" \in on => /\ \A m \in {"chat"} \cup Audio : EvictsIn(ImageRoute, m)
                                 /\ "unload_on_music" \in on => EvictsIn(ImageRoute, "music")
<1> DEFINE Music == When("unload_on_music", <<Evict({"music"})>>)
           First == <<Evict({"chat"} \cup Audio), EvictIfUp("embed")>>
           Steps == First \o Music
           Guard == When("unload_on_image", Steps)
<1>1. Music \in Seq(EvictStep) /\ ("unload_on_music" \in on => EvictsIn(Music, "music"))
  BY EvictFacts, WhenFacts DEF Manager
<1>2. First \in Seq(EvictStep) /\ \A m \in {"chat"} \cup Audio : EvictsIn(First, m)
  <2>1. Evict({"chat"} \cup Audio) \in EvictStep /\ EvictIfUp("embed") \in EvictStep
    BY DEF Evict, EvictIfUp, EvictStep, Step, Manager, Audio
  <2>2. 1 \in DOMAIN First /\ First[1].op = "evict" /\ First[1].who = {"chat"} \cup Audio
    BY DEF Evict
  <2>3. First \in Seq(EvictStep)
    BY <2>1
  <2> HIDE DEF First
  <2> QED
    BY <2>2, <2>3 DEF EvictsIn
<1>3. ImageRoute = Guard \o <<Ensure("image", "only")>>
  BY DEF ImageRoute
<1> HIDE DEF Music, First
<1>4. /\ Steps \in Seq(EvictStep)
      /\ \A m \in {"chat"} \cup Audio : EvictsIn(Steps, m)
      /\ "unload_on_music" \in on => EvictsIn(Steps, "music")
  BY <1>1, <1>2, ConcatEvicts
<1> HIDE DEF Steps
<1>5. Guard \in Seq(EvictStep) /\ \A m : EvictsIn(Guard, m) <=> "unload_on_image" \in on /\ EvictsIn(Steps, m)
  BY <1>4, WhenFacts
<1> HIDE DEF Guard
<1>6. Ensure("image", "only") \in Step /\ IsLoad(Ensure("image", "only"))
  BY LoadFacts DEF Manager, AnyModel, Name
<1>7. /\ EndsIn(ImageRoute, Ensure("image", "only"))
      /\ \A m : EvictsIn(Guard, m) => EvictsIn(ImageRoute, m)
  BY <1>3, <1>5, <1>6, PlanFacts
<1> QED
  BY <1>4, <1>5, <1>7

LEMMA MusicRouteFacts ==
  /\ EndsIn(MusicRoute, Ensure("music", "only"))
  /\ "unload_on_music" \in on => /\ \A m \in {"chat"} \cup Audio : EvictsIn(MusicRoute, m)
                                 /\ "unload_image_on_music" \in on => EvictsIn(MusicRoute, "image")
<1> DEFINE Image == When("unload_image_on_music", <<Evict({"image"})>>)
           First == <<Evict({"chat"} \cup Audio)>>
           Steps == (First \o Image) \o <<EvictIfUp("embed")>>
           Guard == When("unload_on_music", Steps)
<1>1. Image \in Seq(EvictStep) /\ ("unload_image_on_music" \in on => EvictsIn(Image, "image"))
  BY EvictFacts, WhenFacts DEF Manager
<1>2. First \in Seq(EvictStep) /\ \A m \in {"chat"} \cup Audio : EvictsIn(First, m)
  BY EvictFacts DEF Manager, Audio
<1>3. <<EvictIfUp("embed")>> \in Seq(EvictStep)
  BY EvictIfUpFacts DEF Manager
<1>4. MusicRoute = Guard \o <<Ensure("music", "only")>>
  BY DEF MusicRoute
<1> HIDE DEF Image, First
<1>5. /\ First \o Image \in Seq(EvictStep)
      /\ \A m \in {"chat"} \cup Audio : EvictsIn(First \o Image, m)
      /\ "unload_image_on_music" \in on => EvictsIn(First \o Image, "image")
  BY <1>1, <1>2, ConcatEvicts
<1>6. /\ Steps \in Seq(EvictStep)
      /\ \A m \in {"chat"} \cup Audio : EvictsIn(Steps, m)
      /\ "unload_image_on_music" \in on => EvictsIn(Steps, "image")
  BY <1>3, <1>5, ConcatEvicts
<1> HIDE DEF Steps
<1>7. Guard \in Seq(EvictStep) /\ \A m : EvictsIn(Guard, m) <=> "unload_on_music" \in on /\ EvictsIn(Steps, m)
  BY <1>6, WhenFacts
<1> HIDE DEF Guard
<1>8. Ensure("music", "only") \in Step /\ IsLoad(Ensure("music", "only"))
  BY LoadFacts DEF Manager, AnyModel, Name
<1>9. /\ EndsIn(MusicRoute, Ensure("music", "only"))
      /\ \A m : EvictsIn(Guard, m) => EvictsIn(MusicRoute, m)
  BY <1>4, <1>7, <1>8, PlanFacts
<1> QED
  BY <1>6, <1>7, <1>9

LEMMA ResetRouteFacts == ResetRoute \in Seq(EvictStep) /\ ResetRoute # <<>>
  BY DEF ResetRoute, Evict, EvictStep, Step, Manager

(* Only these calls load, each its own manager.                            *)
LEMMA RouteFacts ==
  ASSUME NEW c \in CallType
  PROVE  /\ Route(c) \in Seq(Step) /\ Route(c) # <<>>
         /\ \/ \A i \in DOMAIN Route(c) : ~IsLoad(Route(c)[i])
            \/ c.to = "chat" /\ Route(c) = ChatRoute(c.model) /\ c.model \in AnyModel
            \/ c.to \in Audio /\ Route(c) = AudioRoute(c.to)
            \/ c.to = "image" /\ Route(c) = ImageRoute
            \/ c.to = "music" /\ Route(c) = MusicRoute
            \/ c.to = "embed" /\ Route(c) = <<Ensure("embed", "only")>>
            \/ /\ c.to = "load" /\ Route(c) = <<Ensure(c.at, c.model)>>
               /\ c.at \in Manager /\ c.model \in AnyModel
<1>1. CASE c.to = "chat"
  <2>1. Route(c) = ChatRoute(c.model) /\ c.model \in AnyModel
    BY <1>1 DEF Route, CallType, AnyModel, Audio
  <2> QED
    BY <1>1, <2>1, ChatRouteFacts DEF EndsIn
<1>2. CASE c.to \in Audio
  <2>1. Route(c) = AudioRoute(c.to)
    BY <1>2 DEF Route, Audio
  <2> QED
    BY <1>2, <2>1, AudioRouteFacts DEF EndsIn
<1>3. CASE c.to = "image"
  <2>1. Route(c) = ImageRoute
    BY <1>3 DEF Route, Audio
  <2> QED
    BY <1>3, <2>1, ImageRouteFacts DEF EndsIn
<1>4. CASE c.to = "music"
  <2>1. Route(c) = MusicRoute
    BY <1>4 DEF Route, Audio
  <2> QED
    BY <1>4, <2>1, MusicRouteFacts DEF EndsIn
<1>5. CASE c.to = "embed"
  <2>1. Route(c) = <<Ensure("embed", "only")>>
    BY <1>5 DEF Route, Audio
  <2>2. Ensure("embed", "only") \in Step
    BY LoadFacts DEF Manager, AnyModel, Name
  <2> QED
    BY <1>5, <2>1, <2>2
<1>6. CASE c.to = "load"
  <2>1. Route(c) = <<Ensure(c.at, c.model)>> /\ c.at \in Manager /\ c.model \in AnyModel
    BY <1>6 DEF Route, Audio, CallType, AnyModel, Manager
  <2>2. Ensure(c.at, c.model) \in Step
    BY <2>1, LoadFacts
  <2> QED
    BY <1>6, <2>1, <2>2
<1>7. CASE c.to = "unload"
  <2>1. Route(c) = <<Evict({c.at})>> /\ c.at \in Manager
    BY <1>7 DEF Route, Audio, CallType, Manager
  <2>2. <<Evict({c.at})>> \in Seq(EvictStep)
    BY <2>1, EvictFacts
  <2> QED
    BY <2>1, <2>2 DEF EvictStep, IsLoad
<1>8. CASE c.to = "reset"
  <2>1. Route(c) = ResetRoute
    BY <1>8 DEF Route, Audio
  <2> QED
    BY <2>1, ResetRouteFacts DEF EvictStep, IsLoad
<1> QED
  BY <1>1, <1>2, <1>3, <1>4, <1>5, <1>6, <1>7, <1>8 DEF CallType, Manager, Audio

--------------------------------------------------------------------------------
(* Types, locks and plans.                                                 *)

Asker == Task \cup {Watcher}

(* A queue without its head.                                               *)
LEMMA QueueFacts ==
  ASSUME NEW q \in Seq(Asker), q # <<>>, \A i, j \in DOMAIN q : q[i] = q[j] => i = j
  PROVE  /\ Tail(q) \in Seq(Asker) /\ q[1] = Head(q) /\ 1 \in DOMAIN q
         /\ \A u : Queued(Tail(q), u) <=> u # Head(q) /\ Queued(q, u)
         /\ \A i, j \in DOMAIN Tail(q) : Tail(q)[i] = Tail(q)[j] => i = j
<1>1. /\ Tail(q) \in Seq(Asker) /\ 1 \in DOMAIN q /\ q[1] = Head(q)
      /\ \A i \in DOMAIN Tail(q) : i + 1 \in DOMAIN q /\ Tail(q)[i] = q[i + 1] /\ i \in Nat \ {0}
  OBVIOUS
<1>2. \A i, j \in DOMAIN Tail(q) : Tail(q)[i] = Tail(q)[j] => i = j
  BY <1>1
<1>3. ASSUME NEW u, Queued(Tail(q), u)
      PROVE  u # Head(q) /\ Queued(q, u)
  <2>1. PICK i \in DOMAIN Tail(q) : Tail(q)[i] = u
    BY <1>3 DEF Queued
  <2>2. i + 1 \in DOMAIN q /\ q[i + 1] = u /\ i + 1 # 1
    BY <1>1, <2>1
  <2> QED
    BY <1>1, <2>2 DEF Queued
<1>4. ASSUME NEW u, u # Head(q), Queued(q, u)
      PROVE  Queued(Tail(q), u)
  <2>1. PICK i \in DOMAIN q : q[i] = u
    BY <1>4 DEF Queued
  <2>2. i # 1
    BY <1>1, <1>4, <2>1
  <2>3. i - 1 \in DOMAIN Tail(q) /\ Tail(q)[i - 1] = q[i]
    BY <2>1, <2>2
  <2> QED
    BY <2>1, <2>3 DEF Queued
<1> QED
  BY <1>1, <1>2, <1>3, <1>4

(* The holder of a lock has asked for it, and its release lets the next in.*)
LEMMA HolderFacts ==
  ASSUME TypeOK, QueuesInv, NEW t \in Task, NEW m \in Manager, lockq[m] # <<>>, Head(lockq[m]) = t
  PROVE  /\ m \in waits[t] /\ todo[t] # <<>> /\ m \in Head(todo[t]).who
         /\ Head(todo[t]) \in Step /\ Tail(todo[t]) \in Seq(Step)
         /\ Tail(lockq[m]) \in Seq(Asker)
         /\ \A u \in Task : Queued(Tail(lockq[m]), u) <=> u # t /\ Queued(lockq[m], u)
         /\ \A i, j \in DOMAIN Tail(lockq[m]) : Tail(lockq[m])[i] = Tail(lockq[m])[j] => i = j
<1>1. lockq[m] \in Seq(Asker) /\ \A i, j \in DOMAIN lockq[m] : lockq[m][i] = lockq[m][j] => i = j
  BY DEF TypeOK, Asker, QueuesInv
<1>2. Queued(lockq[m], t)
  BY <1>1, QueueFacts DEF Queued
<1>3. m \in waits[t] /\ todo[t] # <<>> /\ m \in Head(todo[t]).who
  BY <1>2 DEF QueuesInv
<1>4. todo[t] \in Seq(Step)
  BY DEF TypeOK
<1>5. Tail(todo[t]) \in Seq(Step) /\ Head(todo[t]) \in Step
  BY <1>3, <1>4
<1> QED
  BY <1>1, <1>3, <1>5, QueueFacts

(* A task that waits in order to load waits for that manager alone, and has*)
(* nothing else to do.                                                     *)
LEMMA LoaderFacts ==
  ASSUME Base, NEW t \in Task, NEW m \in waits[t], ~Evicting(t)
  PROVE  /\ todo[t] # <<>> /\ IsLoad(Head(todo[t])) /\ Len(todo[t]) = 1
         /\ Head(todo[t]).who = {m} /\ waits[t] = {m}
<1>1. /\ todo[t] \in Seq(Step) /\ todo[t] # <<>> /\ waits[t] \subseteq Head(todo[t]).who
  BY DEF Base, TypeOK, QueuesInv
<1>2. Head(todo[t]) = todo[t][1] /\ 1 \in DOMAIN todo[t] /\ Head(todo[t]) \in Step
  BY <1>1
<1>3. IsLoad(Head(todo[t]))
  BY <1>2 DEF Evicting, IsLoad, Step
<1>4. /\ Len(todo[t]) = 1
      /\ (\E n \in Manager : Head(todo[t]).who = {n}) \/ Head(todo[t]).who = {"chat"}
  <2>1. WellFormed(todo[t], serial)
    BY DEF Base, PlansInv
  <2> QED
    BY <1>2, <1>3, <2>1 DEF WellFormed
<1> QED
  BY <1>1, <1>3, <1>4

(* Who plans for the background task, and what.                            *)
LEMMA RelauncherFacts ==
  ASSUME Base
  PROVE  waits[Relauncher] \subseteq {"embed"}
<1>1. Relauncher \in Task
  BY DEF Task
<1>2. CASE waits[Relauncher] # {}
  <2>1. /\ todo[Relauncher] = <<Ensure("embed", "only")>>
        /\ waits[Relauncher] \subseteq Head(todo[Relauncher]).who
    BY <1>1, <1>2 DEF Base, PlansInv, QueuesInv
  <2> QED
    BY <2>1 DEF Ensure
<1> QED
  BY <1>2

LEMMA TailWellFormed ==
  ASSUME NEW q \in Seq(Step), q # <<>>, WellFormed(q, serial)
  PROVE  Tail(q) \in Seq(Step) /\ WellFormed(Tail(q), serial)
<1>1. /\ Tail(q) \in Seq(Step) /\ Len(Tail(q)) = Len(q) - 1
      /\ \A i \in DOMAIN Tail(q) : i + 1 \in DOMAIN q /\ Tail(q)[i] = q[i + 1] /\ i \in Nat
  OBVIOUS
<1> QED
  BY <1>1 DEF WellFormed

(* What a locked section leaves behind when it ends.                       *)
LEMMA ReleaseBase ==
  ASSUME Base, UNCHANGED <<on, serial>>,
         NEW t \in Task, NEW m \in Manager, lockq[m] # <<>>, Head(lockq[m]) = t,
         NEW rest \in Seq(Step), WellFormed(rest, serial), t = Relauncher => rest = <<>>,
         Release(t, m, rest),
         slot' \in Slots,
         slot'[m] = Empty, \A n \in Manager \ {m} : slot'[n] = slot[n]
  PROVE  Base'
<1> USE DEF Base
<1>1. /\ lockq' = [lockq EXCEPT ![m] = Tail(@)]
      /\ busy' = [busy EXCEPT ![m] = FALSE]
      /\ waits' = [waits EXCEPT ![t] = @ \ {m}]
      /\ IF waits[t] = {m} THEN todo' = [todo EXCEPT ![t] = rest] ELSE todo' = todo
  BY DEF Release
<1>2. /\ m \in waits[t] /\ todo[t] # <<>> /\ m \in Head(todo[t]).who
      /\ Tail(lockq[m]) \in Seq(Asker)
      /\ \A u \in Task : Queued(Tail(lockq[m]), u) <=> u # t /\ Queued(lockq[m], u)
      /\ \A i, j \in DOMAIN Tail(lockq[m]) : Tail(lockq[m])[i] = Tail(lockq[m])[j] => i = j
  BY HolderFacts
<1>3. TypeOK'
  <2>1. running' \in Task \cup {None}
    BY DEF Release
  <2> QED
    BY <1>1, <1>2, <2>1 DEF TypeOK, Slots, Asker
<1>4. QueuesInv'
  <2>1. \A n \in Manager, u \in Task : Queued(lockq'[n], u) <=> n \in waits'[u]
    BY <1>1, <1>2 DEF TypeOK, QueuesInv
  <2>2. \A n \in Manager : \A i, j \in DOMAIN lockq'[n] : lockq'[n][i] = lockq'[n][j] => i = j
    BY <1>1, <1>2 DEF TypeOK, QueuesInv
  <2>3. \A u \in Task : waits'[u] # {} => todo'[u] # <<>> /\ waits'[u] \subseteq Head(todo'[u]).who
    BY <1>1, <1>2 DEF TypeOK, QueuesInv
  <2> QED
    BY <2>1, <2>2, <2>3 DEF QueuesInv
<1>5. BusyInv'
  <2>1. ASSUME NEW n \in Manager
        PROVE  /\ busy'[n] <=> slot'[n].phase \in Moving
               /\ busy'[n] => lockq'[n] # <<>>
               /\ busy'[n] => IF slot'[n].phase = "unloading" THEN Head(lockq'[n]) = Watcher
                                                             ELSE Head(lockq'[n]) \in Task
    BY <1>1 DEF TypeOK, BusyInv, Moving, Empty
  <2>2. ASSUME NEW n \in Manager, slot'[n].phase \in Launching
        PROVE  ~(Head(todo'[Head(lockq'[n])]).op \in {"evict", "evict_if_up"})
    <3>1. n # m /\ slot[n].phase \in Launching /\ lockq'[n] = lockq[n]
      BY <1>1, <2>2 DEF TypeOK, Launching, Empty
    <3>2. lockq[n] # <<>> /\ ~Evicting(Head(lockq[n])) /\ Head(lockq[n]) \in Task
      BY <3>1 DEF BusyInv, Launching, Moving
    <3>3. n \in waits[Head(lockq[n])]
      BY <3>2, HolderFacts
    <3>4. todo'[Head(lockq[n])] = todo[Head(lockq[n])]
      BY <1>1, <3>1, <3>2, <3>3 DEF TypeOK
    <3> QED
      BY <3>1, <3>2, <3>4 DEF Evicting
  <2> QED
    BY <2>1, <2>2 DEF BusyInv, Evicting
<1>6. PlansInv'
  <2>1. \A u \in Task : \/ todo'[u] = todo[u]
                        \/ /\ u = t /\ todo[u] # <<>>
                           /\ todo'[u] = rest
    BY <1>1, <1>2 DEF TypeOK
  <2>2. Relauncher \in Task /\ Request \subseteq Task
    BY DEF Task
  <2>4. \A u \in Task : WellFormed(todo'[u], serial')
    BY <2>1 DEF PlansInv
  <2>5. todo'[Relauncher] \in {<<>>, <<Ensure("embed", "only")>>}
    BY <2>1, <2>2 DEF PlansInv
  <2>6. serial' => \A u, v \in Request : todo'[u] # <<>> /\ todo'[v] # <<>> => u = v
    BY <2>1, <2>2 DEF PlansInv
  <2> QED
    BY <2>4, <2>5, <2>6 DEF PlansInv, Ensure
<1> QED
  BY <1>3, <1>4, <1>5, <1>6

(* A load that is over, or was not needed, ends the plan.                  *)
LEMMA ServeBase ==
  ASSUME Base, UNCHANGED <<on, serial>>,
         NEW t \in Task, NEW m \in Manager, lockq[m] # <<>>, Head(lockq[m]) = t,
         ~Evicting(t), Serve(t, m),
         slot' \in Slots,
         slot'[m].phase = "ready", \A n \in Manager \ {m} : slot'[n] = slot[n]
  PROVE  /\ Base'
         /\ \A u \in Request : u # t => todo'[u] = todo[u] /\ waits'[u] = waits[u]
         /\ todo'[t] = <<>> \/ t = Relauncher
         /\ waits'[t] = {}
<1> USE DEF Base
<1>1. /\ lockq' = [lockq EXCEPT ![m] = Tail(@)]
      /\ busy' = [busy EXCEPT ![m] = FALSE]
      /\ waits' = [waits EXCEPT ![t] = {}]
      /\ running' = None
  BY DEF Serve
<1>2. /\ m \in waits[t] /\ todo[t] # <<>> /\ m \in Head(todo[t]).who
      /\ Tail(lockq[m]) \in Seq(Asker)
      /\ \A u \in Task : Queued(Tail(lockq[m]), u) <=> u # t /\ Queued(lockq[m], u)
      /\ \A i, j \in DOMAIN Tail(lockq[m]) : Tail(lockq[m])[i] = Tail(lockq[m])[j] => i = j
  BY HolderFacts
<1>3. waits[t] = {m}
  BY <1>2, LoaderFacts
<1>4. Relauncher \in Task /\ Request \subseteq Task /\ \A u \in Request : u # Relauncher
  BY GuardTasks DEF Task
<1>5. /\ DOMAIN todo' = Task
      /\ \A u \in Task : \/ u # t /\ todo'[u] = todo[u]
                         \/ u = t /\ todo'[u] = <<>>
                         \/ /\ u # t /\ u = Relauncher /\ todo[u] = <<>> /\ waits[u] = {}
                            /\ todo'[u] = <<Ensure("embed", "only")>>
  BY DEF Serve, Relaunches
<1>6. TypeOK'
  <2>1. <<Ensure("embed", "only")>> \in Seq(Step)
    BY LoadFacts DEF Manager, AnyModel, Name
  <2>2. todo' \in [Task -> Seq(Step)]
    <3>1. todo' = [u \in Task |-> todo'[u]]
      BY DEF Serve
    <3>2. <<>> \in Seq(Step) /\ \A u \in Task : todo[u] \in Seq(Step)
      BY DEF TypeOK
    <3>3. \A u \in Task : todo'[u] \in Seq(Step)
      BY <1>5, <2>1, <3>2
    <3> QED
      BY <3>1, <3>3
  <2> QED
    BY <1>1, <1>2, <2>2 DEF TypeOK, Slots, Asker
<1>7. QueuesInv'
  <2>1. \A n \in Manager, u \in Task : Queued(lockq'[n], u) <=> n \in waits'[u]
    BY <1>1, <1>2, <1>3 DEF TypeOK, QueuesInv
  <2>2. \A n \in Manager : \A i, j \in DOMAIN lockq'[n] : lockq'[n][i] = lockq'[n][j] => i = j
    BY <1>1, <1>2 DEF TypeOK, QueuesInv
  <2>3. \A u \in Task : waits'[u] # {} => todo'[u] # <<>> /\ waits'[u] \subseteq Head(todo'[u]).who
    BY <1>1, <1>5 DEF TypeOK, QueuesInv
  <2> QED
    BY <2>1, <2>2, <2>3 DEF QueuesInv
<1>8. BusyInv'
  <2>1. ASSUME NEW n \in Manager
        PROVE  /\ busy'[n] <=> slot'[n].phase \in Moving
               /\ busy'[n] => lockq'[n] # <<>>
               /\ busy'[n] => IF slot'[n].phase = "unloading" THEN Head(lockq'[n]) = Watcher
                                                             ELSE Head(lockq'[n]) \in Task
    BY <1>1 DEF TypeOK, BusyInv, Moving, Empty
  <2>2. ASSUME NEW n \in Manager, slot'[n].phase \in Launching
        PROVE  ~(Head(todo'[Head(lockq'[n])]).op \in {"evict", "evict_if_up"})
    <3>1. n # m /\ slot[n].phase \in Launching /\ lockq'[n] = lockq[n]
      BY <1>1, <2>2 DEF TypeOK, Launching, Empty
    <3>2. lockq[n] # <<>> /\ ~Evicting(Head(lockq[n])) /\ Head(lockq[n]) \in Task
      BY <3>1 DEF BusyInv, Launching, Moving
    <3>3. n \in waits[Head(lockq[n])]
      BY <3>2, HolderFacts
    <3>4. todo'[Head(lockq[n])] = todo[Head(lockq[n])]
      BY <1>3, <1>5, <3>1, <3>2, <3>3
    <3> QED
      BY <3>1, <3>2, <3>4 DEF Evicting
  <2> QED
    BY <2>1, <2>2 DEF BusyInv, Evicting
<1>9. PlansInv'
  <2>1. \A u \in Task : WellFormed(todo'[u], serial')
    <3>1. WellFormed(<<Ensure("embed", "only")>>, serial) /\ WellFormed(<<>>, serial)
      BY DEF WellFormed, Ensure, IsLoad, Manager
    <3> QED
      BY <1>5, <3>1 DEF PlansInv
  <2>2. todo'[Relauncher] \in {<<>>, <<Ensure("embed", "only")>>}
    BY <1>4, <1>5 DEF PlansInv
  <2>3. serial' => \A u, v \in Request : todo'[u] # <<>> /\ todo'[v] # <<>> => u = v
    BY <1>4, <1>5 DEF PlansInv
  <2> QED
    BY <2>1, <2>2, <2>3 DEF PlansInv, Ensure
<1>10. \A u \in Request : u # t => todo'[u] = todo[u] /\ waits'[u] = waits[u]
  BY <1>1, <1>4, <1>5 DEF TypeOK
<1>11. (todo'[t] = <<>> \/ t = Relauncher) /\ waits'[t] = {}
  BY <1>1, <1>5 DEF TypeOK
<1> QED
  BY <1>6, <1>7, <1>8, <1>9, <1>10, <1>11

--------------------------------------------------------------------------------
(* What a step of a task does to the slots, and to the plans of requests.  *)
(* While an idle server is unloaded no task touches it.                    *)

Staying    == {s \in Server : s.phase # "unloading"}
StayingBig == {s \in Staying : s.model = "big"}

OnlyTaskOf(t) == \A u \in Request \ {t} : todo'[u] = todo[u] /\ waits'[u] = waits[u]
OnlySlotOf(m) == \A n \in Manager \ {m} : slot'[n] = slot[n]

Asks(t) ==
  /\ slot' = slot
  /\ todo[t] # <<>> /\ waits[t] = {} /\ waits'[t] = Head(todo[t]).who
  /\ todo'[t] = IF Head(todo[t]).op = "guarded"
                  THEN [todo[t] EXCEPT ![1].model = Served(Head(todo[t]).model)] ELSE todo[t]

Skips(t) ==
  /\ slot' = slot
  /\ todo[t] # <<>> /\ waits[t] = {} /\ waits'[t] = {}
  /\ Head(todo[t]).op # "evict" /\ todo'[t] = Tail(todo[t])

Evicts(t, m) ==
  /\ Evicting(t) /\ slot'[m] = Empty /\ OnlySlotOf(m)
  /\ waits'[t] = waits[t] \ {m}
  /\ todo'[t] = IF waits[t] = {m} THEN Tail(todo[t]) ELSE todo[t]

Drains(t, m) ==
  /\ slot[m] \in Staying /\ slot'[m].model = slot[m].model /\ OnlySlotOf(m)
  /\ waits'[t] = waits[t] /\ todo'[t] = todo[t]

Launches(t, m) ==
  /\ ~Evicting(t) /\ slot'[m] = Wanted(t) /\ OnlySlotOf(m)
  /\ waits'[t] = waits[t] /\ todo'[t] = todo[t]

Serves(t, m) ==
  /\ ~Evicting(t) /\ slot[m] \in Staying /\ slot'[m].model = slot[m].model /\ OnlySlotOf(m)
  /\ waits'[t] = {} /\ (todo'[t] = <<>> \/ t = Relauncher)

Fails(t, m) ==
  /\ ~Evicting(t) /\ slot'[m] = Empty /\ OnlySlotOf(m)
  /\ waits'[t] = {} /\ todo'[t] = AfterFailure(t)

Acts(t) ==
  /\ Asks(t) \/ Skips(t) \/ \E m \in waits[t] : \/ Evicts(t, m) \/ Drains(t, m) \/ Launches(t, m)
                                                \/ Serves(t, m) \/ Fails(t, m)
  /\ OnlyTaskOf(t) /\ UNCHANGED <<on, serial>>

LEMMA TailOfOne ==
  ASSUME NEW x
  PROVE  Tail(<<x>>) = <<>>
<1>1. <<x>> \in Seq({x}) /\ Tail(<<x>>) \in Seq({x}) /\ Len(Tail(<<x>>)) = 0
  OBVIOUS
<1> QED
  BY <1>1, EmptySeq

(* Nobody but t plans something new, and t only less.                      *)
LEMMA ArrivesActs ==
  ASSUME Base, NEW t \in Task, Arrives(t)
  PROVE  Base' /\ Acts(t)
<1> USE DEF Base
<1> DEFINE step == Head(todo[t])
<1>1. /\ todo[t] \in Seq(Step) /\ todo[t] # <<>> /\ waits[t] = {} /\ UNCHANGED <<on, serial, slot, busy>>
      /\ step \in Step
  BY DEF Arrives, TypeOK
<1>2. WellFormed(todo[t], serial)
  BY DEF PlansInv
<1>3. Relauncher \in Task /\ Request \subseteq Task
  BY DEF Task
<1>4. CASE step.op \in {"evict_if_up", "ensure"} /\ Skip(t)
  <2>1. todo' = [todo EXCEPT ![t] = Tail(@)] /\ UNCHANGED <<lockq, waits>> /\ running' \in Task \cup {None}
    BY <1>4 DEF Skip
  <2>2. Tail(todo[t]) \in Seq(Step) /\ WellFormed(Tail(todo[t]), serial)
    BY <1>1, <1>2, TailWellFormed
  <2>3. TypeOK'
    BY <1>1, <2>1, <2>2 DEF TypeOK
  <2>4. QueuesInv'
    BY <1>1, <2>1 DEF TypeOK, QueuesInv
  <2>5. BusyInv'
    <3>1. \A n \in Manager : slot[n].phase \in Launching =>
             Head(lockq[n]) \in Task /\ n \in waits[Head(lockq[n])]
      BY HolderFacts DEF BusyInv, Launching, Moving
    <3>2. \A n \in Manager : slot[n].phase \in Launching => Head(lockq[n]) # t
      BY <1>1, <3>1
    <3>3. \A u \in Task : u # t => todo'[u] = todo[u]
      BY <2>1 DEF TypeOK
    <3> QED
      BY <1>1, <2>1, <3>1, <3>2, <3>3 DEF BusyInv, Evicting
  <2>6. PlansInv'
    <3>1. \A u \in Task : \/ todo'[u] = todo[u]
                          \/ u = t /\ todo'[u] = Tail(todo[t]) /\ todo[u] # <<>>
      BY <1>1, <2>1 DEF TypeOK
    <3>2. \A u \in Task : WellFormed(todo'[u], serial')
      BY <1>1, <2>2, <3>1 DEF PlansInv
    <3>3. todo'[Relauncher] \in {<<>>, <<Ensure("embed", "only")>>}
      BY <1>3, <3>1, TailOfOne DEF PlansInv
    <3>4. serial' => \A u, v \in Request : todo'[u] # <<>> /\ todo'[v] # <<>> => u = v
      BY <1>1, <1>3, <3>1 DEF PlansInv
    <3> QED
      BY <3>2, <3>3, <3>4 DEF PlansInv, Ensure
  <2>7. Skips(t) /\ OnlyTaskOf(t)
    BY <1>1, <1>3, <1>4, <2>1 DEF Skips, OnlyTaskOf, TypeOK
  <2> QED
    BY <1>1, <2>3, <2>4, <2>5, <2>6, <2>7 DEF Acts
<1>5. CASE /\ AskFor(t, step.who)
           /\ todo' = IF step.op = "guarded" THEN [todo EXCEPT ![t][1].model = Served(step.model)] ELSE todo
  <2>1. /\ waits' = [waits EXCEPT ![t] = step.who] /\ step.who \subseteq Manager
        /\ lockq' = [m \in Manager |-> IF m \in step.who THEN Append(lockq[m], t) ELSE lockq[m]]
        /\ running' \in Task \cup {None}
    BY <1>1, <1>5 DEF AskFor, Step
  <2> DEFINE plan == IF step.op = "guarded" THEN [todo[t] EXCEPT ![1].model = Served(step.model)] ELSE todo[t]
  <2>2. todo' = [todo EXCEPT ![t] = plan]
    BY <1>1, <1>5 DEF TypeOK
  <2>3. /\ plan \in Seq(Step) /\ plan # <<>> /\ Len(plan) = Len(todo[t])
        /\ \A i \in DOMAIN plan :
             i \in DOMAIN todo[t] /\ plan[i].op = todo[t][i].op /\ plan[i].who = todo[t][i].who
    <3>1. 1 \in DOMAIN todo[t] /\ step = todo[t][1]
      BY <1>1
    <3>2. Served(step.model) \in Name \cup {None}
      BY <1>1 DEF Served, Step, Name
    <3>3. [step EXCEPT !.model = Served(step.model)] \in Step
      BY <1>1, <3>2 DEF Step
    <3>4. [todo[t] EXCEPT ![1].model = Served(step.model)] =
             [todo[t] EXCEPT ![1] = [step EXCEPT !.model = Served(step.model)]]
      BY <3>1
    <3>5. /\ [step EXCEPT !.model = Served(step.model)].op = step.op
          /\ [step EXCEPT !.model = Served(step.model)].who = step.who
      BY <1>1 DEF Step
    <3> HIDE DEF step
    <3> QED
      BY <1>1, <3>1, <3>3, <3>4, <3>5
  <2>4. TypeOK'
    <3>1. lockq' \in [Manager -> Seq(Asker)]
      <4>1. t \in Asker /\ \A n \in Manager : lockq[n] \in Seq(Asker)
        BY DEF TypeOK, Asker
      <4>2. \A n \in Manager : Append(lockq[n], t) \in Seq(Asker)
        BY <4>1
      <4> QED
        BY <2>1, <4>1, <4>2
    <3>2. todo' \in [Task -> Seq(Step)]
      BY <2>2, <2>3 DEF TypeOK
    <3>3. waits' \in [Task -> SUBSET Manager]
      BY <2>1 DEF TypeOK
    <3> QED
      BY <1>1, <2>1, <3>1, <3>2, <3>3 DEF TypeOK, Asker
  <2>5. QueuesInv'
    <3>1. ASSUME NEW n \in Manager, NEW u \in Task
          PROVE  Queued(lockq'[n], u) <=> n \in waits'[u]
      <4>1. lockq[n] \in Seq(Asker)
        BY DEF TypeOK, Asker
      <4>2. Queued(Append(lockq[n], t), u) <=> Queued(lockq[n], u) \/ u = t
        <5>1. /\ \A i \in DOMAIN lockq[n] :
                   i \in DOMAIN Append(lockq[n], t) /\ Append(lockq[n], t)[i] = lockq[n][i]
              /\ Len(lockq[n]) + 1 \in DOMAIN Append(lockq[n], t)
              /\ Append(lockq[n], t)[Len(lockq[n]) + 1] = t
              /\ \A i \in DOMAIN Append(lockq[n], t) : i \in DOMAIN lockq[n] \/ i = Len(lockq[n]) + 1
          BY <4>1
        <5> QED
          BY <5>1 DEF Queued
      <4> QED
        BY <1>1, <2>1, <4>2 DEF QueuesInv, TypeOK
    <3>2. ASSUME NEW n \in Manager, NEW i \in DOMAIN lockq'[n], NEW j \in DOMAIN lockq'[n],
                 lockq'[n][i] = lockq'[n][j]
          PROVE  i = j
      <4>1. lockq[n] \in Seq(Asker) /\ ~Queued(lockq[n], t)
        BY <1>1 DEF TypeOK, Asker, QueuesInv
      <4>2. \A k \in DOMAIN lockq[n] : lockq[n][k] # t
        BY <4>1 DEF Queued
      <4>3. \A k, l \in DOMAIN lockq[n] : lockq[n][k] = lockq[n][l] => k = l
        BY DEF QueuesInv
      <4>4. CASE lockq'[n] = lockq[n]
        BY <3>2, <4>3, <4>4
      <4>5. CASE lockq'[n] = Append(lockq[n], t)
        <5>1. \A k \in DOMAIN Append(lockq[n], t) :
                \/ k \in DOMAIN lockq[n] /\ Append(lockq[n], t)[k] = lockq[n][k]
                \/ k = Len(lockq[n]) + 1 /\ Append(lockq[n], t)[k] = t
          BY <4>1
        <5> QED
          BY <3>2, <4>2, <4>3, <4>5, <5>1
      <4> QED
        BY <2>1, <4>4, <4>5
    <3>3. ASSUME NEW u \in Task, waits'[u] # {}
          PROVE  todo'[u] # <<>> /\ waits'[u] \subseteq Head(todo'[u]).who
      <4>1. CASE u = t
        <5>1. todo'[u] = plan /\ Head(plan) = plan[1] /\ 1 \in DOMAIN plan /\ Head(todo[t]) = todo[t][1]
          BY <1>1, <2>2, <2>3, <4>1 DEF TypeOK
        <5> QED
          BY <2>1, <2>3, <4>1, <5>1 DEF TypeOK
      <4>2. CASE u # t
        BY <2>1, <2>2, <3>3, <4>2 DEF TypeOK, QueuesInv
      <4> QED
        BY <4>1, <4>2
    <3> QED
      BY <3>1, <3>2, <3>3 DEF QueuesInv
  <2>6. BusyInv'
    <3>1. \A n \in Manager : slot[n].phase \in Launching =>
             Head(lockq[n]) \in Task /\ n \in waits[Head(lockq[n])]
      BY HolderFacts DEF BusyInv, Launching, Moving
    <3>2. \A n \in Manager : busy[n] => lockq'[n] # <<>> /\ Head(lockq'[n]) = Head(lockq[n])
      <4>1. \A n \in Manager : lockq[n] \in Seq(Asker) /\ lockq'[n] \in {lockq[n], Append(lockq[n], t)}
        BY <2>1 DEF TypeOK, Asker
      <4>2. \A n \in Manager : busy[n] => lockq[n] # <<>>
        BY DEF BusyInv
      <4>3. \A n \in Manager : lockq[n] # <<>> =>
              Append(lockq[n], t) # <<>> /\ Head(Append(lockq[n], t)) = Head(lockq[n])
        BY <4>1
      <4> QED
        BY <4>1, <4>2, <4>3
    <3>3. \A n \in Manager : slot[n].phase \in Launching => Head(lockq[n]) # t
      BY <1>1, <3>1
    <3>4. \A u \in Task : u # t => todo'[u] = todo[u]
      BY <2>2 DEF TypeOK
    <3> QED
      BY <1>1, <3>1, <3>2, <3>3, <3>4 DEF BusyInv, Evicting, Launching, Moving
  <2>7. PlansInv'
    <3>1. \A u \in Task : IF u = t THEN todo'[u] = plan ELSE todo'[u] = todo[u]
      BY <2>2 DEF TypeOK
    <3>2. WellFormed(plan, serial)
      BY <1>2, <2>3 DEF WellFormed, IsLoad
    <3>3. \A u \in Task : WellFormed(todo'[u], serial')
      BY <1>1, <3>1, <3>2 DEF PlansInv
    <3>4. todo'[Relauncher] = todo[Relauncher]
      <4>1. t = Relauncher => step.op = "ensure"
        BY <1>1 DEF PlansInv, Ensure
      <4> QED
        BY <1>3, <3>1, <4>1
    <3>5. serial' => \A u, v \in Request : todo'[u] # <<>> /\ todo'[v] # <<>> => u = v
      BY <1>1, <1>3, <3>1 DEF PlansInv
    <3> QED
      BY <3>3, <3>4, <3>5 DEF PlansInv, Ensure
  <2>8. Asks(t) /\ OnlyTaskOf(t)
    BY <1>1, <1>3, <2>1, <2>2 DEF Asks, OnlyTaskOf, TypeOK
  <2> QED
    BY <1>1, <2>4, <2>5, <2>6, <2>7, <2>8 DEF Acts
<1> QED
  BY <1>4, <1>5 DEF Arrives

(* What a task that has the lock puts into the slot.                       *)
Taken == [phase : Launching \cup {"draining"}, model : Name \cup {None}]

(* A slot of the manager is given another value.                           *)
LEMMA SlotMoves ==
  ASSUME Base, UNCHANGED <<on, serial, lockq, todo, waits>>, running' = None,
         NEW t \in Task, NEW m \in Manager, lockq[m] # <<>>, Head(lockq[m]) = t,
         busy' = [busy EXCEPT ![m] = TRUE],
         NEW to \in Taken,
         slot' = [slot EXCEPT ![m] = to], to.phase \in Launching => ~Evicting(t)
  PROVE  Base'
<1> USE DEF Base
<1>0. to \in Server /\ to.phase \in Moving /\ to.phase # "unloading"
  BY DEF Taken, Server, Launching, Moving
<1>1. TypeOK'
  BY <1>0 DEF TypeOK
<1>2. QueuesInv'
  BY DEF QueuesInv
<1>3. BusyInv'
  BY <1>0 DEF TypeOK, BusyInv, Evicting
<1>4. PlansInv'
  BY DEF PlansInv, Ensure
<1> QED
  BY <1>1, <1>2, <1>3, <1>4

LEMMA GoneFacts ==
  ASSUME TypeOK, NEW m \in Manager
  PROVE  IF Resident(m) THEN slot[m] \in Server ELSE slot[m] = Empty
<1>1. slot[m] \in Server \cup {Empty}
  BY DEF TypeOK
<1> QED
  BY <1>1 DEF Resident, Server, Empty, Moving

LEMMA EvictedActs ==
  ASSUME Base, UNCHANGED <<on, serial>>,
         NEW t \in Task, NEW m \in Manager, lockq[m] # <<>>, Head(lockq[m]) = t,
         Evicting(t), Release(t, m, Tail(todo[t])),
         slot' = Without(m) \/ (slot' = slot /\ ~Resident(m))
  PROVE  Base' /\ Acts(t)
<1> USE DEF Base
<1>1. m \in waits[t] /\ todo[t] # <<>> /\ todo[t] \in Seq(Step)
  BY HolderFacts DEF TypeOK
<1>2. Tail(todo[t]) \in Seq(Step) /\ WellFormed(Tail(todo[t]), serial)
  BY <1>1, TailWellFormed DEF PlansInv
<1>3. t = Relauncher => Tail(todo[t]) = <<>>
  BY <1>1, TailOfOne DEF PlansInv
<1>4. /\ slot' \in Slots
      /\ slot'[m] = Empty /\ \A n \in Manager \ {m} : slot'[n] = slot[n]
  <2>1. CASE slot' = Without(m)
    BY <2>1 DEF TypeOK, Slots, Without
  <2>2. CASE slot' = slot /\ ~Resident(m)
    BY <2>2, GoneFacts DEF TypeOK, Slots
  <2> QED
    BY <2>1, <2>2
<1>5. Base'
  BY <1>2, <1>3, <1>4, ReleaseBase
<1>6. Evicts(t, m) /\ OnlyTaskOf(t)
  BY <1>4, GuardTasks DEF Evicts, OnlySlotOf, OnlyTaskOf, Release, TypeOK, Task
<1> QED
  BY <1>1, <1>5, <1>6 DEF Acts

LEMMA EntersActs ==
  ASSUME Base, NEW t \in Task, NEW m \in Manager, Enters(t, m)
  PROVE  Base' /\ Acts(t)
<1> USE DEF Base
<1>1. m \in waits[t] /\ Head(lockq[m]) = t /\ ~busy[m] /\ UNCHANGED <<on, serial>>
  BY DEF Enters
<1>2. lockq[m] # <<>>
  BY <1>1 DEF QueuesInv, Queued
<1>3. CASE Evicting(t) /\ ~Resident(m) /\ Release(t, m, Tail(todo[t])) /\ UNCHANGED slot
  BY <1>1, <1>2, <1>3, EvictedActs
<1>4. CASE ~Evicting(t) /\ slot[m] = [Wanted(t) EXCEPT !.phase = "ready"] /\ Serve(t, m) /\ UNCHANGED slot
  <2>1. slot[m].phase = "ready" /\ slot[m] \in Staying /\ slot' \in Slots
    <3>1. slot[m] \in Server \cup {Empty} /\ slot' \in Slots
      BY <1>4 DEF TypeOK, Slots
    <3>2. slot[m].phase = "ready"
      BY <1>4 DEF Wanted
    <3> QED
      BY <3>1, <3>2 DEF Staying, Empty
  <2>2. /\ Base' /\ OnlyTaskOf(t)
        /\ todo'[t] = <<>> \/ t = Relauncher
        /\ waits'[t] = {}
    BY <1>1, <1>2, <1>4, <2>1, ServeBase DEF OnlyTaskOf
  <2>3. Serves(t, m)
    BY <1>4, <2>1, <2>2 DEF Serves, OnlySlotOf
  <2> QED
    BY <1>1, <2>2, <2>3 DEF Acts
<1>5. CASE /\ IF Evicting(t) THEN Resident(m) ELSE slot[m] # [Wanted(t) EXCEPT !.phase = "ready"]
           /\ slot' = [slot EXCEPT ![m] = IF Resident(m) THEN [@ EXCEPT !.phase = "draining"] ELSE Wanted(t)]
           /\ busy' = [busy EXCEPT ![m] = TRUE]
           /\ running' = None
           /\ UNCHANGED <<lockq, todo, waits>>
  <2> DEFINE to == IF Resident(m) THEN [slot[m] EXCEPT !.phase = "draining"] ELSE Wanted(t)
  <2>1. Head(todo[t]) \in Step
    BY <1>1, <1>2, HolderFacts
  <2>0. slot[m] \in Server \cup {Empty} /\ slot[m].phase \in {"empty", "ready"}
    <3>1. slot[m] \in Server \cup {Empty}
      BY DEF TypeOK
    <3> QED
      BY <1>1, <3>1 DEF BusyInv, Server, Empty
  <2>2. to \in Taken
    <3>1. Resident(m) => [slot[m] EXCEPT !.phase = "draining"] \in Taken
      BY <2>0 DEF Server, Empty, Resident, Taken
    <3>2. Wanted(t) \in Taken
      BY <2>1 DEF Wanted, Step, Taken, Launching
    <3> QED
      BY <3>1, <3>2
  <2>3. to.phase \in Launching => ~Resident(m)
    BY <2>0 DEF Server, Empty, Resident, Launching
  <2>4. slot' = [slot EXCEPT ![m] = to]
    BY <1>5
  <2>5. to.phase \in Launching => ~Evicting(t)
    BY <1>5, <2>3
  <2>6. Base'
    <3>1. UNCHANGED <<on, serial, lockq, todo, waits>> /\ running' = None /\ busy' = [busy EXCEPT ![m] = TRUE]
      BY <1>1, <1>5
    <3> HIDE DEF to
    <3> QED
      BY <1>1, <1>2, <2>2, <2>4, <2>5, <3>1, SlotMoves
  <2>7. OnlyTaskOf(t) /\ waits'[t] = waits[t] /\ todo'[t] = todo[t] /\ OnlySlotOf(m)
    BY <1>5 DEF OnlyTaskOf, OnlySlotOf, TypeOK
  <2>8. Resident(m) => Drains(t, m)
    <3>1. Resident(m) => slot[m] \in Staying /\ to.model = slot[m].model
      BY <2>0 DEF Resident, Staying, Server, Empty
    <3>2. slot'[m] = to
      BY <2>4 DEF TypeOK
    <3> QED
      BY <2>7, <3>1, <3>2 DEF Drains
  <2>9. ~Resident(m) => Launches(t, m)
    BY <1>5, <2>4, <2>7 DEF Launches, TypeOK
  <2> QED
    BY <1>1, <2>6, <2>7, <2>8, <2>9 DEF Acts
<1> QED
  BY <1>3, <1>4, <1>5 DEF Enters

LEMMA EmptiedActs ==
  ASSUME Base, NEW t \in Task, NEW m \in Manager, Emptied(t, m)
  PROVE  Base' /\ Acts(t)
<1> USE DEF Base
<1>1. /\ lockq[m] # <<>> /\ Head(lockq[m]) = t /\ busy[m] /\ slot[m].phase = "draining"
      /\ UNCHANGED <<on, serial>>
  BY DEF Emptied, BusyInv
<1>2. m \in waits[t] /\ Head(todo[t]) \in Step
  BY <1>1, HolderFacts
<1>3. CASE Evicting(t)
  BY <1>1, <1>3, EvictedActs DEF Emptied
<1>4. CASE ~Evicting(t)
  <2>1. slot' = [slot EXCEPT ![m] = Wanted(t)] /\ UNCHANGED <<lockq, busy, waits, todo, running>>
    BY <1>4 DEF Emptied
  <2>2. Wanted(t) \in Taken
    BY <1>2 DEF Wanted, Step, Taken, Launching
  <2>3. busy' = [busy EXCEPT ![m] = TRUE] /\ running' = None
    BY <1>1, <2>1 DEF TypeOK, Emptied
  <2>4. Base'
    BY <1>1, <1>4, <2>1, <2>2, <2>3, SlotMoves
  <2>5. Launches(t, m) /\ OnlyTaskOf(t)
    BY <1>4, <2>1 DEF Launches, OnlySlotOf, OnlyTaskOf, TypeOK
  <2> QED
    BY <1>1, <1>2, <2>4, <2>5 DEF Acts
<1> QED
  BY <1>3, <1>4

(* A load goes on while its process is started, or stopped for being late. *)
LEMMA MovesActs ==
  ASSUME Base, NEW t \in Task, NEW m \in Manager, Spawned(t, m) \/ LoadTimesOut(t, m)
  PROVE  Base' /\ Acts(t)
<1> USE DEF Base
<1>1. PICK from \in Launching, to \in Launching :
        Moves(t, m, from, to) /\ UNCHANGED <<lockq, busy, todo, waits, running>>
  BY DEF Spawned, LoadTimesOut, Launching
<1>2. /\ lockq[m] # <<>> /\ Head(lockq[m]) = t /\ slot[m].phase = from /\ running = None /\ busy[m]
      /\ slot' = [slot EXCEPT ![m].phase = to] /\ UNCHANGED <<on, serial>>
  BY <1>1 DEF Moves, BusyInv
<1>3. m \in waits[t] /\ ~Evicting(t) /\ slot[m] \in Server
  <2>1. Resident(m)
    BY <1>2 DEF Resident, Launching
  <2> QED
    BY <1>2, <2>1, HolderFacts, GoneFacts DEF BusyInv
<1> DEFINE new == [slot[m] EXCEPT !.phase = to]
<1>4. slot[m] \in Staying /\ new \in Taken /\ new.model = slot[m].model
  BY <1>1, <1>2, <1>3 DEF Server, Staying, Taken, Launching
<1>5. slot' = [slot EXCEPT ![m] = new] /\ busy' = [busy EXCEPT ![m] = TRUE] /\ running' = None
  BY <1>1, <1>2 DEF TypeOK
<1>6. UNCHANGED <<on, serial, lockq, todo, waits>>
  BY <1>1, <1>2
<1> HIDE DEF new
<1>7. Base'
  BY <1>2, <1>3, <1>4, <1>5, <1>6, SlotMoves
<1>8. Drains(t, m) /\ OnlyTaskOf(t)
  BY <1>4, <1>5, <1>6 DEF Drains, OnlySlotOf, OnlyTaskOf, TypeOK
<1> QED
  BY <1>3, <1>6, <1>7, <1>8 DEF Acts

LEMMA LoadEndsActs ==
  ASSUME Base, NEW t \in Task, NEW m \in Manager, LoadSucceeds(t, m) \/ LoadFails(t, m)
  PROVE  Base' /\ Acts(t)
<1> USE DEF Base
<1>1. /\ lockq[m] # <<>> /\ Head(lockq[m]) = t /\ slot[m].phase \in Launching /\ ~Evicting(t)
      /\ UNCHANGED <<on, serial>>
  BY DEF LoadSucceeds, LoadFails, Moves, BusyInv, Launching
<1>2. m \in waits[t] /\ Head(todo[t]) \in Step /\ todo[t] # <<>>
  BY <1>1, HolderFacts
<1>3. CASE LoadSucceeds(t, m)
  <2>0. slot' = [slot EXCEPT ![m].phase = "ready"] /\ Serve(t, m) /\ slot[m] \in Staying
    <3>1. Resident(m) /\ slot[m].phase # "unloading"
      BY <1>1 DEF Resident, Launching
    <3>2. slot[m] \in Server
      BY <3>1, GoneFacts
    <3> QED
      BY <1>3, <3>1, <3>2 DEF LoadSucceeds, Moves, Staying
  <2> DEFINE new == [slot[m] EXCEPT !.phase = "ready"]
  <2>2. new \in Server /\ new.phase = "ready" /\ new.model = slot[m].model
    BY <2>0 DEF Staying, Server
  <2>3. slot' = [slot EXCEPT ![m] = new]
    BY <2>0
  <2> HIDE DEF new
  <2>1. /\ slot' \in Slots
        /\ slot'[m].phase = "ready" /\ slot'[m].model = slot[m].model
        /\ \A n \in Manager \ {m} : slot'[n] = slot[n]
    BY <2>2, <2>3 DEF TypeOK, Slots
  <2>4. /\ Base' /\ OnlyTaskOf(t)
        /\ todo'[t] = <<>> \/ t = Relauncher
        /\ waits'[t] = {}
    BY <1>1, <2>0, <2>1, ServeBase DEF OnlyTaskOf
  <2>5. Serves(t, m)
    BY <1>1, <2>0, <2>1, <2>4 DEF Serves, OnlySlotOf
  <2> QED
    BY <1>1, <1>2, <2>4, <2>5 DEF Acts
<1>4. CASE LoadFails(t, m)
  <2> DEFINE rest == AfterFailure(t)
  <2>1. slot' = [slot EXCEPT ![m] = Empty] /\ Release(t, m, rest)
    BY <1>4 DEF LoadFails, Without
  <2>2. /\ slot' \in Slots
        /\ slot'[m] = Empty /\ \A n \in Manager \ {m} : slot'[n] = slot[n]
    BY <2>1 DEF TypeOK, Slots
  <2>3. rest \in Seq(Step) /\ WellFormed(rest, serial)
    <3> DEFINE retry == <<Evict({"embed"}), Retry(Head(todo[t]).model)>>
    <3>1. retry \in Seq(Step)
      BY <1>2 DEF Evict, Retry, Step, Manager
    <3>2. WellFormed(retry, serial)
      <4>1. /\ DOMAIN retry = 1..2 /\ Len(retry) = 2 /\ retry[1].op = "evict"
            /\ retry[2].op = "retry" /\ retry[2].who = {"chat"}
        BY DEF Evict, Retry
      <4> HIDE DEF retry
      <4> QED
        BY <4>1 DEF WellFormed, IsLoad
    <3>3. <<>> \in Seq(Step) /\ WellFormed(<<>>, serial)
      BY DEF WellFormed
    <3>4. rest \in {retry, <<>>}
      BY DEF AfterFailure
    <3> QED
      BY <3>1, <3>2, <3>3, <3>4
  <2>4. t = Relauncher => rest = <<>>
    BY <1>2 DEF PlansInv, Ensure, AfterFailure
  <2>5. Base'
    <3> HIDE DEF rest
    <3> QED
      BY <1>1, <2>1, <2>2, <2>3, <2>4, ReleaseBase
  <2>6. waits[t] = {m}
    BY <1>1, <1>2, LoaderFacts
  <2>7. Fails(t, m) /\ OnlyTaskOf(t)
    BY <1>1, <2>1, <2>2, <2>6 DEF Fails, OnlySlotOf, OnlyTaskOf, Release, TypeOK, Task
  <2> QED
    BY <1>1, <1>2, <2>5, <2>7 DEF Acts
<1> QED
  BY <1>3, <1>4

LEMMA TaskStepActs ==
  ASSUME Base, NEW t \in Task, TaskStep(t)
  PROVE  Base' /\ Acts(t)
  BY ArrivesActs, EntersActs, EmptiedActs, MovesActs, LoadEndsActs DEF TaskStep

--------------------------------------------------------------------------------
(* The other steps.                                                        *)

LEMMA InitBase == Init => Base
<1> SUFFICES ASSUME Init PROVE Base
  OBVIOUS
<1>1. /\ Relauncher \in Task
      /\ \A t \in Task : todo[t] = <<>> /\ waits[t] = {}
      /\ \A m \in Manager : slot[m] = Empty /\ lockq[m] = <<>> /\ ~busy[m]
  BY DEF Init, Task
<1>2. TypeOK
  BY DEF Init, TypeOK
<1>3. QueuesInv
  BY <1>1 DEF QueuesInv, Queued
<1>4. BusyInv
  BY <1>1 DEF BusyInv, Empty, Moving, Launching
<1>5. PlansInv
  BY <1>1 DEF PlansInv, WellFormed, Task
<1> QED
  BY <1>2, <1>3, <1>4, <1>5 DEF Base

(* What comes in while requests are alone.                                 *)
LEMMA BeginsFacts ==
  ASSUME Base, NEW t \in Request, NEW c \in Call[t] \cup BusyCall[t], Begins(t, c)
  PROVE  /\ t \in Task /\ c \in CallType /\ ~Blocked(c) /\ UNCHANGED <<on, serial, slot, lockq, busy, waits>>
         /\ todo[t] = <<>> /\ waits[t] = {} /\ todo' = [todo EXCEPT ![t] = Route(c)] /\ running' = t
         /\ serial => c.to # "load" /\ \A u \in Request : todo[u] = <<>>
  BY GuardCalls DEF Begins, Task

LEMMA BeginsBase ==
  ASSUME Base, NEW t \in Request, NEW c \in Call[t] \cup BusyCall[t], Begins(t, c)
  PROVE  Base'
<1> USE DEF Base
<1>1. /\ t \in Task /\ c \in CallType /\ UNCHANGED <<on, serial, slot, lockq, busy, waits>>
      /\ todo[t] = <<>> /\ waits[t] = {} /\ todo' = [todo EXCEPT ![t] = Route(c)] /\ running' = t
      /\ serial => c.to # "load" /\ \A u \in Request : todo[u] = <<>>
  BY BeginsFacts
<1>2. Route(c) \in Seq(Step) /\ Route(c) # <<>>
  BY <1>1, RouteFacts
<1>3. WellFormed(Route(c), serial)
  <2>1. ASSUME NEW step, EndsIn(Route(c), step),
               \/ /\ step.op = "ensure"
                  /\ \E m \in Manager : step.who = {m} /\ (serial => m # "chat")
               \/ step.op = "guarded" /\ step.who = {"chat"}
        PROVE  WellFormed(Route(c), serial)
    BY <2>1 DEF EndsIn, WellFormed
  <2>2. CASE \A i \in DOMAIN Route(c) : ~IsLoad(Route(c)[i])
    BY <2>2 DEF WellFormed
  <2>3. CASE Route(c) = ChatRoute(c.model) /\ c.model \in AnyModel
    BY <2>1, <2>3, ChatRouteFacts DEF GuardedEnsure
  <2>4. CASE c.to \in Audio /\ Route(c) = AudioRoute(c.to)
    BY <2>1, <2>4, AudioRouteFacts DEF Ensure, Audio, Manager
  <2>5. CASE Route(c) = ImageRoute
    BY <2>1, <2>5, ImageRouteFacts DEF Ensure, Manager
  <2>6. CASE Route(c) = MusicRoute
    BY <2>1, <2>6, MusicRouteFacts DEF Ensure, Manager
  <2>7. CASE Route(c) = <<Ensure("embed", "only")>>
    BY <2>7 DEF WellFormed, Ensure, Manager
  <2>8. CASE ~serial /\ Route(c) = <<Ensure(c.at, c.model)>> /\ c.at \in Manager
    BY <2>8 DEF WellFormed, Ensure, Manager
  <2> QED
    BY <1>1, <2>2, <2>3, <2>4, <2>5, <2>6, <2>7, <2>8, RouteFacts
<1>4. TypeOK'
  BY <1>1, <1>2 DEF TypeOK
<1>5. QueuesInv'
  BY <1>1, <1>2 DEF TypeOK, QueuesInv
<1>6. BusyInv'
  <2>1. \A n \in Manager : slot[n].phase \in Launching =>
           lockq[n] # <<>> /\ Head(lockq[n]) \in Task /\ n \in waits[Head(lockq[n])]
    BY HolderFacts DEF BusyInv, Launching, Moving
  <2>2. \A n \in Manager : slot[n].phase \in Launching => todo'[Head(lockq[n])] = todo[Head(lockq[n])]
    BY <1>1, <2>1 DEF TypeOK
  <2> QED
    BY <1>1, <2>1, <2>2 DEF BusyInv, Evicting
<1>7. PlansInv'
  <2>1. \A u \in Task : u # t => todo'[u] = todo[u]
    BY <1>1 DEF TypeOK
  <2>2. todo'[t] = Route(c)
    BY <1>1 DEF TypeOK
  <2>3. Relauncher \in Task /\ Relauncher # t /\ Request \subseteq Task
    BY GuardTasks DEF Task
  <2>4. serial' => \A u, v \in Request : todo'[u] # <<>> /\ todo'[v] # <<>> => u = v
    BY <1>1, <2>1, <2>3
  <2> QED
    BY <1>1, <1>3, <2>1, <2>2, <2>3, <2>4 DEF PlansInv, Ensure
<1> QED
  BY <1>4, <1>5, <1>6, <1>7

(* What servers and watchers do leaves the plans and their locks alone.    *)
Unasked == UNCHANGED <<on, serial, todo, waits, running>>

LEMMA DiesBase ==
  ASSUME Base, NEW m \in Manager, Dies(m)
  PROVE  Base' /\ Unasked /\ slot' = [slot EXCEPT ![m] = Empty]
<1> USE DEF Base
<1>1. /\ slot' = [slot EXCEPT ![m] = Empty] /\ slot[m].phase = "ready"
      /\ UNCHANGED <<on, serial, lockq, busy, todo, waits, running>>
  BY DEF Dies, Without
<1>2. TypeOK'
  BY <1>1 DEF TypeOK
<1>3. QueuesInv'
  BY <1>1 DEF QueuesInv
<1>4. BusyInv'
  BY <1>1 DEF TypeOK, BusyInv, Empty, Evicting, Moving, Launching
<1>5. PlansInv'
  BY <1>1 DEF PlansInv, Ensure
<1> QED
  BY <1>1, <1>2, <1>3, <1>4, <1>5 DEF Unasked

(* The lock changes by its watcher alone, and the slot only if the watcher *)
(* has it.                                                                 *)
LEMMA WatcherBase ==
  ASSUME Base, Unasked, NEW m \in Manager,
         NEW q \in Seq(Asker), lockq' = [lockq EXCEPT ![m] = q],
         \A i, j \in DOMAIN q : q[i] = q[j] => i = j,
         \A t \in Task : Queued(q, t) <=> Queued(lockq[m], t),
         NEW to \in Server \cup {Empty}, slot' = [slot EXCEPT ![m] = to],
         busy' = [busy EXCEPT ![m] = to.phase \in Moving],
         to.phase \in Moving => /\ q # <<>>
                                /\ \/ to.phase = "unloading" /\ Head(q) = Watcher
                                   \/ to = slot[m] /\ Head(q) = Head(lockq[m])
  PROVE  Base'
<1> USE DEF Base
<1>1. TypeOK'
  BY DEF TypeOK, Asker, Unasked
<1>2. QueuesInv'
  <2>1. \A n \in Manager, u \in Task : Queued(lockq'[n], u) <=> n \in waits'[u]
    BY DEF TypeOK, QueuesInv, Unasked
  <2>2. \A n \in Manager : \A i, j \in DOMAIN lockq'[n] : lockq'[n][i] = lockq'[n][j] => i = j
    BY DEF TypeOK, QueuesInv
  <2>3. \A u \in Task : waits'[u] # {} => todo'[u] # <<>> /\ waits'[u] \subseteq Head(todo'[u]).who
    BY DEF QueuesInv, Unasked
  <2> QED
    BY <2>1, <2>2, <2>3 DEF QueuesInv
<1>3. BusyInv'
  <2>1. ASSUME NEW n \in Manager
        PROVE  /\ busy'[n] <=> slot'[n].phase \in Moving
               /\ busy'[n] => lockq'[n] # <<>>
               /\ busy'[n] => IF slot'[n].phase = "unloading" THEN Head(lockq'[n]) = Watcher
                                                             ELSE Head(lockq'[n]) \in Task
               /\ slot'[n].phase \in Launching => ~Evicting(Head(lockq'[n]))
    <3>1. CASE n # m
      BY <3>1 DEF TypeOK, BusyInv
    <3>2. CASE n = m
      <4>1. slot'[n] = to /\ lockq'[n] = q /\ busy'[n] = (to.phase \in Moving)
        BY <3>2 DEF TypeOK
      <4>2. CASE to = slot[m] /\ Head(q) = Head(lockq[m])
        BY <3>2, <4>1, <4>2 DEF BusyInv, Moving, Launching
      <4>3. CASE to.phase = "unloading" /\ Head(q) = Watcher
        BY <3>2, <4>1, <4>3 DEF Moving, Launching
      <4>4. CASE to.phase \notin Moving
        BY <3>2, <4>1, <4>4 DEF Moving, Launching
      <4> QED
        BY <4>2, <4>3, <4>4
    <3> QED
      BY <3>1, <3>2
  <2>2. todo' = todo
    BY DEF Unasked
  <2> QED
    BY <2>1, <2>2 DEF BusyInv, Evicting
<1>4. PlansInv'
  BY DEF PlansInv, Ensure, Unasked
<1> QED
  BY <1>1, <1>2, <1>3, <1>4

LEMMA WatcherAsksBase ==
  ASSUME Base, NEW m \in Manager, WatcherAsks(m)
  PROVE  Base' /\ Unasked /\ slot' = slot
<1> USE DEF Base
<1> DEFINE q == Append(lockq[m], Watcher)
<1>1. /\ lockq' = [lockq EXCEPT ![m] = q] /\ lockq[m] # <<>> /\ UNCHANGED <<slot, busy>> /\ Unasked
      /\ \A i \in DOMAIN lockq[m] : lockq[m][i] # Watcher
  BY DEF WatcherAsks, Unasked
<1>2. lockq[m] \in Seq(Asker) /\ Watcher \in Asker
  BY DEF TypeOK, Asker
<1>3. /\ q \in Seq(Asker) /\ q # <<>> /\ Head(q) = Head(lockq[m])
      /\ \A i \in DOMAIN q : \/ i \in DOMAIN lockq[m] /\ q[i] = lockq[m][i]
                             \/ i = Len(lockq[m]) + 1 /\ q[i] = Watcher
      /\ \A i \in DOMAIN lockq[m] : i \in DOMAIN q /\ q[i] = lockq[m][i]
  BY <1>1, <1>2
<1> HIDE DEF q
<1>4. \A i, j \in DOMAIN q : q[i] = q[j] => i = j
  BY <1>1, <1>3 DEF QueuesInv
<1>5. \A t \in Task : Queued(q, t) <=> Queued(lockq[m], t)
  BY <1>3, GuardTasks DEF Queued
<1>6. slot[m] \in Server \cup {Empty} /\ slot' = [slot EXCEPT ![m] = slot[m]]
  BY <1>1 DEF TypeOK
<1>7. busy' = [busy EXCEPT ![m] = slot[m].phase \in Moving]
  BY <1>1 DEF TypeOK, BusyInv
<1>8. Base'
  BY <1>1, <1>3, <1>4, <1>5, <1>6, <1>7, WatcherBase
<1> QED
  BY <1>1, <1>8

LEMMA WatcherStopsBase ==
  ASSUME Base, NEW m \in Manager, WatcherStops(m)
  PROVE  /\ Base' /\ Unasked /\ slot[m] \in Server /\ slot[m].phase = "ready"
         /\ slot' = [slot EXCEPT ![m] = [slot[m] EXCEPT !.phase = "unloading"]]
<1> USE DEF Base
<1> DEFINE q == IF lockq[m] = <<>> THEN <<Watcher>> ELSE lockq[m]
           to == [slot[m] EXCEPT !.phase = "unloading"]
<1>1. /\ slot[m].phase = "ready" /\ slot' = [slot EXCEPT ![m] = to]
      /\ busy' = [busy EXCEPT ![m] = TRUE] /\ Unasked
  BY DEF WatcherStops, Unasked
<1>2. lockq[m] \in Seq(Asker) /\ Watcher \in Asker /\ (lockq[m] # <<>> => Head(lockq[m]) = Watcher)
  BY DEF TypeOK, Asker, WatcherStops, HeldByWatcher
<1>3. lockq' = [lockq EXCEPT ![m] = q]
  BY DEF TypeOK, WatcherStops
<1>4. q \in Seq(Asker) /\ q # <<>> /\ Head(q) = Watcher
  BY <1>2
<1>5. \A i, j \in DOMAIN q : q[i] = q[j] => i = j
  BY DEF QueuesInv
<1>6. \A t \in Task : Queued(q, t) <=> Queued(lockq[m], t)
  BY GuardTasks DEF Queued
<1>7. slot[m] \in Server
  <2>1. Resident(m)
    BY <1>1 DEF Resident
  <2> QED
    BY <2>1, GoneFacts
<1>8. to \in Server /\ to.phase = "unloading" /\ to.phase \in Moving
  BY <1>7 DEF Server, Moving
<1> HIDE DEF q, to
<1>9. busy' = [busy EXCEPT ![m] = to.phase \in Moving]
  BY <1>1, <1>8
<1>10. Base'
  BY <1>1, <1>3, <1>4, <1>5, <1>6, <1>8, <1>9, WatcherBase
<1> QED
  BY <1>1, <1>7, <1>10 DEF to

LEMMA WatcherLeavesBase ==
  ASSUME Base, NEW m \in Manager, WatcherSkips(m) \/ WatcherDone(m)
  PROVE  Base' /\ Unasked /\ (slot' = slot \/ slot' = [slot EXCEPT ![m] = Empty])
<1> USE DEF Base
<1> DEFINE to == IF WatcherSkips(m) THEN slot[m] ELSE Empty
<1>1. lockq' = [lockq EXCEPT ![m] = Tail(lockq[m])] /\ Unasked
  BY DEF WatcherSkips, WatcherDone, Unasked
<1>2. lockq[m] # <<>> /\ Head(lockq[m]) = Watcher
  <2>1. CASE WatcherSkips(m)
    BY <2>1 DEF WatcherSkips, HeldByWatcher
  <2>2. CASE WatcherDone(m)
    BY <2>2 DEF WatcherDone, BusyInv, Moving
  <2> QED
    BY <2>1, <2>2
<1>3. lockq[m] \in Seq(Asker) /\ \A i, j \in DOMAIN lockq[m] : lockq[m][i] = lockq[m][j] => i = j
  BY DEF TypeOK, Asker, QueuesInv
<1>4. /\ Tail(lockq[m]) \in Seq(Asker)
      /\ \A i, j \in DOMAIN Tail(lockq[m]) : Tail(lockq[m])[i] = Tail(lockq[m])[j] => i = j
      /\ \A t \in Task : Queued(Tail(lockq[m]), t) <=> Queued(lockq[m], t)
  BY <1>2, <1>3, QueueFacts, GuardTasks
<1>5. to \in Server \cup {Empty} /\ to.phase \notin Moving
  BY DEF TypeOK, WatcherSkips, BusyInv, Empty, Moving
<1>6. slot' = [slot EXCEPT ![m] = to] /\ busy' = [busy EXCEPT ![m] = FALSE]
  BY DEF TypeOK, WatcherSkips, WatcherDone, Without
<1>7. to = slot[m] \/ to = Empty
  OBVIOUS
<1> HIDE DEF to
<1>8. busy' = [busy EXCEPT ![m] = to.phase \in Moving]
  <2>1. (to.phase \in Moving) = FALSE
    BY <1>5
  <2> QED
    BY <1>6, <2>1
<1>9. Base'
  BY <1>1, <1>4, <1>5, <1>6, <1>8, WatcherBase
<1>10. slot' = slot \/ slot' = [slot EXCEPT ![m] = Empty]
  BY <1>6, <1>7 DEF TypeOK
<1> QED
  BY <1>1, <1>9, <1>10

LEMMA UnaskedBase ==
  ASSUME Base, NEW m \in Manager, Dies(m) \/ WatcherAsks(m) \/ WatcherStep(m)
  PROVE  /\ Base' /\ Unasked
         /\ \/ slot' = slot
            \/ slot' = [slot EXCEPT ![m] = Empty]
            \/ /\ slot' = [slot EXCEPT ![m] = [slot[m] EXCEPT !.phase = "unloading"]]
               /\ slot[m] \in Server /\ slot[m].phase = "ready"
  BY DiesBase, WatcherAsksBase, WatcherStopsBase, WatcherLeavesBase DEF WatcherStep

LEMMA StutterBase ==
  ASSUME Base, UNCHANGED guardVars
  PROVE  Base'
<1>1. UNCHANGED <<on, serial, slot, lockq, busy, todo, waits, running>>
  BY DEF guardVars
<1>2. TypeOK' /\ QueuesInv' /\ PlansInv'
  BY <1>1 DEF Base, TypeOK, QueuesInv, PlansInv, Ensure
<1>3. BusyInv'
  BY <1>1 DEF Base, BusyInv, Evicting
<1> QED
  BY <1>2, <1>3 DEF Base

LEMMA NextBase == Base /\ [Next]_guardVars => Base'
  BY BeginsBase, TaskStepActs, UnaskedBase, StutterBase DEF Next

--------------------------------------------------------------------------------
(* Who has the GPU, who plans to load, and who is evicted first.           *)

(* The sets of servers the rules are about.                                *)
Kinds == {Server, Staying, StayingBig}

Loading(name) == [phase |-> "starting", model |-> name]

Has(m, S) == slot[m] \in S

LoadsAs(t, m, S) == \E i \in DOMAIN todo[t] :
  IsLoad(todo[t][i]) /\ m \in todo[t][i].who /\ Loading(todo[t][i].model) \in S

Owes(t, m) == \E i \in DOMAIN todo[t] :
  todo[t][i].op = "evict" /\ m \in todo[t][i].who /\ (i = 1 /\ waits[t] # {} => m \in waits[t])

LEMMA KindFacts ==
  ASSUME NEW S \in Kinds
  PROVE  /\ Empty \notin S /\ \A s \in S : s \in Server /\ s.phase # "empty"
         /\ \A s \in Staying, new \in S : new.model = s.model => s \in S
  BY DEF Kinds, Server, Staying, StayingBig, Empty, Moving

LEMMA LoadingFacts ==
  /\ \A name \in AnyModel : Loading(name) \in Server /\ Loading(name) \in Staying
  /\ \A name : Loading(name) \in StayingBig <=> name = "big"
  BY DEF Loading, AnyModel, Name, Server, Moving, Staying, StayingBig

LEMMA HasFacts ==
  ASSUME Base, NEW t \in Task, Acts(t), NEW b \in Manager, NEW B \in Kinds, Has(b, B)'
  PROVE  Has(b, B) \/ (b \in waits[t] /\ Launches(t, b) /\ Wanted(t) \in B)
<1>1. CASE Asks(t) \/ Skips(t)
  BY <1>1 DEF Asks, Skips, Has
<1>2. ASSUME NEW m \in waits[t], \/ Evicts(t, m) \/ Drains(t, m) \/ Launches(t, m)
                                 \/ Serves(t, m) \/ Fails(t, m)
      PROVE  Has(b, B) \/ (b \in waits[t] /\ Launches(t, b) /\ Wanted(t) \in B)
  <2>1. CASE b # m
    <3>1. slot'[b] = slot[b]
      BY <1>2, <2>1 DEF Evicts, Drains, Launches, Serves, Fails, OnlySlotOf
    <3> QED
      BY <3>1 DEF Has
  <2>2. CASE b = m
    <3>1. slot'[b] \in B
      BY DEF Has
    <3>2. CASE Evicts(t, m) \/ Fails(t, m)
      BY <2>2, <3>1, <3>2, KindFacts DEF Evicts, Fails
    <3>3. CASE Drains(t, m) \/ Serves(t, m)
      BY <2>2, <3>1, <3>3, KindFacts DEF Drains, Serves, Has
    <3>4. CASE Launches(t, m)
      BY <1>2, <2>2, <3>1, <3>4 DEF Launches
    <3> QED
      BY <1>2, <3>2, <3>3, <3>4
  <2> QED
    BY <2>1, <2>2
<1> QED
  BY <1>1, <1>2 DEF Acts

(* What is launched was planned, and nothing is owed any more.             *)
LEMMA LauncherFacts ==
  ASSUME Base, NEW t \in Task, NEW m \in waits[t], ~Evicting(t), m # "embed"
  PROVE  /\ t \in Request /\ todo[t] # <<>> /\ waits[t] = {m} /\ Head(todo[t]).who = {m}
         /\ \A n : ~Owes(t, n)
         /\ \A n, S : LoadsAs(t, n, S) <=> n = m /\ Wanted(t) \in S
         /\ todo[t][1] = Head(todo[t]) /\ DOMAIN todo[t] = {1} /\ IsLoad(Head(todo[t]))
<1>1. /\ todo[t] # <<>> /\ IsLoad(Head(todo[t])) /\ Len(todo[t]) = 1
      /\ Head(todo[t]).who = {m} /\ waits[t] = {m}
  BY LoaderFacts
<1>2. t \in Request
  BY RelauncherFacts DEF Task
<1>3. todo[t][1] = Head(todo[t]) /\ DOMAIN todo[t] = {1}
  BY <1>1 DEF Base, TypeOK
<1>4. \A n : ~Owes(t, n)
  BY <1>1, <1>3 DEF Owes, IsLoad
<1>5. \A n, S : LoadsAs(t, n, S) <=> n = m /\ Wanted(t) \in S
  BY <1>1, <1>3 DEF LoadsAs, Loading, Wanted
<1> QED
  BY <1>1, <1>2, <1>3, <1>4, <1>5

(* While requests are alone, only one of them has a plan.                  *)
LEMMA AloneFacts ==
  ASSUME Base, serial, NEW t \in Request, NEW u \in Request, todo[t] # <<>>, todo[u] # <<>>
  PROVE  t = u
  BY DEF Base, PlansInv

LEMMA PlanIsNotEmpty ==
  ASSUME NEW t, NEW m, NEW S, LoadsAs(t, m, S)
  PROVE  todo[t] # <<>>
  BY DEF LoadsAs

(* The steps that follow the first one of a plan.                          *)
LEMMA TailFacts ==
  ASSUME NEW q \in Seq(Step), q # <<>>
  PROVE  /\ 1 \in DOMAIN q /\ Head(q) = q[1] /\ q[1] \in Step
         /\ \A i \in DOMAIN Tail(q) : i + 1 \in DOMAIN q /\ i + 1 # 1 /\ Tail(q)[i] = q[i + 1]
         /\ \A i \in DOMAIN q : i = 1 \/ (i - 1 \in DOMAIN Tail(q) /\ Tail(q)[i - 1] = q[i])
<1>1. /\ Len(Tail(q)) = Len(q) - 1 /\ Len(q) \in Nat /\ Tail(q) \in Seq(Step)
      /\ \A i \in DOMAIN Tail(q) : Tail(q)[i] = q[i + 1]
  OBVIOUS
<1> QED
  BY <1>1

LEMMA ServedFacts ==
  ASSUME NEW name
  PROVE  Served(name) \in {name, "small"}
  BY DEF Served

(* What t asks for, step by step.                                          *)
LEMMA AsksFacts ==
  ASSUME Base, NEW t \in Task, Asks(t)
  PROVE  /\ DOMAIN todo'[t] = DOMAIN todo[t]
         /\ \A i \in DOMAIN todo[t] : /\ todo'[t][i].op = todo[t][i].op
                                      /\ todo'[t][i].who = todo[t][i].who
                                      /\ todo'[t][i].model =
                                           IF i = 1 /\ todo[t][i].op = "guarded"
                                             THEN Served(todo[t][i].model) ELSE todo[t][i].model
<1> DEFINE step == Head(todo[t])
           asked == [step EXCEPT !.model = Served(step.model)]
<1>1. todo[t] \in Seq(Step) /\ todo[t] # <<>>
  BY DEF Asks, Base, TypeOK
<1>2. 1 \in DOMAIN todo[t] /\ step = todo[t][1] /\ step \in Step
  BY <1>1
<1>3. asked.op = step.op /\ asked.who = step.who /\ asked.model = Served(step.model)
  BY <1>2 DEF Step
<1>4. todo'[t] = IF step.op = "guarded" THEN [todo[t] EXCEPT ![1] = asked] ELSE todo[t]
  BY <1>2 DEF Asks
<1> HIDE DEF asked
<1> QED
  BY <1>1, <1>2, <1>3, <1>4

--------------------------------------------------------------------------------
(* Nobody plans to load what it did not plan to load, and what is owed is  *)
(* owed until the manager is empty.                                        *)

LEMMA LoadsKept ==
  ASSUME Base, NEW t \in Task, Acts(t), NEW u \in Request, NEW a \in Manager,
         NEW A \in Kinds, LoadsAs(u, a, A)'
  PROVE  LoadsAs(u, a, A)
<1>1. PICK i \in DOMAIN todo'[u] : /\ IsLoad(todo'[u][i]) /\ a \in todo'[u][i].who
                                   /\ Loading(todo'[u][i].model) \in A
  BY DEF LoadsAs, IsLoad, Loading
<1>2. todo[u] \in Seq(Step) /\ u \in Task
  BY DEF Base, TypeOK, Task
<1>3. CASE todo'[u] = todo[u]
  BY <1>1, <1>3 DEF LoadsAs
<1>4. CASE u = t /\ Asks(t)
  <2>1. i \in DOMAIN todo[u] /\ IsLoad(todo[u][i]) /\ a \in todo[u][i].who /\ todo[u][i] \in Step
    BY <1>1, <1>2, <1>4, AsksFacts DEF IsLoad
  <2>2. Loading(todo[u][i].model) \in A
    <3>1. todo'[u][i].model \in {todo[u][i].model, "small"}
      BY <1>4, <2>1, AsksFacts, ServedFacts
    <3>2. todo[u][i].model \in AnyModel
      BY <2>1 DEF AnyModel, Step
    <3>3. A = StayingBig => todo'[u][i].model = "big"
      BY <1>1, LoadingFacts
    <3> QED
      BY <1>1, <3>1, <3>2, <3>3, LoadingFacts DEF Kinds
  <2> QED
    BY <2>1, <2>2 DEF LoadsAs
<1>5. CASE todo[u] # <<>> /\ todo'[u] = Tail(todo[u])
  <2>1. i + 1 \in DOMAIN todo[u] /\ todo'[u][i] = todo[u][i + 1]
    BY <1>1, <1>2, <1>5, TailFacts
  <2> QED
    BY <1>1, <2>1 DEF LoadsAs
<1>6. CASE todo'[u] = <<>>
  BY <1>1, <1>6
<1>7. ASSUME NEW m \in waits[t], u = t, Fails(t, m)
      PROVE  LoadsAs(u, a, A)
  <2>1. /\ todo[t] # <<>> /\ IsLoad(Head(todo[t])) /\ Len(todo[t]) = 1
        /\ Head(todo[t]).who = {m} /\ waits[t] = {m}
    BY <1>7, LoaderFacts DEF Fails
  <2>2. todo[t][1] = Head(todo[t]) /\ 1 \in DOMAIN todo[t] /\ Head(todo[t]) \in Step
    BY <1>2, <1>7, <2>1
  <2>3. Head(todo[t]).op = "guarded" /\ todo'[u] = <<Evict({"embed"}), Retry(Head(todo[t]).model)>>
    BY <1>1, <1>7 DEF Fails, AfterFailure
  <2>4. todo'[u][i] = Retry(Head(todo[t]).model)
    BY <1>1, <2>3 DEF Evict, IsLoad
  <2>5. Head(todo[t]).who = {"chat"}
    <3>1. WellFormed(todo[t], serial)
      BY DEF Base, PlansInv
    <3> QED
      BY <2>1, <2>2, <2>3, <3>1 DEF WellFormed
  <2> QED
    BY <1>1, <1>7, <2>1, <2>2, <2>4, <2>5 DEF LoadsAs, Retry
<1>8. ASSUME NEW m \in waits[t], u = t, \/ Evicts(t, m) \/ Drains(t, m) \/ Launches(t, m)
                                        \/ Serves(t, m)
      PROVE  todo'[u] \in {todo[u], Tail(todo[u]), <<>>} /\ todo[u] # <<>>
  <2>1. todo[u] # <<>>
    BY <1>2, <1>8 DEF Base, QueuesInv
  <2> QED
    BY <1>8, <2>1, GuardTasks DEF Evicts, Drains, Launches, Serves
<1>9. CASE u # t
  BY <1>3, <1>9 DEF Acts, OnlyTaskOf
<1>10. CASE u = t /\ Skips(t)
  BY <1>5, <1>10 DEF Skips
<1> QED
  BY <1>3, <1>4, <1>5, <1>6, <1>7, <1>8, <1>9, <1>10 DEF Acts

LEMMA OwesKept ==
  ASSUME Base, NEW t \in Task, Acts(t), NEW u \in Request, NEW b \in Manager,
         Owes(u, b), todo'[u] # <<>>
  PROVE  Owes(u, b)' \/ ~Resident(b)'
<1>1. PICK i \in DOMAIN todo[u] : /\ todo[u][i].op = "evict" /\ b \in todo[u][i].who
                                  /\ i = 1 /\ waits[u] # {} => b \in waits[u]
  BY DEF Owes
<1>2. todo[u] \in Seq(Step) /\ u \in Task /\ todo[u] # <<>>
  BY <1>1 DEF Base, TypeOK, Task
<1>3. CASE todo'[u] = todo[u] /\ waits'[u] = waits[u]
  BY <1>1, <1>3 DEF Owes
<1>4. CASE u = t /\ Asks(t)
  <2>1. i \in DOMAIN todo'[u] /\ todo'[u][i].op = "evict" /\ b \in todo'[u][i].who
    BY <1>1, <1>4, AsksFacts
  <2>2. i = 1 => b \in waits'[u]
    BY <1>1, <1>2, <1>4, TailFacts DEF Asks
  <2> QED
    BY <2>1, <2>2 DEF Owes
<1>5. ASSUME todo'[u] = Tail(todo[u]), waits'[u] = {}, i # 1
      PROVE  Owes(u, b)'
  <2>1. i - 1 \in DOMAIN todo'[u] /\ todo'[u][i - 1] = todo[u][i]
    BY <1>2, <1>5, TailFacts
  <2> QED
    BY <1>1, <1>5, <2>1 DEF Owes
<1>6. CASE u = t /\ Skips(t)
  <2>1. i # 1
    BY <1>1, <1>2, <1>6, TailFacts DEF Skips
  <2> QED
    BY <1>5, <1>6, <2>1 DEF Skips
<1>7. ASSUME NEW m \in waits[t], u = t, Evicts(t, m)
      PROVE  Owes(u, b)' \/ ~Resident(b)'
  <2>1. CASE b = m
    BY <1>7, <2>1 DEF Evicts, Resident, Empty
  <2>2. CASE b # m /\ waits[t] = {m}
    BY <1>1, <1>5, <1>7, <2>2 DEF Evicts
  <2>3. CASE b # m /\ waits[t] # {m}
    BY <1>1, <1>7, <2>3 DEF Evicts, Owes
  <2> QED
    BY <2>1, <2>2, <2>3
<1>8. ASSUME NEW m \in waits[t], u = t, Fails(t, m)
      PROVE  FALSE
  <2>1. todo[t] # <<>> /\ IsLoad(Head(todo[t])) /\ Len(todo[t]) = 1
    BY <1>8, LoaderFacts DEF Fails
  <2> QED
    BY <1>1, <1>2, <1>8, <2>1 DEF IsLoad
<1>9. ASSUME NEW m \in waits[t], u = t, Serves(t, m)
      PROVE  FALSE
  BY <1>9, GuardTasks DEF Serves
<1> QED
  BY <1>3, <1>4, <1>6, <1>7, <1>8, <1>9
  DEF Acts, OnlyTaskOf, Drains, Launches, Task

--------------------------------------------------------------------------------
(* Tenants apart: not on the GPU together, and who plans to load the one   *)
(* still has to evict the other, or it is gone.                            *)

Clear(a, A, b, B) == \A t \in Request : LoadsAs(t, a, A) => Owes(t, b) \/ ~Has(b, B)

Apart(a, A, b, B) == ~(Has(a, A) /\ Has(b, B)) /\ Clear(a, A, b, B) /\ Clear(b, B, a, A)

LEMMA ClearKept ==
  ASSUME Base, serial, NEW t \in Task, Acts(t), NEW a \in Manager, NEW b \in Manager \ {"embed"}, a # b,
         NEW A \in Kinds, NEW B \in Kinds, Clear(a, A, b, B)
  PROVE  Clear(a, A, b, B)'
<1> SUFFICES ASSUME NEW u \in Request, LoadsAs(u, a, A)', Has(b, B)'
             PROVE  Owes(u, b)'
  BY DEF Clear
<1>1. LoadsAs(u, a, A)
  BY LoadsKept
<1>2. todo[u] # <<>> /\ todo'[u] # <<>>
  BY <1>1 DEF LoadsAs
<1>3. Resident(b)'
  BY KindFacts DEF Has, Resident
<1>4. CASE Owes(u, b)
  BY <1>2, <1>3, <1>4, OwesKept
<1>5. CASE ~Has(b, B)
  <2>1. b \in waits[t] /\ Launches(t, b)
    BY <1>5, HasFacts
  <2>2. ~Evicting(t) /\ b # "embed"
    BY <2>1 DEF Launches
  <2>3. t \in Request /\ todo[t] # <<>> /\ \A n, S : LoadsAs(t, n, S) => n = b
    BY <2>1, <2>2, LauncherFacts
  <2>4. t = u
    BY <1>2, <2>3, AloneFacts
  <2> QED
    BY <1>1, <2>3, <2>4
<1> QED
  BY <1>1, <1>4, <1>5 DEF Clear

LEMMA ApartKept ==
  ASSUME Base, serial, NEW t \in Task, Acts(t),
         NEW a \in Manager \ {"embed"}, NEW b \in Manager \ {"embed"}, a # b,
         NEW A \in Kinds, NEW B \in Kinds, Apart(a, A, b, B)
  PROVE  Apart(a, A, b, B)'
<1>1. Clear(a, A, b, B)' /\ Clear(b, B, a, A)'
  BY ClearKept DEF Apart
<1>2. ASSUME NEW x \in Manager \ {"embed"}, NEW y \in Manager \ {"embed"},
             NEW X, NEW Y, Clear(x, X, y, Y), x \in waits[t], Launches(t, x), Wanted(t) \in X
      PROVE  ~Has(y, Y)
  <2>1. t \in Request /\ LoadsAs(t, x, X) /\ ~Owes(t, y)
    BY <1>2, LauncherFacts DEF Launches
  <2> QED
    BY <1>2, <2>1 DEF Clear
<1>3. ASSUME Has(a, A)', Has(b, B)'
      PROVE  FALSE
  <2>1. Has(a, A) \/ (a \in waits[t] /\ Launches(t, a) /\ Wanted(t) \in A)
    BY <1>3, HasFacts
  <2>2. Has(b, B) \/ (b \in waits[t] /\ Launches(t, b) /\ Wanted(t) \in B)
    BY <1>3, HasFacts
  <2>3. ~(a \in waits[t] /\ Launches(t, a) /\ b \in waits[t])
    <3>1. ASSUME a \in waits[t], Launches(t, a)
          PROVE  waits[t] = {a}
      BY <3>1, LauncherFacts DEF Launches
    <3> QED
      BY <3>1
  <2>4. CASE a \in waits[t] /\ Launches(t, a) /\ Wanted(t) \in A
    BY <1>2, <2>2, <2>3, <2>4 DEF Apart
  <2>5. CASE b \in waits[t] /\ Launches(t, b) /\ Wanted(t) \in B
    BY <1>2, <2>1, <2>3, <2>5 DEF Apart
  <2> QED
    BY <2>1, <2>2, <2>4, <2>5 DEF Apart
<1> QED
  BY <1>1, <1>3 DEF Apart

--------------------------------------------------------------------------------
(* A request comes in.                                                     *)

(* What the routes evict before they load.                                 *)
LEMMA RouteLoads ==
  ASSUME NEW c \in CallType, c.to # "load",
         NEW i \in DOMAIN Route(c), IsLoad(Route(c)[i])
  PROVE  /\ c.to \in Manager /\ Route(c)[i].who = {c.to}
         /\ IF c.to = "chat" THEN Route(c)[i].op = "guarded" /\ Route(c)[i].model = c.model
                             ELSE Route(c)[i].op = "ensure"
         /\ \/ c.to = "chat" /\ Route(c) = ChatRoute(c.model) /\ c.model \in AnyModel
            \/ c.to \in Audio /\ Route(c) = AudioRoute(c.to)
            \/ c.to = "image" /\ Route(c) = ImageRoute
            \/ c.to = "music" /\ Route(c) = MusicRoute
            \/ c.to = "embed"
<1>1. ASSUME NEW m \in Manager, c.to = m, EndsIn(Route(c), Ensure(m, "only")), m # "chat"
      PROVE  c.to \in Manager /\ Route(c)[i].who = {c.to} /\ Route(c)[i].op = "ensure" /\ c.to # "chat"
  BY <1>1 DEF EndsIn, Ensure
<1>2. CASE c.to = "chat" /\ Route(c) = ChatRoute(c.model) /\ c.model \in AnyModel
  <2>1. EndsIn(Route(c), GuardedEnsure(c.model))
    BY <1>2, ChatRouteFacts
  <2>2. Route(c)[i] = GuardedEnsure(c.model)
    BY <2>1 DEF EndsIn
  <2> QED
    BY <1>2, <2>2 DEF GuardedEnsure, Manager
<1>3. CASE c.to \in Audio /\ Route(c) = AudioRoute(c.to)
  BY <1>1, <1>3, AudioRouteFacts DEF Audio, Manager
<1>4. CASE c.to = "image" /\ Route(c) = ImageRoute
  BY <1>1, <1>4, ImageRouteFacts DEF Manager
<1>5. CASE c.to = "music" /\ Route(c) = MusicRoute
  BY <1>1, <1>5, MusicRouteFacts DEF Manager
<1>6. CASE c.to = "embed" /\ Route(c) = <<Ensure("embed", "only")>>
  BY <1>6 DEF Ensure, Manager
<1> QED
  BY <1>2, <1>3, <1>4, <1>5, <1>6, RouteFacts

LEMMA RouteIs ==
  ASSUME NEW c \in CallType
  PROVE  /\ c.to = "chat" => Route(c) = ChatRoute(c.model) /\ c.model \in AnyModel
         /\ \A a \in Audio : c.to = a => Route(c) = AudioRoute(a)
         /\ c.to = "image" => Route(c) = ImageRoute
         /\ c.to = "music" => Route(c) = MusicRoute
<1>1. c.to = "chat" => Route(c) = ChatRoute(c.model)
  BY DEF Route, Audio
<1>2. c.to = "chat" => c.model \in AnyModel
  BY DEF CallType, AnyModel
<1>3. ASSUME NEW a \in Audio, c.to = a
      PROVE  Route(c) = AudioRoute(a)
  BY <1>3 DEF Route, Audio
<1>4. c.to = "image" => Route(c) = ImageRoute
  BY DEF Route, Audio
<1>5. c.to = "music" => Route(c) = MusicRoute
  BY DEF Route, Audio
<1> QED
  BY <1>1, <1>2, <1>3, <1>4, <1>5

(* What comes in while requests are alone: the only plan is its route.     *)
LEMMA AloneBegins ==
  ASSUME Base, serial, NEW t \in Request, NEW c \in Call[t] \cup BusyCall[t], Begins(t, c),
         NEW u \in Request
  PROVE  /\ c \in CallType /\ c.to # "load" /\ ~Blocked(c) /\ UNCHANGED <<on, serial, slot, waits>>
         /\ u = t => todo'[u] = Route(c) /\ waits'[u] = {}
         /\ u # t => todo'[u] = <<>>
<1>1. t \in Task /\ u \in Task
  BY DEF Task
<1>2. /\ c \in CallType /\ c.to # "load" /\ ~Blocked(c) /\ UNCHANGED <<on, serial, slot, waits>>
      /\ waits[t] = {} /\ todo' = [todo EXCEPT ![t] = Route(c)] /\ todo[u] = <<>>
  BY BeginsFacts
<1>3. DOMAIN todo = Task
  BY DEF Base, TypeOK
<1>4. todo'[u] = IF u = t THEN Route(c) ELSE <<>>
  BY <1>1, <1>2, <1>3
<1> QED
  BY <1>2, <1>4

LEMMA ClearBegins ==
  ASSUME Base, serial, NEW t \in Request, NEW c \in Call[t] \cup BusyCall[t], Begins(t, c),
         NEW a \in Manager, NEW A, NEW b \in Manager, NEW B,
         c.to = a /\ (a = "chat" => Loading(c.model) \in A) => EvictsIn(Route(c), b) \/ ~Has(b, B)
  PROVE  Clear(a, A, b, B)'
<1> SUFFICES ASSUME NEW u \in Request, LoadsAs(u, a, A)', Has(b, B)'
             PROVE  Owes(u, b)'
  BY DEF Clear
<1>1. /\ c \in CallType /\ c.to # "load" /\ UNCHANGED <<on, serial, slot, waits>>
      /\ u = t => todo'[u] = Route(c) /\ waits'[u] = {}
      /\ u # t => todo'[u] = <<>>
  BY AloneBegins
<1>2. PICK i \in DOMAIN todo'[u] : /\ IsLoad(todo'[u][i]) /\ a \in todo'[u][i].who
                                   /\ Loading(todo'[u][i].model) \in A
  BY DEF LoadsAs, IsLoad, Loading
<1>3. u = t /\ todo'[u] = Route(c) /\ waits'[u] = {}
  BY <1>1, <1>2
<1>4. c.to = a /\ (a = "chat" => Loading(c.model) \in A)
  BY <1>1, <1>2, <1>3, RouteLoads
<1>5. Has(b, B)
  BY <1>1 DEF Has
<1>6. EvictsIn(Route(c), b)
  BY <1>4, <1>5
<1> QED
  BY <1>3, <1>6 DEF Owes, EvictsIn

LEMMA ApartBegins ==
  ASSUME Base, serial, NEW t \in Request, NEW c \in Call[t] \cup BusyCall[t], Begins(t, c),
         NEW a \in Manager, NEW A, NEW b \in Manager, NEW B, Apart(a, A, b, B),
         c.to = a /\ (a = "chat" => Loading(c.model) \in A) => EvictsIn(Route(c), b) \/ ~Has(b, B),
         c.to = b /\ (b = "chat" => Loading(c.model) \in B) => EvictsIn(Route(c), a) \/ ~Has(a, A)
  PROVE  Apart(a, A, b, B)'
<1>1. Clear(a, A, b, B)' /\ Clear(b, B, a, A)'
  BY ClearBegins
<1>2. slot' = slot
  BY BeginsFacts
<1>3. ~(Has(a, A) /\ Has(b, B))'
  BY <1>2 DEF Apart, Has
<1> QED
  BY <1>1, <1>3 DEF Apart

(* While requests are alone, nothing but the embedding server is on the    *)
(* move for a task when one of them begins.                                *)
LEMMA NothingMoves ==
  ASSUME Base, NEW m \in Manager, m # "embed",
         \A u \in Request : m \notin waits[u]
  PROVE  slot[m].phase \in {"empty", "ready", "unloading"}
<1>1. ASSUME busy[m], slot[m].phase # "unloading"
      PROVE  FALSE
  <2>1. lockq[m] # <<>> /\ Head(lockq[m]) \in Task
    BY <1>1 DEF Base, BusyInv
  <2>2. m \in waits[Head(lockq[m])]
    BY <2>1, HolderFacts DEF Base
  <2>3. Head(lockq[m]) = Relauncher
    BY <2>1, <2>2 DEF Task
  <2> QED
    BY <2>2, <2>3, RelauncherFacts
<1>2. slot[m].phase \in Moving \cup {"empty", "ready"}
  BY DEF Base, TypeOK, Server, Empty
<1> QED
  BY <1>1, <1>2 DEF Base, BusyInv

LEMMA AloneIdle ==
  ASSUME Base, NEW u \in Request, todo[u] = <<>>
  PROVE  waits[u] = {}
  BY DEF Base, QueuesInv, Task

LEMMA NotBlocked ==
  ASSUME Base, serial, NEW t \in Request, NEW c \in Call[t] \cup BusyCall[t], Begins(t, c),
         c.to \in Audio, "block_audio_on_big_llm" \in on
  PROVE  ~Has("chat", StayingBig)
<1>1. ~Blocked(c) /\ \A u \in Request : todo[u] = <<>>
  BY BeginsFacts
<1>2. \A u \in Request : waits[u] = {}
  BY <1>1, AloneIdle
<1>3. slot["chat"].phase \in {"empty", "ready", "unloading"}
  BY <1>2, NothingMoves DEF Manager
<1> QED
  BY <1>1, <1>3 DEF Blocked, Has, Staying, StayingBig, Server, Moving

--------------------------------------------------------------------------------
(***************************************************************************)
(* The invariants.                                                         *)
(***************************************************************************)

(* Each of a and b evicts the other.                                       *)
Rivals(a, b) ==
  \/ a = "image" /\ b = "chat" /\ {"unload_on_image", "unload_image_on_llm"} \subseteq on
  \/ a = "music" /\ b = "chat" /\ {"unload_on_music", "unload_music_on_llm"} \subseteq on
  \/ a = "image" /\ b \in Audio /\ {"unload_on_image", "unload_image_on_audio"} \subseteq on
  \/ a = "music" /\ b \in Audio /\ {"unload_on_music", "unload_music_on_audio"} \subseteq on
  \/ /\ a = "image" /\ b = "music"
     /\ {"unload_on_image", "unload_on_music", "unload_image_on_music"} \subseteq on

RivalsInv ==
  serial => \A a, b \in Manager \ {"embed"} : Rivals(a, b) => Apart(a, Server, b, Server)

(* While an audio request is on its way no big chat model comes, and what  *)
(* is there of one is being unloaded by its watcher.                       *)
BlockInv ==
  serial /\ "block_audio_on_big_llm" \in on =>
    \A t \in Request, a \in Audio : LoadsAs(t, a, Server) => ~Has("chat", StayingBig)

BigInv ==
  serial /\ {"unload_audio_on_big_llm", "block_audio_on_big_llm"} \subseteq on =>
    \A a \in Audio : Apart("chat", StayingBig, a, Server)

(* A chat request has chosen a big model, knowing what is up.              *)
Decided(t) == \E i \in DOMAIN todo[t] :
  /\ IsLoad(todo[t][i]) /\ "chat" \in todo[t][i].who /\ todo[t][i].model = "big"
  /\ todo[t][i].op = "guarded" => i = 1 /\ waits[t] # {}

BothAudio == Has("tts", Staying) /\ Has("asr", Staying)

BothInv ==
  serial /\ {"audio_vram_guard", "block_audio_on_big_llm"} \subseteq on =>
    /\ ~(Has("chat", StayingBig) /\ BothAudio)
    /\ \A t \in Request : Decided(t) => ~BothAudio

IInv == Base /\ RivalsInv /\ BlockInv /\ BigInv /\ BothInv

--------------------------------------------------------------------------------
(* What servers and watchers do, or a step that leaves all as it is: no    *)
(* server becomes one of a kind it was not of.                             *)

Fewer ==
  /\ UNCHANGED <<on, serial, todo, waits>>
  /\ \A m \in Manager, S \in Kinds : Has(m, S)' => Has(m, S)

LEMMA FewerApart ==
  ASSUME Fewer, NEW a \in Manager, NEW A \in Kinds, NEW b \in Manager, NEW B \in Kinds,
         Apart(a, A, b, B)
  PROVE  Apart(a, A, b, B)'
<1>1. Has(a, A)' => Has(a, A)
  BY DEF Fewer
<1>2. Has(b, B)' => Has(b, B)
  BY DEF Fewer
<1>3. \A t \in Request : /\ LoadsAs(t, a, A)' <=> LoadsAs(t, a, A)
                         /\ LoadsAs(t, b, B)' <=> LoadsAs(t, b, B)
                         /\ Owes(t, a)' <=> Owes(t, a)
                         /\ Owes(t, b)' <=> Owes(t, b)
  BY DEF Fewer, LoadsAs, Loading, Owes, IsLoad
<1> QED
  BY <1>1, <1>2, <1>3 DEF Apart, Clear

LEMMA FewerKeeps ==
  ASSUME RivalsInv, BlockInv, BigInv, BothInv, Fewer
  PROVE  RivalsInv' /\ BlockInv' /\ BigInv' /\ BothInv'
<1>1. UNCHANGED <<on, serial, todo, waits>>
  BY DEF Fewer
<1>2. /\ "chat" \in Manager /\ Audio \subseteq Manager
      /\ Server \in Kinds /\ Staying \in Kinds /\ StayingBig \in Kinds
  BY DEF Manager, Audio, Kinds
<1>3. Has("chat", StayingBig)' => Has("chat", StayingBig)
  BY <1>2 DEF Fewer
<1>4. RivalsInv'
  BY <1>1, <1>2, FewerApart DEF RivalsInv, Rivals
<1>5. BlockInv'
  <2>1. \A t \in Request, a \in Audio : LoadsAs(t, a, Server)' => LoadsAs(t, a, Server)
    BY <1>1 DEF LoadsAs, IsLoad, Loading
  <2> QED
    BY <1>1, <1>3, <2>1 DEF BlockInv
<1>6. BigInv'
  BY <1>1, <1>2, FewerApart DEF BigInv
<1>7. BothInv'
  <2>1. BothAudio' => BothAudio
    BY <1>2 DEF Fewer, BothAudio, Audio
  <2>2. \A t \in Request : Decided(t)' => Decided(t)
    BY <1>1 DEF Decided, IsLoad
  <2> QED
    BY <1>1, <1>3, <2>1, <2>2 DEF BothInv
<1> QED
  BY <1>4, <1>5, <1>6, <1>7

--------------------------------------------------------------------------------
(* A request comes in.                                                     *)

LEMMA BeginsKeeps ==
  ASSUME IInv, NEW t \in Request, NEW c \in Call[t] \cup BusyCall[t], Begins(t, c)
  PROVE  RivalsInv' /\ BlockInv' /\ BigInv' /\ BothInv'
<1> SUFFICES ASSUME serial
             PROVE  RivalsInv' /\ BlockInv' /\ BigInv' /\ BothInv'
  <2>1. serial' = serial
    BY BeginsFacts DEF IInv
  <2> QED
    BY <2>1 DEF RivalsInv, BlockInv, BigInv, BothInv
<1>1. c \in CallType /\ c.to # "load" /\ ~Blocked(c) /\ UNCHANGED <<on, serial, slot, waits>>
  BY BeginsFacts DEF IInv
<1>2. /\ c.to = "chat" => Route(c) = ChatRoute(c.model) /\ c.model \in AnyModel
      /\ \A a \in Audio : c.to = a => Route(c) = AudioRoute(a)
      /\ c.to = "image" => Route(c) = ImageRoute
      /\ c.to = "music" => Route(c) = MusicRoute
  BY <1>1, RouteIs
<1>3. \A u \in Request : todo'[u] # <<>> => todo'[u] = Route(c) /\ waits'[u] = {}
  BY AloneBegins DEF IInv
<1>4. RivalsInv'
  <2> SUFFICES ASSUME NEW a \in Manager \ {"embed"}, NEW b \in Manager \ {"embed"}, Rivals(a, b)
               PROVE  Apart(a, Server, b, Server)'
    BY <1>1 DEF RivalsInv, Rivals
  <2>1. Apart(a, Server, b, Server)
    BY DEF IInv, RivalsInv
  <2>2. c.to = a => EvictsIn(Route(c), b)
    BY <1>2, ImageRouteFacts, MusicRouteFacts DEF Rivals
  <2>3. c.to = b => EvictsIn(Route(c), a)
    BY <1>2, ChatRouteFacts, AudioRouteFacts, MusicRouteFacts DEF Rivals
  <2> QED
    BY <2>1, <2>2, <2>3, ApartBegins DEF IInv
<1>5. BlockInv'
  <2> SUFFICES ASSUME "block_audio_on_big_llm" \in on, NEW u \in Request, NEW a \in Audio,
                      LoadsAs(u, a, Server)'
               PROVE  ~Has("chat", StayingBig)'
    BY <1>1 DEF BlockInv
  <2>1. c.to \in Audio
    <3>1. PICK i \in DOMAIN todo'[u] : IsLoad(todo'[u][i]) /\ a \in todo'[u][i].who
      BY DEF LoadsAs, IsLoad, Loading
    <3>2. todo'[u] = Route(c)
      BY <1>3, <3>1
    <3> QED
      BY <1>1, <3>1, <3>2, RouteLoads
  <2>2. ~Has("chat", StayingBig)
    BY <2>1, NotBlocked DEF IInv
  <2> QED
    BY <1>1, <2>2 DEF Has
<1>6. BigInv'
  <2> SUFFICES ASSUME {"unload_audio_on_big_llm", "block_audio_on_big_llm"} \subseteq on, NEW a \in Audio
               PROVE  Apart("chat", StayingBig, a, Server)'
    BY <1>1 DEF BigInv
  <2>1. Apart("chat", StayingBig, a, Server)
    BY DEF IInv, BigInv
  <2>2. c.to = "chat" /\ Loading(c.model) \in StayingBig => EvictsIn(Route(c), a)
    BY <1>2, ChatRouteFacts, LoadingFacts
  <2>3. c.to = a => ~Has("chat", StayingBig)
    BY NotBlocked DEF IInv
  <2>4. "chat" \in Manager /\ a \in Manager /\ a # "chat"
    BY DEF Manager, Audio
  <2> QED
    BY <2>1, <2>2, <2>3, <2>4, ApartBegins DEF IInv
<1>7. BothInv'
  <2>1. ASSUME NEW u \in Request, Decided(u)'
        PROVE  FALSE
    <3>1. PICK i \in DOMAIN todo'[u] :
            /\ IsLoad(todo'[u][i]) /\ "chat" \in todo'[u][i].who
            /\ todo'[u][i].op = "guarded" => waits'[u] # {}
      BY <2>1 DEF Decided, IsLoad
    <3>2. todo'[u] = Route(c) /\ waits'[u] = {}
      BY <1>3, <3>1
    <3>3. todo'[u][i].op \in {"guarded", "ensure"} /\ todo'[u][i].who = {c.to}
      BY <1>1, <3>1, <3>2, RouteLoads
    <3> QED
      BY <1>1, <3>1, <3>2, <3>3, RouteLoads
  <2>2. BothAudio' = BothAudio /\ Has("chat", StayingBig)' = Has("chat", StayingBig)
    BY <1>1 DEF BothAudio, Has
  <2> QED
    BY <1>1, <2>1, <2>2 DEF IInv, BothInv
<1> QED
  BY <1>4, <1>5, <1>6, <1>7

--------------------------------------------------------------------------------
(* A task goes on.                                                         *)

LEMMA RivalsActs ==
  ASSUME IInv, NEW t \in Task, Acts(t)
  PROVE  RivalsInv'
<1>1. UNCHANGED <<on, serial>>
  BY DEF Acts
<1> SUFFICES ASSUME serial, NEW a \in Manager \ {"embed"}, NEW b \in Manager \ {"embed"}, Rivals(a, b)
             PROVE  Apart(a, Server, b, Server)'
  BY <1>1 DEF RivalsInv, Rivals
<1>2. Apart(a, Server, b, Server) /\ a # b
  BY DEF IInv, RivalsInv, Rivals, Audio
<1> QED
  BY <1>2, ApartKept DEF IInv, Kinds

LEMMA BigActs ==
  ASSUME IInv, NEW t \in Task, Acts(t)
  PROVE  BigInv'
<1>1. UNCHANGED <<on, serial>>
  BY DEF Acts
<1> SUFFICES ASSUME serial, {"unload_audio_on_big_llm", "block_audio_on_big_llm"} \subseteq on,
                    NEW a \in Audio
             PROVE  Apart("chat", StayingBig, a, Server)'
  BY <1>1 DEF BigInv
<1>2. Apart("chat", StayingBig, a, Server)
  BY DEF IInv, BigInv
<1>3. "chat" \in Manager \ {"embed"} /\ a \in Manager \ {"embed"} /\ a # "chat"
  BY DEF Manager, Audio
<1> QED
  BY <1>2, <1>3, ApartKept DEF IInv, Kinds

LEMMA BlockActs ==
  ASSUME IInv, NEW t \in Task, Acts(t)
  PROVE  BlockInv'
<1>1. UNCHANGED <<on, serial>>
  BY DEF Acts
<1> SUFFICES ASSUME serial, "block_audio_on_big_llm" \in on, NEW u \in Request, NEW a \in Audio,
                    LoadsAs(u, a, Server)', Has("chat", StayingBig)'
             PROVE  FALSE
  BY <1>1 DEF BlockInv
<1>2. a \in Manager /\ "chat" \in Manager /\ a # "chat"
  BY DEF Manager, Audio
<1>3. LoadsAs(u, a, Server)
  BY <1>2, LoadsKept DEF IInv, Kinds
<1>4. ~Has("chat", StayingBig)
  BY <1>3 DEF IInv, BlockInv
<1>5. "chat" \in waits[t] /\ Launches(t, "chat")
  BY <1>2, <1>4, HasFacts DEF IInv, Kinds
<1>6. t \in Request /\ todo[t] # <<>> /\ \A n, S : LoadsAs(t, n, S) => n = "chat"
  BY <1>5, LauncherFacts DEF IInv, Launches
<1>7. t = u
  BY <1>3, <1>6, PlanIsNotEmpty, AloneFacts DEF IInv
<1> QED
  BY <1>2, <1>3, <1>6, <1>7

(* The choice is made when the lock is asked for, and not taken back.      *)
LEMMA DecidedFacts ==
  ASSUME Base, NEW t \in Task, Acts(t), NEW u \in Request, Decided(u)'
  PROVE  Decided(u) \/ (u = t /\ Asks(t) /\ \E name : Served(name) = "big")
<1>1. PICK i \in DOMAIN todo'[u] :
        /\ IsLoad(todo'[u][i]) /\ "chat" \in todo'[u][i].who /\ todo'[u][i].model = "big"
        /\ todo'[u][i].op = "guarded" => i = 1 /\ waits'[u] # {}
  BY DEF Decided, IsLoad
<1>2. todo[u] \in Seq(Step) /\ u \in Task
  BY DEF Base, TypeOK, Task
<1>3. ASSUME todo'[u] = todo[u], waits'[u] # {} => waits[u] # {}
      PROVE  Decided(u)
  BY <1>1, <1>3 DEF Decided
<1>4. CASE u = t /\ Asks(t)
  <2>1. /\ i \in DOMAIN todo[u] /\ IsLoad(todo[u][i]) /\ "chat" \in todo[u][i].who
        /\ todo'[u][i].op = todo[u][i].op
    BY <1>1, <1>4, AsksFacts DEF IsLoad
  <2>2. CASE todo[u][i].op = "guarded"
    <3>1. Served(todo[u][i].model) = "big"
      BY <1>1, <1>4, <2>1, <2>2, AsksFacts
    <3> QED
      BY <1>4, <3>1
  <2>3. CASE todo[u][i].op # "guarded"
    <3>1. todo[u][i].model = "big"
      BY <1>1, <1>4, <2>1, <2>3, AsksFacts
    <3> QED
      BY <2>1, <2>3, <3>1 DEF Decided
  <2> QED
    BY <2>2, <2>3
<1>5. ASSUME todo[u] # <<>>, todo'[u] = Tail(todo[u]), waits'[u] = {}
      PROVE  Decided(u)
  <2>1. i + 1 \in DOMAIN todo[u] /\ todo'[u][i] = todo[u][i + 1]
    BY <1>1, <1>2, <1>5, TailFacts
  <2>2. todo'[u][i].op # "guarded"
    BY <1>1, <1>5
  <2> QED
    BY <1>1, <2>1, <2>2 DEF Decided
<1>6. ASSUME NEW m \in waits[t], u = t, Evicts(t, m)
      PROVE  Decided(u)
  <2>1. todo[u] # <<>>
    BY <1>2, <1>6 DEF Base, QueuesInv
  <2>2. CASE waits[t] = {m}
    <3>1. todo'[u] = Tail(todo[u]) /\ waits'[u] = {}
      BY <1>6, <2>2 DEF Evicts
    <3> QED
      BY <1>5, <2>1, <3>1
  <2>3. CASE waits[t] # {m}
    <3>1. todo'[u] = todo[u] /\ waits[u] # {}
      BY <1>6, <2>3 DEF Evicts
    <3> QED
      BY <1>3, <3>1
  <2> QED
    BY <2>2, <2>3
<1>7. ASSUME NEW m \in waits[t], u = t, Fails(t, m)
      PROVE  Decided(u)
  <2>1. /\ todo[t] # <<>> /\ IsLoad(Head(todo[t])) /\ Len(todo[t]) = 1
        /\ Head(todo[t]).who = {m} /\ waits[t] = {m}
    BY <1>7, LoaderFacts DEF Fails
  <2>2. todo[t][1] = Head(todo[t]) /\ 1 \in DOMAIN todo[t]
    BY <1>2, <1>7, <2>1
  <2>3. Head(todo[t]).op = "guarded" /\ todo'[u] = <<Evict({"embed"}), Retry(Head(todo[t]).model)>>
    BY <1>1, <1>7 DEF Fails, AfterFailure
  <2>4. todo'[u][i] = Retry(Head(todo[t]).model)
    BY <1>1, <2>3 DEF Evict, IsLoad
  <2>5. Head(todo[t]).who = {"chat"}
    <3>1. WellFormed(todo[t], serial)
      BY DEF Base, PlansInv
    <3> QED
      BY <2>1, <2>2, <2>3, <3>1 DEF WellFormed
  <2> QED
    BY <1>1, <1>7, <2>1, <2>2, <2>4, <2>5 DEF Decided, Retry
<1>8. ASSUME NEW m \in waits[t], u = t, Serves(t, m)
      PROVE  FALSE
  BY <1>1, <1>8, GuardTasks DEF Serves
<1>9. ASSUME NEW m \in waits[t], u = t, Drains(t, m) \/ Launches(t, m)
      PROVE  Decided(u)
  <2>1. todo'[u] = todo[u] /\ waits'[u] = waits[u]
    BY <1>9 DEF Drains, Launches
  <2> QED
    BY <1>3, <2>1
<1>10. CASE u = t /\ Skips(t)
  BY <1>5, <1>10 DEF Skips
<1>11. CASE u # t
  BY <1>3, <1>11 DEF Acts, OnlyTaskOf
<1> QED
  BY <1>4, <1>6, <1>7, <1>8, <1>9, <1>10, <1>11 DEF Acts

LEMMA BothActs ==
  ASSUME IInv, NEW t \in Task, Acts(t)
  PROVE  BothInv'
<1>1. UNCHANGED <<on, serial>> /\ Base
  BY DEF Acts, IInv
<1> SUFFICES ASSUME serial, {"audio_vram_guard", "block_audio_on_big_llm"} \subseteq on, BothAudio'
             PROVE  ~Has("chat", StayingBig)' /\ \A u \in Request : ~Decided(u)'
  BY <1>1 DEF BothInv
<1>2. /\ ~(Has("chat", StayingBig) /\ BothAudio)
      /\ \A u \in Request : Decided(u) => ~BothAudio
      /\ \A u \in Request, a \in Audio : LoadsAs(u, a, Server) => ~Has("chat", StayingBig)
  BY DEF IInv, BothInv, BlockInv
<1>3. "chat" \in Manager /\ Audio \subseteq Manager /\ Audio = {"tts", "asr"}
  BY DEF Manager, Audio
<1>4. ASSUME NEW a \in Audio
      PROVE  Has(a, Staying) \/ (a \in waits[t] /\ Launches(t, a))
  <2>1. Has(a, Staying)' /\ a \in Manager
    BY <1>3 DEF BothAudio
  <2> QED
    BY <1>1, <2>1, HasFacts DEF Kinds
<1>5. ASSUME NEW m \in waits[t] \ {"embed"}, Launches(t, m)
      PROVE  /\ t \in Request /\ todo[t] # <<>> /\ waits[t] = {m} /\ Head(todo[t]).who = {m}
             /\ LoadsAs(t, m, Server)
             /\ todo[t][1] = Head(todo[t]) /\ DOMAIN todo[t] = {1} /\ IsLoad(Head(todo[t]))
  <2>1. todo[t] # <<>> => Wanted(t) \in Server
    <3>1. todo[t] # <<>> => Head(todo[t]) \in Step
      BY <1>1 DEF Base, TypeOK
    <3> QED
      BY <3>1 DEF Wanted, Step, Server, Moving
  <2> QED
    BY <1>1, <1>5, <2>1, LauncherFacts DEF Launches
<1>6. ASSUME Has("chat", StayingBig)'
      PROVE  FALSE
  <2>1. Has("chat", StayingBig) \/ ("chat" \in waits[t] /\ Launches(t, "chat") /\ Wanted(t).model = "big")
    BY <1>1, <1>3, <1>6, HasFacts DEF Kinds, StayingBig
  <2>2. CASE "chat" \in waits[t] /\ Launches(t, "chat") /\ Wanted(t).model = "big"
    <3>1. Decided(t) /\ t \in Request /\ waits[t] = {"chat"}
      BY <1>5, <2>2 DEF Decided, Wanted
    <3>2. BothAudio
      BY <1>3, <1>4, <3>1 DEF BothAudio
    <3> QED
      BY <1>2, <3>1, <3>2
  <2>3. ASSUME NEW a \in Audio, a \in waits[t], Launches(t, a), Has("chat", StayingBig)
        PROVE  FALSE
    <3>1. t \in Request /\ LoadsAs(t, a, Server)
      BY <1>3, <1>5, <2>3
    <3> QED
      BY <1>2, <2>3, <3>1
  <2> QED
    BY <1>2, <1>3, <1>4, <2>1, <2>2, <2>3 DEF BothAudio
<1>7. ASSUME NEW u \in Request, Decided(u)'
      PROVE  FALSE
  <2>1. CASE Decided(u)
    <3>1. PICK i \in DOMAIN todo[u] : IsLoad(todo[u][i]) /\ "chat" \in todo[u][i].who
      BY <2>1 DEF Decided
    <3>2. PICK a \in Audio : ~Has(a, Staying)
      BY <1>2, <1>3, <2>1 DEF BothAudio
    <3>3. a \in waits[t] /\ Launches(t, a)
      BY <1>4, <3>2
    <3>4. /\ t \in Request /\ todo[t] # <<>> /\ Head(todo[t]).who = {a}
          /\ todo[t][1] = Head(todo[t]) /\ DOMAIN todo[t] = {1}
      BY <1>3, <1>5, <3>3
    <3>5. t = u
      BY <1>1, <3>1, <3>4, AloneFacts
    <3> QED
      BY <1>3, <3>1, <3>4, <3>5
  <2>2. CASE u = t /\ Asks(t) /\ \E name : Served(name) = "big"
    <3>1. slot' = slot /\ waits[t] = {} /\ todo[t] # <<>>
      BY <2>2 DEF Asks
    <3>2. BothAudio
      BY <3>1 DEF BothAudio, Has
    <3>3. \A v \in Request : waits[v] = {}
      BY <1>1, <2>2, <3>1, AloneFacts, AloneIdle
    <3>4. \A a \in Audio : slot[a].phase \in {"empty", "ready", "unloading"}
      BY <1>1, <1>3, <3>3, NothingMoves
    <3>5. IsRunning("tts") /\ IsRunning("asr")
      BY <1>3, <3>2, <3>4 DEF BothAudio, Has, Staying, Server, Moving, IsRunning
    <3> QED
      BY <2>2, <3>5 DEF Served
  <2> QED
    BY <1>1, <1>7, <2>1, <2>2, DecidedFacts
<1> QED
  BY <1>6, <1>7

--------------------------------------------------------------------------------
LEMMA IInvInit == Init => IInv
<1> SUFFICES ASSUME Init PROVE IInv
  OBVIOUS
<1>1. Base
  BY InitBase
<1>2. \A t \in Request : todo[t] = <<>>
  BY DEF Init, Task
<1>3. /\ \A t \in Request : \A m, S : ~LoadsAs(t, m, S)
      /\ \A t \in Request : ~Decided(t)
  BY <1>2 DEF LoadsAs, Decided
<1>4. \A m \in Manager, S \in Kinds : ~Has(m, S)
  BY KindFacts DEF Init, Has
<1>5. RivalsInv
  BY <1>3, <1>4 DEF RivalsInv, Apart, Clear, Kinds
<1>6. BlockInv
  BY <1>3 DEF BlockInv
<1>7. BigInv
  BY <1>3, <1>4 DEF BigInv, Apart, Clear, Audio, Manager, Kinds
<1>8. BothInv
  BY <1>3, <1>4 DEF BothInv, BothAudio, Manager, Kinds
<1> QED
  BY <1>1, <1>5, <1>6, <1>7, <1>8 DEF IInv

LEMMA IInvNext == IInv /\ [Next]_guardVars => IInv'
<1> SUFFICES ASSUME IInv, [Next]_guardVars
             PROVE  IInv'
  OBVIOUS
<1>1. Base'
  BY NextBase DEF IInv
<1>2. ASSUME NEW t \in Request, NEW c \in Call[t] \cup BusyCall[t], Begins(t, c)
      PROVE  RivalsInv' /\ BlockInv' /\ BigInv' /\ BothInv'
  BY <1>2, BeginsKeeps
<1>3. ASSUME NEW t \in Task, TaskStep(t)
      PROVE  RivalsInv' /\ BlockInv' /\ BigInv' /\ BothInv'
  <2>1. Acts(t)
    BY <1>3, TaskStepActs DEF IInv
  <2> QED
    BY <2>1, RivalsActs, BlockActs, BigActs, BothActs
<1>4. ASSUME Fewer
      PROVE  RivalsInv' /\ BlockInv' /\ BigInv' /\ BothInv'
  BY <1>4, FewerKeeps DEF IInv
<1>5. ASSUME NEW m \in Manager, Dies(m) \/ WatcherAsks(m) \/ WatcherStep(m)
      PROVE  Fewer
  <2>1. /\ Unasked
        /\ \/ slot' = slot
           \/ slot' = [slot EXCEPT ![m] = Empty]
           \/ /\ slot' = [slot EXCEPT ![m] = [slot[m] EXCEPT !.phase = "unloading"]]
              /\ slot[m] \in Server
    BY <1>5, UnaskedBase DEF IInv
  <2>2. ASSUME NEW n \in Manager, NEW S \in Kinds, slot'[n] \in S
        PROVE  slot[n] \in S
    <3>1. slot'[n] \in {slot[n], Empty} \/ (slot'[n].phase = "unloading" /\ slot[n] \in Server)
      BY <2>1 DEF IInv, Base, TypeOK, Server
    <3>2. slot'[n] # Empty
      BY <2>2, KindFacts
    <3>3. ASSUME slot'[n].phase = "unloading", slot[n] \in Server
          PROVE  slot[n] \in S
      BY <2>2, <3>3 DEF Kinds, Staying, StayingBig
    <3> QED
      BY <2>2, <3>1, <3>2, <3>3
  <2> QED
    BY <2>1, <2>2 DEF Fewer, Has, Unasked
<1>6. UNCHANGED guardVars => Fewer
  BY DEF guardVars, Fewer, Has
<1>7. RivalsInv' /\ BlockInv' /\ BigInv' /\ BothInv'
  BY <1>2, <1>3, <1>4, <1>5, <1>6 DEF Next
<1> QED
  BY <1>1, <1>7 DEF IInv

(* The whole invariant: what the theorems below are read off.              *)
THEOREM GuardInvariant == Spec => []IInv
  BY IInvInit, IInvNext, PTL DEF Spec

--------------------------------------------------------------------------------
(***************************************************************************)
(* Theorems.                                                               *)
(***************************************************************************)

(* Slots, locks, plans and configurations keep their shape, whatever the   *)
(* routes do and however requests overlap.                                 *)
THEOREM GuardTypeCorrect == Spec => []TypeOK
<1>1. IInv => TypeOK
  BY DEF IInv, Base
<1> QED
  BY <1>1, GuardInvariant, PTL

LEMMA RivalsExclude ==
  ASSUME IInv, serial, NEW a \in Manager \ {"embed"}, NEW b \in Manager \ {"embed"}, Rivals(a, b)
  PROVE  ~(Resident(a) /\ Resident(b))
<1>1. \A m \in Manager : Resident(m) => Has(m, Server)
  BY GoneFacts DEF IInv, Base, Has
<1>2. ~(Has(a, Server) /\ Has(b, Server))
  BY DEF IInv, RivalsInv, Apart
<1> QED
  BY <1>1, <1>2

(* For requests that come one at a time, of any number and any kind the    *)
(* rules cover: tenants whose rules exclude each other are never on the GPU*)
(* together, whatever loads fail, servers die and watchers unload idle     *)
(* servers on the way, and however long the stops of these take.           *)
THEOREM TenantsExcludedAlways == Spec => []TenantsExcluded
<1>1. ASSUME IInv PROVE TenantsExcluded
  <2>1. \A a, b \in Manager \ {"embed"} : serial /\ Rivals(a, b) => ~(Resident(a) /\ Resident(b))
    BY <1>1, RivalsExclude
  <2>2. {"chat", "image", "music"} \cup Audio \subseteq Manager \ {"embed"}
    BY DEF Manager, Audio
  <2>3. /\ Exclusive("image", "chat", {"unload_on_image", "unload_image_on_llm"})
        /\ Exclusive("music", "chat", {"unload_on_music", "unload_music_on_llm"})
    BY <2>1, <2>2 DEF Exclusive, Rivals
  <2>4. ASSUME NEW a \in Audio
        PROVE  /\ Exclusive("image", a, {"unload_on_image", "unload_image_on_audio"})
               /\ Exclusive("music", a, {"unload_on_music", "unload_music_on_audio"})
    BY <2>1, <2>2 DEF Exclusive, Rivals
  <2>5. Exclusive("image", "music", {"unload_on_image", "unload_on_music", "unload_image_on_music"})
    BY <2>1, <2>2 DEF Exclusive, Rivals
  <2> QED
    BY <2>3, <2>4, <2>5 DEF TenantsExcluded
<1> QED
  BY <1>1, GuardInvariant, PTL

(* For requests that come one at a time: with audio evicted and refused an *)
(* audio server is never on the GPU with a big chat model, and with audio  *)
(* guarded and refused never both of them, but for what the watchers of    *)
(* idle servers are unloading while the request comes in.                  *)
THEOREM BigExcludesAudioAlways == Spec => []BigExcludesAudio
<1>1. ASSUME IInv PROVE BigExcludesAudio
  <2>1. \A m \in {"chat"} \cup Audio : /\ Resident(m) => Has(m, Server)
                                       /\ Kept(m) => Has(m, Staying)
    BY <1>1, GoneFacts DEF IInv, Base, Has, Kept, Staying, Manager, Audio
  <2>2. KeptBig => Has("chat", StayingBig)
    BY <2>1 DEF KeptBig, Has, StayingBig
  <2>3. ASSUME serial, {"unload_audio_on_big_llm", "block_audio_on_big_llm"} \subseteq on,
               NEW a \in Audio, Resident(a), KeptBig
        PROVE  FALSE
    <3>1. Apart("chat", StayingBig, a, Server)
      BY <1>1, <2>3 DEF IInv, BigInv
    <3> QED
      BY <2>1, <2>2, <2>3, <3>1 DEF Apart
  <2>4. ASSUME serial, {"audio_vram_guard", "block_audio_on_big_llm"} \subseteq on,
               KeptBig, \A a \in Audio : Kept(a)
        PROVE  FALSE
    BY <1>1, <2>1, <2>2, <2>4 DEF IInv, BothInv, BothAudio, Audio
  <2> QED
    BY <2>3, <2>4 DEF BigExcludesAudio
<1> QED
  BY <1>1, GuardInvariant, PTL

================================================================================
