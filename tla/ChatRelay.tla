------------------------------- MODULE ChatRelay -------------------------------
(***************************************************************************)
(* What happens to a chat answer between the backend and the client:       *)
(* proxy_stream relays the bytes and counts tokens (app/proxy.py, 301-445),*)
(* and then the OpenAI route recovers refused tool calls                   *)
(* (app/tool_reconcile.py) or the Ollama routes turn the stream into       *)
(* NDJSON (app/ollama.py).  Bytes arrive in chunks that respect no         *)
(* boundary, so a data line is two atoms and a line end is a third: each   *)
(* of the three consumers puts the lines together for itself.              *)
(***************************************************************************)
EXTENDS Naturals, SequencesExt, FiniteSetsExt

CONSTANTS
  Answer,    \* the upstream's answers: sequences of events
  Name,      \* the names a model writes in its tool calls, spellings that
             \* _norm makes equal taken as one
  Toolbox,   \* the sets of tools that clients declare
  Fits,      \* Fits[n]: the tools equal to n, an end of n or ended by n, and
             \* similar to n, as [exact, affix, close]
  MaxChunk,  \* bound: the atoms that come in one chunk
  NoTool     \* what a delta without a name has for one

(* An event: a piece of "text" with the calls its tool_call blocks write;  *)
(* a tool_calls delta ("call") with an index and, in its first piece, a    *)
(* name; the "final" one, with the calls the backend refused; "usage"      *)
(* alone, without choices; "error"; and "done".  Calls carry the number of *)
(* their arguments, 0 for none; usage may be there with nothing in it.     *)
Written == [name : Name, args : Nat]
EventType ==
  [kind : {"text", "call", "final", "usage", "done", "error"}, blocks : Seq(Written), index : Nat,
   tool : (UNION Toolbox) \cup {NoTool}, refused : Seq(Written), usage : {"none", "empty", "full"}]

ASSUME RelayAssumption ==
  /\ MaxChunk \in Nat
  /\ Answer \subseteq Seq(EventType)
  /\ \A declared \in Toolbox : IsFiniteSet(declared)

(* Nothing follows [DONE], and nothing but [DONE] an error.                *)
ASSUME AnswersEnd ==
  \A a \in Answer : \A i \in DOMAIN a :
    /\ a[i].kind = "done" => i = Len(a)
    /\ a[i].kind = "error" => \A j \in (i + 1)..Len(a) : a[j].kind = "done"

VARIABLES
  answer,    \* what the upstream sends
  tools,     \* the tools the request declared
  via,       \* who consumes the stream: "plain" and "reconcile" are the OpenAI
             \* route without and with tool_reconcile, "chat" and "generate"
             \* the Ollama routes
  at,        \* the atoms that have come
  link,      \* "open", or how it ended: "ended", "broken", "gone" if the
             \* client left, "left" if the consumer did
  meter,     \* StreamTokenMeter
  tally,     \* what it recorded
  rec,       \* StreamReconciler
  added,     \* the calls of the delta it synthesized
  oll,       \* the locals of ollama.stream_response
  relayed,   \* the bytes sent to an OpenAI client
  lines      \* the lines sent to an Ollama client

relayVars == <<answer, tools, via, at, link, meter, tally, rec, added, oll, relayed, lines>>

NL == <<0, "nl">>
DataLine(i) == <<<<i, "front">>, <<i, "back">>>>
Wire == FlattenSeq([i \in DOMAIN answer |-> DataLine(i) \o <<NL, NL>>])

(* Events that do not come from upstream, and _error_bytes.                *)
Failure == Len(answer) + 1
Added   == Len(answer) + 2
ErrorBytes == <<<<Failure, "note">>, NL>> \o DataLine(Failure) \o <<NL, NL>>

Event(i) ==
  IF i \in DOMAIN answer THEN answer[i]
  ELSE [kind |-> "error", blocks |-> <<>>, index |-> 0, tool |-> NoTool, refused |-> <<>>, usage |-> "none"]

(* Those members of s that are in T, in order.                             *)
Only(s, T) == FlattenSeq([k \in DOMAIN s |-> IF s[k] \in T THEN <<s[k]>> ELSE <<>>])

(* The complete lines of a buffer, and its residue.                        *)
Cut(p, atom) ==
  IF atom = NL THEN [lines |-> Append(p.lines, p.rest), rest |-> <<>>]
  ELSE [p EXCEPT !.rest = Append(@, atom)]
Split(s) ==
  LET p[n \in 0..Len(s)] == IF n = 0 THEN [lines |-> <<>>, rest |-> <<>>] ELSE Cut(p[n - 1], s[n])
  IN  p[Len(s)]
LinesOf(s) == Split(s).lines
(* Mutant: the residue is forgotten.                                       *)
ResidueLost(s) == <<>>
Residue(s) == Split(s).rest

(* The events of those lines that are data and parse, in order.            *)
IsData(l) == Len(l) = 2 /\ l = DataLine(l[1][1])
Heard(ls) == FlattenSeq([k \in DOMAIN ls |-> IF IsData(ls[k]) THEN <<ls[k][1][1]>> ELSE <<>>])

Words  == Seq(Nat \X {"front", "back", "note", "nl"})
Deltas == Seq([index : Nat, tool : UNION Toolbox, name : Name, args : Nat])
Pieces == Seq([tool : (UNION Toolbox) \cup {NoTool}, pieces : Seq(Nat)])

RelayTypeOK ==
  /\ answer \in Seq(EventType) /\ tools \in Toolbox
  /\ via \in {"plain", "reconcile", "chat", "generate"}
  /\ at \in 0..Len(Wire) /\ link \in {"open", "ended", "broken", "gone", "left"}
  /\ meter \in [buf : Words, usage : Nat, out : Nat]
  /\ tally \in Seq([usage : Nat, out : Nat])
  /\ rec.residual \in Words /\ rec.heard \in Seq(Nat) /\ rec.tail \in Seq(Nat)
  /\ added \in Deltas
  /\ oll.buf \in Words /\ oll.heard \in Seq(Nat) /\ oll.over \in {"no", "done", "error"}
  /\ relayed \in Words
  /\ lines \in Seq([kind : {"part", "done", "error"}, of : Nat, calls : Pieces, finish : Nat, usage : Nat])

RelayInit ==
  /\ answer \in Answer /\ tools \in Toolbox
  /\ via \in {"plain", "reconcile", "chat", "generate"}
  /\ via = "reconcile" \/ tools = {}
  /\ at = 0 /\ link = "open"
  /\ meter = [buf |-> <<>>, usage |-> 0, out |-> 0] /\ tally = <<>>
  /\ rec = [residual |-> <<>>, heard |-> <<>>, tail |-> <<>>] /\ added = <<>>
  /\ oll = [buf |-> <<>>, heard |-> <<>>, over |-> "no"]
  /\ relayed = <<>> /\ lines = <<>>

--------------------------------------------------------------------------------
(* StreamTokenMeter: an event with usage has no part in the estimate.      *)

WithUsage == {i \in Nat : Event(i).usage = "full"}
Talk == {i \in Nat : Event(i).kind \in {"text", "call"} /\ Event(i).usage = "none"}

(* Mutant: only whole lines of the chunk itself are looked at.             *)
MeteredUnbuffered(m, chunk) ==
  LET heard == Heard(LinesOf(chunk)) IN
  [m EXCEPT !.usage = IF Only(heard, WithUsage) = <<>> THEN @ ELSE Last(Only(heard, WithUsage)),
            !.out = @ + Len(Only(heard, Talk))]

Metered(m, chunk) ==
  LET heard == Heard(LinesOf(m.buf \o chunk)) IN
  [buf   |-> Residue(m.buf \o chunk),
   usage |-> IF Only(heard, WithUsage) = <<>> THEN m.usage ELSE Last(Only(heard, WithUsage)),
   out   |-> m.out + Len(Only(heard, Talk))]

Recorded(m) == [usage |-> m.usage, out |-> IF m.usage = 0 THEN m.out ELSE 0]

--------------------------------------------------------------------------------
(* tool_reconcile: what the model meant.                                   *)

Single(S) == IF Cardinality(S) = 1 THEN S ELSE {}

(* match_name, as the set of its result.                                   *)
Meant(name) ==
  LET exact == Fits[name].exact \cap tools
      fits  == Fits[name].affix \cap tools
  IN  IF Single(exact) # {} THEN exact
      ELSE IF fits # {} THEN Single(fits)
      ELSE Single(Fits[name].close \cap tools)

(* rejected_calls: one of each that are alike.                             *)
Rejected(i) ==
  LET all == Event(i).refused IN
  FlattenSeq([k \in DOMAIN all |-> IF \E j \in 1..(k - 1) : all[j] = all[k] THEN <<>> ELSE <<all[k]>>])
RejectedIn(held) == FlattenSeq([k \in DOMAIN held |-> Rejected(held[k])])
TextCalls(heard) == FlattenSeq([k \in DOMAIN heard |-> Event(heard[k]).blocks])

(* _merge_arguments: a refused call without arguments takes those of the   *)
(* first text block of its name that is left.                              *)
(* Mutant: a block is not used up.                                         *)
MergedReusing(acc, call) ==
  LET same == {i \in DOMAIN acc.left : acc.left[i].name = call.name} IN
  IF call.args # 0 \/ same = {} THEN [acc EXCEPT !.calls = Append(@, call)]
  ELSE [acc EXCEPT !.calls = Append(@, acc.left[Min(same)])]

Merged(acc, call) ==
  LET same == {i \in DOMAIN acc.left : acc.left[i].name = call.name} IN
  IF call.args # 0 \/ same = {} THEN [acc EXCEPT !.calls = Append(@, call)]
  ELSE [left |-> RemoveAt(acc.left, Min(same)), calls |-> Append(acc.calls, acc.left[Min(same)])]

Calls(heard, held) ==
  LET refused == RejectedIn(held)
      done[k \in 0..Len(refused)] ==
        IF k = 0 THEN [left |-> TextCalls(heard), calls |-> <<>>] ELSE Merged(done[k - 1], refused[k])
  IN  IF refused = <<>> THEN TextCalls(heard) ELSE done[Len(refused)].calls

IsMeant(call) == Meant(call.name) # {}
ToolOf(call)  == CHOOSE t \in Meant(call.name) : TRUE
ForSomeTool   == {call \in Written : IsMeant(call)}

(* The deltas continue after the indices the backend streamed itself.      *)
NextIndex(heard) ==
  Max({0} \cup {Event(heard[k]).index + 1 : k \in {j \in DOMAIN heard : Event(heard[j]).kind = "call"}})

DeltaCalls(heard, held) ==
  LET calls == Only(Calls(heard, held), ForSomeTool) IN
  [k \in DOMAIN calls |-> [index |-> NextIndex(heard) + k - 1, tool |-> ToolOf(calls[k]),
                           name |-> calls[k].name, args |-> calls[k].args]]

(* StreamReconciler                                                        *)
EndsStream(i) == Event(i).kind \in {"final", "done"} \/ Event(i).refused # <<>>
HeldBack == {i \in Nat : EndsStream(i)}
IsHeld(l) == IsData(l) /\ l[1][1] \in HeldBack

Fed(r, chunk) ==
  LET ls == LinesOf(r.residual \o chunk) IN
  [residual |-> Residue(r.residual \o chunk), heard |-> r.heard \o Heard(ls),
   tail |-> r.tail \o Only(Heard(ls), HeldBack)]

PassedOn(r, chunk) ==
  LET ls == LinesOf(r.residual \o chunk) IN
  FlattenSeq([k \in DOMAIN ls |-> IF IsHeld(ls[k]) THEN <<>> ELSE Append(ls[k], NL)])

(* finish: the residue is a line, too; then the delta and what was held.   *)
Synthesized(heard, held) ==
  (IF DeltaCalls(heard, held) = <<>> THEN <<>> ELSE DataLine(Added) \o <<NL, NL>>)
  \o FlattenSeq([k \in DOMAIN held |-> Append(DataLine(held[k]), NL)])

Flushes(r, bytes) ==
  LET end  == IF Residue(r.residual \o bytes) = <<>> THEN bytes ELSE Append(bytes, NL)
      last == Fed(r, end)
  IN  /\ relayed' = relayed \o PassedOn(r, end) \o Synthesized(last.heard, last.tail)
      /\ added' = DeltaCalls(last.heard, last.tail)
      /\ rec' = [last EXCEPT !.tail = <<>>]

(* apply_reconcile: the calls added to the same answer in one piece.       *)
JsonCalls ==
  LET heard == [i \in DOMAIN answer |-> i]
      executed == {answer[i].tool : i \in DOMAIN answer}
      Adds(sofar, call) == IF IsMeant(call) /\ ToolOf(call) \notin executed
                                /\ \A k \in DOMAIN sofar : sofar[k].tool # ToolOf(call)
                           THEN Append(sofar, [tool |-> ToolOf(call), args |-> call.args]) ELSE sofar
      calls == Calls(heard, heard)
      out[k \in 0..Len(calls)] == IF k = 0 THEN <<>> ELSE Adds(out[k - 1], calls[k])
  IN  IF tools = {} THEN <<>> ELSE out[Len(calls)]

--------------------------------------------------------------------------------
(* ollama.stream_response                                                  *)

NdLine(kind, i, calls, finish, usage) ==
  [kind |-> kind, of |-> i, calls |-> calls, finish |-> finish, usage |-> usage]

LastOf(events) == IF events = <<>> THEN 0 ELSE Last(events)

(* _merge_tool_call and _accumulated_tool_calls: by index, the last name   *)
(* and the pieces of the arguments.                                        *)
Accumulated(heard) ==
  LET of(n)    == Only(heard, {i \in Nat : Event(i).kind = "call" /\ Event(i).index = n})
      named(n) == Only(of(n), {i \in Nat : Event(i).tool # NoTool})
      sorted   == Only([k \in 1..NextIndex(heard) |-> k - 1], {n \in Nat : named(n) # <<>>})
  IN  [k \in DOMAIN sorted |-> [tool |-> Event(Last(named(sorted[k]))).tool, pieces |-> of(sorted[k])]]

DoneLine(heard) ==
  NdLine("done", 0, IF via = "generate" THEN <<>> ELSE Accumulated(heard),
         LastOf(Only(heard, {i \in Nat : Event(i).kind = "final"})),
         LastOf(Only(heard, {i \in Nat : Event(i).usage # "none"})))

(* One data line; o has the lines to send with it.                         *)
(* Mutant: after an error the stream goes on.                              *)
HearsOnAfterError(o, i) ==
  CASE Event(i).kind = "error" -> [o EXCEPT !.lines = Append(@, NdLine("error", i, <<>>, 0, 0))]
    [] Event(i).kind = "done"  -> [o EXCEPT !.over = "done", !.lines = Append(@, DoneLine(o.heard))]
    [] OTHER -> [o EXCEPT !.heard = Append(@, i), !.lines = IF Event(i).kind = "text"
                   THEN Append(@, NdLine("part", i, <<>>, 0, 0)) ELSE @]

Hears(o, i) ==
  IF o.over = "error" THEN o
  ELSE CASE Event(i).kind = "error" ->
              [o EXCEPT !.over = "error", !.lines = Append(@, NdLine("error", i, <<>>, 0, 0))]
         [] Event(i).kind = "done" ->
              IF o.over = "done" THEN o
              ELSE [o EXCEPT !.over = "done", !.lines = Append(@, DoneLine(o.heard))]
         [] OTHER ->
              [o EXCEPT !.heard = Append(@, i), !.lines = IF Event(i).kind = "text"
                 THEN Append(@, NdLine("part", i, <<>>, 0, 0)) ELSE @]

(* An event is taken once the blank line behind it has come.               *)
Converted(chunk) ==
  LET s     == oll.buf \o chunk
      ends  == {i \in 1..(Len(s) - 1) : s[i] = NL /\ s[i + 1] = NL}
      cut   == IF ends = {} THEN 0 ELSE Max(ends) + 1
      state == [buf |-> SubSeq(s, cut + 1, Len(s)), heard |-> oll.heard, over |-> oll.over, lines |-> lines]
      heard == Heard(LinesOf(SubSeq(s, 1, cut)))
      after[k \in 0..Len(heard)] == IF k = 0 THEN state ELSE Hears(after[k - 1], heard[k])
  IN  after[Len(heard)]

Locals(o) == [buf |-> o.buf, heard |-> o.heard, over |-> o.over]

--------------------------------------------------------------------------------
(* proxy_stream, with whoever consumes it: the code between two awaits.    *)

Ollama == via \in {"chat", "generate"}

Relays ==
  /\ link = "open"
  /\ \E n \in 1..MaxChunk :
       LET chunk == SubSeq(Wire, at + 1, at + n) IN
       /\ at + n <= Len(Wire) /\ at' = at + n
       /\ meter' = Metered(meter, chunk)
       /\ \/ /\ via = "plain"
             /\ relayed' = relayed \o chunk
             /\ UNCHANGED <<link, rec, oll, lines>>
          \/ /\ via = "reconcile"
             /\ rec' = Fed(rec, chunk) /\ relayed' = relayed \o PassedOn(rec, chunk)
             /\ UNCHANGED <<link, oll, lines>>
          \/ /\ Ollama
             /\ LET o == Converted(chunk) IN
                /\ oll' = Locals(o) /\ lines' = o.lines
                /\ link' = IF o.over = "error" \/ (o.over = "done" /\ o.buf = <<>>) THEN "left" ELSE link
             /\ UNCHANGED <<rec, relayed>>
  /\ UNCHANGED <<answer, tools, via, tally, added>>

(* The last bytes, if any, and the end of the stream reach the consumer.   *)
Closes(bytes) ==
  \/ /\ via = "plain"
     /\ relayed' = relayed \o bytes
     /\ UNCHANGED <<rec, added, oll, lines>>
  \/ /\ via = "reconcile"
     /\ Flushes(rec, bytes)
     /\ UNCHANGED <<oll, lines>>
  \/ /\ Ollama
     /\ LET o == Converted(bytes) IN
        /\ oll' = Locals(o)
        /\ lines' = IF o.over = "no" THEN Append(o.lines, DoneLine(o.heard)) ELSE o.lines
     /\ UNCHANGED <<rec, added, relayed>>

UpstreamEnds ==
  /\ link = "open" /\ at = Len(Wire)
  /\ link' = "ended"
  /\ tally' = Append(tally, Recorded(meter))
  /\ Closes(<<>>)
  /\ UNCHANGED <<answer, tools, via, at, meter>>

(* httpx raises: the client gets an error event instead of the rest.       *)
BreaksOff ==
  /\ link = "open"
  /\ link' = "broken"
  /\ Closes(ErrorBytes)
  /\ UNCHANGED <<answer, tools, via, at, meter, tally>>

ClientLeaves ==
  /\ link = "open"
  /\ link' = "gone"
  /\ UNCHANGED <<answer, tools, via, at, meter, tally, rec, added, oll, relayed, lines>>

RelayNext == Relays \/ UpstreamEnds \/ BreaksOff \/ ClientLeaves

RelaySpec == RelayInit /\ [][RelayNext]_relayVars

--------------------------------------------------------------------------------
(***************************************************************************)
(* Properties.  All of them quantify over every way to cut the answer.     *)
(***************************************************************************)

Places(s) == [i \in DOMAIN s |-> i]
All  == Places(answer)
Came == Heard(LinesOf(SubSeq(Wire, 1, at)))

(* "Only the events that end the stream are held back": everything else is *)
(* passed on as soon as its line is complete; in the end the client has    *)
(* every event once, the synthesized one just before those that were held. *)
StreamIsRelayed ==
  via = "reconcile" =>
    /\ link \in {"open", "gone"} => Heard(LinesOf(relayed)) = Only(Came, Nat \ HeldBack)
    /\ link = "ended" =>
         Heard(LinesOf(relayed)) = Only(All, Nat \ HeldBack)
                                \o (IF added = <<>> THEN <<>> ELSE <<Added>>)
                                \o Only(All, HeldBack)

(* "Nothing is invented": a call is added for each name the model wrote in *)
(* vain that means one tool, and its index is new.  The arguments are its  *)
(* own; the bare ones among the refused take those of the blocks of their  *)
(* name, "in order", and none if there are not so many.  Without streaming *)
(* the same calls are added, but one for each tool and none for a tool the *)
(* backend called itself.                                                  *)
Named(name) == {call \in Written : call.name = name}
Bare(name)  == {call \in Named(name) : call.args = 0}

OwnArgs(calls, k, blocks) ==
  LET name  == calls[k].name
      found == Only(blocks, Named(name))
      place == Len(Only(SubSeq(calls, 1, k), Bare(name)))
  IN  IF calls[k].args # 0 THEN calls[k].args
      ELSE IF place \in DOMAIN found THEN found[place].args ELSE 0

CallsAreRecovered ==
  via = "reconcile" /\ link = "ended" =>
    LET blocks  == TextCalls(All)
        refused == RejectedIn(All)
        meant   == Only(IF refused = <<>> THEN blocks ELSE refused, ForSomeTool)
        first   == {k \in DOMAIN added : /\ \A i \in DOMAIN answer : answer[i].tool # added[k].tool
                                         /\ \A j \in 1..(k - 1) : added[j].tool # added[k].tool}
        once    == Only(Places(added), first)
    IN  /\ DOMAIN added = DOMAIN meant
        /\ \A k \in DOMAIN added :
             /\ added[k].name = meant[k].name /\ {added[k].tool} = Meant(meant[k].name)
             /\ added[k].args = IF refused = <<>> THEN meant[k].args ELSE OwnArgs(meant, k, blocks)
             /\ \A i \in DOMAIN answer : answer[i].kind = "call" => answer[i].index # added[k].index
             /\ \A j \in 1..(k - 1) : added[j].index < added[k].index
        /\ JsonCalls = [k \in DOMAIN once |-> [tool |-> added[once[k]].tool, args |-> added[once[k]].args]]

(* A stream that was relayed to its end is counted once, by the usage the  *)
(* backend sent last or else by all of its text; any other is not counted. *)
UsageIsCountedOnce ==
  ~Ollama =>
    LET full == Only(All, WithUsage)
        talk == {i \in DOMAIN answer : answer[i].kind \in {"text", "call"} /\ answer[i].usage = "none"}
    IN  tally = IF link # "ended" THEN <<>>
                  ELSE IF full # <<>> THEN <<[usage |-> Last(full), out |-> 0]>>
                  ELSE <<[usage |-> 0, out |-> Cardinality(talk)]>>

(* An Ollama client gets the pieces in order and then exactly one line     *)
(* that ends the answer: "done" with every call if all of it was there, an *)
(* error if the upstream sent one or broke off.  (Both are sent if the     *)
(* stream breaks off between the two line ends of the very last event.)    *)
OllamaEndsOnce ==
  Ollama =>
    LET parts == Only(lines, {l \in ToSet(lines) : l.kind = "part"})
        texts == Only(IF link \in {"ended", "left"} THEN All ELSE Came,
                      {i \in DOMAIN answer : answer[i].kind = "text"})
        fails == link = "broken" \/ \E i \in DOMAIN answer : answer[i].kind = "error"
    IN  /\ \/ link = "broken" /\ at = Len(Wire) - 1
           \/ \A k \in DOMAIN lines : lines[k].kind # "part" => k = Len(lines)
        /\ IsPrefix([k \in DOMAIN parts |-> parts[k].of], texts)
        /\ link \in {"ended", "left"} => Len(parts) = Len(texts)
        /\ link \in {"ended", "left", "broken"} =>
             /\ lines # <<>>
             /\ IF fails THEN Last(lines).kind = "error"
                ELSE Last(lines) = DoneLine(Only(All, {i \in DOMAIN answer : answer[i].kind # "done"}))

--------------------------------------------------------------------------------
(***************************************************************************)
(* What the repository says and the code does not do.                      *)
(***************************************************************************)

(* README: "Every proxied chat/completion response counts its input and    *)
(* output tokens", so a stream that came to its end is in the tally, one   *)
(* that ends with an error left out.                                       *)
EveryAnswerIsCounted ==
  link \in {"ended", "left"} /\ (\A i \in DOMAIN answer : answer[i].kind # "error") => tally # <<>>

(* tool_reconcile: "Passes an SSE stream through untouched".  A stream to  *)
(* which nothing was added is, to a client, the events upstream sent: data *)
(* lines that a blank line keeps apart.                                    *)
Frames(s) ==
  LET ends == Only(Places(s), {i \in 1..(Len(s) - 1) : s[i] = NL /\ s[i + 1] = NL})
      cuts == [k \in DOMAIN ends |-> SubSeq(s, IF k = 1 THEN 1 ELSE ends[k - 1] + 2, ends[k])]
      read == [k \in DOMAIN cuts |-> Heard(LinesOf(cuts[k]))]
  IN  Only(read, ToSet(read) \ {<<>>})

StreamIsUntouched ==
  link = "ended" /\ ~Ollama /\ added = <<>> => Frames(relayed) = Frames(Wire)
================================================================================
