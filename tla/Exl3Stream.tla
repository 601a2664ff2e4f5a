------------------------------ MODULE Exl3Stream -------------------------------
(***************************************************************************)
(* backend/exl3_server.py, _generate: the generated text is split into     *)
(* reasoning, content and tool calls, either as it arrives (sse) or when   *)
(* all of it is there.  Text is a sequence of symbols; a tag is two of     *)
(* them, so that it can arrive in two pieces, and tags that begin alike    *)
(* share their first symbol.                                               *)
(***************************************************************************)
EXTENDS Naturals, SequencesExt, FiniteSetsExt

CONSTANTS
  Text,      \* the texts the model generates, whole or cut off
  MaxPiece   \* bound: the most symbols the generator yields at once

VARIABLES
  thinking,  \* _thinking_enabled
  text,      \* what the model generates
  fed,       \* the symbols sse has taken from run_job
  st,        \* the locals of sse
  job        \* the generator's job

exlVars == <<thinking, text, fed, st, job>>

ThinkOpen  == <<"<t", "hink>">>
ThinkClose == <<"</", "think>">>
ToolOpen   == <<"<t", "ool>">>
ToolClose  == <<"</", "tool>">>

(* Besides the tags: a word, a line end, and the payload of a call.        *)
Symbol == {"word", "nl", "call", "<t", "</", "hink>", "think>", "ool>", "tool>"}
Piece  == Seq(Symbol)

ASSUME ExlAssumption == Text \subseteq Piece /\ MaxPiece \in Nat

(* str.find: the places where a tag occurs; the first one is found.        *)
At(s, tag) == {i \in 1..(Len(s) - 1) : SubSeq(s, i, i + 1) = tag}
Has(s, tag) == At(s, tag) # {}
First(s, tag) == Min(At(s, tag))
Before(s, tag) == SubSeq(s, 1, First(s, tag) - 1)
After(s, tag)  == SubSeq(s, First(s, tag) + 2, Len(s))

Inked(s)  == {i \in DOMAIN s : s[i] # "nl"}
LStrip(s) == IF Inked(s) = {} THEN <<>> ELSE SubSeq(s, Min(Inked(s)), Len(s))
RStrip(s) == IF Inked(s) = {} THEN <<>> ELSE SubSeq(s, 1, Max(Inked(s)))
Strip(s)  == RStrip(LStrip(s))

(* A literal opening tag at the beginning of the thinking block.           *)
SkipOpen(s, beginning) ==
  IF beginning /\ IsPrefix(ThinkOpen, LStrip(s)) THEN SubSeq(LStrip(s), 3, Len(LStrip(s))) ELSE s

(* _parse_tool_call_payload finds a call in a block.                       *)
Parses(block) == Contains(block, "call")

(* What the client has: the texts of its deltas joined, the blocks of its  *)
(* tool calls, and the finish_reason, or "error".                          *)
Nothing == [reasoning |-> <<>>, content |-> <<>>, calls |-> <<>>, finish |-> "none"]

Fresh == [phase |-> IF thinking THEN "think" ELSE "content", mode |-> "content",
          carry |-> <<>>, buf |-> <<>>, thinkSeen |-> FALSE, stripLead |-> thinking,
          out |-> Nothing]

Output == [reasoning : Piece, content : Piece, calls : Seq(Piece),
           finish : {"none", "stop", "length", "tool_calls", "error"}]
SseLocals == [phase : {"think", "content"}, mode : {"content", "tools"}, carry : Piece, buf : Piece,
                 thinkSeen : BOOLEAN, stripLead : BOOLEAN, out : Output]

ExlTypeOK ==
  /\ thinking \in BOOLEAN
  /\ text \in Piece /\ fed \in 0..Len(text)
  /\ st \in SseLocals
  /\ job \in {"running", "finished", "cancelled"}

ExlInit ==
  /\ thinking \in BOOLEAN /\ text \in Text
  /\ fed = 0 /\ st = Fresh /\ job = "running"

--------------------------------------------------------------------------------
(* sse: what is held back is the longest end of the text that may be the   *)
(* beginning of the tag.                                                   *)
Held(s, tag) == IF s # <<>> /\ Last(s) = Head(tag) THEN 1 ELSE 0
HeldPart(s, tag) == SubSeq(s, Len(s) - Held(s, tag) + 1, Len(s))
SentPart(s, tag) == SubSeq(s, 1, Len(s) - Held(s, tag))

Reason(s, t) == [s EXCEPT !.out.reasoning = @ \o t]
Say(s, t)    == [s EXCEPT !.out.content = @ \o t]

(* feed_tools, one round of its loop: what precedes an opening tag is      *)
(* skipped, what precedes a closing one is a call if it parses.            *)
Round(b) ==
  IF Has(b.buf, ToolOpen) /\ (Has(b.buf, ToolClose) => First(b.buf, ToolOpen) < First(b.buf, ToolClose))
  THEN [b EXCEPT !.buf = After(@, ToolOpen)]
  ELSE IF ~Has(b.buf, ToolClose) THEN b
  ELSE LET payload == Strip(Before(b.buf, ToolClose))
       IN  [buf |-> After(b.buf, ToolClose),
            calls |-> IF Parses(payload) THEN Append(b.calls, payload) ELSE b.calls]

(* Every round that finds a tag shortens the buffer, so there are not more.*)
Rounds(b) == LET f[n \in 0..Len(b.buf)] == IF n = 0 THEN b ELSE Round(f[n - 1]) IN f

FeedTools(s, t) ==
  LET buf == s.buf \o t
      b   == Rounds([buf |-> buf, calls |-> s.out.calls])[Len(buf)]
  IN  [s EXCEPT !.buf = b.buf, !.out.calls = b.calls]

(* Mutant: nothing is held back.                                           *)
FeedContentEagerly(s, t) ==
  LET data == IF s.stripLead THEN LStrip(s.carry \o t) ELSE s.carry \o t
      s1   == [s EXCEPT !.stripLead = @ /\ data = <<>>, !.carry = <<>>]
  IN  IF s.mode = "tools" THEN FeedTools(s, t)
      ELSE IF ~Has(data, ToolOpen) THEN Say(s1, data)
      ELSE FeedTools([Say(s1, Before(data, ToolOpen)) EXCEPT
                        !.mode = "tools", !.buf = SubSeq(data, First(data, ToolOpen), Len(data))], <<>>)

FeedContent(s, t) ==
  LET data == IF s.stripLead THEN LStrip(s.carry \o t) ELSE s.carry \o t
      s1   == [s EXCEPT !.stripLead = FALSE]
  IN  IF s.mode = "tools" THEN FeedTools(s, t)
      ELSE IF s.stripLead /\ data = <<>> THEN s
      ELSE IF ~Has(data, ToolOpen)
           THEN [Say(s1, SentPart(data, ToolOpen)) EXCEPT !.carry = HeldPart(data, ToolOpen)]
      ELSE FeedTools([Say(s1, Before(data, ToolOpen)) EXCEPT
                        !.mode = "tools", !.buf = SubSeq(data, First(data, ToolOpen), Len(data))], <<>>)

FeedThink(s, t) ==
  LET data == SkipOpen(s.carry \o t, ~s.thinkSeen)
  IN  IF Has(data, ThinkClose)
      THEN FeedContent([Reason(s, Before(data, ThinkClose)) EXCEPT !.carry = <<>>, !.phase = "content"],
                       LStrip(After(data, ThinkClose)))
      ELSE [Reason(s, SentPart(data, ThinkClose)) EXCEPT
              !.carry = HeldPart(data, ThinkClose),
              !.thinkSeen = @ \/ SentPart(data, ThinkClose) # <<>>]

Feed(s, t) == IF s.phase = "think" THEN FeedThink(s, t) ELSE FeedContent(s, t)

FinishReason(length, calls) ==
  IF length THEN "length" ELSE IF calls # <<>> THEN "tool_calls" ELSE "stop"

(* The end of the text: what was held back is surfaced after all.          *)
(* Mutant: the calls do not show in the finish_reason.                     *)
FlushedForgettingCalls(s, length) ==
  LET tail == IF s.phase = "think" THEN Reason(s, s.carry)
              ELSE IF s.mode = "content" THEN Say(s, s.carry)
              ELSE IF s.out.calls = <<>> THEN Say(s, Strip(s.buf))
              ELSE s
  IN  [tail EXCEPT !.out.finish = FinishReason(length, <<>>)]

Flushed(s, length) ==
  LET tail == IF s.phase = "think" THEN Reason(s, s.carry)
              ELSE IF s.mode = "content" THEN Say(s, s.carry)
              ELSE IF s.out.calls = <<>> THEN Say(s, Strip(s.buf))
              ELSE s
  IN  [tail EXCEPT !.out.finish = FinishReason(length, s.out.calls)]

--------------------------------------------------------------------------------
(* run_job yields a piece of text.                                         *)
Generates ==
  /\ job = "running"
  /\ \E n \in 1..MaxPiece :
       /\ fed + n <= Len(text)
       /\ fed' = fed + n
       /\ st' = Feed(st, SubSeq(text, fed + 1, fed + n))
  /\ UNCHANGED <<thinking, text, job>>

(* The job is over: the model stopped, or max_new_tokens stopped it.       *)
Finishes ==
  /\ job = "running" /\ fed = Len(text)
  /\ job' = "finished"
  /\ \E length \in BOOLEAN : st' = Flushed(st, length)
  /\ UNCHANGED <<thinking, text, fed>>

(* The generator raises: the job is cancelled, the client gets an error    *)
(* event and the terminator.                                               *)
Raises ==
  /\ job = "running"
  /\ job' = "cancelled"
  /\ st' = [st EXCEPT !.out.finish = "error"]
  /\ UNCHANGED <<thinking, text, fed>>

ExlNext == Generates \/ Finishes \/ Raises

ExlSpec == ExlInit /\ [][ExlNext]_exlVars

--------------------------------------------------------------------------------
(* The answer without streaming: the whole text is split at once.          *)

Opened(s) == SkipOpen(s, TRUE)
WholeContent(s) ==
  IF ~thinking THEN s
  ELSE IF Has(Opened(s), ThinkClose) THEN LStrip(After(Opened(s), ThinkClose))
  ELSE <<>>
WholeReasoning(s) ==
  IF ~thinking THEN <<>>
  ELSE IF Has(Opened(s), ThinkClose) THEN Strip(Before(Opened(s), ThinkClose))
  ELSE Opened(s)

(* TOOL_CALL_RE: a block runs from an opening tag to the next closing one.*)
CallBlock(s) == Before(After(s, ToolOpen), ToolClose)
HasCall(s)   == Has(s, ToolOpen) /\ Has(After(s, ToolOpen), ToolClose)
PastCall(s)  == After(After(s, ToolOpen), ToolClose)

(* findall and sub, block by block: w has what follows the last one, what  *)
(* was outside of them, and the calls.                                     *)
NextBlock(w) ==
  IF ~HasCall(w.rest) THEN w
  ELSE [rest |-> PastCall(w.rest), outside |-> w.outside \o Before(w.rest, ToolOpen),
        calls |-> IF Parses(Strip(CallBlock(w.rest))) THEN Append(w.calls, Strip(CallBlock(w.rest))) ELSE w.calls]

Blocks(s) ==
  LET f[n \in 0..Len(s)] == IF n = 0 THEN [rest |-> s, outside |-> <<>>, calls |-> <<>>] ELSE NextBlock(f[n - 1])
  IN  f

Whole(s, length) ==
  LET content == WholeContent(s)
      w       == Blocks(content)[Len(content)]
  IN  [reasoning |-> WholeReasoning(s), calls |-> w.calls, finish |-> FinishReason(length, w.calls),
       content |-> IF w.calls = <<>> THEN content ELSE Strip(w.outside \o w.rest)]

--------------------------------------------------------------------------------
(* A tag may be split over any number of pieces: what the client has in    *)
(* the end does not depend on how the text was cut.  (A thinking block that*)
(* begins with its own opening tag is left out: that tag is recognised only*)
(* if it comes in one piece.)                                              *)
ChunkingIsInvisible ==
  job = "finished" /\ ~(thinking /\ IsPrefix(ThinkOpen, LStrip(text)))
    => st.out = Flushed(Feed(Fresh, text), st.out.finish = "length").out

(* Text whose tool calls are well formed: once the first one has begun,    *)
(* there are only calls, each of them closed, opened once and understood.  *)
WellFormed(content) ==
  Has(content, ToolOpen) =>
    LET w == Blocks(content) IN
    /\ \A n \in 0..Len(content) : HasCall(w[n].rest) =>
         /\ ~Has(CallBlock(w[n].rest), ToolOpen)
         /\ Parses(Strip(CallBlock(w[n].rest)))
         /\ n > 0 => Strip(Before(w[n].rest, ToolOpen)) = <<>>
    /\ Strip(w[Len(content)].rest) = <<>>

(* With stream: true and without it a client gets the same reasoning, the  *)
(* same content and the same calls, up to the line ends around them.       *)
StreamAgreesWithWhole ==
  LET whole == Whole(text, st.out.finish = "length") IN
  /\ job = "finished" /\ ~(thinking /\ Has(text, ThinkOpen)) /\ WellFormed(WholeContent(text))
  => /\ Strip(st.out.reasoning) = Strip(whole.reasoning)
     /\ Strip(st.out.content) = Strip(whole.content)
     /\ st.out.calls = whole.calls
     /\ st.out.finish = whole.finish
================================================================================
