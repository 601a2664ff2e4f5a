------------------------------ MODULE ContextTrim ------------------------------
(***************************************************************************)
(* app/proxy.py, 51-252 and 402-440: a chat request whose conversation is  *)
(* too long for the model is sent again with its oldest turns dropped.     *)
(* The backend counts the tokens of a prompt; the proxy only estimates     *)
(* them, so a message has two sizes.                                       *)
(***************************************************************************)
EXTENDS Integers, Sequences, FiniteSetsExt

CONSTANTS
  Conversation,  \* the conversations clients send
  Context,       \* the backend's context window, in tokens
  Asked,         \* the values of max_tokens, 0 if the request has none
  MarginFloor, DefaultMargin,  \* 256 and settings.context_trim_margin
  MarkerSize,    \* [est, real]: the size of the line that notes the drop
  Attempts       \* _TRIM_ATTEMPTS

VARIABLES
  asked,     \* the request's max_tokens
  original,  \* its messages
  body,      \* the messages of the next attempt
  attempt,   \* upstream calls made
  outcome      \* what the client gets, "none" while there is nothing

trimVars == <<asked, original, body, attempt, outcome>>

(* A message: its role (an assistant turn is a "call" if it has tool_calls,*)
(* and "plain" stands for the other turns), and its sizes.                 *)
Role == {"system", "plain", "call", "tool"}
Message == [role : Role, est : Nat, real : Nat]

ASSUME TrimAssumption ==
  /\ Context \in Nat /\ MarginFloor \in Nat /\ DefaultMargin \in Nat
  /\ Attempts \in Nat \ {0} /\ Asked \subseteq Nat
  /\ Conversation \subseteq Seq(Message) /\ MarkerSize \in [est : Nat, real : Nat]

Marker == [role |-> "system", est |-> MarkerSize.est, real |-> MarkerSize.real]

(* The sizes of the first n messages together.                             *)
Sums(messages, size) ==
  LET sum[n \in 0..Len(messages)] == IF n = 0 THEN 0 ELSE sum[n - 1] + messages[n][size]
  IN  sum
Total(messages, size) == Sums(messages, size)[Len(messages)]
PromptTokens(messages) == Total(messages, "real")

TrimTypeOK ==
  /\ asked \in Asked
  /\ original \in Seq(Message)
  /\ body \in Seq(Message)
  /\ attempt \in 0..Attempts
  /\ outcome \in {"none", "answer", "overflow", "error"}

TrimInit ==
  /\ asked \in Asked
  /\ original \in Conversation /\ body = original
  /\ attempt = 0 /\ outcome = "none"

--------------------------------------------------------------------------------
(* trim_messages                                                           *)

(* The leading system block, unless it is the whole conversation.          *)
KeepHead(messages) ==
  Max({0} \cup {h \in 0..(Len(messages) - 1) : \A i \in 1..h : messages[i].role = "system"})

(* _turn_groups: an assistant turn with tool calls and the results that    *)
(* follow it are one group.                                                *)
StartsGroup(messages, i) ==
  messages[i].role = "tool" =>
    ~\E j \in 1..(i - 1) : /\ messages[j].role = "call"
                           /\ \A k \in (j + 1)..i : messages[k].role = "tool"

(* Mutant: any message may be the first one that is kept.                  *)
CutsAnywhere(messages) == {k \in (KeepHead(messages) + 1)..(Len(messages) - 1) : TRUE}

(* Where the dropped part may end: behind a group, before the last message.*)
Cuts(messages) ==
  {k \in (KeepHead(messages) + 1)..(Len(messages) - 1) : StartsGroup(messages, k + 1)}

Margin == Max({MarginFloor, IF asked > 0 THEN asked ELSE DefaultMargin})
ExcessOf(count) == {n \in {count + Margin - Context} : count + Margin > Context}

(* Mutant: the backend's count alone says how much has to go.              *)
NeededByCount(messages) == ExcessOf(PromptTokens(messages))

(* How much has to go, by the backend's count or by the estimate, whichever*)
(* is more; empty if neither is too much.                                  *)
Needed(messages) == ExcessOf(Max({PromptTokens(messages), Total(messages, "est")}))

Dropped(messages, k) == Sums(messages, "est")[k] - Sums(messages, "est")[KeepHead(messages)]

(* The oldest groups go until enough is gone, or all of them.              *)
CutAt(messages, needed) ==
  LET enough == {k \in Cuts(messages) : Dropped(messages, k) >= needed}
  IN  IF enough # {} THEN Min(enough) ELSE Max(Cuts(messages))

Trimmed(messages, k) ==
  SubSeq(messages, 1, KeepHead(messages)) \o <<Marker>> \o SubSeq(messages, k + 1, Len(messages))

--------------------------------------------------------------------------------
(* proxy_stream and proxy_json: one upstream call.                         *)

Overflows == PromptTokens(body) + asked > Context

CanTrim == Cuts(body) # {} /\ Needed(body) # {}

Answered ==
  /\ outcome = "none" /\ attempt < Attempts /\ ~Overflows
  /\ outcome' = "answer" /\ attempt' = attempt + 1
  /\ UNCHANGED <<asked, original, body>>

Retries ==
  /\ outcome = "none" /\ attempt < Attempts - 1 /\ Overflows /\ CanTrim
  /\ \E n \in Needed(body) : body' = Trimmed(body, CutAt(body, n))
  /\ attempt' = attempt + 1
  /\ UNCHANGED <<asked, original, outcome>>

(* The last attempt, or nothing to drop: the client sees the refusal.      *)
GivesUp ==
  /\ outcome = "none" /\ attempt < Attempts /\ Overflows
  /\ attempt = Attempts - 1 \/ ~CanTrim
  /\ outcome' = "overflow" /\ attempt' = attempt + 1
  /\ UNCHANGED <<asked, original, body>>

(* Any other error is passed on at once.                                   *)
Fails ==
  /\ outcome = "none" /\ attempt < Attempts
  /\ outcome' = "error" /\ attempt' = attempt + 1
  /\ UNCHANGED <<asked, original, body>>

TrimNext == Answered \/ Retries \/ GivesUp \/ Fails

TrimSpec == TrimInit /\ [][TrimNext]_trimVars

--------------------------------------------------------------------------------
Trims == IF outcome = "none" THEN attempt ELSE attempt - 1

(* Both ends of a conversation, after so many trims: first its leading     *)
(* system block; then the markers, one for each trim and the last of them  *)
(* in front of the rest, and between them nothing but system messages of   *)
(* the part that was dropped; then an unbroken run of the newest messages  *)
(* that holds the last one and does not begin in the middle of a tool turn.*)
KeepsEnds(messages, whole, trims) ==
  LET head == KeepHead(whole)
      size == Len(whole)
  IN  \/ trims = 0 /\ messages = whole
      \/ \E p \in (head + 1)..(Len(messages) - 1), k \in (head + 1)..(size - 1) :
           \E markers \in SUBSET ((head + 1)..p) :
             /\ p <= k /\ p \in markers /\ Cardinality(markers) = trims
             /\ SubSeq(messages, 1, head) = SubSeq(whole, 1, head)
             /\ \A i \in (head + 1)..p :
                  IF i \in markers THEN messages[i] = Marker
                  ELSE messages[i].role = "system" /\ \E j \in (head + 1)..k : messages[i] = whole[j]
             /\ SubSeq(messages, p + 1, Len(messages)) = SubSeq(whole, k + 1, size)
             /\ StartsGroup(whole, k + 1)

(* However often a conversation is trimmed, the original's ends are kept,  *)
(* and it gets no longer.                                                  *)
EndsAreKept == KeepsEnds(body, original, Trims)

(* A trim makes room: if the estimate of no message is too low, the prompt *)
(* of the next attempt exceeds what was aimed at by the marker at most, or *)
(* nothing that may be dropped is left.                                    *)
TrimIsEnough ==
  [][body' # body /\ (\A i \in DOMAIN body : body[i].est >= body[i].real) =>
       \/ PromptTokens(body') + Margin <= Context + MarkerSize.real
       \/ Cuts(body') = {}]_trimVars
================================================================================
