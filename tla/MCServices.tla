------------------------------ MODULE MCServices ------------------------------
(***************************************************************************)
(* Small instances of the token store, the event bus, the gateway, the trim*)
(* of a conversation, the relay of an answer and the text splitter of the  *)
(* exl3 backend.  They share no state, so one run checks them all: in each *)
(* behaviour one of them is the subject, and the others stay as they start.*)
(***************************************************************************)
EXTENDS TokenStore, EventBus, Gateway, ContextTrim, Exl3Stream, MCChatRelay

VARIABLE subject

CONSTANTS k1, k2, c1, c2, r1, r2, r3

(* What a usage record may say, refused amounts included. *)
Reported == {-1, 0, 1, 2}

(* The keys and the cap matter to the gateway alone. *)
NoKeys == [api_key |-> FALSE, admin_key |-> FALSE, max_concurrency |-> 0]

(* Conversations of up to four messages, with or without a system message  *)
(* in front and a small one between them, whose tool results follow a call;*)
(* small messages and large ones, whose sizes are estimated rightly, too   *)
(* high, or all alike.                                                     *)
Real2 == {1, 3}
Estimates == {[r \in Real2 |-> r], [r \in Real2 |-> r + 1], [r \in Real2 |-> 1]}
Instruction(e, r) == [role |-> "system", real |-> r, est |-> e[1]]
Messages(e) == {[role |-> role, real |-> r, est |-> e[r]] : role \in {"plain", "call", "tool"}, r \in Real2}
Turns(e) ==
  {turns \in UNION {[1..n -> Messages(e) \cup {Instruction(e, 1)}] : n \in 1..4} :
     /\ Last(turns).role \notin {"call", "system"}
     /\ \A i, j \in DOMAIN turns : turns[i].role = "system" /\ turns[j].role = "system" => i = j
     /\ \A i \in DOMAIN turns : turns[i].role = "tool" => i > 1 /\ turns[i - 1].role \in {"call", "tool"}}
Systems(e) == {<<>>, <<Instruction(e, 2)>>}
Conversations == UNION {{system \o turns : system \in Systems(e), turns \in Turns(e)} : e \in Estimates}
Two == [est |-> 2, real |-> 2]

(* Texts: a lead and up to three parts, whole and torn tags and calls.      *)
Leads ==
  {<<>>, <<"word">>, <<"nl">> \o ThinkOpen, <<"word">> \o ThinkClose, ThinkClose \o <<"nl">>,
   ThinkOpen \o <<"word">> \o ThinkClose, <<"word", "</">>}
Parts ==
  {<<"word">>, <<"nl">>, <<"call">>, ToolOpen, ToolClose, <<"<t">>, ToolOpen \o <<"call">> \o ToolClose}
Texts == {lead \o p \o q \o r : lead \in Leads, p, q, r \in Parts \cup {<<>>}}

Init ==
  /\ subject \in {"tokens", "events", "gateway", "trim", "exl3", "relay"}
  /\ TokenInit /\ BusInit
  /\ IF subject = "gateway" THEN TRUE ELSE settings = NoKeys
  /\ GatewayInit
  /\ IF subject = "trim" THEN TRUE ELSE asked = 0 /\ original = (CHOOSE c \in Conversation : TRUE)
  /\ TrimInit
  /\ IF subject = "exl3" THEN TRUE ELSE text = <<>> /\ thinking = FALSE
  /\ ExlInit
  /\ IF subject = "relay" THEN TRUE ELSE answer = (CHOOSE a \in Answer : TRUE) /\ tools = {} /\ via = "plain"
  /\ RelayInit

Next ==
  /\ \/ /\ subject = "tokens" /\ TokenNext
        /\ UNCHANGED <<busVars, gatewayVars, trimVars, exlVars, relayVars>>
     \/ /\ subject = "events" /\ BusNext
        /\ UNCHANGED <<storeVars, gatewayVars, trimVars, exlVars, relayVars>>
     \/ /\ subject = "gateway" /\ GatewayNext
        /\ UNCHANGED <<storeVars, busVars, trimVars, exlVars, relayVars>>
     \/ /\ subject = "trim" /\ TrimNext
        /\ UNCHANGED <<storeVars, busVars, gatewayVars, exlVars, relayVars>>
     \/ /\ subject = "exl3" /\ ExlNext
        /\ UNCHANGED <<storeVars, busVars, gatewayVars, trimVars, relayVars>>
     \/ /\ subject = "relay" /\ RelayNext
        /\ UNCHANGED <<storeVars, busVars, gatewayVars, trimVars, exlVars>>
  /\ UNCHANGED subject

Spec ==
  Init /\ [][Next]_<<subject, storeVars, busVars, gatewayVars, trimVars, exlVars, relayVars>>

Symmetry == Permutations(Client) \cup Permutations(Request)

TypeOK == TokenTypeOK /\ BusTypeOK /\ GatewayTypeOK /\ TrimTypeOK /\ ExlTypeOK /\ RelayTypeOK
================================================================================
