------------------------------ MODULE MCChatRelay ------------------------------
(***************************************************************************)
(* Small chat answers for ChatRelay: at most three pieces of text, calls   *)
(* and tool_call blocks, and then the final event, usage and [DONE], any   *)
(* of which may be missing or come twice, or an error.  The name "a" is    *)
(* that of a tool, "b" fits the ends of one or two, and "c" is similar to  *)
(* one.                                                                    *)
(***************************************************************************)
EXTENDS ChatRelay

EventOf(kind) ==
  [kind |-> kind, blocks |-> <<>>, index |-> 0, tool |-> NoTool, refused |-> <<>>, usage |-> "none"]

JustText    == EventOf("text")
Block(n, a) == [JustText EXCEPT !.blocks = <<[name |-> n, args |-> a]>>]
Delta(i, t) == [EventOf("call") EXCEPT !.index = i, !.tool = t]

Bodies ==
  {<<>>}
  \cup {<<p>> : p \in {JustText, Block("a", 1), Block("a", 2), Block("b", 3), Block("c", 4),
                       Delta(0, "A"), Delta(0, NoTool), Delta(1, "B")}}
  \cup {<<JustText, p>> : p \in {Block("a", 1), Delta(0, "A")}}
  \cup {<<Block("a", 1), p>> : p \in {Block("a", 2), Block("b", 3), Block("c", 4), Delta(0, "A")}}
  \cup {<<Delta(0, "A"), p>> : p \in {Block("a", 1), Block("b", 3), Delta(0, NoTool), Delta(1, "B")}}
  \cup {<<Delta(0, "A"), Block("a", 1), Delta(0, NoTool)>>, <<Block("b", 3), Block("a", 1), Block("a", 2)>>,
        <<Block("a", 0), Block("a", 2)>>}

In(n, a) == [name |-> n, args |-> a]
Refusals ==
  {<<>>, <<In("a", 0)>>, <<In("a", 0), In("a", 0)>>, <<In("b", 0), In("a", 0)>>, <<In("a", 9), In("a", 0)>>}

FinalEvent(r, u) == [EventOf("final") EXCEPT !.refused = r, !.usage = u]
Usage(r, u) == [EventOf("usage") EXCEPT !.refused = r, !.usage = u]
DoneEvent   == EventOf("done")

Endings ==
  {<<FinalEvent(r, u), DoneEvent>> : r \in Refusals, u \in {"none", "full"}}
  \cup {<<FinalEvent(<<>>, "empty"), Usage(<<>>, "full"), DoneEvent>>,
        <<FinalEvent(<<In("a", 0)>>, "none"), Usage(<<>>, "full")>>,
        <<Usage(<<In("a", 0)>>, "none"), FinalEvent(<<In("a", 0)>>, "none"), DoneEvent>>,
        <<EventOf("error"), DoneEvent>>}

Streams == {body \o ending : body \in Bodies, ending \in Endings}

Fitting ==
  [n \in Name |-> CASE n = "a" -> [exact |-> {"A"}, affix |-> {"A"}, close |-> {"A"}]
                    [] n = "b" -> [exact |-> {}, affix |-> {"B", "B2"}, close |-> {"B"}]
                    [] n = "c" -> [exact |-> {}, affix |-> {}, close |-> {"A"}]]

Toolboxes == {{}, {"A", "B"}, {"A", "B", "B2"}}
================================================================================
