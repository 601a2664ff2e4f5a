------------------------------ MODULE MCVramGuard ------------------------------
EXTENDS VramGuard, FiniteSets

CONSTANTS r1, r2

To(role, name) == [to |-> role, model |-> name]
Admin(verb, m, name) == [to |-> verb, at |-> m, model |-> name]

ChatCalls  == {To("chat", "small"), To("chat", "big")}
AudioCalls == {To("tts", "only"), To("asr", "only")}
HeavyCalls == {To("image", "only"), To("music", "only")}
Tenants    == ChatCalls \cup AudioCalls \cup HeavyCalls
(* One request task makes every call of a tenant, and those that stop      *)
(* servers; of two, each makes calls that evict what the other loads.      *)
OneTenant   == [r \in Request |-> IF r = r1
                 THEN Tenants \cup {To("reset", None), Admin("unload", "chat", None)} ELSE {}]
TwoEvicting == [r \in Request |-> IF r = r1
                 THEN HeavyCalls \cup {Admin("load", "chat", "big")} ELSE {To("chat", "big")}]
TwoAny      == [r \in Request |-> Tenants \cup {To("embed", "only")}]

(* Every rule on, and one of the four watchers there; the embedding server *)
(* left alone, and at most one other rule off; and, for the rule that is   *)
(* about audio servers that are there, their watcher or that of the chat   *)
(* model.                                                                  *)
Idle         == Setting \ Rule
NoIdle       == {Rule}
ChatIdle     == {Rule \cup {"idle_unload_seconds"}}
AllButOne    == {Rule \ {"embedding_auto_start", off} : off \in Rule}
BothStay     == Rule \ {"embedding_auto_start", "unload_audio_on_big_llm"}
Configurations ==
  AllButOne \cup {Rule \cup {idle} : idle \in Idle}
    \cup {BothStay \cup {idle} : idle \in {"idle_unload_seconds", "idle_unload_audio_seconds"}}
================================================================================
