------------------------------- MODULE ModelSlot -------------------------------
(***************************************************************************)
(* What a subprocess manager promises its callers, without processes,      *)
(* locks or timeouts: one slot on the GPU that holds at most one model,    *)
(* and callers who are granted a model only while the slot is ready with   *)
(* it.  A slot that gives up one model is empty before it takes another.   *)
(***************************************************************************)
CONSTANTS Model, Request, None

VARIABLES slot,   \* [phase, model]: what the slot holds
          ask     \* ask[r]: the model caller r waits for, None if it does not

slotVars == <<slot, ask>>

Phase == {"empty", "loading", "ready", "broken", "draining"}

SlotTypeOK ==
  /\ slot \in [phase : Phase, model : Model \cup {None}]
  /\ ask \in [Request -> Model \cup {None}]

Empty == [phase |-> "empty", model |-> None]

SlotInit ==
  /\ slot = Empty
  /\ ask = [r \in Request |-> None]

(* A caller asks for a model. *)
Want(r, m) ==
  /\ ask[r] = None
  /\ ask' = [ask EXCEPT ![r] = m]
  /\ UNCHANGED slot

(* The slot is ready with the model a caller waits for: the call returns. *)
Grant(r) ==
  /\ ask[r] # None
  /\ slot' = [phase |-> "ready", model |-> ask[r]]
  /\ \/ slot = slot'
     \/ slot = [slot' EXCEPT !.phase = "loading"]
  /\ ask' = [ask EXCEPT ![r] = None]

(* The call fails; the model that could not be loaded leaves the slot. *)
Refuse(r) ==
  /\ ask[r] # None
  /\ ask' = [ask EXCEPT ![r] = None]
  /\ slot = Empty \/ slot.phase = "loading"
  /\ slot' = Empty

(* Only an empty slot takes a model, and only one some caller waits for. *)
Load(r) ==
  /\ slot = Empty
  /\ ask[r] # None
  /\ slot' = [phase |-> "loading", model |-> ask[r]]
  /\ UNCHANGED ask

(* A loaded model is found dead. *)
Crash ==
  /\ slot.phase = "ready"
  /\ slot' = [slot EXCEPT !.phase = "broken"]
  /\ UNCHANGED ask

(* The model is told to leave; one that is already dead is gone at once. *)
Leave ==
  /\ slot.phase \in {"loading", "ready", "broken"}
  /\ slot' \in {[slot EXCEPT !.phase = "draining"], Empty}
  /\ UNCHANGED ask

Gone ==
  /\ slot.phase = "draining"
  /\ slot' = Empty
  /\ UNCHANGED ask

SlotNext ==
  \/ \E r \in Request : (\E m \in Model : Want(r, m)) \/ Grant(r) \/ Refuse(r) \/ Load(r)
  \/ Crash \/ Leave \/ Gone

(* No caller waits for ever. *)
Answered == \A r \in Request : ask[r] # None ~> ask[r] = None

SlotSafety == SlotInit /\ [][SlotNext]_slotVars

SlotSpec == SlotSafety /\ Answered

================================================================================
