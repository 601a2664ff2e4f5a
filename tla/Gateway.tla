-------------------------------- MODULE Gateway --------------------------------
(***************************************************************************)
(* _GatewayMiddleware of app/main.py: keys, the cap on requests in flight, *)
(* and the request counter of /metrics.                                    *)
(***************************************************************************)
EXTENDS Integers, FiniteSets

CONSTANTS
  Request,  \* the HTTP requests
  Cap,      \* the values max_concurrency may have
  Status    \* what the application answers with

ASSUME CapsAreNaturals == Cap \subseteq Nat

Credential  == {"none", "api", "admin", "wrong"}
Path == {"open", "admin", "other"}  \* /health and /metrics; _is_admin; the rest

VARIABLES
  settings,  \* get_settings(): the keys that are set, and max_concurrency
  inflight,  \* _inflight
  stage,     \* stage[r]: "idle", "inside" the application, or "ended"
  path,      \* path[r]
  key,       \* key[r]: what _provided_key finds
  holder,    \* status_holder of r
  reply,     \* reply[r]: the status sent, if any
  requests    \* requests[s]: metrics.requests with status s

gatewayVars == <<settings, inflight, stage, path, key, holder, reply, requests>>

Codes == Status \cup {200, 401, 429}
NoReply == 0

GatewayTypeOK ==
  /\ settings \in [api_key : BOOLEAN, admin_key : BOOLEAN, max_concurrency : Cap]
  /\ inflight \in Nat
  /\ stage \in [Request -> {"idle", "inside", "ended"}]
  /\ path \in [Request -> Path] /\ key \in [Request -> Credential]
  /\ holder \in [Request -> Codes] /\ reply \in [Request -> Codes \cup {NoReply}]
  /\ requests \in [Codes -> Nat]

GatewayInit ==
  /\ settings \in [api_key : BOOLEAN, admin_key : BOOLEAN, max_concurrency : Cap]
  /\ inflight = 0
  /\ stage = [r \in Request |-> "idle"]
  /\ path = [r \in Request |-> "other"] /\ key = [r \in Request |-> "none"]
  /\ holder = [r \in Request |-> 200] /\ reply = [r \in Request |-> NoReply]
  /\ requests = [s \in Codes |-> 0]

--------------------------------------------------------------------------------
ApiKey == IF settings.api_key THEN "api" ELSE ""

(* The key a path requires; "" for none.                                   *)
Required(p) == IF p = "admin" /\ settings.admin_key THEN "admin" ELSE ApiKey

Authorized(p, k) == p = "open" \/ Required(p) \in {"", k}

Limits == settings.max_concurrency > 0

IncRequest(s) == requests' = [requests EXCEPT ![s] = @ + 1]

(* _json, inc_request and return.                                          *)
Refuse(r, s) ==
  /\ reply' = [reply EXCEPT ![r] = s]
  /\ holder' = [holder EXCEPT ![r] = s]
  /\ stage' = [stage EXCEPT ![r] = "ended"]
  /\ IncRequest(s) /\ UNCHANGED inflight

Admit(r) ==
  /\ ~Limits \/ inflight < settings.max_concurrency
  /\ inflight' = IF Limits THEN inflight + 1 ELSE inflight
  /\ stage' = [stage EXCEPT ![r] = "inside"]
  /\ UNCHANGED <<holder, reply, requests>>

(* __call__ up to the application.                                         *)
Arrives(r, p, k) ==
  /\ stage[r] = "idle"
  /\ path' = [path EXCEPT ![r] = p] /\ key' = [key EXCEPT ![r] = k]
  /\ UNCHANGED settings
  /\ \/ ~Authorized(p, k) /\ Refuse(r, 401)
     \/ /\ Authorized(p, k)
        /\ Admit(r) \/ (Limits /\ inflight >= settings.max_concurrency /\ Refuse(r, 429))

(* send_wrapper sees the head of the answer.                               *)
Answers(r, s) ==
  /\ stage[r] = "inside" /\ reply[r] = NoReply
  /\ holder' = [holder EXCEPT ![r] = s]
  /\ reply' = [reply EXCEPT ![r] = s]
  /\ UNCHANGED <<settings, inflight, stage, path, key, requests>>

(* Mutant: the slot is released only if there was an answer.              *)
EndsKeepingSlot(r) ==
  /\ stage[r] = "inside"
  /\ stage' = [stage EXCEPT ![r] = "ended"]
  /\ inflight' = IF Limits /\ reply[r] # NoReply THEN inflight - 1 ELSE inflight
  /\ IncRequest(holder[r])
  /\ UNCHANGED <<settings, path, key, holder, reply>>

(* The application returns, raises or is cancelled, answered or not: the   *)
(* finally clause.                                                         *)
Ends(r) ==
  /\ stage[r] = "inside"
  /\ stage' = [stage EXCEPT ![r] = "ended"]
  /\ inflight' = IF Limits THEN inflight - 1 ELSE inflight
  /\ IncRequest(holder[r])
  /\ UNCHANGED <<settings, path, key, holder, reply>>

GatewayNext == \E r \in Request :
  \/ \E p \in Path, k \in Credential : Arrives(r, p, k)
  \/ \E s \in Status : Answers(r, s)
  \/ Ends(r)

GatewaySpec == GatewayInit /\ [][GatewayNext]_gatewayVars

--------------------------------------------------------------------------------
(***************************************************************************)
(* Properties.                                                             *)
(***************************************************************************)
Inside == {r \in Request : stage[r] = "inside"}

(* The counter is the number of requests inside, however they end: no slot *)
(* is leaked by a stream that is cut, none is given back by a refusal, and *)
(* there are never more than max_concurrency.                              *)
InflightCounts ==
  Limits => inflight = Cardinality(Inside) /\ inflight <= settings.max_concurrency
================================================================================
