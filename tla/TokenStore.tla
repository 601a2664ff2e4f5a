------------------------------ MODULE TokenStore ------------------------------
(***************************************************************************)
(* app/token_store.py with the session counters of app/metrics.py: tokens  *)
(* are counted in memory, saved in batches, and counted on from what was   *)
(* saved when the proxy starts again.                                      *)
(***************************************************************************)
EXTENDS Integers

CONSTANTS
  Counter,        \* the (model, direction) pairs
  Amount,     \* the token counts a response may report
  MaxCounted  \* bound: no key is counted beyond this

ASSUME AmountsAreIntegers == Amount \subseteq Int /\ MaxCounted \in Nat

VARIABLES
  life,      \* the proxy process: "down", "up", or "stopping" after its last request
  db,        \* token_totals on disk
  open,      \* _db is a connection
  baseline,  \* _baseline, and metrics.token_baseline
  pending,   \* _pending
  session,   \* metrics.tokens
  due,       \* FLUSH_SECONDS have passed since _last_flush
  counted,   \* history: everything ever counted
  lost       \* history: what was counted and never saved

storeVars == <<life, db, open, baseline, pending, session, due, counted, lost>>

None == [k \in Counter |-> 0]
Plus(f, g) == [k \in Counter |-> f[k] + g[k]]
With(f, k, n) == [f EXCEPT ![k] = @ + n]

Counts == [Counter -> Nat]

TokenTypeOK ==
  /\ life \in {"down", "up", "stopping"} /\ open \in BOOLEAN /\ due \in BOOLEAN
  /\ db \in Counts /\ baseline \in Counts /\ pending \in Counts
  /\ session \in Counts /\ counted \in Counts /\ lost \in Counts

TokenInit ==
  /\ life = "down" /\ open = FALSE /\ due = FALSE
  /\ db = None /\ baseline = None /\ pending = None
  /\ session = None /\ counted = None /\ lost = None

--------------------------------------------------------------------------------
(* flush with p pending: nothing to do, saved in one transaction, or rolled*)
(* back and kept.                                                          *)

(* Mutant: what could not be saved is dropped.                             *)
FlushForgets(p) ==
  \/ p # None /\ open /\ db' = Plus(db, p) /\ pending' = None /\ due' = FALSE
  \/ db' = db /\ pending' = (IF open THEN None ELSE p) /\ due' = due

(* Mutant: what was saved stays pending.                                   *)
FlushKeepsPending(p) ==
  \/ p # None /\ open /\ db' = Plus(db, p) /\ pending' = p /\ due' = FALSE
  \/ db' = db /\ pending' = p /\ due' = due

Flush(p) ==
  \/ p # None /\ open /\ db' = Plus(db, p) /\ pending' = None /\ due' = FALSE
  \/ db' = db /\ pending' = p /\ due' = due

(* The proxy starts; a database that cannot be opened may have been read in*)
(* part, and is not written.                                               *)
Starts ==
  /\ life = "down" /\ life' = "up" /\ due' = FALSE
  /\ \/ open' = TRUE /\ baseline' = db
     \/ open' = FALSE /\ \E read \in SUBSET Counter : baseline' = [k \in Counter |-> IF k \in read THEN db[k] ELSE 0]
  /\ pending' = None /\ session' = None
  /\ UNCHANGED <<db, counted, lost>>

(* Mutant: a response may report less than nothing.                        *)
AddAny(k, n) ==
  /\ life = "up" /\ counted[k] + n <= MaxCounted
  /\ session' = With(session, k, n)
  /\ counted' = With(counted, k, n)
  /\ IF due THEN Flush(With(pending, k, n))
            ELSE db' = db /\ pending' = With(pending, k, n) /\ due' = due
  /\ UNCHANGED <<life, open, baseline, lost>>

(* _record_usage: both counters, and the disk if a flush is due.           *)
Add(k, n) ==
  /\ life = "up" /\ n > 0 /\ counted[k] + n <= MaxCounted
  /\ session' = With(session, k, n)
  /\ counted' = With(counted, k, n)
  /\ IF due THEN Flush(With(pending, k, n))
            ELSE db' = db /\ pending' = With(pending, k, n) /\ due' = due
  /\ UNCHANGED <<life, open, baseline, lost>>

BecomesDue ==
  /\ life = "up" /\ ~due /\ due' = TRUE
  /\ UNCHANGED <<life, db, open, baseline, pending, session, counted, lost>>

(* The lifespan ends with a flush, and atexit flushes once more.           *)
Stops ==
  /\ life = "up" /\ life' = "stopping"
  /\ Flush(pending)
  /\ UNCHANGED <<open, baseline, session, counted, lost>>

ProcessEnds(saving) ==
  /\ life' = "down" /\ open' = FALSE /\ due' = FALSE
  /\ baseline' = None /\ session' = None /\ pending' = None
  /\ \/ saving /\ open /\ db' = Plus(db, pending) /\ lost' = lost
     \/ db' = db /\ lost' = Plus(lost, pending)
  /\ UNCHANGED counted

Exits   == life = "stopping" /\ ProcessEnds(TRUE)
Crashes == life \in {"up", "stopping"} /\ ProcessEnds(FALSE)

TokenNext ==
  \/ Starts \/ BecomesDue \/ Stops \/ Exits \/ Crashes
  \/ \E k \in Counter, n \in Amount : Add(k, n)

TokenSpec == TokenInit /\ [][TokenNext]_storeVars

--------------------------------------------------------------------------------
(***************************************************************************)
(* Properties.                                                             *)
(***************************************************************************)

(* Every token counted is on disk, waiting to be saved, or was lost with   *)
(* its process: never saved twice, never dropped by a flush that failed.   *)
Balanced == \A k \in Counter : db[k] + pending[k] + lost[k] = counted[k]

(* llamaswap_tokens_total: what /metrics shows since installation is what  *)
(* is on disk and what is still to be saved, however often the proxy was   *)
(* restarted ("a value is never counted twice across the restart").        *)
(* Without a database, whose totals may have been read in part, it is never*)
(* more than that, and no less than what this process has counted.         *)
RenderedIsTrue ==
  life # "down" => \A k \in Counter :
    LET rendered == baseline[k] + session[k] IN
    /\ pending[k] <= rendered /\ rendered <= db[k] + pending[k]
    /\ open => rendered = db[k] + pending[k]
================================================================================
