---------------------------- MODULE RateLimiter ----------------------------
(***************************************************************************)
(* The limiter of routers/advice.py: at most MaxCalls requests to Gemini   *)
(* per client in any RateWindow seconds, and a memory that forgets idle    *)
(* clients.  _check_rate_limit awaits nothing: a check is one step.  Time  *)
(* is relative: each time stamp is kept as its age.                        *)
(***************************************************************************)
EXTENDS Naturals, Sequences

CONSTANTS
  Clients,        \* generate_<account>, stock_<TICKER>
  MaxCalls,       \* RATE_LIMIT_MAX_CALLS
  RateWindow      \* RATE_LIMIT_WINDOW_SECONDS

ASSUME LimiterAssumption == {MaxCalls, RateWindow} \subseteq Nat \ {0}

VARIABLES
  stamps,      \* _CALL_TIMESTAMPS, <<>> where there is no key
  granted,     \* history: the ages of the calls granted in the last window
  verdict      \* the last check: granted or not, and how many were before it

limiterVars == <<stamps, granted, verdict>>

LimiterInit ==
  /\ stamps = [c \in Clients |-> <<>>] /\ granted = [c \in Clients |-> <<>>]
  /\ verdict = [ok |-> TRUE, before |-> 0]

(* The calls of the last window in their order: SelectSeq, as a function. *)
Recent(s) ==
  LET kept[i \in 0..Len(s)] ==
        IF i = 0 THEN <<>>
        ELSE IF s[i] < RateWindow THEN Append(kept[i - 1], s[i]) ELSE kept[i - 1]
  IN  kept[Len(s)]

(* Mutant: a client is idle when its first call is old. *)
PrunedByFirst(s) == IF s # <<>> /\ Head(s) >= RateWindow THEN <<>> ELSE s

(* A client is idle when its last call is old. *)
Pruned(s) == IF s # <<>> /\ s[Len(s)] >= RateWindow THEN <<>> ELSE s

(* Prune every client, then drop this one's old calls, then decide. *)
CheckRateLimit(c) ==
  LET others == [k \in Clients |-> Pruned(stamps[k])]
      kept == Recent(others[c])
      ok == Len(kept) < MaxCalls
  IN  /\ stamps' = [others EXCEPT ![c] = IF ok THEN Append(kept, 0) ELSE kept]
      /\ granted' = [granted EXCEPT ![c] = IF ok THEN Append(@, 0) ELSE @]
      /\ verdict' = [ok |-> ok, before |-> Len(granted[c])]

(* Ages beyond the window are all the same to the code. *)
AgedBy(s) == [i \in DOMAIN s |-> IF s[i] < RateWindow THEN s[i] + 1 ELSE s[i]]
LimiterTick ==
  /\ stamps' = [c \in Clients |-> AgedBy(stamps[c])]
  /\ granted' = [c \in Clients |-> Recent(AgedBy(granted[c]))]
  /\ UNCHANGED verdict

LimiterNext == (\E c \in Clients : CheckRateLimit(c)) \/ LimiterTick
-----------------------------------------------------------------------------
(* A request is refused when, and only when, MaxCalls of its client were    *)
(* granted in the window before it: what pruning forgets, and when it is    *)
(* done, changes no answer.                                                 *)
RefusedExactlyWhenFull == verdict.ok <=> verdict.before < MaxCalls
=============================================================================
