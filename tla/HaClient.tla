------------------------------- MODULE HaClient -------------------------------
(***************************************************************************)
(* The Home Assistant source (dbus_evcharger/ha_client.py): one blocking   *)
(* request per poll behind a circuit breaker, with the last known values   *)
(* kept beside the result.  Only the poll worker calls it.                 *)
(*                                                                         *)
(* A set of charger values is represented by the time of the request that  *)
(* fetched it; None stands for values that are not available.  Home        *)
(* Assistant is external: a request succeeds or fails, after any time.     *)
(***************************************************************************)
EXTENDS Integers

CONSTANTS
    Threshold,     \* CircuitBreaker.threshold
    ResetTimeout,  \* CircuitBreaker.reset_timeout
    MaxTime,       \* bound of the clock
    MaxStreak      \* bound of the consecutive failures counted

ASSUME ConstantsAssumption ==
    /\ Threshold \in Nat \ {0}
    /\ ResetTimeout \in Nat \ {0}
    /\ MaxTime \in Nat
    /\ MaxStreak \in Nat

VARIABLES
    now,          \* time.monotonic()
    failures,     \* CircuitBreaker._failures
    openedAt,     \* CircuitBreaker._opened_at, Never when closed
    lastKnown,    \* last_known
    result,       \* what the last poll returned: its values and "ok"
    pc,           \* "idle" or "request"
    streak,       \* history: failed requests since the last success
    lastFailure,  \* history: when the last request failed
    pollStart     \* history: when the last poll began

vars == <<now, failures, openedAt, lastKnown, result, pc, streak, lastFailure, pollStart>>
history == <<streak, lastFailure, pollStart>>

Never == -1
None == -1

Init ==
    /\ now = 0
    /\ failures = 0 /\ openedAt = Never
    /\ lastKnown = None
    /\ result = [ok |-> FALSE, values |-> None]
    /\ pc = "idle"
    /\ streak = 0 /\ lastFailure = Never /\ pollStart = 0

-------------------------------------------------------------------------------
(* The breaker is open and its timeout not over: no request, last values.  *)
PollRefused ==
    /\ pc = "idle"
    /\ openedAt # Never /\ now - openedAt < ResetTimeout
    /\ result' = [ok |-> FALSE, values |-> lastKnown]
    /\ pollStart' = now
    /\ UNCHANGED <<now, failures, openedAt, lastKnown, pc, streak, lastFailure>>

(* Mutated: half-open forgives all the failures.                           *)
PollRequestForgiving ==
    /\ pc = "idle"
    /\ openedAt = Never \/ now - openedAt >= ResetTimeout
    /\ openedAt' = Never
    /\ failures' = IF openedAt = Never THEN failures ELSE 0
    /\ pc' = "request"
    /\ pollStart' = now
    /\ UNCHANGED <<now, lastKnown, result, streak, lastFailure>>

(* is_open is false; reading it makes an expired breaker half-open, one    *)
(* failure short of its threshold.  The request starts.                    *)
PollRequest ==
    /\ pc = "idle"
    /\ openedAt = Never \/ now - openedAt >= ResetTimeout
    /\ openedAt' = Never
    /\ failures' = IF openedAt = Never THEN failures ELSE Threshold - 1
    /\ pc' = "request"
    /\ pollStart' = now
    /\ UNCHANGED <<now, lastKnown, result, streak, lastFailure>>

(* A parsed answer replaces every value, the unavailable ones by None.     *)
RequestOk(values) ==
    /\ pc = "request"
    /\ lastKnown' = values
    /\ result' = [ok |-> TRUE, values |-> values]
    /\ failures' = 0 /\ openedAt' = Never
    /\ pc' = "idle"
    /\ streak' = 0
    /\ UNCHANGED <<now, lastFailure, pollStart>>

(* Mutated: the threshold is compared before the failure is counted.       *)
RequestFailEarly ==
    /\ pc = "request"
    /\ streak < MaxStreak
    /\ failures' = failures + 1
    /\ openedAt' = IF openedAt = Never /\ failures + 2 >= Threshold THEN now ELSE openedAt
    /\ result' = [ok |-> FALSE, values |-> lastKnown]
    /\ pc' = "idle"
    /\ streak' = streak + 1 /\ lastFailure' = now
    /\ UNCHANGED <<now, lastKnown, pollStart>>

(* Timeout, connection error, HTTP error or invalid JSON: record_failure,  *)
(* and the last known values go back with ok FALSE.                        *)
RequestFail ==
    /\ pc = "request"
    /\ streak < MaxStreak
    /\ failures' = failures + 1
    /\ openedAt' = IF openedAt = Never /\ failures + 1 >= Threshold THEN now ELSE openedAt
    /\ result' = [ok |-> FALSE, values |-> lastKnown]
    /\ pc' = "idle"
    /\ streak' = streak + 1 /\ lastFailure' = now
    /\ UNCHANGED <<now, lastKnown, pollStart>>

Tick ==
    /\ now < MaxTime
    /\ now' = now + 1
    /\ UNCHANGED <<failures, openedAt, lastKnown, result, pc, history>>

Next ==
    \/ PollRefused \/ PollRequest
    \/ \E values \in {None, now} : RequestOk(values)
    \/ RequestFail
    \/ Tick

Spec == Init /\ [][Next]_vars

-------------------------------------------------------------------------------
(* Properties.                                                             *)

TypeOK ==
    /\ now \in Nat
    /\ failures \in 0..Threshold
    /\ openedAt \in {Never} \union 0..now
    /\ lastKnown \in {None} \union 0..now
    /\ result \in [ok : BOOLEAN, values : {None} \union 0..now]
    /\ pc \in {"idle", "request"}
    /\ streak \in Nat
    /\ lastFailure \in {Never} \union 0..now
    /\ pollStart \in 0..now

(* Values that come with ok were fetched by this very poll, or are None:   *)
(* the last-known fallback never passes as a fresh reading.                *)
OkIsThisPoll ==
    result.ok /\ pc = "idle" => result.values = None \/ result.values >= pollStart

(* The breaker opens at the threshold-th consecutive failure, not before,  *)
(* and from then on it is half-open only inside its probe.                 *)
OpensAtThreshold ==
    /\ openedAt # Never => streak >= Threshold /\ openedAt = lastFailure
    /\ pc = "idle" /\ openedAt = Never => streak < Threshold /\ failures = streak

(* Once the threshold is reached, Home Assistant sees one probe per reset  *)
(* timeout, and one failed probe is enough to wait for the next.           *)
ProbesAreSpaced ==
    [][pc = "idle" /\ pc' = "request" /\ streak >= Threshold
         => now - lastFailure >= ResetTimeout]_vars

(* The inductive invariant: the breaker against the history of requests.   *)
IInv ==
    /\ TypeOK
    /\ OkIsThisPoll
    /\ openedAt # Never => failures = Threshold
    /\ openedAt # Never => streak >= Threshold /\ openedAt = lastFailure /\ pc = "idle"
    /\ openedAt = Never => \/ streak < Threshold /\ failures = streak
                           \/ streak >= Threshold /\ failures = Threshold - 1 /\ pc = "request"
=============================================================================
