-------------------------- MODULE ProviderRequests --------------------------
(***************************************************************************)
(* Model requests on their way to the providers (crates/hi-ai/src):        *)
(* ConcurrencyLimitedProvider admits them (concurrency.rs), FallbackProvider *)
(* sends an admitted one down its chain of backends (fallback.rs), each     *)
(* behind a CircuitBreaker (circuit_breaker.rs) and charged to the request's *)
(* RequestExecution (request_execution.rs).  A request is cancelled by      *)
(* dropping its future, at whatever await it is.                           *)
(*                                                                         *)
(* Time: a cool-down or a probe time-out may elapse at any moment; samples  *)
(* leave a breaker's window oldest first.  A backend's stream is one        *)
(* attempt: it has retries of its own inside.                              *)
(***************************************************************************)
EXTENDS Integers, Sequences, FiniteSets

CONSTANTS
    Requests,            \* requests, each made once
    Configs,             \* the configurations to look at, see Config
    RecoverySuccesses,   \* RECOVERY_SUCCESSES
    MinSamples,          \* min_samples
    MaxProbes            \* half_open_max_probes

\* ProviderConcurrencyConfig, the length of the fallback chain, the requests
\* that are not a user's turn and the attempts every request's execution policy
\* allows.
Config ==
    [max_concurrent : Nat \ {0}, foreground_reserved : Nat, adaptive : BOOLEAN,
     backends : Nat \ {0}, auxiliary : SUBSET Requests, max_attempts : [Requests -> Nat]]

\* Places in a chain of some configuration.
Places == UNION {1 .. c.backends : c \in Configs}

\* ProviderConcurrencyConfig::validate; a process makes finitely many requests.
ASSUME ProviderAssumption ==
    /\ IsFiniteSet(Requests)
    /\ Configs \subseteq Config
    /\ \A c \in Configs : c.foreground_reserved < c.max_concurrent
    /\ RecoverySuccesses \in Nat
    /\ MinSamples \in Nat
    /\ MaxProbes \in Nat

\* How a backend's stream ends: with content, with nothing, with an error
\* that says "slow down", one that says so and that it must not be retried,
\* one that the backend is down, that this model is not there (another backend
\* may have it), or that the request is at fault.  The explicit retry contract
\* of an error (provider_error_retryable) is part of its class: retryable
\* makes a fault of the request one of the model, and the contract "do not
\* retry" makes a fault of the request of every other error but the rate limit,
\* which still throttles.
Answers ==
    {"content", "empty", "throttled", "quota", "outage", "no_model", "bad_request"}
Throttles == {"throttled", "quota"}
AffectsHealth == {"throttled", "outage"}
FallbackEligible == {"empty", "throttled", "outage", "no_model"}

VARIABLES
    config,      \* never changes
    pc,          \* where every request is
    woken,       \* requests whose Notified has been notified
    in_flight,   \* LimitState
    auxiliary_in_flight,
    current_limit,
    success_streak,  \* counted up to RecoverySuccesses: more is no different
    throttled,   \* last_throttle is not ADAPTIVE_COOLDOWN ago yet
    at,          \* the backend every request is at
    result,      \* what the fallback chain made of every request
    attempts,    \* attempts charged to every request's execution
    usage,       \* attempts whose usage every request's result carries
    breaker      \* BreakerInner of every backend

limit == <<in_flight, auxiliary_in_flight, current_limit, success_streak, throttled>>
chain == <<at, result, attempts, usage>>
vars == <<config, pc, woken, limit, chain, breaker>>

MaxConcurrent == config.max_concurrent
Reserved == config.foreground_reserved
Auxiliary == config.auxiliary
NumBackends == config.backends
Backends == 1 .. NumBackends

\* cooled: open_duration has elapsed; stale: half_open_probe_timeout has.
Breaker ==
    [state : {"Closed", "Open", "HalfOpen"}, cooled : BOOLEAN, probes : 0 .. MaxProbes,
     granted : BOOLEAN, stale : BOOLEAN, window : Seq(BOOLEAN)]

TypeOK ==
    /\ config \in Configs
    /\ pc \in [Requests -> {"new", "armed", "waiting", "check", "granted", "stream",
                            "answered", "releasing", "done"}]
    /\ woken \subseteq Requests
    /\ in_flight \in 0 .. MaxConcurrent
    /\ auxiliary_in_flight \in 0 .. MaxConcurrent
    /\ current_limit \in 1 .. MaxConcurrent
    /\ success_streak \in 0 .. RecoverySuccesses
    /\ throttled \in BOOLEAN
    /\ at \in [Requests -> Backends]
    /\ result \in [Requests -> Answers \cup {"none", "rejected", "exhausted"}]
    /\ attempts \in [Requests -> 0 .. NumBackends]
    /\ usage \in [Requests -> 0 .. NumBackends]
    /\ breaker \in [Backends -> Breaker]

Init ==
    /\ config \in Configs
    /\ pc = [r \in Requests |-> "new"]
    /\ woken = {}
    /\ in_flight = 0
    /\ auxiliary_in_flight = 0
    /\ current_limit = MaxConcurrent
    /\ success_streak = 0
    /\ throttled = FALSE
    /\ at = [r \in Requests |-> 1]
    /\ result = [r \in Requests |-> "none"]
    /\ attempts = [r \in Requests |-> 0]
    /\ usage = [r \in Requests |-> 0]
    /\ breaker = [b \in Backends |-> [state |-> "Closed", cooled |-> FALSE, probes |-> 0,
                                      granted |-> FALSE, stale |-> FALSE, window |-> <<>>]]

Goto(r, p) == pc' = [pc EXCEPT ![r] = p]

\* The locals of FallbackProvider::stream, and the request, are gone.
EndRequest(r) ==
    /\ at' = [at EXCEPT ![r] = 1]
    /\ result' = [result EXCEPT ![r] = "none"]
    /\ attempts' = [attempts EXCEPT ![r] = 0]
    /\ usage' = [usage EXCEPT ![r] = 0]

-----------------------------------------------------------------------------
(* ConcurrencyLimitedProvider.                                             *)

\* Notify::notify_waiters reaches every Notified that exists, polled or not:
\* acquire creates its own before it looks.  It follows the unlock directly,
\* and whoever looks in between sees the new state.
NotifyWaiters == woken' = {r \in Requests : pc[r] \in {"armed", "waiting"}}

productive_floor == IF Reserved + 1 < MaxConcurrent THEN Reserved + 1 ELSE MaxConcurrent

\* Mutant of AtLeastFloor: throttling may take all but one slot.
AtLeastFloor_one(n) == IF n < 1 THEN 1 ELSE n

AtLeastFloor(n) == IF n < productive_floor THEN productive_floor ELSE n

Admitted(r, l) ==
    /\ in_flight < l
    /\ r \in Auxiliary => auxiliary_in_flight < l - Reserved

\* The first iteration of acquire's loop, and every later one, up to its look.
Start(r) ==
    /\ pc[r] = "new"
    /\ Goto(r, "armed")
    /\ UNCHANGED <<config, woken, limit, chain, breaker>>

Wake(r) ==
    /\ pc[r] = "waiting"
    /\ r \in woken
    /\ woken' = woken \ {r}
    /\ Goto(r, "armed")
    /\ UNCHANGED <<limit, chain, breaker>>

\* Mutant of Acquire: an auxiliary request is held to the whole limit only.
Acquire_unreserved(r) ==
    /\ pc[r] = "armed"
    /\ current_limit' = AtLeastFloor(current_limit)
    /\ in_flight < current_limit'
    /\ Goto(r, "check")
    /\ woken' = woken \ {r}
    /\ in_flight' = in_flight + 1
    /\ auxiliary_in_flight' = auxiliary_in_flight + (IF r \in Auxiliary THEN 1 ELSE 0)
    /\ UNCHANGED <<success_streak, throttled, chain, breaker>>

Acquire(r) ==
    /\ pc[r] = "armed"
    /\ current_limit' = AtLeastFloor(current_limit)
    /\ IF Admitted(r, current_limit')
       THEN /\ Goto(r, "check")
            /\ woken' = woken \ {r}
            /\ in_flight' = in_flight + 1
            /\ auxiliary_in_flight' = auxiliary_in_flight + (IF r \in Auxiliary THEN 1 ELSE 0)
       ELSE Goto(r, "waiting") /\ UNCHANGED <<woken, in_flight, auxiliary_in_flight>>
    /\ UNCHANGED <<success_streak, throttled, chain, breaker>>

\* Mutant of RecordResult: the limit recovers past the configured one.
RecordResult_overgrown(r) ==
    /\ pc[r] = "answered"
    /\ current_limit' = current_limit + (IF result[r] = "content" THEN 1 ELSE 0)
    /\ NotifyWaiters
    /\ Goto(r, "releasing")
    /\ EndRequest(r)
    /\ UNCHANGED <<in_flight, auxiliary_in_flight, success_streak, throttled, breaker>>

\* What record_result makes of an answer: down by one to the floor, or up by
\* one after enough successes.
Adapt(answer) ==
    CASE answer \in Throttles ->
             /\ current_limit' = AtLeastFloor(current_limit - 1)
             /\ success_streak' = 0
             /\ throttled' = TRUE
      [] answer \in {"content", "empty"} ->
             LET enough == success_streak + 1 >= RecoverySuccesses
                 grow == enough /\ ~throttled /\ current_limit < MaxConcurrent
             IN  /\ current_limit' = current_limit + (IF grow THEN 1 ELSE 0)
                 /\ success_streak' = CASE grow -> 0
                                        [] ~grow /\ enough -> RecoverySuccesses
                                        [] OTHER -> success_streak + 1
                 /\ UNCHANGED throttled
      [] OTHER -> success_streak' = 0 /\ UNCHANGED <<current_limit, throttled>>

\* record_result, then the permit is dropped.
RecordResult(r) ==
    /\ pc[r] = "answered"
    /\ \/ config.adaptive /\ Adapt(result[r]) /\ NotifyWaiters
       \/ /\ ~config.adaptive
          /\ UNCHANGED <<woken, current_limit, success_streak, throttled>>
    /\ Goto(r, "releasing")
    /\ EndRequest(r)
    /\ UNCHANGED <<in_flight, auxiliary_in_flight, breaker>>

\* Mutant of Release: nobody is told about the free slot.
Release_silent(r) ==
    /\ pc[r] = "releasing"
    /\ in_flight' = in_flight - 1
    /\ auxiliary_in_flight' = auxiliary_in_flight - (IF r \in Auxiliary THEN 1 ELSE 0)
    /\ Goto(r, "done")
    /\ UNCHANGED <<woken, current_limit, success_streak, throttled, chain, breaker>>

\* The task that RequestPermit::drop spawns.
Release(r) ==
    /\ pc[r] = "releasing"
    /\ in_flight' = in_flight - 1
    /\ auxiliary_in_flight' = auxiliary_in_flight - (IF r \in Auxiliary THEN 1 ELSE 0)
    /\ NotifyWaiters
    /\ Goto(r, "done")
    /\ UNCHANGED <<current_limit, success_streak, throttled, chain, breaker>>

\* The future is dropped, at an await.
Cancel(r) ==
    /\ pc[r] \in {"armed", "waiting", "stream", "answered"}
    /\ Goto(r, IF pc[r] \in {"stream", "answered"} THEN "releasing" ELSE "done")
    /\ woken' = woken \ {r}
    /\ EndRequest(r)
    /\ UNCHANGED <<config, limit, breaker>>

-----------------------------------------------------------------------------
(* CircuitBreaker.                                                         *)

Cool(b) ==
    /\ b \in Backends
    /\ breaker[b].state = "Open" /\ ~breaker[b].cooled
    /\ breaker' = [breaker EXCEPT ![b].cooled = TRUE]
    /\ UNCHANGED <<config, pc, woken, limit, chain>>

ProbeTimeout(b) ==
    /\ b \in Backends
    /\ breaker[b].granted /\ ~breaker[b].stale
    /\ breaker' = [breaker EXCEPT ![b].stale = TRUE]
    /\ UNCHANGED <<config, pc, woken, limit, chain>>

\* The breaker k is in when check has looked at the clock, and whether check
\* allows the request.
Checked(k) ==
    IF k.state = "Open" /\ k.cooled THEN [k EXCEPT !.state = "HalfOpen", !.probes = 0] ELSE k

\* Mutant of Allows: a probe nobody reports on keeps its slot.
Allows_kept(k) ==
    \/ k.state = "Closed"
    \/ k.state = "HalfOpen" /\ k.probes < MaxProbes

Allows(k) ==
    \/ k.state = "Closed"
    \/ k.state = "HalfOpen" /\ (k.probes < MaxProbes \/ ~k.granted \/ k.stale)

grant_probe(k) ==
    IF k.state = "HalfOpen"
    THEN [k EXCEPT !.probes = IF @ < MaxProbes THEN @ + 1 ELSE @,
                   !.granted = TRUE, !.stale = FALSE]
    ELSE k

\* record: the window forgets its oldest samples, and takes the new one.
Trips(w) ==
    LET failed == {i \in DOMAIN w : ~w[i]}
    IN  Len(w) >= MinSamples /\ 2 * Cardinality(failed) >= Len(w)

record(k, success, evicted) ==
    LET w == Append(SubSeq(k.window, evicted + 1, Len(k.window)), success)
    IN  CASE k.state = "HalfOpen" /\ success ->
                 [state |-> "Closed", cooled |-> FALSE, probes |-> 0, granted |-> FALSE,
                  stale |-> FALSE, window |-> <<>>]
          [] k.state = "HalfOpen" /\ ~success ->
                 [state |-> "Open", cooled |-> FALSE, probes |-> 0, granted |-> FALSE,
                  stale |-> FALSE, window |-> w]
          [] k.state = "Closed" /\ Trips(w) ->
                 [k EXCEPT !.state = "Open", !.cooled = FALSE, !.window = w]
          [] OTHER -> [k EXCEPT !.window = w]

-----------------------------------------------------------------------------
(* FallbackProvider.                                                       *)

\* The chain ends for r with result x.
EndChain(r, x) ==
    /\ result' = [result EXCEPT ![r] = x]
    /\ Goto(r, "answered")
    /\ UNCHANGED at

NextBackend(r) ==
    /\ at' = [at EXCEPT ![r] = @ + 1]
    /\ Goto(r, "check")
    /\ UNCHANGED result

Check(r) ==
    /\ pc[r] = "check"
    /\ LET b == at[r]
           k == Checked(breaker[b])
       IN  IF Allows(k)
           THEN /\ breaker' = [breaker EXCEPT ![b] = grant_probe(k)]
                /\ Goto(r, "granted")
                /\ UNCHANGED <<at, result>>
           ELSE /\ breaker' = [breaker EXCEPT ![b] = k]
                /\ IF b = NumBackends THEN EndChain(r, "rejected") ELSE NextBackend(r)
    /\ UNCHANGED <<woken, limit, attempts, usage>>

\* ensure_available, and the attempt.  A probe that was granted and cannot be
\* sent any more is not given back.
Send(r) ==
    /\ pc[r] = "granted"
    /\ IF attempts[r] < config.max_attempts[r]
       THEN /\ attempts' = [attempts EXCEPT ![r] = @ + 1]
            /\ Goto(r, "stream")
            /\ UNCHANGED <<at, result>>
       ELSE EndChain(r, "exhausted") /\ UNCHANGED attempts
    /\ UNCHANGED <<woken, limit, usage, breaker>>

\* Mutant of Answer: what a failed attempt has used is forgotten.
Answer_forgets(r, a) ==
    /\ pc[r] = "stream"
    /\ LET b == at[r]
       IN  /\ breaker' = [breaker EXCEPT ![b] = record(@, a \notin AffectsHealth, 0)]
           /\ usage' = [usage EXCEPT ![r] = IF a \in {"content", "empty"} THEN @ + 1 ELSE @]
           /\ IF a \in FallbackEligible /\ b # NumBackends THEN NextBackend(r) ELSE EndChain(r, a)
    /\ UNCHANGED <<woken, limit, attempts>>

\* The stream ends: recorded in the breaker, its usage carried along; the
\* result of the last backend is final, and one that no other backend can
\* better.
Answer(r, a) ==
    /\ pc[r] = "stream"
    /\ LET b == at[r]
       IN  /\ \E n \in 0 .. Len(breaker[b].window) :
                  breaker' = [breaker EXCEPT ![b] = record(@, a \notin AffectsHealth, n)]
           /\ usage' = [usage EXCEPT ![r] = @ + 1]
           /\ IF a \in FallbackEligible /\ b # NumBackends THEN NextBackend(r) ELSE EndChain(r, a)
    /\ UNCHANGED <<woken, limit, attempts>>

ThrottleCool ==
    /\ throttled
    /\ throttled' = FALSE
    /\ UNCHANGED <<config, pc, woken, in_flight, auxiliary_in_flight, current_limit, success_streak,
                   chain, breaker>>

\* What a request does by itself once it is made.
Proceed(r) ==
    /\ UNCHANGED config
    /\ \/ Acquire(r) \/ Wake(r) \/ RecordResult(r) \/ Release(r)
       \/ Check(r) \/ Send(r)
       \/ \E a \in Answers : Answer(r, a)

Next ==
    \/ \E r \in Requests : Start(r) \/ Cancel(r) \/ Proceed(r)
    \/ \E b \in Places : Cool(b) \/ ProbeTimeout(b)
    \/ ThrottleCool

Spec == Init /\ [][Next]_vars

\* Tasks are polled, a stream ends sooner or later (RequestProgress ends one
\* that makes no progress), and time passes.
Fairness ==
    /\ \A r \in Requests : WF_vars(Proceed(r))
    /\ \A b \in Places : WF_vars(Cool(b)) /\ WF_vars(ProbeTimeout(b))

FairSpec == Spec /\ Fairness

-----------------------------------------------------------------------------
(* Properties.                                                             *)

Holding == {r \in Requests : pc[r] \in {"check", "granted", "stream", "answered", "releasing"}}

\* ProviderConcurrencyConfig (concurrency.rs:22-23): "Auxiliary requests share
\* the same hard cap but cannot consume the reserved foreground slots" - also
\* while the adaptive limit moves under the requests that are in flight, and
\* whichever of them are cancelled.
SlotsBounded ==
    /\ in_flight = Cardinality(Holding)
    /\ Cardinality(Holding) <= MaxConcurrent
    /\ Cardinality(Holding \cap Auxiliary) <= MaxConcurrent - Reserved

\* acquire: nobody sleeps through the slot it is waiting for.  Whoever sleeps
\* and has not been notified could not be admitted now.
NoForgottenWaiter ==
    \A r \in Requests : pc[r] = "waiting" /\ r \notin woken => ~Admitted(r, current_limit)

\* acquire's comment on the productive floor: however far throttling has
\* lowered the limit, every request that is made, auxiliary ones included, is
\* answered, rejected or cancelled.
Served == \A r \in Requests : (pc[r] # "new") ~> (pc[r] = "done")

\* fallback.rs:1-3: "carrying usage from failed attempts into the final
\* result" - whichever way the chain ends, through a backend that answers, a
\* breaker that rejects or a spent allowance.
UsageCarried ==
    \A r \in Requests : pc[r] = "answered" => usage[r] = attempts[r]

\* BreakerInner::half_open_probe_granted_at (circuit_breaker.rs:111-114): a
\* probe whose outcome is never recorded, because its request was cancelled or
\* had no attempt left, does not lock the backend out: again and again the
\* breaker would let a request through.
NotLockedOut == \A b \in Places : []<>(b \in Backends => Allows(Checked(breaker[b])))
=============================================================================
