----------------------- MODULE ProviderRequestsProofs -----------------------
(***************************************************************************)
(* Proofs about ProviderRequests, for every set of requests, configuration *)
(* and length of the fallback chain: the slots are counted and bounded,    *)
(* nobody sleeps through a free slot, and no usage is lost.                *)
(***************************************************************************)
EXTENDS ProviderRequests, FiniteSetTheorems, TLAPS

-----------------------------------------------------------------------------
(* The inductive invariant.                                                *)

\* LimitState counts the permits that exist, those of the tasks that
\* RequestPermit::drop spawned included, and the auxiliary ones among them.
Counted ==
    /\ in_flight = Cardinality(Holding)
    /\ auxiliary_in_flight = Cardinality(Holding \cap Auxiliary)
    /\ auxiliary_in_flight <= MaxConcurrent - Reserved

\* The adaptive limit never falls below the productive floor.
FloorKept == productive_floor <= current_limit

\* Between the calls, and while a request has a permit and nothing more, its
\* execution has been charged nothing.
Uncharged == {"new", "armed", "waiting", "releasing", "done"}

\* The attempts charged are those of the backends left behind, one more once
\* this backend's stream was opened; all but an open one are in the usage.
Charged ==
    \A r \in Requests :
        /\ pc[r] \in Uncharged => at[r] = 1 /\ attempts[r] = 0
        /\ pc[r] \in {"check", "granted"} => attempts[r] < at[r]
        /\ attempts[r] <= at[r]
        /\ attempts[r] = usage[r] + (IF pc[r] = "stream" THEN 1 ELSE 0)

IndInv == TypeOK /\ Counted /\ FloorKept /\ NoForgottenWaiter /\ Charged

-----------------------------------------------------------------------------
(* Facts about the configuration, the limit and the breakers.              *)

\* What ProviderConcurrencyConfig::validate gives every step to rely on.
LEMMA ConfigFacts ==
    ASSUME config \in Configs
    PROVE  /\ MaxConcurrent \in Nat \ {0} /\ Reserved \in Nat /\ Reserved < MaxConcurrent
           /\ NumBackends \in Nat \ {0} /\ Auxiliary \subseteq Requests
           /\ config.max_attempts \in [Requests -> Nat]
           /\ productive_floor = Reserved + 1
BY ProviderAssumption DEF Config, MaxConcurrent, Reserved, NumBackends, Auxiliary, productive_floor

\* The limit is between the floor and the hard cap wherever it is rounded up.
LEMMA FloorFacts ==
    ASSUME config \in Configs, NEW n \in Int
    PROVE  /\ AtLeastFloor(n) \in Int
           /\ productive_floor <= AtLeastFloor(n)
           /\ n <= MaxConcurrent => AtLeastFloor(n) \in 1 .. MaxConcurrent
           /\ productive_floor <= n => AtLeastFloor(n) = n
BY ConfigFacts DEF AtLeastFloor

LEMMA RequestSetsFinite ==
    ASSUME NEW S \in SUBSET Requests
    PROVE  IsFiniteSet(S) /\ Cardinality(S) \in Nat
BY ProviderAssumption, FS_Subset, FS_CardinalityType

\* One permit more.
LEMMA CountUp ==
    ASSUME NEW S \in SUBSET Requests, NEW r \in Requests, r \notin S
    PROVE  Cardinality(S \cup {r}) = Cardinality(S) + 1
BY RequestSetsFinite, FS_AddElement

\* One permit less.
LEMMA CountDown ==
    ASSUME NEW S \in SUBSET Requests, NEW r \in S
    PROVE  Cardinality(S \ {r}) = Cardinality(S) - 1 /\ Cardinality(S) >= 1
<1>1. Cardinality(S \ {r}) = Cardinality(S) - 1
  BY RequestSetsFinite, FS_RemoveElement
<1>2. Cardinality(S \ {r}) \in Nat /\ Cardinality(S) \in Nat
  BY RequestSetsFinite
<1> QED
  BY <1>1, <1>2

\* check and record leave a breaker a breaker; the window stays a sequence of
\* samples whatever it forgets.
LEMMA BreakerTypes ==
    ASSUME NEW k \in Breaker
    PROVE  /\ Checked(k) \in Breaker
           /\ grant_probe(k) \in Breaker
           /\ \A success \in BOOLEAN : \A n \in 0 .. Len(k.window) :
                  record(k, success, n) \in Breaker
<1>0. 0 \in 0 .. MaxProbes
  BY ProviderAssumption
<1>1. Checked(k) \in Breaker
  <2>1. \A p \in 0 .. MaxProbes : [k EXCEPT !.state = "HalfOpen", !.probes = p] \in Breaker
    BY DEF Breaker
  <2> QED
    BY <1>0, <2>1 DEF Checked
<1>2. grant_probe(k) \in Breaker
  <2>1. (IF k.probes < MaxProbes THEN k.probes + 1 ELSE k.probes) \in 0 .. MaxProbes
    BY ProviderAssumption DEF Breaker
  <2> QED
    BY <2>1 DEF grant_probe, Breaker
<1>3. ASSUME NEW success \in BOOLEAN, NEW n \in 0 .. Len(k.window)
      PROVE  record(k, success, n) \in Breaker
  <2> DEFINE w == Append(SubSeq(k.window, n + 1, Len(k.window)), success)
  <2>0. k.window \in Seq(BOOLEAN)
    BY DEF Breaker
  <2>1. w \in Seq(BOOLEAN)
    BY <2>0
  <2>2. <<>> \in Seq(BOOLEAN)
    OBVIOUS
  <2> HIDE DEF w
  <2>3. /\ [state |-> "Closed", cooled |-> FALSE, probes |-> 0, granted |-> FALSE,
            stale |-> FALSE, window |-> <<>>] \in Breaker
        /\ [state |-> "Open", cooled |-> FALSE, probes |-> 0, granted |-> FALSE,
            stale |-> FALSE, window |-> w] \in Breaker
    BY <1>0, <2>1, <2>2 DEF Breaker
  <2>4. /\ [k EXCEPT !.state = "Open", !.cooled = FALSE, !.window = w] \in Breaker
        /\ [k EXCEPT !.window = w] \in Breaker
    BY <2>1 DEF Breaker
  <2> QED
    BY <2>3, <2>4 DEF record, w
<1> QED
  BY <1>1, <1>2, <1>3

-----------------------------------------------------------------------------
(* Steps.                                                                  *)

Permitted == {"check", "granted", "stream", "answered", "releasing"}

\* A step that leaves the limit alone, gives no permit, takes none and puts
\* nobody to sleep disturbs neither the counts nor the waiters.
LEMMA LimitUntouched ==
    ASSUME TypeOK, Counted, FloorKept, NoForgottenWaiter, UNCHANGED <<config, limit>>,
           \A q \in Requests : pc'[q] \in Permitted <=> pc[q] \in Permitted,
           \A q \in Requests : pc'[q] = "waiting" /\ q \notin woken' =>
                                   pc[q] = "waiting" /\ q \notin woken
    PROVE  Counted' /\ FloorKept' /\ NoForgottenWaiter'
<1>1. Holding' = Holding
  BY DEF Holding, Permitted
<1>2. /\ UNCHANGED <<config, in_flight, auxiliary_in_flight, current_limit>>
      /\ Auxiliary' = Auxiliary /\ MaxConcurrent' = MaxConcurrent /\ Reserved' = Reserved
  BY DEF limit, Auxiliary, MaxConcurrent, Reserved
<1> QED
  BY <1>1, <1>2 DEF Counted, FloorKept, NoForgottenWaiter, Admitted, productive_floor

\* Whoever stays outside the chain has been charged nothing.
LEMMA ChainUntouched ==
    ASSUME TypeOK, Charged, UNCHANGED chain,
           \A q \in Requests : pc'[q] = pc[q] \/ (pc[q] \in Uncharged /\ pc'[q] \in Uncharged)
    PROVE  Charged'
BY DEF Charged, chain, Uncharged, TypeOK

\* A permit that ends takes the request's locals with it.
LEMMA EndUncharged ==
    ASSUME TypeOK, Charged, NEW r \in Requests, EndRequest(r),
           \A q \in Requests \ {r} : pc'[q] = pc[q], pc'[r] \in Uncharged
    PROVE  /\ Charged'
           /\ config' = config => at' \in [Requests -> Backends']
           /\ result' \in [Requests -> Answers \cup {"none", "rejected", "exhausted"}]
           /\ attempts' \in [Requests -> 0 .. NumBackends]
           /\ usage' \in [Requests -> 0 .. NumBackends]
<1>0. NumBackends \in Nat \ {0} /\ (config' = config => Backends' = Backends)
  BY ConfigFacts DEF TypeOK, Backends, NumBackends
<1>1. 1 \in Backends /\ 0 \in 0 .. NumBackends
  BY <1>0 DEF Backends
<1>2. /\ at'[r] = 1 /\ attempts'[r] = 0 /\ usage'[r] = 0
      /\ \A q \in Requests \ {r} : at'[q] = at[q] /\ attempts'[q] = attempts[q] /\ usage'[q] = usage[q]
  BY DEF EndRequest, TypeOK
<1>3. Charged'
  BY <1>2 DEF Charged, Uncharged
<1> QED
  BY <1>0, <1>1, <1>3 DEF EndRequest, TypeOK, Answers

\* Everybody who sleeps is woken.
LEMMA AllWoken ==
    ASSUME TypeOK, NotifyWaiters,
           \A q \in Requests : pc'[q] = "waiting" => pc[q] = "waiting"
    PROVE  NoForgottenWaiter' /\ woken' \subseteq Requests
BY DEF NotifyWaiters, NoForgottenWaiter

LEMMA InitEstablishes == Init => IndInv
<1> SUFFICES ASSUME Init PROVE IndInv
  OBVIOUS
<1>0. config \in Configs
  BY DEF Init
<1>1. <<>> \in Seq(BOOLEAN) /\ 0 \in 0 .. MaxProbes /\ 0 \in 0 .. RecoverySuccesses
  BY ProviderAssumption
<1>2. [state |-> "Closed", cooled |-> FALSE, probes |-> 0, granted |-> FALSE, stale |-> FALSE,
       window |-> <<>>] \in Breaker
  BY <1>1 DEF Breaker
<1>3. TypeOK
  <2>1. 0 \in 0 .. MaxConcurrent /\ 0 \in 0 .. NumBackends /\ 1 \in Backends
    BY <1>0, ConfigFacts DEF Backends
  <2>2. current_limit \in 1 .. MaxConcurrent
    BY <1>0, ConfigFacts DEF Init
  <2> QED
    BY <1>0, <1>1, <1>2, <2>1, <2>2 DEF Init, TypeOK
<1>4. Holding = {} /\ Holding \cap Auxiliary = {}
  BY DEF Init, Holding
<1>5. Counted
  BY <1>0, <1>4, ConfigFacts, FS_EmptySet DEF Init, Counted
<1>6. FloorKept
  BY <1>0, ConfigFacts DEF Init, FloorKept
<1>7. NoForgottenWaiter /\ Charged
  BY DEF Init, NoForgottenWaiter, Charged, Uncharged
<1> QED
  BY <1>3, <1>5, <1>6, <1>7 DEF IndInv

LEMMA StartWakePreserve ==
    ASSUME IndInv, NEW r \in Requests, Start(r) \/ (Wake(r) /\ UNCHANGED config)
    PROVE  IndInv'
<1>0. /\ pc[r] \in {"new", "waiting"} /\ pc' = [pc EXCEPT ![r] = "armed"]
      /\ woken' \subseteq woken /\ (\A q \in Requests \ {r} : q \in woken' <=> q \in woken)
      /\ UNCHANGED <<config, limit, chain, breaker>>
  BY DEF Start, Wake, Goto
<1>1. TypeOK /\ Counted /\ FloorKept /\ NoForgottenWaiter /\ Charged
  BY DEF IndInv
<1>2. pc'[r] = "armed" /\ \A q \in Requests \ {r} : pc'[q] = pc[q]
  BY <1>0, <1>1 DEF TypeOK
<1>3. Counted' /\ FloorKept' /\ NoForgottenWaiter'
  BY <1>0, <1>1, <1>2, LimitUntouched DEF Permitted
<1>4. Charged'
  BY <1>0, <1>1, <1>2, ChainUntouched DEF Uncharged
<1>5. TypeOK'
  BY <1>0, <1>1, <1>2 DEF TypeOK, limit, chain, MaxConcurrent, Backends, NumBackends
<1> QED
  BY <1>3, <1>4, <1>5 DEF IndInv

\* A permit is given: the reserve is respected whatever the limit is at.
LEMMA AcquirePreserves ==
    ASSUME IndInv, NEW r \in Requests, Acquire(r), UNCHANGED config
    PROVE  IndInv'
<1>1. TypeOK /\ Counted /\ FloorKept /\ NoForgottenWaiter /\ Charged
  BY DEF IndInv
<1>2. /\ pc[r] = "armed" /\ UNCHANGED <<success_streak, throttled, chain, breaker>>
      /\ current_limit' = current_limit
  BY <1>1, FloorFacts DEF Acquire, TypeOK, FloorKept
<1>3. /\ MaxConcurrent' = MaxConcurrent /\ Reserved' = Reserved /\ Auxiliary' = Auxiliary
      /\ Backends' = Backends /\ NumBackends' = NumBackends
      /\ productive_floor' = productive_floor
  BY DEF MaxConcurrent, Reserved, Auxiliary, Backends, NumBackends, productive_floor
<1>4. /\ MaxConcurrent \in Nat /\ Reserved \in Nat /\ Auxiliary \subseteq Requests
      /\ NumBackends \in Nat \ {0}
  BY <1>1, ConfigFacts DEF TypeOK
<1>5. FloorKept'
  BY <1>1, <1>2, <1>3 DEF FloorKept
<1>6. CASE Admitted(r, current_limit)
  <2>1. /\ pc' = [pc EXCEPT ![r] = "check"] /\ woken' = woken \ {r}
        /\ in_flight' = in_flight + 1
        /\ auxiliary_in_flight' = auxiliary_in_flight + (IF r \in Auxiliary THEN 1 ELSE 0)
    BY <1>2, <1>6 DEF Acquire, Goto
  <2>2. pc'[r] = "check" /\ \A q \in Requests \ {r} : pc'[q] = pc[q]
    BY <1>1, <2>1 DEF TypeOK
  <2>3. Holding' = Holding \cup {r} /\ r \notin Holding
    BY <1>2, <2>2 DEF Holding
  <2>4. /\ r \in Auxiliary => (Holding \cap Auxiliary)' = (Holding \cap Auxiliary) \cup {r}
        /\ r \notin Auxiliary => (Holding \cap Auxiliary)' = Holding \cap Auxiliary
    BY <1>3, <2>3
  <2>5. /\ Cardinality(Holding') = Cardinality(Holding) + 1
        /\ r \in Auxiliary =>
               Cardinality((Holding \cap Auxiliary)') = Cardinality(Holding \cap Auxiliary) + 1
    BY <2>3, <2>4, CountUp DEF Holding
  <2>6. Counted'
    <3>1. auxiliary_in_flight' <= MaxConcurrent - Reserved
      BY <1>1, <1>4, <1>6, <2>1 DEF Counted, Admitted, TypeOK
    <3>2. CASE r \in Auxiliary
      BY <1>1, <1>3, <2>1, <2>5, <3>1, <3>2 DEF Counted
    <3>3. CASE r \notin Auxiliary
      <4>1. auxiliary_in_flight' = auxiliary_in_flight
        BY <1>1, <2>1, <3>3 DEF TypeOK
      <4> QED
        BY <1>1, <1>3, <2>1, <2>4, <2>5, <3>1, <3>3, <4>1 DEF Counted
    <3> QED
      BY <3>2, <3>3
  <2>7. \A q \in Requests : pc'[q] = "waiting" /\ q \notin woken' =>
            pc[q] = "waiting" /\ q \notin woken
    BY <2>1, <2>2
  <2>8. NoForgottenWaiter'
    BY <1>1, <1>2, <1>3, <1>4, <2>1, <2>7 DEF NoForgottenWaiter, Admitted, TypeOK
  <2>9. Charged'
    BY <1>1, <1>2, <2>2 DEF Charged, Uncharged, chain
  <2>10. TypeOK'
    <3>1. in_flight' \in 0 .. MaxConcurrent' /\ auxiliary_in_flight' \in 0 .. MaxConcurrent'
      BY <1>1, <1>3, <1>4, <1>6, <2>1 DEF Admitted, TypeOK
    <3> QED
      BY <1>1, <1>2, <1>3, <2>1, <3>1 DEF TypeOK, chain
  <2> QED
    BY <1>5, <2>6, <2>8, <2>9, <2>10 DEF IndInv
<1>7. CASE ~Admitted(r, current_limit)
  <2>1. /\ pc' = [pc EXCEPT ![r] = "waiting"]
        /\ UNCHANGED <<woken, in_flight, auxiliary_in_flight>>
    BY <1>2, <1>7 DEF Acquire, Goto
  <2>2. pc'[r] = "waiting" /\ \A q \in Requests \ {r} : pc'[q] = pc[q]
    BY <1>1, <2>1 DEF TypeOK
  <2>3. Holding' = Holding
    BY <1>2, <2>2 DEF Holding
  <2>4. Counted'
    BY <1>1, <1>3, <2>1, <2>3 DEF Counted
  <2>5. NoForgottenWaiter'
    BY <1>1, <1>2, <1>3, <1>7, <2>1, <2>2 DEF NoForgottenWaiter, Admitted
  <2>6. Charged'
    BY <1>1, <1>2, <2>2, ChainUntouched DEF Uncharged
  <2>7. TypeOK'
    BY <1>1, <1>2, <1>3, <2>1 DEF TypeOK, chain
  <2> QED
    BY <1>5, <2>4, <2>5, <2>6, <2>7 DEF IndInv
<1> QED
  BY <1>6, <1>7

\* The limit moves down to the floor and up to the cap, and whoever sleeps
\* hears of it.
LEMMA RecordResultPreserves ==
    ASSUME IndInv, NEW r \in Requests, RecordResult(r), UNCHANGED config
    PROVE  IndInv'
<1>1. TypeOK /\ Counted /\ FloorKept /\ NoForgottenWaiter /\ Charged
  BY DEF IndInv
<1>2. /\ pc[r] = "answered" /\ pc' = [pc EXCEPT ![r] = "releasing"]
      /\ EndRequest(r) /\ UNCHANGED <<in_flight, auxiliary_in_flight, breaker>>
  BY DEF RecordResult, Goto
<1>a. \/ Adapt(result[r]) /\ NotifyWaiters
      \/ UNCHANGED <<woken, current_limit, success_streak, throttled>>
  BY DEF RecordResult
<1>3. /\ MaxConcurrent' = MaxConcurrent /\ Reserved' = Reserved /\ Auxiliary' = Auxiliary
      /\ Backends' = Backends /\ NumBackends' = NumBackends
      /\ productive_floor' = productive_floor
  BY DEF MaxConcurrent, Reserved, Auxiliary, Backends, NumBackends, productive_floor
<1>4. MaxConcurrent \in Nat /\ productive_floor \in Nat
  BY <1>1, ConfigFacts DEF TypeOK
<1>5. pc'[r] = "releasing" /\ \A q \in Requests \ {r} : pc'[q] = pc[q]
  BY <1>1, <1>2 DEF TypeOK
<1>6. Counted'
  <2>1. Holding' = Holding
    BY <1>2, <1>5 DEF Holding
  <2> QED
    BY <1>1, <1>2, <1>3, <2>1 DEF Counted
<1>7. NoForgottenWaiter' /\ woken' \subseteq Requests
  <2>1. CASE NotifyWaiters
    BY <1>1, <1>2, <1>5, <2>1, AllWoken
  <2>2. CASE UNCHANGED <<woken, current_limit>>
    BY <1>1, <1>2, <1>3, <1>5, <2>2 DEF TypeOK, NoForgottenWaiter, Admitted
  <2> QED
    BY <1>a, <2>1, <2>2
<1>8. /\ current_limit' \in 1 .. MaxConcurrent /\ productive_floor <= current_limit'
      /\ success_streak' \in 0 .. RecoverySuccesses /\ throttled' \in BOOLEAN
  <2>0. /\ current_limit \in 1 .. MaxConcurrent /\ productive_floor <= current_limit
        /\ success_streak \in 0 .. RecoverySuccesses /\ throttled \in BOOLEAN
        /\ RecoverySuccesses \in Nat
    BY <1>1, ProviderAssumption DEF TypeOK, FloorKept
  <2>1. CASE Adapt(result[r]) /\ result[r] \in Throttles
    <3>1. /\ current_limit' = AtLeastFloor(current_limit - 1) /\ success_streak' = 0
          /\ throttled' = TRUE
      BY <2>1 DEF Adapt, Throttles
    <3> QED
      BY <1>1, <1>4, <2>0, <3>1, FloorFacts DEF TypeOK
  <2>2. CASE Adapt(result[r]) /\ result[r] \in {"content", "empty"}
    <3> DEFINE enough == success_streak + 1 >= RecoverySuccesses
               grow == enough /\ ~throttled /\ current_limit < MaxConcurrent
    <3>1. /\ current_limit' = current_limit + (IF grow THEN 1 ELSE 0)
          /\ success_streak' = CASE grow -> 0
                                 [] ~grow /\ enough -> RecoverySuccesses
                                 [] OTHER -> success_streak + 1
          /\ UNCHANGED throttled
      BY <2>2 DEF Adapt, Throttles
    <3> QED
      BY <1>4, <2>0, <3>1
  <2>3. CASE Adapt(result[r]) /\ result[r] \notin Throttles \cup {"content", "empty"}
    <3>1. success_streak' = 0 /\ UNCHANGED <<current_limit, throttled>>
      BY <2>3 DEF Adapt
    <3> QED
      BY <2>0, <3>1
  <2>4. CASE UNCHANGED <<current_limit, success_streak, throttled>>
    BY <2>0, <2>4
  <2> QED
    BY <1>a, <2>1, <2>2, <2>3, <2>4
<1>9. FloorKept'
  BY <1>3, <1>8 DEF FloorKept
<1>10. /\ Charged' /\ at' \in [Requests -> Backends']
       /\ result' \in [Requests -> Answers \cup {"none", "rejected", "exhausted"}]
       /\ attempts' \in [Requests -> 0 .. NumBackends]
       /\ usage' \in [Requests -> 0 .. NumBackends]
  BY <1>1, <1>2, <1>5, EndUncharged DEF Uncharged
<1>11. TypeOK'
  BY <1>1, <1>2, <1>3, <1>7, <1>8, <1>10 DEF TypeOK
<1> QED
  BY <1>6, <1>7, <1>9, <1>10, <1>11 DEF IndInv

\* A permit is returned, once.
LEMMA ReleasePreserves ==
    ASSUME IndInv, NEW r \in Requests, Release(r), UNCHANGED config
    PROVE  IndInv'
<1>1. TypeOK /\ Counted /\ FloorKept /\ NoForgottenWaiter /\ Charged
  BY DEF IndInv
<1>2. /\ pc[r] = "releasing" /\ pc' = [pc EXCEPT ![r] = "done"] /\ NotifyWaiters
      /\ in_flight' = in_flight - 1
      /\ auxiliary_in_flight' = auxiliary_in_flight - (IF r \in Auxiliary THEN 1 ELSE 0)
      /\ UNCHANGED <<current_limit, success_streak, throttled, chain, breaker>>
  BY DEF Release, Goto
<1>3. /\ MaxConcurrent' = MaxConcurrent /\ Reserved' = Reserved /\ Auxiliary' = Auxiliary
      /\ Backends' = Backends /\ NumBackends' = NumBackends
      /\ productive_floor' = productive_floor
  BY DEF MaxConcurrent, Reserved, Auxiliary, Backends, NumBackends, productive_floor
<1>4. MaxConcurrent \in Nat /\ Reserved \in Nat
  BY <1>1, ConfigFacts DEF TypeOK
<1>5. pc'[r] = "done" /\ \A q \in Requests \ {r} : pc'[q] = pc[q]
  BY <1>1, <1>2 DEF TypeOK
<1>6. Holding' = Holding \ {r} /\ r \in Holding
  BY <1>2, <1>5 DEF Holding
<1>7. /\ r \in Auxiliary => (Holding \cap Auxiliary)' = (Holding \cap Auxiliary) \ {r}
      /\ r \notin Auxiliary => (Holding \cap Auxiliary)' = Holding \cap Auxiliary
  BY <1>3, <1>6
<1>8. /\ Cardinality(Holding') = Cardinality(Holding) - 1 /\ Cardinality(Holding) >= 1
      /\ r \in Auxiliary =>
             /\ Cardinality((Holding \cap Auxiliary)') = Cardinality(Holding \cap Auxiliary) - 1
             /\ Cardinality(Holding \cap Auxiliary) >= 1
  BY <1>6, <1>7, CountDown DEF Holding
<1>9. Counted'
  <2>1. auxiliary_in_flight' <= MaxConcurrent - Reserved
    BY <1>1, <1>2, <1>4 DEF Counted, TypeOK
  <2>2. CASE r \in Auxiliary
    BY <1>1, <1>2, <1>3, <1>8, <2>1, <2>2 DEF Counted
  <2>3. CASE r \notin Auxiliary
    <3>1. auxiliary_in_flight' = auxiliary_in_flight
      BY <1>1, <1>2, <2>3 DEF TypeOK
    <3> QED
      BY <1>1, <1>2, <1>3, <1>7, <1>8, <2>1, <2>3, <3>1 DEF Counted
  <2> QED
    BY <2>2, <2>3
<1>10. NoForgottenWaiter' /\ woken' \subseteq Requests
  BY <1>1, <1>2, <1>5, AllWoken
<1>11. FloorKept'
  BY <1>1, <1>2, <1>3 DEF FloorKept
<1>12. Charged'
  BY <1>1, <1>2, <1>5, ChainUntouched DEF Uncharged
<1>13. TypeOK'
  <2>1. in_flight' \in 0 .. MaxConcurrent' /\ auxiliary_in_flight' \in 0 .. MaxConcurrent'
    BY <1>1, <1>2, <1>3, <1>4, <1>8 DEF Counted, TypeOK
  <2> QED
    BY <1>1, <1>2, <1>3, <1>10, <2>1 DEF TypeOK, chain
<1> QED
  BY <1>9, <1>10, <1>11, <1>12, <1>13 DEF IndInv

\* A request goes away: before it has a permit, nothing is left of it; after,
\* the permit is still to be returned.
LEMMA CancelPreserves ==
    ASSUME IndInv, NEW r \in Requests, Cancel(r)
    PROVE  IndInv'
<1>1. TypeOK /\ Counted /\ FloorKept /\ NoForgottenWaiter /\ Charged
  BY DEF IndInv
<1>2. /\ pc[r] \in {"armed", "waiting", "stream", "answered"}
      /\ pc' = [pc EXCEPT ![r] = IF pc[r] \in {"stream", "answered"} THEN "releasing" ELSE "done"]
      /\ woken' = woken \ {r} /\ EndRequest(r) /\ UNCHANGED <<config, limit, breaker>>
  BY DEF Cancel, Goto
<1>3. /\ pc'[r] = IF pc[r] \in {"stream", "answered"} THEN "releasing" ELSE "done"
      /\ \A q \in Requests \ {r} : pc'[q] = pc[q]
  BY <1>1, <1>2 DEF TypeOK
<1>4. \A q \in Requests : pc'[q] \in Permitted <=> pc[q] \in Permitted
  BY <1>2, <1>3 DEF Permitted
<1>5. \A q \in Requests : pc'[q] = "waiting" /\ q \notin woken' =>
          pc[q] = "waiting" /\ q \notin woken
  BY <1>2, <1>3
<1>6. Counted' /\ FloorKept' /\ NoForgottenWaiter'
  BY <1>1, <1>2, <1>4, <1>5, LimitUntouched
<1>7. /\ Charged' /\ at' \in [Requests -> Backends']
      /\ result' \in [Requests -> Answers \cup {"none", "rejected", "exhausted"}]
      /\ attempts' \in [Requests -> 0 .. NumBackends]
      /\ usage' \in [Requests -> 0 .. NumBackends]
  BY <1>1, <1>2, <1>3, EndUncharged DEF Uncharged
<1>8. TypeOK'
  BY <1>1, <1>2, <1>7 DEF TypeOK, limit, MaxConcurrent, Backends, NumBackends
<1> QED
  BY <1>6, <1>7, <1>8 DEF IndInv

\* The clocks of the breakers and of the limit.
LEMMA ClockPreserves ==
    ASSUME IndInv, ThrottleCool \/ \E b \in Places : Cool(b) \/ ProbeTimeout(b)
    PROVE  IndInv'
<1>1. TypeOK /\ Counted /\ FloorKept /\ NoForgottenWaiter /\ Charged
  BY DEF IndInv
<1>2. /\ UNCHANGED <<config, pc, woken, in_flight, auxiliary_in_flight, current_limit,
                     success_streak, chain>>
      /\ throttled' \in BOOLEAN
  BY <1>1 DEF ThrottleCool, Cool, ProbeTimeout, TypeOK, limit
<1>3. breaker' \in [Backends -> Breaker]
  <2>1. CASE ThrottleCool
    BY <1>1, <2>1 DEF ThrottleCool, TypeOK
  <2>2. ASSUME NEW b \in Places, Cool(b) PROVE breaker' \in [Backends -> Breaker]
    <3>1. [breaker[b] EXCEPT !.cooled = TRUE] \in Breaker
      BY <1>1, <2>2 DEF Cool, TypeOK, Breaker
    <3> QED
      BY <1>1, <2>2, <3>1 DEF Cool, TypeOK
  <2>3. ASSUME NEW b \in Places, ProbeTimeout(b) PROVE breaker' \in [Backends -> Breaker]
    <3>1. b \in Backends /\ breaker \in [Backends -> Breaker]
      BY <1>1, <2>3 DEF ProbeTimeout, TypeOK
    <3>2. [breaker[b] EXCEPT !.stale = TRUE] \in Breaker
      BY <3>1 DEF Breaker
    <3> QED
      BY <2>3, <3>1, <3>2 DEF ProbeTimeout
  <2> QED
    BY <2>1, <2>2, <2>3
<1>4. /\ MaxConcurrent' = MaxConcurrent /\ Reserved' = Reserved /\ Auxiliary' = Auxiliary
      /\ Backends' = Backends /\ NumBackends' = NumBackends
      /\ productive_floor' = productive_floor /\ Holding' = Holding
  BY <1>2 DEF MaxConcurrent, Reserved, Auxiliary, Backends, NumBackends, productive_floor, Holding
<1>5. TypeOK'
  BY <1>1, <1>2, <1>3, <1>4 DEF TypeOK, chain
<1>6. Counted' /\ FloorKept' /\ NoForgottenWaiter' /\ Charged'
  BY <1>1, <1>2, <1>4 DEF Counted, FloorKept, NoForgottenWaiter, Admitted, Charged, chain
<1> QED
  BY <1>5, <1>6 DEF IndInv

\* The chain goes on to the next backend, which exists, or ends.
LEMMA ChainTypes ==
    ASSUME TypeOK, NEW r \in Requests, UNCHANGED config,
           \/ NextBackend(r) /\ at[r] # NumBackends
           \/ \E x \in Answers \cup {"rejected", "exhausted"} : EndChain(r, x)
    PROVE  /\ at' \in [Requests -> Backends']
           /\ result' \in [Requests -> Answers \cup {"none", "rejected", "exhausted"}]
           /\ pc' \in [Requests -> {"new", "armed", "waiting", "check", "granted", "stream",
                                    "answered", "releasing", "done"}]
           /\ pc'[r] \in {"check", "answered"}
           /\ \A q \in Requests \ {r} : pc'[q] = pc[q] /\ at'[q] = at[q]
           /\ pc'[r] = "check" => at'[r] = at[r] + 1
           /\ pc'[r] = "answered" => at'[r] = at[r]
<1>1. Backends' = Backends /\ Backends = 1 .. NumBackends /\ NumBackends \in Nat \ {0}
  BY ConfigFacts DEF TypeOK, Backends, NumBackends
<1>2. CASE NextBackend(r) /\ at[r] # NumBackends
  <2>1. at[r] + 1 \in Backends
    BY <1>1, <1>2 DEF TypeOK
  <2> QED
    BY <1>1, <1>2, <2>1 DEF NextBackend, Goto, TypeOK
<1>3. CASE \E x \in Answers \cup {"rejected", "exhausted"} : EndChain(r, x)
  BY <1>1, <1>3 DEF EndChain, Goto, TypeOK
<1> QED
  BY <1>2, <1>3

LEMMA CheckPreserves ==
    ASSUME IndInv, NEW r \in Requests, Check(r), UNCHANGED config
    PROVE  IndInv'
<1>1. TypeOK /\ Counted /\ FloorKept /\ NoForgottenWaiter /\ Charged
  BY DEF IndInv
<1>2. pc[r] = "check" /\ UNCHANGED <<woken, limit, attempts, usage>>
  BY DEF Check
<1>3. Backends' = Backends /\ MaxConcurrent' = MaxConcurrent /\ NumBackends' = NumBackends
  BY DEF Backends, MaxConcurrent, NumBackends
<1>4. /\ breaker' \in [Backends -> Breaker]
      /\ \/ pc' = [pc EXCEPT ![r] = "granted"] /\ UNCHANGED <<at, result>>
         \/ NextBackend(r) /\ at[r] # NumBackends
         \/ EndChain(r, "rejected")
  <2> DEFINE b == at[r]
             k == Checked(breaker[b])
  <2>1. b \in Backends /\ breaker[b] \in Breaker
    BY <1>1 DEF TypeOK
  <2>2. k \in Breaker /\ grant_probe(k) \in Breaker
    BY <2>1, BreakerTypes
  <2>3. \/ /\ breaker' = [breaker EXCEPT ![b] = grant_probe(k)]
           /\ Goto(r, "granted")
           /\ UNCHANGED <<at, result>>
        \/ /\ breaker' = [breaker EXCEPT ![b] = k]
           /\ IF b = NumBackends THEN EndChain(r, "rejected") ELSE NextBackend(r)
    BY DEF Check
  <2> HIDE DEF k
  <2> QED
    BY <1>1, <2>2, <2>3 DEF TypeOK, Goto
<1>5. /\ at' \in [Requests -> Backends']
      /\ result' \in [Requests -> Answers \cup {"none", "rejected", "exhausted"}]
      /\ pc' \in [Requests -> {"new", "armed", "waiting", "check", "granted", "stream",
                               "answered", "releasing", "done"}]
      /\ pc'[r] \in {"check", "granted", "answered"}
      /\ \A q \in Requests \ {r} : pc'[q] = pc[q] /\ at'[q] = at[q]
      /\ pc'[r] = "check" => at'[r] = at[r] + 1
      /\ pc'[r] \in {"answered", "granted"} => at'[r] = at[r]
  <2>1. CASE pc' = [pc EXCEPT ![r] = "granted"] /\ UNCHANGED <<at, result>>
    BY <1>1, <1>3, <2>1 DEF TypeOK
  <2>2. CASE (NextBackend(r) /\ at[r] # NumBackends) \/ EndChain(r, "rejected")
    BY <1>1, <2>2, ChainTypes
  <2> QED
    BY <1>4, <2>1, <2>2
<1>6. Counted' /\ FloorKept' /\ NoForgottenWaiter'
  BY <1>1, <1>2, <1>5, LimitUntouched DEF Permitted
<1>7. Charged'
  <2>1. at[r] \in Nat /\ attempts[r] \in Nat
    BY <1>1, ConfigFacts DEF TypeOK, Backends
  <2> QED
    BY <1>1, <1>2, <1>5, <2>1 DEF Charged, Uncharged
<1>8. TypeOK'
  BY <1>1, <1>2, <1>3, <1>4, <1>5 DEF TypeOK, limit
<1> QED
  BY <1>6, <1>7, <1>8 DEF IndInv

\* An attempt is charged when its stream is opened, and its usage is carried
\* along when the stream ends.
LEMMA SendPreserves ==
    ASSUME IndInv, NEW r \in Requests, Send(r), UNCHANGED config
    PROVE  IndInv'
<1>1. TypeOK /\ Counted /\ FloorKept /\ NoForgottenWaiter /\ Charged
  BY DEF IndInv
<1>2. pc[r] = "granted" /\ UNCHANGED <<woken, limit, usage, breaker>>
  BY DEF Send
<1>3. Backends' = Backends /\ MaxConcurrent' = MaxConcurrent /\ NumBackends' = NumBackends
  BY DEF Backends, MaxConcurrent, NumBackends
<1>4. /\ NumBackends \in Nat /\ at[r] \in 1 .. NumBackends /\ attempts[r] \in Nat
      /\ attempts[r] < at[r]
  BY <1>1, <1>2, ConfigFacts DEF TypeOK, Backends, Charged
<1>5. CASE attempts[r] < config.max_attempts[r]
  <2>1. /\ attempts' = [attempts EXCEPT ![r] = attempts[r] + 1]
        /\ pc' = [pc EXCEPT ![r] = "stream"] /\ UNCHANGED <<at, result>>
    BY <1>5 DEF Send, Goto
  <2>2. /\ pc'[r] = "stream" /\ attempts'[r] = attempts[r] + 1
        /\ \A q \in Requests \ {r} : pc'[q] = pc[q] /\ attempts'[q] = attempts[q]
    BY <1>1, <2>1 DEF TypeOK
  <2>3. attempts[r] + 1 \in 0 .. NumBackends
    BY <1>4
  <2>4. TypeOK'
    BY <1>1, <1>2, <1>3, <2>1, <2>3 DEF TypeOK, limit
  <2>5. Counted' /\ FloorKept' /\ NoForgottenWaiter'
    BY <1>1, <1>2, <2>2, LimitUntouched DEF Permitted
  <2>6. usage[r] \in Nat /\ attempts[r] = usage[r]
    BY <1>1, <1>2, <1>4 DEF Charged, TypeOK
  <2>7. Charged'
    BY <1>1, <1>2, <1>4, <2>1, <2>2, <2>6 DEF Charged, Uncharged
  <2> QED
    BY <2>4, <2>5, <2>7 DEF IndInv
<1>6. CASE ~(attempts[r] < config.max_attempts[r])
  <2>1. EndChain(r, "exhausted") /\ UNCHANGED attempts
    BY <1>6 DEF Send
  <2>2. /\ pc' = [pc EXCEPT ![r] = "answered"] /\ UNCHANGED at
        /\ result' = [result EXCEPT ![r] = "exhausted"]
    BY <2>1 DEF EndChain, Goto
  <2>3. pc'[r] = "answered" /\ \A q \in Requests \ {r} : pc'[q] = pc[q]
    BY <1>1, <2>2 DEF TypeOK
  <2>4. TypeOK'
    BY <1>1, <1>2, <1>3, <2>1, <2>2 DEF TypeOK, limit
  <2>5. Counted' /\ FloorKept' /\ NoForgottenWaiter'
    BY <1>1, <1>2, <2>3, LimitUntouched DEF Permitted
  <2>6. Charged'
    BY <1>1, <1>2, <2>1, <2>2, <2>3 DEF Charged, Uncharged
  <2> QED
    BY <2>4, <2>5, <2>6 DEF IndInv
<1> QED
  BY <1>5, <1>6

LEMMA AnswerPreserves ==
    ASSUME IndInv, NEW r \in Requests, NEW a \in Answers, Answer(r, a), UNCHANGED config
    PROVE  IndInv'
<1>1. TypeOK /\ Counted /\ FloorKept /\ NoForgottenWaiter /\ Charged
  BY DEF IndInv
<1>2. /\ pc[r] = "stream" /\ UNCHANGED <<woken, limit, attempts>>
      /\ usage' = [usage EXCEPT ![r] = usage[r] + 1]
      /\ (NextBackend(r) /\ at[r] # NumBackends) \/ EndChain(r, a)
  BY DEF Answer
<1>3. Backends' = Backends /\ MaxConcurrent' = MaxConcurrent /\ NumBackends' = NumBackends
  BY DEF Backends, MaxConcurrent, NumBackends
<1>4. /\ at' \in [Requests -> Backends']
      /\ result' \in [Requests -> Answers \cup {"none", "rejected", "exhausted"}]
      /\ pc' \in [Requests -> {"new", "armed", "waiting", "check", "granted", "stream",
                               "answered", "releasing", "done"}]
      /\ pc'[r] \in {"check", "answered"}
      /\ \A q \in Requests \ {r} : pc'[q] = pc[q] /\ at'[q] = at[q]
      /\ pc'[r] = "check" => at'[r] = at[r] + 1
      /\ pc'[r] = "answered" => at'[r] = at[r]
  BY <1>1, <1>2, ChainTypes
<1>5. breaker' \in [Backends -> Breaker]
  <2>1. at[r] \in Backends /\ breaker[at[r]] \in Breaker
    BY <1>1 DEF TypeOK
  <2>2. PICK n \in 0 .. Len(breaker[at[r]].window) :
            breaker' = [breaker EXCEPT ![at[r]] = record(breaker[at[r]], a \notin AffectsHealth, n)]
    BY DEF Answer
  <2>3. record(breaker[at[r]], a \notin AffectsHealth, n) \in Breaker
    BY <2>1, BreakerTypes
  <2> QED
    BY <1>1, <2>1, <2>2, <2>3 DEF TypeOK
<1>6. /\ NumBackends \in Nat /\ at[r] \in 1 .. NumBackends /\ attempts[r] \in 0 .. NumBackends
      /\ usage[r] \in Nat /\ attempts[r] <= at[r] /\ attempts[r] = usage[r] + 1
  BY <1>1, <1>2, ConfigFacts DEF TypeOK, Backends, Charged
<1>7. /\ usage'[r] = usage[r] + 1 /\ usage' \in [Requests -> 0 .. NumBackends]
      /\ \A q \in Requests \ {r} : usage'[q] = usage[q]
  BY <1>1, <1>2, <1>6 DEF TypeOK
<1>8. Counted' /\ FloorKept' /\ NoForgottenWaiter'
  BY <1>1, <1>2, <1>4, LimitUntouched DEF Permitted
<1>9. Charged'
  BY <1>1, <1>2, <1>4, <1>6, <1>7 DEF Charged, Uncharged
<1>10. TypeOK'
  BY <1>1, <1>2, <1>3, <1>4, <1>5, <1>7 DEF TypeOK, limit
<1> QED
  BY <1>8, <1>9, <1>10 DEF IndInv

-----------------------------------------------------------------------------
(* The theorems.                                                           *)

\* The invariant holds throughout: LimitState counts exactly the permits that
\* exist, the limit stays at or above the productive floor, and what a
\* request is charged is what its result carries.
THEOREM ProviderInvariant == Spec => []IndInv
<1>1. ASSUME IndInv, [Next]_vars PROVE IndInv'
  <2>1. CASE UNCHANGED vars
    BY <1>1, <2>1 DEF IndInv, TypeOK, Counted, FloorKept, NoForgottenWaiter, Charged, Holding,
          Admitted, productive_floor, vars, limit, chain, MaxConcurrent, Reserved, Auxiliary,
          Backends, NumBackends
  <2>2. ASSUME NEW r \in Requests, Start(r) \/ Cancel(r) PROVE IndInv'
    BY <1>1, <2>2, StartWakePreserve, CancelPreserves
  <2>3. ASSUME NEW r \in Requests, Proceed(r) PROVE IndInv'
    BY <1>1, <2>3, AcquirePreserves, StartWakePreserve, RecordResultPreserves,
       ReleasePreserves, CheckPreserves, SendPreserves, AnswerPreserves DEF Proceed
  <2>4. CASE ThrottleCool \/ \E b \in Places : Cool(b) \/ ProbeTimeout(b)
    BY <1>1, <2>4, ClockPreserves
  <2> QED
    BY <1>1, <2>1, <2>2, <2>3, <2>4 DEF Next
<1> QED
  BY <1>1, InitEstablishes, PTL DEF Spec

\* LimitState, the breakers and the requests' executions keep their types:
\* no count goes below zero or beyond the cap, and no request beyond the end
\* of the chain.
THEOREM ProviderTypeOK == Spec => []TypeOK
<1>1. IndInv => TypeOK
  BY DEF IndInv
<1> QED
  BY <1>1, ProviderInvariant, PTL

\* The hard cap and the foreground reserve, for every number of requests,
\* however the adaptive limit moves and whichever request is cancelled where.
THEOREM ProviderSlotsBounded == Spec => []SlotsBounded
<1>1. IndInv => SlotsBounded
  BY DEF IndInv, TypeOK, Counted, SlotsBounded
<1> QED
  BY <1>1, ProviderInvariant, PTL

\* A request that sleeps in acquire without a notification could not be
\* admitted: no release, no change of the limit is missed.
THEOREM ProviderNoForgottenWaiter == Spec => []NoForgottenWaiter
<1>1. IndInv => NoForgottenWaiter
  BY DEF IndInv
<1> QED
  BY <1>1, ProviderInvariant, PTL

\* However a chain ends, its result carries the usage of every attempt that
\* was charged.
THEOREM ProviderUsageCarried == Spec => []UsageCarried
<1>1. IndInv => UsageCarried
  BY DEF IndInv, TypeOK, Charged, UsageCarried
<1> QED
  BY <1>1, ProviderInvariant, PTL
=============================================================================
