--------------------------- MODULE QABudget_proofs ---------------------------
(***************************************************************************)
(* Theorems about QABudget, for every number of threads, clients and days, *)
(* every budget and rate limit, and without a bound on losses.             *)
(***************************************************************************)
EXTENDS QABudget, FiniteSetTheorems, TLAPS

\* The larger of a number and 0, as FiniteSetsExt computes it.
LEMMA MaxWithZero ==
  ASSUME NEW a \in Int
  PROVE  /\ a > 0 => Max({a, 0}) = a
         /\ a <= 0 => Max({a, 0}) = 0
  <1> DEFINE Largest(x) == x \in {a, 0} /\ \A y \in {a, 0} : x >= y
  <1>1. \E x : Largest(x)
    <2>1. CASE a > 0
      <3>1. Largest(a) BY <2>1
      <3>2. QED BY <3>1
    <2>2. CASE ~(a > 0)
      <3>1. Largest(0) BY <2>2
      <3>2. QED BY <3>1
    <2>3. QED BY <2>1, <2>2
  <1>2. Largest(Max({a, 0}))
    BY <1>1 DEF Max
  <1>3. QED BY <1>2

LEMMA RemainingValue ==
  ASSUME NEW d, used[d] \in Nat
  PROVE  /\ Remaining(d) \in 0 .. Budget
         /\ used[d] < Budget => Remaining(d) = Budget - used[d]
         /\ used[d] >= Budget => Remaining(d) = 0
  BY BudgetAssumption, MaxWithZero DEF Remaining

LEMMA RemainingValuePrime ==
  ASSUME NEW d, used'[d] \in Nat
  PROVE  /\ Remaining(d)' \in 0 .. Budget
         /\ used'[d] < Budget => Remaining(d)' = Budget - used'[d]
         /\ used'[d] >= Budget => Remaining(d)' = 0
  BY BudgetAssumption, MaxWithZero DEF Remaining

-----------------------------------------------------------------------------
Flags == connected \in BOOLEAN /\ excused \in BOOLEAN

RequestTypes ==
    /\ pc \in [Requests -> Phases]
    /\ client \in [Requests -> Clients \cup {None}]
    /\ question \in [Requests -> Questions \cup {None}]
    /\ \A r \in Requests : pc[r] # "idle" => client[r] # None /\ question[r] # None
    /\ key \in [Requests -> Nat]
    /\ \A r \in Requests : pc[r] \in {"claim", "call"} => key[r] \in Days
    /\ left \in [Requests -> 0 .. Budget]

RedisTypes ==
    /\ gauge \in 0 .. Budget
    /\ hits \in [Clients -> Nat]
    /\ used \in [Days -> Nat]
    /\ cached \subseteq Questions
    /\ now \in Nat
    /\ day \in Days
    /\ arrivals \in Nat

HistoryTypes ==
    /\ granted \in [Days -> Nat]
    /\ calledOn \in [Days -> Nat]
    /\ admitted \in [Clients -> Nat]
    /\ ceiling \in Nat
    /\ closed \subseteq Days
    /\ drifted \subseteq Days

LEMMA TypeParts == TypeOK <=> Flags /\ RequestTypes /\ RedisTypes /\ HistoryTypes
  BY ZenonT(30) DEF TypeOK, Flags, RequestTypes, RedisTypes, HistoryTypes

LEMMA TypeInit == Init => TypeOK
  <1> SUFFICES ASSUME Init PROVE Flags /\ RequestTypes /\ RedisTypes /\ HistoryTypes
    BY TypeParts
  <1>1. Flags
    BY DEF Init, Flags
  <1>2. RequestTypes
    BY BudgetAssumption DEF Init, RequestTypes, Phases
  <1>3. RedisTypes
    BY BudgetAssumption DEF Init, RedisTypes, Days
  <1>4. HistoryTypes
    BY BudgetAssumption DEF Init, HistoryTypes
  <1>5. QED BY <1>1, <1>2, <1>3, <1>4

\* What Move and Leave do to a well-formed request.
LEMMA MoveTypes ==
  ASSUME RequestTypes, NEW r \in Requests, NEW from \in Phases \ {"idle"},
         NEW to \in Phases \ {"idle"}, Move(r, from, to), NEW k \in Nat,
         key' \in {key, [key EXCEPT ![r] = k]},
         to \in {"claim", "call"} => key'[r] \in Days,
         left' \in [Requests -> 0 .. Budget]
  PROVE  RequestTypes'
  BY DEF RequestTypes, Move, Phases

LEMMA LeaveTypes ==
  ASSUME RequestTypes, NEW r \in Requests, NEW from, Leave(r, from)
  PROVE  RequestTypes'
  BY BudgetAssumption DEF RequestTypes, Leave, Phases

LEMMA FlagsNext == Flags /\ [Next]_vars => Flags'
  <1> SUFFICES ASSUME Flags, [Next]_vars
               PROVE  Flags'
    OBVIOUS
  <1> USE DEF Flags, rateHistory
  <1>1. ASSUME NEW r \in Requests, Ask(r)
        PROVE  Flags'
    <2>1. CASE \E c \in Clients, q \in Questions : Arrive(r, c, q)
      BY <2>1 DEF Arrive
    <2>2. CASE Connect(r) \/ ConnectFails(r)
      BY <2>2 DEF Connect, ConnectFails
    <2>3. CASE CountRate(r) \/ CountRateLate(r) \/ SkipRate(r)
      BY <2>3 DEF CountRate, CountRateLate, SkipRate
    <2>4. CASE ServeCached(r) \/ MissCache(r) \/ Claim(r) \/ ClaimFails(r)
      BY <2>4 DEF ServeCached, MissCache, Claim, ClaimFails
    <2>5. CASE Call(r) \/ Answer(r) \/ ProviderFails(r)
      BY <2>5 DEF Call, Answer, ProviderFails
    <2>6. CASE ReadRemaining(r) \/ ReadFails(r) \/ Reply(r)
      BY <2>6 DEF ReadRemaining, ReadFails, Reply
    <2>7. QED BY <1>1, <2>1, <2>2, <2>3, <2>4, <2>5, <2>6 DEF Ask
  <1>2. CASE Restart
    BY <1>2, Zenon DEF Restart
  <1>3. CASE NextWindow \/ Midnight
    BY <1>3, Zenon DEF NextWindow, Midnight, NewWindow
  <1>4. CASE (\E d \in Days : ExpireBudget(d)) \/ (\E q \in Questions : ExpireAnswer(q))
    BY <1>4 DEF ExpireBudget, ExpireAnswer
  <1>5. CASE RedisRestored
    BY <1>5, Zenon DEF RedisRestored
  <1>6. CASE UNCHANGED vars
    BY <1>6 DEF vars
  <1>7. QED BY <1>1, <1>2, <1>3, <1>4, <1>5, <1>6 DEF Next, Environment

LEMMA RequestTypesNext == TypeOK /\ [Next]_vars => RequestTypes'
  <1> SUFFICES ASSUME TypeOK, [Next]_vars
               PROVE  RequestTypes'
    OBVIOUS
  <1>0. RequestTypes /\ RedisTypes /\ HistoryTypes
    BY TypeParts
  <1> DEFINE Quiet == UNCHANGED <<key, left>>
  <1>1. ASSUME NEW r \in Requests, NEW c \in Clients, NEW q \in Questions, Arrive(r, c, q)
        PROVE  RequestTypes'
    BY <1>0, <1>1, BudgetAssumption DEF Arrive, RequestTypes, RedisTypes, Phases
  <1>2. ASSUME NEW r \in Requests,
               \/ ConnectFails(r) \/ ProviderFails(r) \/ ReadFails(r) \/ Reply(r)
        PROVE  RequestTypes'
    BY <1>0, <1>2, LeaveTypes DEF ConnectFails, ProviderFails, ReadFails, Reply
  <1>3. ASSUME NEW r \in Requests, NEW from \in Phases \ {"idle"},
               NEW to \in Phases \ {"idle", "claim", "call"}, Move(r, from, to), Quiet
        PROVE  RequestTypes'
    BY <1>0, <1>3 DEF RequestTypes, Move, Phases
  <1>4. ASSUME NEW r \in Requests, Connect(r)
        PROVE  RequestTypes'
    BY <1>0, <1>4 DEF Connect, Move, RequestTypes, RedisTypes, Phases
  <1>5. ASSUME NEW r \in Requests, CountRate(r) \/ CountRateLate(r) \/ SkipRate(r)
        PROVE  RequestTypes'
    <2>1. (Move(r, "rate", "cache") /\ Quiet) \/ Leave(r, "rate")
      BY <1>5 DEF CountRate, CountRateLate, SkipRate
    <2>2. QED BY <1>0, <1>3, <2>1, LeaveTypes DEF Phases
  <1>6. ASSUME NEW r \in Requests, ServeCached(r) \/ Call(r) \/ Answer(r)
        PROVE  RequestTypes'
    <2>1. \/ Move(r, "cache", "header") /\ Quiet
          \/ Move(r, "call", "answer") /\ Quiet
          \/ Move(r, "answer", "header") /\ Quiet
      BY <1>6 DEF ServeCached, Call, Answer
    <2>2. QED BY <1>3, <2>1 DEF Phases
  <1>7. ASSUME NEW r \in Requests, MissCache(r)
        PROVE  RequestTypes'
    BY <1>0, <1>7 DEF MissCache, Move, RequestTypes, RedisTypes, Phases, Days
  <1>8. ASSUME NEW r \in Requests, Claim(r) \/ ClaimFails(r)
        PROVE  RequestTypes'
    <2>1. CASE Move(r, "claim", "header")
      BY <1>3, <1>8, <2>1 DEF Claim, ClaimFails, Phases
    <2>2. CASE Move(r, "claim", "call")
      BY <1>0, <1>8, <2>2 DEF Claim, ClaimFails, Move, RequestTypes, Phases
    <2>3. QED BY <1>8, <2>1, <2>2 DEF Claim, ClaimFails, Allow, Uncounted
  <1>9. ASSUME NEW r \in Requests, ReadRemaining(r)
        PROVE  RequestTypes'
    <2>1. PICK d \in Days : left' = [left EXCEPT ![r] = Remaining(d)]
      BY <1>9 DEF ReadRemaining
    <2>2. Remaining(d) \in 0 .. Budget
      BY <1>0, RemainingValue DEF RedisTypes
    <2>3. left' \in [Requests -> 0 .. Budget]
      BY <1>0, <2>1, <2>2 DEF RequestTypes
    <2>4. QED BY <1>0, <1>9, <2>3 DEF ReadRemaining, Move, RequestTypes, Phases
  <1>10. CASE Restart
    BY <1>10, BudgetAssumption DEF Restart, RequestTypes, Phases
  <1>11. CASE UNCHANGED requestVars
    BY <1>0, <1>11 DEF requestVars, RequestTypes
  <1>12. ASSUME \/ NextWindow \/ Midnight \/ RedisRestored \/ UNCHANGED vars
                \/ \E d \in Days : ExpireBudget(d)
                \/ \E q \in Questions : ExpireAnswer(q)
         PROVE  UNCHANGED requestVars
    BY <1>12 DEF NextWindow, Midnight, NewWindow, RedisRestored, ExpireBudget, ExpireAnswer, vars
  <1>13. QED
    BY <1>1, <1>2, <1>4, <1>5, <1>6, <1>7, <1>8, <1>9, <1>10, <1>11, <1>12
       DEF Next, Ask, Environment

LEMMA RedisTypesNext == TypeOK /\ [Next]_vars => RedisTypes'
  <1> SUFFICES ASSUME TypeOK, [Next]_vars
               PROVE  RedisTypes'
    OBVIOUS
  <1>0. RequestTypes /\ RedisTypes /\ HistoryTypes
    BY TypeParts
  <1> USE DEF redisVars, timeVars
  <1>1. ASSUME NEW r \in Requests, Ask(r)
        PROVE  RedisTypes'
    <2>1. CASE \E c \in Clients, q \in Questions : Arrive(r, c, q)
      BY <1>0, <2>1 DEF Arrive, RedisTypes
    <2>2. CASE Connect(r) \/ ConnectFails(r) \/ CountRateLate(r) \/ ServeCached(r) \/ MissCache(r)
      BY <1>0, <2>2 DEF Connect, ConnectFails, CountRateLate, ServeCached, MissCache, RedisTypes
    <2>3. CASE Call(r) \/ ProviderFails(r) \/ ReadRemaining(r) \/ ReadFails(r)
      BY <1>0, <2>3 DEF Call, ProviderFails, ReadRemaining, ReadFails, RedisTypes
    <2>4. CASE CountRate(r) \/ SkipRate(r)
      BY <1>0, <2>4 DEF CountRate, SkipRate, RedisTypes
    <2>5. CASE Claim(r) \/ ClaimFails(r)
      BY <1>0, <2>5 DEF Claim, ClaimFails, RedisTypes
    <2>6. CASE Answer(r)
      <3>1. question[r] \in Questions
        BY <1>0, <2>6 DEF Answer, Move, RequestTypes
      <3>2. QED BY <1>0, <2>6, <3>1 DEF Answer, RedisTypes
    <2>7. CASE Reply(r)
      BY <1>0, <2>7 DEF Reply, RequestTypes, RedisTypes
    <2>8. QED BY <1>1, <2>1, <2>2, <2>3, <2>4, <2>5, <2>6, <2>7 DEF Ask
  <1>2. CASE Restart
    <2>1. Remaining(day) \in 0 .. Budget
      BY <1>0, RemainingValue DEF RedisTypes
    <2>2. QED BY <1>0, <1>2, <2>1, BudgetAssumption DEF Restart, RedisTypes
  <1>3. CASE NextWindow \/ Midnight
    BY <1>0, <1>3, BudgetAssumption DEF NextWindow, Midnight, NewWindow, RedisTypes, Days
  <1>4. ASSUME NEW d \in Days, ExpireBudget(d)
        PROVE  RedisTypes'
    BY <1>0, <1>4 DEF ExpireBudget, RedisTypes
  <1>5. ASSUME NEW q \in Questions, ExpireAnswer(q)
        PROVE  RedisTypes'
    BY <1>0, <1>5 DEF ExpireAnswer, RedisTypes
  <1>6. CASE RedisRestored
    <2>1. used' \in [Days -> Nat] /\ hits' \in [Clients -> Nat]
      BY <1>6, BudgetAssumption DEF RedisRestored
    <2>2. QED BY <1>0, <1>6, <2>1 DEF RedisRestored, RedisTypes
  <1>7. CASE UNCHANGED vars
    BY <1>0, <1>7 DEF vars, RedisTypes
  <1>8. QED BY <1>1, <1>2, <1>3, <1>4, <1>5, <1>6, <1>7 DEF Next, Environment

LEMMA HistoryTypesNext == TypeOK /\ [Next]_vars => HistoryTypes'
  <1> SUFFICES ASSUME TypeOK, [Next]_vars
               PROVE  HistoryTypes'
    OBVIOUS
  <1>0. RequestTypes /\ RedisTypes /\ HistoryTypes
    BY TypeParts
  <1> USE DEF rateHistory, budgetHistory
  <1>1. ASSUME NEW r \in Requests, Ask(r)
        PROVE  HistoryTypes'
    <2>1. CASE \E c \in Clients, q \in Questions : Arrive(r, c, q)
      BY <1>0, <2>1 DEF Arrive, HistoryTypes
    <2>2. CASE Connect(r) \/ ConnectFails(r) \/ CountRateLate(r) \/ ServeCached(r) \/ MissCache(r)
      BY <1>0, <2>2 DEF Connect, ConnectFails, CountRateLate, ServeCached, MissCache, HistoryTypes
    <2>3. CASE Answer(r) \/ ProviderFails(r) \/ ReadFails(r) \/ Reply(r) \/ SkipRate(r)
      BY <1>0, <2>3 DEF Answer, ProviderFails, ReadFails, Reply, SkipRate, HistoryTypes
    <2>4. CASE CountRate(r) \/ Call(r)
      BY <1>0, <2>4 DEF CountRate, Call, RedisTypes, HistoryTypes
    <2>5. CASE Claim(r) \/ ClaimFails(r)
      <3>1. key[r] \in Days
        BY <1>0, <2>5 DEF Claim, ClaimFails, RequestTypes
      <3>2. QED BY <1>0, <2>5, <3>1 DEF Claim, ClaimFails, Allow, Uncounted, HistoryTypes
    <2>6. CASE ReadRemaining(r)
      BY <1>0, <2>6 DEF ReadRemaining, HistoryTypes
    <2>7. QED BY <1>1, <2>1, <2>2, <2>3, <2>4, <2>5, <2>6 DEF Ask
  <1>2. CASE Restart
    BY <1>0, <1>2 DEF Restart, HistoryTypes
  <1>3. CASE NextWindow \/ Midnight
    BY <1>0, <1>3 DEF NextWindow, Midnight, NewWindow, HistoryTypes
  <1>4. CASE (\E d \in Days : ExpireBudget(d)) \/ (\E q \in Questions : ExpireAnswer(q))
    BY <1>0, <1>4 DEF ExpireBudget, ExpireAnswer, HistoryTypes
  <1>5. CASE RedisRestored
    BY <1>0, <1>5, BudgetAssumption DEF RedisRestored, HistoryTypes
  <1>6. CASE UNCHANGED vars
    BY <1>0, <1>6 DEF vars, HistoryTypes
  <1>7. QED BY <1>1, <1>2, <1>3, <1>4, <1>5, <1>6 DEF Next, Environment

LEMMA TypeNext == TypeOK /\ [Next]_vars => TypeOK'
  <1> SUFFICES ASSUME TypeOK, [Next]_vars
               PROVE  (Flags /\ RequestTypes /\ RedisTypes /\ HistoryTypes)'
    BY TypeParts, PTL
  <1>1. QED BY TypeParts, FlagsNext, RequestTypesNext, RedisTypesNext, HistoryTypesNext

\* Every variable of the request path and of its counters keeps its type, and no request
\* on its way is without client or question (app/api/qa.py, app/search/budget.py).
THEOREM TypeCorrect == Spec => []TypeOK
  BY TypeInit, TypeNext, PTL DEF Spec

-----------------------------------------------------------------------------
budgetVars == <<used, day, granted, ceiling, closed, drifted>>

\* The steps that concern the budget.
LEMMA BudgetSteps ==
  ASSUME [Next]_vars
  PROVE  \/ UNCHANGED budgetVars
         \/ \E r \in Requests : Claim(r) \/ ClaimFails(r) \/ ReadRemaining(r)
         \/ Midnight
         \/ \E d \in Days : ExpireBudget(d)
         \/ RedisRestored
  <1> USE DEF budgetVars, redisVars, timeVars, budgetHistory
  <1>1. ASSUME NEW r \in Requests, Ask(r)
        PROVE  UNCHANGED budgetVars \/ Claim(r) \/ ClaimFails(r) \/ ReadRemaining(r)
    <2>1. CASE \E c \in Clients, q \in Questions : Arrive(r, c, q)
      BY <2>1 DEF Arrive
    <2>2. CASE Connect(r) \/ ConnectFails(r) \/ CountRate(r) \/ CountRateLate(r) \/ SkipRate(r)
      BY <2>2 DEF Connect, ConnectFails, CountRate, CountRateLate, SkipRate
    <2>3. CASE ServeCached(r) \/ MissCache(r) \/ Call(r) \/ Answer(r)
      BY <2>3 DEF ServeCached, MissCache, Call, Answer
    <2>4. CASE ProviderFails(r) \/ ReadFails(r) \/ Reply(r)
      BY <2>4 DEF ProviderFails, ReadFails, Reply
    <2>5. QED BY <1>1, <2>1, <2>2, <2>3, <2>4 DEF Ask
  <1>2. CASE Restart \/ NextWindow \/ \E q \in Questions : ExpireAnswer(q)
    BY <1>2 DEF Restart, NextWindow, NewWindow, ExpireAnswer
  <1>3. CASE UNCHANGED vars
    BY <1>3 DEF vars
  <1>4. QED BY <1>1, <1>2, <1>3 DEF Next, Environment

\* A key is counted on the day it is read or on the next, before its counter expires.
ClaimsAreRecent ==
    \A r \in Requests : pc[r] = "claim" => ~BudgetExpired(key[r])

LEMMA RecentNext == TypeOK /\ ClaimsAreRecent /\ [Next]_vars => ClaimsAreRecent'
  <1> SUFFICES ASSUME TypeOK, ClaimsAreRecent, [Next]_vars
               PROVE  ClaimsAreRecent'
    OBVIOUS
  <1>0. RequestTypes /\ day \in Nat
    BY TypeParts DEF RedisTypes, Days
  <1> USE DEF ClaimsAreRecent, BudgetExpired, timeVars
  <1>1. ASSUME NEW r \in Requests, Ask(r)
        PROVE  ClaimsAreRecent'
    <2>1. /\ \A s \in Requests : s # r => pc'[s] = pc[s] /\ key'[s] = key[s]
          /\ pc'[r] = "claim" => MissCache(r)
      <3> USE <1>0 DEF RequestTypes, Move, Leave
      <3>1. CASE \E c \in Clients, q \in Questions : Arrive(r, c, q)
        BY <3>1 DEF Arrive
      <3>2. CASE Connect(r) \/ ConnectFails(r) \/ CountRate(r) \/ CountRateLate(r) \/ SkipRate(r)
        BY <3>2 DEF Connect, ConnectFails, CountRate, CountRateLate, SkipRate
      <3>3. CASE ServeCached(r) \/ MissCache(r) \/ Claim(r) \/ ClaimFails(r)
        BY <3>3 DEF ServeCached, MissCache, Claim, ClaimFails, Allow, Uncounted
      <3>4. CASE Call(r) \/ Answer(r) \/ ProviderFails(r)
        BY <3>4 DEF Call, Answer, ProviderFails
      <3>5. CASE ReadRemaining(r) \/ ReadFails(r) \/ Reply(r)
        BY <3>5 DEF ReadRemaining, ReadFails, Reply
      <3>6. QED BY <1>1, <3>1, <3>2, <3>3, <3>4, <3>5 DEF Ask
    <2>2. day' = day
      BY <1>1 DEF Ask, Arrive, Connect, ConnectFails, CountRate, CountRateLate, SkipRate,
         ServeCached, MissCache, Claim, ClaimFails, Call, Answer, ProviderFails,
         ReadRemaining, ReadFails, Reply
    <2>3. MissCache(r) => key'[r] = day
      BY <1>0 DEF MissCache, RequestTypes
    <2>4. QED BY <1>0, <2>1, <2>2, <2>3
  <1>2. CASE Restart
    BY <1>2 DEF Restart
  <1>3. CASE Midnight
    BY <1>0, <1>3 DEF Midnight, NewWindow, requestVars
  <1>4. CASE \/ NextWindow \/ RedisRestored \/ UNCHANGED vars
             \/ \E d \in Days : ExpireBudget(d)
             \/ \E q \in Questions : ExpireAnswer(q)
    BY <1>4 DEF NextWindow, NewWindow, RedisRestored, ExpireBudget, ExpireAnswer, vars, requestVars
  <1>5. QED BY <1>1, <1>2, <1>3, <1>4 DEF Next, Environment

-----------------------------------------------------------------------------
\* What has been allowed under a day's key and what its counter leaves stay within the
\* ceiling, and are the budget exactly while the counter has not drifted.
BudgetInv ==
    /\ ClaimsAreRecent
    /\ \A d \in Days : granted[d] <= ceiling
    /\ RemainingIsSafe
    /\ \A d \in closed : ~BudgetExpired(d) => used[d] >= Budget
    /\ \A d \in Days \ drifted : ~BudgetExpired(d) => granted[d] + Remaining(d) = Budget
    /\ RefusedOnlyWhenSpent

LEMMA BudgetInit == Init => BudgetInv
  <1> SUFFICES ASSUME Init PROVE BudgetInv
    OBVIOUS
  <1>1. \A d \in Days : used[d] = 0 /\ granted[d] = 0
    BY DEF Init
  <1>2. \A d \in Days : Remaining(d) = Budget
    BY <1>1, RemainingValue, BudgetAssumption
  <1>3. closed = {} /\ ceiling = Budget /\ \A r \in Requests : pc[r] = "idle"
    BY DEF Init
  <1>4. QED
    BY <1>1, <1>2, <1>3, BudgetAssumption
       DEF BudgetInv, ClaimsAreRecent, RemainingIsSafe, RefusedOnlyWhenSpent

LEMMA BudgetNext == TypeOK /\ BudgetInv /\ [Next]_vars => BudgetInv'
  <1> SUFFICES ASSUME TypeOK, BudgetInv, [Next]_vars
               PROVE  BudgetInv'
    OBVIOUS
  <1>1. RequestTypes /\ RedisTypes /\ HistoryTypes /\ RedisTypes' /\ HistoryTypes'
    BY TypeParts, RedisTypesNext, HistoryTypesNext
  <1>2. /\ used \in [Days -> Nat] /\ used' \in [Days -> Nat]
        /\ granted \in [Days -> Nat] /\ granted' \in [Days -> Nat]
        /\ closed \subseteq Days /\ closed' \subseteq Days
        /\ ceiling \in Nat /\ day \in Nat /\ Days \subseteq Nat
        /\ Budget \in Nat \ {0}
    <2>1. used \in [Days -> Nat] /\ day \in Days
      BY <1>1 DEF RedisTypes
    <2>2. used' \in [Days -> Nat]
      BY <1>1 DEF RedisTypes
    <2>3. granted \in [Days -> Nat] /\ closed \subseteq Days /\ ceiling \in Nat
      BY <1>1 DEF HistoryTypes
    <2>4. granted' \in [Days -> Nat] /\ closed' \subseteq Days
      BY <1>1 DEF HistoryTypes
    <2>5. Days \subseteq Nat
      BY BudgetAssumption DEF Days
    <2>6. QED BY <2>1, <2>2, <2>3, <2>4, <2>5, BudgetAssumption
  <1>3. \A d \in Days : /\ Remaining(d) \in 0 .. Budget
                        /\ used[d] < Budget => Remaining(d) = Budget - used[d]
                        /\ used[d] >= Budget => Remaining(d) = 0
    BY <1>2, RemainingValue
  <1>4. \A d \in Days : /\ Remaining(d)' \in 0 .. Budget
                        /\ used'[d] < Budget => Remaining(d)' = Budget - used'[d]
                        /\ used'[d] >= Budget => Remaining(d)' = 0
    BY <1>2, RemainingValuePrime
  <1>5. ClaimsAreRecent'
    BY RecentNext DEF BudgetInv
  <1> DEFINE Rest ==
        /\ \A d \in Days : granted[d] <= ceiling
        /\ RemainingIsSafe
        /\ \A d \in closed : ~BudgetExpired(d) => used[d] >= Budget
        /\ \A d \in Days \ drifted : ~BudgetExpired(d) => granted[d] + Remaining(d) = Budget
        /\ RefusedOnlyWhenSpent
  <1> SUFFICES Rest'
    BY <1>5 DEF BudgetInv
  <1>6. Rest
    BY DEF BudgetInv
  <1>7. CASE UNCHANGED budgetVars
    BY <1>6, <1>7 DEF budgetVars, RemainingIsSafe, RefusedOnlyWhenSpent, BudgetExpired, Remaining
  <1>8. ASSUME NEW r \in Requests, Claim(r)
        PROVE  Rest'
    <2>0. PICK k \in Days : k = key[r]
      BY <1>1, <1>8 DEF Claim, RequestTypes
    <2>1. ~BudgetExpired(k)
      BY <1>8, <2>0 DEF Claim, BudgetInv, ClaimsAreRecent
    <2>2. /\ used' = [used EXCEPT ![k] = @ + 1]
          /\ UNCHANGED <<day, ceiling, drifted>>
          /\ \/ /\ used[k] + 1 <= Budget
                /\ granted' = [granted EXCEPT ![k] = @ + 1]
                /\ UNCHANGED closed
             \/ /\ used[k] + 1 > Budget
                /\ closed' = closed \cup {k}
                /\ UNCHANGED granted
      BY <1>2, <1>8, <2>0 DEF Claim, Allow, WithinLimit, timeVars
    <2>3. k \notin drifted => granted[k] + Remaining(k) = Budget
      BY <1>6, <2>1
    <2>4. granted[k] + Remaining(k) <= ceiling
      BY <1>6, <2>1 DEF RemainingIsSafe
    <2>5. k \in closed => used[k] >= Budget
      BY <1>6, <2>1
    <2>6. \A d \in Days : d # k => Remaining(d)' = Remaining(d) /\ granted'[d] = granted[d]
      BY <1>2, <2>2 DEF Remaining
    <2>7. granted'[k] + Remaining(k)' = granted[k] + Remaining(k)
      BY <1>2, <1>3, <1>4, <2>1, <2>2
    <2>8. granted'[k] <= ceiling
      BY <1>2, <1>4, <2>1, <2>4, <2>7
    <2>9. \A d \in closed' : ~BudgetExpired(d)' => used'[d] >= Budget
      BY <1>2, <1>6, <2>1, <2>2, <2>5 DEF BudgetExpired
    <2>10. RefusedOnlyWhenSpent'
      BY <1>2, <1>3, <1>4, <1>6, <2>1, <2>2, <2>3, <2>5, <2>6, <2>7 DEF RefusedOnlyWhenSpent
    <2>11. QED
      BY <1>2, <1>6, <2>1, <2>2, <2>3, <2>4, <2>6, <2>7, <2>8, <2>9, <2>10
         DEF RemainingIsSafe, BudgetExpired
  <1>9. ASSUME NEW r \in Requests, ClaimFails(r)
        PROVE  Rest'
    <2>1. PICK k \in Days : k = key[r]
      BY <1>1, <1>9 DEF ClaimFails, RequestTypes
    <2>2. /\ UNCHANGED <<day, granted, ceiling, closed>>
          /\ \/ UNCHANGED <<used, drifted>>
             \/ /\ used' = [used EXCEPT ![k] = @ + 1]
                /\ drifted' = drifted \cup {k}
      BY <1>9, <2>1 DEF ClaimFails, Uncounted, timeVars
    <2>3. \A d \in Days : /\ used'[d] >= used[d]
                          /\ Remaining(d)' <= Remaining(d)
      BY <1>2, <1>3, <1>4, <2>1, <2>2
    <2>4. \A d \in Days \ drifted' : used'[d] = used[d] /\ d \notin drifted
      BY <1>2, <2>1, <2>2
    <2>5. \A d \in Days \ drifted' : Remaining(d)' = Remaining(d)
      BY <2>4 DEF Remaining
    <2>6. RemainingIsSafe'
      BY <1>2, <1>3, <1>4, <1>6, <2>2, <2>3 DEF RemainingIsSafe, BudgetExpired
    <2>7. RefusedOnlyWhenSpent'
      BY <1>2, <1>6, <2>2, <2>4 DEF RefusedOnlyWhenSpent
    <2>8. QED
      BY <1>2, <1>6, <2>2, <2>3, <2>4, <2>5, <2>6, <2>7 DEF BudgetExpired
  <1>10. ASSUME NEW r \in Requests, ReadRemaining(r)
         PROVE  Rest'
    <2>1. PICK k \in Days \cap {day - 1, day} :
            closed' = IF Remaining(k) = 0 THEN closed \cup {k} ELSE closed
      BY <1>10 DEF ReadRemaining
    <2>2. UNCHANGED <<used, day, granted, ceiling, drifted>>
      BY <1>10 DEF ReadRemaining, redisVars, timeVars
    <2>3. ~BudgetExpired(k)
      BY <1>2, <2>1 DEF BudgetExpired
    <2>4. Remaining(k) = 0 => used[k] >= Budget /\ (k \notin drifted => granted[k] = Budget)
      BY <1>2, <1>3, <1>6, <2>1, <2>3
    <2>5. \A d \in Days : Remaining(d)' = Remaining(d) /\ (BudgetExpired(d)' <=> BudgetExpired(d))
      BY <2>2 DEF Remaining, BudgetExpired
    <2>6. QED
      BY <1>2, <1>6, <2>1, <2>2, <2>4, <2>5 DEF RemainingIsSafe, RefusedOnlyWhenSpent
  <1>11. CASE Midnight
    <2>1. UNCHANGED <<used, granted, ceiling, closed, drifted>> /\ day' = day + 1
      BY <1>11 DEF Midnight, NewWindow, budgetHistory
    <2>2. \A d \in Days : /\ Remaining(d)' = Remaining(d)
                          /\ BudgetExpired(d) => BudgetExpired(d)'
      BY <1>2, <2>1 DEF Remaining, BudgetExpired
    <2>3. QED
      BY <1>2, <1>6, <2>1, <2>2 DEF RemainingIsSafe, RefusedOnlyWhenSpent
  <1>12. ASSUME NEW k \in Days, ExpireBudget(k)
         PROVE  Rest'
    <2>1. /\ BudgetExpired(k) /\ used' = [used EXCEPT ![k] = 0]
          /\ UNCHANGED <<day, granted, ceiling, closed, drifted>>
      BY <1>12 DEF ExpireBudget, timeVars, budgetHistory
    <2>2. \A d \in Days : /\ BudgetExpired(d)' <=> BudgetExpired(d)
                          /\ ~BudgetExpired(d) => used'[d] = used[d] /\ Remaining(d)' = Remaining(d)
      BY <1>2, <2>1 DEF Remaining, BudgetExpired
    <2>3. QED
      BY <1>2, <1>6, <2>1, <2>2 DEF RemainingIsSafe, RefusedOnlyWhenSpent
  <1>13. CASE RedisRestored
    <2>1. ceiling' = ceiling + Budget /\ closed' = {} /\ drifted' = Days /\ UNCHANGED granted
      BY <1>13 DEF RedisRestored
    <2>2. \A d \in Days : granted'[d] <= ceiling' /\ granted'[d] + Remaining(d)' <= ceiling'
      BY <1>2, <1>4, <1>6, <2>1
    <2>3. QED
      BY <2>1, <2>2 DEF RemainingIsSafe, RefusedOnlyWhenSpent
  <1>14. QED
    BY BudgetSteps, <1>7, <1>8, <1>9, <1>10, <1>11, <1>12, <1>13

LEMMA BudgetAlways == Spec => []BudgetInv
  BY BudgetInit, BudgetNext, TypeCorrect, PTL DEF Spec

\* The remaining budget a caller is shown is never too high, whatever lost replies, late
\* claims, losses of the counters and requests in flight there are (budget_remaining).
THEOREM RemainingNeverOverstated == Spec => []RemainingIsSafe
  <1>1. BudgetInv => RemainingIsSafe
    BY DEF BudgetInv
  <1>2. QED BY <1>1, BudgetAlways, PTL

\* Nobody is told that nothing is left of a day before the whole budget was allowed
\* (consume_budget; a cached answer costs nothing).
THEOREM RefusedWhenSpent == Spec => []RefusedOnlyWhenSpent
  <1>1. BudgetInv => RefusedOnlyWhenSpent
    BY DEF BudgetInv
  <1>2. QED BY <1>1, BudgetAlways, PTL

\* The request path implements SpendLimit: a claim that is allowed is a grant, a refusal
\* or a 0 in the header closes the day, and only the loss of the counters raises the
\* ceiling (consume_budget, budget_remaining and the expiry of the counters).
THEOREM SpendLimited == Spec => SpendIsLimited
  <1>1. Init => DailyLimit!Init
    BY DEF Init, DailyLimit!Init
  <1>2. TypeOK /\ BudgetInv /\ [Next]_vars => [DailyLimit!Next]_DailyLimit!limitVars
    <2> SUFFICES ASSUME TypeOK, BudgetInv, [Next]_vars
                 PROVE  DailyLimit!Next \/ UNCHANGED <<granted, ceiling, closed>>
      BY DEF DailyLimit!limitVars
    <2>1. RequestTypes /\ RedisTypes /\ HistoryTypes
      BY TypeParts
    <2>2. CASE UNCHANGED budgetVars
      BY <2>2 DEF budgetVars
    <2>3. ASSUME NEW r \in Requests, Claim(r)
          PROVE  DailyLimit!Next
      <3>1. PICK k \in Days : k = key[r]
        BY <2>1, <2>3 DEF Claim, RequestTypes
      <3>2. CASE ~WithinLimit(used[k] + 1, Budget)
        BY <2>3, <3>1, <3>2 DEF Claim, DailyLimit!Next, DailyLimit!Close
      <3>3. CASE WithinLimit(used[k] + 1, Budget)
        <4>1. ~BudgetExpired(k) /\ used[k] \in Nat /\ granted[k] \in Nat /\ ceiling \in Nat
          BY <2>1, <2>3, <3>1 DEF Claim, BudgetInv, ClaimsAreRecent, RedisTypes, HistoryTypes
        <4>2. used[k] < Budget /\ Budget \in Nat
          BY <3>3, <4>1, BudgetAssumption DEF WithinLimit
        <4>3. k \notin closed
          BY <4>1, <4>2 DEF BudgetInv
        <4>4. granted[k] < ceiling
          <5>1. granted[k] + Remaining(k) <= ceiling
            BY <4>1 DEF BudgetInv, RemainingIsSafe
          <5>2. Remaining(k) = Budget - used[k]
            BY <4>1, <4>2, RemainingValue
          <5>3. QED BY <4>1, <4>2, <5>1, <5>2
        <4>5. granted' = [granted EXCEPT ![k] = @ + 1] /\ UNCHANGED <<ceiling, closed>>
          BY <2>3, <3>1, <3>3 DEF Claim, Allow
        <4>6. DailyLimit!Grant(k)
          BY <4>3, <4>4, <4>5 DEF DailyLimit!Grant
        <4>7. QED BY <4>6 DEF DailyLimit!Next
      <3>4. QED BY <3>2, <3>3
    <2>4. ASSUME NEW r \in Requests, ClaimFails(r)
          PROVE  UNCHANGED <<granted, ceiling, closed>>
      BY <2>4 DEF ClaimFails, Uncounted
    <2>5. ASSUME NEW r \in Requests, ReadRemaining(r)
          PROVE  DailyLimit!Next \/ UNCHANGED <<granted, ceiling, closed>>
      BY <2>5 DEF ReadRemaining, DailyLimit!Next, DailyLimit!Close
    <2>6. CASE Midnight \/ \E d \in Days : ExpireBudget(d)
      BY <2>6 DEF Midnight, NewWindow, ExpireBudget, budgetHistory
    <2>7. CASE RedisRestored
      BY <2>7 DEF RedisRestored, DailyLimit!Next, DailyLimit!Lose
    <2>8. QED BY BudgetSteps, <2>2, <2>3, <2>4, <2>5, <2>6, <2>7
  <1>3. QED
    BY <1>1, <1>2, TypeCorrect, BudgetAlways, PTL DEF Spec, SpendIsLimited, DailyLimit!Spec

-----------------------------------------------------------------------------
\* A counter of the window covers the requests it has let through.
BurstInv ==
    ~excused => \A c \in Clients : admitted[c] <= hits[c] /\ admitted[c] <= RateLimit

LEMMA BurstNext == TypeOK /\ BurstInv /\ [Next]_vars => BurstInv'
  <1> SUFFICES ASSUME TypeOK, BurstInv, [Next]_vars
               PROVE  BurstInv'
    OBVIOUS
  <1>0. RequestTypes /\ RedisTypes /\ HistoryTypes
    BY TypeParts
  <1> USE DEF BurstInv, rateHistory, redisVars
  <1>1. ASSUME NEW r \in Requests, Ask(r), ~CountRate(r), ~SkipRate(r)
        PROVE  UNCHANGED <<hits, rateHistory>>
    <2>1. CASE \E c \in Clients, q \in Questions : Arrive(r, c, q)
      BY <2>1 DEF Arrive
    <2>2. CASE Connect(r) \/ ConnectFails(r) \/ CountRateLate(r) \/ ServeCached(r) \/ MissCache(r)
      BY <2>2 DEF Connect, ConnectFails, CountRateLate, ServeCached, MissCache
    <2>3. CASE Claim(r) \/ ClaimFails(r) \/ Call(r) \/ Answer(r)
      BY <2>3 DEF Claim, ClaimFails, Call, Answer
    <2>4. CASE ProviderFails(r) \/ ReadRemaining(r) \/ ReadFails(r) \/ Reply(r)
      BY <2>4 DEF ProviderFails, ReadRemaining, ReadFails, Reply
    <2>5. QED BY <1>1, <2>1, <2>2, <2>3, <2>4 DEF Ask
  <1>2. CASE UNCHANGED <<hits, rateHistory>>
    BY <1>2
  <1>3. ASSUME NEW r \in Requests, CountRate(r)
        PROVE  BurstInv'
    <2>1. PICK c \in Clients : c = client[r]
      BY <1>0, <1>3 DEF CountRate, RequestTypes
    <2>2. /\ hits' = [hits EXCEPT ![c] = @ + 1]
          /\ \/ /\ hits[c] + 1 <= RateLimit
                /\ admitted' = [admitted EXCEPT ![c] = @ + 1]
             \/ UNCHANGED admitted
          /\ excused' = excused
      BY <1>3, <2>1 DEF CountRate, WithinLimit
    <2>3. hits \in [Clients -> Nat] /\ admitted \in [Clients -> Nat]
      BY <1>0 DEF RedisTypes, HistoryTypes
    <2>4. QED BY <2>2, <2>3, BudgetAssumption
  <1>4. ASSUME NEW r \in Requests, SkipRate(r)
        PROVE  BurstInv'
    BY <1>4 DEF SkipRate
  <1>5. CASE NextWindow \/ Midnight
    BY <1>5, BudgetAssumption DEF NextWindow, Midnight, NewWindow
  <1>6. CASE RedisRestored
    BY <1>6 DEF RedisRestored
  <1>7. CASE \/ Restart \/ UNCHANGED vars
             \/ \E d \in Days : ExpireBudget(d)
             \/ \E q \in Questions : ExpireAnswer(q)
    BY <1>7 DEF Restart, ExpireBudget, ExpireAnswer, vars
  <1>8. QED
    BY <1>1, <1>2, <1>3, <1>4, <1>5, <1>6, <1>7 DEF Next, Environment

\* However many of a client's requests run at once, no more than RateLimit of them pass in
\* one window whose checks were all counted (check_rate_limit).
THEOREM BurstIsBounded == Spec => []BurstBounded
  <1>1. Init => BurstInv
    BY BudgetAssumption DEF Init, BurstInv
  <1>2. BurstInv => BurstBounded
    BY DEF BurstInv, BurstBounded
  <1>3. QED BY <1>1, <1>2, BurstNext, TypeCorrect, PTL DEF Spec

-----------------------------------------------------------------------------
(***************************************************************************)
(* The calls of one day.  A call is made under the key of the day or, by a *)
(* thread that midnight caught on its way, under the key of the day        *)
(* before; after midnight nobody takes that key any more.                  *)
(***************************************************************************)
OnTime == {r \in Requests : pc[r] = "call" /\ key[r] = day}
Late == {r \in Requests : pc[r] = "call" /\ key[r] < day}
Caught == {r \in Requests : pc[r] \in {"claim", "call"} /\ key[r] < day}

Before(d) == IF d = 0 THEN 0 ELSE granted[d - 1]

KeysAreOfTheDay ==
    \A r \in Requests : pc[r] \in {"claim", "call"} => key[r] \in {day - 1, day}

CallsInv ==
    /\ KeysAreOfTheDay
    /\ \A d \in Days : d > day => granted[d] = 0 /\ calledOn[d] = 0
    /\ \A d \in Days : d < day =>
           /\ calledOn[d] <= granted[d] + Cardinality(Requests)
           /\ calledOn[d] <= granted[d] + Before(d)
    /\ calledOn[day] + Cardinality(OnTime) + Cardinality(Caught)
           <= granted[day] + Cardinality(Requests)
    /\ calledOn[day] + Cardinality(OnTime) + Cardinality(Late)
           <= granted[day] + Before(day)
    /\ Cardinality(OnTime) <= granted[day]

\* All sets of threads are finite.
LEMMA ThreadsAreFinite ==
  ASSUME NEW S \in SUBSET Requests
  PROVE  /\ IsFiniteSet(S) /\ Cardinality(S) \in Nat
         /\ \A T \in SUBSET S : Cardinality(T) <= Cardinality(S)
  <1>1. IsFiniteSet(S)
    BY BudgetAssumption, FS_Subset
  <1>2. QED
    BY <1>1, FS_Subset, FS_CardinalityType

\* The steps of a thread between the gate and the provider, and all others.
LEMMA CallSteps ==
  ASSUME TypeOK, [Next]_vars
  PROVE  \/ /\ UNCHANGED <<day, granted, calledOn>>
            /\ \A r \in Requests : pc'[r] \in {"claim", "call"} =>
                   \/ pc'[r] = pc[r] /\ key'[r] = key[r]
                   \/ pc'[r] = "claim" /\ key'[r] = day
         \/ \E r \in Requests :
                /\ pc[r] = "claim" /\ pc' = [pc EXCEPT ![r] = "call"]
                /\ granted' = [granted EXCEPT ![key[r]] = @ + 1]
                /\ UNCHANGED <<key, day, calledOn>>
         \/ \E r \in Requests : 
                /\ pc[r] = "call" /\ pc' = [pc EXCEPT ![r] = "answer"]
                /\ calledOn' = [calledOn EXCEPT ![day] = @ + 1]
                /\ UNCHANGED <<key, day, granted>>
         \/ /\ day' = day + 1 /\ UNCHANGED <<pc, key, granted, calledOn>>
            /\ \A r \in Requests : pc[r] \in {"claim", "call"} => key[r] = day
  <1>0. RequestTypes
    BY TypeParts
  <1> DEFINE Quiet == /\ UNCHANGED <<day, granted, calledOn>>
                      /\ \A r \in Requests : pc'[r] \in {"claim", "call"} =>
                             \/ pc'[r] = pc[r] /\ key'[r] = key[r]
                             \/ pc'[r] = "claim" /\ key'[r] = day
  <1>1. ASSUME NEW r \in Requests, Ask(r), ~Call(r), ~Claim(r)
        PROVE  Quiet
    <2> USE <1>0 DEF RequestTypes, Move, Leave, timeVars, budgetHistory
    <2>1. CASE \E c \in Clients, q \in Questions : Arrive(r, c, q)
      BY <2>1 DEF Arrive
    <2>2. CASE Connect(r) \/ ConnectFails(r)
      BY <2>2 DEF Connect, ConnectFails
    <2>3. CASE CountRate(r) \/ CountRateLate(r) \/ SkipRate(r)
      BY <2>3 DEF CountRate, CountRateLate, SkipRate
    <2>4. CASE ServeCached(r) \/ MissCache(r) \/ ClaimFails(r)
      BY <2>4 DEF ServeCached, MissCache, ClaimFails, Uncounted
    <2>5. CASE Answer(r) \/ ProviderFails(r)
      BY <2>5 DEF Answer, ProviderFails
    <2>6. CASE ReadRemaining(r) \/ ReadFails(r) \/ Reply(r)
      BY <2>6 DEF ReadRemaining, ReadFails, Reply
    <2>7. QED BY <1>1, <2>1, <2>2, <2>3, <2>4, <2>5, <2>6 DEF Ask
  <1>2. ASSUME NEW r \in Requests, Claim(r)
        PROVE  \/ Quiet
               \/ /\ pc[r] = "claim" /\ pc' = [pc EXCEPT ![r] = "call"]
                  /\ granted' = [granted EXCEPT ![key[r]] = @ + 1]
                  /\ UNCHANGED <<key, day, calledOn>>
    BY <1>0, <1>2 DEF Claim, Allow, Move, RequestTypes, timeVars
  <1>3. ASSUME NEW r \in Requests, Call(r)
        PROVE  /\ pc[r] = "call" /\ pc' = [pc EXCEPT ![r] = "answer"]
               /\ calledOn' = [calledOn EXCEPT ![day] = @ + 1]
               /\ UNCHANGED <<key, day, granted>>
    BY <1>3 DEF Call, Move, timeVars
  <1>4. CASE Restart
    BY <1>4 DEF Restart, timeVars, budgetHistory
  <1>5. CASE Midnight
    BY <1>5 DEF Midnight, NewWindow, requestVars, budgetHistory
  <1>6. CASE \/ NextWindow \/ RedisRestored \/ UNCHANGED vars
             \/ \E d \in Days : ExpireBudget(d)
             \/ \E q \in Questions : ExpireAnswer(q)
    BY <1>6 DEF NextWindow, NewWindow, RedisRestored, ExpireBudget, ExpireAnswer, vars,
        requestVars, timeVars, budgetHistory
  <1>7. QED BY <1>1, <1>2, <1>3, <1>4, <1>5, <1>6, Zenon DEF Next, Environment

LEMMA CallsInit == Init => CallsInv
  <1> SUFFICES ASSUME Init PROVE CallsInv
    OBVIOUS
  <1>1. OnTime = {} /\ Late = {} /\ Caught = {}
    BY DEF Init, OnTime, Late, Caught
  <1>2. Cardinality({}) = 0 /\ Cardinality(Requests) \in Nat
    BY FS_EmptySet, ThreadsAreFinite
  <1>3. 0 \in Days
    BY BudgetAssumption DEF Days
  <1>4. QED
    BY <1>1, <1>2, <1>3, BudgetAssumption DEF Init, CallsInv, KeysAreOfTheDay, Before, Days

LEMMA CallsNext == TypeOK /\ CallsInv /\ [Next]_vars => CallsInv'
  <1> SUFFICES ASSUME TypeOK, CallsInv, [Next]_vars PROVE CallsInv'
    OBVIOUS
  <1>1. /\ day \in Days /\ Days \subseteq Nat
        /\ granted \in [Days -> Nat] /\ calledOn \in [Days -> Nat]
        /\ pc \in [Requests -> Phases] /\ key \in [Requests -> Nat]
        /\ \A d \in Days : d # 0 => d - 1 \in Days
    BY TypeParts, BudgetAssumption DEF RequestTypes, RedisTypes, HistoryTypes, Days
  <1>2. /\ OnTime \in SUBSET Requests /\ Late \in SUBSET Requests /\ Caught \in SUBSET Requests
        /\ OnTime' \in SUBSET Requests /\ Late' \in SUBSET Requests
        /\ Caught' \in SUBSET Requests
    BY DEF OnTime, Late, Caught
  <1>3. /\ Cardinality(OnTime) \in Nat /\ Cardinality(Late) \in Nat
        /\ Cardinality(Caught) \in Nat /\ Cardinality(Requests) \in Nat
        /\ Cardinality(OnTime') \in Nat /\ Cardinality(Late') \in Nat
        /\ Cardinality(Caught') \in Nat
    BY <1>2, ThreadsAreFinite
  <1>4. \A d \in Days : Before(d) \in Nat
    BY <1>1 DEF Before
  <1>5. ASSUME UNCHANGED <<day, granted, calledOn>>,
               \A r \in Requests : pc'[r] \in {"claim", "call"} =>
                   \/ pc'[r] = pc[r] /\ key'[r] = key[r]
                   \/ pc'[r] = "claim" /\ key'[r] = day
        PROVE  CallsInv'
    <2>1. OnTime' \subseteq OnTime /\ Late' \subseteq Late /\ Caught' \subseteq Caught
      BY <1>1, <1>5 DEF OnTime, Late, Caught
    <2>2. /\ Cardinality(OnTime') <= Cardinality(OnTime)
          /\ Cardinality(Late') <= Cardinality(Late)
          /\ Cardinality(Caught') <= Cardinality(Caught)
      BY <1>2, <2>1, ThreadsAreFinite
    <2>3. KeysAreOfTheDay'
      BY <1>1, <1>5 DEF CallsInv, KeysAreOfTheDay
    <2>4. \A d \in Days : Before(d)' = Before(d)
      BY <1>5 DEF Before
    <2>5. QED
      BY <1>1, <1>3, <1>4, <1>5, <2>2, <2>3, <2>4 DEF CallsInv
  <1>6. ASSUME NEW r \in Requests, pc[r] = "claim", pc' = [pc EXCEPT ![r] = "call"],
               granted' = [granted EXCEPT ![key[r]] = @ + 1], UNCHANGED <<key, day, calledOn>>
        PROVE  CallsInv'
    <2>1. key[r] \in {day - 1, day} /\ key[r] \in Days
      BY <1>6, TypeParts DEF CallsInv, KeysAreOfTheDay, RequestTypes
    <2>2. KeysAreOfTheDay'
      BY <1>1, <1>6 DEF CallsInv, KeysAreOfTheDay
    <2>3. Caught' = Caught /\ r \notin OnTime /\ r \notin Late
      BY <1>1, <1>6 DEF Caught, OnTime, Late
    <2>4. CASE key[r] = day
      <3>1. OnTime' = OnTime \cup {r} /\ Late' = Late
        BY <1>1, <1>6, <2>4 DEF OnTime, Late
      <3>2. Cardinality(OnTime') = Cardinality(OnTime) + 1
        BY <1>2, <2>3, <3>1, ThreadsAreFinite, FS_AddElement
      <3>3. /\ granted'[day] = granted[day] + 1
            /\ \A d \in Days : d # day => granted'[d] = granted[d]
        BY <1>1, <1>6, <2>4
      <3>4. \A d \in Days : d <= day => Before(d)' = Before(d)
        BY <1>1, <3>3 DEF Before
      <3>5. QED
        BY <1>1, <1>3, <1>4, <1>6, <2>2, <2>3, <3>1, <3>2, <3>3, <3>4 DEF CallsInv
    <2>5. CASE key[r] = day - 1
      <3>1. Late' = Late \cup {r} /\ OnTime' = OnTime
        BY <1>1, <1>6, <2>5 DEF OnTime, Late
      <3>2. Cardinality(Late') = Cardinality(Late) + 1
        BY <1>2, <2>3, <3>1, ThreadsAreFinite, FS_AddElement
      <3>3. /\ granted'[day - 1] = granted[day - 1] + 1
            /\ \A d \in Days : d # day - 1 => granted'[d] = granted[d]
            /\ day - 1 \in Days /\ day # 0
        BY <1>1, <1>6, <2>1, <2>5
      <3>4. /\ Before(day)' = Before(day) + 1
            /\ \A d \in Days : d < day => Before(d)' = Before(d)
        BY <1>1, <1>6, <3>3 DEF Before
      <3>5. QED
        BY <1>1, <1>3, <1>4, <1>6, <2>2, <2>3, <3>1, <3>2, <3>3, <3>4 DEF CallsInv
    <2>6. QED BY <2>1, <2>4, <2>5
  <1>7. ASSUME NEW r \in Requests, pc[r] = "call", pc' = [pc EXCEPT ![r] = "answer"],
               calledOn' = [calledOn EXCEPT ![day] = @ + 1], UNCHANGED <<key, day, granted>>
        PROVE  CallsInv'
    <2>1. key[r] \in {day - 1, day}
      BY <1>7 DEF CallsInv, KeysAreOfTheDay
    <2>2. KeysAreOfTheDay'
      BY <1>1, <1>7 DEF CallsInv, KeysAreOfTheDay
    <2>3. /\ calledOn'[day] = calledOn[day] + 1
          /\ \A d \in Days : d # day => calledOn'[d] = calledOn[d]
          /\ \A d \in Days : Before(d)' = Before(d)
      BY <1>1, <1>7 DEF Before
    <2>4. CASE key[r] = day
      <3>1. OnTime' = OnTime \ {r} /\ Late' = Late /\ Caught' = Caught /\ r \in OnTime
        BY <1>1, <1>7, <2>4 DEF OnTime, Late, Caught
      <3>2. Cardinality(OnTime') = Cardinality(OnTime) - 1
        BY <1>2, <3>1, ThreadsAreFinite, FS_RemoveElement
      <3>3. QED
        BY <1>1, <1>3, <1>4, <1>7, <2>2, <2>3, <3>1, <3>2 DEF CallsInv
    <2>5. CASE key[r] = day - 1
      <3>1. /\ OnTime' = OnTime /\ Late' = Late \ {r} /\ Caught' = Caught \ {r}
            /\ r \in Late /\ r \in Caught
        BY <1>1, <1>7, <2>5 DEF OnTime, Late, Caught
      <3>2. /\ Cardinality(Late') = Cardinality(Late) - 1
            /\ Cardinality(Caught') = Cardinality(Caught) - 1
        BY <1>2, <3>1, ThreadsAreFinite, FS_RemoveElement
      <3>3. QED
        BY <1>1, <1>3, <1>4, <1>7, <2>2, <2>3, <3>1, <3>2 DEF CallsInv
    <2>6. QED BY <2>1, <2>4, <2>5
  <1>8. ASSUME day' = day + 1, UNCHANGED <<pc, key, granted, calledOn>>,
               \A r \in Requests : pc[r] \in {"claim", "call"} => key[r] = day
        PROVE  CallsInv'
    <2>1. day' \in Days
      BY RedisTypesNext DEF RedisTypes
    <2>2. OnTime' = {} /\ Late' = OnTime
      BY <1>1, <1>8 DEF OnTime, Late
    <2>3. Cardinality(OnTime') = 0 /\ Cardinality(Caught') <= Cardinality(Requests)
      BY <1>2, <2>2, FS_EmptySet, ThreadsAreFinite
    <2>4. KeysAreOfTheDay'
      BY <1>1, <1>8 DEF KeysAreOfTheDay
    <2>5. granted[day'] = 0 /\ calledOn[day'] = 0
      BY <1>1, <1>8, <2>1 DEF CallsInv
    <2>6. /\ \A d \in Days : Before(d)' = Before(d)
          /\ Before(day') = granted[day]
      BY <1>1, <1>8, <2>1 DEF Before
    <2>7. QED
      BY <1>1, <1>3, <1>4, <1>8, <2>1, <2>2, <2>3, <2>4, <2>5, <2>6 DEF CallsInv
  <1>9. QED
    BY CallSteps, <1>5, <1>6, <1>7, <1>8

\* The smaller of two numbers, as FiniteSetsExt computes it.
LEMMA MinOfTwo ==
  ASSUME NEW a \in Int, NEW b \in Int
  PROVE  Min({a, b}) = IF a <= b THEN a ELSE b
  <1> DEFINE Least(x) == x \in {a, b} /\ \A y \in {a, b} : x <= y
  <1>1. \E x : Least(x)
    <2>1. CASE a <= b
      <3>1. Least(a) BY <2>1
      <3>2. QED BY <3>1
    <2>2. CASE ~(a <= b)
      <3>1. Least(b) BY <2>2
      <3>2. QED BY <3>1
    <2>3. QED BY <2>1, <2>2
  <1>2. Least(Min({a, b}))
    BY <1>1 DEF Min
  <1>3. QED BY <1>2

\* llm_gate and the provider call: on one UTC day the provider is called at most as often
\* as the day's budget allows, and once more for each thread that midnight caught with a
\* unit of the day before, of which there was no more than a budget.
THEOREM CallsAreBounded == Spec => []CallsPerDay
  <1>1. TypeOK /\ BudgetInv /\ CallsInv => CallsPerDay
    <2> SUFFICES ASSUME TypeOK, BudgetInv, CallsInv, NEW d \in Days
                 PROVE  calledOn[d] <= ceiling + Min({ceiling, Cardinality(Requests)})
      BY DEF CallsPerDay
    <2>1. /\ day \in Days /\ Days \subseteq Nat /\ ceiling \in Nat
          /\ granted \in [Days -> Nat] /\ calledOn \in [Days -> Nat]
          /\ d # 0 => d - 1 \in Days
      BY TypeParts, BudgetAssumption DEF RedisTypes, HistoryTypes, Days
    <2>2. /\ Cardinality(OnTime) \in Nat /\ Cardinality(Late) \in Nat
          /\ Cardinality(Caught) \in Nat /\ Cardinality(Requests) \in Nat
      BY ThreadsAreFinite DEF OnTime, Late, Caught
    <2>3. granted[d] <= ceiling /\ Before(d) <= ceiling /\ Before(d) \in Nat
      BY <2>1 DEF BudgetInv, Before
    <2>4. /\ calledOn[d] <= granted[d] + Cardinality(Requests)
          /\ calledOn[d] <= granted[d] + Before(d)
      <3>1. CASE d < day
        BY <2>1, <3>1 DEF CallsInv
      <3>2. CASE d = day
        BY <2>1, <2>2, <2>3, <3>2 DEF CallsInv
      <3>3. CASE d > day
        BY <2>1, <2>2, <2>3, <3>3 DEF CallsInv
      <3>4. QED BY <2>1, <3>1, <3>2, <3>3
    <2>5. Min({ceiling, Cardinality(Requests)}) =
              IF ceiling <= Cardinality(Requests) THEN ceiling ELSE Cardinality(Requests)
      BY <2>1, <2>2, MinOfTwo
    <2>6. QED
      BY <2>1, <2>2, <2>3, <2>4, <2>5
  <1>2. QED
    BY <1>1, CallsInit, CallsNext, TypeCorrect, BudgetAlways, PTL DEF Spec
=============================================================================
