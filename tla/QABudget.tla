------------------------------ MODULE QABudget ------------------------------
(***************************************************************************)
(* POST /qa/ask (app/api/qa.py) and what keeps it from spending: the rate  *)
(* limit of each client and the daily budget of provider calls             *)
(* (app/search/budget.py), the cached answers and the gate before the      *)
(* billed call (app/search/rag.py).  Counters and answers are in Redis,    *)
(* which may fail any call, lose the reply of one it has executed, or come *)
(* back with the values of a snapshot.                                     *)
(*                                                                         *)
(* One step is one call to Redis or to the provider.  The clock is read    *)
(* where the code reads it, one step before the counter that uses it.      *)
(* Time is counted in windows of the rate limit and in UTC days; any       *)
(* window may be the last of its day.  The settings are the defaults: both *)
(* limits on, the budget counter required, the LLM enabled.                *)
(***************************************************************************)
EXTENDS Integers, FiniteSets, FiniteSetsExt

CONSTANTS
    Requests,     \* threads that serve requests
    Clients,
    Questions,    \* cache keys: a question, a mode and a model
    Budget,       \* qa_daily_budget
    RateLimit,    \* qa_rate_limit_per_min
    MaxArrivals, MaxWindow, MaxDay, MaxLosses,   \* bounds
    None

ASSUME BudgetAssumption ==
    /\ Budget \in Nat \ {0}
    /\ RateLimit \in Nat \ {0}
    /\ MaxArrivals \in Nat
    /\ MaxWindow \in Nat
    /\ MaxDay \in Nat
    /\ MaxLosses \in Nat
    /\ None \notin Clients \cup Questions
    /\ IsFiniteSet(Requests)

Days == 0 .. MaxDay

Phases == {"idle", "connect", "rate", "cache", "claim", "call", "answer", "header", "reply"}

VARIABLES
    pc, client, question,   \* the request each thread serves
    key,        \* the window or day in the Redis key it is about to count
    left,       \* the remaining budget it has read
    connected,  \* the process has its Redis client
    gauge,      \* qa_budget_remaining
    hits,       \* rate counters of the current window
    used,       \* budget counters, 0 where there is no key
    cached,     \* questions with an answer in Redis
    now, day,   \* the current window and UTC day
    arrivals,   \* number of requests so far
    granted,    \* history: provider calls allowed under each day's key
    calledOn,   \* history: provider calls made on each day
    admitted,   \* history: requests of a client let through in this window
    excused,    \* history: a check of this window failed or its counters were lost
    ceiling,    \* history: the budget, and once more for each loss of the counters
    closed,     \* history: days somebody was told nothing is left of
    drifted     \* history: days whose counter is not the number of claims decided

requestVars == <<pc, client, question, key, left>>
redisVars == <<hits, used, cached>>
timeVars == <<now, day>>
rateHistory == <<admitted, excused>>
budgetHistory == <<granted, calledOn, ceiling, closed, drifted>>
vars == <<requestVars, connected, gauge, redisVars, timeVars, arrivals, rateHistory, budgetHistory>>

TypeOK ==
    /\ pc \in [Requests -> Phases]
    /\ client \in [Requests -> Clients \cup {None}]
    /\ question \in [Requests -> Questions \cup {None}]
    /\ \A r \in Requests : pc[r] # "idle" => client[r] # None /\ question[r] # None
    /\ key \in [Requests -> Nat]
    /\ \A r \in Requests : pc[r] \in {"claim", "call"} => key[r] \in Days
    /\ left \in [Requests -> 0 .. Budget]
    /\ connected \in BOOLEAN
    /\ gauge \in 0 .. Budget
    /\ hits \in [Clients -> Nat]
    /\ used \in [Days -> Nat]
    /\ cached \subseteq Questions
    /\ now \in Nat
    /\ day \in Days
    /\ arrivals \in Nat
    /\ granted \in [Days -> Nat]
    /\ calledOn \in [Days -> Nat]
    /\ admitted \in [Clients -> Nat]
    /\ excused \in BOOLEAN
    /\ ceiling \in Nat
    /\ closed \subseteq Days
    /\ drifted \subseteq Days

Init ==
    /\ pc = [r \in Requests |-> "idle"]
    /\ client = [r \in Requests |-> None]
    /\ question = [r \in Requests |-> None]
    /\ key = [r \in Requests |-> 0]
    /\ left = [r \in Requests |-> 0]
    /\ connected = FALSE
    /\ gauge = Budget
    /\ hits = [c \in Clients |-> 0]
    /\ used = [d \in Days |-> 0]
    /\ cached = {}
    /\ now = 0 /\ day = 0
    /\ arrivals = 0
    /\ granted = [d \in Days |-> 0]
    /\ calledOn = [d \in Days |-> 0]
    /\ admitted = [c \in Clients |-> 0]
    /\ excused = FALSE
    /\ ceiling = Budget
    /\ closed = {}
    /\ drifted = {}

(***************************************************************************)
(* Movements of a request                                                  *)
(***************************************************************************)
Move(r, from, to) ==
    /\ pc[r] = from
    /\ pc' = [pc EXCEPT ![r] = to]
    /\ UNCHANGED <<client, question>>

Leave(r, from) ==
    /\ pc[r] = from
    /\ pc' = [pc EXCEPT ![r] = "idle"]
    /\ client' = [client EXCEPT ![r] = None]
    /\ question' = [question EXCEPT ![r] = None]
    /\ key' = [key EXCEPT ![r] = 0]
    /\ left' = [left EXCEPT ![r] = 0]

\* Mutant: compares what was counted before.
WithinLimitBefore(count, limit) == count - 1 <= limit

\* Counted first and compared afterwards.
WithinLimit(count, limit) == count <= limit

Allow(r, d) ==
    /\ Move(r, pc[r], "call")
    /\ granted' = [granted EXCEPT ![d] = @ + 1]

\* Mutant: proceeds uncounted.
CallUncounted(r, d) == Allow(r, d)

\* qa_require_budget_counter: no count, no call.
Uncounted(r, d) ==
    /\ Move(r, pc[r], "header")
    /\ UNCHANGED granted

Arrive(r, c, q) ==
    /\ pc[r] = "idle"
    /\ arrivals < MaxArrivals
    /\ arrivals' = arrivals + 1
    /\ pc' = [pc EXCEPT ![r] = IF connected THEN "rate" ELSE "connect"]
    /\ client' = [client EXCEPT ![r] = c]
    /\ question' = [question EXCEPT ![r] = q]
    /\ key' = [key EXCEPT ![r] = now]
    /\ UNCHANGED <<left, connected, gauge, redisVars, timeVars, rateHistory, budgetHistory>>

\* Two threads may be here at once, and the one whose PING fails takes away the client
\* of the other.
Connect(r) ==
    /\ Move(r, "connect", "rate")
    /\ connected' = TRUE
    /\ key' = [key EXCEPT ![r] = now]
    /\ UNCHANGED <<left, gauge, redisVars, timeVars, arrivals, rateHistory, budgetHistory>>

\* Without a client there is no rate limit, no cache and no counter: the request gets
\* its sources and no answer.
ConnectFails(r) ==
    /\ Leave(r, "connect")
    /\ connected' = FALSE
    /\ UNCHANGED <<gauge, redisVars, timeVars, arrivals, rateHistory, budgetHistory>>

(***************************************************************************)
(* The rate limit of the client                                            *)
(***************************************************************************)
CountRate(r) ==
    LET c == client[r]
        count == hits[c] + 1
    IN  /\ pc[r] = "rate" /\ key[r] = now
        /\ hits' = [hits EXCEPT ![c] = count]
        /\ \/ /\ WithinLimit(count, RateLimit)
              /\ Move(r, "rate", "cache")
              /\ admitted' = [admitted EXCEPT ![c] = @ + 1]
              /\ UNCHANGED <<key, left>>
           \/ /\ ~WithinLimit(count, RateLimit)
              /\ Leave(r, "rate")
              /\ UNCHANGED admitted
        /\ UNCHANGED <<connected, gauge, used, cached, timeVars, arrivals, excused, budgetHistory>>

\* The window of the key has passed, and its counter may have expired or not.
CountRateLate(r) ==
    /\ pc[r] = "rate" /\ key[r] < now
    /\ \/ Move(r, "rate", "cache") /\ UNCHANGED <<key, left>>
       \/ Leave(r, "rate")
    /\ UNCHANGED <<connected, gauge, redisVars, timeVars, arrivals, rateHistory, budgetHistory>>

\* An error, before or after Redis has counted, does not hold the request back.
SkipRate(r) ==
    /\ Move(r, "rate", "cache")
    /\ \/ UNCHANGED hits
       \/ key[r] = now /\ hits' = [hits EXCEPT ![client[r]] = @ + 1]
    /\ excused' = TRUE
    /\ UNCHANGED <<key, left, connected, gauge, used, cached, timeVars, arrivals, admitted, budgetHistory>>

(***************************************************************************)
(* The answer: from the cache, or from the provider if the gate allows     *)
(***************************************************************************)
\* Mutant: the gate is asked before the cache.
ServeCachedForAUnit(r) ==
    /\ question[r] \in cached
    /\ Move(r, "cache", "header")
    /\ used' = [used EXCEPT ![day] = @ + 1]
    /\ UNCHANGED <<key, left, connected, gauge, hits, cached, timeVars, arrivals, rateHistory, budgetHistory>>

ServeCached(r) ==
    /\ question[r] \in cached
    /\ Move(r, "cache", "header")
    /\ UNCHANGED <<key, left, connected, gauge, redisVars, timeVars, arrivals, rateHistory, budgetHistory>>

\* No answer, or none that could be read; retrieval follows, and the gate reads the day.
MissCache(r) ==
    /\ Move(r, "cache", "claim")
    /\ key' = [key EXCEPT ![r] = day]
    /\ UNCHANGED <<left, connected, gauge, redisVars, timeVars, arrivals, rateHistory, budgetHistory>>

Claim(r) ==
    LET d == key[r]
        count == used[d] + 1
    IN  /\ pc[r] = "claim"
        /\ used' = [used EXCEPT ![d] = count]
        /\ \/ /\ WithinLimit(count, Budget)
              /\ Allow(r, d)
              /\ UNCHANGED closed
           \/ /\ ~WithinLimit(count, Budget)
              /\ Move(r, "claim", "header")
              /\ closed' = closed \cup {d}
              /\ UNCHANGED granted
        /\ UNCHANGED <<key, left, connected, gauge, hits, cached, timeVars, arrivals, rateHistory, calledOn, ceiling, drifted>>

\* The counter cannot be reached, or has counted and the reply is lost.
ClaimFails(r) ==
    LET d == key[r]
    IN  /\ pc[r] = "claim"
        /\ \/ UNCHANGED <<used, drifted>>
           \/ /\ used' = [used EXCEPT ![d] = @ + 1]
              /\ drifted' = drifted \cup {d}
        /\ Uncounted(r, d)
        /\ UNCHANGED <<key, left, connected, gauge, hits, cached, timeVars, arrivals, rateHistory, calledOn, ceiling, closed>>

Call(r) ==
    /\ Move(r, "call", "answer")
    /\ calledOn' = [calledOn EXCEPT ![day] = @ + 1]
    /\ UNCHANGED <<key, left, connected, gauge, redisVars, timeVars, arrivals, rateHistory, granted, ceiling, closed, drifted>>

\* The write to the cache may fail.
Answer(r) ==
    /\ Move(r, "answer", "header")
    /\ cached' \in {cached, cached \cup {question[r]}}
    /\ UNCHANGED <<key, left, connected, gauge, hits, used, timeVars, arrivals, rateHistory, budgetHistory>>

ProviderFails(r) ==
    /\ Leave(r, "answer")
    /\ UNCHANGED <<connected, gauge, redisVars, timeVars, arrivals, rateHistory, budgetHistory>>

(***************************************************************************)
(* What is left, for the header and the gauge                              *)
(***************************************************************************)
\* Mutant: goes below 0 when claims overshoot.
RemainingUnclamped(d) == Budget - used[d]

Remaining(d) == Max({Budget - used[d], 0})

\* Midnight may fall between the clock and the GET.
ReadRemaining(r) ==
    /\ Move(r, "header", "reply")
    /\ \E d \in Days \cap {day - 1, day} :
          /\ left' = [left EXCEPT ![r] = Remaining(d)]
          /\ closed' = IF Remaining(d) = 0 THEN closed \cup {d} ELSE closed
    /\ UNCHANGED <<key, connected, gauge, redisVars, timeVars, arrivals, rateHistory, granted, calledOn, ceiling, drifted>>

ReadFails(r) ==
    /\ Leave(r, "header")
    /\ UNCHANGED <<connected, gauge, redisVars, timeVars, arrivals, rateHistory, budgetHistory>>

Reply(r) ==
    /\ gauge' = left[r]
    /\ Leave(r, "reply")
    /\ UNCHANGED <<connected, redisVars, timeVars, arrivals, rateHistory, budgetHistory>>

\* The process starts again: it has no client, and seeds the gauge.
Restart ==
    /\ pc' = [r \in Requests |-> "idle"]
    /\ client' = [r \in Requests |-> None]
    /\ question' = [r \in Requests |-> None]
    /\ key' = [r \in Requests |-> 0]
    /\ left' = [r \in Requests |-> 0]
    /\ connected' = FALSE
    /\ gauge' \in {Remaining(day), Budget}
    /\ UNCHANGED <<redisVars, timeVars, arrivals, rateHistory, budgetHistory>>

(***************************************************************************)
(* Time and Redis.  No request takes longer than a window from reading the *)
(* clock to counting its rate, or than a day from there to calling the     *)
(* provider: the socket timeout of Redis is 2 seconds.                     *)
(***************************************************************************)
NewWindow ==
    /\ now < MaxWindow
    /\ \A r \in Requests : pc[r] = "rate" => key[r] = now
    /\ now' = now + 1
    /\ hits' = [c \in Clients |-> 0]
    /\ admitted' = [c \in Clients |-> 0]
    /\ excused' = FALSE
    /\ UNCHANGED <<requestVars, connected, gauge, used, cached, arrivals, budgetHistory>>

NextWindow == NewWindow /\ UNCHANGED day

Midnight ==
    /\ NewWindow
    /\ day < MaxDay
    /\ \A r \in Requests : pc[r] \in {"claim", "call"} => key[r] = day
    /\ day' = day + 1

\* Mutant: a TTL of one day.
BudgetExpiredAfterADay(d) == day >= d + 1

\* Two days after its first use, which is in day d or, by a request caught by midnight,
\* in the next one.
BudgetExpired(d) == day >= d + 2

ExpireBudget(d) ==
    /\ BudgetExpired(d)
    /\ used[d] > 0
    /\ used' = [used EXCEPT ![d] = 0]
    /\ UNCHANGED <<requestVars, connected, gauge, hits, cached, timeVars, arrivals, rateHistory, budgetHistory>>

ExpireAnswer(q) ==
    /\ q \in cached
    /\ cached' = cached \ {q}
    /\ UNCHANGED <<requestVars, connected, gauge, hits, used, timeVars, arrivals, rateHistory, budgetHistory>>

\* Counters and answers of an earlier time, or none.
RedisRestored ==
    /\ ceiling <= MaxLosses * Budget
    /\ \E u \in [Days -> 0 .. MaxArrivals], h \in [Clients -> 0 .. MaxArrivals] :
          /\ \A d \in Days : u[d] <= used[d]
          /\ \A c \in Clients : h[c] <= hits[c]
          /\ used' = u
          /\ hits' = h
    /\ cached' \in SUBSET cached
    /\ excused' = TRUE
    /\ ceiling' = ceiling + Budget
    /\ closed' = {}
    /\ drifted' = Days
    /\ UNCHANGED <<requestVars, connected, gauge, timeVars, arrivals, admitted, granted, calledOn>>

(***************************************************************************)
(* Specification                                                           *)
(***************************************************************************)
Ask(r) ==
    \/ \E c \in Clients, q \in Questions : Arrive(r, c, q)
    \/ Connect(r) \/ ConnectFails(r)
    \/ CountRate(r) \/ CountRateLate(r) \/ SkipRate(r)
    \/ ServeCached(r) \/ MissCache(r)
    \/ Claim(r) \/ ClaimFails(r)
    \/ Call(r) \/ Answer(r) \/ ProviderFails(r)
    \/ ReadRemaining(r) \/ ReadFails(r) \/ Reply(r)

Environment ==
    \/ Restart
    \/ NextWindow
    \/ Midnight
    \/ \E d \in Days : ExpireBudget(d)
    \/ \E q \in Questions : ExpireAnswer(q)
    \/ RedisRestored

Next == (\E r \in Requests : Ask(r)) \/ Environment

Spec == Init /\ [][Next]_vars

(***************************************************************************)
(* Properties                                                              *)
(***************************************************************************)

\* The provider calls allowed under one day's key never exceed the budget, a loss of the
\* counters being good for one more, and once a caller has been refused or shown 0 no
\* other is allowed that day (consume_budget, the script it runs and the TTL of the key).
DailyLimit == INSTANCE SpendLimit WITH Keys <- Days, Limit <- Budget
SpendIsLimited == DailyLimit!Spec

\* X-QA-Budget-Remaining never promises a call that would exceed the budget: what has
\* been allowed under a day's key and what its counter leaves stay within it together
\* (budget_remaining against consume_budget, lost replies and late claims included).
RemainingIsSafe ==
    \A d \in Days : ~BudgetExpired(d) => granted[d] + Remaining(d) <= ceiling

\* The budget is refused only to those who come after it has been spent: when a caller
\* is told that nothing is left, exactly Budget calls were allowed under that day's key,
\* so that neither a cached answer nor a refusal has used up a unit.  Excepted are the
\* days with a lost reply or a lost counter (the docstring of budget.py on cache hits).
RefusedOnlyWhenSpent ==
    \A d \in closed \ drifted : granted[d] = Budget

\* The calls that reach the provider on one UTC day are at most those of the day's budget
\* and one more for each thread, of the budget of the day before, caught by midnight
\* between its claim and its call (llm_gate and the provider call in answer_question).
CallsPerDay ==
    \A d \in Days : calledOn[d] <= ceiling + Min({ceiling, Cardinality(Requests)})

\* No client gets more than RateLimit requests past the rate limit in one window in which
\* every check was counted (check_rate_limit under concurrent requests of one client).
BurstBounded ==
    ~excused => \A c \in Clients : admitted[c] <= RateLimit

\* A gauge at 0 means that the budget of the current day is spent
\* (observability/prometheus/alerts.yml: "Today's Q&A provider budget is spent").
ZeroMeansSpent ==
    gauge = 0 => Remaining(day) = 0
=============================================================================
