---------------------------- MODULE RateLimiter ------------------------------
(***************************************************************************)
(* utils/src/selection_rate_limiter.cpp: one limiter for all keys, which   *)
(* reads the clock before it takes its lock.  Each key has a context with  *)
(* the state of the three strategies and of the debouncing; of the         *)
(* statistics only when the key was last asked for is kept.  Keys are      *)
(* valid, and so are configurations.                                       *)
(*                                                                         *)
(* `admitted' records when the strictest level let calls for a key through *)
(* since its context was made; `overtaken' that a call has used a time     *)
(* that was no longer the present one.                                     *)
(***************************************************************************)
EXTENDS Integers, Sequences, FiniteSets, Functions

CONSTANTS Keys, Threads,
          Levels,           \* the lists of configurations callers may use
          MAX_CONTEXT_COUNT,
          TokenUnits,       \* how many refills of one tick make a token
          Period,           \* the number of values of the unsigned clock
          MaxTime,          \* bounds of the model: the clock stops here,
          MaxCalls          \* and so many calls are made

\* What IsValidConfig lets pass.
Config ==
    {c \in [strategy : {"SLIDING_WINDOW", "TOKEN_BUCKET", "FIXED_WINDOW"},
            window : Nat \ {0}, capacity : Nat \ {0}, refill : Nat] :
       c.strategy = "TOKEN_BUCKET" => c.refill # 0}

ASSUME RateLimiterAssumption ==
    /\ MAX_CONTEXT_COUNT \in Nat /\ TokenUnits \in Nat \ {0}
    /\ MaxTime \in Nat /\ Period \in Nat /\ Period > MaxTime
    /\ \A l \in Levels : l # <<>> /\ l \in Seq(Config)

VARIABLES contexts, blocklist, allowlist, clock, call, levels, calls, admitted, overtaken
limiterVars == <<contexts, blocklist, allowlist, clock, call, levels, calls, admitted, overtaken>>

UNSET == 0
Idle == [op |-> "none"]
NewContext == [sliding |-> <<>>, tokens |-> 0, lastRefill |-> UNSET,
               windowStart |-> UNSET, count |-> 0, lastTrigger |-> UNSET, last |-> UNSET]

LimiterInit ==
    /\ contexts = <<>> /\ blocklist = {} /\ allowlist = {}
    /\ clock = 1 /\ call = [t \in Threads |-> Idle]
    /\ levels \in Levels /\ calls = 0
    /\ admitted = [k \in Keys |-> <<>>] /\ overtaken = FALSE

-----------------------------------------------------------------------------
(* One context; `acquired' says whether the call is let through. *)

Since(now, then) == (now - then) % Period

\* Only the oldest are looked at: one that is out of order hides those behind it.
Expire(ts, config, now) ==
    LET start == IF now >= config.window THEN now - config.window ELSE UNSET
        live == {i \in DOMAIN ts : ts[i] > start}
        first == IF live = {} THEN Len(ts) + 1 ELSE CHOOSE i \in live : \A j \in live : i <= j
    IN  SubSeq(ts, first, Len(ts))

\* Mutation for AdmittedWithinLimit: one more than the capacity is let through.
TryAcquireSlidingOneMore(ctx, config, now) ==
    LET ts == Expire(ctx.sliding, config, now) free == Len(ts) <= config.capacity
    IN  [acquired |-> free,
         ctx |-> [ctx EXCEPT !.sliding = IF free THEN Append(ts, now) ELSE ts]]

TryAcquireSliding(ctx, config, now) ==
    LET ts == Expire(ctx.sliding, config, now) free == Len(ts) < config.capacity
    IN  [acquired |-> free,
         ctx |-> [ctx EXCEPT !.sliding = IF free THEN Append(ts, now) ELSE ts]]

RefillToken(ctx, config, now) ==
    LET full == config.capacity * TokenUnits
        more == ctx.tokens + (now - ctx.lastRefill) * config.refill
    IN  CASE ctx.lastRefill = UNSET -> [ctx EXCEPT !.tokens = full, !.lastRefill = now]
          [] ctx.lastRefill # UNSET /\ now > ctx.lastRefill ->
               [ctx EXCEPT !.tokens = IF more < full THEN more ELSE full, !.lastRefill = now]
          [] OTHER -> ctx

TryAcquireToken(ctx, config, now) ==
    LET filled == RefillToken(ctx, config, now) enough == filled.tokens >= TokenUnits
    IN  [acquired |-> enough,
         ctx |-> IF enough THEN [filled EXCEPT !.tokens = @ - TokenUnits] ELSE filled]

WindowIsOver(ctx, config, now) ==
    ctx.windowStart = UNSET \/ Since(now, ctx.windowStart) >= config.window

TryAcquireFixed(ctx, config, now) ==
    LET current == IF WindowIsOver(ctx, config, now)
                   THEN [ctx EXCEPT !.windowStart = now, !.count = 0] ELSE ctx
        free == current.count < config.capacity
    IN  [acquired |-> free,
         ctx |-> IF free THEN [current EXCEPT !.count = @ + 1] ELSE current]

Acquire(ctx, config, now) ==
    CASE config.strategy = "SLIDING_WINDOW" -> TryAcquireSliding(ctx, config, now)
      [] config.strategy = "TOKEN_BUCKET" -> TryAcquireToken(ctx, config, now)
      [] config.strategy = "FIXED_WINDOW" -> TryAcquireFixed(ctx, config, now)

\* The quota, and the context that asking for it leaves.
GetRemainingQuota(ctx, config, now) ==
    LET ts == Expire(ctx.sliding, config, now) filled == RefillToken(ctx, config, now)
        left(n) == IF n < config.capacity THEN config.capacity - n ELSE 0
    IN  CASE config.strategy = "SLIDING_WINDOW" ->
               [quota |-> left(Len(ts)), ctx |-> [ctx EXCEPT !.sliding = ts]]
          [] config.strategy = "TOKEN_BUCKET" ->
               [quota |-> filled.tokens \div TokenUnits, ctx |-> filled]
          [] config.strategy = "FIXED_WINDOW" ->
               [quota |-> IF WindowIsOver(ctx, config, now) THEN config.capacity
                          ELSE left(ctx.count), ctx |-> ctx]

-----------------------------------------------------------------------------
(* The contexts. *)

Without(f, k) == Restrict(f, DOMAIN f \ {k})
With(f, k, v) == [j \in DOMAIN f \cup {k} |-> IF j = k THEN v ELSE f[j]]
ContextOf(f, k) == IF k \in DOMAIN f THEN f[k] ELSE NewContext

\* The key asked for longest ago goes, also when it is the one that is asked for now.
EvictIfNeeded(f) ==
    IF Cardinality(DOMAIN f) <= MAX_CONTEXT_COUNT THEN {f}
    ELSE {Without(f, k) : k \in {o \in DOMAIN f : \A j \in DOMAIN f : f[o].last <= f[j].last}}

\* Of several levels those with the shortest window; they share one context, and what
\* it has forgotten the others do not see either.
Strictest ==
    LET configs == {levels[i] : i \in DOMAIN levels}
    IN  {c \in configs : \A d \in configs : c.window <= d.window}

Record(kept) == [k \in Keys |-> IF k \in DOMAIN kept THEN admitted[k] ELSE <<>>]

-----------------------------------------------------------------------------
(* The calls; every one that needs the time reads it first. *)

Count == calls < MaxCalls /\ calls' = calls + 1

Start(t, op, k) ==
    /\ call[t] = Idle /\ Count
    /\ call' = [call EXCEPT ![t] = [op |-> op, key |-> k, now |-> clock, level |-> 1]]
    /\ UNCHANGED <<contexts, blocklist, allowlist, clock, levels, admitted, overtaken>>

Finish(t) ==
    /\ overtaken' = (overtaken \/ call[t].now # clock)
    /\ UNCHANGED <<blocklist, allowlist, clock, levels, calls>>

\* The end of a level: the next one reads the clock again.
Continue(t, ok) ==
    LET again == [call[t] EXCEPT !.level = call[t].level + 1, !.now = clock]
    IN  call' = [call EXCEPT ![t] = IF ok /\ call[t].level < Len(levels) THEN again ELSE Idle]

TryAcquireListed(t) ==
    /\ call[t].op = "acquire"
    /\ call[t].key \in allowlist \cup blocklist
    /\ Continue(t, call[t].key \in allowlist)
    /\ Finish(t) /\ UNCHANGED <<contexts, admitted>>

TryAcquire(t) ==
    /\ call[t].op = "acquire"
    /\ call[t].key \notin allowlist \cup blocklist
    /\ \E kept \in EvictIfNeeded(contexts) :
         LET k == call[t].key
             tried == Acquire(ContextOf(kept, k), levels[call[t].level], call[t].now)
         IN  /\ contexts' = With(kept, k, [tried.ctx EXCEPT !.last = call[t].now])
             /\ admitted' = IF tried.acquired /\ levels[call[t].level] \in Strictest
                            THEN [Record(kept) EXCEPT ![k] = Append(@, clock)]
                            ELSE Record(kept)
             /\ Continue(t, tried.acquired)
    /\ Finish(t)

ShouldDebounce(t) ==
    /\ call[t].op = "debounce"
    /\ LET k == call[t].key
       IN  contexts' = With(contexts, k,
                            [ContextOf(contexts, k) EXCEPT !.lastTrigger = call[t].now])
    /\ call' = [call EXCEPT ![t] = Idle]
    /\ Finish(t) /\ UNCHANGED admitted

\* A bucket is filled; under another strategy only the context is made.
Warmup(t) ==
    /\ call[t].op = "warmup"
    /\ LET k == call[t].key ctx == ContextOf(contexts, k) config == levels[1]
           warm == [ctx EXCEPT !.tokens = config.capacity * TokenUnits, !.lastRefill = call[t].now]
           bucket == config.strategy = "TOKEN_BUCKET"
       IN  /\ contexts' = With(contexts, k, IF bucket THEN warm ELSE ctx)
           /\ admitted' = IF bucket THEN [admitted EXCEPT ![k] = <<>>] ELSE admitted
    /\ call' = [call EXCEPT ![t] = Idle]
    /\ Finish(t)

AskQuota(t) ==
    /\ call[t].op = "quota"
    /\ LET k == call[t].key
       IN  contexts' = IF k \in DOMAIN contexts
                       THEN [contexts EXCEPT ![k] =
                               GetRemainingQuota(@, levels[1], call[t].now).ctx]
                       ELSE contexts
    /\ call' = [call EXCEPT ![t] = Idle]
    /\ Finish(t) /\ UNCHANGED admitted

Reset(k) ==
    /\ Count
    /\ contexts' = Without(contexts, k) /\ admitted' = Record(contexts')
    /\ UNCHANGED <<blocklist, allowlist, clock, call, levels, overtaken>>

LimiterClearAll ==
    /\ Count
    /\ contexts' = <<>> /\ admitted' = Record(contexts')
    /\ blocklist' = {} /\ allowlist' = {}
    /\ UNCHANGED <<clock, call, levels, overtaken>>

ChangeLists(k) ==
    /\ Count
    /\ \/ blocklist' \in {blocklist \cup {k}, blocklist \ {k}, {}} /\ UNCHANGED allowlist
       \/ allowlist' \in {allowlist \cup {k}, allowlist \ {k}, {}} /\ UNCHANGED blocklist
    /\ UNCHANGED <<contexts, clock, call, levels, admitted, overtaken>>

LimiterTick ==
    /\ clock < MaxTime /\ clock' = clock + 1
    /\ UNCHANGED <<contexts, blocklist, allowlist, call, levels, calls, admitted, overtaken>>

LimiterNext ==
    \/ LimiterTick \/ LimiterClearAll
    \/ \E k \in Keys : Reset(k) \/ ChangeLists(k)
    \/ \E t \in Threads :
         \/ \E op \in {"acquire", "debounce", "warmup", "quota"}, k \in Keys : Start(t, op, k)
         \/ TryAcquireListed(t) \/ TryAcquire(t) \/ ShouldDebounce(t) \/ Warmup(t) \/ AskQuota(t)

LimiterSpec == LimiterInit /\ [][LimiterNext]_limiterVars

\* What is remembered of a key at a time.
Context(now) ==
    [sliding : Seq(1 .. now), tokens : Nat, lastRefill : 0 .. now, windowStart : 0 .. now,
     count : Nat, lastTrigger : 0 .. now, last : 0 .. now]
Call == [op : {"acquire", "debounce", "warmup", "quota"}, key : Keys, now : 1 .. clock,
         level : DOMAIN levels]

LimiterTypeOK ==
    /\ clock \in 1 .. Period /\ levels \in Levels /\ calls \in Nat /\ overtaken \in BOOLEAN
    /\ blocklist \subseteq Keys /\ allowlist \subseteq Keys
    /\ \A t \in Threads : call[t] = Idle \/ call[t] \in Call
    /\ DOMAIN call = Threads
    /\ DOMAIN contexts \subseteq Keys
    /\ \A k \in DOMAIN contexts : contexts[k] \in Context(clock)
    /\ DOMAIN admitted = Keys
    /\ \A k \in Keys :
         /\ admitted[k] \in Seq(1 .. clock)
         /\ k \notin DOMAIN contexts => admitted[k] = <<>>

-----------------------------------------------------------------------------
\* How many of the calls recorded for k fell into the window that ends at `at'.
Within(k, at, window) ==
    Cardinality({i \in DOMAIN admitted[k] : admitted[k][i] > at - window /\ admitted[k][i] <= at})

Keeps(k, config) ==
    \A at \in 1 .. clock :
      CASE config.strategy = "SLIDING_WINDOW" -> Within(k, at, config.window) <= config.capacity
        [] config.strategy = "FIXED_WINDOW" -> Within(k, at, config.window) <= 2 * config.capacity
        [] config.strategy = "TOKEN_BUCKET" ->
             \A w \in 1 .. at : Within(k, at, w) * TokenUnits
                                  <= config.capacity * TokenUnits + (w - 1) * config.refill

\* No more calls are let through than the limit says, unless one has used a time that was
\* over; of several sliding windows only the shortest is kept to, for they share what is
\* remembered.  A key has quota left exactly when it would be let through.
AdmittedWithinLimit ==
    /\ overtaken \/ \A k \in Keys, c \in Strictest : Keeps(k, c)
    /\ \A k \in DOMAIN contexts :
         LET tried == Acquire(contexts[k], levels[1], clock)
         IN  GetRemainingQuota(contexts[k], levels[1], clock).quota > 0 <=> tried.acquired
=============================================================================
