----------------------------- MODULE HttpClient -----------------------------
(***************************************************************************)
(* The client all sources share (sources/http.py): a semaphore over all    *)
(* requests, a minimum delay between two requests to one host, retries     *)
(* with back-off.  Callers are coroutines, each with one request under way *)
(* at a time.  Time is counted in ticks.                                   *)
(***************************************************************************)
EXTENDS Integers, FiniteSets

CONSTANTS
    Callers,
    Hosts,
    HostOf,      \* the host a caller talks to
    Slots,       \* http_max_concurrency
    Delay,       \* http_rate_limit_delay, in ticks
    MaxRetries,  \* http_max_retries
    Nobody

ASSUME HttpAssumption ==
    /\ HostOf \in [Callers -> Hosts]
    /\ Nobody \notin Callers
    /\ Slots \in Nat \ {0} /\ Delay \in Nat /\ MaxRetries \in Nat

VARIABLES
    request,   \* request[c]: where the request of a caller stands
    since,     \* since[h]: ticks since a request was last let through to a host
    lock       \* lock[h]: the caller that is waiting out the delay of a host

httpVars == <<request, since, lock>>

NoRequest == [stage |-> "none", attempt |-> 0, wait |-> 0]

HttpInit ==
    /\ request = [c \in Callers |-> NoRequest]
    /\ since = [h \in Hosts |-> Delay]
    /\ lock = [h \in Hosts |-> Nobody]

At(c, stage) == request[c].stage = stage

Goes(c, stage) == request' = [request EXCEPT ![c].stage = stage]

\* The semaphore is held from admission to the answer, the delay included.
Admitted == {c \in Callers : request[c].stage \in {"admitted", "pacing", "sent"}}

\* A request that no fresh response is at hand for.
Request(c) ==
    /\ At(c, "none")
    /\ Goes(c, "queued")
    /\ UNCHANGED <<since, lock>>

TakeSlot(c) ==
    /\ At(c, "queued") /\ Cardinality(Admitted) < Slots
    /\ Goes(c, "admitted")
    /\ UNCHANGED <<since, lock>>

\* The delay without the lock of the host.
PaceUnlocked(c) ==
    LET h == HostOf[c] IN
    /\ At(c, "admitted")
    /\ IF since[h] >= Delay
       THEN /\ Goes(c, "sent")
            /\ since' = [since EXCEPT ![h] = 0]
            /\ UNCHANGED lock
       ELSE /\ request' = [request EXCEPT ![c].stage = "pacing", ![c].wait = Delay - since[h]]
            /\ lock' = [lock EXCEPT ![h] = c]
            /\ UNCHANGED since

\* RateLimiter.acquire: under the lock of the host, look at the clock and sleep.
Pace(c) ==
    LET h == HostOf[c] IN
    /\ At(c, "admitted") /\ lock[h] = Nobody
    /\ IF since[h] >= Delay
       THEN /\ Goes(c, "sent")
            /\ since' = [since EXCEPT ![h] = 0]
            /\ UNCHANGED lock
       ELSE /\ request' = [request EXCEPT ![c].stage = "pacing", ![c].wait = Delay - since[h]]
            /\ lock' = [lock EXCEPT ![h] = c]
            /\ UNCHANGED since

WakeUp(c) ==
    /\ At(c, "pacing") /\ request[c].wait = 0
    /\ Goes(c, "sent")
    /\ since' = [since EXCEPT ![HostOf[c]] = 0]
    /\ lock' = [lock EXCEPT ![HostOf[c]] = Nobody]

\* A response with a payload; one that no retry would improve, or no JSON.
Answer(c) ==
    /\ At(c, "sent")
    /\ Goes(c, "answered") \/ Goes(c, "failed")
    /\ UNCHANGED <<since, lock>>

\* Too many requests, a server error, a timeout: the last attempt fails, unless
\* the answer has a Retry-After, which is slept through even then.
Refused(c) ==
    /\ At(c, "sent")
    /\ \/ Goes(c, "backing off")
       \/ request[c].attempt = MaxRetries /\ Goes(c, "failed")
    /\ UNCHANGED <<since, lock>>

\* A Retry-After that does not count as an attempt.
RetryForFree(c) ==
    /\ At(c, "backing off")
    /\ Goes(c, "queued")
    /\ UNCHANGED <<since, lock>>

Retry(c) ==
    /\ At(c, "backing off")
    /\ IF request[c].attempt = MaxRetries THEN Goes(c, "failed")
       ELSE request' = [request EXCEPT ![c].stage = "queued", ![c].attempt = @ + 1]
    /\ UNCHANGED <<since, lock>>

\* One tick, as long as somebody could tell.
Tick ==
    /\ (\E h \in Hosts : since[h] < Delay) \/ (\E c \in Callers : request[c].wait > 0)
    /\ since' = [h \in Hosts |-> IF since[h] < Delay THEN since[h] + 1 ELSE Delay]
    /\ request' = [c \in Callers |->
                     [request[c] EXCEPT !.wait = IF @ > 0 THEN @ - 1 ELSE 0]]
    /\ UNCHANGED lock

HttpStep(c) ==
    \/ TakeSlot(c) \/ Pace(c) \/ WakeUp(c)
    \/ Answer(c) \/ Refused(c) \/ Retry(c)

-----------------------------------------------------------------------------
(* Properties. *)

\* Two requests to one host are never closer than the delay, although each of
\* them reads the clock before it sleeps ("minimum delay between requests to the
\* same host").
Sends(c) == request[c].stage # "sent" /\ request'[c].stage = "sent"

HostsAreSpared ==
    [][/\ \A c \in Callers : Sends(c) => since[HostOf[c]] >= Delay
       /\ \A c, d \in Callers : Sends(c) /\ Sends(d) /\ HostOf[c] = HostOf[d] => c = d]_httpVars
=============================================================================
