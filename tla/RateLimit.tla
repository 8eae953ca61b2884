------------------------------ MODULE RateLimit ------------------------------
(***************************************************************************)
(* One bucket of the rate limiter (security/rate_limit.py): a fixed-window *)
(* counter in Redis, which _consume drives with INCR, EXPIRE and TTL as    *)
(* three commands, other requests running in between.  RateLimit (per      *)
(* user) and GlobalRateLimit differ only in the name of the bucket.        *)
(*                                                                         *)
(* Time is counted in ticks, of which a second has several; the window is  *)
(* a whole number of seconds.                                              *)
(***************************************************************************)
EXTENDS Naturals

CONSTANTS
    Requests,   \* requests that may be in _consume at the same time
    Limit,      \* limit
    Window,     \* window_seconds, in ticks
    TicksPerSecond,   \* how finely time is told apart
    MaxCount,   \* bound: value of the counter
    MaxFaults   \* bound: commands that fail, processes that die, restarts of Redis

ASSUME LimitsArePositive ==
    /\ Limit \in Nat \ {0}
    /\ Window \in Nat \ {0}
    /\ TicksPerSecond \in Nat \ {0}
    /\ \E seconds \in 1..Window : Window = TicksPerSecond * seconds
    /\ MaxCount \in Nat /\ MaxCount > Limit
    /\ MaxFaults \in Nat

VARIABLES
    count,     \* value of the key; 0: it does not exist
    ttl,       \* ticks until the key expires; 0: it has no expiry
    step,      \* where each request is in _consume
    retry,     \* history: what is left of the Retry-After last given for this key; {}: none
    bare,      \* history: a refusal found its key without an expiry
    recent,    \* history: ticks since the latest admissions, the last one first; Window: or more
    faults     \* history, and counter for the bound

limitVars == <<count, ttl, step, retry, bare, recent, faults>>

Position == {"outside", "expire", "ttl"}

\* As many admissions as a stretch of one window must not hold.
Recalled == 1..2 * Limit + 1

LimitInit ==
    /\ count = 0
    /\ ttl = 0
    /\ step = [r \in Requests |-> "outside"]
    /\ retry = {}
    /\ bare = FALSE
    /\ recent = [i \in Recalled |-> Window]
    /\ faults = 0

\* The bucket is charged: a request counts as admitted from its INCR on.
Charged == recent' = [i \in Recalled |-> IF i = 1 THEN 0 ELSE recent[i - 1]]

\* Variant: one more than the limit gets through.
IncrOneMore(r) ==
    /\ step[r] = "outside"
    /\ count < MaxCount
    /\ count' = count + 1
    /\ IF count' > Limit + 1
       THEN step' = [step EXCEPT ![r] = "ttl"] /\ UNCHANGED recent
       ELSE step' = [step EXCEPT ![r] = IF count' = 1 THEN "expire" ELSE "outside"] /\ Charged
    /\ UNCHANGED <<ttl, retry, bare, faults>>

\* INCR: creates the key without an expiry.  The first request goes on to set one,
\* and one over the limit to ask for it; any other is admitted.
Incr(r) ==
    /\ step[r] = "outside"
    /\ count < MaxCount
    /\ count' = count + 1
    /\ IF count' > Limit
       THEN step' = [step EXCEPT ![r] = "ttl"] /\ UNCHANGED recent
       ELSE step' = [step EXCEPT ![r] = IF count' = 1 THEN "expire" ELSE "outside"] /\ Charged
    /\ UNCHANGED <<ttl, retry, bare, faults>>

\* Variant: the expiry is never set.
ExpireIsMissing(r) ==
    /\ step[r] = "expire"
    /\ step' = [step EXCEPT ![r] = "outside"]
    /\ UNCHANGED <<count, ttl, retry, bare, recent, faults>>

\* Variant: an expiry beyond the window.
ExpireLate(r) ==
    /\ step[r] = "expire"
    /\ ttl' = IF count # 0 THEN Window + 1 ELSE ttl
    /\ step' = [step EXCEPT ![r] = "outside"]
    /\ UNCHANGED <<count, retry, bare, recent, faults>>

\* EXPIRE, which does nothing to a key that is gone.
Expire(r) ==
    /\ step[r] = "expire"
    /\ ttl' = IF count # 0 THEN Window ELSE ttl
    /\ step' = [step EXCEPT ![r] = "outside"]
    /\ UNCHANGED <<count, retry, bare, recent, faults>>

\* TTL of Redis, in ticks: whole seconds, rounded to the nearest.
TimeToLive == TicksPerSecond * ((2 * ttl + TicksPerSecond) \div (2 * TicksPerSecond))

\* Variant: PTTL, cut to whole seconds.
RefuseCut(r) ==
    /\ step[r] = "ttl"
    /\ LET left == TicksPerSecond * (ttl \div TicksPerSecond)
       IN  retry' = IF count = 0 THEN {} ELSE {IF left > 0 THEN left ELSE Window}
    /\ bare' = (bare \/ (count # 0 /\ ttl = 0))
    /\ step' = [step EXCEPT ![r] = "outside"]
    /\ UNCHANGED <<count, ttl, recent, faults>>

\* TTL, and 429 with Retry-After: the whole window if the key is gone, has no expiry, or
\* has less than half a second left.
Refuse(r) ==
    /\ step[r] = "ttl"
    /\ retry' = IF count = 0 THEN {} ELSE {IF TimeToLive > 0 THEN TimeToLive ELSE Window}
    /\ bare' = (bare \/ (count # 0 /\ ttl = 0))
    /\ step' = [step EXCEPT ![r] = "outside"]
    /\ UNCHANGED <<count, ttl, recent, faults>>

\* Time passes; Redis drops the key when its time is up.
WindowTick ==
    /\ ttl' = IF ttl > 0 THEN ttl - 1 ELSE 0
    /\ count' = IF ttl = 1 THEN 0 ELSE count
    /\ retry' = IF ttl = 1 THEN {} ELSE {IF n > 0 THEN n - 1 ELSE 0 : n \in retry}
    /\ recent' = [i \in Recalled |-> IF recent[i] < Window THEN recent[i] + 1 ELSE Window]
    /\ UNCHANGED <<step, bare, faults>>

Fault == faults < MaxFaults /\ faults' = faults + 1

\* A command fails, and the request is let through; or its process dies.
RequestFails(r) ==
    /\ Fault
    /\ step' = [step EXCEPT ![r] = "outside"]
    /\ Charged \/ UNCHANGED recent
    /\ UNCHANGED <<count, ttl, retry, bare>>

\* Redis keeps nothing across a restart of the container.
BucketIsLost ==
    /\ Fault
    /\ count' = 0
    /\ ttl' = 0
    /\ retry' = {}
    /\ UNCHANGED <<step, bare, recent>>

LimitNext ==
    \/ \E r \in Requests : Incr(r) \/ Expire(r) \/ Refuse(r) \/ RequestFails(r)
    \/ WindowTick
    \/ BucketIsLost

LimitSpec == LimitInit /\ [][LimitNext]_limitVars

-----------------------------------------------------------------------------
(* Properties. *)

\* The variables have the types the code gives them.
LimitTypeOK ==
    /\ count \in 0..MaxCount
    /\ ttl \in 0..Window
    /\ step \in [Requests -> Position]
    /\ retry \subseteq 0..Window
    /\ bare \in BOOLEAN
    /\ recent \in [Recalled -> 0..Window]
    /\ faults \in 0..MaxFaults

\* "up to 2x the limit across two adjacent windows" (the module comment) is all that
\* the commands of concurrent requests may let through in any stretch of one window's
\* length, as long as nothing fails: from an admission back to the one 2 * Limit before
\* it, the whole window has passed.
AtMostTwiceTheLimit ==
    faults = 0 => recent[2 * Limit + 1] = Window

\* A counter without expiry has a request under way that will set one, unless that
\* request failed between INCR and EXPIRE: then the key stays for good, and its users
\* are refused until Redis is restarted.
CounterWillExpire ==
    count > 0 /\ ttl = 0 => faults > 0 \/ \E r \in Requests : step[r] = "expire"

\* What a refused client has left to wait is at any time what its window has left, to within
\* half a second: it comes back less than that too early, and waits more than that too long
\* only if it was refused in the last half second.  The others are those refused before the
\* first request was done setting the expiry.
RetryAfterIsNear ==
    faults = 0 /\ ~bare =>
        \A n \in retry :
            /\ 2 * ttl < 2 * n + TicksPerSecond
            /\ 2 * n <= 2 * ttl + TicksPerSecond \/ 2 * ttl < TicksPerSecond

=============================================================================
