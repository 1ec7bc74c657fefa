----------------------------- MODULE RateLimiter -----------------------------
(***************************************************************************)
(* The limiter of login and registration attempts (app/rate_limit.py): a   *)
(* sliding window over the times of the attempts it has allowed, for each  *)
(* action and client, in the memory of the API process.  Handlers are      *)
(* coroutines of one event loop, so that a call reads the clock and        *)
(* decides in one step.                                                    *)
(***************************************************************************)
EXTENDS Integers, Sequences

CONSTANTS Buckets, \* pairs of an action and a client
          Limit,   \* Limit[b]: the setting of the bucket's action
          Window,  \* window_seconds
          Horizon  \* bound: the clock stops there

ASSUME LimitAssumption == Limit \in [Buckets -> Int]
ASSUME TimeAssumption == Window \in Nat \ {0} /\ Horizon \in Nat

VARIABLES clock,  \* time.monotonic()
          hits,   \* hits[b]: the deque of the bucket
          answer, \* answer[b]: what the last call returned, and when
          log     \* history: log[b], times of all allowed attempts

vars == <<clock, hits, answer, log>>

TypeOK ==
  /\ clock \in Nat
  /\ hits \in [Buckets -> Seq(Nat)]
  /\ \A b \in Buckets : Limit[b] > 0 => Len(hits[b]) <= Limit[b]
  /\ answer \in [Buckets -> [allowed : BOOLEAN, at : Nat]]
  /\ log \in [Buckets -> Seq(Nat)]

Init ==
  /\ clock = 0
  /\ hits = [b \in Buckets |-> << >>]
  /\ answer = [b \in Buckets |-> [allowed |-> TRUE, at |-> 0]]
  /\ log = [b \in Buckets |-> << >>]

Tick ==
  /\ clock < Horizon
  /\ clock' = clock + 1
  /\ UNCHANGED <<hits, answer, log>>

\* Deliberate error: a hit counts a moment longer than the window.
ExpiredLater(time) == time < clock - Window
\* bucket[0] <= cutoff
Expired(time) == time <= clock - Window

\* Deliberate error: one attempt above the limit.
FullAbove(bucket, limit) == Len(bucket) > limit
Full(bucket, limit) == Len(bucket) >= limit

\* The deque without its expired head: n entries are popped.
Popped(bucket, n) ==
  /\ \A i \in 1..n : Expired(bucket[i])
  /\ n < Len(bucket) => ~Expired(bucket[n + 1])

Answers(b, ok) == answer' = [answer EXCEPT ![b] = [allowed |-> ok, at |-> clock]]

\* InMemoryRateLimiter.allow.
Allow(b) ==
  /\ Limit[b] > 0
  /\ \E n \in 0..Len(hits[b]) :
       LET bucket == SubSeq(hits[b], n + 1, Len(hits[b])) IN
       /\ Popped(hits[b], n)
       /\ IF Full(bucket, Limit[b])
          THEN /\ hits' = [hits EXCEPT ![b] = bucket]
               /\ Answers(b, FALSE)
               /\ UNCHANGED log
          ELSE /\ hits' = [hits EXCEPT ![b] = Append(bucket, clock)]
               /\ Answers(b, TRUE)
               /\ log' = [log EXCEPT ![b] = Append(@, clock)]
  /\ UNCHANGED clock

\* A limit of zero, or below, forbids the action.
Forbid(b) ==
  /\ Limit[b] <= 0
  /\ Answers(b, FALSE)
  /\ UNCHANGED <<clock, hits, log>>

\* The process starts again, and knows of no attempt.
Restart ==
  /\ hits' = [b \in Buckets |-> << >>]
  /\ log' = [b \in Buckets |-> << >>]
  /\ answer' = [b \in Buckets |-> [allowed |-> TRUE, at |-> clock]]
  /\ UNCHANGED clock

Next == Tick \/ Restart \/ \E b \in Buckets : Allow(b) \/ Forbid(b)

Spec == Init /\ [][Next]_vars

-----------------------------------------------------------------------------

\* Since the process has started, no client makes more than the limit of
\* allowed attempts within any window: the one that exceeds the limit comes a
\* whole window after the first of them.
WindowIsLimited ==
  \A b \in Buckets :
    /\ Limit[b] <= 0 => log[b] = << >>
    /\ \A i, j \in DOMAIN log[b] :
         j = i + Limit[b] => log[b][j] >= log[b][i] + Window

\* Nobody is refused for attempts that are older than the window: a refusal
\* means that the limit was used up within the window before it.
RefusedOnlyWhenFull ==
  \A b \in Buckets :
    ~answer[b].allowed /\ Limit[b] > 0 =>
      /\ Len(log[b]) >= Limit[b]
      /\ log[b][Len(log[b]) - Limit[b] + 1] + Window > answer[b].at

=============================================================================
