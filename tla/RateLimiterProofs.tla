-------------------------- MODULE RateLimiterProofs --------------------------
(***************************************************************************)
(* Proofs about the rate limiter, for every set of buckets, every limit    *)
(* and every window.                                                       *)
(*                                                                         *)
(* The invariants of the runs are not inductive: they speak of the log,    *)
(* and the code looks at the deque.  What relates the two is that the      *)
(* deque is the end of the log, that what precedes it there has expired,   *)
(* and that the log is sorted.                                             *)
(***************************************************************************)
EXTENDS RateLimiter, TLAPS

\* Entries of a sequence that are limit apart lie a window apart.
Spaced(s, limit, window) ==
  \A i, j \in DOMAIN s : j = i + limit => s[j] >= s[i] + window

\* A sequence is sorted and reaches no further than now.
SortedTo(s, now) ==
  \A i, j \in DOMAIN s : i <= j => s[i] <= s[j] /\ s[j] <= now

\* What u has is what s has after its first k entries.
EndOf(u, s, k) ==
  \A i \in DOMAIN u, j \in DOMAIN s : j = k + i => u[i] = s[j]

\* How many entries of a bucket's log are no longer in its deque.
Dropped(b) == Len(log[b]) - Len(hits[b])

\* The deque is the end of the log.
HitsEndLog ==
  \A b \in Buckets : Dropped(b) \in Nat /\ EndOf(hits[b], log[b], Dropped(b))

\* What is not in the deque has left the window.
DroppedIsOld ==
  \A b \in Buckets : \A i \in 1..Dropped(b) : log[b][i] + Window <= clock

\* The log is sorted, and of the past.
LogIsSorted == \A b \in Buckets : SortedTo(log[b], clock)

\* WindowIsLimited, in the words of the lemmas.
LogIsSpaced ==
  \A b \in Buckets : /\ Limit[b] <= 0 => log[b] = << >>
                     /\ Spaced(log[b], Limit[b], Window)

Inv == TypeOK /\ HitsEndLog /\ DroppedIsOld /\ LogIsSorted /\ LogIsSpaced
         /\ RefusedOnlyWhenFull

-----------------------------------------------------------------------------

\* u is what is left of s after n entries were popped from its head.
PopsTo(s, n, u) ==
  /\ u \in Seq(Nat) /\ Len(u) \in Nat /\ DOMAIN u = 1..Len(u)
  /\ Len(s) = n + Len(u)
  /\ \A i \in 1..Len(u), j \in 1..Len(s) : j = n + i => u[i] = s[j]

\* Popping is the SubSeq of the model.
LEMMA PoppedBucket ==
  ASSUME NEW s \in Seq(Nat), NEW n \in 0..Len(s)
  PROVE  PopsTo(s, n, SubSeq(s, n + 1, Len(s)))
<1> DEFINE u == SubSeq(s, n + 1, Len(s))
<1>1. Len(s) \in Nat /\ n \in Nat /\ n <= Len(s)
  OBVIOUS
<1>2. \A i \in (n + 1)..Len(s) : s[i] \in Nat
  BY <1>1
<1>3. u \in Seq(Nat) /\ Len(u) = Len(s) - n
  BY <1>1, <1>2
<1>4. DOMAIN u = 1..Len(u) /\ Len(u) \in Nat
  BY <1>3
<1>5. \A i \in 1..(Len(s) - n), j \in 1..Len(s) : j = n + i => u[i] = s[j]
  BY <1>1
<1> HIDE DEF u
<1>6. Len(s) = n + Len(u)
  BY <1>1, <1>3
<1>7. PopsTo(s, n, u)
  BY <1>1, <1>3, <1>4, <1>5, <1>6 DEF PopsTo
<1> QED
  BY <1>7 DEF u

\* An entry appended to a sequence of times.
LEMMA AppendedTime ==
  ASSUME NEW s \in Seq(Nat), NEW t \in Nat
  PROVE  /\ Append(s, t) \in Seq(Nat)
         /\ Len(Append(s, t)) = Len(s) + 1
         /\ \A i \in 1..Len(s) : Append(s, t)[i] = s[i]
         /\ Append(s, t)[Len(s) + 1] = t
         /\ DOMAIN Append(s, t) = 1..(Len(s) + 1)
OBVIOUS

\* The domain and the entries of a sequence of times.
LEMMA Entries ==
  ASSUME NEW s \in Seq(Nat)
  PROVE  Len(s) \in Nat /\ DOMAIN s = 1..Len(s) /\ \A i \in 1..Len(s) : s[i] \in Nat
OBVIOUS

\* Of the positions up to n + 1, all but the last are positions up to n.
LEMMA NotTheLast ==
  ASSUME NEW n \in Nat, NEW j \in 1..(n + 1), j # n + 1
  PROVE  j \in 1..n
OBVIOUS

\* An end of a sequence stays one when the same entry is appended to both.
LEMMA AppendedEnd ==
  ASSUME NEW s \in Seq(Nat), NEW u \in Seq(Nat), NEW t \in Nat, NEW k \in Nat,
         Len(s) = k + Len(u), EndOf(u, s, k)
  PROVE  EndOf(Append(u, t), Append(s, t), k)
<1>1. /\ Len(s) \in Nat /\ DOMAIN s = 1..Len(s) /\ Len(u) \in Nat /\ DOMAIN u = 1..Len(u)
      /\ DOMAIN Append(s, t) = 1..(Len(s) + 1) /\ DOMAIN Append(u, t) = 1..(Len(u) + 1)
  BY Entries, AppendedTime
<1>lengths. Len(s) \in Nat /\ Len(u) \in Nat
  BY <1>1
<1> SUFFICES ASSUME NEW i \in 1..(Len(u) + 1), NEW j \in 1..(Len(s) + 1), j = k + i
             PROVE  Append(u, t)[i] = Append(s, t)[j]
  BY <1>1 DEF EndOf
<1>2. CASE i = Len(u) + 1
  <2>1. j = Len(s) + 1
    BY <1>1, <1>2
  <2>2. Append(u, t)[Len(u) + 1] = t /\ Append(s, t)[Len(s) + 1] = t
    BY AppendedTime
  <2> QED
    BY <1>2, <2>1, <2>2
<1>3. CASE i # Len(u) + 1
  <2>1. i \in 1..Len(u) /\ j \in 1..Len(s)
    BY <1>lengths, <1>3
  <2>2. Append(u, t)[i] = u[i] /\ Append(s, t)[j] = s[j]
    BY <2>1, AppendedTime
  <2> QED
    BY <1>1, <2>1, <2>2 DEF EndOf
<1> QED
  BY <1>2, <1>3

\* A sorted sequence of past times stays one when the present is appended.
LEMMA AppendedIsSorted ==
  ASSUME NEW s \in Seq(Nat), NEW t \in Nat, SortedTo(s, t)
  PROVE  SortedTo(Append(s, t), t)
<1>1. Len(s) \in Nat /\ DOMAIN s = 1..Len(s) /\ DOMAIN Append(s, t) = 1..(Len(s) + 1)
  BY Entries, AppendedTime
<1>length. Len(s) \in Nat
  BY <1>1
<1> SUFFICES ASSUME NEW i \in 1..(Len(s) + 1), NEW j \in 1..(Len(s) + 1), i <= j
             PROVE  Append(s, t)[i] <= Append(s, t)[j] /\ Append(s, t)[j] <= t
  BY <1>1 DEF SortedTo
<1>2. CASE j # Len(s) + 1
  <2>1. i \in 1..Len(s) /\ j \in 1..Len(s)
    BY <1>length, <1>2
  <2>2. Append(s, t)[i] = s[i] /\ Append(s, t)[j] = s[j]
    BY <2>1, AppendedTime
  <2> QED
    BY <1>1, <2>1, <2>2 DEF SortedTo
<1>3. CASE j = Len(s) + 1 /\ i # Len(s) + 1
  <2>1. i \in 1..Len(s)
    BY <1>length, <1>3
  <2>2. Append(s, t)[i] = s[i] /\ Append(s, t)[j] = t
    BY <1>3, <2>1, AppendedTime
  <2>3. s[i] <= t
    BY <1>1, <2>1 DEF SortedTo
  <2> QED
    BY <2>2, <2>3
<1>4. CASE j = Len(s) + 1 /\ i = Len(s) + 1
  <2>1. Append(s, t)[i] = t /\ Append(s, t)[j] = t
    BY <1>4, AppendedTime
  <2> QED
    BY <2>1
<1> QED
  BY <1>2, <1>3, <1>4

\* Entries a limit apart lie a window apart, also when one is appended that has
\* fewer than the limit before it within the window.
LEMMA AppendedIsSpaced ==
  ASSUME NEW s \in Seq(Nat), NEW t \in Nat, NEW limit \in Nat, limit > 0,
         NEW window \in Nat, NEW gone \in Nat, Len(s) < gone + limit,
         \A i \in 1..gone : s[i] + window <= t,
         Spaced(s, limit, window)
  PROVE  Spaced(Append(s, t), limit, window)
<1> DEFINE a == Append(s, t)
<1>1. Len(s) \in Nat /\ DOMAIN s = 1..Len(s) /\ DOMAIN a = 1..(Len(s) + 1)
  BY Entries, AppendedTime
<1>2. \A k \in 1..Len(s) : a[k] = s[k] /\ s[k] \in Nat
  BY Entries, AppendedTime
<1>3. a[Len(s) + 1] = t
  BY AppendedTime
<1> HIDE DEF a
<1> SUFFICES ASSUME NEW i \in 1..(Len(s) + 1), NEW j \in 1..(Len(s) + 1), j = i + limit
             PROVE  a[j] >= a[i] + window
  BY <1>1 DEF Spaced, a
<1>length. Len(s) \in Nat
  BY <1>1
<1>4. i \in 1..Len(s)
  BY <1>length
<1>spaced. \A k, l \in 1..Len(s) : l = k + limit => s[l] >= s[k] + window
  BY <1>1 DEF Spaced
<1>apart. j = i + limit
  OBVIOUS
<1>5. CASE j # Len(s) + 1
  <2>1. j \in 1..Len(s)
    BY ONLY <1>length, <1>5, NotTheLast
  <2>2. s[j] >= s[i] + window
    BY ONLY <1>spaced, <1>4, <2>1, <1>apart
  <2>3. a[j] = s[j] /\ a[i] = s[i]
    BY ONLY <1>2, <1>4, <2>1
  <2> QED
    BY ONLY <2>2, <2>3
<1>6. CASE j = Len(s) + 1
  <2>1. i \in 1..gone
    BY <1>length, <1>4, <1>6
  <2>2. s[i] + window <= t /\ s[i] \in Nat
    BY <1>2, <1>4, <2>1
  <2> QED
    <3>1. a[i] = s[i] /\ a[j] = t
      BY ONLY <1>2, <1>3, <1>4, <1>6
    <3>2. s[i] \in Nat /\ t \in Nat /\ window \in Nat
      BY <2>2
    <3> QED
      BY ONLY <2>2, <3>1, <3>2
<1> QED
  BY <1>5, <1>6

\* A time that is not before a live one is live.
LEMMA LaterIsLive ==
  ASSUME NEW x \in Nat, NEW y \in Nat, NEW now \in Nat, NEW window \in Nat,
         x <= y, x > now - window
  PROVE  y + window > now
OBVIOUS

\* The empty sequence is everything the lemmas ask for.
LEMMA EmptySequence ==
  ASSUME NEW limit, NEW window, NEW now, NEW s
  PROVE  Spaced(<< >>, limit, window) /\ SortedTo(<< >>, now) /\ EndOf(<< >>, s, 0)
BY DEF Spaced, SortedTo, EndOf

-----------------------------------------------------------------------------

\* The invariant holds at the start of the process.
LEMMA InitInv == Init => Inv
<1> SUFFICES ASSUME Init PROVE Inv
  OBVIOUS
<1>1. \A b \in Buckets : hits[b] = << >> /\ log[b] = << >> /\ answer[b].allowed
  BY DEF Init
<1>2. TypeOK
  BY <1>1, LimitAssumption DEF Init, TypeOK
<1>3. \A b \in Buckets : Dropped(b) = 0
  <2> TAKE b \in Buckets
  <2>1. Len(hits[b]) = 0 /\ Len(log[b]) = 0
    BY <1>1
  <2>2. Dropped(b) = Len(log[b]) - Len(hits[b])
    BY DEF Dropped
  <2> QED
    BY <2>1, <2>2
<1>4. HitsEndLog /\ LogIsSorted /\ LogIsSpaced
  BY <1>1, <1>3, EmptySequence DEF HitsEndLog, LogIsSorted, LogIsSpaced
<1>5. DroppedIsOld
  BY <1>3 DEF DroppedIsOld
<1>6. RefusedOnlyWhenFull
  BY <1>1 DEF RefusedOnlyWhenFull
<1> QED
  BY <1>2, <1>4, <1>5, <1>6 DEF Inv

\* Time moves the window on: what had left it has left it.
LEMMA TickInv == Inv /\ Tick => Inv'
<1> SUFFICES ASSUME Inv, Tick PROVE Inv'
  OBVIOUS
<1>1. clock \in Nat /\ clock' = clock + 1 /\ hits' = hits /\ log' = log /\ answer' = answer
  BY DEF Inv, TypeOK, Tick
<1>2. TypeOK'
  BY <1>1 DEF Inv, TypeOK
<1>3. HitsEndLog' /\ LogIsSpaced' /\ RefusedOnlyWhenFull'
  BY <1>1 DEF Inv, HitsEndLog, Dropped, LogIsSpaced, RefusedOnlyWhenFull
<1>4. DroppedIsOld'
  <2> SUFFICES ASSUME NEW b \in Buckets, NEW i \in 1..Dropped(b)
               PROVE  log[b][i] + Window <= clock'
    BY <1>1 DEF DroppedIsOld, Dropped
  <2>1. log[b][i] + Window <= clock
    BY DEF Inv, DroppedIsOld
  <2>2. log[b] \in Seq(Nat) /\ hits[b] \in Seq(Nat)
    BY DEF Inv, TypeOK
  <2>3. i \in 1..Len(log[b])
    BY <2>2, Entries DEF Dropped
  <2>4. log[b][i] \in Nat
    BY <2>2, <2>3, Entries
  <2> QED
    BY <2>1, <2>4, <1>1, TimeAssumption
<1>5. LogIsSorted'
  <2> SUFFICES ASSUME NEW b \in Buckets, NEW i \in DOMAIN log[b], NEW j \in DOMAIN log[b],
                      i <= j
               PROVE  log[b][i] <= log[b][j] /\ log[b][j] <= clock'
    BY <1>1 DEF LogIsSorted, SortedTo
  <2>1. log[b][i] <= log[b][j] /\ log[b][j] <= clock
    BY DEF Inv, LogIsSorted, SortedTo
  <2>2. log[b] \in Seq(Nat)
    BY DEF Inv, TypeOK
  <2>3. log[b][j] \in Nat
    BY <2>2, Entries
  <2> QED
    BY <2>1, <2>3, <1>1
<1> QED
  BY <1>2, <1>3, <1>4, <1>5 DEF Inv

\* A restarted process has forgotten its deques, and its log with them.
LEMMA RestartInv == Inv /\ Restart => Inv'
<1> SUFFICES ASSUME Inv, Restart PROVE Inv'
  OBVIOUS
<1>1. \A b \in Buckets : hits'[b] = << >> /\ log'[b] = << >> /\ answer'[b].allowed
  BY DEF Restart
<1>2. TypeOK'
  BY <1>1, LimitAssumption DEF Inv, Restart, TypeOK
<1>3. \A b \in Buckets : Dropped(b)' = 0
  BY <1>1 DEF Dropped
<1>4. HitsEndLog' /\ LogIsSorted' /\ LogIsSpaced'
  BY <1>1, <1>3, EmptySequence DEF HitsEndLog, LogIsSorted, LogIsSpaced
<1>5. DroppedIsOld'
  BY <1>3 DEF DroppedIsOld
<1>6. RefusedOnlyWhenFull'
  BY <1>1 DEF RefusedOnlyWhenFull
<1> QED
  BY <1>2, <1>4, <1>5, <1>6 DEF Inv

\* A forbidden action leaves deque and log as they are.
LEMMA ForbidInv ==
  ASSUME NEW b \in Buckets, Inv, Forbid(b)
  PROVE  Inv'
<1>1. /\ answer' = [answer EXCEPT ![b] = [allowed |-> FALSE, at |-> clock]]
      /\ clock' = clock /\ hits' = hits /\ log' = log
  BY DEF Forbid, Answers
<1>2. TypeOK'
  BY <1>1 DEF Inv, TypeOK
<1>3. HitsEndLog' /\ DroppedIsOld' /\ LogIsSorted' /\ LogIsSpaced'
  BY <1>1 DEF Inv, HitsEndLog, DroppedIsOld, Dropped, LogIsSorted, LogIsSpaced
<1>4. RefusedOnlyWhenFull'
  <2> SUFFICES ASSUME NEW c \in Buckets, ~answer'[c].allowed, Limit[c] > 0
               PROVE  /\ Len(log[c]) >= Limit[c]
                      /\ log[c][Len(log[c]) - Limit[c] + 1] + Window > answer'[c].at
    BY <1>1 DEF RefusedOnlyWhenFull
  <2>1. c # b
    BY LimitAssumption DEF Forbid
  <2>2. answer'[c] = answer[c]
    BY <1>1, <2>1 DEF Inv, TypeOK
  <2> QED
    BY <2>2 DEF Inv, RefusedOnlyWhenFull
<1> QED
  BY <1>2, <1>3, <1>4 DEF Inv

\* An attempt that is counted or refused: the popped entries have expired, the
\* first of those that stay has not.
LEMMA AllowInv ==
  ASSUME NEW b \in Buckets, Inv, Allow(b)
  PROVE  Inv'
<1>1. PICK n \in 0..Len(hits[b]) :
        LET bucket == SubSeq(hits[b], n + 1, Len(hits[b])) IN
        /\ Popped(hits[b], n)
        /\ IF Full(bucket, Limit[b])
           THEN /\ hits' = [hits EXCEPT ![b] = bucket]
                /\ Answers(b, FALSE)
                /\ UNCHANGED log
           ELSE /\ hits' = [hits EXCEPT ![b] = Append(bucket, clock)]
                /\ Answers(b, TRUE)
                /\ log' = [log EXCEPT ![b] = Append(@, clock)]
  BY DEF Allow
<1> DEFINE bucket == SubSeq(hits[b], n + 1, Len(hits[b]))
           gone   == Dropped(b) + n
<1>2. /\ Limit[b] \in Nat /\ Limit[b] > 0
      /\ clock \in Nat /\ clock' = clock
      /\ Window \in Nat /\ Window > 0
      /\ hits[b] \in Seq(Nat) /\ log[b] \in Seq(Nat)
  BY LimitAssumption, TimeAssumption DEF Allow, Inv, TypeOK
<1>3. /\ Len(hits[b]) \in Nat /\ Len(log[b]) \in Nat
      /\ n \in Nat /\ n <= Len(hits[b])
  BY <1>2, Entries
<1>domains. /\ DOMAIN hits[b] = 1..Len(hits[b])
            /\ DOMAIN log[b] = 1..Len(log[b])
  BY <1>2, Entries
<1>times. \A i \in 1..Len(log[b]) : log[b][i] \in Nat
  BY <1>2, Entries
<1>4. Dropped(b) \in Nat /\ Len(log[b]) = Dropped(b) + Len(hits[b])
  <2>1. Dropped(b) \in Nat
    BY DEF Inv, HitsEndLog
  <2>2. Len(log[b]) \in Nat /\ Len(hits[b]) \in Nat
    BY <1>3
  <2> QED
    BY <2>1, <2>2 DEF Dropped
<1>pops. PopsTo(hits[b], n, bucket)
  BY <1>2, PoppedBucket
<1> HIDE DEF bucket
<1>popped. /\ bucket \in Seq(Nat) /\ DOMAIN bucket = 1..Len(bucket)
           /\ \A i \in 1..Len(bucket), j \in 1..Len(hits[b]) :
                j = n + i => bucket[i] = hits[b][j]
  BY <1>pops DEF PopsTo
<1>5. Len(bucket) \in Nat /\ Len(hits[b]) = n + Len(bucket)
  BY <1>pops DEF PopsTo
<1>6. gone \in Nat /\ Len(log[b]) = gone + Len(bucket)
  <2>1. n \in Nat /\ Len(bucket) \in Nat /\ Len(hits[b]) = n + Len(bucket)
    BY <1>3, <1>5
  <2> QED
    BY <1>4, <2>1
<1>7. \A i \in DOMAIN hits[b], j \in DOMAIN log[b] :
        j = Dropped(b) + i => hits[b][i] = log[b][j]
  BY DEF Inv, HitsEndLog, EndOf
<1>8. /\ Popped(hits[b], n)
      /\ Full(bucket, Limit[b]) =>
           /\ hits' = [hits EXCEPT ![b] = bucket]
           /\ answer' = [answer EXCEPT ![b] = [allowed |-> FALSE, at |-> clock]]
           /\ log' = log
      /\ ~Full(bucket, Limit[b]) =>
           /\ hits' = [hits EXCEPT ![b] = Append(bucket, clock)]
           /\ answer' = [answer EXCEPT ![b] = [allowed |-> TRUE, at |-> clock]]
           /\ log' = [log EXCEPT ![b] = Append(log[b], clock)]
  BY <1>1 DEF Answers, bucket
<1>9. EndOf(bucket, log[b], gone)
  <2> SUFFICES ASSUME NEW i \in 1..Len(bucket), NEW j \in 1..Len(log[b]), j = gone + i
               PROVE  bucket[i] = log[b][j]
    BY <1>domains, <1>popped DEF EndOf
  <2> DEFINE k == n + i
  <2>1. k \in 1..Len(hits[b]) /\ j = Dropped(b) + k
    BY <1>3, <1>4, <1>5
  <2>2. hits[b][k] = log[b][j]
    BY <1>domains, <1>7, <2>1
  <2>3. bucket[i] = hits[b][k]
    BY <1>popped, <2>1
  <2> QED
    BY <2>2, <2>3
<1>10. \A i \in 1..gone : log[b][i] + Window <= clock
  <2> SUFFICES ASSUME NEW i \in 1..gone PROVE log[b][i] + Window <= clock
    OBVIOUS
  <2>1. CASE i <= Dropped(b)
    BY <1>4, <2>1 DEF Inv, DroppedIsOld
  <2>2. CASE i > Dropped(b)
    <3> DEFINE k == i - Dropped(b)
    <3>1. k \in 1..n /\ k \in 1..Len(hits[b]) /\ i \in 1..Len(log[b]) /\ i = Dropped(b) + k
      BY <1>3, <1>4, <2>2
    <3>2. Expired(hits[b][k])
      BY <1>8, <3>1 DEF Popped
    <3>3. hits[b][k] = log[b][i] /\ log[b][i] \in Nat
      BY <1>domains, <1>times, <1>7, <3>1
    <3> HIDE DEF k
    <3> QED
      BY <3>2, <3>3, <1>2 DEF Expired
  <2> QED
    BY <1>3, <1>times, <1>4, <2>1, <2>2
<1> HIDE DEF gone
<1>11. CASE Full(bucket, Limit[b])
  <2>1. /\ hits' = [hits EXCEPT ![b] = bucket] /\ log' = log
        /\ answer' = [answer EXCEPT ![b] = [allowed |-> FALSE, at |-> clock]]
    BY <1>8, <1>11
  <2>2. /\ hits'[b] = bucket /\ answer'[b].at = clock
        /\ \A c \in Buckets : c # b => hits'[c] = hits[c] /\ answer'[c] = answer[c]
    BY <2>1 DEF Inv, TypeOK
  <2>3. Len(bucket) >= Limit[b] /\ Len(bucket) <= Len(hits[b])
    BY <1>3, <1>5, <1>11 DEF Full
  <2>4. TypeOK'
    <3>1. \A c \in Buckets : Limit[c] > 0 => Len(hits'[c]) <= Limit[c]
      <4> SUFFICES ASSUME NEW c \in Buckets, Limit[c] > 0 PROVE Len(hits'[c]) <= Limit[c]
        OBVIOUS
      <4>1. Len(hits[c]) <= Limit[c]
        BY DEF Inv, TypeOK
      <4>2. Len(bucket) \in Nat /\ Len(hits[b]) \in Nat /\ Limit[b] \in Nat
        BY <1>2, <1>3, <1>5
      <4>3. CASE c = b
        BY <2>2, <2>3, <4>1, <4>2, <4>3
      <4>4. CASE c # b
        BY <2>2, <4>1, <4>4
      <4> QED
        BY <4>3, <4>4
    <3>2. hits' \in [Buckets -> Seq(Nat)]
      BY <1>popped, <2>1 DEF Inv, TypeOK
    <3>3. answer' \in [Buckets -> [allowed : BOOLEAN, at : Nat]]
      BY <1>2, <2>1 DEF Inv, TypeOK
    <3> QED
      BY <1>2, <2>1, <3>1, <3>2, <3>3 DEF Inv, TypeOK
  <2>5. Dropped(b)' = gone /\ \A c \in Buckets : c # b => Dropped(c)' = Dropped(c)
    BY <1>3, <1>5, <1>6, <2>1, <2>2 DEF Dropped
  <2>6. HitsEndLog'
    BY <1>6, <1>9, <2>1, <2>2, <2>5 DEF Inv, HitsEndLog
  <2>7. DroppedIsOld'
    BY <1>2, <1>10, <2>1, <2>5 DEF Inv, DroppedIsOld
  <2>8. LogIsSorted' /\ LogIsSpaced'
    BY <1>2, <2>1 DEF Inv, LogIsSorted, LogIsSpaced
  <2>9. RefusedOnlyWhenFull'
    <3> SUFFICES ASSUME NEW c \in Buckets, ~answer'[c].allowed, Limit[c] > 0
                 PROVE  /\ Len(log[c]) >= Limit[c]
                        /\ log[c][Len(log[c]) - Limit[c] + 1] + Window > answer'[c].at
      BY <2>1 DEF RefusedOnlyWhenFull
    <3>1. CASE c # b
      BY <2>2, <3>1 DEF Inv, RefusedOnlyWhenFull
    <3>2. CASE c = b
      <4> DEFINE first == gone + 1
                 last  == Len(log[b]) - Limit[b] + 1
                 head  == n + 1
      <4>1. head \in 1..Len(hits[b]) /\ first = Dropped(b) + head
        <5>1. Len(bucket) \in Nat /\ Len(bucket) >= 1
          BY <1>2, <1>5, <2>3
        <5>2. head \in 1..Len(hits[b])
          BY <1>3, <1>5, <5>1
        <5>3. first = Dropped(b) + head
          <6>1. Dropped(b) \in Nat /\ n \in Nat
            BY <1>3, <1>4
          <6> QED
            BY <6>1 DEF gone
        <5> QED
          BY <5>2, <5>3
      <4>2. first \in 1..Len(log[b]) /\ last \in 1..Len(log[b]) /\ first <= last
        <5>1. Len(bucket) \in Nat /\ Limit[b] \in Nat /\ Limit[b] > 0 /\ Len(log[b]) \in Nat
          BY <1>2, <1>3, <1>5
        <5> QED
          BY <1>6, <2>3, <5>1
      <4>3. ~Expired(hits[b][head])
        BY <1>2, <1>3, <1>5, <1>8, <2>3 DEF Popped
      <4> HIDE DEF first, last, head
      <4>4. hits[b][head] = log[b][first]
        BY <1>domains, <1>7, <4>1, <4>2
      <4>5. log[b][first] <= log[b][last]
        BY <1>domains, <4>2 DEF Inv, LogIsSorted, SortedTo
      <4>6. log[b][first] \in Nat /\ log[b][last] \in Nat
        BY <1>times, <4>2
      <4>7. log[b][first] > clock - Window
        BY <1>2, <4>3, <4>4, <4>6 DEF Expired
      <4>8. log[b][last] + Window > clock
        <5>1. clock \in Nat /\ Window \in Nat
          BY <1>2
        <5> QED
          BY ONLY <5>1, <4>5, <4>6, <4>7, LaterIsLive
      <4>9. Len(log[b]) >= Limit[b]
        <5>1. Len(bucket) \in Nat /\ Limit[b] \in Nat
          BY <1>2, <1>5
        <5>2. gone \in Nat /\ Len(log[b]) = gone + Len(bucket) /\ Len(bucket) >= Limit[b]
          BY <1>6, <2>3
        <5> QED
          BY ONLY <5>1, <5>2
      <4> QED
        BY <2>2, <3>2, <4>8, <4>9 DEF last
    <3> QED
      BY <3>1, <3>2
  <2> QED
    BY <2>4, <2>6, <2>7, <2>8, <2>9 DEF Inv
<1>12. CASE ~Full(bucket, Limit[b])
  <2> DEFINE longer == Append(bucket, clock)
             logged == Append(log[b], clock)
  <2>1. /\ hits' = [hits EXCEPT ![b] = longer] /\ log' = [log EXCEPT ![b] = logged]
        /\ answer' = [answer EXCEPT ![b] = [allowed |-> TRUE, at |-> clock]]
    BY <1>8, <1>12
  <2>2. /\ hits'[b] = longer /\ log'[b] = logged /\ answer'[b].allowed
        /\ \A c \in Buckets : c # b => /\ hits'[c] = hits[c] /\ log'[c] = log[c]
                                       /\ answer'[c] = answer[c]
    BY <2>1 DEF Inv, TypeOK
  <2>3. Len(bucket) < Limit[b]
    BY <1>2, <1>5, <1>12 DEF Full
  <2>4. longer \in Seq(Nat) /\ Len(longer) = Len(bucket) + 1
    <3>1. bucket \in Seq(Nat) /\ clock \in Nat
      BY <1>2, <1>popped
    <3> QED
      BY ONLY <3>1, AppendedTime
  <2>5. /\ logged \in Seq(Nat) /\ Len(logged) = Len(log[b]) + 1
        /\ \A i \in 1..Len(log[b]) : logged[i] = log[b][i]
    BY <1>2, AppendedTime
  <2>6. EndOf(longer, logged, gone)
    BY <1>2, <1>popped, <1>6, <1>9, AppendedEnd
  <2>7. SortedTo(logged, clock)
    BY <1>2, AppendedIsSorted DEF Inv, LogIsSorted
  <2>8. Spaced(logged, Limit[b], Window)
    <3>1. Len(log[b]) < gone + Limit[b]
      BY <1>2, <1>3, <1>5, <1>6, <2>3
    <3>2. Spaced(log[b], Limit[b], Window)
      BY DEF Inv, LogIsSpaced
    <3> QED
      BY <1>2, <1>6, <1>10, <3>1, <3>2, AppendedIsSpaced
  <2> HIDE DEF longer, logged
  <2>9. TypeOK'
    <3>1. \A c \in Buckets : Limit[c] > 0 => Len(hits'[c]) <= Limit[c]
      <4> SUFFICES ASSUME NEW c \in Buckets, Limit[c] > 0 PROVE Len(hits'[c]) <= Limit[c]
        OBVIOUS
      <4>1. Len(hits[c]) <= Limit[c]
        BY DEF Inv, TypeOK
      <4>2. Len(longer) <= Limit[b]
        BY <1>2, <1>5, <2>3, <2>4
      <4> QED
        BY <2>2, <4>1, <4>2
    <3>2. hits' \in [Buckets -> Seq(Nat)] /\ log' \in [Buckets -> Seq(Nat)]
      BY <2>1, <2>4, <2>5 DEF Inv, TypeOK
    <3>3. answer' \in [Buckets -> [allowed : BOOLEAN, at : Nat]]
      BY <1>2, <2>1 DEF Inv, TypeOK
    <3> QED
      BY <1>2, <3>1, <3>2, <3>3 DEF TypeOK
  <2>10. Dropped(b)' = gone /\ \A c \in Buckets : c # b => Dropped(c)' = Dropped(c)
    <3>1. Len(bucket) \in Nat /\ Len(log[b]) \in Nat
      BY <1>3, <1>5
    <3>2. (Len(log[b]) + 1) - (Len(bucket) + 1) = gone
      BY <1>6, <3>1
    <3>3. Len(log'[b]) = Len(log[b]) + 1 /\ Len(hits'[b]) = Len(bucket) + 1
      BY <2>2, <2>4, <2>5
    <3> QED
      BY <2>2, <3>2, <3>3 DEF Dropped
  <2>11. HitsEndLog'
    BY <1>6, <2>2, <2>6, <2>10 DEF Inv, HitsEndLog
  <2>12. DroppedIsOld'
    <3>1. \A i \in 1..gone : i \in 1..Len(log[b])
      BY <1>3, <1>5, <1>6
    <3>2. \A i \in 1..gone : logged[i] + Window <= clock
      BY <1>10, <2>5, <3>1
    <3> QED
      BY <1>2, <2>2, <2>10, <3>2 DEF Inv, DroppedIsOld
  <2>13. LogIsSorted'
    BY <1>2, <2>2, <2>7 DEF Inv, LogIsSorted
  <2>14. LogIsSpaced'
    <3>1. ~(Limit[b] <= 0)
      BY <1>2
    <3> QED
      BY <2>2, <2>8, <3>1 DEF Inv, LogIsSpaced
  <2>15. RefusedOnlyWhenFull'
    <3> SUFFICES ASSUME NEW c \in Buckets, ~answer'[c].allowed, Limit[c] > 0
                 PROVE  /\ Len(log'[c]) >= Limit[c]
                        /\ log'[c][Len(log'[c]) - Limit[c] + 1] + Window > answer'[c].at
      BY DEF RefusedOnlyWhenFull
    <3>1. c # b
      BY <2>2
    <3> QED
      BY <2>2, <3>1 DEF Inv, RefusedOnlyWhenFull
  <2> QED
    BY <2>9, <2>11, <2>12, <2>13, <2>14, <2>15 DEF Inv
<1> QED
  BY <1>11, <1>12

\* Every step keeps the invariant.
LEMMA NextInv == Inv /\ [Next]_vars => Inv'
<1> SUFFICES ASSUME Inv, [Next]_vars PROVE Inv'
  OBVIOUS
<1>1. CASE Tick
  BY <1>1, TickInv
<1>2. CASE Restart
  BY <1>2, RestartInv
<1>3. CASE \E b \in Buckets : Allow(b) \/ Forbid(b)
  BY <1>3, AllowInv, ForbidInv
<1>4. CASE UNCHANGED vars
  BY <1>4 DEF Inv, vars, TypeOK, HitsEndLog, DroppedIsOld, Dropped, LogIsSorted,
              LogIsSpaced, RefusedOnlyWhenFull
<1> QED
  BY <1>1, <1>2, <1>3, <1>4 DEF Next

\* The inductive invariant holds in every reachable state.
LEMMA AlwaysInv == Spec => []Inv
  BY InitInv, NextInv, PTL DEF Spec

-----------------------------------------------------------------------------

\* Every reachable state is well typed: in particular, no deque outgrows its
\* limit.
THEOREM TypeCorrect == Spec => []TypeOK
<1>1. Inv => TypeOK
  BY DEF Inv
<1> QED
  BY <1>1, AlwaysInv, PTL

\* allow lets no client make more than the limit of attempts within a window.
THEOREM WindowLimit == Spec => []WindowIsLimited
<1>1. Inv => WindowIsLimited
  BY DEF Inv, LogIsSpaced, Spaced, WindowIsLimited
<1> QED
  BY <1>1, AlwaysInv, PTL

\* allow refuses nobody who has not used up the limit within the window.
THEOREM RefusalsAreDue == Spec => []RefusedOnlyWhenFull
<1>1. Inv => RefusedOnlyWhenFull
  BY DEF Inv
<1> QED
  BY <1>1, AlwaysInv, PTL

=============================================================================
