--------------------------- MODULE LoginFlowProofs ---------------------------
(***************************************************************************)
(* Proofs about LoginFlow, for all workspaces, requests and faults.        *)
(***************************************************************************)
EXTENDS LoginFlow, SequenceTheorems, TLAPS

Tasks == [op : Operations, ws : Workspaces, by : Actors]
Answers == [op : Operations, ws : Workspaces, by : Actors, result : Results]

-----------------------------------------------------------------------------
(***************************************************************************)
(* The inductive invariants.                                               *)
(***************************************************************************)

\* What is under way belongs to a request that waits for it, or to a watcher.
Belongs(t, R) ==
  IF t.by \in Requests
  THEN /\ R[t.by].pc = "waiting"
       /\ R[t.by].ws = t.ws
       /\ t.op = "start" <=> R[t.by].kind = "start"
       /\ t.op = "stop" <=> R[t.by].kind = "stop"
  ELSE t.op \in {"check", "stop"}

\* What an operation may give back.
Tells(op, result) ==
  /\ op = "start" => result \in {"waiting_qr", "exception"}
  /\ op = "stop" => result = "idle"
  /\ op = "check" => result \in LoginState \cup {"exception"}
  /\ op = "check" /\ result = "exception" => RuntimeBreaks

\* T, A and R stand for tasks, answers and requests.
Fitting(T, A, R) ==
  /\ \A i \in DOMAIN T : Belongs(T[i], R)
  /\ \A i \in DOMAIN A :
       Belongs(A[i], R) /\ A[i].by # Nobody /\ Tells(A[i].op, A[i].result)

\* A request waits for one thing at a time.
Single(T, A) ==
  /\ \A i, j \in DOMAIN T : T[i].by \in Requests /\ T[i].by = T[j].by => i = j
  /\ \A i, j \in DOMAIN A : A[i].by \in Requests /\ A[i].by = A[j].by => i = j
  /\ \A i \in DOMAIN T, j \in DOMAIN A : T[i].by \in Requests => T[i].by # A[j].by

Orderly(T, A, R) ==
  T \in Seq(Tasks) /\ A \in Seq(Answers) /\ Fitting(T, A, R) /\ Single(T, A)

FlowInv == TypeOK /\ Orderly(tasks, answers, request)

LeaseInv ==
  /\ LoginLeaseFollowsBrowser
  /\ AuthenticatedReleasesProfile
  /\ job.pc = "browsing" => profile[job.ws] = "worker"

\* Three kinds of answers: a login browser was opened; the one that was there
\* is gone, and whoever looked after it will leave; it was waiting for a scan.
Opens(a, w) == a.ws = w /\ a.op = "start" /\ a.result = "waiting_qr"
Ends(a, w) ==
  a.ws = w /\ (a.op = "stop" \/ (a.by = Watcher /\ a.op = "check" /\ a.result # "waiting_qr"))
Waits(a, w) == a.ws = w /\ a.op = "check" /\ a.result = "waiting_qr"

\* After the end of a browser a later one was opened by an answer between.
\* A stands for answers, P for page, G for the workspaces that are guarded.
Ordered(A, P) ==
  \A w \in Workspaces, k \in DOMAIN A : Ends(A[k], w) =>
    /\ P[w] # "none" => \E j \in DOMAIN A : k < j /\ Opens(A[j], w)
    /\ \A i \in DOMAIN A : k < i /\ Waits(A[i], w) =>
         \E j \in DOMAIN A : k < j /\ j < i /\ Opens(A[j], w)

\* Open browsers, and answers that they wait, find somebody who looks after them.
Watched(A, P, G) ==
  \A w \in Workspaces : w \notin G =>
    /\ P[w] # "none" => \E j \in DOMAIN A : Opens(A[j], w)
    /\ \A i \in DOMAIN A : Waits(A[i], w) => \E j \in DOMAIN A : j < i /\ Opens(A[j], w)

Guarded == {w \in Workspaces : watcher[w] # "none" \/ StopIsPending(w)}

OrderInv == Ordered(answers, page)
GuardInv == ~DatabaseFails => Watched(answers, page, Guarded)
QrInv == \A w \in Workspaces : row[w] = "waiting_qr" /\ faults = {} => w \in Guarded

LoginInv == FlowInv /\ LeaseInv /\ OrderInv /\ GuardInv /\ QrInv

-----------------------------------------------------------------------------
(***************************************************************************)
(* Sequences of which entries are dropped.                                 *)
(***************************************************************************)

\* t is what is left of s, in its order; f tells where it was.
Thins(f, s, t) ==
  /\ f \in [DOMAIN t -> DOMAIN s]
  /\ \A i \in DOMAIN t : t[i] = s[f[i]]
  /\ \A i, j \in DOMAIN t : i < j => f[i] < f[j]

Kept(f, t, k) == \E i \in DOMAIN t : f[i] = k

LEMMA HeadIsFirst ==
  ASSUME NEW S, NEW s \in Seq(S), s # << >>
  PROVE  /\ 1 \in DOMAIN s /\ Head(s) = s[1] /\ Head(s) \in S
         /\ Tail(s) \in Seq(S) /\ Len(Tail(s)) = Len(s) - 1
         /\ \A i \in DOMAIN Tail(s) : i + 1 \in DOMAIN s /\ Tail(s)[i] = s[i + 1]
OBVIOUS

LEMMA WholeThins ==
  ASSUME NEW S, NEW s \in Seq(S)
  PROVE  \E f : Thins(f, s, s) /\ \A k \in DOMAIN s : Kept(f, s, k)
<1> DEFINE f == [i \in DOMAIN s |-> i]
<1>1. Thins(f, s, s)
  BY DEF Thins
<1>2. \A k \in DOMAIN s : Kept(f, s, k)
  BY DEF Kept
<1> QED BY <1>1, <1>2

LEMMA TailThins ==
  ASSUME NEW S, NEW s \in Seq(S), s # << >>
  PROVE  \E f : /\ Thins(f, s, Tail(s))
                /\ \A k \in DOMAIN s : Kept(f, Tail(s), k) <=> k # 1
<1> DEFINE t == Tail(s)
           f == [i \in DOMAIN t |-> i + 1]
<1>0. Len(s) \in Nat /\ DOMAIN s = 1..Len(s) /\ DOMAIN t = 1..(Len(s) - 1)
  BY HeadIsFirst
<1>1. Thins(f, s, t)
  BY <1>0, HeadIsFirst DEF Thins
<1>2. ASSUME NEW k \in DOMAIN s PROVE Kept(f, t, k) <=> k # 1
  <2>1. ASSUME k # 1 PROVE Kept(f, t, k)
    <3>1. k - 1 \in DOMAIN t /\ f[k - 1] = k
      BY <1>0, <2>1
    <3> QED BY <3>1 DEF Kept
  <2>2. \A i \in DOMAIN t : f[i] # 1
    BY <1>0
  <2> QED BY <2>1, <2>2 DEF Kept
<1> QED BY <1>1, <1>2

LEMMA RemovedOne ==
  ASSUME NEW S, NEW s \in Seq(S), NEW k \in 1..Len(s)
  PROVE  /\ RemoveAt(s, k) \in Seq(S)
         /\ Len(RemoveAt(s, k)) = Len(s) - 1
         /\ \A i \in 1..(Len(s) - 1) :
              RemoveAt(s, k)[i] = IF i < k THEN s[i] ELSE s[i + 1]
<1> PICK n \in Nat : n = Len(s)
  OBVIOUS
<1>0. k \in Nat
  OBVIOUS
<1> DEFINE u == SubSeq(s, 1, k - 1)
           v == SubSeq(s, k + 1, n)
           t == RemoveAt(s, k)
<1>1. /\ u \in Seq(S) /\ Len(u) = k - 1
      /\ \A i \in 1..(k - 1) : u[i] = s[i]
  <2>1. \A i \in 1..(k - 1) : s[i] \in S
    OBVIOUS
  <2> QED BY <2>1, SubSeqProperties
<1>2. /\ v \in Seq(S) /\ Len(v) = n - k
      /\ \A i \in 1..(n - k) : v[i] = s[k + i]
  <2>1. \A i \in (k + 1)..n : s[i] \in S
    OBVIOUS
  <2>2. /\ v \in Seq(S)
        /\ Len(v) = IF k + 1 <= n THEN n - (k + 1) + 1 ELSE 0
        /\ \A i \in 1..(n - (k + 1) + 1) : v[i] = s[(k + 1) + i - 1]
    BY <2>1, SubSeqProperties
  <2> HIDE DEF v
  <2>3. Len(v) = n - k
    BY <2>2
  <2>4. ASSUME NEW i \in 1..(n - k) PROVE v[i] = s[k + i]
    <3>1. i \in 1..(n - (k + 1) + 1) /\ (k + 1) + i - 1 = k + i
      OBVIOUS
    <3> QED BY <2>2, <3>1
  <2> QED BY <2>2, <2>3, <2>4
<1>3. t = u \o v
  BY DEF RemoveAt
<1> HIDE DEF u, v, t
<1>4. /\ t \in Seq(S) /\ Len(t) = Len(u) + Len(v)
      /\ \A i \in 1..(Len(u) + Len(v)) :
           t[i] = IF i <= Len(u) THEN u[i] ELSE v[i - Len(u)]
  <2>1. u \in Seq(S) /\ v \in Seq(S)
    BY <1>1, <1>2
  <2> QED BY ONLY <2>1, <1>3, ConcatProperties
<1>5. Len(u) + Len(v) = n - 1
  BY <1>1, <1>2
<1>6. ASSUME NEW i \in 1..(n - 1) PROVE t[i] = IF i < k THEN s[i] ELSE s[i + 1]
  <2>1. CASE i < k
    BY <1>1, <1>4, <1>5, <2>1
  <2>2. CASE i >= k
    <3>1. i - (k - 1) \in 1..(n - k) /\ k + (i - (k - 1)) = i + 1
      BY <2>2
    <3>2. t[i] = v[i - (k - 1)]
      BY <1>1, <1>4, <1>5, <2>2
    <3>3. v[i - (k - 1)] = s[k + (i - (k - 1))]
      BY ONLY <1>2, <3>1
    <3>4. ~(i < k)
      BY <2>2
    <3> QED BY ONLY <3>1, <3>2, <3>3, <3>4
  <2> QED BY <2>1, <2>2
<1> QED BY <1>4, <1>5, <1>6 DEF t

LEMMA EntriesAreNumbered ==
  ASSUME NEW S, NEW s \in Seq(S)
  PROVE  Len(s) \in Nat /\ DOMAIN s = 1..Len(s)
OBVIOUS

LEMMA RemovalThins ==
  ASSUME NEW S, NEW s \in Seq(S), NEW k \in 1..Len(s)
  PROVE  /\ RemoveAt(s, k) \in Seq(S)
         /\ \E f : /\ Thins(f, s, RemoveAt(s, k))
                   /\ \A j \in DOMAIN s : Kept(f, RemoveAt(s, k), j) <=> j # k
<1>0. Len(s) \in Nat /\ DOMAIN s = 1..Len(s)
  BY ONLY s \in Seq(S), EntriesAreNumbered, Zenon
<1> DEFINE t == RemoveAt(s, k)
           f == [i \in DOMAIN t |-> IF i < k THEN i ELSE i + 1]
<1>1. /\ RemoveAt(s, k) \in Seq(S) /\ Len(RemoveAt(s, k)) = Len(s) - 1
      /\ \A i \in 1..(Len(s) - 1) :
           RemoveAt(s, k)[i] = IF i < k THEN s[i] ELSE s[i + 1]
  BY <1>0, RemovedOne
<1>2. DOMAIN RemoveAt(s, k) = 1..(Len(s) - 1)
  BY ONLY <1>1
<1> HIDE DEF t
<1>3. /\ t \in Seq(S)
      /\ DOMAIN t = 1..(Len(s) - 1)
      /\ \A i \in 1..(Len(s) - 1) : t[i] = IF i < k THEN s[i] ELSE s[i + 1]
  <2>1. t = RemoveAt(s, k)
    BY DEF t
  <2> QED BY ONLY <2>1, <1>1, <1>2
<1>4. Thins(f, s, t)
  BY <1>0, <1>3 DEF Thins
<1>5. ASSUME NEW j \in DOMAIN s PROVE Kept(f, t, j) <=> j # k
  <2>1. ASSUME j # k PROVE Kept(f, t, j)
    <3>1. CASE j < k
      <4>1. j \in DOMAIN t /\ f[j] = j
        BY <1>0, <1>3, <3>1
      <4> QED BY <4>1 DEF Kept
    <3>2. CASE j > k
      <4>1. j - 1 \in DOMAIN t /\ f[j - 1] = j
        BY <1>0, <1>3, <3>2
      <4> QED BY <4>1 DEF Kept
    <3> QED BY <1>0, <2>1, <3>1, <3>2
  <2>2. \A i \in DOMAIN t : f[i] # k
    BY <1>0, <1>3
  <2> QED BY <2>1, <2>2 DEF Kept
<1> QED BY <1>3, <1>4, <1>5 DEF t

\* Cancelling the watcher of w drops nothing but what it awaits.
LEMMA WithoutAwaitedThins ==
  ASSUME NEW S, NEW s \in Seq(S), NEW w
  PROVE  /\ WithoutAwaited(w, s) \in Seq(S)
         /\ \E f : /\ Thins(f, s, WithoutAwaited(w, s))
                   /\ \A k \in DOMAIN s :
                        ~Awaited(s[k], w) => Kept(f, WithoutAwaited(w, s), k)
<1> DEFINE awaited == {k \in DOMAIN s : Awaited(s[k], w)}
<1>1. CASE awaited = {}
  <2>1. WithoutAwaited(w, s) = s
    BY <1>1 DEF WithoutAwaited
  <2> QED BY <2>1, WholeThins
<1>2. CASE awaited # {}
  <2> DEFINE k == CHOOSE k \in awaited : TRUE
  <2>1. k \in awaited
    BY <1>2
  <2>2. WithoutAwaited(w, s) = RemoveAt(s, k)
    BY <1>2 DEF WithoutAwaited
  <2> HIDE DEF k
  <2>0. k \in 1..Len(s)
    BY <2>1, EntriesAreNumbered
  <2>3. PICK f : /\ Thins(f, s, RemoveAt(s, k))
                 /\ \A j \in DOMAIN s : Kept(f, RemoveAt(s, k), j) <=> j # k
    BY <2>0, RemovalThins
  <2>4. \A j \in DOMAIN s : ~Awaited(s[j], w) => Kept(f, RemoveAt(s, k), j)
    BY <2>1, <2>3
  <2> QED BY <2>0, <2>2, <2>3, <2>4, RemovalThins
<1> QED BY <1>1, <1>2

LEMMA ThinsIsInjective ==
  ASSUME NEW S, NEW s \in Seq(S), NEW t \in Seq(S), NEW f, Thins(f, s, t)
  PROVE  /\ \A i, j \in DOMAIN t : f[i] = f[j] => i = j
         /\ \A i, j \in DOMAIN t : f[i] < f[j] => i < j
<1> SUFFICES ASSUME NEW i \in DOMAIN t, NEW j \in DOMAIN t
             PROVE  (f[i] = f[j] => i = j) /\ (f[i] < f[j] => i < j)
  OBVIOUS
<1>1. i \in Nat /\ j \in Nat
  OBVIOUS
<1>2. f[i] \in Nat /\ f[j] \in Nat
  <2>1. DOMAIN s \subseteq Nat
    OBVIOUS
  <2> QED BY <2>1 DEF Thins
<1>3. (i < j => f[i] < f[j]) /\ (j < i => f[j] < f[i])
  BY DEF Thins
<1> QED BY ONLY <1>1, <1>2, <1>3

\* The watcher of w is cancelled after the first entry was taken.
LEMMA TailWithoutAwaitedThins ==
  ASSUME NEW S, NEW s \in Seq(S), s # << >>, NEW w
  PROVE  \E h : /\ Thins(h, s, WithoutAwaited(w, Tail(s)))
                /\ \A k \in DOMAIN s :
                     k # 1 /\ ~Awaited(s[k], w) => Kept(h, WithoutAwaited(w, Tail(s)), k)
<1>1. PICK t \in Seq(S) : t = Tail(s)
  BY HeadIsFirst
<1>2. PICK u \in Seq(S) : u = WithoutAwaited(w, t)
  BY WithoutAwaitedThins
<1>3. PICK f : Thins(f, s, t) /\ \A k \in DOMAIN s : Kept(f, t, k) <=> k # 1
  BY <1>1, TailThins
<1>4. PICK g : /\ Thins(g, t, u)
               /\ \A k \in DOMAIN t : ~Awaited(t[k], w) => Kept(g, u, k)
  BY <1>2, WithoutAwaitedThins
<1> DEFINE h == [i \in DOMAIN u |-> f[g[i]]]
<1>5. Thins(h, s, u)
  BY <1>3, <1>4 DEF Thins
<1>6. ASSUME NEW k \in DOMAIN s, k # 1, ~Awaited(s[k], w) PROVE Kept(h, u, k)
  <2>1. PICK i \in DOMAIN t : f[i] = k
    BY <1>3, <1>6 DEF Kept
  <2>2. t[i] = s[k]
    BY <1>3, <2>1 DEF Thins
  <2>3. PICK j \in DOMAIN u : g[j] = i
    BY <1>4, <1>6, <2>2 DEF Kept
  <2> QED BY <2>1, <2>3 DEF Kept
<1> HIDE DEF h
<1> QED BY <1>1, <1>2, <1>5, <1>6

-----------------------------------------------------------------------------
(***************************************************************************)
(* What is under way.                                                      *)
(***************************************************************************)

Absent(r, T, A) == /\ \A i \in DOMAIN T : T[i].by # r
                   /\ \A i \in DOMAIN A : A[i].by # r

LEMMA IdleIsAbsent ==
  ASSUME NEW T, NEW A, NEW R, Orderly(T, A, R), NEW r \in Requests, R[r].pc # "waiting"
  PROVE  Absent(r, T, A)
<1>1. Fitting(T, A, R)
  BY DEF Orderly
<1> QED BY <1>1 DEF Fitting, Absent, Belongs

\* An answer is delivered: nothing else is under way for the same request.
LEMMA OrderlyTail ==
  ASSUME NEW T, NEW A, NEW R, Orderly(T, A, R), A # << >>
  PROVE  /\ Orderly(T, Tail(A), R)
         /\ A[1].by \in Requests => Absent(A[1].by, T, Tail(A))
<1>1. T \in Seq(Tasks) /\ A \in Seq(Answers) /\ Fitting(T, A, R) /\ Single(T, A)
  BY DEF Orderly
<1> DEFINE B == Tail(A)
<1>2. /\ 1 \in DOMAIN A /\ B \in Seq(Answers)
      /\ \A i \in DOMAIN B : i + 1 \in DOMAIN A /\ B[i] = A[i + 1] /\ i \in Nat
  BY <1>1, HeadIsFirst
<1> HIDE DEF B
<1>3. \A i, j \in DOMAIN B : i + 1 # 1 /\ (i + 1 = j + 1 => i = j)
  BY <1>2
<1>4. Fitting(T, B, R)
  BY ONLY <1>1, <1>2 DEF Fitting
<1>5. Single(T, B)
  <2>1. ASSUME NEW i \in DOMAIN B, NEW j \in DOMAIN B, B[i].by \in Requests, B[i].by = B[j].by
        PROVE  i = j
    <3>1. /\ i + 1 \in DOMAIN A /\ j + 1 \in DOMAIN A
          /\ A[i + 1].by \in Requests /\ A[i + 1].by = A[j + 1].by
      BY ONLY <1>2, <2>1
    <3>2. i + 1 = j + 1
      BY ONLY <1>1, <3>1 DEF Single
    <3> QED BY ONLY <1>3, <3>2, <2>1
  <2>2. \A i \in DOMAIN T, j \in DOMAIN B : T[i].by \in Requests => T[i].by # B[j].by
    BY ONLY <1>1, <1>2 DEF Single
  <2> QED BY ONLY <1>1, <2>1, <2>2 DEF Single
<1>6. A[1].by \in Requests => Absent(A[1].by, T, B)
  BY ONLY <1>1, <1>2, <1>3 DEF Single, Absent
<1> QED BY <1>1, <1>2, <1>4, <1>5, <1>6 DEF B, Orderly

LEMMA Appended ==
  ASSUME NEW S, NEW s \in Seq(S), NEW e \in S
  PROVE  /\ Append(s, e) \in Seq(S)
         /\ \E n : \A i \in DOMAIN Append(s, e) : \/ i = n /\ Append(s, e)[i] = e
                                                  \/ i \in DOMAIN s /\ Append(s, e)[i] = s[i]
<1>1. \A i \in DOMAIN Append(s, e) : \/ i = Len(s) + 1 /\ Append(s, e)[i] = e
                                     \/ i \in DOMAIN s /\ Append(s, e)[i] = s[i]
  OBVIOUS
<1>2. Append(s, e) \in Seq(S)
  OBVIOUS
<1>3. ASSUME NEW n, n = Len(s) + 1
      PROVE  \E m : \A i \in DOMAIN Append(s, e) :
               (i = m /\ Append(s, e)[i] = e) \/ (i \in DOMAIN s /\ Append(s, e)[i] = s[i])
  BY ONLY <1>1, <1>3, Zenon
<1> QED BY ONLY <1>2, <1>3, Zenon

LEMMA OrderlySubmit ==
  ASSUME NEW T, NEW A, NEW R, Orderly(T, A, R), NEW t \in Tasks, Belongs(t, R),
         t.by \in Requests => Absent(t.by, T, A)
  PROVE  Orderly(Append(T, t), A, R)
<1>1. T \in Seq(Tasks) /\ A \in Seq(Answers) /\ Fitting(T, A, R) /\ Single(T, A)
  BY DEF Orderly
<1> DEFINE U == Append(T, t)
<1>2. U \in Seq(Tasks)
  BY <1>1
<1>3. PICK n : \A i \in DOMAIN U : \/ i = n /\ U[i] = t
                                   \/ i \in DOMAIN T /\ U[i] = T[i]
  <2>1. T \in Seq(Tasks) /\ t \in Tasks
    BY ONLY <1>1, t \in Tasks
  <2> QED BY ONLY <2>1, Appended
<1> HIDE DEF U
<1>4. Fitting(U, A, R)
  BY <1>1, <1>3 DEF Fitting
<1>5. Single(U, A)
  BY <1>1, <1>3 DEF Single, Absent
<1>6. Orderly(U, A, R)
  BY <1>1, <1>2, <1>4, <1>5 DEF Orderly
<1> QED BY <1>6 DEF U

LEMMA OrderlyRequests ==
  ASSUME NEW T, NEW A, NEW R, Orderly(T, A, R), NEW r \in Requests, Absent(r, T, A),
         NEW S, \A q \in Requests : q # r => S[q] = R[q]
  PROVE  Orderly(T, A, S)
<1>1. T \in Seq(Tasks) /\ A \in Seq(Answers) /\ Fitting(T, A, R) /\ Single(T, A)
  BY DEF Orderly
<1>2. Fitting(T, A, S)
  BY <1>1 DEF Fitting, Absent, Belongs
<1> QED BY <1>1, <1>2 DEF Orderly

\* The watcher's entries can be dropped, or left to nobody.
LEMMA OrderlyThins ==
  ASSUME NEW T, NEW A, NEW R, Orderly(T, A, R), NEW B \in Seq(Answers), NEW f, Thins(f, A, B)
  PROVE  Orderly(T, B, R) /\ \A r \in Requests : Absent(r, T, A) => Absent(r, T, B)
<1>1. T \in Seq(Tasks) /\ A \in Seq(Answers) /\ Fitting(T, A, R) /\ Single(T, A)
  BY DEF Orderly
<1>2. \A i, j \in DOMAIN B : f[i] = f[j] => i = j
  BY <1>1, ThinsIsInjective
<1>3. \A i \in DOMAIN B : f[i] \in DOMAIN A /\ B[i] = A[f[i]]
  BY DEF Thins
<1>4. Fitting(T, B, R)
  BY ONLY <1>1, <1>3 DEF Fitting
<1>5. Single(T, B)
  <2>1. ASSUME NEW i \in DOMAIN B, NEW j \in DOMAIN B, B[i].by \in Requests, B[i].by = B[j].by
        PROVE  i = j
    <3>1. f[i] = f[j]
      BY ONLY <1>1, <1>3, <2>1 DEF Single
    <3> QED BY <1>2, <3>1
  <2>2. \A i \in DOMAIN T, j \in DOMAIN B : T[i].by \in Requests => T[i].by # B[j].by
    BY ONLY <1>1, <1>3 DEF Single
  <2> QED BY ONLY <1>1, <2>1, <2>2 DEF Single
<1>6. \A r \in Requests : Absent(r, T, A) => Absent(r, T, B)
  BY ONLY <1>3 DEF Absent
<1> QED BY <1>1, <1>4, <1>5, <1>6 DEF Orderly

LEMMA OrderlyAbandoned ==
  ASSUME NEW A, NEW R, Orderly(tasks, A, R), NEW w, NEW U \in Abandoned(w)
  PROVE  Orderly(U, A, R) /\ \A r \in Requests : Absent(r, tasks, A) => Absent(r, U, A)
<1>1. tasks \in Seq(Tasks) /\ A \in Seq(Answers) /\ Fitting(tasks, A, R) /\ Single(tasks, A)
  BY DEF Orderly
<1>2. CASE U = WithoutAwaited(w, tasks)
  <2>1. U \in Seq(Tasks)
    BY <1>1, <1>2, WithoutAwaitedThins
  <2>2. PICK f : Thins(f, tasks, U)
    BY <1>1, <1>2, WithoutAwaitedThins
  <2>3. \A i, j \in DOMAIN U : f[i] = f[j] => i = j
    BY <1>1, <2>1, <2>2, ThinsIsInjective
  <2>4. \A i \in DOMAIN U : f[i] \in DOMAIN tasks /\ U[i] = tasks[f[i]]
    BY <2>2 DEF Thins
  <2>5. Fitting(U, A, R)
    BY ONLY <1>1, <2>4 DEF Fitting
  <2>6. Single(U, A)
    <3>1. ASSUME NEW i \in DOMAIN U, NEW j \in DOMAIN U, U[i].by \in Requests, U[i].by = U[j].by
          PROVE  i = j
      <4>1. f[i] = f[j]
        BY ONLY <1>1, <2>4, <3>1 DEF Single
      <4> QED BY <2>3, <4>1
    <3>2. \A i \in DOMAIN U, j \in DOMAIN A : U[i].by \in Requests => U[i].by # A[j].by
      BY ONLY <1>1, <2>4 DEF Single
    <3> QED BY ONLY <1>1, <3>1, <3>2 DEF Single
  <2>7. \A r \in Requests : Absent(r, tasks, A) => Absent(r, U, A)
    BY ONLY <2>4 DEF Absent
  <2> QED BY <1>1, <2>1, <2>5, <2>6, <2>7 DEF Orderly
<1>3. CASE U = [i \in DOMAIN tasks |-> IF Awaited(tasks[i], w)
                                       THEN [tasks[i] EXCEPT !.by = Nobody] ELSE tasks[i]]
  <2>1. DOMAIN U = DOMAIN tasks
    BY <1>3
  <2>2. \A i \in DOMAIN tasks : tasks[i] \in Tasks
    BY <1>1
  <2>3. ASSUME NEW i \in DOMAIN tasks
        PROVE  \/ U[i] = tasks[i]
               \/ /\ U[i] \in Tasks /\ U[i].by \notin Requests /\ tasks[i].by \notin Requests
                  /\ U[i].op = tasks[i].op
    <3>1. CASE Awaited(tasks[i], w)
      <4>1. U[i] = [tasks[i] EXCEPT !.by = Nobody]
        BY <1>3, <3>1
      <4>2. tasks[i].by \notin Requests
        BY <3>1, ActorsAssumption DEF Awaited
      <4> QED BY <2>2, <4>1, <4>2, ActorsAssumption DEF Tasks, Actors
    <3>2. CASE ~Awaited(tasks[i], w)
      BY <1>3, <3>2
    <3> QED BY <3>1, <3>2
  <2>4. U \in Seq(Tasks)
    <3>1. \A i \in DOMAIN tasks : U[i] \in Tasks
      BY <2>2, <2>3
    <3>2. PICK n \in Nat : DOMAIN tasks = 1..n
      BY <1>1
    <3>3. U \in [1..n -> Tasks]
      BY <1>3, <3>1, <3>2
    <3> QED BY <3>2, <3>3
  <2>5. \A i \in DOMAIN U : U[i].by \in Requests => U[i] = tasks[i]
    BY <2>1, <2>3
  <2>6. Fitting(U, A, R)
    BY <1>1, <2>1, <2>3 DEF Fitting, Belongs
  <2>7. Single(U, A)
    BY ONLY <1>1, <2>1, <2>5 DEF Single
  <2>8. \A r \in Requests : Absent(r, tasks, A) => Absent(r, U, A)
    BY ONLY <2>1, <2>5 DEF Absent
  <2> QED BY <1>1, <2>4, <2>6, <2>7, <2>8 DEF Orderly
<1> QED BY <1>2, <1>3 DEF Abandoned

\* The thread has executed the oldest operation.
LEMMA OrderlyAnswer ==
  ASSUME NEW R, Orderly(tasks, answers, R), NEW result \in Results, Answer(result),
         Tells(Head(tasks).op, result)
  PROVE  Orderly(tasks', answers', R)
<1> DEFINE t == Head(tasks)
           a == [op |-> t.op, ws |-> t.ws, by |-> t.by, result |-> result]
<1>1. /\ tasks \in Seq(Tasks) /\ answers \in Seq(Answers) /\ tasks # << >>
      /\ Fitting(tasks, answers, R) /\ Single(tasks, answers)
      /\ tasks' = Tail(tasks)
      /\ answers' = IF t.by = Nobody THEN answers ELSE Append(answers, a)
      /\ Tells(t.op, result)
  BY DEF Orderly, Answer
<1>2. /\ 1 \in DOMAIN tasks /\ t = tasks[1] /\ t \in Tasks /\ tasks' \in Seq(Tasks)
      /\ \A i \in DOMAIN tasks' : i + 1 \in DOMAIN tasks /\ tasks'[i] = tasks[i + 1] /\ i \in Nat
  BY <1>1, HeadIsFirst
<1>3. \A i, j \in DOMAIN tasks' : i + 1 # 1 /\ (i + 1 = j + 1 => i = j)
  BY <1>2
<1>4. a \in Answers /\ a.by = t.by /\ a.op = t.op /\ a.ws = t.ws /\ a.result = result
  BY <1>2 DEF Answers, Tasks
<1> HIDE DEF t, a
<1>5. Fitting(tasks', answers, R)
  BY ONLY <1>1, <1>2 DEF Fitting
<1>6. Single(tasks', answers)
  <2>1. ASSUME NEW i \in DOMAIN tasks', NEW j \in DOMAIN tasks',
               tasks'[i].by \in Requests, tasks'[i].by = tasks'[j].by
        PROVE  i = j
    <3>1. /\ i + 1 \in DOMAIN tasks /\ j + 1 \in DOMAIN tasks
          /\ tasks[i + 1].by \in Requests /\ tasks[i + 1].by = tasks[j + 1].by
      BY ONLY <1>2, <2>1
    <3>2. i + 1 = j + 1
      BY ONLY <1>1, <3>1 DEF Single
    <3> QED BY ONLY <1>3, <3>2, <2>1
  <2>2. \A i \in DOMAIN tasks', j \in DOMAIN answers :
          tasks'[i].by \in Requests => tasks'[i].by # answers[j].by
    BY ONLY <1>1, <1>2 DEF Single
  <2> QED BY ONLY <1>1, <2>1, <2>2 DEF Single
<1>7. t.by \in Requests => Absent(t.by, tasks', answers)
  BY ONLY <1>1, <1>2, <1>3 DEF Single, Absent
<1>8. Belongs(t, R)
  BY ONLY <1>1, <1>2 DEF Fitting
<1>9. CASE t.by = Nobody
  BY <1>1, <1>2, <1>5, <1>6, <1>9 DEF Orderly
<1>10. CASE t.by # Nobody
  <2>1. answers' \in Seq(Answers)
    BY <1>1, <1>4, <1>10
  <2>2. PICK n : \A i \in DOMAIN answers' : \/ i = n /\ answers'[i] = a
                                            \/ i \in DOMAIN answers /\ answers'[i] = answers[i]
    <3>1. answers \in Seq(Answers) /\ a \in Answers /\ answers' = Append(answers, a)
      BY <1>1, <1>4, <1>10
    <3> QED BY ONLY <3>1, Appended
  <2>3. Belongs(a, R) /\ a.by # Nobody /\ Tells(a.op, a.result)
    BY <1>1, <1>4, <1>8, <1>10 DEF Belongs
  <2>4. Fitting(tasks', answers', R)
    BY ONLY <1>5, <2>2, <2>3 DEF Fitting
  <2>5. Single(tasks', answers')
    BY ONLY <1>4, <1>6, <1>7, <2>2 DEF Single, Absent
  <2> QED BY <1>2, <2>1, <2>4, <2>5 DEF Orderly
<1> QED BY <1>9, <1>10

-----------------------------------------------------------------------------
(***************************************************************************)
(* FlowInv and LeaseInv.                                                   *)
(***************************************************************************)

LEMMA Types ==
  ASSUME FlowInv
  PROVE  /\ tasks \in Seq(Tasks) /\ answers \in Seq(Answers)
         /\ page \in [Workspaces -> {"none", "open", "closed"}]
         /\ memory \in [Workspaces -> LoginState]
         /\ profile \in [Workspaces -> {"free", "login", "worker"}]
         /\ row \in [Workspaces -> LoginState \cup {"expired"}]
         /\ watcher \in [Workspaces -> {"none", "sleeping", "checking", "stopping"}]
         /\ request \in [Requests -> [kind : Kinds, ws : Workspaces,
                                      pc : {"idle", "waiting", "done"}]]
         /\ queued \in [Workspaces -> BOOLEAN]
         /\ job \in [pc : {"idle", "acquiring", "browsing", "failing"}, ws : Workspaces]
BY DEF FlowInv, TypeOK, Tasks, Answers

\* What an operation does to the browsers, and what it says of them.
Reports(result) ==
  LET t == Head(tasks) IN
    /\ \A w \in Workspaces :
         page[w] = "none" /\ page'[w] # "none" =>
           t.ws = w /\ t.op = "start" /\ result = "waiting_qr"
    /\ t.op = "stop" \/ (t.op = "check" /\ result # "waiting_qr") => page'[t.ws] = "none"
    /\ t.op = "check" /\ result = "waiting_qr" => page[t.ws] # "none"

\* The variables of the owner thread and of what it owns.
ThreadTypes ==
  /\ runtime \in {"stopped", "ready", "failed"}
  /\ page \in [Workspaces -> {"none", "open", "closed"}]
  /\ memory \in [Workspaces -> LoginState]
  /\ profile \in [Workspaces -> {"free", "login", "worker"}]

LEMMA CloseLoginCloses ==
  ASSUME ThreadTypes, NEW W \in SUBSET Workspaces, CloseLogin(W)
  PROVE  /\ page' \in [Workspaces -> {"none", "open", "closed"}]
         /\ profile' \in [Workspaces -> {"free", "login", "worker"}]
         /\ \A w \in W : page'[w] = "none" /\ profile'[w] # "login"
         /\ \A w \in Workspaces : w \notin W => page'[w] = page[w] /\ profile'[w] = profile[w]
         /\ \A w \in Workspaces : profile[w] = "worker" => profile'[w] = "worker"
BY DEF CloseLogin, ThreadTypes

\* Closing keeps the lease with the browsers, whatever is remembered of those closed.
LEMMA CloseLoginLease ==
  ASSUME FlowInv, LeaseInv, NEW W \in SUBSET Workspaces, CloseLogin(W),
         memory' \in [Workspaces -> LoginState], runtime' \in {"stopped", "ready", "failed"},
         \A v \in Workspaces : v \notin W => memory'[v] = memory[v], UNCHANGED job
  PROVE  ThreadTypes' /\ LeaseInv'
<1>1. ThreadTypes /\ LoginLeaseFollowsBrowser /\ AuthenticatedReleasesProfile
  BY DEF FlowInv, TypeOK, ThreadTypes, LeaseInv
<1>2. /\ page' \in [Workspaces -> {"none", "open", "closed"}]
      /\ profile' \in [Workspaces -> {"free", "login", "worker"}]
      /\ \A w \in W : page'[w] = "none" /\ profile'[w] # "login"
      /\ \A w \in Workspaces : w \notin W => page'[w] = page[w] /\ profile'[w] = profile[w]
      /\ \A w \in Workspaces : profile[w] = "worker" => profile'[w] = "worker"
  BY <1>1, CloseLoginCloses
<1>3. LoginLeaseFollowsBrowser'
  BY ONLY <1>1, <1>2 DEF LoginLeaseFollowsBrowser
<1>4. AuthenticatedReleasesProfile'
  BY <1>1, <1>2 DEF AuthenticatedReleasesProfile
<1>5. job'.pc = "browsing" => profile'[job'.ws] = "worker"
  BY <1>2, Types DEF LeaseInv
<1> QED BY <1>2, <1>3, <1>4, <1>5 DEF ThreadTypes, LeaseInv

LEMMA ExecuteLease ==
  ASSUME FlowInv, LeaseInv, Execute
  PROVE  ThreadTypes' /\ LeaseInv'
<1>1. ThreadTypes /\ LoginLeaseFollowsBrowser /\ AuthenticatedReleasesProfile
      /\ (job.pc = "browsing" => profile[job.ws] = "worker") /\ job.ws \in Workspaces
  BY DEF FlowInv, TypeOK, ThreadTypes, LeaseInv
<1>2. PICK w \in Workspaces :
        \/ StartUnavailable(w) \/ StartBusy(w) \/ StartProfileInUse(w)
        \/ StartOpens(w) \/ StartLaunchFails(w)
        \/ CheckRemembers(w) \/ CheckFindsNoBrowser(w) \/ CheckAuthenticates(w)
        \/ CheckWaits(w) \/ CheckErrs(w) \/ CheckLosesRuntime(w)
        \/ StopCloses(w) \/ TellsActive(w)
  BY DEF Execute
<1>3. UNCHANGED job
  BY DEF Execute
<1>4. CASE StartUnavailable(w) \/ StartBusy(w) \/ CheckRemembers(w) \/ TellsActive(w)
  <2>1. UNCHANGED <<page, memory, profile>> /\ runtime' \in {"stopped", "ready", "failed"}
    BY <1>1, <1>4 DEF StartUnavailable, StartBusy, CheckRemembers, TellsActive, EnsurePlaywright,
         PlaywrightDoesNotStart, ThreadTypes
  <2> QED BY <1>1, <1>3, <2>1 DEF ThreadTypes, LeaseInv, LoginLeaseFollowsBrowser,
         AuthenticatedReleasesProfile
<1>5. CASE StartOpens(w)
  <2>1. /\ page' = [page EXCEPT ![w] = "open"]
        /\ profile' = [profile EXCEPT ![w] = "login"]
        /\ memory' = [memory EXCEPT ![w] = "waiting_qr"]
        /\ profile[w] # "worker"
        /\ runtime' = "ready"
    BY <1>5 DEF StartOpens, EnsurePlaywright
  <2>2. ThreadTypes'
    BY <1>1, <2>1 DEF ThreadTypes, LoginState
  <2>3. LoginLeaseFollowsBrowser'
    BY <1>1, <2>1 DEF ThreadTypes, LoginLeaseFollowsBrowser
  <2>4. AuthenticatedReleasesProfile'
    BY <1>1, <2>1 DEF ThreadTypes, AuthenticatedReleasesProfile
  <2>5. job'.pc = "browsing" => profile'[job'.ws] = "worker"
    BY <1>1, <1>3, <2>1 DEF ThreadTypes
  <2> QED BY <2>2, <2>3, <2>4, <2>5 DEF LeaseInv
<1>6. CASE CheckWaits(w)
  <2>1. /\ page' = page /\ profile' = profile /\ runtime' = runtime
        /\ memory' = [memory EXCEPT ![w] = "waiting_qr"]
    BY <1>6 DEF CheckWaits
  <2> QED BY <1>1, <1>3, <2>1 DEF ThreadTypes, LoginState, LeaseInv, LoginLeaseFollowsBrowser,
         AuthenticatedReleasesProfile
<1>7. ASSUME NEW W \in SUBSET Workspaces, CloseLogin(W),
             runtime' \in {"stopped", "ready", "failed"},
             \/ memory' = memory
             \/ w \in W /\ \E state \in LoginState : memory' = [memory EXCEPT ![w] = state]
      PROVE  ThreadTypes' /\ LeaseInv'
  <2>1. /\ memory' \in [Workspaces -> LoginState]
        /\ \A v \in Workspaces : v \notin W => memory'[v] = memory[v]
    BY <1>1, <1>7 DEF ThreadTypes
  <2> QED BY <1>3, <1>7, <2>1, CloseLoginLease
<1>8. CASE StartProfileInUse(w)
  BY <1>7, <1>8 DEF StartProfileInUse, EnsurePlaywright
<1>9. CASE StartLaunchFails(w)
  BY <1>7, <1>9 DEF StartLaunchFails, EnsurePlaywright, InvalidateSharedRuntime
<1>10. CASE CheckFindsNoBrowser(w) \/ CheckAuthenticates(w) \/ CheckErrs(w) \/ StopCloses(w)
  <2>1. /\ CloseLogin({w}) /\ runtime' \in {"stopped", "ready", "failed"}
        /\ \E state \in LoginState : memory' = [memory EXCEPT ![w] = state]
    BY <1>1, <1>10 DEF CheckFindsNoBrowser, CheckAuthenticates, CheckErrs, StopCloses, ThreadTypes,
         LoginState
  <2> QED BY <1>7, <2>1
<1>11. CASE CheckLosesRuntime(w)
  BY <1>7, <1>11 DEF CheckLosesRuntime, InvalidateSharedRuntime
<1> QED BY <1>2, <1>4, <1>5, <1>6, <1>8, <1>9, <1>10, <1>11

LEMMA ExecuteReports ==
  ASSUME FlowInv, LeaseInv, Execute
  PROVE  \E result \in Results :
           Answer(result) /\ Tells(Head(tasks).op, result) /\ Reports(result)
<1> DEFINE t == Head(tasks)
<1>1. ThreadTypes /\ AuthenticatedReleasesProfile
  BY DEF FlowInv, TypeOK, ThreadTypes, LeaseInv
<1>2. PICK w \in Workspaces :
        \/ StartUnavailable(w) \/ StartBusy(w) \/ StartProfileInUse(w)
        \/ StartOpens(w) \/ StartLaunchFails(w)
        \/ CheckRemembers(w) \/ CheckFindsNoBrowser(w) \/ CheckAuthenticates(w)
        \/ CheckWaits(w) \/ CheckErrs(w) \/ CheckLosesRuntime(w)
        \/ StopCloses(w) \/ TellsActive(w)
  BY DEF Execute
\* A step that opens nothing, for each kind of operation.
<1>3. ASSUME NEW result \in Results, Answer(result), Tells(t.op, result), t.ws = w,
             \A v \in Workspaces : page[v] = "none" => page'[v] = "none",
             t.op = "stop" \/ (t.op = "check" /\ result # "waiting_qr") => page'[w] = "none",
             t.op = "check" /\ result = "waiting_qr" => page[w] # "none"
      PROVE  Reports(result)
  BY ONLY <1>3 DEF Reports
<1>4. CASE StartUnavailable(w) \/ StartBusy(w) \/ StartProfileInUse(w) \/ StartLaunchFails(w)
  <2>1. t.op = "start" /\ t.ws = w /\ Answer("exception")
    BY <1>4 DEF StartUnavailable, StartBusy, StartProfileInUse, StartLaunchFails, Executes
  <2>2. \A v \in Workspaces : page[v] = "none" => page'[v] = "none"
    BY <1>4 DEF StartUnavailable, StartBusy, StartProfileInUse, StartLaunchFails,
         InvalidateSharedRuntime, CloseLogin
  <2>3. Tells("start", "exception") /\ "exception" \in Results
    BY DEF Tells, Results
  <2> QED BY <1>3, <2>1, <2>2, <2>3
<1>5. CASE StartOpens(w)
  <2>1. /\ t.op = "start" /\ t.ws = w /\ Answer("waiting_qr")
        /\ page' = [page EXCEPT ![w] = "open"]
    BY <1>5 DEF StartOpens, Executes
  <2>2. Reports("waiting_qr")
    BY <1>1, <2>1 DEF Reports, ThreadTypes
  <2>3. Tells("start", "waiting_qr") /\ "waiting_qr" \in Results
    BY DEF Tells, Results, LoginState
  <2> QED BY <2>1, <2>2, <2>3
<1>6. CASE CheckWaits(w)
  <2>1. /\ t.op = "check" /\ t.ws = w /\ Answer("waiting_qr")
        /\ page[w] = "open" /\ page' = page
    BY <1>6 DEF CheckWaits, Looks, Executes
  <2>2. Tells("check", "waiting_qr") /\ "waiting_qr" \in Results
    BY DEF Tells, Results, LoginState
  <2> QED BY <1>3, <2>1, <2>2
<1>7. CASE TellsActive(w)
  <2>1. /\ t.op = "active" /\ t.ws = w /\ page' = page
        /\ Answer("open") \/ Answer("not_open")
    BY <1>7 DEF TellsActive, Executes
  <2>2. \A result \in {"open", "not_open"} : Tells("active", result) /\ result \in Results
    BY DEF Tells, Results
  <2> QED BY <1>3, <2>1, <2>2
<1>8. CASE StopCloses(w)
  <2>1. /\ t.op = "stop" /\ t.ws = w /\ Answer("idle") /\ CloseLogin({w})
    BY <1>8 DEF StopCloses, Executes
  <2>2. Tells("stop", "idle") /\ "idle" \in Results
    BY DEF Tells, Results, LoginState
  <2>3. page'[w] = "none" /\ \A v \in Workspaces : page[v] = "none" => page'[v] = "none"
    BY <2>1 DEF CloseLogin
  <2> QED BY <1>3, <2>1, <2>2, <2>3
<1>9. CASE CheckRemembers(w)
  <2>1. /\ t.op = "check" /\ t.ws = w /\ Answer("authenticated")
        /\ page' = page /\ memory[w] = "authenticated"
    BY <1>9 DEF CheckRemembers, Executes
  <2>2. page[w] = "none"
    BY <1>1, <2>1 DEF AuthenticatedReleasesProfile
  <2>3. Tells("check", "authenticated") /\ "authenticated" \in Results
    BY DEF Tells, Results, LoginState
  <2> QED BY <1>3, <2>1, <2>2, <2>3
<1>10. CASE \/ CheckFindsNoBrowser(w) \/ CheckAuthenticates(w) \/ CheckErrs(w)
            \/ CheckLosesRuntime(w)
  <2>1. t.op = "check" /\ t.ws = w
    BY <1>10 DEF CheckFindsNoBrowser, CheckAuthenticates, CheckErrs, CheckLosesRuntime, Looks,
         Executes
  <2>2. page'[w] = "none" /\ \A v \in Workspaces : page[v] = "none" => page'[v] = "none"
    BY <1>10 DEF CheckFindsNoBrowser, CheckAuthenticates, CheckErrs, CheckLosesRuntime,
         InvalidateSharedRuntime, CloseLogin
  <2>3. \E result \in {"idle", "authenticated", "error", "exception"} :
          Answer(result) /\ (result = "exception" => RuntimeBreaks)
    BY <1>10 DEF CheckFindsNoBrowser, CheckAuthenticates, CheckErrs, CheckLosesRuntime
  <2>4. \A result \in {"idle", "authenticated", "error", "exception"} :
          /\ result \in Results /\ result # "waiting_qr"
          /\ (result = "exception" => RuntimeBreaks) => Tells("check", result)
    BY DEF Tells, Results, LoginState
  <2> QED BY <1>3, <2>1, <2>2, <2>3, <2>4
<1> QED BY <1>2, <1>4, <1>5, <1>6, <1>7, <1>8, <1>9, <1>10

-----------------------------------------------------------------------------
(***************************************************************************)
(* Every step keeps what is under way in order.                            *)
(***************************************************************************)

\* The head of the answers, delivered to r.
LEMMA DeliveryIsFirst ==
  ASSUME FlowInv, answers # << >>
  PROVE  /\ 1 \in DOMAIN answers /\ Head(answers) = answers[1] /\ answers[1] \in Answers
         /\ Belongs(answers[1], request) /\ answers[1].by # Nobody
         /\ Tells(answers[1].op, answers[1].result)
         /\ answers[1].ws \in Workspaces
         /\ answers[1].by \in Requests => request[answers[1].by].ws = answers[1].ws
<1>1. answers \in Seq(Answers) /\ Fitting(tasks, answers, request)
  BY DEF FlowInv, Orderly
<1>2. 1 \in DOMAIN answers /\ Head(answers) = answers[1] /\ answers[1] \in Answers
  BY <1>1, HeadIsFirst
<1> QED BY <1>1, <1>2 DEF Fitting, Belongs, Answers

LEMMA SubmitIsOrderly ==
  ASSUME NEW T, NEW A, NEW R, Orderly(T, A, R), NEW op \in Operations, NEW w \in Workspaces,
         NEW by \in Actors, Belongs(Task(op, w, by), R), by \in Requests => Absent(by, T, A)
  PROVE  Orderly(Append(T, Task(op, w, by)), A, R)
<1>1. Task(op, w, by) \in Tasks /\ Task(op, w, by).by = by
  BY DEF Task, Tasks
<1> QED BY <1>1, OrderlySubmit

\* A request begins, and submits its operation.
LEMMA BeginIsOrderly ==
  ASSUME FlowInv, NEW T, NEW A, Orderly(T, A, request), NEW r \in Requests,
         request[r].pc = "idle", Absent(r, T, A), Goes(r, "waiting"), NEW op \in Operations,
         op = "start" <=> request[r].kind = "start", op = "stop" <=> request[r].kind = "stop"
  PROVE  Orderly(Append(T, Task(op, request[r].ws, r)), A, request')
<1>1. /\ \A q \in Requests : q # r => request'[q] = request[q]
      /\ request'[r].pc = "waiting" /\ request'[r].kind = request[r].kind
      /\ request'[r].ws = request[r].ws /\ request[r].ws \in Workspaces
  <2>1. request \in [Requests -> [kind : Kinds, ws : Workspaces, pc : {"idle", "waiting", "done"}]]
    BY Types
  <2> QED BY ONLY <2>1, Goes(r, "waiting"), r \in Requests DEF Goes
<1>2. Orderly(T, A, request')
  BY <1>1, OrderlyRequests
<1>3. Belongs(Task(op, request[r].ws, r), request')
  BY <1>1 DEF Belongs, Task
<1>4. r \in Actors
  BY DEF Actors
<1> QED BY <1>1, <1>2, <1>3, <1>4, SubmitIsOrderly

LEMMA UnreadIsOrderly ==
  ASSUME NEW R, NEW A, Orderly(tasks, A, R), NEW w, NEW U \in Abandoned(w)
  PROVE  /\ Orderly(U, Unread(w, A), R)
         /\ \A r \in Requests : Absent(r, tasks, A) => Absent(r, U, Unread(w, A))
<1>1. A \in Seq(Answers)
  BY DEF Orderly
<1>2. Unread(w, A) \in Seq(Answers) /\ \E f : Thins(f, A, Unread(w, A))
  BY <1>1, WithoutAwaitedThins DEF Unread
<1>3. /\ Orderly(tasks, Unread(w, A), R)
      /\ \A r \in Requests : Absent(r, tasks, A) => Absent(r, tasks, Unread(w, A))
  BY <1>2, OrderlyThins
<1> QED BY <1>3, OrderlyAbandoned

LEMMA DoneIsOrderly ==
  ASSUME FlowInv, NEW T, NEW A, Orderly(T, A, request), NEW r \in Requests, Absent(r, T, A),
         Goes(r, "done")
  PROVE  Orderly(T, A, request')
<1>1. \A q \in Requests : q # r => request'[q] = request[q]
  BY Types DEF Goes
<1> QED BY <1>1, OrderlyRequests

LEMMA EventIsOrderly ==
  ASSUME FlowInv, EventLoop
  PROVE  Orderly(tasks', answers', request')
<1>1. Orderly(tasks, answers, request)
  BY DEF FlowInv
<1>2. \A r \in Requests : request[r].pc = "idle" => Absent(r, tasks, answers)
  BY <1>1, IdleIsAbsent
<1>3. ASSUME answers # << >>
      PROVE  /\ Head(answers) = answers[1]
             /\ Orderly(tasks, Tail(answers), request)
             /\ \A r \in Requests : answers[1].by = r => Absent(r, tasks, Tail(answers))
  BY <1>1, <1>3, OrderlyTail, DeliveryIsFirst
<1>4. /\ Operations = {"active", "check", "start", "stop"}
      /\ Watcher \in Actors /\ Requests \subseteq Actors
  BY DEF Operations, Actors
<1>5. ASSUME NEW w \in Workspaces, WatcherChecks(w) \/ WatcherTimesOut(w)
      PROVE  Orderly(tasks', answers', request')
  <2>1. PICK op \in {"check", "stop"} : Submit(op, w, Watcher)
    BY <1>5 DEF WatcherChecks, WatcherTimesOut
  <2>2. UNCHANGED <<answers, request>>
    BY <1>5 DEF WatcherChecks, WatcherTimesOut
  <2>3. Belongs(Task(op, w, Watcher), request)
    BY ActorsAssumption DEF Belongs, Task
  <2> QED BY <1>1, <1>4, <2>1, <2>2, <2>3, SubmitIsOrderly, ActorsAssumption DEF Submit
<1>6. CASE WatcherReads \/ WatcherStops \/ WatcherFails
  BY <1>3, <1>6 DEF WatcherReads, WatcherStops, WatcherFails, Delivers, Delivered
<1>7. ASSUME NEW r \in Requests, StatusBegins(r) \/ StartBegins(r) \/ SyncBegins(r)
      PROVE  Orderly(tasks', answers', request')
  <2>1. PICK op \in {"check", "start", "active"} :
          /\ Submit(op, request[r].ws, r)
          /\ op = "start" <=> request[r].kind = "start"
          /\ request[r].kind # "stop"
    BY <1>7 DEF StatusBegins, StartBegins, SyncBegins, Asks
  <2>2. Goes(r, "waiting") /\ request[r].pc = "idle" /\ UNCHANGED answers
    BY <1>7 DEF StatusBegins, StartBegins, SyncBegins, Asks
  <2> QED BY <1>1, <1>2, <1>4, <2>1, <2>2, BeginIsOrderly DEF Submit
<1>8. ASSUME NEW r \in Requests, StopBegins(r)
      PROVE  Orderly(tasks', answers', request')
  <2> DEFINE w == request[r].ws
  <2>1. /\ Goes(r, "waiting") /\ request[r].pc = "idle" /\ request[r].kind = "stop"
        /\ answers' = Unread(w, answers)
    BY <1>8 DEF StopBegins, Asks
  <2>2. PICK rest \in Abandoned(w) : tasks' = Append(rest, Task("stop", w, r))
    BY <1>8 DEF StopBegins
  <2>3. Orderly(rest, answers', request) /\ Absent(r, rest, answers')
    BY <1>1, <1>2, <2>1, <2>2, UnreadIsOrderly
  <2> QED BY <1>4, <2>1, <2>2, <2>3, BeginIsOrderly
<1>9. ASSUME NEW r \in Requests, StopBreaks(r)
      PROVE  Orderly(tasks', answers', request')
  <2>1. Orderly(tasks', answers', request) /\ Absent(r, tasks', answers')
    BY <1>1, <1>2, <1>9, UnreadIsOrderly DEF StopBreaks, Asks
  <2> QED BY <1>9, <2>1, DoneIsOrderly DEF StopBreaks
<1>10. ASSUME NEW r \in Requests,
              StatusEnds(r) \/ StopEnds(r) \/ Raised(r) \/ SyncQueues(r) \/ SyncRejected(r)
       PROVE  Orderly(tasks', answers', request')
  <2>1. /\ answers # << >> /\ Head(answers).by = r /\ answers' = Tail(answers)
        /\ Goes(r, "done") /\ UNCHANGED tasks
    BY <1>10 DEF StatusEnds, StopEnds, Raised, SyncQueues, SyncRejected, Delivers, Delivered
  <2> QED BY <1>3, <2>1, DoneIsOrderly
<1>11. ASSUME NEW r \in Requests, StartEnds(r)
       PROVE  Orderly(tasks', answers', request')
  <2> DEFINE w == request[r].ws
  <2>1. /\ answers # << >> /\ Head(answers).by = r /\ answers' = Unread(w, Tail(answers))
        /\ Goes(r, "done") /\ tasks' \in Abandoned(w)
    BY <1>11 DEF StartEnds, Delivers
  <2>2. Orderly(tasks', answers', request) /\ Absent(r, tasks', answers')
    BY <1>3, <2>1, UnreadIsOrderly
  <2> QED BY <2>1, <2>2, DoneIsOrderly
<1>12. ASSUME NEW r \in Requests, SyncLooks(r)
       PROVE  Orderly(tasks', answers', request')
  <2>1. /\ answers # << >> /\ Head(answers).by = r /\ Head(answers).op = "active"
        /\ answers' = Tail(answers)
        /\ Submit("check", request[r].ws, r) /\ UNCHANGED request
    BY <1>12 DEF SyncLooks, Delivers, Delivered
  <2>2. request[r].ws \in Workspaces /\ Belongs(Task("check", request[r].ws, r), request)
    BY <2>1, DeliveryIsFirst, Types DEF Belongs, Task
  <2> QED BY <1>3, <1>4, <2>1, <2>2, SubmitIsOrderly DEF Submit
<1> QED BY <1>5, <1>6, <1>7, <1>8, <1>9, <1>10, <1>11, <1>12 DEF EventLoop

LEMMA RequestTypes ==
  ASSUME FlowInv, NEW r \in Requests, NEW stage \in {"idle", "waiting", "done"}, Goes(r, stage)
  PROVE  request' \in [Requests -> [kind : Kinds, ws : Workspaces,
                                    pc : {"idle", "waiting", "done"}]]
<1>1. request \in [Requests -> [kind : Kinds, ws : Workspaces,
                               pc : {"idle", "waiting", "done"}]]
  BY Types
<1> QED BY ONLY <1>1, Goes(r, stage) DEF Goes

\* What the event loop writes.
LEMMA EventTypes ==
  ASSUME FlowInv, EventLoop
  PROVE  /\ row' \in [Workspaces -> LoginState \cup {"expired"}]
         /\ watcher' \in [Workspaces -> {"none", "sleeping", "checking", "stopping"}]
         /\ request' \in [Requests -> [kind : Kinds, ws : Workspaces,
                                       pc : {"idle", "waiting", "done"}]]
         /\ queued' \in [Workspaces -> BOOLEAN]
<1> DEFINE RowIsTyped == row' \in [Workspaces -> LoginState \cup {"expired"}]
<1>1. ASSUME NEW w \in Workspaces, NEW result \in LoginState, UpdateLoginStatus(w, result)
      PROVE  RowIsTyped
  BY <1>1, Types DEF UpdateLoginStatus
<1>2. ASSUME answers # << >>, Head(answers).op \in {"check", "start", "stop"},
             Head(answers).result # "exception"
      PROVE  Head(answers).result \in LoginState
  BY <1>2, DeliveryIsFirst DEF Tells, LoginState
<1>3. answers # << >> => Head(answers).ws \in Workspaces /\ (Head(answers).op = "stop" =>
                           Head(answers).result # "exception")
  BY DeliveryIsFirst DEF Tells
<1>4. \A r \in Requests : request[r].ws \in Workspaces
  BY Types
<1>5. ASSUME UNCHANGED row PROVE RowIsTyped
  BY <1>5, Types
<1>6. RowIsTyped
  <2>1. ASSUME NEW w \in Workspaces, WatcherChecks(w) \/ WatcherTimesOut(w) PROVE RowIsTyped
    BY <1>5, <2>1 DEF WatcherChecks, WatcherTimesOut
  <2>2. CASE WatcherReads
    BY <1>1, <1>2, <1>3, <2>2 DEF WatcherReads, Delivers
  <2>3. CASE WatcherStops
    BY <1>1, <1>2, <1>3, <2>3 DEF WatcherStops, Delivers
  <2>4. CASE WatcherFails
    BY <1>5, <2>4 DEF WatcherFails
  <2>5. ASSUME NEW r \in Requests,
               \/ StatusBegins(r) \/ StartBegins(r) \/ StopBegins(r) \/ StopBreaks(r)
               \/ SyncBegins(r) \/ Raised(r) \/ SyncLooks(r) \/ SyncRejected(r)
        PROVE  RowIsTyped
    BY <1>5, <2>5 DEF StatusBegins, StartBegins, StopBegins, StopBreaks, SyncBegins, Raised,
         SyncLooks, SyncRejected
  <2>6. ASSUME NEW r \in Requests, StatusEnds(r) PROVE RowIsTyped
    BY <1>1, <1>2, <1>4, <1>5, <2>6 DEF StatusEnds, Delivers
  <2>7. ASSUME NEW r \in Requests, StartEnds(r) \/ StopEnds(r) PROVE RowIsTyped
    BY <1>1, <1>2, <1>3, <1>4, <2>7 DEF StartEnds, StopEnds, Delivers
  <2>8. ASSUME NEW r \in Requests, SyncQueues(r) PROVE RowIsTyped
    BY <1>1, <1>2, <1>4, <1>5, <2>8 DEF SyncQueues, Delivers
  <2> QED BY <2>1, <2>2, <2>3, <2>4, <2>5, <2>6, <2>7, <2>8 DEF EventLoop
<1>7. watcher' \in [Workspaces -> {"none", "sleeping", "checking", "stopping"}]
  <2>1. \/ watcher' = watcher
        \/ \E w \in Workspaces, state \in {"none", "sleeping", "checking", "stopping"} :
             watcher' = [watcher EXCEPT ![w] = state]
    BY <1>3, <1>4 DEF EventLoop, WatcherChecks, WatcherTimesOut, WatcherReads, WatcherStops,
         WatcherFails, Delivers, StatusBegins, StartBegins, StopBegins, StopBreaks, SyncBegins,
         StatusEnds, StartEnds, StopEnds, Raised, SyncLooks, SyncQueues, SyncRejected
  <2> QED BY <2>1, Types
<1>8. \/ request' = request
      \/ \E r \in Requests, stage \in {"idle", "waiting", "done"} : Goes(r, stage)
  BY DEF EventLoop, WatcherChecks, WatcherTimesOut, WatcherReads, WatcherStops,
         WatcherFails, StatusBegins, StartBegins, StopBegins, StopBreaks, SyncBegins,
         StatusEnds, StartEnds, StopEnds, Raised, SyncLooks, SyncQueues, SyncRejected
<1>9. \/ queued' = queued
      \/ \E w \in Workspaces : queued' = [queued EXCEPT ![w] = TRUE]
  BY <1>4 DEF EventLoop, WatcherChecks, WatcherTimesOut, WatcherReads, WatcherStops,
         WatcherFails, StatusBegins, StartBegins, StopBegins, StopBreaks, SyncBegins,
         StatusEnds, StartEnds, StopEnds, Raised, SyncLooks, SyncQueues, SyncRejected, CreateJob
<1>10. queued' \in [Workspaces -> BOOLEAN]
  <2>1. queued \in [Workspaces -> BOOLEAN]
    BY Types
  <2> QED BY ONLY <1>9, <2>1
<1>11. request' \in [Requests -> [kind : Kinds, ws : Workspaces,
                                 pc : {"idle", "waiting", "done"}]]
  <2>1. CASE request' = request
    BY <2>1, Types
  <2>2. CASE \E r \in Requests, stage \in {"idle", "waiting", "done"} : Goes(r, stage)
    BY <2>2, RequestTypes
  <2> QED BY <1>8, <2>1, <2>2
<1> QED BY <1>6, <1>7, <1>10, <1>11

\* The parts of TypeOK that change together.
LEMMA TypeParts ==
  TypeOK <=> /\ ThreadTypes
             /\ signedIn \in [Workspaces -> BOOLEAN]
             /\ row \in [Workspaces -> LoginState \cup {"expired"}]
             /\ watcher \in [Workspaces -> {"none", "sleeping", "checking", "stopping"}]
             /\ tasks \in Seq(Tasks) /\ answers \in Seq(Answers)
             /\ request \in [Requests -> [kind : Kinds, ws : Workspaces,
                                          pc : {"idle", "waiting", "done"}]]
             /\ queued \in [Workspaces -> BOOLEAN]
             /\ job \in [pc : {"idle", "acquiring", "browsing", "failing"}, ws : Workspaces]
             /\ faults \in FaultSets
BY DEF TypeOK, ThreadTypes, Tasks, Answers

LEMMA FlowInvInit == Init => FlowInv
<1> SUFFICES ASSUME Init PROVE FlowInv
  OBVIOUS
<1>1. TypeOK
  BY DEF Init, TypeOK, LoginState
<1>2. tasks = << >> /\ answers = << >>
  BY DEF Init
<1>3. tasks \in Seq(Tasks) /\ answers \in Seq(Answers) /\ DOMAIN tasks = {} /\ DOMAIN answers = {}
  BY <1>2
<1>4. Orderly(tasks, answers, request)
  BY <1>3 DEF Orderly, Fitting, Single
<1> QED BY <1>1, <1>4 DEF FlowInv

\* Orderly is stated of variables that a step may leave alone.
LEMMA OrderlyStays ==
  ASSUME Orderly(tasks', answers', request'), UNCHANGED faults
  PROVE  Orderly(tasks, answers, request)'
<1>1. tasks' \in Seq(Tasks) /\ answers' \in Seq(Answers)
  BY DEF Orderly
<1>2. \A i \in DOMAIN tasks' : Belongs(tasks[i], request)'
  BY DEF Orderly, Fitting, Belongs
<1>3. \A i \in DOMAIN answers' :
        Belongs(answers[i], request)' /\ answers'[i].by # Nobody
  BY DEF Orderly, Fitting, Belongs
<1>4. \A i \in DOMAIN answers' : Tells(answers[i].op, answers[i].result)'
  BY DEF Orderly, Fitting, Tells, RuntimeBreaks
<1>5. Single(tasks, answers)'
  BY DEF Orderly, Single
<1> QED BY ONLY <1>1, <1>2, <1>3, <1>4, <1>5 DEF Orderly, Fitting

LEMMA RestartIsOrderly ==
  ASSUME FlowInv, RestartApi
  PROVE  /\ Orderly(tasks', answers', request')
         /\ request' \in [Requests -> [kind : Kinds, ws : Workspaces,
                                       pc : {"idle", "waiting", "done"}]]
<1>1. tasks' = << >> /\ answers' = << >>
  BY DEF RestartApi
<1>2. /\ tasks' \in Seq(Tasks) /\ answers' \in Seq(Answers)
      /\ DOMAIN tasks' = {} /\ DOMAIN answers' = {}
  BY <1>1
<1>3. Orderly(tasks', answers', request')
  BY <1>2 DEF Orderly, Fitting, Single
<1>4. request \in [Requests -> [kind : Kinds, ws : Workspaces, pc : {"idle", "waiting", "done"}]]
  BY Types
<1> QED BY <1>3, <1>4 DEF RestartApi

\* The worker, its end and the people outside.
LEMMA OthersTypes ==
  ASSUME FlowInv, Worker \/ WorkerRestarts \/ Outside
  PROVE  /\ ThreadTypes' /\ UNCHANGED <<watcher, tasks, answers, request, faults>>
         /\ signedIn' \in [Workspaces -> BOOLEAN]
         /\ row' \in [Workspaces -> LoginState \cup {"expired"}]
         /\ queued' \in [Workspaces -> BOOLEAN]
         /\ job' \in [pc : {"idle", "acquiring", "browsing", "failing"}, ws : Workspaces]
<1> DEFINE JobType == [pc : {"idle", "acquiring", "browsing", "failing"}, ws : Workspaces]
           ProfileType == [Workspaces -> {"free", "login", "worker"}]
           RowType == [Workspaces -> LoginState \cup {"expired"}]
<1>1. /\ ThreadTypes /\ profile \in ProfileType /\ job \in JobType /\ row \in RowType
      /\ signedIn \in [Workspaces -> BOOLEAN] /\ queued \in [Workspaces -> BOOLEAN]
  BY TypeParts DEF FlowInv, ThreadTypes
<1>2. CASE Worker \/ WorkerRestarts
  <2>1. UNCHANGED <<api, signedIn>>
    BY <1>2 DEF Worker, WorkerClaims, WorkerTakesProfile, WorkerGivesUp, WorkerLeaksProfile,
         WorkerFinishes, WorkerIsRejected, WorkerRecordsFailure, WorkerRestarts
  <2>2. \A stage \in {"idle", "browsing", "failing"} : [job EXCEPT !.pc = stage] \in JobType
    BY <1>1
  <2>3. job' \in JobType
    <3>1. CASE \E w \in Workspaces : WorkerClaims(w)
      BY <3>1 DEF WorkerClaims
    <3>2. CASE ~\E w \in Workspaces : WorkerClaims(w)
      <4>1. \E stage \in {"idle", "browsing", "failing"} : job' = [job EXCEPT !.pc = stage]
        BY <1>2, <3>2 DEF Worker, WorkerTakesProfile, WorkerGivesUp, WorkerLeaksProfile,
             WorkerFinishes, WorkerIsRejected, WorkerRecordsFailure, WorkerRestarts, JobEnds
      <4> QED BY <2>2, <4>1
    <3> QED BY <3>1, <3>2
  <2>4. profile' \in ProfileType
    <3>1. \/ profile' = profile
          \/ \E holder \in {"free", "worker"} : profile' = [profile EXCEPT ![job.ws] = holder]
          \/ profile' = [w \in Workspaces |->
                           IF profile[w] = "worker" THEN "free" ELSE profile[w]]
      BY <1>2 DEF Worker, WorkerClaims, WorkerTakesProfile, WorkerGivesUp, WorkerLeaksProfile,
           WorkerFinishes, WorkerIsRejected, WorkerRecordsFailure, WorkerRestarts
    <3> QED BY <1>1, <3>1
  <2>5. row' \in RowType
    <3>1. row' = row \/ row' = [row EXCEPT ![job.ws] = "expired"]
      BY <1>2 DEF Worker, WorkerClaims, WorkerTakesProfile, WorkerGivesUp, WorkerLeaksProfile,
           WorkerFinishes, WorkerIsRejected, WorkerRecordsFailure, WorkerRestarts
    <3> QED BY <1>1, <3>1
  <2>6. queued' \in [Workspaces -> BOOLEAN]
    <3>1. queued' = queued \/ \E w \in Workspaces : queued' = [queued EXCEPT ![w] = FALSE]
      BY <1>2 DEF Worker, WorkerClaims, WorkerTakesProfile, WorkerGivesUp, WorkerLeaksProfile,
           WorkerFinishes, WorkerIsRejected, WorkerRecordsFailure, WorkerRestarts
    <3> QED BY <1>1, <3>1
  <2> QED BY <1>1, <2>1, <2>3, <2>4, <2>5, <2>6 DEF api, ThreadTypes
<1>3. CASE Outside
  <2>1. UNCHANGED <<runtime, memory, profile, row, watcher, tasks, answers, request, queued, job,
                    faults>>
    BY <1>3 DEF Outside
  <2>2. /\ page' = page \/ \E w \in Workspaces : page' = [page EXCEPT ![w] = "closed"]
        /\ \/ signedIn' = signedIn
           \/ \E w \in Workspaces, b \in BOOLEAN : signedIn' = [signedIn EXCEPT ![w] = b]
    BY <1>3 DEF Outside, ScansQr, ClosesWindow, SessionExpires
  <2>3. page' \in [Workspaces -> {"none", "open", "closed"}]
    BY <1>1, <2>2 DEF ThreadTypes
  <2>4. signedIn' \in [Workspaces -> BOOLEAN]
    BY <1>1, <2>2
  <2> QED BY <1>1, <2>1, <2>3, <2>4 DEF ThreadTypes
<1> QED BY <1>2, <1>3

LEMMA FlowInvNext == FlowInv /\ LeaseInv /\ [Next]_vars => FlowInv'
<1> SUFFICES ASSUME FlowInv, LeaseInv, [Next]_vars PROVE FlowInv'
  OBVIOUS
<1>1. Orderly(tasks, answers, request) /\ TypeOK
  BY DEF FlowInv
<1>2. UNCHANGED faults
  BY DEF Next, Execute, EventLoop, RestartApi, Worker, WorkerClaims, WorkerTakesProfile,
       WorkerGivesUp, WorkerLeaksProfile, WorkerFinishes, WorkerIsRejected, WorkerRecordsFailure,
       WorkerRestarts, Outside, vars, api
<1>3. ASSUME Orderly(tasks', answers', request'),
             ThreadTypes',
             signedIn' \in [Workspaces -> BOOLEAN],
             row' \in [Workspaces -> LoginState \cup {"expired"}],
             watcher' \in [Workspaces -> {"none", "sleeping", "checking", "stopping"}],
             request' \in [Requests -> [kind : Kinds, ws : Workspaces,
                                        pc : {"idle", "waiting", "done"}]],
             queued' \in [Workspaces -> BOOLEAN],
             job' \in [pc : {"idle", "acquiring", "browsing", "failing"}, ws : Workspaces]
      PROVE  FlowInv'
  <2>1. Orderly(tasks, answers, request)'
    BY <1>2, <1>3, OrderlyStays
  <2>2. tasks' \in Seq(Tasks) /\ answers' \in Seq(Answers) /\ faults' \in FaultSets
    BY <1>1, <1>2, <1>3, TypeParts DEF Orderly
  <2>3. TypeOK'
    BY <1>3, <2>2 DEF TypeOK, ThreadTypes, Tasks, Answers
  <2> QED BY <2>1, <2>3 DEF FlowInv
<1>4. CASE Execute
  <2>1. ThreadTypes' /\ Orderly(tasks', answers', request)
    BY <1>1, <1>4, ExecuteLease, ExecuteReports, OrderlyAnswer
  <2>2. UNCHANGED <<signedIn, row, watcher, request, queued, job>>
    BY <1>4 DEF Execute
  <2> QED BY <1>1, <1>3, <2>1, <2>2, TypeParts
<1>5. CASE EventLoop
  <2>1. UNCHANGED <<runtime, page, memory, profile, signedIn, job>>
    BY <1>5 DEF EventLoop
  <2> QED BY <1>1, <1>3, <1>5, <2>1, EventTypes, EventIsOrderly, TypeParts DEF ThreadTypes
<1>6. CASE RestartApi
  <2>1. ThreadTypes'
    BY <1>1, <1>6, TypeParts DEF RestartApi, CloseLogin, ThreadTypes, LoginState
  <2>2. watcher' \in [Workspaces -> {"none", "sleeping", "checking", "stopping"}]
    BY <1>6 DEF RestartApi
  <2>3. UNCHANGED <<signedIn, row, queued, job>>
    BY <1>6 DEF RestartApi
  <2> QED BY <1>1, <1>3, <1>6, <2>1, <2>2, <2>3, RestartIsOrderly, TypeParts
<1>7. CASE Worker \/ WorkerRestarts \/ Outside
  BY <1>1, <1>3, <1>7, OthersTypes, TypeParts
<1>8. CASE UNCHANGED vars
  BY <1>1, <1>3, <1>8, TypeParts DEF vars, api, ThreadTypes
<1> QED BY <1>4, <1>5, <1>6, <1>7, <1>8 DEF Next

LEMMA LeaseInvNext == FlowInv /\ LeaseInv /\ [Next]_vars => LeaseInv'
<1> SUFFICES ASSUME FlowInv, LeaseInv, [Next]_vars PROVE LeaseInv'
  OBVIOUS
<1>1. /\ ThreadTypes /\ LoginLeaseFollowsBrowser /\ AuthenticatedReleasesProfile
      /\ job.pc = "browsing" => profile[job.ws] = "worker"
      /\ job \in [pc : {"idle", "acquiring", "browsing", "failing"}, ws : Workspaces]
  BY TypeParts DEF LeaseInv, FlowInv
\* A step that moves the profile between nobody and the worker.
<1>2. ASSUME UNCHANGED <<page, memory>>,
             \A w \in Workspaces : (profile[w] = "login") <=> (profile'[w] = "login"),
             job'.pc = "browsing" => profile'[job'.ws] = "worker"
      PROVE  LeaseInv'
  BY <1>1, <1>2 DEF LeaseInv, LoginLeaseFollowsBrowser, AuthenticatedReleasesProfile
<1>3. CASE Execute
  BY <1>3, ExecuteLease
<1>4. CASE EventLoop \/ UNCHANGED vars
  BY <1>1, <1>2, <1>4 DEF EventLoop, vars, api
<1>5. CASE RestartApi
  <2>1. /\ CloseLogin(Workspaces) /\ runtime' = "stopped" /\ UNCHANGED job
        /\ memory' \in [Workspaces -> LoginState]
    BY <1>5 DEF RestartApi, LoginState
  <2> QED BY <2>1, CloseLoginLease
<1>6. CASE Worker
  <2>1. CASE \E w \in Workspaces : WorkerClaims(w)
    BY <1>1, <1>2, <2>1 DEF WorkerClaims, api
  <2>2. CASE WorkerTakesProfile \/ WorkerGivesUp \/ WorkerLeaksProfile
    BY <1>1, <1>2, <2>2 DEF WorkerTakesProfile, WorkerGivesUp, WorkerLeaksProfile, JobEnds, api,
         ThreadTypes
  <2>3. CASE WorkerFinishes \/ WorkerIsRejected
    BY <1>1, <1>2, <2>3 DEF WorkerFinishes, WorkerIsRejected, JobEnds, api, ThreadTypes
  <2>4. CASE WorkerRecordsFailure
    BY <1>1, <1>2, <2>4 DEF WorkerRecordsFailure, JobEnds, api
  <2> QED BY <1>6, <2>1, <2>2, <2>3, <2>4 DEF Worker
<1>7. CASE WorkerRestarts
  BY <1>1, <1>2, <1>7 DEF WorkerRestarts, JobEnds, api, ThreadTypes
<1>8. CASE Outside
  <2>1. /\ UNCHANGED <<memory, profile, job>>
        /\ \A w \in Workspaces : (page[w] = "none") <=> (page'[w] = "none")
    BY <1>1, <1>8 DEF Outside, ScansQr, ClosesWindow, SessionExpires, ThreadTypes
  <2> QED BY <1>1, <2>1 DEF LeaseInv, LoginLeaseFollowsBrowser, AuthenticatedReleasesProfile
<1> QED BY <1>3, <1>4, <1>5, <1>6, <1>7, <1>8 DEF Next

LEMMA FlowAlways == Spec => [](FlowInv /\ LeaseInv)
<1>1. Init => LeaseInv
  BY DEF Init, LeaseInv, LoginLeaseFollowsBrowser, AuthenticatedReleasesProfile
<1> QED BY <1>1, FlowInvInit, FlowInvNext, LeaseInvNext, PTL DEF Spec

\* Every reachable state is well typed.
THEOREM TypeCorrect == Spec => []TypeOK
<1>1. FlowInv => TypeOK
  BY DEF FlowInv
<1> QED BY <1>1, FlowAlways, PTL

\* The API holds a profile exactly while a login browser of its own is on it, however
\* launches, checks, closed windows, lost runtimes, restarts and the worker interleave.
THEOREM LoginLease == Spec => []LoginLeaseFollowsBrowser
<1>1. LeaseInv => LoginLeaseFollowsBrowser
  BY DEF LeaseInv
<1> QED BY <1>1, FlowAlways, PTL

\* Whoever is told that a login has succeeded finds the profile given back.
THEOREM AuthenticatedLeaves == Spec => []AuthenticatedReleasesProfile
<1>1. LeaseInv => AuthenticatedReleasesProfile
  BY DEF LeaseInv
<1> QED BY <1>1, FlowAlways, PTL

-----------------------------------------------------------------------------
(***************************************************************************)
(* Who looks after a login browser.                                        *)
(***************************************************************************)

LEMMA ThinsInOrder ==
  ASSUME NEW A \in Seq(Answers), NEW B \in Seq(Answers), NEW f, Thins(f, A, B)
  PROVE  \A i \in DOMAIN B : /\ i \in Nat /\ f[i] \in DOMAIN A /\ f[i] \in Nat /\ f[i] >= 1
                             /\ B[i] = A[f[i]]
                             /\ \A j \in DOMAIN B : f[i] < f[j] => i < j
<1>1. \A i, j \in DOMAIN B : f[i] < f[j] => i < j
  BY ThinsIsInjective
<1>2. \A i \in DOMAIN B : i \in Nat
  OBVIOUS
<1>3. \A k \in DOMAIN A : k \in Nat /\ k >= 1
  OBVIOUS
<1> QED BY ONLY <1>1, <1>2, <1>3, Thins(f, A, B) DEF Thins

\* Only the head of the answers may be a start that is dropped.
LEMMA OrderedThins ==
  ASSUME NEW A \in Seq(Answers), NEW B \in Seq(Answers), NEW f, Thins(f, A, B),
         NEW P, Ordered(A, P),
         \A w \in Workspaces, j \in DOMAIN A : Opens(A[j], w) /\ j # 1 => Kept(f, B, j)
  PROVE  Ordered(B, P)
<1>1. \A i \in DOMAIN B : /\ i \in Nat /\ f[i] \in DOMAIN A /\ f[i] \in Nat /\ f[i] >= 1
                          /\ B[i] = A[f[i]]
                          /\ \A j \in DOMAIN B : f[i] < f[j] => i < j
  BY ThinsInOrder
<1>2. \A k \in DOMAIN A : k \in Nat
  OBVIOUS
<1>3. \A i, j \in DOMAIN B : i < j => f[i] < f[j]
  BY DEF Thins
<1>4. ASSUME NEW w \in Workspaces, NEW k \in DOMAIN B, NEW j \in DOMAIN A,
             f[k] < j, Opens(A[j], w)
      PROVE  \E i \in DOMAIN B : f[i] = j /\ k < i /\ Opens(B[i], w)
  <2>1. Kept(f, B, j)
    <3>1. j # 1
      BY ONLY <1>1, <1>2, <1>4
    <3> QED BY <1>4, <3>1
  <2>2. PICK i \in DOMAIN B : f[i] = j
    BY <2>1 DEF Kept
  <2>3. k < i /\ B[i] = A[j]
    BY ONLY <1>1, <1>4, <2>2
  <2> QED BY <1>4, <2>2, <2>3
<1> SUFFICES ASSUME NEW w \in Workspaces, NEW k \in DOMAIN B, Ends(B[k], w)
             PROVE  /\ P[w] # "none" => \E j \in DOMAIN B : k < j /\ Opens(B[j], w)
                    /\ \A i \in DOMAIN B : k < i /\ Waits(B[i], w) =>
                         \E j \in DOMAIN B : k < j /\ j < i /\ Opens(B[j], w)
  BY DEF Ordered
<1>5. f[k] \in DOMAIN A /\ Ends(A[f[k]], w)
  BY <1>1
<1>6. ASSUME P[w] # "none" PROVE \E j \in DOMAIN B : k < j /\ Opens(B[j], w)
  <2>1. PICK j \in DOMAIN A : f[k] < j /\ Opens(A[j], w)
    BY <1>5, <1>6 DEF Ordered
  <2> QED BY <1>4, <2>1
<1>7. ASSUME NEW i \in DOMAIN B, k < i, Waits(B[i], w)
      PROVE  \E j \in DOMAIN B : k < j /\ j < i /\ Opens(B[j], w)
  <2>1. f[i] \in DOMAIN A /\ f[k] < f[i] /\ Waits(A[f[i]], w)
    BY <1>1, <1>3, <1>7
  <2>2. PICK j \in DOMAIN A : f[k] < j /\ j < f[i] /\ Opens(A[j], w)
    BY <1>5, <2>1 DEF Ordered
  <2>3. PICK l \in DOMAIN B : f[l] = j /\ k < l /\ Opens(B[l], w)
    BY <1>4, <2>2
  <2>4. l < i
    BY ONLY <1>1, <1>7, <2>2, <2>3
  <2> QED BY <2>3, <2>4
<1> QED BY <1>6, <1>7

\* Who looked after a browser leaves only when he is told that it is gone.
LEMMA WatchedThins ==
  ASSUME NEW A \in Seq(Answers), NEW B \in Seq(Answers), NEW f, Thins(f, A, B),
         NEW P, Ordered(A, P), NEW G, NEW H, Watched(A, P, G),
         \A w \in Workspaces, j \in DOMAIN A : Opens(A[j], w) /\ w \notin H => Kept(f, B, j),
         \A w \in G : w \in H \/ (1 \in DOMAIN A /\ Ends(A[1], w))
  PROVE  Watched(B, P, H)
<1>1. \A i \in DOMAIN B : /\ i \in Nat /\ f[i] \in DOMAIN A /\ f[i] \in Nat /\ f[i] >= 1
                          /\ B[i] = A[f[i]]
                          /\ \A j \in DOMAIN B : f[i] < f[j] => i < j
  BY ThinsInOrder
<1> SUFFICES ASSUME NEW w \in Workspaces, w \notin H
             PROVE  /\ P[w] # "none" => \E j \in DOMAIN B : Opens(B[j], w)
                    /\ \A i \in DOMAIN B : Waits(B[i], w) =>
                         \E j \in DOMAIN B : j < i /\ Opens(B[j], w)
  BY DEF Watched
<1>2. ASSUME NEW j \in DOMAIN A, Opens(A[j], w)
      PROVE  \E i \in DOMAIN B : f[i] = j /\ Opens(B[i], w)
  <2>1. PICK i \in DOMAIN B : f[i] = j
    BY <1>2 DEF Kept
  <2> QED BY <1>1, <1>2, <2>1
<1>3. ASSUME P[w] # "none" PROVE \E j \in DOMAIN B : Opens(B[j], w)
  <2>1. \E j \in DOMAIN A : Opens(A[j], w)
    <3>1. CASE w \in G
      BY <1>3, <3>1 DEF Ordered
    <3>2. CASE w \notin G
      BY <1>3, <3>2 DEF Watched
    <3> QED BY <3>1, <3>2
  <2> QED BY <1>2, <2>1
<1>4. ASSUME NEW i \in DOMAIN B, Waits(B[i], w)
      PROVE  \E j \in DOMAIN B : j < i /\ Opens(B[j], w)
  <2>1. f[i] \in DOMAIN A /\ Waits(A[f[i]], w)
    BY <1>1, <1>4
  <2>2. \E j \in DOMAIN A : j < f[i] /\ Opens(A[j], w)
    <3>1. CASE w \in G
      <4>1. 1 \in DOMAIN A /\ Ends(A[1], w)
        BY <3>1
      <4>2. f[i] # 1
        BY <2>1, <4>1 DEF Ends, Waits
      <4>3. 1 < f[i]
        BY ONLY <1>1, <1>4, <4>2
      <4> QED BY <2>1, <4>1, <4>3 DEF Ordered
    <3>2. CASE w \notin G
      BY <2>1, <3>2 DEF Watched
    <3> QED BY <3>1, <3>2
  <2>3. PICK j \in DOMAIN A : j < f[i] /\ Opens(A[j], w)
    BY <2>2
  <2>4. PICK l \in DOMAIN B : f[l] = j /\ Opens(B[l], w)
    BY <1>2, <2>3
  <2>5. l < i
    BY ONLY <1>1, <1>4, <2>3, <2>4
  <2> QED BY <2>4, <2>5
<1> QED BY <1>3, <1>4

LEMMA AppendedLast ==
  ASSUME NEW S, NEW s \in Seq(S), NEW e \in S
  PROVE  \E n : /\ n \in DOMAIN Append(s, e) /\ Append(s, e)[n] = e
                /\ \A i \in DOMAIN s : i \in DOMAIN Append(s, e) /\ i < n
                                       /\ Append(s, e)[i] = s[i]
                /\ \A i \in DOMAIN Append(s, e) : i = n \/ (i \in DOMAIN s /\ ~(n < i))
<1>1. ASSUME NEW n, n = Len(s) + 1
      PROVE  /\ n \in DOMAIN Append(s, e) /\ Append(s, e)[n] = e
             /\ \A i \in DOMAIN s : i \in DOMAIN Append(s, e) /\ i < n
                                    /\ Append(s, e)[i] = s[i]
             /\ \A i \in DOMAIN Append(s, e) : i = n \/ (i \in DOMAIN s /\ ~(n < i))
  BY <1>1
<1> QED BY ONLY <1>1, Zenon

\* The answer of an operation that leaves the browsers as P says.
LEMMA OrderedAnswer ==
  ASSUME NEW A \in Seq(Answers), NEW a \in Answers, NEW P, NEW Q, NEW G,
         Ordered(A, P),
         \A w \in Workspaces : P[w] = "none" /\ Q[w] # "none" => Opens(a, w),
         \A w \in Workspaces : Ends(a, w) => Q[w] = "none",
         \A w \in Workspaces : Waits(a, w) => P[w] # "none"
  PROVE  /\ Ordered(Append(A, a), Q)
         /\ Watched(A, P, G) => Watched(Append(A, a), Q, G)
<1> DEFINE B == Append(A, a)
<1>1. PICK n : /\ n \in DOMAIN B /\ B[n] = a
               /\ \A i \in DOMAIN A : i \in DOMAIN B /\ i < n /\ B[i] = A[i]
               /\ \A i \in DOMAIN B : i = n \/ (i \in DOMAIN A /\ ~(n < i))
  BY AppendedLast
<1> HIDE DEF B
<1>2. Ordered(B, Q)
  <2> SUFFICES ASSUME NEW w \in Workspaces, NEW k \in DOMAIN B, Ends(B[k], w)
               PROVE  /\ Q[w] # "none" => \E j \in DOMAIN B : k < j /\ Opens(B[j], w)
                      /\ \A i \in DOMAIN B : k < i /\ Waits(B[i], w) =>
                           \E j \in DOMAIN B : k < j /\ j < i /\ Opens(B[j], w)
    BY DEF Ordered
  <2>1. CASE k = n
    <3>1. Q[w] = "none"
      BY <1>1, <2>1
    <3>2. \A i \in DOMAIN B : k < i /\ Waits(B[i], w) => FALSE
      <4>1. ~(n < n)
        BY <1>1 DEF B
      <4>2. Waits(a, w) /\ Ends(a, w) => FALSE
        BY DEF Waits, Ends
      <4> QED BY ONLY <1>1, <2>1, <4>1, <4>2, Ends(B[k], w)
    <3> QED BY <3>1, <3>2
  <2>2. CASE k \in DOMAIN A
    <3>1. /\ P[w] # "none" => \E j \in DOMAIN A : k < j /\ Opens(A[j], w)
          /\ \A i \in DOMAIN A : k < i /\ Waits(A[i], w) =>
               \E j \in DOMAIN A : k < j /\ j < i /\ Opens(A[j], w)
      BY <1>1, <2>2 DEF Ordered
    <3>2. Q[w] # "none" => \E j \in DOMAIN B : k < j /\ Opens(B[j], w)
      BY <1>1, <2>2, <3>1
    <3>3. ASSUME NEW i \in DOMAIN B, k < i, Waits(B[i], w)
          PROVE  \E j \in DOMAIN B : k < j /\ j < i /\ Opens(B[j], w)
      BY <1>1, <2>2, <3>1, <3>3
    <3> QED BY <3>2, <3>3
  <2> QED BY <1>1, <2>1, <2>2
<1>3. ASSUME Watched(A, P, G) PROVE Watched(B, Q, G)
  <2> SUFFICES ASSUME NEW w \in Workspaces, w \notin G
               PROVE  /\ Q[w] # "none" => \E j \in DOMAIN B : Opens(B[j], w)
                      /\ \A i \in DOMAIN B : Waits(B[i], w) =>
                           \E j \in DOMAIN B : j < i /\ Opens(B[j], w)
    BY DEF Watched
  <2>1. /\ P[w] # "none" => \E j \in DOMAIN A : Opens(A[j], w)
        /\ \A i \in DOMAIN A : Waits(A[i], w) => \E j \in DOMAIN A : j < i /\ Opens(A[j], w)
    BY <1>3 DEF Watched
  <2> QED BY <1>1, <2>1
<1> QED BY <1>2, <1>3 DEF B

\* An operation whose answer nobody awaits opens nothing.
LEMMA OrderedAlone ==
  ASSUME NEW A, NEW P, NEW Q, NEW G,
         \A w \in Workspaces : Q[w] # "none" => P[w] # "none"
  PROVE  /\ Ordered(A, P) => Ordered(A, Q)
         /\ Watched(A, P, G) => Watched(A, Q, G)
BY DEF Ordered, Watched

LEMMA ExecuteWatched ==
  ASSUME FlowInv, LeaseInv, OrderInv, Execute
  PROVE  /\ Ordered(answers', page')
         /\ \A G : Watched(answers, page, G) => Watched(answers', page', G)
<1>1. PICK result \in Results : Answer(result) /\ Tells(Head(tasks).op, result) /\ Reports(result)
  BY ExecuteReports
<1> DEFINE t == Head(tasks)
           a == [op |-> t.op, ws |-> t.ws, by |-> t.by, result |-> result]
<1>2. /\ tasks \in Seq(Tasks) /\ answers \in Seq(Answers) /\ tasks # << >>
      /\ answers' = IF t.by = Nobody THEN answers ELSE Append(answers, a)
  BY <1>1 DEF FlowInv, Orderly, Answer
<1>3. t = tasks[1] /\ 1 \in DOMAIN tasks /\ t \in Tasks
  BY <1>2, HeadIsFirst
<1>4. Belongs(t, request)
  BY <1>3 DEF FlowInv, Orderly, Fitting
<1>5. a \in Answers /\ a.by = t.by /\ a.op = t.op /\ a.ws = t.ws /\ a.result = result
  BY <1>3 DEF Answers, Tasks
<1>6. /\ \A w \in Workspaces :
           page[w] = "none" /\ page'[w] # "none" =>
             t.ws = w /\ t.op = "start" /\ result = "waiting_qr"
      /\ t.op = "stop" \/ (t.op = "check" /\ result # "waiting_qr") => page'[t.ws] = "none"
      /\ t.op = "check" /\ result = "waiting_qr" => page[t.ws] # "none"
  BY <1>1 DEF Reports
<1> HIDE DEF t, a
<1>7. CASE t.by = Nobody
  <2>1. \A w \in Workspaces : page'[w] # "none" => page[w] # "none"
    BY <1>4, <1>6, <1>7, ActorsAssumption DEF Belongs
  <2> QED BY <1>2, <1>7, <2>1, OrderedAlone DEF OrderInv
<1>8. CASE t.by # Nobody
  <2>1. \A w \in Workspaces : page[w] = "none" /\ page'[w] # "none" => Opens(a, w)
    BY ONLY <1>5, <1>6 DEF Opens
  <2>2. \A w \in Workspaces : Ends(a, w) => page'[w] = "none"
    BY ONLY <1>5, <1>6 DEF Ends
  <2>3. \A w \in Workspaces : Waits(a, w) => page[w] # "none"
    BY ONLY <1>5, <1>6 DEF Waits
  <2> QED BY <1>2, <1>5, <1>8, <2>1, <2>2, <2>3, OrderedAnswer DEF OrderInv
<1> QED BY <1>7, <1>8

\* A request to start is not what a watcher awaits.
LEMMA StartsHaveRequests ==
  ASSUME FlowInv, NEW w, NEW v, NEW j \in DOMAIN answers, Opens(answers[j], w)
  PROVE  /\ ~Awaited(answers[j], v)
         /\ StartIsPending(w)
         /\ answers[j].by \in Requests /\ request[answers[j].by].kind = "start"
<1>1. Belongs(answers[j], request)
  BY DEF FlowInv, Orderly, Fitting
<1>2. answers[j].by \in Requests /\ request[answers[j].by].kind = "start"
  BY <1>1 DEF Belongs, Opens
<1>3. request[answers[j].by].pc = "waiting" /\ request[answers[j].by].ws = w
  BY <1>1, <1>2 DEF Belongs, Opens
<1> QED BY <1>2, <1>3, ActorsAssumption DEF Awaited, StartIsPending

\* The event loop takes the first answer, or drops what a watcher awaits.
LEMMA EventThins ==
  ASSUME FlowInv, EventLoop
  PROVE  /\ answers' \in Seq(Answers)
         /\ \E f :
              /\ Thins(f, answers, answers')
              /\ \A w \in Workspaces, j \in DOMAIN answers :
                   Opens(answers[j], w) /\ ~Kept(f, answers', j) =>
                     j = 1 /\ (DatabaseFails \/ w \in Guarded')
<1>1. answers \in Seq(Answers) /\ answers' \in Seq(Answers)
  BY EventIsOrderly DEF FlowInv, Orderly
\* Which of the answers are kept, in the cases that follow.
<1>2. ASSUME NEW f, Thins(f, answers, answers'),
             \A j \in DOMAIN answers, w \in Workspaces :
               Opens(answers[j], w) /\ ~Kept(f, answers', j) =>
                 j = 1 /\ (DatabaseFails \/ w \in Guarded')
      PROVE  \E g :
              /\ Thins(g, answers, answers')
              /\ \A w \in Workspaces, j \in DOMAIN answers :
                   Opens(answers[j], w) /\ ~Kept(g, answers', j) =>
                     j = 1 /\ (DatabaseFails \/ w \in Guarded')
  BY ONLY <1>2, Zenon
<1> DEFINE Goal == \E g :
              /\ Thins(g, answers, answers')
              /\ \A w \in Workspaces, j \in DOMAIN answers :
                   Opens(answers[j], w) /\ ~Kept(g, answers', j) =>
                     j = 1 /\ (DatabaseFails \/ w \in Guarded')
<1> HIDE DEF Goal
<1>3. ASSUME answers' = answers PROVE Goal
  BY <1>1, <1>2, <1>3, WholeThins DEF Goal
<1>4. ASSUME NEW v, answers' = Unread(v, answers) PROVE Goal
  <2>1. PICK f : /\ Thins(f, answers, answers')
                 /\ \A k \in DOMAIN answers :
                      ~Awaited(answers[k], v) => Kept(f, answers', k)
    BY <1>1, <1>4, WithoutAwaitedThins DEF Unread
  <2> QED BY <1>2, <2>1, StartsHaveRequests DEF Goal
<1>5. ASSUME answers # << >>, answers' = Tail(answers),
             Head(answers).op = "start" =>
               Head(answers).result # "waiting_qr" \/ DatabaseFails
      PROVE  Goal
  <2>1. PICK f : /\ Thins(f, answers, answers')
                 /\ \A k \in DOMAIN answers : Kept(f, answers', k) <=> k # 1
    BY <1>1, <1>5, TailThins
  <2>2. \A w : Opens(answers[1], w) => DatabaseFails
    BY <1>5, DeliveryIsFirst DEF Opens
  <2> QED BY <1>2, <2>1, <2>2 DEF Goal
<1>6. ASSUME NEW r \in Requests, StartEnds(r) PROVE Goal
  <2> DEFINE v == request[r].ws
  <2>1. /\ answers # << >> /\ Head(answers).by = r
        /\ answers' = Unread(v, Tail(answers))
        /\ watcher' = [watcher EXCEPT ![v] = "sleeping"]
    BY <1>6 DEF StartEnds, Delivers
  <2>2. PICK h : /\ Thins(h, answers, answers')
                 /\ \A k \in DOMAIN answers :
                      k # 1 /\ ~Awaited(answers[k], v) => Kept(h, answers', k)
    BY <1>1, <2>1, TailWithoutAwaitedThins DEF Unread
  <2>3. \A j \in DOMAIN answers, w \in Workspaces :
          Opens(answers[j], w) /\ ~Kept(h, answers', j) => j = 1
    BY <2>2, StartsHaveRequests
  <2>4. ASSUME NEW w \in Workspaces, Opens(answers[1], w) PROVE w \in Guarded'
    <3>1. w = v
      BY <2>1, <2>4, DeliveryIsFirst DEF Opens
    <3>2. watcher'[w] = "sleeping"
      BY <2>1, <3>1, Types
    <3> QED BY <3>2 DEF Guarded
  <2> QED BY <1>2, <2>2, <2>3, <2>4 DEF Goal
<1>7. ASSUME NEW w \in Workspaces, WatcherChecks(w) \/ WatcherTimesOut(w) PROVE Goal
  BY <1>3, <1>7 DEF WatcherChecks, WatcherTimesOut
<1>8. ASSUME WatcherReads \/ WatcherStops \/ WatcherFails PROVE Goal
  <2>1. /\ answers # << >> /\ answers' = Tail(answers)
        /\ Head(answers).op \in {"check", "stop"}
    BY <1>8 DEF WatcherReads, WatcherStops, WatcherFails, Delivers, Delivered
  <2> QED BY <1>5, <2>1
<1>9. ASSUME NEW r \in Requests, StatusBegins(r) \/ StartBegins(r) \/ SyncBegins(r) PROVE Goal
  BY <1>3, <1>9 DEF StatusBegins, StartBegins, SyncBegins
<1>10. ASSUME NEW r \in Requests, StopBegins(r) \/ StopBreaks(r) PROVE Goal
  BY <1>4, <1>10 DEF StopBegins, StopBreaks
<1>11. ASSUME NEW r \in Requests, StatusEnds(r) \/ StopEnds(r) \/ SyncLooks(r)
       PROVE  Goal
  BY <1>5, <1>11 DEF StatusEnds, StopEnds, SyncLooks, Delivers, Delivered
<1>12. ASSUME NEW r \in Requests, SyncQueues(r) \/ SyncRejected(r) PROVE Goal
  BY <1>5, <1>12 DEF SyncQueues, SyncRejected, Delivers, Delivered
<1>13. ASSUME NEW r \in Requests, Raised(r) PROVE Goal
  BY <1>5, <1>13 DEF Raised, Delivers, Delivered
<1>14. Goal
  BY ONLY EventLoop, <1>6, <1>7, <1>8, <1>9, <1>10, <1>11, <1>12, <1>13 DEF EventLoop
<1> QED BY <1>1, <1>14 DEF Goal

\* A request to stop leaves with the answer to it.
LEMMA StopLeaves ==
  ASSUME FlowInv, EventLoop, NEW w \in Workspaces, StopIsPending(w), ~StopIsPending(w)'
  PROVE  /\ answers # << >> /\ Ends(answers[1], w) /\ answers[1].op = "stop"
         /\ \E r \in Requests : Raised(r) \/ (StopEnds(r) /\ row'[w] = "idle")
<1>1. PICK q \in Requests : request[q].kind = "stop" /\ request[q].ws = w
                            /\ request[q].pc = "waiting"
  BY DEF StopIsPending
<1>2. request \in [Requests -> [kind : Kinds, ws : Workspaces, pc : {"idle", "waiting", "done"}]]
  BY Types
<1>3. request'[q] # request[q]
  BY <1>1 DEF StopIsPending
\* Only a step of q itself moves it, which waits.
<1>4. ASSUME NEW r \in Requests, NEW stage, Goes(r, stage) PROVE r = q /\ request[r].pc = "waiting"
  BY <1>1, <1>2, <1>3, <1>4 DEF Goes
<1>5. request' # request
  BY <1>3
<1>6. \E r \in Requests :
        \/ StatusEnds(r) \/ StartEnds(r) \/ StopEnds(r) \/ Raised(r)
        \/ SyncQueues(r) \/ SyncRejected(r)
  <2>1. \A r \in Requests :
          ~(StatusBegins(r) \/ StartBegins(r) \/ StopBegins(r) \/ StopBreaks(r) \/ SyncBegins(r)
            \/ SyncLooks(r))
    BY <1>4, <1>5 DEF StatusBegins, StartBegins, StopBegins, StopBreaks, SyncBegins, SyncLooks, Asks
  <2>2. ~(WatcherReads \/ WatcherStops \/ WatcherFails)
    BY <1>5 DEF WatcherReads, WatcherStops, WatcherFails
  <2>3. \A v \in Workspaces : ~(WatcherChecks(v) \/ WatcherTimesOut(v))
    BY <1>5 DEF WatcherChecks, WatcherTimesOut
  <2> QED BY ONLY EventLoop, <2>1, <2>2, <2>3 DEF EventLoop
<1>7. PICK r \in Requests :
        \/ StatusEnds(r) \/ StartEnds(r) \/ StopEnds(r) \/ Raised(r)
        \/ SyncQueues(r) \/ SyncRejected(r)
  BY <1>6
<1>8. answers # << >> /\ Head(answers).by = r /\ Goes(r, "done")
  BY <1>7 DEF StatusEnds, StartEnds, StopEnds, Raised, SyncQueues, SyncRejected, Delivers
<1>9. r = q
  BY <1>4, <1>8
<1>10. /\ Head(answers) = answers[1] /\ answers[1].by = q
       /\ answers[1].op = "stop" /\ answers[1].ws = w /\ answers[1].result = "idle"
  BY <1>1, <1>8, <1>9, DeliveryIsFirst DEF Belongs, Tells
<1>11. ~(StatusEnds(r) \/ StartEnds(r) \/ SyncQueues(r) \/ SyncRejected(r))
  BY <1>10 DEF StatusEnds, StartEnds, SyncQueues, SyncRejected, Delivers
<1>12. ASSUME StopEnds(r) PROVE row'[w] = "idle"
  <2>1. row' = [row EXCEPT ![w] = "idle"]
    BY <1>1, <1>9, <1>10, <1>12 DEF StopEnds, UpdateLoginStatus
  <2>2. row \in [Workspaces -> LoginState \cup {"expired"}]
    BY Types
  <2> QED BY <2>1, <2>2
<1> QED BY <1>7, <1>8, <1>10, <1>11, <1>12 DEF Ends

\* So does a watcher, unless a request to stop takes its place.
LEMMA WatcherLeaves ==
  ASSUME FlowInv, EventLoop, ~DatabaseFails, NEW w \in Workspaces,
         watcher[w] # "none", w \notin Guarded'
  PROVE  /\ answers # << >> /\ Ends(answers[1], w)
         /\ RuntimeBreaks \/ row'[w] # "waiting_qr"
<1>1. watcher \in [Workspaces -> {"none", "sleeping", "checking", "stopping"}]
      /\ row \in [Workspaces -> LoginState \cup {"expired"}]
  BY Types
<1>2. watcher'[w] = "none" /\ ~StopIsPending(w)'
  BY DEF Guarded
<1>3. ASSUME NEW v, NEW state, watcher' = [watcher EXCEPT ![v] = state]
      PROVE  v = w /\ state = "none"
  BY <1>1, <1>2, <1>3
<1>4. watcher' # watcher
  BY <1>2
<1>5. ASSUME NEW r \in Requests, StopBegins(r) PROVE FALSE
  <2>1. request[r].ws = w /\ request[r].kind = "stop" /\ Goes(r, "waiting")
    BY <1>3, <1>5 DEF StopBegins, Asks
  <2>2. request'[r].ws = w /\ request'[r].kind = "stop" /\ request'[r].pc = "waiting"
    BY <2>1, Types DEF Goes
  <2> QED BY <1>2, <2>2 DEF StopIsPending
<1>6. ASSUME NEW r \in Requests, StartEnds(r) \/ StopBreaks(r) PROVE FALSE
  BY <1>3, <1>6 DEF StartEnds, StopBreaks
<1>7. ASSUME NEW v \in Workspaces, WatcherChecks(v) \/ WatcherTimesOut(v) PROVE FALSE
  BY <1>3, <1>7 DEF WatcherChecks, WatcherTimesOut
<1>8. ASSUME NEW r \in Requests,
             \/ StatusBegins(r) \/ StartBegins(r) \/ SyncBegins(r) \/ StatusEnds(r) \/ StopEnds(r)
             \/ Raised(r) \/ SyncLooks(r) \/ SyncQueues(r) \/ SyncRejected(r)
      PROVE  FALSE
  BY <1>4, <1>8 DEF StatusBegins, StartBegins, SyncBegins, StatusEnds, StopEnds, Raised, SyncLooks,
       SyncQueues, SyncRejected
<1>9. WatcherReads \/ WatcherStops \/ WatcherFails
  BY ONLY EventLoop, <1>5, <1>6, <1>7, <1>8 DEF EventLoop
<1>10. answers # << >> /\ Head(answers).by = Watcher
  BY <1>9 DEF WatcherReads, WatcherStops, WatcherFails, Delivers
<1>11. Head(answers) = answers[1] /\ Tells(answers[1].op, answers[1].result)
  BY <1>10, DeliveryIsFirst
<1>12. CASE WatcherReads
  <2>1. /\ answers[1].op = "check"
        /\ UpdateLoginStatus(answers[1].ws, answers[1].result)
        /\ watcher' = [watcher EXCEPT ![answers[1].ws] =
                         IF answers[1].result = "waiting_qr" THEN "sleeping" ELSE "none"]
    BY <1>11, <1>12 DEF WatcherReads, Delivers
  <2>2. answers[1].ws = w /\ answers[1].result # "waiting_qr"
    BY ONLY <1>1, <1>2, <2>1, w \in Workspaces, watcher[w] # "none"
  <2>3. row'[w] # "waiting_qr"
    BY <1>1, <2>1, <2>2 DEF UpdateLoginStatus
  <2> QED BY <1>10, <1>11, <2>1, <2>2, <2>3 DEF Ends
<1>13. CASE WatcherStops
  <2>1. /\ answers[1].op = "stop"
        /\ UpdateLoginStatus(answers[1].ws, answers[1].result)
        /\ watcher' = [watcher EXCEPT ![answers[1].ws] = "none"]
    BY <1>11, <1>13 DEF WatcherStops, Delivers
  <2>2. answers[1].ws = w
    BY <1>3, <2>1
  <2>3. row'[w] # "waiting_qr"
    BY <1>1, <1>11, <2>1, <2>2 DEF UpdateLoginStatus, Tells
  <2> QED BY <1>10, <2>1, <2>2, <2>3 DEF Ends
<1>14. CASE WatcherFails
  <2>1. /\ answers[1].op = "check" /\ answers[1].result = "exception"
        /\ watcher' = [watcher EXCEPT ![answers[1].ws] = "none"]
    BY <1>11, <1>14 DEF WatcherFails, Delivers
  <2>2. answers[1].ws = w
    BY <1>3, <2>1
  <2>3. RuntimeBreaks
    BY <1>11, <2>1 DEF Tells
  <2> QED BY <1>10, <1>11, <2>1, <2>2, <2>3 DEF Ends
<1> QED BY <1>9, <1>12, <1>13, <1>14

\* Who looks after a login browser leaves when he is told that it is gone.
LEMMA GuardLeaves ==
  ASSUME FlowInv, EventLoop, ~DatabaseFails, NEW w \in Guarded, w \notin Guarded'
  PROVE  /\ answers # << >> /\ Ends(answers[1], w)
         /\ RuntimeBreaks \/ row'[w] # "waiting_qr"
<1>1. w \in Workspaces
  BY DEF Guarded
<1>2. CASE watcher[w] # "none"
  BY <1>1, <1>2, WatcherLeaves
<1>3. CASE StopIsPending(w)
  <2>1. ~StopIsPending(w)'
    BY <1>1 DEF Guarded
  <2>2. /\ answers # << >> /\ Ends(answers[1], w) /\ answers[1].op = "stop"
        /\ \E r \in Requests : Raised(r) \/ (StopEnds(r) /\ row'[w] = "idle")
    BY <1>1, <1>3, <2>1, StopLeaves
  <2>3. \A r \in Requests : ~Raised(r)
    BY <2>2, DeliveryIsFirst DEF Raised, Tells
  <2> QED BY <2>2, <2>3
<1> QED BY <1>2, <1>3 DEF Guarded

\* The steps that move neither answers, browsers nor those who look after them.
LEMMA OthersLeave ==
  ASSUME FlowInv, Worker \/ WorkerRestarts \/ Outside
  PROVE  /\ UNCHANGED <<watcher, request, answers, faults>>
         /\ \A w \in Workspaces : (page'[w] = "none") <=> (page[w] = "none")
         /\ \A w \in Workspaces : row'[w] = row[w] \/ row'[w] = "expired"
<1>1. /\ page \in [Workspaces -> {"none", "open", "closed"}]
      /\ row \in [Workspaces -> LoginState \cup {"expired"}] /\ job.ws \in Workspaces
  BY Types
<1>2. UNCHANGED <<watcher, request, answers, faults>>
  BY OthersTypes
<1>3. CASE \E w \in Workspaces : WorkerClaims(w)
  BY <1>2, <1>3 DEF WorkerClaims, api
<1>4. CASE WorkerTakesProfile \/ WorkerGivesUp \/ WorkerLeaksProfile
  BY <1>2, <1>4 DEF WorkerTakesProfile, WorkerGivesUp, WorkerLeaksProfile, api
<1>5. CASE WorkerFinishes \/ WorkerIsRejected \/ WorkerRestarts
  BY <1>2, <1>5 DEF WorkerFinishes, WorkerIsRejected, WorkerRestarts, api
<1>6. CASE WorkerRecordsFailure
  <2>1. page' = page /\ (row' = row \/ row' = [row EXCEPT ![job.ws] = "expired"])
    BY <1>6 DEF WorkerRecordsFailure, api
  <2> QED BY <1>1, <1>2, <2>1
<1>7. CASE Outside
  BY <1>1, <1>2, <1>7 DEF Outside, ScansQr, ClosesWindow, SessionExpires
<1> QED BY <1>3, <1>4, <1>5, <1>6, <1>7 DEF Worker

\* Only a deliberate restart or the event loop takes those who look after a browser.
LEMMA GuardStays ==
  ASSUME UNCHANGED <<watcher, request>>
  PROVE  Guarded' = Guarded
BY DEF Guarded, StopIsPending

LEMMA WatchNext ==
  ASSUME FlowInv, LeaseInv, OrderInv, GuardInv, [Next]_vars
  PROVE  OrderInv' /\ GuardInv'
<1>1. Ordered(answers, page) /\ (~DatabaseFails => Watched(answers, page, Guarded))
      /\ answers \in Seq(Answers)
  BY DEF OrderInv, GuardInv, FlowInv, Orderly
<1>2. UNCHANGED faults
  BY DEF Next, Execute, EventLoop, RestartApi, Worker, WorkerClaims, WorkerTakesProfile,
       WorkerGivesUp, WorkerLeaksProfile, WorkerFinishes, WorkerIsRejected, WorkerRecordsFailure,
       WorkerRestarts, Outside, vars, api
<1>3. ASSUME Ordered(answers', page'),
             ~DatabaseFails => Watched(answers', page', Guarded')
      PROVE  OrderInv' /\ GuardInv'
  <2>1. OrderInv'
    BY <1>3 DEF OrderInv, Ordered
  <2>2. DatabaseFails' <=> DatabaseFails
    BY <1>2 DEF DatabaseFails
  <2>3. Watched(answers', page', Guarded') => Watched(answers, page, Guarded)'
    BY DEF Watched
  <2> QED BY <1>3, <2>1, <2>2, <2>3 DEF GuardInv
\* Nothing that the invariants speak of moves.
<1>4. ASSUME UNCHANGED <<watcher, request, answers>>,
             \A w \in Workspaces : (page'[w] = "none") <=> (page[w] = "none")
      PROVE  OrderInv' /\ GuardInv'
  <2>1. Guarded' = Guarded
    BY <1>4, GuardStays
  <2>2. Ordered(answers, page')
    BY <1>1, <1>4, OrderedAlone
  <2>3. ~DatabaseFails => Watched(answers, page', Guarded)
    BY <1>1, <1>4, OrderedAlone
  <2> QED BY <1>3, <1>4, <2>1, <2>2, <2>3
<1>5. CASE Execute
  <2>1. UNCHANGED <<watcher, request>>
    BY <1>5 DEF Execute
  <2>2. Guarded' = Guarded
    BY <2>1, GuardStays
  <2> QED BY <1>1, <1>3, <1>5, <2>2, ExecuteWatched
<1>6. CASE EventLoop
  <2>1. answers' \in Seq(Answers)
    BY <1>6, EventThins
  <2>2. PICK f :
          /\ Thins(f, answers, answers')
          /\ \A w \in Workspaces, j \in DOMAIN answers :
               Opens(answers[j], w) /\ ~Kept(f, answers', j) =>
                 j = 1 /\ (DatabaseFails \/ w \in Guarded')
    BY <1>6, EventThins
  <2>3. page' = page
    BY <1>6 DEF EventLoop
  <2>4. Ordered(answers', page)
    BY <1>1, <2>1, <2>2, OrderedThins
  <2>5. ASSUME ~DatabaseFails PROVE Watched(answers', page, Guarded')
    <3>1. \A w \in Workspaces, j \in DOMAIN answers :
            Opens(answers[j], w) /\ w \notin Guarded' => Kept(f, answers', j)
      BY <2>2, <2>5
    <3>2. \A w \in Guarded : w \in Guarded' \/ (1 \in DOMAIN answers /\ Ends(answers[1], w))
      BY <1>6, <2>5, GuardLeaves, DeliveryIsFirst
    <3> QED BY <1>1, <2>1, <2>2, <2>5, <3>1, <3>2, WatchedThins
  <2> QED BY <1>3, <2>3, <2>4, <2>5
<1>7. CASE RestartApi
  <2>1. answers' = << >> /\ \A w \in Workspaces : page'[w] = "none"
    BY <1>7 DEF RestartApi, CloseLogin
  <2>2. DOMAIN answers' = {}
    BY <2>1
  <2>3. Ordered(answers', page') /\ Watched(answers', page', Guarded')
    BY <2>1, <2>2 DEF Ordered, Watched
  <2> QED BY <1>3, <2>3
<1>8. CASE Worker \/ WorkerRestarts \/ Outside
  BY <1>4, <1>8, OthersLeave
<1>9. CASE UNCHANGED vars
  BY <1>4, <1>9 DEF vars, api
<1> QED BY <1>5, <1>6, <1>7, <1>8, <1>9 DEF Next

\* Where nothing fails, whoever stores WAITING_QR knows of somebody who will replace it.
LEMMA EventStoresWait ==
  ASSUME FlowInv, GuardInv, EventLoop, ~DatabaseFails, NEW w \in Workspaces,
         row'[w] = "waiting_qr", row[w] # "waiting_qr"
  PROVE  w \in Guarded \/ w \in Guarded'
<1>1. /\ row \in [Workspaces -> LoginState \cup {"expired"}]
      /\ watcher \in [Workspaces -> {"none", "sleeping", "checking", "stopping"}]
  BY Types
<1>2. ASSUME NEW v, NEW result, UpdateLoginStatus(v, result) PROVE v = w /\ result = "waiting_qr"
  BY <1>1, <1>2 DEF UpdateLoginStatus
<1>3. row' # row
  OBVIOUS
<1>4. ASSUME answers # << >>
      PROVE  /\ 1 \in DOMAIN answers /\ Head(answers) = answers[1]
             /\ Tells(answers[1].op, answers[1].result)
             /\ \A r \in Requests : answers[1].by = r => request[r].ws = answers[1].ws
  BY <1>4, DeliveryIsFirst
<1>5. ASSUME WatcherReads PROVE w \in Guarded'
  <2>1. /\ UpdateLoginStatus(Head(answers).ws, Head(answers).result)
        /\ watcher' = [watcher EXCEPT ![Head(answers).ws] =
                         IF Head(answers).result = "waiting_qr" THEN "sleeping" ELSE "none"]
    BY <1>5 DEF WatcherReads
  <2>2. Head(answers).ws = w /\ Head(answers).result = "waiting_qr"
    BY <1>2, <2>1
  <2>3. watcher'[w] = "sleeping"
    BY <1>1, <2>1, <2>2
  <2> QED BY <2>3 DEF Guarded
<1>6. ASSUME NEW r \in Requests, StatusEnds(r) PROVE w \in Guarded
  <2>1. /\ answers # << >> /\ Head(answers).by = r /\ Head(answers).op = "check"
        /\ UpdateLoginStatus(request[r].ws, Head(answers).result)
    BY <1>3, <1>6 DEF StatusEnds, Delivers
  <2>2. request[r].ws = w /\ Head(answers).result = "waiting_qr"
    BY <1>2, <2>1
  <2>3. 1 \in DOMAIN answers /\ Waits(answers[1], w)
    BY <1>4, <2>1, <2>2 DEF Waits
  <2>4. \A j \in DOMAIN answers : ~(j < 1)
    BY DEF FlowInv, Orderly
  <2> QED BY <2>3, <2>4 DEF GuardInv, Watched
<1>7. ASSUME NEW r \in Requests, StartEnds(r) PROVE w \in Guarded'
  <2>1. /\ UpdateLoginStatus(request[r].ws, Head(answers).result)
        /\ watcher' = [watcher EXCEPT ![request[r].ws] = "sleeping"]
    BY <1>7 DEF StartEnds
  <2>2. request[r].ws = w
    BY <1>2, <2>1
  <2>3. watcher'[w] = "sleeping"
    BY <1>1, <2>1, <2>2
  <2> QED BY <2>3 DEF Guarded
<1>8. ASSUME WatcherStops \/ \E r \in Requests : StopEnds(r) PROVE FALSE
  <2>1. /\ answers # << >> /\ Head(answers).op = "stop"
        /\ \E v : UpdateLoginStatus(v, Head(answers).result)
    BY <1>8 DEF WatcherStops, StopEnds, Delivers
  <2> QED BY <1>2, <1>4, <2>1 DEF Tells
<1>9. ASSUME NEW r \in Requests, SyncQueues(r) PROVE FALSE
  <2>1. /\ UpdateLoginStatus(request[r].ws, Head(answers).result)
        /\ Head(answers).result # "waiting_qr"
    BY <1>3, <1>9 DEF SyncQueues
  <2> QED BY <1>2, <2>1
<1>10. ASSUME NEW v \in Workspaces, WatcherChecks(v) \/ WatcherTimesOut(v) PROVE FALSE
  BY <1>3, <1>10 DEF WatcherChecks, WatcherTimesOut
<1>11. ~WatcherFails
  BY <1>3 DEF WatcherFails
<1>12. ASSUME NEW r \in Requests,
              \/ StatusBegins(r) \/ StartBegins(r) \/ StopBegins(r) \/ StopBreaks(r)
              \/ SyncBegins(r) \/ Raised(r) \/ SyncLooks(r) \/ SyncRejected(r)
       PROVE  FALSE
  BY <1>3, <1>12 DEF StatusBegins, StartBegins, StopBegins, StopBreaks, SyncBegins, Raised,
       SyncLooks, SyncRejected
<1> QED BY ONLY EventLoop, <1>5, <1>6, <1>7, <1>8, <1>9, <1>10, <1>11, <1>12 DEF EventLoop

LEMMA QrNext ==
  ASSUME FlowInv, GuardInv, QrInv, [Next]_vars
  PROVE  QrInv'
<1>1. UNCHANGED faults
  BY DEF Next, Execute, EventLoop, RestartApi, Worker, WorkerClaims, WorkerTakesProfile,
       WorkerGivesUp, WorkerLeaksProfile, WorkerFinishes, WorkerIsRejected, WorkerRecordsFailure,
       WorkerRestarts, Outside, vars, api
<1> SUFFICES ASSUME NEW w \in Workspaces, row'[w] = "waiting_qr", faults = {}
             PROVE  w \in Guarded'
  BY <1>1 DEF QrInv
<1>2. row[w] = "waiting_qr" => w \in Guarded
  BY DEF QrInv
<1>3. ~DatabaseFails /\ ~RuntimeBreaks /\ ~ApiRestarts
  BY DEF DatabaseFails, RuntimeBreaks, ApiRestarts
<1>4. ASSUME UNCHANGED <<watcher, request>>, row'[w] = row[w] \/ row'[w] = "expired"
      PROVE  w \in Guarded'
  BY <1>2, <1>4, GuardStays
<1>5. CASE Execute \/ UNCHANGED vars
  BY <1>4, <1>5 DEF Execute, vars, api
<1>6. CASE EventLoop
  <2>1. w \in Guarded \/ w \in Guarded'
    BY <1>2, <1>3, <1>6, EventStoresWait
  <2>2. w \in Guarded => w \in Guarded'
    BY <1>3, <1>6, GuardLeaves
  <2> QED BY <2>1, <2>2
<1>7. ~RestartApi
  BY <1>3 DEF RestartApi
<1>8. CASE Worker \/ WorkerRestarts \/ Outside
  BY <1>4, <1>8, OthersLeave
<1> QED BY <1>5, <1>6, <1>7, <1>8 DEF Next

LEMMA LoginAlways == Spec => []LoginInv
<1>1. Init => LoginInv
  <2> SUFFICES ASSUME Init PROVE OrderInv /\ GuardInv /\ QrInv /\ FlowInv /\ LeaseInv
    BY DEF LoginInv
  <2>1. answers = << >> /\ \A w \in Workspaces : page[w] = "none" /\ row[w] = "idle"
    BY DEF Init
  <2>2. DOMAIN answers = {}
    BY <2>1
  <2>3. LeaseInv
    BY DEF Init, LeaseInv, LoginLeaseFollowsBrowser, AuthenticatedReleasesProfile
  <2>4. OrderInv /\ GuardInv
    BY <2>1, <2>2 DEF OrderInv, GuardInv, Ordered, Watched
  <2>5. QrInv
    BY <2>1 DEF QrInv
  <2> QED BY <2>3, <2>4, <2>5, FlowInvInit
<1>2. LoginInv /\ [Next]_vars => LoginInv'
  BY FlowInvNext, LeaseInvNext, WatchNext, QrNext DEF LoginInv
<1> QED BY <1>1, <1>2, PTL DEF Spec

\* Unless the database fails, an open login browser has a watcher that will close it, or the
\* request that will is on its way, whatever polls, stops, restarts and breakdowns happen.
THEOREM BrowserIsWatched == Spec => []LoginBrowserIsWatched
<1>1. LoginInv => LoginBrowserIsWatched
  <2> SUFFICES ASSUME LoginInv, NEW w \in Workspaces, page[w] # "none", ~DatabaseFails
               PROVE  watcher[w] # "none" \/ StopIsPending(w) \/ StartIsPending(w)
    BY DEF LoginBrowserIsWatched
  <2>1. CASE w \in Guarded
    BY <2>1 DEF Guarded
  <2>2. CASE w \notin Guarded
    <3>1. PICK j \in DOMAIN answers : Opens(answers[j], w)
      BY <2>2 DEF LoginInv, GuardInv, Watched
    <3> QED BY <3>1, StartsHaveRequests DEF LoginInv
  <2> QED BY <2>1, <2>2
<1> QED BY <1>1, LoginAlways, PTL

\* Where nothing fails, a stored WAITING_QR has somebody who will replace it.
THEOREM QrIsWatched == Spec => []QrWaitIsWatched
<1>1. LoginInv => QrWaitIsWatched
  BY DEF LoginInv, QrInv, QrWaitIsWatched, Guarded
<1> QED BY <1>1, LoginAlways, PTL

\* No poll gives a stored login up: what does is a watcher, a request to stop or a sync.
THEOREM PollsKeep == Spec => PollsKeepLogin
<1> DEFINE Keeps ==
      \A w \in Workspaces :
        row[w] = "authenticated" /\ row'[w] = "idle" =>
          LET by == Head(answers).by IN
            by = Watcher \/ (by \in Requests /\ request[by].kind \in {"stop", "sync"})
<1>1. ASSUME FlowInv, [Next]_vars PROVE [Keeps]_vars
  <2> SUFFICES ASSUME NEW w \in Workspaces, row[w] = "authenticated", row'[w] = "idle"
               PROVE  \/ Head(answers).by = Watcher
                      \/ /\ Head(answers).by \in Requests
                         /\ request[Head(answers).by].kind \in {"stop", "sync"}
    OBVIOUS
  <2>1. row \in [Workspaces -> LoginState \cup {"expired"}] /\ row' # row
    BY <1>1, Types
  <2>2. EventLoop
    BY <1>1, <2>1, OthersLeave DEF Next, Execute, RestartApi, vars
  <2>3. CASE WatcherReads \/ WatcherStops
    BY <2>3 DEF WatcherReads, WatcherStops, Delivers
  <2>4. ASSUME NEW r \in Requests, StatusEnds(r) PROVE FALSE
    BY <2>1, <2>4 DEF StatusEnds, UpdateLoginStatus
  <2>5. ASSUME NEW r \in Requests, StartEnds(r) PROVE FALSE
    <3>1. /\ answers # << >> /\ Head(answers).op = "start" /\ Head(answers).result # "exception"
          /\ UpdateLoginStatus(request[r].ws, Head(answers).result)
      BY <2>5 DEF StartEnds, Delivers
    <3>2. Head(answers).result = "waiting_qr"
      BY <1>1, <3>1, DeliveryIsFirst DEF Tells
    <3> QED BY <2>1, <3>1, <3>2 DEF UpdateLoginStatus
  <2>6. ASSUME NEW r \in Requests, StopEnds(r)
        PROVE  Head(answers).by = r /\ request[r].kind = "stop"
    BY <1>1, <2>6, DeliveryIsFirst DEF StopEnds, Delivers, Belongs
  <2>7. ASSUME NEW r \in Requests, SyncQueues(r)
        PROVE  Head(answers).by = r /\ request[r].kind = "sync"
    BY <2>1, <2>7 DEF SyncQueues, Delivers
  <2>8. ASSUME NEW v \in Workspaces, WatcherChecks(v) \/ WatcherTimesOut(v) PROVE FALSE
    BY <2>1, <2>8 DEF WatcherChecks, WatcherTimesOut
  <2>9. ~WatcherFails
    BY <2>1 DEF WatcherFails
  <2>10. ASSUME NEW r \in Requests,
                \/ StatusBegins(r) \/ StartBegins(r) \/ StopBegins(r) \/ StopBreaks(r)
                \/ SyncBegins(r) \/ Raised(r) \/ SyncLooks(r) \/ SyncRejected(r)
         PROVE  FALSE
    BY <2>1, <2>10 DEF StatusBegins, StartBegins, StopBegins, StopBreaks, SyncBegins, Raised,
         SyncLooks, SyncRejected
  <2> QED BY ONLY <2>2, <2>3, <2>4, <2>5, <2>6, <2>7, <2>8, <2>9, <2>10 DEF EventLoop
<1> QED BY <1>1, FlowAlways, PTL DEF Spec, PollsKeepLogin

=============================================================================
