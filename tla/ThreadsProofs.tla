----------------------------- MODULE ThreadsProofs -----------------------------
(***************************************************************************)
(* Proofs about the threads of quickjs.c and of run-test262.               *)
(*                                                                         *)
(* Atomics for any threads, words, counts of notify and number of calls:   *)
(* the lists hold the waiters that exist, and no others.                   *)
(*                                                                         *)
(* TestAgents for any finite set of agents and any number of broadcasts:   *)
(* the inductive invariant AgentsInv, and from it that every agent takes   *)
(* every broadcast once, the last before broadcast returns, with a         *)
(* reference to its buffer, and that no agent sleeps beside a broadcast    *)
(* for it.  It does not show that broadcast returns: the main thread may   *)
(* sleep when all have taken it, if an agent that waits for the next one   *)
(* got the signal that was for the main thread.                            *)
(***************************************************************************)
EXTENDS Atomics, TestAgents, SequenceTheorems, FiniteSetTheorems, TLAPS

-----------------------------------------------------------------------------
(***************************************************************************)
(* Atomics                                                                 *)
(***************************************************************************)


\* Only a notify that has the mutex has waiters on a list of its own.
BatchHeld == batch # <<>> => \E t \in Threads : pc[t] \in {"take", "signal"}

WaitInv == AtomicsAssumption /\ TypeOK /\ WaitersListed /\ BatchHeld

-----------------------------------------------------------------------------
(***************************************************************************)
(* Lists                                                                   *)
(***************************************************************************)

\* Where the entry at j of a list without its k-th was.
Skip(k, j) == IF j < k THEN j ELSE j + 1

LEMMA RemoveAtFacts ==
    ASSUME NEW S, NEW s \in Seq(S), NEW k \in 1..Len(s)
    PROVE  /\ RemoveAt(s, k) \in Seq(S) /\ Len(s) = Len(RemoveAt(s, k)) + 1
           /\ \A j \in DOMAIN RemoveAt(s, k) :
                 Skip(k, j) \in DOMAIN s /\ RemoveAt(s, k)[j] = s[Skip(k, j)]
<1>1. PICK a \in Nat, b \in Nat : k = a + 1 /\ Len(s) = k + b
  <2>1. k \in Nat /\ Len(s) \in Nat /\ 1 <= k /\ k <= Len(s)
    OBVIOUS
  <2>2. k - 1 \in Nat /\ Len(s) - k \in Nat /\ k = (k - 1) + 1 /\ Len(s) = k + (Len(s) - k)
    BY <2>1
  <2> QED BY <2>2
<1> DEFINE front == SubSeq(s, 1, a)
           back == SubSeq(s, k + 1, k + b)
<1>2. RemoveAt(s, k) = front \o back
  <2>1. k - 1 = a
    BY <1>1
  <2> QED BY <1>1, <2>1 DEF RemoveAt
<1>3. front \in Seq(S) /\ Len(front) = a /\ \A i \in 1..a : front[i] = s[i]
  <2>1. \A i \in 1..a : s[i] \in S
    BY <1>1
  <2>2. /\ front \in Seq(S)
        /\ Len(front) = IF 1 <= a THEN a - 1 + 1 ELSE 0
        /\ \A i \in 1..a-1+1 : front[i] = s[1 + i - 1]
    BY <2>1, SubSeqProperties
  <2> QED BY <1>1, <2>2
<1>4. back \in Seq(S) /\ Len(back) = b /\ \A i \in 1..b : back[i] = s[k + i]
  <2>1. \A i \in k+1..k+b : s[i] \in S
    BY <1>1
  <2>2. /\ back \in Seq(S)
        /\ Len(back) = IF k + 1 <= k + b THEN k + b - (k + 1) + 1 ELSE 0
        /\ \A i \in 1..k+b-(k+1)+1 : back[i] = s[k + 1 + i - 1]
    BY <2>1, SubSeqProperties
  <2>3. k + b - (k + 1) + 1 = b /\ (k + 1 <= k + b <=> b # 0)
    BY <1>1
  <2>4. \A i \in 1..b : k + 1 + i - 1 = k + i
    BY <1>1
  <2> QED BY <1>1, <2>2, <2>3, <2>4
<1> HIDE DEF front, back
<1>5. /\ front \o back \in Seq(S)
      /\ Len(front \o back) = a + b
      /\ \A i \in 1..a+b : (front \o back)[i] = IF i <= a THEN front[i] ELSE back[i - a]
  BY <1>3, <1>4, ConcatProperties
<1>6. ASSUME NEW j \in 1..a+b
      PROVE  Skip(k, j) \in DOMAIN s /\ (front \o back)[j] = s[Skip(k, j)]
  <2>1. CASE j <= a
    <3>1. Skip(k, j) = j /\ j \in 1..a /\ j \in 1..Len(s)
      BY <1>1, <2>1 DEF Skip
    <3> QED BY <1>3, <1>5, <2>1, <3>1
  <2>2. CASE ~(j <= a)
    <3>1. Skip(k, j) = j + 1 /\ j - a \in 1..b /\ k + (j - a) = j + 1 /\ j + 1 \in 1..Len(s)
      BY <1>1, <2>2 DEF Skip
    <3>2. (front \o back)[j] = back[j - a]
      BY <1>5, <2>2
    <3>3. back[j - a] = s[j + 1]
      BY <1>4, <3>1
    <3> QED BY <3>1, <3>2, <3>3
  <2> QED BY <2>1, <2>2
<1>7. DOMAIN (front \o back) = 1..a+b
  BY <1>5
<1>8. Len(s) = a + b + 1
  BY <1>1
<1> QED BY <1>2, <1>5, <1>6, <1>7, <1>8

\* A list of different entries without one of them.
LEMMA RemoveFacts ==
    ASSUME NEW S, NEW s \in Seq(S), IsInjective(s), NEW k \in DOMAIN s
    PROVE  /\ RemoveAt(s, k) \in Seq(S)
           /\ IsInjective(RemoveAt(s, k))
           /\ ToSet(RemoveAt(s, k)) = ToSet(s) \ {s[k]}
<1> DEFINE r == RemoveAt(s, k)
<1>1. /\ r \in Seq(S) /\ Len(s) = Len(r) + 1
      /\ \A j \in DOMAIN r : Skip(k, j) \in DOMAIN s /\ r[j] = s[Skip(k, j)]
  BY RemoveAtFacts
<1> HIDE DEF r
<1>2. /\ k \in Nat /\ Len(r) \in Nat /\ 1 <= k /\ k <= Len(s)
      /\ DOMAIN r = 1..Len(r) /\ DOMAIN s = 1..Len(s)
  BY <1>1
<1>3. \A i, j \in DOMAIN r : (Skip(k, i) = Skip(k, j) => i = j) /\ Skip(k, j) # k
  BY <1>2 DEF Skip
<1>4. IsInjective(r)
  BY <1>1, <1>3 DEF IsInjective
<1>5. ASSUME NEW p \in DOMAIN s, p # k
      PROVE  \E j \in DOMAIN r : r[j] = s[p]
  <2>1. CASE p < k
    <3>1. p \in DOMAIN r /\ Skip(k, p) = p
      BY <1>1, <1>2, <2>1 DEF Skip
    <3> QED BY <1>1, <3>1
  <2>2. CASE ~(p < k)
    <3>1. PICK q \in Nat : p = q + 1
      <4>1. p \in Nat /\ 1 <= p
        BY <1>2
      <4>2. p - 1 \in Nat /\ p = (p - 1) + 1
        BY <4>1
      <4> QED BY <4>2
    <3>2. q \in DOMAIN r /\ Skip(k, q) = p
      BY <1>1, <1>2, <1>5, <2>2, <3>1 DEF Skip
    <3> QED BY <1>1, <3>2
  <2> QED BY <2>1, <2>2
<1>6. ToSet(r) = ToSet(s) \ {s[k]}
  <2>1. \A j \in DOMAIN r : r[j] \in ToSet(s) /\ r[j] # s[k]
    BY <1>1, <1>3 DEF ToSet, IsInjective
  <2>2. \A p \in DOMAIN s : s[p] # s[k] => s[p] \in ToSet(r)
    BY <1>5 DEF ToSet
  <2> QED BY <2>1, <2>2 DEF ToSet
<1> QED BY <1>1, <1>4, <1>6 DEF r

LEMMA AppendFacts ==
    ASSUME NEW S, NEW s \in Seq(S), NEW e \in S
    PROVE  /\ Append(s, e) \in Seq(S) /\ Append(s, e) # <<>>
           /\ ToSet(Append(s, e)) = ToSet(s) \cup {e}
           /\ IsInjective(s) /\ e \notin ToSet(s) => IsInjective(Append(s, e))
<1> DEFINE r == Append(s, e)
<1>1. /\ r \in Seq(S) /\ Len(r) = Len(s) + 1
      /\ \A i \in 1..Len(s) : r[i] = s[i]
      /\ r[Len(s) + 1] = e
  BY AppendProperties
<1> HIDE DEF r
<1>2. DOMAIN r = 1..Len(s)+1 /\ DOMAIN s = 1..Len(s) /\ Len(s) \in Nat
  BY <1>1
<1>3. \A i \in DOMAIN r : i \in DOMAIN s \/ i = Len(s) + 1
  BY <1>2
<1>4. DOMAIN s \subseteq DOMAIN r /\ Len(s) + 1 \in DOMAIN r /\ r # <<>>
  BY <1>1, <1>2
<1>5. \A i \in DOMAIN s : r[i] = s[i]
  BY <1>1, <1>2
<1>6. ToSet(r) = ToSet(s) \cup {e}
  BY <1>1, <1>3, <1>4, <1>5 DEF ToSet
<1>7. ASSUME IsInjective(s), e \notin ToSet(s), NEW i \in DOMAIN r, NEW j \in DOMAIN r, r[i] = r[j]
      PROVE  i = j
  <2>1. \A n \in DOMAIN s : s[n] # e
    BY <1>7 DEF ToSet
  <2>2. CASE i \in DOMAIN s /\ j \in DOMAIN s
    BY <1>5, <1>7, <2>2 DEF IsInjective
  <2>3. CASE ~(i \in DOMAIN s /\ j \in DOMAIN s)
    BY <1>1, <1>3, <1>5, <1>7, <2>1, <2>3
  <2> QED BY <2>2, <2>3
<1>8. IsInjective(s) /\ e \notin ToSet(s) => IsInjective(r)
  BY <1>7 DEF IsInjective
<1> QED BY <1>1, <1>4, <1>6, <1>8 DEF r

LEMMA TailFacts ==
    ASSUME NEW S, NEW s \in Seq(S), s # <<>>
    PROVE  Head(s) \in ToSet(s) /\ Tail(s) \in Seq(S) /\ ToSet(Tail(s)) \subseteq ToSet(s)
<1>1. /\ Tail(s) \in Seq(S) /\ Len(Tail(s)) = Len(s) - 1
      /\ \A i \in 1..Len(Tail(s)) : Tail(s)[i] = s[i + 1]
  BY HeadTailProperties
<1>2. Len(s) \in Nat /\ DOMAIN s = 1..Len(s) /\ Len(s) # 0
  OBVIOUS
<1>3. DOMAIN Tail(s) = 1..Len(Tail(s)) /\ \A i \in 1..Len(Tail(s)) : i + 1 \in DOMAIN s
  BY <1>1, <1>2
<1>4. ToSet(Tail(s)) \subseteq ToSet(s)
  BY <1>1, <1>3 DEF ToSet
<1>5. 1 \in DOMAIN s /\ Head(s) = s[1]
  BY <1>2
<1> QED BY <1>1, <1>4, <1>5 DEF ToSet

-----------------------------------------------------------------------------
(***************************************************************************)
(* The actions                                                             *)
(***************************************************************************)

\* What WaitersListed says, one by one.
LEMMA Listed ==
    ASSUME WaitInv
    PROVE  /\ AtomicsAssumption
           /\ mem \in [Words -> Values] /\ mutex \in Threads \cup {Free}
           /\ list \in Seq(Threads) /\ batch \in Seq(Threads)
           /\ pc \in [Threads -> Points]
           /\ call \in [Threads -> [word : Words, value : Values, timed : BOOLEAN, count : Nat]]
           /\ linked \in [Threads -> BOOLEAN]
           /\ last \in [Threads -> {"none", "not_equal", "ok", "timed_out"} \X BOOLEAN]
           /\ calls \in 0..MaxCalls
           /\ \A t \in Threads : mutex = t <=> pc[t] \in {"link", "take", "signal"}
           /\ IsInjective(list)
           /\ \A t \in Threads : linked[t] <=> t \in ToSet(list)
           /\ \A t \in ToSet(list) \cup ToSet(batch) : t \in Threads /\ Waiting(t)
           /\ ToSet(list) \cap ToSet(batch) = {}
           /\ Free \notin Threads
<1>1. ToSet(list) \subseteq Threads /\ ToSet(batch) \subseteq Threads
  BY DEF WaitInv, TypeOK, ToSet
<1> QED BY <1>1 DEF WaitInv, TypeOK, WaitersListed, AtomicsAssumption

\* A thread that is not asleep goes from one point to another, and has the
\* mutex then where it had it before.
LEMMA Moves ==
    ASSUME WaitInv, NEW t \in Threads, NEW p \in Points, Goto(t, p), ~Waiting(t),
           p \notin {"link", "take", "signal"}, pc[t] \notin {"link", "take", "signal"},
           UNCHANGED <<mutex, list, batch, linked>>,
           mem' \in [Words -> Values], calls' \in 0..MaxCalls,
           call' \in [Threads -> [word : Words, value : Values, timed : BOOLEAN, count : Nat]],
           last' \in [Threads -> {"none", "not_equal", "ok", "timed_out"} \X BOOLEAN]
    PROVE  WaitInv'
<1>1. /\ pc' \in [Threads -> Points] /\ pc'[t] = p
      /\ \A u \in Threads : u # t => pc'[u] = pc[u]
  BY Listed DEF Goto
<1>2. TypeOK'
  BY <1>1, Listed DEF TypeOK
<1>3. \A u \in ToSet(list) \cup ToSet(batch) : u \in Threads /\ Waiting(u) /\ u # t
  BY Listed
<1>4. \A u \in ToSet(list) \cup ToSet(batch) : Waiting(u)'
  BY <1>1, <1>3 DEF Waiting
<1>5. WaitersListed'
  BY <1>4, Listed DEF WaitersListed
<1>6. BatchHeld'
  BY <1>1 DEF WaitInv, BatchHeld
<1> QED BY <1>2, <1>5, <1>6, Listed DEF WaitInv

LEMMA BeginKeeps ==
    ASSUME WaitInv, NEW t \in Threads, NEW p \in {"wait", "notify"},
           NEW c \in [word : Words, value : Values, timed : BOOLEAN, count : Nat],
           Begin(t, p, c), UNCHANGED <<mutex, list, batch, linked, last>>,
           mem' \in [Words -> Values]
    PROVE  WaitInv'
<1>1. calls' \in 0..MaxCalls
  BY Listed DEF Begin, AtomicsAssumption
<1>2. call' \in [Threads -> [word : Words, value : Values, timed : BOOLEAN, count : Nat]]
  BY Listed DEF Begin
<1>3. Goto(t, p) /\ pc[t] = "idle" /\ p \in Points
  BY DEF Begin, Points
<1>4. last' \in [Threads -> {"none", "not_equal", "ok", "timed_out"} \X BOOLEAN]
  BY Listed
<1> QED BY <1>1, <1>2, <1>3, <1>4, Moves DEF Waiting

LEMMA WaitKeeps ==
    ASSUME WaitInv, NEW t \in Threads, NEW w \in Words, NEW v \in Values, NEW timed \in BOOLEAN,
           Wait(t, w, v, timed)
    PROVE  WaitInv'
<1> DEFINE c == [word |-> w, value |-> v, timed |-> timed, count |-> 0]
<1>1. c \in [word : Words, value : Values, timed : BOOLEAN, count : Nat]
  OBVIOUS
<1>2. /\ Begin(t, "wait", c) /\ UNCHANGED <<mutex, list, batch, linked, last>>
      /\ mem' \in [Words -> Values]
  BY Listed DEF Wait
<1> HIDE DEF c
<1> QED BY <1>1, <1>2, BeginKeeps

LEMMA StoreKeeps ==
    ASSUME WaitInv, NEW t \in Threads, NEW w \in Words, NEW v \in Values, NEW n \in Counts,
           Store(t, w, v, n)
    PROVE  WaitInv'
<1> DEFINE c == [word |-> w, value |-> v, timed |-> FALSE, count |-> n]
<1>1. c \in [word : Words, value : Values, timed : BOOLEAN, count : Nat]
  BY Listed DEF AtomicsAssumption
<1>2. Begin(t, "notify", c) /\ UNCHANGED <<mutex, list, batch, linked, last>>
  BY DEF Store
<1>3. mem' \in [Words -> Values]
  BY Listed DEF Store
<1> HIDE DEF c
<1> QED BY <1>1, <1>2, <1>3, BeginKeeps

\* No thread that waits for the mutex, or calls wait or notify, is on a list;
\* while the mutex is free no notify has waiters.
LEMMA Unlisted ==
    ASSUME WaitInv
    PROVE  /\ \A t \in Threads : ~Waiting(t) => t \notin ToSet(list) /\ t \notin ToSet(batch)
           /\ mutex = Free => batch = <<>>
           /\ \A t \in Threads : pc[t] = "link" => batch = <<>>
           /\ \A t, u \in Threads :
                 pc[t] \in {"link", "take", "signal"} /\ pc[u] \in {"link", "take", "signal"} => t = u
<1>1. \A t \in Threads : ~Waiting(t) => t \notin ToSet(list) /\ t \notin ToSet(batch)
  BY Listed
<1>2. \A t, u \in Threads :
         pc[t] \in {"link", "take", "signal"} /\ pc[u] \in {"link", "take", "signal"} => t = u
  BY Listed
<1>3. ASSUME batch # <<>>
      PROVE  mutex # Free /\ \A t \in Threads : pc[t] # "link"
  <2>1. PICK u \in Threads : pc[u] \in {"take", "signal"}
    BY <1>3 DEF WaitInv, BatchHeld
  <2> QED BY <1>2, <2>1, Listed
<1> QED BY <1>1, <1>2, <1>3

LEMMA CompareKeeps == ASSUME WaitInv, NEW t \in Threads, Compare(t) PROVE WaitInv'
<1>1. pc[t] = "wait" /\ mutex = Free /\ UNCHANGED <<mem, list, batch, call, linked, calls>>
  BY DEF Compare
<1>2. CASE mem[call[t].word] # call[t].value
  <2>1. last' = [last EXCEPT ![t] = <<"not_equal", FALSE>>] /\ Goto(t, "idle") /\ UNCHANGED mutex
    BY <1>2 DEF Compare
  <2>2. last' \in [Threads -> {"none", "not_equal", "ok", "timed_out"} \X BOOLEAN]
    BY <2>1, Listed
  <2>3. /\ mem' \in [Words -> Values] /\ calls' \in 0..MaxCalls
        /\ call' \in [Threads -> [word : Words, value : Values, timed : BOOLEAN, count : Nat]]
    BY <1>1, Listed
  <2> QED BY <1>1, <2>1, <2>2, <2>3, Moves DEF Waiting, Points
<1>3. CASE ~(mem[call[t].word] # call[t].value)
  <2>1. mutex' = t /\ Goto(t, "link") /\ UNCHANGED last
    BY <1>3 DEF Compare
  <2>2. /\ pc' \in [Threads -> Points] /\ pc'[t] = "link"
        /\ \A u \in Threads : u # t => pc'[u] = pc[u]
    BY <2>1, Listed DEF Goto, Points
  <2>3. \A u \in Threads : pc[u] \notin {"link", "take", "signal"}
    BY <1>1, Listed
  <2>4. \A u \in Threads : mutex' = u <=> pc'[u] \in {"link", "take", "signal"}
    BY <2>1, <2>2, <2>3
  <2>5. TypeOK'
    BY <1>1, <2>1, <2>2, <2>4, Listed DEF TypeOK
  <2>6. \A u \in ToSet(list) \cup ToSet(batch) : Waiting(u)'
    <3>1. ~Waiting(t)
      BY <1>1 DEF Waiting
    <3> QED BY <2>2, <3>1, Listed DEF Waiting
  <2>7. WaitersListed'
    BY <1>1, <2>6, Listed DEF WaitersListed
  <2>8. BatchHeld'
    BY <1>1, Unlisted DEF BatchHeld
  <2> QED BY <2>5, <2>7, <2>8, Listed DEF WaitInv
<1> QED BY <1>2, <1>3

LEMMA SleepKeeps == ASSUME WaitInv, NEW t \in Threads, Sleep(t) PROVE WaitInv'
<1>1. /\ pc[t] = "link" /\ list' = Append(list, t) /\ linked' = [linked EXCEPT ![t] = TRUE]
      /\ mutex' = Free /\ Goto(t, "sleep")
      /\ UNCHANGED <<mem, batch, call, last, calls>>
  BY DEF Sleep
<1>2. /\ pc' \in [Threads -> Points] /\ pc'[t] = "sleep"
      /\ \A u \in Threads : u # t => pc'[u] = pc[u]
  BY <1>1, Listed DEF Goto, Points
<1>3. /\ t \notin ToSet(list) /\ batch = <<>>
      /\ \A u \in Threads : u # t => pc[u] \notin {"link", "take", "signal"}
  BY <1>1, Unlisted DEF Waiting
<1>4. list' \in Seq(Threads) /\ ToSet(list') = ToSet(list) \cup {t} /\ IsInjective(list')
  BY <1>1, <1>3, AppendFacts, Listed
<1>5. \A u \in Threads : ~(mutex' = u) /\ pc'[u] \notin {"link", "take", "signal"}
  BY <1>1, <1>2, <1>3, Listed
<1>6. linked' \in [Threads -> BOOLEAN] /\ \A u \in Threads : linked'[u] <=> u \in ToSet(list')
  BY <1>1, <1>4, Listed
<1>7. TypeOK'
  BY <1>1, <1>2, <1>4, <1>5, <1>6, Listed DEF TypeOK
<1>8. ToSet(batch) = {}
  BY <1>3 DEF ToSet
<1>9. \A u \in ToSet(list') \cup ToSet(batch') : Waiting(u)'
  BY <1>1, <1>2, <1>4, <1>8, Listed DEF Waiting
<1>10. WaitersListed'
  BY <1>1, <1>4, <1>6, <1>8, <1>9 DEF WaitersListed
<1>11. BatchHeld'
  BY <1>1, <1>3 DEF BatchHeld
<1> QED BY <1>7, <1>10, <1>11, Listed DEF WaitInv

\* The clock, or a wakeup without a signal.
LEMMA WakesKeep == ASSUME WaitInv, NEW t \in Threads, Expire(t) \/ WakeUp(t) PROVE WaitInv'
<1>1. PICK p \in {"expired", "woken"} : pc[t] = "sleep" /\ Goto(t, p)
  BY DEF Expire, WakeUp
<1>2. UNCHANGED <<mem, mutex, list, batch, call, linked, last, calls>>
  BY DEF Expire, WakeUp
<1>3. /\ pc' \in [Threads -> Points] /\ pc'[t] = p
      /\ \A u \in Threads : u # t => pc'[u] = pc[u]
  BY <1>1, Listed DEF Goto, Points
<1>4. TypeOK'
  BY <1>1, <1>2, <1>3, Listed DEF TypeOK
<1>5. \A u \in ToSet(list) \cup ToSet(batch) : Waiting(u)'
  BY <1>3, Listed DEF Waiting
<1>6. WaitersListed'
  BY <1>2, <1>5, Listed DEF WaitersListed
<1>7. BatchHeld'
  BY <1>1, <1>2, <1>3 DEF WaitInv, BatchHeld
<1> QED BY <1>4, <1>6, <1>7, Listed DEF WaitInv

LEMMA ReturnKeeps == ASSUME WaitInv, NEW t \in Threads, Return(t) PROVE WaitInv'
<1>1. /\ pc[t] \in {"woken", "expired"} /\ mutex = Free
      /\ linked' = [linked EXCEPT ![t] = FALSE]
      /\ last' = [last EXCEPT ![t] =
                    <<IF pc[t] = "expired" THEN "timed_out" ELSE "ok", ~linked[t]>>]
      /\ Goto(t, "idle") /\ UNCHANGED <<mem, mutex, batch, call, calls>>
  BY DEF Return
<1>2. /\ pc' \in [Threads -> Points] /\ pc'[t] = "idle"
      /\ \A u \in Threads : u # t => pc'[u] = pc[u]
  BY <1>1, Listed DEF Goto, Points
<1>3. batch = <<>> /\ ToSet(batch) = {}
  BY <1>1, Unlisted DEF ToSet
<1>4. list' \in Seq(Threads) /\ IsInjective(list') /\ ToSet(list') = ToSet(list) \ {t}
  <2>1. CASE linked[t]
    <3>1. PICK i \in DOMAIN list : list[i] = t /\ list' = RemoveAt(list, i)
      BY <2>1 DEF Return
    <3> QED BY <3>1, RemoveFacts, Listed
  <2>2. CASE ~linked[t]
    <3>1. UNCHANGED list
      BY <2>2 DEF Return
    <3> QED BY <2>2, <3>1, Listed
  <2> QED BY <2>1, <2>2
<1>5. linked' \in [Threads -> BOOLEAN] /\ \A u \in Threads : linked'[u] <=> u \in ToSet(list')
  BY <1>1, <1>4, Listed
<1>6. last' \in [Threads -> {"none", "not_equal", "ok", "timed_out"} \X BOOLEAN]
  <2>1. linked[t] \in BOOLEAN
    BY Listed
  <2>2. <<IF pc[t] = "expired" THEN "timed_out" ELSE "ok", ~linked[t]>>
           \in {"none", "not_equal", "ok", "timed_out"} \X BOOLEAN
    OBVIOUS
  <2> QED BY <1>1, <2>2, Listed
<1>7. \A u \in Threads : mutex' = u <=> pc'[u] \in {"link", "take", "signal"}
  BY <1>1, <1>2, Listed
<1>8. TypeOK'
  BY <1>1, <1>2, <1>4, <1>5, <1>6, <1>7, Listed DEF TypeOK
<1>9. \A u \in ToSet(list') \cup ToSet(batch') : Waiting(u)'
  BY <1>1, <1>2, <1>3, <1>4, Listed DEF Waiting
<1>10. WaitersListed'
  BY <1>1, <1>3, <1>4, <1>5, <1>9 DEF WaitersListed
<1>11. BatchHeld'
  BY <1>1, <1>3 DEF BatchHeld
<1> QED BY <1>8, <1>10, <1>11, Listed DEF WaitInv

LEMMA LockKeeps == ASSUME WaitInv, NEW t \in Threads, Lock(t) PROVE WaitInv'
<1>1. /\ pc[t] = "notify" /\ mutex = Free /\ mutex' = t /\ batch' = <<>> /\ Goto(t, "take")
      /\ UNCHANGED <<mem, list, call, linked, last, calls>>
  BY DEF Lock
<1>2. /\ pc' \in [Threads -> Points] /\ pc'[t] = "take"
      /\ \A u \in Threads : u # t => pc'[u] = pc[u]
  BY <1>1, Listed DEF Goto, Points
<1>3. \A u \in Threads : mutex' = u <=> pc'[u] \in {"link", "take", "signal"}
  BY <1>1, <1>2, Listed
<1>4. TypeOK'
  BY <1>1, <1>2, <1>3, Listed DEF TypeOK
<1>5. ToSet(batch') = {}
  BY <1>1 DEF ToSet
<1>6. \A u \in ToSet(list) : Waiting(u)'
  BY <1>1, <1>2, Listed DEF Waiting
<1>7. WaitersListed'
  BY <1>1, <1>5, <1>6, Listed DEF WaitersListed
<1>8. BatchHeld'
  BY <1>1 DEF BatchHeld
<1> QED BY <1>4, <1>7, <1>8, Listed DEF WaitInv

LEMMA TakeKeeps == ASSUME WaitInv, NEW t \in Threads, Take(t) PROVE WaitInv'
<1>1. pc[t] = "take" /\ UNCHANGED <<mem, mutex, pc, call, last, calls>>
  BY DEF Take
<1>2. PICK i \in DOMAIN list :
         /\ list' = RemoveAt(list, i)
         /\ batch' = Append(batch, list[i])
         /\ linked' = [linked EXCEPT ![list[i]] = FALSE]
  BY DEF Take, Here
<1>3. list[i] \in Threads /\ list[i] \in ToSet(list)
  BY Listed DEF ToSet
<1>4. list' \in Seq(Threads) /\ IsInjective(list') /\ ToSet(list') = ToSet(list) \ {list[i]}
  BY <1>2, RemoveFacts, Listed
<1>5. batch' \in Seq(Threads) /\ ToSet(batch') = ToSet(batch) \cup {list[i]}
  BY <1>2, <1>3, AppendFacts, Listed
<1>6. linked' \in [Threads -> BOOLEAN] /\ \A u \in Threads : linked'[u] <=> u \in ToSet(list')
  BY <1>2, <1>4, Listed
<1>7. TypeOK'
  BY <1>1, <1>4, <1>5, <1>6, Listed DEF TypeOK
<1>8. \A u \in ToSet(list') \cup ToSet(batch') : Waiting(u)'
  BY <1>1, <1>3, <1>4, <1>5, Listed DEF Waiting
<1>9. ToSet(list') \cap ToSet(batch') = {}
  BY <1>4, <1>5, Listed
<1>10. WaitersListed'
  BY <1>4, <1>6, <1>8, <1>9 DEF WaitersListed
<1>11. BatchHeld'
  BY <1>1 DEF BatchHeld
<1> QED BY <1>7, <1>10, <1>11, Listed DEF WaitInv

LEMMA TakenKeeps == ASSUME WaitInv, NEW t \in Threads, Taken(t) PROVE WaitInv'
<1>1. /\ pc[t] = "take" /\ Goto(t, "signal")
      /\ UNCHANGED <<mem, mutex, list, batch, call, linked, last, calls>>
  BY DEF Taken
<1>2. /\ pc' \in [Threads -> Points] /\ pc'[t] = "signal"
      /\ \A u \in Threads : u # t => pc'[u] = pc[u]
  BY <1>1, Listed DEF Goto, Points
<1>3. TypeOK'
  BY <1>1, <1>2, Listed DEF TypeOK
<1>4. \A u \in ToSet(list) \cup ToSet(batch) : Waiting(u)'
  BY <1>1, <1>2, Listed DEF Waiting
<1>5. WaitersListed'
  BY <1>1, <1>4, Listed DEF WaitersListed
<1>6. BatchHeld'
  BY <1>2 DEF BatchHeld
<1> QED BY <1>3, <1>5, <1>6, Listed DEF WaitInv

LEMMA SignalKeeps == ASSUME WaitInv, NEW t \in Threads, Signal(t) PROVE WaitInv'
<1>1. /\ pc[t] = "signal" /\ batch # <<>> /\ batch' = Tail(batch)
      /\ UNCHANGED <<mem, mutex, list, call, linked, last, calls>>
  BY DEF Signal
<1>2. /\ Head(batch) \in ToSet(batch) /\ batch' \in Seq(Threads)
      /\ ToSet(batch') \subseteq ToSet(batch)
  BY <1>1, TailFacts, Listed
<1>3. Head(batch) \in Threads /\ Waiting(Head(batch)) /\ Head(batch) # t
  BY <1>1, <1>2, Listed DEF Waiting
<1>4. /\ pc' \in [Threads -> Points]
      /\ \A u \in Threads : pc'[u] = pc[u] \/ (pc[u] = "sleep" /\ pc'[u] = "woken")
      /\ pc'[t] = "signal"
  <2>1. CASE pc[Head(batch)] = "sleep"
    <3>1. pc' = [pc EXCEPT ![Head(batch)] = "woken"]
      BY <2>1 DEF Signal, Goto
    <3> QED BY <1>1, <1>3, <2>1, <3>1, Listed DEF Points
  <2>2. CASE pc[Head(batch)] # "sleep"
    <3>1. UNCHANGED pc
      BY <2>2 DEF Signal
    <3> QED BY <1>1, <3>1, Listed
  <2> QED BY <2>1, <2>2
<1>5. \A u \in Threads : pc'[u] \in {"link", "take", "signal"} <=> pc[u] \in {"link", "take", "signal"}
  BY <1>4
<1>6. TypeOK'
  BY <1>1, <1>2, <1>4, <1>5, Listed DEF TypeOK
<1>7. \A u \in ToSet(list) \cup ToSet(batch) : Waiting(u)'
  BY <1>4, Listed DEF Waiting
<1>8. WaitersListed'
  BY <1>1, <1>2, <1>7, Listed DEF WaitersListed
<1>9. BatchHeld'
  BY <1>4 DEF BatchHeld
<1> QED BY <1>6, <1>8, <1>9, Listed DEF WaitInv

LEMMA SignalledKeeps == ASSUME WaitInv, NEW t \in Threads, Signalled(t) PROVE WaitInv'
<1>1. /\ pc[t] = "signal" /\ batch = <<>> /\ mutex' = Free /\ Goto(t, "idle")
      /\ UNCHANGED <<mem, list, batch, call, linked, last, calls>>
  BY DEF Signalled
<1>2. /\ pc' \in [Threads -> Points] /\ pc'[t] = "idle"
      /\ \A u \in Threads : u # t => pc'[u] = pc[u]
  BY <1>1, Listed DEF Goto, Points
<1>3. \A u \in Threads : u # t => pc[u] \notin {"link", "take", "signal"}
  BY <1>1, Unlisted
<1>4. \A u \in Threads : mutex' = u <=> pc'[u] \in {"link", "take", "signal"}
  BY <1>1, <1>2, <1>3, Listed
<1>5. TypeOK'
  BY <1>1, <1>2, <1>4, Listed DEF TypeOK
<1>6. \A u \in ToSet(list) \cup ToSet(batch) : Waiting(u)'
  BY <1>1, <1>2, Listed DEF Waiting
<1>7. WaitersListed'
  BY <1>1, <1>6, Listed DEF WaitersListed
<1>8. BatchHeld'
  BY <1>1 DEF BatchHeld
<1> QED BY <1>5, <1>7, <1>8, Listed DEF WaitInv

-----------------------------------------------------------------------------
LEMMA InitWaits == ASSUME AtomicsAssumption, Init PROVE WaitInv
<1>1. PICK w \in Words, v \in Values :
         /\ mem = [x \in Words |-> v]
         /\ call = [t \in Threads |-> [word |-> w, value |-> v, timed |-> FALSE, count |-> 0]]
  BY DEF Init
<1>2. /\ mutex = Free /\ list = <<>> /\ batch = <<>> /\ calls = 0
      /\ pc = [t \in Threads |-> "idle"] /\ linked = [t \in Threads |-> FALSE]
      /\ last = [t \in Threads |-> <<"none", FALSE>>]
  BY DEF Init
<1>3. TypeOK
  <2>1. call \in [Threads -> [word : Words, value : Values, timed : BOOLEAN, count : Nat]]
    BY <1>1
  <2>2. calls \in 0..MaxCalls /\ mem \in [Words -> Values] /\ list \in Seq(Threads)
    BY <1>1, <1>2 DEF AtomicsAssumption
  <2>3. \A t \in Threads : mutex = t <=> pc[t] \in {"link", "take", "signal"}
    BY <1>2 DEF AtomicsAssumption
  <2> QED BY <1>2, <2>1, <2>2, <2>3 DEF TypeOK, Points
<1>4. ToSet(list) = {} /\ ToSet(batch) = {}
  BY <1>2 DEF ToSet
<1>5. WaitersListed
  BY <1>2, <1>4 DEF WaitersListed, IsInjective
<1> QED BY <1>2, <1>3, <1>5 DEF WaitInv, BatchHeld

LEMMA NextWaits == WaitInv /\ [Next]_vars => WaitInv'
<1> SUFFICES ASSUME WaitInv, [Next]_vars PROVE WaitInv'
  OBVIOUS
<1>1. ASSUME NEW t \in Threads, NEW w \in Words, NEW v \in Values,
             NEW timed \in BOOLEAN, Wait(t, w, v, timed)
      PROVE  WaitInv'
  BY <1>1, WaitKeeps
<1>2. ASSUME NEW t \in Threads, NEW w \in Words, NEW v \in Values,
             NEW n \in Counts, Store(t, w, v, n)
      PROVE  WaitInv'
  BY <1>2, StoreKeeps
<1>3. ASSUME NEW t \in Threads, Step(t) \/ Expire(t) \/ WakeUp(t)
      PROVE  WaitInv'
  BY <1>3, CompareKeeps, SleepKeeps, ReturnKeeps, LockKeeps, TakeKeeps, TakenKeeps, SignalKeeps,
     SignalledKeeps, WakesKeep DEF Step
<1>4. CASE UNCHANGED vars
  BY <1>4 DEF vars, WaitInv, TypeOK, WaitersListed, BatchHeld, Waiting
<1> QED BY <1>1, <1>2, <1>3, <1>4 DEF Next

LEMMA WaitInvariant == ASSUME AtomicsAssumption PROVE Spec => []WaitInv
<1>1. Init => WaitInv
  BY InitWaits
<1> QED BY <1>1, NextWaits, PTL DEF Spec

\* js_atomics_mutex is held exactly between lock and unlock, by one thread, and
\* the state of wait and notify keeps its type: for any threads and words.
THEOREM AtomicsTypes == ASSUME AtomicsAssumption PROVE Spec => []TypeOK
<1>1. WaitInv => TypeOK
  BY DEF WaitInv
<1> QED BY <1>1, WaitInvariant, PTL

\* WaitersListed: js_atomics_waiter_list and the list of the running notify
\* point to stacks of threads that are inside wait, each once, whichever of a
\* signal, the clock and a spurious wakeup comes first.
THEOREM AtomicsWaitersListed == ASSUME AtomicsAssumption PROVE Spec => []WaitersListed
<1>1. WaitInv => WaitersListed
  BY DEF WaitInv
<1> QED BY <1>1, WaitInvariant, PTL

-----------------------------------------------------------------------------
(***************************************************************************)
(* TestAgents                                                              *)
(***************************************************************************)


\* Only while the main thread broadcasts, an agent may still have to take the
\* last broadcast; all agents have its fields.  A callback has got a broadcast.
InStep ==
    \A a \in Agents :
        /\ TakenBy(a) = sent - (IF broadcast_pending[a] THEN 1 ELSE 0)
        /\ main # "broadcast" => ~broadcast_pending[a]
        /\ sab[a] = sent
        /\ agent[a] = "callback" => Len(received[a]) > 0

\* Agents are joined after the last broadcast.
JoinedLast ==
    /\ main \in {"join", "ended"} => sent = Rounds
    /\ \A a \in Agents : agent[a] = "joined" => main \in {"join", "ended"}

\* The agents that have not been joined.
Unjoined == {a \in Agents : agent[a] # "joined"}

\* Each agent had a reference to every broadcast, and keeps the last until it is
\* joined: the references to the earlier ones are never given up.
RefsExact ==
    \A b \in Broadcasts :
        refs[b] = IF b < sent THEN Cardinality(Agents)
                  ELSE IF b = sent THEN Cardinality(Unjoined) ELSE 0

\* An agent sleeps for a broadcast that has not come.  The main thread sleeps
\* while an agent has not taken the broadcast, or one that waits has been given
\* the signal of the last of them.
Asleep ==
    /\ \A a \in Agents : a \in blocked => agent[a] = "wait" /\ ~broadcast_pending[a]
    /\ Tester \in blocked => Pending \/ \E a \in Agents : agent[a] = "wait"

\* The inductive invariant; the constants are as assumed.
AgentsInv == AgentsAssumption /\ AgentsTypeOK /\ InStep /\ JoinedLast /\ RefsExact /\ Asleep

-----------------------------------------------------------------------------
LEMMA InitAgentsInv == AgentsAssumption /\ AgentsInit => AgentsInv
<1> SUFFICES ASSUME AgentsAssumption, AgentsInit PROVE AgentsInv
  OBVIOUS
<1>1. Rounds \in Nat /\ Tester \notin Agents
  BY DEF AgentsAssumption
<1>2. Cardinality(Agents) \in Nat
  BY FS_CardinalityType DEF AgentsAssumption
<1>3. AgentsTypeOK
  BY <1>1, <1>2 DEF AgentsInit, AgentsTypeOK, Broadcasts
<1>4. InStep
  <2>1. \A a \in Agents :
          /\ Len(received[a]) = 0 /\ agent[a] = "new"
          /\ broadcast_pending[a] = FALSE /\ sab[a] = 0
    BY DEF AgentsInit
  <2>2. ASSUME NEW a \in Agents PROVE TakenBy(a) = 0
    <3>1. Len(received[a]) = 0 /\ agent[a] # "taken"
      BY <2>1
    <3> QED BY <3>1 DEF TakenBy
  <2>3. sent = 0 /\ main = "run"
    BY DEF AgentsInit
  <2> SUFFICES ASSUME NEW a \in Agents
               PROVE  /\ TakenBy(a) = sent - (IF broadcast_pending[a] THEN 1 ELSE 0)
                      /\ main # "broadcast" => ~broadcast_pending[a]
                      /\ sab[a] = sent
                      /\ agent[a] = "callback" => Len(received[a]) > 0
    BY DEF InStep
  <2>4. agent[a] = "new" /\ broadcast_pending[a] = FALSE /\ sab[a] = 0 /\ TakenBy(a) = 0
    BY <2>1, <2>2
  <2>5. (IF broadcast_pending[a] THEN 1 ELSE 0) = 0
    BY <2>4
  <2>6. TakenBy(a) = sent - (IF broadcast_pending[a] THEN 1 ELSE 0)
    <3> DEFINE T == TakenBy(a)
               I == IF broadcast_pending[a] THEN 1 ELSE 0
    <3>1. T = 0 /\ I = 0 /\ sent = 0
      BY <2>3, <2>4, <2>5
    <3>2. T = sent - I
      <4> HIDE DEF T, I
      <4> QED BY <3>1
    <3> QED BY <3>2
  <2> QED BY <2>3, <2>4, <2>6
<1>5. JoinedLast /\ RefsExact /\ Asleep
  BY <1>1 DEF AgentsInit, JoinedLast, RefsExact, Broadcasts, Asleep
<1> QED BY <1>3, <1>4, <1>5 DEF AgentsInv

\* The parts of an agent are functions on the agents.
LEMMA Parts ==
  ASSUME AgentsAssumption, AgentsTypeOK, NEW a \in Agents
  PROVE  /\ Len(received[a]) \in Nat /\ received[a] \in Seq(Broadcasts)
         /\ sent \in Nat /\ sent <= Rounds /\ Rounds \in Nat \ {0}
         /\ asked[a] \in Nat
         /\ \A v : agent' = [agent EXCEPT ![a] = v] =>
              agent'[a] = v /\ \A c \in Agents : c # a => agent'[c] = agent[c]
<1>1. received[a] \in Seq(Broadcasts) /\ sent \in 0..Rounds /\ asked[a] \in 0..Rounds
  BY DEF AgentsTypeOK
<1>2. agent \in [Agents -> {"new", "script", "jobs", "wait", "taken", "callback", "exited",
                            "joined"}]
  BY DEF AgentsTypeOK
<1>3. Rounds \in Nat \ {0}
  BY DEF AgentsAssumption
<1> QED BY <1>1, <1>2, <1>3

\* An agent that neither takes a broadcast nor is joined leaves the counts alone.
LEMMA MovesOn ==
  ASSUME AgentsInv, NEW a \in Agents,
         NEW v \in {"script", "jobs", "wait", "exited"}, agent' = [agent EXCEPT ![a] = v],
         agent[a] \notin {"taken", "joined"},
         UNCHANGED <<broadcast_pending, sab, refs, main, sent, received>>
  PROVE  InStep' /\ JoinedLast' /\ RefsExact'
<1>1. AgentsAssumption /\ AgentsTypeOK /\ InStep /\ JoinedLast /\ RefsExact
  BY DEF AgentsInv
<1>2. /\ agent'[a] = v /\ \A c \in Agents : c # a => agent'[c] = agent[c]
  BY <1>1, Parts
<1>3. \A c \in Agents : TakenBy(c)' = TakenBy(c)
  BY <1>2 DEF TakenBy
<1>4. InStep'
  BY <1>1, <1>2, <1>3 DEF InStep
<1>5. JoinedLast'
  BY <1>1, <1>2 DEF JoinedLast
<1>6. Unjoined' = Unjoined
  BY <1>2 DEF Unjoined
<1>7. RefsExact'
  BY <1>1, <1>6 DEF RefsExact, Broadcasts
<1> QED BY <1>4, <1>5, <1>7

LEMMA RegisterAgentsInv ==
  ASSUME AgentsInv, NEW a \in Agents, Script(a) \/ Job(a)
  PROVE  AgentsInv'
<1>1. AgentsAssumption /\ AgentsTypeOK /\ Asleep
  BY DEF AgentsInv
<1>2. /\ asked[a] < Rounds
      /\ registered' = [registered EXCEPT ![a] = TRUE]
      /\ asked' = [asked EXCEPT ![a] = @ + 1]
      /\ UNCHANGED <<broadcast_pending, sab, refs, main, sent, blocked, received>>
  BY DEF Script, Job, Register
<1>3. agent' = [agent EXCEPT ![a] = "jobs"] /\ agent[a] \in {"script", "jobs"}
  <2>1. CASE Script(a)
    BY <2>1 DEF Script
  <2>2. CASE Job(a)
    <3>1. agent[a] = "jobs" /\ agent' = agent
      BY <2>2 DEF Job
    <3>2. [agent EXCEPT ![a] = "jobs"] = agent
      BY <1>1, <3>1 DEF AgentsTypeOK
    <3> QED BY <3>1, <3>2
  <2> QED BY <2>1, <2>2
<1>4. InStep' /\ JoinedLast' /\ RefsExact'
  BY <1>2, <1>3, MovesOn
<1>5. asked' \in [Agents -> 0..Rounds]
  <2>1. asked \in [Agents -> 0..Rounds]
    BY <1>1 DEF AgentsTypeOK
  <2>2. asked[a] + 1 \in 0..Rounds
    BY <1>1, <1>2, Parts
  <2> QED BY <1>2, <2>1, <2>2
<1>6. registered' \in [Agents -> BOOLEAN]
  <2>1. registered \in [Agents -> BOOLEAN]
    BY <1>1 DEF AgentsTypeOK
  <2> QED BY <1>2, <2>1
<1>7. AgentsTypeOK'
  BY <1>1, <1>2, <1>3, <1>5, <1>6 DEF AgentsTypeOK
<1>8. Asleep'
  <2>1. /\ agent'[a] = "jobs" /\ \A c \in Agents : c # a => agent'[c] = agent[c]
    BY <1>1, <1>3, Parts
  <2> QED BY <1>1, <1>2, <1>3, <2>1 DEF Asleep, Pending
<1> QED BY <1>1, <1>4, <1>7, <1>8 DEF AgentsInv

LEMMA ExitAgentsInv ==
  ASSUME AgentsInv, NEW a \in Agents, Exit(a)
  PROVE  AgentsInv'
<1>1. AgentsAssumption /\ AgentsTypeOK /\ Asleep
  BY DEF AgentsInv
<1>2. /\ agent[a] = "jobs" /\ agent' = [agent EXCEPT ![a] = "exited"]
      /\ UNCHANGED <<registered, asked, broadcast_pending, sab, refs, main, sent, blocked,
                     received>>
  BY DEF Exit
<1>3. InStep' /\ JoinedLast' /\ RefsExact'
  BY <1>2, MovesOn
<1>4. AgentsTypeOK'
  BY <1>1, <1>2 DEF AgentsTypeOK
<1>5. Asleep'
  <2>1. /\ agent'[a] = "exited" /\ \A c \in Agents : c # a => agent'[c] = agent[c]
    BY <1>1, <1>2, Parts
  <2> QED BY <1>1, <1>2, <2>1 DEF Asleep, Pending
<1> QED BY <1>1, <1>3, <1>4, <1>5 DEF AgentsInv

LEMMA WaitAgentsInv ==
  ASSUME AgentsInv, NEW a \in Agents, AwaitBroadcast(a)
  PROVE  AgentsInv'
<1>1. AgentsAssumption /\ AgentsTypeOK /\ Asleep
  BY DEF AgentsInv
<1>2. /\ agent[a] \in {"jobs", "wait"} /\ ~broadcast_pending[a]
      /\ agent' = [agent EXCEPT ![a] = "wait"] /\ blocked' = blocked \cup {a}
      /\ UNCHANGED <<registered, asked, broadcast_pending, sab, refs, main, sent, received>>
  BY DEF AwaitBroadcast, HasMutex
<1>3. InStep' /\ JoinedLast' /\ RefsExact'
  BY <1>2, MovesOn
<1>4. AgentsTypeOK'
  BY <1>1, <1>2 DEF AgentsTypeOK
<1>5. Asleep'
  <2>1. /\ agent'[a] = "wait" /\ \A c \in Agents : c # a => agent'[c] = agent[c]
    BY <1>1, <1>2, Parts
  <2> QED BY <1>1, <1>2, <2>1 DEF Asleep, Pending
<1> QED BY <1>1, <1>3, <1>4, <1>5 DEF AgentsInv

LEMMA TakeAgentsInv ==
  ASSUME AgentsInv, NEW a \in Agents, TakeBroadcast(a)
  PROVE  AgentsInv'
<1>1. AgentsAssumption /\ AgentsTypeOK /\ InStep /\ JoinedLast /\ RefsExact /\ Asleep
  BY DEF AgentsInv
<1>2. /\ agent[a] \in {"jobs", "wait"} /\ broadcast_pending[a] /\ a \notin blocked
      /\ broadcast_pending' = [broadcast_pending EXCEPT ![a] = FALSE]
      /\ agent' = [agent EXCEPT ![a] = "taken"]
      /\ UNCHANGED <<registered, asked, sab, refs, main, sent, received>>
  BY <1>1 DEF TakeBroadcast, HasMutex, Asleep
<1>3. /\ agent'[a] = "taken" /\ \A c \in Agents : c # a => agent'[c] = agent[c]
  BY <1>1, <1>2, Parts
<1>4. /\ broadcast_pending \in [Agents -> BOOLEAN] /\ broadcast_pending' \in [Agents -> BOOLEAN]
      /\ ~broadcast_pending'[a]
      /\ \A c \in Agents : c # a => broadcast_pending'[c] = broadcast_pending[c]
  BY <1>1, <1>2 DEF AgentsTypeOK
<1>5. /\ blocked' \subseteq blocked
      /\ Tester \in blocked' => \E c \in Agents : c \in blocked /\ c \notin blocked'
  <2>1. CondSignal
    BY DEF TakeBroadcast
  <2>2. CASE blocked = {}
    BY <2>1, <2>2 DEF CondSignal
  <2>3. CASE blocked # {}
    <3>1. PICK t \in blocked : blocked' = blocked \ {t}
      BY <2>1, <2>3 DEF CondSignal
    <3>2. blocked \subseteq Agents \cup {Tester}
      BY <1>1 DEF AgentsTypeOK
    <3> QED BY <3>1, <3>2
  <2> QED BY <2>2, <2>3
<1>6. AgentsTypeOK'
  BY <1>1, <1>2, <1>4, <1>5 DEF AgentsTypeOK
<1>7. InStep'
  <2>1. ASSUME NEW c \in Agents, c # a
        PROVE  TakenBy(c)' = TakenBy(c) /\ broadcast_pending'[c] = broadcast_pending[c]
    BY <1>2, <1>3, <1>4, <2>1 DEF TakenBy
  <2>2. TakenBy(a)' = TakenBy(a) + 1
    <3>1. Len(received[a]) \in Nat /\ received' = received
      BY <1>1, <1>2, Parts
    <3>2. TakenBy(a)' = Len(received[a]) + 1
      BY <1>3, <3>1 DEF TakenBy
    <3>3. TakenBy(a) = Len(received[a])
      <4>1. agent[a] # "taken" /\ Len(received[a]) \in Nat
        BY <1>2, <3>1
      <4> QED BY <4>1 DEF TakenBy
    <3> QED BY <3>2, <3>3
  <2>3. TakenBy(a) = sent - 1 /\ sent \in Nat
    BY <1>1, <1>2, Parts DEF InStep
  <2> QED BY <1>1, <1>2, <1>3, <1>4, <2>1, <2>2, <2>3 DEF InStep
<1>8. JoinedLast'
  BY <1>1, <1>2, <1>3 DEF JoinedLast
<1>9. Unjoined' = Unjoined
  BY <1>2, <1>3 DEF Unjoined
<1>10. RefsExact'
  BY <1>1, <1>2, <1>9 DEF RefsExact, Broadcasts
<1>11. Asleep'
  <2>1. ASSUME NEW c \in Agents, c \in blocked' PROVE agent'[c] = "wait" /\ ~broadcast_pending'[c]
    BY <1>1, <1>2, <1>3, <1>4, <1>5, <2>1 DEF Asleep
  <2>2. ASSUME Tester \in blocked' PROVE \E c \in Agents : agent'[c] = "wait"
    <3>1. PICK c \in Agents : c \in blocked
      BY <1>5, <2>2
    <3>2. c # a /\ agent[c] = "wait"
      BY <1>1, <1>2, <3>1 DEF Asleep
    <3> QED BY <1>3, <3>2
  <2> QED BY <2>1, <2>2 DEF Asleep
<1> QED BY <1>1, <1>6, <1>7, <1>8, <1>10, <1>11 DEF AgentsInv

LEMMA CallAgentsInv ==
  ASSUME AgentsInv, NEW a \in Agents, Call(a)
  PROVE  AgentsInv'
<1>1. AgentsAssumption /\ AgentsTypeOK /\ InStep /\ JoinedLast /\ RefsExact /\ Asleep
  BY DEF AgentsInv
<1>2. /\ agent[a] = "taken" /\ agent' = [agent EXCEPT ![a] = "callback"]
      /\ received' = [received EXCEPT ![a] = Append(@, sab[a])]
      /\ UNCHANGED <<registered, asked, broadcast_pending, sab, refs, main, sent, blocked>>
  BY DEF Call
<1>3. /\ agent'[a] = "callback" /\ \A c \in Agents : c # a => agent'[c] = agent[c]
  BY <1>1, <1>2, Parts
<1>4. /\ Len(received[a]) \in Nat /\ received[a] \in Seq(Broadcasts)
      /\ sent \in Nat /\ sent <= Rounds /\ Rounds \in Nat
  BY <1>1, Parts
<1>5. Len(received[a]) + 1 <= sent /\ sab[a] \in Broadcasts
  <2>1. TakenBy(a) = Len(received[a]) + 1
    BY <1>2 DEF TakenBy
  <2>2. TakenBy(a) <= sent /\ sab[a] = sent
    BY <1>1, <1>4 DEF InStep
  <2> QED BY <1>4, <2>1, <2>2 DEF Broadcasts
<1>6. /\ received' \in [Agents -> Seq(Broadcasts)]
      /\ Len(received'[a]) = Len(received[a]) + 1
      /\ \A c \in Agents : c # a => received'[c] = received[c]
  <2>1. /\ Append(received[a], sab[a]) \in Seq(Broadcasts)
        /\ Len(Append(received[a], sab[a])) = Len(received[a]) + 1
    BY <1>4, <1>5
  <2>2. received \in [Agents -> Seq(Broadcasts)]
    BY <1>1 DEF AgentsTypeOK
  <2> QED BY <1>2, <2>1, <2>2
<1>7. AgentsTypeOK'
  <2>1. ASSUME NEW c \in Agents PROVE Len(received'[c]) <= Rounds
    <3>1. CASE c = a
      BY <1>4, <1>5, <1>6, <3>1
    <3>2. CASE c # a
      BY <1>1, <1>6, <3>2 DEF AgentsTypeOK
    <3> QED BY <3>1, <3>2
  <2> QED BY <1>1, <1>2, <1>6, <2>1 DEF AgentsTypeOK
<1>8. InStep'
  <2>1. ASSUME NEW c \in Agents PROVE TakenBy(c)' = TakenBy(c)
    <3>1. CASE c = a
      <4>1. TakenBy(a)' = Len(received'[a])
        BY <1>3, <1>4, <1>6 DEF TakenBy
      <4>2. TakenBy(a) = Len(received[a]) + 1
        BY <1>2 DEF TakenBy
      <4> QED BY <1>6, <3>1, <4>1, <4>2
    <3>2. CASE c # a
      BY <1>3, <1>6, <3>2 DEF TakenBy
    <3> QED BY <3>1, <3>2
  <2>2. ASSUME NEW c \in Agents, agent'[c] = "callback" PROVE Len(received'[c]) > 0
    BY <1>1, <1>3, <1>4, <1>6, <2>2 DEF InStep
  <2> QED BY <1>1, <1>2, <2>1, <2>2 DEF InStep
<1>9. JoinedLast'
  BY <1>1, <1>2, <1>3 DEF JoinedLast
<1>10. Unjoined' = Unjoined
  BY <1>2, <1>3 DEF Unjoined
<1>11. RefsExact'
  BY <1>1, <1>2, <1>10 DEF RefsExact, Broadcasts
<1>12. Asleep'
  BY <1>1, <1>2, <1>3 DEF Asleep, Pending
<1> QED BY <1>1, <1>7, <1>8, <1>9, <1>11, <1>12 DEF AgentsInv

LEMMA ReturnAgentsInv ==
  ASSUME AgentsInv, NEW a \in Agents, EndCallback(a)
  PROVE  AgentsInv'
<1>1. AgentsAssumption /\ AgentsTypeOK /\ Asleep
  BY DEF AgentsInv
<1>2. /\ agent[a] = "callback" /\ agent' = [agent EXCEPT ![a] = "jobs"]
      /\ registered' = [registered EXCEPT ![a] = FALSE]
      /\ UNCHANGED <<asked, broadcast_pending, sab, refs, main, sent, blocked, received>>
  BY DEF EndCallback
<1>3. InStep' /\ JoinedLast' /\ RefsExact'
  BY <1>2, MovesOn
<1>4. AgentsTypeOK'
  <2>1. registered \in [Agents -> BOOLEAN]
    BY <1>1 DEF AgentsTypeOK
  <2>2. registered' \in [Agents -> BOOLEAN]
    BY <1>2, <2>1
  <2> QED BY <1>1, <1>2, <2>2 DEF AgentsTypeOK
<1>5. Asleep'
  <2>1. /\ agent'[a] = "jobs" /\ \A c \in Agents : c # a => agent'[c] = agent[c]
    BY <1>1, <1>2, Parts
  <2> QED BY <1>1, <1>2, <2>1 DEF Asleep, Pending
<1> QED BY <1>1, <1>3, <1>4, <1>5 DEF AgentsInv

LEMMA StartAgentsInv ==
  ASSUME AgentsInv, NEW a \in Agents, Start(a)
  PROVE  AgentsInv'
<1>1. AgentsAssumption /\ AgentsTypeOK /\ Asleep
  BY DEF AgentsInv
<1>2. /\ agent[a] = "new" /\ agent' = [agent EXCEPT ![a] = "script"]
      /\ UNCHANGED <<registered, asked, broadcast_pending, sab, refs, main, sent, blocked,
                     received>>
  BY DEF Start
<1>3. InStep' /\ JoinedLast' /\ RefsExact'
  BY <1>2, MovesOn
<1>4. AgentsTypeOK'
  BY <1>1, <1>2 DEF AgentsTypeOK
<1>5. Asleep'
  <2>1. /\ agent'[a] = "script" /\ \A c \in Agents : c # a => agent'[c] = agent[c]
    BY <1>1, <1>2, Parts
  <2> QED BY <1>1, <1>2, <2>1 DEF Asleep, Pending
<1> QED BY <1>1, <1>3, <1>4, <1>5 DEF AgentsInv

-----------------------------------------------------------------------------
\* The number of references is the number of agents that have not been joined.
LEMMA UnjoinedFacts ==
  ASSUME AgentsAssumption
  PROVE  /\ Cardinality(Agents) \in Nat
         /\ IsFiniteSet(Unjoined) /\ Cardinality(Unjoined) \in Nat
         /\ Cardinality(Unjoined) <= Cardinality(Agents)
<1>1. Unjoined \subseteq Agents /\ IsFiniteSet(Agents)
  BY DEF AgentsAssumption, Unjoined
<1>2. IsFiniteSet(Unjoined) /\ Cardinality(Unjoined) <= Cardinality(Agents)
  BY <1>1, FS_Subset
<1> QED BY <1>1, <1>2, FS_CardinalityType

LEMMA BroadcastAgentsInv == AgentsInv /\ Broadcast => AgentsInv'
<1> SUFFICES ASSUME AgentsInv, Broadcast PROVE AgentsInv'
  OBVIOUS
<1>1. AgentsAssumption /\ AgentsTypeOK /\ InStep /\ JoinedLast /\ RefsExact /\ Asleep
  BY DEF AgentsInv
<1>2. /\ main = "run" /\ sent < Rounds /\ sent' = sent + 1
      /\ broadcast_pending' = [c \in Agents |-> TRUE]
      /\ sab' = [c \in Agents |-> sent + 1]
      /\ refs' = [refs EXCEPT ![sent + 1] = Cardinality(Agents)]
      /\ blocked' = {Tester} /\ main' = "broadcast"
      /\ UNCHANGED <<agent, registered, asked, received>>
  BY DEF Broadcast, Referenced
<1>3. sent \in Nat /\ sent <= Rounds /\ Rounds \in Nat /\ Tester \notin Agents /\ Agents # {}
  BY <1>1 DEF AgentsAssumption, AgentsTypeOK
<1>4. Cardinality(Agents) \in Nat
  BY <1>1, UnjoinedFacts
<1>5. /\ refs \in [Broadcasts -> 0..Cardinality(Agents)]
      /\ refs' \in [Broadcasts -> 0..Cardinality(Agents)]
      /\ refs'[sent + 1] = Cardinality(Agents)
      /\ \A b \in Broadcasts : b # sent + 1 => refs'[b] = refs[b]
  <2>1. refs \in [Broadcasts -> 0..Cardinality(Agents)] /\ sent + 1 \in Broadcasts
    BY <1>1, <1>2, <1>3 DEF AgentsTypeOK, Broadcasts
  <2> QED BY <1>2, <1>4, <2>1
<1>6. AgentsTypeOK'
  BY <1>1, <1>2, <1>3, <1>5 DEF AgentsTypeOK
<1>7. InStep'
  <2>1. ASSUME NEW c \in Agents PROVE TakenBy(c)' = sent
    <3>1. TakenBy(c)' = TakenBy(c)
      BY <1>2 DEF TakenBy
    <3> QED BY <1>1, <1>2, <1>3, <3>1 DEF InStep
  <2> QED BY <1>1, <1>2, <1>3, <2>1 DEF InStep
<1>8. Unjoined = Agents /\ Unjoined' = Agents
  BY <1>1, <1>2 DEF JoinedLast, Unjoined
<1>9. JoinedLast'
  BY <1>1, <1>2 DEF JoinedLast
<1>10. RefsExact'
  <2> SUFFICES ASSUME NEW b \in Broadcasts
               PROVE  refs'[b] = IF b < sent + 1 THEN Cardinality(Agents)
                                 ELSE IF b = sent + 1 THEN Cardinality(Agents) ELSE 0
    BY <1>2, <1>8 DEF RefsExact
  <2>1. b \in Nat
    BY DEF Broadcasts
  <2>2. refs[b] = IF b < sent THEN Cardinality(Agents)
                  ELSE IF b = sent THEN Cardinality(Agents) ELSE 0
    BY <1>1, <1>8 DEF RefsExact
  <2> QED BY <1>3, <1>5, <2>1, <2>2
<1>11. Asleep'
  <2>1. Pending'
    BY <1>2, <1>3 DEF Pending
  <2> QED BY <1>2, <1>3, <2>1 DEF Asleep
<1> QED BY <1>1, <1>6, <1>7, <1>9, <1>10, <1>11 DEF AgentsInv

LEMMA MainWakesAgentsInv == AgentsInv /\ MainWakes => AgentsInv'
<1> SUFFICES ASSUME AgentsInv, MainWakes PROVE AgentsInv'
  OBVIOUS
<1>1. AgentsAssumption /\ AgentsTypeOK /\ InStep /\ JoinedLast /\ RefsExact /\ Asleep
  BY DEF AgentsInv
<1>2. /\ main = "broadcast" /\ Tester \notin blocked
      /\ \/ Pending /\ blocked' = blocked \cup {Tester} /\ main' = "broadcast"
         \/ ~Pending /\ main' = "run" /\ blocked' = blocked
      /\ UNCHANGED <<agent, registered, asked, broadcast_pending, sab, refs, sent, received>>
  BY DEF MainWakes
<1>3. Tester \notin Agents
  BY <1>1 DEF AgentsAssumption
<1>4. AgentsTypeOK'
  BY <1>1, <1>2 DEF AgentsTypeOK
<1>5. InStep'
  <2>1. \A c \in Agents : TakenBy(c)' = TakenBy(c)
    BY <1>2 DEF TakenBy
  <2> QED BY <1>1, <1>2, <2>1 DEF InStep, Pending
<1>6. JoinedLast'
  BY <1>1, <1>2 DEF JoinedLast
<1>7. RefsExact'
  BY <1>1, <1>2 DEF RefsExact, Unjoined
<1>8. Asleep'
  BY <1>1, <1>2, <1>3 DEF Asleep, Pending
<1> QED BY <1>1, <1>4, <1>5, <1>6, <1>7, <1>8 DEF AgentsInv

\* The test is over, or the runtime is freed.
LEMMA LeavesAgentsInv == AgentsInv /\ (Leave \/ FreeRuntime) => AgentsInv'
<1> SUFFICES ASSUME AgentsInv, Leave \/ FreeRuntime PROVE AgentsInv'
  OBVIOUS
<1>1. AgentsAssumption /\ AgentsTypeOK /\ InStep /\ JoinedLast /\ RefsExact /\ Asleep
  BY DEF AgentsInv
<1>2. /\ main \in {"run", "join"} /\ main' \in {"join", "ended"} /\ sent = Rounds
      /\ UNCHANGED <<agent, registered, asked, broadcast_pending, sab, refs, sent, blocked,
                     received>>
  BY <1>1 DEF Leave, FreeRuntime, JoinedLast
<1>3. AgentsTypeOK'
  BY <1>1, <1>2 DEF AgentsTypeOK
<1>4. InStep'
  BY <1>1, <1>2 DEF InStep, TakenBy
<1>5. JoinedLast' /\ RefsExact' /\ Asleep'
  BY <1>1, <1>2 DEF JoinedLast, RefsExact, Unjoined, Asleep, Pending
<1> QED BY <1>1, <1>3, <1>4, <1>5 DEF AgentsInv

LEMMA JoinAgentsInv ==
  ASSUME AgentsInv, NEW a \in Agents, Join(a)
  PROVE  AgentsInv'
<1>1. AgentsAssumption /\ AgentsTypeOK /\ InStep /\ JoinedLast /\ RefsExact /\ Asleep
  BY DEF AgentsInv
<1>2. /\ main = "join" /\ agent[a] = "exited"
      /\ agent' = [agent EXCEPT ![a] = "joined"]
      /\ refs' = [refs EXCEPT ![sab[a]] = @ - 1]
      /\ UNCHANGED <<registered, asked, broadcast_pending, sab, main, sent, blocked, received>>
  BY DEF Join
<1>3. /\ agent'[a] = "joined" /\ \A c \in Agents : c # a => agent'[c] = agent[c]
  BY <1>1, <1>2, Parts
<1>4. /\ sent = Rounds /\ sab[a] = sent /\ Rounds \in Nat \ {0} /\ sent \in Broadcasts
  <2>1. Rounds \in Nat \ {0}
    BY <1>1 DEF AgentsAssumption
  <2>2. sent = Rounds /\ sab[a] = sent
    BY <1>1, <1>2 DEF JoinedLast, InStep
  <2> QED BY <2>1, <2>2 DEF Broadcasts
<1>5. Unjoined' = Unjoined \ {a} /\ a \in Unjoined
  BY <1>2, <1>3 DEF Unjoined
<1>6. Cardinality(Unjoined') = Cardinality(Unjoined) - 1
  BY <1>1, <1>5, UnjoinedFacts, FS_RemoveElement
<1>7. Cardinality(Unjoined) \in 1..Cardinality(Agents) /\ Cardinality(Agents) \in Nat
  <2>1. Cardinality(Unjoined) # 0
    BY <1>1, <1>5, UnjoinedFacts, FS_EmptySet
  <2> QED BY <1>1, <2>1, UnjoinedFacts
<1>8. refs[sent] = Cardinality(Unjoined)
  BY <1>1, <1>4 DEF RefsExact
<1>9. /\ refs \in [Broadcasts -> 0..Cardinality(Agents)]
      /\ refs' \in [Broadcasts -> 0..Cardinality(Agents)]
      /\ refs'[sent] = Cardinality(Unjoined')
      /\ \A b \in Broadcasts : b # sent => refs'[b] = refs[b]
  <2>1. refs \in [Broadcasts -> 0..Cardinality(Agents)]
    BY <1>1 DEF AgentsTypeOK
  <2>2. refs[sent] - 1 \in 0..Cardinality(Agents)
    BY <1>7, <1>8
  <2> QED BY <1>2, <1>4, <1>6, <1>8, <2>1, <2>2
<1>10. AgentsTypeOK'
  BY <1>1, <1>2, <1>9 DEF AgentsTypeOK
<1>11. InStep'
  <2>1. \A c \in Agents : TakenBy(c)' = TakenBy(c)
    BY <1>2, <1>3 DEF TakenBy
  <2> QED BY <1>1, <1>2, <1>3, <2>1 DEF InStep
<1>12. JoinedLast'
  BY <1>1, <1>2, <1>3 DEF JoinedLast
<1>13. RefsExact'
  BY <1>1, <1>2, <1>9 DEF RefsExact, Broadcasts
<1>14. Asleep'
  BY <1>1, <1>2, <1>3 DEF Asleep, Pending
<1> QED BY <1>1, <1>10, <1>11, <1>12, <1>13, <1>14 DEF AgentsInv

LEMMA WakesBySelfAgentsInv == AgentsInv /\ WakesBySelf => AgentsInv'
<1> SUFFICES ASSUME AgentsInv, WakesBySelf PROVE AgentsInv'
  OBVIOUS
<1>1. AgentsAssumption /\ AgentsTypeOK /\ InStep /\ JoinedLast /\ RefsExact /\ Asleep
  BY DEF AgentsInv
<1>2. /\ blocked' \subseteq blocked
      /\ UNCHANGED <<agent, registered, asked, broadcast_pending, sab, refs, main, sent, received>>
  BY DEF WakesBySelf
<1>3. AgentsTypeOK'
  BY <1>1, <1>2 DEF AgentsTypeOK
<1>4. InStep'
  BY <1>1, <1>2 DEF InStep, TakenBy
<1>5. JoinedLast' /\ RefsExact' /\ Asleep'
  BY <1>1, <1>2 DEF JoinedLast, RefsExact, Unjoined, Asleep, Pending
<1> QED BY <1>1, <1>3, <1>4, <1>5 DEF AgentsInv

LEMMA NextAgentsInv == AgentsInv /\ [AgentsNext]_agentvars => AgentsInv'
<1> SUFFICES ASSUME AgentsInv, [AgentsNext]_agentvars PROVE AgentsInv'
  OBVIOUS
<1>1. CASE UNCHANGED agentvars
  <2>1. UNCHANGED <<agent, registered, asked, broadcast_pending, sab, refs, main, sent, blocked,
                    received>>
    BY <1>1 DEF agentvars
  <2>2. AgentsTypeOK' /\ InStep'
    BY <2>1 DEF AgentsInv, AgentsTypeOK, InStep, TakenBy
  <2>3. JoinedLast' /\ RefsExact' /\ Asleep'
    BY <2>1 DEF AgentsInv, JoinedLast, RefsExact, Unjoined, Asleep, Pending
  <2> QED BY <2>2, <2>3 DEF AgentsInv
<1>2. CASE Thread
  BY <1>2, BroadcastAgentsInv, MainWakesAgentsInv, LeavesAgentsInv, StartAgentsInv,
     JoinAgentsInv DEF Thread
<1>3. CASE WakesBySelf
  BY <1>3, WakesBySelfAgentsInv
<1>4. CASE \E a \in Agents : Agent(a)
  BY <1>4, RegisterAgentsInv, ExitAgentsInv, WaitAgentsInv, TakeAgentsInv, CallAgentsInv,
     ReturnAgentsInv DEF Agent
<1> QED BY <1>1, <1>2, <1>3, <1>4 DEF AgentsNext, Ended

-----------------------------------------------------------------------------
LEMMA AgentsInvTaken == AgentsInv => BroadcastTaken
<1> SUFFICES ASSUME AgentsInv PROVE BroadcastTaken
  OBVIOUS
<1>1. AgentsAssumption /\ AgentsTypeOK /\ InStep /\ JoinedLast /\ RefsExact /\ Asleep
  BY DEF AgentsInv
<1>2. ASSUME NEW a \in Agents
      PROVE  /\ TakenBy(a) = sent - (IF broadcast_pending[a] THEN 1 ELSE 0)
             /\ main # "broadcast" => TakenBy(a) = sent
             /\ a \in blocked => ~broadcast_pending[a]
  BY <1>1 DEF InStep, Asleep, AgentsTypeOK
<1>3. ASSUME NEW a \in Agents, agent[a] \in {"taken", "callback"} PROVE refs[sab[a]] > 0
  <2>1. a \in Unjoined
    BY <1>3 DEF Unjoined
  <2>2. Cardinality(Unjoined) # 0 /\ Cardinality(Unjoined) \in Nat
    BY <1>1, <2>1, UnjoinedFacts, FS_EmptySet
  <2>3. sab[a] = sent /\ sent \in 0..Rounds
    BY <1>1 DEF InStep, AgentsTypeOK
  <2>4. sent # 0
    <3>1. Len(received[a]) \in Nat
      BY <1>1, Parts
    <3>2. TakenBy(a) > 0
      <4>1. agent[a] = "callback" => Len(received[a]) > 0
        BY <1>1 DEF InStep
      <4>2. CASE agent[a] = "taken"
        BY <3>1, <4>2 DEF TakenBy
      <4>3. CASE agent[a] = "callback"
        <5>1. agent[a] # "taken"
          BY <4>3
        <5> QED BY <3>1, <4>1, <4>3, <5>1 DEF TakenBy
      <4> QED BY <1>3, <4>2, <4>3
    <3> QED BY <1>1, <2>3, <3>2 DEF InStep
  <2>5. sent \in Broadcasts
    BY <1>1, <2>3, <2>4 DEF AgentsAssumption, Broadcasts
  <2> QED BY <1>1, <2>2, <2>3, <2>5 DEF RefsExact
<1> QED BY <1>1, <1>2, <1>3 DEF BroadcastTaken, Asleep

LEMMA AgentsInvariant == ASSUME AgentsAssumption PROVE AgentsSpec => []AgentsInv
<1>1. AgentsInit => AgentsInv
  BY InitAgentsInv
<1> QED BY <1>1, NextAgentsInv, PTL DEF AgentsSpec

\* The agents and js_agent_broadcast keep their state of its kinds: no counter of
\* references falls below zero, and no agent gets more broadcasts than there are.
THEOREM TestAgentsTypes == ASSUME AgentsAssumption PROVE AgentsSpec => []AgentsTypeOK
<1>1. AgentsInv => AgentsTypeOK
  BY DEF AgentsInv
<1> QED BY <1>1, AgentsInvariant, PTL

\* BroadcastTaken: every agent takes every broadcast once, the last before
\* broadcast returns, and has a reference to the buffer in its callback; no
\* agent sleeps beside a broadcast for it.  The main thread sleeps only for a
\* broadcast that an agent has not taken, or beside an agent in the wait of
\* run-test262.c 516.  In the second case the signal of 520 may have gone to
\* that agent, and broadcast never returns (642): the theorem allows this
\* deadlock, and BroadcastReturns, which denies it, does not hold.  For any
\* agents and any number of broadcasts, with or without spurious wakeups.
THEOREM TestAgentsBroadcastTaken == ASSUME AgentsAssumption PROVE AgentsSpec => []BroadcastTaken
  BY AgentsInvariant, AgentsInvTaken, PTL

===============================================================================
