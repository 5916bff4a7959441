--------------------------- MODULE EventLoopProofs ---------------------------
(***************************************************************************)
(* EventLoop for every set of timers, descriptors, signals and promises:   *)
(* the lists keep one entry of each timer, descriptor and signal, and the  *)
(* callbacks of events run only when scripts are done and no rejection is  *)
(* left without a handler.                                                 *)
(***************************************************************************)
EXTENDS EventLoop, SequenceTheorems, WellFoundedInduction, TLAPS

\* The parts of the type invariant: the three lists, and the rest.
TimersOK ==
    /\ timers \in Seq([id : TimerIds, left : 0..MaxDelay])
    /\ \A i, j \in DOMAIN timers : timers[i].id = timers[j].id => i = j

HandlersOK ==
    /\ handlers \in Seq([fd : Fds, funcs : (SUBSET Directions) \ {{}}])
    /\ \A i, j \in DOMAIN handlers : handlers[i].fd = handlers[j].fd => i = j

SigsOK ==
    /\ sigs \in Seq(Signals)
    /\ \A i, j \in DOMAIN sigs : sigs[i] = sigs[j] => i = j

RestOK ==
    /\ at \in Points
    /\ waiting \in BOOLEAN /\ settled \in BOOLEAN
    /\ jobs \in 0..MaxJobs
    /\ rejected \subseteq Promises
    /\ pending \subseteq Signals
    /\ ready \subseteq Fds \X Directions
    /\ calling \in Events
    /\ owed \subseteq Signals
    /\ cut \in BOOLEAN
    /\ fuel \in 0..Fuel

\* Once the thread has left the loop over the jobs there are none, unless one
\* threw, and it sleeps only when no rejection was left.
Calm ==
    /\ at \in {"check", "poll", "clear", "select"} => jobs = 0 \/ cut
    /\ at \in {"poll", "clear", "select"} => rejected = {}

\* A signal is pending only if it came and was not answered, also in what
\* js_os_poll has read and not yet written back.
SignalsOwed ==
    /\ pending \subseteq owed
    /\ at = "clear" => clearing[1] \subseteq owed /\ clearing[2] \in owed

LoopInv ==
    /\ LoopAssumption
    /\ TimersOK /\ HandlersOK /\ SigsOK /\ RestOK
    /\ Calm
    /\ SignalsOwed

-----------------------------------------------------------------------------
(***************************************************************************)
(* Lists                                                                   *)
(***************************************************************************)

\* A set of places on a list has a first one.
LEMMA MinFacts ==
    ASSUME NEW I \in SUBSET Nat, I # {}
    PROVE  Min(I) \in I /\ \A i \in I : Min(I) <= i
<1>1. PICK x \in I : \A y \in I : ~ (<<y, x>> \in OpToRel(<, Nat))
  BY NatLessThanWellFounded, WFMin
<1>2. \A y \in I : x <= y
  <2> SUFFICES ASSUME NEW y \in I PROVE x <= y
    OBVIOUS
  <2>1. ~(y < x)
    BY <1>1 DEF OpToRel
  <2> QED BY <2>1
<1> QED BY <1>2 DEF Min

\* Where the entry at j of a list without its k-th was.
Skip(k, j) == IF j < k THEN j ELSE j + 1

LEMMA RemoveAtFacts ==
    ASSUME NEW S, NEW s \in Seq(S), NEW k \in 1..Len(s)
    PROVE  /\ RemoveAt(s, k) \in Seq(S)
           /\ \A j \in DOMAIN RemoveAt(s, k) :
                 Skip(k, j) \in DOMAIN s /\ RemoveAt(s, k)[j] = s[Skip(k, j)]
<1>1. PICK a \in Nat, b \in Nat : k = a + 1 /\ Len(s) = k + b
  <2>1. k \in Nat /\ Len(s) \in Nat /\ 1 <= k /\ k <= Len(s)
    OBVIOUS
  <2>2. k - 1 \in Nat /\ Len(s) - k \in Nat /\ k = (k - 1) + 1 /\ Len(s) = k + (Len(s) - k)
    BY <2>1
  <2> QED BY <2>2
<1> DEFINE front == SubSeq(s, 1, a)
           back == SubSeq(s, k + 1, k + b)
<1>2. RemoveAt(s, k) = front \o back
  <2>1. k - 1 = a
    BY <1>1
  <2> QED BY <1>1, <2>1 DEF RemoveAt
<1>3. front \in Seq(S) /\ Len(front) = a /\ \A i \in 1..a : front[i] = s[i]
  <2>1. \A i \in 1..a : s[i] \in S
    BY <1>1
  <2>2. /\ front \in Seq(S)
        /\ Len(front) = IF 1 <= a THEN a - 1 + 1 ELSE 0
        /\ \A i \in 1..a-1+1 : front[i] = s[1 + i - 1]
    BY <2>1, SubSeqProperties
  <2> QED BY <1>1, <2>2
<1>4. back \in Seq(S) /\ Len(back) = b /\ \A i \in 1..b : back[i] = s[k + i]
  <2>1. \A i \in k+1..k+b : s[i] \in S
    BY <1>1
  <2>2. /\ back \in Seq(S)
        /\ Len(back) = IF k + 1 <= k + b THEN k + b - (k + 1) + 1 ELSE 0
        /\ \A i \in 1..k+b-(k+1)+1 : back[i] = s[k + 1 + i - 1]
    BY <2>1, SubSeqProperties
  <2>3. k + b - (k + 1) + 1 = b /\ (k + 1 <= k + b <=> b # 0)
    BY <1>1
  <2>4. \A i \in 1..b : k + 1 + i - 1 = k + i
    BY <1>1
  <2> QED BY <1>1, <2>2, <2>3, <2>4
<1> HIDE DEF front, back
<1>5. /\ front \o back \in Seq(S)
      /\ Len(front \o back) = a + b
      /\ \A i \in 1..a+b : (front \o back)[i] = IF i <= a THEN front[i] ELSE back[i - a]
  BY <1>3, <1>4, ConcatProperties
<1>6. ASSUME NEW j \in 1..a+b
      PROVE  Skip(k, j) \in DOMAIN s /\ (front \o back)[j] = s[Skip(k, j)]
  <2>1. CASE j <= a
    <3>1. Skip(k, j) = j /\ j \in 1..a /\ j \in 1..Len(s)
      BY <1>1, <2>1 DEF Skip
    <3> QED BY <1>3, <1>5, <2>1, <3>1
  <2>2. CASE ~(j <= a)
    <3>1. Skip(k, j) = j + 1 /\ j - a \in 1..b /\ k + (j - a) = j + 1 /\ j + 1 \in 1..Len(s)
      BY <1>1, <2>2 DEF Skip
    <3>2. (front \o back)[j] = back[j - a]
      BY <1>5, <2>2
    <3>3. back[j - a] = s[j + 1]
      BY <1>4, <3>1
    <3> QED BY <3>1, <3>2, <3>3
  <2> QED BY <2>1, <2>2
<1>7. DOMAIN (front \o back) = 1..a+b
  BY <1>5
<1> QED BY <1>2, <1>5, <1>6, <1>7

\* Where the entry at j of Without(s, I) was.
Place(I, j) == IF I = {} THEN j ELSE Skip(Min(I), j)

\* A list without an entry: the others are on it, at other places each.
LEMMA WithoutFacts ==
    ASSUME NEW S, NEW s \in Seq(S), NEW I \in SUBSET DOMAIN s
    PROVE  /\ Without(s, I) \in Seq(S)
           /\ \A j \in DOMAIN Without(s, I) :
                 /\ Place(I, j) \in DOMAIN s
                 /\ Without(s, I)[j] = s[Place(I, j)]
                 /\ I # {} => Place(I, j) # Min(I)
           /\ \A i, j \in DOMAIN Without(s, I) : Place(I, i) = Place(I, j) => i = j
<1>1. CASE I = {}
  BY <1>1 DEF Without, Place
<1>2. CASE I # {}
  <2>1. Min(I) \in 1..Len(s)
    BY <1>2, MinFacts
  <2>2. Without(s, I) = RemoveAt(s, Min(I)) /\ \A j : Place(I, j) = Skip(Min(I), j)
    BY <1>2 DEF Without, Place
  <2>3. /\ Without(s, I) \in Seq(S)
        /\ \A j \in DOMAIN Without(s, I) :
              Skip(Min(I), j) \in DOMAIN s /\ Without(s, I)[j] = s[Skip(Min(I), j)]
    BY <2>1, <2>2, RemoveAtFacts
  <2>4. \A i, j \in Nat :
           Skip(Min(I), j) # Min(I) /\ (Skip(Min(I), i) = Skip(Min(I), j) => i = j)
    BY <2>1 DEF Skip
  <2>5. DOMAIN Without(s, I) \subseteq Nat
    BY <2>3
  <2> QED BY <2>2, <2>3, <2>4, <2>5
<1> QED BY <1>1, <1>2

-----------------------------------------------------------------------------
(***************************************************************************)
(* What an action does to the lists                                        *)
(***************************************************************************)

LEMMA TimersKept == ASSUME TimersOK, UNCHANGED timers PROVE TimersOK'
  BY DEF TimersOK

LEMMA HandlersKept == ASSUME HandlersOK, UNCHANGED handlers PROVE HandlersOK'
  BY DEF HandlersOK

LEMMA SigsKept == ASSUME SigsOK, UNCHANGED sigs PROVE SigsOK'
  BY DEF SigsOK

LEMMA TimerAdded ==
    ASSUME TimersOK, NEW id \in TimerIds, NEW delay \in 0..MaxDelay, ~HasTimer(id),
           timers' = Append(timers, [id |-> id, left |-> delay])
    PROVE  TimersOK'
<1> DEFINE T == [id : TimerIds, left : 0..MaxDelay]
           th == [id |-> id, left |-> delay]
<1>1. timers \in Seq(T) /\ th \in T /\ th.id = id
  BY DEF TimersOK
<1>2. /\ timers' \in Seq(T)
      /\ Len(timers') = Len(timers) + 1
      /\ \A i \in 1..Len(timers) : timers'[i] = timers[i]
      /\ timers'[Len(timers) + 1] = th
  BY <1>1, AppendProperties
<1>3. \A i \in 1..Len(timers) : timers[i].id # id
  BY <1>1 DEF HasTimer, TimersOf
<1>4. DOMAIN timers' = 1..Len(timers)+1 /\ DOMAIN timers = 1..Len(timers) /\ Len(timers) \in Nat
  BY <1>1, <1>2
<1>5. \A i \in DOMAIN timers' : i \in DOMAIN timers \/ i = Len(timers) + 1
  BY <1>4
<1>6. ASSUME NEW i \in DOMAIN timers', NEW j \in DOMAIN timers', timers'[i].id = timers'[j].id
      PROVE  i = j
  <2>1. CASE i \in DOMAIN timers /\ j \in DOMAIN timers
    BY <1>2, <1>4, <1>6, <2>1 DEF TimersOK
  <2>2. CASE ~(i \in DOMAIN timers /\ j \in DOMAIN timers)
    BY <1>1, <1>2, <1>3, <1>4, <1>5, <1>6, <2>2
  <2> QED BY <2>1, <2>2
<1> QED BY <1>2, <1>6 DEF TimersOK

LEMMA TimerRemoved ==
    ASSUME TimersOK, NEW I \in SUBSET DOMAIN timers, timers' = Without(timers, I)
    PROVE  TimersOK'
<1> DEFINE T == [id : TimerIds, left : 0..MaxDelay]
<1>1. timers \in Seq(T)
  BY DEF TimersOK
<1>2. /\ timers' \in Seq(T)
      /\ \A j \in DOMAIN timers' : Place(I, j) \in DOMAIN timers /\ timers'[j] = timers[Place(I, j)]
      /\ \A i, j \in DOMAIN timers' : Place(I, i) = Place(I, j) => i = j
  BY <1>1, WithoutFacts
<1> QED BY <1>2 DEF TimersOK

\* A millisecond passes for every timer.
LEMMA TimersCounted ==
    ASSUME TimersOK, MaxDelay \in Nat,
           timers' = [i \in DOMAIN timers |->
                        [timers[i] EXCEPT !.left = IF @ > 0 THEN @ - 1 ELSE 0]]
    PROVE  TimersOK'
<1> DEFINE T == [id : TimerIds, left : 0..MaxDelay]
<1>1. timers \in Seq(T) /\ DOMAIN timers = 1..Len(timers) /\ Len(timers) \in Nat
  BY DEF TimersOK
<1>2. ASSUME NEW i \in DOMAIN timers
      PROVE  timers'[i] \in T /\ timers'[i].id = timers[i].id
  <2>0. timers[i] \in T
    <3> HIDE DEF T
    <3> QED BY <1>1, ElementOfSeq
  <2>1. timers[i] \in T /\ timers[i].left \in 0..MaxDelay
    BY <2>0
  <2>2. timers'[i] = [timers[i] EXCEPT !.left = IF @ > 0 THEN @ - 1 ELSE 0]
    OBVIOUS
  <2>3. (IF timers[i].left > 0 THEN timers[i].left - 1 ELSE 0) \in 0..MaxDelay
    BY <2>1
  <2> QED BY <2>1, <2>2, <2>3
<1>3. timers' \in Seq(T) /\ DOMAIN timers' = DOMAIN timers
  BY <1>1, <1>2
<1> QED BY <1>2, <1>3 DEF TimersOK

LEMMA SignalAdded ==
    ASSUME SigsOK, NEW s \in Signals, HandlersOfSignal(s) = {}, sigs' = Append(sigs, s)
    PROVE  SigsOK'
<1>1. sigs \in Seq(Signals) /\ DOMAIN sigs = 1..Len(sigs) /\ Len(sigs) \in Nat
  BY DEF SigsOK
<1>2. /\ sigs' \in Seq(Signals)
      /\ Len(sigs') = Len(sigs) + 1
      /\ \A i \in 1..Len(sigs) : sigs'[i] = sigs[i]
      /\ sigs'[Len(sigs) + 1] = s
  BY <1>1, AppendProperties
<1>3. \A i \in 1..Len(sigs) : sigs[i] # s
  BY <1>1 DEF HandlersOfSignal
<1>4. DOMAIN sigs' = 1..Len(sigs)+1
  BY <1>2
<1>5. \A i \in DOMAIN sigs' : i \in DOMAIN sigs \/ i = Len(sigs) + 1
  BY <1>1, <1>4
<1>6. ASSUME NEW i \in DOMAIN sigs', NEW j \in DOMAIN sigs', sigs'[i] = sigs'[j]
      PROVE  i = j
  <2>1. CASE i \in DOMAIN sigs /\ j \in DOMAIN sigs
    BY <1>1, <1>2, <1>6, <2>1 DEF SigsOK
  <2>2. CASE ~(i \in DOMAIN sigs /\ j \in DOMAIN sigs)
    BY <1>1, <1>2, <1>3, <1>5, <1>6, <2>2
  <2> QED BY <2>1, <2>2
<1> QED BY <1>2, <1>6 DEF SigsOK

LEMMA SignalRemoved ==
    ASSUME SigsOK, NEW I \in SUBSET DOMAIN sigs, sigs' = Without(sigs, I)
    PROVE  SigsOK'
<1>1. sigs \in Seq(Signals)
  BY DEF SigsOK
<1>2. /\ sigs' \in Seq(Signals)
      /\ \A j \in DOMAIN sigs' : Place(I, j) \in DOMAIN sigs /\ sigs'[j] = sigs[Place(I, j)]
      /\ \A i, j \in DOMAIN sigs' : Place(I, i) = Place(I, j) => i = j
  BY <1>1, WithoutFacts
<1> QED BY <1>2 DEF SigsOK

\* A function is set: in the entry of the descriptor, or in a new one.
LEMMA HandlerAdded ==
    ASSUME HandlersOK, NEW fd \in Fds, NEW dir \in Directions, SetHandler(fd, dir)
    PROVE  HandlersOK'
<1> DEFINE H == [fd : Fds, funcs : (SUBSET Directions) \ {{}}]
           rh == [fd |-> fd, funcs |-> {dir}]
<1>1. handlers \in Seq(H) /\ DOMAIN handlers = 1..Len(handlers) /\ Len(handlers) \in Nat
  BY DEF HandlersOK
<1>2. CASE HandlersOf(fd) = {}
  <2>1. handlers' = Append(handlers, rh) /\ rh \in H /\ rh.fd = fd
    <3>1. handlers' = Append(handlers, rh)
      BY <1>2 DEF SetHandler
    <3>2. {dir} \in (SUBSET Directions) \ {{}}
      OBVIOUS
    <3> QED BY <3>1, <3>2
  <2>2. /\ handlers' \in Seq(H)
        /\ Len(handlers') = Len(handlers) + 1
        /\ \A i \in 1..Len(handlers) : handlers'[i] = handlers[i]
        /\ handlers'[Len(handlers) + 1] = rh
    BY <1>1, <2>1, AppendProperties
  <2>3. \A i \in 1..Len(handlers) : handlers[i].fd # fd
    BY <1>1, <1>2 DEF HandlersOf
  <2>4. \A i \in DOMAIN handlers' : i \in DOMAIN handlers \/ i = Len(handlers) + 1
    BY <1>1, <2>2
  <2>5. ASSUME NEW i \in DOMAIN handlers', NEW j \in DOMAIN handlers',
               handlers'[i].fd = handlers'[j].fd
        PROVE  i = j
    <3>1. CASE i \in DOMAIN handlers /\ j \in DOMAIN handlers
      BY <1>1, <2>2, <2>5, <3>1 DEF HandlersOK
    <3>2. CASE ~(i \in DOMAIN handlers /\ j \in DOMAIN handlers)
      BY <1>1, <2>1, <2>2, <2>3, <2>4, <2>5, <3>2
    <3> QED BY <3>1, <3>2
  <2> QED BY <2>2, <2>5 DEF HandlersOK
<1>3. CASE HandlersOf(fd) # {}
  <2>1. handlers' = [i \in DOMAIN handlers |->
                       IF i \in HandlersOf(fd)
                       THEN [handlers[i] EXCEPT !.funcs = @ \cup {dir}] ELSE handlers[i]]
    BY <1>3 DEF SetHandler
  <2>2. ASSUME NEW i \in DOMAIN handlers
        PROVE  handlers'[i] \in H /\ handlers'[i].fd = handlers[i].fd
    <3>1. handlers[i] \in H
      <4> HIDE DEF H
      <4> QED BY <1>1, ElementOfSeq
    <3>2. [handlers[i] EXCEPT !.funcs = @ \cup {dir}] \in H
      BY <3>1
    <3>3. [handlers[i] EXCEPT !.funcs = @ \cup {dir}].fd = handlers[i].fd
      BY <3>1
    <3> QED BY <2>1, <3>1, <3>2, <3>3
  <2>3. handlers' \in Seq(H) /\ DOMAIN handlers' = DOMAIN handlers
    BY <1>1, <2>1, <2>2
  <2> QED BY <2>2, <2>3 DEF HandlersOK
<1> QED BY <1>2, <1>3

\* A function is removed, and the entry if it was the last.
LEMMA HandlerRemoved ==
    ASSUME HandlersOK, NEW fd \in Fds, NEW dir \in Directions, UnsetHandler(fd, dir)
    PROVE  HandlersOK'
<1> DEFINE H == [fd : Fds, funcs : (SUBSET Directions) \ {{}}]
           E == [fd : Fds, funcs : SUBSET Directions]
           unset == [i \in DOMAIN handlers |->
                       IF i \in HandlersOf(fd)
                       THEN [handlers[i] EXCEPT !.funcs = @ \ {dir}] ELSE handlers[i]]
           I == {i \in HandlersOf(fd) : unset[i].funcs = {}}
<1>1. handlers \in Seq(H) /\ DOMAIN handlers = 1..Len(handlers) /\ Len(handlers) \in Nat
  BY DEF HandlersOK
<1>2. handlers' = Without(unset, I)
  BY DEF UnsetHandler
<1>3. ASSUME NEW i \in DOMAIN handlers
      PROVE  /\ unset[i] \in E /\ unset[i].fd = handlers[i].fd
             /\ unset[i].funcs = {} => i \in I
  <2>1. handlers[i] \in H
    <3> HIDE DEF H
    <3> QED BY <1>1, ElementOfSeq
  <2>2. CASE i \in HandlersOf(fd)
    BY <2>1, <2>2
  <2>3. CASE i \notin HandlersOf(fd)
    <3>1. unset[i] = handlers[i] /\ handlers[i] \in E /\ handlers[i].funcs # {}
      BY <2>1, <2>3
    <3> QED BY <3>1
  <2> QED BY <2>2, <2>3
<1>4. unset \in Seq(E) /\ DOMAIN unset = DOMAIN handlers
  BY <1>1, <1>3
<1>5. I \in SUBSET DOMAIN unset /\ \A i, j \in I : i = j
  BY <1>4 DEF HandlersOf, HandlersOK
<1>6. \A i \in DOMAIN handlers : unset[i].funcs = {} => I # {} /\ i = Min(I)
  <2>1. I # {} => Min(I) \in I
    <3>1. I \in SUBSET Nat
      BY <1>1, <1>4, <1>5
    <3> HIDE DEF I
    <3> QED BY <3>1, MinFacts
  <2> QED BY <1>3, <1>5, <2>1
<1> HIDE DEF unset, I
<1>7. /\ handlers' \in Seq(E)
      /\ \A j \in DOMAIN handlers' :
            /\ Place(I, j) \in DOMAIN unset
            /\ handlers'[j] = unset[Place(I, j)]
            /\ I # {} => Place(I, j) # Min(I)
      /\ \A i, j \in DOMAIN handlers' : Place(I, i) = Place(I, j) => i = j
  BY <1>2, <1>4, <1>5, WithoutFacts
<1>8. ASSUME NEW j \in DOMAIN handlers' PROVE handlers'[j] \in H
  <2>1. handlers'[j] \in E /\ handlers'[j].funcs # {}
    BY <1>3, <1>4, <1>6, <1>7
  <2>2. handlers'[j].fd \in Fds /\ handlers'[j].funcs \in (SUBSET Directions) \ {{}}
    BY <2>1
  <2>3. handlers'[j] = [fd |-> handlers'[j].fd, funcs |-> handlers'[j].funcs]
    BY <2>1
  <2> QED BY <2>2, <2>3
<1>9. handlers' \in Seq(H)
  <2> HIDE DEF H, E
  <2> QED BY <1>7, <1>8
<1> QED BY <1>3, <1>4, <1>7, <1>9 DEF HandlersOK

-----------------------------------------------------------------------------
(***************************************************************************)
(* What scripts do                                                         *)
(***************************************************************************)

\* An operation of a script changes neither the place of the thread nor what
\* the system has reported.
LEMMA OperationKeeps ==
    ASSUME LoopInv, Operation, jobs' \in 0..MaxJobs, settled' \in BOOLEAN,
           rejected' \subseteq Promises
    PROVE  LoopAssumption /\ RestOK' /\ Calm' /\ SignalsOwed'
<1> USE DEF LoopInv, Operation, system
<1>1. fuel' \in 0..Fuel
  BY DEF LoopAssumption, RestOK
<1>2. RestOK'
  BY <1>1 DEF RestOK
<1>3. Calm'
  BY DEF Calm
<1>4. SignalsOwed'
  BY DEF SignalsOwed
<1> QED BY <1>2, <1>3, <1>4

LEMMA ScriptKeeps == LoopInv /\ Script => LoopInv'
<1> SUFFICES ASSUME LoopInv, Script PROVE LoopInv'
  OBVIOUS
<1>1. /\ TimersOK /\ HandlersOK /\ SigsOK /\ LoopAssumption
      /\ jobs \in 0..MaxJobs /\ MaxJobs \in Nat /\ settled \in BOOLEAN
      /\ rejected \subseteq Promises
  BY DEF LoopInv, RestOK, LoopAssumption
<1>2. CASE Enqueue
  <2>1. Operation /\ jobs' \in 0..MaxJobs /\ UNCHANGED <<settled, timers, handlers, sigs, rejected>>
    BY <1>1, <1>2 DEF Enqueue, registered
  <2> QED BY <1>1, <2>1, OperationKeeps, TimersKept, HandlersKept, SigsKept DEF LoopInv
<1>3. CASE Settle
  <2>1. Operation /\ settled' = TRUE /\ UNCHANGED <<jobs, timers, handlers, sigs, rejected>>
    BY <1>3 DEF Settle, registered
  <2> QED BY <1>1, <2>1, OperationKeeps, TimersKept, HandlersKept, SigsKept DEF LoopInv
<1>4. ASSUME NEW id \in TimerIds, ClearTimer(id) PROVE LoopInv'
  <2>1. /\ Operation /\ UNCHANGED <<settled, jobs, handlers, sigs, rejected>>
        /\ timers' = Without(timers, TimersOf(id)) /\ TimersOf(id) \in SUBSET DOMAIN timers
    BY <1>4 DEF ClearTimer, TimersOf
  <2> QED BY <1>1, <2>1, OperationKeeps, TimerRemoved, HandlersKept, SigsKept DEF LoopInv
<1>5. ASSUME NEW id \in TimerIds, NEW d \in 0..MaxDelay, SetTimer(id, d) PROVE LoopInv'
  <2>1. /\ Operation /\ UNCHANGED <<settled, jobs, handlers, sigs, rejected>>
        /\ timers' = Append(timers, [id |-> id, left |-> d]) /\ ~HasTimer(id)
    BY <1>5 DEF SetTimer
  <2> QED BY <1>1, <2>1, OperationKeeps, TimerAdded, HandlersKept, SigsKept DEF LoopInv
<1>6. ASSUME NEW fd \in Fds, NEW dir \in Directions, SetHandler(fd, dir) PROVE LoopInv'
  <2>1. Operation /\ UNCHANGED <<settled, jobs, timers, sigs, rejected>>
    BY <1>6 DEF SetHandler
  <2> QED BY <1>1, <1>6, <2>1, OperationKeeps, TimersKept, HandlerAdded, SigsKept DEF LoopInv
<1>7. ASSUME NEW fd \in Fds, NEW dir \in Directions, UnsetHandler(fd, dir) PROVE LoopInv'
  <2>1. Operation /\ UNCHANGED <<settled, jobs, timers, sigs, rejected>>
    BY <1>7 DEF UnsetHandler
  <2> QED BY <1>1, <1>7, <2>1, OperationKeeps, TimersKept, HandlerRemoved, SigsKept DEF LoopInv
<1>8. ASSUME NEW s \in Signals, SetSignal(s) PROVE LoopInv'
  <2>1. /\ Operation /\ UNCHANGED <<settled, jobs, timers, handlers, rejected>>
        /\ \/ HandlersOfSignal(s) = {} /\ sigs' = Append(sigs, s)
           \/ UNCHANGED sigs
    BY <1>8 DEF SetSignal
  <2> QED BY <1>1, <2>1, OperationKeeps, TimersKept, HandlersKept, SignalAdded, SigsKept DEF LoopInv
<1>9. ASSUME NEW s \in Signals, UnsetSignal(s) PROVE LoopInv'
  <2>1. /\ Operation /\ UNCHANGED <<settled, jobs, timers, handlers, rejected>>
        /\ sigs' = Without(sigs, HandlersOfSignal(s)) /\ HandlersOfSignal(s) \in SUBSET DOMAIN sigs
    BY <1>9 DEF UnsetSignal, HandlersOfSignal
  <2> QED BY <1>1, <2>1, OperationKeeps, TimersKept, HandlersKept, SignalRemoved DEF LoopInv
<1>10. ASSUME NEW p \in Promises, Reject(p) \/ HandleRejection(p) PROVE LoopInv'
  <2>1. /\ Operation /\ UNCHANGED <<settled, jobs, timers, handlers, sigs>>
        /\ rejected' \subseteq Promises
    BY <1>1, <1>10 DEF Reject, HandleRejection
  <2> QED BY <1>1, <2>1, OperationKeeps, TimersKept, HandlersKept, SigsKept DEF LoopInv
<1> QED BY <1>2, <1>3, <1>4, <1>5, <1>6, <1>7, <1>8, <1>9, <1>10 DEF Script

-----------------------------------------------------------------------------
(***************************************************************************)
(* The loop and the system                                                 *)
(***************************************************************************)

\* An action that leaves the lists and what the system reported alone.
LEMMA GoesOn ==
    ASSUME LoopInv, UNCHANGED <<timers, handlers, sigs, rejected, pending, clearing, ready>>,
           UNCHANGED <<calling, owed, fuel, settled>>,
           waiting' \in BOOLEAN, jobs' \in 0..MaxJobs, at' \in Points \ {"clear"},
           cut' \in BOOLEAN, Calm'
    PROVE  LoopInv'
<1>1. RestOK'
  BY DEF LoopInv, RestOK
<1>2. SignalsOwed'
  BY DEF LoopInv, SignalsOwed
<1>3. TimersOK' /\ HandlersOK' /\ SigsOK' /\ LoopAssumption
  BY TimersKept, HandlersKept, SigsKept DEF LoopInv
<1> QED BY <1>1, <1>2, <1>3 DEF LoopInv

\* From one point of the loop to the next.
LEMMA MovesKeep ==
    ASSUME LoopInv, Return \/ Throw \/ Awaited \/ RunJob \/ NoMoreJobs \/ Check \/ NoMoreEvents
                        \/ Select \/ SelectTimeout
    PROVE  LoopInv'
<1>1. /\ jobs \in 0..MaxJobs /\ MaxJobs \in Nat /\ waiting \in BOOLEAN /\ cut \in BOOLEAN
      /\ at \in Points /\ Calm
  BY DEF LoopInv, RestOK, LoopAssumption
<1> DEFINE Rest == /\ UNCHANGED <<timers, handlers, sigs, rejected, pending, clearing, ready>>
                   /\ UNCHANGED <<calling, owed, fuel, settled>>
<1>2. CASE Return
  BY <1>1, <1>2, GoesOn DEF Return, Calm, Points, registered, system
<1>3. CASE Throw
  BY <1>1, <1>3, GoesOn DEF Throw, Calm, Points, registered, system
<1>4. CASE Awaited
  BY <1>1, <1>4, GoesOn DEF Awaited, Calm, Points, registered, system
<1>5. CASE RunJob
  <2>1. jobs' \in 0..MaxJobs
    BY <1>1, <1>5 DEF RunJob
  <2> QED BY <1>1, <1>5, <2>1, GoesOn DEF RunJob, Calm, Points, registered, system
<1>6. CASE NoMoreJobs
  BY <1>1, <1>6, GoesOn DEF NoMoreJobs, Calm, Points, registered, system
<1>7. CASE Check
  BY <1>1, <1>7, GoesOn DEF Check, Calm, Points, registered, system
<1>8. CASE NoMoreEvents
  BY <1>1, <1>8, GoesOn DEF NoMoreEvents, Calm, Points, registered, system
<1>9. CASE Select
  BY <1>1, <1>9, GoesOn DEF Select, Calm, Points, registered, system
<1>10. CASE SelectTimeout
  BY <1>1, <1>10, GoesOn DEF SelectTimeout, Calm, Points, registered, system
<1> QED BY <1>2, <1>3, <1>4, <1>5, <1>6, <1>7, <1>8, <1>9, <1>10

\* js_os_poll has read os_pending_signals.
LEMMA ReadSignalsKeeps == LoopInv /\ ReadSignals => LoopInv'
<1> SUFFICES ASSUME LoopInv, ReadSignals PROVE LoopInv'
  OBVIOUS
<1>1. sigs \in Seq(Signals) /\ pending \subseteq owed /\ Calm
  BY DEF LoopInv, SigsOK, SignalsOwed
<1>2. Min(Due) \in Due
  <2>1. Due \in SUBSET Nat /\ Due # {}
    BY <1>1 DEF Due, ReadSignals
  <2> QED BY <2>1, MinFacts
<1>3. /\ UNCHANGED <<waiting, settled, jobs, timers, handlers, sigs, rejected, pending, ready>>
      /\ UNCHANGED <<calling, owed, cut, fuel>>
      /\ at = "poll" /\ at' = "clear" /\ clearing' = <<pending, sigs[Min(Due)]>>
  BY DEF ReadSignals, registered
<1>4. SignalsOwed'
  BY <1>1, <1>2, <1>3 DEF SignalsOwed, Due
<1>5. RestOK'
  BY <1>3 DEF LoopInv, RestOK, Points
<1>6. Calm'
  BY <1>1, <1>3 DEF Calm
<1> QED BY <1>3, <1>4, <1>5, <1>6, TimersKept, HandlersKept, SigsKept DEF LoopInv

\* It writes them back and calls the handler.
LEMMA WriteSignalsKeeps == LoopInv /\ WriteSignals => LoopInv'
<1> SUFFICES ASSUME LoopInv, WriteSignals PROVE LoopInv'
  OBVIOUS
<1>1. /\ UNCHANGED <<waiting, settled, jobs, timers, handlers, sigs, rejected, ready, cut>>
      /\ at = "clear" /\ at' = "event" /\ calling' = SignalEvent(clearing[2]) /\ fuel' = Fuel
      /\ pending' = clearing[1] \ {clearing[2]} /\ owed' = owed \ {clearing[2]}
  BY DEF WriteSignals, Call, registered
<1>2. clearing[1] \subseteq owed /\ clearing[2] \in owed /\ owed \subseteq Signals
  BY <1>1 DEF LoopInv, SignalsOwed, RestOK
<1>3. calling' \in Events
  BY <1>1, <1>2 DEF Events
<1>4. fuel' \in 0..Fuel
  BY <1>1 DEF LoopInv, LoopAssumption
<1>5. RestOK'
  BY <1>1, <1>2, <1>3, <1>4 DEF LoopInv, RestOK, Points
<1>6. Calm' /\ SignalsOwed'
  BY <1>1, <1>2 DEF Calm, SignalsOwed
<1> QED BY <1>1, <1>5, <1>6, TimersKept, HandlersKept, SigsKept DEF LoopInv

LEMMA TimerFiresKeeps == LoopInv /\ TimerFires => LoopInv'
<1> SUFFICES ASSUME LoopInv, TimerFires PROVE LoopInv'
  OBVIOUS
<1>1. timers \in Seq([id : TimerIds, left : 0..MaxDelay])
  BY DEF LoopInv, TimersOK
<1>2. Min(Expired) \in Expired /\ Expired \in SUBSET DOMAIN timers
  <2>1. Expired \in SUBSET Nat /\ Expired # {}
    BY <1>1 DEF Expired, TimerFires
  <2> QED BY <2>1, MinFacts DEF Expired
<1>3. /\ UNCHANGED <<waiting, settled, jobs, handlers, sigs, rejected, pending, clearing, ready>>
      /\ UNCHANGED <<owed, cut>>
      /\ timers' = Without(timers, Expired)
      /\ at' = "event" /\ calling' = TimerEvent(timers[Min(Expired)].id) /\ fuel' = Fuel
  BY DEF TimerFires, Call, system
<1>4. timers[Min(Expired)].id \in TimerIds
  <2>1. Min(Expired) \in 1..Len(timers)
    BY <1>1, <1>2
  <2>2. timers[Min(Expired)] \in [id : TimerIds, left : 0..MaxDelay]
    BY <1>1, <2>1, ElementOfSeq
  <2> QED BY <2>2
<1>5. calling' \in Events
  BY <1>3, <1>4 DEF Events
<1>6. fuel' \in 0..Fuel
  BY <1>3 DEF LoopInv, LoopAssumption
<1>7. RestOK'
  BY <1>3, <1>5, <1>6 DEF LoopInv, RestOK, Points
<1>8. Calm' /\ SignalsOwed'
  BY <1>3 DEF LoopInv, Calm, SignalsOwed
<1> QED BY <1>2, <1>3, <1>7, <1>8, TimerRemoved, HandlersKept, SigsKept DEF LoopInv

LEMMA SelectedKeeps == LoopInv /\ Selected => LoopInv'
<1> SUFFICES ASSUME LoopInv, Selected PROVE LoopInv'
  OBVIOUS
<1> DEFINE rh == handlers[Min(Reported)]
           dir == IF "read" \in rh.funcs /\ <<rh.fd, "read">> \in ready THEN "read" ELSE "write"
<1>1. handlers \in Seq([fd : Fds, funcs : (SUBSET Directions) \ {{}}])
  BY DEF LoopInv, HandlersOK
<1>2. Min(Reported) \in 1..Len(handlers)
  <2>1. Reported \in SUBSET (1..Len(handlers)) /\ Reported # {}
    <3>1. Reported \in SUBSET DOMAIN handlers
      BY DEF Reported
    <3>2. Reported # {}
      BY DEF Selected
    <3> QED BY <1>1, <3>1, <3>2
  <2>2. Reported \in SUBSET Nat
    BY <2>1
  <2> QED BY <2>1, <2>2, MinFacts
<1>3. rh \in [fd : Fds, funcs : (SUBSET Directions) \ {{}}]
  BY <1>1, <1>2, ElementOfSeq
<1>4. rh.fd \in Fds /\ dir \in Directions
  BY <1>3 DEF Directions
<1>5. /\ UNCHANGED <<waiting, settled, jobs, timers, handlers, sigs, rejected, pending, clearing>>
      /\ UNCHANGED <<owed, cut>>
      /\ at' = "event" /\ calling' = FdEvent(rh.fd, dir) /\ fuel' = Fuel
      /\ ready' \subseteq ready
  BY DEF Selected, Call, registered
<1>6. calling' \in Events
  BY <1>4, <1>5 DEF Events
<1>7. fuel' \in 0..Fuel
  BY <1>5 DEF LoopInv, LoopAssumption
<1> HIDE DEF rh, dir
<1>8. RestOK'
  BY <1>5, <1>6, <1>7 DEF LoopInv, RestOK, Points
<1>9. Calm' /\ SignalsOwed'
  BY <1>5 DEF LoopInv, Calm, SignalsOwed
<1> QED BY <1>5, <1>8, <1>9, TimersKept, HandlersKept, SigsKept DEF LoopInv

LEMMA TickKeeps == LoopInv /\ Tick => LoopInv'
<1> SUFFICES ASSUME LoopInv, Tick PROVE LoopInv'
  OBVIOUS
<1>1. /\ UNCHANGED <<at, waiting, settled, jobs, handlers, sigs, rejected>>
      /\ UNCHANGED <<pending, clearing, ready, calling, owed, cut, fuel>>
  BY DEF Tick, system
<1>2. TimersOK'
  <2>1. timers' = [i \in DOMAIN timers |->
                     [timers[i] EXCEPT !.left = IF @ > 0 THEN @ - 1 ELSE 0]]
    BY DEF Tick
  <2>2. TimersOK /\ MaxDelay \in Nat
    BY DEF LoopInv, LoopAssumption
  <2> QED BY <2>1, <2>2, TimersCounted
<1>3. RestOK' /\ Calm' /\ SignalsOwed'
  BY <1>1 DEF LoopInv, RestOK, Calm, SignalsOwed
<1> QED BY <1>1, <1>2, <1>3, HandlersKept, SigsKept DEF LoopInv

LEMMA BecomeReadyKeeps ==
    ASSUME LoopInv, NEW fd \in Fds, NEW dir \in Directions, BecomeReady(fd, dir)
    PROVE  LoopInv'
<1>1. /\ UNCHANGED <<at, waiting, settled, jobs, timers, handlers, sigs, rejected>>
      /\ UNCHANGED <<pending, clearing, calling, owed, cut, fuel>>
      /\ ready' = ready \cup {<<fd, dir>>}
  BY DEF BecomeReady, registered
<1>2. RestOK' /\ Calm' /\ SignalsOwed'
  BY <1>1 DEF LoopInv, RestOK, Calm, SignalsOwed
<1> QED BY <1>1, <1>2, TimersKept, HandlersKept, SigsKept DEF LoopInv

LEMMA RaiseKeeps ==
    ASSUME LoopInv, NEW s \in Signals, Raise(s)
    PROVE  LoopInv'
<1>1. /\ UNCHANGED <<waiting, settled, jobs, timers, handlers, sigs, rejected>>
      /\ UNCHANGED <<clearing, ready, calling, cut, fuel>>
      /\ pending' = pending \cup {s} /\ owed' = owed \cup {s}
      /\ at' = at \/ at' = "jobs"
  BY DEF Raise, registered
<1>2. RestOK' /\ Calm' /\ SignalsOwed'
  BY <1>1 DEF LoopInv, RestOK, Calm, SignalsOwed, Points
<1> QED BY <1>1, <1>2, TimersKept, HandlersKept, SigsKept DEF LoopInv

-----------------------------------------------------------------------------
LEMMA InitLoop == ASSUME LoopAssumption, Init PROVE LoopInv
<1> USE DEF Init
<1>1. TimersOK /\ HandlersOK /\ SigsOK
  BY DEF TimersOK, HandlersOK, SigsOK
<1>2. RestOK
  <2>1. Fuel \in 0..Fuel /\ 0 \in 0..MaxJobs
    BY DEF LoopAssumption
  <2>2. None \in Events
    BY DEF Events
  <2> QED BY <2>1, <2>2 DEF RestOK, Points
<1>3. Calm /\ SignalsOwed
  BY DEF Calm, SignalsOwed
<1> QED BY <1>1, <1>2, <1>3 DEF LoopInv

LEMMA NextLoop == LoopInv /\ [Next]_vars => LoopInv'
<1> SUFFICES ASSUME LoopInv, [Next]_vars PROVE LoopInv'
  OBVIOUS
<1>1. CASE Script
  BY <1>1, ScriptKeeps
<1>2. CASE Return \/ Throw
  BY <1>2, MovesKeep
<1>3. CASE Loop
  BY <1>3, MovesKeep, ReadSignalsKeeps, WriteSignalsKeeps, TimerFiresKeeps, SelectedKeeps DEF Loop
<1>4. CASE Tick
  BY <1>4, TickKeeps
<1>5. CASE Environment
  BY <1>5, BecomeReadyKeeps, RaiseKeeps DEF Environment
<1>6. CASE UNCHANGED vars
  BY <1>6 DEF vars, registered, system, LoopInv, TimersOK, HandlersOK, SigsOK, RestOK, Calm,
     SignalsOwed
<1> QED BY <1>1, <1>2, <1>3, <1>4, <1>5, <1>6 DEF Next

LEMMA LoopInvariant == ASSUME LoopAssumption PROVE Spec => []LoopInv
<1>1. Init => LoopInv
  BY InitLoop
<1> QED BY <1>1, NextLoop, PTL DEF Spec

\* Only js_os_poll begins a callback.
LEMMA QuietStep == LoopInv /\ [Next]_vars => Quiet
<1> SUFFICES ASSUME LoopInv, [Next]_vars, at' = "event", at # "event"
             PROVE  (jobs = 0 \/ cut) /\ rejected = {} /\ (at = "clear" => clearing[2] \in owed)
  BY DEF Quiet
<1>1. WriteSignals \/ TimerFires \/ Selected
  <2>1. ~Script /\ ~Tick /\ ~Environment
    BY DEF Script, Operation, Enqueue, Settle, ClearTimer, SetTimer, SetHandler, UnsetHandler,
           SetSignal, UnsetSignal, Reject, HandleRejection, Tick, Environment, BecomeReady, Raise
  <2>2. ~Return /\ ~Throw /\ ~Awaited /\ ~RunJob /\ ~NoMoreJobs /\ ~Check
    BY DEF Return, Throw, Awaited, RunJob, NoMoreJobs, Check
  <2>3. ~ReadSignals /\ ~NoMoreEvents /\ ~Select /\ ~SelectTimeout
    BY DEF ReadSignals, NoMoreEvents, Select, SelectTimeout
  <2>4. ~UNCHANGED vars
    BY DEF vars
  <2> QED BY <2>1, <2>2, <2>3, <2>4 DEF Next, Loop
<1>2. at \in {"poll", "clear", "select"}
  BY <1>1 DEF WriteSignals, TimerFires, Selected
<1> QED BY <1>2 DEF LoopInv, Calm, SignalsOwed

\* The lists of js_std_init_handlers have at most one entry of a timer, a
\* descriptor and a signal, and no entry of a descriptor without a function,
\* whatever scripts and callbacks set and remove while the loop goes on.
THEOREM EventLoopTypes == ASSUME LoopAssumption PROVE Spec => []TypeOK
<1>1. LoopInv => TypeOK
  BY DEF LoopInv, TypeOK, TimersOK, HandlersOK, SigsOK, RestOK, IsInjective
<1> QED BY <1>1, LoopInvariant, PTL

\* EventsWhenQuiet: js_os_poll calls the callback of an event only when the jobs
\* of the scripts before it are done, or one of them threw, and when no rejection
\* is left without a handler; that of a signal only for one that came and was not
\* answered yet.
THEOREM EventLoopQuiet == ASSUME LoopAssumption PROVE Spec => EventsWhenQuiet
<1>1. LoopInv /\ [Next]_vars => [Quiet]_<<at, jobs, rejected, clearing, owed, cut>>
  BY QuietStep DEF vars, registered
<1> QED BY <1>1, LoopInvariant, PTL DEF Spec, EventsWhenQuiet

=============================================================================
