---------------------------- MODULE WorkersProofs ----------------------------
(***************************************************************************)
(* Workers for any number of workers, blocks and messages: what the        *)
(* threads share is exact.                                                 *)
(***************************************************************************)
EXTENDS Workers, SequenceTheorems, FiniteSetTheorems, TLAPS

-----------------------------------------------------------------------------
(***************************************************************************)
(* The inductive invariant                                                 *)
(***************************************************************************)

\* The types, as far as each step keeps them by itself.
Types ==
    /\ thread \in [AllThreads -> Points]
    /\ arg \in [AllThreads -> {NoArg} \cup (Ends \X (Message \cup {NoArg}))]
    /\ objects \subseteq Ends /\ wanted \subseteq Ends
    /\ ports \in [AllThreads -> Seq(Ends)]
    /\ counts \in [Ends -> Int]
    /\ queue \in [Ends -> Seq(Message)]
    /\ waker \in [Ends -> Int]
    /\ lock \in [Ends -> AllThreads \cup {Nobody}]
    /\ sabRefs \in [Sabs -> Int]
    /\ held \in [AllThreads -> [Sabs -> Nat]]
    /\ posted \in [Ends -> Nat] /\ taken \in [Ends -> Nat]

\* What a thread has in hand fits the point where it is.  A message to be
\* posted is the next one of its pipe.
CarriedBy(t) ==
    /\ thread[t] \in {"lock", "append"} =>
          /\ arg[t] \in EndsOf(t) \X Message
          /\ arg[t][1] \in objects
          /\ arg[t][2].id = posted[Peer(arg[t][1])] + 1
    /\ thread[t] = "take" => arg[t] \in EndsOf(t) \X {NoArg} /\ HasPort(arg[t][1])
    /\ thread[t] \in {"read", "free"} => arg[t] \in EndsOf(t) \X Message
Carried == \A t \in AllThreads : CarriedBy(t)

\* The mutex of a pipe is held by the thread that appends to it, and the pipe
\* was signalled.
LockOf(e) ==
    /\ \A t \in AllThreads : lock[e] = t <=> thread[t] = "append" /\ Peer(arg[t][1]) = e
    /\ waker[e] = IF lock[e] = Nobody THEN OneIf(queue[e] # <<>>) ELSE 1
Locked == \A e \in Ends : LockOf(e)

\* The messages of a pipe are those that were posted and not taken, unless the
\* pipe was freed.
MessagesOf(e) ==
    /\ posted[e] <= MaxSent /\ taken[e] + Len(queue[e]) <= posted[e]
    /\ \A i \in DOMAIN queue[e] : queue[e][i].id = taken[e] + i
    /\ counts[e] > 0 => posted[e] = taken[e] + Len(queue[e])
    /\ counts[e] = 0 => queue[e] = <<>>
    /\ thread[e[1]] = "none" => posted[e] = 0 /\ taken[e] = 0
Ordered == \A e \in Ends : MessagesOf(e)

\* The users of a pipe.
RefsOf(e) ==
    counts[e] = ObjectRefs(objects, e) + OneIf(HasPort(e))
                + OneIf(thread[e[1]] \notin {"none", "runtime", "done"})
Counted == \A e \in Ends : RefsOf(e)

\* When there are Worker objects and ports of a worker.
LifeOf(e) ==
    /\ e \in objects => thread[e[1]] # "none"
    /\ e \in objects /\ e[2] = "worker" => thread[e[1]] \notin {"start", "done"}
    /\ HasPort(e) => e \in objects
Lives == \A e \in Ends : LifeOf(e)

\* The ports of a thread: different ends of its own, and none after its loop.
PortsOf(t) ==
    /\ IsInjective(ports[t]) /\ ToSet(ports[t]) \subseteq EndsOf(t)
    /\ thread[t] \in {"handlers", "runtime", "done"} => ports[t] = <<>>
Listed == \A t \in AllThreads : PortsOf(t)

\* The users of a block.
SabOf(s) == sabRefs[s] = Cardinality(Queued(s)) + Cardinality(InHand(s)) + Cardinality(Buffers(s))
Shared == \A s \in Sabs : SabOf(s)

WorkerInv ==
    /\ WorkersAssumption /\ Types
    /\ Carried /\ Locked /\ Ordered /\ Counted /\ Lives /\ Listed /\ Shared

-----------------------------------------------------------------------------
(***************************************************************************)
(* Ends                                                                    *)
(***************************************************************************)

LEMMA EndFacts ==
    ASSUME WorkersAssumption, NEW e \in Ends
    PROVE  /\ Peer(e) \in Ends /\ Peer(e) # e /\ Peer(Peer(e)) = e
           /\ e[1] \in Workers /\ Peer(e)[1] = e[1]
           /\ ThreadOf(e) \in AllThreads /\ ThreadOf(Peer(e)) \in AllThreads
           /\ \/ e[2] = "main" /\ ThreadOf(e) = "main" /\ ThreadOf(Peer(e)) = e[1]
              \/ e[2] = "worker" /\ ThreadOf(e) = e[1] /\ ThreadOf(Peer(e)) = "main"
           /\ ThreadOf(e) # ThreadOf(Peer(e))
           /\ \A f \in Ends : f[1] = e[1] => f \in {e, Peer(e)}
<1>1. PICK w \in Workers, side \in {"main", "worker"} : e = <<w, side>>
  BY DEF Ends
<1>2. Peer(e) = <<w, IF side = "main" THEN "worker" ELSE "main">>
  BY <1>1 DEF Peer
<1>3. w # "main"
  BY DEF WorkersAssumption
<1>4. Peer(e) \in Ends /\ Peer(e) # e /\ Peer(Peer(e)) = e
  BY <1>1, <1>2 DEF Peer, Ends
<1>5. \A f \in Ends : f[1] = e[1] => f \in {e, Peer(e)}
  BY <1>1, <1>2 DEF Ends
<1>6. CASE side = "main"
  BY <1>1, <1>2, <1>3, <1>4, <1>5, <1>6 DEF ThreadOf, AllThreads
<1>7. CASE side = "worker"
  BY <1>1, <1>2, <1>3, <1>4, <1>5, <1>7 DEF ThreadOf, AllThreads
<1> QED BY <1>6, <1>7

-----------------------------------------------------------------------------
(***************************************************************************)
(* Lists                                                                   *)
(***************************************************************************)

\* Where the entry at j of a list without its k-th was.
Skip(k, j) == IF j < k THEN j ELSE j + 1

LEMMA RemoveAtFacts ==
    ASSUME NEW S, NEW s \in Seq(S), NEW k \in 1..Len(s)
    PROVE  /\ RemoveAt(s, k) \in Seq(S) /\ Len(s) = Len(RemoveAt(s, k)) + 1
           /\ \A j \in DOMAIN RemoveAt(s, k) :
                 Skip(k, j) \in DOMAIN s /\ RemoveAt(s, k)[j] = s[Skip(k, j)]
<1>1. PICK a \in Nat, b \in Nat : k = a + 1 /\ Len(s) = k + b
  <2>1. k \in Nat /\ Len(s) \in Nat /\ 1 <= k /\ k <= Len(s)
    OBVIOUS
  <2>2. k - 1 \in Nat /\ Len(s) - k \in Nat /\ k = (k - 1) + 1 /\ Len(s) = k + (Len(s) - k)
    BY <2>1
  <2> QED BY <2>2
<1> DEFINE front == SubSeq(s, 1, a)
           back == SubSeq(s, k + 1, k + b)
<1>2. RemoveAt(s, k) = front \o back
  <2>1. k - 1 = a
    BY <1>1
  <2> QED BY <1>1, <2>1 DEF RemoveAt
<1>3. front \in Seq(S) /\ Len(front) = a /\ \A i \in 1..a : front[i] = s[i]
  <2>1. \A i \in 1..a : s[i] \in S
    BY <1>1
  <2>2. /\ front \in Seq(S)
        /\ Len(front) = IF 1 <= a THEN a - 1 + 1 ELSE 0
        /\ \A i \in 1..a-1+1 : front[i] = s[1 + i - 1]
    BY <2>1, SubSeqProperties
  <2> QED BY <1>1, <2>2
<1>4. back \in Seq(S) /\ Len(back) = b /\ \A i \in 1..b : back[i] = s[k + i]
  <2>1. \A i \in k+1..k+b : s[i] \in S
    BY <1>1
  <2>2. /\ back \in Seq(S)
        /\ Len(back) = IF k + 1 <= k + b THEN k + b - (k + 1) + 1 ELSE 0
        /\ \A i \in 1..k+b-(k+1)+1 : back[i] = s[k + 1 + i - 1]
    BY <2>1, SubSeqProperties
  <2>3. k + b - (k + 1) + 1 = b /\ (k + 1 <= k + b <=> b # 0)
    BY <1>1
  <2>4. \A i \in 1..b : k + 1 + i - 1 = k + i
    BY <1>1
  <2> QED BY <1>1, <2>2, <2>3, <2>4
<1> HIDE DEF front, back
<1>5. /\ front \o back \in Seq(S)
      /\ Len(front \o back) = a + b
      /\ \A i \in 1..a+b : (front \o back)[i] = IF i <= a THEN front[i] ELSE back[i - a]
  BY <1>3, <1>4, ConcatProperties
<1>6. ASSUME NEW j \in 1..a+b
      PROVE  Skip(k, j) \in DOMAIN s /\ (front \o back)[j] = s[Skip(k, j)]
  <2>1. CASE j <= a
    <3>1. Skip(k, j) = j /\ j \in 1..a /\ j \in 1..Len(s)
      BY <1>1, <2>1 DEF Skip
    <3> QED BY <1>3, <1>5, <2>1, <3>1
  <2>2. CASE ~(j <= a)
    <3>1. Skip(k, j) = j + 1 /\ j - a \in 1..b /\ k + (j - a) = j + 1 /\ j + 1 \in 1..Len(s)
      BY <1>1, <2>2 DEF Skip
    <3>2. (front \o back)[j] = back[j - a]
      BY <1>5, <2>2
    <3>3. back[j - a] = s[j + 1]
      BY <1>4, <3>1
    <3> QED BY <3>1, <3>2, <3>3
  <2> QED BY <2>1, <2>2
<1>7. DOMAIN (front \o back) = 1..a+b
  BY <1>5
<1>8. Len(s) = a + b + 1
  BY <1>1
<1> QED BY <1>2, <1>5, <1>6, <1>7, <1>8

\* A list of different entries without one of them.
LEMMA RemoveFacts ==
    ASSUME NEW S, NEW s \in Seq(S), IsInjective(s), NEW k \in DOMAIN s
    PROVE  /\ RemoveAt(s, k) \in Seq(S)
           /\ IsInjective(RemoveAt(s, k))
           /\ ToSet(RemoveAt(s, k)) = ToSet(s) \ {s[k]}
<1> DEFINE r == RemoveAt(s, k)
<1>1. /\ r \in Seq(S) /\ Len(s) = Len(r) + 1
      /\ \A j \in DOMAIN r : Skip(k, j) \in DOMAIN s /\ r[j] = s[Skip(k, j)]
  BY RemoveAtFacts
<1> HIDE DEF r
<1>2. /\ k \in Nat /\ Len(r) \in Nat /\ 1 <= k /\ k <= Len(s)
      /\ DOMAIN r = 1..Len(r) /\ DOMAIN s = 1..Len(s)
  BY <1>1
<1>3. \A i, j \in DOMAIN r : (Skip(k, i) = Skip(k, j) => i = j) /\ Skip(k, j) # k
  BY <1>2 DEF Skip
<1>4. IsInjective(r)
  BY <1>1, <1>3 DEF IsInjective
<1>5. ASSUME NEW p \in DOMAIN s, p # k
      PROVE  \E j \in DOMAIN r : r[j] = s[p]
  <2>1. CASE p < k
    <3>1. p \in DOMAIN r /\ Skip(k, p) = p
      BY <1>1, <1>2, <2>1 DEF Skip
    <3> QED BY <1>1, <3>1
  <2>2. CASE ~(p < k)
    <3>1. PICK q \in Nat : p = q + 1
      <4>1. p \in Nat /\ 1 <= p
        BY <1>2
      <4>2. p - 1 \in Nat /\ p = (p - 1) + 1
        BY <4>1
      <4> QED BY <4>2
    <3>2. q \in DOMAIN r /\ Skip(k, q) = p
      BY <1>1, <1>2, <1>5, <2>2, <3>1 DEF Skip
    <3> QED BY <1>1, <3>2
  <2> QED BY <2>1, <2>2
<1>6. ToSet(r) = ToSet(s) \ {s[k]}
  <2>1. \A j \in DOMAIN r : r[j] \in ToSet(s) /\ r[j] # s[k]
    BY <1>1, <1>3 DEF ToSet, IsInjective
  <2>2. \A p \in DOMAIN s : s[p] # s[k] => s[p] \in ToSet(r)
    BY <1>5 DEF ToSet
  <2> QED BY <2>1, <2>2 DEF ToSet
<1> QED BY <1>1, <1>4, <1>6 DEF r

LEMMA AppendFacts ==
    ASSUME NEW S, NEW s \in Seq(S), NEW e \in S
    PROVE  /\ Append(s, e) \in Seq(S) /\ Append(s, e) # <<>>
           /\ ToSet(Append(s, e)) = ToSet(s) \cup {e}
           /\ IsInjective(s) /\ e \notin ToSet(s) => IsInjective(Append(s, e))
<1> DEFINE r == Append(s, e)
<1>1. /\ r \in Seq(S) /\ Len(r) = Len(s) + 1
      /\ \A i \in 1..Len(s) : r[i] = s[i]
      /\ r[Len(s) + 1] = e
  BY AppendProperties
<1> HIDE DEF r
<1>2. DOMAIN r = 1..Len(s)+1 /\ DOMAIN s = 1..Len(s) /\ Len(s) \in Nat
  BY <1>1
<1>3. \A i \in DOMAIN r : i \in DOMAIN s \/ i = Len(s) + 1
  BY <1>2
<1>4. DOMAIN s \subseteq DOMAIN r /\ Len(s) + 1 \in DOMAIN r /\ r # <<>>
  BY <1>1, <1>2
<1>5. \A i \in DOMAIN s : r[i] = s[i]
  BY <1>1, <1>2
<1>6. ToSet(r) = ToSet(s) \cup {e}
  BY <1>1, <1>3, <1>4, <1>5 DEF ToSet
<1>7. ASSUME IsInjective(s), e \notin ToSet(s), NEW i \in DOMAIN r, NEW j \in DOMAIN r, r[i] = r[j]
      PROVE  i = j
  <2>1. \A n \in DOMAIN s : s[n] # e
    BY <1>7 DEF ToSet
  <2>2. CASE i \in DOMAIN s /\ j \in DOMAIN s
    BY <1>5, <1>7, <2>2 DEF IsInjective
  <2>3. CASE ~(i \in DOMAIN s /\ j \in DOMAIN s)
    BY <1>1, <1>3, <1>5, <1>7, <2>1, <2>3
  <2> QED BY <2>2, <2>3
<1>8. IsInjective(s) /\ e \notin ToSet(s) => IsInjective(r)
  BY <1>7 DEF IsInjective
<1> QED BY <1>1, <1>4, <1>6, <1>8 DEF r

LEMMA NothingListed ==
    ASSUME NEW S, NEW s \in Seq(S), ToSet(s) = {}
    PROVE  s = <<>>
<1>1. Len(s) \in Nat /\ DOMAIN s = 1..Len(s)
  OBVIOUS
<1>2. CASE Len(s) = 0
  BY <1>2
<1>3. CASE Len(s) # 0
  <2>1. 1 \in DOMAIN s
    BY <1>1, <1>3
  <2> QED BY <2>1 DEF ToSet
<1> QED BY <1>2, <1>3

-----------------------------------------------------------------------------
(***************************************************************************)
(* What a step that does not touch it keeps                                *)
(***************************************************************************)

\* Only thread t moves.
Others(t) == \A u \in AllThreads \ {t} : thread'[u] = thread[u] /\ arg'[u] = arg[u]

LEMMA CarriedKept ==
    ASSUME WorkerInv, NEW t \in AllThreads, Others(t), CarriedBy(t)',
           \A e \in objects : ThreadOf(e) = t \/ e \in objects',
           \A u \in AllThreads \ {t} : ports'[u] = ports[u],
           \A e \in Ends : ThreadOf(Peer(e)) = t \/ posted'[e] = posted[e]
    PROVE  Carried'
<1>1. SUFFICES ASSUME NEW u \in AllThreads \ {t} PROVE CarriedBy(u)'
  BY DEF Carried
<1>2. CarriedBy(u) /\ thread'[u] = thread[u] /\ arg'[u] = arg[u] /\ ports'[u] = ports[u]
  BY DEF WorkerInv, Carried, Others
<1>3. \A e \in EndsOf(u) : e \in Ends /\ ThreadOf(e) = u /\ Peer(e) \in Ends /\ Peer(Peer(e)) = e
  BY EndFacts DEF WorkerInv, EndsOf
<1>4. \A e \in EndsOf(u) : /\ e \in objects => e \in objects'
                           /\ posted'[Peer(e)] = posted[Peer(e)]
                           /\ HasPort(e) => HasPort(e)'
  BY <1>2, <1>3 DEF HasPort
<1>5. CASE thread[u] \in {"lock", "append"}
  <2>1. arg[u][1] \in EndsOf(u)
    BY <1>2, <1>5 DEF CarriedBy
  <2> QED BY <1>2, <1>4, <1>5, <2>1 DEF CarriedBy
<1>6. CASE thread[u] = "take"
  <2>1. arg[u][1] \in EndsOf(u)
    BY <1>2, <1>6 DEF CarriedBy
  <2> QED BY <1>2, <1>4, <1>6, <2>1 DEF CarriedBy
<1>7. CASE thread[u] \notin {"lock", "append", "take"}
  BY <1>2, <1>7 DEF CarriedBy
<1> QED BY <1>5, <1>6, <1>7

LEMMA LockedKept ==
    ASSUME WorkerInv, NEW t \in AllThreads, Others(t),
           thread[t] # "append", thread'[t] # "append", UNCHANGED <<lock, waker, queue>>
    PROVE  Locked'
BY DEF WorkerInv, Locked, LockOf, Others

LEMMA OrderedKept ==
    ASSUME WorkerInv, UNCHANGED <<queue, posted, taken>>,
           \A w \in Workers : thread'[w] = "none" => thread[w] = "none",
           \A e \in Ends : counts'[e] = counts[e] \/ (counts'[e] > 0 /\ counts[e] > 0)
    PROVE  Ordered'
<1>1. \A e \in Ends : e[1] \in Workers
  BY EndFacts DEF WorkerInv
<1>2. \A e \in Ends : counts'[e] > 0 => counts[e] > 0 
  OBVIOUS
<1>3. \A e \in Ends : counts'[e] = 0 => counts[e] = 0
  OBVIOUS
<1> QED BY <1>1, <1>2, <1>3 DEF WorkerInv, Ordered, MessagesOf

LEMMA CountedKept ==
    ASSUME WorkerInv, UNCHANGED <<counts, objects, ports>>,
           \A w \in Workers : thread'[w] \in {"none", "runtime", "done"}
                                  <=> thread[w] \in {"none", "runtime", "done"}
    PROVE  Counted'
<1>1. \A e \in Ends : e[1] \in Workers
  BY EndFacts DEF WorkerInv
<1> QED BY <1>1 DEF WorkerInv, Counted, RefsOf, ObjectRefs, OneIf, HasPort

LEMMA LivesKept ==
    ASSUME WorkerInv, UNCHANGED <<objects, ports>>,
           \A w \in Workers : thread'[w] \in {"none", "start", "done"} => thread'[w] = thread[w]
    PROVE  Lives'
<1>1. \A e \in Ends : e[1] \in Workers
  BY EndFacts DEF WorkerInv
<1> QED BY <1>1 DEF WorkerInv, Lives, LifeOf, HasPort

LEMMA ListedKept ==
    ASSUME WorkerInv, UNCHANGED ports,
           \A u \in AllThreads : thread'[u] \in {"handlers", "runtime", "done"} =>
                                     thread[u] \in {"handlers", "runtime", "done"}
    PROVE  Listed'
BY DEF WorkerInv, Listed, PortsOf

-----------------------------------------------------------------------------
(***************************************************************************)
(* The users of a block                                                    *)
(***************************************************************************)

LEMMA QueuedMember ==
    ASSUME NEW s, NEW m, queue \in [Ends -> Seq(Message)]
    PROVE  m \in Queued(s) <=> \E e \in Ends : \E i \in DOMAIN queue[e] :
                                  m = <<e, queue[e][i].id>> /\ s \in queue[e][i].sabs
BY DEF Queued

LEMMA QueuedMemberNext ==
    ASSUME NEW s, NEW m, queue' \in [Ends -> Seq(Message)]
    PROVE  m \in Queued(s)' <=> \E e \in Ends : \E i \in DOMAIN queue'[e] :
                                   m = <<e, queue'[e][i].id>> /\ s \in queue'[e][i].sabs
BY DEF Queued

LEMMA BuffersMember ==
    ASSUME NEW s \in Sabs, NEW b, held \in [AllThreads -> [Sabs -> Nat]]
    PROVE  b \in Buffers(s) <=> \E t \in AllThreads : \E n \in 1..held[t][s] : b = <<t, n>>
BY DEF Buffers

LEMMA BuffersMemberNext ==
    ASSUME NEW s \in Sabs, NEW b, held' \in [AllThreads -> [Sabs -> Nat]]
    PROVE  b \in Buffers(s)' <=> \E t \in AllThreads : \E n \in 1..held'[t][s] : b = <<t, n>>
BY DEF Buffers

LEMMA FiniteUsers ==
    ASSUME WorkerInv, NEW s \in Sabs
    PROVE  IsFiniteSet(Queued(s)) /\ IsFiniteSet(InHand(s)) /\ IsFiniteSet(Buffers(s))
<1>1. IsFiniteSet(Workers) /\ IsFiniteSet({"main", "worker"}) /\ IsFiniteSet({"main"})
  <2>2. IsFiniteSet({"main"})
    BY FS_Singleton
  <2>3. IsFiniteSet({"main"} \cup {"worker"})
    BY <2>2, FS_AddElement
  <2>1. IsFiniteSet({"main", "worker"})
    <3>1. {"main", "worker"} = {"main"} \cup {"worker"}
      OBVIOUS
    <3> QED BY <2>3, <3>1
  <2> QED BY <2>1, <2>2 DEF WorkerInv, WorkersAssumption
<1>2. IsFiniteSet(Ends)
  BY <1>1, FS_Product DEF Ends
<1>3. IsFiniteSet(AllThreads)
  BY <1>1, FS_Union DEF AllThreads
<1>4. IsFiniteSet(1..MaxSent)
  BY FS_Interval DEF WorkerInv, WorkersAssumption
<1>5. IsFiniteSet(Queued(s))
  <2>1. IsFiniteSet(Ends \X (1..MaxSent))
    BY <1>2, <1>4, FS_Product
  <2>2. Queued(s) \subseteq Ends \X (1..MaxSent)
    <3>1. queue \in [Ends -> Seq(Message)]
      BY DEF WorkerInv, Types
    <3>2. \A e \in Ends : \A i \in DOMAIN queue[e] : queue[e][i].id \in 1..MaxSent
      <4>1. \A e \in Ends : \A i \in DOMAIN queue[e] : queue[e][i] \in Message
        BY <3>1, ElementOfSeq
      <4>2. \A m \in Message : m.id \in 1..MaxSent
        BY DEF Message
      <4> QED BY <4>1, <4>2
    <3> QED BY <3>1, <3>2, QueuedMember
  <2> QED BY <2>1, <2>2, FS_Subset
<1>6. IsFiniteSet(InHand(s))
  <2>1. InHand(s) \subseteq AllThreads
    BY DEF InHand, WorkerInv, Types
  <2> QED BY <1>3, <2>1, FS_Subset
<1>7. IsFiniteSet(Buffers(s))
  <2> DEFINE Of(t) == {<<t, n>> : n \in 1..held[t][s]}
             f == [t \in AllThreads |-> Of(t)]
  <2>1. \A t \in AllThreads : held[t][s] \in Nat
    BY DEF WorkerInv, Types
  <2>2. \A t \in AllThreads : IsFiniteSet(Of(t))
    <3>1. SUFFICES ASSUME NEW t \in AllThreads PROVE IsFiniteSet(Of(t))
      OBVIOUS
    <3>2. IsFiniteSet({t}) /\ IsFiniteSet(1..held[t][s])
      <4>1. 1 \in Int /\ held[t][s] \in Int
        BY <2>1
      <4>2. IsFiniteSet(1..held[t][s])
        BY <4>1, FS_Interval
      <4>3. IsFiniteSet({t})
        BY FS_Singleton
      <4> QED BY <4>2, <4>3
    <3>3. IsFiniteSet({t} \X (1..held[t][s]))
      BY <3>2, FS_Product
    <3>4. Of(t) = {t} \X (1..held[t][s])
      OBVIOUS
    <3> QED BY <3>3, <3>4
  <2> DEFINE All == {Of(t) : t \in AllThreads}
  <2>3. IsFiniteSet(All)
    <3>1. f \in Surjection(AllThreads, All)
      BY DEF Surjection
    <3> QED BY <1>3, <3>1, FS_Surjection
  <2>4. Buffers(s) = UNION All
    BY DEF Buffers, WorkerInv, Types
  <2>5. \A S \in All : IsFiniteSet(S)
    BY <2>2
  <2>6. IsFiniteSet(UNION All)
    <3> HIDE DEF All
    <3> QED BY <2>3, <2>5, FS_UNION
  <2> QED BY <2>4, <2>6
<1> QED BY <1>5, <1>6, <1>7

\* A message that is appended, with a number above those of the others.
LEMMA QueuedAppend ==
    ASSUME WorkerInv, Types', NEW s, NEW p \in Ends, NEW m \in Message,
           m.id = taken[p] + Len(queue[p]) + 1,
           queue' = [queue EXCEPT ![p] = Append(@, m)]
    PROVE  /\ Queued(s)' = Queued(s) \cup (IF s \in m.sabs THEN {<<p, m.id>>} ELSE {})
           /\ <<p, m.id>> \notin Queued(s)
<1>1. queue \in [Ends -> Seq(Message)] /\ queue' \in [Ends -> Seq(Message)]
  BY DEF WorkerInv, Types
<1>2. queue'[p] = Append(queue[p], m) /\ \A e \in Ends \ {p} : queue'[e] = queue[e]
  BY <1>1
<1>3. /\ Len(queue[p]) \in Nat /\ DOMAIN queue[p] = 1..Len(queue[p])
      /\ DOMAIN queue'[p] = 1..Len(queue[p])+1
      /\ \A i \in DOMAIN queue[p] : queue'[p][i] = queue[p][i]
      /\ queue'[p][Len(queue[p]) + 1] = m
  BY <1>1, <1>2, AppendProperties
<1>4. DOMAIN queue'[p] = DOMAIN queue[p] \cup {Len(queue[p]) + 1}
  BY <1>3
<1>5. <<p, m.id>> \notin Queued(s)
  <2>1. \A i \in DOMAIN queue[p] : queue[p][i].id = taken[p] + i
    BY DEF WorkerInv, Ordered, MessagesOf
  <2>2. taken[p] \in Nat
    BY DEF WorkerInv, Types
  <2>3. \A i \in DOMAIN queue[p] : queue[p][i].id # m.id
    BY <1>3, <2>1, <2>2
  <2> QED BY <1>1, <2>3, QueuedMember
<1>6. ASSUME NEW x PROVE x \in Queued(s)' <=> x \in Queued(s) \/ (x = <<p, m.id>> /\ s \in m.sabs)
  <2>1. x \in Queued(s)' <=> \E e \in Ends : \E i \in DOMAIN queue'[e] :
                                x = <<e, queue'[e][i].id>> /\ s \in queue'[e][i].sabs
    BY <1>1, QueuedMemberNext
  <2>2. x \in Queued(s) <=> \E e \in Ends : \E i \in DOMAIN queue[e] :
                                x = <<e, queue[e][i].id>> /\ s \in queue[e][i].sabs
    BY <1>1, QueuedMember
  <2> QED BY <1>2, <1>3, <1>4, <2>1, <2>2
<1> QED BY <1>5, <1>6

\* The first message that is taken.
LEMMA QueuedTail ==
    ASSUME WorkerInv, Types', NEW s, NEW p \in Ends, queue[p] # <<>>,
           queue' = [queue EXCEPT ![p] = Tail(@)]
    PROVE  /\ Head(queue[p]) \in Message
           /\ Queued(s)' = Queued(s) \ {<<p, Head(queue[p]).id>>}
           /\ <<p, Head(queue[p]).id>> \in Queued(s) <=> s \in Head(queue[p]).sabs
<1> DEFINE h == Head(queue[p])
<1>1. queue \in [Ends -> Seq(Message)] /\ queue' \in [Ends -> Seq(Message)]
  BY DEF WorkerInv, Types
<1>2. queue'[p] = Tail(queue[p]) /\ \A e \in Ends \ {p} : queue'[e] = queue[e]
  BY <1>1
<1>3. PICK n \in Nat : Len(queue[p]) = n + 1
  <2>1. Len(queue[p]) \in Nat /\ Len(queue[p]) # 0
    BY <1>1
  <2>2. Len(queue[p]) - 1 \in Nat /\ Len(queue[p]) = (Len(queue[p]) - 1) + 1
    BY <2>1
  <2> QED BY <2>2
<1>4. /\ DOMAIN queue[p] = 1..n+1 /\ DOMAIN queue'[p] = 1..n
      /\ \A i \in 1..n : queue'[p][i] = queue[p][i + 1]
      /\ h = queue[p][1] /\ h \in Message
  BY <1>1, <1>2, <1>3, HeadTailProperties
<1> HIDE DEF h
<1>5. \A i \in DOMAIN queue[p] : queue[p][i].id = taken[p] + i
  BY DEF WorkerInv, Ordered, MessagesOf
<1>6. taken[p] \in Nat
  BY DEF WorkerInv, Types
<1>7. h.id = taken[p] + 1 /\ \A i \in 1..n+1 : queue[p][i].id = h.id => i = 1
  <2>1. \A i \in 1..n+1 : queue[p][i].id = taken[p] + i
    BY <1>4, <1>5
  <2>2. 1 \in 1..n+1
    OBVIOUS
  <2>3. h.id = taken[p] + 1
    BY <1>4, <2>1, <2>2
  <2>4. \A i \in 1..n+1 : taken[p] + i = taken[p] + 1 => i = 1
    BY <1>6
  <2> QED BY <2>1, <2>3, <2>4
<1>8. <<p, h.id>> \in Queued(s) <=> s \in h.sabs
  <2>1. <<p, h.id>> \in Queued(s) <=> \E e \in Ends : \E i \in DOMAIN queue[e] :
                                <<p, h.id>> = <<e, queue[e][i].id>> /\ s \in queue[e][i].sabs
    BY <1>1, QueuedMember
  <2>2. 1 \in DOMAIN queue[p]
    BY <1>4
  <2> QED BY <1>4, <1>7, <2>1, <2>2
<1>9. ASSUME NEW x PROVE x \in Queued(s)' <=> x \in Queued(s) /\ x # <<p, h.id>>
  <2>1. x \in Queued(s)' <=> \E e \in Ends : \E i \in DOMAIN queue'[e] :
                                x = <<e, queue'[e][i].id>> /\ s \in queue'[e][i].sabs
    BY <1>1, QueuedMemberNext
  <2>2. x \in Queued(s) <=> \E e \in Ends : \E i \in DOMAIN queue[e] :
                                x = <<e, queue[e][i].id>> /\ s \in queue[e][i].sabs
    BY <1>1, QueuedMember
  <2>3. ASSUME x \in Queued(s)' PROVE x \in Queued(s) /\ x # <<p, h.id>>
    <3>0. PICK e \in Ends : \E i \in DOMAIN queue'[e] :
             x = <<e, queue'[e][i].id>> /\ s \in queue'[e][i].sabs
      BY <2>1, <2>3
    <3>1. PICK i \in DOMAIN queue'[e] : x = <<e, queue'[e][i].id>> /\ s \in queue'[e][i].sabs
      BY <3>0
    <3>2. CASE e = p
      <4>1. i \in 1..n /\ i + 1 \in 1..n+1 /\ i + 1 # 1 /\ queue'[e][i] = queue[p][i + 1]
        BY <1>4, <3>2
      <4> QED BY <1>4, <1>7, <2>2, <3>1, <3>2, <4>1
    <3>3. CASE e # p
      BY <1>2, <2>2, <3>1, <3>3
    <3> QED BY <3>2, <3>3
  <2>4. ASSUME x \in Queued(s), x # <<p, h.id>> PROVE x \in Queued(s)'
    <3>0. PICK e \in Ends : \E i \in DOMAIN queue[e] :
             x = <<e, queue[e][i].id>> /\ s \in queue[e][i].sabs
      BY <2>2, <2>4
    <3>1. PICK i \in DOMAIN queue[e] : x = <<e, queue[e][i].id>> /\ s \in queue[e][i].sabs
      BY <3>0
    <3>2. CASE e = p
      <4>1. i # 1
        BY <1>4, <2>4, <3>1, <3>2
      <4>2. PICK j \in 1..n : i = j + 1
        <5>1. i \in Nat /\ 1 <= i /\ i <= n + 1
          BY <1>4, <3>2
        <5>2. i - 1 \in 1..n /\ i = (i - 1) + 1
          BY <4>1, <5>1
        <5> QED BY <5>2
      <4> QED BY <1>4, <2>1, <3>1, <3>2, <4>2
    <3>3. CASE e # p
      BY <1>2, <2>1, <3>1, <3>3
    <3> QED BY <3>2, <3>3
  <2> QED BY <2>3, <2>4
<1>10. Queued(s)' = Queued(s) \ {<<p, h.id>>}
  BY <1>9
<1> QED BY <1>4, <1>8, <1>10 DEF h

\* Pipes that are freed.
LEMMA QueuedFreed ==
    ASSUME WorkerInv, Types', NEW s, NEW dead \in SUBSET Ends,
           queue' = [e \in Ends |-> IF e \in dead THEN <<>> ELSE queue[e]]
    PROVE  Queued(s)' = Queued(s) \ {m \in Queued(s) : m[1] \in dead}
<1>1. queue \in [Ends -> Seq(Message)] /\ queue' \in [Ends -> Seq(Message)]
  BY DEF WorkerInv, Types
<1>2. ASSUME NEW x PROVE x \in Queued(s)' <=> x \in Queued(s) /\ x[1] \notin dead
  <2>1. x \in Queued(s)' <=> \E e \in Ends : \E i \in DOMAIN queue'[e] :
                                x = <<e, queue'[e][i].id>> /\ s \in queue'[e][i].sabs
    BY <1>1, QueuedMemberNext
  <2>2. x \in Queued(s) <=> \E e \in Ends : \E i \in DOMAIN queue[e] :
                                x = <<e, queue[e][i].id>> /\ s \in queue[e][i].sabs
    BY <1>1, QueuedMember
  <2>3. \A e \in dead : queue'[e] = <<>> /\ DOMAIN queue'[e] = {}
    OBVIOUS
  <2>4. \A e \in Ends \ dead : queue'[e] = queue[e]
    OBVIOUS
  <2> QED BY <2>1, <2>2, <2>3, <2>4
<1> QED BY <1>2

\* SharedArrayBuffers of block s that come and go.
LEMMA BuffersChange ==
    ASSUME WorkerInv, Types', NEW s \in Sabs, NEW t \in AllThreads,
           \A u \in AllThreads \ {t} : held'[u][s] = held[u][s]
    PROVE  /\ held'[t][s] = held[t][s] + 1 =>
                 /\ Buffers(s)' = Buffers(s) \cup {<<t, held[t][s] + 1>>}
                 /\ <<t, held[t][s] + 1>> \notin Buffers(s)
           /\ held[t][s] = held'[t][s] + 1 =>
                 /\ Buffers(s)' = Buffers(s) \ {<<t, held[t][s]>>}
                 /\ <<t, held[t][s]>> \in Buffers(s)
           /\ held'[t][s] = 0 => Buffers(s)' = Buffers(s) \ ({t} \X (1..held[t][s]))
           /\ {t} \X (1..held[t][s]) \subseteq Buffers(s)
<1>1. held \in [AllThreads -> [Sabs -> Nat]] /\ held' \in [AllThreads -> [Sabs -> Nat]]
  BY DEF WorkerInv, Types
<1>2. \A b : /\ b \in Buffers(s) <=> \E u \in AllThreads : \E n \in 1..held[u][s] : b = <<u, n>>
             /\ b \in Buffers(s)' <=> \E u \in AllThreads : \E n \in 1..held'[u][s] : b = <<u, n>>
  BY <1>1, BuffersMember, BuffersMemberNext
<1>3. held[t][s] \in Nat /\ held'[t][s] \in Nat
  BY <1>1
<1>4. ASSUME held'[t][s] = held[t][s] + 1
      PROVE  /\ Buffers(s)' = Buffers(s) \cup {<<t, held[t][s] + 1>>}
             /\ <<t, held[t][s] + 1>> \notin Buffers(s)
  <2>1. 1..held'[t][s] = 1..held[t][s] \cup {held[t][s] + 1} /\ held[t][s] + 1 \notin 1..held[t][s]
    BY <1>3, <1>4
  <2> QED BY <1>2, <2>1
<1>5. ASSUME held[t][s] = held'[t][s] + 1
      PROVE  /\ Buffers(s)' = Buffers(s) \ {<<t, held[t][s]>>}
             /\ <<t, held[t][s]>> \in Buffers(s)
  <2>1. /\ 1..held'[t][s] = (1..held[t][s]) \ {held[t][s]}
        /\ held[t][s] \in 1..held[t][s]
    BY <1>3, <1>5
  <2> QED BY <1>2, <2>1
<1>6. ASSUME held'[t][s] = 0
      PROVE  Buffers(s)' = Buffers(s) \ ({t} \X (1..held[t][s]))
  <2>1. 1..held'[t][s] = {}
    BY <1>6
  <2> QED BY <1>2, <2>1
<1>7. {t} \X (1..held[t][s]) \subseteq Buffers(s)
  BY <1>2
<1> QED BY <1>4, <1>5, <1>6, <1>7

\* Messages in hand, when only thread t moves.
LEMMA InHandChange ==
    ASSUME WorkerInv, Types', NEW s, NEW t \in AllThreads, Others(t)
    PROVE  /\ t \in InHand(s) <=> /\ thread[t] \in {"lock", "append", "read", "free"}
                                  /\ s \in arg[t][2].sabs
           /\ t \in InHand(s)' <=> /\ thread'[t] \in {"lock", "append", "read", "free"}
                                   /\ s \in arg'[t][2].sabs
           /\ t \in InHand(s)' => InHand(s)' = InHand(s) \cup {t}
           /\ t \notin InHand(s)' => InHand(s)' = InHand(s) \ {t}
<1>1. DOMAIN thread = AllThreads /\ DOMAIN thread' = AllThreads
  BY DEF WorkerInv, Types
<1>2. \A u : u \in InHand(s) <=> /\ u \in AllThreads
                                 /\ thread[u] \in {"lock", "append", "read", "free"}
                                 /\ s \in arg[u][2].sabs
  BY <1>1 DEF InHand
<1>3. \A u : u \in InHand(s)' <=> /\ u \in AllThreads
                                  /\ thread'[u] \in {"lock", "append", "read", "free"}
                                  /\ s \in arg'[u][2].sabs
  BY <1>1 DEF InHand
<1>4. \A u : u # t => (u \in InHand(s)' <=> u \in InHand(s))
  BY <1>2, <1>3 DEF Others
<1> QED BY <1>2, <1>3, <1>4

LEMMA SharedKept ==
    ASSUME WorkerInv, Types', NEW t \in AllThreads, Others(t), UNCHANGED <<queue, held, sabRefs>>,
           \A s \in Sabs : t \in InHand(s)' <=> t \in InHand(s)
    PROVE  Shared'
<1>1. SUFFICES ASSUME NEW s \in Sabs PROVE SabOf(s)'
  BY DEF Shared
<1>2. Queued(s)' = Queued(s) /\ Buffers(s)' = Buffers(s)
  BY DEF Queued, Buffers
<1>3. InHand(s)' = InHand(s)
  <2>1. CASE t \in InHand(s)'
    <3>1. InHand(s)' = InHand(s) \cup {t} /\ t \in InHand(s)
      BY <2>1, InHandChange
    <3> QED BY <3>1
  <2>2. CASE t \notin InHand(s)'
    <3>1. InHand(s)' = InHand(s) \ {t} /\ t \notin InHand(s)
      BY <2>2, InHandChange
    <3> QED BY <3>1
  <2> QED BY <2>1, <2>2
<1>4. SabOf(s)
  BY DEF WorkerInv, Shared
<1> QED BY <1>2, <1>3, <1>4 DEF SabOf

-----------------------------------------------------------------------------
(***************************************************************************)
(* Making a worker                                                         *)
(***************************************************************************)

LEMMA CreateKeeps == ASSUME WorkerInv, NEW w \in Workers, Create(w) PROVE WorkerInv'
<1>1. w \in AllThreads /\ w # "main" /\ thread[w] = "none"
  BY DEF Create, AllThreads, WorkerInv, WorkersAssumption
<1>2. thread'[w] \in {"start", "done"} /\ Others(w) /\ \A u \in AllThreads \ {w} : thread'[u] = thread[u]
  BY <1>1 DEF Create, Goto, Others, WorkerInv, Types
<1>3. /\ UNCHANGED <<arg, wanted, ports, queue, waker, lock, sabRefs, held, posted, taken>>
      /\ \/ /\ thread'[w] = "start"
            /\ objects' = objects \cup {<<w, "main">>}
            /\ counts' = [e \in Ends |-> IF e[1] = w THEN 2 ELSE counts[e]]
         \/ thread'[w] = "done" /\ UNCHANGED <<objects, counts>>
  BY <1>1 DEF Create, Goto, history, WorkerInv, Types
<1>4. <<w, "main">> \in Ends
  BY DEF Ends
<1>5. Types'
  <2>1. thread' \in [AllThreads -> Points]
    BY <1>1 DEF Create, Goto, WorkerInv, Types, Points
  <2>2. counts' \in [Ends -> Int]
    BY <1>3 DEF WorkerInv, Types
  <2> QED BY <1>3, <1>4, <2>1, <2>2 DEF WorkerInv, Types
<1>6. Carried'
  BY <1>1, <1>2, <1>3, CarriedKept DEF CarriedBy
<1>7. Locked'
  BY <1>1, <1>2, <1>3, LockedKept
<1>8. \A e \in Ends : e[1] = w => /\ counts[e] = 0 /\ posted[e] = 0 /\ taken[e] = 0
                                  /\ queue[e] = <<>>
                                  /\ e \notin objects /\ Peer(e) \notin objects /\ ~HasPort(e)
  <2>1. SUFFICES ASSUME NEW e \in Ends, e[1] = w
                 PROVE  /\ counts[e] = 0 /\ posted[e] = 0 /\ taken[e] = 0 /\ queue[e] = <<>>
                        /\ e \notin objects /\ Peer(e) \notin objects /\ ~HasPort(e)
    OBVIOUS
  <2>2. Peer(e) \in Ends /\ Peer(e)[1] = w
    BY <2>1, EndFacts DEF WorkerInv
  <2>3. LifeOf(e) /\ LifeOf(Peer(e)) /\ RefsOf(e) /\ MessagesOf(e)
    BY <2>2 DEF WorkerInv, Lives, Counted, Ordered
  <2>4. e \notin objects /\ Peer(e) \notin objects /\ ~HasPort(e)
    BY <1>1, <2>1, <2>2, <2>3 DEF LifeOf
  <2>5. counts[e] = 0
    BY <1>1, <2>1, <2>3, <2>4 DEF RefsOf, ObjectRefs, OneIf
  <2> QED BY <1>1, <2>1, <2>3, <2>4, <2>5 DEF MessagesOf
<1>9. Ordered'
  <2>1. SUFFICES ASSUME NEW e \in Ends PROVE MessagesOf(e)'
    BY DEF Ordered
  <2>2. MessagesOf(e) /\ e[1] \in AllThreads
    BY EndFacts DEF WorkerInv, Ordered, AllThreads
  <2>3. CASE e[1] = w
    <3>1. Len(queue[e]) = 0 /\ DOMAIN queue[e] = {}
      BY <1>8, <2>3
    <3>2. counts[e] = 0 /\ posted[e] = 0 /\ taken[e] = 0 /\ queue[e] = <<>>
      BY <1>8, <2>3
    <3>3. MaxSent \in Nat
      BY DEF WorkerInv, WorkersAssumption
    <3> QED BY <1>3, <3>1, <3>2, <3>3 DEF MessagesOf
  <2>4. CASE e[1] # w
    <3>1. counts'[e] = counts[e] /\ thread'[e[1]] = thread[e[1]]
      BY <1>2, <1>3, <2>2, <2>4
    <3> QED BY <1>3, <2>2, <3>1 DEF MessagesOf
  <2> QED BY <2>3, <2>4
<1>10. Counted'
  <2>1. SUFFICES ASSUME NEW e \in Ends PROVE RefsOf(e)'
    BY DEF Counted
  <2>2. /\ RefsOf(e) /\ e[1] \in AllThreads /\ Peer(e) \in Ends /\ Peer(e)[1] = e[1]
        /\ \A f \in Ends : f[1] = e[1] => f \in {e, Peer(e)}
        /\ Peer(e) # e
    BY EndFacts DEF WorkerInv, Counted, AllThreads
  <2>3. HasPort(e)' <=> HasPort(e)
    BY <1>3 DEF HasPort
  <2>4. CASE e[1] = w
    <3>1. ~HasPort(e) /\ e \notin objects /\ Peer(e) \notin objects /\ counts[e] = 0
      BY <1>8, <2>4
    <3>2. CASE thread'[w] = "done"
      BY <1>3, <2>3, <2>4, <3>1, <3>2 DEF RefsOf, ObjectRefs, OneIf
    <3>3. CASE thread'[w] = "start"
      <4>1. \/ e \in objects' /\ Peer(e) \notin objects'
            \/ e \notin objects' /\ Peer(e) \in objects'
        BY <1>3, <1>4, <2>2, <2>4, <3>1, <3>3
      <4>2. counts'[e] = 2
        BY <1>3, <2>4, <3>3
      <4> QED BY <2>3, <2>4, <3>1, <3>3, <4>1, <4>2 DEF RefsOf, ObjectRefs, OneIf
    <3> QED BY <1>2, <3>2, <3>3
  <2>5. CASE e[1] # w
    <3>1. counts'[e] = counts[e] /\ thread'[e[1]] = thread[e[1]]
      BY <1>2, <1>3, <2>2, <2>5
    <3>2. (e \in objects' <=> e \in objects) /\ (Peer(e) \in objects' <=> Peer(e) \in objects)
      BY <1>3, <2>2, <2>5
    <3> QED BY <2>2, <2>3, <3>1, <3>2 DEF RefsOf, ObjectRefs, OneIf
  <2> QED BY <2>4, <2>5
<1>11. Lives'
  <2>1. SUFFICES ASSUME NEW e \in Ends PROVE LifeOf(e)'
    BY DEF Lives
  <2>2. LifeOf(e) /\ e[1] \in AllThreads
    BY EndFacts DEF WorkerInv, Lives, AllThreads
  <2>3. HasPort(e)' <=> HasPort(e)
    BY <1>3 DEF HasPort
  <2>4. CASE e[1] = w
    BY <1>1, <1>3, <1>8, <2>3, <2>4 DEF LifeOf
  <2>5. CASE e[1] # w
    <3>1. thread'[e[1]] = thread[e[1]] /\ (e \in objects' <=> e \in objects)
      BY <1>2, <1>3, <2>2, <2>5
    <3> QED BY <2>2, <2>3, <3>1 DEF LifeOf
  <2> QED BY <2>4, <2>5
<1>12. Listed'
  <2>1. SUFFICES ASSUME NEW t \in AllThreads PROVE PortsOf(t)'
    BY DEF Listed
  <2>2. PortsOf(t) /\ ports'[t] = ports[t]
    BY <1>3 DEF WorkerInv, Listed
  <2>3. CASE t # w
    BY <1>2, <2>2, <2>3 DEF PortsOf
  <2>4. CASE t = w
    <3>1. \A e \in EndsOf(w) : ~HasPort(e) /\ ThreadOf(e) = w
      BY <1>1, <1>8, EndFacts DEF EndsOf, WorkerInv
    <3>2. ToSet(ports[w]) = {}
      BY <2>2, <2>4, <3>1 DEF HasPort, PortsOf
    <3>3. ports[w] \in Seq(Ends)
      BY <1>1 DEF WorkerInv, Types
    <3>4. ports[w] = <<>>
      BY <3>2, <3>3, NothingListed
    <3> QED BY <2>2, <2>4, <3>4 DEF PortsOf
  <2> QED BY <2>3, <2>4
<1>13. Shared'
  <2>1. \A s \in Sabs : w \notin InHand(s)' /\ w \notin InHand(s)
    BY <1>1, <1>2, <1>5, InHandChange
  <2> QED BY <1>1, <1>2, <1>3, <1>5, <2>1, SharedKept
<1> QED BY <1>5, <1>6, <1>7, <1>9, <1>10, <1>11, <1>12, <1>13 DEF WorkerInv

\* A pipe is not freed while an end of it has a Worker object.
LEMMA PipeLives ==
    ASSUME WorkerInv, NEW e \in Ends, e \in objects
    PROVE  counts[e] > 0 /\ counts[Peer(e)] > 0
<1>1. Peer(e) \in Ends /\ Peer(Peer(e)) = e
  BY EndFacts DEF WorkerInv
<1>2. RefsOf(e) /\ RefsOf(Peer(e))
  BY <1>1 DEF WorkerInv, Counted
<1> QED BY <1>1, <1>2 DEF RefsOf, ObjectRefs, OneIf

LEMMA StartKeeps == ASSUME WorkerInv, NEW w \in Workers, Start(w) PROVE WorkerInv'
<1>1. w \in AllThreads /\ thread[w] = "start" /\ thread'[w] = "run"
      /\ \A u \in AllThreads \ {w} : thread'[u] = thread[u]
  BY DEF Start, Goto, AllThreads, WorkerInv, Types
<1>2. /\ UNCHANGED <<arg, wanted, ports, queue, waker, lock, sabRefs, held, posted, taken>>
      /\ objects' = objects \cup {<<w, "worker">>}
      /\ counts' = [e \in Ends |-> IF e[1] = w THEN counts[e] + 1 ELSE counts[e]]
  BY DEF Start, history
<1>3. Others(w)
  BY <1>1, <1>2 DEF Others
<1>4. <<w, "worker">> \in Ends /\ <<w, "worker">> \notin objects
  BY <1>1 DEF Ends, WorkerInv, Lives, LifeOf
<1>5. Types'
  <2>1. thread' \in [AllThreads -> Points]
    BY <1>1 DEF Start, Goto, WorkerInv, Types, Points
  <2>2. counts' \in [Ends -> Int]
    BY <1>2 DEF WorkerInv, Types
  <2> QED BY <1>2, <1>4, <2>1, <2>2 DEF WorkerInv, Types
<1>6. Carried'
  BY <1>1, <1>2, <1>3, CarriedKept DEF CarriedBy
<1>7. Locked'
  BY <1>1, <1>2, <1>3, LockedKept
<1>8. \A e \in Ends : e[1] = w => counts[e] > 0
  BY <1>1 DEF WorkerInv, Counted, RefsOf, ObjectRefs, OneIf
<1>9. Ordered'
  <2>1. \A e \in Ends : counts'[e] = counts[e] \/ (counts'[e] > 0 /\ counts[e] > 0)
    BY <1>2, <1>8 DEF WorkerInv, Types
  <2>2. \A u \in Workers : thread'[u] = "none" => thread[u] = "none"
    BY <1>1 DEF AllThreads
  <2> QED BY <1>2, <2>1, <2>2, OrderedKept
<1>10. Counted'
  <2>1. SUFFICES ASSUME NEW e \in Ends PROVE RefsOf(e)'
    BY DEF Counted
  <2>2. /\ RefsOf(e) /\ e[1] \in AllThreads /\ Peer(e) \in Ends /\ Peer(e)[1] = e[1]
        /\ \A f \in Ends : f[1] = e[1] => f \in {e, Peer(e)}
        /\ Peer(e) # e
    BY EndFacts DEF WorkerInv, Counted, AllThreads
  <2>3. HasPort(e)' <=> HasPort(e)
    BY <1>2 DEF HasPort
  <2>4. CASE e[1] = w
    <3>1. counts'[e] = counts[e] + 1
      BY <1>2, <2>4
    <3>2. \/ <<w, "worker">> = e
          \/ <<w, "worker">> = Peer(e)
      BY <1>4, <2>2, <2>4
    <3>3. ObjectRefs(objects', e) = ObjectRefs(objects, e) + 1
      BY <1>2, <1>4, <2>2, <3>2 DEF ObjectRefs, OneIf
    <3>4. ObjectRefs(objects, e) \in Int
      BY DEF ObjectRefs, OneIf
    <3> HIDE DEF ObjectRefs
    <3> QED BY <1>1, <2>2, <2>3, <2>4, <3>1, <3>3, <3>4 DEF RefsOf, OneIf
  <2>5. CASE e[1] # w
    <3>1. counts'[e] = counts[e] /\ thread'[e[1]] = thread[e[1]]
      BY <1>1, <1>2, <2>2, <2>5
    <3>2. (e \in objects' <=> e \in objects) /\ (Peer(e) \in objects' <=> Peer(e) \in objects)
      BY <1>2, <2>2, <2>5
    <3> QED BY <2>2, <2>3, <3>1, <3>2 DEF RefsOf, ObjectRefs, OneIf
  <2> QED BY <2>4, <2>5
<1>11. Lives'
  <2>1. SUFFICES ASSUME NEW e \in Ends PROVE LifeOf(e)'
    BY DEF Lives
  <2>2. LifeOf(e) /\ e[1] \in AllThreads
    BY EndFacts DEF WorkerInv, Lives, AllThreads
  <2>3. HasPort(e)' <=> HasPort(e)
    BY <1>2 DEF HasPort
  <2>4. CASE e[1] = w
    BY <1>1, <1>2, <2>2, <2>3, <2>4 DEF LifeOf
  <2>5. CASE e[1] # w
    <3>1. thread'[e[1]] = thread[e[1]] /\ (e \in objects' <=> e \in objects)
      BY <1>1, <1>2, <2>2, <2>5
    <3> QED BY <2>2, <2>3, <3>1 DEF LifeOf
  <2> QED BY <2>4, <2>5
<1>12. Listed'
  BY <1>1, <1>2, ListedKept
<1>13. Shared'
  <2>1. \A s \in Sabs : w \notin InHand(s)' /\ w \notin InHand(s)
    BY <1>1, <1>3, <1>5, InHandChange
  <2> QED BY <1>1, <1>2, <1>3, <1>5, <2>1, SharedKept
<1> QED BY <1>5, <1>6, <1>7, <1>9, <1>10, <1>11, <1>12, <1>13 DEF WorkerInv

-----------------------------------------------------------------------------
(***************************************************************************)
(* postMessage                                                             *)
(***************************************************************************)

LEMMA PostKeeps ==
    ASSUME WorkerInv, NEW e \in Ends, NEW sabs \in SUBSET Sabs, Post(e, sabs)
    PROVE  WorkerInv'
<1> DEFINE t == ThreadOf(e)
           m == [id |-> posted[Peer(e)] + 1, sabs |-> sabs]
<1>1. t \in AllThreads /\ Peer(e) \in Ends
  BY EndFacts DEF WorkerInv
<1>2. /\ thread[t] = "run" /\ thread'[t] = "lock"
      /\ arg' = [arg EXCEPT ![t] = <<e, m>>] /\ arg'[t] = <<e, m>>
      /\ \A u \in AllThreads \ {t} : thread'[u] = thread[u] /\ arg'[u] = arg[u]
      /\ e \in objects /\ posted[Peer(e)] < MaxSent
      /\ sabRefs' = [s \in Sabs |-> IF s \in sabs THEN sabRefs[s] + 1 ELSE sabRefs[s]]
      /\ UNCHANGED <<objects, wanted, ports, counts, queue, waker, lock, held, posted, taken>>
  BY <1>1 DEF Post, Running, Goto, pipes, history, WorkerInv, Types
<1>3. m \in Message
  <2>1. posted[Peer(e)] \in Nat /\ MaxSent \in Nat
    BY <1>1 DEF WorkerInv, Types, WorkersAssumption
  <2> QED BY <1>2, <2>1 DEF Message
<1>4. thread' \in [AllThreads -> Points]
  BY <1>1 DEF Post, Goto, WorkerInv, Types, Points
<1> HIDE DEF t, m
<1>5. Others(t)
  BY <1>2 DEF Others
<1>6. Types'
  <2>1. arg' \in [AllThreads -> {NoArg} \cup (Ends \X (Message \cup {NoArg}))]
    BY <1>1, <1>2, <1>3 DEF WorkerInv, Types
  <2>2. sabRefs' \in [Sabs -> Int]
    BY <1>2 DEF WorkerInv, Types
  <2> QED BY <1>2, <1>4, <2>1, <2>2 DEF WorkerInv, Types
<1>7. Carried'
  <2>1. CarriedBy(t)'
    <3>1. arg'[t][1] = e /\ arg'[t][2] = m /\ m.id = posted[Peer(e)] + 1 /\ e \in EndsOf(t)
      BY <1>2 DEF m, t, EndsOf
    <3>2. arg'[t] \in EndsOf(t) \X Message
      BY <1>2, <1>3, <3>1
    <3> QED BY <1>2, <3>1, <3>2 DEF CarriedBy
  <2> QED BY <1>1, <1>2, <1>5, <2>1, CarriedKept
<1>8. Locked'
  BY <1>1, <1>2, <1>5, LockedKept
<1>9. \A u \in Workers : u \in AllThreads
  BY DEF AllThreads
<1>10. Ordered'
  BY <1>2, <1>9, OrderedKept
<1>11. Counted'
  BY <1>2, <1>9, CountedKept
<1>12. Lives'
  BY <1>2, <1>9, LivesKept
<1>13. Listed'
  BY <1>2, ListedKept
<1>14. Shared'
  <2>1. SUFFICES ASSUME NEW s \in Sabs PROVE SabOf(s)'
    BY DEF Shared
  <2>2. Queued(s)' = Queued(s) /\ Buffers(s)' = Buffers(s)
    BY <1>2 DEF Queued, Buffers
  <2>3. t \notin InHand(s) /\ (t \in InHand(s)' <=> s \in sabs)
    BY <1>1, <1>2, <1>5, <1>6, InHandChange DEF m
  <2>4. SabOf(s) /\ sabRefs[s] \in Int /\ sabRefs'[s] = IF s \in sabs THEN sabRefs[s] + 1 ELSE sabRefs[s]
    BY <1>2 DEF WorkerInv, Shared, Types
  <2>5. /\ IsFiniteSet(InHand(s))
        /\ Cardinality(InHand(s)) \in Nat /\ Cardinality(Queued(s)) \in Nat
        /\ Cardinality(Buffers(s)) \in Nat
    BY FiniteUsers, FS_CardinalityType
  <2>6. CASE s \in sabs
    <3>1. InHand(s)' = InHand(s) \cup {t}
      BY <1>1, <1>5, <1>6, <2>3, <2>6, InHandChange
    <3>2. Cardinality(InHand(s) \cup {t}) = Cardinality(InHand(s)) + 1
      BY <2>3, <2>5, FS_AddElement
    <3> QED BY <2>2, <2>4, <2>5, <2>6, <3>1, <3>2 DEF SabOf
  <2>7. CASE s \notin sabs
    <3>1. InHand(s)' = InHand(s) \ {t}
      BY <1>1, <1>5, <1>6, <2>3, <2>7, InHandChange
    <3>2. InHand(s)' = InHand(s)
      BY <2>3, <3>1
    <3> QED BY <2>2, <2>4, <2>7, <3>2 DEF SabOf
  <2> QED BY <2>6, <2>7
<1> QED BY <1>6, <1>7, <1>8, <1>10, <1>11, <1>12, <1>13, <1>14 DEF WorkerInv

LEMMA PostLockKeeps == ASSUME WorkerInv, NEW t \in AllThreads, PostLock(t) PROVE WorkerInv'
<1> DEFINE p == Peer(arg[t][1])
<1>1. /\ thread[t] = "lock" /\ thread'[t] = "append"
      /\ \A u \in AllThreads \ {t} : thread'[u] = thread[u]
      /\ lock[p] = Nobody /\ lock' = [lock EXCEPT ![p] = t]
      /\ waker' = [waker EXCEPT ![p] = IF queue[p] = <<>> THEN @ + 1 ELSE @]
      /\ UNCHANGED <<arg, objects, wanted, ports, counts, queue, sabRefs, held, posted, taken>>
  BY DEF PostLock, Goto, history, WorkerInv, Types
<1>2. Others(t)
  BY <1>1 DEF Others
<1>3. CarriedBy(t)
  BY DEF WorkerInv, Carried
<1>4. arg[t][1] \in Ends /\ p \in Ends
  <2>1. arg[t][1] \in EndsOf(t)
    BY <1>1, <1>3 DEF CarriedBy
  <2> QED BY <2>1, EndFacts DEF EndsOf, WorkerInv
<1>5. t # Nobody
  BY DEF AllThreads, WorkerInv, WorkersAssumption
<1>6. thread' \in [AllThreads -> Points]
  BY DEF PostLock, Goto, WorkerInv, Types, Points
<1>7. Types'
  <2>1. lock' \in [Ends -> AllThreads \cup {Nobody}] /\ waker' \in [Ends -> Int]
    BY <1>1, <1>4 DEF WorkerInv, Types
  <2> QED BY <1>1, <1>6, <2>1 DEF WorkerInv, Types
<1>8. Carried'
  <2>1. CarriedBy(t)'
    BY <1>1, <1>3 DEF CarriedBy
  <2> QED BY <1>1, <1>2, <2>1, CarriedKept
<1>9. Locked'
  <2>1. SUFFICES ASSUME NEW e \in Ends PROVE LockOf(e)'
    BY DEF Locked
  <2>2. LockOf(e) /\ lock \in [Ends -> AllThreads \cup {Nobody}] /\ waker \in [Ends -> Int]
    BY DEF WorkerInv, Locked, Types
  <2>3. CASE e = p
    <3>1. lock'[e] = t /\ lock[e] = Nobody
      BY <1>1, <1>4, <2>2, <2>3
    <3>2. waker'[e] = 1
      <4>1. waker[e] = OneIf(queue[e] # <<>>)
        BY <2>2, <3>1 DEF LockOf
      <4>2. waker'[e] = IF queue[e] = <<>> THEN waker[e] + 1 ELSE waker[e]
        BY <1>1, <1>4, <2>2, <2>3
      <4> QED BY <4>1, <4>2 DEF OneIf
    <3>3. \A u \in AllThreads : u # Nobody
      BY DEF AllThreads, WorkerInv, WorkersAssumption
    <3>4. \A u \in AllThreads \ {t} : ~(thread'[u] = "append" /\ Peer(arg'[u][1]) = e)
      BY <1>1, <2>2, <3>1, <3>3 DEF LockOf
    <3>5. thread'[t] = "append" /\ Peer(arg'[t][1]) = e
      BY <1>1, <2>3
    <3> QED BY <1>5, <3>1, <3>2, <3>4, <3>5 DEF LockOf
  <2>4. CASE e # p
    <3>1. lock'[e] = lock[e] /\ waker'[e] = waker[e] /\ queue'[e] = queue[e]
      BY <1>1, <2>2, <2>4
    <3>2. lock[e] # t /\ Peer(arg'[t][1]) # e
      BY <1>1, <2>2, <2>4 DEF LockOf
    <3> QED BY <1>1, <2>2, <3>1, <3>2 DEF LockOf
  <2> QED BY <2>3, <2>4
<1>10. \A u \in Workers : u \in AllThreads
  BY DEF AllThreads
<1>11. Ordered'
  BY <1>1, <1>10, OrderedKept
<1>12. Counted'
  BY <1>1, <1>10, CountedKept
<1>13. Lives'
  BY <1>1, <1>10, LivesKept
<1>14. Listed'
  BY <1>1, ListedKept
<1>15. Shared'
  <2>1. \A s \in Sabs : t \in InHand(s)' <=> t \in InHand(s)
    BY <1>1, <1>2, <1>7, InHandChange
  <2> QED BY <1>1, <1>2, <1>7, <2>1, SharedKept
<1> QED BY <1>7, <1>8, <1>9, <1>11, <1>12, <1>13, <1>14, <1>15 DEF WorkerInv

LEMMA PostAppendKeeps == ASSUME WorkerInv, NEW t \in AllThreads, PostAppend(t) PROVE WorkerInv'
<1> DEFINE e == arg[t][1]
           p == Peer(e)
           m == arg[t][2]
<1>1. /\ thread[t] = "append" /\ thread'[t] = "run"
      /\ arg' = [arg EXCEPT ![t] = NoArg]
      /\ \A u \in AllThreads \ {t} : thread'[u] = thread[u] /\ arg'[u] = arg[u]
      /\ queue' = [queue EXCEPT ![p] = Append(@, m)]
      /\ lock' = [lock EXCEPT ![p] = Nobody]
      /\ posted' = [posted EXCEPT ![p] = @ + 1]
      /\ UNCHANGED <<objects, wanted, ports, counts, waker, sabRefs, held, taken>>
  BY DEF PostAppend, Goto, WorkerInv, Types
<1>2. Others(t)
  BY <1>1 DEF Others
<1>3. e \in EndsOf(t) /\ m \in Message /\ e \in objects /\ m.id = posted[p] + 1
  BY <1>1 DEF WorkerInv, Carried, CarriedBy
<1>4. e \in Ends /\ p \in Ends /\ Peer(p) = e /\ ThreadOf(e) = t /\ p[1] = e[1]
  BY <1>3, EndFacts DEF EndsOf, WorkerInv
<1>5. thread' \in [AllThreads -> Points]
  BY DEF PostAppend, Goto, WorkerInv, Types, Points
<1> HIDE DEF e, p, m
<1>6. Types'
  <2>1. queue' \in [Ends -> Seq(Message)]
    <3>1. queue \in [Ends -> Seq(Message)]
      BY DEF WorkerInv, Types
    <3>2. Append(queue[p], m) \in Seq(Message)
      BY <1>3, <1>4, <3>1, AppendProperties
    <3> QED BY <1>1, <3>1, <3>2
  <2>2. lock' \in [Ends -> AllThreads \cup {Nobody}] /\ posted' \in [Ends -> Nat]
    BY <1>1, <1>4 DEF WorkerInv, Types
  <2>3. arg' \in [AllThreads -> {NoArg} \cup (Ends \X (Message \cup {NoArg}))]
    BY <1>1 DEF WorkerInv, Types
  <2> QED BY <1>1, <1>5, <2>1, <2>2, <2>3 DEF WorkerInv, Types
<1>7. Carried'
  <2>1. CarriedBy(t)'
    BY <1>1 DEF CarriedBy
  <2>2. \A f \in Ends : ThreadOf(Peer(f)) = t \/ posted'[f] = posted[f]
    BY <1>1, <1>4 DEF WorkerInv, Types
  <2> QED BY <1>1, <1>2, <2>1, <2>2, CarriedKept
<1>8. /\ posted[p] = taken[p] + Len(queue[p]) /\ counts[p] > 0 /\ thread[p[1]] # "none"
      /\ posted[p] \in Nat /\ taken[p] \in Nat /\ MaxSent \in Nat /\ posted[p] + 1 <= MaxSent
  <2>1. counts[p] > 0 /\ thread[e[1]] # "none"
    BY <1>3, <1>4, PipeLives DEF WorkerInv, Lives, LifeOf, p
  <2>2. posted[p] = taken[p] + Len(queue[p])
    BY <1>4, <2>1 DEF WorkerInv, Ordered, MessagesOf
  <2>3. m.id <= MaxSent /\ MaxSent \in Nat
    BY <1>3 DEF Message, WorkerInv, WorkersAssumption
  <2> QED BY <1>3, <1>4, <2>1, <2>2, <2>3 DEF WorkerInv, Types
<1>9. /\ queue[p] \in Seq(Message) /\ Len(queue[p]) \in Nat /\ queue'[p] = Append(queue[p], m)
      /\ queue'[p] # <<>> /\ Len(queue'[p]) = Len(queue[p]) + 1
      /\ DOMAIN queue'[p] = 1..Len(queue[p])+1 /\ DOMAIN queue[p] = 1..Len(queue[p])
      /\ \A i \in 1..Len(queue[p]) : queue'[p][i] = queue[p][i]
      /\ queue'[p][Len(queue[p]) + 1] = m
  <2>1. queue[p] \in Seq(Message) /\ queue'[p] = Append(queue[p], m)
    BY <1>1, <1>4 DEF WorkerInv, Types
  <2> QED BY <1>3, <2>1, AppendProperties, LenProperties
<1>10. Locked'
  <2>1. SUFFICES ASSUME NEW f \in Ends PROVE LockOf(f)'
    BY DEF Locked
  <2>2. LockOf(f) /\ lock \in [Ends -> AllThreads \cup {Nobody}] /\ queue \in [Ends -> Seq(Message)]
    BY DEF WorkerInv, Locked, Types
  <2>3. \A u \in AllThreads : u # Nobody
    BY DEF AllThreads, WorkerInv, WorkersAssumption
  <2>4. CASE f = p
    <3>1. lock'[f] = Nobody /\ lock[f] = t
      BY <1>1, <2>2, <2>4 DEF LockOf, p, e
    <3>2. waker'[f] = 1
      BY <1>1, <2>2, <2>3, <3>1 DEF LockOf
    <3>3. \A u \in AllThreads : ~(thread'[u] = "append" /\ Peer(arg'[u][1]) = f)
      BY <1>1, <2>2, <3>1 DEF LockOf
    <3> QED BY <1>9, <2>3, <2>4, <3>1, <3>2, <3>3 DEF LockOf, OneIf
  <2>5. CASE f # p
    <3>1. lock'[f] = lock[f] /\ waker'[f] = waker[f] /\ queue'[f] = queue[f]
      BY <1>1, <2>2, <2>5
    <3>2. lock[f] # t /\ thread'[t] # "append"
      BY <1>1, <2>2, <2>5 DEF LockOf, p, e
    <3> QED BY <1>1, <2>2, <3>1, <3>2 DEF LockOf
  <2> QED BY <2>4, <2>5
<1>11. Ordered'
  <2>1. SUFFICES ASSUME NEW f \in Ends PROVE MessagesOf(f)'
    BY DEF Ordered
  <2>2. MessagesOf(f) /\ f[1] \in AllThreads
    BY EndFacts DEF WorkerInv, Ordered, AllThreads
  <2>3. CASE f = p
    <3>1. posted'[f] = posted[p] + 1 /\ taken'[f] = taken[p] /\ counts'[f] > 0
      BY <1>1, <1>4, <1>8, <2>3 DEF WorkerInv, Types
    <3>2. posted'[f] <= MaxSent /\ posted'[f] = taken'[f] + Len(queue'[f])
      BY <1>8, <1>9, <2>3, <3>1
    <3>3. \A i \in DOMAIN queue'[f] : queue'[f][i].id = taken'[f] + i
      <4>1. \A i \in 1..Len(queue[p]) : queue[p][i].id = taken[p] + i
        BY <1>9, <2>2, <2>3 DEF MessagesOf
      <4>2. m.id = taken[p] + (Len(queue[p]) + 1)
        BY <1>3, <1>8, <1>9
      <4>3. \A i \in DOMAIN queue'[p] : i \in 1..Len(queue[p]) \/ i = Len(queue[p]) + 1
        BY <1>9
      <4> QED BY <1>9, <2>3, <3>1, <4>1, <4>2, <4>3
    <3>4. thread'[f[1]] # "none"
      BY <1>1, <1>8, <2>2, <2>3
    <3>5. Len(queue'[f]) \in Nat /\ taken'[f] \in Nat
      BY <1>8, <1>9, <2>3, <3>1
    <3> QED BY <3>1, <3>2, <3>3, <3>4, <3>5 DEF MessagesOf
  <2>4. CASE f # p
    <3>1. posted'[f] = posted[f] /\ queue'[f] = queue[f] /\ taken'[f] = taken[f] /\ counts'[f] = counts[f]
      BY <1>1, <2>4 DEF WorkerInv, Types
    <3>2. thread'[f[1]] = "none" => thread[f[1]] = "none"
      BY <1>1, <2>2
    <3> QED BY <2>2, <3>1, <3>2 DEF MessagesOf
  <2> QED BY <2>3, <2>4
<1>12. \A u \in Workers : u \in AllThreads
  BY DEF AllThreads
<1>13. Counted'
  BY <1>1, <1>12, CountedKept
<1>14. Lives'
  BY <1>1, <1>12, LivesKept
<1>15. Listed'
  BY <1>1, ListedKept
<1>16. Shared'
  <2>1. SUFFICES ASSUME NEW s \in Sabs PROVE SabOf(s)'
    BY DEF Shared
  <2>2. Buffers(s)' = Buffers(s) /\ sabRefs'[s] = sabRefs[s]
    BY <1>1 DEF Buffers
  <2>3. (t \in InHand(s) <=> s \in m.sabs) /\ t \notin InHand(s)'
    BY <1>1, <1>2, <1>6, InHandChange DEF m
  <2>4. InHand(s)' = InHand(s) \ {t}
    BY <1>2, <1>6, <2>3, InHandChange
  <2>5. /\ Queued(s)' = Queued(s) \cup (IF s \in m.sabs THEN {<<p, m.id>>} ELSE {})
        /\ <<p, m.id>> \notin Queued(s)
    <3>1. m.id = taken[p] + Len(queue[p]) + 1
      BY <1>3, <1>8
    <3> QED BY <1>1, <1>3, <1>4, <1>6, <3>1, QueuedAppend
  <2>6. SabOf(s)
    BY DEF WorkerInv, Shared
  <2>7. /\ IsFiniteSet(InHand(s)) /\ IsFiniteSet(Queued(s))
        /\ Cardinality(InHand(s)) \in Nat /\ Cardinality(Queued(s)) \in Nat
        /\ Cardinality(Buffers(s)) \in Nat
    BY FiniteUsers, FS_CardinalityType
  <2>8. CASE s \in m.sabs
    <3>1. Cardinality(Queued(s) \cup {<<p, m.id>>}) = Cardinality(Queued(s)) + 1
      BY <2>5, <2>7, FS_AddElement
    <3>2. Cardinality(InHand(s) \ {t}) = Cardinality(InHand(s)) - 1
      BY <2>3, <2>7, <2>8, FS_RemoveElement
    <3> QED BY <2>2, <2>4, <2>5, <2>6, <2>7, <2>8, <3>1, <3>2 DEF SabOf
  <2>9. CASE s \notin m.sabs
    <3>1. Queued(s)' = Queued(s) /\ InHand(s)' = InHand(s)
      BY <2>3, <2>4, <2>5, <2>9
    <3> QED BY <2>2, <2>6, <3>1 DEF SabOf
  <2> QED BY <2>8, <2>9
<1> QED BY <1>6, <1>7, <1>10, <1>11, <1>13, <1>14, <1>15, <1>16 DEF WorkerInv

-----------------------------------------------------------------------------
(***************************************************************************)
(* onmessage                                                               *)
(***************************************************************************)

\* A script that changes ports and references of its own.
LEMMA ScriptKeeps ==
    ASSUME WorkerInv, NEW t \in AllThreads, thread[t] = "run", Types',
           UNCHANGED <<thread, arg, lock, posted, taken>>,
           \A e \in objects : ThreadOf(e) = t \/ e \in objects',
           \A u \in AllThreads \ {t} : ports'[u] = ports[u]
    PROVE  /\ Carried'
           /\ UNCHANGED <<waker, queue>> => Locked'
           /\ \A s : InHand(s)' = InHand(s)
<1>1. Others(t)
  BY DEF Others
<1>2. CarriedBy(t)'
  BY DEF CarriedBy
<1>3. Carried'
  BY <1>1, <1>2, CarriedKept
<1>4. UNCHANGED <<waker, queue>> => Locked'
  BY <1>1, LockedKept
<1>5. \A s : InHand(s)' = InHand(s)
  BY DEF InHand
<1> QED BY <1>3, <1>4, <1>5

LEMMA SetOnMessageKeeps == ASSUME WorkerInv, NEW e \in Ends, SetOnMessage(e) PROVE WorkerInv'
<1> DEFINE t == ThreadOf(e)
<1>1. t \in AllThreads /\ e \in EndsOf(t) /\ e[1] \in Workers
  BY EndFacts DEF WorkerInv, EndsOf
<1>2. /\ thread[t] = "run" /\ e \in objects
      /\ wanted' = wanted \cup {e}
      /\ UNCHANGED <<thread, arg, objects, queue, waker, lock, sabRefs, held, posted, taken>>
      /\ \/ HasPort(e) /\ UNCHANGED <<ports, counts>>
         \/ /\ ~HasPort(e)
            /\ ports' = [ports EXCEPT ![t] = Append(@, e)]
            /\ counts' = [counts EXCEPT ![e] = @ + 1]
  BY DEF SetOnMessage, Running, history
<1>3. ports \in [AllThreads -> Seq(Ends)] /\ ports[t] \in Seq(Ends) /\ counts \in [Ends -> Int]
  BY <1>1 DEF WorkerInv, Types
<1>4. ~HasPort(e) => /\ ports'[t] = Append(ports[t], e) /\ ports'[t] \in Seq(Ends)
                     /\ ToSet(ports'[t]) = ToSet(ports[t]) \cup {e}
                     /\ IsInjective(ports[t]) => IsInjective(ports'[t])
                     /\ \A u \in AllThreads \ {t} : ports'[u] = ports[u]
                     /\ ports' \in [AllThreads -> Seq(Ends)]
  <2>1. SUFFICES ASSUME ~HasPort(e)
                 PROVE  /\ ports'[t] = Append(ports[t], e) /\ ports'[t] \in Seq(Ends)
                        /\ ToSet(ports'[t]) = ToSet(ports[t]) \cup {e}
                        /\ IsInjective(ports[t]) => IsInjective(ports'[t])
                        /\ \A u \in AllThreads \ {t} : ports'[u] = ports[u]
                        /\ ports' \in [AllThreads -> Seq(Ends)]
    OBVIOUS
  <2>2. ports' = [ports EXCEPT ![t] = Append(@, e)] /\ e \notin ToSet(ports[t])
    BY <1>2, <2>1 DEF HasPort
  <2>3. /\ Append(ports[t], e) \in Seq(Ends)
        /\ ToSet(Append(ports[t], e)) = ToSet(ports[t]) \cup {e}
        /\ IsInjective(ports[t]) => IsInjective(Append(ports[t], e))
    BY <1>3, <2>2, AppendFacts
  <2> QED BY <1>1, <1>3, <2>2, <2>3
<1>5. \A u \in AllThreads \ {t} : ports'[u] = ports[u]
  BY <1>2, <1>4
<1>6. Types'
  <2>1. ports' \in [AllThreads -> Seq(Ends)] /\ counts' \in [Ends -> Int]
    BY <1>2, <1>3, <1>4
  <2> QED BY <1>2, <2>1 DEF WorkerInv, Types
<1>7. Carried' /\ Locked' /\ \A s : InHand(s)' = InHand(s)
  BY <1>1, <1>2, <1>5, <1>6, ScriptKeeps
<1>8. \A f \in Ends : HasPort(f)' <=> HasPort(f) \/ f = e
  <2>1. SUFFICES ASSUME NEW f \in Ends PROVE HasPort(f)' <=> HasPort(f) \/ f = e
    OBVIOUS
  <2>2. ThreadOf(f) \in AllThreads
    BY EndFacts DEF WorkerInv
  <2>3. CASE HasPort(e)
    BY <1>2, <2>3 DEF HasPort
  <2>4. CASE ~HasPort(e)
    BY <1>1, <1>4, <1>5, <2>2, <2>4 DEF HasPort
  <2> QED BY <2>3, <2>4
<1>9. \A f \in Ends : counts'[f] = IF f = e /\ ~HasPort(e) THEN counts[f] + 1 ELSE counts[f]
  BY <1>2, <1>3
<1>10. Ordered'
  <2>1. counts[e] > 0
    BY <1>2, PipeLives
  <2>2. \A f \in Ends : counts'[f] = counts[f] \/ (counts'[f] > 0 /\ counts[f] > 0)
    BY <1>3, <1>9, <2>1
  <2> QED BY <1>2, <2>2, OrderedKept
<1>11. Counted'
  <2>1. SUFFICES ASSUME NEW f \in Ends PROVE RefsOf(f)'
    BY DEF Counted
  <2>2. RefsOf(f) /\ ObjectRefs(objects, f) \in Int
    BY DEF WorkerInv, Counted, ObjectRefs, OneIf
  <2>3. ObjectRefs(objects', f) = ObjectRefs(objects, f) /\ thread' = thread
    BY <1>2
  <2>4. counts'[f] = counts[f] + OneIf(HasPort(f)') - OneIf(HasPort(f))
    BY <1>3, <1>8, <1>9 DEF OneIf
  <2> QED BY <2>2, <2>3, <2>4 DEF RefsOf, OneIf
<1>12. Lives'
  BY <1>2, <1>8 DEF WorkerInv, Lives, LifeOf
<1>13. Listed'
  <2>1. SUFFICES ASSUME NEW u \in AllThreads PROVE PortsOf(u)'
    BY DEF Listed
  <2>2. PortsOf(u)
    BY DEF WorkerInv, Listed
  <2>3. CASE u # t \/ HasPort(e)
    BY <1>2, <1>5, <2>2, <2>3 DEF PortsOf
  <2>4. CASE u = t /\ ~HasPort(e)
    BY <1>1, <1>2, <1>4, <2>2, <2>4 DEF PortsOf
  <2> QED BY <2>3, <2>4
<1>14. Shared'
  BY <1>2, <1>7 DEF WorkerInv, Shared, SabOf, Queued, Buffers
<1> QED BY <1>6, <1>7, <1>10, <1>11, <1>12, <1>13, <1>14 DEF WorkerInv

\* The port of e leaves the list of its thread.
LEMMA FreePortFacts ==
    ASSUME WorkerInv, NEW e \in Ends, FreePort(e)
    PROVE  /\ ports' \in [AllThreads -> Seq(Ends)]
           /\ \A u \in AllThreads \ {ThreadOf(e)} : ports'[u] = ports[u]
           /\ \A f \in Ends : HasPort(f)' <=> HasPort(f) /\ f # e
           /\ thread' = thread => Listed'
<1> DEFINE t == ThreadOf(e)
<1>1. t \in AllThreads /\ ports \in [AllThreads -> Seq(Ends)] /\ ports[t] \in Seq(Ends)
  BY EndFacts DEF WorkerInv, Types
<1>2. PortsOf(t)
  BY <1>1 DEF WorkerInv, Listed
<1>3. /\ ports' \in [AllThreads -> Seq(Ends)]
      /\ \A u \in AllThreads \ {t} : ports'[u] = ports[u]
      /\ IsInjective(ports'[t]) /\ ToSet(ports'[t]) = ToSet(ports[t]) \ {e}
      /\ ports[t] = <<>> => ports'[t] = <<>>
  <2>1. CASE HasPort(e)
    <3>1. PICK i \in DOMAIN ports[t] :
             ports[t][i] = e /\ ports' = [ports EXCEPT ![t] = RemoveAt(@, i)]
      BY <2>1 DEF FreePort
    <3>2. /\ RemoveAt(ports[t], i) \in Seq(Ends) /\ IsInjective(RemoveAt(ports[t], i))
          /\ ToSet(RemoveAt(ports[t], i)) = ToSet(ports[t]) \ {ports[t][i]}
      BY <1>1, <1>2, <3>1, RemoveFacts DEF PortsOf
    <3>3. ports[t] # <<>>
      BY <3>1
    <3> QED BY <1>1, <3>1, <3>2, <3>3
  <2>2. CASE ~HasPort(e)
    <3>1. ports' = ports /\ e \notin ToSet(ports[t])
      BY <2>2 DEF FreePort, HasPort
    <3> QED BY <1>1, <1>2, <3>1 DEF PortsOf
  <2> QED BY <2>1, <2>2
<1>4. \A f \in Ends : HasPort(f)' <=> HasPort(f) /\ f # e
  <2>1. SUFFICES ASSUME NEW f \in Ends PROVE HasPort(f)' <=> HasPort(f) /\ f # e
    OBVIOUS
  <2>2. ThreadOf(f) \in AllThreads
    BY EndFacts DEF WorkerInv
  <2> QED BY <1>3, <2>2 DEF HasPort
<1>5. ASSUME thread' = thread, NEW u \in AllThreads PROVE PortsOf(u)'
  <2>1. PortsOf(u)
    BY DEF WorkerInv, Listed
  <2>2. CASE u = t
    <3>1. ToSet(ports'[u]) \subseteq EndsOf(u)
      BY <1>3, <2>1, <2>2 DEF PortsOf
    <3> QED BY <1>3, <1>5, <2>1, <2>2, <3>1 DEF PortsOf
  <2>3. CASE u # t
    <3>1. ports'[u] = ports[u]
      BY <1>3, <2>3
    <3> QED BY <1>5, <2>1, <3>1 DEF PortsOf
  <2> QED BY <2>2, <2>3
<1>6. thread' = thread => Listed'
  BY <1>5 DEF Listed
<1> QED BY <1>3, <1>4, <1>6

LEMMA UnsetOnMessageKeeps == ASSUME WorkerInv, NEW e \in Ends, UnsetOnMessage(e) PROVE WorkerInv'
<1> DEFINE t == ThreadOf(e)
<1>1. t \in AllThreads
  BY EndFacts DEF WorkerInv
<1>2. /\ thread[t] = "run" /\ e \in objects
      /\ wanted' = wanted \ {e}
      /\ FreePort(e)
      /\ counts' = [counts EXCEPT ![e] = @ - OneIf(HasPort(e))]
      /\ UNCHANGED <<thread, arg, objects, queue, waker, lock, sabRefs, held, posted, taken>>
  BY DEF UnsetOnMessage, Running, history
<1>3. /\ ports' \in [AllThreads -> Seq(Ends)]
      /\ \A u \in AllThreads \ {t} : ports'[u] = ports[u]
      /\ \A f \in Ends : HasPort(f)' <=> HasPort(f) /\ f # e
      /\ Listed'
  BY <1>2, FreePortFacts
<1>4. counts \in [Ends -> Int] /\ OneIf(HasPort(e)) \in Int
  BY DEF WorkerInv, Types, OneIf
<1>5. \A f \in Ends : counts'[f] = IF f = e THEN counts[f] - OneIf(HasPort(e)) ELSE counts[f]
  BY <1>2, <1>4
<1>6. Types'
  <2>1. counts' \in [Ends -> Int]
    BY <1>2, <1>4
  <2> QED BY <1>2, <1>3, <2>1 DEF WorkerInv, Types
<1>7. Carried' /\ Locked' /\ \A s : InHand(s)' = InHand(s)
  BY <1>1, <1>2, <1>3, <1>6, ScriptKeeps
<1>8. Counted'
  <2>1. SUFFICES ASSUME NEW f \in Ends PROVE RefsOf(f)'
    BY DEF Counted
  <2>2. RefsOf(f) /\ ObjectRefs(objects, f) \in Int
    BY DEF WorkerInv, Counted, ObjectRefs, OneIf
  <2>3. ObjectRefs(objects', f) = ObjectRefs(objects, f) /\ thread' = thread
    BY <1>2
  <2>4. counts'[f] = counts[f] + OneIf(HasPort(f)') - OneIf(HasPort(f))
    <3>1. CASE f = e
      BY <1>3, <1>4, <1>5, <3>1 DEF OneIf
    <3>2. CASE f # e
      BY <1>3, <1>4, <1>5, <3>2 DEF OneIf
    <3> QED BY <3>1, <3>2
  <2> QED BY <2>2, <2>3, <2>4 DEF RefsOf, OneIf
<1>9. Ordered'
  <2>1. counts'[e] > 0
    <3>1. RefsOf(e)'
      BY <1>8 DEF Counted
    <3> QED BY <1>2, <3>1 DEF RefsOf, ObjectRefs, OneIf
  <2>2. counts[e] > 0
    BY <1>2, PipeLives
  <2>3. \A f \in Ends : counts'[f] = counts[f] \/ (counts'[f] > 0 /\ counts[f] > 0)
    BY <1>4, <1>5, <2>1, <2>2
  <2> QED BY <1>2, <2>3, OrderedKept
<1>10. Lives'
  BY <1>2, <1>3 DEF WorkerInv, Lives, LifeOf
<1>11. Shared'
  BY <1>2, <1>7 DEF WorkerInv, Shared, SabOf, Queued, Buffers
<1> QED BY <1>3, <1>6, <1>7, <1>8, <1>9, <1>10, <1>11 DEF WorkerInv

\* A SharedArrayBuffer of a script is collected.
LEMMA DropSabKeeps ==
    ASSUME WorkerInv, NEW t \in AllThreads, NEW s \in Sabs, DropSab(t, s) PROVE WorkerInv'
<1>1. /\ thread[t] = "run" /\ held[t][s] > 0
      /\ held' = [held EXCEPT ![t][s] = @ - 1]
      /\ sabRefs' = [sabRefs EXCEPT ![s] = @ - 1]
      /\ UNCHANGED <<thread, arg, objects, wanted, ports, counts, queue, waker, lock, posted, taken>>
  BY DEF DropSab, Running, pipes, history
<1>2. held \in [AllThreads -> [Sabs -> Nat]] /\ sabRefs \in [Sabs -> Int] /\ held[t][s] \in Nat
  BY DEF WorkerInv, Types
<1>3. held' \in [AllThreads -> [Sabs -> Nat]] /\ sabRefs' \in [Sabs -> Int]
  <2>1. held[t][s] - 1 \in Nat
    BY <1>1, <1>2
  <2> QED BY <1>1, <1>2, <2>1
<1>4. Types'
  BY <1>1, <1>3 DEF WorkerInv, Types
<1>5. Carried' /\ Locked' /\ \A r : InHand(r)' = InHand(r)
  BY <1>1, <1>4, ScriptKeeps
<1>6. Ordered' /\ Counted' /\ Lives' /\ Listed'
  BY <1>1, OrderedKept, CountedKept, LivesKept, ListedKept
<1>7. Shared'
  <2>1. SUFFICES ASSUME NEW r \in Sabs PROVE SabOf(r)'
    BY DEF Shared
  <2>2. SabOf(r) /\ Queued(r)' = Queued(r) /\ InHand(r)' = InHand(r)
    BY <1>1, <1>5 DEF WorkerInv, Shared, Queued
  <2>3. CASE r = s
    <3>1. held[t][s] = held'[t][s] + 1 /\ sabRefs'[s] = sabRefs[s] - 1
          /\ \A u \in AllThreads \ {t} : held'[u][s] = held[u][s]
      BY <1>1, <1>2
    <3>2. Buffers(s)' = Buffers(s) \ {<<t, held[t][s]>>} /\ <<t, held[t][s]>> \in Buffers(s)
      BY <1>4, <3>1, BuffersChange
    <3>3. IsFiniteSet(Buffers(s)) /\ Cardinality(Buffers(s)) \in Nat
          /\ Cardinality(Queued(s)) \in Nat /\ Cardinality(InHand(s)) \in Nat
      BY FiniteUsers, FS_CardinalityType
    <3> DEFINE b == <<t, held[t][s]>>
    <3>4. Cardinality(Buffers(s) \ {b}) = Cardinality(Buffers(s)) - 1
      <4>1. b \in Buffers(s)
        BY <3>2
      <4> HIDE DEF b
      <4> QED BY <3>3, <4>1, FS_RemoveElement
    <3> QED BY <2>2, <2>3, <3>1, <3>2, <3>3, <3>4 DEF SabOf
  <2>4. CASE r # s
    <3>1. \A u \in AllThreads : held'[u][r] = held[u][r]
      BY <1>1, <1>2, <2>4
    <3>2. DOMAIN held = AllThreads /\ DOMAIN held' = AllThreads
      BY <1>2, <1>3
    <3>3. Buffers(r)' = Buffers(r)
      BY <3>1, <3>2 DEF Buffers
    <3>4. sabRefs'[r] = sabRefs[r]
      BY <1>1, <1>2, <2>4
    <3> QED BY <2>2, <3>3, <3>4 DEF SabOf
  <2> QED BY <2>3, <2>4
<1> QED BY <1>4, <1>5, <1>6, <1>7 DEF WorkerInv

-----------------------------------------------------------------------------
(***************************************************************************)
(* Freeing pipes                                                           *)
(***************************************************************************)

\* The messages of freed pipes that have block s.
Lost(released, s) == {m \in Queued(s) : m[1] \in {e \in Ends : counts[e] - released[e] = 0
                                                              /\ released[e] > 0}}

LEMMA FreePipesFacts ==
    ASSUME WorkerInv, NEW released \in [Ends -> Nat], NEW dropped \in [Sabs -> Nat],
           FreePipes(released, dropped)
    PROVE  /\ counts' = [e \in Ends |-> counts[e] - released[e]] /\ counts' \in [Ends -> Int]
           /\ \A e \in Ends : \/ /\ counts'[e] = 0 /\ released[e] > 0
                                 /\ queue'[e] = <<>> /\ waker'[e] = 0
                              \/ /\ counts'[e] # 0 \/ released[e] = 0
                                 /\ queue'[e] = queue[e] /\ waker'[e] = waker[e]
           /\ queue' \in [Ends -> Seq(Message)] /\ waker' \in [Ends -> Int]
           /\ \A s \in Sabs : /\ Cardinality(Lost(released, s)) \in Nat
                              /\ sabRefs'[s] = sabRefs[s] - dropped[s] - Cardinality(Lost(released, s))
           /\ sabRefs' \in [Sabs -> Int]
           /\ lock' = lock
<1> DEFINE left == [e \in Ends |-> counts[e] - released[e]]
           dead == {e \in Ends : left[e] = 0 /\ released[e] > 0}
<1>1. /\ counts' = left
      /\ queue' = [e \in Ends |-> IF e \in dead THEN <<>> ELSE queue[e]]
      /\ waker' = [e \in Ends |-> IF e \in dead THEN 0 ELSE waker[e]]
      /\ sabRefs' = [s \in Sabs |-> sabRefs[s] - dropped[s]
                                    - Cardinality({m \in Queued(s) : m[1] \in dead})]
      /\ lock' = lock
  BY DEF FreePipes
<1>2. /\ counts \in [Ends -> Int] /\ queue \in [Ends -> Seq(Message)]
      /\ waker \in [Ends -> Int] /\ sabRefs \in [Sabs -> Int]
  BY DEF WorkerInv, Types
<1>3. left \in [Ends -> Int]
  BY <1>2
<1>4. ASSUME NEW s \in Sabs
      PROVE  /\ Lost(released, s) = {m \in Queued(s) : m[1] \in dead}
             /\ Cardinality(Lost(released, s)) \in Nat
  <2>1. Lost(released, s) = {m \in Queued(s) : m[1] \in dead}
    BY DEF Lost
  <2>2. Lost(released, s) \subseteq Queued(s)
    BY DEF Lost
  <2>3. IsFiniteSet(Lost(released, s))
    BY <2>2, FiniteUsers, FS_Subset
  <2>4. Cardinality(Lost(released, s)) \in Nat
    BY <2>3, FS_CardinalityType
  <2> QED BY <2>1, <2>4
<1>5. \A s \in Sabs : /\ Cardinality(Lost(released, s)) \in Nat
                      /\ sabRefs'[s] = sabRefs[s] - dropped[s] - Cardinality(Lost(released, s))
  <2> HIDE DEF dead
  <2> QED BY <1>1, <1>4
<1>6. sabRefs' \in [Sabs -> Int]
  <2>1. \A s \in Sabs : sabRefs'[s] \in Int
    BY <1>2, <1>5
  <2>2. sabRefs' = [s \in Sabs |-> sabRefs'[s]]
    BY <1>1
  <2> QED BY <2>1, <2>2
<1>7. \A e \in Ends : e \in dead <=> counts'[e] = 0 /\ released[e] > 0
  BY <1>1
<1>8. queue' \in [Ends -> Seq(Message)] /\ waker' \in [Ends -> Int]
  <2> HIDE DEF dead
  <2> QED BY <1>1, <1>2, EmptySeq
<1>9. \A e \in Ends : \/ /\ counts'[e] = 0 /\ released[e] > 0
                         /\ queue'[e] = <<>> /\ waker'[e] = 0
                      \/ /\ counts'[e] # 0 \/ released[e] = 0
                         /\ queue'[e] = queue[e] /\ waker'[e] = waker[e]
  <2> HIDE DEF dead, left
  <2>1. SUFFICES ASSUME NEW e \in Ends
                 PROVE  \/ /\ counts'[e] = 0 /\ released[e] > 0
                           /\ queue'[e] = <<>> /\ waker'[e] = 0
                        \/ /\ counts'[e] # 0 \/ released[e] = 0
                           /\ queue'[e] = queue[e] /\ waker'[e] = waker[e]
    OBVIOUS
  <2>2. CASE e \in dead
    BY <1>1, <1>7, <2>2
  <2>3. CASE e \notin dead
    <3>1. released[e] \in Nat
      OBVIOUS
    <3> QED BY <1>1, <1>7, <2>3, <3>1
  <2> QED BY <2>2, <2>3
<1> QED BY <1>1, <1>3, <1>5, <1>6, <1>8, <1>9

\* A thread that releases references of pipes keeps what is said of the pipes,
\* once the counts are right again.
LEMMA FreePipesKeeps ==
    ASSUME WorkerInv, NEW t \in AllThreads, Others(t), Types', Counted',
           thread[t] \in {"run", "handlers", "runtime"}, thread'[t] \in {"run", "runtime", "done"},
           NEW released \in [Ends -> Nat], NEW dropped \in [Sabs -> Nat],
           FreePipes(released, dropped), UNCHANGED <<posted, taken>>,
           \A f \in objects : ThreadOf(f) = t \/ f \in objects',
           \A s \in Sabs : Cardinality(Buffers(s)') = Cardinality(Buffers(s)) - dropped[s]
    PROVE  Locked' /\ Ordered' /\ Shared'
<1>1. /\ \A e \in Ends : counts'[e] = counts[e] - released[e]
      /\ \A e \in Ends : \/ /\ counts'[e] = 0 /\ released[e] > 0
                            /\ queue'[e] = <<>> /\ waker'[e] = 0
                         \/ /\ counts'[e] # 0 \/ released[e] = 0
                            /\ queue'[e] = queue[e] /\ waker'[e] = waker[e]
      /\ \A s \in Sabs : /\ Cardinality(Lost(released, s)) \in Nat
                         /\ sabRefs'[s] = sabRefs[s] - dropped[s] - Cardinality(Lost(released, s))
      /\ lock' = lock
  BY FreePipesFacts
<1>2. \A e \in Ends : counts[e] \in Int /\ counts'[e] \in Int /\ released[e] \in Nat
  BY DEF WorkerInv, Types
<1>3. Locked'
  <2>1. SUFFICES ASSUME NEW e \in Ends PROVE LockOf(e)'
    BY DEF Locked
  <2>2. LockOf(e) /\ lock[e] \in AllThreads \cup {Nobody} /\ Nobody \notin AllThreads
    BY DEF WorkerInv, Locked, Types, WorkersAssumption, AllThreads
  <2>3. \A u \in AllThreads : lock'[e] = u <=> thread'[u] = "append" /\ Peer(arg'[u][1]) = e
    BY <1>1, <2>2 DEF LockOf, Others
  <2>4. CASE queue'[e] = queue[e] /\ waker'[e] = waker[e]
    BY <1>1, <2>2, <2>3, <2>4 DEF LockOf
  <2>5. CASE counts'[e] = 0 /\ queue'[e] = <<>> /\ waker'[e] = 0
    <3>1. CASE lock[e] = Nobody
      BY <1>1, <2>3, <2>5, <3>1 DEF LockOf, OneIf
    <3>2. CASE lock[e] # Nobody
      <4>1. PICK u \in AllThreads : lock[e] = u
        BY <2>2, <3>2
      <4>2. thread[u] = "append" /\ Peer(arg[u][1]) = e /\ u # t
        BY <2>2, <4>1 DEF LockOf
      <4>3. arg[u][1] \in EndsOf(u) /\ arg[u][1] \in objects
        BY <4>2 DEF WorkerInv, Carried, CarriedBy
      <4>4. Peer(e) = arg[u][1] /\ ThreadOf(Peer(e)) = u
        BY <4>2, <4>3, EndFacts DEF EndsOf, WorkerInv
      <4>5. Peer(e) \in objects'
        BY <4>2, <4>3, <4>4
      <4>6. RefsOf(e)'
        BY DEF Counted
      <4> QED BY <2>5, <4>5, <4>6 DEF RefsOf, ObjectRefs, OneIf
    <3> QED BY <3>1, <3>2
  <2> QED BY <1>1, <2>4, <2>5
<1>4. Ordered'
  <2>1. SUFFICES ASSUME NEW e \in Ends PROVE MessagesOf(e)'
    BY DEF Ordered
  <2>2. /\ MessagesOf(e) /\ e[1] \in AllThreads /\ posted'[e] = posted[e] /\ taken'[e] = taken[e]
        /\ posted[e] \in Nat /\ taken[e] \in Nat /\ queue[e] \in Seq(Message)
    BY EndFacts DEF WorkerInv, Ordered, AllThreads, Types
  <2>3. thread'[e[1]] = "none" => thread[e[1]] = "none"
    BY <2>2 DEF Others
  <2>4. CASE counts'[e] = 0 /\ queue'[e] = <<>>
    <3>1. Len(queue'[e]) = 0 /\ DOMAIN queue'[e] = {} /\ Len(queue[e]) \in Nat
      BY <2>2, <2>4
    <3>2. taken'[e] + Len(queue'[e]) <= posted'[e]
      BY <2>2, <3>1 DEF MessagesOf
    <3> QED BY <2>2, <2>3, <2>4, <3>1, <3>2 DEF MessagesOf
  <2>5. CASE (counts'[e] # 0 \/ released[e] = 0) /\ queue'[e] = queue[e]
    <3>1. counts'[e] > 0 => counts[e] > 0
      BY <1>1, <1>2
    <3>2. counts'[e] = 0 => counts[e] = 0
      BY <1>1, <1>2, <2>5
    <3> QED BY <2>2, <2>3, <2>5, <3>1, <3>2 DEF MessagesOf
  <2> QED BY <1>1, <2>4, <2>5
<1>5. Shared'
  <2>1. SUFFICES ASSUME NEW s \in Sabs PROVE SabOf(s)'
    BY DEF Shared
  <2>2. InHand(s)' = InHand(s)
    <3>1. t \notin InHand(s)' /\ t \notin InHand(s)
      BY InHandChange
    <3>2. InHand(s)' = InHand(s) \ {t}
      BY <3>1, InHandChange
    <3> QED BY <3>1, <3>2
  <2> DEFINE dead == {e \in Ends : counts[e] - released[e] = 0 /\ released[e] > 0}
  <2>3. Queued(s)' = Queued(s) \ Lost(released, s)
    <3>1. \A e \in Ends : e \in dead <=> counts'[e] = 0 /\ released[e] > 0
      BY <1>1
    <3>2. queue' = [e \in Ends |-> IF e \in dead THEN <<>> ELSE queue[e]]
      <4> HIDE DEF dead
      <4>1. \A e \in Ends : queue'[e] = IF e \in dead THEN <<>> ELSE queue[e]
        BY <1>1, <1>2, <3>1
      <4>2. queue' \in [Ends -> Seq(Message)]
        BY DEF Types
      <4> QED BY <4>1, <4>2
    <3>3. Lost(released, s) = {m \in Queued(s) : m[1] \in dead}
      BY DEF Lost
    <3>4. dead \in SUBSET Ends
      OBVIOUS
    <3> HIDE DEF dead
    <3>5. Queued(s)' = Queued(s) \ {m \in Queued(s) : m[1] \in dead}
      BY <3>2, <3>4, QueuedFreed
    <3> QED BY <3>3, <3>5
  <2>4. /\ IsFiniteSet(Queued(s)) /\ Cardinality(Queued(s)) \in Nat
        /\ Cardinality(InHand(s)) \in Nat /\ Cardinality(Buffers(s)) \in Nat
    BY FiniteUsers, FS_CardinalityType
  <2>5. Cardinality(Queued(s) \ Lost(released, s))
            = Cardinality(Queued(s)) - Cardinality(Lost(released, s))
    <3>1. Queued(s) \cap Lost(released, s) = Lost(released, s)
      BY DEF Lost
    <3>2. Cardinality(Queued(s) \ Lost(released, s))
              = Cardinality(Queued(s)) - Cardinality(Queued(s) \cap Lost(released, s))
      BY <2>4, FS_Difference
    <3> QED BY <3>1, <3>2
  <2>6. SabOf(s) /\ Cardinality(Lost(released, s)) \in Nat /\ dropped[s] \in Nat
        /\ sabRefs'[s] = sabRefs[s] - dropped[s] - Cardinality(Lost(released, s))
        /\ Cardinality(Buffers(s)') = Cardinality(Buffers(s)) - dropped[s]
    BY <1>1 DEF WorkerInv, Shared
  <2> QED BY <2>2, <2>3, <2>4, <2>5, <2>6 DEF SabOf
<1> QED BY <1>3, <1>4, <1>5

\* What goes with the objects S.
LEMMA FinalizerFacts ==
    ASSUME WorkerInv, NEW S \in SUBSET objects
    PROVE  /\ [x \in Ends |-> FinalizerRefs(S, x)] \in [Ends -> Nat]
           /\ \A x \in Ends : /\ FinalizerRefs(S, x) = ObjectRefs(S, x) + OneIf(x \in S /\ HasPort(x))
                              /\ ObjectRefs(objects \ S, x) = ObjectRefs(objects, x) - ObjectRefs(S, x)
                              /\ ObjectRefs(S, x) \in Int /\ ObjectRefs(objects, x) \in Int
<1>1. \A x \in Ends : FinalizerRefs(S, x) \in Nat
  BY DEF FinalizerRefs, ObjectRefs, OneIf
<1>2. \A x \in Ends : /\ FinalizerRefs(S, x) = ObjectRefs(S, x) + OneIf(x \in S /\ HasPort(x))
                      /\ ObjectRefs(S, x) \in Int /\ ObjectRefs(objects, x) \in Int
  BY DEF FinalizerRefs, ObjectRefs, OneIf
<1>3. \A x \in Ends : ObjectRefs(objects \ S, x) = ObjectRefs(objects, x) - ObjectRefs(S, x)
  BY DEF ObjectRefs, OneIf
<1> QED BY <1>1, <1>2, <1>3

LEMMA FinalizeKeeps == ASSUME WorkerInv, NEW e \in Ends, Finalize(e) PROVE WorkerInv'
<1> DEFINE t == ThreadOf(e)
           released == [x \in Ends |-> FinalizerRefs({e}, x)]
           dropped == [s \in Sabs |-> 0]
<1>1. t \in AllThreads
  BY EndFacts DEF WorkerInv
<1>2. /\ thread[t] = "run" /\ e \in objects
      /\ objects' = objects \ {e}
      /\ FreePort(e)
      /\ FreePipes(released, dropped)
      /\ UNCHANGED <<thread, arg, wanted, held, posted, taken>>
  BY DEF Finalize, Running, history
<1>3. /\ ports' \in [AllThreads -> Seq(Ends)]
      /\ \A u \in AllThreads \ {t} : ports'[u] = ports[u]
      /\ \A f \in Ends : HasPort(f)' <=> HasPort(f) /\ f # e
      /\ Listed'
  BY <1>2, FreePortFacts
<1>4. released \in [Ends -> Nat] /\ dropped \in [Sabs -> Nat]
  BY <1>2, FinalizerFacts
<1>5. /\ counts' = [x \in Ends |-> counts[x] - released[x]] /\ counts' \in [Ends -> Int]
      /\ queue' \in [Ends -> Seq(Message)] /\ waker' \in [Ends -> Int]
      /\ sabRefs' \in [Sabs -> Int] /\ lock' = lock
  <2> HIDE DEF released, dropped
  <2> QED BY <1>2, <1>4, FreePipesFacts
<1>6. Types'
  BY <1>2, <1>3, <1>5 DEF WorkerInv, Types
<1>7. Carried'
  <2>1. \A f \in objects : ThreadOf(f) = t \/ f \in objects'
    BY <1>2
  <2> QED BY <1>1, <1>2, <1>3, <1>5, <1>6, <2>1, ScriptKeeps
<1>8. Counted'
  <2>1. SUFFICES ASSUME NEW x \in Ends PROVE RefsOf(x)'
    BY DEF Counted
  <2>2. RefsOf(x) /\ counts[x] \in Int
    BY DEF WorkerInv, Counted, Types
  <2>3. /\ counts'[x] = counts[x] - FinalizerRefs({e}, x)
        /\ FinalizerRefs({e}, x) = ObjectRefs({e}, x) + OneIf(x \in {e} /\ HasPort(x))
        /\ ObjectRefs(objects', x) = ObjectRefs(objects, x) - ObjectRefs({e}, x)
        /\ ObjectRefs({e}, x) \in Int /\ ObjectRefs(objects, x) \in Int
    BY <1>2, <1>5, FinalizerFacts
  <2>4. OneIf(HasPort(x)') = OneIf(HasPort(x)) - OneIf(x \in {e} /\ HasPort(x))
    BY <1>3 DEF OneIf
  <2>5. OneIf(HasPort(x)) \in Int /\ OneIf(x \in {e} /\ HasPort(x)) \in Int
        /\ OneIf(thread[x[1]] \notin {"none", "runtime", "done"}) \in Int
    BY DEF OneIf
  <2>6. counts[x] = ObjectRefs(objects, x) + OneIf(HasPort(x))
                    + OneIf(thread[x[1]] \notin {"none", "runtime", "done"})
    BY <2>2 DEF RefsOf
  <2>7. counts'[x] = ObjectRefs(objects', x) + OneIf(HasPort(x)')
                     + OneIf(thread[x[1]] \notin {"none", "runtime", "done"})
    BY <2>2, <2>3, <2>4, <2>5, <2>6
  <2> QED BY <1>2, <2>7 DEF RefsOf, OneIf
<1>9. Lives'
  BY <1>2, <1>3 DEF WorkerInv, Lives, LifeOf
<1>10. Locked' /\ Ordered' /\ Shared'
  <2>1. \A f \in objects : ThreadOf(f) = t \/ f \in objects'
    BY <1>2
  <2>2. \A s \in Sabs : Cardinality(Buffers(s)') = Cardinality(Buffers(s)) - dropped[s]
    <3>1. \A s \in Sabs : Buffers(s)' = Buffers(s) /\ dropped[s] = 0
      BY <1>2 DEF Buffers
    <3>2. \A s \in Sabs : Cardinality(Buffers(s)) \in Nat
      BY FiniteUsers, FS_CardinalityType
    <3> QED BY <3>1, <3>2
  <2>3. Others(t)
    BY <1>2 DEF Others
  <2>4. thread[t] \in {"run", "handlers", "runtime"} /\ thread'[t] \in {"run", "runtime", "done"}
        /\ UNCHANGED <<posted, taken>>
    BY <1>2
  <2>5. FreePipes(released, dropped)
    BY <1>2
  <2> HIDE DEF released, dropped, t
  <2> QED BY <1>1, <1>4, <1>6, <1>8, <2>1, <2>2, <2>3, <2>4, <2>5, FreePipesKeeps
<1> QED BY <1>3, <1>6, <1>7, <1>8, <1>9, <1>10 DEF WorkerInv

LEMMA FreeHandlersKeeps == ASSUME WorkerInv, NEW t \in AllThreads, FreeHandlers(t) PROVE WorkerInv'
<1> DEFINE released == [x \in Ends |-> OneIf(x[1] = t)]
           dropped == [s \in Sabs |-> 0]
<1>1. /\ thread[t] = "handlers" /\ thread'[t] = "runtime"
      /\ \A u \in AllThreads \ {t} : thread'[u] = thread[u]
      /\ thread' \in [AllThreads -> Points]
      /\ FreePipes(released, dropped)
      /\ UNCHANGED <<arg, objects, wanted, ports, held, posted, taken>>
  BY DEF FreeHandlers, Goto, history, WorkerInv, Types, Points
<1>2. Others(t)
  BY <1>1 DEF Others
<1>3. released \in [Ends -> Nat] /\ dropped \in [Sabs -> Nat]
  BY DEF OneIf
<1>4. /\ counts' = [x \in Ends |-> counts[x] - released[x]] /\ counts' \in [Ends -> Int]
      /\ queue' \in [Ends -> Seq(Message)] /\ waker' \in [Ends -> Int]
      /\ sabRefs' \in [Sabs -> Int] /\ lock' = lock
  <2> HIDE DEF released, dropped
  <2> QED BY <1>1, <1>3, FreePipesFacts
<1>5. Types'
  BY <1>1, <1>4 DEF WorkerInv, Types
<1>6. Carried'
  BY <1>1, <1>2, CarriedKept DEF CarriedBy
<1>7. Counted'
  <2>1. SUFFICES ASSUME NEW x \in Ends PROVE RefsOf(x)'
    BY DEF Counted
  <2>2. RefsOf(x) /\ counts[x] \in Int /\ x[1] \in AllThreads /\ ObjectRefs(objects, x) \in Int
    BY EndFacts DEF WorkerInv, Counted, Types, AllThreads, ObjectRefs, OneIf
  <2>3. counts'[x] = counts[x] - OneIf(x[1] = t)
    BY <1>4
  <2>4. (HasPort(x)' <=> HasPort(x)) /\ ObjectRefs(objects', x) = ObjectRefs(objects, x)
    BY <1>1 DEF HasPort
  <2>5. CASE x[1] = t
    BY <1>1, <2>2, <2>3, <2>4, <2>5 DEF RefsOf, OneIf
  <2>6. CASE x[1] # t
    BY <1>1, <2>2, <2>3, <2>4, <2>6 DEF RefsOf, OneIf
  <2> QED BY <2>5, <2>6
<1>8. Lives' /\ Listed'
  <2>1. \A w \in Workers : w \in AllThreads
    BY DEF AllThreads
  <2> QED BY <1>1, <2>1, LivesKept, ListedKept
<1>9. Locked' /\ Ordered' /\ Shared'
  <2>1. \A s \in Sabs : Cardinality(Buffers(s)') = Cardinality(Buffers(s)) - dropped[s]
    <3>1. \A s \in Sabs : Buffers(s)' = Buffers(s) /\ dropped[s] = 0
      BY <1>1 DEF Buffers
    <3>2. \A s \in Sabs : Cardinality(Buffers(s)) \in Nat
      BY FiniteUsers, FS_CardinalityType
    <3> QED BY <3>1, <3>2
  <2> HIDE DEF released, dropped
  <2> QED BY <1>1, <1>2, <1>3, <1>5, <1>7, <2>1, FreePipesKeeps
<1> QED BY <1>5, <1>6, <1>7, <1>8, <1>9 DEF WorkerInv

LEMMA FreeRuntimeKeeps == ASSUME WorkerInv, NEW t \in AllThreads, FreeRuntime(t) PROVE WorkerInv'
<1> DEFINE mine == objects \cap EndsOf(t)
           released == [x \in Ends |-> FinalizerRefs(mine, x)]
           dropped == held[t]
<1>1. /\ thread[t] = "runtime" /\ thread'[t] = "done"
      /\ \A u \in AllThreads \ {t} : thread'[u] = thread[u]
      /\ thread' \in [AllThreads -> Points]
      /\ objects' = objects \ mine
      /\ ports' = [ports EXCEPT ![t] = <<>>]
      /\ held' = [held EXCEPT ![t] = [s \in Sabs |-> 0]]
      /\ FreePipes(released, dropped)
      /\ UNCHANGED <<arg, wanted, posted, taken>>
  BY DEF FreeRuntime, Goto, history, WorkerInv, Types, Points
<1>2. Others(t)
  BY <1>1 DEF Others
<1>3. held \in [AllThreads -> [Sabs -> Nat]] /\ ports \in [AllThreads -> Seq(Ends)]
  BY DEF WorkerInv, Types
<1>4. ports[t] = <<>> /\ ports' = ports
  <2>1. ports[t] = <<>>
    BY <1>1 DEF WorkerInv, Listed, PortsOf
  <2> QED BY <1>1, <1>3, <2>1
<1>5. \A x \in Ends : (HasPort(x)' <=> HasPort(x)) /\ (ThreadOf(x) = t => ~HasPort(x))
  BY <1>4 DEF HasPort, ToSet
<1>6. mine \in SUBSET objects /\ mine \in SUBSET Ends
  BY DEF EndsOf
<1>7. released \in [Ends -> Nat] /\ dropped \in [Sabs -> Nat]
  <2> HIDE DEF mine
  <2> QED BY <1>3, <1>6, FinalizerFacts
<1>8. /\ counts' = [x \in Ends |-> counts[x] - released[x]] /\ counts' \in [Ends -> Int]
      /\ queue' \in [Ends -> Seq(Message)] /\ waker' \in [Ends -> Int]
      /\ sabRefs' \in [Sabs -> Int] /\ lock' = lock
  <2> HIDE DEF released, dropped
  <2> QED BY <1>1, <1>7, FreePipesFacts
<1>9. held' \in [AllThreads -> [Sabs -> Nat]] /\ \A s \in Sabs : held'[t][s] = 0
      /\ \A u \in AllThreads \ {t} : held'[u] = held[u]
  BY <1>1, <1>3
<1>10. Types'
  BY <1>1, <1>3, <1>4, <1>8, <1>9 DEF WorkerInv, Types
<1>11. \A f \in objects : ThreadOf(f) = t \/ f \in objects'
  BY <1>1 DEF EndsOf
<1>12. Carried'
  BY <1>1, <1>2, <1>4, <1>11, CarriedKept DEF CarriedBy
<1>13. Counted'
  <2>1. SUFFICES ASSUME NEW x \in Ends PROVE RefsOf(x)'
    BY DEF Counted
  <2>2. RefsOf(x) /\ counts[x] \in Int /\ x[1] \in AllThreads
    BY EndFacts DEF WorkerInv, Counted, Types, AllThreads
  <2>3. /\ counts'[x] = counts[x] - FinalizerRefs(mine, x)
        /\ FinalizerRefs(mine, x) = ObjectRefs(mine, x) + OneIf(x \in mine /\ HasPort(x))
        /\ ObjectRefs(objects', x) = ObjectRefs(objects, x) - ObjectRefs(mine, x)
        /\ ObjectRefs(mine, x) \in Int /\ ObjectRefs(objects, x) \in Int
    <3> HIDE DEF mine
    <3> QED BY <1>1, <1>6, <1>8, FinalizerFacts
  <2>4. OneIf(x \in mine /\ HasPort(x)) = 0
    BY <1>5 DEF OneIf, EndsOf
  <2>5. OneIf(HasPort(x)) \in Int
        /\ OneIf(thread[x[1]] \notin {"none", "runtime", "done"}) \in Int
    BY DEF OneIf
  <2>6. counts[x] = ObjectRefs(objects, x) + OneIf(HasPort(x))
                    + OneIf(thread[x[1]] \notin {"none", "runtime", "done"})
    BY <2>2 DEF RefsOf
  <2>7. counts'[x] = ObjectRefs(objects', x) + OneIf(HasPort(x))
                     + OneIf(thread[x[1]] \notin {"none", "runtime", "done"})
    <3> HIDE DEF mine, released
    <3> QED BY <2>2, <2>3, <2>4, <2>5, <2>6
  <2>8. thread'[x[1]] \in {"none", "runtime", "done"} <=> thread[x[1]] \in {"none", "runtime", "done"}
    BY <1>1, <2>2
  <2> QED BY <1>5, <2>7, <2>8 DEF RefsOf, OneIf
<1>14. Lives'
  <2>1. SUFFICES ASSUME NEW x \in Ends PROVE LifeOf(x)'
    BY DEF Lives
  <2>2. LifeOf(x) /\ x[1] \in AllThreads /\ (x[2] = "worker" => ThreadOf(x) = x[1])
    BY EndFacts DEF WorkerInv, Lives, AllThreads
  <2>3. x \in objects' => x \in objects /\ ThreadOf(x) # t
    BY <1>1 DEF EndsOf
  <2>4. HasPort(x)' => x \in objects'
    BY <1>1, <1>5, <2>2 DEF LifeOf, EndsOf
  <2> QED BY <1>1, <2>2, <2>3, <2>4 DEF LifeOf
<1>15. Listed'
  <2>1. SUFFICES ASSUME NEW u \in AllThreads PROVE PortsOf(u)'
    BY DEF Listed
  <2>2. PortsOf(u)
    BY DEF WorkerInv, Listed
  <2> QED BY <1>1, <1>4, <2>2 DEF PortsOf
<1>16. Locked' /\ Ordered' /\ Shared'
  <2>1. \A s \in Sabs : Cardinality(Buffers(s)') = Cardinality(Buffers(s)) - dropped[s]
    <3>1. SUFFICES ASSUME NEW s \in Sabs
                   PROVE  Cardinality(Buffers(s)') = Cardinality(Buffers(s)) - dropped[s]
      OBVIOUS
    <3> DEFINE B == {t} \X (1..held[t][s])
    <3>2. Buffers(s)' = Buffers(s) \ B /\ B \subseteq Buffers(s)
      BY <1>9, <1>10, BuffersChange
    <3>3. held[t][s] \in Nat
      BY <1>3
    <3>4. Cardinality(B) = held[t][s]
      <4>1. IsFiniteSet({t}) /\ Cardinality({t}) = 1
        BY FS_Singleton
      <4>2. IsFiniteSet(1..held[t][s]) /\ Cardinality(1..held[t][s]) = held[t][s]
        <5>1. 1 \in Int /\ held[t][s] \in Int
          BY <3>3
        <5>2. /\ IsFiniteSet(1..held[t][s])
              /\ Cardinality(1..held[t][s]) = IF 1 > held[t][s] THEN 0 ELSE held[t][s] - 1 + 1
          BY <5>1, FS_Interval
        <5> QED BY <3>3, <5>2
      <4>3. Cardinality({t} \X (1..held[t][s])) = Cardinality({t}) * Cardinality(1..held[t][s])
        BY <4>1, <4>2, FS_Product
      <4> QED BY <3>3, <4>1, <4>2, <4>3
    <3>5. IsFiniteSet(Buffers(s))
      BY FiniteUsers
    <3> HIDE DEF B
    <3>6. Buffers(s) \cap B = B
      BY <3>2
    <3>7. Cardinality(Buffers(s) \ B) = Cardinality(Buffers(s)) - Cardinality(Buffers(s) \cap B)
      BY <3>5, FS_Difference
    <3> QED BY <3>2, <3>4, <3>6, <3>7
  <2> HIDE DEF released, dropped, mine
  <2> QED BY <1>1, <1>2, <1>7, <1>10, <1>11, <1>13, <2>1, FreePipesKeeps
<1> QED BY <1>10, <1>12, <1>13, <1>14, <1>15, <1>16 DEF WorkerInv

-----------------------------------------------------------------------------
(***************************************************************************)
(* The loop of a thread                                                    *)
(***************************************************************************)

\* A step that only moves a thread without a message in hand.
LEMMA MoveKeeps ==
    ASSUME WorkerInv, NEW t \in AllThreads, Others(t), thread' \in [AllThreads -> Points],
           arg' \in [AllThreads -> {NoArg} \cup (Ends \X (Message \cup {NoArg}))],
           thread[t] \in {"run", "poll"}, thread'[t] \in {"poll", "take", "handlers"},
           CarriedBy(t)', thread'[t] = "handlers" => ports[t] = <<>>,
           UNCHANGED <<objects, wanted, ports, counts, queue, waker, lock, sabRefs, held, posted, taken>>
    PROVE  WorkerInv'
<1>1. Types'
  BY DEF WorkerInv, Types
<1>2. Carried'
  BY CarriedKept
<1>3. Locked'
  BY LockedKept
<1>4. /\ \A w \in Workers : w \in AllThreads
      /\ \A u \in AllThreads \ {t} : thread'[u] = thread[u]
  BY DEF AllThreads, Others
<1>5. Ordered'
  BY <1>4, OrderedKept
<1>6. Counted'
  BY <1>4, CountedKept
<1>7. Lives'
  BY <1>4, LivesKept
<1>8. Listed'
  <2>1. SUFFICES ASSUME NEW u \in AllThreads PROVE PortsOf(u)'
    BY DEF Listed
  <2>2. PortsOf(u)
    BY DEF WorkerInv, Listed
  <2>3. CASE u = t
    BY <2>2, <2>3 DEF PortsOf
  <2>4. CASE u # t
    BY <1>4, <2>2, <2>4 DEF PortsOf
  <2> QED BY <2>3, <2>4
<1>9. Shared'
  <2>1. \A s \in Sabs : t \notin InHand(s)' /\ t \notin InHand(s)
    BY <1>1, InHandChange
  <2> QED BY <1>1, <2>1, SharedKept
<1> QED BY <1>1, <1>2, <1>3, <1>5, <1>6, <1>7, <1>8, <1>9 DEF WorkerInv

LEMMA EndScriptKeeps == ASSUME WorkerInv, NEW t \in AllThreads, EndScript(t) PROVE WorkerInv'
<1>1. /\ thread[t] = "run" /\ thread'[t] = "poll" /\ Others(t)
      /\ thread' \in [AllThreads -> Points]
      /\ UNCHANGED <<arg, objects, wanted, ports, counts, queue, waker, lock, sabRefs, held, posted, taken>>
  BY DEF EndScript, Running, Goto, Others, pipes, history, WorkerInv, Types, Points
<1>2. CarriedBy(t)'
  BY <1>1 DEF CarriedBy
<1>3. arg' \in [AllThreads -> {NoArg} \cup (Ends \X (Message \cup {NoArg}))]
  BY <1>1 DEF WorkerInv, Types
<1> QED BY <1>1, <1>2, <1>3, MoveKeeps

LEMMA LeaveKeeps == ASSUME WorkerInv, NEW t \in AllThreads, Leave(t) PROVE WorkerInv'
<1>1. /\ thread[t] = "poll" /\ thread'[t] = "handlers" /\ Others(t) /\ ports[t] = <<>>
      /\ thread' \in [AllThreads -> Points]
      /\ UNCHANGED <<arg, objects, wanted, ports, counts, queue, waker, lock, sabRefs, held, posted, taken>>
  BY DEF Leave, Goto, Others, pipes, history, WorkerInv, Types, Points
<1>2. CarriedBy(t)'
  BY <1>1 DEF CarriedBy
<1>3. arg' \in [AllThreads -> {NoArg} \cup (Ends \X (Message \cup {NoArg}))]
  BY <1>1 DEF WorkerInv, Types
<1> QED BY <1>1, <1>2, <1>3, MoveKeeps

LEMMA SelectKeeps == ASSUME WorkerInv, NEW t \in AllThreads, Select(t) PROVE WorkerInv'
<1>1. PICK e \in ToSet(ports[t]) : arg' = [arg EXCEPT ![t] = <<e, NoArg>>]
  BY DEF Select, ToSet
<1>2. e \in EndsOf(t) /\ e \in Ends /\ HasPort(e)
  <2>1. ToSet(ports[t]) \subseteq EndsOf(t)
    BY DEF WorkerInv, Listed, PortsOf
  <2> QED BY <2>1 DEF EndsOf, HasPort
<1>3. /\ thread[t] = "poll" /\ thread'[t] = "take" /\ Others(t)
      /\ thread' \in [AllThreads -> Points] /\ arg'[t] = <<e, NoArg>>
      /\ UNCHANGED <<objects, wanted, ports, counts, queue, waker, lock, sabRefs, held, posted, taken>>
  BY <1>1 DEF Select, Goto, Others, pipes, history, WorkerInv, Types, Points
<1>4. arg' \in [AllThreads -> {NoArg} \cup (Ends \X (Message \cup {NoArg}))]
  BY <1>1, <1>2 DEF WorkerInv, Types
<1>5. CarriedBy(t)'
  <2>1. arg'[t] \in EndsOf(t) \X {NoArg} /\ arg'[t][1] = e
    BY <1>2, <1>3
  <2>2. HasPort(e)'
    BY <1>2, <1>3 DEF HasPort
  <2> QED BY <1>3, <2>1, <2>2 DEF CarriedBy
<1> QED BY <1>3, <1>4, <1>5, MoveKeeps

LEMMA TakeKeeps == ASSUME WorkerInv, NEW t \in AllThreads, Take(t) PROVE WorkerInv'
<1>1. /\ thread[t] = "take" /\ thread'[t] = "read"
      /\ \A u \in AllThreads \ {t} : thread'[u] = thread[u] /\ arg'[u] = arg[u]
      /\ thread' \in [AllThreads -> Points]
      /\ UNCHANGED <<objects, wanted, ports, counts, lock, sabRefs, held, posted>>
  BY DEF Take, Goto, WorkerInv, Types, Points
<1>2. Others(t)
  BY <1>1 DEF Others
<1>3. PICK e \in EndsOf(t) :
        \E m : /\ m = Head(queue[e])
              /\ lock[e] = Nobody /\ queue[e] # <<>>
              /\ queue' = [queue EXCEPT ![e] = Tail(@)]
              /\ waker' = [waker EXCEPT ![e] = IF Len(queue[e]) = 1 THEN 0 ELSE @]
              /\ taken' = [taken EXCEPT ![e] = @ + 1]
              /\ arg' = [arg EXCEPT ![t] = <<e, m>>] /\ arg'[t] = <<e, m>>
  <2>1. arg[t][1] \in EndsOf(t)
    BY <1>1 DEF WorkerInv, Carried, CarriedBy
  <2> QED BY <2>1 DEF Take, WorkerInv, Types
<1>15. PICK h : /\ h = Head(queue[e])
                /\ lock[e] = Nobody /\ queue[e] # <<>>
                /\ queue' = [queue EXCEPT ![e] = Tail(@)]
                /\ waker' = [waker EXCEPT ![e] = IF Len(queue[e]) = 1 THEN 0 ELSE @]
                /\ taken' = [taken EXCEPT ![e] = @ + 1]
                /\ arg' = [arg EXCEPT ![t] = <<e, h>>] /\ arg'[t] = <<e, h>>
  BY <1>3
<1>16. e \in Ends
  BY DEF EndsOf
<1>4. PICK n \in Nat : Len(queue[e]) = n + 1
  <2>1. Len(queue[e]) \in Nat /\ Len(queue[e]) # 0
    BY <1>1, <1>15, <1>16 DEF WorkerInv, Types
  <2>2. Len(queue[e]) - 1 \in Nat /\ Len(queue[e]) = (Len(queue[e]) - 1) + 1
    BY <2>1
  <2> QED BY <2>2
<1>5. /\ h \in Message /\ queue'[e] = Tail(queue[e]) /\ queue'[e] \in Seq(Message)
      /\ DOMAIN queue[e] = 1..n+1 /\ DOMAIN queue'[e] = 1..n /\ Len(queue'[e]) = n
      /\ \A i \in 1..n : queue'[e][i] = queue[e][i + 1]
      /\ \A f \in Ends \ {e} : queue'[f] = queue[f]
      /\ queue' \in [Ends -> Seq(Message)]
  <2>1. queue \in [Ends -> Seq(Message)] /\ queue[e] \in Seq(Message)
    BY <1>16 DEF WorkerInv, Types
  <2>2. /\ h \in Message /\ Tail(queue[e]) \in Seq(Message)
        /\ Len(Tail(queue[e])) = Len(queue[e]) - 1
        /\ \A i \in 1..Len(Tail(queue[e])) : Tail(queue[e])[i] = queue[e][i + 1]
    BY <1>1, <1>15, <2>1, HeadTailProperties
  <2>3. queue'[e] = Tail(queue[e]) /\ \A f \in Ends \ {e} : queue'[f] = queue[f]
    BY <1>1, <1>15, <1>16, <2>1
  <2>4. queue' \in [Ends -> Seq(Message)]
    BY <1>1, <1>15, <1>16, <2>1, <2>2
  <2>5. Len(Tail(queue[e])) = n
    BY <1>4, <2>2
  <2> QED BY <1>4, <2>1, <2>2, <2>3, <2>4, <2>5, LenProperties
<1>6. Types'
  <2>1. waker' \in [Ends -> Int] /\ taken' \in [Ends -> Nat]
    BY <1>1, <1>15, <1>16 DEF WorkerInv, Types
  <2>2. arg' \in [AllThreads -> {NoArg} \cup (Ends \X (Message \cup {NoArg}))]
    BY <1>1, <1>15, <1>16, <1>5 DEF WorkerInv, Types
  <2> QED BY <1>1, <1>15, <1>5, <2>1, <2>2 DEF WorkerInv, Types
<1>7. Carried'
  <2>1. CarriedBy(t)'
    <3>1. arg'[t] \in EndsOf(t) \X Message
      BY <1>1, <1>15, <1>16, <1>5
    <3> QED BY <1>1, <1>15, <3>1 DEF CarriedBy
  <2> QED BY <1>1, <1>15, <1>2, <2>1, CarriedKept
<1>8. Locked'
  <2>1. SUFFICES ASSUME NEW f \in Ends PROVE LockOf(f)'
    BY DEF Locked
  <2>2. LockOf(f) /\ waker \in [Ends -> Int]
    BY DEF WorkerInv, Locked, Types
  <2>3. \A u \in AllThreads : lock'[f] = u <=> thread'[u] = "append" /\ Peer(arg'[u][1]) = f
    BY <1>1, <1>15, <2>2 DEF LockOf
  <2>4. CASE f = e
    <3>1. waker[e] = 1 /\ lock'[e] = Nobody
      BY <1>1, <1>15, <2>2, <2>4 DEF LockOf, OneIf
    <3>2. waker'[e] = IF n = 0 THEN 0 ELSE 1
      BY <1>1, <1>15, <1>16, <1>4, <2>2, <3>1
    <3>3. queue'[e] # <<>> <=> n # 0
      <4>1. queue'[e] = <<>> => n = 0
        BY <1>5
      <4>2. n = 0 => queue'[e] = <<>>
        BY <1>5, EmptySeq
      <4> QED BY <4>1, <4>2
    <3> QED BY <2>3, <2>4, <3>1, <3>2, <3>3 DEF LockOf, OneIf
  <2>5. CASE f # e
    <3>1. waker'[f] = waker[f] /\ queue'[f] = queue[f] /\ lock'[f] = lock[f]
      BY <1>1, <1>15, <1>5, <2>2, <2>5
    <3> QED BY <2>2, <2>3, <3>1 DEF LockOf
  <2> QED BY <2>4, <2>5
<1>9. Ordered'
  <2>1. SUFFICES ASSUME NEW f \in Ends PROVE MessagesOf(f)'
    BY DEF Ordered
  <2>2. /\ MessagesOf(f) /\ f[1] \in AllThreads /\ posted'[f] = posted[f] /\ counts'[f] = counts[f]
        /\ posted[f] \in Nat /\ taken[f] \in Nat
    BY <1>1, <1>15, EndFacts DEF WorkerInv, Ordered, AllThreads, Types
  <2>3. thread'[f[1]] = "none" => thread[f[1]] = "none"
    BY <1>1, <1>15, <2>2
  <2>4. CASE f = e
    <3>1. taken'[f] = taken[f] + 1 /\ taken'[f] + Len(queue'[f]) = taken[f] + Len(queue[f])
      <4>1. taken'[f] = taken[f] + 1
        BY <1>1, <1>15, <2>4 DEF WorkerInv, Types
      <4> QED BY <1>4, <1>5, <2>2, <2>4, <4>1
    <3>2. \A i \in DOMAIN queue'[f] : queue'[f][i].id = taken'[f] + i
      <4>1. SUFFICES ASSUME NEW i \in 1..n PROVE queue'[f][i].id = taken'[f] + i
        BY <1>5, <2>4
      <4>2. i \in Nat /\ i + 1 \in 1..n+1
        OBVIOUS
      <4>3. i + 1 \in DOMAIN queue[e] /\ queue'[e][i] = queue[e][i + 1]
        BY <1>5, <4>2
      <4>4. queue[e][i + 1].id = taken[e] + (i + 1)
        BY <2>2, <2>4, <4>3 DEF MessagesOf
      <4>5. taken'[f] + i = taken[e] + (i + 1)
        BY <2>2, <2>4, <3>1, <4>2
      <4> QED BY <2>4, <4>3, <4>4, <4>5
    <3>3. counts[f] # 0 /\ thread[f[1]] # "none"
      <4>1. queue[f] # <<>> /\ Len(queue[f]) = n + 1
        BY <1>1, <1>15, <1>4, <2>4
      <4>2. ~(posted[f] = 0 /\ taken[f] = 0)
        BY <2>2, <4>1 DEF MessagesOf
      <4> QED BY <2>2, <4>1, <4>2 DEF MessagesOf
    <3> QED BY <2>2, <2>3, <3>1, <3>2, <3>3 DEF MessagesOf
  <2>5. CASE f # e
    <3>1. taken'[f] = taken[f] /\ queue'[f] = queue[f]
      BY <1>1, <1>15, <1>5, <2>5 DEF WorkerInv, Types
    <3> QED BY <2>2, <2>3, <3>1 DEF MessagesOf
  <2> QED BY <2>4, <2>5
<1>10. \A w \in Workers : w \in AllThreads
  BY DEF AllThreads
<1>11. Counted'
  BY <1>1, <1>15, <1>10, CountedKept
<1>12. Lives'
  BY <1>1, <1>15, <1>10, LivesKept
<1>13. Listed'
  BY <1>1, <1>15, ListedKept
<1>14. Shared'
  <2>1. SUFFICES ASSUME NEW s \in Sabs PROVE SabOf(s)'
    BY DEF Shared
  <2>2. Buffers(s)' = Buffers(s) /\ sabRefs'[s] = sabRefs[s] /\ SabOf(s)
    BY <1>1, <1>15 DEF Buffers, WorkerInv, Shared
  <2>3. t \notin InHand(s) /\ (t \in InHand(s)' <=> s \in h.sabs)
    BY <1>1, <1>15, <1>2, <1>6, InHandChange
  <2> DEFINE m == <<e, h.id>>
  <2>4. Queued(s)' = Queued(s) \ {m} /\ (m \in Queued(s) <=> s \in h.sabs)
    BY <1>1, <1>15, <1>16, <1>6, QueuedTail
  <2>5. /\ IsFiniteSet(InHand(s)) /\ IsFiniteSet(Queued(s))
        /\ Cardinality(InHand(s)) \in Nat /\ Cardinality(Queued(s)) \in Nat
        /\ Cardinality(Buffers(s)) \in Nat
    BY FiniteUsers, FS_CardinalityType
  <2> HIDE DEF m
  <2>6. CASE s \in h.sabs
    <3>1. InHand(s)' = InHand(s) \cup {t}
      BY <1>2, <1>6, <2>3, <2>6, InHandChange
    <3>2. Cardinality(InHand(s) \cup {t}) = Cardinality(InHand(s)) + 1
      BY <2>3, <2>5, FS_AddElement
    <3>3. Cardinality(Queued(s) \ {m}) = Cardinality(Queued(s)) - 1
      BY <2>4, <2>5, <2>6, FS_RemoveElement
    <3> QED BY <2>2, <2>4, <2>5, <3>1, <3>2, <3>3 DEF SabOf
  <2>7. CASE s \notin h.sabs
    <3>1. InHand(s)' = InHand(s) \ {t}
      BY <1>2, <1>6, <2>3, <2>7, InHandChange
    <3>2. InHand(s)' = InHand(s) /\ Queued(s)' = Queued(s)
      BY <2>3, <2>4, <2>7, <3>1
    <3> QED BY <2>2, <3>2 DEF SabOf
  <2> QED BY <2>6, <2>7
<1> QED BY <1>6, <1>7, <1>8, <1>9, <1>11, <1>12, <1>13, <1>14 DEF WorkerInv

LEMMA ReadKeeps == ASSUME WorkerInv, NEW t \in AllThreads, Read(t) PROVE WorkerInv'
<1>1. /\ thread[t] = "read" /\ thread'[t] = "free"
      /\ \A u \in AllThreads \ {t} : thread'[u] = thread[u] /\ arg'[u] = arg[u]
      /\ thread' \in [AllThreads -> Points]
      /\ UNCHANGED <<arg, objects, wanted, ports, counts, queue, waker, lock, posted, taken>>
  BY DEF Read, Goto, pipes, history, WorkerInv, Types, Points
<1>2. Others(t)
  BY <1>1 DEF Others
<1>3. PICK m \in Message : arg[t][2] = m
  BY <1>1 DEF WorkerInv, Carried, CarriedBy
<1>4. PICK made \in SUBSET Sabs :
        \A s \in Sabs : /\ held'[t][s] = held[t][s] + (IF s \in made THEN 1 ELSE 0)
                        /\ sabRefs'[s] = sabRefs[s] + (IF s \in made THEN 1 ELSE 0)
                        /\ \A u \in AllThreads \ {t} : held'[u] = held[u]
  <2>1. held \in [AllThreads -> [Sabs -> Nat]] /\ sabRefs \in [Sabs -> Int]
    BY DEF WorkerInv, Types
  <2>2. CASE /\ held' = [held EXCEPT ![t] = [s \in Sabs |-> IF s \in arg[t][2].sabs THEN @[s] + 1 ELSE @[s]]]
             /\ sabRefs' = [s \in Sabs |-> IF s \in arg[t][2].sabs THEN sabRefs[s] + 1 ELSE sabRefs[s]]
    <3>1. m.sabs \in SUBSET Sabs
      BY DEF Message
    <3>2. \A s \in Sabs : /\ held'[t][s] = held[t][s] + (IF s \in m.sabs THEN 1 ELSE 0)
                          /\ sabRefs'[s] = sabRefs[s] + (IF s \in m.sabs THEN 1 ELSE 0)
                          /\ \A u \in AllThreads \ {t} : held'[u] = held[u]
      BY <1>3, <2>1, <2>2
    <3> QED BY <3>1, <3>2
  <2>3. CASE UNCHANGED <<held, sabRefs>>
    <3>1. PICK none \in SUBSET Sabs : none = {}
      OBVIOUS
    <3>2. \A s \in Sabs : /\ held'[t][s] = held[t][s] + (IF s \in none THEN 1 ELSE 0)
                          /\ sabRefs'[s] = sabRefs[s] + (IF s \in none THEN 1 ELSE 0)
                          /\ \A u \in AllThreads \ {t} : held'[u] = held[u]
      BY <2>1, <2>3, <3>1
    <3> QED BY <3>2
  <2> QED BY <2>2, <2>3 DEF Read
<1>5. Types'
  <2>1. held \in [AllThreads -> [Sabs -> Nat]] /\ sabRefs \in [Sabs -> Int]
    BY DEF WorkerInv, Types
  <2>2. sabRefs' \in [Sabs -> Int]
    BY <2>1 DEF Read
  <2>3. [s \in Sabs |-> IF s \in arg[t][2].sabs THEN held[t][s] + 1 ELSE held[t][s]] \in [Sabs -> Nat]
    BY <2>1
  <2>4. held' \in [AllThreads -> [Sabs -> Nat]]
    BY <2>1, <2>3 DEF Read
  <2> QED BY <1>1, <2>2, <2>4 DEF WorkerInv, Types
<1>6. Carried'
  <2>1. CarriedBy(t)'
    BY <1>1 DEF WorkerInv, Carried, CarriedBy, EndsOf
  <2> QED BY <1>1, <1>2, <2>1, CarriedKept
<1>7. Locked'
  BY <1>1, <1>2, LockedKept
<1>8. \A w \in Workers : w \in AllThreads
  BY DEF AllThreads
<1>9. Ordered' /\ Counted' /\ Lives' /\ Listed'
  <2>1. Ordered'
    BY <1>1, <1>8, OrderedKept
  <2>2. Counted'
    BY <1>1, <1>8, CountedKept
  <2>3. Lives'
    BY <1>1, <1>8, LivesKept
  <2>4. Listed'
    BY <1>1, ListedKept
  <2> QED BY <2>1, <2>2, <2>3, <2>4
<1>10. Shared'
  <2>1. SUFFICES ASSUME NEW s \in Sabs PROVE SabOf(s)'
    BY DEF Shared
  <2>2. Queued(s)' = Queued(s) /\ SabOf(s)
    BY <1>1 DEF Queued, WorkerInv, Shared
  <2>3. InHand(s)' = InHand(s)
    <3>1. t \in InHand(s)' <=> t \in InHand(s)
      BY <1>1, <1>2, <1>5, InHandChange
    <3>2. CASE t \in InHand(s)'
      <4>1. InHand(s)' = InHand(s) \cup {t}
        BY <1>2, <1>5, <3>2, InHandChange
      <4> QED BY <3>1, <3>2, <4>1
    <3>3. CASE t \notin InHand(s)'
      <4>1. InHand(s)' = InHand(s) \ {t}
        BY <1>2, <1>5, <3>3, InHandChange
      <4> QED BY <3>1, <3>3, <4>1
    <3> QED BY <3>2, <3>3
  <2>4. /\ IsFiniteSet(Buffers(s)) /\ Cardinality(Buffers(s)) \in Nat
        /\ Cardinality(Queued(s)) \in Nat /\ Cardinality(InHand(s)) \in Nat
    BY FiniteUsers, FS_CardinalityType
  <2>5. /\ held[t][s] \in Nat /\ sabRefs[s] \in Int
        /\ \A u \in AllThreads \ {t} : held'[u][s] = held[u][s]
    BY <1>4 DEF WorkerInv, Types
  <2>6. CASE s \in made
    <3>1. held'[t][s] = held[t][s] + 1 /\ sabRefs'[s] = sabRefs[s] + 1
      BY <1>4, <2>6
    <3>2. PICK b : Buffers(s)' = Buffers(s) \cup {b} /\ b \notin Buffers(s)
      BY <1>5, <2>5, <3>1, BuffersChange
    <3>3. Cardinality(Buffers(s) \cup {b}) = Cardinality(Buffers(s)) + 1
      BY <2>4, <3>2, FS_AddElement
    <3> QED BY <2>2, <2>3, <2>4, <3>1, <3>2, <3>3 DEF SabOf
  <2>7. CASE s \notin made
    <3>1. held'[t][s] = held[t][s] /\ sabRefs'[s] = sabRefs[s]
      BY <1>4, <2>5, <2>7
    <3>2. \A u \in AllThreads : held'[u][s] = held[u][s]
      BY <2>5, <3>1
    <3>3. DOMAIN held = AllThreads /\ DOMAIN held' = AllThreads
      BY <1>5 DEF WorkerInv, Types
    <3>4. Buffers(s)' = Buffers(s)
      BY <3>2, <3>3 DEF Buffers
    <3> QED BY <2>2, <2>3, <3>1, <3>4 DEF SabOf
  <2> QED BY <2>6, <2>7
<1> QED BY <1>5, <1>6, <1>7, <1>9, <1>10 DEF WorkerInv

LEMMA FreeMessageKeeps == ASSUME WorkerInv, NEW t \in AllThreads, FreeMessage(t) PROVE WorkerInv'
<1>1. PICK m \in Message :
        /\ arg[t][2] = m
        /\ sabRefs' = [s \in Sabs |-> IF s \in m.sabs THEN sabRefs[s] - 1 ELSE sabRefs[s]]
  BY DEF FreeMessage, WorkerInv, Carried, CarriedBy
<1>2. /\ thread[t] = "free" /\ thread'[t] = "run"
      /\ \A u \in AllThreads \ {t} : thread'[u] = thread[u] /\ arg'[u] = arg[u]
      /\ thread' \in [AllThreads -> Points]
      /\ UNCHANGED <<objects, wanted, ports, counts, queue, waker, lock, held, posted, taken>>
  BY DEF FreeMessage, Goto, pipes, history, WorkerInv, Types, Points
<1>3. Others(t)
  BY <1>2 DEF Others
<1>4. Types'
  <2>1. arg' \in [AllThreads -> {NoArg} \cup (Ends \X (Message \cup {NoArg}))]
    BY DEF FreeMessage, WorkerInv, Types
  <2>2. sabRefs' \in [Sabs -> Int]
    BY <1>1 DEF WorkerInv, Types
  <2> QED BY <1>2, <2>1, <2>2 DEF WorkerInv, Types
<1>5. Carried'
  <2>1. CarriedBy(t)'
    BY <1>2 DEF CarriedBy
  <2> QED BY <1>2, <1>3, <2>1, CarriedKept
<1>6. Locked'
  BY <1>2, <1>3, LockedKept
<1>7. \A w \in Workers : w \in AllThreads
  BY DEF AllThreads
<1>8. Ordered' /\ Counted' /\ Lives' /\ Listed'
  <2>1. Ordered'
    BY <1>2, <1>7, OrderedKept
  <2>2. Counted'
    BY <1>2, <1>7, CountedKept
  <2>3. Lives'
    BY <1>2, <1>7, LivesKept
  <2>4. Listed'
    BY <1>2, ListedKept
  <2> QED BY <2>1, <2>2, <2>3, <2>4
<1>9. Shared'
  <2>1. SUFFICES ASSUME NEW s \in Sabs PROVE SabOf(s)'
    BY DEF Shared
  <2>2. Queued(s)' = Queued(s) /\ Buffers(s)' = Buffers(s) /\ SabOf(s)
    BY <1>2 DEF Queued, Buffers, WorkerInv, Shared
  <2>3. t \notin InHand(s)' /\ (t \in InHand(s) <=> s \in m.sabs)
    BY <1>1, <1>2, <1>3, <1>4, InHandChange
  <2>4. InHand(s)' = InHand(s) \ {t}
    BY <1>3, <1>4, <2>3, InHandChange
  <2>5. /\ IsFiniteSet(InHand(s))
        /\ Cardinality(InHand(s)) \in Nat /\ Cardinality(Queued(s)) \in Nat
        /\ Cardinality(Buffers(s)) \in Nat
    BY FiniteUsers, FS_CardinalityType
  <2>6. sabRefs[s] \in Int /\ sabRefs'[s] = IF s \in m.sabs THEN sabRefs[s] - 1 ELSE sabRefs[s]
    BY <1>1 DEF WorkerInv, Types
  <2>7. CASE s \in m.sabs
    <3>1. Cardinality(InHand(s) \ {t}) = Cardinality(InHand(s)) - 1
      BY <2>3, <2>5, <2>7, FS_RemoveElement
    <3> QED BY <2>2, <2>4, <2>5, <2>6, <2>7, <3>1 DEF SabOf
  <2>8. CASE s \notin m.sabs
    <3>1. InHand(s)' = InHand(s)
      BY <2>3, <2>4, <2>8
    <3> QED BY <2>2, <2>6, <2>8, <3>1 DEF SabOf
  <2> QED BY <2>7, <2>8
<1> QED BY <1>4, <1>5, <1>6, <1>8, <1>9 DEF WorkerInv

-----------------------------------------------------------------------------
(***************************************************************************)
(* The specification                                                       *)
(***************************************************************************)

LEMMA InitWorkers == ASSUME WorkersAssumption, Init PROVE WorkerInv
<1>1. Types
  <2>1. \A t \in AllThreads : [s \in Sabs |-> IF t = "main" THEN 1 ELSE 0] \in [Sabs -> Nat]
    OBVIOUS
  <2>2. held \in [AllThreads -> [Sabs -> Nat]]
    BY <2>1 DEF Init
  <2>3. thread \in [AllThreads -> Points]
    BY DEF Init, Points
  <2>4. /\ arg \in [AllThreads -> {NoArg} \cup (Ends \X (Message \cup {NoArg}))]
        /\ objects \subseteq Ends /\ wanted \subseteq Ends
        /\ ports \in [AllThreads -> Seq(Ends)]
        /\ queue \in [Ends -> Seq(Message)]
        /\ lock \in [Ends -> AllThreads \cup {Nobody}]
    BY DEF Init
  <2>5. /\ counts \in [Ends -> Int] /\ waker \in [Ends -> Int] /\ sabRefs \in [Sabs -> Int]
        /\ posted \in [Ends -> Nat] /\ taken \in [Ends -> Nat]
    BY DEF Init
  <2> QED BY <2>2, <2>3, <2>4, <2>5 DEF Types
<1>2. \A e \in Ends : e[1] \in AllThreads /\ e[1] # "main"
  BY EndFacts DEF AllThreads, WorkersAssumption
<1>3. \A t \in AllThreads : thread[t] = IF t = "main" THEN "run" ELSE "none"
  BY DEF Init
<1>4. \A e \in Ends : /\ ~HasPort(e)
                      /\ counts[e] = 0 /\ queue[e] = <<>> /\ waker[e] = 0 /\ lock[e] = Nobody
                      /\ posted[e] = 0 /\ taken[e] = 0 /\ e \notin objects /\ Peer(e) \notin objects
                      /\ thread[e[1]] = "none"
  <2>1. \A e \in Ends : ~HasPort(e)
    <3>1. \A e \in Ends : ThreadOf(e) \in AllThreads /\ ports[ThreadOf(e)] = <<>>
      BY EndFacts DEF Init
    <3>2. ToSet(<<>>) = {}
      BY DEF ToSet
    <3> QED BY <3>1, <3>2 DEF HasPort
  <2> QED BY <1>2, <1>3, <2>1 DEF Init
<1>5. Carried
  BY <1>3 DEF Carried, CarriedBy
<1>6. Locked
  BY <1>3, <1>4 DEF Locked, LockOf, OneIf, WorkersAssumption, AllThreads
<1>7. Ordered
  <2>1. SUFFICES ASSUME NEW e \in Ends PROVE MessagesOf(e)
    BY DEF Ordered
  <2>2. queue[e] = <<>> /\ Len(queue[e]) = 0 /\ DOMAIN queue[e] = {}
    BY <1>4
  <2> QED BY <1>4, <2>2 DEF MessagesOf, WorkersAssumption
<1>8. Counted
  BY <1>4 DEF Counted, RefsOf, ObjectRefs, OneIf
<1>9. Lives
  BY <1>4 DEF Lives, LifeOf
<1>10. Listed
  BY <1>3 DEF Listed, PortsOf, Init, IsInjective, ToSet
<1>11. Shared
  <2>1. SUFFICES ASSUME NEW s \in Sabs PROVE SabOf(s)
    BY DEF Shared
  <2>2. Queued(s) = {}
    <3>1. \A e \in Ends : DOMAIN queue[e] = {}
      BY <1>4
    <3> QED BY <1>1, <3>1, QueuedMember DEF Types
  <2>3. InHand(s) = {}
    BY <1>1, <1>3 DEF InHand, Types
  <2>4. Buffers(s) = {<<"main", 1>>}
    <3>1. \A t \in AllThreads : held[t][s] = IF t = "main" THEN 1 ELSE 0
      BY DEF Init
    <3>2. \A b : b \in Buffers(s) <=> \E t \in AllThreads : \E n \in 1..held[t][s] : b = <<t, n>>
      BY <1>1, BuffersMember DEF Types
    <3>3. "main" \in AllThreads /\ held["main"][s] = 1
      BY <3>1 DEF AllThreads
    <3>4. \A t \in AllThreads : \A n \in 1..held[t][s] : t = "main" /\ n = 1
      BY <3>1
    <3>5. 1 \in 1..held["main"][s]
      BY <3>3
    <3> QED BY <3>2, <3>3, <3>4, <3>5
  <2>5. Cardinality({<<"main", 1>>}) = 1
    BY FS_Singleton
  <2>6. Cardinality({}) = 0
    BY FS_EmptySet
  <2>7. sabRefs[s] = 1
    BY DEF Init
  <2> QED BY <2>2, <2>3, <2>4, <2>5, <2>6, <2>7 DEF SabOf
<1> QED BY <1>1, <1>5, <1>6, <1>7, <1>8, <1>9, <1>10, <1>11 DEF WorkerInv

LEMMA NextWorkers == ASSUME WorkerInv, [Next]_vars PROVE WorkerInv'
<1>1. CASE Script
  <2>1. ASSUME NEW w \in Workers, Create(w) PROVE WorkerInv'
    BY <2>1, CreateKeeps
  <2>2. ASSUME NEW e \in Ends, SetOnMessage(e) PROVE WorkerInv'
    BY <2>2, SetOnMessageKeeps
  <2>3. ASSUME NEW e \in Ends, UnsetOnMessage(e) PROVE WorkerInv'
    BY <2>3, UnsetOnMessageKeeps
  <2>4. ASSUME NEW e \in Ends, Finalize(e) PROVE WorkerInv'
    BY <2>4, FinalizeKeeps
  <2>5. ASSUME NEW e \in Ends, NEW sabs \in SUBSET Sabs, Post(e, sabs) PROVE WorkerInv'
    BY <2>5, PostKeeps
  <2>6. ASSUME NEW t \in AllThreads, NEW s \in Sabs, DropSab(t, s) PROVE WorkerInv'
    BY <2>6, DropSabKeeps
  <2> QED BY <1>1, <2>1, <2>2, <2>3, <2>4, <2>5, <2>6 DEF Script
<1>2. ASSUME NEW t \in AllThreads, Thread(t) PROVE WorkerInv'
  <2>1. CASE t \in Workers /\ Start(t)
    BY <2>1, StartKeeps
  <2>2. CASE PostLock(t)
    BY <2>2, PostLockKeeps
  <2>3. CASE PostAppend(t)
    BY <2>3, PostAppendKeeps
  <2>4. CASE EndScript(t)
    BY <2>4, EndScriptKeeps
  <2>5. CASE Select(t)
    BY <2>5, SelectKeeps
  <2>6. CASE Take(t)
    BY <2>6, TakeKeeps
  <2>7. CASE Read(t)
    BY <2>7, ReadKeeps
  <2>8. CASE FreeMessage(t)
    BY <2>8, FreeMessageKeeps
  <2>9. CASE Leave(t)
    BY <2>9, LeaveKeeps
  <2>10. CASE FreeHandlers(t)
    BY <2>10, FreeHandlersKeeps
  <2>11. CASE FreeRuntime(t)
    BY <2>11, FreeRuntimeKeeps
  <2> QED BY <1>2, <2>1, <2>2, <2>3, <2>4, <2>5, <2>6, <2>7, <2>8, <2>9, <2>10, <2>11 DEF Thread
<1>3. CASE UNCHANGED vars
  <2>1. UNCHANGED <<thread, arg, objects, wanted, ports, counts, queue, waker, lock, sabRefs, held, posted, taken>>
    BY <1>3 DEF vars, pipes, history
  <2>2. Types' /\ Carried' /\ Locked' /\ Ordered' /\ Counted' /\ Lives' /\ Listed'
    <3>1. Types' /\ Carried' /\ Locked'
      BY <2>1 DEF WorkerInv, Types, Carried, CarriedBy, HasPort, Locked, LockOf
    <3>2. Ordered' /\ Counted'
      BY <2>1 DEF WorkerInv, Ordered, MessagesOf, Counted, RefsOf, ObjectRefs, OneIf, HasPort
    <3>3. Lives' /\ Listed'
      BY <2>1 DEF WorkerInv, Lives, LifeOf, HasPort, Listed, PortsOf
    <3> QED BY <3>1, <3>2, <3>3
  <2>3. Shared'
    BY <2>1 DEF WorkerInv, Shared, SabOf, Queued, InHand, Buffers
  <2> QED BY <2>2, <2>3 DEF WorkerInv
<1> QED BY <1>1, <1>2, <1>3 DEF Next

LEMMA WorkerInvariant == ASSUME WorkersAssumption PROVE Spec => []WorkerInv
<1>1. Init => WorkerInv
  BY InitWorkers
<1>2. WorkerInv /\ [Next]_vars => WorkerInv'
  BY NextWorkers
<1> QED BY <1>1, <1>2, PTL DEF Spec

LEMMA TypesHold == ASSUME WorkerInv PROVE TypeOK
<1>1. ASSUME NEW e \in Ends
      PROVE  /\ counts[e] \in 0..4 /\ waker[e] \in 0..1
             /\ posted[e] \in 0..MaxSent /\ taken[e] \in 0..MaxSent
  <2>1. counts[e] \in 0..4
    BY DEF WorkerInv, Counted, RefsOf, ObjectRefs, OneIf
  <2>2. waker[e] \in 0..1
    BY DEF WorkerInv, Locked, LockOf, OneIf
  <2>3. posted[e] \in Nat /\ taken[e] \in Nat /\ Len(queue[e]) \in Nat /\ MaxSent \in Nat
    BY DEF WorkerInv, WorkersAssumption, Types
  <2>4. posted[e] <= MaxSent /\ taken[e] + Len(queue[e]) <= posted[e]
    BY DEF WorkerInv, Ordered, MessagesOf
  <2> QED BY <2>1, <2>2, <2>3, <2>4
<1>2. ASSUME NEW s \in Sabs PROVE sabRefs[s] \in Nat
  <2>1. /\ Cardinality(Queued(s)) \in Nat /\ Cardinality(InHand(s)) \in Nat
        /\ Cardinality(Buffers(s)) \in Nat
    BY FiniteUsers, FS_CardinalityType
  <2> QED BY <2>1 DEF WorkerInv, Shared, SabOf
<1>3. /\ counts \in [Ends -> 0..4] /\ waker \in [Ends -> 0..1]
      /\ posted \in [Ends -> 0..MaxSent] /\ taken \in [Ends -> 0..MaxSent]
  BY <1>1 DEF WorkerInv, Types
<1>4. sabRefs \in [Sabs -> Nat]
  BY <1>2 DEF WorkerInv, Types
<1>5. \A t \in AllThreads : IsInjective(ports[t]) /\ ToSet(ports[t]) \subseteq EndsOf(t)
  BY DEF WorkerInv, Listed, PortsOf
<1> QED BY <1>3, <1>4, <1>5 DEF WorkerInv, Types, TypeOK

LEMMA PipesHold == ASSUME WorkerInv PROVE PipesExact
<1>1. /\ DOMAIN thread = AllThreads /\ DOMAIN queue = Ends
      /\ DOMAIN counts = Ends /\ DOMAIN sabRefs = Sabs
  BY DEF WorkerInv, Types
<1>2. WakerExact
  <2>1. \A e \in Ends : lock[e] \notin AllThreads => lock[e] = Nobody
    BY DEF WorkerInv, Types
  <2> QED BY <1>1, <2>1 DEF WakerExact, WorkerInv, Locked, LockOf
<1>3. RefsExact
  BY <1>1 DEF RefsExact, WorkerInv, Counted, RefsOf
<1>4. SabsExact
  BY <1>1 DEF SabsExact, WorkerInv, Shared, SabOf
<1>5. InOrder
  BY <1>1 DEF InOrder, WorkerInv, Ordered, MessagesOf
<1>6. NoPortLeft
  BY <1>1 DEF NoPortLeft, WorkerInv, Listed, PortsOf
<1>7. InUse
  <2>1. SUFFICES ASSUME NEW t \in AllThreads
                 PROVE  /\ thread[t] \in {"lock", "append"} => counts[Peer(arg[t][1])] > 0
                        /\ thread[t] = "take" => counts[arg[t][1]] > 0
    BY <1>1 DEF InUse
  <2>2. CarriedBy(t)
    BY DEF WorkerInv, Carried
  <2>3. CASE thread[t] \in {"lock", "append"}
    <3>1. arg[t][1] \in Ends /\ arg[t][1] \in objects
      BY <2>2, <2>3 DEF CarriedBy, EndsOf
    <3> QED BY <2>3, <3>1, PipeLives
  <2>4. CASE thread[t] = "take"
    <3>1. arg[t][1] \in Ends /\ HasPort(arg[t][1])
      BY <2>2, <2>4 DEF CarriedBy, EndsOf
    <3>2. arg[t][1] \in objects
      BY <3>1 DEF WorkerInv, Lives, LifeOf
    <3> QED BY <2>4, <3>1, <3>2, PipeLives
  <2>5. CASE thread[t] \notin {"lock", "append", "take"}
    BY <2>5
  <2> QED BY <2>3, <2>4, <2>5
<1> QED BY <1>2, <1>3, <1>4, <1>5, <1>6, <1>7 DEF PipesExact

\* The counts of pipes stay between none and the four users there can be, a
\* waker holds at most one byte (js_waker_signal), no block loses a reference
\* it does not have, and every list has only ends of its thread: for any
\* finite set of workers, any blocks and any number of messages.
THEOREM WorkersTypes == ASSUME WorkersAssumption PROVE Spec => []TypeOK
<1>1. WorkerInv => TypeOK
  BY TypesHold
<1> QED BY <1>1, WorkerInvariant, PTL

\* PipesExact: outside of js_mutex_lock a waker is readable exactly when its
\* queue has messages; ref_count of a pipe and of a block of shared memory is
\* the number of its users, so that nothing is freed in use or left over;
\* messages are taken once and in the order of postMessage; no port is left
\* when js_std_free_handlers has freed the list; and no thread posts to or
\* takes from a freed pipe.
THEOREM WorkersPipesExact == ASSUME WorkersAssumption PROVE Spec => []PipesExact
<1>1. WorkerInv => PipesExact
  BY PipesHold
<1> QED BY <1>1, WorkerInvariant, PTL

=============================================================================
