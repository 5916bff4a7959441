---------------------------- MODULE GGBridgeProofs ----------------------------
(***************************************************************************)
(* Proofs about GGBridge for any number of addresses, names and references:*)
(* an inductive invariant, and from it that counts are exact until a getter*)
(* is answered from functionCache, that nothing else frees an object in    *)
(* use, and that every JSIObject and JSIFunction finds its Kotlin object.  *)
(***************************************************************************)
EXTENDS GGBridge, FiniteSetTheorems, TLAPS

-----------------------------------------------------------------------------
(***************************************************************************)
(* The inductive invariant                                                 *)
(***************************************************************************)

Fun(c) == c.class \in {"JSIFunction", "closure"}

\* The reference the function cache owns to a cell whose address it holds.
Cached(c, k) == IF k /\ Fun(c) THEN 1 ELSE 0

\* The count of cell c, u the number of its users, k whether the function cache
\* holds its address, h whether there was a hit: after a hit the count of a
\* function may be too low, never too high.
CellOK(c, u, k, h) ==
    /\ c.class = "free" => c = FreeCell
    /\ c.class # "free" => c.rc >= 1
    /\ c.rc <= u + c.leaked + Cached(c, k)
    /\ ~h \/ ~Fun(c) => c.rc = u + c.leaked + Cached(c, k)

\* A freed cell with a user: only after a hit.
Stale(c, u, h) == h /\ c.class = "free" /\ u > 0

CountsInv ==
    \A a \in Addr : CellOK(heap[a], Users(a), a \in objFunctionCache, hit)

CountsOrStale ==
    \A a \in Addr : \/ CellOK(heap[a], Users(a), a \in objFunctionCache, hit)
                    \/ Stale(heap[a], Users(a), hit)

\* Until a hit, what the caches hold is alive.
CacheInv ==
    ~hit =>
        /\ \A a \in objFunctionCache : Fun(heap[a])
        /\ \A p \in Addr : heap[p].call # Nil => heap[p].call \in objFunctionCache

MapsInv ==
    \A a \in Addr :
        /\ heap[a].class = "JSIFunction" /\ heap[a].made # "native" =>
               trackMethodMap[a] = heap[a].made
        /\ heap[a].class = "JSIObject" /\ heap[a].made # "native" =>
               trackProxyMap[a] = heap[a].made

DownInv ==
    \A a \in Addr : heap[a] = FreeCell /\ script[a] = 0 /\ java[a] = 0

NoGlobals == \A n \in Names : global[n] = Nil

IInv ==
    /\ TypeOK
    /\ fault = "none" /\ phase = "up" => CountsInv /\ CacheInv /\ MapsInv
    /\ fault = "none" /\ phase = "down" => DownInv /\ NoGlobals
    /\ DanglingOnlyAfterHit
    /\ LeftOnlyIfLeaked

-----------------------------------------------------------------------------
(***************************************************************************)
(* Counting                                                                *)
(***************************************************************************)

\* The global variables that denote an object are finitely many; none denotes
\* it exactly when their number is zero.
LEMMA NamesNat ==
  ASSUME NEW b \in Addr
  PROVE  /\ Cardinality(NamesOf(b)) \in Nat /\ IsFiniteSet(NamesOf(b))
         /\ NamesOf(b) = {} => Cardinality(NamesOf(b)) = 0
         /\ NamesOf(b) # {} => Cardinality(NamesOf(b)) >= 1
<1>1. IsFiniteSet(NamesOf(b))
  <2>1. NamesOf(b) \subseteq Names
    BY DEF NamesOf
  <2> QED BY <2>1, FS_Subset, BridgeAssumption
<1>2. Cardinality(NamesOf(b)) \in Nat
  BY <1>1, FS_CardinalityType
<1>3. Cardinality(NamesOf(b)) = 0 <=> NamesOf(b) = {}
  BY <1>1, FS_EmptySet
<1> QED BY <1>1, <1>2, <1>3

\* An assignment to a global variable moves one use from its old value to its
\* new value.
LEMMA NamesAssign ==
  ASSUME TypeOK, NEW n \in Names, NEW v \in Addr \cup {Nil},
         global' = [global EXCEPT ![n] = v], NEW b \in Addr
  PROVE  /\ Cardinality(NamesOf(b)) \in Nat /\ Cardinality(NamesOf(b)') \in Nat
         /\ Cardinality(NamesOf(b)') =
                Cardinality(NamesOf(b)) + (IF b = v THEN 1 ELSE 0)
                    - (IF b = global[n] THEN 1 ELSE 0)
<1>1. Cardinality(NamesOf(b)) \in Nat /\ IsFiniteSet(NamesOf(b))
  BY NamesNat
<1>2. \A m \in Names : global'[m] = IF m = n THEN v ELSE global[m]
  BY DEF TypeOK
<1>3. CASE b = v /\ b = global[n]
  <2>1. NamesOf(b)' = NamesOf(b)
    BY <1>2, <1>3 DEF NamesOf
  <2> QED BY <1>1, <1>3, <2>1
<1>4. CASE b = v /\ b # global[n]
  <2>1. NamesOf(b)' = NamesOf(b) \cup {n} /\ n \notin NamesOf(b)
    BY <1>2, <1>4 DEF NamesOf
  <2>2. Cardinality(NamesOf(b) \cup {n}) = Cardinality(NamesOf(b)) + 1
    BY <1>1, <2>1, FS_AddElement
  <2> QED BY <1>1, <1>4, <2>1, <2>2
<1>5. CASE b # v /\ b = global[n]
  <2>1. NamesOf(b)' = NamesOf(b) \ {n} /\ n \in NamesOf(b)
    BY <1>2, <1>5 DEF NamesOf
  <2>2. /\ Cardinality(NamesOf(b) \ {n}) = Cardinality(NamesOf(b)) - 1
        /\ IsFiniteSet(NamesOf(b) \ {n})
    BY <1>1, <2>1, FS_RemoveElement
  <2>3. Cardinality(NamesOf(b) \ {n}) \in Nat
    BY <2>2, FS_CardinalityType
  <2> QED BY <1>1, <1>5, <2>1, <2>2, <2>3
<1>6. CASE b # v /\ b # global[n]
  <2>1. NamesOf(b)' = NamesOf(b)
    BY <1>2, <1>6 DEF NamesOf
  <2> QED BY <1>1, <1>6, <2>1
<1> QED BY <1>3, <1>4, <1>5, <1>6

\* One reference to a counted cell is freed together with one user of it: the
\* count stays right, or a hit is the reason that it does not, and then the
\* cell is freed.  A cached function survives until a hit.
LEMMA FreeCell1 ==
  ASSUME NEW h \in [Addr -> Cell], NEW a \in Addr, NEW u \in Nat, NEW k \in BOOLEAN,
         NEW t \in BOOLEAN, CellOK(h[a], u + 1, k, t)
  PROVE  /\ h[a].class # "free"
         /\ JS_FreeValue(h, a) \in [Addr -> Cell]
         /\ \A b \in Addr : b # a => JS_FreeValue(h, a)[b] = h[b]
         /\ \/ CellOK(JS_FreeValue(h, a)[a], u, k, t)
            \/ Stale(JS_FreeValue(h, a)[a], u, t)
         /\ \/ JS_FreeValue(h, a)[a] = FreeCell
            \/ JS_FreeValue(h, a)[a] = [h[a] EXCEPT !.rc = @ - 1]
         /\ ~t /\ k /\ Fun(h[a]) => Fun(JS_FreeValue(h, a)[a])
<1>n. a # Nil /\ MaxRefs \in Nat
  BY BridgeAssumption
<1>t. h[a] \in Cell /\ h[a].rc \in Nat /\ h[a].leaked \in Nat
  BY <1>n DEF Cell
<1>f. FreeCell \in Cell
  BY <1>n DEF FreeCell, Cell, Classes
<1>1. h[a].class # "free"
  BY <1>t DEF CellOK, FreeCell, Fun, Cached
<1>2. CASE h[a].rc = 1
  <2>1. JS_FreeValue(h, a) = [h EXCEPT ![a] = FreeCell]
    BY <1>2, <1>n DEF JS_FreeValue
  <2>2. JS_FreeValue(h, a)[a] = FreeCell
    BY <2>1
  <2>3. CellOK(FreeCell, u, k, t) \/ Stale(FreeCell, u, t)
    BY <1>2, <1>t DEF CellOK, Stale, Fun, Cached, FreeCell
  <2>4. ~(~t /\ k /\ Fun(h[a]))
    BY <1>2, <1>t DEF CellOK, Cached
  <2> QED BY <1>1, <1>f, <2>1, <2>2, <2>3, <2>4
<1>3. CASE h[a].rc # 1
  <2> DEFINE c == [h[a] EXCEPT !.rc = @ - 1]
  <2>0. h[a].rc >= 2
    BY <1>1, <1>3, <1>t DEF CellOK
  <2>1. JS_FreeValue(h, a) = [h EXCEPT ![a].rc = @ - 1]
    BY <1>3, <1>n DEF JS_FreeValue
  <2>2. JS_FreeValue(h, a)[a] = c
    BY <2>1
  <2>3. c \in Cell /\ c.rc = h[a].rc - 1 /\ c.class = h[a].class /\ c.leaked = h[a].leaked
    BY <2>0, <1>t DEF Cell
  <2>4. CellOK(c, u, k, t)
    BY <1>1, <1>t, <2>0, <2>3 DEF CellOK, Fun, Cached
  <2>5. Fun(h[a]) => Fun(c)
    BY <2>3 DEF Fun
  <2>6. JS_FreeValue(h, a) \in [Addr -> Cell]
    BY <2>1, <2>2, <2>3
  <2> HIDE DEF c
  <2> QED BY <1>1, <2>1, <2>2, <2>4, <2>5, <2>6 DEF c
<1> QED BY <1>2, <1>3

-----------------------------------------------------------------------------
(***************************************************************************)
(* Steps                                                                   *)
(***************************************************************************)

\* Cell d is what is left of cell c: it is freed, or it is still the same object.
Remains(c, d) ==
    \/ d = FreeCell
    \/ d.class = c.class /\ d.made = c.made /\ d.call = c.call /\ d.leaked = c.leaked

LEMMA RunFacts ==
  ASSUME IInv, Running
  PROVE  /\ TypeOK /\ CountsInv /\ CacheInv /\ MapsInv
         /\ phase = "up" /\ fault = "none"
         /\ Nil \notin Addr /\ MaxRefs \in Nat /\ MaxRefs >= 1
         /\ \A b \in Addr : /\ heap[b] \in Cell /\ heap[b].rc \in Nat /\ heap[b].leaked \in Nat
                            /\ script[b] \in Nat /\ java[b] \in Nat
                            /\ Cardinality(NamesOf(b)) \in Nat
                            /\ Users(b) \in Nat
<1>1. /\ TypeOK /\ CountsInv /\ CacheInv /\ MapsInv
      /\ phase = "up" /\ fault = "none"
  BY DEF IInv, Running
<1>2. Nil \notin Addr /\ MaxRefs \in Nat /\ MaxRefs >= 1 /\ MaxJava \in Nat
  BY BridgeAssumption
<1>3. ASSUME NEW b \in Addr
      PROVE  /\ heap[b] \in Cell /\ heap[b].rc \in Nat /\ heap[b].leaked \in Nat
             /\ script[b] \in Nat /\ java[b] \in Nat
             /\ Cardinality(NamesOf(b)) \in Nat
             /\ Users(b) \in Nat
  <2>1. heap[b] \in Cell /\ script[b] \in Nat /\ java[b] \in Nat
    BY <1>1, <1>2 DEF TypeOK
  <2>2. heap[b].rc \in Nat /\ heap[b].leaked \in Nat
    BY <2>1, <1>2 DEF Cell
  <2>3. Cardinality(NamesOf(b)) \in Nat
    BY NamesNat
  <2> QED BY <2>1, <2>2, <2>3 DEF Users
<1> QED BY <1>1, <1>2, <1>3

\* A free cell has no user while nothing went wrong, and no entry in the
\* function cache before a hit.
LEMMA FreeFacts ==
  ASSUME IInv, Running, NEW a \in Addr, Free(a)
  PROVE  /\ Users(a) = 0 /\ script[a] = 0 /\ java[a] = 0 /\ Cardinality(NamesOf(a)) = 0
         /\ heap[a] = FreeCell
         /\ ~hit => a \notin objFunctionCache
         /\ \A n \in Names : global[n] # a
<1>1. heap[a] = FreeCell /\ ~Fun(heap[a])
  BY RunFacts DEF CountsInv, CellOK, Free, Fun
<1>2. Users(a) = 0
  BY <1>1, RunFacts DEF CountsInv, CellOK, Free, Fun, Cached, FreeCell
<1>3. script[a] = 0 /\ java[a] = 0 /\ Cardinality(NamesOf(a)) = 0
  BY <1>2, RunFacts DEF Users
<1>4. NamesOf(a) = {}
  BY <1>3, NamesNat
<1>5. ~hit => a \notin objFunctionCache
  BY <1>1, RunFacts DEF CacheInv
<1> QED BY <1>1, <1>2, <1>3, <1>4, <1>5 DEF NamesOf

\* Users are counted by numbers after the step, too.
LEMMA UsersNext ==
  ASSUME TypeOK'
  PROVE  \A b \in Addr : Users(b)' \in Nat
<1> SUFFICES ASSUME NEW b \in Addr
             PROVE  Users(b)' \in Nat
  OBVIOUS
<1>1. Cardinality(NamesOf(b)') \in Nat
  <2>1. NamesOf(b)' \subseteq Names
    BY DEF NamesOf
  <2> QED BY <2>1, FS_Subset, FS_CardinalityType, BridgeAssumption
<1>2. script'[b] \in Nat /\ java'[b] \in Nat
  BY BridgeAssumption DEF TypeOK
<1> QED BY <1>1, <1>2 DEF Users

\* The cases of a fault a step reports with Watch.
LEMMA WatchInv ==
  ASSUME TypeOK', phase' = "up", CountsOrStale', CacheInv', MapsInv', Watch
  PROVE  IInv'
<1>1. CASE Dangling'
  <2>1. PICK a \in Addr : Free(a)' /\ Users(a)' > 0
    BY <1>1 DEF Dangling
  <2>2. ~CellOK(heap[a], Users(a), a \in objFunctionCache, hit)'
    BY <2>1, UsersNext DEF Free, CellOK, Cached, Fun, FreeCell
  <2>3. hit'
    BY <2>2 DEF CountsOrStale, Stale
  <2>4. fault' = "dangling"
    BY <1>1 DEF Watch
  <2> QED BY <2>3, <2>4 DEF IInv, DanglingOnlyAfterHit, LeftOnlyIfLeaked
<1>2. CASE ~Dangling'
  <2>1. \A a \in Addr : ~Stale(heap[a], Users(a), hit)'
    BY <1>2 DEF Dangling, Stale, Free
  <2>2. CountsInv'
    BY <2>1 DEF CountsInv, CountsOrStale
  <2>3. fault' = "none"
    BY <1>2 DEF Watch
  <2> QED BY <2>2, <2>3 DEF IInv, DanglingOnlyAfterHit, LeftOnlyIfLeaked
<1> QED BY <1>1, <1>2

\* What is left of every cell keeps its entries in the maps.
LEMMA MapsKept ==
  ASSUME MapsInv, UNCHANGED maps, \A b \in Addr : Remains(heap[b], heap'[b])
  PROVE  MapsInv'
BY DEF MapsInv, maps, Remains, FreeCell

\* What is left of every cell is still alive if the function cache holds it.
LEMMA CacheKept ==
  ASSUME CacheInv, TypeOK, UNCHANGED <<objFunctionCache, hit>>,
         \A b \in Addr : Remains(heap[b], heap'[b]),
         \A b \in Addr : ~hit /\ b \in objFunctionCache /\ Fun(heap[b]) => Fun(heap'[b])
  PROVE  CacheInv'
<1>1. objFunctionCache \subseteq Addr
  BY DEF TypeOK
<1>2. \A p \in Addr : heap'[p].call # Nil => heap'[p].call = heap[p].call
  BY DEF Remains, FreeCell
<1> QED BY <1>1, <1>2 DEF CacheInv

\* A user of a gives its reference up.
LEMMA GiveUpInv ==
  ASSUME IInv, Running, NEW a \in Addr, heap' = JS_FreeValue(heap, a),
         Users(a)' \in Nat, Users(a) = Users(a)' + 1,
         \A b \in Addr : b # a => Users(b)' = Users(b),
         script' \in [Addr -> 0..MaxRefs], java' \in [Addr -> 0..MaxJava],
         UNCHANGED <<phase, global, globalLeak, objFunctionCache, maps, hit>>, Watch
  PROVE  IInv'
<1> DEFINE k == a \in objFunctionCache
<1>1. /\ TypeOK /\ CountsInv /\ CacheInv /\ MapsInv /\ heap \in [Addr -> Cell]
      /\ hit \in BOOLEAN /\ k \in BOOLEAN /\ phase = "up"
  BY RunFacts DEF TypeOK
<1>2. CellOK(heap[a], Users(a)' + 1, k, hit)
  BY <1>1 DEF CountsInv
<1> HIDE DEF k
<1>3. /\ heap' \in [Addr -> Cell]
      /\ \A b \in Addr : b # a => heap'[b] = heap[b]
      /\ CellOK(heap'[a], Users(a)', k, hit) \/ Stale(heap'[a], Users(a)', hit)
      /\ heap'[a] = FreeCell \/ heap'[a] = [heap[a] EXCEPT !.rc = @ - 1]
      /\ ~hit /\ k /\ Fun(heap[a]) => Fun(heap'[a])
  BY <1>1, <1>2, FreeCell1
<1>4. \A b \in Addr : Remains(heap[b], heap'[b])
  BY <1>1, <1>3 DEF Remains, Cell
<1>5. \A b \in Addr : ~hit /\ b \in objFunctionCache /\ Fun(heap[b]) => Fun(heap'[b])
  BY <1>3 DEF k
<1>6. CountsOrStale'
  <2>1. objFunctionCache' = objFunctionCache /\ hit' = hit
    OBVIOUS
  <2>2. ASSUME NEW b \in Addr
        PROVE  \/ CellOK(heap'[b], Users(b)', b \in objFunctionCache, hit)
               \/ Stale(heap'[b], Users(b)', hit)
    BY <1>1, <1>3 DEF CountsInv, k
  <2> QED BY <2>1, <2>2 DEF CountsOrStale
<1>7. CacheInv' /\ MapsInv'
  BY <1>1, <1>4, <1>5, MapsKept, CacheKept
<1>8. TypeOK'
  BY <1>1, <1>3 DEF TypeOK, maps, Watch
<1> QED BY <1>1, <1>6, <1>7, <1>8, WatchInv

LEMMA DropInv == ASSUME IInv, NEW a \in Addr, Drop(a) PROVE IInv'
<1> USE DEF Drop
<1>1. /\ TypeOK /\ \A b \in Addr : script[b] \in Nat /\ java[b] \in Nat
      /\ \A b \in Addr : Cardinality(NamesOf(b)) \in Nat
  BY RunFacts
<1>2. script' \in [Addr -> 0..MaxRefs] /\ script'[a] = script[a] - 1
  BY <1>1, BridgeAssumption DEF TypeOK
<1>3. \A b \in Addr : b # a => script'[b] = script[b]
  BY <1>1 DEF TypeOK
<1>4. \A b \in Addr : NamesOf(b)' = NamesOf(b)
  BY DEF NamesOf
<1>5. /\ Users(a)' \in Nat /\ Users(a) = Users(a)' + 1
      /\ \A b \in Addr : b # a => Users(b)' = Users(b)
  BY <1>1, <1>2, <1>3, <1>4 DEF Users
<1>6. java' \in [Addr -> 0..MaxJava]
  BY <1>1 DEF TypeOK
<1> QED BY <1>2, <1>5, <1>6, GiveUpInv

LEMMA ReleaseRefCountInv == ASSUME IInv, NEW a \in Addr, ReleaseRefCount(a) PROVE IInv'
<1> USE DEF ReleaseRefCount
<1>1. /\ TypeOK /\ \A b \in Addr : script[b] \in Nat /\ java[b] \in Nat
      /\ \A b \in Addr : Cardinality(NamesOf(b)) \in Nat
  BY RunFacts
<1>2. java' \in [Addr -> 0..MaxJava] /\ java'[a] = java[a] - 1
  BY <1>1, BridgeAssumption DEF TypeOK
<1>3. \A b \in Addr : b # a => java'[b] = java[b]
  BY <1>1 DEF TypeOK
<1>4. \A b \in Addr : NamesOf(b)' = NamesOf(b)
  BY DEF NamesOf
<1>5. /\ Users(a)' \in Nat /\ Users(a) = Users(a)' + 1
      /\ \A b \in Addr : b # a => Users(b)' = Users(b)
  BY <1>1, <1>2, <1>3, <1>4 DEF Users
<1>6. script' \in [Addr -> 0..MaxRefs]
  BY <1>1 DEF TypeOK
<1> QED BY <1>2, <1>5, <1>6, GiveUpInv

\* Global variable n takes over a reference to v that is already counted in h.
LEMMA AssignInv ==
  ASSUME IInv, Running, NEW n \in Names, NEW v \in Addr \cup {Nil},
         NEW h \in [Addr -> Cell], SetGlobalProperty(h, n, v),
         script' \in [Addr -> 0..MaxRefs], globalLeak' \in 0..MaxLeaks,
         trackProxyMap' \in [Addr -> Proxies \cup {Nil}],
         trackMethodMap' \in [Addr -> Methods \cup {Nil}],
         \A b \in Addr : CellOK(h[b], script'[b] + java[b] + Cardinality(NamesOf(b))
                                        + (IF b = v THEN 1 ELSE 0),
                                b \in objFunctionCache, hit),
         ~hit => /\ \A b \in objFunctionCache : Fun(h[b])
                 /\ \A p \in Addr : h[p].call # Nil => h[p].call \in objFunctionCache,
         \A b \in Addr :
            /\ h[b].class = "JSIFunction" /\ h[b].made # "native" =>
                   trackMethodMap'[b] = h[b].made
            /\ h[b].class = "JSIObject" /\ h[b].made # "native" =>
                   trackProxyMap'[b] = h[b].made,
         UNCHANGED <<phase, java, objFunctionCache, hit>>, Watch
  PROVE  IInv'
<1> DEFINE old == global[n]
           U(b) == script'[b] + java[b] + Cardinality(NamesOf(b)')
<1>1. /\ TypeOK /\ hit \in BOOLEAN /\ phase = "up" /\ Nil \notin Addr
      /\ old \in Addr \cup {Nil}
      /\ \A b \in Addr : java[b] \in Nat /\ script'[b] \in Nat
  <2>1. TypeOK /\ phase = "up" /\ Nil \notin Addr /\ MaxRefs \in Nat
    BY RunFacts
  <2>2. \A b \in Addr : java[b] \in Nat
    BY RunFacts
  <2> QED BY <2>1, <2>2 DEF TypeOK
<1>2. ASSUME NEW b \in Addr
      PROVE  /\ Cardinality(NamesOf(b)) \in Nat /\ Cardinality(NamesOf(b)') \in Nat
             /\ Cardinality(NamesOf(b)') =
                   Cardinality(NamesOf(b)) + (IF b = v THEN 1 ELSE 0)
                       - (IF b = old THEN 1 ELSE 0)
  BY <1>1, NamesAssign DEF SetGlobalProperty
<1>3. ASSUME NEW b \in Addr
      PROVE  /\ U(b) \in Nat /\ Users(b)' = U(b)
             /\ script'[b] + java[b] + Cardinality(NamesOf(b)) + (IF b = v THEN 1 ELSE 0)
                   = U(b) + (IF b = old THEN 1 ELSE 0)
  <2>1. Users(b)' = script'[b] + Cardinality(NamesOf(b)') + java[b]
    BY DEF Users
  <2>2. Users(b)' = U(b)
    BY <1>1, <1>2, <2>1
  <2> QED BY <1>1, <1>2, <2>2
<1> HIDE DEF U
<1>4. \A b \in Addr : CellOK(h[b], U(b) + (IF b = old THEN 1 ELSE 0), b \in objFunctionCache, hit)
  <2> SUFFICES ASSUME NEW b \in Addr
               PROVE  CellOK(h[b], U(b) + (IF b = old THEN 1 ELSE 0), b \in objFunctionCache, hit)
    OBVIOUS
  <2>1. script'[b] + java[b] + Cardinality(NamesOf(b)) + (IF b = v THEN 1 ELSE 0)
            = U(b) + (IF b = old THEN 1 ELSE 0)
    BY <1>3
  <2> QED BY <2>1
<1>5. /\ heap' \in [Addr -> Cell]
      /\ \A b \in Addr : Remains(h[b], heap'[b])
      /\ \A b \in Addr : ~hit /\ b \in objFunctionCache /\ Fun(h[b]) => Fun(heap'[b])
      /\ \A b \in Addr : \/ CellOK(heap'[b], U(b), b \in objFunctionCache, hit)
                         \/ Stale(heap'[b], U(b), hit)
  <2>1. CASE old = Nil
    <3>1. heap' = h
      BY <2>1 DEF SetGlobalProperty, JS_FreeValue
    <3>2. ASSUME NEW b \in Addr PROVE CellOK(h[b], U(b), b \in objFunctionCache, hit)
      <4>1. U(b) + (IF b = old THEN 1 ELSE 0) = U(b)
        BY <2>1, <1>1, <1>3
      <4> QED BY <4>1, <1>4
    <3> QED BY <3>1, <3>2 DEF Remains
  <2>2. CASE old \in Addr
    <3> DEFINE k == old \in objFunctionCache
    <3>1. heap' = JS_FreeValue(h, old)
      BY DEF SetGlobalProperty
    <3>2. U(old) \in Nat /\ CellOK(h[old], U(old) + 1, k, hit) /\ k \in BOOLEAN
      BY <1>3, <1>4, <2>2
    <3> HIDE DEF k, old
    <3>3. /\ heap' \in [Addr -> Cell]
          /\ \A b \in Addr : b # old => heap'[b] = h[b]
          /\ CellOK(heap'[old], U(old), k, hit) \/ Stale(heap'[old], U(old), hit)
          /\ heap'[old] = FreeCell \/ heap'[old] = [h[old] EXCEPT !.rc = @ - 1]
          /\ ~hit /\ k /\ Fun(h[old]) => Fun(heap'[old])
      BY <1>1, <2>2, <3>1, <3>2, FreeCell1
    <3>4. \A b \in Addr : Remains(h[b], heap'[b])
      BY <3>3 DEF Remains, Cell
    <3>5. ASSUME NEW b \in Addr, b # old
          PROVE  CellOK(heap'[b], U(b), b \in objFunctionCache, hit)
      <4>1. U(b) + (IF b = old THEN 1 ELSE 0) = U(b)
        BY <3>5, <1>3
      <4> QED BY <4>1, <3>5, <3>3, <1>4
    <3> QED BY <3>3, <3>4, <3>5 DEF k
  <2> QED BY <1>1, <2>1, <2>2
<1>6. CountsOrStale'
  <2>1. objFunctionCache' = objFunctionCache /\ hit' = hit /\ \A b \in Addr : Users(b)' = U(b)
    BY <1>3
  <2> QED BY <1>5, <2>1 DEF CountsOrStale
<1>7. CacheInv'
  <2>1. objFunctionCache \subseteq Addr
    BY <1>1 DEF TypeOK
  <2>2. \A p \in Addr : heap'[p].call # Nil => heap'[p].call = h[p].call
    BY <1>5 DEF Remains, FreeCell
  <2> QED BY <1>5, <2>1, <2>2 DEF CacheInv
<1>8. MapsInv'
  BY <1>5 DEF MapsInv, Remains, FreeCell
<1>9. TypeOK'
  <2>1. global' \in [Names -> Addr \cup {Nil}]
    BY <1>1 DEF SetGlobalProperty, TypeOK
  <2> QED BY <1>1, <1>5, <2>1 DEF TypeOK, Watch
<1> QED BY <1>1, <1>6, <1>7, <1>8, <1>9, WatchInv

\* The heap with a new object at a free address, which nothing refers to yet.
LEMMA NewFacts ==
  ASSUME IInv, Running, NEW a \in Addr, Free(a), NEW c \in Classes \ {"free"},
         NEW who \in Methods \cup Proxies \cup {"native"}, NEW h,
         h = [heap EXCEPT ![a] = NewCell(c, who)]
  PROVE  /\ h \in [Addr -> Cell]
         /\ h[a] = NewCell(c, who) /\ \A b \in Addr : b # a => h[b] = heap[b]
         /\ CellOK(NewCell(c, who), 1, a \in objFunctionCache, hit)
         /\ Users(a) = 0
         /\ ~hit => /\ \A b \in objFunctionCache : Fun(h[b])
                    /\ \A p \in Addr : h[p].call # Nil => h[p].call \in objFunctionCache
<1>1. TypeOK /\ CacheInv /\ MaxRefs \in Nat
  BY RunFacts
<1>2. NewCell(c, who) \in Cell
  BY <1>1 DEF NewCell, Cell
<1>3. Users(a) = 0 /\ (~hit => a \notin objFunctionCache)
  BY FreeFacts
<1>4. CellOK(NewCell(c, who), 1, a \in objFunctionCache, hit)
  BY <1>3 DEF CellOK, NewCell, Fun, Cached
<1>5. /\ h \in [Addr -> Cell]
      /\ h[a] = NewCell(c, who) /\ \A b \in Addr : b # a => h[b] = heap[b]
  BY <1>1, <1>2 DEF TypeOK
<1>6. ASSUME ~hit
      PROVE  /\ \A b \in objFunctionCache : Fun(h[b])
             /\ \A p \in Addr : h[p].call # Nil => h[p].call \in objFunctionCache
  <2>1. \A b \in objFunctionCache : b \in Addr /\ b # a
    BY <1>1, <1>3, <1>6 DEF TypeOK
  <2>2. \A b \in objFunctionCache : Fun(h[b])
    BY <1>1, <1>5, <1>6, <2>1 DEF CacheInv
  <2>3. h[a].call = Nil
    BY <1>5 DEF NewCell
  <2> QED BY <1>1, <1>5, <1>6, <2>2, <2>3 DEF CacheInv
<1> QED BY <1>3, <1>4, <1>5, <1>6

\* A new object is given to global variable n.
LEMMA NewGlobalInv ==
  ASSUME IInv, Running, NEW a \in Addr, Free(a), NEW n \in Names,
         NEW c \in {"JSIObject", "JSIFunction"}, NEW who \in Methods \cup Proxies,
         SetGlobalProperty([heap EXCEPT ![a] = NewCell(c, who)], n, a),
         c = "JSIFunction" => /\ who \in Methods
                              /\ trackMethodMap' = [trackMethodMap EXCEPT ![a] = who]
                              /\ trackProxyMap' = trackProxyMap,
         c = "JSIObject" => /\ who \in Proxies
                            /\ trackProxyMap' = [trackProxyMap EXCEPT ![a] = who]
                            /\ trackMethodMap' = trackMethodMap,
         globalLeak' \in 0..MaxLeaks,
         UNCHANGED <<phase, script, java, objFunctionCache, hit>>, Watch
  PROVE  IInv'
<1> DEFINE h == [heap EXCEPT ![a] = NewCell(c, who)]
<1>1. /\ h \in [Addr -> Cell]
      /\ h[a] = NewCell(c, who) /\ \A b \in Addr : b # a => h[b] = heap[b]
      /\ CellOK(NewCell(c, who), 1, a \in objFunctionCache, hit)
      /\ Users(a) = 0
      /\ ~hit => /\ \A b \in objFunctionCache : Fun(h[b])
                 /\ \A p \in Addr : h[p].call # Nil => h[p].call \in objFunctionCache
  BY NewFacts DEF Classes
<1>2. SetGlobalProperty(h, n, a)
  OBVIOUS
<1> HIDE DEF h
<1>3. TypeOK /\ CountsInv /\ MapsInv /\ script' = script /\ \A b \in Addr : Users(b) \in Nat
  BY RunFacts
<1>4. ASSUME NEW b \in Addr
      PROVE  CellOK(h[b], script'[b] + java[b] + Cardinality(NamesOf(b))
                            + (IF b = a THEN 1 ELSE 0), b \in objFunctionCache, hit)
  <2>1. script'[b] + java[b] + Cardinality(NamesOf(b)) = Users(b)
    <3>1. script[b] \in Nat /\ java[b] \in Nat /\ Cardinality(NamesOf(b)) \in Nat
      BY RunFacts
    <3> QED BY <3>1, <1>3 DEF Users
  <2>2. CASE b = a
    BY <2>1, <2>2, <1>1
  <2>3. CASE b # a
    <3>1. Users(b) + 0 = Users(b)
      BY <1>3
    <3> QED BY <2>1, <2>3, <3>1, <1>1, <1>3 DEF CountsInv
  <2> QED BY <2>2, <2>3
<1>5. \A b \in Addr :
         /\ h[b].class = "JSIFunction" /\ h[b].made # "native" =>
                trackMethodMap'[b] = h[b].made
         /\ h[b].class = "JSIObject" /\ h[b].made # "native" =>
                trackProxyMap'[b] = h[b].made
  <2>1. /\ h[a].class = c /\ h[a].made = who
    BY <1>1 DEF NewCell
  <2>2. \A b \in Addr : b # a => /\ trackMethodMap'[b] = trackMethodMap[b]
                                /\ trackProxyMap'[b] = trackProxyMap[b]
    BY <1>3 DEF TypeOK
  <2>3. /\ c = "JSIFunction" => trackMethodMap'[a] = who
        /\ c = "JSIObject" => trackProxyMap'[a] = who
    BY <1>3 DEF TypeOK
  <2> QED BY <1>1, <1>3, <2>1, <2>2, <2>3 DEF MapsInv
<1>6. /\ trackProxyMap' \in [Addr -> Proxies \cup {Nil}]
      /\ trackMethodMap' \in [Addr -> Methods \cup {Nil}]
      /\ script' \in [Addr -> 0..MaxRefs]
  BY <1>3 DEF TypeOK
<1> QED BY <1>1, <1>2, <1>4, <1>5, <1>6, AssignInv

LEMMA SetGlobalFunInv ==
  ASSUME IInv, NEW n \in Names, NEW m \in Methods, NEW a \in Addr, SetGlobalFun(n, m, a)
  PROVE  IInv'
<1>1. globalLeak' \in 0..MaxLeaks
  BY RunFacts, BridgeAssumption DEF SetGlobalFun, TypeOK
<1> QED BY <1>1, NewGlobalInv DEF SetGlobalFun, CreateJSFunction

LEMMA SetGlobalObjInv ==
  ASSUME IInv, NEW n \in Names, NEW o \in Proxies, NEW a \in Addr, SetGlobalObj(n, o, a)
  PROVE  IInv'
<1>1. globalLeak' \in 0..MaxLeaks
  BY RunFacts DEF SetGlobalObj, TypeOK
<1> QED BY <1>1, NewGlobalInv DEF SetGlobalObj, CreateJSObject

LEMMA WriteGlobalInv ==
  ASSUME IInv, NEW n \in Names, NEW a \in Addr \cup {Nil}, WriteGlobal(n, a)
  PROVE  IInv'
<1> USE DEF WriteGlobal
<1>1. /\ TypeOK /\ CountsInv /\ CacheInv /\ MapsInv /\ heap \in [Addr -> Cell]
      /\ Nil \notin Addr /\ MaxRefs \in Nat
  BY RunFacts DEF TypeOK
<1>2. /\ script' \in [Addr -> 0..MaxRefs]
      /\ \A b \in Addr : script'[b] = IF b = a THEN script[b] - 1 ELSE script[b]
  BY <1>1 DEF TypeOK
<1>3. ASSUME NEW b \in Addr
      PROVE  CellOK(heap[b], script'[b] + java[b] + Cardinality(NamesOf(b))
                             + (IF b = a THEN 1 ELSE 0), b \in objFunctionCache, hit)
  <2>1. script[b] \in Nat /\ java[b] \in Nat /\ Cardinality(NamesOf(b)) \in Nat
    BY RunFacts
  <2>2. script'[b] + java[b] + Cardinality(NamesOf(b)) + (IF b = a THEN 1 ELSE 0) = Users(b)
    BY <1>2, <2>1 DEF Users
  <2> QED BY <1>1, <2>2 DEF CountsInv
<1>4. \A b \in Addr :
         /\ heap[b].class = "JSIFunction" /\ heap[b].made # "native" =>
                trackMethodMap'[b] = heap[b].made
         /\ heap[b].class = "JSIObject" /\ heap[b].made # "native" =>
                trackProxyMap'[b] = heap[b].made
  BY <1>1 DEF MapsInv, maps
<1>5. /\ trackProxyMap' \in [Addr -> Proxies \cup {Nil}]
      /\ trackMethodMap' \in [Addr -> Methods \cup {Nil}]
      /\ globalLeak' \in 0..MaxLeaks
  BY <1>1 DEF TypeOK, maps
<1>6. ~hit => /\ \A b \in objFunctionCache : Fun(heap[b])
              /\ \A p \in Addr : heap[p].call # Nil => heap[p].call \in objFunctionCache
  BY <1>1 DEF CacheInv
<1> QED BY <1>1, <1>2, <1>3, <1>4, <1>5, <1>6, AssignInv

\* A step that does not assign global variables leaves their counts.
LEMMA SameNames ==
  ASSUME UNCHANGED global, NEW b \in Addr
  PROVE  NamesOf(b)' = NamesOf(b)
BY DEF NamesOf

\* The rules for a step that cannot free a cell.
LEMMA CalmInv ==
  ASSUME TypeOK', phase' = "up", fault' = "none", CountsInv', CacheInv', MapsInv'
  PROVE  IInv'
BY DEF IInv, DanglingOnlyAfterHit, LeftOnlyIfLeaked

\* Somebody takes a further reference to a, counted.
LEMMA TakeInv ==
  ASSUME IInv, Running, NEW a \in Addr, ~Free(a), heap' = JS_DupValue(heap, a),
         Users(a)' = Users(a) + 1,
         \A b \in Addr : b # a => Users(b)' = Users(b),
         script' \in [Addr -> 0..MaxRefs], java' \in [Addr -> 0..MaxJava],
         UNCHANGED <<phase, global, globalLeak, objFunctionCache, maps, hit, fault>>
  PROVE  IInv'
<1>1. /\ TypeOK /\ CountsInv /\ CacheInv /\ MapsInv /\ heap \in [Addr -> Cell]
      /\ phase = "up" /\ fault = "none"
      /\ \A b \in Addr : Users(b) \in Nat
      /\ heap[a].rc \in Nat /\ heap[a].leaked \in Nat
  BY RunFacts DEF TypeOK
<1>2. /\ heap' \in [Addr -> Cell]
      /\ \A b \in Addr : b # a => heap'[b] = heap[b]
      /\ heap'[a] = [heap[a] EXCEPT !.rc = @ + 1]
  BY <1>1 DEF JS_DupValue, Cell
<1>3. /\ heap'[a].rc = heap[a].rc + 1 /\ heap'[a].class = heap[a].class
      /\ heap'[a].made = heap[a].made /\ heap'[a].call = heap[a].call
      /\ heap'[a].leaked = heap[a].leaked
  BY <1>1, <1>2 DEF Cell
<1>4. CountsInv'
  <2>1. CellOK(heap'[a], Users(a) + 1, a \in objFunctionCache, hit)
    BY <1>1, <1>3 DEF CountsInv, CellOK, Fun, Cached, Free
  <2>2. ASSUME NEW b \in Addr
        PROVE  CellOK(heap'[b], Users(b)', b \in objFunctionCache, hit)
    BY <1>1, <1>2, <2>1 DEF CountsInv
  <2> QED BY <2>2 DEF CountsInv
<1>5. \A b \in Addr : Remains(heap[b], heap'[b]) /\ (Fun(heap[b]) => Fun(heap'[b]))
  BY <1>2, <1>3 DEF Remains, Fun
<1>6. CacheInv' /\ MapsInv'
  BY <1>1, <1>5, MapsKept, CacheKept
<1>7. TypeOK'
  BY <1>1, <1>2 DEF TypeOK, maps
<1> QED BY <1>1, <1>4, <1>6, <1>7, CalmInv

LEMMA AddRefCountInv == ASSUME IInv, NEW a \in Addr, AddRefCount(a) PROVE IInv'
<1> USE DEF AddRefCount
<1>1. TypeOK /\ \A b \in Addr : /\ script[b] \in Nat /\ java[b] \in Nat
                               /\ Cardinality(NamesOf(b)) \in Nat
  BY RunFacts
<1>2. /\ java' \in [Addr -> 0..MaxJava] /\ script' \in [Addr -> 0..MaxRefs]
      /\ java'[a] = java[a] + 1
      /\ \A b \in Addr : b # a => java'[b] = java[b]
  BY <1>1, BridgeAssumption DEF TypeOK
<1>3. \A b \in Addr : NamesOf(b)' = NamesOf(b)
  BY SameNames
<1>4. Users(a)' = Users(a) + 1 /\ \A b \in Addr : b # a => Users(b)' = Users(b)
  BY <1>1, <1>2, <1>3 DEF Users
<1> QED BY <1>2, <1>4, TakeInv

LEMMA ReadGlobalInv == ASSUME IInv, NEW n \in Names, ReadGlobal(n) PROVE IInv'
<1>1. TypeOK /\ Running /\ \A b \in Addr : /\ script[b] \in Nat /\ java[b] \in Nat
                                          /\ Cardinality(NamesOf(b)) \in Nat
  BY RunFacts DEF ReadGlobal
<1>2. PICK a \in Addr : a = global[n]
  BY <1>1 DEF ReadGlobal, TypeOK
<1>3. /\ script' = [script EXCEPT ![a] = @ + 1] /\ script[a] < MaxRefs
      /\ heap' = JS_DupValue(heap, a) /\ ~Free(a)
      /\ UNCHANGED <<phase, global, globalLeak, java, objFunctionCache, maps, hit, fault>>
  <2>1. ~Free(a)
    BY <1>1, <1>2, FreeFacts
  <2> QED BY <1>2, <2>1 DEF ReadGlobal
<1>4. /\ java' \in [Addr -> 0..MaxJava] /\ script' \in [Addr -> 0..MaxRefs]
      /\ script'[a] = script[a] + 1
      /\ \A b \in Addr : b # a => script'[b] = script[b]
  BY <1>1, <1>2, <1>3, BridgeAssumption DEF TypeOK
<1>5. \A b \in Addr : NamesOf(b)' = NamesOf(b)
  BY <1>3, SameNames
<1>6. Users(a)' = Users(a) + 1 /\ \A b \in Addr : b # a => Users(b)' = Users(b)
  BY <1>1, <1>2, <1>3, <1>4, <1>5 DEF Users
<1> QED BY <1>1, <1>2, <1>3, <1>4, <1>6, TakeInv

\* The script gets a new object.
LEMMA NewScriptInv ==
  ASSUME IInv, Running, NEW a \in Addr, Free(a),
         NEW c \in {"object", "closure", "JSIObject"},
         heap' = [heap EXCEPT ![a] = NewCell(c, "native")],
         script' = [script EXCEPT ![a] = 1],
         UNCHANGED <<phase, global, globalLeak, java, objFunctionCache, maps, hit, fault>>
  PROVE  IInv'
<1>1. /\ heap' \in [Addr -> Cell]
      /\ heap'[a] = NewCell(c, "native") /\ \A b \in Addr : b # a => heap'[b] = heap[b]
      /\ CellOK(NewCell(c, "native"), 1, a \in objFunctionCache, hit)
      /\ Users(a) = 0
      /\ ~hit => /\ \A b \in objFunctionCache : Fun(heap'[b])
                 /\ \A p \in Addr : heap'[p].call # Nil => heap'[p].call \in objFunctionCache
  <2> DEFINE h == [heap EXCEPT ![a] = NewCell(c, "native")]
  <2>1. /\ h \in [Addr -> Cell]
        /\ h[a] = NewCell(c, "native") /\ \A b \in Addr : b # a => h[b] = heap[b]
        /\ CellOK(NewCell(c, "native"), 1, a \in objFunctionCache, hit)
        /\ Users(a) = 0
        /\ ~hit => /\ \A b \in objFunctionCache : Fun(h[b])
                   /\ \A p \in Addr : h[p].call # Nil => h[p].call \in objFunctionCache
    BY NewFacts DEF Classes
  <2>2. heap' = h
    OBVIOUS
  <2> HIDE DEF h
  <2> QED BY <2>1, <2>2
<1>2. /\ TypeOK /\ CountsInv /\ MapsInv /\ phase = "up" /\ fault = "none"
      /\ MaxRefs \in Nat /\ MaxRefs >= 1
  BY RunFacts
<1>3. /\ script' \in [Addr -> 0..MaxRefs] /\ script'[a] = 1
      /\ \A b \in Addr : b # a => script'[b] = script[b]
  BY <1>2 DEF TypeOK
<1>4. \A b \in Addr : NamesOf(b)' = NamesOf(b)
  BY SameNames
<1>5. Users(a)' = 1 /\ \A b \in Addr : b # a => Users(b)' = Users(b)
  <2>1. java[a] = 0 /\ Cardinality(NamesOf(a)) = 0
    BY FreeFacts
  <2> QED BY <1>3, <1>4, <2>1 DEF Users
<1>6. CountsInv'
  <2>1. ASSUME NEW b \in Addr
        PROVE  CellOK(heap'[b], Users(b)', b \in objFunctionCache, hit)
    BY <1>1, <1>2, <1>5 DEF CountsInv
  <2> QED BY <2>1 DEF CountsInv
<1>7. CacheInv'
  BY <1>1 DEF CacheInv
<1>8. MapsInv'
  BY <1>1, <1>2 DEF MapsInv, maps, NewCell
<1>9. TypeOK'
  BY <1>1, <1>2, <1>3 DEF TypeOK, maps
<1> QED BY <1>2, <1>6, <1>7, <1>8, <1>9, CalmInv

LEMMA GetCachedInv == ASSUME IInv, NEW p \in Addr, GetCached(p) PROVE IInv'
<1>1. /\ TypeOK /\ CountsInv /\ CacheInv /\ MapsInv /\ phase = "up" /\ fault = "none"
      /\ heap \in [Addr -> Cell] /\ Running
      /\ \A b \in Addr : /\ script[b] \in Nat /\ java[b] \in Nat /\ Users(b) \in Nat
                         /\ Cardinality(NamesOf(b)) \in Nat
                         /\ heap[b].rc \in Nat /\ heap[b].leaked \in Nat
  BY RunFacts DEF GetCached, TypeOK
<1>2. PICK f \in Addr : f = heap[p].call
  BY <1>1 DEF GetCached, Cell
<1>3. /\ script' = [script EXCEPT ![f] = @ + 1] /\ script[f] < MaxRefs
      /\ hit' = TRUE /\ Fun(heap[f])
      /\ UNCHANGED <<phase, heap, global, globalLeak, java, objFunctionCache, maps, fault>>
  BY <1>2 DEF GetCached, JS_IsFunction, Fun
<1>4. /\ script' \in [Addr -> 0..MaxRefs]
      /\ script'[f] = script[f] + 1
      /\ \A b \in Addr : b # f => script'[b] = script[b]
  BY <1>1, <1>2, <1>3, BridgeAssumption DEF TypeOK
<1>5. \A b \in Addr : NamesOf(b)' = NamesOf(b)
  BY <1>3, SameNames
<1>6. Users(f)' = Users(f) + 1 /\ \A b \in Addr : b # f => Users(b)' = Users(b)
  <2>1. java' = java
    BY <1>3
  <2>2. ASSUME NEW b \in Addr
        PROVE  Users(b)' = script'[b] + Cardinality(NamesOf(b)) + java[b]
    BY <1>5, <2>1 DEF Users
  <2>3. \A b \in Addr : Users(b) = script[b] + Cardinality(NamesOf(b)) + java[b]
    BY DEF Users
  <2>4. \A b \in Addr : b # f => Users(b)' = Users(b)
    BY <1>4, <2>2, <2>3
  <2>5. Users(f)' = (script[f] + 1) + Cardinality(NamesOf(f)) + java[f]
    BY <1>2, <1>4, <2>2
  <2>6. Users(f)' = Users(f) + 1
    BY <1>1, <1>2, <2>3, <2>5
  <2> QED BY <2>4, <2>6
<1>7. CountsInv'
  <2>1. ASSUME NEW b \in Addr
        PROVE  CellOK(heap[b], Users(b)', b \in objFunctionCache, TRUE)
    BY <1>1, <1>2, <1>3, <1>6 DEF CountsInv, CellOK, Cached, Fun
  <2> QED BY <1>3, <2>1 DEF CountsInv
<1>8. CacheInv'
  BY <1>3 DEF CacheInv
<1>9. MapsInv' /\ TypeOK'
  BY <1>1, <1>3, <1>4 DEF MapsInv, TypeOK, maps
<1> QED BY <1>1, <1>3, <1>7, <1>8, <1>9, CalmInv

LEMMA GetFreedInv == ASSUME IInv, NEW p \in Addr, GetFreed(p) PROVE IInv'
<1>1. hit
  BY RunFacts DEF GetFreed, CacheInv, Fun, Free
<1> QED BY <1>1, RunFacts DEF GetFreed, IInv, TypeOK, jsvars, maps, DanglingOnlyAfterHit,
                              LeftOnlyIfLeaked

LEMMA GetNewInv == ASSUME IInv, NEW p \in Addr, NEW a \in Addr, GetNew(p, a) PROVE IInv'
<1> USE DEF GetNew, CreateJSFunction
<1> DEFINE new == NewCell("JSIFunction", BridgeFun)
           c == [new EXCEPT !.rc = 2]
<1>1. /\ TypeOK /\ CountsInv /\ CacheInv /\ MapsInv /\ phase = "up" /\ fault = "none"
      /\ heap \in [Addr -> Cell]
      /\ MaxRefs \in Nat /\ MaxRefs >= 1 /\ Nil \notin Addr
      /\ \A b \in Addr : /\ Users(b) \in Nat /\ heap[b] \in Cell
                         /\ heap[b].rc \in Nat /\ heap[b].leaked \in Nat
  BY RunFacts DEF TypeOK
<1>2. /\ heap[a] = FreeCell /\ Users(a) = 0 /\ java[a] = 0 /\ Cardinality(NamesOf(a)) = 0
      /\ (~hit => a \notin objFunctionCache) /\ p # a
  <2>1. p # a
    BY DEF Free
  <2> QED BY FreeFacts, <2>1
<1>3. /\ c \in Cell /\ c.rc = 2 /\ c.class = "JSIFunction" /\ c.made = BridgeFun
      /\ c.call = Nil /\ c.leaked = 0
  BY <1>1, BridgeAssumption DEF NewCell, Cell, Classes
<1>4. /\ heap' \in [Addr -> Cell]
      /\ heap'[a] = c /\ heap'[p] = [heap[p] EXCEPT !.call = a]
      /\ \A b \in Addr : b # a /\ b # p => heap'[b] = heap[b]
  <2>1. [heap[p] EXCEPT !.call = a] \in Cell
    BY <1>1 DEF Cell
  <2>2. [new EXCEPT !.rc = @ + 1] = c
    BY DEF NewCell
  <2> DEFINE h == [heap EXCEPT ![a] = c]
  <2>3. JS_DupValue([heap EXCEPT ![a] = new], a) = h
    BY <1>1, <2>2 DEF JS_DupValue
  <2>4. heap' = [h EXCEPT ![p].call = a]
    BY <2>3
  <2> HIDE DEF c, new
  <2>5. h \in [Addr -> Cell] /\ h[p] = heap[p] /\ h[a] = c
        /\ \A b \in Addr : b # a /\ b # p => h[b] = heap[b]
    BY <1>1, <1>2, <1>3
  <2> HIDE DEF h
  <2>6. heap' = [h EXCEPT ![p] = [heap[p] EXCEPT !.call = a]]
    BY <2>4, <2>5
  <2> QED BY <1>2, <2>1, <2>5, <2>6
<1> HIDE DEF c, new
<1>5. /\ heap'[p].rc = heap[p].rc /\ heap'[p].class = heap[p].class
      /\ heap'[p].made = heap[p].made /\ heap'[p].call = a
      /\ heap'[p].leaked = heap[p].leaked
  BY <1>1, <1>4 DEF Cell
<1>6. /\ script' \in [Addr -> 0..MaxRefs] /\ script'[a] = 1
      /\ \A b \in Addr : b # a => script'[b] = script[b]
  BY <1>1 DEF TypeOK
<1>7. \A b \in Addr : NamesOf(b)' = NamesOf(b)
  BY SameNames
<1>8. Users(a)' = 1 /\ \A b \in Addr : b # a => Users(b)' = Users(b)
  BY <1>2, <1>6, <1>7 DEF Users
<1>9. CountsInv'
  <2>1. CellOK(c, 1, TRUE, hit)
    BY <1>3 DEF CellOK, Cached, Fun
  <2>2. heap[p].class = "JSIObject"
    OBVIOUS
  <2>3. CellOK(heap'[p], Users(p), p \in objFunctionCache', hit)
    BY <1>1, <1>2, <1>5, <2>2 DEF CountsInv, CellOK, Cached, Fun
  <2>4. ASSUME NEW b \in Addr
        PROVE  CellOK(heap'[b], Users(b)', b \in objFunctionCache', hit)
    <3>1. CASE b = a
      BY <3>1, <2>1, <1>4, <1>8
    <3>2. CASE b = p
      BY <3>2, <2>3, <1>2, <1>8
    <3>3. CASE b # a /\ b # p
      <4>1. b \in objFunctionCache' <=> b \in objFunctionCache
        BY <3>3
      <4> QED BY <3>3, <4>1, <1>1, <1>4, <1>8 DEF CountsInv, CellOK, Cached
    <3> QED BY <3>1, <3>2, <3>3
  <2> QED BY <2>4 DEF CountsInv
<1>10. CacheInv'
  <2>1. ASSUME ~hit PROVE \A b \in objFunctionCache' : Fun(heap'[b])
    <3>1. \A b \in objFunctionCache : Fun(heap[b]) /\ b \in Addr /\ b # p
      BY <2>1, <1>1 DEF CacheInv, Fun, TypeOK
    <3> QED BY <2>1, <3>1, <1>2, <1>3, <1>4 DEF Fun
  <2>2. ASSUME ~hit, NEW b \in Addr, heap'[b].call # Nil
        PROVE  heap'[b].call \in objFunctionCache'
    <3>1. CASE b = p
      BY <3>1, <1>5
    <3>2. CASE b # p
      <4>1. b # a
        BY <2>2, <1>3, <1>4
      <4> QED BY <2>2, <3>2, <4>1, <1>1, <1>4 DEF CacheInv
    <3> QED BY <3>1, <3>2
  <2> QED BY <2>1, <2>2 DEF CacheInv
<1>11. MapsInv'
  <2>1. trackMethodMap'[a] = BridgeFun /\ \A b \in Addr : b # a => trackMethodMap'[b] = trackMethodMap[b]
    BY <1>1 DEF TypeOK
  <2>2. trackProxyMap' = trackProxyMap /\ heap[p].class = "JSIObject"
    OBVIOUS
  <2>3. ASSUME NEW b \in Addr
        PROVE  /\ heap'[b].class = "JSIFunction" /\ heap'[b].made # "native" =>
                      trackMethodMap'[b] = heap'[b].made
               /\ heap'[b].class = "JSIObject" /\ heap'[b].made # "native" =>
                      trackProxyMap'[b] = heap'[b].made
    <3>1. CASE b = a
      BY <3>1, <1>3, <1>4, <2>1
    <3>2. CASE b = p
      BY <3>2, <1>1, <1>5, <2>2 DEF MapsInv
    <3>3. CASE b # a /\ b # p
      BY <3>3, <1>1, <1>4, <2>1, <2>2 DEF MapsInv
    <3> QED BY <3>1, <3>2, <3>3
  <2> QED BY <2>3 DEF MapsInv
<1>12. TypeOK'
  <2>1. trackMethodMap' \in [Addr -> Methods \cup {Nil}]
    BY <1>1, BridgeAssumption DEF TypeOK
  <2> QED BY <1>1, <1>4, <1>6, <2>1 DEF TypeOK
<1> QED BY <1>1, <1>9, <1>10, <1>11, <1>12, CalmInv

LEMMA ConvertOtherInv == ASSUME IInv, NEW x \in Addr, ConvertOther(x) PROVE IInv'
BY RunFacts DEF ConvertOther, IInv, TypeOK, jsvars, maps, DanglingOnlyAfterHit, LeftOnlyIfLeaked

LEMMA EvalResultInv == ASSUME IInv, NEW x \in Addr, EvalResult(x) PROVE IInv'
<1>1. CASE trackProxyMap[x] = Nil
  BY <1>1, ConvertOtherInv DEF EvalResult
<1>2. CASE trackProxyMap[x] # Nil
  <2>1. /\ Running /\ script[x] > 0 /\ heap[x].leaked < MaxRefs
        /\ script' = [script EXCEPT ![x] = @ - 1]
        /\ heap' = [heap EXCEPT ![x].leaked = @ + 1]
        /\ UNCHANGED <<phase, global, globalLeak, java, objFunctionCache, maps, hit, fault>>
    BY <1>2 DEF EvalResult
  <2>2. /\ TypeOK /\ CountsInv /\ CacheInv /\ MapsInv /\ phase = "up" /\ fault = "none"
        /\ heap \in [Addr -> Cell] /\ MaxRefs \in Nat
        /\ \A b \in Addr : /\ Users(b) \in Nat /\ heap[b] \in Cell
                           /\ script[b] \in Nat /\ java[b] \in Nat
                           /\ Cardinality(NamesOf(b)) \in Nat
                           /\ heap[b].rc \in Nat /\ heap[b].leaked \in Nat
    BY <2>1, RunFacts DEF TypeOK
  <2>3. /\ heap' \in [Addr -> Cell]
        /\ heap'[x] = [heap[x] EXCEPT !.leaked = @ + 1]
        /\ \A b \in Addr : b # x => heap'[b] = heap[b]
    BY <2>1, <2>2 DEF Cell
  <2>4. /\ heap'[x].rc = heap[x].rc /\ heap'[x].class = heap[x].class
        /\ heap'[x].made = heap[x].made /\ heap'[x].call = heap[x].call
        /\ heap'[x].leaked = heap[x].leaked + 1
    BY <2>2, <2>3 DEF Cell
  <2>5. /\ script' \in [Addr -> 0..MaxRefs] /\ script'[x] = script[x] - 1
        /\ \A b \in Addr : b # x => script'[b] = script[b]
    BY <2>1, <2>2 DEF TypeOK
  <2>6. \A b \in Addr : NamesOf(b)' = NamesOf(b)
    BY <2>1, SameNames
  <2>7. /\ Users(x) = Users(x)' + 1 /\ Users(x)' \in Nat
        /\ \A b \in Addr : b # x => Users(b)' = Users(b)
    BY <2>1, <2>2, <2>5, <2>6 DEF Users
  <2>8. CountsInv'
    <3>1. CellOK(heap[x], Users(x)' + 1, x \in objFunctionCache, hit)
      BY <2>2, <2>7 DEF CountsInv
    <3>2. heap[x].class # "free"
      BY <2>2, <2>7, <3>1 DEF CellOK, Cached, Fun, FreeCell
    <3>3. CellOK(heap'[x], Users(x)', x \in objFunctionCache, hit)
      BY <2>2, <2>4, <2>7, <3>1, <3>2 DEF CellOK, Cached, Fun
    <3>4. ASSUME NEW b \in Addr PROVE CellOK(heap'[b], Users(b)', b \in objFunctionCache, hit)
      BY <2>2, <2>3, <2>7, <3>3 DEF CountsInv
    <3> QED BY <2>1, <3>4 DEF CountsInv
  <2>9. CacheInv'
    <3>1. objFunctionCache \subseteq Addr
      BY <2>2 DEF TypeOK
    <3> QED BY <2>1, <2>2, <2>3, <2>4, <3>1 DEF CacheInv, Fun
  <2>10. MapsInv'
    BY <2>1, <2>2, <2>3, <2>4 DEF MapsInv, maps
  <2>11. TypeOK'
    BY <2>1, <2>2, <2>3, <2>5 DEF TypeOK, maps
  <2> QED BY <2>1, <2>2, <2>8, <2>9, <2>10, <2>11, CalmInv
<1> QED BY <1>1, <1>2

LEMMA InitRuntimeInv == ASSUME IInv, NEW a \in Addr, InitRuntime(a) PROVE IInv'
<1> USE DEF InitRuntime
<1>1. TypeOK /\ DownInv /\ NoGlobals /\ Nil \notin Addr /\ MaxRefs \in Nat
  BY BridgeAssumption DEF IInv
<1>2. /\ heap' \in [Addr -> Cell]
      /\ heap'[a] = NewCell("JSIFunction", "native")
      /\ \A b \in Addr : b # a => heap'[b] = FreeCell
  <2>1. NewCell("JSIFunction", "native") \in Cell
    BY <1>1 DEF NewCell, Cell, Classes
  <2> QED BY <1>1, <2>1 DEF TypeOK, DownInv
<1>3. /\ global' = [global EXCEPT !["print"] = a] /\ "print" \in Names
      /\ global["print"] = Nil
  BY <1>1, BridgeAssumption DEF NoGlobals
<1>4. ASSUME NEW b \in Addr PROVE Users(b)' = IF b = a THEN 1 ELSE 0
  <2>1. NamesOf(b) = {}
    BY <1>1 DEF NoGlobals, NamesOf
  <2>2. Cardinality(NamesOf(b)) = 0
    BY <2>1, NamesNat
  <2>3. Cardinality(NamesOf(b)') = IF b = a THEN 1 ELSE 0
    <3>1. Cardinality(NamesOf(b)') =
              Cardinality(NamesOf(b)) + (IF b = a THEN 1 ELSE 0)
                  - (IF b = global["print"] THEN 1 ELSE 0)
      <4>1. PICK n \in Names : n = "print"
        BY <1>3
      <4>2. global' = [global EXCEPT ![n] = a] /\ a \in Addr \cup {Nil}
        BY <1>3, <4>1
      <4>3. Cardinality(NamesOf(b)') =
                Cardinality(NamesOf(b)) + (IF b = a THEN 1 ELSE 0)
                    - (IF b = global[n] THEN 1 ELSE 0)
        BY <1>1, <4>2, NamesAssign
      <4> QED BY <4>1, <4>3
    <3> QED BY <1>1, <1>3, <2>2, <3>1
  <2>4. script'[b] = 0 /\ java'[b] = 0
    BY <1>1 DEF DownInv
  <2> QED BY <2>3, <2>4 DEF Users
<1>5. CountsInv'
  BY <1>2, <1>4 DEF CountsInv, CellOK, Cached, Fun, NewCell, FreeCell
<1>6. CacheInv' /\ MapsInv'
  BY <1>2 DEF CacheInv, MapsInv, NewCell, FreeCell
<1>7. TypeOK'
  <2>1. global' \in [Names -> Addr \cup {Nil}]
    BY <1>1, <1>3 DEF TypeOK
  <2> QED BY <1>1, <1>2, <2>1 DEF TypeOK
<1> QED BY <1>5, <1>6, <1>7, CalmInv

LEMMA DestroyInv == ASSUME IInv, Destroy PROVE IInv'
<1>1. /\ TypeOK /\ CountsInv /\ CacheInv /\ phase = "up" /\ MaxRefs \in Nat
      /\ \A b \in Addr : /\ heap[b].rc \in Nat /\ heap[b].leaked \in Nat /\ java[b] \in Nat
                         /\ Cardinality(NamesOf(b)) \in Nat /\ script[b] = 0
  BY RunFacts DEF Destroy
<1>2. ASSUME NEW b \in Addr
      PROVE  /\ CountLeft(b) <= java[b] + heap[b].leaked
             /\ ~hit => CountLeft(b) >= 0
  <2>1. Users(b) = Cardinality(NamesOf(b)) + java[b]
    BY <1>1 DEF Users
  <2> QED BY <1>1, <2>1 DEF CountsInv, CellOK, Cached, Fun, CountLeft, JS_IsFunction
<1>3. CASE fault' = "none"
  <2>1. /\ phase' = "down" /\ script' = script
        /\ heap' = [a \in Addr |-> FreeCell] /\ global' = [n \in Names |-> Nil]
        /\ java' = [a \in Addr |-> 0] /\ trackProxyMap' = [a \in Addr |-> Nil]
        /\ UNCHANGED <<globalLeak, objFunctionCache, trackMethodMap, hit>>
    BY <1>3 DEF Destroy
  <2>2. DownInv' /\ NoGlobals'
    BY <1>1, <2>1 DEF DownInv, NoGlobals
  <2>3. TypeOK'
    BY <1>1, <1>3, <2>1, BridgeAssumption DEF TypeOK, FreeCell, Cell, Classes
  <2> QED BY <1>3, <2>1, <2>2, <2>3 DEF IInv, DanglingOnlyAfterHit, LeftOnlyIfLeaked
<1>4. CASE fault' # "none"
  <2>1. /\ UNCHANGED <<phase, heap, jsvars, objFunctionCache, maps, hit>>
        /\ fault' \in {"dangling", "assert"}
    BY <1>4 DEF Destroy
  <2>2. TypeOK'
    BY <1>1, <2>1 DEF TypeOK, jsvars, maps
  <2>3. fault' = "dangling" => hit
    <3>1. fault' = "dangling" => \/ \E a \in objFunctionCache : Free(a)
                                \/ \E a \in Addr : CountLeft(a) < 0
      BY DEF Destroy
    <3>2. ~hit => \A a \in Addr : ~(CountLeft(a) < 0)
      <4> SUFFICES ASSUME ~hit, NEW a \in Addr PROVE ~(CountLeft(a) < 0)
        OBVIOUS
      <4>1. CountLeft(a) \in Int
        BY <1>1 DEF CountLeft
      <4> QED BY <1>2, <4>1
    <3>3. ~hit => \A a \in objFunctionCache : ~Free(a)
      BY <1>1 DEF CacheInv, Fun, Free
    <3> QED BY <3>1, <3>2, <3>3
  <2>4. fault' = "assert" => globalLeak > 0 \/ \E a \in Addr : java[a] + heap[a].leaked > 0
    <3>1. fault' = "assert" => globalLeak > 0 \/ \E a \in Addr : CountLeft(a) > 0
      BY DEF Destroy
    <3>2. ASSUME NEW a \in Addr, CountLeft(a) > 0 PROVE java[a] + heap[a].leaked > 0
      <4>1. CountLeft(a) \in Int
        BY <1>1 DEF CountLeft
      <4> QED BY <1>1, <1>2, <3>2, <4>1
    <3> QED BY <3>1, <3>2
  <2>5. /\ heap' = heap /\ java' = java /\ globalLeak' = globalLeak /\ hit' = hit
    BY <2>1 DEF jsvars
  <2> QED BY <1>4, <2>2, <2>3, <2>4, <2>5 DEF IInv, DanglingOnlyAfterHit, LeftOnlyIfLeaked
<1> QED BY <1>3, <1>4

LEMMA NextInv == IInv /\ [Next]_vars => IInv'
<1> SUFFICES ASSUME IInv, [Next]_vars PROVE IInv'
  OBVIOUS
<1>1. CASE UNCHANGED vars
  <2>1. \A b \in Addr : NamesOf(b)' = NamesOf(b)
    BY <1>1 DEF NamesOf, vars, jsvars
  <2>2. \A b \in Addr : Users(b)' = Users(b)
    BY <1>1, <2>1 DEF Users, vars, jsvars
  <2> QED BY <1>1, <2>2 DEF vars, jsvars, maps, IInv, TypeOK, CountsInv, CacheInv, MapsInv,
             DownInv, NoGlobals, DanglingOnlyAfterHit, LeftOnlyIfLeaked
<1>2. ASSUME NEW a \in Addr, InitRuntime(a) PROVE IInv'
  BY <1>2, InitRuntimeInv
<1>3. ASSUME NEW a \in Addr, NEW n \in Names, NEW m \in Methods, SetGlobalFun(n, m, a)
      PROVE  IInv'
  BY <1>3, SetGlobalFunInv
<1>4. ASSUME NEW a \in Addr, NEW n \in Names, NEW o \in Proxies, SetGlobalObj(n, o, a)
      PROVE  IInv'
  BY <1>4, SetGlobalObjInv
<1>5. ASSUME NEW a \in Addr, AddRefCount(a) \/ ReleaseRefCount(a) \/ Drop(a) PROVE IInv'
  BY <1>5, AddRefCountInv, ReleaseRefCountInv, DropInv
<1>6. CASE Destroy
  BY <1>6, DestroyInv
<1>7. ASSUME NEW a \in Addr, NEW c \in {"object", "closure"}, NewObject(a, c) PROVE IInv'
  BY <1>7, NewScriptInv DEF NewObject
<1>8. ASSUME NEW a \in Addr, NEW f \in Addr, CallPrint(f, a) PROVE IInv'
  BY <1>8, NewScriptInv DEF CallPrint
<1>9. ASSUME NEW a \in Addr, NEW f \in Addr, GetNew(f, a) PROVE IInv'
  BY <1>9, GetNewInv
<1>10. ASSUME NEW a \in Addr, GetCached(a) \/ GetFreed(a) PROVE IInv'
  BY <1>10, GetCachedInv, GetFreedInv
<1>11. ASSUME NEW a \in Addr, PassObject(a) \/ EvalResult(a) PROVE IInv'
  BY <1>11, ConvertOtherInv, EvalResultInv DEF PassObject
<1>12. ASSUME NEW n \in Names, ReadGlobal(n) PROVE IInv'
  BY <1>12, ReadGlobalInv
<1>13. ASSUME NEW n \in Names, NEW a \in Addr \cup {Nil}, WriteGlobal(n, a) PROVE IInv'
  BY <1>13, WriteGlobalInv
<1>14. CASE Kotlin
  BY <1>14, <1>2, <1>3, <1>4, <1>5, <1>6 DEF Kotlin
<1>15. CASE Script
  BY <1>15, <1>5, <1>7, <1>8, <1>9, <1>10, <1>11, <1>12, <1>13 DEF Script
<1> QED BY <1>1, <1>14, <1>15 DEF Next

LEMMA InitInv == Init => IInv
<1> SUFFICES ASSUME Init PROVE IInv
  OBVIOUS
<1>1. TypeOK
  <2>1. FreeCell \in Cell
    BY BridgeAssumption DEF FreeCell, Cell, Classes
  <2>2. 0 \in 0..MaxRefs /\ 0 \in 0..MaxJava /\ 0 \in 0..MaxLeaks
    BY BridgeAssumption
  <2>3. /\ heap \in [Addr -> Cell] /\ script \in [Addr -> 0..MaxRefs]
        /\ java \in [Addr -> 0..MaxJava] /\ globalLeak \in 0..MaxLeaks
    BY <2>1, <2>2 DEF Init
  <2>4. /\ global \in [Names -> Addr \cup {Nil}]
        /\ trackProxyMap \in [Addr -> Proxies \cup {Nil}]
        /\ trackMethodMap \in [Addr -> Methods \cup {Nil}]
    BY DEF Init
  <2> QED BY <2>3, <2>4 DEF Init, TypeOK
<1>2. DownInv /\ NoGlobals
  BY DEF Init, DownInv, NoGlobals
<1> QED BY <1>1, <1>2 DEF Init, IInv, DanglingOnlyAfterHit, LeftOnlyIfLeaked

-----------------------------------------------------------------------------
(***************************************************************************)
(* What the bridge guarantees                                              *)
(***************************************************************************)

\* The inductive invariant holds in every state the bridge reaches.
THEOREM BridgeInvariant == Spec => []IInv
BY InitInv, NextInv, PTL DEF Spec

\* The maps, caches and counts of the bridge keep their types; no count of a
\* JS object and no count of its users goes below zero.
THEOREM BridgeTypes == Spec => []TypeOK
<1>1. IInv => TypeOK
  BY DEF IInv
<1> QED BY <1>1, BridgeInvariant, PTL

\* Until a getter is answered from functionCache, every object has exactly as
\* many counted references as there are owners.
THEOREM CountsExact == Spec => []ExactUntilHit
<1>1. ASSUME IInv PROVE ExactUntilHit
  <2> SUFFICES ASSUME Running, ~hit, NEW a \in Addr
               PROVE  heap[a].rc = Owners(a) + (IF a \in objFunctionCache THEN 1 ELSE 0)
    BY DEF ExactUntilHit
  <2>1. CountsInv /\ CacheInv /\ Users(a) \in Nat /\ heap[a].leaked \in Nat
    BY <1>1, RunFacts
  <2> QED BY <2>1 DEF CountsInv, CacheInv, CellOK, Cached, Owners
<1> QED BY <1>1, BridgeInvariant, PTL

\* An object that is in use is freed, or freed memory read, only after a getter
\* was answered from functionCache.
THEOREM OnlyTheCacheDangles == Spec => []DanglingOnlyAfterHit
<1>1. IInv => DanglingOnlyAfterHit
  BY DEF IInv
<1> QED BY <1>1, BridgeInvariant, PTL

\* Hits make no count wrong but those of functions.
THEOREM ProxiesAreCounted == Spec => []ProxyCountsExact
<1>1. ASSUME IInv PROVE ProxyCountsExact
  <2> SUFFICES ASSUME Running, NEW a \in Addr, heap[a].class \in {"JSIObject", "object"}
               PROVE  heap[a].rc = Owners(a)
    BY DEF ProxyCountsExact
  <2>1. CountsInv /\ Users(a) \in Nat /\ heap[a].leaked \in Nat
    BY <1>1, RunFacts
  <2> QED BY <2>1 DEF CountsInv, CellOK, Cached, Fun, Owners
<1> QED BY <1>1, BridgeInvariant, PTL

\* A call of a JSIFunction reaches the JSFunction it was made for.
THEOREM CallsAreRouted == Spec => []CallsReachTheirFunction
<1>1. ASSUME IInv PROVE CallsReachTheirFunction
  BY <1>1, RunFacts DEF CallsReachTheirFunction, MapsInv
<1> QED BY <1>1, BridgeInvariant, PTL

\* A JSIObject stands for the JSObjectProxy it was made for.
THEOREM ProxiesAreRouted == Spec => []ProxiesKeepTheirObject
<1>1. ASSUME IInv PROVE ProxiesKeepTheirObject
  BY <1>1, RunFacts DEF ProxiesKeepTheirObject, MapsInv
<1> QED BY <1>1, BridgeInvariant, PTL

\* What destroy leaves behind was leaked, or is held by Kotlin.
THEOREM OnlyLeaksAreLeft == Spec => []LeftOnlyIfLeaked
<1>1. IInv => LeftOnlyIfLeaked
  BY DEF IInv
<1> QED BY <1>1, BridgeInvariant, PTL

=============================================================================
