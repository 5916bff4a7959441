----------------------------- MODULE JSHeapProofs -----------------------------
(***************************************************************************)
(* Proofs about JSHeap for any number of cells and places: the inductive   *)
(* invariant HeapInv, and from it type correctness, exact reference counts *)
(* and the absence of references to freed objects; then that the mechanism *)
(* implements ObjectGraph, that the collector leaves no garbage, and that  *)
(* a runtime that has been freed has no cell left.                         *)
(***************************************************************************)
EXTENDS JSHeap, FiniteSetTheorems, TLAPS

-----------------------------------------------------------------------------
(***************************************************************************)
(* Counting values                                                         *)
(***************************************************************************)

\* Removing part of a finite set removes that many elements.
LEMMA CardinalityMinus ==
  ASSUME NEW A, IsFiniteSet(A), NEW B \in SUBSET A
  PROVE  /\ Cardinality(A \ B) = Cardinality(A) - Cardinality(B)
         /\ Cardinality(A) \in Nat /\ Cardinality(B) \in Nat
<1>1. IsFiniteSet(B)
  BY FS_Subset
<1>2. A \cap B = B
  OBVIOUS
<1>3. Cardinality(A \ B) = Cardinality(A) - Cardinality(A \cap B)
  BY FS_Difference
<1>4. Cardinality(A) \in Nat /\ Cardinality(B) \in Nat
  BY <1>1, FS_CardinalityType
<1> QED BY <1>2, <1>3, <1>4

\* Two disjoint finite sets count together as their sum.
LEMMA CardinalityPlus ==
  ASSUME NEW A, IsFiniteSet(A), NEW B, IsFiniteSet(B), A \cap B = {}
  PROVE  /\ Cardinality(A \cup B) = Cardinality(A) + Cardinality(B)
         /\ Cardinality(A) \in Nat /\ Cardinality(B) \in Nat
<1>1. /\ Cardinality(A \cup B) = Cardinality(A) + Cardinality(B) - Cardinality(A \cap B)
      /\ Cardinality(A \cap B) = 0
  BY FS_Union, FS_EmptySet
<1>2. Cardinality(A) \in Nat /\ Cardinality(B) \in Nat
  BY FS_CardinalityType
<1> QED BY <1>1, <1>2

\* Edges counts the values of a finite set: it is a number, zero exactly when
\* none of them denotes a.
LEMMA EdgesFacts ==
  ASSUME NEW R \in SUBSET Ref, NEW a
  PROVE  /\ Edges(R, a) \in Nat
         /\ IsFiniteSet({r \in R : target[r] = a})
         /\ Edges(R, a) = 0 <=> \A r \in R : target[r] # a
<1> DEFINE E == {r \in R : target[r] = a}
<1>1. IsFiniteSet(E)
  <2>1. IsFiniteSet(R)
    BY FS_Subset, AddrRefAssumption
  <2> QED BY <2>1, FS_Subset
<1>2. Cardinality(E) \in Nat
  BY <1>1, FS_CardinalityType
<1>3. Cardinality(E) = 0 <=> E = {}
  BY <1>1, FS_EmptySet
<1> QED BY <1>1, <1>2, <1>3 DEF Edges

\* The values of a part of some places are counted once.
LEMMA EdgesSplit ==
  ASSUME NEW Q \in SUBSET Ref, NEW R \in SUBSET Q, NEW a
  PROVE  /\ Edges(Q \ R, a) = Edges(Q, a) - Edges(R, a)
         /\ Edges(R, a) <= Edges(Q, a)
<1> DEFINE EQ == {r \in Q : target[r] = a}
           ER == {r \in R : target[r] = a}
           EM == {r \in Q \ R : target[r] = a}
<1>1. IsFiniteSet(EQ)
  BY EdgesFacts
<1>2. ER \in SUBSET EQ /\ EM = EQ \ ER
  OBVIOUS
<1>3. Cardinality(EQ \ ER) = Cardinality(EQ) - Cardinality(ER)
  BY <1>1, <1>2, CardinalityMinus
<1>4. Cardinality(ER) <= Cardinality(EQ)
  BY <1>1, <1>2, FS_Subset
<1> QED BY <1>2, <1>3, <1>4 DEF Edges

\* Storing a value in an unused place adds one to the count of its object.
LEMMA EdgesAdd ==
  ASSUME target \in [Ref -> Addr \cup {Nil}], NEW r \in Ref, NEW c \in Addr,
         target[r] = Nil, target' = [target EXCEPT ![r] = c], NEW a \in Addr
  PROVE  Edges(Ref, a)' = IF a = c THEN Edges(Ref, a) + 1 ELSE Edges(Ref, a)
<1> DEFINE E == {q \in Ref : target[q] = a}
           F == {q \in Ref : target'[q] = a}
<1>1. IsFiniteSet(E)
  BY EdgesFacts
<1>2. CASE a = c
  <2>1. r \notin E /\ F = E \cup {r}
    BY <1>2, TokenAssumption
  <2>2. Cardinality(E \cup {r}) = Cardinality(E) + 1
    BY <1>1, <2>1, FS_AddElement
  <2> QED BY <1>2, <2>1, <2>2 DEF Edges
<1>3. CASE a # c
  <2>1. F = E
    BY <1>3, TokenAssumption
  <2> QED BY <1>3, <2>1 DEF Edges
<1> QED BY <1>2, <1>3

\* Dropping the values in places R takes them off the counts.
LEMMA EdgesDrop ==
  ASSUME target \in [Ref -> Addr \cup {Nil}], NEW R \in SUBSET Ref, NEW a \in Addr,
         target' = [r \in Ref |-> IF r \in R THEN Nil ELSE target[r]]
  PROVE  /\ Edges(Ref, a)' = Edges(Ref, a) - Edges(R, a)
         /\ Edges(R, a) <= Edges(Ref, a)
         /\ Edges(R, a) \in Nat /\ Edges(Ref, a) \in Nat
<1> DEFINE F == {q \in Ref : target'[q] = a}
           M == {q \in Ref \ R : target[q] = a}
<1>1. F = M
  BY TokenAssumption
<1>2. Edges(Ref \ R, a) = Edges(Ref, a) - Edges(R, a)
  BY EdgesSplit
<1>3. Edges(R, a) <= Edges(Ref, a)
  BY EdgesSplit
<1>4. Edges(R, a) \in Nat /\ Edges(Ref, a) \in Nat
  BY EdgesFacts
<1> QED BY <1>1, <1>2, <1>3, <1>4 DEF Edges

\* The weak references to k.
KeyOf(k) == {w \in Addr : wkey[w] = k}

\* There are finitely many weak references to a key.
LEMMA KeyOfFinite ==
  ASSUME NEW k
  PROVE  IsFiniteSet(KeyOf(k)) /\ Cardinality(KeyOf(k)) \in Nat
<1>1. KeyOf(k) \in SUBSET Addr
  BY DEF KeyOf
<1> QED BY <1>1, FS_Subset, FS_CardinalityType, AddrRefAssumption

\* weakref_count in terms of the keys alone.
LEMMA WeakCounts ==
  ASSUME WeakKeysInv
  PROVE  WeakCountExact <=>
           \A k \in Addr : /\ wcount[k] = Cardinality(KeyOf(k))
                           /\ kind[k] = "zombie" /\ list[k] = "none" => wcount[k] > 0
<1>1. \A k \in Addr : {w \in weakref_list : wkey[w] = k} = KeyOf(k)
  BY TokenAssumption DEF WeakKeysInv, weakref_list, KeyOf
<1> QED BY <1>1 DEF WeakCountExact

\* WeakCounts in the state after a step.
LEMMA WeakCountsPrime ==
  ASSUME WeakKeysInv'
  PROVE  WeakCountExact' <=>
           \A k \in Addr : /\ wcount'[k] = Cardinality(KeyOf(k)')
                           /\ kind'[k] = "zombie" /\ list'[k] = "none" => wcount'[k] > 0
<1>1. \A k \in Addr : {w \in weakref_list' : wkey'[w] = k} = KeyOf(k)'
  BY TokenAssumption DEF WeakKeysInv, weakref_list, KeyOf
<1> QED BY <1>1 DEF WeakCountExact

\* A holder without a key that gets one is one more weak reference to it.
LEMMA KeyOfAdd ==
  ASSUME wkey \in [Addr -> Addr \cup {Nil}], NEW w \in Addr, wkey[w] = Nil,
         NEW c \in Addr, wkey' = [wkey EXCEPT ![w] = c], NEW k \in Addr
  PROVE  Cardinality(KeyOf(k)') = IF k = c THEN Cardinality(KeyOf(k)) + 1
                                  ELSE Cardinality(KeyOf(k))
<1>1. CASE k = c
  <2>1. w \notin KeyOf(k) /\ KeyOf(k)' = KeyOf(k) \cup {w}
    BY <1>1, TokenAssumption DEF KeyOf
  <2> QED BY <1>1, <2>1, KeyOfFinite, FS_AddElement
<1>2. CASE k # c
  <2>1. KeyOf(k)' = KeyOf(k)
    BY <1>2, TokenAssumption DEF KeyOf
  <2> QED BY <1>2, <2>1
<1> QED BY <1>1, <1>2

\* A holder that loses its key is one weak reference less.
LEMMA KeyOfDrop ==
  ASSUME wkey \in [Addr -> Addr \cup {Nil}], NEW w \in Addr,
         wkey' = [wkey EXCEPT ![w] = Nil], NEW k \in Addr
  PROVE  /\ Cardinality(KeyOf(k)') = IF k = wkey[w] THEN Cardinality(KeyOf(k)) - 1
                                     ELSE Cardinality(KeyOf(k))
         /\ Cardinality(KeyOf(k)) \in Nat /\ Cardinality(KeyOf(k)') \in Nat
<1>1. CASE k = wkey[w]
  <2>1. w \in KeyOf(k) /\ KeyOf(k)' = KeyOf(k) \ {w}
    BY <1>1, TokenAssumption DEF KeyOf
  <2>2. IsFiniteSet(KeyOf(k)')
    BY <2>1, KeyOfFinite, FS_RemoveElement
  <2> QED BY <1>1, <2>1, <2>2, KeyOfFinite, FS_RemoveElement, FS_CardinalityType
<1>2. CASE k # wkey[w]
  <2>1. KeyOf(k)' = KeyOf(k)
    BY <1>2, TokenAssumption DEF KeyOf
  <2> QED BY <1>2, <2>1, KeyOfFinite
<1> QED BY <1>1, <1>2

-----------------------------------------------------------------------------
(***************************************************************************)
(* Counts outside the collector's passes                                   *)
(***************************************************************************)

IInv == TypeOK /\ HeapInv

\* While no reference is deducted, a count is the number of values that denote
\* the cell.
LEMMA WholeCounts ==
  ASSUME pc \notin {"decref", "scan"}
  PROVE  /\ Deducted = {}
         /\ RefCountExact <=> \A a \in Addr : rc[a] = Edges(Ref, a)
<1>1. Deducted = {}
  BY DEF Deducted
<1>2. {r \in Ref : owner[r] \notin Deducted} = Ref
  BY <1>1
<1> QED BY <1>1, <1>2 DEF RefCountExact

\* WholeCounts in the state after a step.
LEMMA WholeCountsPrime ==
  ASSUME pc' \notin {"decref", "scan"}
  PROVE  /\ Deducted' = {}
         /\ RefCountExact' <=> \A a \in Addr : rc'[a] = Edges(Ref, a)'
<1>1. Deducted' = {}
  BY DEF Deducted
<1>2. {r \in Ref : owner'[r] \notin Deducted'} = Ref
  BY <1>1
<1> QED BY <1>1, <1>2 DEF RefCountExact

\* A cell that is not referenced has no value that denotes it, and conversely.
LEMMA ZeroCount ==
  ASSUME RefCountExact, pc \notin {"decref", "scan"}, NEW a \in Addr
  PROVE  /\ rc[a] \in Nat
         /\ rc[a] = 0 <=> \A r \in Ref : target[r] # a
<1>1. rc[a] = Edges(Ref, a)
  BY WholeCounts
<1> QED BY <1>1, EdgesFacts

-----------------------------------------------------------------------------
(***************************************************************************)
(* The program                                                             *)
(***************************************************************************)

\* An empty heap satisfies the invariant.
LEMMA InitInv == Init => IInv
<1> SUFFICES ASSUME Init PROVE IInv
  OBVIOUS
<1> USE DEF Init
<1>1. TypeOK
  BY DEF TypeOK, Kinds, Lists, Loops
<1>2. RefCountExact
  <2> SUFFICES ASSUME NEW a \in Addr PROVE rc[a] = Edges(Ref, a)
    BY WholeCounts
  <2>1. Edges(Ref, a) = 0
    BY EdgesFacts, TokenAssumption
  <2> QED BY <2>1
<1>3. WeakCountExact
  <2> SUFFICES ASSUME NEW k \in Addr
               PROVE  Cardinality({w \in weakref_list : wkey[w] = k}) = 0
    BY DEF WeakCountExact
  <2>1. {w \in weakref_list : wkey[w] = k} = {}
    BY DEF weakref_list
  <2> QED BY <2>1, FS_EmptySet
<1>4. PlacesInv /\ RecordsInv /\ WeakKeysInv /\ VarsInv
  BY TokenAssumption DEF PlacesInv, RecordsInv, WeakKeysInv, VarsInv, Live
<1>5. ListsInv /\ CountsInv /\ TodoInv /\ CyclesInv
  BY DEF ListsInv, CountsInv, TodoInv, CyclesInv, Live
<1> QED BY <1>1, <1>2, <1>3, <1>4, <1>5 DEF IInv, HeapInv

\* While the program runs, every object it may use is on the object list.
LEMMA RunFacts ==
  ASSUME IInv, pc = "run"
  PROVE  /\ \A a \in Live : list[a] = "gc" /\ rc[a] > 0 /\ mark[a] = 0
         /\ \A r \in Ref : target[r] \in Addr => target[r] \in Live
         /\ todo = {}
         /\ Doomed = {}
BY DEF IInv, HeapInv, TypeOK, Lists, PlacesInv, ListsInv, CountsInv, TodoInv, Live,
       Doomed, On

\* A new cell, known through one place.
LEMMA NewCellInv ==
  ASSUME IInv, pc = "run", NEW a \in Addr, NEW r \in Ref, NEW k, NEW o,
         k \in {"object", "weakref", "weakmap", "var_ref"},
         k # "var_ref" => o = Stack,
         k = "var_ref" => o \in Addr /\ kind[o] = "object",
         NewCell(a, k, r, o),
         UNCHANGED <<wval, pc, todo, closing>>
  PROVE  /\ RefCountExact' /\ PlacesInv' /\ RecordsInv' /\ VarsInv'
         /\ ListsInv' /\ CountsInv' /\ TodoInv' /\ CyclesInv'
<1> USE DEF NewCell, IInv, HeapInv
<1>t. TypeOK
  OBVIOUS
<1>0. target[r] = Nil /\ \A s \in Ref : target[s] # a
  BY <1>t DEF PlacesInv, TypeOK
<1>1. RefCountExact'
  <2> SUFFICES ASSUME NEW b \in Addr PROVE rc'[b] = Edges(Ref, b)'
    BY WholeCountsPrime
  <2>1. rc[b] = Edges(Ref, b)
    BY WholeCounts
  <2>2. Edges(Ref, b)' = IF b = a THEN Edges(Ref, b) + 1 ELSE Edges(Ref, b)
    BY <1>0, EdgesAdd, <1>t DEF TypeOK
  <2>3. Edges(Ref, a) = 0
    BY <1>0, EdgesFacts
  <2> QED BY <2>1, <2>2, <2>3, <1>t DEF TypeOK
<1>2. PlacesInv'
  BY <1>0, <1>t, TokenAssumption DEF PlacesInv, TypeOK, Live
<1>3. RecordsInv'
  BY <1>0, <1>t, TokenAssumption DEF RecordsInv, TypeOK
<1>4. VarsInv'
  BY <1>0, <1>t, TokenAssumption DEF VarsInv, TypeOK
<1>5. ListsInv' /\ CountsInv'
  BY <1>t DEF ListsInv, CountsInv, TypeOK, Live
<1>6. TodoInv' /\ CyclesInv'
  BY DEF TodoInv, CyclesInv
<1> QED BY <1>1, <1>2, <1>3, <1>4, <1>5, <1>6

\* One more value that denotes a live object c, held in place r by o.
LEMMA DupInv ==
  ASSUME IInv, pc = "run", NEW c \in Live, NEW r \in Ref, NEW o,
         o = Stack \/ o \in Live,
         kind[c] = "var_ref" => o \in Addr /\ kind[o] = "object",
         Dup(c, r, o),
         UNCHANGED <<kind, mark, list, pc, todo, closing>>,
         \/ UNCHANGED wval
         \/ o \in Addr /\ kind[o] = "weakmap" /\ wval' = [wval EXCEPT ![o] = r]
  PROVE  /\ RefCountExact' /\ PlacesInv' /\ RecordsInv' /\ VarsInv'
         /\ ListsInv' /\ CountsInv' /\ TodoInv' /\ CyclesInv'
<1> USE DEF Dup, IInv, HeapInv
<1>t. TypeOK /\ c \in Addr
  BY DEF Live
<1>0. target[r] = Nil
  BY <1>t DEF PlacesInv, TypeOK
<1>1. RefCountExact'
  <2> SUFFICES ASSUME NEW b \in Addr PROVE rc'[b] = Edges(Ref, b)'
    BY WholeCountsPrime
  <2>1. rc[b] = Edges(Ref, b)
    BY WholeCounts
  <2>2. Edges(Ref, b)' = IF b = c THEN Edges(Ref, b) + 1 ELSE Edges(Ref, b)
    BY <1>0, EdgesAdd, <1>t DEF TypeOK
  <2> QED BY <2>1, <2>2, <1>t DEF TypeOK
<1>2. PlacesInv'
  BY <1>0, <1>t, TokenAssumption DEF PlacesInv, TypeOK, Live
<1>3. RecordsInv'
  BY <1>0, <1>t, TokenAssumption DEF RecordsInv, TypeOK
<1>4. VarsInv'
  BY <1>0, <1>t, TokenAssumption DEF VarsInv, TypeOK
<1>5. ListsInv' /\ CountsInv'
  BY <1>t, RunFacts DEF ListsInv, CountsInv, TypeOK, Live
<1>6. TodoInv' /\ CyclesInv'
  BY DEF TodoInv, CyclesInv
<1> QED BY <1>1, <1>2, <1>3, <1>4, <1>5, <1>6

\* No weak reference points to freed memory.
LEMMA FreeNoKey ==
  ASSUME IInv, NEW a \in Addr, kind[a] \in {"free", "var_ref"}
  PROVE  wcount[a] = 0 /\ \A w \in Addr : wkey[w] # a
<1>1. \A w \in Addr : wkey[w] # a
  BY TokenAssumption DEF IInv, HeapInv, WeakKeysInv
<1>2. KeyOf(a) = {}
  BY <1>1 DEF KeyOf
<1> QED BY <1>1, <1>2, WeakCounts, FS_EmptySet DEF IInv, HeapInv

\* JS_NewObject and new WeakMap(): one reference to one new cell.
LEMMA NewObjectInv ==
  ASSUME IInv, NEW a \in Addr, NEW k, NEW r \in Ref, NewObject(a, k, r)
  PROVE  IInv'
<1> USE DEF NewObject, Running, IInv, HeapInv
<1>t. TypeOK
  OBVIOUS
<1>1. /\ RefCountExact' /\ PlacesInv' /\ RecordsInv' /\ VarsInv'
      /\ ListsInv' /\ CountsInv' /\ TodoInv' /\ CyclesInv'
  BY NewCellInv
<1>2. TypeOK'
  BY <1>t DEF TypeOK, NewCell, Kinds, Lists
<1>3. WeakKeysInv'
  BY <1>t DEF TypeOK, NewCell, WeakKeysInv, weakref_list
<1>4. WeakCountExact'
  <2>1. wcount' = wcount
    BY FreeNoKey, <1>t DEF TypeOK, NewCell
  <2>2. \A c \in Addr : KeyOf(c)' = KeyOf(c)
    BY DEF KeyOf
  <2> QED BY <2>1, <2>2, <1>3, <1>t, WeakCounts, WeakCountsPrime DEF TypeOK, NewCell
<1> QED BY <1>1, <1>2, <1>3, <1>4

\* What the program holds is a live object, never a bare variable.
LEMMA HeldLive ==
  ASSUME IInv, pc = "run", NEW L \in SUBSET Ref, NEW a \in Addr, HeldBy(L, a)
  PROVE  a \in Live /\ kind[a] # "var_ref"
BY RunFacts, TokenAssumption DEF HeldBy, IInv, HeapInv, PlacesInv

\* new WeakRef(): a new cell, and one weak reference more to its target.
LEMMA NewWeakRefInv ==
  ASSUME IInv, NEW a \in Addr, NEW r \in Ref, NEW key \in Addr, NewWeakRef(a, r, key)
  PROVE  IInv'
<1> USE DEF NewWeakRef, Running, IInv, HeapInv
<1>t. TypeOK
  OBVIOUS
<1>k. key \in Live /\ kind[key] # "var_ref"
  BY HeldLive DEF Held
<1>1. /\ RefCountExact' /\ PlacesInv' /\ RecordsInv' /\ VarsInv'
      /\ ListsInv' /\ CountsInv' /\ TodoInv' /\ CyclesInv'
  BY NewCellInv
<1>2. TypeOK'
  BY <1>t DEF TypeOK, NewCell, Kinds, Lists
<1>3. WeakKeysInv'
  BY <1>t, <1>k, TokenAssumption DEF TypeOK, NewCell, WeakKeysInv, weakref_list, Live
<1>4. WeakCountExact'
  <2>1. wkey[a] = Nil
    BY <1>t DEF WeakKeysInv, weakref_list, NewCell, TypeOK
  <2>2. wcount[a] = 0 /\ a # key
    BY FreeNoKey, <1>k DEF NewCell, Live
  <2>3. wcount' = [wcount EXCEPT ![key] = @ + 1]
    BY <2>2, <1>t DEF TypeOK
  <2>4. \A c \in Addr : Cardinality(KeyOf(c)') = IF c = key THEN Cardinality(KeyOf(c)) + 1
                                                 ELSE Cardinality(KeyOf(c))
    BY <2>1, <1>t, KeyOfAdd DEF TypeOK
  <2> QED BY <2>3, <2>4, <1>3, <1>t, WeakCounts, WeakCountsPrime DEF TypeOK, NewCell
<1> QED BY <1>1, <1>2, <1>3, <1>4

\* Nothing about weak references changes.
LEMMA WeakSame ==
  ASSUME IInv, UNCHANGED <<kind, list, wcount, wkey, wval>>
  PROVE  WeakKeysInv' /\ WeakCountExact'
<1>1. WeakKeysInv'
  BY DEF WeakKeysInv, weakref_list, IInv, HeapInv
<1>2. \A c \in Addr : KeyOf(c)' = KeyOf(c)
  BY DEF KeyOf
<1> QED BY <1>1, <1>2, WeakCounts, WeakCountsPrime DEF IInv, HeapInv

\* deref() counts its result, an object whose count is not zero.
LEMMA DerefInv ==
  ASSUME IInv, NEW w \in Addr, NEW r \in Ref, Deref(w, r)
  PROVE  IInv'
<1> USE DEF Deref, Running, IInv, HeapInv
<1>t. TypeOK
  OBVIOUS
<1> DEFINE k == wkey[w]
<1>k. k \in Addr /\ kind[k] # "var_ref" /\ rc[k] # 0
  BY <1>t DEF TypeOK, WeakKeysInv, is_live
<1>l. k \in Live
  BY <1>k, ZeroCount, RunFacts
<1>1. /\ RefCountExact' /\ PlacesInv' /\ RecordsInv' /\ VarsInv'
      /\ ListsInv' /\ CountsInv' /\ TodoInv' /\ CyclesInv'
  BY <1>k, <1>l, DupInv
<1>2. TypeOK'
  BY <1>t, <1>k DEF TypeOK, Dup
<1>3. WeakKeysInv' /\ WeakCountExact'
  BY WeakSame
<1> QED BY <1>1, <1>2, <1>3

\* map.set() counts its value, and its key weakly.
LEMMA MapSetInv ==
  ASSUME IInv, NEW w \in Addr, NEW key \in Addr, NEW c \in Addr, NEW r \in Ref,
         MapSet(w, key, c, r)
  PROVE  IInv'
<1> USE DEF MapSet, Running, IInv, HeapInv
<1>t. TypeOK
  OBVIOUS
<1>k. /\ key \in Live /\ kind[key] # "var_ref"
      /\ c \in Live /\ kind[c] # "var_ref"
      /\ w \in Live
  BY HeldLive DEF Held
<1>1. /\ RefCountExact' /\ PlacesInv' /\ RecordsInv' /\ VarsInv'
      /\ ListsInv' /\ CountsInv' /\ TodoInv' /\ CyclesInv'
  BY <1>k, DupInv
<1>2. TypeOK'
  BY <1>t DEF TypeOK, Dup
<1>3. WeakKeysInv'
  BY <1>t, <1>k, TokenAssumption DEF TypeOK, WeakKeysInv, weakref_list, Live
<1>4. WeakCountExact'
  <2>1. \A d \in Addr : Cardinality(KeyOf(d)') = IF d = key THEN Cardinality(KeyOf(d)) + 1
                                                 ELSE Cardinality(KeyOf(d))
    BY <1>t, KeyOfAdd DEF TypeOK
  <2> QED BY <2>1, <1>3, <1>t, WeakCounts, WeakCountsPrime DEF TypeOK
<1> QED BY <1>1, <1>2, <1>3, <1>4

\* Reading a value counts the copy.
LEMMA ReadValueInv ==
  ASSUME IInv, NEW s \in Ref, NEW r \in Ref, ReadValue(s, r)
  PROVE  IInv'
<1> USE DEF ReadValue, Running, IInv, HeapInv
<1>t. TypeOK
  OBVIOUS
<1>k. target[s] \in Live
  BY <1>t, RunFacts, TokenAssumption DEF TypeOK, PlacesInv, Accessible
<1>1. /\ RefCountExact' /\ PlacesInv' /\ RecordsInv' /\ VarsInv'
      /\ ListsInv' /\ CountsInv' /\ TodoInv' /\ CyclesInv'
  BY <1>k, DupInv
<1>2. TypeOK'
  BY <1>t, <1>k DEF TypeOK, Dup, Live
<1>3. WeakKeysInv' /\ WeakCountExact'
  BY WeakSame
<1> QED BY <1>1, <1>2, <1>3

\* A captured variable is a new cell, referenced by its closure only.
LEMMA CaptureVarInv ==
  ASSUME IInv, NEW f \in Addr, NEW v \in Addr, NEW r \in Ref, CaptureVar(f, v, r)
  PROVE  IInv'
<1> USE DEF CaptureVar, Running, IInv, HeapInv
<1>t. TypeOK
  OBVIOUS
<1>1. /\ RefCountExact' /\ PlacesInv' /\ RecordsInv' /\ VarsInv'
      /\ ListsInv' /\ CountsInv' /\ TodoInv' /\ CyclesInv'
  BY NewCellInv
<1>2. TypeOK'
  BY <1>t DEF TypeOK, NewCell, Kinds, Lists
<1>3. WeakKeysInv'
  BY <1>t, FreeNoKey DEF TypeOK, NewCell, WeakKeysInv, weakref_list
<1>4. WeakCountExact'
  <2>1. \A c \in Addr : KeyOf(c)' = KeyOf(c)
    BY DEF KeyOf
  <2> QED BY <2>1, <1>3, <1>t, WeakCounts, WeakCountsPrime DEF TypeOK, NewCell
<1> QED BY <1>1, <1>2, <1>3, <1>4

\* A second closure on an open variable is one reference more.
LEMMA ShareVarInv ==
  ASSUME IInv, NEW f \in Addr, NEW v \in Addr, NEW r \in Ref, ShareVar(f, v, r)
  PROVE  IInv'
<1> USE DEF ShareVar, Running, IInv, HeapInv
<1>t. TypeOK
  OBVIOUS
<1>k. f \in Live /\ v \in Live
  BY HeldLive DEF Held, Live
<1>1. /\ RefCountExact' /\ PlacesInv' /\ RecordsInv' /\ VarsInv'
      /\ ListsInv' /\ CountsInv' /\ TodoInv' /\ CyclesInv'
  BY <1>k, DupInv
<1>2. TypeOK'
  BY <1>t DEF TypeOK, Dup
<1>3. WeakKeysInv' /\ WeakCountExact'
  BY WeakSame
<1> QED BY <1>1, <1>2, <1>3

\* A closed variable counts the value it takes from its frame.
LEMMA CloseVarInv ==
  ASSUME IInv, NEW v \in Addr, NEW s \in Ref, NEW r \in Ref, CloseVar(v, s, r)
  PROVE  IInv'
<1> USE DEF CloseVar, Running, IInv, HeapInv
<1>t. TypeOK
  OBVIOUS
<1>k. v \in Live /\ target[s] \in Live /\ kind[target[s]] # "var_ref"
  BY <1>t, RunFacts, TokenAssumption DEF TypeOK, PlacesInv, Live
<1>1. /\ RefCountExact' /\ PlacesInv' /\ RecordsInv' /\ VarsInv'
      /\ ListsInv' /\ CountsInv' /\ TodoInv' /\ CyclesInv'
  BY <1>k, DupInv
<1>2. TypeOK'
  BY <1>t, <1>k DEF TypeOK, Dup, Live
<1>3. WeakKeysInv' /\ WeakCountExact'
  BY WeakSame
<1> QED BY <1>1, <1>2, <1>3

\* The program drops the values in places R, none of them a variable.
LEMMA FreeValuesInv ==
  ASSUME IInv, pc = "run", NEW R \in SUBSET Ref,
         \A r \in R : target[r] \in Addr => kind[target[r]] # "var_ref",
         target' = [r \in Ref |-> IF r \in R THEN Nil ELSE target[r]],
         FreeValues(R), UNCHANGED <<kind, todo, closing>>
  PROVE  /\ RefCountExact' /\ VarsInv' /\ ListsInv' /\ CountsInv' /\ TodoInv' /\ CyclesInv'
         /\ rc' \in [Addr -> Nat] /\ mark' \in [Addr -> {0, 1}]
         /\ list' \in [Addr -> Lists] /\ pc' \in {"run", "free_zero"}
<1> USE DEF IInv, HeapInv
<1>t. TypeOK
  OBVIOUS
<1>p. pc' \in {"run", "free_zero"} /\ gc_phase # "remove_cycles"
  BY DEF FreeValues, gc_phase
<1>c. \A a \in Addr : /\ rc[a] = Edges(Ref, a)
                      /\ Edges(Ref, a)' = rc[a] - Edges(R, a)
                      /\ rc'[a] = rc[a] - Edges(R, a)
                      /\ Edges(R, a) \in Nat /\ rc[a] \in Nat /\ Edges(R, a) <= rc[a]
                      /\ Edges(R, a) = 0 <=> \A r \in R : target[r] # a
  <2> SUFFICES ASSUME NEW a \in Addr
               PROVE  /\ rc[a] = Edges(Ref, a)
                      /\ Edges(Ref, a)' = rc[a] - Edges(R, a)
                      /\ rc'[a] = rc[a] - Edges(R, a)
                      /\ Edges(R, a) \in Nat /\ rc[a] \in Nat /\ Edges(R, a) <= rc[a]
                      /\ Edges(R, a) = 0 <=> \A r \in R : target[r] # a
    OBVIOUS
  <2>1. rc[a] = Edges(Ref, a)
    BY WholeCounts
  <2>2. /\ Edges(Ref, a)' = Edges(Ref, a) - Edges(R, a)
        /\ Edges(R, a) <= Edges(Ref, a)
        /\ Edges(R, a) \in Nat /\ Edges(Ref, a) \in Nat
    BY <1>t, EdgesDrop DEF TypeOK
  <2>3. Edges(R, a) = 0 <=> \A r \in R : target[r] # a
    BY EdgesFacts
  <2>4. rc'[a] = rc[a] - Edges(R, a)
    BY DEF FreeValues, RcWithout
  <2> QED BY <2>1, <2>2, <2>3, <2>4
<1>1. RefCountExact'
  BY <1>c, <1>p, WholeCountsPrime
<1>z. \A a \in ToZero(R) : /\ a \in Live /\ kind[a] # "var_ref" /\ rc'[a] = 0
                           /\ list[a] = "gc"
  BY <1>c, <1>p, RunFacts DEF ToZero
<1>2. VarsInv'
  <2> SUFFICES ASSUME NEW v \in Addr, kind[v] = "var_ref"
               PROVE  \E r \in Ref : target'[r] = v
    BY DEF VarsInv
  <2> QED BY TokenAssumption DEF VarsInv
<1>3. ListsInv'
  BY <1>z, <1>p, <1>t DEF ListsInv, FreeValues, TypeOK, Live
<1>4. CountsInv'
  <2> SUFFICES ASSUME NEW a \in Addr PROVE CountsInv!(a)'
    BY DEF CountsInv
  <2>1. CASE a \in ToZero(R)
    BY <2>1, <1>z, <1>p DEF FreeValues
  <2>2. CASE a \notin ToZero(R)
    <3>1. list'[a] = list[a] /\ mark'[a] = mark[a]
      BY <2>2 DEF FreeValues
    <3>2. list[a] = "gc" => rc'[a] > 0
      BY <2>2, <1>c, <1>p DEF ToZero, VarsInv, CountsInv, PlacesInv
    <3>3. list[a] = "none" => rc'[a] = 0
      BY <1>c DEF CountsInv
    <3>4. list[a] \in {"gc", "none"}
      BY <1>t DEF ListsInv, TypeOK, Lists, Live
    <3> QED BY <3>1, <3>2, <3>3, <3>4, <1>p DEF CountsInv
  <2> QED BY <2>1, <2>2
<1>5. TodoInv' /\ CyclesInv'
  BY <1>p DEF TodoInv, CyclesInv
<1>6. /\ rc' \in [Addr -> Nat] /\ mark' \in [Addr -> {0, 1}]
      /\ list' \in [Addr -> Lists]
  BY <1>c, <1>t DEF FreeValues, RcWithout, TypeOK, Lists
<1> QED BY <1>1, <1>2, <1>3, <1>4, <1>5, <1>6, <1>p

\* A value moved into an object is counted where it was.
LEMMA AddPropertyInv ==
  ASSUME IInv, NEW s \in Ref, NEW h \in Addr, AddProperty(s, h)
  PROVE  IInv'
<1> USE DEF AddProperty, Running, IInv, HeapInv, cells
<1>t. TypeOK
  OBVIOUS
<1>h. h \in Live
  BY HeldLive
<1>1. TypeOK'
  BY <1>t DEF TypeOK
<1>2. RefCountExact'
  BY WholeCounts, WholeCountsPrime DEF Edges
<1>3. PlacesInv'
  BY <1>t, <1>h, TokenAssumption DEF PlacesInv, TypeOK, Live
<1>4. RecordsInv'
  BY <1>t, TokenAssumption DEF RecordsInv, TypeOK
<1>5. VarsInv' /\ ListsInv' /\ CountsInv' /\ TodoInv' /\ CyclesInv'
  BY DEF VarsInv, ListsInv, CountsInv, TodoInv, CyclesInv, Live, On
<1>6. WeakKeysInv' /\ WeakCountExact'
  BY WeakSame
<1> QED BY <1>1, <1>2, <1>3, <1>4, <1>5, <1>6

\* Dropping a value uncounts it; a last reference queues the object.
LEMMA FreeValueInv ==
  ASSUME IInv, NEW r \in Ref, FreeValue(r)
  PROVE  IInv'
<1> USE DEF FreeValue, Running, IInv, HeapInv
<1>t. TypeOK
  OBVIOUS
<1>k. target[r] \in Addr => kind[target[r]] # "var_ref"
  BY <1>t, TokenAssumption DEF TypeOK, PlacesInv
<1>o. \A w \in Addr : wval[w] # r
  BY <1>t, TokenAssumption DEF TypeOK, RecordsInv
<1>1. /\ RefCountExact' /\ VarsInv' /\ ListsInv' /\ CountsInv' /\ TodoInv' /\ CyclesInv'
      /\ rc' \in [Addr -> Nat] /\ mark' \in [Addr -> {0, 1}]
      /\ list' \in [Addr -> Lists] /\ pc' \in {"run", "free_zero"}
  BY <1>k, FreeValuesInv DEF Clear
<1>2. TypeOK'
  BY <1>t, <1>1 DEF TypeOK, Clear, Loops
<1>3. PlacesInv'
  BY <1>t, <1>1, TokenAssumption DEF PlacesInv, TypeOK, Clear, Live
<1>4. RecordsInv'
  BY <1>t, <1>o DEF RecordsInv, TypeOK, Clear
<1>5. WeakKeysInv'
  BY DEF WeakKeysInv, weakref_list
<1>6. WeakCountExact'
  <2>1. \A c \in Addr : KeyOf(c)' = KeyOf(c)
    BY DEF KeyOf
  <2>2. \A c \in Addr : list'[c] = "none" => list[c] = "none"
    BY DEF FreeValues
  <2> QED BY <2>1, <2>2, <1>5, WeakCounts, WeakCountsPrime
<1> QED BY <1>1, <1>2, <1>3, <1>4, <1>5, <1>6

\* Overwriting a value drops the old one after the new one is stored.
LEMMA SetValueInv ==
  ASSUME IInv, NEW s \in Ref, NEW r \in Ref, SetValue(s, r)
  PROVE  IInv'
<1> USE DEF SetValue, Running, IInv, HeapInv
<1>t. TypeOK
  OBVIOUS
<1>k. /\ s # r /\ owner[r] \in Addr
      /\ kind[target[s]] # "var_ref"
      /\ \A w \in Addr : wval[w] # s
  BY <1>t, TokenAssumption DEF TypeOK, PlacesInv, RecordsInv, Accessible
<1>d. target' = [q \in Ref |-> IF q \in {r} THEN Nil ELSE target[q]]
  BY <1>t DEF TypeOK
<1>1. /\ RefCountExact' /\ VarsInv' /\ ListsInv' /\ CountsInv' /\ TodoInv' /\ CyclesInv'
      /\ rc' \in [Addr -> Nat] /\ mark' \in [Addr -> {0, 1}]
      /\ list' \in [Addr -> Lists] /\ pc' \in {"run", "free_zero"}
  BY <1>d, FreeValuesInv
<1>2. TypeOK'
  BY <1>t, <1>1 DEF TypeOK, Loops
<1>3. PlacesInv'
  BY <1>t, <1>k, <1>1, TokenAssumption DEF PlacesInv, TypeOK, Live
<1>4. RecordsInv'
  BY <1>t, <1>k, TokenAssumption DEF RecordsInv, TypeOK
<1>5. WeakKeysInv'
  BY <1>t, TokenAssumption DEF WeakKeysInv, weakref_list, TypeOK
<1>6. WeakCountExact'
  <2>1. \A c \in Addr : KeyOf(c)' = KeyOf(c)
    BY DEF KeyOf
  <2>2. \A c \in Addr : list'[c] = "none" => list[c] = "none"
    BY DEF FreeValues
  <2> QED BY <2>1, <2>2, <1>5, WeakCounts, WeakCountsPrime
<1> QED BY <1>1, <1>2, <1>3, <1>4, <1>5, <1>6

\* map.delete() drops the value and the weak reference of the record.
LEMMA MapDeleteInv ==
  ASSUME IInv, NEW w \in Addr, MapDelete(w)
  PROVE  IInv'
<1> USE DEF MapDelete, Running, IInv, HeapInv
<1> DEFINE R == RecordValue(w)
           k == wkey[w]
<1>t. TypeOK
  OBVIOUS
<1>k. k \in Addr /\ k \in Live
  BY <1>t, HeldLive DEF TypeOK, Held
<1>r. /\ R \subseteq Ref
      /\ \A r \in R : r = wval[w] /\ owner[r] = w
      /\ \A r \in R : target[r] \in Addr => kind[target[r]] # "var_ref"
  BY <1>t DEF RecordValue, RecordsInv, PlacesInv
<1>1. /\ RefCountExact' /\ VarsInv' /\ ListsInv' /\ CountsInv' /\ TodoInv' /\ CyclesInv'
      /\ rc' \in [Addr -> Nat] /\ mark' \in [Addr -> {0, 1}]
      /\ list' \in [Addr -> Lists] /\ pc' \in {"run", "free_zero"}
  BY <1>r, FreeValuesInv DEF Clear
<1>3. PlacesInv'
  BY <1>t, <1>r, <1>1, TokenAssumption DEF PlacesInv, TypeOK, Clear, Live
<1>4. RecordsInv'
  BY <1>t, <1>r, TokenAssumption DEF RecordsInv, TypeOK, Clear
<1>5. WeakKeysInv'
  BY <1>t, TokenAssumption DEF WeakKeysInv, weakref_list, TypeOK
<1>w. \A c \in Addr : /\ Cardinality(KeyOf(c)') = IF c = k THEN Cardinality(KeyOf(c)) - 1
                                                  ELSE Cardinality(KeyOf(c))
                      /\ Cardinality(KeyOf(c)') \in Nat
                      /\ wcount[c] = Cardinality(KeyOf(c))
  BY <1>t, KeyOfDrop, WeakCounts DEF TypeOK
<1>6. \A c \in Addr : wcount'[c] = Cardinality(KeyOf(c)')
  BY <1>w, <1>k, <1>t DEF WithoutWeakRef, TypeOK
<1>7. WeakCountExact'
  <2>1. \A c \in Addr : list'[c] = "none" => list[c] = "none"
    BY DEF FreeValues
  <2>2. \A c \in Addr : c # k => wcount'[c] = wcount[c]
    BY <1>k, <1>t DEF WithoutWeakRef, TypeOK
  <2> QED BY <2>1, <2>2, <1>k, <1>5, <1>6, WeakCounts, WeakCountsPrime DEF Live
<1>2. TypeOK'
  <2>1. wcount' \in [Addr -> Nat]
    BY <1>6, <1>w, <1>t DEF WithoutWeakRef, TypeOK
  <2> QED BY <2>1, <1>t, <1>1 DEF TypeOK, Clear, Loops
<1> QED BY <1>1, <1>2, <1>3, <1>4, <1>5, <1>7

\* A loop begins or ends: no cell and no value changes.
LEMMA LoopInv ==
  ASSUME IInv, UNCHANGED <<cells, refs>>
  PROVE  RecordsInv' /\ VarsInv' /\ WeakKeysInv' /\ WeakCountExact'
<1> USE DEF IInv, HeapInv, cells, refs
<1>1. RecordsInv' /\ VarsInv'
  BY DEF RecordsInv, VarsInv
<1>2. WeakKeysInv' /\ WeakCountExact'
  BY WeakSame
<1> QED BY <1>1, <1>2

\* The same cells and values are counted.
LEMMA SameCounts ==
  ASSUME RefCountExact, UNCHANGED <<cells, refs>>, Deducted' = Deducted
  PROVE  RefCountExact'
BY DEF RefCountExact, Edges, cells, refs

\* Starting a collection touches no cell.
LEMMA RunGCInv == ASSUME IInv, RunGC PROVE IInv'
<1> USE DEF RunGC, Running, IInv, HeapInv
<1>t. TypeOK
  OBVIOUS
<1>1. RefCountExact'
  BY SameCounts DEF Deducted
<1>2. TypeOK'
  BY DEF TypeOK, Loops, cells, refs, weakref_list
<1>3. RecordsInv' /\ VarsInv' /\ WeakKeysInv' /\ WeakCountExact'
  BY LoopInv
<1>4. PlacesInv' /\ ListsInv' /\ CountsInv' /\ TodoInv' /\ CyclesInv'
  BY <1>t DEF PlacesInv, ListsInv, CountsInv, TodoInv, CyclesInv, cells, refs, Live, TypeOK
<1> QED BY <1>1, <1>2, <1>3, <1>4

\* JS_FreeRuntime starts the collector with every mark reset.
LEMMA FreeRuntimeInv == ASSUME IInv, FreeRuntime PROVE IInv'
<1> USE DEF FreeRuntime, Running, IInv, HeapInv
<1>t. TypeOK
  OBVIOUS
<1>1. RefCountExact'
  <2>1. Deducted = {} /\ Deducted' = {}
    BY <1>t DEF Deducted, On, ListsInv, TypeOK, cells
  <2> QED BY <2>1, SameCounts
<1>2. TypeOK'
  BY DEF TypeOK, Loops, cells, refs, On
<1>3. RecordsInv' /\ VarsInv' /\ WeakKeysInv' /\ WeakCountExact'
  BY LoopInv
<1>4. PlacesInv' /\ ListsInv' /\ CountsInv' /\ TodoInv' /\ CyclesInv'
  BY <1>t DEF PlacesInv, ListsInv, CountsInv, TodoInv, CyclesInv, cells, refs, Live, TypeOK, On
<1> QED BY <1>1, <1>2, <1>3, <1>4

\* A new runtime starts from the heap the last one left empty.
LEMMA NewRuntimeInv == ASSUME IInv, NewRuntime PROVE IInv'
<1> USE DEF NewRuntime, IInv, HeapInv
<1>t. TypeOK
  OBVIOUS
<1>1. RefCountExact'
  BY SameCounts DEF Deducted
<1>2. TypeOK'
  BY DEF TypeOK, Loops, cells, refs
<1>3. RecordsInv' /\ VarsInv' /\ WeakKeysInv' /\ WeakCountExact'
  BY LoopInv
<1>4. PlacesInv' /\ ListsInv' /\ CountsInv' /\ TodoInv' /\ CyclesInv'
  BY <1>t DEF PlacesInv, ListsInv, CountsInv, TodoInv, CyclesInv, cells, refs, Live, TypeOK
<1> QED BY <1>1, <1>2, <1>3, <1>4

-----------------------------------------------------------------------------
(***************************************************************************)
(* The loops of the engine                                                 *)
(***************************************************************************)

\* With nothing left to free, the objects in use have their marks reset.
LEMMA FreeZeroDoneInv == ASSUME IInv, FreeZeroDone PROVE IInv'
<1> USE DEF FreeZeroDone, IInv, HeapInv
<1>t. TypeOK
  OBVIOUS
<1>1. RefCountExact'
  <2>1. Deducted = {} /\ Deducted' = {}
    BY <1>t DEF Deducted, On, ListsInv, TypeOK, cells
  <2> QED BY <2>1, SameCounts
<1>2. TypeOK'
  BY DEF TypeOK, Loops, cells, refs, On
<1>3. RecordsInv' /\ VarsInv' /\ WeakKeysInv' /\ WeakCountExact'
  BY LoopInv
<1>4. PlacesInv' /\ ListsInv' /\ CountsInv' /\ TodoInv' /\ CyclesInv'
  BY <1>t DEF PlacesInv, ListsInv, CountsInv, TodoInv, CyclesInv, cells, refs, Live, TypeOK, On
<1> QED BY <1>1, <1>2, <1>3, <1>4

\* The pass over the weak references ends with no key left to visit.
LEMMA WeakDoneInv == ASSUME IInv, WeakDone PROVE IInv'
<1> USE DEF WeakDone, IInv, HeapInv
<1>t. TypeOK
  OBVIOUS
<1>1. RefCountExact'
  BY SameCounts DEF Deducted
<1>2. TypeOK'
  BY DEF TypeOK, Loops, cells, refs
<1>3. RecordsInv' /\ VarsInv' /\ WeakKeysInv' /\ WeakCountExact'
  BY LoopInv
<1>4. PlacesInv' /\ ListsInv' /\ CountsInv' /\ TodoInv' /\ CyclesInv'
  BY <1>t DEF PlacesInv, ListsInv, CountsInv, TodoInv, CyclesInv, cells, refs, Live, TypeOK
<1> QED BY <1>1, <1>2, <1>3, <1>4

\* After gc_decref every object still on the object list is counted.
LEMMA DecrefDoneInv == ASSUME IInv, DecrefDone PROVE IInv'
<1> USE DEF DecrefDone, IInv, HeapInv
<1>t. TypeOK
  OBVIOUS
<1>1. RefCountExact'
  BY SameCounts DEF Deducted, On, cells
<1>2. TypeOK'
  BY DEF TypeOK, Loops, cells, refs, On
<1>3. RecordsInv' /\ VarsInv' /\ WeakKeysInv' /\ WeakCountExact'
  BY LoopInv
<1>4. PlacesInv' /\ ListsInv' /\ CountsInv' /\ TodoInv' /\ CyclesInv'
  BY <1>t DEF PlacesInv, ListsInv, CountsInv, TodoInv, CyclesInv, cells, refs, Live, TypeOK, On
<1> QED BY <1>1, <1>2, <1>3, <1>4

\* When no cell is left to free, no variable waits for its closures and no
\* value denotes a dead object: all of them were known only to each other.
LEMMA FreeCyclesDoneInv == ASSUME IInv, FreeCyclesDone PROVE IInv'
<1> USE DEF FreeCyclesDone, IInv, HeapInv
<1>t. TypeOK
  OBVIOUS
<1>v. \A v \in Addr : ~(kind[v] = "var_ref" /\ list[v] = "zero")
  <2> SUFFICES ASSUME NEW v \in Addr, kind[v] = "var_ref", list[v] = "zero"
               PROVE  FALSE
    OBVIOUS
  <2>1. PICK r \in Ref : target[r] = v
    BY DEF VarsInv
  <2>2. owner[r] \in Addr /\ kind[owner[r]] = "object" /\ list[owner[r]] = "zero"
    BY <2>1 DEF PlacesInv, CyclesInv, Doomed, On
  <2> QED BY <2>2 DEF ListsInv, Live
<1>z. \A r \in Ref : target[r] \in Addr => list[target[r]] # "zero"
  BY <1>v DEF PlacesInv, CyclesInv, Doomed, On, ListsInv, Live
<1>1. RefCountExact'
  BY SameCounts DEF Deducted
<1>2. TypeOK'
  BY DEF TypeOK, Loops, cells, refs
<1>3. RecordsInv' /\ VarsInv' /\ WeakKeysInv' /\ WeakCountExact'
  BY LoopInv
<1>4. PlacesInv'
  BY <1>z DEF PlacesInv, cells, refs, Live
<1>5. ListsInv'
  BY <1>v, <1>t DEF ListsInv, cells, refs, Live, TypeOK, On
<1>6. CountsInv'
  <2>1. \A a \in Addr : list[a] = "zero" => rc[a] = 0
    BY <1>z, ZeroCount
  <2>2. \A a \in Addr : list[a] # "tmp"
    BY DEF On
  <2> QED BY <2>1, <2>2 DEF CountsInv, cells
<1>7. TodoInv' /\ CyclesInv'
  BY DEF TodoInv, CyclesInv
<1> QED BY <1>1, <1>2, <1>3, <1>4, <1>5, <1>6, <1>7

\* The kept structures are dead objects that weak references point to.
LEMMA SweepInv == ASSUME IInv, Sweep PROVE IInv'
<1> USE DEF Sweep, IInv, HeapInv
<1>t. TypeOK
  OBVIOUS
<1>p. pc' \in {"run", "dead"}
  OBVIOUS
<1>z. \A a \in Addr : list[a] = "zero" =>
        /\ kind[a] = "zombie" /\ rc[a] = 0
        /\ \A r \in Ref : target[r] # a /\ owner[r] # a
  BY <1>t, ZeroCount DEF ListsInv, CountsInv, Live, TypeOK, Kinds, PlacesInv
<1>1. RefCountExact'
  BY <1>p, WholeCounts, WholeCountsPrime DEF refs, Edges
<1>2. TypeOK'
  BY <1>t DEF TypeOK, Loops, refs, Kinds, Lists
<1>3. PlacesInv'
  BY <1>t, <1>z, <1>p DEF PlacesInv, refs, Live, On, TypeOK
<1>4. RecordsInv' /\ VarsInv'
  BY <1>t, <1>z, TokenAssumption DEF RecordsInv, VarsInv, refs, TypeOK, On
<1>5. ListsInv'
  BY <1>t, <1>z, <1>p DEF ListsInv, Live, On, TypeOK, Lists
<1>6. CountsInv'
  BY <1>t, <1>z, <1>p DEF CountsInv, ListsInv, On, TypeOK, Lists
<1>7. TodoInv' /\ CyclesInv'
  BY <1>p DEF TodoInv, CyclesInv
<1>w. \A w \in Addr : wkey[w] # Nil => list[w] # "zero" /\ wcount[wkey[w]] # 0
  <2> SUFFICES ASSUME NEW w \in Addr, wkey[w] # Nil
               PROVE  list[w] # "zero" /\ wcount[wkey[w]] # 0
    OBVIOUS
  <2>1. list[w] # "zero"
    BY <1>z DEF WeakKeysInv, weakref_list
  <2>2. wkey[w] \in Addr /\ w \in KeyOf(wkey[w])
    BY <1>t DEF TypeOK, KeyOf
  <2>3. wcount[wkey[w]] = Cardinality(KeyOf(wkey[w]))
    BY <2>2, WeakCounts
  <2> QED BY <2>1, <2>2, <2>3, KeyOfFinite, FS_EmptySet
<1>8. WeakKeysInv'
  BY <1>t, <1>w, <1>z, TokenAssumption DEF WeakKeysInv, weakref_list, On, TypeOK
<1>9. WeakCountExact'
  <2>1. \A c \in Addr : KeyOf(c)' = KeyOf(c)
    BY DEF KeyOf
  <2> QED BY <2>1, <1>8, <1>t, <1>z, WeakCounts, WeakCountsPrime DEF TypeOK, On
<1> QED BY <1>1, <1>2, <1>3, <1>4, <1>5, <1>6, <1>7, <1>8, <1>9

\* gc_decref visits one cell: its references join the deducted ones.
LEMMA DecrefStepInv == ASSUME IInv, NEW p \in Addr, DecrefStep(p) PROVE IInv'
<1> USE DEF DecrefStep, IInv, HeapInv
<1> DEFINE Q == {r \in Ref : owner[r] \notin Deducted}
<1>t. TypeOK
  OBVIOUS
<1>p. p \in todo /\ list[p] = "gc" /\ p \in Live
  BY <1>t DEF TodoInv, On, ListsInv, Live, TypeOK, Kinds
<1>o. Own(p) \in SUBSET Ref /\ Q \in SUBSET Ref /\ Own(p) \in SUBSET Q
  BY <1>p DEF Own, Deducted
<1>e. \A a \in Addr : /\ Edges(Own(p), a) \in Nat
                      /\ Edges(Own(p), a) = 0 <=> \A r \in Own(p) : target[r] # a
  BY <1>o, EdgesFacts
<1>m. \A a \in Addr :
        list'[a] = IF rc'[a] = 0 /\ (a = p \/ (Edges(Own(p), a) > 0 /\ mark[a] = 1))
                   THEN "tmp" ELSE list[a]
  OBVIOUS
<1>c. \A a \in Addr : Edges(Own(p), a) > 0 => list[a] \in {"gc", "tmp"}
  <2> SUFFICES ASSUME NEW a \in Addr, Edges(Own(p), a) > 0
               PROVE  list[a] \in {"gc", "tmp"}
    OBVIOUS
  <2>1. PICK r \in Ref : target[r] = a
    BY <1>e, <1>o
  <2> QED BY <2>1, <1>t DEF PlacesInv, ListsInv, Live, TypeOK, Lists
<1>l. \A a \in Addr : list'[a] # list[a] => list[a] \in {"gc", "tmp"} /\ list'[a] = "tmp"
  BY <1>c, <1>p, <1>t DEF TypeOK
<1>d. Deducted' = Deducted \cup {p}
  BY <1>l, <1>p, <1>t DEF Deducted, On, TypeOK
<1>x. \A a \in Addr : /\ rc[a] = Edges(Q, a)
                      /\ rc'[a] = Edges(Q \ Own(p), a)
                      /\ rc'[a] = rc[a] - Edges(Own(p), a)
                      /\ rc'[a] \in Nat
  <2> SUFFICES ASSUME NEW a \in Addr
               PROVE  /\ rc[a] = Edges(Q, a)
                      /\ rc'[a] = Edges(Q \ Own(p), a)
                      /\ rc'[a] = rc[a] - Edges(Own(p), a)
                      /\ rc'[a] \in Nat
    OBVIOUS
  <2>1. rc[a] = Edges(Q, a)
    BY DEF RefCountExact
  <2>3. Edges(Q \ Own(p), a) = Edges(Q, a) - Edges(Own(p), a)
    BY <1>o, EdgesSplit
  <2>4. Edges(Q \ Own(p), a) \in Nat
    BY <1>o, EdgesFacts
  <2> QED BY <2>1, <2>3, <2>4 DEF RcWithout
<1>1. RefCountExact'
  <2>1. {r \in Ref : owner'[r] \notin Deducted'} = Q \ Own(p)
    BY <1>d DEF Own, refs
  <2> SUFFICES ASSUME NEW a \in Addr
               PROVE  rc'[a] = Cardinality({r \in {q \in Ref : owner'[q] \notin Deducted'} :
                                               target'[r] = a})
    BY DEF RefCountExact, Edges
  <2> QED BY <1>x, <2>1 DEF Edges, refs
<1>2. TypeOK'
  <2>1. rc' \in [Addr -> Nat]
    BY <1>x DEF RcWithout
  <2> QED BY <2>1, <1>t DEF TypeOK, Lists, refs
<1>3. PlacesInv' /\ RecordsInv' /\ VarsInv'
  BY DEF PlacesInv, RecordsInv, VarsInv, refs, Live
<1>4. ListsInv'
  BY <1>l, <1>t, <1>c DEF ListsInv, Live
<1>5. CountsInv'
  <2> SUFFICES ASSUME NEW a \in Addr
               PROVE  /\ list'[a] = "gc" =>
                           /\ rc'[a] > 0 \/ a \in todo'
                           /\ a \in todo' => mark'[a] = 0
                           /\ a \notin todo' => mark'[a] = 1
                      /\ list'[a] # "zero"
                      /\ list'[a] = "tmp" => mark'[a] = 1 /\ rc'[a] = 0
                      /\ list'[a] = "none" => mark'[a] = 0 /\ rc'[a] = 0
    BY DEF CountsInv
  <2>x. /\ rc'[a] = rc[a] - Edges(Own(p), a)
        /\ rc'[a] \in Nat /\ rc[a] \in Nat /\ Edges(Own(p), a) \in Nat
    BY <1>x, <1>e, <1>t DEF TypeOK
  <2>z. list[a] # "zero"
    BY <1>t DEF ListsInv, TypeOK, Kinds, Live
  <2>1. CASE a = p
    <3>1. mark'[a] = 1 /\ a \notin todo'
      BY <2>1, <1>t DEF TypeOK
    <3>2. list'[a] = IF rc'[a] = 0 THEN "tmp" ELSE "gc"
      BY <2>1, <1>m, <1>p
    <3> QED BY <3>1, <3>2, <2>x
  <2>2. CASE a # p
    <3>1. mark'[a] = mark[a] /\ (a \in todo' <=> a \in todo)
      BY <2>2, <1>t DEF TypeOK
    <3>2. list'[a] = IF rc'[a] = 0 /\ Edges(Own(p), a) > 0 /\ mark[a] = 1
                     THEN "tmp" ELSE list[a]
      BY <2>2, <1>m
    <3>3. /\ list[a] = "gc" /\ a \notin todo => rc[a] > 0 /\ mark[a] = 1
          /\ list[a] = "gc" /\ a \in todo => mark[a] = 0
          /\ list[a] = "tmp" => mark[a] = 1 /\ rc[a] = 0
          /\ list[a] = "none" => mark[a] = 0 /\ rc[a] = 0
      BY DEF CountsInv
    <3> QED BY <3>1, <3>2, <3>3, <2>x, <2>z
  <2> QED BY <2>1, <2>2
<1>6. TodoInv' /\ CyclesInv'
  <2>1. \A a \in todo' : list'[a] = "gc"
    <3> SUFFICES ASSUME NEW a \in todo' PROVE list'[a] = "gc"
      OBVIOUS
    <3>1. a # p /\ list[a] = "gc" /\ mark[a] = 0
      BY DEF TodoInv, On, CountsInv
    <3> QED BY <3>1, <1>t DEF TypeOK
  <2> QED BY <2>1, <1>t DEF TodoInv, CyclesInv, On, TypeOK
<1>7. WeakKeysInv'
  BY DEF WeakKeysInv, weakref_list
<1>8. WeakCountExact'
  <2>1. \A c \in Addr : KeyOf(c)' = KeyOf(c)
    BY DEF KeyOf
  <2>2. \A c \in Addr : list'[c] = "none" => list[c] = "none"
    BY <1>l
  <2> QED BY <2>1, <2>2, <1>7, WeakCounts, WeakCountsPrime
<1> QED BY <1>1, <1>2, <1>3, <1>4, <1>5, <1>6, <1>7, <1>8

\* gc_scan visits one cell: its references are put back into the counts.
LEMMA ScanStepInv == ASSUME IInv, NEW p \in Addr, ScanStep(p) PROVE IInv'
<1> USE DEF ScanStep, IInv, HeapInv
<1> DEFINE Q == {r \in Ref : owner[r] \notin Deducted}
           Revived == {a \in Addr : Edges(Own(p), a) > 0 /\ rc[a] = 0}
<1>t. TypeOK
  OBVIOUS
<1>p. p \in todo /\ list[p] = "gc" /\ rc[p] > 0 /\ p \notin Revived
  BY <1>t DEF TodoInv, On, CountsInv, TypeOK
<1>o. Own(p) \in SUBSET Ref /\ Q \in SUBSET Ref /\ Own(p) \cap Q = {}
  BY <1>p DEF Own, Deducted
<1>e. \A a \in Addr : /\ Edges(Own(p), a) \in Nat
                      /\ Edges(Own(p), a) = 0 <=> \A r \in Own(p) : target[r] # a
  BY <1>o, EdgesFacts
<1>c. \A a \in Addr : Edges(Own(p), a) > 0 => list[a] \in {"gc", "tmp"}
  <2> SUFFICES ASSUME NEW a \in Addr, Edges(Own(p), a) > 0
               PROVE  list[a] \in {"gc", "tmp"}
    OBVIOUS
  <2>1. PICK r \in Ref : target[r] = a
    BY <1>e, <1>o
  <2> QED BY <2>1, <1>t DEF PlacesInv, ListsInv, Live, TypeOK, Lists, Kinds
<1>r. \A a \in Revived : list[a] = "tmp"
  BY <1>c DEF CountsInv
<1>m. /\ \A a \in Addr : list'[a] = IF a \in Revived THEN "gc" ELSE list[a]
      /\ \A a \in Addr : mark'[a] = IF a \in Revived \cup {p} THEN 0 ELSE mark[a]
      /\ todo' = (todo \ {p}) \cup Revived
  OBVIOUS
<1>d. Deducted' = Deducted \ {p}
  BY <1>m, <1>p, <1>r DEF Deducted, On
<1>x. \A a \in Addr : /\ rc'[a] = Edges(Q \cup Own(p), a)
                      /\ rc'[a] = rc[a] + Edges(Own(p), a)
                      /\ rc'[a] \in Nat
  <2> SUFFICES ASSUME NEW a \in Addr
               PROVE  /\ rc'[a] = Edges(Q \cup Own(p), a)
                      /\ rc'[a] = rc[a] + Edges(Own(p), a)
                      /\ rc'[a] \in Nat
    OBVIOUS
  <2>1. rc[a] = Edges(Q, a)
    BY DEF RefCountExact
  <2> DEFINE B == Q \cup Own(p)
  <2>2. B \in SUBSET Ref /\ Own(p) \in SUBSET B /\ B \ Own(p) = Q
    BY <1>o
  <2> HIDE DEF B, Q
  <2>3. Edges(B \ Own(p), a) = Edges(B, a) - Edges(Own(p), a)
    BY <2>2, EdgesSplit
  <2>4. Edges(B, a) \in Nat
    BY <2>2, EdgesFacts
  <2>5. rc'[a] = rc[a] + Edges(Own(p), a)
    OBVIOUS
  <2>s. Edges(B \ Own(p), a) = rc[a]
    BY <2>1, <2>2, Zenon
  <2>i. rc[a] \in Nat /\ Edges(Own(p), a) \in Nat
    BY <1>t, <1>e DEF TypeOK
  <2>6. rc'[a] = Edges(B, a) /\ rc'[a] \in Nat
    BY <2>s, <2>3, <2>4, <2>5, <2>i
  <2> QED BY <2>5, <2>6 DEF B
<1>1. RefCountExact'
  <2>1. {r \in Ref : owner'[r] \notin Deducted'} = Q \cup Own(p)
    BY <1>d DEF Own, refs
  <2> SUFFICES ASSUME NEW a \in Addr
               PROVE  rc'[a] = Cardinality({r \in {q \in Ref : owner'[q] \notin Deducted'} :
                                               target'[r] = a})
    BY DEF RefCountExact, Edges
  <2> QED BY <1>x, <2>1 DEF Edges, refs
<1>2. TypeOK'
  <2>1. rc' \in [Addr -> Nat]
    BY <1>x
  <2> QED BY <2>1, <1>t DEF TypeOK, Lists, refs
<1>3. PlacesInv' /\ RecordsInv' /\ VarsInv'
  BY DEF PlacesInv, RecordsInv, VarsInv, refs, Live
<1>4. ListsInv'
  BY <1>m, <1>r, <1>t DEF ListsInv, Live
<1>5. CountsInv'
  <2> SUFFICES ASSUME NEW a \in Addr
               PROVE  /\ list'[a] = "gc" => rc'[a] > 0 /\ (mark'[a] = 0 \/ a \in todo')
                      /\ list'[a] # "zero"
                      /\ list'[a] = "tmp" => mark'[a] = 1 /\ rc'[a] = 0
                      /\ list'[a] = "none" => mark'[a] = 0 /\ rc'[a] = 0
    BY DEF CountsInv
  <2>x. /\ rc'[a] = rc[a] + Edges(Own(p), a)
        /\ rc'[a] \in Nat /\ rc[a] \in Nat /\ Edges(Own(p), a) \in Nat
    BY <1>x, <1>e, <1>t DEF TypeOK
  <2>z. list[a] # "zero"
    BY <1>t DEF ListsInv, TypeOK, Kinds, Live
  <2>f. /\ list[a] = "gc" => rc[a] > 0 /\ (mark[a] = 0 \/ a \in todo)
        /\ list[a] = "tmp" => mark[a] = 1 /\ rc[a] = 0
        /\ list[a] = "none" => mark[a] = 0 /\ rc[a] = 0
    BY DEF CountsInv
  <2>1. CASE a \in Revived
    BY <2>1, <2>x, <1>m
  <2>2. CASE a \notin Revived
    <3>1. list[a] \in {"tmp", "none"} => Edges(Own(p), a) = 0
      BY <2>2, <2>x, <2>f
    <3> QED BY <3>1, <2>2, <2>x, <2>z, <2>f, <1>m, <1>p
  <2> QED BY <2>1, <2>2
<1>6. TodoInv' /\ CyclesInv'
  BY <1>m, <1>t DEF TodoInv, CyclesInv, On
<1>7. WeakKeysInv'
  BY DEF WeakKeysInv, weakref_list
<1>8. WeakCountExact'
  <2>1. \A c \in Addr : KeyOf(c)' = KeyOf(c)
    BY DEF KeyOf
  <2>2. \A c \in Addr : list'[c] = "none" => list[c] = "none"
    BY <1>m
  <2> QED BY <2>1, <2>2, <1>7, WeakCounts, WeakCountsPrime
<1> QED BY <1>1, <1>2, <1>3, <1>4, <1>5, <1>6, <1>7, <1>8

\* What stays on tmp_obj_list is known only to itself: every reference to it
\* is still deducted.  The counts are whole again.
LEMMA ScanDoneInv == ASSUME IInv, ScanDone PROVE IInv'
<1> USE DEF ScanDone, IInv, HeapInv
<1> DEFINE Q == {r \in Ref : owner[r] \notin Deducted}
           T == {r \in Ref : owner[r] \in On("tmp")}
<1>t. TypeOK
  OBVIOUS
<1>d. Deducted = On("tmp") /\ On("zero") = {}
  BY <1>t DEF Deducted, On, ListsInv, TypeOK, Kinds, Live
<1>o. Q \in SUBSET Ref /\ T \in SUBSET Ref /\ Q = Ref \ T
  BY <1>d
<1>q. \A a \in Addr : /\ rc[a] = Edges(Q, a)
                      /\ rc[a] = 0 <=> \A r \in Q : target[r] # a
  BY <1>o, EdgesFacts DEF RefCountExact
<1>x. \A a \in Addr : rc'[a] = Edges(Ref, a) /\ rc'[a] \in Nat /\ rc'[a] >= rc[a]
  <2> SUFFICES ASSUME NEW a \in Addr
               PROVE  rc'[a] = Edges(Ref, a) /\ rc'[a] \in Nat /\ rc'[a] >= rc[a]
    OBVIOUS
  <2>1. Edges(Ref \ T, a) = Edges(Ref, a) - Edges(T, a)
    BY <1>o, EdgesSplit
  <2>2. Edges(Ref, a) \in Nat /\ Edges(T, a) \in Nat
    BY <1>o, EdgesFacts
  <2> QED BY <2>1, <2>2, <1>o, <1>q
<1>1. RefCountExact'
  BY <1>x, WholeCountsPrime DEF Edges, refs
<1>2. TypeOK'
  <2>1. rc' \in [Addr -> Nat]
    BY <1>x
  <2> QED BY <2>1, <1>t DEF TypeOK, Loops, refs
<1>3. PlacesInv' /\ RecordsInv' /\ VarsInv'
  BY DEF PlacesInv, RecordsInv, VarsInv, refs, Live
<1>4. ListsInv'
  BY <1>d, <1>t DEF ListsInv, Live, On
<1>n. \A a \in Addr : list[a] = "none" => rc'[a] = 0
  <2> SUFFICES ASSUME NEW a \in Addr, list[a] = "none" PROVE rc'[a] = 0
    OBVIOUS
  <2>1. \A r \in Ref : target[r] # a
    BY <1>t DEF PlacesInv, ListsInv, Live, TypeOK
  <2> QED BY <2>1, <1>x, EdgesFacts
<1>5. CountsInv'
  BY <1>x, <1>n, <1>d, <1>t DEF CountsInv, On, TypeOK
<1>6. TodoInv'
  BY DEF TodoInv
<1>7. CyclesInv'
  <2>1. Doomed' = On("tmp")
    BY <1>d DEF Doomed, On
  <2>2. \A r \in Ref : target[r] \in On("tmp") => owner[r] \in On("tmp")
    BY <1>q, <1>o DEF CountsInv, On
  <2>3. \A a \in On("gc") : \E r \in Ref : target[r] = a /\ owner[r] \notin On("tmp")
    <3> SUFFICES ASSUME NEW a \in Addr, list[a] = "gc"
                 PROVE  \E r \in Ref : target[r] = a /\ owner[r] \notin On("tmp")
      BY DEF On
    <3>1. rc[a] > 0 /\ rc[a] \in Nat
      BY <1>t DEF CountsInv, TypeOK
    <3>2. rc[a] = 0 <=> \A r \in Q : target[r] # a
      BY <1>q
    <3>3. ~ (\A r \in Q : target[r] # a)
      BY <3>1, <3>2
    <3>4. PICK r \in Q : target[r] = a
      BY <3>3, Zenon
    <3> QED BY <3>4, <1>d
  <2> QED BY <2>1, <2>2, <2>3 DEF CyclesInv, refs, On
<1>8. WeakKeysInv' /\ WeakCountExact'
  BY WeakSame
<1> QED BY <1>1, <1>2, <1>3, <1>4, <1>5, <1>6, <1>7, <1>8

\* free_object, for an object whose count is zero and for a member of a cycle:
\* what it frees is not referenced any more, what it keeps still is.
LEMMA FreeObjectInv ==
  ASSUME IInv, pc \in {"free_zero", "weak_free", "free_cycles"},
         NEW p \in Live, kind[p] # "var_ref",
         list[p] = IF pc = "free_cycles" THEN "tmp" ELSE "zero",
         FreeObject(p), UNCHANGED <<pc, todo, closing>>
  PROVE  IInv'
<1> DEFINE D == DyingVars(p)
           R == Dropped(p)
           k == wkey[p]
           wc == WithoutWeakRef(k)
           keep == wc[p] # 0 \/ (gc_phase = "remove_cycles" /\ RcWithout(R)[p] # 0)
           F == D \cup (IF keep THEN {} ELSE {p}) \cup (IF KeyFreed(k, R) THEN {k} ELSE {})
           cyc == pc = "free_cycles"
<1> USE DEF IInv, HeapInv
<1>t. TypeOK /\ p \in Addr /\ k \in Addr \cup {Nil}
  BY DEF Live, TypeOK
<1>g. (gc_phase = "remove_cycles") <=> cyc
  BY DEF gc_phase
<1>m. mark[p] = 1 /\ (~cyc => rc[p] = 0) /\ todo = {} /\ pc' = pc
  BY <1>t DEF CountsInv, TodoInv
<1>f. /\ owner' = [r \in Ref |-> IF r \in R THEN Unused ELSE owner[r]]
      /\ target' = [r \in Ref |-> IF r \in R THEN Nil ELSE target[r]]
      /\ rc' = RcWithout(R)
      /\ wcount' = wc
      /\ kind' = [a \in Addr |-> IF a \in F THEN "free"
                                 ELSE IF a = p THEN "zombie" ELSE kind[a]]
      /\ mark' = [a \in Addr |-> IF a \in F THEN 0
                                 ELSE IF a \in ToZero(R) THEN 1
                                 ELSE IF a = p /\ gc_phase # "remove_cycles" THEN 0
                                 ELSE mark[a]]
      /\ list' = [a \in Addr |-> IF a \in F THEN "none"
                                 ELSE IF a = p THEN
                                     IF gc_phase = "remove_cycles" THEN "zero" ELSE "none"
                                 ELSE IF a \in ToZero(R) THEN "zero" ELSE list[a]]
      /\ wkey' = [a \in Addr |-> IF a \in F \cup {p} THEN Nil ELSE wkey[a]]
      /\ wval' = [a \in Addr |-> IF a \in F \cup {p} THEN Nil ELSE wval[a]]
  BY DEF FreeObject, Clear, FreedFields
<1>R. /\ R \in SUBSET Ref /\ Own(p) \in SUBSET Ref
      /\ \A r \in Ref : r \in R <=> owner[r] = p \/ owner[r] \in D
      /\ \A r \in Ref : r \in Own(p) <=> owner[r] = p
  BY DEF Dropped, Own
<1>D. \A v \in D : v \in Addr /\ kind[v] = "var_ref" /\ v # p
  BY DEF DyingVars
<1> HIDE DEF D, R, k, wc, keep, F
<1>c. \A a \in Addr : /\ rc[a] = Edges(Ref, a)
                      /\ rc'[a] = Edges(Ref, a)'
                      /\ rc'[a] = rc[a] - Edges(R, a)
                      /\ rc'[a] \in Nat /\ rc[a] \in Nat /\ Edges(R, a) \in Nat
                      /\ rc'[a] = 0 <=> \A r \in Ref \ R : target[r] # a
                      /\ Edges(R, a) = 0 <=> \A r \in R : target[r] # a
  <2> SUFFICES ASSUME NEW a \in Addr
               PROVE  /\ rc[a] = Edges(Ref, a)
                      /\ rc'[a] = Edges(Ref, a)'
                      /\ rc'[a] = rc[a] - Edges(R, a)
                      /\ rc'[a] \in Nat /\ rc[a] \in Nat /\ Edges(R, a) \in Nat
                      /\ rc'[a] = 0 <=> \A r \in Ref \ R : target[r] # a
                      /\ Edges(R, a) = 0 <=> \A r \in R : target[r] # a
    OBVIOUS
  <2>1. rc[a] = Edges(Ref, a)
    BY WholeCounts
  <2>2. /\ Edges(Ref, a)' = Edges(Ref, a) - Edges(R, a)
        /\ Edges(R, a) \in Nat /\ Edges(Ref, a) \in Nat
    BY <1>t, <1>f, <1>R, EdgesDrop DEF TypeOK
  <2>3. rc'[a] = rc[a] - Edges(R, a)
    BY <1>f DEF RcWithout
  <2>4. Edges(Ref \ R, a) = Edges(Ref, a) - Edges(R, a)
    BY <1>R, EdgesSplit
  <2>5. Edges(Ref \ R, a) \in Nat /\ (Edges(Ref \ R, a) = 0 <=> \A r \in Ref \ R : target[r] # a)
    BY EdgesFacts
  <2>6. Edges(R, a) = 0 <=> \A r \in R : target[r] # a
    BY <1>R, EdgesFacts
  <2> QED BY <2>1, <2>2, <2>3, <2>4, <2>5, <2>6
<1>o. \A a \in Addr : /\ Edges(Own(p), a) \in Nat
                      /\ Edges(Own(p), a) = 0 <=> \A r \in Own(p) : target[r] # a
                      /\ Edges(Own(p), a) = rc[a] <=>
                            \A r \in Ref : target[r] = a => owner[r] = p
  <2> SUFFICES ASSUME NEW a \in Addr
               PROVE  /\ Edges(Own(p), a) \in Nat
                      /\ Edges(Own(p), a) = 0 <=> \A r \in Own(p) : target[r] # a
                      /\ Edges(Own(p), a) = rc[a] <=>
                            \A r \in Ref : target[r] = a => owner[r] = p
    OBVIOUS
  <2>1. /\ Edges(Own(p), a) \in Nat
        /\ Edges(Own(p), a) = 0 <=> \A r \in Own(p) : target[r] # a
    BY <1>R, EdgesFacts
  <2>2. Edges(Ref \ Own(p), a) = Edges(Ref, a) - Edges(Own(p), a)
    BY <1>R, EdgesSplit
  <2>3. Edges(Ref \ Own(p), a) = 0 <=> \A r \in Ref \ Own(p) : target[r] # a
    BY EdgesFacts
  <2>4. (Edges(Own(p), a) = rc[a]) <=> \A r \in Ref \ Own(p) : target[r] # a
    BY <2>1, <2>2, <2>3, <1>c
  <2> QED BY <2>1, <2>4, <1>R
\* Who is left to refer to the variables of p.
<1>v. \A v \in D : \A r \in Ref : target[r] = v => owner[r] = p
  BY <1>o DEF D, DyingVars
<1>w. \A v \in Addr : kind[v] = "var_ref" /\ v \notin D => \E r \in Ref \ R : target[r] = v
  <2> SUFFICES ASSUME NEW v \in Addr, kind[v] = "var_ref",
                      \A r \in Ref \ R : target[r] # v
               PROVE  v \in D
    OBVIOUS
  <2>1. \A r \in Ref : target[r] = v => owner[r] = p
    BY <1>R, <1>D DEF PlacesInv
  <2>2. PICK r \in Ref : target[r] = v
    BY DEF VarsInv
  <2>3. Edges(Own(p), v) = rc[v] /\ Edges(Own(p), v) # 0
    BY <2>1, <2>2, <1>o, <1>R
  <2> QED BY <2>3, <1>o DEF D, DyingVars
\* Where the members of a cycle are.
<1>y. cyc => p \in Doomed /\ D \subseteq Doomed
  <2> SUFFICES ASSUME cyc, NEW v \in D PROVE p \in Doomed /\ v \in Doomed
    BY <1>t DEF Doomed, On
  <2>1. p \in Doomed
    BY <1>t DEF Doomed, On
  <2>2. list[v] # "gc"
    BY <1>v, <1>D, <2>1 DEF CyclesInv, On
  <2>3. list[v] \in {"zero", "tmp"}
    BY <2>2, <1>D, <1>t DEF ListsInv, Live, TypeOK, Lists
  <2> QED BY <2>1, <2>3, <1>D DEF Doomed, On
\* A cell the collector keeps stays referenced.
<1>u. cyc => \A a \in Addr : list[a] = "gc" =>
               \E r \in Ref \ R : target[r] = a /\ owner[r] \notin Doomed
  BY <1>y, <1>R DEF CyclesInv, On
<1>z. \A a \in ToZero(R) : /\ a \in Addr /\ a \in Live /\ kind[a] # "var_ref" /\ ~cyc
                           /\ rc'[a] = 0 /\ list[a] = "gc" /\ a # p
  <2> SUFFICES ASSUME NEW a \in ToZero(R)
               PROVE  /\ a \in Addr /\ a \in Live /\ kind[a] # "var_ref" /\ ~cyc
                      /\ rc'[a] = 0 /\ list[a] = "gc" /\ a # p
    OBVIOUS
  <2>1. a \in Addr /\ kind[a] # "var_ref" /\ ~cyc /\ Edges(R, a) > 0 /\ Edges(R, a) = rc[a]
    BY <1>g DEF ToZero
  <2>2. PICK r \in Ref : target[r] = a
    BY <2>1, <1>c, <1>R
  <2>3. a \in Live
    BY <2>1, <2>2 DEF PlacesInv, Live
  <2>4. list[a] = "gc" /\ rc'[a] = 0 /\ rc[a] > 0
    BY <2>1, <2>3, <1>c, <1>t DEF ListsInv, CountsInv, TypeOK, Lists
  <2> QED BY <2>1, <2>3, <2>4, <1>m
\* The key that goes with its last weak reference is a dead structure.
<1>k. KeyFreed(k, R) => /\ k \in Addr /\ k # p /\ wcount[k] = 1
                        /\ kind[k] = "zombie" /\ list[k] = "none" /\ k \notin D
  <2> SUFFICES ASSUME KeyFreed(k, R)
               PROVE  /\ k \in Addr /\ k # p /\ wcount[k] = 1
                      /\ kind[k] = "zombie" /\ list[k] = "none" /\ k \notin D
    OBVIOUS
  <2>1. /\ k \in Addr /\ k # p /\ wcount[k] = 1 /\ mark[k] = 0
        /\ k \notin ToZero(R) /\ rc[k] = Edges(R, k)
    BY <1>t, <1>m DEF KeyFreed
  <2>2. kind[k] \notin {"free", "var_ref"}
    BY <2>1, <1>t, TokenAssumption DEF WeakKeysInv, k
  <2>3. list[k] # "gc"
    <3>1. CASE cyc
      BY <3>1, <2>1, <1>u, <1>c
    <3>2. CASE ~cyc
      <4> SUFFICES ASSUME list[k] = "gc" PROVE FALSE
        OBVIOUS
      <4>1. rc[k] > 0
        BY <2>1, <1>t DEF CountsInv
      <4> QED BY <4>1, <3>2, <2>1, <2>2, <1>g DEF ToZero
    <3> QED BY <3>1, <3>2
  <2>4. list[k] = "none"
    BY <2>1, <2>3, <1>t DEF CountsInv, TypeOK, Lists
  <2>5. kind[k] = "zombie"
    BY <2>1, <2>2, <2>4, <1>t DEF ListsInv, Live, TypeOK, Kinds
  <2> QED BY <2>1, <2>2, <2>4, <2>5, <1>D
<1>F. /\ \A a \in F : a \in Addr /\ (a = p \/ a \in D \/ (a = k /\ KeyFreed(k, R)))
      /\ D \subseteq F /\ (KeyFreed(k, R) => k \in F) /\ (p \in F <=> ~keep)
  BY <1>D, <1>k, <1>t DEF F
<1>keep. /\ keep <=> wc[p] # 0 \/ (cyc /\ rc'[p] # 0)
  BY <1>g, <1>f DEF keep
\* What is freed is not referenced.
<1>n. \A a \in F : rc'[a] = 0 /\ \A r \in Ref \ R : target[r] # a
  <2> SUFFICES ASSUME NEW a \in F PROVE \A r \in Ref \ R : target[r] # a
    BY <1>c, <1>F
  <2>1. CASE a = p
    <3>1. CASE cyc
      BY <2>1, <3>1, <1>F, <1>keep, <1>c, <1>t
    <3>2. CASE ~cyc
      <4>1. \A r \in Ref : target[r] # p
        BY <3>2, <1>m, <1>t, ZeroCount
      <4> QED BY <4>1, <2>1
    <3> QED BY <3>1, <3>2
  <2>2. CASE a \in D
    BY <2>2, <1>v, <1>R
  <2>3. CASE a = k /\ KeyFreed(k, R)
    BY <2>3, <1>k DEF PlacesInv
  <2> QED BY <2>1, <2>2, <2>3, <1>F
\* A place that keeps its value keeps its owner, and its value denotes a cell
\* that is not freed.
<1>l. \A r \in Ref \ R : /\ owner'[r] = owner[r] /\ target'[r] = target[r]
                         /\ owner[r] \in Addr => owner[r] \notin F /\ owner[r] # p
                         /\ target[r] \notin F
  <2> SUFFICES ASSUME NEW r \in Ref \ R
               PROVE  /\ owner'[r] = owner[r] /\ target'[r] = target[r]
                      /\ owner[r] \in Addr => owner[r] \notin F /\ owner[r] # p
                      /\ target[r] \notin F
    OBVIOUS
  <2>1. owner'[r] = owner[r] /\ target'[r] = target[r]
    BY <1>f
  <2>2. owner[r] # p /\ owner[r] \notin D
    BY <1>R
  <2>3. owner[r] \in Addr => ~(owner[r] = k /\ KeyFreed(k, R))
    BY <1>k DEF PlacesInv, Live
  <2>4. target[r] \notin F
    BY <1>n
  <2> QED BY <2>1, <2>2, <2>3, <2>4, <1>F
<1>1. RefCountExact'
  BY <1>c, <1>m, WholeCountsPrime
<1>3. PlacesInv'
  <2> SUFFICES ASSUME NEW r \in Ref
               PROVE  /\ owner'[r] = Unused <=> target'[r] = Nil
                      /\ owner'[r] \in Addr => kind'[owner'[r]] \notin {"free", "zombie"}
                      /\ target'[r] \in Addr =>
                          /\ kind'[target'[r]] # "free"
                          /\ kind'[target'[r]] = "zombie" =>
                               pc' = "free_cycles" /\ list'[target'[r]] = "zero"
                          /\ kind'[target'[r]] = "var_ref" =>
                               owner'[r] \in Addr /\ kind'[owner'[r]] = "object"
    BY DEF PlacesInv, Live
  <2>1. CASE r \in R
    BY <2>1, <1>f, TokenAssumption
  <2>2. CASE r \notin R
    <3>0. /\ owner'[r] = owner[r] /\ target'[r] = target[r]
          /\ owner[r] \in Addr => owner[r] \notin F /\ owner[r] # p
          /\ target[r] \notin F
      BY <2>2, <1>l
    <3>1. owner[r] \in Addr => kind'[owner[r]] = kind[owner[r]]
      BY <3>0, <1>f
    <3>2. CASE target[r] = p
      <4>1. cyc
        BY <3>2, <1>m, <1>t, ZeroCount
      <4>2. kind'[p] = "zombie" /\ list'[p] = "zero"
        BY <4>1, <3>0, <3>2, <1>f, <1>g, <1>t
      <4> QED BY <3>0, <3>1, <3>2, <4>1, <4>2, <1>m, TokenAssumption, <1>t DEF PlacesInv, Live
    <3>3. CASE target[r] # p
      <4>1. target[r] \in Addr => kind'[target[r]] = kind[target[r]]
        BY <3>0, <3>3, <1>f
      <4>2. target[r] \in Addr /\ kind[target[r]] = "zombie" => list'[target[r]] = list[target[r]]
        BY <3>0, <3>3, <1>f, <1>z DEF Live
      <4> QED BY <3>0, <3>1, <4>1, <4>2, <1>m DEF PlacesInv, Live
    <3> QED BY <3>2, <3>3
  <2> QED BY <2>1, <2>2
<1>4. RecordsInv'
  <2> SUFFICES ASSUME NEW w \in Addr, wval'[w] \in Ref
               PROVE  kind'[w] = "weakmap" /\ owner'[wval'[w]] = w
    BY DEF RecordsInv
  <2>1. w \notin F /\ w # p /\ wval'[w] = wval[w]
    BY <1>f, TokenAssumption
  <2>2. kind[w] = "weakmap" /\ owner[wval[w]] = w /\ wval[w] \in Ref
    BY <2>1 DEF RecordsInv
  <2>3. wval[w] \notin R
    BY <2>1, <2>2, <1>R, <1>D
  <2> QED BY <2>1, <2>2, <2>3, <1>f
<1>5. VarsInv'
  <2> SUFFICES ASSUME NEW v \in Addr, kind'[v] = "var_ref"
               PROVE  \E r \in Ref : target'[r] = v
    BY DEF VarsInv
  <2>1. kind[v] = "var_ref" /\ v \notin D
    BY <1>f, <1>F
  <2>2. PICK r \in Ref \ R : target[r] = v
    BY <2>1, <1>w
  <2> QED BY <2>2, <1>l
<1>6. ListsInv'
  <2> SUFFICES ASSUME NEW a \in Addr
               PROVE  /\ kind'[a] = "free" => list'[a] = "none"
                      /\ kind'[a] = "zombie" =>
                            \/ list'[a] = "none"
                            \/ list'[a] = "zero" /\ pc \in {"free_cycles", "sweep"}
                      /\ kind'[a] \notin {"free", "zombie"} => list'[a] # "none"
                      /\ list'[a] = "tmp" => pc \in {"decref", "scan", "free_cycles"}
                      /\ kind'[a] \notin {"free", "zombie"} /\ list'[a] = "zero" =>
                            IF kind'[a] = "var_ref" THEN pc = "free_cycles"
                            ELSE pc \in {"free_zero", "weak", "weak_free"}
    BY <1>m DEF ListsInv, Live
  <2>1. CASE a \in F
    BY <2>1, <1>f
  <2>2. CASE a \notin F /\ a = p
    BY <2>2, <1>f, <1>g
  <2>3. CASE a \notin F /\ a # p /\ a \in ToZero(R)
    BY <2>3, <1>f, <1>z DEF Live
  <2>4. CASE a \notin F /\ a # p /\ a \notin ToZero(R)
    <3>1. kind'[a] = kind[a] /\ list'[a] = list[a]
      BY <2>4, <1>f
    <3> QED BY <3>1 DEF ListsInv, Live
  <2> QED BY <2>1, <2>2, <2>3, <2>4
<1>7. CountsInv'
  <2> SUFFICES ASSUME NEW a \in Addr
               PROVE  /\ list'[a] = "gc" => rc'[a] > 0 /\ mark'[a] = 0
                      /\ list'[a] = "zero" => mark'[a] = 1 /\ (~cyc => rc'[a] = 0)
                      /\ list'[a] = "tmp" => mark'[a] = 1 /\ (~cyc => rc'[a] = 0)
                      /\ list'[a] = "none" => mark'[a] = 0 /\ rc'[a] = 0
    BY <1>m DEF CountsInv
  <2>x. /\ rc'[a] = rc[a] - Edges(R, a)
        /\ rc'[a] \in Nat /\ rc[a] \in Nat /\ Edges(R, a) \in Nat
    BY <1>c
  <2>f. /\ list[a] = "gc" => rc[a] > 0 /\ mark[a] = 0
        /\ list[a] = "zero" => mark[a] = 1 /\ (~cyc => rc[a] = 0)
        /\ list[a] = "tmp" => mark[a] = 1 /\ (~cyc => rc[a] = 0)
        /\ list[a] = "none" => mark[a] = 0 /\ rc[a] = 0
    BY DEF CountsInv
  <2>1. CASE a \in F
    BY <2>1, <1>f, <1>n
  <2>2. CASE a \notin F /\ a = p
    <3>1. CASE cyc
      BY <3>1, <2>2, <1>f, <1>g, <1>m, <1>z
    <3>2. CASE ~cyc
      BY <3>2, <2>2, <1>f, <1>g, <1>m, <1>z, <2>x
    <3> QED BY <3>1, <3>2
  <2>3. CASE a \notin F /\ a # p /\ a \in ToZero(R)
    BY <2>3, <1>f, <1>z
  <2>4. CASE a \notin F /\ a # p /\ a \notin ToZero(R)
    <3>1. mark'[a] = mark[a] /\ list'[a] = list[a]
      BY <2>4, <1>f
    <3>2. list[a] = "gc" => rc'[a] > 0
      <4> SUFFICES ASSUME list[a] = "gc" PROVE rc'[a] # 0
        BY <2>x
      <4>1. CASE cyc
        BY <4>1, <1>u, <1>c
      <4>2. CASE ~cyc
        <5>1. kind[a] # "var_ref" => Edges(R, a) = 0 \/ Edges(R, a) # rc[a]
          BY <4>2, <2>4, <2>x, <1>g DEF ToZero
        <5>2. kind[a] # "var_ref" => rc'[a] # 0
          BY <5>1, <2>x, <2>f
        <5>3. kind[a] = "var_ref" => rc'[a] # 0
          BY <1>w, <1>c, <2>4, <1>F
        <5> QED BY <5>2, <5>3
      <4> QED BY <4>1, <4>2
    <3> QED BY <3>1, <3>2, <2>x, <2>f
  <2> QED BY <2>1, <2>2, <2>3, <2>4
<1>8. TodoInv'
  BY <1>m, <1>t DEF TodoInv
<1>9. CyclesInv'
  <2> SUFFICES ASSUME cyc
               PROVE  /\ \A r \in Ref : target'[r] \in Doomed' => owner'[r] \in Doomed'
                      /\ \A a \in On("gc")' :
                            \E r \in Ref : target'[r] = a /\ owner'[r] \notin Doomed'
    BY <1>m DEF CyclesInv
  <2>1. \A a \in Addr : /\ a \in Doomed' <=> a \in Doomed /\ a \notin F
                        /\ list'[a] = "gc" => list[a] = "gc"
    <3> SUFFICES ASSUME NEW a \in Addr
                 PROVE  /\ list'[a] \in {"tmp", "zero"} <=>
                              list[a] \in {"tmp", "zero"} /\ a \notin F
                        /\ list'[a] = "gc" => list[a] = "gc"
      BY DEF Doomed, On
    <3>1. a \notin ToZero(R)
      BY <1>z
    <3>2. list[p] = "tmp"
      OBVIOUS
    <3> QED BY <3>1, <3>2, <1>f, <1>g
  <2>2. \A r \in Ref : target'[r] \in Doomed' => owner'[r] \in Doomed'
    <3> SUFFICES ASSUME NEW r \in Ref, target'[r] \in Doomed' PROVE owner'[r] \in Doomed'
      OBVIOUS
    <3>1. r \notin R
      BY <1>f, TokenAssumption DEF Doomed, On
    <3>2. target[r] \in Doomed /\ target'[r] = target[r]
      BY <3>1, <1>l, <2>1 DEF Doomed, On
    <3>3. owner[r] \in Doomed /\ owner[r] \in Addr
      BY <3>2 DEF CyclesInv, Doomed, On
    <3> QED BY <3>1, <3>3, <1>l, <2>1
  <2>3. \A a \in On("gc")' : \E r \in Ref : target'[r] = a /\ owner'[r] \notin Doomed'
    <3> SUFFICES ASSUME NEW a \in Addr, list'[a] = "gc"
                 PROVE  \E r \in Ref : target'[r] = a /\ owner'[r] \notin Doomed'
      BY DEF On
    <3>1. PICK r \in Ref \ R : target[r] = a /\ owner[r] \notin Doomed
      BY <2>1, <1>u
    <3>2. owner[r] \notin Doomed'
      BY <3>1, <2>1 DEF Doomed, On
    <3> QED BY <3>1, <3>2, <1>l
  <2> QED BY <2>2, <2>3
<1>wk. wkey' = [wkey EXCEPT ![p] = Nil]
  <2>1. \A a \in F : a # p => wkey[a] = Nil
    BY <1>F, <1>D, <1>k DEF WeakKeysInv, weakref_list
  <2> QED BY <2>1, <1>f, <1>t DEF TypeOK
<1>wn. \A c \in Addr : /\ wcount'[c] = Cardinality(KeyOf(c)')
                       /\ wcount'[c] \in Nat
                       /\ c # k => wcount'[c] = wcount[c]
                       /\ c = k => wcount'[c] = wcount[c] - 1
  <2> SUFFICES ASSUME NEW c \in Addr
               PROVE  /\ wcount'[c] = Cardinality(KeyOf(c)')
                      /\ wcount'[c] \in Nat
                      /\ c # k => wcount'[c] = wcount[c]
                      /\ c = k => wcount'[c] = wcount[c] - 1
    OBVIOUS
  <2>1. /\ Cardinality(KeyOf(c)') = IF c = k THEN Cardinality(KeyOf(c)) - 1
                                    ELSE Cardinality(KeyOf(c))
        /\ Cardinality(KeyOf(c)) \in Nat /\ Cardinality(KeyOf(c)') \in Nat
    BY <1>wk, <1>t, KeyOfDrop DEF TypeOK, k
  <2>2. wcount[c] = Cardinality(KeyOf(c))
    BY WeakCounts
  <2>3. wcount'[c] = IF c = k THEN wcount[c] - 1 ELSE wcount[c]
    BY <1>f, <1>t, TokenAssumption DEF wc, WithoutWeakRef, TypeOK
  <2> QED BY <2>1, <2>2, <2>3
\* What is freed is not the key of a weak reference.
<1>fk. \A c \in F : wcount'[c] = 0
  <2> SUFFICES ASSUME NEW c \in F PROVE wcount'[c] = 0
    OBVIOUS
  <2>1. CASE c = p
    BY <2>1, <1>F, <1>keep, <1>f
  <2>2. CASE c \in D
    <3>1. wcount[c] = 0 /\ c # k
      BY <2>2, <1>D, <1>t, FreeNoKey DEF k
    <3> QED BY <3>1, <1>wn, <1>F
  <2>3. CASE c = k /\ KeyFreed(k, R)
    BY <2>3, <1>k, <1>wn
  <2> QED BY <2>1, <2>2, <2>3, <1>F
<1>10. WeakKeysInv'
  <2> SUFFICES ASSUME NEW w \in Addr
               PROVE  /\ wkey'[w] # Nil =>
                           /\ kind'[w] \in {"weakref", "weakmap"}
                           /\ kind'[wkey'[w]] \notin {"free", "var_ref"}
                      /\ wval'[w] # Nil => wkey'[w] # Nil
    BY DEF WeakKeysInv, weakref_list
  <2>1. wval'[w] # Nil => wkey'[w] # Nil
    BY <1>f DEF WeakKeysInv
  <2>2. ASSUME wkey'[w] # Nil
        PROVE  /\ kind'[w] \in {"weakref", "weakmap"}
               /\ kind'[wkey'[w]] \notin {"free", "var_ref"}
    <3>1. w \notin F /\ w # p /\ wkey'[w] = wkey[w]
      BY <2>2, <1>f
    <3>2. kind'[w] \in {"weakref", "weakmap"}
      BY <2>2, <3>1, <1>f DEF WeakKeysInv, weakref_list
    <3>3. PICK c \in Addr : c = wkey[w] /\ kind[c] \notin {"free", "var_ref"}
      BY <2>2, <3>1, <1>t DEF WeakKeysInv, TypeOK
    <3>4. KeyOf(c)' # {}
      BY <3>1, <3>3 DEF KeyOf
    <3>5. wcount'[c] # 0
      <4>1. IsFiniteSet(KeyOf(c)')
        <5>1. KeyOf(c)' \in SUBSET Addr
          BY DEF KeyOf
        <5> QED BY <5>1, FS_Subset, AddrRefAssumption
      <4>2. Cardinality(KeyOf(c)') # 0
        BY <4>1, <3>4, FS_EmptySet
      <4> QED BY <4>2, <1>wn
    <3>6. c \notin F
      BY <3>5, <1>fk
    <3> QED BY <3>1, <3>2, <3>3, <3>6, <1>f
  <2> QED BY <2>1, <2>2
<1>11. WeakCountExact'
  <2> SUFFICES ASSUME NEW c \in Addr, kind'[c] = "zombie", list'[c] = "none"
               PROVE  wcount'[c] > 0
    BY <1>10, <1>wn, WeakCountsPrime
  <2>1. c \notin F
    BY <1>f
  <2>2. CASE c = p
    BY <2>1, <2>2, <1>F, <1>keep, <1>f, <1>g, <1>wn, <1>t
  <2>3. CASE c # p
    <3>1. kind[c] = "zombie" /\ list[c] = "none"
      BY <2>1, <2>3, <1>f
    <3>2. wcount[c] > 0 /\ wcount[c] \in Nat
      BY <3>1, <1>t, WeakCounts DEF TypeOK
    <3>3. CASE c # k
      BY <3>2, <3>3, <1>wn
    <3>4. CASE c = k
      <4>1. ~KeyFreed(k, R)
        BY <2>1, <3>4, <1>F
      <4>2. mark[k] = 0 /\ rc[k] = 0 /\ k \notin ToZero(R) /\ k # Nil
        BY <3>1, <3>4, <1>z, <1>t, TokenAssumption DEF CountsInv
      <4>3. Edges(R, k) = 0
        BY <4>2, <3>4, <1>c
      <4>4. wcount[k] # 1
        BY <4>1, <4>2, <4>3 DEF KeyFreed
      <4> QED BY <3>2, <3>4, <4>4, <1>wn
    <3> QED BY <3>3, <3>4
  <2> QED BY <2>2, <2>3
<1>2. TypeOK'
  <2>1. rc' \in [Addr -> Nat]
    BY <1>f, <1>c DEF RcWithout
  <2>2. wcount' \in [Addr -> Nat]
    BY <1>f, <1>wn, <1>t DEF wc, WithoutWeakRef, TypeOK
  <2>3. kind' \in [Addr -> Kinds] /\ list' \in [Addr -> Lists] /\ mark' \in [Addr -> {0, 1}]
    BY <1>f, <1>t DEF TypeOK, Kinds, Lists
  <2>4. /\ wkey' \in [Addr -> Addr \cup {Nil}] /\ wval' \in [Addr -> Ref \cup {Nil}]
        /\ owner' \in [Ref -> Addr \cup {Stack, Unused}]
        /\ target' \in [Ref -> Addr \cup {Nil}]
    BY <1>f, <1>t DEF TypeOK
  <2> QED BY <2>1, <2>2, <2>3, <2>4, <1>t DEF TypeOK
<1> QED BY <1>1, <1>2, <1>3, <1>4, <1>5, <1>6, <1>7, <1>8, <1>9, <1>10, <1>11

\* free_zero_refcount frees an object nothing refers to.
LEMMA FreeZeroStepInv == ASSUME IInv, NEW p \in Addr, FreeZeroStep(p) PROVE IInv'
<1>1. p \in Live /\ kind[p] # "var_ref"
  BY DEF FreeZeroStep, IInv, HeapInv, TypeOK, Kinds, ListsInv, Live
<1> QED BY <1>1, FreeObjectInv DEF FreeZeroStep

\* A variable is only moved to the list of kept structures.
LEMMA FreeCycleStepInv == ASSUME IInv, NEW p \in Addr, FreeCycleStep(p) PROVE IInv'
<1> USE DEF IInv, HeapInv
<1>t. TypeOK
  OBVIOUS
<1>1. CASE kind[p] # "var_ref"
  <2>1. p \in Live
    BY <1>t DEF FreeCycleStep, TypeOK, Kinds, ListsInv, Live
  <2> QED BY <2>1, <1>1, FreeObjectInv DEF FreeCycleStep
<1>2. CASE kind[p] = "var_ref"
  <2>1. /\ pc = "free_cycles" /\ list[p] = "tmp" /\ list' = [list EXCEPT ![p] = "zero"]
        /\ UNCHANGED <<kind, rc, mark, wcount, wkey, wval, owner, target, pc, todo, closing>>
    BY <1>2 DEF FreeCycleStep, refs
  <2>2. RefCountExact'
    BY <2>1, WholeCounts, WholeCountsPrime DEF Edges
  <2>3. TypeOK'
    BY <2>1, <1>t DEF TypeOK, Lists
  <2>4. PlacesInv' /\ RecordsInv' /\ VarsInv' /\ TodoInv'
    BY <2>1, <1>2, <1>t DEF PlacesInv, RecordsInv, VarsInv, TodoInv, Live, TypeOK
  <2>5. ListsInv' /\ CountsInv'
    BY <2>1, <1>2, <1>t DEF ListsInv, CountsInv, Live, TypeOK
  <2>6. CyclesInv'
    <3>1. Doomed' = Doomed /\ On("gc")' = On("gc")
      BY <2>1, <1>t DEF Doomed, On, TypeOK
    <3> QED BY <3>1, <2>1 DEF CyclesInv
  <2>7. WeakKeysInv'
    BY <2>1 DEF WeakKeysInv, weakref_list
  <2>8. WeakCountExact'
    <3>1. \A c \in Addr : KeyOf(c)' = KeyOf(c)
      BY <2>1 DEF KeyOf
    <3>2. \A c \in Addr : list'[c] = "none" => list[c] = "none"
      BY <2>1, <1>t DEF TypeOK
    <3> QED BY <3>1, <3>2, <2>1, <2>7, WeakCounts, WeakCountsPrime
  <2> QED BY <2>2, <2>3, <2>4, <2>5, <2>6, <2>7, <2>8
<1> QED BY <1>1, <1>2

\* The record of a dead key is deleted: what it held may have to be freed, and
\* the structure of the key goes if nothing else refers to it weakly.
LEMMA WeakStepInv == ASSUME IInv, NEW w \in Addr, WeakStep(w) PROVE IInv'
<1> USE DEF IInv, HeapInv
<1>t. TypeOK /\ pc = "weak" /\ pc' = "weak" /\ w \in todo /\ todo' = todo \ {w}
      /\ closing' = closing
  BY DEF WeakStep
<1>1. CASE is_live(wkey[w])
  <2>1. UNCHANGED <<cells, refs, pc, closing>>
    BY <1>1 DEF WeakStep
  <2>2. RefCountExact'
    BY <2>1, <1>t, SameCounts DEF Deducted
  <2>3. RecordsInv' /\ VarsInv' /\ WeakKeysInv' /\ WeakCountExact'
    BY <2>1, LoopInv
  <2>4. TypeOK'
    BY <2>1, <1>t DEF TypeOK, cells, refs
  <2>5. PlacesInv' /\ ListsInv' /\ CountsInv' /\ TodoInv' /\ CyclesInv'
    BY <2>1, <1>t DEF PlacesInv, ListsInv, CountsInv, TodoInv, CyclesInv, cells, refs, Live
  <2> QED BY <2>2, <2>3, <2>4, <2>5
<1>2. CASE ~is_live(wkey[w])
  <2> DEFINE k == wkey[w]
             R == RecordValue(w)
             F == IF KeyFreed(k, {}) THEN {k} ELSE {}
  <2>f. /\ owner' = [r \in Ref |-> IF r \in R THEN Unused ELSE owner[r]]
        /\ target' = [r \in Ref |-> IF r \in R THEN Nil ELSE target[r]]
        /\ rc' = RcWithout(R)
        /\ wcount' = WithoutWeakRef(k)
        /\ kind' = [a \in Addr |-> IF a \in F THEN "free" ELSE kind[a]]
        /\ mark' = [a \in Addr |-> IF a \in ToZero(R) THEN 1 ELSE mark[a]]
        /\ list' = [a \in Addr |-> IF a \in ToZero(R) THEN "zero" ELSE list[a]]
        /\ wkey' = [wkey EXCEPT ![w] = Nil]
        /\ wval' = [wval EXCEPT ![w] = Nil]
    BY <1>2 DEF WeakStep, Clear
  <2>k. /\ k \in Addr /\ rc[k] = 0 /\ kind[k] \notin {"free", "var_ref"}
        /\ kind[w] \in {"weakref", "weakmap"}
    BY <1>2, <1>t DEF is_live, WeakKeysInv, weakref_list, TypeOK
  <2>F. \A a \in F : /\ a = k /\ wcount[k] = 1 /\ kind[a] = "zombie" /\ list[a] = "none"
    <3>1. \A a \in F : a = k /\ wcount[k] = 1 /\ mark[k] = 0
      BY DEF KeyFreed
    <3>2. mark[k] = 0 => list[k] = "none"
      BY <2>k, <1>t DEF CountsInv, ListsInv, TypeOK, Lists
    <3>3. list[k] = "none" => kind[k] = "zombie"
      BY <2>k, <1>t DEF ListsInv, Live
    <3> QED BY <3>1, <3>2, <3>3
  <2>R. /\ R \in SUBSET Ref
        /\ \A r \in R : /\ r = wval[w] /\ owner[r] = w
                        /\ target[r] \in Live /\ kind[target[r]] # "var_ref"
    <3>1. R \in SUBSET Ref /\ \A r \in R : r = wval[w]
      BY DEF RecordValue
    <3>2. \A r \in R : owner[r] = w /\ kind[w] = "weakmap"
      BY <3>1 DEF RecordsInv
    <3>3. \A r \in R : target[r] \in Addr
      BY <3>1, <3>2, <1>t, TokenAssumption DEF PlacesInv, TypeOK
    <3> QED BY <3>1, <3>2, <3>3, <1>t DEF PlacesInv, Live
  <2> HIDE DEF F, R, k
  <2>c. \A a \in Addr : /\ rc[a] = Edges(Ref, a)
                        /\ Edges(Ref, a)' = rc[a] - Edges(R, a)
                        /\ rc'[a] = rc[a] - Edges(R, a)
                        /\ Edges(R, a) \in Nat /\ rc[a] \in Nat /\ rc'[a] \in Nat
                        /\ Edges(R, a) = 0 <=> \A r \in R : target[r] # a
    <3> SUFFICES ASSUME NEW a \in Addr
                 PROVE  /\ rc[a] = Edges(Ref, a)
                        /\ Edges(Ref, a)' = rc[a] - Edges(R, a)
                        /\ rc'[a] = rc[a] - Edges(R, a)
                        /\ Edges(R, a) \in Nat /\ rc[a] \in Nat /\ rc'[a] \in Nat
                        /\ Edges(R, a) = 0 <=> \A r \in R : target[r] # a
      OBVIOUS
    <3>1. rc[a] = Edges(Ref, a)
      BY <1>t, WholeCounts
    <3>2. /\ Edges(Ref, a)' = Edges(Ref, a) - Edges(R, a)
          /\ Edges(R, a) <= Edges(Ref, a)
          /\ Edges(R, a) \in Nat /\ Edges(Ref, a) \in Nat
      BY <1>t, <2>R, <2>f, EdgesDrop DEF TypeOK
    <3>3. Edges(R, a) = 0 <=> \A r \in R : target[r] # a
      BY <2>R, EdgesFacts
    <3>4. rc'[a] = rc[a] - Edges(R, a)
      BY <2>f DEF RcWithout
    <3> QED BY <3>1, <3>2, <3>3, <3>4
  <2>z. \A a \in ToZero(R) : /\ a \in Live /\ kind[a] # "var_ref" /\ rc'[a] = 0
                             /\ a # k /\ list[a] = "gc" /\ a \notin F
    <3> SUFFICES ASSUME NEW a \in ToZero(R)
                 PROVE  /\ a \in Live /\ kind[a] # "var_ref" /\ rc'[a] = 0
                        /\ a # k /\ list[a] = "gc" /\ a \notin F
      OBVIOUS
    <3>1. a \in Addr /\ Edges(R, a) > 0 /\ Edges(R, a) = rc[a] /\ kind[a] # "var_ref"
      BY <1>t DEF ToZero, gc_phase
    <3>2. rc[a] > 0 /\ rc'[a] = 0
      BY <3>1, <2>c
    <3>3. list[a] = "gc"
      BY <3>1, <3>2, <1>t DEF CountsInv, ListsInv, TypeOK, Lists
    <3>4. a \in Live
      BY <3>1, <2>c, <2>R
    <3> QED BY <3>1, <3>2, <3>3, <3>4, <2>k, <2>F
  <2>1. RefCountExact'
    BY <2>c, <1>t, WholeCountsPrime
  <2>2. PlacesInv'
    <3> SUFFICES ASSUME NEW r \in Ref PROVE PlacesInv!(r)'
      BY DEF PlacesInv
    <3>1. CASE r \in R
      BY <3>1, <2>f, <1>t, TokenAssumption
    <3>2. CASE r \notin R
      <4>1. owner'[r] = owner[r] /\ target'[r] = target[r]
        BY <3>2, <2>f
      <4>2. \A a \in Live : kind'[a] = kind[a] /\ a \in Live'
        BY <2>f, <2>F DEF Live
      <4>3. target[r] \in Addr => target[r] \in Live
        BY <1>t DEF PlacesInv, Live
      <4> QED BY <4>1, <4>2, <4>3, <1>t DEF PlacesInv, Live
    <3> QED BY <3>1, <3>2
  <2>3. RecordsInv'
    <3> SUFFICES ASSUME NEW v \in Addr, wval'[v] \in Ref
                 PROVE  kind'[v] = "weakmap" /\ owner'[wval'[v]] = v
      BY DEF RecordsInv
    <3>1. v # w /\ wval'[v] = wval[v]
      BY <2>f, <1>t, TokenAssumption DEF TypeOK
    <3>2. kind[v] = "weakmap" /\ owner[wval[v]] = v
      BY <3>1 DEF RecordsInv
    <3> QED BY <3>1, <3>2, <2>R, <2>f, <2>F
  <2>4. VarsInv'
    <3> SUFFICES ASSUME NEW v \in Addr, kind'[v] = "var_ref"
                 PROVE  \E r \in Ref : target'[r] = v
      BY DEF VarsInv
    <3>1. kind[v] = "var_ref"
      BY <2>f
    <3>2. PICK r \in Ref : target[r] = v
      BY <3>1 DEF VarsInv
    <3> QED BY <3>1, <3>2, <2>R, <2>f
  <2>5. ListsInv'
    <3> SUFFICES ASSUME NEW a \in Addr PROVE ListsInv!(a)'
      BY DEF ListsInv
    <3>1. CASE a \in ToZero(R)
      BY <3>1, <2>z, <2>f, <1>t DEF ListsInv, Live
    <3>2. CASE a \notin ToZero(R) /\ a \in F
      BY <3>2, <2>F, <2>f, <1>t DEF ListsInv, Live
    <3>3. CASE a \notin ToZero(R) /\ a \notin F
      BY <3>3, <2>f, <1>t DEF ListsInv, Live
    <3> QED BY <3>1, <3>2, <3>3
  <2>6. CountsInv'
    <3> SUFFICES ASSUME NEW a \in Addr PROVE CountsInv!(a)'
      BY DEF CountsInv
    <3>1. CASE a \in ToZero(R)
      BY <3>1, <2>z, <2>f, <1>t
    <3>2. CASE a \notin ToZero(R)
      <4>1. list'[a] = list[a] /\ mark'[a] = mark[a]
        BY <3>2, <2>f
      <4>2. list[a] = "gc" => rc'[a] > 0
        BY <3>2, <2>c, <2>R, <1>t DEF ToZero, gc_phase, CountsInv
      <4>3. rc[a] = 0 => rc'[a] = 0
        BY <2>c
      <4> QED BY <4>1, <4>2, <4>3, <1>t DEF CountsInv
    <3> QED BY <3>1, <3>2
  <2>7. TodoInv' /\ CyclesInv'
    BY <1>t DEF TodoInv, CyclesInv
  <2>w. \A c \in Addr : /\ wcount'[c] = Cardinality(KeyOf(c)')
                        /\ wcount'[c] \in Nat
                        /\ wcount'[c] = IF c = k THEN wcount[c] - 1 ELSE wcount[c]
    <3> SUFFICES ASSUME NEW c \in Addr
                 PROVE  /\ wcount'[c] = Cardinality(KeyOf(c)')
                        /\ wcount'[c] \in Nat
                        /\ wcount'[c] = IF c = k THEN wcount[c] - 1 ELSE wcount[c]
      OBVIOUS
    <3>1. /\ Cardinality(KeyOf(c)') = IF c = k THEN Cardinality(KeyOf(c)) - 1
                                      ELSE Cardinality(KeyOf(c))
          /\ Cardinality(KeyOf(c)) \in Nat /\ Cardinality(KeyOf(c)') \in Nat
      BY <2>f, <1>t, KeyOfDrop DEF TypeOK, k
    <3>2. wcount[c] = Cardinality(KeyOf(c))
      BY WeakCounts
    <3>3. wcount'[c] = IF c = k THEN wcount[c] - 1 ELSE wcount[c]
      BY <2>f, <2>k, <1>t, TokenAssumption DEF WithoutWeakRef, TypeOK
    <3> QED BY <3>1, <3>2, <3>3
  <2>8. WeakKeysInv'
    <3> SUFFICES ASSUME NEW v \in Addr
                 PROVE  /\ wkey'[v] # Nil =>
                             /\ kind'[v] \in {"weakref", "weakmap"}
                             /\ kind'[wkey'[v]] \notin {"free", "var_ref"}
                        /\ wval'[v] # Nil => wkey'[v] # Nil
      BY DEF WeakKeysInv, weakref_list
    <3>1. wval'[v] # Nil => wkey'[v] # Nil
      BY <2>f, <1>t DEF WeakKeysInv, TypeOK
    <3>2. ASSUME wkey'[v] # Nil
          PROVE  /\ kind'[v] \in {"weakref", "weakmap"}
                 /\ kind'[wkey'[v]] \notin {"free", "var_ref"}
      <4>1. v # w /\ wkey'[v] = wkey[v]
        BY <3>2, <2>f, <1>t DEF TypeOK
      <4>2. kind'[v] \in {"weakref", "weakmap"}
        BY <4>1, <3>2, <2>f, <2>F DEF WeakKeysInv, weakref_list
      <4>3. PICK c \in Addr : c = wkey[v] /\ kind[c] \notin {"free", "var_ref"}
        BY <4>1, <3>2, <1>t DEF WeakKeysInv, TypeOK
      <4>4. KeyOf(c)' # {}
        BY <4>1, <4>3 DEF KeyOf
      <4>5. wcount'[c] # 0
        <5>1. IsFiniteSet(KeyOf(c)')
          <6>1. KeyOf(c)' \in SUBSET Addr
            BY DEF KeyOf
          <6> QED BY <6>1, FS_Subset, AddrRefAssumption
        <5>2. Cardinality(KeyOf(c)') # 0
          BY <5>1, <4>4, FS_EmptySet
        <5> QED BY <5>2, <2>w
      <4>6. c \notin F
        BY <4>5, <2>F, <2>w
      <4> QED BY <4>1, <4>2, <4>3, <4>6, <2>f
    <3> QED BY <3>1, <3>2
  <2>9. WeakCountExact'
    <3> SUFFICES ASSUME NEW c \in Addr, kind'[c] = "zombie", list'[c] = "none"
                 PROVE  wcount'[c] > 0
      BY <2>8, <2>w, WeakCountsPrime
    <3>1. kind[c] = "zombie" /\ list[c] = "none" /\ c \notin F
      BY <2>f
    <3>2. wcount[c] > 0 /\ wcount[c] \in Nat
      BY <3>1, <1>t DEF WeakCountExact, TypeOK
    <3>3. CASE c = k
      <4>1. rc[k] = Edges({}, k)
        <5>1. Edges({}, k) = 0
          BY EdgesFacts
        <5> QED BY <5>1, <2>k
      <4>2. mark[k] = 0
        BY <3>1, <3>3, <2>k DEF CountsInv
      <4>3. k \notin ToZero({})
        <5>1. ~(Edges({}, k) > 0)
          BY <4>1, <2>k
        <5> QED BY <5>1 DEF ToZero
      <4>4. wcount[k] # 1
        BY <4>1, <4>2, <4>3, <3>1, <3>3, <2>k, TokenAssumption DEF F, KeyFreed
      <4> QED BY <4>4, <3>2, <3>3, <2>w
    <3>4. CASE c # k
      BY <3>4, <3>2, <2>w
    <3> QED BY <3>3, <3>4
  <2>10. TypeOK'
    <3>1. rc' \in [Addr -> Nat] /\ wcount' \in [Addr -> Nat]
      BY <2>c, <2>w, <2>f, <1>t DEF RcWithout, WithoutWeakRef, TypeOK
    <3>2. kind' \in [Addr -> Kinds] /\ list' \in [Addr -> Lists] /\ mark' \in [Addr -> {0, 1}]
      BY <2>f, <1>t DEF TypeOK, Kinds, Lists
    <3>3. wkey' \in [Addr -> Addr \cup {Nil}] /\ wval' \in [Addr -> Ref \cup {Nil}]
      BY <2>f, <1>t DEF TypeOK
    <3>4. owner' \in [Ref -> Addr \cup {Stack, Unused}] /\ target' \in [Ref -> Addr \cup {Nil}]
      BY <2>f, <1>t DEF TypeOK
    <3> QED BY <3>1, <3>2, <3>3, <3>4, <1>t DEF TypeOK
  <2> QED BY <2>1, <2>2, <2>3, <2>4, <2>5, <2>6, <2>7, <2>8, <2>9, <2>10
<1> QED BY <1>1, <1>2

-----------------------------------------------------------------------------
(***************************************************************************)
(* The theorems                                                            *)
(***************************************************************************)

\* Every step of the program and of the collector keeps the invariant.
LEMMA NextInv == IInv /\ [Next]_vars => IInv'
<1> SUFFICES ASSUME IInv, [Next]_vars PROVE IInv'
  OBVIOUS
<1>1. ASSUME NEW a \in Addr, NEW r \in Ref, NEW k \in {"object", "weakmap"},
             NewObject(a, k, r)
      PROVE  IInv'
  BY <1>1, NewObjectInv
<1>2. ASSUME NEW a \in Addr, NEW r \in Ref, NEW key \in Addr, NewWeakRef(a, r, key)
      PROVE  IInv'
  BY <1>2, NewWeakRefInv
<1>3. ASSUME NEW w \in Addr, NEW r \in Ref, Deref(w, r) PROVE IInv'
  BY <1>3, DerefInv
<1>4. ASSUME NEW w \in Addr, NEW key \in Addr, NEW c \in Addr, NEW r \in Ref,
             MapSet(w, key, c, r)
      PROVE  IInv'
  BY <1>4, MapSetInv
<1>5. ASSUME NEW f \in Addr, NEW v \in Addr, NEW r \in Ref, CaptureVar(f, v, r)
      PROVE  IInv'
  BY <1>5, CaptureVarInv
<1>6. ASSUME NEW f \in Addr, NEW v \in Addr, NEW r \in Ref, ShareVar(f, v, r)
      PROVE  IInv'
  BY <1>6, ShareVarInv
<1>7. ASSUME NEW v \in Addr, NEW s \in Ref, NEW r \in Ref, CloseVar(v, s, r)
      PROVE  IInv'
  BY <1>7, CloseVarInv
<1>8. ASSUME NEW s \in Ref, NEW r \in Ref, ReadValue(s, r) PROVE IInv'
  BY <1>8, ReadValueInv
<1>9. ASSUME NEW s \in Ref, NEW r \in Ref, SetValue(s, r) PROVE IInv'
  BY <1>9, SetValueInv
<1>10. ASSUME NEW s \in Ref, NEW h \in Addr, AddProperty(s, h) PROVE IInv'
  BY <1>10, AddPropertyInv
<1>11. ASSUME NEW r \in Ref, FreeValue(r) PROVE IInv'
  BY <1>11, FreeValueInv
<1>12. ASSUME NEW w \in Addr, MapDelete(w) PROVE IInv'
  BY <1>12, MapDeleteInv
<1>13. CASE RunGC
  BY <1>13, RunGCInv
<1>14. CASE FreeRuntime
  BY <1>14, FreeRuntimeInv
<1>15. CASE NewRuntime
  BY <1>15, NewRuntimeInv
<1>16. ASSUME NEW p \in Addr, FreeZeroStep(p) PROVE IInv'
  BY <1>16, FreeZeroStepInv
<1>17. ASSUME NEW w \in Addr, WeakStep(w) PROVE IInv'
  BY <1>17, WeakStepInv
<1>18. ASSUME NEW p \in Addr, DecrefStep(p) PROVE IInv'
  BY <1>18, DecrefStepInv
<1>19. ASSUME NEW p \in Addr, ScanStep(p) PROVE IInv'
  BY <1>19, ScanStepInv
<1>20. ASSUME NEW p \in Addr, FreeCycleStep(p) PROVE IInv'
  BY <1>20, FreeCycleStepInv
<1>21. CASE FreeZeroDone
  BY <1>21, FreeZeroDoneInv
<1>22. CASE WeakDone
  BY <1>22, WeakDoneInv
<1>23. CASE DecrefDone
  BY <1>23, DecrefDoneInv
<1>24. CASE ScanDone
  BY <1>24, ScanDoneInv
<1>25. CASE FreeCyclesDone
  BY <1>25, FreeCyclesDoneInv
<1>26. CASE Sweep
  BY <1>26, SweepInv
<1>27. CASE UNCHANGED vars
  <2>1. UNCHANGED <<cells, refs, pc, todo, closing>>
    BY <1>27 DEF vars
  <2>2. RefCountExact'
    BY <2>1, SameCounts DEF IInv, HeapInv, Deducted, On, cells
  <2>3. RecordsInv' /\ VarsInv' /\ WeakKeysInv' /\ WeakCountExact'
    BY <2>1, LoopInv
  <2>4. TypeOK'
    BY <2>1 DEF IInv, TypeOK, cells, refs
  <2>5. PlacesInv' /\ ListsInv' /\ CountsInv' /\ TodoInv' /\ CyclesInv'
    BY <2>1 DEF IInv, HeapInv, PlacesInv, ListsInv, CountsInv, TodoInv, CyclesInv,
                cells, refs, Live, On, Doomed
  <2> QED BY <2>2, <2>3, <2>4, <2>5 DEF IInv, HeapInv
<1>28. CASE Program
  BY <1>28, <1>1, <1>2, <1>3, <1>4, <1>5, <1>6, <1>7, <1>8, <1>9, <1>10, <1>11, <1>12,
     <1>13, <1>14, <1>15 DEF Program
<1>29. CASE Collector
  BY <1>29, <1>16, <1>17, <1>18, <1>19, <1>20, <1>21, <1>22, <1>23, <1>24, <1>25, <1>26
     DEF Collector
<1> QED BY <1>27, <1>28, <1>29 DEF Next

\* The invariant holds in every state of every execution, whatever the number
\* of cells and of values.
THEOREM HeapInvariant == Spec => []IInv
<1>1. Init => IInv
  BY InitInv
<1>2. IInv /\ [Next]_vars => IInv'
  BY NextInv
<1> QED BY <1>1, <1>2, PTL DEF Spec

\* Every variable of the heap keeps its type; in particular no reference count
\* and no weak reference count ever goes below zero.
THEOREM TypeCorrect == Spec => []TypeOK
<1>1. IInv => TypeOK
  BY DEF IInv
<1> QED BY <1>1, HeapInvariant, PTL

\* header.ref_count is the number of values that denote the cell, at every
\* step of the program and of the collector's passes.
THEOREM RefCountCorrect == Spec => []RefCountExact
<1>1. IInv => RefCountExact
  BY DEF IInv, HeapInv
<1> QED BY <1>1, HeapInvariant, PTL

\* weakref_count is the number of weak references, and the structure of a dead
\* object is kept no longer than one of them needs it.
THEOREM WeakCountCorrect == Spec => []WeakCountExact
<1>1. IInv => WeakCountExact
  BY DEF IInv, HeapInv
<1> QED BY <1>1, HeapInvariant, PTL

\* Nothing that is in use denotes a freed cell.
THEOREM MemorySafety == Spec => []NoUseAfterFree
<1>1. ASSUME IInv PROVE NoUseAfterFree
  <2> USE <1>1 DEF IInv, HeapInv
  <2>1. ASSUME NEW r \in Ref
        PROVE  \/ owner[r] = Unused
               \/ target[r] \in Live
               \/ pc = "free_cycles" /\ owner[r] \in On("tmp") \cup On("zero")
    <3>1. CASE target[r] = Nil
      BY <3>1 DEF PlacesInv
    <3>2. CASE target[r] \in Addr /\ kind[target[r]] # "zombie"
      BY <3>2 DEF PlacesInv, Live
    <3>3. CASE target[r] \in Addr /\ kind[target[r]] = "zombie"
      BY <3>3 DEF PlacesInv, CyclesInv, Doomed, On
    <3> QED BY <3>1, <3>2, <3>3 DEF TypeOK
  <2>2. ASSUME NEW w \in weakref_list, wkey[w] # Nil
        PROVE  kind[wkey[w]] # "free"
    BY <2>2 DEF WeakKeysInv, weakref_list
  <2> QED BY <2>1, <2>2 DEF NoUseAfterFree
<1> QED BY <1>1, HeapInvariant, PTL

\* The assertions in gc_decref_child, gc_scan, free_zero_refcount and
\* gc_free_cycles never fail.
THEOREM AssertionsHold == Spec => []CollectorAsserts
<1>1. ASSUME IInv PROVE CollectorAsserts
  <2> USE <1>1 DEF IInv, HeapInv
  <2>1. pc = "decref" => \A a \in todo : mark[a] = 0 /\ list[a] = "gc"
    BY DEF TodoInv, CountsInv, On
  <2>2. pc = "scan" => \A a \in todo : rc[a] > 0
    BY DEF TodoInv, CountsInv, On
  <2>3. pc \in {"free_zero", "weak_free"} => \A a \in On("zero") : rc[a] = 0
    BY DEF CountsInv, On
  <2>4. pc = "sweep" => \A a \in On("zero") : kind[a] = "zombie" /\ rc[a] = 0
    BY DEF CountsInv, ListsInv, Live, On
  <2> QED BY <2>1, <2>2, <2>3, <2>4 DEF CollectorAsserts
<1> QED BY <1>1, HeapInvariant, PTL

\* No step gives a dead object its kind back or a reference more.
LEMMA DeadStep ==
  ASSUME IInv, Next, NEW a \in Addr, kind[a] = "zombie"
  PROVE  kind'[a] \in {"zombie", "free"} /\ rc'[a] <= rc[a]
<1> DEFINE P == kind'[a] \in {"zombie", "free"} /\ rc'[a] <= rc[a]
<1> SUFFICES P
  OBVIOUS
<1>t. TypeOK /\ rc[a] \in Nat /\ a \notin Live
  BY DEF IInv, TypeOK, Live
<1>e. \A R \in SUBSET Ref : /\ Edges(R, a) \in Nat
                            /\ pc # "free_cycles" => Edges(R, a) = 0
  <2> SUFFICES ASSUME NEW R \in SUBSET Ref
               PROVE  /\ Edges(R, a) \in Nat
                      /\ pc # "free_cycles" => Edges(R, a) = 0
    OBVIOUS
  <2>1. pc # "free_cycles" => \A r \in R : target[r] # a
    BY DEF IInv, HeapInv, PlacesInv
  <2> QED BY <2>1, EdgesFacts
<1>w. ASSUME NEW R \in SUBSET Ref, rc' = RcWithout(R) PROVE rc'[a] <= rc[a]
  <2>1. rc'[a] = rc[a] - Edges(R, a)
    BY <1>w DEF RcWithout
  <2> QED BY <2>1, <1>e, <1>t
<1>n. ASSUME NEW x \in Addr, NEW k, NEW r, NEW o, NewCell(x, k, r, o) PROVE P
  <2>1. x # a
    BY <1>n DEF NewCell
  <2> QED BY <1>n, <2>1, <1>t DEF NewCell, TypeOK
<1>d. ASSUME NEW c \in Live, NEW r, NEW o, Dup(c, r, o), UNCHANGED kind PROVE P
  BY <1>d, <1>t DEF Dup, TypeOK, Live
<1>v. ASSUME NEW s \in Ref, owner[s] # Unused, pc = "run" PROVE target[s] \in Live
  BY <1>v DEF IInv, HeapInv, TypeOK, PlacesInv, Live
<1>v2. ASSUME NEW x, Held(x), pc = "run" PROVE x \in Live
  BY <1>v2, <1>v, TokenAssumption DEF Held, HeldBy
<1>f. ASSUME NEW p \in Addr, FreeObject(p) PROVE P
  <2>1. Dropped(p) \in SUBSET Ref
    BY DEF Dropped, Own
  <2>2. rc' = RcWithout(Dropped(p))
    BY <1>f DEF FreeObject
  <2>3. kind'[a] \in {"zombie", "free"}
    BY <1>f DEF FreeObject
  <2> QED BY <2>1, <2>2, <2>3, <1>w
<1>1. CASE Program
  <2>0. ASSUME UNCHANGED <<kind, rc>> PROVE P
    BY <2>0, <1>t
  <2>1. ASSUME NEW x \in Addr, NEW r \in Ref, NEW k, NewObject(x, k, r) PROVE P
    BY <2>1, <1>n DEF NewObject
  <2>2. ASSUME NEW x \in Addr, NEW r \in Ref, NEW key, NewWeakRef(x, r, key) PROVE P
    BY <2>2, <1>n DEF NewWeakRef
  <2>3. ASSUME NEW w \in Addr, NEW r \in Ref, Deref(w, r) PROVE P
    <3>1. wkey[w] \in Live
      <4>1. wkey[w] \in Addr /\ rc[wkey[w]] # 0
        BY <2>3, <1>t DEF Deref, is_live, TypeOK
      <4>2. PICK s \in Ref : target[s] = wkey[w]
        BY <4>1, <2>3, ZeroCount DEF Deref, Running, IInv, HeapInv
      <4> QED BY <4>1, <4>2, <2>3 DEF Deref, Running, IInv, HeapInv, PlacesInv, Live
    <3> QED BY <2>3, <3>1, <1>d DEF Deref
  <2>4. ASSUME NEW w \in Addr, NEW key, NEW c, NEW r \in Ref, MapSet(w, key, c, r) PROVE P
    BY <2>4, <1>v2, <1>d DEF MapSet, Running
  <2>5. ASSUME NEW x \in Addr, NEW v \in Addr, NEW r \in Ref, CaptureVar(x, v, r) PROVE P
    BY <2>5, <1>n DEF CaptureVar
  <2>6. ASSUME NEW x \in Addr, NEW v \in Addr, NEW r \in Ref, ShareVar(x, v, r) PROVE P
    BY <2>6, <1>d DEF ShareVar, Live
  <2>7. ASSUME NEW v \in Addr, NEW s \in Ref, NEW r \in Ref, CloseVar(v, s, r) PROVE P
    BY <2>7, <1>v, <1>d, TokenAssumption DEF CloseVar, Running
  <2>8. ASSUME NEW s \in Ref, NEW r \in Ref, ReadValue(s, r) PROVE P
    <3>1. owner[s] # Unused
      BY <2>8, TokenAssumption DEF ReadValue, Accessible
    <3> QED BY <2>8, <3>1, <1>v, <1>d DEF ReadValue, Running
  <2>9. ASSUME NEW s \in Ref, NEW r \in Ref, SetValue(s, r) PROVE P
    BY <2>9, <1>w, <1>t DEF SetValue, FreeValues
  <2>10. ASSUME NEW s \in Ref, NEW h \in Addr, AddProperty(s, h) PROVE P
    BY <2>10, <2>0 DEF AddProperty, cells
  <2>11. ASSUME NEW r \in Ref, FreeValue(r) PROVE P
    BY <2>11, <1>w, <1>t DEF FreeValue, FreeValues
  <2>12. ASSUME NEW w \in Addr, MapDelete(w) PROVE P
    BY <2>12, <1>w, <1>t DEF MapDelete, FreeValues, RecordValue
  <2>13. CASE RunGC \/ FreeRuntime \/ NewRuntime
    BY <2>13, <2>0 DEF RunGC, FreeRuntime, NewRuntime, cells
  <2> QED BY <1>1, <2>1, <2>2, <2>3, <2>4, <2>5, <2>6, <2>7, <2>8, <2>9, <2>10, <2>11,
             <2>12, <2>13 DEF Program
<1>2. CASE Collector
  <2>0. ASSUME UNCHANGED <<kind, rc>> PROVE P
    BY <2>0, <1>t
  <2>1. ASSUME NEW p \in Addr, FreeZeroStep(p) PROVE P
    BY <2>1, <1>f DEF FreeZeroStep
  <2>2. ASSUME NEW w \in Addr, WeakStep(w) PROVE P
    <3>1. CASE is_live(wkey[w])
      BY <3>1, <2>2, <2>0 DEF WeakStep, cells
    <3>2. CASE ~is_live(wkey[w])
      <4>1. kind'[a] \in {"zombie", "free"} /\ rc' = RcWithout(RecordValue(w))
        BY <3>2, <2>2 DEF WeakStep
      <4>2. RecordValue(w) \in SUBSET Ref
        BY DEF RecordValue
      <4> QED BY <4>1, <4>2, <1>w
    <3> QED BY <3>1, <3>2
  <2>3. ASSUME NEW p \in Addr, DecrefStep(p) PROVE P
    BY <2>3, <1>w, <1>t DEF DecrefStep, Own
  <2>4. ASSUME NEW p \in Addr, ScanStep(p) PROVE P
    <3>1. rc'[a] = rc[a] + Edges(Own(p), a) /\ kind' = kind /\ pc # "free_cycles"
      BY <2>4 DEF ScanStep
    <3>2. Edges(Own(p), a) = 0
      <4>1. Own(p) \in SUBSET Ref
        BY DEF Own
      <4> QED BY <4>1, <3>1, <1>e
    <3> QED BY <3>1, <3>2, <1>t
  <2>5. ASSUME NEW p \in Addr, FreeCycleStep(p) PROVE P
    BY <2>5, <1>f, <2>0 DEF FreeCycleStep
  <2>6. CASE ScanDone
    <3> DEFINE R == {r \in Ref : owner[r] \in On("tmp")}
    <3>1. rc'[a] = rc[a] + Edges(R, a) /\ kind' = kind /\ pc # "free_cycles"
      BY <2>6 DEF ScanDone
    <3>2. Edges(R, a) = 0
      BY <3>1, <1>e
    <3> HIDE DEF R
    <3> QED BY <3>1, <3>2, <1>t
  <2>7. CASE Sweep
    BY <2>7, <1>t DEF Sweep
  <2>8. CASE FreeZeroDone \/ WeakDone \/ DecrefDone \/ FreeCyclesDone
    BY <2>8, <2>0 DEF FreeZeroDone, WeakDone, DecrefDone, FreeCyclesDone, cells
  <2> QED BY <1>2, <2>1, <2>2, <2>3, <2>4, <2>5, <2>6, <2>7, <2>8 DEF Collector
<1> QED BY <1>1, <1>2 DEF Next

\* An object that died stays dead.
THEOREM NoResurrection == Spec => DeadStayDead
<1> DEFINE Dead == \A a \in Addr :
                     /\ kind[a] = "zombie" => kind'[a] \in {"zombie", "free"}
                     /\ kind[a] = "zombie" => rc'[a] <= rc[a]
<1>1. IInv /\ [Next]_vars => [Dead]_vars
  BY DeadStep
<1>2. Spec => [][Dead]_vars
  BY <1>1, HeapInvariant, PTL DEF Spec
<1> QED BY <1>2 DEF DeadStayDead

-----------------------------------------------------------------------------
(***************************************************************************)
(* What free_object takes out of the graph                                 *)
(***************************************************************************)

\* While no reference is deducted, a cell all of whose counted references are
\* in places R is denoted by no other place.
LEMMA AllCounted ==
  ASSUME IInv, pc \notin {"decref", "scan"}, NEW R \in SUBSET Ref, NEW a \in Addr
  PROVE  /\ Edges(R, a) \in Nat /\ rc[a] \in Nat
         /\ Edges(R, a) = rc[a] <=> \A r \in Ref : target[r] = a => r \in R
         /\ Edges(R, a) = 0 <=> \A r \in R : target[r] # a
<1>1. rc[a] = Edges(Ref, a)
  BY WholeCounts DEF IInv, HeapInv
<1>2. /\ Edges(Ref \ R, a) = Edges(Ref, a) - Edges(R, a)
      /\ Edges(R, a) \in Nat /\ Edges(Ref, a) \in Nat
  <2>1. Edges(Ref \ R, a) = Edges(Ref, a) - Edges(R, a)
    BY EdgesSplit
  <2>2. Ref \in SUBSET Ref
    OBVIOUS
  <2> QED BY <2>1, <2>2, EdgesFacts
<1>3. Edges(Ref \ R, a) = 0 <=> \A r \in Ref \ R : target[r] # a
  BY EdgesFacts
<1>4. Edges(R, a) = 0 <=> \A r \in R : target[r] # a
  BY EdgesFacts
<1> QED BY <1>1, <1>2, <1>3, <1>4

\* free_object(p) takes p and the variables that die with it out of the graph,
\* with the values they own.  Nothing else refers to those variables, and among
\* cycles they belong to the cells that are being freed.
LEMMA FreedGraph ==
  ASSUME IInv, pc \in {"free_zero", "weak_free", "free_cycles"},
         NEW p \in Live, kind[p] # "var_ref",
         list[p] = IF pc = "free_cycles" THEN "tmp" ELSE "zero",
         FreeObject(p)
  PROVE  /\ DyingVars(p) \subseteq Live
         /\ Live' = Live \ ({p} \cup DyingVars(p))
         /\ \A v \in DyingVars(p) : \A r \in Ref : target[r] = v => owner[r] = p
         /\ pc = "free_cycles" =>
                /\ p \in Doomed /\ DyingVars(p) \subseteq Doomed
                /\ On("gc")' = On("gc") /\ Doomed' \subseteq Doomed
<1> DEFINE D == DyingVars(p)
           R == Dropped(p)
           k == wkey[p]
           keep == WithoutWeakRef(k)[p] # 0
                      \/ (gc_phase = "remove_cycles" /\ RcWithout(R)[p] # 0)
           F == D \cup (IF keep THEN {} ELSE {p}) \cup (IF KeyFreed(k, R) THEN {k} ELSE {})
           cyc == pc = "free_cycles"
<1>t. TypeOK /\ p \in Addr /\ k \in Addr \cup {Nil}
  BY DEF IInv, TypeOK, Live
<1>i. PlacesInv /\ ListsInv /\ CountsInv /\ CyclesInv /\ WeakKeysInv
  BY DEF IInv, HeapInv
<1>g. cyc <=> gc_phase = "remove_cycles"
  BY DEF gc_phase
<1>f. /\ kind' = [a \in Addr |-> IF a \in F THEN "free"
                                 ELSE IF a = p THEN "zombie" ELSE kind[a]]
      /\ list' = [a \in Addr |-> IF a \in F THEN "none"
                                 ELSE IF a = p THEN
                                     IF gc_phase = "remove_cycles" THEN "zero" ELSE "none"
                                 ELSE IF a \in ToZero(R) THEN "zero" ELSE list[a]]
  BY DEF FreeObject
<1>R. /\ R \in SUBSET Ref /\ Own(p) \in SUBSET Ref
      /\ \A r \in Ref : r \in R <=> owner[r] = p \/ owner[r] \in D
      /\ \A r \in Ref : r \in Own(p) <=> owner[r] = p
  BY DEF Dropped, Own
<1>D. \A v \in D : /\ v \in Addr /\ kind[v] = "var_ref" /\ v # p
                   /\ Edges(Own(p), v) = rc[v]
  BY DEF DyingVars
<1>m. mark[p] = 1
  BY <1>t, <1>i DEF CountsInv
<1>z. cyc => ToZero(R) = {}
  BY <1>g DEF ToZero
<1>K. KeyFreed(k, R) => /\ k \in Addr /\ k # p /\ mark[k] = 0
                        /\ k \notin ToZero(R) /\ rc[k] = Edges(R, k)
  BY <1>t, <1>m DEF KeyFreed
<1>F. /\ \A a \in F : a \in Addr /\ (a = p \/ a \in D \/ (a = k /\ KeyFreed(k, R)))
      /\ D \subseteq F /\ (KeyFreed(k, R) => k \in F)
  BY <1>D, <1>K, <1>t
<1> HIDE DEF D, R, k, keep, F
<1>v. \A v \in D : \A r \in Ref : target[r] = v => owner[r] = p
  BY <1>D, <1>R, AllCounted
<1>l. D \subseteq Live
  BY <1>D DEF Live
\* Among cycles, a variable that dies with p is one of the cells being freed.
<1>y. cyc => p \in Doomed /\ D \subseteq Doomed
  <2> SUFFICES ASSUME cyc PROVE p \in Doomed /\ D \subseteq Doomed
    OBVIOUS
  <2>1. p \in Doomed
    BY <1>t DEF Doomed, On
  <2>2. ASSUME NEW v \in D PROVE v \in Doomed
    <3>1. list[v] # "gc"
      BY <1>v, <1>D, <2>1, <1>i DEF CyclesInv, On
    <3> QED BY <3>1, <1>l, <1>D, <1>t, <1>i DEF ListsInv, TypeOK, Lists, Doomed, On
  <2> QED BY <2>1, <2>2
\* The key whose structure is freed with its last weak reference was dead.
<1>k. KeyFreed(k, R) => kind[k] = "zombie" /\ list[k] = "none"
  <2> SUFFICES ASSUME KeyFreed(k, R) PROVE kind[k] = "zombie" /\ list[k] = "none"
    OBVIOUS
  <2>1. /\ k \in Addr /\ mark[k] = 0 /\ k \notin ToZero(R) /\ rc[k] = Edges(R, k)
    BY <1>K
  <2>2. kind[k] \notin {"free", "var_ref"}
    BY <2>1, <1>t, <1>i, TokenAssumption DEF WeakKeysInv, k
  <2>3. list[k] # "gc"
    <3> SUFFICES ASSUME list[k] = "gc" PROVE FALSE
      OBVIOUS
    <3>1. CASE cyc
      <4>1. PICK r \in Ref : target[r] = k /\ owner[r] \notin Doomed
        BY <3>1, <2>1, <1>i DEF CyclesInv, On
      <4>2. r \in R
        BY <4>1, <2>1, <1>R, AllCounted
      <4> QED BY <4>1, <4>2, <3>1, <1>R, <1>y
    <3>2. CASE ~cyc
      <4>1. rc[k] > 0
        BY <3>2, <2>1, <1>i DEF CountsInv
      <4> QED BY <4>1, <3>2, <2>1, <2>2, <1>g DEF ToZero
    <3> QED BY <3>1, <3>2
  <2>4. list[k] = "none"
    BY <2>1, <2>3, <1>t, <1>i DEF CountsInv, TypeOK, Lists
  <2> QED BY <2>1, <2>2, <2>4, <1>t, <1>i DEF ListsInv, Live, TypeOK, Kinds
<1>1. Live' = Live \ ({p} \cup D)
  <2>1. ASSUME NEW a \in Addr
        PROVE  a \in Live' <=> a \in Live /\ a # p /\ a \notin D
    <3>1. CASE a = p
      BY <3>1, <1>f DEF Live
    <3>2. CASE a \in D
      BY <3>2, <1>f, <1>F DEF Live
    <3>3. CASE a # p /\ a \notin D /\ a \in F
      BY <3>3, <1>f, <1>F, <1>k DEF Live
    <3>4. CASE a # p /\ a \notin D /\ a \notin F
      BY <3>4, <1>f DEF Live
    <3> QED BY <3>1, <3>2, <3>3, <3>4
  <2>2. Live \subseteq Addr /\ Live' \subseteq Addr
    BY DEF Live
  <2> QED BY <2>1, <2>2
<1>2. ASSUME cyc PROVE On("gc")' = On("gc") /\ Doomed' \subseteq Doomed
  <2>1. ASSUME NEW a \in Addr
        PROVE  /\ list'[a] = "gc" <=> list[a] = "gc"
               /\ list'[a] \in {"tmp", "zero"} => list[a] \in {"tmp", "zero"}
    <3>1. CASE a \in F
      <4>1. list'[a] = "none"
        BY <3>1, <1>f
      <4>2. list[a] # "gc"
        BY <3>1, <1>F, <1>k, <1>y, <1>2, <1>t DEF Doomed, On
      <4> QED BY <4>1, <4>2
    <3>2. CASE a \notin F /\ a = p
      BY <3>2, <1>2, <1>f, <1>g, <1>t
    <3>3. CASE a \notin F /\ a # p
      BY <3>3, <1>2, <1>f, <1>z
    <3> QED BY <3>1, <3>2, <3>3
  <2> QED BY <2>1 DEF Doomed, On
<1> QED BY <1>v, <1>l, <1>y, <1>1, <1>2 DEF D

-----------------------------------------------------------------------------
(***************************************************************************)
(* JSHeap implements ObjectGraph                                           *)
(***************************************************************************)

\* A new cell is a new object of the graph.
LEMMA CreateStep ==
  ASSUME IInv, NEW a \in Addr, NEW r \in Ref, NEW o \in Live \cup {Stack},
         NEW k \in {"object", "weakref", "weakmap", "var_ref"}, NewCell(a, k, r, o)
  PROVE  Graph!Next
<1>1. a \notin Live /\ owner[r] = Unused
  BY DEF NewCell, Live
<1>2. \A s \in Ref : target[s] # a
  BY DEF NewCell, IInv, HeapInv, PlacesInv
<1>3. Live' = Live \cup {a}
  BY DEF NewCell, Live, IInv, TypeOK
<1>4. Graph!Create(a, r, o)
  BY <1>1, <1>2, <1>3 DEF NewCell, Graph!Create
<1> QED BY <1>4 DEF Graph!Next

\* A counted copy of a value is a new edge.
LEMMA LinkStep ==
  ASSUME NEW c \in Live, NEW r \in Ref, NEW o \in Live \cup {Stack},
         Dup(c, r, o), UNCHANGED kind
  PROVE  Graph!Next
<1>1. c \in Addr /\ Live' = Live
  BY DEF Live
<1>2. Graph!Link(c, r, o)
  BY <1>1 DEF Dup, Graph!Link
<1> QED BY <1>1, <1>2 DEF Graph!Next

\* Values are forgotten while no object is freed.
LEMMA ForgetStep ==
  ASSUME NEW R \in SUBSET Ref, Clear(R), Live' = Live
  PROVE  Graph!Next
<1>1. Graph!Forget(R)
  BY DEF Clear, Graph!Forget, Graph!Drop
<1> QED BY <1>1 DEF Graph!Next

\* What free_object takes lies in a set of objects that no value outside it
\* denotes: the object and its variables when nothing denotes it, all that
\* gc_free_cycles has still to free otherwise.
LEMMA ReclaimStep ==
  ASSUME IInv, pc \in {"free_zero", "weak_free", "free_cycles"},
         NEW p \in Live, kind[p] # "var_ref",
         list[p] = IF pc = "free_cycles" THEN "tmp" ELSE "zero",
         FreeObject(p)
  PROVE  Graph!Next
<1> DEFINE S == {p} \cup DyingVars(p)
<1>1. /\ DyingVars(p) \subseteq Live
      /\ Live' = Live \ ({p} \cup DyingVars(p))
      /\ \A v \in DyingVars(p) : \A r \in Ref : target[r] = v => owner[r] = p
      /\ pc = "free_cycles" => p \in Doomed /\ DyingVars(p) \subseteq Doomed
  BY FreedGraph
<1>2. \E U \in SUBSET Live : S \subseteq U /\ Graph!Closed(U)
  <2>1. CASE pc = "free_cycles"
    <3> DEFINE U == Doomed \cap Live
    <3>1. S \subseteq U
      BY <1>1, <2>1
    <3>2. ASSUME NEW r \in Ref, target[r] \in U PROVE owner[r] \in U
      <4>1. owner[r] \in Doomed
        BY <3>2, <2>1 DEF IInv, HeapInv, CyclesInv
      <4>2. owner[r] \in Live
        BY <4>1 DEF IInv, HeapInv, PlacesInv, Doomed, On
      <4> QED BY <4>1, <4>2
    <3>3. Graph!Closed(U)
      BY <3>2 DEF Graph!Closed
    <3> QED BY <3>1, <3>3
  <2>2. CASE pc # "free_cycles"
    <3>1. \A r \in Ref : target[r] # p
      <4>1. p \in Addr /\ rc[p] = 0
        BY <2>2 DEF IInv, HeapInv, CountsInv, Live
      <4> QED BY <4>1, ZeroCount DEF IInv, HeapInv
    <3>2. Graph!Closed(S)
      BY <3>1, <1>1 DEF Graph!Closed
    <3> QED BY <1>1, <3>2
  <2> QED BY <2>1, <2>2
<1>3. Graph!Owned(S) = Dropped(p)
  BY DEF Graph!Owned, Dropped, Own
<1>4. Graph!Drop(Graph!Owned(S))
  BY <1>3 DEF FreeObject, Clear, Graph!Drop
<1>5. Graph!Reclaim(S)
  BY <1>1, <1>2, <1>4 DEF Graph!Reclaim
<1>6. S \in SUBSET Live /\ S # {}
  BY <1>1
<1> QED BY <1>5, <1>6 DEF Graph!Next

\* Every step of the mechanism is a step of the graph, or none.
LEMMA GraphStep ==
  ASSUME IInv, [Next]_vars
  PROVE  [Graph!Next]_(Graph!vars)
<1> USE DEF IInv, HeapInv
<1>0. ASSUME UNCHANGED <<kind, owner, target>> PROVE [Graph!Next]_(Graph!vars)
  BY <1>0 DEF Graph!vars, Live
<1>h. ASSUME NEW L \in SUBSET Ref, NEW a, HeldBy(L, a), pc = "run"
      PROVE  a \in Addr /\ a \in Live
  BY <1>h, RunFacts, TokenAssumption DEF HeldBy, PlacesInv, TypeOK
<1>v. ASSUME NEW s \in Ref, owner[s] # Unused, pc = "run" PROVE target[s] \in Live
  BY <1>v, RunFacts DEF PlacesInv, TypeOK
<1>1. CASE UNCHANGED vars
  BY <1>1, <1>0 DEF vars, cells, refs
<1>2. CASE Program
  <2>1. ASSUME NEW a \in Addr, NEW r \in Ref, NEW k, NewObject(a, k, r) PROVE Graph!Next
    BY <2>1, CreateStep DEF NewObject
  <2>2. ASSUME NEW a \in Addr, NEW r \in Ref, NEW key, NewWeakRef(a, r, key)
        PROVE  Graph!Next
    BY <2>2, CreateStep DEF NewWeakRef
  <2>3. ASSUME NEW f \in Addr, NEW v \in Addr, NEW r \in Ref, CaptureVar(f, v, r)
        PROVE  Graph!Next
    <3>1. f \in Live
      BY <2>3 DEF CaptureVar, Live
    <3> QED BY <2>3, <3>1, CreateStep DEF CaptureVar
  <2>4. ASSUME NEW w \in Addr, NEW r \in Ref, Deref(w, r) PROVE Graph!Next
    <3>1. wkey[w] \in Addr /\ rc[wkey[w]] # 0 /\ pc = "run"
      BY <2>4 DEF Deref, is_live, TypeOK, Running
    <3>2. PICK s \in Ref : target[s] = wkey[w]
      BY <3>1, ZeroCount
    <3>3. wkey[w] \in Live
      BY <3>1, <3>2, RunFacts
    <3> QED BY <2>4, <3>3, LinkStep DEF Deref
  <2>5. ASSUME NEW w \in Addr, NEW key, NEW c, NEW r \in Ref, MapSet(w, key, c, r)
        PROVE  Graph!Next
    <3>1. w \in Live /\ c \in Live
      BY <2>5, <1>h DEF MapSet, Held, Running
    <3> QED BY <2>5, <3>1, LinkStep DEF MapSet
  <2>6. ASSUME NEW f \in Addr, NEW v \in Addr, NEW r \in Ref, ShareVar(f, v, r)
        PROVE  Graph!Next
    <3>1. f \in Live /\ v \in Live
      BY <2>6 DEF ShareVar, Live
    <3> QED BY <2>6, <3>1, LinkStep DEF ShareVar
  <2>7. ASSUME NEW v \in Addr, NEW s \in Ref, NEW r \in Ref, CloseVar(v, s, r)
        PROVE  Graph!Next
    <3>1. v \in Live /\ target[s] \in Live
      BY <2>7, <1>v, TokenAssumption DEF CloseVar, Live, Running
    <3> QED BY <2>7, <3>1, LinkStep DEF CloseVar
  <2>8. ASSUME NEW s \in Ref, NEW r \in Ref, ReadValue(s, r) PROVE Graph!Next
    <3>1. target[s] \in Live
      BY <2>8, <1>v, TokenAssumption DEF ReadValue, Accessible, Running
    <3> QED BY <2>8, <3>1, LinkStep DEF ReadValue
  <2>9. ASSUME NEW s \in Ref, NEW h \in Addr, AddProperty(s, h) PROVE Graph!Next
    <3>1. h \in Live /\ owner[s] = Stack /\ Live' = Live
      BY <2>9, <1>h DEF AddProperty, Running, cells, Live
    <3>2. /\ owner' = [r \in Ref |-> IF r = s THEN h
                                    ELSE IF r \in {} THEN Unused ELSE owner[r]]
          /\ target' = [r \in Ref |-> IF r \in {} THEN Nil ELSE target[r]]
      BY <2>9 DEF AddProperty, TypeOK
    <3>3. Graph!Move(s, h, {})
      BY <3>1, <3>2 DEF Graph!Move
    <3>4. h \in Live \cup {Stack} /\ {} \in SUBSET (Ref \ {s})
      BY <3>1
    <3> QED BY <3>3, <3>4 DEF Graph!Next
  <2>10. ASSUME NEW s \in Ref, NEW r \in Ref, SetValue(s, r) PROVE Graph!Next
    <3>1. owner[r] \in Live /\ owner[s] = Stack /\ r # s /\ Live' = Live
      BY <2>10, TokenAssumption DEF SetValue, Accessible, PlacesInv, Live
    <3>2. /\ owner' = [q \in Ref |-> IF q = s THEN owner[r]
                                    ELSE IF q \in {r} THEN Unused ELSE owner[q]]
          /\ target' = [q \in Ref |-> IF q \in {r} THEN Nil ELSE target[q]]
      BY <2>10, <3>1 DEF SetValue, TypeOK
    <3>3. Graph!Move(s, owner[r], {r})
      BY <3>1, <3>2 DEF Graph!Move
    <3>4. owner[r] \in Live \cup {Stack} /\ {r} \in SUBSET (Ref \ {s})
      BY <3>1
    <3> QED BY <3>3, <3>4 DEF Graph!Next
  <2>11. ASSUME NEW r \in Ref, FreeValue(r) PROVE Graph!Next
    <3>1. Live' = Live /\ {r} \in SUBSET Ref /\ Clear({r})
      BY <2>11 DEF FreeValue, Live
    <3> QED BY <3>1, ForgetStep
  <2>12. ASSUME NEW w \in Addr, MapDelete(w) PROVE Graph!Next
    <3>1. Live' = Live /\ RecordValue(w) \in SUBSET Ref /\ Clear(RecordValue(w))
      BY <2>12 DEF MapDelete, Live, RecordValue
    <3> QED BY <3>1, ForgetStep
  <2>13. CASE RunGC \/ FreeRuntime \/ NewRuntime
    BY <2>13, <1>0 DEF RunGC, FreeRuntime, NewRuntime, cells, refs
  <2> QED BY <1>2, <2>1, <2>2, <2>3, <2>4, <2>5, <2>6, <2>7, <2>8, <2>9, <2>10, <2>11,
             <2>12, <2>13 DEF Program
<1>3. CASE Collector
  <2>1. ASSUME NEW p \in Addr, FreeZeroStep(p) PROVE Graph!Next
    <3>1. /\ p \in Live /\ kind[p] # "var_ref"
          /\ pc \in {"free_zero", "weak_free", "free_cycles"} /\ list[p] = "zero"
          /\ pc # "free_cycles"
      BY <2>1 DEF FreeZeroStep, ListsInv, Live, TypeOK
    <3> QED BY <2>1, <3>1, ReclaimStep DEF FreeZeroStep
  <2>2. ASSUME NEW p \in Addr, FreeCycleStep(p) PROVE [Graph!Next]_(Graph!vars)
    <3>1. CASE kind[p] = "var_ref"
      BY <2>2, <3>1, <1>0 DEF FreeCycleStep, refs
    <3>2. CASE kind[p] # "var_ref"
      <4>1. p \in Live /\ pc = "free_cycles" /\ list[p] = "tmp" /\ FreeObject(p)
        BY <2>2, <3>2 DEF FreeCycleStep, ListsInv, Live, TypeOK
      <4> QED BY <3>2, <4>1, ReclaimStep
    <3> QED BY <3>1, <3>2
  <2>3. ASSUME NEW w \in Addr, WeakStep(w) PROVE [Graph!Next]_(Graph!vars)
    <3>1. CASE is_live(wkey[w])
      BY <2>3, <3>1, <1>0 DEF WeakStep, cells, refs
    <3>2. CASE ~is_live(wkey[w])
      <4> DEFINE k == wkey[w]
                 R == RecordValue(w)
      <4>1. /\ Clear(R) /\ R \in SUBSET Ref
            /\ kind' = [a \in Addr |-> IF a \in (IF KeyFreed(k, {}) THEN {k} ELSE {})
                                       THEN "free" ELSE kind[a]]
        BY <2>3, <3>2 DEF WeakStep, RecordValue
      <4>2. ASSUME KeyFreed(k, {}) PROVE k \notin Live
        <5>1. k \in Addr /\ mark[k] = 0 /\ pc = "weak"
          BY <4>2, <2>3 DEF KeyFreed, WeakStep, TypeOK
        <5>2. rc[k] = 0
          BY <3>2, <5>1 DEF is_live
        <5> QED BY <5>1, <5>2 DEF CountsInv, ListsInv, TypeOK, Lists
      <4>3. Live' = Live
        BY <4>1, <4>2 DEF Live
      <4> QED BY <4>1, <4>3, ForgetStep
    <3> QED BY <3>1, <3>2
  <2>4. ASSUME NEW p \in Addr, DecrefStep(p) \/ ScanStep(p) PROVE [Graph!Next]_(Graph!vars)
    BY <2>4, <1>0 DEF DecrefStep, ScanStep, refs
  <2>5. CASE Sweep
    <3>1. \A a \in On("zero") : kind[a] = "zombie"
      BY <2>5 DEF Sweep, ListsInv, Live, On, TypeOK
    <3>2. Live' = Live /\ refs' = refs
      BY <2>5, <3>1 DEF Sweep, Live
    <3> QED BY <3>2 DEF Graph!vars, refs
  <2>6. CASE FreeZeroDone \/ WeakDone \/ DecrefDone \/ ScanDone \/ FreeCyclesDone
    BY <2>6, <1>0 DEF FreeZeroDone, WeakDone, DecrefDone, ScanDone, FreeCyclesDone, cells, refs
  <2> QED BY <1>3, <2>1, <2>2, <2>3, <2>4, <2>5, <2>6 DEF Collector
<1> QED BY <1>1, <1>2, <1>3 DEF Next

\* The reference counts, the cycle collector and the weak references implement
\* the promise of ObjectGraph: only objects are taken back that lie in a set no
\* value in use enters.
THEOREM HeapImplementsGraph == Spec => GraphSpec
<1>1. Init => Graph!Init
  BY DEF Init, Graph!Init, Live
<1>2. IInv /\ [Next]_vars => [Graph!Next]_(Graph!vars)
  BY GraphStep
<1> QED BY <1>1, <1>2, HeapInvariant, PTL DEF Spec, GraphSpec, Graph!Spec

-----------------------------------------------------------------------------
(***************************************************************************)
(* The collector leaves no garbage                                         *)
(***************************************************************************)

\* From the end of gc_decref on, every set of cells on the object list is
\* entered by a value of the program or of a cell that is itself kept.
GarbageInv ==
    pc \in {"scan", "free_cycles", "sweep"} =>
        \A U \in SUBSET On("gc") :
            U # {} => \E r \in Ref : target[r] \in U /\ owner[r] \notin U \cup Doomed

\* The counts that gc_decref leaves above zero are those of the program.
LEMMA DecrefDoneGarbage == ASSUME IInv, DecrefDone PROVE GarbageInv'
<1> USE DEF IInv, HeapInv
<1>1. /\ On("gc")' = On("gc") /\ Doomed' = Doomed /\ target' = target /\ owner' = owner
      /\ pc = "decref" /\ todo = {}
  BY DEF DecrefDone, On, Doomed, cells, refs
<1>2. ASSUME NEW U \in SUBSET On("gc"), U # {}
      PROVE  \E r \in Ref : target[r] \in U /\ owner[r] \notin U \cup Doomed
  <2>1. PICK a \in U : TRUE
    BY <1>2
  <2>2. a \in Addr /\ list[a] = "gc"
    BY <2>1 DEF On
  <2> DEFINE R == {r \in Ref : owner[r] \notin Deducted}
  <2>3. rc[a] > 0 /\ rc[a] = Edges(R, a)
    BY <1>1, <2>2 DEF CountsInv, RefCountExact
  <2>4. PICK r \in R : target[r] = a
    <3>1. R \in SUBSET Ref
      OBVIOUS
    <3>2. Edges(R, a) \in Nat /\ (Edges(R, a) = 0 <=> \A r \in R : target[r] # a)
      BY <3>1, EdgesFacts
    <3>3. Edges(R, a) # 0
      BY <2>3, <3>2
    <3> HIDE DEF R
    <3> QED BY <3>2, <3>3
  <2>5. owner[r] \notin On("gc") \cup On("tmp")
    BY <1>1, <2>4 DEF Deducted
  <2>6. owner[r] = Stack
    <3>1. owner[r] # Unused
      BY <2>2, <2>4, TokenAssumption DEF PlacesInv
    <3>2. owner[r] \notin Addr
      BY <1>1, <2>4, <2>5 DEF PlacesInv, ListsInv, Live, On, TypeOK, Lists
    <3> QED BY <2>4, <3>1, <3>2 DEF TypeOK
  <2> QED BY <2>1, <2>4, <2>6, TokenAssumption DEF On, Doomed
<1> QED BY <1>1, <1>2 DEF GarbageInv

\* What gc_scan brings back is entered from the cell it visits.
LEMMA ScanStepGarbage ==
  ASSUME IInv, GarbageInv, NEW p \in Addr, ScanStep(p)
  PROVE  GarbageInv'
<1> USE DEF IInv, HeapInv
<1> DEFINE Revived == {a \in Addr : Edges(Own(p), a) > 0 /\ rc[a] = 0}
<1>o. Own(p) \in SUBSET Ref /\ \A r \in Own(p) : owner[r] = p
  BY DEF Own
<1>e. \A a \in Revived : \E r \in Ref : target[r] = a /\ owner[r] = p
  <2> SUFFICES ASSUME NEW a \in Revived PROVE \E r \in Own(p) : target[r] = a
    BY <1>o
  <2>1. Edges(Own(p), a) # 0
    BY <1>o, EdgesFacts
  <2> QED BY <2>1, <1>o, EdgesFacts
<1>l. list' = [a \in Addr |-> IF a \in Revived THEN "gc" ELSE list[a]]
  BY DEF ScanStep
<1>s. pc = "scan" /\ pc' = "scan" /\ owner' = owner /\ target' = target /\ list[p] = "gc"
  BY DEF ScanStep, refs, TodoInv, On
<1>r. \A a \in Revived : a \in Addr /\ list[a] = "tmp"
  <2> SUFFICES ASSUME NEW a \in Revived PROVE list[a] = "tmp"
    OBVIOUS
  <2>1. a \in Addr /\ rc[a] = 0
    OBVIOUS
  <2>2. PICK r \in Ref : target[r] = a /\ owner[r] = p
    BY <1>e
  <2>3. a \in Live
    BY <2>1, <2>2, <1>s DEF PlacesInv, Live
  <2>4. list[a] \notin {"none", "gc", "zero"}
    BY <2>1, <2>3, <1>s DEF ListsInv, CountsInv, Live
  <2> QED BY <2>1, <2>4 DEF TypeOK, Lists
<1> HIDE DEF Revived
<1>1. On("gc")' = On("gc") \cup Revived /\ Doomed' = Doomed \ Revived
      /\ Revived \subseteq Doomed
  BY <1>l, <1>r DEF On, Doomed
<1>2. ASSUME NEW U \in SUBSET (On("gc") \cup Revived), U # {}
      PROVE  \E r \in Ref : target[r] \in U /\ owner[r] \notin U \cup (Doomed \ Revived)
  <2>1. CASE U \cap On("gc") # {}
    <3>1. PICK r \in Ref : /\ target[r] \in U \cap On("gc")
                           /\ owner[r] \notin (U \cap On("gc")) \cup Doomed
      BY <2>1, <1>s DEF GarbageInv
    <3> QED BY <3>1, <1>1, <1>2
  <2>2. CASE U \cap On("gc") = {}
    <3>1. PICK a \in U : a \in Revived
      BY <1>2, <2>2
    <3>2. PICK r \in Ref : target[r] = a /\ owner[r] = p
      BY <3>1, <1>e
    <3>3. p \in On("gc") /\ p \notin Doomed
      BY <1>s DEF On, Doomed
    <3> QED BY <3>1, <3>2, <3>3, <2>2
  <2> QED BY <2>1, <2>2
<1> QED BY <1>1, <1>2, <1>s DEF GarbageInv

\* Freeing the cycles drops only values of cells that are being freed.
LEMMA FreeCycleGarbage ==
  ASSUME IInv, GarbageInv, NEW p \in Addr, FreeCycleStep(p)
  PROVE  GarbageInv'
<1> USE DEF IInv, HeapInv
<1>1. pc = "free_cycles" /\ pc' = pc /\ list[p] = "tmp"
  BY DEF FreeCycleStep
<1>2. CASE kind[p] = "var_ref"
  <2>1. list' = [list EXCEPT ![p] = "zero"] /\ owner' = owner /\ target' = target
    BY <1>2 DEF FreeCycleStep, refs
  <2>2. On("gc")' = On("gc") /\ Doomed' = Doomed
    BY <1>1, <2>1 DEF On, Doomed, TypeOK
  <2> QED BY <1>1, <2>1, <2>2 DEF GarbageInv
<1>3. CASE kind[p] # "var_ref"
  <2>1. p \in Live /\ FreeObject(p)
    BY <1>1, <1>3 DEF FreeCycleStep, ListsInv, Live, TypeOK
  <2>2. /\ p \in Doomed /\ DyingVars(p) \subseteq Doomed
        /\ On("gc")' = On("gc") /\ Doomed' \subseteq Doomed
    BY <1>1, <1>3, <2>1, FreedGraph
  <2>3. \A r \in Ref : owner[r] \notin Doomed => owner'[r] = owner[r] /\ target'[r] = target[r]
    <3>1. \A r \in Ref : owner[r] \notin Doomed => r \notin Dropped(p)
      BY <2>2 DEF Dropped, Own
    <3> QED BY <3>1, <2>1 DEF FreeObject, Clear
  <2>4. ASSUME NEW U \in SUBSET On("gc"), U # {}
        PROVE  \E r \in Ref : target'[r] \in U /\ owner'[r] \notin U \cup Doomed'
    <3>1. PICK r \in Ref : target[r] \in U /\ owner[r] \notin U \cup Doomed
      BY <1>1, <2>4 DEF GarbageInv
    <3> QED BY <3>1, <2>2, <2>3
  <2> QED BY <1>1, <2>2, <2>4 DEF GarbageInv
<1> QED BY <1>2, <1>3

\* The program never enters the second half of a collection, and only
\* JS_FreeRuntime and JS_NewRuntime change what closing says.
LEMMA ProgramPc ==
  ASSUME Program, ~FreeRuntime, ~NewRuntime
  PROVE  ~closing' /\ pc' \in {"run", "free_zero", "weak"}
<1> DEFINE G == ~closing' /\ pc' \in {"run", "free_zero", "weak"}
<1>1. ASSUME NEW R, FreeValues(R) PROVE pc' \in {"run", "free_zero"}
  BY <1>1 DEF FreeValues
<1>2. ASSUME NEW a \in Addr, NEW r \in Ref, NEW k, NewObject(a, k, r) PROVE G
  BY <1>2 DEF NewObject, Running
<1>3. ASSUME NEW a \in Addr, NEW r \in Ref, NEW key, NewWeakRef(a, r, key) PROVE G
  BY <1>3 DEF NewWeakRef, Running
<1>4. ASSUME NEW a \in Addr, NEW r \in Ref, Deref(a, r) PROVE G
  BY <1>4 DEF Deref, Running
<1>5. ASSUME NEW a \in Addr, NEW key, NEW c, NEW r \in Ref, MapSet(a, key, c, r) PROVE G
  BY <1>5 DEF MapSet, Running
<1>6. ASSUME NEW a \in Addr, NEW v \in Addr, NEW r \in Ref,
             CaptureVar(a, v, r) \/ ShareVar(a, v, r) PROVE G
  BY <1>6 DEF CaptureVar, ShareVar, Running
<1>7. ASSUME NEW a \in Addr, NEW s \in Ref, NEW r \in Ref, CloseVar(a, s, r) PROVE G
  BY <1>7 DEF CloseVar, Running
<1>8. ASSUME NEW s \in Ref, NEW r \in Ref, ReadValue(s, r) PROVE G
  BY <1>8 DEF ReadValue, Running
<1>9. ASSUME NEW s \in Ref, NEW r \in Ref, SetValue(s, r) PROVE G
  BY <1>9, <1>1 DEF SetValue, Running
<1>10. ASSUME NEW s \in Ref, NEW h \in Addr, AddProperty(s, h) PROVE G
  BY <1>10 DEF AddProperty, Running
<1>11. ASSUME NEW s \in Ref, FreeValue(s) PROVE G
  BY <1>11, <1>1 DEF FreeValue, Running
<1>12. ASSUME NEW w \in Addr, MapDelete(w) PROVE G
  BY <1>12, <1>1 DEF MapDelete, Running
<1>13. CASE RunGC
  BY <1>13 DEF RunGC, Running
<1> QED BY <1>2, <1>3, <1>4, <1>5, <1>6, <1>7, <1>8, <1>9, <1>10, <1>11, <1>12, <1>13
        DEF Program

LEMMA GarbageStep ==
  ASSUME IInv, GarbageInv, [Next]_vars
  PROVE  GarbageInv'
<1>0. ASSUME UNCHANGED <<list, owner, target>>, pc' = pc \/ pc = "scan" \/ pc = "free_cycles"
      PROVE  GarbageInv'
  BY <1>0 DEF GarbageInv, On, Doomed
<1>1. CASE UNCHANGED vars
  BY <1>1, <1>0 DEF vars, cells, refs
<1>2. CASE Program
  <2>1. pc' \notin {"scan", "free_cycles", "sweep"}
    BY <1>2, ProgramPc DEF FreeRuntime, NewRuntime
  <2> QED BY <2>1 DEF GarbageInv
<1>3. CASE Collector
  <2>1. ASSUME NEW p \in Addr, FreeZeroStep(p) \/ WeakStep(p) \/ DecrefStep(p) PROVE GarbageInv'
    BY <2>1 DEF FreeZeroStep, WeakStep, DecrefStep, GarbageInv
  <2>2. ASSUME NEW p \in Addr, ScanStep(p) PROVE GarbageInv'
    BY <2>2, ScanStepGarbage
  <2>3. ASSUME NEW p \in Addr, FreeCycleStep(p) PROVE GarbageInv'
    BY <2>3, FreeCycleGarbage
  <2>4. CASE FreeZeroDone \/ WeakDone \/ Sweep
    BY <2>4 DEF FreeZeroDone, WeakDone, Sweep, GarbageInv
  <2>5. CASE DecrefDone
    BY <2>5, DecrefDoneGarbage
  <2>6. CASE ScanDone \/ FreeCyclesDone
    BY <2>6, <1>0 DEF ScanDone, FreeCyclesDone, cells, refs
  <2> QED BY <1>3, <2>1, <2>2, <2>3, <2>4, <2>5, <2>6 DEF Collector
<1> QED BY <1>1, <1>2, <1>3 DEF Next

\* When the collector ends, no group of objects survives by its own references.
THEOREM CollectorIsComplete == Spec => []NoGarbageLeft
<1>1. Init => GarbageInv
  BY DEF Init, GarbageInv
<1>2. IInv /\ GarbageInv /\ [Next]_vars => GarbageInv'
  BY GarbageStep
<1>3. GarbageInv => NoGarbageLeft
  BY DEF GarbageInv, NoGarbageLeft, Closed
<1> QED BY <1>1, <1>2, <1>3, HeapInvariant, PTL DEF Spec

-----------------------------------------------------------------------------
(***************************************************************************)
(* A runtime that is freed leaves nothing behind                           *)
(***************************************************************************)

\* JS_FreeRuntime collects without the program, and ends with an empty heap.
ClosingInv ==
    /\ closing => /\ Own(Stack) = {}
                  /\ pc \in {"decref", "scan", "free_cycles", "sweep", "dead"}
    /\ pc = "dead" => \A a \in Addr : kind[a] = "free"

\* The last loop of JS_FreeRuntime: no object is in use, hence no weak
\* reference is left that could keep the structure of a dead one.
LEMMA LastSweep ==
  ASSUME IInv, GarbageInv, ClosingInv, Sweep, closing
  PROVE  \A a \in Addr : kind'[a] = "free"
<1> USE DEF IInv, HeapInv
<1>1. pc = "sweep" /\ Own(Stack) = {}
  BY DEF Sweep, ClosingInv
<1>2. On("gc") = {}
  <2> SUFFICES ASSUME On("gc") # {} PROVE FALSE
    OBVIOUS
  <2>1. PICK r \in Ref : target[r] \in On("gc") /\ owner[r] \notin On("gc") \cup Doomed
    BY <1>1 DEF GarbageInv
  <2>2. owner[r] # Unused /\ owner[r] # Stack
    BY <1>1, <2>1, TokenAssumption DEF PlacesInv, On, Own
  <2>3. owner[r] \in Live
    BY <2>2 DEF PlacesInv, TypeOK
  <2> QED BY <2>1, <2>3 DEF ListsInv, Live, On, Doomed, TypeOK, Lists
<1>3. Live = {}
  BY <1>1, <1>2 DEF ListsInv, Live, On, TypeOK, Lists
<1>4. \A k \in Addr : wcount[k] = 0
  <2>1. weakref_list = {}
    BY <1>3 DEF weakref_list, Live
  <2>2. \A k \in Addr : {w \in weakref_list : wkey[w] = k} = {}
    BY <2>1
  <2> QED BY <2>2, FS_EmptySet DEF WeakCountExact
<1>5. \A a \in Addr : kind[a] = "free" \/ a \in On("zero")
  <2> SUFFICES ASSUME NEW a \in Addr, kind[a] # "free" PROVE a \in On("zero")
    OBVIOUS
  <2>1. kind[a] = "zombie"
    BY <1>3 DEF Live
  <2>2. list[a] # "none"
    <3>1. ~(wcount[a] > 0)
      BY <1>4
    <3> QED BY <2>1, <3>1 DEF WeakCountExact
  <2> QED BY <2>1, <2>2 DEF ListsInv, On
<1> QED BY <1>4, <1>5 DEF Sweep, On

LEMMA ClosingStep ==
  ASSUME IInv, GarbageInv, ClosingInv, [Next]_vars
  PROVE  ClosingInv'
<1>1. CASE UNCHANGED vars
  BY <1>1 DEF vars, cells, refs, ClosingInv, Own
<1>2. CASE Program
  <2>1. CASE FreeRuntime
    BY <2>1 DEF FreeRuntime, ClosingInv, Own, refs
  <2>2. CASE NewRuntime
    BY <2>2 DEF NewRuntime, ClosingInv
  <2>3. CASE ~FreeRuntime /\ ~NewRuntime
    <3>1. ~closing' /\ pc' # "dead"
      BY <1>2, <2>3, ProgramPc
    <3> QED BY <3>1 DEF ClosingInv
  <2> QED BY <2>1, <2>2, <2>3
<1>3. CASE Collector
  <2>1. ASSUME NEW p \in Addr, FreeZeroStep(p) \/ WeakStep(p) PROVE ClosingInv'
    BY <2>1 DEF FreeZeroStep, WeakStep, ClosingInv, cells, refs
  <2>2. ASSUME NEW p \in Addr, DecrefStep(p) \/ ScanStep(p) PROVE ClosingInv'
    BY <2>2 DEF DecrefStep, ScanStep, ClosingInv, Own, refs
  <2>3. ASSUME NEW p \in Addr, FreeCycleStep(p) PROVE ClosingInv'
    <3>1. pc = "free_cycles" /\ pc' = pc /\ closing' = closing
      BY <2>3 DEF FreeCycleStep
    <3>2. Own(Stack) = {} => Own(Stack)' = {}
      <4>1. CASE kind[p] = "var_ref"
        BY <2>3, <4>1 DEF FreeCycleStep, Own, refs
      <4>2. CASE kind[p] # "var_ref"
        <5>1. owner' = [r \in Ref |-> IF r \in Dropped(p) THEN Unused ELSE owner[r]]
          BY <2>3, <4>2 DEF FreeCycleStep, FreeObject, Clear
        <5> QED BY <5>1, TokenAssumption DEF Own
      <4> QED BY <4>1, <4>2
    <3> QED BY <3>1, <3>2 DEF ClosingInv
  <2>4. CASE Sweep
    <3>1. pc = "sweep" /\ closing' = closing /\ owner' = owner
          /\ pc' = IF closing THEN "dead" ELSE "run"
      BY <2>4 DEF Sweep, refs
    <3>2. closing => \A a \in Addr : kind'[a] = "free"
      BY <2>4, LastSweep
    <3> QED BY <3>1, <3>2 DEF ClosingInv, Own
  <2>5. CASE FreeZeroDone \/ WeakDone
    BY <2>5 DEF FreeZeroDone, WeakDone, ClosingInv
  <2>6. CASE DecrefDone \/ ScanDone \/ FreeCyclesDone
    BY <2>6 DEF DecrefDone, ScanDone, FreeCyclesDone, ClosingInv, Own, cells, refs
  <2> QED BY <1>3, <2>1, <2>2, <2>3, <2>4, <2>5, <2>6 DEF Collector
<1> QED BY <1>1, <1>2, <1>3 DEF Next

\* JS_FreeRuntime finds its lists empty: every cell has been freed.
THEOREM NothingLeaks == Spec => []RuntimeEmpty
<1> DEFINE J == GarbageInv /\ ClosingInv
<1>1. Init => J
  BY DEF Init, GarbageInv, ClosingInv
<1>2. IInv /\ J /\ [Next]_vars => J'
  BY GarbageStep, ClosingStep
<1>3. J => RuntimeEmpty
  BY DEF ClosingInv, RuntimeEmpty
<1> HIDE DEF J
<1> QED BY <1>1, <1>2, <1>3, HeapInvariant, PTL DEF Spec

\* The inductive invariant itself: each loop leaves the lists, counts and
\* marks in the state the next one relies on.
THEOREM HeapStaysConsistent == Spec => []HeapInv
<1>1. IInv => HeapInv
  BY DEF IInv
<1> QED BY <1>1, HeapInvariant, PTL

=============================================================================
